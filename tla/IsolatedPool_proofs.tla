------------------------- MODULE IsolatedPool_proofs -------------------------
(***************************************************************************)
(* Proofs about IsolatedPool for every number of cases, pool size and      *)
(* timeout.  The inductive invariant puts each case in one of three places *)
(* (OneOwner), says what the processes of the children have done so far    *)
(* (Progress), and what a verdict given to a case says of its process      *)
(* (ClassifiedByOwnChild).                                                 *)
(***************************************************************************)
EXTENDS IsolatedPool, FiniteSetTheorems, TLAPS

(* Processes are the children; a process that has an exit status or has    *)
(* written has run its case.                                               *)
Progress ==
  /\ {p \in Cases : proc[p] \notin {"none", "reaped"}} = children
  /\ \A p \in Cases :
       /\ p < queued <=> proc[p] # "none" \/ Shown[p] # None
       /\ "result" \in {pipe[p], output[p]} => outcome[p] \in Outcomes
       /\ proc[p] \in {"closing", "zombie"} => status[p] # "unset"

Reported ==
  exit = "success" => \A p \in Cases : results[p] = "pass" /\ completed[p] = None

IInv == TypeOK /\ OneOwner /\ Progress /\ ClassifiedByOwnChild /\ Reported

-----------------------------------------------------------------------------
LEMMA InitIInv == Init => IInv
<1> SUFFICES ASSUME Init PROVE IInv
  OBVIOUS
<1> USE IsolationAssumption DEF Init
<1>1. TypeOK
  BY DEF TypeOK, Text, Verdict, Outcomes, None, Cases
<1>2. Shown = [p \in Cases |-> None]
  BY DEF Shown, Moved
<1>3. OneOwner
  BY <1>2 DEF OneOwner, Cases
<1>4. Progress
  BY <1>2 DEF Progress, Cases
<1>5. ClassifiedByOwnChild
  BY <1>2 DEF ClassifiedByOwnChild, Outcomes, None
<1>6. Reported
  BY DEF Reported
<1> QED
  BY <1>1, <1>3, <1>4, <1>5, <1>6 DEF IInv

(* The steps that only move the loop or let time pass. *)
LEMMA QuietSteps ==
  ASSUME IInv, StartsDone \/ PollReturns \/ Tick \/ ParentThrows \/ Finished
  PROVE  IInv'
<1> USE IsolationAssumption DEF IInv
<1>1. CASE StartsDone
  <2>1. Shown' = Shown
    BY <1>1 DEF StartsDone, poolVars, Shown, Moved
  <2>2. TypeOK'
    BY <1>1 DEF StartsDone, TypeOK, poolVars, childVars, envVars
  <2>3. OneOwner'
    BY <1>1, <2>1 DEF StartsDone, OneOwner, poolVars, childVars, envVars
  <2>4. Progress' /\ ClassifiedByOwnChild' /\ Reported'
    BY <1>1, <2>1 DEF StartsDone, Progress, ClassifiedByOwnChild, Reported, poolVars, childVars, envVars
  <2> QED
    BY <2>2, <2>3, <2>4
<1>2. CASE PollReturns
  <2>1. Shown' = Shown
    BY <1>2 DEF PollReturns, poolVars, Shown, Moved
  <2>2. TypeOK'
    BY <1>2 DEF PollReturns, Readable, TypeOK, poolVars, childVars, envVars
  <2>3. OneOwner'
    BY <1>2, <2>1 DEF PollReturns, OneOwner, poolVars, childVars, envVars
  <2>4. Progress' /\ ClassifiedByOwnChild' /\ Reported'
    BY <1>2, <2>1 DEF PollReturns, Progress, ClassifiedByOwnChild, Reported, poolVars, childVars, envVars
  <2> QED
    BY <2>2, <2>3, <2>4
<1>3. CASE Tick
  <2>1. Shown' = Shown
    BY <1>3 DEF Tick, poolVars, Shown, Moved
  <2>2. TypeOK'
    BY <1>3 DEF Tick, TypeOK, poolVars, childVars, loopVars
  <2>3. OneOwner'
    BY <1>3, <2>1 DEF Tick, OneOwner, poolVars, loopVars
  <2>4. Progress' /\ Reported'
    BY <1>3, <2>1 DEF Tick, Progress, Reported, poolVars, childVars, loopVars
  <2>5. ClassifiedByOwnChild'
    BY <1>3, <2>1 DEF Tick, TypeOK, ClassifiedByOwnChild, poolVars, childVars, loopVars
  <2> QED
    BY <2>2, <2>3, <2>4, <2>5
<1>4. CASE ParentThrows
  <2>1. Shown' = Shown
    BY <1>4 DEF ParentThrows, Shown, Moved
  <2>2. TypeOK'
    BY <1>4 DEF ParentThrows, TypeOK, childVars, loopVars
  <2>3. OneOwner'
    BY <1>4, <2>1 DEF ParentThrows, OneOwner, loopVars
  <2>4. Progress' /\ ClassifiedByOwnChild' /\ Reported'
    BY <1>4, <2>1 DEF ParentThrows, Progress, ClassifiedByOwnChild, Reported, childVars, loopVars
  <2> QED
    BY <2>2, <2>3, <2>4
<1>5. CASE Finished
  <2>1. Shown' = Shown
    BY <1>5 DEF Finished, vars, poolVars, Shown, Moved
  <2> QED
    BY <1>5, <2>1 DEF Finished, vars, loopVars, poolVars, childVars, envVars,
       TypeOK, OneOwner, Progress, ClassifiedByOwnChild, Reported
<1> QED
  BY <1>1, <1>2, <1>3, <1>4, <1>5

(* The case at the head of the queue gets a child or, at once, a verdict. *)
LEMMA StartSteps ==
  ASSUME IInv, StartChild \/ StartFails
  PROVE  IInv'
<1> USE IsolationAssumption DEF IInv
<1>a. queued \in Cases
  BY DEF StartChild, StartFails, TakenFromQueue, TypeOK, Cases
<1>b. queued \notin children /\ Shown[queued] = None
  BY <1>a DEF OneOwner, Cases
<1>c. ~(queued < queued)
  BY <1>a DEF Cases
<1>d. proc[queued] = "none"
  BY <1>a, <1>c DEF Progress
<1>0. queued \in Cases /\ queued \notin children /\ Shown[queued] = None /\ proc[queued] = "none"
  BY <1>a, <1>b, <1>d
<1>1. CASE StartChild
  <2>1. Shown' = Shown
    BY <1>1 DEF StartChild, Shown, Moved
  <2>2. TypeOK'
    BY <1>0, <1>1 DEF StartChild, TakenFromQueue, TypeOK, envVars, Cases
  <2>3. OneOwner'
    BY <1>0, <1>1, <2>1 DEF StartChild, TakenFromQueue, TypeOK, OneOwner, Cases
  <2>4. Progress'
    BY <1>0, <1>1, <2>1 DEF StartChild, TakenFromQueue, TypeOK, Progress, Cases
  <2>5. ClassifiedByOwnChild' /\ Reported'
    BY <1>1, <2>1 DEF StartChild, ClassifiedByOwnChild, Reported, envVars
  <2> QED
    BY <2>2, <2>3, <2>4, <2>5
<1>2. CASE StartFails
  <2>1. Shown' = [Shown EXCEPT ![queued] = "nostart"]
    BY <1>0, <1>2 DEF StartFails, TypeOK, Shown, Moved, None
  <2>2. TypeOK'
    BY <1>0, <1>2 DEF StartFails, TakenFromQueue, TypeOK, childVars, Verdict, Cases
  <2>3. DOMAIN Shown = Cases
    BY DEF Shown, Moved
  <2>4. results[queued] = None
    BY <1>0 DEF Shown, Moved, OneOwner
  <2>5. OneOwner'
    BY <1>0, <1>2, <2>1, <2>3, <2>4 DEF StartFails, TakenFromQueue, TypeOK, OneOwner, Cases, None
  <2>6. Progress'
    BY <1>0, <1>2, <2>1, <2>3 DEF StartFails, TakenFromQueue, TypeOK, Progress, childVars, Cases, None
  <2>7. ClassifiedByOwnChild' /\ Reported'
    BY <1>0, <1>2, <2>1, <2>3 DEF StartFails, ClassifiedByOwnChild, Reported, childVars, Outcomes
  <2> QED
    BY <2>2, <2>5, <2>6, <2>7
<1> QED
  BY <1>1, <1>2

(* The steps of a child process. *)
LEMMA ChildSteps ==
  ASSUME IInv, NEW p \in Cases, Child(p) \/ Abort(p)
  PROVE  IInv'
<1> USE IsolationAssumption DEF IInv
<1>0. /\ UNCHANGED <<loopVars, poolVars, age, faults>>
      /\ Shown' = Shown
  BY DEF Child, RunCase, Exit, End, Abort, CloseWith, envVars, poolVars, Shown, Moved
<1>1. p \in children /\ Shown[p] = None /\ p < queued
  BY DEF Child, RunCase, Exit, End, Abort, CloseWith, Alive, Progress, OneOwner, TypeOK, Cases
<1>2. TypeOK'
  BY <1>0 DEF Child, RunCase, Exit, End, Abort, CloseWith, TypeOK, loopVars, poolVars, childVars, envVars,
     Text, Outcomes
<1>3. OneOwner'
  BY <1>0 DEF OneOwner, loopVars, poolVars
<1>4. Progress'
  BY <1>0, <1>1 DEF Child, RunCase, Exit, End, Abort, CloseWith, Alive, TypeOK, Progress, loopVars, poolVars,
     childVars, Outcomes
<1>5. ClassifiedByOwnChild'
  BY <1>0, <1>1 DEF Child, RunCase, Exit, End, Abort, CloseWith, TypeOK, ClassifiedByOwnChild, loopVars, poolVars,
     childVars, Outcomes, None
<1>6. Reported'
  BY <1>0 DEF Reported, poolVars
<1> QED
  BY <1>2, <1>3, <1>4, <1>5, <1>6

(* Retiring children gives each its verdict and nothing else. *)
LEMMA RetireShape ==
  ASSUME IInv, NEW gone \in SUBSET children, NEW verdict \in [gone -> Verdict],
         Retire(gone, verdict), UNCHANGED results
  PROVE  /\ children' = children \ gone
         /\ completed' \in [Cases -> Verdict \cup {None}]
         /\ proc' \in [Cases -> {"none", "running", "written", "closing", "zombie", "reaped"}]
         /\ \A p \in gone : Shown'[p] = verdict[p] /\ results[p] = None /\ p < queued
         /\ \A p \in gone : verdict[p] # None /\ proc'[p] = "reaped"
         /\ \A p \in Cases \ gone : Shown'[p] = Shown[p] /\ completed'[p] = completed[p] /\ proc'[p] = proc[p]
<1> USE DEF IInv
<1>1. gone \subseteq Cases /\ None \notin Verdict
  BY DEF TypeOK, None, Verdict, Outcomes
<1>2. children' = children \ gone
  BY DEF Retire
<1>3. completed' \in [Cases -> Verdict \cup {None}]
  BY <1>1 DEF Retire, TypeOK
<1>4. proc' \in [Cases -> {"none", "running", "written", "closing", "zombie", "reaped"}]
  BY DEF Retire, TypeOK
<1>5. \A p \in Cases \ gone : completed'[p] = completed[p] /\ proc'[p] = proc[p]
  BY DEF Retire
<1>6. \A p \in gone : completed'[p] = verdict[p] /\ proc'[p] = "reaped" /\ verdict[p] # None
  BY <1>1 DEF Retire
<1>7. \A p \in Cases \ gone : Shown'[p] = Shown[p]
  BY <1>5 DEF Shown, Moved
<1>8. \A p \in gone : Shown'[p] = verdict[p]
  BY <1>1, <1>6 DEF Shown, Moved
<1>9. \A p \in gone : p < queued /\ Shown[p] = None
  BY <1>1 DEF OneOwner, TypeOK, Cases
<1>10. \A p \in gone : results[p] = None
  BY <1>1, <1>9 DEF Shown, Moved
<1> QED
  BY <1>2, <1>3, <1>4, <1>5, <1>6, <1>7, <1>8, <1>9, <1>10

(* The steps that retire children keep the places of the cases. *)
LEMMA RetireKeeps ==
  ASSUME IInv, NEW gone \in SUBSET children, NEW verdict \in [gone -> Verdict],
         Retire(gone, verdict), UNCHANGED <<queued, results, exit, status, outcome, age>>,
         phase # "merge", phase' # "merge",
         exit = "running",
         \A p \in Cases : "result" \in {pipe'[p], output'[p]} => "result" \in {pipe[p], output[p]},
         \A p \in gone :
           /\ verdict[p] \in Outcomes => status[p] = "clean" /\ verdict[p] = outcome[p]
           /\ verdict[p] = "died" => status[p] = "bad"
           /\ verdict[p] = "mute" => status[p] = "clean"
           /\ verdict[p] = "late" => Timeout > 0 /\ age[p] = Timeout
           /\ verdict[p] # "lost"
  PROVE  OneOwner' /\ Progress' /\ ClassifiedByOwnChild' /\ Reported'
<1>0. gone \subseteq Cases
  BY DEF IInv, TypeOK
<1>1. /\ children' = children \ gone
      /\ \A p \in gone : Shown'[p] = verdict[p] /\ results[p] = None /\ p < queued
      /\ \A p \in gone : verdict[p] # None /\ proc'[p] = "reaped"
      /\ \A p \in Cases \ gone : Shown'[p] = Shown[p] /\ completed'[p] = completed[p] /\ proc'[p] = proc[p]
  BY RetireShape
<1>2. OneOwner'
  BY <1>0, <1>1 DEF IInv, OneOwner, TypeOK, Cases
<1>3. {p \in Cases : proc'[p] \notin {"none", "reaped"}} = children'
  BY <1>0, <1>1 DEF IInv, Progress
<1>4. ASSUME NEW p \in Cases
      PROVE  /\ p < queued <=> proc'[p] # "none" \/ Shown'[p] # None
             /\ "result" \in {pipe'[p], output'[p]} => outcome[p] \in Outcomes
             /\ proc'[p] \in {"closing", "zombie"} => status[p] # "unset"
  <2>1. CASE p \in gone
    BY <2>1, <1>1 DEF IInv, Progress
  <2>2. CASE p \notin gone
    BY <2>2, <1>1 DEF IInv, Progress
  <2> QED
    BY <2>1, <2>2
<1>5. Progress'
  BY <1>3, <1>4 DEF Progress
<1>6. ClassifiedByOwnChild'
  BY <1>0, <1>1 DEF IInv, ClassifiedByOwnChild
<1>7. Reported'
  BY DEF Reported
<1> QED
  BY <1>2, <1>5, <1>6, <1>7

(* What finishIsolatedChild says of an ended child is about that child. *)
LEMMA JudgedOwn ==
  ASSUME IInv, NEW p \in Cases, Ended(p), NEW text \in {pipe[p], output[p]}
  PROVE  /\ Judged(p, text) \in Verdict \ {"late", "lost", "nostart", "unread"}
         /\ Judged(p, text) \in Outcomes => status[p] = "clean" /\ Judged(p, text) = outcome[p]
         /\ Judged(p, text) = "died" => status[p] = "bad"
         /\ Judged(p, text) = "mute" => status[p] = "clean"
<1>1. status[p] \in {"clean", "bad"}
  BY DEF IInv, TypeOK, Progress, Ended
<1>2. text = "result" => outcome[p] \in Outcomes
  BY DEF IInv, Progress
<1> QED
  BY <1>1, <1>2 DEF Judged, Verdict, Outcomes

LEMMA FinishStep ==
  ASSUME IInv, FinishDrained
  PROVE  IInv'
<1>1. CASE DrainedAndEnded # {}
  <2> DEFINE gone == DrainedAndEnded
             verdict == [p \in gone |-> Judged(p, output[p])]
  <2>1. gone \in SUBSET children /\ gone \subseteq Cases
    BY DEF DrainedAndEnded, IInv, TypeOK
  <2>2. \A p \in gone :
          /\ verdict[p] \in Verdict \ {"late", "lost", "nostart", "unread"}
          /\ verdict[p] \in Outcomes => status[p] = "clean" /\ verdict[p] = outcome[p]
          /\ verdict[p] = "died" => status[p] = "bad"
          /\ verdict[p] = "mute" => status[p] = "clean"
    <3> SUFFICES ASSUME NEW p \in gone
                 PROVE  /\ Judged(p, output[p]) \in Verdict \ {"late", "lost", "nostart", "unread"}
                        /\ Judged(p, output[p]) \in Outcomes
                              => status[p] = "clean" /\ Judged(p, output[p]) = outcome[p]
                        /\ Judged(p, output[p]) = "died" => status[p] = "bad"
                        /\ Judged(p, output[p]) = "mute" => status[p] = "clean"
      OBVIOUS
    <3>1. p \in Cases /\ Ended(p)
      BY <2>1 DEF DrainedAndEnded
    <3> QED
      BY <3>1, JudgedOwn
  <2>3. verdict \in [gone -> Verdict]
    BY <2>2
  <2>4. /\ Retire(gone, verdict) /\ phase' = "process" /\ phase = "pump" /\ exit = "running"
        /\ UNCHANGED <<queued, ready, drained, output, results, exit, status, pipe, outcome, age, faults>>
    BY <1>1 DEF FinishDrained, envVars
  <2> HIDE DEF gone, verdict
  <2>5. OneOwner' /\ Progress' /\ ClassifiedByOwnChild' /\ Reported'
    BY <2>1, <2>2, <2>3, <2>4, RetireKeeps
  <2>6. /\ children' = children \ gone
        /\ completed' \in [Cases -> Verdict \cup {None}]
        /\ proc' \in [Cases -> {"none", "running", "written", "closing", "zombie", "reaped"}]
    BY <2>1, <2>3, <2>4, RetireShape
  <2>7. ready = {}
    BY <2>4 DEF IInv, TypeOK
  <2>8. TypeOK'
    BY <2>4, <2>6, <2>7 DEF IInv, TypeOK
  <2> QED
    BY <2>5, <2>8 DEF IInv
<1>2. CASE DrainedAndEnded = {}
  <2>1. UNCHANGED <<queued, ready, poolVars, childVars, envVars>> /\ phase' = "late" /\ phase = "pump"
    BY <1>2 DEF FinishDrained, poolVars, childVars
  <2>2. Shown' = Shown
    BY <2>1 DEF Shown, Moved, poolVars
  <2> QED
    BY <2>1, <2>2 DEF IInv, TypeOK, OneOwner, Progress, ClassifiedByOwnChild, Reported, poolVars, childVars, envVars
<1> QED
  BY <1>1, <1>2

LEMMA KillStep ==
  ASSUME IInv, KillLate
  PROVE  IInv'
<1>1. CASE Late # {}
  <2> DEFINE verdict == [p \in Late |-> "late"]
  <2>1. Late \in SUBSET children /\ Late \subseteq Cases
    BY DEF Late, IInv, TypeOK
  <2>2. \A p \in Late : Timeout > 0 /\ age[p] = Timeout
    BY <2>1, IsolationAssumption DEF Late, IInv, TypeOK
  <2>3. verdict \in [Late -> Verdict] /\ \A p \in Late : verdict[p] = "late"
    BY DEF Verdict
  <2>4. /\ Retire(Late, verdict) /\ phase' = "process" /\ phase = "late" /\ exit = "running"
        /\ UNCHANGED <<queued, ready, drained, output, results, exit, status, pipe, outcome, age, faults>>
    BY <1>1 DEF KillLate, envVars
  <2> HIDE DEF verdict
  <2>5. OneOwner' /\ Progress' /\ ClassifiedByOwnChild' /\ Reported'
    <3>1. \A p \in Late :
            /\ verdict[p] \in Outcomes => status[p] = "clean" /\ verdict[p] = outcome[p]
            /\ verdict[p] = "died" => status[p] = "bad"
            /\ verdict[p] = "mute" => status[p] = "clean"
            /\ verdict[p] = "late" => Timeout > 0 /\ age[p] = Timeout
            /\ verdict[p] # "lost"
      BY <2>2, <2>3 DEF Outcomes
    <3>2. phase # "merge" /\ phase' # "merge"
      BY <2>4
    <3> QED
      BY <2>1, <2>3, <2>4, <3>1, <3>2, RetireKeeps
  <2>6. /\ children' = children \ Late
        /\ completed' \in [Cases -> Verdict \cup {None}]
        /\ proc' \in [Cases -> {"none", "running", "written", "closing", "zombie", "reaped"}]
    BY <2>1, <2>3, <2>4, RetireShape
  <2>7. ready = {}
    BY <2>4 DEF IInv, TypeOK
  <2>8. TypeOK'
    BY <2>4, <2>6, <2>7 DEF IInv, TypeOK
  <2> QED
    BY <2>5, <2>8 DEF IInv
<1>2. CASE Late = {}
  <2>1. UNCHANGED <<queued, ready, poolVars, childVars, envVars>> /\ phase' = "poll" /\ phase = "late"
    BY <1>2 DEF KillLate, poolVars, childVars
  <2>2. Shown' = Shown
    BY <2>1 DEF Shown, Moved, poolVars
  <2> QED
    BY <2>1, <2>2 DEF IInv, TypeOK, OneOwner, Progress, ClassifiedByOwnChild, Reported, poolVars, childVars, envVars
<1> QED
  BY <1>1, <1>2

LEMMA ReadSteps ==
  ASSUME IInv, NEW p \in Cases, ReadChild(p) \/ ReadFails(p)
  PROVE  IInv'
<1> DEFINE text == IF pipe[p] # "empty" THEN pipe[p] ELSE output[p]
<1>1. p \in ready /\ ready \subseteq children /\ phase = "read" /\ exit = "running"
  BY DEF ReadChild, ReadFails, Served, IInv, TypeOK
<1>2. text \in {pipe[p], output[p]} /\ text \in Text
  BY DEF IInv, TypeOK
<1>3. CASE ReadChild(p) /\ Ended(p)
  <2> DEFINE verdict == [q \in {p} |-> Judged(p, text)]
  <2>1. /\ Judged(p, text) \in Verdict \ {"late", "lost", "nostart", "unread"}
        /\ Judged(p, text) \in Outcomes => status[p] = "clean" /\ Judged(p, text) = outcome[p]
        /\ Judged(p, text) = "died" => status[p] = "bad"
        /\ Judged(p, text) = "mute" => status[p] = "clean"
    BY <1>2, <1>3, JudgedOwn
  <2>2. {p} \in SUBSET children /\ verdict \in [{p} -> Verdict] /\ verdict[p] = Judged(p, text)
    BY <1>1, <2>1
  <2>3. /\ Retire({p}, verdict) /\ output' = [output EXCEPT ![p] = text] /\ pipe' = [pipe EXCEPT ![p] = "empty"]
        /\ drained' = IF Closed(p) THEN drained \cup {p} ELSE drained
        /\ RoundGoesOn(ready \ {p})
        /\ UNCHANGED <<queued, results, exit, status, outcome, age, faults>>
    BY <1>3 DEF ReadChild, envVars
  <2> HIDE DEF verdict, text
  <2>4. \A q \in Cases : "result" \in {pipe'[q], output'[q]} => "result" \in {pipe[q], output[q]}
    BY <1>2, <2>3 DEF IInv, TypeOK
  <2>5. phase # "merge" /\ phase' # "merge"
    BY <1>1, <2>3 DEF RoundGoesOn
  <2>6. OneOwner' /\ Progress' /\ ClassifiedByOwnChild' /\ Reported'
    BY <1>1, <2>1, <2>2, <2>3, <2>4, <2>5, RetireKeeps
  <2>7. /\ children' = children \ {p}
        /\ completed' \in [Cases -> Verdict \cup {None}]
        /\ proc' \in [Cases -> {"none", "running", "written", "closing", "zombie", "reaped"}]
    BY <2>2, <2>3, RetireShape
  <2>8. TypeOK'
    BY <1>1, <1>2, <2>3, <2>7 DEF IInv, TypeOK, RoundGoesOn, Text
  <2> QED
    BY <2>6, <2>8 DEF IInv
<1>4. CASE ReadChild(p) /\ ~Ended(p)
  <2>1. /\ UNCHANGED <<children, proc, completed>>
        /\ output' = [output EXCEPT ![p] = text] /\ pipe' = [pipe EXCEPT ![p] = "empty"]
        /\ drained' = IF Closed(p) THEN drained \cup {p} ELSE drained
        /\ RoundGoesOn(ready \ {p})
        /\ UNCHANGED <<queued, results, exit, status, outcome, age, faults>>
    BY <1>4 DEF ReadChild, envVars
  <2> HIDE DEF text
  <2>2. Shown' = Shown
    BY <2>1 DEF Shown, Moved
  <2>3. \A q \in Cases : "result" \in {pipe'[q], output'[q]} => "result" \in {pipe[q], output[q]}
    BY <1>2, <2>1 DEF IInv, TypeOK
  <2>4. TypeOK'
    BY <1>1, <1>2, <2>1 DEF IInv, TypeOK, RoundGoesOn, Text
  <2>5. OneOwner'
    BY <1>1, <2>1, <2>2 DEF IInv, OneOwner, RoundGoesOn
  <2>6. Progress' /\ ClassifiedByOwnChild' /\ Reported'
    BY <2>1, <2>2, <2>3 DEF IInv, Progress, ClassifiedByOwnChild, Reported
  <2> QED
    BY <2>4, <2>5, <2>6 DEF IInv
<1>5. CASE ReadFails(p)
  <2> DEFINE verdict == [q \in {p} |-> "unread"]
  <2>1. {p} \in SUBSET children /\ verdict \in [{p} -> Verdict] /\ verdict[p] = "unread"
    BY <1>1 DEF Verdict
  <2>2. /\ Retire({p}, verdict) /\ RoundGoesOn(ready \ ({p} \cup After(p)))
        /\ faults < MaxFaults /\ faults' = faults + 1
        /\ UNCHANGED <<queued, drained, output, pipe, results, exit, status, outcome, age>>
    BY <1>5 DEF ReadFails
  <2> HIDE DEF verdict
  <2>3. phase # "merge" /\ phase' # "merge"
    BY <1>1, <2>2 DEF RoundGoesOn
  <2>4. /\ verdict[p] \notin Outcomes
        /\ verdict[p] \notin {"died", "mute", "late", "lost"}
    BY <2>1 DEF Outcomes
  <2>5. OneOwner' /\ Progress' /\ ClassifiedByOwnChild' /\ Reported'
    BY <1>1, <2>1, <2>2, <2>3, <2>4, RetireKeeps
  <2>6. /\ children' = children \ {p}
        /\ completed' \in [Cases -> Verdict \cup {None}]
        /\ proc' \in [Cases -> {"none", "running", "written", "closing", "zombie", "reaped"}]
    BY <2>1, <2>2, RetireShape
  <2>7. TypeOK'
    BY <1>1, <2>2, <2>6, IsolationAssumption DEF IInv, TypeOK, RoundGoesOn
  <2> QED
    BY <2>5, <2>7 DEF IInv
<1> QED
  BY <1>3, <1>4, <1>5

(* The end of a round, and the merge. *)
LEMMA TableSteps ==
  ASSUME IInv, Process \/ Merge
  PROVE  IInv'
<1>1. CASE Process
  <2>1. Shown' = Shown
    BY <1>1 DEF Process, IInv, TypeOK, Shown, Moved
  <2>2. \A q \in Cases : results'[q] = Shown[q] /\ completed'[q] = None
    BY <1>1 DEF Process, Shown
  <2>3. Shown \in [Cases -> Verdict \cup {None}]
    BY DEF IInv, TypeOK, Shown, Moved
  <2>4. TypeOK'
    BY <1>1, <2>3 DEF Process, IInv, TypeOK, childVars, envVars, Shown
  <2>5. OneOwner'
    BY <1>1, <2>1, <2>2, IsolationAssumption DEF Process, IInv, TypeOK, OneOwner
  <2>6. Progress' /\ ClassifiedByOwnChild' /\ Reported'
    BY <1>1, <2>1 DEF Process, IInv, Progress, ClassifiedByOwnChild, Reported, childVars, envVars
  <2> QED
    BY <2>4, <2>5, <2>6 DEF IInv
<1>2. CASE Merge
  <2>1. \A q \in Cases : Shown[q] # None /\ completed[q] = None /\ results[q] = Shown[q]
    BY <1>2 DEF Merge, IInv, OneOwner, TypeOK, Cases, Shown, Moved
  <2>2. results' = results
    BY <1>2, <2>1 DEF Merge, IInv, TypeOK
  <2>3. Shown' = Shown
    BY <1>2, <2>2 DEF Merge, Shown, Moved
  <2>4. TypeOK'
    BY <1>2, <2>2 DEF Merge, IInv, TypeOK, loopVars, childVars, envVars, RunStatus
  <2>5. OneOwner'
    BY <1>2, <2>2, <2>3 DEF Merge, IInv, OneOwner, loopVars
  <2>6. Progress' /\ ClassifiedByOwnChild'
    BY <1>2, <2>3 DEF Merge, IInv, Progress, ClassifiedByOwnChild, loopVars, childVars, envVars
  <2>7. Reported'
    BY <1>2, <2>1, <2>2 DEF Merge, Reported, RunStatus
  <2> QED
    BY <2>4, <2>5, <2>6, <2>7 DEF IInv
<1> QED
  BY <1>1, <1>2

LEMMA NextIInv == IInv /\ [Next]_vars => IInv'
<1> SUFFICES ASSUME IInv, [Next]_vars PROVE IInv'
  OBVIOUS
<1>1. CASE Next
  BY <1>1, QuietSteps, StartSteps, ChildSteps, FinishStep, KillStep, ReadSteps, TableSteps DEF Next, Loop
<1>2. CASE UNCHANGED vars
  BY <1>2, QuietSteps DEF Finished, vars, loopVars, poolVars, childVars, envVars, IInv, TypeOK, OneOwner,
     Progress, ClassifiedByOwnChild, Reported, Shown, Moved
<1> QED
  BY <1>1, <1>2

LEMMA AlwaysIInv == Spec => []IInv
BY InitIInv, NextIInv, PTL DEF Spec

-----------------------------------------------------------------------------
(* The pool keeps its types, and every round of reads serves children that *)
(* are still there.                                                        *)
THEOREM PoolTypes == Spec => []TypeOK
BY AlwaysIInv, PTL DEF IInv

(* Every case is in the queue, has a child or is decided; exactly one of   *)
(* the three, whatever fails or hangs.                                     *)
THEOREM CasesHaveOneOwner == Spec => []OneOwner
BY AlwaysIInv, PTL DEF IInv

(* For every pool size, a case is classified by what its own process did.  *)
THEOREM ClassificationIsOwn == Spec => []ClassifiedByOwnChild
BY AlwaysIInv, PTL DEF IInv

(* Status 0 is never reported for a run with a case that failed, died,     *)
(* hung or did not start.                                                  *)
THEOREM StatusIsEarned == Spec => []SuccessIsEarned
<1>1. IInv => SuccessIsEarned
  BY DEF IInv, Reported, ClassifiedByOwnChild, Shown, Moved, Outcomes, SuccessIsEarned
<1> QED
  BY <1>1, AlwaysIInv, PTL

-----------------------------------------------------------------------------
(* The size of the pool. *)
PoolSize == Cardinality(children) <= MaxChildren

LEMMA MaxChildrenIsPositive == MaxChildren \in Nat /\ MaxChildren >= 1
BY IsolationAssumption DEF MaxChildren, Resolved, AtLeastOne, AtMostEight

LEMMA CasesAreFinite == IsFiniteSet(Cases)
BY FS_Interval, IsolationAssumption DEF Cases

(* Only StartChild adds a child, and it looks for room first. *)
LEMMA ChildrenGrowByOne ==
  ASSUME IInv, [Next]_vars
  PROVE  \/ children' \subseteq children
         \/ /\ Cardinality(children) < MaxChildren
            /\ children' = children \cup {queued}
<1>1. CASE StartChild
  BY <1>1 DEF StartChild, HasRoom
<1>2. CASE UNCHANGED children
  BY <1>2
<1>3. CASE FinishDrained \/ KillLate \/ \E p \in Cases : ReadChild(p) \/ ReadFails(p)
  BY <1>3 DEF FinishDrained, KillLate, ReadChild, ReadFails, Retire
<1>4. CASE StartFails \/ StartsDone \/ PollReturns \/ Process \/ Merge \/ ParentThrows \/ Tick \/ UNCHANGED vars
  BY <1>2, <1>4 DEF StartFails, StartsDone, PollReturns, Process, Merge, ParentThrows, Tick, vars, poolVars
<1>5. ASSUME NEW p \in Cases, Child(p) \/ Abort(p)
      PROVE  UNCHANGED children
  BY <1>5 DEF Child, RunCase, Exit, End, Abort, CloseWith, poolVars
<1> QED
  BY <1>1, <1>2, <1>3, <1>4, <1>5 DEF Next, Loop, Finished

LEMMA PoolSizeStep == IInv /\ PoolSize /\ [Next]_vars => PoolSize'
<1> SUFFICES ASSUME IInv, PoolSize, [Next]_vars PROVE PoolSize'
  OBVIOUS
<1>1. IsFiniteSet(children) /\ Cardinality(children) \in Nat
  BY CasesAreFinite, FS_Subset, FS_CardinalityType DEF IInv, TypeOK
<1>2. CASE children' \subseteq children
  <2>1. IsFiniteSet(children') /\ Cardinality(children') <= Cardinality(children)
    BY <1>1, <1>2, FS_Subset
  <2>2. Cardinality(children') \in Nat
    BY <2>1, FS_CardinalityType
  <2> QED
    BY <1>1, <2>1, <2>2, MaxChildrenIsPositive DEF PoolSize
<1>3. CASE Cardinality(children) < MaxChildren /\ children' = children \cup {queued}
  <2>1. Cardinality(children') = IF queued \in children THEN Cardinality(children) ELSE Cardinality(children) + 1
    BY <1>1, <1>3, FS_AddElement
  <2> QED
    BY <1>1, <1>3, <2>1, MaxChildrenIsPositive DEF PoolSize
<1> QED
  BY <1>2, <1>3, ChildrenGrowByOne

(* No process is left behind or reaped twice, and never more than the      *)
(* resolved --workers of them exist at once.                               *)
THEOREM PoolHasNoStrays == Spec => []NoStrays
<1>1. Init => PoolSize
  BY FS_EmptySet, MaxChildrenIsPositive DEF Init, PoolSize
<1>2. IInv /\ PoolSize => NoStrays
  BY DEF IInv, Progress, PoolSize, NoStrays
<1> QED
  BY <1>1, <1>2, AlwaysIInv, PoolSizeStep, PTL DEF Spec

(* Children leave the pool only on the way to the next start: from there   *)
(* to poll the pool stays as full as StartsDone left it.                   *)
Full == Cardinality(children) = MaxChildren \/ queued = NumCases
Filled == phase \in {"pump", "late", "poll"} => Full

LEMMA FilledStep == IInv /\ PoolSize /\ Filled /\ [Next]_vars => Filled'
<1> SUFFICES ASSUME IInv, PoolSize, Filled, [Next]_vars PROVE Filled'
  OBVIOUS
<1>1. CASE phase' \notin {"pump", "late", "poll"}
  BY <1>1 DEF Filled
<1>2. CASE StartsDone
  <2>1. Cardinality(children) \in Nat
    BY CasesAreFinite, FS_Subset, FS_CardinalityType DEF IInv, TypeOK
  <2>2. queued \in 0 .. NumCases
    BY DEF IInv, TypeOK
  <2>3. Full
    BY <1>2, <2>1, <2>2, IsolationAssumption, MaxChildrenIsPositive DEF StartsDone, HasRoom, PoolSize, Full
  <2> QED
    BY <1>2, <2>3 DEF StartsDone, poolVars, Filled, Full
<1>3. CASE FinishDrained /\ phase' # "process"
  BY <1>3 DEF FinishDrained, Filled, Full
<1>4. CASE KillLate /\ phase' # "process"
  BY <1>4 DEF KillLate, Filled, Full
<1>5. CASE UNCHANGED <<phase, queued, children>>
  BY <1>5 DEF Filled, Full
<1>6. ASSUME NEW p \in Cases, ReadChild(p) \/ ReadFails(p)
      PROVE  phase' \notin {"pump", "late", "poll"}
  BY <1>6 DEF ReadChild, ReadFails, RoundGoesOn
<1>7. PollReturns \/ Process => phase' \notin {"pump", "late", "poll"}
  BY DEF PollReturns, Process
<1>8. StartChild \/ StartFails => phase' \notin {"pump", "late", "poll"}
  BY DEF StartChild, StartFails
<1>9. Merge \/ ParentThrows \/ Tick \/ UNCHANGED vars => UNCHANGED <<phase, queued, children>>
  BY DEF Merge, ParentThrows, Tick, vars, loopVars, poolVars
<1>10. ASSUME NEW p \in Cases, Child(p) \/ Abort(p)
       PROVE  UNCHANGED <<phase, queued, children>>
  BY <1>10 DEF Child, RunCase, Exit, End, Abort, CloseWith, loopVars, poolVars
<1> QED
  BY <1>1, <1>2, <1>3, <1>4, <1>5, <1>6, <1>7, <1>8, <1>9, <1>10 DEF Next, Loop, Finished

(* The parent never sleeps in poll over a free slot and a waiting case,    *)
(* whatever ended, timed out or failed in the round before.                *)
THEOREM SlotsAreUsed == Spec => []NoIdleSlot
<1>1. Init => PoolSize /\ Filled
  BY FS_EmptySet, MaxChildrenIsPositive DEF Init, PoolSize, Filled
<1>2. Filled => NoIdleSlot
  BY DEF Filled, Full, NoIdleSlot
<1> QED
  BY <1>1, <1>2, AlwaysIInv, PoolSizeStep, FilledStep, PTL DEF Spec

-----------------------------------------------------------------------------
LEMMA ShownType == IInv => Shown \in [Cases -> Verdict \cup {None}]
BY DEF IInv, TypeOK, Shown, Moved

(* A step that keeps the status only decides cases that were open. *)
LEMMA SettleStep ==
  ASSUME IInv, IInv', exit = "running", exit' = exit,
         \A p \in Cases : Shown[p] # None => Shown'[p] = Shown[p]
  PROVE  Ledger!Settle
<1>1. Shown' \in [Cases -> Verdict \cup {None}]
  BY ShownType DEF IInv, TypeOK, Shown, Moved
<1> QED
  BY <1>1 DEF Ledger!Settle

LEMMA StepImplementsLedger ==
  ASSUME IInv, IInv', [Next]_vars
  PROVE  [Ledger!Next]_(Ledger!ledger)
<1>0. \A gone, verdict :
        /\ gone \in SUBSET children
        /\ Retire(gone, verdict)
        /\ UNCHANGED results
        => \A p \in Cases : Shown[p] # None => Shown'[p] = Shown[p]
  BY DEF IInv, OneOwner, TypeOK, Cases, Retire, Shown, Moved
<1>1. CASE FinishDrained
  BY <1>0, <1>1, SettleStep DEF FinishDrained, DrainedAndEnded, Ledger!Next, Shown, Moved
<1>2. CASE KillLate
  BY <1>0, <1>2, SettleStep DEF KillLate, Late, Ledger!Next, Shown, Moved
<1>3. ASSUME NEW p \in Cases, ReadChild(p) \/ ReadFails(p)
      PROVE  Ledger!Settle
  <2>1. {p} \in SUBSET children
    BY <1>3 DEF ReadChild, ReadFails, Served, IInv, TypeOK
  <2> QED
    BY <1>0, <1>3, <2>1, SettleStep DEF ReadChild, ReadFails, Shown, Moved
<1>4. CASE StartFails
  <2>1. queued \in Cases
    BY <1>4 DEF StartFails, IInv, TypeOK, Cases
  <2>2. Shown[queued] = None
    BY <2>1 DEF IInv, OneOwner, Cases
  <2>3. \A p \in Cases : Shown[p] # None => Shown'[p] = Shown[p]
    BY <1>4, <2>2 DEF StartFails, Shown, Moved
  <2> QED
    BY <1>4, <2>3, SettleStep DEF StartFails, Ledger!Next
<1>5. CASE Process
  <2>1. Shown' = Shown
    BY <1>5 DEF Process, Shown, Moved
  <2> QED
    BY <1>5, <2>1 DEF Process, Ledger!ledger
<1>6. CASE Merge
  <2>1. \A q \in Cases : Shown[q] # None /\ completed[q] = None /\ results[q] = Shown[q]
    BY <1>6 DEF Merge, IInv, OneOwner, TypeOK, Cases, Shown, Moved
  <2>2. results' = results
    BY <1>6, <2>1 DEF Merge, IInv, TypeOK
  <2>3. Shown' = Shown
    BY <1>6, <2>2 DEF Merge, Shown, Moved
  <2>4. Ledger!Report
    BY <1>6, <2>1, <2>2, <2>3 DEF Merge, RunStatus, Ledger!Report
  <2> QED
    BY <2>4 DEF Ledger!Next
<1>7. CASE ParentThrows
  BY <1>7 DEF ParentThrows, Shown, Moved, Ledger!Fail, Ledger!Next
<1>8. CASE UNCHANGED <<completed, results, exit>>
  BY <1>8 DEF Shown, Moved, Ledger!ledger
<1>9. CASE StartChild \/ StartsDone \/ PollReturns \/ Tick \/ UNCHANGED vars
  BY <1>8, <1>9 DEF StartChild, StartsDone, PollReturns, Tick, vars, poolVars
<1>10. ASSUME NEW p \in Cases, Child(p) \/ Abort(p)
       PROVE  UNCHANGED <<completed, results, exit>>
  BY <1>10 DEF Child, RunCase, Exit, End, Abort, CloseWith, poolVars
<1> QED
  BY <1>1, <1>2, <1>3, <1>4, <1>5, <1>6, <1>7, <1>8, <1>9, <1>10 DEF Next, Loop, Finished, Ledger!Next

(* The isolation pool is an implementation of the ledger, for every pool   *)
(* size, timeout and number of failing calls.                              *)
THEOREM PoolImplementsLedger == Spec => LedgerSpec
<1>1. Init => Ledger!Init
  BY DEF Init, Shown, Moved, Ledger!Init
<1>2. IInv /\ IInv' /\ [Next]_vars => [Ledger!Next]_(Ledger!ledger)
  BY StepImplementsLedger
<1> QED
  BY <1>1, <1>2, InitIInv, NextIInv, PTL DEF Spec, LedgerSpec, Ledger!Spec
=============================================================================
