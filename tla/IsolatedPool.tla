---------------------------- MODULE IsolatedPool ----------------------------
(***************************************************************************)
(* The per-case isolation pool, `cts --isolate --workers N`                *)
(* (collectIsolatedParallelRuns and pumpIsolatedChildren in                *)
(* src/common/runner.cpp); with one child at a time it is the serial       *)
(* `--isolate`.  Every case runs in a child process of its own, at most N  *)
(* at once.  One thread starts children, reaps them, kills those that are  *)
(* over --case-timeout-ms and reads their stdout; a child writes one       *)
(* RESULT line when its case is over.                                      *)
(*                                                                         *)
(* The kernel closes a process' files before the process can be waited     *)
(* for, so the end of the pipe and the exit are two events, and a child    *)
(* whose pipe is drained may have to be reaped in a later round.           *)
(***************************************************************************)
EXTENDS Integers, FiniteSets

CONSTANTS
  NumCases,   (* cases selected by the queries                             *)
  Workers,    (* --workers N; zero or less: auto                           *)
  Hardware,   (* std::thread::hardware_concurrency(), zero: unknown        *)
  Timeout,    (* --case-timeout-ms in ticks, zero: no timeout              *)
  MaxFaults   (* bound: failing pipe, fork and read calls                  *)

Cases == 0 .. NumCases - 1

ASSUME IsolationAssumption ==
  /\ NumCases \in Nat
  /\ Workers \in Int
  /\ Hardware \in Nat
  /\ Timeout \in Nat
  /\ MaxFaults \in Nat

AtLeastOne(n) == IF n > 1 THEN n ELSE 1
AtMostEight(n) == IF n < 8 THEN n ELSE 8

(* resolveWorkers *)
Resolved ==
  IF Workers = 1 THEN 1
  ELSE IF Workers <= 0
       THEN AtLeastOne(AtMostEight(IF Hardware = 0 THEN 1 ELSE Hardware))
       ELSE Workers

MaxChildren == AtLeastOne(Resolved)

VARIABLES
  phase,      (* where the loop stands: "start", "pump", "late", "poll", "read", "process", "merge" *)
  queued,     (* `next`: the first case that is not started             *)
  children,   (* the positions of the children vector                   *)
  drained,    (* those whose pipe is closed (fd < 0)                    *)
  ready,      (* those poll found readable and the round has not read   *)
  output,     (* [Cases -> Text] IsolatedChildState::output             *)
  completed,  (* [Cases -> Verdict or None] completedByCase             *)
  results,    (* [Cases -> Verdict or None] resultsByCase               *)
  exit,       (* "running", then the status of the parent               *)
  proc,       (* [Cases -> ...] the child process                       *)
  status,     (* [Cases -> ...] how it ended                            *)
  pipe,       (* [Cases -> Text] written and not yet read               *)
  outcome,    (* [Cases -> ...] history: what running the case gave     *)
  age,        (* [Cases -> 0 .. Timeout] ticks since the start          *)
  faults      (* failed calls so far                                    *)

loopVars  == <<phase, queued, ready>>
poolVars  == <<children, drained, output, completed, results, exit>>
childVars == <<proc, status, pipe, outcome>>
envVars   == <<age, faults>>
vars      == <<loopVars, poolVars, childVars, envVars>>

None     == "none"
Outcomes == {"pass", "fail"}
Verdict  == Outcomes \cup {"died", "mute", "late", "nostart", "unread", "lost"}
Text     == {"empty", "result", "garbled"}

Ended(p)  == proc[p] = "zombie"
Closed(p) == proc[p] \in {"closing", "zombie"}

-----------------------------------------------------------------------------
Init ==
  /\ phase = "start" /\ queued = 0 /\ ready = {}
  /\ children = {} /\ drained = {}
  /\ output    = [p \in Cases |-> "empty"]
  /\ completed = [p \in Cases |-> None]
  /\ results   = [p \in Cases |-> None]
  /\ exit = "running"
  /\ proc    = [p \in Cases |-> "none"]
  /\ status  = [p \in Cases |-> "unset"]
  /\ pipe    = [p \in Cases |-> "empty"]
  /\ outcome = [p \in Cases |-> None]
  /\ age     = [p \in Cases |-> 0]
  /\ faults = 0

(* Mutants of HasRoom and TakenFromQueue: one child too many or too few, a *)
(* failed start is tried again.                                            *)
HasRoomForOneMore == Cardinality(children) <= MaxChildren
HasRoomForOneLess == Cardinality(children) < MaxChildren - 1
TakenIfStarted(started) == IF started THEN queued + 1 ELSE queued

HasRoom == Cardinality(children) < MaxChildren
TakenFromQueue(started) == queued + 1

(* startQueuedIsolatedChildren: the next case gets a pipe and a process .. *)
StartChild ==
  /\ exit = "running" /\ phase = "start"
  /\ HasRoom /\ queued < NumCases
  /\ queued' = TakenFromQueue(TRUE)
  /\ children' = children \cup {queued}
  /\ proc' = [proc EXCEPT ![queued] = "running"]
  /\ UNCHANGED <<phase, ready, drained, output, completed, results, exit,
                 status, pipe, outcome, envVars>>

(* ... or, when pipe or fork fails, its verdict at once ...                *)
StartFails ==
  /\ exit = "running" /\ phase = "start"
  /\ HasRoom /\ queued < NumCases
  /\ faults < MaxFaults /\ faults' = faults + 1
  /\ queued' = TakenFromQueue(FALSE)
  /\ completed' = [completed EXCEPT ![queued] = "nostart"]
  /\ UNCHANGED <<phase, ready, children, drained, output, results, exit,
                 childVars, age>>

(* ... until the pool is full or the queue is empty.                       *)
StartsDone ==
  /\ exit = "running" /\ phase = "start"
  /\ ~(HasRoom /\ queued < NumCases)
  /\ phase' = IF children = {} THEN "process" ELSE "pump"
  /\ UNCHANGED <<queued, ready, poolVars, childVars, envVars>>

-----------------------------------------------------------------------------
(* pumpIsolatedChildren                                                    *)

(* finishIsolatedChild: a bad exit status outweighs a RESULT line. *)
Judged(p, text) ==
  IF status[p] # "clean" THEN "died"
  ELSE IF text = "result" THEN outcome[p] ELSE "mute"

(* The children in gone leave the vector and are reaped, each with its     *)
(* verdict (recordIsolatedResult).                                         *)
Retire(gone, verdict) ==
  /\ children' = children \ gone
  /\ proc' = [p \in Cases |-> IF p \in gone THEN "reaped" ELSE proc[p]]
  /\ completed' = [p \in Cases |-> IF p \in gone THEN verdict[p] ELSE completed[p]]

DrainedAndEnded == {p \in children : p \in drained /\ Ended(p)}

(* finishExitedPipeDrainedIsolatedChildren *)
FinishDrained ==
  /\ exit = "running" /\ phase = "pump"
  /\ IF DrainedAndEnded # {}
     THEN /\ Retire(DrainedAndEnded, [p \in DrainedAndEnded |-> Judged(p, output[p])])
          /\ phase' = "process"
     ELSE /\ phase' = "late"
          /\ UNCHANGED <<children, proc, completed>>
  /\ UNCHANGED <<queued, ready, drained, output, results, exit, status, pipe, outcome, envVars>>

(* Mutants of Late: only children with an open pipe are looked at; the     *)
(* clock is a tick ahead.                                                  *)
LateUndrained == {p \in children \ drained : Timeout > 0 /\ age[p] >= Timeout}
LateTooEarly == {p \in children : Timeout > 0 /\ age[p] + 1 >= Timeout}

(* isolatedChildTimedOut *)
Late == {p \in children : Timeout > 0 /\ age[p] >= Timeout}

(* reapTimedOutIsolatedChildren: SIGKILL and a blocking waitpid, even for  *)
(* a child that has ended and whose RESULT line nobody has read.           *)
KillLate ==
  /\ exit = "running" /\ phase = "late"
  /\ IF Late # {}
     THEN /\ Retire(Late, [p \in Late |-> "late"])
          /\ phase' = "process"
     ELSE /\ phase' = "poll"
          /\ UNCHANGED <<children, proc, completed>>
  /\ UNCHANGED <<queued, ready, drained, output, results, exit, status, pipe, outcome, envVars>>

Readable == {p \in children \ drained : pipe[p] # "empty" \/ Closed(p)}

(* Mutant of PollExpires: a drained child does not shorten the wait. *)
PollExpiresOnTimeout == Late # {}

(* isolatedPollTimeoutMs, and two milliseconds with a drained child around *)
PollExpires == Late # {} \/ children \cap drained # {}

(* poll() returns with the readable children, or with none on its timeout. *)
PollReturns ==
  /\ exit = "running" /\ phase = "poll"
  /\ Readable # {} \/ PollExpires
  /\ ready' = Readable
  /\ phase' = IF Readable = {} THEN "process" ELSE "read"
  /\ UNCHANGED <<queued, poolVars, childVars, envVars>>

RoundGoesOn(rest) ==
  /\ ready' = rest
  /\ phase' = IF rest = {} THEN "process" ELSE "read"

(* The next child of the round: the vector keeps the order of the queue.   *)
Served(p) == p \in ready /\ \A q \in ready : p <= q
After(p)  == {q \in children : q > p /\ \A r \in children : r > p => q <= r}

(* read() until it would block or the pipe ends, and then waitpid without  *)
(* blocking: a child that has not ended yet waits for a later round.       *)
ReadChild(p) ==
  LET text == IF pipe[p] # "empty" THEN pipe[p] ELSE output[p] IN
  /\ exit = "running" /\ phase = "read" /\ Served(p)
  /\ output' = [output EXCEPT ![p] = text]
  /\ pipe' = [pipe EXCEPT ![p] = "empty"]
  /\ drained' = IF Closed(p) THEN drained \cup {p} ELSE drained
  /\ IF Ended(p)
     THEN Retire({p}, [q \in {p} |-> Judged(p, text)])
     ELSE UNCHANGED <<children, proc, completed>>
  /\ RoundGoesOn(ready \ {p})
  /\ UNCHANGED <<queued, results, exit, status, outcome, envVars>>

(* read() fails: the child is killed, and the one behind it in the vector  *)
(* is passed over in this round.                                           *)
ReadFails(p) ==
  /\ exit = "running" /\ phase = "read" /\ Served(p)
  /\ faults < MaxFaults /\ faults' = faults + 1
  /\ Retire({p}, [q \in {p} |-> "unread"])
  /\ RoundGoesOn(ready \ ({p} \cup After(p)))
  /\ UNCHANGED <<queued, drained, output, results, exit, status, pipe, outcome, age>>

-----------------------------------------------------------------------------
(* Mutant of Moved: the verdicts of earlier rounds are overwritten. *)
MovedOver == [p \in Cases |-> completed[p]]

(* processCompletedIsolatedResults *)
Moved == [p \in Cases |-> IF completed[p] # None THEN completed[p] ELSE results[p]]

Process ==
  /\ exit = "running" /\ phase = "process"
  /\ results' = Moved
  /\ completed' = [p \in Cases |-> None]
  /\ phase' = IF queued < NumCases \/ children # {} THEN "start" ELSE "merge"
  /\ UNCHANGED <<queued, ready, children, drained, output, exit, childVars, envVars>>

RunStatus(rows) ==
  IF \A p \in Cases : rows[p] = "pass" THEN "success" ELSE "failure"

(* The merge of collectIsolatedParallelRuns and printRunResults. *)
Merge ==
  /\ exit = "running" /\ phase = "merge"
  /\ results' = [p \in Cases |-> IF results[p] = None THEN "lost" ELSE results[p]]
  /\ exit' = RunStatus(results')
  /\ UNCHANGED <<loopVars, children, drained, output, completed, childVars, envVars>>

(* The case plan of a child cannot be written, or poll fails: the          *)
(* exception ends the run and leaves the other children to themselves.     *)
ParentThrows ==
  /\ exit = "running"
  /\ phase \in {"start", "poll"}
  /\ faults < MaxFaults /\ faults' = faults + 1
  /\ exit' = "failure"
  /\ UNCHANGED <<loopVars, children, drained, output, completed, results, childVars, age>>

-----------------------------------------------------------------------------
(* The child process (runSingleCase).                                      *)

Alive(p) == exit = "running" /\ proc[p] \in {"running", "written"}

(* The case is over and the RESULT line is written on the way out of the   *)
(* process; foreign output in front of it on the same line garbles it.     *)
RunCase(p) ==
  /\ Alive(p) /\ proc[p] = "running"
  /\ \E o \in Outcomes : outcome' = [outcome EXCEPT ![p] = o]
  /\ \E text \in {"result", "garbled"} : pipe' = [pipe EXCEPT ![p] = text]
  /\ proc' = [proc EXCEPT ![p] = "written"]
  /\ UNCHANGED <<loopVars, poolVars, status, envVars>>

CloseWith(p, how) ==
  /\ proc' = [proc EXCEPT ![p] = "closing"]
  /\ status' = [status EXCEPT ![p] = how]
  /\ UNCHANGED <<loopVars, poolVars, pipe, outcome, envVars>>

Exit(p)  == Alive(p) /\ proc[p] = "written" /\ CloseWith(p, "clean")

(* The backend aborts, in the case or while the process shuts down. *)
Abort(p) == Alive(p) /\ CloseWith(p, "bad")

(* The process can be waited for. *)
End(p) ==
  /\ exit = "running" /\ proc[p] = "closing"
  /\ proc' = [proc EXCEPT ![p] = "zombie"]
  /\ UNCHANGED <<loopVars, poolVars, status, pipe, outcome, age, faults>>

Child(p) == RunCase(p) \/ Exit(p) \/ End(p)

(* Time passes for all children. *)
Tick ==
  /\ exit = "running"
  /\ \E p \in children : age[p] < Timeout
  /\ age' = [p \in Cases |-> IF p \in children /\ age[p] < Timeout THEN age[p] + 1 ELSE age[p]]
  /\ UNCHANGED <<loopVars, poolVars, childVars, faults>>

-----------------------------------------------------------------------------
Finished == exit # "running" /\ UNCHANGED vars

Loop ==
  \/ StartChild \/ StartsDone
  \/ FinishDrained \/ KillLate \/ PollReturns
  \/ \E p \in Cases : ReadChild(p)
  \/ Process \/ Merge

Next ==
  \/ Loop
  \/ StartFails
  \/ \E p \in Cases : ReadFails(p) \/ Child(p) \/ Abort(p)
  \/ ParentThrows
  \/ Tick
  \/ Finished

Spec == Init /\ [][Next]_vars

(* The parent's thread runs, time passes: with a timeout nothing is asked  *)
(* of the children, which may hang for ever.                               *)
WatchedSpec == Spec /\ WF_vars(Loop) /\ WF_vars(Tick)

(* Without a timeout the children have to get on.                          *)
PatientSpec == Spec /\ WF_vars(Loop) /\ \A p \in Cases : WF_vars(Child(p))

-----------------------------------------------------------------------------
(* Every variable has its type, and a round of reads serves only children  *)
(* that are still in the vector, and serves them all.                      *)
TypeOK ==
  /\ phase \in {"start", "pump", "late", "poll", "read", "process", "merge"}
  /\ queued \in 0 .. NumCases
  /\ children \subseteq Cases /\ drained \subseteq Cases /\ ready \subseteq children
  /\ phase # "read" => ready = {}
  /\ output \in [Cases -> Text]
  /\ completed \in [Cases -> Verdict \cup {None}]
  /\ results \in [Cases -> Verdict \cup {None}]
  /\ exit \in {"running", "success", "failure"}
  /\ proc \in [Cases -> {"none", "running", "written", "closing", "zombie", "reaped"}]
  /\ status \in [Cases -> {"unset", "clean", "bad"}]
  /\ pipe \in [Cases -> Text]
  /\ outcome \in [Cases -> Outcomes \cup {None}]
  /\ age \in [Cases -> 0 .. Timeout]
  /\ faults \in 0 .. MaxFaults

(* The verdict a case has, moved over or not. *)
Shown == Moved

(* Every case is in exactly one place: in the queue, in the children       *)
(* vector, or decided for good.  No case is started twice, forgotten when  *)
(* its child is erased in the middle of a round, or overwritten, and the   *)
(* "produced no result" of the merge is unreachable.                       *)
OneOwner ==
  /\ \A p \in Cases :
       /\ p >= queued => p \notin children /\ Shown[p] = None
       /\ p < queued => (p \in children <=> Shown[p] = None)
       /\ completed[p] # None => results[p] = None
  /\ phase = "merge" => queued = NumCases /\ children = {}
  /\ phase = "merge" => \A p \in Cases : completed[p] = None

(* A process lives exactly as long as its child is in the vector: none is  *)
(* left behind, waited for twice or killed when it is not ours any more,   *)
(* and there are never more of them than --workers allows.                 *)
NoStrays ==
  /\ {p \in Cases : proc[p] \notin {"none", "reaped"}} = children
  /\ Cardinality(children) <= MaxChildren

(* "same per-case classification as serial --isolate for any N": a case is *)
(* classified by its own process alone -- its own outcome and a clean exit *)
(* for a verdict of the test, its own bad exit, silence or overdue answer  *)
(* for a crash -- however the rounds of the pool fall.                     *)
ClassifiedByOwnChild ==
  \A p \in Cases :
    /\ Shown[p] \in Outcomes => status[p] = "clean" /\ Shown[p] = outcome[p]
    /\ Shown[p] = "died" => status[p] = "bad"
    /\ Shown[p] = "mute" => status[p] = "clean"
    /\ Shown[p] = "late" => Timeout > 0 /\ age[p] = Timeout
    /\ Shown[p] # "lost"

(* The loop sleeps in poll only with a full pool or an empty queue.        *)
NoIdleSlot ==
  phase = "poll" => Cardinality(children) = MaxChildren \/ queued = NumCases

(* Status 0 means that every case ran in a process that ended well, and    *)
(* passed.                                                                 *)
SuccessIsEarned ==
  exit = "success" => \A p \in Cases : status[p] = "clean" /\ outcome[p] = "pass"

(* The run ends. *)
RunEnds == <>(exit # "running")

Ledger == INSTANCE CaseLedger WITH
  Verdicts  <- Verdict,
  Clean     <- {"pass"},
  NoVerdict <- None,
  verdict   <- Shown

(* The pool implements the ledger: it decides cases for good, reports a    *)
(* full table, or fails the run.                                           *)
LedgerSpec == Ledger!Spec
=============================================================================
