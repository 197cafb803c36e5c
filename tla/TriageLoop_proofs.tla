-------------------------- MODULE TriageLoop_proofs --------------------------
(***************************************************************************)
(* Proofs about TriageLoop for every set of builds and command lines.  The *)
(* argument: while a run has rows they say of each case what it did and    *)
(* whether it was blamed (Rows), so a file written to its end says it of   *)
(* the run it came from (Files, List); what a later run concludes from a   *)
(* file follows.                                                           *)
(***************************************************************************)
EXTENDS TriageLoop, TLAPS

HasRows == pc \in {"emit", "print", "compare"} \/ Judged

(* The rows of a case that was run: bad exactly if it went wrong, and a     *)
(* crash if it died.                                                        *)
Faithful(d, B, p, rows) ==
  /\ rows # <<>>
  /\ Dies(d, p) => Has(rows, "crash")
  /\ AnyBad(rows) <=> p \in B \/ Has(d[p], "fail") \/ Dies(d, p)

Rows ==
  HasRows => \A p \in Cases :
               /\ p \in Selected => Faithful(did, blamed, p, results[p])
               /\ p \notin Selected => results[p] = <<>>

(* A list is written of cases that ran alone. *)
Emits == pc = "emit" => Mode = "isolate" /\ \A p \in Selected : did[p] = build[p].alone

(* A row of a whole file is bad exactly for the cases its run got wrong. *)
Tells(file, p) ==
  /\ p \in file.from.cases => file.rows[p] # <<>>
  /\ p \notin file.from.cases => file.rows[p] = <<>>
  /\ AnyBad(file.rows[p]) <=> p \in file.from.wrong

Files == \A f \in Paths : jsonl[f].whole => \A p \in Cases : Tells(jsonl[f], p)

List ==
  crashList.whole =>
    \A p \in crashList.for : Has(crashList.build[p].alone, "dies") => p \in crashList.cases

IInv ==
  /\ TypeOK /\ Rows /\ Emits /\ Files /\ List
  /\ StatusIsVerdict /\ RegressionsAreReported /\ ReportIsHonest /\ CrashListSuffices

-----------------------------------------------------------------------------
(* Lemmas about rows. *)

(* A known failure is not bad, and nothing else becomes good or bad. *)
LEMMA EffectiveBad ==
  ASSUME NEW st \in Statuses, NEW known \in BOOLEAN
  PROVE  /\ Effective(st, known) \in Effectives
         /\ Bad(Effective(st, known)) <=> Bad(st) /\ ~known
  BY DEF Effective, Bad, Statuses, Outcomes, Effectives

(* An aggregate fails exactly if a row does, and is no crash. *)
LEMMA AggregateFails ==
  ASSUME NEW rows \in Seq(Outcomes), rows # <<>>
  PROVE  /\ Aggregate(rows) \in Outcomes
         /\ Aggregate(rows) = "fail" <=> Has(rows, "fail")
<1>0. ASSUME NEW st, Has(rows, st), \A i \in DOMAIN rows : rows[i] = "skip" PROVE st = "skip"
  BY <1>0 DEF Has
<1>1. CASE Has(rows, "fail")
  BY <1>0, <1>1 DEF Aggregate, Outcomes
<1>2. CASE ~Has(rows, "fail") /\ Has(rows, "warn")
  BY <1>0, <1>2 DEF Aggregate, Outcomes
<1>3. CASE ~Has(rows, "fail") /\ ~Has(rows, "warn") /\ \A i \in DOMAIN rows : rows[i] = "skip"
  BY <1>3 DEF Aggregate, Outcomes
<1>4. CASE ~Has(rows, "fail") /\ ~Has(rows, "warn") /\ ~\A i \in DOMAIN rows : rows[i] = "skip"
  BY <1>4 DEF Aggregate, Outcomes
<1> QED
  BY <1>1, <1>2, <1>3, <1>4

(* What the cases of a run do is a doing of theirs, and the others do none. *)
LEMMA DoingsType ==
  ASSUME build \in Builds, NEW d \in Doings, NEW p \in Cases
  PROVE  /\ p \in Selected => d[p] \in Deeds
         /\ p \notin Selected => d[p] = <<>>
         /\ d[p] \in Seq(Outcomes \cup {"dies"})
<1>1. build[p] \in Conducts
  BY TriageAssumption
<1>2. d[p] \in MayDo(p)
  BY DEF Doings
<1>3. p \in Selected => d[p] \in Deeds
  BY <1>1, <1>2 DEF MayDo, Conducts
<1>4. p \notin Selected => d[p] = <<>>
  BY <1>2 DEF MayDo
<1>5. <<>> \in Seq(Outcomes \cup {"dies"})
  OBVIOUS
<1> QED
  BY <1>3, <1>4, <1>5 DEF Deeds

(* With --isolate each case does what it does alone. *)
LEMMA AloneDoings ==
  ASSUME Mode = "isolate", NEW d \in Doings, NEW p \in Selected
  PROVE  d[p] = build[p].alone
<1>1. p \in Cases /\ Company(p) = {}
  BY DEF Selected, Company
<1>2. d[p] \in MayDo(p)
  BY <1>1 DEF Doings
<1> QED
  BY <1>1, <1>2 DEF MayDo

(* A case that lives has outcomes only. *)
LEMMA LivingOutcomes ==
  ASSUME NEW d, NEW p, d[p] \in Deeds, ~Dies(d, p)
  PROVE  d[p] \in Seq(Outcomes) /\ d[p] # <<>>
<1>1. \A i \in 1 .. Len(d[p]) : d[p][i] \in Outcomes
  BY DEF Deeds, Dies, Has
<1> QED
  BY <1>1 DEF Deeds

(* One row says crash. *)
LEMMA CrashRow ==
  ASSUME NEW rows, rows = <<"crash">>
  PROVE  rows \in Seq(Statuses) /\ rows # <<>> /\ Has(rows, "crash") /\ AnyBad(rows)
  BY DEF Statuses, Has, AnyBad, Bad

(* What a child or a worker makes of a case, and what plain runs have.      *)
LEMMA ChildIsFaithful ==
  ASSUME NEW d, NEW B, NEW p \in Cases, d[p] \in Deeds
  PROVE  ChildRows(d, B)[p] \in Seq(Statuses) /\ Faithful(d, B, p, ChildRows(d, B)[p])
<1> DEFINE rows == ChildRows(d, B)[p]
<1>1. CASE p \in B \/ Dies(d, p)
  <2>1. rows = <<"crash">>
    BY <1>1 DEF ChildRows
  <2> QED
    BY <1>1, <2>1, CrashRow DEF Faithful
<1>2. CASE ~(p \in B \/ Dies(d, p))
  <2>1. rows = <<Aggregate(d[p])>>
    BY <1>2 DEF ChildRows
  <2>2. Aggregate(d[p]) \in Outcomes /\ (Aggregate(d[p]) = "fail" <=> Has(d[p], "fail"))
    BY <1>2, LivingOutcomes, AggregateFails
  <2>3. AnyBad(rows) <=> Bad(Aggregate(d[p]))
    BY <2>1 DEF AnyBad
  <2>4. Bad(Aggregate(d[p])) <=> Has(d[p], "fail")
    BY <2>2 DEF Bad, Outcomes
  <2>5. rows \in Seq(Statuses) /\ rows # <<>>
    BY <2>1, <2>2 DEF Statuses
  <2> QED
    BY <1>2, <2>3, <2>4, <2>5 DEF Faithful
<1> QED
  BY <1>1, <1>2

LEMMA PlainIsFaithful ==
  ASSUME NEW d, NEW B, NEW p \in Cases, d[p] \in Deeds, p \notin B, ~Dies(d, p)
  PROVE  d[p] \in Seq(Statuses) /\ Faithful(d, B, p, d[p])
<1>1. d[p] \in Seq(Outcomes) /\ d[p] # <<>>
  BY LivingOutcomes
<1>2. \A i \in DOMAIN d[p] : Bad(d[p][i]) <=> d[p][i] = "fail"
  BY <1>1 DEF Bad, Outcomes
<1>3. AnyBad(d[p]) <=> Has(d[p], "fail")
  BY <1>2 DEF AnyBad, Has
<1> QED
  BY <1>1, <1>3 DEF Faithful, Statuses

LEMMA WorkerIsFaithful ==
  ASSUME NEW d, NEW B, NEW p \in Cases, d[p] \in Deeds
  PROVE  WorkerRows(d, B)[p] \in Seq(Statuses) /\ Faithful(d, B, p, WorkerRows(d, B)[p])
<1>1. CASE p \in B \/ Dies(d, p)
  <2>1. WorkerRows(d, B)[p] = <<"crash">>
    BY <1>1 DEF WorkerRows
  <2> QED
    BY <1>1, <2>1, CrashRow DEF Faithful
<1>2. CASE ~(p \in B \/ Dies(d, p))
  <2>1. WorkerRows(d, B)[p] = d[p]
    BY <1>2 DEF WorkerRows
  <2> QED
    BY <1>2, <2>1, PlainIsFaithful
<1> QED
  BY <1>1, <1>2

(* A step that runs the cases: what they do, whom the parent blames and the *)
(* rows fit together.                                                       *)
RunsCases(d, B, rows) ==
  /\ Returns(d, B, rows)
  /\ \A p \in Selected : rows[p] \in Seq(Statuses) /\ Faithful(d, B, p, rows[p])

LEMMA RunsWhat ==
  ASSUME TypeOK, RunPlain \/ RunWorkers \/ RunIsolated \/ RunSelective,
         pc' # "done"
  PROVE  \E d \in Doings : \E B \in SUBSET Selected : \E rows : RunsCases(d, B, rows)
<1>1. build \in Builds /\ Selected \subseteq Cases
  BY DEF TypeOK, Selected
<1>2. \A d \in Doings : \A p \in Selected : d[p] \in Deeds
  BY <1>1, DoingsType
<1>3. CASE RunPlain
  <2>1. PICK d \in Doings : (\A p \in Selected : ~Dies(d, p)) /\ Returns(d, {}, d)
    BY <1>3 DEF RunPlain, Stop
  <2>2. RunsCases(d, {}, d)
    BY <1>1, <1>2, <2>1, PlainIsFaithful DEF RunsCases
  <2> QED
    BY <2>2
<1>4. CASE RunWorkers
  <2>1. PICK d \in Doings : \E B \in Blame(Selected) : Returns(d, B, WorkerRows(d, B))
    BY <1>4 DEF RunWorkers
  <2>2. PICK B \in SUBSET Selected : Returns(d, B, WorkerRows(d, B))
    BY <2>1 DEF Blame
  <2>3. RunsCases(d, B, WorkerRows(d, B))
    BY <1>1, <1>2, <2>2, WorkerIsFaithful DEF RunsCases
  <2> QED
    BY <2>3
<1>5. CASE RunIsolated
  <2>1. PICK d \in Doings : \E B \in Blame(Selected) : Returns(d, B, ChildRows(d, B))
    BY <1>5 DEF RunIsolated
  <2>2. PICK B \in SUBSET Selected : Returns(d, B, ChildRows(d, B))
    BY <2>1 DEF Blame
  <2>3. RunsCases(d, B, ChildRows(d, B))
    BY <1>1, <1>2, <2>2, ChildIsFaithful DEF RunsCases
  <2> QED
    BY <2>3
<1>6. CASE RunSelective
  <2>1. PICK d \in Doings : \E B \in Blame(Selected \cap crashList.cases) : Returns(d, B, ChildRows(d, B))
    BY <1>6 DEF RunSelective, Stop
  <2>2. PICK B \in SUBSET Selected : Returns(d, B, ChildRows(d, B))
    BY <2>1 DEF Blame
  <2>3. RunsCases(d, B, ChildRows(d, B))
    BY <1>1, <1>2, <2>2, ChildIsFaithful DEF RunsCases
  <2> QED
    BY <2>3
<1> QED
  BY <1>3, <1>4, <1>5, <1>6

-----------------------------------------------------------------------------
(* Types. *)

LEMMA SelectedCases == Selected \subseteq Cases
  BY DEF Selected

LEMMA EffectiveRowsType ==
  ASSUME TypeOK
  PROVE  /\ EffectiveRows \in [Cases -> Seq(Effectives)]
         /\ \A p \in Cases :
              /\ Len(EffectiveRows[p]) = Len(results[p])
              /\ EffectiveRows[p] = <<>> <=> results[p] = <<>>
              /\ \A i \in 1 .. Len(results[p]) :
                    EffectiveRows[p][i] = Effective(results[p][i], Expected(p))
<1>1. ASSUME NEW p \in Cases
      PROVE  /\ EffectiveRows[p] \in Seq(Effectives)
             /\ Len(EffectiveRows[p]) = Len(results[p])
             /\ EffectiveRows[p] = <<>> <=> results[p] = <<>>
             /\ \A i \in 1 .. Len(results[p]) : EffectiveRows[p][i] = Effective(results[p][i], Expected(p))
  <2>1. results[p] \in Seq(Statuses) /\ Expected(p) \in BOOLEAN
    BY DEF TypeOK, Expected
  <2>2. EffectiveRows[p] = [i \in 1 .. Len(results[p]) |-> Effective(results[p][i], Expected(p))]
    BY <2>1 DEF EffectiveRows
  <2>3. \A i \in 1 .. Len(results[p]) : Effective(results[p][i], Expected(p)) \in Effectives
    BY <2>1, EffectiveBad
  <2>4. Len(results[p]) \in Nat
    BY <2>1
  <2>5. EffectiveRows[p] \in Seq(Effectives)
    BY <2>2, <2>3, <2>4
  <2>6. Len(EffectiveRows[p]) = Len(results[p])
    BY <2>2, <2>4, <2>5
  <2> QED
    BY <2>1, <2>2, <2>5, <2>6
<1>2. EffectiveRows \in [Cases -> Seq(Effectives)]
  BY <1>1 DEF EffectiveRows
<1> QED
  BY <1>1, <1>2

(* Bad effective rows are bad rows of cases that are no known failures. *)
LEMMA EffectiveRowsBad ==
  ASSUME TypeOK, NEW p \in Cases
  PROVE  NowBad(p) <=> AnyBad(results[p]) /\ ~Expected(p)
<1>1. results[p] \in Seq(Statuses) /\ Expected(p) \in BOOLEAN
  BY DEF TypeOK, Expected
<1>2. \A i \in 1 .. Len(results[p]) : Bad(EffectiveRows[p][i]) <=> Bad(results[p][i]) /\ ~Expected(p)
  <2> SUFFICES ASSUME NEW i \in 1 .. Len(results[p])
               PROVE  Bad(EffectiveRows[p][i]) <=> Bad(results[p][i]) /\ ~Expected(p)
    OBVIOUS
  <2>1. results[p][i] \in Statuses
    BY <1>1
  <2>2. EffectiveRows[p][i] = Effective(results[p][i], Expected(p))
    BY EffectiveRowsType
  <2> QED
    BY <1>1, <2>1, <2>2, EffectiveBad
<1>3. EffectiveRows[p] \in Seq(Effectives) /\ Len(EffectiveRows[p]) = Len(results[p])
  BY EffectiveRowsType
<1>4. DOMAIN EffectiveRows[p] = 1 .. Len(results[p]) /\ DOMAIN results[p] = 1 .. Len(results[p])
  BY <1>1, <1>3
<1> QED
  BY <1>2, <1>4 DEF NowBad, AnyBad

(* A step that runs the cases keeps the types of what it assigns. *)
LEMMA RunsTypes ==
  ASSUME TypeOK, NEW d \in Doings, NEW B \in SUBSET Selected, NEW rows, RunsCases(d, B, rows)
  PROVE  /\ did' \in [Cases -> Seq(Outcomes \cup {"dies"})]
         /\ blamed' \in SUBSET Cases
         /\ results' \in [Cases -> Seq(Statuses)]
<1>1. d \in [Cases -> Seq(Outcomes \cup {"dies"})]
  <2>1. \A p \in Cases : d[p] \in Seq(Outcomes \cup {"dies"})
    BY DoingsType DEF TypeOK
  <2> QED
    BY <2>1 DEF Doings
<1>2. \A p \in Cases : OfSelected(rows)[p] \in Seq(Statuses)
  <2>1. <<>> \in Seq(Statuses)
    OBVIOUS
  <2> QED
    BY <2>1 DEF OfSelected, RunsCases
<1>3. OfSelected(rows) \in [Cases -> Seq(Statuses)]
  BY <1>2 DEF OfSelected
<1> QED
  BY <1>1, <1>3, SelectedCases DEF RunsCases, Returns

LEMMA CutType ==
  ASSUME NEW rows \in [Cases -> Seq(Effectives)], NEW p \in Cases, NEW k \in 0 .. Len(rows[p])
  PROVE  Cut(rows, p, k) \in [Cases -> Seq(Effectives)]
<1>1. SubSeq(rows[p], 1, k) \in Seq(Effectives)
  BY DEF Cases
<1>2. <<>> \in Seq(Effectives)
  OBVIOUS
<1> QED
  BY <1>1, <1>2 DEF Cut

LEMMA ComparedType ==
  ASSUME TypeOK, NEW before
  PROVE  Compared(before) \in Report
  BY DEF Compared, Report

LEMMA InitTypes == Init => TypeOK
<1> SUFFICES ASSUME Init PROVE TypeOK
  OBVIOUS
<1>1. NoRows \in [Cases -> Seq(Statuses)] /\ NoRows \in [Cases -> Seq(Effectives)]
  BY DEF NoRows
<1>2. NoCommand \in Commands
  BY TriageAssumption DEF NoCommand
<1>6. NoRows \in [Cases -> Seq(Outcomes \cup {"dies"})]
  BY DEF NoRows
<1>3. crashList \in ListFile
  BY DEF Init, ListFile
<1>4. jsonl \in [Paths -> JsonFile]
  BY <1>1 DEF Init, JsonFile, Nobody, Run
<1>5. report \in Report
  BY DEF Init, NoReport, Report
<1> QED
  BY <1>1, <1>2, <1>3, <1>4, <1>5, <1>6 DEF Init, TypeOK

LEMMA NextTypes == TypeOK /\ [Next]_vars => TypeOK'
<1> SUFFICES ASSUME TypeOK, [Next]_vars PROVE TypeOK'
  OBVIOUS
<1>1. CASE Refuse \/ Begin
  BY <1>1 DEF Refuse, Begin, Stop, TypeOK
<1>2. CASE RunPlain \/ RunWorkers \/ RunIsolated \/ RunSelective
  <2>1. CASE pc' = "done"
    BY <1>2, <2>1 DEF RunPlain, RunWorkers, RunIsolated, RunSelective, Stop, TypeOK
  <2>2. CASE pc' # "done"
    <3>1. PICK d \in Doings, B \in SUBSET Selected : \E rows : RunsCases(d, B, rows)
      BY <1>2, <2>2, RunsWhat
    <3>2. /\ did' \in [Cases -> Seq(Outcomes \cup {"dies"})]
          /\ blamed' \in SUBSET Cases
          /\ results' \in [Cases -> Seq(Statuses)]
      BY <3>1, RunsTypes
    <3>3. UNCHANGED <<build, crashList, jsonl, cmd, report, exit>> /\ pc' \in {"emit", "print"}
      BY <1>2, <2>2 DEF RunPlain, RunWorkers, RunIsolated, RunSelective, Stop
    <3> QED
      BY <3>2, <3>3 DEF TypeOK
  <2> QED
    BY <2>1, <2>2
<1>4. CASE NoCrashList
  BY <1>4 DEF NoCrashList, Stop, TypeOK
<1>5. CASE WriteCrashList \/ CutCrashList
  <2>1. CrashListLines \subseteq Cases
    BY DEF CrashListLines
  <2>2. crashList' \in ListFile
    <3>1. CASE WriteCrashList
      BY <3>1, <2>1, SelectedCases DEF WriteCrashList, ListFile, TypeOK
    <3>2. CASE CutCrashList
      <4>1. PICK S \in SUBSET CrashListLines :
              crashList' = [there |-> TRUE, cases |-> S, whole |-> FALSE, build |-> build, for |-> Selected]
        BY <3>2 DEF CutCrashList
      <4> QED
        BY <4>1, <2>1, SelectedCases DEF ListFile, TypeOK
    <3> QED
      BY <1>5, <3>1, <3>2
  <2> QED
    BY <1>5, <2>2 DEF WriteCrashList, CutCrashList, Stop, TypeOK
<1>6. CASE WriteOutput \/ CutOutput
  <2>1. ASSUME NEW rows \in [Cases -> Seq(Effectives)], NEW whole \in BOOLEAN, Written(rows, whole)
        PROVE  jsonl' \in [Paths -> JsonFile]
    <3>1. ThisRun \in Run /\ Nobody \in Run
      BY SelectedCases DEF ThisRun, Run, Wrong, Nobody
    <3> QED
      BY <2>1, <3>1 DEF Written, JsonFile, TypeOK
  <2>2. CASE WriteOutput
    BY <2>1, <2>2, EffectiveRowsType DEF WriteOutput, TypeOK
  <2>3. CASE CutOutput
    <3>1. PICK p \in Cases : \E k \in 0 .. Len(results[p]) : Written(Cut(EffectiveRows, p, k), FALSE)
      BY <2>3 DEF CutOutput
    <3>2. PICK k \in 0 .. Len(results[p]) : Written(Cut(EffectiveRows, p, k), FALSE)
      BY <3>1
    <3>3. Cut(EffectiveRows, p, k) \in [Cases -> Seq(Effectives)]
      <4>1. k \in 0 .. Len(EffectiveRows[p]) /\ EffectiveRows \in [Cases -> Seq(Effectives)]
        BY EffectiveRowsType
      <4> QED
        BY <4>1, CutType
    <3> QED
      BY <2>1, <2>3, <3>2, <3>3 DEF CutOutput, Stop, TypeOK
  <2> QED
    BY <1>6, <2>2, <2>3
<1>7. CASE OpenFails \/ NoOutput \/ Status \/ NoBaseline \/ Interrupt
  BY <1>7 DEF OpenFails, NoOutput, Status, NoBaseline, Interrupt, Stop, TypeOK
<1>8. CASE Compare
  BY <1>8, ComparedType DEF Compare, Stop, TypeOK
<1>9. CASE Again
  <2>2. NoRows \in [Cases -> Seq(Outcomes \cup {"dies"})]
    BY DEF NoRows
  <2>1. NoRows \in [Cases -> Seq(Statuses)] /\ NoReport \in Report /\ NoCommand \in Commands
    BY TriageAssumption DEF NoRows, NoReport, Report, NoCommand
  <2> QED
    BY <1>9, <2>1, <2>2 DEF Again, TypeOK
<1>10. CASE UNCHANGED vars
  BY <1>10 DEF vars, TypeOK
<1> QED
  BY <1>1, <1>2, <1>4, <1>5, <1>6, <1>7, <1>8, <1>9, <1>10 DEF Next

(* The state keeps its types: files of rows, reports of cases, statuses. *)
THEOREM TriageTypes == Spec => []TypeOK
  BY InitTypes, NextTypes, PTL DEF Spec

-----------------------------------------------------------------------------
(* The invariant. *)

LEMMA InitIInv == Init => IInv
<1> SUFFICES ASSUME Init PROVE IInv
  OBVIOUS
<1>1. pc = "idle" /\ ~crashList.whole /\ ~HasRows /\ ~Judged
  BY DEF Init, HasRows, Judged
<1>2. \A f \in Paths : ~jsonl[f].whole
  BY DEF Init
<1>3. TypeOK
  BY InitTypes
<1> QED
  BY <1>1, <1>2, <1>3 DEF IInv, Rows, Emits, Files, List, StatusIsVerdict, RegressionsAreReported, ReportIsHonest,
     Gated, CrashListSuffices

LEMMA FilesStay ==
  ASSUME IInv, UNCHANGED <<crashList, jsonl>>
  PROVE  Files' /\ List'
  BY DEF IInv, Files, List, Tells, AnyBad, Bad, Has

(* The steps that judge nothing and write no file. *)
LEMMA QuietSteps ==
  ASSUME IInv, TypeOK', Refuse \/ Begin \/ OpenFails \/ NoOutput \/ NoBaseline \/ NoCrashList \/ Interrupt \/ Again
  PROVE  IInv'
<1>1. Files' /\ List'
  BY FilesStay DEF Refuse, Begin, OpenFails, NoOutput, NoBaseline, NoCrashList, Interrupt, Again
<1>2. ~Judged' /\ (pc' = "done" => exit' # "killed")
  BY DEF Refuse, Begin, OpenFails, NoOutput, NoBaseline, NoCrashList, Interrupt, Again, Judged, Stop
<1>3. (StatusIsVerdict /\ RegressionsAreReported /\ ReportIsHonest /\ CrashListSuffices)'
  BY <1>2 DEF StatusIsVerdict, RegressionsAreReported, ReportIsHonest, Gated, Judged, CrashListSuffices
<1>4. Rows'
  <2>1. CASE NoOutput
    BY <2>1 DEF NoOutput, IInv, Rows, HasRows, Selected
  <2>2. CASE ~NoOutput
    <3>1. ~HasRows'
      BY <1>2, <2>2 DEF Refuse, Begin, OpenFails, NoBaseline, NoCrashList, Interrupt, Again, HasRows, Judged, Stop
    <3> QED
      BY <3>1 DEF Rows
  <2> QED
    BY <2>1, <2>2
<1>5. Emits'
  BY DEF Refuse, Begin, OpenFails, NoOutput, NoBaseline, NoCrashList, Interrupt, Again, Stop, Emits
<1> QED
  BY <1>1, <1>3, <1>4, <1>5 DEF IInv

LEMMA RowsStay ==
  ASSUME IInv, UNCHANGED <<cmd, did, blamed, results>>, HasRows' => HasRows
  PROVE  Rows'
  BY DEF IInv, Rows, Selected

LEMMA RowsAfter ==
  ASSUME UNCHANGED cmd, NEW d, NEW B, NEW rows, RunsCases(d, B, rows)
  PROVE  Rows'
<1>1. Selected' = Selected /\ Selected \subseteq Cases
  BY DEF Selected
<1>2. \A p \in Cases :
        /\ p \in Selected => results'[p] = rows[p]
        /\ p \notin Selected => results'[p] = <<>>
  BY DEF RunsCases, Returns, OfSelected
<1>3. \A p \in Selected : Faithful(did', blamed', p, rows[p])
  BY DEF RunsCases, Returns
<1> QED
  BY <1>1, <1>2, <1>3 DEF Rows

(* The steps that run cases. *)
LEMMA RunSteps ==
  ASSUME IInv, TypeOK', RunPlain \/ RunWorkers \/ RunIsolated \/ RunSelective
  PROVE  IInv'
<1>1. Files' /\ List'
  BY FilesStay DEF RunPlain, RunWorkers, RunIsolated, RunSelective
<1>2. ~Judged'
  BY DEF RunPlain, RunWorkers, RunIsolated, RunSelective, Judged, Stop, IInv
<1>3. build \in Builds /\ Selected \subseteq Cases /\ UNCHANGED cmd /\ TypeOK
  BY SelectedCases DEF IInv, TypeOK, RunPlain, RunWorkers, RunIsolated, RunSelective
<1>4. Rows'
  <2>1. CASE pc' = "done"
    BY <1>2, <2>1 DEF Rows, HasRows
  <2>2. CASE pc' # "done"
    BY <1>3, <2>2, RunsWhat, RowsAfter
  <2> QED
    BY <2>1, <2>2
<1>5. Emits'
  <2>1. CASE RunIsolated
    <3>1. PICK d \in Doings : did' = d
      BY <2>1 DEF RunIsolated, Returns
    <3>2. Mode' = Mode /\ Selected' = Selected /\ build' = build /\ Mode = "isolate"
      BY <2>1 DEF RunIsolated, Mode, Selected
    <3>3. \A p \in Selected : d[p] = build[p].alone
      BY <3>2, AloneDoings
    <3> QED
      BY <3>1, <3>2, <3>3 DEF Emits
  <2>2. CASE ~RunIsolated
    BY <2>2 DEF RunPlain, RunWorkers, RunSelective, Stop, Emits
  <2> QED
    BY <2>1, <2>2
<1>6. CrashListSuffices'
  <2>1. CASE RunPlain
    BY <2>1 DEF RunPlain, CrashListSuffices, Mode
  <2>2. CASE RunWorkers \/ RunIsolated
    BY <2>2 DEF RunWorkers, RunIsolated, CrashListSuffices
  <2>3. CASE RunSelective
    <3>1. ASSUME crashList.whole, crashList.build = build, Selected \subseteq crashList.for, DiesAloneToo,
                 NEW d \in Doings, NEW p \in Selected \ crashList.cases, Dies(d, p)
          PROVE  FALSE
      <4>1. p \in Cases /\ d[p] \in MayDo(p) /\ build[p] \in Conducts
        BY <1>3, TriageAssumption DEF Doings
      <4>2. d[p] \in build[p].shared \/ d[p] = build[p].alone
        BY <4>1 DEF MayDo
      <4>3. Has(build[p].alone, "dies")
        BY <3>1, <4>2 DEF DiesAloneToo, Dies
      <4> QED
        BY <3>1, <4>3 DEF IInv, List
    <3>2. UNCHANGED <<build, crashList, cmd>>
      BY <2>3 DEF RunSelective
    <3>3. Selected' = Selected /\ Mode' = Mode /\ DiesAloneToo' = DiesAloneToo
      BY <3>2 DEF Selected, Mode, DiesAloneToo, Has
    <3>4. CASE \E d \in Doings : \E p \in Selected \ crashList.cases : Dies(d, p)
      BY <3>1, <3>2, <3>3, <3>4 DEF CrashListSuffices
    <3>5. CASE ~\E d \in Doings : \E p \in Selected \ crashList.cases : Dies(d, p)
      BY <2>3, <3>5 DEF RunSelective, CrashListSuffices
    <3> QED
      BY <3>4, <3>5
  <2> QED
    BY <2>1, <2>2, <2>3
<1> QED
  BY <1>1, <1>2, <1>4, <1>5, <1>6 DEF IInv, StatusIsVerdict, RegressionsAreReported, ReportIsHonest, Gated

(* The rows of a run are bad exactly for the cases that went wrong. *)
LEMMA BadRows ==
  ASSUME IInv, HasRows, NEW p \in Cases
  PROVE  /\ (AnyBad(results[p]) /\ ~Expected(p)) <=> p \in Wrong
         /\ results[p] = <<>> <=> p \notin Selected
<1>1. CASE p \in Selected
  <2>1. Faithful(did, blamed, p, results[p])
    BY <1>1 DEF IInv, Rows
  <2> QED
    BY <1>1, <2>1 DEF Faithful, Wrong, Expected
<1>2. CASE p \notin Selected
  <2>1. results[p] = <<>>
    BY <1>2 DEF IInv, Rows
  <2>2. ~AnyBad(results[p])
    BY <2>1 DEF AnyBad
  <2> QED
    BY <1>2, <2>1, <2>2 DEF Wrong
<1> QED
  BY <1>1, <1>2

(* The steps that write a file. *)
LEMMA CrashListSteps ==
  ASSUME IInv, TypeOK', WriteCrashList \/ CutCrashList
  PROVE  IInv'
<1>1. Rows'
  BY RowsStay DEF WriteCrashList, CutCrashList, Stop, HasRows, Judged
<1>2. Files'
  BY DEF IInv, WriteCrashList, CutCrashList, Files, Tells, AnyBad, Bad
<1>3. List'
  <2>1. CASE WriteCrashList
    <3>1. \A p \in Selected : Has(build[p].alone, "dies") => p \in CrashListLines
      BY <2>1, SelectedCases DEF WriteCrashList, IInv, Rows, HasRows, Emits, Faithful, Dies, CrashListLines
    <3> QED
      BY <2>1, <3>1 DEF WriteCrashList, List, Has
  <2>2. CASE CutCrashList
    <3>1. ~crashList'.whole
      BY <2>2 DEF CutCrashList
    <3> QED
      BY <3>1 DEF List
  <2> QED
    BY <2>1, <2>2
<1>4. ~Judged' /\ (pc' = "done" => exit' # "killed")
  BY DEF WriteCrashList, CutCrashList, Stop, Judged, IInv
<1>5. Emits'
  BY DEF WriteCrashList, CutCrashList, Stop, Emits
<1> QED
  BY <1>1, <1>2, <1>3, <1>4, <1>5 DEF IInv, StatusIsVerdict, RegressionsAreReported, ReportIsHonest, Gated, Judged,
     CrashListSuffices

LEMMA OutputSteps ==
  ASSUME IInv, TypeOK', WriteOutput \/ CutOutput
  PROVE  IInv'
<1>1. Rows'
  BY RowsStay DEF WriteOutput, CutOutput, Stop, HasRows, Judged
<1>2. List'
  BY DEF IInv, WriteOutput, CutOutput, List, Has
<1>3. Files'
  <2>1. \A f \in Paths : f # cmd.output => jsonl'[f] = jsonl[f]
    BY DEF WriteOutput, CutOutput, Written, IInv, TypeOK
  <2>2. cmd.output \in Paths => (jsonl'[cmd.output].whole => \A p \in Cases : Tells(jsonl'[cmd.output], p))
    <3>1. CASE WriteOutput
      <4>1. SUFFICES ASSUME cmd.output \in Paths, NEW p \in Cases PROVE Tells(jsonl'[cmd.output], p)
        BY DEF Tells
      <4>2. jsonl'[cmd.output] = [there |-> TRUE, rows |-> EffectiveRows, whole |-> TRUE, from |-> ThisRun]
        BY <3>1, <4>1 DEF WriteOutput, Written, IInv, TypeOK
      <4>3. HasRows
        BY <3>1 DEF WriteOutput, HasRows
      <4>4. AnyBad(EffectiveRows[p]) <=> p \in Wrong
        BY <4>3, BadRows, EffectiveRowsBad DEF NowBad, IInv
      <4>5. EffectiveRows[p] = <<>> <=> p \notin Selected
        BY <4>3, BadRows, EffectiveRowsType DEF IInv
      <4> QED
        BY <4>2, <4>4, <4>5 DEF Tells, ThisRun
    <3>2. CASE CutOutput
      BY <3>2 DEF CutOutput, Written, IInv, TypeOK
    <3> QED
      BY <3>1, <3>2
  <2>3. \A f \in Paths, p \in Cases : jsonl'[f] = jsonl[f] => (Tells(jsonl'[f], p) <=> Tells(jsonl[f], p))
    OBVIOUS
  <2>4. \A f \in Paths : jsonl[f].whole => \A p \in Cases : Tells(jsonl[f], p)
    BY DEF IInv, Files
  <2>5. \A f \in Paths : jsonl'[f].whole => \A p \in Cases : Tells(jsonl'[f], p)
    BY <2>1, <2>2, <2>3, <2>4, Zenon
  <2>6. Files' <=> \A f \in Paths : jsonl'[f].whole => \A p \in Cases : Tells(jsonl'[f], p)
    BY DEF Files, Tells, AnyBad, Bad
  <2> QED
    BY <2>5, <2>6
<1>4. ~Judged' /\ (pc' = "done" => exit' # "killed")
  BY DEF WriteOutput, CutOutput, Stop, Judged, IInv
<1>5. Emits'
  BY DEF WriteOutput, CutOutput, Stop, Emits
<1> QED
  BY <1>1, <1>2, <1>3, <1>4, <1>5 DEF IInv, StatusIsVerdict, RegressionsAreReported, ReportIsHonest, Gated, Judged,
     CrashListSuffices

(* The steps that judge. *)
LEMMA StatusStep ==
  ASSUME IInv, TypeOK', Status
  PROVE  IInv'
<1>1. Files' /\ List' /\ Rows' /\ Emits'
  BY FilesStay, RowsStay DEF Status, Stop, HasRows, Emits
<1>2. HasRows
  BY DEF Status, HasRows
<1>3. \A p \in Cases : p \in UnexpectedFailures <=> p \in Wrong
  <2> SUFFICES ASSUME NEW p \in Cases PROVE p \in UnexpectedFailures <=> p \in Wrong
    OBVIOUS
  <2>1. p \in UnexpectedFailures <=> AnyBad(results[p]) /\ ~Expected(p)
    BY DEF UnexpectedFailures, AnyBad
  <2> QED
    BY <1>2, <2>1, BadRows
<1>4. UnexpectedFailures \subseteq Cases /\ Wrong \subseteq Cases
  BY SelectedCases DEF UnexpectedFailures, Wrong
<1>9. UnexpectedFailures = Wrong
  BY <1>3, <1>4
<1>5. exit' = "ok" <=> Wrong = {}
  BY <1>9 DEF Status, Stop
<1>6. StatusIsVerdict'
  BY <1>5 DEF Status, StatusIsVerdict, Wrong, Selected, Dies, Has
<1>7. (RegressionsAreReported /\ ReportIsHonest)'
  BY DEF Status, RegressionsAreReported, ReportIsHonest, Gated
<1>8. CrashListSuffices'
  BY DEF Status, Stop, CrashListSuffices
<1> QED
  BY <1>1, <1>6, <1>7, <1>8 DEF IInv

LEMMA CompareStep ==
  ASSUME IInv, TypeOK', Compare
  PROVE  IInv'
<1>1. Files' /\ List' /\ Rows' /\ Emits'
  BY FilesStay, RowsStay DEF Compare, Stop, HasRows, Emits
<1>2. StatusIsVerdict' /\ CrashListSuffices'
  BY DEF Compare, Stop, StatusIsVerdict, CrashListSuffices
<1>3. SUFFICES ASSUME jsonl[cmd.baseline].whole PROVE (RegressionsAreReported /\ ReportIsHonest)'
  BY <1>1, <1>2 DEF Compare, IInv, RegressionsAreReported, ReportIsHonest, Gated
<1> DEFINE before == jsonl[cmd.baseline].rows
<1>4. HasRows /\ cmd.baseline \in Paths /\ Before.cases \subseteq Cases /\ Selected \subseteq Cases
  <2>1. cmd \in Command
    BY TriageAssumption DEF IInv, TypeOK
  <2>2. cmd.baseline \in Paths
    BY <2>1 DEF Command, Compare
  <2>3. jsonl[cmd.baseline] \in JsonFile
    BY <2>2 DEF IInv, TypeOK
  <2>4. Before.cases \subseteq Cases
    BY <2>3 DEF Before, JsonFile, Run
  <2> QED
    BY <2>2, <2>4, SelectedCases DEF Compare, HasRows
<1>5. report' = Compared(before) /\ (exit' = "ok" <=> report'.regressed = {})
  BY DEF Compare, Stop
<1>6. ASSUME NEW p \in Cases
      PROVE  /\ NowBad(p) <=> p \in Wrong
             /\ results[p] = <<>> <=> p \notin Selected
             /\ before[p] = <<>> <=> p \notin Before.cases
             /\ before[p] # <<>> => (ThenBad(before[p]) => p \in Before.wrong)
  <2>1. (NowBad(p) <=> p \in Wrong) /\ (results[p] = <<>> <=> p \notin Selected)
    BY <1>4, BadRows, EffectiveRowsBad DEF IInv
  <2>2. Tells(jsonl[cmd.baseline], p)
    BY <1>3, <1>4 DEF IInv, Files
  <2>3. before[p] \in Seq(Effectives)
    BY <1>4 DEF IInv, TypeOK, JsonFile
  <2>4. before[p] # <<>> => (ThenBad(before[p]) => AnyBad(before[p]))
    BY <2>3 DEF ThenBad, AnyBad
  <2> QED
    BY <2>1, <2>2, <2>4 DEF Tells, Before
<1>7. Before' = Before /\ Wrong' = Wrong /\ Selected' = Selected
  BY DEF Compare, Before, Wrong, Selected, Dies, Has
<1>8. ASSUME exit' = "ok", NEW p \in Before.cases, p \in Wrong PROVE p \in Before.wrong
  <2>1. p \in Cases /\ p \in Selected
    BY <1>4, <1>8 DEF Wrong
  <2>2. NowBad(p) /\ results[p] # <<>> /\ before[p] # <<>>
    BY <1>6, <1>8, <2>1
  <2>3. p \notin Compared(before).regressed
    BY <1>5, <1>8
  <2>4. ThenBad(before[p])
    BY <2>1, <2>2, <2>3 DEF Compared
  <2> QED
    BY <1>6, <2>1, <2>2, <2>4
<1>9. ASSUME NEW p \in Compared(before).fixed PROVE p \in Before.wrong /\ p \notin Wrong
  <2>1. p \in Cases /\ before[p] # <<>> /\ ~NowBad(p) /\ ThenBad(before[p])
    BY DEF Compared
  <2> QED
    BY <1>6, <2>1
<1>10. Compared(before).added = Selected \ Before.cases /\ Compared(before).removed = Before.cases \ Selected
  BY <1>4, <1>6 DEF Compared
<1>11. RegressionsAreReported'
  BY <1>7, <1>8 DEF RegressionsAreReported
<1>12. ReportIsHonest'
  BY <1>5, <1>7, <1>9, <1>10 DEF ReportIsHonest
<1> QED
  BY <1>11, <1>12

LEMMA NextIInv == IInv /\ [Next]_vars => IInv'
<1> SUFFICES ASSUME IInv, [Next]_vars PROVE IInv'
  OBVIOUS
<1>1. TypeOK'
  BY NextTypes DEF IInv
<1>2. CASE UNCHANGED vars
  <2>1. Files' /\ List' /\ Rows'
    BY <1>2, FilesStay, RowsStay DEF vars, HasRows, Judged
  <2>2. Judged' = Judged /\ Wrong' = Wrong /\ Before' = Before /\ Gated' = Gated /\ Selected' = Selected
    BY <1>2 DEF vars, Judged, Wrong, Before, Gated, Selected, Dies, Has
  <2>7. Mode' = Mode /\ DiesAloneToo' = DiesAloneToo
    BY <1>2 DEF vars, Mode, DiesAloneToo, Selected, Has
  <2>3. Emits'
    BY <1>2, <2>2, <2>7 DEF vars, IInv, Emits
  <2>4. StatusIsVerdict' /\ RegressionsAreReported' /\ ReportIsHonest'
    BY <1>2, <2>2 DEF vars, IInv, StatusIsVerdict, RegressionsAreReported, ReportIsHonest
  <2>6. CrashListSuffices'
    BY <1>2, <2>2, <2>7 DEF vars, IInv, CrashListSuffices
  <2> QED
    BY <1>1, <2>1, <2>3, <2>4, <2>6 DEF IInv
<1> QED
  BY <1>1, <1>2, QuietSteps, RunSteps, CrashListSteps, OutputSteps, StatusStep, CompareStep DEF Next

-----------------------------------------------------------------------------
(* The theorems. *)

LEMMA Invariance == Spec => []IInv
  BY InitIInv, NextIInv, PTL DEF Spec

(* Status 0 of a run without a baseline means that no selected case failed, *)
(* died or was called a crash unexpectedly, and status 1 that one did.      *)
THEOREM StatusIsRight == Spec => []StatusIsVerdict
  BY Invariance, PTL DEF IInv

(* A regression against a whole baseline is never silent.                   *)
THEOREM NoSilentRegression == Spec => []RegressionsAreReported
  BY Invariance, PTL DEF IInv

(* Fixed, new and removed cases are what the report says they are.          *)
THEOREM ReportsAreHonest == Spec => []ReportIsHonest
  BY Invariance, PTL DEF IInv

(* A whole crash list keeps a selective run of the same build alive, unless *)
(* a case dies in company that lives alone.                                 *)
THEOREM CrashListsSuffice == Spec => []CrashListSuffices
  BY Invariance, PTL DEF IInv
=============================================================================
