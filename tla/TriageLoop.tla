----------------------------- MODULE TriageLoop -----------------------------
(***************************************************************************)
(* The loop a user runs around `cts` (runQueries in src/common/runner.cpp  *)
(* and what it calls after the cases have run): one harness process after  *)
(* another over builds of a backend, joined by the files they leave, the   *)
(* crash list (--emit-crash-list, --crash-list) and the JSONL results      *)
(* (--output, --baseline).  Each run takes one of the execution modes,     *)
(* reduces its rows to an exit status, and may be interrupted.             *)
(*                                                                         *)
(* How a mode gets its rows is WorkerPool and IsolatedPool; here a mode is *)
(* what it returns when it returns.  Two things come between a build and   *)
(* the rows.  A case may do something else after other cases of the same   *)
(* process than in a process of its own (docs/06: an abort contaminates    *)
(* later cases of the worker).  And the parent of a worker or a child may  *)
(* call a crash what was none: a line torn or swallowed, a child killed    *)
(* for its time or never started.  Both are choices here.                  *)
(* Rows and files are kept per case, in the order of the case's rows.      *)
(***************************************************************************)
EXTENDS Integers, Sequences, FiniteSets

CONSTANTS
  NumCases,    (* cases the queries select, the same in every run *)
  Builds,      (* builds of the backend: what each case may do                   *)
  MaxBlamed,   (* bound: cases of a run called a crash by the parent alone       *)
  Commands,    (* command lines in use *)
  Paths,       (* names of JSONL files *)
  NoPath       (* the option is not given *)

Cases    == 0 .. NumCases - 1
Outcomes == {"pass", "skip", "warn", "fail"}
Statuses == Outcomes \cup {"crash"}
Effectives == Statuses \cup {"xfail", "xpass"}

(* What a case does with its subcases, and what it may do under a build: in *)
(* a process of its own, and in one where other cases ran before it.        *)
Deeds    == Seq(Outcomes \cup {"dies"}) \ {<<>>}
Conducts == [alone : Deeds, shared : SUBSET Deeds]

Command ==
  [workers   : Nat,                 (* 0: not given, else resolveWorkers      *)
   isolate   : BOOLEAN,
   crashList : BOOLEAN,
   emit      : BOOLEAN,
   shard     : Nat \X Nat,          (* <<index, count>>, count 0: not given   *)
   expected  : SUBSET Cases,        (* what --expectations matches            *)
   output    : Paths \cup {NoPath},
   baseline  : Paths \cup {NoPath}]

ASSUME TriageAssumption ==
  /\ NumCases \in Nat
  /\ MaxBlamed \in Nat
  /\ Builds # {}
  /\ Builds \subseteq [Cases -> Conducts]
  /\ \A b \in Builds : \A p \in Cases : b[p].alone \in b[p].shared
  /\ Commands # {}
  /\ Commands \subseteq Command
  /\ NoPath \notin Paths

VARIABLES
  build,      (* the build the processes of this run load *)
  crashList,  (* the crash-list file *)
  jsonl,      (* [Paths -> ...] the result files *)
  pc,         (* "idle", "run", "emit", "print", "compare", "done" *)
  cmd,        (* the options of the run *)
  did,        (* history: what each case of the run did, the last time it ran *)
  blamed,     (* history: the cases the parent called a crash by itself *)
  results,    (* [Cases -> Seq(Statuses)] the rows of each case *)
  report,     (* BaselineReport *)
  exit        (* how the process ended; "bad" and "error" are both status 1 *)

vars == <<build, crashList, jsonl, pc, cmd, did, blamed, results, report, exit>>

(* `there` and `cases` or `rows` are the file.  The rest is history: whether *)
(* it was written to its end, and then by which run: the cases it had, and   *)
(* those of them that went wrong.  (A JSONL file that is whole ends in its   *)
(* summary line, which loadBaseline passes over.)                            *)
Run      == [cases : SUBSET Cases, wrong : SUBSET Cases]
ListFile == [there : BOOLEAN, cases : SUBSET Cases, whole : BOOLEAN,
             build : Builds, for : SUBSET Cases]
JsonFile == [there : BOOLEAN, rows : [Cases -> Seq(Effectives)], whole : BOOLEAN, from : Run]
Report   == [regressed : SUBSET Cases, fixed : SUBSET Cases,
             added : SUBSET Cases, removed : SUBSET Cases]

NoRows   == [p \in Cases |-> <<>>]
NoReport == [regressed |-> {}, fixed |-> {}, added |-> {}, removed |-> {}]
Nobody   == [cases |-> {}, wrong |-> {}]

(* Between two runs the options are forgotten. *)
NoCommand == CHOOSE c \in Commands : TRUE

Has(rows, st) == \E i \in DOMAIN rows : rows[i] = st
Bad(st) == st \in {"fail", "crash"}
AnyBad(rows) == \E i \in DOMAIN rows : Bad(rows[i])

-----------------------------------------------------------------------------
(* From what a case does to its rows. *)

(* caseSelectedByShard *)
Selected == {p \in Cases : cmd.shard[2] > 0 => p % cmd.shard[2] = cmd.shard[1]}

(* Mutant of Aggregate: the first row speaks for the case. *)
AggregateFirst(rows) == rows[1]

(* aggregateCaseResult, of a case whose process lives. *)
Aggregate(rows) ==
  CASE Has(rows, "fail") -> "fail"
    [] Has(rows, "warn") /\ ~Has(rows, "fail") -> "warn"
    [] \A i \in DOMAIN rows : rows[i] = "skip" -> "skip"
    [] OTHER -> "pass"

(* One harness process, a shard worker per p % workers, a child per case;   *)
(* with a crash list the harness runs the unlisted cases itself.            *)
Mode ==
  CASE cmd.crashList -> "selective"
    [] ~cmd.crashList /\ cmd.isolate -> "isolate"
    [] ~cmd.crashList /\ ~cmd.isolate /\ cmd.workers >= 2 -> "workers"
    [] OTHER -> "plain"

(* The cases that may run before p in its process.  A worker that replaces  *)
(* one that died starts anew: it may give p the company of fewer or none.   *)
Company(p) ==
  {q \in Selected :
     /\ q < p
     /\ Mode # "isolate"
     /\ Mode = "workers" => q % cmd.workers = p % cmd.workers
     /\ Mode = "selective" => crashList.cases \cap {p, q} = {}}

MayDo(p) ==
  IF p \notin Selected THEN {<<>>}
  ELSE IF Company(p) = {} THEN {build[p].alone} ELSE build[p].shared

Doings ==
  {d \in [Cases -> UNION {MayDo(p) : p \in Cases}] : \A p \in Cases : d[p] \in MayDo(p)}

Dies(d, p) == Has(d[p], "dies")

(* The cases of S the parent may call a crash, whatever they did. *)
Blame(S) == {B \in SUBSET S : Cardinality(B) <= MaxBlamed}

(* The row a child of its own gives each case (finishIsolatedChild); a case *)
(* that lives gets the same in the harness' process.                       *)
ChildRows(d, B) ==
  [p \in Cases |-> <<IF p \in B \/ Dies(d, p) THEN "crash" ELSE Aggregate(d[p])>>]

(* The rows a shard worker gives a case: its own, or the parent's blame. *)
WorkerRows(d, B) == [p \in Cases |-> IF p \in B \/ Dies(d, p) THEN <<"crash">> ELSE d[p]]

(* The loops over the cases skip those of other shards. *)
OfSelected(rows) == [p \in Cases |-> IF p \in Selected THEN rows[p] ELSE <<>>]

-----------------------------------------------------------------------------
(* From rows to the report and the status. *)

Expected(p) == p \in cmd.expected

(* Mutant of Effective: a crash is never a known failure. *)
EffectiveFail(st, known) ==
  IF known /\ st = "fail" THEN "xfail"
  ELSE IF known /\ st = "pass" THEN "xpass" ELSE st

(* effectiveStatusName *)
Effective(st, known) ==
  IF known /\ Bad(st) THEN "xfail"
  ELSE IF known /\ st = "pass" THEN "xpass" ELSE st

EffectiveRows ==
  [p \in Cases |-> [i \in DOMAIN results[p] |-> Effective(results[p][i], Expected(p))]]

(* Mutant of NowBad: the last row of a case replaces the ones before it. *)
NowBadByLast(p) == Bad(EffectiveRows[p][Len(results[p])])

(* mergeCurrentEffective: a row of a case replaces one only if it is worse. *)
NowBad(p) == AnyBad(EffectiveRows[p])

(* loadBaseline: baseline[*query] = *effective, once per row of the case. *)
ThenBad(rows) == Bad(rows[Len(rows)])

(* buildBaselineReport and classifyDelta, against the rows of a baseline. *)
Compared(before) ==
  LET known == {p \in Cases : before[p] # <<>>}
      now   == {p \in Cases : results[p] # <<>>}
  IN  [regressed |-> {p \in known \cap now : NowBad(p) /\ ~ThenBad(before[p])},
       fixed     |-> {p \in known \cap now : ~NowBad(p) /\ ThenBad(before[p])},
       added     |-> now \ known,
       removed   |-> known \ now]

(* Mutant of UnexpectedFailures: only summary.fail is looked at. *)
UnexpectedFails ==
  {p \in Cases : \E i \in DOMAIN results[p] : results[p][i] = "fail" /\ ~Expected(p)}

(* The cases behind summary.fail + summary.crash in printRunResults. *)
UnexpectedFailures ==
  {p \in Cases : \E i \in DOMAIN results[p] : Bad(results[p][i]) /\ ~Expected(p)}

(* Mutant of CrashListLines: crashes that are expected are left out. *)
CrashListUnexpected ==
  {p \in Cases : \E i \in DOMAIN results[p] : results[p][i] = "crash" /\ ~Expected(p)}

(* crashListLines *)
CrashListLines == {p \in Cases : Has(results[p], "crash")}

-----------------------------------------------------------------------------
Init ==
  /\ build \in Builds
  /\ crashList = [there |-> FALSE, cases |-> {}, whole |-> FALSE, build |-> build, for |-> {}]
  /\ jsonl = [f \in Paths |-> [there |-> FALSE, rows |-> NoRows, whole |-> FALSE, from |-> Nobody]]
  /\ pc = "idle"
  /\ cmd = NoCommand
  /\ did = NoRows
  /\ blamed = {}
  /\ results = NoRows
  /\ report = NoReport
  /\ exit = "none"

(* The cases of the run that failed, died or were called a crash, but for   *)
(* the known failures: the reference for what is reported and compared.     *)
Wrong ==
  {p \in Selected \ cmd.expected : p \in blamed \/ Has(did[p], "fail") \/ Dies(did, p)}

ThisRun == [cases |-> Selected, wrong |-> Wrong]

Stop(how) == pc' = "done" /\ exit' = how

(* The two combinations runQueries refuses. *)
Refused(c) ==
  \/ c.workers # 0 /\ c.crashList
  \/ c.workers >= 2 /\ ~c.isolate /\ ~c.crashList /\ c.shard[2] > 0

(* A refused combination, or expectations that cannot be opened. *)
Refuse ==
  /\ pc = "idle"
  /\ \E c \in Commands : (Refused(c) \/ c.expected # {}) /\ cmd' = c
  /\ Stop("error")
  /\ UNCHANGED <<build, crashList, jsonl, did, blamed, results, report>>

Begin ==
  /\ pc = "idle"
  /\ \E c \in Commands : ~Refused(c) /\ cmd' = c
  /\ pc' = "run"
  /\ UNCHANGED <<build, crashList, jsonl, did, blamed, results, report, exit>>

(* What the cases did, which of them the parent blames, and the rows. *)
Returns(d, B, rows) == did' = d /\ blamed' = B /\ results' = OfSelected(rows)

(* collectRuns: a case that dies takes the harness with it. *)
RunPlain ==
  /\ pc = "run" /\ Mode = "plain"
  /\ \E d \in Doings :
       IF \E p \in Selected : Dies(d, p)
       THEN Stop("killed") /\ UNCHANGED <<did, blamed, results>>
       ELSE Returns(d, {}, d) /\ pc' = "print" /\ UNCHANGED exit
  /\ UNCHANGED <<build, crashList, jsonl, cmd, report>>

(* collectParallelRuns: a line torn or swallowed makes the parent blame a   *)
(* case that did not die, and a worker that stops in mid-line two.          *)
RunWorkers ==
  /\ pc = "run" /\ Mode = "workers"
  /\ \E d \in Doings : \E B \in Blame(Selected) : Returns(d, B, WorkerRows(d, B))
  /\ pc' = "print"
  /\ UNCHANGED <<build, crashList, jsonl, cmd, report, exit>>

(* collectIsolatedParallelRuns, collectIsolatedRuns: a child is killed when *)
(* its time is over, or cannot be started.                                  *)
RunIsolated ==
  /\ pc = "run" /\ Mode = "isolate"
  /\ \E d \in Doings : \E B \in Blame(Selected) : Returns(d, B, ChildRows(d, B))
  /\ pc' = IF cmd.emit THEN "emit" ELSE "print"
  /\ UNCHANGED <<build, crashList, jsonl, cmd, report, exit>>

(* collectSelectiveRuns: only listed cases run in a child.  In this mode     *)
(* --emit-crash-list is ignored.                                            *)
RunSelective ==
  /\ pc = "run" /\ Mode = "selective" /\ crashList.there
  /\ \E d \in Doings :
       IF \E p \in Selected \ crashList.cases : Dies(d, p)
       THEN Stop("killed") /\ UNCHANGED <<did, blamed, results>>
       ELSE /\ \E B \in Blame(Selected \cap crashList.cases) : Returns(d, B, ChildRows(d, B))
            /\ pc' = "print" /\ UNCHANGED exit
  /\ UNCHANGED <<build, crashList, jsonl, cmd, report>>

(* loadExpectations cannot open the crash list. *)
NoCrashList ==
  /\ pc = "run" /\ Mode = "selective" /\ ~crashList.there
  /\ Stop("error")
  /\ UNCHANGED <<build, crashList, jsonl, cmd, did, blamed, results, report>>

(* writeCrashList *)
WriteCrashList ==
  /\ pc = "emit"
  /\ crashList' = [there |-> TRUE, cases |-> CrashListLines, whole |-> TRUE,
                   build |-> build, for |-> Selected]
  /\ pc' = "print"
  /\ UNCHANGED <<build, jsonl, cmd, did, blamed, results, report, exit>>

(* The list ends early: the process is killed while it writes it, or a       *)
(* write fails (a full disk), which nothing asks for.                       *)
CutCrashList ==
  /\ pc = "emit"
  /\ \E S \in SUBSET CrashListLines :
       crashList' = [there |-> TRUE, cases |-> S, whole |-> FALSE,
                     build |-> build, for |-> Selected]
  /\ \/ Stop("interrupted")
     \/ pc' = "print" /\ UNCHANGED exit
  /\ UNCHANGED <<build, jsonl, cmd, did, blamed, results, report>>

(* A file cannot be opened: the exception ends the run, and its results go. *)
OpenFails ==
  /\ pc = "emit" \/ (pc = "print" /\ cmd.output # NoPath)
  /\ Stop("error")
  /\ UNCHANGED <<build, crashList, jsonl, cmd, did, blamed, results, report>>

Written(rows, whole) ==
  jsonl' = [jsonl EXCEPT ![cmd.output] =
              [there |-> TRUE, rows |-> rows, whole |-> whole,
               from |-> IF whole THEN ThisRun ELSE Nobody]]

(* The rows before the k-th of case p. *)
Cut(rows, p, k) ==
  [q \in Cases |-> IF q < p THEN rows[q] ELSE IF q = p THEN SubSeq(rows[q], 1, k) ELSE <<>>]

(* writeJsonOutput *)
WriteOutput ==
  /\ pc = "print" /\ cmd.output # NoPath
  /\ Written(EffectiveRows, TRUE)
  /\ pc' = "compare"
  /\ UNCHANGED <<build, crashList, cmd, did, blamed, results, report, exit>>

NoOutput ==
  /\ pc = "print" /\ cmd.output = NoPath
  /\ pc' = "compare"
  /\ UNCHANGED <<build, crashList, jsonl, cmd, did, blamed, results, report, exit>>

(* The file ends early, for the same reasons. *)
CutOutput ==
  /\ pc = "print" /\ cmd.output # NoPath
  /\ \E p \in Cases : \E k \in 0 .. Len(results[p]) : Written(Cut(EffectiveRows, p, k), FALSE)
  /\ \/ Stop("interrupted")
     \/ pc' = "compare" /\ UNCHANGED exit
  /\ UNCHANGED <<build, crashList, cmd, did, blamed, results, report>>

(* The status of printRunResults without --baseline. *)
Status ==
  /\ pc = "compare" /\ cmd.baseline = NoPath
  /\ Stop(IF UnexpectedFailures = {} THEN "ok" ELSE "bad")
  /\ UNCHANGED <<build, crashList, jsonl, cmd, did, blamed, results, report>>

(* printBaselineReport and the status with --baseline. *)
Compare ==
  /\ pc = "compare" /\ cmd.baseline # NoPath /\ jsonl[cmd.baseline].there
  /\ report' = Compared(jsonl[cmd.baseline].rows)
  /\ Stop(IF report'.regressed = {} THEN "ok" ELSE "bad")
  /\ UNCHANGED <<build, crashList, jsonl, cmd, did, blamed, results>>

(* loadBaseline cannot open the file. *)
NoBaseline ==
  /\ pc = "compare" /\ cmd.baseline # NoPath /\ ~jsonl[cmd.baseline].there
  /\ Stop("error")
  /\ UNCHANGED <<build, crashList, jsonl, cmd, did, blamed, results, report>>

(* The user or the CI kills the process. *)
Interrupt ==
  /\ pc \in {"run", "emit", "print", "compare"}
  /\ Stop("interrupted")
  /\ UNCHANGED <<build, crashList, jsonl, cmd, did, blamed, results, report>>

(* The next run, with the same build or another. *)
Again ==
  /\ pc = "done"
  /\ build' \in Builds
  /\ pc' = "idle"
  /\ did' = NoRows
  /\ blamed' = {}
  /\ results' = NoRows
  /\ report' = NoReport
  /\ exit' = "none"
  /\ cmd' = NoCommand
  /\ UNCHANGED <<crashList, jsonl>>

Next ==
  \/ Refuse \/ Begin
  \/ RunPlain \/ RunWorkers \/ RunIsolated \/ RunSelective \/ NoCrashList
  \/ WriteCrashList \/ CutCrashList \/ OpenFails
  \/ WriteOutput \/ NoOutput \/ CutOutput
  \/ Status \/ Compare \/ NoBaseline
  \/ Interrupt \/ Again

Spec == Init /\ [][Next]_vars

-----------------------------------------------------------------------------
(* The files, the rows and the report have their types. *)
TypeOK ==
  /\ build \in Builds
  /\ crashList \in ListFile
  /\ jsonl \in [Paths -> JsonFile]
  /\ pc \in {"idle", "run", "emit", "print", "compare", "done"}
  /\ cmd \in Commands
  /\ did \in [Cases -> Seq(Outcomes \cup {"dies"})]
  /\ blamed \in SUBSET Cases
  /\ results \in [Cases -> Seq(Statuses)]
  /\ report \in Report
  /\ exit \in {"none", "ok", "bad", "error", "killed", "interrupted"}

Judged == pc = "done" /\ exit \in {"ok", "bad"}

(* Without a baseline the status is 0 exactly if no selected case that is   *)
(* not a known failure fails, dies or is called a crash (printRunResults).  *)
StatusIsVerdict == Judged /\ cmd.baseline = NoPath => (exit = "ok" <=> Wrong = {})

(* The run compared itself with a finished run of its own, older file. *)
Gated ==
  /\ Judged
  /\ cmd.baseline # NoPath /\ cmd.baseline # cmd.output
  /\ jsonl[cmd.baseline].whole

Before == jsonl[cmd.baseline].from

(* A case that went wrong in this run and not in the run of the baseline    *)
(* fails the run with --baseline, whichever modes the two runs used: one    *)
(* row per case or per subcase, folded by the last row or by the worst.     *)
RegressionsAreReported ==
  Gated /\ exit = "ok" => Wrong \cap Before.cases \subseteq Before.wrong

(* What the report calls fixed, new or removed is so: a case went wrong     *)
(* then and not now, had no row then, has none now.                         *)
ReportIsHonest ==
  Gated =>
    /\ report.fixed \subseteq Before.wrong \ Wrong
    /\ report.added = Selected \ Before.cases
    /\ report.removed = Before.cases \ Selected

(* No selected case dies in company only. *)
DiesAloneToo ==
  \A p \in Selected : (\E deed \in build[p].shared : Has(deed, "dies")) => Has(build[p].alone, "dies")

(* A list written whole by --isolate --emit-crash-list lets a selective run *)
(* of the same build survive all cases it was written for (docs/06:317),    *)
(* unless one dies in company that lives alone, where it was listed.        *)
CrashListSuffices ==
  /\ pc = "done" /\ Mode = "selective"
  /\ crashList.whole /\ crashList.build = build
  /\ Selected \subseteq crashList.for
  /\ DiesAloneToo
  => exit # "killed"
=============================================================================
