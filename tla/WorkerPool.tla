----------------------------- MODULE WorkerPool -----------------------------
(***************************************************************************)
(* The plain parallel runner, `cts --workers N` (collectParallelRuns in    *)
(* src/common/runner.cpp).  The parent deals the ordered cases round-robin *)
(* to N shards, spawns one worker process per non-empty shard, reads the   *)
(* workers' RESULT lines from one pipe each, and respawns a worker that    *)
(* ends before its shard is finished, behind the case it blames for that.  *)
(*                                                                         *)
(* A RESULT line crosses the pipe as two tokens, "lo" up to a place inside *)
(* the query and "hi" with the rest and the newline: these are the halves  *)
(* the parser tells apart (cut before the query, a line is ignored; cut    *)
(* behind it, it is accepted with a shorter message).  Rows are the        *)
(* statuses of the lines; messages and the other statuses are left out.    *)
(***************************************************************************)
EXTENDS Integers, Sequences

CONSTANTS
  NumCases,     (* cases selected by the queries                         *)
  Workers,      (* --workers N                                           *)
  ResultCount,  (* CaseRun::expectedResultCount: one row per subcase     *)
  MaxNoise      (* bound: unterminated foreign output on workers' stdout *)

Cases  == 0 .. NumCases - 1
Shards == 0 .. Workers - 1

ASSUME PoolAssumption ==
  /\ NumCases \in Nat
  /\ Workers \in Nat \ {0}
  /\ ResultCount \in [Cases -> Nat \ {0}]
  /\ MaxNoise \in Nat

(* caseBelongsToShard: position p belongs to the shard p % N. *)
ShardOf(p) == p % Workers
NonEmptyShards == {s \in Shards : s < NumCases}

VARIABLES
  worker,   (* [Shards -> ...] the parent's WorkerState: "unspawned", "open", "closed" *)
  next,     (* [Shards -> Nat] positions[next]; NumCases or more: the shard is done    *)
  results,  (* [Cases -> Seq(Row)] resultsByCase                                       *)
  buffer,   (* [Shards -> Line] the unterminated line read so far                      *)
  exit,     (* "running", then the status of the parent                                *)
  child,    (* [Shards -> ...] the worker process: "none", "running", "exited", "aborted" *)
  at,       (* [Shards -> Nat] the case the process is at                              *)
  out,      (* [Shards -> Seq(Token)] lines in the process' stdio buffer               *)
  pipe,     (* [Shards -> Seq(Token)] bytes written and not yet read                   *)
  noise,    (* foreign fragments written so far                                        *)
  outcome,  (* [Cases -> Seq(Row)] history: what running the case gave                 *)
  died      (* history: the positions processes were at when they died                 *)

parentVars == <<worker, next, results, buffer, exit>>
childVars  == <<child, at, out, noise, outcome, died>>
vars       == <<parentVars, childVars, pipe>>

Outcomes == {"pass", "fail"}
Row      == Outcomes \cup {"crash"}
Crashed  == <<"crash">>

Lo(p, st) == [half |-> "lo", case |-> p, status |-> st]
Hi(p, st) == [half |-> "hi", case |-> p, status |-> st]
Junk      == [half |-> "junk"]
Empty     == [half |-> "none"]
Token     == [half : {"lo", "hi"}, case : Cases, status : Outcomes] \cup {Junk}
Line      == [half : {"lo"}, case : Cases, status : Outcomes] \cup {Junk, Empty}

(* The query of a line cut inside it: no case has that query. *)
TornQuery == -1

-----------------------------------------------------------------------------
(* The parent's bookkeeping.  n is positions[next] of a shard, res is      *)
(* resultsByCase; the operators return the new pair.                       *)

(* advanceCompletedWorkerCases.  The loop stops behind the first case:     *)
(* nothing is recorded ahead of `next` (see LedgerShape).                  *)
Advanced(n, res) ==
  IF n < NumCases /\ Len(res[n]) >= ResultCount[n] THEN n + Workers ELSE n

(* Mutant of RecordLine: the query is not compared. *)
RecordAnyLine(query, status, n, res) ==
  IF n >= NumCases THEN [next |-> n, results |-> res]
  ELSE LET more == [res EXCEPT ![n] = Append(@, status)]
       IN  [next |-> Advanced(n, more), results |-> more]

(* recordWorkerLine for a line that parses. *)
RecordLine(query, status, n, res) ==
  IF n >= NumCases THEN [next |-> n, results |-> res]
  ELSE IF query # n
       THEN [next |-> n + Workers, results |-> [res EXCEPT ![n] = Crashed]]
       ELSE LET more == [res EXCEPT ![n] = Append(@, status)]
            IN  [next |-> Advanced(n, more), results |-> more]

-----------------------------------------------------------------------------
Init ==
  /\ worker  = [s \in Shards |-> "unspawned"]
  /\ next    = [s \in Shards |-> s]
  /\ results = [p \in Cases |-> <<>>]
  /\ buffer  = [s \in Shards |-> Empty]
  /\ exit    = "running"
  /\ child   = [s \in Shards |-> "none"]
  /\ at      = [s \in Shards |-> s]
  /\ out     = [s \in Shards |-> <<>>]
  /\ pipe    = [s \in Shards |-> <<>>]
  /\ noise   = 0
  /\ outcome = [p \in Cases |-> <<>>]
  /\ died    = {}

(* The parent spawns the shards in order before it reads anything. *)
Spawn(s) ==
  /\ exit = "running" /\ s \in NonEmptyShards
  /\ worker[s] = "unspawned"
  /\ \A t \in Shards : t < s => worker[t] # "unspawned"
  /\ worker' = [worker EXCEPT ![s] = "open"]
  /\ child'  = [child EXCEPT ![s] = "running"]
  /\ UNCHANGED <<next, results, buffer, exit, at, out, pipe, noise, outcome, died>>

Reading(s) ==
  /\ exit = "running"
  /\ \A t \in NonEmptyShards : worker[t] # "unspawned"
  /\ worker[s] = "open"

(* read() + drainWorkerLines, token by token: nobody can look in between.  *)
(* A fragment that does not end a line stays in the buffer ...             *)
ReadFragment(s) ==
  /\ Reading(s)
  /\ pipe[s] # <<>> /\ Head(pipe[s]).half \in {"lo", "junk"}
  /\ buffer' = [buffer EXCEPT ![s] = IF @ = Junk THEN Junk ELSE Head(pipe[s])]
  /\ pipe' = [pipe EXCEPT ![s] = Tail(@)]
  /\ UNCHANGED <<worker, next, results, exit, childVars>>

(* ... and a newline hands the line to recordWorkerLine, which ignores it  *)
(* when foreign output stands in front of RESULT.                          *)
ReadLine(s) ==
  LET line == Head(pipe[s])
      rec  == IF buffer[s] = Junk
              THEN [next |-> next[s], results |-> results]
              ELSE RecordLine(line.case, line.status, next[s], results)
  IN
  /\ Reading(s)
  /\ pipe[s] # <<>> /\ line.half = "hi"
  /\ next' = [next EXCEPT ![s] = rec.next]
  /\ results' = rec.results
  /\ buffer' = [buffer EXCEPT ![s] = Empty]
  /\ pipe' = [pipe EXCEPT ![s] = Tail(@)]
  /\ UNCHANGED <<worker, exit, childVars>>

(* What finishWorker has recorded when waitpid returned: a line left in    *)
(* the buffer counts, even when it is torn.                                *)
AtEof(s) ==
  LET rec == IF buffer[s].half = "lo"
             THEN RecordLine(TornQuery, "pass", next[s], results)
             ELSE [next |-> next[s], results |-> results]
  IN  [rec EXCEPT !.next = Advanced(rec.next, rec.results)]

(* Mutants of Eof: the process is reaped before its pipe is read out, only *)
(* an orderly end is noticed.                                              *)
Reaped(s) == child[s] \in {"exited", "aborted"}
OrderlyEof(s) == pipe[s] = <<>> /\ child[s] = "exited"

(* read() returns 0: the process is gone and everything it wrote is read. *)
Eof(s) == pipe[s] = <<>> /\ child[s] \in {"exited", "aborted"}

(* Mutant of ShardFrom: the position is taken before it moved. *)
ShardFromBlamed(n) == n - Workers

(* ++next behind the blamed case, and the --shard-from of the new worker. *)
AfterBlame(n) == n + Workers
ShardFrom(n) == n

(* finishWorker: EOF on the pipe.  If the shard is not finished, its first *)
(* unreported case is blamed, whatever the exit status, and a worker is    *)
(* spawned for the rest; when that fails, the run does.                    *)
FinishWorker(s) ==
  LET eof   == AtEof(s)
      blame == eof.next < NumCases
      resume == IF blame THEN AfterBlame(eof.next) ELSE eof.next
  IN
  /\ Reading(s)
  /\ Eof(s)
  /\ buffer' = [buffer EXCEPT ![s] = Empty]
  /\ next' = [next EXCEPT ![s] = resume]
  /\ results' = IF blame THEN [eof.results EXCEPT ![eof.next] = Crashed] ELSE eof.results
  /\ IF resume < NumCases
     THEN /\ child' = [child EXCEPT ![s] = "running"]
          /\ at' = [at EXCEPT ![s] = ShardFrom(resume)]
          /\ UNCHANGED worker
     ELSE /\ worker' = [worker EXCEPT ![s] = "closed"]
          /\ UNCHANGED <<child, at>>
  /\ UNCHANGED <<exit, out, pipe, noise, outcome, died>>

(* Mutant of RunStatus: a crash does not count as bad. *)
StatusIgnoringCrash(rows) ==
  IF \A p \in Cases : \A i \in DOMAIN rows[p] : rows[p][i] # "fail" THEN "success" ELSE "failure"

(* The status of printRunResults, without expectations and baseline. *)
RunStatus(rows) ==
  IF \A p \in Cases : \A i \in DOMAIN rows[p] : rows[p][i] = "pass" THEN "success" ELSE "failure"

WorkersGone == \A s \in NonEmptyShards : worker[s] = "closed"

(* All workers are gone: merge in case order and print the summary. *)
Merge ==
  /\ exit = "running"
  /\ WorkersGone
  /\ results' = [p \in Cases |-> IF results[p] = <<>> THEN Crashed ELSE results[p]]
  /\ exit' = RunStatus(results')
  /\ UNCHANGED <<worker, next, buffer, childVars, pipe>>

(* pipe, fork, poll, read or waitpid fails: the exception ends the run.    *)
ParentThrows ==
  /\ exit = "running"
  /\ exit' = "failure"
  /\ UNCHANGED <<worker, next, results, buffer, childVars, pipe>>

-----------------------------------------------------------------------------
(* The worker process (collectShardResultRunsFromPlan).                    *)

Alive(s) == exit = "running" /\ child[s] = "running"

RowLines(p, rows) ==
  [i \in 1 .. 2 * Len(rows) |->
     LET st == rows[(i + 1) \div 2] IN IF i % 2 = 1 THEN Lo(p, st) ELSE Hi(p, st)]

(* runCase: every subcase gives a row; the lines go to the stdio buffer. *)
RunCase(s) ==
  LET p == at[s] IN
  /\ Alive(s)
  /\ p < NumCases /\ out[s] = <<>>
  /\ \E rows \in [1 .. ResultCount[p] -> Outcomes] :
       /\ outcome' = [outcome EXCEPT ![p] = rows]
       /\ out' = [out EXCEPT ![s] = RowLines(p, rows)]
  /\ UNCHANGED <<parentVars, child, at, pipe, noise, died>>

(* emitShardResults: the flush writes the buffer, in pieces when it is     *)
(* larger than one write.  The first line's query starts the buffer, so a  *)
(* piece never ends inside that one.  Behind the flush comes the next case.*)
Emit(s) ==
  /\ Alive(s)
  /\ out[s] # <<>>
  /\ \E k \in 1 .. Len(out[s]) :
       /\ Len(out[s]) = 2 * ResultCount[at[s]] => k >= 2
       /\ pipe' = [pipe EXCEPT ![s] = @ \o SubSeq(out[s], 1, k)]
       /\ out'  = [out EXCEPT ![s] = SubSeq(@, k + 1, Len(@))]
       /\ at'   = [at EXCEPT ![s] = IF k = Len(out[s]) THEN @ + Workers ELSE @]
  /\ UNCHANGED <<parentVars, child, noise, outcome, died>>

(* The backend prints to stdout without a newline while a case runs. *)
Noise(s) ==
  /\ Alive(s)
  /\ noise < MaxNoise /\ out[s] = <<>>
  /\ noise' = noise + 1
  /\ pipe' = [pipe EXCEPT ![s] = Append(@, Junk)]
  /\ UNCHANGED <<parentVars, child, at, out, outcome, died>>

Exit(s) ==
  /\ Alive(s)
  /\ at[s] >= NumCases
  /\ child' = [child EXCEPT ![s] = "exited"]
  /\ UNCHANGED <<parentVars, at, out, pipe, noise, outcome, died>>

(* The process dies, in a case or between two writes; what it had not      *)
(* written is lost.                                                        *)
Abort(s) ==
  /\ Alive(s)
  /\ child' = [child EXCEPT ![s] = "aborted"]
  /\ out' = [out EXCEPT ![s] = <<>>]
  /\ died' = died \cup {at[s]}
  /\ UNCHANGED <<parentVars, at, pipe, noise, outcome>>

-----------------------------------------------------------------------------
Finished == exit # "running" /\ UNCHANGED vars

Parent(s) == Spawn(s) \/ ReadFragment(s) \/ ReadLine(s) \/ FinishWorker(s)
Child(s)  == RunCase(s) \/ Emit(s) \/ Exit(s)

Next ==
  \/ \E s \in Shards : Parent(s) \/ Child(s) \/ Noise(s) \/ Abort(s)
  \/ Merge
  \/ ParentThrows
  \/ Finished

Spec == Init /\ [][Next]_vars

(* The parent's poll loop serves every ready worker; a worker process that *)
(* is not killed gets on with its cases.  There is no timeout here: a case *)
(* that never returns hangs the run, so the second half is an assumption   *)
(* on the tests.                                                           *)
Fairness ==
  /\ \A s \in Shards : WF_vars(Parent(s)) /\ WF_vars(Child(s))
  /\ WF_vars(Merge)

FairSpec == Spec /\ Fairness

-----------------------------------------------------------------------------
(* Every variable has its type, and neither side of a pipe ever stands on  *)
(* a position of another shard.                                            *)
TypeOK ==
  /\ worker \in [Shards -> {"unspawned", "open", "closed"}]
  /\ next \in [Shards -> Nat]
  /\ results \in [Cases -> Seq(Row)]
  /\ buffer \in [Shards -> Line]
  /\ exit \in {"running", "success", "failure"}
  /\ child \in [Shards -> {"none", "running", "exited", "aborted"}]
  /\ at \in [Shards -> Nat]
  /\ out \in [Shards -> Seq(Token)]
  /\ pipe \in [Shards -> Seq(Token)]
  /\ noise \in 0 .. MaxNoise
  /\ outcome \in [Cases -> Seq(Outcomes)]
  /\ died \subseteq Nat
  /\ \A s \in Shards : ShardOf(next[s]) = s /\ ShardOf(at[s]) = s

Settled(p) == p < next[ShardOf(p)]
FullRows(p, rows) == rows \in Seq(Outcomes) /\ Len(rows) = ResultCount[p]
PartRows(p, rows) == rows \in Seq(Outcomes) /\ Len(rows) < ResultCount[p]

(* The case table of a shard is cut by `next`: behind it every case has    *)
(* all its rows or the one crash row, at it a proper part of its rows,     *)
(* ahead of it nothing; and a worker is not replaced only when its shard   *)
(* is done.  This is what lets advanceCompletedWorkerCases stop at a       *)
(* count, and makes "produced no result" of the merge unreachable.         *)
LedgerShape ==
  /\ \A p \in Cases :
       IF Settled(p)
       THEN results[p] = Crashed \/ FullRows(p, results[p])
       ELSE /\ PartRows(p, results[p])
            /\ p # next[ShardOf(p)] => results[p] = <<>>
  /\ \A s \in Shards : worker[s] = "closed" => next[s] >= NumCases

(* A case that ends with rows of its own ends with exactly the rows its    *)
(* run gave, in order, whatever was lost, torn, blamed or respawned around *)
(* it: lines are never credited to another case or another run.            *)
VerdictsAreEarned ==
  \A p \in Cases : Settled(p) => results[p] \in {Crashed, outcome[p]}

(* "mark the first unreported case of that shard as Crash": without foreign *)
(* output, and where no process died in a case of several rows, whose lines *)
(* can be torn in their query, the cases of a shard with a crash verdict    *)
(* are exactly those a process died in: no innocent case is blamed or       *)
(* skipped and no crasher gets away.                                        *)
BlameIsExact ==
  noise = 0 =>
    \A p \in Cases :
      /\ Settled(p)
      /\ \A q \in died \cap Cases : ShardOf(q) = ShardOf(p) => ResultCount[q] = 1
      => (results[p] = Crashed <=> p \in died)

(* A respawned worker starts behind every case decided so far and leaves   *)
(* none out in between.                                                    *)
ResumesAtFirstOpenCase ==
  [][\A s \in Shards : child[s] # "running" /\ child'[s] = "running" =>
       \A p \in Cases : ShardOf(p) = s =>
         (p < at'[s] <=> results'[p] # <<>>)]_vars

(* If every process ends or gets on with its cases, the run ends. *)
RunEnds == <>(exit # "running")

(* The ledger a user sees: a case's rows once the case is settled. *)
Shown == [p \in Cases |-> IF Settled(p) THEN results[p] ELSE <<>>]

Ledger == INSTANCE CaseLedger WITH
  Verdicts  <- Seq(Row) \ {<<>>},
  Clean     <- Seq({"pass"}) \ {<<>>},
  NoVerdict <- <<>>,
  verdict   <- Shown

(* Every step of the pool settles cases for good, reports a full table, or *)
(* fails the run.                                                          *)
LedgerSpec == Ledger!Spec
=============================================================================
