---------------------------- MODULE CaseSelection ----------------------------
(***************************************************************************)
(* Which cases a command line selects, and how the selection reaches other *)
(* processes: expansion of parameters (src/common/params.cpp), thinning of *)
(* format sweeps (format_sample.cpp), queries (query.cpp), the enumeration *)
(* of the registry (collectCases in runner.cpp), and the case plans that   *)
(* carry a part of it to shard workers and single-case children            *)
(* (case_plan.cpp).  A child started by hand enumerates again, from the    *)
(* text of a query alone.                                                  *)
(*                                                                         *)
(* A parameter record is a sequence of <<key, value>>.  A value has a type *)
(* and a content, and its text drops what the text of a query drops.       *)
(***************************************************************************)
EXTENDS Integers, SequencesExt

CONSTANTS
  Registries,      (* registries in use: sequences of [file, test, ops]      *)
  QuerySets,       (* the queries of a command line                          *)
  Workers,         (* --workers N                                            *)
  Threshold,       (* kFormatSampleThreshold                                 *)
  FormatKeys,      (* keys the sampling hook looks at                        *)
  Formats,         (* values it knows                                        *)
  Representatives  (* values it keeps                                        *)

ASSUME SelectionAssumption ==
  /\ Workers \in Nat \ {0}
  /\ Threshold \in Nat
  /\ Representatives \subseteq Formats

VARIABLES
  registry,  (* the linked tests, in the order of their registration          *)
  queries,   (* RunOptions::queries of the parent                             *)
  sample,    (* --sample-formats, of the parent and of every child              *)
  at,        (* tests of the registry enumerated so far                       *)
  runs,      (* the parent's vector of CaseRun                                *)
  plans,     (* case-plan files: of the shards (by index), and of one case    *)
  pc,        (* "collect", "serve", "served", "aborted"                       *)
  child      (* what one child selected; they share no state but the plans    *)

vars == <<registry, queries, sample, at, runs, plans, pc, child>>

Shards == 0 .. Workers - 1

(* The elements of s at these positions, in their order: SelectSeq, in a    *)
(* form that can be reasoned about.                                         *)
Select(s, positions) ==
  LET n == Len(s)
      upTo[i \in 0 .. n] ==
        IF i = 0 THEN <<>>
        ELSE IF i \in positions THEN Append(upTo[i - 1], s[i]) ELSE upTo[i - 1]
  IN  upTo[n]

-----------------------------------------------------------------------------
(* Parameters. *)

HasKey(record, key) == \E i \in DOMAIN record : record[i][1] = key

(* findParam: the last entry of a key. *)
Param(record, key) == record[SelectLastInSeq(record, LAMBDA p : p[1] = key)][2]

(* stringifyValue: a double of integral value reads like an integer. *)
Text(value) == IF value.type = "double" THEN [value EXCEPT !.type = "int"] ELSE value

(* stringifyParams *)
ParamsText(record) == [i \in DOMAIN record |-> <<record[i][1], Text(record[i][2])>>]

(* What an operation of ParamsBuilder makes of one record, in order.  An    *)
(* expander or predicate looks at one key, given by a table or a set.       *)
Extensions(op, record) ==
  CASE op.kind = "combine" -> [i \in DOMAIN op.values |-> Append(record, <<op.key, op.values[i]>>)]
    [] op.kind = "with"    -> [i \in DOMAIN op.records |-> record \o op.records[i]]
    [] op.kind = "expand"  -> LET values == op.table[Param(record, op.on)]
                              IN  [i \in DOMAIN values |-> Append(record, <<op.key, values[i]>>)]
    [] op.kind = "filter"  -> IF Param(record, op.on) \in op.keep THEN <<record>> ELSE <<>>

Applied(op, records) ==
  FlattenSeq([i \in DOMAIN records |-> Extensions(op, records[i])])

(* The loop over ops_, which passes by the operations of the other scope. *)
AppliedIn(ops, scope, records) ==
  LET n == Len(ops)
      upTo[i \in 0 .. n] ==
        IF i = 0 THEN records
        ELSE IF ops[i].subcase = scope THEN Applied(ops[i], upTo[i - 1]) ELSE upTo[i - 1]
  IN  upTo[n]

CaseRecords(ops) == AppliedIn(ops, FALSE, <<<<>>>>)

HasSubcases(ops) == \E i \in DOMAIN ops : ops[i].subcase

(* The subcases of a case, without the keys of the case. *)
Subcases(ops, record) ==
  LET merged == AppliedIn(ops, TRUE, <<record>>)
  IN  [i \in DOMAIN merged |-> Select(merged[i], {k \in DOMAIN merged[i] : ~HasKey(record, merged[i][k][1])})]

EveryCase(ops) ==
  LET records == CaseRecords(ops)
  IN  [i \in DOMAIN records |->
         [params |-> records[i],
          subcases |-> IF HasSubcases(ops) THEN Subcases(ops, records[i]) ELSE <<>>]]

WithSubcases(cases) == Select(cases, {i \in DOMAIN cases : cases[i].subcases # <<>>})

(* Mutant of Expanded: a case stays when its subcases are all filtered away. *)
ExpandedWithEmpty(ops) == EveryCase(ops)

(* ParamsBuilder::expand() *)
Expanded(ops) == IF HasSubcases(ops) THEN WithSubcases(EveryCase(ops)) ELSE EveryCase(ops)

(* abortOnCaseKeyCollision, on the keys a subcase operation adds. *)
AddedKeys(op) ==
  CASE op.kind = "with"   -> UNION {{p[1] : p \in ToSet(op.records[i])} : i \in DOMAIN op.records}
    [] op.kind = "filter" -> {}
    [] OTHER              -> {op.key}

Collides(ops) ==
  \E i \in DOMAIN ops : ops[i].subcase /\
    \E j \in DOMAIN CaseRecords(ops) : \E key \in AddedKeys(ops[i]) : HasKey(CaseRecords(ops)[j], key)

-----------------------------------------------------------------------------
(* Sampling. *)

(* runParamsForCase *)
RunsOf(c) ==
  IF c.subcases = <<>> THEN <<c.params>>
  ELSE [i \in DOMAIN c.subcases |-> c.params \o c.subcases[i]]

Recognised(p) == p[1] \in FormatKeys /\ p[2] \in Formats

Kept(run) == \A i \in DOMAIN run : Recognised(run[i]) => run[i][2] \in Representatives

ParamsIn(cases) == UNION {UNION {ToSet(run) : run \in ToSet(RunsOf(c))} : c \in ToSet(cases)}

(* Mutant of Wide: the threshold itself is enough. *)
WideAtThreshold(cases) ==
  \E key \in FormatKeys :
    Cardinality({Text(p[2]) : p \in {q \in ParamsIn(cases) : q[1] = key /\ Recognised(q)}}) >= Threshold

(* A recognised key takes more than Threshold values. *)
Wide(cases) ==
  \E key \in FormatKeys :
    Cardinality({Text(p[2]) : p \in {q \in ParamsIn(cases) : q[1] = key /\ Recognised(q)}}) > Threshold

(* The runs of a case that are kept; a case without any is dropped. *)
Thinned(c) ==
  [c EXCEPT !.subcases = Select(@, {i \in DOMAIN @ : Kept(c.params \o @[i])})]

HasKept(c) == \E run \in ToSet(RunsOf(c)) : Kept(run)

(* sampleFormatsInCases.  (Where everything is kept, thinning changes nothing.) *)
Sampled(cases) ==
  IF ~Wide(cases) \/ ~\E c \in ToSet(cases) : HasKept(c) THEN cases
  ELSE LET kept == Select(cases, {i \in DOMAIN cases : HasKept(cases[i])})
       IN  [i \in DOMAIN kept |-> Thinned(kept[i])]

(* sampledExpandedCases *)
CasesOf(test, thin) == IF thin THEN Sampled(Expanded(test.ops)) ELSE Expanded(test.ops)

-----------------------------------------------------------------------------
(* Queries.  A fragment is a sequence of names and whether a star follows.  *)

(* wildcardMatch *)
Matches(fragment, name) ==
  IF fragment.star \/ fragment.names = <<>>
  THEN IsPrefix(fragment.names, name) ELSE fragment.names = name

(* queryMatchesTest *)
MatchesTest(q, test) == Matches(q.file, test.file) /\ Matches(q.test, test.test)

(* queryMatchesCase; a query without parameters, or with *, has params <<>>. *)
MatchesCase(q, test, params) ==
  MatchesTest(q, test) /\ (q.params = <<>> \/ q.params = ParamsText(params))

(* caseQuery, and parseQuery of what it prints. *)
CaseQuery(test, params) ==
  [file |-> [names |-> test.file, star |-> FALSE],
   test |-> [names |-> test.test, star |-> FALSE], params |-> ParamsText(params)]

(* expandedCaseExpectedResultCount is its count. *)
CaseRun(index, c) ==
  [test |-> index, params |-> c.params, subcases |-> c.subcases,
   query |-> CaseQuery(registry[index], c.params),
   count |-> IF c.subcases = <<>> THEN 1 ELSE Len(c.subcases)]

CaseRuns(index, cases) == [i \in DOMAIN cases |-> CaseRun(index, cases[i])]

Matching(test, qs, cases) ==
  Select(cases, {i \in DOMAIN cases : \E q \in qs : MatchesCase(q, test, cases[i].params)})

(* Mutant of Collected: what is selected is sampled. *)
CollectedThenSampled(index, qs, thin) ==
  LET cases == Matching(registry[index], qs, Expanded(registry[index].ops))
  IN  IF \E q \in qs : MatchesTest(q, registry[index])
      THEN CaseRuns(index, IF thin THEN Sampled(cases) ELSE cases) ELSE <<>>

(* The body of the loop of collectCases for one test. *)
Collected(index, qs, thin) ==
  IF \E q \in qs : MatchesTest(q, registry[index])
  THEN CaseRuns(index, Matching(registry[index], qs, CasesOf(registry[index], thin)))
  ELSE <<>>

(* collectCases *)
CollectedCases(qs, thin) ==
  FlattenSeq([index \in DOMAIN registry |-> Collected(index, qs, thin)])

-----------------------------------------------------------------------------
(* Case plans. *)

(* serializeCasePlan: the cases at these positions, in increasing order. *)
PlanOf(positions) ==
  LET Entry(p) == [position |-> p, file |-> registry[runs[p].test].file, test |-> registry[runs[p].test].test,
                   params |-> runs[p].params, subcases |-> runs[p].subcases]
  IN  Select([p \in DOMAIN runs |-> Entry(p)], positions)

(* Mutant of Loaded: the position in the plan, not among the parent's cases. *)
LoadedByIndex(plan) ==
  [i \in DOMAIN plan |->
     LET index == SelectInSeq(registry, LAMBDA t : t.file = plan[i].file /\ t.test = plan[i].test)
     IN  <<i, CaseRun(index, [params |-> plan[i].params, subcases |-> plan[i].subcases])>>]

(* loadCasePlan: the test is looked up by its names, the first of them wins; *)
(* query and count are made anew.                                           *)
Loaded(plan) ==
  [i \in DOMAIN plan |->
     LET index == SelectInSeq(registry, LAMBDA t : t.file = plan[i].file /\ t.test = plan[i].test)
     IN  <<plan[i].position, CaseRun(index, [params |-> plan[i].params, subcases |-> plan[i].subcases])>>]

(* caseSelectedByShard.  Positions of a TLA+ sequence begin with 1. *)
InShard(s, position) == (position - 1) % Workers = s

(* What a worker serves of the cases it has read: those of its shard from   *)
(* the one on that it was started with.                                     *)
Served(entries, s, from) ==
  Select(entries, {i \in DOMAIN entries : entries[i][1] >= from /\ InShard(s, entries[i][1])})

-----------------------------------------------------------------------------
(* The types of the source say that these are vectors, and no two of the    *)
(* linked tests share their names; no test gives a key twice to one run.    *)
Sequential(x) == x \in Seq(ToSet(x))

KeysOnce(run) == \A i, j \in DOMAIN run : run[i][1] = run[j][1] => i = j

Vectors(ops) ==
  LET records == CaseRecords(ops)
  IN  /\ Sequential(records)
      /\ \A i \in DOMAIN records :
           LET subcases == Subcases(ops, records[i])
           IN  /\ Sequential(records[i]) /\ Sequential(subcases)
               /\ \A j \in DOMAIN subcases : Sequential(subcases[j])

ASSUME RegistryAssumption ==
  \A r \in Registries :
    /\ Sequential(r)
    /\ \A i \in DOMAIN r :
         /\ Sequential(r[i].file) /\ r[i].file # <<>>
         /\ Sequential(r[i].test) /\ r[i].test # <<>>
         /\ \A j \in DOMAIN r : r[i].file = r[j].file /\ r[i].test = r[j].test => i = j
         /\ Vectors(r[i].ops)
         /\ \A c \in ToSet(Expanded(r[i].ops)) : \A run \in ToSet(RunsOf(c)) : KeysOnce(run)

Init ==
  /\ registry \in Registries
  /\ queries \in QuerySets
  /\ sample \in BOOLEAN
  /\ at = 0
  /\ runs = <<>>
  /\ plans = [s \in Shards |-> <<>>]
  /\ pc = "collect"
  /\ child = [kind |-> "none"]

Asked(index) == \E q \in queries : MatchesTest(q, registry[index])

SkipTest ==
  /\ pc = "collect" /\ at < Len(registry)
  /\ ~Asked(at + 1)
  /\ at' = at + 1
  /\ UNCHANGED <<registry, queries, sample, runs, plans, pc, child>>

CollectTest ==
  /\ pc = "collect" /\ at < Len(registry)
  /\ Asked(at + 1) /\ ~Collides(registry[at + 1].ops)
  /\ at' = at + 1
  /\ runs' = runs \o Collected(at + 1, queries, sample)
  /\ UNCHANGED <<registry, queries, sample, plans, pc, child>>

(* std::abort: the parameters of a test are wrong, and nothing runs. *)
AbortOnCollision ==
  /\ pc = "collect" /\ at < Len(registry)
  /\ Asked(at + 1) /\ Collides(registry[at + 1].ops)
  /\ pc' = "aborted"
  /\ UNCHANGED <<registry, queries, sample, at, runs, plans, child>>

(* collectParallelRuns up to the first worker; shards without cases get none. *)
WritePlans ==
  /\ pc = "collect" /\ at = Len(registry)
  /\ plans' = [s \in Shards |-> PlanOf({p \in DOMAIN runs : InShard(s, p)})]
  /\ pc' = "serve"
  /\ UNCHANGED <<registry, queries, sample, at, runs, child>>

(* collectShardResultRunsFromPlan: a worker that starts or goes on with a   *)
(* case of its plan.                                                        *)
StartWorker ==
  /\ pc = "serve"
  /\ \E s \in Shards : \E i \in DOMAIN plans[s] :
       LET from == plans[s][i].position
       IN  child' = [kind |-> "worker", shard |-> s, from |-> from,
                     selected |-> Served(Loaded(plans[s]), s, from)]
  /\ pc' = "served"
  /\ UNCHANGED <<registry, queries, sample, at, runs, plans>>

(* collectShardResultRuns: --shard-results without a plan. *)
ShardByHand ==
  /\ pc = "serve"
  /\ \E s \in Shards, from \in DOMAIN runs :
       LET cases   == CollectedCases(queries, sample)
           entries == [p \in DOMAIN cases |-> <<p, cases[p]>>]
       IN  child' = [kind |-> "worker", shard |-> s, from |-> from,
                     selected |-> Served(entries, s, from)]
  /\ pc' = "served"
  /\ UNCHANGED <<registry, queries, sample, at, runs, plans>>

(* startIsolatedChild and runSingleCase with a plan of one case; a plan that *)
(* does not match the query is refused.                                     *)
StartIsolated ==
  /\ pc = "serve"
  /\ \E p \in DOMAIN runs :
       LET planned == Loaded(PlanOf({p}))
       IN  child' = [kind |-> "isolated", of |-> p,
                     selected |-> IF Len(planned) = 1 /\ planned[1][2].query = runs[p].query
                                  THEN planned ELSE <<>>]
  /\ pc' = "served"
  /\ UNCHANGED <<registry, queries, sample, at, runs, plans>>

(* runSingleCase without a plan. *)
RunByHand ==
  /\ pc = "serve"
  /\ \E p \in DOMAIN runs :
       LET q     == runs[p].query
           thin  == CollectedCases({q}, sample)
           cases == IF thin = <<>> /\ sample THEN CollectedCases({q}, FALSE) ELSE thin
       IN  child' = [kind |-> "hand", of |-> p,
                     selected |-> IF Len(cases) = 1 /\ cases[1].query = q
                                  THEN <<<<p, cases[1]>>>> ELSE <<>>]
  /\ pc' = "served"
  /\ UNCHANGED <<registry, queries, sample, at, runs, plans>>

Next ==
  \/ SkipTest \/ CollectTest \/ AbortOnCollision
  \/ WritePlans \/ StartWorker \/ ShardByHand \/ StartIsolated \/ RunByHand

Spec == Init /\ [][Next]_vars

-----------------------------------------------------------------------------
LastOps == registry[at].ops

GeneratedKeys(ops) == UNION {AddedKeys(ops[i]) : i \in DOMAIN ops}

AddedValues(op) ==
  CASE op.kind = "combine" -> ToSet(op.values)
    [] op.kind = "with"    -> UNION {{p[2] : p \in ToSet(op.records[i])} : i \in DOMAIN op.records}
    [] op.kind = "expand"  -> UNION {ToSet(op.table[v]) : v \in DOMAIN op.table}
    [] op.kind = "filter"  -> {}

GeneratedValues(ops) == UNION {AddedValues(ops[i]) : i \in DOMAIN ops}

AllRuns(cases) == FlattenSeq([i \in DOMAIN cases |-> RunsOf(cases[i])])

Assignment(run) == [key \in {run[i][1] : i \in DOMAIN run} |-> Param(run, key)]

(* An assignment of values to keys obeys an operation, whenever it comes. *)
Obeys(a, op) ==
  CASE op.kind = "combine" -> a[op.key] \in ToSet(op.values)
    [] op.kind = "with"    -> \E i \in DOMAIN op.records : \A p \in ToSet(op.records[i]) : a[p[1]] = p[2]
    [] op.kind = "expand"  -> a[op.key] \in ToSet(op.table[a[op.on]])
    [] op.kind = "filter"  -> a[op.on] \in op.keep

Reads(op) == IF op.kind \in {"expand", "filter"} THEN {op.on} ELSE {}

ValuesUnder(op, key) ==
  CASE op.kind = "combine" -> ToSet(op.values)
    [] op.kind = "with"    -> UNION {{p[2] : p \in {q \in ToSet(op.records[i]) : q[1] = key}} : i \in DOMAIN op.records}
    [] op.kind = "expand"  -> UNION {ToSet(op.table[v]) : v \in DOMAIN op.table}
    [] op.kind = "filter"  -> {}

(* One operation makes no record twice, and all of one set of keys. *)
Distinguishes(op) ==
  CASE op.kind = "combine" -> Sequential(op.values) /\ IsInjective(op.values)
    [] op.kind = "with"    ->
         /\ Sequential(op.records)
         /\ \A i \in DOMAIN op.records :
              /\ Sequential(op.records[i]) /\ KeysOnce(op.records[i])
              /\ \A key \in AddedKeys(op) : HasKey(op.records[i], key)
              /\ \A j \in DOMAIN op.records :
                   Assignment(op.records[i]) = Assignment(op.records[j]) => i = j
    [] op.kind = "expand"  -> \A v \in DOMAIN op.table : Sequential(op.table[v]) /\ IsInjective(op.table[v])
    [] op.kind = "filter"  -> TRUE
    [] OTHER               -> FALSE

(* What the writer of a test sees to: an operation reads only keys that an  *)
(* earlier one made, a key is made once in its scope (a subcase may collide *)
(* with its case), and values are not repeated.  That the operations of the *)
(* subcases come last is beginSubcases' doing.                              *)
WellFormed(ops) ==
  /\ Sequential(ops)
  /\ \A i \in DOMAIN ops :
       /\ ops[i].subcase \in BOOLEAN
       /\ Distinguishes(ops[i])
       /\ \A key \in Reads(ops[i]) : \E j \in 1 .. i - 1 : key \in AddedKeys(ops[j])
       /\ \A j \in 1 .. i - 1 :
            /\ ops[j].subcase => ops[i].subcase
            /\ ops[j].subcase = ops[i].subcase => AddedKeys(ops[i]) \cap AddedKeys(ops[j]) = {}
            /\ ops[i].kind = "expand" /\ ops[i].on \in AddedKeys(ops[j])
                 => ValuesUnder(ops[j], ops[i].on) \subseteq DOMAIN ops[i].table

TestsWellFormed == \A r \in Registries : \A i \in DOMAIN r : WellFormed(r[i].ops)

(* Expansion loses no run and doubles none, however its operations are      *)
(* spread over cases and subcases: the runs of a test are the assignments   *)
(* that obey all of its operations, each once, and no case is without runs. *)
ExpansionIsComplete ==
  pc = "collect" /\ at > 0 /\ ~Collides(LastOps) =>
    LET cases  == Expanded(LastOps)
        all    == AllRuns(cases)
    IN  /\ {Assignment(all[i]) : i \in DOMAIN all} =
             {a \in [GeneratedKeys(LastOps) -> GeneratedValues(LastOps)] :
                \A i \in DOMAIN LastOps : Obeys(a, LastOps[i])}
        /\ \A i, j \in DOMAIN all : i # j => all[i] # all[j]
        /\ HasSubcases(LastOps) => \A i \in DOMAIN cases : cases[i].subcases # <<>>

(* Sampling silences no test and no narrow one at all, drops only runs with *)
(* a format it knows, and leaves the others in their order.                 *)
SamplingSparesTheRest ==
  pc = "collect" /\ at > 0 /\ ~Collides(LastOps) =>
    LET full == AllRuns(Expanded(LastOps))
        thin == AllRuns(Sampled(Expanded(LastOps)))
    IN  /\ full # <<>> => thin # <<>>
        /\ thin = full \/ thin = Select(full, {i \in DOMAIN full : Kept(full[i])})
        /\ (\A key \in FormatKeys : Cardinality({Param(full[i], key) : i \in
              {j \in DOMAIN full : HasKey(full[j], key) /\ Param(full[j], key) \in Formats}}) <= Threshold)
           => thin = full

Everything == [file |-> [names |-> <<>>, star |-> TRUE],
               test |-> [names |-> <<>>, star |-> TRUE], params |-> <<>>]

(* The queries only choose: a selected case has the subcases it has when    *)
(* the whole suite runs, sampled or not, and comes in the same order.       *)
SelectionIsAFilter ==
  pc = "serve" =>
    LET all == CollectedCases({Everything}, sample)
    IN  runs = Select(all, {i \in DOMAIN all :
                 \E q \in queries : MatchesCase(q, registry[all[i].test], all[i].params)})

(* What a child selects is what the parent meant: a worker the rest of its  *)
(* shard in order, with the parent's positions and rows, an isolated        *)
(* child its case, and so does a run by hand of a query that no other case  *)
(* of its test shares (an integer and a double may read the same).          *)
ChildrenSelectTheParentsCases ==
  /\ child.kind = "worker" =>
       child.selected = [i \in DOMAIN child.selected |-> <<child.selected[i][1], runs[child.selected[i][1]]>>]
         /\ {e[1] : e \in ToSet(child.selected)} = {p \in child.from .. Len(runs) : InShard(child.shard, p)}
         /\ \A i, j \in DOMAIN child.selected : i < j => child.selected[i][1] < child.selected[j][1]
  /\ child.kind = "isolated" => child.selected = <<<<child.of, runs[child.of]>>>>
  /\ child.kind = "hand" =>
       LET run   == runs[child.of]
           cases == Expanded(registry[run.test].ops)
       IN  Cardinality({i \in DOMAIN cases : MatchesCase(run.query, registry[run.test], cases[i].params)}) = 1
             => child.selected = <<<<child.of, run>>>>
=============================================================================
