---------------------------- MODULE MemoryModel ----------------------------
(***************************************************************************)
(* The stress harness of the memory model tests: MemoryModelTester and the *)
(* WGSL it is built from (memory_model_setup.h), under the litmus tests of *)
(* weak, coherence, barrier and atomicity.spec.cpp.                        *)
(*                                                                         *)
(* Every invocation of a testing workgroup plays role 0 of one instance of *)
(* the litmus test and role 1 of another one.  A second pass reads what    *)
(* the instances left behind and counts their behaviours, and the host     *)
(* fails the test when the counter of the disallowed one is not zero.      *)
(*                                                                         *)
(* The GPU is external.  A conforming one reorders what WGSL lets it; the  *)
(* others show what the tests are there to find.                           *)
(***************************************************************************)
EXTENDS Integers, Sequences, FiniteSets

CONSTANTS
    Suite,      \* the tests: records [name, memType, testType]
    Gpus,       \* among "conforming", "reordering" and "torn"
    X,          \* test type -> workgroupXSize
    Testing,    \* test type -> testingWorkgroups
    Most,       \* test type -> maxWorkgroups
    PermuteFirst, PermuteSecond,    \* test type -> the factors of permute_id
    ScratchMemorySize, StressLineSize, StressTargetLines,
    Quantum,    \* falseSharingAvoidanceQuantum, in words (1024 in the source)
    SpinLimit,  \* turns of the bounded spin loop (1024 in the source)
    Iterations  \* argument of run()

Types == {"inter", "intra"}

ASSUME MemoryModelAssumption ==
    /\ Gpus \subseteq {"conforming", "reordering", "torn"}
    /\ {X, Testing, Most, PermuteFirst, PermuteSecond} \subseteq [Types -> Nat \ {0}]
    /\ \A t \in Types : Testing[t] <= Most[t]
    /\ Testing["inter"] > 1
    /\ {ScratchMemorySize, StressLineSize, StressTargetLines, Quantum} \subseteq Nat \ {0}
    /\ {SpinLimit, Iterations} \subseteq Nat \ {0}
    /\ StressTargetLines <= ScratchMemorySize \div StressLineSize

------------------------------------------------------------------------------
\* The litmus tests.  role, operation, location, value stored, register loaded.
Store(r, l, v) == [role |-> r, op |-> "store", at |-> l, val |-> v, reg |-> "none"]
Load(r, l, d)  == [role |-> r, op |-> "load", at |-> l, val |-> 0, reg |-> d]
Add0(r, l, d)  == [role |-> r, op |-> "add0", at |-> l, val |-> 0, reg |-> d]
Barrier        == [role |-> 2, op |-> "barrier", at |-> "none", val |-> 0, reg |-> "none"]

(* What a test executes, what its result shader looks at, the behaviours    *)
(* it counts with the position of the disallowed one, the locations that    *)
(* are copied back from memory the result shader cannot read, and whether   *)
(* the two roles are held apart by the barrier alone.                       *)
Litmus(code, sees, counted, weak, back, parted) ==
    [code |-> code, sees |-> sees, counted |-> counted, weak |-> weak, back |-> back, parted |-> parted]

MessagePassing == Litmus(
    <<Store(0, "x", 1), Barrier, Store(0, "y", 1), Load(1, "y", "r0"), Barrier, Load(1, "x", "r1")>>,
    <<"r0", "r1">>, << <<0, 0>>, <<1, 1>>, <<0, 1>>, <<1, 0>> >>, 4, {}, FALSE)
StoreTest == Litmus(
    <<Store(0, "x", 2), Barrier, Store(0, "y", 1), Load(1, "y", "r0"), Barrier, Store(1, "x", 1)>>,
    <<"r0", "mx">>, << <<1, 1>>, <<0, 2>>, <<0, 1>>, <<1, 2>> >>, 4, {<<1, "x">>}, FALSE)
LoadBuffer == Litmus(
    <<Load(0, "y", "r0"), Barrier, Store(0, "x", 1), Load(1, "x", "r1"), Barrier, Store(1, "y", 1)>>,
    <<"r0", "r1">>, << <<1, 0>>, <<0, 1>>, <<0, 0>>, <<1, 1>> >>, 4, {}, FALSE)
ReadTest == Litmus(
    <<Store(0, "x", 1), Barrier, Store(0, "y", 1), Store(1, "y", 2), Barrier, Load(1, "x", "r0")>>,
    <<"r0", "my">>, << <<1, 2>>, <<0, 1>>, <<1, 1>>, <<0, 2>> >>, 4, {<<1, "y">>}, FALSE)
StoreBuffer == Litmus(
    <<Store(0, "x", 1), Barrier, Add0(0, "y", "r0"), Store(1, "y", 1), Barrier, Load(1, "x", "r1")>>,
    <<"r0", "r1">>, << <<1, 0>>, <<0, 1>>, <<1, 1>>, <<0, 0>> >>, 4, {}, FALSE)
TwoPlusTwoWrite == Litmus(
    <<Store(0, "x", 2), Barrier, Store(0, "y", 1), Store(1, "y", 2), Barrier, Store(1, "x", 1)>>,
    <<"mx", "my">>, << <<1, 2>>, <<2, 1>>, <<1, 1>>, <<2, 2>> >>, 4, {<<1, "x">>, <<1, "y">>}, FALSE)
CoRR == Litmus(
    <<Store(0, "x", 1), Load(1, "x", "r0"), Load(1, "y", "r1")>>,
    <<"r0", "r1">>, << <<0, 0>>, <<1, 1>>, <<0, 1>>, <<1, 0>> >>, 4, {}, FALSE)
CoWW == Litmus(
    <<Store(0, "x", 1), Store(0, "y", 2)>>, <<"mx">>, << <<2>>, <<1>> >>, 2, {<<0, "x">>}, FALSE)
CoWR == Litmus(
    <<Store(0, "x", 1), Load(0, "y", "r0"), Store(1, "x", 2)>>,
    <<"r0", "mx">>, << <<1, 2>>, <<1, 1>>, <<2, 2>>, <<2, 1>> >>, 4, {<<1, "x">>}, FALSE)
CoRW1 == Litmus(
    <<Load(0, "x", "r0"), Store(0, "y", 1)>>, <<"r0">>, << <<0>>, <<1>> >>, 2, {}, FALSE)
CoRW2 == Litmus(
    <<Load(0, "x", "r0"), Store(0, "y", 1), Store(1, "x", 2)>>,
    <<"r0", "mx">>, << <<0, 2>>, <<2, 1>>, <<0, 1>>, <<2, 2>> >>, 4, {<<1, "x">>}, FALSE)
Atomicity == Litmus(
    <<Add0(0, "x", "r0"), Store(1, "x", 2)>>,
    <<"r0", "mx">>, << <<0, 2>>, <<2, 1>>, <<>>, <<0, 1>> >>, 4, {<<1, "x">>}, FALSE)
BarrierLoadStore == Litmus(
    <<Load(0, "x", "r0"), Barrier, Store(1, "x", 1)>>, <<"r0">>, << <<0>>, <<1>> >>, 2, {}, TRUE)
BarrierStoreLoad == Litmus(
    <<Store(0, "x", 1), Barrier, Load(1, "x", "r0")>>, <<"r0">>, << <<1>>, <<0>> >>, 2, {}, TRUE)
BarrierStoreStore == Litmus(
    <<Store(0, "x", 1), Barrier, Store(1, "x", 2)>>, <<"mx">>, << <<2>>, <<1>> >>, 2, {<<1, "x">>}, TRUE)

Litmuses == [
    message_passing |-> MessagePassing, store |-> StoreTest, load_buffer |-> LoadBuffer, read |-> ReadTest,
    store_buffer |-> StoreBuffer, two_plus_two |-> TwoPlusTwoWrite,
    corr |-> CoRR, coww |-> CoWW, cowr |-> CoWR, corw1 |-> CoRW1, corw2 |-> CoRW2,
    atomicity |-> Atomicity, rw |-> BarrierLoadStore, wr |-> BarrierStoreLoad, ww |-> BarrierStoreStore]

------------------------------------------------------------------------------
\* The presets.  A percentage is the set of the choices it leaves.
Percent(p) == IF p = 0 THEN {FALSE} ELSE IF p = 100 THEN {TRUE} ELSE BOOLEAN

kAtomicityTestParams == [shuffle |-> Percent(100), barrier |-> Percent(100), memStress |-> Percent(100),
    preStress |-> Percent(100), roundRobin |-> Percent(50), permuted |-> TRUE, memStride |-> 4, aliased |-> FALSE]
kBarrierTestParams == kAtomicityTestParams
kCoherenceTestParams == [shuffle |-> Percent(0), barrier |-> Percent(0), memStress |-> Percent(0),
    preStress |-> Percent(0), roundRobin |-> Percent(50), permuted |-> FALSE, memStride |-> 1, aliased |-> TRUE]
kWeakTestParams == [shuffle |-> Percent(0), barrier |-> Percent(0), memStress |-> Percent(0),
    preStress |-> Percent(100), roundRobin |-> Percent(0), permuted |-> TRUE, memStride |-> 2, aliased |-> FALSE]

Presets == [n \in DOMAIN Litmuses |->
    IF n = "atomicity" THEN kAtomicityTestParams
    ELSE IF n \in {"rw", "wr", "ww"} THEN kBarrierTestParams
    ELSE IF n \in {"corr", "coww", "cowr", "corw1", "corw2"} THEN kCoherenceTestParams
    ELSE kWeakTestParams]

------------------------------------------------------------------------------
(* The tests there are: workgroup memory, a texture that is read back and a *)
(* barrier between the roles are for invocations of one workgroup.          *)
ASSUME SuiteAssumption ==
    /\ Suite \subseteq [name : DOMAIN Litmuses, testType : Types,
                        memType : {"atomic_storage", "non_atomic_storage", "atomic_workgroup",
                                   "non_atomic_workgroup", "non_atomic_texture"}]
    /\ \A t \in Suite : t.memType \notin {"atomic_storage", "non_atomic_storage"} \/ Litmuses[t.name].parted
                         => t.testType = "intra"

\* kMemoryLocationFunctions
permute_id(id, factor, mask) == (id * factor) % mask

(* The factors are prime to what they are taken modulo (109 and 419, to a   *)
(* power of two times the workgroups), so that permute_id permutes.         *)
ASSUME PermuteAssumption ==
    \A t \in Types :
      LET Permutes(factor, n) == {permute_id(id, factor, n) : id \in 0 .. n - 1} = 0 .. n - 1
      IN /\ Permutes(PermuteFirst[t], X[t])
         /\ Permutes(PermuteSecond[t], IF t = "inter" THEN X[t] * Testing[t] ELSE X[t])

------------------------------------------------------------------------------
VARIABLES
    test, gpu,     \* the test, and the GPU it runs on
    iteration, pc, \* "host", "test", "result", "check", "done"
    verdict,       \* "running", "pass", "fail"
    num,           \* workgroups dispatched in this iteration
    shuffled,      \* shuffledWorkgroupsHost_
    scratch,       \* scratchLocationsHost_
    stress,        \* the choices of setStressParams
    dispatched,    \* positions in the dispatch that have started
    stage,         \* invocation -> "idle", "enter", "spin", "run", "end"
    spins,         \* invocation -> turns of its spin loop
    barrier,       \* combo.barrier
    performed,     \* invocation -> accesses it has performed
    memory,        \* address space -> word -> value
    results,       \* readResults
    counts,        \* testResults
    loaded,        \* workgroup -> the stress address it took from combo, or -1
    strange        \* history: did an instance behave as no interleaving can?

hostVars == <<iteration, num, shuffled, scratch, stress>>
gpuVars  == <<dispatched, stage, spins, barrier, performed, memory, results, counts, loaded>>
vars == <<test, gpu, pc, verdict, strange, hostVars, gpuVars>>

L == Litmuses[test.name]
Params == Presets[test.name]
T == test.testType
Workgroups == 0 .. Testing[T] - 1
Invocations == Workgroups \X (0 .. X[T] - 1)
Instances == 0 .. X[T] * Testing[T] - 1
InWorkgroupMemory == test.memType \in {"atomic_workgroup", "non_atomic_workgroup"}

stripe_workgroup(w, l) == (w + 1 + (l % (Testing["inter"] - 1))) % Testing["inter"]

(* The two ids of an invocation, among all invocations (inter) or among     *)
(* those of its workgroup (intra).                                          *)
Id(i, role) ==
    LET first == IF T = "inter" THEN i[1] ELSE 0
        second == IF T = "inter" THEN stripe_workgroup(i[1], i[2]) ELSE 0
    IN IF role = 0 THEN first * X[T] + i[2]
       ELSE second * X[T] + permute_id(i[2], PermuteFirst[T], X[T])

TotalIds == IF T = "inter" THEN X[T] * Testing[T] ELSE X[T]
SecondFactor == IF Params.permuted THEN PermuteSecond[T] ELSE 1
Shift == IF Params.aliased THEN 0 ELSE Params.memStride
XWordOverlaps(base, id) == (base + id) * Params.memStride
XWord(base, id) == (base + id) * Params.memStride * 2
YWord(base, id) == (base + permute_id(id, SecondFactor, TotalIds)) * Params.memStride * 2 + Shift

\* Where the invocations of workgroup w find what ids of their own begin with.
Base(w) == IF T = "inter" THEN 0 ELSE w * X[T]

Space(w) == IF InWorkgroupMemory THEN w
            ELSE IF test.memType = "non_atomic_texture" THEN -2 ELSE -1
Spaces == Workgroups \cup {-1, -2}
Words == 0 .. X[T] * Testing[T] * 2 * Params.memStride - 1

Word(i, role, at) ==
    LET base == IF InWorkgroupMemory THEN 0 ELSE Base(i[1])
    IN IF at = "x" THEN XWord(base, Id(i, role)) ELSE YWord(base, Id(i, role))

\* The instance an invocation works on in a role: the index it gives results.
Instance(i, role) == Base(i[1]) + Id(i, role)

------------------------------------------------------------------------------
\* The host.
getRandomInt(max) == 0 .. max - 1
getRandomInRange(min, max) == IF min = max THEN {min} ELSE {min + k : k \in getRandomInt(max - min)}

\* All the arrays the Fisher-Yates shuffle of 0 .. n-1 can end with.
Shuffles(n) ==
    LET From[i \in 0 .. n - 1] ==
          IF i = n - 1 THEN {[k \in 0 .. n - 1 |-> k]}
          ELSE {[a EXCEPT ![i + 1] = a[x], ![x] = a[i + 1]] : a \in From[i + 1], x \in getRandomInt(i + 2)}
    IN From[0]

\* The array persists: what an iteration does not overwrite is still there.
ShuffledWorkgroups(n) ==
    LET Over(a) == [k \in DOMAIN shuffled |-> IF k < n THEN a[k] ELSE shuffled[k]]
    IN {Over(a) : a \in UNION {IF s THEN Shuffles(n) ELSE {[k \in 0 .. n - 1 |-> k]} : s \in Params.shuffle}}

\* The workgroups that get the i-th line of n workgroups' worth of scratch memory.
RoundRobin(i, n) == {j \in i .. n - 1 : (j - i) % StressTargetLines = 0}
Chunk(i, n) ==
    (IF (i * n) % StressTargetLines = 0
     THEN {(i * n) \div StressTargetLines + j : j \in {k \in 0 .. n : k * StressTargetLines < n}} ELSE {})
    \cup (IF i = StressTargetLines - 1 THEN {n - j - 1 : j \in 0 .. (n % StressTargetLines) - 1} ELSE {})

ScratchLocations(n) ==
    LET Lines == 0 .. StressTargetLines - 1
        Places == {<<region, k, rr>> : region \in 0 .. (ScratchMemorySize \div StressLineSize) - 1,
                                       k \in getRandomInt(StressLineSize), rr \in Params.roundRobin}
        After(pick) ==
          LET F[i \in 0 .. StressTargetLines] ==
                IF i = 0 THEN scratch
                ELSE LET p == pick[i - 1]
                         mine == IF p[3] THEN RoundRobin(i - 1, n) ELSE Chunk(i - 1, n)
                     IN [w \in DOMAIN scratch |->
                           IF w \in mine THEN p[1] * StressLineSize + p[2] ELSE F[i - 1][w]]
          IN F[StressTargetLines]
    IN {After(pick) : pick \in {f \in [Lines -> Places] :
                                  \A i, j \in Lines : i # j => f[i][1] # f[j][1]}}

StressParams == [doBarrier : Params.barrier, memStress : Params.memStress, preStress : Params.preStress]

\* The three parts of the combo buffer as the host lays them out, in words.
AlignUp(n, a) == ((n + a - 1) \div a) * a
ScratchpadOffset == AlignUp(1, Quantum)
LocationsOffset == ScratchpadOffset + AlignUp(ScratchMemorySize, Quantum)

\* ... and as struct CombinedData declares them in the shader.
ShaderLocations == 1 + Most[T]

\* The source buffers of the barrier and the scratchpad are never written.
ComboWord(k) == IF k - LocationsOffset \in DOMAIN scratch THEN scratch[k - LocationsOffset] ELSE 0

------------------------------------------------------------------------------
Zero == [s \in Spaces |-> [k \in Words |-> 0]]
NoCounts == [b \in DOMAIN L.counted |-> 0]

Init ==
    /\ test \in Suite /\ gpu \in Gpus
    /\ iteration = 0 /\ pc = "host" /\ verdict = "running" /\ strange = FALSE
    /\ num = 0
    /\ shuffled = [k \in 0 .. Most[T] - 1 |-> 0]
    /\ scratch = [w \in 0 .. Most[T] - 1 |-> 0]
    /\ stress = [doBarrier |-> FALSE, memStress |-> FALSE, preStress |-> FALSE]
    /\ dispatched = {} /\ barrier = 0
    /\ stage = [i \in Invocations |-> "idle"]
    /\ spins = [i \in Invocations |-> 0]
    /\ performed = [i \in Invocations |-> {}]
    /\ memory = Zero
    /\ results = [k \in Instances |-> [r0 |-> 0, r1 |-> 0]]
    /\ counts = NoCounts
    /\ loaded = [w \in 0 .. Most[T] - 1 |-> -1]

ResetKeepsCounts ==
    /\ memory' = Zero /\ results' = [k \in Instances |-> [r0 |-> 0, r1 |-> 0]]
    /\ counts' = counts /\ barrier' = 0

\* The copies at the head of run()'s loop: every buffer and texture as new.
ResetDevice ==
    /\ memory' = Zero
    /\ results' = [k \in Instances |-> [r0 |-> 0, r1 |-> 0]]
    /\ counts' = NoCounts
    /\ barrier' = 0

SetUp ==
    /\ pc = "host" /\ iteration < Iterations
    /\ \E n \in getRandomInRange(Testing[T], Most[T]) :
         /\ num' = n
         /\ shuffled' \in ShuffledWorkgroups(n)
         /\ scratch' \in ScratchLocations(n)
    /\ stress' \in StressParams
    /\ ResetDevice
    /\ pc' = "test" /\ iteration' = iteration + 1
    /\ dispatched' = {}
    /\ stage' = [i \in Invocations |-> "idle"]
    /\ spins' = [i \in Invocations |-> 0]
    /\ performed' = [i \in Invocations |-> {}]
    /\ loaded' = [w \in DOMAIN loaded |-> -1]
    /\ UNCHANGED <<test, gpu, verdict, strange>>

\* do_stress: only the address matters, what it writes stays in the scratchpad.
StressAddress(w) == ComboWord(ShaderLocations + w)

(* The GPU starts the p-th workgroup: it tests, or stresses, or does        *)
(* nothing, as its shuffled id says.                                        *)
Dispatch(p) ==
    /\ pc = "test" /\ p \in (0 .. num - 1) \ dispatched
    /\ LET w == shuffled[p]
           tests == w < Testing[T]
       IN /\ stage' = [i \in Invocations |->
                         IF i[1] # w THEN stage[i] ELSE IF stress.doBarrier THEN "enter" ELSE "run"]
          /\ loaded' = IF (tests /\ stress.preStress) \/ (~tests /\ stress.memStress)
                       THEN [loaded EXCEPT ![w] = StressAddress(w)] ELSE loaded
    /\ dispatched' = dispatched \cup {p}
    /\ UNCHANGED <<test, gpu, pc, verdict, strange, hostVars, spins, barrier, performed, memory, results, counts>>

Limit == IF T = "inter" THEN X[T] * Testing[T] ELSE X[T]

UnboundedSpin(i) ==
    /\ pc = "test" /\ stage[i] = "spin"
    /\ spins' = [spins EXCEPT ![i] = 1 - @]
    /\ stage' = [stage EXCEPT ![i] = IF barrier >= Limit THEN "run" ELSE "spin"]
    /\ UNCHANGED <<test, gpu, pc, verdict, strange, hostVars, dispatched, barrier, performed, memory, results, counts,
                   loaded>>

\* spin(): the first atomicAdd returns what was there before.
EnterBarrier(i) ==
    /\ pc = "test" /\ stage[i] = "enter"
    /\ barrier' = barrier + 1
    /\ stage' = [stage EXCEPT ![i] = IF barrier >= Limit THEN "run" ELSE "spin"]
    /\ UNCHANGED <<test, gpu, pc, verdict, strange, hostVars, dispatched, spins, performed, memory, results, counts,
                   loaded>>

Spin(i) ==
    /\ pc = "test" /\ stage[i] = "spin"
    /\ spins' = [spins EXCEPT ![i] = @ + 1]
    /\ stage' = [stage EXCEPT ![i] = IF spins'[i] = SpinLimit \/ barrier >= Limit THEN "run" ELSE "spin"]
    /\ UNCHANGED <<test, gpu, pc, verdict, strange, hostVars, dispatched, barrier, performed, memory, results, counts,
                   loaded>>

(* The instructions as this GPU performs them: one that tears an atomic     *)
(* reads and writes back in two steps.                                      *)
Torn(code) ==
    LET adds == {k \in DOMAIN code : code[k].op = "add0"}
        add  == CHOOSE k \in adds : TRUE
        half(k) == IF k = add THEN [code[add] EXCEPT !.op = "load"]
                   ELSE IF k = add + 1 THEN [code[add] EXCEPT !.op = "putback"]
                   ELSE IF k < add THEN code[k] ELSE code[k - 1]
    IN IF adds = {} THEN code ELSE [k \in 1 .. Len(code) + 1 |-> half(k)]

Programs == [n \in DOMAIN Litmuses |-> Torn(Litmuses[n].code)]
Program == IF gpu = "torn" THEN Programs[test.name] ELSE L.code
Accesses == {k \in DOMAIN Program : Program[k].op # "barrier"}
BarrierBetween(j, k) == \E b \in j .. k : Program[b].op = "barrier"
Place(i, k) == Word(i, Program[k].role, Program[k].at)

(* What WGSL asks for: accesses of an invocation to one word keep their     *)
(* order, and a control barrier is passed by the whole workgroup at once    *)
(* and orders everything.                                                   *)
MayPerform(i, k) ==
    \/ gpu = "reordering"
    \/ \A j \in Accesses : j < k =>
         /\ Place(i, j) = Place(i, k) => j \in performed[i]
         /\ BarrierBetween(j, k) => \A l \in 0 .. X[T] - 1 : j \in performed[<<i[1], l>>]

Perform(i, k) ==
    /\ pc = "test" /\ stage[i] = "run" /\ k \in Accesses \ performed[i] /\ MayPerform(i, k)
    /\ performed' = [performed EXCEPT ![i] = @ \cup {k}]
    /\ LET c == Program[k]
           s == Space(i[1])
           me == Instance(i, c.role)
       IN /\ results' = IF c.op \in {"load", "add0"}
                        THEN [results EXCEPT ![me][c.reg] = memory[s][Place(i, k)]] ELSE results
          /\ memory' = CASE c.op = "store"   -> [memory EXCEPT ![s][Place(i, k)] = c.val]
                         [] c.op = "putback" -> [memory EXCEPT ![s][Place(i, k)] = results[me][c.reg]]
                         [] OTHER            -> memory
    /\ UNCHANGED <<test, gpu, pc, verdict, strange, hostVars, dispatched, stage, spins, barrier, counts, loaded>>

(* The end of an invocation: what the result shader has to see of workgroup *)
(* or texture memory is copied, after a last barrier.                       *)
CopiesBack == L.back # {} /\ Space(0) # -1
CopyTo(i, b) == Word(i, b[1], b[2]) + (IF InWorkgroupMemory THEN i[1] * X[T] * Params.memStride * 2 ELSE 0)

End(i) ==
    /\ pc = "test" /\ stage[i] = "run" /\ performed[i] = Accesses
    /\ CopiesBack => \A l \in 0 .. X[T] - 1 : performed[<<i[1], l>>] = Accesses
    /\ memory' = IF CopiesBack
                 THEN [memory EXCEPT ![-1] = [k \in Words |->
                        IF \E b \in L.back : k = CopyTo(i, b)
                        THEN LET b == CHOOSE b \in L.back : k = CopyTo(i, b)
                             IN memory[Space(i[1])][Word(i, b[1], b[2])]
                        ELSE @[k]]]
                 ELSE memory
    /\ stage' = [stage EXCEPT ![i] = "end"]
    /\ UNCHANGED <<test, gpu, pc, verdict, strange, hostVars, dispatched, spins, barrier, performed, results, counts,
                   loaded>>

TestPassOver == /\ dispatched = 0 .. num - 1
                /\ \A i \in Invocations : (\E p \in dispatched : shuffled[p] = i[1]) => stage[i] = "end"

(* What the result shader sees of the instance its invocation stands for.   *)
ResultBase(k) == IF T = "inter" THEN 0 ELSE (k \div X[T]) * X[T]
Observed(k) ==
    LET own == k - ResultBase(k)
        value(f) == CASE f = "r0" -> results[k].r0 [] f = "r1" -> results[k].r1
                      [] f = "mx" -> memory[-1][XWord(0, k)]
                      [] f = "my" -> memory[-1][YWord(ResultBase(k), own)]
    IN [f \in DOMAIN L.sees |-> value(L.sees[f])]

------------------------------------------------------------------------------
(* The reference: what an instance can do when its two roles are            *)
(* interleaved one access at a time, or parted by the barrier.              *)
Ops(n) == {c \in DOMAIN Litmuses[n].code : Litmuses[n].code[c].op # "barrier"}

\* May access c come next, when those in done have been performed?
Comes(n, c, done) ==
    LET code == Litmuses[n].code
    IN \A d \in Ops(n) : d < c =>
         /\ code[d].role = code[c].role => d \in done
         /\ Litmuses[n].parted /\ (\E b \in d .. c : code[b].op = "barrier") => d \in done

Where(n, at) == IF Presets[n].aliased THEN "x" ELSE at

After(n, s, c) == IF c.op = "store" THEN [s EXCEPT ![Where(n, c.at)] = c.val]
                  ELSE [s EXCEPT ![c.reg] = s[Where(n, c.at)]]

\* The accesses performed so far and what they left, one access later.
Extensions(n, p) == {<<p[1] \cup {c}, After(n, p[2], Litmuses[n].code[c])>> :
                       c \in {c \in Ops(n) \ p[1] : Comes(n, c, p[1])}}

Partial(n) ==
    LET Step[m \in 0 .. Len(Litmuses[n].code)] ==
          IF m = 0 THEN {<<{}, [x |-> 0, y |-> 0, r0 |-> 0, r1 |-> 0]>>}
          ELSE UNION {Extensions(n, p) : p \in Step[m - 1]}
    IN UNION {Step[m] : m \in 0 .. Len(Litmuses[n].code)}

Seen(n, s) ==
    LET value(f) == CASE f = "mx" -> s.x [] f = "my" -> s[Where(n, "y")] [] OTHER -> s[f]
    IN [f \in DOMAIN Litmuses[n].sees |-> value(Litmuses[n].sees[f])]

Interleavings == [n \in DOMAIN Litmuses |-> {Seen(n, p[2]) : p \in {p \in Partial(n) : p[1] = Ops(n)}}]

------------------------------------------------------------------------------
(* The result pass counts every instance.  Its invocations only read what   *)
(* the first pass left and add to counters, so they are one step.           *)
ResultPass ==
    /\ pc = "test" /\ TestPassOver
    /\ counts' = [b \in DOMAIN counts |-> counts[b] + Cardinality({k \in Instances : Observed(k) = L.counted[b]})]
    /\ strange' = (strange \/ \E k \in Instances : Observed(k) \notin Interleavings[test.name])
    /\ pc' = "check"
    /\ UNCHANGED <<test, gpu, verdict, hostVars, dispatched, stage, spins, barrier, performed, memory, results, loaded>>

CheckIndexIsOff ==
    /\ pc = "check"
    /\ verdict' = IF counts[L.weak - 1] > 0 THEN "fail" ELSE IF iteration = Iterations THEN "pass" ELSE verdict
    /\ pc' = IF verdict' = "running" THEN "host" ELSE "done"
    /\ UNCHANGED <<test, gpu, strange, hostVars, gpuVars>>

(* checkWeakIndex: a failed expectation throws, which ends the loop.        *)
Check ==
    /\ pc = "check"
    /\ verdict' = IF counts[L.weak] > 0 THEN "fail" ELSE IF iteration = Iterations THEN "pass" ELSE verdict
    /\ pc' = IF verdict' = "running" THEN "host" ELSE "done"
    /\ UNCHANGED <<test, gpu, strange, hostVars, gpuVars>>

Done == pc = "done" /\ UNCHANGED vars

Next ==
    \/ SetUp \/ ResultPass \/ Check \/ Done
    \/ \E p \in 0 .. num - 1 : Dispatch(p)
    \/ \E i \in Invocations : EnterBarrier(i) \/ Spin(i) \/ End(i)
    \/ \E i \in Invocations, k \in Accesses : Perform(i, k)

(* A GPU goes on as long as there is something to do; nothing promises that *)
(* two workgroups run side by side, or in which order.                      *)
Fairness == WF_vars(Next)

Spec == Init /\ [][Next]_vars /\ Fairness

------------------------------------------------------------------------------
(* A GPU that only does what WGSL allows never makes a test fail, whatever  *)
(* the shuffle, the pairing of the invocations, the stride and what is left *)
(* over from an earlier iteration.                                          *)
NoFalseAlarm == gpu = "conforming" => verdict # "fail" /\ ~strange

(* Whatever the GPU, a test fails only for a behaviour that no interleaving *)
(* of the two roles shows, and passes only without one.  cowr, corw2 and    *)
(* atomicity may pass: they look at one of several wrong outcomes.          *)
VerdictsAreExact ==
    /\ verdict = "fail" => strange
    /\ verdict = "pass" /\ strange => test.name \in {"cowr", "corw2", "atomicity"}

(* The counters account for every instance: none is unclassified or counted *)
(* twice, and no count of an earlier iteration is carried over.             *)
EveryInstanceIsCounted ==
    LET Total[b \in 0 .. Len(L.counted)] == IF b = 0 THEN 0 ELSE Total[b - 1] + counts[b]
    IN pc = "check" /\ gpu = "conforming" /\ test.name # "atomicity" =>
         Total[Len(L.counted)] = Cardinality(Instances)

(* "The memory locations in the scratch region that stressing threads       *)
(* access" (MemoryModelBuffers): a workgroup stresses the line the host     *)
(* chose for it.                                                            *)
StressGoesWhereChosen ==
    pc = "test" => \A w \in DOMAIN loaded : loaded[w] # -1 => loaded[w] = scratch[w]

(* Every run of a test ends, even when the GPU runs one workgroup at a time *)
(* and the invocations at the spin barrier wait for others that have not    *)
(* started.                                                                 *)
TestEnds == <>(pc = "done")
==============================================================================
