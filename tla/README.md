# A TLA+ model of the webgpu-native-cts harness

webgpu-native-cts is a C++20 port of the WebGPU conformance test suite. Most of its source is ported tests
(`*.spec.cpp`). What runs them is a small harness: a registry of tests and parameters, a runner that executes
cases in one process, in shard workers or in one child process per case, a process-global WebGPU device that
tests share, and a result pipeline that ends in a summary and an exit status. What judges the tested backend
are the oracles of the tests: litmus tests of the memory model, intervals of floating-point results, and a
software sampler with the cases, layouts and stores around it.

A conformance suite is believed twice: its exit status, and each single verdict. So two questions are asked here.
What does the harness promise when the backend misbehaves: when processes abort, hang or write half a line, when
devices are lost and callbacks arrive late? And is a test right to fail: does it pass every implementation that
the specifications allow, and notice what it is there to notice?

Every definition is translated from the code; `PROJECT.json` (`map`) names the lines each one stands for.

## 1. Inventory

| Component | Source | State | Operations | Interacts with |
|---|---|---|---|---|
| Plain parallel runner | `src/src/common/runner.cpp` 1425-2001 | `WorkerState` per shard (pipe, partial line, `positions`, `next`), `resultsByCase` | spawn, read, record a line, finish and respawn, merge | shard workers through a pipe and the exit status; case plan files |
| Shard worker | `runner.cpp` 1441-1474 | position in the plan, stdio buffer | run a case, emit its rows, flush | parent's pipe; device cache |
| Isolation pool | `runner.cpp` 619-1402 | children vector, output buffers, two result tables, queue | start, reap, time out, poll, read, move over, merge | one child per case, clock |
| Selective isolation | `runner.cpp` 1404-1423 | none of its own | isolate listed cases, run the others in-process | isolation pool, in-process runner |
| In-process runner | `runner.cpp` 350-548 | current fixture, previous file | run a subcase, aggregate a case | fixture, device cache |
| Device cache | `src/src/common/harness.cpp` | instance, adapter, two devices, lost flag, device-scoped objects | acquire, create, lose, recycle, release | backend callbacks, fixtures |
| Synchronous waits | `src/src/common/webgpu/sync.cpp` | state of one request on the stack | pump events until done or five seconds | backend callbacks |
| GPU test fixture | `harness.cpp`, `src/include/cts/gpu.h` | objects of one test, error scopes, warnings | init, expect*, finalize | device cache, waits |
| Parameters | `src/src/common/params.cpp` | builder operations | expand cases and subcases | runner |
| Queries | `src/src/common/query.cpp` | none | parse, match, format | runner |
| Case plans | `src/src/common/case_plan.cpp` | file format | serialize, load | both process modes |
| Format sampling | `src/src/common/format_sample.cpp` | groups of cases | thin a format sweep | runner |
| Case selection | `runner.cpp` 308-465, 522-548 | the vector of `CaseRun` | enumerate the registry, select by query, plan, shard | all of the four above, every child process |
| Results | `runner.cpp` 52-345, 2003-2240, 2299-2416 | expectation set, baseline, crash list, JSONL results | classify, count, diff, exit status | runner, files that later runs read |
| Registry | `src/include/cts/test.h`, `harness.cpp` | list of files and tests | addFile, add a test | static initialisers of the tests |
| Command line | `src/src/common/runtime/main.cpp` | options | parse | runner |
| Memory model tester | `shader/execution/memory_model/memory_model_setup.h`, the four `*.spec.cpp` beside it | buffers and workgroup memory that outlive an iteration, a random number generator | choose stress and shuffle, reset, dispatch the test, count behaviours, check | GPU, through two shaders built from text |
| Floating-point oracle | `shader/execution/expression/floating_point.cpp` | none | round, flush, build intervals, generate cases and input ranges | expression tests, which compare a device's results with the intervals |
| Texture oracles | `shader/execution/expression/call/builtin/texture_sampling/texture_utils.cpp` | per device: caches of pipelines and of mip weights | make a case and its calls, fill a texture, sample in software, compare | GPU fixture, texture helpers, format table |
| Texture helpers | `src/src/webgpu/util/*` | none | layouts, texel encodings | tests |
| Format and limit tables, expression runner, other ported tests | `src/src/webgpu/{api,shader}`, `texture_format.h` | none | | |

(Paths of the oracles are below `src/src/webgpu/`.)

Behaviours that are hard to test, all of them listed with their lines under `hazards`:

- a worker or child can die at every instruction, also between two writes of one flush; what the parent sees
  is a pipe that ends and an exit status, and it has to decide whom to blame and where to resume;
- foreign output on the same stdout;
- the end of a pipe and the end of a process are two events; a timeout races both;
- one process-global device is shared by thousands of tests, can be lost by any of them, and is healed at
  the next test;
- callbacks of a request outlive the wait for it;
- runs are joined by files: a result file becomes the next run's baseline, an isolated run's crash list decides
  what a later run isolates, and either may come from another mode, another build or a run that was cut short;
- a buffer, a counter or a pipeline of an earlier test or iteration is used again: what it was made for must
  agree with what it is used for;
- host and shader agree on a layout only because two texts, written apart, say the same;
- the tested device may round, flush, reorder, pick a level or store a tie in several ways: a test that expects one of
  them blames a conforming implementation, one that expects too little notices nothing, and neither shows until a
  device comes along that differs;
- three ways lead a child process to its case (a plan of a shard, a plan of one case, the text of a query), and
  sampling lies between the registry and the queries.

What makes each component correct: section 3 for the modelled ones, section 6 for the others.

## 2. Plan

Done, in this order:

1. `CaseLedger` (what a run promises), `WorkerPool` (plain `--workers`), `WorkerPool_proofs`, and on top of it
   `WorkerPool_blame`.
2. `IsolatedPool` (`--isolate --workers`), `IsolatedPool_proofs`.
3. `DeviceCache`: the shared devices and their objects under the runner's sequence of tests, device loss and
   healing, uncaptured errors and error scopes; `DeviceCache_proofs`.
4. `TriageLoop`: selective isolation, the aggregation of subcases, expectations, baseline, crash list and the exit
   status, over any number of runs joined by the files they leave; `TriageLoop_proofs`.
5. `CaseSelection`: expansion of parameters, sampling, queries, the enumeration of the registry, case plans, and what
   each kind of child selects; `CaseSelection_proofs`, `CaseExpansion_proofs`.
6. `MemoryModel`: the litmus tests and the stress harness around them, on GPUs that conform and that do not;
   `MemoryModel_proofs`.
7. `FPFormat`, `FPIntervals`, `FPBuiltins`, `FPDevice`, `FPRanges`, `FPCases`: the floating-point oracle against a device.
8. `TexFormats`, `TexCases`, `TexSampling`, `TexDevice`, `TexCaches`, `TexPipelines`, `TexOracles`: the tests that sample and gather.
9. `TexLayout`, `TexViews`, `TexQueries`, `TexLoads`, `TexStores`, `TexBundles`, `TexAccess`: the tests that query, load
   and store.

Left:

10. `SyncWait`: the state machine of `src/src/common/webgpu/sync.cpp` and a callback that comes after the five seconds, with
    `DeviceCache` refining it at its request steps.

## 3. Modules

| Module | Composes | Abstract specification |
|---|---|---|
| `CaseLedger` | | itself |
| `WorkerPool` (`MCWorkerPool` gives row counts) | parent, shard workers, pipes | `CaseLedger` |
| `IsolatedPool` | parent, children, pipes, clock | `CaseLedger` |
| `DeviceCache` | cache, runner, fixtures, WebGPU implementation | |
| `TriageLoop` (`MCTriageLoop` gives builds and command lines) | runs of the harness, result file, crash list | |
| `CaseSelection` (`MCCaseSelection` gives registries and queries) | parameters, sampling, queries, plans, children | |
| `MemoryModel` (`MCMemoryModel` gives tests and sizes) | host, two shaders, GPU, litmus tests | the interleavings of the two roles |
| `FPCases` (`MCFPCases` gives formats and jobs) | `FPFormat`, `FPIntervals`, `FPBuiltins`, `FPRanges`, and `FPDevice` | `FPDevice` |
| `TexOracles` (`MCTexOracles` gives formats and parameters, `MCTextures` joins it with `TexAccess`) | `TexFormats`, `TexCases`, `TexSampling`, `TexPipelines`, `TexCaches`, and `TexDevice` | `TexDevice` |
| `TexAccess` (`MCTexAccess` likewise) | `TexLayout`, `TexQueries`, `TexLoads`, `TexStores`, `TexBundles`, `TexCaches`, and `TexViews` | `TexViews` |
| `*_proofs` | the theorems of the module they are named after | |
| `WorkerPool_blame` | a further theorem of `WorkerPool`, built on the ones of `WorkerPool_proofs` | |

### CaseLedger

The abstract promise of every process mode: each selected case gets one verdict, a verdict is never taken
back, and the process reports success only when every case has a clean one (`Settle`, `Report`); the harness
may fail instead (`Fail`). `WorkerPool` and `IsolatedPool` implement it through a refinement mapping of their
case tables (`Shown`).

### WorkerPool

The parent (`worker`, `next`, `results`, `buffer`, `exit`) and one process per shard (`child`, `at`, `out`),
joined by `pipe`. `next[s]` is `positions[next]` of shard `s`: positions of a shard are `s`, `s + N`, ..., so
`++next` is `+ Workers`, and a shard is done when `next[s] >= NumCases`. A RESULT line is two tokens, because
the parser tells apart a line cut inside its query, which is recorded as a mismatch, and a line cut behind
it, which is accepted; a case's rows are the statuses of its lines. Actions:

| Action | Code |
|---|---|
| `Spawn` | the spawn loop and `spawnWorker` |
| `ReadFragment`, `ReadLine` | `read` and `drainWorkerLines`, `recordWorkerLine`, `advanceCompletedWorkerCases` |
| `FinishWorker` | `finishWorker`: the unterminated rest, the blame, the respawn |
| `Merge` | the merge and the status of `printRunResults` |
| `ParentThrows` | every exception of the parent |
| `RunCase`, `Emit`, `Exit` | `runCase`, `emitShardResults`, the end of the plan |
| `Abort` | the process dies |
| `Noise` | the backend prints to stdout (external) |

`outcome` and `died` are history variables: what running a case gave, and where processes died. Correct means:
the table has only rows the code may write, in order (`LedgerShape`); rows are credited to no other case and no other run than
the one that gave them (`VerdictsAreEarned`, which lets the parent call any case a crash: that is the next one's matter); a
respawned worker resumes at the first open case (`ResumesAtFirstOpenCase`); the case blamed is the case that killed the
process, where no output is foreign or cut within a case (`BlameIsExact`).

### IsolatedPool

One thread (`phase` says where its loop stands), the children vector (`children`, `drained`, `ready`), the two
result tables (`completed`, `results`), and for each case its process (`proc`, `status`, `pipe`). A process'
pipe ends (`closing`) before it can be waited for (`zombie`). Time is `Tick`, which ages all children. The
pump's phases are separate actions: reap the drained (`FinishDrained`), kill the late (`KillLate`), poll
(`PollReturns`), serve the readable ones in vector order (`ReadChild`, `ReadFails`), move the verdicts over
(`Process`). With `Workers = 1` it is the serial `--isolate`. Correct means: a child has one owner and one
slot, nobody is left running, a slot is never idle while cases wait, and a case is classified by what its own
process did (`ClassifiedByOwnChild`; a child killed in time with its answer unread counts as late, see section 4).

### DeviceCache

One thread runs tests one after another; the WebGPU implementation acts between any two of its steps. `instance`,
`adapter`, `device`, `scoped` and `deviceLost` are the fields of `struct DeviceCache` (an adapter is `fresh`, or `spent` by
the request that made a device; queue and device are one). The slot `other` is the mismatched device of a
fixture. `pc` is where the runner stands, `stage` how far a teardown has come.

| Action | Code |
|---|---|
| `RunCase`, `KeptObjects` | the beginning of `runCase`: objects go when the file changes |
| `StartTest`, `SkipUnimplemented` | `runOne` up to `init`, `setCurrentTest`, `recycleDevicesIfNeeded` |
| `DropObjects`, `DropSlot`, `DropInstance`, `ResetFlags` | the parts of `teardownDevices`, in `TeardownOrder`, and of `~DeviceCache` |
| `EnsureAdapter`, `RequestGranted`, `RequestFailed`, `LimitsFailed`, `EnterBody` | `getDevice`, `getAllFeaturesMaxLimitsDevice` and their retries |
| `UseScopedObject`, `UseMismatched` | `deviceScopedObject`, `mismatchedDevice` |
| `RaiseError`, `ThrowInScope`, `EndBody` | the body of a test: errors, `expectValidationError`, the ways out |
| `Finish` | `finalize`, `setCurrentTest(nullptr)` and the status |
| `ReportLoss`, `ReportRefusal`, `DeliverError` | `onDeviceLost`, `onUncapturedError` |
| `LoseDevice`, `Create`, `Unborn` | the implementation (external) |

A loss callback of the implementation's own (`ReportLoss`) and the report of a device that was refused (`ReportRefusal`,
reason FailedCreation) set the same flag: `onDeviceLost` passes over two reasons only. `condemned`, `reported`, `late`, `denied`,
`erred` and `foreign` are history variables, and `last` is the result of the last test with how it left its body and what was
recorded on it. Correct means: a test never sees an object or a device that is another's or was reported lost, nothing
outlives what it was made from, a recycle has a cause, and the result of a test is accounted for by what happened while it ran.

### TriageLoop

One process of the harness after another. `crashList` and `jsonl` are files and outlive a process; `cmd`, `results`,
`report` and `exit` are the process, and `pc` its place in `runQueries`. A mode is one step that gives all of its rows, because
`WorkerPool` and `IsolatedPool` say how it gets them. Two things come between a build and the rows, and both are choices:
a case may do something else in `Company`, after others of its process, than alone (a build says what: `alone`, `shared`);
and the parent of a worker or a child may call a crash what was none (`Blame`, at most `MaxBlamed` cases of a run). `did` and
`blamed` keep, as history, what each case did the last time it ran in this run and whom the parent blamed; a file carries which
of its cases went wrong (`from`), or the build it was written with.

| Action | Code |
|---|---|
| `Refuse`, `Begin` | the checks at the beginning of `runQueries` |
| `RunPlain`, `RunWorkers`, `RunIsolated`, `RunSelective`, `NoCrashList` | the four `collect...Runs`, and a crash list that is not there |
| `WriteCrashList`, `CutCrashList` | `writeCrashList`, to its end or not |
| `WriteOutput`, `NoOutput`, `CutOutput` | `writeJsonOutput`, likewise |
| `OpenFails` | a file that cannot be opened |
| `Status`, `Compare`, `NoBaseline` | `printRunResults`, `printBaselineReport`, `loadBaseline` |
| `Interrupt`, `Again` | a signal; the next run, with any build (external) |

The reference is `Wrong`: the cases that failed, died or were blamed in a run and are no known failure, without modes, rows
and files. Correct means that status, regressions and report follow it (`StatusIsVerdict`, `RegressionsAreReported`,
`ReportIsHonest`), whichever modes the two compared runs used, and that a crash list keeps a selective run of the same build
alive (`CrashListSuffices`). That two modes find the same of one build is no property: a worker's cases contaminate later ones and
its crashes are inflated (`docs/06-build-and-run.md` 315, 352-356), which `shared` and `Blame` allow. A selective run may be killed by
a case that dies only in company, where `--isolate` never saw it die; `CrashListSuffices` leaves such cases out.

### CaseSelection

`collectCases` walks the registry test by test (`at`, `runs`), then the parent writes its plans, then a child selects. A
parameter record is a sequence of `<<key, value>>`, an operation of `ParamsBuilder` a record of its kind and its data;
expanders and predicates look at one key. A value's text drops what the text of a query drops: `1` and `1.0` read the
same. A wildcard pattern is a sequence of names and whether a star follows. `serializeCasePlan` and `loadCasePlan` are
what they keep (position, names, parameters, subcases) and what is made anew (query, count). Every loop that keeps some
elements of a vector is `Select`, which names the positions that stay.

`RegistryAssumption` says what a registry is: vectors, tests whose names are not empty and not those of another test, and
no key twice in one run. The types of the source give the first; the macros that register tests give the second, and the
3076 tests of the repository keep it, as they keep the last. Selection of a child's case rests on the second (a plan and
a query know a test by its names alone), sampling on the last (it counts every entry, a test reads one per key).

| Action | Code |
|---|---|
| `SkipTest`, `CollectTest`, `AbortOnCollision` | the loop of `collectCases` and what it calls |
| `WritePlans` | `collectParallelRuns` before its first worker |
| `StartWorker`, `ShardByHand` | `--shard-results` with and without a plan, from the start or a later position |
| `StartIsolated`, `RunByHand` | `--run-case` with and without a plan |

Correct means: expansion yields the assignments that obey all operations, each once (`ExpansionIsComplete`, whose
reference knows no order of operations and no subcases); sampling only drops, and never a whole test
(`SamplingSparesTheRest`); queries only choose (`SelectionIsAFilter`); a child selects what its parent meant
(`ChildrenSelectTheParentsCases`).

Expansion is complete only for tests written as `WellFormed` says: an operation reads keys that an earlier one made and
knows the values it may find there, no key is made twice in its scope, all records of one `combineWithParams` have the same
keys, and no value comes twice in a list. The code checks none of this (only a subcase that takes a key of its
case aborts, which is `Collides`): a filter before the operation it looks at, or a value twice in a `combine`, gives other
runs than the assignments, or the same run twice, and that is the author's affair. `WellFormed` is no assumption of the
module, so the other properties do not rest on it.

### MemoryModel

`MemoryModelTester::run` and the WGSL it assembles. The host chooses the number of workgroups, their shuffle, the stress
and its locations (`SetUp`), resets what it resets (`ResetDevice`), and reads the counters back (`Check`). On the GPU a
workgroup starts (`Dispatch`), its invocations meet at the spin barrier (`EnterBarrier`, `Spin`, which gives up after
`SpinLimit` turns), perform the accesses of role 0 of one instance and of role 1 of another (`Perform`) and copy back
what the second pass cannot see (`End`); the second pass counts behaviours (`ResultPass`). Which words an invocation uses
follows the index arithmetic of the shaders (`XWord`, `YWord`, `Word`, `permute_id`, `stripe_workgroup`); a litmus test is
data (`Litmuses`). The GPU is external: `conforming` keeps the order WGSL demands (`MayPerform`), `reordering` none, and
`torn` splits an atomic add. `strange` is a history variable: did an instance behave as no interleaving of its roles can?
Correct means: a conforming GPU is never blamed (`NoFalseAlarm`), any other is blamed exactly for a strange instance
(`VerdictsAreExact`), every instance is counted once per iteration (`EveryInstanceIsCounted`), the test ends though
nothing promises that two workgroups run together (`TestEnds`).

### FPFormat to FPCases

Numbers are exact rationals with infinities and NaN, formats are constants: precision and exponents. `FPFormat` is rounding,
flushing, ULPs and correct rounding; the operators `(+)`, `(-)`, `(.)`, `(/)` round to the format of `Abstract`, because
the oracle computes in `double`. `FPIntervals` has an operator per elementary interval function and per operation with a
domain of its own, `FPBuiltins` the builtins composed of them as trees, so that one formula has two evaluations: `Interval`,
which is the host's, and `Results` in `FPDevice`, which lets every step err, round or flush as WGSL allows and was written
without the rounding of `FPFormat`. Of the errors WGSL states in ULP (`Allowed`) it leaves out the `Disputed` ones: WGSL
measures in the ULP of the exact result, the code in the ULP at a rounded one (`ulpInterval`), and when a power of two lies between
the two the code's may be half as long. Such results are rejected by the tests; section 4 says more. `FPRanges` are the input ranges, with the emulated 128-bit product of the `int64_t`
interpolation, over patterns of a few bits. `FPCases` has a generator per generator of the code and a state machine that
runs one `job`: a generator says which formulas of which arguments a case needs (`Call`, `computed`), their intervals make the
case or drop it (`MakeCase`, `result`), and a device evaluates the inputs (`Execute`, `answer`); generators without formulas
and input ranges are done in one step (`Run`). Correct means: no result of a conforming device, the disputed ones aside, is rejected (`ConformingDevicesPass`); where a builtin is exact
or correctly rounded nothing wider is accepted (`EndpointsAreEarned`); constant stages lose the cases that overflow and, where a
builtin is exact or correctly rounded, no others (`OnlyOverflowsAreDropped`; `modf` and `frexp` know no stages, and `faceForward` also
loses cases elsewhere, so the property passes over these); ranges do not turn back and end where they should
(`RangesAreOrdered`). Comparisons have no device: what it may answer is `generateComparisonCases` word for word, so they
are run, but nothing is claimed of them.

### TexFormats to TexOracles

The table of formats is a constant (`FormatTable`). `TexCases` has an operator per function of `texture_utils.cpp` that makes a case (`executeTextureSample...`) and
`generateCall` for its calls: coordinates, layers, levels, derivatives, biases, offsets, depth references. `TexSampling` is the
software sampler. A texel is not a colour but a name, what its value was made from; a result is a mixture, how many parts
each texel contributes; so two results agree when they read the same texels with the same weights. `TexDevice` is the
reference, external and computed another way: it filters with a tent over the endless plane an address mode unrolls, puts
the texels of a cube on the lattice of its surface, and takes levels from derivatives. `TexPipelines` reduces a shader's text to
what may differ between two cases and models the two caches of pipelines. What earlier tests may have left there matters only where
two cases have one key and different pipelines: `mistaken` holds these keys for all cases of the instance (`MistakenAmong` in
`TexCaches`). `TexOracles` runs a case: every call of it, compared, provided its pipeline is its own (`OwnPipeline`). The mip weights that the tests read from the device are constants, and `WeightsAreQueried` assumes
that the modelled device answers the query with them.

### TexLayout to TexAccess

`TexLayout` is the arithmetic of levels in buffers. `TexViews` is the external reference: what WebGPU says is a valid texture,
view and binding, and what a query answers. `TexQueries`, `TexLoads` and `TexStores` have an operator per test of
the families: the texture, view and binding made, what is filled in, where is loaded from, what is written, what is expected. The
device of `TexLoads` and `TexStores` returns the texel of the view and writes inside the view only, with ties either way.
`TexBundles` has the three caches of pipelines, keyed by text and layout, with the same use of `mistaken`. In `TexAccess` one action per kind of test goes from `pending` to `skipped`, `malformed` (the device would
have refused something), `failed` or `passed`.

## 4. Runs

| Run | Instance | Shows |
|---|---|---|
| `WorkerPool_crash` | 3 cases in 2 shards, two rows for the first case of shard 0 and one for the others, one foreign fragment, fairness | honest verdicts, exact blame, resumption and the ledger, with deaths anywhere, torn lines and foreign output; the run ends however often workers crash |
| `IsolatedPool_pool` | 3 cases, pool of 2, no timeout, children that get on | strays and idle slots; the run ends when the children do |
| `IsolatedPool_timeout` | 2 cases, workers from the hardware, timeout of 2 ticks, one fault | owners, classification by the own process, the ledger, and the run ends with children that hang |
| `DeviceCache_tests` | 3 tests from three files (default, all features, no GPU), 3 devices, with losses, refusals, devices and errors that come late, bodies that throw inside a scope | objects of the own device only, order of releases, retirement, leaks, and verdicts accounted for |
| `DeviceCache_errors` | one test | a violation of `ErrorsFailTheTest`, see `findings` |
| `TriageLoop_loop` | 3 cases, one of two subcases, 3 builds, 16 command lines, 1 result file, one case blamed per run | status, report and crash list follow what went wrong over any number of runs, cut short or not, in any mode |
| `CaseSelection_suite` | 3 tests, one with any well-formed program of up to 3 operations, 4 sets of queries, sampled or not, 2 shards | nothing is lost or doubled, and every child selects what its parent meant |
| `MemoryModel_litmus` | 17 pairs of a litmus test and a memory type, one workgroup of 3 invocations or 2 of one (up to 3 dispatched), 2 iterations, conforming, reordering and tearing GPUs | tests fail exactly for behaviours no interleaving shows, count every instance, and end |
| `MemoryModel_stress` | one barrier test, 2 stress lines | a violation of `StressGoesWhereChosen`, see `findings` |
| `FPCases_generators` | 15 thousand calls, of every generator and range, f32 and f16 of two bits of precision, doubles of seven, 64-bit integers of twelve bits | intervals hold what a conforming device returns, disputed results aside, and not more where it is exact; constant stages drop overflows only |
| `FPCases_frexp` | `frexp` of every f16 value | a violation of `SubnormalsAreSkipped`, see `findings` |
| `Textures_tests` | every kind of sampling and gathering case over formats of each kind, 24 calls each, textures of 4 texels, array of 12 faces; every query, load and store case, devices with no and with all optional features | nothing malformed is asked, and no answer of a conforming device is a mismatch, with the pipelines any earlier tests left |

Bounds. Two shards are enough for interference between workers, because a shard's state is touched only by
its own worker; two positions per shard make "the next case" exist, and two rows per case make a flush that can
be torn. The isolation pool needs more cases than slots (three and two) for a queue that waits. `MaxNoise` and
`MaxFaults` bound how often the environment misbehaves; a death needs no bound, since a shard shrinks with each. The
cache needs three tests for "fill the cache, lose it, use it again", and three devices for both slots and one of them rebuilt; all
kinds of misbehaviour are on together, so that each property meets each of them. The all-features device takes up to two
requests (`AllAttempts`; wgpu-native's third has the same code, and the proofs hold for both). `MaxScopes` is one leftover scope:
more take no more errors. `TriageLoop` has three cases,
so that with two workers two of them share a process and one does not; rows that differ, in both orders, so that rules that
fold rows can disagree; cases that die or fail in company only, and one that dies alone only; one blamed case is enough, since
rows are folded case by case; one result file is
enough, since a file is only ever read by a run that did not write it or that overwrote it. The programs of
`CaseSelection` have three operations because a case, a filter or expander on it, and a subcase need three; the test
under study stands between one whose name is a prefix of its own and one of another file, and `Threshold = 1` puts tests
on both sides of it with three formats. A litmus test has two roles, so a workgroup of two or three invocations has
every pairing of a neighbour and of itself; two iterations let the second meet what the first left; one turn of the
spin loop stands for 1024, since only "met" and "gave up" differ. In the floating-point formats two bits of precision have
odd and even values, ties and subnormals, and every unary case and most pairs can be enumerated; the doubles are wide enough
that rounding twice matters only where it does in the code. A texture of four texels has inner texels and both
edges, and four levels down to one texel; the twelve faces are two cubes. Arrays written out of bounds have 256 texels for
4096 and sides of 4 for 64.

Fairness. The parent is one thread in a loop, so its enabled steps are eventually taken. `WorkerPool_crash`
assumes also that a worker process gets on (`Child`): the code has no timeout there, and the run shows what it
rests on. `IsolatedPool_timeout` assumes nothing of the children, only that time passes; in `IsolatedPool_pool` there is
no timeout and the children get on. `MemoryModel` assumes only that the GPU does something as long as there is something to
do (weak fairness of `Next`), in particular not that workgroups are scheduled together: `TestEnds` holds because the spin
is bounded. The other modules promise no liveness: a test may run as
long as it likes, a user need not start another run, and a selection or an oracle is a loop over finite data.

`CHECK_DEADLOCK FALSE` stands in the runs of `DeviceCache`, where the process ends after `MaxTests` tests and a request
finds no device left when `MaxDevices` are made, in `CaseSelection_suite`, where a behaviour ends with its child, and in
the runs of the oracles, where it ends with its case.

### Disagreements between code and words

Three runs show one each, with a trace (`findings`). `MemoryModel_stress`: the host and the shader lay out the combined buffer
differently, so the stress goes to line 0 whatever was chosen. `DeviceCache_errors`: a recorded uncaptured error does not make a
test that then skips fail. `FPCases_frexp`: the subnormal inputs of f16 that the tests of `frexp` mean to skip are not
skipped. These were met while modelling and have no run of their own:

- a worker that dies between two writes of one flush leaves half a line; `finishWorker` records it as a crash of the case in
  progress and then blames the case behind it (`runner.cpp` 1771), where `specs/parallel-workers.md` 86 has one case marked.
  `BlameIsExact` therefore leaves out shards where a process died in a case of several rows;
- foreign output glued to a RESULT line shifts the rest of its shard; the rows of a case that dies between them are
  dropped, against `specs/parallel-workers.md` 97;
- a child that ended in time, with its RESULT line unread, is killed as late when the parent is slow (`runner.cpp` 1089 looks
  at the clock before the pipe);
- a body that throws inside `expectValidationError` leaves its scope on the shared device, which takes the errors of later
  tests, and these then pass (`harness.cpp` 1131, `docs/03-webgpu-c-abstraction.md` 314). No property catches it:
  `RecordedErrorsCount` speaks of errors that were recorded, and these are not;
- an error delivered late is charged to the test that is then current (`harness.cpp` 89). `FailuresAreExplained` admits it, as
  an error of an earlier test;
- a test during which its device is lost passes unless a check of its own notices (`harness.cpp` 96, against
  `docs/03-webgpu-c-abstraction.md` 225: "unexpected loss fails the case"); a device that arrives after the wait leaves a spent
  adapter behind, and every later request of the process fails;
- `onDeviceLost` is there to "detect genuine device loss" and there is "deliberately NO periodic/forced recycle" of a healthy
  device (`harness.cpp` 92, 369-371), but the report of a request that was refused, FailedCreation, sets the flag as well, and the
  next test gives up healthy devices. `NoForcedRecycle` counts it as a cause (`denied`), which is all that can be proved;
- a baseline keeps the last row of a case and the current run its worst, so an identical rerun can report a regression
  (`runner.cpp` 289, against `docs/06-build-and-run.md` 322); the properties say that no regression is missed, not that each one
  reported is one. `writeJsonOutput` never looks at its stream, so a full disk leaves a prefix that a later `--baseline` reads as
  whole;
- the atomicity test adds 0 and stores 2: a torn read-modify-write leaves nothing it looks at (`atomicity.spec.cpp` 38, against
  its description at 65-67). `VerdictsAreExact` exempts it, and two tests of coherence that look at one wrong outcome;
- `isSubnormalInclZero` uses the bounds of `double` for f16 (`floating_point.cpp` 1374), so `min` and `max` of two f16
  subnormals accept one of them and zero only. `MCFPCases` leaves these builtins out for f16, and the f16 subnormals out of
  `frexp` in the passing run;
- `ulpInterval` measures in the ULP at a value it has rounded (`floating_point.cpp` 618). Where a power of two lies between that
  value and the exact result, this can be half the ULP at the exact result, and the tests then reject what WGSL's words allow
  (`Disputed`), also inside composed builtins such as `tan`. The repository says nothing of it, and a reading of WGSL by the
  smaller ULP would agree with the code;
- a subnormal f16 that a device flushes while it converts it to f32 is rejected, one that becomes subnormal in the conversion may
  be flushed: the reference device converts that way (`DeviceAtOnce`), and WGSL does not list conversions among the operations that
  may flush at all;
- the load tests compare all four words of a stencil texel, and the gather tests the components past the first, with values
  that WebGPU leaves to the implementation (`texture_utils.cpp` 3482, 4109): `StencilChannels` assumes a device of the expected
  kind. Calls that read across the corner of a cube are the device's choice and compared by the code all the same; the
  runs leave them out (`DevicesChoice`). A NaN from the device passes the comparison `diff > tolerance` of `executeCase`.

What the oracles of textures cannot notice, by the model: integer textures hold only 0 and 1; the levels of an
uncompressed cube have one colour each, so a wrong face goes unseen; depth references never equal a stored depth, so
less and less-equal look alike; texel centres without an offset never leave the texture, so address modes go unseen there; layer
17 + k of level 0 of a compressed texture equals layer k of level 1. And the cache of sampling pipelines, keyed by the
shader's text alone, is right only because a comment of that text names the filter and the stage: without it
`ConformingSamplersPass` is violated.

## 5. Proofs

All theorems hold for every value of the constants that satisfies the named assumptions of the modules
(`PoolAssumption`, `IsolationAssumption`, `CacheAssumption`, `TriageAssumption`, `SelectionAssumption`,
`RegistryAssumption`, `MemoryModelAssumption`, `SuiteAssumption`, `PermuteAssumption`). Most say no more than that the
constants are numbers, sets, switches and, in `CaseSelection`, registries of the right kind. Two say more.
`SuiteAssumption`: workgroup memory, a texture that is read back and a barrier between the roles come with tests of one
workgroup, as in every `spec.cpp` of the tester. `PermuteAssumption`: `permute_id` permutes, which its factors (109 and
419, primes) do as long as they do not divide the number of ids.

- `WorkerPool_proofs`: type correctness, `LedgerShape`, and that the pool implements `CaseLedger`. The invariant is
  `TypeOK`, `LedgerShape` and the tokens in flight; it needs modular arithmetic about positions of a shard
  (`ModStep`, `ModGap`, ...), since "not ahead of `next`" has to survive `next + Workers`.
  Then `VerdictsAreEarned` and `ResumesAtFirstOpenCase`: neither speaks of the pipe, and neither is
  inductive without it. `LinesInv` numbers the lines between a worker and its parent by the row they carry. The
  numbers exist in no program, so the invariant says that there are some (`Legible`): they rise case by case
  (`Numbered`), and the rows recorded for the case at hand are the first of its run or a line of it was lost, and then
  the lines to come are too few to fill it (`Tracked`). `Ahead` says where the worker is compared with its parent.
- `WorkerPool_blame`: `BlameIsExact`, whose assumptions (no foreign output, no torn query) are on the run, not on the
  constants. Under them the lines come in an unbroken row from the parent's place to the worker's (`Consecutive`), so the pipe
  runs dry exactly at the case the process died in (`BlameInv`).
- `IsolatedPool_proofs`: type correctness, `OneOwner`, `NoStrays`, `ClassifiedByOwnChild`, `SuccessIsEarned`, `NoIdleSlot` and
  `CaseLedger`. The invariant adds to `OneOwner` what each process has done so far (`Progress`): a process that can be
  waited for has an exit status, and a RESULT text means an outcome. For `NoIdleSlot` it is enough that the pool is full or
  the queue empty from the start loop to the wait (`Filled`).
- `DeviceCache_proofs`: the invariant `IInv` says what a handle in a slot is (`Handles`), how far a teardown has come
  (`Stages`), whose the objects are (`Objects`) and what the loss flag knows (`FlagTells`). Without the last two the
  properties are not inductive: a test may find an object only because the device its file uses has not changed since
  the object was made. Eight theorems need nothing of the implementation. That only
  cached devices and those that came too late are held (`NothingLeaks`) rests on `AllHeld`; `FailuresAreExplained` and
  `RecordedErrorsCount` rest on `Accounts`, which says whose errors a fixture has recorded. `NoForcedRecycle` and
  `AdapterHasItsDevice` assume `~Timeouts` and rest on `Punctual`: a device not released is the one in its slot, and the flag has a
  cause on the present instance. The code breaks them without the assumption (section 4).
- `TriageLoop_proofs`: type correctness, `StatusIsVerdict`, `RegressionsAreReported`, `ReportIsHonest` and
  `CrashListSuffices`, for every number of cases and builds, rows per case, command line and number of blamed cases. The properties
  compare a report with a run whose process is long gone, so the invariant says of every whole file which cases its run got wrong
  (`Files`, `List`), and of the rows in memory that they are bad exactly for a case that went wrong (`Rows`, `Faithful`), which
  the modes establish case by case (`ChildIsFaithful`, `WorkerIsFaithful`, `PlainIsFaithful`). A crash list is of cases that ran
  alone (`Emits`), so it names all that die alone. `ThenBad` looks at a last row only: that it is
  one of the bad rows is enough for `RegressionsAreReported`, and that it need not be the worst is
  the disagreement of section 4.
- `CaseSelection_proofs`: `SelectionIsAFilter`, `SamplingSparesTheRest` and `ChildrenSelectTheParentsCases`, for every registry
  and command line. All three compare vectors that different loops build, so they need induction over data. The library's
  induction theorems take operators and are of no use here; `Induction` is their form for sets, proved from the
  well-foundedness of `<`. A selection is read off a rising enumeration of the positions that stay (`Lists`), two rising
  enumerations of one set are equal (`ListsUnique`), and the concatenation of two is one of the concatenation
  (`ListsJoin`, `SelectJoin`); a flattened vector is what its parts give one after the other (`Parts`). The invariant
  `SelInv` says that `runs` is what the tests so far give and that the plans are those of the shards. A worker's
  positions are then the composition of two rising enumerations, its plan's and its own; a query finds no case of another
  test because names differ, and at most one of its own because sampling never doubles one (`Keeps`).
- `CaseExpansion_proofs`: `ExpansionIsComplete`, for registries whose tests are `WellFormed` (a hypothesis of this theorem,
  which TLC evaluates on the programs of its run). A record is read as an assignment of values to keys. What an operation appends
  to a record depends only on what it reads there, and is one record for each way to obey it (`AdditionsAre`); so the
  records after the operations of `J` are one for each assignment that obeys `J` (`Complete`). This composes: what `J` makes of a
  record, and of each of these what `L` makes, is what `J` and `L` make (`Composed`, on the places of a flattened vector, `Addressed`).
  One lemma serves three times: for the next operation of a scope, for the subcases of every case, and for the cases
  of a test without subcases. The keys of the case are taken from every subcase and put back (`WithoutCaseKeys`), and a
  case that vanishes had no run to lose.
- `MemoryModel_proofs`: type correctness, `NoFalseAlarm`, `VerdictsAreExact` and `EveryInstanceIsCounted`, for every suite of
  the 15 litmus tests, every number of workgroups, invocations and iterations. None of the three says anything while the
  test runs; the invariant does. (1) The index arithmetic keeps instances apart: each role of an instance has exactly one
  invocation (`OneInvocation`, `SomeInvocation`), two accesses meet in a word exactly when they are of one instance and one
  location or the locations are aliased (`CellsApart`, `CellsMeet`), and the result pass looks where the test pass wrote or
  copied back (`ResultWords`, `CopiesAreTrue`). (2) So a step of a conforming GPU is one access of one instance, and
  `Interleaved` says of every instance that the accesses it has seen and what they left are a point of some interleaving
  (`PerformLeaves`, `PerformComes`). At the end of the pass all accesses are done (`EveryoneIsShuffled`: the shuffle drops
  no testing workgroup), and what is observed is the end of an interleaving (`ConformingIsSeen`). (3) What the
  interleavings of each litmus test are is computed in a lemma per test (`MessagePassingBehaves` and 14 more), by an
  invariant of the partial interleavings: the disallowed behaviour is none of them, and except for `atomicity` the
  others have a counter each (`EveryTestJudges`). (4) On the other GPUs only values matter: a location holds a value
  stored in it and what is stored is not undone (`ValuesAreStored`, `StoresAreKept`). For twelve tests this makes
  everything observable a counted behaviour (`EveryoneCovers`), so a strange one is the disallowed one. That a count above
  zero is an instance of this iteration is `CountsAreFresh`.

Only model-checked: liveness (`RunEnds`, `TestEnds`), which is out of the prover's reach; and the properties of the
floating-point and of the texture modules. The floating-point modules are recursive, which the prover does not take. In
both the truth is in the entries of tables (formats, builtins, cases), not in an argument that holds for any; TLC
evaluates every entry, which is the right tool for them.

## 6. Not modelled

| Part | Why | What makes it correct |
|---|---|---|
| Waits | part of `DeviceCache` as one step; planned | a wait returns what the callback said or gives up after its time; a late callback finds the state it writes to |
| Comparisons and readbacks of the fixture | calls into the backend, numeric code with unit tests | a mismatch is reported exactly when an element differs beyond its tolerance |
| Texel encodings, image comparison (`src/src/webgpu/util`) | numeric code with unit tests; the layouts are in `TexLayout` | encoding and decoding agree |
| Rest of `texture_utils.cpp`: `readTextureToTexelViews` and its test, random texels, `fillDepthStencilTexture`, the validation of mip weights per stage (7090-7336) | the first compares the device with itself, the second are hashes (`channelValue`, `pseudoRandomU32` are constants), the last is a heuristic over measured weights | |
| `pow`, the abstract kind outside the ranges | toy precision makes `pow` unbounded everywhere (`PowFormula` has no run); abstract cases are f32 generators over doubles | as for the other builtins |
| `depth24plus` | its value depends on an implementation's f32 rounding | |
| Text of WGSL | a record of what it says that may differ | the text says what the record says |
| Pipelines and layouts of the memory model tester | one pair per test, made before it runs | |
| Expression runner, format and limit tables, generators of validation tests | formatting, packing, tables of constants without state | |
| Grammar of queries, bytes of case plans, text of JSONL and crash list | conversions; the modules say what they keep and what they drop | what is read is what was written, up to what is dropped |
| Registry | filled before `main`, only read afterwards; `CaseSelection` takes any | names of a file and a test are unique |
| Command line, listing generator, backend shims | parsing and I/O without state | |
| Windows branches | the same protocol over other system calls | as for the POSIX branches |
| Other ported tests | data for the system under test, not the harness | |

Abstractions inside the modelled parts: a query is its case, output is what the parsers tell apart, queue and
device are one, requests of an instance succeed, and a duration is a number of ticks.
