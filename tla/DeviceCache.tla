---------------------------- MODULE DeviceCache ----------------------------
(***************************************************************************)
(* The process-wide device cache (harness.cpp, struct DeviceCache) under   *)
(* the runner's sequence of subcases (runner.cpp, runCase and runOne).     *)
(*                                                                         *)
(* One thread runs subcases one after another.  All fixtures of a process  *)
(* share one instance and at most two devices, the default one and the     *)
(* all-features one, each on an adapter of its own; a fixture may add a    *)
(* "mismatched" device that it releases when it is finalized.  A lost      *)
(* device sets a flag from a callback that may run at any moment; the next *)
(* test that starts tears the whole cache down and rebuilds it lazily.     *)
(*                                                                         *)
(* The WebGPU implementation is external: it grants or refuses devices,    *)
(* loses them, delivers callbacks late, and takes error scopes.            *)
(***************************************************************************)
EXTENDS Integers, Sequences, FiniteSets

CONSTANTS
    Files,         \* spec files
    PlainFiles,    \* those whose test group uses the base Fixture (no GPU)
    AllFiles,      \* those whose test group uses AllFeaturesMaxLimitsGpuTest
    Tags,          \* slots of deviceScoped<T>(), one per type T
    AllAttempts,   \* requests for the all-features device: 2, on wgpu-native 3
    MaxTests,      \* bound: subcases one process runs
    MaxDevices,    \* bound: devices the implementation creates
    MaxScopes,     \* bound: error scopes left open on one device
    Losses,        \* may a device be lost for a reason of its own?
    Refusals,      \* may a request for an adapter or a device be refused?
    Timeouts,      \* may a device arrive after the five seconds of the wait?
    LateErrors,    \* may an uncaptured error be delivered after the call?
    ThrowingBodies \* may the body given to expectValidationError throw?

ASSUME CacheAssumption ==
    /\ PlainFiles \subseteq Files /\ AllFiles \subseteq Files
    /\ PlainFiles \cap AllFiles = {}
    /\ "none" \notin Files
    /\ AllAttempts \in {2, 3}
    /\ MaxTests \in Nat /\ MaxDevices \in Nat /\ MaxScopes \in Nat
    /\ Losses \in BOOLEAN /\ Refusals \in BOOLEAN /\ Timeouts \in BOOLEAN
    /\ LateErrors \in BOOLEAN /\ ThrowingBodies \in BOOLEAN

Devices == 1..MaxDevices

\* The two cached slots and the one a GpuTest fixture owns.
Slots == {"default", "all", "other"}
Cached == {"default", "all"}

\* A spec file has one test group, and the group fixes the fixture type.
FixtureOf(f) == IF f \in PlainFiles THEN "plain"
                ELSE IF f \in AllFiles THEN "all" ELSE "default"

\* Device requests one getter makes before it gives up: the all-features one
\* retries with the texture features only (on wgpu-native, before that, without
\* the features wgpu never grants).
Attempts(s) == IF s = "all" THEN AllAttempts ELSE 1

VARIABLES
    \* DeviceCache
    instance,    \* 0 for null, else which createInstance() made it
    adapter,     \* slot -> "none", "fresh", or "spent" (consumed by a request)
    device,      \* slot -> 0 for null, else a device
    scoped,      \* scopedObjects with their tags, oldest first
    deviceLost,  \* the flag onDeviceLost sets
    \* the runner
    pc, stage, attempt,
    file,        \* previousFile
    current,     \* is g_currentTest set?
    uncaptured,  \* has the fixture an uncapturedError_?
    outcome,     \* how the test left its body
    ran, last,   \* subcases run, and the result of the one just finished
    \* the implementation
    life,        \* device -> "unborn", "live", "lost", "gone" (released)
    home,        \* device -> the instance it was requested on
    slotOf,      \* device -> the slot it was requested for
    scopes,      \* device -> error scopes left open on it
    owed,        \* devices whose unexpected loss is still to be reported
    refused,     \* instances whose refused requests are still to be reported
    pending,     \* <<device, test>>: uncaptured errors still to be delivered
    born,        \* instances created so far
    \* history, for the properties only
    condemned,   \* devices reported lost when the current test began
    reported,    \* devices whose unexpected loss was reported
    late,        \* devices that came when nobody waited for them any more
    denied,      \* was a cached device refused on the present instance?
    erred,       \* the test's own error: "no", "swallowed" by a scope, still
                 \* to be delivered ("late"), or "recorded" on the fixture
    foreign      \* was an earlier test's error recorded on this one?

cacheVars == <<instance, adapter, device, scoped, deviceLost>>
runVars   == <<pc, stage, attempt, file, current, uncaptured, outcome, ran, last>>
implVars  == <<life, home, slotOf, scopes, owed, refused, pending, born>>
causes    == <<condemned, reported, late, denied>>
history   == <<causes, erred, foreign>>
vars      == <<cacheVars, runVars, implVars, history>>

NoResult == [status |-> "none", left |-> "none", error |-> "no", foreign |-> FALSE]

Init ==
    /\ instance = 0 /\ scoped = <<>> /\ deviceLost = FALSE
    /\ adapter = [s \in Slots |-> "none"] /\ device = [s \in Slots |-> 0]
    /\ pc = "idle" /\ stage = 0 /\ attempt = 1 /\ file = "none"
    /\ current = FALSE /\ uncaptured = FALSE /\ outcome = "none"
    /\ ran = 0
    /\ last = NoResult
    /\ life = [d \in Devices |-> "unborn"] /\ home = [d \in Devices |-> 0]
    /\ slotOf = [d \in Devices |-> "default"] /\ scopes = [d \in Devices |-> 0]
    /\ owed = {} /\ refused = {} /\ pending = {} /\ born = 0
    /\ condemned = {} /\ reported = {} /\ late = {} /\ denied = FALSE
    /\ erred = "no" /\ foreign = FALSE

-----------------------------------------------------------------------------
(***************************************************************************)
(* Teardown: the order of teardownDevices and of ~DeviceCache.             *)
(***************************************************************************)

\* Mutant: Cached objects are cleared after the devices they were made on.
TeardownObjectsLate == <<"all", "default", "instance", "objects", "flags">>

TeardownOrder == <<"objects", "all", "default", "instance", "flags">>

At(what) == pc \in {"recycle", "exit"} /\ TeardownOrder[stage] = what

\* The destructor has no flags left to reset.
LastStage == IF pc = "recycle" THEN Len(TeardownOrder) ELSE Len(TeardownOrder) - 1

\* After the last part: a recycle goes on to the fixture's init, the exit ends.
NextStage ==
    IF stage < LastStage
    THEN stage' = stage + 1 /\ UNCHANGED <<pc, current>>
    ELSE /\ stage' = 0
         /\ pc' = IF pc = "recycle" THEN "init" ELSE "done"
         /\ current' = (pc = "recycle")

\* clearDeviceScopedObjects
DropObjects ==
    /\ At("objects") /\ NextStage
    /\ scoped' = <<>>
    /\ UNCHANGED <<instance, adapter, device, deviceLost, attempt, file, uncaptured,
                   outcome, ran, last, implVars, history>>

\* Releases queue, device and adapter of a slot.  The implementation reports
\* the end of a live device with reason Destroyed, which onDeviceLost ignores.
Release(s) ==
    /\ life' = IF device[s] = 0 THEN life ELSE [life EXCEPT ![device[s]] = "gone"]
    /\ pending' = {p \in pending : p[1] # device[s]}
    /\ device' = [device EXCEPT ![s] = 0]
    /\ adapter' = [adapter EXCEPT ![s] = "none"]

DropSlot(s) ==
    /\ At(s) /\ NextStage /\ Release(s)
    /\ UNCHANGED <<instance, scoped, deviceLost, attempt, file, uncaptured, outcome,
                   ran, last, home, slotOf, scopes, owed, refused, born, history>>

\* Releasing the last reference to the instance cancels the callbacks still
\* owed (CallbackCancelled, also ignored).  A device nobody released keeps it.
DropInstance ==
    /\ At("instance") /\ NextStage
    /\ instance' = 0
    /\ IF \E d \in Devices : home[d] = instance /\ life[d] \in {"live", "lost"}
       THEN UNCHANGED <<owed, refused>>
       ELSE /\ owed' = {d \in owed : home[d] # instance}
            /\ refused' = refused \ {instance}
    /\ denied' = FALSE
    /\ UNCHANGED <<adapter, device, scoped, deviceLost, attempt, file, uncaptured,
                   outcome, ran, last, life, home, slotOf, scopes, pending, born,
                   condemned, reported, late, erred, foreign>>

\* Only now, with every handle released, does teardownDevices reset the flag.
ResetFlags ==
    /\ At("flags") /\ NextStage
    /\ deviceLost' = FALSE
    /\ UNCHANGED <<instance, adapter, device, scoped, attempt, file, uncaptured,
                   outcome, ran, last, implVars, history>>

TearDown == DropObjects \/ (\E s \in Cached : DropSlot(s)) \/ DropInstance \/ ResetFlags

-----------------------------------------------------------------------------
(***************************************************************************)
(* The runner: runCase and runOne up to the fixture's init.                *)
(***************************************************************************)

\* Mutant: The case boundary forgets the objects of the file before.
KeptObjectsAcrossFiles(f) == scoped

\* The objects that survive when a case of file f begins.
KeptObjects(f) == IF file # "none" /\ f # file THEN <<>> ELSE scoped

RunCase(f) ==
    /\ pc = "idle" /\ ran < MaxTests
    /\ pc' = "start" /\ file' = f
    /\ scoped' = KeptObjects(f) /\ last' = NoResult
    /\ UNCHANGED <<instance, adapter, device, deviceLost, stage, attempt, current,
                   uncaptured, outcome, ran, implVars, history>>

\* Mutant: Only a process that uses the default device heals.
MustRecycleDefault == deviceLost /\ device["default"] # 0

\* recycleDevicesIfNeeded
MustRecycle == deviceLost

\* Mutant: The fixture of the test before is used again.
ReusedFixture == UNCHANGED uncaptured

\* fixtureFactory(): nothing recorded yet.
FreshFixture == uncaptured' = FALSE

\* runOne makes a new fixture, and setCurrentTest heals a lost device first.
StartTest ==
    /\ pc = "start"
    /\ IF MustRecycle THEN pc' = "recycle" /\ stage' = 1 /\ UNCHANGED current
                      ELSE pc' = "init" /\ current' = TRUE /\ UNCHANGED stage
    /\ FreshFixture
    /\ condemned' = reported
    /\ UNCHANGED <<cacheVars, attempt, file, outcome, ran, last, implVars, reported, late,
                   denied, erred, foreign>>

\* A test marked unimplemented is skipped before it gets a fixture.
SkipUnimplemented ==
    /\ pc = "start"
    /\ pc' = "idle" /\ ran' = ran + 1
    /\ last' = [status |-> "Skip", left |-> "none", error |-> "no", foreign |-> FALSE]
    /\ UNCHANGED <<cacheVars, stage, attempt, file, current, uncaptured, outcome,
                   implVars, history>>

\* The static cache is destroyed when the process ends.
Exit ==
    /\ pc = "idle"
    /\ pc' = "exit" /\ stage' = 1
    /\ UNCHANGED <<cacheVars, attempt, file, current, uncaptured, outcome, ran, last,
                   implVars, history>>

-----------------------------------------------------------------------------
(***************************************************************************)
(* GpuTest::init: device(), that is getDevice or its all-features twin.    *)
(***************************************************************************)

Slot == FixtureOf(file)

LeaveBody(how) == pc' = "finish" /\ outcome' = how

EnterBody ==
    /\ pc = "init"
    /\ Slot \in Cached => device[Slot] # 0
    /\ pc' = "body"
    /\ UNCHANGED <<cacheVars, stage, attempt, file, current, uncaptured, outcome, ran,
                   last, implVars, history>>

\* ensureInstance
EnsureInstance ==
    IF instance # 0 THEN UNCHANGED <<instance, born>>
                    ELSE instance' = born + 1 /\ born' = born + 1

\* ensureAdapter and ensureAdapterAllFeatures: an adapter once cached is kept.
EnsureAdapter ==
    /\ pc = "init" /\ Slot \in Cached /\ device[Slot] = 0 /\ adapter[Slot] = "none"
    /\ EnsureInstance
    /\ \/ adapter' = [adapter EXCEPT ![Slot] = "fresh"] /\ UNCHANGED <<pc, outcome>>
       \/ Refusals /\ LeaveBody("failed") /\ UNCHANGED adapter
    /\ UNCHANGED <<device, scoped, deviceLost, stage, attempt, file, current, uncaptured,
                   ran, last, life, home, slotOf, scopes, owed, refused, pending, history>>

Unborn(d) == life[d] = "unborn" /\ \A e \in Devices : e < d => life[e] # "unborn"

\* The implementation makes device d on the current instance.
Create(d, s) ==
    /\ life' = [life EXCEPT ![d] = "live"]
    /\ slotOf' = [slotOf EXCEPT ![d] = s]
    /\ home' = [home EXCEPT ![d] = instance]

NothingCreated == UNCHANGED <<life, slotOf, home>>

\* requestDevice: only an unspent adapter grants a device, and is spent by it.
RequestGranted ==
    /\ pc = "init" /\ Slot \in Cached /\ device[Slot] = 0 /\ adapter[Slot] = "fresh"
    /\ \E d \in Devices :
          /\ Unborn(d) /\ Create(d, Slot)
          /\ device' = [device EXCEPT ![Slot] = d]
    /\ adapter' = [adapter EXCEPT ![Slot] = "spent"]
    /\ attempt' = 1
    /\ UNCHANGED <<instance, scoped, deviceLost, pc, stage, file, current, uncaptured,
                   outcome, ran, last, scopes, owed, refused, pending, born, history>>

\* The request is refused.  The device that was not made may be reported lost,
\* now or later: FailedCreation is a loss to onDeviceLost.
Refused ==
    /\ Refusals \/ adapter[Slot] = "spent"
    /\ refused' \in {refused, refused \cup {instance}}
    /\ denied' = TRUE
    /\ NothingCreated /\ UNCHANGED <<adapter, late>>

\* Its answer is not there after five seconds: the device may still come, and
\* spends the adapter with nobody to hold it.
TimedOut ==
    /\ Timeouts /\ adapter[Slot] = "fresh"
    /\ \E d \in Devices : Unborn(d) /\ Create(d, Slot) /\ late' = late \cup {d}
    /\ adapter' = [adapter EXCEPT ![Slot] = "spent"]
    /\ UNCHANGED <<refused, denied>>

RequestFailed ==
    /\ pc = "init" /\ Slot \in Cached /\ device[Slot] = 0 /\ adapter[Slot] # "none"
    /\ Refused \/ TimedOut
    /\ IF attempt < Attempts(Slot)
       THEN attempt' = attempt + 1 /\ UNCHANGED <<pc, outcome>>
       ELSE attempt' = 1 /\ LeaveBody("failed")
    /\ UNCHANGED <<instance, device, scoped, deviceLost, stage, file, current,
                   uncaptured, ran, last, scopes, owed, pending, born, condemned,
                   reported, erred, foreign>>

\* wgpuAdapterGetLimits fails, before any request.
LimitsFailed ==
    /\ pc = "init" /\ Slot = "all" /\ device["all"] = 0 /\ adapter["all"] # "none"
    /\ Refusals /\ attempt = 1
    /\ LeaveBody("failed")
    /\ UNCHANGED <<cacheVars, stage, attempt, file, current, uncaptured, ran, last,
                   implVars, history>>

-----------------------------------------------------------------------------
(***************************************************************************)
(* The body of a test.                                                     *)
(***************************************************************************)

InBody == pc = "body" /\ Slot \in Cached

\* deviceScoped<T>(): found by its tag, or made on the fixture's device.
UseScopedObject(t) ==
    /\ InBody
    /\ \A i \in 1..Len(scoped) : scoped[i].tag # t
    /\ scoped' = Append(scoped, [tag |-> t, device |-> device[Slot]])
    /\ UNCHANGED <<instance, adapter, device, deviceLost, runVars, implVars, history>>

\* mismatchedDevice() asks for the cached default adapter too, which for an
\* all-features fixture may be the first request for it.
UseMismatched ==
    /\ InBody /\ device["other"] = 0
    /\ \E got \in BOOLEAN :
          /\ ~got => Refusals \/ Timeouts
          /\ adapter' = [adapter EXCEPT !["default"] = IF @ = "none" THEN "fresh" ELSE @,
                                        !["other"] = IF got THEN "spent" ELSE "fresh"]
          /\ IF got
             THEN /\ \E d \in Devices : /\ Unborn(d) /\ Create(d, "other")
                                        /\ device' = [device EXCEPT !["other"] = d]
                  /\ UNCHANGED <<pc, outcome, late>>
             ELSE /\ LeaveBody("failed") /\ UNCHANGED device
                  /\ \/ NothingCreated /\ UNCHANGED late
                     \/ /\ Timeouts
                        /\ \E d \in Devices : /\ Unborn(d) /\ Create(d, "other")
                                             /\ late' = late \cup {d}
    /\ UNCHANGED <<instance, scoped, deviceLost, stage, attempt, file, current, uncaptured,
                   ran, last, scopes, owed, refused, pending, born, condemned, reported,
                   denied, erred, foreign>>

\* onUncapturedError: recorded on the current test, or dropped.
Record == uncaptured' = (uncaptured \/ current)

\* The test makes an error outside its own scopes.  A scope left open by an
\* earlier test takes it; a lost device makes no errors.
RaiseError ==
    /\ InBody /\ life[device[Slot]] = "live" /\ erred = "no"
    /\ IF scopes[device[Slot]] > 0
       THEN erred' = "swallowed" /\ UNCHANGED <<uncaptured, pending>>
       ELSE \/ Record /\ erred' = "recorded" /\ UNCHANGED pending
            \/ /\ LateErrors /\ erred' = "late" /\ UNCHANGED uncaptured
               /\ pending' = pending \cup {<<device[Slot], ran>>}
    /\ UNCHANGED <<cacheVars, pc, stage, attempt, file, current, outcome, ran, last,
                   life, home, slotOf, scopes, owed, refused, born, causes, foreign>>

\* expectValidationError pushes a scope, and an exception from its body passes
\* the pop by.
ThrowInScope(how) ==
    /\ InBody /\ ThrowingBodies /\ how \in {"failed", "skipped"}
    /\ scopes[device[Slot]] < MaxScopes
    /\ scopes' = [scopes EXCEPT ![device[Slot]] = @ + 1]
    /\ LeaveBody(how)
    /\ UNCHANGED <<cacheVars, stage, attempt, file, current, uncaptured, ran, last, life,
                   home, slotOf, owed, refused, pending, born, history>>

EndBody(how) ==
    /\ pc = "body" /\ how \in {"returned", "failed", "skipped"}
    /\ LeaveBody(how)
    /\ UNCHANGED <<cacheVars, stage, attempt, file, current, uncaptured, ran, last,
                   implVars, history>>

-----------------------------------------------------------------------------
(***************************************************************************)
(* finalize, setCurrentTest(nullptr), and the result.                      *)
(***************************************************************************)

\* Mutant: The recorded error is looked at only when the test threw.
StatusOfReturn == IF outcome = "skipped" THEN "Skip"
                  ELSE IF outcome = "failed" THEN "Fail" ELSE "Pass"

StatusOf == IF outcome = "skipped" THEN "Skip"
            ELSE IF uncaptured \/ outcome = "failed" THEN "Fail" ELSE "Pass"

\* Mutant: An exception skips finalize.
FinalizeOnReturn ==
    IF outcome = "returned" THEN Release("other")
    ELSE UNCHANGED <<life, pending, device, adapter>>

\* GpuTest::finalize, on every way out of the body.
Finalize == Release("other")

Finish ==
    /\ pc = "finish"
    /\ Finalize
    /\ current' = FALSE
    /\ last' = [status |-> StatusOf, left |-> outcome, error |-> erred, foreign |-> foreign]
    /\ outcome' = "none" /\ erred' = "no" /\ foreign' = FALSE /\ condemned' = {}
    /\ ran' = ran + 1 /\ pc' = "idle"
    /\ UNCHANGED <<instance, scoped, deviceLost, stage, attempt, file, uncaptured, home,
                   slotOf, scopes, owed, refused, born, reported, late, denied>>

-----------------------------------------------------------------------------
(***************************************************************************)
(* The implementation.                                                     *)
(***************************************************************************)

\* A driver reset, say.  Only the cached slots' requests gave a loss callback.
LoseDevice(d) ==
    /\ Losses /\ life[d] = "live"
    /\ life' = [life EXCEPT ![d] = "lost"]
    /\ owed' = IF slotOf[d] \in Cached THEN owed \cup {d} ELSE owed
    /\ UNCHANGED <<cacheVars, runVars, home, slotOf, scopes, refused, pending, born, history>>

\* onDeviceLost with a reason of the implementation's own (AllowSpontaneous).
ReportLoss(d) ==
    /\ d \in owed /\ pc # "done"
    /\ owed' = owed \ {d}
    /\ deviceLost' = TRUE
    /\ reported' = reported \cup {d}
    /\ UNCHANGED <<instance, adapter, device, scoped, runVars, life, home, slotOf, scopes,
                   refused, pending, born, condemned, late, denied, erred, foreign>>

\* onDeviceLost with reason FailedCreation, for a device nobody ever had.
ReportRefusal(i) ==
    /\ i \in refused /\ pc # "done"
    /\ refused' = refused \ {i}
    /\ deviceLost' = TRUE
    /\ UNCHANGED <<instance, adapter, device, scoped, runVars, life, home, slotOf, scopes,
                   owed, pending, born, history>>

\* The error of a test is recorded on the test that is current by now.
DeliverError(p) ==
    /\ p \in pending
    /\ pending' = pending \ {p}
    /\ Record
    /\ IF current /\ p[2] = ran THEN erred' = "recorded" ELSE UNCHANGED erred
    /\ foreign' = (foreign \/ (current /\ p[2] # ran))
    /\ UNCHANGED <<cacheVars, pc, stage, attempt, file, current, outcome, ran, last, life,
                   home, slotOf, scopes, owed, refused, born, causes>>

Environment ==
    \/ \E d \in Devices : LoseDevice(d) \/ ReportLoss(d)
    \/ \E i \in refused : ReportRefusal(i)
    \/ \E p \in pending : DeliverError(p)

Harness ==
    \/ \E f \in Files : RunCase(f)
    \/ StartTest \/ SkipUnimplemented \/ Exit \/ TearDown
    \/ EnterBody \/ EnsureAdapter \/ RequestGranted \/ RequestFailed \/ LimitsFailed
    \/ \E t \in Tags : UseScopedObject(t)
    \/ UseMismatched \/ RaiseError
    \/ \E how \in {"returned", "failed", "skipped"} : ThrowInScope(how) \/ EndBody(how)
    \/ Finish

Next == Harness \/ Environment

Spec == Init /\ [][Next]_vars

-----------------------------------------------------------------------------
(***************************************************************************)
(* Properties                                                              *)
(***************************************************************************)

\* How a test leaves its body, and what becomes of an error it makes.
Ways == {"none", "returned", "failed", "skipped"}
Fates == {"no", "swallowed", "late", "recorded"}

CacheTypes ==
    /\ instance \in 0..born
    /\ adapter \in [Slots -> {"none", "fresh", "spent"}]
    /\ device \in [Slots -> 0..MaxDevices]
    /\ scoped \in Seq([tag : Tags, device : Devices])
    /\ deviceLost \in BOOLEAN

RunnerTypes ==
    /\ pc \in {"idle", "start", "recycle", "init", "body", "finish", "exit", "done"}
    /\ stage \in 0..5 /\ attempt \in 1..AllAttempts
    /\ file \in Files \cup {"none"}
    /\ current \in BOOLEAN
    /\ current <=> pc \in {"init", "body", "finish"}
    /\ uncaptured \in BOOLEAN
    /\ outcome \in Ways
    /\ ran \in 0..MaxTests
    /\ last \in [status : {"none", "Pass", "Fail", "Skip"}, left : Ways,
                 error : Fates, foreign : BOOLEAN]

ImplementationTypes ==
    /\ life \in [Devices -> {"unborn", "live", "lost", "gone"}]
    /\ born \in Nat /\ home \in [Devices -> 0..born]
    /\ slotOf \in [Devices -> Slots]
    /\ scopes \in [Devices -> 0..MaxScopes]
    /\ owed \subseteq Devices /\ refused \subseteq 1..born
    /\ pending \subseteq Devices \X (0..MaxTests)

HistoryTypes ==
    /\ condemned \subseteq reported /\ reported \subseteq Devices
    /\ late \subseteq Devices /\ denied \in BOOLEAN
    /\ erred \in Fates /\ foreign \in BOOLEAN

\* Every variable has its type; the fixture is current exactly while it runs.
TypeOK == CacheTypes /\ RunnerTypes /\ ImplementationTypes /\ HistoryTypes

TearingDown == pc \in {"recycle", "exit"}

\* A test finds no cached object (a pipeline, a weights table) of a device
\* that is not its own: objects are kept by type alone, so only the releases
\* at a file's end and at a recycle keep the two fixture types, and a rebuilt
\* device, apart (harness.cpp deviceScopedObject, runner.cpp runCase).
ObjectsAreOfTheTestsDevice ==
    InBody => \A i \in 1..Len(scoped) : scoped[i].device = device[Slot]

\* "All stored objects are destroyed before the cached devices are released"
\* (gpu.h:24-27): none outlives its device, through recycles and the exit.
ObjectsDieFirst == \A i \in 1..Len(scoped) : life[scoped[i].device] # "gone"

\* A device whose loss was reported before a test began serves that test in
\* neither slot, whatever callbacks run during the teardown (setCurrentTest).
LostDevicesAreRetired == current => \A s \in Cached : device[s] \notin condemned

\* A recycle begins only if, on the present instance, a device was lost or a
\* request for one refused: the callbacks that run while the cache is torn down
\* never cause a second one (teardownDevices resets the flag last).
NoForcedRecycle ==
    pc = "recycle" /\ stage = 1 =>
        \/ \E d \in Devices : home[d] = instance /\ life[d] = "lost"
        \/ denied

\* The cached devices were requested on the cached instance, the one every
\* wait pumps (processEventsUntil(cache().instance, ...)).
DevicesShareTheInstance ==
    ~TearingDown => \A s \in Slots : device[s] # 0 => home[device[s]] = instance

\* A consumed adapter is kept only with the device it gave: otherwise every
\* later request of the process fails, the "adapter consumed" cascade that
\* harness.cpp:366-369 says is prevented.
AdapterHasItsDevice ==
    ~TearingDown => \A s \in Cached : adapter[s] = "spent" => device[s] # 0

\* Between tests the only devices held are the cached ones and those that came
\* too late for anybody to hold: finalize runs on every way out of a body
\* (runOne), and a recycle drops both slots.
NothingLeaks ==
    pc = "idle" => \A d \in Devices :
        life[d] \in {"live", "lost"} => d \in late \/ \E s \in Cached : device[s] = d

\* A test fails for something that came to pass while it ran: it threw, or an
\* error was recorded on it, its own or one an earlier test left behind.  What
\* was recorded on another fixture never counts (runOne makes each test its own).
FailuresAreExplained ==
    last.status = "Fail" =>
        last.left = "failed" \/ last.error = "recorded" \/ last.foreign

\* An error recorded on the test that made it, in the call or later while that
\* test still ran, makes it Fail on every way out of its body but a skip, which
\* stays a Skip (the four ways out of runOne).
RecordedErrorsCount ==
    last.error = "recorded" =>
        last.status = IF last.left = "skipped" THEN "Skip" ELSE "Fail"

\* "The runner checks the recorded state after the drain point (after fn() /
\* finalize()) and turns an unexpected pending error into a Fail"
\* (docs/03-webgpu-c-abstraction.md:245-246, and 222-224 likewise).  The code
\* does not: runOne returns Skip without a look at what was recorded.
ErrorsFailTheTest == last.error = "recorded" => last.status = "Fail"
=============================================================================
