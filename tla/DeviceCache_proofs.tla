------------------------- MODULE DeviceCache_proofs -------------------------
(***************************************************************************)
(* Proofs about DeviceCache for any number of tests and devices.  The      *)
(* inductive invariant says what a cached handle is (Handles), how far a   *)
(* teardown has come (Stages), whose the device-scoped objects are         *)
(* (Objects) and what the loss flag knows (FlagTells).  Two more say which *)
(* errors a fixture has recorded (Accounts) and, where every answer comes  *)
(* within its wait, who holds each device (Punctual).                      *)
(***************************************************************************)
EXTENDS DeviceCache, TLAPS

Running ==
    pc \in {"start", "recycle", "init", "body", "finish"} =>
        ran < MaxTests /\ file \in Files

(* A handle in a slot was made for that slot, on the present instance, and  *)
(* is not released; nothing is owed by a device that was never made.        *)
Handles ==
    /\ \A s \in Slots : device[s] # 0 =>
          /\ life[device[s]] \in {"live", "lost"}
          /\ slotOf[device[s]] = s /\ home[device[s]] = instance
          /\ adapter[s] # "none"
    /\ \A s \in Slots : adapter[s] # "none" => instance # 0
    /\ adapter["other"] # "none" => pc \in {"body", "finish"}
    /\ InBody => device[Slot] # 0
    /\ \A d \in Devices : life[d] = "unborn" => d \notin owed \cup reported

Stages ==
    /\ TearingDown <=> stage # 0
    /\ pc = "exit" => stage < 5
    /\ stage > 1 \/ pc = "done" => scoped = <<>>
    /\ stage > 2 \/ pc = "done" => adapter["all"] = "none"
    /\ stage > 3 \/ pc = "done" => adapter["default"] = "none"
    /\ stage > 4 \/ pc = "done" => instance = 0

(* Objects in the cache are of the device the present file's tests use. *)
Objects ==
    scoped # <<>> =>
        /\ file \in Files /\ Slot \in Cached /\ device[Slot] # 0
        /\ \A i \in 1..Len(scoped) : scoped[i].device = device[Slot]

(* The flag is set as long as a device reported lost is cached. *)
FlagTells ==
    /\ \A s \in Cached : device[s] \in reported => deviceLost
    /\ current => \A s \in Cached : device[s] \notin condemned

IInv == TypeOK /\ Running /\ Handles /\ Stages /\ Objects /\ FlagTells

-----------------------------------------------------------------------------
LEMMA Teardown ==
  /\ Len(TeardownOrder) = 5
  /\ TeardownOrder[1] = "objects" /\ TeardownOrder[2] = "all"
  /\ TeardownOrder[3] = "default" /\ TeardownOrder[4] = "instance"
  /\ TeardownOrder[5] = "flags"
BY DEF TeardownOrder


LEMMA InitIInv == Init => IInv
<1> SUFFICES ASSUME Init PROVE IInv
  OBVIOUS
<1> USE CacheAssumption DEF Init
<1>1. CacheTypes /\ HistoryTypes
  <2>1. scoped \in Seq([tag : Tags, device : Devices])
    OBVIOUS
  <2>2. device \in [Slots -> 0..MaxDevices] /\ instance \in 0..born
    OBVIOUS
  <2> QED
    BY <2>1, <2>2 DEF CacheTypes, HistoryTypes, Fates
<1>2. RunnerTypes
  <2>1. /\ pc = "idle" /\ stage \in 0..5 /\ attempt \in 1..AllAttempts
        /\ ran \in 0..MaxTests
    OBVIOUS
  <2>2. last \in [status : {"none", "Pass", "Fail", "Skip"}, left : Ways,
                  error : Fates, foreign : BOOLEAN]
    BY DEF NoResult, Ways, Fates
  <2>3. file \in Files \cup {"none"} /\ outcome \in Ways
    BY DEF Ways
  <2>4. /\ uncaptured \in BOOLEAN /\ current \in BOOLEAN
        /\ current <=> pc \in {"init", "body", "finish"}
    OBVIOUS
  <2> QED
    BY <2>1, <2>2, <2>3, <2>4 DEF RunnerTypes
<1>3. ImplementationTypes
  BY DEF ImplementationTypes, Slots
<1>4. Running /\ Handles /\ Stages
  BY DEF Running, Handles, Stages, TearingDown, InBody, Slots
<1>5. Objects /\ FlagTells
  BY DEF Objects, FlagTells, Cached
<1> QED
  BY <1>1, <1>2, <1>3, <1>4, <1>5 DEF IInv, TypeOK

(* The steps that only move the runner on. *)
LEMMA QuietSteps ==
  ASSUME IInv,
         \/ \E f \in Files : RunCase(f)
         \/ StartTest \/ SkipUnimplemented \/ Exit \/ EnterBody \/ LimitsFailed
         \/ \E how \in {"returned", "failed", "skipped"} : EndBody(how)
  PROVE  IInv'
<1> USE CacheAssumption DEF IInv, TypeOK, cacheVars, runVars, implVars, history, causes
<1>1. ASSUME NEW f \in Files, RunCase(f) PROVE IInv'
  <2>1. CacheTypes' /\ RunnerTypes'
    BY <1>1 DEF RunCase, KeptObjects, CacheTypes, RunnerTypes, Running, NoResult, Ways, Fates
  <2>2. ImplementationTypes' /\ HistoryTypes'
    BY <1>1 DEF RunCase, KeptObjects, ImplementationTypes, HistoryTypes
  <2>3. Running' /\ Handles' /\ Stages'
    BY <1>1 DEF RunCase, KeptObjects, RunnerTypes, Running, Handles, Stages,
        TearingDown, InBody, Slot
  <2>4. Objects' /\ FlagTells'
    BY <1>1 DEF RunCase, KeptObjects, RunnerTypes, HistoryTypes, Objects, FlagTells, Slot, Cached
  <2> QED
    BY <2>1, <2>2, <2>3, <2>4
<1>2. CASE StartTest
  <2>1. /\ pc = "start" /\ condemned' = reported
        /\ UNCHANGED <<cacheVars, attempt, file, outcome, ran, last, implVars, reported,
                       late, denied, erred, foreign>>
    BY <1>2 DEF StartTest
  <2>2. uncaptured' \in BOOLEAN
    BY <1>2 DEF StartTest, FreshFixture
  <2>3. \/ deviceLost /\ pc' = "recycle" /\ stage' = 1 /\ current' = current
        \/ ~deviceLost /\ pc' = "init" /\ stage' = stage /\ current' = TRUE
    BY <1>2 DEF StartTest, MustRecycle
  <2>4. /\ pc' \in {"recycle", "init"} /\ stage' \in 0..5 /\ current' \in BOOLEAN
        /\ current' <=> pc' \in {"init", "body", "finish"}
    <3>1. CASE pc' = "recycle"
      BY <3>1, <2>1, <2>3 DEF RunnerTypes
    <3>2. CASE pc' = "init"
      BY <3>2, <2>1, <2>3 DEF RunnerTypes
    <3> QED
      BY <3>1, <3>2, <2>3
  <2>5. RunnerTypes'
    BY <2>1, <2>2, <2>4 DEF RunnerTypes
  <2>6. CacheTypes' /\ ImplementationTypes' /\ HistoryTypes'
    BY <2>1, <2>2 DEF CacheTypes, ImplementationTypes, HistoryTypes
  <2>7. Running' /\ Handles' /\ Stages' /\ Objects'
    BY <2>1, <2>3 DEF RunnerTypes, Running, Handles, Stages, Objects, TearingDown, InBody, Slot
  <2>8. FlagTells'
    BY <2>1, <2>3, <2>4 DEF FlagTells
  <2> QED
    BY <2>5, <2>6, <2>7, <2>8
<1>3. CASE SkipUnimplemented
  <2>1. CacheTypes' /\ RunnerTypes'
    BY <1>3 DEF SkipUnimplemented, CacheTypes, RunnerTypes, Running, Ways, Fates
  <2>2. ImplementationTypes' /\ HistoryTypes'
    BY <1>3 DEF SkipUnimplemented, ImplementationTypes, HistoryTypes
  <2>3. Running' /\ Handles' /\ Stages'
    BY <1>3 DEF SkipUnimplemented, RunnerTypes, Running, Handles, Stages,
        TearingDown, InBody, Slot
  <2>4. Objects' /\ FlagTells'
    BY <1>3 DEF SkipUnimplemented, RunnerTypes, HistoryTypes, Objects, FlagTells, Slot, Cached
  <2> QED
    BY <2>1, <2>2, <2>3, <2>4
<1>4. CASE Exit
  <2>1. CacheTypes' /\ RunnerTypes'
    BY <1>4 DEF Exit, CacheTypes, RunnerTypes, Running
  <2>2. ImplementationTypes' /\ HistoryTypes'
    BY <1>4 DEF Exit, ImplementationTypes, HistoryTypes
  <2>3. Running' /\ Handles' /\ Stages'
    BY <1>4 DEF Exit, RunnerTypes, Running, Handles, Stages,
        TearingDown, InBody, Slot
  <2>4. Objects' /\ FlagTells'
    BY <1>4 DEF Exit, RunnerTypes, HistoryTypes, Objects, FlagTells, Slot, Cached
  <2> QED
    BY <2>1, <2>2, <2>3, <2>4
<1>5. CASE EnterBody
  <2>1. CacheTypes' /\ RunnerTypes'
    BY <1>5 DEF EnterBody, CacheTypes, RunnerTypes, Running
  <2>2. ImplementationTypes' /\ HistoryTypes'
    BY <1>5 DEF EnterBody, ImplementationTypes, HistoryTypes
  <2>3. Running' /\ Handles' /\ Stages'
    BY <1>5 DEF EnterBody, RunnerTypes, Running, Handles, Stages,
        TearingDown, InBody, Slot
  <2>4. Objects' /\ FlagTells'
    BY <1>5 DEF EnterBody, RunnerTypes, HistoryTypes, Objects, FlagTells, Slot, Cached
  <2> QED
    BY <2>1, <2>2, <2>3, <2>4
<1>6. CASE LimitsFailed
  <2>1. CacheTypes' /\ RunnerTypes'
    BY <1>6 DEF LimitsFailed, LeaveBody, CacheTypes, RunnerTypes, Running, Ways
  <2>2. ImplementationTypes' /\ HistoryTypes'
    BY <1>6 DEF LimitsFailed, LeaveBody, ImplementationTypes, HistoryTypes
  <2>3. Running' /\ Handles' /\ Stages'
    BY <1>6 DEF LimitsFailed, LeaveBody, RunnerTypes, Running, Handles, Stages,
        TearingDown, InBody, Slot
  <2>4. Objects' /\ FlagTells'
    BY <1>6 DEF LimitsFailed, LeaveBody, RunnerTypes, HistoryTypes, Objects, FlagTells, Slot, Cached
  <2> QED
    BY <2>1, <2>2, <2>3, <2>4
<1>7. ASSUME NEW how \in {"returned", "failed", "skipped"}, EndBody(how) PROVE IInv'
  <2>1. CacheTypes' /\ RunnerTypes'
    BY <1>7 DEF EndBody, LeaveBody, CacheTypes, RunnerTypes, Running, Ways
  <2>2. ImplementationTypes' /\ HistoryTypes'
    BY <1>7 DEF EndBody, LeaveBody, ImplementationTypes, HistoryTypes
  <2>3. Running' /\ Handles' /\ Stages'
    BY <1>7 DEF EndBody, LeaveBody, RunnerTypes, Running, Handles, Stages,
        TearingDown, InBody, Slot
  <2>4. Objects' /\ FlagTells'
    BY <1>7 DEF EndBody, LeaveBody, RunnerTypes, HistoryTypes, Objects, FlagTells, Slot, Cached
  <2> QED
    BY <2>1, <2>2, <2>3, <2>4
<1> QED
  BY <1>1, <1>2, <1>3, <1>4, <1>5, <1>6, <1>7

(* A part of the teardown is followed by the next one, or by the fixture's   *)
(* init, or by the end of the process.                                       *)
LEMMA StageSteps ==
  ASSUME IInv, TearingDown, NextStage,
         UNCHANGED <<attempt, file, uncaptured, outcome, ran, last>>
  PROVE  /\ \/ /\ stage < 5 /\ (pc = "exit" => stage < 4)
               /\ stage' = stage + 1 /\ pc' = pc
            \/ stage = 5 /\ stage' = 0 /\ pc = "recycle" /\ pc' = "init"
            \/ stage = 4 /\ stage' = 0 /\ pc = "exit" /\ pc' = "done"
         /\ RunnerTypes' /\ Running'
<1> USE DEF IInv, TypeOK
<1>1. pc \in {"recycle", "exit"} /\ stage \in 1..5 /\ (pc = "exit" => stage < 5) /\ ~current
  BY DEF TearingDown, RunnerTypes, Stages
<1>2. LastStage = IF pc = "recycle" THEN 5 ELSE 4
  BY Teardown DEF LastStage
<1>3. CASE stage < LastStage
  <2>1. stage' = stage + 1 /\ pc' = pc /\ current' = current
    BY <1>3 DEF NextStage
  <2> QED
    BY <1>1, <1>2, <1>3, <2>1 DEF RunnerTypes, Running
<1>4. CASE ~(stage < LastStage)
  <2>1. stage' = 0 /\ pc' = (IF pc = "recycle" THEN "init" ELSE "done")
    BY <1>4 DEF NextStage
  <2>2. current' = (pc = "recycle")
    BY <1>4 DEF NextStage
  <2>3. CASE pc = "recycle"
    <3>1. current' = TRUE
      BY <2>2, <2>3
    <3>2. pc' = "init" /\ stage = 5
      BY <1>1, <1>2, <1>4, <2>1, <2>3
    <3> QED
      BY <2>1, <2>3, <3>1, <3>2 DEF RunnerTypes, Running
  <2>4. CASE pc = "exit"
    <3>1. current' = FALSE
      BY <2>2, <2>4
    <3>2. pc' = "done" /\ stage = 4
      BY <1>1, <1>2, <1>4, <2>1, <2>4
    <3>3. /\ current' \in BOOLEAN
          /\ current' <=> pc' \in {"init", "body", "finish"}
      BY <3>1, <3>2
    <3>4. RunnerTypes'
      BY <2>1, <3>2, <3>3 DEF RunnerTypes
    <3> QED
      BY <2>1, <2>4, <3>2, <3>4 DEF Running
  <2> QED
    BY <1>1, <2>3, <2>4
<1> QED
  BY <1>3, <1>4

(* What is still held when a part of the teardown begins. *)
LEMMA AtPart ==
  ASSUME IInv, NEW what, At(what)
  PROVE  /\ TearingDown /\ adapter["other"] = "none" /\ device["other"] = 0
         /\ what \in {"objects", "all", "default", "instance", "flags"}
         /\ what = "objects"  <=> stage = 1
         /\ what = "all"      <=> stage = 2
         /\ what = "default"  <=> stage = 3
         /\ what = "instance" <=> stage = 4
         /\ what = "flags"    <=> stage = 5
<1>1. TearingDown /\ adapter["other"] = "none" /\ device["other"] = 0
  BY DEF IInv, At, TearingDown, Handles, Slots
<1>2. stage \in 1..5
  BY <1>1 DEF IInv, TypeOK, RunnerTypes, Stages
<1> QED
  BY <1>1, <1>2, Teardown DEF At

(* The teardown: each part releases what the later parts no longer need.    *)
LEMMA TeardownSteps ==
  ASSUME IInv, TearDown
  PROVE  IInv'
<1> USE CacheAssumption DEF IInv, TypeOK, implVars, history, causes
<1>0. 0 \notin reported
  BY DEF HistoryTypes, Devices
<1>1. CASE DropObjects
  <2>1. /\ scoped' = <<>> /\ NextStage /\ TearingDown /\ stage = 1
        /\ UNCHANGED <<instance, adapter, device, deviceLost, attempt, file, uncaptured,
                       outcome, ran, last, implVars, history>>
    BY <1>1, AtPart DEF DropObjects
  <2>2. RunnerTypes' /\ Running' /\ stage' = 2 /\ pc' = pc
    BY <2>1, StageSteps
  <2>3. CacheTypes' /\ ImplementationTypes' /\ HistoryTypes'
    <3>1. CacheTypes'
      BY <2>1 DEF CacheTypes
    <3>2. ImplementationTypes'
      BY <2>1 DEF ImplementationTypes
    <3>3. HistoryTypes'
      BY <2>1 DEF HistoryTypes
    <3> QED
      BY <3>1, <3>2, <3>3
  <2>4. Handles' /\ Stages'
    BY <2>1, <2>2 DEF Handles, Stages, TearingDown, InBody, Slot
  <2>5. Objects' /\ FlagTells'
    BY <2>1, <2>2 DEF Objects, FlagTells, RunnerTypes, TearingDown
  <2> QED
    BY <2>2, <2>3, <2>4, <2>5
<1>2. ASSUME NEW s \in Cached, DropSlot(s) PROVE IInv'
  <2>0. /\ At(s) /\ TearingDown /\ adapter["other"] = "none"
        /\ stage = IF s = "all" THEN 2 ELSE 3
    <3>1. At(s)
      BY <1>2 DEF DropSlot
    <3> QED
      BY <3>1, AtPart DEF Cached
  <2>1. /\ NextStage
        /\ UNCHANGED <<instance, scoped, deviceLost, attempt, file, uncaptured, outcome,
                       ran, last, home, slotOf, scopes, owed, refused, born, history>>
    BY <1>2 DEF DropSlot
  <2>2. /\ life' = IF device[s] = 0 THEN life ELSE [life EXCEPT ![device[s]] = "gone"]
        /\ pending' \subseteq pending
        /\ device' = [device EXCEPT ![s] = 0] /\ adapter' = [adapter EXCEPT ![s] = "none"]
    BY <1>2 DEF DropSlot, Release
  <2>3. RunnerTypes' /\ Running' /\ stage' = stage + 1 /\ pc' = pc
    BY <2>0, <2>1, StageSteps
  <2>4. CacheTypes' /\ ImplementationTypes' /\ HistoryTypes'
    <3>1. CacheTypes'
      <4>0. 0 \in 0..MaxDevices
        OBVIOUS
      <4>1. device' \in [Slots -> 0..MaxDevices]
        BY <2>2, <4>0 DEF CacheTypes
      <4>2. adapter' \in [Slots -> {"none", "fresh", "spent"}]
        BY <2>2 DEF CacheTypes
      <4> QED
        BY <2>1, <4>1, <4>2 DEF CacheTypes
    <3>2. life' \in [Devices -> {"unborn", "live", "lost", "gone"}]
      BY <2>2 DEF ImplementationTypes
    <3>3. ImplementationTypes'
      BY <2>1, <2>2, <3>2 DEF ImplementationTypes
    <3> QED
      BY <2>1, <3>1, <3>3 DEF HistoryTypes
  <2>5. Handles'
    BY <2>0, <2>1, <2>2, <2>3 DEF Handles, CacheTypes, ImplementationTypes, HistoryTypes,
                            TearingDown, InBody, Slots, Cached, Devices
  <2>6. Stages'
    <3>1. adapter' = [t \in Slots |-> IF t = s THEN "none" ELSE adapter[t]]
      BY <2>2 DEF CacheTypes
    <3>2. stage' > 2 => adapter'["all"] = "none"
      BY <2>0, <2>3, <3>1 DEF Stages, RunnerTypes, Slots, Cached
    <3>3. stage' > 3 => adapter'["default"] = "none"
      BY <2>0, <2>3, <3>1 DEF Stages, RunnerTypes, Slots, Cached
    <3> QED
      BY <2>0, <2>1, <2>3, <3>2, <3>3 DEF Stages, RunnerTypes, TearingDown
  <2>7. Objects' /\ FlagTells'
    BY <1>0, <2>0, <2>1, <2>2, <2>3 DEF Objects, Stages, FlagTells, CacheTypes, RunnerTypes,
                            TearingDown, Slots, Cached
  <2> QED
    BY <2>3, <2>4, <2>5, <2>6, <2>7
<1>3. CASE DropInstance
  <2>1. /\ NextStage /\ TearingDown /\ stage = 4 /\ adapter["other"] = "none"
        /\ instance' = 0
        /\ UNCHANGED <<adapter, device, scoped, deviceLost, attempt, file, uncaptured,
                       outcome, ran, last, life, home, slotOf, scopes, pending, born,
                       condemned, reported, late, erred, foreign>>
    BY <1>3, AtPart DEF DropInstance
  <2>2. RunnerTypes' /\ Running' /\ pc' # "body" /\ current' = FALSE
        /\ \/ stage' = 5 /\ pc' = pc /\ pc = "recycle"
           \/ stage' = 0 /\ pc' = "done" /\ pc = "exit"
    BY <2>1, StageSteps DEF RunnerTypes, TearingDown
  <2>3. owed' \subseteq owed /\ refused' \subseteq refused /\ denied' = FALSE
    BY <1>3 DEF DropInstance
  <2>4. \A s \in Slots : adapter[s] = "none" /\ device[s] = 0
    BY <2>1 DEF Handles, Stages, Slots
  <2>5. CacheTypes' /\ ImplementationTypes' /\ HistoryTypes'
    <3>1. CacheTypes' /\ ImplementationTypes'
      BY <2>1, <2>3 DEF CacheTypes, ImplementationTypes
    <3>2. HistoryTypes'
      BY <2>1, <2>3 DEF HistoryTypes
    <3> QED
      BY <3>1, <3>2
  <2>6. Handles'
    BY <2>1, <2>2, <2>3, <2>4 DEF Handles, InBody
  <2>7. Stages'
    BY <2>1, <2>2, <2>4 DEF Stages, TearingDown, Slots
  <2>8. Objects' /\ FlagTells'
    BY <2>1, <2>2 DEF Objects, Stages, FlagTells
  <2> QED
    BY <2>2, <2>5, <2>6, <2>7, <2>8
<1>4. CASE ResetFlags
  <2>1. /\ NextStage /\ TearingDown /\ stage = 5
        /\ deviceLost' = FALSE
        /\ UNCHANGED <<instance, adapter, device, scoped, attempt, file, uncaptured,
                       outcome, ran, last, implVars, history>>
    BY <1>4, AtPart DEF ResetFlags
  <2>2. RunnerTypes' /\ Running' /\ pc' = "init" /\ stage' = 0
    BY <2>1, StageSteps DEF Stages, TearingDown
  <2>3. \A s \in Cached : device[s] = 0
    BY <2>1 DEF Handles, Stages, Slots, Cached
  <2>4. CacheTypes' /\ ImplementationTypes' /\ HistoryTypes'
    <3>1. CacheTypes'
      BY <2>1 DEF CacheTypes
    <3>2. ImplementationTypes'
      BY <2>1 DEF ImplementationTypes
    <3>3. HistoryTypes'
      BY <2>1 DEF HistoryTypes
    <3> QED
      BY <3>1, <3>2, <3>3
  <2>5. Handles' /\ Stages'
    BY <2>1, <2>2 DEF Handles, Stages, InBody, TearingDown
  <2>6. Objects' /\ FlagTells'
    BY <1>0, <2>1, <2>2, <2>3 DEF Objects, Stages, FlagTells, HistoryTypes
  <2> QED
    BY <2>2, <2>4, <2>5, <2>6
<1> QED
  BY <1>1, <1>2, <1>3, <1>4 DEF TearDown

(* What a device newly made leaves as it was.                               *)
LEMMA NewDevice ==
  ASSUME IInv, NEW d \in Devices, NEW s \in Slots, Unborn(d), Create(d, s),
         UNCHANGED <<born, scopes, owed, pending>>, refused' \subseteq 1..born
  PROVE  /\ ImplementationTypes'
         /\ d \notin owed \cup reported /\ d # 0
         /\ life'[d] = "live" /\ slotOf'[d] = s /\ home'[d] = instance
         /\ \A e \in Devices : e # d =>
               life'[e] = life[e] /\ slotOf'[e] = slotOf[e] /\ home'[e] = home[e]
         /\ \A t \in Slots : device[t] # d
         /\ \A e \in Devices : life'[e] = "unborn" => life[e] = "unborn"
<1> USE DEF IInv, TypeOK
<1>1. life[d] = "unborn" /\ d # 0
  BY DEF Unborn, Devices
<1>2. /\ life' = [life EXCEPT ![d] = "live"] /\ slotOf' = [slotOf EXCEPT ![d] = s]
      /\ home' = [home EXCEPT ![d] = instance]
  BY DEF Create
<1>3. ImplementationTypes'
  BY <1>2 DEF ImplementationTypes, CacheTypes
<1>4. d \notin owed \cup reported /\ \A t \in Slots : device[t] # d
  BY <1>1 DEF Handles
<1> QED
  BY <1>1, <1>2, <1>3, <1>4 DEF ImplementationTypes

(* A body that ends leaves the types of the runner's state as they are. *)
LEMMA BodyEnds ==
  ASSUME IInv, NEW how \in {"returned", "failed", "skipped"}, pc \in {"init", "body"},
         LeaveBody(how), attempt' \in 1..AllAttempts,
         UNCHANGED <<stage, file, current, uncaptured, ran, last>>
  PROVE  RunnerTypes' /\ Running' /\ pc' = "finish"
BY DEF IInv, TypeOK, RunnerTypes, Running, LeaveBody, Ways

(* The fixture's init: only an empty slot is filled, so no object is cached. *)
LEMMA RequestSteps ==
  ASSUME IInv, EnsureAdapter \/ RequestGranted \/ RequestFailed
  PROVE  IInv'
<1> USE CacheAssumption DEF IInv, TypeOK, history, causes
<1>0. /\ pc = "init" /\ Slot \in Cached /\ device[Slot] = 0 /\ scoped = <<>>
      /\ Slot \in Slots /\ Slot # "other"
  BY DEF EnsureAdapter, RequestGranted, RequestFailed, Objects, Cached, Slots
<1>1. CASE EnsureAdapter
  <2>1. /\ adapter[Slot] = "none"
        /\ UNCHANGED <<device, scoped, deviceLost, stage, attempt, file, current, uncaptured,
                       ran, last, life, home, slotOf, scopes, owed, refused, pending, history>>
    BY <1>1 DEF EnsureAdapter
  <2>2. /\ instance' \in 1..born' /\ born' \in Nat /\ born' >= born
        /\ instance # 0 => instance' = instance
    BY <1>1 DEF EnsureAdapter, EnsureInstance, CacheTypes, ImplementationTypes
  <2>3. \/ adapter' = [adapter EXCEPT ![Slot] = "fresh"] /\ UNCHANGED <<pc, outcome>>
        \/ LeaveBody("failed") /\ UNCHANGED adapter
    BY <1>1 DEF EnsureAdapter
  <2>4. RunnerTypes' /\ Running' /\ pc' \in {"init", "finish"}
    <3>1. CASE UNCHANGED <<pc, outcome>>
      BY <1>0, <2>1, <3>1 DEF RunnerTypes, Running
    <3>2. CASE LeaveBody("failed")
      BY <1>0, <2>1, <3>2, BodyEnds DEF RunnerTypes
    <3> QED
      BY <2>3, <3>1, <3>2
  <2>5. CacheTypes' /\ ImplementationTypes' /\ HistoryTypes'
    <3>1. adapter' \in [Slots -> {"none", "fresh", "spent"}]
      BY <2>3 DEF CacheTypes
    <3>2. home' \in [Devices -> 0..born']
      BY <2>1, <2>2 DEF ImplementationTypes
    <3> QED
      BY <2>1, <2>2, <3>1, <3>2 DEF CacheTypes, ImplementationTypes, HistoryTypes
  <2>6. \A s \in Slots : /\ adapter'[s] # adapter[s] => s = Slot
                         /\ adapter[s] # "none" => adapter'[s] # "none"
    BY <1>0, <2>1, <2>3 DEF CacheTypes
  <2>7. Handles'
    BY <1>0, <2>1, <2>2, <2>4, <2>6 DEF Handles, Slots, InBody, Slot
  <2>8. Stages'
    BY <1>0, <2>1, <2>4 DEF Stages, TearingDown
  <2>9. Objects' /\ FlagTells'
    BY <1>0, <2>1 DEF Objects, FlagTells, RunnerTypes
  <2> QED
    BY <2>4, <2>5, <2>7, <2>8, <2>9
<1>2. CASE RequestGranted
  <2>1. PICK d \in Devices : /\ Unborn(d) /\ Create(d, Slot)
                             /\ device' = [device EXCEPT ![Slot] = d]
    BY <1>2 DEF RequestGranted
  <2>2. /\ adapter' = [adapter EXCEPT ![Slot] = "spent"] /\ adapter[Slot] = "fresh"
        /\ attempt' = 1
        /\ UNCHANGED <<instance, scoped, deviceLost, pc, stage, file, current, uncaptured,
                       outcome, ran, last, scopes, owed, refused, pending, born, history>>
    BY <1>2 DEF RequestGranted
  <2>3. /\ ImplementationTypes'
        /\ d \notin owed \cup reported /\ d # 0
        /\ life'[d] = "live" /\ slotOf'[d] = Slot /\ home'[d] = instance
        /\ \A e \in Devices : e # d =>
              life'[e] = life[e] /\ slotOf'[e] = slotOf[e] /\ home'[e] = home[e]
        /\ \A t \in Slots : device[t] # d
        /\ \A e \in Devices : life'[e] = "unborn" => life[e] = "unborn"
    <3>1. refused' \subseteq 1..born
      BY <2>2 DEF ImplementationTypes
    <3> QED
      BY <1>0, <2>1, <2>2, <3>1, NewDevice
  <2>4. RunnerTypes' /\ Running'
    BY <2>2 DEF RunnerTypes, Running
  <2>5. CacheTypes' /\ HistoryTypes'
    <3>1. device' \in [Slots -> 0..MaxDevices]
      <4>1. d \in 0..MaxDevices
        BY DEF Devices
      <4> QED
        BY <2>1, <4>1 DEF CacheTypes
    <3>2. adapter' \in [Slots -> {"none", "fresh", "spent"}]
      BY <2>2 DEF CacheTypes
    <3> QED
      BY <2>2, <3>1, <3>2 DEF CacheTypes, HistoryTypes
  <2>6. \A s \in Slots : IF s = Slot THEN device'[s] = d /\ adapter'[s] = "spent"
                         ELSE device'[s] = device[s] /\ adapter'[s] = adapter[s]
    BY <1>0, <2>1, <2>2 DEF CacheTypes
  <2>7. Handles'
    <3>1. ASSUME NEW s \in Slots, device'[s] # 0
          PROVE  /\ life'[device'[s]] \in {"live", "lost"}
                 /\ slotOf'[device'[s]] = s /\ home'[device'[s]] = instance'
                 /\ adapter'[s] # "none"
      BY <2>2, <2>3, <2>6, <3>1 DEF Handles, CacheTypes, Devices
    <3>2. \A s \in Slots : adapter'[s] # "none" => instance' # 0
      BY <1>0, <2>2, <2>6 DEF Handles
    <3>3. \A e \in Devices : life'[e] = "unborn" => e \notin owed' \cup reported'
      BY <2>2, <2>3 DEF Handles
    <3>4. adapter'["other"] # "none" => pc' \in {"body", "finish"}
      BY <1>0, <2>2, <2>6 DEF Handles, Slots
    <3> QED
      BY <1>0, <2>2, <3>1, <3>2, <3>3, <3>4 DEF Handles, InBody
  <2>8. Stages'
    BY <1>0, <2>2 DEF Stages, TearingDown
  <2>9. Objects' /\ FlagTells'
    BY <1>0, <2>2, <2>3, <2>6 DEF Objects, FlagTells, HistoryTypes, Cached, Slots
  <2> QED
    BY <2>3, <2>4, <2>5, <2>7, <2>8, <2>9
<1>3. CASE RequestFailed
  <2>1. /\ adapter[Slot] # "none"
        /\ IF attempt < Attempts(Slot)
           THEN attempt' = attempt + 1 /\ UNCHANGED <<pc, outcome>>
           ELSE attempt' = 1 /\ LeaveBody("failed")
        /\ UNCHANGED <<instance, device, scoped, deviceLost, stage, file, current,
                       uncaptured, ran, last, scopes, owed, pending, born, condemned,
                       reported, erred, foreign>>
    BY <1>3 DEF RequestFailed
  <2>2. /\ \/ NothingCreated /\ UNCHANGED adapter
           \/ /\ \E d \in Devices : Unborn(d) /\ Create(d, Slot)
              /\ adapter' = [adapter EXCEPT ![Slot] = "spent"]
        /\ late' \subseteq Devices /\ denied' \in BOOLEAN
    BY <1>3 DEF RequestFailed, Refused, TimedOut, HistoryTypes
  <2>2a. refused' \subseteq refused \cup {instance} /\ instance \in 1..born
    <3>1. instance # 0
      BY <1>0, <2>1 DEF Handles
    <3> QED
      BY <1>3, <3>1 DEF RequestFailed, Refused, TimedOut, CacheTypes, ImplementationTypes
  <2>3. /\ ImplementationTypes'
        /\ \A e \in Devices : life[e] # "unborn" =>
              life'[e] = life[e] /\ slotOf'[e] = slotOf[e] /\ home'[e] = home[e]
        /\ \A e \in Devices : life'[e] = "unborn" => life[e] = "unborn"
    <3>1. CASE NothingCreated
      BY <2>1, <2>2a, <3>1 DEF NothingCreated, ImplementationTypes
    <3>2. ASSUME NEW d \in Devices, Unborn(d), Create(d, Slot)
          PROVE  /\ ImplementationTypes'
                 /\ \A e \in Devices : life[e] # "unborn" =>
                       life'[e] = life[e] /\ slotOf'[e] = slotOf[e] /\ home'[e] = home[e]
                 /\ \A e \in Devices : life'[e] = "unborn" => life[e] = "unborn"
      <4>1. refused' \subseteq 1..born
        BY <2>2a DEF ImplementationTypes
      <4> QED
        BY <1>0, <2>1, <3>2, <4>1, NewDevice DEF Unborn
    <3> QED
      BY <2>2, <3>1, <3>2
  <2>4. RunnerTypes' /\ Running' /\ pc' \in {"init", "finish"}
    <3>1. CASE attempt < Attempts(Slot)
      <4>1. attempt' \in 1..AllAttempts /\ UNCHANGED <<pc, outcome>>
        BY <2>1, <3>1 DEF Attempts, RunnerTypes
      <4> QED
        BY <1>0, <2>1, <4>1 DEF RunnerTypes, Running
    <3>2. CASE ~(attempt < Attempts(Slot))
      <4>1. attempt' \in 1..AllAttempts /\ LeaveBody("failed")
        BY <2>1, <3>2
      <4> QED
        BY <1>0, <2>1, <4>1, BodyEnds
    <3> QED
      BY <3>1, <3>2
  <2>5. CacheTypes' /\ HistoryTypes'
    <3>1. adapter' \in [Slots -> {"none", "fresh", "spent"}]
      BY <2>2 DEF CacheTypes
    <3> QED
      BY <2>1, <2>2, <3>1 DEF CacheTypes, HistoryTypes
  <2>6. \A s \in Slots : adapter[s] # "none" <=> adapter'[s] # "none"
    BY <1>0, <2>1, <2>2 DEF CacheTypes
  <2>7. Handles'
    <3>1. ASSUME NEW s \in Slots, device'[s] # 0
          PROVE  /\ life'[device'[s]] \in {"live", "lost"}
                 /\ slotOf'[device'[s]] = s /\ home'[device'[s]] = instance'
                 /\ adapter'[s] # "none"
      BY <2>1, <2>3, <2>6, <3>1 DEF Handles, CacheTypes, Devices
    <3>2. adapter'["other"] # "none" => pc' \in {"body", "finish"}
      BY <1>0, <2>6 DEF Handles, Slots
    <3> QED
      BY <1>0, <2>1, <2>3, <2>4, <2>6, <3>1, <3>2 DEF Handles, InBody
  <2>8. Stages'
    BY <1>0, <2>1, <2>4 DEF Stages, TearingDown
  <2>9. Objects' /\ FlagTells'
    BY <1>0, <2>1 DEF Objects, FlagTells, RunnerTypes
  <2> QED
    BY <2>3, <2>4, <2>5, <2>7, <2>8, <2>9
<1> QED
  BY <1>1, <1>2, <1>3

(* The body leaves the cached devices where they are.                        *)
LEMMA BodySteps ==
  ASSUME IInv,
         \/ \E t \in Tags : UseScopedObject(t)
         \/ UseMismatched \/ RaiseError
         \/ \E how \in {"returned", "failed", "skipped"} : ThrowInScope(how)
  PROVE  IInv'
<1> USE CacheAssumption DEF IInv, TypeOK, history, causes
<1>0. /\ pc = "body" /\ Slot \in Cached /\ Slot \in Slots /\ Slot # "other"
      /\ device[Slot] \in Devices /\ instance # 0
  <2>1. InBody
    BY DEF UseScopedObject, UseMismatched, RaiseError, ThrowInScope
  <2> QED
    BY <2>1 DEF InBody, Handles, CacheTypes, Cached, Slots, Devices
<1>1. ASSUME NEW t \in Tags, UseScopedObject(t) PROVE IInv'
  <2> DEFINE new == [tag |-> t, device |-> device[Slot]]
  <2>1. /\ scoped' = Append(scoped, new)
        /\ UNCHANGED <<instance, adapter, device, deviceLost, runVars, implVars, history>>
    BY <1>1 DEF UseScopedObject
  <2>2. new \in [tag : Tags, device : Devices]
    BY <1>0
  <2>3. scoped' \in Seq([tag : Tags, device : Devices])
    BY <2>1, <2>2 DEF CacheTypes
  <2>4. CacheTypes' /\ HistoryTypes'
    BY <2>1, <2>3 DEF CacheTypes, HistoryTypes, implVars
  <2>5. RunnerTypes' /\ ImplementationTypes'
    BY <2>1 DEF RunnerTypes, ImplementationTypes, runVars, implVars
  <2>6. Running' /\ Handles' /\ Stages'
    BY <1>0, <2>1 DEF Running, Handles, Stages, RunnerTypes, TearingDown, InBody, Slot,
                      runVars, implVars
  <2>7. \A i \in 1..Len(scoped') : scoped'[i].device = device[Slot]
    BY <2>1 DEF Objects, CacheTypes
  <2>8. Objects'
    BY <1>0, <2>1, <2>7 DEF Objects, Running, Slot, runVars, Devices
  <2>9. FlagTells'
    BY <2>1 DEF FlagTells, runVars
  <2> QED
    BY <2>4, <2>5, <2>6, <2>8, <2>9
<1>2. CASE UseMismatched
  <2>1. UNCHANGED <<instance, scoped, deviceLost, stage, attempt, file, current, uncaptured,
                    ran, last, scopes, owed, refused, pending, born, condemned, reported,
                    denied, erred, foreign>>
    BY <1>2 DEF UseMismatched
  <2>2. PICK got \in BOOLEAN :
          /\ adapter' = [adapter EXCEPT !["default"] = IF @ = "none" THEN "fresh" ELSE @,
                                        !["other"] = IF got THEN "spent" ELSE "fresh"]
          /\ IF got
             THEN /\ \E d \in Devices : /\ Unborn(d) /\ Create(d, "other")
                                        /\ device' = [device EXCEPT !["other"] = d]
                  /\ UNCHANGED <<pc, outcome>>
             ELSE /\ LeaveBody("failed") /\ UNCHANGED device
                  /\ \/ NothingCreated
                     \/ \E d \in Devices : Unborn(d) /\ Create(d, "other")
    BY <1>2 DEF UseMismatched
  <2>2a. late' \subseteq Devices
    BY <1>2 DEF UseMismatched, HistoryTypes
  <2>3. /\ adapter' \in [Slots -> {"none", "fresh", "spent"}]
        /\ adapter'["other"] # "none"
        /\ \A s \in Slots : adapter[s] # "none" => adapter'[s] # "none"
    BY <2>2 DEF CacheTypes, Slots
  <2>4. /\ ImplementationTypes' /\ device' \in [Slots -> 0..MaxDevices]
        /\ \A s \in Slots : s # "other" => device'[s] = device[s]
        /\ device'["other"] = device["other"]
           \/ /\ device'["other"] \in Devices \ reported
              /\ life'[device'["other"]] = "live" /\ slotOf'[device'["other"]] = "other"
              /\ home'[device'["other"]] = instance
        /\ \A e \in Devices : life[e] # "unborn" =>
              life'[e] = life[e] /\ slotOf'[e] = slotOf[e] /\ home'[e] = home[e]
        /\ \A e \in Devices : life'[e] = "unborn" => life[e] = "unborn"
    <3>1. CASE NothingCreated /\ UNCHANGED device
      BY <2>1, <3>1 DEF NothingCreated, ImplementationTypes, CacheTypes
    <3>2. ASSUME NEW d \in Devices, Unborn(d), Create(d, "other"),
                 device' = [device EXCEPT !["other"] = d] \/ UNCHANGED device
          PROVE  /\ ImplementationTypes' /\ device' \in [Slots -> 0..MaxDevices]
                 /\ \A s \in Slots : s # "other" => device'[s] = device[s]
                 /\ device'["other"] = device["other"]
                    \/ /\ device'["other"] \in Devices \ reported
                       /\ life'[device'["other"]] = "live" /\ slotOf'[device'["other"]] = "other"
                       /\ home'[device'["other"]] = instance
                 /\ \A e \in Devices : life[e] # "unborn" =>
                       life'[e] = life[e] /\ slotOf'[e] = slotOf[e] /\ home'[e] = home[e]
                 /\ \A e \in Devices : life'[e] = "unborn" => life[e] = "unborn"
      <4>1. /\ ImplementationTypes' /\ d \notin reported /\ life'[d] = "live"
            /\ slotOf'[d] = "other" /\ home'[d] = instance
            /\ \A e \in Devices : e # d =>
                  life'[e] = life[e] /\ slotOf'[e] = slotOf[e] /\ home'[e] = home[e]
            /\ \A e \in Devices : life'[e] = "unborn" => life[e] = "unborn"
        <5>1. refused' \subseteq 1..born
          BY <2>1 DEF ImplementationTypes
        <5> QED
          BY <2>1, <3>2, <5>1, NewDevice DEF Slots
      <4>2. d \in 0..MaxDevices /\ life[d] = "unborn"
        BY <3>2 DEF Devices, Unborn
      <4>3. device' \in [Slots -> 0..MaxDevices]
        BY <3>2, <4>2 DEF CacheTypes
      <4>4. /\ \A s \in Slots : s # "other" => device'[s] = device[s]
            /\ device'["other"] \in {d, device["other"]}
        BY <3>2 DEF CacheTypes, Slots
      <4> QED
        BY <4>1, <4>2, <4>3, <4>4
    <3> QED
      BY <2>2, <3>1, <3>2
  <2>5. RunnerTypes' /\ Running' /\ pc' \in {"body", "finish"}
    <3>1. CASE UNCHANGED <<pc, outcome>>
      BY <1>0, <2>1, <3>1 DEF RunnerTypes, Running
    <3>2. CASE LeaveBody("failed")
      <4>1. attempt' \in 1..AllAttempts
        BY <2>1 DEF RunnerTypes
      <4> QED
        BY <1>0, <2>1, <3>2, <4>1, BodyEnds
    <3> QED
      BY <2>2, <3>1, <3>2
  <2>6. CacheTypes' /\ HistoryTypes'
    BY <2>1, <2>2a, <2>3, <2>4 DEF CacheTypes, HistoryTypes
  <2>7. Handles'
    <3>1. ASSUME NEW s \in Slots, device'[s] # 0
          PROVE  /\ life'[device'[s]] \in {"live", "lost"}
                 /\ slotOf'[device'[s]] = s /\ home'[device'[s]] = instance'
                 /\ adapter'[s] # "none"
      <4>1. CASE device'[s] = device[s]
        <5>1. /\ device[s] \in Devices /\ life[device[s]] \in {"live", "lost"}
              /\ slotOf[device[s]] = s /\ home[device[s]] = instance /\ adapter[s] # "none"
          BY <3>1, <4>1 DEF Handles, CacheTypes, Devices
        <5>2. life[device[s]] # "unborn"
          BY <5>1
        <5> QED
          BY <2>1, <2>3, <2>4, <4>1, <5>1, <5>2
      <4>2. CASE device'[s] # device[s]
        BY <2>1, <2>3, <2>4, <3>1, <4>2
      <4> QED
        BY <4>1, <4>2
    <3>2. device'[Slot] # 0 /\ Slot' = Slot
      BY <1>0, <2>1, <2>4 DEF Slot, Devices
    <3>3. \A e \in Devices : life'[e] = "unborn" => e \notin owed' \cup reported'
      BY <2>1, <2>4 DEF Handles
    <3> QED
      BY <1>0, <2>1, <2>5, <3>1, <3>2, <3>3 DEF Handles
  <2>8. Stages'
    BY <1>0, <2>1, <2>5 DEF Stages, TearingDown, RunnerTypes
  <2>9. Objects' /\ FlagTells'
    BY <1>0, <2>1, <2>4 DEF Objects, FlagTells, RunnerTypes, Slot, Cached, Slots
  <2> QED
    BY <2>4, <2>5, <2>6, <2>7, <2>8, <2>9
<1>3. CASE RaiseError
  <2>1. /\ erred' \in Fates
        /\ UNCHANGED <<cacheVars, pc, stage, attempt, file, current, outcome, ran, last,
                       life, home, slotOf, scopes, owed, refused, born, causes, foreign>>
    BY <1>3 DEF RaiseError, Fates
  <2>2. /\ uncaptured' \in BOOLEAN
        /\ pending' \subseteq pending \cup {<<device[Slot], ran>>}
    BY <1>3 DEF RaiseError, Record, RunnerTypes
  <2>3. life[device[Slot]] = "live"
    BY <1>3 DEF RaiseError
  <2>4. CacheTypes' /\ RunnerTypes' /\ HistoryTypes' /\ ImplementationTypes'
    BY <1>0, <2>1, <2>2 DEF CacheTypes, RunnerTypes, HistoryTypes, ImplementationTypes,
                            cacheVars, causes
  <2>5. Handles'
    BY <1>0, <2>1, <2>2, <2>3 DEF Handles, InBody, Slot, cacheVars, causes
  <2>6. Running' /\ Stages' /\ Objects' /\ FlagTells'
    BY <2>1 DEF Running, Stages, Objects, FlagTells, TearingDown, Slot, cacheVars, causes
  <2> QED
    BY <2>4, <2>5, <2>6
<1>4. ASSUME NEW how \in {"returned", "failed", "skipped"}, ThrowInScope(how) PROVE IInv'
  <2>1. /\ LeaveBody(how)
        /\ scopes' = [scopes EXCEPT ![device[Slot]] = @ + 1]
        /\ scopes[device[Slot]] < MaxScopes
        /\ UNCHANGED <<cacheVars, stage, attempt, file, current, uncaptured, ran, last, life,
                       home, slotOf, owed, refused, pending, born, history>>
    BY <1>4 DEF ThrowInScope
  <2>2. RunnerTypes' /\ Running' /\ pc' = "finish"
    <3>1. attempt' \in 1..AllAttempts
      BY <2>1 DEF RunnerTypes
    <3> QED
      BY <1>0, <2>1, <3>1, BodyEnds
  <2>3. CacheTypes' /\ HistoryTypes'
    BY <2>1 DEF CacheTypes, HistoryTypes, cacheVars
  <2>4. ImplementationTypes'
    <3>1. scopes[device[Slot]] + 1 \in 0..MaxScopes
      BY <1>0, <2>1 DEF ImplementationTypes
    <3> QED
      BY <2>1, <3>1 DEF ImplementationTypes
  <2>5. Handles' /\ Stages'
    BY <1>0, <2>1, <2>2 DEF Handles, Stages, InBody, TearingDown, Slot, cacheVars
  <2>6. Objects' /\ FlagTells'
    BY <2>1 DEF Objects, FlagTells, Slot, cacheVars
  <2> QED
    BY <2>2, <2>3, <2>4, <2>5, <2>6
<1> QED
  BY <1>1, <1>2, <1>3, <1>4

(* The end of a test: only the fixture's own device is released.            *)
LEMMA FinishStep ==
  ASSUME IInv, Finish
  PROVE  IInv'
<1> USE CacheAssumption DEF IInv, TypeOK, history, causes
<1>1. /\ pc = "finish" /\ pc' = "idle" /\ current' = FALSE /\ ran' = ran + 1
      /\ last' = [status |-> StatusOf, left |-> outcome, error |-> erred, foreign |-> foreign]
      /\ outcome' = "none" /\ erred' = "no" /\ foreign' = FALSE /\ condemned' = {}
      /\ UNCHANGED <<instance, scoped, deviceLost, stage, attempt, file, uncaptured, home,
                     slotOf, scopes, owed, refused, born, reported, late, denied>>
  BY DEF Finish
<1>2. /\ life' = IF device["other"] = 0 THEN life ELSE [life EXCEPT ![device["other"]] = "gone"]
      /\ pending' \subseteq pending
      /\ device' = [device EXCEPT !["other"] = 0]
      /\ adapter' = [adapter EXCEPT !["other"] = "none"]
  BY DEF Finish, Finalize, Release
<1>3. RunnerTypes' /\ Running'
  <2>1. StatusOf \in {"none", "Pass", "Fail", "Skip"}
    BY DEF StatusOf
  <2>2. outcome \in Ways /\ erred \in Fates /\ foreign \in BOOLEAN /\ outcome' \in Ways
    BY <1>1 DEF HistoryTypes, RunnerTypes, Ways
  <2>3. last' \in [status : {"none", "Pass", "Fail", "Skip"}, left : Ways,
                   error : Fates, foreign : BOOLEAN]
    BY <1>1, <2>1, <2>2
  <2>4. ran' \in 0..MaxTests
    BY <1>1 DEF RunnerTypes, Running
  <2> QED
    BY <1>1, <2>2, <2>3, <2>4 DEF RunnerTypes, Running
<1>4. /\ device' \in [Slots -> 0..MaxDevices] /\ device'["other"] = 0
      /\ adapter' \in [Slots -> {"none", "fresh", "spent"}] /\ adapter'["other"] = "none"
      /\ \A s \in Slots : s # "other" => device'[s] = device[s] /\ adapter'[s] = adapter[s]
  <2>1. 0 \in 0..MaxDevices
    OBVIOUS
  <2> QED
    BY <1>2, <2>1 DEF CacheTypes, Slots
<1>5. /\ life' \in [Devices -> {"unborn", "live", "lost", "gone"}]
      /\ \A d \in Devices : life'[d] # life[d] => d = device["other"] /\ life'[d] = "gone"
  BY <1>2 DEF ImplementationTypes, Devices
<1>6. CacheTypes' /\ ImplementationTypes' /\ HistoryTypes'
  BY <1>1, <1>2, <1>4, <1>5 DEF CacheTypes, ImplementationTypes, HistoryTypes, Fates
<1>7. Handles'
  <2>1. ASSUME NEW s \in Slots, device'[s] # 0
        PROVE  /\ life'[device'[s]] \in {"live", "lost"}
               /\ slotOf'[device'[s]] = s /\ home'[device'[s]] = instance'
               /\ adapter'[s] # "none"
    <3>1. s # "other" /\ device'[s] = device[s] /\ device[s] \in Devices
      BY <1>4, <2>1 DEF Devices, CacheTypes
    <3>2. device[s] # device["other"]
      BY <3>1 DEF Handles, Slots, Devices
    <3> QED
      BY <1>1, <1>4, <1>5, <2>1, <3>1, <3>2 DEF Handles
  <2>2. \A e \in Devices : life'[e] = "unborn" => e \notin owed' \cup reported'
    BY <1>1, <1>2, <1>5 DEF Handles
  <2>3. \A s \in Slots : adapter'[s] # "none" => instance' # 0
    BY <1>1, <1>4 DEF Handles
  <2> QED
    BY <1>1, <1>4, <2>1, <2>2, <2>3 DEF Handles, InBody
<1>8. Stages'
  BY <1>1 DEF Stages, TearingDown
<1>9. Objects' /\ FlagTells'
  BY <1>1, <1>4 DEF Objects, FlagTells, Slot, Cached, Slots
<1> QED
  BY <1>3, <1>6, <1>7, <1>8, <1>9

(* The callbacks run between any two steps of the harness. *)
LEMMA EnvironmentSteps ==
  ASSUME IInv, Environment
  PROVE  IInv'
<1> USE CacheAssumption DEF IInv, TypeOK, cacheVars, runVars, history, causes
<1>1. ASSUME NEW d \in Devices, LoseDevice(d) PROVE IInv'
  <2>1. /\ life[d] = "live" /\ life' = [life EXCEPT ![d] = "lost"]
        /\ owed' \subseteq owed \cup {d}
        /\ UNCHANGED <<cacheVars, runVars, home, slotOf, scopes, refused, pending, born, history>>
    BY <1>1 DEF LoseDevice
  <2>2. /\ ImplementationTypes' /\ life'[d] = "lost"
        /\ \A e \in Devices : e # d => life'[e] = life[e]
    BY <2>1 DEF ImplementationTypes
  <2>3. CacheTypes' /\ RunnerTypes' /\ HistoryTypes'
    BY <2>1 DEF CacheTypes, RunnerTypes, HistoryTypes
  <2>4. Handles'
    <3>1. ASSUME NEW s \in Slots, device[s] # 0 PROVE life'[device[s]] \in {"live", "lost"}
      BY <2>2, <3>1 DEF Handles, CacheTypes, Devices
    <3>2. \A e \in Devices : life'[e] = "unborn" => e \notin owed' \cup reported'
      BY <2>1, <2>2 DEF Handles
    <3> QED
      BY <2>1, <3>1, <3>2 DEF Handles, InBody, Slot
  <2>5. Running' /\ Stages' /\ Objects' /\ FlagTells'
    BY <2>1 DEF Running, Stages, Objects, FlagTells, TearingDown, Slot
  <2> QED
    BY <2>2, <2>3, <2>4, <2>5
<1>2. ASSUME NEW d \in Devices, ReportLoss(d) PROVE IInv'
  <2>1. /\ d \in owed /\ owed' = owed \ {d} /\ deviceLost' = TRUE
        /\ reported' = reported \cup {d}
        /\ UNCHANGED <<instance, adapter, device, scoped, runVars, life, home, slotOf, scopes,
                       refused, pending, born, condemned, late, denied, erred, foreign>>
    BY <1>2 DEF ReportLoss, RunnerTypes, HistoryTypes
  <2>2. CacheTypes' /\ RunnerTypes' /\ ImplementationTypes' /\ HistoryTypes'
    BY <2>1 DEF CacheTypes, RunnerTypes, ImplementationTypes, HistoryTypes
  <2>3. Handles'
    BY <2>1 DEF Handles, InBody, Slot
  <2>4. Running' /\ Stages' /\ Objects'
    BY <2>1 DEF Running, Stages, Objects, TearingDown, Slot
  <2>5. FlagTells'
    BY <2>1 DEF FlagTells
  <2> QED
    BY <2>2, <2>3, <2>4, <2>5
<1>3. ASSUME NEW p \in pending, DeliverError(p) PROVE IInv'
  <2>1. /\ pending' \subseteq pending /\ uncaptured' \in BOOLEAN
        /\ erred' \in Fates /\ foreign' \in BOOLEAN
        /\ UNCHANGED <<cacheVars, pc, stage, attempt, file, current, outcome, ran, last, life,
                       home, slotOf, scopes, owed, refused, born, causes>>
    BY <1>3 DEF DeliverError, Record, RunnerTypes, HistoryTypes, Fates
  <2>2. CacheTypes' /\ RunnerTypes' /\ ImplementationTypes' /\ HistoryTypes'
    BY <2>1 DEF CacheTypes, RunnerTypes, ImplementationTypes, HistoryTypes
  <2>3. Handles'
    BY <2>1 DEF Handles, InBody, Slot
  <2>4. Running' /\ Stages' /\ Objects' /\ FlagTells'
    BY <2>1 DEF Running, Stages, Objects, FlagTells, TearingDown, Slot
  <2> QED
    BY <2>2, <2>3, <2>4
<1>4. ASSUME NEW i \in refused, ReportRefusal(i) PROVE IInv'
  <2>1. /\ refused' \subseteq refused /\ deviceLost' = TRUE
        /\ UNCHANGED <<instance, adapter, device, scoped, runVars, life, home, slotOf, scopes,
                       owed, pending, born, history>>
    BY <1>4 DEF ReportRefusal
  <2>2. CacheTypes' /\ RunnerTypes' /\ ImplementationTypes' /\ HistoryTypes'
    BY <2>1 DEF CacheTypes, RunnerTypes, ImplementationTypes, HistoryTypes
  <2>3. Handles' /\ Running' /\ Stages'
    BY <2>1 DEF Handles, InBody, Slot, Running, Stages, TearingDown
  <2>4. Objects' /\ FlagTells'
    BY <2>1 DEF Objects, FlagTells, Slot
  <2> QED
    BY <2>2, <2>3, <2>4
<1> QED
  BY <1>1, <1>2, <1>3, <1>4 DEF Environment

LEMMA StutterStep == ASSUME IInv, UNCHANGED vars PROVE IInv'
<1> USE DEF vars, cacheVars, runVars, implVars, history, causes
<1>1. TypeOK'
  BY DEF IInv, TypeOK, CacheTypes, RunnerTypes, ImplementationTypes, HistoryTypes
<1>2. Running' /\ Handles' /\ Stages' /\ Objects' /\ FlagTells'
  BY DEF IInv, Running, Handles, Stages, Objects, FlagTells, TearingDown, InBody, Slot
<1> QED
  BY <1>1, <1>2 DEF IInv

LEMMA NextIInv == ASSUME IInv, [Next]_vars PROVE IInv'
<1>1. Harness => IInv'
  BY QuietSteps, TeardownSteps, RequestSteps, BodySteps, FinishStep DEF Harness
<1> QED
  BY <1>1, EnvironmentSteps, StutterStep DEF Next

(* The invariant above holds of every run. *)
THEOREM CacheInvariant == Spec => []IInv
BY InitIInv, NextIInv, PTL DEF Spec

(* Every variable has its type, and g_currentTest is set exactly while a     *)
(* fixture runs (setCurrentTest, harness.cpp).                               *)
THEOREM CacheTypeCorrect == Spec => []TypeOK
<1>1. IInv => TypeOK
  BY DEF IInv
<1> QED
  BY <1>1, CacheInvariant, PTL

(* A test is served only objects made on its own device.                     *)
THEOREM ObjectsNeverCrossDevices == Spec => []ObjectsAreOfTheTestsDevice
<1>1. IInv => ObjectsAreOfTheTestsDevice
  BY DEF IInv, TypeOK, CacheTypes, Objects, ObjectsAreOfTheTestsDevice
<1> QED
  BY <1>1, CacheInvariant, PTL

(* No cached object outlives its device.                                     *)
THEOREM ObjectsDieBeforeDevices == Spec => []ObjectsDieFirst
<1>1. ASSUME IInv PROVE ObjectsDieFirst
  <2>1. ASSUME NEW i \in 1..Len(scoped) PROVE life[scoped[i].device] # "gone"
    <3>1. Slot \in Slots /\ device[Slot] # 0 /\ scoped[i].device = device[Slot]
      BY <1>1 DEF IInv, TypeOK, CacheTypes, Objects, Cached, Slots
    <3> QED
      BY <1>1, <3>1 DEF IInv, Handles
  <2> QED
    BY <2>1 DEF ObjectsDieFirst
<1> QED
  BY <1>1, CacheInvariant, PTL

(* A device known to be lost when a test began does not serve that test.     *)
THEOREM RecycleRetiresLostDevices == Spec => []LostDevicesAreRetired
<1>1. IInv => LostDevicesAreRetired
  BY DEF IInv, FlagTells, LostDevicesAreRetired
<1> QED
  BY <1>1, CacheInvariant, PTL

(* The cached devices are of the instance that every wait pumps.             *)
THEOREM OneInstance == Spec => []DevicesShareTheInstance
<1>1. IInv => DevicesShareTheInstance
  BY DEF IInv, Handles, DevicesShareTheInstance
<1> QED
  BY <1>1, CacheInvariant, PTL

-----------------------------------------------------------------------------
(* A device that is not released came too late, or is in the slot it was     *)
(* requested for.                                                            *)
Held(d) == life[d] \in {"live", "lost"} => d \in late \/ device[slotOf[d]] = d

AllHeld == \A d \in Devices : Held(d)

LEMMA ReleaseHeld ==
  ASSUME IInv, AllHeld, NEW s \in Slots, Release(s), UNCHANGED <<slotOf, late>>
  PROVE  AllHeld'
<1> USE DEF IInv, TypeOK, CacheTypes, ImplementationTypes
<1>1. ASSUME NEW d \in Devices, life'[d] \in {"live", "lost"}, d \notin late
      PROVE  device'[slotOf[d]] = d
  <2>1. life' = (IF device[s] = 0 THEN life ELSE [life EXCEPT ![device[s]] = "gone"])
        /\ device' = [device EXCEPT ![s] = 0]
    BY DEF Release
  <2>2. life[d] \in {"live", "lost"} /\ d # device[s]
    <3>1. d # 0
      BY DEF Devices
    <3> QED
      BY <1>1, <2>1, <3>1
  <2>3. device[slotOf[d]] = d /\ slotOf[d] \in Slots
    BY <1>1, <2>2 DEF AllHeld, Held
  <2> QED
    BY <2>1, <2>2, <2>3
<1> QED
  BY <1>1 DEF AllHeld, Held

\* A device newly made goes to an empty slot, or comes too late.
LEMMA CreateHeld ==
  ASSUME IInv, AllHeld, NEW d \in Devices, NEW s \in Slots, Create(d, s),
         \/ late' = late \cup {d} /\ UNCHANGED device
         \/ device[s] = 0 /\ device' = [device EXCEPT ![s] = d] /\ UNCHANGED late
  PROVE  AllHeld'
<1> USE DEF IInv, TypeOK, CacheTypes, ImplementationTypes
<1>1. life' = [life EXCEPT ![d] = "live"] /\ slotOf' = [slotOf EXCEPT ![d] = s]
  BY DEF Create
<1>2. Held(d)'
  BY <1>1 DEF Held
<1>3. ASSUME NEW e \in Devices, e # d PROVE Held(e)'
  <2>1. life'[e] = life[e] /\ slotOf'[e] = slotOf[e] /\ slotOf[e] \in Slots
    BY <1>1, <1>3
  <2>2. Held(e) /\ e # 0
    BY DEF AllHeld, Devices
  <2> QED
    BY <2>1, <2>2 DEF Held
<1> QED
  BY <1>2, <1>3 DEF AllHeld

LEMMA NextHeld == ASSUME IInv, AllHeld, [Next]_vars PROVE AllHeld'
<1> USE DEF cacheVars, runVars, implVars, history, causes
<1>1. ASSUME UNCHANGED <<device, life, slotOf>>, late \subseteq late' PROVE AllHeld'
  BY <1>1 DEF AllHeld, Held
<1>2. CASE \/ \E f \in Files : RunCase(f)
           \/ StartTest \/ SkipUnimplemented \/ Exit \/ EnterBody \/ EnsureAdapter
           \/ LimitsFailed \/ RaiseError \/ \E t \in Tags : UseScopedObject(t)
           \/ \E how \in {"returned", "failed", "skipped"} : ThrowInScope(how) \/ EndBody(how)
  BY <1>1, <1>2 DEF RunCase, StartTest, SkipUnimplemented, Exit, EnterBody, EnsureAdapter,
                    LimitsFailed, RaiseError, UseScopedObject, ThrowInScope, EndBody
<1>3. CASE TearDown
  <2>1. CASE DropObjects \/ DropInstance \/ ResetFlags
    BY <1>1, <2>1 DEF DropObjects, DropInstance, ResetFlags
  <2>2. ASSUME NEW s \in Cached, DropSlot(s) PROVE AllHeld'
    BY <2>2, ReleaseHeld DEF DropSlot, Cached, Slots
  <2> QED
    BY <1>3, <2>1, <2>2 DEF TearDown
<1>4. CASE RequestGranted
  <2>1. PICK d \in Devices : Create(d, Slot) /\ device' = [device EXCEPT ![Slot] = d]
    BY <1>4 DEF RequestGranted
  <2> QED
    BY <1>4, <2>1, CreateHeld DEF RequestGranted, Cached, Slots
<1>5. CASE RequestFailed
  <2>1. device' = device /\ Slot \in Slots
    BY <1>5 DEF RequestFailed, Cached, Slots
  <2>2. CASE Refused
    BY <1>1, <2>1, <2>2 DEF Refused, NothingCreated
  <2>3. CASE TimedOut
    BY <2>1, <2>3, CreateHeld DEF TimedOut
  <2> QED
    BY <1>5, <2>2, <2>3 DEF RequestFailed
<1>6. CASE UseMismatched
  <2>1. CASE UNCHANGED <<device, life, slotOf, late>>
    BY <1>1, <2>1
  <2>2. CASE \E d \in Devices : Create(d, "other") /\ late' = late \cup {d} /\ UNCHANGED device
    BY <2>2, CreateHeld DEF Slots
  <2>3. CASE \E d \in Devices : /\ Create(d, "other") /\ UNCHANGED late
                                /\ device' = [device EXCEPT !["other"] = d]
    BY <1>6, <2>3, CreateHeld DEF UseMismatched, Slots
  <2> QED
    BY <1>6, <2>1, <2>2, <2>3 DEF UseMismatched, NothingCreated
<1>7. CASE Finish
  BY <1>7, ReleaseHeld DEF Finish, Finalize, Slots
<1>8. CASE Environment
  <2>1. ASSUME NEW d \in Devices, LoseDevice(d) PROVE AllHeld'
    BY <2>1 DEF LoseDevice, AllHeld, Held, IInv, TypeOK, ImplementationTypes
  <2> QED
    BY <1>1, <1>8, <2>1 DEF Environment, ReportLoss, ReportRefusal, DeliverError
<1>9. CASE UNCHANGED vars
  BY <1>1, <1>9 DEF vars
<1> QED
  BY <1>2, <1>3, <1>4, <1>5, <1>6, <1>7, <1>8, <1>9 DEF Next, Harness

(* Between tests only the cached devices are held, and those nobody waited   *)
(* for any more.                                                             *)
THEOREM NoDeviceLeaks == Spec => []NothingLeaks
<1>1. ASSUME IInv, AllHeld PROVE NothingLeaks
  <2>1. ASSUME pc = "idle", NEW d \in Devices, life[d] \in {"live", "lost"}, d \notin late
        PROVE  \E s \in Cached : device[s] = d
    <3>1. device[slotOf[d]] = d /\ slotOf[d] \in Slots /\ d # 0
      BY <1>1, <2>1 DEF AllHeld, Held, IInv, TypeOK, ImplementationTypes, Devices
    <3>2. device["other"] = 0
      BY <1>1, <2>1 DEF IInv, Handles, Slots
    <3> QED
      BY <3>1, <3>2 DEF Slots, Cached
  <2> QED
    BY <2>1 DEF NothingLeaks
<1>2. Init => AllHeld
  BY DEF Init, AllHeld, Held
<1> QED
  BY <1>1, <1>2, NextHeld, CacheInvariant, PTL DEF Spec

-----------------------------------------------------------------------------
(* What a fixture has recorded is its test's own error or an earlier one's,  *)
(* and nothing is recorded on a test before it starts or after it ends.      *)
Accounts ==
    /\ ~current => erred = "no" /\ foreign = FALSE
    /\ current => (uncaptured <=> erred = "recorded" \/ foreign)
    /\ pc = "recycle" => uncaptured = FALSE
    /\ FailuresAreExplained /\ RecordedErrorsCount

LEMMA InitAccounts == Init => Accounts
BY DEF Init, NoResult, Accounts, FailuresAreExplained, RecordedErrorsCount

LEMMA NextAccounts == ASSUME IInv, Accounts, [Next]_vars PROVE Accounts'
<1> USE DEF IInv, TypeOK, Accounts, FailuresAreExplained, RecordedErrorsCount,
            cacheVars, runVars, implVars, history, causes
<1>1. ASSUME UNCHANGED <<uncaptured, erred, foreign, last>>, current' = current,
             pc' = "recycle" => pc = "recycle"
      PROVE  Accounts'
  BY <1>1
<1>2. CASE \E f \in Files : RunCase(f)
  <2>1. /\ last' = NoResult /\ current' = current /\ pc' = "start"
        /\ UNCHANGED <<uncaptured, erred, foreign>>
    BY <1>2 DEF RunCase
  <2> QED
    BY <2>1 DEF NoResult
<1>3. CASE StartTest
  <2>1. /\ pc = "start" /\ uncaptured' = FALSE /\ UNCHANGED <<erred, foreign, last>>
    BY <1>3 DEF StartTest, FreshFixture
  <2>2. ~current
    BY <2>1 DEF RunnerTypes
  <2> QED
    BY <2>1, <2>2
<1>4. CASE SkipUnimplemented
  <2>1. /\ last'.status = "Skip" /\ last'.error = "no" /\ pc' = "idle" /\ current' = current
        /\ UNCHANGED <<uncaptured, erred, foreign>>
    BY <1>4 DEF SkipUnimplemented
  <2> QED
    BY <2>1
<1>5. CASE Exit \/ EnterBody \/ LimitsFailed \/ EnsureAdapter \/ RequestGranted \/ RequestFailed
  BY <1>1, <1>5 DEF Exit, EnterBody, LimitsFailed, EnsureAdapter, RequestGranted,
                    RequestFailed, LeaveBody
<1>6. CASE TearDown
  <2>1. UNCHANGED <<uncaptured, erred, foreign, last>>
    BY <1>6 DEF TearDown, DropObjects, DropSlot, Release, DropInstance, ResetFlags
  <2>2. TearingDown /\ NextStage /\ UNCHANGED <<attempt, file, uncaptured, outcome, ran, last>>
    BY <1>6 DEF TearDown, DropObjects, DropSlot, DropInstance, ResetFlags, At, TearingDown
  <2>3. /\ pc' = "init" => pc = "recycle" /\ pc' \in {"recycle", "exit", "init", "done"}
        /\ pc' \in {"recycle", "exit", "init", "done"} /\ (pc' = "recycle" => pc = "recycle")
    BY <2>2, StageSteps DEF TearingDown
  <2>4. ~current /\ (current' => pc = "recycle")
    BY <2>2, <2>3, StageSteps DEF RunnerTypes, TearingDown
  <2> QED
    BY <2>1, <2>3, <2>4
<1>7. CASE \E t \in Tags : UseScopedObject(t)
  BY <1>1, <1>7 DEF UseScopedObject
<1>8. CASE UseMismatched \/ \E how \in {"returned", "failed", "skipped"} : EndBody(how)
  BY <1>1, <1>8 DEF UseMismatched, InBody, EndBody, LeaveBody
<1>9. CASE RaiseError
  <2>1. /\ pc = "body" /\ erred = "no" /\ UNCHANGED <<current, foreign, last, pc>>
        /\ \/ erred' \in {"swallowed", "late"} /\ UNCHANGED uncaptured
           \/ erred' = "recorded" /\ uncaptured' = (uncaptured \/ current)
    BY <1>9 DEF RaiseError, InBody, Record
  <2>2. current
    BY <2>1 DEF RunnerTypes
  <2>3. erred' = "recorded" => uncaptured' = TRUE
    BY <2>1, <2>2
  <2> QED
    BY <2>1, <2>2, <2>3
<1>10. CASE \E how \in {"returned", "failed", "skipped"} : ThrowInScope(how)
  BY <1>1, <1>10 DEF ThrowInScope, LeaveBody
<1>11. CASE Finish
  <2>1. /\ pc = "finish" /\ current' = FALSE /\ pc' = "idle" /\ erred' = "no" /\ foreign' = FALSE
        /\ last' = [status |-> StatusOf, left |-> outcome, error |-> erred, foreign |-> foreign]
    BY <1>11 DEF Finish
  <2>2. uncaptured <=> erred = "recorded" \/ foreign
    BY <2>1 DEF RunnerTypes
  <2>3. /\ last'.status = StatusOf /\ last'.left = outcome /\ last'.error = erred
        /\ last'.foreign = foreign
    BY <2>1
  <2>4. FailuresAreExplained' /\ RecordedErrorsCount'
    BY <2>2, <2>3 DEF StatusOf
  <2> QED
    BY <2>1, <2>4
<1>12. CASE Environment
  <2>1. CASE (\E d \in Devices : LoseDevice(d) \/ ReportLoss(d)) \/ \E i \in refused : ReportRefusal(i)
    BY <1>1, <2>1 DEF LoseDevice, ReportLoss, ReportRefusal
  <2>2. ASSUME NEW p \in pending, DeliverError(p) PROVE Accounts'
    <3>1. /\ uncaptured' = (uncaptured \/ current) /\ UNCHANGED <<current, last, pc>>
          /\ IF current /\ p[2] = ran THEN erred' = "recorded" ELSE UNCHANGED erred
          /\ foreign' = (foreign \/ (current /\ p[2] # ran))
      BY <2>2 DEF DeliverError, Record
    <3>2. CASE current
      <4>1. uncaptured' /\ current' /\ (erred' = "recorded" \/ foreign')
        BY <3>1, <3>2
      <4>2. pc' # "recycle"
        BY <3>1, <3>2 DEF RunnerTypes
      <4> QED
        BY <3>1, <4>1, <4>2
    <3>3. CASE ~current
      BY <3>1, <3>3 DEF RunnerTypes, HistoryTypes
    <3> QED
      BY <3>2, <3>3
  <2> QED
    BY <1>12, <2>1, <2>2 DEF Environment
<1>13. CASE UNCHANGED vars
  BY <1>1, <1>13 DEF vars
<1> QED
  BY <1>2, <1>3, <1>4, <1>5, <1>6, <1>7, <1>8, <1>9, <1>10, <1>11, <1>12, <1>13
  DEF Next, Harness

LEMMA AlwaysAccounts == Spec => []Accounts
BY InitAccounts, NextAccounts, CacheInvariant, PTL DEF Spec

(* A test that fails threw, or had an error recorded while it ran (runOne).  *)
THEOREM FailuresAreTheTests == Spec => []FailuresAreExplained
<1>1. Accounts => FailuresAreExplained
  BY DEF Accounts
<1> QED
  BY <1>1, AlwaysAccounts, PTL

(* And an error recorded on the test that made it fails it, unless it skips. *)
THEOREM ErrorsAreSeen == Spec => []RecordedErrorsCount
<1>1. Accounts => RecordedErrorsCount
  BY DEF Accounts
<1> QED
  BY <1>1, AlwaysAccounts, PTL

-----------------------------------------------------------------------------
(* Where every answer arrives within its wait, a device that is not released *)
(* is the one in the slot it was requested for, and the flag tells the truth *)
(* about the present instance.                                               *)
LostHere == \E d \in Devices : home[d] = instance /\ life[d] = "lost" /\ slotOf[d] \in Cached

Punctual ==
    /\ \A d \in Devices : life[d] \in {"live", "lost"} => device[slotOf[d]] = d
    /\ \A s \in Slots : adapter[s] = "spent" => device[s] # 0
    /\ \A d \in owed : /\ home[d] = instance /\ slotOf[d] \in Cached
                       /\ TearingDown \/ life[d] = "lost"
    /\ \A i \in refused : i = instance /\ denied
    /\ deviceLost /\ ~TearingDown /\ pc # "done" => LostHere \/ denied
    /\ pc = "recycle" /\ stage = 1 => LostHere \/ denied
    /\ pc = "done" \/ stage = 5 => owed = {} /\ refused = {}

LEMMA InitPunctual == Init => Punctual
BY DEF Init, Punctual, Slots

(* Steps that leave the devices alone.                                       *)
LEMMA PunctualQuiet ==
  ASSUME IInv, Punctual,
         UNCHANGED <<instance, adapter, device, deviceLost, life, home, slotOf, owed, refused,
                     denied>>,
         pc' = "recycle" => pc = "start" /\ deviceLost,
         pc \notin {"recycle", "exit", "done"}, pc' # "done", stage' # 5
  PROVE  Punctual'
<1>1. ~TearingDown /\ (deviceLost => LostHere \/ denied) /\ (LostHere => LostHere')
  BY DEF Punctual, TearingDown, LostHere
<1>2. pc' = "recycle" => LostHere \/ denied
  BY <1>1
<1> QED
  BY <1>1, <1>2 DEF Punctual, TearingDown

LEMMA HeldDevices ==
  ASSUME IInv, Punctual, NEW d \in Devices, life[d] \in {"live", "lost"}
  PROVE  device[slotOf[d]] = d /\ slotOf[d] \in Slots /\ d # 0 /\ instance # 0
<1>1. device[slotOf[d]] = d /\ slotOf[d] \in Slots /\ d # 0
  BY DEF Punctual, IInv, TypeOK, ImplementationTypes, Devices
<1> QED
  BY <1>1 DEF IInv, Handles

(* What a release does to the slots and the devices.                         *)
LEMMA Released ==
  ASSUME IInv, NEW s \in Slots, Release(s)
  PROVE  /\ device'[s] = 0 /\ adapter'[s] = "none"
         /\ \A t \in Slots : t # s => device'[t] = device[t] /\ adapter'[t] = adapter[t]
         /\ device[s] \in Devices => life'[device[s]] = "gone"
         /\ \A d \in Devices : d # device[s] => life'[d] = life[d]
<1> USE DEF IInv, TypeOK
<1>1. /\ life' = IF device[s] = 0 THEN life ELSE [life EXCEPT ![device[s]] = "gone"]
      /\ device' = [device EXCEPT ![s] = 0] /\ adapter' = [adapter EXCEPT ![s] = "none"]
  BY DEF Release
<1>2. \A d \in Devices : d # 0
  BY DEF Devices
<1> QED
  BY <1>1, <1>2 DEF CacheTypes, ImplementationTypes

LEMMA PunctualTearDown ==
  ASSUME IInv, Punctual, TearDown
  PROVE  Punctual'
<1> USE CacheAssumption DEF IInv, TypeOK, implVars, history, causes
<1>1. CASE DropObjects
  <2>1. /\ NextStage /\ TearingDown /\ stage = 1
        /\ UNCHANGED <<instance, adapter, device, deviceLost, attempt, file, uncaptured,
                       outcome, ran, last, implVars, history>>
    BY <1>1, AtPart DEF DropObjects
  <2>2. stage' = 2 /\ pc' = pc
    BY <2>1, StageSteps
  <2> QED
    BY <2>1, <2>2 DEF Punctual, TearingDown
<1>2. ASSUME NEW s \in Cached, DropSlot(s) PROVE Punctual'
  <2>1. At(s) /\ NextStage /\ Release(s) /\ s \in Slots
        /\ UNCHANGED <<instance, scoped, deviceLost, attempt, file, uncaptured, outcome,
                       ran, last, home, slotOf, scopes, owed, refused, born, history>>
    BY <1>2 DEF DropSlot, Cached, Slots
  <2>2. TearingDown /\ stage \in {2, 3}
    BY <2>1, AtPart DEF Cached
  <2>3. pc' = pc /\ stage' = stage + 1
    BY <2>1, <2>2, StageSteps
  <2>4. ASSUME NEW d \in Devices, life'[d] \in {"live", "lost"} PROVE device'[slotOf'[d]] = d
    <3>1. life[d] = life'[d] /\ d # device[s]
      BY <2>1, <2>4, Released
    <3>2. device[slotOf[d]] = d /\ slotOf[d] # s /\ slotOf[d] \in Slots
      BY <2>4, <3>1 DEF Punctual, ImplementationTypes
    <3> QED
      BY <2>1, <3>2, Released
  <2>5. \A t \in Slots : adapter'[t] = "spent" => device'[t] # 0
    BY <2>1, Released DEF Punctual
  <2> QED
    BY <2>1, <2>2, <2>3, <2>4, <2>5 DEF Punctual, TearingDown
<1>3. CASE DropInstance
  <2>1. /\ NextStage /\ TearingDown /\ stage = 4
        /\ UNCHANGED <<adapter, device, scoped, deviceLost, attempt, file, uncaptured,
                       outcome, ran, last, life, home, slotOf, scopes, pending, born,
                       condemned, reported, late, erred, foreign>>
    BY <1>3, AtPart DEF DropInstance
  <2>2. (pc' = "recycle" /\ stage' = 5) \/ pc' = "done"
    BY <2>1, StageSteps DEF TearingDown
  <2>3. \A s \in Slots : device[s] = 0
    BY <2>1 DEF Handles, Stages, Slots, TearingDown
  <2>4. \A d \in Devices : life[d] \notin {"live", "lost"}
    BY <2>3, HeldDevices
  <2>5. owed' = {d \in owed : home[d] # instance} /\ refused' = refused \ {instance}
    BY <1>3, <2>4 DEF DropInstance
  <2>6. owed' = {} /\ refused' = {}
    BY <2>5 DEF Punctual
  <2> QED
    BY <2>1, <2>2, <2>4, <2>6 DEF Punctual, TearingDown
<1>4. CASE ResetFlags
  <2>1. /\ NextStage /\ TearingDown /\ stage = 5 /\ deviceLost' = FALSE
        /\ UNCHANGED <<instance, adapter, device, scoped, attempt, file, uncaptured,
                       outcome, ran, last, implVars, history>>
    BY <1>4, AtPart DEF ResetFlags
  <2>2. pc' = "init"
    BY <2>1, StageSteps
  <2>3. instance = 0 /\ \A s \in Slots : device[s] = 0
    BY <2>1 DEF Handles, Stages, Slots, TearingDown
  <2> QED
    BY <2>1, <2>2, <2>3 DEF Punctual, TearingDown
<1> QED
  BY <1>1, <1>2, <1>3, <1>4 DEF TearDown

LEMMA PunctualRequests ==
  ASSUME ~Timeouts, IInv, Punctual, EnsureAdapter \/ RequestGranted \/ RequestFailed
  PROVE  Punctual'
<1> USE CacheAssumption DEF IInv, TypeOK, history, causes
<1>0. /\ pc = "init" /\ Slot \in Slots /\ device[Slot] = 0 /\ stage = 0 /\ ~TearingDown
  BY DEF EnsureAdapter, RequestGranted, RequestFailed, Cached, Slots, Stages, TearingDown
<1>1. CASE EnsureAdapter
  <2>1. /\ UNCHANGED <<device, deviceLost, stage, life, home, slotOf, owed, refused, denied>>
        /\ pc' \in {"init", "finish"} /\ (instance # 0 => instance' = instance)
    BY <1>0, <1>1 DEF EnsureAdapter, EnsureInstance, LeaveBody
  <2>2. \A s \in Slots : adapter'[s] = "spent" => adapter[s] = "spent"
    BY <1>1 DEF EnsureAdapter, CacheTypes
  <2>3. \A d \in Devices : life[d] = "lost" => instance # 0
    BY HeldDevices
  <2>4. \A d \in owed : home[d] = instance' /\ life[d] = "lost"
    BY <1>0, <2>1, <2>3 DEF Punctual, ImplementationTypes
  <2>5. deviceLost => LostHere' \/ denied'
    <3>1. deviceLost => LostHere \/ denied
      BY <1>0 DEF Punctual
    <3> QED
      BY <2>1, <2>3, <3>1 DEF LostHere
  <2>6. \A i \in refused' : i = instance' /\ denied'
    <3>1. 0 \notin refused
      BY DEF ImplementationTypes
    <3> QED
      BY <2>1, <3>1 DEF Punctual
  <2> QED
    BY <1>0, <2>1, <2>2, <2>4, <2>5, <2>6 DEF Punctual, TearingDown
<1>2. CASE RequestGranted
  <2>1. PICK d \in Devices : /\ Unborn(d) /\ Create(d, Slot)
                             /\ device' = [device EXCEPT ![Slot] = d]
    BY <1>2 DEF RequestGranted
  <2>2. /\ adapter' = [adapter EXCEPT ![Slot] = "spent"]
        /\ UNCHANGED <<instance, scoped, deviceLost, pc, stage, scopes, owed, refused, pending,
                       born, history>>
    BY <1>2 DEF RequestGranted
  <2>3. /\ life[d] = "unborn" /\ d \notin owed /\ d # 0
        /\ life'[d] = "live" /\ slotOf'[d] = Slot
        /\ \A e \in Devices : e # d =>
              life'[e] = life[e] /\ slotOf'[e] = slotOf[e] /\ home'[e] = home[e]
    <3>1. refused' \subseteq 1..born
      BY <2>2 DEF ImplementationTypes
    <3> QED
      BY <1>0, <2>1, <2>2, <3>1, NewDevice DEF Unborn
  <2>4. /\ device'[Slot] = d
        /\ \A s \in Slots : s # Slot => device'[s] = device[s] /\ adapter'[s] = adapter[s]
    BY <1>0, <2>1, <2>2 DEF CacheTypes
  <2>5. ASSUME NEW e \in Devices, life'[e] \in {"live", "lost"} PROVE device'[slotOf'[e]] = e
    <3>1. CASE e = d
      BY <2>3, <2>4, <3>1
    <3>2. CASE e # d
      <4>1. e # 0 /\ slotOf[e] \in Slots
        BY DEF ImplementationTypes, Devices
      <4>2. life[e] \in {"live", "lost"}
        BY <2>3, <2>5, <3>2
      <4>3. device[slotOf[e]] = e
        BY <4>2 DEF Punctual
      <4> QED
        BY <1>0, <2>3, <2>4, <3>2, <4>1, <4>3
    <3> QED
      BY <3>1, <3>2
  <2>6. \A s \in Slots : adapter'[s] = "spent" => device'[s] # 0
    BY <2>3, <2>4 DEF Punctual
  <2>7. \A e \in owed' : /\ home'[e] = instance' /\ slotOf'[e] \in Cached /\ life'[e] = "lost"
    BY <1>0, <2>2, <2>3 DEF Punctual, ImplementationTypes
  <2>8. deviceLost' => LostHere' \/ denied'
    <3>1. deviceLost => LostHere \/ denied
      BY <1>0 DEF Punctual
    <3> QED
      BY <2>2, <2>3, <3>1 DEF LostHere
  <2> QED
    BY <1>0, <2>2, <2>5, <2>6, <2>7, <2>8 DEF Punctual, TearingDown
<1>3. CASE RequestFailed
  <2>1. /\ UNCHANGED <<instance, adapter, device, deviceLost, stage, life, home, slotOf, owed>>
        /\ refused' \in {refused, refused \cup {instance}} /\ denied' = TRUE
    BY <1>3 DEF RequestFailed, Refused, TimedOut, NothingCreated
  <2>2. pc' \in {"init", "finish"}
    BY <1>0, <1>3 DEF RequestFailed, LeaveBody
  <2>3. \A i \in refused' : i = instance' /\ denied'
    BY <2>1 DEF Punctual
  <2> QED
    BY <1>0, <2>1, <2>2, <2>3 DEF Punctual, TearingDown
<1> QED
  BY <1>1, <1>2, <1>3

LEMMA PunctualMismatched ==
  ASSUME ~Timeouts, IInv, Punctual, UseMismatched
  PROVE  Punctual'
<1> USE CacheAssumption DEF IInv, TypeOK, history, causes
<1>1. /\ pc = "body" /\ stage = 0 /\ ~TearingDown /\ device["other"] = 0
      /\ UNCHANGED <<instance, scoped, deviceLost, stage, scopes, owed, refused, pending, born,
                     denied>>
  BY DEF UseMismatched, InBody, Stages, TearingDown
<1>2. PICK got \in BOOLEAN :
        /\ adapter' = [adapter EXCEPT !["default"] = IF @ = "none" THEN "fresh" ELSE @,
                                      !["other"] = IF got THEN "spent" ELSE "fresh"]
        /\ IF got
           THEN /\ \E d \in Devices : /\ Unborn(d) /\ Create(d, "other")
                                      /\ device' = [device EXCEPT !["other"] = d]
                /\ UNCHANGED <<pc, outcome>>
           ELSE LeaveBody("failed") /\ UNCHANGED device /\ NothingCreated
  BY DEF UseMismatched
<1>3. /\ \A s \in Cached : adapter'[s] = "spent" => adapter[s] = "spent"
      /\ adapter'["other"] = "spent" => got
  BY <1>2 DEF CacheTypes, Slots, Cached
<1>4. CASE got
  <2>1. PICK d \in Devices : /\ Unborn(d) /\ Create(d, "other")
                             /\ device' = [device EXCEPT !["other"] = d]
    BY <1>2, <1>4
  <2>2. /\ life[d] = "unborn" /\ d \notin owed /\ d # 0
        /\ life'[d] = "live" /\ slotOf'[d] = "other"
        /\ \A e \in Devices : e # d =>
              life'[e] = life[e] /\ slotOf'[e] = slotOf[e] /\ home'[e] = home[e]
    <3>1. refused' \subseteq 1..born
      BY <1>1 DEF ImplementationTypes
    <3> QED
      BY <1>1, <2>1, <3>1, NewDevice DEF Unborn, Slots
  <2>3. /\ device'["other"] = d /\ \A s \in Slots : s # "other" => device'[s] = device[s]
    BY <2>1 DEF CacheTypes, Slots
  <2>4. pc' = "body"
    BY <1>1, <1>2, <1>4
  <2>5. ASSUME NEW e \in Devices, life'[e] \in {"live", "lost"} PROVE device'[slotOf'[e]] = e
    <3>1. CASE e = d
      BY <2>2, <2>3, <3>1
    <3>2. CASE e # d
      <4>1. device[slotOf[e]] = e /\ e # 0 /\ slotOf[e] \in Slots
        BY <2>2, <2>5, <3>2 DEF Punctual, ImplementationTypes, Devices
      <4> QED
        BY <1>1, <2>2, <2>3, <3>2, <4>1
    <3> QED
      BY <3>1, <3>2
  <2>6. \A s \in Slots : adapter'[s] = "spent" => device'[s] # 0
    BY <1>3, <2>2, <2>3 DEF Punctual, Cached, Slots
  <2>7. \A e \in owed' : /\ home'[e] = instance' /\ slotOf'[e] \in Cached /\ life'[e] = "lost"
    BY <1>1, <2>2 DEF Punctual, ImplementationTypes
  <2>8. deviceLost' => LostHere' \/ denied'
    <3>1. deviceLost => LostHere \/ denied
      BY <1>1 DEF Punctual
    <3> QED
      BY <1>1, <2>2, <3>1 DEF LostHere
  <2> QED
    BY <1>1, <2>4, <2>5, <2>6, <2>7, <2>8 DEF Punctual, TearingDown
<1>5. CASE ~got
  <2>1. /\ UNCHANGED <<instance, device, deviceLost, life, home, slotOf, owed>>
        /\ pc' = "finish"
    BY <1>1, <1>2, <1>5 DEF NothingCreated, LeaveBody
  <2>2. \A s \in Slots : adapter'[s] = "spent" => device'[s] # 0
    BY <1>3, <1>5, <2>1 DEF Punctual, Cached, Slots
  <2>3. deviceLost => LostHere' \/ denied
    BY <1>1, <2>1 DEF Punctual, LostHere
  <2> QED
    BY <1>1, <2>1, <2>2, <2>3 DEF Punctual, TearingDown
<1> QED
  BY <1>4, <1>5

LEMMA PunctualFinish ==
  ASSUME IInv, Punctual, Finish
  PROVE  Punctual'
<1> USE CacheAssumption DEF IInv, TypeOK
<1>1. /\ pc = "finish" /\ pc' = "idle" /\ stage = 0 /\ ~TearingDown
      /\ Release("other") /\ "other" \in Slots
      /\ UNCHANGED <<instance, deviceLost, stage, home, slotOf, owed, refused, denied>>
  BY DEF Finish, Finalize, Stages, TearingDown, Slots
<1>2. /\ device'["other"] = 0 /\ adapter'["other"] = "none"
      /\ \A t \in Slots : t # "other" => device'[t] = device[t] /\ adapter'[t] = adapter[t]
      /\ device["other"] \in Devices => life'[device["other"]] = "gone"
      /\ \A d \in Devices : d # device["other"] => life'[d] = life[d]
  BY <1>1, Released
<1>3. \A d \in Devices : slotOf[d] \in Cached => d # device["other"]
  BY DEF Handles, Slots, Cached, Devices
<1>4. ASSUME NEW d \in Devices, life'[d] \in {"live", "lost"} PROVE device'[slotOf'[d]] = d
  <2>1. life[d] = life'[d] /\ d # device["other"]
    BY <1>2, <1>4
  <2>2. device[slotOf[d]] = d /\ slotOf[d] \in Slots /\ slotOf[d] # "other"
    BY <1>4, <2>1 DEF Punctual, ImplementationTypes
  <2> QED
    BY <1>1, <1>2, <2>2
<1>5. \A t \in Slots : adapter'[t] = "spent" => device'[t] # 0
  BY <1>2 DEF Punctual
<1>6. \A d \in owed : home[d] = instance /\ slotOf[d] \in Cached /\ life'[d] = "lost"
  BY <1>1, <1>2, <1>3 DEF Punctual, ImplementationTypes
<1>7. deviceLost => LostHere' \/ denied
  <2>1. deviceLost => LostHere \/ denied
    BY <1>1 DEF Punctual
  <2> QED
    BY <1>1, <1>2, <1>3, <2>1 DEF LostHere
<1> QED
  BY <1>1, <1>4, <1>5, <1>6, <1>7 DEF Punctual, TearingDown

LEMMA PunctualEnvironment ==
  ASSUME IInv, Punctual, Environment
  PROVE  Punctual'
<1> USE DEF IInv, TypeOK, cacheVars, runVars, history, causes
<1>1. ASSUME NEW d \in Devices, LoseDevice(d) PROVE Punctual'
  <2>1. /\ life[d] = "live" /\ life' = [life EXCEPT ![d] = "lost"]
        /\ owed' = IF slotOf[d] \in Cached THEN owed \cup {d} ELSE owed
        /\ UNCHANGED <<cacheVars, runVars, home, slotOf, scopes, refused, pending, born, history>>
    BY <1>1 DEF LoseDevice
  <2>2. life'[d] = "lost" /\ \A e \in Devices : e # d => life'[e] = life[e]
    BY <2>1 DEF ImplementationTypes
  <2>3. device[slotOf[d]] = d /\ slotOf[d] \in Slots /\ d # 0
    BY <2>1, HeldDevices
  <2>4. home[d] = instance /\ pc # "done" /\ stage # 5
    BY <2>3 DEF Handles, Stages, Slots, TearingDown
  <2>5. LostHere => LostHere'
    BY <2>1, <2>2 DEF LostHere
  <2>6. \A e \in owed' : /\ home[e] = instance /\ slotOf[e] \in Cached
                         /\ TearingDown \/ life'[e] = "lost"
    BY <2>1, <2>2, <2>4 DEF Punctual, ImplementationTypes
  <2> QED
    BY <2>1, <2>2, <2>4, <2>5, <2>6 DEF Punctual, TearingDown
<1>2. ASSUME NEW d \in Devices, ReportLoss(d) PROVE Punctual'
  <2>1. /\ d \in owed /\ owed' = owed \ {d}
        /\ UNCHANGED <<instance, adapter, device, scoped, runVars, life, home, slotOf, scopes,
                       refused, pending, born, condemned, late, denied, erred, foreign>>
    BY <1>2 DEF ReportLoss
  <2>2. TearingDown \/ LostHere
    BY <2>1 DEF Punctual, LostHere
  <2> QED
    BY <2>1, <2>2 DEF Punctual, TearingDown, LostHere
<1>3. ASSUME NEW p \in pending, DeliverError(p) PROVE Punctual'
  <2>1. UNCHANGED <<instance, adapter, device, deviceLost, pc, stage, life, home, slotOf, owed,
                    refused, denied>>
    BY <1>3 DEF DeliverError
  <2> QED
    BY <2>1 DEF Punctual, TearingDown, LostHere
<1>4. ASSUME NEW i \in refused, ReportRefusal(i) PROVE Punctual'
  <2>1. /\ i \in refused /\ refused' = refused \ {i}
        /\ UNCHANGED <<instance, adapter, device, pc, stage, life, home, slotOf, owed, denied>>
    BY <1>4 DEF ReportRefusal
  <2>2. denied /\ (LostHere => LostHere')
    BY <2>1 DEF Punctual, LostHere
  <2> QED
    BY <2>1, <2>2 DEF Punctual, TearingDown
<1> QED
  BY <1>1, <1>2, <1>3, <1>4 DEF Environment

LEMMA NextPunctual ==
  ASSUME ~Timeouts, IInv, Punctual, [Next]_vars
  PROVE  Punctual'
<1> USE DEF cacheVars, runVars, implVars, history, causes
<1>1. CASE \E f \in Files : RunCase(f)
  BY <1>1, PunctualQuiet DEF RunCase, IInv, Stages, TearingDown
<1>2. CASE StartTest
  <2>1. \/ deviceLost /\ pc' = "recycle" /\ stage' = 1
        \/ pc' = "init" /\ stage' = stage
    BY <1>2 DEF StartTest, MustRecycle
  <2> QED
    BY <1>2, <2>1, PunctualQuiet DEF StartTest, IInv, Stages, TearingDown
<1>3. CASE SkipUnimplemented
  BY <1>3, PunctualQuiet DEF SkipUnimplemented, IInv, Stages, TearingDown
<1>4. CASE Exit
  BY <1>4 DEF Exit, Punctual, TearingDown, LostHere
<1>5. CASE EnterBody \/ LimitsFailed \/ \E how \in {"returned", "failed", "skipped"} : EndBody(how)
  BY <1>5, PunctualQuiet DEF EnterBody, LimitsFailed, EndBody, LeaveBody, IInv, Stages, TearingDown
<1>6. CASE \E t \in Tags : UseScopedObject(t)
  BY <1>6, PunctualQuiet DEF UseScopedObject, InBody, runVars, IInv, Stages, TearingDown
<1>8. CASE RaiseError
  BY <1>8, PunctualQuiet DEF RaiseError, InBody, IInv, Stages, TearingDown
<1>9. CASE \E how \in {"returned", "failed", "skipped"} : ThrowInScope(how)
  BY <1>9, PunctualQuiet DEF ThrowInScope, InBody, LeaveBody, IInv, Stages, TearingDown
<1>7. CASE UNCHANGED vars
  BY <1>7 DEF vars, Punctual, TearingDown, LostHere
<1> QED
  BY <1>1, <1>2, <1>3, <1>4, <1>5, <1>6, <1>7, <1>8, <1>9, PunctualTearDown, PunctualRequests,
     PunctualMismatched, PunctualFinish, PunctualEnvironment DEF Next, Harness

LEMMA AlwaysPunctual ==
  ASSUME ~Timeouts PROVE Spec => []Punctual
BY InitPunctual, NextPunctual, CacheInvariant, PTL DEF Spec

(* Then a recycle has a cause on the present instance: a device it lost, or  *)
(* one it refused.                                                           *)
THEOREM RecyclesAreDue == ASSUME ~Timeouts PROVE Spec => []NoForcedRecycle
<1>1. Punctual => NoForcedRecycle
  BY DEF Punctual, LostHere, NoForcedRecycle
<1> QED
  BY <1>1, AlwaysPunctual, PTL

(* A consumed adapter has its device, so that no request of a later test     *)
(* meets it.                                                                 *)
THEOREM AdaptersHaveTheirDevices == ASSUME ~Timeouts PROVE Spec => []AdapterHasItsDevice
<1>1. Punctual => AdapterHasItsDevice
  BY DEF Punctual, AdapterHasItsDevice, Cached, Slots
<1> QED
  BY <1>1, AlwaysPunctual, PTL

=============================================================================
