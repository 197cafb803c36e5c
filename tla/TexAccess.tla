------------------------------ MODULE TexAccess ------------------------------
(* The tests that query, load from and store to textures (texture_utils.cpp)*)
(* on a device that does as WebGPU and WGSL say: a test makes its texture,  *)
(* view and binding, or is skipped, and compares what the device answers    *)
(* with what it expects.  The device keeps the pipelines of earlier tests.  *)
EXTENDS TexBundles

CONSTANTS Devices,         \* the sets of optional features a device may have
          StencilChannels  \* what it may return in the middle and the last of a stencil's channels

VARIABLES case,     \* the case under test
          features, \* what the device offers
          mistaken, \* the keys under which its caches may hold a pipeline that another test would not have made
          outcome   \* of the test: "pending", "skipped", "malformed", "failed" or "passed"
vars == <<case, features, mistaken, outcome>>

\* A test that asks for what the device must refuse fails before it compares anything; so does one that
\* is given a pipeline made for bindings that are not its own.
WellFormed(c, t, v) ==
    /\ ValidTexture(t, features) /\ ValidView(t, v) /\ ValidBinding(c, t, v, features)
    /\ Made(case).key \notin mistaken
Outcome(skipped, wellFormed, agrees) ==
    CASE skipped -> "skipped"
      [] ~skipped /\ ~wellFormed -> "malformed"
      [] ~skipped /\ wellFormed -> IF agrees THEN "passed" ELSE "failed"
\* A level of the texture is copied to or from a buffer laid out for it.
Fits(copy, layout) == ~copy.fails /\ copy.bytes <= layout.byteLength
LaidOut(t, layout) == Fits(dataBytesForCopyOrFail(layout, t.format, layout.mipSize), layout)
CopyFits(t, mip) == LaidOut(t, getTextureCopyLayout(t.format, t.dimension, t.size, mip))

(* Queries.                                                                 *)
executeMetadataQuery ==
    /\ outcome = "pending" /\ case.test = "query"
    /\ outcome' = Outcome(skipIfTextureUnsupported(case, features), WellFormed(case, textureDesc(case), viewDesc(case)),
                          case.expected = DeviceAnswer(textureDesc(case), viewDesc(case), case.ask, case.level))
    /\ UNCHANGED <<case, features, mistaken>>

(* Loads.                                                                   *)
Filled(d, t) ==
    /\ ValidTexture(t, features) /\ FillUsage(d) \subseteq d.usage
    /\ prepareTextureLoadMips(d) = "colours" => \A mip \in 0 .. d.mips - 1 : CopyFits(t, mip)
Reaches(c, t, v, call) ==
    InView(t, v, call.x, call.y, call.z, call.arrayIndex, IF TakesLevel(c.type) THEN call.level ELSE 0)
LoadWellFormed(source, c, calls) ==
    /\ Filled(source, textureDesc(source)) /\ Filled(c, textureDesc(c)) /\ WellFormed(c, textureDesc(c), viewDesc(c))
    /\ c.useLevel = TakesLevel(c.type) /\ c.useArrayIndex = TakesLayer(c.type)
    /\ \A call \in calls : Reaches(c, textureDesc(c), viewDesc(c), call)
LoadAgrees(c, expected, got) == \A k \in 0 .. 3 : textureLoadBitsMatch(c, k, expected[k], got[k])
LoadsAgree(source, c, calls) ==
    \A call \in calls : \A got \in DeviceLoads(source.format, c, call, StencilChannels) :
        LoadAgrees(c, expectedTextureLoadBits(source.format, c, call), got)
\* One texture is filled, and that or one of floats with the same texels is loaded from.
LoadOutcome(source, c, calls) ==
    Outcome(skipIfTextureUnsupported(source, features), LoadWellFormed(source, c, calls), LoadsAgree(source, c, calls))
LoadOutcomeFrom(source, c) == LoadOutcome(source, c, {makeLoadCall(c, i) : i \in 0 .. kCallCount - 1})
LoadOutcomeOf(source) == LoadOutcomeFrom(source, Loaded(source))
executeTextureLoadCase ==
    /\ outcome = "pending" /\ case.test = "load"
    /\ outcome' = LoadOutcomeOf(Rerouted(case))
    /\ UNCHANGED <<case, features, mistaken>>

(* Stores.                                                                  *)
\* What is read back of every level, a texel at a time; only the first test allows for rounding.
TexelMatches(c, expected, got) ==
    IF c.kind = "texels" THEN normalizedStoreTexelMatches(c.format, expected, got)
    ELSE ExactStoreTexelMatches(c.format, expected, got)
LandedWrites(c, x, y, z) == Landed(textureDesc(c), viewDesc(c), Writes(c, <<x, y, z>>))
LevelAgrees(c, landed, mip, s) ==
    \A x \in 0 .. s.w - 1, y \in 0 .. s.h - 1, z \in 0 .. s.d - 1 :
        \A got \in DeviceHolds(c, IF c.kind = "texels" THEN LandedWrites(c, x, y, z) ELSE landed,
                              [mip |-> mip, x |-> x, y |-> y, z |-> z]) :
            TexelMatches(c, ExpectedStored(c, mip, s, x, y, z), got)
LevelsAgree(c, landed) == \A mip \in LevelsRead(c) : LevelAgrees(c, landed, mip, LevelExtent(textureDesc(c), mip))
StoresAgree(c) == LevelsAgree(c, IF c.kind = "texels" THEN {} ELSE LandedWrites(c, 0, 0, 0))
StoreWellFormed(c, t) ==
    /\ WellFormed(c, t, viewDesc(c)) /\ "CopySrc" \in c.usage
    /\ \A mip \in LevelsRead(c) : CopyFits(t, mip)
Stored(kind, skipped) ==
    /\ outcome = "pending" /\ case.test = "store" /\ case.kind = kind
    /\ outcome' = Outcome(skipped, StoreWellFormed(case, textureDesc(case)), StoresAgree(case))
    /\ UNCHANGED <<case, features, mistaken>>
storeTexelFormats == Stored("texels", skipIfTextureUnsupported(case, features))
storeBgra8unormSwizzle == Stored("swizzle", "write" \notin FormatInfo["bgra8unorm"].storage)
storeOutOfBounds == Stored("bounds", skipIfNoStorageTexturesInStage("compute", features))
storeOutOfBoundsArray == Stored("array", skipIfNoStorageTexturesInStage("compute", features))

Start(queries, loads, stores) ==
    /\ mistaken = UNION {MistakenKeys(cases) : cases \in {queries, loads, stores}}
    /\ case \in queries \cup loads \cup stores /\ features \in Devices /\ outcome = "pending"
Init == Start(QueryCases, LoadCases, StoreCases)
Next ==
    \/ executeMetadataQuery \/ executeTextureLoadCase
    \/ storeTexelFormats \/ storeBgra8unormSwizzle \/ storeOutOfBounds \/ storeOutOfBoundsArray
Spec == Init /\ [][Next]_vars

(* Properties.                                                              *)
\* No test that is not skipped asks a device for a texture, view, binding, copy or texel that WebGPU
\* makes it refuse, whatever optional features it lacks.
NoTestIsMalformed == outcome # "malformed"
\* No query test blames a device that answers with the size, levels, layers and samples of the view.
ConformingQueriesPass == outcome = "failed" => case.test # "query"
\* No load test blames a device that returns the texel at the coordinates, layer, level and sample of
\* the view, also where a compressed texture is loaded through one of floats.
ConformingLoadsPass == outcome = "failed" => case.test # "load"
\* No store test blames a device that writes inside the view only, and rounds halfway either way.
ConformingStoresPass == outcome = "failed" => case.test # "store"
=============================================================================
