----------------------------- MODULE TexOracles ------------------------------
(* executeCase and executeGatherCase (texture_utils.cpp): a test takes a    *)
(* case, generates its calls, and fails on the first call whose result on   *)
(* the device is not the one the software sampler expects.  The device here *)
(* conforms (TexDevice), so that a mismatch is a false alarm of the tests.  *)
(* It keeps the pipelines of the tests before, of any number of them.       *)
EXTENDS TexDevice, TexPipelines

CONSTANTS SamplingCases, \* the cases the tests of sampling make
          GatherCases    \* those of the tests of gathering

(* The weights the tests use are those read from the device: how much of    *)
(* the next level a sample between two levels holds, step by step.          *)
QueryCase(filt) == With(TextureCase, [format |-> "r8unorm", w |-> 2, h |-> 2, mips |-> 2, filt |-> filt])
QueryCall(step) ==
    With(PlainCall, [coords |-> <<<<1, 2>>, <<1, 2>>, <<0, 1>>>>, level |-> (step * LevelUnit) \div WeightSteps])
WhitePart(m) == (MapThenSumSet(LAMBDA id : m.num[id], {id \in DOMAIN m.num : id[1] = 1}) * WeightDen) \div m.den
queryMipLevelMixWeightsForDevice(filt) ==
    [n \in 1 .. WeightSteps + 1 |-> WhitePart(DeviceSample(QueryCase(filt), QueryCall(n - 1)))]
ASSUME WeightsAreQueried ==
    /\ LinearWeights = queryMipLevelMixWeightsForDevice("linear")
    /\ NearestWeights = queryMipLevelMixWeightsForDevice("nearest")

VARIABLES case,       \* the case under test
          swizzle,    \* whether the device has texture-component-swizzle
          mistaken,   \* the keys under which its caches may hold a pipeline that another test would not have made
          tested,     \* whether its calls were compared
          mismatches  \* the calls that differed
vars == <<case, swizzle, mistaken, tested, mismatches>>

\* Results agree when every texel has the same part in both: one is the other over a finer denominator.
Refines(a, b) ==
    /\ b.den % a.den = 0
    /\ DOMAIN a.num = DOMAIN b.num
    /\ \A id \in DOMAIN a.num : b.num[id] = (b.den \div a.den) * a.num[id]
Agree(expected, got) == Refines(expected, got) \/ Refines(got, expected)

\* The calls whose result is for the device to choose: they read across a corner of a cube.
DevicesChoice(c, call) == \E mip \in Range(DeviceLevels(c, call)) : TouchesCorner(c, mip, call)
\* Every pipeline the device may hold for a case must be the one the case is made for: any other has
\* bindings the texture or the sampler does not fit, or runs another shader.
OwnPipeline(c) == PipelineFor(c).key \notin mistaken
SampleMismatch(c, call) == ~DevicesChoice(c, call) /\ ~Agree(expectedSample(c, call), DeviceSample(c, call))
SampleMismatches(c) == {i \in CallIndices(c) : SampleMismatch(c, generateCall(c, i))}
CornersDiffer(expected, got) == \E corner \in 1 .. 4 : ~Agree(expected[corner], got[corner])
GatherMismatch(c, call) == ~DevicesChoice(c, call) /\ CornersDiffer(expectedGather(c, call), DeviceGather(c, call))
GatherMismatches(c) == {i \in CallIndices(c) : GatherMismatch(c, generateCall(c, i))}

Start(cases) ==
    /\ mistaken = MistakenKeys(cases)
    /\ case \in cases
    /\ swizzle \in IF case.gather THEN BOOLEAN ELSE {FALSE}
    /\ tested = FALSE /\ mismatches = {}
Init == Start(SamplingCases \cup GatherCases)

SampleOutcome(c, owned) == IF owned THEN SampleMismatches(c) ELSE CallIndices(c)
executeCase ==
    /\ ~tested /\ ~case.gather
    /\ mismatches' = SampleOutcome(adjustedBaseSizeForFormat(case), OwnPipeline(case))
    /\ tested' = TRUE
    /\ UNCHANGED <<case, swizzle, mistaken>>

GatherOutcome(c, checked, owned) ==
    CASE ~checked -> {} [] checked /\ owned -> GatherMismatches(c) [] OTHER -> CallIndices(c)
executeGatherCase ==
    /\ ~tested /\ case.gather
    /\ mismatches' = GatherOutcome(adjustedBaseSizeForFormat(case), gatherChecked(case, swizzle), OwnPipeline(case))
    /\ tested' = TRUE
    /\ UNCHANGED <<case, swizzle, mistaken>>

Next == executeCase \/ executeGatherCase
Spec == Init /\ [][Next]_vars

(* Properties.                                                              *)
\* No sampling test blames a device that filters, wraps, clamps, chooses its levels and compares as
\* the specification says.
ConformingSamplersPass == mismatches # {} => case.gather
\* No gathering test blames a device that returns the four texels around the coordinate, in order,
\* also across the edges of a texture.
ConformingGathersPass == mismatches # {} => ~case.gather
=============================================================================
