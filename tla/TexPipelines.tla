---------------------------- MODULE TexPipelines -----------------------------
(* The pipelines of the sampling and gathering tests (texture_utils.cpp).   *)
(* A device keeps the pipelines its tests made: one made for a sampling     *)
(* test serves every later test with the same shader text, one made for a   *)
(* gathering test needs the same sample type, sampler and view besides.  A  *)
(* text is the record of all it says that may differ between two cases, its *)
(* first comment included; an entry is what a binding of the layout asks    *)
(* for, a bundle the text and the layout a pipeline is made of.             *)
EXTENDS TexCases, TexCaches

(* What the texts say.                                                      *)
Shapes ==
    [Sampled1D |-> "1d", Sampled2D |-> "2d", Sampled2DLodClamp |-> "2d", Sampled2DArray |-> "2d_array",
     Sampled3D |-> "3d", Sampled3DLodClamp |-> "3d", SampledCube |-> "cube", SampledCubeLodClamp |-> "cube",
     SampledCubeArray |-> "cube_array", Depth2D |-> "depth_2d", Depth2DArray |-> "depth_2d_array",
     DepthCube |-> "depth_cube", DepthCubeArray |-> "depth_cube_array"]
gatherResultTypeForFormat(f) ==
    CASE FormatInfo[f].sample = "uint" -> "u32"
      [] FormatInfo[f].sample = "sint" -> "i32"
      [] OTHER -> "f32"
textureType(c) ==
    [shape |-> Shapes[c.kind],
     of |-> CASE c.isDepth -> "none" [] c.gather /\ ~c.isDepth -> gatherResultTypeForFormat(c.format) [] OTHER -> "f32"]

threeAxes(c) == c.dimension = "3d" \/ isCubeKind(c.kind)
coordParamExpr(c) ==
    CASE c.kind = "Sampled1D" -> "x"
      [] c.kind \in {"Sampled2D", "Sampled2DLodClamp", "Sampled2DArray", "Depth2D", "Depth2DArray"} -> "xy"
      [] OTHER -> "xyz"
derivativeMultParamExpr(c) == IF c.dimension = "1d" THEN "x" ELSE IF threeAxes(c) THEN "xyz" ELSE "xy"
gradientParamExpr(c) == IF threeAxes(c) THEN "xyz" ELSE "xy"
implicitDerivatives(c) == c.builtin \in {"textureSample", "textureSampleBias", "textureSampleCompare"}
coordParamExprForSample(c) ==
    <<coordParamExpr(c), IF implicitDerivatives(c) /\ c.stage = "fragment" THEN derivativeMultParamExpr(c) ELSE "none">>
levelParamExpr(c) == c.levelType
arrayIndexParamExpr(c) == IF c.useArrayIndex THEN c.arrayIndexType ELSE "none"
\* The constant offset of the i-th call is that of offsetForCallIndex, as a vector of two or of three.
offsetExprForCallIndex(c) == IF ~c.useOffset THEN "none" ELSE IF c.dimension = "3d" THEN "vec3i" ELSE "vec2i"

\* Outside fragment shaders the builtins that need derivatives are replaced.
sampledBy(c) ==
    CASE implicitDerivatives(c) /\ c.stage # "fragment" /\ c.builtin = "textureSampleCompare" -> "textureSampleCompareLevel"
      [] implicitDerivatives(c) /\ c.stage # "fragment" /\ c.builtin # "textureSampleCompare" -> "textureSampleLevel"
      [] OTHER -> c.builtin
sampleExprFromParams(c) ==
    [builtin |-> sampledBy(c), coords |-> coordParamExprForSample(c), arrayIndex |-> arrayIndexParamExpr(c),
     last |-> CASE sampledBy(c) \in {"textureSampleCompare", "textureSampleCompareLevel"} -> "depthRef"
                [] sampledBy(c) = "textureSampleGrad" -> gradientParamExpr(c)
                [] sampledBy(c) = "textureSampleBias" -> "bias"
                [] sampledBy(c) = "textureSampleLevel" -> levelParamExpr(c)
                [] OTHER -> "none",
     offset |-> offsetExprForCallIndex(c), widened |-> c.isDepth]
gatherExprFromParams(c) ==
    [builtin |-> IF c.gatherCompare THEN "textureGatherCompare" ELSE "textureGather",
     component |-> IF c.isDepth THEN -1 ELSE c.gatherComponent,
     coords |-> coordParamExpr(c), arrayIndex |-> arrayIndexParamExpr(c), offset |-> offsetExprForCallIndex(c)]

\* A text with a call of its own for each invocation names their number, and so do the quads of a render pass.
NumberOfCalls(c) == Cardinality(CallIndices(c))
usesUnconditionalCallSelection(c) ==
    \/ implicitDerivatives(c) /\ c.stage = "fragment"
    \/ c.builtin = "textureSampleGrad" /\ c.useArrayIndex
buildComputeWgsl(c) ==
    [stage |-> c.stage, filt |-> c.filt, type |-> textureType(c), comparison |-> c.comparison,
     expr |-> sampleExprFromParams(c), selected |-> usesUnconditionalCallSelection(c),
     calls |-> IF usesUnconditionalCallSelection(c) \/ c.useOffset THEN NumberOfCalls(c) ELSE 0]
buildRenderWgsl(c) ==
    [stage |-> c.stage, filt |-> c.filt, type |-> textureType(c), comparison |-> c.comparison,
     expr |-> sampleExprFromParams(c), selected |-> usesUnconditionalCallSelection(c), calls |-> NumberOfCalls(c),
     derivatives |-> <<c.dimension = "1d", c.dimension = "3d", isCubeKind(c.kind)>>]
buildGatherWgsl(c) ==
    [stage |-> c.stage, type |-> textureType(c), comparison |-> c.comparison, expr |-> gatherExprFromParams(c),
     calls |-> IF c.useOffset \/ c.stage # "compute" THEN NumberOfCalls(c) ELSE 0]
samplingWgsl(c) == IF c.stage = "compute" THEN buildComputeWgsl(c) ELSE buildRenderWgsl(c)

(* What the layouts ask for.                                                *)
samplerBindingType(c) ==
    CASE c.comparison -> "comparison"
      [] ~c.comparison /\ ~c.isDepth /\ c.filt = "linear" -> "filtering"
      [] OTHER -> "non-filtering"
textureSampleType(c) ==
    CASE c.isDepth -> "depth" [] ~c.isDepth /\ c.filt = "linear" -> "float" [] OTHER -> "unfilterable-float"
gatherTextureSampleType(c) ==
    CASE c.isDepth -> "depth"
      [] ~c.isDepth /\ FormatInfo[c.format].sample \in {"uint", "sint"} -> FormatInfo[c.format].sample
      [] ~c.isDepth /\ isDepthFormat(c.format) -> "unfilterable-float"
      [] OTHER -> "float"
\* The buffers of results and of parameters are bound alike in every layout.
Layout(c, sampleType, sampler) ==
    [visibility |-> c.stage, sampleType |-> sampleType, viewDimension |-> c.view, sampler |-> sampler]
createCachedBindGroupLayout(c) == Layout(c, textureSampleType(c), samplerBindingType(c))
createGatherBindGroupLayout(c) ==
    Layout(c, gatherTextureSampleType(c), IF c.comparison THEN "comparison" ELSE "non-filtering")
createSamplingPipelineBundle(c) ==
    [module |-> samplingWgsl(c), layout |-> createCachedBindGroupLayout(c), compute |-> c.stage = "compute"]
createGatherPipelineBundle(c) ==
    [module |-> buildGatherWgsl(c), layout |-> createGatherBindGroupLayout(c), compute |-> c.stage = "compute"]

(* The caches: under which key a test finds or leaves its pipeline, and the *)
(* keys under which tests of the given cases may have left another.         *)
samplingKey(c) == samplingWgsl(c)
gatherKey(c) ==
    [wgsl |-> buildGatherWgsl(c), sampleType |-> gatherTextureSampleType(c), comparison |-> c.comparison, view |-> c.view]
samplingPipelineForDevice(c) == [key |-> <<"sampling", samplingKey(c)>>, bundle |-> createSamplingPipelineBundle(c)]
gatherPipelineForDevice(c) == [key |-> <<"gathering", gatherKey(c)>>, bundle |-> createGatherPipelineBundle(c)]
PipelineFor(c) == IF c.gather THEN gatherPipelineForDevice(c) ELSE samplingPipelineForDevice(c)
MistakenKeys(cases) == MistakenAmong({PipelineFor(c) : c \in cases})
=============================================================================
