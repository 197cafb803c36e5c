------------------------------ MODULE TexCases ------------------------------
(* The cases of the texture builtins and the calls each one makes           *)
(* (texture_utils.cpp).  A case is a record of the choices a test makes; a  *)
(* call carries the arguments one invocation of the shader reads from the   *)
(* parameter buffer.  Levels are counted in twentieths, depths in           *)
(* thousandths, a coordinate is a fraction <<n, d>>, a direction into a     *)
(* cube a vector of integers, whose length does not matter.                 *)
EXTENDS TexFormats

CONSTANTS Side,             \* the width and height of a texture, 8 in the code
          ImplicitCubeSide, \* that of a cube sampled with implicit derivatives, 32 in the code
          CubeLayers,       \* the faces of a cube array, 24 in the code
          CallCount,        \* kCallCount
          SpiralPlane(_),   \* the point of the i-th call of a spiral: numerators over 8 * Side
          SpiralCube(_),    \* the direction of the i-th call of a spiral
          SpiralWide(_)     \* the i-th point of the wider spiral: numerators over 64

kMipLevelCount == 3
LevelUnit == 20

\* The formats and filters of the tests of sampled textures, of depth textures and of gathers.
SampledFormats ==
    {<<f, filt>> \in Formats \X {"nearest", "linear"} :
        /\ isPotentiallyFilterableAndFillable(f) /\ isSampledColorTextureFormatParam(f)
        /\ filt = "linear" => isPossiblyFilterableAsTextureF32(f)}
DepthFormats == {f \in Formats : isDepthFormat(f)}
GatherFormats ==
    {<<f, filt>> \in Formats \X {"nearest", "linear"} :
        isGatherFillableFormatParam(f) /\ (filt = "linear" => isPossiblyFilterableAsTextureF32(f))}
shortShaderStages == {"vertex", "fragment", "compute"}
shortAddressModes == {"clamp", "repeat", "mirror"}
samplePointMethods == {"texel-centre", "spiral"}
cubeSamplePointMethods == samplePointMethods \cup {"cube-edges"}
compareFunctions == <<"never", "less", "equal", "less-equal", "greater", "not-equal", "greater-equal", "always">>
\* The ranges of levels a view and its sampler leave.
lodClampParams ==
    LET Range3(m, lo, hi) == [baseMipLevel |-> m, lodMinClamp |-> lo, lodMaxClamp |-> hi]
    IN  {Range3(0, 0, 40), Range3(0, 5, 35), Range3(1, 0, 20), Range3(0, 0, 20), Range3(0, 20, 40)}

(* Cases.                                                                   *)
isCubeKind(kind) == kind \in {"SampledCube", "SampledCubeLodClamp", "SampledCubeArray", "DepthCube", "DepthCubeArray"}
TextureCase ==
    [kind |-> "Sampled2D", format |-> "rgba8unorm", dimension |-> "2d", view |-> "2d",
     w |-> Side, h |-> Side, d |-> 1, mips |-> kMipLevelCount, baseMip |-> 0, lodMin |-> 0, lodMax |-> 32 * LevelUnit,
     isDepth |-> FALSE, useOffset |-> FALSE, useArrayIndex |-> FALSE, arrayIndexType |-> "i32", levelType |-> "f32",
     builtin |-> "textureSampleLevel", stage |-> "compute", filt |-> "nearest", samplePoints |-> "texel-centre",
     compare |-> "less", modeU |-> "clamp", modeV |-> "clamp", modeW |-> "clamp", comparison |-> FALSE,
     baseClampToEdge |-> FALSE, gather |-> FALSE, gatherCompare |-> FALSE, gatherComponent |-> 0,
     unaligned |-> FALSE, explicit |-> {}]

With(c, fields) == fields @@ c
Modes(p, c) == With(c, [modeU |-> p.modeU, modeV |-> p.modeV])
AllModes(mode, c) == With(c, [modeU |-> mode, modeV |-> mode, modeW |-> mode])
Layered(p, n, c) == With(c, [view |-> "2d-array", d |-> n, useArrayIndex |-> TRUE, arrayIndexType |-> p.A])
CubeOf(side, c) == With(c, [view |-> "cube", w |-> side, h |-> side, d |-> 6])
CubeArrayOf(p, side, c) ==
    With(c, [view |-> "cube-array", w |-> side, h |-> side, d |-> CubeLayers, useArrayIndex |-> TRUE, arrayIndexType |-> p.A])
Line(c) == With(c, [dimension |-> "1d", view |-> "1d", h |-> 1, mips |-> 1])
Volume(c) == With(c, [dimension |-> "3d", view |-> "3d", d |-> Side])
LodClamp(p, c) == With(c, [baseMip |-> p.baseMipLevel, lodMin |-> p.lodMinClamp, lodMax |-> p.lodMaxClamp])

\* A width or height kept aligned to blocks at every level of a compressed texture.
adjustedBaseSizeForFormat(c) ==
    IF isUncompressed(c.format) \/ c.unaligned THEN c
    ELSE LET block == FormatInfo[c.format].block
             wm == block[1] * 2 ^ (c.mips - 1)
             hm == block[2] * 2 ^ (c.mips - 1)
             w == alignToU32(Max({c.w, wm}), wm)
             h == IF c.dimension = "1d" THEN c.h ELSE alignToU32(Max({c.h, hm}), hm)
             side == alignToU32(Max({w, h}), lcmU32(wm, hm))
         IN  IF c.view \in {"cube", "cube-array"} THEN With(c, [w |-> side, h |-> side]) ELSE With(c, [w |-> w, h |-> h])

Common(p, kind) == With(TextureCase, [kind |-> kind, format |-> p.format, samplePoints |-> p.samplePoints])
baseSampledCase(p, kind) == With(Common(p, kind), [stage |-> p.stage, filt |-> p.filt])
baseTextureSampleSampledCase(p, kind) ==
    With(Common(p, kind), [stage |-> "fragment", filt |-> p.filt, builtin |-> "textureSample"])
baseTextureSampleGradSampledCase(p, kind) == With(baseSampledCase(p, kind), [builtin |-> "textureSampleGrad"])
baseTextureSampleBiasSampledCase(p, kind) == With(baseTextureSampleSampledCase(p, kind), [builtin |-> "textureSampleBias"])
baseDepthCase(p, kind) ==
    AllModes(p.mode, With(Common(p, kind), [stage |-> p.stage, isDepth |-> TRUE, levelType |-> p.L]))
baseTextureSampleDepthCase(p, kind) ==
    With(Common(p, kind), [stage |-> "fragment", isDepth |-> TRUE, builtin |-> "textureSample"])
baseTextureSampleCompareCase(p, kind, stage, builtin) ==
    With(Common(p, kind), [stage |-> stage, filt |-> p.filt, compare |-> p.compare, isDepth |-> TRUE,
                           comparison |-> TRUE, builtin |-> builtin])
baseTextureSampleBaseClampToEdgeCase(p) ==
    With(Common([p EXCEPT !.format = "rgba8unorm"], "Sampled2D"),
         [stage |-> p.stage, filt |-> p.filt, builtin |-> "textureSampleBaseClampToEdge", baseClampToEdge |-> TRUE,
          modeU |-> p.modeU, modeV |-> p.modeV])
baseGatherCase(p, kind, depth) ==
    With(Common(p, kind), [stage |-> p.stage, gather |-> TRUE, builtin |-> "textureGather", isDepth |-> depth,
                           filt |-> IF depth THEN "nearest" ELSE p.filt])

(* The tests: each makes one case of its parameters.                        *)
executeTextureSampleLevelSampled1D(p) == Modes(p, Line(baseSampledCase(p, "Sampled1D")))
executeTextureSampleLevelSampled2D(p) == With(Modes(p, baseSampledCase(p, "Sampled2D")), [useOffset |-> p.offset])
executeTextureSampleLevelSampled2DLodClamp(p) == LodClamp(p, baseSampledCase(p, "Sampled2DLodClamp"))
executeTextureSampleLevelSampled2DArray(p) ==
    With(Layered(p, p.layers, Modes(p, baseSampledCase(p, "Sampled2DArray"))), [useOffset |-> p.offset])
executeTextureSampleLevelSampled3D(p) ==
    IF p.dim = "3d" THEN With(Volume(AllModes(p.mode, baseSampledCase(p, "Sampled3D"))), [useOffset |-> p.offset])
    ELSE CubeOf(Side, AllModes(p.mode, baseSampledCase(p, "SampledCube")))
executeTextureSampleLevelSampled3DLodClamp(p) ==
    LodClamp(p, IF p.dim = "3d" THEN Volume(baseSampledCase(p, "Sampled3DLodClamp"))
                ELSE CubeOf(Side, baseSampledCase(p, "SampledCubeLodClamp")))
executeTextureSampleLevelSampledCubeArray(p) ==
    CubeArrayOf(p, Side, AllModes(p.mode, baseSampledCase(p, "SampledCubeArray")))
executeTextureSampleLevelDepth2D(p) == With(baseDepthCase(p, "Depth2D"), [useOffset |-> p.offset])
executeTextureSampleLevelDepth2DArray(p) ==
    With(Layered(p, p.layers, baseDepthCase(p, "Depth2DArray")), [useOffset |-> p.offset])
executeTextureSampleLevelDepth3D(p) ==
    IF p.viewDimension = "cube" THEN CubeOf(Side, baseDepthCase(p, "DepthCube"))
    ELSE CubeArrayOf(p, Side, baseDepthCase(p, "DepthCubeArray"))

executeTextureSampleSampled1D(p) == With(Line(baseTextureSampleSampledCase(p, "Sampled1D")), [modeU |-> p.modeU])
\* textureSample, textureSampleGrad and textureSampleBias of colours differ in the base case.
ImplicitBase(p, kind) ==
    CASE p.builtin = "textureSample" -> baseTextureSampleSampledCase(p, kind)
      [] p.builtin = "textureSampleGrad" -> baseTextureSampleGradSampledCase(p, kind)
      [] p.builtin = "textureSampleBias" -> baseTextureSampleBiasSampledCase(p, kind)
executeTextureSampleSampled2D(p) == With(Modes(p, ImplicitBase(p, "Sampled2D")), [useOffset |-> p.offset])
executeTextureSampleSampled2DLodClamp(p) == LodClamp(p, baseTextureSampleSampledCase(p, "Sampled2DLodClamp"))
executeTextureSampleSampled2DArray(p) ==
    LET layers == IF p.builtin = "textureSampleBias" THEN 4 ELSE p.layers
    IN  With(Layered(p, layers, Modes(p, ImplicitBase(p, "Sampled2DArray"))), [useOffset |-> p.offset])
executeTextureSampleSampled3D(p) ==
    LET moded(kind) == With(Modes(p, ImplicitBase(p, kind)), [modeW |-> p.modeW])
    IN  IF p.dim = "3d" THEN With(Volume(moded("Sampled3D")), [useOffset |-> p.offset])
        ELSE With(CubeOf(ImplicitCubeSide, moded("SampledCube")), [mips |-> 1])
executeTextureSampleSampledCubeArray(p) ==
    With(CubeArrayOf(p, ImplicitCubeSide, AllModes(p.mode, ImplicitBase(p, "SampledCubeArray"))), [mips |-> 1])

executeTextureSampleDepth2D(p) ==
    With(Modes(p, baseTextureSampleDepthCase(p, "Depth2D")), [useOffset |-> p.offset])
executeTextureSampleDepth2DArray(p) ==
    LET c == baseTextureSampleDepthCase(p, "Depth2DArray")
    IN  With(Layered(p, p.layers, c), [modeU |-> p.mode, modeV |-> p.mode, useOffset |-> p.offset])
executeTextureSampleDepth3D(p) ==
    LET moded(kind) == With(AllModes(p.mode, baseTextureSampleDepthCase(p, kind)), [mips |-> 1])
    IN  IF p.viewDimension = "cube" THEN CubeOf(ImplicitCubeSide, moded("DepthCube"))
        ELSE CubeArrayOf(p, ImplicitCubeSide, moded("DepthCubeArray"))

\* textureSampleCompare runs in a fragment shader, textureSampleCompareLevel in any stage.
CompareBase(p, kind) ==
    baseTextureSampleCompareCase(p, kind, IF p.builtin = "textureSampleCompare" THEN "fragment" ELSE p.stage, p.builtin)
executeTextureSampleCompare2D(p) == With(Modes(p, CompareBase(p, "Depth2D")), [useOffset |-> p.offset])
executeTextureSampleCompareCube(p) ==
    With(CubeOf(ImplicitCubeSide, AllModes(p.mode, CompareBase(p, "DepthCube"))), [mips |-> 1])
executeTextureSampleCompare2DArray(p) ==
    With(Layered(p, p.layers, Modes(p, CompareBase(p, "Depth2DArray"))), [useOffset |-> p.offset])
executeTextureSampleCompareCubeArray(p) ==
    LET side == IF p.builtin = "textureSampleCompare" THEN ImplicitCubeSide ELSE Side
    IN  With(CubeArrayOf(p, side, AllModes(p.mode, CompareBase(p, "DepthCubeArray"))), [mips |-> 1])

Gathered(p, c) == With(c, [gatherComponent |-> IF p.C = "i32" THEN 1 ELSE 2])
executeTextureGatherSampled2D(p) ==
    With(Gathered(p, Modes(p, baseGatherCase(p, "Sampled2D", FALSE))), [useOffset |-> p.offset])
executeTextureGatherSampled3D(p) ==
    CubeOf(Side, Gathered(p, AllModes(p.mode, baseGatherCase(p, "SampledCube", FALSE))))
executeTextureGatherSampledArray2D(p) ==
    With(Layered(p, p.layers, Gathered(p, Modes(p, baseGatherCase(p, "Sampled2DArray", FALSE)))), [useOffset |-> p.offset])
executeTextureGatherSampledArray3D(p) ==
    CubeArrayOf(p, Side, Gathered(p, AllModes(p.mode, baseGatherCase(p, "SampledCubeArray", FALSE))))
executeTextureGatherDepth2D(p) ==
    With(Modes(p, baseGatherCase(p, "Depth2D", TRUE)), [useOffset |-> p.offset])
executeTextureGatherDepth3D(p) == CubeOf(Side, AllModes(p.mode, baseGatherCase(p, "DepthCube", TRUE)))
executeTextureGatherDepthArray2D(p) ==
    With(Layered(p, p.layers, Modes(p, baseGatherCase(p, "Depth2DArray", TRUE))), [useOffset |-> p.offset])
executeTextureGatherDepthArray3D(p) ==
    CubeArrayOf(p, Side, AllModes(p.mode, baseGatherCase(p, "DepthCubeArray", TRUE)))
\* The comparing gathers are those of depth textures with a comparison.
Comparing(p, c) ==
    With(c, [builtin |-> "textureGatherCompare", gatherCompare |-> TRUE, comparison |-> TRUE,
             filt |-> p.filt, compare |-> p.compare])
executeTextureGatherCompareArray2D(p) == Comparing(p, executeTextureGatherDepthArray2D(p))
executeTextureGatherCompareArray3D(p) == Comparing(p, executeTextureGatherDepthArray3D(p))
executeTextureGatherCompareSampled2D(p) ==
    Comparing(p, With(baseGatherCase(p, "Depth2D", TRUE), [modeU |-> p.mode, modeV |-> p.mode, useOffset |-> p.offset]))
executeTextureGatherCompareSampled3D(p) == Comparing(p, executeTextureGatherDepth3D(p))

(* Calls.                                                                   *)
offsetForCallIndex(i) == <<(i % 3) - 1, ((i \div 3) % 3) - 1, ((i \div 9) % 3) - 1>>
implicitMipLevelForCall(i, mips) ==
    IF mips <= 1 THEN 0 ELSE Min2(<<4, 16, 24, 36, 7, 33>>[(i % 6) + 1], (mips - 1) * LevelUnit)
NoOffset == <<0, 0, 0>>

\* The centres of texels, a quarter texel on each side of both edges, and the quantized spiral of
\* a compressed texture whose last blocks are partial; one list of coordinates.
quantize(n, size, filt) ==
    LET v1 == (n * size * 4) \div 64
    IN  <<IF v1 % 4 = 0 /\ filt = "nearest" THEN v1 + 1 ELSE v1, 4 * size>>
edgeCoords(size, filt) ==
    {<<edge * 4 * size + o, 4 * size>> : edge \in {0, 1}, o \in IF filt = "linear" THEN {-1, 0, 1} ELSE {-1, 1}}
centerCoords(size) == {<<4 * i + 2, 4 * size>> : i \in 0 .. size - 1}
UnalignedCoords(w, h, filt, partialEdge) ==
    {<<quantize(SpiralWide(i)[1], w, filt), quantize(SpiralWide(i)[2], h, filt)>> : i \in 0 .. CallCount - 1}
    \cup (IF partialEdge = "height" THEN {} ELSE edgeCoords(w, filt) \X centerCoords(h))
    \cup (IF partialEdge = "width" THEN {} ELSE centerCoords(w) \X edgeCoords(h, filt))
    \cup (IF partialEdge = "both" THEN edgeCoords(w, filt) \X edgeCoords(h, filt) ELSE {})
executeTextureSampleLevelSampled2DCompressedUnaligned(p) ==
    LET block == FormatInfo[p.format].block
        w == IF p.partialEdge = "height" THEN 4 * block[1] ELSE 3 * block[1] + 1
        h == IF p.partialEdge = "width" THEN 4 * block[2] ELSE 3 * block[2] + 1
    IN  With(TextureCase, [format |-> p.format, stage |-> p.stage, filt |-> p.filt, w |-> w, h |-> h, mips |-> 1,
                           modeU |-> p.mode, modeV |-> p.mode, unaligned |-> TRUE,
                           explicit |-> UnalignedCoords(w, h, p.filt, p.partialEdge)])

cubeEdgeCoords ==
    LET e == 101  f == 100
    IN  <<<<f, -e, 0>>, <<f, e, 0>>, <<f, 0, -e>>, <<f, 0, e>>, <<-f, -e, 0>>, <<-f, e, 0>>, <<-f, 0, -e>>, <<-f, 0, e>>,
          <<-e, f, 0>>, <<e, f, 0>>, <<0, f, -e>>, <<0, f, e>>, <<-e, -f, 0>>, <<e, -f, 0>>, <<0, -f, -e>>, <<0, -f, e>>,
          <<-e, 0, f>>, <<e, 0, f>>, <<0, -e, f>>, <<0, e, f>>, <<-e, 0, -f>>, <<e, 0, -f>>, <<0, -e, -f>>, <<0, e, -f>>>>
\* For each face, the directions of u, of v and of the origin: row by row, halved.
kFaceUVMatrices ==
    <<<<<<0, 0, -1>>, <<0, -1, 0>>, <<1, 1, 1>>>>, <<<<0, 0, 1>>, <<0, -1, 0>>, <<-1, 1, -1>>>>,
      <<<<1, 0, 0>>, <<0, 0, 1>>, <<-1, 1, -1>>>>, <<<<1, 0, 0>>, <<0, 0, -1>>, <<-1, -1, 1>>>>,
      <<<<1, 0, 0>>, <<0, -1, 0>>, <<-1, 1, 1>>>>, <<<<-1, 0, 0>>, <<0, -1, 0>>, <<1, 1, -1>>>>>>
\* The direction of the point u/d, v/d of a face, times d.
normalized3DTextureCoordToCubeCoord(face, u, v, d) ==
    LET m == kFaceUVMatrices[face + 1]
    IN  [k \in 1 .. 3 |-> 2 * u * m[1][k] + 2 * v * m[2][k] + d * m[3][k]]

cubeGather(c) == c.gather /\ isCubeKind(c.kind)
cubeEdges(c) == c.samplePoints = "cube-edges" /\ ~cubeGather(c)
CentreOf(i, n) == <<2 * i + 1, 2 * n>>
GatherCubeCoords(c, i) ==
    LET w == Max({2, c.w})
        h == Max({2, c.h})
        tx == 1 + (i % AtLeast1(w - 2))
        ty == 1 + ((i \div 6) % AtLeast1(h - 2))
    IN  normalized3DTextureCoordToCubeCoord(i % 6, (4 * tx + 3) * h, (4 * ty + 3) * w, 4 * w * h)
TexelCentre(c, i) ==
    LET x == i % c.w
        y == (i \div c.w) % c.h
        z == (i \div (c.w * c.h)) % c.d
    IN  IF isCubeKind(c.kind) THEN <<(2 * x + 1 - c.w) * c.h, (2 * y + 1 - c.h) * c.w, c.w * c.h>>
        ELSE <<CentreOf(x, c.w), CentreOf(y, c.h), CentreOf(z, c.d)>>
Spiral(c, i) ==
    IF isCubeKind(c.kind) THEN SpiralCube(i)
    ELSE <<<<SpiralPlane(i)[1], 8 * Side>>, <<SpiralPlane(i)[2], 8 * Side>>, <<0, 1>>>>
\* Three quarters into the texel the coordinate falls in, the nearest of the texture's.
Snapped(r, n) == <<4 * Min2((Clamped(r[1], 0, r[2]) * n) \div r[2], n - 1) + 3, 4 * n>>
CoordsOf(c, i) ==
    LET drawn == IF cubeGather(c) THEN GatherCubeCoords(c, i)
                 ELSE IF cubeEdges(c) THEN cubeEdgeCoords[i + 1]
                 ELSE IF c.samplePoints = "texel-centre" THEN TexelCentre(c, i)
                 ELSE Spiral(c, i)
    IN  IF c.gather /\ ~isCubeKind(c.kind) THEN <<Snapped(drawn[1], c.w), Snapped(drawn[2], c.h), drawn[3]>> ELSE drawn

gradientBuiltin(c) == c.builtin \in {"textureSample", "textureSampleGrad", "textureSampleBias", "textureSampleCompare"}
Bias(c, i) == IF c.builtin = "textureSampleBias" THEN <<-20, 10, 25, -15, 0, 20>>[(i % 6) + 1] ELSE 0
DrawnLevel(c, i) ==
    IF c.builtin \in {"textureSampleCompareLevel", "textureSampleBaseClampToEdge"} THEN 0
    ELSE IF gradientBuiltin(c) THEN implicitMipLevelForCall(i, c.mips)
    ELSE IF c.levelType = "f32" THEN (i % 5) * 10
    ELSE (i % c.mips) * LevelUnit
\* The derivatives stretch the coordinate by two to the level drawn, before the bias.
kDepthRefs == <<10, 180, 310, 440, 570, 700, 830, 960>>
LevelOf(c, i) ==
    IF c.builtin = "textureSampleBias"
    THEN Clamped(DrawnLevel(c, i) + Clamped(Bias(c, i), -16 * LevelUnit, 16 * LevelUnit - 1), 0, (c.mips - 1) * LevelUnit)
    ELSE DrawnLevel(c, i)
\* WGPUCompareFunction numbers the functions from one.
CompareCode(compare) == CHOOSE k \in 1 .. 8 : compareFunctions[k] = compare
ArrayCount(c) == IF c.view = "cube-array" THEN c.d \div 6 ELSE c.d
\* The calls of a case with coordinates of its own are named by them, the others are numbered.
CallIndices(c) ==
    IF c.explicit # {} THEN c.explicit ELSE 0 .. (IF cubeEdges(c) THEN 24 ELSE CallCount) - 1
PlainCall == [level |-> 0, derivLevel |-> 0, derivOver |-> 1, bias |-> 0, depthRef |-> 0, offset |-> NoOffset, arrayIndex |-> 0]
generateCall(c, i) ==
    IF c.explicit # {} THEN With(PlainCall, [coords |-> i \o <<<<0, 1>>>>])
    ELSE [coords |-> CoordsOf(c, i), level |-> LevelOf(c, i), derivLevel |-> DrawnLevel(c, i), derivOver |-> c.w,
          bias |-> Bias(c, i),
          depthRef |-> IF c.comparison THEN kDepthRefs[((i + CompareCode(c.compare)) % 8) + 1] ELSE 0,
          offset |-> IF c.useOffset THEN offsetForCallIndex(i) ELSE NoOffset,
          arrayIndex |-> IF c.useArrayIndex THEN i % ArrayCount(c) ELSE 0]
=============================================================================
