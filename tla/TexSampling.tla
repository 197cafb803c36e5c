----------------------------- MODULE TexSampling -----------------------------
(* The software sampler the texture tests compare the device with           *)
(* (texture_utils.cpp): which texels a call reads and how it mixes them.    *)
(* A result is a mixture: how many parts of `den` each texel contributes.   *)
(* A texel is known by what its value was made from, its level and position *)
(* or its block; depths and the results of comparisons are numbers.  Exact  *)
(* arithmetic stands for the doubles, equality for the tolerance.           *)
EXTENDS TexCases

CONSTANTS WeightSteps,   \* kMipLevelWeightSteps
          WeightDen,     \* the weights the device reports are over WeightDen
          NearestWeights, LinearWeights   \* what the query read from the device: one per step

(* Mixtures.                                                                *)
PartOf(m, id) == IF id \in DOMAIN m.num THEN m.num[id] ELSE 0
Only(id) == [den |-> 1, num |-> id :> 1]
\* The parts of a and b in the proportion whole - t to t; both have the same denominator.
Mixed(num, den) == [den |-> den, num |-> [id \in {i \in DOMAIN num : num[i] > 0} |-> num[id]]]
mixTexel(a, b, t, whole) ==
    Mixed([id \in DOMAIN a.num \cup DOMAIN b.num |-> PartOf(a, id) * (whole - t) + PartOf(b, id) * t], a.den * whole)

(* Textures.                                                                *)
mipSizeFor(c, mip) ==
    LET half(n) == AtLeast1(n \div 2 ^ mip)
    IN  [w |-> half(c.w), h |-> IF c.dimension = "1d" THEN c.h ELSE half(c.h),
         d |-> IF c.dimension = "3d" THEN half(c.d) ELSE c.d]
\* The value written at a texel of an uncompressed colour texture: for a cube, one value for a level.
makeTextureData(c, mip, x, y, z) == IF isCubeKind(c.kind) THEN <<mip, 0, 0, 0>> ELSE <<mip, x, y, z>>
\* The bytes of a block of a compressed one; a texel is what the device makes of its place in its block.
makeCompressedTextureData(bx, by, z, mip) == <<bx, by, z + 17 * mip>>
DecodedTexel(c, mip, x, y, z) ==
    LET block == FormatInfo[c.format].block
    IN  makeCompressedTextureData(x \div block[1], y \div block[2], z, mip) \o <<x % block[1], y % block[2]>>
\* What the device holds after the upload: a colour at a texel, a depth at a layer of a level.
uploadColorTexture(c, mip, x, y, z) ==
    IF isUncompressed(c.format) THEN makeTextureData(c, mip, x, y, z) ELSE DecodedTexel(c, mip, x, y, z)
initializeDepthTexture(c, mip, layer) == IF layer < mipSizeFor(c, mip).d THEN depthValue(mip, layer) ELSE 0

\* The texels of a compressed texture are read by a shader, nearest texel at the centre of each, one
\* invocation per texel; groups are four by four and cover the level.  Slot n is written by the
\* invocation that counts n in rows and layers.
materializeCoordWGSL(id, s) == <<<<2 * id[1] + 1, 2 * s.w>>, <<2 * id[2] + 1, 2 * s.h>>, <<2 * id[3] + 1, 2 * s.d>>>>
NearestTexel(r, n) == (r[1] * n) \div r[2]
MaterializedAt(c, mip, s, id, r) ==
    uploadColorTexture(c, mip, NearestTexel(r[1], s.w), NearestTexel(r[2], s.h),
                       IF c.dimension = "3d" THEN NearestTexel(r[3], s.d) ELSE id[3])
InGroups(n, size) == n < 4 * ((size + 3) \div 4)
MaterializedBy(c, mip, s, id) ==
    IF InGroups(id[1], s.w) /\ InGroups(id[2], s.h) /\ id[3] < s.d
    THEN MaterializedAt(c, mip, s, id, materializeCoordWGSL(id, s)) ELSE <<>>
buildMaterializeWgsl(c, mip, s, slot) ==
    MaterializedBy(c, mip, s, <<slot % s.w, (slot \div s.w) % s.h, slot \div (s.w * s.h)>>)
materializeCompressedTexels(c, mip, s, x, y, z) == buildMaterializeWgsl(c, mip, s, (z * s.h + y) * s.w + x)

TexelIn(c, mip, s, x, y, z) ==
    IF isUncompressed(c.format) THEN makeTextureData(c, mip, x, y, z) ELSE materializeCompressedTexels(c, mip, s, x, y, z)
texelAt(c, mip, s, t) ==
    TexelIn(c, mip, s, Clamped(t[1], 0, s.w - 1), Clamped(t[2], 0, s.h - 1), Clamped(t[3], 0, s.d - 1))

applyAddressToTexelCoord(i, size, mode) ==
    CASE mode = "repeat" -> i % size
      [] mode = "mirror" -> IF (i \div size) % 2 = 1 THEN size - (i % size) - 1 ELSE i % size
      [] OTHER -> Clamped(i, 0, size - 1)

(* Cubes.  The face a direction points into and the place on it, in texels  *)
(* from the face's corner as a fraction of its side.                        *)
Abs(n) == IF n < 0 THEN -n ELSE n
OfFace(sc, tc, ma, layer) == [u |-> <<sc + ma, 2 * ma>>, v |-> <<tc + ma, 2 * ma>>, layer |-> layer]
FaceCoord(r, ax, ay, az) ==
    CASE ax > ay /\ ax > az -> IF r[1] < 0 THEN OfFace(r[3], -r[2], ax, 1) ELSE OfFace(-r[3], -r[2], ax, 0)
      [] ~(ax > ay /\ ax > az) /\ ay > az -> IF r[2] < 0 THEN OfFace(r[1], -r[3], ay, 3) ELSE OfFace(r[1], r[3], ay, 2)
      [] OTHER -> IF r[3] < 0 THEN OfFace(-r[1], -r[2], az, 5) ELSE OfFace(r[1], -r[2], az, 4)
normalizedCubeToFaceCoord(r) == FaceCoord(r, Abs(r[1]), Abs(r[2]), Abs(r[3]))
\* The texel that the position of a face stands for when it is beyond an edge of the face: the one its
\* centre, taken as a direction, points at.
TexelAtFace(size, base, p) == <<(p.u[1] * size) \div p.u[2], (p.v[1] * size) \div p.v[2], base + p.layer>>
wrapFaceCoordToCubeFaceAtEdgeBoundaries(size, x, y, layer) ==
    TexelAtFace(size, (layer \div 6) * 6,
                normalizedCubeToFaceCoord(normalized3DTextureCoordToCubeCoord(layer % 6, 2 * x + 1, 2 * y + 1, 2 * size)))

(* Colour.                                                                  *)
ModeFor(c, mode) == IF c.baseClampToEdge THEN "clamp" ELSE mode
Addressed(c, s, x, y, z) ==
    IF isCubeKind(c.kind) THEN wrapFaceCoordToCubeFaceAtEdgeBoundaries(s.w, x, y, z)
    ELSE <<applyAddressToTexelCoord(x, s.w, ModeFor(c, c.modeU)), applyAddressToTexelCoord(y, s.h, ModeFor(c, c.modeV)),
           IF c.dimension = "3d" THEN applyAddressToTexelCoord(z, s.d, ModeFor(c, c.modeW)) ELSE z>>
loadAddressed(c, mip, s, x, y, z) == Only(texelAt(c, mip, s, Addressed(c, s, x, y, z)))

\* The call's place on the texture: a coordinate per axis, and the layer.
OnCube(p, arrayIndex) == [at |-> <<p.u, p.v, <<0, 1>>>>, layer |-> p.layer + 6 * arrayIndex]
Placed(c, call) ==
    IF isCubeKind(c.kind) THEN OnCube(normalizedCubeToFaceCoord(call.coords), IF c.useArrayIndex THEN call.arrayIndex ELSE 0)
    ELSE [at |-> call.coords, layer |-> call.arrayIndex]
\* The texel a coordinate falls in; and, half a texel lower, the lower of the two it falls between,
\* with the share of the upper one.
NearestIndex(r, size, offset) == (r[1] * size) \div r[2] + offset
LowerIndex(r, size, offset) == (2 * r[1] * size - r[2]) \div (2 * r[2]) + offset
UpperShare(r, size) == (2 * r[1] * size - r[2]) % (2 * r[2])

\* The four texels around a coordinate, row by row from the lower ones, and the mixture of what they give.
SquareFrom(x, y) == <<<<x, y>>, <<x + 1, y>>, <<x, y + 1>>, <<x + 1, y + 1>>>>
SquareAt(p, s, offset) == SquareFrom(LowerIndex(p.at[1], s.w, offset[1]), LowerIndex(p.at[2], s.h, offset[2]))
Along(r, size, lower, upper) == mixTexel(lower, upper, UpperShare(r, size), 2 * r[2])
Bilinear(p, s, taps) ==
    Along(p.at[2], s.h, Along(p.at[1], s.w, taps[1], taps[2]), Along(p.at[1], s.w, taps[3], taps[4]))
Taps(c, mip, s, z, square) == <<>> \o [i \in 1 .. 4 |-> loadAddressed(c, mip, s, square[i][1], square[i][2], z)]
PlaneOf(c, mip, s, p, z, square) == Bilinear(p, s, Taps(c, mip, s, z, square))
Planes(c, mip, s, p, zs, square) == <<>> \o [i \in DOMAIN zs |-> PlaneOf(c, mip, s, p, zs[i], square)]
Between(r, size, planes) == IF Len(planes) = 1 THEN planes[1] ELSE Along(r, size, planes[1], planes[2])
PlanesRead(c, s, p, lower) == IF c.dimension = "3d" THEN <<lower, lower + 1>> ELSE <<p.layer>>
SampleAt(c, mip, s, p, offset) ==
    IF c.filt = "nearest"
    THEN loadAddressed(c, mip, s, NearestIndex(p.at[1], s.w, offset[1]), NearestIndex(p.at[2], s.h, offset[2]),
                       IF c.dimension = "3d" THEN NearestIndex(p.at[3], s.d, offset[3]) ELSE p.layer)
    ELSE Between(p.at[3], s.d,
                 Planes(c, mip, s, p, PlanesRead(c, s, p, LowerIndex(p.at[3], s.d, offset[3])), SquareAt(p, s, offset)))
sampleColorOneMip(c, mip, call) == SampleAt(c, mip, mipSizeFor(c, mip), Placed(c, call), call.offset)

(* Levels.                                                                  *)
\* The weight of the next level, interpolated between the steps queried: over the result's `whole`.
MixWeight(weights, scaled, rest) ==
    weights[scaled \div LevelUnit + 1] * (LevelUnit - rest) + weights[(scaled + LevelUnit - 1) \div LevelUnit + 1] * rest
calibratedMixWeight(weights, level) ==
    MixWeight(weights, (level % LevelUnit) * WeightSteps, ((level % LevelUnit) * WeightSteps) % LevelUnit)
WholeWeight == WeightDen * LevelUnit
\* Mutant: the range of the sampler is taken for levels of the texture, not of the view.
LevelOfTheTexture(c, level) ==
    Clamped(Clamped(level, c.lodMin, c.lodMax) - c.baseMip * LevelUnit, 0, (c.mips - c.baseMip - 1) * LevelUnit)
ClampedLevel(c, level) ==
    Clamped(Clamped(level, c.lodMin, c.lodMax), 0, (c.mips - c.baseMip - 1) * LevelUnit)
BaseMip(c, level) == c.baseMip + level \div LevelUnit
NearestMip(c, level) ==
    Min2(BaseMip(c, level) + IF 2 * calibratedMixWeight(NearestWeights, level) >= WholeWeight THEN 1 ELSE 0, c.mips - 1)
\* The nearest level, or the two around it; and the mixture of the results they give.
MipsAt(c, level) ==
    IF c.filt = "nearest" THEN <<NearestMip(c, level)>>
    ELSE <<BaseMip(c, level), Min2(BaseMip(c, level) + 1, c.mips - 1)>>
AcrossLevels(results, level) ==
    IF Len(results) = 1 THEN results[1]
    ELSE mixTexel(results[1], results[2], calibratedMixWeight(LinearWeights, level), WholeWeight)
SampleColorAt(c, call, level, mips) == AcrossLevels(<<>> \o [i \in DOMAIN mips |-> sampleColorOneMip(c, mips[i], call)], level)
SampleColorFrom(c, call, level) == SampleColorAt(c, call, level, MipsAt(c, level))
softwareSampleColor(c, call) == SampleColorFrom(c, call, ClampedLevel(c, call.level))

(* Depth: one value for a whole layer of a level.                           *)
NearestDepthMip(c, level, below) ==
    Min2(below + IF 2 * calibratedMixWeight(NearestWeights, level) >= WholeWeight THEN 1 ELSE 0, c.mips - 1)
DepthMip(c, level) == NearestDepthMip(c, level, Min2(level \div LevelUnit, c.mips - 1))
softwareSampleDepth(c, call) ==
    Only(<<depthValue(DepthMip(c, Clamped(Clamped(call.level, c.lodMin, c.lodMax), 0, (c.mips - 1) * LevelUnit)),
                      Placed(c, call).layer)>>)
Holds(depth, compare, ref) ==
    CASE compare = "never" -> FALSE [] compare = "always" -> TRUE
      [] compare = "less" -> ref < depth [] compare = "less-equal" -> ref <= depth
      [] compare = "greater" -> ref > depth [] compare = "greater-equal" -> ref >= depth
      [] compare = "equal" -> ref = depth [] compare = "not-equal" -> ref # depth
applyCompareToDepth(depth, compare, ref) == Only(<<IF Holds(depth, compare, ref) THEN 1 ELSE 0>>)
cubeDepthCompareTap(c, mip, size, x, y, layer, ref) ==
    applyCompareToDepth(depthValue(mip, wrapFaceCoordToCubeFaceAtEdgeBoundaries(size, x, y, layer)[3]), c.compare, ref)
CompareTaps(c, mip, s, p, ref, square) ==
    <<>> \o [i \in DOMAIN square |-> cubeDepthCompareTap(c, mip, s.w, square[i][1], square[i][2], p.layer, ref)]
Compared1(taps, p, s) == IF Len(taps) = 1 THEN taps[1] ELSE Bilinear(p, s, taps)
SquareRead(c, p, s) ==
    IF c.filt = "nearest" THEN <<<<NearestIndex(p.at[1], s.w, 0), NearestIndex(p.at[2], s.h, 0)>>>> ELSE SquareAt(p, s, NoOffset)
CompareAt(c, mip, s, p, ref) == Compared1(CompareTaps(c, mip, s, p, ref, SquareRead(c, p, s)), p, s)
sampleDepthCompareCubeOneMip(c, mip, call) == CompareAt(c, mip, mipSizeFor(c, mip), Placed(c, call), call.depthRef)
CompareOneMip(c, mip, call) ==
    IF isCubeKind(c.kind) THEN sampleDepthCompareCubeOneMip(c, mip, call)
    ELSE applyCompareToDepth(depthValue(mip, Placed(c, call).layer), c.compare, call.depthRef)
DepthCompareAt(c, call, level, mips) == AcrossLevels(<<>> \o [i \in DOMAIN mips |-> CompareOneMip(c, mips[i], call)], level)
DepthCompareFrom(c, call, level) == DepthCompareAt(c, call, level, MipsAt(c, level))
softwareSampleDepthCompare(c, call) == DepthCompareFrom(c, call, ClampedLevel(c, call.level))

\* The expected result of a call of a sampling test.
expectedSample(c, call) ==
    CASE c.comparison -> softwareSampleDepthCompare(c, call)
      [] ~c.comparison /\ c.isDepth -> softwareSampleDepth(c, call)
      [] ~c.comparison /\ ~c.isDepth /\ c.baseClampToEdge -> sampleColorOneMip(c, 0, call)
      [] OTHER -> softwareSampleColor(c, call)

(* Gather: the four texels of level 0 the coordinate falls between, from    *)
(* the lower left against the clock.                                        *)
\* A component the format does not have reads as 0, as 1 if it is the last.
Absent(component) == Only(<<IF component = 3 THEN 1 ELSE 0>>)
Component(c, texel) ==
    IF c.gatherComponent \in FormatInfo[c.format].comps THEN texel ELSE Absent(c.gatherComponent)
\* From the lower left against the clock, of the square's taps row by row.
FromLowerLeft(taps) == <<taps[3], taps[4], taps[2], taps[1]>>
ColorTaps(c, s, p, square) ==
    <<>> \o [i \in 1 .. 4 |-> Component(c, loadAddressed(c, 0, s, square[i][1], square[i][2], p.layer))]
ColorTapsAt(c, s, p, offset) == ColorTaps(c, s, p, SquareAt(p, s, offset))
\* Mutant: row by row from the top left.
RowByRow(c, call) == ColorTapsAt(c, mipSizeFor(c, 0), Placed(c, call), call.offset)
gatherColorTaps(c, call) == FromLowerLeft(ColorTapsAt(c, mipSizeFor(c, 0), Placed(c, call), call.offset))
DepthLayer(c, x, y, layer) ==
    IF isCubeKind(c.kind) THEN wrapFaceCoordToCubeFaceAtEdgeBoundaries(c.w, x, y, layer)[3] ELSE layer
DepthTap(c, call, depth) == IF c.gatherCompare THEN applyCompareToDepth(depth, c.compare, call.depthRef) ELSE Only(<<depth>>)
DepthTaps(c, call, p, square) ==
    <<>> \o [i \in 1 .. 4 |-> DepthTap(c, call, depthValue(0, DepthLayer(c, square[i][1], square[i][2], p.layer)))]
DepthTapsAt(c, call, s, p) == DepthTaps(c, call, p, SquareAt(p, s, call.offset))
gatherDepthTaps(c, call) == FromLowerLeft(DepthTapsAt(c, call, mipSizeFor(c, 0), Placed(c, call)))
colorViewOfDepth(c) == ~c.isDepth /\ isDepthFormat(c.format)
stencilViewOfFormat(c) == ~c.isDepth /\ isStencilOnlyFormat(c.format)
\* What a gather of a depth texture's other components reads is up to the device without
\* texture-component-swizzle.
gatherChecked(c, swizzle) == colorViewOfDepth(c) /\ c.gatherComponent > 0 => swizzle
Uniform(value) == <<value, value, value, value>>
expectedGather(c, call) ==
    CASE stencilViewOfFormat(c) -> Uniform(Absent(c.gatherComponent))
      [] colorViewOfDepth(c) /\ c.gatherComponent # 0 -> Uniform(Absent(c.gatherComponent))
      [] c.isDepth \/ (colorViewOfDepth(c) /\ c.gatherComponent = 0) -> gatherDepthTaps(c, call)
      [] OTHER -> gatherColorTaps(c, call)
=============================================================================
