------------------------------ MODULE TexDevice ------------------------------
(* A device that samples as the WebGPU and WGSL specifications require:     *)
(* what the software sampler of the tests is measured against.  It is not   *)
(* code of the repository.  It filters with the tent function over the      *)
(* endless plane of texels that an address mode unrolls, puts the texels of *)
(* a cube on the lattice of its surface, and takes the level from the       *)
(* derivatives, the bias and the clamps of the sampler and of the view.     *)
EXTENDS TexSampling, FiniteSetsExt

CONSTANT NearestThreshold  \* the part of a level, in twentieths, from which the next one is nearest

(* The plane of texels: along an axis of `size` texels, position i shows    *)
(* texel Shown(i).                                                          *)
Shown(i, size, mode) ==
    CASE mode = "repeat" -> CHOOSE t \in 0 .. size - 1 : (i - t) % size = 0
      [] mode = "mirror" -> CHOOSE t \in 0 .. size - 1 : (i - t) % (2 * size) = 0 \/ (i + 1 + t) % (2 * size) = 0
      [] OTHER -> CHOOSE t \in 0 .. size - 1 : \A v \in 0 .. size - 1 : Abs(i - t) <= Abs(i - v)
\* How much the position i weighs, over 2 * r[2], for the coordinate r moved by `offset` texels.
Tent(r, size, offset, i) ==
    LET away == Abs(2 * r[1] * size + 2 * offset * r[2] - (2 * i + 1) * r[2])
    IN  IF away < 2 * r[2] THEN 2 * r[2] - away ELSE 0
Near(r, size, offset) == LET i == (r[1] * size) \div r[2] + offset IN i - 1 .. i + 1
Weighing(r, size, offset) == {i \in Near(r, size, offset) : Tent(r, size, offset, i) > 0}
\* The position whose interval the coordinate lies in.
Inside(r, size, offset) ==
    CHOOSE i \in Near(r, size, offset) :
        i * r[2] <= r[1] * size + offset * r[2] /\ r[1] * size + offset * r[2] < (i + 1) * r[2]

(* Cubes: for each face its normal and the directions of its axes.          *)
FaceAxes ==
    <<[n |-> <<1, 0, 0>>, u |-> <<0, 0, -1>>, v |-> <<0, -1, 0>>], [n |-> <<-1, 0, 0>>, u |-> <<0, 0, 1>>, v |-> <<0, -1, 0>>],
      [n |-> <<0, 1, 0>>, u |-> <<1, 0, 0>>, v |-> <<0, 0, 1>>], [n |-> <<0, -1, 0>>, u |-> <<1, 0, 0>>, v |-> <<0, 0, -1>>],
      [n |-> <<0, 0, 1>>, u |-> <<1, 0, 0>>, v |-> <<0, -1, 0>>], [n |-> <<0, 0, -1>>, u |-> <<-1, 0, 0>>, v |-> <<0, -1, 0>>]>>
Dot(a, b) == a[1] * b[1] + a[2] * b[2] + a[3] * b[3]
\* The face a direction points into (z before y before x where two are as far) and the place on it.
Farthest(r) == Max({Dot(r, FaceAxes[f].n) : f \in 1 .. 6})
FaceToward(r, far) ==
    CHOOSE g \in 1 .. 6 : Dot(r, FaceAxes[g].n) = far /\ \A h \in 1 .. 6 : Dot(r, FaceAxes[h].n) = far => h <= g
PlaceOnFace(r, far, f) ==
    [at |-> <<<<far + Dot(r, FaceAxes[f].u), 2 * far>>, <<far + Dot(r, FaceAxes[f].v), 2 * far>>, <<0, 1>>>>, layer |-> f - 1]
PlaceToward(r, far) == PlaceOnFace(r, far, FaceToward(r, far))
FacePlace(r) == PlaceToward(r, Farthest(r))
\* The lattice point of the surface of the cube at the corner x, y of a face of s by s texels.
LatticePoint(s, face, x, y) ==
    LET a == FaceAxes[face + 1] IN [k \in 1 .. 3 |-> s * a.n[k] + (2 * x - s) * a.u[k] + (2 * y - s) * a.v[k]]
TexelCorners(s, t) ==
    {LatticePoint(s, t[3], t[1] + dx, t[2] + dy) : dx \in {0, 1}, dy \in {0, 1}}
OnFace(s, x, y) == x \in 0 .. s - 1 /\ y \in 0 .. s - 1
\* Beyond one edge of a face, the texel of the next face that shares the edge of the texel inside.
BeyondEdge(s, x, y, face) ==
    LET inside == <<Clamped(x, 0, s - 1), Clamped(y, 0, s - 1), face>>
        edge == IF x \in 0 .. s - 1
                THEN {LatticePoint(s, face, x + dx, IF y < 0 THEN 0 ELSE s) : dx \in {0, 1}}
                ELSE {LatticePoint(s, face, IF x < 0 THEN 0 ELSE s, y + dy) : dy \in {0, 1}}
    IN  CHOOSE t \in (0 .. s - 1) \X (0 .. s - 1) \X (0 .. 5) : t[3] # face /\ edge \subseteq TexelCorners(s, t)
FaceTexel(s, x, y, face) == IF OnFace(s, x, y) THEN <<x, y, face>> ELSE BeyondEdge(s, x, y, face)
InLayers(base, t) == <<t[1], t[2], base + t[3]>>
CubeTexel(s, x, y, layer) == InLayers((layer \div 6) * 6, FaceTexel(s, x, y, layer % 6))

(* The texels a call reads from a level, with their shares.                 *)
HeldInside(r, n) == <<Clamped(2 * n * r[1], r[2], (2 * n - 1) * r[2]), 2 * n * r[2]>>
DevicePlace(c, call) ==
    CASE isCubeKind(c.kind) -> [FacePlace(call.coords) EXCEPT !.layer = @ + 6 * call.arrayIndex]
      [] c.baseClampToEdge ->
             [at |-> <<HeldInside(call.coords[1], c.w), HeldInside(call.coords[2], c.h), call.coords[3]>>, layer |-> 0]
      [] OTHER -> [at |-> call.coords, layer |-> call.arrayIndex]
SizesOf(s) == <<s.w, s.h, s.d>>
Sizes(c, mip) == SizesOf(mipSizeFor(c, mip))
UsedAxes(c) == IF c.dimension = "1d" THEN {1} ELSE IF c.dimension = "3d" THEN {1, 2, 3} ELSE {1, 2}
ModeOf(c, k) == <<c.modeU, c.modeV, c.modeW>>[k]
\* The texel shown at a position: of a layer, of a volume or of a cube.
ShownOn(t, c, layer) == IF c.dimension = "3d" THEN t ELSE <<t[1], t[2], layer>>
TexelShown(c, s, pos, layer) ==
    IF isCubeKind(c.kind) THEN CubeTexel(s[1], pos[1], pos[2], layer)
    ELSE ShownOn(<<>> \o [k \in 1 .. 3 |-> IF k \in UsedAxes(c) THEN Shown(pos[k], s[k], ModeOf(c, k)) ELSE 0], c, layer)
\* The positions a filtered read of one level weighs.
PositionsAlong(c, r, size, offset) ==
    IF c.filt = "linear" \/ c.gather THEN Weighing(r, size, offset) ELSE {Inside(r, size, offset)}
Box(along) == along[1] \X along[2] \X along[3]
Positions(c, s, p, offset) ==
    Box(<<>> \o [k \in 1 .. 3 |-> IF k \in UsedAxes(c) THEN PositionsAlong(c, p.at[k], s[k], offset[k]) ELSE {0}])
ShareOf(c, s, p, offset, pos) ==
    IF c.filt = "nearest" THEN 1
    ELSE FoldSet(LAMBDA k, n : n * Tent(p.at[k], s[k], offset[k], pos[k]), 1, UsedAxes(c))
WholeShare(c, p) == IF c.filt = "nearest" THEN 1 ELSE FoldSet(LAMBDA k, n : n * 2 * p.at[k][2], 1, UsedAxes(c))
\* Three faces meet at a corner of a cube: which texels stand for the one missing is the device's choice.
TouchesCorner(c, mip, call) ==
    /\ isCubeKind(c.kind)
    /\ \E pos \in Positions(c, Sizes(c, mip), DevicePlace(c, call), call.offset) :
          pos[1] \notin 0 .. Sizes(c, mip)[1] - 1 /\ pos[2] \notin 0 .. Sizes(c, mip)[1] - 1

(* What a texel holds, as the test wrote it, and what the comparison makes  *)
(* of it.                                                                   *)
Stored(c, mip, t) ==
    IF c.isDepth \/ isDepthFormat(c.format) THEN <<initializeDepthTexture(c, mip, t[3])>>
    ELSE uploadColorTexture(c, mip, t[1], t[2], t[3])
\* Whether the reference stands to the stored depth as the function says: below, level or above.
Relations == [never |-> {}, less |-> {-1}, equal |-> {0}, greater |-> {1}, always |-> {-1, 0, 1}]
           @@ ("less-equal" :> {-1, 0}) @@ ("greater-equal" :> {0, 1}) @@ ("not-equal" :> {-1, 1})
Compared(c, ref, depth) ==
    IF (CASE ref < depth -> -1 [] ref = depth -> 0 [] OTHER -> 1) \in Relations[c.compare] THEN 1 ELSE 0
ReadValue(c, mip, call, t) ==
    IF c.comparison THEN <<Compared(c, call.depthRef, Stored(c, mip, t)[1])>> ELSE Stored(c, mip, t)
Summed(c, s, p, offset, reads) ==
    [den |-> WholeShare(c, p),
     num |-> [value \in {read[2] : read \in reads} |->
                 MapThenSumSet(LAMBDA read : ShareOf(c, s, p, offset, read[1]), {read \in reads : read[2] = value})]]
DeviceReads(c, mip, call, s, p) ==
    Summed(c, s, p, call.offset,
           {<<pos, ReadValue(c, mip, call, TexelShown(c, s, pos, p.layer))>> : pos \in Positions(c, s, p, call.offset)})
DeviceOneLevel(c, mip, call) == DeviceReads(c, mip, call, Sizes(c, mip), DevicePlace(c, call))

(* The level: from the derivatives in a fragment shader or of the call,     *)
(* otherwise the argument; whole levels for the integer types.              *)
ImplicitLevels == {"textureSample", "textureSampleBias", "textureSampleCompare"}
\* A derivative of 2^level over the width of the view is that level.
DerivedLevel(viewWidth, call) ==
    call.derivLevel + LevelUnit * CASE viewWidth = call.derivOver -> 0 [] 2 * viewWidth = call.derivOver -> -1 [] OTHER -> -2
UnclampedLevel(c, call) ==
    CASE c.builtin = "textureSampleGrad" -> DerivedLevel(mipSizeFor(c, c.baseMip).w, call)
      [] c.builtin \in ImplicitLevels /\ c.stage = "fragment" ->
             call.derivLevel + IF c.builtin = "textureSampleBias" THEN call.bias ELSE 0
      [] c.builtin \in {"textureSampleCompareLevel", "textureSampleBaseClampToEdge"} -> 0
      [] c.levelType # "f32" -> (call.level \div LevelUnit) * LevelUnit
      [] OTHER -> call.level
DeviceLevel(c, call) ==
    Clamped(Clamped(UnclampedLevel(c, call), c.lodMin, c.lodMax), 0, (c.mips - c.baseMip - 1) * LevelUnit)
\* The weight of the next level between two: linear between the steps that were queried.
WeightBetween(k, past) == LinearWeights[k + 1] * LevelUnit + (LinearWeights[k + 2] - LinearWeights[k + 1]) * past
WeightAt(steps, k) == WeightBetween(k, steps - k * LevelUnit)
DeviceMixWeight(level) ==
    WeightAt((level % LevelUnit) * WeightSteps,
             CHOOSE n \in 0 .. WeightSteps - 1 :
                n * LevelUnit <= (level % LevelUnit) * WeightSteps /\ (level % LevelUnit) * WeightSteps < (n + 1) * LevelUnit)
LowerLevel(c, level) == c.baseMip + level \div LevelUnit
UpperLevel(c, level) == Min2(LowerLevel(c, level) + 1, c.mips - 1)
LevelsAt(c, level) ==
    CASE c.gather \/ c.baseClampToEdge -> <<0>>
      [] ~(c.gather \/ c.baseClampToEdge) /\ c.filt = "linear" -> <<LowerLevel(c, level), UpperLevel(c, level)>>
      [] OTHER -> <<IF level % LevelUnit >= NearestThreshold THEN UpperLevel(c, level) ELSE LowerLevel(c, level)>>
DeviceLevels(c, call) == LevelsAt(c, DeviceLevel(c, call))
DeviceMix(results, level) ==
    IF Len(results) = 1 THEN results[1] ELSE mixTexel(results[1], results[2], DeviceMixWeight(level), WholeWeight)
DeviceSampleAt(c, call, level, mips) == DeviceMix(<<>> \o [i \in DOMAIN mips |-> DeviceOneLevel(c, mips[i], call)], level)
DeviceSample(c, call) == DeviceSampleAt(c, call, DeviceLevel(c, call), DeviceLevels(c, call))

(* Gather: the four texels a linear filter would weigh, counter clockwise   *)
(* from the one of least u and greatest v.                                  *)
\* A depth or stencil texture viewed as colour has only its first component.
DeviceChannels(c) ==
    IF isDepthFormat(c.format) \/ isStencilOnlyFormat(c.format) THEN {0} ELSE FormatInfo[c.format].comps
GatheredTexel(c, call, t) ==
    CASE c.gatherComponent \in DeviceChannels(c) ->
             IF isStencilOnlyFormat(c.format) THEN <<0>> ELSE ReadValue(c, 0, call, t)
      [] c.gatherComponent = 3 /\ 3 \notin DeviceChannels(c) -> <<1>>
      [] OTHER -> <<0>>
AroundSquare(us, vs) == <<<<Min(us), Max(vs)>>, <<Max(us), Max(vs)>>, <<Max(us), Min(vs)>>, <<Min(us), Min(vs)>>>>
GatheredAt(c, call, s, layer, around) ==
    <<>> \o [i \in 1 .. 4 |-> Only(GatheredTexel(c, call, TexelShown(c, s, <<around[i][1], around[i][2], 0>>, layer)))]
GatheredFrom(c, call, s, p, positions) ==
    GatheredAt(c, call, s, p.layer, AroundSquare({pos[1] : pos \in positions}, {pos[2] : pos \in positions}))
GatheredOn(c, call, s, p) == GatheredFrom(c, call, s, p, Positions(c, s, p, call.offset))
DeviceGather(c, call) == GatheredOn(c, call, Sizes(c, 0), DevicePlace(c, call))
=============================================================================
