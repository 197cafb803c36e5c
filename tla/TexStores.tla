------------------------------ MODULE TexStores ------------------------------
(* The tests of textureStore (texture_utils.cpp): what the invocations of   *)
(* each write where, and what is expected to be read back.                  *)
EXTENDS TexQueries

CONSTANTS MaxU32,            \* stands for 0xffffffff
          kStoreOOBWidth,    \* the row and the texels of the textures written out of bounds
          StoreOOBTexels,
          StoreArraySide,    \* the side of the layers of the array written out of bounds
          StoreWorkgroup     \* the invocations of a workgroup

kArrayLevels == 4

(* Values.  Normalized formats and rg11b10ufloat take theirs in tenths.     *)
storeInputArray(f) ==
    CASE f \in {"r8snorm", "rg8snorm", "rgba8snorm", "r16snorm", "rg16snorm", "rgba16snorm"} ->
             <<-11, 10, -6, -3, 0, 3, 6, 10, 11>>
      [] f \in {"r8unorm", "rg8unorm", "rgba8unorm", "bgra8unorm", "r16unorm", "rg16unorm", "rgba16unorm"} ->
             <<-1, 0, 2, 4, 6, 8, 10, 11>>
      [] f \in {"r8uint", "rg8uint", "rgba8uint"} -> <<0, 8, 16, 24, 32, 64, 100, 128, 200, 255, 256, 512>>
      [] f = "rgba16uint" -> <<0, 8, 16, 24, 32, 64, 100, 128, 200, 255, 65535, 131071>>
      [] f \in {"r32uint", "rg32uint", "rgba32uint"} -> <<0, 8, 16, 24, 32, 64, 100, 128, 200, 255, 256, 512, MaxU32>>
      [] f \in {"r8sint", "rg8sint", "rgba8sint"} -> <<-128, -100, -64, -32, -16, -8, 0, 8, 16, 32, 64, 100, 127>>
      [] f = "rgba16sint" -> <<-32768, -32769, -100, -64, -32, -16, -8, 0, 8, 16, 32, 64, 100, 127, 32767, 32768>>
      [] f \in {"r32sint", "rg32sint", "rgba32sint"} ->
             <<-134217728, -32769, -100, -64, -32, -16, -8, 0, 8, 16, 32, 64, 100, 127, 134217727>>
      [] f \in {"r16float", "rg16float", "rgba16float", "r32float", "rg32float", "rgba32float"} ->
             <<-100, -50, -32, -16, -8, -1, 0, 1, 8, 16, 32, 50, 100>>
      [] f \in {"r16uint", "rg16uint"} -> <<0, 1000, 32768, 65535, 65536, 70000>>
      [] f \in {"r16sint", "rg16sint"} -> <<-32769, -32768, -1000, 0, 1000, 32767, 32768>>
      [] f = "rgb10a2uint" -> <<0, 500, 1023, 1024, 3, 4>>
      [] f = "rgb10a2unorm" -> <<-1, 0, 5, 10, 11>>
      [] f = "rg11b10ufloat" -> <<10, 5, 0, 10>>
TypeOf(f) == FormatInfo[f].type
BitsOf(f, k) == FormatInfo[f].bits[k + 1]
storeClampComponent(f, k, v) ==
    CASE TypeOf(f) = "unorm" -> Clamped(v, 0, 10)
      [] TypeOf(f) = "snorm" -> Clamped(v, -10, 10)
      [] TypeOf(f) = "uint" -> Clamped(v, 0, IF BitsOf(f, k) >= 32 THEN MaxU32 ELSE 2 ^ BitsOf(f, k) - 1)
      [] TypeOf(f) = "sint" /\ BitsOf(f, k) < 32 -> Clamped(v, -(2 ^ (BitsOf(f, k) - 1)), 2 ^ (BitsOf(f, k) - 1) - 1)
      [] OTHER -> v
isNormalized(f) == TypeOf(f) \in {"unorm", "snorm"}
\* The steps of a normalized component in all, and twenty times what a value of so many tenths takes.
StepsOf(f, k) == 2 ^ (IF TypeOf(f) = "snorm" THEN BitsOf(f, k) - 1 ELSE BitsOf(f, k)) - 1
storeEncodeComponent(f, k, v) ==
    LET clamped == storeClampComponent(f, k, v)
    IN  IF isNormalized(f) THEN (2 * clamped * StepsOf(f, k) + 10) \div 20 ELSE clamped
storeEncodeTexel(f, values) == [k \in FormatInfo[f].comps |-> storeEncodeComponent(f, k, values[k + 1])]
ExactStoreTexelMatches(f, expected, got) == \A k \in FormatInfo[f].comps : expected[k] = got[k]
\* A value halfway between two steps may become either: a normalized component may be one off.
normalizedStoreTexelMatches(f, expected, got) ==
    \A k \in FormatInfo[f].comps : IF isNormalized(f) THEN expected[k] - got[k] \in -1 .. 1 ELSE expected[k] = got[k]

(* Cases.                                                                   *)
StoreCase ==
    [test |-> "store", kind |-> "texels", stage |-> "compute", format |-> "r32uint", view |-> "2d", aspect |-> "all",
     usage |-> {"StorageBinding", "CopySrc"}, sampleType |-> "unused", access |-> "write", size |-> Extent(1, 1, 1),
     samples |-> 1, mips |-> 1, baseMip |-> 0, viewMips |-> 1, baseLayer |-> 0, viewLayers |-> Undefined, coords |-> "u32"]
StoreOf(view, fields) == [view |-> view, type |-> Type("storage", view, FALSE, "f32")] @@ fields @@ StoreCase
\* The size of the level that is written, and of the texture that makes it so.
testMipLevelSize(f, view) ==
    LET len == Len(storeInputArray(f))
    IN  Extent(len, IF view = "1d" THEN 1 ELSE len, IF view \in {"2d-array", "3d"} THEN len ELSE 1)
mipLevel0Size(p) ==
    LET len == Len(storeInputArray(p.format))  size == len * 2 ^ p.mipLevel
    IN  Extent(size, IF p.viewDimension = "1d" THEN 1 ELSE size,
               CASE p.viewDimension = "2d-array" -> len [] p.viewDimension = "3d" -> size [] OTHER -> 1)
executeTextureStoreTexelFormats(p) ==
    StoreOf(p.viewDimension,
            [format |-> p.format, stage |-> p.stage, access |-> p.access, size |-> mipLevel0Size(p), baseMip |-> p.mipLevel,
             mips |-> IF p.viewDimension = "1d" THEN 1 ELSE 3])
SwizzleValues ==
    <<<<-11, 6, 4, 10>>, <<11, 6, 4, 10>>, <<4, -11, 6, 10>>, <<4, 11, 6, 10>>, <<6, 4, -11, 10>>, <<6, 4, 11, 10>>,
      <<2, 4, 6, 10>>, <<-2, -4, -6, 10>>>>
executeTextureStoreBgra8unormSwizzle ==
    StoreOf("1d", [kind |-> "swizzle", format |-> "bgra8unorm", size |-> Extent(Len(SwizzleValues), 1, 1), viewMips |-> Undefined])
storeOOBTextureSize(dim) ==
    CASE dim = "1d" -> Extent(StoreOOBTexels, 1, 1)
      [] dim = "2d" -> Extent(kStoreOOBWidth, StoreOOBTexels \div kStoreOOBWidth, 1)
      [] dim = "3d" -> Extent(kStoreOOBWidth, StoreOOBTexels \div (2 * kStoreOOBWidth), 2)
executeTextureStoreOutOfBounds(p) ==
    StoreOf(p.dim, [kind |-> "bounds", size |-> storeOOBTextureSize(p.dim), mips |-> p.mipCount, baseMip |-> p.mip,
                    viewLayers |-> 1, coords |-> p.coords])
executeTextureStoreOutOfBoundsArray(p) ==
    StoreOf("2d-array", [kind |-> "array", size |-> Extent(StoreArraySide, StoreArraySide, kArrayLevels),
                         baseLayer |-> p.baseLevel, viewLayers |-> p.arrayLevels, coords |-> p.type])
storeViewDimensionMipLevelValid(p) == ~(p.viewDimension = "1d" /\ p.mipLevel # 0)
storeOutOfBoundsMipValid(p) ==
    CASE p.dim = "1d" -> p.mipCount = 1 /\ p.mip = 0
      [] p.dim = "3d" -> p.mipCount <= 2 /\ p.mip < p.mipCount
      [] p.dim = "2d" -> p.mip < p.mipCount
storeOutOfBoundsArrayValid(p) == p.arrayLevels > p.baseLevel /\ kArrayLevels >= p.baseLevel + p.arrayLevels
StoreCases ==
    {executeTextureStoreTexelFormats(p) :
        p \in {q \in [format : possibleStorageTextureFormats, viewDimension : {"1d", "2d", "2d-array", "3d"},
                      stage : {"compute", "fragment"}, access : {"write", "read_write"}, mipLevel : 0 .. 2] :
                isStorageReadWriteAccessOrFormatSupported(q.format, q.access) /\ storeViewDimensionMipLevelValid(q)}}
    \cup {executeTextureStoreBgra8unormSwizzle}
    \cup {executeTextureStoreOutOfBounds(p) :
            p \in {q \in [dim : {"1d", "2d", "3d"}, coords : {"i32", "u32"}, mipCount : 1 .. 3, mip : 0 .. 2] :
                    storeOutOfBoundsMipValid(q)}}
    \cup {executeTextureStoreOutOfBoundsArray(p) :
            p \in {q \in [baseLevel : 0 .. 3, arrayLevels : 1 .. 4, type : {"i32", "u32"}] : storeOutOfBoundsArrayValid(q)}}

(* Shaders.  Each invocation stores once: where, and what.                  *)
Write(x, y, z, layer, value) == [x |-> x, y |-> y, z |-> z, layer |-> layer, value |-> value]
FourFrom(values, id) == <<>> \o [k \in 1 .. 4 |-> values[((id + k - 1) % Len(values)) + 1]]
RangeAt(f, id) == FourFrom(storeInputArray(f), id)
\* The invocations of a compute shader come by whole workgroups along x; those beyond the row write nowhere.
Invocations(c) ==
    LET s == testMipLevelSize(c.format, c.view)
    IN  (0 .. (IF c.stage = "compute" THEN s.w * s.w ELSE s.w) - 1) \X (0 .. s.h - 1) \X (0 .. s.d - 1)
setValue(c, gid) ==
    Write(gid[1], gid[2], IF c.view = "3d" THEN gid[3] ELSE 0, IF c.view = "2d-array" THEN gid[3] ELSE 0,
          RangeAt(c.format, gid[1] + gid[2] + gid[3]))
indexToCoord(c, s, id) ==
    LET half == (s.w * s.h * s.d) \div s.d
    IN  CASE c.view = "1d" -> <<id, 0, 0>>
          [] c.view = "2d" -> <<id % s.w, id \div s.w, 0>>
          [] c.view = "3d" -> <<(id % half) % s.w, (id % half) \div s.w, id \div half>>
\* Where an invocation whose number is odd writes instead.
storeOOBValue(c, s, id, at) ==
    LET signed == c.coords = "i32"
    IN  CASE c.view = "1d" -> IF signed /\ id % 3 = 0 THEN <<-at[1], 0, 0>> ELSE <<at[1] + s.w, 0, 0>>
          [] c.view = "2d" /\ signed /\ id % 3 = 0 -> <<-at[1], at[2], 0>>
          [] c.view = "2d" /\ ~signed /\ id % 3 = 1 -> <<at[1] + s.w, at[2], 0>>
          [] c.view = "3d" /\ signed /\ id % 3 = 0 -> <<-at[1], at[2], at[3]>>
          [] c.view = "3d" /\ ~signed /\ id % 3 = 1 -> <<at[1] + s.w, at[2], at[3]>>
          [] c.view = "3d" /\ id % 3 # (IF signed THEN 0 ELSE 1) /\ id % 5 = (IF signed THEN 0 ELSE 1) ->
                 <<at[1], at[2] + s.h, at[3]>>
          [] c.view = "3d" /\ id % 3 # (IF signed THEN 0 ELSE 1) /\ id % 5 # (IF signed THEN 0 ELSE 1) ->
                 <<at[1], at[2], IF signed THEN at[3] + s.d ELSE 2 * s.d>>
          [] OTHER -> <<at[1], at[2] + s.h, 0>>
WriteOutOfBounds(c, id) ==
    LET s == mipSizeFor(c.size, c.view, c.baseMip)
        at == indexToCoord(c, s, id)
        to == IF id % 2 = 1 THEN storeOOBValue(c, s, id, at) ELSE at
    IN  Write(to[1], to[2], to[3], 0, <<id, 0, 0, 0>>)
WriteOutOfLayers(c, id) ==
    LET layerTexels == c.size.w * c.size.h
        layer == id \div layerTexels
        beyond == IF c.coords = "i32" /\ id % 3 = 0 THEN -(layer + c.viewLayers) ELSE layer + c.viewLayers
    IN  Write((id % layerTexels) % c.size.w, (id % layerTexels) \div c.size.w, 0, IF id % 2 = 1 THEN beyond ELSE layer,
              <<id, 0, 0, 0>>)
storeOOBMipTexels(dim, mip) ==
    CASE dim = "2d" -> StoreOOBTexels \div 4 ^ mip [] dim = "3d" -> StoreOOBTexels \div 8 ^ mip [] OTHER -> StoreOOBTexels
\* The writes of a test's shader; where each invocation writes at its own number, those of one number.
Writes(c, gid) ==
    CASE c.kind = "texels" -> IF gid \in Invocations(c) THEN {setValue(c, gid)} ELSE {}
      [] c.kind = "swizzle" -> {Write(i - 1, 0, 0, 0, SwizzleValues[i]) : i \in DOMAIN SwizzleValues}
      [] c.kind = "bounds" ->
             {WriteOutOfBounds(c, id) :
                 id \in 0 .. (storeOOBMipTexels(c.view, c.baseMip) \div StoreWorkgroup) * StoreWorkgroup - 1}
      [] c.kind = "array" -> {WriteOutOfLayers(c, id) : id \in 0 .. c.size.w * c.size.h * c.size.d - 1}

(* Expectations: what each level that is read back holds at a place.        *)
LevelsRead(c) == IF c.kind = "bounds" THEN 0 .. c.mips - 1 ELSE {c.baseMip}
Nothing(f) == [k \in FormatInfo[f].comps |-> 0]
OneNumber(f, n) == storeEncodeTexel(f, <<n, 0, 0, 0>>)
ExpectedOutOfBounds(c, mip, s, x, y, z) ==
    LET id == (z * s.h + y) * s.w + x
    IN  OneNumber(c.format, IF id < storeOOBMipTexels(c.view, mip) /\ mip = c.baseMip /\ id % 2 = 0 THEN id ELSE 0)
ExpectedOutOfLayers(c, x, y, z) ==
    LET layerTexels == c.size.w * c.size.h
        id == z * layerTexels + y * c.size.w + x
        inRange == id >= c.baseLayer * layerTexels /\ id < (c.baseLayer + c.viewLayers) * layerTexels
    IN  OneNumber(c.format, IF inRange /\ id % 2 = 0 THEN id - c.baseLayer * layerTexels ELSE 0)
ExpectedTexels(c, x, y, z) ==
    LET s == testMipLevelSize(c.format, c.view)
    IN  IF x < s.w /\ y < s.h /\ z < s.d THEN storeEncodeTexel(c.format, RangeAt(c.format, x + y + z)) ELSE Nothing(c.format)
ExpectedStored(c, mip, s, x, y, z) ==
    CASE c.kind = "texels" -> ExpectedTexels(c, x, y, z)
      [] c.kind = "swizzle" -> storeEncodeTexel(c.format, SwizzleValues[x + 1])
      [] c.kind = "bounds" -> ExpectedOutOfBounds(c, mip, s, x, y, z)
      [] c.kind = "array" -> ExpectedOutOfLayers(c, x, y, z)

(* The device.                                                              *)
\* A component is the step nearest to its value: of two as near, the upper or the lower.
DeviceEncodes(f, k, v, rounding) ==
    LET clamped == storeClampComponent(f, k, v)
    IN  IF isNormalized(f) THEN (2 * clamped * StepsOf(f, k) + rounding) \div 20 ELSE clamped
DeviceTexels(f, values) ==
    {[k \in FormatInfo[f].comps |-> DeviceEncodes(f, k, values[k + 1], rounding)] :
        rounding \in IF isNormalized(f) THEN {9, 10} ELSE {10}}
\* The writes inside the view, and what they may leave at a place of the texture; a place nothing writes
\* holds nothing.
Landed(t, v, writes) ==
    {[place |-> PlaceOf(v, w.x, w.y, w.z, w.layer, 0), value |-> w.value] :
        w \in {u \in writes : InView(t, v, u.x, u.y, u.z, u.layer, 0)}}
HeldOf(f, values) == IF values = {} THEN {Nothing(f)} ELSE UNION {DeviceTexels(f, value) : value \in values}
DeviceHolds(c, landed, place) == HeldOf(c.format, {w.value : w \in {u \in landed : u.place = place}})
=============================================================================
