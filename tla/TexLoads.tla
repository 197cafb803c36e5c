------------------------------ MODULE TexLoads -------------------------------
(* The tests of textureLoad (texture_utils.cpp): what each puts into its    *)
(* texture, where it loads from and what it expects.  A component is the    *)
(* number of its encoding, so that a step of it is 1; a depth texture's is  *)
(* in thousandths unless its format has fewer steps.                        *)
EXTENDS TexQueries

CONSTANTS channelValue(_, _, _, _, _, _),  \* of a format, x, y, z, level and channel: what the tests write
          pseudoRandomU32(_, _, _),        \* of a call, a salt and a limit: below the limit
          kCallCount

(* Cases.                                                                   *)
loadReturnKindForFormat(f, depth) ==
    CASE depth -> "depth"
      [] ~depth /\ (formatLooksUint(f) \/ isStencilOnlyFormat(f)) -> "uint"
      [] ~depth /\ formatLooksSint(f) -> "sint"
      [] OTHER -> "float"
loadComponentType(kind) == CASE kind = "uint" -> "u32" [] kind = "sint" -> "i32" [] OTHER -> "f32"
LoadedAs(f, dimension) == Type("sampled", dimension, FALSE, loadComponentType(loadReturnKindForFormat(f, FALSE)))
TextureLoadCase ==
    [test |-> "load", stage |-> "compute", samplePoints |-> "texel-centre", type |-> Type("sampled", "2d", FALSE, "f32"),
     format |-> "rgba8unorm", view |-> "2d", aspect |-> "all", usage |-> {"TextureBinding", "CopyDst"},
     sampleType |-> "float", access |-> "unused", isDepth |-> FALSE, useLevel |-> TRUE, useArrayIndex |-> FALSE,
     useSampleIndex |-> FALSE, size |-> Extent(8, 8, 1), mips |-> 1, samples |-> 1, baseMip |-> 0, viewMips |-> Undefined,
     baseLayer |-> 0, viewLayers |-> Undefined, returnKind |-> "float"]
LoadOf(fields) == fields @@ TextureLoadCase
AsDepth(view) ==
    [isDepth |-> TRUE, returnKind |-> "depth", type |-> Type("depth", view, FALSE, "f32"), sampleType |-> "depth",
     aspect |-> "depth", usage |-> RenderUsage]
LoadSize(view) ==
    CASE view = "1d" -> Extent(16, 1, 1) [] view = "3d" -> Extent(8, 8, 8) [] OTHER -> Extent(8, 8, 1)
\* Every level of a compressed texture is made of whole blocks.
adjustedSize(f, size, mips) ==
    LET multiple(i) == FormatInfo[f].block[i] * 2 ^ (mips - 1)
    IN  IF isUncompressed(f) THEN size
        ELSE [size EXCEPT !.w = alignToU32(Max({size.w, multiple(1)}), multiple(1)),
                          !.h = alignToU32(Max({size.h, multiple(2)}), multiple(2))]
baseLoadSampled(p, view) ==
    LET mips == IF view = "1d" THEN 1 ELSE 3
        colour == [type |-> LoadedAs(p.format, view), sampleType |-> metadataSampleType(p.format, "all", FALSE, 1),
                   returnKind |-> loadReturnKindForFormat(p.format, FALSE),
                   aspect |-> IF isStencilOnlyFormat(p.format) THEN "stencil" ELSE "all"]
    IN  LoadOf([stage |-> p.stage, samplePoints |-> p.samplePoints, format |-> p.format, view |-> view, mips |-> mips,
                size |-> adjustedSize(p.format, LoadSize(view), mips)]
               @@ (IF isDepthFormat(p.format) THEN AsDepth(view) ELSE colour))
executeTextureLoadSampled1D(p) == baseLoadSampled(p, "1d")
executeTextureLoadSampled2D(p) == baseLoadSampled(p, "2d")
executeTextureLoadSampled3D(p) == baseLoadSampled(p, "3d")
executeTextureLoadDepth(p) == AsDepth("2d") @@ baseLoadSampled(p, "2d")
executeTextureLoadArrayed(p) ==
    LET c == baseLoadSampled(p, "2d-array")
        d == p.type = "texture_depth_2d_array" \/ isDepthFormat(p.format)
    IN  [useArrayIndex |-> TRUE, size |-> [c.size EXCEPT !.d = p.layers]] @@ (IF d THEN AsDepth("2d-array") ELSE <<>>) @@ c
executeTextureLoadMultisampled(p) ==
    LET depth == p.type = "texture_depth_multisampled_2d" \/ isDepthFormat(p.format)
    IN  LoadOf([stage |-> p.stage, samplePoints |-> p.samplePoints, format |-> p.format, isDepth |-> depth, samples |-> 4,
                useLevel |-> FALSE, useSampleIndex |-> TRUE, usage |-> RenderUsage,
                returnKind |-> loadReturnKindForFormat(p.format, depth),
                type |-> IF depth THEN Type("depth", "2d", TRUE, "f32") ELSE [LoadedAs(p.format, "2d") EXCEPT !.multisampled = TRUE],
                sampleType |-> IF depth THEN "depth" ELSE metadataSampleType(p.format, "all", FALSE, 4),
                aspect |-> IF depth THEN "depth" ELSE IF isStencilOnlyFormat(p.format) THEN "stencil" ELSE "all"])
baseLoadStorage(p, view) ==
    LoadOf([stage |-> p.stage, samplePoints |-> p.samplePoints, format |-> p.format, view |-> view, useLevel |-> FALSE,
            access |-> "read", usage |-> {"StorageBinding", "CopyDst"}, size |-> LoadSize(view), sampleType |-> "unused",
            returnKind |-> loadReturnKindForFormat(p.format, FALSE), type |-> Type("storage", view, FALSE, "f32")])
executeTextureLoadStorage1D(p) == baseLoadStorage(p, "1d")
executeTextureLoadStorage2D(p) == [mips |-> 3, baseMip |-> p.baseMipLevel, viewMips |-> 1] @@ baseLoadStorage(p, "2d")
executeTextureLoadStorage2DArray(p) ==
    [useArrayIndex |-> TRUE, mips |-> 3, baseMip |-> p.baseMipLevel, viewMips |-> 1, baseLayer |-> p.baseArrayLayer,
     size |-> Extent(8, 8, p.layers)] @@ baseLoadStorage(p, "2d-array")
executeTextureLoadStorage3D(p) == baseLoadStorage(p, "3d")

textureLoadFormatCompatibleWith3D(f) == possiblyCompatible(f, "3d") /\ FormatInfo[f].class \notin {"bc", "astc"}
textureLoadDepthTextureTypeMatchesFormat(p) ==
    p.type \in {"texture_depth_2d_array", "texture_depth_multisampled_2d"} => isDepthFormat(p.format)
textureLoadArrayLayerBaseValid(p) == p.layers # 1 \/ p.baseArrayLayer = 0
LoadCases ==
    LET of(fs) == [stage : stages, samplePoints : {"texel-centre", "spiral"}, format : fs]
        fillable == {f \in Formats : ~isCompressedFloatFormat(f)}
        with(ps, fields) == {p @@ e : p \in ps, e \in fields}
        storage == of(possibleStorageTextureFormats)
    IN  {executeTextureLoadSampled1D(p) : p \in of({f \in Formats : possiblyCompatible(f, "1d") /\ isUncompressed(f)})}
        \cup {executeTextureLoadSampled2D(p) : p \in of(fillable)}
        \cup {executeTextureLoadSampled3D(p) : p \in of({f \in fillable : textureLoadFormatCompatibleWith3D(f)})}
        \cup {executeTextureLoadMultisampled(p) :
                p \in {q \in with(of({f \in Formats : FormatInfo[f].multisample}),
                                  [type : {"texture_multisampled_2d", "texture_depth_multisampled_2d"}]) :
                        textureLoadDepthTextureTypeMatchesFormat(q)}}
        \cup {executeTextureLoadDepth(p) : p \in of({f \in Formats : isDepthFormat(f)})}
        \cup {executeTextureLoadArrayed(p) :
                p \in {q \in with(of(fillable), [type : {"texture_2d_array", "texture_depth_2d_array"}, layers : {1, 8}]) :
                        textureLoadDepthTextureTypeMatchesFormat(q)}}
        \cup {executeTextureLoadStorage1D(p) : p \in storage}
        \cup {executeTextureLoadStorage2D(p) : p \in with(storage, [baseMipLevel : {0, 1}])}
        \cup {executeTextureLoadStorage2DArray(p) :
                p \in {q \in with(storage, [layers : {1, 8}, baseMipLevel : {0, 1}, baseArrayLayer : {0, 1}]) :
                        textureLoadArrayLayerBaseValid(q)}}
        \cup {executeTextureLoadStorage3D(p) : p \in storage}

(* Calls.                                                                   *)
isStorage(c) == c.type.form = "storage"
makeLoadCall(c, i) ==
    LET level == CASE c.useLevel -> i % c.mips [] ~c.useLevel /\ isStorage(c) -> c.baseMip [] OTHER -> 0
        s == mipSizeFor(c.size, DimensionOf(c.view), level)
        viewArrayLayers == IF c.viewLayers = Undefined THEN AtLeast1(c.size.d - c.baseLayer) ELSE c.viewLayers
    IN  [level |-> level,
         arrayIndex |-> IF c.useArrayIndex THEN i % viewArrayLayers ELSE 0,
         sampleIndex |-> IF c.useSampleIndex THEN i % c.samples ELSE 0,
         x |-> IF c.samplePoints = "texel-centre" THEN i % s.w ELSE pseudoRandomU32(i, 1, s.w),
         y |-> IF c.samplePoints = "texel-centre" THEN (i \div s.w) % s.h ELSE pseudoRandomU32(i, 2, s.h),
         z |-> IF c.samplePoints = "texel-centre" THEN (i \div (s.w * s.h)) % s.d ELSE pseudoRandomU32(i, 3, s.d)]

(* Contents and expectations.                                               *)
\* A multisampled texture of depths is loaded as one of depths, whatever the test asks for.
Rerouted(c) ==
    IF c.type.multisampled /\ isDepthFormat(c.format)
    THEN [isDepth |-> TRUE, returnKind |-> "depth", type |-> Type("depth", "2d", TRUE, "f32"), sampleType |-> "depth",
          aspect |-> "depth"] @@ c
    ELSE c
\* What is put into the texture: the depths of its levels and layers, one clear value, or colours.
prepareTextureLoadMips(c) ==
    CASE c.isDepth \/ (isDepthFormat(c.format) /\ ~isStorage(c) /\ ~c.type.multisampled) -> "depths"
      [] ~c.isDepth /\ (c.type.multisampled \/ isStencilOnlyFormat(c.format)) -> "zeros"
      [] OTHER -> "colours"
FillUsage(c) ==
    (IF prepareTextureLoadMips(c) = "depths" \/ c.type.multisampled THEN {"RenderAttachment"} ELSE {})
    \cup (IF prepareTextureLoadMips(c) = "depths" \/ c.type.multisampled THEN {} ELSE {"CopyDst"})
\* A compressed texture is read back and loaded from a texture of floats with the same texels.
Loaded(c) ==
    IF isUncompressed(c.format) \/ isStorage(c) THEN c
    ELSE [format |-> "rgba32float", aspect |-> "all", sampleType |-> metadataSampleType("rgba32float", "all", FALSE, c.samples),
          returnKind |-> "float", type |-> LoadedAs("rgba32float", c.view), usage |-> {"TextureBinding", "CopyDst"}] @@ c

DepthSteps(f) == 2 ^ FormatInfo[f].width - 1
depthLoadValue(f, mip, layer) ==
    IF FormatInfo[f].float THEN depthValue(mip, layer) ELSE (depthValue(mip, layer) * DepthSteps(f)) \div 1000
\* The four words of a load: what a format has no component for is 0, or 1 for alpha.
Texel(f, value) == [k \in 0 .. 3 |-> IF k \in FormatInfo[f].comps THEN value[k] ELSE IF k = 3 THEN 1 ELSE 0]
DepthTexel(d) == [k \in 0 .. 3 |-> IF k = 0 THEN d ELSE 0]
ColourAt(f, mip, x, y, z) == [k \in 0 .. 3 |-> channelValue(f, x, y, z, mip, k)]
Zero == [k \in 0 .. 3 |-> 0]
\* Mutant: the layers of a view are taken for those of the texture.
ExpectedFromTheFirstLayer(original, c, call) ==
    LET mipIndex == IF c.useLevel /\ ~isStorage(c) THEN call.level ELSE c.baseMip
        z == IF DimensionOf(c.view) = "3d" THEN call.z ELSE IF c.useArrayIndex THEN call.arrayIndex ELSE 0
    IN  CASE prepareTextureLoadMips(c) = "depths" -> DepthTexel(depthLoadValue(c.format, mipIndex, z))
          [] prepareTextureLoadMips(c) = "zeros" -> Texel(c.format, Zero)
          [] OTHER -> Texel(c.format, ColourAt(original, mipIndex, call.x, call.y, z))
expectedTextureLoadBits(original, c, call) ==
    LET mipIndex == IF c.useLevel /\ ~isStorage(c) THEN call.level ELSE c.baseMip
        arrayIndex == IF c.useArrayIndex THEN call.arrayIndex ELSE 0
        z == IF DimensionOf(c.view) = "3d" THEN call.z ELSE c.baseLayer + arrayIndex
    IN  CASE c.type.multisampled -> IF c.isDepth THEN DepthTexel(depthLoadValue(c.format, 0, 0)) ELSE Texel(c.format, Zero)
          [] ~c.type.multisampled /\ prepareTextureLoadMips(c) = "depths" ->
                 DepthTexel(depthLoadValue(c.format, mipIndex, c.baseLayer + arrayIndex))
          [] ~c.type.multisampled /\ prepareTextureLoadMips(c) = "zeros" -> Texel(c.format, Zero)
          [] OTHER -> Texel(c.format, ColourAt(original, mipIndex, call.x, call.y, z))
\* Floats may differ by three steps of the format, in the components it has.
textureLoadBitsMatch(c, k, expected, got) ==
    \/ expected = got
    \/ c.returnKind \in {"float", "depth"} /\ k \in FormatInfo[c.format].comps /\ expected - got \in -3 .. 3

(* The device.                                                              *)
\* A depth of a format without fractions may be rounded either way when the texture is cleared.
StoredDepths(f, d) ==
    IF FormatInfo[f].float THEN {d}
    ELSE {(d * DepthSteps(f)) \div 1000, (d * DepthSteps(f) + 999) \div 1000}
\* The channels of a stencil texture past the first are the device's to choose.
DeviceLoads(original, c, call, channels) ==
    LET place == PlaceOf(viewDesc(c), call.x, call.y, call.z, call.arrayIndex, IF TakesLevel(c.type) THEN call.level ELSE 0)
    IN  CASE prepareTextureLoadMips(c) = "depths" ->
                 {DepthTexel(d) : d \in StoredDepths(c.format, depthValue(place.mip, place.z))}
          [] prepareTextureLoadMips(c) = "zeros" /\ isStencilOnlyFormat(c.format) ->
                 {[k \in 0 .. 3 |-> CASE k = 0 -> 0 [] k = 3 -> open[2] [] OTHER -> open[1]] : open \in channels}
          [] prepareTextureLoadMips(c) = "zeros" /\ ~isStencilOnlyFormat(c.format) -> {Texel(c.format, Zero)}
          [] OTHER -> {Texel(c.format, ColourAt(original, place.mip, place.x, place.y, place.z))}
=============================================================================
