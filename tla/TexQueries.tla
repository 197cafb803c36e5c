----------------------------- MODULE TexQueries ------------------------------
(* The tests of textureDimensions, textureNumLevels, textureNumLayers and   *)
(* textureNumSamples (texture_utils.cpp): the texture and view each makes   *)
(* and the answer it expects.                                               *)
EXTENDS TexViews

kMetadataMaxMipsForTest == 3
kMetadataMaxSamplesForTest == 4
kMetadataNumLayers == 36

formatLooksUint(f) == FormatInfo[f].sample = "uint" /\ ~isStencilOnlyFormat(f)
formatLooksSint(f) == FormatInfo[f].sample = "sint"
metadataSampleType(f, aspect, depthTextureType, samples) ==
    CASE aspect = "stencil" \/ isStencilOnlyFormat(f) -> "uint"
      [] ~(aspect = "stencil" \/ isStencilOnlyFormat(f)) /\ depthTextureType -> "depth"
      [] aspect # "stencil" /\ ~depthTextureType /\ isDepthFormat(f) -> "unfilterable-float"
      [] formatLooksUint(f) -> "uint"
      [] formatLooksSint(f) -> "sint"
      [] OTHER -> IF samples > 1 \/ ~isPossiblyFilterableAsTextureF32(f) THEN "unfilterable-float" ELSE "float"
sampledWGSLTypeFor(f, aspect) ==
    CASE aspect = "stencil" \/ isStencilOnlyFormat(f) \/ formatLooksUint(f) -> "u32"
      [] formatLooksSint(f) -> "i32"
      [] OTHER -> "f32"

(* Parameters.                                                              *)
formatAspects(f) == IF FormatInfo[f].aspects = {"depth", "stencil"} THEN {"depth", "stencil"} ELSE {"all"}
formatSamples(f) == IF FormatInfo[f].multisample THEN {1, kMetadataMaxSamplesForTest} ELSE {1}
dimensionsValidForStorage == {"1d", "2d", "2d-array", "3d"}
possiblyCompatible(f, dimension) ==
    \/ dimension = "2d"
    \/ FormatInfo[f].aspects = {"color"} /\ (isUncompressed(f) \/ (dimension = "3d" /\ FormatInfo[f].volume))
viewDimensionsFor(f, samples) ==
    IF samples > 1 THEN {"2d"}
    ELSE {v \in {"1d", "2d", "2d-array", "3d", "cube", "cube-array"} : possiblyCompatible(f, DimensionOf(v))}
metadataMipCounts(view, samples) ==
    IF samples # 1 \/ DimensionOf(view) = "1d" THEN {1} ELSE {1, kMetadataMaxMipsForTest}
metadataBaseMipLevels(mips) == 0 .. mips - 1
metadataDimensionsLevels(samples, mips, baseMip) ==
    IF samples > 1 THEN {Undefined} ELSE {Undefined} \cup (0 .. mips - baseMip - 1)
isStorageReadWriteAccessOrFormatSupported(f, access) ==
    access = "read_write" => "read_write" \in FormatInfo[f].storage
\* Mutant: the spec files' filter is left out.
WritableInEveryStage(stage, access) == stage \in {"compute", "vertex", "fragment"}
isNotWritableStorageInVertexStage(stage, access) == stage # "vertex" \/ access = "read"
possibleStorageTextureFormats == {f \in Formats : FormatInfo[f].storage # {}}
stages == {"compute", "vertex", "fragment"}

metadataTestSize(view, f) ==
    LET kMinLen == 2 ^ kMetadataMaxMipsForTest
        bw == alignToU32(kMinLen, FormatInfo[f].block[1])
        bh == alignToU32(kMinLen, FormatInfo[f].block[2])
    IN  CASE view = "1d" -> Extent(bw * 2, 1, 1)
          [] view = "2d" -> Extent(bw * 2, bh * 3, 1)
          [] view = "2d-array" -> Extent(bw * 4, bh * 3, 4)
          [] view = "3d" -> Extent(bw * 2, bh * 3, kMinLen * 4)
          [] view = "cube" -> Extent(bw * bh * 3, bw * bh * 3, 6)
          [] view = "cube-array" -> Extent(bw * bh * 4, bw * bh * 4, 18)
expectedDimensions(view, size, mip) ==
    LET at(n) == AtLeast1(n) \div 2 ^ mip
    IN  CASE view = "1d" -> <<at(size.w), 0, 0, 0>>
          [] view = "3d" -> <<at(size.w), at(size.h), at(size.d), 0>>
          [] OTHER -> <<at(size.w), at(size.h), 0, 0>>
(* Cases.                                                                   *)
textureDesc(c) ==
    [format |-> c.format, dimension |-> DimensionOf(c.view), size |-> c.size, mips |-> c.mips, samples |-> c.samples, usage |-> c.usage]
viewDesc(c) ==
    [dimension |-> c.view, aspect |-> c.aspect, baseMip |-> c.baseMip, mips |-> c.viewMips,
     baseLayer |-> c.baseLayer, layers |-> c.viewLayers]
\* Whether the device lacks what the case needs of it, and the test is skipped.
skipIfNoStorageTexturesInStage(stage, features) == stage # "compute" /\ "storage-in-" \o stage \notin features
skipIfTextureUnsupported(c, features) ==
    \/ c.samples > 1 /\ ~FormatInfo[c.format].multisample
    \/ /\ c.type.form = "storage"
       /\ skipIfNoStorageTexturesInStage(c.stage, features) \/ c.access \notin FormatInfo[c.format].storage
    \/ c.view = "3d" /\ ~isUncompressed(c.format) /\ "volumes" \notin features
Type(form, dimension, multisampled, component) ==
    [form |-> form, dimension |-> dimension, multisampled |-> multisampled, component |-> component]
MetadataQueryCase ==
    [test |-> "query", stage |-> "compute", type |-> Type("sampled", "2d", FALSE, "f32"), ask |-> "dimensions",
     level |-> Undefined, format |-> "rgba8unorm", view |-> "2d", aspect |-> "all", usage |-> {"TextureBinding"},
     sampleType |-> "float", access |-> "unused", size |-> Extent(1, 1, 1), samples |-> 1, mips |-> 1, baseMip |-> 0,
     viewMips |-> Undefined, baseLayer |-> 0, viewLayers |-> Undefined, expected |-> <<0, 0, 0, 0>>]
QueryOf(fields) == fields @@ MetadataQueryCase
RenderUsage == {"TextureBinding", "RenderAttachment"}

\* Mutant: a level that is asked for is counted from the texture's first, not the view's.
LevelOfTheTexture(p) == IF p.textureDimensionsLevel = Undefined THEN p.baseMipLevel ELSE p.textureDimensionsLevel
\* The first level the view shows, then the one the query asks for, counted from there.
QueriedMip(p) == p.baseMipLevel + (IF p.textureDimensionsLevel = Undefined THEN 0 ELSE p.textureDimensionsLevel)
dimensionsCase(p) ==
    LET size == metadataTestSize(p.dimensions, p.format)
    IN  [stage |-> p.stage, format |-> p.format, view |-> p.dimensions, aspect |-> p.aspect, samples |-> p.samples,
         mips |-> p.textureMipCount, baseMip |-> p.baseMipLevel, size |-> size,
         expected |-> expectedDimensions(p.dimensions, size, QueriedMip(p)), level |-> p.textureDimensionsLevel,
         usage |-> IF p.samples = 1 THEN {"TextureBinding"} ELSE RenderUsage]
executeTextureDimensionsSampledAndMultisampled(p) ==
    QueryOf([type |-> Type("sampled", p.dimensions, p.samples > 1, sampledWGSLTypeFor(p.format, p.aspect)),
             sampleType |-> metadataSampleType(p.format, p.aspect, FALSE, p.samples)] @@ dimensionsCase(p))
executeTextureDimensionsDepth(p) ==
    QueryOf([type |-> Type("depth", p.dimensions, p.samples > 1, "f32"), sampleType |-> "depth"] @@ dimensionsCase(p))
executeTextureDimensionsStorage(p) ==
    QueryOf([type |-> Type("storage", p.dimensions, FALSE, "f32"), sampleType |-> "unused", access |-> p.access,
             usage |-> {"StorageBinding"}, viewMips |-> 1] @@ dimensionsCase(p))

Sampled(p) ==
    CASE p.sampled_type = "i32" -> [format |-> "rgba8sint", sampleType |-> "sint"]
      [] p.sampled_type = "u32" -> [format |-> "rgba8uint", sampleType |-> "uint"]
      [] p.sampled_type = "f32" -> [format |-> "rgba8unorm", sampleType |-> "float"]
Depth32 == [format |-> "depth32float", sampleType |-> "depth"]
LevelsOf(p, of) ==
    LET flat == p.view = "1d"
        mips == IF flat THEN 1 ELSE 4
        shown == IF p.view_type = "partial" THEN 2 ELSE mips
    IN  QueryOf([stage |-> p.stage, ask |-> "levels", view |-> p.view, mips |-> mips, viewMips |-> shown,
                 size |-> Extent(64, IF flat THEN 1 ELSE 64, IF p.view \in {"cube", "cube-array"} THEN 6 ELSE 1),
                 baseMip |-> IF p.view_type = "partial" THEN 1 ELSE 0, expected |-> <<shown, 0, 0, 0>>] @@ of)
executeTextureNumLevelsSampled(p) ==
    LevelsOf(p, Sampled(p) @@ [type |-> Type("sampled", p.view, FALSE, p.sampled_type)])
executeTextureNumLevelsDepth(p) == LevelsOf(p, Depth32 @@ [type |-> Type("depth", p.view, FALSE, "f32")])
LayersOf(p, of) ==
    LET shown == IF p.view_type = "partial" THEN 6 ELSE kMetadataNumLayers
    IN  QueryOf([stage |-> p.stage, ask |-> "layers", view |-> p.view, size |-> Extent(1, 1, kMetadataNumLayers),
                 baseLayer |-> IF p.view_type = "partial" THEN 11 ELSE 0, viewLayers |-> shown,
                 expected |-> <<shown \div (IF p.view = "cube-array" THEN 6 ELSE 1), 0, 0, 0>>] @@ of)
executeTextureNumLayersSampled(p) ==
    LayersOf(p, Sampled(p) @@ [type |-> Type("sampled", p.view, FALSE, p.sampled_type)])
executeTextureNumLayersArrayed(p) == LayersOf(p, Depth32 @@ [type |-> Type("depth", p.view, FALSE, "f32")])
executeTextureNumLayersStorage(p) ==
    LayersOf(p, [format |-> p.format, type |-> Type("storage", p.view, FALSE, "f32"), access |-> p.access,
                 usage |-> {"StorageBinding"}])
SamplesOf(p, of) ==
    QueryOf([stage |-> p.stage, ask |-> "samples", usage |-> RenderUsage, samples |-> 4, expected |-> <<4, 0, 0, 0>>] @@ of)
executeTextureNumSamplesSampled(p) ==
    SamplesOf(p, [sampleType |-> IF p.sampled_type = "f32" THEN "unfilterable-float" ELSE Sampled(p).sampleType]
                 @@ Sampled(p) @@ [type |-> Type("sampled", "2d", TRUE, p.sampled_type)])
executeTextureNumSamplesDepth(p) == SamplesOf(p, Depth32 @@ [type |-> Type("depth", "2d", TRUE, "f32")])

\* Every case the spec files make of the formats.
DimensionsParams(fs, views) ==
    UNION {[format : {f}, aspect : formatAspects(f), samples : {n}, stage : stages, dimensions : {view}, textureMipCount : {m},
            baseMipLevel : {b}, textureDimensionsLevel : metadataDimensionsLevels(n, m, b)] :
           <<f, n, view, m, b>> \in
              {x \in fs \X {1, 4} \X views \X {1, 3} \X (0 .. 2) :
                 /\ x[2] \in formatSamples(x[1]) /\ x[3] \in viewDimensionsFor(x[1], x[2])
                 /\ x[4] \in metadataMipCounts(x[3], x[2]) /\ x[5] \in metadataBaseMipLevels(x[4])}}
QueryCases ==
    LET depths == {f \in Formats : isDepthFormat(f)}
        all == {"1d", "2d", "2d-array", "3d", "cube", "cube-array"}
        kinds(views, vts) == [view : views, view_type : vts, stage : stages]
        Typed(ps) == {p @@ [sampled_type |-> s] : p \in ps, s \in {"f32", "i32", "u32"}}
        storageParams(p, access) ==
            isStorageReadWriteAccessOrFormatSupported(p.format, access) /\ isNotWritableStorageInVertexStage(p.stage, access)
        Storage(ps) ==
            {p @@ [access |-> a] : p \in ps, a \in {"read", "write", "read_write"}}
    IN  {executeTextureDimensionsSampledAndMultisampled(p) : p \in DimensionsParams(Formats, all)}
        \cup {executeTextureDimensionsDepth(p) : p \in {q \in DimensionsParams(depths, all) : q.aspect # "stencil"}}
        \cup {executeTextureDimensionsStorage(p) :
                p \in {q \in Storage({r \in DimensionsParams(possibleStorageTextureFormats, dimensionsValidForStorage) :
                                        r.samples = 1 /\ r.textureDimensionsLevel = Undefined}) : storageParams(q, q.access)}}
        \cup {executeTextureNumLevelsSampled(p) :
                p \in Typed(kinds({"1d"}, {"full"}) \cup
                            kinds({"2d", "2d-array", "3d", "cube", "cube-array"}, {"full", "partial"}))}
        \cup {executeTextureNumLevelsDepth(p) : p \in kinds({"2d", "2d-array", "cube", "cube-array"}, {"full", "partial"})}
        \cup {executeTextureNumLayersSampled(p) : p \in Typed(kinds({"2d-array", "cube-array"}, {"full", "partial"}))}
        \cup {executeTextureNumLayersArrayed(p) : p \in kinds({"2d-array", "cube-array"}, {"full", "partial"})}
        \cup {executeTextureNumLayersStorage(p) :
                p \in {q \in Storage({k @@ [format |-> f] : k \in kinds({"2d-array"}, {"full", "partial"}),
                                                            f \in possibleStorageTextureFormats}) : storageParams(q, q.access)}}
        \cup {executeTextureNumSamplesSampled(p) : p \in Typed([stage : stages])}
        \cup {executeTextureNumSamplesDepth(p) : p \in [stage : stages]}
=============================================================================
