------------------------------- MODULE TexViews ------------------------------
(* What WebGPU and WGSL say of a texture bound to a shader: which textures, *)
(* views and bindings are valid, and what a conforming device answers.  A   *)
(* texture is a record of its format, dimension, size, mips, samples and    *)
(* usage, a view of its dimension, aspect, levels and layers, a type of its *)
(* form (sampled, depth or storage), its dimension, whether it is           *)
(* multisampled and the component it yields.                                *)
EXTENDS TexLayout

Undefined == -1
DimensionOf(view) == IF view \in {"1d", "3d"} THEN view ELSE "2d"
LevelExtent(t, mip) == mipSizeFor(t.size, t.dimension, mip)

\* What an optional feature lets a texture or a stage be.
Allowed(feature, needed, features) == needed => feature \in features
ValidTexture(t, features) ==
    LET info == FormatInfo[t.format]
        longest == Max({t.size.w, t.size.h, IF t.dimension = "3d" THEN t.size.d ELSE 1})
    IN  /\ t.size.w % info.block[1] = 0 /\ t.size.h % info.block[2] = 0
        /\ 2 ^ (t.mips - 1) <= longest
        /\ t.dimension = "1d" => t.size.h = 1 /\ t.size.d = 1 /\ t.mips = 1 /\ isUncompressed(t.format)
        /\ isDepthFormat(t.format) \/ isStencilOnlyFormat(t.format) => t.dimension = "2d"
        /\ Allowed("volumes", t.dimension = "3d" /\ ~isUncompressed(t.format), features)
        /\ t.samples > 1 => /\ info.multisample /\ t.mips = 1 /\ t.size.d = 1 /\ t.dimension = "2d"
                            /\ "RenderAttachment" \in t.usage /\ "StorageBinding" \notin t.usage
        /\ "StorageBinding" \in t.usage => info.storage # {}

\* The levels and layers of a view whose counts may be left to the texture.
ViewMips(t, v) == IF v.mips = Undefined THEN t.mips - v.baseMip ELSE v.mips
ViewLayers(t, v) ==
    IF v.layers # Undefined THEN v.layers
    ELSE CASE v.dimension \in {"1d", "2d", "3d"} -> 1
           [] v.dimension = "cube" -> 6
           [] OTHER -> t.size.d - v.baseLayer
ValidView(t, v) ==
    LET layers == ViewLayers(t, v)
    IN  /\ t.dimension = DimensionOf(v.dimension)
        /\ ViewMips(t, v) >= 1 /\ v.baseMip + ViewMips(t, v) <= t.mips
        /\ layers >= 1 /\ (t.dimension = "2d" => v.baseLayer + layers <= t.size.d)
        /\ v.dimension \in {"1d", "2d", "3d"} => layers = 1
        /\ v.dimension = "cube" => layers = 6
        /\ v.dimension = "cube-array" => layers % 6 = 0
        /\ v.dimension \in {"cube", "cube-array"} => t.size.w = t.size.h
        /\ v.aspect \in {"all"} \cup FormatInfo[t.format].aspects

\* The sample types a binding of a view may have.
SampleTypes(t, v) ==
    LET info == FormatInfo[t.format]
        aspects == IF v.aspect = "all" THEN info.aspects ELSE {v.aspect}
    IN  CASE aspects = {"depth"} -> {"depth", "unfilterable-float"}
          [] aspects = {"stencil"} -> {"uint"}
          [] aspects = {"depth", "stencil"} -> {}
          [] info.sample = "float" ->
                 {"unfilterable-float"} \cup (IF isPossiblyFilterableAsTextureF32(t.format) THEN {"float"} ELSE {})
          [] OTHER -> {info.sample}
\* The sample types under which a shader may declare the texture with that type.
DeclaredAs(type) ==
    IF type.form = "depth" THEN {"depth"}
    ELSE CASE type.component = "f32" -> {"unfilterable-float"} \cup (IF type.multisampled THEN {} ELSE {"float"})
           [] type.component = "u32" -> {"uint"}
           [] type.component = "i32" -> {"sint"}
ValidBinding(c, t, v, features) ==
    /\ c.type.dimension = v.dimension
    /\ c.type.multisampled <=> t.samples > 1
    /\ IF c.type.form = "storage"
       THEN /\ "StorageBinding" \in t.usage /\ ViewMips(t, v) = 1 /\ v.dimension \notin {"cube", "cube-array"}
            /\ c.access \in FormatInfo[t.format].storage
            /\ c.stage = "vertex" => c.access = "read"
            /\ Allowed("storage-in-" \o c.stage, c.stage # "compute", features)
       ELSE "TextureBinding" \in t.usage /\ c.sampleType \in SampleTypes(t, v) \cap DeclaredAs(c.type)
\* The arguments WGSL takes besides the coordinates: the type decides.
TakesLevel(type) == type.form # "storage" /\ ~type.multisampled
TakesLayer(type) == type.dimension \in {"2d-array", "cube-array"}

\* The answers of the queries, as the shader's four words.
DeviceAnswer(t, v, ask, level) ==
    LET s == LevelExtent(t, v.baseMip + (IF level = Undefined THEN 0 ELSE level))
        layers == ViewLayers(t, v)
    IN  CASE ask = "dimensions" /\ v.dimension = "1d" -> <<s.w, 0, 0, 0>>
          [] ask = "dimensions" /\ v.dimension = "3d" -> <<s.w, s.h, s.d, 0>>
          [] ask = "dimensions" /\ v.dimension \notin {"1d", "3d"} -> <<s.w, s.h, 0, 0>>
          [] ask = "levels" -> <<ViewMips(t, v), 0, 0, 0>>
          [] ask = "layers" -> <<IF v.dimension = "cube-array" THEN layers \div 6 ELSE layers, 0, 0, 0>>
          [] ask = "samples" -> <<t.samples, 0, 0, 0>>
\* The place in the texture a view's coordinates, layer and level mean, and whether there is one.
InView(t, v, x, y, z, layer, level) ==
    LET s == LevelExtent(t, v.baseMip + level)
    IN  /\ level \in 0 .. ViewMips(t, v) - 1 /\ layer \in 0 .. ViewLayers(t, v) - 1
        /\ x \in 0 .. s.w - 1 /\ y \in 0 .. s.h - 1
        /\ v.dimension = "3d" => z \in 0 .. s.d - 1
PlaceOf(v, x, y, z, layer, level) ==
    [mip |-> v.baseMip + level, x |-> x, y |-> y, z |-> IF v.dimension = "3d" THEN z ELSE v.baseLayer + layer]
=============================================================================
