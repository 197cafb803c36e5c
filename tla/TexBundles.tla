----------------------------- MODULE TexBundles ------------------------------
(* The pipelines of the tests that query, load and store (texture_utils.cpp) *)
(* and the caches a device keeps them in.  As in TexPipelines, a text is the *)
(* record of all it says that may differ between two cases.  The three      *)
(* caches are keyed by the text and by the parts of the layout.             *)
EXTENDS TexLoads, TexStores, TexCaches

(* Texts.                                                                   *)
\* A storage texture is declared with its format and its access.
DeclaredType(c) == [type |-> c.type, texels |-> IF isStorage(c) THEN <<c.format, c.access>> ELSE <<>>]
expectedCount(c) ==
    CASE c.ask # "dimensions" \/ c.view = "1d" -> 1 [] c.ask = "dimensions" /\ c.view = "3d" -> 3 [] OTHER -> 2
buildMetadataWgsl(c) ==
    [type |-> DeclaredType(c), value |-> <<c.ask, c.level>>, components |-> expectedCount(c), stage |-> c.stage]

loadCallWGSL(c) ==
    [coords |-> DimensionOf(c.view), arrayIndex |-> c.useArrayIndex, level |-> c.useLevel, sampleIndex |-> c.useSampleIndex]
loadResultExpr(c) ==
    [call |-> loadCallWGSL(c),
     as |-> CASE c.returnKind = "depth" -> "widened" [] c.returnKind = "uint" -> "as it is" [] OTHER -> "bitcast"]
buildTextureLoadWgsl(c) ==
    [type |-> DeclaredType(c), stage |-> c.stage, expr |-> loadResultExpr(c),
     calls |-> IF c.stage # "compute" \/ c.useLevel \/ c.useArrayIndex \/ c.useSampleIndex THEN kCallCount ELSE 0]

\* Where and what the shaders of the four store tests write is written into their text.
StoreWgsl(c) ==
    [type |-> DeclaredType(c), test |-> c.kind,
     values |-> CASE c.kind = "texels" -> <<storeInputArray(c.format)>>
                  [] c.kind = "swizzle" -> <<SwizzleValues>>
                  [] c.kind = "bounds" -> <<c.coords, mipSizeFor(c.size, c.view, c.baseMip)>>
                  [] c.kind = "array" -> <<c.coords, c.size, c.viewLayers>>]

(* Bundles: the text, the layout of the texture's binding and the kind of   *)
(* pipeline.                                                                *)
Binding(c) ==
    IF isStorage(c) THEN [access |-> c.access, format |-> c.format, view |-> c.view]
    ELSE [sampleType |-> c.sampleType, view |-> c.view, multisampled |-> c.samples > 1]
createMetadataPipelineBundle(c) == [module |-> buildMetadataWgsl(c), binding |-> Binding(c), visibility |-> c.stage]
createTextureLoadPipelineBundle(c) == [module |-> buildTextureLoadWgsl(c), binding |-> Binding(c), visibility |-> c.stage]
createTextureStorePipelineBundle(c) == [module |-> StoreWgsl(c), binding |-> Binding(c), visibility |-> c.stage]

(* Keys.                                                                    *)
LayoutPart(c) ==
    [stage |-> c.stage, view |-> c.view, sampleType |-> c.sampleType, samples |-> c.samples, storage |-> isStorage(c),
     access |-> c.access, format |-> IF isStorage(c) THEN c.format ELSE "undefined"]
metadataPipelineKey(c) == <<buildMetadataWgsl(c), LayoutPart(c)>>
textureLoadPipelineKey(c) == <<buildTextureLoadWgsl(c), LayoutPart(c)>>
textureStorePipelineKey(c) ==
    <<StoreWgsl(c), [compute |-> c.stage = "compute", access |-> c.access, format |-> c.format, view |-> c.view]>>

(* Caches: what a test leaves under its key, and the keys under which the   *)
(* tests of the given cases may find a pipeline they would not have made.   *)
MadeToLoad(c) == [key |-> textureLoadPipelineKey(c), bundle |-> createTextureLoadPipelineBundle(c)]
Made(c) ==
    CASE c.test = "query" -> [key |-> metadataPipelineKey(c), bundle |-> createMetadataPipelineBundle(c)]
      [] c.test = "load" -> MadeToLoad(Loaded(Rerouted(c)))
      [] c.test = "store" -> [key |-> textureStorePipelineKey(c), bundle |-> createTextureStorePipelineBundle(c)]
MistakenKeys(cases) == MistakenAmong({Made(c) : c \in cases})
=============================================================================
