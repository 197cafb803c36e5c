---------------------------- MODULE MCTexOracles -----------------------------
(* The cases of the tests of TexOracles: small textures, one format of each *)
(* kind, and the parameters the spec files give each test.                  *)
EXTENDS TexOracles

\* Points below, in and above the unit square, and directions across all the faces.
MCSpiralPlane(i) == <<((i * 29) % 97) - 32, ((i * 43) % 89) - 28>>
MCSpiralCube(i) ==
    <<2 * ((i * 5) % 13) - 12, <<-9, 1, 7, -1, 9, -7>>[(i % 6) + 1], <<3, -11, 5, 11, -5, -3, 13>>[(i % 7) + 1]>>
MCSpiralWide(i) == <<((i * 31) % 127) - 31, ((i * 47) % 127) - 31>>
\* What the queries of a device that weighs levels in eighths give, and of one that skews them.
MCLinearWeights == <<0, 1, 4, 7, 8>>
MCNearestWeights == <<0, 0, 8, 8, 8>>

LOCAL Points == samplePointMethods
LOCAL Pair(fs) == {[format |-> f[1], filt |-> f[2]] : f \in fs}
LOCAL Ps(fs, more) == {f @@ m : f \in fs, m \in more}
\* Besides astc5x4 for unaligned textures, and r8unorm for the query of the weights.
LOCAL Sampled == {"rgba8unorm", "r32float", "rg8uint", "bc2", "depth16unorm", "stencil8"}
LOCAL MCDepths == DepthFormats \cap Sampled
LOCAL Fs == Pair({f \in SampledFormats : f[1] \in Sampled})
LOCAL Line1 == {f \in Fs : isUncompressed(f.format)}
LOCAL UV == [modeU : shortAddressModes, modeV : shortAddressModes, offset : BOOLEAN, samplePoints : Points, stage : {"compute"}]
\* All the stages for one pair of modes.
LOCAL Staged == [modeU : {"repeat"}, modeV : {"clamp"}, offset : {TRUE}, samplePoints : {"spiral"}, stage : shortShaderStages \ {"compute"}]
LOCAL UVs == {p \in UV : p.modeU # p.modeV \/ p.modeU = "mirror"} \cup Staged
LOCAL Arr == [A : {"i32", "u32"}, layers : {4}]
LOCAL M3 == [mode : shortAddressModes, offset : BOOLEAN, samplePoints : Points, stage : {"compute"}]
LOCAL Cubes == [mode : {"clamp", "mirror"}, offset : {FALSE}, samplePoints : cubeSamplePointMethods, stage : {"compute"}]
LOCAL WithUVW(s) == {p @@ [modeU |-> p.mode, modeV |-> p.mode, modeW |-> p.mode] : p \in s}
LOCAL Clamps == Ps(lodClampParams, [samplePoints : {"spiral"}, stage : {"compute"}])
LOCAL Depths == {[format |-> f, L |-> l] : f \in MCDepths, l \in {"i32", "f32"}}
LOCAL Compares == {[format |-> f, compare |-> c, filt |-> filt] :
                     f \in MCDepths, c \in Range(compareFunctions), filt \in {"nearest", "linear"}}
LOCAL Implicit == {"textureSample", "textureSampleGrad", "textureSampleBias"}
LOCAL Builtins(s) == {p @@ [builtin |-> b] : p \in s, b \in Implicit}
LOCAL CompareBuiltins(s) == {p @@ [builtin |-> b] : p \in s, b \in {"textureSampleCompare", "textureSampleCompareLevel"}}

LevelCases ==
    {executeTextureSampleLevelSampled1D(p) : p \in Ps(Line1, UVs)}
    \cup {executeTextureSampleLevelSampled2D(p) : p \in Ps(Fs, UVs)}
    \cup {executeTextureSampleLevelSampled2DLodClamp(p) : p \in Ps(Fs, Clamps)}
    \cup {executeTextureSampleLevelSampled2DArray(p) : p \in Ps(Fs, Ps({u \in UVs : u.modeU = "mirror"}, Arr))}
    \cup {executeTextureSampleLevelSampled3D(p) : p \in Ps(Fs, {m @@ [dim |-> "3d"] : m \in M3})}
    \cup {executeTextureSampleLevelSampled3D(p) : p \in Ps(Fs, {m @@ [dim |-> "cube"] : m \in Cubes})}
    \cup {executeTextureSampleLevelSampled3DLodClamp(p) : p \in Ps(Fs, Ps(Clamps, [dim : {"3d", "cube"}]))}
    \cup {executeTextureSampleLevelSampledCubeArray(p) : p \in Ps(Fs, Ps(Cubes, Arr))}
    \cup {executeTextureSampleLevelDepth2D(p) : p \in Ps(Depths, M3)}
    \cup {executeTextureSampleLevelDepth2DArray(p) : p \in Ps(Depths, Ps(M3, Arr))}
    \cup {executeTextureSampleLevelDepth3D(p) : p \in Ps(Depths, Ps(Cubes, Ps(Arr, [viewDimension : {"cube", "cube-array"}])))}
    \cup {executeTextureSampleLevelSampled2DCompressedUnaligned(p) :
            p \in [format : {"astc5x4"}, filt : {"nearest", "linear"}, stage : {"compute"}, mode : shortAddressModes,
                   partialEdge : {"width", "height", "both"}]}
ImplicitCases ==
    {executeTextureSampleSampled1D(p) : p \in Ps(Line1, UVs)}
    \cup {executeTextureSampleSampled2D(p) : p \in Builtins(Ps(Fs, {u \in UVs : u.modeU = "repeat"}))}
    \cup {executeTextureSampleSampled2DLodClamp(p) : p \in Ps(Fs, Clamps)}
    \cup {executeTextureSampleSampled2DArray(p) : p \in Builtins(Ps(Fs, Ps({u \in UVs : u.modeV = "mirror" /\ u.offset}, Arr)))}
    \cup {executeTextureSampleSampled3D(p) : p \in Builtins(Ps(Fs, {m @@ [dim |-> "3d"] : m \in WithUVW({q \in M3 : q.offset})}))}
    \cup {executeTextureSampleSampled3D(p) : p \in Builtins(Ps(Fs, {m @@ [dim |-> "cube"] : m \in WithUVW(Cubes)}))}
    \cup {executeTextureSampleSampledCubeArray(p) : p \in Builtins(Ps(Fs, Ps(Cubes, Arr)))}
    \cup {executeTextureSampleDepth2D(p) : p \in Ps(Depths, UVs)}
    \cup {executeTextureSampleDepth2DArray(p) : p \in Ps(Depths, Ps(M3, Arr))}
    \cup {executeTextureSampleDepth3D(p) : p \in Ps(Depths, Ps(Cubes, Ps(Arr, [viewDimension : {"cube", "cube-array"}])))}
    \cup {baseTextureSampleBaseClampToEdgeCase(p @@ [format |-> "rgba8unorm"]) :
            p \in Ps([filt : {"nearest", "linear"}], UVs)}
CompareCases ==
    {executeTextureSampleCompare2D(p) : p \in CompareBuiltins(Ps(Compares, {u \in UVs : u.modeU = "clamp"}))}
    \cup {executeTextureSampleCompareCube(p) : p \in CompareBuiltins(Ps(Compares, Cubes))}
    \cup {executeTextureSampleCompare2DArray(p) : p \in CompareBuiltins(Ps(Compares, Ps({u \in UVs : u.modeU = "clamp"}, Arr)))}
    \cup {executeTextureSampleCompareCubeArray(p) : p \in CompareBuiltins(Ps(Compares, Ps(Cubes, Arr)))}
MCSamplingCases == LevelCases \cup ImplicitCases \cup CompareCases

LOCAL Gs == Ps(Pair({f \in GatherFormats : f[1] \in Sampled}), [C : {"i32", "u32"}])
LOCAL PlainGs == {g \in Gs : ~isDepthFormat(g.format) /\ ~isStencilOnlyFormat(g.format)}
LOCAL DGs == [format : MCDepths]
LOCAL GCompares == {c @@ [L |-> "f32"] : c \in Compares}
LOCAL GUV == {u \in UVs : u.offset \/ u.modeU = "clamp"}
MCGatherCases ==
    {executeTextureGatherSampled2D(p) : p \in Ps(Gs, UVs)}
    \cup {executeTextureGatherSampled3D(p) : p \in Ps(PlainGs, Cubes)}
    \cup {executeTextureGatherSampledArray2D(p) : p \in Ps(PlainGs, Ps(GUV, Arr))}
    \cup {executeTextureGatherSampledArray3D(p) : p \in Ps(PlainGs, Ps(Cubes, Arr))}
    \cup {executeTextureGatherDepth2D(p) : p \in Ps(DGs, UVs)}
    \cup {executeTextureGatherDepth3D(p) : p \in Ps(DGs, Cubes)}
    \cup {executeTextureGatherDepthArray2D(p) : p \in Ps(DGs, Ps(UVs, Arr))}
    \cup {executeTextureGatherDepthArray3D(p) : p \in Ps(DGs, Ps(Cubes, Arr))}
    \cup {executeTextureGatherCompareArray2D(p) : p \in Ps(GCompares, Ps(GUV, Arr))}
    \cup {executeTextureGatherCompareArray3D(p) : p \in Ps(GCompares, Ps(Cubes, Arr))}
    \cup {executeTextureGatherCompareSampled2D(p) : p \in Ps(GCompares, M3)}
    \cup {executeTextureGatherCompareSampled3D(p) : p \in Ps(GCompares, Cubes)}
=============================================================================
