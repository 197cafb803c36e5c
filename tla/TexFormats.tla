----------------------------- MODULE TexFormats ------------------------------
(* What the tests of textures know of formats: the table of texture_format.h *)
(* and the questions texture_utils.cpp asks of it.                          *)
EXTENDS Integers, SequencesExt, TLC

CONSTANT FormatTable

\* Of each format: class, aspects, sample, comps, block, width, float, and what the tests that load and
\* store ask besides: bytes, multisample, volume, storage, the type and the bits of each component.
FormatInfo == FormatTable

Clamped(x, lo, hi) == IF x < lo THEN lo ELSE IF x > hi THEN hi ELSE x
AtLeast1(n) == IF n < 1 THEN 1 ELSE n
Min2(a, b) == IF a < b THEN a ELSE b
GcdOf(a, b) == CHOOSE g \in 1 .. Min2(a, b) :
                  a % g = 0 /\ b % g = 0 /\ \A k \in 1 .. Min2(a, b) : a % k = 0 /\ b % k = 0 => k <= g
lcmU32(a, b) == (a \div GcdOf(a, b)) * b
alignToU32(n, m) == ((n + m - 1) \div m) * m

Formats == DOMAIN FormatInfo
isDepthFormat(f) == "depth" \in FormatInfo[f].aspects
isStencilOnlyFormat(f) == FormatInfo[f].aspects = {"stencil"}
isUncompressed(f) == FormatInfo[f].class = "uncompressed"
isCompressedFloatFormat(f) == ~isUncompressed(f) /\ FormatInfo[f].float
isColorFloatLikeFormat(f) ==
    ~isDepthFormat(f) /\ ~isStencilOnlyFormat(f) /\ FormatInfo[f].sample = "float"
isPossiblyFilterableAsTextureF32(f) ==
    \/ isDepthFormat(f)
    \/ isColorFloatLikeFormat(f) /\ ~(FormatInfo[f].float /\ FormatInfo[f].width = 32)
isPotentiallyFilterableAndFillable(f) ==
    /\ ~isStencilOnlyFormat(f) /\ ~isCompressedFloatFormat(f)
    /\ isDepthFormat(f) \/ isColorFloatLikeFormat(f)
isSampledColorTextureFormatParam(f) == FormatInfo[f].aspects = {"color"}
isGatherFillableFormatParam(f) == isUncompressed(f) \/ ~FormatInfo[f].float

\* The depth every texel of a level and layer is cleared to, in thousandths.
depthValue(mip, layer) == 125 + 125 * ((mip * 7 + layer * 3) % 6)
=============================================================================
