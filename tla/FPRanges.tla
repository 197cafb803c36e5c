------------------------------ MODULE FPRanges ------------------------------
(***************************************************************************)
(* The input ranges of floating_point.cpp: values spread over an interval,  *)
(* or over the bit patterns of a format, by interpolation in double (f32,   *)
(* f16) or in 64-bit integers (double, i64) with an emulated 128-bit        *)
(* product.                                                                 *)
(***************************************************************************)
EXTENDS FPFormat, Sequences
LOCAL INSTANCE TLC

CONSTANTS
    HalfWord,   \* half the bits of int64_t
    Scaling     \* scaling of the biased index of biasedRangeBigIntS64

ASSUME RangeAssumption ==
    /\ HalfWord \in 2 .. 7
    /\ Scaling \in 1 .. 1000

Word == 2 ^ (2 * HalfWord)
INT64_MIN == -(Word \div 2)
INT64_MAX == Word \div 2 - 1

-----------------------------------------------------------------------------
(* Interpolation in double                                                 *)

lerp(a, b, t) ==
    LET across == (Leq(a, Zero) /\ Leq(Zero, b)) \/ (Leq(Zero, a) /\ Leq(b, Zero))
        x == a (+) (t (.) (b (-) a))
    IN IF ~Isfinite(a) \/ ~Isfinite(b) THEN NaN
       ELSE IF across THEN (t (.) b) (+) ((One (-) t) (.) a)
       ELSE IF t = One THEN b
       ELSE IF Lt(One, t) = Lt(a, b) THEN Greatest({b, x}) ELSE Least({b, x})

\* n values by an interpolation At of the index: the one step of a single value is a itself.
Spread(a, n, At(_)) == [i \in 1 .. n |-> IF n = 1 THEN a ELSE At(i - 1)]

linearRange(a, b, n) == Spread(a, n, LAMBDA i : lerp(a, b, Num(i) (/) Num(n - 1)))
linearRangeU32(a, b, n) ==
    Spread(Num(a), n, LAMBDA i : Trunc(lerp(Num(a), Num(b), Num(i) (/) Num(n - 1))))
biasedRange(a, b, n) ==
    Spread(a, n, LAMBDA i : LET t == Num(i) (/) Num(n - 1) IN lerp(a, b, t (.) t))

-----------------------------------------------------------------------------
(* Interpolation in 64-bit integers                                        *)

ProductInOneWord(a, idx, div) ==
    LET q == (((IF a < 0 THEN -a ELSE a) * idx) % Word) \div div IN IF a < 0 THEN -q ELSE q
\* a * idx / div through a product of two words, truncated towards zero.
mulDivS64(a, idx, div) ==
    LET half == 2 ^ HalfWord
        ua == IF a < 0 THEN -a ELSE a
        p0 == (ua % half) * idx
        p1 == ((ua \div half) * idx) % Word
        lo == (p0 + p1 * half) % Word
        hi == (p1 \div half) + ((p0 \div half) + (p1 % half)) \div half
        q == ((hi * Word + lo) \div div) % Word
    IN IF a < 0 THEN -q ELSE q

lerpBigIntS64(a, b, idx, steps) ==
    LET Part(v) == mulDivS64(v, idx, steps - 1)
        x == a + Part(b) - Part(a)
    IN IF steps = 1 \/ idx = 0 THEN a
       ELSE IF idx = steps - 1 THEN b
       ELSE IF (a <= 0 /\ b >= 0) \/ (a >= 0 /\ b <= 0) THEN Part(b) + (a - Part(a))
       ELSE IF b > a THEN IF b < x THEN b ELSE x
                     ELSE IF b > x THEN b ELSE x

biasedRangeBigIntS64(a, b, n) ==
    LET steps == n * Scaling
        Biased(i) == Trunc(Num(steps - 1) (.) ((Num(i) (/) Num(n - 1)) (.) (Num(i) (/) Num(n - 1))))[1]
    IN Spread(a, n, LAMBDA i : lerpBigIntS64(a, b, Biased(i), steps))

fullI64Range(n) == biasedRangeBigIntS64(INT64_MIN, -1, n) \o <<0>> \o biasedRangeBigIntS64(1, INT64_MAX, n)

-----------------------------------------------------------------------------
(* Ranges over the bit patterns of a format                                *)

\* Patterns of the magnitudes: subnormals, then the normals.
PosMin(k) == 2 ^ (Format[k].p - 1)
PosMax(k) == (Format[k].emax - Format[k].emin + 2) * PosMin(k) - 1
SignBit(k) == IF k = "Abstract" THEN Word \div 2
              ELSE 2 ^ (CHOOSE n \in 1 .. 20 : 2 ^ n > PosMax(k) /\ 2 ^ (n - 1) <= PosMax(k))
fromBits(k, b) ==
    LET m == b % SignBit(k)
        e == m \div PosMin(k)
        v == IF e = 0 THEN Times(Num(m), SubMin(k))
             ELSE Times(Num(PosMin(k) + (m % PosMin(k))), Times(Pow2(e - 1), SubMin(k)))
    IN IF b >= SignBit(k) THEN Neg(v) ELSE v

Decoded(k, fields) == [i \in DOMAIN fields |-> fromBits(k, Trunc(fields[i])[1])]
\* nn, ns, ps, pn: how many negative normal, negative and positive subnormal, positive normal values.
\* special: the largest floats that are integers, as patterns.
scalarF32RangeCounts(nn, ns, ps, pn, special) ==
    LET s == SignBit("F32")
        lin(a, b, n) == linearRangeU32(a, b, n)
        pos == lin(PosMin("F32"), PosMax("F32"), pn - 2)
    IN Decoded("F32", lin(s + PosMax("F32"), s + PosMin("F32"), nn) \o lin(s + PosMin("F32") - 1, s + 1, ns)
                      \o <<Num(s), Zero>> \o lin(1, PosMin("F32") - 1, ps)
                      \o SortSeq(pos \o special, Lt))
scalarF16RangeCounts(nn, ns, ps, pn) ==
    LET s == SignBit("F16")
        lin(a, b, n) == linearRange(Num(a), Num(b), n)
    IN Decoded("F16", lin(s + PosMax("F16"), s + PosMin("F16"), nn) \o lin(s + PosMin("F16") - 1, s + 1, ns)
                      \o <<Num(s), Zero>> \o lin(1, PosMin("F16") - 1, ps)
                      \o lin(PosMin("F16"), PosMax("F16"), pn))
\* The patterns are interpolated as int64: those with the sign bit are negative.
scalarF64RangeCounts(nn, ns, ps, pn) ==
    LET s == INT64_MIN
        lin(a, b, n) == [i \in 1 .. n |-> Num(lerpBigIntS64(a, b, i - 1, n) % Word)]
    IN Decoded("Abstract", lin(s + PosMax("Abstract"), s + PosMin("Abstract"), nn)
                           \o lin(s + PosMin("Abstract") - 1, s + 1, ns)
                           \o <<Num(s % Word), Zero>> \o lin(1, PosMin("Abstract") - 1, ps)
                           \o lin(PosMin("Abstract"), PosMax("Abstract"), pn))

-----------------------------------------------------------------------------
(* Vectors and matrices of interesting values                              *)

sparseScalarRange(k) ==
    LET below == <<Neg(MaxOf(k)), Num(-10), Num(-1), <<-1, 8>>, Neg(MinNormal(k)), Neg(SubMax(k)), Neg(SubMin(k)), Zero>>
    IN below \o [i \in 1 .. 8 |-> Neg(below[9 - i])]

\* Each vector has one interesting value, the others are its index with alternating signs.
sparseVectorRange(k, n) ==
    LET f == sparseScalarRange(k)
    IN [j \in DOMAIN f |-> [i \in 1 .. n |-> IF ((j - 1) % n) + 1 = i THEN f[j]
                                             ELSE Num(IF i % 2 = 1 THEN j - 1 ELSE 1 - j)]]
\* Column by column, the sign alternating over the whole matrix.
sparseMatrixRange(k, cols, rows) == sparseVectorRange(k, cols * rows)

\* Every interesting value at every position of a fixed vector.
denseVectorRange(interesting, n) ==
    LET T == CASE n = 2 -> <<<<0, 1>>, <<-1, 0>>>>
               [] n = 3 -> <<<<0, 1, -2>>, <<-1, 0, 2>>, <<1, -2, 0>>>>
               [] n = 4 -> <<<<0, -1, 2, 3>>, <<1, 0, -2, 3>>, <<1, 2, 0, -3>>, <<-1, 2, -3, 0>>>>
    IN [j \in 1 .. n * Len(interesting) |->
           [i \in 1 .. n |-> IF ((j - 1) % n) + 1 = i THEN interesting[(j - 1) \div n + 1]
                             ELSE Num(T[((j - 1) % n) + 1][i])]]

selectNCases(n, cases) == IF n >= Len(cases) THEN cases ELSE SubSeq(cases, 1, n)
=============================================================================
