------------------------------ MODULE FPFormat ------------------------------
(***************************************************************************)
(* Floating-point formats as the expression oracle sees them                *)
(* (floating_point.cpp).  A number is an exact extended rational            *)
(* <<n, d>>, d >= 0: <<1, 0>> and <<-1, 0>> are the infinities, <<0, 0>> is *)
(* NaN, zeros have no sign.  The host computes in double: the operators     *)
(* (+), (-), (.) and (/) round to the format of "Abstract", as its double   *)
(* arithmetic does.  Formats are CONSTANTs, so that TLC can use formats of  *)
(* a few bits.                                                              *)
(***************************************************************************)
EXTENDS Integers, FiniteSets

CONSTANT Format   \* kind -> [p: bits of precision, emin, emax: exponents of normal numbers]

Kinds == {"F32", "F16", "Abstract"}

ASSUME FormatAssumption ==
    /\ DOMAIN Format = Kinds
    /\ \A k \in Kinds : /\ Format[k].p \in 2 .. 12
                        /\ Format[k].emin \in -12 .. 0
                        /\ Format[k].emax \in 0 .. 12
    \* Products and quotients of two f32 values survive the double they are computed in.
    /\ Format["Abstract"].p >= 2 * Format["F32"].p + 3
    /\ Format["Abstract"].p >= 2 * Format["F16"].p + 3

-----------------------------------------------------------------------------
(* Extended rationals                                                      *)

Inf == <<1, 0>>
NegInf == <<-1, 0>>
NaN == <<0, 0>>
Num(n) == <<n, 1>>
Zero == Num(0)
One == Num(1)

LOCAL Gcd[a \in Nat, b \in Nat] == IF b = 0 THEN a ELSE Gcd[b, a % b]
LOCAL AbsInt(n) == IF n < 0 THEN -n ELSE n
LOCAL Sign(n) == IF n < 0 THEN -1 ELSE IF n = 0 THEN 0 ELSE 1

Ratio(n, d) ==
    IF d = 0 THEN <<Sign(n), 0>>
    ELSE LET g == Gcd[AbsInt(n), AbsInt(d)] * Sign(d) IN <<n \div g, d \div g>>

Isfinite(x) == x[2] # 0
Lt(x, y) == IF Isfinite(x) \/ Isfinite(y) THEN x[1] * y[2] < y[1] * x[2]
            ELSE x[1] < y[1] /\ x # NaN /\ y # NaN
Eq(x, y) == x = y /\ x # NaN
Leq(x, y) == Lt(x, y) \/ Eq(x, y)
Least(S) == CHOOSE x \in S : \A y \in S : Leq(x, y)
Greatest(S) == CHOOSE x \in S : \A y \in S : Leq(y, x)

Neg(x) == <<-x[1], x[2]>>
Abs(x) == <<AbsInt(x[1]), x[2]>>
Plus(x, y) == IF Isfinite(x) \/ Isfinite(y) THEN Ratio(x[1] * y[2] + y[1] * x[2], x[2] * y[2])
              ELSE IF x = y THEN x ELSE NaN
Times(x, y) == Ratio(x[1] * y[1], x[2] * y[2])
Quotient(x, y) == IF y[1] = 0 /\ y # NaN THEN Ratio(x[1], 0)
                  ELSE IF ~Isfinite(y) /\ ~Isfinite(x) THEN NaN
                  ELSE Ratio(x[1] * y[2], x[2] * y[1])

Pow2(e) == IF e >= 0 THEN <<2 ^ e, 1>> ELSE <<1, 2 ^ (-e)>>

\* The e with 2^e <= |x| < 2^(e+1), for a finite x # 0.
LOCAL Bits[n \in Nat] == IF n = 0 THEN 0 ELSE 1 + Bits[n \div 2]
Exponent(x) == LET e == Bits[AbsInt(x[1])] - Bits[x[2]]
               IN IF Leq(Pow2(e), Abs(x)) THEN e ELSE e - 1

Floor(x) == IF Isfinite(x) THEN Num(x[1] \div x[2]) ELSE x
Ceil(x) == Neg(Floor(Neg(x)))
Trunc(x) == IF Lt(x, Zero) THEN Ceil(x) ELSE Floor(x)

\* Round to nearest, ties to even, on the multiples of 2^s.
LOCAL Nearest(y) ==   \* y >= 0
    LET r == y[1] \div y[2]
        twice == 2 * (y[1] % y[2])
    IN IF twice > y[2] \/ (twice = y[2] /\ r % 2 = 1) THEN r + 1 ELSE r
RoundEven(x, s) == Times(Num(Sign(x[1]) * Nearest(Times(Abs(x), Pow2(-s)))), Pow2(s))

-----------------------------------------------------------------------------
(* The values of a format: kF32PosMax, kF16Min, kF64PosMin and so on       *)

MaxOf(k) == Times(Num(2 ^ Format[k].p - 1), Pow2(Format[k].emax - Format[k].p + 1))
MinNormal(k) == Pow2(Format[k].emin)
SubMin(k) == Pow2(Format[k].emin - Format[k].p + 1)
SubMax(k) == Plus(MinNormal(k), Neg(SubMin(k)))
MaxULP(k) == Pow2(Format[k].emax - Format[k].p + 1)

isSubnormal(k, x) == Isfinite(x) /\ x # Zero /\ Lt(Abs(x), MinNormal(k))
isFinite(k, x) == Isfinite(x) /\ Leq(Abs(x), MaxOf(k))
flushSubnormal(k, x) == IF isSubnormal(k, x) THEN Zero ELSE x

\* Distance to the next larger magnitude, for a finite x.
LOCAL MaxInt(a, b) == IF a > b THEN a ELSE b
QuantumExp(k, x) ==
    (IF x = Zero THEN Format[k].emin ELSE MaxInt(Exponent(x), Format[k].emin)) - Format[k].p + 1

\* The cast to float rounds to infinity from half a unit above the largest value on;
\* quantizeToF16Value rounds to infinity from the largest value on.
LOCAL Saturated(k, y, compared) ==
    IF Lt(MaxOf(k), Abs(compared)) THEN <<Sign(compared[1]), 0>> ELSE y
LOCAL Cast(k, x, y) == Saturated(k, y, IF k = "F16" THEN x ELSE y)
quantize(k, x) == IF Isfinite(x) THEN Cast(k, x, RoundEven(x, QuantumExp(k, x))) ELSE x

\* One step on the grid of k from a value x of it: the integer step on the bit pattern.
LOCAL OrInf(k, y) == IF Lt(MaxOf(k), y) THEN Inf ELSE y
LOCAL Away(k, x) == OrInf(k, Plus(x, Pow2(QuantumExp(k, x))))   \* x >= 0
LOCAL Gap(k, x, e) == QuantumExp(k, x) - (IF x = Pow2(e) /\ e > Format[k].emin THEN 1 ELSE 0)
LOCAL Towards(k, x) ==                                          \* x > 0
    IF x = Inf THEN MaxOf(k) ELSE Plus(x, Neg(Pow2(Gap(k, x, Exponent(x)))))
LOCAL WithSign(x, y) == IF Lt(x, Zero) THEN Neg(y) ELSE y
Step(k, x, positive) ==
    WithSign(x, IF positive <=> Leq(Zero, x) THEN Away(k, Abs(x)) ELSE Towards(k, Abs(x)))

\* nextAfterF32Flush, nextAfterF16Flush and nextAfterF64Flush: the value v of the host becomes q.
LOCAL Beyond(k, v, q, positive) ==
    IF IF positive THEN Leq(q, v) ELSE Leq(v, q) THEN Step(k, q, positive) ELSE q
LOCAL NextAfter(k, v, positive) ==
    IF v = Zero THEN IF positive THEN MinNormal(k) ELSE Neg(MinNormal(k))
    ELSE flushSubnormal(k, Beyond(k, v, quantize(k, v), positive))
nextAfterFlush(k, x, positive) ==
    IF Isfinite(x) THEN NextAfter(k, flushSubnormal(k, x), positive) ELSE x

LOCAL Spacing(k, v, before, after) ==
    IF quantize(k, v) = v THEN Least({Plus(v, Neg(before)), Plus(after, Neg(v))}) ELSE Plus(after, Neg(before))
LOCAL UlpAt(k, v) ==
    IF Leq(MaxOf(k), Abs(v)) THEN MaxULP(k)
    ELSE Spacing(k, v, nextAfterFlush(k, v, FALSE), nextAfterFlush(k, v, TRUE))
oneULP(k, x) == IF x = NaN THEN NaN ELSE UlpAt(k, flushSubnormal(k, x))

\* correctlyRoundedF32 and correctlyRoundedF16: one or two values of the format.
LOCAL Neighbours(k, x, q) == IF q = x THEN {x} ELSE {q, Step(k, q, Lt(q, x))}
LOCAL RoundedTo(k, x) ==
    IF x = NaN THEN {x}
    ELSE IF Leq(Abs(x), MaxOf(k)) THEN Neighbours(k, x, quantize(k, x))
    ELSE {WithSign(x, y) : y \in IF Leq(Pow2(Format[k].emax + 1), Abs(x)) THEN {Inf} ELSE {MaxOf(k), Inf}}

\* correctlyRoundedF64: every double is itself; an infinity may come from a finite overflow.
LOCAL RoundedToDouble(x) ==
    IF x = Inf THEN {MaxOf("Abstract"), Inf}
    ELSE IF x = NegInf THEN {NegInf, Neg(MaxOf("Abstract"))}
    ELSE {x}

correctlyRounded(k, x) == IF k = "Abstract" THEN RoundedToDouble(x) ELSE RoundedTo(k, x)

AlwaysFlushed(k, X) == X \cup {Zero}
addFlushedIfNeeded(k, X) == IF \E x \in X : isSubnormal(k, x) THEN X \cup {Zero} ELSE X

\* The values a device may work with where the test passes x.
Inputs(k, x) == addFlushedIfNeeded(k, correctlyRounded(k, x))

-----------------------------------------------------------------------------
(* The host's double arithmetic                                            *)

Double(x) == quantize("Abstract", x)
x (+) y == Double(Plus(x, y))
x (-) y == Double(Plus(x, Neg(y)))
x (.) y == Double(Times(x, y))
x (/) y == Double(Quotient(x, y))

\* Every finite value of a small format.
Values(k) ==
    LET s == Format[k].emin - Format[k].p + 1
        n == 2 ^ (Format[k].emax - s + 1)
        OnGrid(i) == quantize(k, Times(Num(i), Pow2(s))) = Times(Num(i), Pow2(s))
    IN {Times(Num(i), Pow2(s)) : i \in {j \in -n .. n : OnGrid(j)}}
=============================================================================
