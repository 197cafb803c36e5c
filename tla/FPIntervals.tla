---------------------------- MODULE FPIntervals -----------------------------
(***************************************************************************)
(* The acceptance intervals of floating_point.cpp: for every builtin and    *)
(* every input, the interval of results a test accepts.  The elementary     *)
(* operations are operators here; a composed builtin is a formula over them *)
(* (a tree), so that the interval the host computes and the results a       *)
(* conforming device may produce are two evaluations of one formula.        *)
(***************************************************************************)
EXTENDS FPFormat, Sequences

CONSTANTS
    Std(_, _),   \* the host's <cmath>: function name, argument; a double
    Accuracy,    \* name -> kind -> the error WGSL allows
    Pi           \* kind -> pi at that precision, "f64" -> pi as a double

\* The transcendental functions of abstract floats are as accurate as f32's.
Trans(k) == IF k = "F16" THEN "F16" ELSE "F32"

-----------------------------------------------------------------------------
(* Intervals                                                               *)

toInterval(b, e) == <<b, e>>
Point(x) == <<x, x>>
Unbounded == <<NegInf, Inf>>
IsFinite(k, X) == isFinite(k, X[1]) /\ isFinite(k, X[2])
Contains(X, x) == IF x = NaN THEN X = Unbounded ELSE Leq(X[1], x) /\ Leq(x, X[2])
Span(S) == <<Least({X[1] : X \in S}), Greatest({X[2] : X \in S})>>
Bounded(k, X) == IF IsFinite(k, X) THEN X ELSE Unbounded

\* What an operation is evaluated at for an argument interval: its end points, rounded and flushed.
Ends(k, X) == UNION {Inputs(k, x) : x \in {X[1], X[2]}}
Within(S, lo, hi) == \A x \in S : Leq(lo, x) /\ Leq(x, hi)

correctlyRoundedInterval(k, x) ==
    IF isFinite(k, x) THEN Bounded(k, Span({Point(y) : y \in Inputs(k, x)})) ELSE Unbounded

absoluteErrorInterval(k, x, err) ==
    IF ~isFinite(k, x) THEN Unbounded
    ELSE Bounded(k, Span({toInterval(m (-) err, m (+) err) : m \in Inputs(k, x)}))

\* Abstract floats use f32's ULP.
UlpOf(k, m, n) == n (.) oneULP(Trans(k), m)
LOCAL OrFlushed(k, lo, hi) ==
    toInterval(Least({lo, flushSubnormal(k, lo)}), Greatest({hi, flushSubnormal(k, hi)}))
LOCAL Around(k, m, err) == OrFlushed(k, m (-) err, m (+) err)
ulpInterval(k, x, n) ==
    IF isFinite(k, x) THEN Bounded(k, Span({Around(k, m, UlpOf(k, m, n)) : m \in Inputs(k, x)})) ELSE Unbounded

\* Mutant: the double sum is taken for the exact one.
AdditionIsExact(k, val, large, small) == correctlyRoundedInterval(k, val)
\* The double sum may have lost the smaller operand: then the neighbour counts too.
LOCAL BetweenNeighbours(k, large, na) ==
    IF isFinite(k, na)
    THEN Bounded(k, Span({correctlyRoundedInterval(k, y) : y \in UNION {Inputs(k, n) : n \in {large, na}}}))
    ELSE Unbounded
crUnboundedAddition(k, val, large, small) ==
    IF val = large /\ small # Zero /\ isFinite(k, large)
    THEN BetweenNeighbours(k, large, nextAfterFlush(k, large, Lt(Zero, small)))
    ELSE correctlyRoundedInterval(k, val)

-----------------------------------------------------------------------------
(* Elementary operations at a point                                        *)

addition(k, a, b) ==
    LET aLarge == Lt(Abs(b), Abs(a))
    IN crUnboundedAddition(k, a (+) b, IF aLarge THEN a ELSE b, IF aLarge THEN b ELSE a)
subtraction(k, a, b) == addition(k, a, Neg(b))
multiplication(k, a, b) == correctlyRoundedInterval(k, a (.) b)
division(k, a, b) == ulpInterval(k, a (/) b, <<5, 2>>)
negation(k, m) == correctlyRoundedInterval(k, Neg(m))

\* abs, floor, ceil, trunc, sign and round: exact functions, correctly rounded.
signOf(m) == IF Lt(Zero, m) THEN One ELSE IF Lt(m, Zero) THEN Neg(One) ELSE Zero
LOCAL NearerOf(f, before, above, after) ==
    IF Lt(before, after) \/ (before = after /\ f[1] % 2 = 0) THEN f ELSE above
LOCAL RoundBetween(m, f, above) == NearerOf(f, m (-) f, above, above (-) m)
roundOf(m) == RoundBetween(m, Floor(m), Floor(m) (+) One)
ExactOf(f, m) ==
    CASE f = "abs" -> Abs(m) [] f = "floor" -> Floor(m) [] f = "ceil" -> Ceil(m)
      [] f = "trunc" -> Trunc(m) [] f = "sign" -> signOf(m) [] f = "round" -> roundOf(m)
exact(k, f, m) == correctlyRoundedInterval(k, ExactOf(f, m))

inverseSqrt(k, m) == ulpInterval(k, One (/) Std("sqrt", m), Num(2))
\* exp and exp2: 3 + 2|x| ULP.
exponential(k, f, m) == ulpInterval(k, Std(f, m), Num(3) (+) (Num(2) (.) Abs(m)))
\* log and log2: an absolute error near 1, 3 ULP elsewhere.
logarithm(k, f, m) ==
    IF Leq(<<1, 2>>, m) /\ Leq(m, Num(2))
    THEN absoluteErrorInterval(k, Std(f, m), Accuracy.log[Trans(k)])
    ELSE ulpInterval(k, Std(f, m), Num(3))
\* sin and cos: an absolute error on [-pi, pi].
circular(k, f, m) == absoluteErrorInterval(k, Std(f, m), Accuracy.circular[Trans(k)])
arctangent(k, m) == ulpInterval(k, Std("atan", m), Accuracy.atan[Trans(k)])
atan2Of(y, x) ==
    LET a == Std("atan", y (/) x)
    IN IF Lt(x, Zero) THEN IF Lt(Zero, y) THEN a (+) Pi["f64"] ELSE a (-) Pi["f64"] ELSE a
atan2(k, y, x) == ulpInterval(k, atan2Of(y, x), Accuracy.atan[Trans(k)])

\* min and max may return either of two subnormals (zero counts as one).  For f16 the bounds
\* compared with are those of double.
isSubnormalInclZero(k, x) == Lt(Abs(x), MinNormal(IF k = "F32" THEN "F32" ELSE "Abstract"))
extremum(k, m, a, b) ==
    IF isSubnormalInclZero(k, a) /\ isSubnormalInclZero(k, b)
    THEN Span({correctlyRoundedInterval(k, y) : y \in UNION {Inputs(k, x) : x \in {a, b}}})
    ELSE correctlyRoundedInterval(k, IF m = "min" THEN Least({a, b}) ELSE Greatest({a, b}))

Median(a, b, c) == Greatest({Least({a, b}), Least({a, c}), Least({b, c})})
clampMedian(k, a, b, c) == correctlyRoundedInterval(k, Median(a, b, c))
step(e, x) == Point(IF Leq(e, x) THEN One ELSE Zero)
\* An f32 result with the precision of f16.
quantizeToF16Interval(m) == Span({Point(f) : f \in Inputs("F16", m)})

-----------------------------------------------------------------------------
(* Elementary operations over intervals: the span of what they give at the  *)
(* end points, if every end point is in the domain.                         *)

\* Accuracy is promised for divisors of normal magnitude up to 2^(emax-1) only.
InDivisorDomain(k, y) ==
    LET m == Abs(y)
    IN Leq(MinNormal(Trans(k)), m) /\ Leq(m, Pow2(Format[Trans(k)].emax - 1))
InDomain(k, op, E) ==
    CASE op = "div" -> \A b \in E[2] : InDivisorDomain(k, b)
      [] op \in {"inverseSqrt", "log", "log2"} -> Within(E[1], SubMin(k), MaxOf(k))
      [] op \in {"sin", "cos"} -> Within(E[1], Neg(Pi[Trans(k)]), Pi[Trans(k)])
      [] op = "atan2" -> /\ \A y \in E[1] : Leq(MinNormal(k), Abs(y)) /\ Leq(Abs(y), MaxOf(k))
                         /\ \A x \in E[2] : InDivisorDomain(k, x)
      [] OTHER -> TRUE
\* Where the arguments contain a discontinuity, it decides.
AtDiscontinuity(op, X) ==
    CASE op = "div" /\ Contains(X[2], Zero) -> <<X[1], Point(Zero)>>
      [] op = "atan2" /\ Contains(X[1], Zero) -> <<Point(Zero), IF Contains(X[2], Zero) THEN Point(Zero) ELSE X[2]>>
      [] OTHER -> X
LOCAL Tuples(E) ==
    CASE Len(E) = 1 -> {<<a>> : a \in E[1]} [] Len(E) = 2 -> E[1] \X E[2] [] Len(E) = 3 -> E[1] \X E[2] \X E[3]

positiveLessThanOne(k) == Step(k, One, FALSE)
Orders(n) == {p \in [1 .. n -> 1 .. n] : \A i, j \in 1 .. n : i # j => p[i] # p[j]}

RECURSIVE operation(_, _, _)
\* The difference of a value and its floor, which rounding may make a one.
LOCAL BelowOne(k, r) == IF Contains(r, One) THEN Span({r, Point(positiveLessThanOne(k))}) ELSE r
fract(k, m) == BelowOne(k, operation(k, "sub", <<Point(m), correctlyRoundedInterval(k, Floor(m))>>))
\* Sums are accepted in every order of their terms.
spanPermutedSums(k, T) ==
    LET SumIn(p) == LET acc[i \in 1 .. Len(T)] ==
                            IF i = 1 THEN T[p[1]] ELSE operation(k, "add", <<acc[i - 1], T[p[i]]>>)
                    IN acc[Len(T)]
    IN Span({SumIn(p) : p \in Orders(Len(T))})

LOCAL AtPoint(k, op, p) ==
    CASE op = "add" -> addition(k, p[1], p[2])
      [] op = "sub" -> subtraction(k, p[1], p[2])
      [] op = "mul" -> multiplication(k, p[1], p[2])
      [] op = "div" -> division(k, p[1], p[2])
      [] op = "neg" -> negation(k, p[1])
      [] op \in {"abs", "floor", "ceil", "trunc", "sign", "round"} -> exact(k, op, p[1])
      [] op = "quantizeToF16" -> quantizeToF16Interval(p[1])
      [] op = "fract" -> fract(k, p[1])
      [] op = "inverseSqrt" -> inverseSqrt(k, p[1])
      [] op \in {"exp", "exp2"} -> exponential(k, op, p[1])
      [] op \in {"log", "log2"} -> logarithm(k, op, p[1])
      [] op \in {"sin", "cos"} -> circular(k, op, p[1])
      [] op = "atan" -> arctangent(k, p[1])
      [] op = "atan2" -> atan2(k, p[1], p[2])
      [] op \in {"min", "max"} -> extremum(k, op, p[1], p[2])
      [] op = "median" -> clampMedian(k, p[1], p[2], p[3])
      [] op = "step" -> step(p[1], p[2])
LOCAL OverEnds(k, op, E) ==
    IF InDomain(k, op, E) THEN Bounded(k, Span({AtPoint(k, op, p) : p \in Tuples(E)})) ELSE Unbounded
LOCAL OverIntervals(k, op, X) == OverEnds(k, op, <<>> \o [i \in DOMAIN X |-> Ends(k, X[i])])
operation(k, op, X) ==
    IF op = "sum" THEN spanPermutedSums(k, X)
    ELSE IF \A i \in DOMAIN X : IsFinite(k, X[i]) THEN OverIntervals(k, op, AtDiscontinuity(op, X))
    ELSE Unbounded

\* The shift of a value by an exact power of two.
ldexp(k, X, e) ==
    IF ~IsFinite(k, X) \/ e > Format[k].emax + 1 THEN Unbounded
    ELSE Bounded(k, Span({correctlyRoundedInterval(k, m (.) Pow2(e)) : m \in Ends(k, X)}))

containsZeroOrSubnormal(k, X) ==
    ~Lt(X[2], Neg(SubMax(Trans(k)))) /\ ~Lt(SubMax(Trans(k)), X[1])
=============================================================================
