----------------------------- MODULE FPBuiltins -----------------------------
(***************************************************************************)
(* The composed builtins of floating_point.cpp as formulas over the         *)
(* elementary operations of FPIntervals, and what a device that conforms to *)
(* WGSL may return for them.  A formula is a tree: <<op, arg, ...>>, with   *)
(* M(a, c, r) the entry of argument a in column c and row r; a vector is a  *)
(* column, V(a, i) its i-th component.                                      *)
(***************************************************************************)
EXTENDS FPIntervals

M(a, c, r) == <<"var", <<a, c, r>>>>
V(a, i) == M(a, 1, i)
MinusM(a, c, r) == <<"minusvar", <<a, c, r>>>>
C(q) == <<"const", q>>
X1 == V("x", 1)
Y1 == V("y", 1)
Z1 == V("z", 1)
Add(a, b) == <<"add", a, b>>
Sub(a, b) == <<"sub", a, b>>
Mul(a, b) == <<"mul", a, b>>
Div(a, b) == <<"div", a, b>>
Either(a, b) == <<"either", a, b>>
Approx(f, a) == <<"approx", a, f>>
Half == <<1, 2>>

-----------------------------------------------------------------------------
(* The formulas                                                            *)

Sqrt(a) == Div(C(One), <<"inverseSqrt", a>>)
Tan == Div(<<"sin", X1>>, <<"cos", X1>>)
Sinh == Mul(Sub(<<"exp", X1>>, <<"exp", <<"neg", X1>>>>), C(Half))
Cosh == Mul(Add(<<"exp", X1>>, <<"exp", <<"neg", X1>>>>), C(Half))
Tanh == Either(Div(Sinh, Cosh), Approx("tanh", X1))
OneMinusSquare == Sub(C(One), Mul(X1, X1))
Asin == Either(<<"atan2", X1, Sqrt(OneMinusSquare)>>, Approx("asin", X1))
Acos == Either(<<"atan2", Sqrt(OneMinusSquare), X1>>, Approx("acos", X1))
Asinh == <<"log", Add(X1, Sqrt(Add(Mul(X1, X1), C(One))))>>
Atanh == Mul(<<"log", Div(Add(C(One), X1), Sub(C(One), X1))>>, C(Half))
AcoshAlternative == <<"log", Add(X1, Sqrt(Mul(Add(X1, C(One)), Sub(X1, C(One)))))>>
AcoshPrimary == <<"log", Add(X1, Sqrt(Sub(Mul(X1, X1), C(One))))>>
PowFormula == <<"exp2", Mul(Y1, <<"log2", X1>>)>>
Remainder == Sub(X1, Mul(Y1, <<"trunc", Div(X1, Y1)>>))
Degrees(perRadian) == Mul(X1, C(perRadian))
Clamp(a, lo, hi) == <<"min", <<"max", a, lo>>, hi>>
Saturate == Clamp(X1, C(Zero), C(One))
Fma == Add(Mul(X1, Y1), Z1)
MixImprecise == Add(X1, Mul(Sub(Y1, X1), Z1))
MixPrecise == Add(Mul(X1, Sub(C(One), Z1)), Mul(Y1, Z1))
\* smoothstep(low, high, x)
SmoothStep ==
    LET t == <<"median", Div(Sub(Z1, X1), Sub(Y1, X1)), C(Zero), C(One)>>
    IN Mul(t, Mul(t, Sub(C(Num(3)), Mul(C(Num(2)), t))))

\* The sum of two terms is a plain addition, of more the sum in any order.
SumOf(T) == IF Len(T) = 2 THEN Add(T[1], T[2]) ELSE <<"sum">> \o T
Dot(a, b, n) == SumOf([i \in 1 .. n |-> Mul(V(a, i), V(b, i))])
Length(n) == IF n = 1 THEN Sqrt(Mul(X1, X1)) ELSE Sqrt(Dot("x", "x", n))
Distance(n) ==
    LET d(i) == Sub(V("x", i), V("y", i))
    IN Sqrt(IF n = 1 THEN Mul(d(1), d(1)) ELSE SumOf([i \in 1 .. n |-> Mul(d(i), d(i))]))
Cross ==
    LET r(i, j) == Sub(Mul(V("x", i), V("y", j)), Mul(V("x", j), V("y", i)))
    IN <<r(2, 3), r(3, 1), r(1, 2)>>
Reflect(n) ==
    [i \in 1 .. n |-> Sub(V("x", i), Mul(V("y", i), Mul(C(Num(2)), Dot("x", "y", n))))]
Normalize(n) == [i \in 1 .. n |-> Div(V("x", i), Length(n))]

\* refract(x, y, z): the discriminant and the result where it is positive.
RefractK(n) ==
    LET d == Dot("y", "x", n)
    IN Sub(C(One), Mul(Mul(Z1, Z1), Sub(C(One), Mul(d, d))))
Refract(n) ==
    [i \in 1 .. n |-> <<"refracted", RefractK(n),
                         Sub(Mul(V("x", i), Z1),
                             Mul(V("y", i), Add(Mul(Dot("y", "x", n), Z1), Sqrt(RefractK(n)))))>>]

\* A matrix argument x has the component M("x", column, row).  rows: the rows of the minor
\* that begins at column c.
RECURSIVE Minor(_, _)
Minor(c, rows) ==
    LET Without(i) == SubSeq(rows, 1, i - 1) \o SubSeq(rows, i + 1, Len(rows))
        Factor(i) == IF i % 2 = 1 THEN M("x", c, rows[i]) ELSE MinusM("x", c, rows[i])
    IN IF Len(rows) = 2
       THEN Sub(Mul(M("x", c, rows[1]), M("x", c + 1, rows[2])),
                Mul(M("x", c, rows[2]), M("x", c + 1, rows[1])))
       ELSE <<"sum">> \o [i \in 1 .. Len(rows) |-> Mul(Factor(i), Minor(c + 1, Without(i)))]
Determinant(n) == Minor(1, [i \in 1 .. n |-> i])

\* Products of matrices and vectors are dot products of rows and columns.
MatrixMatrix(inner, c, r) == SumOf([i \in 1 .. inner |-> Mul(M("x", i, r), M("y", c, i))])
MatrixVector(cols, r) == SumOf([i \in 1 .. cols |-> Mul(M("x", i, r), V("y", i))])
VectorMatrix(rows, c) == SumOf([i \in 1 .. rows |-> Mul(V("x", i), M("y", c, i))])

-----------------------------------------------------------------------------
(* The interval of a formula, for point arguments env                      *)

\* refract: nothing is known where the discriminant may be flushed, zero where it is negative.
refracted(k, kk, R) ==
    IF ~IsFinite(k, kk) \/ containsZeroOrSubnormal(k, kk) THEN Unbounded
    ELSE IF Lt(kk[2], Zero) THEN Point(Zero) ELSE R

RECURSIVE Interval(_, _, _)
Interval(k, e, env) ==
    LET A(i) == Interval(k, e[i + 1], env)
        op == e[1]
    IN CASE op = "var" -> Point(env[e[2]])
         [] op = "minusvar" -> Point(Neg(env[e[2]]))
         [] op = "const" -> Point(e[2])
         [] op = "either" -> Span({A(1), A(2)})
         [] op = "approx" -> absoluteErrorInterval(k, Std(e[3], A(1)[1]), Accuracy[e[3]][Trans(k)])
         [] op = "ldexp" -> ldexp(k, A(1), e[3])
         [] op = "refracted" -> refracted(k, A(1), A(2))
         [] OTHER -> operation(k, op, <<>> \o [i \in 1 .. Len(e) - 1 |-> A(i)])

\* The arguments as the device may see them: each rounded and, if subnormal, perhaps flushed.
Seen(k, env) == {s \in [DOMAIN env -> UNION {Inputs(k, env[v]) : v \in DOMAIN env}] :
                    \A v \in DOMAIN env : s[v] \in Inputs(k, env[v])}

\* asin and acos are defined on [-1, 1].
OutOfDomain(f, s) == f \in {Asin, Acos} /\ ~Within({s[v] : v \in DOMAIN s}, Neg(One), One)
\* The interval of formula f, for arguments that are rounded first ("scalars") or not.
Accepted(k, f, env, rounded) ==
    IF \E v \in DOMAIN env : ~isFinite(k, env[v]) THEN Unbounded
    ELSE Bounded(k, Span({IF OutOfDomain(f, s) THEN Unbounded ELSE Interval(k, f, s) :
                             s \in IF rounded THEN Seen(k, env) ELSE {env}}))

\* Builtins with several components: one without bounds makes them all so.
AllOrNone(k, R) ==
    IF \A i \in DOMAIN R : \A X \in R[i] : IsFinite(k, X) THEN R ELSE [i \in DOMAIN R |-> {Unbounded}]

\* faceForward(x, y, z): both results where the sign of the dot product is not known.
LOCAL Negated(k, x) == Bounded(k, Span({negation(k, m) : m \in Inputs(k, x)}))
FaceForward(k, n, env, d) ==
    [i \in 1 .. n |-> LET x == env[<<"x", 1, i>>]
                      IN (IF Lt(d[1], Zero) \/ Lt(d[2], Zero) THEN {correctlyRoundedInterval(k, x)} ELSE {})
                         \cup (IF Leq(Zero, d[1]) \/ Leq(Zero, d[2]) THEN {Negated(k, x)} ELSE {})]

Transpose(k, m) == [r \in DOMAIN m[1] |-> [c \in DOMAIN m |-> correctlyRoundedInterval(k, m[c][r])]]
=============================================================================
