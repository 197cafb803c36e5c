------------------------------ MODULE FPDevice ------------------------------
(***************************************************************************)
(* What a device that conforms to WGSL may return for the formulas of       *)
(* FPBuiltins: every step is exact, or rounds either way, or errs as far as *)
(* its accuracy allows; subnormal operands and results may become zero; an  *)
(* overflow or an argument outside the domain of a step makes every result  *)
(* possible, written NaN here.  These definitions do not use the rounding   *)
(* of FPFormat: they are the reference the intervals are compared with.     *)
(***************************************************************************)
EXTENDS FPBuiltins

DeviceKinds == {"F32", "F16"}
Grid == [k \in DeviceKinds |-> Values(k)]

Below(k, r) == {v \in Grid[k] : Leq(v, r)}
Above(k, r) == {v \in Grid[k] : Leq(r, v)}

\* The neighbours of an exact result.
LOCAL Nearest2(below, above) == IF below = {} \/ above = {} THEN {NaN} ELSE {Greatest(below), Least(above)}
Rounded(k, r) == Nearest2(Below(k, r), Above(k, r))

Cells == [k \in DeviceKinds |->
            {<<v, Least({w \in Grid[k] : Lt(v, w)})>> : v \in {u \in Grid[k] : Leq(Zero, u) /\ u # MaxOf(k)}}]
\* ULP(x): the least distance of two neighbouring values with x between them.
ULP(k, x) ==
    IF Lt(MaxOf(k), Abs(x)) THEN MaxULP(k)
    ELSE Least({Plus(c[2], Neg(c[1])) : c \in {d \in Cells[k] : Leq(d[1], Abs(x)) /\ Leq(Abs(x), d[2])}})

\* Values at most err from r; beyond the largest value anything goes.
Overflow(k, r, err) == IF Lt(MaxOf(k), Plus(Abs(r), err)) THEN {NaN} ELSE {}
Near(k, r, err) == {v \in Grid[k] : Leq(Abs(Plus(v, Neg(r))), err)} \cup Overflow(k, r, err)
\* What WGSL allows of a step with an error of n ULP: the ULP is that of the exact result.
Allowed(k, r, n) == Near(k, r, Times(n, ULP(k, r)))
\* Of these the tests reject some: where a power of two lies between the result and the exact one,
\* they measure in the ULP on the result's side of it, which is half of WGSL's.
Disputed(k, r, n) ==
    {v \in Allowed(k, r, n) \ {NaN} : Lt(Times(n, ULP(k, Least({Abs(v), Abs(r)}))), Abs(Plus(v, Neg(r))))}
NearULP(k, r, n) == Allowed(k, r, n) \ Disputed(k, r, n)

Flushed(k, S) == IF \E v \in S : isSubnormal(k, v) THEN S \cup {Zero} ELSE S

\* Of two values that may both be zero, min and max may return either.
Tiny(k, x) == x = Zero \/ isSubnormal(k, x)

\* One step on finite operands.
Unary(k, op, a) ==
    CASE op = "neg" -> {Neg(a)}
      [] op \in {"abs", "floor", "ceil", "trunc", "sign", "round"} -> Rounded(k, ExactOf(op, a))
      [] op = "quantizeToF16" -> Flushed("F16", Rounded("F16", a))
      [] op = "fract" -> Rounded(k, Plus(a, Neg(Floor(a))))
      [] op = "inverseSqrt" ->
             IF Leq(a, Zero) THEN {NaN} ELSE NearULP(k, Quotient(One, Std("sqrt", a)), Num(2))
      [] op \in {"exp", "exp2"} -> NearULP(k, Std(op, a), Plus(Num(3), Times(Num(2), Abs(a))))
      [] op \in {"log", "log2"} ->
             IF Leq(a, Zero) THEN {NaN}
             ELSE IF Leq(Half, a) /\ Leq(a, Num(2)) THEN Near(k, Std(op, a), Accuracy.log[k])
             ELSE NearULP(k, Std(op, a), Num(3))
      [] op \in {"sin", "cos"} ->
             IF Lt(Pi[k], Abs(a)) THEN {NaN} ELSE Near(k, Std(op, a), Accuracy.circular[k])
      [] op = "atan" -> NearULP(k, Std(op, a), Accuracy.atan[k])
Binary(k, op, a, b) ==
    CASE op = "add" -> Rounded(k, Plus(a, b))
      [] op = "sub" -> Rounded(k, Plus(a, Neg(b)))
      [] op = "mul" -> Rounded(k, Times(a, b))
      [] op = "div" -> IF InDivisorDomain(k, b) THEN NearULP(k, Quotient(a, b), <<5, 2>>) ELSE {NaN}
      [] op = "atan2" -> IF InDivisorDomain(k, b) /\ Leq(MinNormal(k), Abs(a))
                         THEN NearULP(k, atan2Of(a, b), Accuracy.atan[k]) ELSE {NaN}
      [] op = "min" -> IF Tiny(k, a) /\ Tiny(k, b) THEN {a, b} ELSE {Least({a, b})}
      [] op = "max" -> IF Tiny(k, a) /\ Tiny(k, b) THEN {a, b} ELSE {Greatest({a, b})}
      [] op = "step" -> {IF Leq(a, b) THEN One ELSE Zero}

UnaryOps == {"neg", "abs", "floor", "ceil", "trunc", "sign", "round", "fract",
             "quantizeToF16", "inverseSqrt", "exp", "exp2", "log", "log2", "sin", "cos", "atan"}
BinaryOps == {"add", "sub", "mul", "div", "atan2", "min", "max", "step"}

\* Tables of the steps; the results may be flushed.
Step1 == [k \in DeviceKinds |-> [op \in UnaryOps |-> [a \in Grid[k] |-> Flushed(k, Unary(k, op, a))]]]
Step2 == [k \in DeviceKinds |-> [op \in BinaryOps |->
             [a \in Grid[k] |-> [b \in Grid[k] |-> Flushed(k, Binary(k, op, a, b))]]]]

\* A step on sets of operands: what a device may have at hand.
Lift1(k, op, S) == UNION {Step1[k][op][a] : a \in Flushed(k, S \ {NaN})} \cup (S \cap {NaN})
Lift2(k, op, S, T) ==
    UNION {Step2[k][op][a][b] : a \in Flushed(k, S \ {NaN}), b \in Flushed(k, T \ {NaN})}
        \cup ((S \cup T) \cap {NaN})

\* The shift by a power of two, of values that may be flushed before and after it.
Shifted(k, S, e) ==
    UNION {Flushed(k, Rounded(k, Times(m, Pow2(e)))) : m \in Flushed(k, S)}
        \cup (IF e > Format[k].emax + 1 THEN {NaN} ELSE {})
        \cup (IF e + Format[k].emax <= 0 THEN {Zero} ELSE {})

RECURSIVE Results(_, _, _)
Results(k, e, env) ==
    LET A(i) == Results(k, e[i + 1], env)
        op == e[1]
        n == Len(e) - 1
        SumIn(p) == LET acc[i \in 1 .. n] == IF i = 1 THEN A(p[1]) ELSE Lift2(k, "add", acc[i - 1], A(p[i]))
                    IN acc[n]
    IN CASE op = "var" -> {env[e[2]]}
         [] op = "minusvar" -> {Neg(env[e[2]])}
         [] op = "const" -> Rounded(k, e[2])
         [] op \in UnaryOps -> Lift1(k, op, A(1))
         [] op \in BinaryOps -> Lift2(k, op, A(1), A(2))
         [] op = "median" ->
                {Median(a, b, c) : a \in Flushed(k, A(1) \ {NaN}), b \in A(2), c \in A(3)} \cup (A(1) \cap {NaN})
         [] op = "sum" -> UNION {SumIn(p) : p \in Orders(n)}
         [] op = "either" -> A(1) \cup A(2)
         [] op = "ldexp" -> Shifted(k, A(1), e[3])
         [] op = "refracted" ->
                (IF \E v \in A(1) : Lt(v, Zero) THEN {Zero} ELSE {}) \cup (A(1) \cap {NaN})
                    \cup (IF \E v \in A(1) : Leq(Zero, v) THEN A(2) ELSE {})
         [] op = "approx" -> UNION {Near(k, Std(e[3], a), Accuracy[e[3]][k]) : a \in Flushed(k, A(1))}

\* The results of builtin f for the arguments env.
DeviceResults(k, f, env) ==
    IF f \in {Asin, Acos} /\ (\E s \in Seen(k, env) : OutOfDomain(f, s)) THEN {NaN} ELSE Results(k, f, env)
=============================================================================
