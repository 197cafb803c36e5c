------------------------------ MODULE FPCases -------------------------------
(***************************************************************************)
(* The case generators of floating_point.cpp: inputs are quantized, the     *)
(* interval of the builtin is computed, and a stage that evaluates at       *)
(* shader creation ("finite") keeps only cases that cannot overflow there.  *)
(* A case accepts, per component of the result, a set of intervals.         *)
(* A behaviour runs one job: a generator decides what to compute for one    *)
(* choice of arguments, the intervals are computed and make the case, and a *)
(* device answers it; or a generator makes an input range.                  *)
(***************************************************************************)
EXTENDS FPDevice, FPRanges

CONSTANT Jobs   \* [gen, k, ...]: calls of generators, with one value per argument

NewCase(env, R) == [inputs |-> env, accept |-> R]

quantizeAll(k, env) == [v \in DOMAIN env |-> quantize(k, env[v])]

\* anyOf: with an unbounded interval among them, everything is accepted.
anyOf(S) == IF Unbounded \in S THEN {Unbounded} ELSE S
Width(env, a) == Cardinality({v \in DOMAIN env : v[1] = a})
\* Restrict the arguments to one component each: component i of the vectors among them.
Component(env, i, vectors) ==
    [v \in {<<u[1], 1, 1>> : u \in DOMAIN env} |-> env[IF v[1] \in vectors THEN <<v[1], 1, i>> ELSE v]]

\* What a generator has computed: per component of the result, alternatives of a formula and its
\* arguments.  "rounded": the arguments are rounded first; "all": no component has bounds unless all
\* have; "accept": what becomes of the intervals.
Computed(q, parts) == [inputs |-> q, parts |-> parts, rounded |-> FALSE, all |-> FALSE, accept |-> "any"]
\* F: per component, a sequence of alternatives.
OfAll(q, F) == Computed(q, [i \in DOMAIN F |-> [a \in DOMAIN F[i] |-> <<F[i][a], q>>]])
Scalars(q, F) == [OfAll(q, <<F>>) EXCEPT !.rounded = TRUE]
ComponentWise(q, n, F, vectors) ==
    [Computed(q, [i \in 1 .. n |-> [a \in DOMAIN F |-> <<F[a], Component(q, i, vectors)>>]]) EXCEPT !.rounded = TRUE]
Each(F) == [i \in DOMAIN F |-> <<F[i]>>]
Vector(q, F) == [OfAll(q, Each(F)) EXCEPT !.all = TRUE]

-----------------------------------------------------------------------------
(* Builtins of scalars, F a sequence of alternative formulas                    *)

generateScalarToIntervalCases(k, f, env) == {Scalars(quantizeAll(k, env), <<f>>)}
generateScalarToIntervalCasesAnyOf(k, F, env) == {Scalars(quantizeAll(k, env), F)}
generateScalarPairToIntervalCases(k, f, env) == {Scalars(quantizeAll(k, env), <<f>>)}
\* step is zero or one, never between.
generateScalarPairToIntervalCasesAnyOf(k, f, env) ==
    {[Scalars(quantizeAll(k, env), <<f>>) EXCEPT !.accept = "step"]}
generateScalarTripleToIntervalCases(k, F, env) == {Scalars(quantizeAll(k, env), F)}

\* A vector x and a scalar y, in either order.
generateVectorScalarToVectorCases(k, f, env) ==
    {ComponentWise(quantizeAll(k, env), Width(env, "x"), <<f>>, {"x"})}
generateScalarVectorToVectorCases(k, f, env) ==
    {ComponentWise(quantizeAll(k, env), Width(env, "y"), <<f>>, {"y"})}
\* mix(vector, vector, scalar): per component any of the alternatives.
generateVectorPairScalarToVectorComponentWiseCase(k, F, env) ==
    {ComponentWise(quantizeAll(k, env), Width(env, "x"), F, {"x", "y"})}

\* ldexp(x, e): constant evaluation also drops what overflows in double; a small exponent may
\* flush the result.
generateLdexpCases(k, constStage, env, e) ==
    LET x == quantize(k, env[<<"x", 1, 1>>])
    IN IF constStage /\ ~isFinite(k, x (.) Pow2(e)) THEN {}
       ELSE {[OfAll(quantizeAll(k, env), <<<<<<"ldexp", X1, e>>>>>>) EXCEPT
                 !.accept = IF e + Format[k].emax <= 0 THEN "flushed" ELSE "any"]}

-----------------------------------------------------------------------------
(* Builtins of vectors and matrices                                        *)

generateLengthScalarCases(k, env) == {Vector(quantizeAll(k, env), <<Length(1)>>)}
generateLengthVectorCases(k, env) == {Vector(quantizeAll(k, env), <<Length(Width(env, "x"))>>)}
generateDistanceScalarCases(k, env) == {Vector(quantizeAll(k, env), <<Distance(1)>>)}
generateDistanceVectorCases(k, env) == {Vector(quantizeAll(k, env), <<Distance(Width(env, "x"))>>)}
generateDotCases(k, env) == {Vector(quantizeAll(k, env), <<Dot("x", "y", Width(env, "x"))>>)}
generateDeterminantCases(k, n, env) == {Vector(quantizeAll(k, env), <<Determinant(n)>>)}
generateNormalizeCases(k, env) == {Vector(quantizeAll(k, env), Normalize(Width(env, "x")))}
generateCrossCases(k, env) == {Vector(quantizeAll(k, env), Cross)}
generateReflectCases(k, env) == {Vector(quantizeAll(k, env), Reflect(Width(env, "x")))}
generateRefractCases(k, env) == {Vector(quantizeAll(k, env), Refract(Width(env, "x")))}
\* A dot product without bounds drops the case from constant evaluation.
generateFaceForwardCases(k, env) ==
    {[Vector(quantizeAll(k, env), <<Dot("z", "y", Width(env, "x"))>>) EXCEPT !.accept = "facing"]}

\* F: the formula of every entry.  A product without bounds somewhere has them nowhere.
Entry(a, i, rows) == M(a, ((i - 1) \div rows) + 1, ((i - 1) % rows) + 1)
MatrixSum(op, cols, rows) ==
    [i \in 1 .. cols * rows |-> <<op, Entry("x", i, rows), Entry("y", i, rows)>>]
MatrixScale(m, s, cols, rows) == [i \in 1 .. cols * rows |-> Mul(Entry(m, i, rows), V(s, 1))]
MatrixProduct(inner, cols, rows) ==
    [i \in 1 .. cols * rows |-> MatrixMatrix(inner, ((i - 1) \div rows) + 1, ((i - 1) % rows) + 1)]
generateMatrixPairToMatrixCases(k, F, product, env) ==
    {[OfAll(quantizeAll(k, env), Each(F)) EXCEPT !.all = product]}
generateMatrixScalarToMatrixCases(k, cols, rows, env) ==
    {OfAll(quantizeAll(k, env), Each(MatrixScale("x", "y", cols, rows)))}
generateScalarMatrixToMatrixCases(k, cols, rows, env) ==
    {OfAll(quantizeAll(k, env), Each(MatrixScale("y", "x", cols, rows)))}
generateMatrixVectorToVectorCases(k, cols, rows, env) ==
    {OfAll(quantizeAll(k, env), [r \in 1 .. rows |-> <<MatrixVector(cols, r)>>])}
generateVectorMatrixToVectorCases(k, cols, rows, env) ==
    {OfAll(quantizeAll(k, env), [c \in 1 .. cols |-> <<VectorMatrix(rows, c)>>])}

-----------------------------------------------------------------------------
(* The case of what was computed                                           *)

Finite(k, R) == \A i \in DOMAIN R : \A X \in R[i] : IsFinite(k, X)
ZeroOrOne(k, X) == IF X[1] = X[2] \/ ~IsFinite(k, X) THEN {X} ELSE {Point(Zero), Point(One)}
pushVectorAnyOf(k, c, R) ==
    CASE c.accept = "any" -> R
      [] c.accept = "step" -> [i \in DOMAIN R |-> UNION {ZeroOrOne(k, X) : X \in R[i]}]
      [] c.accept = "flushed" -> [i \in DOMAIN R |-> R[i] \cup {Point(Zero)}]
      [] c.accept = "facing" -> FaceForward(k, Width(c.inputs, "x"), c.inputs, CHOOSE d \in R[1] : TRUE)
AcceptAny(k, c, R) == LET A == pushVectorAnyOf(k, c, R) IN NewCase(c.inputs, [i \in DOMAIN A |-> anyOf(A[i])])
\* Mutant: shader creation is given every case.
EmitsOverflows(k, finite, c, R) == {AcceptAny(k, c, R)}
Emit(k, finite, c, R) == IF finite /\ ~Finite(k, R) THEN {} ELSE {AcceptAny(k, c, R)}
Intervals(k, c) ==
    <<>> \o [i \in DOMAIN c.parts |->
        {Accepted(k, c.parts[i][a][1], c.parts[i][a][2], c.rounded) : a \in DOMAIN c.parts[i]}]

generateTransposeCases(k, finite, cols, rows, env) ==
    LET t == Transpose(k, [c \in 1 .. cols |-> [r \in 1 .. rows |-> quantize(k, env[<<"x", c, r>>])]])
    IN Emit(k, finite, Computed(quantizeAll(k, env), <<>>),
            [i \in 1 .. cols * rows |-> {t[((i - 1) \div cols) + 1][((i - 1) % cols) + 1]}])

\* f32(m) and f16(m): every entry of a matrix is converted.
generateMatrixToMatrixCases(from, k, finite, cols, rows, env) ==
    LET q == quantizeAll(from, env)
    IN Emit(k, finite, Computed(q, <<>>),
            [i \in 1 .. cols * rows |-> {correctlyRoundedInterval(k, q[Entry("x", i, rows)[2]])}])

-----------------------------------------------------------------------------
(* Comparisons, modf and frexp                                             *)

\* A comparison accepts what either reading of its operands, flushed or not, gives.
Truth(op, l, r) ==
    CASE op = "==" -> l = r [] op = "!=" -> l # r [] op = "<" -> Lt(l, r)
      [] op = "<=" -> Leq(l, r) [] op = ">" -> Lt(r, l) [] op = ">=" -> Leq(r, l)
generateComparisonCases(k, op, l, r) ==
    {NewCase(<<l, r>>, {Truth(op, a, b) : a \in {l, flushSubnormal(k, l)}, b \in {r, flushSubnormal(k, r)}})}

fmod1(x) == x (-) Trunc(x)
modfPart(k, x, whole) == correctlyRoundedInterval(k, IF whole THEN x (-) fmod1(x) ELSE fmod1(x))
generateModfScalarCases(k, whole, env) ==
    LET q == quantizeAll(k, env) IN {NewCase(q, <<{modfPart(k, q[<<"x", 1, 1>>], whole)}>>)}
generateModfVectorCases(k, whole, env) ==
    LET q == quantizeAll(k, env)
    IN {NewCase(q, [i \in 1 .. Width(q, "x") |-> {modfPart(k, q[<<"x", 1, i>>], whole)}])}

\* frexp: x = fract * 2^exp with fract in [0.5, 1).  Of f16 inputs, those subnormal as doubles
\* are skipped.
isSubnormalKind(k, x) == isSubnormal(IF k = "F32" THEN "F32" ELSE "Abstract", x)
frexpExp(x) == IF x = Zero \/ ~Isfinite(x) THEN 0 ELSE Exponent(x) + 1
frexpFract(x) == Times(x, Pow2(-frexpExp(x)))
skipped(k, q) == \E v \in DOMAIN q : isSubnormalKind(k, q[v])
generateFrexpScalarFractCases(k, env) ==
    LET q == quantizeAll(k, env)
    IN IF skipped(k, q) THEN {}
       ELSE {NewCase(q, <<{correctlyRoundedInterval(k, frexpFract(q[<<"x", 1, 1>>]))}>>)}
generateFrexpScalarExpCases(k, env) ==
    LET q == quantizeAll(k, env)
    IN IF skipped(k, q) THEN {} ELSE {NewCase(q, <<{Point(Num(frexpExp(q[<<"x", 1, 1>>])))}>>)}
generateFrexpVectorFractCases(k, env) ==
    LET q == quantizeAll(k, env)
    IN IF skipped(k, q) THEN {}
       ELSE {NewCase(q, [i \in 1 .. Width(q, "x") |->
                            {correctlyRoundedInterval(k, frexpFract(q[<<"x", 1, i>>]))}])}
generateFrexpVectorExpCases(k, env) ==
    LET q == quantizeAll(k, env)
    IN IF skipped(k, q) THEN {}
       ELSE {NewCase(q, [i \in 1 .. Width(q, "x") |-> {Point(Num(frexpExp(q[<<"x", 1, i>>])))}])}
-----------------------------------------------------------------------------
(* What a conforming device returns for a case, per component              *)

AtOnce == {"transpose", "convert", "modf", "frexpFract", "frexpExp"}
Generators == {"scalar", "anyOf", "pair", "step", "triple", "vecScalar", "scalarVec", "mix", "ldexp",
               "length", "distance", "dot", "normalize", "cross", "reflect", "refract", "faceForward",
               "determinant", "matSum", "matProduct", "matScalar", "scalarMat", "matVec", "vecMat"} \cup AtOnce

\* The format of the arguments: a conversion has one of its own.
SourceKind(j) == IF j.gen = "convert" THEN j.from ELSE j.k
\* The argument that component i of the result is made of.
ComponentsOf(j, q) ==
    [i \in 1 .. Cardinality(DOMAIN q) |->
        CASE j.gen = "transpose" -> <<"x", ((i - 1) % j.cols) + 1, ((i - 1) \div j.cols) + 1>>
          [] j.gen = "convert" -> Entry("x", i, j.rows)[2]
          [] OTHER -> <<"x", 1, i>>]
DeviceFormulas(j, n) ==
    CASE j.gen \in {"scalar", "anyOf", "pair", "step", "triple"} -> <<j.f>>
      [] j.gen = "ldexp" -> <<<<<<"ldexp", X1, j.exp>>>>>>
      [] j.gen = "length" -> <<<<Length(n)>>>>
      [] j.gen = "distance" -> <<<<Distance(n)>>>>
      [] j.gen = "dot" -> <<<<Dot("x", "y", n)>>>>
      [] j.gen = "normalize" -> Each(Normalize(n))
      [] j.gen = "cross" -> Each(Cross)
      [] j.gen = "reflect" -> Each(Reflect(n))
      [] j.gen = "refract" -> Each(Refract(n))
      [] j.gen = "faceForward" -> <<<<Dot("z", "y", n)>>>>
      [] j.gen = "determinant" -> <<<<Determinant(j.cols)>>>>
      [] j.gen = "matSum" -> Each(MatrixSum("add", j.cols, j.rows))
      [] j.gen = "matProduct" -> Each(MatrixProduct(j.inner, j.cols, j.rows))
      [] j.gen = "matScalar" -> Each(MatrixScale("x", "y", j.cols, j.rows))
      [] j.gen = "scalarMat" -> Each(MatrixScale("y", "x", j.cols, j.rows))
      [] j.gen = "matVec" -> [r \in 1 .. j.rows |-> <<MatrixVector(j.cols, r)>>]
      [] j.gen = "vecMat" -> [c \in 1 .. j.cols |-> <<VectorMatrix(j.rows, c)>>]
DeviceParts(j, q) ==
    CASE j.gen = "vecScalar" -> ComponentWise(q, Width(q, "x"), j.f, {"x"}).parts
      [] j.gen = "scalarVec" -> ComponentWise(q, Width(q, "y"), j.f, {"y"}).parts
      [] j.gen = "mix" -> ComponentWise(q, Width(q, "x"), j.f, {"x", "y"}).parts
      [] OTHER -> OfAll(q, DeviceFormulas(j, Width(q, "x"))).parts
\* The e with v = m * 2^e and m in [0.5, 1).
Split(v) ==
    IF v = Zero THEN 0
    ELSE CHOOSE e \in -8 .. 8 : LET m == Abs(Times(v, Pow2(-e))) IN Leq(Half, m) /\ Lt(m, One)
\* Builtins of one step: the argument may be flushed before it, the result after it.  A conversion
\* does not lose its argument, which need not be subnormal in the format of the result.
DeviceAtOnce(j, q) ==
    [i \in DOMAIN ComponentsOf(j, q) |->
        LET x0 == q[ComponentsOf(j, q)[i]]
            X == Flushed(j.k, {x0})
        IN CASE j.gen = "transpose" -> Flushed(j.k, X)
             [] j.gen = "convert" -> Flushed(j.k, Rounded(j.k, x0))
             [] j.gen = "modf" -> Flushed(j.k, {IF j.whole THEN Trunc(x) ELSE Plus(x, Neg(Trunc(x))) : x \in X})
             [] j.gen = "frexpFract" -> Flushed(j.k, {Times(x, Pow2(-Split(x))) : x \in X})
             [] j.gen = "frexpExp" -> {Num(Split(x)) : x \in X}]
Facing(k, q, d) ==
    [i \in 1 .. Width(q, "x") |->
        Flushed(k, {q[<<"x", 1, i>>] : v \in {w \in d : Lt(w, Zero) \/ w = NaN}}
                   \cup {Neg(q[<<"x", 1, i>>]) : v \in {w \in d : ~Lt(w, Zero)}})]
DeviceComputes(k, P) ==
    <<>> \o [i \in DOMAIN P |-> UNION {DeviceResults(k, P[i][a][1], P[i][a][2]) : a \in DOMAIN P[i]}]
Answer(j, q, D) == [values |-> IF j.gen = "faceForward" THEN Facing(j.k, q, D[1]) ELSE D,
                    overflows |-> \E i \in DOMAIN D : NaN \in D[i]]
DeviceAnswers(j, q) ==
    IF j.gen \in AtOnce
    THEN LET D == DeviceAtOnce(j, q)
         IN Answer(j, q, D)
    ELSE Answer(j, q, DeviceComputes(j.k, DeviceParts(j, q)))

-----------------------------------------------------------------------------
(* The behaviour                                                           *)

VARIABLES
    job,      \* the call
    computed, \* <<>>, then <<the set with what is computed for the case, or nothing>>
    result,   \* <<>>, then <<the set with the generated case or no case, or the range>>
    answer    \* <<>>, then <<what a device may return for the inputs>>

vars == <<job, computed, result, answer>>

Init == job \in Jobs /\ computed = <<>> /\ result = <<>> /\ answer = <<>>

\* A generator that needs intervals, and one that is done at once.
Call(generator, c) ==
    /\ computed = <<>>
    /\ job.gen = generator
    /\ computed' = <<c>>
    /\ UNCHANGED <<job, result, answer>>
Run(generator, generated) ==
    /\ result = <<>>
    /\ job.gen = generator
    /\ result' = <<generated>>
    /\ UNCHANGED <<job, computed, answer>>

MakeCase ==
    /\ computed # <<>> /\ result = <<>>
    /\ result' = <<UNION {LET R == Intervals(job.k, c)
                          IN Emit(job.k, job.finite, c, IF c.all THEN AllOrNone(job.k, R) ELSE R) : c \in computed[1]}>>
    /\ UNCHANGED <<job, computed, answer>>
Execute ==
    /\ result # <<>> /\ answer = <<>> /\ job.gen \in Generators
    /\ answer' = <<DeviceAnswers(job, quantizeAll(SourceKind(job), job.env))>>
    /\ UNCHANGED <<job, computed, result>>

Next ==
    LET j == job
        n == Width(j.env, "x")
    IN  \/ Call("scalar", generateScalarToIntervalCases(j.k, j.f[1], j.env))
        \/ Call("anyOf", generateScalarToIntervalCasesAnyOf(j.k, j.f, j.env))
        \/ Call("pair", generateScalarPairToIntervalCases(j.k, j.f[1], j.env))
        \/ Call("step", generateScalarPairToIntervalCasesAnyOf(j.k, j.f[1], j.env))
        \/ Call("triple", generateScalarTripleToIntervalCases(j.k, j.f, j.env))
        \/ Call("vecScalar", generateVectorScalarToVectorCases(j.k, j.f[1], j.env))
        \/ Call("scalarVec", generateScalarVectorToVectorCases(j.k, j.f[1], j.env))
        \/ Call("mix", generateVectorPairScalarToVectorComponentWiseCase(j.k, j.f, j.env))
        \/ Call("ldexp", generateLdexpCases(j.k, j.finite, j.env, j.exp))
        \/ Call("length", IF n = 1 THEN generateLengthScalarCases(j.k, j.env) ELSE generateLengthVectorCases(j.k, j.env))
        \/ Call("distance", IF n = 1 THEN generateDistanceScalarCases(j.k, j.env)
                            ELSE generateDistanceVectorCases(j.k, j.env))
        \/ Call("dot", generateDotCases(j.k, j.env))
        \/ Call("normalize", generateNormalizeCases(j.k, j.env))
        \/ Call("cross", generateCrossCases(j.k, j.env))
        \/ Call("reflect", generateReflectCases(j.k, j.env))
        \/ Call("refract", generateRefractCases(j.k, j.env))
        \/ Call("faceForward", generateFaceForwardCases(j.k, j.env))
        \/ Call("determinant", generateDeterminantCases(j.k, j.cols, j.env))
        \/ Call("matSum", generateMatrixPairToMatrixCases(j.k, MatrixSum("add", j.cols, j.rows), FALSE, j.env))
        \/ Call("matProduct", generateMatrixPairToMatrixCases(j.k, MatrixProduct(j.inner, j.cols, j.rows), TRUE, j.env))
        \/ Call("matScalar", generateMatrixScalarToMatrixCases(j.k, j.cols, j.rows, j.env))
        \/ Call("scalarMat", generateScalarMatrixToMatrixCases(j.k, j.cols, j.rows, j.env))
        \/ Call("matVec", generateMatrixVectorToVectorCases(j.k, j.cols, j.rows, j.env))
        \/ Call("vecMat", generateVectorMatrixToVectorCases(j.k, j.cols, j.rows, j.env))
        \/ MakeCase
        \/ Run("transpose", generateTransposeCases(j.k, j.finite, j.cols, j.rows, j.env))
        \/ Run("convert", generateMatrixToMatrixCases(j.from, j.k, j.finite, j.cols, j.rows, j.env))
        \/ Run("compare", generateComparisonCases(j.k, j.op, j.env[<<"x", 1, 1>>], j.env[<<"y", 1, 1>>]))
        \/ Run("modf", IF n = 1 THEN generateModfScalarCases(j.k, j.whole, j.env)
                       ELSE generateModfVectorCases(j.k, j.whole, j.env))
        \/ Run("frexpFract", IF n = 1 THEN generateFrexpScalarFractCases(j.k, j.env)
                             ELSE generateFrexpVectorFractCases(j.k, j.env))
        \/ Run("frexpExp", IF n = 1 THEN generateFrexpScalarExpCases(j.k, j.env)
                           ELSE generateFrexpVectorExpCases(j.k, j.env))
        \/ Run("linear", linearRange(j.from, j.to, j.n))
        \/ Run("linearU32", linearRangeU32(j.from, j.to, j.n))
        \/ Run("biased", biasedRange(j.from, j.to, j.n))
        \/ Run("i64", fullI64Range(j.n))
        \/ Run("f32", scalarF32RangeCounts(j.n, j.n, j.n, j.n, j.special))
        \/ Run("f16", scalarF16RangeCounts(j.n, j.n, j.n, j.n))
        \/ Run("f64", scalarF64RangeCounts(j.n, j.n, j.n, j.n))
        \/ Execute

Spec == Init /\ [][Next]_vars

\* Calls whose results are exact or correctly rounded.
SharpFormulas ==
    {<<op, X1>> : op \in {"neg", "abs", "floor", "ceil", "trunc", "sign", "round", "fract"}}
    \cup {<<op, X1, Y1>> : op \in {"add", "sub", "mul", "min", "max", "step"}}
Sharp(j) ==
    \/ j.gen \in {"scalar", "pair", "step", "vecScalar", "scalarVec"} /\ j.f[1] \in SharpFormulas
    \/ j.gen \in {"transpose", "convert", "matSum", "matScalar", "scalarMat", "modf"}

-----------------------------------------------------------------------------
(* Properties                                                              *)

\* Whatever a device may compute for the inputs of a case, with any of the roundings and flushes
\* that WGSL allows at every step of the builtin, and of the errors in ULP those that are not
\* Disputed, lies in an interval of the case: such a device fails no test of the generators.
ConformingDevicesPass ==
    answer # <<>> =>
        \A c \in result[1] : \A i \in DOMAIN c.accept : \A v \in answer[1].values[i] :
            \E X \in c.accept[i] : Contains(X, v)

\* For the exact and correctly rounded builtins no interval is wider than it must be: both its
\* ends are results of a conforming device, and it has no ends only where a device may overflow.
EndpointsAreEarned ==
    answer # <<>> /\ Sharp(job) =>
        \A c \in result[1] : \A i \in DOMAIN c.accept :
            LET D == answer[1].values[i]
            IN Span(c.accept[i]) = IF NaN \in D THEN Unbounded ELSE <<Least(D), Greatest(D)>>

\* A stage that evaluates at shader creation gets no case that may overflow there; of the builtins
\* that are exact or correctly rounded it loses none that cannot, and the other stages lose no case
\* at all but those of faceForward.  modf and frexp do not know of stages.
OnlyOverflowsAreDropped ==
    answer # <<>> /\ job.gen \notin {"modf", "frexpFract", "frexpExp"} =>
           /\ ~job.finite /\ job.gen # "faceForward" => result[1] # {}
           /\ job.finite /\ answer[1].overflows => result[1] = {}
           /\ Sharp(job) /\ ~answer[1].overflows => result[1] # {}

\* frexp.spec.cpp:8: "Non-zero subnormal inputs are skipped (impl-defined)".  A device may read
\* them as zero, and then fails a test that has one.
SubnormalsAreSkipped ==
    result # <<>> /\ job.gen \in {"frexpFract", "frexpExp"} =>
        \A c \in result[1] : \A v \in DOMAIN c.inputs : ~isSubnormal(job.k, c.inputs[v])

\* An input range runs from its first to its last value without turning back, through
\* interpolation in double, in 64-bit integers and over bit patterns of every format.
RangesAreOrdered ==
    LET range == result[1]
        Ordered(s, leq(_, _)) == \A i \in 1 .. Len(s) - 1 : leq(s[i], s[i + 1])
        Runs(from, to) == range[1] = from /\ (job.n > 1 => range[Len(range)] = to)
    IN /\ result # <<>> /\ job.gen \in {"linear", "biased", "linearU32"} =>
              /\ IF job.gen = "linearU32" THEN Runs(Num(job.from), Num(job.to)) ELSE Runs(job.from, job.to)
              /\ \/ Ordered(range, Leq)
                 \/ Ordered(range, LAMBDA a, b : Leq(b, a))
       /\ result # <<>> /\ job.gen = "i64" =>
              /\ Ordered(range, LAMBDA a, b : a <= b)
              /\ Runs(INT64_MIN, INT64_MAX)
       /\ result # <<>> /\ job.gen \in {"f32", "f16", "f64"} =>
              /\ Ordered(range, Leq)
              /\ \A i \in DOMAIN range : isFinite(job.k, range[i])
              /\ \A i \in 1 .. job.n : ~isSubnormal(job.k, range[i])
=============================================================================
