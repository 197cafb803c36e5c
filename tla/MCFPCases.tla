----------------------------- MODULE MCFPCases ------------------------------
(* Formats of two bits of precision, with the doubles of the host at seven; *)
(* all values for the builtins of one argument, samples for the others.     *)
EXTENDS FPCases, TLC

MCFormat == [F32 |-> [p |-> 2, emin |-> -5, emax |-> 4], F16 |-> [p |-> 2, emin |-> -2, emax |-> 2],
             Abstract |-> [p |-> 7, emin |-> -10, emax |-> 8]]

\* The host's <cmath>, monotone and to the precision of the double: the square root, and for the
\* others functions of the same domain and sign.
LOCAL Root(n) == CHOOSE r \in 0 .. 1000 : r * r <= n /\ n < (r + 1) * (r + 1)
MCStd(f, x) ==
    CASE f = "sqrt" -> Double(Ratio(Root((x[1] * 4096) \div x[2]), 64))
      [] f \in {"exp", "exp2"} ->
             LET n == Floor(x) IN Double(Times(Pow2(n[1]), Plus(One, Plus(x, Neg(n)))))
      [] f \in {"log", "log2"} ->
             LET e == Exponent(x) IN Double(Plus(Num(e), Plus(Times(x, Pow2(-e)), Neg(One))))
      [] OTHER -> Double(Times(x, <<3, 4>>))
LOCAL Errors(e) == [F32 |-> <<1, 4>>, F16 |-> e]
MCAccuracy == [log |-> Errors(<<1, 2>>), circular |-> Errors(<<1, 2>>), tanh |-> Errors(<<1, 2>>),
               asin |-> Errors(<<1, 2>>), acos |-> Errors(<<1, 2>>), atan |-> [F32 |-> Num(2), F16 |-> Num(2)]]
MCPi == [F32 |-> Num(3), F16 |-> Num(3), f64 |-> <<25, 8>>]

LOCAL Args(s) == [v \in {<<a, 1, 1>> : a \in DOMAIN s} |-> s[v[1]]]
LOCAL Vectors(s) == [v \in UNION {{<<a, 1, i>> : i \in DOMAIN s[a]} : a \in DOMAIN s} |-> s[v[1]][v[3]]]
LOCAL Matrix(a, cols, rows, s) ==
    [v \in {Entry(a, i, rows)[2] : i \in 1 .. cols * rows} |-> s[(v[2] - 1) * rows + v[3]]]
LOCAL SeqSet(s) == {s[i] : i \in DOMAIN s}
LOCAL Kinds2 == {"F32", "F16"}

\* Zero, a subnormal, the least normal, ordinary values and the largest, with signs.
LOCAL Few(k) == {Zero, SubMin(k), Neg(MinNormal(k)), One, <<-3, 2>>, Neg(MaxOf(k)), MaxOf(k)}
LOCAL Some(k) == Few(k) \cup {Neg(SubMin(k)), MinNormal(k), Half, Neg(One), Num(2), Num(3), <<3, 4>>, <<-3, 4>>}
LOCAL Three(k) == {SubMin(k), One, Neg(MaxOf(k))}

UnaryFormulas ==
    {Tan, Sinh, Cosh, Tanh, Asin, Acos, Asinh, Atanh, Sqrt(X1), Degrees(<<57, 16>>)}
    \cup {<<op, X1>> : op \in UnaryOps}
BinaryFormulas == {<<op, X1, Y1>> : op \in BinaryOps \ {"step"}} \cup {Remainder}
\* In f16, min and max reject one of two subnormals.
Passing(k) == IF k = "F16" THEN BinaryFormulas \ {<<op, X1, Y1>> : op \in {"min", "max"}} ELSE BinaryFormulas
LOCAL Job(g, k, finite, F, env) == [gen |-> g, k |-> k, finite |-> finite, f |-> F, env |-> env]

ScalarJobs ==
    UNION {{Job("scalar", k, fin, <<f>>, Args([x |-> x])) : f \in UnaryFormulas, x \in Values(k), fin \in BOOLEAN}
            : k \in Kinds2}
    \cup {Job("scalar", "F32", fin, <<f>>, Args([x |-> x])) : f \in {Saturate, <<"quantizeToF16", X1>>},
                                                            x \in Values("F32"), fin \in BOOLEAN}
    \cup {Job("anyOf", "F32", fin, <<AcoshAlternative, AcoshPrimary>>, Args([x |-> x])) :
            x \in Values("F32"), fin \in BOOLEAN}
PairJobs ==
    UNION {{Job("pair", k, TRUE, <<f>>, Args([x |-> x, y |-> y])) : f \in Passing(k), x \in Some(k), y \in Some(k)}
           \cup {Job("step", k, fin, <<<<"step", X1, Y1>>>>, Args([x |-> x, y |-> y])) :
                   x \in Some(k), y \in Some(k), fin \in BOOLEAN} : k \in Kinds2}
    \cup {Job("compare", "F32", FALSE, <<>>, Args([x |-> x, y |-> y])) @@ [op |-> "<"] : x \in Few("F32"), y \in Few("F32")}
TripleJobs ==
    UNION {{Job("triple", k, TRUE, F, Args([x |-> x, y |-> y, z |-> z])) :
              F \in {<<Fma>>, <<MixImprecise, MixPrecise>>, <<SmoothStep>>},
              x \in Few(k), y \in Three(k), z \in Three(k)} : k \in Kinds2}
    \cup {Job("triple", "F32", FALSE, <<<<"median", X1, Y1, Z1>>, Clamp(X1, Y1, Z1)>>, Args([x |-> x, y |-> y, z |-> z])) :
              x \in Few("F32"), y \in Three("F32"), z \in Three("F32")}
    \cup {Job("ldexp", k, fin, <<>>, Args([x |-> x])) @@ [exp |-> e] : k \in Kinds2, x \in Few("F16"), e \in -5 .. 6, fin \in BOOLEAN}

LOCAL Dense(k) == SeqSet(selectNCases(3, denseVectorRange(<<Neg(MaxOf(k)), SubMin(k)>>, 2)))
LOCAL Two(k) == {<<x, y>> : x \in {SubMin(k), <<-3, 2>>}, y \in {Zero, One, MaxOf(k)}}
\* In f16, frexp does not skip subnormals.
LOCAL FrexpJobs(k, S) ==
    {Job(g, k, FALSE, <<>>, Vectors([x |-> x])) : g \in {"frexpFract", "frexpExp"},
        x \in {<<a>> : a \in S} \cup (S \X {SubMin("F32"), Num(-1)})}
MCSubnormalJobs == FrexpJobs("F16", Values("F16"))
VectorJobs ==
    UNION {{Job("vecScalar", k, TRUE, <<Mul(X1, Y1)>>, Vectors([x |-> x, y |-> <<y>>])) : x \in Two(k), y \in Few(k)}
           \cup {Job("scalarVec", k, TRUE, <<Sub(X1, Y1)>>, Vectors([x |-> <<x>>, y |-> y])) : x \in Few(k), y \in Two(k)}
           \cup {Job("mix", k, TRUE, <<MixImprecise, MixPrecise>>, Vectors([x |-> x, y |-> y, z |-> <<One>>])) : x \in Two(k), y \in Two(k)}
           \cup {Job(g, k, fin, <<>>, Vectors([x |-> x])) : g \in {"length", "normalize"}, x \in Two(k) \cup Dense(k) \cup {<<One, Half, SubMin(k)>>}, fin \in BOOLEAN}
           \cup {Job("length", k, TRUE, <<>>, Args([x |-> x])) : x \in Few(k)}
           \cup {Job("distance", k, TRUE, <<>>, Args([x |-> x, y |-> y])) : x \in Few(k), y \in Few(k)}
           \cup {Job(g, k, fin, <<>>, Vectors([x |-> x, y |-> y])) : g \in {"distance", "dot", "reflect"}, x \in Two(k), y \in Two(k), fin \in BOOLEAN}
           \cup {Job(g, k, TRUE, <<>>, Vectors([x |-> x, y |-> y, z |-> <<z>>])) : g \in {"refract"}, x \in Two(k), y \in Two(k), z \in {One, <<3, 4>>}}
           \cup {Job("faceForward", k, fin, <<>>, Vectors([x |-> x, y |-> y, z |-> z])) : x \in Two(k), y \in Two(k), z \in Two(k), fin \in BOOLEAN}
           \cup {Job(g, k, TRUE, <<>>, Vectors([x |-> <<One, <<-3, 2>>, x>>, y |-> <<y, Num(2), SubMin(k)>>])) :
                   g \in {"cross", "dot"}, x \in Few(k), y \in Few(k)}
           \cup {Job("modf", k, FALSE, <<>>, Args([x |-> x])) @@ [whole |-> w] : x \in Values(k), w \in BOOLEAN}
           \cup {Job("modf", k, FALSE, <<>>, Vectors([x |-> x])) @@ [whole |-> w] : x \in Two(k), w \in BOOLEAN}
          : k \in Kinds2}
    \cup UNION {FrexpJobs(k, {x \in Values(k) : k = "F16" => ~isSubnormal(k, x)}) : k \in Kinds2}

\* Matrices of 2 columns and 2 or 3 rows.
\* The matrices the tests are run on, where the format is large enough for them.
LOCAL Sparse(k) == IF k = "F32" THEN SeqSet(selectNCases(4, sparseMatrixRange(k, 2, 3))) ELSE {}
LOCAL Entries(k) == {<<x, One, Half, y, SubMin(k), Num(-1)>> : x \in Few(k), y \in {<<3, 2>>, MaxOf(k)}} \cup Sparse(k)
\* Doubles between and beyond the values of the formats.
LOCAL Doubles == {<<65, 64>>, <<-1, 256>>, Num(25), Num(-31), SubMin("Abstract")}
MatrixJobs ==
    UNION {{Job(g, k, fin, <<>>, Matrix("x", 2, 3, x)) @@ [cols |-> 2, rows |-> 3] : g \in {"transpose"}, x \in Entries(k), fin \in BOOLEAN}
           \cup UNION {{Job("convert", k, fin, <<>>, Matrix("x", 2, 3, x)) @@ [from |-> from, cols |-> 2, rows |-> 3] :
                            x \in Entries(from), fin \in BOOLEAN} : from \in Kinds2}
           \cup {Job("convert", k, fin, <<>>, Matrix("x", 2, 3, <<x, One, y, Zero, x, Num(-1)>>)) @@ [from |-> "Abstract", cols |-> 2, rows |-> 3] :
                    x, y \in Doubles, fin \in BOOLEAN}
           \cup {Job("determinant", k, fin, <<>>, Matrix("x", 2, 2, x)) @@ [cols |-> 2] : x \in Entries(k), fin \in BOOLEAN}
           \cup {Job("matSum", k, TRUE, <<>>, Matrix("x", 2, 3, x) @@ Matrix("y", 2, 3, y)) @@ [cols |-> 2, rows |-> 3] : x \in Entries(k), y \in Entries(k)}
           \cup {Job("matProduct", k, TRUE, <<>>, Matrix("x", 2, 2, x) @@ Matrix("y", 2, 2, y)) @@ [inner |-> 2, cols |-> 2, rows |-> 2] : x \in Entries(k), y \in Entries(k)}
           \cup {Job("matScalar", k, TRUE, <<>>, Matrix("x", 2, 3, x) @@ Args([y |-> y])) @@ [cols |-> 2, rows |-> 3] : x \in Entries(k), y \in Few(k)}
           \cup {Job("scalarMat", k, TRUE, <<>>, Matrix("y", 2, 3, x) @@ Args([x |-> y])) @@ [cols |-> 2, rows |-> 3] : x \in Entries(k), y \in Few(k)}
           \cup {Job("matVec", k, TRUE, <<>>, Matrix("x", 2, 3, x) @@ Vectors([y |-> y])) @@ [cols |-> 2, rows |-> 3] : x \in Entries(k), y \in Two(k)}
           \cup {Job("vecMat", k, TRUE, <<>>, Matrix("y", 2, 2, x) @@ Vectors([x |-> y])) @@ [cols |-> 2, rows |-> 2] : x \in Entries(k), y \in Two(k)}
          : k \in Kinds2}
    \cup {Job("determinant", "F32", TRUE, <<>>, Matrix("x", 3, 3, <<x, One, Half, Zero, One, x, Num(2), Zero, <<3, 2>>>>)) @@ [cols |-> 3] : x \in Few("F32")}

RangeJobs ==
    {[gen |-> g, k |-> "Abstract", env |-> <<>>, from |-> a, to |-> b, n |-> n] : g \in {"linear", "biased"},
        a \in Some("F32"), b \in Some("F32"), n \in {1, 2, 5, 8}}
    \cup {[gen |-> g, k |-> k, env |-> <<>>, n |-> n, special |-> <<Num(15), Num(17)>>] :
            g \in {"i64"}, k \in {"Abstract"}, n \in 1 .. 6}
    \cup {[gen |-> g[1], k |-> g[2], env |-> <<>>, n |-> n, special |-> <<Num(15), Num(17)>>] :
            g \in {<<"f32", "F32">>, <<"f16", "F16">>, <<"f64", "Abstract">>}, n \in 2 .. 8}
    \cup {[gen |-> "linearU32", k |-> "F32", env |-> <<>>, from |-> a, to |-> b, n |-> 5] : a, b \in {1, 5, 21}}

MCJobs == ScalarJobs \cup PairJobs \cup TripleJobs \cup VectorJobs \cup MatrixJobs \cup RangeJobs
=============================================================================
