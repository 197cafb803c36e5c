-------------------------- MODULE MemoryModel_proofs --------------------------
(***************************************************************************)
(* Theorems about MemoryModel, for every number of workgroups, invocations *)
(* and iterations.                                                         *)
(***************************************************************************)
EXTENDS MemoryModel, FiniteSetTheorems, WellFoundedInduction, TLAPS

-----------------------------------------------------------------------------
(* Arithmetic of the layout: the l-th of x things of the w-th of n groups. *)

LEMMA Scaled ==
  ASSUME NEW v \in Nat, NEW w \in Nat, NEW x \in Nat, v < w
  PROVE  v * x + x <= w * x
<1> DEFINE d == w - v - 1
<1>1. d \in Nat /\ w = v + 1 + d
  OBVIOUS
<1> HIDE DEF d
<1>2. w * x = v * x + x + d * x
  BY <1>1
<1>3. d * x \in Nat /\ v * x \in Nat /\ w * x \in Nat
  BY <1>1
<1> QED BY <1>2, <1>3

LEMMA InRow ==
  ASSUME NEW n \in Nat, NEW x \in Nat, NEW w \in 0 .. n - 1, NEW l \in 0 .. x - 1
  PROVE  w * x \in Nat /\ x * n \in Nat /\ w * x + l \in 0 .. x * n - 1
<1>1. w \in Nat /\ w < n /\ w * x \in Nat /\ n * x \in Nat /\ n * x = x * n
  OBVIOUS
<1>2. w * x + x <= n * x
  BY <1>1, Scaled
<1> QED BY <1>1, <1>2

LEMMA OneRow ==
  ASSUME NEW x \in Nat, NEW v \in Nat, NEW w \in Nat, NEW l \in 0 .. x - 1, NEW m \in 0 .. x - 1,
         v * x + l = w * x + m
  PROVE  v = w /\ l = m
<1>0. v * x \in Nat /\ w * x \in Nat
  OBVIOUS
<1>1. ~(v < w)
  <2>1. v < w => v * x + x <= w * x
    BY Scaled
  <2> QED BY <1>0, <2>1
<1>2. ~(w < v)
  <2>1. w < v => w * x + x <= v * x
    BY Scaled
  <2> QED BY <1>0, <2>1
<1>3. v = w
  BY <1>1, <1>2
<1> QED BY <1>0, <1>3

LEMMA Mod ==
  ASSUME NEW k \in Nat, NEW x \in Nat \ {0}
  PROVE  k % x \in 0 .. x - 1
BY Z3

LEMMA DivMod ==
  ASSUME NEW k \in Nat, NEW x \in Nat \ {0}
  PROVE  k \div x \in Nat /\ k = x * (k \div x) + (k % x)
BY Z3

LEMMA RowOf ==
  ASSUME NEW n \in Nat, NEW x \in Nat \ {0}, NEW k \in 0 .. x * n - 1
  PROVE  k \div x \in 0 .. n - 1 /\ k % x \in 0 .. x - 1 /\ k = (k \div x) * x + (k % x)
<1> DEFINE q == k \div x
           r == k % x
<1>1. k \in Nat /\ k < x * n
  <2>1. x * n \in Nat
    OBVIOUS
  <2> QED BY <2>1
<1>2. q \in Nat /\ k = x * q + r /\ r \in 0 .. x - 1
  BY <1>1, DivMod, Mod
<1> HIDE DEF q, r
<1>3. x * q = q * x /\ q * x \in Nat /\ n * x = x * n /\ n * x \in Nat
  BY <1>2
<1>4. q < n
  <2>1. n < q => n * x + x <= q * x
    BY <1>2, Scaled
  <2> QED BY <1>1, <1>2, <1>3, <2>1
<1>5. q \in 0 .. n - 1 /\ r \in 0 .. x - 1 /\ k = q * x + r
  BY <1>2, <1>3, <1>4
<1> QED BY <1>5, Zenon DEF q, r

LEMMA RowDiv ==
  ASSUME NEW x \in Nat \ {0}, NEW w \in Nat, NEW l \in 0 .. x - 1
  PROVE  (w * x + l) \div x = w
<1> DEFINE k == w * x + l
<1>1. k \in Nat
  OBVIOUS
<1>2. k \div x \in Nat /\ k = x * (k \div x) + (k % x) /\ k % x \in 0 .. x - 1
  <2> HIDE DEF k
  <2> QED BY <1>1, DivMod, Mod, Zenon
<1> DEFINE q == k \div x
           r == k % x
<1>3. q \in Nat /\ r \in 0 .. x - 1 /\ w * x + l = x * q + r
  BY <1>2 DEF k
<1> HIDE DEF q, r, k
<1>4. w * x + l = q * x + r
  BY <1>3
<1>5. w = q
  BY <1>3, <1>4, OneRow
<1> QED BY <1>5 DEF q, k

LEMMA ModSmall ==
  ASSUME NEW k \in Nat, NEW x \in Nat \ {0}
  PROVE  /\ k < x => k % x = k
         /\ x <= k /\ k < x + x => k % x = k - x
BY Z3

-----------------------------------------------------------------------------
(* stripe_workgroup sends every workgroup to another one, and no two to the *)
(* same for the same place in the workgroup.                               *)

LEMMA Stripes ==
  ASSUME NEW l \in Nat
  PROVE  LET N == Testing["inter"] IN
         /\ \A w \in 0 .. N - 1 : stripe_workgroup(w, l) \in 0 .. N - 1
         /\ \A v, w \in 0 .. N - 1 : stripe_workgroup(v, l) = stripe_workgroup(w, l) => v = w
         /\ \A v \in 0 .. N - 1 : \E w \in 0 .. N - 1 : stripe_workgroup(w, l) = v
<1> DEFINE N == Testing["inter"]
           e == 1 + (l % (N - 1))
<1>1. N \in Nat /\ N > 1 /\ N - 1 \in Nat \ {0}
  BY MemoryModelAssumption DEF Types
<1>2. e \in 1 .. N - 1
  <2>1. l % (N - 1) \in 0 .. (N - 1) - 1
    <3> HIDE DEF N
    <3> QED BY <1>1, Mod
  <2> HIDE DEF N
  <2> QED BY <1>1, <2>1
<1>3. ASSUME NEW w \in 0 .. N - 1
      PROVE  stripe_workgroup(w, l) = IF w + e < N THEN w + e ELSE w + e - N
  <2>1. stripe_workgroup(w, l) = (w + e) % N
    <3>1. w + 1 + (l % (N - 1)) = w + e
      <4> HIDE DEF N
      <4>1. l % (N - 1) \in Int
        BY <1>1, Mod
      <4> QED BY <1>1, <4>1
    <3> QED BY <3>1 DEF stripe_workgroup
  <2> HIDE DEF N, e
  <2>2. w + e \in Nat /\ w + e < N + N /\ N \in Nat \ {0}
    BY <1>1, <1>2
  <2> DEFINE m == (w + e) % N
  <2>3. w + e < N => m = w + e
    BY <2>2, ModSmall, Zenon
  <2>4. N <= w + e => m = (w + e) - N
    BY <2>2, ModSmall, Zenon
  <2>5. stripe_workgroup(w, l) = m
    BY <2>1
  <2> HIDE DEF m
  <2> QED BY <1>1, <1>2, <2>2, <2>3, <2>4, <2>5
<1> HIDE DEF N, e
<1>4. \A w \in 0 .. N - 1 : stripe_workgroup(w, l) \in 0 .. N - 1
  BY <1>1, <1>2, <1>3
<1>5. \A v, w \in 0 .. N - 1 : stripe_workgroup(v, l) = stripe_workgroup(w, l) => v = w
  BY <1>1, <1>2, <1>3
<1>6. ASSUME NEW v \in 0 .. N - 1 PROVE \E w \in 0 .. N - 1 : stripe_workgroup(w, l) = v
  <2>1. CASE e <= v
    <3>1. v - e \in 0 .. N - 1 /\ (v - e) + e = v /\ v < N
      BY <1>1, <1>2, <2>1
    <3>2. stripe_workgroup(v - e, l) = v
      BY <1>3, <3>1
    <3> QED BY <3>1, <3>2
  <2>2. CASE ~(e <= v)
    <3> DEFINE w == v - e + N
    <3>1. w \in 0 .. N - 1 /\ ~(w + e < N) /\ w + e - N = v
      BY <1>1, <1>2, <2>2
    <3> HIDE DEF w
    <3>2. stripe_workgroup(w, l) = v
      BY <1>3, <3>1
    <3> QED BY <3>1, <3>2
  <2> QED BY <2>1, <2>2
<1> QED BY <1>4, <1>5, <1>6 DEF N

-----------------------------------------------------------------------------
(* permute_id permutes. *)

Permutes(factor, n) ==
  /\ \A id \in 0 .. n - 1 : permute_id(id, factor, n) \in 0 .. n - 1
  /\ \A id, jd \in 0 .. n - 1 : permute_id(id, factor, n) = permute_id(jd, factor, n) => id = jd
  /\ \A k \in 0 .. n - 1 : \E id \in 0 .. n - 1 : permute_id(id, factor, n) = k

LEMMA Permutation ==
  ASSUME NEW n \in Nat, NEW factor, {permute_id(id, factor, n) : id \in 0 .. n - 1} = 0 .. n - 1
  PROVE  Permutes(factor, n)
<1> DEFINE S == 0 .. n - 1
           f == [id \in S |-> permute_id(id, factor, n)]
<1>1. \A id \in S : permute_id(id, factor, n) \in S
  OBVIOUS
<1>2. \A k \in S : \E id \in S : permute_id(id, factor, n) = k
  OBVIOUS
<1>3. IsFiniteSet(S)
  BY FS_Interval
<1>4. f \in Surjection(S, S)
  <2> HIDE DEF S
  <2> QED BY <1>1, <1>2 DEF Surjection
<1>5. f \in Injection(S, S)
  <2> HIDE DEF S, f
  <2> QED BY <1>3, <1>4, FS_SurjSameCardinalityImpliesInj
<1>6. \A id, jd \in S : permute_id(id, factor, n) = permute_id(jd, factor, n) => id = jd
  <2> HIDE DEF S
  <2> QED BY <1>5 DEF Injection, IsInjective
<1> QED BY <1>1, <1>2, <1>6 DEF Permutes

LEMMA NoPermutation ==
  ASSUME NEW n \in Nat \ {0}
  PROVE  Permutes(1, n) /\ \A id \in 0 .. n - 1 : permute_id(id, 1, n) = id
<1>1. ASSUME NEW id \in 0 .. n - 1 PROVE permute_id(id, 1, n) = id
  <2>1. id \in Nat /\ id < n /\ id * 1 = id
    OBVIOUS
  <2>2. id % n = id
    BY <2>1, ModSmall
  <2> QED BY <2>1, <2>2 DEF permute_id
<1> QED BY <1>1 DEF Permutes

-----------------------------------------------------------------------------
(* The sizes and the preset of a test. *)

LEMMA TestFacts ==
  ASSUME test \in Suite
  PROVE  /\ test.name \in DOMAIN Litmuses /\ T \in Types
         /\ test.memType \in {"atomic_storage", "non_atomic_storage", "atomic_workgroup",
                              "non_atomic_workgroup", "non_atomic_texture"}
         /\ test.memType \notin {"atomic_storage", "non_atomic_storage"} => T = "intra"
         /\ Litmuses[test.name].parted => T = "intra"
BY SuiteAssumption DEF T

LEMMA Sizes ==
  ASSUME test \in Suite
  PROVE  /\ X[T] \in Nat \ {0} /\ Testing[T] \in Nat \ {0} /\ Most[T] \in Nat
         /\ Testing[T] <= Most[T] /\ TotalIds \in Nat \ {0}
         /\ X[T] * Testing[T] \in Nat \ {0}
<1>1. T \in Types
  BY TestFacts
<1>2. /\ X[T] \in Nat \ {0} /\ Testing[T] \in Nat \ {0} /\ Most[T] \in Nat
      /\ Testing[T] <= Most[T]
  BY <1>1, MemoryModelAssumption
<1>3. X[T] * Testing[T] \in Nat \ {0}
  <2> DEFINE a == X[T]
             b == Testing[T]
  <2>1. a \in Nat \ {0} /\ b \in Nat \ {0}
    BY <1>2
  <2> HIDE DEF a, b
  <2>2. a * b \in Nat /\ a * b # 0
    BY <2>1
  <2> QED BY <2>2 DEF a, b
<1> QED BY <1>2, <1>3 DEF TotalIds

LEMMA PresetFacts ==
  ASSUME NEW n \in DOMAIN Litmuses
  PROVE  /\ Presets[n].memStride \in {1, 2, 4}
         /\ Presets[n].aliased \in BOOLEAN /\ Presets[n].permuted \in BOOLEAN
         /\ Presets[n].aliased => Presets[n].memStride = 1 /\ ~Presets[n].permuted
BY DEF Presets, kAtomicityTestParams, kBarrierTestParams, kCoherenceTestParams, kWeakTestParams

LEMMA PermuteFacts ==
  ASSUME test \in Suite
  PROVE  /\ Permutes(PermuteFirst[T], X[T])
         /\ Permutes(SecondFactor, TotalIds)
<1>1. T \in Types /\ X[T] \in Nat /\ TotalIds \in Nat \ {0}
  BY TestFacts, Sizes
<1>2. Permutes(PermuteFirst[T], X[T])
  BY <1>1, PermuteAssumption, Permutation
<1>3. Permutes(PermuteSecond[T], TotalIds)
  <2>1. {permute_id(id, PermuteSecond[T], TotalIds) : id \in 0 .. TotalIds - 1} = 0 .. TotalIds - 1
    BY <1>1, PermuteAssumption DEF TotalIds
  <2> QED BY <1>1, <2>1, Permutation
<1>4. Permutes(1, TotalIds)
  BY <1>1, NoPermutation
<1> QED BY <1>2, <1>3, <1>4 DEF SecondFactor

-----------------------------------------------------------------------------
(* Who works on what: in each role, every instance has one invocation. *)

LEMMA Invocation ==
  ASSUME NEW i \in Invocations
  PROVE  /\ i = <<i[1], i[2]>>
         /\ i[1] \in 0 .. Testing[T] - 1 /\ i[2] \in 0 .. X[T] - 1
BY DEF Invocations, Workgroups

(* An id in rows of X: row 0 for intra, a row for each workgroup for inter. *)
LEMMA IdRows ==
  ASSUME test \in Suite, NEW i \in Invocations, NEW role \in {0, 1}
  PROVE  \E v \in Nat, m \in 0 .. X[T] - 1 :
           /\ Id(i, role) = v * X[T] + m
           /\ m = IF role = 0 THEN i[2] ELSE permute_id(i[2], PermuteFirst[T], X[T])
           /\ v = IF T # "inter" THEN 0 ELSE IF role = 0 THEN i[1] ELSE stripe_workgroup(i[1], i[2])
           /\ T = "inter" => v \in 0 .. Testing[T] - 1
<1> DEFINE v == IF T # "inter" THEN 0 ELSE IF role = 0 THEN i[1] ELSE stripe_workgroup(i[1], i[2])
           m == IF role = 0 THEN i[2] ELSE permute_id(i[2], PermuteFirst[T], X[T])
<1>1. /\ T \in Types /\ X[T] \in Nat \ {0} /\ Testing[T] \in Nat \ {0}
      /\ i[1] \in 0 .. Testing[T] - 1 /\ i[2] \in 0 .. X[T] - 1
  BY TestFacts, Sizes, Invocation
<1>2. m \in 0 .. X[T] - 1
  BY <1>1, PermuteFacts DEF Permutes
<1>3. T = "inter" => v \in 0 .. Testing[T] - 1
  <2>1. i[2] \in Nat
    BY <1>1
  <2> QED BY <1>1, <2>1, Stripes
<1>4. v \in Nat
  BY <1>1, <1>3
<1>5. Id(i, role) = v * X[T] + m
  BY DEF Id
<1> QED BY <1>2, <1>3, <1>4, <1>5

LEMMA IdRange ==
  ASSUME test \in Suite, NEW i \in Invocations, NEW role \in {0, 1}
  PROVE  /\ Id(i, role) \in 0 .. TotalIds - 1
         /\ T = "intra" => Id(i, role) \in 0 .. X[T] - 1
<1>1. PICK v \in Nat, m \in 0 .. X[T] - 1 :
           /\ Id(i, role) = v * X[T] + m
           /\ v = IF T # "inter" THEN 0 ELSE IF role = 0 THEN i[1] ELSE stripe_workgroup(i[1], i[2])
           /\ T = "inter" => v \in 0 .. Testing[T] - 1
  BY IdRows
<1>2. X[T] \in Nat \ {0} /\ Testing[T] \in Nat \ {0} /\ T \in Types
  BY Sizes, TestFacts
<1>3. CASE T = "inter"
  <2>1. v * X[T] + m \in 0 .. X[T] * Testing[T] - 1
    BY <1>1, <1>2, <1>3, InRow
  <2> QED BY <1>1, <1>3, <2>1 DEF TotalIds
<1>4. CASE T # "inter"
  <2>1. v = 0 /\ v * X[T] + m = m
    BY <1>1, <1>2, <1>4
  <2> QED BY <1>1, <1>4, <2>1 DEF TotalIds
<1> QED BY <1>3, <1>4

(* The row an instance is in, and its place there. *)
LEMMA InstanceRows ==
  ASSUME test \in Suite, NEW i \in Invocations, NEW role \in {0, 1}
  PROVE  \E v \in 0 .. Testing[T] - 1, m \in 0 .. X[T] - 1 :
           /\ Instance(i, role) = v * X[T] + m
           /\ m = IF role = 0 THEN i[2] ELSE permute_id(i[2], PermuteFirst[T], X[T])
           /\ v = IF T # "inter" \/ role = 0 THEN i[1] ELSE stripe_workgroup(i[1], i[2])
           /\ T = "inter" => Base(i[1]) = 0 /\ Id(i, role) = v * X[T] + m
           /\ T # "inter" => Base(i[1]) = v * X[T] /\ Id(i, role) = m
<1>1. PICK v \in Nat, m \in 0 .. X[T] - 1 :
           /\ Id(i, role) = v * X[T] + m
           /\ m = IF role = 0 THEN i[2] ELSE permute_id(i[2], PermuteFirst[T], X[T])
           /\ v = IF T # "inter" THEN 0 ELSE IF role = 0 THEN i[1] ELSE stripe_workgroup(i[1], i[2])
           /\ T = "inter" => v \in 0 .. Testing[T] - 1
  BY IdRows
<1>2. X[T] \in Nat \ {0} /\ Testing[T] \in Nat \ {0} /\ T \in Types /\ i[1] \in 0 .. Testing[T] - 1
  BY Sizes, TestFacts, Invocation
<1>3. CASE T = "inter"
  <2>1. Base(i[1]) = 0
    BY <1>3 DEF Base
  <2>2. v * X[T] + m \in Nat
    BY <1>1, <1>2
  <2>3. Instance(i, role) = v * X[T] + m
    BY <1>1, <2>1, <2>2 DEF Instance
  <2> QED BY <1>1, <1>3, <2>1, <2>3
<1>4. CASE T # "inter"
  <2>1. v = 0 /\ v * X[T] + m = m
    BY <1>1, <1>2, <1>4
  <2>2. Base(i[1]) = i[1] * X[T]
    BY <1>4 DEF Base
  <2>3. Instance(i, role) = i[1] * X[T] + m
    BY <1>1, <2>1, <2>2 DEF Instance
  <2> QED BY <1>1, <1>2, <1>4, <2>1, <2>2, <2>3
<1> QED BY <1>3, <1>4

LEMMA InstanceRange ==
  ASSUME test \in Suite, NEW i \in Invocations, NEW role \in {0, 1}
  PROVE  Instance(i, role) \in Instances
<1>1. PICK v \in 0 .. Testing[T] - 1, m \in 0 .. X[T] - 1 : Instance(i, role) = v * X[T] + m
  BY InstanceRows
<1>2. X[T] \in Nat /\ Testing[T] \in Nat
  BY Sizes
<1> QED BY <1>1, <1>2, InRow DEF Instances

LEMMA OneInvocation ==
  ASSUME test \in Suite, NEW i \in Invocations, NEW j \in Invocations, NEW role \in {0, 1},
         Instance(i, role) = Instance(j, role)
  PROVE  i = j
<1>1. PICK v \in 0 .. Testing[T] - 1, m \in 0 .. X[T] - 1 :
           /\ Instance(i, role) = v * X[T] + m
           /\ m = IF role = 0 THEN i[2] ELSE permute_id(i[2], PermuteFirst[T], X[T])
           /\ v = IF T # "inter" \/ role = 0 THEN i[1] ELSE stripe_workgroup(i[1], i[2])
  BY InstanceRows
<1>2. PICK w \in 0 .. Testing[T] - 1, l \in 0 .. X[T] - 1 :
           /\ Instance(j, role) = w * X[T] + l
           /\ l = IF role = 0 THEN j[2] ELSE permute_id(j[2], PermuteFirst[T], X[T])
           /\ w = IF T # "inter" \/ role = 0 THEN j[1] ELSE stripe_workgroup(j[1], j[2])
  BY InstanceRows
<1>3. /\ X[T] \in Nat \ {0} /\ Testing[T] \in Nat \ {0} /\ T \in Types
      /\ i = <<i[1], i[2]>> /\ j = <<j[1], j[2]>>
      /\ i[1] \in 0 .. Testing[T] - 1 /\ j[1] \in 0 .. Testing[T] - 1
      /\ i[2] \in 0 .. X[T] - 1 /\ j[2] \in 0 .. X[T] - 1
  BY Sizes, TestFacts, Invocation
<1>4. v = w /\ m = l
  <2>1. v \in Nat /\ w \in Nat /\ X[T] \in Nat
    BY <1>3
  <2>2. v * X[T] + m = w * X[T] + l /\ m \in 0 .. X[T] - 1 /\ l \in 0 .. X[T] - 1
    BY <1>1, <1>2
  <2> DEFINE x == X[T]
  <2>3. v \in Nat /\ w \in Nat /\ x \in Nat /\ v * x + m = w * x + l /\ m \in 0 .. x - 1 /\ l \in 0 .. x - 1
    BY <2>1, <2>2
  <2> HIDE DEF x
  <2> QED BY <2>3, OneRow
<1>5. i[2] = j[2]
  BY <1>1, <1>2, <1>3, <1>4, PermuteFacts DEF Permutes
<1>6. i[1] = j[1]
  <2>1. i[2] \in Nat
    BY <1>3
  <2>2. CASE T # "inter" \/ role = 0
    BY <1>1, <1>2, <1>4, <2>2
  <2>3. CASE ~(T # "inter" \/ role = 0)
    BY <1>1, <1>2, <1>3, <1>4, <1>5, <2>1, <2>3, Stripes
  <2> QED BY <2>2, <2>3
<1> QED BY <1>3, <1>5, <1>6

LEMMA SomeInvocation ==
  ASSUME test \in Suite, NEW k \in Instances, NEW role \in {0, 1}
  PROVE  \E i \in Invocations : Instance(i, role) = k
<1>1. X[T] \in Nat \ {0} /\ Testing[T] \in Nat \ {0} /\ T \in Types
  BY Sizes, TestFacts
<1>2. PICK v \in 0 .. Testing[T] - 1, m \in 0 .. X[T] - 1 : k = v * X[T] + m
  BY <1>1, RowOf DEF Instances
<1>3. PICK l \in 0 .. X[T] - 1 : m = IF role = 0 THEN l ELSE permute_id(l, PermuteFirst[T], X[T])
  BY <1>1, <1>2, PermuteFacts DEF Permutes
<1>4. PICK w \in 0 .. Testing[T] - 1 : v = IF T # "inter" \/ role = 0 THEN w ELSE stripe_workgroup(w, l)
  <2>1. l \in Nat
    BY <1>1
  <2> QED BY <1>2, <2>1, Stripes
<1> DEFINE i == <<w, l>>
<1>5. i \in Invocations /\ i[1] = w /\ i[2] = l
  BY DEF Invocations, Workgroups
<1>6. \E a \in 0 .. Testing[T] - 1, b \in 0 .. X[T] - 1 :
           /\ Instance(i, role) = a * X[T] + b
           /\ b = IF role = 0 THEN i[2] ELSE permute_id(i[2], PermuteFirst[T], X[T])
           /\ a = IF T # "inter" \/ role = 0 THEN i[1] ELSE stripe_workgroup(i[1], i[2])
  <2> HIDE DEF i
  <2> QED BY <1>5, InstanceRows
<1>7. Instance(i, role) = v * X[T] + m
  <2> HIDE DEF i
  <2> QED BY <1>3, <1>4, <1>5, <1>6
<1> HIDE DEF i
<1> QED BY <1>2, <1>5, <1>7

(* Inside a workgroup, the two roles of an instance are played there. *)
LEMMA SameWorkgroup ==
  ASSUME test \in Suite, T = "intra", NEW i \in Invocations, NEW j \in Invocations,
         NEW r \in {0, 1}, NEW q \in {0, 1}, Instance(i, r) = Instance(j, q)
  PROVE  i[1] = j[1]
<1>1. PICK m \in 0 .. X[T] - 1 : Instance(i, r) = i[1] * X[T] + m
  BY InstanceRows
<1>2. PICK l \in 0 .. X[T] - 1 : Instance(j, q) = j[1] * X[T] + l
  BY InstanceRows
<1>3. X[T] \in Nat /\ Testing[T] \in Nat /\ i[1] \in Nat /\ j[1] \in Nat
  BY Sizes, Invocation
<1>4. i[1] * X[T] + m = j[1] * X[T] + l /\ m \in 0 .. X[T] - 1 /\ l \in 0 .. X[T] - 1
  BY <1>1, <1>2
<1> DEFINE x == X[T]
           v == i[1]
           w == j[1]
<1>5. v \in Nat /\ w \in Nat /\ x \in Nat /\ v * x + m = w * x + l /\ m \in 0 .. x - 1 /\ l \in 0 .. x - 1
  BY <1>3, <1>4
<1>6. v = w
  <2> HIDE DEF x, v, w
  <2> QED BY <1>5, OneRow
<1> QED BY <1>6

-----------------------------------------------------------------------------
(* Where an instance has its two locations. *)

Origin(w) == IF InWorkgroupMemory THEN 0 ELSE Base(w)

Local(i, role, at) == IF at = "x" THEN Id(i, role) ELSE permute_id(Id(i, role), SecondFactor, TotalIds)

Offset(at) == IF at = "x" THEN 0 ELSE Shift

Cell(i, role, at) == <<Space(i[1]), Word(i, role, at)>>

LEMMA Strides ==
  ASSUME test \in Suite
  PROVE  /\ Params.memStride \in {1, 2, 4} /\ Params.aliased \in BOOLEAN
         /\ Params.aliased => Params.memStride = 1 /\ SecondFactor = 1 /\ Shift = 0
         /\ ~Params.aliased => Shift = Params.memStride
BY TestFacts, PresetFacts DEF Params, SecondFactor, Shift

LEMMA LocalFacts ==
  ASSUME test \in Suite, NEW i \in Invocations, NEW role \in {0, 1}, NEW at \in {"x", "y"}
  PROVE  /\ Origin(i[1]) \in Nat /\ Local(i, role, at) \in 0 .. TotalIds - 1
         /\ Params.aliased => Local(i, role, at) = Id(i, role)
         /\ Word(i, role, at) = (Origin(i[1]) + Local(i, role, at)) * Params.memStride * 2 + Offset(at)
<1>1. Origin(i[1]) \in Nat
  <2>1. i[1] \in Nat /\ X[T] \in Nat
    BY Invocation, Sizes
  <2>2. i[1] * X[T] \in Nat
    BY <2>1
  <2> QED BY <2>2 DEF Origin, Base
<1>2. Id(i, role) \in 0 .. TotalIds - 1 /\ TotalIds \in Nat \ {0}
  BY IdRange, Sizes
<1>3. Local(i, role, at) \in 0 .. TotalIds - 1
  BY <1>2, PermuteFacts DEF Permutes, Local
<1>4. Params.aliased => Local(i, role, at) = Id(i, role)
  BY <1>2, Strides, NoPermutation DEF Local
<1>5. CASE at = "x"
  <2> DEFINE u == (Origin(i[1]) + Id(i, role)) * Params.memStride * 2
  <2>1. u \in Nat
    BY <1>1, <1>2, Strides
  <2>2. Word(i, role, at) = u
    BY <1>5 DEF Word, XWord, Origin
  <2>3. Local(i, role, at) = Id(i, role) /\ Offset(at) = 0
    BY <1>5 DEF Local, Offset
  <2> HIDE DEF u
  <2>4. Word(i, role, at) = u + 0
    BY <2>1, <2>2
  <2> QED BY <1>1, <1>3, <1>4, <2>3, <2>4, Zenon DEF u
<1>6. CASE at # "x"
  <2>1. Word(i, role, at) = (Origin(i[1]) + Local(i, role, at)) * Params.memStride * 2 + Offset(at)
    BY <1>6, Zenon DEF Word, YWord, Origin, Local, Offset
  <2> QED BY <1>1, <1>3, <1>4, <2>1, Zenon
<1> QED BY <1>5, <1>6, Zenon

LEMMA InterIsStorage ==
  ASSUME test \in Suite
  PROVE  /\ T \in {"inter", "intra"}
         /\ T = "inter" => ~InWorkgroupMemory /\ test.memType # "non_atomic_texture"
BY TestFacts DEF InWorkgroupMemory, Types

LEMMA CellsApart ==
  ASSUME test \in Suite, NEW i \in Invocations, NEW j \in Invocations,
         NEW r \in {0, 1}, NEW q \in {0, 1}, NEW a \in {"x", "y"}, NEW b \in {"x", "y"},
         Cell(i, r, a) = Cell(j, q, b)
  PROVE  /\ Instance(i, r) = Instance(j, q)
         /\ a = b \/ Params.aliased
<1> DEFINE u == Origin(i[1]) + Local(i, r, a)
           v == Origin(j[1]) + Local(j, q, b)
           ms == Params.memStride
<1>1. /\ Origin(i[1]) \in Nat /\ Origin(j[1]) \in Nat
      /\ Local(i, r, a) \in 0 .. TotalIds - 1 /\ Local(j, q, b) \in 0 .. TotalIds - 1
      /\ TotalIds \in Nat
      /\ Params.aliased => Local(i, r, a) = Id(i, r) /\ Local(j, q, b) = Id(j, q)
  BY LocalFacts, Sizes
<1>2. u \in Nat /\ v \in Nat
  BY <1>1
<1>3. Space(i[1]) = Space(j[1]) /\ u * ms * 2 + Offset(a) = v * ms * 2 + Offset(b)
  <2>1. Word(i, r, a) = Word(j, q, b) /\ Space(i[1]) = Space(j[1])
    BY DEF Cell
  <2>2. Word(i, r, a) = u * ms * 2 + Offset(a)
    BY LocalFacts, Zenon
  <2>3. Word(j, q, b) = v * ms * 2 + Offset(b)
    BY LocalFacts, Zenon
  <2> QED BY <2>1, <2>2, <2>3, Zenon
<1>4. u = v /\ (a = b \/ Params.aliased)
  <2> HIDE DEF u, v
  <2>1. CASE Params.aliased
    <3>1. ms = 1 /\ Offset(a) = 0 /\ Offset(b) = 0
      BY <2>1, Strides DEF Offset
    <3>2. u * 1 * 2 + 0 = v * 1 * 2 + 0
      BY <1>3, <3>1
    <3> QED BY <1>2, <2>1, <3>2
  <2>2. CASE ~Params.aliased
    <3>1. ms \in {1, 2, 4} /\ Offset(a) = (IF a = "x" THEN 0 ELSE ms) /\ Offset(b) = IF b = "x" THEN 0 ELSE ms
      BY <2>2, Strides DEF Offset
    <3> QED BY <1>2, <1>3, <3>1
  <2> QED BY <2>1, <2>2
<1>5. Local(i, r, a) = Local(j, q, b) => Id(i, r) = Id(j, q)
  <2>1. CASE Params.aliased
    BY <1>1, <2>1
  <2>2. CASE ~Params.aliased
    <3>1. a = b
      BY <1>4, <2>2
    <3>2. Id(i, r) \in 0 .. TotalIds - 1 /\ Id(j, q) \in 0 .. TotalIds - 1
      BY IdRange
    <3> QED BY <3>1, <3>2, PermuteFacts DEF Permutes, Local
  <2> QED BY <2>1, <2>2
<1>6. /\ X[T] \in Nat /\ i[1] \in Nat /\ j[1] \in Nat
      /\ T \in {"inter", "intra"} /\ (T = "inter" => ~InWorkgroupMemory)
  BY Sizes, Invocation, InterIsStorage
<1>7. CASE T = "inter" \/ InWorkgroupMemory
  <2>1. Origin(i[1]) = 0 /\ Origin(j[1]) = 0
    BY <1>6, <1>7 DEF Origin, Base
  <2>2. Local(i, r, a) = Local(j, q, b)
    BY <1>1, <1>4, <2>1
  <2>3. Base(i[1]) = Base(j[1])
    BY <1>3, <1>7 DEF Base, Space
  <2> QED BY <1>4, <1>5, <2>2, <2>3 DEF Instance
<1>8. CASE T = "intra" /\ ~InWorkgroupMemory
  <2> DEFINE x == X[T]
             m == Local(i, r, a)
             l == Local(j, q, b)
             w == i[1]
             z == j[1]
  <2>1. Origin(i[1]) = w * x /\ Origin(j[1]) = z * x /\ TotalIds = x
    BY <1>8 DEF Origin, Base, TotalIds
  <2>2. w \in Nat /\ z \in Nat /\ x \in Nat /\ m \in 0 .. x - 1 /\ l \in 0 .. x - 1 /\ w * x + m = z * x + l
    BY <1>1, <1>4, <1>6, <2>1
  <2>3. w = z /\ m = l
    <3> HIDE DEF x, m, l, w, z
    <3> QED BY <2>2, OneRow
  <2>4. Id(i, r) = Id(j, q)
    BY <1>5, <2>3
  <2> QED BY <1>4, <2>3, <2>4 DEF Instance
<1> QED BY <1>6, <1>7, <1>8

LEMMA CellsMeet ==
  ASSUME test \in Suite, NEW i \in Invocations, NEW j \in Invocations,
         NEW r \in {0, 1}, NEW q \in {0, 1}, NEW a \in {"x", "y"}, NEW b \in {"x", "y"},
         Instance(i, r) = Instance(j, q), a = b \/ Params.aliased
  PROVE  /\ Base(i[1]) = Base(j[1]) /\ Id(i, r) = Id(j, q)
         /\ Cell(i, r, a) = Cell(j, q, b)
<1>1. T \in {"inter", "intra"} /\ (T = "inter" => ~InWorkgroupMemory)
  BY InterIsStorage
<1>2. /\ Base(i[1]) = Base(j[1]) /\ Id(i, r) = Id(j, q) /\ Space(i[1]) = Space(j[1])
      /\ Origin(i[1]) = Origin(j[1])
  <2>1. Id(i, r) \in Int /\ Id(j, q) \in Int
    <3>1. Id(i, r) \in 0 .. TotalIds - 1 /\ Id(j, q) \in 0 .. TotalIds - 1 /\ TotalIds \in Nat
      BY IdRange, Sizes
    <3> QED BY <3>1
  <2>2. CASE T = "inter"
    BY <1>1, <2>1, <2>2 DEF Base, Instance, Space, Origin
  <2>3. CASE T = "intra"
    <3>1. i[1] = j[1]
      BY <2>3, SameWorkgroup
    <3>2. Base(i[1]) \in Int
      <4>1. i[1] \in Nat /\ X[T] \in Nat
        BY Invocation, Sizes
      <4> QED BY <4>1 DEF Base
    <3>3. Base(i[1]) + Id(i, r) = Base(i[1]) + Id(j, q)
      BY <3>1 DEF Instance
    <3>4. Id(i, r) = Id(j, q)
      BY <2>1, <3>2, <3>3
    <3> QED BY <3>1, <3>4
  <2> QED BY <1>1, <2>2, <2>3
<1>3. Local(i, r, a) = Local(j, q, b) /\ Offset(a) = Offset(b)
  <2>1. CASE a = b
    BY <1>2, <2>1 DEF Local
  <2>2. CASE Params.aliased
    <3>1. Local(i, r, a) = Id(i, r) /\ Local(j, q, b) = Id(j, q)
      BY <2>2, LocalFacts
    <3> QED BY <1>2, <2>2, <3>1, Strides DEF Offset
  <2> QED BY <2>1, <2>2
<1>4. Word(i, r, a) = Word(j, q, b)
  <2>1. Word(i, r, a) = (Origin(i[1]) + Local(i, r, a)) * Params.memStride * 2 + Offset(a)
    BY LocalFacts
  <2>2. Word(j, q, b) = (Origin(j[1]) + Local(j, q, b)) * Params.memStride * 2 + Offset(b)
    BY LocalFacts
  <2> QED BY <1>2, <1>3, <2>1, <2>2
<1> QED BY <1>2, <1>4 DEF Cell

LEMMA CellRange ==
  ASSUME test \in Suite, NEW i \in Invocations, NEW r \in {0, 1}, NEW a \in {"x", "y"}
  PROVE  Space(i[1]) \in Spaces /\ Word(i, r, a) \in Words
<1>1. Space(i[1]) \in Spaces
  BY Invocation DEF Space, Spaces, Workgroups
<1> DEFINE u == Origin(i[1]) + Local(i, r, a)
           ms == Params.memStride
           n == X[T] * Testing[T]
<1>2. u \in 0 .. n - 1 /\ n \in Nat
  <2>1. /\ X[T] \in Nat \ {0} /\ Testing[T] \in Nat \ {0} /\ n \in Nat
        /\ i[1] \in 0 .. Testing[T] - 1 /\ T \in {"inter", "intra"}
        /\ T = "inter" => ~InWorkgroupMemory
        /\ Local(i, r, a) \in 0 .. TotalIds - 1
    BY Sizes, Invocation, InterIsStorage, LocalFacts
  <2>2. CASE T = "inter"
    <3>1. Origin(i[1]) = 0 /\ TotalIds = n
      BY <2>1, <2>2 DEF Origin, Base, TotalIds
    <3> QED BY <2>1, <3>1
  <2>3. CASE T = "intra"
    <3>1. TotalIds = X[T] /\ (Origin(i[1]) = i[1] * X[T] \/ Origin(i[1]) = 0 * X[T])
      <4>1. 0 * X[T] = 0
        BY <2>1
      <4> QED BY <2>3, <4>1 DEF Origin, Base, TotalIds
    <3>2. 0 \in 0 .. Testing[T] - 1
      BY <2>1
    <3> QED BY <2>1, <3>1, <3>2, InRow
  <2> QED BY <2>1, <2>2, <2>3
<1>3. Word(i, r, a) = u * ms * 2 + Offset(a)
  BY LocalFacts
<1>4. ms \in {1, 2, 4} /\ (Offset(a) = 0 \/ Offset(a) = ms)
  BY Strides DEF Offset
<1>5. Words = 0 .. n * 2 * ms - 1
  BY DEF Words
<1> HIDE DEF u, ms, n
<1>6. Word(i, r, a) \in Words
  BY <1>2, <1>3, <1>4, <1>5
<1> QED BY <1>1, <1>6

(* Where the result shader looks for them. *)
ResultWord(k, at) == IF at = "x" THEN XWord(0, k) ELSE YWord(ResultBase(k), k - ResultBase(k))

LEMMA ResultWords ==
  ASSUME test \in Suite, NEW i \in Invocations, NEW r \in {0, 1}, NEW a \in {"x", "y"}
  PROVE  /\ CopyTo(i, <<r, a>>) = (Base(i[1]) + Local(i, r, a)) * Params.memStride * 2 + Offset(a)
         /\ CopyTo(i, <<r, a>>) = ResultWord(Instance(i, r), a)
         /\ ~InWorkgroupMemory => CopyTo(i, <<r, a>>) = Word(i, r, a)
<1> DEFINE ms == Params.memStride
           loc == Local(i, r, a)
           k == Instance(i, r)
<1>1. /\ X[T] \in Nat \ {0} /\ i[1] \in Nat /\ T \in {"inter", "intra"}
      /\ T = "inter" => ~InWorkgroupMemory
      /\ loc \in Nat /\ Word(i, r, a) = (Origin(i[1]) + loc) * ms * 2 + Offset(a)
      /\ ms \in {1, 2, 4} /\ Offset(a) \in Nat
  <2>1. Offset(a) \in Nat
    BY Strides DEF Offset
  <2>2. loc \in 0 .. TotalIds - 1 /\ TotalIds \in Nat
    BY LocalFacts, Sizes
  <2> QED BY <2>1, <2>2, Sizes, Invocation, InterIsStorage, LocalFacts, Strides
<1>2. CopyTo(i, <<r, a>>) = (Base(i[1]) + loc) * ms * 2 + Offset(a)
  <2>1. <<r, a>>[1] = r /\ <<r, a>>[2] = a
    OBVIOUS
  <2>2. CopyTo(i, <<r, a>>) = Word(i, r, a) + (IF InWorkgroupMemory THEN i[1] * X[T] * ms * 2 ELSE 0)
    BY <2>1 DEF CopyTo
  <2>3. CASE InWorkgroupMemory
    <3> DEFINE base == i[1] * X[T]
    <3>1. base \in Nat
      BY <1>1
    <3>2. Base(i[1]) = base /\ Origin(i[1]) = 0
      BY <1>1, <2>3 DEF Base, Origin
    <3>3. CopyTo(i, <<r, a>>) = (0 + loc) * ms * 2 + Offset(a) + base * ms * 2
      BY <1>1, <2>2, <2>3, <3>2
    <3> HIDE DEF base, loc, ms
    <3>4. (0 + loc) * ms * 2 + Offset(a) + base * ms * 2 = (base + loc) * ms * 2 + Offset(a)
      BY <1>1, <3>1
    <3> QED BY <3>2, <3>3, <3>4
  <2>4. CASE ~InWorkgroupMemory
    <3>1. Origin(i[1]) = Base(i[1])
      BY <2>4 DEF Origin
    <3>2. (Origin(i[1]) + loc) * ms * 2 + Offset(a) \in Nat
      <4>1. Origin(i[1]) \in Nat
        BY LocalFacts
      <4> HIDE DEF loc, ms
      <4> QED BY <1>1, <4>1
    <3>3. CopyTo(i, <<r, a>>) = Word(i, r, a)
      BY <1>1, <2>2, <2>4, <3>2
    <3> QED BY <1>1, <3>1, <3>3
  <2> QED BY <2>3, <2>4
<1>3. ~InWorkgroupMemory => CopyTo(i, <<r, a>>) = Word(i, r, a)
  <2>1. ~InWorkgroupMemory => Origin(i[1]) = Base(i[1])
    BY DEF Origin
  <2> QED BY <1>1, <1>2, <2>1
<1>4. k = Base(i[1]) + Id(i, r)
  BY DEF Instance
<1>5. Base(i[1]) \in Nat /\ Id(i, r) \in Nat
  <2>1. Id(i, r) \in 0 .. TotalIds - 1 /\ TotalIds \in Nat
    BY IdRange, Sizes
  <2>2. i[1] * X[T] \in Nat
    BY <1>1
  <2> QED BY <2>1, <2>2 DEF Base
<1>6. ResultBase(k) = Base(i[1])
  <2>1. CASE T = "inter"
    BY <2>1 DEF ResultBase, Base
  <2>2. CASE T = "intra"
    <3>1. Id(i, r) \in 0 .. X[T] - 1
      BY <2>2, IdRange
    <3>2. Base(i[1]) = i[1] * X[T]
      BY <2>2 DEF Base
    <3>3. k \div X[T] = i[1]
      <4>1. (i[1] * X[T] + Id(i, r)) \div X[T] = i[1]
        BY <1>1, <3>1, RowDiv, Zenon
      <4> QED BY <1>4, <3>2, <4>1, Zenon
    <3> QED BY <2>2, <3>2, <3>3 DEF ResultBase
  <2> QED BY <1>1, <2>1, <2>2
<1>7. ResultWord(k, a) = (Base(i[1]) + loc) * ms * 2 + Offset(a)
  <2>1. CASE a = "x"
    <3>1. loc = Id(i, r) /\ Offset(a) = 0
      BY <2>1 DEF Local, Offset
    <3>2. ResultWord(k, a) = (0 + k) * ms * 2
      BY <2>1 DEF ResultWord, XWord
    <3>3. k \in Nat /\ (0 + k) * ms * 2 = (Base(i[1]) + Id(i, r)) * ms * 2 + 0
      <4> HIDE DEF ms, k
      <4> QED BY <1>1, <1>4, <1>5
    <3> QED BY <3>1, <3>2, <3>3
  <2>2. CASE a # "x"
    <3>1. loc = permute_id(Id(i, r), SecondFactor, TotalIds) /\ Offset(a) = Shift
      BY <2>2 DEF Local, Offset
    <3>2. k - ResultBase(k) = Id(i, r)
      BY <1>4, <1>5, <1>6
    <3> QED BY <1>6, <2>2, <3>1, <3>2 DEF ResultWord, YWord
  <2> QED BY <2>1, <2>2
<1> QED BY <1>2, <1>3, <1>7

(* No two cells are copied to the same place. *)
LEMMA CopiesApart ==
  ASSUME test \in Suite, T = "intra", NEW i \in Invocations, NEW j \in Invocations,
         NEW r \in {0, 1}, NEW q \in {0, 1}, NEW a \in {"x", "y"}, NEW b \in {"x", "y"},
         CopyTo(i, <<r, a>>) = CopyTo(j, <<q, b>>)
  PROVE  Instance(i, r) = Instance(j, q) /\ (a = b \/ Params.aliased)
<1> DEFINE u == Base(i[1]) + Local(i, r, a)
           v == Base(j[1]) + Local(j, q, b)
           ms == Params.memStride
<1>1. u * ms * 2 + Offset(a) = v * ms * 2 + Offset(b)
  <2>1. CopyTo(i, <<r, a>>) = u * ms * 2 + Offset(a)
    BY ResultWords, Zenon
  <2>2. CopyTo(j, <<q, b>>) = v * ms * 2 + Offset(b)
    BY ResultWords, Zenon
  <2> QED BY <2>1, <2>2, Zenon
<1>2. /\ Local(i, r, a) \in 0 .. X[T] - 1 /\ Local(j, q, b) \in 0 .. X[T] - 1
      /\ X[T] \in Nat /\ i[1] \in Nat /\ j[1] \in Nat
      /\ Base(i[1]) = i[1] * X[T] /\ Base(j[1]) = j[1] * X[T]
  <2>1. TotalIds = X[T]
    BY DEF TotalIds
  <2> QED BY <2>1, LocalFacts, Sizes, Invocation DEF Base
<1>3. u \in Nat /\ v \in Nat
  BY <1>2
<1>4. u = v /\ (a = b \/ Params.aliased)
  <2> HIDE DEF u, v
  <2>1. CASE Params.aliased
    <3>1. ms = 1 /\ Offset(a) = 0 /\ Offset(b) = 0
      BY <2>1, Strides DEF Offset
    <3>2. u * 1 * 2 + 0 = v * 1 * 2 + 0
      BY <1>1, <3>1
    <3> QED BY <1>3, <2>1, <3>2
  <2>2. CASE ~Params.aliased
    <3>1. ms \in {1, 2, 4} /\ Offset(a) = (IF a = "x" THEN 0 ELSE ms) /\ Offset(b) = IF b = "x" THEN 0 ELSE ms
      BY <2>2, Strides DEF Offset
    <3> QED BY <1>1, <1>3, <3>1
  <2> QED BY <2>1, <2>2
<1> DEFINE x == X[T]
           m == Local(i, r, a)
           l == Local(j, q, b)
           w == i[1]
           z == j[1]
<1>5. w \in Nat /\ z \in Nat /\ x \in Nat /\ m \in 0 .. x - 1 /\ l \in 0 .. x - 1 /\ w * x + m = z * x + l
  BY <1>2, <1>4
<1>6. w = z /\ m = l
  <2> HIDE DEF x, m, l, w, z
  <2> QED BY <1>5, OneRow
<1>7. Cell(i, r, a) = Cell(j, q, b)
  <2>1. Word(i, r, a) = (Origin(i[1]) + Local(i, r, a)) * Params.memStride * 2 + Offset(a)
    BY LocalFacts
  <2>2. Word(j, q, b) = (Origin(j[1]) + Local(j, q, b)) * Params.memStride * 2 + Offset(b)
    BY LocalFacts
  <2>3. Offset(a) = Offset(b)
    BY <1>4, Strides DEF Offset
  <2> QED BY <1>6, <2>1, <2>2, <2>3 DEF Cell
<1> QED BY <1>4, <1>7, CellsApart

-----------------------------------------------------------------------------
(* The codes of the tests. *)

Names == {"message_passing", "store", "load_buffer", "read", "store_buffer", "two_plus_two", "corr", "coww",
          "cowr", "corw1", "corw2", "atomicity", "rw", "wr", "ww"}

AllLitmuses == {MessagePassing, StoreTest, LoadBuffer, ReadTest, StoreBuffer, TwoPlusTwoWrite, CoRR, CoWW, CoWR,
                CoRW1, CoRW2, Atomicity, BarrierLoadStore, BarrierStoreLoad, BarrierStoreStore}

LEMMA NamesOfTests == DOMAIN Litmuses = Names
BY DEF Litmuses, Names

LEMMA LitmusOfName ==
  ASSUME NEW n \in DOMAIN Litmuses
  PROVE  Litmuses[n] \in AllLitmuses
BY NamesOfTests DEF Litmuses, Names, AllLitmuses

Instruction == [role : {0, 1, 2}, op : {"store", "load", "add0", "barrier"}, at : {"x", "y", "none"},
                val : {0, 1, 2}, reg : {"r0", "r1", "none"}]

(* An access is to a location; a store stores something, the others load. *)
Proper(c) ==
  /\ c.role \in {0, 1} /\ c.at \in {"x", "y"}
  /\ c.op = "store" => c.val \in {1, 2}
  /\ c.op # "store" => c.reg \in {"r0", "r1"}

Shape(l) ==
  /\ l.code \in Seq(Instruction)
  /\ \A c \in DOMAIN l.code : l.code[c].op # "barrier" => Proper(l.code[c])
  /\ l.sees \in Seq({"r0", "r1", "mx", "my"})
  /\ l.back \subseteq {0, 1} \X {"x", "y"}
  /\ l.parted \in BOOLEAN

LEMMA CodeShapes == \A l \in AllLitmuses : Shape(l)
<1> USE DEF Shape, Instruction, Proper, Litmus, Store, Load, Add0, Barrier
<1>1. Shape(MessagePassing)
  BY DEF MessagePassing
<1>2. Shape(StoreTest)
  BY DEF StoreTest
<1>3. Shape(LoadBuffer)
  BY DEF LoadBuffer
<1>4. Shape(ReadTest)
  BY DEF ReadTest
<1>5. Shape(StoreBuffer)
  BY DEF StoreBuffer
<1>6. Shape(TwoPlusTwoWrite)
  BY DEF TwoPlusTwoWrite
<1>7. Shape(CoRR)
  BY DEF CoRR
<1>8. Shape(CoWW)
  BY DEF CoWW
<1>9. Shape(CoWR)
  BY DEF CoWR
<1>10. Shape(CoRW1)
  BY DEF CoRW1
<1>11. Shape(CoRW2)
  BY DEF CoRW2
<1>12. Shape(Atomicity)
  BY DEF Atomicity
<1>13. Shape(BarrierLoadStore)
  BY DEF BarrierLoadStore
<1>14. Shape(BarrierStoreLoad)
  BY DEF BarrierStoreLoad
<1>15. Shape(BarrierStoreStore)
  BY DEF BarrierStoreStore
<1> HIDE DEF Shape, Instruction, Proper, Litmus, Store, Load, Add0, Barrier
<1> QED BY <1>1, <1>2, <1>3, <1>4, <1>5, <1>6, <1>7, <1>8, <1>9, <1>10, <1>11, <1>12, <1>13, <1>14, <1>15
        DEF AllLitmuses

LEMMA Codes ==
  ASSUME NEW n \in DOMAIN Litmuses
  PROVE  /\ Shape(Litmuses[n])
         /\ Len(Litmuses[n].code) \in Nat
         /\ DOMAIN Litmuses[n].code = 1 .. Len(Litmuses[n].code)
         /\ Ops(n) \subseteq 1 .. Len(Litmuses[n].code)
         /\ \A c \in Ops(n) : Proper(Litmuses[n].code[c]) /\ Litmuses[n].code[c] \in Instruction
<1>1. Shape(Litmuses[n])
  BY LitmusOfName, CodeShapes
<1>2. Litmuses[n].code \in Seq(Instruction)
  BY <1>1 DEF Shape
<1> DEFINE code == Litmuses[n].code
<1>3. Len(code) \in Nat /\ DOMAIN code = 1 .. Len(code) /\ \A c \in DOMAIN code : code[c] \in Instruction
  <2> HIDE DEF code
  <2> QED BY <1>2 DEF code
<1>4. Ops(n) = {c \in DOMAIN code : code[c].op # "barrier"}
  BY DEF Ops
<1> HIDE DEF code
<1>5. \A c \in DOMAIN code : code[c].op # "barrier" => Proper(code[c])
  BY <1>1 DEF Shape, code
<1> QED BY <1>1, <1>3, <1>4, <1>5 DEF code

-----------------------------------------------------------------------------
(* Induction, for sets. *)

LEMMA Least ==
  ASSUME NEW S \in SUBSET Nat, S # {}
  PROVE  \E k \in S : \A m \in S : k <= m
<1>1. PICK k \in S : \A m \in S : ~(<<m, k>> \in OpToRel(<, Nat))
  BY NatLessThanWellFounded, WFMin, Zenon
<1>2. ASSUME NEW m \in S, m < k PROVE FALSE
  <2>1. <<m, k>> \in Nat \X Nat
    OBVIOUS
  <2>2. <<m, k>>[1] < <<m, k>>[2]
    BY <1>2
  <2>3. <<m, k>> \in {ss \in Nat \X Nat : ss[1] < ss[2]}
    BY <2>1, <2>2, Zenon
  <2> QED BY <1>1, <2>3, Zenon DEF OpToRel
<1>3. k \in Nat /\ \A m \in S : m \in Nat
  OBVIOUS
<1> QED BY <1>2, <1>3

LEMMA Induction ==
  ASSUME NEW S, 0 \in S, \A m \in Nat : m \in S => m + 1 \in S
  PROVE  \A m \in Nat : m \in S
<1> SUFFICES ASSUME Nat \ S # {} PROVE FALSE
  OBVIOUS
<1>1. PICK k \in Nat \ S : \A m \in Nat \ S : k <= m
  BY Least
<1>2. k # 0 /\ k - 1 \in Nat
  BY <1>1
<1>3. k - 1 \in S
  BY <1>1, <1>2
<1> QED BY <1>1, <1>2, <1>3

-----------------------------------------------------------------------------
(* What the interleavings of a test can reach. *)

State(x, y, a, b) == [x |-> x, y |-> y, r0 |-> a, r1 |-> b]
Fresh == State(0, 0, 0, 0)

Reach(f, n, k) ==
  f = [m \in 0 .. k |-> IF m = 0 THEN {<<{}, Fresh>>} ELSE UNION {Extensions(n, p) : p \in f[m - 1]}]

LEMMA ReachExists ==
  ASSUME NEW n
  PROVE  \A k \in Nat : \E f : Reach(f, n, k)
<1> DEFINE A == {k \in Nat : \E f : Reach(f, n, k)}
<1>1. 0 \in A
  <2> DEFINE f == [m \in 0 .. 0 |-> {<<{}, Fresh>>}]
  <2>1. Reach(f, n, 0)
    BY DEF Reach
  <2> QED BY <2>1
<1>2. ASSUME NEW k \in Nat, k \in A PROVE k + 1 \in A
  <2>1. PICK f : Reach(f, n, k)
    BY <1>2
  <2> DEFINE next == UNION {Extensions(n, p) : p \in f[k]}
             g == [m \in 0 .. k + 1 |-> IF m = k + 1 THEN next ELSE f[m]]
             h == [m \in 0 .. k + 1 |-> IF m = 0 THEN {<<{}, Fresh>>}
                                        ELSE UNION {Extensions(n, p) : p \in g[m - 1]}]
  <2>2. ASSUME NEW m \in 0 .. k + 1 PROVE g[m] = h[m]
    <3>1. CASE m = k + 1
      <4>1. g[m] = next /\ g[m - 1] = f[k] /\ m # 0
        BY <3>1
      <4> QED BY <4>1, <3>1
    <3>2. CASE m # k + 1
      <4>1. m \in 0 .. k /\ g[m] = f[m]
        BY <3>2
      <4>2. f[m] = IF m = 0 THEN {<<{}, Fresh>>} ELSE UNION {Extensions(n, p) : p \in f[m - 1]}
        BY <2>1, <4>1 DEF Reach
      <4>3. m # 0 => g[m - 1] = f[m - 1]
        BY <4>1
      <4> QED BY <4>1, <4>2, <4>3
    <3> QED BY <3>1, <3>2
  <2>3. g = h
    <3>1. g = [m \in 0 .. k + 1 |-> g[m]] /\ h = [m \in 0 .. k + 1 |-> h[m]]
      OBVIOUS
    <3> HIDE DEF g, h
    <3> QED BY <3>1, <2>2
  <2>4. Reach(g, n, k + 1)
    <3> HIDE DEF g
    <3> QED BY <2>3, Zenon DEF Reach
  <2> HIDE DEF g, h, next
  <2> QED BY <2>4
<1>3. \A k \in Nat : k \in A
  <2> HIDE DEF A
  <2> QED BY <1>1, <1>2, Induction
<1> QED BY <1>3

LEMMA PartialReached ==
  ASSUME NEW n \in DOMAIN Litmuses
  PROVE  \E f : /\ Reach(f, n, Len(Litmuses[n].code))
                /\ Partial(n) = UNION {f[m] : m \in 0 .. Len(Litmuses[n].code)}
<1> DEFINE k == Len(Litmuses[n].code)
           F == CHOOSE f : Reach(f, n, k)
<1>1. \E f : Reach(f, n, k)
  BY Codes, ReachExists
<1>2. Reach(F, n, k)
  BY <1>1, Zenon
<1>3. Partial(n) = UNION {F[m] : m \in 0 .. k}
  BY Zenon DEF Partial, Reach, Fresh, State
<1> QED BY <1>2, <1>3, Zenon

(* What has been performed is that many accesses. *)
LEMMA ReachCounts ==
  ASSUME NEW n \in DOMAIN Litmuses, NEW f, NEW k \in Nat, Reach(f, n, k)
  PROVE  \A m \in 0 .. k : \A p \in f[m] :
           p = <<p[1], p[2]>> /\ p[1] \subseteq Ops(n) /\ IsFiniteSet(p[1]) /\ Cardinality(p[1]) = m
<1> DEFINE Good(m) == m \in 0 .. k => \A p \in f[m] :
             p = <<p[1], p[2]>> /\ p[1] \subseteq Ops(n) /\ IsFiniteSet(p[1]) /\ Cardinality(p[1]) = m
           A == {m \in Nat : Good(m)}
<1>1. Good(0)
  <2>1. f[0] = {<<{}, Fresh>>}
    BY DEF Reach
  <2> QED BY <2>1, FS_EmptySet
<1>2. ASSUME NEW m \in Nat, Good(m) PROVE Good(m + 1)
  <2> SUFFICES ASSUME m + 1 \in 0 .. k, NEW q \in f[m + 1]
               PROVE  q = <<q[1], q[2]>> /\ q[1] \subseteq Ops(n) /\ IsFiniteSet(q[1]) /\ Cardinality(q[1]) = m + 1
    OBVIOUS
  <2>0. m + 1 # 0 /\ (m + 1) - 1 = m /\ m \in 0 .. k
    OBVIOUS
  <2>1. f[m + 1] = UNION {Extensions(n, p) : p \in f[m]} /\ m \in 0 .. k
    BY <2>0 DEF Reach
  <2>2. PICK p \in f[m] : q \in Extensions(n, p)
    BY <2>1
  <2>3. PICK c \in Ops(n) \ p[1] : q = <<p[1] \cup {c}, After(n, p[2], Litmuses[n].code[c])>>
    BY <2>2 DEF Extensions
  <2>4. p[1] \subseteq Ops(n) /\ IsFiniteSet(p[1]) /\ Cardinality(p[1]) = m
    BY <1>2, <2>1
  <2>5. q[1] = p[1] \cup {c} /\ q = <<q[1], q[2]>>
    BY <2>3
  <2> QED BY <2>3, <2>4, <2>5, FS_AddElement
<1>3. \A m \in Nat : m \in A
  <2> HIDE DEF Good
  <2>1. 0 \in A /\ \A m \in Nat : m \in A => m + 1 \in A
    BY <1>1, <1>2
  <2> HIDE DEF A
  <2> QED BY <2>1, Induction
<1> QED BY <1>3

LEMMA PartialStarts ==
  ASSUME NEW n \in DOMAIN Litmuses
  PROVE  <<{}, Fresh>> \in Partial(n)
<1>1. PICK f : Reach(f, n, Len(Litmuses[n].code))
               /\ Partial(n) = UNION {f[m] : m \in 0 .. Len(Litmuses[n].code)}
  BY PartialReached
<1>2. 0 \in 0 .. Len(Litmuses[n].code)
  BY Codes
<1>3. f[0] = {<<{}, Fresh>>}
  BY <1>1, <1>2 DEF Reach
<1> QED BY <1>1, <1>2, <1>3

LEMMA PartialGoesOn ==
  ASSUME NEW n \in DOMAIN Litmuses, NEW done, NEW s, <<done, s>> \in Partial(n),
         NEW c \in Ops(n) \ done, Comes(n, c, done)
  PROVE  <<done \cup {c}, After(n, s, Litmuses[n].code[c])>> \in Partial(n)
<1> DEFINE k == Len(Litmuses[n].code)
           p == <<done, s>>
           q == <<done \cup {c}, After(n, s, Litmuses[n].code[c])>>
<1>0. k \in Nat /\ Ops(n) \subseteq 1 .. k
  BY Codes
<1>1. PICK f : Reach(f, n, k) /\ Partial(n) = UNION {f[m] : m \in 0 .. k}
  BY PartialReached
<1>2. PICK m \in 0 .. k : p \in f[m]
  BY <1>1
<1>3. p[1] = done /\ p[2] = s
  OBVIOUS
<1>4. done \subseteq Ops(n) /\ IsFiniteSet(done) /\ Cardinality(done) = m
  <2> HIDE DEF p, k
  <2> QED BY <1>0, <1>1, <1>2, <1>3, ReachCounts
<1>5. m + 1 \in 0 .. k
  <2>1. IsFiniteSet(1 .. k) /\ Cardinality(1 .. k) = k
    <3> HIDE DEF k
    <3> QED BY <1>0, FS_Interval
  <2>2. done \cup {c} \subseteq 1 .. k
    BY <1>0, <1>4
  <2>3. Cardinality(done \cup {c}) = m + 1
    BY <1>4, FS_AddElement
  <2>4. Cardinality(done \cup {c}) <= k
    BY <2>1, <2>2, FS_Subset
  <2> QED BY <1>0, <1>2, <2>3, <2>4
<1>6. q \in Extensions(n, p)
  BY <1>3 DEF Extensions
<1>7. f[m + 1] = UNION {Extensions(n, pp) : pp \in f[m]}
  <2> HIDE DEF k
  <2>1. m + 1 # 0 /\ (m + 1) - 1 = m
    BY <1>0, <1>2
  <2> QED BY <1>1, <1>5, <2>1 DEF Reach
<1>8. q \in f[m + 1]
  <2> HIDE DEF p, q
  <2> QED BY <1>2, <1>6, <1>7
<1> HIDE DEF q, k
<1>9. q \in Partial(n)
  BY <1>1, <1>5, <1>8
<1> QED BY <1>9 DEF q

(* A set that the start is in and extensions do not leave has them all. *)
LEMMA PartialWithin ==
  ASSUME NEW n \in DOMAIN Litmuses, NEW P, <<{}, Fresh>> \in P,
         \A p \in P : Extensions(n, p) \subseteq P
  PROVE  Partial(n) \subseteq P
<1> DEFINE k == Len(Litmuses[n].code)
<1>1. PICK f : Reach(f, n, k) /\ Partial(n) = UNION {f[m] : m \in 0 .. k}
  BY PartialReached
<1>2. k \in Nat
  BY Codes
<1> HIDE DEF k
<1> DEFINE Good(m) == m \in 0 .. k => f[m] \subseteq P
           A == {m \in Nat : Good(m)}
<1>3. Good(0)
  <2>1. f[0] = {<<{}, Fresh>>}
    BY <1>1, <1>2 DEF Reach
  <2> QED BY <2>1
<1>4. ASSUME NEW m \in Nat, Good(m) PROVE Good(m + 1)
  <2> SUFFICES ASSUME m + 1 \in 0 .. k PROVE f[m + 1] \subseteq P
    OBVIOUS
  <2>0. m + 1 # 0 /\ (m + 1) - 1 = m /\ m \in 0 .. k
    BY <1>2
  <2>1. f[m + 1] = UNION {Extensions(n, p) : p \in f[m]} /\ m \in 0 .. k
    BY <1>1, <1>2, <2>0 DEF Reach
  <2> QED BY <1>4, <2>1
<1>5. \A m \in Nat : m \in A
  <2> HIDE DEF Good
  <2>1. 0 \in A /\ \A m \in Nat : m \in A => m + 1 \in A
    BY <1>3, <1>4
  <2> HIDE DEF A
  <2> QED BY <2>1, Induction
<1> QED BY <1>1, <1>2, <1>5

-----------------------------------------------------------------------------
(* The invariant. *)

TypeOK ==
  /\ test \in Suite /\ gpu \in Gpus
  /\ pc \in {"host", "test", "check", "done"}
  /\ verdict \in {"running", "pass", "fail"} /\ strange \in BOOLEAN
  /\ iteration \in Nat /\ num \in Nat
  /\ DOMAIN shuffled = 0 .. Most[T] - 1
  /\ stage \in [Invocations -> {"idle", "enter", "spin", "run", "end"}]
  /\ performed \in [Invocations -> SUBSET Accesses]
  /\ memory \in [Spaces -> [Words -> Nat]]
  /\ results \in [Instances -> [r0 : Nat, r1 : Nat]]
  /\ counts \in [DOMAIN L.counted -> Nat]

(* Every testing workgroup is dispatched. *)
EveryoneIsShuffled ==
  pc = "test" => \A w \in Workgroups : \E p \in 0 .. num - 1 : shuffled[p] = w

(* What an invocation copied back is what its instances still have. *)
CopiesAreTrue ==
  \A i \in Invocations : stage[i] = "end" =>
    /\ performed[i] = Accesses
    /\ CopiesBack => /\ \A j \in Invocations : j[1] = i[1] => performed[j] = Accesses
                     /\ \A b \in L.back : memory[-1][CopyTo(i, b)] = memory[Space(i[1])][Word(i, b[1], b[2])]

(* The accesses an instance has seen, of either role, and what they left. *)
DoneOf(k) ==
  {c \in Ops(test.name) : \E i \in Invocations : Instance(i, L.code[c].role) = k /\ c \in performed[i]}

LeftBy(i) ==
  State(memory[Space(i[1])][Word(i, 0, "x")],
        IF Params.aliased THEN 0 ELSE memory[Space(i[1])][Word(i, 0, "y")],
        results[Instance(i, 0)].r0,
        results[Instance(i, 0)].r1)

(* On a conforming GPU every instance is somewhere in an interleaving. *)
Interleaved ==
  gpu = "conforming" =>
    \A i \in Invocations : <<DoneOf(Instance(i, 0)), LeftBy(i)>> \in Partial(test.name)

(* Every iteration counts from nothing, and a verdict ends the test. *)
CountsAreFresh ==
  /\ pc = "test" => \A b \in DOMAIN counts : counts[b] = 0
  /\ verdict # "running" => pc = "done"

(* The values there are to store in a location or to load in a register. *)
Stored(n, at) == {0} \cup {Litmuses[n].code[c].val : c \in {c \in Ops(n) :
                    Litmuses[n].code[c].op = "store" /\ Where(n, Litmuses[n].code[c].at) = Where(n, at)}}
Loaded(n, d) == {0} \cup UNION {Stored(n, Litmuses[n].code[c].at) : c \in {c \in Ops(n) :
                    Litmuses[n].code[c].op # "store" /\ Litmuses[n].code[c].reg = d}}
Tearable(n) == \E c \in Ops(n) : Litmuses[n].code[c].op = "add0"

(* On any GPU, a location has a value stored in it and a register one       *)
(* loaded; what has been stored is not undone.                              *)
ValuesAreStored ==
  /\ \A i \in Invocations, at \in {"x", "y"} :
       memory[Space(i[1])][Word(i, 0, at)] \in Stored(test.name, at)
  /\ \A k \in Instances : /\ results[k].r0 \in Loaded(test.name, "r0")
                          /\ results[k].r1 \in Loaded(test.name, "r1")
StoresAreKept ==
  ~Tearable(test.name) => \A i \in Invocations : \A c \in performed[i] :
       Program[c].op = "store" => memory[Space(i[1])][Word(i, Program[c].role, Program[c].at)] # 0

NoneIsStrange == gpu = "conforming" => ~strange

-----------------------------------------------------------------------------
(* What a GPU performs is the code of the test, an atomic torn or not. *)

LEMMA Performs ==
  ASSUME test \in Suite, gpu \in Gpus
  PROVE  /\ Accesses \subseteq Nat
         /\ gpu # "torn" \/ ~Tearable(test.name) => Program = L.code /\ Accesses = Ops(test.name)
         /\ \A c \in Accesses : \E d \in Ops(test.name) :
              /\ Program[c].role = L.code[d].role /\ Program[c].at = L.code[d].at
              /\ Program[c].val = L.code[d].val /\ Program[c].reg = L.code[d].reg
              /\ \/ Program[c].op = L.code[d].op
                 \/ L.code[d].op = "add0" /\ Program[c].op \in {"load", "putback"}
<1> DEFINE n == test.name
           code == L.code
<1>1. Program = IF gpu = "torn" THEN Torn(code) ELSE code
  BY TestFacts DEF Program, Programs, L
<1>2. /\ Len(code) \in Nat /\ DOMAIN code = 1 .. Len(code)
      /\ \A c \in DOMAIN code : code[c] \in Instruction
  <2>1. code \in Seq(Instruction)
    BY TestFacts, Codes DEF L, Shape
  <2> HIDE DEF code
  <2> QED BY <2>1
<1>3. Ops(n) = {c \in DOMAIN code : code[c].op # "barrier"}
  BY DEF Ops, L
<1>4. CASE Program = code
  <2>1. Accesses = Ops(n)
    BY <1>3, <1>4 DEF Accesses
  <2> HIDE DEF n, code
  <2>2. Accesses \subseteq Nat
    BY <2>1, <1>2, <1>3
  <2>3. ASSUME NEW c \in Accesses
        PROVE  \E d \in Ops(n) :
              /\ Program[c].role = code[d].role /\ Program[c].at = code[d].at
              /\ Program[c].val = code[d].val /\ Program[c].reg = code[d].reg
              /\ \/ Program[c].op = code[d].op
                 \/ code[d].op = "add0" /\ Program[c].op \in {"load", "putback"}
    BY <1>4, <2>1
  <2> QED BY <1>4, <2>1, <2>2, <2>3 DEF n, code
<1>5. CASE Program # code
  <2> DEFINE adds == {k \in DOMAIN code : code[k].op = "add0"}
             add == CHOOSE k \in adds : TRUE
             half(k) == IF k = add THEN [code[add] EXCEPT !.op = "load"]
                        ELSE IF k = add + 1 THEN [code[add] EXCEPT !.op = "putback"]
                        ELSE IF k < add THEN code[k] ELSE code[k - 1]
  <2>1. gpu = "torn" /\ Program = Torn(code)
    BY <1>1, <1>5
  <2>2. Torn(code) = IF adds = {} THEN code ELSE [k \in 1 .. Len(code) + 1 |-> half(k)]
    BY Zenon DEF Torn
  <2>3. adds # {} /\ Program = [k \in 1 .. Len(code) + 1 |-> half(k)]
    <3> HIDE DEF adds, half
    <3> QED BY <1>5, <2>1, <2>2
  <2>4. add \in adds
    <3> HIDE DEF adds
    <3> QED BY <2>3, Zenon
  <2>5. add \in DOMAIN code /\ code[add].op = "add0"
    <3> HIDE DEF add
    <3> QED BY <2>4
  <2>6. add \in Ops(n) /\ Tearable(n)
    <3> HIDE DEF add, code
    <3> QED BY <1>3, <2>5 DEF Tearable, code, L
  <2> HIDE DEF adds, add, code, n
  <2>7. Accesses \subseteq Nat
    BY <1>2, <2>3 DEF Accesses
  <2>8. ASSUME NEW c \in Accesses
        PROVE  \E d \in Ops(n) :
              /\ Program[c].role = code[d].role /\ Program[c].at = code[d].at
              /\ Program[c].val = code[d].val /\ Program[c].reg = code[d].reg
              /\ \/ Program[c].op = code[d].op
                 \/ code[d].op = "add0" /\ Program[c].op \in {"load", "putback"}
    <3>1. c \in 1 .. Len(code) + 1 /\ Program[c] = half(c) /\ Program[c].op # "barrier"
      BY <2>3 DEF Accesses
    <3>2. code[add] \in Instruction /\ add \in 1 .. Len(code)
      BY <1>2, <2>5
    <3>3. CASE c = add
      <4>1. Program[c] = [code[add] EXCEPT !.op = "load"]
        BY <3>1, <3>3
      <4> QED BY <4>1, <3>2, <2>5, <2>6 DEF Instruction
    <3>4. CASE c = add + 1
      <4>1. Program[c] = [code[add] EXCEPT !.op = "putback"]
        BY <3>1, <3>2, <3>4
      <4> QED BY <4>1, <3>2, <2>5, <2>6 DEF Instruction
    <3>5. CASE c < add
      <4>1. Program[c] = code[c] /\ c \in DOMAIN code
        BY <3>1, <3>2, <3>5, <1>2
      <4> QED BY <4>1, <3>1, <1>3
    <3>6. CASE c > add + 1
      <4>1. Program[c] = code[c - 1] /\ c - 1 \in DOMAIN code
        BY <3>1, <3>2, <3>6, <1>2
      <4> QED BY <4>1, <3>1, <1>3
    <3> QED BY <3>1, <3>2, <3>3, <3>4, <3>5, <3>6
  <2> QED BY <2>1, <2>6, <2>7, <2>8 DEF n, code
<1> QED BY <1>4, <1>5

(* What depends on the test alone stays when the test does. *)
LEMMA TestStays ==
  ASSUME test' = test
  PROVE  /\ T' = T /\ L' = L /\ Params' = Params
         /\ Workgroups' = Workgroups /\ Invocations' = Invocations /\ Instances' = Instances
         /\ Spaces' = Spaces /\ Words' = Words /\ CopiesBack' = CopiesBack
         /\ \A w : Space(w)' = Space(w)
         /\ \A i, r : Instance(i, r)' = Instance(i, r)
         /\ \A i, r, a : Word(i, r, a)' = Word(i, r, a)
         /\ \A i, b : CopyTo(i, b)' = CopyTo(i, b)
         /\ gpu' = gpu => Program' = Program /\ Accesses' = Accesses
<1> USE DEF T, L, Params, Workgroups, InWorkgroupMemory
<1>1. T' = T /\ L' = L /\ Params' = Params /\ Workgroups' = Workgroups /\ InWorkgroupMemory' = InWorkgroupMemory
  OBVIOUS
<1>2. Invocations' = Invocations /\ Instances' = Instances
  BY DEF Invocations, Instances
<1>3. Spaces' = Spaces /\ Words' = Words /\ \A w : Space(w)' = Space(w)
  BY DEF Spaces, Words, Space
<1>4. CopiesBack' = CopiesBack
  BY DEF CopiesBack, Space
<1>5. \A i, r : Id(i, r)' = Id(i, r)
  BY DEF Id
<1>6. \A w : Base(w)' = Base(w)
  BY DEF Base
<1>7. \A i, r : Instance(i, r)' = Instance(i, r)
  BY <1>5, <1>6 DEF Instance
<1>8. \A i, r, a : Word(i, r, a)' = Word(i, r, a)
  BY <1>5, <1>6 DEF Word, XWord, YWord, SecondFactor, TotalIds, Shift
<1>9. \A i, b : CopyTo(i, b)' = CopyTo(i, b)
  BY <1>8 DEF CopyTo
<1>10. gpu' = gpu => Program' = Program /\ Accesses' = Accesses
  BY DEF Program, Accesses
<1> QED BY <1>1, <1>2, <1>3, <1>4, <1>7, <1>8, <1>9, <1>10

-----------------------------------------------------------------------------
(* The types. *)

Regs == [r0 : Nat, r1 : Nat]

LEMMA PutReg ==
  ASSUME NEW r \in Regs, NEW d \in {"r0", "r1"}, NEW v \in Nat
  PROVE  /\ r[d] \in Nat /\ [r EXCEPT ![d] = v] \in Regs
         /\ [r EXCEPT ![d] = v].r0 = IF d = "r0" THEN v ELSE r.r0
         /\ [r EXCEPT ![d] = v].r1 = IF d = "r1" THEN v ELSE r.r1
<1>1. CASE d = "r0"
  BY <1>1 DEF Regs
<1>2. CASE d = "r1"
  BY <1>2 DEF Regs
<1> QED BY <1>1, <1>2

LEMMA PutTwo ==
  ASSUME NEW S, NEW W, NEW m \in [S -> [W -> Nat]], NEW s \in S, NEW w \in W, NEW v \in Nat
  PROVE  /\ [m EXCEPT ![s][w] = v] \in [S -> [W -> Nat]]
         /\ \A s2 \in S, w2 \in W :
              [m EXCEPT ![s][w] = v][s2][w2] = IF s2 = s /\ w2 = w THEN v ELSE m[s2][w2]
OBVIOUS

(* The instruction performed: where it is and which register it has. *)
LEMMA Performable ==
  ASSUME test \in Suite, gpu \in Gpus, NEW k \in Accesses
  PROVE  /\ Program[k].role \in {0, 1} /\ Program[k].at \in {"x", "y"}
         /\ Program[k].op \in {"store", "load", "add0", "putback"}
         /\ Program[k].op = "store" => Program[k].val \in {1, 2}
         /\ Program[k].op # "store" => Program[k].reg \in {"r0", "r1"}
<1>1. PICK d \in Ops(test.name) :
              /\ Program[k].role = L.code[d].role /\ Program[k].at = L.code[d].at
              /\ Program[k].val = L.code[d].val /\ Program[k].reg = L.code[d].reg
              /\ \/ Program[k].op = L.code[d].op
                 \/ L.code[d].op = "add0" /\ Program[k].op \in {"load", "putback"}
  BY Performs
<1>2. Proper(L.code[d]) /\ L.code[d] \in Instruction /\ L.code[d].op # "barrier"
  BY <1>1, TestFacts, Codes DEF L, Ops
<1>3. L.code[d].op \in {"store", "load", "add0"}
  BY <1>2 DEF Instruction
<1> QED BY <1>1, <1>2, <1>3 DEF Proper

(* What a step of an invocation does to the memory and to the registers. *)
LEMMA Effect ==
  ASSUME TypeOK, NEW i \in Invocations, NEW k \in Accesses, Perform(i, k)
  PROVE  LET c == Program[k]
             s == Space(i[1])
             w == Place(i, k)
             me == Instance(i, c.role)
         IN /\ s \in Spaces /\ w \in Words /\ me \in Instances /\ memory[s][w] \in Nat
            /\ memory' \in [Spaces -> [Words -> Nat]] /\ results' \in [Instances -> Regs]
            /\ \A j \in Instances :
                 /\ results'[j].r0 = IF c.op \in {"load", "add0"} /\ j = me /\ c.reg = "r0"
                                     THEN memory[s][w] ELSE results[j].r0
                 /\ results'[j].r1 = IF c.op \in {"load", "add0"} /\ j = me /\ c.reg = "r1"
                                     THEN memory[s][w] ELSE results[j].r1
            /\ \A s2 \in Spaces, w2 \in Words :
                 memory'[s2][w2] = IF c.op \in {"store", "putback"} /\ s2 = s /\ w2 = w
                                   THEN IF c.op = "store" THEN c.val ELSE results[me][c.reg]
                                   ELSE memory[s2][w2]
            /\ performed' = [performed EXCEPT ![i] = @ \cup {k}] /\ k \notin performed[i]
<1> DEFINE c == Program[k]
           s == Space(i[1])
           w == Place(i, k)
           me == Instance(i, c.role)
<1>1. test \in Suite /\ gpu \in Gpus /\ memory \in [Spaces -> [Words -> Nat]] /\ results \in [Instances -> Regs]
  BY DEF TypeOK, Regs
<1>2. /\ c.role \in {0, 1} /\ c.at \in {"x", "y"} /\ c.op \in {"store", "load", "add0", "putback"}
      /\ c.op = "store" => c.val \in {1, 2}
      /\ c.op # "store" => c.reg \in {"r0", "r1"}
  BY <1>1, Performable
<1>3. s \in Spaces /\ w \in Words /\ me \in Instances
  <2>1. w = Word(i, c.role, c.at)
    BY DEF Place
  <2> HIDE DEF c
  <2> QED BY <1>1, <1>2, <2>1, CellRange, InstanceRange
<1>4. /\ results' = IF c.op \in {"load", "add0"} THEN [results EXCEPT ![me][c.reg] = memory[s][w]] ELSE results
      /\ memory' = CASE c.op = "store"   -> [memory EXCEPT ![s][w] = c.val]
                     [] c.op = "putback" -> [memory EXCEPT ![s][w] = results[me][c.reg]]
                     [] OTHER            -> memory
      /\ performed' = [performed EXCEPT ![i] = @ \cup {k}] /\ k \notin performed[i]
  BY Zenon DEF Perform
<1> HIDE DEF c, s, w, me
<1>5. memory[s][w] \in Nat
  BY <1>1, <1>3
<1>6. c.op # "store" => results[me][c.reg] \in Nat
  BY <1>1, <1>2, <1>3, PutReg
<1>7. CASE c.op = "store"
  <2>1. memory' = [memory EXCEPT ![s][w] = c.val] /\ results' = results /\ c.val \in Nat
    BY <1>2, <1>4, <1>7
  <2> QED BY <2>1, <1>1, <1>3, <1>4, <1>5, <1>7, PutTwo DEF c, s, w, me
<1>8. CASE c.op = "putback"
  <2>1. memory' = [memory EXCEPT ![s][w] = results[me][c.reg]] /\ results' = results
    BY <1>4, <1>8
  <2> QED BY <2>1, <1>1, <1>3, <1>4, <1>5, <1>6, <1>8, PutTwo DEF c, s, w, me
<1>9. CASE c.op \in {"load", "add0"}
  <2>1. results' = [results EXCEPT ![me][c.reg] = memory[s][w]] /\ memory' = memory
    BY <1>4, <1>9
  <2>2. /\ results' \in [Instances -> Regs]
        /\ \A j \in Instances :
             /\ results'[j].r0 = IF j = me /\ c.reg = "r0" THEN memory[s][w] ELSE results[j].r0
             /\ results'[j].r1 = IF j = me /\ c.reg = "r1" THEN memory[s][w] ELSE results[j].r1
    <3> DEFINE v == memory[s][w]
               d == c.reg
               row == [results[me] EXCEPT ![d] = v]
    <3>1. v \in Nat /\ d \in {"r0", "r1"} /\ results[me] \in Regs
      BY <1>1, <1>2, <1>3, <1>5, <1>9
    <3>2. results' = [results EXCEPT ![me] = row]
      BY <2>1
    <3>3. row \in Regs /\ row.r0 = (IF d = "r0" THEN v ELSE results[me].r0)
                      /\ row.r1 = (IF d = "r1" THEN v ELSE results[me].r1)
      <4> HIDE DEF v, d
      <4> QED BY <3>1, PutReg
    <3>4. results' \in [Instances -> Regs] /\ \A j \in Instances : results'[j] = IF j = me THEN row ELSE results[j]
      <4> HIDE DEF row
      <4> QED BY <3>2, <3>3, <1>1, <1>3
    <3> HIDE DEF row
    <3> QED BY <3>3, <3>4
  <2>3. c.op \notin {"store", "putback"}
    BY <1>9
  <2> QED BY <2>1, <2>2, <2>3, <1>1, <1>3, <1>4, <1>5, <1>9 DEF c, s, w, me
<1> QED BY <1>2, <1>7, <1>8, <1>9

-----------------------------------------------------------------------------
(* A shuffle has every workgroup. *)

Dealt(arrays, i) ==
  {[a EXCEPT ![i + 1] = a[x], ![x] = a[i + 1]] : a \in arrays, x \in getRandomInt(i + 2)}

Deals(f, n, low) ==
  f = [i \in low .. n - 1 |-> IF i = n - 1 THEN {[k \in 0 .. n - 1 |-> k]} ELSE Dealt(f[i + 1], i)]

HasAll(a, n) == DOMAIN a = 0 .. n - 1 /\ \A w \in 0 .. n - 1 : \E k \in 0 .. n - 1 : a[k] = w

LEMMA SwapHasAll ==
  ASSUME NEW n \in Nat, NEW a, HasAll(a, n), NEW x \in 0 .. n - 1, NEW y \in 0 .. n - 1
  PROVE  HasAll([a EXCEPT ![y] = a[x], ![x] = a[y]], n)
<1> DEFINE b == [a EXCEPT ![y] = a[x], ![x] = a[y]]
<1>1. DOMAIN b = 0 .. n - 1
  BY DEF HasAll
<1>2. b[x] = a[y] /\ (x # y => b[y] = a[x]) /\ \A k \in 0 .. n - 1 : k \notin {x, y} => b[k] = a[k]
  BY DEF HasAll
<1>3. ASSUME NEW w \in 0 .. n - 1 PROVE \E k \in 0 .. n - 1 : b[k] = w
  <2>1. PICK k \in 0 .. n - 1 : a[k] = w
    BY DEF HasAll
  <2> HIDE DEF b
  <2>2. CASE k = x
    BY <1>2, <2>1, <2>2
  <2>3. CASE k = y
    BY <1>2, <2>1, <2>3
  <2>4. CASE k \notin {x, y}
    BY <1>2, <2>1, <2>4
  <2> QED BY <2>2, <2>3, <2>4
<1> HIDE DEF b
<1>4. HasAll(b, n)
  BY <1>1, <1>3 DEF HasAll
<1> QED BY <1>4 DEF b

LEMMA DealsExist ==
  ASSUME NEW n \in Nat \ {0}
  PROVE  \E f : Deals(f, n, 0)
<1> DEFINE A == {j \in Nat : j <= n - 1 => \E f : Deals(f, n, n - 1 - j)}
<1>1. 0 \in A
  <2> DEFINE f == [i \in n - 1 .. n - 1 |-> {[k \in 0 .. n - 1 |-> k]}]
  <2>1. Deals(f, n, n - 1)
    BY DEF Deals
  <2>2. n - 1 - 0 = n - 1
    OBVIOUS
  <2> HIDE DEF f
  <2> QED BY <2>1, <2>2
<1>2. ASSUME NEW j \in Nat, j \in A PROVE j + 1 \in A
  <2> SUFFICES ASSUME j + 1 <= n - 1 PROVE \E f : Deals(f, n, n - 1 - (j + 1))
    OBVIOUS
  <2> DEFINE low == n - 1 - (j + 1)
  <2>0. low \in Nat /\ low + 1 = n - 1 - j /\ low # n - 1 /\ low <= n - 1
    OBVIOUS
  <2>1. PICK f : Deals(f, n, low + 1)
    BY <1>2, <2>0
  <2> HIDE DEF low
  <2> DEFINE start == {[k \in 0 .. n - 1 |-> k]}
             next == Dealt(f[low + 1], low)
             g == [i \in low .. n - 1 |-> IF i = low THEN next ELSE f[i]]
             h == [i \in low .. n - 1 |-> IF i = n - 1 THEN start ELSE Dealt(g[i + 1], i)]
  <2>2. ASSUME NEW i \in low .. n - 1 PROVE g[i] = h[i]
    <3>1. CASE i = low
      <4>1. low + 1 \in low .. n - 1 /\ low + 1 # low
        BY <2>0
      <4>2. g[low + 1] = f[low + 1]
        <5> HIDE DEF next
        <5> QED BY <4>1
      <4>3. g[i] = next /\ h[i] = Dealt(g[low + 1], low)
        BY <2>0, <3>1
      <4> QED BY <4>2, <4>3
    <3>2. CASE i # low
      <4>1. i \in low + 1 .. n - 1 /\ g[i] = f[i]
        BY <2>0, <3>2
      <4>2. f[i] = IF i = n - 1 THEN start ELSE Dealt(f[i + 1], i)
        BY <2>1, <4>1 DEF Deals
      <4>3. i # n - 1 => g[i + 1] = f[i + 1]
        <5>1. i # n - 1 => i + 1 \in low .. n - 1 /\ i + 1 # low
          BY <2>0, <4>1
        <5> HIDE DEF next
        <5> QED BY <5>1
      <4>4. h[i] = IF i = n - 1 THEN start ELSE Dealt(g[i + 1], i)
        OBVIOUS
      <4> HIDE DEF g, h, start
      <4> QED BY <4>1, <4>2, <4>3, <4>4
    <3> QED BY <3>1, <3>2
  <2>3. g = h
    <3>1. g = [i \in low .. n - 1 |-> g[i]] /\ h = [i \in low .. n - 1 |-> h[i]]
      OBVIOUS
    <3> HIDE DEF g, h
    <3> QED BY <3>1, <2>2
  <2>4. Deals(g, n, low)
    <3> HIDE DEF g
    <3> QED BY <2>3, Zenon DEF Deals
  <2> HIDE DEF g, h, next
  <2> QED BY <2>4 DEF low
<1>3. \A j \in Nat : j \in A
  <2> HIDE DEF A
  <2> QED BY <1>1, <1>2, Induction
<1>4. n - 1 \in Nat /\ n - 1 - (n - 1) = 0
  OBVIOUS
<1> QED BY <1>3, <1>4

LEMMA ShufflesHaveAll ==
  ASSUME NEW n \in Nat \ {0}, NEW a \in Shuffles(n)
  PROVE  HasAll(a, n)
<1> DEFINE F == CHOOSE f : Deals(f, n, 0)
<1>1. Deals(F, n, 0)
  BY DealsExist, Zenon
<1>2. a \in F[0]
  BY DEF Shuffles, Deals, Dealt
<1> HIDE DEF F
<1> DEFINE Good(j) == j <= n - 1 => \A b \in F[n - 1 - j] : HasAll(b, n)
           A == {j \in Nat : Good(j)}
<1>3. Good(0)
  <2>1. n - 1 - 0 = n - 1 /\ n - 1 \in 0 .. n - 1
    OBVIOUS
  <2>2. F[n - 1] = {[k \in 0 .. n - 1 |-> k]}
    BY <1>1, <2>1 DEF Deals
  <2>3. HasAll([k \in 0 .. n - 1 |-> k], n)
    BY DEF HasAll
  <2> QED BY <2>1, <2>2, <2>3
<1>4. ASSUME NEW j \in Nat, Good(j) PROVE Good(j + 1)
  <2> SUFFICES ASSUME j + 1 <= n - 1, NEW b \in F[n - 1 - (j + 1)] PROVE HasAll(b, n)
    OBVIOUS
  <2> DEFINE i == n - 1 - (j + 1)
  <2>1. i \in 0 .. n - 1 /\ i # n - 1 /\ i + 1 = n - 1 - j /\ i + 1 \in 0 .. n - 1
    OBVIOUS
  <2>2. b \in F[i]
    OBVIOUS
  <2> HIDE DEF i
  <2>3. F[i] = Dealt(F[i + 1], i)
    BY <1>1, <2>1 DEF Deals
  <2>4. PICK c \in F[i + 1], x \in getRandomInt(i + 2) : b = [c EXCEPT ![i + 1] = c[x], ![x] = c[i + 1]]
    BY <2>2, <2>3 DEF Dealt
  <2>5. x \in 0 .. n - 1
    BY <2>1 DEF getRandomInt
  <2>6. HasAll(c, n)
    BY <1>4, <2>1
  <2> QED BY <2>1, <2>4, <2>5, <2>6, SwapHasAll
<1>5. \A j \in Nat : j \in A
  <2> HIDE DEF Good
  <2>1. 0 \in A /\ \A j \in Nat : j \in A => j + 1 \in A
    BY <1>3, <1>4
  <2> HIDE DEF A
  <2> QED BY <2>1, Induction
<1>6. n - 1 \in Nat /\ n - 1 - (n - 1) = 0
  OBVIOUS
<1> QED BY <1>2, <1>5, <1>6

LEMMA SetUpShuffles ==
  ASSUME test \in Suite, DOMAIN shuffled = 0 .. Most[T] - 1,
         NEW n \in getRandomInRange(Testing[T], Most[T]), NEW a \in ShuffledWorkgroups(n)
  PROVE  /\ n \in Nat /\ DOMAIN a = 0 .. Most[T] - 1
         /\ \A w \in Workgroups : \E p \in 0 .. n - 1 : a[p] = w
<1>1. n \in Nat \ {0} /\ Testing[T] <= n /\ n <= Most[T] /\ Most[T] \in Nat /\ Testing[T] \in Nat
  <2>1. Testing[T] \in Nat \ {0} /\ Most[T] \in Nat /\ Testing[T] <= Most[T]
    BY Sizes
  <2>2. n = Testing[T] \/ \E k \in 0 .. Most[T] - Testing[T] - 1 : n = Testing[T] + k
    BY DEF getRandomInRange, getRandomInt
  <2> QED BY <2>1, <2>2
<1>2. PICK b : /\ a = [k \in DOMAIN shuffled |-> IF k < n THEN b[k] ELSE shuffled[k]]
               /\ b \in Shuffles(n) \/ b = [k \in 0 .. n - 1 |-> k]
  BY DEF ShuffledWorkgroups
<1>3. HasAll(b, n)
  <2>1. HasAll([k \in 0 .. n - 1 |-> k], n)
    BY <1>1 DEF HasAll
  <2> QED BY <1>1, <1>2, <2>1, ShufflesHaveAll
<1>4. ASSUME NEW w \in Workgroups PROVE \E p \in 0 .. n - 1 : a[p] = w
  <2>1. w \in 0 .. n - 1
    BY <1>1 DEF Workgroups
  <2>2. PICK p \in 0 .. n - 1 : b[p] = w
    BY <1>3, <2>1 DEF HasAll
  <2>3. p \in DOMAIN shuffled /\ p < n
    BY <1>1
  <2>4. a[p] = b[p]
    BY <1>2, <2>3
  <2> QED BY <2>2, <2>4
<1> QED BY <1>1, <1>2, <1>4

-----------------------------------------------------------------------------
(* The first parts of the invariant: for every GPU. *)

LEMMA MinusOne == ASSUME test \in Suite PROVE -1 \in Spaces
BY DEF Spaces

LEMMA InitTypes == Init => TypeOK /\ EveryoneIsShuffled /\ CopiesAreTrue /\ CountsAreFresh
<1> SUFFICES ASSUME Init PROVE TypeOK /\ EveryoneIsShuffled /\ CopiesAreTrue /\ CountsAreFresh
  OBVIOUS
<1>1. TypeOK
  <2>1. memory \in [Spaces -> [Words -> Nat]]
    BY DEF Init, Zero
  <2>2. performed \in [Invocations -> SUBSET Accesses]
    BY DEF Init
  <2> QED BY <2>1, <2>2 DEF Init, TypeOK, NoCounts
<1> QED BY <1>1 DEF Init, EveryoneIsShuffled, CopiesAreTrue, CountsAreFresh

LEMMA SetUpTypes ==
  ASSUME TypeOK, SetUp
  PROVE  TypeOK' /\ EveryoneIsShuffled' /\ CopiesAreTrue'
<1>0. test \in Suite /\ test' = test /\ gpu' = gpu
  BY DEF SetUp, TypeOK
<1>1. PICK n \in getRandomInRange(Testing[T], Most[T]) : num' = n /\ shuffled' \in ShuffledWorkgroups(n)
  BY DEF SetUp
<1>2. /\ num' \in Nat /\ DOMAIN shuffled' = 0 .. Most[T] - 1
      /\ \A w \in Workgroups : \E p \in 0 .. num' - 1 : shuffled'[p] = w
  BY <1>0, <1>1, SetUpShuffles DEF TypeOK
<1>3. /\ memory' \in [Spaces -> [Words -> Nat]] /\ results' \in [Instances -> [r0 : Nat, r1 : Nat]]
      /\ counts' \in [DOMAIN L.counted -> Nat]
  BY DEF SetUp, ResetDevice, Zero, NoCounts
<1>4. /\ stage' = [i \in Invocations |-> "idle"] /\ performed' = [i \in Invocations |-> {}]
      /\ pc' = "test" /\ iteration' = iteration + 1 /\ verdict' = verdict /\ strange' = strange
  BY DEF SetUp
<1>5. TypeOK'
  BY <1>0, <1>2, <1>3, <1>4, TestStays DEF TypeOK
<1>6. EveryoneIsShuffled'
  BY <1>0, <1>2, TestStays DEF EveryoneIsShuffled
<1>7. CopiesAreTrue'
  BY <1>0, <1>4, TestStays DEF CopiesAreTrue
<1> QED BY <1>5, <1>6, <1>7

LEMMA DispatchTypes ==
  ASSUME TypeOK, EveryoneIsShuffled, CopiesAreTrue, NEW p \in 0 .. num - 1, Dispatch(p)
  PROVE  TypeOK' /\ EveryoneIsShuffled' /\ CopiesAreTrue'
<1>1. /\ test' = test /\ gpu' = gpu /\ pc' = pc /\ verdict' = verdict /\ strange' = strange
      /\ iteration' = iteration /\ num' = num /\ shuffled' = shuffled /\ performed' = performed
      /\ memory' = memory /\ results' = results /\ counts' = counts
  BY DEF Dispatch, hostVars
<1>2. /\ stage' \in [Invocations -> {"idle", "enter", "spin", "run", "end"}]
      /\ \A i \in Invocations : stage'[i] = "end" => stage[i] = "end"
  <2>1. stage' = [i \in Invocations |-> IF i[1] # shuffled[p] THEN stage[i]
                                        ELSE IF stress.doBarrier THEN "enter" ELSE "run"]
    BY Zenon DEF Dispatch
  <2> QED BY <2>1 DEF TypeOK
<1> QED BY <1>1, <1>2, TestStays DEF TypeOK, EveryoneIsShuffled, CopiesAreTrue

LEMMA BarrierTypes ==
  ASSUME TypeOK, EveryoneIsShuffled, CopiesAreTrue, NEW i \in Invocations, EnterBarrier(i) \/ Spin(i)
  PROVE  TypeOK' /\ EveryoneIsShuffled' /\ CopiesAreTrue'
<1>1. /\ test' = test /\ gpu' = gpu /\ pc' = pc /\ verdict' = verdict /\ strange' = strange
      /\ iteration' = iteration /\ num' = num /\ shuffled' = shuffled /\ performed' = performed
      /\ memory' = memory /\ results' = results /\ counts' = counts
  BY DEF EnterBarrier, Spin, hostVars
<1>2. \E s \in {"run", "spin"} : stage' = [stage EXCEPT ![i] = s]
  BY DEF EnterBarrier, Spin
<1>3. /\ stage' \in [Invocations -> {"idle", "enter", "spin", "run", "end"}]
      /\ \A j \in Invocations : stage'[j] = "end" => stage[j] = "end"
  BY <1>2 DEF TypeOK
<1> QED BY <1>1, <1>3, TestStays DEF TypeOK, EveryoneIsShuffled, CopiesAreTrue

LEMMA HostTypes ==
  ASSUME TypeOK, EveryoneIsShuffled, CopiesAreTrue, ResultPass \/ Check \/ UNCHANGED vars
  PROVE  TypeOK' /\ EveryoneIsShuffled' /\ CopiesAreTrue'
<1>1. /\ test' = test /\ gpu' = gpu /\ stage' = stage /\ memory' = memory /\ results' = results
      /\ iteration' = iteration /\ num' = num /\ shuffled' = shuffled /\ performed' = performed
  BY DEF ResultPass, Check, vars, hostVars, gpuVars
<1>2. CopiesAreTrue'
  BY <1>1, TestStays DEF CopiesAreTrue
<1>3. pc' = "test" => pc = "test"
  BY DEF ResultPass, Check, vars, hostVars, gpuVars
<1>4. EveryoneIsShuffled'
  BY <1>1, <1>3, TestStays DEF EveryoneIsShuffled
<1>5. counts' \in [DOMAIN L.counted -> Nat]
  <2>1. CASE ResultPass
    <3> DEFINE K(b) == {k \in Instances : Observed(k) = L.counted[b]}
    <3>1. \A b : Cardinality(K(b)) \in Nat
      <4>1. IsFiniteSet(Instances)
        BY Sizes, FS_Interval DEF TypeOK, Instances
      <4> QED BY <4>1, FS_Subset, FS_CardinalityType
    <3>2. counts' = [b \in DOMAIN counts |-> counts[b] + Cardinality(K(b))]
      BY <2>1 DEF ResultPass
    <3> HIDE DEF K
    <3> QED BY <3>1, <3>2 DEF TypeOK
  <2>2. CASE Check \/ UNCHANGED vars
    BY <2>2 DEF Check, vars, gpuVars, TypeOK
  <2> QED BY <2>1, <2>2
<1>6. /\ pc' \in {"host", "test", "check", "done"}
      /\ verdict' \in {"running", "pass", "fail"} /\ strange' \in BOOLEAN
  <2>1. CASE ResultPass
    BY <2>1 DEF ResultPass, TypeOK
  <2>2. CASE Check
    BY <2>2 DEF Check, TypeOK
  <2>3. CASE UNCHANGED vars
    BY <2>3 DEF vars, TypeOK
  <2> QED BY <2>1, <2>2, <2>3
<1>7. TypeOK'
  BY <1>1, <1>5, <1>6, TestStays DEF TypeOK
<1> QED BY <1>2, <1>4, <1>7

LEMMA BackFacts ==
  ASSUME test \in Suite
  PROVE  /\ \A b \in L.back : b = <<b[1], b[2]>> /\ b[1] \in {0, 1} /\ b[2] \in {"x", "y"}
         /\ CopiesBack => T = "intra" /\ \A w \in Workgroups : Space(w) # -1
<1>1. L.back \subseteq {0, 1} \X {"x", "y"}
  BY TestFacts, Codes DEF L, Shape
<1>2. T \in {"inter", "intra"} /\ (T = "inter" => ~InWorkgroupMemory /\ test.memType # "non_atomic_texture")
  BY InterIsStorage
<1>3. CopiesBack => T = "intra"
  BY <1>2 DEF CopiesBack, Space
<1>4. CopiesBack => \A w \in Workgroups : Space(w) # -1
  BY Sizes DEF CopiesBack, Space, Workgroups
<1> QED BY <1>1, <1>3, <1>4

(* What is copied to one place is one value. *)
LEMMA CopiesAgree ==
  ASSUME TypeOK, CopiesBack, NEW i \in Invocations, NEW j \in Invocations,
         NEW b \in L.back, NEW d \in L.back, CopyTo(i, b) = CopyTo(j, d)
  PROVE  memory[Space(i[1])][Word(i, b[1], b[2])] = memory[Space(j[1])][Word(j, d[1], d[2])]
<1>1. test \in Suite /\ T = "intra"
  BY BackFacts DEF TypeOK
<1>2. /\ b = <<b[1], b[2]>> /\ b[1] \in {0, 1} /\ b[2] \in {"x", "y"}
      /\ d = <<d[1], d[2]>> /\ d[1] \in {0, 1} /\ d[2] \in {"x", "y"}
  BY <1>1, BackFacts
<1> DEFINE r == b[1]
           a == b[2]
           q == d[1]
           c == d[2]
<1>3. CopyTo(i, <<r, a>>) = CopyTo(j, <<q, c>>)
  BY <1>2
<1>4. r \in {0, 1} /\ q \in {0, 1} /\ a \in {"x", "y"} /\ c \in {"x", "y"}
  BY <1>2
<1> HIDE DEF r, a, q, c
<1>5. Instance(i, r) = Instance(j, q) /\ (a = c \/ Params.aliased)
  BY <1>1, <1>3, <1>4, CopiesApart
<1>6. Cell(i, r, a) = Cell(j, q, c)
  BY <1>1, <1>4, <1>5, CellsMeet
<1> QED BY <1>6 DEF Cell, r, a, q, c

LEMMA CopyRange ==
  ASSUME TypeOK, NEW i \in Invocations, NEW b \in L.back
  PROVE  /\ CopyTo(i, b) \in Words
         /\ Space(i[1]) \in Spaces /\ Word(i, b[1], b[2]) \in Words
<1>1. test \in Suite
  BY DEF TypeOK
<1>2. b = <<b[1], b[2]>> /\ b[1] \in {0, 1} /\ b[2] \in {"x", "y"}
  BY <1>1, BackFacts
<1> DEFINE r == b[1]
           a == b[2]
<1>3. r \in {0, 1} /\ a \in {"x", "y"} /\ CopyTo(i, b) = CopyTo(i, <<r, a>>)
  BY <1>2
<1> HIDE DEF r, a
<1>4. Space(i[1]) \in Spaces /\ Word(i, r, a) \in Words
  BY <1>1, <1>3, CellRange
<1>5. CopyTo(i, <<r, a>>) = (Base(i[1]) + Local(i, r, a)) * Params.memStride * 2 + Offset(a)
  BY <1>1, <1>3, ResultWords
<1>6. CopyTo(i, <<r, a>>) \in Words
  <2> DEFINE z == Base(i[1]) + Local(i, r, a)
             ms == Params.memStride
             n == X[T] * Testing[T]
  <2>1. z \in 0 .. n - 1 /\ n \in Nat
    <3>1. T = "inter" => Base(i[1]) = 0 /\ TotalIds = n
      BY DEF Base, TotalIds
    <3>2. T # "inter" => Base(i[1]) = i[1] * X[T] /\ TotalIds = X[T]
      BY DEF Base, TotalIds
    <3>3. Local(i, r, a) \in 0 .. TotalIds - 1
      BY <1>1, <1>3, LocalFacts
    <3>4. X[T] \in Nat \ {0} /\ Testing[T] \in Nat \ {0} /\ i[1] \in 0 .. Testing[T] - 1 /\ n \in Nat \ {0}
      BY <1>1, Sizes, Invocation
    <3>5. CASE T # "inter"
      <4> DEFINE x == X[T]
                 l == Local(i, r, a)
                 w == i[1]
                 N == Testing[T]
      <4>1. x \in Nat /\ N \in Nat /\ w \in 0 .. N - 1 /\ l \in 0 .. x - 1 /\ Base(i[1]) = w * x
        BY <3>2, <3>3, <3>4, <3>5
      <4> HIDE DEF x, l, w, N
      <4>2. w * x + l \in 0 .. x * N - 1
        BY <4>1, InRow
      <4> QED BY <3>4, <4>1, <4>2 DEF x, l, w, N
    <3> QED BY <3>1, <3>3, <3>4, <3>5
  <2>2. ms \in {1, 2, 4} /\ Offset(a) \in {0, ms}
    BY <1>1, Strides DEF Offset
  <2>3. Words = 0 .. n * 2 * ms - 1
    BY DEF Words
  <2> HIDE DEF z, ms, n
  <2>4. z * ms * 2 + Offset(a) \in 0 .. n * 2 * ms - 1
    BY <2>1, <2>2
  <2> QED BY <2>3, <2>4, <1>5 DEF z, ms
<1> QED BY <1>3, <1>4, <1>6 DEF r, a

(* An invocation at its end changes nothing but what the result shader sees. *)
LEMMA EndEffect ==
  ASSUME TypeOK, NEW i \in Invocations, End(i)
  PROVE  /\ memory' \in [Spaces -> [Words -> Nat]]
         /\ ~CopiesBack => memory' = memory
         /\ \A s \in Spaces \ {-1} : memory'[s] = memory[s]
         /\ CopiesBack => \A k \in Words :
              \/ \E b \in L.back : k = CopyTo(i, b) /\ memory'[-1][k] = memory[Space(i[1])][Word(i, b[1], b[2])]
              \/ (\A b \in L.back : k # CopyTo(i, b)) /\ memory'[-1][k] = memory[-1][k]
<1>1. memory \in [Spaces -> [Words -> Nat]] /\ -1 \in Spaces
  BY MinusOne DEF TypeOK
<1>2. CASE ~CopiesBack
  BY <1>1, <1>2 DEF End
<1>3. CASE CopiesBack
  <2> DEFINE from(k) == CHOOSE b \in L.back : k = CopyTo(i, b)
             copied(k) == memory[Space(i[1])][Word(i, from(k)[1], from(k)[2])]
             row == [k \in Words |-> IF \E b \in L.back : k = CopyTo(i, b) THEN copied(k) ELSE memory[-1][k]]
  <2>1. memory' = [memory EXCEPT ![-1] = row]
    BY <1>3 DEF End
  <2>2. ASSUME NEW k \in Words, \E b \in L.back : k = CopyTo(i, b)
        PROVE  /\ from(k) \in L.back /\ k = CopyTo(i, from(k)) /\ copied(k) \in Nat /\ row[k] = copied(k)
    <3>1. from(k) \in L.back /\ k = CopyTo(i, from(k))
      BY <2>2, Zenon
    <3> DEFINE b == from(k)
    <3>2. b \in L.back
      BY <3>1
    <3> HIDE DEF b
    <3>3. memory[Space(i[1])][Word(i, b[1], b[2])] \in Nat
      BY <1>1, <3>2, CopyRange
    <3>4. copied(k) = memory[Space(i[1])][Word(i, b[1], b[2])]
      BY DEF b
    <3>5. row[k] = copied(k)
      <4> HIDE DEF copied
      <4> QED BY <2>2
    <3> HIDE DEF copied, row
    <3> QED BY <3>1, <3>3, <3>4, <3>5
  <2>3. ASSUME NEW k \in Words, ~\E b \in L.back : k = CopyTo(i, b)
        PROVE  row[k] = memory[-1][k]
    <3> HIDE DEF copied
    <3> QED BY <2>3
  <2>4. row \in [Words -> Nat]
    <3>1. \A k \in Words : row[k] \in Nat
      <4> HIDE DEF row, copied, from
      <4> QED BY <1>1, <2>2, <2>3
    <3>2. row = [k \in Words |-> row[k]]
      OBVIOUS
    <3> HIDE DEF row
    <3> QED BY <3>1, <3>2
  <2>5. \A k \in Words :
              \/ \E b \in L.back : k = CopyTo(i, b) /\ row[k] = memory[Space(i[1])][Word(i, b[1], b[2])]
              \/ (\A b \in L.back : k # CopyTo(i, b)) /\ row[k] = memory[-1][k]
    <3>1. ASSUME NEW k \in Words, \E b \in L.back : k = CopyTo(i, b)
          PROVE  \E b \in L.back : k = CopyTo(i, b) /\ row[k] = memory[Space(i[1])][Word(i, b[1], b[2])]
      <4> DEFINE b == from(k)
      <4>1. b \in L.back /\ k = CopyTo(i, b) /\ row[k] = memory[Space(i[1])][Word(i, b[1], b[2])]
        BY <2>2, <3>1
      <4> HIDE DEF b, row
      <4> QED BY <4>1
    <3> HIDE DEF row
    <3> QED BY <2>3, <3>1
  <2> HIDE DEF row
  <2> QED BY <1>1, <1>3, <2>1, <2>4, <2>5
<1> QED BY <1>2, <1>3

LEMMA EndTypes ==
  ASSUME TypeOK, EveryoneIsShuffled, CopiesAreTrue, NEW i \in Invocations, End(i)
  PROVE  TypeOK' /\ EveryoneIsShuffled' /\ CopiesAreTrue'
<1>1. /\ test' = test /\ gpu' = gpu /\ pc' = pc /\ verdict' = verdict /\ strange' = strange
      /\ iteration' = iteration /\ num' = num /\ shuffled' = shuffled /\ performed' = performed
      /\ results' = results /\ counts' = counts /\ stage' = [stage EXCEPT ![i] = "end"]
      /\ performed[i] = Accesses
      /\ CopiesBack => \A l \in 0 .. X[T] - 1 : performed[<<i[1], l>>] = Accesses
  BY DEF End, hostVars
<1>2. TypeOK' /\ EveryoneIsShuffled'
  BY <1>1, EndEffect, TestStays DEF TypeOK, EveryoneIsShuffled
<1>3. ASSUME NEW j \in Invocations, stage'[j] = "end"
      PROVE  performed[j] = Accesses
  BY <1>1, <1>3 DEF TypeOK, CopiesAreTrue
<1>4. ASSUME NEW j \in Invocations, stage'[j] = "end", CopiesBack, NEW h \in Invocations, h[1] = j[1]
      PROVE  performed[h] = Accesses
  <2>1. CASE j = i
    <3>1. h = <<i[1], h[2]>> /\ h[2] \in 0 .. X[T] - 1
      BY <1>4, <2>1, Invocation
    <3> QED BY <1>1, <1>4, <3>1
  <2>2. CASE j # i
    BY <1>1, <1>4, <2>2 DEF TypeOK, CopiesAreTrue
  <2> QED BY <2>1, <2>2
<1>5. ASSUME NEW j \in Invocations, stage'[j] = "end", CopiesBack, NEW b \in L.back
      PROVE  memory'[-1][CopyTo(j, b)] = memory'[Space(j[1])][Word(j, b[1], b[2])]
  <2>1. test \in Suite /\ Space(j[1]) # -1 /\ Space(j[1]) \in Spaces /\ CopyTo(j, b) \in Words
    BY <1>5, BackFacts, CopyRange, Invocation DEF TypeOK, Workgroups
  <2>2. memory'[Space(j[1])] = memory[Space(j[1])]
    BY <2>1, EndEffect
  <2>3. CASE \E d \in L.back : CopyTo(j, b) = CopyTo(i, d)
                               /\ memory'[-1][CopyTo(j, b)] = memory[Space(i[1])][Word(i, d[1], d[2])]
    <3>1. PICK d \in L.back : CopyTo(j, b) = CopyTo(i, d)
                              /\ memory'[-1][CopyTo(j, b)] = memory[Space(i[1])][Word(i, d[1], d[2])]
      BY <2>3
    <3>2. memory[Space(j[1])][Word(j, b[1], b[2])] = memory[Space(i[1])][Word(i, d[1], d[2])]
      BY <1>5, <3>1, CopiesAgree
    <3> QED BY <2>2, <3>1, <3>2
  <2>4. CASE (\A d \in L.back : CopyTo(j, b) # CopyTo(i, d)) /\ memory'[-1][CopyTo(j, b)] = memory[-1][CopyTo(j, b)]
    <3>1. j # i
      BY <2>4
    <3>2. stage[j] = "end"
      BY <1>1, <1>5, <3>1 DEF TypeOK
    <3>3. memory[-1][CopyTo(j, b)] = memory[Space(j[1])][Word(j, b[1], b[2])]
      BY <1>5, <3>2 DEF CopiesAreTrue
    <3> QED BY <2>2, <2>4, <3>3
  <2> QED BY <1>5, <2>1, <2>3, <2>4, EndEffect
<1>6. CopiesAreTrue'
  BY <1>1, <1>3, <1>4, <1>5, TestStays DEF CopiesAreTrue
<1> QED BY <1>2, <1>6

(* A workgroup that has copied has performed everything. *)
LEMMA PerformTypes ==
  ASSUME TypeOK, EveryoneIsShuffled, CopiesAreTrue, NEW i \in Invocations, NEW k \in Accesses, Perform(i, k)
  PROVE  TypeOK' /\ EveryoneIsShuffled' /\ CopiesAreTrue'
<1>1. /\ test' = test /\ gpu' = gpu /\ pc' = pc /\ verdict' = verdict /\ strange' = strange
      /\ iteration' = iteration /\ num' = num /\ shuffled' = shuffled /\ counts' = counts /\ stage' = stage
      /\ test \in Suite /\ gpu \in Gpus
  BY DEF Perform, hostVars, TypeOK
<1> DEFINE c == Program[k]
           s == Space(i[1])
           w == Place(i, k)
<1>2. /\ memory' \in [Spaces -> [Words -> Nat]] /\ results' \in [Instances -> Regs]
      /\ \A s2 \in Spaces, w2 \in Words : s2 # s \/ w2 # w => memory'[s2][w2] = memory[s2][w2]
      /\ performed' = [performed EXCEPT ![i] = @ \cup {k}] /\ k \notin performed[i]
  BY Effect
<1>3. performed' \in [Invocations -> SUBSET Accesses]
  BY <1>2 DEF TypeOK
<1>4. TypeOK'
  BY <1>1, <1>2, <1>3, TestStays DEF TypeOK, Regs
<1>5. EveryoneIsShuffled'
  BY <1>1, TestStays DEF EveryoneIsShuffled
<1>6. ASSUME NEW j \in Invocations, stage[j] = "end"
      PROVE  performed'[j] = Accesses
  BY <1>2, <1>6 DEF CopiesAreTrue, TypeOK
<1>7. ASSUME NEW j \in Invocations, stage[j] = "end", CopiesBack
      PROVE  /\ i[1] # j[1]
             /\ \A h \in Invocations : h[1] = j[1] => performed'[h] = Accesses
  BY <1>2, <1>7 DEF CopiesAreTrue, TypeOK
<1>8. ASSUME NEW j \in Invocations, stage[j] = "end", CopiesBack, NEW b \in L.back
      PROVE  memory'[-1][CopyTo(j, b)] = memory'[Space(j[1])][Word(j, b[1], b[2])]
  <2>1. /\ Space(j[1]) # -1 /\ s # -1 /\ Space(j[1]) \in Spaces /\ -1 \in Spaces /\ T = "intra"
        /\ CopyTo(j, b) \in Words /\ Word(j, b[1], b[2]) \in Words
    BY <1>1, <1>8, BackFacts, CopyRange, Invocation, MinusOne DEF Workgroups
  <2>2. memory'[-1][CopyTo(j, b)] = memory[-1][CopyTo(j, b)]
    <3> HIDE DEF s, w
    <3> QED BY <1>2, <2>1
  <2>3. Cell(j, b[1], b[2]) # <<s, w>>
    <3>1. w = Word(i, c.role, c.at) /\ c.role \in {0, 1} /\ c.at \in {"x", "y"}
      BY <1>1, Performable DEF Place
    <3>2. b[1] \in {0, 1} /\ b[2] \in {"x", "y"}
      BY <1>1, BackFacts
    <3>3. SUFFICES ASSUME Cell(j, b[1], b[2]) = Cell(i, c.role, c.at) PROVE FALSE
      BY <3>1 DEF Cell
    <3> DEFINE r == b[1]
               a == b[2]
               q == c.role
               d == c.at
    <3>4. r \in {0, 1} /\ q \in {0, 1} /\ a \in {"x", "y"} /\ d \in {"x", "y"} /\ Cell(j, r, a) = Cell(i, q, d)
      BY <3>1, <3>2, <3>3
    <3> HIDE DEF r, a, q, d
    <3>5. Instance(j, r) = Instance(i, q)
      BY <1>1, <3>4, CellsApart
    <3>6. j[1] = i[1]
      BY <1>1, <2>1, <3>4, <3>5, SameWorkgroup
    <3> QED BY <1>7, <1>8, <3>6
  <2>4. memory'[Space(j[1])][Word(j, b[1], b[2])] = memory[Space(j[1])][Word(j, b[1], b[2])]
    <3> HIDE DEF s, w
    <3> QED BY <1>2, <2>1, <2>3 DEF Cell
  <2> QED BY <1>8, <2>2, <2>4 DEF CopiesAreTrue
<1>9. CopiesAreTrue'
  BY <1>1, <1>6, <1>7, <1>8, TestStays DEF CopiesAreTrue
<1> QED BY <1>4, <1>5, <1>9

LEMMA CountsStayFresh ==
  ASSUME TypeOK, CountsAreFresh, Next
  PROVE  CountsAreFresh'
<1>1. CASE SetUp
  BY <1>1 DEF SetUp, ResetDevice, NoCounts, CountsAreFresh
<1>2. CASE ResultPass
  BY <1>2 DEF ResultPass, CountsAreFresh
<1>3. CASE Check
  BY <1>3 DEF Check, CountsAreFresh, hostVars, gpuVars
<1>4. CASE Done
  BY <1>4 DEF Done, vars, gpuVars, CountsAreFresh
<1>5. CASE \E p \in 0 .. num - 1 : Dispatch(p)
  BY <1>5 DEF Dispatch, CountsAreFresh
<1>6. CASE \E i \in Invocations : EnterBarrier(i) \/ Spin(i) \/ End(i)
  BY <1>6 DEF EnterBarrier, Spin, End, CountsAreFresh
<1>7. CASE \E i \in Invocations, k \in Accesses : Perform(i, k)
  BY <1>7 DEF Perform, CountsAreFresh
<1> QED BY <1>1, <1>2, <1>3, <1>4, <1>5, <1>6, <1>7 DEF Next

-----------------------------------------------------------------------------
(* One access of an instance is one step of an interleaving. *)

LEMMA AfterState ==
  ASSUME NEW n \in DOMAIN Litmuses, NEW c \in Ops(n), NEW x, NEW y, NEW a, NEW b
  PROVE  LET o == Litmuses[n].code[c]
             v == IF Where(n, o.at) = "x" THEN x ELSE y
         IN /\ Where(n, o.at) = (IF Presets[n].aliased THEN "x" ELSE o.at) /\ Where(n, o.at) \in {"x", "y"}
            /\ o.op = "store" /\ Where(n, o.at) = "x" => After(n, State(x, y, a, b), o) = State(o.val, y, a, b)
            /\ o.op = "store" /\ Where(n, o.at) = "y" => After(n, State(x, y, a, b), o) = State(x, o.val, a, b)
            /\ o.op # "store" => o.reg \in {"r0", "r1"}
            /\ o.op # "store" /\ o.reg = "r0" => After(n, State(x, y, a, b), o) = State(x, y, v, b)
            /\ o.op # "store" /\ o.reg = "r1" => After(n, State(x, y, a, b), o) = State(x, y, a, v)
<1> DEFINE o == Litmuses[n].code[c]
           w == Where(n, o.at)
<1>1. Proper(o)
  BY Codes
<1>2. w = (IF Presets[n].aliased THEN "x" ELSE o.at) /\ w \in {"x", "y"}
  BY <1>1 DEF Where, Proper
<1>3. After(n, State(x, y, a, b), o) = IF o.op = "store" THEN [State(x, y, a, b) EXCEPT ![w] = o.val]
                                       ELSE [State(x, y, a, b) EXCEPT ![o.reg] = State(x, y, a, b)[w]]
  BY DEF After
<1>4. o.op # "store" => o.reg \in {"r0", "r1"}
  BY <1>1 DEF Proper
<1> HIDE DEF o, w
<1>5. CASE w = "x"
  BY <1>3, <1>4, <1>2, <1>5 DEF State, o, w
<1>6. CASE w = "y"
  BY <1>3, <1>4, <1>2, <1>6 DEF State, o, w
<1> QED BY <1>2, <1>5, <1>6

(* Two accesses of a role are to one location, or the barrier is between. *)
InOrder(l) ==
  \A c, d \in DOMAIN l.code :
    /\ d < c /\ l.code[d].role = l.code[c].role
    /\ l.code[d].op # "barrier" /\ l.code[c].op # "barrier"
    => l.code[d].at = l.code[c].at \/ \E b \in d .. c : l.code[b].op = "barrier"

LEMMA WeakInOrder ==
  \A l \in {MessagePassing, StoreTest, LoadBuffer, ReadTest, StoreBuffer, TwoPlusTwoWrite} : InOrder(l)
<1> USE DEF InOrder, Litmus, Store, Load, Add0, Barrier
<1>0. 2 \in 1 .. 3 /\ 5 \in 4 .. 6
  OBVIOUS
<1>1. InOrder(MessagePassing)
  BY <1>0 DEF MessagePassing
<1>2. InOrder(StoreTest)
  BY <1>0 DEF StoreTest
<1>3. InOrder(LoadBuffer)
  BY <1>0 DEF LoadBuffer
<1>4. InOrder(ReadTest)
  BY <1>0 DEF ReadTest
<1>5. InOrder(StoreBuffer)
  BY <1>0 DEF StoreBuffer
<1>6. InOrder(TwoPlusTwoWrite)
  BY <1>0 DEF TwoPlusTwoWrite
<1> HIDE DEF InOrder, Litmus, Store, Load, Add0, Barrier
<1> QED BY <1>1, <1>2, <1>3, <1>4, <1>5, <1>6

LEMMA BarrierInOrder ==
  \A l \in {Atomicity, BarrierLoadStore, BarrierStoreLoad, BarrierStoreStore} : InOrder(l)
<1> USE DEF InOrder, Litmus, Store, Load, Add0, Barrier
<1>1. InOrder(Atomicity)
  BY DEF Atomicity
<1>2. InOrder(BarrierLoadStore)
  BY DEF BarrierLoadStore
<1>3. InOrder(BarrierStoreLoad)
  BY DEF BarrierStoreLoad
<1>4. InOrder(BarrierStoreStore)
  BY DEF BarrierStoreStore
<1> HIDE DEF InOrder, Litmus, Store, Load, Add0, Barrier
<1> QED BY <1>1, <1>2, <1>3, <1>4

LEMMA AllInOrder ==
  ASSUME NEW n \in DOMAIN Litmuses
  PROVE  Presets[n].aliased \/ InOrder(Litmuses[n])
<1>1. n \in Names
  BY NamesOfTests
<1>2. CASE n \in {"corr", "coww", "cowr", "corw1", "corw2"}
  BY <1>2 DEF Presets, kCoherenceTestParams
<1>3. CASE n \notin {"corr", "coww", "cowr", "corw1", "corw2"}
  <2>1. Litmuses[n] \in {MessagePassing, StoreTest, LoadBuffer, ReadTest, StoreBuffer, TwoPlusTwoWrite,
                         Atomicity, BarrierLoadStore, BarrierStoreLoad, BarrierStoreStore}
    BY <1>1, <1>3 DEF Names, Litmuses
  <2> QED BY <2>1, WeakInOrder, BarrierInOrder
<1> QED BY <1>2, <1>3

LEMMA InitInterleaved ==
  ASSUME TypeOK, \A i \in Invocations : performed[i] = {}, memory = Zero,
         results = [k \in Instances |-> [r0 |-> 0, r1 |-> 0]]
  PROVE  Interleaved
<1>1. test \in Suite
  BY DEF TypeOK
<1>2. ASSUME NEW i \in Invocations PROVE <<DoneOf(Instance(i, 0)), LeftBy(i)>> \in Partial(test.name)
  <2>1. DoneOf(Instance(i, 0)) = {}
    BY DEF DoneOf
  <2>2. /\ Space(i[1]) \in Spaces /\ Word(i, 0, "x") \in Words /\ Word(i, 0, "y") \in Words
        /\ Instance(i, 0) \in Instances
    BY <1>1, CellRange, InstanceRange
  <2>3. LeftBy(i) = Fresh
    BY <2>2 DEF LeftBy, Zero, State, Fresh
  <2> QED BY <1>1, <2>1, <2>3, TestFacts, PartialStarts
<1> QED BY <1>2 DEF Interleaved

(* What a step finds and leaves at the locations of the instances. *)
LEMMA PerformLeaves ==
  ASSUME TypeOK, gpu = "conforming", NEW i \in Invocations, NEW k \in Accesses, Perform(i, k),
         NEW o \in Invocations
  PROVE  LET n == test.name
             c == L.code[k]
         IN /\ k \in Ops(n)
            /\ Instance(o, 0) # Instance(i, c.role) => LeftBy(o)' = LeftBy(o)
            /\ Instance(o, 0) = Instance(i, c.role) => LeftBy(o)' = After(n, LeftBy(o), c)
<1> DEFINE n == test.name
           c == L.code[k]
           s == Space(i[1])
           w == Place(i, k)
           me == Instance(i, c.role)
<1>1. test \in Suite /\ gpu \in Gpus /\ test' = test /\ gpu' = gpu
  BY DEF TypeOK, Perform
<1>2. Program = L.code /\ Accesses = Ops(n)
  BY <1>1, Performs
<1>3. c.role \in {0, 1} /\ c.at \in {"x", "y"} /\ c.op \in {"store", "load", "add0", "putback"}
  BY <1>1, <1>2, Performable
<1>4. n \in DOMAIN Litmuses /\ k \in Ops(n) /\ c.op \in {"store", "load", "add0"}
  <2>1. n \in DOMAIN Litmuses
    BY <1>1, TestFacts
  <2>2. c \in Instruction
    BY <1>2, <2>1, Codes DEF L
  <2> QED BY <1>2, <1>3, <2>1, <2>2 DEF Instruction
<1>5. w = Word(i, c.role, c.at)
  BY <1>2 DEF Place
<1>6. /\ s \in Spaces /\ w \in Words /\ me \in Instances
      /\ \A j \in Instances :
           /\ results'[j].r0 = IF c.op \in {"load", "add0"} /\ j = me /\ c.reg = "r0"
                               THEN memory[s][w] ELSE results[j].r0
           /\ results'[j].r1 = IF c.op \in {"load", "add0"} /\ j = me /\ c.reg = "r1"
                               THEN memory[s][w] ELSE results[j].r1
      /\ \A s2 \in Spaces, w2 \in Words :
           memory'[s2][w2] = IF c.op \in {"store", "putback"} /\ s2 = s /\ w2 = w
                             THEN IF c.op = "store" THEN c.val ELSE results[me][c.reg]
                             ELSE memory[s2][w2]
  BY <1>2, Effect
<1> DEFINE so == Space(o[1])
           wx == Word(o, 0, "x")
           wy == Word(o, 0, "y")
           ko == Instance(o, 0)
           al == Params.aliased
<1>7. so \in Spaces /\ wx \in Words /\ wy \in Words /\ ko \in Instances
  BY <1>1, CellRange, InstanceRange
<1>8. LeftBy(o) = State(memory[so][wx], IF al THEN 0 ELSE memory[so][wy], results[ko].r0, results[ko].r1)
  BY DEF LeftBy
<1>9. LeftBy(o)' = State(memory'[so][wx], IF al THEN 0 ELSE memory'[so][wy], results'[ko].r0, results'[ko].r1)
  BY <1>1, TestStays DEF LeftBy, State
<1>10. CASE ko # me
  <2>1. <<so, wx>> # <<s, w>> /\ <<so, wy>> # <<s, w>>
    <3> HIDE DEF c
    <3> QED BY <1>1, <1>3, <1>5, <1>10, CellsApart DEF Cell
  <2> HIDE DEF c, s, w, me, so, wx, wy, ko, al
  <2>2. memory'[so][wx] = memory[so][wx] /\ memory'[so][wy] = memory[so][wy]
    BY <1>6, <1>7, <2>1
  <2>3. results'[ko].r0 = results[ko].r0 /\ results'[ko].r1 = results[ko].r1
    BY <1>6, <1>7, <1>10
  <2>4. LeftBy(o)' = LeftBy(o)
    BY <1>8, <1>9, <2>2, <2>3
  <2> QED BY <1>4, <1>10, <2>4 DEF c, me, ko
<1>11. CASE ko = me
  <2>1. \A a \in {"x", "y"} : <<so, Word(o, 0, a)>> = <<s, w>> <=> (a = c.at \/ al)
    <3> HIDE DEF c
    <3>1. ASSUME NEW a \in {"x", "y"}, Cell(o, 0, a) = Cell(i, c.role, c.at) PROVE a = c.at \/ al
      BY <1>1, <1>3, <3>1, CellsApart
    <3>2. ASSUME NEW a \in {"x", "y"}, a = c.at \/ al PROVE Cell(o, 0, a) = Cell(i, c.role, c.at)
      BY <1>1, <1>3, <1>11, <3>2, CellsMeet
    <3> QED BY <1>5, <3>1, <3>2 DEF Cell
  <2> DEFINE at == Where(n, c.at)
             vx == memory[so][wx]
             vy == IF al THEN 0 ELSE memory[so][wy]
             ra == results[ko].r0
             rb == results[ko].r1
             v == IF at = "x" THEN vx ELSE vy
  <2>2. /\ at = (IF al THEN "x" ELSE c.at) /\ at \in {"x", "y"}
        /\ c.op = "store" /\ at = "x" => After(n, State(vx, vy, ra, rb), c) = State(c.val, vy, ra, rb)
        /\ c.op = "store" /\ at = "y" => After(n, State(vx, vy, ra, rb), c) = State(vx, c.val, ra, rb)
        /\ c.op # "store" => c.reg \in {"r0", "r1"}
        /\ c.op # "store" /\ c.reg = "r0" => After(n, State(vx, vy, ra, rb), c) = State(vx, vy, v, rb)
        /\ c.op # "store" /\ c.reg = "r1" => After(n, State(vx, vy, ra, rb), c) = State(vx, vy, ra, v)
    BY <1>4, AfterState DEF L, Params
  <2>3. <<so, wx>> = <<s, w>> <=> at = "x"
    BY <1>3, <2>1, <2>2
  <2>4. ~al => (<<so, wy>> = <<s, w>> <=> at = "y")
    BY <1>3, <2>1, <2>2
  <2>5. LeftBy(o) = State(vx, vy, ra, rb)
    BY <1>8
  <2>6. memory[s][w] = v
    <3>1. CASE at = "x"
      BY <2>3, <3>1
    <3>2. CASE at = "y"
      BY <2>2, <2>4, <3>2
    <3> QED BY <2>2, <3>1, <3>2
  <2>7. memory'[so][wx] = IF c.op = "store" /\ at = "x" THEN c.val ELSE vx
    <3> HIDE DEF c, s, w, me, so, wx, wy, ko, al, at
    <3> QED BY <1>4, <1>6, <1>7, <2>3
  <2>8. ~al => memory'[so][wy] = IF c.op = "store" /\ at = "y" THEN c.val ELSE memory[so][wy]
    <3> HIDE DEF c, s, w, me, so, wx, wy, ko, al, at
    <3> QED BY <1>4, <1>6, <1>7, <2>4
  <2>9. (IF al THEN 0 ELSE memory'[so][wy]) = IF c.op = "store" /\ at = "y" THEN c.val ELSE vy
    <3> HIDE DEF c, s, w, me, so, wx, wy, ko, at
    <3> QED BY <2>2, <2>8
  <2>10. /\ results'[ko].r0 = IF c.op # "store" /\ c.reg = "r0" THEN v ELSE ra
         /\ results'[ko].r1 = IF c.op # "store" /\ c.reg = "r1" THEN v ELSE rb
    <3> HIDE DEF c, s, w, me, so, wx, wy, al, at, v
    <3> QED BY <1>4, <1>6, <1>7, <1>11, <2>6
  <2>11. LeftBy(o)' = After(n, State(vx, vy, ra, rb), c)
    <3> HIDE DEF c, s, w, me, so, wx, wy, ko, al, at, v, vx, vy, ra, rb, n
    <3>1. CASE c.op = "store"
      <4>1. results'[ko].r0 = ra /\ results'[ko].r1 = rb
        BY <2>10, <3>1
      <4>2. CASE at = "x"
        BY <1>9, <2>2, <2>7, <2>9, <3>1, <4>1, <4>2
      <4>3. CASE at = "y"
        BY <1>9, <2>2, <2>7, <2>9, <3>1, <4>1, <4>3
      <4> QED BY <2>2, <4>2, <4>3
    <3>2. CASE c.op # "store"
      <4>1. memory'[so][wx] = vx /\ (IF al THEN 0 ELSE memory'[so][wy]) = vy
        BY <2>7, <2>9, <3>2
      <4>2. CASE c.reg = "r0"
        BY <1>9, <2>2, <2>10, <3>2, <4>1, <4>2
      <4>3. CASE c.reg = "r1"
        BY <1>9, <2>2, <2>10, <3>2, <4>1, <4>3
      <4> QED BY <2>2, <3>2, <4>2, <4>3
    <3> QED BY <3>1, <3>2
  <2>12. LeftBy(o)' = After(n, LeftBy(o), c)
    BY <2>5, <2>11, Zenon
  <2> QED BY <1>4, <1>11, <2>12
<1> QED BY <1>10, <1>11

(* The other accesses that have to come first have. *)
LEMMA PerformComes ==
  ASSUME TypeOK, gpu = "conforming", NEW i \in Invocations, NEW k \in Accesses, Perform(i, k),
         NEW ko, ko = Instance(i, L.code[k].role)
  PROVE  k \in Ops(test.name) \ DoneOf(ko) /\ Comes(test.name, k, DoneOf(ko))
<1> DEFINE n == test.name
           c == L.code[k]
<1>1. test \in Suite /\ gpu \in Gpus /\ n \in DOMAIN Litmuses
  BY TestFacts DEF TypeOK
<1>2. Program = L.code /\ Accesses = Ops(n)
  BY <1>1, Performs
<1>3. \A d \in Ops(n) : L.code[d].role \in {0, 1} /\ L.code[d].at \in {"x", "y"} /\ L.code[d].op # "barrier"
  BY <1>1, Codes DEF L, Proper, Ops
<1>4. k \notin performed[i]
  BY DEF Perform
<1>5. k \notin DoneOf(ko)
  <2> SUFFICES ASSUME NEW j \in Invocations, Instance(j, c.role) = ko, k \in performed[j] PROVE FALSE
    BY DEF DoneOf
  <2>1. j = i
    <3> HIDE DEF c
    <3>1. c.role \in {0, 1} /\ ko = Instance(i, c.role)
      BY <1>2, <1>3 DEF c
    <3> QED BY <1>1, <3>1, OneInvocation
  <2> QED BY <1>4, <2>1
<1>6. \A j \in Accesses : j < k =>
        /\ Place(i, j) = Place(i, k) => j \in performed[i]
        /\ BarrierBetween(j, k) => \A l \in 0 .. X[T] - 1 : j \in performed[<<i[1], l>>]
  BY DEF Perform, MayPerform
<1>7. ASSUME NEW d \in Ops(n), d < k, L.code[d].role = c.role
      PROVE  d \in DoneOf(ko)
  <2>1. d \in performed[i]
    <3>1. CASE L.code[d].at = c.at \/ Params.aliased
      <4>1. Cell(i, L.code[d].role, L.code[d].at) = Cell(i, c.role, c.at)
        BY <1>1, <1>2, <1>3, <1>7, <3>1, CellsMeet
      <4>2. Place(i, d) = Place(i, k)
        BY <1>2, <4>1 DEF Place, Cell
      <4> QED BY <1>2, <1>6, <1>7, <4>2
    <3>2. CASE ~(L.code[d].at = c.at \/ Params.aliased)
      <4>1. InOrder(L)
        BY <1>1, <3>2, AllInOrder DEF L, Params
      <4>2. d \in DOMAIN L.code /\ k \in DOMAIN L.code /\ L.code[d].op # "barrier" /\ c.op # "barrier"
        BY <1>2, <1>3 DEF Ops, L
      <4>3. BarrierBetween(d, k)
        BY <1>2, <1>7, <3>2, <4>1, <4>2 DEF InOrder, BarrierBetween
      <4>4. i = <<i[1], i[2]>> /\ i[2] \in 0 .. X[T] - 1
        BY Invocation
      <4>5. d \in performed[<<i[1], i[2]>>]
        BY <1>2, <1>6, <1>7, <4>3, <4>4
      <4> QED BY <4>4, <4>5
    <3> QED BY <3>1, <3>2
  <2> QED BY <1>7, <2>1 DEF DoneOf
<1>8. ASSUME NEW d \in Ops(n), d < k, Litmuses[n].parted, \E b \in d .. k : L.code[b].op = "barrier"
      PROVE  d \in DoneOf(ko)
  <2>1. BarrierBetween(d, k)
    BY <1>2, <1>8 DEF BarrierBetween
  <2>2. T = "intra"
    BY <1>1, <1>8, TestFacts
  <2> DEFINE q == L.code[d].role
             r == c.role
  <2>3. q \in {0, 1} /\ r \in {0, 1} /\ ko = Instance(i, r)
    BY <1>2, <1>3
  <2> HIDE DEF q, r
  <2>4. ko \in Instances
    BY <1>1, <2>3, InstanceRange
  <2>5. PICK j \in Invocations : Instance(j, q) = ko
    BY <1>1, <2>3, <2>4, SomeInvocation
  <2>6. j[1] = i[1]
    BY <1>1, <2>2, <2>3, <2>5, SameWorkgroup
  <2>7. j = <<i[1], j[2]>> /\ j[2] \in 0 .. X[T] - 1
    BY <2>6, Invocation
  <2>8. d \in performed[<<i[1], j[2]>>]
    BY <1>2, <1>6, <1>8, <2>1, <2>7
  <2>9. d \in performed[j]
    BY <2>7, <2>8
  <2> QED BY <2>5, <2>9 DEF DoneOf, q
<1> QED BY <1>2, <1>5, <1>7, <1>8 DEF Comes, L

LEMMA PerformInterleaved ==
  ASSUME TypeOK, Interleaved, NEW i \in Invocations, NEW k \in Accesses, Perform(i, k)
  PROVE  Interleaved'
<1>1. test' = test /\ gpu' = gpu /\ test \in Suite /\ gpu \in Gpus
  BY DEF TypeOK, Perform
<1> SUFFICES ASSUME gpu = "conforming", NEW o \in Invocations
             PROVE  <<DoneOf(Instance(o, 0))', LeftBy(o)'>> \in Partial(test.name)
  BY <1>1, TestStays DEF Interleaved, DoneOf
<1> DEFINE n == test.name
           c == L.code[k]
           ko == Instance(o, 0)
<1>2. <<DoneOf(ko), LeftBy(o)>> \in Partial(n) /\ n \in DOMAIN Litmuses
  BY <1>1, TestFacts DEF Interleaved
<1>3. /\ k \in Ops(n)
      /\ ko # Instance(i, c.role) => LeftBy(o)' = LeftBy(o)
      /\ ko = Instance(i, c.role) => LeftBy(o)' = After(n, LeftBy(o), c)
  BY PerformLeaves
<1>4. performed' = [performed EXCEPT ![i] = @ \cup {k}] /\ performed \in [Invocations -> SUBSET Accesses]
  BY DEF Perform, TypeOK
<1>5. DoneOf(ko)' = {d \in Ops(n) : \E j \in Invocations : Instance(j, L.code[d].role) = ko /\ d \in performed'[j]}
  BY <1>1, TestStays DEF DoneOf
<1>6. CASE ko # Instance(i, c.role)
  <2>1. DoneOf(ko)' = DoneOf(ko)
    BY <1>4, <1>5, <1>6 DEF DoneOf
  <2> QED BY <1>2, <1>3, <1>6, <2>1
<1>7. CASE ko = Instance(i, c.role)
  <2>1. DoneOf(ko)' = DoneOf(ko) \cup {k}
    BY <1>3, <1>4, <1>5, <1>7 DEF DoneOf
  <2>2. k \in Ops(n) \ DoneOf(ko) /\ Comes(n, k, DoneOf(ko))
    BY <1>7, PerformComes
  <2>3. <<DoneOf(ko) \cup {k}, After(n, LeftBy(o), Litmuses[n].code[k])>> \in Partial(n)
    <3> DEFINE done == DoneOf(ko)
               s == LeftBy(o)
    <3>1. <<done, s>> \in Partial(n) /\ k \in Ops(n) \ done /\ Comes(n, k, done)
      BY <1>2, <2>2
    <3> HIDE DEF done, s, n
    <3>2. <<done \cup {k}, After(n, s, Litmuses[n].code[k])>> \in Partial(n)
      BY <1>2, <3>1, PartialGoesOn
    <3> QED BY <3>2 DEF done, s
  <2> QED BY <1>3, <1>7, <2>1, <2>3 DEF L
<1> QED BY <1>6, <1>7

LEMMA SetUpInterleaved ==
  ASSUME TypeOK, SetUp
  PROVE  Interleaved'
<1>1. test' = test /\ gpu' = gpu /\ test \in Suite
  BY DEF SetUp, TypeOK
<1> SUFFICES ASSUME NEW i \in Invocations
             PROVE  <<DoneOf(Instance(i, 0))', LeftBy(i)'>> \in Partial(test.name)
  BY <1>1, TestStays DEF Interleaved, DoneOf
<1>2. /\ performed' = [j \in Invocations |-> {}] /\ memory' = Zero
      /\ results' = [k \in Instances |-> [r0 |-> 0, r1 |-> 0]]
  BY DEF SetUp, ResetDevice
<1>3. DoneOf(Instance(i, 0))' = {}
  BY <1>1, <1>2, TestStays DEF DoneOf
<1>4. /\ Space(i[1]) \in Spaces /\ Word(i, 0, "x") \in Words /\ Word(i, 0, "y") \in Words
      /\ Instance(i, 0) \in Instances
  BY <1>1, CellRange, InstanceRange
<1>5. LeftBy(i)' = State(memory'[Space(i[1])][Word(i, 0, "x")],
                         IF Params.aliased THEN 0 ELSE memory'[Space(i[1])][Word(i, 0, "y")],
                         results'[Instance(i, 0)].r0, results'[Instance(i, 0)].r1)
  BY <1>1, TestStays DEF LeftBy, State
<1>6. LeftBy(i)' = Fresh
  BY <1>2, <1>4, <1>5 DEF Zero, Fresh
<1> QED BY <1>1, <1>3, <1>6, TestFacts, PartialStarts

LEMMA EndInterleaved ==
  ASSUME TypeOK, Interleaved, NEW i \in Invocations, End(i)
  PROVE  Interleaved'
<1>1. test' = test /\ gpu' = gpu /\ performed' = performed /\ results' = results /\ test \in Suite
  BY DEF TypeOK, End
<1>2. ASSUME NEW o \in Invocations PROVE memory'[Space(o[1])] = memory[Space(o[1])]
  <2>1. CopiesBack => Space(o[1]) \in Spaces \ {-1}
    <3>1. o[1] \in Workgroups /\ Space(o[1]) \in Spaces
      BY <1>1, Invocation, CellRange DEF Workgroups
    <3> QED BY <1>1, <3>1, BackFacts
  <2> QED BY <2>1, EndEffect
<1> QED BY <1>1, <1>2, TestStays DEF Interleaved, DoneOf, LeftBy, State

LEMMA OtherInterleaved ==
  ASSUME Interleaved, test' = test /\ gpu' = gpu /\ performed' = performed /\ memory' = memory /\ results' = results
  PROVE  Interleaved'
BY TestStays DEF Interleaved, DoneOf, LeftBy, State

-----------------------------------------------------------------------------
(* What the result shader sees is what the instances have left. *)

(* What is seen of the memory is copied back where that is needed. *)
Copied(l) ==
  \A f \in DOMAIN l.sees :
    /\ l.sees[f] = "mx" => \E r \in {0, 1} : <<r, "x">> \in l.back
    /\ l.sees[f] = "my" => \E r \in {0, 1} : <<r, "y">> \in l.back

LEMMA AllCopied == \A l \in AllLitmuses : Copied(l)
<1> USE DEF Copied, Litmus
<1>1. Copied(MessagePassing) /\ Copied(StoreTest) /\ Copied(LoadBuffer)
  BY DEF MessagePassing, StoreTest, LoadBuffer
<1>2. Copied(ReadTest) /\ Copied(StoreBuffer) /\ Copied(TwoPlusTwoWrite)
  BY DEF ReadTest, StoreBuffer, TwoPlusTwoWrite
<1>3. Copied(CoRR) /\ Copied(CoWW) /\ Copied(CoWR) /\ Copied(CoRW1) /\ Copied(CoRW2)
  BY DEF CoRR, CoWW, CoWR, CoRW1, CoRW2
<1>4. Copied(Atomicity) /\ Copied(BarrierLoadStore) /\ Copied(BarrierStoreLoad) /\ Copied(BarrierStoreStore)
  BY DEF Atomicity, BarrierLoadStore, BarrierStoreLoad, BarrierStoreStore
<1> HIDE DEF Copied, Litmus
<1> QED BY <1>1, <1>2, <1>3, <1>4 DEF AllLitmuses

LEMMA AllEnd ==
  ASSUME TypeOK, EveryoneIsShuffled, CopiesAreTrue, pc = "test", TestPassOver, NEW i \in Invocations
  PROVE  stage[i] = "end" /\ performed[i] = Accesses
<1>1. i[1] \in Workgroups
  BY Invocation DEF Workgroups
<1>2. \E p \in dispatched : shuffled[p] = i[1]
  BY <1>1 DEF EveryoneIsShuffled, TestPassOver
<1>3. stage[i] = "end"
  BY <1>2 DEF TestPassOver
<1> QED BY <1>3 DEF CopiesAreTrue

LEMMA CopiesLeft ==
  ASSUME TypeOK, EveryoneIsShuffled, CopiesAreTrue, pc = "test", TestPassOver, NEW o \in Invocations,
         NEW at \in {"x", "y"}, \E r \in {0, 1} : <<r, at>> \in L.back
  PROVE  memory[-1][ResultWord(Instance(o, 0), at)] = memory[Space(o[1])][Word(o, 0, at)]
<1> DEFINE k == Instance(o, 0)
<1>1. test \in Suite /\ k \in Instances
  BY InstanceRange DEF TypeOK
<1>2. PICK r \in {0, 1} : <<r, at>> \in L.back
  OBVIOUS
<1>3. CASE CopiesBack
  <2>1. PICK i \in Invocations : Instance(i, r) = k
    BY <1>1, SomeInvocation
  <2>2. stage[i] = "end"
    BY <2>1, AllEnd
  <2> DEFINE b == <<r, at>>
  <2>3. b \in L.back /\ b[1] = r /\ b[2] = at
    BY <1>2
  <2>4. memory[-1][CopyTo(i, b)] = memory[Space(i[1])][Word(i, b[1], b[2])]
    <3> HIDE DEF b
    <3> QED BY <1>3, <2>2, <2>3 DEF CopiesAreTrue
  <2>5. CopyTo(i, <<r, at>>) = ResultWord(k, at)
    BY <1>1, <2>1, ResultWords
  <2>6. Cell(i, r, at) = Cell(o, 0, at)
    BY <1>1, <2>1, CellsMeet
  <2> QED BY <2>3, <2>4, <2>5, <2>6 DEF Cell
<1>4. CASE ~CopiesBack
  <2>1. Space(0) = -1
    BY <1>2, <1>4 DEF CopiesBack
  <2>2. ~InWorkgroupMemory /\ test.memType # "non_atomic_texture"
    BY <2>1 DEF Space
  <2>3. Space(o[1]) = -1
    BY <2>2 DEF Space
  <2>4. CopyTo(o, <<0, at>>) = ResultWord(k, at) /\ CopyTo(o, <<0, at>>) = Word(o, 0, at)
    BY <1>1, <2>2, ResultWords
  <2> QED BY <2>3, <2>4
<1> QED BY <1>3, <1>4

LEMMA Observes ==
  ASSUME TypeOK, EveryoneIsShuffled, CopiesAreTrue, pc = "test", TestPassOver, NEW o \in Invocations
  PROVE  Observed(Instance(o, 0)) = Seen(test.name, LeftBy(o))
<1> DEFINE k == Instance(o, 0)
           n == test.name
           s == LeftBy(o)
           seen(f) == CASE f = "r0" -> results[k].r0 [] f = "r1" -> results[k].r1
                        [] f = "mx" -> memory[-1][XWord(0, k)]
                        [] f = "my" -> memory[-1][YWord(ResultBase(k), k - ResultBase(k))]
           left(f) == CASE f = "mx" -> s.x [] f = "my" -> s[Where(n, "y")] [] OTHER -> s[f]
<1>1. test \in Suite /\ n \in DOMAIN Litmuses /\ L = Litmuses[n]
  BY TestFacts DEF TypeOK, L
<1>2. L.sees \in Seq({"r0", "r1", "mx", "my"}) /\ Copied(L)
  BY <1>1, Codes, LitmusOfName, AllCopied DEF Shape
<1>3. s.r0 = results[k].r0 /\ s.r1 = results[k].r1 /\ s.x = memory[Space(o[1])][Word(o, 0, "x")]
  BY DEF LeftBy, State
<1>4. s[Where(n, "y")] = memory[Space(o[1])][Word(o, 0, "y")]
  <2>1. CASE Params.aliased
    <3>1. Where(n, "y") = "x"
      BY <2>1 DEF Where, Params
    <3>2. Cell(o, 0, "x") = Cell(o, 0, "y")
      BY <1>1, <2>1, CellsMeet
    <3> QED BY <1>3, <3>1, <3>2 DEF Cell
  <2>2. CASE ~Params.aliased
    <3>1. Where(n, "y") = "y"
      BY <2>2 DEF Where, Params
    <3> QED BY <2>2, <3>1 DEF LeftBy, State
  <2> QED BY <2>1, <2>2
<1>5. ASSUME NEW f \in DOMAIN L.sees PROVE seen(L.sees[f]) = left(L.sees[f])
  <2>1. L.sees[f] \in {"r0", "r1", "mx", "my"}
    BY <1>2
  <2>2. CASE L.sees[f] = "mx"
    <3>1. memory[-1][ResultWord(k, "x")] = memory[Space(o[1])][Word(o, 0, "x")]
      BY <1>2, <2>2, CopiesLeft DEF Copied
    <3>2. seen(L.sees[f]) = memory[-1][ResultWord(k, "x")] /\ left(L.sees[f]) = s.x
      BY <2>2 DEF ResultWord
    <3> QED BY <1>3, <3>1, <3>2
  <2>3. CASE L.sees[f] = "my"
    <3>1. memory[-1][ResultWord(k, "y")] = memory[Space(o[1])][Word(o, 0, "y")]
      BY <1>2, <2>3, CopiesLeft DEF Copied
    <3>2. seen(L.sees[f]) = memory[-1][ResultWord(k, "y")] /\ left(L.sees[f]) = s[Where(n, "y")]
      BY <2>3 DEF ResultWord
    <3> QED BY <1>4, <3>1, <3>2
  <2>4. CASE L.sees[f] = "r0"
    <3>1. seen(L.sees[f]) = results[k].r0 /\ left(L.sees[f]) = s.r0
      BY <2>4
    <3> QED BY <1>3, <3>1
  <2>5. CASE L.sees[f] = "r1"
    <3>1. seen(L.sees[f]) = results[k].r1 /\ left(L.sees[f]) = s.r1
      BY <2>5
    <3> QED BY <1>3, <3>1
  <2> QED BY <2>1, <2>2, <2>3, <2>4, <2>5
<1>6. Observed(k) = [f \in DOMAIN L.sees |-> seen(L.sees[f])]
  BY Zenon DEF Observed
<1>7. Seen(n, s) = [f \in DOMAIN L.sees |-> left(L.sees[f])]
  BY <1>1, Zenon DEF Seen
<1> HIDE DEF seen, left
<1> QED BY <1>5, <1>6, <1>7

(* On a conforming GPU all that is seen is an interleaving. *)
LEMMA ConformingIsSeen ==
  ASSUME TypeOK, EveryoneIsShuffled, CopiesAreTrue, Interleaved, gpu = "conforming",
         pc = "test", TestPassOver, NEW k \in Instances
  PROVE  Observed(k) \in Interleavings[test.name]
<1> DEFINE n == test.name
<1>1. test \in Suite /\ gpu \in Gpus /\ n \in DOMAIN Litmuses
  BY TestFacts DEF TypeOK
<1>2. PICK o \in Invocations : Instance(o, 0) = k
  BY <1>1, SomeInvocation
<1>3. DoneOf(k) = Ops(n)
  <2> SUFFICES ASSUME NEW c \in Ops(n) PROVE c \in DoneOf(k)
    BY DEF DoneOf
  <2>1. L.code[c].role \in {0, 1}
    BY <1>1, Codes DEF L, Proper
  <2>2. PICK i \in Invocations : Instance(i, L.code[c].role) = k
    BY <1>1, <2>1, SomeInvocation
  <2>3. c \in performed[i]
    BY <1>1, <2>2, AllEnd, Performs
  <2> QED BY <2>2, <2>3 DEF DoneOf
<1>4. <<Ops(n), LeftBy(o)>> \in Partial(n)
  BY <1>2, <1>3 DEF Interleaved
<1>5. Observed(k) = Seen(n, LeftBy(o))
  BY <1>2, Observes
<1>6. Interleavings[n] = {Seen(n, p[2]) : p \in {p \in Partial(n) : p[1] = Ops(n)}}
  BY <1>1 DEF Interleavings
<1> DEFINE q == <<Ops(n), LeftBy(o)>>
<1>7. q \in Partial(n) /\ q[1] = Ops(n) /\ q[2] = LeftBy(o)
  BY <1>4
<1> HIDE DEF q, n
<1> QED BY <1>5, <1>6, <1>7 DEF n

-----------------------------------------------------------------------------
(* The tests one by one: what comes before what, and what it does. *)

LEMMA MessagePassingSteps ==
  LET n == "message_passing"
      code == Litmuses[n].code
  IN /\ n \in DOMAIN Litmuses /\ Ops(n) = {1, 3, 4, 6}
     /\ \A done : /\ Comes(n, 1, done) /\ (Comes(n, 3, done) <=> 1 \in done)
                  /\ Comes(n, 4, done) /\ (Comes(n, 6, done) <=> 4 \in done)
     /\ \A x, y, a, b :
          /\ After(n, State(x, y, a, b), code[1]) = State(1, y, a, b)
          /\ After(n, State(x, y, a, b), code[3]) = State(x, 1, a, b)
          /\ After(n, State(x, y, a, b), code[4]) = State(x, y, y, b)
          /\ After(n, State(x, y, a, b), code[6]) = State(x, y, a, x)
          /\ Seen(n, State(x, y, a, b)) = <<a, b>>
<1> DEFINE n == "message_passing"
           l == Litmuses[n]
<1>1. n \in DOMAIN Litmuses /\ l = MessagePassing /\ Presets[n].aliased = FALSE
  BY DEF Litmuses, Presets, kAtomicityTestParams, kBarrierTestParams, kCoherenceTestParams, kWeakTestParams
<1>2. /\ l.code = <<Store(0, "x", 1), Barrier, Store(0, "y", 1), Load(1, "y", "r0"), Barrier, Load(1, "x", "r1")>>
      /\ l.sees = <<"r0", "r1">> /\ l.parted = FALSE
  BY <1>1 DEF MessagePassing, Litmus
<1> HIDE DEF l
<1>3. Ops(n) = {1, 3, 4, 6}
  BY <1>2 DEF Ops, l, Store, Load, Add0, Barrier
<1>4. \A done : /\ Comes(n, 1, done) /\ (Comes(n, 3, done) <=> 1 \in done)
                /\ Comes(n, 4, done) /\ (Comes(n, 6, done) <=> 4 \in done)
  BY <1>2, <1>3 DEF Comes, l, Store, Load, Add0, Barrier
<1>5. \A x, y, a, b : After(n, State(x, y, a, b), l.code[1]) = State(1, y, a, b)
  BY <1>1, <1>2 DEF After, Where, State, Store
<1>6. \A x, y, a, b : After(n, State(x, y, a, b), l.code[3]) = State(x, 1, a, b)
  BY <1>1, <1>2 DEF After, Where, State, Store
<1>7. \A x, y, a, b : After(n, State(x, y, a, b), l.code[4]) = State(x, y, y, b)
  <2>1. 4 \in Ops(n) /\ l.code[4].op # "store" /\ l.code[4].at = "y" /\ l.code[4].reg = "r0"
    BY <1>2, <1>3 DEF Load
  <2> QED BY <1>1, <2>1, AfterState DEF l
<1>8. \A x, y, a, b : After(n, State(x, y, a, b), l.code[6]) = State(x, y, a, x)
  <2>1. 6 \in Ops(n) /\ l.code[6].op # "store" /\ l.code[6].at = "x" /\ l.code[6].reg = "r1"
    BY <1>2, <1>3 DEF Load
  <2> QED BY <1>1, <2>1, AfterState DEF l
<1>9. \A x, y, a, b : Seen(n, State(x, y, a, b)) = <<a, b>>
  BY <1>1, <1>2 DEF Seen, Where, State, l
<1> QED BY <1>1, <1>3, <1>4, <1>5, <1>6, <1>7, <1>8, <1>9 DEF l

LEMMA StoreTestSteps ==
  LET n == "store"
      code == Litmuses[n].code
  IN /\ n \in DOMAIN Litmuses /\ Ops(n) = {1, 3, 4, 6}
     /\ \A done : /\ Comes(n, 1, done) /\ (Comes(n, 3, done) <=> 1 \in done)
                  /\ Comes(n, 4, done) /\ (Comes(n, 6, done) <=> 4 \in done)
     /\ \A x, y, a, b :
          /\ After(n, State(x, y, a, b), code[1]) = State(2, y, a, b)
          /\ After(n, State(x, y, a, b), code[3]) = State(x, 1, a, b)
          /\ After(n, State(x, y, a, b), code[4]) = State(x, y, y, b)
          /\ After(n, State(x, y, a, b), code[6]) = State(1, y, a, b)
          /\ Seen(n, State(x, y, a, b)) = <<a, x>>
<1> DEFINE n == "store"
           l == Litmuses[n]
<1>1. n \in DOMAIN Litmuses /\ l = StoreTest /\ Presets[n].aliased = FALSE
  BY DEF Litmuses, Presets, kAtomicityTestParams, kBarrierTestParams, kCoherenceTestParams, kWeakTestParams
<1>2. /\ l.code = <<Store(0, "x", 2), Barrier, Store(0, "y", 1), Load(1, "y", "r0"), Barrier, Store(1, "x", 1)>>
      /\ l.sees = <<"r0", "mx">> /\ l.parted = FALSE
  BY <1>1 DEF StoreTest, Litmus
<1> HIDE DEF l
<1>3. Ops(n) = {1, 3, 4, 6}
  BY <1>2 DEF Ops, l, Store, Load, Add0, Barrier
<1>4. \A done : /\ Comes(n, 1, done) /\ (Comes(n, 3, done) <=> 1 \in done)
                /\ Comes(n, 4, done) /\ (Comes(n, 6, done) <=> 4 \in done)
  BY <1>2, <1>3 DEF Comes, l, Store, Load, Add0, Barrier
<1>5. \A x, y, a, b : After(n, State(x, y, a, b), l.code[1]) = State(2, y, a, b)
  BY <1>1, <1>2 DEF After, Where, State, Store
<1>6. \A x, y, a, b : After(n, State(x, y, a, b), l.code[3]) = State(x, 1, a, b)
  BY <1>1, <1>2 DEF After, Where, State, Store
<1>7. \A x, y, a, b : After(n, State(x, y, a, b), l.code[4]) = State(x, y, y, b)
  <2>1. 4 \in Ops(n) /\ l.code[4].op # "store" /\ l.code[4].at = "y" /\ l.code[4].reg = "r0"
    BY <1>2, <1>3 DEF Load
  <2> QED BY <1>1, <2>1, AfterState DEF l
<1>8. \A x, y, a, b : After(n, State(x, y, a, b), l.code[6]) = State(1, y, a, b)
  BY <1>1, <1>2 DEF After, Where, State, Store
<1>9. \A x, y, a, b : Seen(n, State(x, y, a, b)) = <<a, x>>
  BY <1>1, <1>2 DEF Seen, Where, State, l
<1> QED BY <1>1, <1>3, <1>4, <1>5, <1>6, <1>7, <1>8, <1>9 DEF l

LEMMA LoadBufferSteps ==
  LET n == "load_buffer"
      code == Litmuses[n].code
  IN /\ n \in DOMAIN Litmuses /\ Ops(n) = {1, 3, 4, 6}
     /\ \A done : /\ Comes(n, 1, done) /\ (Comes(n, 3, done) <=> 1 \in done)
                  /\ Comes(n, 4, done) /\ (Comes(n, 6, done) <=> 4 \in done)
     /\ \A x, y, a, b :
          /\ After(n, State(x, y, a, b), code[1]) = State(x, y, y, b)
          /\ After(n, State(x, y, a, b), code[3]) = State(1, y, a, b)
          /\ After(n, State(x, y, a, b), code[4]) = State(x, y, a, x)
          /\ After(n, State(x, y, a, b), code[6]) = State(x, 1, a, b)
          /\ Seen(n, State(x, y, a, b)) = <<a, b>>
<1> DEFINE n == "load_buffer"
           l == Litmuses[n]
<1>1. n \in DOMAIN Litmuses /\ l = LoadBuffer /\ Presets[n].aliased = FALSE
  BY DEF Litmuses, Presets, kAtomicityTestParams, kBarrierTestParams, kCoherenceTestParams, kWeakTestParams
<1>2. /\ l.code = <<Load(0, "y", "r0"), Barrier, Store(0, "x", 1), Load(1, "x", "r1"), Barrier, Store(1, "y", 1)>>
      /\ l.sees = <<"r0", "r1">> /\ l.parted = FALSE
  BY <1>1 DEF LoadBuffer, Litmus
<1> HIDE DEF l
<1>3. Ops(n) = {1, 3, 4, 6}
  BY <1>2 DEF Ops, l, Store, Load, Add0, Barrier
<1>4. \A done : /\ Comes(n, 1, done) /\ (Comes(n, 3, done) <=> 1 \in done)
                /\ Comes(n, 4, done) /\ (Comes(n, 6, done) <=> 4 \in done)
  BY <1>2, <1>3 DEF Comes, l, Store, Load, Add0, Barrier
<1>5. \A x, y, a, b : After(n, State(x, y, a, b), l.code[1]) = State(x, y, y, b)
  <2>1. 1 \in Ops(n) /\ l.code[1].op # "store" /\ l.code[1].at = "y" /\ l.code[1].reg = "r0"
    BY <1>2, <1>3 DEF Load
  <2> QED BY <1>1, <2>1, AfterState DEF l
<1>6. \A x, y, a, b : After(n, State(x, y, a, b), l.code[3]) = State(1, y, a, b)
  BY <1>1, <1>2 DEF After, Where, State, Store
<1>7. \A x, y, a, b : After(n, State(x, y, a, b), l.code[4]) = State(x, y, a, x)
  <2>1. 4 \in Ops(n) /\ l.code[4].op # "store" /\ l.code[4].at = "x" /\ l.code[4].reg = "r1"
    BY <1>2, <1>3 DEF Load
  <2> QED BY <1>1, <2>1, AfterState DEF l
<1>8. \A x, y, a, b : After(n, State(x, y, a, b), l.code[6]) = State(x, 1, a, b)
  BY <1>1, <1>2 DEF After, Where, State, Store
<1>9. \A x, y, a, b : Seen(n, State(x, y, a, b)) = <<a, b>>
  BY <1>1, <1>2 DEF Seen, Where, State, l
<1> QED BY <1>1, <1>3, <1>4, <1>5, <1>6, <1>7, <1>8, <1>9 DEF l

LEMMA ReadTestSteps ==
  LET n == "read"
      code == Litmuses[n].code
  IN /\ n \in DOMAIN Litmuses /\ Ops(n) = {1, 3, 4, 6}
     /\ \A done : /\ Comes(n, 1, done) /\ (Comes(n, 3, done) <=> 1 \in done)
                  /\ Comes(n, 4, done) /\ (Comes(n, 6, done) <=> 4 \in done)
     /\ \A x, y, a, b :
          /\ After(n, State(x, y, a, b), code[1]) = State(1, y, a, b)
          /\ After(n, State(x, y, a, b), code[3]) = State(x, 1, a, b)
          /\ After(n, State(x, y, a, b), code[4]) = State(x, 2, a, b)
          /\ After(n, State(x, y, a, b), code[6]) = State(x, y, x, b)
          /\ Seen(n, State(x, y, a, b)) = <<a, y>>
<1> DEFINE n == "read"
           l == Litmuses[n]
<1>1. n \in DOMAIN Litmuses /\ l = ReadTest /\ Presets[n].aliased = FALSE
  BY DEF Litmuses, Presets, kAtomicityTestParams, kBarrierTestParams, kCoherenceTestParams, kWeakTestParams
<1>2. /\ l.code = <<Store(0, "x", 1), Barrier, Store(0, "y", 1), Store(1, "y", 2), Barrier, Load(1, "x", "r0")>>
      /\ l.sees = <<"r0", "my">> /\ l.parted = FALSE
  BY <1>1 DEF ReadTest, Litmus
<1> HIDE DEF l
<1>3. Ops(n) = {1, 3, 4, 6}
  BY <1>2 DEF Ops, l, Store, Load, Add0, Barrier
<1>4. \A done : /\ Comes(n, 1, done) /\ (Comes(n, 3, done) <=> 1 \in done)
                /\ Comes(n, 4, done) /\ (Comes(n, 6, done) <=> 4 \in done)
  BY <1>2, <1>3 DEF Comes, l, Store, Load, Add0, Barrier
<1>5. \A x, y, a, b : After(n, State(x, y, a, b), l.code[1]) = State(1, y, a, b)
  BY <1>1, <1>2 DEF After, Where, State, Store
<1>6. \A x, y, a, b : After(n, State(x, y, a, b), l.code[3]) = State(x, 1, a, b)
  BY <1>1, <1>2 DEF After, Where, State, Store
<1>7. \A x, y, a, b : After(n, State(x, y, a, b), l.code[4]) = State(x, 2, a, b)
  BY <1>1, <1>2 DEF After, Where, State, Store
<1>8. \A x, y, a, b : After(n, State(x, y, a, b), l.code[6]) = State(x, y, x, b)
  <2>1. 6 \in Ops(n) /\ l.code[6].op # "store" /\ l.code[6].at = "x" /\ l.code[6].reg = "r0"
    BY <1>2, <1>3 DEF Load
  <2> QED BY <1>1, <2>1, AfterState DEF l
<1>9. \A x, y, a, b : Seen(n, State(x, y, a, b)) = <<a, y>>
  BY <1>1, <1>2 DEF Seen, Where, State, l
<1> QED BY <1>1, <1>3, <1>4, <1>5, <1>6, <1>7, <1>8, <1>9 DEF l

LEMMA StoreBufferSteps ==
  LET n == "store_buffer"
      code == Litmuses[n].code
  IN /\ n \in DOMAIN Litmuses /\ Ops(n) = {1, 3, 4, 6}
     /\ \A done : /\ Comes(n, 1, done) /\ (Comes(n, 3, done) <=> 1 \in done)
                  /\ Comes(n, 4, done) /\ (Comes(n, 6, done) <=> 4 \in done)
     /\ \A x, y, a, b :
          /\ After(n, State(x, y, a, b), code[1]) = State(1, y, a, b)
          /\ After(n, State(x, y, a, b), code[3]) = State(x, y, y, b)
          /\ After(n, State(x, y, a, b), code[4]) = State(x, 1, a, b)
          /\ After(n, State(x, y, a, b), code[6]) = State(x, y, a, x)
          /\ Seen(n, State(x, y, a, b)) = <<a, b>>
<1> DEFINE n == "store_buffer"
           l == Litmuses[n]
<1>1. n \in DOMAIN Litmuses /\ l = StoreBuffer /\ Presets[n].aliased = FALSE
  BY DEF Litmuses, Presets, kAtomicityTestParams, kBarrierTestParams, kCoherenceTestParams, kWeakTestParams
<1>2. /\ l.code = <<Store(0, "x", 1), Barrier, Add0(0, "y", "r0"), Store(1, "y", 1), Barrier, Load(1, "x", "r1")>>
      /\ l.sees = <<"r0", "r1">> /\ l.parted = FALSE
  BY <1>1 DEF StoreBuffer, Litmus
<1> HIDE DEF l
<1>3. Ops(n) = {1, 3, 4, 6}
  BY <1>2 DEF Ops, l, Store, Load, Add0, Barrier
<1>4. \A done : /\ Comes(n, 1, done) /\ (Comes(n, 3, done) <=> 1 \in done)
                /\ Comes(n, 4, done) /\ (Comes(n, 6, done) <=> 4 \in done)
  BY <1>2, <1>3 DEF Comes, l, Store, Load, Add0, Barrier
<1>5. \A x, y, a, b : After(n, State(x, y, a, b), l.code[1]) = State(1, y, a, b)
  BY <1>1, <1>2 DEF After, Where, State, Store
<1>6. \A x, y, a, b : After(n, State(x, y, a, b), l.code[3]) = State(x, y, y, b)
  <2>1. 3 \in Ops(n) /\ l.code[3].op # "store" /\ l.code[3].at = "y" /\ l.code[3].reg = "r0"
    BY <1>2, <1>3 DEF Add0
  <2> QED BY <1>1, <2>1, AfterState DEF l
<1>7. \A x, y, a, b : After(n, State(x, y, a, b), l.code[4]) = State(x, 1, a, b)
  BY <1>1, <1>2 DEF After, Where, State, Store
<1>8. \A x, y, a, b : After(n, State(x, y, a, b), l.code[6]) = State(x, y, a, x)
  <2>1. 6 \in Ops(n) /\ l.code[6].op # "store" /\ l.code[6].at = "x" /\ l.code[6].reg = "r1"
    BY <1>2, <1>3 DEF Load
  <2> QED BY <1>1, <2>1, AfterState DEF l
<1>9. \A x, y, a, b : Seen(n, State(x, y, a, b)) = <<a, b>>
  BY <1>1, <1>2 DEF Seen, Where, State, l
<1> QED BY <1>1, <1>3, <1>4, <1>5, <1>6, <1>7, <1>8, <1>9 DEF l

LEMMA TwoPlusTwoWriteSteps ==
  LET n == "two_plus_two"
      code == Litmuses[n].code
  IN /\ n \in DOMAIN Litmuses /\ Ops(n) = {1, 3, 4, 6}
     /\ \A done : /\ Comes(n, 1, done) /\ (Comes(n, 3, done) <=> 1 \in done)
                  /\ Comes(n, 4, done) /\ (Comes(n, 6, done) <=> 4 \in done)
     /\ \A x, y, a, b :
          /\ After(n, State(x, y, a, b), code[1]) = State(2, y, a, b)
          /\ After(n, State(x, y, a, b), code[3]) = State(x, 1, a, b)
          /\ After(n, State(x, y, a, b), code[4]) = State(x, 2, a, b)
          /\ After(n, State(x, y, a, b), code[6]) = State(1, y, a, b)
          /\ Seen(n, State(x, y, a, b)) = <<x, y>>
<1> DEFINE n == "two_plus_two"
           l == Litmuses[n]
<1>1. n \in DOMAIN Litmuses /\ l = TwoPlusTwoWrite /\ Presets[n].aliased = FALSE
  BY DEF Litmuses, Presets, kAtomicityTestParams, kBarrierTestParams, kCoherenceTestParams, kWeakTestParams
<1>2. /\ l.code = <<Store(0, "x", 2), Barrier, Store(0, "y", 1), Store(1, "y", 2), Barrier, Store(1, "x", 1)>>
      /\ l.sees = <<"mx", "my">> /\ l.parted = FALSE
  BY <1>1 DEF TwoPlusTwoWrite, Litmus
<1> HIDE DEF l
<1>3. Ops(n) = {1, 3, 4, 6}
  BY <1>2 DEF Ops, l, Store, Load, Add0, Barrier
<1>4. \A done : /\ Comes(n, 1, done) /\ (Comes(n, 3, done) <=> 1 \in done)
                /\ Comes(n, 4, done) /\ (Comes(n, 6, done) <=> 4 \in done)
  BY <1>2, <1>3 DEF Comes, l, Store, Load, Add0, Barrier
<1>5. \A x, y, a, b : After(n, State(x, y, a, b), l.code[1]) = State(2, y, a, b)
  BY <1>1, <1>2 DEF After, Where, State, Store
<1>6. \A x, y, a, b : After(n, State(x, y, a, b), l.code[3]) = State(x, 1, a, b)
  BY <1>1, <1>2 DEF After, Where, State, Store
<1>7. \A x, y, a, b : After(n, State(x, y, a, b), l.code[4]) = State(x, 2, a, b)
  BY <1>1, <1>2 DEF After, Where, State, Store
<1>8. \A x, y, a, b : After(n, State(x, y, a, b), l.code[6]) = State(1, y, a, b)
  BY <1>1, <1>2 DEF After, Where, State, Store
<1>9. \A x, y, a, b : Seen(n, State(x, y, a, b)) = <<x, y>>
  BY <1>1, <1>2 DEF Seen, Where, State, l
<1> QED BY <1>1, <1>3, <1>4, <1>5, <1>6, <1>7, <1>8, <1>9 DEF l

LEMMA CoRRSteps ==
  LET n == "corr"
      code == Litmuses[n].code
  IN /\ n \in DOMAIN Litmuses /\ Ops(n) = {1, 2, 3}
     /\ \A done : Comes(n, 1, done) /\ Comes(n, 2, done) /\ (Comes(n, 3, done) <=> 2 \in done)
     /\ \A x, y, a, b :
          /\ After(n, State(x, y, a, b), code[1]) = State(1, y, a, b)
          /\ After(n, State(x, y, a, b), code[2]) = State(x, y, x, b)
          /\ After(n, State(x, y, a, b), code[3]) = State(x, y, a, x)
          /\ Seen(n, State(x, y, a, b)) = <<a, b>>
<1> DEFINE n == "corr"
           l == Litmuses[n]
<1>1. n \in DOMAIN Litmuses /\ l = CoRR /\ Presets[n].aliased = TRUE
  BY DEF Litmuses, Presets, kAtomicityTestParams, kBarrierTestParams, kCoherenceTestParams, kWeakTestParams
<1>2. /\ l.code = <<Store(0, "x", 1), Load(1, "x", "r0"), Load(1, "y", "r1")>>
      /\ l.sees = <<"r0", "r1">> /\ l.parted = FALSE
  BY <1>1 DEF CoRR, Litmus
<1> HIDE DEF l
<1>3. Ops(n) = {1, 2, 3}
  BY <1>2 DEF Ops, l, Store, Load, Add0, Barrier
<1>4. \A done : Comes(n, 1, done) /\ Comes(n, 2, done) /\ (Comes(n, 3, done) <=> 2 \in done)
  BY <1>2, <1>3 DEF Comes, l, Store, Load, Add0, Barrier
<1>5. \A x, y, a, b : After(n, State(x, y, a, b), l.code[1]) = State(1, y, a, b)
  BY <1>1, <1>2 DEF After, Where, State, Store
<1>6. \A x, y, a, b : After(n, State(x, y, a, b), l.code[2]) = State(x, y, x, b)
  <2>1. 2 \in Ops(n) /\ l.code[2].op # "store" /\ l.code[2].at = "x" /\ l.code[2].reg = "r0"
    BY <1>2, <1>3 DEF Load
  <2> QED BY <1>1, <2>1, AfterState DEF l
<1>7. \A x, y, a, b : After(n, State(x, y, a, b), l.code[3]) = State(x, y, a, x)
  <2>1. 3 \in Ops(n) /\ l.code[3].op # "store" /\ l.code[3].at = "y" /\ l.code[3].reg = "r1"
    BY <1>2, <1>3 DEF Load
  <2> QED BY <1>1, <2>1, AfterState DEF l
<1>8. \A x, y, a, b : Seen(n, State(x, y, a, b)) = <<a, b>>
  BY <1>1, <1>2 DEF Seen, Where, State, l
<1> QED BY <1>1, <1>3, <1>4, <1>5, <1>6, <1>7, <1>8 DEF l

LEMMA CoWWSteps ==
  LET n == "coww"
      code == Litmuses[n].code
  IN /\ n \in DOMAIN Litmuses /\ Ops(n) = {1, 2}
     /\ \A done : Comes(n, 1, done) /\ (Comes(n, 2, done) <=> 1 \in done)
     /\ \A x, y, a, b :
          /\ After(n, State(x, y, a, b), code[1]) = State(1, y, a, b)
          /\ After(n, State(x, y, a, b), code[2]) = State(2, y, a, b)
          /\ Seen(n, State(x, y, a, b)) = <<x>>
<1> DEFINE n == "coww"
           l == Litmuses[n]
<1>1. n \in DOMAIN Litmuses /\ l = CoWW /\ Presets[n].aliased = TRUE
  BY DEF Litmuses, Presets, kAtomicityTestParams, kBarrierTestParams, kCoherenceTestParams, kWeakTestParams
<1>2. /\ l.code = <<Store(0, "x", 1), Store(0, "y", 2)>>
      /\ l.sees = <<"mx">> /\ l.parted = FALSE
  BY <1>1 DEF CoWW, Litmus
<1> HIDE DEF l
<1>3. Ops(n) = {1, 2}
  BY <1>2 DEF Ops, l, Store, Load, Add0, Barrier
<1>4. \A done : Comes(n, 1, done) /\ (Comes(n, 2, done) <=> 1 \in done)
  BY <1>2, <1>3 DEF Comes, l, Store, Load, Add0, Barrier
<1>5. \A x, y, a, b : After(n, State(x, y, a, b), l.code[1]) = State(1, y, a, b)
  BY <1>1, <1>2 DEF After, Where, State, Store
<1>6. \A x, y, a, b : After(n, State(x, y, a, b), l.code[2]) = State(2, y, a, b)
  BY <1>1, <1>2 DEF After, Where, State, Store
<1>7. \A x, y, a, b : Seen(n, State(x, y, a, b)) = <<x>>
  BY <1>1, <1>2 DEF Seen, Where, State, l
<1> QED BY <1>1, <1>3, <1>4, <1>5, <1>6, <1>7 DEF l

LEMMA CoWRSteps ==
  LET n == "cowr"
      code == Litmuses[n].code
  IN /\ n \in DOMAIN Litmuses /\ Ops(n) = {1, 2, 3}
     /\ \A done : Comes(n, 1, done) /\ (Comes(n, 2, done) <=> 1 \in done) /\ Comes(n, 3, done)
     /\ \A x, y, a, b :
          /\ After(n, State(x, y, a, b), code[1]) = State(1, y, a, b)
          /\ After(n, State(x, y, a, b), code[2]) = State(x, y, x, b)
          /\ After(n, State(x, y, a, b), code[3]) = State(2, y, a, b)
          /\ Seen(n, State(x, y, a, b)) = <<a, x>>
<1> DEFINE n == "cowr"
           l == Litmuses[n]
<1>1. n \in DOMAIN Litmuses /\ l = CoWR /\ Presets[n].aliased = TRUE
  BY DEF Litmuses, Presets, kAtomicityTestParams, kBarrierTestParams, kCoherenceTestParams, kWeakTestParams
<1>2. /\ l.code = <<Store(0, "x", 1), Load(0, "y", "r0"), Store(1, "x", 2)>>
      /\ l.sees = <<"r0", "mx">> /\ l.parted = FALSE
  BY <1>1 DEF CoWR, Litmus
<1> HIDE DEF l
<1>3. Ops(n) = {1, 2, 3}
  BY <1>2 DEF Ops, l, Store, Load, Add0, Barrier
<1>4. \A done : Comes(n, 1, done) /\ (Comes(n, 2, done) <=> 1 \in done) /\ Comes(n, 3, done)
  BY <1>2, <1>3 DEF Comes, l, Store, Load, Add0, Barrier
<1>5. \A x, y, a, b : After(n, State(x, y, a, b), l.code[1]) = State(1, y, a, b)
  BY <1>1, <1>2 DEF After, Where, State, Store
<1>6. \A x, y, a, b : After(n, State(x, y, a, b), l.code[2]) = State(x, y, x, b)
  <2>1. 2 \in Ops(n) /\ l.code[2].op # "store" /\ l.code[2].at = "y" /\ l.code[2].reg = "r0"
    BY <1>2, <1>3 DEF Load
  <2> QED BY <1>1, <2>1, AfterState DEF l
<1>7. \A x, y, a, b : After(n, State(x, y, a, b), l.code[3]) = State(2, y, a, b)
  BY <1>1, <1>2 DEF After, Where, State, Store
<1>8. \A x, y, a, b : Seen(n, State(x, y, a, b)) = <<a, x>>
  BY <1>1, <1>2 DEF Seen, Where, State, l
<1> QED BY <1>1, <1>3, <1>4, <1>5, <1>6, <1>7, <1>8 DEF l

LEMMA CoRW1Steps ==
  LET n == "corw1"
      code == Litmuses[n].code
  IN /\ n \in DOMAIN Litmuses /\ Ops(n) = {1, 2}
     /\ \A done : Comes(n, 1, done) /\ (Comes(n, 2, done) <=> 1 \in done)
     /\ \A x, y, a, b :
          /\ After(n, State(x, y, a, b), code[1]) = State(x, y, x, b)
          /\ After(n, State(x, y, a, b), code[2]) = State(1, y, a, b)
          /\ Seen(n, State(x, y, a, b)) = <<a>>
<1> DEFINE n == "corw1"
           l == Litmuses[n]
<1>1. n \in DOMAIN Litmuses /\ l = CoRW1 /\ Presets[n].aliased = TRUE
  BY DEF Litmuses, Presets, kAtomicityTestParams, kBarrierTestParams, kCoherenceTestParams, kWeakTestParams
<1>2. /\ l.code = <<Load(0, "x", "r0"), Store(0, "y", 1)>>
      /\ l.sees = <<"r0">> /\ l.parted = FALSE
  BY <1>1 DEF CoRW1, Litmus
<1> HIDE DEF l
<1>3. Ops(n) = {1, 2}
  BY <1>2 DEF Ops, l, Store, Load, Add0, Barrier
<1>4. \A done : Comes(n, 1, done) /\ (Comes(n, 2, done) <=> 1 \in done)
  BY <1>2, <1>3 DEF Comes, l, Store, Load, Add0, Barrier
<1>5. \A x, y, a, b : After(n, State(x, y, a, b), l.code[1]) = State(x, y, x, b)
  <2>1. 1 \in Ops(n) /\ l.code[1].op # "store" /\ l.code[1].at = "x" /\ l.code[1].reg = "r0"
    BY <1>2, <1>3 DEF Load
  <2> QED BY <1>1, <2>1, AfterState DEF l
<1>6. \A x, y, a, b : After(n, State(x, y, a, b), l.code[2]) = State(1, y, a, b)
  BY <1>1, <1>2 DEF After, Where, State, Store
<1>7. \A x, y, a, b : Seen(n, State(x, y, a, b)) = <<a>>
  BY <1>1, <1>2 DEF Seen, Where, State, l
<1> QED BY <1>1, <1>3, <1>4, <1>5, <1>6, <1>7 DEF l

LEMMA CoRW2Steps ==
  LET n == "corw2"
      code == Litmuses[n].code
  IN /\ n \in DOMAIN Litmuses /\ Ops(n) = {1, 2, 3}
     /\ \A done : Comes(n, 1, done) /\ (Comes(n, 2, done) <=> 1 \in done) /\ Comes(n, 3, done)
     /\ \A x, y, a, b :
          /\ After(n, State(x, y, a, b), code[1]) = State(x, y, x, b)
          /\ After(n, State(x, y, a, b), code[2]) = State(1, y, a, b)
          /\ After(n, State(x, y, a, b), code[3]) = State(2, y, a, b)
          /\ Seen(n, State(x, y, a, b)) = <<a, x>>
<1> DEFINE n == "corw2"
           l == Litmuses[n]
<1>1. n \in DOMAIN Litmuses /\ l = CoRW2 /\ Presets[n].aliased = TRUE
  BY DEF Litmuses, Presets, kAtomicityTestParams, kBarrierTestParams, kCoherenceTestParams, kWeakTestParams
<1>2. /\ l.code = <<Load(0, "x", "r0"), Store(0, "y", 1), Store(1, "x", 2)>>
      /\ l.sees = <<"r0", "mx">> /\ l.parted = FALSE
  BY <1>1 DEF CoRW2, Litmus
<1> HIDE DEF l
<1>3. Ops(n) = {1, 2, 3}
  BY <1>2 DEF Ops, l, Store, Load, Add0, Barrier
<1>4. \A done : Comes(n, 1, done) /\ (Comes(n, 2, done) <=> 1 \in done) /\ Comes(n, 3, done)
  BY <1>2, <1>3 DEF Comes, l, Store, Load, Add0, Barrier
<1>5. \A x, y, a, b : After(n, State(x, y, a, b), l.code[1]) = State(x, y, x, b)
  <2>1. 1 \in Ops(n) /\ l.code[1].op # "store" /\ l.code[1].at = "x" /\ l.code[1].reg = "r0"
    BY <1>2, <1>3 DEF Load
  <2> QED BY <1>1, <2>1, AfterState DEF l
<1>6. \A x, y, a, b : After(n, State(x, y, a, b), l.code[2]) = State(1, y, a, b)
  BY <1>1, <1>2 DEF After, Where, State, Store
<1>7. \A x, y, a, b : After(n, State(x, y, a, b), l.code[3]) = State(2, y, a, b)
  BY <1>1, <1>2 DEF After, Where, State, Store
<1>8. \A x, y, a, b : Seen(n, State(x, y, a, b)) = <<a, x>>
  BY <1>1, <1>2 DEF Seen, Where, State, l
<1> QED BY <1>1, <1>3, <1>4, <1>5, <1>6, <1>7, <1>8 DEF l

LEMMA AtomicitySteps ==
  LET n == "atomicity"
      code == Litmuses[n].code
  IN /\ n \in DOMAIN Litmuses /\ Ops(n) = {1, 2}
     /\ \A done : Comes(n, 1, done) /\ Comes(n, 2, done)
     /\ \A x, y, a, b :
          /\ After(n, State(x, y, a, b), code[1]) = State(x, y, x, b)
          /\ After(n, State(x, y, a, b), code[2]) = State(2, y, a, b)
          /\ Seen(n, State(x, y, a, b)) = <<a, x>>
<1> DEFINE n == "atomicity"
           l == Litmuses[n]
<1>1. n \in DOMAIN Litmuses /\ l = Atomicity /\ Presets[n].aliased = FALSE
  BY DEF Litmuses, Presets, kAtomicityTestParams, kBarrierTestParams, kCoherenceTestParams, kWeakTestParams
<1>2. /\ l.code = <<Add0(0, "x", "r0"), Store(1, "x", 2)>>
      /\ l.sees = <<"r0", "mx">> /\ l.parted = FALSE
  BY <1>1 DEF Atomicity, Litmus
<1> HIDE DEF l
<1>3. Ops(n) = {1, 2}
  BY <1>2 DEF Ops, l, Store, Load, Add0, Barrier
<1>4. \A done : Comes(n, 1, done) /\ Comes(n, 2, done)
  BY <1>2, <1>3 DEF Comes, l, Store, Load, Add0, Barrier
<1>5. \A x, y, a, b : After(n, State(x, y, a, b), l.code[1]) = State(x, y, x, b)
  <2>1. 1 \in Ops(n) /\ l.code[1].op # "store" /\ l.code[1].at = "x" /\ l.code[1].reg = "r0"
    BY <1>2, <1>3 DEF Add0
  <2> QED BY <1>1, <2>1, AfterState DEF l
<1>6. \A x, y, a, b : After(n, State(x, y, a, b), l.code[2]) = State(2, y, a, b)
  BY <1>1, <1>2 DEF After, Where, State, Store
<1>7. \A x, y, a, b : Seen(n, State(x, y, a, b)) = <<a, x>>
  BY <1>1, <1>2 DEF Seen, Where, State, l
<1> QED BY <1>1, <1>3, <1>4, <1>5, <1>6, <1>7 DEF l

LEMMA BarrierLoadStoreSteps ==
  LET n == "rw"
      code == Litmuses[n].code
  IN /\ n \in DOMAIN Litmuses /\ Ops(n) = {1, 3}
     /\ \A done : Comes(n, 1, done) /\ (Comes(n, 3, done) <=> 1 \in done)
     /\ \A x, y, a, b :
          /\ After(n, State(x, y, a, b), code[1]) = State(x, y, x, b)
          /\ After(n, State(x, y, a, b), code[3]) = State(1, y, a, b)
          /\ Seen(n, State(x, y, a, b)) = <<a>>
<1> DEFINE n == "rw"
           l == Litmuses[n]
<1>1. n \in DOMAIN Litmuses /\ l = BarrierLoadStore /\ Presets[n].aliased = FALSE
  BY DEF Litmuses, Presets, kAtomicityTestParams, kBarrierTestParams, kCoherenceTestParams, kWeakTestParams
<1>2. /\ l.code = <<Load(0, "x", "r0"), Barrier, Store(1, "x", 1)>>
      /\ l.sees = <<"r0">> /\ l.parted = TRUE
  BY <1>1 DEF BarrierLoadStore, Litmus
<1> HIDE DEF l
<1>3. Ops(n) = {1, 3}
  BY <1>2 DEF Ops, l, Store, Load, Add0, Barrier
<1>4. \A done : Comes(n, 1, done) /\ (Comes(n, 3, done) <=> 1 \in done)
  BY <1>2, <1>3 DEF Comes, l, Store, Load, Add0, Barrier
<1>5. \A x, y, a, b : After(n, State(x, y, a, b), l.code[1]) = State(x, y, x, b)
  <2>1. 1 \in Ops(n) /\ l.code[1].op # "store" /\ l.code[1].at = "x" /\ l.code[1].reg = "r0"
    BY <1>2, <1>3 DEF Load
  <2> QED BY <1>1, <2>1, AfterState DEF l
<1>6. \A x, y, a, b : After(n, State(x, y, a, b), l.code[3]) = State(1, y, a, b)
  BY <1>1, <1>2 DEF After, Where, State, Store
<1>7. \A x, y, a, b : Seen(n, State(x, y, a, b)) = <<a>>
  BY <1>1, <1>2 DEF Seen, Where, State, l
<1> QED BY <1>1, <1>3, <1>4, <1>5, <1>6, <1>7 DEF l

LEMMA BarrierStoreLoadSteps ==
  LET n == "wr"
      code == Litmuses[n].code
  IN /\ n \in DOMAIN Litmuses /\ Ops(n) = {1, 3}
     /\ \A done : Comes(n, 1, done) /\ (Comes(n, 3, done) <=> 1 \in done)
     /\ \A x, y, a, b :
          /\ After(n, State(x, y, a, b), code[1]) = State(1, y, a, b)
          /\ After(n, State(x, y, a, b), code[3]) = State(x, y, x, b)
          /\ Seen(n, State(x, y, a, b)) = <<a>>
<1> DEFINE n == "wr"
           l == Litmuses[n]
<1>1. n \in DOMAIN Litmuses /\ l = BarrierStoreLoad /\ Presets[n].aliased = FALSE
  BY DEF Litmuses, Presets, kAtomicityTestParams, kBarrierTestParams, kCoherenceTestParams, kWeakTestParams
<1>2. /\ l.code = <<Store(0, "x", 1), Barrier, Load(1, "x", "r0")>>
      /\ l.sees = <<"r0">> /\ l.parted = TRUE
  BY <1>1 DEF BarrierStoreLoad, Litmus
<1> HIDE DEF l
<1>3. Ops(n) = {1, 3}
  BY <1>2 DEF Ops, l, Store, Load, Add0, Barrier
<1>4. \A done : Comes(n, 1, done) /\ (Comes(n, 3, done) <=> 1 \in done)
  BY <1>2, <1>3 DEF Comes, l, Store, Load, Add0, Barrier
<1>5. \A x, y, a, b : After(n, State(x, y, a, b), l.code[1]) = State(1, y, a, b)
  BY <1>1, <1>2 DEF After, Where, State, Store
<1>6. \A x, y, a, b : After(n, State(x, y, a, b), l.code[3]) = State(x, y, x, b)
  <2>1. 3 \in Ops(n) /\ l.code[3].op # "store" /\ l.code[3].at = "x" /\ l.code[3].reg = "r0"
    BY <1>2, <1>3 DEF Load
  <2> QED BY <1>1, <2>1, AfterState DEF l
<1>7. \A x, y, a, b : Seen(n, State(x, y, a, b)) = <<a>>
  BY <1>1, <1>2 DEF Seen, Where, State, l
<1> QED BY <1>1, <1>3, <1>4, <1>5, <1>6, <1>7 DEF l

LEMMA BarrierStoreStoreSteps ==
  LET n == "ww"
      code == Litmuses[n].code
  IN /\ n \in DOMAIN Litmuses /\ Ops(n) = {1, 3}
     /\ \A done : Comes(n, 1, done) /\ (Comes(n, 3, done) <=> 1 \in done)
     /\ \A x, y, a, b :
          /\ After(n, State(x, y, a, b), code[1]) = State(1, y, a, b)
          /\ After(n, State(x, y, a, b), code[3]) = State(2, y, a, b)
          /\ Seen(n, State(x, y, a, b)) = <<x>>
<1> DEFINE n == "ww"
           l == Litmuses[n]
<1>1. n \in DOMAIN Litmuses /\ l = BarrierStoreStore /\ Presets[n].aliased = FALSE
  BY DEF Litmuses, Presets, kAtomicityTestParams, kBarrierTestParams, kCoherenceTestParams, kWeakTestParams
<1>2. /\ l.code = <<Store(0, "x", 1), Barrier, Store(1, "x", 2)>>
      /\ l.sees = <<"mx">> /\ l.parted = TRUE
  BY <1>1 DEF BarrierStoreStore, Litmus
<1> HIDE DEF l
<1>3. Ops(n) = {1, 3}
  BY <1>2 DEF Ops, l, Store, Load, Add0, Barrier
<1>4. \A done : Comes(n, 1, done) /\ (Comes(n, 3, done) <=> 1 \in done)
  BY <1>2, <1>3 DEF Comes, l, Store, Load, Add0, Barrier
<1>5. \A x, y, a, b : After(n, State(x, y, a, b), l.code[1]) = State(1, y, a, b)
  BY <1>1, <1>2 DEF After, Where, State, Store
<1>6. \A x, y, a, b : After(n, State(x, y, a, b), l.code[3]) = State(2, y, a, b)
  BY <1>1, <1>2 DEF After, Where, State, Store
<1>7. \A x, y, a, b : Seen(n, State(x, y, a, b)) = <<x>>
  BY <1>1, <1>2 DEF Seen, Where, State, l
<1> QED BY <1>1, <1>3, <1>4, <1>5, <1>6, <1>7 DEF l

-----------------------------------------------------------------------------
(* The tests one by one: all that an interleaving can show. *)

(* An access leads from what is in I to what is in I. *)
Leads(n, I, done, x, y, a, b, c) ==
  \E x2, y2, a2, b2 : /\ After(n, State(x, y, a, b), Litmuses[n].code[c]) = State(x2, y2, a2, b2)
                      /\ <<done \cup {c}, x2, y2, a2, b2>> \in I

Kept(n, I) ==
  \A done \in SUBSET Ops(n) : \A x, y, a, b : \A c \in Ops(n) \ done :
    <<done, x, y, a, b>> \in I /\ Comes(n, c, done) => Leads(n, I, done, x, y, a, b, c)

LEMMA PartialKeeps ==
  ASSUME NEW n \in DOMAIN Litmuses, NEW I, <<{}, 0, 0, 0, 0>> \in I, Kept(n, I)
  PROVE  \A p \in Partial(n) : \E x, y, a, b : p[2] = State(x, y, a, b) /\ <<p[1], x, y, a, b>> \in I
<1> DEFINE J == {t \in I : t = <<t[1], t[2], t[3], t[4], t[5]>> /\ t[1] \subseteq Ops(n)}
           P == {<<t[1], State(t[2], t[3], t[4], t[5])>> : t \in J}
<1>1. ASSUME NEW done \in SUBSET Ops(n), NEW x, NEW y, NEW a, NEW b, <<done, x, y, a, b>> \in I
      PROVE  <<done, State(x, y, a, b)>> \in P
  <2> DEFINE t == <<done, x, y, a, b>>
  <2>1. t \in J /\ <<t[1], State(t[2], t[3], t[4], t[5])>> = <<done, State(x, y, a, b)>>
    BY <1>1
  <2> HIDE DEF t, J
  <2> QED BY <2>1
<1>2. ASSUME NEW p \in P
      PROVE  \E x, y, a, b : /\ p = <<p[1], State(x, y, a, b)>> /\ p[2] = State(x, y, a, b)
                             /\ p[1] \in SUBSET Ops(n) /\ <<p[1], x, y, a, b>> \in I
  <2>1. PICK t \in J : p = <<t[1], State(t[2], t[3], t[4], t[5])>>
    BY <1>2
  <2>2. p[1] = t[1] /\ p[2] = State(t[2], t[3], t[4], t[5]) /\ <<t[1], t[2], t[3], t[4], t[5]>> \in I
    BY <2>1
  <2>3. t[1] \in SUBSET Ops(n) /\ p = <<p[1], State(t[2], t[3], t[4], t[5])>>
    BY <2>1, <2>2
  <2> QED BY <2>2, <2>3
<1> HIDE DEF P
<1>3. <<{}, Fresh>> \in P
  BY <1>1 DEF Fresh
<1>4. ASSUME NEW p \in P, NEW q \in Extensions(n, p) PROVE q \in P
  <2>1. PICK x, y, a, b : /\ p[2] = State(x, y, a, b)
                          /\ p[1] \in SUBSET Ops(n) /\ <<p[1], x, y, a, b>> \in I
    BY <1>2
  <2>2. PICK c \in Ops(n) \ p[1] : Comes(n, c, p[1]) /\ q = <<p[1] \cup {c}, After(n, p[2], Litmuses[n].code[c])>>
    BY <1>4 DEF Extensions
  <2>3. PICK x2, y2, a2, b2 : /\ After(n, State(x, y, a, b), Litmuses[n].code[c]) = State(x2, y2, a2, b2)
                              /\ <<p[1] \cup {c}, x2, y2, a2, b2>> \in I
    <3>1. Leads(n, I, p[1], x, y, a, b, c)
      BY <2>1, <2>2 DEF Kept
    <3> QED BY <3>1 DEF Leads
  <2>4. p[1] \cup {c} \in SUBSET Ops(n) /\ q = <<p[1] \cup {c}, State(x2, y2, a2, b2)>>
    BY <2>1, <2>2, <2>3
  <2> QED BY <1>1, <2>3, <2>4
<1>5. Partial(n) \subseteq P
  BY <1>3, <1>4, PartialWithin
<1> QED BY <1>2, <1>5

LEMMA SeenAtTheEnd ==
  ASSUME NEW n \in DOMAIN Litmuses, NEW s, <<Ops(n), s>> \in Partial(n)
  PROVE  Seen(n, s) \in Interleavings[n]
<1> DEFINE p == <<Ops(n), s>>
<1>1. p \in Partial(n) /\ p[1] = Ops(n) /\ p[2] = s
  OBVIOUS
<1> HIDE DEF p
<1> QED BY <1>1 DEF Interleavings

LEMMA MessagePassingBehaves == Interleavings["message_passing"] = {<<0, 0>>, <<1, 1>>, <<0, 1>>}
<1> DEFINE n == "message_passing"
           Good(done, x, y, a, b) ==
             /\ x \in {0, 1} /\ y \in {0, 1} /\ a \in {0, 1} /\ b \in {0, 1}
             /\ 1 \in done => x = 1
             /\ y = 1 => x = 1
             /\ a = 1 => x = 1
             /\ 6 \in done /\ a = 1 => b = 1
             /\ 6 \in done => 4 \in done
           I == {t \in (SUBSET Ops(n)) \X (0 .. 2) \X (0 .. 2) \X (0 .. 2) \X (0 .. 2) :
                   Good(t[1], t[2], t[3], t[4], t[5])}
<1>0. n \in DOMAIN Litmuses /\ Ops(n) = {1, 3, 4, 6}
  BY MessagePassingSteps
<1>1. <<{}, 0, 0, 0, 0>> \in I
  BY <1>0
<1>2. ASSUME NEW done \in SUBSET Ops(n), NEW x, NEW y, NEW a, NEW b, NEW c \in Ops(n) \ done,
             <<done, x, y, a, b>> \in I, Comes(n, c, done)
      PROVE  Leads(n, I, done, x, y, a, b, c)
  <2>1. Good(done, x, y, a, b) /\ x \in 0 .. 2 /\ y \in 0 .. 2 /\ a \in 0 .. 2 /\ b \in 0 .. 2
    BY <1>2
  <2>2. CASE c = 1
    <3>1. After(n, State(x, y, a, b), Litmuses[n].code[c]) = State(1, y, a, b)
      BY <1>2, <2>2, MessagePassingSteps
    <3>2. Good(done \cup {c}, 1, y, a, b)
      BY <1>2, <2>1, <2>2, <3>1
    <3>3. <<done \cup {c}, 1, y, a, b>> \in I
      <4> HIDE DEF Good, n
      <4> QED BY <1>2, <2>1, <3>2
    <3> HIDE DEF I, n
    <3> QED BY <3>1, <3>3 DEF Leads
  <2>3. CASE c = 3
    <3>1. After(n, State(x, y, a, b), Litmuses[n].code[c]) = State(x, 1, a, b) /\ 1 \in done
      BY <1>2, <2>3, MessagePassingSteps
    <3>2. Good(done \cup {c}, x, 1, a, b)
      BY <1>2, <2>1, <2>3, <3>1
    <3>3. <<done \cup {c}, x, 1, a, b>> \in I
      <4> HIDE DEF Good, n
      <4> QED BY <1>2, <2>1, <3>2
    <3> HIDE DEF I, n
    <3> QED BY <3>1, <3>3 DEF Leads
  <2>4. CASE c = 4
    <3>1. After(n, State(x, y, a, b), Litmuses[n].code[c]) = State(x, y, y, b)
      BY <1>2, <2>4, MessagePassingSteps
    <3>2. Good(done \cup {c}, x, y, y, b)
      BY <1>2, <2>1, <2>4, <3>1
    <3>3. <<done \cup {c}, x, y, y, b>> \in I
      <4> HIDE DEF Good, n
      <4> QED BY <1>2, <2>1, <3>2
    <3> HIDE DEF I, n
    <3> QED BY <3>1, <3>3 DEF Leads
  <2>5. CASE c = 6
    <3>1. After(n, State(x, y, a, b), Litmuses[n].code[c]) = State(x, y, a, x) /\ 4 \in done
      BY <1>2, <2>5, MessagePassingSteps
    <3>2. Good(done \cup {c}, x, y, a, x)
      BY <1>2, <2>1, <2>5, <3>1
    <3>3. <<done \cup {c}, x, y, a, x>> \in I
      <4> HIDE DEF Good, n
      <4> QED BY <1>2, <2>1, <3>2
    <3> HIDE DEF I, n
    <3> QED BY <3>1, <3>3 DEF Leads
  <2> QED BY <1>0, <1>2, <2>2, <2>3, <2>4, <2>5
<1>3. \A p \in Partial(n) : \E x, y, a, b : p[2] = State(x, y, a, b) /\ <<p[1], x, y, a, b>> \in I
  <2> HIDE DEF I, n
  <2>1. Kept(n, I)
    BY <1>2 DEF Kept
  <2> QED BY <1>0, <1>1, <2>1, PartialKeeps
<1>4. ASSUME NEW p \in Partial(n), p[1] = Ops(n) PROVE Seen(n, p[2]) \in {<<0, 0>>, <<1, 1>>, <<0, 1>>}
  <2>1. PICK x, y, a, b : p[2] = State(x, y, a, b) /\ <<p[1], x, y, a, b>> \in I
    BY <1>3
  <2>2. Good(Ops(n), x, y, a, b) /\ x \in 0 .. 2 /\ y \in 0 .. 2 /\ a \in 0 .. 2 /\ b \in 0 .. 2
    BY <1>4, <2>1
  <2>3. Seen(n, p[2]) = <<a, b>>
    BY <2>1, MessagePassingSteps
  <2>4. <<a, b>> \in {<<0, 0>>, <<1, 1>>, <<0, 1>>}
    BY <1>0, <2>2
  <2> QED BY <2>3, <2>4
<1> HIDE DEF Good, I, n
<1>5. <<{}, State(0, 0, 0, 0)>> \in Partial(n)
  BY <1>0, PartialStarts DEF Fresh
<1>6. <<{4}, State(0, 0, 0, 0)>> \in Partial(n)
  <2>1. /\ 4 \in Ops(n) \ {} /\ Comes(n, 4, {}) /\ {4} = {} \cup {4}
        /\ After(n, State(0, 0, 0, 0), Litmuses[n].code[4]) = State(0, 0, 0, 0)
    BY MessagePassingSteps DEF n
  <2> QED BY <1>0, <1>5, <2>1, PartialGoesOn
<1>7. <<{4, 6}, State(0, 0, 0, 0)>> \in Partial(n)
  <2>1. /\ 6 \in Ops(n) \ {4} /\ Comes(n, 6, {4}) /\ {4, 6} = {4} \cup {6}
        /\ After(n, State(0, 0, 0, 0), Litmuses[n].code[6]) = State(0, 0, 0, 0)
    BY MessagePassingSteps DEF n
  <2> QED BY <1>0, <1>6, <2>1, PartialGoesOn
<1>8. <<{1, 4, 6}, State(1, 0, 0, 0)>> \in Partial(n)
  <2>1. /\ 1 \in Ops(n) \ {4, 6} /\ Comes(n, 1, {4, 6}) /\ {1, 4, 6} = {4, 6} \cup {1}
        /\ After(n, State(0, 0, 0, 0), Litmuses[n].code[1]) = State(1, 0, 0, 0)
    BY MessagePassingSteps DEF n
  <2> QED BY <1>0, <1>7, <2>1, PartialGoesOn
<1>9. <<{1, 3, 4, 6}, State(1, 1, 0, 0)>> \in Partial(n)
  <2>1. /\ 3 \in Ops(n) \ {1, 4, 6} /\ Comes(n, 3, {1, 4, 6}) /\ {1, 3, 4, 6} = {1, 4, 6} \cup {3}
        /\ After(n, State(1, 0, 0, 0), Litmuses[n].code[3]) = State(1, 1, 0, 0)
    BY MessagePassingSteps DEF n
  <2> QED BY <1>0, <1>8, <2>1, PartialGoesOn
<1>10. <<0, 0>> \in Interleavings[n]
  <2>1. Seen(n, State(1, 1, 0, 0)) = <<0, 0>>
    BY MessagePassingSteps DEF n
  <2> QED BY <1>0, <1>9, <2>1, SeenAtTheEnd
<1>11. <<{1}, State(1, 0, 0, 0)>> \in Partial(n)
  <2>1. /\ 1 \in Ops(n) \ {} /\ Comes(n, 1, {}) /\ {1} = {} \cup {1}
        /\ After(n, State(0, 0, 0, 0), Litmuses[n].code[1]) = State(1, 0, 0, 0)
    BY MessagePassingSteps DEF n
  <2> QED BY <1>0, <1>5, <2>1, PartialGoesOn
<1>12. <<{1, 3}, State(1, 1, 0, 0)>> \in Partial(n)
  <2>1. /\ 3 \in Ops(n) \ {1} /\ Comes(n, 3, {1}) /\ {1, 3} = {1} \cup {3}
        /\ After(n, State(1, 0, 0, 0), Litmuses[n].code[3]) = State(1, 1, 0, 0)
    BY MessagePassingSteps DEF n
  <2> QED BY <1>0, <1>11, <2>1, PartialGoesOn
<1>13. <<{1, 3, 4}, State(1, 1, 1, 0)>> \in Partial(n)
  <2>1. /\ 4 \in Ops(n) \ {1, 3} /\ Comes(n, 4, {1, 3}) /\ {1, 3, 4} = {1, 3} \cup {4}
        /\ After(n, State(1, 1, 0, 0), Litmuses[n].code[4]) = State(1, 1, 1, 0)
    BY MessagePassingSteps DEF n
  <2> QED BY <1>0, <1>12, <2>1, PartialGoesOn
<1>14. <<{1, 3, 4, 6}, State(1, 1, 1, 1)>> \in Partial(n)
  <2>1. /\ 6 \in Ops(n) \ {1, 3, 4} /\ Comes(n, 6, {1, 3, 4}) /\ {1, 3, 4, 6} = {1, 3, 4} \cup {6}
        /\ After(n, State(1, 1, 1, 0), Litmuses[n].code[6]) = State(1, 1, 1, 1)
    BY MessagePassingSteps DEF n
  <2> QED BY <1>0, <1>13, <2>1, PartialGoesOn
<1>15. <<1, 1>> \in Interleavings[n]
  <2>1. Seen(n, State(1, 1, 1, 1)) = <<1, 1>>
    BY MessagePassingSteps DEF n
  <2> QED BY <1>0, <1>14, <2>1, SeenAtTheEnd
<1>16. <<{1, 4}, State(1, 0, 0, 0)>> \in Partial(n)
  <2>1. /\ 4 \in Ops(n) \ {1} /\ Comes(n, 4, {1}) /\ {1, 4} = {1} \cup {4}
        /\ After(n, State(1, 0, 0, 0), Litmuses[n].code[4]) = State(1, 0, 0, 0)
    BY MessagePassingSteps DEF n
  <2> QED BY <1>0, <1>11, <2>1, PartialGoesOn
<1>17. <<{1, 3, 4}, State(1, 1, 0, 0)>> \in Partial(n)
  <2>1. /\ 3 \in Ops(n) \ {1, 4} /\ Comes(n, 3, {1, 4}) /\ {1, 3, 4} = {1, 4} \cup {3}
        /\ After(n, State(1, 0, 0, 0), Litmuses[n].code[3]) = State(1, 1, 0, 0)
    BY MessagePassingSteps DEF n
  <2> QED BY <1>0, <1>16, <2>1, PartialGoesOn
<1>18. <<{1, 3, 4, 6}, State(1, 1, 0, 1)>> \in Partial(n)
  <2>1. /\ 6 \in Ops(n) \ {1, 3, 4} /\ Comes(n, 6, {1, 3, 4}) /\ {1, 3, 4, 6} = {1, 3, 4} \cup {6}
        /\ After(n, State(1, 1, 0, 0), Litmuses[n].code[6]) = State(1, 1, 0, 1)
    BY MessagePassingSteps DEF n
  <2> QED BY <1>0, <1>17, <2>1, PartialGoesOn
<1>19. <<0, 1>> \in Interleavings[n]
  <2>1. Seen(n, State(1, 1, 0, 1)) = <<0, 1>>
    BY MessagePassingSteps DEF n
  <2> QED BY <1>0, <1>18, <2>1, SeenAtTheEnd
<1>20. Interleavings[n] \subseteq {<<0, 0>>, <<1, 1>>, <<0, 1>>}
  BY <1>0, <1>4 DEF Interleavings
<1> QED BY <1>10, <1>15, <1>19, <1>20 DEF n

LEMMA StoreTestBehaves == Interleavings["store"] = {<<1, 1>>, <<0, 2>>, <<0, 1>>}
<1> DEFINE n == "store"
           Good(done, x, y, a, b) ==
             /\ x \in {0, 1, 2} /\ y \in {0, 1} /\ a \in {0, 1}
             /\ 3 \in done => 1 \in done
             /\ 6 \in done => 4 \in done
             /\ y = 1 \/ a = 1 => 1 \in done
             /\ 1 \in done \/ 6 \in done => x # 0
             /\ 6 \in done /\ a = 1 => x = 1
           I == {t \in (SUBSET Ops(n)) \X (0 .. 2) \X (0 .. 2) \X (0 .. 2) \X (0 .. 2) :
                   Good(t[1], t[2], t[3], t[4], t[5])}
<1>0. n \in DOMAIN Litmuses /\ Ops(n) = {1, 3, 4, 6}
  BY StoreTestSteps
<1>1. <<{}, 0, 0, 0, 0>> \in I
  BY <1>0
<1>2. ASSUME NEW done \in SUBSET Ops(n), NEW x, NEW y, NEW a, NEW b, NEW c \in Ops(n) \ done,
             <<done, x, y, a, b>> \in I, Comes(n, c, done)
      PROVE  Leads(n, I, done, x, y, a, b, c)
  <2>1. Good(done, x, y, a, b) /\ x \in 0 .. 2 /\ y \in 0 .. 2 /\ a \in 0 .. 2 /\ b \in 0 .. 2
    BY <1>2
  <2>2. CASE c = 1
    <3>1. After(n, State(x, y, a, b), Litmuses[n].code[c]) = State(2, y, a, b)
      BY <1>2, <2>2, StoreTestSteps
    <3>2. Good(done \cup {c}, 2, y, a, b)
      BY <1>2, <2>1, <2>2, <3>1
    <3>3. <<done \cup {c}, 2, y, a, b>> \in I
      <4> HIDE DEF Good, n
      <4> QED BY <1>2, <2>1, <3>2
    <3> HIDE DEF I, n
    <3> QED BY <3>1, <3>3 DEF Leads
  <2>3. CASE c = 3
    <3>1. After(n, State(x, y, a, b), Litmuses[n].code[c]) = State(x, 1, a, b) /\ 1 \in done
      BY <1>2, <2>3, StoreTestSteps
    <3>2. Good(done \cup {c}, x, 1, a, b)
      BY <1>2, <2>1, <2>3, <3>1
    <3>3. <<done \cup {c}, x, 1, a, b>> \in I
      <4> HIDE DEF Good, n
      <4> QED BY <1>2, <2>1, <3>2
    <3> HIDE DEF I, n
    <3> QED BY <3>1, <3>3 DEF Leads
  <2>4. CASE c = 4
    <3>1. After(n, State(x, y, a, b), Litmuses[n].code[c]) = State(x, y, y, b)
      BY <1>2, <2>4, StoreTestSteps
    <3>2. Good(done \cup {c}, x, y, y, b)
      BY <1>2, <2>1, <2>4, <3>1
    <3>3. <<done \cup {c}, x, y, y, b>> \in I
      <4> HIDE DEF Good, n
      <4> QED BY <1>2, <2>1, <3>2
    <3> HIDE DEF I, n
    <3> QED BY <3>1, <3>3 DEF Leads
  <2>5. CASE c = 6
    <3>1. After(n, State(x, y, a, b), Litmuses[n].code[c]) = State(1, y, a, b) /\ 4 \in done
      BY <1>2, <2>5, StoreTestSteps
    <3>2. Good(done \cup {c}, 1, y, a, b)
      BY <1>2, <2>1, <2>5, <3>1
    <3>3. <<done \cup {c}, 1, y, a, b>> \in I
      <4> HIDE DEF Good, n
      <4> QED BY <1>2, <2>1, <3>2
    <3> HIDE DEF I, n
    <3> QED BY <3>1, <3>3 DEF Leads
  <2> QED BY <1>0, <1>2, <2>2, <2>3, <2>4, <2>5
<1>3. \A p \in Partial(n) : \E x, y, a, b : p[2] = State(x, y, a, b) /\ <<p[1], x, y, a, b>> \in I
  <2> HIDE DEF I, n
  <2>1. Kept(n, I)
    BY <1>2 DEF Kept
  <2> QED BY <1>0, <1>1, <2>1, PartialKeeps
<1>4. ASSUME NEW p \in Partial(n), p[1] = Ops(n) PROVE Seen(n, p[2]) \in {<<1, 1>>, <<0, 2>>, <<0, 1>>}
  <2>1. PICK x, y, a, b : p[2] = State(x, y, a, b) /\ <<p[1], x, y, a, b>> \in I
    BY <1>3
  <2>2. Good(Ops(n), x, y, a, b) /\ x \in 0 .. 2 /\ y \in 0 .. 2 /\ a \in 0 .. 2 /\ b \in 0 .. 2
    BY <1>4, <2>1
  <2>3. Seen(n, p[2]) = <<a, x>>
    BY <2>1, StoreTestSteps
  <2>4. <<a, x>> \in {<<1, 1>>, <<0, 2>>, <<0, 1>>}
    BY <1>0, <2>2
  <2> QED BY <2>3, <2>4
<1> HIDE DEF Good, I, n
<1>5. <<{}, State(0, 0, 0, 0)>> \in Partial(n)
  BY <1>0, PartialStarts DEF Fresh
<1>6. <<{1}, State(2, 0, 0, 0)>> \in Partial(n)
  <2>1. /\ 1 \in Ops(n) \ {} /\ Comes(n, 1, {}) /\ {1} = {} \cup {1}
        /\ After(n, State(0, 0, 0, 0), Litmuses[n].code[1]) = State(2, 0, 0, 0)
    BY StoreTestSteps DEF n
  <2> QED BY <1>0, <1>5, <2>1, PartialGoesOn
<1>7. <<{1, 3}, State(2, 1, 0, 0)>> \in Partial(n)
  <2>1. /\ 3 \in Ops(n) \ {1} /\ Comes(n, 3, {1}) /\ {1, 3} = {1} \cup {3}
        /\ After(n, State(2, 0, 0, 0), Litmuses[n].code[3]) = State(2, 1, 0, 0)
    BY StoreTestSteps DEF n
  <2> QED BY <1>0, <1>6, <2>1, PartialGoesOn
<1>8. <<{1, 3, 4}, State(2, 1, 1, 0)>> \in Partial(n)
  <2>1. /\ 4 \in Ops(n) \ {1, 3} /\ Comes(n, 4, {1, 3}) /\ {1, 3, 4} = {1, 3} \cup {4}
        /\ After(n, State(2, 1, 0, 0), Litmuses[n].code[4]) = State(2, 1, 1, 0)
    BY StoreTestSteps DEF n
  <2> QED BY <1>0, <1>7, <2>1, PartialGoesOn
<1>9. <<{1, 3, 4, 6}, State(1, 1, 1, 0)>> \in Partial(n)
  <2>1. /\ 6 \in Ops(n) \ {1, 3, 4} /\ Comes(n, 6, {1, 3, 4}) /\ {1, 3, 4, 6} = {1, 3, 4} \cup {6}
        /\ After(n, State(2, 1, 1, 0), Litmuses[n].code[6]) = State(1, 1, 1, 0)
    BY StoreTestSteps DEF n
  <2> QED BY <1>0, <1>8, <2>1, PartialGoesOn
<1>10. <<1, 1>> \in Interleavings[n]
  <2>1. Seen(n, State(1, 1, 1, 0)) = <<1, 1>>
    BY StoreTestSteps DEF n
  <2> QED BY <1>0, <1>9, <2>1, SeenAtTheEnd
<1>11. <<{4}, State(0, 0, 0, 0)>> \in Partial(n)
  <2>1. /\ 4 \in Ops(n) \ {} /\ Comes(n, 4, {}) /\ {4} = {} \cup {4}
        /\ After(n, State(0, 0, 0, 0), Litmuses[n].code[4]) = State(0, 0, 0, 0)
    BY StoreTestSteps DEF n
  <2> QED BY <1>0, <1>5, <2>1, PartialGoesOn
<1>12. <<{4, 6}, State(1, 0, 0, 0)>> \in Partial(n)
  <2>1. /\ 6 \in Ops(n) \ {4} /\ Comes(n, 6, {4}) /\ {4, 6} = {4} \cup {6}
        /\ After(n, State(0, 0, 0, 0), Litmuses[n].code[6]) = State(1, 0, 0, 0)
    BY StoreTestSteps DEF n
  <2> QED BY <1>0, <1>11, <2>1, PartialGoesOn
<1>13. <<{1, 4, 6}, State(2, 0, 0, 0)>> \in Partial(n)
  <2>1. /\ 1 \in Ops(n) \ {4, 6} /\ Comes(n, 1, {4, 6}) /\ {1, 4, 6} = {4, 6} \cup {1}
        /\ After(n, State(1, 0, 0, 0), Litmuses[n].code[1]) = State(2, 0, 0, 0)
    BY StoreTestSteps DEF n
  <2> QED BY <1>0, <1>12, <2>1, PartialGoesOn
<1>14. <<{1, 3, 4, 6}, State(2, 1, 0, 0)>> \in Partial(n)
  <2>1. /\ 3 \in Ops(n) \ {1, 4, 6} /\ Comes(n, 3, {1, 4, 6}) /\ {1, 3, 4, 6} = {1, 4, 6} \cup {3}
        /\ After(n, State(2, 0, 0, 0), Litmuses[n].code[3]) = State(2, 1, 0, 0)
    BY StoreTestSteps DEF n
  <2> QED BY <1>0, <1>13, <2>1, PartialGoesOn
<1>15. <<0, 2>> \in Interleavings[n]
  <2>1. Seen(n, State(2, 1, 0, 0)) = <<0, 2>>
    BY StoreTestSteps DEF n
  <2> QED BY <1>0, <1>14, <2>1, SeenAtTheEnd
<1>16. <<{1, 4}, State(2, 0, 0, 0)>> \in Partial(n)
  <2>1. /\ 4 \in Ops(n) \ {1} /\ Comes(n, 4, {1}) /\ {1, 4} = {1} \cup {4}
        /\ After(n, State(2, 0, 0, 0), Litmuses[n].code[4]) = State(2, 0, 0, 0)
    BY StoreTestSteps DEF n
  <2> QED BY <1>0, <1>6, <2>1, PartialGoesOn
<1>17. <<{1, 3, 4}, State(2, 1, 0, 0)>> \in Partial(n)
  <2>1. /\ 3 \in Ops(n) \ {1, 4} /\ Comes(n, 3, {1, 4}) /\ {1, 3, 4} = {1, 4} \cup {3}
        /\ After(n, State(2, 0, 0, 0), Litmuses[n].code[3]) = State(2, 1, 0, 0)
    BY StoreTestSteps DEF n
  <2> QED BY <1>0, <1>16, <2>1, PartialGoesOn
<1>18. <<{1, 3, 4, 6}, State(1, 1, 0, 0)>> \in Partial(n)
  <2>1. /\ 6 \in Ops(n) \ {1, 3, 4} /\ Comes(n, 6, {1, 3, 4}) /\ {1, 3, 4, 6} = {1, 3, 4} \cup {6}
        /\ After(n, State(2, 1, 0, 0), Litmuses[n].code[6]) = State(1, 1, 0, 0)
    BY StoreTestSteps DEF n
  <2> QED BY <1>0, <1>17, <2>1, PartialGoesOn
<1>19. <<0, 1>> \in Interleavings[n]
  <2>1. Seen(n, State(1, 1, 0, 0)) = <<0, 1>>
    BY StoreTestSteps DEF n
  <2> QED BY <1>0, <1>18, <2>1, SeenAtTheEnd
<1>20. Interleavings[n] \subseteq {<<1, 1>>, <<0, 2>>, <<0, 1>>}
  BY <1>0, <1>4 DEF Interleavings
<1> QED BY <1>10, <1>15, <1>19, <1>20 DEF n

LEMMA LoadBufferBehaves == Interleavings["load_buffer"] = {<<1, 0>>, <<0, 1>>, <<0, 0>>}
<1> DEFINE n == "load_buffer"
           Good(done, x, y, a, b) ==
             /\ x \in {0, 1} /\ y \in {0, 1} /\ a \in {0, 1} /\ b \in {0, 1}
             /\ 3 \in done => 1 \in done
             /\ 6 \in done => 4 \in done
             /\ x = 1 \/ b = 1 => 3 \in done
             /\ y = 1 \/ a = 1 => 6 \in done
             /\ a = 0 \/ b = 0
           I == {t \in (SUBSET Ops(n)) \X (0 .. 2) \X (0 .. 2) \X (0 .. 2) \X (0 .. 2) :
                   Good(t[1], t[2], t[3], t[4], t[5])}
<1>0. n \in DOMAIN Litmuses /\ Ops(n) = {1, 3, 4, 6}
  BY LoadBufferSteps
<1>1. <<{}, 0, 0, 0, 0>> \in I
  BY <1>0
<1>2. ASSUME NEW done \in SUBSET Ops(n), NEW x, NEW y, NEW a, NEW b, NEW c \in Ops(n) \ done,
             <<done, x, y, a, b>> \in I, Comes(n, c, done)
      PROVE  Leads(n, I, done, x, y, a, b, c)
  <2>1. Good(done, x, y, a, b) /\ x \in 0 .. 2 /\ y \in 0 .. 2 /\ a \in 0 .. 2 /\ b \in 0 .. 2
    BY <1>2
  <2>2. CASE c = 1
    <3>1. After(n, State(x, y, a, b), Litmuses[n].code[c]) = State(x, y, y, b)
      BY <1>2, <2>2, LoadBufferSteps
    <3>2. Good(done \cup {c}, x, y, y, b)
      BY <1>2, <2>1, <2>2, <3>1
    <3>3. <<done \cup {c}, x, y, y, b>> \in I
      <4> HIDE DEF Good, n
      <4> QED BY <1>2, <2>1, <3>2
    <3> HIDE DEF I, n
    <3> QED BY <3>1, <3>3 DEF Leads
  <2>3. CASE c = 3
    <3>1. After(n, State(x, y, a, b), Litmuses[n].code[c]) = State(1, y, a, b) /\ 1 \in done
      BY <1>2, <2>3, LoadBufferSteps
    <3>2. Good(done \cup {c}, 1, y, a, b)
      BY <1>2, <2>1, <2>3, <3>1
    <3>3. <<done \cup {c}, 1, y, a, b>> \in I
      <4> HIDE DEF Good, n
      <4> QED BY <1>2, <2>1, <3>2
    <3> HIDE DEF I, n
    <3> QED BY <3>1, <3>3 DEF Leads
  <2>4. CASE c = 4
    <3>1. After(n, State(x, y, a, b), Litmuses[n].code[c]) = State(x, y, a, x)
      BY <1>2, <2>4, LoadBufferSteps
    <3>2. Good(done \cup {c}, x, y, a, x)
      BY <1>2, <2>1, <2>4, <3>1
    <3>3. <<done \cup {c}, x, y, a, x>> \in I
      <4> HIDE DEF Good, n
      <4> QED BY <1>2, <2>1, <3>2
    <3> HIDE DEF I, n
    <3> QED BY <3>1, <3>3 DEF Leads
  <2>5. CASE c = 6
    <3>1. After(n, State(x, y, a, b), Litmuses[n].code[c]) = State(x, 1, a, b) /\ 4 \in done
      BY <1>2, <2>5, LoadBufferSteps
    <3>2. Good(done \cup {c}, x, 1, a, b)
      BY <1>2, <2>1, <2>5, <3>1
    <3>3. <<done \cup {c}, x, 1, a, b>> \in I
      <4> HIDE DEF Good, n
      <4> QED BY <1>2, <2>1, <3>2
    <3> HIDE DEF I, n
    <3> QED BY <3>1, <3>3 DEF Leads
  <2> QED BY <1>0, <1>2, <2>2, <2>3, <2>4, <2>5
<1>3. \A p \in Partial(n) : \E x, y, a, b : p[2] = State(x, y, a, b) /\ <<p[1], x, y, a, b>> \in I
  <2> HIDE DEF I, n
  <2>1. Kept(n, I)
    BY <1>2 DEF Kept
  <2> QED BY <1>0, <1>1, <2>1, PartialKeeps
<1>4. ASSUME NEW p \in Partial(n), p[1] = Ops(n) PROVE Seen(n, p[2]) \in {<<1, 0>>, <<0, 1>>, <<0, 0>>}
  <2>1. PICK x, y, a, b : p[2] = State(x, y, a, b) /\ <<p[1], x, y, a, b>> \in I
    BY <1>3
  <2>2. Good(Ops(n), x, y, a, b) /\ x \in 0 .. 2 /\ y \in 0 .. 2 /\ a \in 0 .. 2 /\ b \in 0 .. 2
    BY <1>4, <2>1
  <2>3. Seen(n, p[2]) = <<a, b>>
    BY <2>1, LoadBufferSteps
  <2>4. <<a, b>> \in {<<1, 0>>, <<0, 1>>, <<0, 0>>}
    BY <1>0, <2>2
  <2> QED BY <2>3, <2>4
<1> HIDE DEF Good, I, n
<1>5. <<{}, State(0, 0, 0, 0)>> \in Partial(n)
  BY <1>0, PartialStarts DEF Fresh
<1>6. <<{4}, State(0, 0, 0, 0)>> \in Partial(n)
  <2>1. /\ 4 \in Ops(n) \ {} /\ Comes(n, 4, {}) /\ {4} = {} \cup {4}
        /\ After(n, State(0, 0, 0, 0), Litmuses[n].code[4]) = State(0, 0, 0, 0)
    BY LoadBufferSteps DEF n
  <2> QED BY <1>0, <1>5, <2>1, PartialGoesOn
<1>7. <<{4, 6}, State(0, 1, 0, 0)>> \in Partial(n)
  <2>1. /\ 6 \in Ops(n) \ {4} /\ Comes(n, 6, {4}) /\ {4, 6} = {4} \cup {6}
        /\ After(n, State(0, 0, 0, 0), Litmuses[n].code[6]) = State(0, 1, 0, 0)
    BY LoadBufferSteps DEF n
  <2> QED BY <1>0, <1>6, <2>1, PartialGoesOn
<1>8. <<{1, 4, 6}, State(0, 1, 1, 0)>> \in Partial(n)
  <2>1. /\ 1 \in Ops(n) \ {4, 6} /\ Comes(n, 1, {4, 6}) /\ {1, 4, 6} = {4, 6} \cup {1}
        /\ After(n, State(0, 1, 0, 0), Litmuses[n].code[1]) = State(0, 1, 1, 0)
    BY LoadBufferSteps DEF n
  <2> QED BY <1>0, <1>7, <2>1, PartialGoesOn
<1>9. <<{1, 3, 4, 6}, State(1, 1, 1, 0)>> \in Partial(n)
  <2>1. /\ 3 \in Ops(n) \ {1, 4, 6} /\ Comes(n, 3, {1, 4, 6}) /\ {1, 3, 4, 6} = {1, 4, 6} \cup {3}
        /\ After(n, State(0, 1, 1, 0), Litmuses[n].code[3]) = State(1, 1, 1, 0)
    BY LoadBufferSteps DEF n
  <2> QED BY <1>0, <1>8, <2>1, PartialGoesOn
<1>10. <<1, 0>> \in Interleavings[n]
  <2>1. Seen(n, State(1, 1, 1, 0)) = <<1, 0>>
    BY LoadBufferSteps DEF n
  <2> QED BY <1>0, <1>9, <2>1, SeenAtTheEnd
<1>11. <<{1}, State(0, 0, 0, 0)>> \in Partial(n)
  <2>1. /\ 1 \in Ops(n) \ {} /\ Comes(n, 1, {}) /\ {1} = {} \cup {1}
        /\ After(n, State(0, 0, 0, 0), Litmuses[n].code[1]) = State(0, 0, 0, 0)
    BY LoadBufferSteps DEF n
  <2> QED BY <1>0, <1>5, <2>1, PartialGoesOn
<1>12. <<{1, 3}, State(1, 0, 0, 0)>> \in Partial(n)
  <2>1. /\ 3 \in Ops(n) \ {1} /\ Comes(n, 3, {1}) /\ {1, 3} = {1} \cup {3}
        /\ After(n, State(0, 0, 0, 0), Litmuses[n].code[3]) = State(1, 0, 0, 0)
    BY LoadBufferSteps DEF n
  <2> QED BY <1>0, <1>11, <2>1, PartialGoesOn
<1>13. <<{1, 3, 4}, State(1, 0, 0, 1)>> \in Partial(n)
  <2>1. /\ 4 \in Ops(n) \ {1, 3} /\ Comes(n, 4, {1, 3}) /\ {1, 3, 4} = {1, 3} \cup {4}
        /\ After(n, State(1, 0, 0, 0), Litmuses[n].code[4]) = State(1, 0, 0, 1)
    BY LoadBufferSteps DEF n
  <2> QED BY <1>0, <1>12, <2>1, PartialGoesOn
<1>14. <<{1, 3, 4, 6}, State(1, 1, 0, 1)>> \in Partial(n)
  <2>1. /\ 6 \in Ops(n) \ {1, 3, 4} /\ Comes(n, 6, {1, 3, 4}) /\ {1, 3, 4, 6} = {1, 3, 4} \cup {6}
        /\ After(n, State(1, 0, 0, 1), Litmuses[n].code[6]) = State(1, 1, 0, 1)
    BY LoadBufferSteps DEF n
  <2> QED BY <1>0, <1>13, <2>1, PartialGoesOn
<1>15. <<0, 1>> \in Interleavings[n]
  <2>1. Seen(n, State(1, 1, 0, 1)) = <<0, 1>>
    BY LoadBufferSteps DEF n
  <2> QED BY <1>0, <1>14, <2>1, SeenAtTheEnd
<1>16. <<{1, 4}, State(0, 0, 0, 0)>> \in Partial(n)
  <2>1. /\ 4 \in Ops(n) \ {1} /\ Comes(n, 4, {1}) /\ {1, 4} = {1} \cup {4}
        /\ After(n, State(0, 0, 0, 0), Litmuses[n].code[4]) = State(0, 0, 0, 0)
    BY LoadBufferSteps DEF n
  <2> QED BY <1>0, <1>11, <2>1, PartialGoesOn
<1>17. <<{1, 3, 4}, State(1, 0, 0, 0)>> \in Partial(n)
  <2>1. /\ 3 \in Ops(n) \ {1, 4} /\ Comes(n, 3, {1, 4}) /\ {1, 3, 4} = {1, 4} \cup {3}
        /\ After(n, State(0, 0, 0, 0), Litmuses[n].code[3]) = State(1, 0, 0, 0)
    BY LoadBufferSteps DEF n
  <2> QED BY <1>0, <1>16, <2>1, PartialGoesOn
<1>18. <<{1, 3, 4, 6}, State(1, 1, 0, 0)>> \in Partial(n)
  <2>1. /\ 6 \in Ops(n) \ {1, 3, 4} /\ Comes(n, 6, {1, 3, 4}) /\ {1, 3, 4, 6} = {1, 3, 4} \cup {6}
        /\ After(n, State(1, 0, 0, 0), Litmuses[n].code[6]) = State(1, 1, 0, 0)
    BY LoadBufferSteps DEF n
  <2> QED BY <1>0, <1>17, <2>1, PartialGoesOn
<1>19. <<0, 0>> \in Interleavings[n]
  <2>1. Seen(n, State(1, 1, 0, 0)) = <<0, 0>>
    BY LoadBufferSteps DEF n
  <2> QED BY <1>0, <1>18, <2>1, SeenAtTheEnd
<1>20. Interleavings[n] \subseteq {<<1, 0>>, <<0, 1>>, <<0, 0>>}
  BY <1>0, <1>4 DEF Interleavings
<1> QED BY <1>10, <1>15, <1>19, <1>20 DEF n

LEMMA ReadTestBehaves == Interleavings["read"] = {<<1, 2>>, <<0, 1>>, <<1, 1>>}
<1> DEFINE n == "read"
           Good(done, x, y, a, b) ==
             /\ x \in {0, 1} /\ y \in {0, 1, 2} /\ a \in {0, 1}
             /\ 3 \in done => 1 \in done
             /\ 6 \in done => 4 \in done
             /\ 1 \in done => x = 1
             /\ 3 \in done \/ 4 \in done => y # 0
             /\ 6 \in done /\ 3 \in done /\ a = 0 => y = 1
           I == {t \in (SUBSET Ops(n)) \X (0 .. 2) \X (0 .. 2) \X (0 .. 2) \X (0 .. 2) :
                   Good(t[1], t[2], t[3], t[4], t[5])}
<1>0. n \in DOMAIN Litmuses /\ Ops(n) = {1, 3, 4, 6}
  BY ReadTestSteps
<1>1. <<{}, 0, 0, 0, 0>> \in I
  BY <1>0
<1>2. ASSUME NEW done \in SUBSET Ops(n), NEW x, NEW y, NEW a, NEW b, NEW c \in Ops(n) \ done,
             <<done, x, y, a, b>> \in I, Comes(n, c, done)
      PROVE  Leads(n, I, done, x, y, a, b, c)
  <2>1. Good(done, x, y, a, b) /\ x \in 0 .. 2 /\ y \in 0 .. 2 /\ a \in 0 .. 2 /\ b \in 0 .. 2
    BY <1>2
  <2>2. CASE c = 1
    <3>1. After(n, State(x, y, a, b), Litmuses[n].code[c]) = State(1, y, a, b)
      BY <1>2, <2>2, ReadTestSteps
    <3>2. Good(done \cup {c}, 1, y, a, b)
      BY <1>2, <2>1, <2>2, <3>1
    <3>3. <<done \cup {c}, 1, y, a, b>> \in I
      <4> HIDE DEF Good, n
      <4> QED BY <1>2, <2>1, <3>2
    <3> HIDE DEF I, n
    <3> QED BY <3>1, <3>3 DEF Leads
  <2>3. CASE c = 3
    <3>1. After(n, State(x, y, a, b), Litmuses[n].code[c]) = State(x, 1, a, b) /\ 1 \in done
      BY <1>2, <2>3, ReadTestSteps
    <3>2. Good(done \cup {c}, x, 1, a, b)
      BY <1>2, <2>1, <2>3, <3>1
    <3>3. <<done \cup {c}, x, 1, a, b>> \in I
      <4> HIDE DEF Good, n
      <4> QED BY <1>2, <2>1, <3>2
    <3> HIDE DEF I, n
    <3> QED BY <3>1, <3>3 DEF Leads
  <2>4. CASE c = 4
    <3>1. After(n, State(x, y, a, b), Litmuses[n].code[c]) = State(x, 2, a, b)
      BY <1>2, <2>4, ReadTestSteps
    <3>2. Good(done \cup {c}, x, 2, a, b)
      BY <1>2, <2>1, <2>4, <3>1
    <3>3. <<done \cup {c}, x, 2, a, b>> \in I
      <4> HIDE DEF Good, n
      <4> QED BY <1>2, <2>1, <3>2
    <3> HIDE DEF I, n
    <3> QED BY <3>1, <3>3 DEF Leads
  <2>5. CASE c = 6
    <3>1. After(n, State(x, y, a, b), Litmuses[n].code[c]) = State(x, y, x, b) /\ 4 \in done
      BY <1>2, <2>5, ReadTestSteps
    <3>2. Good(done \cup {c}, x, y, x, b)
      BY <1>2, <2>1, <2>5, <3>1
    <3>3. <<done \cup {c}, x, y, x, b>> \in I
      <4> HIDE DEF Good, n
      <4> QED BY <1>2, <2>1, <3>2
    <3> HIDE DEF I, n
    <3> QED BY <3>1, <3>3 DEF Leads
  <2> QED BY <1>0, <1>2, <2>2, <2>3, <2>4, <2>5
<1>3. \A p \in Partial(n) : \E x, y, a, b : p[2] = State(x, y, a, b) /\ <<p[1], x, y, a, b>> \in I
  <2> HIDE DEF I, n
  <2>1. Kept(n, I)
    BY <1>2 DEF Kept
  <2> QED BY <1>0, <1>1, <2>1, PartialKeeps
<1>4. ASSUME NEW p \in Partial(n), p[1] = Ops(n) PROVE Seen(n, p[2]) \in {<<1, 2>>, <<0, 1>>, <<1, 1>>}
  <2>1. PICK x, y, a, b : p[2] = State(x, y, a, b) /\ <<p[1], x, y, a, b>> \in I
    BY <1>3
  <2>2. Good(Ops(n), x, y, a, b) /\ x \in 0 .. 2 /\ y \in 0 .. 2 /\ a \in 0 .. 2 /\ b \in 0 .. 2
    BY <1>4, <2>1
  <2>3. Seen(n, p[2]) = <<a, y>>
    BY <2>1, ReadTestSteps
  <2>4. <<a, y>> \in {<<1, 2>>, <<0, 1>>, <<1, 1>>}
    BY <1>0, <2>2
  <2> QED BY <2>3, <2>4
<1> HIDE DEF Good, I, n
<1>5. <<{}, State(0, 0, 0, 0)>> \in Partial(n)
  BY <1>0, PartialStarts DEF Fresh
<1>6. <<{1}, State(1, 0, 0, 0)>> \in Partial(n)
  <2>1. /\ 1 \in Ops(n) \ {} /\ Comes(n, 1, {}) /\ {1} = {} \cup {1}
        /\ After(n, State(0, 0, 0, 0), Litmuses[n].code[1]) = State(1, 0, 0, 0)
    BY ReadTestSteps DEF n
  <2> QED BY <1>0, <1>5, <2>1, PartialGoesOn
<1>7. <<{1, 3}, State(1, 1, 0, 0)>> \in Partial(n)
  <2>1. /\ 3 \in Ops(n) \ {1} /\ Comes(n, 3, {1}) /\ {1, 3} = {1} \cup {3}
        /\ After(n, State(1, 0, 0, 0), Litmuses[n].code[3]) = State(1, 1, 0, 0)
    BY ReadTestSteps DEF n
  <2> QED BY <1>0, <1>6, <2>1, PartialGoesOn
<1>8. <<{1, 3, 4}, State(1, 2, 0, 0)>> \in Partial(n)
  <2>1. /\ 4 \in Ops(n) \ {1, 3} /\ Comes(n, 4, {1, 3}) /\ {1, 3, 4} = {1, 3} \cup {4}
        /\ After(n, State(1, 1, 0, 0), Litmuses[n].code[4]) = State(1, 2, 0, 0)
    BY ReadTestSteps DEF n
  <2> QED BY <1>0, <1>7, <2>1, PartialGoesOn
<1>9. <<{1, 3, 4, 6}, State(1, 2, 1, 0)>> \in Partial(n)
  <2>1. /\ 6 \in Ops(n) \ {1, 3, 4} /\ Comes(n, 6, {1, 3, 4}) /\ {1, 3, 4, 6} = {1, 3, 4} \cup {6}
        /\ After(n, State(1, 2, 0, 0), Litmuses[n].code[6]) = State(1, 2, 1, 0)
    BY ReadTestSteps DEF n
  <2> QED BY <1>0, <1>8, <2>1, PartialGoesOn
<1>10. <<1, 2>> \in Interleavings[n]
  <2>1. Seen(n, State(1, 2, 1, 0)) = <<1, 2>>
    BY ReadTestSteps DEF n
  <2> QED BY <1>0, <1>9, <2>1, SeenAtTheEnd
<1>11. <<{4}, State(0, 2, 0, 0)>> \in Partial(n)
  <2>1. /\ 4 \in Ops(n) \ {} /\ Comes(n, 4, {}) /\ {4} = {} \cup {4}
        /\ After(n, State(0, 0, 0, 0), Litmuses[n].code[4]) = State(0, 2, 0, 0)
    BY ReadTestSteps DEF n
  <2> QED BY <1>0, <1>5, <2>1, PartialGoesOn
<1>12. <<{4, 6}, State(0, 2, 0, 0)>> \in Partial(n)
  <2>1. /\ 6 \in Ops(n) \ {4} /\ Comes(n, 6, {4}) /\ {4, 6} = {4} \cup {6}
        /\ After(n, State(0, 2, 0, 0), Litmuses[n].code[6]) = State(0, 2, 0, 0)
    BY ReadTestSteps DEF n
  <2> QED BY <1>0, <1>11, <2>1, PartialGoesOn
<1>13. <<{1, 4, 6}, State(1, 2, 0, 0)>> \in Partial(n)
  <2>1. /\ 1 \in Ops(n) \ {4, 6} /\ Comes(n, 1, {4, 6}) /\ {1, 4, 6} = {4, 6} \cup {1}
        /\ After(n, State(0, 2, 0, 0), Litmuses[n].code[1]) = State(1, 2, 0, 0)
    BY ReadTestSteps DEF n
  <2> QED BY <1>0, <1>12, <2>1, PartialGoesOn
<1>14. <<{1, 3, 4, 6}, State(1, 1, 0, 0)>> \in Partial(n)
  <2>1. /\ 3 \in Ops(n) \ {1, 4, 6} /\ Comes(n, 3, {1, 4, 6}) /\ {1, 3, 4, 6} = {1, 4, 6} \cup {3}
        /\ After(n, State(1, 2, 0, 0), Litmuses[n].code[3]) = State(1, 1, 0, 0)
    BY ReadTestSteps DEF n
  <2> QED BY <1>0, <1>13, <2>1, PartialGoesOn
<1>15. <<0, 1>> \in Interleavings[n]
  <2>1. Seen(n, State(1, 1, 0, 0)) = <<0, 1>>
    BY ReadTestSteps DEF n
  <2> QED BY <1>0, <1>14, <2>1, SeenAtTheEnd
<1>16. <<{1, 4}, State(1, 2, 0, 0)>> \in Partial(n)
  <2>1. /\ 4 \in Ops(n) \ {1} /\ Comes(n, 4, {1}) /\ {1, 4} = {1} \cup {4}
        /\ After(n, State(1, 0, 0, 0), Litmuses[n].code[4]) = State(1, 2, 0, 0)
    BY ReadTestSteps DEF n
  <2> QED BY <1>0, <1>6, <2>1, PartialGoesOn
<1>17. <<{1, 3, 4}, State(1, 1, 0, 0)>> \in Partial(n)
  <2>1. /\ 3 \in Ops(n) \ {1, 4} /\ Comes(n, 3, {1, 4}) /\ {1, 3, 4} = {1, 4} \cup {3}
        /\ After(n, State(1, 2, 0, 0), Litmuses[n].code[3]) = State(1, 1, 0, 0)
    BY ReadTestSteps DEF n
  <2> QED BY <1>0, <1>16, <2>1, PartialGoesOn
<1>18. <<{1, 3, 4, 6}, State(1, 1, 1, 0)>> \in Partial(n)
  <2>1. /\ 6 \in Ops(n) \ {1, 3, 4} /\ Comes(n, 6, {1, 3, 4}) /\ {1, 3, 4, 6} = {1, 3, 4} \cup {6}
        /\ After(n, State(1, 1, 0, 0), Litmuses[n].code[6]) = State(1, 1, 1, 0)
    BY ReadTestSteps DEF n
  <2> QED BY <1>0, <1>17, <2>1, PartialGoesOn
<1>19. <<1, 1>> \in Interleavings[n]
  <2>1. Seen(n, State(1, 1, 1, 0)) = <<1, 1>>
    BY ReadTestSteps DEF n
  <2> QED BY <1>0, <1>18, <2>1, SeenAtTheEnd
<1>20. Interleavings[n] \subseteq {<<1, 2>>, <<0, 1>>, <<1, 1>>}
  BY <1>0, <1>4 DEF Interleavings
<1> QED BY <1>10, <1>15, <1>19, <1>20 DEF n

LEMMA StoreBufferBehaves == Interleavings["store_buffer"] = {<<1, 0>>, <<0, 1>>, <<1, 1>>}
<1> DEFINE n == "store_buffer"
           Good(done, x, y, a, b) ==
             /\ x \in {0, 1} /\ y \in {0, 1} /\ a \in {0, 1} /\ b \in {0, 1}
             /\ 3 \in done => 1 \in done
             /\ 6 \in done => 4 \in done
             /\ 1 \in done => x = 1
             /\ 4 \in done => y = 1
             /\ 3 \in done /\ 6 \in done => a = 1 \/ b = 1
           I == {t \in (SUBSET Ops(n)) \X (0 .. 2) \X (0 .. 2) \X (0 .. 2) \X (0 .. 2) :
                   Good(t[1], t[2], t[3], t[4], t[5])}
<1>0. n \in DOMAIN Litmuses /\ Ops(n) = {1, 3, 4, 6}
  BY StoreBufferSteps
<1>1. <<{}, 0, 0, 0, 0>> \in I
  BY <1>0
<1>2. ASSUME NEW done \in SUBSET Ops(n), NEW x, NEW y, NEW a, NEW b, NEW c \in Ops(n) \ done,
             <<done, x, y, a, b>> \in I, Comes(n, c, done)
      PROVE  Leads(n, I, done, x, y, a, b, c)
  <2>1. Good(done, x, y, a, b) /\ x \in 0 .. 2 /\ y \in 0 .. 2 /\ a \in 0 .. 2 /\ b \in 0 .. 2
    BY <1>2
  <2>2. CASE c = 1
    <3>1. After(n, State(x, y, a, b), Litmuses[n].code[c]) = State(1, y, a, b)
      BY <1>2, <2>2, StoreBufferSteps
    <3>2. Good(done \cup {c}, 1, y, a, b)
      BY <1>2, <2>1, <2>2, <3>1
    <3>3. <<done \cup {c}, 1, y, a, b>> \in I
      <4> HIDE DEF Good, n
      <4> QED BY <1>2, <2>1, <3>2
    <3> HIDE DEF I, n
    <3> QED BY <3>1, <3>3 DEF Leads
  <2>3. CASE c = 3
    <3>1. After(n, State(x, y, a, b), Litmuses[n].code[c]) = State(x, y, y, b) /\ 1 \in done
      BY <1>2, <2>3, StoreBufferSteps
    <3>2. Good(done \cup {c}, x, y, y, b)
      BY <1>2, <2>1, <2>3, <3>1
    <3>3. <<done \cup {c}, x, y, y, b>> \in I
      <4> HIDE DEF Good, n
      <4> QED BY <1>2, <2>1, <3>2
    <3> HIDE DEF I, n
    <3> QED BY <3>1, <3>3 DEF Leads
  <2>4. CASE c = 4
    <3>1. After(n, State(x, y, a, b), Litmuses[n].code[c]) = State(x, 1, a, b)
      BY <1>2, <2>4, StoreBufferSteps
    <3>2. Good(done \cup {c}, x, 1, a, b)
      BY <1>2, <2>1, <2>4, <3>1
    <3>3. <<done \cup {c}, x, 1, a, b>> \in I
      <4> HIDE DEF Good, n
      <4> QED BY <1>2, <2>1, <3>2
    <3> HIDE DEF I, n
    <3> QED BY <3>1, <3>3 DEF Leads
  <2>5. CASE c = 6
    <3>1. After(n, State(x, y, a, b), Litmuses[n].code[c]) = State(x, y, a, x) /\ 4 \in done
      BY <1>2, <2>5, StoreBufferSteps
    <3>2. Good(done \cup {c}, x, y, a, x)
      BY <1>2, <2>1, <2>5, <3>1
    <3>3. <<done \cup {c}, x, y, a, x>> \in I
      <4> HIDE DEF Good, n
      <4> QED BY <1>2, <2>1, <3>2
    <3> HIDE DEF I, n
    <3> QED BY <3>1, <3>3 DEF Leads
  <2> QED BY <1>0, <1>2, <2>2, <2>3, <2>4, <2>5
<1>3. \A p \in Partial(n) : \E x, y, a, b : p[2] = State(x, y, a, b) /\ <<p[1], x, y, a, b>> \in I
  <2> HIDE DEF I, n
  <2>1. Kept(n, I)
    BY <1>2 DEF Kept
  <2> QED BY <1>0, <1>1, <2>1, PartialKeeps
<1>4. ASSUME NEW p \in Partial(n), p[1] = Ops(n) PROVE Seen(n, p[2]) \in {<<1, 0>>, <<0, 1>>, <<1, 1>>}
  <2>1. PICK x, y, a, b : p[2] = State(x, y, a, b) /\ <<p[1], x, y, a, b>> \in I
    BY <1>3
  <2>2. Good(Ops(n), x, y, a, b) /\ x \in 0 .. 2 /\ y \in 0 .. 2 /\ a \in 0 .. 2 /\ b \in 0 .. 2
    BY <1>4, <2>1
  <2>3. Seen(n, p[2]) = <<a, b>>
    BY <2>1, StoreBufferSteps
  <2>4. <<a, b>> \in {<<1, 0>>, <<0, 1>>, <<1, 1>>}
    BY <1>0, <2>2
  <2> QED BY <2>3, <2>4
<1> HIDE DEF Good, I, n
<1>5. <<{}, State(0, 0, 0, 0)>> \in Partial(n)
  BY <1>0, PartialStarts DEF Fresh
<1>6. <<{4}, State(0, 1, 0, 0)>> \in Partial(n)
  <2>1. /\ 4 \in Ops(n) \ {} /\ Comes(n, 4, {}) /\ {4} = {} \cup {4}
        /\ After(n, State(0, 0, 0, 0), Litmuses[n].code[4]) = State(0, 1, 0, 0)
    BY StoreBufferSteps DEF n
  <2> QED BY <1>0, <1>5, <2>1, PartialGoesOn
<1>7. <<{4, 6}, State(0, 1, 0, 0)>> \in Partial(n)
  <2>1. /\ 6 \in Ops(n) \ {4} /\ Comes(n, 6, {4}) /\ {4, 6} = {4} \cup {6}
        /\ After(n, State(0, 1, 0, 0), Litmuses[n].code[6]) = State(0, 1, 0, 0)
    BY StoreBufferSteps DEF n
  <2> QED BY <1>0, <1>6, <2>1, PartialGoesOn
<1>8. <<{1, 4, 6}, State(1, 1, 0, 0)>> \in Partial(n)
  <2>1. /\ 1 \in Ops(n) \ {4, 6} /\ Comes(n, 1, {4, 6}) /\ {1, 4, 6} = {4, 6} \cup {1}
        /\ After(n, State(0, 1, 0, 0), Litmuses[n].code[1]) = State(1, 1, 0, 0)
    BY StoreBufferSteps DEF n
  <2> QED BY <1>0, <1>7, <2>1, PartialGoesOn
<1>9. <<{1, 3, 4, 6}, State(1, 1, 1, 0)>> \in Partial(n)
  <2>1. /\ 3 \in Ops(n) \ {1, 4, 6} /\ Comes(n, 3, {1, 4, 6}) /\ {1, 3, 4, 6} = {1, 4, 6} \cup {3}
        /\ After(n, State(1, 1, 0, 0), Litmuses[n].code[3]) = State(1, 1, 1, 0)
    BY StoreBufferSteps DEF n
  <2> QED BY <1>0, <1>8, <2>1, PartialGoesOn
<1>10. <<1, 0>> \in Interleavings[n]
  <2>1. Seen(n, State(1, 1, 1, 0)) = <<1, 0>>
    BY StoreBufferSteps DEF n
  <2> QED BY <1>0, <1>9, <2>1, SeenAtTheEnd
<1>11. <<{1}, State(1, 0, 0, 0)>> \in Partial(n)
  <2>1. /\ 1 \in Ops(n) \ {} /\ Comes(n, 1, {}) /\ {1} = {} \cup {1}
        /\ After(n, State(0, 0, 0, 0), Litmuses[n].code[1]) = State(1, 0, 0, 0)
    BY StoreBufferSteps DEF n
  <2> QED BY <1>0, <1>5, <2>1, PartialGoesOn
<1>12. <<{1, 3}, State(1, 0, 0, 0)>> \in Partial(n)
  <2>1. /\ 3 \in Ops(n) \ {1} /\ Comes(n, 3, {1}) /\ {1, 3} = {1} \cup {3}
        /\ After(n, State(1, 0, 0, 0), Litmuses[n].code[3]) = State(1, 0, 0, 0)
    BY StoreBufferSteps DEF n
  <2> QED BY <1>0, <1>11, <2>1, PartialGoesOn
<1>13. <<{1, 3, 4}, State(1, 1, 0, 0)>> \in Partial(n)
  <2>1. /\ 4 \in Ops(n) \ {1, 3} /\ Comes(n, 4, {1, 3}) /\ {1, 3, 4} = {1, 3} \cup {4}
        /\ After(n, State(1, 0, 0, 0), Litmuses[n].code[4]) = State(1, 1, 0, 0)
    BY StoreBufferSteps DEF n
  <2> QED BY <1>0, <1>12, <2>1, PartialGoesOn
<1>14. <<{1, 3, 4, 6}, State(1, 1, 0, 1)>> \in Partial(n)
  <2>1. /\ 6 \in Ops(n) \ {1, 3, 4} /\ Comes(n, 6, {1, 3, 4}) /\ {1, 3, 4, 6} = {1, 3, 4} \cup {6}
        /\ After(n, State(1, 1, 0, 0), Litmuses[n].code[6]) = State(1, 1, 0, 1)
    BY StoreBufferSteps DEF n
  <2> QED BY <1>0, <1>13, <2>1, PartialGoesOn
<1>15. <<0, 1>> \in Interleavings[n]
  <2>1. Seen(n, State(1, 1, 0, 1)) = <<0, 1>>
    BY StoreBufferSteps DEF n
  <2> QED BY <1>0, <1>14, <2>1, SeenAtTheEnd
<1>16. <<{1, 4}, State(1, 1, 0, 0)>> \in Partial(n)
  <2>1. /\ 4 \in Ops(n) \ {1} /\ Comes(n, 4, {1}) /\ {1, 4} = {1} \cup {4}
        /\ After(n, State(1, 0, 0, 0), Litmuses[n].code[4]) = State(1, 1, 0, 0)
    BY StoreBufferSteps DEF n
  <2> QED BY <1>0, <1>11, <2>1, PartialGoesOn
<1>17. <<{1, 3, 4}, State(1, 1, 1, 0)>> \in Partial(n)
  <2>1. /\ 3 \in Ops(n) \ {1, 4} /\ Comes(n, 3, {1, 4}) /\ {1, 3, 4} = {1, 4} \cup {3}
        /\ After(n, State(1, 1, 0, 0), Litmuses[n].code[3]) = State(1, 1, 1, 0)
    BY StoreBufferSteps DEF n
  <2> QED BY <1>0, <1>16, <2>1, PartialGoesOn
<1>18. <<{1, 3, 4, 6}, State(1, 1, 1, 1)>> \in Partial(n)
  <2>1. /\ 6 \in Ops(n) \ {1, 3, 4} /\ Comes(n, 6, {1, 3, 4}) /\ {1, 3, 4, 6} = {1, 3, 4} \cup {6}
        /\ After(n, State(1, 1, 1, 0), Litmuses[n].code[6]) = State(1, 1, 1, 1)
    BY StoreBufferSteps DEF n
  <2> QED BY <1>0, <1>17, <2>1, PartialGoesOn
<1>19. <<1, 1>> \in Interleavings[n]
  <2>1. Seen(n, State(1, 1, 1, 1)) = <<1, 1>>
    BY StoreBufferSteps DEF n
  <2> QED BY <1>0, <1>18, <2>1, SeenAtTheEnd
<1>20. Interleavings[n] \subseteq {<<1, 0>>, <<0, 1>>, <<1, 1>>}
  BY <1>0, <1>4 DEF Interleavings
<1> QED BY <1>10, <1>15, <1>19, <1>20 DEF n

LEMMA TwoPlusTwoWriteBehaves == Interleavings["two_plus_two"] = {<<1, 2>>, <<2, 1>>, <<1, 1>>}
<1> DEFINE n == "two_plus_two"
           Good(done, x, y, a, b) ==
             /\ x \in {0, 1, 2} /\ y \in {0, 1, 2}
             /\ 3 \in done => 1 \in done
             /\ 6 \in done => 4 \in done
             /\ 1 \in done \/ 6 \in done => x # 0
             /\ 3 \in done \/ 4 \in done => y # 0
             /\ {1, 3, 6} \subseteq done /\ x = 2 => y = 1
           I == {t \in (SUBSET Ops(n)) \X (0 .. 2) \X (0 .. 2) \X (0 .. 2) \X (0 .. 2) :
                   Good(t[1], t[2], t[3], t[4], t[5])}
<1>0. n \in DOMAIN Litmuses /\ Ops(n) = {1, 3, 4, 6}
  BY TwoPlusTwoWriteSteps
<1>1. <<{}, 0, 0, 0, 0>> \in I
  BY <1>0
<1>2. ASSUME NEW done \in SUBSET Ops(n), NEW x, NEW y, NEW a, NEW b, NEW c \in Ops(n) \ done,
             <<done, x, y, a, b>> \in I, Comes(n, c, done)
      PROVE  Leads(n, I, done, x, y, a, b, c)
  <2>1. Good(done, x, y, a, b) /\ x \in 0 .. 2 /\ y \in 0 .. 2 /\ a \in 0 .. 2 /\ b \in 0 .. 2
    BY <1>2
  <2>2. CASE c = 1
    <3>1. After(n, State(x, y, a, b), Litmuses[n].code[c]) = State(2, y, a, b)
      BY <1>2, <2>2, TwoPlusTwoWriteSteps
    <3>2. Good(done \cup {c}, 2, y, a, b)
      BY <1>2, <2>1, <2>2, <3>1
    <3>3. <<done \cup {c}, 2, y, a, b>> \in I
      <4> HIDE DEF Good, n
      <4> QED BY <1>2, <2>1, <3>2
    <3> HIDE DEF I, n
    <3> QED BY <3>1, <3>3 DEF Leads
  <2>3. CASE c = 3
    <3>1. After(n, State(x, y, a, b), Litmuses[n].code[c]) = State(x, 1, a, b) /\ 1 \in done
      BY <1>2, <2>3, TwoPlusTwoWriteSteps
    <3>2. Good(done \cup {c}, x, 1, a, b)
      BY <1>2, <2>1, <2>3, <3>1
    <3>3. <<done \cup {c}, x, 1, a, b>> \in I
      <4> HIDE DEF Good, n
      <4> QED BY <1>2, <2>1, <3>2
    <3> HIDE DEF I, n
    <3> QED BY <3>1, <3>3 DEF Leads
  <2>4. CASE c = 4
    <3>1. After(n, State(x, y, a, b), Litmuses[n].code[c]) = State(x, 2, a, b)
      BY <1>2, <2>4, TwoPlusTwoWriteSteps
    <3>2. Good(done \cup {c}, x, 2, a, b)
      BY <1>2, <2>1, <2>4, <3>1
    <3>3. <<done \cup {c}, x, 2, a, b>> \in I
      <4> HIDE DEF Good, n
      <4> QED BY <1>2, <2>1, <3>2
    <3> HIDE DEF I, n
    <3> QED BY <3>1, <3>3 DEF Leads
  <2>5. CASE c = 6
    <3>1. After(n, State(x, y, a, b), Litmuses[n].code[c]) = State(1, y, a, b) /\ 4 \in done
      BY <1>2, <2>5, TwoPlusTwoWriteSteps
    <3>2. Good(done \cup {c}, 1, y, a, b)
      BY <1>2, <2>1, <2>5, <3>1
    <3>3. <<done \cup {c}, 1, y, a, b>> \in I
      <4> HIDE DEF Good, n
      <4> QED BY <1>2, <2>1, <3>2
    <3> HIDE DEF I, n
    <3> QED BY <3>1, <3>3 DEF Leads
  <2> QED BY <1>0, <1>2, <2>2, <2>3, <2>4, <2>5
<1>3. \A p \in Partial(n) : \E x, y, a, b : p[2] = State(x, y, a, b) /\ <<p[1], x, y, a, b>> \in I
  <2> HIDE DEF I, n
  <2>1. Kept(n, I)
    BY <1>2 DEF Kept
  <2> QED BY <1>0, <1>1, <2>1, PartialKeeps
<1>4. ASSUME NEW p \in Partial(n), p[1] = Ops(n) PROVE Seen(n, p[2]) \in {<<1, 2>>, <<2, 1>>, <<1, 1>>}
  <2>1. PICK x, y, a, b : p[2] = State(x, y, a, b) /\ <<p[1], x, y, a, b>> \in I
    BY <1>3
  <2>2. Good(Ops(n), x, y, a, b) /\ x \in 0 .. 2 /\ y \in 0 .. 2 /\ a \in 0 .. 2 /\ b \in 0 .. 2
    BY <1>4, <2>1
  <2>3. Seen(n, p[2]) = <<x, y>>
    BY <2>1, TwoPlusTwoWriteSteps
  <2>4. <<x, y>> \in {<<1, 2>>, <<2, 1>>, <<1, 1>>}
    BY <1>0, <2>2
  <2> QED BY <2>3, <2>4
<1> HIDE DEF Good, I, n
<1>5. <<{}, State(0, 0, 0, 0)>> \in Partial(n)
  BY <1>0, PartialStarts DEF Fresh
<1>6. <<{1}, State(2, 0, 0, 0)>> \in Partial(n)
  <2>1. /\ 1 \in Ops(n) \ {} /\ Comes(n, 1, {}) /\ {1} = {} \cup {1}
        /\ After(n, State(0, 0, 0, 0), Litmuses[n].code[1]) = State(2, 0, 0, 0)
    BY TwoPlusTwoWriteSteps DEF n
  <2> QED BY <1>0, <1>5, <2>1, PartialGoesOn
<1>7. <<{1, 3}, State(2, 1, 0, 0)>> \in Partial(n)
  <2>1. /\ 3 \in Ops(n) \ {1} /\ Comes(n, 3, {1}) /\ {1, 3} = {1} \cup {3}
        /\ After(n, State(2, 0, 0, 0), Litmuses[n].code[3]) = State(2, 1, 0, 0)
    BY TwoPlusTwoWriteSteps DEF n
  <2> QED BY <1>0, <1>6, <2>1, PartialGoesOn
<1>8. <<{1, 3, 4}, State(2, 2, 0, 0)>> \in Partial(n)
  <2>1. /\ 4 \in Ops(n) \ {1, 3} /\ Comes(n, 4, {1, 3}) /\ {1, 3, 4} = {1, 3} \cup {4}
        /\ After(n, State(2, 1, 0, 0), Litmuses[n].code[4]) = State(2, 2, 0, 0)
    BY TwoPlusTwoWriteSteps DEF n
  <2> QED BY <1>0, <1>7, <2>1, PartialGoesOn
<1>9. <<{1, 3, 4, 6}, State(1, 2, 0, 0)>> \in Partial(n)
  <2>1. /\ 6 \in Ops(n) \ {1, 3, 4} /\ Comes(n, 6, {1, 3, 4}) /\ {1, 3, 4, 6} = {1, 3, 4} \cup {6}
        /\ After(n, State(2, 2, 0, 0), Litmuses[n].code[6]) = State(1, 2, 0, 0)
    BY TwoPlusTwoWriteSteps DEF n
  <2> QED BY <1>0, <1>8, <2>1, PartialGoesOn
<1>10. <<1, 2>> \in Interleavings[n]
  <2>1. Seen(n, State(1, 2, 0, 0)) = <<1, 2>>
    BY TwoPlusTwoWriteSteps DEF n
  <2> QED BY <1>0, <1>9, <2>1, SeenAtTheEnd
<1>11. <<{4}, State(0, 2, 0, 0)>> \in Partial(n)
  <2>1. /\ 4 \in Ops(n) \ {} /\ Comes(n, 4, {}) /\ {4} = {} \cup {4}
        /\ After(n, State(0, 0, 0, 0), Litmuses[n].code[4]) = State(0, 2, 0, 0)
    BY TwoPlusTwoWriteSteps DEF n
  <2> QED BY <1>0, <1>5, <2>1, PartialGoesOn
<1>12. <<{4, 6}, State(1, 2, 0, 0)>> \in Partial(n)
  <2>1. /\ 6 \in Ops(n) \ {4} /\ Comes(n, 6, {4}) /\ {4, 6} = {4} \cup {6}
        /\ After(n, State(0, 2, 0, 0), Litmuses[n].code[6]) = State(1, 2, 0, 0)
    BY TwoPlusTwoWriteSteps DEF n
  <2> QED BY <1>0, <1>11, <2>1, PartialGoesOn
<1>13. <<{1, 4, 6}, State(2, 2, 0, 0)>> \in Partial(n)
  <2>1. /\ 1 \in Ops(n) \ {4, 6} /\ Comes(n, 1, {4, 6}) /\ {1, 4, 6} = {4, 6} \cup {1}
        /\ After(n, State(1, 2, 0, 0), Litmuses[n].code[1]) = State(2, 2, 0, 0)
    BY TwoPlusTwoWriteSteps DEF n
  <2> QED BY <1>0, <1>12, <2>1, PartialGoesOn
<1>14. <<{1, 3, 4, 6}, State(2, 1, 0, 0)>> \in Partial(n)
  <2>1. /\ 3 \in Ops(n) \ {1, 4, 6} /\ Comes(n, 3, {1, 4, 6}) /\ {1, 3, 4, 6} = {1, 4, 6} \cup {3}
        /\ After(n, State(2, 2, 0, 0), Litmuses[n].code[3]) = State(2, 1, 0, 0)
    BY TwoPlusTwoWriteSteps DEF n
  <2> QED BY <1>0, <1>13, <2>1, PartialGoesOn
<1>15. <<2, 1>> \in Interleavings[n]
  <2>1. Seen(n, State(2, 1, 0, 0)) = <<2, 1>>
    BY TwoPlusTwoWriteSteps DEF n
  <2> QED BY <1>0, <1>14, <2>1, SeenAtTheEnd
<1>16. <<{1, 4}, State(2, 2, 0, 0)>> \in Partial(n)
  <2>1. /\ 4 \in Ops(n) \ {1} /\ Comes(n, 4, {1}) /\ {1, 4} = {1} \cup {4}
        /\ After(n, State(2, 0, 0, 0), Litmuses[n].code[4]) = State(2, 2, 0, 0)
    BY TwoPlusTwoWriteSteps DEF n
  <2> QED BY <1>0, <1>6, <2>1, PartialGoesOn
<1>17. <<{1, 3, 4}, State(2, 1, 0, 0)>> \in Partial(n)
  <2>1. /\ 3 \in Ops(n) \ {1, 4} /\ Comes(n, 3, {1, 4}) /\ {1, 3, 4} = {1, 4} \cup {3}
        /\ After(n, State(2, 2, 0, 0), Litmuses[n].code[3]) = State(2, 1, 0, 0)
    BY TwoPlusTwoWriteSteps DEF n
  <2> QED BY <1>0, <1>16, <2>1, PartialGoesOn
<1>18. <<{1, 3, 4, 6}, State(1, 1, 0, 0)>> \in Partial(n)
  <2>1. /\ 6 \in Ops(n) \ {1, 3, 4} /\ Comes(n, 6, {1, 3, 4}) /\ {1, 3, 4, 6} = {1, 3, 4} \cup {6}
        /\ After(n, State(2, 1, 0, 0), Litmuses[n].code[6]) = State(1, 1, 0, 0)
    BY TwoPlusTwoWriteSteps DEF n
  <2> QED BY <1>0, <1>17, <2>1, PartialGoesOn
<1>19. <<1, 1>> \in Interleavings[n]
  <2>1. Seen(n, State(1, 1, 0, 0)) = <<1, 1>>
    BY TwoPlusTwoWriteSteps DEF n
  <2> QED BY <1>0, <1>18, <2>1, SeenAtTheEnd
<1>20. Interleavings[n] \subseteq {<<1, 2>>, <<2, 1>>, <<1, 1>>}
  BY <1>0, <1>4 DEF Interleavings
<1> QED BY <1>10, <1>15, <1>19, <1>20 DEF n

LEMMA CoRRBehaves == Interleavings["corr"] = {<<0, 0>>, <<1, 1>>, <<0, 1>>}
<1> DEFINE n == "corr"
           Good(done, x, y, a, b) ==
             /\ x \in {0, 1} /\ a \in {0, 1} /\ b \in {0, 1}
             /\ 3 \in done => 2 \in done
             /\ a = 1 => x = 1
             /\ 3 \in done /\ a = 1 => b = 1
           I == {t \in (SUBSET Ops(n)) \X (0 .. 2) \X (0 .. 2) \X (0 .. 2) \X (0 .. 2) :
                   Good(t[1], t[2], t[3], t[4], t[5])}
<1>0. n \in DOMAIN Litmuses /\ Ops(n) = {1, 2, 3}
  BY CoRRSteps
<1>1. <<{}, 0, 0, 0, 0>> \in I
  BY <1>0
<1>2. ASSUME NEW done \in SUBSET Ops(n), NEW x, NEW y, NEW a, NEW b, NEW c \in Ops(n) \ done,
             <<done, x, y, a, b>> \in I, Comes(n, c, done)
      PROVE  Leads(n, I, done, x, y, a, b, c)
  <2>1. Good(done, x, y, a, b) /\ x \in 0 .. 2 /\ y \in 0 .. 2 /\ a \in 0 .. 2 /\ b \in 0 .. 2
    BY <1>2
  <2>2. CASE c = 1
    <3>1. After(n, State(x, y, a, b), Litmuses[n].code[c]) = State(1, y, a, b)
      BY <1>2, <2>2, CoRRSteps
    <3>2. Good(done \cup {c}, 1, y, a, b)
      BY <1>2, <2>1, <2>2, <3>1
    <3>3. <<done \cup {c}, 1, y, a, b>> \in I
      <4> HIDE DEF Good, n
      <4> QED BY <1>2, <2>1, <3>2
    <3> HIDE DEF I, n
    <3> QED BY <3>1, <3>3 DEF Leads
  <2>3. CASE c = 2
    <3>1. After(n, State(x, y, a, b), Litmuses[n].code[c]) = State(x, y, x, b)
      BY <1>2, <2>3, CoRRSteps
    <3>2. Good(done \cup {c}, x, y, x, b)
      BY <1>2, <2>1, <2>3, <3>1
    <3>3. <<done \cup {c}, x, y, x, b>> \in I
      <4> HIDE DEF Good, n
      <4> QED BY <1>2, <2>1, <3>2
    <3> HIDE DEF I, n
    <3> QED BY <3>1, <3>3 DEF Leads
  <2>4. CASE c = 3
    <3>1. After(n, State(x, y, a, b), Litmuses[n].code[c]) = State(x, y, a, x) /\ 2 \in done
      BY <1>2, <2>4, CoRRSteps
    <3>2. Good(done \cup {c}, x, y, a, x)
      BY <1>2, <2>1, <2>4, <3>1
    <3>3. <<done \cup {c}, x, y, a, x>> \in I
      <4> HIDE DEF Good, n
      <4> QED BY <1>2, <2>1, <3>2
    <3> HIDE DEF I, n
    <3> QED BY <3>1, <3>3 DEF Leads
  <2> QED BY <1>0, <1>2, <2>2, <2>3, <2>4
<1>3. \A p \in Partial(n) : \E x, y, a, b : p[2] = State(x, y, a, b) /\ <<p[1], x, y, a, b>> \in I
  <2> HIDE DEF I, n
  <2>1. Kept(n, I)
    BY <1>2 DEF Kept
  <2> QED BY <1>0, <1>1, <2>1, PartialKeeps
<1>4. ASSUME NEW p \in Partial(n), p[1] = Ops(n) PROVE Seen(n, p[2]) \in {<<0, 0>>, <<1, 1>>, <<0, 1>>}
  <2>1. PICK x, y, a, b : p[2] = State(x, y, a, b) /\ <<p[1], x, y, a, b>> \in I
    BY <1>3
  <2>2. Good(Ops(n), x, y, a, b) /\ x \in 0 .. 2 /\ y \in 0 .. 2 /\ a \in 0 .. 2 /\ b \in 0 .. 2
    BY <1>4, <2>1
  <2>3. Seen(n, p[2]) = <<a, b>>
    BY <2>1, CoRRSteps
  <2>4. <<a, b>> \in {<<0, 0>>, <<1, 1>>, <<0, 1>>}
    BY <1>0, <2>2
  <2> QED BY <2>3, <2>4
<1> HIDE DEF Good, I, n
<1>5. <<{}, State(0, 0, 0, 0)>> \in Partial(n)
  BY <1>0, PartialStarts DEF Fresh
<1>6. <<{2}, State(0, 0, 0, 0)>> \in Partial(n)
  <2>1. /\ 2 \in Ops(n) \ {} /\ Comes(n, 2, {}) /\ {2} = {} \cup {2}
        /\ After(n, State(0, 0, 0, 0), Litmuses[n].code[2]) = State(0, 0, 0, 0)
    BY CoRRSteps DEF n
  <2> QED BY <1>0, <1>5, <2>1, PartialGoesOn
<1>7. <<{2, 3}, State(0, 0, 0, 0)>> \in Partial(n)
  <2>1. /\ 3 \in Ops(n) \ {2} /\ Comes(n, 3, {2}) /\ {2, 3} = {2} \cup {3}
        /\ After(n, State(0, 0, 0, 0), Litmuses[n].code[3]) = State(0, 0, 0, 0)
    BY CoRRSteps DEF n
  <2> QED BY <1>0, <1>6, <2>1, PartialGoesOn
<1>8. <<{1, 2, 3}, State(1, 0, 0, 0)>> \in Partial(n)
  <2>1. /\ 1 \in Ops(n) \ {2, 3} /\ Comes(n, 1, {2, 3}) /\ {1, 2, 3} = {2, 3} \cup {1}
        /\ After(n, State(0, 0, 0, 0), Litmuses[n].code[1]) = State(1, 0, 0, 0)
    BY CoRRSteps DEF n
  <2> QED BY <1>0, <1>7, <2>1, PartialGoesOn
<1>9. <<0, 0>> \in Interleavings[n]
  <2>1. Seen(n, State(1, 0, 0, 0)) = <<0, 0>>
    BY CoRRSteps DEF n
  <2> QED BY <1>0, <1>8, <2>1, SeenAtTheEnd
<1>10. <<{1}, State(1, 0, 0, 0)>> \in Partial(n)
  <2>1. /\ 1 \in Ops(n) \ {} /\ Comes(n, 1, {}) /\ {1} = {} \cup {1}
        /\ After(n, State(0, 0, 0, 0), Litmuses[n].code[1]) = State(1, 0, 0, 0)
    BY CoRRSteps DEF n
  <2> QED BY <1>0, <1>5, <2>1, PartialGoesOn
<1>11. <<{1, 2}, State(1, 0, 1, 0)>> \in Partial(n)
  <2>1. /\ 2 \in Ops(n) \ {1} /\ Comes(n, 2, {1}) /\ {1, 2} = {1} \cup {2}
        /\ After(n, State(1, 0, 0, 0), Litmuses[n].code[2]) = State(1, 0, 1, 0)
    BY CoRRSteps DEF n
  <2> QED BY <1>0, <1>10, <2>1, PartialGoesOn
<1>12. <<{1, 2, 3}, State(1, 0, 1, 1)>> \in Partial(n)
  <2>1. /\ 3 \in Ops(n) \ {1, 2} /\ Comes(n, 3, {1, 2}) /\ {1, 2, 3} = {1, 2} \cup {3}
        /\ After(n, State(1, 0, 1, 0), Litmuses[n].code[3]) = State(1, 0, 1, 1)
    BY CoRRSteps DEF n
  <2> QED BY <1>0, <1>11, <2>1, PartialGoesOn
<1>13. <<1, 1>> \in Interleavings[n]
  <2>1. Seen(n, State(1, 0, 1, 1)) = <<1, 1>>
    BY CoRRSteps DEF n
  <2> QED BY <1>0, <1>12, <2>1, SeenAtTheEnd
<1>14. <<{1, 2}, State(1, 0, 0, 0)>> \in Partial(n)
  <2>1. /\ 1 \in Ops(n) \ {2} /\ Comes(n, 1, {2}) /\ {1, 2} = {2} \cup {1}
        /\ After(n, State(0, 0, 0, 0), Litmuses[n].code[1]) = State(1, 0, 0, 0)
    BY CoRRSteps DEF n
  <2> QED BY <1>0, <1>6, <2>1, PartialGoesOn
<1>15. <<{1, 2, 3}, State(1, 0, 0, 1)>> \in Partial(n)
  <2>1. /\ 3 \in Ops(n) \ {1, 2} /\ Comes(n, 3, {1, 2}) /\ {1, 2, 3} = {1, 2} \cup {3}
        /\ After(n, State(1, 0, 0, 0), Litmuses[n].code[3]) = State(1, 0, 0, 1)
    BY CoRRSteps DEF n
  <2> QED BY <1>0, <1>14, <2>1, PartialGoesOn
<1>16. <<0, 1>> \in Interleavings[n]
  <2>1. Seen(n, State(1, 0, 0, 1)) = <<0, 1>>
    BY CoRRSteps DEF n
  <2> QED BY <1>0, <1>15, <2>1, SeenAtTheEnd
<1>17. Interleavings[n] \subseteq {<<0, 0>>, <<1, 1>>, <<0, 1>>}
  BY <1>0, <1>4 DEF Interleavings
<1> QED BY <1>9, <1>13, <1>16, <1>17 DEF n

LEMMA CoWWBehaves == Interleavings["coww"] = {<<2>>}
<1> DEFINE n == "coww"
           Good(done, x, y, a, b) ==
             /\ 2 \in done => 1 \in done /\ x = 2
           I == {t \in (SUBSET Ops(n)) \X (0 .. 2) \X (0 .. 2) \X (0 .. 2) \X (0 .. 2) :
                   Good(t[1], t[2], t[3], t[4], t[5])}
<1>0. n \in DOMAIN Litmuses /\ Ops(n) = {1, 2}
  BY CoWWSteps
<1>1. <<{}, 0, 0, 0, 0>> \in I
  BY <1>0
<1>2. ASSUME NEW done \in SUBSET Ops(n), NEW x, NEW y, NEW a, NEW b, NEW c \in Ops(n) \ done,
             <<done, x, y, a, b>> \in I, Comes(n, c, done)
      PROVE  Leads(n, I, done, x, y, a, b, c)
  <2>1. Good(done, x, y, a, b) /\ x \in 0 .. 2 /\ y \in 0 .. 2 /\ a \in 0 .. 2 /\ b \in 0 .. 2
    BY <1>2
  <2>2. CASE c = 1
    <3>1. After(n, State(x, y, a, b), Litmuses[n].code[c]) = State(1, y, a, b)
      BY <1>2, <2>2, CoWWSteps
    <3>2. Good(done \cup {c}, 1, y, a, b)
      BY <1>2, <2>1, <2>2, <3>1
    <3>3. <<done \cup {c}, 1, y, a, b>> \in I
      <4> HIDE DEF Good, n
      <4> QED BY <1>2, <2>1, <3>2
    <3> HIDE DEF I, n
    <3> QED BY <3>1, <3>3 DEF Leads
  <2>3. CASE c = 2
    <3>1. After(n, State(x, y, a, b), Litmuses[n].code[c]) = State(2, y, a, b) /\ 1 \in done
      BY <1>2, <2>3, CoWWSteps
    <3>2. Good(done \cup {c}, 2, y, a, b)
      BY <1>2, <2>1, <2>3, <3>1
    <3>3. <<done \cup {c}, 2, y, a, b>> \in I
      <4> HIDE DEF Good, n
      <4> QED BY <1>2, <2>1, <3>2
    <3> HIDE DEF I, n
    <3> QED BY <3>1, <3>3 DEF Leads
  <2> QED BY <1>0, <1>2, <2>2, <2>3
<1>3. \A p \in Partial(n) : \E x, y, a, b : p[2] = State(x, y, a, b) /\ <<p[1], x, y, a, b>> \in I
  <2> HIDE DEF I, n
  <2>1. Kept(n, I)
    BY <1>2 DEF Kept
  <2> QED BY <1>0, <1>1, <2>1, PartialKeeps
<1>4. ASSUME NEW p \in Partial(n), p[1] = Ops(n) PROVE Seen(n, p[2]) \in {<<2>>}
  <2>1. PICK x, y, a, b : p[2] = State(x, y, a, b) /\ <<p[1], x, y, a, b>> \in I
    BY <1>3
  <2>2. Good(Ops(n), x, y, a, b) /\ x \in 0 .. 2 /\ y \in 0 .. 2 /\ a \in 0 .. 2 /\ b \in 0 .. 2
    BY <1>4, <2>1
  <2>3. Seen(n, p[2]) = <<x>>
    BY <2>1, CoWWSteps
  <2>4. <<x>> \in {<<2>>}
    BY <1>0, <2>2
  <2> QED BY <2>3, <2>4
<1> HIDE DEF Good, I, n
<1>5. <<{}, State(0, 0, 0, 0)>> \in Partial(n)
  BY <1>0, PartialStarts DEF Fresh
<1>6. <<{1}, State(1, 0, 0, 0)>> \in Partial(n)
  <2>1. /\ 1 \in Ops(n) \ {} /\ Comes(n, 1, {}) /\ {1} = {} \cup {1}
        /\ After(n, State(0, 0, 0, 0), Litmuses[n].code[1]) = State(1, 0, 0, 0)
    BY CoWWSteps DEF n
  <2> QED BY <1>0, <1>5, <2>1, PartialGoesOn
<1>7. <<{1, 2}, State(2, 0, 0, 0)>> \in Partial(n)
  <2>1. /\ 2 \in Ops(n) \ {1} /\ Comes(n, 2, {1}) /\ {1, 2} = {1} \cup {2}
        /\ After(n, State(1, 0, 0, 0), Litmuses[n].code[2]) = State(2, 0, 0, 0)
    BY CoWWSteps DEF n
  <2> QED BY <1>0, <1>6, <2>1, PartialGoesOn
<1>8. <<2>> \in Interleavings[n]
  <2>1. Seen(n, State(2, 0, 0, 0)) = <<2>>
    BY CoWWSteps DEF n
  <2> QED BY <1>0, <1>7, <2>1, SeenAtTheEnd
<1>9. Interleavings[n] \subseteq {<<2>>}
  BY <1>0, <1>4 DEF Interleavings
<1> QED BY <1>8, <1>9 DEF n

LEMMA CoWRBehaves == Interleavings["cowr"] = {<<1, 2>>, <<1, 1>>, <<2, 2>>}
<1> DEFINE n == "cowr"
           Good(done, x, y, a, b) ==
             /\ x \in {0, 1, 2} /\ a \in {0, 1, 2}
             /\ 2 \in done => 1 \in done /\ a # 0
             /\ 1 \in done \/ 3 \in done => x # 0
             /\ 2 \notin done => a = 0
             /\ a = 2 => x = 2
           I == {t \in (SUBSET Ops(n)) \X (0 .. 2) \X (0 .. 2) \X (0 .. 2) \X (0 .. 2) :
                   Good(t[1], t[2], t[3], t[4], t[5])}
<1>0. n \in DOMAIN Litmuses /\ Ops(n) = {1, 2, 3}
  BY CoWRSteps
<1>1. <<{}, 0, 0, 0, 0>> \in I
  BY <1>0
<1>2. ASSUME NEW done \in SUBSET Ops(n), NEW x, NEW y, NEW a, NEW b, NEW c \in Ops(n) \ done,
             <<done, x, y, a, b>> \in I, Comes(n, c, done)
      PROVE  Leads(n, I, done, x, y, a, b, c)
  <2>1. Good(done, x, y, a, b) /\ x \in 0 .. 2 /\ y \in 0 .. 2 /\ a \in 0 .. 2 /\ b \in 0 .. 2
    BY <1>2
  <2>2. CASE c = 1
    <3>1. After(n, State(x, y, a, b), Litmuses[n].code[c]) = State(1, y, a, b)
      BY <1>2, <2>2, CoWRSteps
    <3>2. Good(done \cup {c}, 1, y, a, b)
      BY <1>2, <2>1, <2>2, <3>1
    <3>3. <<done \cup {c}, 1, y, a, b>> \in I
      <4> HIDE DEF Good, n
      <4> QED BY <1>2, <2>1, <3>2
    <3> HIDE DEF I, n
    <3> QED BY <3>1, <3>3 DEF Leads
  <2>3. CASE c = 2
    <3>1. After(n, State(x, y, a, b), Litmuses[n].code[c]) = State(x, y, x, b) /\ 1 \in done
      BY <1>2, <2>3, CoWRSteps
    <3>2. Good(done \cup {c}, x, y, x, b)
      BY <1>2, <2>1, <2>3, <3>1
    <3>3. <<done \cup {c}, x, y, x, b>> \in I
      <4> HIDE DEF Good, n
      <4> QED BY <1>2, <2>1, <3>2
    <3> HIDE DEF I, n
    <3> QED BY <3>1, <3>3 DEF Leads
  <2>4. CASE c = 3
    <3>1. After(n, State(x, y, a, b), Litmuses[n].code[c]) = State(2, y, a, b)
      BY <1>2, <2>4, CoWRSteps
    <3>2. Good(done \cup {c}, 2, y, a, b)
      BY <1>2, <2>1, <2>4, <3>1
    <3>3. <<done \cup {c}, 2, y, a, b>> \in I
      <4> HIDE DEF Good, n
      <4> QED BY <1>2, <2>1, <3>2
    <3> HIDE DEF I, n
    <3> QED BY <3>1, <3>3 DEF Leads
  <2> QED BY <1>0, <1>2, <2>2, <2>3, <2>4
<1>3. \A p \in Partial(n) : \E x, y, a, b : p[2] = State(x, y, a, b) /\ <<p[1], x, y, a, b>> \in I
  <2> HIDE DEF I, n
  <2>1. Kept(n, I)
    BY <1>2 DEF Kept
  <2> QED BY <1>0, <1>1, <2>1, PartialKeeps
<1>4. ASSUME NEW p \in Partial(n), p[1] = Ops(n) PROVE Seen(n, p[2]) \in {<<1, 2>>, <<1, 1>>, <<2, 2>>}
  <2>1. PICK x, y, a, b : p[2] = State(x, y, a, b) /\ <<p[1], x, y, a, b>> \in I
    BY <1>3
  <2>2. Good(Ops(n), x, y, a, b) /\ x \in 0 .. 2 /\ y \in 0 .. 2 /\ a \in 0 .. 2 /\ b \in 0 .. 2
    BY <1>4, <2>1
  <2>3. Seen(n, p[2]) = <<a, x>>
    BY <2>1, CoWRSteps
  <2>4. <<a, x>> \in {<<1, 2>>, <<1, 1>>, <<2, 2>>}
    BY <1>0, <2>2
  <2> QED BY <2>3, <2>4
<1> HIDE DEF Good, I, n
<1>5. <<{}, State(0, 0, 0, 0)>> \in Partial(n)
  BY <1>0, PartialStarts DEF Fresh
<1>6. <<{1}, State(1, 0, 0, 0)>> \in Partial(n)
  <2>1. /\ 1 \in Ops(n) \ {} /\ Comes(n, 1, {}) /\ {1} = {} \cup {1}
        /\ After(n, State(0, 0, 0, 0), Litmuses[n].code[1]) = State(1, 0, 0, 0)
    BY CoWRSteps DEF n
  <2> QED BY <1>0, <1>5, <2>1, PartialGoesOn
<1>7. <<{1, 2}, State(1, 0, 1, 0)>> \in Partial(n)
  <2>1. /\ 2 \in Ops(n) \ {1} /\ Comes(n, 2, {1}) /\ {1, 2} = {1} \cup {2}
        /\ After(n, State(1, 0, 0, 0), Litmuses[n].code[2]) = State(1, 0, 1, 0)
    BY CoWRSteps DEF n
  <2> QED BY <1>0, <1>6, <2>1, PartialGoesOn
<1>8. <<{1, 2, 3}, State(2, 0, 1, 0)>> \in Partial(n)
  <2>1. /\ 3 \in Ops(n) \ {1, 2} /\ Comes(n, 3, {1, 2}) /\ {1, 2, 3} = {1, 2} \cup {3}
        /\ After(n, State(1, 0, 1, 0), Litmuses[n].code[3]) = State(2, 0, 1, 0)
    BY CoWRSteps DEF n
  <2> QED BY <1>0, <1>7, <2>1, PartialGoesOn
<1>9. <<1, 2>> \in Interleavings[n]
  <2>1. Seen(n, State(2, 0, 1, 0)) = <<1, 2>>
    BY CoWRSteps DEF n
  <2> QED BY <1>0, <1>8, <2>1, SeenAtTheEnd
<1>10. <<{3}, State(2, 0, 0, 0)>> \in Partial(n)
  <2>1. /\ 3 \in Ops(n) \ {} /\ Comes(n, 3, {}) /\ {3} = {} \cup {3}
        /\ After(n, State(0, 0, 0, 0), Litmuses[n].code[3]) = State(2, 0, 0, 0)
    BY CoWRSteps DEF n
  <2> QED BY <1>0, <1>5, <2>1, PartialGoesOn
<1>11. <<{1, 3}, State(1, 0, 0, 0)>> \in Partial(n)
  <2>1. /\ 1 \in Ops(n) \ {3} /\ Comes(n, 1, {3}) /\ {1, 3} = {3} \cup {1}
        /\ After(n, State(2, 0, 0, 0), Litmuses[n].code[1]) = State(1, 0, 0, 0)
    BY CoWRSteps DEF n
  <2> QED BY <1>0, <1>10, <2>1, PartialGoesOn
<1>12. <<{1, 2, 3}, State(1, 0, 1, 0)>> \in Partial(n)
  <2>1. /\ 2 \in Ops(n) \ {1, 3} /\ Comes(n, 2, {1, 3}) /\ {1, 2, 3} = {1, 3} \cup {2}
        /\ After(n, State(1, 0, 0, 0), Litmuses[n].code[2]) = State(1, 0, 1, 0)
    BY CoWRSteps DEF n
  <2> QED BY <1>0, <1>11, <2>1, PartialGoesOn
<1>13. <<1, 1>> \in Interleavings[n]
  <2>1. Seen(n, State(1, 0, 1, 0)) = <<1, 1>>
    BY CoWRSteps DEF n
  <2> QED BY <1>0, <1>12, <2>1, SeenAtTheEnd
<1>14. <<{1, 3}, State(2, 0, 0, 0)>> \in Partial(n)
  <2>1. /\ 3 \in Ops(n) \ {1} /\ Comes(n, 3, {1}) /\ {1, 3} = {1} \cup {3}
        /\ After(n, State(1, 0, 0, 0), Litmuses[n].code[3]) = State(2, 0, 0, 0)
    BY CoWRSteps DEF n
  <2> QED BY <1>0, <1>6, <2>1, PartialGoesOn
<1>15. <<{1, 2, 3}, State(2, 0, 2, 0)>> \in Partial(n)
  <2>1. /\ 2 \in Ops(n) \ {1, 3} /\ Comes(n, 2, {1, 3}) /\ {1, 2, 3} = {1, 3} \cup {2}
        /\ After(n, State(2, 0, 0, 0), Litmuses[n].code[2]) = State(2, 0, 2, 0)
    BY CoWRSteps DEF n
  <2> QED BY <1>0, <1>14, <2>1, PartialGoesOn
<1>16. <<2, 2>> \in Interleavings[n]
  <2>1. Seen(n, State(2, 0, 2, 0)) = <<2, 2>>
    BY CoWRSteps DEF n
  <2> QED BY <1>0, <1>15, <2>1, SeenAtTheEnd
<1>17. Interleavings[n] \subseteq {<<1, 2>>, <<1, 1>>, <<2, 2>>}
  BY <1>0, <1>4 DEF Interleavings
<1> QED BY <1>9, <1>13, <1>16, <1>17 DEF n

LEMMA CoRW1Behaves == Interleavings["corw1"] = {<<0>>}
<1> DEFINE n == "corw1"
           Good(done, x, y, a, b) ==
             /\ 2 \in done => 1 \in done
             /\ 2 \in done \/ x = 0
             /\ a = 0
           I == {t \in (SUBSET Ops(n)) \X (0 .. 2) \X (0 .. 2) \X (0 .. 2) \X (0 .. 2) :
                   Good(t[1], t[2], t[3], t[4], t[5])}
<1>0. n \in DOMAIN Litmuses /\ Ops(n) = {1, 2}
  BY CoRW1Steps
<1>1. <<{}, 0, 0, 0, 0>> \in I
  BY <1>0
<1>2. ASSUME NEW done \in SUBSET Ops(n), NEW x, NEW y, NEW a, NEW b, NEW c \in Ops(n) \ done,
             <<done, x, y, a, b>> \in I, Comes(n, c, done)
      PROVE  Leads(n, I, done, x, y, a, b, c)
  <2>1. Good(done, x, y, a, b) /\ x \in 0 .. 2 /\ y \in 0 .. 2 /\ a \in 0 .. 2 /\ b \in 0 .. 2
    BY <1>2
  <2>2. CASE c = 1
    <3>1. After(n, State(x, y, a, b), Litmuses[n].code[c]) = State(x, y, x, b)
      BY <1>2, <2>2, CoRW1Steps
    <3>2. Good(done \cup {c}, x, y, x, b)
      BY <1>2, <2>1, <2>2, <3>1
    <3>3. <<done \cup {c}, x, y, x, b>> \in I
      <4> HIDE DEF Good, n
      <4> QED BY <1>2, <2>1, <3>2
    <3> HIDE DEF I, n
    <3> QED BY <3>1, <3>3 DEF Leads
  <2>3. CASE c = 2
    <3>1. After(n, State(x, y, a, b), Litmuses[n].code[c]) = State(1, y, a, b) /\ 1 \in done
      BY <1>2, <2>3, CoRW1Steps
    <3>2. Good(done \cup {c}, 1, y, a, b)
      BY <1>2, <2>1, <2>3, <3>1
    <3>3. <<done \cup {c}, 1, y, a, b>> \in I
      <4> HIDE DEF Good, n
      <4> QED BY <1>2, <2>1, <3>2
    <3> HIDE DEF I, n
    <3> QED BY <3>1, <3>3 DEF Leads
  <2> QED BY <1>0, <1>2, <2>2, <2>3
<1>3. \A p \in Partial(n) : \E x, y, a, b : p[2] = State(x, y, a, b) /\ <<p[1], x, y, a, b>> \in I
  <2> HIDE DEF I, n
  <2>1. Kept(n, I)
    BY <1>2 DEF Kept
  <2> QED BY <1>0, <1>1, <2>1, PartialKeeps
<1>4. ASSUME NEW p \in Partial(n), p[1] = Ops(n) PROVE Seen(n, p[2]) \in {<<0>>}
  <2>1. PICK x, y, a, b : p[2] = State(x, y, a, b) /\ <<p[1], x, y, a, b>> \in I
    BY <1>3
  <2>2. Good(Ops(n), x, y, a, b) /\ x \in 0 .. 2 /\ y \in 0 .. 2 /\ a \in 0 .. 2 /\ b \in 0 .. 2
    BY <1>4, <2>1
  <2>3. Seen(n, p[2]) = <<a>>
    BY <2>1, CoRW1Steps
  <2>4. <<a>> \in {<<0>>}
    BY <1>0, <2>2
  <2> QED BY <2>3, <2>4
<1> HIDE DEF Good, I, n
<1>5. <<{}, State(0, 0, 0, 0)>> \in Partial(n)
  BY <1>0, PartialStarts DEF Fresh
<1>6. <<{1}, State(0, 0, 0, 0)>> \in Partial(n)
  <2>1. /\ 1 \in Ops(n) \ {} /\ Comes(n, 1, {}) /\ {1} = {} \cup {1}
        /\ After(n, State(0, 0, 0, 0), Litmuses[n].code[1]) = State(0, 0, 0, 0)
    BY CoRW1Steps DEF n
  <2> QED BY <1>0, <1>5, <2>1, PartialGoesOn
<1>7. <<{1, 2}, State(1, 0, 0, 0)>> \in Partial(n)
  <2>1. /\ 2 \in Ops(n) \ {1} /\ Comes(n, 2, {1}) /\ {1, 2} = {1} \cup {2}
        /\ After(n, State(0, 0, 0, 0), Litmuses[n].code[2]) = State(1, 0, 0, 0)
    BY CoRW1Steps DEF n
  <2> QED BY <1>0, <1>6, <2>1, PartialGoesOn
<1>8. <<0>> \in Interleavings[n]
  <2>1. Seen(n, State(1, 0, 0, 0)) = <<0>>
    BY CoRW1Steps DEF n
  <2> QED BY <1>0, <1>7, <2>1, SeenAtTheEnd
<1>9. Interleavings[n] \subseteq {<<0>>}
  BY <1>0, <1>4 DEF Interleavings
<1> QED BY <1>8, <1>9 DEF n

LEMMA CoRW2Behaves == Interleavings["corw2"] = {<<0, 2>>, <<2, 1>>, <<0, 1>>}
<1> DEFINE n == "corw2"
           Good(done, x, y, a, b) ==
             /\ x \in {0, 1, 2} /\ a \in {0, 2}
             /\ 2 \in done => 1 \in done
             /\ x = 1 => 2 \in done
             /\ x = 2 \/ a = 2 => 3 \in done
             /\ 2 \in done \/ 3 \in done => x # 0
             /\ 1 \in done \/ a = 0
             /\ 2 \in done /\ a = 2 => x = 1
           I == {t \in (SUBSET Ops(n)) \X (0 .. 2) \X (0 .. 2) \X (0 .. 2) \X (0 .. 2) :
                   Good(t[1], t[2], t[3], t[4], t[5])}
<1>0. n \in DOMAIN Litmuses /\ Ops(n) = {1, 2, 3}
  BY CoRW2Steps
<1>1. <<{}, 0, 0, 0, 0>> \in I
  BY <1>0
<1>2. ASSUME NEW done \in SUBSET Ops(n), NEW x, NEW y, NEW a, NEW b, NEW c \in Ops(n) \ done,
             <<done, x, y, a, b>> \in I, Comes(n, c, done)
      PROVE  Leads(n, I, done, x, y, a, b, c)
  <2>1. Good(done, x, y, a, b) /\ x \in 0 .. 2 /\ y \in 0 .. 2 /\ a \in 0 .. 2 /\ b \in 0 .. 2
    BY <1>2
  <2>2. CASE c = 1
    <3>1. After(n, State(x, y, a, b), Litmuses[n].code[c]) = State(x, y, x, b)
      BY <1>2, <2>2, CoRW2Steps
    <3>2. Good(done \cup {c}, x, y, x, b)
      BY <1>2, <2>1, <2>2, <3>1
    <3>3. <<done \cup {c}, x, y, x, b>> \in I
      <4> HIDE DEF Good, n
      <4> QED BY <1>2, <2>1, <3>2
    <3> HIDE DEF I, n
    <3> QED BY <3>1, <3>3 DEF Leads
  <2>3. CASE c = 2
    <3>1. After(n, State(x, y, a, b), Litmuses[n].code[c]) = State(1, y, a, b) /\ 1 \in done
      BY <1>2, <2>3, CoRW2Steps
    <3>2. Good(done \cup {c}, 1, y, a, b)
      BY <1>2, <2>1, <2>3, <3>1
    <3>3. <<done \cup {c}, 1, y, a, b>> \in I
      <4> HIDE DEF Good, n
      <4> QED BY <1>2, <2>1, <3>2
    <3> HIDE DEF I, n
    <3> QED BY <3>1, <3>3 DEF Leads
  <2>4. CASE c = 3
    <3>1. After(n, State(x, y, a, b), Litmuses[n].code[c]) = State(2, y, a, b)
      BY <1>2, <2>4, CoRW2Steps
    <3>2. Good(done \cup {c}, 2, y, a, b)
      BY <1>2, <2>1, <2>4, <3>1
    <3>3. <<done \cup {c}, 2, y, a, b>> \in I
      <4> HIDE DEF Good, n
      <4> QED BY <1>2, <2>1, <3>2
    <3> HIDE DEF I, n
    <3> QED BY <3>1, <3>3 DEF Leads
  <2> QED BY <1>0, <1>2, <2>2, <2>3, <2>4
<1>3. \A p \in Partial(n) : \E x, y, a, b : p[2] = State(x, y, a, b) /\ <<p[1], x, y, a, b>> \in I
  <2> HIDE DEF I, n
  <2>1. Kept(n, I)
    BY <1>2 DEF Kept
  <2> QED BY <1>0, <1>1, <2>1, PartialKeeps
<1>4. ASSUME NEW p \in Partial(n), p[1] = Ops(n) PROVE Seen(n, p[2]) \in {<<0, 2>>, <<2, 1>>, <<0, 1>>}
  <2>1. PICK x, y, a, b : p[2] = State(x, y, a, b) /\ <<p[1], x, y, a, b>> \in I
    BY <1>3
  <2>2. Good(Ops(n), x, y, a, b) /\ x \in 0 .. 2 /\ y \in 0 .. 2 /\ a \in 0 .. 2 /\ b \in 0 .. 2
    BY <1>4, <2>1
  <2>3. Seen(n, p[2]) = <<a, x>>
    BY <2>1, CoRW2Steps
  <2>4. <<a, x>> \in {<<0, 2>>, <<2, 1>>, <<0, 1>>}
    BY <1>0, <2>2
  <2> QED BY <2>3, <2>4
<1> HIDE DEF Good, I, n
<1>5. <<{}, State(0, 0, 0, 0)>> \in Partial(n)
  BY <1>0, PartialStarts DEF Fresh
<1>6. <<{1}, State(0, 0, 0, 0)>> \in Partial(n)
  <2>1. /\ 1 \in Ops(n) \ {} /\ Comes(n, 1, {}) /\ {1} = {} \cup {1}
        /\ After(n, State(0, 0, 0, 0), Litmuses[n].code[1]) = State(0, 0, 0, 0)
    BY CoRW2Steps DEF n
  <2> QED BY <1>0, <1>5, <2>1, PartialGoesOn
<1>7. <<{1, 2}, State(1, 0, 0, 0)>> \in Partial(n)
  <2>1. /\ 2 \in Ops(n) \ {1} /\ Comes(n, 2, {1}) /\ {1, 2} = {1} \cup {2}
        /\ After(n, State(0, 0, 0, 0), Litmuses[n].code[2]) = State(1, 0, 0, 0)
    BY CoRW2Steps DEF n
  <2> QED BY <1>0, <1>6, <2>1, PartialGoesOn
<1>8. <<{1, 2, 3}, State(2, 0, 0, 0)>> \in Partial(n)
  <2>1. /\ 3 \in Ops(n) \ {1, 2} /\ Comes(n, 3, {1, 2}) /\ {1, 2, 3} = {1, 2} \cup {3}
        /\ After(n, State(1, 0, 0, 0), Litmuses[n].code[3]) = State(2, 0, 0, 0)
    BY CoRW2Steps DEF n
  <2> QED BY <1>0, <1>7, <2>1, PartialGoesOn
<1>9. <<0, 2>> \in Interleavings[n]
  <2>1. Seen(n, State(2, 0, 0, 0)) = <<0, 2>>
    BY CoRW2Steps DEF n
  <2> QED BY <1>0, <1>8, <2>1, SeenAtTheEnd
<1>10. <<{3}, State(2, 0, 0, 0)>> \in Partial(n)
  <2>1. /\ 3 \in Ops(n) \ {} /\ Comes(n, 3, {}) /\ {3} = {} \cup {3}
        /\ After(n, State(0, 0, 0, 0), Litmuses[n].code[3]) = State(2, 0, 0, 0)
    BY CoRW2Steps DEF n
  <2> QED BY <1>0, <1>5, <2>1, PartialGoesOn
<1>11. <<{1, 3}, State(2, 0, 2, 0)>> \in Partial(n)
  <2>1. /\ 1 \in Ops(n) \ {3} /\ Comes(n, 1, {3}) /\ {1, 3} = {3} \cup {1}
        /\ After(n, State(2, 0, 0, 0), Litmuses[n].code[1]) = State(2, 0, 2, 0)
    BY CoRW2Steps DEF n
  <2> QED BY <1>0, <1>10, <2>1, PartialGoesOn
<1>12. <<{1, 2, 3}, State(1, 0, 2, 0)>> \in Partial(n)
  <2>1. /\ 2 \in Ops(n) \ {1, 3} /\ Comes(n, 2, {1, 3}) /\ {1, 2, 3} = {1, 3} \cup {2}
        /\ After(n, State(2, 0, 2, 0), Litmuses[n].code[2]) = State(1, 0, 2, 0)
    BY CoRW2Steps DEF n
  <2> QED BY <1>0, <1>11, <2>1, PartialGoesOn
<1>13. <<2, 1>> \in Interleavings[n]
  <2>1. Seen(n, State(1, 0, 2, 0)) = <<2, 1>>
    BY CoRW2Steps DEF n
  <2> QED BY <1>0, <1>12, <2>1, SeenAtTheEnd
<1>14. <<{1, 3}, State(2, 0, 0, 0)>> \in Partial(n)
  <2>1. /\ 3 \in Ops(n) \ {1} /\ Comes(n, 3, {1}) /\ {1, 3} = {1} \cup {3}
        /\ After(n, State(0, 0, 0, 0), Litmuses[n].code[3]) = State(2, 0, 0, 0)
    BY CoRW2Steps DEF n
  <2> QED BY <1>0, <1>6, <2>1, PartialGoesOn
<1>15. <<{1, 2, 3}, State(1, 0, 0, 0)>> \in Partial(n)
  <2>1. /\ 2 \in Ops(n) \ {1, 3} /\ Comes(n, 2, {1, 3}) /\ {1, 2, 3} = {1, 3} \cup {2}
        /\ After(n, State(2, 0, 0, 0), Litmuses[n].code[2]) = State(1, 0, 0, 0)
    BY CoRW2Steps DEF n
  <2> QED BY <1>0, <1>14, <2>1, PartialGoesOn
<1>16. <<0, 1>> \in Interleavings[n]
  <2>1. Seen(n, State(1, 0, 0, 0)) = <<0, 1>>
    BY CoRW2Steps DEF n
  <2> QED BY <1>0, <1>15, <2>1, SeenAtTheEnd
<1>17. Interleavings[n] \subseteq {<<0, 2>>, <<2, 1>>, <<0, 1>>}
  BY <1>0, <1>4 DEF Interleavings
<1> QED BY <1>9, <1>13, <1>16, <1>17 DEF n

LEMMA AtomicityBehaves == Interleavings["atomicity"] = {<<0, 2>>, <<2, 2>>}
<1> DEFINE n == "atomicity"
           Good(done, x, y, a, b) ==
             /\ a \in {0, 2} /\ x \in {0, 2}
             /\ 2 \in done => x = 2
           I == {t \in (SUBSET Ops(n)) \X (0 .. 2) \X (0 .. 2) \X (0 .. 2) \X (0 .. 2) :
                   Good(t[1], t[2], t[3], t[4], t[5])}
<1>0. n \in DOMAIN Litmuses /\ Ops(n) = {1, 2}
  BY AtomicitySteps
<1>1. <<{}, 0, 0, 0, 0>> \in I
  BY <1>0
<1>2. ASSUME NEW done \in SUBSET Ops(n), NEW x, NEW y, NEW a, NEW b, NEW c \in Ops(n) \ done,
             <<done, x, y, a, b>> \in I, Comes(n, c, done)
      PROVE  Leads(n, I, done, x, y, a, b, c)
  <2>1. Good(done, x, y, a, b) /\ x \in 0 .. 2 /\ y \in 0 .. 2 /\ a \in 0 .. 2 /\ b \in 0 .. 2
    BY <1>2
  <2>2. CASE c = 1
    <3>1. After(n, State(x, y, a, b), Litmuses[n].code[c]) = State(x, y, x, b)
      BY <1>2, <2>2, AtomicitySteps
    <3>2. Good(done \cup {c}, x, y, x, b)
      BY <1>2, <2>1, <2>2, <3>1
    <3>3. <<done \cup {c}, x, y, x, b>> \in I
      <4> HIDE DEF Good, n
      <4> QED BY <1>2, <2>1, <3>2
    <3> HIDE DEF I, n
    <3> QED BY <3>1, <3>3 DEF Leads
  <2>3. CASE c = 2
    <3>1. After(n, State(x, y, a, b), Litmuses[n].code[c]) = State(2, y, a, b)
      BY <1>2, <2>3, AtomicitySteps
    <3>2. Good(done \cup {c}, 2, y, a, b)
      BY <1>2, <2>1, <2>3, <3>1
    <3>3. <<done \cup {c}, 2, y, a, b>> \in I
      <4> HIDE DEF Good, n
      <4> QED BY <1>2, <2>1, <3>2
    <3> HIDE DEF I, n
    <3> QED BY <3>1, <3>3 DEF Leads
  <2> QED BY <1>0, <1>2, <2>2, <2>3
<1>3. \A p \in Partial(n) : \E x, y, a, b : p[2] = State(x, y, a, b) /\ <<p[1], x, y, a, b>> \in I
  <2> HIDE DEF I, n
  <2>1. Kept(n, I)
    BY <1>2 DEF Kept
  <2> QED BY <1>0, <1>1, <2>1, PartialKeeps
<1>4. ASSUME NEW p \in Partial(n), p[1] = Ops(n) PROVE Seen(n, p[2]) \in {<<0, 2>>, <<2, 2>>}
  <2>1. PICK x, y, a, b : p[2] = State(x, y, a, b) /\ <<p[1], x, y, a, b>> \in I
    BY <1>3
  <2>2. Good(Ops(n), x, y, a, b) /\ x \in 0 .. 2 /\ y \in 0 .. 2 /\ a \in 0 .. 2 /\ b \in 0 .. 2
    BY <1>4, <2>1
  <2>3. Seen(n, p[2]) = <<a, x>>
    BY <2>1, AtomicitySteps
  <2>4. <<a, x>> \in {<<0, 2>>, <<2, 2>>}
    BY <1>0, <2>2
  <2> QED BY <2>3, <2>4
<1> HIDE DEF Good, I, n
<1>5. <<{}, State(0, 0, 0, 0)>> \in Partial(n)
  BY <1>0, PartialStarts DEF Fresh
<1>6. <<{1}, State(0, 0, 0, 0)>> \in Partial(n)
  <2>1. /\ 1 \in Ops(n) \ {} /\ Comes(n, 1, {}) /\ {1} = {} \cup {1}
        /\ After(n, State(0, 0, 0, 0), Litmuses[n].code[1]) = State(0, 0, 0, 0)
    BY AtomicitySteps DEF n
  <2> QED BY <1>0, <1>5, <2>1, PartialGoesOn
<1>7. <<{1, 2}, State(2, 0, 0, 0)>> \in Partial(n)
  <2>1. /\ 2 \in Ops(n) \ {1} /\ Comes(n, 2, {1}) /\ {1, 2} = {1} \cup {2}
        /\ After(n, State(0, 0, 0, 0), Litmuses[n].code[2]) = State(2, 0, 0, 0)
    BY AtomicitySteps DEF n
  <2> QED BY <1>0, <1>6, <2>1, PartialGoesOn
<1>8. <<0, 2>> \in Interleavings[n]
  <2>1. Seen(n, State(2, 0, 0, 0)) = <<0, 2>>
    BY AtomicitySteps DEF n
  <2> QED BY <1>0, <1>7, <2>1, SeenAtTheEnd
<1>9. <<{2}, State(2, 0, 0, 0)>> \in Partial(n)
  <2>1. /\ 2 \in Ops(n) \ {} /\ Comes(n, 2, {}) /\ {2} = {} \cup {2}
        /\ After(n, State(0, 0, 0, 0), Litmuses[n].code[2]) = State(2, 0, 0, 0)
    BY AtomicitySteps DEF n
  <2> QED BY <1>0, <1>5, <2>1, PartialGoesOn
<1>10. <<{1, 2}, State(2, 0, 2, 0)>> \in Partial(n)
  <2>1. /\ 1 \in Ops(n) \ {2} /\ Comes(n, 1, {2}) /\ {1, 2} = {2} \cup {1}
        /\ After(n, State(2, 0, 0, 0), Litmuses[n].code[1]) = State(2, 0, 2, 0)
    BY AtomicitySteps DEF n
  <2> QED BY <1>0, <1>9, <2>1, PartialGoesOn
<1>11. <<2, 2>> \in Interleavings[n]
  <2>1. Seen(n, State(2, 0, 2, 0)) = <<2, 2>>
    BY AtomicitySteps DEF n
  <2> QED BY <1>0, <1>10, <2>1, SeenAtTheEnd
<1>12. Interleavings[n] \subseteq {<<0, 2>>, <<2, 2>>}
  BY <1>0, <1>4 DEF Interleavings
<1> QED BY <1>8, <1>11, <1>12 DEF n

LEMMA BarrierLoadStoreBehaves == Interleavings["rw"] = {<<0>>}
<1> DEFINE n == "rw"
           Good(done, x, y, a, b) ==
             /\ 3 \in done => 1 \in done
             /\ 3 \in done \/ x = 0
             /\ a = 0
           I == {t \in (SUBSET Ops(n)) \X (0 .. 2) \X (0 .. 2) \X (0 .. 2) \X (0 .. 2) :
                   Good(t[1], t[2], t[3], t[4], t[5])}
<1>0. n \in DOMAIN Litmuses /\ Ops(n) = {1, 3}
  BY BarrierLoadStoreSteps
<1>1. <<{}, 0, 0, 0, 0>> \in I
  BY <1>0
<1>2. ASSUME NEW done \in SUBSET Ops(n), NEW x, NEW y, NEW a, NEW b, NEW c \in Ops(n) \ done,
             <<done, x, y, a, b>> \in I, Comes(n, c, done)
      PROVE  Leads(n, I, done, x, y, a, b, c)
  <2>1. Good(done, x, y, a, b) /\ x \in 0 .. 2 /\ y \in 0 .. 2 /\ a \in 0 .. 2 /\ b \in 0 .. 2
    BY <1>2
  <2>2. CASE c = 1
    <3>1. After(n, State(x, y, a, b), Litmuses[n].code[c]) = State(x, y, x, b)
      BY <1>2, <2>2, BarrierLoadStoreSteps
    <3>2. Good(done \cup {c}, x, y, x, b)
      BY <1>2, <2>1, <2>2, <3>1
    <3>3. <<done \cup {c}, x, y, x, b>> \in I
      <4> HIDE DEF Good, n
      <4> QED BY <1>2, <2>1, <3>2
    <3> HIDE DEF I, n
    <3> QED BY <3>1, <3>3 DEF Leads
  <2>3. CASE c = 3
    <3>1. After(n, State(x, y, a, b), Litmuses[n].code[c]) = State(1, y, a, b) /\ 1 \in done
      BY <1>2, <2>3, BarrierLoadStoreSteps
    <3>2. Good(done \cup {c}, 1, y, a, b)
      BY <1>2, <2>1, <2>3, <3>1
    <3>3. <<done \cup {c}, 1, y, a, b>> \in I
      <4> HIDE DEF Good, n
      <4> QED BY <1>2, <2>1, <3>2
    <3> HIDE DEF I, n
    <3> QED BY <3>1, <3>3 DEF Leads
  <2> QED BY <1>0, <1>2, <2>2, <2>3
<1>3. \A p \in Partial(n) : \E x, y, a, b : p[2] = State(x, y, a, b) /\ <<p[1], x, y, a, b>> \in I
  <2> HIDE DEF I, n
  <2>1. Kept(n, I)
    BY <1>2 DEF Kept
  <2> QED BY <1>0, <1>1, <2>1, PartialKeeps
<1>4. ASSUME NEW p \in Partial(n), p[1] = Ops(n) PROVE Seen(n, p[2]) \in {<<0>>}
  <2>1. PICK x, y, a, b : p[2] = State(x, y, a, b) /\ <<p[1], x, y, a, b>> \in I
    BY <1>3
  <2>2. Good(Ops(n), x, y, a, b) /\ x \in 0 .. 2 /\ y \in 0 .. 2 /\ a \in 0 .. 2 /\ b \in 0 .. 2
    BY <1>4, <2>1
  <2>3. Seen(n, p[2]) = <<a>>
    BY <2>1, BarrierLoadStoreSteps
  <2>4. <<a>> \in {<<0>>}
    BY <1>0, <2>2
  <2> QED BY <2>3, <2>4
<1> HIDE DEF Good, I, n
<1>5. <<{}, State(0, 0, 0, 0)>> \in Partial(n)
  BY <1>0, PartialStarts DEF Fresh
<1>6. <<{1}, State(0, 0, 0, 0)>> \in Partial(n)
  <2>1. /\ 1 \in Ops(n) \ {} /\ Comes(n, 1, {}) /\ {1} = {} \cup {1}
        /\ After(n, State(0, 0, 0, 0), Litmuses[n].code[1]) = State(0, 0, 0, 0)
    BY BarrierLoadStoreSteps DEF n
  <2> QED BY <1>0, <1>5, <2>1, PartialGoesOn
<1>7. <<{1, 3}, State(1, 0, 0, 0)>> \in Partial(n)
  <2>1. /\ 3 \in Ops(n) \ {1} /\ Comes(n, 3, {1}) /\ {1, 3} = {1} \cup {3}
        /\ After(n, State(0, 0, 0, 0), Litmuses[n].code[3]) = State(1, 0, 0, 0)
    BY BarrierLoadStoreSteps DEF n
  <2> QED BY <1>0, <1>6, <2>1, PartialGoesOn
<1>8. <<0>> \in Interleavings[n]
  <2>1. Seen(n, State(1, 0, 0, 0)) = <<0>>
    BY BarrierLoadStoreSteps DEF n
  <2> QED BY <1>0, <1>7, <2>1, SeenAtTheEnd
<1>9. Interleavings[n] \subseteq {<<0>>}
  BY <1>0, <1>4 DEF Interleavings
<1> QED BY <1>8, <1>9 DEF n

LEMMA BarrierStoreLoadBehaves == Interleavings["wr"] = {<<1>>}
<1> DEFINE n == "wr"
           Good(done, x, y, a, b) ==
             /\ 1 \in done => x = 1
             /\ 3 \in done => a = 1
           I == {t \in (SUBSET Ops(n)) \X (0 .. 2) \X (0 .. 2) \X (0 .. 2) \X (0 .. 2) :
                   Good(t[1], t[2], t[3], t[4], t[5])}
<1>0. n \in DOMAIN Litmuses /\ Ops(n) = {1, 3}
  BY BarrierStoreLoadSteps
<1>1. <<{}, 0, 0, 0, 0>> \in I
  BY <1>0
<1>2. ASSUME NEW done \in SUBSET Ops(n), NEW x, NEW y, NEW a, NEW b, NEW c \in Ops(n) \ done,
             <<done, x, y, a, b>> \in I, Comes(n, c, done)
      PROVE  Leads(n, I, done, x, y, a, b, c)
  <2>1. Good(done, x, y, a, b) /\ x \in 0 .. 2 /\ y \in 0 .. 2 /\ a \in 0 .. 2 /\ b \in 0 .. 2
    BY <1>2
  <2>2. CASE c = 1
    <3>1. After(n, State(x, y, a, b), Litmuses[n].code[c]) = State(1, y, a, b)
      BY <1>2, <2>2, BarrierStoreLoadSteps
    <3>2. Good(done \cup {c}, 1, y, a, b)
      BY <1>2, <2>1, <2>2, <3>1
    <3>3. <<done \cup {c}, 1, y, a, b>> \in I
      <4> HIDE DEF Good, n
      <4> QED BY <1>2, <2>1, <3>2
    <3> HIDE DEF I, n
    <3> QED BY <3>1, <3>3 DEF Leads
  <2>3. CASE c = 3
    <3>1. After(n, State(x, y, a, b), Litmuses[n].code[c]) = State(x, y, x, b) /\ 1 \in done
      BY <1>2, <2>3, BarrierStoreLoadSteps
    <3>2. Good(done \cup {c}, x, y, x, b)
      BY <1>2, <2>1, <2>3, <3>1
    <3>3. <<done \cup {c}, x, y, x, b>> \in I
      <4> HIDE DEF Good, n
      <4> QED BY <1>2, <2>1, <3>2
    <3> HIDE DEF I, n
    <3> QED BY <3>1, <3>3 DEF Leads
  <2> QED BY <1>0, <1>2, <2>2, <2>3
<1>3. \A p \in Partial(n) : \E x, y, a, b : p[2] = State(x, y, a, b) /\ <<p[1], x, y, a, b>> \in I
  <2> HIDE DEF I, n
  <2>1. Kept(n, I)
    BY <1>2 DEF Kept
  <2> QED BY <1>0, <1>1, <2>1, PartialKeeps
<1>4. ASSUME NEW p \in Partial(n), p[1] = Ops(n) PROVE Seen(n, p[2]) \in {<<1>>}
  <2>1. PICK x, y, a, b : p[2] = State(x, y, a, b) /\ <<p[1], x, y, a, b>> \in I
    BY <1>3
  <2>2. Good(Ops(n), x, y, a, b) /\ x \in 0 .. 2 /\ y \in 0 .. 2 /\ a \in 0 .. 2 /\ b \in 0 .. 2
    BY <1>4, <2>1
  <2>3. Seen(n, p[2]) = <<a>>
    BY <2>1, BarrierStoreLoadSteps
  <2>4. <<a>> \in {<<1>>}
    BY <1>0, <2>2
  <2> QED BY <2>3, <2>4
<1> HIDE DEF Good, I, n
<1>5. <<{}, State(0, 0, 0, 0)>> \in Partial(n)
  BY <1>0, PartialStarts DEF Fresh
<1>6. <<{1}, State(1, 0, 0, 0)>> \in Partial(n)
  <2>1. /\ 1 \in Ops(n) \ {} /\ Comes(n, 1, {}) /\ {1} = {} \cup {1}
        /\ After(n, State(0, 0, 0, 0), Litmuses[n].code[1]) = State(1, 0, 0, 0)
    BY BarrierStoreLoadSteps DEF n
  <2> QED BY <1>0, <1>5, <2>1, PartialGoesOn
<1>7. <<{1, 3}, State(1, 0, 1, 0)>> \in Partial(n)
  <2>1. /\ 3 \in Ops(n) \ {1} /\ Comes(n, 3, {1}) /\ {1, 3} = {1} \cup {3}
        /\ After(n, State(1, 0, 0, 0), Litmuses[n].code[3]) = State(1, 0, 1, 0)
    BY BarrierStoreLoadSteps DEF n
  <2> QED BY <1>0, <1>6, <2>1, PartialGoesOn
<1>8. <<1>> \in Interleavings[n]
  <2>1. Seen(n, State(1, 0, 1, 0)) = <<1>>
    BY BarrierStoreLoadSteps DEF n
  <2> QED BY <1>0, <1>7, <2>1, SeenAtTheEnd
<1>9. Interleavings[n] \subseteq {<<1>>}
  BY <1>0, <1>4 DEF Interleavings
<1> QED BY <1>8, <1>9 DEF n

LEMMA BarrierStoreStoreBehaves == Interleavings["ww"] = {<<2>>}
<1> DEFINE n == "ww"
           Good(done, x, y, a, b) ==
             /\ 3 \in done => 1 \in done /\ x = 2
           I == {t \in (SUBSET Ops(n)) \X (0 .. 2) \X (0 .. 2) \X (0 .. 2) \X (0 .. 2) :
                   Good(t[1], t[2], t[3], t[4], t[5])}
<1>0. n \in DOMAIN Litmuses /\ Ops(n) = {1, 3}
  BY BarrierStoreStoreSteps
<1>1. <<{}, 0, 0, 0, 0>> \in I
  BY <1>0
<1>2. ASSUME NEW done \in SUBSET Ops(n), NEW x, NEW y, NEW a, NEW b, NEW c \in Ops(n) \ done,
             <<done, x, y, a, b>> \in I, Comes(n, c, done)
      PROVE  Leads(n, I, done, x, y, a, b, c)
  <2>1. Good(done, x, y, a, b) /\ x \in 0 .. 2 /\ y \in 0 .. 2 /\ a \in 0 .. 2 /\ b \in 0 .. 2
    BY <1>2
  <2>2. CASE c = 1
    <3>1. After(n, State(x, y, a, b), Litmuses[n].code[c]) = State(1, y, a, b)
      BY <1>2, <2>2, BarrierStoreStoreSteps
    <3>2. Good(done \cup {c}, 1, y, a, b)
      BY <1>2, <2>1, <2>2, <3>1
    <3>3. <<done \cup {c}, 1, y, a, b>> \in I
      <4> HIDE DEF Good, n
      <4> QED BY <1>2, <2>1, <3>2
    <3> HIDE DEF I, n
    <3> QED BY <3>1, <3>3 DEF Leads
  <2>3. CASE c = 3
    <3>1. After(n, State(x, y, a, b), Litmuses[n].code[c]) = State(2, y, a, b) /\ 1 \in done
      BY <1>2, <2>3, BarrierStoreStoreSteps
    <3>2. Good(done \cup {c}, 2, y, a, b)
      BY <1>2, <2>1, <2>3, <3>1
    <3>3. <<done \cup {c}, 2, y, a, b>> \in I
      <4> HIDE DEF Good, n
      <4> QED BY <1>2, <2>1, <3>2
    <3> HIDE DEF I, n
    <3> QED BY <3>1, <3>3 DEF Leads
  <2> QED BY <1>0, <1>2, <2>2, <2>3
<1>3. \A p \in Partial(n) : \E x, y, a, b : p[2] = State(x, y, a, b) /\ <<p[1], x, y, a, b>> \in I
  <2> HIDE DEF I, n
  <2>1. Kept(n, I)
    BY <1>2 DEF Kept
  <2> QED BY <1>0, <1>1, <2>1, PartialKeeps
<1>4. ASSUME NEW p \in Partial(n), p[1] = Ops(n) PROVE Seen(n, p[2]) \in {<<2>>}
  <2>1. PICK x, y, a, b : p[2] = State(x, y, a, b) /\ <<p[1], x, y, a, b>> \in I
    BY <1>3
  <2>2. Good(Ops(n), x, y, a, b) /\ x \in 0 .. 2 /\ y \in 0 .. 2 /\ a \in 0 .. 2 /\ b \in 0 .. 2
    BY <1>4, <2>1
  <2>3. Seen(n, p[2]) = <<x>>
    BY <2>1, BarrierStoreStoreSteps
  <2>4. <<x>> \in {<<2>>}
    BY <1>0, <2>2
  <2> QED BY <2>3, <2>4
<1> HIDE DEF Good, I, n
<1>5. <<{}, State(0, 0, 0, 0)>> \in Partial(n)
  BY <1>0, PartialStarts DEF Fresh
<1>6. <<{1}, State(1, 0, 0, 0)>> \in Partial(n)
  <2>1. /\ 1 \in Ops(n) \ {} /\ Comes(n, 1, {}) /\ {1} = {} \cup {1}
        /\ After(n, State(0, 0, 0, 0), Litmuses[n].code[1]) = State(1, 0, 0, 0)
    BY BarrierStoreStoreSteps DEF n
  <2> QED BY <1>0, <1>5, <2>1, PartialGoesOn
<1>7. <<{1, 3}, State(2, 0, 0, 0)>> \in Partial(n)
  <2>1. /\ 3 \in Ops(n) \ {1} /\ Comes(n, 3, {1}) /\ {1, 3} = {1} \cup {3}
        /\ After(n, State(1, 0, 0, 0), Litmuses[n].code[3]) = State(2, 0, 0, 0)
    BY BarrierStoreStoreSteps DEF n
  <2> QED BY <1>0, <1>6, <2>1, PartialGoesOn
<1>8. <<2>> \in Interleavings[n]
  <2>1. Seen(n, State(2, 0, 0, 0)) = <<2>>
    BY BarrierStoreStoreSteps DEF n
  <2> QED BY <1>0, <1>7, <2>1, SeenAtTheEnd
<1>9. Interleavings[n] \subseteq {<<2>>}
  BY <1>0, <1>4 DEF Interleavings
<1> QED BY <1>8, <1>9 DEF n

-----------------------------------------------------------------------------
(* The behaviours a test counts: the disallowed one is no interleaving,     *)
(* and but for atomicity the others are told apart and leave none out.      *)

Judges(l, seen) ==
  /\ Len(l.counted) \in Nat /\ DOMAIN l.counted = 1 .. Len(l.counted)
  /\ l.weak \in DOMAIN l.counted /\ l.counted[l.weak] \notin seen

TellsApart(l, seen) ==
  /\ \A b, c \in DOMAIN l.counted : l.counted[b] = l.counted[c] => b = c
  /\ \A s \in seen : \E b \in DOMAIN l.counted : l.counted[b] = s

(* cowr, corw2 and atomicity look at one of several wrong outcomes. *)
CountedInFull == Names \ {"cowr", "corw2", "atomicity"}

LEMMA EveryTestJudges ==
  ASSUME NEW n \in DOMAIN Litmuses
  PROVE  /\ Judges(Litmuses[n], Interleavings[n])
         /\ n # "atomicity" => TellsApart(Litmuses[n], Interleavings[n])
         /\ n \in CountedInFull => \A b \in DOMAIN Litmuses[n].counted \ {Litmuses[n].weak} :
                                     Litmuses[n].counted[b] \in Interleavings[n]
<1> DEFINE Good(m) == /\ Judges(Litmuses[m], Interleavings[m])
                      /\ m # "atomicity" => TellsApart(Litmuses[m], Interleavings[m])
                      /\ m \in CountedInFull => \A b \in DOMAIN Litmuses[m].counted \ {Litmuses[m].weak} :
                                                  Litmuses[m].counted[b] \in Interleavings[m]
<1>1. Good("message_passing")
  <2>1. Litmuses["message_passing"] = MessagePassing
    BY DEF Litmuses
  <2> QED BY <2>1, MessagePassingBehaves DEF Judges, TellsApart, CountedInFull, MessagePassing, Litmus
<1>2. Good("store")
  <2>1. Litmuses["store"] = StoreTest
    BY DEF Litmuses
  <2> QED BY <2>1, StoreTestBehaves DEF Judges, TellsApart, CountedInFull, StoreTest, Litmus
<1>3. Good("load_buffer")
  <2>1. Litmuses["load_buffer"] = LoadBuffer
    BY DEF Litmuses
  <2> QED BY <2>1, LoadBufferBehaves DEF Judges, TellsApart, CountedInFull, LoadBuffer, Litmus
<1>4. Good("read")
  <2>1. Litmuses["read"] = ReadTest
    BY DEF Litmuses
  <2> QED BY <2>1, ReadTestBehaves DEF Judges, TellsApart, CountedInFull, ReadTest, Litmus
<1>5. Good("store_buffer")
  <2>1. Litmuses["store_buffer"] = StoreBuffer
    BY DEF Litmuses
  <2> QED BY <2>1, StoreBufferBehaves DEF Judges, TellsApart, CountedInFull, StoreBuffer, Litmus
<1>6. Good("two_plus_two")
  <2>1. Litmuses["two_plus_two"] = TwoPlusTwoWrite
    BY DEF Litmuses
  <2> QED BY <2>1, TwoPlusTwoWriteBehaves DEF Judges, TellsApart, CountedInFull, TwoPlusTwoWrite, Litmus
<1>7. Good("corr")
  <2>1. Litmuses["corr"] = CoRR
    BY DEF Litmuses
  <2> QED BY <2>1, CoRRBehaves DEF Judges, TellsApart, CountedInFull, CoRR, Litmus
<1>8. Good("coww")
  <2>1. Litmuses["coww"] = CoWW
    BY DEF Litmuses
  <2> QED BY <2>1, CoWWBehaves DEF Judges, TellsApart, CountedInFull, CoWW, Litmus
<1>9. Good("cowr")
  <2>1. Litmuses["cowr"] = CoWR
    BY DEF Litmuses
  <2> QED BY <2>1, CoWRBehaves DEF Judges, TellsApart, CountedInFull, CoWR, Litmus
<1>10. Good("corw1")
  <2>1. Litmuses["corw1"] = CoRW1
    BY DEF Litmuses
  <2> QED BY <2>1, CoRW1Behaves DEF Judges, TellsApart, CountedInFull, CoRW1, Litmus
<1>11. Good("corw2")
  <2>1. Litmuses["corw2"] = CoRW2
    BY DEF Litmuses
  <2> QED BY <2>1, CoRW2Behaves DEF Judges, TellsApart, CountedInFull, CoRW2, Litmus
<1>12. Good("atomicity")
  <2>1. Litmuses["atomicity"] = Atomicity
    BY DEF Litmuses
  <2> QED BY <2>1, AtomicityBehaves DEF Judges, TellsApart, CountedInFull, Atomicity, Litmus
<1>13. Good("rw")
  <2>1. Litmuses["rw"] = BarrierLoadStore
    BY DEF Litmuses
  <2> QED BY <2>1, BarrierLoadStoreBehaves DEF Judges, TellsApart, CountedInFull, BarrierLoadStore, Litmus
<1>14. Good("wr")
  <2>1. Litmuses["wr"] = BarrierStoreLoad
    BY DEF Litmuses
  <2> QED BY <2>1, BarrierStoreLoadBehaves DEF Judges, TellsApart, CountedInFull, BarrierStoreLoad, Litmus
<1>15. Good("ww")
  <2>1. Litmuses["ww"] = BarrierStoreStore
    BY DEF Litmuses
  <2> QED BY <2>1, BarrierStoreStoreBehaves DEF Judges, TellsApart, CountedInFull, BarrierStoreStore, Litmus
<1> HIDE DEF Good
<1>16. Good(n)
  BY <1>1, <1>2, <1>3, <1>4, <1>5, <1>6, <1>7, <1>8, <1>9, <1>10, <1>11, <1>12, <1>13, <1>14, <1>15,
     NamesOfTests DEF Names
<1> QED BY <1>16 DEF Good

-----------------------------------------------------------------------------
(* The invariant of every GPU, step by step. *)

Sound == TypeOK /\ EveryoneIsShuffled /\ CopiesAreTrue /\ CountsAreFresh /\ Interleaved

LEMMA InitSound == Init => Sound
<1> SUFFICES ASSUME Init PROVE Sound
  OBVIOUS
<1>1. TypeOK /\ EveryoneIsShuffled /\ CopiesAreTrue /\ CountsAreFresh
  BY InitTypes
<1>2. /\ \A i \in Invocations : performed[i] = {}
      /\ memory = Zero /\ results = [k \in Instances |-> [r0 |-> 0, r1 |-> 0]]
  BY DEF Init
<1> QED BY <1>1, <1>2, InitInterleaved DEF Sound

LEMMA NextSound == Sound /\ [Next]_vars => Sound'
<1> SUFFICES ASSUME Sound, [Next]_vars PROVE Sound'
  OBVIOUS
<1>0. TypeOK /\ EveryoneIsShuffled /\ CopiesAreTrue /\ CountsAreFresh /\ Interleaved
  BY DEF Sound
<1> DEFINE Lasts == TypeOK' /\ EveryoneIsShuffled' /\ CopiesAreTrue' /\ Interleaved'
<1>1. ASSUME SetUp PROVE Lasts
  BY <1>0, <1>1, SetUpTypes, SetUpInterleaved
<1>2. ASSUME ResultPass \/ Check \/ UNCHANGED vars PROVE Lasts
  <2>1. test' = test /\ gpu' = gpu /\ performed' = performed /\ memory' = memory /\ results' = results
    BY <1>2 DEF ResultPass, Check, vars, gpuVars
  <2> QED BY <1>0, <1>2, <2>1, HostTypes, OtherInterleaved
<1>3. ASSUME NEW p \in 0 .. num - 1, Dispatch(p) PROVE Lasts
  <2>1. test' = test /\ gpu' = gpu /\ performed' = performed /\ memory' = memory /\ results' = results
    BY <1>3 DEF Dispatch
  <2> QED BY <1>0, <1>3, <2>1, DispatchTypes, OtherInterleaved
<1>4. ASSUME NEW i \in Invocations, EnterBarrier(i) \/ Spin(i) PROVE Lasts
  <2>1. test' = test /\ gpu' = gpu /\ performed' = performed /\ memory' = memory /\ results' = results
    BY <1>4 DEF EnterBarrier, Spin
  <2> QED BY <1>0, <1>4, <2>1, BarrierTypes, OtherInterleaved
<1>5. ASSUME NEW i \in Invocations, End(i) PROVE Lasts
  BY <1>0, <1>5, EndTypes, EndInterleaved
<1>6. ASSUME NEW i \in Invocations, NEW k \in Accesses, Perform(i, k) PROVE Lasts
  BY <1>0, <1>6, PerformTypes, PerformInterleaved
<1>7. Lasts
  BY <1>1, <1>2, <1>3, <1>4, <1>5, <1>6 DEF Next, Done
<1>8. CountsAreFresh'
  <2>1. CASE Next
    BY <1>0, <2>1, CountsStayFresh
  <2>2. CASE UNCHANGED vars
    BY <1>0, <2>2 DEF vars, gpuVars, CountsAreFresh
  <2> QED BY <2>1, <2>2
<1> QED BY <1>7, <1>8 DEF Sound

-----------------------------------------------------------------------------
(* Verdicts. *)

LEMMA InstancesAreFinite == ASSUME test \in Suite PROVE IsFiniteSet(Instances)
BY Sizes, FS_Interval DEF Instances

(* What the counters show when they start from nothing. *)
LEMMA CountsShow ==
  ASSUME Sound, ResultPass, NEW b \in DOMAIN L.counted
  PROVE  /\ counts'[b] = Cardinality({k \in Instances : Observed(k) = L.counted[b]})
         /\ counts'[b] > 0 <=> \E k \in Instances : Observed(k) = L.counted[b]
<1> DEFINE K == {k \in Instances : Observed(k) = L.counted[b]}
<1>1. test \in Suite /\ DOMAIN counts = DOMAIN L.counted /\ counts[b] = 0
  BY DEF Sound, TypeOK, CountsAreFresh, ResultPass
<1>2. counts'[b] = counts[b] + Cardinality(K)
  BY <1>1 DEF ResultPass
<1>3. IsFiniteSet(K)
  BY <1>1, InstancesAreFinite, FS_Subset
<1>4. Cardinality(K) \in Nat /\ (Cardinality(K) = 0 <=> K = {})
  BY <1>3, FS_CardinalityType, FS_EmptySet
<1>5. counts'[b] = Cardinality(K)
  BY <1>1, <1>2, <1>4
<1> HIDE DEF K
<1>6. counts'[b] > 0 <=> K # {}
  BY <1>4, <1>5
<1> QED BY <1>5, <1>6 DEF K

FailuresAreEarned ==
  /\ pc = "check" /\ counts[L.weak] > 0 => strange
  /\ verdict = "fail" => strange

LEMMA NextEarned == Sound /\ FailuresAreEarned /\ [Next]_vars => FailuresAreEarned'
<1> SUFFICES ASSUME Sound, FailuresAreEarned, [Next]_vars PROVE FailuresAreEarned'
  OBVIOUS
<1>0. test \in Suite /\ test.name \in DOMAIN Litmuses
  BY TestFacts DEF Sound, TypeOK
<1>1. CASE ResultPass
  <2> DEFINE n == test.name
  <2>1. Judges(L, Interleavings[n])
    BY <1>0, EveryTestJudges DEF L
  <2>2. L' = L /\ verdict' = verdict /\ (strange => strange')
    BY <1>1, TestStays DEF ResultPass
  <2>3. ASSUME counts'[L.weak] > 0 PROVE strange'
    <3>1. PICK k \in Instances : Observed(k) = L.counted[L.weak]
      BY <1>1, <2>1, <2>3, CountsShow DEF Judges
    <3>2. Observed(k) \notin Interleavings[n]
      BY <2>1, <3>1 DEF Judges
    <3> QED BY <1>1, <3>2 DEF ResultPass
  <2> QED BY <2>2, <2>3 DEF FailuresAreEarned
<1>2. CASE Check
  BY <1>2 DEF Check, FailuresAreEarned
<1>3. CASE UNCHANGED vars
  BY <1>3, TestStays DEF vars, gpuVars, FailuresAreEarned
<1>4. pc' # "check" /\ verdict' = verdict /\ strange' = strange => FailuresAreEarned'
  BY DEF FailuresAreEarned
<1>5. CASE SetUp
  BY <1>4, <1>5 DEF SetUp
<1>6. CASE \E p \in 0 .. num - 1 : Dispatch(p)
  BY <1>4, <1>6 DEF Dispatch
<1>7. CASE \E i \in Invocations : EnterBarrier(i) \/ Spin(i) \/ End(i)
  BY <1>4, <1>7 DEF EnterBarrier, Spin, End
<1>8. CASE \E i \in Invocations, k \in Accesses : Perform(i, k)
  BY <1>4, <1>8 DEF Perform
<1> QED BY <1>1, <1>2, <1>3, <1>5, <1>6, <1>7, <1>8 DEF Next, Done

LEMMA NextConforms == Sound /\ NoneIsStrange /\ [Next]_vars => NoneIsStrange'
<1> SUFFICES ASSUME Sound, NoneIsStrange, [Next]_vars PROVE NoneIsStrange'
  OBVIOUS
<1>1. CASE ResultPass
  <2>1. gpu' = gpu /\ pc = "test" /\ TestPassOver
        /\ strange' = (strange \/ \E k \in Instances : Observed(k) \notin Interleavings[test.name])
    BY <1>1 DEF ResultPass
  <2>2. gpu = "conforming" => \A k \in Instances : Observed(k) \in Interleavings[test.name]
    BY <2>1, ConformingIsSeen DEF Sound
  <2> QED BY <2>1, <2>2 DEF NoneIsStrange
<1>2. gpu' = gpu /\ strange' = strange => NoneIsStrange'
  BY DEF NoneIsStrange
<1>3. CASE SetUp \/ Check \/ UNCHANGED vars
  BY <1>2, <1>3 DEF SetUp, Check, vars
<1>4. CASE \E p \in 0 .. num - 1 : Dispatch(p)
  BY <1>2, <1>4 DEF Dispatch
<1>5. CASE \E i \in Invocations : EnterBarrier(i) \/ Spin(i) \/ End(i)
  BY <1>2, <1>5 DEF EnterBarrier, Spin, End
<1>6. CASE \E i \in Invocations, k \in Accesses : Perform(i, k)
  BY <1>2, <1>6 DEF Perform
<1> QED BY <1>1, <1>3, <1>4, <1>5, <1>6 DEF Next, Done

-----------------------------------------------------------------------------
(* The counters account for every instance. *)

Tally(f, c, n) == f = [b \in 0 .. n |-> IF b = 0 THEN 0 ELSE f[b - 1] + c[b]]

LEMMA TallyExists ==
  ASSUME NEW n \in Nat, NEW c
  PROVE  \E f : Tally(f, c, n)
<1> DEFINE A == {j \in Nat : \E f : Tally(f, c, j)}
<1>1. 0 \in A
  <2>1. Tally([b \in 0 .. 0 |-> 0], c, 0)
    BY DEF Tally
  <2> QED BY <2>1
<1>2. ASSUME NEW j \in Nat, j \in A PROVE j + 1 \in A
  <2>1. PICK f : Tally(f, c, j)
    BY <1>2
  <2> DEFINE g == [b \in 0 .. j + 1 |-> IF b = j + 1 THEN f[j] + c[b] ELSE f[b]]
             h == [b \in 0 .. j + 1 |-> IF b = 0 THEN 0 ELSE g[b - 1] + c[b]]
  <2>2. ASSUME NEW b \in 0 .. j + 1 PROVE g[b] = h[b]
    <3>1. CASE b = j + 1
      <4>1. j \in 0 .. j + 1 /\ j # j + 1 /\ b - 1 = j /\ b # 0
        BY <3>1
      <4> QED BY <3>1, <4>1
    <3>2. CASE b = 0
      <4>1. 0 \in 0 .. j /\ 0 # j + 1
        OBVIOUS
      <4> QED BY <2>1, <3>2, <4>1 DEF Tally
    <3>3. CASE b \notin {0, j + 1}
      <4>1. b \in 0 .. j /\ b - 1 \in 0 .. j + 1 /\ b - 1 # j + 1
        BY <3>3
      <4>2. f[b] = f[b - 1] + c[b]
        BY <2>1, <3>3, <4>1 DEF Tally
      <4> QED BY <3>3, <4>1, <4>2
    <3> QED BY <3>1, <3>2, <3>3
  <2>3. g = h
    BY <2>2
  <2>4. Tally(g, c, j + 1)
    <3> HIDE DEF g
    <3> QED BY <2>3 DEF Tally
  <2> HIDE DEF g
  <2> QED BY <2>4
<1>3. \A j \in Nat : j \in A
  <2> HIDE DEF A
  <2> QED BY <1>1, <1>2, Induction
<1> QED BY <1>3

(* Counting what is seen value by value counts everything once. *)
LEMMA TallyCounts ==
  ASSUME NEW n \in Nat, NEW S, IsFiniteSet(S), NEW o, NEW v, NEW c, NEW f, Tally(f, c, n),
         \A b, d \in 1 .. n : v[b] = v[d] => b = d,
         \A k \in S : \E b \in 1 .. n : o[k] = v[b],
         \A b \in 1 .. n : c[b] = Cardinality({k \in S : o[k] = v[b]})
  PROVE  f[n] = Cardinality(S)
<1> DEFINE Upto(j) == {k \in S : \E b \in 1 .. j : o[k] = v[b]}
           Good(j) == j <= n => f[j] = Cardinality(Upto(j))
           A == {j \in Nat : Good(j)}
<1>1. Good(0)
  <2>1. Upto(0) = {}
    OBVIOUS
  <2>2. f[0] = 0
    BY DEF Tally
  <2> HIDE DEF Upto
  <2> QED BY <2>1, <2>2, FS_EmptySet
<1>2. ASSUME NEW j \in Nat, Good(j) PROVE Good(j + 1)
  <2> SUFFICES ASSUME j + 1 <= n PROVE f[j + 1] = Cardinality(Upto(j + 1))
    OBVIOUS
  <2> DEFINE K == {k \in S : o[k] = v[j + 1]}
  <2>1. f[j] = Cardinality(Upto(j))
    BY <1>2
  <2>2. f[j + 1] = f[j] + c[j + 1]
    <3>1. j + 1 \in 0 .. n /\ j + 1 # 0 /\ j + 1 - 1 = j
      OBVIOUS
    <3> QED BY <3>1 DEF Tally
  <2>3. c[j + 1] = Cardinality(K)
    OBVIOUS
  <2>4. Upto(j + 1) = Upto(j) \cup K
    <3>1. 1 .. j + 1 = (1 .. j) \cup {j + 1}
      OBVIOUS
    <3> QED BY <3>1
  <2>5. Upto(j) \cap K = {}
    <3> SUFFICES ASSUME NEW k \in S, NEW b \in 1 .. j, o[k] = v[b], o[k] = v[j + 1] PROVE FALSE
      OBVIOUS
    <3>1. b \in 1 .. n /\ j + 1 \in 1 .. n /\ b # j + 1
      OBVIOUS
    <3> QED BY <3>1
  <2>6. IsFiniteSet(Upto(j)) /\ IsFiniteSet(K)
    BY FS_Subset
  <2> HIDE DEF Upto, K
  <2>7. Cardinality(Upto(j) \cup K) = Cardinality(Upto(j)) + Cardinality(K) - Cardinality(Upto(j) \cap K)
    BY <2>6, FS_Union
  <2>8. Cardinality(Upto(j)) \in Nat /\ Cardinality(K) \in Nat /\ Cardinality(Upto(j) \cap K) = 0
    BY <2>5, <2>6, FS_CardinalityType, FS_EmptySet
  <2>9. Cardinality(Upto(j) \cup K) = Cardinality(Upto(j)) + Cardinality(K)
    BY <2>7, <2>8
  <2> QED BY <2>1, <2>2, <2>3, <2>4, <2>9
<1>3. \A j \in Nat : j \in A
  <2> HIDE DEF Good
  <2>1. 0 \in A /\ \A j \in Nat : j \in A => j + 1 \in A
    BY <1>1, <1>2
  <2> HIDE DEF A
  <2> QED BY <2>1, Induction
<1>4. Upto(n) = S
  OBVIOUS
<1> QED BY <1>3, <1>4

LEMMA NextCounted == Sound /\ EveryInstanceIsCounted /\ [Next]_vars => EveryInstanceIsCounted'
<1> SUFFICES ASSUME Sound, EveryInstanceIsCounted, [Next]_vars PROVE EveryInstanceIsCounted'
  OBVIOUS
<1>0. test \in Suite /\ test.name \in DOMAIN Litmuses
  BY TestFacts DEF Sound, TypeOK
<1>1. CASE ResultPass
  <2> DEFINE n == test.name
             F == CHOOSE f : Tally(f, counts', Len(L.counted))
             o == [k \in Instances |-> Observed(k)]
  <2>1. test' = test /\ gpu' = gpu /\ pc = "test" /\ TestPassOver
    BY <1>1 DEF ResultPass
  <2>2. SUFFICES ASSUME gpu = "conforming", n # "atomicity"
                 PROVE  F[Len(L.counted)] = Cardinality(Instances)
    <3>1. L' = L /\ Instances' = Instances
      BY <2>1, TestStays
    <3> QED BY <2>1, <3>1, Zenon DEF EveryInstanceIsCounted, Tally
  <2>3. Judges(L, Interleavings[n]) /\ TellsApart(L, Interleavings[n])
    BY <1>0, <2>2, EveryTestJudges DEF L
  <2>4. Tally(F, counts', Len(L.counted))
    BY <2>3, TallyExists, Zenon DEF Judges
  <2>5. \A k \in Instances : \E b \in DOMAIN L.counted : o[k] = L.counted[b]
    <3>1. \A k \in Instances : Observed(k) \in Interleavings[n]
      BY <2>1, <2>2, ConformingIsSeen DEF Sound
    <3> QED BY <2>3, <3>1 DEF TellsApart
  <2>6. ASSUME NEW b \in DOMAIN L.counted
        PROVE  counts'[b] = Cardinality({k \in Instances : o[k] = L.counted[b]})
    <3>1. {k \in Instances : Observed(k) = L.counted[b]} = {k \in Instances : o[k] = L.counted[b]}
      OBVIOUS
    <3> QED BY <1>1, <3>1, CountsShow
  <2>7. IsFiniteSet(Instances)
    BY <1>0, InstancesAreFinite
  <2> HIDE DEF F, o
  <2>8. /\ Len(L.counted) \in Nat /\ DOMAIN L.counted = 1 .. Len(L.counted)
        /\ \A b, d \in 1 .. Len(L.counted) : L.counted[b] = L.counted[d] => b = d
    BY <2>3 DEF Judges, TellsApart
  <2> DEFINE m == Len(L.counted)
             v == L.counted
  <2>9. /\ m \in Nat /\ \A b, d \in 1 .. m : v[b] = v[d] => b = d
        /\ \A k \in Instances : \E b \in 1 .. m : o[k] = v[b]
        /\ \A b \in 1 .. m : counts'[b] = Cardinality({k \in Instances : o[k] = v[b]})
        /\ Tally(F, counts', m)
    BY <2>4, <2>5, <2>6, <2>8
  <2> HIDE DEF m, v
  <2>10. F[m] = Cardinality(Instances)
    BY <2>7, <2>9, TallyCounts
  <2> QED BY <2>10 DEF m
<1>2. pc' # "check" => EveryInstanceIsCounted'
  BY DEF EveryInstanceIsCounted
<1>3. CASE UNCHANGED vars
  <2>1. L' = L /\ Instances' = Instances /\ test' = test /\ gpu' = gpu /\ pc' = pc /\ counts' = counts
    BY <1>3, TestStays DEF vars, gpuVars
  <2> QED BY <2>1 DEF EveryInstanceIsCounted
<1>4. CASE SetUp
  BY <1>2, <1>4 DEF SetUp
<1>5. CASE Check
  BY <1>2, <1>5 DEF Check
<1>6. CASE \E p \in 0 .. num - 1 : Dispatch(p)
  BY <1>2, <1>6 DEF Dispatch
<1>7. CASE \E i \in Invocations : EnterBarrier(i) \/ Spin(i) \/ End(i)
  BY <1>2, <1>7 DEF EnterBarrier, Spin, End
<1>8. CASE \E i \in Invocations, k \in Accesses : Perform(i, k)
  BY <1>2, <1>8 DEF Perform
<1> QED BY <1>1, <1>3, <1>4, <1>5, <1>6, <1>7, <1>8 DEF Next, Done

-----------------------------------------------------------------------------
(* What an instance can leave on any GPU, for the tests that count it all. *)

Possible(n, x, y, a, b) ==
  /\ x \in Stored(n, "x") /\ y \in Stored(n, "y") /\ a \in Loaded(n, "r0") /\ b \in Loaded(n, "r1")
  /\ ~Tearable(n) => \A c \in Ops(n) : Litmuses[n].code[c].op = "store" =>
       /\ Where(n, Litmuses[n].code[c].at) = "x" => x # 0
       /\ Where(n, Litmuses[n].code[c].at) = "y" => y # 0

Covers(n) ==
  \A x, y, a, b : Possible(n, x, y, a, b) =>
    \E e \in DOMAIN Litmuses[n].counted : Litmuses[n].counted[e] = Seen(n, State(x, y, a, b))

LEMMA MessagePassingCovers == Covers("message_passing")
<1> DEFINE n == "message_passing"
           l == Litmuses[n]
<1>1. Ops(n) = {1, 3, 4, 6} /\ \A x, y, a, b : Seen(n, State(x, y, a, b)) = <<a, b>>
  BY MessagePassingSteps
<1>2. l = MessagePassing /\ Where(n, "x") = "x" /\ Where(n, "y") = "y"
  BY DEF Litmuses, Presets, kAtomicityTestParams, kBarrierTestParams, kCoherenceTestParams, kWeakTestParams, Where
<1>3. /\ l.code[1].op = "store" /\ l.code[1].at = "x" /\ l.code[1].val = 1
      /\ l.code[3].op = "store" /\ l.code[3].at = "y" /\ l.code[3].val = 1
      /\ l.code[4].op = "load" /\ l.code[4].at = "y" /\ l.code[4].reg = "r0"
      /\ l.code[6].op = "load" /\ l.code[6].at = "x" /\ l.code[6].reg = "r1"
  BY <1>2 DEF MessagePassing, Litmus, Store, Load, Add0, Barrier
<1> HIDE DEF l
<1>4. Stored(n, "x") \subseteq {0, 1}
  BY <1>1, <1>2, <1>3 DEF Stored, l
<1>5. Stored(n, "y") \subseteq {0, 1}
  BY <1>1, <1>2, <1>3 DEF Stored, l
<1>6. Loaded(n, "r0") \subseteq {0, 1}
  BY <1>1, <1>2, <1>3, <1>4, <1>5 DEF Loaded, l
<1>7. Loaded(n, "r1") \subseteq {0, 1}
  BY <1>1, <1>2, <1>3, <1>4, <1>5 DEF Loaded, l
<1>8. \A x, y, a, b : Possible(n, x, y, a, b) => a \in {0, 1} /\ b \in {0, 1}
  BY <1>4, <1>5, <1>6, <1>7 DEF Possible
<1>9. \A a \in {0, 1}, b \in {0, 1} : \E e \in DOMAIN l.counted : l.counted[e] = <<a, b>>
  BY <1>2 DEF MessagePassing, Litmus
<1> QED BY <1>1, <1>8, <1>9 DEF Covers, l

LEMMA StoreTestCovers == Covers("store")
<1> DEFINE n == "store"
           l == Litmuses[n]
<1>1. Ops(n) = {1, 3, 4, 6} /\ \A x, y, a, b : Seen(n, State(x, y, a, b)) = <<a, x>>
  BY StoreTestSteps
<1>2. l = StoreTest /\ Where(n, "x") = "x" /\ Where(n, "y") = "y"
  BY DEF Litmuses, Presets, kAtomicityTestParams, kBarrierTestParams, kCoherenceTestParams, kWeakTestParams, Where
<1>3. /\ l.code[1].op = "store" /\ l.code[1].at = "x" /\ l.code[1].val = 2
      /\ l.code[3].op = "store" /\ l.code[3].at = "y" /\ l.code[3].val = 1
      /\ l.code[4].op = "load" /\ l.code[4].at = "y" /\ l.code[4].reg = "r0"
      /\ l.code[6].op = "store" /\ l.code[6].at = "x" /\ l.code[6].val = 1
  BY <1>2 DEF StoreTest, Litmus, Store, Load, Add0, Barrier
<1> HIDE DEF l
<1>4. Stored(n, "x") \subseteq {0, 1, 2}
  BY <1>1, <1>2, <1>3 DEF Stored, l
<1>5. Stored(n, "y") \subseteq {0, 1}
  BY <1>1, <1>2, <1>3 DEF Stored, l
<1>6. Loaded(n, "r0") \subseteq {0, 1}
  BY <1>1, <1>2, <1>3, <1>4, <1>5 DEF Loaded, l
<1>7. ~Tearable(n)
  BY <1>1, <1>3 DEF Tearable, l
<1>8. \A x, y, a, b : Possible(n, x, y, a, b) => x # 0
  BY <1>1, <1>2, <1>3, <1>7 DEF Possible, l
<1>9. \A x, y, a, b : Possible(n, x, y, a, b) => a \in {0, 1} /\ x \in {1, 2}
  BY <1>4, <1>5, <1>6, <1>7, <1>8 DEF Possible
<1>10. \A a \in {0, 1}, x \in {1, 2} : \E e \in DOMAIN l.counted : l.counted[e] = <<a, x>>
  BY <1>2 DEF StoreTest, Litmus
<1> QED BY <1>1, <1>9, <1>10 DEF Covers, l

LEMMA LoadBufferCovers == Covers("load_buffer")
<1> DEFINE n == "load_buffer"
           l == Litmuses[n]
<1>1. Ops(n) = {1, 3, 4, 6} /\ \A x, y, a, b : Seen(n, State(x, y, a, b)) = <<a, b>>
  BY LoadBufferSteps
<1>2. l = LoadBuffer /\ Where(n, "x") = "x" /\ Where(n, "y") = "y"
  BY DEF Litmuses, Presets, kAtomicityTestParams, kBarrierTestParams, kCoherenceTestParams, kWeakTestParams, Where
<1>3. /\ l.code[1].op = "load" /\ l.code[1].at = "y" /\ l.code[1].reg = "r0"
      /\ l.code[3].op = "store" /\ l.code[3].at = "x" /\ l.code[3].val = 1
      /\ l.code[4].op = "load" /\ l.code[4].at = "x" /\ l.code[4].reg = "r1"
      /\ l.code[6].op = "store" /\ l.code[6].at = "y" /\ l.code[6].val = 1
  BY <1>2 DEF LoadBuffer, Litmus, Store, Load, Add0, Barrier
<1> HIDE DEF l
<1>4. Stored(n, "x") \subseteq {0, 1}
  BY <1>1, <1>2, <1>3 DEF Stored, l
<1>5. Stored(n, "y") \subseteq {0, 1}
  BY <1>1, <1>2, <1>3 DEF Stored, l
<1>6. Loaded(n, "r0") \subseteq {0, 1}
  BY <1>1, <1>2, <1>3, <1>4, <1>5 DEF Loaded, l
<1>7. Loaded(n, "r1") \subseteq {0, 1}
  BY <1>1, <1>2, <1>3, <1>4, <1>5 DEF Loaded, l
<1>8. \A x, y, a, b : Possible(n, x, y, a, b) => a \in {0, 1} /\ b \in {0, 1}
  BY <1>4, <1>5, <1>6, <1>7 DEF Possible
<1>9. \A a \in {0, 1}, b \in {0, 1} : \E e \in DOMAIN l.counted : l.counted[e] = <<a, b>>
  BY <1>2 DEF LoadBuffer, Litmus
<1> QED BY <1>1, <1>8, <1>9 DEF Covers, l

LEMMA ReadTestCovers == Covers("read")
<1> DEFINE n == "read"
           l == Litmuses[n]
<1>1. Ops(n) = {1, 3, 4, 6} /\ \A x, y, a, b : Seen(n, State(x, y, a, b)) = <<a, y>>
  BY ReadTestSteps
<1>2. l = ReadTest /\ Where(n, "x") = "x" /\ Where(n, "y") = "y"
  BY DEF Litmuses, Presets, kAtomicityTestParams, kBarrierTestParams, kCoherenceTestParams, kWeakTestParams, Where
<1>3. /\ l.code[1].op = "store" /\ l.code[1].at = "x" /\ l.code[1].val = 1
      /\ l.code[3].op = "store" /\ l.code[3].at = "y" /\ l.code[3].val = 1
      /\ l.code[4].op = "store" /\ l.code[4].at = "y" /\ l.code[4].val = 2
      /\ l.code[6].op = "load" /\ l.code[6].at = "x" /\ l.code[6].reg = "r0"
  BY <1>2 DEF ReadTest, Litmus, Store, Load, Add0, Barrier
<1> HIDE DEF l
<1>4. Stored(n, "x") \subseteq {0, 1}
  BY <1>1, <1>2, <1>3 DEF Stored, l
<1>5. Stored(n, "y") \subseteq {0, 1, 2}
  BY <1>1, <1>2, <1>3 DEF Stored, l
<1>6. Loaded(n, "r0") \subseteq {0, 1}
  BY <1>1, <1>2, <1>3, <1>4, <1>5 DEF Loaded, l
<1>7. ~Tearable(n)
  BY <1>1, <1>3 DEF Tearable, l
<1>8. \A x, y, a, b : Possible(n, x, y, a, b) => y # 0
  BY <1>1, <1>2, <1>3, <1>7 DEF Possible, l
<1>9. \A x, y, a, b : Possible(n, x, y, a, b) => a \in {0, 1} /\ y \in {1, 2}
  BY <1>4, <1>5, <1>6, <1>7, <1>8 DEF Possible
<1>10. \A a \in {0, 1}, y \in {1, 2} : \E e \in DOMAIN l.counted : l.counted[e] = <<a, y>>
  BY <1>2 DEF ReadTest, Litmus
<1> QED BY <1>1, <1>9, <1>10 DEF Covers, l

LEMMA StoreBufferCovers == Covers("store_buffer")
<1> DEFINE n == "store_buffer"
           l == Litmuses[n]
<1>1. Ops(n) = {1, 3, 4, 6} /\ \A x, y, a, b : Seen(n, State(x, y, a, b)) = <<a, b>>
  BY StoreBufferSteps
<1>2. l = StoreBuffer /\ Where(n, "x") = "x" /\ Where(n, "y") = "y"
  BY DEF Litmuses, Presets, kAtomicityTestParams, kBarrierTestParams, kCoherenceTestParams, kWeakTestParams, Where
<1>3. /\ l.code[1].op = "store" /\ l.code[1].at = "x" /\ l.code[1].val = 1
      /\ l.code[3].op = "add0" /\ l.code[3].at = "y" /\ l.code[3].reg = "r0"
      /\ l.code[4].op = "store" /\ l.code[4].at = "y" /\ l.code[4].val = 1
      /\ l.code[6].op = "load" /\ l.code[6].at = "x" /\ l.code[6].reg = "r1"
  BY <1>2 DEF StoreBuffer, Litmus, Store, Load, Add0, Barrier
<1> HIDE DEF l
<1>4. Stored(n, "x") \subseteq {0, 1}
  BY <1>1, <1>2, <1>3 DEF Stored, l
<1>5. Stored(n, "y") \subseteq {0, 1}
  BY <1>1, <1>2, <1>3 DEF Stored, l
<1>6. Loaded(n, "r0") \subseteq {0, 1}
  BY <1>1, <1>2, <1>3, <1>4, <1>5 DEF Loaded, l
<1>7. Loaded(n, "r1") \subseteq {0, 1}
  BY <1>1, <1>2, <1>3, <1>4, <1>5 DEF Loaded, l
<1>8. \A x, y, a, b : Possible(n, x, y, a, b) => a \in {0, 1} /\ b \in {0, 1}
  BY <1>4, <1>5, <1>6, <1>7 DEF Possible
<1>9. \A a \in {0, 1}, b \in {0, 1} : \E e \in DOMAIN l.counted : l.counted[e] = <<a, b>>
  BY <1>2 DEF StoreBuffer, Litmus
<1> QED BY <1>1, <1>8, <1>9 DEF Covers, l

LEMMA TwoPlusTwoWriteCovers == Covers("two_plus_two")
<1> DEFINE n == "two_plus_two"
           l == Litmuses[n]
<1>1. Ops(n) = {1, 3, 4, 6} /\ \A x, y, a, b : Seen(n, State(x, y, a, b)) = <<x, y>>
  BY TwoPlusTwoWriteSteps
<1>2. l = TwoPlusTwoWrite /\ Where(n, "x") = "x" /\ Where(n, "y") = "y"
  BY DEF Litmuses, Presets, kAtomicityTestParams, kBarrierTestParams, kCoherenceTestParams, kWeakTestParams, Where
<1>3. /\ l.code[1].op = "store" /\ l.code[1].at = "x" /\ l.code[1].val = 2
      /\ l.code[3].op = "store" /\ l.code[3].at = "y" /\ l.code[3].val = 1
      /\ l.code[4].op = "store" /\ l.code[4].at = "y" /\ l.code[4].val = 2
      /\ l.code[6].op = "store" /\ l.code[6].at = "x" /\ l.code[6].val = 1
  BY <1>2 DEF TwoPlusTwoWrite, Litmus, Store, Load, Add0, Barrier
<1> HIDE DEF l
<1>4. Stored(n, "x") \subseteq {0, 1, 2}
  BY <1>1, <1>2, <1>3 DEF Stored, l
<1>5. Stored(n, "y") \subseteq {0, 1, 2}
  BY <1>1, <1>2, <1>3 DEF Stored, l
<1>6. ~Tearable(n)
  BY <1>1, <1>3 DEF Tearable, l
<1>7. \A x, y, a, b : Possible(n, x, y, a, b) => x # 0 /\ y # 0
  BY <1>1, <1>2, <1>3, <1>6 DEF Possible, l
<1>8. \A x, y, a, b : Possible(n, x, y, a, b) => x \in {1, 2} /\ y \in {1, 2}
  BY <1>4, <1>5, <1>6, <1>7 DEF Possible
<1>9. \A x \in {1, 2}, y \in {1, 2} : \E e \in DOMAIN l.counted : l.counted[e] = <<x, y>>
  BY <1>2 DEF TwoPlusTwoWrite, Litmus
<1> QED BY <1>1, <1>8, <1>9 DEF Covers, l

LEMMA CoRRCovers == Covers("corr")
<1> DEFINE n == "corr"
           l == Litmuses[n]
<1>1. Ops(n) = {1, 2, 3} /\ \A x, y, a, b : Seen(n, State(x, y, a, b)) = <<a, b>>
  BY CoRRSteps
<1>2. l = CoRR /\ Where(n, "x") = "x" /\ Where(n, "y") = "x"
  BY DEF Litmuses, Presets, kAtomicityTestParams, kBarrierTestParams, kCoherenceTestParams, kWeakTestParams, Where
<1>3. /\ l.code[1].op = "store" /\ l.code[1].at = "x" /\ l.code[1].val = 1
      /\ l.code[2].op = "load" /\ l.code[2].at = "x" /\ l.code[2].reg = "r0"
      /\ l.code[3].op = "load" /\ l.code[3].at = "y" /\ l.code[3].reg = "r1"
  BY <1>2 DEF CoRR, Litmus, Store, Load, Add0, Barrier
<1> HIDE DEF l
<1>4. Stored(n, "x") \subseteq {0, 1}
  BY <1>1, <1>2, <1>3 DEF Stored, l
<1>5. Stored(n, "y") \subseteq {0, 1}
  BY <1>1, <1>2, <1>3 DEF Stored, l
<1>6. Loaded(n, "r0") \subseteq {0, 1}
  BY <1>1, <1>2, <1>3, <1>4, <1>5 DEF Loaded, l
<1>7. Loaded(n, "r1") \subseteq {0, 1}
  BY <1>1, <1>2, <1>3, <1>4, <1>5 DEF Loaded, l
<1>8. \A x, y, a, b : Possible(n, x, y, a, b) => a \in {0, 1} /\ b \in {0, 1}
  BY <1>4, <1>5, <1>6, <1>7 DEF Possible
<1>9. \A a \in {0, 1}, b \in {0, 1} : \E e \in DOMAIN l.counted : l.counted[e] = <<a, b>>
  BY <1>2 DEF CoRR, Litmus
<1> QED BY <1>1, <1>8, <1>9 DEF Covers, l

LEMMA CoWWCovers == Covers("coww")
<1> DEFINE n == "coww"
           l == Litmuses[n]
<1>1. Ops(n) = {1, 2} /\ \A x, y, a, b : Seen(n, State(x, y, a, b)) = <<x>>
  BY CoWWSteps
<1>2. l = CoWW /\ Where(n, "x") = "x" /\ Where(n, "y") = "x"
  BY DEF Litmuses, Presets, kAtomicityTestParams, kBarrierTestParams, kCoherenceTestParams, kWeakTestParams, Where
<1>3. /\ l.code[1].op = "store" /\ l.code[1].at = "x" /\ l.code[1].val = 1
      /\ l.code[2].op = "store" /\ l.code[2].at = "y" /\ l.code[2].val = 2
  BY <1>2 DEF CoWW, Litmus, Store, Load, Add0, Barrier
<1> HIDE DEF l
<1>4. Stored(n, "x") \subseteq {0, 1, 2}
  BY <1>1, <1>2, <1>3 DEF Stored, l
<1>5. ~Tearable(n)
  BY <1>1, <1>3 DEF Tearable, l
<1>6. \A x, y, a, b : Possible(n, x, y, a, b) => x # 0
  BY <1>1, <1>2, <1>3, <1>5 DEF Possible, l
<1>7. \A x, y, a, b : Possible(n, x, y, a, b) => x \in {1, 2}
  BY <1>4, <1>5, <1>6 DEF Possible
<1>8. \A x \in {1, 2} : \E e \in DOMAIN l.counted : l.counted[e] = <<x>>
  BY <1>2 DEF CoWW, Litmus
<1> QED BY <1>1, <1>7, <1>8 DEF Covers, l

LEMMA CoRW1Covers == Covers("corw1")
<1> DEFINE n == "corw1"
           l == Litmuses[n]
<1>1. Ops(n) = {1, 2} /\ \A x, y, a, b : Seen(n, State(x, y, a, b)) = <<a>>
  BY CoRW1Steps
<1>2. l = CoRW1 /\ Where(n, "x") = "x" /\ Where(n, "y") = "x"
  BY DEF Litmuses, Presets, kAtomicityTestParams, kBarrierTestParams, kCoherenceTestParams, kWeakTestParams, Where
<1>3. /\ l.code[1].op = "load" /\ l.code[1].at = "x" /\ l.code[1].reg = "r0"
      /\ l.code[2].op = "store" /\ l.code[2].at = "y" /\ l.code[2].val = 1
  BY <1>2 DEF CoRW1, Litmus, Store, Load, Add0, Barrier
<1> HIDE DEF l
<1>4. Stored(n, "x") \subseteq {0, 1}
  BY <1>1, <1>2, <1>3 DEF Stored, l
<1>5. Loaded(n, "r0") \subseteq {0, 1}
  BY <1>1, <1>2, <1>3, <1>4 DEF Loaded, l
<1>6. \A x, y, a, b : Possible(n, x, y, a, b) => a \in {0, 1}
  BY <1>4, <1>5 DEF Possible
<1>7. \A a \in {0, 1} : \E e \in DOMAIN l.counted : l.counted[e] = <<a>>
  BY <1>2 DEF CoRW1, Litmus
<1> QED BY <1>1, <1>6, <1>7 DEF Covers, l

LEMMA BarrierLoadStoreCovers == Covers("rw")
<1> DEFINE n == "rw"
           l == Litmuses[n]
<1>1. Ops(n) = {1, 3} /\ \A x, y, a, b : Seen(n, State(x, y, a, b)) = <<a>>
  BY BarrierLoadStoreSteps
<1>2. l = BarrierLoadStore /\ Where(n, "x") = "x" /\ Where(n, "y") = "y"
  BY DEF Litmuses, Presets, kAtomicityTestParams, kBarrierTestParams, kCoherenceTestParams, kWeakTestParams, Where
<1>3. /\ l.code[1].op = "load" /\ l.code[1].at = "x" /\ l.code[1].reg = "r0"
      /\ l.code[3].op = "store" /\ l.code[3].at = "x" /\ l.code[3].val = 1
  BY <1>2 DEF BarrierLoadStore, Litmus, Store, Load, Add0, Barrier
<1> HIDE DEF l
<1>4. Stored(n, "x") \subseteq {0, 1}
  BY <1>1, <1>2, <1>3 DEF Stored, l
<1>5. Loaded(n, "r0") \subseteq {0, 1}
  BY <1>1, <1>2, <1>3, <1>4 DEF Loaded, l
<1>6. \A x, y, a, b : Possible(n, x, y, a, b) => a \in {0, 1}
  BY <1>4, <1>5 DEF Possible
<1>7. \A a \in {0, 1} : \E e \in DOMAIN l.counted : l.counted[e] = <<a>>
  BY <1>2 DEF BarrierLoadStore, Litmus
<1> QED BY <1>1, <1>6, <1>7 DEF Covers, l

LEMMA BarrierStoreLoadCovers == Covers("wr")
<1> DEFINE n == "wr"
           l == Litmuses[n]
<1>1. Ops(n) = {1, 3} /\ \A x, y, a, b : Seen(n, State(x, y, a, b)) = <<a>>
  BY BarrierStoreLoadSteps
<1>2. l = BarrierStoreLoad /\ Where(n, "x") = "x" /\ Where(n, "y") = "y"
  BY DEF Litmuses, Presets, kAtomicityTestParams, kBarrierTestParams, kCoherenceTestParams, kWeakTestParams, Where
<1>3. /\ l.code[1].op = "store" /\ l.code[1].at = "x" /\ l.code[1].val = 1
      /\ l.code[3].op = "load" /\ l.code[3].at = "x" /\ l.code[3].reg = "r0"
  BY <1>2 DEF BarrierStoreLoad, Litmus, Store, Load, Add0, Barrier
<1> HIDE DEF l
<1>4. Stored(n, "x") \subseteq {0, 1}
  BY <1>1, <1>2, <1>3 DEF Stored, l
<1>5. Loaded(n, "r0") \subseteq {0, 1}
  BY <1>1, <1>2, <1>3, <1>4 DEF Loaded, l
<1>6. \A x, y, a, b : Possible(n, x, y, a, b) => a \in {0, 1}
  BY <1>4, <1>5 DEF Possible
<1>7. \A a \in {0, 1} : \E e \in DOMAIN l.counted : l.counted[e] = <<a>>
  BY <1>2 DEF BarrierStoreLoad, Litmus
<1> QED BY <1>1, <1>6, <1>7 DEF Covers, l

LEMMA BarrierStoreStoreCovers == Covers("ww")
<1> DEFINE n == "ww"
           l == Litmuses[n]
<1>1. Ops(n) = {1, 3} /\ \A x, y, a, b : Seen(n, State(x, y, a, b)) = <<x>>
  BY BarrierStoreStoreSteps
<1>2. l = BarrierStoreStore /\ Where(n, "x") = "x" /\ Where(n, "y") = "y"
  BY DEF Litmuses, Presets, kAtomicityTestParams, kBarrierTestParams, kCoherenceTestParams, kWeakTestParams, Where
<1>3. /\ l.code[1].op = "store" /\ l.code[1].at = "x" /\ l.code[1].val = 1
      /\ l.code[3].op = "store" /\ l.code[3].at = "x" /\ l.code[3].val = 2
  BY <1>2 DEF BarrierStoreStore, Litmus, Store, Load, Add0, Barrier
<1> HIDE DEF l
<1>4. Stored(n, "x") \subseteq {0, 1, 2}
  BY <1>1, <1>2, <1>3 DEF Stored, l
<1>5. ~Tearable(n)
  BY <1>1, <1>3 DEF Tearable, l
<1>6. \A x, y, a, b : Possible(n, x, y, a, b) => x # 0
  BY <1>1, <1>2, <1>3, <1>5 DEF Possible, l
<1>7. \A x, y, a, b : Possible(n, x, y, a, b) => x \in {1, 2}
  BY <1>4, <1>5, <1>6 DEF Possible
<1>8. \A x \in {1, 2} : \E e \in DOMAIN l.counted : l.counted[e] = <<x>>
  BY <1>2 DEF BarrierStoreStore, Litmus
<1> QED BY <1>1, <1>7, <1>8 DEF Covers, l

LEMMA EveryoneCovers == \A n \in CountedInFull : Covers(n)
BY MessagePassingCovers, StoreTestCovers, LoadBufferCovers, ReadTestCovers, StoreBufferCovers,
   TwoPlusTwoWriteCovers,
   CoRRCovers, CoWWCovers, CoRW1Covers, BarrierLoadStoreCovers, BarrierStoreLoadCovers, BarrierStoreStoreCovers
DEF CountedInFull, Names

-----------------------------------------------------------------------------
(* On any GPU: the values there can be, and the stores that are kept. *)

(* A torn atomic puts back what only it can have loaded. *)
LEMMA PutBackIsStored ==
  ASSUME NEW n \in DOMAIN Litmuses, NEW d \in Ops(n), Litmuses[n].code[d].op = "add0"
  PROVE  Loaded(n, Litmuses[n].code[d].reg) \subseteq Stored(n, Litmuses[n].code[d].at)
<1> DEFINE code == Litmuses[n].code
<1>1. \A c \in Ops(n) : code[c].op # "store" /\ code[c].reg = code[d].reg => code[c].at = code[d].at
  <2>1. CASE n = "store_buffer"
    <3>1. Ops(n) = {1, 3, 4, 6}
      BY <2>1, StoreBufferSteps
    <3> QED BY <2>1, <3>1 DEF Litmuses, StoreBuffer, Litmus, Store, Load, Add0, Barrier
  <2>2. CASE n = "atomicity"
    <3>1. Ops(n) = {1, 2}
      BY <2>2, AtomicitySteps
    <3> QED BY <2>2, <3>1 DEF Litmuses, Atomicity, Litmus, Store, Load, Add0, Barrier
  <2>3. CASE n \notin {"store_buffer", "atomicity"}
    <3>1. \A c \in DOMAIN code : code[c].op # "add0"
      <4> USE DEF Litmus, Store, Load, Add0, Barrier
      <4>1. Litmuses[n] \in {MessagePassing, StoreTest, LoadBuffer, ReadTest, TwoPlusTwoWrite, CoRR, CoWW, CoWR,
                             CoRW1, CoRW2, BarrierLoadStore, BarrierStoreLoad, BarrierStoreStore}
        BY <2>3, NamesOfTests DEF Litmuses, Names
      <4> DEFINE None(l) == \A c \in DOMAIN l.code : l.code[c].op # "add0"
      <4>2. None(MessagePassing) /\ None(StoreTest) /\ None(LoadBuffer)
        BY DEF MessagePassing, StoreTest, LoadBuffer
      <4>3. None(ReadTest) /\ None(TwoPlusTwoWrite) /\ None(CoRR) /\ None(CoWW)
        BY DEF ReadTest, TwoPlusTwoWrite, CoRR, CoWW
      <4>4. None(CoWR) /\ None(CoRW1) /\ None(CoRW2)
        BY DEF CoWR, CoRW1, CoRW2
      <4>5. None(BarrierLoadStore) /\ None(BarrierStoreLoad) /\ None(BarrierStoreStore)
        BY DEF BarrierLoadStore, BarrierStoreLoad, BarrierStoreStore
      <4> HIDE DEF None
      <4>6. None(Litmuses[n])
        BY <4>1, <4>2, <4>3, <4>4, <4>5
      <4> QED BY <4>6 DEF None
    <3> QED BY <3>1 DEF Ops
  <2> QED BY <2>1, <2>2, <2>3
<1>2. 0 \in Stored(n, code[d].at)
  BY DEF Stored
<1> QED BY <1>1, <1>2 DEF Loaded

Bounded == ValuesAreStored /\ StoresAreKept

LEMMA StartsBounded ==
  ASSUME TypeOK, \A i \in Invocations : performed[i] = {}, memory = Zero,
         results = [k \in Instances |-> [r0 |-> 0, r1 |-> 0]]
  PROVE  Bounded
<1>1. test \in Suite
  BY DEF TypeOK
<1>2. \A i \in Invocations, at \in {"x", "y"} : memory[Space(i[1])][Word(i, 0, at)] = 0
  BY <1>1, CellRange DEF Zero
<1>3. \A d : 0 \in Stored(test.name, d) /\ 0 \in Loaded(test.name, d)
  BY DEF Stored, Loaded
<1> QED BY <1>2, <1>3 DEF Bounded, ValuesAreStored, StoresAreKept

LEMMA SetUpBounded ==
  ASSUME TypeOK, SetUp
  PROVE  Bounded'
<1>1. test' = test /\ gpu' = gpu /\ test \in Suite
  BY DEF SetUp, TypeOK
<1>2. /\ performed' = [j \in Invocations |-> {}] /\ memory' = Zero
      /\ results' = [k \in Instances |-> [r0 |-> 0, r1 |-> 0]]
  BY DEF SetUp, ResetDevice
<1>3. \A i \in Invocations, at \in {"x", "y"} : memory'[Space(i[1])][Word(i, 0, at)] = 0
  BY <1>1, <1>2, CellRange DEF Zero
<1>4. \A d : 0 \in Stored(test.name, d) /\ 0 \in Loaded(test.name, d)
  BY DEF Stored, Loaded
<1>5. ValuesAreStored'
  BY <1>1, <1>2, <1>3, <1>4, TestStays DEF ValuesAreStored
<1>6. StoresAreKept'
  BY <1>1, <1>2, TestStays DEF StoresAreKept
<1> QED BY <1>5, <1>6 DEF Bounded

(* What an access stores, and what it loads. *)
LEMMA PerformsBounded ==
  ASSUME TypeOK, ValuesAreStored, NEW i \in Invocations, NEW k \in Accesses, Perform(i, k)
  PROVE  LET c == Program[k]
             n == test.name
             v == memory[Space(i[1])][Place(i, k)]
         IN /\ c.op = "store" => c.val \in Stored(n, c.at)
            /\ c.op = "putback" => results[Instance(i, c.role)][c.reg] \in Stored(n, c.at)
            /\ c.op \in {"load", "add0"} => v \in Loaded(n, c.reg)
            /\ \A a, b \in {"x", "y"} : Where(n, a) = Where(n, b) => Stored(n, a) = Stored(n, b)
<1> DEFINE c == Program[k]
           n == test.name
           v == memory[Space(i[1])][Place(i, k)]
           me == Instance(i, c.role)
<1>1. test \in Suite /\ gpu \in Gpus /\ n \in DOMAIN Litmuses
  BY TestFacts DEF TypeOK
<1>2. /\ c.role \in {0, 1} /\ c.at \in {"x", "y"} /\ c.op \in {"store", "load", "add0", "putback"}
      /\ c.op # "store" => c.reg \in {"r0", "r1"}
  BY <1>1, Performable
<1>3. PICK d \in Ops(n) :
              /\ c.role = L.code[d].role /\ c.at = L.code[d].at
              /\ c.val = L.code[d].val /\ c.reg = L.code[d].reg
              /\ \/ c.op = L.code[d].op
                 \/ L.code[d].op = "add0" /\ c.op \in {"load", "putback"}
  BY <1>1, Performs
<1>4. L.code[d] \in Instruction /\ L = Litmuses[n]
  BY <1>1, Codes DEF L
<1>5. \A a, b \in {"x", "y"} : Where(n, a) = Where(n, b) => Stored(n, a) = Stored(n, b)
  BY DEF Stored
<1>6. v \in Stored(n, c.at)
  <2>1. PICK o \in Invocations : Instance(o, 0) = me
    <3>1. me \in Instances
      <4> HIDE DEF c
      <4> QED BY <1>1, <1>2, InstanceRange
    <3> QED BY <1>1, <3>1, SomeInvocation
  <2>2. Cell(o, 0, c.at) = Cell(i, c.role, c.at)
    <3> HIDE DEF c
    <3> QED BY <1>1, <1>2, <2>1, CellsMeet
  <2>3. v = memory[Space(o[1])][Word(o, 0, c.at)]
    BY <2>2 DEF Cell, Place
  <2> QED BY <1>2, <2>3 DEF ValuesAreStored
<1>7. c.op = "store" => c.val \in Stored(n, c.at)
  <2> HIDE DEF c, n
  <2> QED BY <1>3, <1>4 DEF Stored
<1>8. c.op \in {"load", "add0"} => v \in Loaded(n, c.reg)
  <2> HIDE DEF c, n, v
  <2> SUFFICES ASSUME c.op \in {"load", "add0"} PROVE v \in Loaded(n, c.reg)
    OBVIOUS
  <2>1. L.code[d].op # "store"
    BY <1>3
  <2>2. Stored(n, L.code[d].at) \subseteq Loaded(n, c.reg)
    BY <1>3, <1>4, <2>1 DEF Loaded
  <2> QED BY <1>3, <1>6, <2>2
<1>9. c.op = "putback" => results[me][c.reg] \in Stored(n, c.at)
  <2> SUFFICES ASSUME c.op = "putback" PROVE results[me][c.reg] \in Stored(n, c.at)
    OBVIOUS
  <2>1. L.code[d].op = "add0"
    <3> HIDE DEF c, n
    <3> QED BY <1>3, <1>4 DEF Instruction
  <2>2. Loaded(n, c.reg) \subseteq Stored(n, c.at)
    <3> HIDE DEF c, n
    <3> QED BY <1>1, <1>3, <1>4, <2>1, PutBackIsStored
  <2>3. me \in Instances /\ c.reg \in {"r0", "r1"}
    <3> HIDE DEF c
    <3> QED BY <1>1, <1>2, InstanceRange
  <2>4. results[me].r0 \in Loaded(n, "r0") /\ results[me].r1 \in Loaded(n, "r1")
    BY <2>3 DEF ValuesAreStored
  <2> HIDE DEF c, me
  <2> QED BY <2>2, <2>3, <2>4
<1> QED BY <1>5, <1>7, <1>8, <1>9

LEMMA PerformBounded ==
  ASSUME TypeOK, Bounded, NEW i \in Invocations, NEW k \in Accesses, Perform(i, k)
  PROVE  Bounded'
<1> DEFINE c == Program[k]
           n == test.name
           s == Space(i[1])
           w == Place(i, k)
           me == Instance(i, c.role)
<1>1. test \in Suite /\ gpu \in Gpus /\ test' = test /\ gpu' = gpu /\ ValuesAreStored /\ StoresAreKept
  BY DEF TypeOK, Perform, Bounded
<1>2. /\ c.role \in {0, 1} /\ c.at \in {"x", "y"} /\ c.op \in {"store", "load", "add0", "putback"}
      /\ c.op = "store" => c.val \in {1, 2}
      /\ c.op # "store" => c.reg \in {"r0", "r1"}
  BY <1>1, Performable
<1>3. /\ s \in Spaces /\ w \in Words /\ me \in Instances
      /\ \A j \in Instances :
           /\ results'[j].r0 = IF c.op \in {"load", "add0"} /\ j = me /\ c.reg = "r0"
                               THEN memory[s][w] ELSE results[j].r0
           /\ results'[j].r1 = IF c.op \in {"load", "add0"} /\ j = me /\ c.reg = "r1"
                               THEN memory[s][w] ELSE results[j].r1
      /\ \A s2 \in Spaces, w2 \in Words :
           memory'[s2][w2] = IF c.op \in {"store", "putback"} /\ s2 = s /\ w2 = w
                             THEN IF c.op = "store" THEN c.val ELSE results[me][c.reg]
                             ELSE memory[s2][w2]
      /\ performed' = [performed EXCEPT ![i] = @ \cup {k}] /\ k \notin performed[i]
  BY Effect
<1>4. /\ c.op = "store" => c.val \in Stored(n, c.at)
      /\ c.op = "putback" => results[me][c.reg] \in Stored(n, c.at)
      /\ c.op \in {"load", "add0"} => memory[s][w] \in Loaded(n, c.reg)
      /\ \A a, b \in {"x", "y"} : Where(n, a) = Where(n, b) => Stored(n, a) = Stored(n, b)
  BY <1>1, PerformsBounded
<1>5. ASSUME NEW o \in Invocations, NEW at \in {"x", "y"}
      PROVE  memory'[Space(o[1])][Word(o, 0, at)] \in Stored(n, at)
  <2> DEFINE so == Space(o[1])
             wo == Word(o, 0, at)
  <2>1. so \in Spaces /\ wo \in Words /\ memory[so][wo] \in Stored(n, at)
    BY <1>1, CellRange DEF ValuesAreStored
  <2>2. so = s /\ wo = w => Stored(n, at) = Stored(n, c.at)
    <3> SUFFICES ASSUME so = s, wo = w PROVE Stored(n, at) = Stored(n, c.at)
      OBVIOUS
    <3>1. Cell(o, 0, at) = Cell(i, c.role, c.at)
      BY DEF Cell, Place
    <3>2. at = c.at \/ Params.aliased
      <4> HIDE DEF c
      <4> QED BY <1>1, <1>2, <3>1, CellsApart
    <3>3. Where(n, at) = Where(n, c.at)
      BY <3>2 DEF Where, Params
    <3> QED BY <1>2, <1>4, <3>3
  <2> HIDE DEF so, wo, c, n, s, w, me
  <2>3. memory'[so][wo] \in Stored(n, at)
    BY <1>2, <1>3, <1>4, <2>1, <2>2
  <2> QED BY <2>3 DEF so, wo, n
<1>6. ASSUME NEW j \in Instances
      PROVE  results'[j].r0 \in Loaded(n, "r0") /\ results'[j].r1 \in Loaded(n, "r1")
  <2>1. results[j].r0 \in Loaded(n, "r0") /\ results[j].r1 \in Loaded(n, "r1")
    BY <1>1 DEF ValuesAreStored
  <2> HIDE DEF c, n, s, w, me
  <2> QED BY <1>3, <1>4, <2>1
<1>7. ValuesAreStored'
  BY <1>1, <1>5, <1>6, TestStays DEF ValuesAreStored
<1>8. ASSUME ~Tearable(n), NEW j \in Invocations, NEW d \in performed'[j], Program[d].op = "store"
      PROVE  memory'[Space(j[1])][Word(j, Program[d].role, Program[d].at)] # 0
  <2>1. d \in Accesses /\ (d \in performed[j] \/ (d = k /\ j = i))
    BY <1>3 DEF TypeOK
  <2>2. Program[d].role \in {0, 1} /\ Program[d].at \in {"x", "y"}
    BY <1>1, <2>1, Performable
  <2> DEFINE so == Space(j[1])
             wo == Word(j, Program[d].role, Program[d].at)
  <2>3. so \in Spaces /\ wo \in Words
    BY <1>1, <2>2, CellRange
  <2>4. c.op # "putback"
    <3>1. Program = L.code /\ k \in Ops(n)
      BY <1>1, <1>8, Performs
    <3>2. L.code[k] \in Instruction
      BY <1>1, <3>1, TestFacts, Codes DEF L
    <3> QED BY <3>1, <3>2 DEF Instruction
  <2>5. CASE so = s /\ wo = w /\ c.op = "store"
    <3> HIDE DEF c, s, w, me, so, wo
    <3>1. memory'[so][wo] = c.val
      BY <1>3, <2>3, <2>5
    <3>2. memory'[so][wo] # 0
      BY <1>2, <2>5, <3>1
    <3> QED BY <3>2 DEF so, wo
  <2>6. CASE ~(so = s /\ wo = w /\ c.op = "store")
    <3>1. d \in performed[j]
      <4>1. d = k /\ j = i => so = s /\ wo = w /\ c.op = "store"
        BY <1>8 DEF Place
      <4> QED BY <2>1, <2>6, <4>1
    <3>2. memory[so][wo] # 0
      BY <1>1, <1>8, <3>1 DEF StoresAreKept
    <3>3. memory'[so][wo] = memory[so][wo]
      <4> HIDE DEF c, s, w, me, so, wo
      <4> QED BY <1>3, <2>3, <2>4, <2>6
    <3> QED BY <3>2, <3>3
  <2> QED BY <2>5, <2>6
<1>9. StoresAreKept'
  <2>1. Tearable(n)' = Tearable(n)
    BY <1>1 DEF Tearable
  <2> QED BY <1>1, <1>8, TestStays DEF StoresAreKept
<1> QED BY <1>7, <1>9 DEF Bounded

LEMMA NextBounded == Sound /\ Bounded /\ [Next]_vars => Bounded'
<1> SUFFICES ASSUME Sound, Bounded, [Next]_vars PROVE Bounded'
  OBVIOUS
<1>0. TypeOK /\ test \in Suite
  BY DEF Sound, TypeOK
<1>1. CASE SetUp
  BY <1>0, <1>1, SetUpBounded
<1>2. ASSUME test' = test, gpu' = gpu, performed' = performed, results' = results,
             \A o \in Invocations : memory'[Space(o[1])] = memory[Space(o[1])]
      PROVE  Bounded'
  <2>1. ValuesAreStored'
    BY <1>2, TestStays DEF Bounded, ValuesAreStored
  <2>2. StoresAreKept'
    BY <1>2, TestStays DEF Bounded, StoresAreKept
  <2> QED BY <2>1, <2>2 DEF Bounded
<1>3. CASE ResultPass \/ Check \/ UNCHANGED vars
  BY <1>2, <1>3 DEF ResultPass, Check, vars, gpuVars
<1>4. CASE \E p \in 0 .. num - 1 : Dispatch(p)
  BY <1>2, <1>4 DEF Dispatch
<1>5. CASE \E i \in Invocations : EnterBarrier(i) \/ Spin(i)
  BY <1>2, <1>5 DEF EnterBarrier, Spin
<1>6. ASSUME NEW i \in Invocations, End(i) PROVE Bounded'
  <2>1. test' = test /\ gpu' = gpu /\ performed' = performed /\ results' = results
    BY <1>6 DEF End
  <2>2. ASSUME NEW o \in Invocations PROVE memory'[Space(o[1])] = memory[Space(o[1])]
    <3>1. CopiesBack => Space(o[1]) \in Spaces \ {-1}
      <4>1. o[1] \in Workgroups /\ Space(o[1]) \in Spaces
        BY <1>0, Invocation, CellRange DEF Workgroups
      <4> QED BY <1>0, <4>1, BackFacts
    <3> QED BY <1>0, <1>6, <3>1, EndEffect
  <2> QED BY <1>2, <2>1, <2>2
<1>7. ASSUME NEW i \in Invocations, NEW k \in Accesses, Perform(i, k) PROVE Bounded'
  BY <1>0, <1>7, PerformBounded
<1> QED BY <1>1, <1>3, <1>4, <1>5, <1>6, <1>7 DEF Next, Done

-----------------------------------------------------------------------------
(* Where everything is counted, the disallowed behaviour is noticed. *)

LEMMA ObservedIsCounted ==
  ASSUME Sound, Bounded, pc = "test", TestPassOver, test.name \in CountedInFull, NEW k \in Instances
  PROVE  \E e \in DOMAIN L.counted : L.counted[e] = Observed(k)
<1> DEFINE n == test.name
<1>1. /\ test \in Suite /\ gpu \in Gpus /\ n \in DOMAIN Litmuses /\ L = Litmuses[n]
      /\ TypeOK /\ EveryoneIsShuffled /\ CopiesAreTrue /\ ValuesAreStored /\ StoresAreKept
  BY TestFacts DEF Sound, TypeOK, L, Bounded
<1>2. PICK o \in Invocations : Instance(o, 0) = k
  BY <1>1, SomeInvocation
<1> DEFINE al == Params.aliased
           x == memory[Space(o[1])][Word(o, 0, "x")]
           y == IF al THEN 0 ELSE memory[Space(o[1])][Word(o, 0, "y")]
           a == results[k].r0
           b == results[k].r1
<1>3. LeftBy(o) = State(x, y, a, b)
  BY <1>2 DEF LeftBy
<1>4. Observed(k) = Seen(n, LeftBy(o))
  BY <1>1, <1>2, Observes
<1>5. /\ x \in Stored(n, "x") /\ a \in Loaded(n, "r0") /\ b \in Loaded(n, "r1")
      /\ y \in Stored(n, "y")
  <2>1. 0 \in Stored(n, "y")
    BY DEF Stored
  <2> QED BY <1>1, <2>1 DEF ValuesAreStored
<1>6. ASSUME ~Tearable(n), NEW c \in Ops(n), L.code[c].op = "store"
      PROVE  /\ Where(n, L.code[c].at) = "x" => x # 0
             /\ Where(n, L.code[c].at) = "y" => y # 0
  <2>1. Program = L.code /\ Accesses = Ops(n)
    BY <1>1, <1>6, Performs
  <2> DEFINE r == L.code[c].role
             at == L.code[c].at
  <2>2. r \in {0, 1} /\ at \in {"x", "y"}
    BY <1>1, <1>6, Codes DEF Proper
  <2>3. PICK i \in Invocations : Instance(i, r) = k
    BY <1>1, <2>2, SomeInvocation
  <2>4. c \in performed[i]
    BY <1>1, <2>1, <2>3, AllEnd
  <2>5. memory[Space(i[1])][Word(i, r, at)] # 0
    BY <1>1, <1>6, <2>1, <2>4 DEF StoresAreKept
  <2> HIDE DEF r, at
  <2>6. ASSUME NEW f \in {"x", "y"}, f = at \/ al
        PROVE  memory[Space(o[1])][Word(o, 0, f)] # 0
    <3>1. Cell(o, 0, f) = Cell(i, r, at)
      BY <1>1, <1>2, <2>2, <2>3, <2>6, CellsMeet
    <3> QED BY <2>5, <3>1 DEF Cell
  <2>7. Where(n, at) = (IF al THEN "x" ELSE at)
    BY DEF Where, Params
  <2>8. Where(n, at) = "x" => x # 0
    BY <2>2, <2>6, <2>7
  <2>9. Where(n, at) = "y" => y # 0
    BY <2>2, <2>6, <2>7
  <2> QED BY <2>8, <2>9 DEF at
<1>7. Possible(n, x, y, a, b)
  <2> HIDE DEF x, y, a, b, n
  <2> QED BY <1>1, <1>5, <1>6 DEF Possible
<1>8. Covers(n)
  BY EveryoneCovers
<1> HIDE DEF x, y, a, b, n
<1> QED BY <1>1, <1>3, <1>4, <1>7, <1>8 DEF Covers

StrangenessIsNoticed ==
  strange /\ test.name \notin {"cowr", "corw2", "atomicity"} =>
    (pc = "check" /\ counts[L.weak] > 0) \/ verdict = "fail"

LEMMA NextNoticed == Sound /\ Bounded /\ StrangenessIsNoticed /\ [Next]_vars => StrangenessIsNoticed'
<1> SUFFICES ASSUME Sound, Bounded, StrangenessIsNoticed, [Next]_vars PROVE StrangenessIsNoticed'
  OBVIOUS
<1>0. /\ test \in Suite /\ test.name \in DOMAIN Litmuses /\ (verdict = "fail" => pc = "done")
  BY TestFacts DEF Sound, TypeOK, CountsAreFresh
<1>1. CASE ResultPass
  <2> DEFINE n == test.name
  <2>1. /\ test' = test /\ L' = L /\ pc = "test" /\ TestPassOver /\ pc' = "check" /\ verdict' = verdict
        /\ strange' = (strange \/ \E k \in Instances : Observed(k) \notin Interleavings[n])
    BY <1>1, TestStays DEF ResultPass
  <2>2. SUFFICES ASSUME strange', n \notin {"cowr", "corw2", "atomicity"} PROVE counts'[L.weak] > 0
    BY <2>1 DEF StrangenessIsNoticed
  <2>3. n \in CountedInFull
    BY <1>0, <2>2, NamesOfTests DEF CountedInFull
  <2>4. ~strange
    BY <1>0, <2>1, <2>2 DEF StrangenessIsNoticed
  <2>5. PICK k \in Instances : Observed(k) \notin Interleavings[n]
    BY <2>1, <2>2, <2>4
  <2>6. PICK e \in DOMAIN L.counted : L.counted[e] = Observed(k)
    BY <2>1, <2>3, ObservedIsCounted
  <2>7. e = L.weak
    BY <1>0, <2>3, <2>5, <2>6, EveryTestJudges DEF L
  <2> QED BY <1>1, <2>6, <2>7, CountsShow
<1>2. CASE Check
  BY <1>0, <1>2 DEF Check, StrangenessIsNoticed
<1>3. CASE UNCHANGED vars
  BY <1>3, TestStays DEF vars, gpuVars, StrangenessIsNoticed
<1>4. pc # "check" /\ test' = test /\ verdict' = verdict /\ strange' = strange => StrangenessIsNoticed'
  BY DEF StrangenessIsNoticed
<1>5. CASE SetUp
  BY <1>4, <1>5 DEF SetUp
<1>6. CASE \E p \in 0 .. num - 1 : Dispatch(p)
  BY <1>4, <1>6 DEF Dispatch
<1>7. CASE \E i \in Invocations : EnterBarrier(i) \/ Spin(i) \/ End(i)
  BY <1>4, <1>7 DEF EnterBarrier, Spin, End
<1>8. CASE \E i \in Invocations, k \in Accesses : Perform(i, k)
  BY <1>4, <1>8 DEF Perform
<1> QED BY <1>1, <1>2, <1>3, <1>5, <1>6, <1>7, <1>8 DEF Next, Done

-----------------------------------------------------------------------------
(* The theorems. *)

IInv ==
  /\ Sound /\ Bounded
  /\ FailuresAreEarned /\ StrangenessIsNoticed /\ NoneIsStrange /\ EveryInstanceIsCounted

(* The inductive invariant: from the start, and over every step of the host *)
(* (run() in memory_model_setup.h) and of the GPU.                          *)
THEOREM InvariantHolds == Spec => []IInv
<1>1. Init => IInv
  <2> SUFFICES ASSUME Init PROVE IInv
    OBVIOUS
  <2>1. Sound
    BY InitSound
  <2>2. Bounded
    <3>1. /\ \A i \in Invocations : performed[i] = {}
          /\ memory = Zero /\ results = [k \in Instances |-> [r0 |-> 0, r1 |-> 0]]
      BY DEF Init
    <3> QED BY <2>1, <3>1, StartsBounded DEF Sound
  <2>3. pc = "host" /\ verdict = "running" /\ strange = FALSE
    BY DEF Init
  <2>4. FailuresAreEarned /\ StrangenessIsNoticed /\ NoneIsStrange /\ EveryInstanceIsCounted
    BY <2>3 DEF FailuresAreEarned, StrangenessIsNoticed, NoneIsStrange, EveryInstanceIsCounted
  <2> QED BY <2>1, <2>2, <2>4 DEF IInv
<1>2. IInv /\ [Next]_vars => IInv'
  BY NextSound, NextBounded, NextEarned, NextNoticed, NextConforms, NextCounted DEF IInv
<1> QED BY <1>1, <1>2, PTL DEF Spec

(* The words, registers and counters the shaders and the host address are   *)
(* the ones their buffers have, for every dispatch and every pairing of     *)
(* the invocations.                                                         *)
THEOREM TypeCorrect == Spec => []TypeOK
<1>1. IInv => TypeOK
  BY DEF IInv, Sound
<1> QED BY <1>1, InvariantHolds, PTL

(* On a GPU that does only what WGSL allows, each instance is at every      *)
(* moment where some interleaving of its two roles would be: no other       *)
(* instance touches its words or registers (the id arithmetic of            *)
(* permute_id, stripe_workgroup and the strides keeps them apart).          *)
THEOREM InstancesInterleave == Spec => []Interleaved
<1>1. IInv => Interleaved
  BY DEF IInv, Sound
<1> QED BY <1>1, InvariantHolds, PTL

(* A GPU that only does what WGSL allows never makes a test fail: the       *)
(* disallowed counter that checkWeakIndex reads stays zero.                 *)
THEOREM ConformingGpusPass == Spec => []NoFalseAlarm
<1>1. IInv => NoFalseAlarm
  BY DEF IInv, NoFalseAlarm, NoneIsStrange, FailuresAreEarned
<1> QED BY <1>1, InvariantHolds, PTL

(* Whatever the GPU does, checkWeakIndex fails a test only for a behaviour  *)
(* no interleaving shows, and but for three tests passes one only without.  *)
THEOREM VerdictsCorrect == Spec => []VerdictsAreExact
<1>1. IInv => VerdictsAreExact
  <2> SUFFICES ASSUME IInv PROVE VerdictsAreExact
    OBVIOUS
  <2>1. verdict # "running" => pc = "done"
    BY DEF IInv, Sound, CountsAreFresh
  <2> QED BY <2>1 DEF IInv, VerdictsAreExact, FailuresAreEarned, StrangenessIsNoticed
<1> QED BY <1>1, InvariantHolds, PTL

(* The counters the result shader fills account for every instance exactly  *)
(* once, and nothing of an earlier iteration is left in them.               *)
THEOREM CountsCorrect == Spec => []EveryInstanceIsCounted
<1>1. IInv => EveryInstanceIsCounted
  BY DEF IInv
<1> QED BY <1>1, InvariantHolds, PTL
=============================================================================
