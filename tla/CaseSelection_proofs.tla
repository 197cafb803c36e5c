------------------------- MODULE CaseSelection_proofs -------------------------
(***************************************************************************)
(* That selecting cases is a filter, that sampling drops only what it says, *)
(* and that a child process selects what its parent meant.                 *)
(*                                                                         *)
(* All three compare sequences that different loops build.  A selection is *)
(* therefore first shown to be read off a rising enumeration of positions, *)
(* and two rising enumerations of one set are equal.                       *)
(***************************************************************************)
EXTENDS CaseSelection, FiniteSetTheorems, WellFoundedInduction, TLAPS

-----------------------------------------------------------------------------
(* Induction, for sets. *)

LEMMA Least ==
  ASSUME NEW T \in SUBSET Nat, T # {}
  PROVE  \E x \in T : \A y \in T : x <= y
<1>1. PICK x \in T : \A y \in T : ~(<<y, x>> \in OpToRel(<, Nat))
  BY NatLessThanWellFounded, WFMin, Zenon
<1>2. ASSUME NEW y \in T, y < x PROVE FALSE
  <2>1. <<y, x>> \in Nat \X Nat
    OBVIOUS
  <2>2. <<y, x>>[1] < <<y, x>>[2]
    BY <1>2
  <2>3. <<y, x>> \in {ss \in Nat \X Nat : ss[1] < ss[2]}
    BY <2>1, <2>2, Zenon
  <2> QED BY <1>1, <2>3, Zenon DEF OpToRel
<1>3. x \in Nat /\ \A y \in T : y \in Nat
  OBVIOUS
<1> QED BY <1>2, <1>3

LEMMA Induction ==
  ASSUME NEW A, 0 \in A, \A n \in Nat : n \in A => n + 1 \in A
  PROVE  \A n \in Nat : n \in A
<1> SUFFICES ASSUME Nat \ A # {} PROVE FALSE
  OBVIOUS
<1>1. PICK x \in Nat \ A : \A y \in Nat \ A : x <= y
  BY Least
<1>2. x # 0 /\ x - 1 \in Nat
  BY <1>1
<1>3. x - 1 \in A
  BY <1>1, <1>2
<1> QED BY <1>1, <1>2, <1>3

-----------------------------------------------------------------------------
(* Sequences. *)

LEMMA SequenceFacts ==
  ASSUME NEW s, Sequential(s)
  PROVE  Len(s) \in Nat /\ DOMAIN s = 1 .. Len(s) /\ s = [i \in 1 .. Len(s) |-> s[i]]
BY DEF Sequential

LEMMA SequenceMade ==
  ASSUME NEW n \in Nat, NEW s, s = [i \in 1 .. n |-> s[i]]
  PROVE  Sequential(s) /\ Len(s) = n
<1>1. DOMAIN s = 1 .. n /\ \A i \in 1 .. n : s[i] \in ToSet(s)
  BY DEF ToSet
<1>2. s \in [1 .. n -> ToSet(s)]
  BY <1>1
<1> QED BY <1>2 DEF Sequential

LEMMA SequenceEqual ==
  ASSUME NEW s, NEW t, Sequential(s), Sequential(t), Len(s) = Len(t),
         \A i \in 1 .. Len(s) : s[i] = t[i]
  PROVE  s = t
BY SequenceFacts

LEMMA Concatenation ==
  ASSUME NEW s, NEW t, Sequential(s), Sequential(t)
  PROVE  /\ Sequential(s \o t) /\ Len(s \o t) = Len(s) + Len(t)
         /\ \A i \in 1 .. Len(s) : (s \o t)[i] = s[i]
         /\ \A i \in 1 .. Len(t) : (s \o t)[Len(s) + i] = t[i]
<1> DEFINE U == ToSet(s) \cup ToSet(t)
<1>1. s \in Seq(U) /\ t \in Seq(U)
  BY DEF Sequential
<1>2. s \o t \in Seq(U) /\ Len(s \o t) = Len(s) + Len(t)
         /\ (\A i \in 1 .. Len(s) : (s \o t)[i] = s[i])
         /\ (\A i \in 1 .. Len(t) : (s \o t)[Len(s) + i] = t[i])
  <2> HIDE DEF U
  <2> QED BY <1>1
<1> DEFINE r == s \o t
<1>3. r \in Seq(U)
  BY <1>2
<1>4. Sequential(r)
  <2> HIDE DEF U, r
  <2>1. Len(r) \in Nat /\ r = [i \in 1 .. Len(r) |-> r[i]]
    BY <1>3
  <2> QED BY <2>1, SequenceMade
<1> QED BY <1>2, <1>4

-----------------------------------------------------------------------------
(* A selection is read off a rising enumeration of its positions. *)

UpTo(f, s, n, positions) ==
  f = [i \in 0 .. n |-> IF i = 0 THEN <<>>
                        ELSE IF i \in positions THEN Append(f[i - 1], s[i]) ELSE f[i - 1]]

LEMMA UpToExists ==
  ASSUME NEW s, NEW I
  PROVE  \A n \in Nat : \E f : UpTo(f, s, n, I)
<1> DEFINE A == {n \in Nat : \E f : UpTo(f, s, n, I)}
<1>1. 0 \in A
  <2> DEFINE f == [i \in 0 .. 0 |-> <<>>]
  <2>1. UpTo(f, s, 0, I)
    BY DEF UpTo
  <2> QED BY <2>1
<1>2. ASSUME NEW n \in Nat, n \in A PROVE n + 1 \in A
  <2>1. PICK f : UpTo(f, s, n, I)
    BY <1>2
  <2> DEFINE next == IF n + 1 \in I THEN Append(f[n], s[n + 1]) ELSE f[n]
             g == [i \in 0 .. n + 1 |-> IF i = n + 1 THEN next ELSE f[i]]
             h == [i \in 0 .. n + 1 |-> IF i = 0 THEN <<>>
                     ELSE IF i \in I THEN Append(g[i - 1], s[i]) ELSE g[i - 1]]
  <2>2. ASSUME NEW i \in 0 .. n + 1 PROVE g[i] = h[i]
    <3>1. CASE i = n + 1
      <4>1. g[i] = next /\ g[i - 1] = f[n] /\ i # 0
        BY <3>1
      <4> QED BY <4>1, <3>1
    <3>2. CASE i # n + 1
      <4>1. i \in 0 .. n /\ g[i] = f[i]
        BY <3>2
      <4>2. f[i] = IF i = 0 THEN <<>> ELSE IF i \in I THEN Append(f[i - 1], s[i]) ELSE f[i - 1]
        BY <2>1, <4>1 DEF UpTo
      <4>3. i # 0 => g[i - 1] = f[i - 1]
        BY <4>1
      <4> QED BY <4>1, <4>2, <4>3
    <3> QED BY <3>1, <3>2
  <2>3. g = h
    <3>1. g = [i \in 0 .. n + 1 |-> g[i]] /\ h = [i \in 0 .. n + 1 |-> h[i]]
      OBVIOUS
    <3> HIDE DEF g, h
    <3> QED BY <3>1, <2>2
  <2>4. UpTo(g, s, n + 1, I)
    <3> HIDE DEF g
    <3> QED BY <2>3, Zenon DEF UpTo
  <2> HIDE DEF g, h, next
  <2> QED BY <2>4
<1>3. \A n \in Nat : n \in A
  <2> HIDE DEF A
  <2> QED BY <1>1, <1>2, Induction
<1> QED BY <1>3

LEMMA SelectUpTo ==
  ASSUME NEW s, NEW I, Sequential(s)
  PROVE  \E f : UpTo(f, s, Len(s), I) /\ Select(s, I) = f[Len(s)]
<1>1. Len(s) \in Nat
  BY SequenceFacts
<1>2. \E f : UpTo(f, s, Len(s), I)
  BY <1>1, UpToExists, Zenon
<1> DEFINE F == CHOOSE f : UpTo(f, s, Len(s), I)
<1>3. UpTo(F, s, Len(s), I)
  BY <1>2, Zenon
<1>4. Select(s, I) = F[Len(s)]
  BY Zenon DEF Select, UpTo
<1> QED BY <1>3, <1>4, Zenon

(* g lists the numbers of J in their order. *)
Rises(g) == \A i, j \in 1 .. Len(g) : i < j => g[i] < g[j]

Lists(g, J) ==
  /\ g \in Seq(J) /\ Rises(g)
  /\ \A k \in J : \E i \in 1 .. Len(g) : g[i] = k

LEMMA ListsNothing ==
  Lists(<<>>, {})
BY DEF Lists, Rises

LEMMA ListsMore ==
  ASSUME NEW n \in Nat, NEW J, J \subseteq 1 .. n, NEW g, Lists(g, J)
  PROVE  Lists(Append(g, n + 1), J \cup {n + 1})
<1>1. g \in Seq(J) /\ Len(g) \in Nat
  BY DEF Lists
<1> DEFINE h == Append(g, n + 1)
           K == J \cup {n + 1}
<1>2. h \in Seq(K) /\ Len(h) = Len(g) + 1 /\ h[Len(g) + 1] = n + 1 /\ \A i \in 1 .. Len(g) : h[i] = g[i]
  BY <1>1
<1>3. Rises(h)
  <2> SUFFICES ASSUME NEW i \in 1 .. Len(h), NEW j \in 1 .. Len(h), i < j PROVE h[i] < h[j]
    BY DEF Rises
  <2>0. i \in 1 .. Len(g) /\ h[i] = g[i]
    BY <1>1, <1>2
  <2>1. i \in 1 .. Len(g) /\ h[i] = g[i] /\ g[i] \in 1 .. n
    <3>1. g[i] \in J
      BY <2>0, <1>1
    <3> QED BY <2>0, <3>1
  <2>2. CASE j = Len(g) + 1
    BY <2>1, <2>2, <1>2
  <2>3. CASE j # Len(g) + 1
    <3>1. j \in 1 .. Len(g) /\ h[j] = g[j]
      BY <1>1, <1>2, <2>3
    <3> QED BY <3>1, <2>1 DEF Lists, Rises
  <2> QED BY <2>2, <2>3
<1>4. ASSUME NEW k \in K PROVE \E i \in 1 .. Len(h) : h[i] = k
  <2>1. CASE k = n + 1
    BY <2>1, <1>1, <1>2
  <2>2. CASE k # n + 1
    <3>1. PICK i \in 1 .. Len(g) : g[i] = k
      BY <2>2 DEF Lists
    <3> QED BY <3>1, <1>1, <1>2
  <2> QED BY <2>1, <2>2
<1> QED BY <1>2, <1>3, <1>4 DEF Lists

Read(s, g) == [j \in 1 .. Len(g) |-> s[g[j]]]

LEMMA ReadMore ==
  ASSUME NEW J, NEW g \in Seq(J), NEW s, NEW k
  PROVE  Append(Read(s, g), s[k]) = Read(s, Append(g, k))
<1> DEFINE h == Append(g, k)
           r == Read(s, g)
           l == Len(g)
<1>1. l \in Nat /\ Len(h) = l + 1 /\ h[l + 1] = k /\ \A i \in 1 .. l : h[i] = g[i]
  OBVIOUS
<1>2. r = [j \in 1 .. l |-> r[j]] /\ \A j \in 1 .. l : r[j] = s[g[j]]
  BY DEF Read
<1>3. Sequential(r) /\ Len(r) = l
  <2> HIDE DEF r, l, h
  <2> QED BY <1>1, <1>2, SequenceMade
<1>4. Read(s, h) = [j \in 1 .. l + 1 |-> s[h[j]]]
  <2> HIDE DEF r, l, h
  <2> QED BY <1>1 DEF Read
<1>5. Append(r, s[k]) = [j \in 1 .. l + 1 |-> IF j = l + 1 THEN s[k] ELSE r[j]]
  <2> HIDE DEF l, h, r
  <2> QED BY <1>3, <1>1 DEF Sequential
<1> HIDE DEF r, l, h
<1>6. ASSUME NEW j \in 1 .. l + 1 PROVE s[h[j]] = IF j = l + 1 THEN s[k] ELSE r[j]
  BY <1>1, <1>2
<1>7. Append(r, s[k]) = Read(s, h)
  BY <1>4, <1>5, <1>6
<1> QED BY <1>7 DEF r, h

LEMMA SelectLists ==
  ASSUME NEW s, NEW I, Sequential(s)
  PROVE  \E g : Lists(g, I \cap (1 .. Len(s))) /\ Select(s, I) = Read(s, g)
<1>0. Len(s) \in Nat
  BY SequenceFacts
<1>1. PICK f : UpTo(f, s, Len(s), I) /\ Select(s, I) = f[Len(s)]
  BY SelectUpTo
<1> DEFINE Good(n) == n <= Len(s) => \E g : Lists(g, I \cap (1 .. n)) /\ f[n] = Read(s, g)
           A == {n \in Nat : Good(n)}
<1>2. 0 \in A
  <2>1. f[0] = <<>>
    BY <1>0, <1>1 DEF UpTo
  <2>2. I \cap (1 .. 0) = {}
    OBVIOUS
  <2>3. Read(s, <<>>) = <<>>
    BY DEF Read
  <2>4. Good(0)
    BY <2>1, <2>2, <2>3, ListsNothing
  <2> HIDE DEF Good
  <2> QED BY <2>4
<1>3. ASSUME NEW n \in Nat, Good(n) PROVE Good(n + 1)
  <2> SUFFICES ASSUME n + 1 <= Len(s)
               PROVE  \E g : Lists(g, I \cap (1 .. n + 1)) /\ f[n + 1] = Read(s, g)
    OBVIOUS
  <2>0. n <= Len(s) /\ n + 1 \in 0 .. Len(s) /\ n + 1 # 0 /\ (n + 1) - 1 = n
    BY <1>0
  <2>1. PICK g : Lists(g, I \cap (1 .. n)) /\ f[n] = Read(s, g)
    BY <1>3, <2>0
  <2>2. f[n + 1] = IF n + 1 \in I THEN Append(f[n], s[n + 1]) ELSE f[n]
    BY <1>1, <2>0 DEF UpTo
  <2>3. CASE n + 1 \in I
    <3>1. I \cap (1 .. n + 1) = (I \cap (1 .. n)) \cup {n + 1}
      BY <2>3
    <3>2. Lists(Append(g, n + 1), I \cap (1 .. n + 1))
      BY <3>1, <2>1, ListsMore
    <3>3. Append(Read(s, g), s[n + 1]) = Read(s, Append(g, n + 1))
      BY <2>1, ReadMore DEF Lists
    <3> QED BY <2>1, <2>2, <2>3, <3>2, <3>3, Zenon
  <2>4. CASE n + 1 \notin I
    <3>1. I \cap (1 .. n + 1) = I \cap (1 .. n)
      BY <2>4
    <3> QED BY <2>1, <2>2, <2>4, <3>1
  <2> QED BY <2>3, <2>4
<1>4. \A n \in Nat : n \in A
  <2> HIDE DEF Good
  <2>1. \A n \in Nat : n \in A => n + 1 \in A
    BY <1>3
  <2> HIDE DEF A
  <2> QED BY <1>2, <2>1, Induction
<1>5. Good(Len(s))
  <2> HIDE DEF Good
  <2> QED BY <1>0, <1>4
<1>6. PICK g : Lists(g, I \cap (1 .. Len(s))) /\ f[Len(s)] = Read(s, g)
  <2>1. Len(s) <= Len(s)
    BY <1>0
  <2> QED BY <2>1, <1>5, Zenon
<1> QED BY <1>1, <1>6, Zenon

LEMMA ListsUnique ==
  ASSUME NEW J, J \subseteq Nat, NEW g, NEW h, Lists(g, J), Lists(h, J)
  PROVE  g = h
<1>1. /\ g \in Seq(J) /\ Len(g) \in Nat /\ g = [i \in 1 .. Len(g) |-> g[i]]
      /\ h \in Seq(J) /\ Len(h) \in Nat /\ h = [i \in 1 .. Len(h) |-> h[i]]
  BY DEF Lists
<1>2. /\ \A i \in 1 .. Len(g) : g[i] \in Nat /\ g[i] \in J
      /\ \A i \in 1 .. Len(h) : h[i] \in Nat /\ h[i] \in J
  BY <1>1
<1>3. \A i \in 1 .. Len(g) : i \in 1 .. Len(h) => g[i] = h[i]
  <2> DEFINE T == {i \in 1 .. Len(g) : i \in 1 .. Len(h) /\ g[i] # h[i]}
  <2> SUFFICES ASSUME T # {} PROVE FALSE
    OBVIOUS
  <2>1. PICK n \in T : \A y \in T : n <= y
    <3>1. T \in SUBSET Nat
      BY <1>1
    <3> HIDE DEF T
    <3> QED BY <3>1, Least
  <2>2. n \in 1 .. Len(g) /\ n \in 1 .. Len(h) /\ g[n] # h[n]
    OBVIOUS
  <2>3. \A j \in 1 .. n - 1 : g[j] = h[j]
    BY <1>1, <2>1, <2>2
  <2> HIDE DEF T
  <2>4. CASE g[n] < h[n]
    <3>1. PICK j \in 1 .. Len(h) : h[j] = g[n]
      BY <1>2, <2>2 DEF Lists
    <3>2. CASE j < n
      <4>0. j \in 1 .. n - 1 /\ j \in 1 .. Len(g)
        BY <3>2, <2>2
      <4>1. g[j] = g[n] /\ j \in 1 .. Len(g)
        BY <4>0, <3>1, <2>3, Zenon
      <4>2. g[j] < g[n]
        BY <4>1, <3>2, <2>2 DEF Lists, Rises
      <4> QED BY <4>1, <4>2, <1>2, <2>2
    <3>3. CASE j = n
      BY <3>1, <3>3, <2>2
    <3>4. CASE j > n
      <4>1. h[n] < h[j]
        BY <3>1, <3>4, <2>2 DEF Lists, Rises
      <4> QED BY <4>1, <3>1, <2>4, <1>2, <2>2
    <3> QED BY <3>1, <3>2, <3>3, <3>4, <2>2, <1>1
  <2>5. CASE h[n] < g[n]
    <3>1. PICK j \in 1 .. Len(g) : g[j] = h[n]
      BY <1>2, <2>2 DEF Lists
    <3>2. CASE j < n
      <4>0. j \in 1 .. n - 1 /\ j \in 1 .. Len(h)
        BY <3>1, <3>2, <2>2, <1>1
      <4>1. h[j] = h[n] /\ j \in 1 .. Len(h)
        BY <3>1, <4>0, <2>3
      <4>2. h[j] < h[n]
        BY <4>1, <3>2, <2>2 DEF Lists, Rises
      <4> QED BY <4>1, <4>2, <1>2, <2>2
    <3>3. CASE j = n
      BY <3>1, <3>3, <2>2
    <3>4. CASE j > n
      <4>1. g[n] < g[j]
        BY <3>1, <3>4, <2>2 DEF Lists, Rises
      <4> QED BY <4>1, <3>1, <2>5, <1>2, <2>2
    <3> QED BY <3>1, <3>2, <3>3, <3>4, <2>2, <1>1
  <2> QED BY <2>4, <2>5, <2>2, <1>2
<1>4. ~(Len(g) < Len(h))
  <2> SUFFICES ASSUME Len(g) < Len(h) PROVE FALSE
    OBVIOUS
  <2>1. Len(g) + 1 \in 1 .. Len(h)
    BY <1>1
  <2>2. PICK j \in 1 .. Len(g) : g[j] = h[Len(g) + 1]
    BY <1>2, <2>1 DEF Lists
  <2>3. j \in 1 .. Len(h) /\ h[j] = h[Len(g) + 1] /\ j < Len(g) + 1
    BY <1>1, <1>3, <2>2
  <2>4. h[j] < h[Len(g) + 1]
    BY <2>1, <2>3 DEF Lists, Rises
  <2> QED BY <2>1, <2>3, <2>4, <1>2
<1>5. ~(Len(h) < Len(g))
  <2> SUFFICES ASSUME Len(h) < Len(g) PROVE FALSE
    OBVIOUS
  <2>1. Len(h) + 1 \in 1 .. Len(g)
    BY <1>1
  <2>2. PICK j \in 1 .. Len(h) : h[j] = g[Len(h) + 1]
    BY <1>2, <2>1 DEF Lists
  <2>3. j \in 1 .. Len(g) /\ g[j] = g[Len(h) + 1] /\ j < Len(h) + 1
    BY <1>1, <1>3, <2>2
  <2>4. g[j] < g[Len(h) + 1]
    BY <2>1, <2>3 DEF Lists, Rises
  <2> QED BY <2>1, <2>3, <2>4, <1>2
<1>6. Len(g) = Len(h)
  <2> DEFINE k == Len(g)
             l == Len(h)
  <2>1. k \in Nat /\ l \in Nat /\ ~(k < l) /\ ~(l < k)
    BY <1>1, <1>4, <1>5
  <2> HIDE DEF k, l
  <2>2. k = l
    BY <2>1
  <2> QED BY <2>2 DEF k, l
<1> QED BY <1>1, <1>3, <1>6

LEMMA SelectRead ==
  ASSUME NEW s, NEW I, Sequential(s), NEW g, Lists(g, I \cap (1 .. Len(s)))
  PROVE  Select(s, I) = Read(s, g)
<1>1. PICK h : Lists(h, I \cap (1 .. Len(s))) /\ Select(s, I) = Read(s, h)
  BY SelectLists
<1>2. I \cap (1 .. Len(s)) \subseteq Nat
  BY SequenceFacts
<1>3. g = h
  BY <1>1, <1>2, ListsUnique
<1> QED BY <1>1, <1>3

LEMMA ReadFacts ==
  ASSUME NEW s, NEW J, NEW g \in Seq(J)
  PROVE  /\ Sequential(Read(s, g)) /\ Len(Read(s, g)) = Len(g) /\ Len(g) \in Nat
         /\ \A j \in 1 .. Len(g) : Read(s, g)[j] = s[g[j]]
<1> DEFINE r == Read(s, g)
<1>1. r = [j \in 1 .. Len(g) |-> r[j]] /\ \A j \in 1 .. Len(g) : r[j] = s[g[j]]
  BY DEF Read
<1>2. Len(g) \in Nat
  OBVIOUS
<1>3. Sequential(r) /\ Len(r) = Len(g)
  <2> HIDE DEF r
  <2> QED BY <1>1, <1>2, SequenceMade
<1> QED BY <1>1, <1>2, <1>3

LEMMA SelectSequential ==
  ASSUME NEW s, NEW I, Sequential(s)
  PROVE  Sequential(Select(s, I))
BY SelectLists, ReadFacts DEF Lists

Shifted(m, K) == {m + k : k \in K}
Joined(m, g, h) == [i \in 1 .. Len(g) + Len(h) |-> IF i <= Len(g) THEN g[i] ELSE m + h[i - Len(g)]]

LEMMA ListsJoin ==
  ASSUME NEW m \in Nat, NEW n \in Nat, NEW J, NEW K, NEW g, NEW h,
         J \subseteq 1 .. m, K \subseteq 1 .. n, Lists(g, J), Lists(h, K)
  PROVE  Lists(Joined(m, g, h), J \cup Shifted(m, K))
<1> DEFINE a == Len(g)
           b == Len(h)
           j == [i \in 1 .. a + b |-> IF i <= a THEN g[i] ELSE m + h[i - a]]
           M == J \cup {m + k : k \in K}
<1>1. a \in Nat /\ b \in Nat
  BY DEF Lists
<1>2. /\ \A i \in 1 .. a : g[i] \in J /\ g[i] \in 1 .. m
      /\ \A i \in 1 .. b : h[i] \in K /\ h[i] \in 1 .. n
  <2>1. g \in Seq(J) /\ h \in Seq(K)
    BY DEF Lists
  <2>2. (\A i \in 1 .. a : g[i] \in J) /\ \A i \in 1 .. b : h[i] \in K
    BY <2>1
  <2> QED BY <2>2
<1>3. /\ \A i, k \in 1 .. a : i < k => g[i] < g[k]
      /\ \A i, k \in 1 .. b : i < k => h[i] < h[k]
  BY DEF Lists, Rises
<1>4. /\ \A k \in J : \E i \in 1 .. a : g[i] = k
      /\ \A k \in K : \E i \in 1 .. b : h[i] = k
  BY DEF Lists
<1> HIDE DEF a, b
<1>5. /\ \A i \in 1 .. a : i \in 1 .. a + b /\ j[i] = g[i]
      /\ \A i \in 1 .. b : a + i \in 1 .. a + b /\ j[a + i] = m + h[i]
  BY <1>1
<1>6. \A i \in 1 .. a + b : i \in 1 .. a \/ (i - a \in 1 .. b /\ a + (i - a) = i)
  BY <1>1
<1>7. \A i \in 1 .. a + b : j[i] \in M
  <2> TAKE i \in 1 .. a + b
  <2>1. CASE i \in 1 .. a
    BY <2>1, <1>2, <1>5
  <2>2. CASE i - a \in 1 .. b /\ a + (i - a) = i
    <3>1. j[i] = m + h[i - a] /\ h[i - a] \in K
      BY <2>2, <1>2, <1>5
    <3> HIDE DEF j
    <3> QED BY <3>1
  <2> QED BY <2>1, <2>2, <1>6
<1>8. j \in [1 .. a + b -> M]
  <2>1. j = [i \in 1 .. a + b |-> j[i]]
    OBVIOUS
  <2> HIDE DEF j, M
  <2> QED BY <1>7, <2>1
<1> HIDE DEF j
<1>9. j \in Seq(M) /\ Len(j) = a + b
  <2> HIDE DEF M
  <2>1. a + b \in Nat
    BY <1>1
  <2> QED BY <2>1, <1>8
<1>10. Rises(j)
  <2> SUFFICES ASSUME NEW i \in 1 .. a + b, NEW k \in 1 .. a + b, i < k PROVE j[i] < j[k]
    BY <1>9 DEF Rises
  <2>1. CASE k \in 1 .. a
    <3>1. i \in 1 .. a
      BY <2>1, <1>1
    <3> QED BY <3>1, <2>1, <1>3, <1>5
  <2>2. CASE k - a \in 1 .. b /\ a + (k - a) = k
    <3>1. j[k] = m + h[k - a] /\ h[k - a] \in 1 .. n
      BY <2>2, <1>2, <1>5
    <3>2. CASE i \in 1 .. a
      <4>1. j[i] = g[i] /\ g[i] \in 1 .. m
        BY <3>2, <1>2, <1>5
      <4> QED BY <3>1, <4>1
    <3>3. CASE i - a \in 1 .. b /\ a + (i - a) = i
      <4>1. j[i] = m + h[i - a] /\ h[i - a] \in 1 .. n
        BY <3>3, <1>2, <1>5
      <4>2. i - a < k - a
        BY <1>1
      <4>3. h[i - a] < h[k - a]
        BY <4>2, <3>3, <2>2, <1>3
      <4> QED BY <4>1, <4>3, <3>1
    <3> QED BY <3>2, <3>3, <1>6
  <2> QED BY <2>1, <2>2, <1>6
<1>11. \A k \in M : \E i \in 1 .. a + b : j[i] = k
  <2> TAKE k \in M
  <2>1. CASE k \in J
    BY <2>1, <1>4, <1>5
  <2>2. CASE k \notin J
    <3>1. PICK l \in K : k = m + l
      BY <2>2
    <3>2. PICK i \in 1 .. b : h[i] = l
      BY <1>4
    <3> QED BY <3>1, <3>2, <1>5
  <2> QED BY <2>1, <2>2
<1>12. Lists(j, M)
  BY <1>9, <1>10, <1>11 DEF Lists
<1> QED BY <1>12 DEF j, a, b, Joined, Shifted

Splits(I, s, t, K, L) ==
  /\ \A i \in 1 .. Len(s) : i \in I <=> i \in K
  /\ \A i \in 1 .. Len(t) : Len(s) + i \in I <=> i \in L

(* Selecting from a concatenation selects from its parts. *)
LEMMA SelectJoin ==
  ASSUME NEW s, NEW t, NEW I, NEW K, NEW L, Sequential(s), Sequential(t), Splits(I, s, t, K, L)
  PROVE  Select(s \o t, I) = Select(s, K) \o Select(t, L)
<1> DEFINE m == Len(s)
           n == Len(t)
           A == K \cap (1 .. m)
           B == L \cap (1 .. n)
<1>1. m \in Nat /\ n \in Nat
  BY SequenceFacts
<1>2. PICK g : Lists(g, A) /\ Select(s, K) = Read(s, g)
  BY SelectLists
<1>3. PICK h : Lists(h, B) /\ Select(t, L) = Read(t, h)
  BY SelectLists
<1> DEFINE a == Len(g)
           b == Len(h)
           j == Joined(m, g, h)
           r == s \o t
<1>4. /\ Sequential(r) /\ Len(r) = m + n
      /\ \A i \in 1 .. m : r[i] = s[i]
      /\ \A i \in 1 .. n : r[m + i] = t[i]
  BY Concatenation
<1>5. a \in Nat /\ b \in Nat /\ g \in Seq(A) /\ h \in Seq(B)
  <2> HIDE DEF A, B
  <2> QED BY <1>2, <1>3 DEF Lists
<1>6. Lists(j, A \cup Shifted(m, B)) /\ Len(j) = a + b
  <2>1. A \subseteq 1 .. m /\ B \subseteq 1 .. n
    OBVIOUS
  <2> HIDE DEF A, B, m, n
  <2>2. Lists(g, A) /\ Lists(h, B)
    BY <1>2, <1>3
  <2>3. Lists(j, A \cup Shifted(m, B))
    BY <1>1, <2>1, <2>2, ListsJoin
  <2>4. Len(j) = a + b
    <3>1. a + b \in Nat
      BY <1>5
    <3>2. j = [i \in 1 .. a + b |-> j[i]]
      BY DEF Joined
    <3> HIDE DEF j, a, b
    <3> QED BY <3>1, <3>2, SequenceMade
  <2> QED BY <2>3, <2>4
<1>7. A \cup Shifted(m, B) = I \cap (1 .. m + n)
  <2> HIDE DEF m, n
  <2>1. \A i \in 1 .. m : i \in I <=> i \in K
    BY DEF m, Splits
  <2>2. \A i \in 1 .. n : m + i \in I <=> i \in L
    BY DEF m, n, Splits
  <2>3. ASSUME NEW k \in A \cup Shifted(m, B) PROVE k \in I \cap (1 .. m + n)
    <3>1. CASE k \in A
      BY <3>1, <2>1, <1>1
    <3>2. CASE k \notin A
      <4>1. PICK l \in B : k = m + l
        BY <3>2 DEF Shifted
      <4> QED BY <4>1, <2>2, <1>1
    <3> QED BY <3>1, <3>2
  <2>4. ASSUME NEW k \in I \cap (1 .. m + n) PROVE k \in A \cup Shifted(m, B)
    <3>1. CASE k \in 1 .. m
      BY <3>1, <2>1
    <3>2. CASE k \notin 1 .. m
      <4>1. k - m \in 1 .. n /\ k = m + (k - m)
        BY <3>2, <1>1
      <4> QED BY <4>1, <2>2 DEF Shifted
    <3> QED BY <3>1, <3>2
  <2> QED BY <2>3, <2>4
<1>8. Select(r, I) = Read(r, j)
  <2> HIDE DEF A, B, j, r
  <2>1. Lists(j, I \cap (1 .. Len(r)))
    BY <1>4, <1>6, <1>7
  <2> QED BY <2>1, <1>4, SelectRead
<1> DEFINE x == Read(s, g)
           y == Read(t, h)
<1>9. /\ Sequential(x) /\ Len(x) = a /\ \A i \in 1 .. a : x[i] = s[g[i]]
      /\ Sequential(y) /\ Len(y) = b /\ \A i \in 1 .. b : y[i] = t[h[i]]
  <2> HIDE DEF A, B
  <2> QED BY <1>5, ReadFacts
<1>10. /\ Sequential(x \o y) /\ Len(x \o y) = a + b
       /\ \A i \in 1 .. a : (x \o y)[i] = s[g[i]]
       /\ \A i \in 1 .. b : (x \o y)[a + i] = t[h[i]]
  <2> HIDE DEF x, y, a, b
  <2>1. /\ Sequential(x \o y) /\ Len(x \o y) = Len(x) + Len(y)
        /\ \A i \in 1 .. Len(x) : (x \o y)[i] = x[i]
        /\ \A i \in 1 .. Len(y) : (x \o y)[Len(x) + i] = y[i]
    <3>1. Sequential(x) /\ Sequential(y)
      BY <1>9
    <3> HIDE <1>9
    <3> QED BY <3>1, Concatenation
  <2>2. Len(x) = a /\ Len(y) = b
    BY <1>9
  <2>3. /\ Sequential(x \o y) /\ Len(x \o y) = a + b
        /\ \A i \in 1 .. a : (x \o y)[i] = x[i]
        /\ \A i \in 1 .. b : (x \o y)[a + i] = y[i]
    BY <2>1, <2>2, Zenon
  <2> QED BY <2>3, <1>9, Zenon
<1>11. /\ Sequential(Read(r, j)) /\ Len(Read(r, j)) = a + b
       /\ \A i \in 1 .. a + b : Read(r, j)[i] = r[j[i]]
  <2> HIDE DEF j, r
  <2> HIDE DEF A, B, a, b, m
  <2>1. j \in Seq(A \cup Shifted(m, B)) /\ Len(j) = a + b
    BY <1>6 DEF Lists
  <2> QED BY <2>1, ReadFacts
<1>12. /\ \A i \in 1 .. a : i \in 1 .. a + b /\ j[i] = g[i] /\ g[i] \in 1 .. m
       /\ \A i \in 1 .. b : a + i \in 1 .. a + b /\ j[a + i] = m + h[i] /\ h[i] \in 1 .. n
  <2>1. (\A i \in 1 .. a : g[i] \in A) /\ \A i \in 1 .. b : h[i] \in B
    <3> HIDE DEF A, B
    <3> QED BY <1>5
  <2>2. (\A i \in 1 .. a : g[i] \in 1 .. m) /\ \A i \in 1 .. b : h[i] \in 1 .. n
    BY <2>1
  <2>3. j = [i \in 1 .. a + b |-> IF i <= a THEN g[i] ELSE m + h[i - a]]
    BY DEF Joined
  <2> HIDE DEF A, B, a, b, m, n, j
  <2> QED BY <1>5, <2>2, <2>3
<1>13. ASSUME NEW i \in 1 .. a + b PROVE Read(r, j)[i] = (x \o y)[i]
  <2> HIDE DEF r, j, x, y, a, b, m, n, A, B
  <2>1. CASE i \in 1 .. a
    <3>1. r[j[i]] = s[g[i]]
      BY <2>1, <1>12, <1>4 DEF m
    <3> QED BY <3>1, <2>1, <1>10, <1>11
  <2>2. CASE i \notin 1 .. a
    <3>1. i - a \in 1 .. b /\ a + (i - a) = i
      BY <2>2, <1>5
    <3>2. j[i] = m + h[i - a] /\ h[i - a] \in 1 .. n
      BY <3>1, <1>12
    <3>3. r[j[i]] = t[h[i - a]]
      BY <3>2, <1>4
    <3>4. (x \o y)[i] = t[h[i - a]]
      BY <3>1, <1>10
    <3> QED BY <3>3, <3>4, <1>11
  <2> QED BY <2>1, <2>2
<1>14. Read(r, j) = x \o y
  <2> HIDE DEF r, j, x, y, a, b, m, n, A, B
  <2> QED BY <1>10, <1>11, <1>13, SequenceEqual
<1> QED BY <1>2, <1>3, <1>8, <1>14

LEMMA SelectAll ==
  ASSUME NEW s, Sequential(s), NEW I, \A i \in 1 .. Len(s) : i \in I
  PROVE  Select(s, I) = s
<1> DEFINE n == Len(s)
           g == [i \in 1 .. n |-> i]
<1>1. n \in Nat /\ s = [i \in 1 .. n |-> s[i]]
  BY SequenceFacts
<1>2. I \cap (1 .. n) = 1 .. n
  OBVIOUS
<1>3. Lists(g, 1 .. n) /\ Len(g) = n
  <2>1. g \in Seq(1 .. n) /\ Len(g) = n
    <3> HIDE DEF n
    <3> QED BY <1>1
  <2>2. Rises(g)
    <3> SUFFICES ASSUME NEW i \in 1 .. n, NEW j \in 1 .. n, i < j PROVE g[i] < g[j]
      BY <2>1 DEF Rises
    <3> QED OBVIOUS
  <2>3. \A k \in 1 .. n : g[k] = k
    OBVIOUS
  <2> HIDE DEF g, n
  <2> QED BY <2>1, <2>2, <2>3 DEF Lists
<1>4. Select(s, I) = Read(s, g)
  <2> HIDE DEF g
  <2> QED BY <1>2, <1>3, SelectRead
<1>5. Read(s, g) = s
  <2>1. Read(s, g) = [j \in 1 .. n |-> s[g[j]]]
    <3> HIDE DEF g, n
    <3> QED BY <1>3 DEF Read
  <2>2. \A j \in 1 .. n : g[j] = j
    OBVIOUS
  <2> HIDE DEF g, n
  <2> QED BY <1>1, <2>1, <2>2
<1> QED BY <1>4, <1>5

LEMMA SelectNone ==
  ASSUME NEW s, Sequential(s), NEW I, \A i \in 1 .. Len(s) : i \notin I
  PROVE  Select(s, I) = <<>>
<1>1. I \cap (1 .. Len(s)) = {}
  OBVIOUS
<1>2. Select(s, I) = Read(s, <<>>)
  BY <1>1, SelectRead, ListsNothing
<1> QED BY <1>2 DEF Read

LEMMA SelectOne ==
  ASSUME NEW s, Sequential(s), NEW I, NEW p \in 1 .. Len(s), I \cap (1 .. Len(s)) = {p}
  PROVE  Select(s, I) = <<s[p]>>
<1>1. p \in Nat
  BY SequenceFacts
<1>2. Lists(<<p>>, {p})
  <2>1. <<p>> \in Seq({p}) /\ Len(<<p>>) = 1 /\ <<p>>[1] = p
    OBVIOUS
  <2> QED BY <2>1 DEF Lists, Rises
<1>3. Select(s, I) = Read(s, <<p>>)
  BY <1>2, SelectRead
<1>4. Read(s, <<p>>) = <<s[p]>>
  <2>1. Len(<<p>>) = 1 /\ <<p>>[1] = p
    OBVIOUS
  <2>2. Read(s, <<p>>) = [j \in 1 .. 1 |-> s[<<p>>[j]]]
    BY <2>1 DEF Read
  <2> QED BY <2>1, <2>2
<1> QED BY <1>3, <1>4

-----------------------------------------------------------------------------
(* A flattened sequence is built part by part. *)

FlatTo(f, ss, n) ==
  f = [i \in 1 .. n |-> IF i = 1 THEN ss[i] ELSE f[i - 1] \o ss[i]]

LEMMA FlatToExists ==
  ASSUME NEW ss
  PROVE  \A n \in Nat : \E f : FlatTo(f, ss, n)
<1> DEFINE A == {n \in Nat : \E f : FlatTo(f, ss, n)}
<1>1. 0 \in A
  <2> DEFINE f == [i \in 1 .. 0 |-> <<>>]
  <2>1. FlatTo(f, ss, 0)
    BY DEF FlatTo
  <2> QED BY <2>1
<1>2. ASSUME NEW n \in Nat, n \in A PROVE n + 1 \in A
  <2>1. PICK f : FlatTo(f, ss, n)
    BY <1>2
  <2> DEFINE next == IF n = 0 THEN ss[n + 1] ELSE f[n] \o ss[n + 1]
             g == [i \in 1 .. n + 1 |-> IF i = n + 1 THEN next ELSE f[i]]
             h == [i \in 1 .. n + 1 |-> IF i = 1 THEN ss[i] ELSE g[i - 1] \o ss[i]]
  <2>2. ASSUME NEW i \in 1 .. n + 1 PROVE g[i] = h[i]
    <3>1. CASE i = n + 1
      <4>1. CASE n = 0
        BY <3>1, <4>1
      <4>2. CASE n # 0
        <5>1. g[i - 1] = f[n] /\ i # 1
          BY <3>1, <4>2
        <5> QED BY <3>1, <4>2, <5>1
      <4> QED BY <4>1, <4>2
    <3>2. CASE i # n + 1
      <4>1. i \in 1 .. n /\ g[i] = f[i]
        BY <3>2
      <4>2. f[i] = IF i = 1 THEN ss[i] ELSE f[i - 1] \o ss[i]
        BY <2>1, <4>1 DEF FlatTo
      <4>3. i # 1 => g[i - 1] = f[i - 1]
        BY <4>1
      <4> QED BY <4>1, <4>2, <4>3
    <3> QED BY <3>1, <3>2
  <2>3. g = h
    <3>1. g = [i \in 1 .. n + 1 |-> g[i]] /\ h = [i \in 1 .. n + 1 |-> h[i]]
      OBVIOUS
    <3> HIDE DEF g, h
    <3> QED BY <3>1, <2>2
  <2>4. FlatTo(g, ss, n + 1)
    <3> HIDE DEF g
    <3> QED BY <2>3, Zenon DEF FlatTo
  <2> HIDE DEF g, h, next
  <2> QED BY <2>4
<1>3. \A n \in Nat : n \in A
  <2> HIDE DEF A
  <2> QED BY <1>1, <1>2, Induction
<1> QED BY <1>3

Parts(f, ss) == f[0] = <<>> /\ \A i \in 1 .. Len(ss) : f[i] = f[i - 1] \o ss[i]

Vector(ss) == Sequential(ss) /\ \A i \in 1 .. Len(ss) : Sequential(ss[i])

LEMMA EmptySequential ==
  Sequential(<<>>) /\ Len(<<>>) = 0
BY DEF Sequential

LEMMA PartsSequential ==
  ASSUME NEW ss, Vector(ss), NEW f, Parts(f, ss)
  PROVE  \A i \in 0 .. Len(ss) : Sequential(f[i])
<1>0. Len(ss) \in Nat
  BY SequenceFacts DEF Vector
<1> DEFINE A == {n \in Nat : n <= Len(ss) => Sequential(f[n])}
<1>1. 0 \in A
  BY EmptySequential DEF Parts
<1>2. ASSUME NEW n \in Nat, n \in A PROVE n + 1 \in A
  <2> SUFFICES ASSUME n + 1 <= Len(ss) PROVE Sequential(f[n + 1])
    OBVIOUS
  <2>1. n + 1 \in 1 .. Len(ss) /\ n <= Len(ss) /\ (n + 1) - 1 = n
    BY <1>0
  <2>2. f[n + 1] = f[n] \o ss[n + 1]
    BY <2>1 DEF Parts
  <2>3. Sequential(f[n]) /\ Sequential(ss[n + 1])
    BY <1>2, <2>1 DEF Vector
  <2> QED BY <2>2, <2>3, Concatenation
<1>3. \A n \in Nat : n \in A
  <2> HIDE DEF A
  <2> QED BY <1>1, <1>2, Induction
<1> QED BY <1>0, <1>3

LEMMA PartsExist ==
  ASSUME NEW ss, Vector(ss)
  PROVE  \E f : Parts(f, ss) /\ FlattenSeq(ss) = f[Len(ss)]
<1>0. Len(ss) \in Nat /\ ss = [i \in 1 .. Len(ss) |-> ss[i]]
  BY SequenceFacts DEF Vector
<1>1. CASE Len(ss) = 0
  <2> DEFINE f == [i \in 0 .. 0 |-> <<>>]
  <2>1. ss = <<>>
    BY <1>0, <1>1
  <2>2. Parts(f, ss) /\ f[0] = <<>>
    BY <1>1 DEF Parts
  <2>3. FlattenSeq(ss) = ss
    BY <1>1 DEF FlattenSeq
  <2> HIDE DEF f
  <2> QED BY <1>1, <2>1, <2>2, <2>3
<1>2. CASE Len(ss) # 0
  <2>1. \E f : FlatTo(f, ss, Len(ss))
    BY <1>0, FlatToExists, Zenon
  <2> DEFINE F == CHOOSE f : FlatTo(f, ss, Len(ss))
  <2>2. FlatTo(F, ss, Len(ss))
    BY <2>1, Zenon
  <2>3. FlattenSeq(ss) = F[Len(ss)]
    BY <1>2, Zenon DEF FlattenSeq, FlatTo
  <2> HIDE DEF F
  <2> DEFINE f == [i \in 0 .. Len(ss) |-> IF i = 0 THEN <<>> ELSE F[i]]
  <2>4. ASSUME NEW i \in 1 .. Len(ss) PROVE f[i] = f[i - 1] \o ss[i]
    <3>1. F[i] = IF i = 1 THEN ss[i] ELSE F[i - 1] \o ss[i]
      BY <2>2 DEF FlatTo
    <3>2. f[i] = F[i]
      BY <1>0
    <3>3. CASE i = 1
      <4>1. f[i - 1] = <<>>
        BY <3>3, <1>0
      <4>2. <<>> \o ss[i] = ss[i]
        <5>1. ss[i] \in Seq(ToSet(ss[i]))
          BY DEF Vector, Sequential
        <5> QED BY <5>1
      <4> QED BY <3>1, <3>2, <3>3, <4>1, <4>2
    <3>4. CASE i # 1
      <4>1. f[i - 1] = F[i - 1]
        BY <3>4, <1>0
      <4> QED BY <3>1, <3>2, <3>4, <4>1
    <3> QED BY <3>3, <3>4
  <2>5. f[0] = <<>> /\ f[Len(ss)] = F[Len(ss)]
    BY <1>0, <1>2
  <2>6. Parts(f, ss)
    <3> HIDE DEF f
    <3> QED BY <2>4, <2>5 DEF Parts
  <2> HIDE DEF f
  <2> QED BY <2>3, <2>5, <2>6
<1> QED BY <1>1, <1>2

LEMMA PartsUnique ==
  ASSUME NEW ss, Vector(ss), NEW f, NEW g, Parts(f, ss), Parts(g, ss)
  PROVE  \A i \in 0 .. Len(ss) : f[i] = g[i]
<1>0. Len(ss) \in Nat
  BY SequenceFacts DEF Vector
<1> DEFINE A == {n \in Nat : n <= Len(ss) => f[n] = g[n]}
<1>1. 0 \in A
  BY DEF Parts
<1>2. ASSUME NEW n \in Nat, n \in A PROVE n + 1 \in A
  <2> SUFFICES ASSUME n + 1 <= Len(ss) PROVE f[n + 1] = g[n + 1]
    OBVIOUS
  <2>1. n + 1 \in 1 .. Len(ss) /\ n <= Len(ss) /\ (n + 1) - 1 = n
    BY <1>0
  <2>2. f[n + 1] = f[n] \o ss[n + 1] /\ g[n + 1] = g[n] \o ss[n + 1]
    BY <2>1 DEF Parts
  <2> QED BY <1>2, <2>1, <2>2
<1>3. \A n \in Nat : n \in A
  <2> HIDE DEF A
  <2> QED BY <1>1, <1>2, Induction
<1> QED BY <1>0, <1>3

LEMMA FlattenParts ==
  ASSUME NEW ss, Vector(ss), NEW f, Parts(f, ss)
  PROVE  FlattenSeq(ss) = f[Len(ss)]
<1>1. PICK g : Parts(g, ss) /\ FlattenSeq(ss) = g[Len(ss)]
  BY PartsExist
<1>2. Len(ss) \in 0 .. Len(ss)
  BY SequenceFacts DEF Vector
<1> QED BY <1>1, <1>2, PartsUnique

-----------------------------------------------------------------------------
(* What expansion and sampling give. *)

CaseLike(c) ==
  /\ c = [params |-> c.params, subcases |-> c.subcases]
  /\ Sequential(c.params)
  /\ Vector(c.subcases)

CaseVector(cases) == Sequential(cases) /\ \A i \in 1 .. Len(cases) : CaseLike(cases[i])

LEMMA SelectElements ==
  ASSUME NEW s, NEW I, Sequential(s)
  PROVE  \A j \in 1 .. Len(Select(s, I)) : \E i \in 1 .. Len(s) : i \in I /\ Select(s, I)[j] = s[i]
<1>1. PICK g : Lists(g, I \cap (1 .. Len(s))) /\ Select(s, I) = Read(s, g)
  BY SelectLists
<1>2. g \in Seq(I \cap (1 .. Len(s)))
  BY <1>1 DEF Lists
<1>3. Len(Read(s, g)) = Len(g) /\ \A j \in 1 .. Len(g) : Read(s, g)[j] = s[g[j]]
  BY <1>2, ReadFacts
<1>4. \A j \in 1 .. Len(g) : g[j] \in I \cap (1 .. Len(s))
  BY <1>2
<1> QED BY <1>1, <1>3, <1>4

LEMMA SelectVector ==
  ASSUME NEW ss, NEW I, Vector(ss)
  PROVE  Vector(Select(ss, I))
<1>1. Sequential(Select(ss, I))
  BY SelectSequential DEF Vector
<1>2. \A j \in 1 .. Len(Select(ss, I)) : \E i \in 1 .. Len(ss) : i \in I /\ Select(ss, I)[j] = ss[i]
  BY SelectElements DEF Vector
<1> QED BY <1>1, <1>2 DEF Vector

LEMMA SelectCases ==
  ASSUME NEW cases, NEW I, CaseVector(cases)
  PROVE  CaseVector(Select(cases, I))
<1>1. Sequential(Select(cases, I))
  BY SelectSequential DEF CaseVector
<1>2. \A j \in 1 .. Len(Select(cases, I)) : \E i \in 1 .. Len(cases) : i \in I /\ Select(cases, I)[j] = cases[i]
  BY SelectElements DEF CaseVector
<1> QED BY <1>1, <1>2 DEF CaseVector

LEMMA ExpandedCases ==
  ASSUME NEW ops, Vectors(ops)
  PROVE  CaseVector(Expanded(ops))
<1> DEFINE records == CaseRecords(ops)
           sub(i) == IF HasSubcases(ops) THEN Subcases(ops, records[i]) ELSE <<>>
           all == [i \in DOMAIN records |-> [params |-> records[i], subcases |-> sub(i)]]
<1>1. Sequential(records) /\ DOMAIN records = 1 .. Len(records) /\ Len(records) \in Nat
  BY SequenceFacts DEF Vectors
<1>2. ASSUME NEW i \in 1 .. Len(records) PROVE Sequential(records[i]) /\ Vector(sub(i))
  <2>1. Vector(<<>>)
    BY EmptySequential DEF Vector
  <2>2. /\ Sequential(records[i]) /\ Sequential(Subcases(ops, records[i]))
        /\ \A j \in DOMAIN Subcases(ops, records[i]) : Sequential(Subcases(ops, records[i])[j])
    BY <1>1, Zenon DEF Vectors
  <2>3. Vector(Subcases(ops, records[i]))
    BY <2>2, SequenceFacts DEF Vector
  <2> QED BY <2>1, <2>2, <2>3
<1>3. CaseVector(all)
  <2> HIDE DEF sub, records
  <2>1. all = [i \in 1 .. Len(records) |-> all[i]]
    BY <1>1
  <2>2. \A i \in 1 .. Len(records) : all[i] = [params |-> records[i], subcases |-> sub(i)]
    BY <1>1
  <2> HIDE DEF all
  <2>3. Sequential(all) /\ Len(all) = Len(records)
    BY <1>1, <2>1, SequenceMade
  <2>4. \A i \in 1 .. Len(records) : CaseLike(all[i])
    <3> TAKE i \in 1 .. Len(records)
    <3>1. all[i] = [params |-> records[i], subcases |-> sub(i)]
      BY <2>2
    <3>2. all[i].params = records[i] /\ all[i].subcases = sub(i)
      BY <3>1
    <3>3. Sequential(records[i]) /\ Vector(sub(i))
      BY <1>2
    <3> QED BY <3>1, <3>2, <3>3, Zenon DEF CaseLike
  <2> QED BY <2>3, <2>4 DEF CaseVector
<1>4. CaseVector(Select(all, {i \in DOMAIN all : all[i].subcases # <<>>}))
  <2> HIDE DEF all
  <2> QED BY <1>3, SelectCases
<1>5. Expanded(ops) = IF HasSubcases(ops) THEN Select(all, {i \in DOMAIN all : all[i].subcases # <<>>}) ELSE all
  BY Zenon DEF Expanded, EveryCase, WithSubcases
<1> HIDE DEF all
<1> QED BY <1>3, <1>4, <1>5

LEMMA ThinnedCase ==
  ASSUME NEW c, CaseLike(c)
  PROVE  /\ Thinned(c).params = c.params
         /\ Thinned(c).subcases = Select(c.subcases, {i \in DOMAIN c.subcases : Kept(c.params \o c.subcases[i])})
         /\ CaseLike(Thinned(c))
<1> DEFINE sub == Select(c.subcases, {i \in DOMAIN c.subcases : Kept(c.params \o c.subcases[i])})
<1>1. Thinned(c) = [c EXCEPT !.subcases = sub]
  BY DEF Thinned
<1>2. Vector(sub)
  BY SelectVector DEF CaseLike
<1> HIDE DEF sub
<1>3. [c EXCEPT !.subcases = sub] = [params |-> c.params, subcases |-> sub]
  BY DEF CaseLike
<1>4. Thinned(c) = [params |-> c.params, subcases |-> sub]
  BY <1>1, <1>3
<1>5. Sequential(c.params)
  BY DEF CaseLike
<1> QED BY <1>2, <1>4, <1>5 DEF CaseLike, sub

LEMMA SampledCases ==
  ASSUME NEW cases, CaseVector(cases)
  PROVE  CaseVector(Sampled(cases))
<1> DEFINE kept == Select(cases, {i \in DOMAIN cases : HasKept(cases[i])})
           thin == [i \in DOMAIN kept |-> Thinned(kept[i])]
<1>1. CaseVector(kept)
  BY SelectCases
<1>2. Sampled(cases) = cases \/ Sampled(cases) = thin
  BY Zenon DEF Sampled
<1> HIDE DEF kept
<1>3. Len(kept) \in Nat /\ DOMAIN kept = 1 .. Len(kept)
  BY <1>1, SequenceFacts DEF CaseVector
<1>4. thin = [i \in 1 .. Len(kept) |-> thin[i]] /\ \A i \in 1 .. Len(kept) : thin[i] = Thinned(kept[i])
  BY <1>3
<1> HIDE DEF thin
<1>5. Sequential(thin) /\ Len(thin) = Len(kept)
  BY <1>3, <1>4, SequenceMade
<1>6. \A i \in 1 .. Len(kept) : CaseLike(thin[i])
  BY <1>1, <1>4, ThinnedCase DEF CaseVector
<1> QED BY <1>2, <1>5, <1>6 DEF CaseVector

LEMMA CasesOfCases ==
  ASSUME NEW test, NEW thin, Vectors(test.ops)
  PROVE  CaseVector(CasesOf(test, thin))
BY ExpandedCases, SampledCases DEF CasesOf

-----------------------------------------------------------------------------
(* What is collected from one test. *)

Linked == registry \in Registries

LEMMA LinkedTests ==
  ASSUME Linked
  PROVE  /\ Sequential(registry)
         /\ \A i \in 1 .. Len(registry) :
              /\ Sequential(registry[i].file) /\ registry[i].file # <<>>
              /\ Sequential(registry[i].test) /\ registry[i].test # <<>>
              /\ \A j \in 1 .. Len(registry) :
                   registry[i].file = registry[j].file /\ registry[i].test = registry[j].test => i = j
              /\ Vectors(registry[i].ops)
<1>1. Sequential(registry)
  BY RegistryAssumption DEF Linked
<1>2. DOMAIN registry = 1 .. Len(registry)
  BY <1>1, SequenceFacts
<1> QED BY <1>1, <1>2, RegistryAssumption DEF Linked

(* The positions of the cases that some query selects. *)
Chosen(cases, test, qs) == {i \in 1 .. Len(cases) : \E q \in qs : MatchesCase(q, test, cases[i].params)}

Runs(index, cases) == [i \in 1 .. Len(cases) |-> CaseRun(index, cases[i])]

LEMMA CaseRunFields ==
  ASSUME NEW index, NEW c
  PROVE  /\ CaseRun(index, c).test = index
         /\ CaseRun(index, c).params = c.params
         /\ CaseRun(index, c).subcases = c.subcases
         /\ CaseRun(index, c).query = CaseQuery(registry[index], c.params)
BY DEF CaseRun

LEMMA CollectedRuns ==
  ASSUME Linked, NEW index \in 1 .. Len(registry), NEW qs, NEW thin
  PROVE  LET cases == CasesOf(registry[index], thin)
         IN  Collected(index, qs, thin) = Runs(index, Select(cases, Chosen(cases, registry[index], qs)))
<1> DEFINE cases == CasesOf(registry[index], thin)
           sel == Select(cases, Chosen(cases, registry[index], qs))
<1>1. CaseVector(cases)
  BY LinkedTests, CasesOfCases
<1>2. Sequential(cases) /\ DOMAIN cases = 1 .. Len(cases)
  BY <1>1, SequenceFacts DEF CaseVector
<1>3. {i \in DOMAIN cases : \E q \in qs : MatchesCase(q, registry[index], cases[i].params)}
        = Chosen(cases, registry[index], qs)
  BY <1>2, Zenon DEF Chosen
<1>4. Sequential(sel) /\ DOMAIN sel = 1 .. Len(sel)
  BY <1>2, SelectSequential, SequenceFacts
<1>5. Collected(index, qs, thin) =
        IF \E q \in qs : MatchesTest(q, registry[index])
        THEN [i \in DOMAIN sel |-> CaseRun(index, sel[i])] ELSE <<>>
  BY <1>3, Zenon DEF Collected, CaseRuns, Matching
<1>6. CASE \E q \in qs : MatchesTest(q, registry[index])
  <2>1. Runs(index, sel) = [i \in DOMAIN sel |-> CaseRun(index, sel[i])]
    <3> HIDE DEF sel
    <3> QED BY <1>4, Zenon DEF Runs
  <2>2. Collected(index, qs, thin) = [i \in DOMAIN sel |-> CaseRun(index, sel[i])]
    BY <1>5, <1>6
  <2> QED BY <2>1, <2>2
<1>7. CASE ~ \E q \in qs : MatchesTest(q, registry[index])
  <2>1. \A i \in 1 .. Len(cases) : i \notin Chosen(cases, registry[index], qs)
    BY <1>7, Zenon DEF Chosen, MatchesCase
  <2>2. sel = <<>>
    BY <2>1, <1>2, SelectNone
  <2>3. Runs(index, <<>>) = <<>>
    BY DEF Runs
  <2> QED BY <1>5, <1>7, <2>2, <2>3
<1> QED BY <1>6, <1>7

LEMMA RunsFacts ==
  ASSUME NEW index, NEW cases, Sequential(cases)
  PROVE  /\ Sequential(Runs(index, cases)) /\ Len(Runs(index, cases)) = Len(cases)
         /\ \A i \in 1 .. Len(cases) : Runs(index, cases)[i] = CaseRun(index, cases[i])
<1> DEFINE r == Runs(index, cases)
<1>1. r = [i \in 1 .. Len(cases) |-> r[i]] /\ \A i \in 1 .. Len(cases) : r[i] = CaseRun(index, cases[i])
  BY DEF Runs
<1>2. Len(cases) \in Nat
  BY SequenceFacts
<1>3. Sequential(r) /\ Len(r) = Len(cases)
  <2> HIDE DEF r
  <2> QED BY <1>1, <1>2, SequenceMade
<1> QED BY <1>1, <1>3

LEMMA CollectedSequential ==
  ASSUME Linked, NEW index \in 1 .. Len(registry), NEW qs, NEW thin
  PROVE  Sequential(Collected(index, qs, thin))
<1> DEFINE cases == CasesOf(registry[index], thin)
<1>1. Sequential(cases)
  BY LinkedTests, CasesOfCases DEF CaseVector
<1>2. Collected(index, qs, thin) = Runs(index, Select(cases, Chosen(cases, registry[index], qs)))
  BY CollectedRuns
<1> QED BY <1>1, <1>2, SelectSequential, RunsFacts

(* What collectCases makes of the tests, one after the other. *)
PerTest(qs, thin) == [index \in 1 .. Len(registry) |-> Collected(index, qs, thin)]

LEMMA PerTestFacts ==
  ASSUME Linked, NEW qs, NEW thin
  PROVE  /\ Vector(PerTest(qs, thin)) /\ Len(PerTest(qs, thin)) = Len(registry) /\ Len(registry) \in Nat
         /\ \A i \in 1 .. Len(registry) : PerTest(qs, thin)[i] = Collected(i, qs, thin)
         /\ CollectedCases(qs, thin) = FlattenSeq(PerTest(qs, thin))
<1> DEFINE r == PerTest(qs, thin)
<1>1. Len(registry) \in Nat /\ DOMAIN registry = 1 .. Len(registry)
  BY LinkedTests, SequenceFacts
<1>2. r = [i \in 1 .. Len(registry) |-> r[i]] /\ \A i \in 1 .. Len(registry) : r[i] = Collected(i, qs, thin)
  BY DEF PerTest
<1>3. Sequential(r) /\ Len(r) = Len(registry)
  <2> HIDE DEF r
  <2> QED BY <1>1, <1>2, SequenceMade
<1>4. Vector(r)
  <2> HIDE DEF r
  <2> QED BY <1>2, <1>3, CollectedSequential DEF Vector
<1>5. CollectedCases(qs, thin) = FlattenSeq(r)
  BY <1>1, Zenon DEF CollectedCases, PerTest
<1> QED BY <1>1, <1>2, <1>3, <1>4, <1>5

-----------------------------------------------------------------------------
(* The queries only choose. *)

Wanted(run) == \E q \in queries : MatchesCase(q, registry[run.test], run.params)

WantedIn(s) == {i \in 1 .. Len(s) : Wanted(s[i])}

LEMMA EverythingMatches ==
  ASSUME NEW test, NEW params, Sequential(test.file), Sequential(test.test)
  PROVE  MatchesCase(Everything, test, params)
<1> DEFINE all == [names |-> <<>>, star |-> TRUE]
<1>1. ASSUME NEW name, Sequential(name) PROVE Matches(all, name)
  <2>1. Len(name) \in Nat /\ Len(<<>>) = 0
    BY <1>1, SequenceFacts, EmptySequential
  <2>2. SubSeq(<<>>, 1, 0) = <<>>
    OBVIOUS
  <2>3. SubSeq(name, 1, 0) = <<>>
    <3>1. name \in Seq(ToSet(name))
      BY <1>1 DEF Sequential
    <3> QED BY <3>1
  <2>4. IsPrefix(<<>>, name)
    BY <2>1, <2>2, <2>3 DEF IsPrefix
  <2>5. all.names = <<>>
    OBVIOUS
  <2> QED BY <2>4, <2>5 DEF Matches
<1>2. Everything.file = all /\ Everything.test = all /\ Everything.params = <<>>
  BY DEF Everything
<1> HIDE DEF all
<1>3. MatchesTest(Everything, test)
  BY <1>1, <1>2 DEF MatchesTest
<1> QED BY <1>2, <1>3 DEF MatchesCase

LEMMA WantedFromOne ==
  ASSUME Linked, NEW index \in 1 .. Len(registry)
  PROVE  LET all == Collected(index, {Everything}, sample)
         IN  Select(all, WantedIn(all)) = Collected(index, queries, sample)
<1> DEFINE test == registry[index]
           cases == CasesOf(test, sample)
           I == Chosen(cases, test, queries)
           all == Runs(index, cases)
<1>1. Sequential(cases)
  BY LinkedTests, CasesOfCases DEF CaseVector
<1>2. Collected(index, {Everything}, sample) = all
  <2>1. \A i \in 1 .. Len(cases) : i \in Chosen(cases, test, {Everything})
    BY LinkedTests, EverythingMatches DEF Chosen
  <2>2. Select(cases, Chosen(cases, test, {Everything})) = cases
    BY <1>1, <2>1, SelectAll
  <2> QED BY <2>2, CollectedRuns
<1>3. Collected(index, queries, sample) = Runs(index, Select(cases, I))
  BY CollectedRuns
<1>4. /\ Sequential(all) /\ Len(all) = Len(cases)
      /\ \A i \in 1 .. Len(cases) : all[i] = CaseRun(index, cases[i])
  BY <1>1, RunsFacts
<1>5. WantedIn(all) = I
  <2>1. ASSUME NEW i \in 1 .. Len(cases) PROVE Wanted(all[i]) <=> i \in I
    <3>0. all[i] = CaseRun(index, cases[i])
      BY <1>4
    <3>1. all[i].test = index /\ all[i].params = cases[i].params
      BY <3>0, CaseRunFields
    <3> HIDE DEF all, cases
    <3> QED BY <3>1, Zenon DEF Wanted, Chosen
  <2>2. I \subseteq 1 .. Len(cases)
    BY DEF Chosen
  <2> HIDE DEF all, cases, I
  <2> QED BY <1>4, <2>1, <2>2 DEF WantedIn
<1> HIDE DEF all, cases, I
<1>6. PICK g : Lists(g, I \cap (1 .. Len(cases))) /\ Select(cases, I) = Read(cases, g)
  BY <1>1, SelectLists
<1>7. Select(all, I) = Read(all, g)
  BY <1>4, <1>6, SelectRead
<1>8. g \in Seq(I \cap (1 .. Len(cases)))
  BY <1>6 DEF Lists
<1>9. /\ Sequential(Read(cases, g)) /\ Len(Read(cases, g)) = Len(g)
      /\ \A j \in 1 .. Len(g) : Read(cases, g)[j] = cases[g[j]]
  BY <1>8, ReadFacts
<1>10. /\ Sequential(Read(all, g)) /\ Len(Read(all, g)) = Len(g)
       /\ \A j \in 1 .. Len(g) : Read(all, g)[j] = all[g[j]]
  BY <1>8, ReadFacts
<1>11. /\ Sequential(Runs(index, Read(cases, g))) /\ Len(Runs(index, Read(cases, g))) = Len(g)
       /\ \A j \in 1 .. Len(g) : Runs(index, Read(cases, g))[j] = CaseRun(index, cases[g[j]])
  BY <1>9, RunsFacts
<1>12. \A j \in 1 .. Len(g) : g[j] \in 1 .. Len(cases)
  BY <1>8
<1>13. \A j \in 1 .. Len(g) : Read(all, g)[j] = Runs(index, Read(cases, g))[j]
  BY <1>4, <1>10, <1>11, <1>12
<1>14. Read(all, g) = Runs(index, Read(cases, g))
  BY <1>10, <1>11, <1>13, SequenceEqual
<1> QED BY <1>2, <1>3, <1>5, <1>6, <1>7, <1>14

LEMMA WantedFromParts ==
  ASSUME Linked, NEW f, Parts(f, PerTest(queries, sample)), NEW h, Parts(h, PerTest({Everything}, sample))
  PROVE  \A n \in 0 .. Len(registry) : f[n] = Select(h[n], WantedIn(h[n]))
<1> DEFINE F == PerTest(queries, sample)
           H == PerTest({Everything}, sample)
           Good(n) == n <= Len(registry) => f[n] = Select(h[n], WantedIn(h[n]))
           A == {n \in Nat : Good(n)}
<1>0. Len(registry) \in Nat
  BY PerTestFacts
<1>1. /\ Vector(F) /\ Len(F) = Len(registry)
      /\ \A i \in 1 .. Len(registry) : F[i] = Collected(i, queries, sample)
  BY PerTestFacts
<1>2. /\ Vector(H) /\ Len(H) = Len(registry)
      /\ \A i \in 1 .. Len(registry) : H[i] = Collected(i, {Everything}, sample)
  BY PerTestFacts
<1>3. \A i \in 0 .. Len(registry) : Sequential(h[i])
  BY <1>2, PartsSequential
<1> HIDE DEF F, H
<1>4. Good(0)
  <2>1. f[0] = <<>> /\ h[0] = <<>>
    BY DEF Parts
  <2>2. \A i \in 1 .. Len(<<>>) : i \notin WantedIn(<<>>)
    BY EmptySequential
  <2> QED BY <2>1, <2>2, SelectNone, EmptySequential
<1>5. ASSUME NEW n \in Nat, Good(n) PROVE Good(n + 1)
  <2> SUFFICES ASSUME n + 1 <= Len(registry) PROVE f[n + 1] = Select(h[n + 1], WantedIn(h[n + 1]))
    OBVIOUS
  <2>1. n \in 0 .. Len(registry) /\ n + 1 \in 1 .. Len(registry) /\ (n + 1) - 1 = n /\ n <= Len(registry)
    BY <1>0
  <2>2. f[n + 1] = f[n] \o F[n + 1]
    BY <2>1, <1>1 DEF Parts, F
  <2>3. h[n + 1] = h[n] \o H[n + 1]
    BY <2>1, <1>2 DEF Parts, H
  <2> DEFINE s == h[n]
             t == H[n + 1]
  <2>4. Sequential(s) /\ Sequential(t)
    BY <2>1, <1>2, <1>3 DEF Vector
  <2>5. F[n + 1] = Select(t, WantedIn(t))
    BY <2>1, <1>1, <1>2, WantedFromOne
  <2>6. f[n] = Select(s, WantedIn(s))
    BY <1>5, <2>1
  <2> HIDE DEF s, t
  <2>7. /\ Sequential(s \o t) /\ Len(s \o t) = Len(s) + Len(t)
        /\ \A i \in 1 .. Len(s) : (s \o t)[i] = s[i]
        /\ \A i \in 1 .. Len(t) : (s \o t)[Len(s) + i] = t[i]
    BY <2>4, Concatenation
  <2>8. Len(s) \in Nat /\ Len(t) \in Nat
    BY <2>4, SequenceFacts
  <2>9. /\ \A i \in 1 .. Len(s) : i \in WantedIn(s \o t) <=> i \in WantedIn(s)
        /\ \A i \in 1 .. Len(t) : Len(s) + i \in WantedIn(s \o t) <=> i \in WantedIn(t)
    BY <2>7, <2>8 DEF WantedIn
  <2>10. Select(s \o t, WantedIn(s \o t)) = Select(s, WantedIn(s)) \o Select(t, WantedIn(t))
    <3>1. Splits(WantedIn(s \o t), s, t, WantedIn(s), WantedIn(t))
      BY <2>9 DEF Splits
    <3> QED BY <2>4, <3>1, SelectJoin
  <2>11. f[n + 1] = Select(s, WantedIn(s)) \o Select(t, WantedIn(t)) /\ h[n + 1] = s \o t
    BY <2>2, <2>3, <2>5, <2>6 DEF s, t
  <2> QED BY <2>10, <2>11
<1>6. \A n \in Nat : Good(n)
  <2> HIDE DEF Good
  <2>1. 0 \in A /\ \A n \in Nat : n \in A => n + 1 \in A
    BY <1>4, <1>5
  <2> HIDE DEF A
  <2>2. \A n \in Nat : n \in A
    BY <2>1, Induction
  <2> QED BY <2>2 DEF A
<1> QED BY <1>0, <1>6

-----------------------------------------------------------------------------
(* The enumeration, test by test. *)

CollectedUpTo(n) == FlattenSeq([index \in 1 .. n |-> Collected(index, queries, sample)])

PlansOf(s) == PlanOf({p \in DOMAIN runs : InShard(s, p)})

Enumerated ==
  /\ at \in 0 .. Len(registry)
  /\ runs = CollectedUpTo(at)

Planned ==
  pc \in {"serve", "served"} => at = Len(registry) /\ plans = [s \in Shards |-> PlansOf(s)]

SelInv == Linked /\ pc \in {"collect", "serve", "served", "aborted"} /\ Enumerated /\ Planned

LEMMA CollectedParts ==
  ASSUME Linked, NEW f, Parts(f, PerTest(queries, sample)), NEW n \in 0 .. Len(registry)
  PROVE  CollectedUpTo(n) = f[n]
<1> DEFINE ss == PerTest(queries, sample)
           pre == [index \in 1 .. n |-> Collected(index, queries, sample)]
<1>1. /\ Vector(ss) /\ Len(ss) = Len(registry) /\ Len(registry) \in Nat
      /\ \A i \in 1 .. Len(registry) : ss[i] = Collected(i, queries, sample)
  BY PerTestFacts
<1>2. n \in Nat /\ 1 .. n \subseteq 1 .. Len(registry)
  BY <1>1
<1>3. pre = [i \in 1 .. n |-> pre[i]] /\ \A i \in 1 .. n : pre[i] = Collected(i, queries, sample)
  OBVIOUS
<1> HIDE DEF ss, pre
<1>4. Sequential(pre) /\ Len(pre) = n
  BY <1>2, <1>3, SequenceMade
<1>5. Vector(pre)
  BY <1>2, <1>3, <1>4, CollectedSequential DEF Vector
<1>6. Parts(f, pre)
  <2>1. f[0] = <<>> /\ \A i \in 1 .. Len(registry) : f[i] = f[i - 1] \o ss[i]
    BY <1>1 DEF Parts, ss
  <2> QED BY <2>1, <1>1, <1>2, <1>3, <1>4 DEF Parts
<1>7. FlattenSeq(pre) = f[n]
  BY <1>4, <1>5, <1>6, FlattenParts
<1> QED BY <1>7 DEF pre, CollectedUpTo

LEMMA CollectedNext ==
  ASSUME Linked, NEW n \in 0 .. Len(registry), n < Len(registry)
  PROVE  CollectedUpTo(n + 1) = CollectedUpTo(n) \o Collected(n + 1, queries, sample)
<1> DEFINE ss == PerTest(queries, sample)
<1>1. /\ Vector(ss) /\ Len(ss) = Len(registry) /\ Len(registry) \in Nat
      /\ \A i \in 1 .. Len(registry) : ss[i] = Collected(i, queries, sample)
  BY PerTestFacts
<1>2. PICK f : Parts(f, ss)
  BY <1>1, PartsExist
<1>3. n + 1 \in 1 .. Len(registry) /\ n + 1 \in 0 .. Len(registry) /\ (n + 1) - 1 = n
  BY <1>1
<1>4. CollectedUpTo(n) = f[n] /\ CollectedUpTo(n + 1) = f[n + 1]
  BY <1>2, <1>3, CollectedParts
<1>5. f[n + 1] = f[n] \o ss[n + 1]
  <2> HIDE DEF ss
  <2> QED BY <1>1, <1>2, <1>3 DEF Parts
<1> QED BY <1>1, <1>3, <1>4, <1>5

LEMMA CollectedSequence ==
  ASSUME Linked, NEW n \in 0 .. Len(registry)
  PROVE  Sequential(CollectedUpTo(n))
<1> DEFINE ss == PerTest(queries, sample)
<1>1. Vector(ss) /\ Len(ss) = Len(registry)
  BY PerTestFacts
<1>2. PICK f : Parts(f, ss)
  BY <1>1, PartsExist
<1>3. CollectedUpTo(n) = f[n]
  BY <1>2, CollectedParts
<1> QED BY <1>1, <1>2, <1>3, PartsSequential

LEMMA CollectedStays ==
  ASSUME registry' = registry, queries' = queries, sample' = sample
  PROVE  \A n : CollectedUpTo(n)' = CollectedUpTo(n)
BY DEF CollectedUpTo, Collected, CaseRuns, CaseRun

LEMMA SelInit ==
  Init => SelInv
<1> SUFFICES ASSUME Init PROVE SelInv
  OBVIOUS
<1>1. Linked
  BY DEF Init, Linked
<1>2. Len(registry) \in Nat
  BY <1>1, LinkedTests, SequenceFacts
<1>3. CollectedUpTo(0) = <<>>
  <2>1. [index \in 1 .. 0 |-> Collected(index, queries, sample)] = <<>>
    OBVIOUS
  <2> QED BY <2>1, EmptySequential DEF CollectedUpTo, FlattenSeq
<1> QED BY <1>1, <1>2, <1>3 DEF Init, SelInv, Enumerated, Planned

LEMMA SelNext ==
  SelInv /\ [Next]_vars => SelInv'
<1> SUFFICES ASSUME SelInv, [Next]_vars PROVE SelInv'
  OBVIOUS
<1> USE DEF SelInv
<1>0. Len(registry) \in Nat
  BY LinkedTests, SequenceFacts
<1>1. UNCHANGED <<registry, queries, sample>>
  BY DEF Next, vars, SkipTest, CollectTest, AbortOnCollision, WritePlans, StartWorker, ShardByHand, StartIsolated,
         RunByHand
<1>2. Linked'
  BY <1>1 DEF Linked
<1>3. pc' \in {"collect", "serve", "served", "aborted"}
  BY DEF Next, vars, SkipTest, CollectTest, AbortOnCollision, WritePlans, StartWorker, ShardByHand, StartIsolated,
         RunByHand
<1>4. \A n : CollectedUpTo(n)' = CollectedUpTo(n)
  BY <1>1, CollectedStays
<1>5. ASSUME UNCHANGED <<at, runs>> PROVE Enumerated'
  BY <1>1, <1>4, <1>5 DEF Enumerated
<1>6. ASSUME UNCHANGED <<at, runs, plans>>, pc' \in {"serve", "served"} => pc \in {"serve", "served"}
      PROVE  Planned'
  <2>1. \A s : PlansOf(s)' = PlansOf(s)
    BY <1>1, <1>6 DEF PlansOf, PlanOf
  <2> QED BY <1>1, <1>6, <2>1 DEF Planned
<1>7. CASE SkipTest
  <2>1. Collected(at + 1, queries, sample) = <<>>
    BY <1>7 DEF SkipTest, Asked, Collected
  <2>2. CollectedUpTo(at + 1) = CollectedUpTo(at) \o <<>>
    BY <1>7, <2>1, CollectedNext DEF SkipTest, Enumerated
  <2>3. Sequential(runs) /\ runs = CollectedUpTo(at)
    BY CollectedSequence DEF Enumerated
  <2>4. runs \o <<>> = runs
    BY <2>3 DEF Sequential
  <2>5. runs' = CollectedUpTo(at') /\ at' \in 0 .. Len(registry)
    BY <1>0, <1>7, <2>2, <2>3, <2>4 DEF SkipTest, Enumerated
  <2>6. Enumerated'
    BY <1>1, <1>4, <2>5 DEF Enumerated
  <2> QED BY <1>2, <1>3, <1>7, <2>6 DEF SkipTest, Planned
<1>8. CASE CollectTest
  <2>1. runs' = CollectedUpTo(at) \o Collected(at + 1, queries, sample) /\ at' = at + 1
    BY <1>8 DEF CollectTest, Enumerated
  <2>2. at < Len(registry)
    BY <1>8 DEF CollectTest
  <2>3. CollectedUpTo(at + 1) = CollectedUpTo(at) \o Collected(at + 1, queries, sample)
    BY <2>2, CollectedNext DEF Enumerated
  <2>4. runs' = CollectedUpTo(at')
    BY <2>1, <2>3
  <2>5. at' \in 0 .. Len(registry)
    BY <1>0, <2>1, <2>2 DEF Enumerated
  <2>6. Enumerated'
    BY <1>1, <1>4, <2>4, <2>5 DEF Enumerated
  <2> QED BY <1>2, <1>3, <1>8, <2>6 DEF CollectTest, Planned
<1>9. CASE AbortOnCollision
  BY <1>2, <1>3, <1>5, <1>6, <1>9 DEF AbortOnCollision
<1>10. CASE WritePlans
  <2>1. \A s : PlansOf(s)' = PlansOf(s)
    BY <1>1, <1>10 DEF WritePlans, PlansOf, PlanOf
  <2>2. plans' = [s \in Shards |-> PlansOf(s)]
    BY <1>10, Zenon DEF WritePlans, PlansOf
  <2>3. Planned'
    BY <1>1, <1>10, <2>1, <2>2 DEF WritePlans, Planned
  <2> QED BY <1>2, <1>3, <1>5, <1>10, <2>3 DEF WritePlans
<1>11. CASE StartWorker
  BY <1>2, <1>3, <1>5, <1>6, <1>11 DEF StartWorker
<1>12. CASE ShardByHand
  BY <1>2, <1>3, <1>5, <1>6, <1>12 DEF ShardByHand
<1>13. CASE StartIsolated
  BY <1>2, <1>3, <1>5, <1>6, <1>13 DEF StartIsolated
<1>14. CASE RunByHand
  BY <1>2, <1>3, <1>5, <1>6, <1>14 DEF RunByHand
<1>15. CASE UNCHANGED vars
  BY <1>2, <1>3, <1>5, <1>6, <1>15 DEF vars
<1> QED BY <1>7, <1>8, <1>9, <1>10, <1>11, <1>12, <1>13, <1>14, <1>15 DEF Next

LEMMA RunsAreWanted ==
  SelInv => SelectionIsAFilter
<1> SUFFICES ASSUME SelInv, pc = "serve"
             PROVE  LET all == CollectedCases({Everything}, sample)
                    IN  runs = Select(all, {i \in DOMAIN all :
                          \E q \in queries : MatchesCase(q, registry[all[i].test], all[i].params)})
  BY Zenon DEF SelectionIsAFilter
<1>1. Linked /\ Enumerated /\ at = Len(registry)
  BY DEF SelInv, Planned
<1> DEFINE ss == PerTest(queries, sample)
           tt == PerTest({Everything}, sample)
           all == CollectedCases({Everything}, sample)
<1>2. Vector(ss) /\ Vector(tt) /\ Len(tt) = Len(registry) /\ all = FlattenSeq(tt)
  BY <1>1, PerTestFacts
<1>3. PICK f : Parts(f, ss)
  BY <1>2, PartsExist
<1>4. PICK h : Parts(h, tt) /\ all = h[Len(registry)]
  BY <1>2, PartsExist
<1>5. Len(registry) \in 0 .. Len(registry)
  BY <1>1 DEF Enumerated
<1>6. runs = f[Len(registry)]
  BY <1>1, <1>3, <1>5, CollectedParts DEF Enumerated
<1>7. f[Len(registry)] = Select(h[Len(registry)], WantedIn(h[Len(registry)]))
  BY <1>1, <1>3, <1>4, <1>5, WantedFromParts
<1>8. Sequential(all)
  BY <1>2, <1>4, <1>5, PartsSequential
<1> HIDE DEF all
<1>9. WantedIn(all) = {i \in DOMAIN all : \E q \in queries : MatchesCase(q, registry[all[i].test], all[i].params)}
  BY <1>8, SequenceFacts, Zenon DEF WantedIn, Wanted
<1>10. runs = Select(all, WantedIn(all))
  BY <1>4, <1>6, <1>7
<1> QED BY <1>9, <1>10 DEF all

(* Whatever is registered and asked for: what runs is what the whole suite   *)
(* runs, sampled alike, less the cases that no query matches.               *)
THEOREM QueriesOnlyChoose == Spec => []SelectionIsAFilter
<1>1. Init => SelInv
  BY SelInit
<1>2. SelInv /\ [Next]_vars => SelInv'
  BY SelNext
<1>3. SelInv => SelectionIsAFilter
  BY RunsAreWanted
<1> QED BY <1>1, <1>2, <1>3, PTL DEF Spec

-----------------------------------------------------------------------------
(* The runs are cases of the linked tests. *)

CasesAt(t) == CasesOf(registry[t], sample)

OfCase(run) == \E t \in 1 .. Len(registry) : \E k \in 1 .. Len(CasesAt(t)) : run = CaseRun(t, CasesAt(t)[k])

OfCases(s) == \A i \in 1 .. Len(s) : OfCase(s[i])

LEMMA CasesAtVector ==
  ASSUME Linked, NEW t \in 1 .. Len(registry)
  PROVE  CaseVector(CasesAt(t))
BY LinkedTests, CasesOfCases DEF CasesAt

LEMMA CollectedOfCases ==
  ASSUME Linked, NEW index \in 1 .. Len(registry)
  PROVE  OfCases(Collected(index, queries, sample))
<1> DEFINE cases == CasesAt(index)
           I == Chosen(cases, registry[index], queries)
           sel == Select(cases, I)
<1>1. Sequential(cases)
  BY CasesAtVector DEF CaseVector
<1>2. Collected(index, queries, sample) = Runs(index, sel)
  BY CollectedRuns DEF CasesAt
<1> HIDE DEF cases, I
<1>3. Sequential(sel) /\ \A j \in 1 .. Len(sel) : \E i \in 1 .. Len(cases) : sel[j] = cases[i]
  BY <1>1, SelectSequential, SelectElements
<1> HIDE DEF sel
<1>4. Len(Runs(index, sel)) = Len(sel) /\ \A j \in 1 .. Len(sel) : Runs(index, sel)[j] = CaseRun(index, sel[j])
  BY <1>3, RunsFacts
<1>5. ASSUME NEW j \in 1 .. Len(sel) PROVE OfCase(Runs(index, sel)[j])
  <2>1. PICK i \in 1 .. Len(cases) : sel[j] = cases[i]
    BY <1>3
  <2>2. Runs(index, sel)[j] = CaseRun(index, cases[i])
    BY <1>4, <2>1
  <2> QED BY <2>2, Zenon DEF OfCase, cases
<1> QED BY <1>2, <1>4, <1>5 DEF OfCases

LEMMA JoinedOfCases ==
  ASSUME NEW s, NEW t, Sequential(s), Sequential(t), OfCases(s), OfCases(t)
  PROVE  OfCases(s \o t)
<1>1. Len(s) \in Nat /\ Len(t) \in Nat
  BY SequenceFacts
<1>2. /\ Len(s \o t) = Len(s) + Len(t)
      /\ \A i \in 1 .. Len(s) : (s \o t)[i] = s[i]
      /\ \A i \in 1 .. Len(t) : (s \o t)[Len(s) + i] = t[i]
  BY Concatenation
<1>3. ASSUME NEW i \in 1 .. Len(s) + Len(t) PROVE OfCase((s \o t)[i])
  <2>1. CASE i <= Len(s)
    <3>1. i \in 1 .. Len(s)
      BY <1>1, <2>1
    <3> QED BY <3>1, <1>2 DEF OfCases
  <2>2. CASE ~(i <= Len(s))
    <3>1. i - Len(s) \in 1 .. Len(t) /\ i = Len(s) + (i - Len(s))
      BY <1>1, <2>2
    <3>2. (s \o t)[i] = t[i - Len(s)]
      BY <3>1, <1>2
    <3> QED BY <3>1, <3>2 DEF OfCases
  <2> QED BY <2>1, <2>2
<1> QED BY <1>2, <1>3 DEF OfCases

LEMMA PartsOfCases ==
  ASSUME Linked, NEW f, Parts(f, PerTest(queries, sample))
  PROVE  \A n \in 0 .. Len(registry) : OfCases(f[n])
<1> DEFINE ss == PerTest(queries, sample)
           A == {n \in Nat : n <= Len(registry) => OfCases(f[n])}
<1>1. /\ Vector(ss) /\ Len(ss) = Len(registry) /\ Len(registry) \in Nat
      /\ \A i \in 1 .. Len(registry) : ss[i] = Collected(i, queries, sample)
  BY PerTestFacts
<1>2. \A i \in 0 .. Len(registry) : Sequential(f[i])
  BY <1>1, PartsSequential
<1>3. 0 \in A
  <2>1. f[0] = <<>>
    BY DEF Parts
  <2> QED BY <2>1, EmptySequential DEF OfCases
<1>4. ASSUME NEW n \in Nat, n \in A PROVE n + 1 \in A
  <2> SUFFICES ASSUME n + 1 <= Len(registry) PROVE OfCases(f[n + 1])
    OBVIOUS
  <2>1. n \in 0 .. Len(registry) /\ n + 1 \in 1 .. Len(registry) /\ (n + 1) - 1 = n /\ n <= Len(registry)
    BY <1>1
  <2>2. f[n + 1] = f[n] \o ss[n + 1]
    <3> HIDE DEF ss
    <3> QED BY <2>1, <1>1 DEF Parts, ss
  <2>3. OfCases(ss[n + 1]) /\ Sequential(ss[n + 1])
    BY <2>1, <1>1, CollectedOfCases DEF Vector
  <2>4. OfCases(f[n]) /\ Sequential(f[n])
    BY <1>2, <1>4, <2>1
  <2> HIDE DEF ss
  <2> QED BY <2>2, <2>3, <2>4, JoinedOfCases
<1>5. \A n \in Nat : n \in A
  <2> HIDE DEF A
  <2> QED BY <1>3, <1>4, Induction
<1> QED BY <1>1, <1>5

LEMMA EnumeratedRuns ==
  ASSUME SelInv
  PROVE  Sequential(runs) /\ OfCases(runs)
<1>1. Linked /\ at \in 0 .. Len(registry) /\ runs = CollectedUpTo(at)
  BY DEF SelInv, Enumerated
<1>2. Vector(PerTest(queries, sample))
  BY <1>1, PerTestFacts
<1>3. PICK f : Parts(f, PerTest(queries, sample))
  BY <1>2, PartsExist
<1>4. runs = f[at]
  BY <1>1, <1>3, CollectedParts
<1> QED BY <1>1, <1>3, <1>4, PartsOfCases, CollectedSequence

(* A run is the row of its test and of its own parameters and subcases. *)
LEMMA RunOfCase ==
  ASSUME Linked, NEW run, OfCase(run)
  PROVE  /\ run.test \in 1 .. Len(registry)
         /\ run = CaseRun(run.test, [params |-> run.params, subcases |-> run.subcases])
         /\ \E k \in 1 .. Len(CasesAt(run.test)) : run = CaseRun(run.test, CasesAt(run.test)[k])
<1>0. PICK t \in 1 .. Len(registry) : \E k \in 1 .. Len(CasesAt(t)) : run = CaseRun(t, CasesAt(t)[k])
  BY DEF OfCase
<1>1. PICK k \in 1 .. Len(CasesAt(t)) : run = CaseRun(t, CasesAt(t)[k])
  BY <1>0
<1> DEFINE c == CasesAt(t)[k]
<1>2. c = [params |-> c.params, subcases |-> c.subcases]
  BY <1>1, CasesAtVector DEF CaseVector, CaseLike
<1>3. run = CaseRun(t, c)
  BY <1>1
<1> HIDE DEF c
<1>4. run.test = t /\ run.params = c.params /\ run.subcases = c.subcases
  BY <1>3, CaseRunFields
<1>5. run = CaseRun(run.test, [params |-> run.params, subcases |-> run.subcases])
  BY <1>2, <1>3, <1>4
<1> QED BY <1>1, <1>4, <1>5

-----------------------------------------------------------------------------
(* What is read from a plan. *)

Entry(p) ==
  [position |-> p, file |-> registry[runs[p].test].file, test |-> registry[runs[p].test].test,
   params |-> runs[p].params, subcases |-> runs[p].subcases]

Entries == [p \in 1 .. Len(runs) |-> Entry(p)]

Pair(p) == <<p, runs[p]>>

Pairs == [p \in 1 .. Len(runs) |-> Pair(p)]

Named(e) == {i \in 1 .. Len(registry) : registry[i].file = e.file /\ registry[i].test = e.test}

Found(e) == IF Named(e) # {} THEN Min(Named(e)) ELSE 0

Row(e) == <<e.position, CaseRun(Found(e), [params |-> e.params, subcases |-> e.subcases])>>

LEMMA PlanEntries ==
  ASSUME Sequential(runs), NEW I
  PROVE  PlanOf(I) = Select(Entries, I)
<1>1. DOMAIN runs = 1 .. Len(runs)
  BY SequenceFacts
<1> QED BY <1>1, Zenon DEF PlanOf, Entries, Entry

LEMMA LoadedRows ==
  ASSUME NEW plan
  PROVE  Loaded(plan) = [i \in DOMAIN plan |-> Row(plan[i])]
BY Zenon DEF Loaded, SelectInSeq, Row, Found, Named

(* No other test has the names of an entry. *)
LEMMA EntryRow ==
  ASSUME SelInv, NEW p \in 1 .. Len(runs)
  PROVE  Row(Entry(p)) = Pair(p)
<1>1. Linked /\ OfCase(runs[p])
  BY EnumeratedRuns DEF SelInv, OfCases
<1> DEFINE e == Entry(p)
           t == runs[p].test
<1>2. /\ t \in 1 .. Len(registry)
      /\ runs[p] = CaseRun(t, [params |-> runs[p].params, subcases |-> runs[p].subcases])
  BY <1>1, RunOfCase
<1>3. /\ e.position = p /\ e.file = registry[t].file /\ e.test = registry[t].test
      /\ e.params = runs[p].params /\ e.subcases = runs[p].subcases
  BY DEF Entry
<1> HIDE DEF e, t
<1>4. Named(e) = {t}
  <2>1. \A j \in 1 .. Len(registry) :
          registry[j].file = registry[t].file /\ registry[j].test = registry[t].test => j = t
    BY <1>1, <1>2, LinkedTests
  <2> QED BY <1>2, <1>3, <2>1 DEF Named
<1>5. Found(e) = t
  <2>1. t \in Nat
    BY <1>1, <1>2, LinkedTests, SequenceFacts
  <2> QED BY <1>4, <2>1 DEF Found, Min
<1>6. Row(e) = <<p, CaseRun(t, [params |-> runs[p].params, subcases |-> runs[p].subcases])>>
  BY <1>3, <1>5 DEF Row
<1>7. Row(e) = Pair(p)
  BY <1>2, <1>6 DEF Pair
<1> QED BY <1>7 DEF e

LEMMA LoadedPlan ==
  ASSUME SelInv, NEW I, NEW g, Lists(g, I \cap (1 .. Len(runs)))
  PROVE  Loaded(PlanOf(I)) = Read(Pairs, g)
<1> DEFINE n == Len(runs)
           J == I \cap (1 .. n)
           plan == PlanOf(I)
<1>1. Sequential(runs) /\ n \in Nat
  BY EnumeratedRuns, SequenceFacts
<1>2. g \in Seq(J) /\ Len(g) \in Nat /\ \A j \in 1 .. Len(g) : g[j] \in J
  <2> HIDE DEF J
  <2>1. g \in Seq(J)
    BY DEF Lists, J
  <2> QED BY <2>1
<1>3. Sequential(Entries) /\ Len(Entries) = n
  <2>1. Entries = [i \in 1 .. n |-> Entries[i]]
    BY DEF Entries
  <2> HIDE DEF n
  <2> QED BY <1>1, <2>1, SequenceMade
<1>4. plan = Read(Entries, g)
  BY <1>1, <1>3, PlanEntries, SelectRead
<1> HIDE DEF plan
<1>5. DOMAIN plan = 1 .. Len(g) /\ \A j \in 1 .. Len(g) : plan[j] = Entries[g[j]]
  BY <1>4 DEF Read
<1>6. ASSUME NEW j \in 1 .. Len(g) PROVE Row(plan[j]) = Pairs[g[j]]
  <2>1. g[j] \in 1 .. n
    BY <1>2
  <2>2. plan[j] = Entry(g[j]) /\ Pairs[g[j]] = Pair(g[j])
    BY <1>5, <2>1 DEF Entries, Pairs
  <2> QED BY <2>1, <2>2, EntryRow
<1>7. Loaded(plan) = [j \in 1 .. Len(g) |-> Row(plan[j])]
  BY <1>5, LoadedRows
<1>8. Loaded(plan) = Read(Pairs, g)
  BY <1>6, <1>7 DEF Read
<1> QED BY <1>8 DEF plan

-----------------------------------------------------------------------------
(* What a worker serves. *)

Due(s, from) == {p \in from .. Len(runs) : InShard(s, p)}

ServedRight(sel, s, from) ==
  /\ sel = [i \in DOMAIN sel |-> <<sel[i][1], runs[sel[i][1]]>>]
  /\ {e[1] : e \in ToSet(sel)} = Due(s, from)
  /\ \A i, j \in DOMAIN sel : i < j => sel[i][1] < sel[j][1]

LEMMA PairsServed ==
  ASSUME Sequential(runs), NEW J, J \subseteq 1 .. Len(runs), NEW g, Lists(g, J), NEW s, NEW from \in Nat \ {0},
         \A p \in Due(s, from) : p \in J
  PROVE  ServedRight(Served(Read(Pairs, g), s, from), s, from)
<1> DEFINE entries == Read(Pairs, g)
           I == {i \in DOMAIN entries : entries[i][1] >= from /\ InShard(s, entries[i][1])}
           sel == Select(entries, I)
<1>1. /\ g \in Seq(J) /\ Len(g) \in Nat /\ Rises(g)
      /\ \A k \in J : \E i \in 1 .. Len(g) : g[i] = k
  BY DEF Lists
<1>2. Len(runs) \in Nat
  BY SequenceFacts
<1>3. Sequential(entries) /\ Len(entries) = Len(g) /\ \A i \in 1 .. Len(g) : entries[i] = Pairs[g[i]]
  BY <1>1, ReadFacts
<1>4. ASSUME NEW i \in 1 .. Len(g)
      PROVE  g[i] \in J /\ g[i] \in 1 .. Len(runs) /\ entries[i] = <<g[i], runs[g[i]]>> /\ entries[i][1] = g[i]
  <2>1. g[i] \in J
    BY <1>1
  <2>2. entries[i] = Pair(g[i])
    BY <1>3, <2>1 DEF Pairs
  <2> HIDE DEF entries
  <2>3. entries[i] = <<g[i], runs[g[i]]>>
    BY <2>2 DEF Pair
  <2>4. g[i] \in 1 .. Len(runs)
    BY <2>1
  <2>5. entries[i][1] = g[i]
    BY <2>3
  <2> QED BY <2>1, <2>3, <2>4, <2>5
<1> HIDE DEF entries
<1>5. PICK h : Lists(h, I \cap (1 .. Len(entries))) /\ sel = Read(entries, h)
  <2> HIDE DEF I
  <2> QED BY <1>3, SelectLists DEF sel
<1>6. I \cap (1 .. Len(entries)) = I /\ I = {i \in 1 .. Len(g) : g[i] >= from /\ InShard(s, g[i])}
  <2>1. DOMAIN entries = 1 .. Len(g)
    BY <1>3, SequenceFacts
  <2> QED BY <1>3, <1>4, <2>1
<1>7. h \in Seq(I) /\ Len(h) \in Nat /\ Rises(h) /\ \A k \in I : \E i \in 1 .. Len(h) : h[i] = k
  <2>1. Lists(h, I)
    BY <1>5, <1>6
  <2> HIDE DEF I
  <2> QED BY <2>1 DEF Lists
<1>8. \A j \in 1 .. Len(h) : h[j] \in I
  <2> HIDE DEF I
  <2> QED BY <1>7
<1>9. Len(sel) = Len(h) /\ DOMAIN sel = 1 .. Len(h) /\ \A j \in 1 .. Len(h) : sel[j] = entries[h[j]]
  <2> HIDE DEF I
  <2>1. sel = Read(entries, h)
    BY <1>5
  <2> HIDE DEF sel
  <2>2. Sequential(sel) /\ Len(sel) = Len(h) /\ \A j \in 1 .. Len(h) : sel[j] = entries[h[j]]
    BY <2>1, <1>7, ReadFacts
  <2> QED BY <2>2, SequenceFacts
<1>10. ASSUME NEW j \in 1 .. Len(h)
       PROVE  /\ h[j] \in 1 .. Len(g) /\ g[h[j]] \in Due(s, from)
              /\ sel[j] = <<g[h[j]], runs[g[h[j]]]>> /\ sel[j][1] = g[h[j]]
  <2>1. h[j] \in 1 .. Len(g) /\ g[h[j]] >= from /\ InShard(s, g[h[j]])
    BY <1>6, <1>8
  <2>2. g[h[j]] \in 1 .. Len(runs) /\ entries[h[j]] = <<g[h[j]], runs[g[h[j]]]>>
    BY <1>4, <2>1
  <2>3. sel[j] = <<g[h[j]], runs[g[h[j]]]>>
    BY <1>9, <2>2
  <2>4. g[h[j]] \in Due(s, from)
    BY <1>2, <2>1, <2>2 DEF Due
  <2> HIDE DEF sel
  <2> QED BY <2>1, <2>3, <2>4
<1>11. ASSUME NEW p \in Due(s, from) PROVE \E j \in 1 .. Len(h) : sel[j][1] = p
  <2>1. p \in J /\ p >= from /\ InShard(s, p)
    BY <1>2 DEF Due
  <2>2. PICK i \in 1 .. Len(g) : g[i] = p
    BY <1>1, <2>1
  <2>3. i \in I
    BY <1>6, <2>1, <2>2
  <2>4. PICK j \in 1 .. Len(h) : h[j] = i
    <3> HIDE DEF I
    <3> QED BY <1>7, <2>3
  <2> HIDE DEF sel
  <2> QED BY <1>10, <2>2, <2>4
<1> HIDE DEF I, sel
<1>12. sel = [i \in DOMAIN sel |-> <<sel[i][1], runs[sel[i][1]]>>]
  <2>1. sel = Read(entries, h)
    BY <1>5 DEF sel
  <2>2. sel = [j \in 1 .. Len(h) |-> sel[j]]
    BY <2>1 DEF Read
  <2>3. \A j \in 1 .. Len(h) : sel[j] = <<sel[j][1], runs[sel[j][1]]>>
    BY <1>10
  <2> QED BY <1>9, <2>2, <2>3
<1>13. {e[1] : e \in ToSet(sel)} = Due(s, from)
  <2>1. ToSet(sel) = {sel[j] : j \in 1 .. Len(h)}
    BY <1>9, Zenon DEF ToSet
  <2>2. ASSUME NEW e \in ToSet(sel) PROVE e[1] \in Due(s, from)
    <3>1. PICK j \in 1 .. Len(h) : e = sel[j]
      BY <2>1
    <3> QED BY <3>1, <1>10
  <2>3. ASSUME NEW p \in Due(s, from) PROVE \E e \in ToSet(sel) : p = e[1]
    <3>1. PICK j \in 1 .. Len(h) : sel[j][1] = p
      BY <1>11
    <3>2. sel[j] \in ToSet(sel)
      BY <2>1
    <3> QED BY <3>1, <3>2
  <2> QED BY <2>2, <2>3, Zenon
<1>14. ASSUME NEW i \in DOMAIN sel, NEW j \in DOMAIN sel, i < j PROVE sel[i][1] < sel[j][1]
  <2>1. i \in 1 .. Len(h) /\ j \in 1 .. Len(h)
    BY <1>9
  <2>2. h[i] < h[j] /\ h[i] \in 1 .. Len(g) /\ h[j] \in 1 .. Len(g)
    BY <1>7, <1>10, <1>14, <2>1 DEF Rises
  <2>3. g[h[i]] < g[h[j]]
    BY <1>1, <2>2 DEF Rises
  <2> QED BY <1>10, <2>1, <2>3
<1>15. Served(entries, s, from) = sel
  BY Zenon DEF Served, sel, I
<1>16. ServedRight(sel, s, from)
  BY <1>12, <1>13, <1>14 DEF ServedRight
<1> QED BY <1>15, <1>16 DEF entries

(* A worker that was given its plan, and one that enumerates by itself. *)
LEMMA PlannedWorker ==
  ASSUME SelInv, NEW s, NEW from \in 1 .. Len(runs)
  PROVE  ServedRight(Served(Loaded(PlansOf(s)), s, from), s, from)
<1> DEFINE I == {p \in DOMAIN runs : InShard(s, p)}
           J == I \cap (1 .. Len(runs))
<1>1. Sequential(runs) /\ Len(runs) \in Nat /\ DOMAIN runs = 1 .. Len(runs)
  BY EnumeratedRuns, SequenceFacts
<1>2. Sequential(Entries) /\ Len(Entries) = Len(runs)
  <2>1. Entries = [i \in 1 .. Len(runs) |-> Entries[i]]
    BY DEF Entries
  <2> QED BY <1>1, <2>1, SequenceMade
<1>3. PICK g : Lists(g, J)
  <2> HIDE DEF I
  <2> QED BY <1>2, SelectLists
<1>4. Loaded(PlansOf(s)) = Read(Pairs, g)
  <2> HIDE DEF I
  <2>1. Loaded(PlanOf(I)) = Read(Pairs, g)
    BY <1>3, LoadedPlan
  <2> QED BY <2>1, Zenon DEF PlansOf, I
<1>5. J \subseteq 1 .. Len(runs) /\ \A p \in Due(s, from) : p \in J
  BY <1>1 DEF Due
<1>6. from \in Nat \ {0}
  BY <1>1
<1> HIDE DEF J, I
<1>7. ServedRight(Served(Read(Pairs, g), s, from), s, from)
  BY <1>1, <1>3, <1>5, <1>6, PairsServed
<1> QED BY <1>4, <1>7

LEMMA UnplannedWorker ==
  ASSUME Sequential(runs), NEW s, NEW from \in 1 .. Len(runs)
  PROVE  ServedRight(Served(Pairs, s, from), s, from)
<1> DEFINE n == Len(runs)
<1>1. n \in Nat
  BY SequenceFacts
<1>2. Pairs = [p \in 1 .. n |-> Pairs[p]]
  BY DEF Pairs
<1>3. PICK g : Lists(g, 1 .. n) /\ Read(Pairs, g) = Pairs
  <2>1. Sequential(Pairs) /\ Len(Pairs) = n
    <3> HIDE DEF n
    <3> QED BY <1>1, <1>2, SequenceMade
  <2> HIDE DEF n
  <2>2. PICK g : Lists(g, (1 .. n) \cap (1 .. n)) /\ Select(Pairs, 1 .. n) = Read(Pairs, g)
    BY <2>1, SelectLists
  <2>3. Select(Pairs, 1 .. n) = Pairs
    BY <2>1, SelectAll
  <2>4. (1 .. n) \cap (1 .. n) = 1 .. n
    OBVIOUS
  <2> QED BY <2>2, <2>3, <2>4
<1>4. \A p \in Due(s, from) : p \in 1 .. n
  BY <1>1 DEF Due
<1>5. from \in Nat \ {0}
  BY <1>1
<1>6. ServedRight(Served(Read(Pairs, g), s, from), s, from)
  BY <1>3, <1>4, <1>5, PairsServed
<1> QED BY <1>3, <1>6

-----------------------------------------------------------------------------
(* A child of one case. *)

LEMMA OnePlanned ==
  ASSUME SelInv, NEW p \in 1 .. Len(runs)
  PROVE  Loaded(PlanOf({p})) = <<<<p, runs[p]>>>>
<1>1. p \in Nat /\ {p} \cap (1 .. Len(runs)) = {p}
  BY EnumeratedRuns, SequenceFacts
<1>2. Lists(<<p>>, {p})
  <2>1. <<p>> \in Seq({p}) /\ Len(<<p>>) = 1 /\ <<p>>[1] = p
    OBVIOUS
  <2> QED BY <2>1, <1>1 DEF Lists, Rises
<1>3. Loaded(PlanOf({p})) = Read(Pairs, <<p>>)
  BY <1>1, <1>2, LoadedPlan
<1>4. Pairs[p] = <<p, runs[p]>>
  BY DEF Pairs, Pair
<1>5. Read(Pairs, <<p>>) = <<Pairs[p]>>
  <2>1. Len(<<p>>) = 1 /\ <<p>>[1] = p
    OBVIOUS
  <2>2. Read(Pairs, <<p>>) = [j \in 1 .. 1 |-> Pairs[<<p>>[j]]]
    BY <2>1 DEF Read
  <2> QED BY <2>1, <2>2
<1> QED BY <1>3, <1>4, <1>5

(* Sampling keeps the parameters of the cases that it keeps, and their order. *)
Keeps(m, cases, all) ==
  /\ m \in [1 .. Len(cases) -> 1 .. Len(all)]
  /\ \A j, k \in 1 .. Len(cases) : m[j] = m[k] => j = k
  /\ \A j \in 1 .. Len(cases) : cases[j].params = all[m[j]].params

LEMMA KeepsSelf ==
  ASSUME NEW all
  PROVE  \E m : Keeps(m, all, all)
<1> DEFINE m == [j \in 1 .. Len(all) |-> j]
<1>1. Keeps(m, all, all)
  BY DEF Keeps
<1> HIDE DEF m
<1> QED BY <1>1

LEMMA SampledKeeps ==
  ASSUME NEW all, CaseVector(all)
  PROVE  \E m : Keeps(m, Sampled(all), all)
<1> DEFINE I == {i \in DOMAIN all : HasKept(all[i])}
           kept == Select(all, I)
           thin == [i \in DOMAIN kept |-> Thinned(kept[i])]
<1>1. Sequential(all) /\ Len(all) \in Nat /\ \A i \in 1 .. Len(all) : CaseLike(all[i])
  BY SequenceFacts DEF CaseVector
<1>2. CASE Sampled(all) = all
  BY <1>2, KeepsSelf
<1>3. CASE Sampled(all) = thin
  <2> HIDE DEF I
  <2>1. PICK g : Lists(g, I \cap (1 .. Len(all))) /\ kept = Read(all, g)
    BY <1>1, SelectLists
  <2> DEFINE J == I \cap (1 .. Len(all))
             n == Len(g)
             m == [j \in 1 .. n |-> g[j]]
  <2>2. g \in Seq(J) /\ Rises(g)
    <3> HIDE DEF J
    <3> QED BY <2>1 DEF Lists, J
  <2>3. n \in Nat /\ \A j \in 1 .. n : g[j] \in J
    <3> HIDE DEF J
    <3> QED BY <2>2
  <2>4. DOMAIN kept = 1 .. n /\ \A j \in 1 .. n : kept[j] = all[g[j]]
    <3> HIDE DEF kept, n
    <3> QED BY <2>1 DEF Read, n
  <2>5. Len(thin) = n /\ \A j \in 1 .. n : thin[j] = Thinned(kept[j])
    <3> HIDE DEF kept
    <3>1. thin = [j \in 1 .. n |-> thin[j]] /\ \A j \in 1 .. n : thin[j] = Thinned(kept[j])
      BY <2>4
    <3> HIDE DEF thin, n
    <3> QED BY <3>1, <2>3, SequenceMade
  <2> HIDE DEF thin, kept, n
  <2>6. ASSUME NEW j \in 1 .. n PROVE thin[j].params = all[m[j]].params
    <3>1. g[j] \in 1 .. Len(all) /\ m[j] = g[j]
      BY <2>3
    <3>2. CaseLike(all[g[j]]) /\ thin[j] = Thinned(all[g[j]])
      BY <1>1, <2>4, <2>5, <3>1
    <3> HIDE DEF m
    <3> QED BY <3>1, <3>2, ThinnedCase
  <2>7. ASSUME NEW j \in 1 .. n, NEW k \in 1 .. n, m[j] = m[k] PROVE j = k
    <3>1. g[j] = g[k] /\ g[j] \in Nat /\ g[k] \in Nat
      BY <2>3, <2>7
    <3>2. j < k => g[j] < g[k]
      BY <2>2 DEF Rises, n
    <3>3. k < j => g[k] < g[j]
      BY <2>2 DEF Rises, n
    <3> QED BY <2>3, <3>1, <3>2, <3>3
  <2>8. m \in [1 .. n -> 1 .. Len(all)]
    BY <2>3
  <2> HIDE DEF m
  <2>9. Keeps(m, thin, all)
    BY <2>5, <2>6, <2>7, <2>8 DEF Keeps
  <2> QED BY <1>3, <2>9
<1>4. Sampled(all) = all \/ Sampled(all) = thin
  BY Zenon DEF Sampled
<1> QED BY <1>2, <1>3, <1>4

LEMMA CasesKeep ==
  ASSUME NEW test, Vectors(test.ops), NEW thin
  PROVE  \E m : Keeps(m, CasesOf(test, thin), Expanded(test.ops))
BY ExpandedCases, SampledKeeps, KeepsSelf DEF CasesOf

(* The query of a case names its test only. *)
LEMMA OtherTest ==
  ASSUME Linked, NEW t \in 1 .. Len(registry), NEW i \in 1 .. Len(registry), i # t, NEW params, NEW others
  PROVE  ~MatchesCase(CaseQuery(registry[t], params), registry[i], others)
<1> DEFINE q == CaseQuery(registry[t], params)
<1>1. /\ q.file.names = registry[t].file /\ q.file.star = FALSE
      /\ q.test.names = registry[t].test /\ q.test.star = FALSE
  BY DEF CaseQuery
<1>2. /\ registry[t].file # <<>> /\ registry[t].test # <<>>
      /\ ~(registry[i].file = registry[t].file /\ registry[i].test = registry[t].test)
  BY LinkedTests
<1> HIDE DEF q
<1>3. MatchesTest(q, registry[i]) => registry[t].file = registry[i].file /\ registry[t].test = registry[i].test
  BY <1>1, <1>2 DEF MatchesTest, Matches
<1> QED BY <1>2, <1>3 DEF MatchesCase, q

LEMMA OwnQuery ==
  ASSUME Linked, NEW t \in 1 .. Len(registry), NEW params
  PROVE  MatchesCase(CaseQuery(registry[t], params), registry[t], params)
<1> DEFINE q == CaseQuery(registry[t], params)
<1>1. /\ q.file.names = registry[t].file /\ q.file.star = FALSE
      /\ q.test.names = registry[t].test /\ q.test.star = FALSE
      /\ q.params = ParamsText(params)
  BY DEF CaseQuery
<1>2. registry[t].file # <<>> /\ registry[t].test # <<>>
  BY LinkedTests
<1> HIDE DEF q
<1>3. MatchesTest(q, registry[t])
  BY <1>1, <1>2 DEF MatchesTest, Matches
<1> QED BY <1>1, <1>3 DEF MatchesCase, q

LEMMA OtherCollected ==
  ASSUME Linked, NEW t \in 1 .. Len(registry), NEW i \in 1 .. Len(registry), i # t, NEW params
  PROVE  Collected(i, {CaseQuery(registry[t], params)}, sample) = <<>>
<1> DEFINE q == CaseQuery(registry[t], params)
           cases == CasesAt(i)
           I == Chosen(cases, registry[i], {q})
<1>1. \A k \in 1 .. Len(cases) : k \notin I
  <2>1. \A k \in 1 .. Len(cases) : ~MatchesCase(q, registry[i], cases[k].params)
    BY OtherTest
  <2> HIDE DEF q, cases
  <2> QED BY <2>1 DEF Chosen
<1>2. Sequential(cases)
  BY CasesAtVector DEF CaseVector
<1>3. Collected(i, {q}, sample) = Runs(i, Select(cases, I))
  BY CollectedRuns DEF CasesAt
<1> HIDE DEF I, cases
<1>4. Select(cases, I) = <<>>
  BY <1>1, <1>2, SelectNone
<1>5. Runs(i, <<>>) = <<>>
  BY DEF Runs
<1> QED BY <1>3, <1>4, <1>5

(* The cases of the test of a run that read like it. *)
Alike(run) ==
  LET cases == Expanded(registry[run.test].ops)
  IN  {i \in DOMAIN cases : MatchesCase(run.query, registry[run.test], cases[i].params)}

LEMMA OwnCollected ==
  ASSUME Linked, NEW run, OfCase(run), Cardinality(Alike(run)) = 1
  PROVE  Collected(run.test, {run.query}, sample) = <<run>>
<1> DEFINE t == run.test
           q == run.query
           cases == CasesAt(t)
           all == Expanded(registry[t].ops)
           I == Chosen(cases, registry[t], {q})
<1>1. t \in 1 .. Len(registry) /\ \E k \in 1 .. Len(cases) : run = CaseRun(t, cases[k])
  BY RunOfCase
<1>2. CaseVector(all) /\ CaseVector(cases) /\ \E m : Keeps(m, cases, all)
  BY <1>1, LinkedTests, ExpandedCases, CasesAtVector, CasesKeep DEF CasesAt
<1>3. /\ Collected(t, {q}, sample) = Runs(t, Select(cases, I))
      /\ Alike(run) = {i \in DOMAIN all : MatchesCase(q, registry[t], all[i].params)}
  BY <1>1, CollectedRuns DEF CasesAt, Alike
<1> DEFINE test == registry[t]
<1>4. \A k \in 1 .. Len(cases) : run = CaseRun(t, cases[k]) => MatchesCase(q, test, cases[k].params)
  <2> SUFFICES ASSUME NEW k \in 1 .. Len(cases), run = CaseRun(t, cases[k])
               PROVE  MatchesCase(q, test, cases[k].params)
    OBVIOUS
  <2>1. q = CaseQuery(registry[t], cases[k].params)
    BY CaseRunFields
  <2> QED BY <1>1, <2>1, OwnQuery
<1>5. I = {k \in 1 .. Len(cases) : MatchesCase(q, test, cases[k].params)}
  BY Zenon DEF Chosen
<1> HIDE DEF t, q, cases, all, I, test
<1>6. PICK k \in 1 .. Len(cases) : run = CaseRun(t, cases[k])
  BY <1>1
<1>7. PICK m : Keeps(m, cases, all)
  BY <1>2
<1>8. Sequential(all) /\ Sequential(cases)
  BY <1>2 DEF CaseVector
<1>9. Alike(run) = {i \in 1 .. Len(all) : MatchesCase(q, test, all[i].params)}
  BY <1>3, <1>8, SequenceFacts, Zenon DEF test
<1>10. PICK a : Alike(run) = {a}
  <2>1. IsFiniteSet(1 .. Len(all))
    <3>1. 1 \in Int /\ Len(all) \in Int
      BY <1>8, SequenceFacts
    <3> QED BY <3>1, FS_Interval
  <2>2. IsFiniteSet(Alike(run))
    BY <1>9, <2>1, FS_Subset
  <2> QED BY <2>2, FS_Singleton
<1>11. \A j \in I : m[j] = a /\ j \in 1 .. Len(cases)
  <2> SUFFICES ASSUME NEW j \in I PROVE m[j] = a /\ j \in 1 .. Len(cases)
    OBVIOUS
  <2>1. j \in 1 .. Len(cases) /\ MatchesCase(q, test, cases[j].params)
    BY <1>5
  <2>2. m[j] \in 1 .. Len(all) /\ cases[j].params = all[m[j]].params
    BY <1>7, <2>1 DEF Keeps
  <2>3. m[j] \in Alike(run)
    BY <1>9, <2>1, <2>2
  <2> QED BY <1>10, <2>1, <2>3
<1>12. k \in I
  BY <1>4, <1>5, <1>6
<1>13. I = {k}
  BY <1>7, <1>11, <1>12 DEF Keeps
<1>14. I \cap (1 .. Len(cases)) = {k}
  BY <1>6, <1>13
<1>15. Select(cases, I) = <<cases[k]>>
  BY <1>6, <1>8, <1>14, SelectOne
<1>16. Runs(t, <<cases[k]>>) = <<CaseRun(t, cases[k])>>
  <2>1. Len(<<cases[k]>>) = 1 /\ <<cases[k]>>[1] = cases[k]
    OBVIOUS
  <2> QED BY <2>1 DEF Runs
<1>17. Collected(t, {q}, sample) = <<run>>
  BY <1>3, <1>6, <1>15, <1>16
<1> QED BY <1>17 DEF t, q

LEMMA CollectedAlone ==
  ASSUME Linked, NEW run, OfCase(run), Cardinality(Alike(run)) = 1
  PROVE  CollectedCases({run.query}, sample) = <<run>>
<1> DEFINE t == run.test
           qs == {run.query}
           ss == PerTest(qs, sample)
           n == Len(registry)
<1>1. /\ Vector(ss) /\ Len(ss) = n /\ n \in Nat /\ CollectedCases(qs, sample) = FlattenSeq(ss)
      /\ \A i \in 1 .. n : ss[i] = Collected(i, qs, sample)
  BY PerTestFacts
<1>2. t \in 1 .. n /\ run.query = CaseQuery(registry[t], run.params)
  <2>1. PICK u \in 1 .. Len(registry) : \E k \in 1 .. Len(CasesAt(u)) : run = CaseRun(u, CasesAt(u)[k])
    BY DEF OfCase
  <2>2. PICK k \in 1 .. Len(CasesAt(u)) : run = CaseRun(u, CasesAt(u)[k])
    BY <2>1
  <2> QED BY <2>2, CaseRunFields
<1>3. ss[t] = <<run>>
  <2>1. Collected(t, qs, sample) = <<run>>
    BY OwnCollected
  <2> QED BY <1>1, <1>2, <2>1
<1>4. ASSUME NEW i \in 1 .. n, i # t PROVE ss[i] = <<>>
  <2> HIDE DEF ss, t, n
  <2>0. t \in 1 .. Len(registry) /\ i \in 1 .. Len(registry)
    BY <1>2 DEF n
  <2>1. Collected(i, {CaseQuery(registry[t], run.params)}, sample) = <<>>
    BY <1>4, <2>0, OtherCollected
  <2> QED BY <1>1, <1>2, <2>1
<1>5. PICK f : Parts(f, ss)
  BY <1>1, PartsExist
<1> HIDE DEF ss, qs, t, n
<1> DEFINE Good(j) == j <= n => f[j] = IF j < t THEN <<>> ELSE <<run>>
           A == {j \in Nat : Good(j)}
<1>6. t \in Nat /\ t >= 1 /\ t <= n
  BY <1>1, <1>2
<1>7. Good(0)
  BY <1>5, <1>6 DEF Parts
<1>8. ASSUME NEW j \in Nat, Good(j) PROVE Good(j + 1)
  <2> SUFFICES ASSUME j + 1 <= n PROVE f[j + 1] = IF j + 1 < t THEN <<>> ELSE <<run>>
    OBVIOUS
  <2>1. j + 1 \in 1 .. n /\ (j + 1) - 1 = j /\ j <= n
    BY <1>1
  <2>2. f[j + 1] = f[j] \o ss[j + 1]
    BY <1>1, <1>5, <2>1 DEF Parts
  <2>3. f[j] = IF j < t THEN <<>> ELSE <<run>>
    BY <1>8, <2>1
  <2>4. CASE j + 1 < t
    <3>1. ss[j + 1] = <<>> /\ f[j] = <<>>
      BY <1>4, <1>6, <2>1, <2>3, <2>4
    <3> QED BY <2>2, <2>4, <3>1
  <2>5. CASE j + 1 = t
    <3>1. ss[j + 1] = <<run>> /\ f[j] = <<>>
      BY <1>3, <1>6, <2>3, <2>5
    <3> QED BY <1>6, <2>2, <2>5, <3>1
  <2>6. CASE j + 1 > t
    <3>1. ss[j + 1] = <<>> /\ f[j] = <<run>>
      BY <1>4, <1>6, <2>1, <2>3, <2>6
    <3> QED BY <1>6, <2>2, <2>6, <3>1
  <2> QED BY <1>6, <2>4, <2>5, <2>6
<1>9. \A j \in Nat : Good(j)
  <2> HIDE DEF Good
  <2>1. 0 \in A /\ \A j \in Nat : j \in A => j + 1 \in A
    BY <1>7, <1>8
  <2> HIDE DEF A
  <2>2. \A j \in Nat : j \in A
    BY <2>1, Induction
  <2> QED BY <2>2 DEF A
<1>10. f[n] = <<run>>
  BY <1>1, <1>6, <1>9
<1>11. FlattenSeq(ss) = f[n]
  BY <1>1, <1>5, FlattenParts
<1> QED BY <1>1, <1>10, <1>11 DEF qs

-----------------------------------------------------------------------------
(* What children select. *)

ChildInv ==
  /\ SelInv
  /\ pc # "served" => child.kind = "none"
  /\ ChildrenSelectTheParentsCases

LEMMA WorkerSelects ==
  ASSUME SelInv, StartWorker
  PROVE  ChildrenSelectTheParentsCases'
<1>1. PICK s \in Shards : \E i \in DOMAIN plans[s] :
        child' = [kind |-> "worker", shard |-> s, from |-> plans[s][i].position,
                  selected |-> Served(Loaded(plans[s]), s, plans[s][i].position)]
  BY DEF StartWorker
<1>2. PICK i \in DOMAIN plans[s] :
        child' = [kind |-> "worker", shard |-> s, from |-> plans[s][i].position,
                  selected |-> Served(Loaded(plans[s]), s, plans[s][i].position)]
  BY <1>1
<1> DEFINE from == plans[s][i].position
           sel == Served(Loaded(plans[s]), s, from)
<1>3. plans[s] = PlansOf(s)
  BY DEF StartWorker, SelInv, Planned
<1>4. from \in 1 .. Len(runs)
  <2> DEFINE I == {p \in DOMAIN runs : InShard(s, p)}
             plan == Select(Entries, I)
  <2>1. Sequential(runs) /\ Len(runs) \in Nat
    BY EnumeratedRuns, SequenceFacts
  <2>2. Sequential(Entries) /\ Len(Entries) = Len(runs)
    <3>1. Entries = [j \in 1 .. Len(runs) |-> Entries[j]]
      BY DEF Entries
    <3> QED BY <2>1, <3>1, SequenceMade
  <2>3. plans[s] = plan
    BY <1>3, <2>1, PlanEntries DEF PlansOf
  <2> HIDE DEF I
  <2>4. Sequential(plan) /\ \A j \in 1 .. Len(plan) : \E p \in 1 .. Len(Entries) : plan[j] = Entries[p]
    BY <2>2, SelectSequential, SelectElements
  <2> HIDE DEF plan
  <2>5. i \in 1 .. Len(plan)
    BY <1>2, <2>3, <2>4, SequenceFacts
  <2>6. PICK p \in 1 .. Len(runs) : plan[i] = Entries[p]
    BY <2>2, <2>4, <2>5
  <2>7. plan[i].position = p
    BY <2>6 DEF Entries, Entry
  <2> QED BY <2>3, <2>6, <2>7
<1>5. ServedRight(sel, s, from)
  <2>1. ServedRight(Served(Loaded(PlansOf(s)), s, from), s, from)
    BY <1>4, PlannedWorker
  <2> QED BY <1>3, <2>1
<1> HIDE DEF sel, from
<1>6. child' = [kind |-> "worker", shard |-> s, from |-> from, selected |-> sel]
  BY <1>2, Zenon DEF sel, from
<1>7. child'.kind = "worker" /\ child'.shard = s /\ child'.from = from /\ child'.selected = sel
  BY <1>6
<1>8. runs' = runs
  BY DEF StartWorker
<1> QED BY <1>5, <1>7, <1>8 DEF ChildrenSelectTheParentsCases, ServedRight, Due

LEMMA HandShardSelects ==
  ASSUME SelInv, ShardByHand
  PROVE  ChildrenSelectTheParentsCases'
<1> DEFINE cases == CollectedCases(queries, sample)
           entries == [p \in DOMAIN cases |-> <<p, cases[p]>>]
<1>1. PICK s \in Shards, from \in DOMAIN runs :
        child' = [kind |-> "worker", shard |-> s, from |-> from, selected |-> Served(entries, s, from)]
  BY Zenon DEF ShardByHand
<1>2. Linked /\ at = Len(registry) /\ runs = CollectedUpTo(at)
  BY DEF ShardByHand, SelInv, Planned, Enumerated
<1>3. cases = runs
  <2>1. DOMAIN registry = 1 .. Len(registry)
    BY <1>2, LinkedTests, SequenceFacts
  <2> QED BY <1>2, <2>1, Zenon DEF CollectedCases, CollectedUpTo
<1>4. Sequential(runs) /\ DOMAIN runs = 1 .. Len(runs)
  BY EnumeratedRuns, SequenceFacts
<1>5. entries = Pairs
  <2> HIDE DEF cases
  <2> QED BY <1>3, <1>4, Zenon DEF Pairs, Pair
<1> HIDE DEF entries, cases
<1> DEFINE sel == Served(entries, s, from)
<1>6. ServedRight(sel, s, from)
  <2>1. ServedRight(Served(Pairs, s, from), s, from)
    BY <1>1, <1>4, UnplannedWorker
  <2> QED BY <1>5, <2>1
<1> HIDE DEF sel
<1>7. child' = [kind |-> "worker", shard |-> s, from |-> from, selected |-> sel]
  BY <1>1, Zenon DEF sel
<1>8. child'.kind = "worker" /\ child'.shard = s /\ child'.from = from /\ child'.selected = sel
  BY <1>7
<1>9. runs' = runs
  BY DEF ShardByHand
<1> QED BY <1>6, <1>8, <1>9 DEF ChildrenSelectTheParentsCases, ServedRight, Due

LEMMA IsolatedSelects ==
  ASSUME SelInv, StartIsolated
  PROVE  ChildrenSelectTheParentsCases'
<1>1. PICK p \in DOMAIN runs :
        child' = [kind |-> "isolated", of |-> p,
                  selected |-> IF Len(Loaded(PlanOf({p}))) = 1 /\ Loaded(PlanOf({p}))[1][2].query = runs[p].query
                               THEN Loaded(PlanOf({p})) ELSE <<>>]
  BY Zenon DEF StartIsolated
<1>2. p \in 1 .. Len(runs)
  BY <1>1, EnumeratedRuns, SequenceFacts
<1>3. Loaded(PlanOf({p})) = <<<<p, runs[p]>>>>
  BY <1>2, OnePlanned
<1> DEFINE one == <<<<p, runs[p]>>>>
<1>4. Len(one) = 1 /\ one[1][2].query = runs[p].query
  OBVIOUS
<1> HIDE DEF one
<1>5. child' = [kind |-> "isolated", of |-> p, selected |-> one]
  BY <1>1, <1>3, <1>4 DEF one
<1>6. child'.kind = "isolated" /\ child'.of = p /\ child'.selected = one
  BY <1>5
<1>7. runs' = runs
  BY DEF StartIsolated
<1> QED BY <1>6, <1>7 DEF ChildrenSelectTheParentsCases, one

LEMMA HandSelects ==
  ASSUME SelInv, RunByHand
  PROVE  ChildrenSelectTheParentsCases'
<1> DEFINE thin(p) == CollectedCases({runs[p].query}, sample)
           cases(p) == IF thin(p) = <<>> /\ sample THEN CollectedCases({runs[p].query}, FALSE) ELSE thin(p)
<1>1. PICK p \in DOMAIN runs :
        child' = [kind |-> "hand", of |-> p,
                  selected |-> IF Len(cases(p)) = 1 /\ cases(p)[1].query = runs[p].query
                               THEN <<<<p, cases(p)[1]>>>> ELSE <<>>]
  BY Zenon DEF RunByHand
<1> DEFINE run == runs[p]
           sel == IF Len(cases(p)) = 1 /\ cases(p)[1].query = runs[p].query
                  THEN <<<<p, cases(p)[1]>>>> ELSE <<>>
<1>2. Linked /\ OfCase(run)
  BY <1>1, EnumeratedRuns, SequenceFacts DEF SelInv, OfCases
<1>3. ASSUME Cardinality(Alike(run)) = 1 PROVE sel = <<<<p, run>>>>
  <2>1. thin(p) = <<run>>
    BY <1>2, <1>3, CollectedAlone
  <2> HIDE DEF thin, run
  <2>2. cases(p) = <<run>>
    BY <2>1
  <2> HIDE DEF cases
  <2>3. Len(<<run>>) = 1 /\ <<run>>[1] = run
    OBVIOUS
  <2> QED BY <2>2, <2>3 DEF run
<1> HIDE DEF sel, run
<1>4. child'.kind = "hand" /\ child'.of = p /\ child'.selected = sel
  <2>1. child' = [kind |-> "hand", of |-> p, selected |-> sel]
    BY <1>1, Zenon DEF sel
  <2> QED BY <2>1
<1>5. runs' = runs /\ registry' = registry
  BY DEF RunByHand
<1>6. runs'[child'.of] = run
  BY <1>4, <1>5 DEF run
<1>7. Alike(run) = {i \in DOMAIN Expanded(registry[run.test].ops) :
                     MatchesCase(run.query, registry[run.test], Expanded(registry[run.test].ops)[i].params)}
  BY Zenon DEF Alike
<1>8. child'.kind # "worker" /\ child'.kind # "isolated"
  BY <1>4
<1>9. Cardinality({i \in DOMAIN Expanded(registry[run.test].ops) :
         MatchesCase(run.query, registry[run.test], Expanded(registry[run.test].ops)[i].params)}) = 1
      => child'.selected = <<<<child'.of, run>>>>
  BY <1>3, <1>4, <1>7
<1> QED BY <1>5, <1>6, <1>8, <1>9 DEF ChildrenSelectTheParentsCases

LEMMA ChildInit ==
  Init => ChildInv
<1> SUFFICES ASSUME Init PROVE ChildInv
  OBVIOUS
<1>1. SelInv
  BY SelInit
<1>2. child.kind = "none"
  BY DEF Init
<1> QED BY <1>1, <1>2 DEF ChildInv, ChildrenSelectTheParentsCases

LEMMA ChildNext ==
  ChildInv /\ [Next]_vars => ChildInv'
<1> SUFFICES ASSUME ChildInv, [Next]_vars PROVE ChildInv'
  OBVIOUS
<1>1. SelInv /\ SelInv'
  BY SelNext DEF ChildInv
<1>2. ASSUME child' = child, child.kind = "none" PROVE ChildInv'
  BY <1>1, <1>2 DEF ChildInv, ChildrenSelectTheParentsCases
<1>3. CASE SkipTest
  BY <1>2, <1>3 DEF SkipTest, ChildInv
<1>4. CASE CollectTest
  BY <1>2, <1>4 DEF CollectTest, ChildInv
<1>5. CASE AbortOnCollision
  BY <1>2, <1>5 DEF AbortOnCollision, ChildInv
<1>6. CASE WritePlans
  BY <1>2, <1>6 DEF WritePlans, ChildInv
<1>7. CASE StartWorker
  <2>1. pc' = "served"
    BY <1>7 DEF StartWorker
  <2> QED BY <1>1, <1>7, <2>1, WorkerSelects DEF ChildInv
<1>8. CASE ShardByHand
  <2>1. pc' = "served"
    BY <1>8 DEF ShardByHand
  <2> QED BY <1>1, <1>8, <2>1, HandShardSelects DEF ChildInv
<1>9. CASE StartIsolated
  <2>1. pc' = "served"
    BY <1>9 DEF StartIsolated
  <2> QED BY <1>1, <1>9, <2>1, IsolatedSelects DEF ChildInv
<1>10. CASE RunByHand
  <2>1. pc' = "served"
    BY <1>10 DEF RunByHand
  <2> QED BY <1>1, <1>10, <2>1, HandSelects DEF ChildInv
<1>11. CASE UNCHANGED vars
  <2>1. child' = child /\ runs' = runs /\ registry' = registry /\ pc' = pc
    BY <1>11 DEF vars
  <2>2. ChildrenSelectTheParentsCases'
    BY <2>1 DEF ChildInv, ChildrenSelectTheParentsCases
  <2> QED BY <1>1, <2>1, <2>2 DEF ChildInv
<1> QED BY <1>3, <1>4, <1>5, <1>6, <1>7, <1>8, <1>9, <1>10, <1>11 DEF Next

(* Whatever is registered and asked for: a worker serves, in order, the     *)
(* rest of its shard with the parent's positions and rows; an isolated      *)
(* child, and a run by hand of a query that is nobody else's, its one case. *)
THEOREM ChildrenAgree == Spec => []ChildrenSelectTheParentsCases
<1>1. Init => ChildInv
  BY ChildInit
<1>2. ChildInv /\ [Next]_vars => ChildInv'
  BY ChildNext
<1>3. ChildInv => ChildrenSelectTheParentsCases
  BY DEF ChildInv
<1> QED BY <1>1, <1>2, <1>3, PTL DEF Spec

-----------------------------------------------------------------------------
(* What sampling does to the runs of a case. *)

KeptIn(s) == {i \in 1 .. Len(s) : Kept(s[i])}

KeptOf(s) == Select(s, KeptIn(s))

LEMMA RunsOfCase ==
  ASSUME NEW c, CaseLike(c)
  PROVE  Sequential(RunsOf(c)) /\ RunsOf(c) # <<>>
<1>1. CASE c.subcases = <<>>
  <2>1. RunsOf(c) = <<c.params>>
    BY <1>1 DEF RunsOf
  <2>2. <<c.params>> = [i \in 1 .. 1 |-> <<c.params>>[i]] /\ <<c.params>> # <<>>
    OBVIOUS
  <2>3. Sequential(<<c.params>>)
    BY <2>2, SequenceMade
  <2> QED BY <2>1, <2>2, <2>3
<1>2. CASE c.subcases # <<>>
  <2> DEFINE n == Len(c.subcases)
             r == RunsOf(c)
  <2>1. Sequential(c.subcases)
    BY DEF CaseLike, Vector
  <2>2. n \in Nat /\ DOMAIN c.subcases = 1 .. n /\ n # 0
    <3>1. n \in Nat /\ DOMAIN c.subcases = 1 .. n /\ c.subcases = [i \in 1 .. n |-> c.subcases[i]]
      BY <2>1, SequenceFacts
    <3> QED BY <1>2, <3>1
  <2>3. r = [i \in 1 .. n |-> c.params \o c.subcases[i]]
    BY <1>2, <2>2 DEF RunsOf
  <2>4. r = [i \in 1 .. n |-> r[i]]
    BY <2>3
  <2> HIDE DEF r, n
  <2>5. Sequential(r) /\ Len(r) = n
    BY <2>2, <2>4, SequenceMade
  <2> QED BY <2>2, <2>5, EmptySequential DEF r
<1> QED BY <1>1, <1>2

LEMMA ThinnedRuns ==
  ASSUME NEW c, CaseLike(c), HasKept(c)
  PROVE  RunsOf(Thinned(c)) = KeptOf(RunsOf(c))
<1> DEFINE sub == c.subcases
           K == {i \in DOMAIN sub : Kept(c.params \o sub[i])}
           r == RunsOf(c)
           d == Thinned(c)
<1>1. d.params = c.params /\ d.subcases = Select(sub, K)
  BY ThinnedCase
<1>2. Sequential(r) /\ r # <<>>
  BY RunsOfCase
<1>3. CASE sub = <<>>
  <2>1. r = <<c.params>>
    BY <1>3 DEF RunsOf
  <2>2. ToSet(<<c.params>>) = {c.params}
    BY DEF ToSet
  <2>3. Kept(c.params)
    BY <2>1, <2>2 DEF HasKept
  <2> HIDE DEF K
  <2>4. Select(sub, K) = <<>>
    BY <1>3, EmptySequential, SelectNone
  <2> HIDE DEF d, sub, r
  <2>5. RunsOf(d) = <<c.params>>
    BY <1>1, <2>4 DEF RunsOf
  <2>6. \A i \in 1 .. Len(r) : i \in KeptIn(r)
    <3>1. Len(<<c.params>>) = 1 /\ <<c.params>>[1] = c.params
      OBVIOUS
    <3> QED BY <2>1, <2>3, <3>1 DEF KeptIn
  <2>7. KeptOf(r) = r
    BY <1>2, <2>6, SelectAll DEF KeptOf
  <2> QED BY <2>1, <2>5, <2>7 DEF d, r
<1>4. CASE sub # <<>>
  <2> DEFINE n == Len(sub)
  <2>1. Sequential(sub) /\ n \in Nat /\ DOMAIN sub = 1 .. n
    BY SequenceFacts DEF CaseLike, Vector
  <2>2. r = [i \in 1 .. n |-> c.params \o sub[i]]
    BY <1>4, <2>1 DEF RunsOf
  <2>3. Len(r) = n /\ DOMAIN r = 1 .. n
    <3>1. DOMAIN r = 1 .. n
      BY <2>2
    <3> HIDE DEF r, n
    <3>2. r = [i \in 1 .. n |-> r[i]]
      BY <2>2, <3>1
    <3> QED BY <2>1, <3>1, <3>2, SequenceMade
  <2>4. K \subseteq 1 .. n /\ K = {i \in 1 .. n : Kept(r[i])}
    BY <2>1, <2>2
  <2> HIDE DEF K, r, sub, n
  <2>5. KeptIn(r) = K /\ K \cap (1 .. n) = K
    BY <2>3, <2>4 DEF KeptIn
  <2>6. PICK g : Lists(g, K) /\ Select(sub, K) = Read(sub, g)
    BY <2>1, <2>5, SelectLists DEF n
  <2>7. g \in Seq(K) /\ \A k \in K : \E i \in 1 .. Len(g) : g[i] = k
    BY <2>6 DEF Lists
  <2>8. Len(g) \in Nat /\ \A j \in 1 .. Len(g) : g[j] \in K
    BY <2>7
  <2>9. KeptOf(r) = Read(r, g)
    BY <1>2, <2>3, <2>5, <2>6, SelectRead DEF KeptOf
  <2>10. \E k : k \in K
    <3>1. PICK run \in ToSet(r) : Kept(run)
      BY DEF HasKept, r
    <3>2. PICK k \in DOMAIN r : run = r[k]
      BY <3>1 DEF ToSet
    <3> QED BY <2>3, <2>4, <3>1, <3>2
  <2>11. Len(g) # 0
    BY <2>7, <2>8, <2>10
  <2> DEFINE t == Read(sub, g)
  <2>12. Sequential(t) /\ Len(t) = Len(g) /\ \A j \in 1 .. Len(g) : t[j] = sub[g[j]]
    BY <2>7, ReadFacts
  <2> HIDE DEF t
  <2>13. DOMAIN t = 1 .. Len(g) /\ t # <<>>
    BY <2>11, <2>12, SequenceFacts, EmptySequential
  <2>14. d.subcases = t /\ d.params = c.params
    BY <1>1, <2>6 DEF t
  <2> HIDE DEF d
  <2>15. RunsOf(d) = [j \in 1 .. Len(g) |-> c.params \o t[j]]
    BY <2>13, <2>14 DEF RunsOf
  <2>16. \A j \in 1 .. Len(g) : c.params \o t[j] = r[g[j]]
    BY <2>2, <2>4, <2>8, <2>12
  <2>17. RunsOf(d) = Read(r, g)
    BY <2>15, <2>16 DEF Read
  <2> QED BY <2>9, <2>17 DEF d, r
<1> QED BY <1>3, <1>4

LEMMA UnkeptRuns ==
  ASSUME NEW c, CaseLike(c), ~HasKept(c)
  PROVE  KeptOf(RunsOf(c)) = <<>>
<1> DEFINE r == RunsOf(c)
<1>1. Sequential(r)
  BY RunsOfCase
<1>2. DOMAIN r = 1 .. Len(r)
  BY <1>1, SequenceFacts
<1>3. \A i \in 1 .. Len(r) : ~Kept(r[i])
  <2> HIDE DEF r
  <2>1. \A i \in 1 .. Len(r) : r[i] \in ToSet(r)
    BY <1>2 DEF ToSet
  <2> QED BY <2>1 DEF HasKept, r
<1> HIDE DEF r
<1>4. \A i \in 1 .. Len(r) : i \notin KeptIn(r)
  BY <1>3 DEF KeptIn
<1>5. KeptOf(r) = <<>>
  BY <1>1, <1>4, SelectNone DEF KeptOf
<1> QED BY <1>5 DEF r

-----------------------------------------------------------------------------
(* Flattening what was selected. *)

LEMMA FlattenNothing ==
  FlattenSeq(<<>>) = <<>>
<1>1. Vector(<<>>)
  BY EmptySequential DEF Vector
<1>2. PICK f : Parts(f, <<>>) /\ FlattenSeq(<<>>) = f[Len(<<>>)]
  BY <1>1, PartsExist
<1> QED BY <1>2, EmptySequential DEF Parts

LEMMA FlattenMore ==
  ASSUME NEW s, Vector(s), NEW x, Sequential(x)
  PROVE  Vector(Append(s, x)) /\ FlattenSeq(Append(s, x)) = FlattenSeq(s) \o x
<1> DEFINE t == Append(s, x)
           n == Len(s)
<1>1. Sequential(s) /\ n \in Nat /\ \A i \in 1 .. n : Sequential(s[i])
  BY SequenceFacts DEF Vector
<1>2. Len(t) = n + 1 /\ t[n + 1] = x /\ (\A i \in 1 .. n : t[i] = s[i]) /\ t = [i \in 1 .. n + 1 |-> t[i]]
  <2> DEFINE S == ToSet(s)
             T == ToSet(s) \cup {x}
  <2>1. S \subseteq T /\ s \in Seq(S) /\ x \in T
    BY <1>1 DEF Sequential
  <2> HIDE DEF S, T
  <2>2. s \in Seq(T)
    BY <2>1
  <2>3. t \in Seq(T) /\ Len(t) = n + 1 /\ t[n + 1] = x /\ \A i \in 1 .. n : t[i] = s[i]
    BY <2>1, <2>2
  <2> HIDE DEF t, n
  <2>4. t = [i \in 1 .. Len(t) |-> t[i]]
    BY <2>3
  <2> QED BY <2>3, <2>4
<1> HIDE DEF t, n
<1>4. Sequential(t) /\ Len(t) = n + 1
  <2>1. n + 1 \in Nat
    BY <1>1
  <2> QED BY <1>2, <2>1, SequenceMade
<1>5. Vector(t)
  <2>1. ASSUME NEW i \in 1 .. n + 1 PROVE Sequential(t[i])
    <3>1. i \in 1 .. n \/ i = n + 1
      BY <1>1
    <3> QED BY <3>1, <1>1, <1>2
  <2> QED BY <1>4, <2>1 DEF Vector
<1>6. PICK f : Parts(f, t) /\ FlattenSeq(t) = f[n + 1]
  BY <1>4, <1>5, PartsExist
<1>7. f[0] = <<>> /\ \A i \in 1 .. n + 1 : f[i] = f[i - 1] \o t[i]
  BY <1>4, <1>6 DEF Parts
<1>8. Parts(f, s)
  <2>1. ASSUME NEW i \in 1 .. n PROVE f[i] = f[i - 1] \o s[i]
    <3>1. i \in 1 .. n + 1
      BY <1>1
    <3> QED BY <1>2, <1>7, <3>1
  <2> QED BY <1>7, <2>1 DEF Parts, n
<1>9. FlattenSeq(s) = f[n]
  BY <1>8, FlattenParts DEF n
<1>10. n + 1 \in 1 .. n + 1 /\ (n + 1) - 1 = n
  BY <1>1
<1>11. FlattenSeq(t) = FlattenSeq(s) \o x
  BY <1>2, <1>6, <1>7, <1>9, <1>10
<1> QED BY <1>5, <1>11 DEF t

(* Empty parts may be left out. *)
LEMMA FlattenSelect ==
  ASSUME NEW ss, Vector(ss), NEW I, \A i \in 1 .. Len(ss) : i \notin I => ss[i] = <<>>
  PROVE  FlattenSeq(Select(ss, I)) = FlattenSeq(ss)
<1> DEFINE n == Len(ss)
<1>1. Sequential(ss) /\ n \in Nat /\ \A i \in 1 .. n : Sequential(ss[i])
  BY SequenceFacts DEF Vector
<1>2. PICK f : UpTo(f, ss, n, I) /\ Select(ss, I) = f[n]
  BY <1>1, SelectUpTo
<1>3. PICK h : Parts(h, ss)
  BY PartsExist
<1>4. \A i \in 0 .. n : Sequential(h[i])
  BY <1>3, PartsSequential
<1> HIDE DEF n
<1>5. \A i \in 0 .. n : f[i] = IF i = 0 THEN <<>> ELSE IF i \in I THEN Append(f[i - 1], ss[i]) ELSE f[i - 1]
  BY <1>2 DEF UpTo
<1> DEFINE Good(j) == j <= n => Vector(f[j]) /\ FlattenSeq(f[j]) = h[j]
           A == {j \in Nat : Good(j)}
<1>6. Good(0)
  <2>1. f[0] = <<>> /\ h[0] = <<>>
    BY <1>1, <1>3, <1>5 DEF Parts
  <2>2. Vector(<<>>)
    BY EmptySequential DEF Vector
  <2> QED BY <2>1, <2>2, FlattenNothing
<1>7. ASSUME NEW j \in Nat, Good(j) PROVE Good(j + 1)
  <2> SUFFICES ASSUME j + 1 <= n PROVE Vector(f[j + 1]) /\ FlattenSeq(f[j + 1]) = h[j + 1]
    OBVIOUS
  <2>1. j + 1 \in 1 .. n /\ j + 1 \in 0 .. n /\ j \in 0 .. n /\ j + 1 # 0 /\ (j + 1) - 1 = j /\ j <= n
    BY <1>1
  <2>2. h[j + 1] = h[j] \o ss[j + 1]
    BY <1>3, <2>1 DEF Parts, n
  <2>3. Vector(f[j]) /\ FlattenSeq(f[j]) = h[j] /\ Sequential(ss[j + 1]) /\ Sequential(h[j])
    BY <1>1, <1>4, <1>7, <2>1
  <2>4. CASE j + 1 \in I
    <3>1. f[j + 1] = Append(f[j], ss[j + 1])
      BY <1>5, <2>1, <2>4
    <3> QED BY <2>2, <2>3, <3>1, FlattenMore
  <2>5. CASE j + 1 \notin I
    <3>1. f[j + 1] = f[j] /\ ss[j + 1] = <<>>
      BY <1>5, <2>1, <2>5 DEF n
    <3>2. h[j] \o <<>> = h[j]
      BY <2>3 DEF Sequential
    <3> QED BY <2>2, <2>3, <3>1, <3>2
  <2> QED BY <2>4, <2>5
<1>8. \A j \in Nat : Good(j)
  <2> HIDE DEF Good
  <2>1. 0 \in A /\ \A j \in Nat : j \in A => j + 1 \in A
    BY <1>6, <1>7
  <2> HIDE DEF A
  <2>2. \A j \in Nat : j \in A
    BY <2>1, Induction
  <2> QED BY <2>2 DEF A
<1>9. FlattenSeq(f[n]) = h[n]
  BY <1>1, <1>8
<1>10. FlattenSeq(ss) = h[n]
  BY <1>3, FlattenParts DEF n
<1> QED BY <1>2, <1>9, <1>10

KeptParts(ss) == [i \in 1 .. Len(ss) |-> KeptOf(ss[i])]

LEMMA KeptPartsFacts ==
  ASSUME NEW ss, Vector(ss)
  PROVE  /\ Vector(KeptParts(ss)) /\ Len(KeptParts(ss)) = Len(ss) /\ Len(ss) \in Nat
         /\ \A i \in 1 .. Len(ss) : KeptParts(ss)[i] = KeptOf(ss[i])
<1> DEFINE r == KeptParts(ss)
           n == Len(ss)
<1>1. n \in Nat /\ \A i \in 1 .. n : Sequential(ss[i])
  BY SequenceFacts DEF Vector
<1>2. r = [i \in 1 .. n |-> r[i]] /\ \A i \in 1 .. n : r[i] = KeptOf(ss[i])
  BY DEF KeptParts
<1> HIDE DEF r, n
<1>3. Sequential(r) /\ Len(r) = n
  BY <1>1, <1>2, SequenceMade
<1>4. \A i \in 1 .. n : Sequential(r[i])
  BY <1>1, <1>2, SelectSequential DEF KeptOf
<1> QED BY <1>1, <1>2, <1>3, <1>4 DEF Vector, r, n

LEMMA KeptJoin ==
  ASSUME NEW s, NEW t, Sequential(s), Sequential(t)
  PROVE  KeptOf(s \o t) = KeptOf(s) \o KeptOf(t)
<1>1. /\ Len(s \o t) = Len(s) + Len(t)
      /\ \A i \in 1 .. Len(s) : (s \o t)[i] = s[i]
      /\ \A i \in 1 .. Len(t) : (s \o t)[Len(s) + i] = t[i]
  BY Concatenation
<1>2. Len(s) \in Nat /\ Len(t) \in Nat
  BY SequenceFacts
<1>3. /\ \A i \in 1 .. Len(s) : i \in KeptIn(s \o t) <=> i \in KeptIn(s)
      /\ \A i \in 1 .. Len(t) : Len(s) + i \in KeptIn(s \o t) <=> i \in KeptIn(t)
  BY <1>1, <1>2 DEF KeptIn
<1>4. Splits(KeptIn(s \o t), s, t, KeptIn(s), KeptIn(t))
  BY <1>3 DEF Splits
<1> QED BY <1>4, SelectJoin DEF KeptOf

LEMMA FlattenKept ==
  ASSUME NEW ss, Vector(ss)
  PROVE  FlattenSeq(KeptParts(ss)) = KeptOf(FlattenSeq(ss))
<1> DEFINE n == Len(ss)
           kk == KeptParts(ss)
<1>1. Vector(kk) /\ Len(kk) = n /\ n \in Nat /\ \A i \in 1 .. n : kk[i] = KeptOf(ss[i])
  BY KeptPartsFacts
<1>2. PICK f : Parts(f, ss)
  BY PartsExist
<1>3. PICK h : Parts(h, kk)
  BY <1>1, PartsExist
<1>4. \A i \in 0 .. n : Sequential(f[i])
  BY <1>2, PartsSequential
<1>5. \A i \in 1 .. n : Sequential(ss[i])
  BY DEF Vector
<1>6. FlattenSeq(ss) = f[n] /\ FlattenSeq(kk) = h[n]
  <2> HIDE DEF kk
  <2> QED BY <1>1, <1>2, <1>3, FlattenParts
<1> HIDE DEF n, kk
<1> DEFINE Good(j) == j <= n => h[j] = KeptOf(f[j])
           A == {j \in Nat : Good(j)}
<1>7. Good(0)
  <2>1. h[0] = <<>> /\ f[0] = <<>>
    BY <1>2, <1>3 DEF Parts
  <2>2. \A i \in 1 .. Len(<<>>) : i \notin KeptIn(<<>>)
    BY EmptySequential
  <2> QED BY <2>1, <2>2, SelectNone, EmptySequential DEF KeptOf
<1>8. ASSUME NEW j \in Nat, Good(j) PROVE Good(j + 1)
  <2> SUFFICES ASSUME j + 1 <= n PROVE h[j + 1] = KeptOf(f[j + 1])
    OBVIOUS
  <2>1. j + 1 \in 1 .. n /\ j \in 0 .. n /\ (j + 1) - 1 = j /\ j <= n
    BY <1>1
  <2>2. f[j + 1] = f[j] \o ss[j + 1]
    BY <1>2, <2>1 DEF Parts, n
  <2>3. h[j + 1] = h[j] \o kk[j + 1]
    BY <1>1, <1>3, <2>1 DEF Parts
  <2>4. KeptOf(f[j] \o ss[j + 1]) = KeptOf(f[j]) \o KeptOf(ss[j + 1])
    BY <1>4, <1>5, <2>1, KeptJoin
  <2>5. h[j] = KeptOf(f[j]) /\ kk[j + 1] = KeptOf(ss[j + 1])
    BY <1>1, <1>8, <2>1
  <2> QED BY <2>2, <2>3, <2>4, <2>5
<1>9. \A j \in Nat : Good(j)
  <2> HIDE DEF Good
  <2>1. 0 \in A /\ \A j \in Nat : j \in A => j + 1 \in A
    BY <1>7, <1>8
  <2> HIDE DEF A
  <2>2. \A j \in Nat : j \in A
    BY <2>1, Induction
  <2> QED BY <2>2 DEF A
<1>10. h[n] = KeptOf(f[n])
  BY <1>1, <1>9
<1> QED BY <1>6, <1>10 DEF kk

-----------------------------------------------------------------------------
(* All runs of a test. *)

LEMMA ElementsJoin ==
  ASSUME NEW s, NEW t, Sequential(s), Sequential(t), NEW x, x \in ToSet(s) \/ x \in ToSet(t)
  PROVE  x \in ToSet(s \o t)
<1> DEFINE r == s \o t
<1>1. /\ Sequential(r) /\ Len(r) = Len(s) + Len(t)
      /\ \A i \in 1 .. Len(s) : r[i] = s[i]
      /\ \A i \in 1 .. Len(t) : r[Len(s) + i] = t[i]
  BY Concatenation
<1> HIDE DEF r
<1>2. /\ Len(s) \in Nat /\ Len(t) \in Nat /\ DOMAIN s = 1 .. Len(s) /\ DOMAIN t = 1 .. Len(t)
      /\ DOMAIN r = 1 .. Len(r)
  BY <1>1, SequenceFacts
<1>3. CASE x \in ToSet(s)
  <2>1. PICK i \in 1 .. Len(s) : x = s[i]
    BY <1>2, <1>3 DEF ToSet
  <2>2. i \in DOMAIN r /\ r[i] = x
    BY <1>1, <1>2, <2>1
  <2> QED BY <2>2 DEF ToSet, r
<1>4. CASE x \in ToSet(t)
  <2>1. PICK i \in 1 .. Len(t) : x = t[i]
    BY <1>2, <1>4 DEF ToSet
  <2>2. Len(s) + i \in DOMAIN r /\ r[Len(s) + i] = x
    BY <1>1, <1>2, <2>1
  <2> QED BY <2>2 DEF ToSet, r
<1> QED BY <1>3, <1>4

LEMMA FlattenElements ==
  ASSUME NEW ss, Vector(ss), NEW i \in 1 .. Len(ss), NEW x \in ToSet(ss[i])
  PROVE  x \in ToSet(FlattenSeq(ss))
<1> DEFINE n == Len(ss)
<1>1. n \in Nat /\ \A j \in 1 .. n : Sequential(ss[j])
  BY SequenceFacts DEF Vector
<1>2. PICK f : Parts(f, ss) /\ FlattenSeq(ss) = f[n]
  BY PartsExist
<1>3. \A j \in 0 .. n : Sequential(f[j])
  BY <1>2, PartsSequential
<1>4. \A j \in 1 .. n : f[j] = f[j - 1] \o ss[j]
  BY <1>2 DEF Parts
<1>5. i \in 1 .. n
  OBVIOUS
<1> HIDE DEF n
<1> DEFINE Good(j) == i <= j /\ j <= n => x \in ToSet(f[j])
           A == {j \in Nat : Good(j)}
<1>6. Good(0)
  BY <1>1, <1>5
<1>7. ASSUME NEW j \in Nat, Good(j) PROVE Good(j + 1)
  <2> SUFFICES ASSUME i <= j + 1, j + 1 <= n PROVE x \in ToSet(f[j + 1])
    OBVIOUS
  <2>1. j + 1 \in 1 .. n /\ j \in 0 .. n /\ (j + 1) - 1 = j /\ j <= n /\ i \in Nat
    BY <1>1, <1>5
  <2>2. f[j + 1] = f[j] \o ss[j + 1] /\ Sequential(f[j]) /\ Sequential(ss[j + 1])
    BY <1>1, <1>3, <1>4, <2>1
  <2>3. CASE i <= j
    <3>1. x \in ToSet(f[j])
      BY <1>7, <2>1, <2>3
    <3> QED BY <2>2, <3>1, ElementsJoin
  <2>4. CASE i = j + 1
    <3>1. x \in ToSet(ss[j + 1])
      BY <2>4
    <3> QED BY <2>2, <3>1, ElementsJoin
  <2> QED BY <2>1, <2>3, <2>4
<1>8. \A j \in Nat : Good(j)
  <2> HIDE DEF Good
  <2>1. 0 \in A /\ \A j \in Nat : j \in A => j + 1 \in A
    BY <1>6, <1>7
  <2> HIDE DEF A
  <2>2. \A j \in Nat : j \in A
    BY <2>1, Induction
  <2> QED BY <2>2 DEF A
<1> QED BY <1>1, <1>2, <1>5, <1>8

RunsOfAll(cases) == [i \in 1 .. Len(cases) |-> RunsOf(cases[i])]

LEMMA AllRunsFacts ==
  ASSUME NEW cases, CaseVector(cases)
  PROVE  /\ Vector(RunsOfAll(cases)) /\ Len(RunsOfAll(cases)) = Len(cases) /\ Len(cases) \in Nat
         /\ \A i \in 1 .. Len(cases) : RunsOfAll(cases)[i] = RunsOf(cases[i])
         /\ AllRuns(cases) = FlattenSeq(RunsOfAll(cases))
         /\ Sequential(AllRuns(cases))
<1> DEFINE r == RunsOfAll(cases)
           n == Len(cases)
<1>1. n \in Nat /\ DOMAIN cases = 1 .. n /\ \A i \in 1 .. n : CaseLike(cases[i])
  BY SequenceFacts DEF CaseVector
<1>2. r = [i \in 1 .. n |-> r[i]] /\ \A i \in 1 .. n : r[i] = RunsOf(cases[i])
  BY DEF RunsOfAll
<1>3. AllRuns(cases) = FlattenSeq(r)
  BY <1>1, Zenon DEF AllRuns, RunsOfAll
<1> HIDE DEF r, n
<1>4. Sequential(r) /\ Len(r) = n
  BY <1>1, <1>2, SequenceMade
<1>5. \A i \in 1 .. n : Sequential(r[i])
  BY <1>1, <1>2, RunsOfCase
<1>6. Vector(r)
  BY <1>4, <1>5 DEF Vector
<1>7. PICK f : Parts(f, r) /\ FlattenSeq(r) = f[n]
  BY <1>4, <1>6, PartsExist
<1>8. Sequential(f[n])
  <2>1. n \in 0 .. n
    BY <1>1
  <2> QED BY <1>4, <1>6, <1>7, <2>1, PartsSequential
<1> QED BY <1>1, <1>2, <1>3, <1>4, <1>6, <1>7, <1>8 DEF r, n

LEMMA RunOfAll ==
  ASSUME NEW cases, CaseVector(cases), NEW c \in ToSet(cases), NEW run \in ToSet(RunsOf(c))
  PROVE  /\ CaseLike(c)
         /\ \E k \in 1 .. Len(AllRuns(cases)) : run = AllRuns(cases)[k]
<1>1. Sequential(cases) /\ DOMAIN cases = 1 .. Len(cases) /\ \A i \in 1 .. Len(cases) : CaseLike(cases[i])
  BY SequenceFacts DEF CaseVector
<1>2. PICK i \in 1 .. Len(cases) : c = cases[i]
  BY <1>1 DEF ToSet
<1> DEFINE ss == RunsOfAll(cases)
           full == AllRuns(cases)
<1>3. Vector(ss) /\ i \in 1 .. Len(ss) /\ ss[i] = RunsOf(c) /\ full = FlattenSeq(ss) /\ Sequential(full)
  BY <1>2, AllRunsFacts
<1> HIDE DEF ss, full
<1>4. run \in ToSet(full)
  BY <1>3, FlattenElements
<1>5. DOMAIN full = 1 .. Len(full)
  BY <1>3, SequenceFacts
<1>6. \E k \in 1 .. Len(full) : run = full[k]
  BY <1>4, <1>5 DEF ToSet
<1> QED BY <1>1, <1>2, <1>6 DEF full

LEMMA SampledRuns ==
  ASSUME NEW cases, CaseVector(cases), Sampled(cases) # cases
  PROVE  /\ AllRuns(Sampled(cases)) = KeptOf(AllRuns(cases))
         /\ \E c \in ToSet(cases) : HasKept(c)
<1> DEFINE I == {i \in DOMAIN cases : HasKept(cases[i])}
           kept == Select(cases, I)
           thin == [i \in DOMAIN kept |-> Thinned(kept[i])]
           n == Len(cases)
           ss == RunsOfAll(cases)
           kk == KeptParts(ss)
<1>1. Sampled(cases) = thin /\ \E c \in ToSet(cases) : HasKept(c)
  BY Zenon DEF Sampled
<1>2. Sequential(cases) /\ n \in Nat /\ DOMAIN cases = 1 .. n /\ \A i \in 1 .. n : CaseLike(cases[i])
  BY SequenceFacts DEF CaseVector
<1>3. /\ Vector(ss) /\ Len(ss) = n /\ AllRuns(cases) = FlattenSeq(ss)
      /\ \A i \in 1 .. n : ss[i] = RunsOf(cases[i])
  BY AllRunsFacts
<1>4. Vector(kk) /\ Len(kk) = n /\ \A i \in 1 .. n : kk[i] = KeptOf(RunsOf(cases[i]))
  <2> HIDE DEF ss
  <2> QED BY <1>3, KeptPartsFacts
<1>5. CaseVector(thin)
  BY <1>1, SampledCases
<1>6. \A i \in 1 .. n : i \in I <=> HasKept(cases[i])
  BY <1>2
<1> HIDE DEF I, n, ss, kk
<1>7. FlattenSeq(kk) = KeptOf(AllRuns(cases))
  BY <1>3, FlattenKept DEF kk
<1>8. FlattenSeq(Select(kk, I)) = FlattenSeq(kk)
  <2>1. \A i \in 1 .. n : i \notin I => kk[i] = <<>>
    BY <1>2, <1>4, <1>6, UnkeptRuns
  <2> QED BY <1>4, <2>1, FlattenSelect
<1>9. PICK g : Lists(g, I \cap (1 .. n)) /\ kept = Read(cases, g)
  BY <1>2, SelectLists DEF n
<1>10. g \in Seq(I \cap (1 .. n))
  BY <1>9 DEF Lists
<1>11. Len(g) \in Nat /\ \A j \in 1 .. Len(g) : g[j] \in I /\ g[j] \in 1 .. n
  <2> DEFINE J == I \cap (1 .. n)
  <2>1. g \in Seq(J) /\ J \subseteq I /\ J \subseteq 1 .. n
    BY <1>10
  <2> HIDE DEF J
  <2>2. Len(g) \in Nat /\ \A j \in 1 .. Len(g) : g[j] \in J
    BY <2>1
  <2> QED BY <2>1, <2>2
<1>12. Select(kk, I) = Read(kk, g)
  <2>1. Sequential(kk) /\ Lists(g, I \cap (1 .. Len(kk)))
    BY <1>4, <1>9 DEF Vector
  <2> QED BY <2>1, SelectRead
<1>13. DOMAIN kept = 1 .. Len(g) /\ \A j \in 1 .. Len(g) : kept[j] = cases[g[j]]
  <2> HIDE DEF kept
  <2> QED BY <1>9 DEF Read
<1> HIDE DEF kept
<1>14. Len(thin) = Len(g) /\ \A j \in 1 .. Len(g) : thin[j] = Thinned(cases[g[j]])
  <2>1. thin = [j \in 1 .. Len(g) |-> thin[j]] /\ \A j \in 1 .. Len(g) : thin[j] = Thinned(kept[j])
    BY <1>13
  <2> HIDE DEF thin
  <2> QED BY <1>11, <1>13, <2>1, SequenceMade
<1> HIDE DEF thin
<1>15. ASSUME NEW j \in 1 .. Len(g) PROVE RunsOf(thin[j]) = kk[g[j]]
  <2>1. g[j] \in 1 .. n /\ HasKept(cases[g[j]])
    BY <1>6, <1>11
  <2>2. RunsOf(Thinned(cases[g[j]])) = KeptOf(RunsOf(cases[g[j]]))
    BY <1>2, <2>1, ThinnedRuns
  <2> QED BY <1>4, <1>14, <2>1, <2>2
<1>16. RunsOfAll(thin) = Read(kk, g)
  BY <1>14, <1>15 DEF RunsOfAll, Read
<1>17. AllRuns(thin) = FlattenSeq(RunsOfAll(thin))
  BY <1>5, AllRunsFacts
<1>18. AllRuns(thin) = KeptOf(AllRuns(cases))
  BY <1>7, <1>8, <1>12, <1>16, <1>17
<1> QED BY <1>1, <1>18

(* Sampling leaves some run of a test that has one. *)
LEMMA SampledSome ==
  ASSUME NEW cases, CaseVector(cases), AllRuns(cases) # <<>>
  PROVE  AllRuns(Sampled(cases)) # <<>>
<1>1. CASE Sampled(cases) = cases
  BY <1>1
<1>2. CASE Sampled(cases) # cases
  <2> DEFINE full == AllRuns(cases)
  <2>1. AllRuns(Sampled(cases)) = KeptOf(full) /\ \E c \in ToSet(cases) : HasKept(c)
    BY <1>2, SampledRuns
  <2>2. PICK c \in ToSet(cases) : HasKept(c)
    BY <2>1
  <2>3. PICK run \in ToSet(RunsOf(c)) : Kept(run)
    BY <2>2 DEF HasKept
  <2>4. PICK k \in 1 .. Len(full) : run = full[k]
    BY RunOfAll
  <2>5. Sequential(full)
    BY AllRunsFacts
  <2> HIDE DEF full
  <2>6. k \in KeptIn(full) \cap (1 .. Len(full))
    BY <2>3, <2>4 DEF KeptIn
  <2>7. PICK g : Lists(g, KeptIn(full) \cap (1 .. Len(full))) /\ KeptOf(full) = Read(full, g)
    BY <2>5, SelectLists DEF KeptOf
  <2>8. g \in Seq(KeptIn(full) \cap (1 .. Len(full))) /\ \E i \in 1 .. Len(g) : g[i] = k
    BY <2>6, <2>7 DEF Lists
  <2>9. Len(KeptOf(full)) = Len(g) /\ Len(g) \in Nat
    BY <2>7, <2>8, ReadFacts
  <2>10. Len(KeptOf(full)) # 0
    BY <2>8, <2>9
  <2> QED BY <2>1, <2>10, EmptySequential
<1> QED BY <1>1, <1>2

-----------------------------------------------------------------------------
(* Narrow sweeps. *)

LEMMA RunSequential ==
  ASSUME NEW c, CaseLike(c), NEW run \in ToSet(RunsOf(c))
  PROVE  Sequential(run)
<1>1. CASE c.subcases = <<>>
  <2>1. RunsOf(c) = <<c.params>>
    BY <1>1 DEF RunsOf
  <2>2. ToSet(<<c.params>>) = {c.params}
    BY DEF ToSet
  <2> QED BY <2>1, <2>2 DEF CaseLike
<1>2. CASE c.subcases # <<>>
  <2>1. RunsOf(c) = [i \in DOMAIN c.subcases |-> c.params \o c.subcases[i]]
    BY <1>2 DEF RunsOf
  <2>2. PICK i \in DOMAIN c.subcases : run = c.params \o c.subcases[i]
    BY <2>1 DEF ToSet
  <2>3. Sequential(c.params) /\ Sequential(c.subcases[i])
    BY <2>2, SequenceFacts DEF CaseLike, Vector
  <2> QED BY <2>2, <2>3, Concatenation
<1> QED BY <1>1, <1>2

LEMMA ParamOnce ==
  ASSUME NEW run, Sequential(run), KeysOnce(run), NEW i \in DOMAIN run
  PROVE  HasKey(run, run[i][1]) /\ Param(run, run[i][1]) = run[i][2]
<1> DEFINE key == run[i][1]
           I == {j \in 1 .. Len(run) : run[j][1] = key}
<1>1. DOMAIN run = 1 .. Len(run) /\ Len(run) \in Nat
  BY SequenceFacts
<1>2. I = {i}
  BY <1>1 DEF KeysOnce
<1>3. Param(run, key) = run[IF I # {} THEN Max(I) ELSE 0][2]
  BY Zenon DEF Param, SelectLastInSeq
<1>4. Max({i}) = i
  BY <1>1 DEF Max
<1>5. HasKey(run, key)
  BY DEF HasKey
<1> HIDE DEF I, key
<1>6. Param(run, key) = run[i][2]
  BY <1>2, <1>3, <1>4
<1> QED BY <1>5, <1>6 DEF key

LEMMA ImageBounded ==
  ASSUME NEW V, IsFiniteSet(V), NEW f, DOMAIN f = V
  PROVE  IsFiniteSet({f[v] : v \in V}) /\ Cardinality({f[v] : v \in V}) <= Cardinality(V)
<1> DEFINE T == {f[v] : v \in V}
           h == [v \in V |-> f[v]]
<1>1. h \in Surjection(V, T)
  BY DEF Surjection
<1> HIDE DEF h, T
<1>2. IsFiniteSet(T) /\ Cardinality(T) <= Cardinality(V)
  BY <1>1, FS_Surjection
<1> QED BY <1>2 DEF T

(* The formats that the runs give to a key, and the texts they read as. *)
Given(full, key) ==
  {Param(full[i], key) : i \in {j \in DOMAIN full : HasKey(full[j], key) /\ Param(full[j], key) \in Formats}}

Sweep(cases, key) ==
  {Text(p[2]) : p \in {q \in ParamsIn(cases) : q[1] = key /\ Recognised(q)}}

LEMMA GivenFinite ==
  ASSUME NEW full, Sequential(full), NEW key
  PROVE  IsFiniteSet(Given(full, key))
<1> DEFINE D == {j \in DOMAIN full : HasKey(full[j], key) /\ Param(full[j], key) \in Formats}
           f == [i \in D |-> Param(full[i], key)]
<1>1. IsFiniteSet(DOMAIN full)
  <2>1. 1 \in Int /\ Len(full) \in Int /\ DOMAIN full = 1 .. Len(full)
    BY SequenceFacts
  <2>2. IsFiniteSet(1 .. Len(full))
    BY <2>1, FS_Interval
  <2> QED BY <2>1, <2>2
<1>2. D \in SUBSET DOMAIN full
  OBVIOUS
<1>3. \A i \in D : f[i] = Param(full[i], key)
  OBVIOUS
<1>4. DOMAIN f = D
  OBVIOUS
<1>5. Given(full, key) = {Param(full[i], key) : i \in D}
  BY Zenon DEF Given
<1> HIDE DEF D, f
<1>6. IsFiniteSet(D)
  BY <1>1, <1>2, FS_Subset
<1>7. IsFiniteSet({f[i] : i \in D})
  BY <1>4, <1>6, ImageBounded
<1>8. {f[i] : i \in D} = Given(full, key)
  BY <1>3, <1>5
<1> QED BY <1>7, <1>8

(* Every value of a sweep is the parameter of some run. *)
LEMMA SweepGiven ==
  ASSUME NEW cases, CaseVector(cases), NEW key,
         \A c \in ToSet(cases) : \A run \in ToSet(RunsOf(c)) : KeysOnce(run)
  PROVE  \A text \in Sweep(cases, key) : \E v \in Given(AllRuns(cases), key) : text = Text(v)
<1> SUFFICES ASSUME NEW text \in Sweep(cases, key) PROVE \E v \in Given(AllRuns(cases), key) : text = Text(v)
  OBVIOUS
<1> DEFINE full == AllRuns(cases)
<1>1. PICK p \in ParamsIn(cases) : p[1] = key /\ Recognised(p) /\ text = Text(p[2])
  BY Zenon DEF Sweep
<1>2. PICK c \in ToSet(cases) : p \in UNION {ToSet(run) : run \in ToSet(RunsOf(c))}
  BY DEF ParamsIn
<1>3. PICK run \in ToSet(RunsOf(c)) : p \in ToSet(run)
  BY <1>2
<1>4. PICK i \in DOMAIN run : p = run[i]
  BY <1>3 DEF ToSet
<1>5. CaseLike(c) /\ \E k \in 1 .. Len(full) : run = full[k]
  BY RunOfAll
<1>6. KeysOnce(run) /\ Sequential(run)
  BY <1>5, RunSequential
<1>7. HasKey(run, key) /\ Param(run, key) = p[2]
  BY <1>1, <1>4, <1>6, ParamOnce
<1>8. PICK k \in 1 .. Len(full) : run = full[k]
  BY <1>5
<1>9. DOMAIN full = 1 .. Len(full)
  BY AllRunsFacts, SequenceFacts
<1>10. p[2] \in Formats
  BY <1>1 DEF Recognised
<1> HIDE DEF full
<1>11. p[2] \in Given(full, key)
  BY <1>7, <1>8, <1>9, <1>10 DEF Given
<1> QED BY <1>1, <1>11 DEF full

LEMMA NarrowSweep ==
  ASSUME NEW cases, CaseVector(cases), NEW key,
         \A c \in ToSet(cases) : \A run \in ToSet(RunsOf(c)) : KeysOnce(run),
         Cardinality(Given(AllRuns(cases), key)) <= Threshold
  PROVE  ~(Cardinality(Sweep(cases, key)) > Threshold)
<1> DEFINE V == Given(AllRuns(cases), key)
           W == Sweep(cases, key)
           f == [v \in V |-> Text(v)]
           T == {f[v] : v \in V}
<1>1. IsFiniteSet(V)
  BY AllRunsFacts, GivenFinite
<1>2. \A w \in W : \E v \in V : w = Text(v)
  BY SweepGiven
<1>3. DOMAIN f = V /\ \A v \in V : f[v] = Text(v)
  OBVIOUS
<1> HIDE DEF V, W, f
<1>4. W \in SUBSET T
  BY <1>2, <1>3
<1>5. IsFiniteSet(T) /\ Cardinality(T) <= Cardinality(V)
  BY <1>1, <1>3, ImageBounded
<1> HIDE DEF T
<1>6. IsFiniteSet(W) /\ Cardinality(W) <= Cardinality(T)
  BY <1>4, <1>5, FS_Subset
<1>7. Cardinality(W) \in Nat /\ Cardinality(T) \in Nat /\ Cardinality(V) \in Nat /\ Threshold \in Nat
  BY <1>1, <1>5, <1>6, FS_CardinalityType, SelectionAssumption
<1>8. Cardinality(V) <= Threshold
  BY DEF V
<1> QED BY <1>5, <1>6, <1>7, <1>8 DEF W

LEMMA LinkedRunsOnce ==
  ASSUME Linked, NEW i \in 1 .. Len(registry)
  PROVE  \A c \in ToSet(Expanded(registry[i].ops)) : \A run \in ToSet(RunsOf(c)) : KeysOnce(run)
<1>1. DOMAIN registry = 1 .. Len(registry)
  BY LinkedTests, SequenceFacts
<1> QED BY <1>1, RegistryAssumption DEF Linked

LEMMA SamplingSpares ==
  SelInv => SamplingSparesTheRest
<1> SUFFICES ASSUME SelInv, at > 0 PROVE
      LET full == AllRuns(Expanded(LastOps))
          thin == AllRuns(Sampled(Expanded(LastOps)))
      IN  /\ full # <<>> => thin # <<>>
          /\ thin = full \/ thin = Select(full, {i \in DOMAIN full : Kept(full[i])})
          /\ (\A key \in FormatKeys : Cardinality({Param(full[i], key) : i \in
                {j \in DOMAIN full : HasKey(full[j], key) /\ Param(full[j], key) \in Formats}}) <= Threshold)
             => thin = full
  BY Zenon DEF SamplingSparesTheRest
<1>1. Linked /\ at \in 0 .. Len(registry) /\ Len(registry) \in Nat
  BY LinkedTests, SequenceFacts DEF SelInv, Enumerated
<1>2. at \in 1 .. Len(registry)
  BY <1>1
<1> DEFINE cases == Expanded(LastOps)
           full == AllRuns(cases)
           thin == AllRuns(Sampled(cases))
<1>3. CaseVector(cases)
  BY <1>1, <1>2, LinkedTests, ExpandedCases DEF LastOps
<1>4. \A c \in ToSet(cases) : \A run \in ToSet(RunsOf(c)) : KeysOnce(run)
  BY <1>1, <1>2, LinkedRunsOnce DEF LastOps
<1>5. Sequential(full)
  <2> HIDE DEF cases
  <2> QED BY <1>3, AllRunsFacts
<1> HIDE DEF cases
<1>6. full # <<>> => thin # <<>>
  BY <1>3, SampledSome
<1>7. thin = full \/ thin = KeptOf(full)
  BY <1>3, SampledRuns
<1>8. ASSUME \A key \in FormatKeys : Cardinality(Given(full, key)) <= Threshold
      PROVE  thin = full
  <2>1. \A key \in FormatKeys : ~(Cardinality(Sweep(cases, key)) > Threshold)
    BY <1>3, <1>4, <1>8, NarrowSweep
  <2>2. ~Wide(cases)
    BY <2>1, Zenon DEF Wide, Sweep
  <2>3. Sampled(cases) = cases
    BY <2>2, Zenon DEF Sampled
  <2> QED BY <2>3
<1> HIDE DEF full, thin
<1>9. KeptOf(full) = Select(full, {i \in DOMAIN full : Kept(full[i])})
  BY <1>5, SequenceFacts, Zenon DEF KeptOf, KeptIn
<1>10. thin = full \/ thin = Select(full, {i \in DOMAIN full : Kept(full[i])})
  BY <1>7, <1>9
<1>11. (\A key \in FormatKeys : Cardinality({Param(full[i], key) : i \in
           {j \in DOMAIN full : HasKey(full[j], key) /\ Param(full[j], key) \in Formats}}) <= Threshold)
       => thin = full
  BY <1>8, Zenon DEF Given
<1> QED BY <1>6, <1>10, <1>11, Zenon DEF full, thin, cases

(* Whatever the parameters of a test: sampling leaves it some run, drops    *)
(* only runs with a format that is no representative, keeps the others in   *)
(* their order, and does nothing to a sweep of no more than the threshold.  *)
THEOREM SamplingDropsOnlyFormats == Spec => []SamplingSparesTheRest
<1>1. Init => SelInv
  BY SelInit
<1>2. SelInv /\ [Next]_vars => SelInv'
  BY SelNext
<1>3. SelInv => SamplingSparesTheRest
  BY SamplingSpares
<1> QED BY <1>1, <1>2, <1>3, PTL DEF Spec
=============================================================================
