------------------------- MODULE CaseExpansion_proofs -------------------------
(***************************************************************************)
(* That the expansion of a test loses no run and doubles none.             *)
(*                                                                         *)
(* A record is read as an assignment of values to keys.  Every operation   *)
(* appends to a record the same additions whatever the order of its keys,  *)
(* and its additions are exactly the ways to obey it; so the records after *)
(* some operations stay one for each assignment that obeys them, first for *)
(* the cases, then for the subcases of each case.                          *)
(***************************************************************************)
EXTENDS CaseSelection_proofs

-----------------------------------------------------------------------------
(* Records as assignments. *)

Keys(r) == {r[i][1] : i \in DOMAIN r}

Record(r) == Sequential(r) /\ KeysOnce(r)

LEMMA KeyFound ==
  ASSUME NEW r, NEW key
  PROVE  HasKey(r, key) <=> key \in Keys(r)
BY DEF HasKey, Keys

LEMMA AssignmentOfRecord ==
  ASSUME NEW r, Record(r)
  PROVE  /\ DOMAIN Assignment(r) = Keys(r)
         /\ \A i \in 1 .. Len(r) : r[i][1] \in Keys(r) /\ Assignment(r)[r[i][1]] = r[i][2]
         /\ Assignment(r) = [key \in Keys(r) |-> Assignment(r)[key]]
<1>1. DOMAIN r = 1 .. Len(r)
  BY SequenceFacts DEF Record
<1>2. Assignment(r) = [key \in Keys(r) |-> Param(r, key)]
  BY DEF Assignment, Keys
<1>3. ASSUME NEW i \in 1 .. Len(r)
      PROVE  r[i][1] \in Keys(r) /\ Assignment(r)[r[i][1]] = r[i][2]
  <2>1. Param(r, r[i][1]) = r[i][2]
    BY <1>1, ParamOnce DEF Record
  <2>2. r[i][1] \in Keys(r)
    BY <1>1 DEF Keys
  <2> QED BY <1>2, <2>1, <2>2
<1> QED BY <1>2, <1>3

(* Two assignments that agree everywhere are equal. *)
LEMMA SameAssignment ==
  ASSUME NEW r, Record(r), NEW b, b = [key \in Keys(r) |-> b[key]],
         \A i \in 1 .. Len(r) : b[r[i][1]] = r[i][2]
  PROVE  b = Assignment(r)
<1>1. DOMAIN r = 1 .. Len(r)
  BY SequenceFacts DEF Record
<1>2. ASSUME NEW key \in Keys(r) PROVE b[key] = Assignment(r)[key]
  <2>1. PICK i \in 1 .. Len(r) : key = r[i][1]
    BY <1>1 DEF Keys
  <2> QED BY <2>1, AssignmentOfRecord
<1> QED BY <1>2, AssignmentOfRecord

Agree(a, b, K) == \A key \in K : a[key] = b[key]

(* A record and what is appended to it. *)
LEMMA RecordJoin ==
  ASSUME NEW r, NEW t, Record(r), Record(t), Keys(r) \cap Keys(t) = {}
  PROVE  /\ Record(r \o t)
         /\ Keys(r \o t) = Keys(r) \cup Keys(t)
         /\ Agree(Assignment(r \o t), Assignment(r), Keys(r))
         /\ Agree(Assignment(r \o t), Assignment(t), Keys(t))
<1> DEFINE u == r \o t
           m == Len(r)
           n == Len(t)
<1>1. /\ Sequential(u) /\ Len(u) = m + n /\ DOMAIN u = 1 .. m + n
      /\ \A i \in 1 .. m : u[i] = r[i]
      /\ \A i \in 1 .. n : u[m + i] = t[i]
  BY Concatenation, SequenceFacts DEF Record
<1>2. m \in Nat /\ n \in Nat /\ DOMAIN r = 1 .. m /\ DOMAIN t = 1 .. n
  BY SequenceFacts DEF Record
<1> HIDE DEF u, m, n
<1>3. ASSUME NEW i \in 1 .. m + n
      PROVE  \/ i \in 1 .. m /\ u[i] = r[i]
             \/ i - m \in 1 .. n /\ u[i] = t[i - m]
  <2>1. CASE i <= m
    <3>1. i \in 1 .. m
      BY <1>2, <2>1
    <3> QED BY <1>1, <3>1
  <2>2. CASE ~(i <= m)
    <3>1. i - m \in 1 .. n /\ m + (i - m) = i
      BY <1>2, <2>2
    <3> QED BY <1>1, <3>1
  <2> QED BY <2>1, <2>2
<1>4. ASSUME NEW i \in 1 .. m PROVE i \in 1 .. m + n /\ u[i] = r[i]
  <2>1. i \in 1 .. m + n
    BY <1>2
  <2> QED BY <1>1, <2>1
<1>5. ASSUME NEW i \in 1 .. n PROVE m + i \in 1 .. m + n /\ u[m + i] = t[i]
  <2>1. m + i \in 1 .. m + n
    BY <1>2
  <2> QED BY <1>1, <2>1
<1>6. Keys(u) = Keys(r) \cup Keys(t)
  <2>1. ASSUME NEW k \in Keys(u) PROVE k \in Keys(r) \cup Keys(t)
    <3>1. PICK i \in 1 .. m + n : k = u[i][1]
      BY <1>1 DEF Keys
    <3> QED BY <1>2, <1>3, <3>1 DEF Keys
  <2>2. ASSUME NEW k \in Keys(r) PROVE k \in Keys(u)
    BY <1>1, <1>2, <1>4 DEF Keys
  <2>3. ASSUME NEW k \in Keys(t) PROVE k \in Keys(u)
    BY <1>1, <1>2, <1>5 DEF Keys
  <2> QED BY <2>1, <2>2, <2>3
<1>7. KeysOnce(u)
  <2> SUFFICES ASSUME NEW i \in 1 .. m + n, NEW j \in 1 .. m + n, u[i][1] = u[j][1]
               PROVE  i = j
    BY <1>1 DEF KeysOnce
  <2>1. CASE (i \in 1 .. m /\ u[i] = r[i]) /\ (j \in 1 .. m /\ u[j] = r[j])
    BY <2>1, <1>2 DEF Record, KeysOnce
  <2>2. CASE (i - m \in 1 .. n /\ u[i] = t[i - m]) /\ (j - m \in 1 .. n /\ u[j] = t[j - m])
    <3>1. i - m = j - m
      BY <2>2, <1>2 DEF Record, KeysOnce
    <3> QED BY <3>1, <1>2
  <2>3. CASE (i \in 1 .. m /\ u[i] = r[i]) /\ (j - m \in 1 .. n /\ u[j] = t[j - m])
    BY <2>3, <1>2 DEF Keys
  <2>4. CASE (i - m \in 1 .. n /\ u[i] = t[i - m]) /\ (j \in 1 .. m /\ u[j] = r[j])
    BY <2>4, <1>2 DEF Keys
  <2> QED BY <1>3, <2>1, <2>2, <2>3, <2>4
<1>8. Record(u)
  BY <1>1, <1>7 DEF Record
<1>9. \A i \in 1 .. m + n : Assignment(u)[u[i][1]] = u[i][2]
  BY <1>1, <1>8, AssignmentOfRecord
<1>10. Agree(Assignment(u), Assignment(r), Keys(r))
  <2> SUFFICES ASSUME NEW k \in Keys(r) PROVE Assignment(u)[k] = Assignment(r)[k]
    BY DEF Agree
  <2>1. PICK i \in 1 .. m : k = r[i][1]
    BY <1>2 DEF Keys
  <2>2. Assignment(r)[k] = r[i][2]
    BY <2>1, AssignmentOfRecord DEF m
  <2> QED BY <1>4, <1>9, <2>1, <2>2
<1>11. Agree(Assignment(u), Assignment(t), Keys(t))
  <2> SUFFICES ASSUME NEW k \in Keys(t) PROVE Assignment(u)[k] = Assignment(t)[k]
    BY DEF Agree
  <2>1. PICK i \in 1 .. n : k = t[i][1]
    BY <1>2 DEF Keys
  <2>2. Assignment(t)[k] = t[i][2]
    BY <2>1, AssignmentOfRecord DEF n
  <2> QED BY <1>5, <1>9, <2>1, <2>2
<1> QED BY <1>6, <1>8, <1>10, <1>11 DEF u


-----------------------------------------------------------------------------
(* What an operation appends. *)

LEMMA Appended ==
  ASSUME NEW r, Sequential(r), NEW x
  PROVE  Append(r, x) = r \o <<x>> /\ r \o <<>> = r /\ <<>> \o r = r
<1>1. r \in Seq(ToSet(r) \cup {x}) /\ x \in ToSet(r) \cup {x}
  BY DEF Sequential
<1> QED BY <1>1

Additions(op, a) ==
  CASE op.kind = "combine" -> [i \in DOMAIN op.values |-> <<<<op.key, op.values[i]>>>>]
    [] op.kind = "with"    -> op.records
    [] op.kind = "expand"  -> [i \in DOMAIN op.table[a[op.on]] |-> <<<<op.key, op.table[a[op.on]][i]>>>>]
    [] op.kind = "filter"  -> IF a[op.on] \in op.keep THEN <<<<>>>> ELSE <<>>

LEMMA KindsOfOps ==
  ASSUME NEW op, Distinguishes(op)
  PROVE  op.kind \in {"combine", "with", "expand", "filter"}
BY DEF Distinguishes

LEMMA ReadKey ==
  ASSUME NEW r, Record(r), NEW key \in Keys(r)
  PROVE  Assignment(r)[key] = Param(r, key)
BY DEF Assignment, Keys

Extended(r, T) == [i \in DOMAIN T |-> r \o T[i]]

LEMMA ExtensionsAre ==
  ASSUME NEW op, Distinguishes(op), NEW r, Record(r), Reads(op) \subseteq Keys(r)
  PROVE  Extensions(op, r) = Extended(r, Additions(op, Assignment(r)))
<1> DEFINE T == Additions(op, Assignment(r))
           E == Extensions(op, r)
<1>1. \A x : Append(r, x) = r \o <<x>> /\ r \o <<>> = r
  BY Appended DEF Record
<1>2. CASE op.kind = "combine"
  <2>1. T = [i \in DOMAIN op.values |-> <<<<op.key, op.values[i]>>>>]
    BY <1>2 DEF Additions
  <2>2. E = [i \in DOMAIN op.values |-> Append(r, <<op.key, op.values[i]>>)]
    BY <1>2 DEF Extensions
  <2> HIDE DEF T, E
  <2>3. DOMAIN T = DOMAIN op.values /\ \A i \in DOMAIN T : r \o T[i] = Append(r, <<op.key, op.values[i]>>)
    BY <1>1, <2>1
  <2>4. E = [i \in DOMAIN T |-> r \o T[i]]
    BY <2>2, <2>3
  <2> QED BY <2>4 DEF T, E, Extended
<1>3. CASE op.kind = "with"
  <2>1. T = op.records
    BY <1>3 DEF Additions
  <2>2. E = [i \in DOMAIN op.records |-> r \o op.records[i]]
    BY <1>3 DEF Extensions
  <2> HIDE DEF T, E
  <2>3. E = [i \in DOMAIN T |-> r \o T[i]]
    BY <2>1, <2>2
  <2> QED BY <2>3 DEF T, E, Extended
<1>4. CASE op.kind = "expand"
  <2>0. Assignment(r)[op.on] = Param(r, op.on)
    BY <1>4, ReadKey DEF Reads
  <2> DEFINE V == op.table[Param(r, op.on)]
  <2>1. T = [i \in DOMAIN V |-> <<<<op.key, V[i]>>>>]
    BY <1>4, <2>0 DEF Additions
  <2>2. E = [i \in DOMAIN V |-> Append(r, <<op.key, V[i]>>)]
    BY <1>4 DEF Extensions
  <2> HIDE DEF T, E, V
  <2>3. DOMAIN T = DOMAIN V /\ \A i \in DOMAIN T : r \o T[i] = Append(r, <<op.key, V[i]>>)
    BY <1>1, <2>1
  <2>4. E = [i \in DOMAIN T |-> r \o T[i]]
    BY <2>2, <2>3
  <2> QED BY <2>4 DEF T, E, Extended
<1>5. CASE op.kind = "filter"
  <2>0. Assignment(r)[op.on] = Param(r, op.on)
    BY <1>5, ReadKey DEF Reads
  <2>1. T = IF Param(r, op.on) \in op.keep THEN <<<<>>>> ELSE <<>>
    BY <1>5, <2>0 DEF Additions
  <2>2. E = IF Param(r, op.on) \in op.keep THEN <<r>> ELSE <<>>
    BY <1>5 DEF Extensions
  <2> HIDE DEF T, E
  <2>3. CASE Param(r, op.on) \in op.keep
    <3>1. T = <<<<>>>> /\ E = <<r>>
      BY <2>1, <2>2, <2>3
    <3>2. DOMAIN T = 1 .. 1 /\ \A i \in 1 .. 1 : r \o T[i] = r
      BY <1>1, <3>1
    <3>3. <<r>> = [i \in 1 .. 1 |-> r]
      OBVIOUS
    <3>4. E = [i \in DOMAIN T |-> r \o T[i]]
      BY <3>1, <3>2, <3>3
    <3> QED BY <3>4 DEF T, E, Extended
  <2>4. CASE Param(r, op.on) \notin op.keep
    <3>1. T = <<>> /\ E = <<>>
      BY <2>1, <2>2, <2>4
    <3>2. <<>> = [i \in DOMAIN <<>> |-> r \o <<>>[i]]
      OBVIOUS
    <3>3. E = [i \in DOMAIN T |-> r \o T[i]]
      BY <3>1, <3>2
    <3> QED BY <3>3 DEF T, E, Extended
  <2> QED BY <2>3, <2>4
<1> QED BY <1>2, <1>3, <1>4, <1>5, KindsOfOps

(* T are records of the keys K, no two of them the same assignment. *)
Ways(T, K) ==
  /\ Sequential(T)
  /\ \A i \in 1 .. Len(T) : Record(T[i]) /\ Keys(T[i]) = K
  /\ \A i, j \in 1 .. Len(T) : Assignment(T[i]) = Assignment(T[j]) => i = j

LEMMA OneEntry ==
  ASSUME NEW k, NEW v
  PROVE  /\ Record(<<<<k, v>>>>) /\ Keys(<<<<k, v>>>>) = {k}
         /\ Assignment(<<<<k, v>>>>)[k] = v
<1> DEFINE r == <<<<k, v>>>>
<1>1. r = [i \in 1 .. 1 |-> r[i]] /\ Len(r) = 1 /\ DOMAIN r = {1} /\ r[1] = <<k, v>> /\ r[1][1] = k /\ r[1][2] = v
  OBVIOUS
<1> HIDE DEF r
<1>2. Sequential(r)
  BY <1>1, SequenceMade
<1>3. KeysOnce(r)
  BY <1>1 DEF KeysOnce
<1>4. Keys(r) = {k}
  BY <1>1 DEF Keys
<1>5. Record(r)
  BY <1>2, <1>3 DEF Record
<1>6. Assignment(r)[r[1][1]] = r[1][2]
  <2>1. 1 \in 1 .. Len(r)
    BY <1>1
  <2> QED BY <1>5, <2>1, AssignmentOfRecord
<1> QED BY <1>1, <1>4, <1>5, <1>6 DEF r

(* T gives the key each of the values, in a record of its own. *)
Gives(T, key, values) == T = [i \in DOMAIN values |-> <<<<key, values[i]>>>>]

LEMMA EntriesAre ==
  ASSUME NEW key, NEW values, Sequential(values), IsInjective(values), NEW T, Gives(T, key, values)
  PROVE  /\ Ways(T, {key})
         /\ \A i \in 1 .. Len(T) : Assignment(T[i])[key] \in ToSet(values)
         /\ \A b : b[key] \in ToSet(values) <=> \E i \in 1 .. Len(T) : Agree(b, Assignment(T[i]), {key})
<1>1. DOMAIN values = 1 .. Len(values) /\ Len(values) \in Nat
  BY SequenceFacts
<1>2. T = [i \in 1 .. Len(values) |-> T[i]] /\ \A i \in 1 .. Len(values) : T[i] = <<<<key, values[i]>>>>
  BY <1>1 DEF Gives
<1>3. Sequential(T) /\ Len(T) = Len(values)
  BY <1>1, <1>2, SequenceMade
<1>4. \A i \in 1 .. Len(T) : Record(T[i]) /\ Keys(T[i]) = {key} /\ Assignment(T[i])[key] = values[i]
  <2> TAKE i \in 1 .. Len(T)
  <2>1. T[i] = <<<<key, values[i]>>>>
    BY <1>2, <1>3
  <2>2. Record(<<<<key, values[i]>>>>) /\ Keys(<<<<key, values[i]>>>>) = {key}
        /\ Assignment(<<<<key, values[i]>>>>)[key] = values[i]
    BY OneEntry
  <2> QED BY <2>1, <2>2, Zenon
<1>5. \A i \in 1 .. Len(T) : values[i] \in ToSet(values)
  BY <1>1, <1>3 DEF ToSet
<1>6. \A i, j \in 1 .. Len(T) : Assignment(T[i]) = Assignment(T[j]) => i = j
  BY <1>1, <1>3, <1>4 DEF IsInjective
<1>7. ASSUME NEW b
      PROVE  b[key] \in ToSet(values) <=> \E i \in 1 .. Len(T) : Agree(b, Assignment(T[i]), {key})
  <2>1. \A i \in 1 .. Len(T) : Agree(b, Assignment(T[i]), {key}) <=> b[key] = values[i]
    BY <1>4 DEF Agree
  <2>2. b[key] \in ToSet(values) <=> \E i \in 1 .. Len(T) : b[key] = values[i]
    BY <1>1, <1>3 DEF ToSet
  <2> QED BY <2>1, <2>2
<1>8. Ways(T, {key})
  BY <1>3, <1>4, <1>6 DEF Ways
<1>9. \A i \in 1 .. Len(T) : Assignment(T[i])[key] \in ToSet(values)
  BY <1>4, <1>5
<1> QED BY <1>7, <1>8, <1>9

LEMMA Emptiness ==
  /\ Record(<<>>) /\ Keys(<<>>) = {} /\ Ways(<<<<>>>>, {}) /\ Ways(<<>>, {})
  /\ Len(<<<<>>>>) = 1 /\ <<<<>>>>[1] = <<>> /\ Len(<<>>) = 0
<1>1. Record(<<>>) /\ Keys(<<>>) = {} /\ Len(<<>>) = 0
  BY EmptySequential DEF Record, KeysOnce, Keys
<1>2. Ways(<<>>, {})
  BY <1>1 DEF Ways, Record
<1> DEFINE T == <<<<>>>>
<1>3. T = [i \in 1 .. 1 |-> T[i]] /\ Len(T) = 1 /\ T[1] = <<>>
  OBVIOUS
<1> HIDE DEF T
<1>4. Sequential(T)
  BY <1>3, SequenceMade
<1>5. \A i \in 1 .. Len(T) : i = 1
  BY <1>3
<1>6. Ways(T, {})
  BY <1>1, <1>3, <1>4, <1>5 DEF Ways
<1> QED BY <1>1, <1>2, <1>3, <1>6 DEF T

LEMMA RecordsGiven ==
  ASSUME NEW op, Distinguishes(op), op.kind = "with"
  PROVE  /\ Ways(op.records, AddedKeys(op))
         /\ \A i \in 1 .. Len(op.records), key \in AddedKeys(op) :
              Assignment(op.records[i])[key] \in ValuesUnder(op, key)
         /\ \A b : Obeys(b, op) <=> \E i \in 1 .. Len(op.records) : Agree(b, Assignment(op.records[i]), AddedKeys(op))
<1> DEFINE T == op.records
           K == AddedKeys(op)
<1>1. /\ Sequential(T)
      /\ \A i \in DOMAIN T :
           /\ Sequential(T[i]) /\ KeysOnce(T[i])
           /\ \A key \in K : HasKey(T[i], key)
           /\ \A j \in DOMAIN T : Assignment(T[i]) = Assignment(T[j]) => i = j
  BY DEF Distinguishes
<1>2. DOMAIN T = 1 .. Len(T)
  BY <1>1, SequenceFacts
<1>3. K = UNION {{p[1] : p \in ToSet(T[i])} : i \in DOMAIN T}
  BY DEF AddedKeys
<1>4. \A b : Obeys(b, op) <=> \E i \in DOMAIN T : \A p \in ToSet(T[i]) : b[p[1]] = p[2]
  BY DEF Obeys
<1>5. \A key : ValuesUnder(op, key) = UNION {{p[2] : p \in {q \in ToSet(T[i]) : q[1] = key}} : i \in DOMAIN T}
  BY DEF ValuesUnder
<1> HIDE DEF T, K
<1>6. ASSUME NEW i \in 1 .. Len(T)
      PROVE  /\ Record(T[i]) /\ Keys(T[i]) = K
             /\ \A j \in 1 .. Len(T[i]) : T[i][j] \in ToSet(T[i])
             /\ \A p \in ToSet(T[i]) : \E j \in 1 .. Len(T[i]) : p = T[i][j]
  <2>1. Record(T[i]) /\ DOMAIN T[i] = 1 .. Len(T[i])
    BY <1>1, <1>2, SequenceFacts DEF Record
  <2>2. /\ \A j \in 1 .. Len(T[i]) : T[i][j] \in ToSet(T[i])
        /\ \A p \in ToSet(T[i]) : \E j \in 1 .. Len(T[i]) : p = T[i][j]
    BY <2>1 DEF ToSet
  <2>3. Keys(T[i]) \subseteq K
    <3> SUFFICES ASSUME NEW j \in 1 .. Len(T[i]) PROVE T[i][j][1] \in K
      BY <2>1 DEF Keys
    <3>1. T[i][j] \in ToSet(T[i])
      BY <2>2
    <3>2. T[i][j][1] \in {p[1] : p \in ToSet(T[i])}
      BY <3>1
    <3> QED BY <1>2, <1>3, <3>2
  <2>4. K \subseteq Keys(T[i])
    BY <1>1, <1>2, KeyFound
  <2> QED BY <2>1, <2>2, <2>3, <2>4
<1>7. Ways(T, K)
  BY <1>1, <1>2, <1>6 DEF Ways
<1>8. ASSUME NEW i \in 1 .. Len(T), NEW key \in K
      PROVE  Assignment(T[i])[key] \in ValuesUnder(op, key)
  <2>1. PICK j \in 1 .. Len(T[i]) : T[i][j][1] = key
    <3>1. key \in Keys(T[i]) /\ DOMAIN T[i] = 1 .. Len(T[i])
      BY <1>6, SequenceFacts DEF Record
    <3> QED BY <3>1 DEF Keys
  <2>2. Assignment(T[i])[key] = T[i][j][2]
    BY <1>6, <2>1, AssignmentOfRecord
  <2>3. T[i][j] \in {q \in ToSet(T[i]) : q[1] = key}
    BY <1>6, <2>1
  <2>4. T[i][j][2] \in {p[2] : p \in {q \in ToSet(T[i]) : q[1] = key}}
    BY <2>3
  <2> QED BY <1>2, <1>5, <2>2, <2>4
<1>9. ASSUME NEW b, NEW i \in 1 .. Len(T)
      PROVE  (\A p \in ToSet(T[i]) : b[p[1]] = p[2]) <=> Agree(b, Assignment(T[i]), K)
  <2>1. ASSUME \A p \in ToSet(T[i]) : b[p[1]] = p[2], NEW key \in K PROVE b[key] = Assignment(T[i])[key]
    <3>1. PICK j \in 1 .. Len(T[i]) : T[i][j][1] = key
      <4>1. key \in Keys(T[i]) /\ DOMAIN T[i] = 1 .. Len(T[i])
        BY <1>6, SequenceFacts DEF Record
      <4> QED BY <4>1 DEF Keys
    <3>2. Assignment(T[i])[key] = T[i][j][2]
      BY <1>6, <3>1, AssignmentOfRecord
    <3>3. b[T[i][j][1]] = T[i][j][2]
      BY <1>6, <2>1
    <3> QED BY <3>1, <3>2, <3>3
  <2>2. ASSUME Agree(b, Assignment(T[i]), K), NEW p \in ToSet(T[i]) PROVE b[p[1]] = p[2]
    <3>1. PICK j \in 1 .. Len(T[i]) : p = T[i][j]
      BY <1>6
    <3>2. p[1] \in K /\ Assignment(T[i])[p[1]] = p[2]
      BY <1>6, <3>1, AssignmentOfRecord
    <3> QED BY <2>2, <3>2 DEF Agree
  <2> QED BY <2>1, <2>2 DEF Agree
<1>10. \A b : Obeys(b, op) <=> \E i \in 1 .. Len(T) : Agree(b, Assignment(T[i]), K)
  BY <1>2, <1>4, <1>9
<1> QED BY <1>7, <1>8, <1>10 DEF T, K

(* The additions of an operation are the ways to obey it. *)
LEMMA AdditionsAre ==
  ASSUME NEW op, Distinguishes(op), NEW a, op.kind = "expand" => a[op.on] \in DOMAIN op.table
  PROVE  /\ Ways(Additions(op, a), AddedKeys(op))
         /\ \A i \in 1 .. Len(Additions(op, a)), key \in AddedKeys(op) :
              Assignment(Additions(op, a)[i])[key] \in ValuesUnder(op, key)
         /\ \A b : Agree(b, a, Reads(op)) =>
              (Obeys(b, op) <=> \E i \in 1 .. Len(Additions(op, a)) :
                                  Agree(b, Assignment(Additions(op, a)[i]), AddedKeys(op)))
<1> DEFINE T == Additions(op, a)
<1>1. CASE op.kind = "combine"
  <2>1. Sequential(op.values) /\ IsInjective(op.values)
    BY <1>1 DEF Distinguishes
  <2>2. Gives(T, op.key, op.values)
    BY <1>1 DEF Additions, Gives
  <2>3. AddedKeys(op) = {op.key}
    BY <1>1 DEF AddedKeys
  <2>4. \A key : ValuesUnder(op, key) = ToSet(op.values)
    BY <1>1 DEF ValuesUnder
  <2>5. \A b : Obeys(b, op) <=> b[op.key] \in ToSet(op.values)
    BY <1>1 DEF Obeys
  <2>6. /\ Ways(T, {op.key})
        /\ \A i \in 1 .. Len(T) : Assignment(T[i])[op.key] \in ToSet(op.values)
        /\ \A b : b[op.key] \in ToSet(op.values) <=> \E i \in 1 .. Len(T) : Agree(b, Assignment(T[i]), {op.key})
    BY <2>1, <2>2, EntriesAre
  <2> HIDE DEF T
  <2>7. \A i \in 1 .. Len(T), key \in AddedKeys(op) : Assignment(T[i])[key] \in ValuesUnder(op, key)
    BY <2>3, <2>4, <2>6
  <2>8. \A b : Obeys(b, op) <=> \E i \in 1 .. Len(T) : Agree(b, Assignment(T[i]), AddedKeys(op))
    BY <2>3, <2>5, <2>6, Zenon
  <2>9. Ways(T, AddedKeys(op))
    BY <2>3, <2>6
  <2> QED BY <2>7, <2>8, <2>9 DEF T
<1>2. CASE op.kind = "with"
  <2>1. T = op.records
    BY <1>2 DEF Additions
  <2> QED BY <1>2, <2>1, RecordsGiven
<1>3. CASE op.kind = "expand"
  <2> DEFINE V == op.table[a[op.on]]
  <2>1. Sequential(V) /\ IsInjective(V)
    BY <1>3 DEF Distinguishes
  <2>2. Gives(T, op.key, V)
    BY <1>3 DEF Additions, Gives
  <2>3. AddedKeys(op) = {op.key}
    BY <1>3 DEF AddedKeys
  <2>4. \A key : ToSet(V) \subseteq ValuesUnder(op, key)
    BY <1>3 DEF ValuesUnder
  <2>5. \A b : Agree(b, a, Reads(op)) => (Obeys(b, op) <=> b[op.key] \in ToSet(V))
    BY <1>3 DEF Obeys, Agree, Reads
  <2> HIDE DEF V
  <2>6. /\ Ways(T, {op.key})
        /\ \A i \in 1 .. Len(T) : Assignment(T[i])[op.key] \in ToSet(V)
        /\ \A b : b[op.key] \in ToSet(V) <=> \E i \in 1 .. Len(T) : Agree(b, Assignment(T[i]), {op.key})
    BY <2>1, <2>2, EntriesAre
  <2> HIDE DEF T
  <2>7. \A i \in 1 .. Len(T), key \in AddedKeys(op) : Assignment(T[i])[key] \in ValuesUnder(op, key)
    BY <2>3, <2>4, <2>6
  <2>8. \A b : Agree(b, a, Reads(op)) =>
          (Obeys(b, op) <=> \E i \in 1 .. Len(T) : Agree(b, Assignment(T[i]), AddedKeys(op)))
    BY <2>3, <2>5, <2>6, Zenon
  <2>9. Ways(T, AddedKeys(op))
    BY <2>3, <2>6
  <2> QED BY <2>7, <2>8, <2>9 DEF T
<1>4. CASE op.kind = "filter"
  <2>1. T = IF a[op.on] \in op.keep THEN <<<<>>>> ELSE <<>>
    BY <1>4 DEF Additions
  <2>2. AddedKeys(op) = {}
    BY <1>4 DEF AddedKeys
  <2>3. \A b : Agree(b, a, Reads(op)) => (Obeys(b, op) <=> a[op.on] \in op.keep)
    BY <1>4 DEF Obeys, Agree, Reads
  <2> HIDE DEF T
  <2>4. Ways(T, {}) /\ (a[op.on] \in op.keep <=> 1 \in 1 .. Len(T)) /\ (a[op.on] \notin op.keep => Len(T) = 0)
    BY <2>1, Emptiness
  <2>5. \A b, i : Agree(b, Assignment(T[i]), {})
    BY DEF Agree
  <2>6. \A b : Agree(b, a, Reads(op)) =>
          (Obeys(b, op) <=> \E i \in 1 .. Len(T) : Agree(b, Assignment(T[i]), {}))
    BY <2>3, <2>4, <2>5
  <2> QED BY <2>2, <2>4, <2>6 DEF T
<1> QED BY <1>1, <1>2, <1>3, <1>4, KindsOfOps

-----------------------------------------------------------------------------
(* The elements of a flattened sequence, each by its part and its place in  *)
(* that part.                                                              *)

Addressed(F, ss, n, I, K) ==
  /\ \A p \in 1 .. Len(F) : I[p] \in 1 .. n /\ K[p] \in 1 .. Len(ss[I[p]]) /\ F[p] = ss[I[p]][K[p]]
  /\ \A p, q \in 1 .. Len(F) : I[p] = I[q] /\ K[p] = K[q] => p = q
  /\ \A i \in 1 .. n : \A k \in 1 .. Len(ss[i]) : \E p \in 1 .. Len(F) : I[p] = i /\ K[p] = k

LEMMA AddressedMore ==
  ASSUME NEW ss, NEW n \in Nat, NEW F, Sequential(F), NEW I, NEW K, Addressed(F, ss, n, I, K), Sequential(ss[n + 1])
  PROVE  \E J, L : Addressed(F \o ss[n + 1], ss, n + 1, J, L)
<1> DEFINE s == ss[n + 1]
           l == Len(F)
           m == Len(s)
           G == F \o s
           J == [p \in 1 .. l + m |-> IF p <= l THEN I[p] ELSE n + 1]
           L == [p \in 1 .. l + m |-> IF p <= l THEN K[p] ELSE p - l]
<1>1. l \in Nat /\ m \in Nat
  BY SequenceFacts
<1>2. Len(G) = l + m /\ (\A p \in 1 .. l : G[p] = F[p]) /\ (\A k \in 1 .. m : G[l + k] = s[k])
  BY Concatenation
<1>3. ASSUME NEW p \in 1 .. l
      PROVE  p \in 1 .. l + m /\ G[p] = F[p] /\ J[p] = I[p] /\ L[p] = K[p] /\ I[p] \in 1 .. n
  <2>1. p \in 1 .. l + m /\ p <= l
    BY <1>1
  <2>2. J[p] = I[p] /\ L[p] = K[p]
    BY <2>1
  <2>3. I[p] \in 1 .. n
    BY DEF Addressed
  <2> QED BY <1>2, <2>1, <2>2, <2>3
<1>4. ASSUME NEW p \in 1 .. l + m, ~(p <= l)
      PROVE  p - l \in 1 .. m /\ G[p] = s[p - l] /\ J[p] = n + 1 /\ L[p] = p - l
  <2>1. p - l \in 1 .. m /\ l + (p - l) = p
    BY <1>1, <1>4
  <2>2. J[p] = n + 1 /\ L[p] = p - l
    BY <1>4
  <2> QED BY <1>2, <2>1, <2>2
<1>5. ASSUME NEW k \in 1 .. m PROVE l + k \in 1 .. l + m /\ ~(l + k <= l) /\ (l + k) - l = k
  BY <1>1
<1>6. s = ss[n + 1] /\ l = Len(F) /\ m = Len(ss[n + 1]) /\ G = F \o ss[n + 1]
  OBVIOUS
<1> HIDE DEF J, L, G, s, l, m
<1>7. ASSUME NEW p \in 1 .. Len(G)
      PROVE  J[p] \in 1 .. n + 1 /\ L[p] \in 1 .. Len(ss[J[p]]) /\ G[p] = ss[J[p]][L[p]]
  <2>0. p \in 1 .. l + m
    BY <1>2
  <2>1. CASE p <= l
    <3>1. p \in 1 .. l
      BY <2>0, <2>1, <1>1
    <3>2. I[p] \in 1 .. n /\ K[p] \in 1 .. Len(ss[I[p]]) /\ F[p] = ss[I[p]][K[p]]
      BY <3>1, <1>6 DEF Addressed
    <3>3. J[p] = I[p] /\ L[p] = K[p] /\ G[p] = F[p]
      BY <3>1, <1>3
    <3>4. J[p] \in 1 .. n + 1
      BY <3>2, <3>3
    <3> QED BY <3>2, <3>3, <3>4
  <2>2. CASE ~(p <= l)
    <3>1. p - l \in 1 .. m /\ G[p] = s[p - l] /\ J[p] = n + 1 /\ L[p] = p - l
      BY <2>0, <2>2, <1>4
    <3>2. n + 1 \in 1 .. n + 1
      OBVIOUS
    <3> QED BY <3>1, <3>2, <1>6
  <2> QED BY <2>1, <2>2
<1>8. ASSUME NEW p \in 1 .. Len(G), NEW q \in 1 .. Len(G), J[p] = J[q], L[p] = L[q] PROVE p = q
  <2>0. p \in 1 .. l + m /\ q \in 1 .. l + m
    BY <1>2
  <2>1. CASE p <= l /\ q <= l
    <3>1. p \in 1 .. l /\ q \in 1 .. l
      BY <2>0, <2>1, <1>1
    <3>2. I[p] = I[q] /\ K[p] = K[q]
      BY <3>1, <1>3, <1>8
    <3> QED BY <3>1, <3>2, <1>6 DEF Addressed
  <2>2. CASE ~(p <= l) /\ ~(q <= l)
    <3>1. p - l = q - l
      BY <2>0, <2>2, <1>4, <1>8
    <3> QED BY <3>1, <2>0, <1>1
  <2>3. CASE p <= l /\ ~(q <= l)
    <3>1. p \in 1 .. l
      BY <2>0, <2>3, <1>1
    <3>2. J[p] \in 1 .. n /\ J[q] = n + 1
      BY <3>1, <2>0, <2>3, <1>3, <1>4
    <3> QED BY <3>2, <1>8
  <2>4. CASE ~(p <= l) /\ q <= l
    <3>1. q \in 1 .. l
      BY <2>0, <2>4, <1>1
    <3>2. J[q] \in 1 .. n /\ J[p] = n + 1
      BY <3>1, <2>0, <2>4, <1>3, <1>4
    <3> QED BY <3>2, <1>8
  <2> QED BY <2>1, <2>2, <2>3, <2>4
<1>9. ASSUME NEW i \in 1 .. n + 1, NEW k \in 1 .. Len(ss[i])
      PROVE  \E p \in 1 .. Len(G) : J[p] = i /\ L[p] = k
  <2>1. CASE i \in 1 .. n
    <3>1. PICK p \in 1 .. l : I[p] = i /\ K[p] = k
      BY <2>1, <1>6 DEF Addressed
    <3> QED BY <3>1, <1>2, <1>3
  <2>2. CASE i = n + 1
    <3>1. k \in 1 .. m
      BY <2>2, <1>6
    <3>2. l + k \in 1 .. l + m /\ ~(l + k <= l) /\ (l + k) - l = k
      BY <3>1, <1>5
    <3>3. J[l + k] = n + 1 /\ L[l + k] = k
      BY <3>2, <1>4
    <3> QED BY <3>2, <3>3, <2>2, <1>2
  <2> QED BY <2>1, <2>2
<1>10. Addressed(G, ss, n + 1, J, L)
  BY <1>7, <1>8, <1>9 DEF Addressed
<1> QED BY <1>6, <1>10

LEMMA FlattenAddressed ==
  ASSUME NEW ss, Vector(ss)
  PROVE  /\ Sequential(FlattenSeq(ss))
         /\ \E I, K : Addressed(FlattenSeq(ss), ss, Len(ss), I, K)
<1>0. Len(ss) \in Nat
  BY SequenceFacts DEF Vector
<1>1. PICK f : Parts(f, ss) /\ FlattenSeq(ss) = f[Len(ss)]
  BY PartsExist
<1>2. \A i \in 0 .. Len(ss) : Sequential(f[i])
  BY <1>1, PartsSequential
<1> DEFINE Good(n) == n <= Len(ss) => \E I, K : Addressed(f[n], ss, n, I, K)
           A == {n \in Nat : Good(n)}
<1>3. 0 \in A
  <2>1. Len(f[0]) = 0
    BY <1>1, EmptySequential DEF Parts
  <2>2. Addressed(f[0], ss, 0, <<>>, <<>>)
    BY <2>1 DEF Addressed
  <2>3. Good(0)
    BY <2>2
  <2> HIDE DEF Good
  <2> QED BY <2>3
<1>4. ASSUME NEW n \in Nat, n \in A PROVE n + 1 \in A
  <2>1. ASSUME n + 1 <= Len(ss) PROVE \E I, K : Addressed(f[n + 1], ss, n + 1, I, K)
    <3>1. n <= Len(ss) /\ n + 1 \in 1 .. Len(ss) /\ n \in 0 .. Len(ss) /\ (n + 1) - 1 = n
      BY <1>0, <2>1
    <3>2. PICK I, K : Addressed(f[n], ss, n, I, K)
      BY <1>4, <3>1
    <3>3. f[n + 1] = f[n] \o ss[n + 1] /\ Sequential(f[n]) /\ Sequential(ss[n + 1])
      BY <1>1, <1>2, <3>1 DEF Parts, Vector
    <3>4. \E J, L : Addressed(f[n] \o ss[n + 1], ss, n + 1, J, L)
      BY <3>2, <3>3, AddressedMore
    <3> QED BY <3>3, <3>4
  <2>2. Good(n + 1)
    BY <2>1
  <2> HIDE DEF Good
  <2> QED BY <2>2
<1>5. \A n \in Nat : Good(n)
  <2>1. \A n \in Nat : n \in A
    <3> HIDE DEF A
    <3> QED BY <1>3, <1>4, Induction
  <2> HIDE DEF Good
  <2> QED BY <2>1
<1>6. \E I, K : Addressed(f[Len(ss)], ss, Len(ss), I, K)
  BY <1>0, <1>5
<1>7. Sequential(f[Len(ss)])
  BY <1>0, <1>2
<1> QED BY <1>1, <1>6, <1>7

-----------------------------------------------------------------------------
(* The records R that the operations J make of the record r: one for each   *)
(* assignment that r allows and that obeys them.                            *)

KeysMade(ops, J) == UNION {AddedKeys(ops[j]) : j \in J}

Obeying(b, ops, J) == \A j \in J : Obeys(b, ops[j])

Valued(b, ops, J) == \A j \in J : \A key \in AddedKeys(ops[j]) : b[key] \in ValuesUnder(ops[j], key)

Extends(m, r) == \E t : Record(t) /\ Keys(r) \cap Keys(t) = {} /\ m = r \o t

Whole(m, r, ops, J) ==
  /\ Record(m) /\ Keys(m) = Keys(r) \cup KeysMade(ops, J) /\ Extends(m, r)
  /\ Obeying(Assignment(m), ops, J) /\ Valued(Assignment(m), ops, J)

Complete(R, r, ops, J) ==
  /\ Sequential(R)
  /\ \A i \in 1 .. Len(R) : Whole(R[i], r, ops, J)
  /\ \A i, j \in 1 .. Len(R) : Assignment(R[i]) = Assignment(R[j]) => i = j
  /\ \A b : Agree(b, Assignment(r), Keys(r)) /\ Obeying(b, ops, J) =>
       \E i \in 1 .. Len(R) : Agree(b, Assignment(R[i]), Keys(R[i]))

LEMMA ObeysAgree ==
  ASSUME NEW op, Distinguishes(op), NEW a, NEW b, Agree(a, b, Reads(op) \cup AddedKeys(op)), Obeys(a, op)
  PROVE  Obeys(b, op)
<1>1. CASE op.kind = "combine"
  BY <1>1 DEF Agree, AddedKeys, Obeys
<1>2. CASE op.kind = "with"
  <2>1. PICK i \in 1 .. Len(op.records) : Agree(a, Assignment(op.records[i]), AddedKeys(op))
    BY <1>2, RecordsGiven
  <2>2. Agree(b, Assignment(op.records[i]), AddedKeys(op))
    BY <2>1 DEF Agree
  <2> QED BY <1>2, <2>2, RecordsGiven
<1>3. CASE op.kind = "expand"
  <2>1. a[op.key] = b[op.key] /\ a[op.on] = b[op.on]
    BY <1>3 DEF Agree, AddedKeys, Reads
  <2>2. a[op.key] \in ToSet(op.table[a[op.on]])
    BY <1>3 DEF Obeys
  <2> QED BY <1>3, <2>1, <2>2 DEF Obeys
<1>4. CASE op.kind = "filter"
  BY <1>4 DEF Agree, Reads, Obeys
<1> QED BY <1>1, <1>2, <1>3, <1>4, KindsOfOps

LEMMA ExtendsKeeps ==
  ASSUME NEW r, Record(r), NEW m, Extends(m, r)
  PROVE  Record(m) /\ Keys(r) \subseteq Keys(m) /\ Agree(Assignment(m), Assignment(r), Keys(r))
<1>1. PICK t : Record(t) /\ Keys(r) \cap Keys(t) = {} /\ m = r \o t
  BY DEF Extends
<1> QED BY <1>1, RecordJoin

LEMMA Associates ==
  ASSUME NEW r, NEW s, NEW t, Sequential(r), Sequential(s), Sequential(t)
  PROVE  (r \o s) \o t = r \o (s \o t)
<1> DEFINE x == (r \o s) \o t
           y == r \o (s \o t)
           l == Len(r)
           m == Len(s)
           n == Len(t)
<1>1. l \in Nat /\ m \in Nat /\ n \in Nat
  BY SequenceFacts
<1>2. /\ Sequential(r \o s) /\ Len(r \o s) = l + m
      /\ \A i \in 1 .. l : (r \o s)[i] = r[i]
      /\ \A i \in 1 .. m : (r \o s)[l + i] = s[i]
  BY Concatenation
<1>3. /\ Sequential(s \o t) /\ Len(s \o t) = m + n
      /\ \A i \in 1 .. m : (s \o t)[i] = s[i]
      /\ \A i \in 1 .. n : (s \o t)[m + i] = t[i]
  BY Concatenation
<1>4. /\ Sequential(x) /\ Len(x) = (l + m) + n
      /\ \A i \in 1 .. l + m : x[i] = (r \o s)[i]
      /\ \A i \in 1 .. n : x[(l + m) + i] = t[i]
  BY <1>2, Concatenation
<1>5. /\ Sequential(y) /\ Len(y) = l + (m + n)
      /\ \A i \in 1 .. l : y[i] = r[i]
      /\ \A i \in 1 .. m + n : y[l + i] = (s \o t)[i]
  BY <1>3, Concatenation
<1> HIDE DEF x, y, l, m, n
<1>6. ASSUME NEW i \in 1 .. l + m + n PROVE x[i] = y[i]
  <2>1. CASE i <= l
    <3>1. i \in 1 .. l /\ i \in 1 .. l + m
      BY <2>1, <1>1
    <3> QED BY <3>1, <1>2, <1>4, <1>5
  <2>2. CASE l < i /\ i <= l + m
    <3>1. i - l \in 1 .. m /\ i \in 1 .. l + m /\ i - l \in 1 .. m + n /\ l + (i - l) = i
      BY <2>2, <1>1
    <3>2. x[i] = s[i - l]
      BY <3>1, <1>2, <1>4
    <3>3. y[i] = s[i - l]
      BY <3>1, <1>3, <1>5
    <3> QED BY <3>2, <3>3
  <2>3. CASE l + m < i
    <3>1. i - (l + m) \in 1 .. n /\ i - l \in 1 .. m + n /\ l + (i - l) = i
          /\ (l + m) + (i - (l + m)) = i /\ m + (i - (l + m)) = i - l
      BY <2>3, <1>1
    <3>2. x[i] = t[i - (l + m)]
      BY <3>1, <1>4
    <3>3. y[i] = t[i - (l + m)]
      BY <3>1, <1>3, <1>5
    <3> QED BY <3>2, <3>3
  <2> QED BY <1>1, <2>1, <2>2, <2>3
<1>7. Len(x) = Len(y) /\ Len(x) = l + m + n
  BY <1>1, <1>4, <1>5
<1>8. x = y
  BY <1>4, <1>5, <1>6, <1>7, SequenceEqual
<1> QED BY <1>8 DEF x, y

LEMMA ExtendsTwice ==
  ASSUME NEW r, Record(r), NEW m, Extends(m, r), NEW q, Extends(q, m)
  PROVE  Extends(q, r)
<1>1. PICK t : Record(t) /\ Keys(r) \cap Keys(t) = {} /\ m = r \o t
  BY DEF Extends
<1>2. PICK u : Record(u) /\ Keys(m) \cap Keys(u) = {} /\ q = m \o u
  BY DEF Extends
<1>3. Keys(m) = Keys(r) \cup Keys(t)
  BY <1>1, RecordJoin
<1>4. Keys(t) \cap Keys(u) = {} /\ Keys(r) \cap Keys(u) = {}
  BY <1>2, <1>3
<1>5. Record(t \o u) /\ Keys(t \o u) = Keys(t) \cup Keys(u)
  BY <1>1, <1>2, <1>4, RecordJoin
<1>6. q = r \o (t \o u)
  BY <1>1, <1>2, Associates DEF Record
<1>7. Keys(r) \cap Keys(t \o u) = {}
  BY <1>1, <1>4, <1>5
<1> QED BY <1>5, <1>6, <1>7 DEF Extends

LEMMA ExtendsItself ==
  ASSUME NEW r, Record(r)
  PROVE  Extends(r, r)
<1>1. r = r \o <<>>
  BY Appended DEF Record
<1> QED BY <1>1, Emptiness DEF Extends

LEMMA SingleSequence ==
  ASSUME NEW r
  PROVE  Sequential(<<r>>) /\ Len(<<r>>) = 1 /\ <<r>>[1] = r
<1> DEFINE s == <<r>>
<1>1. s = [i \in 1 .. 1 |-> s[i]] /\ Len(s) = 1 /\ s[1] = r
  OBVIOUS
<1> HIDE DEF s
<1>2. Sequential(s)
  BY <1>1, SequenceMade
<1> QED BY <1>1, <1>2 DEF s

(* No operation: the record itself. *)
LEMMA NothingApplied ==
  ASSUME NEW r, Record(r), NEW ops
  PROVE  Complete(<<r>>, r, ops, {})
<1>1. Sequential(<<r>>) /\ Len(<<r>>) = 1 /\ <<r>>[1] = r
  BY SingleSequence
<1>2. Whole(r, r, ops, {})
  BY ExtendsItself DEF Whole, KeysMade, Obeying, Valued
<1> DEFINE s == <<r>>
<1>3. Sequential(s) /\ Len(s) = 1 /\ s[1] = r
  BY <1>1
<1> HIDE DEF s
<1>4. \A i \in 1 .. Len(s) : i = 1 /\ s[i] = r
  BY <1>3
<1>5. \A i \in 1 .. Len(s) : Whole(s[i], r, ops, {})
  BY <1>2, <1>4
<1>6. \A b : Agree(b, Assignment(r), Keys(r)) => \E i \in 1 .. Len(s) : Agree(b, Assignment(s[i]), Keys(s[i]))
  BY <1>3
<1>7. Complete(s, r, ops, {})
  BY <1>3, <1>4, <1>5, <1>6 DEF Complete
<1> QED BY <1>7 DEF s

LEMMA OneOperation ==
  ASSUME NEW ops, NEW n
  PROVE  /\ KeysMade(ops, {n}) = AddedKeys(ops[n])
         /\ \A b : Obeying(b, ops, {n}) <=> Obeys(b, ops[n])
         /\ \A b : Valued(b, ops, {n}) <=> \A key \in AddedKeys(ops[n]) : b[key] \in ValuesUnder(ops[n], key)
BY DEF KeysMade, Obeying, Valued

(* An operation that may be applied to a record. *)
Applicable(op, r) ==
  /\ Distinguishes(op)
  /\ Reads(op) \subseteq Keys(r)
  /\ AddedKeys(op) \cap Keys(r) = {}
  /\ op.kind = "expand" => Assignment(r)[op.on] \in DOMAIN op.table

LEMMA OneExtended ==
  ASSUME NEW ops, NEW n, NEW r, Record(r), Applicable(ops[n], r)
  PROVE  Complete(Extensions(ops[n], r), r, ops, {n})
<1> DEFINE op == ops[n]
           a == Assignment(r)
           T == Additions(op, a)
           E == Extensions(op, r)
           K == AddedKeys(op)
<1>1. /\ Distinguishes(op) /\ Reads(op) \subseteq Keys(r) /\ K \cap Keys(r) = {}
      /\ op.kind = "expand" => a[op.on] \in DOMAIN op.table
  BY DEF Applicable
<1>2. /\ KeysMade(ops, {n}) = K
      /\ \A b : Obeying(b, ops, {n}) <=> Obeys(b, op)
      /\ \A b : Valued(b, ops, {n}) <=> \A key \in K : b[key] \in ValuesUnder(op, key)
  BY OneOperation
<1>3. E = [i \in DOMAIN T |-> r \o T[i]]
  <2>1. Extensions(op, r) = Extended(r, T)
    BY <1>1, ExtensionsAre
  <2> QED BY <2>1 DEF Extended
<1>4. /\ Ways(T, K)
      /\ \A i \in 1 .. Len(T), key \in K : Assignment(T[i])[key] \in ValuesUnder(op, key)
      /\ \A b : Agree(b, a, Reads(op)) => (Obeys(b, op) <=> \E i \in 1 .. Len(T) : Agree(b, Assignment(T[i]), K))
  BY <1>1, AdditionsAre
<1> HIDE DEF op, T, E, K
<1>5. /\ Len(T) \in Nat /\ DOMAIN T = 1 .. Len(T)
      /\ \A i \in 1 .. Len(T) : Record(T[i]) /\ Keys(T[i]) = K
      /\ \A i, j \in 1 .. Len(T) : Assignment(T[i]) = Assignment(T[j]) => i = j
  BY <1>4, SequenceFacts DEF Ways
<1>6. E = [i \in 1 .. Len(T) |-> E[i]] /\ \A i \in 1 .. Len(T) : E[i] = r \o T[i]
  BY <1>3, <1>5
<1>7. Sequential(E) /\ Len(E) = Len(T)
  BY <1>5, <1>6, SequenceMade
<1>8. ASSUME NEW i \in 1 .. Len(T)
      PROVE  /\ Record(E[i]) /\ Keys(E[i]) = Keys(r) \cup K /\ Extends(E[i], r)
             /\ Agree(Assignment(E[i]), a, Keys(r))
             /\ Agree(Assignment(E[i]), Assignment(T[i]), K)
  <2>1. Record(T[i]) /\ Keys(T[i]) = K /\ Keys(r) \cap Keys(T[i]) = {} /\ E[i] = r \o T[i]
    BY <1>1, <1>5, <1>6
  <2>2. /\ Record(r \o T[i])
        /\ Keys(r \o T[i]) = Keys(r) \cup Keys(T[i])
        /\ Agree(Assignment(r \o T[i]), Assignment(r), Keys(r))
        /\ Agree(Assignment(r \o T[i]), Assignment(T[i]), Keys(T[i]))
    BY <2>1, RecordJoin
  <2>3. Extends(E[i], r)
    BY <2>1 DEF Extends
  <2> QED BY <2>1, <2>2, <2>3
<1>9. ASSUME NEW i \in 1 .. Len(T)
      PROVE  Obeys(Assignment(E[i]), op) /\ \A key \in K : Assignment(E[i])[key] \in ValuesUnder(op, key)
  <2>1. Agree(Assignment(E[i]), a, Reads(op))
    BY <1>1, <1>8 DEF Agree
  <2>2. Obeys(Assignment(E[i]), op)
    BY <2>1, <1>4, <1>8
  <2>3. \A key \in K : Assignment(E[i])[key] = Assignment(T[i])[key]
    BY <1>8 DEF Agree
  <2> QED BY <2>2, <2>3, <1>4
<1>10. \A i \in 1 .. Len(E) : Whole(E[i], r, ops, {n})
  BY <1>2, <1>7, <1>8, <1>9 DEF Whole
<1>11. ASSUME NEW i \in 1 .. Len(E), NEW j \in 1 .. Len(E), Assignment(E[i]) = Assignment(E[j])
       PROVE  i = j
  <2>1. \A key \in K : Assignment(T[i])[key] = Assignment(T[j])[key]
    BY <1>7, <1>8, <1>11 DEF Agree
  <2>2. Assignment(T[i]) = [key \in K |-> Assignment(T[i])[key]] /\ Assignment(T[j]) = [key \in K |-> Assignment(T[j])[key]]
    <3>1. \A h \in 1 .. Len(T) : Assignment(T[h]) = [key \in Keys(T[h]) |-> Assignment(T[h])[key]]
      BY <1>5, AssignmentOfRecord
    <3> QED BY <3>1, <1>5, <1>7
  <2>3. Assignment(T[i]) = Assignment(T[j])
    BY <2>1, <2>2
  <2> QED BY <2>3, <1>5, <1>7
<1>12. ASSUME NEW b, Agree(b, a, Keys(r)), Obeying(b, ops, {n})
       PROVE  \E i \in 1 .. Len(E) : Agree(b, Assignment(E[i]), Keys(E[i]))
  <2>1. Agree(b, a, Reads(op))
    BY <1>1, <1>12 DEF Agree
  <2>2. PICK i \in 1 .. Len(T) : Agree(b, Assignment(T[i]), K)
    BY <1>2, <1>4, <1>12, <2>1
  <2>3. Keys(E[i]) = Keys(r) \cup K /\ Agree(Assignment(E[i]), a, Keys(r)) /\ Agree(Assignment(E[i]), Assignment(T[i]), K)
    BY <1>8
  <2>4. Agree(b, Assignment(E[i]), Keys(E[i]))
    BY <2>2, <2>3, <1>12 DEF Agree
  <2> QED BY <2>4, <1>7
<1>13. Complete(E, r, ops, {n})
  BY <1>7, <1>10, <1>11, <1>12 DEF Complete
<1> QED BY <1>13 DEF E, op

(* Completeness composes: what the operations J make, and of each of these  *)
(* what L make.                                                             *)
LEMMA Composed ==
  ASSUME NEW ops, NEW r, Record(r), NEW J, NEW L, NEW R, Complete(R, r, ops, J),
         NEW ss, Vector(ss), Len(ss) = Len(R),
         \A i \in 1 .. Len(R) : Complete(ss[i], R[i], ops, L),
         \A j \in J : Distinguishes(ops[j]) /\ Reads(ops[j]) \subseteq Keys(r) \cup KeysMade(ops, J)
  PROVE  Complete(FlattenSeq(ss), r, ops, J \cup L)
<1> DEFINE F == FlattenSeq(ss)
           N == Len(R)
<1>1. PICK I, K : Addressed(F, ss, N, I, K)
  BY FlattenAddressed
<1>2. Sequential(F)
  BY FlattenAddressed
<1>3. \A i \in 1 .. N : Whole(R[i], r, ops, J) /\ Complete(ss[i], R[i], ops, L)
  BY DEF Complete
<1>4. \A i, j \in 1 .. N : Assignment(R[i]) = Assignment(R[j]) => i = j
  BY DEF Complete
<1>5. \A b : Agree(b, Assignment(r), Keys(r)) /\ Obeying(b, ops, J) =>
        \E i \in 1 .. N : Agree(b, Assignment(R[i]), Keys(R[i]))
  BY DEF Complete
<1> HIDE DEF F, N
<1>6. /\ \A p \in 1 .. Len(F) : I[p] \in 1 .. N /\ K[p] \in 1 .. Len(ss[I[p]]) /\ F[p] = ss[I[p]][K[p]]
      /\ \A p, q \in 1 .. Len(F) : I[p] = I[q] /\ K[p] = K[q] => p = q
      /\ \A i \in 1 .. N : \A k \in 1 .. Len(ss[i]) : \E p \in 1 .. Len(F) : I[p] = i /\ K[p] = k
  BY <1>1 DEF Addressed
<1>7. \A i \in 1 .. N : Record(R[i]) /\ Keys(R[i]) = Keys(r) \cup KeysMade(ops, J) /\ Extends(R[i], r)
  BY <1>3 DEF Whole
<1>8. KeysMade(ops, J \cup L) = KeysMade(ops, J) \cup KeysMade(ops, L)
  BY DEF KeysMade
<1>9. ASSUME NEW i \in 1 .. N, NEW k \in 1 .. Len(ss[i])
      PROVE  /\ Whole(ss[i][k], r, ops, J \cup L)
             /\ Agree(Assignment(ss[i][k]), Assignment(R[i]), Keys(R[i]))
  <2> DEFINE m == ss[i][k]
             a == Assignment(m)
  <2>1. Whole(m, R[i], ops, L)
    BY <1>3 DEF Complete
  <2> HIDE DEF m
  <2>2. Record(m) /\ Keys(m) = Keys(R[i]) \cup KeysMade(ops, L) /\ Extends(m, R[i])
        /\ Obeying(a, ops, L) /\ Valued(a, ops, L)
    BY <2>1 DEF Whole
  <2>3. Extends(m, r)
    BY <2>2, <1>7, ExtendsTwice
  <2>4. Agree(a, Assignment(R[i]), Keys(R[i]))
    BY <2>2, <1>7, ExtendsKeeps
  <2>5. Obeying(Assignment(R[i]), ops, J) /\ Valued(Assignment(R[i]), ops, J)
    BY <1>3 DEF Whole
  <2>6. \A j \in J : AddedKeys(ops[j]) \subseteq Keys(R[i]) /\ Reads(ops[j]) \subseteq Keys(R[i])
    BY <1>7 DEF KeysMade
  <2>7. ASSUME NEW j \in J PROVE Obeys(a, ops[j])
    <3>1. Distinguishes(ops[j])
      OBVIOUS
    <3>2. Agree(Assignment(R[i]), a, Reads(ops[j]) \cup AddedKeys(ops[j]))
      BY <2>4, <2>6 DEF Agree
    <3>3. Obeys(Assignment(R[i]), ops[j])
      BY <2>5 DEF Obeying
    <3> QED BY <3>1, <3>2, <3>3, ObeysAgree
  <2>8. ASSUME NEW j \in J, NEW key \in AddedKeys(ops[j]) PROVE a[key] \in ValuesUnder(ops[j], key)
    <3>1. a[key] = Assignment(R[i])[key]
      BY <2>4, <2>6 DEF Agree
    <3> QED BY <2>5, <3>1 DEF Valued
  <2>9. Obeying(a, ops, J \cup L)
    BY <2>2, <2>7 DEF Obeying
  <2>10. Valued(a, ops, J \cup L)
    BY <2>2, <2>8 DEF Valued
  <2>11. Keys(m) = Keys(r) \cup KeysMade(ops, J \cup L)
    BY <2>2, <1>7, <1>8
  <2>12. Whole(m, r, ops, J \cup L)
    BY <2>2, <2>3, <2>9, <2>10, <2>11 DEF Whole
  <2> QED BY <2>4, <2>12 DEF m
<1>10. \A p \in 1 .. Len(F) : Whole(F[p], r, ops, J \cup L) /\ Agree(Assignment(F[p]), Assignment(R[I[p]]), Keys(R[I[p]]))
  <2> TAKE p \in 1 .. Len(F)
  <2> DEFINE i == I[p]
             k == K[p]
  <2>1. i \in 1 .. N /\ k \in 1 .. Len(ss[i]) /\ F[p] = ss[i][k]
    BY <1>6
  <2> HIDE DEF i, k
  <2>2. Whole(ss[i][k], r, ops, J \cup L) /\ Agree(Assignment(ss[i][k]), Assignment(R[i]), Keys(R[i]))
    BY <1>9, <2>1
  <2>3. Whole(F[p], r, ops, J \cup L) /\ Agree(Assignment(F[p]), Assignment(R[i]), Keys(R[i]))
    BY <2>1, <2>2
  <2> QED BY <2>3 DEF i
<1>11. ASSUME NEW p \in 1 .. Len(F), NEW q \in 1 .. Len(F), Assignment(F[p]) = Assignment(F[q])
       PROVE  p = q
  <2> DEFINE i == I[p]
             j == I[q]
  <2>1. i \in 1 .. N /\ j \in 1 .. N
    BY <1>6
  <2> HIDE DEF i, j
  <2>2. Keys(R[i]) = Keys(R[j]) /\ Record(R[i]) /\ Record(R[j])
    BY <2>1, <1>7
  <2>3. Agree(Assignment(F[p]), Assignment(R[i]), Keys(R[i])) /\ Agree(Assignment(F[q]), Assignment(R[j]), Keys(R[j]))
    BY <1>10 DEF i, j
  <2>4. \A key \in Keys(R[i]) : Assignment(R[i])[key] = Assignment(R[j])[key]
    BY <2>2, <2>3, <1>11 DEF Agree
  <2>5. /\ Assignment(R[i]) = [key \in Keys(R[i]) |-> Assignment(R[i])[key]]
        /\ Assignment(R[j]) = [key \in Keys(R[j]) |-> Assignment(R[j])[key]]
    BY <2>2, AssignmentOfRecord
  <2>6. Assignment(R[i]) = Assignment(R[j])
    BY <2>2, <2>4, <2>5
  <2>7. i = j
    BY <2>1, <2>6, <1>4
  <2>8. \A x, y \in 1 .. Len(ss[i]) : Assignment(ss[i][x]) = Assignment(ss[i][y]) => x = y
    BY <2>1, <1>3 DEF Complete
  <2>9. K[p] = K[q]
    <3>1. K[p] \in 1 .. Len(ss[i]) /\ F[p] = ss[i][K[p]]
      BY <1>6 DEF i
    <3>2. K[q] \in 1 .. Len(ss[j]) /\ F[q] = ss[j][K[q]]
      BY <1>6 DEF j
    <3>3. K[q] \in 1 .. Len(ss[i]) /\ F[q] = ss[i][K[q]]
      BY <2>7, <3>2
    <3>4. Assignment(ss[i][K[p]]) = Assignment(ss[i][K[q]])
      BY <1>11, <3>1, <3>3
    <3> QED BY <2>8, <3>1, <3>3, <3>4
  <2> QED BY <2>7, <2>9, <1>6 DEF i, j
<1>12. ASSUME NEW b, Agree(b, Assignment(r), Keys(r)), Obeying(b, ops, J \cup L)
       PROVE  \E p \in 1 .. Len(F) : Agree(b, Assignment(F[p]), Keys(F[p]))
  <2>1. Obeying(b, ops, J) /\ Obeying(b, ops, L)
    BY <1>12 DEF Obeying
  <2>2. PICK i \in 1 .. N : Agree(b, Assignment(R[i]), Keys(R[i]))
    BY <1>5, <1>12, <2>1
  <2>3. Complete(ss[i], R[i], ops, L)
    BY <1>3
  <2>4. PICK k \in 1 .. Len(ss[i]) : Agree(b, Assignment(ss[i][k]), Keys(ss[i][k]))
    BY <2>1, <2>2, <2>3 DEF Complete
  <2>5. PICK p \in 1 .. Len(F) : I[p] = i /\ K[p] = k
    BY <1>6
  <2>6. F[p] = ss[i][k]
    BY <2>5, <1>6
  <2> QED BY <2>4, <2>6
<1>13. \A p \in 1 .. Len(F) : Whole(F[p], r, ops, J \cup L)
  BY <1>10
<1>14. Complete(F, r, ops, J \cup L)
  BY <1>2, <1>11, <1>12, <1>13 DEF Complete
<1> QED BY <1>14 DEF F

-----------------------------------------------------------------------------
(* All operations of one scope, in their order. *)

Through(f, ops, scope, records, n) ==
  f = [i \in 0 .. n |-> IF i = 0 THEN records
                        ELSE IF ops[i].subcase = scope THEN Applied(ops[i], f[i - 1]) ELSE f[i - 1]]

LEMMA ThroughExists ==
  ASSUME NEW ops, NEW scope, NEW records
  PROVE  \A n \in Nat : \E f : Through(f, ops, scope, records, n)
<1> DEFINE A == {n \in Nat : \E f : Through(f, ops, scope, records, n)}
<1>1. 0 \in A
  <2> DEFINE f == [i \in 0 .. 0 |-> records]
             h == [i \in 0 .. 0 |-> IF i = 0 THEN records
                     ELSE IF ops[i].subcase = scope THEN Applied(ops[i], f[i - 1]) ELSE f[i - 1]]
  <2>1. f = [i \in 0 .. 0 |-> f[i]] /\ h = [i \in 0 .. 0 |-> h[i]] /\ \A i \in 0 .. 0 : f[i] = h[i]
    OBVIOUS
  <2>2. f = h
    <3> HIDE DEF f, h
    <3> QED BY <2>1
  <2>3. Through(f, ops, scope, records, 0)
    <3> HIDE DEF f
    <3> QED BY <2>2, Zenon DEF Through
  <2> HIDE DEF f, h
  <2> QED BY <2>3
<1>2. ASSUME NEW n \in Nat, n \in A PROVE n + 1 \in A
  <2>1. PICK f : Through(f, ops, scope, records, n)
    BY <1>2
  <2> DEFINE next == IF ops[n + 1].subcase = scope THEN Applied(ops[n + 1], f[n]) ELSE f[n]
             g == [i \in 0 .. n + 1 |-> IF i = n + 1 THEN next ELSE f[i]]
             h == [i \in 0 .. n + 1 |-> IF i = 0 THEN records
                     ELSE IF ops[i].subcase = scope THEN Applied(ops[i], g[i - 1]) ELSE g[i - 1]]
  <2>2. ASSUME NEW i \in 0 .. n + 1 PROVE g[i] = h[i]
    <3>1. CASE i = n + 1
      <4>1. g[i] = next /\ g[i - 1] = f[n] /\ i # 0
        BY <3>1
      <4> QED BY <4>1, <3>1
    <3>2. CASE i # n + 1
      <4>1. i \in 0 .. n /\ g[i] = f[i]
        BY <3>2
      <4>2. f[i] = IF i = 0 THEN records ELSE IF ops[i].subcase = scope THEN Applied(ops[i], f[i - 1]) ELSE f[i - 1]
        BY <2>1, <4>1 DEF Through
      <4>3. i # 0 => g[i - 1] = f[i - 1]
        BY <4>1
      <4> QED BY <4>1, <4>2, <4>3
    <3> QED BY <3>1, <3>2
  <2>3. g = h
    <3>1. g = [i \in 0 .. n + 1 |-> g[i]] /\ h = [i \in 0 .. n + 1 |-> h[i]]
      OBVIOUS
    <3> HIDE DEF g, h
    <3> QED BY <3>1, <2>2
  <2>4. Through(g, ops, scope, records, n + 1)
    <3> HIDE DEF g
    <3> QED BY <2>3, Zenon DEF Through
  <2> HIDE DEF g, h, next
  <2> QED BY <2>4
<1>3. \A n \in Nat : n \in A
  <2> HIDE DEF A
  <2> QED BY <1>1, <1>2, Induction
<1> QED BY <1>3

LEMMA AppliedThrough ==
  ASSUME NEW ops, Len(ops) \in Nat, NEW scope, NEW records
  PROVE  \E f : Through(f, ops, scope, records, Len(ops)) /\ AppliedIn(ops, scope, records) = f[Len(ops)]
<1>1. \E f : Through(f, ops, scope, records, Len(ops))
  BY ThroughExists, Zenon
<1> DEFINE F == CHOOSE f : Through(f, ops, scope, records, Len(ops))
<1>2. Through(F, ops, scope, records, Len(ops))
  BY <1>1, Zenon
<1>3. AppliedIn(ops, scope, records) = F[Len(ops)]
  BY Zenon DEF AppliedIn, Through
<1> QED BY <1>2, <1>3, Zenon

InScope(ops, scope, n) == {i \in 1 .. n : ops[i].subcase = scope}

(* Every operation of the scope finds, in the record or in what the scope   *)
(* made before it, the keys it reads, with values it knows; its own are new.*)
ReadyAt(ops, scope, r, i) ==
  /\ Distinguishes(ops[i])
  /\ Reads(ops[i]) \subseteq Keys(r) \cup KeysMade(ops, InScope(ops, scope, i - 1))
  /\ AddedKeys(ops[i]) \cap (Keys(r) \cup KeysMade(ops, InScope(ops, scope, i - 1))) = {}
  /\ ops[i].kind = "expand" =>
       /\ ops[i].on \in Keys(r) => Assignment(r)[ops[i].on] \in DOMAIN ops[i].table
       /\ \A j \in InScope(ops, scope, i - 1) :
            ops[i].on \in AddedKeys(ops[j]) => ValuesUnder(ops[j], ops[i].on) \subseteq DOMAIN ops[i].table

Ready(ops, scope, r) == \A i \in InScope(ops, scope, Len(ops)) : ReadyAt(ops, scope, r, i)

LEMMA ApplicableToEach ==
  ASSUME NEW ops, NEW scope, NEW r, Record(r), NEW n \in Nat, ReadyAt(ops, scope, r, n + 1),
         NEW m, Whole(m, r, ops, InScope(ops, scope, n))
  PROVE  Record(m) /\ Applicable(ops[n + 1], m)
<1> DEFINE op == ops[n + 1]
           J == InScope(ops, scope, n)
<1>1. (n + 1) - 1 = n
  OBVIOUS
<1>2. /\ Distinguishes(op) /\ Reads(op) \subseteq Keys(r) \cup KeysMade(ops, J)
      /\ AddedKeys(op) \cap (Keys(r) \cup KeysMade(ops, J)) = {}
      /\ op.kind = "expand" =>
           /\ op.on \in Keys(r) => Assignment(r)[op.on] \in DOMAIN op.table
           /\ \A j \in J : op.on \in AddedKeys(ops[j]) => ValuesUnder(ops[j], op.on) \subseteq DOMAIN op.table
  BY <1>1 DEF ReadyAt
<1> HIDE DEF J
<1>3. Record(m) /\ Keys(m) = Keys(r) \cup KeysMade(ops, J) /\ Extends(m, r) /\ Valued(Assignment(m), ops, J)
  BY DEF Whole, J
<1>4. Agree(Assignment(m), Assignment(r), Keys(r))
  BY <1>3, ExtendsKeeps
<1>5. ASSUME op.kind = "expand" PROVE Assignment(m)[op.on] \in DOMAIN op.table
  <2>1. op.on \in Keys(r) \cup KeysMade(ops, J)
    BY <1>2, <1>5 DEF Reads
  <2>2. CASE op.on \in Keys(r)
    BY <2>2, <1>2, <1>4, <1>5 DEF Agree
  <2>3. CASE op.on \in KeysMade(ops, J)
    <3>1. PICK j \in J : op.on \in AddedKeys(ops[j])
      BY <2>3 DEF KeysMade
    <3>2. Assignment(m)[op.on] \in ValuesUnder(ops[j], op.on)
      BY <3>1, <1>3 DEF Valued
    <3> QED BY <3>1, <3>2, <1>2, <1>5
  <2> QED BY <2>1, <2>2, <2>3
<1> HIDE DEF op
<1>6. Applicable(op, m)
  BY <1>2, <1>3, <1>5 DEF Applicable
<1> QED BY <1>3, <1>6 DEF op

LEMMA ScopeGrows ==
  ASSUME NEW ops, NEW scope, NEW n \in Nat
  PROVE  /\ ops[n + 1].subcase = scope => InScope(ops, scope, n + 1) = InScope(ops, scope, n) \cup {n + 1}
         /\ ops[n + 1].subcase # scope => InScope(ops, scope, n + 1) = InScope(ops, scope, n)
         /\ \A m \in Nat : n <= m => InScope(ops, scope, n) \subseteq InScope(ops, scope, m)
         /\ InScope(ops, scope, 0) = {}
BY DEF InScope

LEMMA OneMoreApplied ==
  ASSUME NEW ops, Len(ops) \in Nat, NEW scope, NEW r, Record(r), Ready(ops, scope, r),
         NEW n \in Nat, n + 1 <= Len(ops), ops[n + 1].subcase = scope,
         NEW R, Complete(R, r, ops, InScope(ops, scope, n))
  PROVE  Complete(Applied(ops[n + 1], R), r, ops, InScope(ops, scope, n + 1))
<1> DEFINE op == ops[n + 1]
           J == InScope(ops, scope, n)
           ss == [i \in DOMAIN R |-> Extensions(op, R[i])]
<1>1. Len(R) \in Nat /\ DOMAIN R = 1 .. Len(R) /\ \A i \in 1 .. Len(R) : Whole(R[i], r, ops, J)
  BY SequenceFacts DEF Complete
<1>2. n + 1 \in InScope(ops, scope, Len(ops))
  BY DEF InScope
<1>3. ReadyAt(ops, scope, r, n + 1)
  BY <1>2 DEF Ready
<1>4. \A i \in 1 .. Len(R) : Complete(Extensions(op, R[i]), R[i], ops, {n + 1})
  BY <1>1, <1>3, ApplicableToEach, OneExtended
<1>5. ss = [i \in 1 .. Len(R) |-> ss[i]] /\ \A i \in 1 .. Len(R) : ss[i] = Extensions(op, R[i])
  BY <1>1
<1>6. Applied(op, R) = FlattenSeq(ss)
  BY Zenon DEF Applied
<1> HIDE DEF ss, op
<1>7. Sequential(ss) /\ Len(ss) = Len(R)
  BY <1>1, <1>5, SequenceMade
<1>8. \A i \in 1 .. Len(R) : Complete(ss[i], R[i], ops, {n + 1})
  BY <1>4, <1>5
<1>9. Vector(ss)
  BY <1>7, <1>8 DEF Vector, Complete
<1>10. \A j \in J : Distinguishes(ops[j]) /\ Reads(ops[j]) \subseteq Keys(r) \cup KeysMade(ops, J)
  <2> TAKE j \in J
  <2>1. j \in 1 .. n /\ j \in InScope(ops, scope, Len(ops)) /\ j - 1 \in Nat /\ j - 1 <= n
    BY DEF InScope
  <2>2. ReadyAt(ops, scope, r, j)
    BY <2>1 DEF Ready
  <2>3. InScope(ops, scope, j - 1) \subseteq J
    BY <2>1, ScopeGrows
  <2>4. KeysMade(ops, InScope(ops, scope, j - 1)) \subseteq KeysMade(ops, J)
    BY <2>3 DEF KeysMade
  <2> QED BY <2>2, <2>4 DEF ReadyAt
<1>11. InScope(ops, scope, n + 1) = J \cup {n + 1}
  BY ScopeGrows
<1> HIDE DEF J
<1>12. Complete(R, r, ops, J)
  BY DEF J
<1>13. Complete(FlattenSeq(ss), r, ops, J \cup {n + 1})
  BY <1>7, <1>8, <1>9, <1>10, <1>12, Composed
<1> QED BY <1>6, <1>11, <1>13 DEF op

LEMMA AllApplied ==
  ASSUME NEW ops, Len(ops) \in Nat, NEW scope, NEW r, Record(r), Ready(ops, scope, r)
  PROVE  Complete(AppliedIn(ops, scope, <<r>>), r, ops, InScope(ops, scope, Len(ops)))
<1> DEFINE s == <<r>>
           N == Len(ops)
<1>1. PICK f : Through(f, ops, scope, s, N) /\ AppliedIn(ops, scope, s) = f[N]
  BY AppliedThrough
<1>2. Complete(s, r, ops, {})
  BY NothingApplied
<1> HIDE DEF s, N
<1>3. N \in Nat
  BY DEF N
<1> DEFINE Good(n) == n <= N => Complete(f[n], r, ops, InScope(ops, scope, n))
           A == {n \in Nat : Good(n)}
<1>4. 0 \in A
  <2>1. f[0] = s
    BY <1>1, <1>3 DEF Through
  <2>2. Good(0)
    <3>1. InScope(ops, scope, 0) = {}
      BY DEF InScope
    <3> QED BY <2>1, <1>2, <3>1
  <2> HIDE DEF Good
  <2> QED BY <2>2
<1>5. ASSUME NEW n \in Nat, n \in A PROVE n + 1 \in A
  <2>1. ASSUME n + 1 <= N PROVE Complete(f[n + 1], r, ops, InScope(ops, scope, n + 1))
    <3>1. Complete(f[n], r, ops, InScope(ops, scope, n))
      BY <2>1, <1>3, <1>5
    <3>2. n + 1 \in 0 .. N /\ n + 1 # 0 /\ (n + 1) - 1 = n
      BY <2>1, <1>3
    <3>3. f[n + 1] = IF ops[n + 1].subcase = scope THEN Applied(ops[n + 1], f[n]) ELSE f[n]
      BY <1>1, <3>2 DEF Through
    <3>4. CASE ops[n + 1].subcase = scope
      <4>1. Complete(Applied(ops[n + 1], f[n]), r, ops, InScope(ops, scope, n + 1))
        BY <3>1, <3>4, <2>1, OneMoreApplied DEF N
      <4> QED BY <3>3, <3>4, <4>1
    <3>5. CASE ops[n + 1].subcase # scope
      <4>1. InScope(ops, scope, n + 1) = InScope(ops, scope, n)
        BY <3>5, ScopeGrows
      <4> QED BY <3>1, <3>3, <3>5, <4>1
    <3> QED BY <3>4, <3>5
  <2>2. Good(n + 1)
    BY <2>1
  <2> HIDE DEF Good
  <2> QED BY <2>2
<1>6. \A n \in Nat : Good(n)
  <2>1. \A n \in Nat : n \in A
    <3> HIDE DEF A
    <3> QED BY <1>4, <1>5, Induction
  <2> HIDE DEF Good
  <2> QED BY <2>1
<1>7. Complete(f[N], r, ops, InScope(ops, scope, N))
  BY <1>3, <1>6
<1> QED BY <1>1, <1>7 DEF s, N

-----------------------------------------------------------------------------
(* The operations of a test: those of the cases, then those of the          *)
(* subcases.                                                                *)

OfCasesIn(ops) == InScope(ops, FALSE, Len(ops))

OfSubcasesIn(ops) == InScope(ops, TRUE, Len(ops))

(* An earlier operation, and one of another scope. *)
LEMMA EarlierOps ==
  ASSUME NEW ops, WellFormed(ops)
  PROVE  /\ Sequential(ops) /\ Len(ops) \in Nat /\ DOMAIN ops = 1 .. Len(ops)
         /\ \A i \in 1 .. Len(ops) :
              /\ ops[i].subcase \in BOOLEAN
              /\ Distinguishes(ops[i])
              /\ \A key \in Reads(ops[i]) : \E j \in 1 .. i - 1 : key \in AddedKeys(ops[j])
              /\ \A j \in 1 .. i - 1 :
                   /\ ops[j].subcase => ops[i].subcase
                   /\ ops[j].subcase = ops[i].subcase => AddedKeys(ops[i]) \cap AddedKeys(ops[j]) = {}
                   /\ ops[i].kind = "expand" /\ ops[i].on \in AddedKeys(ops[j])
                        => ValuesUnder(ops[j], ops[i].on) \subseteq DOMAIN ops[i].table
<1>1. Sequential(ops)
  BY DEF WellFormed
<1>2. Len(ops) \in Nat /\ DOMAIN ops = 1 .. Len(ops)
  BY <1>1, SequenceFacts
<1> QED BY <1>1, <1>2 DEF WellFormed

LEMMA ReadyCases ==
  ASSUME NEW ops, WellFormed(ops)
  PROVE  Ready(ops, FALSE, <<>>)
<1> SUFFICES ASSUME NEW i \in InScope(ops, FALSE, Len(ops)) PROVE ReadyAt(ops, FALSE, <<>>, i)
  BY DEF Ready
<1>1. i \in 1 .. Len(ops) /\ ops[i].subcase = FALSE /\ Len(ops) \in Nat
  BY EarlierOps DEF InScope
<1> DEFINE J == InScope(ops, FALSE, i - 1)
<1>2. \A j \in J : j \in 1 .. i - 1 /\ ops[j].subcase = FALSE
  BY DEF InScope
<1>3. \A j \in 1 .. i - 1 : j \in J
  <2> TAKE j \in 1 .. i - 1
  <2>1. j \in 1 .. Len(ops)
    BY <1>1
  <2>2. ops[j].subcase \in BOOLEAN /\ ~ops[j].subcase
    BY <1>1, <2>1, EarlierOps
  <2>3. ops[j].subcase = FALSE
    BY <2>2
  <2> QED BY <2>3 DEF InScope
<1> HIDE DEF J
<1>4. Distinguishes(ops[i])
  BY <1>1, EarlierOps
<1>5. Reads(ops[i]) \subseteq KeysMade(ops, J)
  BY <1>1, <1>3, EarlierOps DEF KeysMade
<1>6. AddedKeys(ops[i]) \cap KeysMade(ops, J) = {}
  <2>1. \A j \in J : AddedKeys(ops[i]) \cap AddedKeys(ops[j]) = {}
    BY <1>1, <1>2, EarlierOps
  <2> QED BY <2>1 DEF KeysMade
<1>7. \A j \in J : ops[i].kind = "expand" /\ ops[i].on \in AddedKeys(ops[j])
                     => ValuesUnder(ops[j], ops[i].on) \subseteq DOMAIN ops[i].table
  BY <1>1, <1>2, EarlierOps
<1>8. Keys(<<>>) = {}
  BY Emptiness
<1> QED BY <1>4, <1>5, <1>6, <1>7, <1>8 DEF ReadyAt, J

LEMMA CasesComplete ==
  ASSUME NEW ops, WellFormed(ops)
  PROVE  Complete(CaseRecords(ops), <<>>, ops, OfCasesIn(ops))
<1>1. Len(ops) \in Nat
  BY EarlierOps
<1>2. Record(<<>>)
  BY Emptiness
<1>3. Ready(ops, FALSE, <<>>)
  BY ReadyCases
<1>4. Complete(AppliedIn(ops, FALSE, <<<<>>>>), <<>>, ops, InScope(ops, FALSE, Len(ops)))
  BY <1>1, <1>2, <1>3, AllApplied
<1> QED BY <1>4 DEF CaseRecords, OfCasesIn

LEMMA ReadySubcases ==
  ASSUME NEW ops, WellFormed(ops), NEW r, Whole(r, <<>>, ops, OfCasesIn(ops)),
         \A i \in 1 .. Len(ops) : ops[i].subcase => AddedKeys(ops[i]) \cap Keys(r) = {}
  PROVE  Ready(ops, TRUE, r)
<1> SUFFICES ASSUME NEW i \in InScope(ops, TRUE, Len(ops)) PROVE ReadyAt(ops, TRUE, r, i)
  BY DEF Ready
<1>1. i \in 1 .. Len(ops) /\ ops[i].subcase = TRUE /\ Len(ops) \in Nat
  BY EarlierOps DEF InScope
<1> DEFINE J == InScope(ops, TRUE, i - 1)
           C == OfCasesIn(ops)
<1>2. \A j \in J : j \in 1 .. i - 1 /\ ops[j].subcase = TRUE
  BY DEF InScope
<1>3. Keys(r) = KeysMade(ops, C) /\ Valued(Assignment(r), ops, C)
  BY Emptiness DEF Whole
<1>4. \A j \in C : j \in 1 .. i - 1
  <2> TAKE j \in C
  <2>1. j \in 1 .. Len(ops) /\ ops[j].subcase = FALSE
    BY DEF OfCasesIn, InScope
  <2>2. ~(i \in 1 .. j - 1)
    BY <1>1, <2>1, EarlierOps
  <2>3. i # j
    BY <1>1, <2>1
  <2> QED BY <1>1, <2>1, <2>2, <2>3
<1>5. \A j \in 1 .. i - 1 : j \in J \/ j \in C
  <2> TAKE j \in 1 .. i - 1
  <2>1. j \in 1 .. Len(ops)
    BY <1>1
  <2>2. ops[j].subcase \in BOOLEAN
    BY <2>1, EarlierOps
  <2>3. ops[j].subcase = TRUE \/ ops[j].subcase = FALSE
    BY <2>2
  <2> QED BY <2>1, <2>3 DEF InScope, OfCasesIn
<1> HIDE DEF J, C
<1>6. Distinguishes(ops[i])
  BY <1>1, EarlierOps
<1>7. Reads(ops[i]) \subseteq Keys(r) \cup KeysMade(ops, J)
  <2> SUFFICES ASSUME NEW key \in Reads(ops[i]) PROVE key \in KeysMade(ops, C) \cup KeysMade(ops, J)
    BY <1>3
  <2>1. PICK j \in 1 .. i - 1 : key \in AddedKeys(ops[j])
    BY <1>1, EarlierOps
  <2> QED BY <2>1, <1>5 DEF KeysMade
<1>8. AddedKeys(ops[i]) \cap (Keys(r) \cup KeysMade(ops, J)) = {}
  <2>1. \A j \in J : AddedKeys(ops[i]) \cap AddedKeys(ops[j]) = {}
    BY <1>1, <1>2, EarlierOps
  <2>2. AddedKeys(ops[i]) \cap KeysMade(ops, J) = {}
    BY <2>1 DEF KeysMade
  <2>3. AddedKeys(ops[i]) \cap Keys(r) = {}
    BY <1>1
  <2> QED BY <2>2, <2>3
<1>9. \A j \in 1 .. i - 1 : ops[i].kind = "expand" /\ ops[i].on \in AddedKeys(ops[j])
                              => ValuesUnder(ops[j], ops[i].on) \subseteq DOMAIN ops[i].table
  BY <1>1, EarlierOps
<1>10. ASSUME ops[i].kind = "expand", ops[i].on \in Keys(r)
       PROVE  Assignment(r)[ops[i].on] \in DOMAIN ops[i].table
  <2>1. PICK j \in C : ops[i].on \in AddedKeys(ops[j])
    BY <1>3, <1>10 DEF KeysMade
  <2>2. Assignment(r)[ops[i].on] \in ValuesUnder(ops[j], ops[i].on)
    BY <1>3, <2>1 DEF Valued
  <2> QED BY <1>4, <1>9, <1>10, <2>1, <2>2
<1> QED BY <1>2, <1>6, <1>7, <1>8, <1>9, <1>10 DEF ReadyAt, J

Merged(ops, r) == AppliedIn(ops, TRUE, <<r>>)

LEMMA SubcasesComplete ==
  ASSUME NEW ops, WellFormed(ops), NEW r, Whole(r, <<>>, ops, OfCasesIn(ops)),
         \A i \in 1 .. Len(ops) : ops[i].subcase => AddedKeys(ops[i]) \cap Keys(r) = {}
  PROVE  Complete(Merged(ops, r), r, ops, OfSubcasesIn(ops))
<1>1. Len(ops) \in Nat
  BY EarlierOps
<1>2. Record(r)
  BY DEF Whole
<1>3. Ready(ops, TRUE, r)
  BY ReadySubcases
<1>4. Complete(AppliedIn(ops, TRUE, <<r>>), r, ops, InScope(ops, TRUE, Len(ops)))
  BY <1>1, <1>2, <1>3, AllApplied
<1> QED BY <1>4 DEF Merged, OfSubcasesIn

(* Without the keys of the case, a run is what was appended to the case. *)
LEMMA WithoutCaseKeys ==
  ASSUME NEW r, Record(r), NEW m, Extends(m, r)
  PROVE  r \o Select(m, {k \in DOMAIN m : ~HasKey(r, m[k][1])}) = m
<1>1. PICK t : Record(t) /\ Keys(r) \cap Keys(t) = {} /\ m = r \o t
  BY DEF Extends
<1> DEFINE n == Len(r)
           l == Len(t)
           I == {k \in DOMAIN m : ~HasKey(r, m[k][1])}
           L == {k \in 1 .. l : TRUE}
<1>2. n \in Nat /\ l \in Nat /\ DOMAIN r = 1 .. n /\ DOMAIN t = 1 .. l /\ Sequential(r) /\ Sequential(t)
  BY <1>1, SequenceFacts DEF Record
<1>3. /\ Sequential(m) /\ Len(m) = n + l /\ DOMAIN m = 1 .. n + l
      /\ \A i \in 1 .. n : m[i] = r[i]
      /\ \A i \in 1 .. l : m[n + i] = t[i]
  BY <1>1, <1>2, Concatenation, SequenceFacts
<1>4. \A k \in 1 .. n + l : k \in I <=> m[k][1] \notin Keys(r)
  BY <1>3, KeyFound
<1>5. \A k \in 1 .. n : k \notin I
  BY <1>2, <1>3, <1>4 DEF Keys
<1>6. \A k \in 1 .. l : n + k \in I
  <2> TAKE k \in 1 .. l
  <2>1. n + k \in 1 .. n + l
    BY <1>2
  <2>2. t[k][1] \in Keys(t)
    BY <1>2 DEF Keys
  <2> QED BY <1>1, <1>3, <1>4, <2>1, <2>2
<1> HIDE DEF I, n, l
<1>7. Splits(I, r, t, {}, L)
  BY <1>2, <1>5, <1>6 DEF Splits, n, l
<1>8. Select(t, L) = t
  BY <1>2, SelectAll DEF l
<1> HIDE DEF L
<1>9. Select(r \o t, I) = Select(r, {}) \o Select(t, L)
  BY <1>2, <1>7, SelectJoin
<1>10. Select(r, {}) = <<>>
  BY <1>2, SelectNone
<1>11. Select(m, I) = t
  BY <1>1, <1>2, <1>8, <1>9, <1>10, Appended
<1> QED BY <1>1, <1>11 DEF I

LEMMA EmptySequence ==
  ASSUME NEW s, Sequential(s)
  PROVE  s = <<>> <=> Len(s) = 0
<1>1. ASSUME Len(s) = 0 PROVE s = <<>>
  <2>1. \A i \in 1 .. Len(s) : s[i] = <<>>[i]
    BY <1>1
  <2> QED BY <1>1, <2>1, EmptySequential, SequenceEqual
<1> QED BY <1>1, EmptySequential

LEMMA SubcasesAre ==
  ASSUME NEW ops, NEW r, Record(r), Sequential(Merged(ops, r)),
         \A i \in 1 .. Len(Merged(ops, r)) : Extends(Merged(ops, r)[i], r)
  PROVE  /\ Sequential(Subcases(ops, r)) /\ Len(Subcases(ops, r)) = Len(Merged(ops, r))
         /\ \A i \in 1 .. Len(Merged(ops, r)) : r \o Subcases(ops, r)[i] = Merged(ops, r)[i]
<1> DEFINE M == Merged(ops, r)
           S == Subcases(ops, r)
           Rest(m) == Select(m, {k \in DOMAIN m : ~HasKey(r, m[k][1])})
<1>1. Len(M) \in Nat /\ DOMAIN M = 1 .. Len(M)
  BY SequenceFacts
<1>2. S = [i \in DOMAIN M |-> Rest(M[i])]
  BY Zenon DEF Subcases, Merged
<1>3. \A i \in 1 .. Len(M) : r \o Rest(M[i]) = M[i]
  BY WithoutCaseKeys
<1> HIDE DEF M, S, Rest
<1>4. S = [i \in 1 .. Len(M) |-> S[i]] /\ \A i \in 1 .. Len(M) : S[i] = Rest(M[i])
  BY <1>1, <1>2
<1>5. Sequential(S) /\ Len(S) = Len(M)
  BY <1>1, <1>4, SequenceMade
<1>6. \A i \in 1 .. Len(M) : r \o S[i] = M[i]
  BY <1>3, <1>4
<1> QED BY <1>5, <1>6 DEF M, S

LEMMA RunsAreMerged ==
  ASSUME NEW ops, NEW r, Record(r), Sequential(Merged(ops, r)),
         \A i \in 1 .. Len(Merged(ops, r)) : Extends(Merged(ops, r)[i], r),
         NEW c, c.params = r, c.subcases = Subcases(ops, r)
  PROVE  /\ c.subcases # <<>> => RunsOf(c) = Merged(ops, r)
         /\ c.subcases = <<>> => Merged(ops, r) = <<>>
<1> DEFINE M == Merged(ops, r)
           S == c.subcases
<1>1. /\ Sequential(S) /\ Len(S) = Len(M) /\ Sequential(M)
      /\ \A i \in 1 .. Len(M) : r \o S[i] = M[i]
  <2>1. /\ Sequential(Subcases(ops, r)) /\ Len(Subcases(ops, r)) = Len(M)
        /\ \A i \in 1 .. Len(M) : r \o Subcases(ops, r)[i] = M[i]
    BY SubcasesAre
  <2> QED BY <2>1
<1>2. S # <<>> => RunsOf(c) = [i \in DOMAIN S |-> r \o S[i]]
  BY DEF RunsOf
<1> HIDE DEF M, S
<1>3. DOMAIN S = 1 .. Len(M) /\ M = [i \in 1 .. Len(M) |-> M[i]]
  BY <1>1, SequenceFacts
<1>4. [i \in DOMAIN S |-> r \o S[i]] = M
  BY <1>1, <1>3
<1>5. S = <<>> => M = <<>>
  BY <1>1, EmptySequence
<1> QED BY <1>2, <1>4, <1>5 DEF M, S

LEMMA NoCollision ==
  ASSUME NEW ops, WellFormed(ops), ~Collides(ops), NEW k \in 1 .. Len(CaseRecords(ops)), Sequential(CaseRecords(ops))
  PROVE  \A i \in 1 .. Len(ops) : ops[i].subcase => AddedKeys(ops[i]) \cap Keys(CaseRecords(ops)[k]) = {}
<1>1. k \in DOMAIN CaseRecords(ops)
  BY SequenceFacts
<1>2. DOMAIN ops = 1 .. Len(ops)
  BY EarlierOps
<1>3. \A i \in DOMAIN ops : ops[i].subcase => \A key \in AddedKeys(ops[i]) : ~HasKey(CaseRecords(ops)[k], key)
  BY <1>1, Zenon DEF Collides
<1> QED BY <1>2, <1>3, KeyFound

LEMMA CasesMade ==
  ASSUME NEW ops, WellFormed(ops)
  PROVE  /\ Sequential(EveryCase(ops)) /\ Len(EveryCase(ops)) = Len(CaseRecords(ops))
         /\ Len(CaseRecords(ops)) \in Nat
         /\ \A i \in 1 .. Len(CaseRecords(ops)) :
              /\ EveryCase(ops)[i].params = CaseRecords(ops)[i]
              /\ EveryCase(ops)[i].subcases = IF HasSubcases(ops) THEN Subcases(ops, CaseRecords(ops)[i]) ELSE <<>>
<1> DEFINE R == CaseRecords(ops)
           sub(i) == IF HasSubcases(ops) THEN Subcases(ops, R[i]) ELSE <<>>
           cases == EveryCase(ops)
<1>1. Sequential(R)
  BY CasesComplete DEF Complete
<1>2. Len(R) \in Nat /\ DOMAIN R = 1 .. Len(R)
  BY <1>1, SequenceFacts
<1>3. cases = [i \in DOMAIN R |-> [params |-> R[i], subcases |-> sub(i)]]
  BY Zenon DEF EveryCase
<1> HIDE DEF R, sub, cases
<1>4. cases = [i \in 1 .. Len(R) |-> cases[i]]
      /\ \A i \in 1 .. Len(R) : cases[i] = [params |-> R[i], subcases |-> sub(i)]
  BY <1>2, <1>3
<1>5. Sequential(cases) /\ Len(cases) = Len(R)
  BY <1>2, <1>4, SequenceMade
<1>6. \A i \in 1 .. Len(R) : cases[i].params = R[i] /\ cases[i].subcases = sub(i)
  BY <1>4
<1> QED BY <1>2, <1>5, <1>6 DEF R, sub, cases

LEMMA ScopesTogether ==
  ASSUME NEW ops, WellFormed(ops)
  PROVE  /\ OfCasesIn(ops) \cup OfSubcasesIn(ops) = 1 .. Len(ops)
         /\ ~HasSubcases(ops) => OfCasesIn(ops) = 1 .. Len(ops)
         /\ \A j \in OfCasesIn(ops) :
              Distinguishes(ops[j]) /\ Reads(ops[j]) \subseteq Keys(<<>>) \cup KeysMade(ops, OfCasesIn(ops))
<1>1. DOMAIN ops = 1 .. Len(ops) /\ Len(ops) \in Nat /\ \A i \in 1 .. Len(ops) : ops[i].subcase \in BOOLEAN
  BY EarlierOps
<1>2. \A i \in 1 .. Len(ops) : ops[i].subcase = TRUE \/ ops[i].subcase = FALSE
  BY <1>1
<1>3. OfCasesIn(ops) \cup OfSubcasesIn(ops) = 1 .. Len(ops)
  BY <1>2 DEF OfCasesIn, OfSubcasesIn, InScope
<1>4. ~HasSubcases(ops) => OfCasesIn(ops) = 1 .. Len(ops)
  BY <1>1, <1>2 DEF HasSubcases, OfCasesIn, InScope
<1>5. ASSUME NEW j \in OfCasesIn(ops)
      PROVE  Distinguishes(ops[j]) /\ Reads(ops[j]) \subseteq Keys(<<>>) \cup KeysMade(ops, OfCasesIn(ops))
  <2>1. j \in InScope(ops, FALSE, Len(ops)) /\ j \in 1 .. Len(ops)
    BY DEF OfCasesIn, InScope
  <2>2. ReadyAt(ops, FALSE, <<>>, j)
    BY <2>1, ReadyCases DEF Ready
  <2>3. InScope(ops, FALSE, j - 1) \subseteq OfCasesIn(ops)
    BY <1>1, <2>1 DEF OfCasesIn, InScope
  <2>4. KeysMade(ops, InScope(ops, FALSE, j - 1)) \subseteq KeysMade(ops, OfCasesIn(ops))
    BY <2>3 DEF KeysMade
  <2> QED BY <2>2, <2>4 DEF ReadyAt
<1> QED BY <1>3, <1>4, <1>5

(* A test without subcases: every case is a run. *)
LEMMA PlainComplete ==
  ASSUME NEW ops, WellFormed(ops), Vectors(ops), ~HasSubcases(ops)
  PROVE  Complete(AllRuns(Expanded(ops)), <<>>, ops, 1 .. Len(ops))
<1> DEFINE R == CaseRecords(ops)
           cases == EveryCase(ops)
           ss == RunsOfAll(cases)
           C == OfCasesIn(ops)
<1>1. Expanded(ops) = cases
  BY DEF Expanded
<1>2. CaseVector(cases)
  BY <1>1, ExpandedCases
<1>3. /\ Vector(ss) /\ Len(ss) = Len(cases)
      /\ \A i \in 1 .. Len(cases) : ss[i] = RunsOf(cases[i])
      /\ AllRuns(cases) = FlattenSeq(ss)
  BY <1>2, AllRunsFacts
<1>4. /\ Len(cases) = Len(R)
      /\ \A i \in 1 .. Len(R) : cases[i].params = R[i] /\ cases[i].subcases = <<>>
  BY CasesMade
<1>5. Complete(R, <<>>, ops, C)
  BY CasesComplete
<1>6. C = 1 .. Len(ops)
      /\ \A j \in C : Distinguishes(ops[j]) /\ Reads(ops[j]) \subseteq Keys(<<>>) \cup KeysMade(ops, C)
  BY ScopesTogether
<1> HIDE DEF R, cases, ss, C
<1>7. ASSUME NEW i \in 1 .. Len(R) PROVE Complete(ss[i], R[i], ops, {})
  <2>1. ss[i] = <<R[i]>>
    BY <1>3, <1>4 DEF RunsOf
  <2>2. Record(R[i])
    BY <1>5 DEF Complete, Whole
  <2>3. Complete(<<R[i]>>, R[i], ops, {})
    BY <2>2, NothingApplied
  <2> QED BY <2>1, <2>3
<1>8. Len(ss) = Len(R) /\ Record(<<>>)
  BY <1>3, <1>4, Emptiness
<1>9. Complete(FlattenSeq(ss), <<>>, ops, C \cup {})
  BY <1>3, <1>5, <1>6, <1>7, <1>8, Composed
<1>10. C \cup {} = 1 .. Len(ops)
  BY <1>6
<1> QED BY <1>1, <1>3, <1>9, <1>10

(* A test with subcases: those of every case that has some. *)
LEMMA SubcasedComplete ==
  ASSUME NEW ops, WellFormed(ops), Vectors(ops), ~Collides(ops), HasSubcases(ops)
  PROVE  Complete(AllRuns(Expanded(ops)), <<>>, ops, 1 .. Len(ops))
<1> DEFINE R == CaseRecords(ops)
           N == Len(R)
           cases == EveryCase(ops)
           I == {i \in DOMAIN cases : cases[i].subcases # <<>>}
           some == Select(cases, I)
           ss == [i \in 1 .. N |-> Merged(ops, R[i])]
           C == OfCasesIn(ops)
           S == OfSubcasesIn(ops)
<1>1. Expanded(ops) = some
  BY DEF Expanded, WithSubcases
<1>2. CaseVector(some)
  BY <1>1, ExpandedCases
<1>3. /\ Len(RunsOfAll(some)) = Len(some)
      /\ \A i \in 1 .. Len(some) : RunsOfAll(some)[i] = RunsOf(some[i])
      /\ AllRuns(some) = FlattenSeq(RunsOfAll(some))
      /\ Sequential(RunsOfAll(some))
  <2> HIDE DEF some
  <2> QED BY <1>2, AllRunsFacts DEF Vector
<1>4. /\ Sequential(cases) /\ Len(cases) = N /\ N \in Nat
      /\ \A i \in 1 .. N : cases[i].params = R[i] /\ cases[i].subcases = Subcases(ops, R[i])
  BY CasesMade
<1>5. Complete(R, <<>>, ops, C)
  BY CasesComplete
<1>6. \A i \in 1 .. N : Whole(R[i], <<>>, ops, C)
  BY <1>5 DEF Complete
<1>7. ASSUME NEW i \in 1 .. N PROVE Complete(Merged(ops, R[i]), R[i], ops, S)
  <2>1. \A j \in 1 .. Len(ops) : ops[j].subcase => AddedKeys(ops[j]) \cap Keys(R[i]) = {}
    BY <1>5, NoCollision DEF Complete
  <2>2. Whole(R[i], <<>>, ops, C)
    BY <1>6
  <2> HIDE DEF R
  <2> QED BY <2>1, <2>2, SubcasesComplete
<1>8. /\ C \cup S = 1 .. Len(ops)
      /\ \A j \in C : Distinguishes(ops[j]) /\ Reads(ops[j]) \subseteq Keys(<<>>) \cup KeysMade(ops, C)
  BY ScopesTogether
<1>9. DOMAIN cases = 1 .. N
  BY <1>4, SequenceFacts
<1>10. I = {i \in 1 .. N : cases[i].subcases # <<>>}
  BY <1>9
<1>11. ss = [i \in 1 .. N |-> ss[i]] /\ \A i \in 1 .. N : ss[i] = Merged(ops, R[i])
  OBVIOUS
<1> HIDE DEF R, N, cases, I, some, ss, C, S
<1>12. Sequential(ss) /\ Len(ss) = N
  BY <1>4, <1>11, SequenceMade
<1>13. \A i \in 1 .. N : Complete(ss[i], R[i], ops, S)
  BY <1>7, <1>11
<1>14. Vector(ss)
  BY <1>12, <1>13 DEF Vector, Complete
<1>15. ASSUME NEW i \in 1 .. N
       PROVE  /\ i \in I => RunsOf(cases[i]) = ss[i]
              /\ i \notin I => ss[i] = <<>>
  <2>1. Complete(Merged(ops, R[i]), R[i], ops, S) /\ Record(R[i])
    BY <1>6, <1>7 DEF Whole
  <2>2. Sequential(Merged(ops, R[i])) /\ \A j \in 1 .. Len(Merged(ops, R[i])) : Extends(Merged(ops, R[i])[j], R[i])
    BY <2>1 DEF Complete, Whole
  <2>3. cases[i].params = R[i] /\ cases[i].subcases = Subcases(ops, R[i])
    BY <1>4
  <2>4. /\ cases[i].subcases # <<>> => RunsOf(cases[i]) = Merged(ops, R[i])
        /\ cases[i].subcases = <<>> => Merged(ops, R[i]) = <<>>
    BY <2>1, <2>2, <2>3, RunsAreMerged
  <2> QED BY <2>4, <1>10, <1>11
<1>16. PICK g : Lists(g, I \cap (1 .. N)) /\ some = Read(cases, g)
  BY <1>4, SelectLists DEF some
<1>17. Select(ss, I) = Read(ss, g)
  BY <1>12, <1>16, SelectRead
<1>18. /\ Len(Read(cases, g)) = Len(g) /\ \A j \in 1 .. Len(g) : Read(cases, g)[j] = cases[g[j]]
       /\ Sequential(Read(ss, g)) /\ Len(Read(ss, g)) = Len(g) /\ \A j \in 1 .. Len(g) : Read(ss, g)[j] = ss[g[j]]
       /\ \A j \in 1 .. Len(g) : g[j] \in I \cap (1 .. N)
  <2>1. g \in Seq(I \cap (1 .. N))
    BY <1>16 DEF Lists
  <2> QED BY <2>1, ReadFacts
<1>19. \A j \in 1 .. Len(g) : RunsOfAll(some)[j] = Read(ss, g)[j]
  BY <1>3, <1>15, <1>16, <1>18
<1>20. RunsOfAll(some) = Read(ss, g)
  BY <1>3, <1>16, <1>18, <1>19, SequenceEqual
<1>21. FlattenSeq(Select(ss, I)) = FlattenSeq(ss)
  BY <1>12, <1>14, <1>15, FlattenSelect
<1>22. AllRuns(Expanded(ops)) = FlattenSeq(ss)
  BY <1>1, <1>3, <1>17, <1>20, <1>21
<1>23. Len(ss) = Len(R) /\ Record(<<>>) /\ N = Len(R)
  BY <1>12, Emptiness DEF N
<1>24. \A i \in 1 .. Len(R) : Complete(ss[i], R[i], ops, S)
  BY <1>13, <1>23
<1>25. Complete(FlattenSeq(ss), <<>>, ops, C \cup S)
  BY <1>5, <1>8, <1>14, <1>23, <1>24, Composed
<1> QED BY <1>8, <1>22, <1>25

-----------------------------------------------------------------------------
(* The runs of a test are the assignments that obey all of its operations. *)

LEMMA TestComplete ==
  ASSUME NEW ops, WellFormed(ops), Vectors(ops), ~Collides(ops)
  PROVE  Complete(AllRuns(Expanded(ops)), <<>>, ops, 1 .. Len(ops))
BY PlainComplete, SubcasedComplete

LEMMA NoEmptyCase ==
  ASSUME NEW ops, WellFormed(ops), Vectors(ops), HasSubcases(ops)
  PROVE  \A i \in DOMAIN Expanded(ops) : Expanded(ops)[i].subcases # <<>>
<1> DEFINE cases == EveryCase(ops)
           I == {i \in DOMAIN cases : cases[i].subcases # <<>>}
           some == Select(cases, I)
<1>1. Expanded(ops) = some
  BY DEF Expanded, WithSubcases
<1>2. Sequential(cases)
  BY CasesMade
<1>3. \A i \in I : cases[i].subcases # <<>>
  OBVIOUS
<1> HIDE DEF I, cases
<1>4. DOMAIN some = 1 .. Len(some)
  BY <1>2, SelectSequential, SequenceFacts
<1>5. \A j \in 1 .. Len(some) : \E i \in 1 .. Len(cases) : i \in I /\ some[j] = cases[i]
  BY <1>2, SelectElements
<1> HIDE DEF some
<1> QED BY <1>1, <1>3, <1>4, <1>5

LEMMA ValuesAdded ==
  ASSUME NEW op, Distinguishes(op), NEW key
  PROVE  ValuesUnder(op, key) \subseteq AddedValues(op)
<1>1. CASE op.kind = "combine"
  BY <1>1 DEF ValuesUnder, AddedValues
<1>2. CASE op.kind = "with"
  <2> SUFFICES ASSUME NEW v \in ValuesUnder(op, key) PROVE v \in AddedValues(op)
    OBVIOUS
  <2>1. PICK i \in DOMAIN op.records : v \in {p[2] : p \in {q \in ToSet(op.records[i]) : q[1] = key}}
    BY <1>2 DEF ValuesUnder
  <2>2. v \in {p[2] : p \in ToSet(op.records[i])}
    BY <2>1
  <2> QED BY <1>2, <2>2 DEF AddedValues
<1>3. CASE op.kind = "expand"
  BY <1>3 DEF ValuesUnder, AddedValues
<1>4. CASE op.kind = "filter"
  BY <1>4 DEF ValuesUnder, AddedValues
<1> QED BY <1>1, <1>2, <1>3, <1>4, KindsOfOps

LEMMA RunsAreTheAssignments ==
  ASSUME NEW ops, WellFormed(ops), NEW all, Complete(all, <<>>, ops, 1 .. Len(ops))
  PROVE  /\ {Assignment(all[i]) : i \in DOMAIN all} =
              {a \in [GeneratedKeys(ops) -> GeneratedValues(ops)] : \A i \in DOMAIN ops : Obeys(a, ops[i])}
         /\ \A i, j \in DOMAIN all : i # j => all[i] # all[j]
<1> DEFINE G == GeneratedKeys(ops)
           V == GeneratedValues(ops)
           P == 1 .. Len(ops)
<1>1. DOMAIN ops = P /\ \A i \in P : Distinguishes(ops[i])
  BY EarlierOps
<1>2. G = KeysMade(ops, P)
  BY <1>1 DEF GeneratedKeys, KeysMade
<1>3. V = UNION {AddedValues(ops[i]) : i \in P}
  BY <1>1 DEF GeneratedValues
<1>4. DOMAIN all = 1 .. Len(all)
  BY SequenceFacts DEF Complete
<1>5. /\ \A i \in 1 .. Len(all) : Whole(all[i], <<>>, ops, P)
      /\ \A i, j \in 1 .. Len(all) : Assignment(all[i]) = Assignment(all[j]) => i = j
      /\ \A b : Agree(b, Assignment(<<>>), Keys(<<>>)) /\ Obeying(b, ops, P) =>
           \E i \in 1 .. Len(all) : Agree(b, Assignment(all[i]), Keys(all[i]))
  BY DEF Complete
<1>6. Keys(<<>>) = {}
  BY Emptiness
<1> HIDE DEF G, V, P
<1>7. ASSUME NEW i \in 1 .. Len(all)
      PROVE  /\ Assignment(all[i]) = [key \in G |-> Assignment(all[i])[key]]
             /\ Assignment(all[i]) \in [G -> V]
             /\ \A j \in P : Obeys(Assignment(all[i]), ops[j])
             /\ Keys(all[i]) = G
  <2> DEFINE a == Assignment(all[i])
  <2>1. Record(all[i]) /\ Keys(all[i]) = G /\ Obeying(a, ops, P) /\ Valued(a, ops, P)
    BY <1>2, <1>5, <1>6 DEF Whole
  <2>2. a = [key \in G |-> a[key]]
    BY <2>1, AssignmentOfRecord
  <2> HIDE DEF a
  <2>3. ASSUME NEW key \in G PROVE a[key] \in V
    <3>1. PICK j \in P : key \in AddedKeys(ops[j])
      BY <1>2 DEF KeysMade
    <3>2. a[key] \in ValuesUnder(ops[j], key)
      BY <2>1, <3>1 DEF Valued
    <3>3. a[key] \in AddedValues(ops[j])
      BY <1>1, <3>2, ValuesAdded
    <3> QED BY <1>3, <3>3
  <2>4. a \in [G -> V]
    BY <2>2, <2>3
  <2>5. \A j \in P : Obeys(a, ops[j])
    BY <2>1 DEF Obeying
  <2> QED BY <2>1, <2>2, <2>4, <2>5 DEF a
<1>8. ASSUME NEW b \in [G -> V], \A j \in P : Obeys(b, ops[j])
      PROVE  \E i \in 1 .. Len(all) : b = Assignment(all[i])
  <2>1. Agree(b, Assignment(<<>>), Keys(<<>>)) /\ Obeying(b, ops, P)
    BY <1>6, <1>8 DEF Agree, Obeying
  <2>2. PICK i \in 1 .. Len(all) : Agree(b, Assignment(all[i]), Keys(all[i]))
    BY <1>5, <2>1
  <2> DEFINE a == Assignment(all[i])
  <2>3. a = [key \in G |-> a[key]] /\ \A key \in G : b[key] = a[key]
    BY <1>7, <2>2 DEF Agree
  <2>4. b = [key \in G |-> b[key]]
    OBVIOUS
  <2> HIDE DEF a
  <2>5. b = a
    BY <2>3, <2>4
  <2> QED BY <2>5 DEF a
<1>9. {Assignment(all[i]) : i \in DOMAIN all} = {a \in [G -> V] : \A i \in P : Obeys(a, ops[i])}
  <2>1. ASSUME NEW x \in {Assignment(all[i]) : i \in DOMAIN all}
        PROVE  x \in {a \in [G -> V] : \A i \in P : Obeys(a, ops[i])}
    <3>1. PICK i \in 1 .. Len(all) : x = Assignment(all[i])
      BY <1>4
    <3> QED BY <1>7, <3>1
  <2>2. ASSUME NEW x \in {a \in [G -> V] : \A i \in P : Obeys(a, ops[i])}
        PROVE  x \in {Assignment(all[i]) : i \in DOMAIN all}
    <3>1. x \in [G -> V] /\ \A j \in P : Obeys(x, ops[j])
      OBVIOUS
    <3>2. PICK i \in 1 .. Len(all) : x = Assignment(all[i])
      BY <1>8, <3>1
    <3> QED BY <1>4, <3>2
  <2> QED BY <2>1, <2>2
<1>10. \A i, j \in DOMAIN all : i # j => all[i] # all[j]
  BY <1>4, <1>5
<1> QED BY <1>1, <1>9, <1>10 DEF G, V, P

LEMMA RunsComplete ==
  ASSUME TestsWellFormed
  PROVE  SelInv => ExpansionIsComplete
<1> SUFFICES ASSUME SelInv, at > 0, ~Collides(LastOps) PROVE
      LET cases  == Expanded(LastOps)
          all    == AllRuns(cases)
      IN  /\ {Assignment(all[i]) : i \in DOMAIN all} =
               {a \in [GeneratedKeys(LastOps) -> GeneratedValues(LastOps)] :
                  \A i \in DOMAIN LastOps : Obeys(a, LastOps[i])}
          /\ \A i, j \in DOMAIN all : i # j => all[i] # all[j]
          /\ HasSubcases(LastOps) => \A i \in DOMAIN cases : cases[i].subcases # <<>>
  BY Zenon DEF ExpansionIsComplete
<1>1. Linked /\ at \in 0 .. Len(registry) /\ Len(registry) \in Nat /\ DOMAIN registry = 1 .. Len(registry)
  BY LinkedTests, SequenceFacts DEF SelInv, Enumerated
<1>2. at \in 1 .. Len(registry)
  BY <1>1
<1> DEFINE ops == LastOps
<1>3. Vectors(ops)
  BY <1>1, <1>2, LinkedTests DEF LastOps
<1>4. WellFormed(ops)
  BY <1>1, <1>2 DEF TestsWellFormed, Linked, LastOps
<1>5. ~Collides(ops)
  OBVIOUS
<1> HIDE DEF ops
<1>6. Complete(AllRuns(Expanded(ops)), <<>>, ops, 1 .. Len(ops))
  BY <1>3, <1>4, <1>5, TestComplete
<1> DEFINE all == AllRuns(Expanded(ops))
<1>7. Complete(all, <<>>, ops, 1 .. Len(ops))
  BY <1>6
<1> HIDE DEF all
<1>8. /\ {Assignment(all[i]) : i \in DOMAIN all} =
           {a \in [GeneratedKeys(ops) -> GeneratedValues(ops)] : \A i \in DOMAIN ops : Obeys(a, ops[i])}
      /\ \A i, j \in DOMAIN all : i # j => all[i] # all[j]
  BY <1>4, <1>7, RunsAreTheAssignments
<1>9. HasSubcases(ops) => \A i \in DOMAIN Expanded(ops) : Expanded(ops)[i].subcases # <<>>
  BY <1>3, <1>4, NoEmptyCase
<1> QED BY <1>8, <1>9, Zenon DEF ops, all

(* Whatever the operations of a test and however they are spread over cases *)
(* and subcases, expansion makes a run of every assignment that obeys them  *)
(* all and of no other, makes none twice, and leaves no case without runs   *)
(* (ParamsBuilder::expand), when the tests are written as WellFormed says.  *)
THEOREM ExpansionLosesNothing ==
  ASSUME TestsWellFormed
  PROVE  Spec => []ExpansionIsComplete
<1>1. Init => SelInv
  BY SelInit
<1>2. SelInv /\ [Next]_vars => SelInv'
  BY SelNext
<1>3. SelInv => ExpansionIsComplete
  BY RunsComplete
<1> QED BY <1>1, <1>2, <1>3, PTL DEF Spec
=============================================================================
