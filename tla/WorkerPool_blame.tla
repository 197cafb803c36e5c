--------------------------- MODULE WorkerPool_blame ---------------------------
(* Whom WorkerPool blames: without foreign output and without a line torn  *)
(* in its query, the crash verdicts of a shard are the cases a process     *)
(* died in, for every number of cases, shards and rows.                    *)
(*                                                                         *)
(* The lines of such a shard come in an unbroken row: the first is the one *)
(* the parent waits for, each is followed by its successor, the last is    *)
(* the one before the case the process is at.  So nothing is ever skipped, *)
(* and the pipe runs dry exactly at the case the process died in.          *)
EXTENDS WorkerPool_proofs

(* What BlameIsExact asks of the shard of a case. *)
Faultless(s) == noise = 0 /\ \A q \in died \cap Cases : ShardOf(q) = s => ResultCount[q] = 1

(* Halves alternate, from the one in the parent's buffer b to a line's end. *)
Alternates(b, T) ==
  /\ \A j \in 1 .. Len(T) : T[j].half \in {"lo", "hi"}
  /\ \A j \in 1 .. Len(T) - 1 : T[j].half # T[j + 1].half
  /\ T # <<>> => HiAt(T, Len(T))
  /\ b.half = IF HiAt(T, 1) THEN "lo" ELSE "none"

(* The lines of T, numbered by row, are all those from the first row the   *)
(* parent has not recorded to the last before case a, or of case a when    *)
(* its lines are in the buffer o.                                          *)
Consecutive(n, res, a, o, T, row) ==
  /\ T = <<>> => n = a /\ (n < NumCases => res[n] = <<>>)
  /\ \A j \in {1, 2} : HiAt(T, j) => T[j].case = n /\ row[j] = Len(res[n]) + 1
  /\ \A j \in 1 .. Len(T) : HiAt(T, j) /\ HiAt(T, j + 2) =>
       \/ T[j + 2].case = T[j].case /\ row[j + 2] = row[j] + 1
       \/ T[j + 2].case = T[j].case + Workers /\ row[j + 2] = 1 /\ row[j] = ResultCount[T[j].case]
  /\ T # <<>> => /\ row[Len(T)] = ResultCount[T[Len(T)].case]
                 /\ T[Len(T)].case = IF o = <<>> THEN a - Workers ELSE a

Complete(s, n, res, a, o, b, oc, T) ==
  /\ Alternates(b, T)
  /\ \E row \in [1 .. Len(T) -> Nat] : Numbered(s, n, oc, T, row) /\ Consecutive(n, res, a, o, T, row)

(* A case of one row is written whole or not at all. *)
Whole(s) ==
  /\ out[s] # <<>> => at[s] < NumCases /\ (ResultCount[at[s]] = 1 => Len(out[s]) = 2)
  /\ child[s] = "exited" => at[s] >= NumCases
  /\ child[s] = "aborted" => at[s] \in died

(* The blamed are those a process died in; one not blamed yet is where the *)
(* dead process is.                                                        *)
Exact(s) ==
  /\ worker[s] # "closed" => Complete(s, next[s], results, at[s], out[s], buffer[s], outcome, Stream(s))
  /\ \A p \in Cases : ShardOf(p) = s =>
       IF p < next[s] THEN results[p] = Crashed <=> p \in died
                      ELSE p \in died => child[s] = "aborted" /\ p = at[s]

Blamed(s) == Whole(s) /\ (Faultless(s) => Exact(s))

BlameInv == LinesInv /\ \A s \in Shards : Blamed(s)

-----------------------------------------------------------------------------
(* Reading the first token of a complete stream. *)

LEMMA AlternatesTail ==
  ASSUME NEW T \in Seq(Token), T # <<>>, NEW b, Alternates(b, T), NEW c,
         c.half = IF HiAt(T, 1) THEN "none" ELSE "lo"
  PROVE  Alternates(c, Tail(T)) /\ (~ HiAt(T, 1) => Len(T) >= 2)
<1> DEFINE U == Tail(T)
<1>1. /\ Len(T) \in Nat /\ Len(T) >= 1 /\ Len(U) = Len(T) - 1
      /\ \A j \in 1 .. Len(U) : j + 1 \in 1 .. Len(T) /\ U[j] = T[j + 1] /\ (HiAt(U, j) <=> HiAt(T, j + 1))
  BY TailIndex
<1> HIDE DEF U
<1>2. HiAt(T, Len(T)) /\ (~ HiAt(T, 1) => Len(T) >= 2)
  <2>1. HiAt(T, Len(T))
    BY DEF Alternates
  <2> QED
    BY <1>1, <2>1
<1>3. \A j \in 1 .. Len(U) : U[j].half \in {"lo", "hi"}
  BY <1>1 DEF Alternates
<1>4. \A j \in 1 .. Len(U) - 1 : U[j].half # U[j + 1].half
  <2> SUFFICES ASSUME NEW j \in 1 .. Len(U) - 1 PROVE U[j].half # U[j + 1].half
    OBVIOUS
  <2>1. /\ j \in 1 .. Len(U) /\ j + 1 \in 1 .. Len(U) /\ j + 1 \in 1 .. Len(T) - 1
        /\ U[j] = T[j + 1] /\ U[j + 1] = T[(j + 1) + 1]
    BY <1>1
  <2>2. T[j + 1].half # T[(j + 1) + 1].half
    BY <2>1 DEF Alternates
  <2> QED
    BY <2>1, <2>2
<1>5. U # <<>> => HiAt(U, Len(U))
  <2> SUFFICES ASSUME U # <<>> PROVE HiAt(U, Len(U))
    OBVIOUS
  <2>1. Len(U) # 0
    <3>1. U \in Seq(Token)
      BY TailIndex DEF U
    <3> QED
      BY <3>1
  <2>2. Len(U) \in 1 .. Len(U) /\ Len(U) + 1 = Len(T)
    BY <1>1, <2>1
  <2> QED
    BY <1>1, <1>2, <2>2
<1>6. c.half = IF HiAt(U, 1) THEN "lo" ELSE "none"
  <2>1. CASE HiAt(T, 1)
    <3>1. ~ HiAt(U, 1)
      <4> SUFFICES ASSUME HiAt(U, 1) PROVE FALSE
        OBVIOUS
      <4>1. 1 \in 1 .. Len(U) /\ 1 \in 1 .. Len(T) - 1 /\ HiAt(T, 1 + 1)
        BY <1>1 DEF HiAt
      <4> QED
        BY <2>1, <4>1 DEF Alternates, HiAt
    <3> QED
      BY <2>1, <3>1
  <2>2. CASE ~ HiAt(T, 1)
    <3>1. 1 \in 1 .. Len(T) - 1 /\ 1 \in 1 .. Len(U) /\ 1 + 1 \in 1 .. Len(T)
      BY <1>1, <1>2, <2>2
    <3>2. T[1].half = "lo" /\ T[1 + 1].half = "hi"
      BY <1>1, <2>2, <3>1 DEF Alternates, HiAt
    <3>3. HiAt(U, 1)
      BY <1>1, <3>1, <3>2 DEF HiAt
    <3> QED
      BY <2>2, <3>3
  <2> QED
    BY <2>1, <2>2
<1>7. Alternates(c, U)
  BY <1>3, <1>4, <1>5, <1>6 DEF Alternates
<1> QED
  BY <1>2, <1>7 DEF U

(* The parts of Consecutive that do not look at the parent's position. *)
LEMMA ConsecutiveTail ==
  ASSUME NEW T \in Seq(Token), T # <<>>, NEW n, NEW res, NEW a, NEW o,
         NEW row \in [1 .. Len(T) -> Nat], Consecutive(n, res, a, o, T, row),
         NEW m, NEW new,
         Tail(T) = <<>> => m = a /\ (m < NumCases => new[m] = <<>>),
         \A j \in {1, 2} : HiAt(T, j + 1) => T[j + 1].case = m /\ row[j + 1] = Len(new[m]) + 1
  PROVE  Consecutive(m, new, a, o, Tail(T), Rest(T, row))
<1> DEFINE U == Tail(T)
           rest == Rest(T, row)
<1>1. /\ Len(T) \in Nat /\ Len(T) >= 1 /\ Len(U) = Len(T) - 1 /\ U \in Seq(Token)
      /\ \A j \in 1 .. Len(U) : j + 1 \in 1 .. Len(T) /\ U[j] = T[j + 1] /\ (HiAt(U, j) <=> HiAt(T, j + 1))
  BY TailIndex
<1>2. \A j \in 1 .. Len(U) : rest[j] = row[j + 1]
  BY DEF Rest
<1>3. U = <<>> => m = a /\ (m < NumCases => new[m] = <<>>)
  OBVIOUS
<1> HIDE DEF U, rest
<1>4. \A j \in {1, 2} : HiAt(U, j) => U[j].case = m /\ rest[j] = Len(new[m]) + 1
  <2> SUFFICES ASSUME NEW j \in {1, 2}, HiAt(U, j)
               PROVE  U[j].case = m /\ rest[j] = Len(new[m]) + 1
    OBVIOUS
  <2>1. j \in 1 .. Len(U) /\ HiAt(T, j + 1) /\ U[j] = T[j + 1] /\ rest[j] = row[j + 1]
    BY <1>1, <1>2 DEF HiAt
  <2> QED
    BY <2>1
<1>5. ASSUME NEW j \in 1 .. Len(U), HiAt(U, j), HiAt(U, j + 2)
      PROVE  \/ U[j + 2].case = U[j].case /\ rest[j + 2] = rest[j] + 1
             \/ U[j + 2].case = U[j].case + Workers /\ rest[j + 2] = 1 /\ rest[j] = ResultCount[U[j].case]
  <2> DEFINE i == j + 1
  <2>1. i \in 1 .. Len(T) /\ HiAt(T, i) /\ U[j] = T[i] /\ rest[j] = row[i]
    BY <1>1, <1>2, <1>5
  <2>2. HiAt(T, i + 2) /\ U[j + 2] = T[i + 2] /\ rest[j + 2] = row[i + 2]
    <3>1. j + 2 \in 1 .. Len(U)
      BY <1>5 DEF HiAt
    <3>2. (j + 2) + 1 = i + 2
      BY <1>1
    <3> QED
      BY <1>1, <1>2, <1>5, <3>1, <3>2
  <2> HIDE DEF i
  <2>3. \/ T[i + 2].case = T[i].case /\ row[i + 2] = row[i] + 1
        \/ T[i + 2].case = T[i].case + Workers /\ row[i + 2] = 1 /\ row[i] = ResultCount[T[i].case]
    BY <2>1, <2>2 DEF Consecutive
  <2> QED
    BY <2>1, <2>2, <2>3
<1>6. U # <<>> => /\ rest[Len(U)] = ResultCount[U[Len(U)].case]
                  /\ U[Len(U)].case = IF o = <<>> THEN a - Workers ELSE a
  <2> SUFFICES ASSUME U # <<>>
               PROVE  rest[Len(U)] = ResultCount[U[Len(U)].case] /\ U[Len(U)].case = IF o = <<>> THEN a - Workers ELSE a
    OBVIOUS
  <2>1. Len(U) \in 1 .. Len(U) /\ Len(U) + 1 = Len(T)
    BY <1>1
  <2>2. U[Len(U)] = T[Len(T)] /\ rest[Len(U)] = row[Len(T)]
    BY <1>1, <1>2, <2>1
  <2> QED
    BY <2>2 DEF Consecutive
<1>7. Consecutive(m, new, a, o, U, rest)
  BY <1>3, <1>4, <1>5, <1>6 DEF Consecutive
<1> QED
  BY <1>7 DEF U, rest
LEMMA CompleteStays ==
  ASSUME NEW s \in Shards, NEW n \in Nat, NEW T, NEW a, NEW o, NEW b, NEW res, NEW new, NEW oc, NEW oc2,
         Complete(s, n, res, a, o, b, oc, T), ShardOf(n) = s,
         \A p \in Cases : ShardOf(p) = s => new[p] = res[p] /\ oc2[p] = oc[p]
  PROVE  Complete(s, n, new, a, o, b, oc2, T)
<1>1. PICK row \in [1 .. Len(T) -> Nat] : Numbered(s, n, oc, T, row) /\ Consecutive(n, res, a, o, T, row)
  BY DEF Complete
<1>2. Numbered(s, n, oc2, T, row)
  BY <1>1 DEF Numbered
<1>3. T = <<>> => n = a /\ (n < NumCases => new[n] = <<>>)
  <2>1. n < NumCases => new[n] = res[n]
    BY PositionIsCase
  <2> QED
    BY <1>1, <2>1 DEF Consecutive
<1>4. \A j \in {1, 2} : HiAt(T, j) => T[j].case = n /\ row[j] = Len(new[n]) + 1
  <2> SUFFICES ASSUME NEW j \in {1, 2}, HiAt(T, j)
               PROVE  T[j].case = n /\ row[j] = Len(new[n]) + 1
    OBVIOUS
  <2>1. T[j].case = n /\ row[j] = Len(res[n]) + 1
    BY <1>1 DEF Consecutive
  <2>2. n \in Cases
    BY <1>1, <2>1 DEF Numbered, HiAt
  <2> QED
    BY <2>1, <2>2
<1>5. Consecutive(n, new, a, o, T, row)
  BY <1>1, <1>3, <1>4 DEF Consecutive
<1> QED
  BY <1>1, <1>2, <1>5 DEF Complete

(* The parent puts the beginning of a line into its buffer. *)
LEMMA CompleteSkip ==
  ASSUME NEW T \in Seq(Token), T # <<>>, ~ HiAt(T, 1), NEW s, NEW n, NEW res, NEW a, NEW o, NEW b, NEW oc,
         Complete(s, n, res, a, o, b, oc, T), NEW c, c.half = "lo"
  PROVE  Complete(s, n, res, a, o, c, oc, Tail(T))
<1>1. PICK row \in [1 .. Len(T) -> Nat] : Numbered(s, n, oc, T, row) /\ Consecutive(n, res, a, o, T, row)
  BY DEF Complete
<1>2. Alternates(b, T) /\ c.half = IF HiAt(T, 1) THEN "none" ELSE "lo"
  BY DEF Complete
<1>3. Alternates(c, Tail(T)) /\ Len(T) >= 2
  BY <1>2, AlternatesTail
<1>4. Len(T) \in Nat /\ Tail(T) # <<>>
  BY <1>3, TailIndex
<1>5. \A j \in 2 .. Len(T) : HiAt(T, j) => n <= T[j].case
  BY <1>1 DEF Numbered, HiAt
<1>6. Rest(T, row) \in [1 .. Len(Tail(T)) -> Nat] /\ Numbered(s, n, oc, Tail(T), Rest(T, row))
  BY <1>1, <1>5, DropFirst
<1>7. ~ HiAt(T, 3)
  <2> SUFFICES ASSUME HiAt(T, 3) PROVE FALSE
    OBVIOUS
  <2>1. 1 \in 1 .. Len(T) - 1 /\ 2 \in 1 .. Len(T) - 1 /\ 1 \in 1 .. Len(T) /\ 2 \in 1 .. Len(T)
    BY <1>3, <1>4 DEF HiAt
  <2>2. T[1].half # T[1 + 1].half /\ T[2].half # T[2 + 1].half /\ T[1].half = "lo" /\ T[2].half \in {"lo", "hi"}
    BY <1>2, <2>1 DEF Alternates, HiAt
  <2> QED
    BY <2>2 DEF HiAt
<1>8. \A j \in {1, 2} : HiAt(T, j + 1) => T[j + 1].case = n /\ row[j + 1] = Len(res[n]) + 1
  <2> SUFFICES ASSUME NEW j \in {1, 2}, HiAt(T, j + 1)
               PROVE  T[j + 1].case = n /\ row[j + 1] = Len(res[n]) + 1
    OBVIOUS
  <2>1. j + 1 = 2
    BY <1>7
  <2> QED
    BY <1>1, <2>1 DEF Consecutive
<1>9. Consecutive(n, res, a, o, Tail(T), Rest(T, row))
  BY <1>1, <1>4, <1>8, ConsecutiveTail
<1> QED
  BY <1>3, <1>6, <1>9 DEF Complete

(* The first line of a complete stream is the next row of the case the     *)
(* parent waits for, and the case before the process'.                     *)
LEMMA FirstLine ==
  ASSUME NEW T \in Seq(Token), HiAt(T, 1), NEW s, NEW n \in Nat, NEW res, NEW a \in Nat, NEW o, NEW b, NEW oc,
         Complete(s, n, res, a, o, b, oc, T)
  PROVE  /\ T[1].case = n /\ n \in Cases /\ b.half = "lo"
         /\ o = <<>> => n < a
<1>1. PICK row \in [1 .. Len(T) -> Nat] : Numbered(s, n, oc, T, row) /\ Consecutive(n, res, a, o, T, row)
  BY DEF Complete
<1>2. Alternates(b, T) /\ T[1].case = n /\ 1 \in 1 .. Len(T) /\ Len(T) \in Nat /\ T # <<>>
  BY <1>1 DEF Complete, Consecutive, HiAt
<1>3. n \in Cases /\ b.half = "lo"
  BY <1>1, <1>2 DEF Numbered, Alternates
<1>4. o = <<>> => n < a
  <2> SUFFICES ASSUME o = <<>> PROVE n < a
    OBVIOUS
  <2>1. HiAt(T, Len(T)) /\ T[Len(T)].case = a - Workers /\ Len(T) \in 1 .. Len(T)
    BY <1>1, <1>2 DEF Alternates, Consecutive
  <2>2. 1 < Len(T) => n < a - Workers \/ n = a - Workers
    BY <1>1, <1>2, <2>1 DEF Numbered
  <2>3. Len(T) = 1 => n = a - Workers
    BY <1>2, <2>1
  <2>4. 1 < Len(T) \/ Len(T) = 1
    <3> DEFINE l == Len(T)
    <3>1. l \in Nat /\ 1 \in 1 .. l
      BY <1>2
    <3> HIDE DEF l
    <3>2. 1 < l \/ l = 1
      BY <3>1
    <3> QED
      BY <3>2 DEF l
  <2>5. n = a - Workers \/ n < a - Workers
    BY <2>2, <2>3, <2>4
  <2> QED
    BY <2>5, PoolAssumption
<1> QED
  BY <1>2, <1>3, <1>4

(* The parent records the line. *)
LEMMA CompleteRead ==
  ASSUME NEW s \in Shards, NEW n, NEW res, Standing(s, n, res),
         NEW T \in Seq(Token), HiAt(T, 1), NEW a \in Nat, NEW o, NEW b, NEW c, c.half = "none",
         NEW oc, Complete(s, n, res, a, o, b, oc, T),
         NEW rows, rows = Append(res[n], T[1].status),
         NEW more, more = [res EXCEPT ![n] = rows],
         o # <<>> => Len(T) >= 2
  PROVE  Complete(s, Advanced(n, more), more, a, o, c, oc, Tail(T))
<1> DEFINE k == Len(res[n])
           R == ResultCount[n]
           U == Tail(T)
<1>1. /\ n \in Nat /\ ShardOf(n) = s /\ res \in Table /\ ShardShape(s, n, res)
      /\ Workers \in Nat \ {0} /\ NumCases \in Nat
  BY PoolAssumption DEF Standing
<1>2. /\ T # <<>> /\ Len(T) \in Nat /\ 1 \in 1 .. Len(T) /\ T[1] \in Token /\ T[1] # Junk
      /\ U \in Seq(Token) /\ Len(U) = Len(T) - 1
  BY TailIndex DEF HiAt, Junk
<1>3. T[1].status \in Outcomes
  BY <1>2 DEF Token
<1>4. T[1].case = n /\ n \in Cases
  BY <1>1, FirstLine
<1>5. res[n] \in Seq(Outcomes) /\ k \in Nat /\ k < R /\ R \in Nat \ {0} /\ n < NumCases
  BY <1>1, <1>4, PoolAssumption DEF ShardShape, PartRows, Cases
<1>6. rows \in Seq(Outcomes) /\ Len(rows) = k + 1
  BY <1>3, <1>5, AppendProperties
<1>7. more[n] = rows /\ \A p \in Cases : p # n => more[p] = res[p]
  BY <1>1, <1>4 DEF Table
<1>8. Advanced(n, more) = IF Len(rows) >= R THEN n + Workers ELSE n
  BY <1>5, <1>7 DEF Advanced
<1>9. PICK row \in [1 .. Len(T) -> Nat] : Numbered(s, n, oc, T, row) /\ Consecutive(n, res, a, o, T, row)
  BY DEF Complete
<1>10. Alternates(c, U) /\ ~ HiAt(T, 2)
  <2>1. Alternates(b, T)
    BY DEF Complete
  <2>2. c.half = IF HiAt(T, 1) THEN "none" ELSE "lo"
    OBVIOUS
  <2>3. Alternates(c, U)
    BY <1>2, <2>1, <2>2, AlternatesTail
  <2>4. ~ HiAt(T, 2)
    <3> SUFFICES ASSUME HiAt(T, 2) PROVE FALSE
      OBVIOUS
    <3>1. 1 \in 1 .. Len(T) - 1 /\ 2 = 1 + 1
      BY <1>2 DEF HiAt
    <3> QED
      BY <2>1, <3>1 DEF Alternates, HiAt
  <2> QED
    BY <2>3, <2>4
<1>11. row[1] = k + 1
  BY <1>9 DEF Consecutive
<1>12. HiAt(T, 3) => \/ T[3].case = n /\ row[3] = row[1] + 1
                     \/ T[3].case = n + Workers /\ row[3] = 1 /\ row[1] = R
  <2> SUFFICES ASSUME HiAt(T, 1 + 2)
               PROVE  \/ T[1 + 2].case = n /\ row[1 + 2] = row[1] + 1
                      \/ T[1 + 2].case = n + Workers /\ row[1 + 2] = 1 /\ row[1] = R
    OBVIOUS
  <2> QED
    BY <1>2, <1>4, <1>9 DEF Consecutive
<1>13. HiAt(T, 3) => row[3] \in 1 .. ResultCount[T[3].case]
  BY <1>9 DEF Numbered, HiAt
<1>14. U = <<>> => o = <<>> /\ n = a - Workers /\ row[1] = R
  <2> SUFFICES ASSUME U = <<>> PROVE o = <<>> /\ n = a - Workers /\ row[1] = R
    OBVIOUS
  <2>1. Len(T) = 1
    BY <1>2
  <2> QED
    BY <1>2, <1>4, <1>9, <2>1 DEF Consecutive
<1> HIDE DEF U, k, R
<1>15. CASE Len(rows) >= R
  <2> DEFINE m == n + Workers
  <2>1. row[1] = R
    BY <1>5, <1>6, <1>11, <1>15
  <2>2. m \in Nat /\ ShardOf(m) = s /\ n < m
    BY <1>1, NextInShard
  <2>3. HiAt(T, 3) => T[3].case = m /\ row[3] = 1
    <3> SUFFICES ASSUME HiAt(T, 3), T[3].case = n, row[3] = row[1] + 1 PROVE FALSE
      BY <1>12
    <3> QED
      BY <1>5, <1>13, <2>1 DEF R
  <2>4. m < NumCases => more[m] = <<>>
    <3> SUFFICES ASSUME m < NumCases PROVE more[m] = <<>>
      OBVIOUS
    <3>1. m \in Cases /\ m # n /\ ~ (m < n)
      BY <1>1, <2>2, PositionIsCase
    <3> QED
      BY <1>1, <1>7, <2>2, <3>1 DEF ShardShape
  <2>5. U = <<>> => m = a
    BY <1>1, <1>14
  <2>6. \A j \in {1, 2} : HiAt(T, j + 1) => T[j + 1].case = m /\ row[j + 1] = Len(more[m]) + 1
    <3> SUFFICES ASSUME NEW j \in {1, 2}, HiAt(T, j + 1)
                 PROVE  T[j + 1].case = m /\ row[j + 1] = Len(more[m]) + 1
      OBVIOUS
    <3>1. j + 1 = 3
      BY <1>10
    <3>2. T[3].case = m /\ row[3] = 1 /\ T[3].case \in Cases
      BY <1>9, <2>3, <3>1 DEF Numbered, HiAt
    <3>3. more[m] = <<>>
      BY <1>1, <2>4, <3>2, PoolAssumption DEF Cases
    <3> QED
      BY <3>1, <3>2, <3>3
  <2>7. \A j \in 2 .. Len(T) : HiAt(T, j) => m <= T[j].case
    <3> SUFFICES ASSUME NEW j \in 2 .. Len(T), HiAt(T, j)
                 PROVE  m <= T[j].case
      OBVIOUS
    <3>1. j \in 1 .. Len(T) /\ 1 < j
      BY <1>2
    <3>2. T[j].case \in Cases /\ ShardOf(T[j].case) = s /\ row[j] \in 1 .. ResultCount[T[j].case]
      BY <1>9, <3>1 DEF Numbered
    <3>3. T[j].case \in Nat
      BY <3>2, PoolAssumption DEF Cases
    <3>4. n < T[j].case \/ (n = T[j].case /\ row[1] < row[j])
      BY <1>2, <1>4, <1>9, <3>1 DEF Numbered
    <3>5. n < T[j].case
      <4> SUFFICES ASSUME n = T[j].case, row[1] < row[j] PROVE FALSE
        BY <3>4
      <4> QED
        BY <1>5, <2>1, <3>2 DEF R
    <3> QED
      BY <1>1, <3>2, <3>3, <3>5, ModGap DEF ShardOf
  <2> HIDE DEF m
  <2>8. Rest(T, row) \in [1 .. Len(U) -> Nat] /\ Numbered(s, m, oc, U, Rest(T, row))
    BY <1>2, <1>9, <2>7, DropFirst DEF U
  <2>9. Consecutive(m, more, a, o, U, Rest(T, row))
    BY <1>2, <1>9, <2>4, <2>5, <2>6, ConsecutiveTail DEF U
  <2>10. Complete(s, m, more, a, o, c, oc, U)
    BY <1>10, <2>8, <2>9 DEF Complete
  <2>11. Advanced(n, more) = m
    BY <1>8, <1>15 DEF m
  <2> QED
    BY <2>10, <2>11 DEF U
<1>16. CASE ~ (Len(rows) >= R)
  <2>1. row[1] # R
    BY <1>5, <1>6, <1>11, <1>16
  <2>2. U # <<>>
    BY <1>14, <2>1
  <2>3. \A j \in {1, 2} : HiAt(T, j + 1) => T[j + 1].case = n /\ row[j + 1] = Len(more[n]) + 1
    <3> SUFFICES ASSUME NEW j \in {1, 2}, HiAt(T, j + 1)
                 PROVE  T[j + 1].case = n /\ row[j + 1] = Len(more[n]) + 1
      OBVIOUS
    <3>1. j + 1 = 3
      BY <1>10
    <3> QED
      BY <1>6, <1>7, <1>11, <1>12, <2>1, <3>1
  <2>4. \A j \in 2 .. Len(T) : HiAt(T, j) => n <= T[j].case
    BY <1>9 DEF Numbered, HiAt
  <2>5. Rest(T, row) \in [1 .. Len(U) -> Nat] /\ Numbered(s, n, oc, U, Rest(T, row))
    BY <1>2, <1>9, <2>4, DropFirst DEF U
  <2>6. Consecutive(n, more, a, o, U, Rest(T, row))
    BY <1>2, <1>9, <2>2, <2>3, ConsecutiveTail DEF U
  <2>7. Complete(s, n, more, a, o, c, oc, U)
    BY <1>10, <2>5, <2>6 DEF Complete
  <2>8. Advanced(n, more) = n
    BY <1>8, <1>16
  <2> QED
    BY <2>7, <2>8 DEF U
<1> QED
  BY <1>15, <1>16

-----------------------------------------------------------------------------
(* Writing behind the last token, and losing what was not written. *)

LEMMA RowLinesHalves ==
  ASSUME NEW p \in Cases, NEW rows \in Seq(Outcomes), Len(rows) = ResultCount[p]
  PROVE  \A i \in 1 .. 2 * ResultCount[p] :
           /\ RowLines(p, rows)[i].half \in {"lo", "hi"}
           /\ RowLines(p, rows)[i].half = "hi" <=> i % 2 # 1
<1> DEFINE R == ResultCount[p]
           L == RowLines(p, rows)
           half(i) == IF i % 2 = 1 THEN Lo(p, rows[(i + 1) \div 2]) ELSE Hi(p, rows[(i + 1) \div 2])
<1>1. L = [i \in 1 .. 2 * R |-> half(i)]
  BY DEF RowLines
<1> SUFFICES ASSUME NEW i \in 1 .. 2 * R
             PROVE  L[i].half \in {"lo", "hi"} /\ (L[i].half = "hi" <=> i % 2 # 1)
  OBVIOUS
<1>2. L[i] = half(i)
  BY <1>1
<1> HIDE DEF L
<1>3. CASE i % 2 = 1
  <2>1. L[i] = Lo(p, rows[(i + 1) \div 2])
    BY <1>2, <1>3
  <2> QED
    BY <1>3, <2>1 DEF Lo
<1>4. CASE i % 2 # 1
  <2>1. L[i] = Hi(p, rows[(i + 1) \div 2])
    BY <1>2, <1>4
  <2> QED
    BY <1>4, <2>1 DEF Hi
<1> QED
  BY <1>3, <1>4

LEMMA Parity ==
  ASSUME NEW i \in Nat, NEW R \in Nat
  PROVE  /\ (i + 1) % 2 # 1 <=> i % 2 = 1
         /\ (2 * R) % 2 # 1
         /\ 1 % 2 = 1
BY Z3

(* The lines of a run behind those of the runs before. *)
LEMMA AlternatesRun ==
  ASSUME NEW p \in Cases, NEW rows \in Seq(Outcomes), Len(rows) = ResultCount[p],
         NEW P \in Seq(Token), NEW b, Alternates(b, P)
  PROVE  Alternates(b, P \o RowLines(p, rows))
<1> DEFINE R == ResultCount[p]
           L == RowLines(p, rows)
           T == P \o L
<1>1. R \in Nat \ {0}
  BY PoolAssumption
<1>2. /\ L \in Seq(Token) /\ Len(L) = 2 * R
      /\ \A i \in 1 .. 2 * R : L[i].half \in {"lo", "hi"} /\ (L[i].half = "hi" <=> i % 2 # 1)
  BY RowLinesEnds, RowLinesHalves
<1> HIDE DEF L
<1>3. /\ Len(P) \in Nat /\ Len(L) \in Nat /\ Len(T) = Len(P) + Len(L)
      /\ \A j \in 1 .. Len(P) : j \in 1 .. Len(T) /\ T[j] = P[j] /\ (HiAt(T, j) <=> HiAt(P, j))
      /\ \A j \in Len(P) + 1 .. Len(T) : j - Len(P) \in 1 .. Len(L) /\ T[j] = L[j - Len(P)]
                                         /\ (HiAt(T, j) <=> HiAt(L, j - Len(P)))
  BY <1>2, ConcatIndex
<1> HIDE DEF T, R
<1>4. \A j \in 1 .. Len(T) : j \in 1 .. Len(P) \/ j \in Len(P) + 1 .. Len(T)
  BY <1>3
<1>5. \A j \in 1 .. Len(T) : T[j].half \in {"lo", "hi"}
  <2> SUFFICES ASSUME NEW j \in 1 .. Len(T) PROVE T[j].half \in {"lo", "hi"}
    OBVIOUS
  <2>1. CASE j \in 1 .. Len(P)
    BY <1>3, <2>1 DEF Alternates
  <2>2. CASE j \in Len(P) + 1 .. Len(T)
    <3>1. j - Len(P) \in 1 .. 2 * R /\ T[j] = L[j - Len(P)]
      BY <1>2, <1>3, <2>2
    <3> QED
      BY <1>2, <3>1
  <2> QED
    BY <1>4, <2>1, <2>2
<1>6. L[1].half = "lo" /\ L[1].half # "hi" /\ 1 \in 1 .. Len(L) /\ ~ HiAt(L, 1)
  <2>1. 1 \in 1 .. 2 * R
    BY <1>1
  <2>2. 1 % 2 = 1
    BY Parity
  <2>3. L[1].half \in {"lo", "hi"} /\ (L[1].half = "hi" <=> 1 % 2 # 1)
    BY <1>2, <2>1
  <2>4. L[1].half = "lo" /\ L[1].half # "hi"
    BY <2>2, <2>3
  <2> QED
    BY <1>2, <2>1, <2>4 DEF HiAt
<1>7. P # <<>> => HiAt(P, Len(P)) /\ Len(P) \in 1 .. Len(P)
  BY DEF Alternates, HiAt
<1>8. ASSUME NEW j \in 1 .. Len(T) - 1
      PROVE  T[j].half # T[j + 1].half
  <2>1. j \in 1 .. Len(T) /\ j + 1 \in 1 .. Len(T) /\ j \in Nat
    BY <1>3
  <2>2. CASE j + 1 \in 1 .. Len(P)
    <3>1. j \in 1 .. Len(P) - 1 /\ j \in 1 .. Len(P)
      BY <1>3, <2>2
    <3>2. P[j].half # P[j + 1].half
      BY <3>1 DEF Alternates
    <3> QED
      BY <1>3, <2>2, <3>1, <3>2
  <2>3. CASE j = Len(P)
    <3>1. P # <<>> /\ j \in 1 .. Len(P) /\ j + 1 \in Len(P) + 1 .. Len(T) /\ (j + 1) - Len(P) = 1
      BY <1>3, <2>1, <2>3
    <3>2. HiAt(P, j) /\ T[j] = P[j] /\ T[j + 1] = L[1]
      BY <1>3, <1>7, <2>3, <3>1
    <3> QED
      BY <1>6, <3>2 DEF HiAt
  <2>4. CASE j \in Len(P) + 1 .. Len(T)
    <3> DEFINE i == j - Len(P)
    <3>1. i \in 1 .. 2 * R /\ T[j] = L[i]
      BY <1>2, <1>3, <2>4
    <3>2. j + 1 \in Len(P) + 1 .. Len(T) /\ (j + 1) - Len(P) = i + 1
      BY <1>3, <2>1, <2>4
    <3>3. i + 1 \in 1 .. 2 * R /\ T[j + 1] = L[i + 1]
      BY <1>2, <1>3, <3>2
    <3> HIDE DEF i
    <3>4. i \in Nat
      BY <3>1
    <3>5. (i + 1) % 2 # 1 <=> i % 2 = 1
      BY <3>4, Parity, <1>1
    <3> QED
      BY <1>2, <3>1, <3>3, <3>5
  <2> QED
    BY <1>3, <1>4, <2>1, <2>2, <2>3, <2>4
<1>9. T # <<>> => HiAt(T, Len(T))
  <2>1. Len(T) \in Len(P) + 1 .. Len(T) /\ Len(T) - Len(P) = 2 * R
    BY <1>1, <1>2, <1>3
  <2>2. 2 * R \in 1 .. 2 * R /\ (2 * R) % 2 # 1
    BY <1>1, Parity
  <2>3. HiAt(L, 2 * R)
    BY <1>2, <2>2 DEF HiAt
  <2> QED
    BY <1>3, <2>1, <2>3
<1>10. HiAt(T, 1) <=> HiAt(P, 1)
  <2>1. CASE 1 \in 1 .. Len(P)
    BY <1>3, <2>1
  <2>2. CASE 1 \notin 1 .. Len(P)
    <3>1. 1 \in Len(P) + 1 .. Len(T) /\ 1 - Len(P) = 1
      BY <1>3, <1>6, <2>2
    <3> QED
      BY <1>3, <1>6, <2>2, <3>1 DEF HiAt
  <2> QED
    BY <2>1, <2>2
<1>11. Alternates(b, T)
  BY <1>5, <1>8, <1>9, <1>10 DEF Alternates
<1> QED
  BY <1>11 DEF T, L

LEMMA CompleteRun ==
  ASSUME NEW s \in Shards, NEW n \in Nat, NEW p \in Cases, ShardOf(p) = s, n <= p,
         NEW P \in Seq(Token), \A j \in 1 .. Len(P) : HiAt(P, j) => P[j].case < p,
         NEW res, NEW b, NEW oc \in [Cases -> Seq(Outcomes)], Complete(s, n, res, p, <<>>, b, oc, P),
         NEW rows \in Seq(Outcomes), Len(rows) = ResultCount[p]
  PROVE  Complete(s, n, res, p, RowLines(p, rows), b, [oc EXCEPT ![p] = rows], P \o RowLines(p, rows))
<1>1. PICK row \in [1 .. Len(P) -> Nat] : Numbered(s, n, oc, P, row) /\ Consecutive(n, res, p, <<>>, P, row)
  BY DEF Complete
<1> DEFINE R == ResultCount[p]
           L == RowLines(p, rows)
           T == P \o L
           oc2 == [oc EXCEPT ![p] = rows]
           wide == Wide(P, L, row)
<1>2. R \in Nat \ {0} /\ p \in Nat /\ p < NumCases
  BY PoolAssumption DEF Cases
<1>3. /\ wide \in [1 .. Len(T) -> Nat] /\ Numbered(s, n, oc2, T, wide)
      /\ \A j \in 1 .. Len(P) : wide[j] = row[j]
      /\ \A j \in Len(P) + 1 .. Len(T) : HiAt(T, j) => T[j].case = p /\ wide[j] \in Nat /\ j = Len(P) + 2 * wide[j]
  <2>1. RunNumbered(s, n, p, P, oc, rows, row)
    BY <1>1, NumberRun
  <2> QED
    BY <2>1 DEF RunNumbered
<1>4. Alternates(b, T)
  BY AlternatesRun DEF Complete
<1>5. L \in Seq(Token) /\ Len(L) = 2 * R
  BY RowLinesEnds
<1> HIDE DEF L
<1>6. /\ Len(P) \in Nat /\ Len(L) \in Nat /\ Len(T) = Len(P) + Len(L)
      /\ \A j \in 1 .. Len(P) : j \in 1 .. Len(T) /\ T[j] = P[j] /\ (HiAt(T, j) <=> HiAt(P, j))
  BY <1>5, ConcatIndex
<1> HIDE DEF R, T, oc2, wide
<1>7. Len(T) \in Len(P) + 1 .. Len(T) /\ Len(T) \in Nat /\ Len(L) # 0 /\ T # <<>> /\ L # <<>>
  BY <1>2, <1>5, <1>6
<1>8. \A j \in 1 .. Len(T) : j \in 1 .. Len(P) \/ j \in Len(P) + 1 .. Len(T)
  BY <1>6
(* The first line, when nothing stands before it. *)
<1>9. \A j \in {1, 2} : HiAt(T, j) => T[j].case = n /\ wide[j] = Len(res[n]) + 1
  <2> SUFFICES ASSUME NEW j \in {1, 2}, HiAt(T, j)
               PROVE  T[j].case = n /\ wide[j] = Len(res[n]) + 1
    OBVIOUS
  <2>0. j \in 1 .. Len(T)
    BY DEF HiAt
  <2>1. CASE j \in 1 .. Len(P)
    <3>1. HiAt(P, j) /\ T[j] = P[j] /\ wide[j] = row[j]
      BY <1>3, <1>6, <2>1
    <3> QED
      BY <1>1, <3>1 DEF Consecutive
  <2>2. CASE j \in Len(P) + 1 .. Len(T)
    <3>1. T[j].case = p /\ wide[j] \in Nat /\ j = Len(P) + 2 * wide[j] /\ j > Len(P)
      BY <1>3, <1>6, <2>2
    <3>2. wide[j] = 1 /\ Len(P) = 0
      BY <1>6, <3>1
    <3>3. P = <<>>
      BY <3>2
    <3>4. n = p /\ res[n] = <<>>
      BY <1>1, <1>2, <3>3 DEF Consecutive
    <3> QED
      BY <3>1, <3>2, <3>4
  <2> QED
    BY <1>8, <2>0, <2>1, <2>2
<1>10. ASSUME NEW j \in 1 .. Len(T), HiAt(T, j), HiAt(T, j + 2)
       PROVE  \/ T[j + 2].case = T[j].case /\ wide[j + 2] = wide[j] + 1
              \/ T[j + 2].case = T[j].case + Workers /\ wide[j + 2] = 1 /\ wide[j] = ResultCount[T[j].case]
  <2> DEFINE i == j + 2
  <2>0. i \in 1 .. Len(T) /\ HiAt(T, i) /\ j \in Nat /\ i = j + 2
    BY <1>10 DEF HiAt
  <2> HIDE DEF i
  <2>1. CASE j \in 1 .. Len(P) /\ i \in 1 .. Len(P)
    <3>1. HiAt(P, j) /\ HiAt(P, i) /\ T[j] = P[j] /\ T[i] = P[i] /\ wide[j] = row[j] /\ wide[i] = row[i]
      BY <1>3, <1>6, <1>10, <2>0, <2>1
    <3>2. \/ P[i].case = P[j].case /\ row[i] = row[j] + 1
          \/ P[i].case = P[j].case + Workers /\ row[i] = 1 /\ row[j] = ResultCount[P[j].case]
      BY <1>1, <2>0, <2>1, <3>1 DEF Consecutive
    <3> QED
      BY <2>0, <3>1, <3>2
  <2>2. CASE j \in 1 .. Len(P) /\ i \in Len(P) + 1 .. Len(T)
    <3>1. T[i].case = p /\ wide[i] \in Nat /\ i = Len(P) + 2 * wide[i]
      BY <1>3, <2>0, <2>2
    <3>2. j = Len(P) /\ wide[i] = 1
      BY <1>6, <2>0, <2>2, <3>1
    <3>3. P # <<>>
      BY <2>2
    <3>4. row[j] = ResultCount[P[j].case] /\ P[j].case = p - Workers /\ T[j] = P[j] /\ wide[j] = row[j]
      BY <1>1, <1>3, <1>6, <2>2, <3>2, <3>3 DEF Consecutive
    <3>5. p = T[j].case + Workers
      BY <1>2, <3>4, PoolAssumption
    <3> QED
      BY <2>0, <3>1, <3>2, <3>4, <3>5
  <2>3. CASE j \in Len(P) + 1 .. Len(T) /\ i \in Len(P) + 1 .. Len(T)
    <3>1. T[i].case = p /\ wide[i] \in Nat /\ i = Len(P) + 2 * wide[i]
      BY <1>3, <2>0, <2>3
    <3>2. T[j].case = p /\ wide[j] \in Nat /\ j = Len(P) + 2 * wide[j]
      BY <1>3, <1>10, <2>3
    <3>3. wide[i] = wide[j] + 1
      <4> DEFINE x == wide[i]
                 y == wide[j]
                 l == Len(P)
      <4>1. x \in Nat /\ y \in Nat /\ l \in Nat /\ l + 2 * x = l + 2 * y + 2
        BY <1>6, <2>0, <3>1, <3>2
      <4> HIDE DEF x, y, l
      <4>2. x = y + 1
        BY <4>1
      <4> QED
        BY <4>2 DEF x, y
    <3> QED
      BY <2>0, <3>1, <3>2, <3>3
  <2> QED
    BY <1>6, <1>8, <1>10, <2>0, <2>1, <2>2, <2>3
<1>11. wide[Len(T)] = ResultCount[T[Len(T)].case] /\ T[Len(T)].case = p
  <2>1. HiAt(T, Len(T))
    BY <1>4, <1>7 DEF Alternates
  <2>2. T[Len(T)].case = p /\ wide[Len(T)] \in Nat /\ Len(T) = Len(P) + 2 * wide[Len(T)]
    BY <1>3, <1>7, <2>1
  <2>3. wide[Len(T)] = R
    BY <1>2, <1>5, <1>6, <2>2
  <2> QED
    BY <2>2, <2>3 DEF R
<1>12. Consecutive(n, res, p, L, T, wide)
  BY <1>7, <1>9, <1>10, <1>11 DEF Consecutive
<1>13. Complete(s, n, res, p, L, b, oc2, T)
  BY <1>3, <1>4, <1>12 DEF Complete
<1> QED
  BY <1>13 DEF L, T, oc2

(* The process dies with the line of a case of one row in its buffer. *)
LEMMA CompleteLost ==
  ASSUME NEW s \in Shards, NEW n \in Nat, NEW P \in Seq(Token), NEW L \in Seq(Token), Len(L) = 2,
         NEW a \in Cases, ResultCount[a] = 1, NEW res, n \in Cases => res[n] \in Seq(Row),
         NEW b, NEW oc, Complete(s, n, res, a, L, b, oc, P \o L)
  PROVE  Complete(s, n, res, a, <<>>, b, oc, P)
<1> DEFINE T == P \o L
<1>1. PICK row \in [1 .. Len(T) -> Nat] : Numbered(s, n, oc, T, row) /\ Consecutive(n, res, a, L, T, row)
  BY DEF Complete
<1> DEFINE short == Short(P, row)
           l == Len(P)
<1>2. /\ l \in Nat /\ Len(T) = l + 2
      /\ \A j \in 1 .. Len(P) : j \in 1 .. Len(T) /\ T[j] = P[j] /\ (HiAt(T, j) <=> HiAt(P, j))
  <2>1. /\ Len(P) \in Nat /\ Len(T) = Len(P) + Len(L)
        /\ \A j \in 1 .. Len(P) : j \in 1 .. Len(T) /\ T[j] = P[j] /\ (HiAt(T, j) <=> HiAt(P, j))
    BY ConcatIndex
  <2> HIDE DEF T
  <2> QED
    BY <2>1
<1>3. short \in [1 .. Len(P) -> Nat] /\ Numbered(s, n, oc, P, short)
  BY <1>1, NumbersShort
<1>4. \A j \in 1 .. Len(P) : short[j] = row[j]
  BY DEF Short
<1>5. Alternates(b, T)
  BY DEF Complete
<1>6. a \in Nat /\ Workers \in Nat \ {0} /\ L # <<>>
  <2>1. Len(<<>>) = 0
    OBVIOUS
  <2>2. L # <<>>
    BY <2>1, Len(L) = 2, 0 # 2, Zenon
  <2> QED
    BY <2>2, PoolAssumption DEF Cases
<1>7. P # <<>> => l \in 1 .. l
  BY <1>2
<1> HIDE DEF T, short
<1>8. T # <<>> /\ l + 2 \in 1 .. Len(T) /\ l + 1 \in 1 .. Len(T) - 1
  BY <1>2 DEF T
<1>9. HiAt(T, l + 2) /\ row[l + 2] = ResultCount[T[l + 2].case] /\ T[l + 2].case = a
  BY <1>1, <1>2, <1>5, <1>6, <1>8 DEF Consecutive, Alternates
<1>10. ~ HiAt(T, l + 1)
  <2>1. T[l + 1].half # T[(l + 1) + 1].half /\ (l + 1) + 1 = l + 2
    BY <1>2, <1>5, <1>8 DEF Alternates
  <2> QED
    BY <1>9, <2>1 DEF HiAt
<1>11. P # <<>> => HiAt(P, l)
  <2> SUFFICES ASSUME P # <<>> PROVE HiAt(P, l)
    OBVIOUS
  <2>1. l \in 1 .. Len(T) - 1 /\ l + 1 \in 1 .. Len(T) /\ l \in 1 .. Len(T)
    BY <1>2, <1>7
  <2>2. T[l].half # T[l + 1].half /\ T[l].half \in {"lo", "hi"} /\ T[l + 1].half \in {"lo", "hi"}
    BY <1>5, <2>1 DEF Alternates
  <2>3. HiAt(T, l)
    BY <1>10, <2>1, <2>2 DEF HiAt
  <2> QED
    BY <1>2, <1>7, <2>3
<1>12. HiAt(T, 1) <=> HiAt(P, 1)
  <2>1. CASE 1 \in 1 .. Len(P)
    BY <1>2, <2>1
  <2>2. CASE 1 \notin 1 .. Len(P)
    <3>1. l + 1 = 1
      BY <1>2, <2>2
    <3> QED
      BY <1>10, <2>2, <3>1 DEF HiAt
  <2> QED
    BY <2>1, <2>2
<1>13. Alternates(b, P)
  <2>1. \A j \in 1 .. Len(P) : P[j].half \in {"lo", "hi"}
    BY <1>2, <1>5 DEF Alternates
  <2>2. ASSUME NEW j \in 1 .. Len(P) - 1
        PROVE  P[j].half # P[j + 1].half
    <3>1. j \in 1 .. Len(P) /\ j + 1 \in 1 .. Len(P) /\ j \in 1 .. Len(T) - 1
      BY <1>2
    <3>2. T[j].half # T[j + 1].half
      BY <1>5, <3>1 DEF Alternates
    <3> QED
      BY <1>2, <3>1, <3>2
  <2>3. b.half = IF HiAt(P, 1) THEN "lo" ELSE "none"
    BY <1>5, <1>12 DEF Alternates
  <2> QED
    BY <1>11, <2>1, <2>2, <2>3 DEF Alternates
<1>14. P = <<>> => n = a /\ (n < NumCases => res[n] = <<>>)
  <2> SUFFICES ASSUME P = <<>> PROVE n = a /\ res[n] = <<>>
    OBVIOUS
  <2>1. l + 2 = 2
    BY <1>2
  <2>2. T[2].case = n /\ row[2] = Len(res[n]) + 1 /\ row[2] = ResultCount[T[2].case] /\ T[2].case = a
    BY <1>1, <1>9, <2>1 DEF Consecutive
  <2>3. Len(res[n]) + 1 = 1 /\ res[n] \in Seq(Row)
    BY <2>2
  <2>4. res[n] = <<>>
    BY <2>3
  <2> QED
    BY <2>2, <2>4
<1>15. \A j \in {1, 2} : HiAt(P, j) => P[j].case = n /\ short[j] = Len(res[n]) + 1
  <2> SUFFICES ASSUME NEW j \in {1, 2}, HiAt(P, j)
               PROVE  P[j].case = n /\ short[j] = Len(res[n]) + 1
    OBVIOUS
  <2>1. j \in 1 .. Len(P)
    BY DEF HiAt
  <2>2. HiAt(T, j) /\ T[j] = P[j] /\ short[j] = row[j]
    BY <1>2, <1>4, <2>1
  <2> QED
    BY <1>1, <2>2 DEF Consecutive
<1>16. ASSUME NEW j \in 1 .. Len(P), HiAt(P, j), HiAt(P, j + 2)
       PROVE  \/ P[j + 2].case = P[j].case /\ short[j + 2] = short[j] + 1
              \/ P[j + 2].case = P[j].case + Workers /\ short[j + 2] = 1 /\ short[j] = ResultCount[P[j].case]
  <2>1. j + 2 \in 1 .. Len(P)
    BY <1>16 DEF HiAt
  <2>2. /\ j \in 1 .. Len(T) /\ HiAt(T, j) /\ T[j] = P[j] /\ short[j] = row[j]
        /\ HiAt(T, j + 2) /\ T[j + 2] = P[j + 2] /\ short[j + 2] = row[j + 2]
    BY <1>2, <1>4, <1>16, <2>1
  <2>3. \/ T[j + 2].case = T[j].case /\ row[j + 2] = row[j] + 1
        \/ T[j + 2].case = T[j].case + Workers /\ row[j + 2] = 1 /\ row[j] = ResultCount[T[j].case]
    BY <1>1, <2>2 DEF Consecutive
  <2> QED
    BY <2>2, <2>3
<1>17. P # <<>> => short[l] = ResultCount[P[l].case] /\ P[l].case = a - Workers
  <2> SUFFICES ASSUME P # <<>> PROVE short[l] = ResultCount[P[l].case] /\ P[l].case = a - Workers
    OBVIOUS
  <2>1. l \in 1 .. Len(T) /\ HiAt(T, l) /\ T[l] = P[l] /\ short[l] = row[l] /\ HiAt(P, l)
    BY <1>2, <1>4, <1>7, <1>11
  <2>2. \/ T[l + 2].case = T[l].case /\ row[l + 2] = row[l] + 1
        \/ T[l + 2].case = T[l].case + Workers /\ row[l + 2] = 1 /\ row[l] = ResultCount[T[l].case]
    BY <1>1, <1>9, <2>1 DEF Consecutive
  <2>3. row[l] \in 1 .. ResultCount[T[l].case] /\ T[l].case \in Nat
    <3>1. row[l] \in 1 .. ResultCount[T[l].case] /\ T[l].case \in Cases
      BY <1>1, <2>1 DEF Numbered
    <3> QED
      BY <3>1, PoolAssumption DEF Cases
  <2>4. row[l + 2] = 1
    BY <1>9
  <2>5. row[l + 2] # row[l] + 1
    <3>1. row[l] \in Nat /\ row[l] >= 1
      BY <2>1, <2>3
    <3> QED
      BY <2>4, <3>1
  <2> QED
    BY <1>6, <1>9, <2>1, <2>2, <2>3, <2>5
<1>18. Consecutive(n, res, a, <<>>, P, short)
  BY <1>14, <1>15, <1>16, <1>17 DEF Consecutive
<1> QED
  BY <1>3, <1>13, <1>18 DEF Complete

(* The process has written a part of its buffer, or all of it. *)
LEMMA CompleteFlush ==
  ASSUME NEW s, NEW n, NEW res, NEW a \in Nat, NEW o, o # <<>>, NEW b, NEW oc, NEW T, T # <<>>,
         Complete(s, n, res, a, o, b, oc, T)
  PROVE  /\ \A left : left # <<>> => Complete(s, n, res, a, left, b, oc, T)
         /\ Complete(s, n, res, a + Workers, <<>>, b, oc, T)
<1>1. PICK row \in [1 .. Len(T) -> Nat] : Numbered(s, n, oc, T, row) /\ Consecutive(n, res, a, o, T, row)
  BY DEF Complete
<1>2. ASSUME NEW left, left # <<>>
      PROVE  Complete(s, n, res, a, left, b, oc, T)
  <2>1. Consecutive(n, res, a, left, T, row)
    BY <1>1, <1>2 DEF Consecutive
  <2> QED
    BY <1>1, <2>1 DEF Complete
<1>3. Complete(s, n, res, a + Workers, <<>>, b, oc, T)
  <2>1. (a + Workers) - Workers = a
    BY PoolAssumption
  <2>2. Consecutive(n, res, a + Workers, <<>>, T, row)
    BY <1>1, <2>1 DEF Consecutive
  <2> QED
    BY <1>1, <2>2 DEF Complete
<1> QED
  BY <1>2, <1>3

LEMMA CompleteEmpty ==
  ASSUME NEW s, NEW n, NEW res, NEW b, NEW oc, b.half = "none", n < NumCases => res[n] = <<>>
  PROVE  Complete(s, n, res, n, <<>>, b, oc, <<>>)
<1> DEFINE row == [j \in 1 .. Len(<<>>) |-> 0]
<1>1. row \in [1 .. Len(<<>>) -> Nat]
  OBVIOUS
<1>2. Len(<<>>) = 0 /\ 1 .. Len(<<>>) = {} /\ 1 .. Len(<<>>) - 1 = {}
  OBVIOUS
<1> HIDE DEF row
<1>3. \A j : ~ HiAt(<<>>, j)
  BY <1>2 DEF HiAt
<1>4. Alternates(b, <<>>)
  BY <1>2, <1>3 DEF Alternates
<1>5. Numbered(s, n, oc, <<>>, row) /\ Consecutive(n, res, n, <<>>, <<>>, row)
  BY <1>2, <1>3 DEF Numbered, Consecutive
<1> QED
  BY <1>1, <1>4, <1>5 DEF Complete

-----------------------------------------------------------------------------
(* The invariant, shard by shard. *)

(* A step that has nothing to do with the shard. *)
LEMMA BlamedStays ==
  ASSUME Inv, NEW s \in Shards, Blamed(s),
         worker'[s] = worker[s], child'[s] = child[s], next'[s] = next[s], at'[s] = at[s],
         out'[s] = out[s], buffer'[s] = buffer[s], pipe'[s] = pipe[s],
         \A p \in Cases : ShardOf(p) = s => results'[p] = results[p] /\ outcome'[p] = outcome[p],
         died \subseteq died', \A p \in Cases : ShardOf(p) = s /\ p \in died' => p \in died,
         noise' = 0 => noise = 0
  PROVE  Blamed(s)'
<1>1. Stream(s)' = Stream(s)
  BY DEF Stream
<1>2. next[s] \in Nat /\ ShardOf(next[s]) = s
  BY ShardTypes
<1>3. Whole(s)'
  BY DEF Blamed, Whole
<1>4. ASSUME Faultless(s)'
      PROVE  Exact(s)'
  <2>1. Faultless(s)
    BY <1>4 DEF Faultless
  <2>2. Exact(s)
    BY <2>1 DEF Blamed
  <2>3. worker[s] # "closed" =>
          Complete(s, next[s], results', at[s], out[s], buffer[s], outcome', Stream(s))
    BY <1>2, <2>2, CompleteStays DEF Exact
  <2>4. ASSUME NEW p \in Cases, ShardOf(p) = s
        PROVE  IF p < next[s] THEN results'[p] = Crashed <=> p \in died'
                              ELSE p \in died' => child[s] = "aborted" /\ p = at[s]
    <3>1. p \in died' <=> p \in died
      BY <2>4
    <3> QED
      BY <2>2, <2>4, <3>1 DEF Exact
  <2> QED
    BY <1>1, <2>3, <2>4 DEF Exact
<1> QED
  BY <1>3, <1>4 DEF Blamed

LEMMA BlamedInit == Init => BlameInv
<1> SUFFICES ASSUME Init PROVE BlameInv
  OBVIOUS
<1>1. LinesInv
  BY LinesInit
<1>2. ASSUME NEW s \in Shards
      PROVE  Blamed(s)
  <2>1. /\ worker[s] = "unspawned" /\ next[s] = s /\ at[s] = s /\ out[s] = <<>> /\ pipe[s] = <<>>
        /\ buffer[s] = Empty /\ child[s] = "none" /\ died = {} /\ \A p \in Cases : results[p] = <<>>
    BY <1>2 DEF Init
  <2>2. Stream(s) = <<>>
    BY <2>1 DEF Stream
  <2>3. s < NumCases => results[s] = <<>>
    <3>1. s \in Nat
      BY PoolAssumption DEF Shards
    <3> QED
      BY <2>1, <3>1, PositionIsCase
  <2>4. buffer[s].half = "none"
    BY <2>1 DEF Empty
  <2>5. Complete(s, s, results, s, <<>>, buffer[s], outcome, <<>>)
    BY <2>3, <2>4, CompleteEmpty
  <2>6. \A p \in Cases : results[p] # Crashed
    <3>1. <<>> # Crashed
      BY DEF Crashed
    <3> QED
      BY <2>1, <3>1
  <2>7. Exact(s)
    BY <2>1, <2>2, <2>5, <2>6 DEF Exact
  <2> QED
    BY <2>1, <2>7 DEF Blamed, Whole
<1> QED
  BY <1>1, <1>2 DEF BlameInv

LEMMA SpawnBlamed ==
  ASSUME BlameInv, NEW s \in Shards, Spawn(s)
  PROVE  \A t \in Shards : Blamed(t)'
<1>1. /\ Inv /\ Blamed(s) /\ worker[s] = "unspawned" /\ Process(s)
      /\ UNCHANGED <<next, results, buffer, at, out, pipe, noise, outcome, died>>
  BY DEF BlameInv, LinesInv, Lines, Spawn
<1>2. /\ worker'[s] = "open" /\ child'[s] = "running"
      /\ \A t \in Shards \ {s} : worker'[t] = worker[t] /\ child'[t] = child[t]
  BY <1>1 DEF Spawn, Inv, TypeOK
<1>3. child[s] = "none" /\ Stream(s)' = Stream(s)
  BY <1>1 DEF Process, Stream
<1>4. Blamed(s)'
  <2>1. Whole(s)'
    BY <1>1, <1>2 DEF Blamed, Whole
  <2>2. Faultless(s)' => Faultless(s)
    BY <1>1 DEF Faultless
  <2>3. Exact(s) => Exact(s)'
    BY <1>1, <1>2, <1>3 DEF Exact
  <2> QED
    BY <1>1, <2>1, <2>2, <2>3 DEF Blamed
<1>5. ASSUME NEW t \in Shards \ {s}
      PROVE  Blamed(t)'
  BY <1>1, <1>2, BlamedStays DEF BlameInv
<1> QED
  BY <1>4, <1>5

LEMMA ReadFragmentBlamed ==
  ASSUME BlameInv, NEW s \in Shards, ReadFragment(s)
  PROVE  \A t \in Shards : Blamed(t)'
<1> DEFINE T == Stream(s)
<1>1. /\ Inv /\ Blamed(s) /\ worker[s] = "open" /\ pipe[s] # <<>> /\ Head(pipe[s]).half \in {"lo", "junk"}
      /\ UNCHANGED <<worker, next, results, child, at, out, noise, outcome, died>>
  BY DEF BlameInv, LinesInv, ReadFragment, Reading, childVars
<1>2. /\ pipe'[s] = Tail(pipe[s]) /\ \A t \in Shards \ {s} : pipe'[t] = pipe[t]
      /\ buffer'[s] = IF buffer[s] = Junk THEN Junk ELSE Head(pipe[s])
      /\ \A t \in Shards \ {s} : buffer'[t] = buffer[t]
  BY <1>1 DEF ReadFragment, Inv, TypeOK
<1>3. T \in Seq(Token) /\ T # <<>> /\ T[1] = Head(pipe[s]) /\ Tail(pipe[s]) \o out[s] = Tail(T)
  BY <1>1, ShardTypes, StreamTail
<1>4. Stream(s)' = Tail(T)
  BY <1>1, <1>2, <1>3 DEF Stream
<1> HIDE DEF T
<1>5. ~ HiAt(T, 1)
  BY <1>1, <1>3 DEF HiAt
<1>6. ASSUME Faultless(s)'
      PROVE  Exact(s)'
  <2>1. Exact(s)
    BY <1>1, <1>6 DEF Faultless, Blamed
  <2>2. Complete(s, next[s], results, at[s], out[s], buffer[s], outcome, T)
    BY <1>1, <2>1 DEF Exact, T
  <2>3. buffer[s].half = "none" /\ T[1].half \in {"lo", "hi"}
    <3>1. 1 \in 1 .. Len(T)
      BY <1>3, TailIndex
    <3> QED
      BY <1>5, <2>2, <3>1 DEF Complete, Alternates
  <2>4. buffer'[s].half = "lo"
    BY <1>1, <1>2, <1>3, <2>3 DEF Junk
  <2>5. Complete(s, next[s], results, at[s], out[s], buffer'[s], outcome, Tail(T))
    BY <1>3, <1>5, <2>2, <2>4, CompleteSkip
  <2> QED
    BY <1>1, <1>4, <2>1, <2>5 DEF Exact
<1>7. Blamed(s)'
  BY <1>1, <1>6 DEF Blamed, Whole
<1>8. ASSUME NEW t \in Shards \ {s}
      PROVE  Blamed(t)'
  BY <1>1, <1>2, BlamedStays DEF BlameInv
<1> QED
  BY <1>7, <1>8

LEMMA CrashIsNoOutcome == Crashed \notin Seq(Outcomes)
<1> SUFFICES ASSUME Crashed \in Seq(Outcomes) PROVE FALSE
  OBVIOUS
<1>1. Crashed[1] = "crash" /\ Len(Crashed) = 1
  BY DEF Crashed
<1>2. Crashed[1] \in Outcomes
  BY <1>1
<1> QED
  BY <1>1, <1>2 DEF Outcomes

LEMMA ReadLineBlamed ==
  ASSUME BlameInv, NEW s \in Shards, ReadLine(s)
  PROVE  \A t \in Shards : Blamed(t)'
<1> DEFINE T == Stream(s)
           n == next[s]
           a == at[s]
           rows == Append(results[n], T[1].status)
           more == [results EXCEPT ![n] = rows]
<1>1. /\ LinesInv /\ Inv /\ Process(s) /\ Blamed(s) /\ worker[s] = "open"
      /\ pipe[s] # <<>> /\ Head(pipe[s]).half = "hi"
      /\ UNCHANGED <<worker, child, at, out, noise, outcome, died>>
  BY DEF BlameInv, LinesInv, Lines, ReadLine, Reading, childVars
<1>2. /\ T \in Seq(Token) /\ T # <<>> /\ T[1] = Head(pipe[s]) /\ Tail(pipe[s]) \o out[s] = Tail(T)
      /\ out[s] # <<>> => Len(T) >= 2
  BY <1>1, ShardTypes, StreamTail
<1>3. /\ n \in Nat /\ ShardOf(n) = s /\ a \in Nat /\ Standing(s, n, results)
      /\ Workers \in Nat \ {0} /\ NumCases \in Nat
  BY <1>1, ShardTypes
<1>4. /\ buffer'[s] = Empty /\ pipe'[s] = Tail(pipe[s])
      /\ \A t \in Shards \ {s} : buffer'[t] = buffer[t] /\ pipe'[t] = pipe[t]
  BY <1>1 DEF ReadLine, Inv, TypeOK
<1>5. PICK m, new : Records(s, m, new)
  BY <1>1, ReadLineRecords
<1>6. /\ next'[s] = m /\ results' = new /\ m \in Nat
      /\ \A p \in Cases : p # n => new[p] = results[p]
      /\ \A t \in Shards \ {s} : next'[t] = next[t]
      /\ m = n \/ m = n + Workers
  BY <1>1, <1>5 DEF Records, Inv, TypeOK
<1>7. Stream(s)' = Tail(T)
  BY <1>1, <1>2, <1>4 DEF Stream
<1>8. HiAt(T, 1)
  <2>1. 1 \in 1 .. Len(T)
    BY <1>2, TailIndex
  <2> QED
    BY <1>1, <1>2, <2>1 DEF HiAt
<1>9. next' = [next EXCEPT ![s] = IF buffer[s] = Junk THEN n ELSE RecordLine(T[1].case, T[1].status, n, results).next]
  BY <1>2 DEF ReadLine
<1>10. results' = IF buffer[s] = Junk THEN results ELSE RecordLine(T[1].case, T[1].status, n, results).results
  BY <1>2 DEF ReadLine
<1> HIDE DEF T, n, a
<1>11. ASSUME Faultless(s)'
       PROVE  Exact(s)'
  <2>1. Exact(s)
    BY <1>1, <1>11 DEF Faultless, Blamed
  <2>2. Complete(s, n, results, a, out[s], buffer[s], outcome, T)
    BY <1>1, <2>1 DEF Exact, T, n, a
  <2>3. T[1].case = n /\ n \in Cases /\ buffer[s].half = "lo" /\ (out[s] = <<>> => n < a)
    BY <1>2, <1>3, <1>8, <2>2, FirstLine
  <2>4. buffer[s] # Junk /\ n < NumCases
    BY <1>3, <2>3, PoolAssumption DEF Junk, Cases
  <2>5. RecordLine(T[1].case, T[1].status, n, results) = [next |-> Advanced(n, more), results |-> more]
    BY <1>3, <2>3, <2>4 DEF RecordLine
  <2>6. next'[s] = Advanced(n, more) /\ results' = more
    BY <1>1, <1>9, <1>10, <2>4, <2>5 DEF Inv, TypeOK
  <2>7. Empty.half = "none"
    BY DEF Empty
  <2>8. Complete(s, Advanced(n, more), more, a, out[s], Empty, outcome, Tail(T))
    BY <1>2, <1>3, <1>8, <2>2, <2>7, CompleteRead
  <2>9. worker'[s] # "closed" =>
          Complete(s, next'[s], results', at'[s], out'[s], buffer'[s], outcome', Stream(s)')
    BY <1>1, <1>4, <1>7, <2>6, <2>8 DEF a
  <2>10. ASSUME NEW p \in Cases, ShardOf(p) = s
         PROVE  IF p < m THEN new[p] = Crashed <=> p \in died
                         ELSE p \in died => child[s] = "aborted" /\ p = a
    <3>1. p \in Nat
      BY PoolAssumption DEF Cases
    <3>2. CASE p < n
      BY <1>1, <1>3, <1>6, <2>1, <2>10, <3>1, <3>2 DEF Exact, n
    <3>3. CASE ~ (p < n)
      <4>1. p \in died => child[s] = "aborted" /\ p = a
        BY <2>1, <2>10, <3>3 DEF Exact, n, a
      <4>2. CASE p < m
        <5>1. p = n
          <6>1. n < p => n + Workers <= p
            BY <1>3, <2>10, <3>1, ModGap DEF ShardOf
          <6> QED
            BY <1>3, <1>6, <3>1, <3>3, <4>2, <6>1
        <5>2. p \notin died
          <6> SUFFICES ASSUME p \in died PROVE FALSE
            OBVIOUS
          <6>1. child[s] = "aborted" /\ n = a
            BY <4>1, <5>1
          <6>2. out[s] = <<>>
            BY <1>1, <6>1 DEF Process
          <6> QED
            BY <1>3, <2>3, <6>1, <6>2
        <5>3. new[n] # Crashed
          <6>1. new[n] = rows
            BY <1>3, <1>6, <2>3, <2>6 DEF Standing, Table
          <6>2. rows \in Seq(Outcomes)
            <7>1. results[n] \in Seq(Outcomes)
              BY <1>3, <2>3 DEF Standing, ShardShape, PartRows
            <7>2. T[1] \in Token /\ T[1] # Junk
              BY <1>2, <1>8 DEF HiAt, Junk
            <7>3. T[1].status \in Outcomes
              BY <7>2 DEF Token
            <7> QED
              BY <7>1, <7>3, AppendProperties
          <6>3. Crashed \notin Seq(Outcomes)
            BY CrashIsNoOutcome
          <6> QED
            BY <6>1, <6>2, <6>3
        <5> QED
          BY <4>2, <5>1, <5>2, <5>3
      <4>3. CASE ~ (p < m)
        BY <4>1, <4>3
      <4> QED
        BY <4>2, <4>3
    <3> QED
      BY <3>2, <3>3
  <2> QED
    BY <1>1, <1>6, <2>9, <2>10 DEF Exact, a
<1>12. Blamed(s)'
  BY <1>1, <1>11 DEF Blamed, Whole
<1>13. ASSUME NEW t \in Shards \ {s}
       PROVE  Blamed(t)'
  <2>1. \A p \in Cases : ShardOf(p) = t => results'[p] = results[p]
    BY <1>3, <1>6
  <2> QED
    BY <1>1, <1>4, <1>6, <2>1, BlamedStays DEF BlameInv
<1> QED
  BY <1>12, <1>13

(* A pipe that ran dry where the process stopped: nobody, or the case it   *)
(* died in.                                                                *)
LEMMA FinishWorkerBlamed ==
  ASSUME BlameInv, NEW s \in Shards, FinishWorker(s)
  PROVE  \A t \in Shards : Blamed(t)'
<1> DEFINE n == next[s]
           a == at[s]
<1>1. /\ Inv /\ Process(s) /\ Blamed(s) /\ pipe[s] = <<>> /\ child[s] \in {"exited", "aborted"} /\ worker[s] = "open"
      /\ UNCHANGED <<out, pipe, noise, outcome, died>>
  BY DEF BlameInv, LinesInv, Lines, FinishWorker, Eof, Reading
<1>2. PICK m, new : /\ next' = [next EXCEPT ![s] = m] /\ results' = new
                    /\ Blames(s, n, results, m, new)
                    /\ IF m < NumCases
                       THEN /\ new[m] = <<>>
                            /\ child' = [child EXCEPT ![s] = "running"]
                            /\ at' = [at EXCEPT ![s] = m] /\ worker' = worker
                       ELSE /\ worker' = [worker EXCEPT ![s] = "closed"]
                            /\ UNCHANGED <<child, at>>
  BY <1>1, FinishWorkerBlames
<1>3. /\ n \in Nat /\ ShardOf(n) = s /\ m \in Nat /\ NumCases \in Nat /\ Workers \in Nat \ {0}
      /\ Standing(s, n, results)
  BY <1>1, <1>2, ShardTypes DEF Blames, Move, Standing
<1>4. /\ next'[s] = m /\ buffer'[s] = Empty
      /\ \A t \in Shards \ {s} : /\ worker'[t] = worker[t] /\ child'[t] = child[t] /\ at'[t] = at[t]
                                 /\ next'[t] = next[t] /\ buffer'[t] = buffer[t]
      /\ m < NumCases => child'[s] = "running" /\ at'[s] = m
      /\ ~ (m < NumCases) => worker'[s] = "closed" /\ child'[s] = child[s] /\ at'[s] = at[s]
  BY <1>1, <1>2 DEF FinishWorker, Inv, TypeOK
<1>5. out[s] = <<>>
  BY <1>1 DEF Process
<1>6. Stream(s) = <<>> /\ Stream(s)' = <<>>
  BY <1>1, <1>5 DEF Stream
<1> HIDE DEF n, a
<1>7. Whole(s)'
  BY <1>1, <1>4, <1>5 DEF Blamed, Whole
<1>8. ASSUME Faultless(s)'
      PROVE  Exact(s)'
  <2>1. Exact(s)
    BY <1>1, <1>8 DEF Faultless, Blamed
  <2>2. Complete(s, n, results, a, <<>>, buffer[s], outcome, <<>>)
    BY <1>1, <1>5, <1>6, <2>1 DEF Exact, n, a
  <2>3. n = a /\ buffer[s].half = "none"
    <3>1. ~ HiAt(<<>>, 1)
      BY DEF HiAt
    <3> QED
      BY <2>2, <3>1 DEF Complete, Consecutive, Alternates
  <2>4. AtEof(s).next = n
    <3>1. AtEof(s) = [[next |-> n, results |-> results] EXCEPT !.next = Advanced(n, results)]
      BY <2>3 DEF AtEof, n
    <3>2. Advanced(n, results) = n
      BY <1>3, NothingToAdvance
    <3> QED
      BY <3>1, <3>2
  <2>5. m = IF n < NumCases THEN n + Workers ELSE n
    <3>1. next'[s] = IF AtEof(s).next < NumCases THEN AtEof(s).next + Workers ELSE AtEof(s).next
      BY <1>1 DEF FinishWorker, AfterBlame, Inv, TypeOK
    <3> QED
      BY <1>4, <2>4, <3>1
  <2>6. n < NumCases => child[s] = "aborted" /\ a \in died
    BY <1>1, <1>3, <2>3 DEF Blamed, Whole, a
  <2>7. ASSUME NEW p \in Cases, ShardOf(p) = s
        PROVE  IF p < m THEN new[p] = Crashed <=> p \in died
                        ELSE p \notin died
    <3>1. p \in Nat /\ p < NumCases
      BY PoolAssumption DEF Cases
    <3>2. CASE p < n
      <4>1. results[p] = Crashed <=> p \in died
        BY <2>1, <2>7, <3>2 DEF Exact, n
      <4>2. new[p] = results[p]
        BY <1>2, <3>2 DEF Blames, Move
      <4> QED
        BY <1>3, <2>5, <3>1, <3>2, <4>1, <4>2
    <3>3. CASE p = n
      <4>1. n < m /\ p \in died
        BY <1>3, <2>3, <2>5, <2>6, <3>1, <3>3
      <4>2. new[p] = Crashed
        BY <1>2, <1>3, <2>7, <3>3, <4>1 DEF Blames
      <4> QED
        BY <3>3, <4>1, <4>2
    <3>4. CASE n < p
      <4>1. p \notin died
        BY <1>3, <2>1, <2>3, <2>7, <3>1, <3>4 DEF Exact, n, a
      <4>2. n + Workers <= p
        BY <1>3, <2>7, <3>1, <3>4, ModGap DEF ShardOf
      <4>3. ~ (p < m)
        BY <1>3, <2>5, <3>1, <3>4, <4>2
      <4> QED
        BY <4>1, <4>3
    <3> QED
      BY <1>3, <3>1, <3>2, <3>3, <3>4
  <2>8. m < NumCases => Complete(s, m, new, m, <<>>, Empty, outcome, <<>>)
    <3>1. Empty.half = "none"
      BY DEF Empty
    <3> QED
      BY <1>2, <3>1, CompleteEmpty
  <2>9. worker'[s] # "closed" =>
          Complete(s, next'[s], results', at'[s], out'[s], buffer'[s], outcome', Stream(s)')
    <3> SUFFICES ASSUME m < NumCases
                 PROVE  Complete(s, next'[s], results', at'[s], out'[s], buffer'[s], outcome', Stream(s)')
      BY <1>4
    <3> QED
      BY <1>1, <1>2, <1>4, <1>5, <1>6, <2>8
  <2> QED
    BY <1>1, <1>2, <1>4, <2>7, <2>9 DEF Exact
<1>9. ASSUME NEW t \in Shards \ {s}
      PROVE  Blamed(t)'
  <2>1. \A p \in Cases : ShardOf(p) = t => results'[p] = results[p]
    BY <1>2 DEF Blames, Move
  <2> QED
    BY <1>1, <1>4, <2>1, BlamedStays DEF BlameInv
<1> QED
  BY <1>7, <1>8, <1>9 DEF Blamed

LEMMA RunCaseBlamed ==
  ASSUME BlameInv, NEW s \in Shards, RunCase(s)
  PROVE  \A t \in Shards : Blamed(t)'
<1> DEFINE n == next[s]
           p == at[s]
           P == pipe[s]
<1>1. /\ Inv /\ Process(s) /\ Blamed(s) /\ child[s] = "running" /\ p < NumCases /\ out[s] = <<>>
      /\ UNCHANGED <<worker, next, results, buffer, child, at, pipe, noise, died>>
  BY DEF BlameInv, LinesInv, Lines, RunCase, Alive, parentVars
<1>2. /\ n \in Nat /\ ShardOf(n) = s /\ p \in Nat /\ ShardOf(p) = s /\ NumCases \in Nat
      /\ P \in Seq(Token) /\ outcome \in [Cases -> Seq(Outcomes)]
  BY <1>1, ShardTypes
<1>3. p \in Cases /\ ResultCount[p] \in Nat
  BY <1>1, <1>2, PositionIsCase, PoolAssumption
<1>4. PICK rows \in [1 .. ResultCount[p] -> Outcomes] :
        outcome' = [outcome EXCEPT ![p] = rows] /\ out' = [out EXCEPT ![s] = RowLines(p, rows)]
  BY DEF RunCase
<1>5. rows \in Seq(Outcomes) /\ Len(rows) = ResultCount[p]
  BY <1>3
<1> DEFINE L == RowLines(p, rows)
<1>6. out'[s] = L /\ \A t \in Shards \ {s} : out'[t] = out[t]
  BY <1>1, <1>4 DEF Inv, TypeOK
<1>7. Stream(s) = P /\ Stream(s)' = P \o L
  BY <1>1, <1>2, <1>6 DEF Stream
<1>8. Ahead(n, results, p, <<>>, P)
  BY <1>1, <1>7 DEF Process
<1>9. L \in Seq(Token) /\ Len(L) = 2 * ResultCount[p]
  BY <1>3, <1>5, RowLinesEnds
<1> HIDE DEF n, p, P, L
<1>10. n <= p /\ \A j \in 1 .. Len(P) : HiAt(P, j) => P[j].case < p
  BY <1>8 DEF Ahead
<1>11. Whole(s)'
  <2>1. ResultCount[p] = 1 => Len(L) = 2
    BY <1>9
  <2> QED
    BY <1>1, <1>6, <2>1 DEF Whole, p
<1>12. ASSUME Faultless(s)'
       PROVE  Exact(s)'
  <2>1. Exact(s)
    BY <1>1, <1>12 DEF Faultless, Blamed
  <2>2. ASSUME worker[s] # "closed"
        PROVE  Complete(s, n, results, p, L, buffer[s], outcome', P \o L)
    <3>1. Complete(s, n, results, p, <<>>, buffer[s], outcome, P)
      BY <1>1, <1>7, <2>1, <2>2 DEF Exact, n, p
    <3> QED
      BY <1>2, <1>3, <1>4, <1>5, <1>10, <3>1, CompleteRun DEF L
  <2> QED
    BY <1>1, <1>6, <1>7, <2>1, <2>2 DEF Exact, n, p
<1>13. ASSUME NEW t \in Shards \ {s}
       PROVE  Blamed(t)'
  <2>1. \A q \in Cases : ShardOf(q) = t => outcome'[q] = outcome[q]
    BY <1>2, <1>4
  <2> QED
    BY <1>1, <1>6, <2>1, BlamedStays DEF BlameInv
<1> QED
  BY <1>11, <1>12, <1>13 DEF Blamed

LEMMA EmitBlamed ==
  ASSUME BlameInv, NEW s \in Shards, Emit(s)
  PROVE  \A t \in Shards : Blamed(t)'
<1> DEFINE a == at[s]
           P == pipe[s]
           O == out[s]
           T == Stream(s)
<1>1. /\ Inv /\ Process(s) /\ Blamed(s) /\ child[s] = "running" /\ O # <<>>
      /\ UNCHANGED <<worker, next, results, buffer, child, noise, outcome, died>>
  BY DEF BlameInv, LinesInv, Lines, Emit, Alive, parentVars
<1>2. /\ a \in Nat /\ NumCases \in Nat /\ Workers \in Nat \ {0}
      /\ P \in Seq(Token) /\ O \in Seq(Token) /\ T \in Seq(Token)
  BY <1>1, ShardTypes
<1>3. PICK k \in 1 .. Len(O) :
        /\ Len(O) = 2 * ResultCount[a] => k >= 2
        /\ pipe' = [pipe EXCEPT ![s] = P \o SubSeq(O, 1, k)]
        /\ out'  = [out EXCEPT ![s] = SubSeq(O, k + 1, Len(O))]
        /\ at'   = [at EXCEPT ![s] = IF k = Len(O) THEN a + Workers ELSE a]
  BY DEF Emit
<1> DEFINE more == SubSeq(O, 1, k)
           left == SubSeq(O, k + 1, Len(O))
           b == IF k = Len(O) THEN a + Workers ELSE a
<1>4. /\ pipe'[s] = P \o more /\ out'[s] = left /\ at'[s] = b
      /\ \A t \in Shards \ {s} : pipe'[t] = pipe[t] /\ out'[t] = out[t] /\ at'[t] = at[t]
  BY <1>1, <1>3 DEF Inv, TypeOK
<1> HIDE DEF a, P, O
<1>5. more \in Seq(Token) /\ left \in Seq(Token) /\ Len(left) = Len(O) - k /\ Len(O) \in Nat
  BY <1>2
<1>6. more \o left = O
  <2>1. 1 \in 1 .. Len(O) + 1 /\ k \in 1 - 1 .. Len(O) /\ Len(O) \in k .. Len(O)
    BY <1>5
  <2>2. more \o left = SubSeq(O, 1, Len(O))
    BY <1>2, <2>1, ConcatAdjacentSubSeq
  <2> QED
    BY <1>2, <2>2, SubSeqFull
<1> HIDE DEF more, left
<1>7. Stream(s)' = T
  <2>1. (P \o more) \o left = P \o (more \o left)
    BY <1>2, <1>5, ConcatTwice
  <2> QED
    BY <1>4, <1>6, <2>1 DEF Stream, P, O
<1>8. T # <<>>
  <2>1. Len(T) = Len(P) + Len(O) /\ Len(P) \in Nat /\ Len(O) # 0
    BY <1>1, <1>2, ConcatIndex DEF Stream, P, O, T
  <2>2. Len(T) # 0
    BY <1>5, <2>1
  <2>3. Len(<<>>) = 0
    OBVIOUS
  <2> QED
    BY <2>2, <2>3
<1> HIDE DEF T
<1>9. left = <<>> <=> k = Len(O)
  <2>1. Len(left) = 0 <=> k = Len(O)
    BY <1>5
  <2> QED
    BY <1>5, <2>1
<1>10. Whole(s)'
  <2>1. ASSUME left # <<>>
        PROVE  b < NumCases /\ (ResultCount[b] = 1 => Len(left) = 2)
    <3>1. b = a /\ k # Len(O)
      BY <1>9, <2>1
    <3>2. a < NumCases /\ (ResultCount[a] = 1 => Len(O) = 2)
      BY <1>1 DEF Blamed, Whole, a, O
    <3>3. ResultCount[a] # 1
      <4> SUFFICES ASSUME ResultCount[a] = 1 PROVE FALSE
        OBVIOUS
      <4>1. Len(O) = 2 /\ Len(O) = 2 * ResultCount[a]
        BY <3>2
      <4> QED
        BY <1>3, <3>1, <4>1
    <3> QED
      BY <3>1, <3>2, <3>3
  <2> QED
    BY <1>1, <1>4, <2>1 DEF Whole
<1>11. ASSUME Faultless(s)'
       PROVE  Exact(s)'
  <2>1. Exact(s)
    BY <1>1, <1>11 DEF Faultless, Blamed
  <2>2. ASSUME worker[s] # "closed"
        PROVE  Complete(s, next[s], results, b, left, buffer[s], outcome, T)
    <3>1. Complete(s, next[s], results, a, O, buffer[s], outcome, T)
      BY <2>1, <2>2 DEF Exact, a, O, T
    <3>2. CASE left # <<>>
      <4>1. b = a
        BY <1>9, <3>2
      <4> QED
        BY <1>1, <1>2, <1>8, <3>1, <3>2, <4>1, CompleteFlush
    <3>3. CASE left = <<>>
      <4>1. b = a + Workers
        BY <1>9, <3>3
      <4> QED
        BY <1>1, <1>2, <1>8, <3>1, <3>3, <4>1, CompleteFlush
    <3> QED
      BY <3>2, <3>3
  <2> QED
    BY <1>1, <1>4, <1>7, <2>1, <2>2 DEF Exact
<1>12. ASSUME NEW t \in Shards \ {s}
       PROVE  Blamed(t)'
  BY <1>1, <1>4, BlamedStays DEF BlameInv
<1> QED
  BY <1>10, <1>11, <1>12 DEF Blamed

(* Foreign output is nobody's fault that BlameIsExact speaks of. *)
LEMMA NoiseBlamed ==
  ASSUME BlameInv, NEW s \in Shards, Noise(s)
  PROVE  \A t \in Shards : Blamed(t)'
<1>1. noise \in Nat /\ noise' = noise + 1 /\ UNCHANGED <<child, at, out, died>>
  BY PoolAssumption DEF BlameInv, LinesInv, Inv, TypeOK, Noise
<1>2. noise' # 0
  BY <1>1
<1> QED
  BY <1>1, <1>2 DEF BlameInv, Blamed, Whole, Faultless

LEMMA ExitBlamed ==
  ASSUME BlameInv, NEW s \in Shards, Exit(s)
  PROVE  \A t \in Shards : Blamed(t)'
<1>1. /\ Inv /\ Blamed(s) /\ child[s] = "running" /\ at[s] >= NumCases
      /\ UNCHANGED <<worker, next, results, buffer, at, out, pipe, noise, outcome, died>>
  BY DEF BlameInv, LinesInv, Exit, Alive, parentVars
<1>2. child'[s] = "exited" /\ \A t \in Shards \ {s} : child'[t] = child[t]
  BY <1>1 DEF Exit, Inv, TypeOK
<1>3. Stream(s)' = Stream(s)
  BY <1>1 DEF Stream
<1>4. Whole(s)'
  BY <1>1, <1>2 DEF Blamed, Whole
<1>5. Exact(s) => Exact(s)'
  BY <1>1, <1>3 DEF Exact
<1>6. Faultless(s)' => Faultless(s)
  BY <1>1 DEF Faultless
<1>7. ASSUME NEW t \in Shards \ {s}
      PROVE  Blamed(t)'
  BY <1>1, <1>2, BlamedStays DEF BlameInv
<1> QED
  BY <1>1, <1>4, <1>5, <1>6, <1>7 DEF Blamed

LEMMA AbortBlamed ==
  ASSUME BlameInv, NEW s \in Shards, Abort(s)
  PROVE  \A t \in Shards : Blamed(t)'
<1> DEFINE n == next[s]
           a == at[s]
           O == out[s]
           P == pipe[s]
<1>1. /\ Inv /\ Process(s) /\ Blamed(s) /\ child[s] = "running" /\ died' = died \cup {a}
      /\ UNCHANGED <<worker, next, results, buffer, at, pipe, noise, outcome>>
  BY DEF BlameInv, LinesInv, Lines, Abort, Alive, parentVars
<1>2. /\ child'[s] = "aborted" /\ out'[s] = <<>>
      /\ \A t \in Shards \ {s} : child'[t] = child[t] /\ out'[t] = out[t]
  BY <1>1 DEF Abort, Inv, TypeOK
<1>3. /\ n \in Nat /\ a \in Nat /\ ShardOf(a) = s /\ P \in Seq(Token) /\ O \in Seq(Token)
      /\ Standing(s, n, results) /\ results \in Table
  BY <1>1, ShardTypes
<1>4. Stream(s) = P \o O /\ Stream(s)' = P
  BY <1>1, <1>2, <1>3 DEF Stream
<1>5. n <= a
  BY <1>1 DEF Process, Ahead, n, a
<1> HIDE DEF n, a, O, P
<1>6. Whole(s)'
  BY <1>1, <1>2 DEF Whole, a
<1>7. ASSUME Faultless(s)'
      PROVE  Exact(s)'
  <2>1. Exact(s)
    <3>1. Faultless(s)
      BY <1>1, <1>7 DEF Faultless
    <3> QED
      BY <1>1, <3>1 DEF Blamed
  <2>2. ASSUME worker[s] # "closed"
        PROVE  Complete(s, n, results, a, <<>>, buffer[s], outcome, P)
    <3>1. Complete(s, n, results, a, O, buffer[s], outcome, P \o O)
      BY <1>4, <2>1, <2>2 DEF Exact, n, a, O
    <3>2. CASE O = <<>>
      <4>1. P \o O = P
        BY <1>3, <3>2
      <4> QED
        BY <3>1, <3>2, <4>1
    <3>3. CASE O # <<>>
      <4>1. a < NumCases /\ (ResultCount[a] = 1 => Len(O) = 2)
        BY <1>1, <3>3 DEF Blamed, Whole, a, O
      <4>2. a \in Cases
        BY <1>3, <4>1, PositionIsCase
      <4>3. ResultCount[a] = 1
        BY <1>1, <1>3, <1>7, <4>2 DEF Faultless
      <4>4. n \in Cases => results[n] \in Seq(Row)
        BY <1>3 DEF Table
      <4> QED
        BY <1>3, <3>1, <4>1, <4>2, <4>3, <4>4, CompleteLost
    <3> QED
      BY <3>2, <3>3
  <2>3. ASSUME NEW p \in Cases, ShardOf(p) = s
        PROVE  IF p < n THEN results[p] = Crashed <=> p \in died'
                        ELSE p \in died' => p = a
    <3>1. p \in Nat
      BY PoolAssumption DEF Cases
    <3>2. CASE p < n
      <4>1. p # a
        BY <1>3, <1>5, <3>1, <3>2
      <4> QED
        BY <1>1, <2>1, <2>3, <3>2, <4>1 DEF Exact, n
    <3>3. CASE ~ (p < n)
      <4>1. p \notin died
        BY <1>1, <2>1, <2>3, <3>3 DEF Exact, n
      <4> QED
        BY <1>1, <3>3, <4>1
    <3> QED
      BY <3>2, <3>3
  <2> QED
    BY <1>1, <1>2, <1>4, <2>2, <2>3 DEF Exact, n, a
<1>8. ASSUME NEW t \in Shards \ {s}
      PROVE  Blamed(t)'
  <2>1. died \subseteq died' /\ \A p \in Cases : ShardOf(p) = t /\ p \in died' => p \in died
    BY <1>1, <1>3
  <2> QED
    BY <1>1, <1>2, <2>1, BlamedStays DEF BlameInv
<1> QED
  BY <1>6, <1>7, <1>8 DEF Blamed

LEMMA BlamedNext ==
  ASSUME BlameInv, [Next]_vars
  PROVE  BlameInv'
<1>1. LinesInv /\ LinesInv' /\ Inv /\ \A t \in Shards : Blamed(t)
  BY LinesNext DEF BlameInv, LinesInv
<1>2. ASSUME NEW s \in Shards, Parent(s) \/ Child(s) \/ Noise(s) \/ Abort(s)
      PROVE  \A t \in Shards : Blamed(t)'
  BY <1>2, SpawnBlamed, ReadFragmentBlamed, ReadLineBlamed, FinishWorkerBlamed,
     RunCaseBlamed, EmitBlamed, ExitBlamed, NoiseBlamed, AbortBlamed DEF Parent, Child
<1>3. ASSUME UNCHANGED <<worker, next, results, buffer, child, at, out, pipe, noise, outcome, died>>
      PROVE  \A t \in Shards : Blamed(t)'
  BY <1>1, <1>3, BlamedStays
<1>4. CASE Merge
  <2>1. results' = results
    BY <1>1, <1>4, AllSettledAtMerge DEF Merge, Inv, TypeOK
  <2> QED
    BY <1>1, <1>3, <1>4, <2>1 DEF Merge, childVars, BlameInv
<1>5. CASE ParentThrows
  BY <1>1, <1>3, <1>5 DEF ParentThrows, childVars, BlameInv
<1>6. CASE UNCHANGED vars
  BY <1>1, <1>3, <1>6 DEF vars, parentVars, childVars, BlameInv
<1> QED
  BY <1>1, <1>2, <1>4, <1>5, <1>6 DEF Next, Finished, BlameInv

(* Without foreign output, and where nobody died in a case of several      *)
(* rows, "the first unreported case" is the case the process died in: the  *)
(* settled cases with a crash verdict are exactly the ones a process died  *)
(* in, whatever the respawns, the order of the pipes and the lines lost.   *)
THEOREM BlameExact == Spec => []BlameIsExact
<1>1. Init => BlameInv
  BY BlamedInit
<1>2. BlameInv /\ [Next]_vars => BlameInv'
  BY BlamedNext
<1>3. BlameInv => BlameIsExact
  <2> SUFFICES ASSUME BlameInv, noise = 0, NEW p \in Cases, Settled(p),
                      \A q \in died \cap Cases : ShardOf(q) = ShardOf(p) => ResultCount[q] = 1
               PROVE  results[p] = Crashed <=> p \in died
    BY DEF BlameIsExact
  <2>1. ShardOf(p) \in Shards /\ Faultless(ShardOf(p))
    BY ShardOfCase DEF Faultless
  <2>2. Exact(ShardOf(p))
    BY <2>1 DEF BlameInv, Blamed
  <2> QED
    BY <2>2 DEF Exact, Settled
<1> QED
  BY <1>1, <1>2, <1>3, PTL DEF Spec
=============================================================================
