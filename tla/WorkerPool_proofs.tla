------------------------- MODULE WorkerPool_proofs -------------------------
(* Theorems about WorkerPool, for every number of cases, shards and rows. *)
EXTENDS WorkerPool, SequenceTheorems, TLAPS

-----------------------------------------------------------------------------
(* Arithmetic of the round-robin: positions of a shard are Workers apart.  *)

LEMMA ModRange ==
  ASSUME NEW n \in Nat, NEW W \in Nat \ {0}
  PROVE  n % W \in 0 .. W - 1
BY Z3

LEMMA DivMod ==
  ASSUME NEW n \in Nat, NEW W \in Nat \ {0}
  PROVE  n \div W \in Nat /\ n = W * (n \div W) + (n % W)
BY Z3

LEMMA MultiplesApart ==
  ASSUME NEW W \in Nat \ {0}, NEW a \in Nat, NEW b \in Nat, a < b,
         NEW r \in Int, NEW q \in Int, r < W, 0 <= q
  PROVE  W * a + r < W * b + q
<1>1. PICK d \in Nat : b = a + 1 + d
  BY b - a - 1 \in Nat, b = a + 1 + (b - a - 1)
<1>2. W * b = W * a + W + W * d /\ W * d >= 0
  BY <1>1, Z3
<1> QED
  BY <1>2

(* The next position of a shard belongs to the same shard. *)
LEMMA ModStep ==
  ASSUME NEW n \in Nat, NEW W \in Nat \ {0}
  PROVE  (n + W) % W = n % W
<1> DEFINE a == n \div W
           b == (n + W) \div W
<1>1. a \in Nat /\ b \in Nat /\ n = W * a + (n % W) /\ n + W = W * b + ((n + W) % W)
  BY DivMod, n + W \in Nat
<1>2. n % W \in 0 .. W - 1 /\ (n + W) % W \in 0 .. W - 1
  BY ModRange, n + W \in Nat
<1>3. n + W = W * (a + 1) + (n % W)
  BY <1>1, Z3
<1> HIDE DEF a, b
<1>4. ~ (a + 1 < b)
  BY <1>1, <1>2, <1>3, MultiplesApart
<1>5. ~ (b < a + 1)
  BY <1>1, <1>2, <1>3, MultiplesApart
<1>6. b = a + 1
  BY <1>1, <1>4, <1>5
<1> QED
  BY <1>1, <1>2, <1>3, <1>6

(* No position of the shard lies between. *)
LEMMA ModGap ==
  ASSUME NEW n \in Nat, NEW m \in Nat, NEW W \in Nat \ {0},
         n % W = m % W, n < m
  PROVE  n + W <= m
<1> DEFINE a == n \div W
           b == m \div W
<1>1. a \in Nat /\ b \in Nat /\ n = W * a + (n % W) /\ m = W * b + (n % W)
  BY DivMod
<1>2. n % W \in 0 .. W - 1
  BY ModRange
<1> HIDE DEF a, b
<1>3. a < b
  <2>1. ~ (b < a)
    BY <1>1, <1>2, MultiplesApart
  <2> QED
    BY <2>1, <1>1, <1>2
<1>4. W * b >= W * a + W
  BY <1>1, <1>3, Z3
<1> QED
  BY <1>1, <1>2, <1>4

LEMMA ModSmall ==
  ASSUME NEW n \in Nat, NEW W \in Nat \ {0}, n < W
  PROVE  n % W = n
BY Z3

-----------------------------------------------------------------------------
(* The parent's bookkeeping on one shard.  n and res stand for             *)
(* positions[next] and resultsByCase between the calls of one handler.     *)

Table == [Cases -> Seq(Row)]

(* The shape LedgerShape demands, of one shard. *)
ShardShape(s, n, res) ==
  \A p \in Cases : ShardOf(p) = s =>
    IF p < n
    THEN res[p] = Crashed \/ FullRows(p, res[p])
    ELSE PartRows(p, res[p]) /\ (p # n => res[p] = <<>>)

(* (n, res) is a possible position and table of shard s. *)
Standing(s, n, res) ==
  n \in Nat /\ ShardOf(n) = s /\ res \in Table /\ ShardShape(s, n, res)

(* From (n, res) shard s may come to (m, new): forward, without touching   *)
(* what is settled or what is another shard's.                             *)
Move(s, n, res, m, new) ==
  /\ Standing(s, m, new)
  /\ n <= m
  /\ \A p \in Cases : ShardOf(p) # s \/ p < n => new[p] = res[p]

LEMMA PositionIsCase ==
  ASSUME NEW n \in Nat, n < NumCases
  PROVE  n \in Cases
BY PoolAssumption DEF Cases

LEMMA NextInShard ==
  ASSUME NEW s \in Shards, NEW n \in Nat, ShardOf(n) = s
  PROVE  n + Workers \in Nat /\ ShardOf(n + Workers) = s
<1>1. Workers \in Nat \ {0} /\ n + Workers \in Nat
  BY PoolAssumption
<1>2. (n + Workers) % Workers = n % Workers
  BY <1>1, ModStep
<1> QED
  BY <1>1, <1>2 DEF ShardOf

(* Deciding the first open case, with rows of its own or a crash. *)
LEMMA SettleFirst ==
  ASSUME NEW s \in Shards, NEW n, NEW res, Standing(s, n, res), n < NumCases,
         NEW rows \in Seq(Row), rows = Crashed \/ FullRows(n, rows)
  PROVE  Move(s, n, res, n + Workers, [res EXCEPT ![n] = rows])
<1> DEFINE new == [res EXCEPT ![n] = rows]
<1>1. n \in Cases /\ n \in Nat /\ ShardOf(n) = s /\ res \in Table /\ ShardShape(s, n, res)
  BY PositionIsCase DEF Standing
<1>2. n + Workers \in Nat /\ ShardOf(n + Workers) = s
  BY <1>1, NextInShard
<1>3. new \in Table
  BY <1>1 DEF Table
<1>4. ShardShape(s, n + Workers, new)
  <2> SUFFICES ASSUME NEW p \in Cases, ShardOf(p) = s
               PROVE  IF p < n + Workers
                      THEN new[p] = Crashed \/ FullRows(p, new[p])
                      ELSE PartRows(p, new[p]) /\ (p # n + Workers => new[p] = <<>>)
    BY DEF ShardShape
  <2>1. p \in Nat
    BY PoolAssumption DEF Cases
  <2>2. CASE p = n
    BY <2>2, <1>1, PoolAssumption DEF Table
  <2>3. CASE p < n
    BY <2>3, <2>1, <1>1, PoolAssumption DEF Table, ShardShape
  <2>4. CASE n < p
    <3>1. n + Workers <= p
      BY <2>4, <2>1, <1>1, ModGap, PoolAssumption DEF ShardOf
    <3>2. new[p] = res[p] /\ PartRows(p, res[p]) /\ res[p] = <<>>
      BY <2>4, <2>1, <1>1 DEF Table, ShardShape
    <3> QED
      BY <3>1, <3>2, <2>1, <1>2
  <2> QED
    BY <2>1, <2>2, <2>3, <2>4, <1>1
<1>5. \A p \in Cases : ShardOf(p) # s \/ p < n => new[p] = res[p]
  BY <1>1 DEF Table
<1> QED
  BY <1>1, <1>2, <1>3, <1>4, <1>5, PoolAssumption DEF Move, Standing

(* A row for the first open case that leaves it open. *)
LEMMA GrowFirst ==
  ASSUME NEW s \in Shards, NEW n, NEW res, Standing(s, n, res), n < NumCases,
         NEW rows \in Seq(Row), PartRows(n, rows)
  PROVE  Move(s, n, res, n, [res EXCEPT ![n] = rows])
<1> DEFINE new == [res EXCEPT ![n] = rows]
<1>1. n \in Cases /\ n \in Nat /\ ShardOf(n) = s /\ res \in Table /\ ShardShape(s, n, res)
  BY PositionIsCase DEF Standing
<1>2. new \in Table
  BY <1>1 DEF Table
<1>3. ShardShape(s, n, new)
  BY <1>1 DEF Table, ShardShape
<1>4. \A p \in Cases : ShardOf(p) # s \/ p < n => new[p] = res[p]
  BY <1>1 DEF Table
<1> QED
  BY <1>1, <1>2, <1>3, <1>4 DEF Move, Standing

(* recordWorkerLine moves its shard forward, whatever line it is given. *)
LEMMA RecordLineMoves ==
  ASSUME NEW s \in Shards, NEW n, NEW res, Standing(s, n, res),
         NEW query, NEW status \in Outcomes
  PROVE  LET rec == RecordLine(query, status, n, res)
         IN  Move(s, n, res, rec.next, rec.results)
<1> DEFINE rec == RecordLine(query, status, n, res)
<1>0. n \in Nat /\ NumCases \in Nat
  BY PoolAssumption DEF Standing
<1> SUFFICES Move(s, n, res, rec.next, rec.results)
  OBVIOUS
<1>1. CASE n >= NumCases
  <2>1. rec.next = n /\ rec.results = res
    BY <1>1 DEF RecordLine
  <2> HIDE DEF rec
  <2> QED
    BY <2>1, <1>0 DEF Move, Standing
<1>2. CASE n < NumCases /\ query # n
  <2>1. Crashed \in Seq(Row)
    BY DEF Crashed, Row
  <2>2. rec.next = n + Workers /\ rec.results = [res EXCEPT ![n] = Crashed]
    BY <1>0, <1>2 DEF RecordLine
  <2> HIDE DEF rec
  <2>3. Move(s, n, res, n + Workers, [res EXCEPT ![n] = Crashed])
    BY <1>2, <2>1, SettleFirst
  <2> QED
    BY <2>2, <2>3
<1>3. CASE n < NumCases /\ query = n
  <2> DEFINE rows == Append(res[n], status)
             more == [res EXCEPT ![n] = rows]
  <2>1. n \in Cases /\ n < NumCases
    BY <1>0, <1>3, PositionIsCase
  <2>2. res[n] \in Seq(Outcomes) /\ Len(res[n]) < ResultCount[n]
    BY <1>0, <2>1 DEF Standing, ShardShape, PartRows
  <2>3. rows \in Seq(Outcomes) /\ rows \in Seq(Row) /\ Len(rows) = Len(res[n]) + 1 /\ Len(res[n]) \in Nat
    BY <2>2 DEF Row
  <2>4. more[n] = rows
    BY <2>1 DEF Standing, Table
  <2>5. rec.results = more /\ rec.next = IF Len(rows) >= ResultCount[n] THEN n + Workers ELSE n
    BY <1>0, <1>3, <2>1, <2>4 DEF RecordLine, Advanced
  <2>6. ResultCount[n] \in Nat \ {0}
    BY <2>1, PoolAssumption
  <2> HIDE DEF rows, rec
  <2>7. CASE Len(rows) >= ResultCount[n]
    <3>1. FullRows(n, rows)
      BY <2>2, <2>3, <2>6, <2>7 DEF FullRows
    <3>2. rec.next = n + Workers
      BY <2>5, <2>7
    <3> QED
      BY <3>1, <3>2, <2>1, <2>3, <2>5, SettleFirst
  <2>8. CASE ~ (Len(rows) >= ResultCount[n])
    <3>1. PartRows(n, rows)
      BY <2>2, <2>3, <2>6, <2>8 DEF PartRows
    <3>2. rec.next = n
      BY <2>5, <2>8
    <3> QED
      BY <3>1, <3>2, <2>1, <2>3, <2>5, GrowFirst
  <2> QED
    BY <2>7, <2>8
<1> QED
  BY <1>0, <1>1, <1>2, <1>3

-----------------------------------------------------------------------------
(* The parent's two handlers that change the table.                        *)

Inv == TypeOK /\ LedgerShape

(* A step of the parent that moves shard s and no other. *)
ShardMoves(s) ==
  \E m, new : /\ Move(s, next[s], results, m, new)
              /\ next' = [next EXCEPT ![s] = m]
              /\ results' = new

LEMMA InvStanding ==
  ASSUME Inv, NEW s \in Shards
  PROVE  Standing(s, next[s], results)
<1>1. next[s] \in Nat /\ ShardOf(next[s]) = s /\ results \in Table
  BY DEF Inv, TypeOK, Table
<1>2. ShardShape(s, next[s], results)
  BY DEF Inv, LedgerShape, ShardShape, Settled
<1> QED
  BY <1>1, <1>2 DEF Standing

LEMMA MoveStays ==
  ASSUME NEW s, NEW n, NEW res, Standing(s, n, res)
  PROVE  Move(s, n, res, n, res)
BY DEF Move, Standing

LEMMA MoveTwice ==
  ASSUME NEW s, NEW n, NEW res, NEW m, NEW mid, NEW k, NEW new, n \in Nat,
         Move(s, n, res, m, mid), Move(s, m, mid, k, new)
  PROVE  Move(s, n, res, k, new)
<1>1. m \in Nat /\ k \in Nat /\ n <= m /\ m <= k
  BY DEF Move, Standing
<1>2. \A p \in Cases : p \in Nat
  BY PoolAssumption DEF Cases
<1>3. ASSUME NEW p \in Cases, ShardOf(p) # s \/ p < n
      PROVE  new[p] = res[p]
  <2>1. ShardOf(p) # s \/ p < m
    BY <1>1, <1>2, <1>3
  <2> QED
    BY <2>1, <1>3 DEF Move
<1> QED
  BY <1>1, <1>3 DEF Move

LEMMA ReadLineMoves ==
  ASSUME Inv, NEW s \in Shards, ReadLine(s)
  PROVE  ShardMoves(s)
<1>1. Standing(s, next[s], results)
  BY InvStanding
<1>2. CASE buffer[s] = Junk
  <2>1. next' = [next EXCEPT ![s] = next[s]] /\ results' = results
    BY <1>2 DEF ReadLine
  <2> QED
    BY <1>1, <2>1, MoveStays DEF ShardMoves
<1>3. CASE buffer[s] # Junk
  <2> DEFINE line == Head(pipe[s])
             rec  == RecordLine(line.case, line.status, next[s], results)
  <2>1. next' = [next EXCEPT ![s] = rec.next] /\ results' = rec.results
    BY <1>3 DEF ReadLine
  <2>2. line.status \in Outcomes
    <3>1. pipe[s] \in Seq(Token) /\ pipe[s] # <<>> /\ line.half = "hi"
      BY DEF Inv, TypeOK, ReadLine
    <3>2. line \in Token
      BY <3>1
    <3> QED
      BY <3>1, <3>2 DEF Token, Junk
  <2> HIDE DEF line
  <2>3. Move(s, next[s], results, rec.next, rec.results)
    BY <1>1, <2>2, RecordLineMoves
  <2> HIDE DEF rec
  <2> QED
    BY <2>1, <2>3 DEF ShardMoves
<1> QED
  BY <1>2, <1>3

(* Nothing is recorded at or ahead of `next`, so finishWorker's call of    *)
(* advanceCompletedWorkerCases never advances.                             *)
LEMMA NothingToAdvance ==
  ASSUME NEW s \in Shards, NEW n, NEW res, Standing(s, n, res)
  PROVE  Advanced(n, res) = n
<1>1. n \in Nat /\ ShardOf(n) = s /\ ShardShape(s, n, res)
  BY DEF Standing
<1>2. CASE n < NumCases
  <2>1. n \in Cases
    BY <1>1, <1>2, PositionIsCase
  <2>2. PartRows(n, res[n])
    BY <1>1, <2>1 DEF ShardShape
  <2>3. Len(res[n]) \in Nat /\ ResultCount[n] \in Nat /\ Len(res[n]) < ResultCount[n]
    BY <2>1, <2>2, PoolAssumption DEF PartRows
  <2> QED
    BY <2>3 DEF Advanced
<1> QED
  BY <1>2 DEF Advanced

LEMMA AtEofMoves ==
  ASSUME Inv, NEW s \in Shards
  PROVE  Move(s, next[s], results, AtEof(s).next, AtEof(s).results)
<1> DEFINE rec == IF buffer[s].half = "lo"
                  THEN RecordLine(TornQuery, "pass", next[s], results)
                  ELSE [next |-> next[s], results |-> results]
<1>1. Standing(s, next[s], results)
  BY InvStanding
<1>2. Move(s, next[s], results, rec.next, rec.results)
  <2>1. CASE buffer[s].half = "lo"
    <3>1. "pass" \in Outcomes
      BY DEF Outcomes
    <3>2. LET r == RecordLine(TornQuery, "pass", next[s], results)
          IN  Move(s, next[s], results, r.next, r.results)
      BY <1>1, <3>1, RecordLineMoves
    <3> QED
      BY <2>1, <3>2
  <2>2. CASE buffer[s].half # "lo"
    <3>1. rec.next = next[s] /\ rec.results = results
      BY <2>2
    <3> HIDE DEF rec
    <3> QED
      BY <1>1, <3>1, MoveStays
  <2> QED
    BY <2>1, <2>2
<1>3. Advanced(rec.next, rec.results) = rec.next
  <2> HIDE DEF rec
  <2>1. Standing(s, rec.next, rec.results)
    BY <1>2 DEF Move
  <2> QED
    BY <2>1, NothingToAdvance
<1>4. rec = [next |-> rec.next, results |-> rec.results]
  BY DEF RecordLine
<1>5. AtEof(s) = [rec EXCEPT !.next = Advanced(rec.next, rec.results)]
  BY DEF AtEof
<1> HIDE DEF rec
<1>6. AtEof(s).next = rec.next /\ AtEof(s).results = rec.results
  BY <1>3, <1>4, <1>5
<1> QED
  BY <1>2, <1>6

(* What finishWorker leaves: the shard moved, and if it respawns, then at  *)
(* the new position.                                                       *)
LEMMA FinishWorkerMoves ==
  ASSUME Inv, NEW s \in Shards, FinishWorker(s)
  PROVE  /\ ShardMoves(s)
         /\ at' = at \/ at' = [at EXCEPT ![s] = next'[s]]
         /\ worker' = worker \/ (worker' = [worker EXCEPT ![s] = "closed"] /\ next'[s] >= NumCases)
<1> DEFINE eof == AtEof(s)
           blame == eof.next < NumCases
           resume == IF blame THEN eof.next + Workers ELSE eof.next
           table == IF blame THEN [eof.results EXCEPT ![eof.next] = Crashed] ELSE eof.results
<1>1. next' = [next EXCEPT ![s] = resume] /\ results' = table
  BY DEF FinishWorker, AfterBlame
<1>2. at' = at \/ at' = [at EXCEPT ![s] = resume]
  BY DEF FinishWorker, AfterBlame, ShardFrom
<1>7. worker' = worker \/ (worker' = [worker EXCEPT ![s] = "closed"] /\ ~ (resume < NumCases))
  BY DEF FinishWorker, AfterBlame
<1>3. Move(s, next[s], results, eof.next, eof.results)
  BY AtEofMoves
<1>4. next \in [Shards -> Nat] /\ next[s] \in Nat
  BY DEF Inv, TypeOK
<1> HIDE DEF eof
<1>5. Move(s, next[s], results, resume, table)
  <2>1. CASE blame
    <3>1. Crashed \in Seq(Row)
      BY DEF Crashed, Row
    <3>2. Standing(s, eof.next, eof.results)
      BY <1>3 DEF Move
    <3>3. Move(s, eof.next, eof.results, eof.next + Workers, [eof.results EXCEPT ![eof.next] = Crashed])
      BY <2>1, <3>1, <3>2, SettleFirst
    <3>4. resume = eof.next + Workers /\ table = [eof.results EXCEPT ![eof.next] = Crashed]
      BY <2>1
    <3> QED
      BY <1>3, <1>4, <3>3, <3>4, MoveTwice
  <2>2. CASE ~ blame
    BY <1>3, <2>2
  <2> QED
    BY <2>1, <2>2
<1>8. resume \in Nat
  BY <1>5 DEF Move, Standing
<1> HIDE DEF resume, table
<1>6. next'[s] = resume
  BY <1>1, <1>4
<1>9. ShardMoves(s)
  BY <1>1, <1>5 DEF ShardMoves
<1> QED
  BY <1>2, <1>6, <1>7, <1>8, <1>9, PoolAssumption

(* A move of one shard keeps the shape of the whole table. *)
LEMMA ShardMovesShape ==
  ASSUME Inv, NEW s \in Shards, ShardMoves(s)
  PROVE  /\ next' \in [Shards -> Nat] /\ \A t \in Shards : ShardOf(next'[t]) = t
         /\ results' \in Table
         /\ \A t \in Shards : next[t] <= next'[t]
         /\ \A p \in Cases :
              IF Settled(p)'
              THEN results'[p] = Crashed \/ FullRows(p, results'[p])
              ELSE PartRows(p, results'[p]) /\ (p # next'[ShardOf(p)] => results'[p] = <<>>)
         /\ \A p \in Cases : Settled(p) => Settled(p)' /\ results'[p] = results[p]
<1>1. PICK m, new : /\ Move(s, next[s], results, m, new)
                    /\ next' = [next EXCEPT ![s] = m]
                    /\ results' = new
  BY DEF ShardMoves
<1>2. m \in Nat /\ ShardOf(m) = s /\ new \in Table /\ ShardShape(s, m, new) /\ next[s] <= m
  BY <1>1 DEF Move, Standing
<1>3. next \in [Shards -> Nat] /\ \A t \in Shards : ShardOf(next[t]) = t
  BY DEF Inv, TypeOK
<1>4. next'[s] = m /\ \A t \in Shards \ {s} : next'[t] = next[t]
  BY <1>1, <1>3
<1>5. next' \in [Shards -> Nat] /\ \A t \in Shards : ShardOf(next'[t]) = t
  BY <1>1, <1>2, <1>3, <1>4
<1>6. \A t \in Shards : next[t] <= next'[t]
  BY <1>2, <1>3, <1>4
<1>7. ASSUME NEW p \in Cases
      PROVE  /\ IF Settled(p)'
                THEN results'[p] = Crashed \/ FullRows(p, results'[p])
                ELSE PartRows(p, results'[p]) /\ (p # next'[ShardOf(p)] => results'[p] = <<>>)
             /\ Settled(p) => Settled(p)' /\ results'[p] = results[p]
  <2>1. ShardOf(p) \in Shards /\ p \in Nat
    BY PoolAssumption, ModRange DEF Cases, Shards, ShardOf
  <2>2. Settled(p)' <=> p < next'[ShardOf(p)]
    BY DEF Settled
  <2>3. CASE ShardOf(p) = s
    <3>1. IF p < m THEN results'[p] = Crashed \/ FullRows(p, results'[p])
                   ELSE PartRows(p, results'[p]) /\ (p # m => results'[p] = <<>>)
      BY <1>1, <1>2, <2>3 DEF ShardShape
    <3>2. Settled(p) => p < next[s] /\ p < m
      BY <1>2, <1>3, <2>1, <2>3 DEF Settled
    <3>3. Settled(p) => results'[p] = results[p]
      BY <1>1, <3>2 DEF Move
    <3> QED
      BY <1>4, <2>2, <2>3, <3>1, <3>2, <3>3
  <2>4. CASE ShardOf(p) # s
    <3>1. next'[ShardOf(p)] = next[ShardOf(p)] /\ results'[p] = results[p]
      BY <1>1, <1>4, <2>1, <2>4 DEF Move
    <3> QED
      BY <2>2, <3>1 DEF Inv, LedgerShape, Settled
  <2> QED
    BY <2>3, <2>4
<1> QED
  BY <1>1, <1>2, <1>5, <1>6, <1>7

-----------------------------------------------------------------------------
(* Types of what the workers write. *)

LEMMA RowLinesType ==
  ASSUME NEW p \in Cases, NEW rows \in Seq(Outcomes)
  PROVE  RowLines(p, rows) \in Seq(Token)
<1>1. Len(rows) \in Nat /\ 2 * Len(rows) \in Nat
  OBVIOUS
<1>2. ASSUME NEW i \in 1 .. 2 * Len(rows)
      PROVE  rows[(i + 1) \div 2] \in Outcomes
  <2>1. (i + 1) \div 2 \in 1 .. Len(rows)
    BY <1>1
  <2> QED
    BY <2>1
<1>3. \A st \in Outcomes : Lo(p, st) \in Token /\ Hi(p, st) \in Token
  BY DEF Lo, Hi, Token
<1>4. \A i \in 1 .. 2 * Len(rows) :
        (IF i % 2 = 1 THEN Lo(p, rows[(i + 1) \div 2]) ELSE Hi(p, rows[(i + 1) \div 2])) \in Token
  BY <1>2, <1>3
<1> QED
  BY <1>1, <1>4 DEF RowLines

(* At the merge every case is settled, so the fallback row is not needed. *)
LEMMA AllSettledAtMerge ==
  ASSUME Inv, WorkersGone
  PROVE  \A p \in Cases : Settled(p) /\ results[p] # <<>>
<1> SUFFICES ASSUME NEW p \in Cases
             PROVE  Settled(p) /\ results[p] # <<>>
  OBVIOUS
<1>1. p \in Nat /\ NumCases \in Nat /\ p < NumCases /\ Workers \in Nat \ {0}
  BY PoolAssumption DEF Cases
<1>2. ShardOf(p) \in Shards
  BY <1>1, ModRange DEF ShardOf, Shards
<1>3. ShardOf(p) <= p
  <2>1. CASE p < Workers
    BY <1>1, <2>1, ModSmall DEF ShardOf
  <2>2. CASE ~ (p < Workers)
    BY <1>1, <1>2, <2>2 DEF Shards
  <2> QED
    BY <2>1, <2>2
<1>4. ShardOf(p) \in NonEmptyShards
  BY <1>1, <1>2, <1>3 DEF NonEmptyShards, Shards
<1>5. next[ShardOf(p)] >= NumCases /\ next[ShardOf(p)] \in Nat
  BY <1>2, <1>4 DEF WorkersGone, Inv, LedgerShape, TypeOK
<1>6. Settled(p)
  BY <1>1, <1>5 DEF Settled
<1>7. results[p] = Crashed \/ FullRows(p, results[p])
  BY <1>6 DEF Inv, LedgerShape
<1>8. Crashed # <<>>
  BY DEF Crashed
<1>9. FullRows(p, results[p]) => results[p] # <<>>
  BY PoolAssumption DEF FullRows
<1> QED
  BY <1>6, <1>7, <1>8, <1>9

-----------------------------------------------------------------------------
(* The inductive invariant. *)

LEMMA InvInit == Init => Inv
<1> SUFFICES ASSUME Init PROVE Inv
  OBVIOUS
<1>1. Shards \subseteq Nat /\ Cases \subseteq Nat /\ NumCases \in Nat /\ MaxNoise \in Nat
  BY PoolAssumption DEF Shards, Cases
<1>2. \A s \in Shards : ShardOf(s) = s
  BY PoolAssumption, ModSmall DEF Shards, ShardOf
<1>3. TypeOK
  BY <1>1, <1>2 DEF Init, TypeOK, Line, Empty
<1>4. \A p \in Cases : ShardOf(p) \in Shards /\ next[ShardOf(p)] = ShardOf(p)
  BY PoolAssumption, ModRange DEF Cases, Shards, ShardOf, Init
<1>5. \A p \in Cases : ~ Settled(p)
  <2> SUFFICES ASSUME NEW p \in Cases PROVE ~ (p < ShardOf(p))
    BY <1>4 DEF Settled
  <2>1. CASE p < Workers
    BY <1>1, <2>1, ModSmall, PoolAssumption DEF ShardOf
  <2>2. CASE ~ (p < Workers)
    BY <1>1, <1>4, <2>2, PoolAssumption DEF Shards
  <2> QED
    BY <2>1, <2>2
<1>6. \A p \in Cases : PartRows(p, results[p]) /\ results[p] = <<>>
  BY PoolAssumption DEF Init, PartRows
<1>7. \A s \in Shards : worker[s] # "closed"
  BY DEF Init
<1>8. LedgerShape
  BY <1>5, <1>6, <1>7 DEF LedgerShape
<1> QED
  BY <1>3, <1>8 DEF Inv

(* Steps that leave the table, the positions and the list of closed        *)
(* workers alone keep the shape.                                           *)
LEMMA ShapeUndisturbed ==
  ASSUME Inv, UNCHANGED <<next, results>>,
         \A s \in Shards : worker'[s] = "closed" => worker[s] = "closed"
  PROVE  LedgerShape'
BY DEF Inv, LedgerShape, Settled

LEMMA InvNext ==
  ASSUME Inv, [Next]_vars
  PROVE  Inv'
<1> USE DEF Inv
<1>0. TypeOK /\ LedgerShape
  OBVIOUS
<1>1. ASSUME NEW s \in Shards, Spawn(s)
      PROVE  Inv'
  <2>1. TypeOK'
    BY <1>0, <1>1 DEF Spawn, TypeOK
  <2>2. \A t \in Shards : worker'[t] = "closed" => worker[t] = "closed"
    BY <1>0, <1>1 DEF Spawn, TypeOK
  <2> QED
    BY <1>1, <2>1, <2>2, ShapeUndisturbed DEF Spawn
<1>2. ASSUME NEW s \in Shards, ReadFragment(s)
      PROVE  Inv'
  <2>1. pipe[s] \in Seq(Token) /\ pipe[s] # <<>> /\ Head(pipe[s]).half \in {"lo", "junk"}
    BY <1>0, <1>2 DEF ReadFragment, TypeOK
  <2>2. Head(pipe[s]) \in Token /\ Tail(pipe[s]) \in Seq(Token)
    BY <2>1
  <2>3. Head(pipe[s]) \in Line /\ Junk \in Line
    BY <2>1, <2>2 DEF Token, Line, Junk
  <2> HIDE DEF Inv
  <2>4. buffer' \in [Shards -> Line] /\ pipe' \in [Shards -> Seq(Token)]
    BY <1>0, <1>2, <2>2, <2>3 DEF ReadFragment, TypeOK
  <2>5. TypeOK'
    BY <1>0, <1>2, <2>4 DEF ReadFragment, TypeOK, childVars
  <2>6. LedgerShape'
    BY <1>0, <1>2, ShapeUndisturbed DEF ReadFragment, Inv
  <2> QED
    BY <2>5, <2>6 DEF Inv
<1>3. ASSUME NEW s \in Shards, ReadLine(s)
      PROVE  Inv'
  <2>1. ShardMoves(s)
    BY <1>3, ReadLineMoves
  <2>2. Tail(pipe[s]) \in Seq(Token)
    BY <1>0, <1>3 DEF ReadLine, TypeOK
  <2>6. /\ next' \in [Shards -> Nat] /\ \A t \in Shards : ShardOf(next'[t]) = t
        /\ results' \in [Cases -> Seq(Row)]
    BY <2>1, ShardMovesShape DEF Table
  <2>7. /\ buffer' = [buffer EXCEPT ![s] = Empty] /\ pipe' = [pipe EXCEPT ![s] = Tail(@)]
        /\ UNCHANGED <<worker, exit, childVars>>
    BY <1>3 DEF ReadLine
  <2>8. buffer' \in [Shards -> Line] /\ pipe' \in [Shards -> Seq(Token)]
    BY <1>0, <2>2, <2>7 DEF TypeOK, Line
  <2>3. TypeOK'
    <3> HIDE DEF Inv
    <3> QED
      BY <1>0, <2>6, <2>7, <2>8 DEF TypeOK, childVars
  <2>4. \A t \in Shards : worker'[t] = "closed" => next'[t] >= NumCases
    <3>1. /\ worker' = worker
          /\ \A t \in Shards : next[t] \in Nat /\ next'[t] \in Nat /\ next[t] <= next'[t]
          /\ NumCases \in Nat
      BY <1>0, <2>1, <2>6, <2>7, ShardMovesShape, PoolAssumption DEF TypeOK
    <3>2. \A t \in Shards : worker[t] = "closed" => next[t] >= NumCases
      BY <1>0 DEF LedgerShape
    <3> HIDE DEF Inv
    <3> QED
      BY <3>1, <3>2
  <2>5. LedgerShape'
    BY <2>1, <2>4, ShardMovesShape DEF LedgerShape
  <2> QED
    BY <2>3, <2>5
<1>4. ASSUME NEW s \in Shards, FinishWorker(s)
      PROVE  Inv'
  <2>1. /\ ShardMoves(s)
        /\ at' = at \/ at' = [at EXCEPT ![s] = next'[s]]
        /\ worker' = worker \/ (worker' = [worker EXCEPT ![s] = "closed"] /\ next'[s] >= NumCases)
    BY <1>4, FinishWorkerMoves
  <2>2. /\ next' \in [Shards -> Nat] /\ \A t \in Shards : ShardOf(next'[t]) = t
        /\ results' \in Table
        /\ \A t \in Shards : next[t] <= next'[t]
    BY <2>1, ShardMovesShape
  <2>3. at' \in [Shards -> Nat] /\ \A t \in Shards : ShardOf(at'[t]) = t
    BY <1>0, <2>1, <2>2 DEF TypeOK
  <2>4. child' \in [Shards -> {"none", "running", "exited", "aborted"}]
    BY <1>0, <1>4 DEF FinishWorker, TypeOK
  <2>5. worker' \in [Shards -> {"unspawned", "open", "closed"}]
    BY <1>0, <2>1 DEF TypeOK
  <2>6. buffer' \in [Shards -> Line]
    BY <1>0, <1>4 DEF FinishWorker, TypeOK, Line
  <2>7. UNCHANGED <<exit, out, pipe, noise, outcome, died>>
    BY <1>4 DEF FinishWorker
  <2>8. TypeOK'
    BY <1>0, <2>2, <2>3, <2>4, <2>5, <2>6, <2>7 DEF TypeOK, Table
  <2>9. \A t \in Shards : worker'[t] = "closed" => next'[t] >= NumCases
    BY <1>0, <2>1, <2>2, PoolAssumption DEF LedgerShape, TypeOK
  <2>10. LedgerShape'
    BY <2>1, <2>9, ShardMovesShape DEF LedgerShape
  <2> QED
    BY <2>8, <2>10
<1>5. ASSUME NEW s \in Shards, RunCase(s)
      PROVE  Inv'
  <2>1. at[s] \in Cases
    BY <1>0, <1>5, PositionIsCase DEF RunCase, TypeOK
  <2>2. PICK rows \in [1 .. ResultCount[at[s]] -> Outcomes] :
          /\ outcome' = [outcome EXCEPT ![at[s]] = rows]
          /\ out' = [out EXCEPT ![s] = RowLines(at[s], rows)]
    BY <1>5 DEF RunCase
  <2>3. rows \in Seq(Outcomes)
    BY <2>1, PoolAssumption
  <2>4. RowLines(at[s], rows) \in Seq(Token)
    BY <2>1, <2>3, RowLinesType
  <2>5. outcome' \in [Cases -> Seq(Outcomes)] /\ out' \in [Shards -> Seq(Token)]
    BY <1>0, <2>2, <2>3, <2>4 DEF TypeOK
  <2>6. UNCHANGED <<parentVars, child, at, pipe, noise, died>>
    BY <1>5 DEF RunCase
  <2>7. TypeOK'
    BY <1>0, <2>5, <2>6 DEF TypeOK, parentVars
  <2>8. LedgerShape'
    BY <2>6, ShapeUndisturbed DEF parentVars
  <2> QED
    BY <2>7, <2>8
<1>6. ASSUME NEW s \in Shards, Emit(s)
      PROVE  Inv'
  <2>1. out[s] \in Seq(Token) /\ pipe[s] \in Seq(Token) /\ at[s] \in Nat /\ ShardOf(at[s]) = s
    BY <1>0 DEF TypeOK
  <2>2. PICK k \in 1 .. Len(out[s]) :
          /\ pipe' = [pipe EXCEPT ![s] = @ \o SubSeq(out[s], 1, k)]
          /\ out'  = [out EXCEPT ![s] = SubSeq(@, k + 1, Len(@))]
          /\ at'   = [at EXCEPT ![s] = IF k = Len(out[s]) THEN @ + Workers ELSE @]
    BY <1>6 DEF Emit
  <2>3. SubSeq(out[s], 1, k) \in Seq(Token) /\ SubSeq(out[s], k + 1, Len(out[s])) \in Seq(Token)
    BY <2>1
  <2>4. pipe[s] \o SubSeq(out[s], 1, k) \in Seq(Token)
    BY <2>1, <2>3
  <2>5. pipe' \in [Shards -> Seq(Token)] /\ out' \in [Shards -> Seq(Token)]
    BY <1>0, <2>2, <2>3, <2>4 DEF TypeOK
  <2>6. at[s] + Workers \in Nat /\ ShardOf(at[s] + Workers) = s
    BY <2>1, NextInShard
  <2>7. at' \in [Shards -> Nat] /\ \A t \in Shards : ShardOf(at'[t]) = t
    BY <1>0, <2>2, <2>6 DEF TypeOK
  <2>8. UNCHANGED <<parentVars, child, noise, outcome, died>>
    BY <1>6 DEF Emit
  <2>9. TypeOK'
    BY <1>0, <2>5, <2>7, <2>8 DEF TypeOK, parentVars
  <2>10. LedgerShape'
    BY <2>8, ShapeUndisturbed DEF parentVars
  <2> QED
    BY <2>9, <2>10
<1>7. ASSUME NEW s \in Shards, Noise(s)
      PROVE  Inv'
  <2>1. Append(pipe[s], Junk) \in Seq(Token)
    BY <1>0 DEF TypeOK, Token
  <2>2. pipe' \in [Shards -> Seq(Token)]
    BY <1>0, <1>7, <2>1 DEF Noise, TypeOK
  <2>3. noise' \in 0 .. MaxNoise
    BY <1>0, <1>7, PoolAssumption DEF Noise, TypeOK
  <2>4. TypeOK'
    BY <1>0, <1>7, <2>2, <2>3 DEF Noise, TypeOK, parentVars
  <2>5. LedgerShape'
    BY <1>7, ShapeUndisturbed DEF Noise, parentVars
  <2> QED
    BY <2>4, <2>5
<1>8. ASSUME NEW s \in Shards, Exit(s)
      PROVE  Inv'
  <2>1. TypeOK'
    BY <1>0, <1>8 DEF Exit, TypeOK, parentVars
  <2>2. LedgerShape'
    BY <1>8, ShapeUndisturbed DEF Exit, parentVars
  <2> QED
    BY <2>1, <2>2
<1>9. ASSUME NEW s \in Shards, Abort(s)
      PROVE  Inv'
  <2>1. <<>> \in Seq(Token)
    OBVIOUS
  <2>2. TypeOK'
    BY <1>0, <1>9, <2>1 DEF Abort, TypeOK, parentVars
  <2>3. LedgerShape'
    BY <1>9, ShapeUndisturbed DEF Abort, parentVars
  <2> QED
    BY <2>2, <2>3
<1>10. CASE Merge
  <2>1. \A p \in Cases : results[p] # <<>>
    BY <1>10, AllSettledAtMerge DEF Merge
  <2>2. results' = results
    BY <1>0, <1>10, <2>1 DEF Merge, TypeOK
  <2>3. TypeOK'
    BY <1>0, <1>10, <2>2 DEF Merge, RunStatus, TypeOK, childVars
  <2>4. LedgerShape'
    BY <1>10, <2>2, ShapeUndisturbed DEF Merge
  <2> QED
    BY <2>3, <2>4
<1>11. CASE ParentThrows
  <2>1. TypeOK'
    BY <1>0, <1>11 DEF ParentThrows, TypeOK, childVars
  <2>2. LedgerShape'
    BY <1>11, ShapeUndisturbed DEF ParentThrows
  <2> QED
    BY <2>1, <2>2
<1>12. CASE UNCHANGED vars
  <2>1. TypeOK'
    BY <1>0, <1>12 DEF vars, parentVars, childVars, TypeOK
  <2>2. LedgerShape'
    BY <1>12, ShapeUndisturbed DEF vars, parentVars
  <2> QED
    BY <2>1, <2>2
<1> QED
  BY <1>1, <1>2, <1>3, <1>4, <1>5, <1>6, <1>7, <1>8, <1>9, <1>10, <1>11, <1>12
     DEF Next, Parent, Child, Finished

(* In every run of the pool the variables keep their types, and the parent *)
(* and the workers keep to their shard's positions.                        *)
THEOREM PoolTypes == Spec => []TypeOK
<1>1. Init => Inv
  BY InvInit
<1>2. Inv /\ [Next]_vars => Inv'
  BY InvNext
<1>3. Inv => TypeOK
  BY DEF Inv
<1> QED
  BY <1>1, <1>2, <1>3, PTL DEF Spec

(* In every run, however workers die and whatever they write, the result   *)
(* table has the shape the bookkeeping relies on.                          *)
THEOREM TableShape == Spec => []LedgerShape
<1>1. Init => Inv
  BY InvInit
<1>2. Inv /\ [Next]_vars => Inv'
  BY InvNext
<1>3. Inv => LedgerShape
  BY DEF Inv
<1> QED
  BY <1>1, <1>2, <1>3, PTL DEF Spec

-----------------------------------------------------------------------------
(* The pool implements the ledger. *)

LEMMA ShardOfCase ==
  ASSUME NEW p \in Cases
  PROVE  ShardOf(p) \in Shards /\ p \in Nat
BY PoolAssumption, ModRange DEF Cases, Shards, ShardOf

(* A move settles cases and takes nothing back. *)
LEMMA MovesSettle ==
  ASSUME Inv, Inv', NEW s \in Shards, ShardMoves(s), exit = "running", exit' = exit
  PROVE  Ledger!Settle
<1>1. \A p \in Cases : Settled(p) => Settled(p)' /\ results'[p] = results[p]
  BY ShardMovesShape
<1>2. Shown' = [p \in Cases |-> IF Settled(p)' THEN results'[p] ELSE <<>>]
  BY DEF Shown
<1>3. Shown' \in [Cases -> (Seq(Row) \ {<<>>}) \cup {<<>>}]
  BY <1>2 DEF Inv, TypeOK
<1>4. \A p \in Cases : Shown[p] # <<>> => Shown'[p] = Shown[p]
  BY <1>1, <1>2 DEF Shown
<1> QED
  BY <1>3, <1>4 DEF Ledger!Settle

LEMMA ShownUndisturbed ==
  ASSUME UNCHANGED <<next, results>>
  PROVE  Shown' = Shown
BY DEF Shown, Settled

LEMMA InitShown == Init => Ledger!Init
<1> SUFFICES ASSUME Init PROVE Ledger!Init
  OBVIOUS
<1>1. \A p \in Cases : results[p] = <<>>
  BY DEF Init
<1>2. Shown = [p \in Cases |-> <<>>]
  BY <1>1 DEF Shown
<1> QED
  BY <1>2 DEF Ledger!Init, Init

(* The rows of a settled case are clean for the ledger when RunStatus      *)
(* finds nothing but passes in them.                                       *)
LEMMA CleanRows ==
  ASSUME NEW rows \in Seq(Row), rows # <<>>
  PROVE  (\A i \in DOMAIN rows : rows[i] = "pass") <=> rows \in Seq({"pass"}) \ {<<>>}
<1>1. (\A i \in DOMAIN rows : rows[i] = "pass") => rows \in Seq({"pass"})
  <2> SUFFICES ASSUME \A i \in DOMAIN rows : rows[i] = "pass" PROVE rows \in Seq({"pass"})
    OBVIOUS
  <2>1. DOMAIN rows = 1 .. Len(rows) /\ Len(rows) \in Nat /\ rows = [i \in 1 .. Len(rows) |-> rows[i]]
    OBVIOUS
  <2> QED
    BY <2>1
<1>2. rows \in Seq({"pass"}) => \A i \in DOMAIN rows : rows[i] = "pass"
  OBVIOUS
<1> QED
  BY <1>1, <1>2

LEMMA StepShown ==
  ASSUME Inv, Inv', [Next]_vars
  PROVE  [Ledger!Next]_(Ledger!ledger)
<1>1. ASSUME NEW s \in Shards, ReadLine(s)
      PROVE  Ledger!Next
  <2>1. ShardMoves(s)
    BY <1>1, ReadLineMoves
  <2>2. exit = "running" /\ exit' = exit
    BY <1>1 DEF ReadLine, Reading
  <2> QED
    BY <2>1, <2>2, MovesSettle DEF Ledger!Next
<1>2. ASSUME NEW s \in Shards, FinishWorker(s)
      PROVE  Ledger!Next
  <2>1. ShardMoves(s)
    BY <1>2, FinishWorkerMoves
  <2>2. exit = "running" /\ exit' = exit
    BY <1>2 DEF FinishWorker, Reading
  <2> QED
    BY <2>1, <2>2, MovesSettle DEF Ledger!Next
<1>3. CASE Merge
  <2>1. \A p \in Cases : Settled(p) /\ results[p] # <<>>
    BY <1>3, AllSettledAtMerge DEF Merge
  <2>2. results' = results /\ next' = next
    BY <1>3, <2>1 DEF Merge, Inv, TypeOK
  <2>3. Shown' = Shown
    BY <2>2, ShownUndisturbed
  <2>4. \A p \in Cases : Shown[p] = results[p] /\ results[p] \in Seq(Row) /\ results[p] # <<>>
    BY <2>1 DEF Shown, Inv, TypeOK
  <2>5. \A p \in Cases : (\A i \in DOMAIN results[p] : results[p][i] = "pass")
                         <=> Shown[p] \in Seq({"pass"}) \ {<<>>}
    BY <2>4, CleanRows
  <2>6. exit = "running" /\ exit' = RunStatus(results)
    BY <1>3, <2>2 DEF Merge
  <2>7. exit' = IF \A p \in Cases : Shown[p] \in Seq({"pass"}) \ {<<>>} THEN "success" ELSE "failure"
    BY <2>5, <2>6 DEF RunStatus
  <2>8. Ledger!Report
    BY <2>3, <2>4, <2>6, <2>7 DEF Ledger!Report
  <2> QED
    BY <2>8 DEF Ledger!Next
<1>4. CASE ParentThrows
  <2>1. Shown' = Shown
    BY <1>4, ShownUndisturbed DEF ParentThrows
  <2> QED
    BY <1>4, <2>1 DEF ParentThrows, Ledger!Fail, Ledger!Next
<1>5. ASSUME UNCHANGED <<next, results, exit>>
      PROVE  UNCHANGED Ledger!ledger
  BY <1>5, ShownUndisturbed DEF Ledger!ledger
<1>6. ASSUME NEW s \in Shards, Spawn(s) \/ ReadFragment(s) \/ RunCase(s) \/ Emit(s) \/ Exit(s) \/ Noise(s) \/ Abort(s)
      PROVE  UNCHANGED <<next, results, exit>>
  BY <1>6 DEF Spawn, ReadFragment, RunCase, Emit, Exit, Noise, Abort, parentVars
<1>7. CASE UNCHANGED vars
  BY <1>5, <1>7 DEF vars, parentVars
<1> QED
  BY <1>1, <1>2, <1>3, <1>4, <1>5, <1>6, <1>7 DEF Next, Parent, Child, Finished

(* For every number of cases, workers and rows: a run of the pool is a run *)
(* of the ledger.  A case gets one verdict, which no later line, crash or  *)
(* respawn takes back, and status 0 means every verdict is all passes.     *)
THEOREM PoolImplementsLedger == Spec => LedgerSpec
<1>1. Init => Inv /\ Ledger!Init
  BY InvInit, InitShown
<1>2. Inv /\ [Next]_vars => Inv'
  BY InvNext
<1>3. Inv /\ Inv' /\ [Next]_vars => [Ledger!Next]_(Ledger!ledger)
  BY StepShown
<1> QED
  BY <1>1, <1>2, <1>3, PTL DEF Spec, LedgerSpec, Ledger!Spec

-----------------------------------------------------------------------------
(* The verdicts: the rows a case ends with are rows its own run gave.      *)
(*                                                                         *)
(* The parent only compares queries and counts lines, so the argument is   *)
(* about what can still be in the pipe.  The lines on their way are        *)
(* numbered by the row they carry: the numbers exist (nobody stores them), *)
(* they never go back, and the parent's count of the case it is at either  *)
(* agrees with them or is behind for good, in which case the lines to come *)
(* are too few to fill the case.                                           *)

(* What shard s has written and the parent has not read. *)
Stream(s) == pipe[s] \o out[s]

(* The j-th token of T ends a line. *)
HiAt(T, j) == j \in 1 .. Len(T) /\ T[j].half = "hi"

(* The line ended by token j is row number row[j] of what running its case *)
(* gave; rows go up, then the case does.  No line is of a case before n.   *)
Numbered(s, n, oc, T, row) ==
  /\ \A j \in 1 .. Len(T) : HiAt(T, j) =>
       /\ T[j].case \in Cases /\ ShardOf(T[j].case) = s /\ n <= T[j].case
       /\ Len(oc[T[j].case]) = ResultCount[T[j].case]
       /\ row[j] \in 1 .. ResultCount[T[j].case]
       /\ T[j].status = oc[T[j].case][row[j]]
  /\ \A i, j \in 1 .. Len(T) : i < j /\ HiAt(T, i) /\ HiAt(T, j) =>
       T[i].case < T[j].case \/ (T[i].case = T[j].case /\ row[i] < row[j])

(* The rows recorded for case n, against what running it gave: they are    *)
(* its first rows and only later ones are still to come, or a line of it   *)
(* was lost, and the ones to come cannot fill it.                          *)
Tracked(n, rows, run, T, row) ==
  \/ /\ \A i \in 1 .. Len(rows) : rows[i] = run[i]
     /\ \A j \in 1 .. Len(T) : HiAt(T, j) /\ T[j].case = n => row[j] > Len(rows)
  \/ \A j \in 1 .. Len(T) : HiAt(T, j) /\ T[j].case = n => row[j] > Len(rows) + 1

Legible(s, n, res, oc, T) ==
  \E row \in [1 .. Len(T) -> Nat] :
    Numbered(s, n, oc, T, row) /\ (n < NumCases => Tracked(n, res[n], oc[n], T, row))

(* A running process is at case a, with o in its buffer: the parent is not *)
(* ahead of it and no line of a later case is on its way.                  *)
Ahead(n, res, a, o, T) ==
  /\ n <= a
  /\ \A j \in 1 .. Len(T) : HiAt(T, j) => T[j].case <= a
  /\ o = <<>> => /\ \A j \in 1 .. Len(T) : HiAt(T, j) => T[j].case < a
                 /\ a < NumCases => res[a] = <<>>
  /\ o # <<>> => a < NumCases /\ HiAt(T, Len(T)) /\ T[Len(T)].case = a

Untouched(s) ==
  /\ pipe[s] = <<>> /\ out[s] = <<>> /\ at[s] = s /\ next[s] = s
  /\ \A p \in Cases : ShardOf(p) = s => results[p] = <<>>

Process(s) ==
  /\ worker[s] = "unspawned" => child[s] = "none"
  /\ child[s] = "none" => Untouched(s)
  /\ child[s] # "running" => out[s] = <<>>
  /\ child[s] = "running" => Ahead(next[s], results, at[s], out[s], Stream(s))

Lines(s) == Process(s) /\ Legible(s, next[s], results, outcome, Stream(s))

LinesInv == Inv /\ VerdictsAreEarned /\ \A s \in Shards : Lines(s)

-----------------------------------------------------------------------------
(* Reading the first token. *)

LEMMA TailIndex ==
  ASSUME NEW T \in Seq(Token), T # <<>>
  PROVE  /\ Tail(T) \in Seq(Token) /\ Len(T) \in Nat /\ Len(T) >= 1
         /\ Len(Tail(T)) = Len(T) - 1
         /\ \A j \in 1 .. Len(Tail(T)) : j + 1 \in 1 .. Len(T) /\ Tail(T)[j] = T[j + 1]
         /\ \A j \in 1 .. Len(Tail(T)) : HiAt(Tail(T), j) <=> HiAt(T, j + 1)
<1>1. Tail(T) \in Seq(Token) /\ Len(T) \in Nat /\ Len(T) >= 1 /\ Len(Tail(T)) = Len(T) - 1
  OBVIOUS
<1>2. \A j \in 1 .. Len(Tail(T)) : j + 1 \in 1 .. Len(T) /\ Tail(T)[j] = T[j + 1]
  BY <1>1, HeadTailProperties
<1> QED
  BY <1>1, <1>2 DEF HiAt

(* The numbers of the tokens behind the first. *)
Rest(T, row) == [j \in 1 .. Len(Tail(T)) |-> row[j + 1]]

(* The numbers of the lines that are left, counted from any case m that    *)
(* none of them is before.                                                 *)
LEMMA DropFirst ==
  ASSUME NEW T \in Seq(Token), T # <<>>, NEW s, NEW n, NEW m, NEW oc,
         NEW row \in [1 .. Len(T) -> Nat], Numbered(s, n, oc, T, row),
         \A j \in 2 .. Len(T) : HiAt(T, j) => m <= T[j].case
  PROVE  /\ Rest(T, row) \in [1 .. Len(Tail(T)) -> Nat]
         /\ Numbered(s, m, oc, Tail(T), Rest(T, row))
<1> DEFINE U == Tail(T)
           rest == Rest(T, row)
<1>1. /\ Len(U) = Len(T) - 1 /\ Len(T) \in Nat
      /\ \A j \in 1 .. Len(U) : j + 1 \in 1 .. Len(T) /\ U[j] = T[j + 1] /\ (HiAt(U, j) <=> HiAt(T, j + 1))
  BY TailIndex
<1>2. rest \in [1 .. Len(U) -> Nat] /\ \A j \in 1 .. Len(U) : rest[j] = row[j + 1]
  BY <1>1 DEF Rest
<1> HIDE DEF U, rest
<1>3. ASSUME NEW j \in 1 .. Len(U), HiAt(U, j)
      PROVE  /\ U[j].case \in Cases /\ ShardOf(U[j].case) = s /\ m <= U[j].case
             /\ Len(oc[U[j].case]) = ResultCount[U[j].case]
             /\ rest[j] \in 1 .. ResultCount[U[j].case]
             /\ U[j].status = oc[U[j].case][rest[j]]
  <2>1. j + 1 \in 2 .. Len(T) /\ j + 1 \in 1 .. Len(T) /\ HiAt(T, j + 1)
    BY <1>1, <1>3
  <2>2. U[j] = T[j + 1] /\ rest[j] = row[j + 1]
    BY <1>1, <1>2
  <2>3. m <= T[j + 1].case
    BY <2>1
  <2>4. /\ T[j + 1].case \in Cases /\ ShardOf(T[j + 1].case) = s
        /\ Len(oc[T[j + 1].case]) = ResultCount[T[j + 1].case]
        /\ row[j + 1] \in 1 .. ResultCount[T[j + 1].case]
        /\ T[j + 1].status = oc[T[j + 1].case][row[j + 1]]
    BY <2>1 DEF Numbered
  <2> QED
    BY <2>2, <2>3, <2>4
<1>4. ASSUME NEW i \in 1 .. Len(U), NEW j \in 1 .. Len(U), i < j, HiAt(U, i), HiAt(U, j)
      PROVE  U[i].case < U[j].case \/ (U[i].case = U[j].case /\ rest[i] < rest[j])
  <2>1. i + 1 < j + 1 /\ i + 1 \in 1 .. Len(T) /\ j + 1 \in 1 .. Len(T) /\ HiAt(T, i + 1) /\ HiAt(T, j + 1)
    BY <1>1, <1>4
  <2>2. T[i + 1].case < T[j + 1].case \/ (T[i + 1].case = T[j + 1].case /\ row[i + 1] < row[j + 1])
    BY <2>1 DEF Numbered
  <2> QED
    BY <1>1, <1>2, <2>2
<1>5. Numbered(s, m, oc, U, rest)
  BY <1>3, <1>4 DEF Numbered
<1> QED
  BY <1>2, <1>5 DEF U, rest

(* A token that is read and ignored. *)
LEMMA SkipToken ==
  ASSUME NEW T \in Seq(Token), T # <<>>, NEW s, NEW n, NEW res, NEW oc, Legible(s, n, res, oc, T)
  PROVE  Legible(s, n, res, oc, Tail(T))
<1>1. PICK row \in [1 .. Len(T) -> Nat] :
        Numbered(s, n, oc, T, row) /\ (n < NumCases => Tracked(n, res[n], oc[n], T, row))
  BY DEF Legible
<1>2. \A j \in 2 .. Len(T) : HiAt(T, j) => n <= T[j].case
  BY <1>1 DEF Numbered, HiAt
<1> DEFINE U == Tail(T)
           rest == Rest(T, row)
<1>4. rest \in [1 .. Len(U) -> Nat] /\ Numbered(s, n, oc, U, rest)
  BY <1>1, <1>2, DropFirst
<1>5. /\ Len(U) = Len(T) - 1 /\ Len(T) \in Nat
      /\ \A j \in 1 .. Len(U) : j + 1 \in 1 .. Len(T) /\ U[j] = T[j + 1] /\ (HiAt(U, j) <=> HiAt(T, j + 1))
  BY TailIndex
<1>6. \A j \in 1 .. Len(U) : rest[j] = row[j + 1]
  BY DEF Rest
<1> HIDE DEF U, rest
<1>7. n < NumCases => Tracked(n, res[n], oc[n], U, rest)
  <2> SUFFICES ASSUME n < NumCases, Tracked(n, res[n], oc[n], T, row)
               PROVE  Tracked(n, res[n], oc[n], U, rest)
    BY <1>1
  <2>1. \A j \in 1 .. Len(U) : HiAt(U, j) /\ U[j].case = n => HiAt(T, j + 1) /\ T[j + 1].case = n
    BY <1>5
  <2> QED
    BY <1>5, <1>6, <2>1 DEF Tracked
<1>8. Legible(s, n, res, oc, U)
  BY <1>4, <1>7 DEF Legible
<1> QED
  BY <1>8 DEF U

(* Nothing is recorded of a case: whatever lines are to come, it is on     *)
(* track.                                                                  *)
LEMMA TrackedFresh ==
  ASSUME NEW s, NEW n, NEW oc, NEW T, NEW row, Numbered(s, n, oc, T, row), NEW run
  PROVE  Tracked(n, <<>>, run, T, row)
<1>1. \A j \in 1 .. Len(T) : HiAt(T, j) => row[j] > 0
  BY PoolAssumption DEF Numbered
<1> QED
  BY <1>1 DEF Tracked

(* The case the parent is at is decided, and no line of it is left. *)
LEMMA PastFirst ==
  ASSUME NEW s \in Shards, NEW n, NEW res, Standing(s, n, res), n < NumCases,
         NEW T \in Seq(Token), T # <<>>, NEW oc,
         NEW row \in [1 .. Len(T) -> Nat], Numbered(s, n, oc, T, row),
         \A j \in 2 .. Len(T) : HiAt(T, j) => n < T[j].case,
         NEW new, \A p \in Cases : p # n => new[p] = res[p]
  PROVE  Legible(s, n + Workers, new, oc, Tail(T))
<1> DEFINE m == n + Workers
<1>1. n \in Nat /\ ShardOf(n) = s /\ ShardShape(s, n, res) /\ Workers \in Nat \ {0} /\ NumCases \in Nat
  BY PoolAssumption DEF Standing
<1>2. m \in Nat /\ ShardOf(m) = s /\ n < m
  BY <1>1, NextInShard
<1>3. \A j \in 2 .. Len(T) : HiAt(T, j) => m <= T[j].case
  <2> SUFFICES ASSUME NEW j \in 2 .. Len(T), HiAt(T, j)
               PROVE  m <= T[j].case
    OBVIOUS
  <2>1. j \in 1 .. Len(T)
    BY DEF HiAt
  <2>2. T[j].case \in Cases /\ ShardOf(T[j].case) = s
    BY <2>1 DEF Numbered
  <2>3. T[j].case \in Nat /\ n < T[j].case
    BY <2>2, PoolAssumption DEF Cases
  <2> QED
    BY <1>1, <2>2, <2>3, ModGap DEF ShardOf
<1> HIDE DEF m
<1>4. Rest(T, row) \in [1 .. Len(Tail(T)) -> Nat] /\ Numbered(s, m, oc, Tail(T), Rest(T, row))
  BY <1>3, DropFirst
<1>5. m < NumCases => new[m] = <<>>
  <2> SUFFICES ASSUME m < NumCases PROVE new[m] = <<>>
    OBVIOUS
  <2>1. m \in Cases /\ m # n /\ ~ (m < n)
    BY <1>1, <1>2, PositionIsCase
  <2> QED
    BY <1>1, <1>2, <2>1 DEF ShardShape
<1>6. m < NumCases => Tracked(m, new[m], oc[m], Tail(T), Rest(T, row))
  BY <1>4, <1>5, TrackedFresh
<1>7. Legible(s, m, new, oc, Tail(T))
  BY <1>4, <1>6 DEF Legible
<1> QED
  BY <1>7 DEF m

(* What reading the line that T begins with makes of (n, res). *)
LineRead(s, n, res, oc, T, m, new) ==
  /\ Legible(s, m, new, oc, Tail(T))
  /\ \A p \in Cases : ShardOf(p) = s /\ n <= p /\ p < m => new[p] \in {Crashed, oc[p]}
  /\ \A p \in Cases : p # n => new[p] = res[p]
  /\ n <= T[1].case
  /\ m = n \/ (m = n + Workers /\ \A j \in 2 .. Len(T) : HiAt(T, j) => n < T[j].case)

(* The line is of a later case: its own were lost, and it is blamed. *)
LEMMA ReadLater ==
  ASSUME NEW s \in Shards, NEW n, NEW res, Standing(s, n, res), n < NumCases,
         NEW T \in Seq(Token), T # <<>>, NEW oc, Legible(s, n, res, oc, T),
         HiAt(T, 1), T[1].case # n
  PROVE  LineRead(s, n, res, oc, T, n + Workers, [res EXCEPT ![n] = Crashed])
<1> DEFINE new == [res EXCEPT ![n] = Crashed]
<1>1. n \in Nat /\ n \in Cases /\ ShardOf(n) = s /\ res \in Table /\ Workers \in Nat \ {0}
  BY PoolAssumption, PositionIsCase DEF Standing
<1>2. PICK row \in [1 .. Len(T) -> Nat] : Numbered(s, n, oc, T, row)
  BY DEF Legible
<1>3. 1 \in 1 .. Len(T) /\ Len(T) \in Nat
  BY DEF HiAt
<1>4. T[1].case \in Cases /\ n <= T[1].case
  BY <1>2, <1>3 DEF Numbered
<1>5. T[1].case \in Nat /\ n < T[1].case
  BY <1>1, <1>4, PoolAssumption DEF Cases
<1>6. \A j \in 2 .. Len(T) : HiAt(T, j) => n < T[j].case
  <2> SUFFICES ASSUME NEW j \in 2 .. Len(T), HiAt(T, j)
               PROVE  n < T[j].case
    OBVIOUS
  <2>1. j \in 1 .. Len(T) /\ 1 < j
    BY <1>3
  <2>2. T[j].case \in Cases
    BY <1>2, <2>1 DEF Numbered
  <2>3. T[j].case \in Nat
    BY <2>2, PoolAssumption DEF Cases
  <2>4. T[1].case < T[j].case \/ T[1].case = T[j].case
    BY <1>2, <1>3, <2>1 DEF Numbered
  <2> QED
    BY <1>1, <1>5, <2>3, <2>4
<1>7. new[n] = Crashed /\ \A p \in Cases : p # n => new[p] = res[p]
  BY <1>1 DEF Table
<1> HIDE DEF new
<1>8. Legible(s, n + Workers, new, oc, Tail(T))
  BY <1>2, <1>6, <1>7, PastFirst
<1>9. \A p \in Cases : ShardOf(p) = s /\ n <= p /\ p < n + Workers => new[p] = Crashed
  <2> SUFFICES ASSUME NEW p \in Cases, ShardOf(p) = s, n <= p, p < n + Workers
               PROVE  p = n
    BY <1>7
  <2>1. p \in Nat
    BY PoolAssumption DEF Cases
  <2>2. n < p => n + Workers <= p
    BY <1>1, <2>1, ModGap DEF ShardOf
  <2> QED
    BY <1>1, <2>1, <2>2
<1>10. LineRead(s, n, res, oc, T, n + Workers, new)
  BY <1>4, <1>6, <1>7, <1>8, <1>9 DEF LineRead
<1> QED
  BY <1>10 DEF new

(* The line is of the case the parent is at: one more row for it. *)
LEMMA ReadOwn ==
  ASSUME NEW s \in Shards, NEW n, NEW res, Standing(s, n, res), n < NumCases,
         NEW T \in Seq(Token), T # <<>>, NEW oc \in [Cases -> Seq(Outcomes)],
         Legible(s, n, res, oc, T),
         HiAt(T, 1), T[1].case = n
  PROVE  LET more == [res EXCEPT ![n] = Append(@, T[1].status)]
         IN  LineRead(s, n, res, oc, T, Advanced(n, more), more)
<1> DEFINE k == Len(res[n])
           rows == Append(res[n], T[1].status)
           more == [res EXCEPT ![n] = rows]
           U == Tail(T)
<1>1. n \in Nat /\ n \in Cases /\ ShardOf(n) = s /\ res \in Table /\ Workers \in Nat \ {0} /\ NumCases \in Nat
  BY PoolAssumption, PositionIsCase DEF Standing
<1>2. PICK row \in [1 .. Len(T) -> Nat] : Numbered(s, n, oc, T, row) /\ Tracked(n, res[n], oc[n], T, row)
  BY DEF Legible
<1>3. 1 \in 1 .. Len(T) /\ Len(T) \in Nat
  BY DEF HiAt
<1>4. /\ row[1] \in 1 .. ResultCount[n] /\ T[1].status = oc[n][row[1]]
      /\ oc[n] \in Seq(Outcomes) /\ Len(oc[n]) = ResultCount[n] /\ ResultCount[n] \in Nat \ {0}
  BY <1>1, <1>2, <1>3, PoolAssumption DEF Numbered
<1>5. res[n] \in Seq(Outcomes) /\ k \in Nat /\ k < ResultCount[n]
  BY <1>1 DEF Standing, ShardShape, PartRows
<1>6. T[1].status \in Outcomes
  BY <1>4
<1>7. /\ rows \in Seq(Outcomes) /\ Len(rows) = k + 1
      /\ \A i \in 1 .. k : rows[i] = res[n][i]
      /\ rows[k + 1] = T[1].status
  BY <1>5, <1>6, AppendProperties
<1>8. row[1] > k /\ (row[1] = k + 1 => \A i \in 1 .. k : res[n][i] = oc[n][i])
  BY <1>2, <1>3, <1>4, <1>5 DEF Tracked
<1>9. row[1] = k + 1 => \A i \in 1 .. Len(rows) : rows[i] = oc[n][i]
  BY <1>4, <1>5, <1>7, <1>8
<1>10. \A j \in 2 .. Len(T) : HiAt(T, j) =>
         j \in 1 .. Len(T) /\ row[j] \in Nat /\ (n < T[j].case \/ (T[j].case = n /\ row[1] < row[j] /\ row[j] <= ResultCount[n]))
  BY <1>1, <1>2, <1>3, <1>4 DEF Numbered
<1>11. more[n] = rows /\ \A p \in Cases : p # n => more[p] = res[p]
  BY <1>1 DEF Table
<1>12. more = [res EXCEPT ![n] = Append(@, T[1].status)]
  OBVIOUS
<1>13. Advanced(n, more) = IF Len(rows) >= ResultCount[n] THEN n + Workers ELSE n
  BY <1>1, <1>11 DEF Advanced
<1> HIDE DEF more, rows, k
<1>14. CASE Len(rows) >= ResultCount[n]
  <2>1. row[1] = k + 1 /\ Len(rows) = ResultCount[n]
    BY <1>4, <1>5, <1>7, <1>8, <1>14
  <2>2. rows = oc[n]
    BY <1>4, <1>7, <1>9, <2>1, SeqEqual
  <2>3. \A j \in 2 .. Len(T) : HiAt(T, j) => n < T[j].case
    BY <1>4, <1>5, <1>7, <1>10, <2>1
  <2>4. Legible(s, n + Workers, more, oc, U)
    BY <1>2, <1>11, <2>3, PastFirst
  <2>5. \A p \in Cases : ShardOf(p) = s /\ n <= p /\ p < n + Workers => more[p] = oc[p]
    <3> SUFFICES ASSUME NEW p \in Cases, ShardOf(p) = s, n <= p, p < n + Workers
                 PROVE  p = n
      BY <1>11, <2>2
    <3>1. p \in Nat
      BY PoolAssumption DEF Cases
    <3>2. n < p => n + Workers <= p
      BY <1>1, <3>1, ModGap DEF ShardOf
    <3> QED
      BY <1>1, <3>1, <3>2
  <2>6. LineRead(s, n, res, oc, T, n + Workers, more)
    BY <1>1, <1>11, <2>3, <2>4, <2>5 DEF LineRead
  <2> QED
    BY <1>12, <1>13, <1>14, <2>6
<1>15. CASE ~ (Len(rows) >= ResultCount[n])
  <2> DEFINE rest == Rest(T, row)
  <2>1. \A j \in 2 .. Len(T) : HiAt(T, j) => n <= T[j].case
    BY <1>1, <1>2, <1>3 DEF Numbered
  <2>2. rest \in [1 .. Len(U) -> Nat] /\ Numbered(s, n, oc, U, rest)
    BY <1>2, <2>1, DropFirst
  <2>3. /\ Len(U) = Len(T) - 1
        /\ \A j \in 1 .. Len(U) : j + 1 \in 2 .. Len(T) /\ U[j] = T[j + 1] /\ (HiAt(U, j) <=> HiAt(T, j + 1))
    BY <1>3, TailIndex
  <2>4. \A j \in 1 .. Len(U) : rest[j] = row[j + 1]
    BY DEF Rest
  <2> HIDE DEF U, rest
  <2>5. \A j \in 1 .. Len(U) : HiAt(U, j) /\ U[j].case = n => rest[j] \in Nat /\ row[1] < rest[j]
    <3> SUFFICES ASSUME NEW j \in 1 .. Len(U), HiAt(U, j), U[j].case = n
                 PROVE  rest[j] \in Nat /\ row[1] < rest[j]
      OBVIOUS
    <3>1. j + 1 \in 2 .. Len(T) /\ HiAt(T, j + 1) /\ T[j + 1].case = n /\ rest[j] = row[j + 1]
      BY <2>3, <2>4
    <3> QED
      BY <1>1, <1>10, <3>1
  <2>6. row[1] \in Nat /\ row[1] > k
    BY <1>4, <1>8
  <2>7. Tracked(n, rows, oc[n], U, rest)
    <3>1. CASE row[1] = k + 1
      <4>1. \A i \in 1 .. Len(rows) : rows[i] = oc[n][i]
        BY <1>9, <3>1
      <4>2. \A j \in 1 .. Len(U) : HiAt(U, j) /\ U[j].case = n => rest[j] > Len(rows)
        BY <1>5, <1>7, <2>5, <3>1
      <4> QED
        BY <4>1, <4>2 DEF Tracked
    <3>2. CASE row[1] > k + 1
      <4>1. \A j \in 1 .. Len(U) : HiAt(U, j) /\ U[j].case = n => rest[j] > Len(rows) + 1
        BY <1>5, <1>7, <2>5, <2>6, <3>2
      <4> QED
        BY <4>1 DEF Tracked
    <3> QED
      BY <1>5, <2>6, <3>1, <3>2
  <2>8. Tracked(n, more[n], oc[n], U, rest)
    BY <1>11, <2>7
  <2>9. Legible(s, n, more, oc, U)
    BY <2>2, <2>8 DEF Legible
  <2>10. LineRead(s, n, res, oc, T, n, more)
    BY <1>1, <1>11, <2>9, PoolAssumption DEF LineRead, U, Cases
  <2> QED
    BY <1>12, <1>13, <1>15, <2>10
<1> QED
  BY <1>14, <1>15

(* recordWorkerLine, for the first line in the stream. *)
LEMMA RecordLineReads ==
  ASSUME NEW s \in Shards, NEW n, NEW res, Standing(s, n, res),
         NEW T \in Seq(Token), T # <<>>, NEW oc \in [Cases -> Seq(Outcomes)],
         Legible(s, n, res, oc, T), HiAt(T, 1)
  PROVE  LET rec == RecordLine(T[1].case, T[1].status, n, res)
         IN  LineRead(s, n, res, oc, T, rec.next, rec.results)
<1>1. PICK row \in [1 .. Len(T) -> Nat] : Numbered(s, n, oc, T, row)
  BY DEF Legible
<1>2. T[1].case \in Cases /\ n <= T[1].case
  BY <1>1 DEF Numbered, HiAt
<1>3. n \in Nat /\ NumCases \in Nat /\ n < NumCases
  BY <1>2, PoolAssumption DEF Cases, Standing
<1>4. CASE T[1].case # n
  <2>1. LineRead(s, n, res, oc, T, n + Workers, [res EXCEPT ![n] = Crashed])
    BY <1>3, <1>4, ReadLater
  <2> QED
    BY <1>3, <1>4, <2>1 DEF RecordLine
<1>5. CASE T[1].case = n
  <2> DEFINE more == [res EXCEPT ![n] = Append(@, T[1].status)]
  <2>1. LineRead(s, n, res, oc, T, Advanced(n, more), more)
    BY <1>3, <1>5, ReadOwn
  <2> QED
    BY <1>3, <1>5, <2>1 DEF RecordLine
<1> QED
  BY <1>4, <1>5

-----------------------------------------------------------------------------
(* Writing behind the last token. *)

(* The lines of a run: the one with row r ends at token 2r. *)
LEMMA RowLinesEnds ==
  ASSUME NEW p \in Cases, NEW rows \in Seq(Outcomes), Len(rows) = ResultCount[p]
  PROVE  /\ RowLines(p, rows) \in Seq(Token)
         /\ Len(RowLines(p, rows)) = 2 * ResultCount[p]
         /\ HiAt(RowLines(p, rows), 2 * ResultCount[p])
         /\ \A i \in 1 .. 2 * ResultCount[p] : HiAt(RowLines(p, rows), i) =>
              /\ i \div 2 \in 1 .. ResultCount[p] /\ i = 2 * (i \div 2)
              /\ RowLines(p, rows)[i].case = p
              /\ RowLines(p, rows)[i].status = rows[i \div 2]
<1> DEFINE R == ResultCount[p]
           L == RowLines(p, rows)
           half(i) == IF i % 2 = 1 THEN Lo(p, rows[(i + 1) \div 2]) ELSE Hi(p, rows[(i + 1) \div 2])
<1>1. R \in Nat \ {0} /\ 2 * R \in Nat
  BY PoolAssumption
<1>2. L \in Seq(Token)
  BY RowLinesType
<1>3. L = [i \in 1 .. 2 * R |-> half(i)]
  BY DEF RowLines
<1>5. Len(L) = 2 * R /\ \A i \in 1 .. 2 * R : L[i] = half(i)
  BY <1>1, <1>3
<1> HIDE DEF L
<1>6. ASSUME NEW i \in 1 .. 2 * R, L[i].half = "hi"
      PROVE  i \div 2 \in 1 .. R /\ i = 2 * (i \div 2) /\ L[i].case = p /\ L[i].status = rows[i \div 2]
  <2>1. i % 2 # 1
    <3> SUFFICES ASSUME i % 2 = 1 PROVE FALSE
      OBVIOUS
    <3>1. L[i] = Lo(p, rows[(i + 1) \div 2])
      BY <1>5
    <3>2. L[i].half = "lo"
      BY <3>1 DEF Lo
    <3> QED
      BY <1>6, <3>2
  <2>2. L[i] = Hi(p, rows[(i + 1) \div 2])
    BY <1>5, <2>1
  <2>3. i \in Nat /\ i = 2 * (i \div 2) /\ (i + 1) \div 2 = i \div 2
    BY <1>1, <2>1
  <2>4. i \div 2 \in 1 .. R
    BY <1>1, <2>3
  <2> QED
    BY <2>2, <2>3, <2>4 DEF Hi
<1>7. L[2 * R].half = "hi"
  <2>1. 2 * R \in 1 .. 2 * R /\ (2 * R) % 2 = 0
    BY <1>1
  <2> DEFINE e == 2 * R
  <2>2. e % 2 # 1
    BY <2>1
  <2> HIDE DEF e
  <2>3. L[e] = Hi(p, rows[(e + 1) \div 2])
    BY <1>5, <2>1, <2>2 DEF e
  <2>4. L[e].half = "hi"
    BY <2>3 DEF Hi
  <2> QED
    BY <2>4 DEF e
<1>8. HiAt(L, 2 * R) /\ \A i \in 1 .. 2 * R : HiAt(L, i) => L[i].half = "hi"
  <2>1. Len(L) = 2 * R /\ 2 * R \in 1 .. 2 * R
    BY <1>1, <1>5
  <2> HIDE DEF R
  <2> QED
    BY <1>7, <2>1 DEF HiAt
<1>9. \A i \in 1 .. 2 * R : HiAt(L, i) =>
        i \div 2 \in 1 .. R /\ i = 2 * (i \div 2) /\ L[i].case = p /\ L[i].status = rows[i \div 2]
  BY <1>6, <1>8
<1>10. L = RowLines(p, rows) /\ R = ResultCount[p]
  BY DEF L
<1> HIDE DEF R, half
<1> QED
  BY <1>2, <1>5, <1>8, <1>9, <1>10, Zenon

LEMMA ConcatIndex ==
  ASSUME NEW P \in Seq(Token), NEW L \in Seq(Token)
  PROVE  /\ P \o L \in Seq(Token) /\ Len(P) \in Nat /\ Len(L) \in Nat /\ Len(P \o L) = Len(P) + Len(L)
         /\ \A j \in 1 .. Len(P) : j \in 1 .. Len(P \o L) /\ (P \o L)[j] = P[j] /\ (HiAt(P \o L, j) <=> HiAt(P, j))
         /\ \A j \in Len(P) + 1 .. Len(P \o L) : j - Len(P) \in 1 .. Len(L) /\ (P \o L)[j] = L[j - Len(P)]
                                                 /\ (HiAt(P \o L, j) <=> HiAt(L, j - Len(P)))
<1>1. P \o L \in Seq(Token) /\ Len(P \o L) = Len(P) + Len(L) /\ Len(P) \in Nat /\ Len(L) \in Nat
  BY ConcatProperties
<1>2. \A j \in 1 .. Len(P) : j \in 1 .. Len(P \o L) /\ (P \o L)[j] = P[j]
  BY <1>1, ConcatProperties
<1>3. \A j \in Len(P) + 1 .. Len(P \o L) : j - Len(P) \in 1 .. Len(L) /\ (P \o L)[j] = L[j - Len(P)]
  BY <1>1, ConcatProperties
<1> QED
  BY <1>1, <1>2, <1>3 DEF HiAt

LEMMA ConcatTwice ==
  ASSUME NEW P \in Seq(Token), NEW M \in Seq(Token), NEW L \in Seq(Token)
  PROVE  (P \o M) \o L = P \o (M \o L)
BY ConcatAssociative

(* Tokens that end no line, behind those in the pipe. *)
LEMMA AppendJunk ==
  ASSUME NEW P \in Seq(Token), NEW s, NEW n, NEW res, NEW oc, Legible(s, n, res, oc, P)
  PROVE  Legible(s, n, res, oc, Append(P, Junk))
<1> DEFINE T == Append(P, Junk)
<1>1. PICK row \in [1 .. Len(P) -> Nat] :
        Numbered(s, n, oc, P, row) /\ (n < NumCases => Tracked(n, res[n], oc[n], P, row))
  BY DEF Legible
<1> DEFINE wide == [j \in 1 .. Len(T) |-> IF j \in 1 .. Len(P) THEN row[j] ELSE 0]
<1>2. /\ Len(P) \in Nat /\ Len(T) = Len(P) + 1 /\ T[Len(P) + 1] = Junk
      /\ \A j \in 1 .. Len(P) : j \in 1 .. Len(T) /\ T[j] = P[j]
  BY AppendProperties DEF Token
<1> HIDE DEF T
<1>3. wide \in [1 .. Len(T) -> Nat] /\ \A j \in 1 .. Len(P) : wide[j] = row[j]
  BY <1>2
<1> HIDE DEF wide
<1>4. \A j \in 1 .. Len(T) : HiAt(T, j) => j \in 1 .. Len(P) /\ HiAt(P, j) /\ T[j] = P[j] /\ wide[j] = row[j]
  <2> SUFFICES ASSUME NEW j \in 1 .. Len(T), HiAt(T, j)
               PROVE  j \in 1 .. Len(P)
    BY <1>2, <1>3 DEF HiAt
  <2>1. j # Len(P) + 1
    BY <1>2 DEF HiAt, Junk
  <2> QED
    BY <1>2, <2>1
<1>5. Numbered(s, n, oc, T, wide)
  <2>1. ASSUME NEW j \in 1 .. Len(T), HiAt(T, j)
        PROVE  /\ T[j].case \in Cases /\ ShardOf(T[j].case) = s /\ n <= T[j].case
               /\ Len(oc[T[j].case]) = ResultCount[T[j].case]
               /\ wide[j] \in 1 .. ResultCount[T[j].case]
               /\ T[j].status = oc[T[j].case][wide[j]]
    <3>1. j \in 1 .. Len(P) /\ HiAt(P, j) /\ T[j] = P[j] /\ wide[j] = row[j]
      BY <1>4, <2>1
    <3>2. /\ P[j].case \in Cases /\ ShardOf(P[j].case) = s /\ n <= P[j].case
          /\ Len(oc[P[j].case]) = ResultCount[P[j].case]
          /\ row[j] \in 1 .. ResultCount[P[j].case]
          /\ P[j].status = oc[P[j].case][row[j]]
      BY <1>1, <3>1 DEF Numbered
    <3> QED
      BY <3>1, <3>2
  <2>2. ASSUME NEW i \in 1 .. Len(T), NEW j \in 1 .. Len(T), i < j, HiAt(T, i), HiAt(T, j)
        PROVE  T[i].case < T[j].case \/ (T[i].case = T[j].case /\ wide[i] < wide[j])
    <3>1. i \in 1 .. Len(P) /\ HiAt(P, i) /\ T[i] = P[i] /\ wide[i] = row[i]
      BY <1>4, <2>2
    <3>2. j \in 1 .. Len(P) /\ HiAt(P, j) /\ T[j] = P[j] /\ wide[j] = row[j]
      BY <1>4, <2>2
    <3>3. P[i].case < P[j].case \/ (P[i].case = P[j].case /\ row[i] < row[j])
      BY <1>1, <2>2, <3>1, <3>2 DEF Numbered
    <3> QED
      BY <3>1, <3>2, <3>3
  <2> QED
    BY <2>1, <2>2 DEF Numbered
<1>6. n < NumCases => Tracked(n, res[n], oc[n], T, wide)
  BY <1>1, <1>4 DEF Tracked
<1>7. Legible(s, n, res, oc, T)
  BY <1>3, <1>5, <1>6 DEF Legible
<1> QED
  BY <1>7 DEF T

(* What is left of the stream when its end is lost. *)
Short(P, row) == [j \in 1 .. Len(P) |-> row[j]]

LEMMA NumbersShort ==
  ASSUME NEW P \in Seq(Token), NEW L \in Seq(Token), NEW s, NEW n, NEW oc,
         NEW row \in [1 .. Len(P \o L) -> Nat], Numbered(s, n, oc, P \o L, row)
  PROVE  /\ Short(P, row) \in [1 .. Len(P) -> Nat]
         /\ Numbered(s, n, oc, P, Short(P, row))
<1> DEFINE T == P \o L
           short == Short(P, row)
<1>2. \A j \in 1 .. Len(P) : j \in 1 .. Len(T) /\ T[j] = P[j] /\ (HiAt(T, j) <=> HiAt(P, j))
  BY ConcatIndex
<1> HIDE DEF T
<1>3. short \in [1 .. Len(P) -> Nat] /\ \A j \in 1 .. Len(P) : short[j] = row[j]
  BY <1>2 DEF Short, T
<1> HIDE DEF short
<1>4. Numbered(s, n, oc, T, row)
  BY DEF T
<1>5. ASSUME NEW j \in 1 .. Len(P), HiAt(P, j)
      PROVE  /\ P[j].case \in Cases /\ ShardOf(P[j].case) = s /\ n <= P[j].case
             /\ Len(oc[P[j].case]) = ResultCount[P[j].case]
             /\ short[j] \in 1 .. ResultCount[P[j].case]
             /\ P[j].status = oc[P[j].case][short[j]]
  <2>1. j \in 1 .. Len(T) /\ HiAt(T, j) /\ T[j] = P[j] /\ short[j] = row[j]
    BY <1>2, <1>3, <1>5
  <2>2. /\ T[j].case \in Cases /\ ShardOf(T[j].case) = s /\ n <= T[j].case
        /\ Len(oc[T[j].case]) = ResultCount[T[j].case]
        /\ row[j] \in 1 .. ResultCount[T[j].case]
        /\ T[j].status = oc[T[j].case][row[j]]
    BY <1>4, <2>1 DEF Numbered
  <2> QED
    BY <2>1, <2>2
<1>6. ASSUME NEW i \in 1 .. Len(P), NEW j \in 1 .. Len(P), i < j, HiAt(P, i), HiAt(P, j)
      PROVE  P[i].case < P[j].case \/ (P[i].case = P[j].case /\ short[i] < short[j])
  <2>1. /\ i \in 1 .. Len(T) /\ HiAt(T, i) /\ T[i] = P[i] /\ short[i] = row[i]
        /\ j \in 1 .. Len(T) /\ HiAt(T, j) /\ T[j] = P[j] /\ short[j] = row[j]
    BY <1>2, <1>3, <1>6
  <2>2. T[i].case < T[j].case \/ (T[i].case = T[j].case /\ row[i] < row[j])
    BY <1>4, <1>6, <2>1 DEF Numbered
  <2> QED
    BY <2>1, <2>2
<1>7. Numbered(s, n, oc, P, short)
  BY <1>5, <1>6 DEF Numbered
<1> QED
  BY <1>3, <1>7 DEF short

LEMMA LosesEnd ==
  ASSUME NEW P \in Seq(Token), NEW L \in Seq(Token), NEW s, NEW n, NEW res, NEW oc,
         Legible(s, n, res, oc, P \o L)
  PROVE  Legible(s, n, res, oc, P)
<1> DEFINE T == P \o L
<1>1. PICK row \in [1 .. Len(T) -> Nat] :
        Numbered(s, n, oc, T, row) /\ (n < NumCases => Tracked(n, res[n], oc[n], T, row))
  BY DEF Legible
<1>2. \A j \in 1 .. Len(P) : j \in 1 .. Len(T) /\ T[j] = P[j] /\ (HiAt(T, j) <=> HiAt(P, j))
  BY ConcatIndex
<1>3. Short(P, row) \in [1 .. Len(P) -> Nat] /\ Numbered(s, n, oc, P, Short(P, row))
  BY <1>1, NumbersShort
<1> HIDE DEF T
<1>4. \A j \in 1 .. Len(P) : Short(P, row)[j] = row[j]
  BY DEF Short
<1>5. n < NumCases => Tracked(n, res[n], oc[n], P, Short(P, row))
  BY <1>1, <1>2, <1>4 DEF Tracked
<1> QED
  BY <1>3, <1>5 DEF Legible

LEMMA NothingToRead ==
  ASSUME NEW s, NEW n, NEW res, NEW oc
  PROVE  Legible(s, n, res, oc, <<>>)
<1> DEFINE row == [j \in 1 .. Len(<<>>) |-> 0]
<1>1. row \in [1 .. Len(<<>>) -> Nat]
  OBVIOUS
<1>2. Len(<<>>) = 0
  OBVIOUS
<1> HIDE DEF row
<1>3. 1 .. Len(<<>>) = {}
  BY <1>2
<1>4. Numbered(s, n, oc, <<>>, row) /\ Tracked(n, res[n], oc[n], <<>>, row)
  BY <1>3 DEF Numbered, Tracked
<1> QED
  BY <1>1, <1>4 DEF Legible

(* Nothing happened to the cases of the shard. *)
LEMMA LegibleStays ==
  ASSUME NEW s \in Shards, NEW n \in Nat, ShardOf(n) = s, NEW T,
         NEW res, NEW oc, NEW new, NEW oc2, Legible(s, n, res, oc, T),
         \A p \in Cases : ShardOf(p) = s => new[p] = res[p] /\ oc2[p] = oc[p]
  PROVE  Legible(s, n, new, oc2, T)
<1>1. PICK row \in [1 .. Len(T) -> Nat] :
        Numbered(s, n, oc, T, row) /\ (n < NumCases => Tracked(n, res[n], oc[n], T, row))
  BY DEF Legible
<1>2. Numbered(s, n, oc2, T, row)
  BY <1>1 DEF Numbered
<1>3. n < NumCases => Tracked(n, new[n], oc2[n], T, row)
  <2> SUFFICES ASSUME n < NumCases PROVE Tracked(n, new[n], oc2[n], T, row)
    OBVIOUS
  <2>1. new[n] = res[n] /\ oc2[n] = oc[n]
    BY PositionIsCase
  <2> QED
    BY <1>1, <2>1
<1> QED
  BY <1>1, <1>2, <1>3 DEF Legible

(* The numbers when the lines L of a run follow P. *)
Wide(P, L, row) ==
  [j \in 1 .. Len(P \o L) |-> IF j \in 1 .. Len(P) THEN row[j] ELSE (j - Len(P)) \div 2]

(* The lines of running p stand behind those in P, with numbers of their   *)
(* own.                                                                    *)
RunNumbered(s, n, p, P, oc, rows, row) ==
  LET T    == P \o RowLines(p, rows)
      wide == Wide(P, RowLines(p, rows), row)
  IN  /\ wide \in [1 .. Len(T) -> Nat]
      /\ Numbered(s, n, [oc EXCEPT ![p] = rows], T, wide)
      /\ \A j \in 1 .. Len(P) : wide[j] = row[j]
      /\ \A j \in Len(P) + 1 .. Len(T) : HiAt(T, j) =>
           T[j].case = p /\ wide[j] \in Nat /\ j = Len(P) + 2 * wide[j]

(* A case is run and its lines go behind those of the cases before it. *)
LEMMA NumberRun ==
  ASSUME NEW s, NEW n \in Nat, NEW p \in Cases, ShardOf(p) = s, n <= p,
         NEW P \in Seq(Token), \A j \in 1 .. Len(P) : HiAt(P, j) => P[j].case < p,
         NEW oc \in [Cases -> Seq(Outcomes)],
         NEW row \in [1 .. Len(P) -> Nat], Numbered(s, n, oc, P, row),
         NEW rows \in Seq(Outcomes), Len(rows) = ResultCount[p]
  PROVE  RunNumbered(s, n, p, P, oc, rows, row)
<1> DEFINE R == ResultCount[p]
           L == RowLines(p, rows)
           T == P \o L
           wide == Wide(P, L, row)
           oc2 == [oc EXCEPT ![p] = rows]
<1>2. /\ L \in Seq(Token) /\ Len(L) = 2 * R
      /\ \A i \in 1 .. 2 * R : HiAt(L, i) =>
           i \div 2 \in 1 .. R /\ i = 2 * (i \div 2) /\ L[i].case = p /\ L[i].status = rows[i \div 2]
  BY RowLinesEnds
<1> HIDE DEF L
<1>3. /\ Len(P) \in Nat /\ Len(L) \in Nat /\ Len(T) = Len(P) + Len(L)
      /\ \A j \in 1 .. Len(P) : j \in 1 .. Len(T) /\ T[j] = P[j] /\ (HiAt(T, j) <=> HiAt(P, j))
      /\ \A j \in Len(P) + 1 .. Len(T) : j - Len(P) \in 1 .. Len(L) /\ T[j] = L[j - Len(P)]
                                         /\ (HiAt(T, j) <=> HiAt(L, j - Len(P)))
  BY <1>2, ConcatIndex
<1>1. wide = [j \in 1 .. Len(T) |-> IF j \in 1 .. Len(P) THEN row[j] ELSE (j - Len(P)) \div 2]
  BY DEF Wide
<1> HIDE DEF T, wide
<1>4. wide \in [1 .. Len(T) -> Nat]
  <2>1. ASSUME NEW j \in 1 .. Len(T), j \notin 1 .. Len(P)
        PROVE  (j - Len(P)) \div 2 \in Nat
    <3>1. j - Len(P) \in Nat
      BY <1>3, <2>1
    <3> QED
      BY <3>1, Z3
  <2> QED
    BY <1>1, <2>1
<1>5. \A j \in 1 .. Len(P) : wide[j] = row[j]
  BY <1>1, <1>3
<1>6. \A j \in Len(P) + 1 .. Len(T) : wide[j] = (j - Len(P)) \div 2
  BY <1>1, <1>3
<1>7. R \in Nat \ {0} /\ p \in Nat /\ rows \in Seq(Outcomes) /\ Len(rows) = R
  BY PoolAssumption DEF Cases
<1>8. oc2[p] = rows /\ \A q \in Cases : q # p => oc2[q] = oc[q]
  OBVIOUS
<1> HIDE DEF oc2
(* The old lines, and the new. *)
<1>9. ASSUME NEW j \in 1 .. Len(P), HiAt(T, j)
      PROVE  /\ HiAt(P, j) /\ T[j] = P[j] /\ wide[j] = row[j] /\ wide[j] \in Nat
             /\ T[j].case \in Cases /\ ShardOf(T[j].case) = s /\ n <= T[j].case /\ T[j].case < p
             /\ Len(oc2[T[j].case]) = ResultCount[T[j].case]
             /\ wide[j] \in 1 .. ResultCount[T[j].case]
             /\ T[j].status = oc2[T[j].case][wide[j]]
  <2>1. HiAt(P, j) /\ T[j] = P[j] /\ wide[j] = row[j]
    BY <1>3, <1>5, <1>9
  <2>2. /\ P[j].case \in Cases /\ ShardOf(P[j].case) = s /\ n <= P[j].case
        /\ Len(oc[P[j].case]) = ResultCount[P[j].case]
        /\ row[j] \in 1 .. ResultCount[P[j].case]
        /\ P[j].status = oc[P[j].case][row[j]]
    BY <2>1 DEF Numbered
  <2>3. P[j].case < p
    BY <2>1
  <2>4. P[j].case # p /\ row[j] \in Nat
    BY <1>7, <2>2, <2>3, PoolAssumption DEF Cases
  <2>5. oc2[P[j].case] = oc[P[j].case]
    BY <1>8, <2>2, <2>4
  <2> QED
    BY <2>1, <2>2, <2>3, <2>4, <2>5
<1>10. ASSUME NEW j \in Len(P) + 1 .. Len(T), HiAt(T, j)
       PROVE  /\ wide[j] \in 1 .. R /\ j = Len(P) + 2 * wide[j]
              /\ T[j].case = p /\ T[j].status = rows[wide[j]]
  <2> DEFINE i == j - Len(P)
  <2>1. i \in 1 .. 2 * R /\ HiAt(L, i) /\ T[j] = L[i] /\ wide[j] = i \div 2 /\ j = Len(P) + i
    BY <1>2, <1>3, <1>6, <1>10
  <2> HIDE DEF i
  <2>2. i \div 2 \in 1 .. R /\ i = 2 * (i \div 2) /\ L[i].case = p /\ L[i].status = rows[i \div 2]
    BY <1>2, <2>1
  <2> QED
    BY <2>1, <2>2
<1>11. \A j \in 1 .. Len(T) : j \in 1 .. Len(P) \/ j \in Len(P) + 1 .. Len(T)
  BY <1>3
<1>12. Numbered(s, n, oc2, T, wide)
  <2>1. ASSUME NEW j \in 1 .. Len(T), HiAt(T, j)
        PROVE  /\ T[j].case \in Cases /\ ShardOf(T[j].case) = s /\ n <= T[j].case
               /\ Len(oc2[T[j].case]) = ResultCount[T[j].case]
               /\ wide[j] \in 1 .. ResultCount[T[j].case]
               /\ T[j].status = oc2[T[j].case][wide[j]]
    <3>1. CASE j \in 1 .. Len(P)
      BY <1>9, <2>1, <3>1
    <3>2. CASE j \in Len(P) + 1 .. Len(T)
      <4>1. wide[j] \in 1 .. R /\ T[j].case = p /\ T[j].status = rows[wide[j]]
        BY <1>10, <2>1, <3>2
      <4> QED
        BY <1>7, <1>8, <4>1
    <3> QED
      BY <1>11, <3>1, <3>2
  <2>2. ASSUME NEW i \in 1 .. Len(T), NEW j \in 1 .. Len(T), i < j, HiAt(T, i), HiAt(T, j)
        PROVE  T[i].case < T[j].case \/ (T[i].case = T[j].case /\ wide[i] < wide[j])
    <3>1. CASE i \in 1 .. Len(P) /\ j \in 1 .. Len(P)
      <4>1. HiAt(P, i) /\ T[i] = P[i] /\ wide[i] = row[i] /\ HiAt(P, j) /\ T[j] = P[j] /\ wide[j] = row[j]
        BY <1>9, <2>2, <3>1
      <4>2. P[i].case < P[j].case \/ (P[i].case = P[j].case /\ row[i] < row[j])
        BY <2>2, <3>1, <4>1 DEF Numbered
      <4> QED
        BY <4>1, <4>2
    <3>2. CASE i \in 1 .. Len(P) /\ j \in Len(P) + 1 .. Len(T)
      <4>1. T[i].case < p /\ T[j].case = p
        BY <1>9, <1>10, <2>2, <3>2
      <4> QED
        BY <4>1
    <3>3. CASE i \in Len(P) + 1 .. Len(T)
      <4>1. j \in Len(P) + 1 .. Len(T)
        BY <1>3, <2>2, <3>3
      <4>2. wide[i] \in 1 .. R /\ i = Len(P) + 2 * wide[i] /\ T[i].case = p
        BY <1>10, <2>2, <3>3
      <4>3. wide[j] \in 1 .. R /\ j = Len(P) + 2 * wide[j] /\ T[j].case = p
        BY <1>10, <2>2, <4>1
      <4> QED
        BY <1>3, <1>7, <2>2, <4>2, <4>3
    <3> QED
      BY <1>11, <3>1, <3>2, <3>3
  <2> QED
    BY <2>1, <2>2 DEF Numbered
<1>13. \A j \in Len(P) + 1 .. Len(T) : HiAt(T, j) =>
         T[j].case = p /\ wide[j] \in Nat /\ j = Len(P) + 2 * wide[j]
  BY <1>10
<1> QED
  BY <1>4, <1>5, <1>12, <1>13 DEF RunNumbered, L, T, wide, oc2

LEMMA AppendRun ==
  ASSUME NEW s \in Shards, NEW n \in Nat, NEW p \in Cases, ShardOf(p) = s, n <= p,
         NEW P \in Seq(Token), \A j \in 1 .. Len(P) : HiAt(P, j) => P[j].case < p,
         NEW res, res[p] = <<>>,
         NEW oc \in [Cases -> Seq(Outcomes)], Legible(s, n, res, oc, P),
         NEW rows \in Seq(Outcomes), Len(rows) = ResultCount[p]
  PROVE  Legible(s, n, res, [oc EXCEPT ![p] = rows], P \o RowLines(p, rows))
<1>1. PICK row \in [1 .. Len(P) -> Nat] :
        Numbered(s, n, oc, P, row) /\ (n < NumCases => Tracked(n, res[n], oc[n], P, row))
  BY DEF Legible
<1>2. RunNumbered(s, n, p, P, oc, rows, row)
  BY <1>1, NumberRun
<1>8. RowLines(p, rows) \in Seq(Token)
  BY RowLinesEnds
<1> DEFINE T == P \o RowLines(p, rows)
           oc2 == [oc EXCEPT ![p] = rows]
           wide == Wide(P, RowLines(p, rows), row)
<1>3. /\ wide \in [1 .. Len(T) -> Nat] /\ Numbered(s, n, oc2, T, wide)
      /\ \A j \in 1 .. Len(P) : wide[j] = row[j]
      /\ \A j \in Len(P) + 1 .. Len(T) : HiAt(T, j) => T[j].case = p
  BY <1>2 DEF RunNumbered
<1>4. /\ Len(P) \in Nat /\ Len(T) \in Nat
      /\ \A j \in 1 .. Len(P) : T[j] = P[j] /\ (HiAt(T, j) <=> HiAt(P, j))
  BY <1>8, ConcatIndex
<1>5. \A q \in Cases : q # p => oc2[q] = oc[q]
  OBVIOUS
<1> HIDE DEF T, wide, oc2
<1>6. n < NumCases => Tracked(n, res[n], oc2[n], T, wide)
  <2> SUFFICES ASSUME n < NumCases PROVE Tracked(n, res[n], oc2[n], T, wide)
    OBVIOUS
  <2>1. CASE n = p
    BY <1>3, <2>1, TrackedFresh
  <2>2. CASE n # p
    <3>1. n \in Cases /\ oc2[n] = oc[n]
      BY <1>5, <2>2, PositionIsCase
    <3>2. \A j \in 1 .. Len(T) : j \in 1 .. Len(P) \/ j \in Len(P) + 1 .. Len(T)
      BY <1>4
    <3>3. \A j \in 1 .. Len(T) : HiAt(T, j) /\ T[j].case = n =>
            j \in 1 .. Len(P) /\ HiAt(P, j) /\ P[j].case = n /\ wide[j] = row[j]
      BY <1>3, <1>4, <2>2, <3>2
    <3> QED
      BY <1>1, <3>1, <3>3 DEF Tracked
  <2> QED
    BY <2>1, <2>2
<1>7. Legible(s, n, res, oc2, T)
  BY <1>3, <1>6 DEF Legible
<1> QED
  BY <1>7 DEF T, oc2

-----------------------------------------------------------------------------
(* The invariant, shard by shard. *)

LEMMA ShardTypes ==
  ASSUME Inv, NEW s \in Shards
  PROVE  /\ s \in Nat /\ ShardOf(s) = s /\ Workers \in Nat \ {0} /\ NumCases \in Nat
         /\ next[s] \in Nat /\ ShardOf(next[s]) = s /\ at[s] \in Nat /\ ShardOf(at[s]) = s
         /\ pipe[s] \in Seq(Token) /\ out[s] \in Seq(Token) /\ Stream(s) \in Seq(Token)
         /\ outcome \in [Cases -> Seq(Outcomes)] /\ results \in Table
         /\ Standing(s, next[s], results)
<1>1. s \in Nat /\ ShardOf(s) = s /\ Workers \in Nat \ {0} /\ NumCases \in Nat
  BY PoolAssumption, ModSmall DEF Shards, ShardOf
<1>2. /\ next[s] \in Nat /\ ShardOf(next[s]) = s /\ at[s] \in Nat /\ ShardOf(at[s]) = s
      /\ pipe[s] \in Seq(Token) /\ out[s] \in Seq(Token)
      /\ outcome \in [Cases -> Seq(Outcomes)] /\ results \in Table
  BY DEF Inv, TypeOK, Table
<1>3. Stream(s) \in Seq(Token)
  BY <1>2, ConcatProperties DEF Stream
<1> QED
  BY <1>1, <1>2, <1>3, InvStanding

(* A step that has nothing to do with the shard. *)
LEMMA LinesStay ==
  ASSUME Inv, NEW s \in Shards, Lines(s),
         worker'[s] = worker[s], child'[s] = child[s], next'[s] = next[s],
         at'[s] = at[s], out'[s] = out[s], pipe'[s] = pipe[s],
         \A p \in Cases : ShardOf(p) = s => results'[p] = results[p] /\ outcome'[p] = outcome[p]
  PROVE  Lines(s)'
<1>1. Stream(s)' = Stream(s)
  BY DEF Stream
<1>2. next[s] \in Nat /\ ShardOf(next[s]) = s /\ at[s] \in Nat /\ ShardOf(at[s]) = s
  BY ShardTypes
<1>3. Legible(s, next[s], results', outcome', Stream(s))
  BY <1>2, LegibleStays DEF Lines
<1>4. Legible(s, next[s], results, outcome, Stream(s))'
  BY <1>1, <1>3
<1>5. Untouched(s) => Untouched(s)'
  BY DEF Untouched
<1>6. at[s] < NumCases => results'[at[s]] = results[at[s]]
  BY <1>2, PositionIsCase
<1>7. Ahead(next[s], results, at[s], out[s], Stream(s)) => Ahead(next[s], results', at[s], out[s], Stream(s))
  BY <1>6 DEF Ahead
<1>8. Process(s)'
  BY <1>1, <1>5, <1>7 DEF Lines, Process
<1> QED
  BY <1>4, <1>8 DEF Lines

LEMMA VerdictsStay ==
  ASSUME VerdictsAreEarned,
         \A p \in Cases : Settled(p)' => Settled(p) /\ results'[p] = results[p] /\ outcome'[p] = outcome[p]
  PROVE  VerdictsAreEarned'
BY DEF VerdictsAreEarned

LEMMA LinesInit == Init => LinesInv
<1> SUFFICES ASSUME Init PROVE LinesInv
  OBVIOUS
<1>1. Inv
  BY InvInit
<1>2. VerdictsAreEarned
  <2> SUFFICES ASSUME NEW p \in Cases PROVE ~ Settled(p)
    BY DEF VerdictsAreEarned
  <2>1. ~ Settled(p) \/ results[p] = Crashed \/ FullRows(p, results[p])
    BY <1>1 DEF Inv, LedgerShape
  <2>2. results[p] = <<>>
    BY DEF Init
  <2>3. <<>> # Crashed /\ ~ FullRows(p, <<>>)
    BY PoolAssumption DEF Crashed, FullRows
  <2> QED
    BY <2>1, <2>2, <2>3
<1>3. ASSUME NEW s \in Shards
      PROVE  Lines(s)
  <2>1. pipe[s] = <<>> /\ out[s] = <<>> /\ at[s] = s /\ next[s] = s /\ child[s] = "none"
        /\ worker[s] = "unspawned" /\ \A p \in Cases : results[p] = <<>>
    BY DEF Init
  <2>2. Stream(s) = <<>>
    BY <2>1 DEF Stream
  <2>3. Process(s)
    BY <2>1 DEF Process, Untouched
  <2>4. Legible(s, next[s], results, outcome, Stream(s))
    BY <2>2, NothingToRead
  <2> QED
    BY <2>3, <2>4 DEF Lines
<1> QED
  BY <1>1, <1>2, <1>3 DEF LinesInv

(* One lemma per action: what it makes of the shard it is about. *)
LEMMA SpawnLines ==
  ASSUME LinesInv, NEW s \in Shards, Spawn(s)
  PROVE  \A t \in Shards : Lines(t)'
<1>1. Inv /\ worker[s] = "unspawned" /\ UNCHANGED <<next, results, at, out, pipe, outcome>>
  BY DEF LinesInv, Spawn
<1>2. worker' = [worker EXCEPT ![s] = "open"] /\ child' = [child EXCEPT ![s] = "running"]
  BY DEF Spawn
<1>3. /\ worker'[s] = "open" /\ child'[s] = "running"
      /\ \A t \in Shards \ {s} : worker'[t] = worker[t] /\ child'[t] = child[t]
  BY <1>1, <1>2 DEF Inv, TypeOK
<1>4. Untouched(s) /\ Legible(s, next[s], results, outcome, Stream(s))
  BY <1>1 DEF LinesInv, Lines, Process
<1>5. Stream(s) = <<>>
  BY <1>4 DEF Untouched, Stream
<1>6. Ahead(next[s], results, at[s], out[s], Stream(s))
  <2>1. next[s] = s /\ at[s] = s /\ out[s] = <<>> /\ s \in Nat /\ ShardOf(s) = s
    BY <1>1, <1>4, ShardTypes DEF Untouched
  <2>2. Len(Stream(s)) = 0 /\ 1 .. Len(Stream(s)) = {}
    BY <1>5
  <2>3. s < NumCases => results[s] = <<>>
    BY <1>4, <2>1, PositionIsCase DEF Untouched
  <2> QED
    BY <2>1, <2>2, <2>3 DEF Ahead
<1>7. Lines(s)'
  <2>1. Stream(s)' = Stream(s)
    BY <1>1 DEF Stream
  <2> QED
    BY <1>1, <1>3, <1>4, <1>6, <2>1 DEF Lines, Process
<1>8. ASSUME NEW t \in Shards \ {s}
      PROVE  Lines(t)'
  BY <1>1, <1>3, LinesStay DEF LinesInv
<1> QED
  BY <1>7, <1>8

(* The parent takes the first token out of the pipe. *)
LEMMA StreamTail ==
  ASSUME Inv, NEW s \in Shards, pipe[s] # <<>>
  PROVE  /\ Stream(s) # <<>> /\ Stream(s)[1] = Head(pipe[s])
         /\ Tail(pipe[s]) \o out[s] = Tail(Stream(s))
         /\ out[s] # <<>> => Len(Stream(s)) >= 2
<1> DEFINE P == pipe[s]
           O == out[s]
           T == P \o O
<1>1. P \in Seq(Token) /\ O \in Seq(Token) /\ P # <<>>
  BY ShardTypes
<1> HIDE DEF P, O
<1>2. Len(P) \in Nat /\ Len(P) >= 1 /\ Len(O) \in Nat /\ (O # <<>> => Len(O) >= 1)
  BY <1>1
<1>3. /\ T \in Seq(Token) /\ Len(T) = Len(P) + Len(O)
      /\ \A j \in 1 .. Len(P) : T[j] = P[j]
      /\ \A j \in Len(P) + 1 .. Len(T) : T[j] = O[j - Len(P)]
  BY <1>1, ConcatIndex
<1> DEFINE Q == Tail(P)
           V == Q \o O
<1>4. /\ Len(Q) = Len(P) - 1 /\ Len(Q) \in Nat
      /\ \A j \in 1 .. Len(Q) : Q[j] = P[j + 1]
  BY <1>1, <1>2, TailIndex
<1>12. Q \in Seq(Token)
  BY <1>1
<1> HIDE DEF Q
<1>5. /\ V \in Seq(Token) /\ Len(V) = Len(Q) + Len(O)
      /\ \A j \in 1 .. Len(Q) : V[j] = Q[j]
      /\ \A j \in Len(Q) + 1 .. Len(V) : V[j] = O[j - Len(Q)]
  BY <1>1, <1>12, ConcatIndex
<1> HIDE DEF T, V
<1>6. T # <<>> /\ Len(T) >= 1
  BY <1>2, <1>3
<1>7. Tail(T) \in Seq(Token) /\ Len(Tail(T)) = Len(T) - 1 /\ \A j \in 1 .. Len(Tail(T)) : Tail(T)[j] = T[j + 1]
  BY <1>3, <1>6, TailIndex
<1>8. Len(V) = Len(Tail(T))
  BY <1>2, <1>3, <1>4, <1>5, <1>7
<1>9. ASSUME NEW j \in 1 .. Len(V)
      PROVE  V[j] = Tail(T)[j]
  <2>1. CASE j \in 1 .. Len(Q)
    <3>1. j + 1 \in 1 .. Len(P) /\ j \in 1 .. Len(Tail(T))
      BY <1>2, <1>4, <1>8, <2>1
    <3> QED
      BY <1>3, <1>4, <1>5, <1>7, <2>1, <3>1
  <2>2. CASE j \in Len(Q) + 1 .. Len(V)
    <3>1. j \in 1 .. Len(Tail(T)) /\ j + 1 \in Len(P) + 1 .. Len(T) /\ j + 1 - Len(P) = j - Len(Q)
      BY <1>2, <1>3, <1>4, <1>7, <1>8, <2>2
    <3>2. Tail(T)[j] = T[j + 1] /\ T[j + 1] = O[j + 1 - Len(P)] /\ V[j] = O[j - Len(Q)]
      BY <1>3, <1>5, <1>7, <2>2, <3>1
    <3> QED
      BY <3>1, <3>2
  <2>3. j \in 1 .. Len(Q) \/ j \in Len(Q) + 1 .. Len(V)
    BY <1>2, <1>4, <1>5
  <2> QED
    BY <2>1, <2>2, <2>3
<1>10. V = Tail(T)
  BY <1>5, <1>7, <1>8, <1>9, SeqEqual
<1>11. T[1] = Head(P)
  <2>1. T[1] = P[1]
    BY <1>2, <1>3
  <2> QED
    BY <1>1, <2>1
<1>13. out[s] # <<>> => Len(T) >= 2
  BY <1>2, <1>3 DEF O
<1>14. Stream(s) = T /\ Tail(pipe[s]) \o out[s] = V /\ Head(P) = Head(pipe[s])
  BY DEF Stream, T, V, Q, P, O
<1> QED
  BY <1>6, <1>10, <1>11, <1>13, <1>14

(* ... and comes no further than the process. *)
LEMMA AheadTail ==
  ASSUME NEW T \in Seq(Token), T # <<>>, NEW n \in Nat, NEW m \in Nat, NEW a \in Nat,
         NEW res, NEW new, NEW o, Ahead(n, res, a, o, T),
         o # <<>> => Len(T) >= 2,
         m <= a, o = <<>> /\ a < NumCases => new[a] = res[a]
  PROVE  Ahead(m, new, a, o, Tail(T))
<1> DEFINE U == Tail(T)
<1>1. /\ Len(U) = Len(T) - 1 /\ Len(T) \in Nat
      /\ \A j \in 1 .. Len(U) : j + 1 \in 1 .. Len(T) /\ U[j] = T[j + 1] /\ (HiAt(U, j) <=> HiAt(T, j + 1))
  BY TailIndex
<1> HIDE DEF U
<1>2. \A j \in 1 .. Len(U) : HiAt(U, j) => U[j].case <= a /\ (o = <<>> => U[j].case < a)
  BY <1>1 DEF Ahead
<1>3. o # <<>> => HiAt(U, Len(U)) /\ U[Len(U)].case = a
  <2> SUFFICES ASSUME o # <<>> PROVE HiAt(U, Len(U)) /\ U[Len(U)].case = a
    OBVIOUS
  <2>1. Len(U) \in 1 .. Len(U) /\ Len(U) + 1 = Len(T)
    BY <1>1
  <2>2. HiAt(T, Len(T)) /\ T[Len(T)].case = a
    BY DEF Ahead
  <2> QED
    BY <1>1, <2>1, <2>2
<1>4. Ahead(m, new, a, o, U)
  BY <1>2, <1>3 DEF Ahead
<1> QED
  BY <1>4 DEF U

LEMMA ReadFragmentLines ==
  ASSUME LinesInv, NEW s \in Shards, ReadFragment(s)
  PROVE  \A t \in Shards : Lines(t)'
<1>1. Inv /\ pipe[s] # <<>> /\ UNCHANGED <<worker, next, results, child, at, out, outcome>>
  BY DEF LinesInv, ReadFragment, childVars
<1>2. pipe'[s] = Tail(pipe[s]) /\ \A t \in Shards \ {s} : pipe'[t] = pipe[t]
  BY <1>1 DEF ReadFragment, Inv, TypeOK
<1> DEFINE T == Stream(s)
<1>3. T \in Seq(Token) /\ T # <<>> /\ Tail(pipe[s]) \o out[s] = Tail(T) /\ (out[s] # <<>> => Len(T) >= 2)
  BY <1>1, ShardTypes, StreamTail
<1>4. Stream(s)' = Tail(T)
  BY <1>1, <1>2, <1>3 DEF Stream
<1>5. Process(s) /\ Legible(s, next[s], results, outcome, T)
  BY DEF LinesInv, Lines
<1> HIDE DEF T
<1>6. Legible(s, next[s], results, outcome, Tail(T))
  BY <1>3, <1>5, SkipToken
<1>7. child[s] # "none"
  BY <1>1, <1>5 DEF Process, Untouched
<1>8. child[s] = "running" => Ahead(next[s], results, at[s], out[s], Tail(T))
  <2> SUFFICES ASSUME child[s] = "running" PROVE Ahead(next[s], results, at[s], out[s], Tail(T))
    OBVIOUS
  <2>1. Ahead(next[s], results, at[s], out[s], T)
    BY <1>5 DEF Process, T
  <2>2. next[s] \in Nat /\ at[s] \in Nat /\ next[s] <= at[s]
    BY <1>1, <2>1, ShardTypes DEF Ahead
  <2> QED
    BY <1>3, <2>1, <2>2, AheadTail
<1>9. Lines(s)'
  BY <1>1, <1>4, <1>5, <1>6, <1>7, <1>8 DEF Lines, Process
<1>10. ASSUME NEW t \in Shards \ {s}
       PROVE  Lines(t)'
  BY <1>1, <1>2, LinesStay DEF LinesInv
<1> QED
  BY <1>9, <1>10

(* The parent reads a line of shard s and moves to position m and table    *)
(* new: what that leaves to be read, and how far it came.                  *)
Records(s, m, new) ==
  /\ next' = [next EXCEPT ![s] = m] /\ results' = new /\ m \in Nat
  /\ Legible(s, m, new, outcome, Tail(Stream(s)))
  /\ \A p \in Cases : ShardOf(p) = s /\ next[s] <= p /\ p < m => new[p] \in {Crashed, outcome[p]}
  /\ \A p \in Cases : p # next[s] => new[p] = results[p]
  /\ \/ m = next[s] /\ new = results
     \/ /\ next[s] <= Stream(s)[1].case /\ HiAt(Stream(s), 1)
        /\ \/ m = next[s]
           \/ /\ m = next[s] + Workers
              /\ \A j \in 2 .. Len(Stream(s)) : HiAt(Stream(s), j) => next[s] < Stream(s)[j].case

LEMMA ReadLineRecords ==
  ASSUME LinesInv, NEW s \in Shards, ReadLine(s)
  PROVE  \E m, new : Records(s, m, new)
<1> DEFINE T == Stream(s)
           n == next[s]
<1>1. Inv /\ pipe[s] # <<>> /\ Head(pipe[s]).half = "hi" /\ Legible(s, n, results, outcome, T)
  BY DEF LinesInv, Lines, ReadLine
<1>2. T \in Seq(Token) /\ T # <<>> /\ T[1] = Head(pipe[s])
  BY <1>1, StreamTail, ShardTypes
<1>3. /\ n \in Nat /\ Workers \in Nat \ {0} /\ outcome \in [Cases -> Seq(Outcomes)]
      /\ Standing(s, n, results)
  BY <1>1, ShardTypes
<1> HIDE DEF T, n
<1>4. HiAt(T, 1)
  BY <1>1, <1>2 DEF HiAt
<1>5. CASE buffer[s] = Junk
  <2>1. next' = [next EXCEPT ![s] = n] /\ results' = results
    BY <1>5 DEF ReadLine, n
  <2>2. Legible(s, n, results, outcome, Tail(T))
    BY <1>1, <1>2, SkipToken
  <2>3. \A p \in Cases : ~ (n <= p /\ p < n)
    BY <1>3, PoolAssumption DEF Cases
  <2>4. Records(s, n, results)
    BY <1>3, <2>1, <2>2, <2>3 DEF Records, T, n
  <2> QED
    BY <2>4
<1>6. CASE buffer[s] # Junk
  <2> DEFINE rec == RecordLine(T[1].case, T[1].status, n, results)
  <2>1. next' = [next EXCEPT ![s] = rec.next] /\ results' = rec.results
    BY <1>2, <1>6 DEF ReadLine, n
  <2>2. LineRead(s, n, results, outcome, T, rec.next, rec.results)
    BY <1>1, <1>2, <1>3, <1>4, RecordLineReads
  <2> HIDE DEF rec
  <2>3. rec.next \in Nat
    BY <1>3, <2>2 DEF LineRead
  <2>4. /\ Legible(s, rec.next, rec.results, outcome, Tail(T))
        /\ \A p \in Cases : ShardOf(p) = s /\ n <= p /\ p < rec.next => rec.results[p] \in {Crashed, outcome[p]}
        /\ \A p \in Cases : p # n => rec.results[p] = results[p]
        /\ n <= T[1].case
        /\ \/ rec.next = n
           \/ rec.next = n + Workers /\ \A j \in 2 .. Len(T) : HiAt(T, j) => n < T[j].case
    BY <2>2 DEF LineRead
  <2>5. Records(s, rec.next, rec.results)
    BY <1>4, <2>1, <2>3, <2>4 DEF Records, T, n
  <2> QED
    BY <2>5
<1> QED
  BY <1>5, <1>6

LEMMA ReadLineLines ==
  ASSUME LinesInv, NEW s \in Shards, ReadLine(s)
  PROVE  VerdictsAreEarned' /\ \A t \in Shards : Lines(t)'
<1> DEFINE T == Stream(s)
           n == next[s]
<1>0. PICK m, new : Records(s, m, new)
  BY ReadLineRecords
<1>1. /\ next' = [next EXCEPT ![s] = m] /\ results' = new /\ m \in Nat
      /\ Legible(s, m, new, outcome, Tail(T))
      /\ \A p \in Cases : ShardOf(p) = s /\ n <= p /\ p < m => new[p] \in {Crashed, outcome[p]}
      /\ \A p \in Cases : p # n => new[p] = results[p]
      /\ \/ m = n /\ new = results
         \/ /\ n <= T[1].case /\ HiAt(T, 1)
            /\ \/ m = n
               \/ m = n + Workers /\ \A j \in 2 .. Len(T) : HiAt(T, j) => n < T[j].case
  BY <1>0 DEF Records
<1>2. Inv /\ pipe[s] # <<>> /\ UNCHANGED <<worker, child, at, out, outcome>>
  BY DEF LinesInv, ReadLine, childVars
<1>3. /\ pipe'[s] = Tail(pipe[s]) /\ \A t \in Shards \ {s} : pipe'[t] = pipe[t]
      /\ next'[s] = m /\ \A t \in Shards \ {s} : next'[t] = next[t]
  BY <1>1, <1>2 DEF ReadLine, Inv, TypeOK
<1>4. T \in Seq(Token) /\ T # <<>> /\ Tail(pipe[s]) \o out[s] = Tail(T) /\ (out[s] # <<>> => Len(T) >= 2)
  BY <1>2, ShardTypes, StreamTail
<1>5. Stream(s)' = Tail(T)
  BY <1>2, <1>3, <1>4 DEF Stream
<1>6. Process(s) /\ VerdictsAreEarned
  BY DEF LinesInv, Lines
<1>7. /\ n \in Nat /\ ShardOf(n) = s /\ at[s] \in Nat /\ ShardOf(at[s]) = s
      /\ Workers \in Nat \ {0} /\ NumCases \in Nat
  BY <1>2, ShardTypes
<1>8. child[s] # "none"
  BY <1>2, <1>6 DEF Process, Untouched
<1>9. child[s] = "running" => Ahead(m, new, at[s], out[s], Tail(T))
  <2> SUFFICES ASSUME child[s] = "running" PROVE Ahead(m, new, at[s], out[s], Tail(T))
    OBVIOUS
  <2>1. Ahead(n, results, at[s], out[s], T)
    BY <1>6 DEF Process
  <2> HIDE DEF T, n
  <2>2. CASE m = n /\ new = results
    <3>1. m <= at[s]
      BY <2>1, <2>2 DEF Ahead
    <3> QED
      BY <1>4, <1>7, <2>1, <2>2, <3>1, AheadTail
  <2>3. CASE n <= T[1].case /\ HiAt(T, 1)
    <3>1. Len(T) \in Nat /\ 1 \in 1 .. Len(T) /\ T[1].case <= at[s] /\ (out[s] = <<>> => T[1].case < at[s])
      BY <1>4, <2>1, <2>3 DEF HiAt, Ahead
    <3>2. T[1].case \in Nat
      <4>1. T[1] \in Token /\ T[1] # Junk
        BY <1>4, <2>3, <3>1 DEF HiAt, Junk
      <4> QED
        BY <4>1, PoolAssumption DEF Token, Cases
    <3>3. out[s] = <<>> => n < at[s]
      BY <1>7, <2>3, <3>1, <3>2
    <3>4. out[s] = <<>> /\ at[s] < NumCases => new[at[s]] = results[at[s]]
      BY <1>1, <1>7, <3>3, PositionIsCase
    <3>5. m <= at[s]
      <4>1. CASE m = n
        BY <2>1, <4>1 DEF Ahead
      <4>2. CASE m = n + Workers /\ \A j \in 2 .. Len(T) : HiAt(T, j) => n < T[j].case
        <5>1. out[s] # <<>> => n < at[s]
          BY <1>4, <2>1, <3>1, <4>2 DEF Ahead, HiAt
        <5> QED
          BY <1>7, <3>3, <4>2, <5>1, ModGap DEF ShardOf
      <4> QED
        BY <1>1, <2>1, <4>1, <4>2 DEF Ahead
    <3> QED
      BY <1>1, <1>4, <1>7, <2>1, <3>4, <3>5, AheadTail
  <2> QED
    BY <1>1, <2>2, <2>3
<1> HIDE DEF T, n
<1>10. Lines(s)'
  BY <1>1, <1>2, <1>3, <1>5, <1>6, <1>8, <1>9 DEF Lines, Process
<1>11. ASSUME NEW t \in Shards \ {s}
       PROVE  Lines(t)'
  <2>1. \A p \in Cases : ShardOf(p) = t => results'[p] = results[p]
    BY <1>1, <1>7
  <2> QED
    BY <1>2, <1>3, <2>1, LinesStay DEF LinesInv
<1>12. VerdictsAreEarned'
  <2> SUFFICES ASSUME NEW p \in Cases, Settled(p)'
               PROVE  results'[p] \in {Crashed, outcome'[p]}
    BY DEF VerdictsAreEarned
  <2>1. ShardOf(p) \in Shards /\ p \in Nat
    BY ShardOfCase
  <2>2. CASE ShardOf(p) = s /\ n <= p
    BY <1>1, <1>2, <1>3, <2>2 DEF Settled
  <2>3. CASE ShardOf(p) = s /\ ~ (n <= p)
    <3>1. p < n /\ p # n
      BY <1>7, <2>1, <2>3
    <3>2. Settled(p)
      BY <2>3, <3>1 DEF Settled, n
    <3> QED
      BY <1>1, <1>2, <1>6, <3>1, <3>2 DEF VerdictsAreEarned
  <2>4. CASE ShardOf(p) # s
    <3>1. Settled(p) /\ p # n
      BY <1>3, <1>7, <2>1, <2>4 DEF Settled
    <3> QED
      BY <1>1, <1>2, <1>6, <3>1 DEF VerdictsAreEarned
  <2> QED
    BY <2>2, <2>3, <2>4
<1> QED
  BY <1>10, <1>11, <1>12

(* The shard moves from (n, res) to (m, new) by blaming what it passes. *)
Blames(s, n, res, m, new) ==
  /\ Move(s, n, res, m, new)
  /\ \A p \in Cases : ShardOf(p) = s /\ n <= p /\ p < m => new[p] = Crashed

LEMMA BlameFirst ==
  ASSUME NEW s \in Shards, NEW n, NEW res, Standing(s, n, res), n < NumCases
  PROVE  /\ Blames(s, n, res, n + Workers, [res EXCEPT ![n] = Crashed])
         /\ n + Workers < NumCases => [res EXCEPT ![n] = Crashed][n + Workers] = <<>>
<1> DEFINE new == [res EXCEPT ![n] = Crashed]
           m == n + Workers
<1>1. n \in Nat /\ n \in Cases /\ ShardOf(n) = s /\ res \in Table /\ ShardShape(s, n, res)
      /\ Workers \in Nat \ {0} /\ NumCases \in Nat
  BY PoolAssumption, PositionIsCase DEF Standing
<1>2. Crashed \in Seq(Row)
  BY DEF Crashed, Row
<1>3. Move(s, n, res, m, new)
  BY <1>2, SettleFirst
<1>4. new[n] = Crashed /\ \A p \in Cases : p # n => new[p] = res[p]
  BY <1>1 DEF Table
<1>5. m \in Nat /\ ShardOf(m) = s /\ n < m
  BY <1>1, NextInShard
<1> HIDE DEF new
<1>6. ASSUME NEW p \in Cases, ShardOf(p) = s, n <= p, p < m
      PROVE  new[p] = Crashed
  <2>1. p \in Nat
    BY PoolAssumption DEF Cases
  <2>2. n < p => m <= p
    BY <1>1, <1>6, <2>1, ModGap DEF ShardOf
  <2>3. p = n
    BY <1>1, <1>6, <2>1, <2>2
  <2> QED
    BY <1>4, <2>3
<1> HIDE DEF m
<1>7. m < NumCases => new[m] = <<>>
  <2> SUFFICES ASSUME m < NumCases PROVE new[m] = <<>>
    OBVIOUS
  <2>1. m \in Cases /\ m # n /\ ~ (m < n)
    BY <1>1, <1>5, PositionIsCase
  <2> QED
    BY <1>1, <1>4, <1>5, <2>1 DEF ShardShape
<1> QED
  BY <1>3, <1>6, <1>7 DEF Blames, new, m

LEMMA BlamesTwice ==
  ASSUME NEW s, NEW n \in Nat, NEW res, NEW m, NEW mid, NEW k, NEW new,
         Blames(s, n, res, m, mid), Blames(s, m, mid, k, new)
  PROVE  Blames(s, n, res, k, new)
<1>1. Move(s, n, res, k, new)
  BY MoveTwice DEF Blames
<1>2. m \in Nat /\ Move(s, m, mid, k, new)
  BY DEF Blames, Move, Standing
<1>3. ASSUME NEW p \in Cases, ShardOf(p) = s, n <= p, p < k
      PROVE  new[p] = Crashed
  <2>1. p \in Nat
    BY PoolAssumption DEF Cases
  <2>2. CASE p < m
    BY <1>2, <1>3, <2>2 DEF Blames, Move
  <2>3. CASE m <= p
    BY <1>3, <2>3 DEF Blames
  <2> QED
    BY <1>2, <2>1, <2>2, <2>3
<1> QED
  BY <1>1, <1>3 DEF Blames

LEMMA BlamesNone ==
  ASSUME NEW s, NEW n, NEW res, Standing(s, n, res)
  PROVE  Blames(s, n, res, n, res)
<1>1. n \in Nat /\ \A p \in Cases : p \in Nat
  BY PoolAssumption DEF Standing, Cases
<1> QED
  BY <1>1, MoveStays DEF Blames

(* A torn line at the end of the stream credits no row to any case. *)
LEMMA AtEofBlames ==
  ASSUME Inv, NEW s \in Shards
  PROVE  Blames(s, next[s], results, AtEof(s).next, AtEof(s).results)
<1> DEFINE n == next[s]
           rec == IF buffer[s].half = "lo"
                  THEN RecordLine(TornQuery, "pass", n, results)
                  ELSE [next |-> n, results |-> results]
<1>1. Standing(s, n, results) /\ n \in Nat /\ NumCases \in Nat
  BY ShardTypes
<1>2. Blames(s, n, results, rec.next, rec.results)
  <2>1. CASE buffer[s].half = "lo" /\ n < NumCases
    <3>1. TornQuery # n
      BY <1>1 DEF TornQuery
    <3>2. rec = [next |-> n + Workers, results |-> [results EXCEPT ![n] = Crashed]]
      BY <1>1, <2>1, <3>1 DEF RecordLine
    <3> HIDE DEF rec, n
    <3>3. rec.next = n + Workers /\ rec.results = [results EXCEPT ![n] = Crashed]
      BY <3>2
    <3> QED
      BY <1>1, <2>1, <3>3, BlameFirst
  <2>2. CASE ~ (buffer[s].half = "lo" /\ n < NumCases)
    <3>1. rec = [next |-> n, results |-> results]
      BY <1>1, <2>2 DEF RecordLine
    <3>2. rec.next = n /\ rec.results = results
      BY <3>1
    <3> HIDE DEF rec, n
    <3> QED
      BY <1>1, <3>2, BlamesNone
  <2> QED
    BY <2>1, <2>2
<1>3. Advanced(rec.next, rec.results) = rec.next
  <2> HIDE DEF rec
  <2>1. Standing(s, rec.next, rec.results)
    BY <1>2 DEF Blames, Move
  <2> QED
    BY <2>1, NothingToAdvance
<1>4. rec = [next |-> rec.next, results |-> rec.results]
  BY DEF RecordLine
<1>5. AtEof(s) = [rec EXCEPT !.next = Advanced(rec.next, rec.results)]
  BY DEF AtEof
<1> HIDE DEF rec
<1>6. AtEof(s).next = rec.next /\ AtEof(s).results = rec.results
  BY <1>3, <1>4, <1>5
<1> QED
  BY <1>2, <1>6

(* What a worker's end makes of its shard, position m and table new. *)
LEMMA FinishWorkerBlames ==
  ASSUME Inv, NEW s \in Shards, FinishWorker(s)
  PROVE  \E m, new : /\ next' = [next EXCEPT ![s] = m] /\ results' = new
                     /\ Blames(s, next[s], results, m, new)
                     /\ IF m < NumCases
                        THEN /\ new[m] = <<>>
                             /\ child' = [child EXCEPT ![s] = "running"]
                             /\ at' = [at EXCEPT ![s] = m] /\ worker' = worker
                        ELSE /\ worker' = [worker EXCEPT ![s] = "closed"]
                             /\ UNCHANGED <<child, at>>
<1> DEFINE eof == AtEof(s)
           n == next[s]
           blame == eof.next < NumCases
           m == IF blame THEN eof.next + Workers ELSE eof.next
           new == IF blame THEN [eof.results EXCEPT ![eof.next] = Crashed] ELSE eof.results
<1>1. next' = [next EXCEPT ![s] = m] /\ results' = new
  BY DEF FinishWorker, AfterBlame
<1>2. IF m < NumCases
      THEN child' = [child EXCEPT ![s] = "running"] /\ at' = [at EXCEPT ![s] = m] /\ worker' = worker
      ELSE worker' = [worker EXCEPT ![s] = "closed"] /\ UNCHANGED <<child, at>>
  BY DEF FinishWorker, AfterBlame, ShardFrom
<1>3. Blames(s, n, results, eof.next, eof.results) /\ n \in Nat /\ NumCases \in Nat
  BY AtEofBlames, ShardTypes
<1> HIDE DEF eof, n
<1>4. Standing(s, eof.next, eof.results)
  BY <1>3 DEF Blames, Move
<1>5. Blames(s, n, results, m, new) /\ (m < NumCases => new[m] = <<>>)
  <2>1. CASE blame
    <3>1. m = eof.next + Workers /\ new = [eof.results EXCEPT ![eof.next] = Crashed]
      BY <2>1
    <3>2. /\ Blames(s, eof.next, eof.results, eof.next + Workers, [eof.results EXCEPT ![eof.next] = Crashed])
          /\ eof.next + Workers < NumCases => [eof.results EXCEPT ![eof.next] = Crashed][eof.next + Workers] = <<>>
      BY <1>4, <2>1, BlameFirst
    <3> HIDE DEF m, new
    <3> QED
      BY <1>3, <3>1, <3>2, BlamesTwice
  <2>2. CASE ~ blame
    <3>1. m = eof.next /\ new = eof.results /\ ~ (m < NumCases)
      BY <2>2
    <3> HIDE DEF m, new
    <3> QED
      BY <1>3, <3>1
  <2> QED
    BY <2>1, <2>2
<1> HIDE DEF m, new
<1> QED
  BY <1>1, <1>2, <1>5 DEF n

LEMMA FinishWorkerLines ==
  ASSUME LinesInv, NEW s \in Shards, FinishWorker(s)
  PROVE  VerdictsAreEarned' /\ \A t \in Shards : Lines(t)'
<1> DEFINE n == next[s]
<1>1. PICK m, new : /\ next' = [next EXCEPT ![s] = m] /\ results' = new
                    /\ Blames(s, n, results, m, new)
                    /\ IF m < NumCases
                       THEN /\ new[m] = <<>>
                            /\ child' = [child EXCEPT ![s] = "running"]
                            /\ at' = [at EXCEPT ![s] = m] /\ worker' = worker
                       ELSE /\ worker' = [worker EXCEPT ![s] = "closed"]
                            /\ UNCHANGED <<child, at>>
  BY FinishWorkerBlames DEF LinesInv
<1>2. /\ Inv /\ Process(s) /\ VerdictsAreEarned /\ UNCHANGED <<out, pipe, outcome>>
      /\ pipe[s] = <<>> /\ child[s] \in {"exited", "aborted"} /\ worker[s] = "open"
  BY DEF LinesInv, Lines, FinishWorker, Eof, Reading
<1>3. n \in Nat /\ ShardOf(n) = s /\ m \in Nat /\ NumCases \in Nat
  BY <1>1, <1>2, ShardTypes DEF Blames, Move, Standing
<1>4. out[s] = <<>>
  BY <1>2 DEF Process
<1>5. Stream(s)' = <<>>
  BY <1>2, <1>4 DEF Stream
<1>6. /\ next'[s] = m
      /\ \A t \in Shards \ {s} : worker'[t] = worker[t] /\ child'[t] = child[t] /\ at'[t] = at[t] /\ next'[t] = next[t]
      /\ worker'[s] # "unspawned" /\ child'[s] # "none"
      /\ child'[s] = "running" => m < NumCases /\ at'[s] = m
  BY <1>1, <1>2, <1>3 DEF Inv, TypeOK
<1> HIDE DEF n
<1>7. child'[s] = "running" => Ahead(m, new, at'[s], out'[s], <<>>)
  <2>1. 1 .. Len(<<>>) = {}
    OBVIOUS
  <2> QED
    BY <1>1, <1>2, <1>3, <1>4, <1>6, <2>1 DEF Ahead
<1>8. Process(s)'
  BY <1>1, <1>2, <1>4, <1>5, <1>6, <1>7 DEF Process
<1>9. Legible(s, next[s], results, outcome, Stream(s))'
  BY <1>5, NothingToRead
<1>10. ASSUME NEW t \in Shards \ {s}
       PROVE  Lines(t)'
  <2>1. \A p \in Cases : ShardOf(p) = t => results'[p] = results[p]
    BY <1>1 DEF Blames, Move
  <2> QED
    BY <1>2, <1>6, <2>1, LinesStay DEF LinesInv
<1>11. VerdictsAreEarned'
  <2> SUFFICES ASSUME NEW p \in Cases, Settled(p)'
               PROVE  results'[p] \in {Crashed, outcome'[p]}
    BY DEF VerdictsAreEarned
  <2>1. ShardOf(p) \in Shards /\ p \in Nat
    BY ShardOfCase
  <2>2. CASE ShardOf(p) = s /\ n <= p
    BY <1>1, <1>6, <2>2 DEF Settled, Blames
  <2>3. CASE ShardOf(p) = s /\ ~ (n <= p)
    <3>1. p < n /\ results'[p] = results[p]
      BY <1>1, <1>3, <2>1, <2>3 DEF Blames, Move
    <3>2. Settled(p)
      BY <2>3, <3>1 DEF Settled, n
    <3> QED
      BY <1>2, <3>1, <3>2 DEF VerdictsAreEarned
  <2>4. CASE ShardOf(p) # s
    <3>1. Settled(p) /\ results'[p] = results[p]
      BY <1>1, <1>6, <2>1, <2>4 DEF Settled, Blames, Move
    <3> QED
      BY <1>2, <3>1 DEF VerdictsAreEarned
  <2> QED
    BY <2>2, <2>3, <2>4
<1> QED
  BY <1>8, <1>9, <1>10, <1>11 DEF Lines

LEMMA RunCaseLines ==
  ASSUME LinesInv, NEW s \in Shards, RunCase(s)
  PROVE  VerdictsAreEarned' /\ \A t \in Shards : Lines(t)'
<1> DEFINE n == next[s]
           p == at[s]
           P == pipe[s]
<1>1. /\ Inv /\ Process(s) /\ Legible(s, n, results, outcome, Stream(s)) /\ VerdictsAreEarned
      /\ child[s] = "running" /\ p < NumCases /\ out[s] = <<>>
      /\ UNCHANGED <<worker, next, results, child, at, pipe>>
  BY DEF LinesInv, Lines, RunCase, Alive, parentVars
<1>2. /\ n \in Nat /\ ShardOf(n) = s /\ p \in Nat /\ ShardOf(p) = s /\ NumCases \in Nat
      /\ P \in Seq(Token) /\ outcome \in [Cases -> Seq(Outcomes)]
  BY <1>1, ShardTypes
<1>3. p \in Cases
  BY <1>1, <1>2, PositionIsCase
<1>4. PICK rows \in [1 .. ResultCount[p] -> Outcomes] :
        outcome' = [outcome EXCEPT ![p] = rows] /\ out' = [out EXCEPT ![s] = RowLines(p, rows)]
  BY DEF RunCase
<1>5. rows \in Seq(Outcomes) /\ Len(rows) = ResultCount[p]
  <2>1. ResultCount[p] \in Nat
    BY <1>3, PoolAssumption
  <2> QED
    BY <2>1
<1> DEFINE L == RowLines(p, rows)
           T == P \o L
<1>6. out'[s] = L /\ \A t \in Shards \ {s} : out'[t] = out[t]
  BY <1>1, <1>4 DEF Inv, TypeOK
<1>7. Stream(s) = P /\ Stream(s)' = T
  BY <1>1, <1>2, <1>6 DEF Stream
<1>8. Ahead(n, results, p, <<>>, P)
  BY <1>1, <1>7 DEF Process
<1> HIDE DEF n, p, P
<1>9. n <= p /\ results[p] = <<>> /\ \A j \in 1 .. Len(P) : HiAt(P, j) => P[j].case < p
  BY <1>1, <1>8 DEF Ahead
<1>10. Legible(s, n, results, [outcome EXCEPT ![p] = rows], T)
  BY <1>1, <1>2, <1>3, <1>5, <1>7, <1>9, AppendRun
<1>11. /\ L \in Seq(Token) /\ Len(L) = 2 * ResultCount[p] /\ ResultCount[p] \in Nat \ {0}
       /\ HiAt(L, 2 * ResultCount[p])
       /\ \A i \in 1 .. 2 * ResultCount[p] : HiAt(L, i) => L[i].case = p
  BY <1>3, <1>5, RowLinesEnds, PoolAssumption
<1> HIDE DEF L
<1>12. /\ Len(P) \in Nat /\ Len(L) \in Nat /\ Len(T) = Len(P) + Len(L)
       /\ \A j \in 1 .. Len(P) : T[j] = P[j] /\ (HiAt(T, j) <=> HiAt(P, j))
       /\ \A j \in Len(P) + 1 .. Len(T) : j - Len(P) \in 1 .. Len(L) /\ T[j] = L[j - Len(P)]
                                          /\ (HiAt(T, j) <=> HiAt(L, j - Len(P)))
  BY <1>2, <1>11, ConcatIndex
<1> HIDE DEF T
<1>13. \A j \in Len(P) + 1 .. Len(T) : HiAt(T, j) => T[j].case = p
  BY <1>11, <1>12
<1>14. \A j \in 1 .. Len(T) : HiAt(T, j) => T[j].case <= p
  <2> SUFFICES ASSUME NEW j \in 1 .. Len(T), HiAt(T, j)
               PROVE  T[j].case <= p
    OBVIOUS
  <2>1. CASE j \in 1 .. Len(P)
    <3>1. HiAt(P, j) /\ T[j] = P[j] /\ P[j].case < p
      BY <1>9, <1>12, <2>1
    <3>2. P[j] \in Token /\ P[j] # Junk
      BY <1>2, <2>1, <3>1 DEF HiAt, Junk
    <3>3. P[j].case \in Nat
      BY <3>2, PoolAssumption DEF Token, Cases
    <3> QED
      BY <1>2, <3>1, <3>3
  <2>2. CASE j \in Len(P) + 1 .. Len(T)
    BY <1>2, <1>13, <2>2
  <2> QED
    BY <1>12, <2>1, <2>2
<1>15. HiAt(T, Len(T)) /\ T[Len(T)].case = p
  <2>1. Len(T) \in Len(P) + 1 .. Len(T) /\ Len(T) - Len(P) = 2 * ResultCount[p]
    BY <1>11, <1>12
  <2>2. HiAt(T, Len(T))
    BY <1>11, <1>12, <2>1
  <2> QED
    BY <1>13, <2>1, <2>2
<1>16. L # <<>>
  BY <1>11
<1>17. Ahead(n, results, p, L, T)
  BY <1>1, <1>9, <1>14, <1>15, <1>16 DEF Ahead
<1>18. Lines(s)'
  BY <1>1, <1>4, <1>6, <1>7, <1>10, <1>17 DEF Lines, Process, n, p
<1>19. \A q \in Cases : q # p => outcome'[q] = outcome[q]
  BY <1>2, <1>4
<1>20. ASSUME NEW t \in Shards \ {s}
       PROVE  Lines(t)'
  <2>1. \A q \in Cases : ShardOf(q) = t => outcome'[q] = outcome[q]
    BY <1>2, <1>19
  <2> QED
    BY <1>1, <1>6, <2>1, LinesStay DEF LinesInv
<1>21. ~ Settled(p)
  BY <1>2, <1>9 DEF Settled, n
<1>22. \A q \in Cases : Settled(q)' => Settled(q) /\ results'[q] = results[q] /\ outcome'[q] = outcome[q]
  BY <1>1, <1>19, <1>21 DEF Settled
<1> QED
  BY <1>1, <1>18, <1>20, <1>22, VerdictsStay

LEMMA EmitLines ==
  ASSUME LinesInv, NEW s \in Shards, Emit(s)
  PROVE  \A t \in Shards : Lines(t)'
<1> DEFINE n == next[s]
           a == at[s]
           P == pipe[s]
           O == out[s]
           T == Stream(s)
<1>1. /\ Inv /\ Process(s) /\ Legible(s, n, results, outcome, T)
      /\ child[s] = "running" /\ O # <<>>
      /\ UNCHANGED <<worker, next, results, child, outcome>>
  BY DEF LinesInv, Lines, Emit, Alive, parentVars
<1>2. /\ n \in Nat /\ ShardOf(n) = s /\ a \in Nat /\ ShardOf(a) = s /\ NumCases \in Nat /\ Workers \in Nat \ {0}
      /\ P \in Seq(Token) /\ O \in Seq(Token) /\ T \in Seq(Token) /\ Standing(s, n, results)
  BY <1>1, ShardTypes
<1>3. PICK k \in 1 .. Len(O) :
        /\ pipe' = [pipe EXCEPT ![s] = P \o SubSeq(O, 1, k)]
        /\ out'  = [out EXCEPT ![s] = SubSeq(O, k + 1, Len(O))]
        /\ at'   = [at EXCEPT ![s] = IF k = Len(O) THEN a + Workers ELSE a]
  BY DEF Emit
<1> DEFINE more == SubSeq(O, 1, k)
           left == SubSeq(O, k + 1, Len(O))
           b == IF k = Len(O) THEN a + Workers ELSE a
<1>4. /\ pipe'[s] = P \o more /\ out'[s] = left /\ at'[s] = b
      /\ \A t \in Shards \ {s} : pipe'[t] = pipe[t] /\ out'[t] = out[t] /\ at'[t] = at[t]
  BY <1>1, <1>3 DEF Inv, TypeOK
<1> HIDE DEF n, a, P, O
<1>5. more \in Seq(Token) /\ left \in Seq(Token) /\ Len(left) = Len(O) - k /\ Len(O) \in Nat
  BY <1>2
<1>6. more \o left = O
  <2>1. 1 \in 1 .. Len(O) + 1 /\ k \in 1 - 1 .. Len(O) /\ Len(O) \in k .. Len(O)
    BY <1>5
  <2>2. more \o left = SubSeq(O, 1, Len(O))
    BY <1>2, <2>1, ConcatAdjacentSubSeq
  <2> QED
    BY <1>2, <2>2, SubSeqFull
<1> HIDE DEF more, left
<1>7. Stream(s)' = T
  <2>1. (P \o more) \o left = P \o (more \o left)
    BY <1>2, <1>5, ConcatTwice
  <2> QED
    BY <1>4, <1>6, <2>1 DEF Stream, P, O
<1>8. Ahead(n, results, a, O, T)
  BY <1>1 DEF Process, n, a, O
<1> HIDE DEF T
<1>9. Ahead(n, results, b, left, T)
  <2>1. CASE k # Len(O)
    <3>1. b = a /\ left # <<>>
      BY <1>5, <2>1
    <3> HIDE DEF b
    <3> QED
      BY <1>1, <1>8, <3>1 DEF Ahead
  <2>2. CASE k = Len(O)
    <3>1. b = a + Workers /\ left = <<>> /\ a < b
      BY <1>2, <1>5, <2>2
    <3> HIDE DEF b
    <3>2. b \in Nat /\ ShardOf(b) = s /\ n <= a /\ n < b
      BY <1>2, <1>8, <3>1, NextInShard DEF Ahead
    <3>3. \A j \in 1 .. Len(T) : HiAt(T, j) => T[j].case < b /\ T[j].case <= b
      <4> SUFFICES ASSUME NEW j \in 1 .. Len(T), HiAt(T, j)
                   PROVE  T[j].case < b /\ T[j].case <= b
        OBVIOUS
      <4>1. T[j] \in Token /\ T[j] # Junk
        BY <1>2 DEF HiAt, Junk
      <4>2. T[j].case \in Nat
        BY <4>1, PoolAssumption DEF Token, Cases
      <4>3. T[j].case <= a
        BY <1>8 DEF Ahead
      <4> QED
        BY <1>2, <3>1, <3>2, <4>2, <4>3
    <3>4. b < NumCases => results[b] = <<>>
      <4> SUFFICES ASSUME b < NumCases PROVE results[b] = <<>>
        OBVIOUS
      <4>1. b \in Cases /\ ~ (b < n) /\ b # n
        BY <1>2, <3>2, PositionIsCase
      <4> QED
        BY <1>2, <3>2, <4>1 DEF Standing, ShardShape
    <3> QED
      BY <1>2, <3>1, <3>2, <3>3, <3>4 DEF Ahead
  <2> QED
    BY <2>1, <2>2
<1> HIDE DEF b
<1>10. Lines(s)'
  BY <1>1, <1>4, <1>7, <1>9 DEF Lines, Process, n
<1>11. ASSUME NEW t \in Shards \ {s}
       PROVE  Lines(t)'
  BY <1>1, <1>4, LinesStay DEF LinesInv
<1> QED
  BY <1>10, <1>11

LEMMA NoiseLines ==
  ASSUME LinesInv, NEW s \in Shards, Noise(s)
  PROVE  \A t \in Shards : Lines(t)'
<1> DEFINE n == next[s]
           P == pipe[s]
           T == Append(P, Junk)
<1>1. /\ Inv /\ Process(s) /\ Legible(s, n, results, outcome, Stream(s))
      /\ child[s] = "running" /\ out[s] = <<>>
      /\ UNCHANGED <<worker, next, results, child, at, out, outcome>>
  BY DEF LinesInv, Lines, Noise, Alive, parentVars
<1>2. P \in Seq(Token) /\ n \in Nat /\ at[s] \in Nat
  BY <1>1, ShardTypes
<1>3. pipe'[s] = T /\ \A t \in Shards \ {s} : pipe'[t] = pipe[t]
  BY <1>1 DEF Noise, Inv, TypeOK
<1>4. T \in Seq(Token)
  BY <1>2 DEF Token
<1>5. Stream(s) = P /\ Stream(s)' = T
  <2> HIDE DEF T
  <2> QED
    BY <1>1, <1>2, <1>3, <1>4 DEF Stream
<1>6. Ahead(n, results, at[s], <<>>, P)
  BY <1>1, <1>5 DEF Process
<1>7. /\ Len(P) \in Nat /\ Len(T) = Len(P) + 1 /\ T[Len(P) + 1] = Junk
      /\ \A j \in 1 .. Len(P) : T[j] = P[j]
  BY <1>2, AppendProperties DEF Token
<1> HIDE DEF n, P, T
<1>8. Legible(s, n, results, outcome, T)
  BY <1>1, <1>2, <1>5, AppendJunk DEF T
<1>9. \A j \in 1 .. Len(T) : HiAt(T, j) => j \in 1 .. Len(P) /\ HiAt(P, j) /\ T[j] = P[j]
  <2> SUFFICES ASSUME NEW j \in 1 .. Len(T), HiAt(T, j)
               PROVE  j \in 1 .. Len(P)
    BY <1>7 DEF HiAt
  <2>1. j # Len(P) + 1
    BY <1>7 DEF HiAt, Junk
  <2> QED
    BY <1>7, <2>1
<1>10. Ahead(n, results, at[s], <<>>, T)
  BY <1>6, <1>9 DEF Ahead
<1>11. Lines(s)'
  BY <1>1, <1>5, <1>8, <1>10 DEF Lines, Process, n
<1>12. ASSUME NEW t \in Shards \ {s}
       PROVE  Lines(t)'
  BY <1>1, <1>3, LinesStay DEF LinesInv
<1> QED
  BY <1>11, <1>12

LEMMA ExitLines ==
  ASSUME LinesInv, NEW s \in Shards, Exit(s)
  PROVE  \A t \in Shards : Lines(t)'
<1>1. /\ Inv /\ Lines(s) /\ child[s] = "running" /\ at[s] >= NumCases
      /\ UNCHANGED <<worker, next, results, at, out, pipe, outcome>>
  BY DEF LinesInv, Exit, Alive, parentVars
<1>2. child'[s] = "exited" /\ \A t \in Shards \ {s} : child'[t] = child[t]
  BY <1>1 DEF Exit, Inv, TypeOK
<1>3. at[s] \in Nat /\ NumCases \in Nat
  BY <1>1, ShardTypes
<1>4. out[s] = <<>>
  BY <1>1, <1>3 DEF Lines, Process, Ahead
<1>5. Stream(s)' = Stream(s)
  BY <1>1 DEF Stream
<1>6. worker'[s] # "unspawned"
  BY <1>1 DEF Lines, Process
<1>7. Lines(s)'
  BY <1>1, <1>2, <1>4, <1>5, <1>6 DEF Lines, Process
<1>8. ASSUME NEW t \in Shards \ {s}
      PROVE  Lines(t)'
  BY <1>1, <1>2, LinesStay DEF LinesInv
<1> QED
  BY <1>7, <1>8

LEMMA AbortLines ==
  ASSUME LinesInv, NEW s \in Shards, Abort(s)
  PROVE  \A t \in Shards : Lines(t)'
<1>1. /\ Inv /\ Lines(s) /\ child[s] = "running"
      /\ UNCHANGED <<worker, next, results, at, pipe, outcome>>
  BY DEF LinesInv, Abort, Alive, parentVars
<1>2. /\ child'[s] = "aborted" /\ out'[s] = <<>>
      /\ \A t \in Shards \ {s} : child'[t] = child[t] /\ out'[t] = out[t]
  BY <1>1 DEF Abort, Inv, TypeOK
<1>3. pipe[s] \in Seq(Token) /\ out[s] \in Seq(Token)
  BY <1>1, ShardTypes
<1>4. Stream(s)' = pipe[s]
  BY <1>1, <1>2, <1>3 DEF Stream
<1>5. Legible(s, next[s], results, outcome, pipe[s])
  BY <1>1, <1>3, LosesEnd DEF Lines, Stream
<1>6. worker'[s] # "unspawned"
  BY <1>1 DEF Lines, Process
<1>7. Lines(s)'
  BY <1>1, <1>2, <1>4, <1>5, <1>6 DEF Lines, Process
<1>8. ASSUME NEW t \in Shards \ {s}
      PROVE  Lines(t)'
  BY <1>1, <1>2, LinesStay DEF LinesInv
<1> QED
  BY <1>7, <1>8

LEMMA LinesNext ==
  ASSUME LinesInv, [Next]_vars
  PROVE  LinesInv'
<1>1. Inv /\ VerdictsAreEarned /\ Inv' /\ \A t \in Shards : Lines(t)
  BY InvNext DEF LinesInv
<1>2. ASSUME UNCHANGED <<next, results, outcome>>
      PROVE  VerdictsAreEarned'
  BY <1>1, <1>2, VerdictsStay DEF Settled
<1>3. ASSUME UNCHANGED <<worker, next, results, child, at, out, pipe, outcome>>
      PROVE  LinesInv'
  <2>1. \A t \in Shards : Lines(t)'
    BY <1>1, <1>3, LinesStay
  <2> QED
    BY <1>1, <1>2, <1>3, <2>1 DEF LinesInv
<1>4. ASSUME NEW s \in Shards, Spawn(s)
      PROVE  LinesInv'
  BY <1>1, <1>2, <1>4, SpawnLines DEF LinesInv, Spawn
<1>5. ASSUME NEW s \in Shards, ReadFragment(s)
      PROVE  LinesInv'
  BY <1>1, <1>2, <1>5, ReadFragmentLines DEF LinesInv, ReadFragment, childVars
<1>6. ASSUME NEW s \in Shards, ReadLine(s)
      PROVE  LinesInv'
  BY <1>1, <1>6, ReadLineLines DEF LinesInv
<1>7. ASSUME NEW s \in Shards, FinishWorker(s)
      PROVE  LinesInv'
  BY <1>1, <1>7, FinishWorkerLines DEF LinesInv
<1>8. ASSUME NEW s \in Shards, RunCase(s)
      PROVE  LinesInv'
  BY <1>1, <1>8, RunCaseLines DEF LinesInv
<1>9. ASSUME NEW s \in Shards, Emit(s)
      PROVE  LinesInv'
  BY <1>1, <1>2, <1>9, EmitLines DEF LinesInv, Emit, parentVars
<1>10. ASSUME NEW s \in Shards, Noise(s)
       PROVE  LinesInv'
  BY <1>1, <1>2, <1>10, NoiseLines DEF LinesInv, Noise, parentVars
<1>11. ASSUME NEW s \in Shards, Exit(s)
       PROVE  LinesInv'
  BY <1>1, <1>2, <1>11, ExitLines DEF LinesInv, Exit, parentVars
<1>12. ASSUME NEW s \in Shards, Abort(s)
       PROVE  LinesInv'
  BY <1>1, <1>2, <1>12, AbortLines DEF LinesInv, Abort, parentVars
<1>13. CASE Merge
  <2>1. results' = results
    BY <1>1, <1>13, AllSettledAtMerge DEF Merge, Inv, TypeOK
  <2> QED
    BY <1>3, <1>13, <2>1 DEF Merge, childVars
<1>14. CASE ParentThrows
  BY <1>3, <1>14 DEF ParentThrows, childVars
<1>15. CASE UNCHANGED vars
  BY <1>3, <1>15 DEF vars, parentVars, childVars
<1> QED
  BY <1>4, <1>5, <1>6, <1>7, <1>8, <1>9, <1>10, <1>11, <1>12, <1>13, <1>14, <1>15
     DEF Next, Parent, Child, Finished

(* Whatever is lost, torn, blamed or respawned: the rows a case ends with  *)
(* are all the rows its own run gave, in order, or the one crash row.      *)
THEOREM VerdictsEarned == Spec => []VerdictsAreEarned
<1>1. Init => LinesInv
  BY LinesInit
<1>2. LinesInv /\ [Next]_vars => LinesInv'
  BY LinesNext
<1>3. LinesInv => VerdictsAreEarned
  BY DEF LinesInv
<1> QED
  BY <1>1, <1>2, <1>3, PTL DEF Spec

(* A process that begins is at the parent's position, with nothing written. *)
LEMMA BeginsAtNext ==
  ASSUME LinesInv, [Next]_vars, NEW s \in Shards, child[s] # "running", child'[s] = "running"
  PROVE  at'[s] = next'[s] /\ out'[s] = <<>>
<1>1. Inv /\ Process(s) /\ out[s] = <<>> /\ child \in [Shards -> {"none", "running", "exited", "aborted"}]
  BY DEF LinesInv, Lines, Process, Inv, TypeOK
<1>2. ASSUME NEW t \in Shards, Spawn(t)
      PROVE  at'[s] = next'[s] /\ out'[s] = <<>>
  <2>1. t = s
    BY <1>1, <1>2 DEF Spawn
  <2>2. Untouched(s)
    BY <1>1, <1>2, <2>1 DEF Spawn, Process
  <2> QED
    BY <1>2, <2>2 DEF Spawn, Untouched
<1>3. ASSUME NEW t \in Shards, FinishWorker(t)
      PROVE  at'[s] = next'[s] /\ out'[s] = <<>>
  <2>1. PICK m, new : /\ next' = [next EXCEPT ![t] = m] /\ results' = new
                      /\ Blames(t, next[t], results, m, new)
                      /\ IF m < NumCases
                         THEN /\ new[m] = <<>>
                              /\ child' = [child EXCEPT ![t] = "running"]
                              /\ at' = [at EXCEPT ![t] = m] /\ worker' = worker
                         ELSE /\ worker' = [worker EXCEPT ![t] = "closed"]
                              /\ UNCHANGED <<child, at>>
    BY <1>1, <1>3, FinishWorkerBlames
  <2>2. m < NumCases /\ t = s
    BY <1>1, <2>1
  <2>3. next'[s] = m /\ at'[s] = m
    BY <1>1, <2>1, <2>2 DEF Inv, TypeOK
  <2> QED
    BY <1>1, <1>3, <2>3 DEF FinishWorker
<1>4. ASSUME UNCHANGED child
      PROVE  FALSE
  BY <1>4
<1>5. ASSUME NEW t \in Shards, Exit(t) \/ Abort(t)
      PROVE  FALSE
  BY <1>1, <1>5 DEF Exit, Abort
<1>6. ASSUME NEW t \in Shards, ReadFragment(t) \/ ReadLine(t) \/ RunCase(t) \/ Emit(t) \/ Noise(t)
      PROVE  UNCHANGED child
  BY <1>6 DEF ReadFragment, ReadLine, RunCase, Emit, Noise, childVars
<1>7. Merge \/ ParentThrows \/ UNCHANGED vars => UNCHANGED child
  BY DEF Merge, ParentThrows, vars, childVars
<1> QED
  BY <1>2, <1>3, <1>4, <1>5, <1>6, <1>7 DEF Next, Parent, Child, Finished

LEMMA BeginsAtFirstOpen ==
  ASSUME LinesInv, LinesInv', [Next]_vars, NEW s \in Shards, child[s] # "running", child'[s] = "running",
         NEW p \in Cases, ShardOf(p) = s
  PROVE  p < at'[s] <=> results'[p] # <<>>
<1>1. at'[s] = next'[s] /\ out'[s] = <<>>
  BY BeginsAtNext
<1>2. /\ p < next'[s] => results'[p] = Crashed \/ FullRows(p, results'[p])
      /\ ~ (p < next'[s]) /\ p # next'[s] => results'[p] = <<>>
  BY DEF LinesInv, Inv, LedgerShape, Settled
<1>3. Crashed # <<>> /\ ~ FullRows(p, <<>>)
  BY PoolAssumption DEF Crashed, FullRows
<1>4. Ahead(next'[s], results', at'[s], out'[s], Stream(s)')
  BY DEF LinesInv, Lines, Process
<1>5. p = next'[s] => results'[p] = <<>>
  <2>1. p < NumCases
    BY PoolAssumption DEF Cases
  <2> QED
    BY <1>1, <1>4, <2>1 DEF Ahead
<1> QED
  BY <1>1, <1>2, <1>3, <1>5

(* Every worker process, the first of a shard and each respawn, begins     *)
(* behind exactly the cases of its shard that have an entry in the table.  *)
THEOREM ResumesAtOpenCase == Spec => ResumesAtFirstOpenCase
<1>1. Init => LinesInv
  BY LinesInit
<1>2. LinesInv /\ [Next]_vars => LinesInv'
  BY LinesNext
<1>3. LinesInv /\ LinesInv' /\ [Next]_vars =>
        [\A s \in Shards : child[s] # "running" /\ child'[s] = "running" =>
           \A p \in Cases : ShardOf(p) = s => (p < at'[s] <=> results'[p] # <<>>)]_vars
  BY BeginsAtFirstOpen
<1> QED
  BY <1>1, <1>2, <1>3, PTL DEF Spec, ResumesAtFirstOpenCase
=============================================================================
