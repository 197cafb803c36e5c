---------------------------- MODULE MCWorkerPool ----------------------------
(* A small instance of WorkerPool: two shards of three cases.              *)
EXTENDS WorkerPool

(* The first case of the first shard has two subcases, the others one: a   *)
(* worker goes on behind several rows, and every case of the second shard, *)
(* and every respawn of the first, is one of a single row.                 *)
TwoThenOne == [p \in Cases |-> IF p = 0 THEN 2 ELSE 1]
=============================================================================
