---------------------------- MODULE MCTriageLoop ----------------------------
(* A case of two subcases and two of one: with two workers, 0 and 2 share a *)
(* process.  One JSONL file.                                                *)
EXTENDS TriageLoop

Always(deed) == [alone |-> deed, shared |-> {deed}]
After(deed, others) == [alone |-> deed, shared |-> {deed} \cup others]

Does(first, second, third) ==
  [p \in 0 .. 2 |-> IF p = 0 THEN first ELSE IF p = 1 THEN second ELSE third]

(* Cases that fail or die alone, and cases that do so in company only. *)
SmallBuilds ==
  {Does(Always(<<"pass", "skip">>), Always(<<"skip">>), After(<<"pass">>, {<<"dies">>})),
   Does(Always(<<"fail", "pass">>), After(<<"warn">>, {<<"fail">>}), Always(<<"pass">>)),
   Does(Always(<<"pass", "dies">>), Always(<<"fail">>), After(<<"dies">>, {<<"pass">>}))}

Plain == [workers |-> 0, isolate |-> FALSE, crashList |-> FALSE, emit |-> FALSE, shard |-> <<0, 0>>,
          expected |-> {}, output |-> NoPath, baseline |-> NoPath]

InWorkers == [Plain EXCEPT !.workers = 2]
Isolated  == [Plain EXCEPT !.isolate = TRUE]
Listed    == [Plain EXCEPT !.crashList = TRUE]

(* Every mode records a baseline, and is held against one. *)
Modes == {Plain, InWorkers, Isolated, Listed}
SmallCommands ==
  {[c EXCEPT !.output = "old"] : c \in Modes}
    \cup {[c EXCEPT !.baseline = "old"] : c \in Modes}
    \cup {[Isolated EXCEPT !.emit = TRUE, !.expected = {0}],
          [Isolated EXCEPT !.emit = TRUE, !.shard = <<1, 2>>],
          [Listed EXCEPT !.emit = TRUE]}
    \cup {[Plain EXCEPT !.shard = <<0, 2>>, !.baseline = "old", !.output = "old"],
          [InWorkers EXCEPT !.expected = {0}, !.output = "old"],
          [InWorkers EXCEPT !.expected = {1}, !.baseline = "old"]}
    \cup {[InWorkers EXCEPT !.shard = <<0, 2>>], [Listed EXCEPT !.workers = 1]}
=============================================================================
