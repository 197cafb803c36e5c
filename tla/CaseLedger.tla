----------------------------- MODULE CaseLedger -----------------------------
(***************************************************************************)
(* What every multi-process mode of the runner promises the user who reads *)
(* the summary: each selected case ends with one verdict, a verdict once   *)
(* given is never taken back, and the process status says "success" only   *)
(* when every case has a clean verdict.  WorkerPool (--workers) and        *)
(* IsolatedPool (--isolate --workers) are both shown to implement it.      *)
(***************************************************************************)

CONSTANTS
  Cases,      (* the selected cases, in collectCases order               *)
  Verdicts,   (* what a case can end with                                *)
  Clean,      (* the verdicts that do not make the run fail              *)
  NoVerdict   (* the entry of a case nobody has decided yet              *)

VARIABLES
  verdict,    (* [Cases -> Verdicts \cup {NoVerdict}]                    *)
  exit        (* "running", then the status of the process               *)

ledger == <<verdict, exit>>

Init ==
  /\ verdict = [c \in Cases |-> NoVerdict]
  /\ exit = "running"

(* Some undecided cases are decided; the others keep what they have. *)
Settle ==
  /\ exit = "running" /\ exit' = exit
  /\ verdict' \in [Cases -> Verdicts \cup {NoVerdict}]
  /\ \A c \in Cases : verdict[c] # NoVerdict => verdict'[c] = verdict[c]

(* The summary is printed: every case has its verdict by then. *)
Report ==
  /\ exit = "running"
  /\ \A c \in Cases : verdict[c] # NoVerdict
  /\ exit' = IF \A c \in Cases : verdict[c] \in Clean THEN "success" ELSE "failure"
  /\ UNCHANGED verdict

(* The harness itself fails: no summary, a failing status. *)
Fail ==
  /\ exit = "running"
  /\ exit' = "failure"
  /\ UNCHANGED verdict

Next == Settle \/ Report \/ Fail

Spec == Init /\ [][Next]_ledger
=============================================================================
