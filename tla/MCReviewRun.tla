----------------------------- MODULE MCReviewRun -----------------------------
(* Small instances of ReviewRun for TLC. *)
EXTENDS ReviewRun

(* One result that awaits a human and one that does not. *)
TwoResults == {[verdict |-> "FIX", verified |-> TRUE],
               [verdict |-> "SHIP", verified |-> FALSE]}
=============================================================================
