------------------------------ MODULE FixLife ------------------------------
(***************************************************************************)
(* What a patch fix promises who reads its status, with workers, leases and  *)
(* attempts left out.  It is opened by an approval and ends in an outcome    *)
(* that some proof of the patch had, for good, or fails, and is then opened  *)
(* again only on request.                                                   *)
(***************************************************************************)
CONSTANT Outcomes   \* what a proof of the patched head may come to

VARIABLES
  phase,            \* "undecided", "rejected", "open", "failed" or an outcome
  proofs            \* the outcomes of the proofs that were recorded

vars == <<phase, proofs>>

Init == phase = "undecided" /\ proofs = {}

Move(from, to) == phase = from /\ phase' = to /\ UNCHANGED proofs

(* A proof that a slow worker records may come after the end. *)
Prove(o) ==
  /\ phase \notin {"undecided", "rejected"}
  /\ proofs' = proofs \cup {o}
  /\ UNCHANGED phase

Finish(o) == o \in proofs /\ Move("open", o)

Next ==
  \/ Move("undecided", "open") \/ Move("undecided", "rejected")
  \/ \E o \in Outcomes : Prove(o) \/ Finish(o)
  \/ Move("open", "failed") \/ Move("failed", "open")

Spec == Init /\ [][Next]_vars
=============================================================================
