---------------------------- MODULE CommandLife ----------------------------
(***************************************************************************)
(* What a comment command promises its author, with workers, leases and      *)
(* attempts left out.  It has one effect at most, a review or a proposal,    *)
(* and ends once; it is completed only if it had its effect.  A review may   *)
(* be queued behind its back, by a worker that lost the command; a proposal  *)
(* is bound to it only while it is open.                                    *)
(***************************************************************************)
CONSTANT Heads      \* what a review may be queued for

VARIABLES
  phase,            \* "open", "completed", "denied", "ignored" or "failed"
  reviewed,         \* the head its review was queued for, or 0
  proposed          \* a proposal was bound to it

vars == <<phase, reviewed, proposed>>

Init == phase = "open" /\ reviewed = 0 /\ proposed = FALSE

Review ==
  /\ reviewed = 0 /\ ~proposed
  /\ reviewed' \in Heads
  /\ UNCHANGED <<phase, proposed>>

Propose ==
  /\ phase = "open" /\ reviewed = 0 /\ ~proposed
  /\ proposed' = TRUE
  /\ UNCHANGED <<phase, reviewed>>

End(p) ==
  /\ phase = "open"
  /\ p = "completed" => reviewed # 0 \/ proposed
  /\ phase' = p
  /\ UNCHANGED <<reviewed, proposed>>

Next ==
  \/ Review \/ Propose
  \/ \E p \in {"completed", "denied", "ignored", "failed"} : End(p)

Spec == Init /\ [][Next]_vars
=============================================================================
