---------------------------- MODULE ProposalLife ----------------------------
(***************************************************************************)
(* What a patch proposal promises its readers, with publishers, leases and   *)
(* GitHub left out.  A person decides it once, and only while it is not      *)
(* stale.  It is bound to at most one suggestion, for good, and never to one *)
(* once it is rejected.  It becomes stale for good.                          *)
(***************************************************************************)
CONSTANTS
  References,         \* suggestions it could be bound to
  NoReference         \* github_reference IS NULL

VARIABLES
  approval,           \* "pending", "approved" or "rejected"
  stale,              \* stale_at IS NOT NULL
  reference           \* github_reference

vars == <<approval, stale, reference>>

Init ==
  /\ approval = "pending"
  /\ stale = FALSE
  /\ reference = NoReference

Decide(decision) ==
  /\ approval = "pending" /\ ~stale
  /\ decision = "rejected" => reference = NoReference
  /\ approval' = decision
  /\ UNCHANGED <<stale, reference>>

(* A suggestion that GitHub took is recorded even if it comes too late. *)
Bind(c) ==
  /\ reference = NoReference
  /\ approval # "rejected"
  /\ reference' = c
  /\ stale' \in {stale, TRUE}
  /\ UNCHANGED approval

Withdraw ==
  /\ stale' = TRUE
  /\ UNCHANGED <<approval, reference>>

Next ==
  \/ \E decision \in {"approved", "rejected"} : Decide(decision)
  \/ \E c \in References : Bind(c)
  \/ Withdraw

Spec == Init /\ [][Next]_vars
=============================================================================
