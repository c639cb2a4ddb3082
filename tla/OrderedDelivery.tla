--------------------------- MODULE OrderedDelivery ---------------------------
(***************************************************************************)
(* What the transactional outbox promises its writers, with workers, leases *)
(* and queues left out.  Every event belongs to an aggregate and has a rank  *)
(* among the events written so far.  An event is delivered, at least once,   *)
(* only after every earlier event of its aggregate was acknowledged, and is  *)
(* acknowledged only after it was delivered.                                 *)
(*                                                                         *)
(* Events that may be written again (a patch fix that is approved a second   *)
(* time reuses its row) return to the end of the order.  The source accepts  *)
(* a late acknowledgement for them, so their acknowledgement does not imply  *)
(* a delivery since the last write.                                          *)
(***************************************************************************)
EXTENDS Naturals

CONSTANTS
  Events,             \* every outbox row that can be written
  Aggregate(_),       \* the row's aggregate_id
  Rewritable          \* the events whose row can be written again

VARIABLES
  rank,               \* [Events -> Nat], 0 until the event is written
  delivered,          \* events delivered since they were last written
  acked               \* events acknowledged since they were last written

vars == <<rank, delivered, acked>>

Written == {e \in Events : rank[e] > 0}

Earlier(e) ==
  {f \in Written : Aggregate(f) = Aggregate(e) /\ rank[f] < rank[e]}

Init ==
  /\ rank = [e \in Events |-> 0]
  /\ delivered = {}
  /\ acked = {}

(* Writers append: what they write comes after everything written before. *)
Write(S) ==
  /\ \A e \in S : e \in Written => e \in Rewritable
  /\ rank' \in [Events -> Nat]
  /\ \A e \in Events \ S : rank'[e] = rank[e]
  /\ \A e \in S : rank'[e] > 0
  /\ \A e \in S, f \in Written : rank'[e] > rank[f]
  /\ delivered' = delivered \ S
  /\ acked' = acked \ S

Deliver(e) ==
  /\ e \in Written
  /\ Earlier(e) \subseteq acked
  /\ delivered' = delivered \cup {e}
  /\ UNCHANGED <<rank, acked>>

Acknowledge(e) ==
  /\ e \in Written
  /\ e \in delivered \cup Rewritable
  /\ Earlier(e) \subseteq acked
  /\ acked' = acked \cup {e}
  /\ UNCHANGED <<rank, delivered>>

Next ==
  \/ \E S \in SUBSET Events : Write(S)
  \/ \E e \in Events : Deliver(e) \/ Acknowledge(e)

Spec == Init /\ [][Next]_vars
=============================================================================
