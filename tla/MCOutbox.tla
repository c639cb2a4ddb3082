------------------------------ MODULE MCOutbox ------------------------------
(* Small instances of Outbox for TLC. *)
EXTENDS Outbox, TLC

(* The workers are interchangeable in Init, Next and the invariants. *)
WorkerSymmetry == Permutations(Workers)

(* Bound: commands are queued when the events of the runs were published, so   *)
(* that they meet late dispatchers of these, but no early ones.              *)
CommandsLast ==
  CommandEvents \cap Inserted # {} => Runs \X RunKinds \subseteq published

(* Bound: two of these at a time, a worker at work, a request it gave up, or a *)
(* crowded commit; a late one and one that is not suffice for every race.    *)
TwoAtATime ==
  Cardinality({w \in Workers : disp[w].pc # "idle"})
    + Cardinality(sent) + Cardinality(crowded) <= 2
=============================================================================
