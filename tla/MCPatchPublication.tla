------------------------- MODULE MCPatchPublication -------------------------
(* Small instances of PatchPublication for TLC. *)
EXTENDS PatchPublication, TLC

(* The requests are interchangeable: each leases under a UUID of its own. *)
RequestSymmetry == Permutations(Requests)

(* Bound: one request at least is no stray.  What is claimed of the comments *)
(* holds vacuously once all of them are.                                     *)
SomeInTime == strays # Requests
=============================================================================
