--------------------------- MODULE MCCommentCommand ---------------------------
(* A small instance of CommentCommand for TLC. *)
EXTENDS CommentCommand

(* The names of the workers are interchangeable: one handler's is fixed. *)
MCInit == Init /\ worker[CHOOSE h \in Handlers : TRUE] = CHOOSE w \in Workers : TRUE

MCSpec == MCInit /\ [][Next]_vars /\ Fairness
=============================================================================
