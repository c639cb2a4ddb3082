--------------------------- MODULE MCWorkerRuntime ---------------------------
(* Three patch fixes, the oldest of them withdrawn with its run: a sweep of   *)
(* two lists the newest only once another one is done.                      *)
EXTENDS WorkerRuntime

MCItems == 1..3
MCQueueOf == <<4, 4, 4>>
MCDead == {1}
=============================================================================
