----------------------------- MODULE MCRecovery -----------------------------
(* A small instance of Recovery: one transfer id, so that a request to exit *)
(* and a wake meet in it, and one frame more than a queue takes.            *)
EXTENDS Recovery

MCTransfers == {1}

=============================================================================
