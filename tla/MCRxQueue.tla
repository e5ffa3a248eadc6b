----------------------------- MODULE MCRxQueue -----------------------------
(* TLC instance of RxQueue: a ring of three buffers, more than two laps. *)
EXTENDS RxQueue
=============================================================================
