----------------------------- MODULE MCTxQueue -----------------------------
(* TLC instance of TxQueue: a ring of four slots, three frames at most. *)
EXTENDS TxQueue
=============================================================================
