---------------------------- MODULE MCHandshake -----------------------------
(* TLC instance of Handshake and Eapol: two associations, each message     *)
(* sent twice, one frame lost, a right passphrase and a wrong one.         *)
EXTENDS Eapol
=============================================================================
