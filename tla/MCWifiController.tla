-------------------------- MODULE MCWifiController --------------------------
(* TLC instances of WifiController: one or two access points, and rings    *)
(* long enough for a connection, its end and the start of another.         *)
EXTENDS WifiController, TLC

(* No access point and no nonce is special. *)
Symmetry == Permutations(Bssids) \union Permutations(Anonces)
=============================================================================
