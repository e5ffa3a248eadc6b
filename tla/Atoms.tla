------------------------------- MODULE Atoms --------------------------------
(***************************************************************************)
(* Bytes for the primitives of src/src/wpa.rs.  A byte is the set of atoms *)
(* that were XORed into it: an atom names where it comes from, zero has    *)
(* none.  What a hash or a cipher returns has atoms that name its input,   *)
(* so two such bytes are equal only if all that went into them is.         *)
(***************************************************************************)
EXTENDS Integers, Sequences, SequencesExt

Zero == {}

XOR(a, b) == SymDiff(a, b)
XORSeq(s, t) == [i \in DOMAIN s |-> XOR(s[i], t[i])]

Least(m, n) == IF m <= n THEN m ELSE n

Padded(s, n) == s \o [i \in 1 .. n - Len(s) |-> Zero]

Chunks(s, n) == [k \in 1 .. Len(s) \div n |-> SubSeq(s, (k - 1) * n + 1, k * n)]
=============================================================================
