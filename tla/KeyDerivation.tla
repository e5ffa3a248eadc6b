--------------------------- MODULE KeyDerivation ----------------------------
(***************************************************************************)
(* From passphrase to pairwise keys in src/src/wpa.rs: the loops of        *)
(* pbkdf2_sha1 and prf over HMAC-SHA1, which is free here (module Hmac has *)
(* it), and derive_ptk.  Passphrase, SSID, addresses and nonces are one    *)
(* byte each; addresses and nonces have an order.                          *)
(***************************************************************************)
EXTENDS Hmac

CONSTANTS
    PSK_SIZE,           \* bytes of the PSK (32)
    KEY_SIZE,           \* bytes of KCK, KEK and TK (16)
    Addresses, NonceValues,
    MaxIterations, MaxKeyLen    \* bounds: arguments of pbkdf2_sha1

ASSUME KeySizeAssumption ==
    /\ {PSK_SIZE, KEY_SIZE, MaxIterations, MaxKeyLen} \subseteq Nat
    /\ Addresses \subseteq Nat /\ NonceValues \subseteq Nat

VARIABLES
    kd_pc,
    iterations, key_len,        \* arguments of pbkdf2_sha1
    block, left, u, result,     \* its loops; left counts the inner one
    output,
    aa, spa, anonce, snonce,    \* arguments of derive_ptk
    counter, ptk_data,          \* the loop of prf
    keys

derivationVars == <<kd_pc, iterations, key_len, block, left, u, result, output,
                    aa, spa, anonce, snonce, counter, ptk_data, keys>>

Byte(kind, value) == {<<kind, value>>}
Passphrase == <<Byte("passphrase", 0)>>
Salt(b) == <<Byte("ssid", 0), Byte("block", b)>>
HmacOf(k, input) == [i \in 1 .. SHA1_DIGEST_SIZE |-> {<<"hmac", k, input, i>>}]

NoKeys == [kck |-> <<>>, kek |-> <<>>, tk |-> <<>>]

KeyDerivationInit ==
    /\ kd_pc = "idle"
    /\ iterations = 0 /\ key_len = 0
    /\ block = 1 /\ left = 0 /\ u = <<>> /\ result = <<>> /\ output = <<>>
    /\ aa = 0 /\ spa = 0 /\ anonce = 0 /\ snonce = 0
    /\ counter = 0 /\ ptk_data = <<>>
    /\ keys = NoKeys

pskVars == <<iterations, key_len>>
loopVars == <<block, left, u, result, output>>
ptkVars == <<aa, spa, anonce, snonce, counter, ptk_data, keys>>

Pbkdf2(n, len) ==
    /\ kd_pc = "idle"
    /\ kd_pc' = "psk"
    /\ iterations' = n
    /\ key_len' = len
    /\ UNCHANGED <<loopVars, ptkVars>>

(* Slips: an iteration too many; a prf that counts from 1. *)
OneMore(n) == n
CountFromOne == 1

Iterations(n) == IF n > 1 THEN n - 1 ELSE 0

PrfStart == 0

InOrder(x, y) == IF x < y THEN <<x, y>> ELSE <<y, x>>

FirstU ==
    /\ kd_pc = "psk"
    /\ u = <<>>
    /\ Len(output) < key_len
    /\ u' = HmacOf(Passphrase, Salt(block))
    /\ result' = u'
    /\ left' = Iterations(iterations)
    /\ UNCHANGED <<kd_pc, pskVars, block, output, ptkVars>>

NextU ==
    /\ left > 0
    /\ u' = HmacOf(Passphrase, u)
    /\ result' = XORSeq(result, u')
    /\ left' = left - 1
    /\ UNCHANGED <<kd_pc, pskVars, block, output, ptkVars>>

Cut(bytes, have, len) == SubSeq(bytes, 1, Least(len - have, SHA1_DIGEST_SIZE))

BlockEnds ==
    /\ u # <<>>
    /\ left = 0
    /\ output' = output \o Cut(result, Len(output), key_len)
    /\ block' = block + 1
    /\ u' = <<>>
    /\ UNCHANGED <<kd_pc, pskVars, left, result, ptkVars>>

(* derive_psk asks for PSK_SIZE bytes and derive_ptk starts from them. *)
DerivePtk(a, s, an, sn) ==
    /\ kd_pc = "psk"
    /\ key_len = PSK_SIZE /\ Len(output) = key_len
    /\ kd_pc' = "ptk"
    /\ aa' = a /\ spa' = s /\ anonce' = an /\ snonce' = sn
    /\ counter' = PrfStart
    /\ UNCHANGED <<pskVars, loopVars, ptk_data, keys>>

Data ==
    LET addresses == InOrder(aa, spa)
        nonces == InOrder(anonce, snonce)
    IN  <<Byte("address", addresses[1]), Byte("address", addresses[2]),
          Byte("nonce", nonces[1]), Byte("nonce", nonces[2])>>

PrfInput(data, c) ==
    <<Byte("label", 0), Byte("separator", 0)>> \o data \o <<Byte("counter", c)>>

PrfBlock ==
    /\ kd_pc = "ptk"
    /\ Len(ptk_data) < 3 * KEY_SIZE
    /\ ptk_data' = ptk_data \o Cut(HmacOf(output, PrfInput(Data, counter)),
                                   Len(ptk_data), 3 * KEY_SIZE)
    /\ counter' = counter + 1
    /\ UNCHANGED <<kd_pc, pskVars, loopVars, aa, spa, anonce, snonce, keys>>

PtkDerived ==
    /\ kd_pc = "ptk"
    /\ Len(ptk_data) = 3 * KEY_SIZE
    /\ kd_pc' = "done"
    /\ keys' = [kck |-> SubSeq(ptk_data, 1, KEY_SIZE),
                kek |-> SubSeq(ptk_data, KEY_SIZE + 1, 2 * KEY_SIZE),
                tk |-> SubSeq(ptk_data, 2 * KEY_SIZE + 1, 3 * KEY_SIZE)]
    /\ UNCHANGED <<pskVars, loopVars, aa, spa, anonce, snonce, counter, ptk_data>>

KeyDerivationNext ==
    \/ \E n \in 0 .. MaxIterations, len \in 0 .. MaxKeyLen : Pbkdf2(n, len)
    \/ FirstU \/ NextU \/ BlockEnds
    \/ \E a, s \in Addresses, an, sn \in NonceValues : DerivePtk(a, s, an, sn)
    \/ PrfBlock \/ PtkDerived

KeyDerivationSpec == KeyDerivationInit /\ [][KeyDerivationNext]_derivationVars

-----------------------------------------------------------------------------
(* The standards, byte by byte: which block a byte is of, and its place.   *)
BlockOf(i) == ((i - 1) \div SHA1_DIGEST_SIZE) + 1
PlaceOf(i) == ((i - 1) % SHA1_DIGEST_SIZE) + 1

StandardU(b) ==
    LET U[j \in 1 .. MaxIterations + 1] ==
            HmacOf(Passphrase, IF j = 1 THEN Salt(b) ELSE U[j - 1])
    IN  U

(* Atoms of different iterations differ, so the XOR is their union. *)
StandardPsk(n, len) ==
    [i \in 1 .. len |->
        UNION {StandardU(BlockOf(i))[j][PlaceOf(i)] : j \in 1 .. (IF n = 0 THEN 1 ELSE n)}]

StandardData(a, s, an, sn) ==
    LET low(x, y) == CHOOSE z \in {x, y} : z <= x /\ z <= y
        high(x, y) == CHOOSE z \in {x, y} : z >= x /\ z >= y
    IN  <<Byte("address", low(a, s)), Byte("address", high(a, s)),
          Byte("nonce", low(an, sn)), Byte("nonce", high(an, sn))>>

(* A || Y || B || X of 802.11's PRF. *)
StandardInput(data, c) ==
    <<Byte("label", 0), Byte("separator", 0),
      data[1], data[2], data[3], data[4], Byte("counter", c)>>

StandardPtk(psk, data) ==
    [i \in 1 .. 3 * KEY_SIZE |->
        HmacOf(psk, StandardInput(data, BlockOf(i) - 1))[PlaceOf(i)]]

(* After every block the bytes derived so far are those of PBKDF2, for     *)
(* any number of iterations and for lengths that end inside a block too    *)
(* (pbkdf2_sha1, wpa.rs).                                                  *)
PskAsStandard ==
    /\ Len(output) <= key_len
    /\ output = SubSeq(StandardPsk(iterations, key_len), 1, Len(output))

(* The three keys are the standard's bytes of the PRF, each once, and do   *)
(* not depend on which end derives them (prf, derive_ptk, wpa.rs).         *)
KeysAsStandard ==
    kd_pc = "done" =>
        /\ keys.kck \o keys.kek \o keys.tk =
              StandardPtk(output, StandardData(aa, spa, anonce, snonce))
        /\ \A end \in {<<aa, spa, anonce, snonce>>, <<spa, aa, snonce, anonce>>} :
              StandardData(end[1], end[2], end[3], end[4]) = Data
=============================================================================
