-------------------------------- MODULE Hmac --------------------------------
(***************************************************************************)
(* hmac_sha1 of src/src/wpa.rs on the hasher of Sha1: a key that is cut,   *)
(* hashed or padded to a block, and two hashes of two updates each.        *)
(***************************************************************************)
EXTENDS Sha1

CONSTANTS
    SHA1_DIGEST_SIZE,
    MaxKey              \* bound: bytes of a key

ASSUME DigestAssumption == SHA1_DIGEST_SIZE \in 1 .. SHA1_BLOCK_SIZE /\ MaxKey \in Nat

VARIABLES key, text, hmac

hmacVars == <<key, text, hmac>>

KeyByte(n) == {<<"key", n>>}
Ipad == {<<"ipad">>}
Opad == {<<"opad">>}
NoHmac == <<>>

HmacInit ==
    /\ key = <<>>
    /\ text = <<>>
    /\ hmac = NoHmac

NewHasher ==
    [blocks |-> <<>>, buffer |-> [i \in 1 .. SHA1_BLOCK_SIZE |-> Zero], buf_len |-> 0]

DigestOf(hashed_blocks) == [i \in 1 .. SHA1_DIGEST_SIZE |-> {<<"digest", hashed_blocks, i>>}]

(* new, an update or two, finalize. *)
Digest(s, len) == DigestOf(Finalized(s, len).blocks)

Hash(data) == Digest(Update(NewHasher, data), Len(data))

HashBoth(first, second) ==
    Digest(Update(Update(NewHasher, first), second), Len(first) + Len(second))

(* Slip: a key that just fills the block is hashed too. *)
HashedFromBlock(k) == Len(k) >= SHA1_BLOCK_SIZE

Hashed(k) == Len(k) > SHA1_BLOCK_SIZE

PaddedKey(k) == Padded(IF Hashed(k) THEN Hash(k) ELSE k, SHA1_BLOCK_SIZE)

Masked(k, pad) == [i \in 1 .. SHA1_BLOCK_SIZE |-> XOR(pad, k[i])]

HmacSha1(k, data) ==
    LET inner == HashBoth(Masked(PaddedKey(k), Ipad), data)
    IN  HashBoth(Masked(PaddedKey(k), Opad), inner)

Authenticate(key_len, text_len) ==
    /\ hmac = NoHmac
    /\ key' = [i \in 1 .. key_len |-> KeyByte(i)]
    /\ text' = [i \in 1 .. text_len |-> Message(i)]
    /\ hmac' = HmacSha1(key', text')

HmacNext ==
    \E key_len \in 0 .. MaxKey, text_len \in 0 .. MaxTotal : Authenticate(key_len, text_len)

HmacSpec == HmacInit /\ [][HmacNext]_hmacVars

-----------------------------------------------------------------------------
(* The standard's hash and HMAC, of whole messages. *)
StandardHash(message) == DigestOf(StandardBlocks(message))

StandardHmac(k, data) ==
    LET block_key == Padded(IF Len(k) <= SHA1_BLOCK_SIZE THEN k ELSE StandardHash(k),
                            SHA1_BLOCK_SIZE)
    IN  StandardHash(Masked(block_key, Opad)
                        \o StandardHash(Masked(block_key, Ipad) \o data))

(* For keys shorter than a block, of a block and longer, and for texts     *)
(* that end anywhere in a block, the code's two hashes are the HMAC of the *)
(* standard (hmac_sha1, wpa.rs).                                           *)
HmacAsStandard == hmac # NoHmac => hmac = StandardHmac(key, text)
=============================================================================
