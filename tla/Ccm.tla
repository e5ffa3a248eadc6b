-------------------------------- MODULE Ccm ---------------------------------
(***************************************************************************)
(* AES-CCM as src/src/wpa.rs builds it from the block cipher: ccmp_encrypt *)
(* and ccmp_decrypt over the CBC-MAC and the counter mode.  The cipher is  *)
(* free: each byte it makes is an atom that names the block encrypted.     *)
(* Between the two, the frame may be altered on its way.                   *)
(***************************************************************************)
EXTENDS Atoms

CONSTANTS
    AES_BLOCK_SIZE,     \* bytes of a block (16)
    MIC_SIZE,           \* bytes of the MIC (8)
    CTR_MOD,            \* values of the counter (2^16)
    Nonces,
    MaxText, MaxAad     \* bounds: bytes of plaintext and of header

(* The counter does not come round within a frame: the code does not check *)
(* it, and no frame is a mebibyte long.                                    *)
ASSUME CcmSizeAssumption ==
    /\ AES_BLOCK_SIZE \in Nat /\ MIC_SIZE \in 1 .. AES_BLOCK_SIZE /\ CTR_MOD \in Nat
    /\ MaxText \in Nat /\ MaxText <= AES_BLOCK_SIZE * (CTR_MOD - 1)
    /\ MaxAad \in Nat

VARIABLES
    ccmp_pc,
    nonce, aad, plaintext,      \* what the sender seals
    rx_nonce, rx_aad, sealed,   \* what is on its way
    altered,                    \* it is not what was sealed
    opened                      \* what ccmp_decrypt returned

ccmpVars == <<ccmp_pc, nonce, aad, plaintext, rx_nonce, rx_aad, sealed, altered, opened>>

Letter == {<<"letter", 0>>}
Flip == {<<"flip", 0>>}
TextBytes == {Zero, Letter}

Rejected == [some |-> FALSE]
Some(text) == [some |-> TRUE, text |-> text]

-----------------------------------------------------------------------------
(* Aes128::encrypt_block, of a formatted block and of a chained one. *)
EncryptHeader(flags, n, word) == [i \in 1 .. AES_BLOCK_SIZE |-> {<<"header", flags, n, word, i>>}]
EncryptBlock(block) == [i \in 1 .. AES_BLOCK_SIZE |-> {<<"chain", block, i>>}]

KeystreamBlock(n, counter) == EncryptHeader("ctr", n, counter % CTR_MOD)

Pad(s) == Padded(s, Len(s) + ((-Len(s)) % AES_BLOCK_SIZE))

(* The tag before the first of the blocks and after each. *)
Tags(tag, blks) ==
    LET T[k \in 0 .. Len(blks)] ==
            IF k = 0 THEN tag ELSE EncryptBlock(XORSeq(T[k - 1], blks[k]))
    IN  T

Chain(tag, s) ==
    LET blks == Chunks(Pad(s), AES_BLOCK_SIZE)
    IN  Tags(tag, blks)[Len(blks)]

AadLength(i, n) == {<<"length", i, n>>}

AadBlocks(a) == IF a = <<>> THEN <<>> ELSE <<AadLength(1, Len(a)), AadLength(2, Len(a))>> \o a

(* Slips of the construction: the header is left out of the MAC; the       *)
(* keystream of the data starts with the block meant for the MIC.          *)
AadLeftOut(a) == <<>>
FirstCounterZero == 0

Authenticated(a) == AadBlocks(a)

CutTag(tag) == SubSeq(tag, 1, MIC_SIZE)

FirstCounter == 1

CbcMac(n, a, text) ==
    CutTag(Chain(Chain(EncryptHeader("b0", n, Len(text)), Authenticated(a)), text))

CtrEncrypt(n, data) ==
    [i \in DOMAIN data |->
        XOR(data[i], KeystreamBlock(n, FirstCounter + ((i - 1) \div AES_BLOCK_SIZE))[((i - 1) % AES_BLOCK_SIZE) + 1])]

MaskMic(n, mic) ==
    [i \in DOMAIN mic |-> XOR(mic[i], KeystreamBlock(n, 0)[i])]

CcmpEncrypt(n, a, text) == CtrEncrypt(n, text) \o MaskMic(n, CbcMac(n, a, text))

CcmpDecrypt(n, a, data) ==
    IF Len(data) < MIC_SIZE THEN Rejected
    ELSE LET cipher == SubSeq(data, 1, Len(data) - MIC_SIZE)
             received == MaskMic(n, SubSeq(data, Len(data) - MIC_SIZE + 1, Len(data)))
             text == CtrEncrypt(n, cipher)
         IN  IF received = CbcMac(n, a, text) THEN Some(text) ELSE Rejected

-----------------------------------------------------------------------------
CcmpInit ==
    /\ ccmp_pc = "encrypt"
    /\ nonce \in Nonces
    /\ aad = <<>>
    /\ plaintext = <<>>
    /\ rx_nonce = nonce
    /\ rx_aad = aad
    /\ sealed = <<>>
    /\ altered = FALSE
    /\ opened = Rejected

Encrypt(header, text) ==
    /\ ccmp_pc = "encrypt"
    /\ ccmp_pc' = "air"
    /\ aad' = header
    /\ rx_aad' = header
    /\ plaintext' = text
    /\ sealed' = CcmpEncrypt(nonce, header, text)
    /\ UNCHANGED <<nonce, rx_nonce, altered, opened>>

(* One byte changed, the ends cut or lengthened, bytes moved. *)
Alterations(s) ==
    {[s EXCEPT ![i] = XOR(s[i], mask)] : i \in DOMAIN s, mask \in {Flip, Letter}}
    \union {Append(s, Zero), SubSeq(s, 2, Len(s)), SubSeq(s, 1, Len(s) - 1), <<>>}
    \union {[s EXCEPT ![i] = s[j], ![j] = s[i]] : i \in DOMAIN s, j \in DOMAIN s}

Alter ==
    /\ ccmp_pc = "air"
    /\ ~ altered
    /\ \/ /\ sealed' \in Alterations(sealed) \ {sealed}
          /\ UNCHANGED <<rx_nonce, rx_aad>>
       \/ /\ rx_aad' \in SeqOf(TextBytes, MaxAad) \ {aad}
          /\ UNCHANGED <<rx_nonce, sealed>>
       \/ /\ rx_nonce' \in Nonces \ {nonce}
          /\ UNCHANGED <<rx_aad, sealed>>
    /\ altered' = TRUE
    /\ UNCHANGED <<ccmp_pc, nonce, aad, plaintext, opened>>

Decrypt ==
    /\ ccmp_pc = "air"
    /\ ccmp_pc' = "done"
    /\ opened' = CcmpDecrypt(rx_nonce, rx_aad, sealed)
    /\ UNCHANGED <<nonce, aad, plaintext, rx_nonce, rx_aad, sealed, altered>>

CcmpNext ==
    \/ \E header \in SeqOf(TextBytes, MaxAad), text \in SeqOf(TextBytes, MaxText) :
          Encrypt(header, text)
    \/ Alter
    \/ Decrypt

CcmpSpec == CcmpInit /\ [][CcmpNext]_ccmpVars

-----------------------------------------------------------------------------
(* What was sealed opens as it was, with and without a header, with texts  *)
(* that fill their blocks or do not; and nothing else opens: no other      *)
(* text, header, nonce or length is taken for what was sealed              *)
(* (ccmp_encrypt, ccmp_decrypt, ccm_cbc_mac, wpa.rs).                      *)
OpensOnlyAsSealed ==
    ccmp_pc = "done" => opened = IF altered THEN Rejected ELSE Some(plaintext)

CipherAtoms(byte) == {atom \in byte : atom[1] \in {"header", "chain"}}

(* No two bytes of a frame are masked with the same byte of the cipher,    *)
(* the MIC's included (ccm_ctr_encrypt, ccm_ctr_block, wpa.rs).            *)
KeystreamUsedOnce ==
    ccmp_pc = "air" /\ ~ altered =>
        \A i, j \in DOMAIN sealed :
            i # j => CipherAtoms(sealed[i]) \intersect CipherAtoms(sealed[j]) = {}
=============================================================================
