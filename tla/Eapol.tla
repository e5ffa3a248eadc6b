------------------------------- MODULE Eapol --------------------------------
(***************************************************************************)
(* The messages of Handshake as bytes: the EAPOL-Key frames of             *)
(* src/src/wpa.rs at their offsets, what parse reads, how message_number   *)
(* tells them apart, and the two frames the driver builds.  A byte is a    *)
(* number, or a place in a value known by its name only (a nonce, a        *)
(* counter, a MIC).                                                        *)
(***************************************************************************)
EXTENDS Handshake

Zeros(n) == [i \in 1 .. n |-> Byte(0)]
BE16(n) == <<Byte(n \div 256), Byte(n % 256)>>
Part(kind, value, n) == [i \in 1 .. n |-> <<kind, value, i>>]

Nonce(n) == Part("nonce", n, 32)
Counter(n) == Part("counter", n, 8)
(* The first sixteen bytes of HMAC-SHA1 of a frame, under the KCK of a key. *)
Mic(key, frame) == Part("mic", <<key, frame>>, 16)

EAPOL_KEY_TYPE == 3
KEY_INFO_TYPE_HMAC_SHA1 == 2
KEY_INFO_PAIRWISE == 8
KEY_INFO_ACK == 128
KEY_INFO_MIC == 256
KEY_INFO_SECURE == 512

HasBit(bytes, bit) == ((256 * bytes[1][2] + bytes[2][2]) \div bit) % 2 = 1

-----------------------------------------------------------------------------
NotEapol == [some |-> FALSE]

(* parse; offsets are the code's plus one. *)
Parse(data) ==
    IF Len(data) < 99 \/ data[2] # Byte(EAPOL_KEY_TYPE) THEN NotEapol
    ELSE LET key_data_len == 256 * data[98][2] + data[99][2]
         IN  [some |-> TRUE,
              key_info |-> SubSeq(data, 6, 7),
              replay_counter |-> SubSeq(data, 10, 17),
              nonce |-> SubSeq(data, 18, 49),
              mic |-> SubSeq(data, 82, 97),
              key_data |-> IF Len(data) >= 99 + key_data_len
                           THEN SubSeq(data, 100, 99 + key_data_len) ELSE <<>>]

MessageNumber(eapol) ==
    LET flags == <<HasBit(eapol.key_info, KEY_INFO_ACK),
                   HasBit(eapol.key_info, KEY_INFO_MIC),
                   HasBit(eapol.key_info, KEY_INFO_SECURE)>>
    IN  CASE flags = <<TRUE, FALSE, FALSE>> -> 1
          [] flags = <<FALSE, TRUE, FALSE>> -> 2
          [] flags = <<TRUE, TRUE, TRUE>> -> 3
          [] flags = <<FALSE, TRUE, TRUE>> -> 4
          [] OTHER -> 0

-----------------------------------------------------------------------------
(* Header, descriptor and fixed fields; the MIC still to come. *)
Unsigned(key_info, counter, nonce, key_data) ==
    <<Byte(2), Byte(EAPOL_KEY_TYPE)>> \o BE16(95 + Len(key_data))
        \o <<Byte(2)>> \o BE16(key_info) \o BE16(16) \o counter \o nonce
        \o Zeros(16) \o Zeros(8) \o Zeros(8)    \* key IV, RSC, ID
        \o Zeros(16)                            \* MIC
        \o BE16(Len(key_data)) \o key_data

Sign(key, frame) ==
    LET mic == Mic(key, frame)
    IN  [i \in DOMAIN frame |-> IF i - 81 \in DOMAIN mic THEN mic[i - 81] ELSE frame[i]]

(* Slip of build_eapol_msg4: it does not say that the key is in place. *)
BuildMsg4Unmarked(counter, key) ==
    Sign(key, Unsigned(KEY_INFO_TYPE_HMAC_SHA1 + KEY_INFO_PAIRWISE + KEY_INFO_MIC,
                       counter, Zeros(32), <<>>))

BuildMsg2(snonce, counter, key, rsn_ie) ==
    Sign(key, Unsigned(KEY_INFO_TYPE_HMAC_SHA1 + KEY_INFO_PAIRWISE + KEY_INFO_MIC,
                       counter, snonce, rsn_ie))

BuildMsg4(counter, key) ==
    Sign(key, Unsigned(KEY_INFO_TYPE_HMAC_SHA1 + KEY_INFO_PAIRWISE
                            + KEY_INFO_MIC + KEY_INFO_SECURE,
                       counter, Zeros(32), <<>>))

-----------------------------------------------------------------------------
DriverFrame(m) ==
    IF m.n = 2 THEN BuildMsg2(Nonce("driver"), Counter(m.counter), m.ptk, BuildRsnIe)
               ELSE BuildMsg4(Counter(m.counter), m.ptk)

(* The access point's frames and its reading of the driver's: the layout   *)
(* of 802.11, written apart from the driver's.                             *)
GtkKeyData == Part("gtk", 0, 56)

Layout(info, counter, nonce, mic, key_data) ==
    <<Byte(2), Byte(3)>> \o BE16(95 + Len(key_data)) \o <<Byte(2)>> \o info
        \o BE16(16) \o Counter(counter) \o nonce \o Zeros(32) \o mic
        \o BE16(Len(key_data)) \o key_data

ApFrame(m) ==
    IF m.n = 1 THEN Layout(BE16(138), m.counter, Nonce(m.nonce), Zeros(16), <<>>)
    ELSE Layout(BE16(5066), m.counter, Nonce(m.nonce),
                Mic(m.ptk, Layout(BE16(5066), m.counter, Nonce(m.nonce),
                                  Zeros(16), GtkKeyData)),
                GtkKeyData)

(* The header of a data frame from the access point, and LLC. *)
DataHeader == <<Byte(136), Byte(2)>> \o Part("header", 0, 32)

DriverReads(m) ==
    LET eapol == Parse(ApFrame(m))
    IN  /\ eapol.some
        /\ MessageNumber(eapol) = m.n
        /\ eapol.replay_counter = Counter(m.counter)
        /\ eapol.nonce = Nonce(m.nonce)
        /\ eapol.key_data = IF m.n = 3 THEN GtkKeyData ELSE <<>>

DriverDiscards(m) == ~ Parse(DataHeader \o ApFrame(m)).some

Signed(frame, info, m, nonce, key_data) ==
    LET unsigned == Layout(info, m.counter, nonce, Zeros(16), key_data)
    IN  frame = Layout(info, m.counter, nonce, Mic(m.ptk, unsigned), key_data)

(* For key data the access point takes what message 2 has behind its fixed *)
(* fields; which element it should be is RsnRepeated's.                    *)
ApReads(m) ==
    LET frame == DriverFrame(m)
    IN  \/ /\ m.n = 2
           /\ Signed(frame, BE16(266), m, Nonce("driver"),
                     SubSeq(frame, 100, Len(frame)))
        \/ m.n = 4 /\ Signed(frame, BE16(778), m, Zeros(32), <<>>)

GoodFrames == {m \in FromAp : m.n = 1 <=> m.ptk = None}
ReadByDriver == {m \in GoodFrames : DriverReads(m)}
DiscardedByDriver == {m \in GoodFrames : DriverDiscards(m)}
ReadByAp == {m \in FromDriver : ApReads(m)}

(* Every frame on its way is taken as Handshake says.  A bare one the      *)
(* driver reads as the message it is, at the offsets of its parser and     *)
(* with the number its flags spell; of one inside a data frame it reads    *)
(* nothing.  The access point reads the driver's at the standard's         *)
(* offsets, with a MIC over the whole of the frame, whatever element       *)
(* message 2 carries (parse, message_number, the two builders, wpa.rs;     *)
(* wait_for_eapol, driver.rs).                                             *)
FramesReadBack ==
    /\ to_driver \subseteq IF in_data THEN DiscardedByDriver ELSE ReadByDriver
    /\ to_ap \subseteq ReadByAp

(* Message 2 repeats the RSN element of the association request, as        *)
(* build_rsn_ie says it is for both (driver.rs).                           *)
RsnRepeated ==
    \A m \in to_ap : m.n = 2 => Parse(DriverFrame(m)).key_data = AssocRsnIe
=============================================================================
