----------------------------- MODULE Handshake ------------------------------
(***************************************************************************)
(* The four-way handshake between do_4way_handshake (src/src/driver.rs)    *)
(* and an access point.  Frames are lost, duplicated, reordered and late:  *)
(* one of an earlier association may still come.  The access point is      *)
(* external and does what 802.11 asks of it: it sends a message again with *)
(* a new replay counter, takes an answer to any copy it has outstanding,   *)
(* and checks its MIC; it may also compare the RSN element of message 2    *)
(* with that of the association request.  The driver compares the message  *)
(* number and nothing else, at the first byte of what the device hands it. *)
(*                                                                         *)
(* The driver's nonce is a function of its address, so a key is known by   *)
(* the PSK and the access point's nonce.                                   *)
(***************************************************************************)
EXTENDS Integers, FiniteSets, Sequences

CONSTANTS
    Psks, ApPsk,        \* PSKs, and the access point's
    Anonces,            \* nonces of the access point, each used once
    None,
    MaxTries,           \* times the access point sends each message
    MaxLost             \* bound: frames lost

Ptks == [psk : Psks, anonce : Anonces]

ASSUME PskAssumption == ApPsk \in Psks
ASSUME NoneAssumption == None \notin Anonces \union Ptks
ASSUME BoundAssumption == MaxTries \in Nat /\ MaxLost \in Nat

VARIABLES
    \* what stays as it is
    in_data,            \* the device hands EAPOL over inside data frames
    compares,           \* the access point compares the two RSN elements
    \* the driver
    d_pc, d_psk,
    hs_ptk,             \* derived in the handshake in progress
    ptk,                \* the controller's ptk
    \* the access point
    ap_pc, ap_anonce, ap_ptk,
    ap_first, ap_counter,   \* counters of the copies outstanding
    \* the air
    to_driver, to_ap, lost,
    \* history
    used,               \* nonces used so far
    spoiled,            \* a timeout, a full ring, a lost answer or disconnect
    stale               \* it took a frame of an earlier association

setting == <<in_data, compares>>
driverVars == <<d_pc, d_psk, hs_ptk, ptk>>
apVars == <<ap_pc, ap_anonce, ap_ptk, ap_first, ap_counter>>
vars == <<in_data, compares, d_pc, d_psk, hs_ptk, ptk, ap_pc, ap_anonce, ap_ptk, ap_first,
          ap_counter, to_driver, to_ap, lost, used, spoiled, stale>>

(* Each of its two messages is sent at most MaxTries times. *)
Counters == 1 .. 2 * MaxTries

FromAp == [n : {1, 3}, counter : Counters, nonce : Anonces, ptk : Ptks \union {None}]
FromDriver == [n : {2, 4}, counter : Counters, ptk : Ptks]

Init ==
    /\ in_data \in BOOLEAN
    /\ compares \in BOOLEAN
    /\ d_pc = "idle"
    /\ d_psk = ApPsk
    /\ hs_ptk = None
    /\ ptk = None
    /\ ap_pc = "down"
    /\ ap_anonce = None
    /\ ap_ptk = None
    /\ ap_first = 1
    /\ ap_counter = 0
    /\ to_driver = {}
    /\ to_ap = {}
    /\ lost = 0
    /\ used = {}
    /\ spoiled = FALSE
    /\ stale = FALSE

-----------------------------------------------------------------------------
(* The RSN element: its data, and the element as connect's two frames have *)
(* it.  The one of the handshake has no length byte.                       *)
Byte(n) == <<"byte", n>>
LE16(n) == <<Byte(n % 256), Byte(n \div 256)>>

RsnIeData ==
    LE16(1) \o <<Byte(0), Byte(15), Byte(172), Byte(4)>>
        \o LE16(1) \o <<Byte(0), Byte(15), Byte(172), Byte(4)>>
        \o LE16(1) \o <<Byte(0), Byte(15), Byte(172), Byte(2)>>
        \o LE16(0)

AssocRsnIe == <<Byte(48), Byte(Len(RsnIeData))>> \o RsnIeData

BuildRsnIe == <<Byte(48)>> \o RsnIeData

-----------------------------------------------------------------------------
(* The access point. *)

ElementAccepted == compares => BuildRsnIe = AssocRsnIe

Outstanding(counter) == ap_first <= counter /\ counter <= ap_counter

Send(message) ==
    /\ ap_counter - ap_first + 1 < MaxTries
    /\ ap_counter' = ap_counter + 1
    /\ to_driver' = to_driver \union {message}
    /\ UNCHANGED <<setting, driverVars, ap_pc, ap_anonce, ap_ptk, ap_first,
                   to_ap, lost, used, spoiled, stale>>

ApSendsMsg1 ==
    /\ ap_pc = "msg2"
    /\ Send([n |-> 1, counter |-> ap_counter + 1, nonce |-> ap_anonce, ptk |-> None])

ApSendsMsg3 ==
    /\ ap_pc = "msg4"
    /\ Send([n |-> 3, counter |-> ap_counter + 1, nonce |-> ap_anonce, ptk |-> ap_ptk])

Answers(m, n) ==
    /\ m.n = n
    /\ Outstanding(m.counter)
    /\ m.ptk = [psk |-> ApPsk, anonce |-> ap_anonce]

ApReceives(m) ==
    /\ to_ap' = to_ap \ {m}
    /\ UNCHANGED <<setting, driverVars, ap_anonce, ap_counter, to_driver, lost,
                   used, spoiled, stale>>

ApTakesMsg2(m) ==
    /\ ap_pc = "msg2"
    /\ Answers(m, 2)
    /\ ElementAccepted
    /\ ApReceives(m)
    /\ ap_pc' = "msg4"
    /\ ap_ptk' = m.ptk
    /\ ap_first' = ap_counter + 1

(* Another element than the association's ends the association. *)
ApRefusesMsg2(m) ==
    /\ ap_pc = "msg2"
    /\ Answers(m, 2)
    /\ ~ ElementAccepted
    /\ ApReceives(m)
    /\ ap_pc' = "down"
    /\ UNCHANGED <<ap_ptk, ap_first>>

ApTakesMsg4(m) ==
    /\ ap_pc = "msg4"
    /\ Answers(m, 4)
    /\ ApReceives(m)
    /\ ap_pc' = "open"
    /\ UNCHANGED <<ap_ptk, ap_first>>

ApIgnores(m) ==
    /\ ~ (ap_pc = "msg2" /\ Answers(m, 2))
    /\ ~ (ap_pc = "msg4" /\ Answers(m, 4))
    /\ to_ap' = to_ap \ {m}
    /\ UNCHANGED <<setting, driverVars, apVars, to_driver, lost, used, spoiled,
                   stale>>

(* It waits longer than a frame and its answer travel. *)
ApGivesUp ==
    /\ ap_pc \in {"msg2", "msg4"}
    /\ ap_counter - ap_first + 1 = MaxTries
    /\ ~ \E m \in to_driver : m.nonce = ap_anonce /\ Outstanding(m.counter)
    /\ ~ \E m \in to_ap : Answers(m, IF ap_pc = "msg2" THEN 2 ELSE 4)
    /\ ap_pc' = "down"
    /\ UNCHANGED <<setting, driverVars, ap_anonce, ap_ptk, ap_first, ap_counter,
                   to_driver, to_ap, lost, used, spoiled, stale>>

-----------------------------------------------------------------------------
(* The driver. *)

(* connect gets as far as do_4way_handshake: the access point has taken    *)
(* the association and starts the handshake with a nonce of its own.       *)
StartHandshake(psk, anonce) ==
    /\ d_pc = "idle"
    /\ anonce \notin used
    /\ d_pc' = "msg1"
    /\ d_psk' = psk
    /\ hs_ptk' = None
    /\ ap_pc' = "msg2"
    /\ ap_anonce' = anonce
    /\ ap_ptk' = None
    /\ ap_first' = 1
    /\ ap_counter' = 0
    /\ used' = used \union {anonce}
    /\ spoiled' = FALSE
    /\ stale' = FALSE
    /\ UNCHANGED <<setting, ptk, to_driver, to_ap, lost>>

(* Slips: a copy of message 1 passes for message 3; the answer has a       *)
(* counter of the driver's own; a key in place is kept.                    *)
AnyMessage(m, n) == m.n <= n /\ ~ in_data
OwnCounter(m) == 1
CounterAhead(m) == m.counter + 1
FirstPtkStays == IF ptk = None THEN hs_ptk ELSE ptk

(* The parser starts at the first byte of the buffer: inside a data frame  *)
(* it finds no message.                                                    *)
IsMessage(m, n) == m.n = n /\ ~ in_data

AnswerCounter(m) == m.counter

InstalledPtk == hs_ptk

Receives(m) ==
    /\ \/ to_driver' = to_driver
       \/ to_driver' = to_driver \ {m}
    /\ stale' = (stale \/ m.nonce # ap_anonce)
    /\ UNCHANGED <<setting, d_psk, apVars, lost, used>>

Answer(n, m, key) ==
    to_ap' = to_ap \union {[n |-> n, counter |-> AnswerCounter(m), ptk |-> key]}

(* The ring may refuse the answer: connect returns. *)
Msg1Received(m) ==
    /\ d_pc = "msg1"
    /\ IsMessage(m, 1)
    /\ Receives(m)
    /\ hs_ptk' = [psk |-> d_psk, anonce |-> m.nonce]
    /\ \/ /\ Answer(2, m, hs_ptk')
          /\ d_pc' = "msg3"
          /\ UNCHANGED spoiled
       \/ /\ d_pc' = "idle"
          /\ spoiled' = TRUE
          /\ UNCHANGED to_ap
    /\ UNCHANGED ptk

(* After message 4 the ring may still refuse the key: connect returns with *)
(* ptk set.                                                                *)
Msg3Received(m) ==
    /\ d_pc = "msg3"
    /\ IsMessage(m, 3)
    /\ Receives(m)
    /\ \/ /\ Answer(4, m, hs_ptk)
          /\ ptk' = InstalledPtk
          /\ \/ d_pc' = "connected" /\ UNCHANGED spoiled
             \/ d_pc' = "idle" /\ spoiled' = TRUE
       \/ /\ d_pc' = "idle"
          /\ spoiled' = TRUE
          /\ UNCHANGED <<to_ap, ptk>>
    /\ UNCHANGED hs_ptk

(* wait_for_eapol recycles any other frame. *)
EapolIgnore(m) ==
    /\ \/ d_pc = "msg1" /\ ~ IsMessage(m, 1)
       \/ d_pc = "msg3" /\ ~ IsMessage(m, 3)
    /\ to_driver' = to_driver \ {m}
    /\ UNCHANGED <<setting, driverVars, apVars, to_ap, lost, used, spoiled, stale>>

EapolTimeout ==
    /\ d_pc \in {"msg1", "msg3"}
    /\ d_pc' = "idle"
    /\ spoiled' = TRUE
    /\ UNCHANGED <<setting, d_psk, hs_ptk, ptk, apVars, to_driver, to_ap, lost,
                   used, stale>>

(* disconnect clears ptk, load_firmware does not. *)
Leave ==
    /\ d_pc = "connected"
    /\ d_pc' = "idle"
    /\ ptk' \in {None, ptk}
    /\ spoiled' = TRUE
    /\ UNCHANGED <<setting, d_psk, hs_ptk, apVars, to_driver, to_ap, lost, used,
                   stale>>

-----------------------------------------------------------------------------
(* The air. *)

LoseOnTheWayDown(m) ==
    /\ lost < MaxLost
    /\ lost' = lost + 1
    /\ to_driver' = to_driver \ {m}
    /\ UNCHANGED <<setting, driverVars, apVars, to_ap, used, spoiled, stale>>

LoseOnTheWayUp(m) ==
    /\ lost < MaxLost
    /\ lost' = lost + 1
    /\ to_ap' = to_ap \ {m}
    /\ spoiled' = TRUE
    /\ UNCHANGED <<setting, driverVars, apVars, to_driver, used, stale>>

DriverPolls == \E m \in to_driver : Msg1Received(m) \/ Msg3Received(m) \/ EapolIgnore(m)

ApPolls ==
    \E m \in to_ap :
        ApTakesMsg2(m) \/ ApRefusesMsg2(m) \/ ApTakesMsg4(m) \/ ApIgnores(m)

Next ==
    \/ ApSendsMsg1 \/ ApSendsMsg3 \/ ApPolls \/ ApGivesUp
    \/ \E psk \in Psks, anonce \in Anonces : StartHandshake(psk, anonce)
    \/ DriverPolls \/ EapolTimeout \/ Leave
    \/ \E m \in to_driver : LoseOnTheWayDown(m)
    \/ \E m \in to_ap : LoseOnTheWayUp(m)

Fairness ==
    /\ WF_vars(ApSendsMsg1) /\ WF_vars(ApSendsMsg3) /\ WF_vars(ApPolls)
    /\ WF_vars(DriverPolls)

Spec == Init /\ [][Next]_vars /\ Fairness

-----------------------------------------------------------------------------
TypeOK ==
    /\ in_data \in BOOLEAN /\ compares \in BOOLEAN
    /\ d_pc \in {"idle", "msg1", "msg3", "connected"}
    /\ d_psk \in Psks
    /\ hs_ptk \in Ptks \union {None}
    /\ ptk \in Ptks \union {None}
    /\ ap_pc \in {"down", "msg2", "msg4", "open"}
    /\ ap_anonce \in Anonces \union {None}
    /\ ap_ptk \in Ptks \union {None}
    /\ ap_first \in Nat \ {0}
    /\ ap_counter \in Nat
    /\ to_driver \subseteq FromAp
    /\ to_ap \subseteq FromDriver
    /\ lost \in 0 .. MaxLost
    /\ used \subseteq Anonces
    /\ spoiled \in BOOLEAN /\ stale \in BOOLEAN

(* Once the access point has opened its port to a driver that stays, both  *)
(* have the same key, whatever was lost, repeated or late, and whatever    *)
(* attempts failed before (do_4way_handshake, connect, driver.rs).         *)
OpenMeansAgreed ==
    ap_pc = "open" =>
        /\ hs_ptk = ap_ptk
        /\ d_pc = "connected" => ptk = ap_ptk

(* A driver that took no frame of an earlier association connects only     *)
(* with the key the access point derived, so never with another            *)
(* passphrase, although it checks neither MIC nor counter                  *)
(* (wait_for_eapol, driver.rs).                                            *)
ConnectedMeansAgreed == d_pc = "connected" /\ ~ stale => ptk = ap_ptk

(* With the right passphrase an attempt ends with both connected, though   *)
(* messages 1 and 3 are lost as long as a copy is left, unless an answer   *)
(* is lost, for the driver sends none again, or it gave up, or took a      *)
(* frame of an earlier association.  This where the device hands EAPOL     *)
(* over bare and the access point does not compare the RSN elements: the   *)
(* driver finds no message inside a data frame, and its element is not     *)
(* that of its association request (do_4way_handshake, wait_for_eapol,     *)
(* build_rsn_ie, driver.rs).                                               *)
HandshakeCompletes ==
    (d_pc = "msg1" /\ d_psk = ApPsk /\ ~ in_data /\ ~ compares)
        ~> \/ d_pc = "connected" /\ ap_pc = "open"
           \/ spoiled
           \/ stale
=============================================================================
