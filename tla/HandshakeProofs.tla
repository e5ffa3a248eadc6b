-------------------------- MODULE HandshakeProofs --------------------------
(***************************************************************************)
(* Proofs about the four-way handshake of src/src/driver.rs, for any       *)
(* passphrases and nonces, and any number of copies, losses and            *)
(* associations, and about its frames as bytes (src/src/wpa.rs).           *)
(***************************************************************************)
EXTENDS Eapol, DataFacts

(* What the types rest on: the access point counts within its two rounds   *)
(* of copies, and a key is there whenever it is to be used.                *)
PhaseInv ==
    /\ ap_pc \in {"msg2", "msg4"} => ap_anonce \in Anonces
    /\ ap_pc = "msg2" => ap_first = 1
    /\ ap_pc = "msg4" => ap_first <= MaxTries + 1
    /\ ap_counter - ap_first + 1 <= MaxTries
    /\ d_pc \in {"msg3", "connected"} => hs_ptk \in Ptks

(* Every nonce under way or in use was handed out. *)
NonceInv ==
    /\ ap_anonce # None => ap_anonce \in used
    /\ \A m \in to_driver : m.nonce \in used
    /\ \A m \in to_ap : m.ptk.anonce \in used
    /\ hs_ptk # None => hs_ptk.anonce \in used

(* What belongs to the association in progress: an answer with its nonce   *)
(* was made under the driver's key, which does not change any more; the    *)
(* access point's key is the driver's; message 3 says the access point has *)
(* one.                                                                    *)
KeyInv ==
    /\ \A m \in to_ap : m.ptk.anonce = ap_anonce => m.ptk = hs_ptk /\ d_pc # "msg1"
    /\ ap_ptk # None => ap_ptk = hs_ptk /\ d_pc # "msg1"
    /\ ap_pc \in {"msg4", "open"} => ap_ptk # None
    /\ \A m \in to_driver : m.n = 3 /\ m.nonce = ap_anonce => ap_ptk # None
    /\ d_pc = "connected" => ptk = hs_ptk
    /\ d_pc = "connected" /\ ~ stale => ap_ptk # None

IInv == TypeOK /\ PhaseInv /\ NonceInv /\ KeyInv

-----------------------------------------------------------------------------
(* An attempt starts from clean counters on the access point's side. *)
LEMMA InitHolds == Init => IInv
<1> SUFFICES ASSUME Init PROVE IInv
  OBVIOUS
<1>1. MaxLost \in Nat /\ MaxTries \in Nat
  BY BoundAssumption
<1>2. TypeOK
  <2>1. spoiled \in BOOLEAN /\ stale \in BOOLEAN
    BY Zenon DEF Init
  <2>2. ap_first \in Nat \ {0} /\ ap_counter \in Nat /\ lost \in 0 .. MaxLost
    BY <1>1 DEF Init
  <2> QED
    BY <2>1, <2>2, PskAssumption DEF Init, TypeOK
<1>3. PhaseInv
  BY <1>1 DEF Init, PhaseInv
<1>4. NonceInv /\ KeyInv
  BY DEF Init, NonceInv, KeyInv
<1> QED
  BY <1>2, <1>3, <1>4 DEF IInv

(* A copy of either message is counted within the two rounds. *)
LEMMA NextCopyCounted ==
    ASSUME TypeOK, PhaseInv, ap_pc \in {"msg2", "msg4"},
           ap_counter - ap_first + 1 < MaxTries
    PROVE  /\ ap_counter + 1 \in Counters
           /\ ap_counter + 1 - ap_first + 1 <= MaxTries
<1>1. MaxTries \in Nat /\ ap_counter \in Nat /\ ap_first \in Nat
  BY BoundAssumption DEF TypeOK
<1>2. ap_first <= MaxTries + 1
  BY <1>1 DEF PhaseInv
<1> QED
  BY <1>1, <1>2 DEF Counters

(* The steps of the two sides that send keep their types. *)
LEMMA ApSendsTyped ==
    ASSUME TypeOK, PhaseInv, ApSendsMsg1 \/ ApSendsMsg3
    PROVE  TypeOK' /\ PhaseInv'
<1>1. PICK m \in FromAp : Send(m)
  <2>1. ap_counter + 1 \in Counters /\ ap_anonce \in Anonces
    BY NextCopyCounted DEF ApSendsMsg1, ApSendsMsg3, Send, PhaseInv
  <2>2. CASE ApSendsMsg1
    BY <2>1, <2>2 DEF ApSendsMsg1, FromAp
  <2>3. CASE ApSendsMsg3
    BY <2>1, <2>3 DEF ApSendsMsg3, FromAp, TypeOK
  <2> QED
    BY <2>2, <2>3
<1>2. ap_counter + 1 \in Nat /\ ap_counter + 1 - ap_first + 1 <= MaxTries
  BY <1>1, NextCopyCounted DEF ApSendsMsg1, ApSendsMsg3, Send, TypeOK
<1>3. to_driver' \subseteq FromAp
  BY <1>1 DEF Send, TypeOK, setting
<1>4. TypeOK'
  BY <1>1, <1>2, <1>3 DEF Send, TypeOK, driverVars, setting
<1>5. PhaseInv'
  <2>1. /\ ap_counter' = ap_counter + 1
        /\ ap_pc' = ap_pc /\ ap_anonce' = ap_anonce /\ ap_first' = ap_first
        /\ d_pc' = d_pc /\ hs_ptk' = hs_ptk
    BY <1>1 DEF Send, driverVars
  <2>2. ap_counter' - ap_first' + 1 <= MaxTries
    <3>1. ap_counter \in Nat /\ ap_first \in Nat /\ MaxTries \in Nat
      BY BoundAssumption DEF TypeOK
    <3> QED
      BY <1>2, <2>1, <3>1
  <2>3. ap_counter - ap_first + 1 <= MaxTries
    BY DEF PhaseInv
  <2> QED
    BY <2>1, <2>2, <2>3 DEF PhaseInv
<1> QED
  BY <1>4, <1>5

(* What the access point receives keeps its types. *)
LEMMA ApReceivesTyped ==
    ASSUME TypeOK, PhaseInv, NEW m \in to_ap,
           ApTakesMsg2(m) \/ ApRefusesMsg2(m) \/ ApTakesMsg4(m) \/ ApIgnores(m)
    PROVE  TypeOK' /\ PhaseInv'
<1>0. MaxTries \in Nat /\ ap_counter \in Nat /\ ap_first \in Nat /\ m.ptk \in Ptks
  BY BoundAssumption DEF TypeOK, FromDriver
<1>1. CASE ApTakesMsg2(m)
  <2>1. ap_counter + 1 <= MaxTries + 1 /\ ap_counter - (ap_counter + 1) + 1 <= MaxTries
    BY <1>0, <1>1 DEF ApTakesMsg2, PhaseInv
  <2> QED
    BY <1>0, <1>1, <2>1 DEF ApTakesMsg2, ApReceives, TypeOK, PhaseInv, driverVars, setting
<1>2. CASE ApTakesMsg4(m)
  BY <1>2 DEF ApTakesMsg4, ApReceives, TypeOK, PhaseInv, driverVars, setting
<1>3. CASE ApRefusesMsg2(m)
  BY <1>3 DEF ApRefusesMsg2, ApReceives, TypeOK, PhaseInv, setting, driverVars
<1>4. CASE ApIgnores(m)
  BY <1>4 DEF ApIgnores, TypeOK, PhaseInv, setting, driverVars, apVars
<1> QED
  BY <1>1, <1>2, <1>3, <1>4

(* A new association keeps the types. *)
LEMMA StartTyped ==
    ASSUME TypeOK, PhaseInv, NEW psk \in Psks, NEW anonce \in Anonces,
           StartHandshake(psk, anonce)
    PROVE  TypeOK' /\ PhaseInv'
<1>1. MaxTries \in Nat
  BY BoundAssumption
<1>2. TypeOK'
  <2>1. spoiled' \in BOOLEAN /\ stale' \in BOOLEAN
    BY Zenon DEF StartHandshake
  <2>2. ap_first' \in Nat \ {0} /\ ap_counter' \in Nat
    BY DEF StartHandshake
  <2> QED
    BY <2>1, <2>2 DEF StartHandshake, TypeOK, setting
<1>3. PhaseInv'
  BY <1>1 DEF StartHandshake, PhaseInv
<1> QED
  BY <1>2, <1>3

(* What the driver receives keeps its types. *)
LEMMA DriverReceivesTyped ==
    ASSUME TypeOK, PhaseInv, NEW m \in to_driver,
           Msg1Received(m) \/ Msg3Received(m) \/ EapolIgnore(m)
    PROVE  TypeOK' /\ PhaseInv'
<1>1. /\ m.counter \in Counters /\ m.nonce \in Anonces
      /\ to_driver \subseteq FromAp /\ to_ap \subseteq FromDriver
  BY DEF TypeOK, FromAp
<1>2. CASE Msg1Received(m)
  <2>1. hs_ptk' \in Ptks
    BY <1>1, <1>2 DEF Msg1Received, TypeOK, Ptks
  <2>2. [n |-> 2, counter |-> m.counter, ptk |-> hs_ptk'] \in FromDriver
    BY <1>1, <2>1 DEF FromDriver
  <2>3. to_ap' \subseteq FromDriver
    BY <1>1, <1>2, <2>2 DEF Msg1Received, Answer, AnswerCounter
  <2> QED
    BY <1>1, <1>2, <2>1, <2>3 DEF Msg1Received, Receives, apVars, TypeOK, PhaseInv, setting
<1>3. CASE Msg3Received(m)
  <2>1. hs_ptk \in Ptks
    BY <1>3 DEF Msg3Received, PhaseInv
  <2>2. [n |-> 4, counter |-> m.counter, ptk |-> hs_ptk] \in FromDriver
    BY <1>1, <2>1 DEF FromDriver
  <2>3. to_ap' \subseteq FromDriver
    BY <1>1, <1>3, <2>2 DEF Msg3Received, Answer, AnswerCounter
  <2> QED
    BY <1>1, <1>3, <2>1, <2>3
    DEF Msg3Received, Receives, InstalledPtk, apVars, TypeOK, PhaseInv, setting
<1>4. CASE EapolIgnore(m)
  BY <1>4 DEF EapolIgnore, TypeOK, PhaseInv, driverVars, apVars, setting
<1> QED
  BY <1>2, <1>3, <1>4

(* The types and the phases are kept by every step. *)
LEMMA TypeStep == TypeOK /\ PhaseInv /\ [Next]_vars => TypeOK' /\ PhaseInv'
<1> SUFFICES ASSUME TypeOK, PhaseInv, [Next]_vars
             PROVE  TypeOK' /\ PhaseInv'
  OBVIOUS
<1>1. CASE ApSendsMsg1 \/ ApSendsMsg3
  BY <1>1, ApSendsTyped
<1>2. CASE ApPolls
  BY <1>2, ApReceivesTyped DEF ApPolls
<1>3. CASE ApGivesUp
  BY <1>3 DEF ApGivesUp, TypeOK, PhaseInv, driverVars, setting
<1>4. ASSUME NEW psk \in Psks, NEW anonce \in Anonces, StartHandshake(psk, anonce)
      PROVE  TypeOK' /\ PhaseInv'
  BY <1>4, StartTyped
<1>5. CASE DriverPolls
  BY <1>5, DriverReceivesTyped DEF DriverPolls
<1>6. CASE EapolTimeout
  BY <1>6 DEF EapolTimeout, TypeOK, PhaseInv, apVars, setting
<1>7. CASE Leave
  BY <1>7 DEF Leave, TypeOK, PhaseInv, apVars, setting
<1>8. ASSUME NEW m \in to_driver, LoseOnTheWayDown(m)
      PROVE  TypeOK' /\ PhaseInv'
  <2>1. lost + 1 \in 0 .. MaxLost
    BY <1>8, BoundAssumption DEF LoseOnTheWayDown, TypeOK
  <2> QED
    BY <1>8, <2>1 DEF LoseOnTheWayDown, TypeOK, PhaseInv, driverVars, apVars, setting
<1>9. ASSUME NEW m \in to_ap, LoseOnTheWayUp(m)
      PROVE  TypeOK' /\ PhaseInv'
  <2>1. lost + 1 \in 0 .. MaxLost
    BY <1>9, BoundAssumption DEF LoseOnTheWayUp, TypeOK
  <2> QED
    BY <1>9, <2>1 DEF LoseOnTheWayUp, TypeOK, PhaseInv, driverVars, apVars, setting
<1>10. CASE UNCHANGED vars
  BY <1>10 DEF vars, TypeOK, PhaseInv
<1> QED
  BY <1>1, <1>2, <1>3, <1>4, <1>5, <1>6, <1>7, <1>8, <1>9, <1>10 DEF Next

(* The handshake's types hold throughout: a key is there when it is used,  *)
(* and no counter leaves the access point's two rounds                     *)
(* (do_4way_handshake, driver.rs).                                         *)
THEOREM HandshakeTypeCorrect == Spec => []TypeOK
<1>1. Init => TypeOK /\ PhaseInv
  BY InitHolds DEF IInv
<1> QED
  BY <1>1, TypeStep, PTL DEF Spec

-----------------------------------------------------------------------------
(* The steps of the access point. *)
LEMMA ApSendsKept ==
    ASSUME IInv, ApSendsMsg1 \/ ApSendsMsg3
    PROVE  NonceInv' /\ KeyInv'
<1>1. PICK m : /\ Send(m) /\ m.nonce = ap_anonce
               /\ m.n = 3 => ap_pc = "msg4"
  BY DEF ApSendsMsg1, ApSendsMsg3
<1>2. ap_anonce \in used
  BY NoneAssumption DEF IInv, PhaseInv, NonceInv, ApSendsMsg1, ApSendsMsg3
<1>3. NonceInv'
  BY <1>1, <1>2 DEF IInv, NonceInv, Send, driverVars
<1>4. KeyInv'
  BY <1>1 DEF IInv, KeyInv, Send, driverVars
<1> QED
  BY <1>3, <1>4

(* The access point takes only answers made under its key. *)
LEMMA ApReceivesKept ==
    ASSUME IInv, NEW m \in to_ap,
           ApTakesMsg2(m) \/ ApRefusesMsg2(m) \/ ApTakesMsg4(m) \/ ApIgnores(m)
    PROVE  NonceInv' /\ KeyInv'
<1>1. CASE ApTakesMsg2(m)
  <2>1. m.ptk.anonce = ap_anonce
    BY <1>1 DEF ApTakesMsg2, Answers
  <2>2. m.ptk = hs_ptk /\ d_pc # "msg1" /\ m.ptk # None
    BY <2>1, NoneAssumption DEF IInv, KeyInv, TypeOK, FromDriver
  <2> QED
    BY <1>1, <2>2 DEF ApTakesMsg2, ApReceives, IInv, NonceInv, KeyInv, driverVars
<1>2. CASE ApTakesMsg4(m)
  BY <1>2 DEF ApTakesMsg4, ApReceives, IInv, NonceInv, KeyInv, driverVars
<1>3. CASE ApRefusesMsg2(m)
  BY <1>3 DEF ApRefusesMsg2, ApReceives, IInv, NonceInv, KeyInv, driverVars
<1>4. CASE ApIgnores(m)
  BY <1>4 DEF ApIgnores, IInv, NonceInv, KeyInv, driverVars, apVars
<1> QED
  BY <1>1, <1>2, <1>3, <1>4

(* A new association has a new nonce, so nothing under way is of it. *)
LEMMA StartKept ==
    ASSUME IInv, NEW psk \in Psks, NEW anonce \in Anonces, StartHandshake(psk, anonce)
    PROVE  NonceInv' /\ KeyInv'
<1>1. NonceInv'
  BY DEF IInv, NonceInv, StartHandshake
<1>2. /\ \A m \in to_ap : m.ptk.anonce # anonce
      /\ \A m \in to_driver : m.nonce # anonce
  BY DEF IInv, NonceInv, StartHandshake
<1>3. KeyInv'
  BY <1>2 DEF KeyInv, StartHandshake
<1> QED
  BY <1>1, <1>3

(* The driver's key changes in its first wait alone, when no answer of     *)
(* this association is under way and the access point has no key yet.      *)
LEMMA Msg1Kept ==
    ASSUME IInv, NEW m \in to_driver, Msg1Received(m)
    PROVE  NonceInv' /\ KeyInv'
<1>1. hs_ptk' = [psk |-> d_psk, anonce |-> m.nonce] /\ m.nonce \in used
  BY DEF Msg1Received, IInv, NonceInv
<1>2. \A a \in to_ap' : a \in to_ap \/ a.ptk = hs_ptk'
  BY DEF Msg1Received, Answer
<1>3. /\ ap_ptk = None
      /\ ap_pc \notin {"msg4", "open"}
      /\ \A a \in to_ap : a.ptk.anonce # ap_anonce
      /\ \A a \in to_driver : ~ (a.n = 3 /\ a.nonce = ap_anonce)
  BY DEF IInv, KeyInv, Msg1Received
<1>4. /\ to_driver' \subseteq to_driver
      /\ UNCHANGED <<ap_pc, ap_anonce, ap_ptk, used>>
      /\ d_pc' \in {"msg3", "idle"}
  BY DEF Msg1Received, Receives, apVars
<1>5. NonceInv'
  BY <1>1, <1>2, <1>4 DEF IInv, NonceInv
<1>6. KeyInv'
  BY <1>2, <1>3, <1>4 DEF KeyInv
<1> QED
  BY <1>5, <1>6

(* Message 3 of this association comes after the access point has its key. *)
LEMMA Msg3Kept ==
    ASSUME IInv, NEW m \in to_driver, Msg3Received(m)
    PROVE  NonceInv' /\ KeyInv'
<1>1. \A a \in to_ap' : a \in to_ap \/ a.ptk = hs_ptk
  BY DEF Msg3Received, Answer
<1>2. hs_ptk.anonce \in used
  BY NoneAssumption DEF Msg3Received, IInv, PhaseInv, NonceInv
<1>3. /\ to_driver' \subseteq to_driver
      /\ UNCHANGED <<ap_pc, ap_anonce, ap_ptk, hs_ptk, used>>
      /\ d_pc = "msg3" /\ d_pc' \in {"connected", "idle"}
      /\ m.n = 3
  BY DEF Msg3Received, Receives, apVars, IsMessage
<1>4. NonceInv'
  BY <1>1, <1>2, <1>3 DEF IInv, NonceInv
<1>5. d_pc' = "connected" => ptk' = hs_ptk'
  BY DEF Msg3Received, InstalledPtk
<1>6. d_pc' = "connected" /\ ~ stale' => ap_ptk' # None
  <2>1. ~ stale' => m.nonce = ap_anonce
    BY Zenon DEF Msg3Received, Receives
  <2> QED
    BY <1>3, <2>1 DEF IInv, KeyInv
<1>7. KeyInv'
  BY <1>1, <1>3, <1>5, <1>6 DEF IInv, KeyInv
<1> QED
  BY <1>4, <1>7

(* Every step keeps what belongs to the association in progress. *)
LEMMA KeyStep == IInv /\ [Next]_vars => NonceInv' /\ KeyInv'
<1> SUFFICES ASSUME IInv, [Next]_vars
             PROVE  NonceInv' /\ KeyInv'
  OBVIOUS
<1> USE DEF IInv
<1>1. CASE ApSendsMsg1 \/ ApSendsMsg3
  BY <1>1, ApSendsKept
<1>2. CASE ApPolls
  BY <1>2, ApReceivesKept DEF ApPolls
<1>3. CASE ApGivesUp
  BY <1>3 DEF ApGivesUp, NonceInv, KeyInv, driverVars
<1>4. ASSUME NEW psk \in Psks, NEW anonce \in Anonces, StartHandshake(psk, anonce)
      PROVE  NonceInv' /\ KeyInv'
  BY <1>4, StartKept
<1>5. CASE DriverPolls
  <2> SUFFICES ASSUME NEW m \in to_driver,
                      Msg1Received(m) \/ Msg3Received(m) \/ EapolIgnore(m)
               PROVE  NonceInv' /\ KeyInv'
    BY <1>5 DEF DriverPolls
  <2>1. CASE EapolIgnore(m)
    BY <2>1 DEF EapolIgnore, NonceInv, KeyInv, driverVars, apVars
  <2> QED
    BY <2>1, Msg1Kept, Msg3Kept
<1>6. CASE EapolTimeout
  BY <1>6 DEF EapolTimeout, NonceInv, KeyInv, apVars
<1>7. CASE Leave
  BY <1>7 DEF Leave, NonceInv, KeyInv, apVars
<1>8. ASSUME NEW m \in to_driver, LoseOnTheWayDown(m)
      PROVE  NonceInv' /\ KeyInv'
  BY <1>8 DEF LoseOnTheWayDown, NonceInv, KeyInv, driverVars, apVars
<1>9. ASSUME NEW m \in to_ap, LoseOnTheWayUp(m)
      PROVE  NonceInv' /\ KeyInv'
  BY <1>9 DEF LoseOnTheWayUp, NonceInv, KeyInv, driverVars, apVars
<1>10. CASE UNCHANGED vars
  BY <1>10 DEF vars, NonceInv, KeyInv
<1> QED
  BY <1>1, <1>2, <1>3, <1>4, <1>5, <1>6, <1>7, <1>8, <1>9, <1>10 DEF Next

(* The invariant is inductive, whatever the air does. *)
LEMMA Invariance == Spec => []IInv
<1>1. IInv /\ [Next]_vars => IInv'
  BY TypeStep, KeyStep DEF IInv
<1> QED
  BY InitHolds, <1>1, PTL DEF Spec

(* Once the access point's port is open the two keys are the same, however *)
(* many messages were lost, repeated or late and however many attempts     *)
(* came before (do_4way_handshake, driver.rs).                             *)
THEOREM OpenHasOneKey == Spec => []OpenMeansAgreed
<1>1. IInv => OpenMeansAgreed
  BY DEF IInv, KeyInv, OpenMeansAgreed
<1> QED
  BY <1>1, Invariance, PTL

(* A driver that took only frames of this association is connected with    *)
(* the key the access point derived (wait_for_eapol, driver.rs).           *)
THEOREM ConnectedHasTheKey == Spec => []ConnectedMeansAgreed
<1>1. IInv => ConnectedMeansAgreed
  BY DEF IInv, KeyInv, ConnectedMeansAgreed
<1> QED
  BY <1>1, Invariance, PTL

-----------------------------------------------------------------------------
(* Every byte of a frame: a number, or a place in one of the values. *)
BytesOf(values) ==
    {Byte(n) : n \in Nat}
        \union {<<kind, value, i>> :
                    kind \in {"nonce", "counter", "mic", "gtk", "header"},
                    value \in values, i \in Nat}

(* A value known by its name only has its length. *)
LEMMA PartSized ==
    ASSUME NEW values, NEW value \in values,
           NEW kind \in {"nonce", "counter", "mic", "gtk", "header"}, NEW n \in Nat
    PROVE  Sized(BytesOf(values), Part(kind, value, n), n)
<1>1. \A i \in 1 .. n : <<kind, value, i>> \in BytesOf(values)
  BY DEF BytesOf
<1>2. PICK s : s = Part(kind, value, n)
  OBVIOUS
<1>3. s = [i \in 1 .. n |-> <<kind, value, i>>]
  BY <1>2 DEF Part
<1>4. s \in Seq(BytesOf(values)) /\ Len(s) = n
  <2>1. DOMAIN s = 1 .. n /\ \A i \in 1 .. n : s[i] \in BytesOf(values)
    BY <1>1, <1>3
  <2>2. s \in [1 .. n -> BytesOf(values)]
    BY <1>1, <1>3
  <2> QED
    BY <2>2
<1> QED
  BY <1>2, <1>4 DEF Sized

(* Numbers as bytes. *)
LEMMA NumbersSized ==
    ASSUME NEW S, {Byte(n) : n \in Nat} \subseteq S
    PROVE  /\ \A n \in Nat : Sized(S, Zeros(n), n)
           /\ \A n \in Nat : Sized(S, BE16(n), 2)
           /\ \A i, j \in Nat : Sized(S, <<Byte(i), Byte(j)>>, 2)
           /\ \A i \in Nat : Sized(S, <<Byte(i)>>, 1)
<1>1. \A n \in Nat : Byte(n) \in S
  OBVIOUS
<1>2. ASSUME NEW i \in Nat, NEW j \in Nat
      PROVE  Sized(S, <<Byte(i), Byte(j)>>, 2)
  BY <1>1 DEF Sized
<1>3. ASSUME NEW i \in Nat
      PROVE  Sized(S, <<Byte(i)>>, 1)
  BY <1>1 DEF Sized
<1>4. ASSUME NEW n \in Nat
      PROVE  Sized(S, BE16(n), 2)
  <2>1. n % 256 \in Nat /\ n \div 256 \in Nat
    BY TwoBytes
  <2> QED
    BY <1>2, <2>1 DEF BE16
<1>5. ASSUME NEW n \in Nat
      PROVE  Sized(S, Zeros(n), n)
  <2>1. PICK s : s = Zeros(n)
    OBVIOUS
  <2>2. s \in [1 .. n -> S]
    BY <1>1, <2>1 DEF Zeros
  <2>3. s \in Seq(S) /\ Len(s) = n
    BY <2>2
  <2> QED
    BY <2>1, <2>3 DEF Sized
<1> QED
  BY <1>2, <1>3, <1>4, <1>5

(* What stands before the zeros and before the MIC. *)
Opening(info, counter, nonce, l) ==
    <<Byte(2), Byte(3)>> \o BE16(l) \o <<Byte(2)>> \o info
        \o BE16(16) \o Counter(counter) \o nonce

BeforeMic(info, counter, nonce, l) == Opening(info, counter, nonce, l) \o Zeros(32)

(* Where the fields before the zeros are. *)
LEMMA OpeningShape ==
    ASSUME NEW S, {Byte(n) : n \in Nat} \subseteq S, NEW l \in Nat,
           NEW info, Sized(S, info, 2), NEW counter, Sized(S, Counter(counter), 8),
           NEW nonce, Sized(S, nonce, 32),
           NEW u, u = Opening(info, counter, nonce, l)
    PROVE  /\ Sized(S, u, 49)
           /\ Has(u, 0, <<Byte(2), Byte(3)>>) /\ Has(u, 5, info)
           /\ Has(u, 9, Counter(counter)) /\ Has(u, 17, nonce)
<1>1. PICK a, b, c, d, e : /\ a = <<Byte(2), Byte(3)>> /\ b = BE16(l) /\ c = <<Byte(2)>>
                              /\ d = BE16(16) /\ e = Counter(counter)
  OBVIOUS
<1>2. Sized(S, a, 2) /\ Sized(S, b, 2) /\ Sized(S, c, 1) /\ Sized(S, d, 2) /\ Sized(S, e, 8)
  <2>1. 2 \in Nat /\ 3 \in Nat /\ 16 \in Nat
    OBVIOUS
  <2> QED
    BY <1>1, <2>1, NumbersSized
<1>3. u = a \o b \o c \o info \o d \o e \o nonce
  BY <1>1 DEF Opening
<1>4. PICK v1 : v1 = a \o b
  OBVIOUS
<1>5. Sized(S, v1, 4) /\ Has(v1, 0, a)
  <2>1. (\A n : n = 2 + 2 => Sized(S, a \o b, n)) /\ Has(a \o b, 0, a)
    BY ONLY <1>2, Appended
  <2> QED
    BY ONLY <1>4, <2>1
<1>6. PICK v2 : v2 = v1 \o c
  OBVIOUS
<1>7. Sized(S, v2, 5) /\ \A x, t : Has(v1, x, t) => Has(v2, x, t)
  <2>1. (\A n : n = 4 + 1 => Sized(S, v1 \o c, n)) /\ \A x, t : Has(v1, x, t) => Has(v1 \o c, x, t)
    BY ONLY <1>2, <1>5, Appended
  <2> QED
    BY ONLY <1>6, <2>1
<1>8. PICK v3 : v3 = v2 \o info
  OBVIOUS
<1>9. Sized(S, v3, 7) /\ Has(v3, 5, info) /\ \A x, t : Has(v2, x, t) => Has(v3, x, t)
  <2>1. /\ \A n : n = 5 + 2 => Sized(S, v2 \o info, n)
        /\ Has(v2 \o info, 5, info) /\ \A x, t : Has(v2, x, t) => Has(v2 \o info, x, t)
    BY ONLY Sized(S, info, 2), <1>7, Appended
  <2> QED
    BY ONLY <1>8, <2>1
<1>10. PICK v4 : v4 = v3 \o d
  OBVIOUS
<1>11. Sized(S, v4, 9) /\ \A x, t : Has(v3, x, t) => Has(v4, x, t)
  <2>1. (\A n : n = 7 + 2 => Sized(S, v3 \o d, n)) /\ \A x, t : Has(v3, x, t) => Has(v3 \o d, x, t)
    BY ONLY <1>2, <1>9, Appended
  <2> QED
    BY ONLY <1>10, <2>1
<1>12. PICK v5 : v5 = v4 \o e
  OBVIOUS
<1>13. Sized(S, v5, 17) /\ Has(v5, 9, e) /\ \A x, t : Has(v4, x, t) => Has(v5, x, t)
  <2>1. /\ \A n : n = 9 + 8 => Sized(S, v4 \o e, n)
        /\ Has(v4 \o e, 9, e) /\ \A x, t : Has(v4, x, t) => Has(v4 \o e, x, t)
    BY ONLY <1>2, <1>11, Appended
  <2> QED
    BY ONLY <1>12, <2>1
<1>14. u = v5 \o nonce
  BY ONLY <1>3, <1>4, <1>6, <1>8, <1>10, <1>12
<1>15. Sized(S, u, 49) /\ Has(u, 17, nonce) /\ \A x, t : Has(v5, x, t) => Has(u, x, t)
  <2>1. /\ \A n : n = 17 + 32 => Sized(S, v5 \o nonce, n)
        /\ Has(v5 \o nonce, 17, nonce) /\ \A x, t : Has(v5, x, t) => Has(v5 \o nonce, x, t)
    BY ONLY Sized(S, nonce, 32), <1>13, Appended
  <2> QED
    BY ONLY <1>14, <2>1
<1> QED
  BY ONLY <1>1, <1>5, <1>7, <1>9, <1>11, <1>13, <1>15

(* They are there with the zeros behind them. *)
LEMMA BeforeShape ==
    ASSUME NEW S, {Byte(n) : n \in Nat} \subseteq S, NEW l \in Nat,
           NEW info, Sized(S, info, 2), NEW counter, Sized(S, Counter(counter), 8),
           NEW nonce, Sized(S, nonce, 32),
           NEW u, u = BeforeMic(info, counter, nonce, l)
    PROVE  /\ Sized(S, u, 81)
           /\ Has(u, 0, <<Byte(2), Byte(3)>>) /\ Has(u, 5, info)
           /\ Has(u, 9, Counter(counter)) /\ Has(u, 17, nonce)
<1>1. PICK v, z : v = Opening(info, counter, nonce, l) /\ z = Zeros(32)
  OBVIOUS
<1>2. /\ Sized(S, v, 49)
      /\ Has(v, 0, <<Byte(2), Byte(3)>>) /\ Has(v, 5, info)
      /\ Has(v, 9, Counter(counter)) /\ Has(v, 17, nonce)
  BY <1>1, OpeningShape
<1>3. Sized(S, z, 32)
  <2>1. 32 \in Nat
    OBVIOUS
  <2> QED
    BY <1>1, <2>1, NumbersSized
<1>4. u = v \o z
  BY <1>1 DEF BeforeMic
<1>5. /\ \A n : n = 49 + 32 => Sized(S, v \o z, n)
      /\ \A x, t : Has(v, x, t) => Has(v \o z, x, t)
  BY ONLY <1>2, <1>3, Appended
<1> QED
  BY ONLY <1>2, <1>4, <1>5

(* A frame of the access point's layout, and where its fields are. *)
LayoutPlaced(S, u, info, counter, nonce, mic, key_data, k) ==
    /\ \A n : n = 99 + k => Sized(S, u, n)
    /\ Has(u, 0, <<Byte(2), Byte(3)>>) /\ Has(u, 5, info)
    /\ Has(u, 9, Counter(counter)) /\ Has(u, 17, nonce)
    /\ Has(u, 81, mic) /\ Has(u, 97, BE16(k)) /\ Has(u, 99, key_data)

(* The access point's layout has its fields where the driver looks. *)
LEMMA LayoutShape ==
    ASSUME NEW S, {Byte(n) : n \in Nat} \subseteq S,
           NEW info, Sized(S, info, 2), NEW counter, Sized(S, Counter(counter), 8),
           NEW nonce, Sized(S, nonce, 32), NEW mic, Sized(S, mic, 16),
           NEW key_data, NEW k \in Nat, Sized(S, key_data, k),
           NEW u, u = Layout(info, counter, nonce, mic, key_data)
    PROVE  LayoutPlaced(S, u, info, counter, nonce, mic, key_data, k)
<1>1. Len(key_data) = k
  BY DEF Sized
<1>2. PICK l \in Nat : l = 95 + k
  OBVIOUS
<1>3. PICK v : v = BeforeMic(info, counter, nonce, l)
  OBVIOUS
<1>4. PICK b : b = BE16(k)
  OBVIOUS
<1>5. /\ Sized(S, v, 81)
      /\ Has(v, 0, <<Byte(2), Byte(3)>>) /\ Has(v, 5, info)
      /\ Has(v, 9, Counter(counter)) /\ Has(v, 17, nonce)
  BY <1>3, BeforeShape
<1>6. Sized(S, b, 2)
  BY <1>4, NumbersSized
<1>7. u = v \o mic \o b \o key_data
  BY <1>1, <1>2, <1>3, <1>4 DEF Layout, BeforeMic, Opening
<1>8. PICK v1 : v1 = v \o mic
  OBVIOUS
<1>9. Sized(S, v1, 97) /\ Has(v1, 81, mic) /\ \A x, t : Has(v, x, t) => Has(v1, x, t)
  <2>1. /\ \A n : n = 81 + 16 => Sized(S, v \o mic, n)
        /\ Has(v \o mic, 81, mic) /\ \A x, t : Has(v, x, t) => Has(v \o mic, x, t)
    BY ONLY Sized(S, mic, 16), <1>5, Appended
  <2> QED
    BY ONLY <1>8, <2>1
<1>10. PICK v2 : v2 = v1 \o b
  OBVIOUS
<1>11. Sized(S, v2, 99) /\ Has(v2, 97, b) /\ \A x, t : Has(v1, x, t) => Has(v2, x, t)
  <2>1. /\ \A n : n = 97 + 2 => Sized(S, v1 \o b, n)
        /\ Has(v1 \o b, 97, b) /\ \A x, t : Has(v1, x, t) => Has(v1 \o b, x, t)
    BY ONLY <1>6, <1>9, Appended
  <2> QED
    BY ONLY <1>10, <2>1
<1>12. u = v2 \o key_data
  BY ONLY <1>7, <1>8, <1>10
<1>13. /\ \A n : n = 99 + k => Sized(S, u, n)
       /\ Has(u, 99, key_data) /\ \A x, t : Has(v2, x, t) => Has(u, x, t)
  <2>1. /\ \A n : n = 99 + k => Sized(S, v2 \o key_data, n)
        /\ Has(v2 \o key_data, 99, key_data) /\ \A x, t : Has(v2, x, t) => Has(v2 \o key_data, x, t)
    BY ONLY Sized(S, key_data, k), <1>11, Appended
  <2> QED
    BY ONLY <1>12, <2>1
<1> QED
  BY ONLY <1>4, <1>5, <1>9, <1>11, <1>13 DEF LayoutPlaced

(* What parse is to make of such a frame. *)
ParsesAs(u, info, counter, nonce, mic, key_data) ==
    Parse(u) = [some |-> TRUE, key_info |-> info, replay_counter |-> Counter(counter),
                nonce |-> nonce, mic |-> mic, key_data |-> key_data]

(* The parser reads the fields where the layout has them. *)
LEMMA LayoutParsed ==
    ASSUME NEW S, NEW info, Sized(S, info, 2), NEW counter, Sized(S, Counter(counter), 8),
           NEW nonce, Sized(S, nonce, 32), NEW mic, Sized(S, mic, 16),
           NEW key_data, NEW k \in Nat, Sized(S, key_data, k),
           NEW u, LayoutPlaced(S, u, info, counter, nonce, mic, key_data, k)
    PROVE  ParsesAs(u, info, counter, nonce, mic, key_data)
<1>1. /\ \A n : n = 99 + k => Sized(S, u, n)
      /\ Has(u, 0, <<Byte(2), Byte(3)>>) /\ Has(u, 5, info)
      /\ Has(u, 9, Counter(counter)) /\ Has(u, 17, nonce)
      /\ Has(u, 81, mic) /\ Has(u, 97, BE16(k)) /\ Has(u, 99, key_data)
  BY DEF LayoutPlaced
<1>2. PICK l \in Nat : l = 99 + k
  OBVIOUS
<1>3. u \in Seq(S) /\ Len(u) = l
  <2>1. Sized(S, u, l)
    BY ONLY <1>1, <1>2
  <2> QED
    BY ONLY <2>1 DEF Sized
<1>4. u[2] = Byte(3)
  <2>1. PICK a : a = <<Byte(2), Byte(3)>>
    OBVIOUS
  <2>2. Len(a) = 2 /\ a[2] = Byte(3)
    BY ONLY <2>1
  <2>3. \A i \in 1 .. 2 : u[0 + i] = a[i]
    BY ONLY <1>1, <2>1, <2>2 DEF Has
  <2>4. 2 \in 1 .. 2 /\ 0 + 2 = 2
    OBVIOUS
  <2> QED
    BY ONLY <2>2, <2>3, <2>4
<1>5. u[98] = Byte(k \div 256) /\ u[99] = Byte(k % 256)
  <2>1. PICK a : a = BE16(k)
    OBVIOUS
  <2>2. Len(a) = 2 /\ a[1] = Byte(k \div 256) /\ a[2] = Byte(k % 256)
    BY ONLY <2>1 DEF BE16
  <2>3. \A i \in 1 .. 2 : u[97 + i] = a[i]
    BY ONLY <1>1, <2>1, <2>2 DEF Has
  <2>4. 1 \in 1 .. 2 /\ 2 \in 1 .. 2 /\ 97 + 1 = 98 /\ 97 + 2 = 99
    OBVIOUS
  <2> QED
    BY ONLY <2>2, <2>3, <2>4
<1>6. 256 * u[98][2] + u[99][2] = k
  <2>1. u[98][2] = k \div 256 /\ u[99][2] = k % 256
    BY ONLY <1>5 DEF Byte
  <2>2. k = (256 * (k \div 256)) + (k % 256)
    BY ONLY k \in Nat, TwoBytes
  <2> QED
    BY ONLY <2>1, <2>2
<1>7. /\ IsSlice(info, u, 6, 7) /\ IsSlice(Counter(counter), u, 10, 17)
      /\ IsSlice(nonce, u, 18, 49) /\ IsSlice(mic, u, 82, 97)
  <2>1. \A m, n : m = 5 + 1 /\ n = 5 + 2 => IsSlice(info, u, m, n)
    BY ONLY Sized(S, info, 2), <1>1, <1>3, SizedSlice
  <2>2. \A m, n : m = 9 + 1 /\ n = 9 + 8 => IsSlice(Counter(counter), u, m, n)
    BY ONLY Sized(S, Counter(counter), 8), <1>1, <1>3, SizedSlice
  <2>3. \A m, n : m = 17 + 1 /\ n = 17 + 32 => IsSlice(nonce, u, m, n)
    BY ONLY Sized(S, nonce, 32), <1>1, <1>3, SizedSlice
  <2>4. \A m, n : m = 81 + 1 /\ n = 81 + 16 => IsSlice(mic, u, m, n)
    BY ONLY Sized(S, mic, 16), <1>1, <1>3, SizedSlice
  <2> QED
    BY ONLY <2>1, <2>2, <2>3, <2>4
<1>8. IsSlice(key_data, u, 100, l)
  <2>1. \A m, n : m = 99 + 1 /\ n = 99 + k => IsSlice(key_data, u, m, n)
    BY ONLY Sized(S, key_data, k), <1>1, <1>3, SizedSlice
  <2> QED
    BY ONLY <1>2, <2>1
<1>9. ~ (Len(u) < 99) /\ Len(u) >= 99 + k /\ 99 + k = l
  BY ONLY k \in Nat, <1>2, <1>3
<1>10. u[2] = Byte(EAPOL_KEY_TYPE)
  BY ONLY <1>4 DEF EAPOL_KEY_TYPE
<1>11. /\ SubSeq(u, 6, 7) = info /\ SubSeq(u, 10, 17) = Counter(counter)
       /\ SubSeq(u, 18, 49) = nonce /\ SubSeq(u, 82, 97) = mic
       /\ SubSeq(u, 100, l) = key_data
  BY ONLY <1>7, <1>8 DEF IsSlice
<1>12. Parse(u) = [some |-> TRUE, key_info |-> SubSeq(u, 6, 7),
                   replay_counter |-> SubSeq(u, 10, 17),
                   nonce |-> SubSeq(u, 18, 49), mic |-> SubSeq(u, 82, 97),
                   key_data |-> SubSeq(u, 100, l)]
  BY ONLY <1>6, <1>9, <1>10 DEF Parse
<1> QED
  BY ONLY <1>11, <1>12 DEF ParsesAs

(* message_number, by the three flags. *)
Marks(eapol, ack, mic, secure) ==
    /\ HasBit(eapol.key_info, KEY_INFO_ACK) = ack
    /\ HasBit(eapol.key_info, KEY_INFO_MIC) = mic
    /\ HasBit(eapol.key_info, KEY_INFO_SECURE) = secure

MarkedFirst(eapol) == Marks(eapol, TRUE, FALSE, FALSE)

MarkedThird(eapol) == Marks(eapol, TRUE, TRUE, TRUE)

(* The marks of messages 1 and 3 have their numbers. *)
LEMMA NumberOfFlags ==
    ASSUME NEW eapol
    PROVE  /\ MarkedFirst(eapol) => MessageNumber(eapol) = 1
           /\ MarkedThird(eapol) => MessageNumber(eapol) = 3
<1>1. PICK t, f : t = TRUE /\ f = FALSE
  OBVIOUS
<1>2. t # f
  BY ONLY <1>1
<1>3. PICK flags : flags = <<HasBit(eapol.key_info, KEY_INFO_ACK),
                            HasBit(eapol.key_info, KEY_INFO_MIC),
                            HasBit(eapol.key_info, KEY_INFO_SECURE)>>
  OBVIOUS
<1>4. MessageNumber(eapol) =
        CASE flags = <<t, f, f>> -> 1
          [] flags = <<f, t, f>> -> 2
          [] flags = <<t, t, t>> -> 3
          [] flags = <<f, t, t>> -> 4
          [] OTHER -> 0
  BY ONLY <1>1, <1>3 DEF MessageNumber
<1>5. ASSUME MarkedFirst(eapol)
      PROVE  MessageNumber(eapol) = 1
  <2>1. flags = <<t, f, f>>
    BY ONLY <1>1, <1>3, <1>5 DEF MarkedFirst, MarkedThird, Marks
  <2>2. flags # <<f, t, f>> /\ flags # <<t, t, t>> /\ flags # <<f, t, t>>
    BY ONLY <1>2, <2>1
  <2> QED
    BY ONLY <1>4, <2>1, <2>2
<1>6. ASSUME MarkedThird(eapol)
      PROVE  MessageNumber(eapol) = 3
  <2>1. flags = <<t, t, t>>
    BY ONLY <1>1, <1>3, <1>6 DEF MarkedFirst, MarkedThird, Marks
  <2>2. flags # <<t, f, f>> /\ flags # <<f, t, f>> /\ flags # <<f, t, t>>
    BY ONLY <1>2, <2>1
  <2> QED
    BY ONLY <1>4, <2>1, <2>2
<1> QED
  BY ONLY <1>5, <1>6

(* The flags of messages 1 and 3. *)
LEMMA FlagsSpell ==
    ASSUME NEW eapol
    PROVE  /\ eapol.key_info = BE16(138) => MessageNumber(eapol) = 1
           /\ eapol.key_info = BE16(5066) => MessageNumber(eapol) = 3
<1>1. ASSUME NEW n \in Nat, NEW b, b = BE16(n)
      PROVE  256 * b[1][2] + b[2][2] = n
  <2>1. b[1][2] = n \div 256 /\ b[2][2] = n % 256
    BY ONLY <1>1 DEF BE16, Byte
  <2>2. n = (256 * (n \div 256)) + (n % 256)
    BY ONLY n \in Nat, TwoBytes
  <2> QED
    BY ONLY <2>1, <2>2
<1>2. ASSUME NEW n \in Nat, eapol.key_info = BE16(n)
      PROVE  \A bit : HasBit(eapol.key_info, bit) <=> (n \div bit) % 2 = 1
  <2>1. 256 * eapol.key_info[1][2] + eapol.key_info[2][2] = n
    BY ONLY n \in Nat, <1>1, <1>2
  <2> QED
    BY ONLY <2>1 DEF HasBit
<1>3. ASSUME eapol.key_info = BE16(138)
      PROVE  MessageNumber(eapol) = 1
  <2>1. 138 \in Nat /\ (138 \div 128) % 2 = 1 /\ ~ ((138 \div 256) % 2 = 1) /\ ~ ((138 \div 512) % 2 = 1)
    OBVIOUS
  <2>2. /\ HasBit(eapol.key_info, KEY_INFO_ACK) /\ ~ HasBit(eapol.key_info, KEY_INFO_MIC)
        /\ ~ HasBit(eapol.key_info, KEY_INFO_SECURE)
    BY ONLY <1>2, <1>3, <2>1 DEF KEY_INFO_ACK, KEY_INFO_MIC, KEY_INFO_SECURE
  <2>3. MarkedFirst(eapol)
    BY ONLY <2>2 DEF HasBit, MarkedFirst, MarkedThird, Marks
  <2> QED
    BY ONLY <2>3, NumberOfFlags
<1>4. ASSUME eapol.key_info = BE16(5066)
      PROVE  MessageNumber(eapol) = 3
  <2>1. 5066 \in Nat /\ (5066 \div 128) % 2 = 1 /\ (5066 \div 256) % 2 = 1 /\ (5066 \div 512) % 2 = 1
    OBVIOUS
  <2>2. /\ HasBit(eapol.key_info, KEY_INFO_ACK) /\ HasBit(eapol.key_info, KEY_INFO_MIC)
        /\ HasBit(eapol.key_info, KEY_INFO_SECURE)
    BY ONLY <1>2, <1>4, <2>1 DEF KEY_INFO_ACK, KEY_INFO_MIC, KEY_INFO_SECURE
  <2>3. MarkedThird(eapol)
    BY ONLY <2>2 DEF HasBit, MarkedFirst, MarkedThird, Marks
  <2> QED
    BY ONLY <2>3, NumberOfFlags
<1> QED
  BY <1>3, <1>4

(* Behind the header of a data frame the parser finds no message: its      *)
(* second byte is not the type of an EAPOL-Key frame.                      *)
LEMMA HeaderHides ==
    ASSUME NEW S, NEW u \in Seq(S)
    PROVE  ~ Parse(DataHeader \o u).some
<1>1. PICK T : T = S \union BytesOf({0})
  OBVIOUS
<1>2. PICK h : h = Part("header", 0, 32)
  OBVIOUS
<1>3. h \in Seq(BytesOf({0}))
  <2>1. 0 \in {0} /\ 32 \in Nat
    OBVIOUS
  <2>2. Sized(BytesOf({0}), Part("header", 0, 32), 32)
    BY ONLY <2>1, PartSized
  <2> QED
    BY ONLY <1>2, <2>2 DEF Sized
<1>4. u \in Seq(T) /\ h \in Seq(T)
  BY ONLY u \in Seq(S), <1>1, <1>3, SeqWider
<1>5. Byte(136) \in T /\ Byte(2) \in T
  BY ONLY <1>1 DEF BytesOf
<1>6. PICK a : a = <<Byte(136), Byte(2)>>
  OBVIOUS
<1>7. Sized(T, a, 2) /\ a[2] = Byte(2) /\ Has(a, 0, a)
  <2>1. a \in Seq(T) /\ Len(a) = 2 /\ a[2] = Byte(2)
    BY ONLY <1>5, <1>6
  <2>2. \A i \in 1 .. 2 : 0 + i = i
    OBVIOUS
  <2>3. Has(a, 0, a)
    BY ONLY <2>1, <2>2 DEF Has
  <2> QED
    BY ONLY <2>1, <2>3 DEF Sized
<1>8. DataHeader = a \o h
  BY ONLY <1>2, <1>6 DEF DataHeader
<1>9. a \o h \in Seq(T) /\ Len(a \o h) >= 2 /\ (a \o h)[2] = Byte(2)
  <2>1. Sized(T, h, 32)
    <3>1. 0 \in {0} /\ 32 \in Nat
      OBVIOUS
    <3>2. Sized(BytesOf({0}), Part("header", 0, 32), 32)
      BY ONLY <3>1, PartSized
    <3> QED
      BY ONLY <1>2, <1>4, <3>2 DEF Sized
  <2>2. PICK g : g = a \o h
    OBVIOUS
  <2>3. Sized(T, g, 34) /\ Has(g, 0, a)
    <3>1. /\ \A n : n = 2 + 32 => Sized(T, a \o h, n)
          /\ \A x, t : Has(a, x, t) => Has(a \o h, x, t)
      BY ONLY <1>7, <2>1, Appended
    <3> QED
      BY ONLY <1>7, <2>2, <3>1
  <2>4. g[2] = a[2]
    <3>1. 2 \in 1 .. 2 /\ 0 + 2 = 2
      OBVIOUS
    <3>2. Len(a) = 2
      BY ONLY <1>7 DEF Sized
    <3> QED
      BY ONLY <2>3, <3>1, <3>2 DEF Has
  <2>5. g \in Seq(T) /\ Len(g) = 34
    BY ONLY <2>3 DEF Sized
  <2> QED
    BY ONLY <1>7, <2>2, <2>4, <2>5
<1>10. PICK g : g = a \o h
  OBVIOUS
<1>11. (g \o u)[2] = Byte(2)
  BY ONLY <1>4, <1>9, <1>10
<1>12. Byte(2) # Byte(EAPOL_KEY_TYPE)
  BY DEF Byte, EAPOL_KEY_TYPE
<1>13. Parse(g \o u) = NotEapol
  BY ONLY <1>11, <1>12 DEF Parse
<1> QED
  BY ONLY <1>8, <1>10, <1>13 DEF NotEapol

(* The driver reads a frame of the access point as the message it is, and  *)
(* not at all inside a data frame.                                         *)
LEMMA ApFrameRead ==
    ASSUME NEW m \in FromAp, m.n = 1 <=> m.ptk = None
    PROVE  DriverReads(m) /\ DriverDiscards(m)
<1>1. PICK u : u = ApFrame(m)
  OBVIOUS
<1>2. PICK zeros, nonce : zeros = Zeros(16) /\ nonce = Nonce(m.nonce)
  OBVIOUS
<1>3. PICK sealed : sealed = Layout(BE16(5066), m.counter, nonce, zeros, GtkKeyData)
  OBVIOUS
<1>4. PICK values : values = {m.counter, m.nonce, <<m.ptk, sealed>>, 0}
  OBVIOUS
<1>5. PICK S : S = BytesOf(values)
  OBVIOUS
<1>6. {Byte(n) : n \in Nat} \subseteq S
  BY ONLY <1>5 DEF BytesOf
<1>7. /\ Sized(S, Counter(m.counter), 8) /\ Sized(S, nonce, 32) /\ Sized(S, GtkKeyData, 56)
      /\ Sized(S, Mic(m.ptk, sealed), 16)
  <2>1. m.counter \in values /\ m.nonce \in values /\ <<m.ptk, sealed>> \in values /\ 0 \in values
    BY ONLY <1>4
  <2>2. 8 \in Nat /\ 32 \in Nat /\ 56 \in Nat /\ 16 \in Nat
    OBVIOUS
  <2>3. \A value \in values, n \in Nat,
             kind \in {"nonce", "counter", "mic", "gtk", "header"} :
           Sized(S, Part(kind, value, n), n)
    BY ONLY <1>5, PartSized
  <2>4. Sized(S, Counter(m.counter), 8)
    BY ONLY <2>1, <2>2, <2>3 DEF Counter
  <2>5. Sized(S, nonce, 32)
    BY ONLY <1>2, <2>1, <2>2, <2>3 DEF Nonce
  <2>6. Sized(S, GtkKeyData, 56)
    BY ONLY <2>1, <2>2, <2>3 DEF GtkKeyData
  <2>7. Sized(S, Mic(m.ptk, sealed), 16)
    BY ONLY <2>1, <2>2, <2>3 DEF Mic
  <2> QED
    BY ONLY <2>4, <2>5, <2>6, <2>7
<1>8. Sized(S, zeros, 16)
  <2>1. 16 \in Nat
    OBVIOUS
  <2> QED
    BY ONLY <1>2, <1>6, <2>1, NumbersSized
<1>9. m.n \in {1, 3}
  BY DEF FromAp
<1>10. CASE m.n = 1
  <2>1. PICK info, none : info = BE16(138) /\ none = <<>>
    OBVIOUS
  <2>2. u = Layout(info, m.counter, nonce, zeros, none)
    BY ONLY <1>1, <1>2, <1>10, <2>1 DEF ApFrame
  <2>3. Sized(S, info, 2)
    <3>1. 138 \in Nat
      OBVIOUS
    <3> QED
      BY ONLY <1>6, <2>1, <3>1, NumbersSized
  <2>4. Sized(S, none, 0) /\ 0 \in Nat
    BY ONLY <2>1 DEF Sized
  <2>5. LayoutPlaced(S, u, info, m.counter, nonce, zeros, none, 0)
    BY ONLY <1>6, <1>7, <1>8, <2>2, <2>3, <2>4, LayoutShape
  <2>6. ParsesAs(u, info, m.counter, nonce, zeros, none)
    BY ONLY <1>7, <1>8, <2>3, <2>4, <2>5, LayoutParsed
  <2>7. PICK eapol : eapol = Parse(u)
    OBVIOUS
  <2>8. /\ eapol.some /\ eapol.key_info = info /\ eapol.replay_counter = Counter(m.counter)
        /\ eapol.nonce = nonce /\ eapol.key_data = none
    BY ONLY <2>6, <2>7 DEF ParsesAs
  <2>9. MessageNumber(eapol) = 1
    <3>1. eapol.key_info = BE16(138)
      BY ONLY <2>1, <2>8
    <3> QED
      BY ONLY <3>1, FlagsSpell
  <2>10. ~ Parse(DataHeader \o u).some
    <3>1. PICK l : l = 99 + 0
      OBVIOUS
    <3>2. Sized(S, u, l)
      BY ONLY <2>5, <3>1 DEF LayoutPlaced
    <3> QED
      BY ONLY <3>2, HeaderHides DEF Sized
  <2> QED
    BY ONLY <1>1, <1>2, <1>10, <2>1, <2>7, <2>8, <2>9, <2>10
    DEF DriverReads, DriverDiscards
<1>11. CASE m.n = 3
  <2>1. PICK info, gtk, mic : info = BE16(5066) /\ gtk = GtkKeyData /\ mic = Mic(m.ptk, sealed)
    OBVIOUS
  <2>2. u = Layout(info, m.counter, nonce, mic, gtk)
    BY ONLY <1>1, <1>2, <1>3, <1>11, <2>1 DEF ApFrame
  <2>3. Sized(S, info, 2)
    <3>1. PICK n \in Nat : n = 5066
      OBVIOUS
    <3>2. Sized(S, BE16(n), 2)
      BY ONLY n \in Nat, <1>6, NumbersSized
    <3> QED
      BY ONLY <2>1, <3>1, <3>2
  <2>4. Sized(S, gtk, 56) /\ 56 \in Nat /\ Sized(S, mic, 16)
    BY ONLY <1>7, <2>1
  <2>5. LayoutPlaced(S, u, info, m.counter, nonce, mic, gtk, 56)
    BY ONLY <1>6, <1>7, <2>2, <2>3, <2>4, LayoutShape
  <2>6. ParsesAs(u, info, m.counter, nonce, mic, gtk)
    BY ONLY <1>7, <2>3, <2>4, <2>5, LayoutParsed
  <2>7. PICK eapol : eapol = Parse(u)
    OBVIOUS
  <2>8. /\ eapol.some /\ eapol.key_info = info /\ eapol.replay_counter = Counter(m.counter)
        /\ eapol.nonce = nonce /\ eapol.key_data = gtk
    BY ONLY <2>6, <2>7 DEF ParsesAs
  <2>9. MessageNumber(eapol) = 3
    <3>1. eapol.key_info = BE16(5066)
      BY ONLY <2>1, <2>8
    <3> QED
      BY ONLY <3>1, FlagsSpell
  <2>10. ~ Parse(DataHeader \o u).some
    <3>1. PICK l : l = 99 + 56
      OBVIOUS
    <3>2. Sized(S, u, l)
      BY ONLY <2>5, <3>1 DEF LayoutPlaced
    <3> QED
      BY ONLY <3>2, HeaderHides DEF Sized
  <2> QED
    BY ONLY <1>1, <1>2, <1>11, <2>1, <2>7, <2>8, <2>9, <2>10
    DEF DriverReads, DriverDiscards
<1> QED
  BY ONLY <1>9, <1>10, <1>11

-----------------------------------------------------------------------------
(* Zeros behind zeros are zeros. *)
ZerosOf(s, n) == s = Zeros(n)

(* Zeros behind zeros are zeros. *)
LEMMA ZerosJoin ==
    ASSUME NEW m \in Nat, NEW n \in Nat
    PROVE  ZerosOf(Zeros(m) \o Zeros(n), m + n)
<1>1. PICK l \in Nat : l = m + n
  OBVIOUS
<1>2. PICK S : S = {Byte(0)}
  OBVIOUS
<1>3. PICK s, t, v, z : s = Zeros(m) /\ t = Zeros(n) /\ v = Zeros(l) /\ z = Byte(0)
  OBVIOUS
<1>4. \A k \in Nat : Zeros(k) \in Seq(S) /\ Len(Zeros(k)) = k /\ \A i \in 1 .. k : Zeros(k)[i] = Byte(0)
  <2> SUFFICES ASSUME NEW k \in Nat
               PROVE  Zeros(k) \in Seq(S) /\ Len(Zeros(k)) = k /\ \A i \in 1 .. k : Zeros(k)[i] = Byte(0)
    OBVIOUS
  <2>1. PICK w : w = Zeros(k)
    OBVIOUS
  <2>2. w \in [1 .. k -> S] /\ \A i \in 1 .. k : w[i] = Byte(0)
    BY ONLY <1>2, <2>1 DEF Zeros
  <2>3. w \in Seq(S) /\ Len(w) = k
    BY ONLY k \in Nat, <2>2
  <2> QED
    BY ONLY <2>1, <2>2, <2>3
<1>5. s \in Seq(S) /\ Len(s) = m /\ \A i \in 1 .. m : s[i] = z
  BY ONLY m \in Nat, <1>3, <1>4
<1>6. t \in Seq(S) /\ Len(t) = n /\ \A i \in 1 .. n : t[i] = z
  BY ONLY n \in Nat, <1>3, <1>4
<1>7. v \in Seq(S) /\ Len(v) = l /\ \A i \in 1 .. l : v[i] = z
  BY ONLY <1>1, <1>3, <1>4
<1>8. PICK w : w = s \o t
  OBVIOUS
<1>9. w \in Seq(S) /\ Len(w) = l
  BY ONLY m \in Nat, n \in Nat, <1>1, <1>5, <1>6, <1>8, Behind
<1>10. \A i \in 1 .. m : w[i] = z
  BY ONLY <1>5, <1>6, <1>8, Behind
<1>11. \A i \in 1 .. n : w[m + i] = z
  BY ONLY <1>5, <1>6, <1>8, Behind
<1>12. \A i \in 1 .. l : w[i] = z
  <2> SUFFICES ASSUME NEW i \in 1 .. l
               PROVE  w[i] = z
    OBVIOUS
  <2>1. CASE i <= m
    <3>1. i \in 1 .. m
      BY ONLY m \in Nat, n \in Nat, <1>1, i \in 1 .. l, <2>1
    <3> QED
      BY ONLY <1>10, <3>1
  <2>2. CASE i > m
    <3>1. PICK j \in 1 .. n : i = m + j
      <4>1. i - m \in 1 .. n /\ i = m + (i - m)
        BY ONLY m \in Nat, n \in Nat, <1>1, i \in 1 .. l, <2>2
      <4> QED
        BY ONLY <4>1
    <3> QED
      BY ONLY <1>11, <3>1
  <2>3. i <= m \/ i > m
    BY ONLY m \in Nat, i \in 1 .. l
  <2> QED
    BY ONLY <2>1, <2>2, <2>3
<1>13. w = v
  <2>1. \A i \in 1 .. l : w[i] = v[i]
    BY ONLY <1>7, <1>12
  <2> QED
    BY ONLY <1>7, <1>9, <2>1, SeqEqual
<1> QED
  BY ONLY <1>1, <1>3, <1>8, <1>13 DEF ZerosOf

(* w with y written over what stands behind the first a. *)
Overwritten(w, a, y) == [i \in DOMAIN w |-> IF i - a \in DOMAIN y THEN y[i - a] ELSE w[i]]

(* A part written over by one of the same length is replaced. *)
LEMMA PartReplaced ==
    ASSUME NEW S, NEW p, NEW x, NEW y, NEW q, NEW a, NEW n, NEW b,
           Sized(S, p, a), Sized(S, x, n), Sized(S, y, n), Sized(S, q, b)
    PROVE  Overwritten(p \o x \o q, a, y) = p \o y \o q
<1>1. a \in Nat /\ n \in Nat /\ b \in Nat
  BY DEF Sized
<1>2. PICK c \in Nat, l \in Nat : c = a + n /\ l = c + b
  BY <1>1
<1>3. ASSUME NEW z, Sized(S, z, n)
      PROVE  /\ p \o z \o q \in Seq(S) /\ Len(p \o z \o q) = l
             /\ \A i \in 1 .. a : (p \o z \o q)[i] = p[i]
             /\ \A i \in 1 .. n : (p \o z \o q)[a + i] = z[i]
             /\ \A i \in 1 .. b : (p \o z \o q)[c + i] = q[i]
  <2>1. PICK u : u = p \o z
    OBVIOUS
  <2>2. Sized(S, u, c) /\ Has(u, 0, p) /\ Has(u, a, z)
    <3>1. (\A k : k = a + n => Sized(S, p \o z, k)) /\ Has(p \o z, 0, p) /\ Has(p \o z, a, z)
      BY ONLY Sized(S, p, a), <1>3, Appended
    <3> QED
      BY ONLY <1>2, <2>1, <3>1
  <2>3. PICK v : v = u \o q
    OBVIOUS
  <2>4. Sized(S, v, l) /\ Has(v, c, q) /\ Has(v, 0, p) /\ Has(v, a, z)
    <3>1. /\ (\A k : k = c + b => Sized(S, u \o q, k)) /\ Has(u \o q, c, q)
          /\ \A k, t : Has(u, k, t) => Has(u \o q, k, t)
      BY ONLY Sized(S, q, b), <2>2, Appended
    <3> QED
      BY ONLY <1>2, <2>2, <2>3, <3>1
  <2>5. v \in Seq(S) /\ Len(v) = l
    BY ONLY <2>4 DEF Sized
  <2>6. \A i \in 1 .. a : v[i] = p[i]
    <3>1. \A i \in 1 .. a : v[0 + i] = p[i]
      BY ONLY <2>4, Sized(S, p, a) DEF Has, Sized
    <3>2. \A i \in 1 .. a : 0 + i = i
      BY ONLY <1>1
    <3> QED
      BY ONLY <3>1, <3>2
  <2>7. \A i \in 1 .. n : v[a + i] = z[i]
    BY ONLY <2>4, <1>3 DEF Has, Sized
  <2>8. \A i \in 1 .. b : v[c + i] = q[i]
    BY ONLY <2>4, Sized(S, q, b) DEF Has, Sized
  <2>9. v = p \o z \o q
    BY ONLY <2>1, <2>3
  <2> QED
    BY ONLY <2>5, <2>6, <2>7, <2>8, <2>9
<1>4. PICK v : v = p \o x \o q
  OBVIOUS
<1>5. PICK w : w = p \o y \o q
  OBVIOUS
<1>6. /\ v \in Seq(S) /\ Len(v) = l
      /\ \A i \in 1 .. a : v[i] = p[i]
      /\ \A i \in 1 .. b : v[c + i] = q[i]
  BY ONLY <1>3, <1>4, Sized(S, x, n)
<1>7. /\ w \in Seq(S) /\ Len(w) = l
      /\ \A i \in 1 .. a : w[i] = p[i]
      /\ \A i \in 1 .. n : w[a + i] = y[i]
      /\ \A i \in 1 .. b : w[c + i] = q[i]
  BY ONLY <1>3, <1>5, Sized(S, y, n)
<1>8. DOMAIN v = 1 .. l /\ DOMAIN w = 1 .. l /\ DOMAIN y = 1 .. n
  <2>1. DOMAIN v = 1 .. l
    BY ONLY <1>6
  <2>2. DOMAIN w = 1 .. l
    BY ONLY <1>7
  <2>3. DOMAIN y = 1 .. n
    BY ONLY Sized(S, y, n) DEF Sized
  <2> QED
    BY ONLY <2>1, <2>2, <2>3
<1>9. ASSUME NEW i \in 1 .. l
      PROVE  (IF i - a \in DOMAIN y THEN y[i - a] ELSE v[i]) = w[i]
  <2>1. i \in Nat /\ i >= 1 /\ i <= l
    BY ONLY i \in 1 .. l, l \in Nat
  <2>2. CASE i <= a
    <3>1. i \in 1 .. a /\ i - a \notin 1 .. n
      BY ONLY <1>1, <2>1, <2>2
    <3> QED
      BY ONLY <1>6, <1>7, <1>8, <3>1
  <2>3. CASE i > a /\ i <= c
    <3>1. PICK j \in 1 .. n : j = i - a /\ i = a + j
      <4>1. i - a \in 1 .. n /\ i = a + (i - a)
        BY ONLY <1>1, <1>2, <2>1, <2>3
      <4> QED
        BY ONLY <4>1
    <3>2. w[i] = y[j]
      BY ONLY <1>7, <3>1
    <3> QED
      BY ONLY <1>8, <3>1, <3>2
  <2>4. CASE i > c
    <3>1. PICK j \in 1 .. b : i = c + j
      <4>1. i - c \in 1 .. b /\ i = c + (i - c)
        BY ONLY <1>1, <1>2, <2>1, <2>4
      <4> QED
        BY ONLY <4>1
    <3>2. i - a \notin 1 .. n
      BY ONLY <1>1, <1>2, <2>1, <2>4
    <3>3. v[i] = q[j] /\ w[i] = q[j]
      BY ONLY <1>6, <1>7, <3>1
    <3> QED
      BY ONLY <1>8, <3>2, <3>3
  <2> QED
    BY ONLY <1>1, <1>2, <2>1, <2>2, <2>3, <2>4
<1>10. Overwritten(v, a, y) = w
  <2>1. Overwritten(v, a, y) = [i \in 1 .. l |-> w[i]]
    BY ONLY <1>8, <1>9 DEF Overwritten
  <2>2. w = [i \in 1 .. l |-> w[i]]
    BY ONLY <1>7
  <2> QED
    BY ONLY <2>1, <2>2
<1> QED
  BY ONLY <1>4, <1>5, <1>10

(* An unsigned frame is the access point's layout with a MIC of zeros. *)
LEMMA UnsignedIsLaidOut ==
    ASSUME NEW S, {Byte(n) : n \in Nat} \subseteq S, NEW number \in Nat,
           NEW counter, Sized(S, Counter(counter), 8),
           NEW nonce, Sized(S, nonce, 32), NEW key_data \in Seq(S)
    PROVE  Unsigned(number, Counter(counter), nonce, key_data)
              = Layout(BE16(number), counter, nonce, Zeros(16), key_data)
<1>1. PICK k \in Nat : k = Len(key_data)
  OBVIOUS
<1>2. PICK a, b : a = Opening(BE16(number), counter, nonce, 95 + k) /\ b = BE16(k)
  OBVIOUS
<1>3. PICK x, y, z, t : x = Zeros(16) /\ y = Zeros(8) /\ z = Zeros(24) /\ t = Zeros(32)
  OBVIOUS
<1>4. x \in Seq(S) /\ y \in Seq(S) /\ z \in Seq(S)
  <2>1. 16 \in Nat /\ 8 \in Nat /\ 24 \in Nat
    OBVIOUS
  <2>2. \A n \in Nat : Sized(S, Zeros(n), n)
    BY NumbersSized
  <2>3. Sized(S, x, 16) /\ Sized(S, y, 8) /\ Sized(S, z, 24)
    BY ONLY <1>3, <2>1, <2>2
  <2> QED
    BY ONLY <2>3 DEF Sized
<1>5. a \in Seq(S)
  <2>1. Sized(S, BE16(number), 2) /\ 95 + k \in Nat
    BY NumbersSized
  <2>2. Sized(S, a, 49)
    BY <1>2, <2>1, OpeningShape
  <2> QED
    BY ONLY <2>2 DEF Sized
<1>6. x \o y = z /\ z \o y = t
  <2>1. 16 \in Nat /\ 8 \in Nat /\ 24 \in Nat /\ 24 = 16 + 8 /\ 32 = 24 + 8
    OBVIOUS
  <2>2. Zeros(16) \o Zeros(8) = Zeros(24)
    <3>1. ZerosOf(Zeros(16) \o Zeros(8), 16 + 8)
      BY ONLY <2>1, ZerosJoin
    <3> QED
      BY ONLY <2>1, <3>1 DEF ZerosOf
  <2>3. Zeros(24) \o Zeros(8) = Zeros(32)
    <3>1. ZerosOf(Zeros(24) \o Zeros(8), 24 + 8)
      BY ONLY <2>1, ZerosJoin
    <3> QED
      BY ONLY <2>1, <3>1 DEF ZerosOf
  <2> QED
    BY ONLY <1>3, <2>2, <2>3
<1>7. a \o x \o y \o y = a \o t
  <2>1. (a \o x) \o y = a \o (x \o y)
    <3>1. Associate(a, x, y)
      BY ONLY <1>4, <1>5, Associated
    <3> QED
      BY ONLY <3>1 DEF Associate
  <2>2. (a \o z) \o y = a \o (z \o y)
    <3>1. Associate(a, z, y)
      BY ONLY <1>4, <1>5, Associated
    <3> QED
      BY ONLY <3>1 DEF Associate
  <2> QED
    BY ONLY <1>6, <2>1, <2>2
<1>8. Unsigned(number, Counter(counter), nonce, key_data) = a \o x \o y \o y \o x \o b \o key_data
  BY ONLY <1>1, <1>2, <1>3 DEF Unsigned, Opening, EAPOL_KEY_TYPE
<1>9. Layout(BE16(number), counter, nonce, Zeros(16), key_data) = a \o t \o x \o b \o key_data
  BY ONLY <1>1, <1>2, <1>3 DEF Layout, Opening
<1> QED
  BY ONLY <1>7, <1>8, <1>9

(* To sign a frame puts the MIC in its place. *)
LEMMA SignedIsLaidOut ==
    ASSUME NEW S, {Byte(n) : n \in Nat} \subseteq S,
           NEW info, Sized(S, info, 2), NEW counter, Sized(S, Counter(counter), 8),
           NEW nonce, Sized(S, nonce, 32), NEW key_data \in Seq(S),
           NEW u, u = Layout(info, counter, nonce, Zeros(16), key_data),
           NEW key, Sized(S, Mic(key, u), 16)
    PROVE  Sign(key, u) = Layout(info, counter, nonce, Mic(key, u), key_data)
<1>1. PICK k \in Nat : k = Len(key_data)
  OBVIOUS
<1>2. PICK l \in Nat : l = 95 + k
  OBVIOUS
<1>3. PICK p, b, x, y : /\ p = BeforeMic(info, counter, nonce, l) /\ b = BE16(k)
                        /\ x = Zeros(16) /\ y = Mic(key, u)
  OBVIOUS
<1>4. Sized(S, p, 81)
  BY <1>3, BeforeShape
<1>5. Sized(S, x, 16) /\ Sized(S, y, 16) /\ Sized(S, b, 2)
  <2>1. 16 \in Nat
    OBVIOUS
  <2> QED
    BY <1>3, <2>1, NumbersSized
<1>6. PICK q : q = b \o key_data
  OBVIOUS
<1>7. PICK n : Sized(S, q, n)
  <2>1. b \in Seq(S)
    BY ONLY <1>5 DEF Sized
  <2>2. q \in Seq(S) /\ Len(q) \in Nat
    BY ONLY <1>6, <2>1, key_data \in Seq(S)
  <2>3. Sized(S, q, Len(q))
    BY ONLY <2>2 DEF Sized
  <2> QED
    BY ONLY <2>3
<1>8. ASSUME NEW z, Sized(S, z, 16)
      PROVE  Layout(info, counter, nonce, z, key_data) = p \o z \o q
  <2>1. Layout(info, counter, nonce, z, key_data) = ((p \o z) \o b) \o key_data
    BY ONLY <1>1, <1>2, <1>3 DEF Layout, BeforeMic, Opening
  <2>2. (p \o z) \in Seq(S) /\ b \in Seq(S)
    BY ONLY <1>4, <1>5, <1>8 DEF Sized
  <2>3. ((p \o z) \o b) \o key_data = (p \o z) \o (b \o key_data)
    <3>1. Associate(p \o z, b, key_data)
      BY ONLY <2>2, key_data \in Seq(S), Associated
    <3> QED
      BY ONLY <3>1 DEF Associate
  <2> QED
    BY ONLY <1>6, <2>1, <2>3
<1>9. u = p \o x \o q /\ Layout(info, counter, nonce, Mic(key, u), key_data) = p \o y \o q
  BY <1>3, <1>5, <1>8
<1>10. Overwritten(p \o x \o q, 81, y) = p \o y \o q
  BY ONLY <1>4, <1>5, <1>7, PartReplaced
<1>11. Sign(key, u) = Overwritten(u, 81, y)
  BY ONLY <1>3 DEF Sign, Overwritten
<1> QED
  BY ONLY <1>9, <1>10, <1>11

(* The RSN element is made of bytes. *)
LEMMA RsnIeTyped ==
    ASSUME NEW S, {Byte(n) : n \in Nat} \subseteq S
    PROVE  BuildRsnIe \in Seq(S)
<1>1. \A n \in Nat : Byte(n) \in S
  OBVIOUS
<1>2. <<Byte(48)>> \in Seq(S)
  BY ONLY <1>1
<1>3. <<Byte(0), Byte(15), Byte(172), Byte(4)>> \in Seq(S)
  BY ONLY <1>1
<1>4. <<Byte(0), Byte(15), Byte(172), Byte(2)>> \in Seq(S)
  BY ONLY <1>1
<1>5. LE16(1) \in Seq(S) /\ LE16(0) \in Seq(S)
  <2>1. ASSUME NEW n \in Nat
        PROVE  LE16(n) \in Seq(S)
    <3>1. n % 256 \in Nat /\ n \div 256 \in Nat
      BY ONLY n \in Nat, TwoBytes
    <3>2. Sized(S, LE16(n), 2)
      BY <3>1, NumbersSized DEF LE16
    <3> QED
      BY ONLY <3>2 DEF Sized
  <2> QED
    BY ONLY <2>1
<1>6. \A s, t \in Seq(S) : s \o t \in Seq(S)
  OBVIOUS
<1>7. RsnIeData \in Seq(S)
  BY ONLY <1>3, <1>4, <1>5, <1>6 DEF RsnIeData
<1> QED
  BY ONLY <1>2, <1>6, <1>7 DEF BuildRsnIe

(* A frame the driver signs is laid out as the access point expects, with  *)
(* a MIC over all of it.                                                   *)
SignsAs(number, counter, nonce, key_data, key) ==
    Sign(key, Unsigned(number, Counter(counter), nonce, key_data))
        = Layout(BE16(number), counter, nonce,
                 Mic(key, Layout(BE16(number), counter, nonce, Zeros(16), key_data)),
                 key_data)

EndsIn(frame, key_data) == SubSeq(frame, 100, Len(frame)) = key_data

(* A signed frame is the layout with the MIC of its key, and its key data  *)
(* is what stands behind the fixed fields.                                 *)
LEMMA SignedAsExpected ==
    ASSUME NEW number \in Nat, NEW counter, NEW key, NEW nonce, NEW key_data,
           \A S : {Byte(n) : n \in Nat} \subseteq S => key_data \in Seq(S),
           \/ nonce = Nonce("driver")
           \/ nonce = Zeros(32)
    PROVE  /\ SignsAs(number, counter, nonce, key_data, key)
           /\ EndsIn(Sign(key, Unsigned(number, Counter(counter), nonce, key_data)),
                     key_data)
<1>1. PICK info, zeros : info = BE16(number) /\ zeros = Zeros(16)
  OBVIOUS
<1>2. PICK u : u = Layout(info, counter, nonce, zeros, key_data)
  OBVIOUS
<1>3. PICK values : values = {counter, "driver", <<key, u>>}
  OBVIOUS
<1>4. PICK S : S = BytesOf(values)
  OBVIOUS
<1>5. {Byte(n) : n \in Nat} \subseteq S
  BY ONLY <1>4 DEF BytesOf
<1>6. key_data \in Seq(S)
  BY <1>5
<1>7. Sized(S, Counter(counter), 8) /\ Sized(S, Mic(key, u), 16) /\ Sized(S, nonce, 32)
  <2>1. counter \in values /\ "driver" \in values /\ <<key, u>> \in values
    BY ONLY <1>3
  <2>2. 8 \in Nat /\ 32 \in Nat /\ 16 \in Nat
    OBVIOUS
  <2>3. \A value \in values, n \in Nat,
             kind \in {"nonce", "counter", "mic", "gtk", "header"} :
           Sized(S, Part(kind, value, n), n)
    BY ONLY <1>4, PartSized
  <2>4. Sized(S, Counter(counter), 8)
    BY ONLY <2>1, <2>2, <2>3 DEF Counter
  <2>5. Sized(S, Nonce("driver"), 32)
    BY ONLY <2>1, <2>2, <2>3 DEF Nonce
  <2>6. Sized(S, Mic(key, u), 16)
    BY ONLY <2>1, <2>2, <2>3 DEF Mic
  <2>7. Sized(S, Zeros(32), 32)
    BY ONLY <1>5, <2>2, NumbersSized
  <2> QED
    BY <2>4, <2>5, <2>6, <2>7
<1>8. Sized(S, info, 2)
  BY ONLY number \in Nat, <1>1, <1>5, NumbersSized
<1>9. Unsigned(number, Counter(counter), nonce, key_data) = u
  BY ONLY number \in Nat, <1>1, <1>2, <1>5, <1>6, <1>7, UnsignedIsLaidOut
<1>10. Sign(key, u) = Layout(info, counter, nonce, Mic(key, u), key_data)
  BY ONLY <1>1, <1>2, <1>5, <1>6, <1>7, <1>8, SignedIsLaidOut
<1>11. PICK frame : frame = Sign(key, u)
  OBVIOUS
<1>12. PICK mic : mic = Mic(key, u)
  OBVIOUS
<1>13. PICK k \in Nat : k = Len(key_data)
  BY ONLY <1>6
<1>14. Sized(S, key_data, k)
  BY ONLY <1>6, <1>13 DEF Sized
<1>15. PICK l \in Nat : l = 99 + k
  BY ONLY k \in Nat
<1>16. LayoutPlaced(S, frame, info, counter, nonce, mic, key_data, k)
  <2>1. frame = Layout(info, counter, nonce, mic, key_data)
    BY ONLY <1>10, <1>11, <1>12
  <2>2. Sized(S, mic, 16)
    BY ONLY <1>7, <1>12
  <2> QED
    BY ONLY k \in Nat, <1>5, <1>7, <1>8, <1>14, <2>1, <2>2, LayoutShape
<1>17. Sized(S, frame, l) /\ Has(frame, 99, key_data)
  BY ONLY <1>15, <1>16 DEF LayoutPlaced
<1>18. frame \in Seq(S) /\ Len(frame) = l
  BY ONLY <1>17 DEF Sized
<1>19. \A m, n : m = 99 + 1 /\ n = 99 + k => IsSlice(key_data, frame, m, n)
  BY ONLY <1>14, <1>17, <1>18, SizedSlice
<1>20. IsSlice(key_data, frame, 100, l)
  BY ONLY <1>15, <1>19
<1>21. EndsIn(frame, key_data)
  BY ONLY <1>18, <1>20 DEF IsSlice, EndsIn
<1> QED
  BY ONLY <1>1, <1>2, <1>9, <1>10, <1>11, <1>21 DEF SignsAs

(* Messages 2 and 4 are laid out and signed as the access point reads.     *)
LEMMA DriverFrameRead ==
    ASSUME NEW m \in FromDriver
    PROVE  ApReads(m)
<1>1. m.n \in {2, 4}
  BY DEF FromDriver
<1>2. \A S : {Byte(n) : n \in Nat} \subseteq S => BuildRsnIe \in Seq(S)
  BY ONLY RsnIeTyped
<1>3. \A S : {Byte(n) : n \in Nat} \subseteq S => <<>> \in Seq(S)
  OBVIOUS
<1>4. CASE m.n = 2
  <2>1. 266 \in Nat /\ 2 + 8 + 256 = 266
    OBVIOUS
  <2>2. PICK nonce, frame, element : /\ nonce = Nonce("driver") /\ frame = DriverFrame(m)
                                     /\ element = BuildRsnIe
    OBVIOUS
  <2>3. frame = Sign(m.ptk, Unsigned(266, Counter(m.counter), nonce, element))
    BY ONLY <1>4, <2>1, <2>2
    DEF DriverFrame, BuildMsg2, KEY_INFO_TYPE_HMAC_SHA1, KEY_INFO_PAIRWISE, KEY_INFO_MIC
  <2>4. SignsAs(266, m.counter, nonce, element, m.ptk) /\ EndsIn(frame, element)
    BY ONLY <1>2, <2>1, <2>2, <2>3, SignedAsExpected
  <2>5. SubSeq(frame, 100, Len(frame)) = element
    BY ONLY <2>4 DEF EndsIn
  <2>6. Signed(frame, BE16(266), m, nonce, element)
    BY ONLY <2>3, <2>4 DEF SignsAs, Signed
  <2> QED
    BY ONLY <1>4, <2>2, <2>5, <2>6 DEF ApReads
<1>5. CASE m.n = 4
  <2>1. 778 \in Nat /\ 2 + 8 + 256 + 512 = 778
    OBVIOUS
  <2>2. PICK nonce, none, frame : nonce = Zeros(32) /\ none = <<>> /\ frame = DriverFrame(m)
    OBVIOUS
  <2>3. frame = Sign(m.ptk, Unsigned(778, Counter(m.counter), nonce, none))
    BY ONLY <1>5, <2>1, <2>2
    DEF DriverFrame, BuildMsg4, KEY_INFO_TYPE_HMAC_SHA1, KEY_INFO_PAIRWISE, KEY_INFO_MIC,
        KEY_INFO_SECURE
  <2>4. SignsAs(778, m.counter, nonce, none, m.ptk)
    <3>1. \A S : {Byte(n) : n \in Nat} \subseteq S => none \in Seq(S)
      BY ONLY <1>3, <2>2
    <3>2. nonce = Zeros(32)
      BY ONLY <2>2
    <3> QED
      BY ONLY <2>1, <2>3, <3>1, <3>2, SignedAsExpected
  <2>5. Signed(frame, BE16(778), m, nonce, none)
    BY ONLY <2>3, <2>4 DEF SignsAs, Signed
  <2> QED
    BY ONLY <1>5, <2>2, <2>5 DEF ApReads
<1> QED
  BY ONLY <1>1, <1>4, <1>5

-----------------------------------------------------------------------------
(* A frame carries a key when it is message 3, and then alone. *)
KeyedInv == \A m \in to_driver : m.n = 1 <=> m.ptk = None

(* Message 3 is sent only once there is a key. *)
LEMMA KeyedStep == IInv /\ KeyedInv /\ [Next]_vars => KeyedInv'
<1> SUFFICES ASSUME IInv, KeyedInv, [Next]_vars
             PROVE  KeyedInv'
  OBVIOUS
<1>1. CASE ApSendsMsg1
  <2>1. to_driver' = to_driver \union
                       {[n |-> 1, counter |-> ap_counter + 1, nonce |-> ap_anonce, ptk |-> None]}
    BY <1>1 DEF ApSendsMsg1, Send
  <2> QED
    BY <2>1 DEF KeyedInv
<1>2. CASE ApSendsMsg3
  <2>1. to_driver' = to_driver \union
                       {[n |-> 3, counter |-> ap_counter + 1, nonce |-> ap_anonce, ptk |-> ap_ptk]}
    BY <1>2 DEF ApSendsMsg3, Send
  <2>2. ap_ptk # None
    BY <1>2 DEF ApSendsMsg3, IInv, KeyInv
  <2> QED
    BY <2>1, <2>2 DEF KeyedInv
<1>3. CASE ApPolls
  BY <1>3 DEF ApPolls, ApTakesMsg2, ApRefusesMsg2, ApTakesMsg4, ApIgnores, ApReceives,
              KeyedInv
<1>4. CASE ApGivesUp
  BY <1>4 DEF ApGivesUp, KeyedInv
<1>5. ASSUME NEW psk \in Psks, NEW anonce \in Anonces, StartHandshake(psk, anonce)
      PROVE  KeyedInv'
  BY <1>5 DEF StartHandshake, KeyedInv
<1>6. CASE DriverPolls
  <2>1. to_driver' \subseteq to_driver
    BY <1>6 DEF DriverPolls, Msg1Received, Msg3Received, EapolIgnore, Receives
  <2> QED
    BY <2>1 DEF KeyedInv
<1>7. CASE EapolTimeout
  BY <1>7 DEF EapolTimeout, KeyedInv
<1>8. CASE Leave
  BY <1>8 DEF Leave, KeyedInv
<1>9. ASSUME NEW m \in to_driver, LoseOnTheWayDown(m)
      PROVE  KeyedInv'
  BY <1>9 DEF LoseOnTheWayDown, KeyedInv
<1>10. ASSUME NEW m \in to_ap, LoseOnTheWayUp(m)
       PROVE  KeyedInv'
  BY <1>10 DEF LoseOnTheWayUp, KeyedInv
<1>11. CASE UNCHANGED vars
  BY <1>11 DEF vars, KeyedInv
<1> QED
  BY <1>1, <1>2, <1>3, <1>4, <1>5, <1>6, <1>7, <1>8, <1>9, <1>10, <1>11 DEF Next

(* Every frame under way, of any handshake with any number of copies, is   *)
(* taken as Handshake says: a bare one is read by the driver at its        *)
(* parser's offsets and by its flags, one inside a data frame is not read  *)
(* at all, and the driver's are laid out as the standard has it with a MIC *)
(* over the whole frame, whatever element they carry (parse,               *)
(* message_number, build_eapol_msg2, build_eapol_msg4, wpa.rs;             *)
(* wait_for_eapol, driver.rs).                                             *)
THEOREM FramesAreReadBack == Spec => []FramesReadBack
<1>1. Init => KeyedInv
  BY DEF Init, KeyedInv
<1>2. ASSUME IInv, KeyedInv
      PROVE  FramesReadBack
  <2>1. to_driver \subseteq FromAp /\ to_ap \subseteq FromDriver
    BY <1>2 DEF IInv, TypeOK
  <2>2. ASSUME NEW m \in to_driver
        PROVE  m \in ReadByDriver /\ m \in DiscardedByDriver
    <3>1. m \in FromAp /\ (m.n = 1 <=> m.ptk = None)
      BY <1>2, <2>1 DEF KeyedInv
    <3>2. DriverReads(m) /\ DriverDiscards(m)
      BY ONLY <3>1, ApFrameRead
    <3> QED
      BY ONLY <3>1, <3>2 DEF ReadByDriver, DiscardedByDriver, GoodFrames
  <2>3. ASSUME NEW m \in to_ap
        PROVE  m \in ReadByAp
    <3>1. m \in FromDriver
      BY <2>1
    <3>2. ApReads(m)
      BY ONLY <3>1, DriverFrameRead
    <3> QED
      BY ONLY <3>1, <3>2 DEF ReadByAp
  <2>4. /\ to_driver \subseteq ReadByDriver /\ to_driver \subseteq DiscardedByDriver
        /\ to_ap \subseteq ReadByAp
    BY <2>2, <2>3
  <2> QED
    BY ONLY <2>4 DEF FramesReadBack
<1>3. IInv /\ KeyedInv => FramesReadBack
  BY <1>2
<1> QED
  BY Invariance, <1>1, <1>3, KeyedStep, PTL DEF Spec
=============================================================================
