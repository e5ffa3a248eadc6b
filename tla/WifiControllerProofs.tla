------------------------ MODULE WifiControllerProofs ------------------------
(***************************************************************************)
(* Proofs about the controller of src/src/driver.rs for any access points, *)
(* names, nonces, ring sizes and loop bounds, and that it implements       *)
(* SecureLink.                                                             *)
(***************************************************************************)
EXTENDS WifiController, FiniteSetTheorems, SequenceTheorems, TLAPS

(* Where the driver waits decides what it has already set up: the state it *)
(* shows, the access point it talks to, the keys derived, and the station  *)
(* the firmware has.                                                       *)
PhaseInv ==
    /\ pc = "scan" => state = "Scanning"
    /\ pc = "auth" => state = "Authenticating"
    /\ pc = "assoc" => state = "Associating"
    /\ pc \in {"msg1", "msg3"} => state = "Handshaking"
    /\ pc \in {"auth", "assoc", "msg1", "msg3"} => target \in Bssids
    /\ pc = "msg3" =>
          hs_ptk \in Ptks /\ hs_ptk.bssid = target /\ hs_ptk.mac = mac_addr
    /\ pc \in {"alive", "nvm"} => stations = {} /\ fw_key = None
    /\ pc \in {"assoc", "msg1", "msg3"} => stations = {target}

StationInv ==
    /\ stations = {} \/ \E b \in Bssids : stations = {b}
    /\ stations # {} => state \in {"Associating", "Handshaking", "Connected"}
    /\ state = "Connected" /\ stations # {} =>
          stations = {connected_bssid} /\ fw_key = ptk
    /\ fw_key # None => state = "Connected"

LinkInv == TypeOK /\ PhaseInv /\ StationInv /\ ConnectedHasKey

(* The controller as init builds it satisfies LinkInv. *)
LEMMA LinkInvInit == Init => LinkInv
<1> SUFFICES ASSUME Init PROVE LinkInv
  OBVIOUS
<1>1. TypeOK
  <2>1. SEQ_MOD - 1 \in Nat /\ MaxPolls \in Nat
    BY QueueAssumption, SeqAssumption, BoundAssumption
  <2>2. /\ cmd_queue \in Seq(0 .. SEQ_MOD - 1)
        /\ data_queue \in Seq(FrameTypes)
        /\ results \in Seq(Networks)
    BY EmptySeq DEF Init
  <2>3. /\ cmd_seq \in 0 .. SEQ_MOD - 1
        /\ polls \in 0 .. MaxPolls
        /\ ccmp_pn \in Nat
    BY <2>1 DEF Init
  <2> QED
    BY <2>2, <2>3 DEF Init, TypeOK, WifiState, Macs
<1>2. PhaseInv
  BY DEF Init, PhaseInv
<1>3. StationInv
  BY DEF Init, StationInv
<1>4. ConnectedHasKey
  BY DEF Init, ConnectedHasKey
<1> QED
  BY <1>1, <1>2, <1>3, <1>4 DEF LinkInv

-----------------------------------------------------------------------------
(* A sequence number that wraps stays in its range. *)
LEMMA Remainder ==
    ASSUME NEW n \in Nat, n > 0, NEW i \in 0 .. n - 1
    PROVE  (i + 1) % n \in 0 .. n - 1
<1>1. CASE i = n - 1
  <2>1. (i + 1) % n = 0
    BY <1>1
  <2> QED
    BY <2>1
<1>2. CASE i # n - 1
  <2>1. (i + 1) % n = i + 1
    BY <1>2
  <2> QED
    BY <1>2, <2>1
<1> QED
  BY <1>1, <1>2

(* What the calls and polls share keeps the types it touches. *)
LEMMA SendType ==
    ASSUME TypeOK, SendCommand
    PROVE  /\ cmd_seq' \in 0 .. SEQ_MOD - 1
           /\ cmd_queue' \in Seq(0 .. SEQ_MOD - 1)
<1>1. cmd_seq \in 0 .. SEQ_MOD - 1 /\ SEQ_MOD \in Nat /\ SEQ_MOD > 0
  BY QueueAssumption, SeqAssumption DEF TypeOK
<1>2. (cmd_seq + 1) % SEQ_MOD \in 0 .. SEQ_MOD - 1
  BY <1>1, Remainder
<1>3. Append(cmd_queue, cmd_seq) \in Seq(0 .. SEQ_MOD - 1)
  BY <1>1, AppendProperties DEF TypeOK
<1> QED
  BY <1>2, <1>3 DEF SendCommand, NextSeq, TypeOK

(* The frames of connect and disconnect are frames of the ring's type. *)
LEMMA MgmtType ==
    ASSUME NEW b \in Bssids,
           NEW k \in {"Auth", "AssocRequest", "Msg2", "Msg4", "Disassoc"}
    PROVE  Mgmt(k, b) \in FrameTypes
BY DEF Mgmt, FrameTypes

(* Transmitting, whether or not the ring has room, keeps the ring's type. *)
LEMMA TransmitType ==
    ASSUME TypeOK, NEW f \in FrameTypes, TransmitFrame(f)
    PROVE  data_queue' \in Seq(FrameTypes)
BY DEF TransmitFrame, TypeOK

(* The networks a scan collected name known access points. *)
LEMMA ResultType ==
    ASSUME TypeOK, NEW i \in DOMAIN results
    PROVE  results[i].bssid \in Bssids
<1>1. results[i] \in Networks
  BY LenProperties, ElementOfSeq DEF TypeOK
<1> QED
  BY <1>1 DEF Networks

(* A poll uses up one iteration of its loop. *)
LEMMA PollType ==
    ASSUME TypeOK, NEW loop, PollAgain(loop)
    PROVE  polls' \in 0 .. MaxPolls
BY BoundAssumption DEF PollAgain, Waiting, TypeOK
-----------------------------------------------------------------------------
(* Every step keeps the types; PhaseInv says that connect has a target     *)
(* whenever it builds a frame for it, ConnectedHasKey that a link has one.  *)
LEMMA TypeStep ==
    ASSUME TypeOK, PhaseInv, ConnectedHasKey, [Next]_vars
    PROVE  TypeOK'
<1> USE DEF linkVars, cmdVars, callVars, historyVars
<1>0. MaxPolls \in 0 .. MaxPolls /\ 0 \in 0 .. MaxPolls
  BY BoundAssumption
<1>1. ASSUME NEW uploaded \in BOOLEAN, LoadFirmware(uploaded)
      PROVE  TypeOK'
  BY <1>0, <1>1 DEF TypeOK, LoadFirmware, EnterLoop
<1>2. ASSUME NEW ssid \in Ssids \union {None}, StartScan(ssid)
      PROVE  TypeOK'
  <2>1. SendCommand
    BY <1>2 DEF StartScan
  <2> QED
    BY <1>0, <1>2, <2>1, SendType DEF TypeOK, StartScan, EnterLoop, WifiState
<1>3. CASE Disconnect
  <2>1. /\ cmd_seq' \in 0 .. SEQ_MOD - 1
        /\ cmd_queue' \in Seq(0 .. SEQ_MOD - 1)
    BY <1>3, SendType DEF Disconnect, TypeOK
  <2>2. data_queue' \in Seq(FrameTypes)
    <3>1. connected_bssid \in Bssids
      BY <1>3 DEF Disconnect, ConnectedHasKey, TypeOK, Ptks
    <3> QED
      BY <1>3, <3>1, MgmtType, TransmitType DEF Disconnect
  <2> QED
    BY <1>3, <2>1, <2>2 DEF TypeOK, Disconnect, WifiState
<1>4. CASE Transmit
  <2> DEFINE frame == [kind |-> "Data", bssid |-> connected_bssid, key |-> ptk,
                       nonce_pn |-> ccmp_pn, hdr_pn |-> NextPn]
  <2>1. NextPn \in Nat
    BY DEF NextPn, TypeOK
  <2>2. connected_bssid \in Bssids /\ ptk \in Ptks
    BY <1>4 DEF Transmit, MayTransmit, ConnectedHasKey, TypeOK, Ptks
  <2>3. frame \in FrameTypes
    BY <2>1, <2>2 DEF FrameTypes, TypeOK
  <2>4. data_queue' \in Seq(FrameTypes)
    BY <1>4, <2>3, TransmitType DEF Transmit
  <2> HIDE DEF frame
  <2> QED
    BY <1>4, <2>1, <2>4 DEF TypeOK, Transmit
<1>5. ASSUME NEW loop \in {"alive", "nvm"}, Ignore(loop)
      PROVE  TypeOK'
  <2>1. polls' \in 0 .. MaxPolls
    BY <1>5, PollType DEF Ignore
  <2> QED
    BY <1>5, <2>1 DEF TypeOK, Ignore, PollAgain
<1>6. CASE AliveReceived
  <2>1. SendCommand
    BY <1>6 DEF AliveReceived
  <2> QED
    BY <1>0, <1>6, <2>1, SendType DEF TypeOK, AliveReceived, EnterLoop
<1>7. CASE AliveTimeout
  BY <1>7 DEF TypeOK, AliveTimeout
<1>8. ASSUME NEW f \in Frames, NvmReceived(f) PROVE TypeOK'
  <2>1. MacIn(f) \in Macs
    BY <1>8 DEF MacIn, Macs, Frames
  <2> QED
    BY <1>0, <1>8, <2>1 DEF TypeOK, NvmReceived, FirmwareReady, WifiState
<1>9. CASE NvmTimeout
  BY <1>0, <1>9 DEF TypeOK, NvmTimeout, FirmwareReady, WifiState, Macs
<1>10. CASE ScanPoll
  <2>1. polls' \in 0 .. MaxPolls
    BY <1>10, PollType DEF ScanPoll
  <2>2. results' \in Seq(Networks)
    <3>1. ASSUME NEW f \in Frames, f.kind = "Beacon", AddResult(f.network)
          PROVE  results' \in Seq(Networks)
      <4>1. f.network \in Networks
        BY <3>1 DEF Frames
      <4>2. Append(results, f.network) \in Seq(Networks)
        BY <4>1, AppendProperties DEF TypeOK
      <4> QED
        BY <3>1, <4>2 DEF AddResult, TypeOK
    <3> QED
      BY <1>10, <3>1 DEF ScanPoll, TypeOK
  <2> QED
    BY <1>10, <2>1, <2>2 DEF TypeOK, ScanPoll, PollAgain
<1>11. CASE ScanEnds
  <2>1. results' \in Seq(Networks)
    BY <1>11, EmptySeq DEF ScanEnds, Return
  <2> QED
    BY <1>0, <1>11, <2>1 DEF TypeOK, ScanEnds, Return, WifiState
<1>12. ASSUME NEW i \in DOMAIN results, StartAuthentication(i)
       PROVE  TypeOK'
  <2>1. SendCommand
    BY <1>12 DEF StartAuthentication
  <2>2. results[i].bssid \in Bssids
    BY ResultType
  <2>3. data_queue' \in Seq(FrameTypes)
    BY <1>12, <2>2, MgmtType, TransmitType DEF StartAuthentication, TypeOK
  <2>4. results' \in Seq(Networks)
    BY <1>12, EmptySeq DEF StartAuthentication, Return
  <2> QED
    BY <1>0, <1>12, <2>1, <2>2, <2>3, <2>4, SendType
    DEF TypeOK, StartAuthentication, Return, EnterLoop, WifiState
<1>13. ASSUME NEW loop \in {"auth", "assoc"}, Ignore(loop)
       PROVE  TypeOK'
  <2>1. polls' \in 0 .. MaxPolls
    BY <1>13, PollType DEF Ignore
  <2> QED
    BY <1>13, <2>1 DEF TypeOK, Ignore, PollAgain
<1>14. ASSUME NEW loop \in {"msg1", "msg3"}, EapolIgnore(loop)
       PROVE  TypeOK'
  <2>1. polls' \in 0 .. MaxPolls
    BY <1>14, PollType DEF EapolIgnore
  <2>2. eapol_missed' \in BOOLEAN
    BY <1>14 DEF EapolIgnore, TypeOK
  <2> QED
    BY <1>14, <2>1, <2>2 DEF TypeOK, EapolIgnore, PollAgain
<1>15. ASSUME NEW loop \in {"auth", "assoc", "msg1", "msg3"}, WaitTimeout(loop)
       PROVE  TypeOK'
  <2>1. results' \in Seq(Networks)
    BY <1>15, EmptySeq DEF WaitTimeout, Return
  <2> QED
    BY <1>0, <1>15, <2>1 DEF TypeOK, WaitTimeout, Return
<1>16. CASE AuthReceived
  <2>1. /\ cmd_seq' \in 0 .. SEQ_MOD - 1
        /\ cmd_queue' \in Seq(0 .. SEQ_MOD - 1)
    BY <1>16, SendType DEF AuthReceived, TypeOK
  <2>2. target \in Bssids
    BY <1>16 DEF AuthReceived, Waiting, PhaseInv
  <2>3. data_queue' \in Seq(FrameTypes)
    BY <1>16, <2>2, MgmtType, TransmitType DEF AuthReceived
  <2>4. results' \in Seq(Networks)
    BY <1>16, EmptySeq DEF AuthReceived, Return, TypeOK
  <2> QED
    BY <1>0, <1>16, <2>1, <2>2, <2>3, <2>4
    DEF TypeOK, AuthReceived, Return, EnterLoop, WifiState
<1>17. CASE AssocReceived
  BY <1>0, <1>17 DEF TypeOK, AssocReceived, EnterLoop, WifiState
<1>18. ASSUME NEW f \in Frames, Msg1Received(f) PROVE TypeOK'
  <2>1. target \in Bssids
    BY <1>18 DEF Msg1Received, Waiting, PhaseInv
  <2>2. data_queue' \in Seq(FrameTypes)
    BY <1>18, <2>1, MgmtType, TransmitType DEF Msg1Received
  <2>3. f.anonce \in Anonces
    BY <1>18 DEF Msg1Received, IsMessage, Frames
  <2>4. results' \in Seq(Networks)
    BY <1>18, EmptySeq DEF Msg1Received, Return, TypeOK
  <2>5. [bssid |-> target, mac |-> mac_addr, anonce |-> f.anonce] \in Ptks
    BY <2>1, <2>3 DEF Ptks, TypeOK
  <2> QED
    BY <1>0, <1>18, <2>1, <2>2, <2>3, <2>4, <2>5
    DEF TypeOK, Msg1Received, Return, EnterLoop
<1>19. CASE Msg3Received
  <2>1. target \in Bssids /\ hs_ptk \in Ptks
    BY <1>19 DEF Msg3Received, Waiting, PhaseInv
  <2>2. data_queue' \in Seq(FrameTypes)
    BY <1>19, <2>1, MgmtType, TransmitType DEF Msg3Received
  <2>3. /\ cmd_seq' \in 0 .. SEQ_MOD - 1
        /\ cmd_queue' \in Seq(0 .. SEQ_MOD - 1)
    BY <1>19, SendType DEF Msg3Received, TypeOK
  <2>4. results' \in Seq(Networks)
    BY <1>19, EmptySeq DEF Msg3Received, Return
  <2> QED
    BY <1>0, <1>19, <2>1, <2>2, <2>3, <2>4
    DEF TypeOK, Msg3Received, Return, NewPtk, WifiState
<1>20. CASE UNCHANGED vars
  BY <1>20 DEF TypeOK, vars
<1> QED
  BY <1>1, <1>2, <1>3, <1>4, <1>5, <1>6, <1>7, <1>8, <1>9, <1>10, <1>11, <1>12,
     <1>13, <1>14, <1>15, <1>16, <1>17, <1>18, <1>19, <1>20
  DEF Next, UserCall, DriverStep, LoadStep, ConnectStep
-----------------------------------------------------------------------------
(* Every step keeps what PhaseInv says of the loop it ends in. *)
LEMMA PhaseStep ==
    ASSUME TypeOK, PhaseInv, StationInv, [Next]_vars
    PROVE  PhaseInv'
<1> USE DEF linkVars, cmdVars, callVars, historyVars
<1>1. ASSUME NEW uploaded \in BOOLEAN, LoadFirmware(uploaded)
      PROVE  PhaseInv'
  BY <1>1 DEF PhaseInv, LoadFirmware, EnterLoop
<1>2. ASSUME NEW ssid \in Ssids \union {None}, StartScan(ssid)
      PROVE  PhaseInv'
  BY <1>2 DEF PhaseInv, StartScan, CanStart, EnterLoop
<1>3. CASE Disconnect
  BY <1>3 DEF PhaseInv, Disconnect
<1>4. CASE Transmit
  BY <1>4 DEF PhaseInv, Transmit
<1>5. ASSUME NEW loop \in {"alive", "nvm"}, Ignore(loop)
      PROVE  PhaseInv'
  BY <1>5 DEF PhaseInv, Ignore, PollAgain
<1>6. CASE AliveReceived
  BY <1>6 DEF PhaseInv, AliveReceived, Waiting, EnterLoop
<1>7. CASE AliveTimeout
  BY <1>7 DEF PhaseInv, AliveTimeout
<1>8. ASSUME NEW f \in Frames, NvmReceived(f) PROVE PhaseInv'
  BY <1>8 DEF PhaseInv, NvmReceived, FirmwareReady
<1>9. CASE NvmTimeout
  BY <1>9 DEF PhaseInv, NvmTimeout, FirmwareReady
<1>10. CASE ScanPoll
  BY <1>10 DEF PhaseInv, ScanPoll, PollAgain
<1>11. CASE ScanEnds
  BY <1>11 DEF PhaseInv, ScanEnds, Return
<1>12. ASSUME NEW i \in DOMAIN results, StartAuthentication(i)
       PROVE  PhaseInv'
  <2>1. results[i].bssid \in Bssids
    BY ResultType
  <2> QED
    BY <1>12, <2>1 DEF PhaseInv, StartAuthentication, Return, EnterLoop
<1>13. ASSUME NEW loop \in {"auth", "assoc"}, Ignore(loop)
       PROVE  PhaseInv'
  BY <1>13 DEF PhaseInv, Ignore, PollAgain
<1>14. ASSUME NEW loop \in {"msg1", "msg3"}, EapolIgnore(loop)
       PROVE  PhaseInv'
  BY <1>14 DEF PhaseInv, EapolIgnore, PollAgain
<1>15. ASSUME NEW loop \in {"auth", "assoc", "msg1", "msg3"}, WaitTimeout(loop)
       PROVE  PhaseInv'
  BY <1>15 DEF PhaseInv, WaitTimeout, Return
<1>16. CASE AuthReceived
  <2>1. stations = {}
    BY <1>16 DEF AuthReceived, Waiting, PhaseInv, StationInv
  <2> QED
    BY <1>16, <2>1 DEF PhaseInv, AuthReceived, Waiting, Return, EnterLoop
<1>17. CASE AssocReceived
  BY <1>17 DEF PhaseInv, AssocReceived, Waiting, EnterLoop
<1>18. ASSUME NEW f \in Frames, Msg1Received(f) PROVE PhaseInv'
  <2>1. f.anonce \in Anonces /\ target \in Bssids
    BY <1>18 DEF Msg1Received, IsMessage, Frames, Waiting, PhaseInv
  <2>2. [bssid |-> target, mac |-> mac_addr, anonce |-> f.anonce] \in Ptks
    BY <2>1 DEF Ptks, TypeOK
  <2> QED
    BY <1>18, <2>1, <2>2 DEF PhaseInv, Msg1Received, Waiting, Return, EnterLoop
<1>19. CASE Msg3Received
  BY <1>19 DEF PhaseInv, Msg3Received, Return
<1>20. CASE UNCHANGED vars
  BY <1>20 DEF PhaseInv, vars
<1> QED
  BY <1>1, <1>2, <1>3, <1>4, <1>5, <1>6, <1>7, <1>8, <1>9, <1>10, <1>11, <1>12,
     <1>13, <1>14, <1>15, <1>16, <1>17, <1>18, <1>19, <1>20
  DEF Next, UserCall, DriverStep, LoadStep, ConnectStep
-----------------------------------------------------------------------------
(* Every step keeps the firmware's station and key in line with the state  *)
(* the driver shows.                                                       *)
LEMMA StationStep ==
    ASSUME TypeOK, PhaseInv, StationInv, [Next]_vars
    PROVE  StationInv'
<1> USE DEF linkVars, cmdVars, callVars, historyVars
<1>1. ASSUME NEW uploaded \in BOOLEAN, LoadFirmware(uploaded)
      PROVE  StationInv'
  BY <1>1 DEF PhaseInv, StationInv, LoadFirmware
<1>2. ASSUME NEW ssid \in Ssids \union {None}, StartScan(ssid)
      PROVE  StationInv'
  BY <1>2 DEF PhaseInv, StationInv, StartScan, CanStart
<1>3. CASE Disconnect
  BY <1>3 DEF PhaseInv, StationInv, Disconnect, BothSent
<1>4. CASE Transmit
  BY <1>4 DEF PhaseInv, StationInv, Transmit, MayTransmit
<1>5. ASSUME NEW loop \in {"alive", "nvm"}, Ignore(loop)
      PROVE  StationInv'
  BY <1>5 DEF PhaseInv, StationInv, Ignore, PollAgain
<1>6. CASE AliveReceived
  BY <1>6 DEF PhaseInv, StationInv, AliveReceived
<1>7. CASE AliveTimeout
  BY <1>7 DEF PhaseInv, StationInv, AliveTimeout
<1>8. ASSUME NEW f \in Frames, NvmReceived(f)
      PROVE  StationInv'
  BY <1>8 DEF PhaseInv, StationInv, NvmReceived, FirmwareReady, Waiting
<1>9. CASE NvmTimeout
  BY <1>9 DEF PhaseInv, StationInv, NvmTimeout, FirmwareReady, TimedOut
<1>10. CASE ScanPoll
  BY <1>10 DEF PhaseInv, StationInv, ScanPoll, PollAgain
<1>11. CASE ScanEnds
  BY <1>11 DEF PhaseInv, StationInv, ScanEnds, ScanOver, Waiting, TimedOut
<1>12. ASSUME NEW i \in DOMAIN results, StartAuthentication(i)
      PROVE  StationInv'
  BY <1>12 DEF PhaseInv, StationInv, StartAuthentication, ScanOver, Waiting,
      TimedOut
<1>13. ASSUME NEW loop \in {"auth", "assoc"}, Ignore(loop)
      PROVE  StationInv'
  BY <1>13 DEF PhaseInv, StationInv, Ignore, PollAgain
<1>14. ASSUME NEW loop \in {"msg1", "msg3"}, EapolIgnore(loop)
      PROVE  StationInv'
  BY <1>14 DEF PhaseInv, StationInv, EapolIgnore, PollAgain
<1>15. ASSUME NEW loop \in {"auth", "assoc", "msg1", "msg3"}, WaitTimeout(loop)
      PROVE  StationInv'
  BY <1>15 DEF PhaseInv, StationInv, WaitTimeout
<1>16. CASE AuthReceived
  BY <1>16 DEF PhaseInv, StationInv, AuthReceived, Waiting
<1>17. CASE AssocReceived
  BY <1>17 DEF PhaseInv, StationInv, AssocReceived, Waiting
<1>18. ASSUME NEW f \in Frames, Msg1Received(f)
      PROVE  StationInv'
  BY <1>18 DEF PhaseInv, StationInv, Msg1Received
<1>19. CASE Msg3Received
  BY <1>19 DEF PhaseInv, StationInv, Msg3Received, NewPtk, Waiting
<1>20. CASE UNCHANGED vars
  BY <1>20 DEF PhaseInv, StationInv, vars
<1> QED
  BY <1>1, <1>2, <1>3, <1>4, <1>5, <1>6, <1>7, <1>8, <1>9, <1>10, <1>11, <1>12,
     <1>13, <1>14, <1>15, <1>16, <1>17, <1>18, <1>19, <1>20
  DEF Next, UserCall, DriverStep, LoadStep, ConnectStep

(* Every step that ends connected has the key of that access point. *)
LEMMA KeyStep ==
    ASSUME TypeOK, PhaseInv, ConnectedHasKey, [Next]_vars
    PROVE  ConnectedHasKey'
<1> USE DEF linkVars, cmdVars, callVars, historyVars
<1>1. ASSUME NEW uploaded \in BOOLEAN, LoadFirmware(uploaded)
      PROVE  ConnectedHasKey'
  BY <1>1 DEF ConnectedHasKey, LoadFirmware
<1>2. ASSUME NEW ssid \in Ssids \union {None}, StartScan(ssid)
      PROVE  ConnectedHasKey'
  BY <1>2 DEF ConnectedHasKey, StartScan, CanStart
<1>3. CASE Disconnect
  BY <1>3 DEF ConnectedHasKey, Disconnect, BothSent
<1>4. CASE Transmit
  BY <1>4 DEF ConnectedHasKey, Transmit, MayTransmit
<1>5. ASSUME NEW loop \in {"alive", "nvm"}, Ignore(loop)
      PROVE  ConnectedHasKey'
  BY <1>5 DEF ConnectedHasKey, Ignore, PollAgain
<1>6. CASE AliveReceived
  BY <1>6 DEF ConnectedHasKey, AliveReceived
<1>7. CASE AliveTimeout
  BY <1>7 DEF ConnectedHasKey, AliveTimeout
<1>8. ASSUME NEW f \in Frames, NvmReceived(f)
      PROVE  ConnectedHasKey'
  BY <1>8 DEF ConnectedHasKey, NvmReceived, FirmwareReady, Waiting
<1>9. CASE NvmTimeout
  BY <1>9 DEF ConnectedHasKey, NvmTimeout, FirmwareReady, TimedOut
<1>10. CASE ScanPoll
  BY <1>10 DEF ConnectedHasKey, ScanPoll, PollAgain
<1>11. CASE ScanEnds
  BY <1>11 DEF ConnectedHasKey, ScanEnds, ScanOver, Waiting, TimedOut
<1>12. ASSUME NEW i \in DOMAIN results, StartAuthentication(i)
      PROVE  ConnectedHasKey'
  BY <1>12 DEF ConnectedHasKey, StartAuthentication, ScanOver, Waiting,
      TimedOut
<1>13. ASSUME NEW loop \in {"auth", "assoc"}, Ignore(loop)
      PROVE  ConnectedHasKey'
  BY <1>13 DEF ConnectedHasKey, Ignore, PollAgain
<1>14. ASSUME NEW loop \in {"msg1", "msg3"}, EapolIgnore(loop)
      PROVE  ConnectedHasKey'
  BY <1>14 DEF ConnectedHasKey, EapolIgnore, PollAgain
<1>15. ASSUME NEW loop \in {"auth", "assoc", "msg1", "msg3"}, WaitTimeout(loop)
      PROVE  ConnectedHasKey'
  BY <1>15 DEF ConnectedHasKey, WaitTimeout
<1>16. CASE AuthReceived
  BY <1>16 DEF ConnectedHasKey, AuthReceived, Waiting
<1>17. CASE AssocReceived
  BY <1>17 DEF ConnectedHasKey, AssocReceived, Waiting
<1>18. ASSUME NEW f \in Frames, Msg1Received(f)
      PROVE  ConnectedHasKey'
  BY <1>18 DEF ConnectedHasKey, Msg1Received
<1>19. CASE Msg3Received
  <2>1. /\ hs_ptk \in Ptks /\ hs_ptk.bssid = target
        /\ hs_ptk.mac = mac_addr
    BY <1>19 DEF Msg3Received, Waiting, PhaseInv
  <2>2. hs_ptk # None
    BY <2>1, NoneAssumption
  <2> QED
    BY <1>19, <2>1, <2>2 DEF ConnectedHasKey, Msg3Received, NewPtk, Waiting, PhaseInv
<1>20. CASE UNCHANGED vars
  BY <1>20 DEF ConnectedHasKey, vars
<1> QED
  BY <1>1, <1>2, <1>3, <1>4, <1>5, <1>6, <1>7, <1>8, <1>9, <1>10, <1>11, <1>12,
     <1>13, <1>14, <1>15, <1>16, <1>17, <1>18, <1>19, <1>20
  DEF Next, UserCall, DriverStep, LoadStep, ConnectStep

(* LinkInv holds at first and every step keeps it. *)
LEMMA LinkInvInductive ==
    /\ Init => LinkInv
    /\ LinkInv /\ [Next]_vars => LinkInv'
BY LinkInvInit, TypeStep, PhaseStep, StationStep, KeyStep DEF LinkInv

(* The controller's fields keep their types over every call, frame and     *)
(* timeout (driver.rs).                                                    *)
THEOREM ControllerTypeCorrect == Spec => []TypeOK
<1>1. LinkInv => TypeOK
  BY DEF LinkInv
<1> QED
  BY <1>1, LinkInvInductive, PTL DEF Spec

(* A driver that shows Connected holds the key of the access point it      *)
(* shows and of its own address (connect, disconnect, driver.rs).          *)
THEOREM ConnectedIsKeyed == Spec => []ConnectedHasKey
<1>1. LinkInv => ConnectedHasKey
  BY DEF LinkInv
<1> QED
  BY <1>1, LinkInvInductive, PTL DEF Spec

(* The firmware never has two stations, and a connected driver's station   *)
(* is the connected access point's, keyed with the driver's own key        *)
(* (connect, disconnect, load_firmware, driver.rs).                        *)
THEOREM StationFollowsLink == Spec => []StationMatchesLink
<1>1. LinkInv => StationMatchesLink
  <2> SUFFICES ASSUME LinkInv PROVE Cardinality(stations) <= 1
    BY DEF LinkInv, StationInv, StationMatchesLink
  <2>1. CASE stations = {}
    BY <2>1, FS_EmptySet
  <2>2. ASSUME NEW b \in Bssids, stations = {b} PROVE Cardinality(stations) <= 1
    BY <2>2, FS_Singleton
  <2> QED
    BY <2>1, <2>2 DEF LinkInv, StationInv
<1> QED
  BY <1>1, LinkInvInductive, PTL DEF Spec
-----------------------------------------------------------------------------
(* The last frame on the data ring tells how far the exchange has come. *)
LastFrame == data_queue[Len(data_queue)]

ProgressInv ==
    /\ pc = "auth" => LastFrame.kind = "Auth"
    /\ pc \in {"assoc", "msg1"} => LastFrame.kind = "AssocRequest"
    /\ pc = "msg3" => LastFrame.kind = "Msg2"
    /\ pc \in {"auth", "assoc", "msg1", "msg3"} =>
          data_queue # <<>> /\ LastFrame.bssid = target
    /\ state = "Connected" =>
          /\ data_queue # <<>>
          /\ LastFrame.kind \in {"Msg4", "Data", "Disassoc"}
          /\ LastFrame.bssid = connected_bssid

OrderInv == LinkInv /\ ProgressInv /\ FramesInProtocolOrder

(* A frame that may follow the last one keeps the ring in order, and is    *)
(* the last one if the ring took it.                                       *)
LEMMA AppendInOrder ==
    ASSUME TypeOK, FramesInProtocolOrder,
           NEW f \in FrameTypes, TransmitFrame(f),
           \/ f.kind = "Auth"
           \/ /\ data_queue # <<>>
              /\ LastFrame.kind \in MayPrecede(f.kind)
              /\ LastFrame.bssid = f.bssid
    PROVE  /\ FramesInProtocolOrder'
           /\ DataSlotFree => data_queue' # <<>> /\ LastFrame' = f
           /\ ~ DataSlotFree => data_queue' = data_queue
<1>1. CASE DataSlotFree
  <2> DEFINE q == Append(data_queue, f)
  <2>1. /\ data_queue \in Seq(FrameTypes)
        /\ data_queue' = q
    BY <1>1 DEF TypeOK, TransmitFrame
  <2>2. /\ q # <<>>
        /\ Len(data_queue) \in Nat
        /\ Len(q) = Len(data_queue) + 1
        /\ q[Len(data_queue) + 1] = f
        /\ \A i \in 1 .. Len(data_queue) : q[i] = data_queue[i]
        /\ DOMAIN q = 1 .. Len(data_queue) + 1
        /\ DOMAIN data_queue = 1 .. Len(data_queue)
    BY <2>1, AppendProperties, LenProperties
  <2> HIDE DEF q
  <2>3. LastFrame' = f
    BY <2>1, <2>2 DEF LastFrame
  <2>4. ASSUME NEW i \in DOMAIN q, q[i].kind # "Auth"
        PROVE  /\ i > 1
               /\ q[i - 1].kind \in MayPrecede(q[i].kind)
               /\ q[i - 1].bssid = q[i].bssid
    <3>1. CASE i = Len(data_queue) + 1
      <4>1. q[i] = f
        BY <2>2, <3>1
      <4>2. data_queue # <<>> /\ LastFrame.kind \in MayPrecede(f.kind)
            /\ LastFrame.bssid = f.bssid
        BY <2>4, <4>1
      <4>3. Len(data_queue) > 0
        BY <2>1, <4>2, EmptySeq
      <4>4. q[i - 1] = LastFrame /\ i > 1
        BY <2>2, <3>1, <4>3 DEF LastFrame
      <4> QED
        BY <4>1, <4>2, <4>4
    <3>2. CASE i \in 1 .. Len(data_queue)
      <4>1. q[i] = data_queue[i]
        BY <2>2, <3>2
      <4>2. /\ i > 1
            /\ data_queue[i - 1].kind \in MayPrecede(data_queue[i].kind)
            /\ data_queue[i - 1].bssid = data_queue[i].bssid
        BY <2>2, <2>4, <3>2, <4>1 DEF FramesInProtocolOrder
      <4>3. q[i - 1] = data_queue[i - 1]
        BY <2>2, <3>2, <4>2
      <4> QED
        BY <4>1, <4>2, <4>3
    <3>3. i = Len(data_queue) + 1 \/ i \in 1 .. Len(data_queue)
      BY <2>2
    <3> QED
      BY <3>1, <3>2, <3>3
  <2>5. FramesInProtocolOrder'
    BY <2>1, <2>4 DEF FramesInProtocolOrder
  <2> QED
    BY <1>1, <2>1, <2>2, <2>3, <2>5
<1>2. CASE ~ DataSlotFree
  BY <1>2 DEF TransmitFrame, FramesInProtocolOrder
<1> QED
  BY <1>1, <1>2

(* A step that leaves the ring alone leaves it in order. *)
LEMMA SameRing ==
    ASSUME FramesInProtocolOrder, UNCHANGED data_queue
    PROVE  FramesInProtocolOrder' /\ LastFrame' = LastFrame
BY DEF FramesInProtocolOrder, LastFrame

(* Every step puts only a frame that may follow on the ring, and remembers *)
(* in its place of waiting what it put there.                              *)
LEMMA OrderStep ==
    ASSUME OrderInv, [Next]_vars
    PROVE  ProgressInv' /\ FramesInProtocolOrder'
<1> USE DEF linkVars, cmdVars, callVars, historyVars
<1>1. ASSUME NEW uploaded \in BOOLEAN, LoadFirmware(uploaded)
      PROVE  ProgressInv' /\ FramesInProtocolOrder'
  BY <1>1, SameRing DEF OrderInv, LinkInv, ProgressInv, PhaseInv, LoadFirmware, EnterLoop
<1>2. ASSUME NEW ssid \in Ssids \union {None}, StartScan(ssid)
      PROVE  ProgressInv' /\ FramesInProtocolOrder'
  BY <1>2, SameRing DEF OrderInv, LinkInv, ProgressInv, PhaseInv, StartScan, CanStart, EnterLoop
<1>3. CASE Disconnect
  <2>1. connected_bssid \in Bssids
    BY <1>3 DEF Disconnect, OrderInv, LinkInv, ConnectedHasKey, TypeOK, Ptks
  <2>2. Mgmt("Disassoc", connected_bssid) \in FrameTypes
    BY <2>1, MgmtType
  <2>3. /\ FramesInProtocolOrder'
        /\ DataSlotFree => data_queue' # <<>> /\ LastFrame' = Mgmt("Disassoc", connected_bssid)
        /\ ~ DataSlotFree => data_queue' = data_queue
    <3>1. TypeOK /\ FramesInProtocolOrder /\ TransmitFrame(Mgmt("Disassoc", connected_bssid))
      BY <1>3 DEF Disconnect, OrderInv, LinkInv
    <3>2. /\ data_queue # <<>>
          /\ LastFrame.kind \in MayPrecede("Disassoc")
          /\ LastFrame.bssid = connected_bssid
      BY <1>3, <2>1 DEF Mgmt, MayPrecede, OrderInv, ProgressInv, Disconnect, Waiting
    <3> QED
      BY <2>2, <3>1, <3>2, AppendInOrder DEF Mgmt
  <2>4. pc' = "idle" /\ connected_bssid' = connected_bssid
        /\ state' \in {"Connected", "Disconnected"}
    BY <1>3 DEF Disconnect
  <2>5. data_queue' # <<>>
        /\ LastFrame'.kind \in {"Msg4", "Data", "Disassoc"}
        /\ LastFrame'.bssid = connected_bssid
    <3>1. CASE DataSlotFree
      BY <2>3, <3>1 DEF Mgmt
    <3>2. CASE ~ DataSlotFree
      BY <1>3, <2>3, <3>2 DEF Disconnect, OrderInv, ProgressInv, LastFrame
    <3> QED
      BY <3>1, <3>2
  <2> QED
    BY <2>3, <2>4, <2>5 DEF ProgressInv
<1>4. CASE Transmit
  <2> DEFINE frame == [kind |-> "Data", bssid |-> connected_bssid, key |-> ptk,
                       nonce_pn |-> ccmp_pn, hdr_pn |-> NextPn]
  <2>1. connected_bssid \in Bssids /\ ptk \in Ptks /\ NextPn \in Nat /\ ccmp_pn \in Nat
    BY <1>4 DEF Transmit, MayTransmit, OrderInv, LinkInv, ConnectedHasKey, TypeOK,
                Ptks, NextPn
  <2>2. frame \in FrameTypes
    BY <2>1 DEF FrameTypes
  <2>3. /\ FramesInProtocolOrder'
        /\ DataSlotFree => data_queue' # <<>> /\ LastFrame' = frame
        /\ ~ DataSlotFree => data_queue' = data_queue
    <3>1. TypeOK /\ FramesInProtocolOrder /\ TransmitFrame(frame)
      BY <1>4 DEF Transmit, OrderInv, LinkInv
    <3>2. /\ data_queue # <<>>
          /\ LastFrame.kind \in MayPrecede(frame.kind)
          /\ LastFrame.bssid = frame.bssid
      BY <1>4 DEF MayPrecede, OrderInv, ProgressInv, Transmit, MayTransmit
    <3> QED
      BY <2>2, <3>1, <3>2, AppendInOrder
  <2> QED
    BY <1>4, <2>3
    DEF OrderInv, LinkInv, ProgressInv, PhaseInv, Transmit, MayTransmit, LastFrame
<1>5. ASSUME NEW loop \in {"alive", "nvm"}, Ignore(loop)
      PROVE  ProgressInv' /\ FramesInProtocolOrder'
  BY <1>5, SameRing DEF OrderInv, LinkInv, ProgressInv, PhaseInv, Ignore, PollAgain
<1>6. CASE AliveReceived
  BY <1>6, SameRing DEF OrderInv, LinkInv, ProgressInv, PhaseInv, AliveReceived, EnterLoop,
      Waiting
<1>7. CASE AliveTimeout
  BY <1>7, SameRing DEF OrderInv, LinkInv, ProgressInv, PhaseInv, AliveTimeout
<1>8. ASSUME NEW f \in Frames, NvmReceived(f)
      PROVE  ProgressInv' /\ FramesInProtocolOrder'
  BY <1>8, SameRing DEF OrderInv, LinkInv, ProgressInv, PhaseInv, NvmReceived, FirmwareReady
<1>9. CASE NvmTimeout
  BY <1>9, SameRing DEF OrderInv, LinkInv, ProgressInv, PhaseInv, NvmTimeout, FirmwareReady
<1>10. CASE ScanPoll
  BY <1>10, SameRing DEF OrderInv, LinkInv, ProgressInv, PhaseInv, ScanPoll, PollAgain
<1>11. CASE ScanEnds
  BY <1>11, SameRing DEF OrderInv, LinkInv, ProgressInv, PhaseInv, ScanEnds, Return
<1>12. ASSUME NEW i \in DOMAIN results, StartAuthentication(i)
      PROVE  ProgressInv' /\ FramesInProtocolOrder'
  <2> DEFINE frame == Mgmt("Auth", results[i].bssid)
  <2>1. results[i].bssid \in Bssids
    BY ResultType DEF OrderInv, LinkInv
  <2>2. frame \in FrameTypes /\ frame.kind = "Auth"
    BY <2>1, MgmtType DEF Mgmt
  <2>3. CASE CommandSlotFree
    <3>1. /\ FramesInProtocolOrder'
          /\ DataSlotFree => data_queue' # <<>> /\ LastFrame' = frame
      BY <1>12, <2>2, <2>3, AppendInOrder DEF StartAuthentication, OrderInv, LinkInv
    <3> QED
      BY <1>12, <2>3, <3>1
      DEF Mgmt, ProgressInv, StartAuthentication, Return, EnterLoop
  <2>4. CASE ~ CommandSlotFree
    <3>1. FramesInProtocolOrder'
      BY <1>12, <2>4, SameRing DEF StartAuthentication, OrderInv
    <3> QED
      BY <1>12, <2>4, <3>1 DEF ProgressInv, StartAuthentication, Return
  <2> QED
    BY <2>3, <2>4
<1>13. ASSUME NEW loop \in {"auth", "assoc"}, Ignore(loop)
      PROVE  ProgressInv' /\ FramesInProtocolOrder'
  BY <1>13, SameRing DEF OrderInv, LinkInv, ProgressInv, PhaseInv, Ignore, PollAgain
<1>14. ASSUME NEW loop \in {"msg1", "msg3"}, EapolIgnore(loop)
      PROVE  ProgressInv' /\ FramesInProtocolOrder'
  BY <1>14, SameRing DEF OrderInv, LinkInv, ProgressInv, PhaseInv, EapolIgnore, PollAgain
<1>15. ASSUME NEW loop \in {"auth", "assoc", "msg1", "msg3"}, WaitTimeout(loop)
      PROVE  ProgressInv' /\ FramesInProtocolOrder'
  BY <1>15, SameRing DEF OrderInv, LinkInv, ProgressInv, PhaseInv, WaitTimeout, Return
<1>16. CASE AuthReceived
  <2>1. target \in Bssids
    BY <1>16 DEF AuthReceived, Waiting, OrderInv, LinkInv, PhaseInv
  <2>2. Mgmt("AssocRequest", target) \in FrameTypes
    BY <2>1, MgmtType
  <2>3. /\ FramesInProtocolOrder'
        /\ DataSlotFree => data_queue' # <<>> /\ LastFrame' = Mgmt("AssocRequest", target)
        /\ ~ DataSlotFree => data_queue' = data_queue
    <3>1. TypeOK /\ FramesInProtocolOrder /\ TransmitFrame(Mgmt("AssocRequest", target))
      BY <1>16 DEF AuthReceived, OrderInv, LinkInv
    <3>2. /\ data_queue # <<>>
          /\ LastFrame.kind \in MayPrecede("AssocRequest")
          /\ LastFrame.bssid = target
      BY <1>16, <2>1 DEF Mgmt, MayPrecede, OrderInv, ProgressInv, AuthReceived, Waiting
    <3> QED
      BY <2>2, <3>1, <3>2, AppendInOrder DEF Mgmt
  <2> QED
    BY <1>16, <2>1, <2>3
    DEF Mgmt, OrderInv, LinkInv, ProgressInv, PhaseInv, AuthReceived, Return,
        EnterLoop, Waiting
<1>17. CASE AssocReceived
  BY <1>17, SameRing DEF OrderInv, LinkInv, ProgressInv, PhaseInv, AssocReceived, EnterLoop, Waiting
<1>18. ASSUME NEW f \in Frames, Msg1Received(f)
      PROVE  ProgressInv' /\ FramesInProtocolOrder'
  <2>1. target \in Bssids
    BY <1>18 DEF Msg1Received, Waiting, OrderInv, LinkInv, PhaseInv
  <2>2. Mgmt("Msg2", target) \in FrameTypes
    BY <2>1, MgmtType
  <2>3. /\ FramesInProtocolOrder'
        /\ DataSlotFree => data_queue' # <<>> /\ LastFrame' = Mgmt("Msg2", target)
        /\ ~ DataSlotFree => data_queue' = data_queue
    <3>1. TypeOK /\ FramesInProtocolOrder /\ TransmitFrame(Mgmt("Msg2", target))
      BY <1>18 DEF Msg1Received, OrderInv, LinkInv
    <3>2. /\ data_queue # <<>>
          /\ LastFrame.kind \in MayPrecede("Msg2")
          /\ LastFrame.bssid = target
      BY <1>18, <2>1 DEF Mgmt, MayPrecede, OrderInv, ProgressInv, Msg1Received, Waiting
    <3> QED
      BY <2>2, <3>1, <3>2, AppendInOrder DEF Mgmt
  <2> QED
    BY <1>18, <2>1, <2>3
    DEF Mgmt, OrderInv, LinkInv, ProgressInv, PhaseInv, Msg1Received, Return,
        EnterLoop, Waiting
<1>19. CASE Msg3Received
  <2>1. target \in Bssids
    BY <1>19 DEF Msg3Received, Waiting, OrderInv, LinkInv, PhaseInv
  <2>2. Mgmt("Msg4", target) \in FrameTypes
    BY <2>1, MgmtType
  <2>3. /\ FramesInProtocolOrder'
        /\ DataSlotFree => data_queue' # <<>> /\ LastFrame' = Mgmt("Msg4", target)
        /\ ~ DataSlotFree => data_queue' = data_queue
    <3>1. TypeOK /\ FramesInProtocolOrder /\ TransmitFrame(Mgmt("Msg4", target))
      BY <1>19 DEF Msg3Received, OrderInv, LinkInv
    <3>2. /\ data_queue # <<>>
          /\ LastFrame.kind \in MayPrecede("Msg4")
          /\ LastFrame.bssid = target
      BY <1>19, <2>1 DEF Mgmt, MayPrecede, OrderInv, ProgressInv, Msg3Received, Waiting
    <3> QED
      BY <2>2, <3>1, <3>2, AppendInOrder DEF Mgmt
  <2> QED
    BY <1>19, <2>1, <2>3
    DEF Mgmt, OrderInv, LinkInv, ProgressInv, PhaseInv, Msg3Received, Return, Waiting
<1>20. CASE UNCHANGED vars
  BY <1>20, SameRing DEF OrderInv, LinkInv, ProgressInv, PhaseInv, vars
<1> QED
  BY <1>1, <1>2, <1>3, <1>4, <1>5, <1>6, <1>7, <1>8, <1>9, <1>10, <1>11, <1>12,
     <1>13, <1>14, <1>15, <1>16, <1>17, <1>18, <1>19, <1>20
  DEF Next, UserCall, DriverStep, LoadStep, ConnectStep

(* Frames reach the data ring in the order of the protocol and never mix   *)
(* two access points in one exchange (connect, transmit, disconnect).      *)
THEOREM FramesKeepProtocolOrder == Spec => []FramesInProtocolOrder
<1>1. Init => OrderInv
  BY LinkInvInit DEF Init, OrderInv, ProgressInv, FramesInProtocolOrder
<1>2. OrderInv /\ [Next]_vars => OrderInv'
  BY LinkInvInductive, OrderStep DEF OrderInv
<1>3. OrderInv => FramesInProtocolOrder
  BY DEF OrderInv
<1> QED
  BY <1>1, <1>2, <1>3, PTL DEF Spec

-----------------------------------------------------------------------------
(* A step that touches the command ring at all sends one command. *)
LEMMA CommandStep ==
    ASSUME [Next]_vars
    PROVE  SendCommand \/ UNCHANGED <<cmd_seq, cmd_queue>>
<1> USE DEF linkVars, cmdVars, callVars, historyVars
<1>1. ASSUME NEW loop, PollAgain(loop)
      PROVE  UNCHANGED <<cmd_seq, cmd_queue>>
  BY <1>1 DEF PollAgain
<1>2. CASE UserCall
  BY <1>2 DEF UserCall, LoadFirmware, StartScan, Disconnect, Transmit
<1>3. CASE LoadStep
  <2>1. ASSUME NEW loop, Ignore(loop) PROVE UNCHANGED <<cmd_seq, cmd_queue>>
    BY <1>1, <2>1 DEF Ignore
  <2>2. CASE AliveReceived
    BY <2>2 DEF AliveReceived
  <2> QED
    BY <1>3, <2>1, <2>2 DEF LoadStep, AliveTimeout, NvmReceived, NvmTimeout, FirmwareReady
<1>4. CASE ConnectStep
  <2>1. ASSUME NEW loop, Ignore(loop) \/ EapolIgnore(loop) \/ ScanPoll
        PROVE  UNCHANGED <<cmd_seq, cmd_queue>>
    BY <1>1, <2>1 DEF Ignore, EapolIgnore, ScanPoll
  <2>2. CASE ScanEnds \/ AssocReceived
    BY <2>2 DEF ScanEnds, AssocReceived
  <2>3. ASSUME NEW i, StartAuthentication(i)
        PROVE  SendCommand
    BY <2>3 DEF StartAuthentication
  <2>4. ASSUME NEW loop, WaitTimeout(loop)
        PROVE  UNCHANGED <<cmd_seq, cmd_queue>>
    BY <2>4 DEF WaitTimeout
  <2>5. ASSUME NEW f, Msg1Received(f)
        PROVE  UNCHANGED <<cmd_seq, cmd_queue>>
    BY <2>5 DEF Msg1Received
  <2>6. CASE AuthReceived
    BY <2>6 DEF AuthReceived
  <2>7. CASE Msg3Received
    BY <2>7 DEF Msg3Received
  <2> QED
    BY <1>4, <2>1, <2>2, <2>3, <2>4, <2>5, <2>6, <2>7 DEF ConnectStep
<1>5. CASE UNCHANGED vars
  BY <1>5 DEF vars
<1> QED
  BY <1>2, <1>3, <1>4, <1>5 DEF Next, DriverStep

(* While the ring has room the next number is the number of commands in it; *)
(* there are fewer of them than numbers, so the wrap is never reached.     *)
SeqInv ==
    /\ Len(cmd_queue) <= TFD_QUEUE_SIZE - 1
    /\ CommandSlotFree => cmd_seq = Len(cmd_queue)
    /\ CommandSeqIsIndex

(* Every step keeps them in order, the command it may send included. *)
LEMMA SeqStep ==
    ASSUME TypeOK, SeqInv, [Next]_vars
    PROVE  SeqInv'
<1>0. /\ cmd_queue \in Seq(0 .. SEQ_MOD - 1) /\ Len(cmd_queue) \in Nat
      /\ cmd_seq \in 0 .. SEQ_MOD - 1
      /\ DOMAIN cmd_queue = 1 .. Len(cmd_queue)
      /\ TFD_QUEUE_SIZE \in Nat /\ SEQ_MOD \in Nat /\ SEQ_MOD >= TFD_QUEUE_SIZE
  BY LenProperties, QueueAssumption, SeqAssumption DEF TypeOK
<1>1. CASE UNCHANGED <<cmd_seq, cmd_queue>>
  BY <1>1 DEF SeqInv, CommandSlotFree, CommandSeqIsIndex
<1>2. CASE SendCommand /\ ~ CommandSlotFree
  BY <1>0, <1>2 DEF SendCommand, SeqInv, CommandSlotFree, CommandSeqIsIndex
<1>3. CASE SendCommand /\ CommandSlotFree
  <2> DEFINE q == Append(cmd_queue, cmd_seq)
  <2>1. cmd_seq = Len(cmd_queue) /\ Len(cmd_queue) < TFD_QUEUE_SIZE - 1
    BY <1>3 DEF SeqInv, CommandSlotFree
  <2>2. /\ cmd_queue' = q /\ cmd_seq' = (cmd_seq + 1) % SEQ_MOD
    BY <1>3 DEF SendCommand, NextSeq
  <2>3. (cmd_seq + 1) % SEQ_MOD = cmd_seq + 1
    BY <1>0, <2>1
  <2>4. /\ Len(q) = Len(cmd_queue) + 1
        /\ q[Len(cmd_queue) + 1] = cmd_seq
        /\ \A i \in 1 .. Len(cmd_queue) : q[i] = cmd_queue[i]
        /\ DOMAIN q = 1 .. Len(cmd_queue) + 1
    BY <1>0, AppendProperties, LenProperties
  <2> HIDE DEF q
  <2>5. ASSUME NEW i \in 1 .. Len(cmd_queue) + 1 PROVE q[i] = i - 1
    <3>1. CASE i = Len(cmd_queue) + 1
      BY <1>0, <2>1, <2>4, <3>1
    <3>2. CASE i \in 1 .. Len(cmd_queue)
      BY <1>0, <2>4, <3>2 DEF SeqInv, CommandSeqIsIndex
    <3> QED
      BY <1>0, <3>1, <3>2
  <2>6. CommandSeqIsIndex'
    BY <2>2, <2>4, <2>5 DEF CommandSeqIsIndex
  <2>7. Len(cmd_queue') <= TFD_QUEUE_SIZE - 1 /\ cmd_seq' = Len(cmd_queue')
    BY <1>0, <2>1, <2>2, <2>3, <2>4
  <2> QED
    BY <2>6, <2>7 DEF SeqInv
<1> QED
  BY <1>1, <1>2, <1>3, CommandStep

(* The number of every command is its place on the ring, also after        *)
(* commands were refused and calls abandoned (send_command, driver.rs).    *)
THEOREM CommandNumbersAreIndices == Spec => []CommandSeqIsIndex
<1>1. Init => SeqInv
  <2> SUFFICES ASSUME Init PROVE SeqInv
    OBVIOUS
  <2>1. Len(cmd_queue) = 0 /\ DOMAIN cmd_queue = {} /\ cmd_seq = 0
    BY EmptySeq DEF Init
  <2> QED
    BY <2>1, QueueAssumption DEF SeqInv, CommandSlotFree, CommandSeqIsIndex
<1>2. LinkInv /\ SeqInv /\ [Next]_vars => SeqInv'
  BY SeqStep DEF LinkInv
<1>3. SeqInv => CommandSeqIsIndex
  BY DEF SeqInv
<1> QED
  BY <1>1, <1>2, <1>3, LinkInvInductive, PTL DEF Spec

-----------------------------------------------------------------------------
(* The controller implements SecureLink: data leaves under the key of the  *)
(* link, and a key or a number is used again only after the key came back. *)

(* What the keys have to do with the packets sent: the key being agreed is *)
(* unused unless it came back, and under the key of the link all packet    *)
(* numbers are behind the counter unless it did.                           *)
KeyInv ==
    /\ ccmp_pn \in 0 .. MaxPn
    /\ \A p \in Sent : p.pn \in Nat
    /\ pc = "msg3" =>
          hs_ptk \in rederived \/ \A p \in Sent : p.key # hs_ptk
    /\ state = "Connected" =>
          ptk \in rederived \/ \A p \in Sent : p.key = ptk => p.pn < ccmp_pn

LinkKeyInv == LinkInv /\ KeyInv

LinkStep == [Link!Next]_<<LinkState, Sent, rederived>>

-----------------------------------------------------------------------------
(* The packets sent are those on the data ring, which a step may leave     *)
(* alone, extend by a frame of connect, or extend by a packet.             *)
LEMMA SameSent ==
    ASSUME UNCHANGED data_queue
    PROVE  Sent' = Sent
BY DEF Sent, DataFrames

(* What appending does to a ring, frame by frame. *)
LEMMA Appended ==
    ASSUME TypeOK, NEW f \in FrameTypes, TransmitFrame(f), DataSlotFree
    PROVE  /\ Len(data_queue) \in Nat
           /\ DOMAIN data_queue = 1 .. Len(data_queue)
           /\ DOMAIN data_queue' = 1 .. Len(data_queue) + 1
           /\ data_queue'[Len(data_queue) + 1] = f
           /\ \A i \in 1 .. Len(data_queue) : data_queue'[i] = data_queue[i]
<1>1. data_queue \in Seq(FrameTypes) /\ data_queue' = Append(data_queue, f)
  BY DEF TypeOK, TransmitFrame
<1> QED
  BY <1>1, AppendProperties, LenProperties

(* A frame of connect or disconnect is no packet. *)
LEMMA OtherSent ==
    ASSUME TypeOK, NEW b \in Bssids,
           NEW k \in {"Auth", "AssocRequest", "Msg2", "Msg4", "Disassoc"},
           TransmitFrame(Mgmt(k, b))
    PROVE  Sent' = Sent
<1> DEFINE f == Mgmt(k, b)
<1>1. f \in FrameTypes /\ f.kind # "Data"
  BY MgmtType DEF Mgmt
<1> HIDE DEF f
<1>2. CASE DataSlotFree
  <2>1. TransmitFrame(f)
    BY DEF f
  <2>2. /\ Len(data_queue) \in Nat
        /\ DOMAIN data_queue = 1 .. Len(data_queue)
        /\ DOMAIN data_queue' = 1 .. Len(data_queue) + 1
        /\ data_queue'[Len(data_queue) + 1].kind # "Data"
        /\ \A i \in 1 .. Len(data_queue) : data_queue'[i] = data_queue[i]
    BY <1>1, <1>2, <2>1, Appended
  <2>3. DataFrames' = DataFrames
    BY <2>2 DEF DataFrames
  <2>4. \A i \in DataFrames : data_queue'[i] = data_queue[i]
    BY <2>2 DEF DataFrames
  <2> QED
    BY <2>3, <2>4 DEF Sent
<1>3. CASE ~ DataSlotFree
  BY <1>3, SameSent DEF TransmitFrame
<1> QED
  BY <1>2, <1>3

(* A packet is added to those sent, unless the ring is full. *)
LEMMA DataSent ==
    ASSUME TypeOK, NEW f \in FrameTypes, f.kind = "Data", TransmitFrame(f)
    PROVE  \/ Sent' = Sent
           \/ /\ Len(data_queue) + 1 \in 1 .. TFD_QUEUE_SIZE - 1
              /\ Sent' = Sent \union {[key |-> f.key, pn |-> f.nonce_pn,
                                       at |-> Len(data_queue) + 1]}
<1>1. CASE DataSlotFree
  <2>1. /\ Len(data_queue) \in Nat
        /\ DOMAIN data_queue = 1 .. Len(data_queue)
        /\ DOMAIN data_queue' = 1 .. Len(data_queue) + 1
        /\ data_queue'[Len(data_queue) + 1] = f
        /\ \A i \in 1 .. Len(data_queue) : data_queue'[i] = data_queue[i]
    BY <1>1, Appended
  <2>2. DataFrames' = DataFrames \union {Len(data_queue) + 1}
    BY <2>1 DEF DataFrames
  <2>3. \A i \in DataFrames : data_queue'[i] = data_queue[i]
    BY <2>1 DEF DataFrames
  <2>4. Len(data_queue) + 1 \in 1 .. TFD_QUEUE_SIZE - 1
    BY <1>1, <2>1, QueueAssumption DEF DataSlotFree
  <2>5. Sent' = Sent \union {[key |-> f.key, pn |-> f.nonce_pn,
                             at |-> Len(data_queue) + 1]}
    BY <2>1, <2>2, <2>3 DEF Sent
  <2> QED
    BY <2>4, <2>5
<1>2. CASE ~ DataSlotFree
  BY <1>2, SameSent DEF TransmitFrame
<1> QED
  BY <1>1, <1>2

-----------------------------------------------------------------------------
(* The link up or down, a step that touches neither it nor the packets.    *)
LEMMA Quiet ==
    ASSUME KeyInv, Sent' = Sent,
           UNCHANGED <<state, connected_bssid, ptk, ccmp_pn, rederived>>,
           pc' = "msg3" => pc = "msg3" /\ hs_ptk' = hs_ptk
    PROVE  KeyInv' /\ LinkStep
<1>1. LinkState' = LinkState
  BY DEF LinkState
<1> QED
  BY <1>1 DEF KeyInv, LinkStep

(* A step after which the link is down: it goes down, or it was.           *)
LEMMA Down ==
    ASSUME LinkInv, KeyInv, Sent' = Sent, state' # "Connected", pc' # "msg3",
           ptk' \in {ptk, None}, ccmp_pn' \in {ccmp_pn, 0}, rederived' = rederived
    PROVE  KeyInv' /\ LinkStep
<1>1. KeyInv'
  BY BoundAssumption DEF KeyInv
<1>2. LinkState' = None
  BY DEF LinkState
<1>3. CASE state = "Connected"
  <2>1. LinkState \in [bssid : Bssids, key : Ptks, next : 0 .. MaxPn]
    BY <1>3 DEF LinkState, LinkInv, ConnectedHasKey, TypeOK, Ptks, KeyInv
  <2>2. LinkState # None
    BY <2>1, NoneAssumption
  <2>3. Link!Release
    BY <1>2, <2>2 DEF Link!Release
  <2> QED
    BY <1>1, <2>3 DEF LinkStep, Link!Next
<1>4. CASE state # "Connected"
  <2>1. LinkState = None
    BY <1>4 DEF LinkState
  <2> QED
    BY <1>1, <1>2, <2>1 DEF LinkStep
<1> QED
  BY <1>3, <1>4

(* A packet leaves under the key of the link, with a number new to it.     *)
LEMMA Sends ==
    ASSUME LinkKeyInv, Transmit
    PROVE  KeyInv' /\ LinkStep
<1> DEFINE frame == [kind |-> "Data", bssid |-> connected_bssid, key |-> ptk,
                     nonce_pn |-> ccmp_pn, hdr_pn |-> NextPn]
           place == Len(data_queue) + 1
           packet == [key |-> ptk, pn |-> ccmp_pn, at |-> place]
<1>a. TypeOK /\ ConnectedHasKey /\ KeyInv
  BY DEF LinkKeyInv, LinkInv
<1>b. /\ state = "Connected" /\ ptk # None /\ ccmp_pn < MaxPn
      /\ ccmp_pn' = NextPn /\ UNCHANGED <<state, ptk, connected_bssid>>
      /\ pc = "idle" /\ pc' = "idle" /\ UNCHANGED rederived
      /\ TransmitFrame(frame)
  BY DEF Transmit, MayTransmit, linkVars, callVars, historyVars
<1>c. ptk \in Ptks /\ ptk.bssid = connected_bssid
  BY <1>a, <1>b DEF TypeOK, ConnectedHasKey
<1>d. connected_bssid \in Bssids
  BY <1>c DEF Ptks
<1>e. ccmp_pn \in Nat /\ NextPn \in Nat /\ ccmp_pn' = ccmp_pn + 1
  BY <1>a, <1>b DEF TypeOK, NextPn
<1>1. /\ connected_bssid \in Bssids /\ ptk \in Ptks /\ ptk # None
      /\ NextPn \in Nat /\ ccmp_pn \in 0 .. MaxPn
      /\ ccmp_pn' = ccmp_pn + 1
      /\ state = "Connected" /\ state' = "Connected"
      /\ pc' = "idle"
  BY <1>b, <1>c, <1>d, <1>e, BoundAssumption
<1>2. frame \in FrameTypes
  BY <1>1 DEF FrameTypes
<1>3. \/ Sent' = Sent
      \/ place \in 1 .. TFD_QUEUE_SIZE - 1 /\ Sent' = Sent \union {packet}
  <2>1. TypeOK /\ TransmitFrame(frame)
    BY DEF Transmit, LinkKeyInv, LinkInv
  <2> QED
    BY <1>2, <2>1, DataSent
<1>4. /\ \A p \in Sent' : p.pn \in Nat
      /\ ptk \in rederived \/ \A p \in Sent' : p.key = ptk => p.pn < ccmp_pn'
  <2>1. /\ \A p \in Sent : p.pn \in Nat
        /\ ptk \in rederived \/ \A p \in Sent : p.key = ptk => p.pn < ccmp_pn
    BY <1>1 DEF LinkKeyInv, KeyInv
  <2>2. ptk \in rederived \/ \A p \in Sent : p.key = ptk => p.pn < ccmp_pn'
    BY <1>1, <2>1
  <2>3. packet.pn < ccmp_pn' /\ packet.pn \in Nat
    BY <1>1
  <2> QED
    BY <1>3, <2>1, <2>2, <2>3
<1>5. KeyInv'
  <2>1. ccmp_pn' \in 0 .. MaxPn
    BY <1>b, <1>e, BoundAssumption
  <2> QED
    BY <1>1, <1>4, <1>b, <2>1 DEF KeyInv
<1>6. /\ LinkState = [bssid |-> connected_bssid, key |-> ptk, next |-> ccmp_pn]
      /\ LinkState' = [bssid |-> connected_bssid, key |-> ptk, next |-> ccmp_pn + 1]
  BY <1>1, <1>b DEF LinkState
<1>7. \/ ptk \in rederived
      \/ \A p \in Sent : ~ (p.key = ptk /\ p.pn = ccmp_pn)
  BY <1>1 DEF LinkKeyInv, KeyInv
<1>8. LinkState # None
  <2>1. LinkState \in [bssid : Bssids, key : Ptks, next : 0 .. MaxPn]
    BY <1>1, <1>6
  <2> QED
    BY <2>1, NoneAssumption
<1>9. Link!Spend(ccmp_pn)
  <2>1. [LinkState EXCEPT !.next = ccmp_pn + 1] = LinkState'
    BY <1>6
  <2>2. LinkState.next = ccmp_pn
    BY <1>6
  <2> QED
    BY <1>1, <1>8, <1>b, <2>1, <2>2 DEF Link!Spend
<1>10. CASE place \in 1 .. TFD_QUEUE_SIZE - 1 /\ Sent' = Sent \union {packet}
  <2>1. LinkState.key = ptk
    BY <1>6
  <2>2. Link!Send(ccmp_pn, place)
    BY <1>7, <1>9, <1>10, <2>1 DEF Link!Send
  <2>3. ccmp_pn \in 0 .. MaxPn /\ place \in 1 .. TFD_QUEUE_SIZE - 1
    BY <1>1, <1>10
  <2> HIDE DEF place
  <2>4. Link!Next
    BY <2>2, <2>3 DEF Link!Next
  <2> QED
    BY <1>5, <2>4 DEF LinkStep
<1>11. CASE Sent' = Sent
  <2>1. Link!Skip(ccmp_pn)
    BY <1>9, <1>11 DEF Link!Skip
  <2> QED
    BY <1>1, <1>5, <2>1 DEF LinkStep, Link!Next
<1> QED
  BY <1>3, <1>10, <1>11

(* The link comes up with the key just agreed, which no packet has used.   *)
LEMMA ComesUp ==
    ASSUME LinkKeyInv, Msg3Received
    PROVE  KeyInv' /\ LinkStep
<1>1. /\ target \in Bssids /\ hs_ptk \in Ptks
      /\ state = "Handshaking" /\ pc = "msg3"
  BY DEF Msg3Received, Waiting, LinkKeyInv, LinkInv, PhaseInv
<1>2. Sent' = Sent
  BY <1>1, OtherSent DEF Msg3Received, LinkKeyInv, LinkInv
<1>3. hs_ptk \in rederived \/ \A p \in Sent : p.key # hs_ptk
  BY <1>1 DEF LinkKeyInv, KeyInv
<1>4. /\ rederived' = rederived /\ pc' = "idle" /\ ccmp_pn' = ccmp_pn
      /\ state' = "Connected" => ptk' = hs_ptk /\ connected_bssid' = target
  BY <1>1 DEF Msg3Received, NewPtk, Return, historyVars
<1>5. KeyInv'
  BY <1>2, <1>3, <1>4 DEF LinkKeyInv, KeyInv
<1>6. LinkState = None
  BY <1>1 DEF LinkState
<1>7. CASE state' = "Connected"
  <2> DEFINE l == [bssid |-> target, key |-> hs_ptk, next |-> ccmp_pn]
  <2>1. l \in Link!Links
    BY <1>1 DEF Link!Links, LinkKeyInv, KeyInv
  <2>2. LinkState' = l
    BY <1>4, <1>7 DEF LinkState
  <2>3. l.key = hs_ptk
    OBVIOUS
  <2> HIDE DEF l
  <2>4. Link!Establish(l)
    BY <1>2, <1>3, <1>4, <1>6, <2>2, <2>3 DEF Link!Establish, Link!Unused
  <2> QED
    BY <1>5, <2>1, <2>4 DEF LinkStep, Link!Next
<1>8. CASE state' # "Connected"
  <2>1. LinkState' = None
    BY <1>8 DEF LinkState
  <2> QED
    BY <1>2, <1>4, <1>5, <1>6, <2>1 DEF LinkStep
<1> QED
  BY <1>7, <1>8

(* A first message changes neither the link nor the packets; a key it      *)
(* brings back comes back, and one it does not is unused.                  *)
LEMMA KeyAgreed ==
    ASSUME LinkKeyInv, NEW f \in Frames, Msg1Received(f)
    PROVE  KeyInv' /\ LinkStep
<1> DEFINE key == [bssid |-> target, mac |-> mac_addr, anonce |-> f.anonce]
<1>1. target \in Bssids /\ state # "Connected" /\ f.anonce \in Anonces
  BY DEF Msg1Received, Waiting, IsMessage, Frames, LinkKeyInv, LinkInv, PhaseInv
<1>2. key \in Ptks
  BY <1>1 DEF Ptks, LinkKeyInv, LinkInv, TypeOK
<1>3. Sent' = Sent
  BY <1>1, OtherSent DEF Msg1Received, LinkKeyInv, LinkInv
<1>4. /\ rederived' = rederived \union ({key} \intersect UsedKeys)
      /\ state' = state /\ ccmp_pn' = ccmp_pn
      /\ pc' = "msg3" => hs_ptk' = key
  BY DEF Msg1Received, EnterLoop, Return, linkVars
<1> HIDE DEF key
<1>5. /\ key \in UsedKeys => \E p \in Sent : p.key = key
      /\ key \notin UsedKeys => \A p \in Sent : p.key # key
  <2>1. ASSUME NEW i \in DataFrames, data_queue[i].key = key
        PROVE  \E p \in Sent : p.key = key
    <3> DEFINE p == [key |-> data_queue[i].key, pn |-> data_queue[i].nonce_pn, at |-> i]
    <3>1. p \in Sent /\ p.key = key
      BY <2>1 DEF Sent
    <3> QED
      BY <3>1
  <2>2. ASSUME NEW p \in Sent PROVE p.key \in UsedKeys
    BY DEF Sent, UsedKeys
  <2> QED
    BY <2>1, <2>2 DEF UsedKeys
<1>6. KeyInv'
  <2>1. pc' = "msg3" =>
           hs_ptk' \in rederived' \/ \A p \in Sent' : p.key # hs_ptk'
    BY <1>3, <1>4, <1>5
  <2> QED
    BY <1>1, <1>3, <1>4, <2>1 DEF LinkKeyInv, KeyInv
<1>7. LinkState = None /\ LinkState' = None
  BY <1>1, <1>4 DEF LinkState
<1>8. CASE key \in UsedKeys
  <2>1. rederived' = rederived \union {key}
    BY <1>4, <1>8
  <2>2. Link!ComesBack(key)
    BY <1>3, <1>5, <1>7, <1>8, <2>1 DEF Link!ComesBack, Link!Unused
  <2> QED
    BY <1>2, <1>6, <2>2 DEF LinkStep, Link!Next
<1>9. CASE key \notin UsedKeys
  <2>1. rederived' = rederived
    BY <1>4, <1>9
  <2> QED
    BY <1>3, <1>6, <1>7, <2>1 DEF LinkStep
<1> QED
  BY <1>8, <1>9

-----------------------------------------------------------------------------
(* Every step keeps KeyInv and is a step of the link or none.              *)
LEMMA KeyAndLinkStep ==
    ASSUME LinkKeyInv, [Next]_vars
    PROVE  KeyInv' /\ LinkStep
<1> USE DEF linkVars, cmdVars, callVars, historyVars
<1>1. ASSUME NEW uploaded \in BOOLEAN, LoadFirmware(uploaded)
      PROVE  KeyInv' /\ LinkStep
  <2>1. Sent' = Sent
    BY <1>1, SameSent DEF LoadFirmware, EnterLoop
  <2> QED
    BY <1>1, <2>1, Quiet DEF LinkKeyInv, LoadFirmware, EnterLoop
<1>2. ASSUME NEW ssid \in Ssids \union {None}, StartScan(ssid)
      PROVE  KeyInv' /\ LinkStep
  <2>1. Sent' = Sent
    BY <1>2, SameSent DEF StartScan, CanStart, EnterLoop
  <2> QED
    BY <1>2, <2>1, Down DEF LinkKeyInv, StartScan, CanStart, EnterLoop
<1>3. CASE Disconnect
  <2>1. connected_bssid \in Bssids
    BY <1>3 DEF Disconnect, LinkKeyInv, LinkInv, ConnectedHasKey, TypeOK, Ptks
  <2>2. Sent' = Sent
    BY <1>3, <2>1, OtherSent DEF Disconnect, LinkKeyInv, LinkInv
  <2>3. CASE BothSent
    BY <1>3, <2>2, <2>3, Down DEF LinkKeyInv, Disconnect
  <2>4. CASE ~ BothSent
    BY <1>3, <2>2, <2>4, Quiet DEF LinkKeyInv, Disconnect
  <2> QED
    BY <2>3, <2>4
<1>4. CASE Transmit
  BY <1>4, Sends
<1>5. ASSUME NEW loop \in {"alive", "nvm"}, Ignore(loop)
      PROVE  KeyInv' /\ LinkStep
  <2>1. Sent' = Sent
    BY <1>5, SameSent DEF Ignore, PollAgain
  <2> QED
    BY <1>5, <2>1, Quiet DEF LinkKeyInv, Ignore, PollAgain
<1>6. CASE AliveReceived
  <2>1. Sent' = Sent
    BY <1>6, SameSent DEF AliveReceived, EnterLoop
  <2> QED
    BY <1>6, <2>1, Quiet DEF LinkKeyInv, AliveReceived, EnterLoop
<1>7. CASE AliveTimeout
  <2>1. Sent' = Sent
    BY <1>7, SameSent DEF AliveTimeout
  <2> QED
    BY <1>7, <2>1, Quiet DEF LinkKeyInv, AliveTimeout
<1>8. ASSUME NEW f \in Frames, NvmReceived(f)
      PROVE  KeyInv' /\ LinkStep
  <2>1. Sent' = Sent
    BY <1>8, SameSent DEF NvmReceived, FirmwareReady
  <2> QED
    BY <1>8, <2>1, Down DEF LinkKeyInv, NvmReceived, FirmwareReady
<1>9. CASE NvmTimeout
  <2>1. Sent' = Sent
    BY <1>9, SameSent DEF NvmTimeout, FirmwareReady
  <2> QED
    BY <1>9, <2>1, Down DEF LinkKeyInv, NvmTimeout, FirmwareReady
<1>10. CASE ScanPoll
  <2>1. Sent' = Sent
    BY <1>10, SameSent DEF ScanPoll, PollAgain
  <2> QED
    BY <1>10, <2>1, Quiet DEF LinkKeyInv, ScanPoll, PollAgain
<1>11. CASE ScanEnds
  <2>1. Sent' = Sent
    BY <1>11, SameSent DEF ScanEnds, Return
  <2> QED
    BY <1>11, <2>1, Down DEF LinkKeyInv, ScanEnds, Return
<1>12. ASSUME NEW i \in DOMAIN results, StartAuthentication(i)
      PROVE  KeyInv' /\ LinkStep
  <2>1. results[i].bssid \in Bssids
    BY ResultType DEF LinkKeyInv, LinkInv
  <2>2. Sent' = Sent
    BY <1>12, <2>1, OtherSent, SameSent DEF StartAuthentication, LinkKeyInv, LinkInv
  <2> QED
    BY <1>12, <2>2, Down DEF LinkKeyInv, StartAuthentication, EnterLoop, Return
<1>13. ASSUME NEW loop \in {"auth", "assoc"}, Ignore(loop)
      PROVE  KeyInv' /\ LinkStep
  <2>1. Sent' = Sent
    BY <1>13, SameSent DEF Ignore, PollAgain
  <2> QED
    BY <1>13, <2>1, Quiet DEF LinkKeyInv, Ignore, PollAgain
<1>14. ASSUME NEW loop \in {"msg1", "msg3"}, EapolIgnore(loop)
      PROVE  KeyInv' /\ LinkStep
  <2>1. Sent' = Sent
    BY <1>14, SameSent DEF EapolIgnore, PollAgain
  <2> QED
    BY <1>14, <2>1, Quiet DEF LinkKeyInv, EapolIgnore, PollAgain
<1>15. ASSUME NEW loop \in {"auth", "assoc", "msg1", "msg3"}, WaitTimeout(loop)
      PROVE  KeyInv' /\ LinkStep
  <2>1. Sent' = Sent
    BY <1>15, SameSent DEF WaitTimeout, Return
  <2> QED
    BY <1>15, <2>1, Quiet DEF LinkKeyInv, WaitTimeout, Return
<1>16. CASE AuthReceived
  <2>1. target \in Bssids
    BY <1>16 DEF AuthReceived, Waiting, LinkKeyInv, LinkInv, PhaseInv
  <2>2. Sent' = Sent
    BY <1>16, <2>1, OtherSent DEF AuthReceived, LinkKeyInv, LinkInv
  <2> QED
    BY <1>16, <2>2, Down DEF LinkKeyInv, AuthReceived, EnterLoop, Return
<1>17. CASE AssocReceived
  <2>1. Sent' = Sent
    BY <1>17, SameSent DEF AssocReceived, EnterLoop
  <2> QED
    BY <1>17, <2>1, Down DEF LinkKeyInv, AssocReceived, EnterLoop
<1>18. ASSUME NEW f \in Frames, Msg1Received(f)
      PROVE  KeyInv' /\ LinkStep
  BY <1>18, KeyAgreed
<1>19. CASE Msg3Received
  BY <1>19, ComesUp
<1>20. CASE UNCHANGED vars
  <2>1. Sent' = Sent
    BY <1>20, SameSent DEF vars
  <2> QED
    BY <1>20, <2>1, Quiet DEF LinkKeyInv, vars
<1> QED
  BY <1>1, <1>2, <1>3, <1>4, <1>5, <1>6, <1>7, <1>8, <1>9, <1>10, <1>11, <1>12,
     <1>13, <1>14, <1>15, <1>16, <1>17, <1>18, <1>19, <1>20
  DEF Next, UserCall, DriverStep, LoadStep, ConnectStep

(* The controller keeps what SecureLink promises, whatever nonces the      *)
(* access points use: data leaves only under the key of the link and with  *)
(* rising packet numbers, and no key serves two links and no number two    *)
(* packets unless a first message brought the key back, through any        *)
(* reconnections, reloads and refusals (connect, disconnect, transmit,     *)
(* driver.rs).                                                             *)
THEOREM ControllerImplementsLink == Spec => ImplementsSecureLink
<1>1. Init => LinkKeyInv /\ Link!Init
  <2>1. ASSUME Init PROVE Sent = {} /\ LinkState = None /\ rederived = {}
    BY <2>1 DEF Init, Sent, DataFrames, LinkState
  <2>2. ASSUME Init PROVE KeyInv
    <3>1. ccmp_pn \in 0 .. MaxPn
      BY <2>2, BoundAssumption DEF Init
    <3> QED
      BY <2>1, <2>2, <3>1 DEF Init, KeyInv
  <2> QED
    BY <2>1, <2>2, LinkInvInit DEF LinkKeyInv, Link!Init
<1>2. LinkKeyInv /\ [Next]_vars => LinkKeyInv' /\ LinkStep
  BY KeyAndLinkStep, LinkInvInductive DEF LinkKeyInv
<1>3. LinkKeyInv /\ [Next]_vars => LinkKeyInv' /\ [Link!Next]_<<LinkState, Sent, rederived>>
  BY <1>2 DEF LinkStep
<1> QED
  BY <1>1, <1>3, PTL DEF Spec, ImplementsSecureLink, Link!Spec
=============================================================================
