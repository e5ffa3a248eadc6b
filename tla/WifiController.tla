--------------------------- MODULE WifiController ---------------------------
(***************************************************************************)
(* The driver's controller (src/src/driver.rs): load_firmware, scanning,   *)
(* connect with its four waits, disconnect and transmit.                   *)
(*                                                                         *)
(* The driver is one thread that polls the receive ring, so an action is a *)
(* run of code from one wait loop to the next: it starts with a call or    *)
(* with the end of a poll, and it ends in the next loop ("pc") or back in  *)
(* the caller ("idle").  Nothing in the code authenticates a frame, and a  *)
(* ring slot may be read again after a lap, so any frame may turn up at    *)
(* any poll.  A call refused by its guard changes nothing and is no step.  *)
(*                                                                         *)
(* TxQueue models the two transmit rings in detail; here they are the      *)
(* sequences of what was enqueued.  The driver never calls complete, so    *)
(* they never shrink.  The write pointer is poked in the same run of code. *)
(***************************************************************************)
EXTENDS Integers, Sequences, FiniteSets

CONSTANTS
    TFD_QUEUE_SIZE,     \* slots of each transmit ring
    SEQ_MOD,            \* cmd_seq wraps here (2^16 in the code)
    Bssids, Ssids,      \* access points and network names
    Hidden,             \* the empty SSID of a beacon that hides its name
    Anonces,            \* nonces the access points generate
    NvmMac,             \* the address stored in the device
    DEFAULT_MAC,        \* the address used when the NVM does not answer
    ZeroMac,            \* mac_addr as init leaves it
    OtherMac,           \* bytes of a data frame taken for an address
    None,
    MaxPolls,           \* bound: iterations of every wait loop
    MaxPn               \* bound: packet numbers

Macs == {NvmMac, DEFAULT_MAC, ZeroMac, OtherMac}

(* A temporal key stands for what derive_ptk mixes: the two addresses and  *)
(* the access point's nonce.  The driver's own nonce is computed from its  *)
(* address, so it adds nothing.                                            *)
Ptks == [bssid : Bssids, mac : Macs, anonce : Anonces]

ASSUME QueueAssumption == TFD_QUEUE_SIZE \in Nat /\ TFD_QUEUE_SIZE >= 2
ASSUME SeqAssumption == SEQ_MOD \in Nat /\ SEQ_MOD >= TFD_QUEUE_SIZE
ASSUME BoundAssumption == {MaxPolls, MaxPn} \subseteq Nat
ASSUME NoneAssumption ==
    /\ None \notin Bssids \union Ssids \union Ptks
    /\ None \notin [bssid : Bssids, key : Ptks, next : 0 .. MaxPn]
    /\ Hidden \notin Ssids \union {None}

VARIABLES
    \* fields of WifiController
    state, mac_addr, connected_bssid, ptk, ccmp_pn, cmd_seq,
    cmd_queue,          \* sequence numbers of the commands in the ring
    data_queue,         \* frames in the ring
    \* the call in progress
    pc, polls,
    want,               \* the SSID connect looks for; None in a plain scan
    results,            \* networks of the scan, in the order found
    target,             \* the BSSID connect settled on
    hs_ptk,             \* the PTK of the handshake in progress
    \* the device
    stations, fw_key,   \* as the commands in the ring, run in order, leave them
    \* history
    rederived,          \* keys derived again after data was sent under them
    eapol_missed        \* an awaited EAPOL message was thrown away

callVars == <<pc, polls, want, results, target, hs_ptk>>
linkVars == <<connected_bssid, ptk, ccmp_pn>>
cmdVars == <<cmd_seq, cmd_queue, stations, fw_key>>
historyVars == <<rederived, eapol_missed>>
vars == <<state, mac_addr, connected_bssid, ptk, ccmp_pn, cmd_seq, cmd_queue,
          data_queue, pc, polls, want, results, target, hs_ptk, stations, fw_key,
          rederived, eapol_missed>>

WifiState == {"Uninitialized", "Ready", "Scanning", "Authenticating",
              "Associating", "Handshaking", "Connected", "Disconnected"}

Networks == [bssid : Bssids, ssid : Ssids \union {Hidden}]

(* What a poll can find.  EAPOL messages come bare or inside a data frame. *)
Frames ==
    [kind : {"Alive", "ScanComplete", "Auth", "AssocResponse"}]
    \union [kind : {"NvmAccess"}, mac : {NvmMac}]
    \union [kind : {"Beacon"}, network : Networks]
    \union [kind : {"Eapol"}, msg : {1, 3}, anonce : Anonces, in_data : BOOLEAN]

-----------------------------------------------------------------------------
Init ==
    /\ state = "Uninitialized"
    /\ mac_addr = ZeroMac
    /\ connected_bssid = None
    /\ ptk = None
    /\ ccmp_pn = 0
    /\ cmd_seq = 0
    /\ cmd_queue = <<>>
    /\ data_queue = <<>>
    /\ pc = "idle"
    /\ polls = 0
    /\ want = None
    /\ results = <<>>
    /\ target = None
    /\ hs_ptk = None
    /\ stations = {}
    /\ fw_key = None
    /\ rederived = {}
    /\ eapol_missed = FALSE

CommandSlotFree == Len(cmd_queue) < TFD_QUEUE_SIZE - 1
DataSlotFree == Len(data_queue) < TFD_QUEUE_SIZE - 1

SeqWithoutWrap == cmd_seq + 1

NextSeq == (cmd_seq + 1) % SEQ_MOD

(* The sequence number is spent whether or not the ring takes the command. *)
SendCommand ==
    /\ cmd_seq' = NextSeq
    /\ cmd_queue' = IF CommandSlotFree THEN Append(cmd_queue, cmd_seq)
                    ELSE cmd_queue

TransmitFrame(frame) ==
    data_queue' = IF DataSlotFree THEN Append(data_queue, frame) ELSE data_queue

Mgmt(kind, bssid) == [kind |-> kind, bssid |-> bssid]

Waiting(loop) == pc = loop /\ polls > 0
TimedOut(loop) == pc = loop /\ polls = 0

EnterLoop(loop) == pc' = loop /\ polls' = MaxPolls

(* Back in the caller: the locals of the call are gone. *)
Return ==
    /\ pc' = "idle"
    /\ polls' = 0
    /\ want' = None
    /\ results' = <<>>
    /\ target' = None
    /\ hs_ptk' = None

(* Nothing arrived, or nothing this loop wants. *)
PollAgain(loop) ==
    /\ Waiting(loop)
    /\ polls' = polls - 1
    /\ UNCHANGED <<state, mac_addr, linkVars, cmdVars, data_queue, pc, want,
                   target, hs_ptk, rederived>>

Ignore(loop) ==
    /\ PollAgain(loop)
    /\ UNCHANGED <<results, eapol_missed>>

-----------------------------------------------------------------------------
(* The first byte of whatever was received is read as a command id: a bare *)
(* EAPOL frame starts with its version 1, the id of Alive, and a QoS data  *)
(* frame with 0x88, the id of NvmAccess.                                   *)
ReadsAs(f, id) ==
    \/ f.kind = id
    \/ f.kind = "Eapol" /\ id = (IF f.in_data THEN "NvmAccess" ELSE "Alive")

MacIn(f) == IF f.kind = "NvmAccess" THEN f.mac ELSE OtherMac

(* load_firmware has no guard on the state.  The upload restarts the       *)
(* device, which forgets its station and key; it may time out.             *)
LoadFirmware(uploaded) ==
    /\ pc = "idle"
    /\ stations' = {}
    /\ fw_key' = None
    /\ IF uploaded THEN EnterLoop("alive") ELSE UNCHANGED <<pc, polls>>
    /\ UNCHANGED <<state, mac_addr, linkVars, cmd_seq, cmd_queue, data_queue,
                   want, results, target, hs_ptk, historyVars>>

AliveReceived ==
    /\ Waiting("alive")
    /\ \E f \in Frames : ReadsAs(f, "Alive")
    /\ SendCommand
    /\ IF CommandSlotFree THEN EnterLoop("nvm") ELSE pc' = "idle" /\ polls' = 0
    /\ UNCHANGED <<state, mac_addr, linkVars, data_queue, want, results, target,
                   hs_ptk, stations, fw_key, historyVars>>

AliveTimeout ==
    /\ TimedOut("alive")
    /\ pc' = "idle"
    /\ UNCHANGED <<state, mac_addr, linkVars, cmdVars, data_queue, polls, want,
                   results, target, hs_ptk, historyVars>>

ReadyRestartingSeq(mac) ==
    /\ mac_addr' = mac
    /\ state' = "Ready"
    /\ pc' = "idle"
    /\ polls' = 0
    /\ cmd_seq' = 0
    /\ UNCHANGED <<linkVars, cmd_queue, stations, fw_key, data_queue, want,
                   results, target, hs_ptk, historyVars>>

FirmwareReady(mac) ==
    /\ mac_addr' = mac
    /\ state' = "Ready"
    /\ pc' = "idle"
    /\ polls' = 0
    /\ UNCHANGED <<linkVars, cmdVars, data_queue, want, results, target, hs_ptk,
                   historyVars>>

NvmReceived(f) ==
    /\ Waiting("nvm")
    /\ ReadsAs(f, "NvmAccess")
    /\ FirmwareReady(MacIn(f))

NvmTimeout ==
    /\ TimedOut("nvm")
    /\ FirmwareReady(DEFAULT_MAC)

-----------------------------------------------------------------------------
CanStart == pc = "idle" /\ state \in {"Ready", "Disconnected"}

(* scan_networks when ssid is None, the first half of connect otherwise. *)
StartScan(ssid) ==
    /\ CanStart
    /\ state' = "Scanning"
    /\ SendCommand
    /\ IF CommandSlotFree THEN EnterLoop("scan") /\ want' = ssid
                          ELSE UNCHANGED <<pc, polls, want>>
    /\ UNCHANGED <<mac_addr, linkVars, data_queue, results, target, hs_ptk,
                   stations, fw_key, historyVars>>

(* All signals read -50 dBm, so the first network heard of a BSSID stays. *)
AddResult(network) ==
    results' = IF \E i \in DOMAIN results : results[i].bssid = network.bssid
               THEN results
               ELSE Append(results, network)

ScanPoll ==
    /\ PollAgain("scan")
    /\ \/ UNCHANGED results
       \/ \E f \in Frames : f.kind = "Beacon" /\ AddResult(f.network)
    /\ UNCHANGED eapol_missed

(* A ScanComplete notification and the timeout end the loop alike. *)
ScanOver == Waiting("scan") \/ TimedOut("scan")

Matches == {i \in DOMAIN results : results[i].ssid = want}

ScanEnds ==
    /\ ScanOver
    /\ Matches = {}
    /\ state' = "Ready"
    /\ Return
    /\ UNCHANGED <<mac_addr, linkVars, cmdVars, data_queue,
                   historyVars>>

(* connect goes on with the first network of that name: the PHY command,   *)
(* then the authentication frame.                                          *)
StartAuthentication(i) ==
    /\ ScanOver
    /\ i \in Matches
    /\ \A j \in Matches : i <= j
    /\ SendCommand
    /\ IF CommandSlotFree
       THEN /\ state' = "Authenticating"
            /\ TransmitFrame(Mgmt("Auth", results[i].bssid))
       ELSE state' = "Ready" /\ UNCHANGED data_queue
    /\ IF CommandSlotFree /\ DataSlotFree
       THEN /\ EnterLoop("auth")
            /\ target' = results[i].bssid
            /\ results' = <<>>
            /\ UNCHANGED <<want, hs_ptk>>
       ELSE Return
    /\ UNCHANGED <<mac_addr, linkVars, stations, fw_key,
                   historyVars>>

-----------------------------------------------------------------------------
WaitAgain(loop) ==
    /\ TimedOut(loop)
    /\ EnterLoop(loop)
    /\ UNCHANGED <<state, mac_addr, linkVars, cmdVars, data_queue, want, results,
                   target, hs_ptk, historyVars>>

WaitTimeout(loop) ==
    /\ TimedOut(loop)
    /\ Return
    /\ UNCHANGED <<state, mac_addr, linkVars, cmdVars, data_queue, historyVars>>

(* The association request, then AddStation, before the response is in. *)
AuthReceived ==
    /\ Waiting("auth")
    /\ state' = "Associating"
    /\ TransmitFrame(Mgmt("AssocRequest", target))
    /\ IF DataSlotFree THEN SendCommand ELSE UNCHANGED <<cmd_seq, cmd_queue>>
    /\ IF DataSlotFree /\ CommandSlotFree
       THEN /\ stations' = stations \union {target}
            /\ EnterLoop("assoc")
            /\ UNCHANGED <<want, results, target, hs_ptk>>
       ELSE UNCHANGED stations /\ Return
    /\ UNCHANGED <<mac_addr, linkVars, fw_key, historyVars>>

AssocReceived ==
    /\ Waiting("assoc")
    /\ state' = "Handshaking"
    /\ EnterLoop("msg1")
    /\ UNCHANGED <<mac_addr, linkVars, cmdVars, data_queue, want, results,
                   target, hs_ptk, historyVars>>

(* EapolKeyFrame::parse reads from the first byte of the buffer, so a      *)
(* message inside a data frame is not recognised.                          *)
IsMessage(f, n) == f.kind = "Eapol" /\ f.msg = n /\ ~ f.in_data

Message(loop) == IF loop = "msg1" THEN 1 ELSE 3

EapolIgnore(loop) ==
    /\ PollAgain(loop)
    /\ \E f \in Frames :
          /\ ~ IsMessage(f, Message(loop))
          /\ eapol_missed' =
                (eapol_missed \/ (f.kind = "Eapol" /\ f.msg = Message(loop)))
    /\ UNCHANGED results

DataFrames == {i \in DOMAIN data_queue : data_queue[i].kind = "Data"}

UsedKeys == {data_queue[i].key : i \in DataFrames}

(* The driver takes any message 1: a new one, one sent again on the air,   *)
(* or one read again after a lap of the receive ring.  A nonce that comes  *)
(* back for the same access point and address brings its key back.         *)
Msg1Received(f) ==
    LET key == [bssid |-> target, mac |-> mac_addr, anonce |-> f.anonce] IN
    /\ Waiting("msg1")
    /\ IsMessage(f, 1)
    /\ TransmitFrame(Mgmt("Msg2", target))
    /\ rederived' = rederived \union ({key} \intersect UsedKeys)
    /\ IF DataSlotFree
       THEN /\ hs_ptk' = key
            /\ EnterLoop("msg3")
            /\ UNCHANGED <<want, results, target>>
       ELSE Return
    /\ UNCHANGED <<state, mac_addr, linkVars, cmdVars, eapol_missed>>

FirstPtkStays == IF ptk = None THEN hs_ptk ELSE ptk

NewPtk == hs_ptk

(* Message 4, the keys, and the connection is up. *)
Msg3Received ==
    /\ Waiting("msg3")
    /\ TransmitFrame(Mgmt("Msg4", target))
    /\ IF DataSlotFree
       THEN ptk' = NewPtk /\ SendCommand
       ELSE UNCHANGED <<ptk, cmd_seq, cmd_queue>>
    /\ IF DataSlotFree /\ CommandSlotFree
       THEN /\ fw_key' = hs_ptk
            /\ state' = "Connected"
            /\ connected_bssid' = target
       ELSE UNCHANGED <<fw_key, state, connected_bssid>>
    /\ Return
    /\ UNCHANGED <<mac_addr, ccmp_pn, stations, historyVars>>

-----------------------------------------------------------------------------
FrameSentAtLeast == DataSlotFree

BothSent == DataSlotFree /\ CommandSlotFree

(* The disassociation frame, then RemoveStation; the link is forgotten     *)
(* only when both rings took them.                                         *)
Disconnect ==
    /\ pc = "idle"
    /\ state = "Connected"
    /\ TransmitFrame(Mgmt("Disassoc", connected_bssid))
    /\ IF DataSlotFree THEN SendCommand ELSE UNCHANGED <<cmd_seq, cmd_queue>>
    /\ IF DataSlotFree /\ CommandSlotFree
       THEN stations' = {} /\ fw_key' = None
       ELSE UNCHANGED <<stations, fw_key>>
    /\ IF BothSent
       THEN state' = "Disconnected" /\ ptk' = None /\ ccmp_pn' = 0
       ELSE UNCHANGED <<state, ptk, ccmp_pn>>
    /\ UNCHANGED <<mac_addr, connected_bssid, callVars,
                   historyVars>>

PnWithinMask == (ccmp_pn + 1) % MaxPn

NextPn == ccmp_pn + 1

HasPtk == ptk # None

MayTransmit == state = "Connected" /\ ptk # None

(* The packet number enters the nonce before it is incremented and the     *)
(* CCMP header after; it is spent even if the ring is full.                *)
Transmit ==
    /\ pc = "idle"
    /\ MayTransmit
    /\ ccmp_pn < MaxPn
    /\ ccmp_pn' = NextPn
    /\ TransmitFrame([kind |-> "Data", bssid |-> connected_bssid, key |-> ptk,
                      nonce_pn |-> ccmp_pn, hdr_pn |-> NextPn])
    /\ UNCHANGED <<state, mac_addr, connected_bssid, ptk, cmdVars, callVars,
                   historyVars>>

-----------------------------------------------------------------------------
UserCall ==
    \/ \E uploaded \in BOOLEAN : LoadFirmware(uploaded)
    \/ \E ssid \in Ssids \union {None} : StartScan(ssid)
    \/ Disconnect
    \/ Transmit

LoadStep ==
    \/ \E loop \in {"alive", "nvm"} : Ignore(loop)
    \/ AliveReceived
    \/ AliveTimeout
    \/ \E f \in Frames : NvmReceived(f)
    \/ NvmTimeout

ConnectStep ==
    \/ ScanPoll
    \/ ScanEnds
    \/ \E i \in DOMAIN results : StartAuthentication(i)
    \/ \E loop \in {"auth", "assoc"} : Ignore(loop)
    \/ \E loop \in {"msg1", "msg3"} : EapolIgnore(loop)
    \/ \E loop \in {"auth", "assoc", "msg1", "msg3"} : WaitTimeout(loop)
    \/ AuthReceived
    \/ AssocReceived
    \/ \E f \in Frames : Msg1Received(f)
    \/ Msg3Received

DriverStep == LoadStep \/ ConnectStep

Next == UserCall \/ DriverStep

(* The driver's thread runs: a call in progress takes its next step. *)
Spec == Init /\ [][Next]_vars /\ WF_vars(DriverStep)

-----------------------------------------------------------------------------
FrameTypes ==
    [kind : {"Auth", "AssocRequest", "Msg2", "Msg4", "Disassoc"}, bssid : Bssids]
    \union [kind : {"Data"}, bssid : Bssids, key : Ptks, nonce_pn : Nat,
            hdr_pn : Nat]

TypeOK ==
    /\ state \in WifiState
    /\ mac_addr \in Macs
    /\ connected_bssid \in Bssids \union {None}
    /\ ptk \in Ptks \union {None}
    /\ ccmp_pn \in Nat
    /\ cmd_seq \in 0 .. SEQ_MOD - 1
    /\ cmd_queue \in Seq(0 .. SEQ_MOD - 1)
    /\ data_queue \in Seq(FrameTypes)
    /\ pc \in {"idle", "alive", "nvm", "scan", "auth", "assoc", "msg1", "msg3"}
    /\ polls \in 0 .. MaxPolls
    /\ want \in Ssids \union {None}
    /\ results \in Seq(Networks)
    /\ target \in Bssids \union {None}
    /\ hs_ptk \in Ptks \union {None}
    /\ stations \subseteq Bssids
    /\ fw_key \in Ptks \union {None}
    /\ rederived \subseteq Ptks
    /\ eapol_missed \in BOOLEAN

(* The firmware never has two stations, although AddStation is sent before *)
(* the response and a failed connect never sends RemoveStation; and while  *)
(* the driver is connected, a station it still has is the connected access *)
(* point's and is keyed with the driver's PTK (connect, disconnect,        *)
(* load_firmware: driver.rs).                                              *)
StationMatchesLink ==
    /\ Cardinality(stations) <= 1
    /\ stations # {} => state \in {"Associating", "Handshaking", "Connected"}
    /\ state = "Connected" /\ stations # {} =>
          stations = {connected_bssid} /\ fw_key = ptk
    /\ fw_key # None => state = "Connected"

(* Connected means a whole handshake was run for this access point and     *)
(* this address, whatever reload, refused command or repeated scan came in *)
(* between (connect, disconnect, read_mac_address: driver.rs).             *)
ConnectedHasKey ==
    state = "Connected" =>
        /\ ptk # None
        /\ ptk.bssid = connected_bssid
        /\ ptk.mac = mac_addr

(* The n-th command in the ring carries sequence number n - 1, so the      *)
(* number also names the descriptor: a refused command spends a number     *)
(* only when the ring is full for good (send_command, driver.rs).          *)
CommandSeqIsIndex ==
    \A i \in DOMAIN cmd_queue : cmd_queue[i] = i - 1

(* The kinds of frame that may come right before one of kind k. *)
MayPrecede(k) ==
    CASE k = "AssocRequest" -> {"Auth"}
      [] k = "Msg2" -> {"AssocRequest"}
      [] k = "Msg4" -> {"Msg2"}
      [] k \in {"Data", "Disassoc"} -> {"Msg4", "Data", "Disassoc"}

(* On the data ring every exchange appears in the order of the protocol    *)
(* and with one access point: association after authentication, the        *)
(* handshake after association, data and disassociation only after the     *)
(* handshake (connect, transmit, disconnect: driver.rs).                   *)
FramesInProtocolOrder ==
    \A i \in DOMAIN data_queue :
        data_queue[i].kind = "Auth"
        \/ /\ i > 1
           /\ data_queue[i - 1].kind \in MayPrecede(data_queue[i].kind)
           /\ data_queue[i - 1].bssid = data_queue[i].bssid

(* Every public call returns: each wait loop is bounded and no chain of    *)
(* waits goes round (the wait_for_ functions and connect, driver.rs).      *)
EveryCallReturns == pc # "idle" ~> pc = "idle"

-----------------------------------------------------------------------------
LinkState ==
    IF state = "Connected"
    THEN [bssid |-> connected_bssid, key |-> ptk, next |-> ccmp_pn]
    ELSE None

Sent == {[key |-> data_queue[i].key, pn |-> data_queue[i].nonce_pn, at |-> i] :
            i \in DataFrames}

Link == INSTANCE SecureLink WITH
    Keys <- Ptks,
    PacketNumbers <- 0 .. MaxPn,
    Places <- 1 .. TFD_QUEUE_SIZE - 1,
    NoLink <- None,
    link <- LinkState,
    sent <- Sent,
    returned <- rederived

(* Data leaves only while connected, under the link's own key and with     *)
(* packet numbers that rise from frame to frame; a key never serves two    *)
(* links and a number is never used twice under it, unless a message 1     *)
(* brought back the nonce of a key already used.  This across reconnects,  *)
(* reloads and full rings (do_4way_handshake, connect, disconnect,         *)
(* transmit: driver.rs).                                                   *)
ImplementsSecureLink == Link!Spec

-----------------------------------------------------------------------------
(* wpa.rs:582 says of CcmpNonce.pn: "Packet number (48-bit, little-endian  *)
(* in CCMP header)".  transmit puts the next number into the header.       *)
HeaderPnMatchesNonce ==
    \A i \in DataFrames : data_queue[i].hdr_pn = data_queue[i].nonce_pn

(* driver.rs:590 says "EAPOL frames arrive as data frames".  The message   *)
(* in a data frame is the one wait_for_eapol throws away.                  *)
AwaitedEapolTaken == ~ eapol_missed
=============================================================================
