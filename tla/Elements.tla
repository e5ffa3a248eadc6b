------------------------------ MODULE Elements ------------------------------
(***************************************************************************)
(* 802.11 frames as bytes (src/src/ieee80211.rs).  A management frame is   *)
(* built here from the header and the elements it should hold and may be   *)
(* cut anywhere; MacHeader::parse, IeIterator and parse_beacon walk over   *)
(* it.  The frames the driver builds are read back with the same reader.   *)
(***************************************************************************)
EXTENDS Integers, Sequences, SequencesExt

CONSTANTS
    MacHeaders,         \* [type, subtype, to_ds, from_ds] of arriving frames
    ElementIds, Payloads,
    MaxElements,        \* bound: elements of a frame
    Names,              \* SSIDs connect may ask for, as bytes
    PacketNumbers

(* A payload byte is ASCII or 255, which UTF-8 never has. *)
PayloadBytes == 0 .. 127 \union {255}

(* A length is a byte, that of a name too, as it comes from an element of  *)
(* a scan.                                                                 *)
ASSUME ElementAssumption ==
    /\ MacHeaders \subseteq [type : 0 .. 3, subtype : 0 .. 15,
                             to_ds : BOOLEAN, from_ds : BOOLEAN]
    /\ ElementIds \subseteq 0 .. 255
    /\ \A p \in Payloads : p \in Seq(PayloadBytes) /\ Len(p) <= 255
    /\ \A name \in Names : name \in Seq(0 .. 255) /\ Len(name) <= 255
    /\ MaxElements \in Nat /\ PacketNumbers \subseteq Nat

VARIABLES
    mac, privacy, elements,     \* what was sent
    frame,                      \* what arrived of it
    walk_pc, at, beacon,        \* parse_beacon
    built                       \* the last frame the driver built

walkVars == <<walk_pc, at, beacon>>
elementVars == <<mac, privacy, elements, frame, walk_pc, at, beacon, built>>

MANAGEMENT == 0
DATA == 2
SSID == 0
SUPPORTED_RATES == 1
DS_PARAMETER_SET == 3
RSN == 48

Addr(n) == [i \in 1 .. 6 |-> n]
Set(flag, bit) == IF flag THEN bit ELSE 0

-----------------------------------------------------------------------------
(* The frame as it is sent. *)
ElementBytes(e) == <<e.id, Len(e.data)>> \o e.data

HeaderBytes ==
    <<4 * mac.type + 16 * mac.subtype, Set(mac.to_ds, 1) + Set(mac.from_ds, 2), 0, 0>>
        \o Addr(1) \o Addr(2) \o Addr(3) \o <<0, 0>>
        \o (IF mac.to_ds /\ mac.from_ds THEN Addr(4) ELSE <<>>)
        \o (IF mac.type = DATA /\ mac.subtype >= 8 THEN <<5, 0>> ELSE <<>>)

FixedBytes == [i \in 1 .. 8 |-> RSN] \o <<100, 0, Set(privacy, 16), 0>>

FrameOf(es) ==
    HeaderBytes \o FixedBytes \o FlattenSeq([n \in DOMAIN es |-> ElementBytes(es[n])])

SentBytes == FrameOf(elements)

(* The n-th element starts where a frame of those before it would end. *)
ElementStart(n) == Len(FrameOf(SubSeq(elements, 1, n - 1)))

-----------------------------------------------------------------------------
(* MacHeader::parse. *)
FrameType(data) == (data[1] \div 4) % 4
Subtype(data) == data[1] \div 16
ToDs(data) == data[2] % 2 = 1
FromDs(data) == (data[2] \div 2) % 2 = 1
Protected(data) == (data[2] \div 64) % 2 = 1
IsQos(data) == FrameType(data) = DATA /\ Subtype(data) >= 8

(* A slip: the first name stands.                                          *)
FirstNameStays(known, ie) == ie.id = SSID /\ known.ssid = <<>>

HeaderLen(data) ==
    (IF ToDs(data) /\ FromDs(data) THEN 30 ELSE 24) + (IF IsQos(data) THEN 2 ELSE 0)

HeaderIsWhole(data) == Len(data) >= 24 /\ Len(data) >= HeaderLen(data)

MacHeader(data) ==
    [addr1 |-> SubSeq(data, 5, 10), addr2 |-> SubSeq(data, 11, 16),
     addr3 |-> SubSeq(data, 17, 22), seq_ctrl |-> data[23] + 256 * data[24],
     qos_ctrl |-> IF IsQos(data) THEN data[HeaderLen(data) - 1] + 256 * data[HeaderLen(data)]
                                 ELSE 0]

(* IeIterator::next. *)
HasElement(data, offset) ==
    /\ offset + 2 <= Len(data)
    /\ offset + 2 + data[offset + 2] <= Len(data)

ElementAt(data, offset) ==
    [id |-> data[offset + 1], data |-> SubSeq(data, offset + 3, offset + 2 + data[offset + 2])]

After(offset, ie) == offset + 2 + Len(ie.data)

(* parse_beacon. *)
IsUtf8(bytes) == \A i \in DOMAIN bytes : bytes[i] < 128

TakesName(known, ie) == ie.id = SSID /\ IsUtf8(ie.data)

Read(known, ie) ==
    [known EXCEPT
        !.ssid = IF TakesName(known, ie) THEN ie.data ELSE @,
        !.channel = IF ie.id = DS_PARAMETER_SET /\ ie.data # <<>> THEN ie.data[1] ELSE @,
        !.has_rsn = @ \/ ie.id = RSN]

NoBeacon == [bssid |-> Addr(0), ssid |-> <<>>, channel |-> 0, beacon_interval |-> 0,
             capability |-> 0, has_rsn |-> FALSE, is_open |-> FALSE]

ParseStart ==
    /\ walk_pc = "start"
    /\ IF HeaderIsWhole(frame) /\ Len(frame) >= HeaderLen(frame) + 12
       THEN LET body == HeaderLen(frame)
            IN  /\ walk_pc' = "walk"
                /\ at' = body + 12
                /\ beacon' = [NoBeacon EXCEPT
                        !.bssid = MacHeader(frame).addr3,
                        !.beacon_interval = frame[body + 9] + 256 * frame[body + 10],
                        !.capability = frame[body + 11] + 256 * frame[body + 12]]
       ELSE /\ walk_pc' = "none"
            /\ UNCHANGED <<at, beacon>>
    /\ UNCHANGED <<mac, privacy, elements, frame, built>>

NextElement ==
    /\ walk_pc = "walk"
    /\ HasElement(frame, at)
    /\ beacon' = Read(beacon, ElementAt(frame, at))
    /\ at' = After(at, ElementAt(frame, at))
    /\ UNCHANGED <<mac, privacy, elements, frame, walk_pc, built>>

ElementsEnd ==
    /\ walk_pc = "walk"
    /\ ~ HasElement(frame, at)
    /\ walk_pc' = "parsed"
    /\ beacon' = [beacon EXCEPT
            !.is_open = (beacon.capability \div 16) % 2 = 0 /\ ~ beacon.has_rsn]
    /\ UNCHANGED <<mac, privacy, elements, frame, at, built>>

-----------------------------------------------------------------------------
(* What the driver builds: bssid is Addr(3), its own address Addr(2). *)
Mac(type, subtype, flags, dst, seq_ctrl) ==
    <<4 * type + 16 * subtype, flags, 0, 0>> \o Addr(3) \o Addr(2) \o dst
        \o <<seq_ctrl % 256, seq_ctrl \div 256>>

RsnIeData == <<1, 0, 0, 15, 172, 4, 1, 0, 0, 15, 172, 4, 1, 0, 0, 15, 172, 2, 0, 0>>
Rates == <<130, 132, 139, 150, 12, 18, 24, 36>>

(* Slip: an element without its length, as driver.rs has it in message 2.  *)
Unmeasured(id, data) == <<id>> \o data

Measured(id, data) == <<id, Len(data) % 256>> \o data

SeqCtrl(seq_num) == (16 * seq_num) % 65536

AuthFrame == Mac(MANAGEMENT, 11, 0, Addr(3), 0) \o <<0, 0, 1, 0, 0, 0>>

AssocRequest(name) ==
    Mac(MANAGEMENT, 0, 0, Addr(3), 0) \o <<49, 4, 10, 0>>
        \o <<SSID, Len(name) % 256>> \o name
        \o <<SUPPORTED_RATES, Len(Rates)>> \o Rates
        \o Measured(RSN, RsnIeData)

DisassocFrame == Mac(MANAGEMENT, 10, 0, Addr(3), 0) \o <<3, 0>>

QosDataHeader(dst, seq_num, tid) ==
    Mac(DATA, 8, 1 + 64, dst, SeqCtrl(seq_num)) \o <<tid, 0>>

Nothing == [kind |-> "none"]

BuildAuth == built' = [kind |-> "auth", frame |-> AuthFrame]

BuildDisassoc == built' = [kind |-> "disassoc", frame |-> DisassocFrame]

BuildAssoc(name) == built' = [kind |-> "assoc", name |-> name, frame |-> AssocRequest(name)]

(* transmit passes the low bits of the packet number. *)
BuildQos(pn) ==
    built' = [kind |-> "qos", pn |-> pn, frame |-> QosDataHeader(Addr(5), pn % 4096, 0)]

Build ==
    /\ built = Nothing
    /\ BuildAuth \/ BuildDisassoc
                 \/ (\E name \in Names : BuildAssoc(name))
                 \/ (\E pn \in PacketNumbers : BuildQos(pn))
    /\ UNCHANGED <<mac, privacy, elements, frame, walk_pc, at, beacon>>

ElementsInit ==
    /\ mac \in MacHeaders
    /\ privacy \in BOOLEAN
    /\ elements \in SeqOf([id : ElementIds, data : Payloads], MaxElements)
    /\ \E cut \in 0 .. Len(SentBytes) : frame = SubSeq(SentBytes, 1, cut)
    /\ walk_pc = "start"
    /\ at = 0
    /\ beacon = NoBeacon
    /\ built = Nothing

ElementsNext == ParseStart \/ NextElement \/ ElementsEnd

ElementsSpec == ElementsInit /\ [][ElementsNext \/ Build]_elementVars

-----------------------------------------------------------------------------
(* The elements that arrived whole. *)
Arrived == {n \in DOMAIN elements : ElementStart(n + 1) <= Len(frame)}

LastOf(found, otherwise) ==
    IF found = {} THEN otherwise
    ELSE elements[CHOOSE n \in found : \A k \in found : k <= n].data

(* Wherever the frame was cut and whatever fields its header has, a beacon *)
(* says what the elements say that arrived whole: the last name that is    *)
(* text, the last channel that is not empty, RSN if there is one, and open *)
(* only with neither RSN nor privacy.  It is refused exactly when its      *)
(* fixed part is cut (parse_beacon, MacHeader::parse, ieee80211.rs).       *)
BeaconAsSent ==
    /\ walk_pc = "parsed" =>
          /\ beacon.bssid = Addr(3)
          /\ beacon.beacon_interval = 100
          /\ beacon.ssid = LastOf({n \in Arrived : /\ elements[n].id = SSID
                                                   /\ IsUtf8(elements[n].data)}, <<>>)
          /\ beacon.channel = LastOf({n \in Arrived : /\ elements[n].id = DS_PARAMETER_SET
                                                      /\ elements[n].data # <<>>}, <<0>>)[1]
          /\ beacon.has_rsn <=> \E n \in Arrived : elements[n].id = RSN
          /\ beacon.is_open <=> ~ privacy /\ ~ beacon.has_rsn
    /\ walk_pc = "none" => Len(frame) < Len(HeaderBytes) + 12
    /\ walk_pc \in {"walk", "parsed"} => Len(frame) >= Len(HeaderBytes) + 12

ElementsFrom(data, start) ==
    LET found[offset \in 0 .. Len(data)] ==
            IF HasElement(data, offset)
            THEN <<ElementAt(data, offset)>> \o found[After(offset, ElementAt(data, offset))]
            ELSE <<>>
    IN  found[start]

(* What the driver builds is what its own reader, and so an access point,  *)
(* reads: the addresses, every element once and whole, and a sequence      *)
(* number that follows the packet number as it comes round                 *)
(* (build_auth_frame, build_assoc_request, build_qos_data_header,          *)
(* ieee80211.rs, and disconnect, driver.rs).                               *)
BuiltFramesReadBack ==
    built # Nothing =>
        /\ HeaderIsWhole(built.frame)
        /\ MacHeader(built.frame).addr1 = Addr(3)
        /\ MacHeader(built.frame).addr2 = Addr(2)
        /\ built.kind = "auth" =>
              /\ FrameType(built.frame) = MANAGEMENT /\ Subtype(built.frame) = 11
              /\ MacHeader(built.frame).addr3 = Addr(3)
              /\ Len(built.frame) = HeaderLen(built.frame) + 6
        /\ built.kind = "disassoc" =>
              /\ FrameType(built.frame) = MANAGEMENT /\ Subtype(built.frame) = 10
              /\ MacHeader(built.frame).addr3 = Addr(3)
              /\ Len(built.frame) = HeaderLen(built.frame) + 2
        /\ built.kind = "assoc" =>
              /\ FrameType(built.frame) = MANAGEMENT /\ Subtype(built.frame) = 0
              /\ MacHeader(built.frame).addr3 = Addr(3)
              /\ ElementsFrom(built.frame, HeaderLen(built.frame) + 4) =
                    <<[id |-> SSID, data |-> built.name],
                      [id |-> SUPPORTED_RATES, data |-> Rates],
                      [id |-> RSN, data |-> RsnIeData]>>
        /\ built.kind = "qos" =>
              /\ IsQos(built.frame) /\ ToDs(built.frame) /\ ~ FromDs(built.frame)
              /\ Protected(built.frame)
              /\ MacHeader(built.frame).addr3 = Addr(5)
              /\ MacHeader(built.frame).seq_ctrl \div 16 = built.pn % 4096
              /\ MacHeader(built.frame).seq_ctrl % 16 = 0
              /\ Len(built.frame) = HeaderLen(built.frame)
=============================================================================
