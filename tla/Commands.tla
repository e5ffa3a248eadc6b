------------------------------ MODULE Commands ------------------------------
(***************************************************************************)
(* Host commands as bytes (src/src/commands.rs).  The firmware is external *)
(* and reads each field at its place in the layout.                        *)
(***************************************************************************)
EXTENDS Integers, Sequences, SequencesExt

CONSTANTS
    ChannelLists,       \* channels of a scan's configuration
    ScanNames,          \* SSIDs of an active scan, as bytes
    Keys,
    Seqs                \* sequence numbers

(* A u8 and a u16. *)
Octets == 0 .. 255
Words == 0 .. 65535

ASSUME CommandAssumption ==
    /\ ChannelLists \union ScanNames \union Keys \subseteq Seq(Octets)
    /\ \A channels \in ChannelLists : Len(channels) <= 255
    /\ \A k \in Keys : Len(k) <= 32
    /\ Seqs \subseteq Words

VARIABLES
    asked,              \* what the driver asks for
    command             \* the bytes in the ring

commandVars == <<asked, command>>

NVM_ACCESS == 136
PHY_CONTEXT == 8
SCAN_UMAC == 12
ADD_STATION == 24
REMOVE_STATION == 25
ADD_KEY == 14

Bytes16(n) == <<n % 256, n \div 256>>
Fill(n) == [i \in 1 .. n |-> 0]
Shorter(m, n) == IF m <= n THEN m ELSE n

Serialize(id, seq, data) == <<id, 0>> \o Bytes16(seq) \o Bytes16(Len(data)) \o data

NvmReadCmd(section, offset, length) ==
    Bytes16(section) \o Bytes16(offset) \o Bytes16(length) \o Fill(2)

PhyContextCmd(band, channel, width) ==
    <<1, 0, 0, 0, band, channel, width, 0>> \o <<3, 0, 0, 0>> \o Fill(4)

(* Slip: the length byte is taken for one of the name's. *)
PaddedTo33(name) == Fill(33 - Shorter(Len(name), 32))

NamePadding(name) == Fill(32 - Shorter(Len(name), 32))

PaddedKeyField(key) == key \o Fill(32 - Len(key))

NameField(name) ==
    LET ssid_len == Shorter(Len(name), 32)
    IN  <<ssid_len>> \o SubSeq(name, 1, ssid_len) \o NamePadding(name)

ScanCmd(channels, active, name) ==
    <<IF active THEN 1 ELSE 0, 0, 0, 0>> \o <<Len(channels), 0, 0, 0>>
        \o (IF active THEN NameField(name) ELSE Fill(33))
        \o FlattenSeq([i \in DOMAIN channels |-> <<channels[i], 0>> \o Bytes16(100)])

(* ScanConfig::channels_to_scan: 1 to 14, then three bands of 5 GHz. *)
ChannelsToScan(channels) ==
    IF channels # <<>> THEN channels
    ELSE [i \in 1 .. 14 |-> i] \o <<36, 40, 44, 48>> \o <<52, 56, 60, 64>>
            \o <<149, 153, 157, 161, 165>>

AddStationCmd(bssid, station_id) == <<station_id, 0, 0, 0>> \o bssid \o Fill(2) \o Fill(20)

AddKeyCmd(station_id, key_id, algorithm, key) ==
    <<station_id, key_id, algorithm, Len(key)>> \o PaddedKeyField(key) \o Fill(12)

-----------------------------------------------------------------------------
Bssid == <<2, 3, 5, 7, 11, 13>>
Idle == [id |-> 0]

CommandsInit == asked = Idle /\ command = <<>>

Ask(request, seq, data) ==
    /\ asked = Idle
    /\ asked' = request
    /\ command' = Serialize(request.id, seq, data)

NvmRead(seq) ==
    Ask([id |-> NVM_ACCESS, seq |-> seq], seq, NvmReadCmd(3, 0, 6))

Band(channel) == IF channel <= 14 THEN 0 ELSE 1

PhyContext(seq, channel) ==
    Ask([id |-> PHY_CONTEXT, seq |-> seq, channel |-> channel], seq,
        PhyContextCmd(Band(channel), channel, 0))

AskScan(seq, channels, active, name) ==
    Ask([id |-> SCAN_UMAC, seq |-> seq, channels |-> channels,
         active |-> active, name |-> name],
        seq, ScanCmd(ChannelsToScan(channels), active, name))

AddStation(seq) ==
    Ask([id |-> ADD_STATION, seq |-> seq], seq, AddStationCmd(Bssid, 0))

RemoveStation(seq) == Ask([id |-> REMOVE_STATION, seq |-> seq], seq, <<>>)

AddKey(seq, key) ==
    Ask([id |-> ADD_KEY, seq |-> seq, key |-> key], seq, AddKeyCmd(0, 0, 3, key))

CommandsNext ==
    \E seq \in Seqs :
        \/ NvmRead(seq)
        \/ \E channel \in {0, 1, 14, 36, 165} : PhyContext(seq, channel)
        \/ \E channels \in ChannelLists, name \in ScanNames, active \in BOOLEAN :
              AskScan(seq, channels, active, name)
        \/ AddStation(seq) \/ RemoveStation(seq)
        \/ \E key \in Keys : AddKey(seq, key)

CommandsSpec == CommandsInit /\ [][CommandsNext]_commandVars

-----------------------------------------------------------------------------
(* The firmware's reading.  Offsets are those of the layout, from one. *)
Word(data, i) == data[i] + 256 * data[i + 1]
Payload == SubSeq(command, 7, Len(command))
Zeroed(data, m, n) == \A i \in m .. n : data[i] = 0

ReadsName(name, field) ==
    /\ field[1] <= 32
    /\ SubSeq(field, 2, 1 + field[1]) = SubSeq(name, 1, field[1])
    /\ field[1] < Len(name) => field[1] = 32
    /\ Zeroed(field, field[1] + 2, 33)

(* The channel's entry: number, band, and two bytes of dwell time. *)
Entry(k) == 38 + 4 * k

ReadsScan(data) ==
    LET channels == ChannelsToScan(asked.channels)
    IN  /\ data[1] = 1 <=> asked.active
        /\ data[1] \in {0, 1} /\ Zeroed(data, 2, 4)
        /\ data[5] = Len(channels) /\ Zeroed(data, 6, 8)
        /\ ReadsName(IF asked.active THEN asked.name ELSE <<>>, SubSeq(data, 9, 41))
        /\ Len(data) = 41 + 4 * data[5]
        /\ \A k \in DOMAIN channels :
              /\ data[Entry(k)] = channels[k]
              /\ Band(channels[k]) = 0 => data[Entry(k) + 1] = 0
              /\ Word(data, Entry(k) + 2) = 100

(* One context to add at once, 20 MHz wide, on both chains. *)
ReadsPhyContext(data) ==
    data = <<1, 0, 0, 0, IF asked.channel \in 0 .. 14 THEN 0 ELSE 1, asked.channel, 0, 0,
             3, 0, 0, 0, 0, 0, 0, 0>>

ReadsAddStation(data) ==
    /\ Len(data) = 32 /\ Zeroed(data, 1, 4)
    /\ SubSeq(data, 5, 10) = Bssid /\ Zeroed(data, 11, 32)

ReadsAddKey(data) ==
    /\ Len(data) = 48
    /\ SubSeq(data, 1, 3) = <<0, 0, 3>>
    /\ SubSeq(data, 5, 4 + data[4]) = asked.key
    /\ Zeroed(data, 5 + data[4], 48)

(* Every command has its number, and the length and the fields the layout  *)
(* gives it, wherever a name or a list of any length comes before them: a  *)
(* name of 32 bytes or more leaves the channels where they were.  The band *)
(* of a scan's channel is read for 2.4 GHz only: a channel of 5 GHz is     *)
(* announced in the same one, which scan_cmd itself marks as still to do   *)
(* (serialize and the builders, commands.rs; the mark at commands.rs:283). *)
CommandsReadBack ==
    asked # Idle =>
        /\ command[1] = asked.id /\ command[2] = 0
        /\ Word(command, 3) = asked.seq
        /\ Word(command, 5) = Len(Payload)
        /\ asked.id = NVM_ACCESS => Payload = <<3, 0, 0, 0, 6, 0, 0, 0>>
        /\ asked.id = PHY_CONTEXT => ReadsPhyContext(Payload)
        /\ asked.id = SCAN_UMAC => ReadsScan(Payload)
        /\ asked.id = ADD_STATION => ReadsAddStation(Payload)
        /\ asked.id = REMOVE_STATION => Payload = <<>>
        /\ asked.id = ADD_KEY => ReadsAddKey(Payload)
=============================================================================
