------------------------------ MODULE Firmware ------------------------------
(***************************************************************************)
(* parse_firmware and upload_to_device (src/src/firmware.rs): the walk     *)
(* over the type-length-value entries of a .ucode image, and the copy of   *)
(* the instruction section into the device.  An image is built here from   *)
(* the entries it should hold, in either of two layouts, and may be cut    *)
(* short anywhere.  A section is the slice of the image it is.             *)
(***************************************************************************)
EXTENDS Integers, Sequences, SequencesExt

CONSTANTS
    Types,              \* entry types
    Lengths,            \* payload lengths
    MaxEntries          \* bound: entries of an image

(* A u32 in four bytes, little end first. *)
U32Bytes(n) ==
    LET b == n \div 256
        c == b \div 256
    IN  <<n % 256, b % 256, c % 256, c \div 256>>

(* 1 is the type of the instruction section. *)
ASSUME WordAssumption ==
    /\ \A n \in Types \union Lengths : n \in Nat /\ U32Bytes(n)[4] <= 255
    /\ 1 \in Types
ASSUME EntriesAssumption == MaxEntries \in Nat

VARIABLES
    begin,              \* the image: where its entries begin,
    entries, good_magic, data,  \* what it holds, and its bytes
    pc, offset,
    section             \* last payload of each type, [from, len]

firmwareVars == <<begin, entries, good_magic, data, pc, offset, section>>
image == <<begin, entries, good_magic, data>>

HEADER == 24
INST == 1

(* Where the entries begin by the module's own table (firmware.rs:31). *)
DOCUMENTED == 20

Align4(n) == 4 * ((n + 3) \div 4)

Empty == [from |-> 0, len |-> 0]

-----------------------------------------------------------------------------
(* The image file.  Payload bytes read as entries of type 1 and length 1,  *)
(* so a walk that loses its place finds sections that are not there.       *)
EntryBytes(e) ==
    U32Bytes(e.type) \o U32Bytes(e.len)
        \o [i \in 1 .. Align4(e.len) |-> IF i % 4 = 1 THEN 1 ELSE 0]

FileBytes(start, es) ==
    [i \in 1 .. start |-> 0]
        \o FlattenSeq([i \in DOMAIN es |-> EntryBytes(es[i])])

(* The n-th entry starts where a file of those before it would end. *)
Start(start, es, n) == Len(FileBytes(start, SubSeq(es, 1, n - 1)))

-----------------------------------------------------------------------------
FirmwareInit ==
    /\ begin \in {HEADER, DOCUMENTED}
    /\ entries \in SeqOf([type : Types, len : Lengths], MaxEntries)
    /\ good_magic \in BOOLEAN
    /\ \E cut \in 0 .. Len(FileBytes(begin, entries)) :
          data = SubSeq(FileBytes(begin, entries), 1, cut)
    /\ pc = "header"
    /\ offset = 0
    /\ section = [t \in Types |-> Empty]

ReadHeader ==
    /\ pc = "header"
    /\ IF Len(data) < HEADER \/ ~ good_magic
       THEN pc' = "none" /\ UNCHANGED offset
       ELSE pc' = "walk" /\ offset' = HEADER
    /\ UNCHANGED <<image, section>>

U32(at) ==
    data[at + 1] + 256 * (data[at + 2] + 256 * (data[at + 3] + 256 * data[at + 4]))

(* A slip of the walk: the last entry must have its padding.               *)
PastPadding(from, len) == from + Align4(len) <= Len(data)

Advance(len) == Align4(len)

FitsIn(from, len) == from + len <= Len(data)

(* One turn of the loop. *)
WalkEntry ==
    /\ pc = "walk"
    /\ offset + 8 <= Len(data)
    /\ LET type == U32(offset)
           len == U32(offset + 4)
       IN  IF FitsIn(offset + 8, len)
           THEN /\ section' = [t \in Types |->
                                IF t = type THEN [from |-> offset + 8, len |-> len]
                                            ELSE section[t]]
                /\ offset' = offset + 8 + Advance(len)
                /\ UNCHANGED pc
           ELSE /\ pc' = "walked"
                /\ offset' = offset + 8
                /\ UNCHANGED section
    /\ UNCHANGED image

(* A slip of the loop: it is left only exactly at the end of the file. *)
WalkEndsAtEof ==
    /\ pc = "walk"
    /\ offset = Len(data)
    /\ pc' = "walked"
    /\ UNCHANGED <<image, offset, section>>

WalkEnds ==
    /\ pc = "walk"
    /\ offset + 8 > Len(data)
    /\ pc' = "walked"
    /\ UNCHANGED <<image, offset, section>>

ParseEnds ==
    /\ pc = "walked"
    /\ pc' = IF section[INST].len = 0 THEN "none" ELSE "parsed"
    /\ UNCHANGED <<image, offset, section>>

(* upload_to_device stages the section and has the device copy it, waiting *)
(* a bounded time for the status bit.  How much is copied is left out.     *)
Upload(completes) ==
    /\ pc = "parsed"
    /\ pc' = IF completes THEN "uploaded" ELSE "timed_out"
    /\ UNCHANGED <<image, offset, section>>

FirmwareNext ==
    \/ ReadHeader
    \/ WalkEntry
    \/ WalkEnds
    \/ ParseEnds
    \/ \E completes \in BOOLEAN : Upload(completes)

FirmwareSpec ==
    FirmwareInit /\ [][FirmwareNext]_firmwareVars /\ WF_firmwareVars(FirmwareNext)

-----------------------------------------------------------------------------
(* The entries that are in the file whole: the padding of the last may be  *)
(* missing.                                                                *)
Whole ==
    {n \in DOMAIN entries : Start(begin, entries, n) + 8 + entries[n].len <= Len(data)}

(* The last of type t, as a slice of the file. *)
LastSlice(t) ==
    LET found == {n \in Whole : entries[n].type = t}
    IN  IF found = {} THEN Empty
        ELSE LET n == CHOOSE n \in found : \A m \in found : m <= n
             IN  [from |-> Start(begin, entries, n) + 8, len |-> entries[n].len]

(* The sections are those of the entries that are whole, the last of a     *)
(* type counting, each taken from its own place; an image is refused       *)
(* exactly when it has no header or its last instruction section is empty. *)
ReadAsWritten ==
    /\ pc = "parsed" =>
          /\ \A t \in Types : section[t] = LastSlice(t)
          /\ good_magic /\ section[INST].len > 0
    /\ pc = "none" =>
          \/ Len(data) < HEADER \/ ~ good_magic
          \/ LastSlice(INST).len = 0

(* Wherever the file was cut, it is read as it was written, if its entries *)
(* begin at 0x18, where the walk does (parse_firmware, firmware.rs:116).   *)
SectionsAreTheEntries == begin = HEADER => ReadAsWritten

(* So is a file whose entries begin at 0x14, where the table of the format *)
(* has them (firmware.rs:31).                                              *)
DocumentedIsReadAsWritten == begin = DOCUMENTED => ReadAsWritten

(* A file that ends inside a payload is corrupt and gives no image         *)
(* (parse_firmware, firmware.rs:84).                                       *)
CorruptGivesNone ==
    /\ begin = HEADER
    /\ \E n \in DOMAIN entries \ Whole : Start(begin, entries, n) + 8 <= Len(data)
    => pc # "parsed"

(* The walk ends on every file, and so does the upload (parse_firmware and *)
(* upload_to_device, firmware.rs).                                         *)
ParseReturns == <>(pc \in {"none", "uploaded", "timed_out"})
=============================================================================
