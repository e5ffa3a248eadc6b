-------------------------------- MODULE Sha1 --------------------------------
(***************************************************************************)
(* The streaming side of the SHA-1 of src/src/wpa.rs: how update cuts what *)
(* it is given into blocks and what finalize pads.  compress is abstract:  *)
(* the state after n blocks is the sequence of those blocks.  A byte of    *)
(* the message is known by its position, so a lost, repeated or misplaced  *)
(* byte shows.                                                             *)
(***************************************************************************)
EXTENDS Atoms

CONSTANTS
    SHA1_BLOCK_SIZE,    \* bytes of a block (64)
    SHA1_LENGTH_SIZE,   \* bytes of the length field (8)
    MaxTotal            \* bound: bytes of a message

ASSUME Sha1SizeAssumption ==
    /\ SHA1_BLOCK_SIZE \in Nat
    /\ SHA1_LENGTH_SIZE \in 1 .. SHA1_BLOCK_SIZE - 1
ASSUME TotalAssumption == MaxTotal \in Nat

VARIABLES
    blocks,             \* compressed so far
    buffer, buf_len, total_len,
    hashed,             \* finalize has run
    message_len         \* history: bytes given to update

hashVars == <<blocks, buffer, buf_len, total_len, hashed, message_len>>

Message(n) == {<<"message", n>>}
Marker == {<<"marker">>}
LengthByte(n, len) == {<<"length", n, len>>}

HashInit ==
    /\ blocks = <<>>
    /\ buffer = [i \in 1 .. SHA1_BLOCK_SIZE |-> Zero]
    /\ buf_len = 0
    /\ total_len = 0
    /\ hashed = FALSE
    /\ message_len = 0

Overwrite(buf, at, bytes) ==
    [i \in 1 .. SHA1_BLOCK_SIZE |->
        IF i - at \in DOMAIN bytes THEN bytes[i - at] ELSE buf[i]]

Refill(s, bytes) ==
    [s EXCEPT !.buffer = Overwrite(s.buffer, s.buf_len, bytes),
              !.buf_len = s.buf_len + Len(bytes)]

Flush(s) ==
    IF s.buf_len = SHA1_BLOCK_SIZE
    THEN [s EXCEPT !.blocks = Append(s.blocks, s.buffer), !.buf_len = 0]
    ELSE s

(* Whole blocks go straight from the data. *)
Compress(s, data) == [s EXCEPT !.blocks = s.blocks \o Chunks(data, SHA1_BLOCK_SIZE)]

Rest(data) == SubSeq(data, Len(data) - (Len(data) % SHA1_BLOCK_SIZE) + 1, Len(data))

KeepRest(s, bytes) ==
    IF bytes = <<>> THEN s
    ELSE [s EXCEPT !.buffer = Overwrite(s.buffer, 0, bytes), !.buf_len = Len(bytes)]

Update(s, data) ==
    LET copied == IF s.buf_len > 0 THEN Least(Len(data), SHA1_BLOCK_SIZE - s.buf_len) ELSE 0
        left == SubSeq(data, copied + 1, Len(data))
        filled == Flush(Refill(s, SubSeq(data, 1, copied)))
    IN  KeepRest(Compress(filled, left), Rest(left))

Hasher == [blocks |-> blocks, buffer |-> buffer, buf_len |-> buf_len]

Becomes(s) ==
    /\ blocks' = s.blocks
    /\ buffer' = s.buffer
    /\ buf_len' = s.buf_len

(* update is given the next n bytes of the message. *)
UpdateBy(n) ==
    /\ ~ hashed
    /\ total_len + n <= MaxTotal
    /\ Becomes(Update(Hasher, [i \in 1 .. n |-> Message(total_len + i)]))
    /\ total_len' = total_len + n
    /\ message_len' = message_len + n
    /\ UNCHANGED hashed

(* A slip of finalize: one byte too few is held to have room for the       *)
(* marker and the length.                                                  *)
Room == SHA1_BLOCK_SIZE - SHA1_LENGTH_SIZE

PadLenLate(n) == IF n <= Room THEN Room - n ELSE SHA1_BLOCK_SIZE + Room - n

PadLen(n) == IF n < Room THEN Room - n ELSE SHA1_BLOCK_SIZE + Room - n

Padding(n) == [i \in 1 .. PadLen(n) |-> IF i = 1 THEN Marker ELSE Zero]
LengthField(len) == [i \in 1 .. SHA1_LENGTH_SIZE |-> LengthByte(i, len)]

Finalized(s, len) == Update(Update(s, Padding(s.buf_len)), LengthField(len))

(* The length is taken before the padding goes through update and grows    *)
(* it.                                                                     *)
HashFinalize ==
    /\ ~ hashed
    /\ Becomes(Finalized(Hasher, total_len))
    /\ total_len' = total_len + PadLen(buf_len) + SHA1_LENGTH_SIZE
    /\ hashed' = TRUE
    /\ UNCHANGED message_len

HashNext == (\E n \in 0 .. MaxTotal : UpdateBy(n)) \/ HashFinalize

HashSpec == HashInit /\ [][HashNext]_hashVars

-----------------------------------------------------------------------------
(* The standard's blocks of a message. *)
StandardBlocks(message) ==
    LET zeros == (-(Len(message) + 1 + SHA1_LENGTH_SIZE)) % SHA1_BLOCK_SIZE
    IN  Chunks(message \o <<Marker>> \o [i \in 1 .. zeros |-> Zero]
                   \o LengthField(Len(message)), SHA1_BLOCK_SIZE)

(* However the message is cut into updates, empty ones and ones across     *)
(* several blocks included, what is compressed is every byte of it once    *)
(* and in its place, padded as the standard asks: a marker bit, the fewest *)
(* zeros that fill a block, and the length of the message without its      *)
(* padding (update, finalize, wpa.rs).                                     *)
HashedAsStandard ==
    hashed =>
        /\ buf_len = 0
        /\ blocks = StandardBlocks([i \in 1 .. message_len |-> Message(i)])
=============================================================================
