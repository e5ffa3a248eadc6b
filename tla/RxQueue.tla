------------------------------ MODULE RxQueue ------------------------------
(***************************************************************************)
(* The receive ring of src/src/tx_rx.rs and the device that fills it.      *)
(*                                                                         *)
(* The device numbers the frames it receives 1, 2, 3, ... and writes each  *)
(* into the next buffer it owns, then its length into the status ring.     *)
(* Both cursors of the driver count without wrapping; a slot is a cursor   *)
(* modulo RXQ_SIZE.  The code never clears a status entry, so a slot once  *)
(* used reads as filled for ever.  A frame's length stands for the frame.  *)
(***************************************************************************)
EXTENDS Integers, Sequences

CONSTANTS
    RXQ_SIZE,       \* buffers in the ring
    MaxFrames,      \* bound: frames the device receives
    MaxReads        \* bound: frames the driver takes

ASSUME RingAssumption == RXQ_SIZE \in Nat /\ RXQ_SIZE >= 1
ASSUME FrameAssumption == MaxFrames \in Nat /\ MaxReads \in Nat

VARIABLES
    bufs,           \* slot -> frame in its buffer, 0 when none was written
    rx_status,      \* slot -> frame its length entry is about, 0 when len = 0
    read_idx,       \* next buffer to look at
    write_idx,      \* buffers made available since the start
    rx_write_ptr,   \* the device's RXQ_WRITE_PTR register
    posted,         \* device: buffers it was told of
    filled,         \* device: frames whose status entry is written
    writing,        \* device: a buffer is written and its status is not
    held,           \* slot of the slice the caller is using, RXQ_SIZE if none
    delivered       \* history: what each receive returned

driverVars == <<read_idx, write_idx, held, delivered>>
pointerVars == <<rx_write_ptr, posted>>
vars == <<bufs, rx_status, read_idx, write_idx, rx_write_ptr, posted, filled,
          writing, held, delivered>>

Slots == 0 .. RXQ_SIZE - 1
SlotOf(i) == i % RXQ_SIZE
NoSlot == RXQ_SIZE

Init ==
    /\ bufs = [s \in Slots |-> 0]
    /\ rx_status = [s \in Slots |-> 0]
    /\ read_idx = 0
    /\ write_idx = RXQ_SIZE
    /\ rx_write_ptr = 0
    /\ posted = RXQ_SIZE
    /\ filled = 0
    /\ writing = FALSE
    /\ held = NoSlot
    /\ delivered = <<>>

-----------------------------------------------------------------------------
DeviceWritesBuffer ==
    /\ ~ writing
    /\ filled < posted
    /\ filled < MaxFrames
    /\ bufs' = [bufs EXCEPT ![SlotOf(filled)] = filled + 1]
    /\ writing' = TRUE
    /\ UNCHANGED <<rx_status, driverVars, pointerVars, filled>>

DeviceWritesStatus ==
    /\ writing
    /\ rx_status' = [rx_status EXCEPT ![SlotOf(filled)] = filled + 1]
    /\ filled' = filled + 1
    /\ writing' = FALSE
    /\ UNCHANGED <<bufs, driverVars, pointerVars>>

(* receive looks at the length only; a plausible slip is to trust the      *)
(* cursor, another to ask for a spare buffer as well.                      *)
NoLengthCheck == TRUE
SpareBufferToo == rx_status[SlotOf(read_idx)] # 0 /\ write_idx - read_idx > 1

HasFrame == rx_status[SlotOf(read_idx)] # 0

(* The slice borrows the ring, so no second frame is taken while it lives. *)
Receive ==
    /\ held = NoSlot
    /\ HasFrame
    /\ read_idx < MaxReads
    /\ held' = SlotOf(read_idx)
    /\ read_idx' = read_idx + 1
    /\ delivered' = Append(delivered,
                           [data |-> bufs[SlotOf(read_idx)],
                            len |-> rx_status[SlotOf(read_idx)]])
    /\ UNCHANGED <<bufs, rx_status, write_idx, pointerVars, filled, writing>>

CountTwice == write_idx + 2

CountRecycled == write_idx + 1

(* recycle ignores which buffer it is given. *)
Recycle ==
    /\ held # NoSlot
    /\ write_idx' = CountRecycled
    /\ held' = NoSlot
    /\ UNCHANGED <<bufs, rx_status, read_idx, pointerVars, filled, writing,
                   delivered>>

(* A caller that does not recycle, as load_firmware does not. *)
Drop ==
    /\ held # NoSlot
    /\ held' = NoSlot
    /\ UNCHANGED <<bufs, rx_status, read_idx, write_idx, pointerVars, filled,
                   writing, delivered>>

WholeCursor == write_idx

RegisterValue == SlotOf(write_idx)

OneTooMany == write_idx + 1

Available == write_idx

(* poke_rx_write_ptr: the register holds the cursor modulo the ring, and   *)
(* the device is taken to know which lap is meant.                         *)
PokeRxWritePtr ==
    /\ posted # Available
    /\ posted' = Available
    /\ rx_write_ptr' = RegisterValue
    /\ UNCHANGED <<bufs, rx_status, driverVars, filled, writing>>

Next ==
    \/ DeviceWritesBuffer
    \/ DeviceWritesStatus
    \/ Receive
    \/ Recycle
    \/ Drop
    \/ PokeRxWritePtr

(* The device finishes what it is writing and the driver keeps polling. *)
Spec == Init /\ [][Next]_vars /\ WF_vars(DeviceWritesStatus) /\ WF_vars(Receive)
             /\ WF_vars(Recycle \/ Drop)

-----------------------------------------------------------------------------
TypeOK ==
    /\ bufs \in [Slots -> 0 .. MaxFrames]
    /\ rx_status \in [Slots -> 0 .. MaxFrames]
    /\ read_idx \in 0 .. MaxReads
    /\ write_idx \in Nat
    /\ rx_write_ptr \in Slots
    /\ posted \in Nat
    /\ filled \in 0 .. MaxFrames
    /\ writing \in BOOLEAN
    /\ held \in Slots \union {NoSlot}
    /\ delivered \in Seq([data : 0 .. MaxFrames, len : 0 .. MaxFrames])

(* In the first lap receive returns every frame once, in order and whole,  *)
(* although buffer and length are written separately and buffers may be    *)
(* recycled late or never (receive, tx_rx.rs).                             *)
FirstLapInOrder ==
    \A i \in 1 .. Len(delivered) :
        i <= RXQ_SIZE => delivered[i] = [data |-> i, len |-> i]

(* A frame is only ever returned from a slot the device has filled: even   *)
(* after any number of laps nothing unwritten is returned, and what is     *)
(* returned belongs to that slot (receive, tx_rx.rs).                      *)
DeliveredFromItsSlot ==
    \A i \in 1 .. Len(delivered) :
        /\ delivered[i].data # 0
        /\ SlotOf(delivered[i].data - 1) = SlotOf(i - 1)
        /\ SlotOf(delivered[i].len - 1) = SlotOf(i - 1)

(* Until the driver has gone once round, the device does not write the     *)
(* buffer a caller is reading (receive, recycle: tx_rx.rs).                *)
HeldUntouchedInFirstLap ==
    read_idx <= RXQ_SIZE /\ held # NoSlot => bufs[held] = delivered[read_idx].len

(* A frame of the first lap is delivered while the caller keeps polling,   *)
(* however many buffers were dropped before it (receive, tx_rx.rs).        *)
EveryFrameDelivered ==
    \A n \in 1 .. RXQ_SIZE :
        filled >= n ~> \E i \in 1 .. Len(delivered) : delivered[i].data = n

-----------------------------------------------------------------------------
(* tx_rx.rs:209 says of receive: "Returns `None` if no new frames are      *)
(* available."  After a lap it returns the old ones again.                 *)
OnlyNewFrames == read_idx <= filled
=============================================================================
