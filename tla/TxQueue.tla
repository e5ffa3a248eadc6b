------------------------------ MODULE TxQueue ------------------------------
(***************************************************************************)
(* The transmit ring of src/src/tx_rx.rs: a ring of TFD_QUEUE_SIZE         *)
(* descriptors, the buffers the driver keeps alive for them, and the       *)
(* firmware that fetches descriptors up to the write pointer it was last   *)
(* poked with.                                                             *)
(*                                                                         *)
(* enqueue and the poke of the device register are two steps, as in the    *)
(* code (poke_tx_write_ptr is the caller's duty).  A descriptor and its    *)
(* byte count stand for the buffer they point to.                          *)
(***************************************************************************)
EXTENDS Integers, FiniteSets

CONSTANTS
    TFD_QUEUE_SIZE,     \* slots in the ring
    Buffers,            \* addresses the allocator can hand out
    None                \* an empty slot: a zeroed TFD, or pending_bufs = None

ASSUME SizeAssumption == TFD_QUEUE_SIZE \in Nat /\ TFD_QUEUE_SIZE >= 2
ASSUME NoneAssumption == None \notin Buffers

VARIABLES
    tfds,           \* slot -> buffer its descriptor points to
    pending_bufs,   \* slot -> buffer kept alive
    write_idx,      \* next slot to fill
    read_idx,       \* next slot to be completed
    write_ptr,      \* the device's write pointer register of this queue
    fetch_idx       \* next slot the firmware fetches

queueVars == <<tfds, pending_bufs, write_idx, read_idx>>
vars == <<tfds, pending_bufs, write_idx, read_idx, write_ptr, fetch_idx>>

Slots == 0 .. TFD_QUEUE_SIZE - 1

SuccWithoutWrap(i) == i + 1

Succ(i) == (i + 1) % TFD_QUEUE_SIZE

Live == {pending_bufs[i] : i \in Slots} \ {None}

-----------------------------------------------------------------------------
Init ==
    /\ tfds = [i \in Slots |-> None]
    /\ pending_bufs = [i \in Slots |-> None]
    /\ write_idx = 0
    /\ read_idx = 0
    /\ write_ptr = 0
    /\ fetch_idx = 0

FullWithoutGap == write_idx = read_idx /\ pending_bufs[write_idx] # None

(* A full queue (the early return None) leaves everything as it is. *)
Full == Succ(write_idx) = read_idx

(* The frame is a fresh allocation, so its address is no live buffer's. *)
Enqueue(data) ==
    /\ ~ Full
    /\ data \notin Live
    /\ tfds' = [tfds EXCEPT ![write_idx] = data]
    /\ pending_bufs' = [pending_bufs EXCEPT ![write_idx] = data]
    /\ write_idx' = Succ(write_idx)
    /\ UNCHANGED <<read_idx, write_ptr, fetch_idx>>

Poke ==
    /\ write_ptr # write_idx
    /\ write_ptr' = write_idx
    /\ UNCHANGED <<queueVars, fetch_idx>>

(* The firmware's DMA engine takes the next descriptor, up to write_ptr. *)
FirmwareFetch ==
    /\ fetch_idx # write_ptr
    /\ fetch_idx' = Succ(fetch_idx)
    /\ UNCHANGED <<queueVars, write_ptr>>

CompleteFreesNext(idx) ==
    /\ pending_bufs' = [pending_bufs EXCEPT ![Succ(idx)] = None]
    /\ read_idx' = Succ(idx)
    /\ UNCHANGED <<tfds, write_idx, write_ptr, fetch_idx>>

CompleteKeepsBuffer(idx) ==
    /\ read_idx' = Succ(idx)
    /\ UNCHANGED <<tfds, pending_bufs, write_idx, write_ptr, fetch_idx>>

CompleteAllFetched(idx) ==
    /\ pending_bufs' = [pending_bufs EXCEPT ![idx] = None]
    /\ read_idx' = fetch_idx
    /\ UNCHANGED <<tfds, write_idx, write_ptr, fetch_idx>>

(* complete(idx) trusts its argument: read_idx is set from idx alone. *)
Complete(idx) ==
    /\ pending_bufs' = [pending_bufs EXCEPT ![idx] = None]
    /\ read_idx' = Succ(idx)
    /\ UNCHANGED <<tfds, write_idx, write_ptr, fetch_idx>>

(* The firmware acknowledges descriptors in the order it fetched them. *)
FirmwareAck ==
    /\ read_idx # fetch_idx
    /\ Complete(read_idx)

Next ==
    \/ \E data \in Buffers : Enqueue(data)
    \/ Poke
    \/ FirmwareFetch
    \/ FirmwareAck

Spec == Init /\ [][Next]_vars

-----------------------------------------------------------------------------
FreeSlotsOffByOne ==
    IF write_idx >= read_idx
    THEN TFD_QUEUE_SIZE - 1 - (write_idx - read_idx)
    ELSE read_idx - write_idx

FreeSlots ==
    IF write_idx >= read_idx
    THEN TFD_QUEUE_SIZE - 1 - (write_idx - read_idx)
    ELSE read_idx - write_idx - 1

(* Slots from i up to, not including, j, going round the ring. *)
Arc(i, j) ==
    IF i <= j THEN i .. j - 1
    ELSE {k \in Slots : k >= i \/ k < j}

Distance(i, j) == IF i <= j THEN j - i ELSE j - i + TFD_QUEUE_SIZE

TypeOK ==
    /\ tfds \in [Slots -> Buffers \union {None}]
    /\ pending_bufs \in [Slots -> Buffers \union {None}]
    /\ write_idx \in Slots
    /\ read_idx \in Slots
    /\ write_ptr \in Slots
    /\ fetch_idx \in Slots

(* Until the firmware has acknowledged a descriptor, the buffer it points  *)
(* to is alive and is the one the driver keeps for that slot: the DMA      *)
(* engine never reads freed or reused memory (tx_rx.rs, pending_bufs).     *)
BuffersAliveUntilAck ==
    \A i \in Arc(read_idx, write_idx) :
        /\ tfds[i] # None
        /\ pending_bufs[i] = tfds[i]

(* Nothing outlives its acknowledgement, and no buffer is kept twice: the  *)
(* buffers alive are exactly those of the outstanding slots.               *)
NoLeakedBuffer ==
    /\ \A i \in Slots \ Arc(read_idx, write_idx) : pending_bufs[i] = None
    /\ \A i, j \in Slots :
          pending_bufs[i] = pending_bufs[j] /\ pending_bufs[i] # None => i = j

(* The four cursors never overtake one another round the ring: the         *)
(* firmware's cursor stays between read_idx and the poked pointer, and the *)
(* poked pointer does not run past write_idx, although the register is     *)
(* written after the ring has already changed.                             *)
CursorsInOrder ==
    Distance(read_idx, fetch_idx) + Distance(fetch_idx, write_ptr)
        + Distance(write_ptr, write_idx) = Distance(read_idx, write_idx)

(* free_slots counts the frames enqueue will still take: the empty slots   *)
(* less the one the ring keeps open to tell full from empty.               *)
FreeSlotsExact ==
    /\ FreeSlots = Cardinality({i \in Slots : pending_bufs[i] = None}) - 1
    /\ (FreeSlots = 0) <=> Full

-----------------------------------------------------------------------------
(* The ring implements a bounded FIFO of TFD_QUEUE_SIZE - 1 frames. *)
Slot(k) ==
    IF read_idx + k - 1 < TFD_QUEUE_SIZE
    THEN read_idx + k - 1
    ELSE read_idx + k - 1 - TFD_QUEUE_SIZE

Outstanding ==
    [k \in 1 .. Distance(read_idx, write_idx) |-> pending_bufs[Slot(k)]]

Fifo == INSTANCE BoundedFifo WITH
            Capacity <- TFD_QUEUE_SIZE - 1,
            Frames <- Buffers,
            outstanding <- Outstanding

(* Frames leave the ring in the order enqueue took them, each once, and    *)
(* never more than TFD_QUEUE_SIZE - 1 are outstanding (enqueue, complete). *)
ImplementsFifo == Fifo!Spec
=============================================================================
