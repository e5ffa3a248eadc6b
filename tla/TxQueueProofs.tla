--------------------------- MODULE TxQueueProofs ---------------------------
(***************************************************************************)
(* Proofs about the transmit ring of src/src/tx_rx.rs for a ring of any    *)
(* size and any set of buffers.                                            *)
(***************************************************************************)
EXTENDS TxQueue, SequenceTheorems, FiniteSetTheorems, TLAPS

(* Going round the ring: one step without the remainder of enqueue. *)
LEMMA SuccCases ==
    ASSUME NEW i \in Slots
    PROVE  Succ(i) = IF i = TFD_QUEUE_SIZE - 1 THEN 0 ELSE i + 1
BY SizeAssumption DEF Succ, Slots

(* A step round the ring stays in the ring. *)
LEMMA SuccInSlots ==
    ASSUME NEW i \in Slots
    PROVE  Succ(i) \in Slots
BY SuccCases, SizeAssumption DEF Slots

(* An open slot can always be filled without making the ring look empty. *)
LEMMA SuccMoves ==
    ASSUME NEW i \in Slots
    PROVE  Succ(i) # i
BY SuccCases, SizeAssumption DEF Slots

-----------------------------------------------------------------------------
(* Types are set by Init and kept by every step. *)
LEMMA TypeStep ==
    /\ Init => TypeOK
    /\ TypeOK /\ [Next]_vars => TypeOK'
<1>1. Init => TypeOK
  BY SizeAssumption DEF Init, TypeOK, Slots
<1>2. TypeOK /\ [Next]_vars => TypeOK'
  <2> SUFFICES ASSUME TypeOK, [Next]_vars PROVE TypeOK'
    OBVIOUS
  <2>1. ASSUME NEW data \in Buffers, Enqueue(data) PROVE TypeOK'
    BY <2>1, SuccInSlots DEF TypeOK, Enqueue
  <2>2. CASE Poke
    BY <2>2 DEF TypeOK, Poke, queueVars
  <2>3. CASE FirmwareFetch
    BY <2>3, SuccInSlots DEF TypeOK, FirmwareFetch, queueVars
  <2>4. CASE FirmwareAck
    BY <2>4, SuccInSlots DEF TypeOK, FirmwareAck, Complete
  <2>5. CASE UNCHANGED vars
    BY <2>5 DEF TypeOK, vars
  <2> QED
    BY <2>1, <2>2, <2>3, <2>4, <2>5 DEF Next
<1> QED
  BY <1>1, <1>2

(* The cursors, the descriptors and the kept buffers keep their types      *)
(* whatever enqueue, complete and the firmware do (TxQueue, tx_rx.rs).     *)
THEOREM TypeCorrect == Spec => []TypeOK
BY TypeStep, PTL DEF Spec

-----------------------------------------------------------------------------
(* Moving the end of an arc forward makes it one longer, unless the end    *)
(* catches up with its start.                                              *)
LEMMA DistanceGrows ==
    ASSUME NEW i \in Slots, NEW j \in Slots
    PROVE  Distance(i, Succ(j)) = IF Succ(j) = i THEN 0 ELSE Distance(i, j) + 1
BY SuccCases, SizeAssumption DEF Slots, Distance

(* Moving the start of a non-empty arc forward makes it one shorter. *)
LEMMA DistanceShrinks ==
    ASSUME NEW i \in Slots, NEW j \in Slots, i # j
    PROVE  Distance(Succ(i), j) = Distance(i, j) - 1
BY SuccCases, SizeAssumption DEF Slots, Distance

(* A distance is at most a lap less one, and says when an arc is empty or full. *)
LEMMA DistanceRange ==
    ASSUME NEW i \in Slots, NEW j \in Slots
    PROVE  /\ Distance(i, j) \in Slots
           /\ Distance(i, j) = 0 <=> i = j
           /\ Distance(i, j) = TFD_QUEUE_SIZE - 1 <=> Succ(j) = i
BY SuccCases, SizeAssumption DEF Slots, Distance

(* Two arcs laid end to end make one arc, or overrun it by a whole lap. *)
LEMMA DistanceAdds ==
    ASSUME NEW i \in Slots, NEW j \in Slots, NEW k \in Slots
    PROVE  Distance(i, j) + Distance(j, k)
               \in {Distance(i, k), Distance(i, k) + TFD_QUEUE_SIZE}
BY SizeAssumption DEF Slots, Distance

(* The arc of a ring that is not full gains exactly the slot enqueue fills. *)
LEMMA ArcGrows ==
    ASSUME NEW i \in Slots, NEW j \in Slots, Succ(j) # i
    PROVE  /\ Arc(i, Succ(j)) = Arc(i, j) \union {j}
           /\ j \notin Arc(i, j)
BY SuccCases, SizeAssumption DEF Slots, Arc

(* The arc of a ring that is not empty loses exactly the slot completed. *)
LEMMA ArcShrinks ==
    ASSUME NEW i \in Slots, NEW j \in Slots, i # j
    PROVE  /\ Arc(Succ(i), j) = Arc(i, j) \ {i}
           /\ i \in Arc(i, j)
BY SuccCases, SizeAssumption DEF Slots, Arc

(* An arc is made of slots of the ring. *)
LEMMA ArcInSlots ==
    ASSUME NEW i \in Slots, NEW j \in Slots
    PROVE  Arc(i, j) \subseteq Slots
BY SizeAssumption DEF Slots, Arc

-----------------------------------------------------------------------------
(* The poke comes after enqueue and the firmware stops at the poked        *)
(* pointer, so the firmware's cursor and the register never leave the      *)
(* range of slots the driver has filled.                                   *)
RingInv == TypeOK /\ CursorsInOrder

(* A descriptor the firmware acknowledges is one the driver enqueued. *)
LEMMA AckOutstanding ==
    ASSUME RingInv, FirmwareAck
    PROVE  read_idx # write_idx
<1>1. /\ write_idx \in Slots /\ read_idx \in Slots
      /\ write_ptr \in Slots /\ fetch_idx \in Slots
  BY DEF RingInv, TypeOK
<1>2. Distance(read_idx, fetch_idx) # 0
  BY <1>1, DistanceRange DEF FirmwareAck
<1>3. /\ Distance(read_idx, fetch_idx) \in 0 .. TFD_QUEUE_SIZE - 1
      /\ Distance(fetch_idx, write_ptr) \in 0 .. TFD_QUEUE_SIZE - 1
      /\ Distance(write_ptr, write_idx) \in 0 .. TFD_QUEUE_SIZE - 1
  BY <1>1, DistanceRange DEF Slots
<1>4. Distance(read_idx, write_idx) # 0
  BY <1>2, <1>3 DEF RingInv, CursorsInOrder
<1> QED
  BY <1>1, <1>4, DistanceRange

(* RingInv holds at first and every step of the driver or the firmware keeps it. *)
LEMMA RingInvInductive ==
    /\ Init => RingInv
    /\ RingInv /\ [Next]_vars => RingInv'
<1>1. Init => RingInv
  BY SizeAssumption DEF Init, RingInv, TypeOK, CursorsInOrder, Distance, Slots
<1>2. RingInv /\ [Next]_vars => RingInv'
  <2> SUFFICES ASSUME RingInv, [Next]_vars PROVE CursorsInOrder'
    BY TypeStep DEF RingInv
  <2> USE DEF RingInv
  <2>0. /\ write_idx \in Slots /\ read_idx \in Slots
        /\ write_ptr \in Slots /\ fetch_idx \in Slots
    BY DEF TypeOK
  <2>a. /\ Distance(read_idx, fetch_idx) \in 0 .. TFD_QUEUE_SIZE - 1
        /\ Distance(fetch_idx, write_ptr) \in 0 .. TFD_QUEUE_SIZE - 1
        /\ Distance(write_ptr, write_idx) \in 0 .. TFD_QUEUE_SIZE - 1
        /\ Distance(read_idx, write_idx) \in 0 .. TFD_QUEUE_SIZE - 1
    BY <2>0, DistanceRange DEF Slots
  <2>b. Distance(read_idx, fetch_idx) + Distance(fetch_idx, write_ptr)
            + Distance(write_ptr, write_idx) = Distance(read_idx, write_idx)
    BY DEF CursorsInOrder
  <2>1. ASSUME NEW data \in Buffers, Enqueue(data) PROVE CursorsInOrder'
    <3>1. Distance(read_idx, Succ(write_idx)) = Distance(read_idx, write_idx) + 1
      BY <2>0, <2>1, DistanceGrows DEF Enqueue, Full
    <3>2. Distance(read_idx, write_idx) # TFD_QUEUE_SIZE - 1
      BY <2>0, <2>1, DistanceRange DEF Enqueue, Full
    <3>3. Distance(write_ptr, write_idx) # TFD_QUEUE_SIZE - 1
      BY <2>a, <2>b, <3>2, SizeAssumption
    <3>4. Distance(write_ptr, Succ(write_idx)) = Distance(write_ptr, write_idx) + 1
      BY <2>0, <3>3, DistanceRange, DistanceGrows
    <3> QED
      BY <2>1, <2>a, <2>b, <3>1, <3>4 DEF CursorsInOrder, Enqueue, Distance
  <2>2. CASE Poke
    <3>1. Distance(fetch_idx, write_ptr) + Distance(write_ptr, write_idx)
              = Distance(fetch_idx, write_idx)
      BY <2>0, <2>a, <2>b, DistanceAdds, DistanceRange, SizeAssumption DEF Slots
    <3>2. Distance(write_idx, write_idx) = 0
      BY <2>0, DistanceRange
    <3> QED
      BY <2>0, <2>2, <2>a, <2>b, <3>1, <3>2
      DEF CursorsInOrder, Poke, queueVars, Distance, Slots
  <2>3. CASE FirmwareFetch
    <3>1. Distance(Succ(fetch_idx), write_ptr) = Distance(fetch_idx, write_ptr) - 1
      BY <2>0, <2>3, DistanceShrinks DEF FirmwareFetch
    <3>2. Distance(fetch_idx, write_ptr) # 0
      BY <2>0, <2>3, DistanceRange DEF FirmwareFetch
    <3>3. Distance(read_idx, fetch_idx) # TFD_QUEUE_SIZE - 1
      BY <2>a, <2>b, <3>2, SizeAssumption
    <3>4. Distance(read_idx, Succ(fetch_idx)) = Distance(read_idx, fetch_idx) + 1
      BY <2>0, <3>3, DistanceRange, DistanceGrows
    <3> QED
      BY <2>0, <2>3, <2>a, <3>1, <3>4
      DEF CursorsInOrder, FirmwareFetch, queueVars, Slots, Distance
  <2>4. CASE FirmwareAck
    <3>1. Distance(Succ(read_idx), fetch_idx) = Distance(read_idx, fetch_idx) - 1
      BY <2>0, <2>4, DistanceShrinks DEF FirmwareAck
    <3>2. read_idx # write_idx
      BY <2>4, AckOutstanding
    <3>3. Distance(Succ(read_idx), write_idx) = Distance(read_idx, write_idx) - 1
      BY <2>0, <3>2, DistanceShrinks
    <3> QED
      BY <2>0, <2>4, <2>a, <3>1, <3>3
      DEF CursorsInOrder, FirmwareAck, Complete, Slots, Distance
  <2>5. CASE UNCHANGED vars
    BY <2>5 DEF CursorsInOrder, vars, Distance
  <2> QED
    BY <2>1, <2>2, <2>3, <2>4, <2>5 DEF Next
<1> QED
  BY <1>1, <1>2

(* The four cursors keep their order round the ring (enqueue, the poke of  *)
(* the register, complete: tx_rx.rs).                                      *)
THEOREM CursorsStayInOrder == Spec => []CursorsInOrder
<1>1. RingInv => CursorsInOrder
  BY DEF RingInv
<1> QED
  BY <1>1, RingInvInductive, PTL DEF Spec

-----------------------------------------------------------------------------
(* The descriptors between read_idx and write_idx are filled and point to  *)
(* the buffers the driver keeps; every other slot keeps nothing.           *)
BufferInv == RingInv /\ BuffersAliveUntilAck /\ NoLeakedBuffer

(* BufferInv holds at first and every step of the driver or the firmware keeps it. *)
LEMMA BufferInvInductive ==
    /\ Init => BufferInv
    /\ BufferInv /\ [Next]_vars => BufferInv'
<1>1. Init => BufferInv
  BY RingInvInductive, SizeAssumption
  DEF Init, BufferInv, BuffersAliveUntilAck, NoLeakedBuffer, Arc, Slots
<1>2. BufferInv /\ [Next]_vars => BufferInv'
  <2> SUFFICES ASSUME BufferInv, [Next]_vars
               PROVE  BuffersAliveUntilAck' /\ NoLeakedBuffer'
    BY RingInvInductive DEF BufferInv
  <2>0. /\ write_idx \in Slots /\ read_idx \in Slots
        /\ write_ptr \in Slots /\ fetch_idx \in Slots
        /\ tfds \in [Slots -> Buffers \union {None}]
        /\ pending_bufs \in [Slots -> Buffers \union {None}]
        /\ BuffersAliveUntilAck /\ NoLeakedBuffer
    BY DEF BufferInv, RingInv, TypeOK
  <2>1. ASSUME NEW data \in Buffers, Enqueue(data)
        PROVE  BuffersAliveUntilAck' /\ NoLeakedBuffer'
    <3>1. /\ Arc(read_idx, write_idx)' = Arc(read_idx, write_idx) \union {write_idx}
          /\ Arc(read_idx, write_idx) \subseteq Slots
          /\ write_idx \notin Arc(read_idx, write_idx)
      BY <2>0, <2>1, ArcGrows, ArcInSlots DEF Enqueue, Full, Arc
    <3>2. data # None /\ \A i \in Slots : pending_bufs[i] # data
      BY <2>1, NoneAssumption DEF Enqueue, Live
    <3>3. BuffersAliveUntilAck'
      BY <2>0, <2>1, <3>1, <3>2 DEF BuffersAliveUntilAck, Enqueue
    <3>4. NoLeakedBuffer'
      BY <2>0, <2>1, <3>1, <3>2 DEF NoLeakedBuffer, Enqueue
    <3> QED
      BY <3>3, <3>4
  <2>2. CASE Poke
    BY <2>0, <2>2 DEF BuffersAliveUntilAck, NoLeakedBuffer, Poke, queueVars, Arc
  <2>3. CASE FirmwareFetch
    BY <2>0, <2>3
    DEF BuffersAliveUntilAck, NoLeakedBuffer, FirmwareFetch, queueVars, Arc
  <2>4. CASE FirmwareAck
    <3>1. read_idx # write_idx
      BY <2>4, AckOutstanding DEF BufferInv
    <3>2. /\ Arc(read_idx, write_idx)' = Arc(read_idx, write_idx) \ {read_idx}
          /\ Arc(read_idx, write_idx) \subseteq Slots
      BY <2>0, <2>4, <3>1, ArcShrinks, ArcInSlots DEF FirmwareAck, Complete, Arc
    <3>3. BuffersAliveUntilAck'
      BY <2>0, <2>4, <3>2 DEF BuffersAliveUntilAck, FirmwareAck, Complete
    <3>4. NoLeakedBuffer'
      BY <2>0, <2>4, <3>2 DEF NoLeakedBuffer, FirmwareAck, Complete
    <3> QED
      BY <3>3, <3>4
  <2>5. CASE UNCHANGED vars
    BY <2>0, <2>5 DEF BuffersAliveUntilAck, NoLeakedBuffer, vars, Arc
  <2> QED
    BY <2>1, <2>2, <2>3, <2>4, <2>5 DEF Next
<1> QED
  BY <1>1, <1>2

(* The DMA engine never reads freed or reused memory: the buffer of a      *)
(* descriptor not yet acknowledged is alive and is the slot's own          *)
(* (pending_bufs, enqueue, complete: tx_rx.rs).                            *)
THEOREM BuffersStayAlive == Spec => []BuffersAliveUntilAck
<1>1. BufferInv => BuffersAliveUntilAck
  BY DEF BufferInv
<1> QED
  BY <1>1, BufferInvInductive, PTL DEF Spec

(* complete frees the buffer of every acknowledged descriptor and no       *)
(* buffer is kept for two slots (tx_rx.rs).                                *)
THEOREM NoBufferLeaks == Spec => []NoLeakedBuffer
<1>1. BufferInv => NoLeakedBuffer
  BY DEF BufferInv
<1> QED
  BY <1>1, BufferInvInductive, PTL DEF Spec

-----------------------------------------------------------------------------
(* The slots that keep nothing are those outside the outstanding arc. *)
LEMMA EmptyIsOutsideTheArc ==
    ASSUME BufferInv
    PROVE  {i \in Slots : pending_bufs[i] = None} = Slots \ Arc(read_idx, write_idx)
<1>1. \A i \in Arc(read_idx, write_idx) : tfds[i] # None /\ pending_bufs[i] = tfds[i]
  BY DEF BufferInv, BuffersAliveUntilAck
<1>2. \A i \in Slots \ Arc(read_idx, write_idx) : pending_bufs[i] = None
  BY DEF BufferInv, NoLeakedBuffer
<1> QED
  BY <1>1, <1>2

(* There are as many of them as a lap is longer than the arc. *)
LEMMA OutsideTheArc ==
    ASSUME NEW r \in Slots, NEW w \in Slots
    PROVE  Cardinality(Slots \ Arc(r, w)) = TFD_QUEUE_SIZE - Distance(r, w)
<1>0. r \in Int /\ w \in Int /\ TFD_QUEUE_SIZE \in Nat
  BY SizeAssumption DEF Slots
<1>1. CASE r > w
  <2>1. Slots \ Arc(r, w) = w .. r - 1
    BY <1>0, <1>1 DEF Arc, Slots
  <2>2. Cardinality(w .. r - 1) = r - w
    <3>1. r - 1 \in Int /\ ~ (w > r - 1) /\ r - 1 - w + 1 = r - w
      BY <1>0, <1>1
    <3> QED
      BY <1>0, <3>1, FS_Interval
  <2>3. Distance(r, w) = w - r + TFD_QUEUE_SIZE
    BY <1>0, <1>1 DEF Distance
  <2>4. Cardinality(Slots \ Arc(r, w)) = r - w
    BY <2>1, <2>2
  <2> QED
    BY <1>0, <2>3, <2>4
<1>2. CASE r <= w
  <2>1. /\ IsFiniteSet(Slots) /\ Cardinality(Slots) = TFD_QUEUE_SIZE
        /\ IsFiniteSet(r .. w - 1) /\ Cardinality(r .. w - 1) = w - r
    <3>1. /\ IsFiniteSet(0 .. TFD_QUEUE_SIZE - 1)
          /\ Cardinality(0 .. TFD_QUEUE_SIZE - 1) = TFD_QUEUE_SIZE
      BY <1>0, SizeAssumption, FS_Interval
    <3>2. IsFiniteSet(r .. w - 1) /\ Cardinality(r .. w - 1) = w - r
      <4>1. w - 1 \in Int /\ w - 1 - r + 1 = w - r /\ (r > w - 1 => w - r = 0)
        BY <1>0, <1>2
      <4> QED
        BY <1>0, <4>1, FS_Interval
    <3> QED
      BY <3>1, <3>2 DEF Slots
  <2>2. Slots \cap (r .. w - 1) = r .. w - 1
    BY <1>0 DEF Slots
  <2>3. Cardinality(Slots \ (r .. w - 1)) = TFD_QUEUE_SIZE - (w - r)
    <3>1. Cardinality(Slots \ (r .. w - 1))
              = Cardinality(Slots) - Cardinality(Slots \cap (r .. w - 1))
      BY <2>1, FS_Difference
    <3> QED
      BY <2>1, <2>2, <3>1
  <2> QED
    BY <1>0, <1>2, <2>3 DEF Arc, Distance
<1> QED
  BY <1>0, <1>1, <1>2

(* free_slots is exact for a ring of any size: enqueue takes that many     *)
(* more frames and no more (free_slots, enqueue: tx_rx.rs).                *)
THEOREM FreeSlotsCount == Spec => []FreeSlotsExact
<1>1. BufferInv => FreeSlotsExact
  <2> SUFFICES ASSUME BufferInv PROVE FreeSlotsExact
    OBVIOUS
  <2>0. read_idx \in Slots /\ write_idx \in Slots
    BY DEF BufferInv, RingInv, TypeOK
  <2>1. Cardinality({i \in Slots : pending_bufs[i] = None})
            = TFD_QUEUE_SIZE - Distance(read_idx, write_idx)
    BY <2>0, EmptyIsOutsideTheArc, OutsideTheArc
  <2>2. FreeSlots = TFD_QUEUE_SIZE - Distance(read_idx, write_idx) - 1
    BY <2>0, SizeAssumption DEF FreeSlots, Distance, Slots
  <2>3. FreeSlots = 0 <=> Full
    BY <2>0, <2>2, DistanceRange, SizeAssumption DEF Full, Slots
  <2> QED
    BY <2>1, <2>2, <2>3 DEF FreeSlotsExact
<1> QED
  BY <1>1, BufferInvInductive, PTL DEF Spec

-----------------------------------------------------------------------------
(* The k-th outstanding slot, counted from read_idx, and how the count     *)
(* shifts when the oldest one is completed.                                *)
LEMMA SlotFacts ==
    ASSUME RingInv, NEW k \in 1 .. Distance(read_idx, write_idx)
    PROVE  /\ Slot(k) \in Arc(read_idx, write_idx)
           /\ Slot(k) \in Slots
BY SizeAssumption DEF RingInv, TypeOK, Slot, Arc, Slots, Distance

(* The outstanding buffers in order are a sequence of buffers. *)
OutstandingIsSeq ==
    /\ Outstanding \in Seq(Buffers)
    /\ Len(Outstanding) = Distance(read_idx, write_idx)

(* The ring's outstanding buffers form a sequence as long as the arc is. *)
LEMMA OutstandingType == BufferInv => OutstandingIsSeq
<1> SUFFICES ASSUME BufferInv PROVE OutstandingIsSeq
  OBVIOUS
<1>1. /\ write_idx \in Slots /\ read_idx \in Slots
      /\ pending_bufs \in [Slots -> Buffers \union {None}]
  BY DEF BufferInv, RingInv, TypeOK
<1>2. Distance(read_idx, write_idx) \in Nat
  BY <1>1, DistanceRange, SizeAssumption DEF Slots
<1>3. ASSUME NEW k \in 1 .. Distance(read_idx, write_idx)
      PROVE  pending_bufs[Slot(k)] \in Buffers
  BY <1>1, SlotFacts DEF BufferInv, BuffersAliveUntilAck
<1>4. Outstanding \in [1 .. Distance(read_idx, write_idx) -> Buffers]
  BY <1>3 DEF Outstanding
<1>5. Outstanding \in Seq(Buffers)
  BY <1>2, <1>4
<1>6. Len(Outstanding) = Distance(read_idx, write_idx)
  BY <1>2, <1>4, <1>5
<1> QED
  BY <1>5, <1>6 DEF OutstandingIsSeq

(* The ring implements the bounded FIFO: enqueue puts a frame at the end,  *)
(* complete takes the oldest away, and the poke and the fetch change       *)
(* nothing its user sees (TxQueue, tx_rx.rs).                              *)
THEOREM RingImplementsFifo == Spec => ImplementsFifo
<1>1. Init => Fifo!Init
  <2> SUFFICES ASSUME Init PROVE Outstanding = << >>
    BY DEF Fifo!Init
  <2>1. BufferInv
    BY BufferInvInductive
  <2>2. Distance(read_idx, write_idx) = 0
    BY DEF Init, Distance
  <2> QED
    BY <2>1, <2>2, OutstandingType, EmptySeq DEF OutstandingIsSeq
<1>2. BufferInv /\ BufferInv' /\ [Next]_vars => [Fifo!Next]_Outstanding
  <2> SUFFICES ASSUME BufferInv, BufferInv', [Next]_vars
               PROVE  Fifo!Next \/ Outstanding' = Outstanding
    OBVIOUS
  <2>0. /\ write_idx \in Slots /\ read_idx \in Slots
        /\ write_ptr \in Slots /\ fetch_idx \in Slots
        /\ pending_bufs \in [Slots -> Buffers \union {None}]
    BY DEF BufferInv, RingInv, TypeOK
  <2>a. /\ Outstanding \in Seq(Buffers)
        /\ Len(Outstanding) = Distance(read_idx, write_idx)
    BY OutstandingType DEF OutstandingIsSeq
  <2>b. /\ Outstanding' \in Seq(Buffers)
        /\ Len(Outstanding') = Distance(read_idx', write_idx')
    <3>1. BufferInv' => OutstandingIsSeq'
      BY OutstandingType, PTL
    <3> QED
      BY <3>1 DEF OutstandingIsSeq, Distance
  <2>1. ASSUME NEW data \in Buffers, Enqueue(data) PROVE Fifo!Next
    <3>1. /\ Distance(read_idx, Succ(write_idx))
                 = Distance(read_idx, write_idx) + 1
          /\ Distance(read_idx, write_idx) \in 0 .. TFD_QUEUE_SIZE - 1
          /\ Distance(read_idx, write_idx) # TFD_QUEUE_SIZE - 1
      BY <2>0, <2>1, DistanceGrows, DistanceRange DEF Enqueue, Full, Slots
    <3>2. Outstanding' = Append(Outstanding, data)
      <4>1. /\ Append(Outstanding, data) \in Seq(Buffers)
            /\ Len(Append(Outstanding, data)) = Len(Outstanding')
        BY <2>a, <2>b, <2>1, <3>1 DEF Enqueue
      <4>2. ASSUME NEW k \in 1 .. Len(Outstanding')
            PROVE  Outstanding'[k] = Append(Outstanding, data)[k]
        <5>1. k \in 1 .. Distance(read_idx, write_idx) + 1
          BY <2>b, <2>1, <3>1 DEF Enqueue
        <5>2. Outstanding'[k] = pending_bufs'[Slot(k)]
          <6>1. k \in 1 .. Distance(read_idx, write_idx)'
            BY <2>b DEF Distance
          <6> QED
            BY <2>1, <6>1 DEF Enqueue, Outstanding, Slot
        <5>3. CASE k = Distance(read_idx, write_idx) + 1
          <6>1. Slot(k) = write_idx
            BY <2>0, <5>3, SizeAssumption DEF Slot, Distance, Slots
          <6>2. Outstanding'[k] = data
            BY <2>0, <2>1, <5>2, <6>1 DEF Enqueue
          <6> QED
            BY <2>a, <5>3, <6>2, AppendProperties
        <5>4. CASE k \in 1 .. Distance(read_idx, write_idx)
          <6>1. Slot(k) # write_idx /\ Slot(k) \in Slots
            BY <2>0, <2>1, <5>4, SlotFacts, ArcGrows
            DEF BufferInv, Enqueue, Full
          <6>2. Outstanding'[k] = pending_bufs[Slot(k)]
            BY <2>0, <2>1, <5>2, <6>1 DEF Enqueue
          <6>3. Outstanding[k] = pending_bufs[Slot(k)]
            BY <5>4 DEF Outstanding
          <6> QED
            BY <2>a, <5>4, <6>2, <6>3, AppendProperties
        <5> QED
          <6>1. Distance(read_idx, write_idx) \in Nat
            BY <3>1, SizeAssumption
          <6>2. \/ k = Distance(read_idx, write_idx) + 1
                \/ k \in 1 .. Distance(read_idx, write_idx)
            BY <5>1, <6>1
          <6> QED
            BY <5>3, <5>4, <6>2
      <4> QED
        BY <2>b, <4>1, <4>2, SeqEqual
    <3> QED
      BY <2>a, <3>1, <3>2, SizeAssumption DEF Fifo!Next, Fifo!Put
  <2>2. CASE Poke
    BY <2>2 DEF Poke, queueVars, Outstanding, Slot, Distance
  <2>3. CASE FirmwareFetch
    BY <2>3 DEF FirmwareFetch, queueVars, Outstanding, Slot, Distance
  <2>4. CASE FirmwareAck
    <3>1. read_idx # write_idx
      BY <2>4, AckOutstanding DEF BufferInv
    <3>2. /\ Distance(Succ(read_idx), write_idx)
                 = Distance(read_idx, write_idx) - 1
          /\ Distance(read_idx, write_idx) \in 1 .. TFD_QUEUE_SIZE - 1
      BY <2>0, <3>1, DistanceShrinks, DistanceRange DEF Slots
    <3>3. Outstanding # << >>
      BY <2>a, <3>2, EmptySeq
    <3>4. Outstanding' = Tail(Outstanding)
      <4>1. /\ Tail(Outstanding) \in Seq(Buffers)
            /\ Len(Tail(Outstanding)) = Len(Outstanding')
        BY <2>a, <2>b, <2>4, <3>2, <3>3 DEF FirmwareAck, Complete
      <4>2. ASSUME NEW k \in 1 .. Len(Outstanding')
            PROVE  Outstanding'[k] = Tail(Outstanding)[k]
        <5>1. k + 1 \in 1 .. Distance(read_idx, write_idx)
          BY <2>b, <2>4, <3>2 DEF FirmwareAck, Complete
        <5>2. Slot(k)' = Slot(k + 1)
          <6>1. read_idx' = IF read_idx = TFD_QUEUE_SIZE - 1
                            THEN 0 ELSE read_idx + 1
            BY <2>0, <2>4, SuccCases DEF FirmwareAck, Complete
          <6>2. k \in 1 .. TFD_QUEUE_SIZE - 1 /\ read_idx \in 0 .. TFD_QUEUE_SIZE - 1
            BY <2>0, <3>2, <5>1, SizeAssumption DEF Slots
          <6> QED
            BY <6>1, <6>2, SizeAssumption DEF Slot
        <5>3. Slot(k + 1) # read_idx /\ Slot(k + 1) \in Slots
          BY <2>0, <5>1, <3>2, SlotFacts, SizeAssumption
          DEF BufferInv, Slot, Slots
        <5>4. Outstanding'[k] = pending_bufs'[Slot(k)']
          <6>1. k \in 1 .. Distance(read_idx, write_idx)'
            BY <2>b DEF Distance
          <6> QED
            BY <6>1 DEF Outstanding
        <5>5. Outstanding'[k] = pending_bufs[Slot(k + 1)]
          BY <2>0, <2>4, <5>2, <5>3, <5>4 DEF FirmwareAck, Complete
        <5>6. Outstanding[k + 1] = pending_bufs[Slot(k + 1)]
          BY <5>1 DEF Outstanding
        <5> QED
          BY <2>a, <3>3, <4>1, <5>5, <5>6, HeadTailProperties
      <4> QED
        BY <2>b, <4>1, <4>2, SeqEqual
    <3> QED
      BY <3>3, <3>4 DEF Fifo!Next, Fifo!Acknowledge
  <2>5. CASE UNCHANGED vars
    BY <2>5 DEF vars, Outstanding, Slot, Distance
  <2> QED
    BY <2>1, <2>2, <2>3, <2>4, <2>5 DEF Next
<1> QED
  BY <1>1, <1>2, BufferInvInductive, PTL DEF Spec, ImplementsFifo, Fifo!Spec
=============================================================================
