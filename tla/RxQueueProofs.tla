--------------------------- MODULE RxQueueProofs ---------------------------
(***************************************************************************)
(* Proofs about the receive ring of src/src/tx_rx.rs for a ring of any     *)
(* size, any number of frames and any number of laps.                      *)
(***************************************************************************)
EXTENDS RxQueue, SequenceTheorems, TLAPS

(* Frames the device has begun to write. *)
Begun == IF writing THEN filled + 1 ELSE filled

(* The device stays behind the buffers posted to it, the driver behind the *)
(* device by at most a ring, less the buffer that is still held.           *)
CursorInv ==
    /\ writing => filled < MaxFrames
    /\ Begun <= posted /\ posted <= write_idx
    /\ write_idx <= RXQ_SIZE + read_idx
    /\ held # NoSlot => /\ write_idx < RXQ_SIZE + read_idx
                        /\ read_idx >= 1 /\ held = SlotOf(read_idx - 1)
    /\ Len(delivered) = read_idx

(* A slot holds frames of its own, a length only where a frame was written. *)
SlotInv ==
    \A s \in Slots :
        /\ bufs[s] # 0 => bufs[s] <= Begun /\ SlotOf(bufs[s] - 1) = s
        /\ rx_status[s] # 0 => SlotOf(rx_status[s] - 1) = s /\ bufs[s] # 0
                               /\ rx_status[s] <= Begun

(* A buffer held was written, and so was the one whose length is pending. *)
HeldInv ==
    /\ held # NoSlot => bufs[held] # 0
    /\ writing => bufs[SlotOf(filled)] = filled + 1

RingInv == TypeOK /\ CursorInv /\ SlotInv /\ HeldInv /\ DeliveredFromItsSlot /\ FirstLapInOrder

-----------------------------------------------------------------------------
(* Every cursor has a slot. *)
LEMMA SlotOfInSlots ==
    ASSUME NEW i \in Nat
    PROVE  SlotOf(i) \in Slots
BY RingAssumption DEF SlotOf, Slots

(* In the first lap a cursor is its slot. *)
LEMMA SlotOfFirstLap ==
    ASSUME NEW i \in Nat, i < RXQ_SIZE
    PROVE  SlotOf(i) = i
BY RingAssumption DEF SlotOf

(* Of the cursors less than a lap past a slot of the first lap, only the   *)
(* slot itself is in it.                                                   *)
LEMMA OnlyOneInALap ==
    ASSUME NEW i \in Nat, NEW s \in Slots, SlotOf(i) = s, i < RXQ_SIZE + s
    PROVE  i = s
<1> DEFINE lap == i \div RXQ_SIZE
<1>1. lap \in Nat /\ RXQ_SIZE \in Nat /\ s \in Nat
  BY RingAssumption DEF Slots
<1>2. i = RXQ_SIZE * lap + s
  BY RingAssumption DEF SlotOf
<1>3. CASE lap = 0
  BY <1>1, <1>2, <1>3
<1>4. CASE lap >= 1
  <2>1. RXQ_SIZE * lap = RXQ_SIZE * (lap - 1) + RXQ_SIZE /\ RXQ_SIZE * (lap - 1) >= 0
    BY <1>1, <1>4
  <2> QED
    BY <1>1, <1>2, <2>1
<1> QED
  BY <1>1, <1>3, <1>4

-----------------------------------------------------------------------------

(* The ring starts with all of its buffers available. *)
LEMMA InitHolds == Init => RingInv
<1> SUFFICES ASSUME Init PROVE RingInv
  OBVIOUS
<1>1. TypeOK
  <2>1. delivered \in Seq([data : 0 .. MaxFrames, len : 0 .. MaxFrames])
    BY EmptySeq DEF Init
  <2>2. writing \in BOOLEAN
    BY DEF Init
  <2> QED
    BY <2>1, <2>2, RingAssumption, FrameAssumption DEF Init, TypeOK, Slots, NoSlot
<1>2. Len(delivered) = 0
  BY EmptySeq DEF Init
<1>3. CursorInv
  BY <1>2, RingAssumption DEF Init, CursorInv, Begun, NoSlot
<1>4. SlotInv /\ HeldInv
  BY DEF Init, SlotInv, HeldInv, NoSlot, Slots
<1>5. DeliveredFromItsSlot /\ FirstLapInOrder
  BY <1>2 DEF DeliveredFromItsSlot, FirstLapInOrder
<1> QED
  BY <1>1, <1>3, <1>4, <1>5 DEF RingInv

(* The device writes a buffer it owns, which no caller holds: that one is  *)
(* a lap behind.                                                           *)
LEMMA DeviceWritesBufferKeeps == RingInv /\ DeviceWritesBuffer => RingInv'
<1> SUFFICES ASSUME RingInv, DeviceWritesBuffer PROVE RingInv'
  OBVIOUS
<1>0. /\ filled \in Nat /\ posted \in Nat /\ write_idx \in Nat
      /\ MaxFrames \in Nat /\ filled < MaxFrames
      /\ bufs \in [Slots -> 0 .. MaxFrames]
  BY FrameAssumption DEF RingInv, TypeOK, DeviceWritesBuffer
<1>1. SlotOf(filled) \in Slots
  BY <1>0, SlotOfInSlots
<1>2. /\ bufs' = [bufs EXCEPT ![SlotOf(filled)] = filled + 1]
      /\ writing' = TRUE /\ writing = FALSE /\ filled < posted
      /\ UNCHANGED <<rx_status, read_idx, write_idx, held, delivered,
                     rx_write_ptr, posted, filled>>
  BY DEF DeviceWritesBuffer, driverVars, pointerVars, RingInv, TypeOK
<1>3. TypeOK'
  <2>1. bufs' \in [Slots -> 0 .. MaxFrames]
    BY <1>0, <1>1, <1>2
  <2>2. writing' \in BOOLEAN
    BY <1>2
  <2> QED
    BY <1>2, <2>1, <2>2 DEF RingInv, TypeOK
<1>4. Begun' = filled + 1 /\ Begun = filled
  BY <1>2 DEF Begun
<1>5. CursorInv'
  <2>1. Begun' <= posted'
    BY <1>0, <1>2, <1>4
  <2> QED
    BY <1>0, <1>2, <2>1 DEF RingInv, CursorInv
<1>6. SlotInv'
  <2> SUFFICES ASSUME NEW s \in Slots
               PROVE  /\ bufs'[s] # 0 => bufs'[s] <= filled + 1 /\ SlotOf(bufs'[s] - 1) = s
                      /\ rx_status[s] # 0 => SlotOf(rx_status[s] - 1) = s /\ bufs'[s] # 0
                                             /\ rx_status[s] <= filled + 1
    BY <1>2, <1>4 DEF SlotInv, SlotOf
  <2>1. CASE s = SlotOf(filled)
    <3>1. bufs'[s] = filled + 1 /\ filled + 1 - 1 = filled
      BY <1>0, <1>1, <1>2, <2>1
    <3>2. rx_status[s] \in Nat
      BY <1>0 DEF RingInv, TypeOK
    <3> QED
      BY <1>0, <1>4, <2>1, <3>1, <3>2 DEF RingInv, SlotInv
  <2>2. CASE s # SlotOf(filled)
    <3>1. bufs'[s] = bufs[s] /\ bufs[s] \in Nat /\ rx_status[s] \in Nat
      BY <1>0, <1>1, <1>2, <2>2 DEF RingInv, TypeOK
    <3> QED
      BY <1>0, <1>4, <3>1 DEF RingInv, SlotInv
  <2> QED
    BY <2>1, <2>2
<1>7. HeldInv'
  <2>1. bufs'[SlotOf(filled)] = filled + 1
    BY <1>0, <1>1, <1>2
  <2>2. ASSUME held # NoSlot PROVE bufs'[held] # 0
    <3>1. held \in Slots /\ bufs[held] # 0
      BY <2>2 DEF RingInv, TypeOK, HeldInv
    <3> QED
      BY <1>0, <1>1, <1>2, <3>1
  <2> QED
    BY <1>2, <2>1, <2>2 DEF HeldInv, SlotOf, NoSlot
<1>8. DeliveredFromItsSlot' /\ FirstLapInOrder'
  BY <1>2 DEF RingInv, DeliveredFromItsSlot, FirstLapInOrder, SlotOf
<1> QED
  BY <1>3, <1>5, <1>6, <1>7, <1>8 DEF RingInv

(* The length follows its buffer. *)
LEMMA DeviceWritesStatusKeeps == RingInv /\ DeviceWritesStatus => RingInv'
<1> SUFFICES ASSUME RingInv, DeviceWritesStatus PROVE RingInv'
  OBVIOUS
<1>0. /\ filled \in Nat /\ filled < MaxFrames /\ MaxFrames \in Nat
      /\ rx_status \in [Slots -> 0 .. MaxFrames]
      /\ bufs[SlotOf(filled)] = filled + 1
  BY FrameAssumption DEF RingInv, TypeOK, DeviceWritesStatus, CursorInv, HeldInv
<1>1. SlotOf(filled) \in Slots
  BY <1>0, SlotOfInSlots
<1>2. /\ rx_status' = [rx_status EXCEPT ![SlotOf(filled)] = filled + 1]
      /\ writing' = FALSE /\ filled' = filled + 1
      /\ UNCHANGED <<bufs, read_idx, write_idx, held, delivered, rx_write_ptr, posted>>
  BY DEF DeviceWritesStatus, driverVars, pointerVars
<1>3. TypeOK'
  <2>1. rx_status' \in [Slots -> 0 .. MaxFrames] /\ filled' \in 0 .. MaxFrames
    BY <1>0, <1>1, <1>2
  <2>2. writing' \in BOOLEAN
    BY <1>2
  <2> QED
    BY <1>2, <2>1, <2>2 DEF RingInv, TypeOK
<1>4. Begun' = filled + 1 /\ Begun = filled + 1
  BY <1>2 DEF Begun, DeviceWritesStatus
<1>5. CursorInv'
  BY <1>2, <1>4 DEF RingInv, CursorInv
<1>6. SlotInv'
  <2> SUFFICES ASSUME NEW s \in Slots
               PROVE  /\ bufs[s] # 0 => bufs[s] <= filled + 1 /\ SlotOf(bufs[s] - 1) = s
                      /\ rx_status'[s] # 0 => SlotOf(rx_status'[s] - 1) = s /\ bufs[s] # 0
                                              /\ rx_status'[s] <= filled + 1
    BY <1>2, <1>4 DEF SlotInv, SlotOf
  <2>1. bufs[s] # 0 => bufs[s] <= filled + 1 /\ SlotOf(bufs[s] - 1) = s
    BY <1>4 DEF RingInv, SlotInv
  <2>2. CASE s = SlotOf(filled)
    <3>1. rx_status'[s] = filled + 1 /\ filled + 1 - 1 = filled /\ filled + 1 # 0
      BY <1>0, <1>1, <1>2, <2>2
    <3> QED
      BY <1>0, <2>1, <2>2, <3>1
  <2>3. CASE s # SlotOf(filled)
    <3>1. rx_status'[s] = rx_status[s]
      BY <1>0, <1>1, <1>2, <2>3
    <3> QED
      BY <1>4, <2>1, <3>1 DEF RingInv, SlotInv
  <2> QED
    BY <2>2, <2>3, <2>1
<1>7. HeldInv'
  BY <1>2 DEF RingInv, HeldInv, NoSlot
<1>8. DeliveredFromItsSlot' /\ FirstLapInOrder'
  BY <1>2 DEF RingInv, DeliveredFromItsSlot, FirstLapInOrder, SlotOf
<1> QED
  BY <1>3, <1>5, <1>6, <1>7, <1>8 DEF RingInv

(* What a slot of the first lap holds, while less than a lap is posted     *)
(* beyond it, is its own frame.                                            *)
LEMMA OwnFrame ==
    ASSUME RingInv, NEW s \in Slots, write_idx <= RXQ_SIZE + s
    PROVE  /\ bufs[s] # 0 => bufs[s] = s + 1
           /\ rx_status[s] # 0 => rx_status[s] = s + 1
<1>0. /\ bufs[s] \in Nat /\ rx_status[s] \in Nat /\ filled \in Nat
      /\ posted \in Nat /\ write_idx \in Nat /\ s \in Nat /\ RXQ_SIZE \in Nat
  BY RingAssumption, FrameAssumption DEF RingInv, TypeOK, Slots
<1>1. Begun \in Nat
  BY <1>0 DEF Begun
<1>2. Begun <= RXQ_SIZE + s
  BY <1>0, <1>1 DEF RingInv, CursorInv
<1>3. ASSUME bufs[s] # 0 PROVE bufs[s] = s + 1
  <2>1. bufs[s] <= Begun /\ SlotOf(bufs[s] - 1) = s
    BY <1>3 DEF RingInv, SlotInv
  <2>2. bufs[s] - 1 \in Nat /\ bufs[s] - 1 < RXQ_SIZE + s
    BY <1>0, <1>1, <1>2, <1>3, <2>1
  <2>3. bufs[s] - 1 = s
    BY <2>1, <2>2, OnlyOneInALap
  <2> QED
    BY <1>0, <2>3
<1>4. ASSUME rx_status[s] # 0 PROVE rx_status[s] = s + 1
  <2>1. rx_status[s] <= Begun /\ SlotOf(rx_status[s] - 1) = s
    BY <1>4 DEF RingInv, SlotInv
  <2>2. rx_status[s] - 1 \in Nat /\ rx_status[s] - 1 < RXQ_SIZE + s
    BY <1>0, <1>1, <1>2, <1>4, <2>1
  <2>3. rx_status[s] - 1 = s
    BY <2>1, <2>2, OnlyOneInALap
  <2> QED
    BY <1>0, <2>3
<1> QED
  BY <1>3, <1>4

(* What receive returns comes from the slot its cursor is at. *)
LEMMA ReceiveKeeps == RingInv /\ Receive => RingInv'
<1> SUFFICES ASSUME RingInv, Receive PROVE RingInv'
  OBVIOUS
<1> DEFINE s == SlotOf(read_idx)
           got == [data |-> bufs[s], len |-> rx_status[s]]
<1>0. /\ read_idx \in Nat /\ read_idx < MaxReads /\ MaxReads \in Nat
      /\ write_idx \in Nat /\ RXQ_SIZE \in Nat
      /\ s \in Slots
      /\ bufs[s] \in 0 .. MaxFrames /\ rx_status[s] \in 0 .. MaxFrames
  <2>1. read_idx \in Nat
    BY DEF RingInv, TypeOK
  <2>2. s \in Slots
    BY <2>1, SlotOfInSlots
  <2> QED
    BY <2>1, <2>2, FrameAssumption, RingAssumption DEF RingInv, TypeOK, Receive
<1>1. /\ held = NoSlot /\ held' = s
      /\ read_idx' = read_idx + 1
      /\ delivered' = Append(delivered, got)
      /\ UNCHANGED <<bufs, rx_status, write_idx, rx_write_ptr, posted, filled, writing>>
  BY DEF Receive, pointerVars
<1>2. rx_status[s] # 0 /\ bufs[s] # 0
      /\ SlotOf(rx_status[s] - 1) = s /\ SlotOf(bufs[s] - 1) = s
  BY <1>0 DEF Receive, HasFrame, RingInv, SlotInv
<1>3. /\ got \in [data : 0 .. MaxFrames, len : 0 .. MaxFrames]
      /\ delivered \in Seq([data : 0 .. MaxFrames, len : 0 .. MaxFrames])
      /\ Len(delivered) = read_idx
  BY <1>0 DEF RingInv, TypeOK, CursorInv
<1>4. /\ delivered' \in Seq([data : 0 .. MaxFrames, len : 0 .. MaxFrames])
      /\ Len(delivered') = read_idx + 1
      /\ \A i \in 1 .. read_idx : delivered'[i] = delivered[i]
      /\ delivered'[read_idx + 1] = got
  BY <1>1, <1>3, AppendProperties
<1>5. TypeOK'
  <2>1. read_idx' \in 0 .. MaxReads
    BY <1>0, <1>1
  <2>2. held' \in Slots \union {NoSlot}
    BY <1>0, <1>1
  <2> QED
    BY <1>1, <1>4, <2>1, <2>2 DEF RingInv, TypeOK, NoSlot
<1>6. CursorInv'
  <2>1. read_idx' - 1 = read_idx /\ read_idx' >= 1
    BY <1>0, <1>1
  <2>2. write_idx' < RXQ_SIZE + read_idx' /\ write_idx' <= RXQ_SIZE + read_idx'
    BY <1>0, <1>1 DEF RingInv, CursorInv
  <2>3. Begun' = Begun
    BY <1>1 DEF Begun
  <2>4. held' = SlotOf(read_idx - 1 + 1) /\ held' = SlotOf(read_idx' - 1)
    BY <1>0, <1>1, <2>1
  <2>5. Len(delivered') = read_idx'
    BY <1>1, <1>4
  <2> QED
    BY <1>1, <2>1, <2>2, <2>3, <2>4, <2>5 DEF RingInv, CursorInv, SlotOf
<1>7. SlotInv'
  BY <1>1 DEF RingInv, SlotInv, Begun, SlotOf
<1>8. HeldInv'
  BY <1>0, <1>1, <1>2 DEF RingInv, HeldInv, SlotOf
<1>9. DeliveredFromItsSlot'
  <2> SUFFICES ASSUME NEW i \in 1 .. read_idx + 1
               PROVE  /\ delivered'[i].data # 0
                      /\ SlotOf(delivered'[i].data - 1) = SlotOf(i - 1)
                      /\ SlotOf(delivered'[i].len - 1) = SlotOf(i - 1)
    BY <1>4 DEF DeliveredFromItsSlot, SlotOf
  <2>1. CASE i = read_idx + 1
    <3>1. i - 1 = read_idx
      BY <1>0, <2>1
    <3> QED
      BY <1>2, <1>4, <2>1, <3>1
  <2>2. CASE i \in 1 .. read_idx
    BY <1>3, <1>4, <2>2 DEF RingInv, DeliveredFromItsSlot
  <2> QED
    BY <1>0, <2>1, <2>2
<1>10. FirstLapInOrder'
  <2> SUFFICES ASSUME NEW i \in 1 .. read_idx + 1, i <= RXQ_SIZE
               PROVE  delivered'[i] = [data |-> i, len |-> i]
    BY <1>4 DEF FirstLapInOrder
  <2>1. CASE i = read_idx + 1
    <3>1. s = read_idx
      BY <1>0, <2>1, SlotOfFirstLap
    <3>2. write_idx <= RXQ_SIZE + read_idx
      BY DEF RingInv, CursorInv
    <3>3. bufs[s] = s + 1 /\ rx_status[s] = s + 1
      BY <1>0, <1>2, <3>1, <3>2, OwnFrame
    <3> QED
      BY <1>4, <2>1, <3>1, <3>3
  <2>2. CASE i \in 1 .. read_idx
    BY <1>3, <1>4, <2>2 DEF RingInv, FirstLapInOrder
  <2> QED
    BY <1>0, <2>1, <2>2
<1> QED
  BY <1>5, <1>6, <1>7, <1>8, <1>9, <1>10 DEF RingInv

(* Recycling or forgetting a buffer posts at most what was held. *)
LEMMA ReleaseKeeps == RingInv /\ (Recycle \/ Drop) => RingInv'
<1> SUFFICES ASSUME RingInv, Recycle \/ Drop PROVE RingInv'
  OBVIOUS
<1>0. write_idx \in Nat /\ read_idx \in Nat /\ posted \in Nat /\ RXQ_SIZE \in Nat
  BY RingAssumption DEF RingInv, TypeOK
<1>1. /\ held # NoSlot /\ held' = NoSlot
      /\ write_idx' \in {write_idx, write_idx + 1}
      /\ UNCHANGED <<bufs, rx_status, read_idx, rx_write_ptr, posted, filled, writing, delivered>>
  BY DEF Recycle, Drop, CountRecycled, pointerVars
<1>2. TypeOK'
  BY <1>0, <1>1 DEF RingInv, TypeOK, NoSlot
<1>3. CursorInv'
  <2>1. posted <= write_idx' /\ write_idx' <= RXQ_SIZE + read_idx
    BY <1>0, <1>1 DEF RingInv, CursorInv
  <2> QED
    BY <1>1, <2>1 DEF RingInv, CursorInv, Begun, NoSlot
<1>4. SlotInv' /\ HeldInv'
  BY <1>1 DEF RingInv, SlotInv, HeldInv, Begun, SlotOf, NoSlot
<1>5. DeliveredFromItsSlot' /\ FirstLapInOrder'
  BY <1>1 DEF RingInv, DeliveredFromItsSlot, FirstLapInOrder, SlotOf
<1> QED
  BY <1>2, <1>3, <1>4, <1>5 DEF RingInv

(* The register gets a cursor of the driver's. *)
LEMMA PokeKeeps == RingInv /\ PokeRxWritePtr => RingInv'
<1> SUFFICES ASSUME RingInv, PokeRxWritePtr PROVE RingInv'
  OBVIOUS
<1>0. /\ write_idx \in Nat /\ posted \in Nat /\ filled \in Nat
      /\ SlotOf(write_idx) \in Slots
  BY SlotOfInSlots DEF RingInv, TypeOK
<1>1. /\ posted' = write_idx /\ rx_write_ptr' = SlotOf(write_idx)
      /\ UNCHANGED <<bufs, rx_status, read_idx, write_idx, held, delivered, filled, writing>>
  BY DEF PokeRxWritePtr, Available, RegisterValue, driverVars
<1>2. TypeOK'
  BY <1>0, <1>1 DEF RingInv, TypeOK, NoSlot
<1>3. CursorInv'
  <2>1. Begun <= write_idx /\ Begun' = Begun
    BY <1>0, <1>1 DEF RingInv, CursorInv, Begun
  <2> QED
    BY <1>0, <1>1, <2>1 DEF RingInv, CursorInv, SlotOf, NoSlot
<1>4. SlotInv' /\ HeldInv'
  BY <1>1 DEF RingInv, SlotInv, HeldInv, Begun, SlotOf, NoSlot
<1>5. DeliveredFromItsSlot' /\ FirstLapInOrder'
  BY <1>1 DEF RingInv, DeliveredFromItsSlot, FirstLapInOrder, SlotOf
<1> QED
  BY <1>2, <1>3, <1>4, <1>5 DEF RingInv

(* RingInv is inductive. *)
LEMMA Invariance == Spec => []RingInv
<1>1. RingInv /\ [Next]_vars => RingInv'
  <2> SUFFICES ASSUME RingInv, [Next]_vars PROVE RingInv'
    OBVIOUS
  <2>1. CASE UNCHANGED vars
    BY <2>1 DEF vars, RingInv, TypeOK, CursorInv, SlotInv, HeldInv, Begun, NoSlot,
                DeliveredFromItsSlot, FirstLapInOrder, SlotOf
  <2> QED
    BY <2>1, DeviceWritesBufferKeeps, DeviceWritesStatusKeeps, ReceiveKeeps,
       ReleaseKeeps, PokeKeeps DEF Next
<1> QED
  BY InitHolds, <1>1, PTL DEF Spec

(* The cursors and the ring keep their types, so no slot outside the ring  *)
(* is ever touched, whatever the number of laps (RxQueue, tx_rx.rs).       *)
THEOREM TypeCorrect == Spec => []TypeOK
<1>1. RingInv => TypeOK
  BY DEF RingInv
<1> QED
  BY <1>1, Invariance, PTL

(* For a ring of any size the first lap comes out whole and in order       *)
(* (receive, tx_rx.rs).                                                    *)
THEOREM FirstLapCorrect == Spec => []FirstLapInOrder
<1>1. RingInv => FirstLapInOrder
  BY DEF RingInv
<1> QED
  BY <1>1, Invariance, PTL

(* After any number of laps receive returns frames of the slot its cursor  *)
(* is at, and never an unwritten buffer (receive, tx_rx.rs).               *)
THEOREM DeliveryCorrect == Spec => []DeliveredFromItsSlot
<1>1. RingInv => DeliveredFromItsSlot
  BY DEF RingInv
<1> QED
  BY <1>1, Invariance, PTL

(* The device stays a lap behind a buffer held in the first lap, although  *)
(* buffers are recycled and posted at any moment (receive, recycle).       *)
THEOREM HeldIsSafe == Spec => []HeldUntouchedInFirstLap
<1>1. RingInv => HeldUntouchedInFirstLap
  <2> SUFFICES ASSUME RingInv, read_idx <= RXQ_SIZE, held # NoSlot
               PROVE  bufs[held] = delivered[read_idx].len
    BY DEF HeldUntouchedInFirstLap
  <2>1. /\ read_idx \in Nat /\ read_idx >= 1 /\ write_idx \in Nat /\ RXQ_SIZE \in Nat
        /\ held \in Slots /\ held = SlotOf(read_idx - 1) /\ bufs[held] # 0
        /\ write_idx < RXQ_SIZE + read_idx /\ Len(delivered) = read_idx
    BY RingAssumption DEF RingInv, TypeOK, CursorInv, HeldInv
  <2>2. held = read_idx - 1
    BY <2>1, SlotOfFirstLap
  <2>3. bufs[held] = read_idx
    <3>1. write_idx <= RXQ_SIZE + held
      BY <2>1, <2>2
    <3>2. bufs[held] = held + 1
      BY <2>1, <3>1, OwnFrame
    <3> QED
      BY <2>1, <2>2, <3>2
  <2>4. delivered[read_idx] = [data |-> read_idx, len |-> read_idx]
    BY <2>1 DEF RingInv, FirstLapInOrder
  <2> QED
    BY <2>3, <2>4
<1> QED
  BY <1>1, Invariance, PTL
=============================================================================
