--------------------------- MODULE BringUpProofs ----------------------------
(***************************************************************************)
(* Proofs about the two things that come before the radio is up: the way   *)
(* from the PCI bus to a controller (src/src/pci.rs, src/src/driver.rs)    *)
(* for any number of slots and functions, any mixture of devices and any   *)
(* number of polls, and the reading of a firmware image                    *)
(* (src/src/firmware.rs) of any number of entries, cut at any byte.        *)
(***************************************************************************)
EXTENDS Firmware, Probe, DataFacts


Walking == boot_pc \in {"probe", "none"}

(* Only hidden adapters are left behind, and the walk looks at another than *)
(* function 0 only where function 0 is Intel's and says that there are others.      *)
WalkInv ==
    /\ slot \in 1 .. Slots + 1 /\ func \in Functions
    /\ Walking => \A p \in Adapters : Before(p, Here) => Hidden(p)
    /\ boot_pc = "none" => slot > Slots
    /\ boot_pc = "probe" /\ func # 0 =>
          slot \in multi /\ cells[<<slot, 0>>].vendor = "intel"

DeviceInv ==
    /\ flags \in 0 .. 15
    /\ pci_command \in [Places -> SUBSET {IO, MEMORY, MASTER}]
    /\ Walking => ~ device.found
    /\ ~ Walking => /\ device.found /\ device.place \in Places
                    /\ device.bar0 = Base(device.place)
    /\ boot_pc \notin {"probe", "none", "init"} => mmio = device.bar0

(* Access is granted only after the reset, which nothing but the driver's  *)
(* one write starts.                                                       *)
RegisterInv ==
    /\ boot_pc \in {"probe", "none", "init", "write_reset"} =>
          ~ resetting /\ ~ access_req /\ ~ init_done
    /\ init_done => access_req /\ ~ resetting
    /\ boot_pc = "constructed" => init_done

ProbeInv ==
    WalkInv /\ DeviceInv /\ RegisterInv /\ FoundIsTheFirst /\ OnlyTheFoundIsEnabled

-----------------------------------------------------------------------------
(* Masking the flags gives the base address back. *)
LEMMA BarIsBase ==
    ASSUME flags \in 0 .. 15, NEW p \in Places
    PROVE  BarAddress(p) = Base(p)
<1>1. /\ p[1] \in Nat /\ p[2] \in Nat /\ LastFunction + 1 \in Nat
  BY ProbeAssumption DEF Places, Functions
<1> DEFINE k == p[1] * (LastFunction + 1) + p[2]
<1>2. k \in Nat
  BY <1>1
<1>3. Page(p) = 4096 * k
  BY DEF Page
<1> HIDE DEF k
<1>4. (4096 * k + flags) % 16 = flags
  BY <1>2
<1>5. (4096 * k + flags) - flags = 4096 * k
  BY <1>2
<1> QED
  BY <1>3, <1>4, <1>5 DEF BarAddress, Base

(* The walk starts where nothing is behind it and no device is found. *)
LEMMA InitHolds == ProbeInit => ProbeInv
<1> SUFFICES ASSUME ProbeInit PROVE ProbeInv
  OBVIOUS
<1>1. WalkInv
  BY ProbeAssumption DEF ProbeInit, WalkInv, Walking, Functions, Places, Here, Before,
                         Adapters
<1>2. DeviceInv /\ OnlyTheFoundIsEnabled
  BY ProbeAssumption DEF ProbeInit, DeviceInv, Walking, NoDevice, OnlyTheFoundIsEnabled
<1>3. RegisterInv
  BY DEF ProbeInit, RegisterInv
<1>4. FoundIsTheFirst
  BY DEF ProbeInit, FoundIsTheFirst
<1> QED
  BY <1>1, <1>2, <1>3, <1>4 DEF ProbeInv

(* Where the walk goes leaves only hidden adapters behind, if what it      *)
(* passes is none and what it skips is not visible or is hidden.           *)
LEMMA GoOnKeeps ==
    ASSUME ProbeInv, boot_pc = "probe", slot <= Slots, NEW skip \in BOOLEAN, GoOn(skip),
           ~ IsAdapter(cells[Here]),
           skip => \A p \in Adapters : p[1] # slot \/ p[2] = func \/ Hidden(p),
           ~ skip => slot \in multi /\ cells[<<slot, 0>>].vendor = "intel"
    PROVE  ProbeInv'
<1>0. /\ slot \in 1 .. Slots /\ func \in 0 .. LastFunction
      /\ Slots \in Nat /\ LastFunction \in Nat
  BY ProbeAssumption DEF ProbeInv, WalkInv, Functions
<1>1. /\ UNCHANGED <<cells, multi, flags, high, pci_command, boot_pc, device, mmio,
                     resetting, access_req, init_done>>
      /\ \/ slot' = slot + 1 /\ func' = 0 /\ (skip \/ func = LastFunction)
         \/ slot' = slot /\ func' = func + 1 /\ ~ skip /\ func # LastFunction
  BY DEF GoOn, machine, registers, NextSlot
<1>2. Adapters' = Adapters
  BY <1>1 DEF Adapters, Visible
<1>3. ASSUME NEW p \in Adapters, ~ Hidden(p) PROVE ~ Before(p, <<slot', func'>>)
  <2>1. /\ p \in Places /\ p[1] \in 1 .. Slots /\ p[2] \in 0 .. LastFunction
        /\ p = <<p[1], p[2]>> /\ IsAdapter(cells[p])
    BY DEF Adapters, Places, Functions
  <2>2. p # <<slot, func>>
    BY <2>1 DEF Here
  <2>3. p[1] # slot \/ p[2] # func
    BY <2>1, <2>2
  <2>4. ~ (p[1] < slot \/ (p[1] = slot /\ p[2] < func))
    BY <1>3 DEF ProbeInv, WalkInv, Walking, Here, Before
  <2> QED
    BY <1>0, <1>1, <1>3, <2>1, <2>3, <2>4 DEF Before
<1>4. WalkInv'
  <2>1. slot' \in 1 .. Slots + 1 /\ func' \in Functions
    BY <1>0, <1>1 DEF Functions
  <2>2. func' # 0 => slot' \in multi /\ cells[<<slot', 0>>].vendor = "intel"
    BY <1>0, <1>1
  <2> QED
    BY <1>1, <1>2, <1>3, <2>1, <2>2 DEF WalkInv, Walking, Here, Hidden
<1>5. DeviceInv' /\ RegisterInv' /\ OnlyTheFoundIsEnabled'
  BY <1>1 DEF ProbeInv, DeviceInv, RegisterInv, OnlyTheFoundIsEnabled, Walking
<1>6. FoundIsTheFirst'
  BY <1>1 DEF FoundIsTheFirst
<1> QED
  BY <1>4, <1>5, <1>6 DEF ProbeInv

(* A function that is not Intel's: the slot is given up if it is function  *)
(* 0, for all of its adapters are hidden then.                             *)
LEMMA SkipNotIntelKeeps == ProbeInv /\ SkipNotIntel => ProbeInv'
<1> SUFFICES ASSUME ProbeInv, SkipNotIntel PROVE ProbeInv'
  OBVIOUS
<1>1. /\ boot_pc = "probe" /\ slot <= Slots /\ ~ IsAdapter(cells[Here])
      /\ GoOn(func = 0) /\ (func = 0) \in BOOLEAN
  BY DEF SkipNotIntel, IsAdapter
<1>2. func = 0 => \A p \in Adapters : p[1] # slot \/ p[2] = func \/ Hidden(p)
  BY DEF SkipNotIntel, Hidden, Here
<1>3. func # 0 => slot \in multi /\ cells[<<slot, 0>>].vendor = "intel"
  BY <1>1 DEF ProbeInv, WalkInv
<1> QED
  BY <1>1, <1>2, <1>3, GoOnKeeps

(* A function of Intel's that is not known is no adapter. *)
LEMMA SkipUnknownKeeps == ProbeInv /\ SkipUnknown => ProbeInv'
<1> SUFFICES ASSUME ProbeInv, SkipUnknown PROVE ProbeInv'
  OBVIOUS
<1>1. /\ boot_pc = "probe" /\ slot <= Slots /\ ~ IsAdapter(cells[Here])
      /\ GoOn(SingleFunction) /\ SingleFunction \in BOOLEAN
  BY DEF SkipUnknown, SingleFunction
<1>2. SingleFunction => \A p \in Adapters : p[1] # slot \/ p[2] = func \/ Hidden(p)
  BY DEF SingleFunction, Adapters, Visible
<1>3. ~ SingleFunction => slot \in multi /\ cells[<<slot, 0>>].vendor = "intel"
  BY <1>1 DEF SkipUnknown, SingleFunction, ProbeInv, WalkInv, Here
<1> QED
  BY <1>1, <1>2, <1>3, GoOnKeeps

(* The first adapter met is visible, and no other was passed. *)
LEMMA FoundKeeps == ProbeInv /\ Found => ProbeInv'
<1> SUFFICES ASSUME ProbeInv, Found PROVE ProbeInv'
  OBVIOUS
<1>0. /\ slot \in 1 .. Slots /\ func \in Functions /\ Here \in Places
      /\ Here[1] = slot /\ Here[2] = func
  BY ProbeAssumption DEF ProbeInv, WalkInv, Found, Places, Here
<1>1. /\ UNCHANGED <<cells, multi, flags, high, slot, func, mmio,
                     resetting, access_req, init_done>>
      /\ boot_pc = "probe" /\ boot_pc' = "init" /\ IsAdapter(cells[Here])
      /\ device'.found /\ device'.place = Here /\ device'.bar0 = BarAddress(Here)
      /\ device'.variant = Identify(cells[Here].id)
      /\ pci_command' = [pci_command EXCEPT ![Here] = pci_command[Here] \union {MEMORY, MASTER}]
  BY DEF Found, machine, registers, Enabled
<1>2. Adapters' = Adapters /\ Here' = Here
  BY <1>1 DEF Adapters, Visible, Here
<1>3. Here \in Adapters
  <2>1. cells[<<slot, 0>>].vendor = "intel" /\ (func # 0 => slot \in multi)
    <3>1. CASE func = 0
      BY <1>1, <3>1 DEF IsAdapter, Here
    <3>2. CASE func # 0
      BY <1>1, <3>2 DEF ProbeInv, WalkInv
    <3> QED
      BY <3>1, <3>2
  <2>2. cells[<<slot, 0>>] # Absent
    BY <2>1 DEF Absent
  <2> QED
    BY <1>0, <1>1, <2>1, <2>2 DEF Adapters, Visible
<1>4. WalkInv'
  BY <1>0, <1>1, ProbeAssumption DEF WalkInv, Walking
<1>5. DeviceInv'
  <2>1. flags \in 0 .. 15 /\ device'.bar0 = Base(Here)
    BY <1>0, <1>1, BarIsBase DEF ProbeInv, DeviceInv
  <2>2. pci_command' \in [Places -> SUBSET {IO, MEMORY, MASTER}]
    BY <1>0, <1>1 DEF ProbeInv, DeviceInv
  <2> QED
    BY <1>0, <1>1, <2>1, <2>2 DEF DeviceInv, Walking, Base
<1>6. RegisterInv'
  BY <1>1 DEF ProbeInv, RegisterInv
<1>7. FoundIsTheFirst'
  <2>1. \A p \in Adapters : Before(p, Here) => Hidden(p) /\ Hidden(p)'
    BY <1>1 DEF ProbeInv, WalkInv, Walking, Hidden
  <2>2. cells[Here].id \in Ax201Ids <=> Identify(cells[Here].id) = "AX201"
    BY DEF Identify
  <2> QED
    BY <1>1, <1>2, <1>3, <2>1, <2>2 DEF FoundIsTheFirst, Before
<1>8. OnlyTheFoundIsEnabled'
  <2>1. \A p \in Places : pci_command[p] = {IO}
    BY <1>1 DEF ProbeInv, DeviceInv, Walking, OnlyTheFoundIsEnabled
  <2> QED
    BY <1>0, <1>1, <2>1 DEF ProbeInv, DeviceInv, OnlyTheFoundIsEnabled
<1> QED
  BY <1>4, <1>5, <1>6, <1>7, <1>8 DEF ProbeInv

(* At the end of the walk all slots are behind it. *)
LEMMA NothingFoundKeeps == ProbeInv /\ NothingFound => ProbeInv'
<1> SUFFICES ASSUME ProbeInv, NothingFound PROVE ProbeInv'
  OBVIOUS
<1>1. /\ UNCHANGED <<cells, multi, flags, high, pci_command, slot, func, device, mmio,
                     resetting, access_req, init_done>>
      /\ boot_pc = "probe" /\ boot_pc' = "none" /\ slot > Slots
  BY DEF NothingFound, machine, registers
<1>2. Adapters' = Adapters /\ Here' = Here
  BY <1>1 DEF Adapters, Visible, Here
<1>3. \A p \in Adapters : Hidden(p) /\ Hidden(p)'
  <2> SUFFICES ASSUME NEW p \in Adapters PROVE Hidden(p) /\ Hidden(p)'
    OBVIOUS
  <2>1. p[1] \in 1 .. Slots
    BY DEF Adapters, Places
  <2>2. /\ Before(p, Here) => Hidden(p)
        /\ Here[1] = slot /\ slot \in 1 .. Slots + 1
    BY <1>1 DEF ProbeInv, WalkInv, Walking, Here
  <2>3. Hidden(p)
    BY <1>1, <2>1, <2>2, ProbeAssumption DEF Before
  <2> QED
    BY <1>1, <2>3 DEF Hidden
<1>4. WalkInv'
  BY <1>1, <1>2, <1>3 DEF ProbeInv, WalkInv, Walking
<1>5. DeviceInv' /\ RegisterInv' /\ OnlyTheFoundIsEnabled'
  BY <1>1 DEF ProbeInv, DeviceInv, RegisterInv, OnlyTheFoundIsEnabled, Walking
<1>6. FoundIsTheFirst'
  BY <1>1, <1>2, <1>3 DEF FoundIsTheFirst
<1> QED
  BY <1>4, <1>5, <1>6 DEF ProbeInv

(* After the walk the bus and what was found stay as they are. *)
LEMMA AfterTheWalk ==
    ASSUME ProbeInv, ~ Walking, ~ Walking',
           UNCHANGED <<cells, multi, flags, high, pci_command, slot, func, device>>
    PROVE  WalkInv' /\ FoundIsTheFirst' /\ OnlyTheFoundIsEnabled'
<1>1. Adapters' = Adapters /\ \A p : Hidden(p)' = Hidden(p)
  BY DEF Adapters, Visible, Hidden
<1>2. WalkInv'
  BY DEF ProbeInv, WalkInv, Walking
<1>3. FoundIsTheFirst' /\ OnlyTheFoundIsEnabled'
  BY <1>1 DEF ProbeInv, FoundIsTheFirst, OnlyTheFoundIsEnabled, Before, Walking
<1> QED
  BY <1>2, <1>3

(* The device is reached wherever the driver writes to it. *)
LEMMA DeviceIsReached ==
    ASSUME ProbeInv, boot_pc \notin {"probe", "none", "init"}
    PROVE  Reached
BY DEF ProbeInv, DeviceInv, Walking, OnlyTheFoundIsEnabled, Reached

(* The writes and polls of nic_reset are of a device already found. *)
LEMMA ResetKeeps ==
    ASSUME ProbeInv,
           StartReset \/ WriteReset \/ PollReset \/ RequestAccess \/ PollDone
    PROVE  ProbeInv'
<1>1. /\ ~ Walking /\ ~ Walking'
      /\ UNCHANGED <<cells, multi, flags, high, pci_command, slot, func, device>>
  BY DEF StartReset, WriteReset, PollReset, RequestAccess, PollDone, Move, machine, Walking
<1>2. WalkInv' /\ FoundIsTheFirst' /\ OnlyTheFoundIsEnabled'
  BY <1>1, AfterTheWalk
<1>3. CASE StartReset
  <2>1. DeviceInv'
    BY <1>1, <1>3 DEF ProbeInv, DeviceInv, StartReset, Move, Walking, Base
  <2>2. RegisterInv'
    BY <1>3 DEF ProbeInv, RegisterInv, StartReset, Move, registers
  <2> QED
    BY <1>2, <2>1, <2>2 DEF ProbeInv
<1>4. CASE WriteReset \/ PollReset \/ RequestAccess \/ PollDone
  <2>1. Reached /\ UNCHANGED mmio
    BY <1>4, DeviceIsReached DEF WriteReset, PollReset, RequestAccess, PollDone
  <2>2. DeviceInv'
    <3>1. boot_pc \notin {"probe", "none", "init"}
      BY <1>4 DEF WriteReset, PollReset, RequestAccess, PollDone
    <3> QED
      BY <1>1, <2>1, <3>1 DEF ProbeInv, DeviceInv, Walking, Base
  <2>3. RegisterInv'
    <3>1. CASE WriteReset
      BY <2>1, <3>1 DEF ProbeInv, RegisterInv, WriteReset, Move
    <3>2. CASE PollReset
      BY <3>2 DEF ProbeInv, RegisterInv, PollReset, Move, registers
    <3>3. CASE RequestAccess
      BY <2>1, <3>3 DEF ProbeInv, RegisterInv, RequestAccess, Move
    <3>4. CASE PollDone
      BY <2>1, <3>4 DEF ProbeInv, RegisterInv, PollDone, Move, registers, ReadsAsSet
    <3> QED
      BY <1>4, <3>1, <3>2, <3>3, <3>4
  <2> QED
    BY <1>2, <2>2, <2>3 DEF ProbeInv
<1> QED
  BY <1>3, <1>4

(* The device may end its reset and grant access at any time. *)
LEMMA DeviceKeeps == ProbeInv /\ (ResetEnds \/ GrantAccess) => ProbeInv'
<1> SUFFICES ASSUME ProbeInv, ResetEnds \/ GrantAccess PROVE ProbeInv'
  OBVIOUS
<1>1. UNCHANGED <<cells, multi, flags, high, pci_command, boot_pc, slot, func, device, mmio>>
  BY DEF ResetEnds, GrantAccess, machine
<1>2. /\ ~ Walking /\ ~ Walking' /\ DeviceInv'
      /\ boot_pc \notin {"probe", "none", "init", "write_reset"}
  BY <1>1 DEF ProbeInv, RegisterInv, DeviceInv, Walking, ResetEnds, GrantAccess, Base
<1>3. RegisterInv'
  BY <1>1, <1>2 DEF ProbeInv, RegisterInv, ResetEnds, GrantAccess
<1> QED
  BY <1>1, <1>2, <1>3, AfterTheWalk DEF ProbeInv

(* ProbeInv is inductive. *)
LEMMA Invariance == ProbeSpec => []ProbeInv
<1>1. ProbeInv /\ [ProbeNext]_probeVars => ProbeInv'
  <2> SUFFICES ASSUME ProbeInv, [ProbeNext]_probeVars PROVE ProbeInv'
    OBVIOUS
  <2>1. CASE UNCHANGED probeVars
    BY <2>1 DEF probeVars, ProbeInv, WalkInv, DeviceInv, RegisterInv, FoundIsTheFirst,
                OnlyTheFoundIsEnabled, Walking, Adapters, Visible, Hidden, Here, Before,
                Base
  <2> QED
    BY <2>1, SkipNotIntelKeeps, SkipUnknownKeeps, FoundKeeps, NothingFoundKeeps,
       ResetKeeps, DeviceKeeps DEF ProbeNext, BringUp
<1> QED
  BY InitHolds, <1>1, PTL DEF ProbeSpec

(* On every machine the walk returns, under its name, the first adapter    *)
(* that is not behind a function 0 of another vendor, and none only if     *)
(* all are (scan_pci_bus, pci.rs).                                         *)
THEOREM WalkFindsTheFirst == ProbeSpec => []FoundIsTheFirst
<1>1. ProbeInv => FoundIsTheFirst
  BY DEF ProbeInv
<1> QED
  BY <1>1, Invariance, PTL

(* No function but the one found becomes a bus master (scan_pci_bus,       *)
(* pci_write_u16, pci.rs).                                                 *)
THEOREM NoOtherIsEnabled == ProbeSpec => []OnlyTheFoundIsEnabled
<1>1. ProbeInv => OnlyTheFoundIsEnabled
  BY DEF ProbeInv
<1> QED
  BY <1>1, Invariance, PTL

(* A controller is made only for a device that was reset and has granted   *)
(* access since, whatever the device's timing (init, nic_reset,            *)
(* driver.rs).                                                             *)
THEOREM ControllerHasAccess == ProbeSpec => []ConstructedOnAResetDevice
<1>1. ProbeInv => ConstructedOnAResetDevice
  BY DEF ProbeInv, RegisterInv, ConstructedOnAResetDevice
<1> QED
  BY <1>1, Invariance, PTL

-----------------------------------------------------------------------------
Entry == [type : Types, len : Lengths]

(* The padded length is a number of words that holds the payload. *)
LEMMA Align4Holds ==
    ASSUME NEW n \in Nat
    PROVE  Align4(n) \in Nat /\ n <= Align4(n)
<1>1. (n + 3) \div 4 \in Int /\ (n + 3) % 4 \in 0 .. 3 /\ n + 3 = (4 * ((n + 3) \div 4)) + ((n + 3) % 4)
  BY DivMod
<1> QED
  BY <1>1 DEF Align4

(* The four bytes of n, little end first, behind the first i of u. *)
IsWord(u, i, n) ==
    \E b, c, d \in Nat :
        /\ b = n \div 256 /\ c = b \div 256 /\ d = c \div 256
        /\ u[i + 1] = n % 256 /\ u[i + 2] = b % 256 /\ u[i + 3] = c % 256 /\ u[i + 4] = d

(* A number's bytes are such a word wherever they stand. *)
LEMMA WordAt ==
    ASSUME NEW n \in Nat
    PROVE  /\ U32Bytes(n) \in Seq(Nat) /\ Len(U32Bytes(n)) = 4
           /\ \A u, b : Has(u, b, U32Bytes(n)) => IsWord(u, b, n)
<1>1. PICK b, c, t : b = n \div 256 /\ c = b \div 256 /\ t = c \div 256
  OBVIOUS
<1>2. /\ n % 256 \in Nat /\ b % 256 \in Nat /\ c % 256 \in Nat
      /\ b \in Nat /\ c \in Nat /\ t \in Nat
  <2>1. b \in Nat /\ n % 256 \in Nat
    BY <1>1, TwoBytes
  <2>2. c \in Nat /\ b % 256 \in Nat
    BY <1>1, <2>1, TwoBytes
  <2>3. t \in Nat /\ c % 256 \in Nat
    BY <1>1, <2>2, TwoBytes
  <2> QED
    BY ONLY <2>1, <2>2, <2>3
<1>3. PICK w, x, y, z : w = U32Bytes(n) /\ x = n % 256 /\ y = b % 256 /\ z = c % 256
  OBVIOUS
<1>6. w = <<x, y, z, t>>
  BY ONLY <1>1, <1>3 DEF U32Bytes
<1>4. w \in Seq(Nat) /\ Len(w) = 4 /\ w[1] = x /\ w[2] = y /\ w[3] = z /\ w[4] = t
  BY ONLY <1>2, <1>3, <1>6
<1>5. ASSUME NEW u, NEW k, Has(u, k, w)
      PROVE  IsWord(u, k, n)
  <2>1. \A i \in 1 .. 4 : u[k + i] = w[i]
    BY ONLY <1>4, <1>5 DEF Has
  <2>2. 1 \in 1 .. 4 /\ 2 \in 1 .. 4 /\ 3 \in 1 .. 4 /\ 4 \in 1 .. 4
    OBVIOUS
  <2>3. u[k + 1] = x /\ u[k + 2] = y /\ u[k + 3] = z /\ u[k + 4] = t
    BY ONLY <1>4, <2>1, <2>2
  <2> QED
    BY ONLY <1>1, <1>2, <1>3, <2>3 DEF IsWord
<1> QED
  BY ONLY <1>3, <1>4, <1>5

(* An entry is two words and the padded payload. *)
LEMMA EntryShape ==
    ASSUME NEW e \in Entry
    PROVE  /\ e.type \in Nat /\ e.len \in Nat /\ Align4(e.len) \in Nat /\ e.len <= Align4(e.len)
           /\ EntryBytes(e) \in Seq(Nat)
           /\ Len(EntryBytes(e)) = 8 + Align4(e.len)
           /\ Has(EntryBytes(e), 0, U32Bytes(e.type)) /\ Has(EntryBytes(e), 4, U32Bytes(e.len))
<1>1. e.type \in Nat /\ e.len \in Nat
  BY WordAssumption DEF Entry
<1>2. PICK a \in Seq(Nat), b \in Seq(Nat) : a = U32Bytes(e.type) /\ b = U32Bytes(e.len)
  BY <1>1, WordAt
<1>3. Align4(e.len) \in Nat /\ e.len <= Align4(e.len)
  BY <1>1, Align4Holds
<1>4. PICK n \in Nat : n = Align4(e.len)
  BY <1>3
<1> DEFINE load == [i \in 1 .. n |-> IF i % 4 = 1 THEN 1 ELSE 0]
<1>5. load \in Seq(Nat) /\ Len(load) = n
  OBVIOUS
<1>6. EntryBytes(e) = a \o b \o load
  BY <1>2, <1>4 DEF EntryBytes
<1> HIDE DEF load
<1>7. Len(a) = 4 /\ Len(b) = 4
  BY <1>1, <1>2, WordAt
<1>8. a \o b \in Seq(Nat) /\ Len(a \o b) = 8 /\ Has(a \o b, 0, a) /\ Has(a \o b, 4, b)
  <2>1. /\ a \o b \in Seq(Nat) /\ Len(a \o b) = Len(a) + Len(b)
        /\ Has(a \o b, 0, a) /\ Has(a \o b, Len(a), b)
    BY HasBoth
  <2> QED
    BY <1>7, <2>1
<1>9. PICK w \in Seq(Nat) : w = a \o b
  BY <1>8
<1>10. w \o load \in Seq(Nat) /\ Len(w \o load) = 8 + n /\ Has(w \o load, 0, w)
  BY <1>5, <1>8, <1>9, HasBoth
<1>11. PICK u \in Seq(Nat) : u = w \o load
  BY <1>10
<1>12. Has(u, 0, w) /\ Has(w, 0, a) /\ Has(w, 4, b) /\ 0 = 0 + 0 /\ 4 = 0 + 4
  BY <1>8, <1>9, <1>10, <1>11
<1>13. Has(u, 0, a) /\ Has(u, 4, b)
  <2>1. \A d : d = 0 + 0 => Has(u, d, a)
    BY <1>12, HasWithin
  <2>2. \A d : d = 0 + 4 => Has(u, d, b)
    BY <1>12, HasWithin
  <2> QED
    BY <2>1, <2>2
<1> QED
  BY <1>1, <1>2, <1>3, <1>4, <1>6, <1>9, <1>10, <1>11, <1>13

(* The bytes of an entry, and where each stands in a file. *)
BytesOf == [e \in Entry |-> EntryBytes(e)]
StartOf(es) == [k \in 1 .. Len(es) + 1 |-> Start(HEADER, es, k)]

(* Where the entries of a file stand. *)
Placed(es, n) ==
    /\ \A k \in 1 .. n + 1 : Start(HEADER, es, k) \in Nat
    /\ Start(HEADER, es, 1) = HEADER
    /\ \A j, k \in 1 .. n + 1 : k = j + 1 => Start(HEADER, es, k) = Start(HEADER, es, j) + 8 + Align4(es[j].len)
    /\ \A j, k \in 1 .. n + 1 : j <= k => Start(HEADER, es, j) <= Start(HEADER, es, k)
    /\ Len(FileBytes(HEADER, es)) = Start(HEADER, es, n + 1)
    /\ \A k \in 1 .. n : Has(FileBytes(HEADER, es), Start(HEADER, es, k), EntryBytes(es[k]))

(* The entries of a file follow one another, each whole. *)
LEMMA EntriesPlaced ==
    ASSUME NEW es \in Seq(Entry)
    PROVE  Placed(es, Len(es)) /\ FileBytes(HEADER, es) \in Seq(Nat)
<1> DEFINE header == [i \in 1 .. HEADER |-> 0]
<1>1. header \in Seq(Nat) /\ Len(header) = HEADER /\ HEADER = 24
  BY DEF HEADER
<1>2. Maps(BytesOf, Entry, Seq(Nat))
  BY EntryShape DEF BytesOf, Maps
<1>3. ASSUME NEW some \in Seq(Entry)
      PROVE  FileBytes(HEADER, some) = header \o FlattenSeq(Mapped(some, BytesOf))
  <2>1. \A i \in DOMAIN some : some[i] \in Entry
    BY <1>3
  <2>2. Mapped(some, BytesOf) = [i \in DOMAIN some |-> EntryBytes(some[i])]
    BY <2>1 DEF Mapped, BytesOf
  <2> QED
    BY <2>2 DEF FileBytes
<1> HIDE DEF header
<1>4. PICK n \in Nat : n = Len(es)
  OBVIOUS
<1>5. EndStarts(StartOf(es), header, es, BytesOf, n)
  <2>1. ASSUME NEW k \in 1 .. n + 1
        PROVE  Start(HEADER, es, k) = Len(header \o FlattenSeq(Mapped(SubSeq(es, 1, k - 1), BytesOf)))
    <3>1. SubSeq(es, 1, k - 1) \in Seq(Entry)
      BY <1>4
    <3> QED
      BY <1>3, <3>1 DEF Start
  <2> QED
    BY <1>4, <2>1 DEF EndStarts, StartOf
<1>6. PICK seqs, file : seqs = Mapped(es, BytesOf) /\ file = header \o FlattenSeq(seqs)
  OBVIOUS
<1>7. /\ file \in Seq(Nat) /\ Stand(file, StartOf(es), Len(header), seqs, n)
      /\ \A k \in 1 .. n : seqs[k] = BytesOf[es[k]]
  <2>1. EndStarts(StartOf(es), header, es, BytesOf, Len(es))
    BY <1>4, <1>5
  <2>2. Filed(Nat, header \o FlattenSeq(Mapped(es, BytesOf)), StartOf(es), header,
              Mapped(es, BytesOf), es, BytesOf)
    BY <1>1, <1>2, <2>1, MappedStand
  <2>3. Filed(Nat, file, StartOf(es), header, seqs, es, BytesOf)
    BY <1>6, <2>2
  <2> QED
    BY <1>4, <2>3 DEF Filed
<1>8. file = FileBytes(HEADER, es) /\ \A k \in 1 .. n : es[k] \in Entry /\ seqs[k] = EntryBytes(es[k])
  <2>1. \A k \in 1 .. n : es[k] \in Entry
    BY <1>4
  <2>2. \A e \in Entry : BytesOf[e] = EntryBytes(e)
    BY DEF BytesOf
  <2>3. file = FileBytes(HEADER, es)
    BY <1>3, <1>6
  <2> QED
    BY <1>7, <2>1, <2>2, <2>3
<1>9. \A k \in 1 .. n + 1 : StartOf(es)[k] = Start(HEADER, es, k)
  BY <1>4 DEF StartOf
<1>10. /\ \A k \in 1 .. n + 1 : Start(HEADER, es, k) \in Nat
       /\ \A j, k \in 1 .. n + 1 : j <= k => Start(HEADER, es, j) <= Start(HEADER, es, k)
  BY <1>7, <1>9 DEF Stand
<1>11. \A k \in 1 .. n : Has(file, Start(HEADER, es, k), EntryBytes(es[k]))
  <2>1. \A k \in 1 .. n : k \in 1 .. n + 1
    OBVIOUS
  <2> QED
    BY <1>7, <1>8, <1>9, <2>1 DEF Stand
<1>12. Start(HEADER, es, 1) = HEADER /\ Len(file) = Start(HEADER, es, n + 1)
  <2>1. 1 \in 1 .. n + 1 /\ n + 1 \in 1 .. n + 1
    OBVIOUS
  <2> QED
    BY <1>1, <1>7, <1>9, <2>1 DEF Stand
<1>13. ASSUME NEW j \in 1 .. n + 1, NEW k \in 1 .. n + 1, k = j + 1
       PROVE  Start(HEADER, es, k) = Start(HEADER, es, j) + 8 + Align4(es[j].len)
  <2>1. Start(HEADER, es, k) = Start(HEADER, es, j) + Len(seqs[j])
    BY <1>7, <1>9, <1>13 DEF Stand
  <2>2. Len(seqs[j]) = 8 + Align4(es[j].len) /\ Align4(es[j].len) \in Nat
    <3>1. j \in 1 .. n /\ es[j] \in Entry
      BY <1>4, <1>13
    <3> QED
      BY <1>8, <3>1, EntryShape
  <2>3. PICK x \in Nat, y \in Nat : x = Start(HEADER, es, j) /\ y = Align4(es[j].len)
    BY <1>10, <2>2
  <2>4. x + (8 + y) = x + 8 + y
    OBVIOUS
  <2> QED
    BY <2>1, <2>2, <2>3, <2>4
<1> QED
  BY <1>4, <1>7, <1>8, <1>10, <1>11, <1>12, <1>13 DEF Placed

-----------------------------------------------------------------------------
(* The file as it is there: the beginning of what its entries make. *)
FileCut ==
    /\ entries \in Seq(Entry)
    /\ data \in Seq(Nat)
    /\ Begins(data, FileBytes(HEADER, entries))

(* The entries of es, among the first n, that are whole in l bytes. *)
WholeIn(es, n, l) == {m \in 1 .. n : Start(HEADER, es, m) + 8 + es[m].len <= l}

OfType(es, ms, t) == {m \in ms : es[m].type = t}

(* s is the payload of the last of the entries ms, if there is one. *)
Latest(s, es, ms) ==
    \/ ms = {} /\ s = Empty
    \/ \E m \in ms :
          /\ \A o \in ms : o <= m
          /\ s = [from |-> Start(HEADER, es, m) + 8, len |-> es[m].len]

(* The sections s are the last of their types among the entries ms. *)
Sections(s, es, ms) ==
    /\ s = [t \in Types |-> s[t]]
    /\ \A t \in Types : Latest(s[t], es, OfType(es, ms, t))

(* The walk stands before the k-th entry, with those before it read. *)
ReadTo(k) ==
    /\ k \in 1 .. Len(entries) + 1
    /\ offset = Start(HEADER, entries, k)
    /\ \A m \in 1 .. Len(entries) : m < k => m \in WholeIn(entries, Len(entries), Len(data))
    /\ Sections(section, entries, {m \in 1 .. Len(entries) : m < k})

ImageInv ==
    /\ FileCut
    /\ pc = "header" => section = [t \in Types |-> Empty]
    /\ pc = "walk" => good_magic /\ \E k : ReadTo(k)
    /\ pc \in {"walked", "parsed"} =>
          good_magic /\ Sections(section, entries, WholeIn(entries, Len(entries), Len(data)))
    /\ pc = "parsed" => section[INST].len > 0
    /\ pc = "none" =>
          \/ Len(data) < HEADER \/ ~ good_magic
          \/ /\ Sections(section, entries, WholeIn(entries, Len(entries), Len(data)))
             /\ section[INST].len = 0

(* Where the walk stands before an entry it reads that entry's type and length. *)
LEMMA EntryRead ==
    ASSUME FileCut, NEW k \in 1 .. Len(entries), Start(HEADER, entries, k) + 8 <= Len(data)
    PROVE  \A at, next : at = Start(HEADER, entries, k) /\ next = at + 4 =>
              U32(at) = entries[k].type /\ U32(next) = entries[k].len
<1> DEFINE e == entries[k]
           file == FileBytes(HEADER, entries)
<1>1. /\ Placed(entries, Len(entries)) /\ file \in Seq(Nat) /\ Len(entries) \in Nat
      /\ e \in Entry /\ Len(data) \in Nat
  BY EntriesPlaced DEF FileCut
<1>2. /\ e.type \in Nat /\ e.len \in Nat
      /\ Has(EntryBytes(e), 0, U32Bytes(e.type)) /\ Has(EntryBytes(e), 4, U32Bytes(e.len))
  BY <1>1, EntryShape
<1>3. Has(file, Start(HEADER, entries, k), EntryBytes(e)) /\ Start(HEADER, entries, k) \in Nat
  <2>1. k \in 1 .. Len(entries) + 1
    BY <1>1
  <2> QED
    BY <1>1, <2>1 DEF Placed
<1>4. \A i \in 1 .. Len(data) : data[i] = file[i]
  BY DEF FileCut, Begins
<1> HIDE DEF e, file
<1>5. PICK b \in Nat, l \in Nat : b = Start(HEADER, entries, k) /\ l = Len(data) /\ b + 8 <= l
  BY <1>1, <1>3
<1>6. PICK c \in Nat : c = b + 4
  OBVIOUS
<1>7. Has(file, b, U32Bytes(e.type)) /\ Has(file, c, U32Bytes(e.len))
  <2>1. \A d : d = b + 0 => Has(file, d, U32Bytes(e.type))
    BY <1>2, <1>3, <1>5, HasWithin
  <2>2. \A d : d = b + 4 => Has(file, d, U32Bytes(e.len))
    BY <1>2, <1>3, <1>5, HasWithin
  <2>3. b = b + 0
    OBVIOUS
  <2> QED
    BY <1>6, <2>1, <2>2, <2>3
<1>8. IsWord(file, b, e.type) /\ IsWord(file, c, e.len)
  BY <1>2, <1>7, WordAt
<1>9. \A i \in 1 .. 4 : data[b + i] = file[b + i] /\ data[c + i] = file[c + i]
  <2>1. \A i \in 1 .. 4 : b + i \in 1 .. l /\ c + i \in 1 .. l
    BY <1>5, <1>6
  <2> QED
    BY <1>4, <1>5, <2>1
<1>10. IsWord(data, b, e.type) /\ IsWord(data, c, e.len)
  <2>1. 1 \in 1 .. 4 /\ 2 \in 1 .. 4 /\ 3 \in 1 .. 4 /\ 4 \in 1 .. 4
    OBVIOUS
  <2>2. ASSUME NEW w, NEW n, IsWord(file, w, n), \A i \in 1 .. 4 : data[w + i] = file[w + i]
        PROVE  IsWord(data, w, n)
    <3>1. /\ data[w + 1] = file[w + 1] /\ data[w + 2] = file[w + 2]
          /\ data[w + 3] = file[w + 3] /\ data[w + 4] = file[w + 4]
      BY ONLY <2>1, <2>2
    <3>2. PICK x \in Nat, y \in Nat, z \in Nat :
             /\ x = n \div 256 /\ y = x \div 256 /\ z = y \div 256
             /\ file[w + 1] = n % 256 /\ file[w + 2] = x % 256
             /\ file[w + 3] = y % 256 /\ file[w + 4] = z
      BY ONLY <2>2 DEF IsWord
    <3> QED
      BY ONLY <3>1, <3>2, x \in Nat, y \in Nat, z \in Nat DEF IsWord
  <2>3. /\ \A i \in 1 .. 4 : data[b + i] = file[b + i]
        /\ \A i \in 1 .. 4 : data[c + i] = file[c + i]
    BY ONLY <1>9
  <2> QED
    BY ONLY <1>8, <2>2, <2>3
<1>11. ASSUME NEW at, NEW n \in Nat, IsWord(data, at, n)
       PROVE  U32(at) = n
  <2>1. PICK x \in Nat, y \in Nat, z \in Nat :
           /\ x = n \div 256 /\ y = x \div 256 /\ z = y \div 256
           /\ data[at + 1] = n % 256 /\ data[at + 2] = x % 256
           /\ data[at + 3] = y % 256 /\ data[at + 4] = z
    BY ONLY <1>11 DEF IsWord
  <2>2. n = (n % 256) + 256 * ((x % 256) + 256 * ((y % 256) + 256 * z))
    <3>1. x = n \div 256 /\ y = x \div 256 /\ z = y \div 256
      BY ONLY <2>1
    <3>2. n % 256 \in Nat /\ n = 256 * x + (n % 256)
      BY ONLY n \in Nat, <3>1, TwoBytes
    <3>3. x % 256 \in Nat /\ x = 256 * y + (x % 256)
      BY ONLY x \in Nat, <3>1, TwoBytes
    <3>4. y % 256 \in Nat /\ y = 256 * z + (y % 256)
      BY ONLY y \in Nat, <3>1, TwoBytes
    <3>5. PICK p \in Nat, q \in Nat, r \in Nat : p = n % 256 /\ q = x % 256 /\ r = y % 256
      BY ONLY <3>2, <3>3, <3>4
    <3>6. n = p + 256 * (q + 256 * (r + 256 * z))
      <4>1. n = 256 * x + p /\ x = 256 * y + q /\ y = 256 * z + r
        BY ONLY <3>2, <3>3, <3>4, <3>5
      <4> QED
        BY ONLY <4>1, p \in Nat, q \in Nat, r \in Nat, z \in Nat
    <3> QED
      BY ONLY <3>5, <3>6
  <2> QED
    BY ONLY <2>1, <2>2 DEF U32
<1>12. U32(b) = e.type /\ U32(c) = e.len
  BY <1>2, <1>10, <1>11
<1> QED
  BY <1>5, <1>6, <1>12 DEF e

(* Where the rest of the file is too short no entry follows whole. *)
LEMMA NoneFollows ==
    ASSUME NEW es \in Seq(Entry), NEW k \in 1 .. Len(es) + 1, NEW l \in Nat,
           NEW m \in 1 .. Len(es), m \in WholeIn(es, Len(es), l), k <= m
    PROVE  Start(HEADER, es, k) + 8 + es[k].len <= l /\ Start(HEADER, es, k) + 8 <= l /\ k \in 1 .. Len(es)
<1>1. Placed(es, Len(es)) /\ Len(es) \in Nat
  BY EntriesPlaced
<1>2. k \in 1 .. Len(es) /\ m \in 1 .. Len(es) + 1
  BY <1>1
<1>3. /\ es[k].len \in Nat /\ Align4(es[k].len) \in Nat /\ es[k].len <= Align4(es[k].len)
      /\ es[m].len \in Nat
  <2>1. es[k] \in Entry /\ es[m] \in Entry
    BY <1>2
  <2> QED
    BY <2>1, EntryShape
<1>4. Start(HEADER, es, k) \in Nat /\ Start(HEADER, es, m) \in Nat
  BY <1>1, <1>2 DEF Placed
<1>5. Start(HEADER, es, m) + 8 + es[m].len <= l
  BY DEF WholeIn
<1>6. CASE k = m
  BY <1>2, <1>3, <1>4, <1>5, <1>6
<1>7. CASE k < m
  <2>1. PICK j \in 1 .. Len(es) + 1 : j = k + 1 /\ j <= m
    BY <1>1, <1>2, <1>7
  <2>2. Start(HEADER, es, j) = Start(HEADER, es, k) + 8 + Align4(es[k].len)
    BY <1>1, <2>1 DEF Placed
  <2>3. Start(HEADER, es, j) <= Start(HEADER, es, m)
    BY <1>1, <1>2, <2>1 DEF Placed
  <2>4. PICK a \in Nat, b \in Nat, c \in Nat, d \in Nat, x \in Nat :
           /\ a = Start(HEADER, es, k) /\ b = Align4(es[k].len) /\ c = es[k].len
           /\ d = Start(HEADER, es, m) /\ x = es[m].len
    BY <1>3, <1>4
  <2>5. a + 8 + b <= d /\ c <= b /\ d + 8 + x <= l
    BY <1>3, <1>5, <2>2, <2>3, <2>4
  <2>6. a + 8 + c <= l /\ a + 8 <= l
    BY <2>5
  <2> QED
    BY <1>2, <2>4, <2>6
<1> QED
  BY <1>1, <1>2, <1>6, <1>7

(* The walk has then read exactly the entries that are whole. *)
LEMMA WalkComplete ==
    ASSUME FileCut, NEW k, ReadTo(k),
           ~ (Start(HEADER, entries, k) + 8 <= Len(data) /\ Start(HEADER, entries, k) + 8 + entries[k].len <= Len(data))
    PROVE  Sections(section, entries, WholeIn(entries, Len(entries), Len(data)))
<1>1. \A m \in 1 .. Len(entries) : m \in WholeIn(entries, Len(entries), Len(data)) => m < k
  <2> SUFFICES ASSUME NEW m \in 1 .. Len(entries),
                      m \in WholeIn(entries, Len(entries), Len(data)), ~ m < k
               PROVE  FALSE
    OBVIOUS
  <2>1. k <= m /\ k \in 1 .. Len(entries) + 1 /\ Len(entries) \in Nat /\ Len(data) \in Nat
    BY DEF ReadTo, FileCut
  <2> QED
    BY <2>1, NoneFollows DEF FileCut
<1>2. {m \in 1 .. Len(entries) : m < k} = WholeIn(entries, Len(entries), Len(data))
  BY <1>1 DEF ReadTo, WholeIn
<1> QED
  BY <1>2 DEF ReadTo

(* The walk reads the next entry. *)
LEMMA NextRead ==
    ASSUME NEW es \in Seq(Entry), NEW k \in 1 .. Len(es), NEW s,
           Sections(s, es, {m \in 1 .. Len(es) : m < k})
    PROVE  \A j, r :
              /\ j = k + 1
              /\ r = [t \in Types |-> IF t = es[k].type
                                      THEN [from |-> Start(HEADER, es, k) + 8, len |-> es[k].len]
                                      ELSE s[t]]
              => Sections(r, es, {m \in 1 .. Len(es) : m < j})
<1> SUFFICES ASSUME NEW j, NEW r, j = k + 1,
                    r = [t \in Types |-> IF t = es[k].type
                                         THEN [from |-> Start(HEADER, es, k) + 8, len |-> es[k].len]
                                         ELSE s[t]]
             PROVE  Sections(r, es, {m \in 1 .. Len(es) : m < j})
  OBVIOUS
<1> DEFINE old == {m \in 1 .. Len(es) : m < k}
           new == {m \in 1 .. Len(es) : m < j}
<1>1. new = old \union {k} /\ \A m \in new : m <= k
  OBVIOUS
<1>2. Sections(s, es, old)
  OBVIOUS
<1> HIDE DEF old, new
<1>3. r = [t \in Types |-> r[t]]
  OBVIOUS
<1>4. ASSUME NEW t \in Types
      PROVE  Latest(r[t], es, OfType(es, new, t))
  <2>1. CASE t = es[k].type
    <3>1. k \in OfType(es, new, t) /\ \A m \in OfType(es, new, t) : m <= k
      BY <1>1, <2>1 DEF OfType
    <3>2. r[t] = [from |-> Start(HEADER, es, k) + 8, len |-> es[k].len]
      BY <2>1
    <3> QED
      BY <3>1, <3>2 DEF Latest
  <2>2. CASE t # es[k].type
    <3>1. OfType(es, new, t) = OfType(es, old, t)
      BY <1>1, <2>2 DEF OfType
    <3>2. r[t] = s[t]
      BY <2>2
    <3> QED
      BY <1>2, <3>1, <3>2 DEF Sections
  <2> QED
    BY <2>1, <2>2
<1>5. Sections(r, es, new)
  BY <1>3, <1>4 DEF Sections
<1> QED
  BY <1>5 DEF new
(* What is known before the first step. *)
LEMMA ReadStarts == FirmwareInit /\ begin = HEADER => ImageInv
<1> SUFFICES ASSUME FirmwareInit, begin = HEADER
             PROVE  ImageInv
  OBVIOUS
<1>1. entries \in Seq(Entry)
  BY EntriesAssumption, SeqOfShape DEF FirmwareInit, Entry
<1>2. PICK file \in Seq(Nat) : file = FileBytes(HEADER, entries)
  BY <1>1, EntriesPlaced
<1>3. PICK cut \in 0 .. Len(file) : data = SubSeq(file, 1, cut)
  BY <1>2 DEF FirmwareInit
<1>4. cut \in Nat /\ cut <= Len(file) /\ 0 + cut = cut /\ 0 + 1 = 1
  OBVIOUS
<1>5. data \in Seq(Nat) /\ Len(data) = cut /\ \A i \in 1 .. cut : data[i] = file[i]
  BY <1>3, <1>4
<1>6. FileCut
  BY <1>1, <1>2, <1>4, <1>5 DEF FileCut, Begins
<1> QED
  BY <1>6 DEF ImageInv, FirmwareInit

(* The header read, no entry has been. *)
LEMMA ReadBegins ==
    ASSUME FileCut, section = [t \in Types |-> Empty], offset' = HEADER,
           section' = section, entries' = entries, data' = data
    PROVE  ReadTo(1)'
<1>1. Placed(entries, Len(entries)) /\ Len(entries) \in Nat
  BY EntriesPlaced DEF FileCut
<1>2. 1 \in 1 .. Len(entries) + 1 /\ \A m \in 1 .. Len(entries) : ~ m < 1
  BY <1>1
<1>3. offset' = Start(HEADER, entries, 1)
  BY <1>1 DEF Placed
<1>4. Sections(section, entries, {m \in 1 .. Len(entries) : m < 1})
  <2>1. \A t \in Types : OfType(entries, {m \in 1 .. Len(entries) : m < 1}, t) = {}
    BY <1>2 DEF OfType
  <2> QED
    BY <2>1 DEF Sections, Latest
<1> QED
  BY <1>2, <1>3, <1>4 DEF ReadTo

(* One more entry is read, and the next starts behind its padding. *)
LEMMA ReadGoesOn ==
    ASSUME FileCut, NEW k, ReadTo(k), pc = "walk", WalkEntry, pc' = "walk"
    PROVE  \E j : ReadTo(j)'
<1>1. Placed(entries, Len(entries)) /\ Len(entries) \in Nat /\ Len(data) \in Nat
  BY EntriesPlaced DEF FileCut
<1>2. Start(HEADER, entries, k) + 8 <= Len(data) /\ k \in 1 .. Len(entries) + 1
  BY DEF ReadTo, WalkEntry
<1>3. k \in 1 .. Len(entries)
  <2> SUFFICES ASSUME k \notin 1 .. Len(entries)
               PROVE  FALSE
    OBVIOUS
  <2>1. k = Len(entries) + 1
    BY <1>1, <1>2
  <2>2. Start(HEADER, entries, k) = Len(FileBytes(HEADER, entries)) /\ Start(HEADER, entries, k) \in Nat
    BY <1>1, <1>2, <2>1 DEF Placed
  <2>3. Len(data) <= Len(FileBytes(HEADER, entries))
    BY DEF FileCut, Begins
  <2> QED
    BY <1>1, <1>2, <2>2, <2>3
<1>4. U32(offset) = entries[k].type /\ U32(offset + 4) = entries[k].len
  <2>1. \A at, next : at = Start(HEADER, entries, k) /\ next = at + 4 =>
           U32(at) = entries[k].type /\ U32(next) = entries[k].len
    BY <1>2, <1>3, EntryRead
  <2> QED
    BY <2>1 DEF ReadTo
<1>5. /\ Start(HEADER, entries, k) + 8 + entries[k].len <= Len(data)
      /\ section' = [t \in Types |->
                        IF t = entries[k].type
                        THEN [from |-> Start(HEADER, entries, k) + 8, len |-> entries[k].len]
                        ELSE section[t]]
      /\ offset' = Start(HEADER, entries, k) + 8 + Align4(entries[k].len)
      /\ entries' = entries /\ data' = data
  <2>1. offset = Start(HEADER, entries, k)
    BY DEF ReadTo
  <2> QED
    BY <1>4, <2>1 DEF WalkEntry, FitsIn, Advance, image
<1>6. PICK j : j = k + 1
  OBVIOUS
<1>7. j \in 1 .. Len(entries) + 1 /\ k \in 1 .. Len(entries) + 1
  BY <1>1, <1>3, <1>6
<1>8. offset' = Start(HEADER, entries, j)
  BY <1>1, <1>5, <1>6, <1>7 DEF Placed
<1>9. \A m \in 1 .. Len(entries) : m < j => m \in WholeIn(entries, Len(entries), Len(data))
  <2>1. k \in WholeIn(entries, Len(entries), Len(data))
    BY <1>3, <1>5 DEF WholeIn
  <2>2. \A m \in 1 .. Len(entries) : m < j => m < k \/ m = k
    BY <1>3, <1>6
  <2> QED
    BY <2>1, <2>2 DEF ReadTo
<1>10. Sections(section', entries, {m \in 1 .. Len(entries) : m < j})
  <2>1. Sections(section, entries, {m \in 1 .. Len(entries) : m < k}) /\ entries \in Seq(Entry)
    BY DEF ReadTo, FileCut
  <2> QED
    BY <1>3, <1>5, <1>6, <2>1, NextRead
<1>11. ReadTo(j)'
  BY <1>5, <1>7, <1>8, <1>9, <1>10 DEF ReadTo
<1> QED
  BY <1>11

(* The first entry that is not whole ends the walk. *)
LEMMA ReadStops ==
    ASSUME FileCut, NEW k, ReadTo(k), pc = "walk", WalkEntry \/ WalkEnds, pc' = "walked"
    PROVE  Sections(section, entries, WholeIn(entries, Len(entries), Len(data)))
           /\ UNCHANGED <<image, section>>
<1>1. Placed(entries, Len(entries)) /\ Len(entries) \in Nat /\ Len(data) \in Nat
  BY EntriesPlaced DEF FileCut
<1>2. offset = Start(HEADER, entries, k) /\ k \in 1 .. Len(entries) + 1
  BY DEF ReadTo
<1>3. CASE WalkEnds
  <2>1. ~ Start(HEADER, entries, k) + 8 <= Len(data)
    <3>1. Start(HEADER, entries, k) \in Nat
      BY <1>1, <1>2 DEF Placed
    <3> QED
      BY <1>1, <1>2, <1>3, <3>1 DEF WalkEnds
  <2> QED
    BY <1>3, <2>1, WalkComplete DEF WalkEnds
<1>4. CASE WalkEntry
  <2>1. ~ FitsIn(offset + 8, U32(offset + 4)) /\ UNCHANGED <<image, section>>
    BY <1>4 DEF WalkEntry
  <2>2. CASE k \in 1 .. Len(entries) /\ Start(HEADER, entries, k) + 8 <= Len(data)
    <3>1. \A at, next : at = Start(HEADER, entries, k) /\ next = at + 4 =>
             U32(at) = entries[k].type /\ U32(next) = entries[k].len
      BY <2>2, EntryRead
    <3>2. U32(offset + 4) = entries[k].len
      BY <1>2, <3>1
    <3>3. ~ Start(HEADER, entries, k) + 8 + entries[k].len <= Len(data)
      BY <1>2, <2>1, <3>2 DEF FitsIn
    <3> QED
      BY <2>1, <3>3, WalkComplete
  <2>3. CASE ~ (k \in 1 .. Len(entries) /\ Start(HEADER, entries, k) + 8 <= Len(data))
    <3>1. ~ Start(HEADER, entries, k) + 8 <= Len(data)
      <4>1. CASE k \in 1 .. Len(entries)
        BY <2>3, <4>1
      <4>2. CASE k \notin 1 .. Len(entries)
        <5>1. k = Len(entries) + 1
          BY <1>1, <1>2, <4>2
        <5>2. Start(HEADER, entries, k) = Len(FileBytes(HEADER, entries)) /\ Start(HEADER, entries, k) \in Nat
          BY <1>1, <1>2, <5>1 DEF Placed
        <5>3. Len(data) <= Len(FileBytes(HEADER, entries))
          BY DEF FileCut, Begins
        <5> QED
          BY <1>1, <5>2, <5>3
      <4> QED
        BY <4>1, <4>2
    <3> QED
      BY <2>1, <3>1, WalkComplete
  <2> QED
    BY <2>2, <2>3
<1> QED
  BY <1>3, <1>4

(* A section has a length. *)
LEMMA SectionLengths ==
    ASSUME FileCut, Sections(section, entries, WholeIn(entries, Len(entries), Len(data)))
    PROVE  section[INST].len \in Nat
<1> DEFINE ms == OfType(entries, WholeIn(entries, Len(entries), Len(data)), INST)
<1>1. INST \in Types
  BY WordAssumption DEF INST
<1>2. Latest(section[INST], entries, ms)
  BY <1>1 DEF Sections
<1>3. \A m \in ms : entries[m] \in Entry
  BY DEF FileCut, OfType, WholeIn
<1> HIDE DEF ms
<1>4. \A m \in ms : entries[m].len \in Nat
  BY <1>3, EntryShape
<1>5. CASE section[INST] = Empty
  BY <1>5 DEF Empty
<1>6. ASSUME NEW m \in ms, section[INST] = [from |-> Start(HEADER, entries, m) + 8, len |-> entries[m].len]
      PROVE  section[INST].len \in Nat
  <2>1. section[INST].len = entries[m].len
    BY <1>6
  <2> QED
    BY <1>4, <2>1
<1> QED
  BY <1>2, <1>5, <1>6 DEF Latest

(* The last of a type is the one the property names. *)
LEMMA SectionsAreLast ==
    ASSUME begin = HEADER, FileCut, Sections(section, entries, WholeIn(entries, Len(entries), Len(data)))
    PROVE  \A t \in Types : section[t] = LastSlice(t)
<1> TAKE t \in Types
<1> DEFINE ms == OfType(entries, WholeIn(entries, Len(entries), Len(data)), t)
           found == {n \in Whole : entries[n].type = t}
           last == CHOOSE n \in found : \A m \in found : m <= n
<1>1. DOMAIN entries = 1 .. Len(entries) /\ Len(entries) \in Nat
  BY DEF FileCut
<1>2. found = ms /\ \A n \in ms : n \in Nat
  BY <1>1 DEF Whole, WholeIn, OfType
<1>3. Latest(section[t], entries, ms)
  BY DEF Sections
<1>4. LastSlice(t) = IF found = {} THEN Empty
                     ELSE [from |-> Start(HEADER, entries, last) + 8, len |-> entries[last].len]
  BY DEF LastSlice
<1> HIDE DEF ms, found
<1>5. ASSUME NEW m \in ms, \A o \in ms : o <= m
      PROVE  m = last
  <2>1. last \in found /\ \A o \in found : o <= last
    BY <1>2, <1>5
  <2>2. last <= m /\ m <= last /\ last \in Nat /\ m \in Nat
    BY <1>2, <1>5, <2>1
  <2> HIDE DEF last
  <2> QED
    BY <2>2
<1> HIDE DEF last
<1>6. CASE ms = {}
  BY <1>2, <1>3, <1>4, <1>6 DEF Latest
<1>7. CASE ms # {}
  BY <1>2, <1>3, <1>4, <1>5, <1>7 DEF Latest
<1> QED
  BY <1>6, <1>7

(* Every step keeps what is known. *)
LEMMA ReadKeeps == ImageInv /\ [FirmwareNext]_firmwareVars => ImageInv'
<1> SUFFICES ASSUME ImageInv, [FirmwareNext]_firmwareVars
             PROVE  ImageInv'
  OBVIOUS
<1>1. FileCut
  BY DEF ImageInv
<1>2. CASE ReadHeader
  <2>1. FileCut' /\ section' = section /\ section = [t \in Types |-> Empty] /\ pc' \in {"none", "walk"}
    BY <1>1, <1>2 DEF ReadHeader, ImageInv, image, FileCut
  <2>2. CASE pc' = "none"
    <3>1. Len(data') < HEADER \/ ~ good_magic'
      BY <1>2, <2>2 DEF ReadHeader, image
    <3> QED
      BY <2>1, <2>2, <3>1 DEF ImageInv
  <2>3. CASE pc' = "walk"
    <3>1. good_magic' /\ offset' = HEADER /\ entries' = entries /\ data' = data
      BY <1>2, <2>3 DEF ReadHeader, image
    <3>2. ReadTo(1)'
      BY <1>1, <2>1, <3>1, ReadBegins
    <3> QED
      BY <2>1, <2>3, <3>1, <3>2 DEF ImageInv
  <2> QED
    BY <2>1, <2>2, <2>3
<1>3. CASE WalkEntry \/ WalkEnds
  <2>1. pc = "walk" /\ pc' \in {"walk", "walked"} /\ UNCHANGED image
    BY <1>3 DEF WalkEntry, WalkEnds
  <2>2. PICK k : ReadTo(k)
    BY <2>1 DEF ImageInv
  <2>3. good_magic' /\ FileCut'
    BY <1>1, <2>1 DEF ImageInv, image, FileCut
  <2>4. CASE pc' = "walk"
    <3>1. WalkEntry
      BY <1>3, <2>4 DEF WalkEnds
    <3>2. \E j : ReadTo(j)'
      BY <1>1, <2>1, <2>2, <2>4, <3>1, ReadGoesOn
    <3> QED
      BY <2>3, <2>4, <3>2 DEF ImageInv
  <2>5. CASE pc' = "walked"
    <3>1. /\ Sections(section, entries, WholeIn(entries, Len(entries), Len(data)))
          /\ UNCHANGED <<image, section>>
      BY <1>1, <1>3, <2>1, <2>2, <2>5, ReadStops
    <3>2. Sections(section', entries', WholeIn(entries', Len(entries'), Len(data')))
      BY <3>1 DEF image
    <3> QED
      BY <2>3, <2>5, <3>2 DEF ImageInv
  <2> QED
    BY <2>1, <2>4, <2>5
<1>4. CASE ParseEnds
  <2>1. /\ pc = "walked" /\ UNCHANGED <<image, section>>
        /\ good_magic /\ Sections(section, entries, WholeIn(entries, Len(entries), Len(data)))
    BY <1>4 DEF ParseEnds, ImageInv
  <2>2. FileCut' /\ good_magic' /\ Sections(section', entries', WholeIn(entries', Len(entries'), Len(data')))
    BY <1>1, <2>1 DEF image, FileCut
  <2>3. section[INST].len \in Nat
    BY <1>1, <2>1, SectionLengths
  <2>4. pc' = IF section'[INST].len = 0 THEN "none" ELSE "parsed"
    BY <1>4, <2>1 DEF ParseEnds
  <2>5. section'[INST].len \in Nat
    BY <2>1, <2>3
  <2>6. CASE section'[INST].len = 0
    BY <2>2, <2>4, <2>6 DEF ImageInv
  <2>7. CASE section'[INST].len # 0
    BY <2>2, <2>4, <2>5, <2>7 DEF ImageInv
  <2> QED
    BY <2>6, <2>7
<1>5. ASSUME NEW completes \in BOOLEAN, Upload(completes)
      PROVE  ImageInv'
  <2>1. FileCut' /\ pc' \in {"uploaded", "timed_out"}
    BY <1>1, <1>5 DEF Upload, image, FileCut
  <2> QED
    BY <2>1 DEF ImageInv
<1>6. CASE UNCHANGED firmwareVars
  BY <1>6 DEF firmwareVars, ImageInv, FileCut, ReadTo
<1> QED
  BY <1>2, <1>3, <1>4, <1>5, <1>6 DEF FirmwareNext

(* What is known at the end is what is claimed. *)
LEMMA ReadSuffices == begin = HEADER /\ ImageInv => ReadAsWritten
<1> SUFFICES ASSUME begin = HEADER, ImageInv
             PROVE  ReadAsWritten
  OBVIOUS
<1>1. CASE pc = "parsed"
  <2>1. \A t \in Types : section[t] = LastSlice(t)
    BY <1>1, SectionsAreLast DEF ImageInv
  <2> QED
    BY <1>1, <2>1 DEF ImageInv, ReadAsWritten
<1>2. CASE pc = "none"
  <2>1. CASE Sections(section, entries, WholeIn(entries, Len(entries), Len(data))) /\ section[INST].len = 0
    <3>1. section[INST] = LastSlice(INST)
      <4>1. INST \in Types
        BY WordAssumption DEF INST
      <4>2. \A t \in Types : section[t] = LastSlice(t)
        BY <2>1, SectionsAreLast DEF ImageInv
      <4> QED
        BY <4>1, <4>2
    <3> QED
      BY <1>2, <2>1, <3>1 DEF ReadAsWritten
  <2> QED
    BY <1>2, <2>1 DEF ImageInv, ReadAsWritten
<1> QED
  BY <1>1, <1>2 DEF ReadAsWritten

(* Wherever a firmware file was cut, its sections are those of the entries *)
(* that are whole, if the entries begin where the walk does, at 0x18       *)
(* (parse_firmware, firmware.rs).                                          *)
THEOREM SectionsAreEntries == FirmwareSpec => []SectionsAreTheEntries
<1>1. FirmwareInit => (begin = HEADER => ImageInv)
  BY ReadStarts
<1>2. (begin = HEADER => ImageInv) /\ [FirmwareNext]_firmwareVars => (begin = HEADER => ImageInv)'
  <2>1. [FirmwareNext]_firmwareVars => begin' = begin
    BY DEF FirmwareNext, ReadHeader, WalkEntry, WalkEnds, ParseEnds, Upload, image, firmwareVars
  <2> QED
    BY <2>1, ReadKeeps
<1>3. (begin = HEADER => ImageInv) => SectionsAreTheEntries
  BY ReadSuffices DEF SectionsAreTheEntries
<1> QED
  BY <1>1, <1>2, <1>3, PTL DEF FirmwareSpec
=============================================================================
