------------------------------- MODULE Probe --------------------------------
(***************************************************************************)
(* From the PCI bus to a controller: scan_pci_bus (src/src/pci.rs) walks   *)
(* over the functions of every slot, WifiController::init and nic_reset    *)
(* (src/src/driver.rs) reset what it found.  Bus and device number are one *)
(* slot number.  Configuration space and the device's two registers are    *)
(* external; a register is reached at the device's base address and with   *)
(* memory space enabled, and reads as all ones anywhere else.              *)
(***************************************************************************)
EXTENDS Integers

CONSTANTS
    Slots,              \* slots of the machine
    LastFunction,       \* 7
    Ax201Ids, Ax200Ids, Ax210Ids, Ac9260Ids,    \* tables of device ids
    OtherIds,           \* ids of Intel devices that are no adapters
    BarFlags,           \* low bits of BAR0
    BarHighs,           \* its high word
    MaxPolls            \* polls of each wait

ASSUME ProbeAssumption ==
    /\ Slots \in Nat /\ LastFunction \in Nat /\ MaxPolls \in Nat \ {0}
    /\ BarFlags \subseteq 0 .. 15 /\ BarHighs \subseteq Nat

Ids == Ax201Ids \union Ax200Ids \union Ax210Ids \union Ac9260Ids \union OtherIds
Functions == 0 .. LastFunction
Places == (1 .. Slots) \X Functions

VARIABLES
    cells,              \* [vendor, id] of every place
    multi,              \* slots whose function 0 says it has others
    flags, high,        \* low bits and high word of every BAR0
    pci_command, status,    \* command and latched status bits of every place
    boot_pc, slot, func,
    device,             \* what the walk returned
    mmio,               \* mmio_base
    polls,
    resetting, access_req, init_done    \* the device's registers

machine == <<cells, multi, flags, high>>
registers == <<resetting, access_req, init_done>>
probeVars == <<cells, multi, flags, high, pci_command, status, boot_pc, slot, func,
               device, mmio, polls, resetting, access_req, init_done>>

IO == "io"
MEMORY == "memory"
MASTER == "master"

Absent == [vendor |-> "none"]
Foreign == [vendor |-> "other"]
Intel(id) == [vendor |-> "intel", id |-> id]

NoDevice == [found |-> FALSE]

(* An address is two words of 32 bits. *)
Address(upper, lower) == [upper |-> upper, lower |-> lower]

(* Where the device of a place listens: a page of its own. *)
Page(p) == 4096 * (p[1] * (LastFunction + 1) + p[2])
Base(p) == Address(high, Page(p))

-----------------------------------------------------------------------------
ProbeInit ==
    /\ cells \in [Places -> {Absent, Foreign} \union {Intel(id) : id \in Ids}]
    /\ multi \in SUBSET (1 .. Slots)
    /\ flags \in BarFlags /\ high \in BarHighs
    /\ pci_command = [p \in Places |-> {IO}]
    /\ status = [p \in Places |-> {"error"}]
    /\ boot_pc = "probe"
    /\ slot = 1 /\ func = 0
    /\ device = NoDevice
    /\ mmio = Address(0, 0)
    /\ polls = 0
    /\ resetting = FALSE /\ access_req = FALSE /\ init_done = FALSE

Here == <<slot, func>>

Identify(id) ==
    CASE id \in Ax201Ids -> "AX201"
      [] id \in Ax200Ids \ Ax201Ids -> "AX200"
      [] id \in Ax210Ids \ (Ax201Ids \union Ax200Ids) -> "AX210"
      [] id \in Ac9260Ids \ (Ax201Ids \union Ax200Ids \union Ax210Ids) -> "AC9260"
      [] OTHER -> "none"

IsAdapter(cell) == cell.vendor = "intel" /\ Identify(cell.id) # "none"

(* Slips: a function of a single-function slot is looked at; the address   *)
(* is the low word alone; the other bits of the command are lost; the bus  *)
(* number, a byte, comes round.                                            *)
NeverSingle == FALSE
LowWordOnly(p) == Address(0, Page(p))
EnableBits(bits) == {MEMORY, MASTER}
SlotWraps == IF slot = Slots THEN 1 ELSE slot + 1

SingleFunction == func = 0 /\ slot \notin multi

BarAddress(p) == LET low == Page(p) + flags IN Address(high, low - (low % 16))

Enabled(bits) == bits \union {MEMORY, MASTER}

NextSlot == slot + 1

PollsEnd == polls + 1 = MaxPolls

(* The rest of the slot is skipped, or not. *)
GoOn(skip) ==
    /\ IF skip \/ func = LastFunction
       THEN slot' = NextSlot /\ func' = 0
       ELSE slot' = slot /\ func' = func + 1
    /\ UNCHANGED <<machine, pci_command, status, boot_pc, device, mmio, polls,
                   registers>>

SkipNotIntel ==
    /\ boot_pc = "probe" /\ slot <= Slots
    /\ cells[Here].vendor # "intel"
    /\ GoOn(func = 0)

SkipUnknown ==
    /\ boot_pc = "probe" /\ slot <= Slots
    /\ cells[Here].vendor = "intel" /\ ~ IsAdapter(cells[Here])
    /\ GoOn(SingleFunction)

(* pci_write_u16 writes the whole word back, and the status bits it read   *)
(* as one are cleared by that.                                             *)
Found ==
    /\ boot_pc = "probe" /\ slot <= Slots
    /\ IsAdapter(cells[Here])
    /\ device' = [found |-> TRUE, place |-> Here, bar0 |-> BarAddress(Here),
                  variant |-> Identify(cells[Here].id)]
    /\ pci_command' = [pci_command EXCEPT ![Here] = Enabled(@)]
    /\ status' = [status EXCEPT ![Here] = {}]
    /\ boot_pc' = "init"
    /\ UNCHANGED <<machine, slot, func, mmio, polls, registers>>

NothingFound ==
    /\ boot_pc = "probe" /\ slot > Slots
    /\ boot_pc' = "none"
    /\ UNCHANGED <<machine, pci_command, status, slot, func, device, mmio, polls,
                   registers>>

-----------------------------------------------------------------------------
Reached ==
    /\ device.found
    /\ mmio = Base(device.place)
    /\ MEMORY \in pci_command[device.place]

ReadsAsSet(bit) == Reached => bit

Move(to) ==
    /\ boot_pc' = to
    /\ UNCHANGED <<machine, pci_command, status, slot, func, device>>

StartReset ==
    /\ boot_pc = "init"
    /\ mmio' = device.bar0
    /\ Move("write_reset")
    /\ UNCHANGED <<polls, registers>>

WriteReset ==
    /\ boot_pc = "write_reset"
    /\ resetting' = (resetting \/ Reached)
    /\ polls' = 0
    /\ Move("wait_reset")
    /\ UNCHANGED <<mmio, access_req, init_done>>

(* After the last poll it goes on all the same. *)
PollReset ==
    /\ boot_pc = "wait_reset"
    /\ polls' = polls + 1
    /\ Move(IF ~ ReadsAsSet(resetting) \/ PollsEnd THEN "request" ELSE "wait_reset")
    /\ UNCHANGED <<mmio, registers>>

(* The write clears the other bits of the register. *)
RequestAccess ==
    /\ boot_pc = "request"
    /\ access_req' = (access_req \/ Reached)
    /\ init_done' = (init_done /\ ~ Reached)
    /\ polls' = 0
    /\ Move("wait_done")
    /\ UNCHANGED <<mmio, resetting>>

PollDone ==
    /\ boot_pc = "wait_done"
    /\ polls' = polls + 1
    /\ Move(IF ReadsAsSet(init_done) THEN "constructed"
            ELSE IF PollsEnd THEN "timed_out" ELSE "wait_done")
    /\ UNCHANGED <<mmio, registers>>

(* The device: a reset ends in its own time and forgets what was asked     *)
(* before; access is granted after it.                                     *)
ResetEnds ==
    /\ resetting
    /\ resetting' = FALSE /\ access_req' = FALSE /\ init_done' = FALSE
    /\ UNCHANGED <<machine, pci_command, status, boot_pc, slot, func, device, mmio,
                   polls>>

GrantAccess ==
    /\ access_req /\ ~ resetting /\ ~ init_done
    /\ init_done' = TRUE
    /\ UNCHANGED <<machine, pci_command, status, boot_pc, slot, func, device, mmio,
                   polls, resetting, access_req>>

BringUp ==
    \/ SkipNotIntel \/ SkipUnknown \/ Found \/ NothingFound
    \/ StartReset \/ WriteReset \/ PollReset \/ RequestAccess \/ PollDone

ProbeNext == BringUp \/ ResetEnds \/ GrantAccess

ProbeSpec == ProbeInit /\ [][ProbeNext]_probeVars

-----------------------------------------------------------------------------
(* What PCI says is there: a function 0, and others if it says so. *)
Visible(p) == p[2] = 0 \/ (cells[<<p[1], 0>>] # Absent /\ p[1] \in multi)
Before(p, q) == p[1] < q[1] \/ (p[1] = q[1] /\ p[2] < q[2])

Adapters == {p \in Places : IsAdapter(cells[p]) /\ Visible(p)}

(* The walk takes a function 0 of another vendor for an empty slot. *)
Hidden(p) == cells[<<p[1], 0>>].vendor # "intel"

(* The device found is really there and the first in the order of the bus  *)
(* that is not hidden, whatever is left out between functions and whatever *)
(* answers for functions that do not exist; none is found only if every    *)
(* adapter is hidden (scan_pci_bus, identify, pci.rs).                     *)
FoundIsTheFirst ==
    /\ boot_pc \notin {"probe", "none"} =>
          /\ device.place \in Adapters
          /\ \A p \in Adapters : Before(p, device.place) => Hidden(p)
          /\ cells[device.place].id \in Ax201Ids <=> device.variant = "AX201"
    /\ boot_pc = "none" => \A p \in Adapters : Hidden(p)

(* Bus mastering and memory space are enabled for that function, whose     *)
(* other bits stay, and for no other (pci_write_u16, pci.rs).              *)
OnlyTheFoundIsEnabled ==
    \A p \in Places :
        pci_command[p] = IF device.found /\ p = device.place
                         THEN {IO, MEMORY, MASTER} ELSE {IO}

(* There is a controller only for a device that was reset after the start  *)
(* and has granted access since, though the first wait may give up and go  *)
(* on (init, nic_reset, driver.rs).                                        *)
ConstructedOnAResetDevice ==
    boot_pc = "constructed" => ~ resetting /\ access_req /\ init_done

(* The walk and both waits end, whatever the device does (scan_pci_bus,    *)
(* nic_reset, pci.rs and driver.rs).                                       *)
BringUpReturns == <>(boot_pc \in {"none", "constructed", "timed_out"})
=============================================================================
