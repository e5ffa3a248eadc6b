------------------------------ MODULE MCParts -------------------------------
(* TLC instance of the parts that share no state with each other: each     *)
(* behaviour is of one of them, the others rest.                           *)
(* scan: three access points, one of which hides its name in some frames,  *)
(* heard at three strengths, the lowest below the minimum.                 *)
(* frames: two elements, whose payloads read as elements themselves,       *)
(* behind headers of every length.  build, commands: names up to and past  *)
(* the field's 32 bytes.                                                   *)
(* hash: blocks of eight bytes with a length of three.  cipher: blocks of  *)
(* three bytes, a MIC of two.  keys: digests of two bytes, so that PSK and *)
(* PTK end inside a block.                                                 *)
(* probe: two slots of three functions with every mixture of devices, one  *)
(* id in two tables.  firmware: every file of at most two entries in       *)
(* either layout, with a type and a length of more than one byte and       *)
(* payloads that are empty, fill their words or need padding, cut at every *)
(* byte.                                                                   *)
EXTENDS Scan, Elements, Commands, KeyDerivation, Ccm, Firmware, Probe

VARIABLE part

Strengths == {-95, -60, -50}
Minimum == -90

HeaderForms ==
    {[type |-> MANAGEMENT, subtype |-> 8, to_ds |-> FALSE, from_ds |-> FALSE],
     [type |-> DATA, subtype |-> 8, to_ds |-> FALSE, from_ds |-> TRUE],
     [type |-> DATA, subtype |-> 0, to_ds |-> TRUE, from_ds |-> TRUE],
     [type |-> DATA, subtype |-> 8, to_ds |-> TRUE, from_ds |-> TRUE]}
IdForms == {SSID, DS_PARAMETER_SET, RSN, 221}
ElementPayloads == {<<>>, <<48>>, <<48, 0>>, <<255, 48>>}

Text(n) == [i \in 1 .. n |-> 65]
SsidLengths == {Text(0), Text(1), Text(32), Text(33), Text(255)}
Numbers == {0, 15, 4095, 4096, 70000}
Lists == {<<>>, <<6>>, <<1, 6, 11>>}
TemporalKeys == {[i \in 1 .. 16 |-> 100 + i]}
Sequences16 == {0, 255, 256, 65535}

-----------------------------------------------------------------------------
(* Each part's variables, and those of all the others. *)
mgmtVars == <<vars, elementVars, commandVars>>
wpaVars == <<hashVars, hmacVars, derivationVars, ccmpVars>>
bootVars == <<firmwareVars, probeVars>>
allVars == <<mgmtVars, wpaVars, bootVars, part>>

NoFrame ==
    /\ mac = CHOOSE h \in MacHeaders : TRUE
    /\ privacy = FALSE /\ elements = <<>> /\ frame = <<>>
    /\ walk_pc = "start" /\ at = 0 /\ beacon = NoBeacon /\ built = Nothing

NoFile ==
    /\ begin = HEADER /\ entries = <<>> /\ good_magic = FALSE /\ data = <<>>
    /\ pc = "none" /\ offset = 0 /\ section = [t \in Types |-> Empty]

NoMachine ==
    /\ cells = [p \in Places |-> Absent] /\ multi = {}
    /\ flags = 0 /\ high = 0
    /\ pci_command = [p \in Places |-> {IO}] /\ status = [p \in Places |-> {}]
    /\ boot_pc = "none" /\ slot = Slots + 1 /\ func = 0
    /\ device = NoDevice /\ mmio = Address(0, 0) /\ polls = 0
    /\ resetting = FALSE /\ access_req = FALSE /\ init_done = FALSE

PartsInit ==
    /\ part \in {"scan", "frames", "build", "commands", "hash", "hmac", "keys",
                 "cipher", "probe", "firmware"}
    /\ Init /\ CommandsInit
    /\ IF part = "frames" THEN ElementsInit ELSE NoFrame
    /\ HashInit /\ HmacInit /\ KeyDerivationInit /\ CcmpInit
    /\ part # "cipher" => nonce = CHOOSE n \in Nonces : TRUE
    /\ IF part = "firmware" THEN FirmwareInit ELSE NoFile
    /\ IF part = "probe" THEN ProbeInit ELSE NoMachine

MgmtNext ==
    \/ part = "scan" /\ Next /\ UNCHANGED <<elementVars, commandVars>>
    \/ part = "frames" /\ ElementsNext /\ UNCHANGED <<vars, commandVars>>
    \/ part = "build" /\ Build /\ UNCHANGED <<vars, commandVars>>
    \/ part = "commands" /\ CommandsNext /\ UNCHANGED <<vars, elementVars>>

WpaNext ==
    \/ /\ part = "hash" /\ HashNext
       /\ UNCHANGED <<hmacVars, derivationVars, ccmpVars>>
    \/ /\ part = "hmac" /\ HmacNext
       /\ UNCHANGED <<hashVars, derivationVars, ccmpVars>>
    \/ /\ part = "keys" /\ KeyDerivationNext
       /\ UNCHANGED <<hashVars, hmacVars, ccmpVars>>
    \/ /\ part = "cipher" /\ CcmpNext
       /\ UNCHANGED <<hashVars, hmacVars, derivationVars>>

BootNext ==
    \/ part = "probe" /\ ProbeNext /\ UNCHANGED firmwareVars
    \/ part = "firmware" /\ FirmwareNext /\ UNCHANGED probeVars

PartsNext ==
    /\ \/ MgmtNext /\ UNCHANGED <<wpaVars, bootVars>>
       \/ WpaNext /\ UNCHANGED <<mgmtVars, bootVars>>
       \/ BootNext /\ UNCHANGED <<mgmtVars, wpaVars>>
    /\ UNCHANGED part

(* The driver's steps are fair, the device's are not. *)
PartsSpec ==
    /\ PartsInit /\ [][PartsNext]_allVars
    /\ WF_allVars(/\ BringUp
                  /\ UNCHANGED <<mgmtVars, wpaVars, firmwareVars, part>>)
    /\ WF_allVars(/\ FirmwareNext
                  /\ UNCHANGED <<mgmtVars, wpaVars, probeVars, part>>)
=============================================================================
