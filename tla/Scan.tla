-------------------------------- MODULE Scan --------------------------------
(***************************************************************************)
(* The result set of one scan (src/src/scan.rs): beacons and probe         *)
(* responses in the order they are heard, one entry for each BSSID, and    *)
(* the sorted list at the end.  The fields of a network that the scan only *)
(* copies (channel, encryption, interval) are left out; the name stands    *)
(* for what an entry says of the frame it came from.                       *)
(***************************************************************************)
EXTENDS Integers, Sequences, FiniteSets

CONSTANTS
    Bssids, Ssids,
    Signals,            \* signal strengths frames are heard with
    MinSignal,          \* min_signal_dbm of the configuration
    MaxHeard            \* bound: frames heard in one scan

ASSUME SignalAssumption == Signals \subseteq Int /\ MinSignal \in Int
ASSUME HeardAssumption == MaxHeard \in Nat

VARIABLES
    networks,           \* the accumulator
    finalized,          \* finalize consumed the accumulator
    list,               \* what finalize returned
    heard               \* history: every frame, in order

vars == <<networks, finalized, list, heard>>

Networks == [bssid : Bssids, ssid : Ssids, signal_dbm : Signals]

Init ==
    /\ networks = <<>>
    /\ finalized = FALSE
    /\ list = <<>>
    /\ heard = <<>>

(* A slip of add: a later frame as strong overwrites the entry.            *)
NoWeaker(network, existing) == network.signal_dbm >= existing.signal_dbm

Stronger(network, existing) == network.signal_dbm > existing.signal_dbm

Add(network) ==
    LET known == {i \in DOMAIN networks : networks[i].bssid = network.bssid}
    IN  networks' =
            IF known = {}
            THEN Append(networks, network)
            ELSE [i \in DOMAIN networks |->
                    IF i \in known /\ Stronger(network, networks[i])
                    THEN network
                    ELSE networks[i]]

ProcessBeacon(network) ==
    /\ ~ finalized
    /\ Len(heard) < MaxHeard
    /\ heard' = Append(heard, network)
    /\ IF network.signal_dbm < MinSignal THEN UNCHANGED networks ELSE Add(network)
    /\ UNCHANGED <<finalized, list>>

(* A slip of finalize: the comparison the other way round. *)
Ascending(i, j) ==
    \/ networks[i].signal_dbm < networks[j].signal_dbm
    \/ networks[i].signal_dbm = networks[j].signal_dbm /\ i < j

(* sort_by is stable, so equal signals stay in the order of discovery. *)
SortsBefore(i, j) ==
    \/ networks[i].signal_dbm > networks[j].signal_dbm
    \/ networks[i].signal_dbm = networks[j].signal_dbm /\ i < j

Rank(j) == Cardinality({i \in DOMAIN networks : SortsBefore(i, j)})

Finalize ==
    /\ ~ finalized
    /\ finalized' = TRUE
    /\ list' = [k \in DOMAIN networks |->
                    networks[CHOOSE j \in DOMAIN networks : Rank(j) = k - 1]]
    /\ UNCHANGED <<networks, heard>>

Next ==
    \/ \E network \in Networks : ProcessBeacon(network)
    \/ Finalize

Spec == Init /\ [][Next]_vars

-----------------------------------------------------------------------------
TypeOK ==
    /\ networks \in Seq(Networks)
    /\ finalized \in BOOLEAN
    /\ list \in Seq(Networks)
    /\ heard \in Seq(Networks)

(* Two entries never share a BSSID (add, scan.rs). *)
OneEntryPerBssid ==
    \A i, j \in DOMAIN networks :
        networks[i].bssid = networks[j].bssid => i = j

Audible == {k \in DOMAIN heard : heard[k].signal_dbm >= MinSignal}

(* The frame an access point is remembered by: its first strongest. *)
Best(k) ==
    /\ k \in Audible
    /\ \A m \in Audible :
          heard[m].bssid = heard[k].bssid =>
              \/ heard[m].signal_dbm < heard[k].signal_dbm
              \/ heard[m].signal_dbm = heard[k].signal_dbm /\ k <= m

(* Whatever the order, the repeats and the names, the entries are the best *)
(* frames of the access points heard loudly enough, each taken whole, and  *)
(* an access point has one entry (process_beacon and add, scan.rs).        *)
EntriesAreBestFrames ==
    /\ OneEntryPerBssid
    /\ {networks[i] : i \in DOMAIN networks} = {heard[k] : k \in {m \in Audible : Best(m)}}

FirstHeard(i) ==
    CHOOSE k \in Audible :
        /\ heard[k].bssid = networks[i].bssid
        /\ \A m \in Audible : heard[m].bssid = networks[i].bssid => k <= m

(* The list has every entry, the strongest first, and of two as strong     *)
(* the access point discovered first, even if the frame it is listed by    *)
(* came later: this is the order connect tries names in (finalize,         *)
(* scan.rs).                                                               *)
ListedByStrengthThenDiscovery ==
    finalized =>
        /\ \A i \in DOMAIN networks : \E k \in DOMAIN list : list[k] = networks[i]
        /\ Len(list) = Len(networks)
        /\ \A k \in DOMAIN list, m \in DOMAIN list : k < m =>
              \/ list[k].signal_dbm > list[m].signal_dbm
              \/ /\ list[k].signal_dbm = list[m].signal_dbm
                 /\ \A i, j \in DOMAIN networks :
                       networks[i] = list[k] /\ networks[j] = list[m] =>
                           FirstHeard(i) < FirstHeard(j)
=============================================================================
