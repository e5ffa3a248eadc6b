---------------------------- MODULE FrameProofs -----------------------------
(***************************************************************************)
(* Proofs about what is heard and what is said: the result set of          *)
(* src/src/scan.rs for any access points, names, strengths and length of a *)
(* scan; and src/src/ieee80211.rs, the reading of a beacon of any header   *)
(* and any elements, cut at any byte, and the frames the driver builds for *)
(* any name and packet number; src/src/commands.rs, the commands for any   *)
(* names, channels and keys.                                               *)
(***************************************************************************)
EXTENDS Scan, Elements, Commands, DataFacts

-----------------------------------------------------------------------------
(* Appending a frame adds one entry at the end and leaves the others.      *)
LEMMA AppendedEntry ==
    ASSUME NEW s \in Seq(Networks), NEW n \in Networks
    PROVE  /\ Append(s, n) \in Seq(Networks)
           /\ Len(s) \in Nat
           /\ DOMAIN s = 1 .. Len(s)
           /\ DOMAIN Append(s, n) = 1 .. Len(s) + 1
           /\ Append(s, n)[Len(s) + 1] = n
           /\ \A i \in 1 .. Len(s) : Append(s, n)[i] = s[i]
BY AppendProperties, LenProperties

(* What add leaves in the set: the frame appended if its BSSID is new;     *)
(* else the frame in the place of the weaker entry of its BSSID, and every *)
(* other entry as it was.                                                  *)
Inserted(n) ==
    /\ networks' = Append(networks, n)
    /\ \A i \in DOMAIN networks : networks[i].bssid # n.bssid

Updated(n) ==
    /\ networks' \in Seq(Networks)
    /\ DOMAIN networks' = DOMAIN networks
    /\ \E i \in DOMAIN networks : networks[i].bssid = n.bssid
    /\ \A i \in DOMAIN networks :
          networks'[i] = IF networks[i].bssid = n.bssid /\ Stronger(n, networks[i])
                         THEN n ELSE networks[i]

(* add does one of the two or nothing. *)
LEMMA AddKeepsShape ==
    ASSUME networks \in Seq(Networks), NEW n \in Networks, Add(n)
    PROVE  Inserted(n) \/ Updated(n)
<1> DEFINE known == {i \in DOMAIN networks : networks[i].bssid = n.bssid}
<1>1. CASE known = {}
  BY <1>1 DEF Add, Inserted
<1>2. CASE known # {}
  <2>1. networks' = [i \in DOMAIN networks |->
                        IF i \in known /\ Stronger(n, networks[i])
                        THEN n ELSE networks[i]]
    BY <1>2 DEF Add
  <2>2. DOMAIN networks = 1 .. Len(networks) /\ Len(networks) \in Nat
    BY LenProperties
  <2>3. \A i \in DOMAIN networks : networks[i] \in Networks
    BY <2>2, ElementOfSeq
  <2>4. \A i \in 1 .. Len(networks) : networks'[i] \in Networks
    BY <2>1, <2>2, <2>3
  <2>5. networks' \in Seq(Networks)
    BY <2>1, <2>2, <2>4, SeqDef
  <2> QED
    BY <1>2, <2>1, <2>5 DEF Updated
<1> QED
  BY <1>1, <1>2

-----------------------------------------------------------------------------
(* Two entries never share a BSSID, whatever is heard (add, scan.rs).      *)
UniqueInv == networks \in Seq(Networks) /\ OneEntryPerBssid

(* A scan starts without entries. *)
LEMMA UniqueInit == Init => UniqueInv
BY EmptySeq DEF Init, UniqueInv, OneEntryPerBssid

(* No step gives a BSSID a second entry. *)
LEMMA UniqueStep == UniqueInv /\ [Next]_vars => UniqueInv'
<1> SUFFICES ASSUME UniqueInv, [Next]_vars PROVE UniqueInv'
  OBVIOUS
<1>1. CASE UNCHANGED networks
  BY <1>1 DEF UniqueInv, OneEntryPerBssid
<1>2. ASSUME NEW n \in Networks, Add(n) PROVE UniqueInv'
  <2>1. CASE Inserted(n)
    <3>1. /\ networks' \in Seq(Networks)
          /\ Len(networks) \in Nat
          /\ DOMAIN networks = 1 .. Len(networks)
          /\ DOMAIN networks' = 1 .. Len(networks) + 1
          /\ networks'[Len(networks) + 1] = n
          /\ \A i \in 1 .. Len(networks) : networks'[i] = networks[i]
      BY <2>1, AppendedEntry DEF UniqueInv, Inserted
    <3>2. OneEntryPerBssid'
      BY <2>1, <3>1 DEF UniqueInv, OneEntryPerBssid, Inserted
    <3> QED
      BY <3>1, <3>2 DEF UniqueInv
  <2>2. CASE Updated(n)
    <3>1. \A i \in DOMAIN networks : networks'[i].bssid = networks[i].bssid
      BY <2>2 DEF Updated
    <3> QED
      BY <2>2, <3>1 DEF UniqueInv, OneEntryPerBssid, Updated
  <2> QED
    BY <1>2, <2>1, <2>2, AddKeepsShape DEF UniqueInv
<1>3. ASSUME NEW n \in Networks, ProcessBeacon(n) PROVE UniqueInv'
  BY <1>1, <1>2, <1>3 DEF ProcessBeacon
<1>4. CASE Finalize
  BY <1>1, <1>4 DEF Finalize
<1>5. CASE UNCHANGED vars
  BY <1>1, <1>5 DEF vars
<1> QED
  BY <1>3, <1>4, <1>5 DEF Next

(* Two entries never share a BSSID, for any scan (add, scan.rs).           *)
THEOREM EntriesAreUnique == Spec => []OneEntryPerBssid
<1>1. UniqueInv => OneEntryPerBssid
  BY DEF UniqueInv
<1> QED
  BY <1>1, UniqueInit, UniqueStep, PTL DEF Spec

-----------------------------------------------------------------------------
(* Every entry is the best frame of its access point, and every access     *)
(* point heard loudly enough has an entry.                                 *)
BestInv ==
    /\ UniqueInv
    /\ heard \in Seq(Networks)
    /\ \A i \in DOMAIN networks : \E k \in Audible : Best(k) /\ heard[k] = networks[i]
    /\ \A k \in Audible : \E i \in DOMAIN networks : networks[i].bssid = heard[k].bssid

(* Nothing is heard before a scan. *)
LEMMA BestInit == Init => BestInv
BY UniqueInit, EmptySeq DEF Init, BestInv, Audible

(* The invariant says what the property does: an access point has only one *)
(* best frame.                                                             *)
LEMMA BestIsEntry == BestInv => EntriesAreBestFrames
<1> SUFFICES ASSUME BestInv PROVE EntriesAreBestFrames
  OBVIOUS
<1>1. /\ \A k \in Audible : heard[k] \in Networks
      /\ Audible \subseteq Nat
  BY LenProperties, ElementOfSeq DEF BestInv, Audible
<1>2. \A k \in Audible : heard[k].signal_dbm \in Int
  BY <1>1, SignalAssumption DEF Networks
<1>3. ASSUME NEW k \in Audible, Best(k)
      PROVE  \E i \in DOMAIN networks : networks[i] = heard[k]
  <2>1. PICK i \in DOMAIN networks : networks[i].bssid = heard[k].bssid
    BY DEF BestInv
  <2>2. PICK m \in Audible : Best(m) /\ heard[m] = networks[i]
    BY DEF BestInv
  <2>3. k = m
    BY <1>1, <1>2, <1>3, <2>1, <2>2 DEF Best
  <2> QED
    BY <2>2, <2>3
<1>4. {networks[i] : i \in DOMAIN networks} = {heard[k] : k \in {m \in Audible : Best(m)}}
  BY <1>3 DEF BestInv
<1>5. OneEntryPerBssid
  BY DEF BestInv, UniqueInv
<1> QED
  BY <1>4, <1>5 DEF EntriesAreBestFrames

(* The history after one more frame. *)
LEMMA HeardOne ==
    ASSUME heard \in Seq(Networks), NEW n \in Networks,
           heard' = Append(heard, n)
    PROVE  /\ heard' \in Seq(Networks)
           /\ Len(heard) \in Nat
           /\ \A k \in Audible : k \in Nat /\ k <= Len(heard) /\ heard'[k] = heard[k]
           /\ \A k \in Audible : heard[k].signal_dbm \in Int
           /\ n.signal_dbm \in Int
           /\ heard'[Len(heard) + 1] = n
           /\ n.signal_dbm < MinSignal => Audible' = Audible
           /\ n.signal_dbm >= MinSignal =>
                 Audible' = Audible \union {Len(heard) + 1}
<1>1. /\ heard' \in Seq(Networks)
      /\ Len(heard) \in Nat
      /\ DOMAIN heard = 1 .. Len(heard)
      /\ DOMAIN heard' = 1 .. Len(heard) + 1
      /\ heard'[Len(heard) + 1] = n
      /\ \A k \in 1 .. Len(heard) : heard'[k] = heard[k]
  BY AppendedEntry
<1>2. n.signal_dbm \in Int /\ MinSignal \in Int
  BY SignalAssumption DEF Networks
<1>3. \A k \in Audible : heard[k].signal_dbm \in Int
  <2>1. \A k \in 1 .. Len(heard) : heard[k] \in Networks
    BY ElementOfSeq
  <2>2. \A k \in 1 .. Len(heard) : heard[k].signal_dbm \in Int
    BY <2>1, SignalAssumption DEF Networks
  <2> QED
    BY <1>1, <2>2 DEF Audible
<1>4. \A k \in Audible : k \in Nat /\ k <= Len(heard) /\ heard'[k] = heard[k]
  BY <1>1 DEF Audible
<1>5. n.signal_dbm < MinSignal => Audible' = Audible
  BY <1>1, <1>2 DEF Audible
<1>6. n.signal_dbm >= MinSignal => Audible' = Audible \union {Len(heard) + 1}
  BY <1>1, <1>2 DEF Audible
<1> QED
  BY <1>1, <1>2, <1>3, <1>4, <1>5, <1>6

(* A best frame stays best unless a stronger one of its access point comes.*)
LEMMA BestStays ==
    ASSUME heard \in Seq(Networks), NEW n \in Networks,
           heard' = Append(heard, n), NEW k \in Audible, Best(k),
           heard[k].bssid = n.bssid /\ n.signal_dbm >= MinSignal =>
               ~ (n.signal_dbm > heard[k].signal_dbm)
    PROVE  k \in Audible' /\ Best(k)' /\ heard'[k] = heard[k]
<1>1. /\ Len(heard) \in Nat
      /\ \A m \in Audible : m \in Nat /\ m <= Len(heard) /\ heard'[m] = heard[m]
      /\ \A m \in Audible : heard[m].signal_dbm \in Int
      /\ n.signal_dbm \in Int /\ MinSignal \in Int
      /\ heard'[Len(heard) + 1] = n
      /\ n.signal_dbm < MinSignal => Audible' = Audible
      /\ n.signal_dbm >= MinSignal => Audible' = Audible \union {Len(heard) + 1}
  BY HeardOne, SignalAssumption
<1>2. n.signal_dbm < MinSignal \/ n.signal_dbm >= MinSignal
  BY <1>1
<1>3. k \in Audible' /\ heard'[k] = heard[k]
  <2>1. Audible \subseteq Audible'
    BY <1>2, <1>1
  <2> QED
    BY <1>1, <2>1
<1>4. ASSUME NEW m \in Audible', heard'[m].bssid = heard[k].bssid
      PROVE  \/ heard'[m].signal_dbm < heard[k].signal_dbm
             \/ heard'[m].signal_dbm = heard[k].signal_dbm /\ k <= m
  <2>1. CASE m \in Audible
    BY <1>1, <1>4, <2>1 DEF Best
  <2>2. CASE n.signal_dbm >= MinSignal /\ m = Len(heard) + 1
    <3>1. heard'[m] = n /\ heard[k].bssid = n.bssid
      BY <1>1, <1>4, <2>2
    <3>2. n.signal_dbm <= heard[k].signal_dbm /\ k <= m
      BY <1>1, <2>2, <3>1
    <3> QED
      BY <1>1, <3>1, <3>2
  <2>3. m \in Audible \/ (n.signal_dbm >= MinSignal /\ m = Len(heard) + 1)
    BY <1>2, <1>1, <1>4
  <2> QED
    BY <2>1, <2>2, <2>3
<1> QED
  BY <1>3, <1>4 DEF Best

(* A frame is best if all the others of its access point are weaker.       *)
LEMMA NewIsBest ==
    ASSUME heard \in Seq(Networks), NEW n \in Networks,
           heard' = Append(heard, n), n.signal_dbm >= MinSignal,
           \A m \in Audible : heard[m].bssid = n.bssid =>
                                  heard[m].signal_dbm < n.signal_dbm,
           NEW k, k = Len(heard) + 1
    PROVE  k \in Audible' /\ Best(k)' /\ heard'[k] = n
<1>1. /\ Len(heard) \in Nat
      /\ \A m \in Audible : heard'[m] = heard[m]
      /\ heard'[k] = n
      /\ Audible' = Audible \union {k}
  BY HeardOne
<1>2. k \in Nat
  BY <1>1
<1>3. ASSUME NEW m \in Audible', heard'[m].bssid = n.bssid
      PROVE  \/ heard'[m].signal_dbm < n.signal_dbm
             \/ heard'[m].signal_dbm = n.signal_dbm /\ k <= m
  <2>1. CASE m \in Audible
    BY <1>1, <1>3, <2>1
  <2>2. CASE m = k
    BY <1>1, <1>2, <2>2
  <2> QED
    BY <1>1, <2>1, <2>2
<1> QED
  BY <1>1, <1>3 DEF Best

(* Every frame heard keeps the entries the best. *)
LEMMA BestStep == BestInv /\ [Next]_vars => BestInv'
<1> SUFFICES ASSUME BestInv, [Next]_vars PROVE BestInv'
  OBVIOUS
<1>1. UniqueInv'
  BY UniqueStep DEF BestInv
<1>2. CASE UNCHANGED <<networks, heard>>
  BY <1>1, <1>2 DEF BestInv, Audible, Best
<1>3. ASSUME NEW n \in Networks, ProcessBeacon(n) PROVE BestInv'
  <2>1. PICK last : last = Len(heard) + 1
    OBVIOUS
  <2>2. heard' = Append(heard, n) /\ heard \in Seq(Networks)
    BY <1>3 DEF ProcessBeacon, BestInv
  <2>3. /\ heard' \in Seq(Networks)
        /\ Len(heard) \in Nat
        /\ \A k \in Audible : k \in Nat /\ k <= Len(heard) /\ heard'[k] = heard[k]
        /\ \A k \in Audible : heard[k].signal_dbm \in Int
        /\ n.signal_dbm \in Int
        /\ heard'[last] = n
        /\ n.signal_dbm < MinSignal => Audible' = Audible
        /\ n.signal_dbm >= MinSignal => Audible' = Audible \union {last}
    BY <2>1, <2>2, HeardOne
  <2>4. MinSignal \in Int
    BY SignalAssumption
  <2>5. CASE n.signal_dbm < MinSignal
    <3>1. networks' = networks
      BY <1>3, <2>5 DEF ProcessBeacon
    <3>2. \A i \in DOMAIN networks :
             \E k \in Audible' : Best(k)' /\ heard'[k] = networks[i]
      <4>1. ASSUME NEW k \in Audible, Best(k)
            PROVE  k \in Audible' /\ Best(k)' /\ heard'[k] = heard[k]
        <5>1. ~ (n.signal_dbm >= MinSignal)
          BY <2>3, <2>5, <2>4
        <5> QED
          BY <2>2, <4>1, <5>1, BestStays
      <4> QED
        BY <4>1 DEF BestInv
    <3>3. \A k \in Audible' :
             \E i \in DOMAIN networks : networks[i].bssid = heard'[k].bssid
      BY <2>3, <2>5 DEF BestInv
    <3> QED
      BY <1>1, <2>3, <3>1, <3>2, <3>3 DEF BestInv
  <2>6. CASE n.signal_dbm >= MinSignal /\ Inserted(n)
    <3>1. /\ DOMAIN networks = 1 .. Len(networks)
          /\ DOMAIN networks' = 1 .. Len(networks) + 1
          /\ Len(networks) \in Nat
          /\ networks'[Len(networks) + 1] = n
          /\ \A i \in 1 .. Len(networks) : networks'[i] = networks[i]
      BY <2>6, AppendedEntry DEF Inserted, BestInv, UniqueInv
    <3>2. \A k \in Audible : heard[k].bssid # n.bssid
      BY <2>6 DEF Inserted, BestInv
    <3>3. last \in Audible' /\ Best(last)'
      BY <2>1, <2>2, <2>6, <3>2, NewIsBest
    <3>4. \A i \in DOMAIN networks :
             \E k \in Audible' : Best(k)' /\ heard'[k] = networks[i]
      <4>1. ASSUME NEW k \in Audible, Best(k)
            PROVE  k \in Audible' /\ Best(k)' /\ heard'[k] = heard[k]
        BY <2>2, <3>2, <4>1, BestStays
      <4> QED
        BY <4>1 DEF BestInv
    <3>5. \A i \in DOMAIN networks' :
             \E k \in Audible' : Best(k)' /\ heard'[k] = networks'[i]
      <4>1. ASSUME NEW i \in DOMAIN networks'
            PROVE  \E k \in Audible' : Best(k)' /\ heard'[k] = networks'[i]
        <5>1. CASE i \in DOMAIN networks
          BY <3>1, <3>4, <5>1
        <5>2. CASE i = Len(networks) + 1
          BY <2>3, <3>1, <3>3, <5>2
        <5> QED
          BY <3>1, <5>1, <5>2
      <4> QED
        BY <4>1
    <3>6. \A k \in Audible' :
             \E i \in DOMAIN networks' : networks'[i].bssid = heard'[k].bssid
      <4>1. ASSUME NEW k \in Audible
            PROVE  \E i \in DOMAIN networks' : networks'[i].bssid = heard'[k].bssid
        <5>1. PICK i \in DOMAIN networks : networks[i].bssid = heard[k].bssid
          BY DEF BestInv
        <5>2. i \in DOMAIN networks' /\ networks'[i] = networks[i]
          BY <3>1
        <5> QED
          BY <2>3, <5>1, <5>2
      <4>2. Len(networks) + 1 \in DOMAIN networks'
        BY <3>1
      <4> QED
        BY <2>3, <2>6, <3>1, <4>1, <4>2
    <3> QED
      BY <1>1, <2>3, <3>5, <3>6 DEF BestInv
  <2>7. CASE n.signal_dbm >= MinSignal /\ Updated(n)
    <3>1. ASSUME NEW i \in DOMAIN networks
          PROVE  \E k \in Audible' : Best(k)' /\ heard'[k] = networks'[i]
      <4>1. PICK k \in Audible : Best(k) /\ heard[k] = networks[i]
        BY DEF BestInv
      <4>2. CASE networks[i].bssid = n.bssid /\ Stronger(n, networks[i])
        <5>1. networks'[i] = n
          BY <2>7, <4>2 DEF Updated
        <5>2. \A m \in Audible : heard[m].bssid = n.bssid =>
                                    heard[m].signal_dbm < n.signal_dbm
          <6>1. \A m \in Audible : heard[m].bssid = n.bssid =>
                   \/ heard[m].signal_dbm < heard[k].signal_dbm
                   \/ heard[m].signal_dbm = heard[k].signal_dbm
            BY <4>1, <4>2 DEF Best
          <6>2. n.signal_dbm > heard[k].signal_dbm
            BY <4>1, <4>2 DEF Stronger
          <6> QED
            BY <2>3, <6>1, <6>2
        <5>3. last \in Audible' /\ Best(last)'
          BY <2>1, <2>2, <2>7, <5>2, NewIsBest
        <5> QED
          BY <2>3, <5>1, <5>3
      <4>3. CASE ~ (networks[i].bssid = n.bssid /\ Stronger(n, networks[i]))
        <5>1. networks'[i] = networks[i]
          BY <2>7, <4>3 DEF Updated
        <5>2. k \in Audible' /\ Best(k)' /\ heard'[k] = heard[k]
          <6>1. heard[k].bssid = n.bssid => ~ (n.signal_dbm > heard[k].signal_dbm)
            BY <4>1, <4>3 DEF Stronger
          <6> QED
            BY <2>2, <4>1, <6>1, BestStays
        <5> QED
          BY <4>1, <5>1, <5>2
      <4> QED
        BY <4>2, <4>3
    <3>2. \A i \in DOMAIN networks : networks'[i].bssid = networks[i].bssid
      BY <2>7 DEF Updated
    <3>3. \A k \in Audible' :
             \E i \in DOMAIN networks : networks[i].bssid = heard'[k].bssid
      <4>1. ASSUME NEW k \in Audible
            PROVE  \E i \in DOMAIN networks : networks[i].bssid = heard'[k].bssid
        <5>1. heard'[k] = heard[k]
          BY <2>3
        <5> QED
          BY <5>1 DEF BestInv
      <4>2. \E i \in DOMAIN networks : networks[i].bssid = heard'[last].bssid
        BY <2>3, <2>7 DEF Updated
      <4> QED
        BY <2>3, <2>7, <4>1, <4>2
    <3> QED
      BY <1>1, <2>3, <2>7, <3>1, <3>2, <3>3 DEF BestInv, Updated
  <2>8. n.signal_dbm >= MinSignal => Inserted(n) \/ Updated(n)
    BY <1>3, <2>3, <2>4, AddKeepsShape DEF ProcessBeacon, BestInv, UniqueInv
  <2> QED
    BY <2>3, <2>5, <2>6, <2>7, <2>8, <2>4
<1>4. CASE Finalize
  BY <1>2, <1>4 DEF Finalize
<1>5. CASE UNCHANGED vars
  BY <1>2, <1>5 DEF vars
<1> QED
  BY <1>3, <1>4, <1>5 DEF Next

(* Whatever is heard, in whatever order and however often, the entries are *)
(* exactly the best frames of the access points (process_beacon and add,   *)
(* scan.rs).                                                               *)
THEOREM EntriesAreBest == Spec => []EntriesAreBestFrames
BY BestInit, BestStep, BestIsEntry, PTL DEF Spec

-----------------------------------------------------------------------------
(* The order finalize sorts by is a strict total order of the entries. *)
LEMMA SortsTotally ==
    ASSUME networks \in Seq(Networks)
    PROVE  /\ DOMAIN networks = 1 .. Len(networks) /\ Len(networks) \in Nat
           /\ \A i, j \in DOMAIN networks : i # j => SortsBefore(i, j) \/ SortsBefore(j, i)
           /\ \A i \in DOMAIN networks : ~ SortsBefore(i, i)
           /\ \A i, j, k \in DOMAIN networks :
                 SortsBefore(i, j) /\ SortsBefore(j, k) => SortsBefore(i, k)
<1>1. DOMAIN networks = 1 .. Len(networks) /\ Len(networks) \in Nat
  BY LenProperties
<1>2. \A i \in DOMAIN networks : networks[i] \in Networks
  BY <1>1, ElementOfSeq
<1>3. \A i \in DOMAIN networks : i \in Int /\ networks[i].signal_dbm \in Int
  <2>1. \A w \in Networks : w.signal_dbm \in Int
    BY SignalAssumption DEF Networks
  <2> QED
    BY <1>1, <1>2, <2>1
<1> QED
  BY <1>1, <1>3 DEF SortsBefore

(* So a rank says where an entry goes: there is one entry of each rank. *)
LEMMA RanksAreExact ==
    ASSUME networks \in Seq(Networks)
    PROVE  /\ \A i, j \in DOMAIN networks : SortsBefore(i, j) => Rank(i) < Rank(j)
           /\ \A i \in DOMAIN networks : Rank(i) \in 0 .. Len(networks) - 1
           /\ \A r \in 0 .. Len(networks) - 1 : \E j \in DOMAIN networks : Rank(j) = r
<1> DEFINE n == Len(networks)
           Earlier(j) == {i \in DOMAIN networks : SortsBefore(i, j)}
           rank == [j \in DOMAIN networks |-> Rank(j)]
<1>1. DOMAIN networks = 1 .. n /\ n \in Nat
  BY SortsTotally
<1>2. IsFiniteSet(DOMAIN networks) /\ Cardinality(DOMAIN networks) = n
  BY <1>1, FS_Interval
<1>3. ASSUME NEW j \in DOMAIN networks
      PROVE  IsFiniteSet(Earlier(j)) /\ Cardinality(Earlier(j)) \in Nat /\ Rank(j) = Cardinality(Earlier(j))
  BY <1>2, FS_Subset, FS_CardinalityType DEF Rank
<1>4. ASSUME NEW i \in DOMAIN networks, NEW j \in DOMAIN networks, SortsBefore(i, j)
      PROVE  Rank(i) < Rank(j)
  <2>1. Earlier(i) \subseteq Earlier(j) /\ i \in Earlier(j) /\ i \notin Earlier(i)
    BY <1>4, SortsTotally
  <2>2. /\ Cardinality(Earlier(i)) <= Cardinality(Earlier(j))
        /\ Cardinality(Earlier(i)) # Cardinality(Earlier(j))
    BY <1>3, <2>1, FS_Subset
  <2>3. Cardinality(Earlier(i)) < Cardinality(Earlier(j))
    <3>1. Cardinality(Earlier(i)) \in Nat /\ Cardinality(Earlier(j)) \in Nat
      BY <1>3
    <3> HIDE DEF Earlier
    <3> QED
      BY <2>2, <3>1
  <2> QED
    BY <1>3, <2>3
<1>5. ASSUME NEW i \in DOMAIN networks PROVE Rank(i) \in 0 .. n - 1
  <2>1. Earlier(i) \subseteq DOMAIN networks /\ i \notin Earlier(i)
    BY SortsTotally
  <2>2. Cardinality(Earlier(i)) <= n /\ Cardinality(Earlier(i)) # n
    BY <1>2, <2>1, FS_Subset
  <2>3. Cardinality(Earlier(i)) \in Nat /\ Rank(i) = Cardinality(Earlier(i))
    BY <1>3
  <2> HIDE DEF Earlier
  <2> QED
    BY <1>1, <2>2, <2>3
<1>6. rank \in Surjection(DOMAIN networks, 0 .. n - 1)
  <2>1. rank \in [DOMAIN networks -> 0 .. n - 1]
    BY <1>5
  <2>2. \A i, j \in DOMAIN networks : rank[i] = rank[j] => i = j
    <3> SUFFICES ASSUME NEW i \in DOMAIN networks, NEW j \in DOMAIN networks, i # j
                 PROVE  Rank(i) # Rank(j)
      OBVIOUS
    <3>1. SortsBefore(i, j) \/ SortsBefore(j, i)
      BY SortsTotally
    <3>2. Rank(i) \in Int /\ Rank(j) \in Int /\ (Rank(i) < Rank(j) \/ Rank(j) < Rank(i))
      BY <1>4, <1>5, <3>1
    <3> QED
      BY <3>2
  <2>3. rank \in Injection(DOMAIN networks, 0 .. n - 1)
    BY <2>1, <2>2 DEF Injection, IsInjective
  <2>4. IsFiniteSet(0 .. n - 1) /\ Cardinality(0 .. n - 1) = n
    BY <1>1, FS_Interval
  <2> QED
    BY <1>2, <2>3, <2>4, FS_Injection
<1>7. \A r \in 0 .. n - 1 : \E j \in DOMAIN networks : Rank(j) = r
  BY <1>6 DEF Surjection
<1> QED
  BY <1>4, <1>5, <1>7

(* The entry that finalize puts in place k. *)
At(k) == CHOOSE j \in DOMAIN networks : Rank(j) = k - 1

ListInv ==
    /\ finalized \in BOOLEAN
    /\ ~ finalized => list = <<>>
    /\ finalized => list = [k \in DOMAIN networks |-> networks[At(k)]]

(* finalize puts every entry in the place of its rank. *)
LEMMA ListStep ==
    /\ Init => ListInv
    /\ ListInv /\ [Next]_vars => ListInv'
<1>1. Init => ListInv
  BY DEF Init, ListInv
<1>2. ASSUME ListInv, [Next]_vars PROVE ListInv'
  <2>1. ASSUME NEW n \in Networks, ProcessBeacon(n) PROVE ListInv'
    BY <1>2, <2>1 DEF ListInv, ProcessBeacon
  <2>2. CASE Finalize
    <3>1. /\ networks' = networks /\ finalized' = TRUE
          /\ list' = [k \in DOMAIN networks |-> networks[At(k)]]
      BY <2>2 DEF Finalize, At
    <3>2. [k \in DOMAIN networks |-> networks[At(k)]]'
              = [k \in DOMAIN networks |-> networks[At(k)]]
      BY <3>1 DEF At, Rank, SortsBefore
    <3> QED
      BY <3>1, <3>2 DEF ListInv
  <2>3. CASE UNCHANGED vars
    <3>1. networks' = networks /\ finalized' = finalized /\ list' = list
      BY <2>3 DEF vars
    <3>2. [k \in DOMAIN networks |-> networks[At(k)]]'
              = [k \in DOMAIN networks |-> networks[At(k)]]
      BY <3>1 DEF At, Rank, SortsBefore
    <3> QED
      BY <1>2, <3>1, <3>2 DEF ListInv
  <2> QED
    BY <1>2, <2>1, <2>2, <2>3 DEF Next
<1> QED
  BY <1>1, <1>2

(* Every place has one entry, and every entry a place. *)
LEMMA PlacesAreEntries ==
    ASSUME networks \in Seq(Networks)
    PROVE  /\ \A k \in DOMAIN networks : At(k) \in DOMAIN networks /\ Rank(At(k)) = k - 1
           /\ \A i \in DOMAIN networks : \E k \in DOMAIN networks : At(k) = i
           /\ \A k, m \in DOMAIN networks : k < m => SortsBefore(At(k), At(m))
<1>1. DOMAIN networks = 1 .. Len(networks) /\ Len(networks) \in Nat
  BY SortsTotally
<1>2. ASSUME NEW k \in DOMAIN networks
      PROVE  At(k) \in DOMAIN networks /\ Rank(At(k)) = k - 1
  <2>1. \E j \in DOMAIN networks : Rank(j) = k - 1
    BY <1>1, RanksAreExact
  <2> QED
    BY <2>1 DEF At
<1>3. ASSUME NEW k \in DOMAIN networks, NEW m \in DOMAIN networks, k < m
      PROVE  SortsBefore(At(k), At(m))
  <2>1. Rank(At(k)) < Rank(At(m)) /\ At(k) # At(m)
        /\ Rank(At(k)) \in Int /\ Rank(At(m)) \in Int
    BY <1>1, <1>2, <1>3
  <2>2. ~ SortsBefore(At(m), At(k))
    <3>1. SortsBefore(At(m), At(k)) => Rank(At(m)) < Rank(At(k))
      BY <1>2, RanksAreExact
    <3> QED
      BY <2>1, <3>1
  <2> QED
    BY <1>2, <2>1, <2>2, SortsTotally
<1>4. ASSUME NEW i \in DOMAIN networks PROVE \E k \in DOMAIN networks : At(k) = i
  <2>1. Rank(i) \in 0 .. Len(networks) - 1
    BY RanksAreExact
  <2>2. PICK k : k = Rank(i) + 1
    OBVIOUS
  <2>3. k \in DOMAIN networks /\ k - 1 = Rank(i)
    BY <1>1, <2>1, <2>2
  <2>4. At(k) \in DOMAIN networks /\ Rank(At(k)) = Rank(i)
    BY <1>2, <2>3
  <2>5. At(k) = i
    <3>1. SortsBefore(At(k), i) => Rank(At(k)) < Rank(i)
      BY <2>4, RanksAreExact
    <3>2. SortsBefore(i, At(k)) => Rank(i) < Rank(At(k))
      BY <2>4, RanksAreExact
    <3>3. ~ (Rank(i) < Rank(i))
      BY <2>1
    <3> QED
      BY <2>4, <3>1, <3>2, <3>3, SortsTotally
  <2> QED
    BY <2>3, <2>5
<1> QED
  BY <1>2, <1>3, <1>4

-----------------------------------------------------------------------------
(* Entries stand in the order their access points were first heard. *)
IsFirst(k, b) ==
    /\ k \in Audible /\ heard[k].bssid = b
    /\ \A m \in Audible : heard[m].bssid = b => k <= m

DiscoveryInv ==
    /\ \A i \in DOMAIN networks : \E k \in Audible : IsFirst(k, networks[i].bssid)
    /\ \A i, j \in DOMAIN networks : i < j =>
          \A k, m \in Audible :
              IsFirst(k, networks[i].bssid) /\ IsFirst(m, networks[j].bssid) => k < m

(* The first frame of an access point is the first for good. *)
LEMMA FirstStays ==
    ASSUME heard \in Seq(Networks), NEW n \in Networks, heard' = Append(heard, n),
           NEW b, NEW k \in Audible, IsFirst(k, b)
    PROVE  /\ k \in Audible' /\ IsFirst(k, b)'
           /\ \A m \in Audible' : IsFirst(m, b)' => m = k
<1>1. /\ Len(heard) \in Nat
      /\ \A m \in Audible : m \in Nat /\ m <= Len(heard) /\ heard'[m] = heard[m]
      /\ n.signal_dbm \in Int
      /\ n.signal_dbm < MinSignal => Audible' = Audible
      /\ n.signal_dbm >= MinSignal => Audible' = Audible \union {Len(heard) + 1}
      /\ MinSignal \in Int
  BY HeardOne, SignalAssumption
<1>2. Audible' = Audible \/ Audible' = Audible \union {Len(heard) + 1}
  BY <1>1
<1>3. k \in Audible' /\ heard'[k].bssid = b
  BY <1>1, <1>2 DEF IsFirst
<1>4. ASSUME NEW m \in Audible', heard'[m].bssid = b PROVE k <= m
  <2>1. CASE m \in Audible
    BY <1>1, <1>4, <2>1 DEF IsFirst
  <2>2. CASE m = Len(heard) + 1
    BY <1>1, <2>2
  <2> QED
    BY <1>2, <2>1, <2>2
<1>5. IsFirst(k, b)'
  BY <1>3, <1>4 DEF IsFirst
<1>6. ASSUME NEW m \in Audible', IsFirst(m, b)' PROVE m = k
  <2>1. k <= m /\ m <= k
    BY <1>3, <1>4, <1>6 DEF IsFirst
  <2>2. k \in Int /\ m \in Int
    BY <1>1, <1>2
  <2> QED
    BY <2>1, <2>2
<1> QED
  BY <1>3, <1>5, <1>6

(* A new entry goes behind the others, heard after them. *)
LEMMA DiscoveryStep == BestInv /\ DiscoveryInv /\ [Next]_vars => DiscoveryInv'
<1> SUFFICES ASSUME BestInv, DiscoveryInv, [Next]_vars PROVE DiscoveryInv'
  OBVIOUS
<1>1. CASE UNCHANGED <<networks, heard>>
  BY <1>1 DEF DiscoveryInv, IsFirst, Audible
<1>2. ASSUME NEW n \in Networks, ProcessBeacon(n) PROVE DiscoveryInv'
  <2>1. heard' = Append(heard, n) /\ heard \in Seq(Networks)
    BY <1>2 DEF ProcessBeacon, BestInv
  <2>2. PICK last : last = Len(heard) + 1
    OBVIOUS
  <2>3. /\ Len(heard) \in Nat
        /\ \A k \in Audible : k \in Nat /\ k <= Len(heard) /\ heard'[k] = heard[k]
        /\ n.signal_dbm \in Int /\ heard'[last] = n /\ MinSignal \in Int
        /\ n.signal_dbm >= MinSignal => Audible' = Audible \union {last}
    BY <2>1, <2>2, HeardOne, SignalAssumption
  <2>4. ASSUME NEW i \in DOMAIN networks, NEW b, b = networks[i].bssid
        PROVE  \E k \in Audible' : /\ k \in Audible /\ IsFirst(k, b) /\ IsFirst(k, b)'
                                   /\ \A m \in Audible' : IsFirst(m, b)' => m = k
    <3>1. PICK k \in Audible : IsFirst(k, b)
      BY <2>4 DEF DiscoveryInv
    <3> QED
      BY <2>1, <3>1, FirstStays
  <2>5. ASSUME NEW i \in DOMAIN networks, NEW j \in DOMAIN networks, i < j,
               NEW k \in Audible', NEW m \in Audible', NEW b, NEW c,
               b = networks[i].bssid, c = networks[j].bssid,
               IsFirst(k, b)', IsFirst(m, c)'
        PROVE  k < m
    <3>1. k \in Audible /\ m \in Audible /\ IsFirst(k, b) /\ IsFirst(m, c)
      BY <2>4, <2>5
    <3> QED
      BY <2>5, <3>1 DEF DiscoveryInv
  <2>6. CASE /\ DOMAIN networks' = DOMAIN networks
             /\ \A i \in DOMAIN networks : networks'[i].bssid = networks[i].bssid
    <3>1. ASSUME NEW i \in DOMAIN networks'
          PROVE  \E k \in Audible' : IsFirst(k, networks[i].bssid)'
      <4>1. PICK b : b = networks[i].bssid
        OBVIOUS
      <4>2. PICK c : c = networks'[i].bssid
        OBVIOUS
      <4>3. b = c /\ i \in DOMAIN networks
        BY <2>6, <4>1, <4>2
      <4>4. \E k \in Audible' : IsFirst(k, b)'
        BY <2>4, <4>1, <4>3
      <4> QED
        BY <4>2, <4>3, <4>4 DEF IsFirst
    <3>2. ASSUME NEW i \in DOMAIN networks', NEW j \in DOMAIN networks', i < j,
                 NEW k \in Audible', NEW m \in Audible',
                 IsFirst(k, networks[i].bssid)', IsFirst(m, networks[j].bssid)'
          PROVE  k < m
      <4>1. PICK b : b = networks[i].bssid
        OBVIOUS
      <4>2. PICK c : c = networks[j].bssid
        OBVIOUS
      <4>3. IsFirst(k, b)' /\ IsFirst(m, c)'
        BY <2>6, <3>2, <4>1, <4>2 DEF IsFirst
      <4> QED
        BY <2>5, <2>6, <3>2, <4>1, <4>2, <4>3
    <3> QED
      BY <3>1, <3>2 DEF DiscoveryInv
  <2>7. CASE n.signal_dbm >= MinSignal /\ Inserted(n)
    <3>1. /\ DOMAIN networks = 1 .. Len(networks)
          /\ DOMAIN networks' = 1 .. Len(networks) + 1
          /\ Len(networks) \in Nat
          /\ networks'[Len(networks) + 1] = n
          /\ \A i \in 1 .. Len(networks) : networks'[i] = networks[i]
      BY <2>7, AppendedEntry DEF Inserted, BestInv, UniqueInv
    <3>2. \A k \in Audible : heard[k].bssid # n.bssid
      BY <2>7 DEF Inserted, BestInv
    <3>3. /\ last \in Audible' /\ heard'[last].bssid = n.bssid
          /\ \A m \in Audible' : heard'[m].bssid = n.bssid => m = last
      BY <2>3, <2>7, <3>2
    <3>4. last \in Nat /\ \A k \in Audible : k < last
      BY <2>2, <2>3
    <3>5. ASSUME NEW i \in DOMAIN networks'
          PROVE  \E k \in Audible' : IsFirst(k, networks[i].bssid)'
      <4>1. CASE i \in DOMAIN networks
        <5>1. PICK b : b = networks[i].bssid
          OBVIOUS
        <5>2. \E k \in Audible' : IsFirst(k, b)'
          BY <2>4, <4>1, <5>1
        <5>3. networks'[i].bssid = b
          BY <3>1, <4>1, <5>1
        <5> QED
          BY <5>2, <5>3 DEF IsFirst
      <4>2. CASE i = Len(networks) + 1
        <5>1. networks'[i].bssid = n.bssid
          BY <3>1, <4>2
        <5> QED
          BY <3>3, <3>4, <5>1 DEF IsFirst
      <4> QED
        BY <3>1, <4>1, <4>2
    <3>6. ASSUME NEW i \in DOMAIN networks', NEW j \in DOMAIN networks', i < j,
                 NEW k \in Audible', NEW m \in Audible',
                 IsFirst(k, networks[i].bssid)', IsFirst(m, networks[j].bssid)'
          PROVE  k < m
      <4>1. i \in DOMAIN networks /\ networks'[i] = networks[i]
        BY <3>1, <3>6
      <4>2. PICK b : b = networks[i].bssid
        OBVIOUS
      <4>3. IsFirst(k, b)'
        BY <3>6, <4>1, <4>2 DEF IsFirst
      <4>4. k \in Audible
        BY <2>4, <4>1, <4>2, <4>3
      <4>5. CASE j \in DOMAIN networks
        <5>1. PICK c : c = networks[j].bssid
          OBVIOUS
        <5>2. IsFirst(m, c)'
          BY <3>1, <3>6, <4>5, <5>1 DEF IsFirst
        <5> QED
          BY <2>5, <3>6, <4>1, <4>2, <4>3, <4>5, <5>1, <5>2
      <4>6. CASE j = Len(networks) + 1
        <5>1. m = last
          BY <3>1, <3>3, <3>6, <4>6 DEF IsFirst
        <5> QED
          BY <3>4, <4>4, <5>1
      <4> QED
        BY <3>1, <4>5, <4>6
    <3> QED
      BY <3>5, <3>6 DEF DiscoveryInv
  <2>8. \/ networks' = networks
        \/ n.signal_dbm >= MinSignal /\ Inserted(n)
        \/ Updated(n)
    BY <1>2, <2>3, AddKeepsShape DEF ProcessBeacon, BestInv, UniqueInv
  <2>9. CASE Updated(n)
    BY <2>6, <2>9 DEF Updated
  <2> QED
    BY <2>6, <2>7, <2>8, <2>9
<1>3. CASE Finalize
  BY <1>1, <1>3 DEF Finalize
<1>4. CASE UNCHANGED vars
  BY <1>1, <1>4 DEF vars
<1> QED
  BY <1>2, <1>3, <1>4 DEF Next

ListedInv == BestInv /\ DiscoveryInv /\ ListInv

(* The three invariants hold together. *)
LEMMA ListedInvInductive == Spec => []ListedInv
<1>1. Init => ListedInv
  <2>1. Init => DiscoveryInv
    BY EmptySeq DEF Init, DiscoveryInv
  <2> QED
    BY <2>1, BestInit, ListStep DEF ListedInv
<1>2. ListedInv /\ [Next]_vars => ListedInv'
  BY BestStep, DiscoveryStep, ListStep DEF ListedInv
<1> QED
  BY <1>1, <1>2, PTL DEF Spec

(* The list finalize returned, for any entries. *)
LEMMA ListOfEntries ==
    ASSUME ListedInv, finalized
    PROVE  /\ list \in Seq(Networks) /\ Len(list) = Len(networks)
           /\ DOMAIN list = DOMAIN networks
           /\ \A k \in DOMAIN networks : list[k] = networks[At(k)]
<1>1. networks \in Seq(Networks) /\ list = [k \in DOMAIN networks |-> networks[At(k)]]
  BY DEF ListedInv, BestInv, UniqueInv, ListInv
<1>2. DOMAIN networks = 1 .. Len(networks) /\ Len(networks) \in Nat
  BY <1>1, SortsTotally
<1>3. \A k \in 1 .. Len(networks) : networks[At(k)] \in Networks
  BY <1>1, <1>2, PlacesAreEntries, ElementOfSeq
<1>4. list \in [1 .. Len(networks) -> Networks]
  BY <1>1, <1>2, <1>3
<1>5. list \in Seq(Networks)
  BY <1>2, <1>4, SeqDef
<1>6. Len(list) = Len(networks)
  BY <1>2, <1>4, <1>5, LenProperties
<1> QED
  BY <1>1, <1>2, <1>5, <1>6

(* The accumulator, the list and the history are sequences of networks,    *)
(* for finalize drops no entry (scan.rs).                                  *)
THEOREM ScanTypeCorrect == Spec => []TypeOK
<1>1. ListedInv => TypeOK
  <2> SUFFICES ASSUME ListedInv PROVE TypeOK
    OBVIOUS
  <2>1. list \in Seq(Networks)
    BY ListOfEntries, EmptySeq DEF ListedInv, ListInv
  <2>2. finalized \in BOOLEAN
    BY DEF ListedInv, ListInv
  <2> QED
    BY <2>1, <2>2 DEF TypeOK, ListedInv, BestInv, UniqueInv
<1> QED
  BY <1>1, ListedInvInductive, PTL

(* Where FirstHeard looks, there is a first frame. *)
LEMMA FirstHeardIsFirst ==
    ASSUME ListedInv, NEW i \in DOMAIN networks
    PROVE  FirstHeard(i) \in Audible /\ IsFirst(FirstHeard(i), networks[i].bssid)
<1>1. PICK k \in Audible : IsFirst(k, networks[i].bssid)
  BY DEF ListedInv, DiscoveryInv
<1>2. \E x \in Audible :
         /\ heard[x].bssid = networks[i].bssid
         /\ \A m \in Audible : heard[m].bssid = networks[i].bssid => x <= m
  BY <1>1 DEF IsFirst
<1> QED
  BY <1>2 DEF FirstHeard, IsFirst

(* The list has every entry once, the strongest first, and of two as       *)
(* strong the one discovered first, for any scan (finalize, scan.rs).      *)
THEOREM ListIsSorted == Spec => []ListedByStrengthThenDiscovery
<1>1. ListedInv => ListedByStrengthThenDiscovery
  <2> SUFFICES ASSUME ListedInv, finalized
               PROVE  ListedByStrengthThenDiscovery
    BY DEF ListedByStrengthThenDiscovery
  <2>1. /\ networks \in Seq(Networks) /\ OneEntryPerBssid
        /\ DOMAIN networks = 1 .. Len(networks) /\ Len(networks) \in Nat
        /\ Len(list) = Len(networks) /\ DOMAIN list = DOMAIN networks
        /\ \A k \in DOMAIN networks : list[k] = networks[At(k)] /\ At(k) \in DOMAIN networks
    BY ListOfEntries, SortsTotally, PlacesAreEntries DEF ListedInv, BestInv, UniqueInv
  <2>2. ASSUME NEW i \in DOMAIN networks PROVE \E k \in DOMAIN list : list[k] = networks[i]
    BY <2>1, PlacesAreEntries
  <2>3. ASSUME NEW k \in DOMAIN list, NEW m \in DOMAIN list, k < m
        PROVE  \/ list[k].signal_dbm > list[m].signal_dbm
               \/ /\ list[k].signal_dbm = list[m].signal_dbm
                  /\ \A i, j \in DOMAIN networks :
                        networks[i] = list[k] /\ networks[j] = list[m] =>
                            FirstHeard(i) < FirstHeard(j)
    <3>1. SortsBefore(At(k), At(m))
      BY <2>1, <2>3, PlacesAreEntries
    <3>2. CASE list[k].signal_dbm = list[m].signal_dbm /\ At(k) < At(m)
      <4>1. ASSUME NEW i \in DOMAIN networks, NEW j \in DOMAIN networks,
                   networks[i] = list[k], networks[j] = list[m]
            PROVE  FirstHeard(i) < FirstHeard(j)
        <5>1. i = At(k) /\ j = At(m)
          BY <2>1, <4>1 DEF OneEntryPerBssid
        <5> QED
          BY <3>2, <5>1, FirstHeardIsFirst DEF ListedInv, DiscoveryInv
      <4> QED
        BY <3>2, <4>1
    <3> QED
      BY <2>1, <3>1, <3>2 DEF SortsBefore
  <2> QED
    BY <2>1, <2>2, <2>3 DEF ListedByStrengthThenDiscovery
<1> QED
  BY <1>1, ListedInvInductive, PTL

-----------------------------------------------------------------------------
Element == [id : ElementIds, data : Payloads]

(* An address is six bytes. *)
LEMMA AddrSized ==
    ASSUME NEW n \in Nat
    PROVE  Sized(Nat, Addr(n), 6) /\ \A i \in 1 .. 6 : Addr(n)[i] = n
BY DEF Sized, Addr

(* Four bytes, three addresses and two bytes more. *)
LEMMA Addressed ==
    ASSUME NEW f, NEW x, NEW y, NEW z, NEW q,
           Sized(Nat, f, 4), Sized(Nat, x, 6), Sized(Nat, y, 6), Sized(Nat, z, 6), Sized(Nat, q, 2)
    PROVE  \A u : u = f \o x \o y \o z \o q =>
              /\ Sized(Nat, u, 24)
              /\ Has(u, 0, f) /\ Has(u, 4, x) /\ Has(u, 10, y) /\ Has(u, 16, z) /\ Has(u, 22, q)
<1>1. PICK s : s = f \o x
  OBVIOUS
<1>2. Sized(Nat, s, 10) /\ Has(s, 0, f) /\ Has(s, 4, x)
  <2>1. /\ \A l : l = 4 + 6 => Sized(Nat, f \o x, l)
        /\ Has(f \o x, 0, f) /\ Has(f \o x, 4, x)
    BY Appended
  <2> QED
    BY <1>1, <2>1
<1>3. PICK t : t = s \o y
  OBVIOUS
<1>4. Sized(Nat, t, 16) /\ Has(t, 10, y) /\ \A b, r : Has(s, b, r) => Has(t, b, r)
  <2>1. /\ \A l : l = 10 + 6 => Sized(Nat, s \o y, l)
        /\ Has(s \o y, 10, y)
        /\ \A b, r : Has(s, b, r) => Has(s \o y, b, r)
    BY <1>2, Appended
  <2> QED
    BY <1>3, <2>1
<1>5. PICK v : v = t \o z
  OBVIOUS
<1>6. Sized(Nat, v, 22) /\ Has(v, 16, z) /\ \A b, r : Has(t, b, r) => Has(v, b, r)
  <2>1. /\ \A l : l = 16 + 6 => Sized(Nat, t \o z, l)
        /\ Has(t \o z, 16, z)
        /\ \A b, r : Has(t, b, r) => Has(t \o z, b, r)
    BY <1>4, Appended
  <2> QED
    BY <1>5, <2>1
<1>7. PICK u : u = v \o q
  OBVIOUS
<1>8. Sized(Nat, u, 24) /\ Has(u, 22, q) /\ \A b, r : Has(v, b, r) => Has(u, b, r)
  <2>1. /\ \A l : l = 22 + 2 => Sized(Nat, v \o q, l)
        /\ Has(v \o q, 22, q)
        /\ \A b, r : Has(v, b, r) => Has(v \o q, b, r)
    BY <1>6, Appended
  <2> QED
    BY <1>7, <2>1
<1>9. u = f \o x \o y \o z \o q
  BY <1>1, <1>3, <1>5, <1>7
<1> QED
  BY <1>2, <1>4, <1>6, <1>8, <1>9

(* The first four bytes of a header, and how long it is. *)
First == <<4 * mac.type + 16 * mac.subtype, Set(mac.to_ds, 1) + Set(mac.from_ds, 2), 0, 0>>

HeaderSize ==
    (IF mac.to_ds /\ mac.from_ds THEN 30 ELSE 24)
        + (IF mac.type = DATA /\ mac.subtype >= 8 THEN 2 ELSE 0)

MacOK == mac \in MacHeaders /\ privacy \in BOOLEAN

(* The fields of a header are small numbers. *)
LEMMA MacTyped ==
    ASSUME MacOK
    PROVE  /\ mac.type \in 0 .. 3 /\ mac.subtype \in 0 .. 15
           /\ mac.to_ds \in BOOLEAN /\ mac.from_ds \in BOOLEAN
           /\ HeaderSize \in 24 .. 32
<1>1. mac \in [type : 0 .. 3, subtype : 0 .. 15, to_ds : BOOLEAN, from_ds : BOOLEAN]
  BY ElementAssumption DEF MacOK
<1>2. HeaderSize \in 24 .. 32
  BY DEF HeaderSize
<1> QED
  BY <1>1, <1>2

(* The header as it is sent. *)
LEMMA HeaderShape ==
    ASSUME MacOK
    PROVE  /\ Sized(Nat, HeaderBytes, HeaderSize) /\ Sized(Nat, First, 4)
           /\ Has(HeaderBytes, 0, First) /\ Has(HeaderBytes, 16, Addr(3))
<1> DEFINE s == First \o Addr(1) \o Addr(2) \o Addr(3) \o <<0, 0>>
           a == IF mac.to_ds /\ mac.from_ds THEN Addr(4) ELSE <<>>
           q == IF mac.type = DATA /\ mac.subtype >= 8 THEN <<5, 0>> ELSE <<>>
           m == IF mac.to_ds /\ mac.from_ds THEN 6 ELSE 0
           n == IF mac.type = DATA /\ mac.subtype >= 8 THEN 2 ELSE 0
<1>1. Sized(Nat, First, 4)
  <2>1. First[1] \in Nat /\ First[2] \in Nat
    BY MacTyped DEF First, Set
  <2> QED
    BY <2>1 DEF First, Sized
<1>2. Sized(Nat, <<0, 0>>, 2) /\ Sized(Nat, Addr(1), 6) /\ Sized(Nat, Addr(2), 6) /\ Sized(Nat, Addr(3), 6)
  <2>1. Sized(Nat, <<0, 0>>, 2)
    BY DEF Sized
  <2> QED
    BY <2>1, AddrSized
<1>3. Sized(Nat, s, 24) /\ Has(s, 0, First) /\ Has(s, 16, Addr(3))
  BY <1>1, <1>2, Addressed
<1>4. Sized(Nat, a, m)
  <2>1. Sized(Nat, Addr(4), 6) /\ Sized(Nat, <<>>, 0)
    BY AddrSized DEF Sized
  <2> QED
    BY <2>1
<1>5. Sized(Nat, q, n)
  <2>1. Sized(Nat, <<5, 0>>, 2) /\ Sized(Nat, <<>>, 0)
    BY DEF Sized
  <2> QED
    BY <2>1
<1>6. HeaderBytes = s \o a \o q
  BY DEF HeaderBytes, First
<1>7. HeaderSize = (24 + m) + n
  BY DEF HeaderSize
<1> HIDE DEF s, a, q, m, n
<1>8. /\ \A l : l = 24 + m => Sized(Nat, s \o a, l)
      /\ Has(s \o a, 0, First) /\ Has(s \o a, 16, Addr(3))
  BY <1>3, <1>4, Appended
<1>9. PICK t, l : t = s \o a /\ l = 24 + m /\ Sized(Nat, t, l) /\ Has(t, 0, First) /\ Has(t, 16, Addr(3))
  BY <1>8
<1>10. /\ \A k : k = l + n => Sized(Nat, t \o q, k)
       /\ Has(t \o q, 0, First) /\ Has(t \o q, 16, Addr(3))
  BY <1>5, <1>9, Appended
<1> QED
  BY <1>1, <1>6, <1>7, <1>9, <1>10

(* Reading its first bytes tells its kind and its length. *)
LEMMA HeaderRead ==
    ASSUME MacOK, NEW u, Has(u, 0, First)
    PROVE  HeaderLen(u) = HeaderSize
<1>1. mac.type \in 0 .. 3 /\ mac.subtype \in 0 .. 15 /\ mac.to_ds \in BOOLEAN /\ mac.from_ds \in BOOLEAN
  BY MacTyped
<1>2. u[1] = 4 * mac.type + 16 * mac.subtype /\ u[2] = Set(mac.to_ds, 1) + Set(mac.from_ds, 2)
  <2>1. \A i \in 1 .. 4 : u[0 + i] = First[i]
    <3>1. Len(First) = 4
      BY DEF First
    <3> QED
      BY <3>1 DEF Has
  <2>2. 0 + 1 = 1 /\ 0 + 2 = 2 /\ 1 \in 1 .. 4 /\ 2 \in 1 .. 4
    OBVIOUS
  <2>3. u[1] = First[1] /\ u[2] = First[2]
    BY <2>1, <2>2
  <2> QED
    BY <2>3 DEF First
<1>3. FrameType(u) = mac.type /\ Subtype(u) = mac.subtype
  <2>1. PICK x \in 0 .. 3, y \in 0 .. 15 : x = mac.type /\ y = mac.subtype
    BY <1>1
  <2>2. (4 * x + 16 * y) \div 4 = x + 4 * y /\ (x + 4 * y) % 4 = x /\ (4 * x + 16 * y) \div 16 = y
    <3>1. 4 * x + 16 * y = (4 * (x + 4 * y)) + 0 /\ x + 4 * y = (4 * y) + x /\ 4 * x + 16 * y = (16 * y) + (4 * x)
      OBVIOUS
    <3>2. 0 \in 0 .. 4 - 1 /\ x \in 0 .. 4 - 1 /\ 4 * x \in 0 .. 16 - 1
      OBVIOUS
    <3> QED
      BY <3>1, <3>2, DivModUnique
  <2> QED
    BY <1>2, <2>1, <2>2 DEF FrameType, Subtype
<1>4. ToDs(u) = mac.to_ds /\ FromDs(u) = mac.from_ds
  BY <1>1, <1>2 DEF ToDs, FromDs, Set
<1> QED
  BY <1>3, <1>4 DEF HeaderLen, HeaderSize, IsQos

(* Header and fixed fields, which stand before the elements. *)
Fore == HeaderBytes \o FixedBytes

(* What goes before the elements has the header's size and twelve bytes. *)
LEMMA ForeShape ==
    ASSUME MacOK
    PROVE  /\ \A l : l = HeaderSize + 12 => Sized(Nat, Fore, l)
           /\ Has(Fore, 0, First) /\ Has(Fore, 16, Addr(3)) /\ Has(Fore, HeaderSize, FixedBytes)
           /\ Sized(Nat, FixedBytes, 12)
           /\ FixedBytes[9] = 100 /\ FixedBytes[10] = 0
           /\ FixedBytes[11] = Set(privacy, 16) /\ FixedBytes[12] = 0
<1> DEFINE s == [i \in 1 .. 8 |-> RSN]
           t == <<100, 0, Set(privacy, 16), 0>>
<1>1. Sized(Nat, s, 8)
  BY DEF Sized, RSN
<1>2. Sized(Nat, t, 4) /\ t[1] = 100 /\ t[2] = 0 /\ t[3] = Set(privacy, 16) /\ t[4] = 0
  BY DEF Sized, Set, MacOK
<1>3. FixedBytes = s \o t
  BY DEF FixedBytes
<1> HIDE DEF s, t
<1>4. /\ \A l : l = 8 + 4 => Sized(Nat, s \o t, l)
      /\ Has(s \o t, 8, t)
  <2>1. Sized(Nat, s, 8) /\ Sized(Nat, t, 4)
    BY <1>1, <1>2
  <2> QED
    BY ONLY <2>1, Appended
<1>5. Sized(Nat, FixedBytes, 12) /\ Has(FixedBytes, 8, t)
  BY <1>3, <1>4
<1>6. /\ FixedBytes[9] = 100 /\ FixedBytes[10] = 0
      /\ FixedBytes[11] = Set(privacy, 16) /\ FixedBytes[12] = 0
  <2>1. \A i \in 1 .. 4 : FixedBytes[8 + i] = t[i]
    BY <1>2, <1>5 DEF Has, Sized
  <2>2. /\ 8 + 1 = 9 /\ 8 + 2 = 10 /\ 8 + 3 = 11 /\ 8 + 4 = 12
        /\ 1 \in 1 .. 4 /\ 2 \in 1 .. 4 /\ 3 \in 1 .. 4 /\ 4 \in 1 .. 4
    OBVIOUS
  <2> QED
    BY <1>2, <2>1, <2>2
<1>7. /\ \A l : l = HeaderSize + 12 => Sized(Nat, HeaderBytes \o FixedBytes, l)
      /\ Has(HeaderBytes \o FixedBytes, HeaderSize, FixedBytes)
      /\ \A b, r : Has(HeaderBytes, b, r) => Has(HeaderBytes \o FixedBytes, b, r)
  BY <1>5, HeaderShape, Appended
<1> QED
  BY <1>5, <1>6, <1>7, HeaderShape DEF Fore

(* An element is its number, its length and its payload. *)
LEMMA ElementShape ==
    ASSUME NEW e \in Element
    PROVE  /\ e = [id |-> e.id, data |-> e.data]
           /\ e.id \in Nat /\ e.data \in Seq(Nat) /\ Len(e.data) \in Nat
           /\ ElementBytes(e) \in Seq(Nat)
           /\ Len(ElementBytes(e)) = 2 + Len(e.data)
           /\ Has(ElementBytes(e), 0, <<e.id, Len(e.data)>>)
           /\ Has(ElementBytes(e), 2, e.data)
<1>1. e = [id |-> e.id, data |-> e.data] /\ e.id \in ElementIds /\ e.data \in Payloads
  BY DEF Element
<1>2. e.id \in Nat /\ e.data \in Seq(PayloadBytes)
  <2>1. ElementIds \subseteq Nat /\ \A p \in Payloads : p \in Seq(PayloadBytes)
    BY ElementAssumption
  <2>2. e.id \in Nat
    <3>1. e.id \in ElementIds
      BY <1>1
    <3> QED
      BY ONLY <2>1, <3>1
  <2>3. e.data \in Seq(PayloadBytes)
    BY <1>1, <2>1
  <2> QED
    BY <2>2, <2>3
<1>3. PICK m \in Nat : m = Len(e.data)
  BY <1>2
<1>4. e.data \in Seq(Nat)
  <2>1. PayloadBytes \subseteq Nat
    BY DEF PayloadBytes
  <2> QED
    BY <1>2, <2>1, SeqWider
<1>5. Sized(Nat, e.data, m) /\ Sized(Nat, <<e.id, m>>, 2)
  BY <1>2, <1>3, <1>4 DEF Sized
<1>6. PICK s, t : s = <<e.id, m>> /\ t = e.data
  OBVIOUS
<1>7. /\ \A l : l = 2 + m => Sized(Nat, s \o t, l)
      /\ Has(s \o t, 0, s) /\ Has(s \o t, 2, t)
  BY <1>5, <1>6, Appended
<1> QED
  BY <1>1, <1>2, <1>3, <1>4, <1>6, <1>7 DEF ElementBytes, Sized

ElementFunction == [e \in Element |-> ElementBytes(e)]

(* Where the elements of a frame stand. *)
ElementsPlaced(n) ==
    /\ \A k \in 1 .. n + 1 : ElementStart(k) \in Nat
    /\ ElementStart(1) = HeaderSize + 12
    /\ \A j, k \in 1 .. n + 1 : k = j + 1 =>
          ElementStart(k) = ElementStart(j) + 2 + Len(elements[j].data)
    /\ \A j, k \in 1 .. n + 1 : j <= k => ElementStart(j) <= ElementStart(k)
    /\ Len(SentBytes) = ElementStart(n + 1)
    /\ \A k \in 1 .. n : Has(SentBytes, ElementStart(k), ElementBytes(elements[k]))

(* They follow one another, each whole. *)
LEMMA ElementsStand ==
    ASSUME MacOK, elements \in Seq(Element)
    PROVE  ElementsPlaced(Len(elements)) /\ SentBytes \in Seq(Nat) /\ Has(SentBytes, 0, Fore)
<1>1. PICK h \in Seq(Nat), b \in Nat : h = Fore /\ b = Len(h) /\ b = HeaderSize + 12
  BY ForeShape DEF Sized
<1>2. PICK g : g = ElementFunction /\ Maps(g, Element, Seq(Nat))
  <2>1. \A e \in Element : ElementBytes(e) \in Seq(Nat)
    BY ElementShape
  <2>2. Maps(ElementFunction, Element, Seq(Nat))
    BY <2>1 DEF ElementFunction, Maps
  <2> QED
    BY <2>2
<1>3. ASSUME NEW some \in Seq(Element)
      PROVE  FrameOf(some) = h \o FlattenSeq(Mapped(some, g))
  <2>1. \A i \in DOMAIN some : some[i] \in Element
    BY <1>3
  <2>2. Mapped(some, g) = [i \in DOMAIN some |-> ElementBytes(some[i])]
    BY <1>2, <2>1 DEF Mapped, ElementFunction
  <2> QED
    BY <1>1, <2>2 DEF FrameOf, Fore
<1>4. PICK n \in Nat, es \in Seq(Element) : es = elements /\ n = Len(es)
  OBVIOUS
<1>5. PICK start : start = [k \in 1 .. n + 1 |-> ElementStart(k)]
  OBVIOUS
<1>6. EndStarts(start, h, es, g, n)
  <2>1. ASSUME NEW k \in 1 .. n + 1
        PROVE  ElementStart(k) = Len(h \o FlattenSeq(Mapped(SubSeq(es, 1, k - 1), g)))
    <3>1. SubSeq(es, 1, k - 1) \in Seq(Element)
      BY <1>4
    <3> QED
      BY <1>3, <1>4, <3>1 DEF ElementStart
  <2> QED
    BY <1>5, <2>1 DEF EndStarts
<1>7. PICK seqs, file : seqs = Mapped(es, g) /\ file = h \o FlattenSeq(seqs)
  OBVIOUS
<1>8. /\ file \in Seq(Nat) /\ Has(file, 0, h) /\ Stand(file, start, b, seqs, n)
      /\ \A k \in 1 .. n : seqs[k] = g[es[k]]
  <2>1. EndStarts(start, h, es, g, Len(es))
    BY <1>4, <1>6
  <2>2. Filed(Nat, h \o FlattenSeq(Mapped(es, g)), start, h, Mapped(es, g), es, g)
    BY <1>2, <2>1, MappedStand
  <2>3. Filed(Nat, file, start, h, seqs, es, g)
    BY <1>7, <2>2
  <2> QED
    BY <1>1, <1>4, <2>3 DEF Filed
<1>9. file = SentBytes /\ \A k \in 1 .. n : es[k] \in Element /\ seqs[k] = ElementBytes(es[k])
  <2>1. file = SentBytes
    BY <1>3, <1>4, <1>7 DEF SentBytes
  <2>2. ASSUME NEW k \in 1 .. n
        PROVE  es[k] \in Element /\ seqs[k] = ElementBytes(es[k])
    <3>1. es[k] \in Element /\ seqs[k] = g[es[k]]
      BY <1>4, <1>8
    <3>2. g[es[k]] = ElementBytes(es[k])
      BY <1>2, <3>1 DEF ElementFunction
    <3> QED
      BY <3>1, <3>2
  <2> QED
    BY <2>1, <2>2
<1>10. /\ \A k \in 1 .. n + 1 : ElementStart(k) \in Nat
       /\ \A j, k \in 1 .. n + 1 : j <= k => ElementStart(j) <= ElementStart(k)
  BY <1>5, <1>8 DEF Stand
<1>11. \A k \in 1 .. n : Has(file, ElementStart(k), ElementBytes(es[k]))
  <2>1. \A k \in 1 .. n : k \in 1 .. n + 1
    OBVIOUS
  <2> QED
    BY <1>5, <1>8, <1>9, <2>1 DEF Stand
<1>12. ElementStart(1) = HeaderSize + 12 /\ Len(file) = ElementStart(n + 1)
  <2>1. 1 \in 1 .. n + 1 /\ n + 1 \in 1 .. n + 1
    OBVIOUS
  <2> QED
    BY <1>1, <1>5, <1>8, <2>1 DEF Stand
<1>13. ASSUME NEW j \in 1 .. n + 1, NEW k \in 1 .. n + 1, k = j + 1
       PROVE  ElementStart(k) = ElementStart(j) + 2 + Len(es[j].data)
  <2>1. ElementStart(k) = ElementStart(j) + Len(seqs[j])
    BY <1>5, <1>8, <1>13 DEF Stand
  <2>2. Len(seqs[j]) = 2 + Len(es[j].data) /\ Len(es[j].data) \in Nat
    <3>1. j \in 1 .. n /\ es[j] \in Element
      BY <1>4, <1>13
    <3> QED
      BY <1>9, <3>1, ElementShape
  <2>3. PICK x \in Nat, y \in Nat : x = ElementStart(j) /\ y = Len(es[j].data)
    BY <1>10, <2>2
  <2>4. x + (2 + y) = x + 2 + y
    OBVIOUS
  <2> QED
    BY <2>1, <2>2, <2>3, <2>4
<1> QED
  BY <1>1, <1>4, <1>8, <1>9, <1>10, <1>11, <1>12, <1>13 DEF ElementsPlaced

-----------------------------------------------------------------------------
(* The frame as it arrived: the beginning of what was sent. *)
FrameCut ==
    /\ MacOK
    /\ elements \in Seq(Element)
    /\ frame \in Seq(Nat)
    /\ Begins(frame, SentBytes)

(* At the place of an element the reader finds it, if it arrived whole. *)
LEMMA ElementFound ==
    ASSUME FrameCut, NEW k \in 1 .. Len(elements)
    PROVE  \A b, j : b = ElementStart(k) /\ j = k + 1 =>
              /\ HasElement(frame, b) <=> ElementStart(j) <= Len(frame)
              /\ HasElement(frame, b) =>
                    /\ ElementAt(frame, b) = elements[k]
                    /\ After(b, elements[k]) = ElementStart(j)
<1>1. /\ ElementsPlaced(Len(elements)) /\ SentBytes \in Seq(Nat) /\ Len(elements) \in Nat
      /\ elements[k] \in Element /\ Len(frame) \in Nat /\ frame \in Seq(Nat)
  BY ElementsStand DEF FrameCut
<1>2. PICK e, d, l : e = elements[k] /\ d = e.data /\ l = Len(frame)
  OBVIOUS
<1>3. /\ e = [id |-> e.id, data |-> d] /\ e.id \in Nat /\ d \in Seq(Nat) /\ Len(d) \in Nat
      /\ Has(ElementBytes(e), 0, <<e.id, Len(d)>>) /\ Has(ElementBytes(e), 2, d)
  BY <1>1, <1>2, ElementShape
<1>4. k \in 1 .. Len(elements) + 1 /\ k + 1 \in 1 .. Len(elements) + 1
  BY <1>1
<1>5. PICK b \in Nat, j \in Nat, m \in Nat, c \in Nat :
         b = ElementStart(k) /\ j = k + 1 /\ m = Len(d) /\ c = b + 2
  <2>1. ElementStart(k) \in Nat /\ k + 1 \in Nat /\ Len(d) \in Nat
    BY <1>1, <1>3, <1>4 DEF ElementsPlaced
  <2>2. PICK b \in Nat, m \in Nat : b = ElementStart(k) /\ m = Len(d)
    BY <2>1
  <2>3. b + 2 \in Nat
    OBVIOUS
  <2> QED
    BY <2>1, <2>2, <2>3
<1>6. ElementStart(j) = c + m
  <2>1. ElementStart(j) = b + 2 + m
    BY <1>1, <1>2, <1>4, <1>5 DEF ElementsPlaced
  <2> QED
    BY <1>5, <2>1
<1>7. Has(SentBytes, b, <<e.id, m>>) /\ Has(SentBytes, c, d)
  <2>1. Has(SentBytes, b, ElementBytes(e))
    BY <1>1, <1>2, <1>5 DEF ElementsPlaced
  <2>2. \A x : x = b + 0 => Has(SentBytes, x, <<e.id, m>>)
    BY <1>3, <1>5, <2>1, HasWithin
  <2>3. \A x : x = b + 2 => Has(SentBytes, x, d)
    BY <1>3, <1>5, <2>1, HasWithin
  <2>4. b = b + 0
    OBVIOUS
  <2> QED
    BY <1>5, <2>2, <2>3, <2>4
<1>8. l \in Nat
  BY <1>1, <1>2
<1>9. CASE c <= l
  <2>1. PICK q : q = <<e.id, m>>
    OBVIOUS
  <2>2. Len(q) = 2 /\ q[1] = e.id /\ q[2] = m
    BY <2>1
  <2>3. Has(frame, b, q)
    <3>1. b + Len(q) <= Len(frame)
      BY <1>2, <1>5, <1>9, <2>2
    <3> QED
      BY <1>1, <1>7, <2>1, <3>1, CutHas DEF FrameCut
  <2>4. frame[b + 1] = e.id /\ frame[b + 2] = m
    <3>1. \A i \in 1 .. 2 : frame[b + i] = q[i]
      BY <2>2, <2>3 DEF Has
    <3>2. 1 \in 1 .. 2 /\ 2 \in 1 .. 2
      OBVIOUS
    <3> QED
      BY <2>2, <3>1, <3>2
  <2>5. HasElement(frame, b) <=> c + m <= l
    BY <1>2, <1>5, <1>9, <2>4 DEF HasElement
  <2>6. ASSUME c + m <= l
        PROVE  ElementAt(frame, b) = e /\ After(b, e) = c + m
    <3>1. Has(frame, c, d)
      <4>1. c + Len(d) <= Len(frame)
        BY <1>2, <1>5, <2>6
      <4> QED
        BY <1>1, <1>7, <4>1, CutHas DEF FrameCut
    <3>2. SubSeq(frame, b + 3, b + 2 + m) = d
      <4>1. PICK x, y : x = b + 3 /\ y = b + 2 + m
        OBVIOUS
      <4>2. x = c + 1 /\ y = c + m
        BY <1>5, <4>1
      <4>3. Sized(Nat, d, m)
        BY <1>3, <1>5 DEF Sized
      <4>4. IsSlice(d, frame, x, y)
        BY ONLY <1>1, <4>3, <3>1, <4>2, SizedSlice
      <4> QED
        BY <4>1, <4>4 DEF IsSlice
    <3>3. ElementAt(frame, b) = [id |-> e.id, data |-> d]
      BY <2>4, <3>2 DEF ElementAt
    <3>4. After(b, e) = c + m
      BY <1>2, <1>5 DEF After
    <3> QED
      BY <1>3, <3>3, <3>4
  <2> QED
    BY <1>2, <1>5, <1>6, <2>5, <2>6
<1>10. CASE ~ c <= l
  <2>1. ~ HasElement(frame, b)
    BY <1>2, <1>5, <1>8, <1>10 DEF HasElement
  <2>2. ~ c + m <= l
    BY <1>8, <1>10
  <2> QED
    BY <1>2, <1>5, <1>6, <2>1, <2>2
<1> QED
  BY <1>9, <1>10

(* Behind the last element there is none. *)
LEMMA NoneBehind ==
    ASSUME FrameCut, NEW k \in 1 .. Len(elements) + 1, k \notin 1 .. Len(elements)
    PROVE  \A b : b = ElementStart(k) => ~ HasElement(frame, b)
<1>1. /\ ElementsPlaced(Len(elements)) /\ Len(elements) \in Nat /\ Len(frame) \in Nat
      /\ Len(frame) <= Len(SentBytes)
  BY ElementsStand DEF FrameCut, Begins
<1>2. k = Len(elements) + 1
  BY <1>1
<1>3. Len(SentBytes) = ElementStart(k) /\ ElementStart(k) \in Nat
  BY <1>1, <1>2 DEF ElementsPlaced
<1> QED
  BY <1>1, <1>3 DEF HasElement

(* The fixed part is read where it was put, and missed when it is cut. *)
LEMMA FixedRead ==
    ASSUME FrameCut
    PROVE  /\ (HeaderIsWhole(frame) /\ Len(frame) >= HeaderLen(frame) + 12)
                 <=> Len(frame) >= HeaderSize + 12
           /\ Len(frame) >= HeaderSize + 12 =>
                 /\ HeaderLen(frame) = HeaderSize
                 /\ MacHeader(frame).addr3 = Addr(3)
                 /\ frame[HeaderSize + 9] + 256 * frame[HeaderSize + 10] = 100
                 /\ frame[HeaderSize + 11] + 256 * frame[HeaderSize + 12] = Set(privacy, 16)
<1>1. /\ MacOK /\ SentBytes \in Seq(Nat) /\ Has(SentBytes, 0, Fore) /\ HeaderSize \in 24 .. 32
      /\ frame \in Seq(Nat) /\ Len(frame) \in Nat /\ Begins(frame, SentBytes)
  BY ElementsStand, MacTyped DEF FrameCut
<1>2. \A b, t : Has(Fore, b, t) => Has(SentBytes, b, t)
  <2> SUFFICES ASSUME NEW b, NEW t, Has(Fore, b, t)
               PROVE  Has(SentBytes, b, t)
    OBVIOUS
  <2>1. \A c : c = 0 + b => Has(SentBytes, c, t)
    BY <1>1, HasWithin
  <2>2. b = 0 + b
    BY DEF Has
  <2> QED
    BY <2>1, <2>2
<1>3. PICK h \in 24 .. 32, l \in Nat : h = HeaderSize /\ l = Len(frame)
  BY <1>1
<1>4. ASSUME l >= 24
      PROVE  HeaderLen(frame) = h
  <2>1. Has(SentBytes, 0, First) /\ Len(First) = 4
    BY <1>1, <1>2, ForeShape DEF First
  <2>2. 0 + Len(First) <= Len(frame)
    BY <1>3, <1>4, <2>1
  <2>3. Has(frame, 0, First)
    BY <1>1, <2>1, <2>2, CutHas
  <2> QED
    BY <1>1, <1>3, <2>3, HeaderRead
<1>5. (HeaderIsWhole(frame) /\ l >= HeaderLen(frame) + 12) <=> l >= h + 12
  <2>1. CASE l >= 24
    BY <1>3, <1>4, <2>1 DEF HeaderIsWhole
  <2>2. CASE ~ l >= 24
    BY <1>3, <2>2 DEF HeaderIsWhole
  <2> QED
    BY <2>1, <2>2
<1>6. ASSUME l >= h + 12
      PROVE  /\ HeaderLen(frame) = h
             /\ MacHeader(frame).addr3 = Addr(3)
             /\ frame[h + 9] + 256 * frame[h + 10] = 100
             /\ frame[h + 11] + 256 * frame[h + 12] = Set(privacy, 16)
  <2>1. HeaderLen(frame) = h
    BY <1>4, <1>6
  <2>2. SubSeq(frame, 17, 22) = Addr(3)
    <3>1. PICK a : a = Addr(3)
      OBVIOUS
    <3>2. Has(SentBytes, 16, a) /\ Sized(Nat, a, 6)
      BY <1>1, <1>2, <3>1, ForeShape, AddrSized
    <3>3. 16 + 6 <= Len(frame)
      BY <1>3, <1>6
    <3>4. 16 + 6 <= Len(frame) => Has(frame, 16, a)
      BY ONLY <1>1, <3>2, SizedCut
    <3>5. \A x, y : x = 16 + 1 /\ y = 16 + 6 => IsSlice(a, frame, x, y)
      BY <1>1, <3>2, <3>3, <3>4, SizedSlice
    <3>6. IsSlice(a, frame, 17, 22)
      BY <3>5
    <3> QED
      BY <3>1, <3>6 DEF IsSlice
  <2>3. MacHeader(frame).addr3 = Addr(3)
    BY <2>2 DEF MacHeader
  <2>4. PICK f : f = FixedBytes
    OBVIOUS
  <2>5. /\ Len(f) = 12 /\ f[9] = 100 /\ f[10] = 0 /\ f[11] = Set(privacy, 16) /\ f[12] = 0
        /\ Has(SentBytes, h, f)
    BY <1>1, <1>2, <1>3, <2>4, ForeShape DEF Sized
  <2>6. h + Len(f) <= Len(frame)
    BY <1>3, <1>6, <2>5
  <2>7. Has(frame, h, f)
    BY <1>1, <2>5, <2>6, CutHas
  <2>8. \A i \in 1 .. 12 : frame[h + i] = f[i]
    BY <2>5, <2>7 DEF Has
  <2>9. /\ frame[h + 9] = f[9] /\ frame[h + 10] = f[10]
        /\ frame[h + 11] = f[11] /\ frame[h + 12] = f[12]
    <3>1. 9 \in 1 .. 12 /\ 10 \in 1 .. 12 /\ 11 \in 1 .. 12 /\ 12 \in 1 .. 12
      OBVIOUS
    <3> QED
      BY <2>8, <3>1
  <2>10. Set(privacy, 16) \in Nat
    BY DEF Set
  <2> QED
    BY <2>1, <2>3, <2>5, <2>9, <2>10
<1> QED
  BY <1>3, <1>5, <1>6

-----------------------------------------------------------------------------
Beacons ==
    [bssid : Seq(Nat), ssid : Seq(Nat), channel : Nat, beacon_interval : Nat,
     capability : Nat, has_rsn : BOOLEAN, is_open : BOOLEAN]

(* Those of the elements that are a name, and those that are a channel. *)
Named(es, ms) == {m \in ms : es[m].id = SSID /\ IsUtf8(es[m].data)}
Tuned(es, ms) == {m \in ms : es[m].id = DS_PARAMETER_SET /\ es[m].data # <<>>}

(* v is the payload of the last of the elements ms, if there is one. *)
LastData(v, es, ms, otherwise) ==
    \/ ms = {} /\ v = otherwise
    \/ \E m \in ms : (\A o \in ms : o <= m) /\ v = es[m].data

LastChannel(c, es, ms) == \E v : LastData(v, es, ms, <<0>>) /\ c = v[1]

(* The beacon b is what the elements ms say. *)
Says(b, es, ms) ==
    /\ b \in Beacons
    /\ b.bssid = Addr(3)
    /\ b.beacon_interval = 100
    /\ LastData(b.ssid, es, Named(es, ms), <<>>)
    /\ LastChannel(b.channel, es, Tuned(es, ms))
    /\ b.has_rsn <=> \E m \in ms : es[m].id = RSN

(* What reading one element leaves as it was. *)
LEMMA ReadFields ==
    ASSUME NEW b \in Beacons, NEW e \in Element
    PROVE  /\ Read(b, e) \in Beacons
           /\ Read(b, e).bssid = b.bssid /\ Read(b, e).beacon_interval = b.beacon_interval
           /\ Read(b, e).capability = b.capability
           /\ Read(b, e).ssid = IF TakesName(b, e) THEN e.data ELSE b.ssid
           /\ Read(b, e).channel = IF e.id = DS_PARAMETER_SET /\ e.data # <<>>
                                   THEN e.data[1] ELSE b.channel
           /\ Read(b, e).has_rsn = (b.has_rsn \/ e.id = RSN)
<1>1. e.data \in Seq(Nat)
  BY ElementShape
<1>2. e.data # <<>> => e.data[1] \in Nat
  BY <1>1
<1>3. PICK s, c, r : /\ s = (IF TakesName(b, e) THEN e.data ELSE b.ssid)
                     /\ c = (IF e.id = DS_PARAMETER_SET /\ e.data # <<>> THEN e.data[1] ELSE b.channel)
                     /\ r = (b.has_rsn \/ e.id = RSN)
  OBVIOUS
<1>4. b.ssid \in Seq(Nat) /\ b.channel \in Nat /\ b.has_rsn \in BOOLEAN
  BY DEF Beacons
<1>5. s \in Seq(Nat) /\ c \in Nat /\ r \in BOOLEAN
  BY <1>1, <1>2, <1>3, <1>4
<1>6. Read(b, e) = [b EXCEPT !.ssid = s, !.channel = c, !.has_rsn = r]
  BY <1>3 DEF Read
<1> QED
  BY <1>3, <1>5, <1>6 DEF Beacons

Below(ms, k) == ms \in SUBSET Nat /\ \A m \in ms : m < k

(* One more element behind the others is the last. *)
LEMMA LastExtends ==
    ASSUME NEW es, NEW k \in Nat, NEW old, Below(old, k), NEW otherwise
    PROVE  \A new : new = old \union {k} => LastData(es[k].data, es, new, otherwise)
<1> TAKE new
<1> HAVE new = old \union {k}
<1>1. k \in new /\ \A o \in new : o <= k
  BY DEF Below
<1> QED
  BY <1>1 DEF LastData

(* Reading the next element keeps saying what the elements say. *)
LEMMA ReadSays ==
    ASSUME NEW es \in Seq(Element), NEW k \in 1 .. Len(es), NEW b,
           Says(b, es, {m \in 1 .. Len(es) : m < k})
    PROVE  \A j : j = k + 1 => Says(Read(b, es[k]), es, {m \in 1 .. Len(es) : m < j})
<1> SUFFICES ASSUME NEW j, j = k + 1
             PROVE  Says(Read(b, es[k]), es, {m \in 1 .. Len(es) : m < j})
  OBVIOUS
<1> DEFINE old == {m \in 1 .. Len(es) : m < k}
           new == {m \in 1 .. Len(es) : m < j}
<1>1. new = old \union {k} /\ old \in SUBSET Nat /\ \A m \in old : m < k
  OBVIOUS
<1>2. k \in Nat
  OBVIOUS
<1>3. Says(b, es, old)
  OBVIOUS
<1> HIDE DEF old, new
<1>4. PICK e, r : e \in Element /\ e = es[k] /\ r = Read(b, e)
  OBVIOUS
<1>5. /\ r \in Beacons /\ b \in Beacons
      /\ r.bssid = b.bssid /\ r.beacon_interval = b.beacon_interval
      /\ r.ssid = IF TakesName(b, e) THEN e.data ELSE b.ssid
      /\ r.channel = IF e.id = DS_PARAMETER_SET /\ e.data # <<>> THEN e.data[1] ELSE b.channel
      /\ r.has_rsn = (b.has_rsn \/ e.id = RSN)
  <2>1. b \in Beacons
    BY <1>3 DEF Says
  <2> QED
    BY <1>4, <2>1, ReadFields
<1>6. LastData(r.ssid, es, Named(es, new), <<>>)
  <2>1. LastData(b.ssid, es, Named(es, old), <<>>)
    BY <1>3 DEF Says
  <2>2. Below(Named(es, old), k) /\ k \in Nat
    BY <1>2, <1>1 DEF Named, Below
  <2>3. CASE TakesName(b, e)
    <3>1. Named(es, new) = Named(es, old) \union {k} /\ r.ssid = es[k].data
      BY <1>1, <1>4, <1>5, <2>3 DEF Named, TakesName
    <3>2. LastData(es[k].data, es, Named(es, new), <<>>)
      BY <2>2, <3>1, LastExtends
    <3> QED
      BY <3>1, <3>2
  <2>4. CASE ~ TakesName(b, e)
    <3>1. Named(es, new) = Named(es, old) /\ r.ssid = b.ssid
      BY <1>1, <1>4, <1>5, <2>4 DEF Named, TakesName
    <3> QED
      BY <2>1, <3>1
  <2> QED
    BY <2>3, <2>4
<1>7. LastChannel(r.channel, es, Tuned(es, new))
  <2>1. PICK v : LastData(v, es, Tuned(es, old), <<0>>) /\ b.channel = v[1]
    BY <1>3 DEF Says, LastChannel
  <2>2. Below(Tuned(es, old), k) /\ k \in Nat
    BY <1>2, <1>1 DEF Tuned, Below
  <2>3. CASE e.id = DS_PARAMETER_SET /\ e.data # <<>>
    <3>1. Tuned(es, new) = Tuned(es, old) \union {k} /\ r.channel = e.data[1] /\ e.data = es[k].data
      BY <1>1, <1>4, <1>5, <2>3 DEF Tuned
    <3>2. LastData(es[k].data, es, Tuned(es, new), <<0>>)
      BY <2>2, <3>1, LastExtends
    <3> QED
      BY <3>1, <3>2 DEF LastChannel
  <2>4. CASE ~ (e.id = DS_PARAMETER_SET /\ e.data # <<>>)
    <3>1. Tuned(es, new) = Tuned(es, old) /\ r.channel = b.channel
      BY <1>1, <1>4, <1>5, <2>4 DEF Tuned
    <3> QED
      BY <2>1, <3>1 DEF LastChannel
  <2> QED
    BY <2>3, <2>4
<1>8. r.has_rsn <=> \E m \in new : es[m].id = RSN
  <2>1. b.has_rsn <=> \E m \in old : es[m].id = RSN
    BY <1>3 DEF Says
  <2> QED
    BY <1>1, <1>4, <1>5, <2>1
<1>9. Says(r, es, new)
  <2>1. r.bssid = Addr(3) /\ r.beacon_interval = 100
    BY <1>3, <1>5 DEF Says
  <2> QED
    BY <1>5, <1>6, <1>7, <1>8, <2>1 DEF Says
<1> QED
  BY <1>4, <1>9 DEF new

-----------------------------------------------------------------------------
(* The walk stands before the k-th element, with those before it read. *)
ReadTo(k) ==
    /\ k \in 1 .. Len(elements) + 1
    /\ at = ElementStart(k)
    /\ \A m \in 1 .. Len(elements) : m < k => m \in Arrived
    /\ Says(beacon, elements, {m \in 1 .. Len(elements) : m < k})
    /\ beacon.capability = Set(privacy, 16)

WholeFixed == Len(frame) >= HeaderSize + 12

BeaconInv ==
    /\ FrameCut
    /\ walk_pc = "walk" => WholeFixed /\ \E k : ReadTo(k)
    /\ walk_pc = "parsed" =>
          /\ WholeFixed
          /\ Says(beacon, elements, Arrived)
          /\ beacon.is_open <=> ~ privacy /\ ~ beacon.has_rsn
    /\ walk_pc = "none" => ~ WholeFixed
    /\ walk_pc \in {"start", "walk", "parsed", "none"}

(* When the walk ends it has read exactly the elements that arrived. *)
LEMMA AllRead ==
    ASSUME FrameCut, NEW k, ReadTo(k), ~ HasElement(frame, at)
    PROVE  {m \in 1 .. Len(elements) : m < k} = Arrived
<1>1. /\ ElementsPlaced(Len(elements)) /\ Len(elements) \in Nat /\ Len(frame) \in Nat
      /\ DOMAIN elements = 1 .. Len(elements) /\ k \in 1 .. Len(elements) + 1
  BY ElementsStand DEF FrameCut, ReadTo
<1>2. ASSUME NEW m \in 1 .. Len(elements), m \in Arrived, ~ m < k
      PROVE  FALSE
  <2>1. k \in 1 .. Len(elements) /\ k <= m
    BY <1>1, <1>2
  <2>2. PICK j \in 1 .. Len(elements) + 1, n \in 1 .. Len(elements) + 1 :
           j = k + 1 /\ n = m + 1 /\ j <= n
    BY <1>1, <2>1
  <2>3. ElementStart(n) <= Len(frame)
    BY <1>2, <2>2 DEF Arrived
  <2>4. ElementStart(j) <= ElementStart(n) /\ ElementStart(j) \in Nat /\ ElementStart(n) \in Nat
    BY <1>1, <2>2 DEF ElementsPlaced
  <2>5. ElementStart(j) <= Len(frame)
    BY <1>1, <2>3, <2>4
  <2>6. HasElement(frame, at) <=> ElementStart(j) <= Len(frame)
    BY <2>1, <2>2, ElementFound DEF ReadTo
  <2> QED
    BY <2>5, <2>6
<1>3. Arrived \subseteq 1 .. Len(elements)
  BY <1>1 DEF Arrived
<1> QED
  BY <1>2, <1>3 DEF ReadTo

(* Nothing of what was sent changes. *)
LEMMA SentStays ==
    ASSUME UNCHANGED <<mac, privacy, elements, frame>>
    PROVE  /\ FrameCut' <=> FrameCut
           /\ WholeFixed' <=> WholeFixed
           /\ Arrived' = Arrived
           /\ \A k : ElementStart(k)' = ElementStart(k)
<1>1. HeaderSize' = HeaderSize /\ HeaderBytes' = HeaderBytes /\ FixedBytes' = FixedBytes
  BY DEF HeaderSize, HeaderBytes, FixedBytes
<1>2. \A es : FrameOf(es)' = FrameOf(es)
  BY <1>1 DEF FrameOf
<1>3. \A k : ElementStart(k)' = ElementStart(k)
  BY <1>2 DEF ElementStart
<1>4. SentBytes' = SentBytes
  BY <1>2 DEF SentBytes
<1> QED
  BY <1>1, <1>3, <1>4 DEF FrameCut, MacOK, WholeFixed, Arrived

(* Nothing is read of a frame that just came. *)
LEMMA BeaconStarts == ElementsInit => BeaconInv
<1> SUFFICES ASSUME ElementsInit
             PROVE  BeaconInv
  OBVIOUS
<1>1. elements \in Seq(Element) /\ MacOK
  BY ElementAssumption, SeqOfShape DEF ElementsInit, Element, MacOK
<1>2. PICK sent \in Seq(Nat) : sent = SentBytes
  BY <1>1, ElementsStand
<1>3. PICK cut \in 0 .. Len(sent) : frame = SubSeq(sent, 1, cut)
  BY <1>2 DEF ElementsInit
<1>4. frame \in Seq(Nat) /\ Len(frame) = cut /\ \A i \in 1 .. cut : frame[i] = sent[i]
  <2>1. cut \in Nat /\ cut <= Len(sent)
    OBVIOUS
  <2> QED
    BY <1>3, <2>1
<1>5. FrameCut
  BY <1>1, <1>2, <1>4 DEF FrameCut, Begins
<1> QED
  BY <1>5 DEF BeaconInv, ElementsInit

(* The fixed fields read, no element has been. *)
LEMMA WalkBegins ==
    ASSUME BeaconInv, ParseStart
    PROVE  BeaconInv'
<1>1. /\ FrameCut /\ UNCHANGED <<mac, privacy, elements, frame>>
      /\ ElementsPlaced(Len(elements)) /\ Len(elements) \in Nat
  BY ElementsStand DEF BeaconInv, ParseStart, FrameCut
<1>2. FrameCut' /\ (WholeFixed' <=> WholeFixed) /\ Arrived' = Arrived /\ \A k : ElementStart(k)' = ElementStart(k)
  BY <1>1, SentStays
<1>3. CASE ~ WholeFixed
  <2>1. walk_pc' = "none"
    BY <1>1, <1>3, FixedRead DEF ParseStart, WholeFixed
  <2> QED
    BY <1>2, <1>3, <2>1 DEF BeaconInv
<1>4. CASE WholeFixed
  <2>1. /\ HeaderLen(frame) = HeaderSize
        /\ MacHeader(frame).addr3 = Addr(3)
        /\ frame[HeaderSize + 9] + 256 * frame[HeaderSize + 10] = 100
        /\ frame[HeaderSize + 11] + 256 * frame[HeaderSize + 12] = Set(privacy, 16)
        /\ HeaderIsWhole(frame) /\ Len(frame) >= HeaderLen(frame) + 12
    BY <1>1, <1>4, FixedRead DEF WholeFixed
  <2>2. /\ walk_pc' = "walk" /\ at' = HeaderSize + 12
        /\ beacon' = [NoBeacon EXCEPT !.bssid = Addr(3), !.beacon_interval = 100,
                                      !.capability = Set(privacy, 16)]
    BY <2>1 DEF ParseStart
  <2>3. Addr(3) \in Seq(Nat) /\ Addr(0) \in Seq(Nat) /\ Set(privacy, 16) \in Nat
    BY AddrSized DEF Sized, Set
  <2>4. /\ beacon' \in Beacons /\ beacon'.bssid = Addr(3) /\ beacon'.beacon_interval = 100
        /\ beacon'.capability = Set(privacy, 16) /\ beacon'.ssid = <<>>
        /\ beacon'.channel = 0 /\ beacon'.has_rsn = FALSE
    <3>1. PICK a, c : a = Addr(3) /\ c = Set(privacy, 16)
      OBVIOUS
    <3>2. /\ NoBeacon \in Beacons /\ NoBeacon.ssid = <<>>
          /\ NoBeacon.channel = 0 /\ NoBeacon.has_rsn = FALSE
      BY <2>3 DEF NoBeacon, Beacons
    <3>3. beacon' = [NoBeacon EXCEPT !.bssid = a, !.beacon_interval = 100, !.capability = c]
      BY <2>2, <3>1
    <3>4. a \in Seq(Nat) /\ c \in Nat
      BY <2>3, <3>1
    <3> QED
      BY <3>1, <3>2, <3>3, <3>4 DEF Beacons
  <2>5. Says(beacon', elements, {})
    <3>1. Named(elements, {}) = {} /\ Tuned(elements, {}) = {}
      BY DEF Named, Tuned
    <3>2. LastChannel(0, elements, {})
      <4>1. LastData(<<0>>, elements, {}, <<0>>) /\ <<0>>[1] = 0
        BY DEF LastData
      <4> QED
        BY <4>1 DEF LastChannel
    <3>3. LastData(<<>>, elements, {}, <<>>)
      BY DEF LastData
    <3> QED
      BY <2>4, <3>1, <3>2, <3>3 DEF Says
  <2>6. ReadTo(1)'
    <3>1. 1 \in 1 .. Len(elements) + 1 /\ {m \in 1 .. Len(elements) : m < 1} = {}
      BY <1>1
    <3>2. at' = ElementStart(1)
      BY <1>1, <2>2 DEF ElementsPlaced
    <3> QED
      BY <1>1, <1>2, <2>4, <2>5, <3>1, <3>2 DEF ReadTo
  <2> QED
    BY <1>2, <1>4, <2>2, <2>6 DEF BeaconInv
<1> QED
  BY <1>3, <1>4

(* One more element is read. *)
LEMMA WalkGoesOn ==
    ASSUME BeaconInv, NextElement
    PROVE  BeaconInv'
<1>1. /\ FrameCut /\ UNCHANGED <<mac, privacy, elements, frame, walk_pc>> /\ walk_pc = "walk"
      /\ ElementsPlaced(Len(elements)) /\ Len(elements) \in Nat /\ elements \in Seq(Element)
      /\ HasElement(frame, at) /\ WholeFixed
  BY ElementsStand DEF BeaconInv, NextElement, FrameCut
<1>2. FrameCut' /\ (WholeFixed' <=> WholeFixed) /\ Arrived' = Arrived /\ \A k : ElementStart(k)' = ElementStart(k)
  BY <1>1, SentStays
<1>3. PICK k : ReadTo(k)
  BY <1>1 DEF BeaconInv
<1>4. k \in 1 .. Len(elements) + 1 /\ at = ElementStart(k)
  BY <1>3 DEF ReadTo
<1>5. k \in 1 .. Len(elements)
  BY <1>1, <1>4, NoneBehind
<1>6. PICK j : j = k + 1
  OBVIOUS
<1>7. /\ ElementStart(j) <= Len(frame)
      /\ ElementAt(frame, at) = elements[k]
      /\ After(at, elements[k]) = ElementStart(j)
  BY <1>1, <1>4, <1>5, <1>6, ElementFound
<1>8. at' = ElementStart(j) /\ beacon' = Read(beacon, elements[k])
  BY <1>7 DEF NextElement
<1>9. Says(beacon', elements, {m \in 1 .. Len(elements) : m < j})
  <2>1. Says(beacon, elements, {m \in 1 .. Len(elements) : m < k})
    BY <1>3 DEF ReadTo
  <2> QED
    BY <1>1, <1>5, <1>6, <1>8, <2>1, ReadSays
<1>10. beacon'.capability = Set(privacy, 16)
  <2>1. beacon \in Beacons /\ elements[k] \in Element /\ beacon.capability = Set(privacy, 16)
    BY <1>1, <1>3, <1>5 DEF ReadTo, Says
  <2> QED
    BY <1>8, <2>1, ReadFields
<1>11. \A m \in 1 .. Len(elements) : m < j => m \in Arrived
  <2>1. k \in Arrived
    BY <1>1, <1>5, <1>6, <1>7 DEF Arrived
  <2>2. \A m \in 1 .. Len(elements) : m < j => m < k \/ m = k
    BY <1>5, <1>6
  <2> QED
    BY <1>3, <2>1, <2>2 DEF ReadTo
<1>12. ReadTo(j)'
  <2>1. j \in 1 .. Len(elements) + 1
    BY <1>1, <1>5, <1>6
  <2> QED
    BY <1>1, <1>2, <1>8, <1>9, <1>10, <1>11, <2>1 DEF ReadTo
<1> QED
  BY <1>1, <1>2, <1>12 DEF BeaconInv

(* The walk over, the beacon says what the elements say that arrived. *)
LEMMA WalkEnds ==
    ASSUME BeaconInv, ElementsEnd
    PROVE  BeaconInv'
<1>1. /\ FrameCut /\ UNCHANGED <<mac, privacy, elements, frame>> /\ walk_pc = "walk"
      /\ walk_pc' = "parsed" /\ ~ HasElement(frame, at) /\ WholeFixed
  BY DEF BeaconInv, ElementsEnd
<1>2. FrameCut' /\ (WholeFixed' <=> WholeFixed) /\ Arrived' = Arrived
  BY <1>1, SentStays
<1>3. PICK k : ReadTo(k)
  BY <1>1 DEF BeaconInv
<1>4. Says(beacon, elements, Arrived) /\ beacon.capability = Set(privacy, 16) /\ beacon \in Beacons
  BY <1>1, <1>3, AllRead DEF ReadTo, Says
<1>5. PICK open : open = ((beacon.capability \div 16) % 2 = 0 /\ ~ beacon.has_rsn)
  OBVIOUS
<1>6. open \in BOOLEAN /\ (open <=> ~ privacy /\ ~ beacon.has_rsn)
  <2>1. CASE privacy
    <3>1. beacon.capability = 16 /\ (16 \div 16) % 2 = 1
      BY <1>4, <2>1 DEF Set
    <3>2. ~ (beacon.capability \div 16) % 2 = 0
      BY <3>1
    <3> QED
      BY <1>5, <2>1, <3>2
  <2>2. CASE ~ privacy
    <3>1. beacon.capability = 0 /\ (0 \div 16) % 2 = 0
      BY <1>4, <2>2 DEF Set
    <3> QED
      BY <1>5, <2>2, <3>1
  <2> QED
    BY <2>1, <2>2
<1>7. beacon' = [beacon EXCEPT !.is_open = open]
  BY <1>5 DEF ElementsEnd
<1>8. /\ beacon' \in Beacons /\ beacon'.bssid = beacon.bssid
      /\ beacon'.beacon_interval = beacon.beacon_interval /\ beacon'.ssid = beacon.ssid
      /\ beacon'.channel = beacon.channel /\ beacon'.has_rsn = beacon.has_rsn
      /\ beacon'.is_open = open
  BY <1>4, <1>6, <1>7 DEF Beacons
<1>9. Says(beacon', elements, Arrived)
  BY <1>4, <1>8 DEF Says
<1> QED
  BY <1>1, <1>2, <1>6, <1>8, <1>9 DEF BeaconInv

(* Every step keeps what is known. *)
LEMMA BeaconKeeps == BeaconInv /\ [ElementsNext \/ Build]_elementVars => BeaconInv'
<1> SUFFICES ASSUME BeaconInv, [ElementsNext \/ Build]_elementVars
             PROVE  BeaconInv'
  OBVIOUS
<1>1. CASE Build \/ UNCHANGED elementVars
  <2>1. UNCHANGED <<mac, privacy, elements, frame, walk_pc, at, beacon>>
    BY <1>1 DEF Build, elementVars
  <2>2. /\ FrameCut' <=> FrameCut
        /\ WholeFixed' <=> WholeFixed
        /\ Arrived' = Arrived
        /\ \A k : ElementStart(k)' = ElementStart(k)
    BY <2>1, SentStays
  <2>3. \A k : ReadTo(k)' <=> ReadTo(k)
    BY <2>1, <2>2 DEF ReadTo
  <2> QED
    BY <2>1, <2>2, <2>3 DEF BeaconInv
<1> QED
  BY <1>1, WalkBegins, WalkGoesOn, WalkEnds DEF ElementsNext

(* The last of a set of elements, as the property takes it. *)
LEMMA LastIsLastOf ==
    ASSUME NEW ms \in SUBSET Nat, NEW v, NEW otherwise, LastData(v, elements, ms, otherwise)
    PROVE  v = LastOf(ms, otherwise)
<1> DEFINE last == CHOOSE n \in ms : \A m \in ms : m <= n
<1>1. ASSUME NEW m \in ms, \A o \in ms : o <= m
      PROVE  m = last
  <2>1. last \in ms /\ \A o \in ms : o <= last
    BY <1>1
  <2>2. last <= m /\ m <= last /\ last \in Nat /\ m \in Nat
    BY <1>1, <2>1
  <2> HIDE DEF last
  <2> QED
    BY <2>2
<1>2. LastOf(ms, otherwise) = IF ms = {} THEN otherwise ELSE elements[last].data
  BY DEF LastOf
<1> HIDE DEF last
<1> QED
  BY <1>1, <1>2 DEF LastData

(* A beacon read to its end says what the property asks. *)
LEMMA BeaconSuffices == BeaconInv => BeaconAsSent
<1> SUFFICES ASSUME BeaconInv
             PROVE  BeaconAsSent
  OBVIOUS
<1>1. Len(HeaderBytes) = HeaderSize
  BY HeaderShape DEF BeaconInv, FrameCut, Sized
<1>2. ASSUME walk_pc = "parsed"
      PROVE  /\ beacon.bssid = Addr(3)
             /\ beacon.beacon_interval = 100
             /\ beacon.ssid = LastOf({n \in Arrived : /\ elements[n].id = SSID
                                                      /\ IsUtf8(elements[n].data)}, <<>>)
             /\ beacon.channel = LastOf({n \in Arrived : /\ elements[n].id = DS_PARAMETER_SET
                                                         /\ elements[n].data # <<>>}, <<0>>)[1]
             /\ beacon.has_rsn <=> \E n \in Arrived : elements[n].id = RSN
             /\ beacon.is_open <=> ~ privacy /\ ~ beacon.has_rsn
  <2>1. Says(beacon, elements, Arrived) /\ (beacon.is_open <=> ~ privacy /\ ~ beacon.has_rsn)
    BY <1>2 DEF BeaconInv
  <2>2. Arrived \in SUBSET Nat
    BY DEF Arrived, BeaconInv, FrameCut
  <2>3. Named(elements, Arrived) \in SUBSET Nat /\ Tuned(elements, Arrived) \in SUBSET Nat
    BY <2>2 DEF Named, Tuned
  <2>4. beacon.ssid = LastOf(Named(elements, Arrived), <<>>)
    BY <2>1, <2>3, LastIsLastOf DEF Says
  <2>5. beacon.channel = LastOf(Tuned(elements, Arrived), <<0>>)[1]
    <3>1. PICK v : LastData(v, elements, Tuned(elements, Arrived), <<0>>) /\ beacon.channel = v[1]
      BY <2>1 DEF Says, LastChannel
    <3> QED
      BY <2>3, <3>1, LastIsLastOf
  <2> QED
    BY <2>1, <2>4, <2>5 DEF Says, Named, Tuned
<1> QED
  BY <1>1, <1>2 DEF BeaconInv, BeaconAsSent, WholeFixed

(* A beacon, wherever it was cut, is read as what arrived of it            *)
(* (parse_beacon, ieee80211.rs).                                           *)
THEOREM BeaconIsAsSent == ElementsSpec => []BeaconAsSent
<1>1. ElementsInit => BeaconInv
  BY BeaconStarts
<1>2. BeaconInv /\ [ElementsNext \/ Build]_elementVars => BeaconInv'
  BY BeaconKeeps
<1>3. BeaconInv => BeaconAsSent
  BY BeaconSuffices
<1> QED
  BY <1>1, <1>2, <1>3, PTL DEF ElementsSpec

-----------------------------------------------------------------------------
(* What the fixed part of a header says. *)
ReadsAs(u, type, subtype, flag_bits, dst, seq_ctrl) ==
    /\ FrameType(u) = type /\ Subtype(u) = subtype /\ u[2] = flag_bits
    /\ MacHeader(u).addr1 = Addr(3) /\ MacHeader(u).addr2 = Addr(2)
    /\ MacHeader(u).addr3 = dst /\ MacHeader(u).seq_ctrl = seq_ctrl

(* A frame that begins with a header of the driver's is read as such. *)
LEMMA MacRead ==
    ASSUME NEW type \in 0 .. 3, NEW subtype \in 0 .. 15, NEW flag_bits \in 0 .. 255,
           NEW dst, Sized(Nat, dst, 6), NEW seq_ctrl \in Nat,
           NEW w, w = Mac(type, subtype, flag_bits, dst, seq_ctrl)
    PROVE  /\ Sized(Nat, w, 24)
           /\ \A u \in Seq(Nat) : Has(u, 0, w) => ReadsAs(u, type, subtype, flag_bits, dst, seq_ctrl)
<1>1. PICK f, q, x, y :
         /\ f = <<4 * type + 16 * subtype, flag_bits, 0, 0>>
         /\ q = <<seq_ctrl % 256, seq_ctrl \div 256>>
         /\ x = Addr(3) /\ y = Addr(2)
  OBVIOUS
<1>2. seq_ctrl % 256 \in 0 .. 255 /\ seq_ctrl \div 256 \in Nat /\ seq_ctrl = (256 * (seq_ctrl \div 256)) + (seq_ctrl % 256)
  BY TwoBytes
<1>3. Sized(Nat, f, 4) /\ f[1] = 4 * type + 16 * subtype /\ f[2] = flag_bits
  BY <1>1 DEF Sized
<1>4. Sized(Nat, q, 2) /\ q[1] = seq_ctrl % 256 /\ q[2] = seq_ctrl \div 256
  BY <1>1, <1>2 DEF Sized
<1>5. Sized(Nat, x, 6) /\ Sized(Nat, y, 6)
  BY <1>1, AddrSized
<1>6. w = f \o x \o y \o dst \o q
  BY <1>1 DEF Mac
<1>7. /\ Sized(Nat, w, 24)
      /\ Has(w, 0, f) /\ Has(w, 4, x) /\ Has(w, 10, y) /\ Has(w, 16, dst) /\ Has(w, 22, q)
  <2>1. Sized(Nat, f, 4) /\ Sized(Nat, x, 6) /\ Sized(Nat, y, 6) /\ Sized(Nat, dst, 6) /\ Sized(Nat, q, 2)
    BY <1>3, <1>4, <1>5
  <2>2. \A v : v = f \o x \o y \o dst \o q =>
              /\ Sized(Nat, v, 24)
              /\ Has(v, 0, f) /\ Has(v, 4, x) /\ Has(v, 10, y) /\ Has(v, 16, dst) /\ Has(v, 22, q)
    BY ONLY <2>1, Addressed
  <2> QED
    BY <1>6, <2>2
<1>8. ASSUME NEW u \in Seq(Nat), Has(u, 0, w)
      PROVE  ReadsAs(u, type, subtype, flag_bits, dst, seq_ctrl)
  <2>1. Len(u) >= 24
    BY <1>7, <1>8 DEF Has, Sized
  <2>2. \A b, t : Has(w, b, t) => Has(u, b, t)
    <3> SUFFICES ASSUME NEW b, NEW t, Has(w, b, t)
                 PROVE  Has(u, b, t)
      OBVIOUS
    <3>1. \A c : c = 0 + b => Has(u, c, t)
      BY <1>8, HasWithin
    <3>2. b = 0 + b
      BY DEF Has
    <3> QED
      BY <3>1, <3>2
  <2>3. Has(u, 0, f) /\ Has(u, 4, x) /\ Has(u, 10, y) /\ Has(u, 16, dst) /\ Has(u, 22, q)
    BY <1>7, <2>2
  <2>4. u[1] = f[1] /\ u[2] = f[2]
    <3>1. \A i \in 1 .. 4 : u[0 + i] = f[i]
      BY <1>3, <2>3 DEF Has, Sized
    <3>2. 0 + 1 = 1 /\ 0 + 2 = 2 /\ 1 \in 1 .. 4 /\ 2 \in 1 .. 4
      OBVIOUS
    <3> QED
      BY <3>1, <3>2
  <2>5. u[23] = q[1] /\ u[24] = q[2]
    <3>1. \A i \in 1 .. 2 : u[22 + i] = q[i]
      BY <1>4, <2>3 DEF Has, Sized
    <3>2. 22 + 1 = 23 /\ 22 + 2 = 24 /\ 1 \in 1 .. 2 /\ 2 \in 1 .. 2
      OBVIOUS
    <3> QED
      BY <3>1, <3>2
  <2>6. FrameType(u) = type /\ Subtype(u) = subtype
    <3>1. /\ 4 * type + 16 * subtype = (4 * (type + 4 * subtype)) + 0
          /\ type + 4 * subtype = (4 * subtype) + type
          /\ 4 * type + 16 * subtype = (16 * subtype) + (4 * type)
      OBVIOUS
    <3>2. 0 \in 0 .. 4 - 1 /\ type \in 0 .. 4 - 1 /\ 4 * type \in 0 .. 16 - 1
      OBVIOUS
    <3>3. /\ (4 * type + 16 * subtype) \div 4 = type + 4 * subtype
          /\ (type + 4 * subtype) % 4 = type
          /\ (4 * type + 16 * subtype) \div 16 = subtype
      BY <3>1, <3>2, DivModUnique
    <3> QED
      BY <1>3, <2>4, <3>3 DEF FrameType, Subtype
  <2>7. SubSeq(u, 5, 10) = x /\ SubSeq(u, 11, 16) = y /\ SubSeq(u, 17, 22) = dst
    <3>1. \A m, n : m = 4 + 1 /\ n = 4 + 6 => IsSlice(x, u, m, n)
      BY <1>5, <2>3, SizedSlice
    <3>2. \A m, n : m = 10 + 1 /\ n = 10 + 6 => IsSlice(y, u, m, n)
      BY <1>5, <2>3, SizedSlice
    <3>3. \A m, n : m = 16 + 1 /\ n = 16 + 6 => IsSlice(dst, u, m, n)
      BY <2>3, SizedSlice
    <3>4. IsSlice(x, u, 5, 10) /\ IsSlice(y, u, 11, 16) /\ IsSlice(dst, u, 17, 22)
      BY <3>1, <3>2, <3>3
    <3> QED
      BY <3>4 DEF IsSlice
  <2>8. u[23] + 256 * u[24] = seq_ctrl
    BY <1>2, <1>4, <2>5
  <2>9. /\ MacHeader(u).addr1 = Addr(3) /\ MacHeader(u).addr2 = Addr(2)
        /\ MacHeader(u).addr3 = dst /\ MacHeader(u).seq_ctrl = seq_ctrl
    BY <1>1, <2>7, <2>8 DEF MacHeader
  <2>10. u[2] = flag_bits
    BY <1>3, <2>4
  <2> QED
    BY <2>6, <2>9, <2>10 DEF ReadsAs
<1> QED
  BY <1>7, <1>8

-----------------------------------------------------------------------------
(* The place of an element that stands whole in a frame. *)
LEMMA ElementHere ==
    ASSUME NEW u \in Seq(Nat), NEW e, NEW d, NEW m, NEW n \in Nat, NEW b \in Nat, NEW h, NEW c \in Nat,
           Sized(Nat, d, m), e = [id |-> n, data |-> d], h = <<n, m>>, c = b + 2,
           Has(u, b, h), Has(u, c, d)
    PROVE  /\ HasElement(u, b) /\ ElementAt(u, b) = e
           /\ \A l : l = c + m => After(b, e) = l
<1>1. m \in Nat /\ Len(d) = m
  BY DEF Sized
<1>2. u[b + 1] = n /\ u[b + 2] = m
  <2>1. Len(h) = 2 /\ h[1] = n /\ h[2] = m
    OBVIOUS
  <2>2. \A i \in 1 .. 2 : u[b + i] = h[i]
    BY <2>1 DEF Has
  <2>3. 1 \in 1 .. 2 /\ 2 \in 1 .. 2
    OBVIOUS
  <2> QED
    BY <2>1, <2>2, <2>3
<1>3. c + m <= Len(u) /\ Len(u) \in Nat
  BY <1>1 DEF Has
<1>4. HasElement(u, b)
  BY <1>1, <1>2, <1>3 DEF HasElement
<1>5. SubSeq(u, b + 3, b + 2 + m) = d
  <2>1. PICK x, y : x = b + 3 /\ y = b + 2 + m
    OBVIOUS
  <2>2. x = c + 1 /\ y = c + m
    BY <1>1, <2>1
  <2>3. IsSlice(d, u, x, y)
    BY ONLY u \in Seq(Nat), Sized(Nat, d, m), Has(u, c, d), <2>2, SizedSlice
  <2> QED
    BY <2>1, <2>3 DEF IsSlice
<1>6. ElementAt(u, b) = e
  BY <1>2, <1>5 DEF ElementAt
<1>7. After(b, e) = c + m
  BY <1>1 DEF After
<1> QED
  BY <1>4, <1>6, <1>7

(* The iterator gets on, and not past the end. *)
LEMMA AfterLater ==
    ASSUME NEW u \in Seq(Nat), NEW b \in 0 .. Len(u), HasElement(u, b)
    PROVE  After(b, ElementAt(u, b)) \in b + 2 .. Len(u)
<1>1. b + 2 <= Len(u) /\ b + 2 + u[b + 2] <= Len(u) /\ Len(u) \in Nat /\ b \in Nat
  BY DEF HasElement
<1>2. PICK c \in Nat, m \in Nat : c = b + 2 /\ m = u[b + 2]
  <2>1. b + 2 \in 1 .. Len(u)
    BY <1>1
  <2>2. u[b + 2] \in Nat /\ b + 2 \in Nat
    BY <1>1, <2>1
  <2> QED
    BY <2>2
<1>3. Len(SubSeq(u, c + 1, c + m)) = m
  <2>1. c + m <= Len(u)
    BY <1>1, <1>2
  <2> QED
    BY <2>1, SliceAt, SMT
<1>4. b + 3 = c + 1 /\ b + 2 + u[b + 2] = c + m
  BY <1>1, <1>2
<1>5. After(b, ElementAt(u, b)) = c + m
  <2>1. Len(SubSeq(u, b + 3, b + 2 + u[b + 2])) = m
    BY <1>3, <1>4
  <2> QED
    BY <1>2, <2>1 DEF After, ElementAt
<1> QED
  BY <1>1, <1>2, <1>5

(* f is what the iterator yields from every place from lo on. *)
WalksFrom(f, u, lo) ==
    /\ f = [b \in lo .. Len(u) |-> f[b]]
    /\ \A b \in lo .. Len(u) :
          f[b] = IF HasElement(u, b) THEN <<ElementAt(u, b)>> \o f[After(b, ElementAt(u, b))]
                                     ELSE <<>>

(* A walk may begin one place earlier. *)
LEMMA WalkEarlier ==
    ASSUME NEW u \in Seq(Nat), NEW lo \in 0 .. Len(u) + 1, NEW f, WalksFrom(f, u, lo),
           NEW b \in 0 .. Len(u), lo = b + 1
    PROVE  \E g : WalksFrom(g, u, b)
<1>1. Len(u) \in Nat
  OBVIOUS
<1>2. PICK next : next = After(b, ElementAt(u, b))
  OBVIOUS
<1> DEFINE here == IF HasElement(u, b) THEN <<ElementAt(u, b)>> \o f[next] ELSE <<>>
           g == [a \in b .. Len(u) |-> IF a = b THEN here ELSE f[a]]
<1>3. \A a \in lo .. Len(u) : a \in b .. Len(u) /\ a # b /\ g[a] = f[a]
  BY <1>1
<1>4. b \in b .. Len(u) /\ g[b] = here
  BY <1>1
<1>5. g = [a \in b .. Len(u) |-> g[a]]
  OBVIOUS
<1>6. HasElement(u, b) => next \in lo .. Len(u)
  BY <1>1, <1>2, AfterLater
<1> HIDE DEF g
<1>7. g[b] = IF HasElement(u, b) THEN <<ElementAt(u, b)>> \o g[next] ELSE <<>>
  BY <1>3, <1>4, <1>6
<1>8. ASSUME NEW a \in lo .. Len(u)
      PROVE  g[a] = IF HasElement(u, a) THEN <<ElementAt(u, a)>> \o g[After(a, ElementAt(u, a))]
                                        ELSE <<>>
  <2>1. f[a] = IF HasElement(u, a) THEN <<ElementAt(u, a)>> \o f[After(a, ElementAt(u, a))]
                                   ELSE <<>>
    BY DEF WalksFrom
  <2>2. HasElement(u, a) => After(a, ElementAt(u, a)) \in lo .. Len(u)
    <3>1. a \in 0 .. Len(u) /\ a >= lo /\ a \in Nat
      BY <1>1
    <3>2. HasElement(u, a) => After(a, ElementAt(u, a)) \in a + 2 .. Len(u)
      BY <3>1, AfterLater
    <3> QED
      BY <1>1, <3>1, <3>2
  <2> QED
    BY <1>3, <2>1, <2>2
<1>9. \A a \in b .. Len(u) : a = b \/ a \in lo .. Len(u)
  BY <1>1
<1>10. WalksFrom(g, u, b)
  BY <1>2, <1>5, <1>7, <1>8, <1>9 DEF WalksFrom
<1> QED
  BY <1>10

(* There is such an f from the start of any frame: by induction. *)
LEMMA WalkExists ==
    ASSUME NEW u \in Seq(Nat)
    PROVE  \E f : WalksFrom(f, u, 0)
<1>1. PICK n \in Nat : n = Len(u)
  OBVIOUS
<1> DEFINE P == {m \in Nat : m <= n + 1 => \E f : WalksFrom(f, u, n + 1 - m)}
<1>2. 0 \in P
  <2>1. PICK lo : lo = n + 1
    OBVIOUS
  <2>2. lo .. Len(u) = {} /\ n + 1 - 0 = lo
    BY <1>1, <2>1
  <2> DEFINE none == [b \in lo .. Len(u) |-> <<>>]
  <2>3. none = [b \in lo .. Len(u) |-> none[b]]
    OBVIOUS
  <2> HIDE DEF none
  <2>4. WalksFrom(none, u, lo)
    BY <2>2, <2>3 DEF WalksFrom
  <2> QED
    BY <2>2, <2>4
<1>3. ASSUME NEW m \in Nat, m \in P
      PROVE  m + 1 \in P
  <2>1. SUFFICES ASSUME m + 1 <= n + 1
                 PROVE  \E f : WalksFrom(f, u, n + 1 - (m + 1))
    OBVIOUS
  <2>2. PICK b \in 0 .. Len(u), lo \in 0 .. Len(u) + 1 :
           b = n + 1 - (m + 1) /\ lo = n + 1 - m /\ lo = b + 1
    BY <1>1, <2>1
  <2>3. PICK f : WalksFrom(f, u, lo)
    BY <1>3, <2>1, <2>2
  <2>4. \E g : WalksFrom(g, u, b)
    BY <2>2, <2>3, WalkEarlier
  <2> QED
    BY <2>2, <2>4
<1> HIDE DEF P
<1>4. n + 1 \in P
  BY <1>2, <1>3, NatByInduction
<1>5. n + 1 - (n + 1) = 0
  OBVIOUS
<1> QED
  BY <1>4, <1>5 DEF P

(* So the elements from a place are the one there and those after it. *)
LEMMA ElementsFromUnfolds ==
    ASSUME NEW u \in Seq(Nat)
    PROVE  \A b \in 0 .. Len(u) :
              ElementsFrom(u, b) =
                 IF HasElement(u, b)
                 THEN <<ElementAt(u, b)>> \o ElementsFrom(u, After(b, ElementAt(u, b)))
                 ELSE <<>>
<1> DEFINE Is(f) == f = [b \in 0 .. Len(u) |->
                            IF HasElement(u, b)
                            THEN <<ElementAt(u, b)>> \o f[After(b, ElementAt(u, b))]
                            ELSE <<>>]
           found == CHOOSE f : Is(f)
<1>1. PICK f : WalksFrom(f, u, 0)
  BY WalkExists
<1>2. Is(f)
  BY <1>1 DEF WalksFrom
<1>3. Is(found)
  BY <1>2
<1>4. \A b : ElementsFrom(u, b) = found[b]
  BY DEF ElementsFrom
<1> HIDE DEF found
<1>5. \A b \in 0 .. Len(u) :
         found[b] = IF HasElement(u, b)
                    THEN <<ElementAt(u, b)>> \o found[After(b, ElementAt(u, b))]
                    ELSE <<>>
  BY <1>3
<1> QED
  BY <1>4, <1>5

-----------------------------------------------------------------------------
(* What the driver builds, if anything. *)
BuiltInv ==
    \/ built = Nothing
    \/ built = [kind |-> "auth", frame |-> AuthFrame]
    \/ built = [kind |-> "disassoc", frame |-> DisassocFrame]
    \/ \E name \in Names :
          built = [kind |-> "assoc", name |-> name, frame |-> AssocRequest(name)]
    \/ \E pn \in PacketNumbers :
          built = [kind |-> "qos", pn |-> pn, frame |-> QosDataHeader(Addr(5), pn % 4096, 0)]

(* A frame of the driver's with more behind its header. *)
LEMMA BehindMac ==
    ASSUME NEW type \in 0 .. 3, NEW subtype \in 0 .. 15, NEW flag_bits \in 0 .. 255,
           NEW dst, Sized(Nat, dst, 6), NEW seq_ctrl \in Nat,
           NEW q, NEW n, Sized(Nat, q, n),
           NEW u, u = Mac(type, subtype, flag_bits, dst, seq_ctrl) \o q
    PROVE  /\ u \in Seq(Nat) /\ Has(u, 24, q)
           /\ \A l : l = 24 + n => Sized(Nat, u, l)
           /\ ReadsAs(u, type, subtype, flag_bits, dst, seq_ctrl)
<1>1. PICK w : w = Mac(type, subtype, flag_bits, dst, seq_ctrl)
  OBVIOUS
<1>2. /\ Sized(Nat, w, 24)
      /\ \A v \in Seq(Nat) : Has(v, 0, w) => ReadsAs(v, type, subtype, flag_bits, dst, seq_ctrl)
  BY <1>1, MacRead
<1>3. u = w \o q
  BY <1>1
<1>4. (\A l : l = 24 + n => Sized(Nat, w \o q, l)) /\ Has(w \o q, 0, w) /\ Has(w \o q, 24, q)
  BY <1>2, Appended
<1>5. Has(u, 0, w) /\ Has(u, 24, q) /\ \A l : l = 24 + n => Sized(Nat, u, l)
  BY <1>3, <1>4
<1>6. u \in Seq(Nat)
  BY <1>5 DEF Sized
<1> QED
  BY <1>2, <1>5, <1>6

(* A management frame, as a reader sees it. *)
ReadsManagement(u, subtype, l) ==
    /\ HeaderIsWhole(u) /\ HeaderLen(u) = 24 /\ Len(u) = l
    /\ MacHeader(u).addr1 = Addr(3) /\ MacHeader(u).addr2 = Addr(2)
    /\ MacHeader(u).addr3 = Addr(3)
    /\ FrameType(u) = MANAGEMENT /\ Subtype(u) = subtype

(* A frame whose fixed part says so is read as a management frame. *)
LEMMA ManagementBegins ==
    ASSUME NEW subtype \in 0 .. 15, NEW u, NEW l, Sized(Nat, u, l), l >= 24,
           ReadsAs(u, 0, subtype, 0, Addr(3), 0)
    PROVE  ReadsManagement(u, subtype, l)
<1>1. FrameType(u) = 0 /\ Subtype(u) = subtype /\ u[2] = 0
  BY Zenon DEF ReadsAs
<1>2. ~ ToDs(u) /\ ~ IsQos(u)
  <2>1. ~ (0 % 2 = 1) /\ ~ (0 = 2)
    OBVIOUS
  <2>2. ~ ToDs(u)
    BY <1>1, <2>1, Zenon DEF ToDs
  <2>3. ~ IsQos(u)
    BY <1>1, <2>1, Zenon DEF IsQos, DATA
  <2> QED
    BY <2>2, <2>3
<1>3. HeaderLen(u) = 24
  BY <1>2 DEF HeaderLen
<1>4. Len(u) = l
  BY DEF Sized
<1>5. HeaderIsWhole(u)
  BY <1>3, <1>4 DEF HeaderIsWhole
<1>6. /\ MacHeader(u).addr1 = Addr(3) /\ MacHeader(u).addr2 = Addr(2)
       /\ MacHeader(u).addr3 = Addr(3)
  BY Zenon DEF ReadsAs
<1>7. FrameType(u) = MANAGEMENT
  BY <1>1 DEF MANAGEMENT
<1> QED
  BY <1>1, <1>3, <1>4, <1>5, <1>6, <1>7, Zenon DEF ReadsManagement

(* So is a header of the driver's with more behind it. *)
LEMMA ManagementRead ==
    ASSUME NEW subtype \in 0 .. 15, NEW q, NEW n \in Nat, Sized(Nat, q, n),
           NEW l, l = 24 + n,
           NEW u, u = Mac(MANAGEMENT, subtype, 0, Addr(3), 0) \o q
    PROVE  ReadsManagement(u, subtype, l)
<1>1. PICK a : a = Addr(3)
  OBVIOUS
<1>2. Sized(Nat, a, 6) /\ 0 \in 0 .. 3 /\ 0 \in 0 .. 255 /\ 0 \in Nat
  BY <1>1, AddrSized
<1>3. u = Mac(0, subtype, 0, a, 0) \o q
  BY <1>1 DEF MANAGEMENT
<1>4. Sized(Nat, u, l) /\ ReadsAs(u, 0, subtype, 0, a, 0)
  BY <1>2, <1>3, BehindMac
<1>5. l >= 24
  OBVIOUS
<1> QED
  BY ONLY subtype \in 0 .. 15, <1>1, <1>4, <1>5, ManagementBegins

(* The authentication request, and the frame that ends an association. *)
LEMMA AuthRead ==
    ASSUME built = [kind |-> "auth", frame |-> AuthFrame]
    PROVE  BuiltFramesReadBack
<1>1. PICK q : q = <<0, 0, 1, 0, 0, 0>>
  OBVIOUS
<1>2. Sized(Nat, q, 6)
  BY <1>1 DEF Sized
<1>3. PICK u : u = built.frame
  OBVIOUS
<1>4. u = Mac(MANAGEMENT, 11, 0, Addr(3), 0) \o q
  BY <1>1, <1>3 DEF AuthFrame
<1>5. 11 \in 0 .. 15 /\ 6 \in Nat /\ 30 = 24 + 6
  OBVIOUS
<1>6. ReadsManagement(u, 11, 30)
  BY <1>2, <1>4, <1>5, ManagementRead
<1>7. Len(u) = HeaderLen(u) + 6
  BY <1>6, 30 = 24 + 6 DEF ReadsManagement
<1>8. built.kind = "auth" /\ ~ built.kind = "disassoc" /\ ~ built.kind = "assoc" /\ ~ built.kind = "qos"
  OBVIOUS
<1>9. /\ HeaderIsWhole(built.frame)
      /\ MacHeader(built.frame).addr1 = Addr(3)
      /\ MacHeader(built.frame).addr2 = Addr(2)
      /\ FrameType(built.frame) = MANAGEMENT /\ Subtype(built.frame) = 11
      /\ MacHeader(built.frame).addr3 = Addr(3)
      /\ Len(built.frame) = HeaderLen(built.frame) + 6
  BY <1>3, <1>6, <1>7, Zenon DEF ReadsManagement
<1> QED
  BY <1>8, <1>9, Zenon DEF BuiltFramesReadBack

(* The frame of disconnect is read back. *)
LEMMA DisassocRead ==
    ASSUME built = [kind |-> "disassoc", frame |-> DisassocFrame]
    PROVE  BuiltFramesReadBack
<1>1. PICK q : q = <<3, 0>>
  OBVIOUS
<1>2. Sized(Nat, q, 2)
  BY <1>1 DEF Sized
<1>3. PICK u : u = built.frame
  OBVIOUS
<1>4. u = Mac(MANAGEMENT, 10, 0, Addr(3), 0) \o q
  BY <1>1, <1>3 DEF DisassocFrame
<1>5. 10 \in 0 .. 15 /\ 2 \in Nat /\ 26 = 24 + 2
  OBVIOUS
<1>6. ReadsManagement(u, 10, 26)
  BY <1>2, <1>4, <1>5, ManagementRead
<1>7. Len(u) = HeaderLen(u) + 2
  BY <1>6, 26 = 24 + 2 DEF ReadsManagement
<1>8. built.kind = "disassoc" /\ ~ built.kind = "auth" /\ ~ built.kind = "assoc" /\ ~ built.kind = "qos"
  OBVIOUS
<1>9. /\ HeaderIsWhole(built.frame)
      /\ MacHeader(built.frame).addr1 = Addr(3)
      /\ MacHeader(built.frame).addr2 = Addr(2)
      /\ FrameType(built.frame) = MANAGEMENT /\ Subtype(built.frame) = 10
      /\ MacHeader(built.frame).addr3 = Addr(3)
      /\ Len(built.frame) = HeaderLen(built.frame) + 2
  BY <1>3, <1>6, <1>7, Zenon DEF ReadsManagement
<1> QED
  BY <1>8, <1>9, Zenon DEF BuiltFramesReadBack

(* A packet number that has come round makes a sequence number. *)
Rounds == 0 .. 4095

Carries(s, x) == s \in Nat /\ s \div 16 = x /\ s % 16 = 0

(* A sequence number shifted by four in 16 bits comes back. *)
LEMMA SeqCtrlRound ==
    ASSUME NEW x \in Rounds
    PROVE  Carries(SeqCtrl(x), x)
<1> USE DEF Rounds
<1>1. PICK y \in Nat : y = 16 * x
  OBVIOUS
<1>2. y < 65536
  BY <1>1
<1>3. y % 65536 = y
  BY ONLY y \in Nat, <1>2
<1>4. SeqCtrl(x) = y
  BY <1>1, <1>3 DEF SeqCtrl
<1>5. y \div 16 = x /\ y % 16 = 0
  BY <1>1
<1>6. Carries(y, x)
  BY <1>5 DEF Carries
<1> QED
  BY ONLY <1>4, <1>6

(* The header of a data frame, as a reader sees it. *)
ReadsQos(u, s) ==
    /\ HeaderIsWhole(u)
    /\ MacHeader(u).addr1 = Addr(3) /\ MacHeader(u).addr2 = Addr(2)
    /\ MacHeader(u).addr3 = Addr(5) /\ MacHeader(u).seq_ctrl = s
    /\ IsQos(u) /\ ToDs(u) /\ ~ FromDs(u) /\ Protected(u)
    /\ Len(u) = HeaderLen(u)

(* It is read as it was built. *)
LEMMA QosHeaderRead ==
    ASSUME NEW s \in Nat, NEW x, SeqCtrl(x) = s, NEW u, u = QosDataHeader(Addr(5), x, 0)
    PROVE  ReadsQos(u, s)
<1>1. PICK q : q = <<0, 0>>
  OBVIOUS
<1>2. PICK a : a = Addr(5)
  OBVIOUS
<1>3. Sized(Nat, q, 2)
  BY <1>1 DEF Sized
<1>4. Sized(Nat, a, 6)
  BY <1>2, AddrSized
<1>5. u = Mac(2, 8, 65, a, s) \o q
  <2>1. 1 + 64 = 65
    OBVIOUS
  <2> QED
    BY <1>1, <1>2, <2>1 DEF QosDataHeader, DATA
<1>6. 2 \in 0 .. 3 /\ 8 \in 0 .. 15 /\ 65 \in 0 .. 255
  OBVIOUS
<1>7. (\A l : l = 24 + 2 => Sized(Nat, u, l)) /\ ReadsAs(u, 2, 8, 65, a, s)
  BY ONLY s \in Nat, <1>3, <1>4, <1>5, <1>6, BehindMac
<1>8. FrameType(u) = 2 /\ Subtype(u) = 8 /\ u[2] = 65
  BY <1>7, Zenon DEF ReadsAs
<1>9. /\ MacHeader(u).addr1 = Addr(3) /\ MacHeader(u).addr2 = Addr(2)
      /\ MacHeader(u).addr3 = Addr(5) /\ MacHeader(u).seq_ctrl = s
  BY ONLY <1>2, <1>7, Zenon DEF ReadsAs
<1>10. IsQos(u) /\ ToDs(u) /\ ~ FromDs(u) /\ Protected(u)
  BY ONLY <1>8 DEF IsQos, ToDs, FromDs, Protected, DATA
<1>11. HeaderLen(u) = 26
  BY ONLY <1>10 DEF HeaderLen
<1>12. Len(u) = 26
  <2>1. 26 = 24 + 2
    OBVIOUS
  <2>2. Sized(Nat, u, 26)
    BY ONLY <1>7, <2>1
  <2> QED
    BY ONLY <2>2 DEF Sized
<1>13. HeaderIsWhole(u)
  BY ONLY <1>11, <1>12 DEF HeaderIsWhole
<1> QED
  BY ONLY <1>9, <1>10, <1>11, <1>12, <1>13, Zenon DEF ReadsQos

(* The sequence number is the packet number as it comes round. *)
Follows(u, pn) ==
    /\ MacHeader(u).seq_ctrl \div 16 = pn % 4096
    /\ MacHeader(u).seq_ctrl % 16 = 0

(* In the header of a packet it does. *)
LEMMA QosFollows ==
    ASSUME NEW pn \in PacketNumbers, NEW u, u = QosDataHeader(Addr(5), pn % 4096, 0)
    PROVE  \E s : ReadsQos(u, s) /\ Follows(u, pn)
<1>1. PICK x \in Rounds : x = pn % 4096
  BY ElementAssumption DEF Rounds
<1>2. PICK s : s = SeqCtrl(x)
  OBVIOUS
<1>3. Carries(s, x)
  <2>1. Carries(SeqCtrl(x), x)
    BY ONLY x \in Rounds, SeqCtrlRound
  <2> QED
    BY ONLY <1>2, <2>1
<1>4. u = QosDataHeader(Addr(5), x, 0)
  BY <1>1
<1>5. s \in Nat
  BY ONLY <1>3 DEF Carries
<1>6. ReadsQos(u, s)
  BY ONLY <1>2, <1>4, <1>5, QosHeaderRead
<1>7. MacHeader(u).seq_ctrl = s
  BY ONLY <1>6, SMT DEF ReadsQos
<1>8. Carries(MacHeader(u).seq_ctrl, pn % 4096)
  <2>1. Carries(MacHeader(u).seq_ctrl, x)
    BY ONLY <1>3, <1>7
  <2> QED
    BY ONLY <1>1, <2>1
<1>9. Follows(u, pn)
  BY ONLY <1>8, SMT DEF Carries, Follows
<1> QED
  BY ONLY <1>6, <1>9

(* So the header of a packet reads back. *)
LEMMA QosRead ==
    ASSUME NEW pn \in PacketNumbers,
           built = [kind |-> "qos", pn |-> pn, frame |-> QosDataHeader(Addr(5), pn % 4096, 0)]
    PROVE  BuiltFramesReadBack
<1>1. PICK u : u = built.frame
  OBVIOUS
<1>2. u = QosDataHeader(Addr(5), pn % 4096, 0)
  BY <1>1
<1>3. built.pn = pn
  OBVIOUS
<1>4. built.kind = "qos" /\ built.kind # "auth" /\ built.kind # "disassoc" /\ built.kind # "assoc"
  OBVIOUS
<1>5. PICK s : ReadsQos(u, s) /\ Follows(u, pn)
  BY <1>2, QosFollows
<1>6. ReadsQos(built.frame, s)
  BY ONLY <1>1, <1>5
<1>7. Follows(built.frame, built.pn)
  BY ONLY <1>1, <1>3, <1>5
<1>8. /\ HeaderIsWhole(built.frame)
      /\ MacHeader(built.frame).addr1 = Addr(3) /\ MacHeader(built.frame).addr2 = Addr(2)
      /\ MacHeader(built.frame).addr3 = Addr(5)
      /\ IsQos(built.frame) /\ ToDs(built.frame) /\ ~ FromDs(built.frame) /\ Protected(built.frame)
      /\ Len(built.frame) = HeaderLen(built.frame)
  BY ONLY <1>6, Zenon DEF ReadsQos
<1>9. /\ MacHeader(built.frame).seq_ctrl \div 16 = built.pn % 4096
      /\ MacHeader(built.frame).seq_ctrl % 16 = 0
  BY ONLY <1>7, SMT DEF Follows
<1> QED
  BY ONLY <1>4, <1>8, <1>9, SMT DEF BuiltFramesReadBack

(* Where the parts of an association request are. *)
AssocPlaces(m, a, b, c, e, l) ==
    a = 30 + m /\ b = a + 2 /\ c = b + 8 /\ e = c + 2 /\ l = e + 20

AssocLaid(u, name, m, a, b, c, e, l) ==
    /\ Sized(Nat, u, l) /\ Has(u, 0, Mac(0, 0, 0, Addr(3), 0))
    /\ Has(u, 28, <<0, m>>) /\ Has(u, 30, name)
    /\ Has(u, a, <<1, 8>>) /\ Has(u, b, Rates)
    /\ Has(u, c, <<48, 20>>) /\ Has(u, e, RsnIeData)

(* An association request, and the places of its elements. *)
LEMMA AssocShape ==
    ASSUME NEW name, NEW m \in 0 .. 255, Sized(Nat, name, m),
           NEW u, u = AssocRequest(name),
           NEW a, NEW b, NEW c, NEW e, NEW l, AssocPlaces(m, a, b, c, e, l)
    PROVE  AssocLaid(u, name, m, a, b, c, e, l)
<1>1. a = 30 + m /\ b = a + 2 /\ c = b + 8 /\ e = c + 2 /\ l = e + 20
  BY DEF AssocPlaces
<1>2. PICK v0 : v0 = Mac(0, 0, 0, Addr(3), 0)
  OBVIOUS
<1>3. PICK f, g, h, k : f = <<49, 4, 10, 0>> /\ g = <<0, m>> /\ h = <<1, 8>> /\ k = <<48, 20>>
  OBVIOUS
<1>4. PICK r : r = Rates
  OBVIOUS
<1>5. PICK d : d = RsnIeData
  OBVIOUS
<1>6. Sized(Nat, v0, 24)
  <2>1. Sized(Nat, Addr(3), 6) /\ 0 \in 0 .. 3 /\ 0 \in 0 .. 15 /\ 0 \in 0 .. 255 /\ 0 \in Nat
    BY AddrSized
  <2> QED
    BY <1>2, <2>1, MacRead
<1>7. Sized(Nat, f, 4) /\ Sized(Nat, g, 2) /\ Sized(Nat, h, 2) /\ Sized(Nat, k, 2)
  BY ONLY m \in 0 .. 255, <1>3 DEF Sized
<1>8. Sized(Nat, r, 8)
  BY ONLY <1>4 DEF Sized, Rates
<1>9. Sized(Nat, d, 20)
  BY ONLY <1>5 DEF Sized, RsnIeData
<1>10. a \in Nat /\ b \in Nat /\ c \in Nat /\ e \in Nat /\ l \in Nat
  BY <1>1
<1>11. u = v0 \o f \o g \o name \o h \o r \o (k \o d)
  <2>1. Len(name) = m /\ m % 256 = m
    BY DEF Sized
  <2>2. Len(r) = 8 /\ Len(d) = 20 /\ 20 % 256 = 20
    BY <1>8, <1>9 DEF Sized
  <2>3. Measured(RSN, RsnIeData) = k \o d
    BY <1>3, <1>5, <2>2 DEF Measured, RSN
  <2> QED
    BY <1>2, <1>3, <1>4, <2>1, <2>2, <2>3 DEF AssocRequest, MANAGEMENT, SSID, SUPPORTED_RATES
<1>12. PICK v1 : v1 = v0 \o f
  OBVIOUS
<1>13. Sized(Nat, v1, 28) /\ Has(v1, 0, v0)
  <2>1. (\A x : x = 24 + 4 => Sized(Nat, v0 \o f, x)) /\ Has(v0 \o f, 0, v0)
    BY ONLY <1>6, <1>7, Appended
  <2> QED
    BY ONLY <1>12, <2>1
<1>14. PICK v2 : v2 = v1 \o g
  OBVIOUS
<1>15. Sized(Nat, v2, 30) /\ Has(v2, 28, g) /\ \A x, t : Has(v1, x, t) => Has(v2, x, t)
  <2>1. /\ \A x : x = 28 + 2 => Sized(Nat, v1 \o g, x)
        /\ Has(v1 \o g, 28, g) /\ \A x, t : Has(v1, x, t) => Has(v1 \o g, x, t)
    BY ONLY <1>13, <1>7, Appended
  <2> QED
    BY ONLY <1>14, <2>1
<1>16. PICK v3 : v3 = v2 \o name
  OBVIOUS
<1>17. Sized(Nat, v3, a) /\ Has(v3, 30, name) /\ \A x, t : Has(v2, x, t) => Has(v3, x, t)
  <2>1. /\ \A x : x = 30 + m => Sized(Nat, v2 \o name, x)
        /\ Has(v2 \o name, 30, name) /\ \A x, t : Has(v2, x, t) => Has(v2 \o name, x, t)
    BY ONLY <1>15, Sized(Nat, name, m), Appended
  <2> QED
    BY ONLY <1>16, <2>1, <1>1
<1>18. PICK v4 : v4 = v3 \o h
  OBVIOUS
<1>19. Sized(Nat, v4, b) /\ Has(v4, a, h) /\ \A x, t : Has(v3, x, t) => Has(v4, x, t)
  <2>1. /\ \A x : x = a + 2 => Sized(Nat, v3 \o h, x)
        /\ Has(v3 \o h, a, h) /\ \A x, t : Has(v3, x, t) => Has(v3 \o h, x, t)
    BY ONLY <1>17, <1>7, Appended
  <2> QED
    BY ONLY <1>18, <2>1, <1>1
<1>20. PICK v5 : v5 = v4 \o r
  OBVIOUS
<1>21. Sized(Nat, v5, c) /\ Has(v5, b, r) /\ \A x, t : Has(v4, x, t) => Has(v5, x, t)
  <2>1. /\ \A x : x = b + 8 => Sized(Nat, v4 \o r, x)
        /\ Has(v4 \o r, b, r) /\ \A x, t : Has(v4, x, t) => Has(v4 \o r, x, t)
    BY ONLY <1>19, <1>8, Appended
  <2> QED
    BY ONLY <1>20, <2>1, <1>1
<1>22. PICK v6 : v6 = k \o d
  OBVIOUS
<1>23. Sized(Nat, v6, 22) /\ Has(v6, 0, k) /\ Has(v6, 2, d)
  <2>1. /\ \A x : x = 2 + 20 => Sized(Nat, k \o d, x)
        /\ Has(k \o d, 0, k) /\ Has(k \o d, 2, d)
    BY ONLY <1>7, <1>9, Appended
  <2> QED
    BY ONLY <1>22, <2>1
<1>24. u = v5 \o v6
  BY ONLY <1>11, <1>12, <1>14, <1>16, <1>18, <1>20, <1>22
<1>25. Sized(Nat, u, l) /\ Has(u, c, v6) /\ \A x, t : Has(v5, x, t) => Has(u, x, t)
  <2>1. /\ \A x : x = c + 22 => Sized(Nat, v5 \o v6, x)
        /\ Has(v5 \o v6, c, v6) /\ \A x, t : Has(v5, x, t) => Has(v5 \o v6, x, t)
    BY ONLY <1>21, <1>23, Appended
  <2>2. l = c + 22
    BY ONLY <1>10, <1>1
  <2> QED
    BY ONLY <1>24, <2>1, <2>2
<1>26. Has(u, c, k) /\ Has(u, e, d)
  <2>1. (\A x : x = c + 0 => Has(u, x, k)) /\ (\A x : x = c + 2 => Has(u, x, d))
    BY ONLY <1>23, <1>25, HasWithin
  <2>2. c = c + 0
    BY <1>10
  <2> QED
    BY ONLY <2>1, <2>2, <1>1
<1>27. Has(u, 0, v0) /\ Has(u, 28, g) /\ Has(u, 30, name) /\ Has(u, a, h) /\ Has(u, b, r)
  BY ONLY <1>13, <1>15, <1>17, <1>19, <1>21, <1>25
<1> QED
  BY ONLY <1>2, <1>3, <1>4, <1>5, <1>25, <1>26, <1>27 DEF AssocLaid

(* Its elements are read one after the other. *)
LEMMA AssocElements ==
    ASSUME NEW u, NEW name, NEW m \in 0 .. 255, Sized(Nat, name, m),
           NEW a, NEW b, NEW c, NEW e, NEW l, AssocPlaces(m, a, b, c, e, l),
           AssocLaid(u, name, m, a, b, c, e, l)
    PROVE  ElementsFrom(u, 28) = <<[id |-> 0, data |-> name], [id |-> 1, data |-> Rates],
                                   [id |-> 48, data |-> RsnIeData]>>
<1>1. a = 30 + m /\ b = a + 2 /\ c = b + 8 /\ e = c + 2 /\ l = e + 20
  BY DEF AssocPlaces
<1>2. /\ Sized(Nat, u, l)
       /\ Has(u, 28, <<0, m>>) /\ Has(u, 30, name)
       /\ Has(u, a, <<1, 8>>) /\ Has(u, b, Rates)
       /\ Has(u, c, <<48, 20>>) /\ Has(u, e, RsnIeData)
  BY ONLY AssocLaid(u, name, m, a, b, c, e, l) DEF AssocLaid
<1>3. PICK x, y, z : /\ x = [id |-> 0, data |-> name] /\ y = [id |-> 1, data |-> Rates]
                     /\ z = [id |-> 48, data |-> RsnIeData]
  OBVIOUS
<1>4. a \in Nat /\ b \in Nat /\ c \in Nat /\ e \in Nat /\ l \in Nat
  BY <1>1
<1>5. u \in Seq(Nat) /\ Len(u) = l
  BY <1>2 DEF Sized
<1>6. 28 \in 0 .. Len(u) /\ a \in 0 .. Len(u) /\ c \in 0 .. Len(u) /\ l \in 0 .. Len(u)
  <2>1. 28 \in 0 .. l /\ a \in 0 .. l /\ c \in 0 .. l /\ l \in 0 .. l
    BY ONLY m \in 0 .. 255, <1>1
  <2> QED
    BY ONLY <1>5, <2>1
<1>7. Sized(Nat, Rates, 8)
  BY ONLY TRUE DEF Sized, Rates
<1>8. Sized(Nat, RsnIeData, 20)
  BY ONLY TRUE DEF Sized, RsnIeData
<1>9. HasElement(u, 28) /\ ElementAt(u, 28) = x /\ After(28, x) = a
  <2>1. 0 \in Nat /\ 28 \in Nat /\ 30 \in Nat /\ 30 = 28 + 2
    OBVIOUS
  <2>2. /\ HasElement(u, 28) /\ ElementAt(u, 28) = x
        /\ \A p : p = 30 + m => After(28, x) = p
    BY ONLY <1>3, <1>5, <2>1, Sized(Nat, name, m), <1>2, ElementHere
  <2> QED
    BY ONLY <2>2, <1>1
<1>10. HasElement(u, a) /\ ElementAt(u, a) = y /\ After(a, y) = c
  <2>1. 1 \in Nat
    OBVIOUS
  <2>2. /\ HasElement(u, a) /\ ElementAt(u, a) = y
        /\ \A p : p = b + 8 => After(a, y) = p
    BY ONLY <1>3, <1>4, <1>5, <2>1, <1>7, <1>1, <1>2, ElementHere
  <2> QED
    BY ONLY <2>2, <1>1
<1>11. HasElement(u, c) /\ ElementAt(u, c) = z /\ After(c, z) = l
  <2>1. 48 \in Nat
    OBVIOUS
  <2>2. /\ HasElement(u, c) /\ ElementAt(u, c) = z
        /\ \A p : p = e + 20 => After(c, z) = p
    BY ONLY <1>3, <1>4, <1>5, <2>1, <1>8, <1>1, <1>2, ElementHere
  <2> QED
    BY ONLY <2>2, <1>1
<1>12. ~ HasElement(u, l)
  BY <1>4, <1>5 DEF HasElement
<1>13. ElementsFrom(u, l) = <<>>
  BY ONLY <1>5, <1>6, <1>12, ElementsFromUnfolds
<1>14. ElementsFrom(u, c) = <<z>> \o <<>>
  BY ONLY <1>5, <1>6, <1>11, <1>13, ElementsFromUnfolds
<1>15. ElementsFrom(u, a) = <<y>> \o (<<z>> \o <<>>)
  BY ONLY <1>5, <1>6, <1>10, <1>14, ElementsFromUnfolds
<1>16. ElementsFrom(u, 28) = <<x>> \o (<<y>> \o (<<z>> \o <<>>))
  BY ONLY <1>5, <1>6, <1>9, <1>15, ElementsFromUnfolds
<1>17. <<x>> \o (<<y>> \o (<<z>> \o <<>>)) = <<x, y, z>>
  BY ONLY Three
<1> QED
  BY ONLY <1>3, <1>16, <1>17

(* So the association request reads back. *)
LEMMA AssocRead ==
    ASSUME NEW name \in Names,
           built = [kind |-> "assoc", name |-> name, frame |-> AssocRequest(name)]
    PROVE  BuiltFramesReadBack
<1>1. PICK u : u = built.frame
  OBVIOUS
<1>2. u = AssocRequest(name)
  BY <1>1
<1>3. built.name = name
  OBVIOUS
<1>4. built.kind = "assoc" /\ built.kind # "auth" /\ built.kind # "disassoc" /\ built.kind # "qos"
  OBVIOUS
<1>5. PICK m \in 0 .. 255 : Sized(Nat, name, m)
  <2>1. name \in Seq(0 .. 255) /\ Len(name) <= 255
    BY ElementAssumption
  <2>2. name \in Seq(Nat)
    BY ONLY <2>1, 0 .. 255 \subseteq Nat, SeqWider
  <2>3. PICK m \in Nat : m = Len(name)
    BY ONLY <2>2
  <2>4. m <= 255
    BY ONLY <2>1, <2>3
  <2>5. m \in 0 .. 255
    BY ONLY m \in Nat, <2>4
  <2>6. Sized(Nat, name, m)
    BY ONLY <2>2, <2>3, <2>5 DEF Sized
  <2> QED
    BY ONLY <2>5, <2>6
<1>6. PICK a, b, c, e, l : a = 30 + m /\ b = a + 2 /\ c = b + 8 /\ e = c + 2 /\ l = e + 20
  OBVIOUS
<1>7. AssocPlaces(m, a, b, c, e, l)
  BY ONLY <1>6 DEF AssocPlaces
<1>8. AssocLaid(u, name, m, a, b, c, e, l)
  BY ONLY m \in 0 .. 255, <1>2, <1>5, <1>7, AssocShape
<1>9. ElementsFrom(u, 28) = <<[id |-> 0, data |-> name], [id |-> 1, data |-> Rates],
                               [id |-> 48, data |-> RsnIeData]>>
  BY ONLY m \in 0 .. 255, <1>5, <1>7, <1>8, AssocElements
<1>10. ReadsManagement(u, 0, l)
  <2>1. l >= 24
    BY ONLY m \in 0 .. 255, <1>6
  <2>2. PICK w, x : w = Mac(0, 0, 0, x, 0) /\ x = Addr(3)
    OBVIOUS
  <2>3. Sized(Nat, x, 6) /\ 0 \in 0 .. 3 /\ 0 \in 0 .. 15 /\ 0 \in 0 .. 255 /\ 0 \in Nat
    BY ONLY <2>2, AddrSized
  <2>4. \A v \in Seq(Nat) : Has(v, 0, w) => ReadsAs(v, 0, 0, 0, x, 0)
    BY ONLY <2>2, <2>3, MacRead
  <2>5. Sized(Nat, u, l) /\ Has(u, 0, Mac(0, 0, 0, Addr(3), 0))
    BY ONLY <1>8, Zenon DEF AssocLaid
  <2>6. u \in Seq(Nat)
    BY ONLY <2>5 DEF Sized
  <2>7. ReadsAs(u, 0, 0, 0, Addr(3), 0)
    BY ONLY <2>2, <2>4, <2>5, <2>6
  <2> QED
    BY ONLY <2>1, <2>3, <2>5, <2>7, ManagementBegins
<1>11. /\ HeaderIsWhole(u) /\ HeaderLen(u) = 24
       /\ MacHeader(u).addr1 = Addr(3) /\ MacHeader(u).addr2 = Addr(2)
       /\ MacHeader(u).addr3 = Addr(3)
       /\ FrameType(u) = MANAGEMENT /\ Subtype(u) = 0
  BY ONLY <1>10, Zenon DEF ReadsManagement
<1>12. ElementsFrom(u, HeaderLen(u) + 4) =
         <<[id |-> SSID, data |-> name], [id |-> SUPPORTED_RATES, data |-> Rates],
           [id |-> RSN, data |-> RsnIeData]>>
  <2>1. HeaderLen(u) + 4 = 28
    BY ONLY <1>11
  <2> QED
    BY ONLY <1>9, <2>1 DEF SSID, SUPPORTED_RATES, RSN
<1>13. ElementsFrom(built.frame, HeaderLen(built.frame) + 4) =
         <<[id |-> SSID, data |-> built.name], [id |-> SUPPORTED_RATES, data |-> Rates],
           [id |-> RSN, data |-> RsnIeData]>>
  BY ONLY <1>1, <1>3, <1>12
<1>14. /\ HeaderIsWhole(built.frame)
       /\ MacHeader(built.frame).addr1 = Addr(3) /\ MacHeader(built.frame).addr2 = Addr(2)
       /\ MacHeader(built.frame).addr3 = Addr(3)
       /\ FrameType(built.frame) = MANAGEMENT /\ Subtype(built.frame) = 0
  BY ONLY <1>1, <1>11
<1> QED
  BY ONLY <1>4, <1>13, <1>14, Zenon DEF BuiltFramesReadBack

(* Whatever was built reads back. *)
LEMMA BuiltHolds ==
    BuiltInv => BuiltFramesReadBack
<1>1. CASE built = Nothing
  BY <1>1 DEF BuiltFramesReadBack
<1>2. CASE \E name \in Names :
              built = [kind |-> "assoc", name |-> name, frame |-> AssocRequest(name)]
  BY ONLY <1>2, AssocRead
<1>3. CASE \E pn \in PacketNumbers :
              built = [kind |-> "qos", pn |-> pn, frame |-> QosDataHeader(Addr(5), pn % 4096, 0)]
  BY ONLY <1>3, QosRead
<1> QED
  BY ONLY <1>1, <1>2, <1>3, AuthRead, DisassocRead DEF BuiltInv

(* What was built stays. *)
LEMMA BuiltStep ==
    BuiltInv /\ [ElementsNext \/ Build]_elementVars => BuiltInv'
<1> SUFFICES ASSUME BuiltInv, [ElementsNext \/ Build]_elementVars
             PROVE  BuiltInv'
  OBVIOUS
<1>1. CASE UNCHANGED built
  BY <1>1 DEF BuiltInv
<1>2. CASE Build
  <2>1. CASE BuildAuth
    BY <2>1 DEF BuildAuth, BuiltInv
  <2>2. CASE BuildDisassoc
    BY <2>2 DEF BuildDisassoc, BuiltInv
  <2>3. CASE \E name \in Names : BuildAssoc(name)
    BY <2>3 DEF BuildAssoc, BuiltInv
  <2>4. CASE \E pn \in PacketNumbers : BuildQos(pn)
    BY <2>4 DEF BuildQos, BuiltInv
  <2> QED
    BY <1>2, <2>1, <2>2, <2>3, <2>4 DEF Build
<1>3. (ElementsNext \/ UNCHANGED elementVars) => UNCHANGED built
  BY DEF ElementsNext, ParseStart, NextElement, ElementsEnd, elementVars
<1> QED
  BY <1>1, <1>2, <1>3

(* For every name a scan can yield and every packet number, what the       *)
(* driver builds is read back: the addresses, every element once and       *)
(* whole, and the sequence number of the packet (build_auth_frame,         *)
(* build_assoc_request, build_qos_data_header, ieee80211.rs).              *)
THEOREM DriverFramesReadBack == ElementsSpec => []BuiltFramesReadBack
<1>1. ElementsInit => BuiltInv
  BY DEF ElementsInit, BuiltInv
<1>2. BuiltInv /\ [ElementsNext \/ Build]_elementVars => BuiltInv'
  BY BuiltStep
<1>3. BuiltInv => BuiltFramesReadBack
  BY BuiltHolds
<1> QED
  BY <1>1, <1>2, <1>3, PTL DEF ElementsSpec

-----------------------------------------------------------------------------
(* A number in two bytes, and zeros. *)
LEMMA Bytes16Read ==
    ASSUME NEW n \in Nat
    PROVE  Sized(Nat, Bytes16(n), 2) /\ n = Bytes16(n)[1] + 256 * Bytes16(n)[2]
<1>1. n % 256 \in Nat /\ n \div 256 \in Nat /\ n = (256 * (n \div 256)) + (n % 256)
  BY TwoBytes
<1>2. PICK p \in Nat, q \in Nat : p = n % 256 /\ q = n \div 256
  BY <1>1
<1>3. Bytes16(n) = <<p, q>>
  BY ONLY <1>2 DEF Bytes16
<1>4. n = p + 256 * q
  <2>1. n = 256 * q + p
    BY ONLY <1>1, <1>2
  <2> QED
    BY ONLY p \in Nat, q \in Nat, <2>1
<1>5. Sized(Nat, <<p, q>>, 2)
  BY ONLY p \in Nat, q \in Nat DEF Sized
<1> QED
  BY ONLY <1>3, <1>4, <1>5

(* Zeros are zeros. *)
LEMMA FillSized ==
    ASSUME NEW n \in Nat
    PROVE  Sized(Nat, Fill(n), n) /\ \A i \in 1 .. n : Fill(n)[i] = 0
<1>1. PICK s : s = Fill(n)
  OBVIOUS
<1>2. s \in [1 .. n -> Nat] /\ \A i \in 1 .. n : s[i] = 0
  BY <1>1 DEF Fill
<1>3. s \in Seq(Nat) /\ Len(s) = n
  BY <1>2
<1> QED
  BY <1>1, <1>2, <1>3 DEF Sized

(* Zeros put into a sequence are zeros there. *)
LEMMA ZerosStand ==
    ASSUME NEW n \in Nat, NEW z, z = Fill(n), NEW u, NEW x \in Nat, Has(u, x, z),
           NEW l, l = x + 1, NEW m, m = x + n
    PROVE  Zeroed(u, l, m)
<1>1. Sized(Nat, z, n) /\ \A i \in 1 .. n : z[i] = 0
  BY ONLY n \in Nat, z = Fill(n), FillSized
<1>2. \A i \in 1 .. n : u[x + i] = 0
  BY ONLY <1>1, Has(u, x, z) DEF Has, Sized
<1>3. ASSUME NEW i \in l .. m
      PROVE  u[i] = 0
  <2>1. PICK j \in 1 .. n : i = x + j
    <3>1. i - x \in 1 .. n /\ i = x + (i - x)
      BY ONLY n \in Nat, x \in Nat, l = x + 1, m = x + n, i \in l .. m
    <3> QED
      BY ONLY <3>1
  <2> QED
    BY ONLY <1>2, <2>1
<1> QED
  BY ONLY <1>3 DEF Zeroed

(* The reading of a command's header, and of what is behind it. *)
SerializedAs(u, id, seq, data) ==
    /\ u[1] = id /\ u[2] = 0
    /\ Word(u, 3) = seq
    /\ Word(u, 5) = Len(data)
    /\ SubSeq(u, 7, Len(u)) = data

(* Every command is serialized so. *)
LEMMA Serialized ==
    ASSUME NEW id \in Nat, NEW seq \in Nat, NEW data \in Seq(Nat)
    PROVE  SerializedAs(Serialize(id, seq, data), id, seq, data)
<1>1. PICK n \in Nat : n = Len(data)
  OBVIOUS
<1>2. PICK a, b, c : a = <<id, 0>> /\ b = Bytes16(seq) /\ c = Bytes16(n)
  OBVIOUS
<1>3. Sized(Nat, a, 2) /\ a[1] = id /\ a[2] = 0
  BY ONLY id \in Nat, <1>2 DEF Sized
<1>4. Sized(Nat, b, 2) /\ seq = b[1] + 256 * b[2]
  BY ONLY seq \in Nat, <1>2, Bytes16Read
<1>5. Sized(Nat, c, 2) /\ n = c[1] + 256 * c[2]
  BY ONLY n \in Nat, <1>2, Bytes16Read
<1>6. Sized(Nat, data, n)
  BY ONLY n \in Nat, <1>1, data \in Seq(Nat) DEF Sized
<1>7. PICK u : u = Serialize(id, seq, data)
  OBVIOUS
<1>8. u = a \o b \o c \o data
  BY ONLY <1>1, <1>2, <1>7 DEF Serialize
<1>9. PICK v : v = a \o b
  OBVIOUS
<1>10. Sized(Nat, v, 4) /\ Has(v, 0, a) /\ Has(v, 2, b)
  <2>1. /\ \A l : l = 2 + 2 => Sized(Nat, a \o b, l)
        /\ Has(a \o b, 0, a) /\ Has(a \o b, 2, b)
    BY ONLY <1>3, <1>4, Appended
  <2> QED
    BY ONLY <1>9, <2>1
<1>11. PICK w : w = v \o c
  OBVIOUS
<1>12. Sized(Nat, w, 6) /\ Has(w, 0, a) /\ Has(w, 2, b) /\ Has(w, 4, c)
  <2>1. /\ \A l : l = 4 + 2 => Sized(Nat, v \o c, l)
        /\ Has(v \o c, 4, c) /\ \A x, t : Has(v, x, t) => Has(v \o c, x, t)
    BY ONLY <1>5, <1>10, Appended
  <2> QED
    BY ONLY <1>10, <1>11, <2>1
<1>13. u = w \o data
  BY ONLY <1>8, <1>9, <1>11
<1>14. PICK l \in Nat : l = 6 + n
  BY ONLY n \in Nat
<1>15. Sized(Nat, u, l) /\ Has(u, 0, a) /\ Has(u, 2, b) /\ Has(u, 4, c) /\ Has(u, 6, data)
  <2>1. /\ \A k : k = 6 + n => Sized(Nat, w \o data, k)
        /\ Has(w \o data, 6, data) /\ \A x, t : Has(w, x, t) => Has(w \o data, x, t)
    BY ONLY <1>6, <1>12, Appended
  <2> QED
    BY ONLY <1>12, <1>13, <1>14, <2>1
<1>16. ASSUME NEW t, Sized(Nat, t, 2), NEW x \in Nat, Has(u, x, t), NEW y, y = x + 1, NEW z, z = x + 2
       PROVE  u[y] = t[1] /\ u[z] = t[2]
  BY ONLY <1>16, x \in Nat DEF Sized, Has
<1>17. u[1] = a[1] /\ u[2] = a[2]
  <2>1. 0 \in Nat /\ 1 = 0 + 1 /\ 2 = 0 + 2
    OBVIOUS
  <2> QED
    BY ONLY <1>3, <1>15, <1>16, <2>1
<1>18. u[3] = b[1] /\ u[4] = b[2]
  <2>1. 2 \in Nat /\ 3 = 2 + 1 /\ 4 = 2 + 2
    OBVIOUS
  <2> QED
    BY ONLY <1>4, <1>15, <1>16, <2>1
<1>19. u[5] = c[1] /\ u[6] = c[2]
  <2>1. 4 \in Nat /\ 5 = 4 + 1 /\ 6 = 4 + 2
    OBVIOUS
  <2> QED
    BY ONLY <1>5, <1>15, <1>16, <2>1
<1>20. Word(u, 3) = seq /\ Word(u, 5) = n
  <2>1. 3 + 1 = 4 /\ 5 + 1 = 6
    OBVIOUS
  <2> QED
    BY ONLY <1>4, <1>5, <1>18, <1>19, <2>1 DEF Word
<1>21. SubSeq(u, 7, Len(u)) = data
  <2>1. Len(u) = l /\ u \in Seq(Nat)
    BY ONLY <1>15 DEF Sized
  <2>2. \A i, j : i = 6 + 1 /\ j = 6 + n => IsSlice(data, u, i, j)
    BY ONLY <1>6, <1>15, <2>1, SizedSlice
  <2>3. IsSlice(data, u, 7, l)
    BY ONLY <1>14, <2>2
  <2> QED
    BY ONLY <2>1, <2>3 DEF IsSlice
<1> QED
  BY ONLY <1>1, <1>3, <1>7, <1>17, <1>20, <1>21 DEF SerializedAs

-----------------------------------------------------------------------------
(* The request for the address, byte by byte. *)
LEMMA NvmRequest == NvmReadCmd(3, 0, 6) = <<3, 0, 0, 0, 6, 0, 0, 0>>
<1>1. Bytes16(3) = <<3, 0>> /\ Bytes16(0) = <<0, 0>> /\ Bytes16(6) = <<6, 0>>
  BY DEF Bytes16
<1>2. PICK z : z = Fill(2)
  OBVIOUS
<1>3. z = <<0, 0>>
  <2>1. 2 \in Nat
    OBVIOUS
  <2>2. Sized(Nat, z, 2) /\ \A i \in 1 .. 2 : z[i] = 0
    BY ONLY <1>2, <2>1, FillSized
  <2>3. z \in Seq(Nat) /\ Len(z) = 2 /\ z[1] = 0 /\ z[2] = 0
    BY ONLY <2>2 DEF Sized
  <2> QED
    BY ONLY <2>3
<1>4. PICK a, b, u, w : /\ a = <<3, 0>> /\ b = <<6, 0>>
                        /\ u = ((a \o z) \o b) \o z /\ w = <<3, 0, 0, 0, 6, 0, 0, 0>>
  OBVIOUS
<1>5. Sized(Nat, a, 2) /\ Sized(Nat, b, 2) /\ Sized(Nat, z, 2)
  BY ONLY <1>3, <1>4 DEF Sized
<1>6. PICK s : s = a \o z
  OBVIOUS
<1>7. Sized(Nat, s, 4) /\ Has(s, 0, a) /\ Has(s, 2, z)
  <2>1. (\A l : l = 2 + 2 => Sized(Nat, a \o z, l)) /\ Has(a \o z, 0, a) /\ Has(a \o z, 2, z)
    BY ONLY <1>5, Appended
  <2> QED
    BY ONLY <1>6, <2>1
<1>8. PICK t : t = s \o b
  OBVIOUS
<1>9. Sized(Nat, t, 6) /\ Has(t, 0, a) /\ Has(t, 2, z) /\ Has(t, 4, b)
  <2>1. /\ \A l : l = 4 + 2 => Sized(Nat, s \o b, l)
        /\ Has(s \o b, 4, b) /\ \A x, r : Has(s, x, r) => Has(s \o b, x, r)
    BY ONLY <1>5, <1>7, Appended
  <2> QED
    BY ONLY <1>7, <1>8, <2>1
<1>10. u = t \o z
  BY ONLY <1>4, <1>6, <1>8
<1>11. Sized(Nat, u, 8) /\ Has(u, 0, a) /\ Has(u, 2, z) /\ Has(u, 4, b) /\ Has(u, 6, z)
  <2>1. /\ \A l : l = 6 + 2 => Sized(Nat, t \o z, l)
        /\ Has(t \o z, 6, z) /\ \A x, r : Has(t, x, r) => Has(t \o z, x, r)
    BY ONLY <1>5, <1>9, Appended
  <2> QED
    BY ONLY <1>9, <1>10, <2>1
<1>12. u = w
  <2>1. \A i \in 1 .. 8 : u[i] = w[i]
    <3>1. \A i \in 1 .. 2 : u[0 + i] = a[i] /\ u[2 + i] = z[i] /\ u[4 + i] = b[i] /\ u[6 + i] = z[i]
      BY ONLY <1>5, <1>11 DEF Has, Sized
    <3>2. /\ 1 \in 1 .. 2 /\ 2 \in 1 .. 2 /\ 0 + 1 = 1 /\ 0 + 2 = 2 /\ 2 + 1 = 3 /\ 2 + 2 = 4
          /\ 4 + 1 = 5 /\ 4 + 2 = 6 /\ 6 + 1 = 7 /\ 6 + 2 = 8
      OBVIOUS
    <3>3. /\ u[1] = a[1] /\ u[2] = a[2] /\ u[3] = z[1] /\ u[4] = z[2]
          /\ u[5] = b[1] /\ u[6] = b[2] /\ u[7] = z[1] /\ u[8] = z[2]
      BY ONLY <3>1, <3>2
    <3>4. \A i \in 1 .. 8 : i = 1 \/ i = 2 \/ i = 3 \/ i = 4 \/ i = 5 \/ i = 6 \/ i = 7 \/ i = 8
      OBVIOUS
    <3> QED
      BY ONLY <1>3, <1>4, <3>3, <3>4
  <2>2. w \in Seq(Nat) /\ Len(w) = 8
    BY ONLY <1>4
  <2>3. u \in Seq(Nat) /\ Len(u) = 8
    BY ONLY <1>11 DEF Sized
  <2> QED
    BY ONLY <2>1, <2>2, <2>3, SeqEqual
<1>13. NvmReadCmd(3, 0, 6) = u
  BY ONLY <1>1, <1>2, <1>3, <1>4 DEF NvmReadCmd
<1> QED
  BY ONLY <1>4, <1>12, <1>13

(* The context, byte by byte. *)
LEMMA PhyRequest ==
    ASSUME NEW band \in Nat, NEW channel \in Nat, NEW u, u = PhyContextCmd(band, channel, 0)
    PROVE  u = <<1, 0, 0, 0, band, channel, 0, 0, 3, 0, 0, 0, 0, 0, 0, 0>>
<1>1. PICK a, b, z, w : /\ a = <<1, 0, 0, 0, band, channel, 0, 0>> /\ b = <<3, 0, 0, 0>>
                        /\ z = Fill(4)
                        /\ w = <<1, 0, 0, 0, band, channel, 0, 0, 3, 0, 0, 0, 0, 0, 0, 0>>
  OBVIOUS
<1>2. Sized(Nat, a, 8)
  BY ONLY band \in Nat, channel \in Nat, <1>1 DEF Sized
<1>3. Sized(Nat, b, 4)
  BY ONLY <1>1 DEF Sized
<1>4. Sized(Nat, z, 4) /\ \A i \in 1 .. 4 : z[i] = 0
  <2>1. 4 \in Nat
    OBVIOUS
  <2> QED
    BY ONLY <1>1, <2>1, FillSized
<1>5. u = a \o b \o z
  BY ONLY <1>1, u = PhyContextCmd(band, channel, 0) DEF PhyContextCmd
<1>6. PICK v : v = a \o b
  OBVIOUS
<1>7. Sized(Nat, v, 12) /\ Has(v, 0, a) /\ Has(v, 8, b)
  <2>1. (\A l : l = 8 + 4 => Sized(Nat, a \o b, l)) /\ Has(a \o b, 0, a) /\ Has(a \o b, 8, b)
    BY ONLY <1>2, <1>3, Appended
  <2> QED
    BY ONLY <1>6, <2>1
<1>8. Sized(Nat, u, 16) /\ Has(u, 0, a) /\ Has(u, 8, b) /\ Has(u, 12, z)
  <2>1. /\ \A l : l = 12 + 4 => Sized(Nat, v \o z, l)
        /\ Has(v \o z, 12, z) /\ \A x, t : Has(v, x, t) => Has(v \o z, x, t)
    BY ONLY <1>4, <1>7, Appended
  <2>2. u = v \o z
    BY ONLY <1>5, <1>6
  <2> QED
    BY ONLY <1>7, <2>1, <2>2
<1>9. \A i \in 1 .. 16 : u[i] = w[i]
  <2>1. \A i \in 1 .. 8 : u[0 + i] = a[i]
    BY ONLY <1>2, <1>8 DEF Has, Sized
  <2>2. \A i \in 1 .. 4 : u[8 + i] = b[i] /\ u[12 + i] = 0
    BY ONLY <1>3, <1>4, <1>8 DEF Has, Sized
  <2>3. ASSUME NEW i \in 1 .. 8
        PROVE  u[i] = w[i]
    <3>1. u[i] = a[i]
      BY ONLY <2>1, i \in 1 .. 8
    <3>2. a[i] = w[i]
      BY ONLY <1>1, i \in 1 .. 8
    <3> QED
      BY ONLY <3>1, <3>2
  <2>4. ASSUME NEW j \in 1 .. 4
        PROVE  u[8 + j] = w[8 + j] /\ u[12 + j] = w[12 + j]
    <3>1. b[j] = w[8 + j] /\ w[12 + j] = 0
      BY ONLY <1>1, j \in 1 .. 4
    <3> QED
      BY ONLY <2>2, <3>1, j \in 1 .. 4
  <2>5. ASSUME NEW i \in 1 .. 16
        PROVE  i \in 1 .. 8 \/ \E j \in 1 .. 4 : i = 8 + j \/ i = 12 + j
    <3>1. i \in 1 .. 8 \/ (i - 8 \in 1 .. 4 /\ i = 8 + (i - 8))
            \/ (i - 12 \in 1 .. 4 /\ i = 12 + (i - 12))
      BY ONLY i \in 1 .. 16
    <3> QED
      BY ONLY <3>1
  <2> QED
    BY ONLY <2>3, <2>4, <2>5
<1>10. w \in Seq(Nat) /\ Len(w) = 16
  BY ONLY band \in Nat, channel \in Nat, <1>1
<1>11. u \in Seq(Nat) /\ Len(u) = 16
  BY ONLY <1>8 DEF Sized
<1> QED
  BY ONLY <1>1, <1>9, <1>10, <1>11, SeqEqual

(* The address of the station, and zeros around it. *)
LEMMA StationRequest ==
    ASSUME NEW u, u = AddStationCmd(Bssid, 0)
    PROVE  u \in Seq(Nat) /\ ReadsAddStation(u)
<1>1. PICK a, b, y, z : a = <<0, 0, 0, 0>> /\ b = Bssid /\ y = Fill(2) /\ z = Fill(20)
  OBVIOUS
<1>2. Sized(Nat, a, 4)
  BY ONLY <1>1 DEF Sized
<1>3. Sized(Nat, b, 6)
  BY ONLY <1>1 DEF Sized, Bssid
<1>4. Sized(Nat, y, 2) /\ Sized(Nat, z, 20)
  <2>1. 2 \in Nat /\ 20 \in Nat
    OBVIOUS
  <2> QED
    BY ONLY <1>1, <2>1, FillSized
<1>5. u = a \o b \o y \o z
  BY ONLY <1>1, u = AddStationCmd(Bssid, 0) DEF AddStationCmd
<1>6. PICK v : v = a \o b
  OBVIOUS
<1>7. Sized(Nat, v, 10) /\ Has(v, 0, a) /\ Has(v, 4, b)
  <2>1. (\A l : l = 4 + 6 => Sized(Nat, a \o b, l)) /\ Has(a \o b, 0, a) /\ Has(a \o b, 4, b)
    BY ONLY <1>2, <1>3, Appended
  <2> QED
    BY ONLY <1>6, <2>1
<1>8. PICK w : w = v \o y
  OBVIOUS
<1>9. Sized(Nat, w, 12) /\ Has(w, 0, a) /\ Has(w, 4, b) /\ Has(w, 10, y)
  <2>1. /\ \A l : l = 10 + 2 => Sized(Nat, v \o y, l)
        /\ Has(v \o y, 10, y) /\ \A x, t : Has(v, x, t) => Has(v \o y, x, t)
    BY ONLY <1>4, <1>7, Appended
  <2> QED
    BY ONLY <1>7, <1>8, <2>1
<1>10. Sized(Nat, u, 32) /\ Has(u, 0, a) /\ Has(u, 4, b) /\ Has(u, 10, y) /\ Has(u, 12, z)
  <2>1. /\ \A l : l = 12 + 20 => Sized(Nat, w \o z, l)
        /\ Has(w \o z, 12, z) /\ \A x, t : Has(w, x, t) => Has(w \o z, x, t)
    BY ONLY <1>4, <1>9, Appended
  <2>2. u = w \o z
    BY ONLY <1>5, <1>6, <1>8
  <2> QED
    BY ONLY <1>9, <2>1, <2>2
<1>11. u \in Seq(Nat) /\ Len(u) = 32
  BY ONLY <1>10 DEF Sized
<1>12. IsSlice(b, u, 5, 10)
  <2>1. \A m, n : m = 4 + 1 /\ n = 4 + 6 => IsSlice(b, u, m, n)
    BY ONLY <1>3, <1>10, <1>11, SizedSlice
  <2> QED
    BY ONLY <2>1
<1>13. Zeroed(u, 1, 4)
  <2>1. \A i \in 1 .. 4 : u[0 + i] = a[i]
    BY ONLY <1>2, <1>10 DEF Has, Sized
  <2>2. ASSUME NEW i \in 1 .. 4
        PROVE  u[i] = 0
    <3>1. u[i] = a[i]
      BY ONLY <2>1, i \in 1 .. 4
    <3>2. a[i] = 0
      BY ONLY <1>1, i \in 1 .. 4
    <3> QED
      BY ONLY <3>1, <3>2
  <2> QED
    BY ONLY <2>2 DEF Zeroed
<1>14. Zeroed(u, 11, 12) /\ Zeroed(u, 13, 32)
  <2>1. /\ 2 \in Nat /\ 10 \in Nat /\ 11 = 10 + 1 /\ 12 = 10 + 2
        /\ 20 \in Nat /\ 12 \in Nat /\ 13 = 12 + 1 /\ 32 = 12 + 20
    OBVIOUS
  <2>2. Zeroed(u, 11, 12)
    BY ONLY <1>1, <1>10, <2>1, ZerosStand
  <2>3. Zeroed(u, 13, 32)
    BY ONLY <1>1, <1>10, <2>1, ZerosStand
  <2> QED
    BY ONLY <2>2, <2>3
<1>15. Zeroed(u, 11, 32)
  BY ONLY <1>14 DEF Zeroed
<1> QED
  BY ONLY <1>1, <1>11, <1>12, <1>13, <1>15 DEF ReadsAddStation, IsSlice

(* The key, of the length said, in its field of 32 bytes. *)
LEMMA KeyRequest ==
    ASSUME NEW key, NEW n, Sized(Nat, key, n), n <= 32, NEW u, u = AddKeyCmd(0, 0, 3, key)
    PROVE  /\ u \in Seq(Nat) /\ Len(u) = 48
           /\ IsSlice(<<0, 0, 3>>, u, 1, 3)
           /\ u[4] = n
           /\ \A l : l = 4 + n => IsSlice(key, u, 5, l)
           /\ \A l : l = 5 + n => Zeroed(u, l, 48)
<1>1. n \in Nat /\ Len(key) = n
  BY DEF Sized
<1>2. PICK m \in Nat : m = 32 - n
  <2>1. 32 - n \in Nat
    BY <1>1
  <2> QED
    BY <2>1
<1>3. PICK a, b, y, z : a = <<0, 0, 3>> /\ b = <<0, 0, 3, n>> /\ y = Fill(m) /\ z = Fill(12)
  OBVIOUS
<1>4. Sized(Nat, a, 3) /\ Sized(Nat, b, 4) /\ Has(b, 0, a) /\ b[4] = n
  <2>1. Sized(Nat, a, 3)
    BY ONLY <1>3 DEF Sized
  <2>2. Sized(Nat, b, 4) /\ b[4] = n
    BY ONLY <1>1, <1>3 DEF Sized
  <2>3. Has(b, 0, a)
    <3>1. Len(a) = 3 /\ Len(b) = 4
      BY ONLY <1>3
    <3>2. \A i \in 1 .. 3 : b[0 + i] = a[i]
      BY ONLY <1>3
    <3> QED
      BY ONLY <3>1, <3>2 DEF Has
  <2> QED
    BY ONLY <2>1, <2>2, <2>3
<1>5. Sized(Nat, y, m) /\ Sized(Nat, z, 12)
  <2>1. 12 \in Nat
    OBVIOUS
  <2> QED
    BY ONLY m \in Nat, <1>3, <2>1, FillSized
<1>6. PICK field : field = key \o y
  OBVIOUS
<1>7. Sized(Nat, field, 32) /\ Has(field, 0, key) /\ Has(field, n, y)
  <2>1. /\ \A l : l = n + m => Sized(Nat, key \o y, l)
        /\ Has(key \o y, 0, key) /\ Has(key \o y, n, y)
    BY ONLY Sized(Nat, key, n), <1>5, Appended
  <2>2. 32 = n + m
    BY ONLY <1>1, <1>2
  <2> QED
    BY ONLY <1>6, <2>1, <2>2
<1>8. u = b \o field \o z
  BY ONLY <1>1, <1>2, <1>3, <1>6, u = AddKeyCmd(0, 0, 3, key) DEF AddKeyCmd, PaddedKeyField
<1>9. PICK v : v = b \o field
  OBVIOUS
<1>10. Sized(Nat, v, 36) /\ Has(v, 0, b) /\ Has(v, 4, field)
  <2>1. (\A l : l = 4 + 32 => Sized(Nat, b \o field, l)) /\ Has(b \o field, 0, b) /\ Has(b \o field, 4, field)
    BY ONLY <1>4, <1>7, Appended
  <2> QED
    BY ONLY <1>9, <2>1
<1>11. Sized(Nat, u, 48) /\ Has(u, 0, b) /\ Has(u, 4, field) /\ Has(u, 36, z)
  <2>1. /\ \A l : l = 36 + 12 => Sized(Nat, v \o z, l)
        /\ Has(v \o z, 36, z) /\ \A x, t : Has(v, x, t) => Has(v \o z, x, t)
    BY ONLY <1>5, <1>10, Appended
  <2>2. u = v \o z
    BY ONLY <1>8, <1>9
  <2> QED
    BY ONLY <1>10, <2>1, <2>2
<1>12. Has(u, 0, a) /\ Has(u, 4, key) /\ \A d : d = 4 + n => Has(u, d, y)
  <2>1. \A d : d = 0 + 0 => Has(u, d, a)
    BY ONLY <1>4, <1>11, HasWithin
  <2>2. \A d : d = 4 + 0 => Has(u, d, key)
    BY ONLY <1>7, <1>11, HasWithin
  <2>3. \A d : d = 4 + n => Has(u, d, y)
    BY ONLY <1>7, <1>11, HasWithin
  <2> QED
    BY ONLY <2>1, <2>2, <2>3
<1>13. u \in Seq(Nat) /\ Len(u) = 48
  BY ONLY <1>11 DEF Sized
<1>14. IsSlice(a, u, 1, 3)
  <2>1. \A i, j : i = 0 + 1 /\ j = 0 + 3 => IsSlice(a, u, i, j)
    BY ONLY <1>4, <1>12, <1>13, SizedSlice
  <2> QED
    BY ONLY <2>1
<1>15. \A l : l = 4 + n => IsSlice(key, u, 5, l)
  <2>1. \A i, j : i = 4 + 1 /\ j = 4 + n => IsSlice(key, u, i, j)
    BY ONLY Sized(Nat, key, n), <1>12, <1>13, SizedSlice
  <2> QED
    BY ONLY <2>1
<1>16. u[4] = n
  <2>1. \A i \in 1 .. 4 : u[0 + i] = b[i]
    BY ONLY <1>4, <1>11 DEF Has, Sized
  <2>2. 4 \in 1 .. 4 /\ 0 + 4 = 4
    OBVIOUS
  <2> QED
    BY ONLY <1>4, <2>1, <2>2
<1>17. ASSUME NEW l, l = 5 + n
       PROVE  Zeroed(u, l, 48)
  <2>1. PICK x \in Nat : x = 4 + n /\ l = x + 1 /\ 36 = x + m
    <3>1. 4 + n \in Nat /\ l = (4 + n) + 1 /\ 36 = (4 + n) + m
      BY ONLY <1>1, <1>2, <1>17
    <3> QED
      BY ONLY <3>1
  <2>2. Zeroed(u, l, 36)
    <3>1. Has(u, x, y)
      BY ONLY <1>12, <2>1
    <3> QED
      BY ONLY m \in Nat, <1>3, <2>1, <3>1, ZerosStand
  <2>3. Zeroed(u, 37, 48)
    <3>1. 12 \in Nat /\ 36 \in Nat /\ 37 = 36 + 1 /\ 48 = 36 + 12
      OBVIOUS
    <3> QED
      BY ONLY <1>3, <1>11, <3>1, ZerosStand
  <2>4. l \in Nat
    BY ONLY <2>1
  <2> QED
    BY ONLY <2>2, <2>3, <2>4 DEF Zeroed
<1> QED
  BY ONLY <1>3, <1>13, <1>14, <1>15, <1>16, <1>17

-----------------------------------------------------------------------------
(* What ReadsName asks of a field, for a name of which it has m bytes. *)
NamedBy(name, field, m) ==
    /\ field[1] = m
    /\ \A l : l = 1 + m => IsSlice(SubSeq(name, 1, m), field, 2, l)
    /\ Zeroed(field, m + 2, 33)

(* The field has the first m bytes of the name and zeros behind them. *)
LEMMA NameFieldLaid ==
    ASSUME NEW name, NEW k, Sized(Nat, name, k), NEW m \in 0 .. 32, m <= k,
           NEW field, field = <<m>> \o SubSeq(name, 1, m) \o Fill(32 - m)
    PROVE  Sized(Nat, field, 33) /\ NamedBy(name, field, m)
<1>1. PICK r \in Nat : r = 32 - m
  <2>1. 32 - m \in Nat
    OBVIOUS
  <2> QED
    BY <2>1
<1>2. PICK a, b, z : a = <<m>> /\ b = SubSeq(name, 1, m) /\ z = Fill(r)
  OBVIOUS
<1>3. m \in Nat /\ name \in Seq(Nat) /\ Len(name) = k /\ k \in Nat
  BY DEF Sized
<1>4. Sized(Nat, a, 1) /\ a[1] = m
  BY ONLY <1>2, <1>3 DEF Sized
<1>5. Sized(Nat, b, m)
  <2>1. 0 + m <= Len(name) /\ 0 \in Nat /\ 0 + 1 = 1 /\ 0 + m = m
    BY <1>3
  <2>2. SubSeq(name, 0 + 1, 0 + m) \in Seq(Nat) /\ Len(SubSeq(name, 0 + 1, 0 + m)) = m
    BY ONLY <1>3, <2>1, SliceAt
  <2> QED
    BY ONLY <1>2, <1>3, <2>1, <2>2 DEF Sized
<1>6. Sized(Nat, z, r) /\ \A i \in 1 .. r : z[i] = 0
  BY ONLY r \in Nat, <1>2, FillSized
<1>7. PICK v : v = a \o b
  OBVIOUS
<1>8. PICK l \in Nat : l = 1 + m
  BY <1>3
<1>9. Sized(Nat, v, l) /\ Has(v, 0, a) /\ Has(v, 1, b)
  <2>1. (\A n : n = 1 + m => Sized(Nat, a \o b, n)) /\ Has(a \o b, 0, a) /\ Has(a \o b, 1, b)
    BY ONLY <1>4, <1>5, Appended
  <2> QED
    BY ONLY <1>7, <1>8, <2>1
<1>10. field = v \o z
  BY <1>1, <1>2, <1>7
<1>11. Sized(Nat, field, 33) /\ Has(field, 0, a) /\ Has(field, 1, b) /\ Has(field, l, z)
  <2>1. /\ \A n : n = l + r => Sized(Nat, v \o z, n)
        /\ Has(v \o z, l, z) /\ \A x, t : Has(v, x, t) => Has(v \o z, x, t)
    BY ONLY <1>6, <1>9, Appended
  <2>2. 33 = l + r
    BY ONLY <1>1, <1>3, <1>8
  <2> QED
    BY ONLY <1>9, <1>10, <2>1, <2>2
<1>12. field[1] = m
  <2>1. \A i \in 1 .. 1 : field[0 + i] = a[i]
    BY ONLY <1>4, <1>11 DEF Has, Sized
  <2>2. 1 \in 1 .. 1 /\ 0 + 1 = 1
    OBVIOUS
  <2> QED
    BY ONLY <1>4, <2>1, <2>2
<1>13. IsSlice(b, field, 2, l)
  <2>1. field \in Seq(Nat)
    BY ONLY <1>11 DEF Sized
  <2>2. \A i, j : i = 1 + 1 /\ j = 1 + m => IsSlice(b, field, i, j)
    BY ONLY <1>5, <1>11, <2>1, SizedSlice
  <2>3. 2 = 1 + 1
    OBVIOUS
  <2> QED
    BY ONLY <1>8, <2>2, <2>3
<1>14. ASSUME NEW i \in m + 2 .. 33
       PROVE  field[i] = 0
  <2>1. PICK j \in 1 .. r : i = l + j
    <3>1. i - l \in 1 .. r /\ i = l + (i - l)
      BY ONLY <1>1, <1>3, <1>8, i \in m + 2 .. 33
    <3> QED
      BY ONLY <3>1
  <2>2. field[l + j] = z[j]
    BY ONLY <1>6, <1>11, j \in 1 .. r DEF Has, Sized
  <2> QED
    BY ONLY <1>6, <2>1, <2>2
<1> QED
  BY ONLY <1>2, <1>8, <1>11, <1>12, <1>13, <1>14 DEF NamedBy, Zeroed

(* A name of any length fills its field of 33 bytes and no more. *)
LEMMA NameFieldRead ==
    ASSUME NEW name \in Seq(Nat)
    PROVE  Sized(Nat, NameField(name), 33) /\ ReadsName(name, NameField(name))
<1>1. PICK k \in Nat : k = Len(name)
  OBVIOUS
<1>2. PICK m \in 0 .. 32 : m = Shorter(k, 32) /\ m <= k /\ (m < k => m = 32)
  <2>1. /\ Shorter(k, 32) \in 0 .. 32 /\ Shorter(k, 32) <= k
        /\ Shorter(k, 32) < k => Shorter(k, 32) = 32
    BY DEF Shorter
  <2> QED
    BY <2>1
<1>3. PICK field : field = NameField(name)
  OBVIOUS
<1>4. field = <<m>> \o SubSeq(name, 1, m) \o Fill(32 - m)
  BY ONLY <1>1, <1>2, <1>3 DEF NameField, NamePadding
<1>5. Sized(Nat, name, k)
  BY ONLY <1>1, k \in Nat, name \in Seq(Nat) DEF Sized
<1>6. Sized(Nat, field, 33) /\ NamedBy(name, field, m)
  BY ONLY <1>2, <1>4, <1>5, NameFieldLaid
<1>7. field[1] = m /\ field[1] <= 32
  <2>1. field[1] = m
    BY ONLY <1>6 DEF NamedBy
  <2> QED
    BY ONLY <2>1, m \in 0 .. 32
<1>8. SubSeq(field, 2, 1 + field[1]) = SubSeq(name, 1, field[1])
  <2>1. SubSeq(field, 2, 1 + m) = SubSeq(name, 1, m)
    BY ONLY <1>6 DEF NamedBy, IsSlice
  <2> QED
    BY ONLY <1>7, <2>1
<1>9. field[1] < Len(name) => field[1] = 32
  BY ONLY <1>1, <1>2, <1>7
<1>10. Zeroed(field, field[1] + 2, 33)
  BY ONLY <1>6, <1>7 DEF NamedBy
<1> QED
  BY ONLY <1>3, <1>6, <1>7, <1>8, <1>9, <1>10 DEF ReadsName

(* The field of a passive scan. *)
LEMMA NoNameRead == Sized(Nat, Fill(33), 33) /\ ReadsName(<<>>, Fill(33))
<1>1. PICK field, none : field = Fill(33) /\ none = <<>>
  OBVIOUS
<1>2. Sized(Nat, field, 33) /\ \A i \in 1 .. 33 : field[i] = 0
  <2>1. 33 \in Nat
    OBVIOUS
  <2> QED
    BY ONLY <1>1, <2>1, FillSized
<1>3. field[1] = 0
  <2>1. 1 \in 1 .. 33
    OBVIOUS
  <2> QED
    BY ONLY <1>2, <2>1
<1>4. SubSeq(field, 2, 1 + field[1]) = SubSeq(none, 1, field[1])
  <2>1. field \in Seq(Nat) /\ none \in Seq(Nat) /\ 1 + field[1] = 1
    BY ONLY <1>1, <1>2, <1>3 DEF Sized
  <2>2. SubSeq(field, 2, 1) = <<>> /\ SubSeq(none, 1, 0) = <<>>
    BY ONLY <2>1
  <2> QED
    BY ONLY <1>3, <2>1, <2>2
<1>5. field[1] <= 32 /\ ~ (field[1] < Len(none))
  BY ONLY <1>1, <1>3
<1>6. Zeroed(field, field[1] + 2, 33)
  <2>1. \A i \in 0 + 2 .. 33 : i \in 1 .. 33
    OBVIOUS
  <2> QED
    BY ONLY <1>2, <1>3, <2>1 DEF Zeroed
<1> QED
  BY ONLY <1>1, <1>2, <1>4, <1>5, <1>6 DEF ReadsName

-----------------------------------------------------------------------------
(* The channel, and how long to dwell on it. *)
ChannelEntries(channels) == [i \in DOMAIN channels |-> <<channels[i], 0>> \o Bytes16(100)]

(* Each entry is of four bytes. *)
LEMMA EntriesOfChannels ==
    ASSUME NEW channels, NEW n, Sized(Nat, channels, n)
    PROVE  /\ Sized(Seq(Nat), ChannelEntries(channels), n)
           /\ \A k \in 1 .. n : /\ Len(ChannelEntries(channels)[k]) = 4
                                /\ ChannelEntries(channels)[k][1] = channels[k]
                                /\ ChannelEntries(channels)[k][2] = 0
                                /\ Word(ChannelEntries(channels)[k], 3) = 100
<1>1. n \in Nat /\ DOMAIN channels = 1 .. n /\ \A k \in 1 .. n : channels[k] \in Nat
  BY DEF Sized
<1>2. PICK dwell : dwell = Bytes16(100)
  OBVIOUS
<1>3. Sized(Nat, dwell, 2) /\ dwell[1] + 256 * dwell[2] = 100
  <2>1. 100 \in Nat
    OBVIOUS
  <2> QED
    BY ONLY <1>2, <2>1, Bytes16Read
<1>4. PICK es : es = ChannelEntries(channels)
  OBVIOUS
<1>5. DOMAIN es = 1 .. n /\ \A k \in 1 .. n : es[k] = <<channels[k], 0>> \o dwell
  BY ONLY <1>1, <1>2, <1>4 DEF ChannelEntries
<1>6. ASSUME NEW k \in 1 .. n
      PROVE  /\ es[k] \in Seq(Nat) /\ Len(es[k]) = 4
             /\ es[k][1] = channels[k] /\ es[k][2] = 0 /\ Word(es[k], 3) = 100
  <2>1. PICK c \in Nat : c = channels[k]
    BY <1>1
  <2>2. PICK t : t = <<c, 0>>
    OBVIOUS
  <2>3. Sized(Nat, t, 2) /\ t[1] = c /\ t[2] = 0
    BY ONLY c \in Nat, <2>2 DEF Sized
  <2>4. PICK e : e = t \o dwell
    OBVIOUS
  <2>5. Sized(Nat, e, 4) /\ Has(e, 0, t) /\ Has(e, 2, dwell)
    <3>1. /\ \A l : l = 2 + 2 => Sized(Nat, t \o dwell, l)
          /\ Has(t \o dwell, 0, t) /\ Has(t \o dwell, 2, dwell)
      BY ONLY <1>3, <2>3, Appended
    <3> QED
      BY ONLY <2>4, <3>1
  <2>6. e[1] = c /\ e[2] = 0
    <3>1. \A i \in 1 .. 2 : e[0 + i] = t[i]
      BY ONLY <2>3, <2>5 DEF Has, Sized
    <3>2. 1 \in 1 .. 2 /\ 2 \in 1 .. 2 /\ 0 + 1 = 1 /\ 0 + 2 = 2
      OBVIOUS
    <3> QED
      BY ONLY <2>3, <3>1, <3>2
  <2>7. e \in Seq(Nat) /\ Len(e) = 4
    BY ONLY <2>5 DEF Sized
  <2>8. es[k] = e
    BY <1>5, <2>1, <2>2, <2>4
  <2>9. Word(e, 3) = 100
    <3>1. \A i \in 1 .. 2 : e[2 + i] = dwell[i]
      BY ONLY <1>3, <2>5 DEF Has, Sized
    <3>2. 1 \in 1 .. 2 /\ 2 \in 1 .. 2 /\ 2 + 1 = 3 /\ 2 + 2 = 4 /\ 3 + 1 = 4
      OBVIOUS
    <3>3. e[3] = dwell[1] /\ e[4] = dwell[2]
      BY ONLY <3>1, <3>2
    <3> QED
      BY ONLY <1>3, <3>2, <3>3 DEF Word
  <2> QED
    BY ONLY <2>1, <2>6, <2>7, <2>8, <2>9
<1>7. es = [k \in 1 .. n |-> es[k]]
  BY ONLY <1>1, <1>4 DEF ChannelEntries
<1>8. es \in Seq(Seq(Nat)) /\ Len(es) = n
  <2>1. es \in [1 .. n -> Seq(Nat)]
    BY ONLY <1>6, <1>7
  <2> QED
    BY ONLY <1>1, <2>1
<1> QED
  BY <1>1, <1>4, <1>6, <1>8 DEF Sized

ScanLayout(flag, n, field, channels) ==
    <<flag, 0, 0, 0>> \o <<n, 0, 0, 0>> \o field \o FlattenSeq(ChannelEntries(channels))

ScanFields(u, flag, n, field, channels) ==
    /\ u \in Seq(Nat)
    /\ u[1] = flag /\ Zeroed(u, 2, 4) /\ u[5] = n /\ Zeroed(u, 6, 8)
    /\ IsSlice(field, u, 9, 41)
    /\ Len(u) = 41 + 4 * n
    /\ \A k \in 1 .. n : /\ u[Entry(k)] = channels[k] /\ u[Entry(k) + 1] = 0
                        /\ Word(u, Entry(k) + 2) = 100

(* Flags, count and name in front, then four bytes for each channel. *)
LEMMA ScanLaid ==
    ASSUME NEW flag \in Nat, NEW channels, NEW n, Sized(Nat, channels, n),
           NEW field, Sized(Nat, field, 33),
           NEW u, u = ScanLayout(flag, n, field, channels)
    PROVE  ScanFields(u, flag, n, field, channels)
<1>1. n \in Nat
  BY DEF Sized
<1>2. PICK a, b, es : a = <<flag, 0, 0, 0>> /\ b = <<n, 0, 0, 0>> /\ es = ChannelEntries(channels)
  OBVIOUS
<1>3. Sized(Nat, a, 4) /\ a[1] = flag /\ \A i \in 2 .. 4 : a[i] = 0
  BY ONLY flag \in Nat, <1>2 DEF Sized
<1>4. Sized(Nat, b, 4) /\ b[1] = n /\ \A i \in 2 .. 4 : b[i] = 0
  BY ONLY <1>1, <1>2 DEF Sized
<1>5. /\ Sized(Seq(Nat), es, n)
      /\ \A k \in 1 .. n : /\ Len(es[k]) = 4 /\ es[k][1] = channels[k]
                          /\ es[k][2] = 0 /\ Word(es[k], 3) = 100
  BY ONLY Sized(Nat, channels, n), <1>2, EntriesOfChannels
<1>6. PICK v : v = a \o b
  OBVIOUS
<1>7. Sized(Nat, v, 8) /\ Has(v, 0, a) /\ Has(v, 4, b)
  <2>1. (\A l : l = 4 + 4 => Sized(Nat, a \o b, l)) /\ Has(a \o b, 0, a) /\ Has(a \o b, 4, b)
    BY ONLY <1>3, <1>4, Appended
  <2> QED
    BY ONLY <1>6, <2>1
<1>8. PICK h : h = v \o field
  OBVIOUS
<1>9. Sized(Nat, h, 41) /\ Has(h, 0, a) /\ Has(h, 4, b) /\ Has(h, 8, field)
  <2>1. /\ \A l : l = 8 + 33 => Sized(Nat, v \o field, l)
        /\ Has(v \o field, 8, field) /\ \A x, t : Has(v, x, t) => Has(v \o field, x, t)
    BY ONLY Sized(Nat, field, 33), <1>7, Appended
  <2> QED
    BY ONLY <1>7, <1>8, <2>1
<1>10. u = h \o FlattenSeq(es)
  BY ONLY <1>2, <1>6, <1>8,
          u = ScanLayout(flag, n, field, channels) DEF ScanLayout
<1>11. u \in Seq(Nat) /\ Has(u, 0, h) /\ FoursStand(u, 41, es, n)
  <2>1. \A k \in 1 .. n : Len(es[k]) = 4
    BY ONLY <1>5
  <2>2. /\ h \o FlattenSeq(es) \in Seq(Nat)
        /\ Has(h \o FlattenSeq(es), 0, h)
        /\ FoursStand(h \o FlattenSeq(es), 41, es, n)
    BY ONLY <1>5, <1>9, <2>1, FoursFlattened
  <2> QED
    BY ONLY <1>10, <2>2
<1>12. Has(u, 0, a) /\ Has(u, 4, b) /\ Has(u, 8, field)
  <2>1. ASSUME NEW x, NEW t, Has(h, x, t)
        PROVE  Has(u, x, t)
    <3>1. \A d : d = 0 + x => Has(u, d, t)
      BY ONLY <1>11, <2>1, HasWithin
    <3>2. x = 0 + x
      BY ONLY <2>1 DEF Has
    <3> QED
      BY ONLY <3>1, <3>2
  <2> QED
    BY ONLY <1>9, <2>1
<1>13. u[1] = flag /\ u[5] = n /\ Zeroed(u, 2, 4) /\ Zeroed(u, 6, 8)
  <2>1. \A i \in 1 .. 4 : u[0 + i] = a[i] /\ u[4 + i] = b[i]
    BY ONLY <1>3, <1>4, <1>12 DEF Has, Sized
  <2>2. 1 \in 1 .. 4 /\ 0 + 1 = 1 /\ 4 + 1 = 5
    OBVIOUS
  <2>3. u[1] = flag /\ u[5] = n
    BY ONLY <1>3, <1>4, <2>1, <2>2
  <2>4. ASSUME NEW i \in 2 .. 4
        PROVE  u[i] = 0 /\ u[4 + i] = 0
    <3>1. i \in 1 .. 4 /\ 0 + i = i
      BY ONLY i \in 2 .. 4
    <3> QED
      BY ONLY <1>3, <1>4, <2>1, <3>1, i \in 2 .. 4
  <2>5. \A i \in 6 .. 8 : i - 4 \in 2 .. 4 /\ i = 4 + (i - 4)
    OBVIOUS
  <2>6. \A i \in 6 .. 8 : u[i] = 0
    BY ONLY <2>4, <2>5
  <2> QED
    BY ONLY <2>3, <2>4, <2>6 DEF Zeroed
<1>14. IsSlice(field, u, 9, 41)
  <2>1. \A i, j : i = 8 + 1 /\ j = 8 + 33 => IsSlice(field, u, i, j)
    BY ONLY Sized(Nat, field, 33), <1>11, <1>12, SizedSlice
  <2> QED
    BY ONLY <2>1
<1>15. Len(u) = 41 + 4 * n
  BY ONLY <1>11 DEF FoursStand
<1>16. ASSUME NEW k \in 1 .. n
       PROVE  /\ u[Entry(k)] = channels[k] /\ u[Entry(k) + 1] = 0
              /\ Word(u, Entry(k) + 2) = 100
  <2>1. PICK p \in Nat : p = 41 + 4 * (k - 1) /\ Entry(k) = p + 1
    <3>1. 41 + 4 * (k - 1) \in Nat /\ Entry(k) = (41 + 4 * (k - 1)) + 1
      BY ONLY <1>1, k \in 1 .. n DEF Entry
    <3> QED
      BY ONLY <3>1
  <2>2. Has(u, p, es[k]) /\ Len(es[k]) = 4
    BY ONLY <1>5, <1>11, <2>1, k \in 1 .. n DEF FoursStand
  <2>3. \A i \in 1 .. 4 : u[p + i] = es[k][i]
    BY ONLY <2>2 DEF Has
  <2>4. 1 \in 1 .. 4 /\ 2 \in 1 .. 4 /\ 3 \in 1 .. 4 /\ 4 \in 1 .. 4 /\ 3 + 1 = 4
    OBVIOUS
  <2>5. /\ u[p + 1] = es[k][1] /\ u[p + 2] = es[k][2]
        /\ u[p + 3] = es[k][3] /\ u[p + 4] = es[k][4]
    BY ONLY <2>3, <2>4
  <2>6. Entry(k) + 1 = p + 2 /\ Entry(k) + 2 = p + 3 /\ (Entry(k) + 2) + 1 = p + 4
    BY ONLY <2>1
  <2>7. Word(u, Entry(k) + 2) = Word(es[k], 3)
    BY ONLY <2>4, <2>5, <2>6 DEF Word
  <2> QED
    BY ONLY <1>5, <2>1, <2>5, <2>6, <2>7, k \in 1 .. n
<1> QED
  BY ONLY <1>11, <1>13, <1>14, <1>15, <1>16 DEF ScanFields

(* Every list of channels is one of bytes. *)
LEMMA ChannelsTyped ==
    ASSUME NEW channels \in Seq(Nat)
    PROVE  ChannelsToScan(channels) \in Seq(Nat)
<1>1. PICK first : first = [i \in 1 .. 14 |-> i]
  OBVIOUS
<1>2. first \in Seq(Nat)
  <2>1. PICK n \in Nat : n = 14
    OBVIOUS
  <2>2. first = [i \in 1 .. n |-> i]
    BY ONLY <1>1, <2>1
  <2>3. first \in [1 .. n -> Nat]
    BY ONLY <2>2, n \in Nat
  <2> QED
    BY ONLY <2>3, n \in Nat
<1>3. /\ <<36, 40, 44, 48>> \in Seq(Nat) /\ <<52, 56, 60, 64>> \in Seq(Nat)
      /\ <<149, 153, 157, 161, 165>> \in Seq(Nat)
  OBVIOUS
<1>4. \A s, t \in Seq(Nat) : s \o t \in Seq(Nat)
  OBVIOUS
<1>5. first \o <<36, 40, 44, 48>> \o <<52, 56, 60, 64>> \o <<149, 153, 157, 161, 165>> \in Seq(Nat)
  BY ONLY <1>2, <1>3, <1>4
<1> QED
  BY <1>1, <1>5 DEF ChannelsToScan

(* The firmware's reading of a scan, of what was asked. *)
ScanReads(data, channels, active, name) ==
    /\ data[1] = 1 <=> active
    /\ data[1] \in {0, 1} /\ Zeroed(data, 2, 4)
    /\ data[5] = Len(channels) /\ Zeroed(data, 6, 8)
    /\ ReadsName(IF active THEN name ELSE <<>>, SubSeq(data, 9, 41))
    /\ Len(data) = 41 + 4 * data[5]
    /\ \A k \in DOMAIN channels :
          /\ data[Entry(k)] = channels[k] /\ data[Entry(k) + 1] = 0
          /\ Word(data, Entry(k) + 2) = 100

(* A scan is read as it was asked. *)
LEMMA ScanRequest ==
    ASSUME NEW channels \in Seq(Nat), NEW active \in BOOLEAN, NEW name \in Seq(Nat),
           NEW u, u = ScanCmd(channels, active, name)
    PROVE  u \in Seq(Nat) /\ ScanReads(u, channels, active, name)
<1>1. PICK n \in Nat : n = Len(channels)
  OBVIOUS
<1>2. Sized(Nat, channels, n) /\ DOMAIN channels = 1 .. n
  BY ONLY <1>1, n \in Nat, channels \in Seq(Nat) DEF Sized
<1>3. PICK flag, field, shown : /\ flag = IF active THEN 1 ELSE 0
                                /\ field = IF active THEN NameField(name) ELSE Fill(33)
                                /\ shown = IF active THEN name ELSE <<>>
  OBVIOUS
<1>4. flag \in Nat /\ flag \in {0, 1} /\ (flag = 1 <=> active)
  BY ONLY <1>3, active \in BOOLEAN
<1>5. Sized(Nat, field, 33) /\ ReadsName(shown, field)
  <2>1. CASE active
    BY ONLY <1>3, <2>1, name \in Seq(Nat), NameFieldRead
  <2>2. CASE ~ active
    BY ONLY <1>3, <2>2, NoNameRead
  <2> QED
    BY ONLY <2>1, <2>2
<1>6. u = ScanLayout(flag, n, field, channels)
  BY ONLY <1>1, <1>3, u = ScanCmd(channels, active, name) DEF ScanCmd, ScanLayout, ChannelEntries
<1>7. /\ u \in Seq(Nat)
      /\ u[1] = flag /\ Zeroed(u, 2, 4) /\ u[5] = n /\ Zeroed(u, 6, 8)
      /\ IsSlice(field, u, 9, 41)
      /\ Len(u) = 41 + 4 * n
      /\ \A k \in 1 .. n : /\ u[Entry(k)] = channels[k] /\ u[Entry(k) + 1] = 0
                          /\ Word(u, Entry(k) + 2) = 100
  <2>1. ScanFields(u, flag, n, field, channels)
    BY ONLY <1>2, <1>4, <1>5, <1>6, ScanLaid
  <2> QED
    BY ONLY <2>1 DEF ScanFields
<1>8. SubSeq(u, 9, 41) = field
  BY ONLY <1>7 DEF IsSlice
<1>9. ReadsName(IF active THEN name ELSE <<>>, SubSeq(u, 9, 41))
  BY ONLY <1>3, <1>5, <1>8
<1> QED
  BY ONLY <1>1, <1>2, <1>4, <1>7, <1>9 DEF ScanReads

-----------------------------------------------------------------------------
(* What is configured is made of numbers. *)
LEMMA ConfiguredAreBytes ==
    /\ \A channels \in ChannelLists : channels \in Seq(Nat)
    /\ \A name \in ScanNames : name \in Seq(Nat)
    /\ \A key \in Keys : key \in Seq(Nat) /\ Len(key) <= 32
    /\ \A seq \in Seqs : seq \in Nat
<1>1. Octets \subseteq Nat
  BY DEF Octets
<1>2. \A s \in Seq(Octets) : s \in Seq(Nat)
  BY ONLY <1>1, SeqWider
<1>3. /\ \A channels \in ChannelLists : channels \in Seq(Octets)
      /\ \A name \in ScanNames : name \in Seq(Octets)
      /\ \A key \in Keys : key \in Seq(Octets)
  BY CommandAssumption
<1>4. \A key \in Keys : Len(key) <= 32
  BY CommandAssumption
<1>5. \A seq \in Seqs : seq \in Nat
  <2>1. Seqs \subseteq Words
    BY CommandAssumption
  <2>2. Words \subseteq Nat
    BY DEF Words
  <2> QED
    BY ONLY <2>1, <2>2
<1> QED
  BY ONLY <1>2, <1>3, <1>4, <1>5

(* What a step that asks leaves in the ring. *)
AskedFor(request, seq, data) ==
    /\ asked' = request
    /\ command'[1] = request.id /\ command'[2] = 0
    /\ Word(command', 3) = seq
    /\ Word(command', 5) = Len(data)
    /\ SubSeq(command', 7, Len(command')) = data

(* The header of a command that is asked, whatever it is. *)
LEMMA AskSerializes ==
    ASSUME NEW request, request.id \in Nat, NEW seq \in Nat, NEW data \in Seq(Nat),
           Ask(request, seq, data)
    PROVE  AskedFor(request, seq, data)
<1>1. command' = Serialize(request.id, seq, data) /\ asked' = request
  BY DEF Ask
<1>2. SerializedAs(command', request.id, seq, data)
  BY ONLY <1>1, request.id \in Nat, seq \in Nat, data \in Seq(Nat), Serialized
<1> QED
  BY ONLY <1>1, <1>2 DEF AskedFor, SerializedAs

(* What the firmware reads of the payload, by the number of the command. *)
Fits(data) ==
    /\ asked.id = NVM_ACCESS => data = <<3, 0, 0, 0, 6, 0, 0, 0>>
    /\ asked.id = PHY_CONTEXT => ReadsPhyContext(data)
    /\ asked.id = SCAN_UMAC => ReadsScan(data)
    /\ asked.id = ADD_STATION => ReadsAddStation(data)
    /\ asked.id = REMOVE_STATION => data = <<>>
    /\ asked.id = ADD_KEY => ReadsAddKey(data)

(* A payload that fits its number is read back behind its header. *)
LEMMA ReadBack ==
    ASSUME NEW request, NEW seq, NEW data, AskedFor(request, seq, data), request.seq = seq,
           Fits(data)'
    PROVE  CommandsReadBack'
<1>1. Payload' = data
  BY ONLY AskedFor(request, seq, data) DEF AskedFor, Payload
<1>2. Fits(Payload)'
  BY ONLY <1>1, Fits(data)' DEF Fits
<1>3. /\ command'[1] = asked'.id /\ command'[2] = 0
      /\ Word(command', 3) = asked'.seq
      /\ Word(command', 5) = Len(Payload')
  BY ONLY <1>1, AskedFor(request, seq, data), request.seq = seq DEF AskedFor
<1> QED
  BY ONLY <1>2, <1>3 DEF Fits, CommandsReadBack

(* Each command is read by its number. *)
LEMMA NvmReadBack ==
    ASSUME NEW seq \in Nat, NvmRead(seq)
    PROVE  CommandsReadBack'
<1>1. PICK data : data = NvmReadCmd(3, 0, 6)
  OBVIOUS
<1>2. data = <<3, 0, 0, 0, 6, 0, 0, 0>>
  BY ONLY <1>1, NvmRequest
<1>3. data \in Seq(Nat)
  BY ONLY <1>2
<1>4. PICK request : request = [id |-> NVM_ACCESS, seq |-> seq]
  OBVIOUS
<1>5. request.id = 136 /\ request.seq = seq
  BY ONLY <1>4 DEF NVM_ACCESS
<1>6. Ask(request, seq, data)
  BY <1>1, <1>4 DEF NvmRead
<1>7. AskedFor(request, seq, data)
  <2>1. request.id \in Nat
    BY ONLY <1>5
  <2> QED
    BY ONLY <1>3, <1>6, <2>1, seq \in Nat, AskSerializes
<1>8. Fits(data)'
  <2>1. asked' = request
    BY ONLY <1>7 DEF AskedFor
  <2> QED
    BY ONLY <1>2, <1>5, <2>1
    DEF Fits, NVM_ACCESS, PHY_CONTEXT, SCAN_UMAC, ADD_STATION,
      REMOVE_STATION, ADD_KEY
<1> QED
  BY ONLY <1>5, <1>7, <1>8, ReadBack

(* The PHY context is read by its number. *)
LEMMA PhyReadBack ==
    ASSUME NEW seq \in Nat, NEW channel \in {0, 1, 14, 36, 165}, PhyContext(seq, channel)
    PROVE  CommandsReadBack'
<1>1. PICK band, data : band = Band(channel) /\ data = PhyContextCmd(band, channel, 0)
  OBVIOUS
<1>2. channel \in Nat /\ band \in Nat /\ band = IF channel \in 0 .. 14 THEN 0 ELSE 1
  BY ONLY <1>1, channel \in {0, 1, 14, 36, 165} DEF Band
<1>3. data = <<1, 0, 0, 0, band, channel, 0, 0, 3, 0, 0, 0, 0, 0, 0, 0>> /\ data \in Seq(Nat)
  <2>1. data = <<1, 0, 0, 0, band, channel, 0, 0, 3, 0, 0, 0, 0, 0, 0, 0>>
    BY ONLY <1>1, <1>2, PhyRequest
  <2> QED
    BY ONLY <1>2, <2>1
<1>4. PICK request : request = [id |-> PHY_CONTEXT, seq |-> seq, channel |-> channel]
  OBVIOUS
<1>5. request.id = 8 /\ request.seq = seq /\ request.channel = channel
  BY ONLY <1>4 DEF PHY_CONTEXT
<1>6. Ask(request, seq, data)
  BY <1>1, <1>4 DEF PhyContext
<1>7. AskedFor(request, seq, data)
  <2>1. request.id \in Nat
    BY ONLY <1>5
  <2> QED
    BY ONLY <1>3, <1>6, <2>1, seq \in Nat, AskSerializes
<1>8. Fits(data)'
  <2>1. asked' = request
    BY ONLY <1>7 DEF AskedFor
  <2>2. asked'.id = 8
    BY ONLY <1>5, <2>1
  <2>3. ReadsPhyContext(data)'
    BY ONLY <1>2, <1>3, <1>5, <2>1 DEF ReadsPhyContext
  <2> QED
    BY ONLY <2>2, <2>3
    DEF Fits, NVM_ACCESS, PHY_CONTEXT, SCAN_UMAC, ADD_STATION,
      REMOVE_STATION, ADD_KEY
<1> QED
  BY ONLY <1>5, <1>7, <1>8, ReadBack

(* The scan is read by its number. *)
LEMMA ScanReadBack ==
    ASSUME NEW seq \in Nat, NEW channels \in Seq(Nat), NEW active \in BOOLEAN,
           NEW name \in Seq(Nat), AskScan(seq, channels, active, name)
    PROVE  CommandsReadBack'
<1>1. PICK wanted : wanted = ChannelsToScan(channels)
  OBVIOUS
<1>2. PICK data : data = ScanCmd(wanted, active, name)
  OBVIOUS
<1>3. data \in Seq(Nat) /\ ScanReads(data, wanted, active, name)
  <2>1. wanted \in Seq(Nat)
    BY ONLY <1>1, channels \in Seq(Nat), ChannelsTyped
  <2> QED
    BY ONLY <1>2, <2>1, active \in BOOLEAN, name \in Seq(Nat), ScanRequest
<1>4. PICK request : request = [id |-> SCAN_UMAC, seq |-> seq, channels |-> channels,
                                active |-> active, name |-> name]
  OBVIOUS
<1>5. /\ request.id = 12 /\ request.seq = seq /\ request.channels = channels
      /\ request.active = active /\ request.name = name
  BY ONLY <1>4 DEF SCAN_UMAC
<1>6. Ask(request, seq, data)
  BY <1>1, <1>2, <1>4 DEF AskScan
<1>7. AskedFor(request, seq, data)
  <2>1. request.id \in Nat
    BY ONLY <1>5
  <2> QED
    BY ONLY <1>3, <1>6, <2>1, seq \in Nat, AskSerializes
<1>8. ReadsScan(data)'
  <2>1. asked'.channels = channels /\ asked'.active = active /\ asked'.name = name
    BY ONLY <1>5, <1>7 DEF AskedFor
  <2> QED
    BY ONLY <1>1, <1>3, <2>1 DEF ReadsScan, ScanReads
<1>9. Fits(data)'
  <2>1. asked' = request
    BY ONLY <1>7 DEF AskedFor
  <2> QED
    BY ONLY <1>5, <1>8, <2>1
    DEF Fits, NVM_ACCESS, PHY_CONTEXT, SCAN_UMAC, ADD_STATION,
      REMOVE_STATION, ADD_KEY
<1> QED
  BY ONLY <1>5, <1>7, <1>9, ReadBack

(* The station added is read by its number. *)
LEMMA AddStationReadBack ==
    ASSUME NEW seq \in Nat, AddStation(seq)
    PROVE  CommandsReadBack'
<1>1. PICK data : data = AddStationCmd(Bssid, 0)
  OBVIOUS
<1>2. data \in Seq(Nat) /\ ReadsAddStation(data)
  BY ONLY <1>1, StationRequest
<1>3. PICK request : request = [id |-> ADD_STATION, seq |-> seq]
  OBVIOUS
<1>4. request.id = 24 /\ request.seq = seq
  BY ONLY <1>3 DEF ADD_STATION
<1>5. Ask(request, seq, data)
  BY <1>1, <1>3 DEF AddStation
<1>6. AskedFor(request, seq, data)
  <2>1. request.id \in Nat
    BY ONLY <1>4
  <2> QED
    BY ONLY <1>2, <1>5, <2>1, seq \in Nat, AskSerializes
<1>7. Fits(data)'
  <2>1. asked' = request
    BY ONLY <1>6 DEF AskedFor
  <2>2. ReadsAddStation(data)'
    BY ONLY <1>2 DEF ReadsAddStation, Zeroed, Bssid
  <2> QED
    BY ONLY <2>2, <1>4, <2>1
    DEF Fits, NVM_ACCESS, PHY_CONTEXT, SCAN_UMAC, ADD_STATION,
      REMOVE_STATION, ADD_KEY
<1> QED
  BY ONLY <1>4, <1>6, <1>7, ReadBack

(* The station removed is read by its number. *)
LEMMA RemoveStationReadBack ==
    ASSUME NEW seq \in Nat, RemoveStation(seq)
    PROVE  CommandsReadBack'
<1>1. PICK data : data = <<>>
  OBVIOUS
<1>2. data \in Seq(Nat)
  BY ONLY <1>1
<1>3. PICK request : request = [id |-> REMOVE_STATION, seq |-> seq]
  OBVIOUS
<1>4. request.id = 25 /\ request.seq = seq
  BY ONLY <1>3 DEF REMOVE_STATION
<1>5. Ask(request, seq, data)
  BY <1>1, <1>3 DEF RemoveStation
<1>6. AskedFor(request, seq, data)
  <2>1. request.id \in Nat
    BY ONLY <1>4
  <2> QED
    BY ONLY <1>2, <1>5, <2>1, seq \in Nat, AskSerializes
<1>7. Fits(data)'
  <2>1. asked' = request
    BY ONLY <1>6 DEF AskedFor
  <2> QED
    BY ONLY <1>1, <1>4, <2>1
    DEF Fits, NVM_ACCESS, PHY_CONTEXT, SCAN_UMAC, ADD_STATION,
      REMOVE_STATION, ADD_KEY
<1> QED
  BY ONLY <1>4, <1>6, <1>7, ReadBack

(* The key added is read by its number. *)
LEMMA AddKeyReadBack ==
    ASSUME NEW seq \in Nat, NEW key \in Seq(Nat), Len(key) <= 32, AddKey(seq, key)
    PROVE  CommandsReadBack'
<1>1. PICK n \in Nat : n = Len(key)
  OBVIOUS
<1>2. PICK data : data = AddKeyCmd(0, 0, 3, key)
  OBVIOUS
<1>3. Sized(Nat, key, n) /\ n <= 32
  BY ONLY <1>1, key \in Seq(Nat), Len(key) <= 32, n \in Nat DEF Sized
<1>4. /\ data \in Seq(Nat) /\ Len(data) = 48 /\ IsSlice(<<0, 0, 3>>, data, 1, 3)
      /\ data[4] = n /\ (\A l : l = 4 + n => IsSlice(key, data, 5, l))
      /\ \A l : l = 5 + n => Zeroed(data, l, 48)
  BY ONLY <1>2, <1>3, KeyRequest
<1>5. /\ SubSeq(data, 1, 3) = <<0, 0, 3>>
      /\ SubSeq(data, 5, 4 + data[4]) = key
      /\ Zeroed(data, 5 + data[4], 48)
  BY ONLY <1>4 DEF IsSlice
<1>6. PICK request : request = [id |-> ADD_KEY, seq |-> seq, key |-> key]
  OBVIOUS
<1>7. request.id = 14 /\ request.seq = seq /\ request.key = key
  BY ONLY <1>6 DEF ADD_KEY
<1>8. Ask(request, seq, data)
  BY <1>2, <1>6 DEF AddKey
<1>9. AskedFor(request, seq, data)
  <2>1. request.id \in Nat
    BY ONLY <1>7
  <2> QED
    BY ONLY <1>4, <1>8, <2>1, seq \in Nat, AskSerializes
<1>10. ReadsAddKey(data)'
  <2>1. asked'.key = key
    BY ONLY <1>7, <1>9 DEF AskedFor
  <2> QED
    BY ONLY <1>4, <1>5, <2>1 DEF ReadsAddKey
<1>11. Fits(data)'
  <2>1. asked' = request
    BY ONLY <1>9 DEF AskedFor
  <2> QED
    BY ONLY <1>7, <1>10, <2>1
    DEF Fits, NVM_ACCESS, PHY_CONTEXT, SCAN_UMAC, ADD_STATION,
      REMOVE_STATION, ADD_KEY
<1> QED
  BY ONLY <1>7, <1>9, <1>11, ReadBack

(* Every command has its number, its length and its fields where the       *)
(* firmware reads them, all but the band of a scan's channels, for names,  *)
(* channels, keys and sequence numbers of any value (serialize and the     *)
(* builders, commands.rs).                                                 *)
THEOREM CommandsAreReadBack == CommandsSpec => []CommandsReadBack
<1>1. CommandsInit => CommandsReadBack
  BY DEF CommandsInit, CommandsReadBack
<1>2. CommandsReadBack /\ [CommandsNext]_commandVars => CommandsReadBack'
  <2> SUFFICES ASSUME CommandsReadBack, [CommandsNext]_commandVars
               PROVE  CommandsReadBack'
    OBVIOUS
  <2>1. CASE CommandsNext
    <3>1. PICK seq \in Seqs :
             \/ NvmRead(seq)
             \/ \E channel \in {0, 1, 14, 36, 165} : PhyContext(seq, channel)
             \/ \E channels \in ChannelLists, name \in ScanNames, active \in BOOLEAN :
                   AskScan(seq, channels, active, name)
             \/ AddStation(seq) \/ RemoveStation(seq)
             \/ \E key \in Keys : AddKey(seq, key)
      BY <2>1 DEF CommandsNext
    <3>2. seq \in Nat
      BY ConfiguredAreBytes
    <3>3. CASE NvmRead(seq)
      BY <3>2, <3>3, NvmReadBack
    <3>4. ASSUME NEW channel \in {0, 1, 14, 36, 165}, PhyContext(seq, channel)
          PROVE  CommandsReadBack'
      BY <3>2, <3>4, PhyReadBack
    <3>5. ASSUME NEW channels \in ChannelLists, NEW name \in ScanNames, NEW active \in BOOLEAN,
                 AskScan(seq, channels, active, name)
          PROVE  CommandsReadBack'
      BY <3>2, <3>5, ConfiguredAreBytes, ScanReadBack
    <3>6. CASE AddStation(seq)
      BY <3>2, <3>6, AddStationReadBack
    <3>7. CASE RemoveStation(seq)
      BY <3>2, <3>7, RemoveStationReadBack
    <3>8. ASSUME NEW key \in Keys, AddKey(seq, key)
          PROVE  CommandsReadBack'
      BY <3>2, <3>8, ConfiguredAreBytes, AddKeyReadBack
    <3> QED
      BY <3>1, <3>3, <3>4, <3>5, <3>6, <3>7, <3>8
  <2>2. CASE UNCHANGED commandVars
    BY <2>2 DEF commandVars, CommandsReadBack, Payload, ReadsPhyContext, ReadsScan,
             ReadsAddStation, ReadsAddKey
  <2> QED
    BY <2>1, <2>2
<1> QED
  BY <1>1, <1>2, PTL DEF CommandsSpec
=============================================================================
