----------------------------- MODULE SecureLink -----------------------------
(***************************************************************************)
(* What the driver promises the network stack above it: data leaves the    *)
(* machine only while a link is up, under the key agreed for that link,    *)
(* with packet numbers that only rise.  The promise that a key serves one  *)
(* link, and a number one packet under its key, is the driver's only while *)
(* the access points' nonces are new: it cannot tell a handshake's first   *)
(* message from one repeated, and such a message brings an old key back.   *)
(***************************************************************************)
EXTENDS Naturals

CONSTANTS
    Bssids, Keys, PacketNumbers,
    Places,     \* what tells one transmission from another
    NoLink

VARIABLES
    link,       \* NoLink, or the access point, the key and the next number
    sent,       \* packets sent: the key, the packet number and the place
                \* of each, so that one sent twice is there twice
    returned    \* keys that came back after they had been used

Links == [bssid : Bssids, key : Keys, next : PacketNumbers]

Init == link = NoLink /\ sent = {} /\ returned = {}

Unused(key) == \A p \in sent : p.key # key

(* Outside the driver: a first message is repeated while no link is up. *)
ComesBack(key) ==
    /\ link = NoLink
    /\ ~ Unused(key)
    /\ returned' = returned \union {key}
    /\ UNCHANGED <<link, sent>>

Establish(l) ==
    /\ link = NoLink
    /\ Unused(l.key) \/ l.key \in returned
    /\ link' = l
    /\ UNCHANGED <<sent, returned>>

(* The number after n, and those in between spent on packets never sent. *)
Spend(n) ==
    /\ link # NoLink
    /\ n >= link.next
    /\ link' = [link EXCEPT !.next = n + 1]
    /\ returned' = returned

Send(n, place) ==
    /\ Spend(n)
    /\ \/ link.key \in returned
       \/ \A p \in sent : ~ (p.key = link.key /\ p.pn = n)
    /\ sent' = sent \union {[key |-> link.key, pn |-> n, at |-> place]}

Skip(n) == Spend(n) /\ sent' = sent

Release == link # NoLink /\ link' = NoLink /\ UNCHANGED <<sent, returned>>

Next ==
    \/ \E key \in Keys : ComesBack(key)
    \/ \E l \in Links : Establish(l)
    \/ \E n \in PacketNumbers :
          Skip(n) \/ \E place \in Places : Send(n, place)
    \/ Release

Spec == Init /\ [][Next]_<<link, sent, returned>>
=============================================================================
