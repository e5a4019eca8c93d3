----------------------------- MODULE IPRouting ------------------------------
(***************************************************************************)
(* Where IPHandler sends a packet: init() with the addresses that it makes  *)
(* of a device's configuration, and getMACForIP(), the choice between the   *)
(* destination itself and the gateway.  A byte is the set of its bits that  *)
(* are 1.                                                                  *)
(***************************************************************************)
EXTENDS Naturals

CONSTANTS
    Place,        \* the places of an address's bytes, 0 .. 3
    Bit           \* the bits of a byte, 0 .. 7

ASSUME BitAssumption == Bit \subseteq Nat /\ 0 \in Bit

Byte == SUBSET Bit
IPv4 == [Place -> Byte]

\* c is a device's configuration: ipAddress, subnetMask and gatewayIP.
Configuration == [ipAddress : IPv4, subnetMask : IPv4, gatewayIP : IPv4]

ipNetwork(c) == [i \in Place |-> c.ipAddress[i] \cap c.subnetMask[i]]

ipBroadcastAddress(c) == [i \in Place |-> ipNetwork(c)[i] \cup (Bit \ c.subnetMask[i])]

\* The value of a comparison in C: 0, or 1, whose only bit is the lowest.
Differ(a, b) == IF a = b THEN {} ELSE {0}

\* subnetMask[i] & destinationIP[i] != ipNetwork[i], the comparison first, is 0
\* for all of the bytes.
onLocalNetwork(destinationIP, c) ==
    \A i \in Place : c.subnetMask[i] \cap Differ(destinationIP[i], ipNetwork(c)[i]) = {}

\* The address whose MAC address getMACForIP() looks up, if it is not the
\* broadcast's.
NextHop(destinationIP, c) ==
    IF onLocalNetwork(destinationIP, c) THEN destinationIP ELSE c.gatewayIP

IsBroadcast(destinationIP, c) ==
    onLocalNetwork(destinationIP, c) /\ destinationIP = ipBroadcastAddress(c)

-----------------------------------------------------------------------------
(* What a network is, by definition: the addresses that agree with the      *)
(* device's own wherever the mask has a 1.                                  *)

SameNetwork(destinationIP, c) ==
    \A i \in Place :
        destinationIP[i] \cap c.subnetMask[i] = c.ipAddress[i] \cap c.subnetMask[i]

\* The 1s of a mask come before its 0s, here within each byte.
Contiguous(mask) ==
    \A i \in Place : \A b \in mask[i] : \A h \in Bit : b <= h => h \in mask[i]

\* The mask has whole bytes only: /8, /16 and /24.
OfWholeBytes(mask) == \A i \in Place : mask[i] \in {{}, Bit}

-----------------------------------------------------------------------------
(* Of any masks that a network may have, the test looks at the whole bytes  *)
(* only.                                                                   *)

\* Exactly the bytes that the mask covers as a whole are compared: a mask of 25
\* bits or of 30 is taken for one of 24 (getMACForIP).
ComparesWholeBytes(destinationIP, c) ==
    onLocalNetwork(destinationIP, c) <=>
        \A i \in Place : c.subnetMask[i] = Bit => destinationIP[i] = c.ipAddress[i]

\* No packet for a neighbour goes to the gateway (getMACForIP).
NeighboursDirect(destinationIP, c) ==
    SameNetwork(destinationIP, c) => NextHop(destinationIP, c) = destinationIP

\* With masks of whole bytes nobody else is taken for a neighbour
\* (getMACForIP).
OthersByGateway(destinationIP, c) ==
    OfWholeBytes(c.subnetMask) /\ ~SameNetwork(destinationIP, c) =>
        NextHop(destinationIP, c) = c.gatewayIP

\* The broadcast address is known as such, and is not that of another network
\* (getMACForIP, init).
BroadcastKnown(destinationIP, c) ==
    /\ IsBroadcast(ipBroadcastAddress(c), c)
    /\ IsBroadcast(destinationIP, c) => SameNetwork(destinationIP, c)

RoutingOK(destinationIP, c) ==
    /\ ComparesWholeBytes(destinationIP, c)
    /\ NeighboursDirect(destinationIP, c)
    /\ OthersByGateway(destinationIP, c)
    /\ BroadcastKnown(destinationIP, c)

=============================================================================
