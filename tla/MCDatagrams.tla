---------------------------- MODULE MCDatagrams -----------------------------
(* An instance of Datagrams for TLC: a ring with room for two of the largest *)
(* frames, as the chip's, and one frame of each fate; and all configurations *)
(* and destinations of IPRouting in addresses of two bytes of two bits.     *)
EXTENDS Datagrams, IPRouting, TLC

Shape(cells, ok, to, port, sum) ==
    [cells |-> cells, ok |-> ok, etherType |-> IP, ipOK |-> TRUE, to |-> to,
     protocol |-> UDP, udpOK |-> TRUE, sum |-> sum, port |-> port]

Unicast == Shape(2, TRUE, "us", 1, "good")
ToAll   == Shape(1, TRUE, "all", 2, "none")
Bad     == Shape(2, FALSE, "us", 1, "good")

MCFrame == {Unicast, ToAll, Bad}

ASSUME RoutesAgree ==
    \A c \in [ipAddress : IPv4, subnetMask : {m \in IPv4 : Contiguous(m)},
              gatewayIP : {[i \in Place |-> {}]}], destinationIP \in IPv4 :
        RoutingOK(destinationIP, c)

=============================================================================
