---------------------------- MODULE MCTCPHandler ----------------------------
(* Two sockets that listen on one port and a client, with fewer rows than  *)
(* sockets and a table of timers that another handler may fill.            *)
EXTENDS TCPHandler

CONSTANTS h1, h2, c

OneDelay == [h \in Handler |-> {1}]
Http == [s \in Sock |-> IF s = c THEN 0 ELSE 1]
ToPeer == [s \in Sock |-> CHOOSE p \in Peer : TRUE]

=============================================================================
