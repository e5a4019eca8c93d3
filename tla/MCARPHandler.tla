---------------------------- MODULE MCARPHandler ----------------------------
(* The ARPHandler among other handlers, with room for fewer addresses than *)
(* are asked for.                                                          *)
EXTENDS ARPHandler

OneDelay == [h \in Handler |-> {1}]

=============================================================================
