-------------------------- MODULE MCSocketForeign ---------------------------
(* Instances of SocketForeign for TLC: a client c of this library and a     *)
(* host h, whose TCP is foreign.                                            *)
EXTENDS SocketForeign, SocketStream, TLC

CONSTANTS c, h

ToHost    == c :> h
Http      == [n \in Node |-> 80]
One       == [n \in Node |-> 1]
FirstSeq  == [n \in Node |-> IF n = c THEN 0 ELSE 10]
NoTimeout == [n \in Node |-> 0]
TwoFromH  == [n \in Node |-> IF n = h THEN 2 ELSE 0]
CloseEach == [n \in Node |-> IF n = c THEN 2 ELSE 13]

=============================================================================
