------------------------------ MODULE MCSocket ------------------------------
(* Instances of Socket for TLC: a client c and a host h, or, in the runs of *)
(* a simultaneous open, two clients of each other.                          *)
EXTENDS SocketStream, TLC

CONSTANTS c, h

\* c and h; in a simultaneous open both are clients of each other's first port.
ToHost       == c :> h
ToEachOther  == (c :> h) @@ (h :> c)
Http         == [n \in Node |-> 80]
One          == [n \in Node |-> 1]
FirstSeq     == [n \in Node |-> IF n = c THEN 0 ELSE 10]
NoTimeout    == [n \in Node |-> 0]
TimeoutHost  == [n \in Node |-> IF n \in Hosts THEN 1 ELSE 0]

\* Bounds on the bytes sent.
OneByteEach  == [n \in Node |-> 1]
NoBytes      == [n \in Node |-> 0]
OneFromC     == [n \in Node |-> IF n = c THEN 1 ELSE 0]
TwoFromC     == [n \in Node |-> IF n = c THEN 2 ELSE 0]

\* Bounds on the sequence numbers: where nothing closes, where both may close
\* after their bytes, and with room for more than one connection.
CloseEarly   == [n \in Node |-> IF n = c THEN 1 ELSE 10]
CloseC1      == [n \in Node |-> IF n = c THEN 2 ELSE 11]
CloseEach    == [n \in Node |-> IF n = c THEN 2 ELSE 12]
HostCloses   == [n \in Node |-> IF n = c THEN 0 ELSE 12]
CloseC       == [n \in Node |-> IF n = c THEN 4 ELSE 12]
CloseBoth    == [n \in Node |-> IF n = c THEN 3 ELSE 13]

=============================================================================
