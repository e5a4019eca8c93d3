---------------------------- MODULE MCDNSHandler ----------------------------
(* The DNSHandler and one other handler.  A unit of time is the second of  *)
(* handleTimer(); the first delay is longer.                               *)
EXTENDS DNSHandler

SomeDelays == [h \in Handler |-> IF h = DNS THEN {FirstDelay, LaterDelay} ELSE {1}]

=============================================================================
