----------------------------- MODULE MCClients ------------------------------
(* An instance of Clients for TLC: a client c, an SMTPClient or an           *)
(* HTTPClient, and a host h; and texts of up to four chars for Base64, in    *)
(* which SMTPClient sends its user name and password.                        *)
EXTENDS Clients, Base64, TLC

CONSTANTS c, h

ToHost      == c :> h
OnPort      == [n \in Node |-> 25]
One         == [n \in Node |-> 1]
FirstSeq    == [n \in Node |-> IF n = c THEN 0 ELSE 100]
TimeoutC    == [n \in Node |-> IF n = c THEN 1 ELSE 0]
Lines       == [n \in Node |-> 12]
HostSeq     == [n \in Node |-> IF n = c THEN 30 ELSE 103]

Letters == {{0}, {6, 7}, {0, 1, 4, 6}, 0 .. 6, 0 .. 7}

ASSUME Base64Agrees ==
    \A n \in 0 .. 4 : \A text \in [1 .. n -> Letters] :
        /\ LengthsRight(text) /\ EncodesAscii(text)
        /\ RoundTrip(text) /\ SpoilsItsThree(text)

=============================================================================
