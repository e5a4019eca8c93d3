---------------------------- MODULE SocketStream ----------------------------
(* Two sockets as the two ends of a ReliableStream.                        *)
EXTENDS Socket

remoteClosed(s) == s.state \in {CLOSE_WAIT, LAST_ACK, CLOSING, TIME_WAIT,
                                LISTEN, CLOSED}

Other(a) == CHOOSE b \in Node : b # a
Joined   == \A a \in Node : Connected(a, Other(a))

\* The bytes a has been given, numbered from the first of the connection.
Given(a) == [i \in 1 .. Len(sock[a].got) |-> sock[a].got[i] - sock[Other(a)].start]

Stream == INSTANCE ReliableStream WITH
    End   <- Node,
    up    <- Joined,
    sent  <- [a \in Node |-> IF Joined THEN Sent(a) ELSE 0],
    got   <- [a \in Node |-> IF Joined THEN Given(a) ELSE <<>>],
    ended <- [a \in Node |-> Joined /\ remoteClosed(sock[a])]

\* Two sockets over a network that loses, repeats and reorders segments
\* implement the stream: no call of either application, no segment, old or
\* new, and no timer takes a step that the stream does not allow.
StreamImplemented == Stream!Spec

=============================================================================
