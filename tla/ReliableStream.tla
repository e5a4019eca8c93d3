--------------------------- MODULE ReliableStream ---------------------------
(***************************************************************************)
(* What TCPHandler.cpp:12-15 promises of a connection, with nothing of how *)
(* it is kept: while both ends hold the connection, whatever one           *)
(* application sends the other is given, once, in order and whole, and an   *)
(* end is told that its peer sends no more only after it has been given    *)
(* everything.  One send() is in transit at a time.                        *)
(***************************************************************************)
EXTENDS Naturals, Sequences

CONSTANT End            \* the two ends

VARIABLES
    up,     \* both ends have opened the connection and neither has left it
    sent,   \* sent[e]: the number of bytes e has sent on this connection
    got,    \* got[e]: the bytes e has been given, numbered as its peer sent them
    ended   \* ended[e]: e knows that its peer sends no more

stream == <<up, sent, got, ended>>

Peer(e) == CHOOSE p \in End : p # e

FirstBytes(n) == [i \in 1 .. n |-> i]

Down ==
    /\ up = FALSE
    /\ sent = [e \in End |-> 0]
    /\ got = [e \in End |-> <<>>]
    /\ ended = [e \in End |-> FALSE]

\* The end that opens first may have sent, or left off sending, before the
\* other one opens.
Open ==
    /\ ~up /\ up'
    /\ \A e \in End : sent'[e] \in Nat
    /\ sent' = [e \in End |-> sent'[e]]
    /\ got' = [e \in End |-> <<>>]
    /\ ended' \in [End -> BOOLEAN]
    /\ \A e \in End : ended'[e] => sent'[Peer(e)] = 0

Break == up /\ Down'

\* The next bytes, once everything sent before has been given to the peer ...
Sends(e) ==
    /\ Len(got[Peer(e)]) = sent[e] /\ ~ended[Peer(e)]
    /\ sent'[e] \in Nat /\ sent'[e] > sent[e]
    /\ sent' = [sent EXCEPT ![e] = sent'[e]]

\* ... who is given all of them, perhaps with the news that they were the last.
Takes(e) ==
    /\ Len(got[e]) < sent[Peer(e)] /\ ~ended[e]
    /\ got' = [got EXCEPT ![e] = FirstBytes(sent[Peer(e)])]

Ends(e) ==
    /\ ~ended[e] /\ Len(got'[e]) = sent[Peer(e)]
    /\ ended' = [ended EXCEPT ![e] = TRUE]

Write(e)     == up /\ Sends(e) /\ UNCHANGED <<up, got, ended>>
Read(e)      == up /\ Takes(e) /\ UNCHANGED <<up, sent, ended>>
Reply(e)     == up /\ Takes(e) /\ Sends(e) /\ UNCHANGED <<up, ended>>
ReadEnd(e)   == up /\ UNCHANGED got /\ Ends(e) /\ UNCHANGED <<up, sent>>
ReadLast(e)  == up /\ Takes(e) /\ Ends(e) /\ UNCHANGED <<up, sent>>
ReplyLast(e) == up /\ Takes(e) /\ Ends(e) /\ Sends(e) /\ UNCHANGED up

Next ==
    \/ Open
    \/ Break
    \/ \E e \in End :
          \/ Write(e) \/ Read(e) \/ Reply(e)
          \/ ReadEnd(e) \/ ReadLast(e) \/ ReplyLast(e)

Spec == Down /\ [][Next]_stream

=============================================================================
