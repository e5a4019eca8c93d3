------------------------------ MODULE Clients -------------------------------
(***************************************************************************)
(* SMTPClient.cpp and HTTPClient.cpp over Socket: what the two subclasses   *)
(* do when Socket calls them back, against a server (external) that answers *)
(* line by line, rightly or not, or falls silent, closes or aborts.         *)
(*                                                                         *)
(* A line is one byte of the stream; said[n] has what each byte stands for: *)
(* the protocolState in which the client sent it, the code of an answer.    *)
(* onDataReceived() is part of the receiving action; the other calls are    *)
(* made one after the other, in the order of todo, before the device goes   *)
(* on.  Every step is one of Socket, or leaves the sockets alone.           *)
(***************************************************************************)
EXTENDS Socket

CONSTANTS
    Early,        \* bound: after how many answers the next one may be early: given
    MaxDelayed,   \* while at most so many segments are in flight, or else none
    MaxUnheard    \* bound: localSeq, where no answer to the SYN comes
ASSUME BoundsAssumption == Early \subseteq Nat /\ MaxDelayed \in Nat /\ MaxUnheard \in Nat

VARIABLES
    app,          \* app[n]: the fields of the client on n, and its calls to come
    said,         \* said[n]: the lines that n has sent
    taken,        \* history: the mails that the server has said it took
    reported      \* history: the mails that the client has called sent
                  \* (each named by the client and the port of its connection)

cvars == <<vars, app, said, taken, reported>>

Client == Node \ Hosts

isSMTP(n) == app[n].kind = "SMTP"
Busy(n)   == app[n].status = "sending" \/ app[n].sendInProgress
Idle(n)   == app[n].todo = <<>>

ClientsInit ==
    /\ Init
    /\ \E kind \in {"SMTP", "HTTP"} :
         app = [n \in Client |->
                  [kind |-> kind, todo |-> <<>>, status |-> "init",
                   protocolState |-> 0, sendInProgress |-> FALSE]]
    /\ said = [n \in Node |-> <<>>]
    /\ taken = {} /\ reported = {}

-----------------------------------------------------------------------------
(* The SMTP dialogue.  In an even protocolState the client waits for a line, *)
(* in an odd one it sends one and moves on; QUIT is the last.               *)

MESSAGE == 15         \* SMTP_READY_FOR_EMAIL
QUIT    == 17         \* SMTP_READY_FOR_QUIT

Ready(p) == p % 2 = 1

\* The code that onLineReceived() waits for; 334 comes with two messages.
Awaited == [p \in {0, 2, 4, 6, 8, 10, 12, 14, 16} |->
              CASE p = 0 -> "220" [] p = 4 -> "334 user" [] p = 6 -> "334 pass"
                [] p = 8 -> "235" [] p = 14 -> "354" [] OTHER -> "250"]

\* (mutant of IsAwaited: a line will do whatever its code)
AnyCode(line, p) == ~Ready(p)
IsAwaited(line, p) == ~Ready(p) /\ line = Awaited[p]

\* After onReadyToSend(), whether or not send() succeeded; QUIT is not answered.
AfterReady(p) == IF Ready(p) /\ p # QUIT THEN p + 1 ELSE p

\* Only a message may be too long for one segment.
Fits(p) == {TRUE, p # MESSAGE}

\* onLineReceived(): an error, or anything but the awaited code, closes the
\* connection; after the awaited code the next line goes out at once if it can.
AfterLine(p, line) == IF IsAwaited(line, p) THEN p + 1 ELSE p
IsWrong(p, line) == line = "500" \/ (~Ready(p) /\ ~IsAwaited(line, p))

-----------------------------------------------------------------------------
(* The clients.                                                            *)

Plans(n, a, calls) == app' = [app EXCEPT ![n] = [a EXCEPT !.todo = calls]]
Tells(n, lines) == said' = [said EXCEPT ![n] = @ \o lines]
NoMail == UNCHANGED <<taken, reported>>

\* send() by a callback: nothing goes out unless the socket is ready and the
\* line fits.
SendLine(n, line, fits) ==
    IF readyToSend(sock[n]) /\ fits THEN Send(n, 1) /\ Tells(n, <<line>>)
                                    ELSE UNCHANGED <<vars, said>>

\* email() and send(): connect() is called and its result not looked at.
Begin(n) ==
    /\ Idle(n) /\ ~Busy(n) /\ sock[n].state = CLOSED
    /\ sock[n].nextPort <= MaxPort
    /\ Connect(n) \/ ConnectByName(n)
    /\ app' = [app EXCEPT ![n] = IF isSMTP(n) THEN [@ EXCEPT !.status = "sending"]
                                 ELSE [@ EXCEPT !.sendInProgress = TRUE]]
    /\ UNCHANGED said /\ NoMail

AcksAll(n, m) == IsAwaiting(sock[n].state) /\ m.ack = sock[n].localSeq
IfAcked(n, m) == IF AcksAll(n, m) THEN <<"readyToSend">> ELSE <<>>
IfFin(m) == IF HasFin(m) THEN <<"remoteClosed">> ELSE <<>>

\* The calls that handleSegment() makes, those of setState() and reset() among
\* them, except onDataReceived().  (Nobody connects to a client, no peer sends
\* a segment without an ACK but a reset, or acknowledges what was not sent.)
Receives(n, m) ==
    /\ Idle(n) /\ UNCHANGED said /\ NoMail
    /\ \/ /\ RecvUnacceptable(n, m) \/ RecvOutOfOrder(n, m)
          /\ UNCHANGED app
       \/ /\ RecvRst(n, m)
          /\ Plans(n, app[n], IF sock'[n].state = CLOSED THEN <<"closed", "reset">> ELSE <<>>)
       \/ /\ RecvSynAck(n, m)
          /\ Plans(n, app[n], <<"established", "readyToSend">>)
       \/ /\ RecvAck(n, m) \/ RecvFin(n, m)
          /\ Plans(n, app[n], IfFin(m) \o IfAcked(n, m))
       \/ /\ RecvAckOfAll(n, m)
          /\ Plans(n, app[n], IF sock'[n].state = CLOSED THEN <<"closed">> ELSE <<>>)
       \/ /\ RecvLastResort(n, m)
          /\ Plans(n, app[n], IF sock[n].state = TIME_WAIT THEN <<"closed">>
                              ELSE <<"reset", "closed">>)

\* onDataReceived() of SMTPClient.
RecvLine(n, m, fits) ==
    LET a == app[n]
        line  == said[m.src][m.data.first]
        wrong == IsWrong(a.protocolState, line)
        p     == AfterLine(a.protocolState, line)
        ready == ~wrong /\ readyToSend(BeforeData(n, m))
        says  == ready /\ Ready(p) /\ fits
        sent  == a.protocolState = MESSAGE + 1 /\ IsAwaited(line, MESSAGE + 1)
    IN  /\ Idle(n) /\ isSMTP(n)
        /\ m.data.len > 0 /\ fits \in Fits(p)
        /\ RecvData(n, m, TRUE, CASE wrong -> "close"
                                  [] says /\ p = QUIT -> "both"
                                  [] says /\ p # QUIT -> "send"
                                  [] OTHER -> "none", IF says THEN 1 ELSE 0)
        /\ Tells(n, IF says THEN <<p>> ELSE <<>>)
        /\ Plans(n, [a EXCEPT !.protocolState = IF ready THEN AfterReady(p) ELSE p,
                              !.status = IF sent THEN "sent" ELSE @],
                 IfFin(m) \o IfAcked(n, m))
        /\ reported' = reported \cup (IF sent THEN {<<n, sock[n].localPort>>} ELSE {})
        /\ UNCHANGED taken

\* onDataReceived() of HTTPClient: the answer is of no interest.
RecvAnswer(n, m) ==
    /\ Idle(n) /\ ~isSMTP(n)
    /\ RecvData(n, m, TRUE, "none", 0)
    /\ Plans(n, app[n], IfFin(m) \o IfAcked(n, m))
    /\ UNCHANGED said /\ NoMail

\* checkState() resets what it gives up, and ends TIME_WAIT and a lookup.
Timer(n) ==
    /\ Idle(n)
    /\ sock[n].state = SYN_SENT /\ TimedOut(n, sock[n]) => sock[n].localSeq < MaxUnheard
    /\ checkState(n)
    /\ Plans(n, app[n], CASE sock'[n].state # CLOSED -> <<>>
                          [] sock[n].state = TIME_WAIT -> <<"closed">>
                          [] OTHER -> <<"reset", "closed">>)
    /\ UNCHANGED said /\ NoMail

Called(n, call) == ~Idle(n) /\ Head(app[n].todo) = call
Rest(n) == Tail(app[n].todo)

\* An SMTPClient starts its dialogue, an HTTPClient sends its request.
OnEstablished(n, fits) ==
    /\ Called(n, "established")
    /\ IF isSMTP(n) THEN fits /\ UNCHANGED <<vars, said>> ELSE SendLine(n, 0, fits)
    /\ Plans(n, [app[n] EXCEPT !.protocolState = 0], Rest(n))
    /\ NoMail

\* An SMTPClient whose turn it is sends its line; QUIT is followed by close().
OnReadyToSend(n, fits) ==
    LET p == app[n].protocolState IN
    /\ Called(n, "readyToSend")
    /\ IF isSMTP(n) /\ Ready(p)
       THEN /\ fits \in Fits(p) /\ SendLine(n, p, fits)
            /\ Plans(n, [app[n] EXCEPT !.protocolState = AfterReady(p)],
                     (IF p = QUIT THEN <<"close">> ELSE <<>>) \o Rest(n))
       ELSE fits /\ UNCHANGED <<vars, said>> /\ Plans(n, app[n], Rest(n))
    /\ NoMail

\* The close() after QUIT, and that of onRemoteClosed().
OnClose(n, call) ==
    /\ Called(n, call)
    /\ IF localClosed(sock[n]) THEN UNCHANGED vars ELSE Close(n)
    /\ Plans(n, IF call = "close" THEN app[n] ELSE [app[n] EXCEPT !.sendInProgress = FALSE],
             Rest(n))
    /\ UNCHANGED said /\ NoMail

\* (mutant of Ended: what has not been sent is not given up)
StaysBusy(a) == [a EXCEPT !.sendInProgress = FALSE]
Ended(a) == [a EXCEPT !.status = IF @ = "sending" THEN "fail" ELSE @,
                      !.sendInProgress = FALSE]

OnReset(n) ==
    /\ Called(n, "reset")
    /\ Plans(n, Ended(app[n]), Rest(n))
    /\ UNCHANGED <<vars, said>> /\ NoMail

\* HTTPClient forces the socket closed again if its request is not over: one
\* more reset goes out, onReset() ends the request, and onClosed(), called once
\* more, finds nothing to do.
OnClosed(n) ==
    /\ Called(n, "closed")
    /\ IF app[n].sendInProgress
       THEN ForceClose(n)
       ELSE UNCHANGED vars
    /\ Plans(n, Ended(app[n]), Rest(n))
    /\ UNCHANGED said /\ NoMail

CallBack(n) ==
    \/ \E fits \in BOOLEAN : OnEstablished(n, fits) \/ OnReadyToSend(n, fits)
    \/ OnClose(n, "close")
    \/ OnClose(n, "remoteClosed")
    \/ OnReset(n)
    \/ OnClosed(n)

-----------------------------------------------------------------------------
(* The server: it greets an SMTPClient, and answers each line once.        *)

Owes(h) == Len(sock[h].got) + (IF isSMTP(sock[h].remoteIP) THEN 1 ELSE 0)

\* The line that comes next to be answered: none for the greeting.
LineOf(h) == said[sock[h].remoteIP][sock[h].got[Sent(h)]]

RightAnswer(h) ==
    CASE ~isSMTP(sock[h].remoteIP) -> "200"
      [] Sent(h) = 0 -> "220"
      [] LineOf(h) = QUIT -> "221"
      [] OTHER -> Awaited[LineOf(h) + 1]

Answer(h, code) ==
    /\ readyToSend(sock[h]) /\ Sent(h) < Owes(h)
    /\ code \in {RightAnswer(h), "500"}
    /\ Cardinality(net) <= IF Sent(h) \in Early THEN MaxDelayed ELSE 0
    /\ Send(h, 1)
    /\ Tells(h, <<code>>)
    /\ taken' = taken \cup
         (IF isSMTP(sock[h].remoteIP) /\ Sent(h) > 0 /\ code # "500" /\ LineOf(h) = MESSAGE
          THEN {<<sock[h].remoteIP, sock[h].remotePort>>} ELSE {})
    /\ UNCHANGED <<app, reported>>

HostReceives(h, m) ==
    /\ IF InOrder(h, m) /\ m.data.len > 0
       THEN RecvData(h, m, TRUE, "none", 0) ELSE handleSegment(h, m)
    /\ UNCHANGED <<app, said>> /\ NoMail

HostActs(h) ==
    /\ Close(h) \/ ForceClose(h) \/ checkState(h)
    /\ UNCHANGED <<app, said>> /\ NoMail

-----------------------------------------------------------------------------

ClientsNext ==
    \/ \E n \in Client : Begin(n) \/ Timer(n) \/ CallBack(n)
    \/ \E m \in net :
         \/ /\ m.dst \in Client
            /\ \/ Receives(m.dst, m)
               \/ \E fits \in BOOLEAN : RecvLine(m.dst, m, fits)
               \/ RecvAnswer(m.dst, m)
         \/ m.dst \in Hosts /\ HostReceives(m.dst, m)
    \/ \E h \in Hosts :
         \/ \E code \in {"200", "220", "221", "500"} \cup {Awaited[p] : p \in DOMAIN Awaited} :
                Answer(h, code)
         \/ HostActs(h)
    \/ (Network \/ Elapse) /\ UNCHANGED <<app, said>> /\ NoMail

\* The client's own device goes on: its timer ticks, time passes, and calls
\* that are due are made.  Nothing is assumed of the server or the network.
ClientsSpec ==
    /\ ClientsInit /\ [][ClientsNext]_cvars
    /\ WF_cvars(Elapse /\ UNCHANGED <<app, said>> /\ NoMail)
    /\ \A n \in Client : WF_cvars(Timer(n)) /\ WF_cvars(CallBack(n))

-----------------------------------------------------------------------------

\* A mail that getStatus() calls sent has been taken by the server: no answer,
\* late, repeated or to something else, makes EMAIL_SENT of a mail that the
\* server has not got (onLineReceived, onReadyToSend).
SentMeansAccepted == reported \subseteq taken

\* With setTimeout(), a mail or request that is on a connection ends, sent or
\* failed, and the client can be used again, whatever the server and the
\* network do and although a line may never have been sent (onClosed, onReset).
BusyEnds ==
    \A n \in Client : Timeout[n] > 0 =>
        (Busy(n) /\ Synchronized(sock[n]) ~> ~Busy(n))

=============================================================================
