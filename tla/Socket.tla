------------------------------- MODULE Socket -------------------------------
(***************************************************************************)
(* The TCP socket of Socket.h / Socket.cpp, one socket on each of a set of *)
(* devices that all run this library, over a network that may delay,       *)
(* reorder, lose and duplicate segments.                                   *)
(*                                                                         *)
(* A device is single threaded: loop() calls processFrame(), which hands   *)
(* at most one frame to handleSegment() and then runs the timers, one of   *)
(* which calls checkState(); the application calls connect(), send(),      *)
(* close() and forceClose() from loop() or from a callback.  Each of these *)
(* calls is one action.  A callback in tail position of a handler is the   *)
(* action the application takes next; the only callback with code after it *)
(* that sees what the callback did is onDataReceived(), whose calls back   *)
(* into the socket are part of the receiving action.                       *)
(***************************************************************************)
EXTENDS Integers, Sequences, FiniteSets

CONSTANTS
    Node,         \* the devices, one socket each
    NoNode,       \* the remoteIP of a socket that has not learnt one yet
    Hosts,        \* the devices whose socket was built with a listen port
    Named,        \* the clients built with a domain name and a DNSHandler
    Server,       \* Server[n]: the remoteIP a client was built with
    Port,         \* Port[n]: a host's listenPort, a client's remotePort
    FirstPort,    \* FirstPort[n]: where the IPHandler's nextPort starts
    ISS,          \* ISS[n]: random() % 1000, the first localSeq
    Timeout,      \* Timeout[n]: setTimeout(), 0 for none
    MaxAttempts,  \* 10 in checkState()
    AckWait,      \* ACK_WAIT_DURATION
    TimeWait,     \* TIME_WAIT_DURATION
    StashSize,    \* the bytes a stash holds, and the window peers advertise
    Losses,       \* whether the network loses segments
    Duplicates,   \* whether the network delivers a segment more than once
    Refuses,      \* whether onDataReceived() may return false
    Aborts,       \* the devices whose application may call forceClose()
    MaxBytes,     \* bound: MaxBytes[n], the bytes n sends altogether
    MaxPort,      \* bound: last local port handed out
    MaxAge,       \* bound: where the age of a state stops counting
    MaxSeq        \* bound: MaxSeq[n], where n stops taking connections and closing

ASSUME NodeAssumption ==
    /\ Hosts \subseteq Node /\ Named \subseteq Node \ Hosts
    /\ Aborts \subseteq Node
    /\ NoNode \notin Node
ASSUME ConfigAssumption ==
    /\ Server \in [Node \ Hosts -> Node]
    /\ Port \in [Node -> Nat] /\ FirstPort \in [Node -> Nat]
    /\ ISS \in [Node -> Nat] /\ Timeout \in [Node -> Nat]
ASSUME NumberAssumption ==
    /\ MaxAttempts \in Nat /\ AckWait \in Nat /\ TimeWait \in Nat
    /\ StashSize \in Nat \ {0}
    /\ MaxBytes \in [Node -> Nat] /\ MaxSeq \in [Node -> Nat]
    /\ MaxPort \in Nat /\ MaxAge \in Nat
ASSUME FlagAssumption ==
    /\ Losses \in BOOLEAN /\ Duplicates \in BOOLEAN /\ Refuses \in BOOLEAN

VARIABLES
    sock,   \* sock[n]: the fields of the Socket object on n
    net     \* the segments in flight

vars == <<sock, net>>

-----------------------------------------------------------------------------
(* The state byte.  The high nibble is a flag field: AWAITING_ACK is 0xF0, *)
(* and the two states of the name lookup are 0x14 and 0x15.                *)

LISTEN       == 1
SYN_SENT     == 2
SYN_RECEIVED == 3
ESTABLISHED  == 4
FIN_WAIT_1   == 5
FIN_WAIT_2   == 6
CLOSE_WAIT   == 7
CLOSING      == 8
LAST_ACK     == 9
TIME_WAIT    == 10
CLOSED       == 11
RESOLVING    == 20
UNKNOWN_HOST == 21

Low(st)      == st % 16                \* st & 0x0F
Awaiting(st) == 240 + Low(st)          \* st | AWAITING_ACK
IsAwaiting(st) == st >= 240            \* (st & 0xF0) == AWAITING_ACK

State == LISTEN .. CLOSED \cup {RESOLVING, UNKNOWN_HOST, Awaiting(ESTABLISHED)}

NoData == [first |-> 0, len |-> 0]     \* a segment without payload
Data   == [first : Nat, len : Nat]     \* bytes first .. first+len-1 of a stream

Control == SUBSET {"SYN", "ACK", "FIN", "RST"}   \* PSH is set but never read

\* words is the data offset of the header, in words of four bytes.
Segment == [src : Node, dst : Node, sport : Nat, dport : Nat, ctl : Control,
            seq : Nat, ack : Nat, data : Data, words : 0 .. 6]

-----------------------------------------------------------------------------
(* The helpers of Socket.cpp, on the fields s of one socket.               *)

isHost(n) == n \in Hosts

localClosed(s) == s.state \in {FIN_WAIT_1, FIN_WAIT_2, CLOSING, LAST_ACK,
                               TIME_WAIT, LISTEN, CLOSED}

readyToSend(s) == Low(s.state) = ESTABLISHED /\ ~IsAwaiting(s.state)

\* (mutant of setState: the flags of the old state stay)
KeepsFlags(s, st) == [s EXCEPT !.state = 16 * (@ \div 16) + Low(st), !.age = 0]
setState(s, st) == [s EXCEPT !.state = st, !.age = 0]

closed(n, s) == setState(s, IF isHost(n) THEN LISTEN ELSE CLOSED)

\* getMaxSendPayload(): no more than the stash and the peer's window hold.
\* (remoteMSS is never less than a stash between two devices of this library.)
MaxPayload(s) == IF s.remoteWindow < StashSize THEN s.remoteWindow ELSE StashSize

\* sendSegment(): the segment it puts into the transmit buffer.  The data
\* offset is six words with the option of a SYN and five otherwise, but a FIN
\* leaves that byte of the buffer as the segment before it did.
Raw(n, s, ctl, seq, ack, data) ==
    [src |-> n, dst |-> s.remoteIP, sport |-> s.localPort,
     dport |-> s.remotePort, ctl |-> ctl, seq |-> seq, ack |-> ack,
     data |-> data,
     words |-> IF "SYN" \in ctl THEN 6 ELSE IF "FIN" \in ctl THEN s.words ELSE 5]

Seg(n, s, ctl, data) == Raw(n, s, ctl, s.localSeq, s.remoteSeq, data)
Ack(n, s) == Seg(n, s, {"ACK"}, NoData)
Fin(n, s) == Seg(n, s, {"FIN", "ACK"}, NoData)

\* sendSegment(): what it does to the socket.  A SYN or FIN takes one sequence
\* number, data takes its length and sets the AWAITING_ACK flag.
SentPlain(s) == [s EXCEPT !.words = 5]
SentSyn(s)   == [s EXCEPT !.words = 6, !.localSeq = @ + 1]
\* (mutants of SentFin and SentData: localSeq does not move)
FinTakesNothing(s) == s
DataTakesNothing(s, data) == [s EXCEPT !.words = 5, !.state = Awaiting(@), !.stash = data]
SentFin(s)   == [s EXCEPT !.localSeq = @ + 1]
SentData(s, data) == [s EXCEPT !.words = 5, !.localSeq = @ + data.len,
                               !.state = Awaiting(@), !.stash = data]

\* reset(): the ACK bit is set only when it acknowledges what we expect next.
Reset(n, s, seq, ack) ==
    Raw(n, s, IF ack = s.remoteSeq THEN {"RST", "ACK"} ELSE {"RST"},
        seq, ack, NoData)

\* forceClose(): a reset unless in TIME_WAIT, then closed().
ForceClosed(n, s) == closed(n, IF s.state = TIME_WAIT THEN s ELSE SentPlain(s))
ForceReset(n, s) ==
    IF s.state = TIME_WAIT THEN {} ELSE {Reset(n, s, s.localSeq, s.remoteSeq)}

\* close() on a socket that is not locally closed yet: after the FIN, the low
\* nibble decides, so RESOLVING goes where ESTABLISHED goes.  No branch
\* applies in SYN_SENT and UNKNOWN_HOST, and the state stays what it is.
AfterClose(s) ==
    LET t == [SentFin(s) EXCEPT !.attempts = 1]
    IN  CASE Low(s.state) = ESTABLISHED -> setState(t, FIN_WAIT_1)
          [] s.state = SYN_RECEIVED     -> setState(t, FIN_WAIT_1)
          [] s.state = CLOSE_WAIT       -> setState(t, LAST_ACK)
          [] OTHER                      -> t

-----------------------------------------------------------------------------
(* The network.  A second copy of a segment in flight is the same element; *)
(* a segment to an address nobody has is gone.                             *)

OnWire(out) == {m \in out : m.dst \in Node}

Step(n, s, out) ==
    /\ sock' = [sock EXCEPT ![n] = s]
    /\ net'  = net \cup OnWire(out)

Handle(n, m, s, out) ==
    /\ sock' = [sock EXCEPT ![n] = s]
    /\ net'  = (IF Duplicates THEN net ELSE net \ {m}) \cup OnWire(out)

Lose(m) ==
    /\ Losses
    /\ net' = net \ {m}
    /\ UNCHANGED sock

Init ==
    /\ sock = [n \in Node |->
         [state      |-> IF isHost(n) THEN LISTEN ELSE CLOSED,
          localPort  |-> IF isHost(n) THEN Port[n] ELSE 0,
          nextPort   |-> FirstPort[n],
          remoteIP   |-> IF n \in Hosts \cup Named THEN NoNode ELSE Server[n],
          remotePort |-> IF isHost(n) THEN 0 ELSE Port[n],
          localSeq   |-> ISS[n],
          remoteSeq  |-> 0,
          remoteWindow |-> 0,
          age        |-> 0,
          attempts   |-> 0,
          connectOnResolution |-> FALSE,
          stash      |-> NoData,
          words      |-> 0,
          sent  |-> 0,      \* history: bytes handed to send() so far
          start |-> 0,      \* history: value of sent when this connection began
          got   |-> <<>>,   \* history: bytes given to the application since then
          opened |-> FALSE]] \* history: the peer has acknowledged our SYN since then
    /\ net = {}

-----------------------------------------------------------------------------
(* Calls of the application.                                               *)

\* The part of connect() after the address is known.
SendSyn(n, s) ==
    LET t == [s EXCEPT !.localPort = s.nextPort, !.nextPort = @ + 1,
                       !.start = s.sent, !.got = <<>>, !.opened = FALSE]
    IN  /\ s.nextPort <= MaxPort
        /\ Step(n, setState([SentSyn(t) EXCEPT !.attempts = 1], SYN_SENT),
                {Seg(n, t, {"SYN"}, NoData)})

\* connect() on a socket built with an address.
Connect(n) ==
    /\ n \notin Hosts \cup Named
    /\ sock[n].state = CLOSED
    /\ SendSyn(n, sock[n])

\* resolveIP() as called by connect() and by checkState(): what the
\* DNSHandler answers decides.  A RESOLVING socket whose name is found goes
\* through CLOSED back into connect(): only connect() starts a lookup, so
\* connectOnResolution is set.
CanResolve(n) == n \in Named /\ sock[n].state \in {RESOLVING, CLOSED, UNKNOWN_HOST}
Found(n) == [sock[n] EXCEPT !.remoteIP = Server[n]]

ResolveError(n) ==
    CanResolve(n) /\ Step(n, setState(sock[n], UNKNOWN_HOST), {})

ResolveFound(n) ==
    /\ CanResolve(n) /\ sock[n].state = RESOLVING /\ sock[n].connectOnResolution
    /\ SendSyn(n, [Found(n) EXCEPT !.connectOnResolution = FALSE])

\* connect() on a socket built with a name.  In UNKNOWN_HOST the address is
\* stored, but the state is not CLOSED and connect() returns false.
ConnectByName(n) ==
    \/ ResolveError(n)
    \/ ResolveFound(n)
    \/ /\ CanResolve(n)
       /\ Step(n, [setState(sock[n], RESOLVING) EXCEPT !.connectOnResolution = TRUE], {})
    \/ CanResolve(n) /\ sock[n].state = CLOSED /\ SendSyn(n, Found(n))
    \/ CanResolve(n) /\ sock[n].state = UNKNOWN_HOST /\ Step(n, Found(n), {})

\* send(length): copy to the stash, then one segment.
AfterSend(s, data) == [SentData(s, data) EXCEPT !.attempts = 1, !.age = 0,
                                                !.sent = @ + data.len]

Send(n, len) ==
    LET s == sock[n]
        data == [first |-> s.sent + 1, len |-> len]
    IN  /\ s.sent + len <= MaxBytes[n]
        /\ readyToSend(s)
        /\ len <= MaxPayload(s)
        /\ Step(n, AfterSend(s, data), {Seg(n, s, {"ACK"}, data)})

Close(n) ==
    LET s == sock[n] IN
    /\ ~localClosed(s)
    /\ s.localSeq < MaxSeq[n]
    /\ Step(n, AfterClose(s), {Fin(n, s)})

\* forceClose() looks at no state but TIME_WAIT: HTTPClient calls it once more on
\* a socket that is CLOSED.  (In LISTEN it is of no use to an application.)
ForceClose(n) ==
    LET s == sock[n] IN
    /\ n \in Aborts
    /\ s.state # LISTEN
    /\ Step(n, ForceClosed(n, s), ForceReset(n, s))

-----------------------------------------------------------------------------
(* checkState(), called once a second by the TCPHandler's timer.           *)

TimedOut(n, s) == Timeout[n] > 0 /\ s.age > Timeout[n]

Active(n) == sock[n].state \notin {CLOSED, LISTEN}

\* (mutant of CheckTimeout: a socket that is closed locally is left alone)
OnlyCloses(n) ==
    /\ Active(n) /\ TimedOut(n, sock[n]) /\ ~localClosed(sock[n])
    /\ sock[n].localSeq < MaxSeq[n]
    /\ Step(n, AfterClose(sock[n]), {Fin(n, sock[n])})

\* The socket timeout: close() first, forceClose() if closed locally already.
CheckTimeout(n) ==
    LET s == sock[n] IN
    /\ Active(n) /\ TimedOut(n, s)
    /\ IF localClosed(s)
       THEN Step(n, ForceClosed(n, s), ForceReset(n, s))
       ELSE /\ s.state \in {SYN_SENT, UNKNOWN_HOST} => s.localSeq < MaxSeq[n]
            /\ Step(n, AfterClose(s), {Fin(n, s)})

CheckResolving(n) ==
    /\ ~TimedOut(n, sock[n]) /\ sock[n].state = RESOLVING
    /\ \/ ResolveError(n)
       \/ ResolveFound(n)
       \/ Step(n, setState(sock[n], RESOLVING), {})

\* The states in which checkState() sends the last segment again.
Retries(s) == s.state \in {SYN_SENT, SYN_RECEIVED, FIN_WAIT_1, CLOSING,
                           Awaiting(ESTABLISHED)}

Due(n) ==
    LET s == sock[n] IN
    ~TimedOut(n, s) /\ Retries(s) /\ s.age >= AckWait

\* Rewind localSeq over what was sent last, and send it again.
CheckRetry(n) ==
    LET s == sock[n]
        t == [s EXCEPT !.attempts = @ + 1,
                       !.localSeq = @ - (IF IsAwaiting(s.state)
                                         THEN s.stash.len ELSE 1)]
    IN  /\ Due(n) /\ s.attempts <= MaxAttempts
        /\ \/ /\ s.state = SYN_SENT
              /\ Step(n, SentSyn(t), {Seg(n, t, {"SYN"}, NoData)})
           \/ /\ s.state = SYN_RECEIVED
              /\ Step(n, SentSyn(t), {Seg(n, t, {"SYN", "ACK"}, NoData)})
           \/ /\ s.state \in {FIN_WAIT_1, CLOSING}
              /\ Step(n, SentFin(t), {Fin(n, t)})
           \/ /\ IsAwaiting(s.state)
              /\ Step(n, SentData(t, s.stash), {Seg(n, t, {"ACK"}, s.stash)})

\* (mutant of CheckGiveUp: the reset is sent, closed() is not called)
GivesUpOpen(n) ==
    /\ Due(n) /\ sock[n].attempts > MaxAttempts
    /\ Step(n, SentPlain(sock[n]), ForceReset(n, sock[n]))

CheckGiveUp(n) ==
    LET s == [sock[n] EXCEPT !.attempts = @ + 1] IN
    /\ Due(n) /\ sock[n].attempts > MaxAttempts
    /\ Step(n, ForceClosed(n, s), ForceReset(n, s))

CheckTimeWait(n) ==
    LET s == sock[n] IN
    /\ ~TimedOut(n, s) /\ s.state = TIME_WAIT
    /\ s.age >= AckWait /\ s.age >= TimeWait
    /\ Step(n, closed(n, s), {})

checkState(n) ==
    \/ CheckTimeout(n)
    \/ CheckResolving(n)
    \/ CheckRetry(n)
    \/ CheckGiveUp(n)
    \/ CheckTimeWait(n)

\* host_millis() moves on for everybody.
Elapse ==
    /\ \E n \in Node : Active(n) /\ sock[n].age < MaxAge
    /\ sock' = [n \in Node |->
                  [sock[n] EXCEPT !.age = IF Active(n) /\ @ < MaxAge
                                          THEN @ + 1 ELSE @]]
    /\ UNCHANGED net

-----------------------------------------------------------------------------
(* TCPHandler::handlePacket() and Socket::handleSegment().                 *)

\* Socket::equals(), both of them, in the order handlePacket() tries them.
MatchesConnection(n, m) ==
    LET s == sock[n] IN
    /\ s.state \notin {LISTEN, CLOSED}
    /\ m.src = s.remoteIP /\ m.sport = s.remotePort /\ m.dport = s.localPort
MatchesListen(n, m) ==
    /\ isHost(n) /\ sock[n].state = LISTEN
    /\ m.dport = Port[n]

PureSyn(m) == m.ctl = {"SYN"}

\* The checksum covers the addresses, and the socket computes it with its own
\* remoteIP, which only a SYN to a listening socket replaces.
ChecksumOK(n, m) ==
    m.src = sock[n].remoteIP \/ (sock[n].state = LISTEN /\ PureSyn(m))

Delivered(n, m) ==
    /\ m \in net /\ m.dst = n
    /\ MatchesConnection(n, m) \/ MatchesListen(n, m)
    /\ ChecksumOK(n, m)

\* A segment for no socket, or one whose checksum does not add up (the window
\* it may have stored in a listening socket is overwritten by the next SYN).
Discard(n, m) ==
    /\ m \in net /\ m.dst = n /\ ~Delivered(n, m)
    /\ ~Duplicates
    /\ net' = net \ {m}
    /\ UNCHANGED sock

\* Every delivered segment updates the window first.
Rcvd(n) == [sock[n] EXCEPT !.remoteWindow = StashSize]

HasAck(m)  == "ACK" \in m.ctl
HasFin(m)  == "FIN" \in m.ctl
HasRst(m)  == "RST" \in m.ctl
HasSyn(m)  == "SYN" \in m.ctl

AcksUnsent(s, m) == HasAck(m) /\ m.ack > s.localSeq

\* Case 1 of RFC 793: nothing but a SYN or RST makes sense in LISTEN.
BadForListen(s, m) == s.state = LISTEN /\ ~HasSyn(m) /\ ~HasRst(m)
\* Case 2: an unsynchronized socket gets an ACK of something never sent.
BadForHandshake(s, m) ==
    s.state \in {LISTEN, SYN_SENT, SYN_RECEIVED} /\ AcksUnsent(s, m)
\* Case 3: in a synchronized state, an unacceptable ACK or a gap.  The state
\* is compared with its flags, so a socket awaiting an ACK is not covered.
Unacceptable(s, m) ==
    /\ s.state \in {ESTABLISHED, FIN_WAIT_1, FIN_WAIT_2, CLOSE_WAIT, CLOSING,
                    LAST_ACK, TIME_WAIT}
    /\ AcksUnsent(s, m) \/ m.seq > s.remoteSeq

Acceptable(n, m) ==
    /\ Delivered(n, m)
    /\ ~BadForListen(Rcvd(n), m) /\ ~BadForHandshake(Rcvd(n), m)
    /\ ~Unacceptable(Rcvd(n), m)

Size(m) == m.words * 4 + m.data.len     \* buf->size() counts the TCP header

RecvBad(n, m) ==
    LET s == Rcvd(n) IN
    /\ Delivered(n, m)
    /\ BadForListen(s, m) \/ BadForHandshake(s, m)
    /\ Handle(n, m, SentPlain(s), {IF HasAck(m)
                                   THEN Reset(n, s, m.ack, 0)
                                   ELSE Reset(n, s, 0, m.seq + Size(m))})

RecvUnacceptable(n, m) ==
    LET s == Rcvd(n) IN
    /\ Delivered(n, m) /\ Unacceptable(s, m)
    /\ Handle(n, m, SentPlain(s), {Ack(n, s)})

RecvRst(n, m) ==
    LET s == Rcvd(n)
        ofSyn == s.state = SYN_SENT /\ m.ack = s.localSeq
        inSeq == s.remoteSeq = m.seq /\ s.state # LISTEN
    IN  /\ Acceptable(n, m) /\ HasRst(m)
        /\ Handle(n, m, IF ofSyn \/ inSeq THEN closed(n, s) ELSE s, {})

\* A connection request to a listening socket.
RecvSynListen(n, m) ==
    LET s == [Rcvd(n) EXCEPT !.remoteIP = m.src, !.remotePort = m.sport,
                             !.remoteSeq = m.seq + 1,
                             !.start = sock[n].sent, !.got = <<>>, !.opened = FALSE]
    IN  /\ Acceptable(n, m) /\ s.state = LISTEN /\ PureSyn(m)
        /\ s.localSeq < MaxSeq[n]
        /\ Handle(n, m, [setState(SentSyn(s), SYN_RECEIVED) EXCEPT !.attempts = 1],
                  {Seg(n, s, {"SYN", "ACK"}, NoData)})

\* Both sides connect at once.
RecvSynSent(n, m) ==
    LET s == [Rcvd(n) EXCEPT !.remoteSeq = m.seq + 1]
    IN  /\ Acceptable(n, m) /\ s.state = SYN_SENT /\ PureSyn(m)
        /\ Handle(n, m, setState(SentPlain(s), SYN_RECEIVED), {Ack(n, s)})

AcksSyn(s, m) == s.state = SYN_SENT /\ m.ctl = {"SYN", "ACK"} /\ m.ack = s.localSeq

RecvSynAck(n, m) ==
    LET s == [Rcvd(n) EXCEPT !.remoteSeq = m.seq + 1, !.opened = TRUE]
    IN  /\ Acceptable(n, m) /\ AcksSyn(s, m)
        /\ Handle(n, m, setState(SentPlain(s), ESTABLISHED), {Ack(n, s)})

\* The established block of handleSegment().  It is entered on the low nibble.
InEstablished(n, m) ==
    /\ Acceptable(n, m) /\ ~HasRst(m)
    /\ Low(sock[n].state) = ESTABLISHED

RecvNoAck(n, m) ==
    /\ InEstablished(n, m) /\ ~HasAck(m)
    /\ Handle(n, m, Rcvd(n), {})

RecvOutOfOrder(n, m) ==
    /\ InEstablished(n, m) /\ HasAck(m)
    /\ m.seq # sock[n].remoteSeq
    /\ Handle(n, m, SentPlain(Rcvd(n)), {Ack(n, Rcvd(n))})

\* (mutant of ClearAck: any acknowledgement will do)
ClearOnAnyAck(s, m, t) == IF IsAwaiting(s.state) THEN [t EXCEPT !.state = Low(@)] ELSE t

\* The AWAITING_ACK flag is cleared last, if the segment acknowledged
\* everything before any callback ran.
ClearAck(s, m, t) ==
    IF m.ack = s.localSeq /\ IsAwaiting(s.state)
    THEN [t EXCEPT !.state = Low(@)] ELSE t

\* (mutant of InOrder: the sequence number is not looked at)
InAnyOrder(n, m) == InEstablished(n, m) /\ HasAck(m)
InOrder(n, m) == InEstablished(n, m) /\ HasAck(m) /\ m.seq = sock[n].remoteSeq

\* Neither data nor FIN: at most the flag is cleared.
RecvAck(n, m) ==
    LET s == Rcvd(n) IN
    /\ InOrder(n, m) /\ m.data.len = 0 /\ ~HasFin(m)
    /\ Handle(n, m, ClearAck(s, m, s), {})

\* The state a FIN leads to from inside the established block.  FIN_WAIT_1
\* is possible only if onDataReceived() has called close().
AfterFin(s, m) ==
    CASE s.state = FIN_WAIT_1 ->
            setState(s, IF m.ack = s.localSeq THEN TIME_WAIT ELSE CLOSING)
      [] Low(s.state) = ESTABLISHED -> setState(s, CLOSE_WAIT)
      [] OTHER -> s

\* A FIN whose header claims six words is taken for one with a payload that
\* turns out to be empty: remoteSeq and the answer are the same.
RecvFin(n, m) ==
    LET s == Rcvd(n)
        t == [s EXCEPT !.remoteSeq = @ + 1]
    IN  /\ InOrder(n, m) /\ m.data.len = 0 /\ HasFin(m)
        /\ Handle(n, m, ClearAck(s, m, AfterFin(SentPlain(t), m)), {Ack(n, t)})

Bytes(data) == [i \in 1 .. data.len |-> data.first + i - 1]

\* What onDataReceived() may do to the socket it is called on: nothing, close,
\* send an answer, or both (SMTPClient sends QUIT and closes).
Reply(n, s, react, len) ==
    LET u == AfterSend(s, [first |-> s.sent + 1, len |-> len])
    IN  CASE react = "send"  -> u
          [] react = "close" -> AfterClose(s)
          [] react = "both"  -> AfterClose(u)
          [] OTHER           -> s
ReplySegs(n, s, react, len) ==
    LET data == [first |-> s.sent + 1, len |-> len]
        answer == Seg(n, s, {"ACK"}, data)
    IN  CASE react = "send"  -> {answer}
          [] react = "close" -> {Fin(n, s)}
          [] react = "both"  -> {answer, Fin(n, AfterSend(s, data))}
          [] OTHER           -> {}
CanReply(n, s, react, len) ==
    \/ react = "none" /\ len = 0
    \/ react = "close" /\ len = 0 /\ s.localSeq < MaxSeq[n]
    \/ /\ react \in {"send", "both"} /\ readyToSend(s) /\ len \in 1 .. MaxPayload(s)
       /\ s.sent + len <= MaxBytes[n]
       /\ react = "both" => s.localSeq + len < MaxSeq[n]

\* Data, perhaps with a FIN.  A FIN moves remoteSeq by one before the
\* application sees the data; taking the data then sets remoteSeq afresh.
BeforeData(n, m) == IF HasFin(m) THEN [Rcvd(n) EXCEPT !.remoteSeq = @ + 1] ELSE Rcvd(n)

\* r and segs are the socket and what it has sent when onDataReceived() returns.
TakeData(n, m, accept, r, segs) ==
    LET t == IF accept
             THEN [r EXCEPT !.remoteSeq = m.seq + m.data.len, !.age = 0,
                            !.got = @ \o Bytes(m.data)]
             ELSE r
        f == IF HasFin(m) THEN AfterFin(SentPlain(t), m) ELSE SentPlain(t)
    IN  /\ InOrder(n, m) /\ m.data.len > 0
        /\ Handle(n, m, ClearAck(Rcvd(n), m, f), segs \cup {Ack(n, t)})

RecvData(n, m, accept, react, len) ==
    LET u == BeforeData(n, m)
    IN  /\ accept \/ Refuses
        /\ CanReply(n, u, react, len)
        /\ TakeData(n, m, accept, Reply(n, u, react, len), ReplySegs(n, u, react, len))

\* Past the established block: an ACK of everything we sent moves the
\* handshake or the teardown on; anything else closes the connection.
PastEstablished(n, m) ==
    LET s == Rcvd(n) IN
    /\ Acceptable(n, m) /\ ~HasRst(m)
    /\ Low(s.state) # ESTABLISHED
    /\ ~(PureSyn(m) /\ s.state \in {LISTEN, SYN_SENT})
    /\ ~AcksSyn(s, m)

\* (mutant of AfterAck: the acknowledgement of our FIN is taken for the peer's FIN)
AckEndsFinWait(n, s) ==
    CASE s.state = SYN_RECEIVED -> setState(s, ESTABLISHED)
      [] s.state \in {FIN_WAIT_1, CLOSING} -> setState(s, TIME_WAIT)
      [] s.state = LAST_ACK     -> closed(n, s)
      [] OTHER                  -> s
AfterAck(n, s) ==
    CASE s.state = SYN_RECEIVED -> setState(s, ESTABLISHED)
      [] s.state = FIN_WAIT_1   -> setState(s, FIN_WAIT_2)
      [] s.state = CLOSING      -> setState(s, TIME_WAIT)
      [] s.state = LAST_ACK     -> closed(n, s)
      [] OTHER                  -> s

\* (mutant of RecvAckOfAll: what is acknowledged is not looked at)
RecvAnyAck(n, m) ==
    /\ PastEstablished(n, m) /\ HasAck(m)
    /\ Handle(n, m, [AfterAck(n, Rcvd(n)) EXCEPT !.opened = TRUE], {})

RecvAckOfAll(n, m) ==
    LET s == Rcvd(n) IN
    /\ PastEstablished(n, m) /\ HasAck(m) /\ m.ack = s.localSeq
    /\ Handle(n, m, [AfterAck(n, s) EXCEPT !.opened = TRUE], {})

RecvLastResort(n, m) ==
    LET s == Rcvd(n) IN
    /\ PastEstablished(n, m) /\ ~(HasAck(m) /\ m.ack = s.localSeq)
    /\ Handle(n, m, ForceClosed(n, s), ForceReset(n, s))

handleSegment(n, m) ==
    \/ RecvBad(n, m)
    \/ RecvUnacceptable(n, m)
    \/ RecvRst(n, m)
    \/ RecvSynListen(n, m)
    \/ RecvSynSent(n, m)
    \/ RecvSynAck(n, m)
    \/ RecvNoAck(n, m)
    \/ RecvOutOfOrder(n, m)
    \/ RecvAck(n, m)
    \/ RecvFin(n, m)
    \/ \E accept \in BOOLEAN, react \in {"none", "send", "close", "both"},
          len \in 0 .. StashSize : RecvData(n, m, accept, react, len)
    \/ RecvAckOfAll(n, m)
    \/ RecvLastResort(n, m)

-----------------------------------------------------------------------------

Application(n) ==
    \/ Connect(n)
    \/ ConnectByName(n)
    \/ \E len \in 1 .. StashSize : Send(n, len)
    \/ Close(n)
    \/ ForceClose(n)

Network ==
    \E m \in net : Discard(m.dst, m) \/ Lose(m)

Next ==
    \/ \E n \in Node : Application(n) \/ checkState(n)
    \/ \E m \in net : handleSegment(m.dst, m)
    \/ Network
    \/ Elapse

Spec == Init /\ [][Next]_vars

Receive(n) == \E m \in net : m.dst = n /\ (handleSegment(n, m) \/ Discard(n, m))

\* loop() calls processFrame() for ever, which runs the timer that calls
\* checkState(), and time passes.  Nothing is assumed of the applications or of
\* the network.
TimerFairSpec ==
    /\ Spec
    /\ WF_vars(Elapse)
    /\ \A n \in Node : WF_vars(checkState(n))

\* It also hands on every frame that has arrived.
FairSpec == TimerFairSpec /\ \A n \in Node : WF_vars(Receive(n))

-----------------------------------------------------------------------------
(* Properties.                                                             *)

Socket_ == [state : State, localPort : Nat, nextPort : Nat,
            remoteIP : Node \cup {NoNode}, remotePort : Nat, localSeq : Nat,
            remoteSeq : Nat, remoteWindow : Nat, age : Nat, attempts : Nat,
            connectOnResolution : BOOLEAN, stash : Data, words : 0 .. 6,
            sent : Nat, start : Nat, got : Seq(Nat), opened : BOOLEAN]

\* Every field keeps its type; in particular the state byte never leaves the
\* thirteen values of Socket.h and ESTABLISHED | AWAITING_ACK.
TypeOK ==
    /\ sock \in [Node -> Socket_]
    /\ net \subseteq Segment

Synchronized(s) == s.state \in {ESTABLISHED, Awaiting(ESTABLISHED), FIN_WAIT_1,
                                FIN_WAIT_2, CLOSE_WAIT, CLOSING, LAST_ACK, TIME_WAIT}

\* a and b are the two ends of one connection, and the handshake is over for
\* both.  (A replayed SYN can put a host that gave up a connection into
\* SYN_RECEIVED, and its close() then into FIN_WAIT_1, without the client.)
Connected(a, b) ==
    LET s == sock[a] t == sock[b] IN
    /\ s.remoteIP = b /\ t.remoteIP = a
    /\ s.localPort = t.remotePort /\ s.remotePort = t.localPort
    /\ Synchronized(s) /\ Synchronized(t) /\ s.opened /\ t.opened

Sent(a) == sock[a].sent - sock[a].start

\* Whatever the network loses, repeats or reorders, what one application has
\* been given is a prefix of what the other has sent (seq # remoteSeq and
\* remoteSeq = seq + payloadSize in handleSegment, localSeq in resendData).
DataInOrder ==
    \A a, b \in Node : Connected(a, b) =>
        /\ Len(sock[b].got) <= Sent(a)
        /\ \A i \in 1 .. Len(sock[b].got) : sock[b].got[i] = sock[a].start + i

\* A socket that is ready to send again has had all its data delivered, and
\* one that waits for an ACK has at most the stash outstanding: the stash may
\* be overwritten by the next send().
AckedIsDelivered ==
    \A a, b \in Node : Connected(a, b) =>
        /\ sock[a].state = ESTABLISHED => Len(sock[b].got) = Sent(a)
        /\ IsAwaiting(sock[a].state) =>
               Len(sock[b].got) \in {Sent(a), Sent(a) - sock[a].stash.len}

\* Nobody expects a byte or a flag the other end has not sent.
AckNeverAhead ==
    \A a, b \in Node : Connected(a, b) => sock[b].remoteSeq <= sock[a].localSeq

\* A host completes a handshake only with a client that has taken its SYN|ACK:
\* an old SYN or a replayed ACK never opens a connection on its own.
HandshakeAgreed ==
    \A a, b \in Node :
        /\ isHost(b) /\ ~isHost(a)
        /\ Synchronized(sock[b]) /\ sock[b].opened
        /\ sock[b].remoteIP = a /\ sock[b].remotePort = sock[a].localPort
        => sock[a].state # SYN_SENT

\* The FIN of one end is counted by the other: in FIN_WAIT_2 the peer has
\* left ESTABLISHED, and a peer in CLOSE_WAIT or LAST_ACK expects nothing more.
FinCounted ==
    \A a, b \in Node : Connected(a, b) =>
        /\ sock[a].state = FIN_WAIT_2 => sock[b].state \in {CLOSE_WAIT, LAST_ACK}
        /\ sock[a].state \in {FIN_WAIT_1, FIN_WAIT_2} /\ sock[b].state \in {CLOSE_WAIT, LAST_ACK}
              => sock[b].remoteSeq = sock[a].localSeq

\* A sequence number stands for the same byte in every copy of a segment, old
\* or new: send() and resendData() never put other data at a number in use.
SameBytes ==
    \A l, m \in net :
        l.src = m.src /\ l.data.len > 0 /\ m.data.len > 0 /\ l.seq = m.seq
            => l.data = m.data

\* What checkState() takes off localSeq to send again is what sendSegment()
\* puts back: no step of any operation gives a sequence number back.
SeqNeverBack ==
    [][\A n \in Node : sock'[n].localSeq >= sock[n].localSeq]_vars

\* The states with a retransmission end: an answer comes, or after ten attempts
\* checkState() gives up; TIME_WAIT ends by itself.
RetriesEnd ==
    \A n \in Node : (Retries(sock[n]) \/ sock[n].state = TIME_WAIT)
        ~> ~(Retries(sock[n]) \/ sock[n].state = TIME_WAIT)

\* With a timeout set, a host always gets back to listening, whatever its
\* client does and whatever is lost.
HostListensAgain ==
    \A n \in Hosts : Timeout[n] > 0 => (Active(n) ~> sock[n].state = LISTEN)

-----------------------------------------------------------------------------
(* What the comments of the source say and the code does not do.           *)

\* TCPHandler.cpp:41-42: TIME_WAIT once both sides have closed.
BothClosedEnds ==
    \A a, b \in Node :
        (Connected(a, b) /\ sock[a].state = FIN_WAIT_2 /\ sock[b].state = LAST_ACK)
            ~> sock[a].state \in {TIME_WAIT, LISTEN, CLOSED}

=============================================================================
