---------------------------- MODULE ClientsProofs ---------------------------
(***************************************************************************)
(* Theorems about the clients: that Clients is an application of Socket,    *)
(* for any number of clients and servers, so that all that StreamProofs     *)
(* says of Socket is so of it; that what an SMTPClient reports as sent the  *)
(* server has taken (SentMeansAccepted); and, of Base64, for texts of any   *)
(* length, LengthsRight, SpoilsItsThree, EncodesAscii and RoundTrip.        *)
(***************************************************************************)
EXTENDS StreamProofs, Clients, Base64

-----------------------------------------------------------------------------
(* The dialogue, in the stream of bytes.                                   *)

Call == {"established", "readyToSend", "close", "remoteClosed", "reset", "closed"}
App  == [kind : {"SMTP", "HTTP"}, todo : Seq(Call),
         status : {"init", "sending", "sent", "fail"},
         protocolState : 0 .. QUIT, sendInProgress : BOOLEAN]

Pending(a, call) == a.todo # <<>> /\ Head(a.todo) = call

\* onEstablished() is the first of the calls that are due, and a line is
\* noted for every byte that was handed to send().
Later(calls) == calls \in Seq(Call) /\ \A i \in 1 .. Len(calls) : calls[i] # "established"
Planned(calls) == calls \in Seq(Call) /\ \A i \in 2 .. Len(calls) : calls[i] # "established"
AppOK == app \in [Client -> App] /\ \A c \in Client : Planned(app[c].todo)

Codes == {"200", "220", "221", "500"} \cup {Awaited[p] : p \in DOMAIN Awaited}
Lines == (0 .. QUIT) \cup Codes
LinesNoted == said \in [Node -> Seq(Lines)] /\ \A n \in Node : Len(said[n]) = sock[n].sent

\* c is in a dialogue: it may send, and be given lines.
Up(c) == c \in Client /\ isSMTP(c) /\ sock[c].state \in {4, 244}

\* The i-th line that n has sent in its connection.
Line(n, i) == said[n][sock[n].start + i]

\* A client sends each line in a protocolState of its own, and so its i-th in 2i-1
\* at least; and it goes on only after an answer to each.
Talk(c) ==
    LET s == sock[c]
        a == app[c]
    IN  /\ \A i \in 1 .. Sent(c) : Line(c, i) \in 2 * i - 1 .. QUIT /\ Ready(Line(c, i))
        /\ Pending(a, "established") => Sent(c) = 0 /\ s.got = <<>>
        /\ ~Pending(a, "established") =>
              /\ a.protocolState <= 2 * Len(s.got)
              /\ Pending(a, "close") \/ 2 * Sent(c) <= a.protocolState

\* The mail of the connection that c has.
Mail(c) == <<c, sock[c].localPort>>

\* The ninth answer is to the eighth line, MESSAGE at the earliest: from there on
\* a "250" is for a mail that has been taken; ...
Answered(c, h) ==
    Up(c) /\ Tied(c, h) /\ sock[h].opened =>
        \A i \in 9 .. Sent(h) : Line(h, i) = "250" => Mail(c) \in taken

\* ... and where it is in flight, however late, it has its place in the stream.
InFlight(c) ==
    Up(c) => \A m \in net :
        /\ FromPeer(c, m) /\ ~HasRst(m) /\ m.data.len > 0
        /\ m.seq >= sock[c].remoteSeq - Len(sock[c].got) + 8
        /\ said[m.src][m.data.first] = "250"
        => Mail(c) \in taken

\* Data in flight has been noted, and none is for a connection to come.
DataNoted ==
    \A m \in net : ~HasRst(m) /\ m.data.len > 0 =>
        /\ m.data.first \in 1 .. sock[m.src].sent
        /\ m.dst \in Client =>
              /\ m.dport < sock[m.dst].nextPort
              /\ sock[m.dst].state = SYN_SENT => m.dport # sock[m.dst].localPort

LInv ==
    /\ AppOK /\ LinesNoted /\ DataNoted
    /\ \A c \in Client : Up(c) => Talk(c)
    /\ \A c \in Client, h \in Hosts : Answered(c, h)
    /\ \A c \in Client : InFlight(c)
    /\ SentMeansAccepted

-----------------------------------------------------------------------------
(* Every step is one of Socket.                                            *)

LEMMA SendLineIsStep ==
  ASSUME NEW n \in Node, NEW line, NEW fits, SendLine(n, line, fits)
  PROVE  [Next]_vars
<1>1. 1 \in 1 .. StashSize
  BY NumberAssumption
<1>2. Send(n, 1) \/ UNCHANGED vars
  BY DEF SendLine
<1>3. QED
  BY <1>1, <1>2 DEF Next, Application

LEMMA CallBackIsStep ==
  ASSUME NEW n \in Node, CallBack(n)
  PROVE  [Next]_vars
<1>1. ASSUME NEW fits \in BOOLEAN, OnEstablished(n, fits)
      PROVE  [Next]_vars
  BY <1>1, SendLineIsStep DEF OnEstablished
<1>2. ASSUME NEW fits \in BOOLEAN, OnReadyToSend(n, fits)
      PROVE  [Next]_vars
  BY <1>2, SendLineIsStep DEF OnReadyToSend
<1>3. ASSUME NEW call, OnClose(n, call)
      PROVE  [Next]_vars
  BY <1>3 DEF OnClose, Next, Application
<1>4. CASE OnReset(n)
  BY <1>4 DEF OnReset
<1>5. CASE OnClosed(n)
  BY <1>5 DEF OnClosed, Next, Application
<1>6. QED
  BY <1>1, <1>2, <1>3, <1>4, <1>5 DEF CallBack

LEMMA DataIsStep ==
  ASSUME NEW m \in net, NEW react \in {"none", "send", "close", "both"}, NEW len \in {0, 1},
         RecvData(m.dst, m, TRUE, react, len)
  PROVE  [Next]_vars
<1>1. len \in 0 .. StashSize
  BY NumberAssumption
<1>2. handleSegment(m.dst, m)
  BY <1>1 DEF handleSegment
<1>3. QED
  BY <1>2 DEF Next

LEMMA HeardIsStep ==
  ASSUME NEW m \in net,
         \/ Receives(m.dst, m)
         \/ \E fits \in BOOLEAN : RecvLine(m.dst, m, fits)
         \/ RecvAnswer(m.dst, m)
         \/ HostReceives(m.dst, m)
  PROVE  [Next]_vars
<1>1. CASE Receives(m.dst, m)
  <2>1. handleSegment(m.dst, m)
    BY <1>1 DEF Receives, handleSegment
  <2>2. QED
    BY <2>1 DEF Next
<1>2. ASSUME NEW fits \in BOOLEAN, RecvLine(m.dst, m, fits)
      PROVE  [Next]_vars
  <2>1. \E react \in {"none", "send", "close", "both"}, len \in {0, 1} :
            RecvData(m.dst, m, TRUE, react, len)
    BY <1>2, Zenon DEF RecvLine
  <2>2. QED
    BY <2>1, DataIsStep
<1>3. CASE RecvAnswer(m.dst, m)
  <2>1. RecvData(m.dst, m, TRUE, "none", 0)
    BY <1>3 DEF RecvAnswer
  <2>2. QED
    BY <2>1, DataIsStep
<1>4. CASE HostReceives(m.dst, m)
  <2>1. RecvData(m.dst, m, TRUE, "none", 0) \/ handleSegment(m.dst, m)
    BY <1>4 DEF HostReceives
  <2>2. QED
    BY <2>1, DataIsStep DEF Next
<1>5. QED
  BY <1>1, <1>2, <1>3, <1>4

LEMMA StepIsStep ==
  ASSUME [ClientsNext]_cvars
  PROVE  [Next]_vars
<1>1. Client \subseteq Node /\ Hosts \subseteq Node
  BY NodeAssumption DEF Client
<1>2. ASSUME NEW n \in Client, Begin(n) \/ Timer(n) \/ CallBack(n)
      PROVE  [Next]_vars
  <2>1. Connect(n) \/ ConnectByName(n) \/ checkState(n) \/ CallBack(n)
    BY <1>2 DEF Begin, Timer
  <2>2. QED
    BY <1>1, <2>1, CallBackIsStep DEF Next, Application
<1>3. ASSUME NEW h \in Hosts, HostActs(h) \/ \E code : Answer(h, code)
      PROVE  [Next]_vars
  <2>1. 1 \in 1 .. StashSize
    BY NumberAssumption
  <2>2. Close(h) \/ ForceClose(h) \/ checkState(h) \/ Send(h, 1)
    BY <1>3 DEF HostActs, Answer
  <2>3. QED
    BY <1>1, <2>1, <2>2 DEF Next, Application
<1>4. CASE Network \/ Elapse
  BY <1>4 DEF Next
<1>5. CASE UNCHANGED cvars
  BY <1>5 DEF cvars
<1>6. QED
  BY <1>2, <1>3, <1>4, <1>5, HeardIsStep DEF ClientsNext

\* Whatever the clients and their servers do is something that Socket allows: each
\* call of Socket by a callback is made with arguments that Socket takes, and what
\* every theorem says of Socket is so of the clients.
THEOREM ClientsAreSockets == ClientsSpec => Spec
<1>1. ClientsInit => Init
  BY DEF ClientsInit
<1>2. [ClientsNext]_cvars => [Next]_vars
  BY StepIsStep
<1>3. QED
  BY <1>1, <1>2, PTL DEF ClientsSpec, Spec

-----------------------------------------------------------------------------
(* What a step of Socket does, as the clients see it.                      *)

LEMMA CKind ==
  ASSUME CInv, [Next]_vars
  PROVE  Passes \/ \E n, t, out : Becomes(n, t, out) /\ Kind(n, t, out)
<1>1. SInv /\ FlagsAlone
  BY DEF CInv, HInv, BInv
<1>2. QED
  BY <1>1, NextKind DEF Does

LEMMA CFacts ==
  ASSUME CInv
  PROVE  /\ \A n \in Node : /\ sock[n] \in Socket_ /\ sock[n].state \in DevStates(n)
                            /\ Young(n, sock[n])
         /\ \A m \in net : m \in Outgoing /\ m.src \in Node /\ m.dst \in Node
         /\ \A n \in Node \ Hosts : sock[n].remoteIP = Server[n] /\ Server[n] \in Hosts
<1>1. BInv /\ ServersListen /\ Fields
  BY DEF CInv, HInv
<1>2. \A n \in Node \ Hosts : sock[n].remoteIP = Server[n] /\ Server[n] \in Hosts
  BY <1>1 DEF BInv, RemoteBound, ServersListen
<1>3. QED
  BY <1>1, <1>2, BInvTypes DEF Fields

\* A client that may be given lines has its connection still, or just opened it: the
\* stream from the server begins at the same number.
Stays(s, t) ==
    /\ t.localPort = s.localPort /\ t.remoteIP = s.remoteIP /\ t.remotePort = s.remotePort
    /\ t.start = s.start /\ Len(t.got) >= Len(s.got)
    /\ t.remoteSeq - Len(t.got) = s.remoteSeq - Len(s.got)
Opened(s, t) ==
    /\ t.localPort = s.localPort /\ t.remoteIP = s.remoteIP /\ t.remotePort = s.remotePort
    /\ s.state = SYN_SENT /\ t.sent = t.start /\ t.got = <<>>

LEMMA TalksStays ==
  ASSUME CInv, NEW c \in Node \ Hosts, NEW t \in Socket_, Talks(c, t), t.state \in {4, 244}
  PROVE  sock[c].state \in {4, 244} /\ Stays(sock[c], t)
<1> DEFINE s == sock[c]
<1>1. s \in Socket_ /\ s.state \in DevStates(c)
  BY CFacts
<1>2. s.state \in LiveStates /\ s.state # 3
  BY <1>1 DEF Talks, DevStates, LiveStates
<1>3. s.state \notin {5, 6, 9}
  BY DEF Talks, Sender, FinSent
<1>4. /\ s.remoteSeq \in Nat /\ Len(s.got) \in Nat /\ s.got \in Seq(Nat)
      /\ t.remoteSeq \in Nat /\ Len(t.got) \in Nat
  BY <1>1, SockNumbers
<1>5. FinSeen(t) = 0
  BY DEF FinSeen
<1>6. CASE t.remoteSeq = s.remoteSeq /\ t.got = s.got /\ FinSeen(t) = FinSeen(s)
  <2>1. s.state # 7
    BY <1>5, <1>6 DEF FinSeen
  <2>2. QED
    BY <1>2, <1>3, <1>4, <1>6, <2>1 DEF LiveStates, Stays, Talks, Sender
<1>7. ASSUME NEW m \in net, InBlockOrder(c, m), m.data.len > 0,
             t.remoteSeq = m.seq + m.data.len, t.got = s.got \o Bytes(m.data)
      PROVE  s.state \in {4, 244} /\ Stays(s, t)
  <2>1. m.seq = s.remoteSeq /\ s.state \in {4, 20, 244}
    BY <1>7 DEF InBlockOrder
  <2>2. m \in Outgoing
    BY CFacts
  <2>3. m.data \in Data
    BY <2>2 DEF Outgoing
  <2>4. Bytes(m.data) \in Seq(Nat) /\ Len(Bytes(m.data)) = m.data.len /\ m.data.len \in Nat
    BY <2>3, BytesOf
  <2>5. Len(t.got) = Len(s.got) + m.data.len
    <3> DEFINE a == s.got
               b == Bytes(m.data)
    <3>1. a \in Seq(Nat) /\ b \in Seq(Nat) /\ t.got = a \o b
      BY <1>4, <1>7, <2>4
    <3> HIDE DEF a, b
    <3>2. Len(t.got) = Len(a) + Len(b)
      BY <3>1, Appended
    <3> QED
      BY <2>4, <3>2 DEF a, b
  <2>6. s.state \in {4, 244}
    BY <1>2, <2>1 DEF LiveStates
  <2>7. /\ Len(t.got) >= Len(s.got)
        /\ t.remoteSeq - Len(t.got) = s.remoteSeq - Len(s.got)
    <3> DEFINE g == Len(t.got)
               f == Len(s.got)
               r == t.remoteSeq
               e == s.remoteSeq
               d == m.data.len
    <3>1. g \in Nat /\ f \in Nat /\ e \in Nat /\ d \in Nat /\ r = e + d /\ g = f + d
      BY <1>4, <1>7, <2>1, <2>4, <2>5
    <3> HIDE DEF g, f, r, e, d
    <3>2. g >= f /\ r - g = e - f
      BY <3>1
    <3> QED
      BY <3>2 DEF g, f, r, e
  <2>8. QED
    BY <2>6, <2>7 DEF Stays, Talks, Sender
<1>8. \/ t.remoteSeq = s.remoteSeq /\ t.got = s.got /\ FinSeen(t) = FinSeen(s)
      \/ \E m \in net : /\ InBlockOrder(c, m) /\ m.data.len > 0
                        /\ t.remoteSeq = m.seq + m.data.len /\ t.got = s.got \o Bytes(m.data)
  <2>1. Receiver(c, s, t)
    BY DEF Talks
  <2>2. FinSeen(t) # 1
    BY <1>5
  <2> HIDE DEF s
  <2> QED
    BY <2>1, <2>2, Zenon DEF Receiver
<1>9. QED
  BY <1>6, <1>7, <1>8, Zenon

LEMMA ClientStays ==
  ASSUME CInv, [Next]_vars, NEW c \in Node \ Hosts, sock'[c].state \in {4, 244}
  PROVE  \/ sock[c].state \in {4, 244} /\ Stays(sock[c], sock'[c])
         \/ Opened(sock[c], sock'[c])
<1> DEFINE s == sock[c]
<1>1. /\ s \in Socket_ /\ s.state \in DevStates(c) /\ Young(c, s)
      /\ s.remoteSeq \in Nat /\ Len(s.got) \in Nat
  BY CFacts, SockNumbers
<1>2. CASE Passes
  <2>1. Quiet(s, sock'[c]) /\ sock'[c].state = s.state
    BY <1>2 DEF Passes
  <2>2. QED
    BY <1>1, <2>1 DEF Quiet, Same, Stays
<1>3. ASSUME NEW n, NEW t, NEW out, Becomes(n, t, out), Kind(n, t, out)
      PROVE  \/ s.state \in {4, 244} /\ Stays(s, sock'[c])
             \/ Opened(s, sock'[c])
  <2>1. /\ n \in Node /\ t \in Socket_ /\ sock'[n] = t
        /\ \A k \in Node : k # n => sock'[k] = sock[k]
        /\ Moves(n, t, out)
    BY <1>3, OneMoves DEF CInv
  <2>2. CASE c # n
    BY <1>1, <2>1, <2>2 DEF Stays
  <2>3. CASE c = n
    <3>1. ~Rests(n, t) /\ ~Calls(n, t, out) /\ ~Waits(n, t) /\ \A m \in net : ~Accepts(n, m, t, out)
      BY <2>1, <2>3, StateValues DEF Rests, Calls, Waits, Accepts
    <3>2. CASE Goes(n, t, out)
      BY <2>1, <2>3, <3>2, TalksStays DEF Goes
    <3>3. ASSUME NEW m \in net, Joins(n, m, t, out)
          PROVE  Opened(s, t)
      <4>1. s.state = 2
        BY <2>3, <3>3, StateValues DEF Joins
      <4>2. s.sent = s.start /\ s.got = <<>>
        BY <1>1, <4>1 DEF Young
      <4>3. QED
        BY <2>3, <3>3, <4>2 DEF Joins, Opened
    <3>4. QED
      BY <2>1, <2>3, <3>1, <3>2, <3>3 DEF Moves
  <2>4. QED
    BY <2>2, <2>3
<1>4. QED
  BY <1>2, <1>3, CKind

\* The step of a server that has a connection, whose client has answered.
LEMMA HostStays ==
  ASSUME CInv, [Next]_vars, NEW h \in Hosts, sock'[h].state # LISTEN, sock'[h].opened
  PROVE  LET s == sock[h] t == sock'[h] IN
         /\ t.remoteIP = s.remoteIP /\ t.remotePort = s.remotePort /\ t.start = s.start
         /\ s.state # LISTEN
         /\ s.opened \/ t.sent = t.start
<1> DEFINE s == sock[h]
<1>0. h \in Node
  BY NodeAssumption
<1>1. s \in Socket_ /\ s.state \in DevStates(h) /\ Young(h, s)
  BY <1>0, CFacts
<1>2. CASE Passes
  <2>1. Quiet(s, sock'[h]) /\ sock'[h].state = s.state
    BY <1>0, <1>2 DEF Passes
  <2>2. QED
    BY <1>1, <2>1 DEF Quiet, Same
<1>3. ASSUME NEW n, NEW t, NEW out, Becomes(n, t, out), Kind(n, t, out)
      PROVE  /\ sock'[h].remoteIP = s.remoteIP /\ sock'[h].remotePort = s.remotePort
             /\ sock'[h].start = s.start
             /\ s.state # LISTEN
             /\ s.opened \/ sock'[h].sent = sock'[h].start
  <2>1. /\ n \in Node /\ t \in Socket_ /\ sock'[n] = t
        /\ \A k \in Node : k # n => sock'[k] = sock[k]
        /\ Moves(n, t, out)
    BY <1>3, OneMoves DEF CInv
  <2>2. CASE h # n
    <3>1. sock'[h] = s
      BY <1>0, <2>1, <2>2
    <3>2. QED
      BY <1>1, <3>1
  <2>3. CASE h = n
    <3>1. /\ ~Rests(n, t) /\ ~Calls(n, t, out) /\ \A m \in net : ~Accepts(n, m, t, out)
      BY <2>1, <2>3 DEF Rests, Calls, Accepts
    <3>2. s.state # 2
      BY <1>1 DEF DevStates, LiveStates
    <3>3. ~Waits(n, t) /\ \A m \in net : ~Joins(n, m, t, out)
      BY <2>3, <3>2, StateValues DEF Waits, Joins
    <3>4. Talks(n, t)
      BY <2>1, <3>1, <3>3 DEF Moves, Goes
    <3>5. /\ t.remoteIP = s.remoteIP /\ t.remotePort = s.remotePort /\ t.start = s.start
          /\ s.state \in LiveStates /\ (t.sent = s.sent \/ s.state = 4)
      BY <2>3, <3>4 DEF Talks, Sender
    <3>6. s.state # 1
      BY <3>5 DEF LiveStates
    <3>7. ASSUME ~s.opened
          PROVE  t.sent = t.start
      BY <1>1, <3>5, <3>6, <3>7 DEF Young
    <3>8. QED
      BY <2>1, <2>3, <3>5, <3>6, <3>7, StateValues
  <2>4. QED
    BY <2>2, <2>3
<1>4. QED
  BY <1>2, <1>3, CKind

\* A segment with data comes from a connection, ...
LEMMA DataState ==
  ASSUME NEW n, NEW t, NEW out, Kind(n, t, out), NEW m \in out, ~HasRst(m), m.data.len > 0
  PROVE  t.state \notin {LISTEN, CLOSED, SYN_SENT}
<1>1. NoData.len = 0
  BY NoDataType
<1>2. ~Leaves(n, t, out) /\ ~Answers(n, t, out) /\ ~Looks(n, t, out) /\ ~Calls(n, t, out)
  BY <1>1 DEF Leaves, Answers, Looks, Calls, Carries
<1>3. ~Closes(n, sock[n], t, out)
  BY <1>1 DEF Closes, Carries
<1>4. CASE Repeats(n, t, out)
  BY <1>1, <1>4, StateValues DEF Repeats, Carries
<1>5. CASE Sends(n, sock[n], t, out)
  BY <1>5, StateValues DEF Sends, SendsOf
<1>6. CASE Received(n, t, out)
  <2>1. PICK k \in net :
           \/ Accepts(n, k, t, out) \/ Joins(n, k, t, out) \/ Acked(n, k, t, out)
           \/ TakesAck(n, k, t, out) \/ TakesFin(n, k, t, out)
           \/ \E u, s1 : TakesData(n, k, u, s1, t, out)
    BY <1>6 DEF Received
  <2>2. ~Accepts(n, k, t, out) /\ ~Joins(n, k, t, out) /\ ~Acked(n, k, t, out)
    BY <1>1 DEF Accepts, Joins, Acked, Carries
  <2>3. ~TakesAck(n, k, t, out) /\ ~TakesFin(n, k, t, out)
    BY <1>1 DEF TakesAck, TakesFin, Carries
  <2>4. PICK u, spoken : TakesData(n, k, u, spoken, t, out)
    BY <2>1, <2>2, <2>3
  <2>5. Speaks(n, sock[n], u, spoken) /\ sock[n].state \in {4, 20, 244} /\ t.state = Flag(sock[n], k, u.state)
    BY <2>4 DEF TakesData, InBlockOrder
  <2>6. u.state \in {4, 20, 244, 5}
    BY <2>5, SpeaksState, StateValues
  <2>7. QED
    BY <2>5, <2>6, StateValues DEF Flag, Cleared
<1>7. QED
  BY <1>2, <1>3, <1>4, <1>5, <1>6 DEF Kind

\* ... of which it is the last that was handed to send().
Places(t, m) ==
    /\ t.state \notin {LISTEN, CLOSED, SYN_SENT}
    /\ m.dst = t.remoteIP /\ m.sport = t.localPort /\ m.dport = t.remotePort
    /\ m.seq >= Base(t) /\ m.data.first = m.seq - Base(t) + t.start + 1
    /\ m.seq + m.data.len = Base(t) + (t.sent - t.start)

LEMMA NewData ==
  ASSUME CInv, [Next]_vars, NEW m \in net', m \notin net, ~HasRst(m), m.data.len > 0
  PROVE  m.src \in Node /\ m \in Outgoing /\ Places(sock'[m.src], m)
<1>1. ~Passes
  BY DEF Passes
<1>2. PICK n, t, out : Becomes(n, t, out) /\ Kind(n, t, out)
  BY <1>1, CKind
<1>3. /\ n \in Node /\ t \in Socket_ /\ sock'[n] = t
      /\ net' \subseteq net \cup out
      /\ \A k \in out : k.src = n /\ k \in Outgoing /\ OutOK(n, sock[n], t, k)
      /\ Moves(n, t, out)
  BY <1>2, OneMoves DEF CInv
<1>4. m \in out
  BY <1>3
<1>5. t.state \notin {1, 11, 2}
  BY <1>2, <1>4, DataState, StateValues
<1>6. Goes(n, t, out)
  <2>1. ~Rests(n, t) /\ ~Calls(n, t, out) /\ ~Waits(n, t)
    BY <1>5, StateValues DEF Rests, Calls, Waits
  <2>2. \A k \in net : ~Accepts(n, k, t, out) /\ ~Joins(n, k, t, out)
    <3>1. NoData.len = 0
      BY NoDataType
    <3>2. QED
      BY <1>4, <3>1 DEF Accepts, Joins, Carries
  <2>3. QED
    BY <1>3, <2>1, <2>2 DEF Moves
<1>7. NewOK(t, m)
  BY <1>4, <1>6 DEF Goes
<1>8. /\ m.seq >= Base(t) /\ m.data.first = m.seq - Base(t) + t.start + 1
      /\ m.seq + m.data.len = t.localSeq - FinSent(t)
  BY <1>7 DEF NewOK
<1>9. m.dst = t.remoteIP /\ m.sport = t.localPort /\ m.dport = t.remotePort
  BY <1>3, <1>4 DEF OutOK
<1>10. Base(t) + (t.sent - t.start) = t.localSeq - FinSent(t)
  BY <1>3, SockNumbers DEF Base
<1>11. QED
  BY <1>3, <1>4, <1>5, <1>8, <1>9, <1>10, StateValues DEF Places

-----------------------------------------------------------------------------
(* The dialogue, as far as Socket is concerned.                            *)

LEMMA PortsMove ==
  ASSUME CInv, [Next]_vars, NEW n \in Node
  PROVE  LET s == sock[n] t == sock'[n] IN
         /\ s.nextPort \in Nat /\ t.nextPort \in Nat /\ t.nextPort >= s.nextPort
         /\ s.sent \in Nat /\ t.sent \in Nat /\ t.sent >= s.sent
         /\ t.state = SYN_SENT =>
               \/ s.state = SYN_SENT /\ t.localPort = s.localPort
               \/ t.localPort = s.nextPort
<1> DEFINE s == sock[n]
<1>1. s \in Socket_ /\ s.sent \in Nat /\ s.nextPort \in Nat
  <2>1. s \in Socket_
    BY CFacts
  <2>2. QED
    BY <2>1 DEF Socket_
<1>2. CASE Passes
  <2>1. Quiet(s, sock'[n]) /\ sock'[n].state = s.state
    BY <1>2 DEF Passes
  <2>2. QED
    BY <1>1, <2>1 DEF Quiet, Same
<1>3. ASSUME NEW k, NEW t, NEW out, Becomes(k, t, out), Kind(k, t, out)
      PROVE  LET u == sock'[n] IN
             /\ u.nextPort \in Nat /\ u.nextPort >= s.nextPort
             /\ u.sent \in Nat /\ u.sent >= s.sent
             /\ u.state = SYN_SENT =>
                   \/ s.state = SYN_SENT /\ u.localPort = s.localPort
                   \/ u.localPort = s.nextPort
  <2>1. /\ k \in Node /\ t \in Socket_ /\ sock'[k] = t
        /\ \A j \in Node : j # k => sock'[j] = sock[j]
        /\ Moves(k, t, out)
    BY <1>3, OneMoves DEF CInv
  <2>2. CASE n # k
    BY <1>1, <2>1, <2>2
  <2>3. CASE n = k
    <3>1. SInv /\ AnyKind(k, t, out)
      BY <1>3 DEF CInv, HInv, BInv, AnyKind
    <3>2. /\ t.nextPort \in Nat /\ t.nextPort >= s.nextPort
          /\ \/ Calls(k, t, out)
             \/ t.localPort = s.localPort /\ (t.state = SYN_SENT => s.state = SYN_SENT)
      BY <1>3, <2>3, <3>1, PortKind
    <3>3. t.sent >= s.sent
      BY <1>1, <2>1, <2>3
         DEF Moves, Rests, Calls, Accepts, Waits, Joins, Goes, Talks, Sender
    <3>4. t.sent \in Nat
      BY <2>1, SockNumbers
    <3>5. Calls(k, t, out) => t.localPort = s.nextPort
      BY <2>3 DEF Calls
    <3>6. QED
      BY <2>1, <2>3, <3>2, <3>3, <3>4, <3>5
  <2>4. QED
    BY <2>2, <2>3
<1>4. QED
  BY <1>1, <1>2, <1>3, CKind

Sound == \A n \in Node : /\ sock[n] \in Socket_ /\ Young(n, sock[n])
                         /\ n \notin Hosts => sock[n].remoteIP = Server[n] /\ Server[n] \in Hosts

LEMMA CInvSound == CInv => Sound
  BY CFacts DEF Sound

LEMMA SoundNext ==
  ASSUME CInv'
  PROVE  \A n \in Node : /\ sock'[n] \in Socket_ /\ Young(n, sock'[n])
                         /\ n \notin Hosts => sock'[n].remoteIP = Server[n] /\ Server[n] \in Hosts
<1>1. CInv' => Sound'
  BY CInvSound, PTL
<1>2. Sound'
  BY <1>1
<1>3. QED
  BY <1>2 DEF Sound, Young

\* The place of data that has just been sent.
LEMMA NewPlace ==
  ASSUME CInv', NEW m, m \in Outgoing, m.src \in Node, m.data.len > 0, Places(sock'[m.src], m)
  PROVE  LET t == sock'[m.src]
             i == m.data.first - t.start
         IN  /\ t \in Socket_ /\ t.start \in Nat /\ Base(t) \in Int
             /\ m.seq \in Nat /\ i \in 1 .. t.sent - t.start /\ m.seq = Base(t) + i - 1
             /\ m.src \in Hosts => t.opened
<1> DEFINE t == sock'[m.src]
<1>1. /\ \A n \in Node : sock'[n] \in Socket_ /\ Young(n, sock'[n])
  BY SoundNext
<1>2. t \in Socket_ /\ Young(m.src, t)
  BY <1>1
<1>3. /\ t.start \in Nat /\ t.sent \in Nat /\ Base(t) \in Int
      /\ m.seq \in Nat /\ m.data.len \in Nat /\ m.data.first \in Nat
  BY <1>2, SockNumbers, OutFields
<1>4. /\ m.seq >= Base(t) /\ m.data.first = m.seq - Base(t) + t.start + 1
      /\ m.seq + m.data.len = Base(t) + (t.sent - t.start) /\ t.state # 1
  BY StateValues DEF Places
<1> HIDE DEF t
<1>5. /\ m.data.first - t.start \in 1 .. t.sent - t.start
      /\ m.seq = Base(t) + (m.data.first - t.start) - 1
  BY <1>3, <1>4
<1>6. t.sent # t.start
  BY <1>3, <1>4
<1>7. m.src \in Hosts => t.opened
  BY <1>2, <1>4, <1>6 DEF Young
<1>8. QED
  BY <1>2, <1>3, <1>5, <1>7 DEF t

\* New data for a client is for the connection that its sender has with it.
LEMMA NewTied ==
  ASSUME CInv', NEW m, m.src \in Node, Places(sock'[m.src], m), m.dst \in Node \ Hosts
  PROVE  /\ m.src \in Hosts /\ Holds(m.src, m.dst)'
         /\ m.dport = sock'[m.src].remotePort /\ sock'[m.src].state # LISTEN
<1>1. m.dst = sock'[m.src].remoteIP /\ m.dport = sock'[m.src].remotePort
      /\ sock'[m.src].state # LISTEN
  BY DEF Places
<1>2. \A n \in Node \ Hosts : sock'[n].remoteIP = Server[n] /\ Server[n] \in Hosts
  BY SoundNext
<1>3. m.src \in Hosts
  BY <1>1, <1>2
<1>4. QED
  BY <1>1, <1>3 DEF Holds

LEMMA DataNotedNext ==
  ASSUME CInv, CInv', [Next]_vars, DataNoted
  PROVE  DataNoted'
<1>1. \A c \in Client : c \in Node /\ c \notin Hosts
  BY DEF Client
<1>2. SUFFICES ASSUME NEW m \in net', ~HasRst(m), m.data.len > 0
               PROVE  /\ m.data.first \in 1 .. sock'[m.src].sent
                      /\ m.dst \in Client =>
                            /\ m.dport < sock'[m.dst].nextPort
                            /\ sock'[m.dst].state = SYN_SENT => m.dport # sock'[m.dst].localPort
  BY DEF DataNoted, HasRst
<1>3. CASE m \in net
  <2>1. /\ m.data.first \in 1 .. sock[m.src].sent
        /\ m.dst \in Client =>
              /\ m.dport < sock[m.dst].nextPort
              /\ sock[m.dst].state = SYN_SENT => m.dport # sock[m.dst].localPort
    BY <1>2, <1>3 DEF DataNoted
  <2>2. m.src \in Node /\ m.dport \in Nat
    <3>1. m.src \in Node /\ m \in Outgoing
      BY <1>3, CFacts
    <3>2. QED
      BY <3>1 DEF Outgoing
  <2>3. sock[m.src].sent \in Nat /\ sock'[m.src].sent \in Nat /\ sock'[m.src].sent >= sock[m.src].sent
    BY <2>2, PortsMove
  <2>4. ASSUME m.dst \in Client
        PROVE  /\ m.dport < sock'[m.dst].nextPort
               /\ sock'[m.dst].state = SYN_SENT => m.dport # sock'[m.dst].localPort
    <3>1. /\ sock[m.dst].nextPort \in Nat /\ sock'[m.dst].nextPort \in Nat
          /\ sock'[m.dst].nextPort >= sock[m.dst].nextPort
          /\ sock'[m.dst].state = SYN_SENT =>
                \/ sock[m.dst].state = SYN_SENT /\ sock'[m.dst].localPort = sock[m.dst].localPort
                \/ sock'[m.dst].localPort = sock[m.dst].nextPort
      BY <1>1, <2>4, PortsMove
    <3>2. QED
      BY <2>1, <2>2, <2>4, <3>1
  <2>5. QED
    BY <2>1, <2>3, <2>4
<1>4. CASE m \notin net
  <2>1. m.src \in Node /\ m \in Outgoing /\ Places(sock'[m.src], m)
    BY <1>2, <1>4, NewData
  <2>2. /\ sock'[m.src] \in Socket_ /\ sock'[m.src].start \in Nat
        /\ m.data.first - sock'[m.src].start \in 1 .. sock'[m.src].sent - sock'[m.src].start
        /\ m.src \in Hosts => sock'[m.src].opened
    BY <1>2, <2>1, NewPlace
  <2>3. sock'[m.src].sent \in Nat /\ m.data.first \in Nat /\ m.dport \in Nat
    <3>1. m.data \in Data /\ m.dport \in Nat
      BY <2>1 DEF Outgoing
    <3>2. QED
      BY <2>2, <3>1, SockNumbers DEF Data
  <2>4. m.data.first \in 1 .. sock'[m.src].sent
    BY <2>2, <2>3
  <2>5. ASSUME m.dst \in Client
        PROVE  /\ m.dport < sock'[m.dst].nextPort
               /\ sock'[m.dst].state = SYN_SENT => m.dport # sock'[m.dst].localPort
    <3>1. /\ m.src \in Hosts /\ Holds(m.src, m.dst)'
          /\ m.dport = sock'[m.src].remotePort /\ sock'[m.src].state # LISTEN
          /\ m.dst \in Node
      BY <1>1, <2>1, <2>5, NewTied
    <3>2. sock'[m.src].remotePort < sock'[m.dst].nextPort
      BY <2>1, <3>1 DEF CInv, HInv, PortInv
    <3>3. ASSUME sock'[m.dst].state = SYN_SENT, m.dport = sock'[m.dst].localPort
          PROVE  FALSE
      <4>1. Tied(m.dst, m.src)'
        BY <3>1, <3>3 DEF Tied
      <4>2. ~sock'[m.src].opened
        BY <2>1, <3>1, <3>3, <4>1 DEF CInv, HInv, Unanswered
      <4>3. QED
        BY <2>2, <3>1, <4>2
    <3>4. QED
      BY <3>1, <3>2, <3>3
  <2>6. QED
    BY <2>4, <2>5
<1>5. QED
  BY <1>3, <1>4

\* What a step of the clients and servers leaves as it was: the lines noted, the
\* kind of a client.
NotesKept == \A n \in Node : \A i \in 1 .. sock[n].sent : said'[n][i] = said[n][i]
KindsKept == \A c \in Client : app'[c].kind = app[c].kind

\* What the server adds from its ninth answer on.
NewAnswers ==
    \A c \in Client, h \in Hosts : Up(c) /\ Tied(c, h) /\ sock[h].opened =>
        \A i \in 9 .. sock'[h].sent - sock[h].start :
            i > Sent(h) /\ said'[h][sock[h].start + i] = "250" => Mail(c) \in taken'

LEMMA AnsweredNext ==
  ASSUME CInv, [Next]_vars, NotesKept, KindsKept, NewAnswers, taken \subseteq taken',
         NEW c \in Client, NEW h \in Hosts, Answered(c, h)
  PROVE  Answered(c, h)'
<1>1. c \in Node \ Hosts /\ h \in Node
  BY NodeAssumption DEF Client
<1>2. SUFFICES ASSUME Up(c)', Tied(c, h)', sock'[h].opened,
                      NEW i \in 9 .. Sent(h)', Line(h, i)' = "250"
               PROVE  Mail(c)' \in taken'
  BY DEF Answered
<1>3. /\ sock'[c].state \in {4, 244} /\ isSMTP(c)
  BY <1>2 DEF Up, KindsKept, isSMTP
<1>4. /\ sock'[h].remoteIP = c /\ sock'[h].state # LISTEN
      /\ sock'[h].remotePort = sock'[c].localPort
  BY <1>2 DEF Tied, Holds
<1>5. i \in 9 .. sock'[h].sent - sock'[h].start
  BY <1>2 DEF Sent
<1>6. /\ sock'[h].start = sock[h].start /\ sock[h].remoteIP = c
      /\ sock[h].remotePort = sock'[c].localPort
      /\ sock[h].state # LISTEN /\ sock[h].opened
  <2>1. /\ sock'[h].start = sock[h].start /\ sock'[h].remoteIP = sock[h].remoteIP
        /\ sock'[h].remotePort = sock[h].remotePort /\ sock[h].state # LISTEN
        /\ sock[h].opened \/ sock'[h].sent = sock'[h].start
    BY <1>2, <1>4, HostStays
  <2>2. sock'[h].sent \in Nat
    BY <1>1, PortsMove
  <2>3. sock'[h].sent # sock'[h].start
    BY <1>5, <2>2
  <2>4. QED
    BY <1>4, <2>1, <2>3
<1>7. sock'[c].localPort = sock[c].localPort
      /\ (sock[c].state \in {4, 244} \/ sock[c].state = SYN_SENT)
  BY <1>1, <1>3, ClientStays DEF Stays, Opened
<1>8. Tied(c, h)
  BY <1>1, <1>6, <1>7 DEF Tied, Holds
<1>9. sock[c].state # SYN_SENT
  BY <1>1, <1>6, <1>8 DEF CInv, HInv, Unanswered
<1>10. Up(c) /\ Mail(c)' = Mail(c)
  BY <1>3, <1>7, <1>9 DEF Up, Mail
<1>11. said'[h][sock[h].start + i] = "250"
  BY <1>2, <1>6 DEF Line
<1>12. sock[h].sent \in Nat /\ sock[h].start \in Nat
  BY <1>1, CFacts, SockNumbers
<1>13. CASE i <= Sent(h)
  <2>1. sock[h].start + i \in 1 .. sock[h].sent /\ i \in 9 .. Sent(h)
    BY <1>12, <1>13 DEF Sent
  <2>2. Line(h, i) = "250"
    BY <1>1, <1>11, <2>1 DEF NotesKept, Line
  <2>3. QED
    BY <1>6, <1>8, <1>10, <2>1, <2>2 DEF Answered
<1>14. CASE i > Sent(h)
  <2>1. i \in 9 .. sock'[h].sent - sock[h].start
    BY <1>5, <1>6
  <2>2. QED
    BY <1>6, <1>8, <1>10, <1>11, <1>14, <2>1 DEF NewAnswers
<1>15. i <= Sent(h) \/ i > Sent(h)
  BY <1>12 DEF Sent
<1>16. QED
  BY <1>13, <1>14, <1>15

LEMMA InFlightNext ==
  ASSUME CInv, CInv', [Next]_vars, NotesKept, KindsKept, taken \subseteq taken', DataNoted,
         NEW c \in Client, InFlight(c), \A h \in Hosts : Answered(c, h)'
  PROVE  InFlight(c)'
<1>1. c \in Node \ Hosts
  BY DEF Client
<1>2. SUFFICES ASSUME Up(c)', NEW m \in net', FromPeer(c, m)', ~HasRst(m), m.data.len > 0,
                      m.seq >= sock'[c].remoteSeq - Len(sock'[c].got) + 8,
                      said'[m.src][m.data.first] = "250"
               PROVE  Mail(c)' \in taken'
  BY DEF InFlight, HasRst
<1>3. sock'[c].state \in {4, 244} /\ isSMTP(c)
  BY <1>2 DEF Up, KindsKept, isSMTP
<1>4. /\ m.dst = c /\ m.src = sock'[c].remoteIP /\ m.sport = sock'[c].remotePort
      /\ m.dport = sock'[c].localPort
  BY <1>2 DEF FromPeer
<1>5. CASE m \in net
  <2>1. /\ m.data.first \in 1 .. sock[m.src].sent
        /\ sock[c].state = SYN_SENT => m.dport # sock[c].localPort
    BY <1>2, <1>4, <1>5 DEF DataNoted
  <2>2. sock[c].state \in {4, 244} /\ Stays(sock[c], sock'[c])
    BY <1>1, <1>3, <1>4, <2>1, ClientStays DEF Opened
  <2>3. m.src \in Node
    BY <1>5, CFacts
  <2>4. FromPeer(c, m)
    BY <1>4, <1>5, <2>2, StateValues DEF FromPeer, Handshaken, Stays
  <2>5. Up(c) /\ Mail(c)' = Mail(c)
    BY <1>3, <2>2 DEF Up, Mail, Stays
  <2>6. said[m.src][m.data.first] = "250"
    BY <1>2, <2>1, <2>3 DEF NotesKept
  <2>7. m.seq >= sock[c].remoteSeq - Len(sock[c].got) + 8
    BY <1>2, <2>2 DEF Stays
  <2>8. QED
    BY <1>2, <1>5, <2>4, <2>5, <2>6, <2>7 DEF InFlight
<1>6. CASE m \notin net
  <2> DEFINE h == m.src
             t == sock'[h]
  <2>0. PICK i : i = m.data.first - t.start
    OBVIOUS
  <2>1. h \in Node /\ m \in Outgoing /\ Places(t, m)
    BY <1>2, <1>6, NewData
  <2>2. /\ t.start \in Nat /\ Base(t) \in Int /\ m.seq \in Nat /\ i \in 1 .. t.sent - t.start
        /\ m.seq = Base(t) + i - 1 /\ (h \in Hosts => t.opened)
    BY <1>2, <2>0, <2>1, NewPlace
  <2>3. h \in Hosts /\ Holds(h, c)' /\ m.dport = t.remotePort /\ t.state # LISTEN
    BY <1>1, <1>4, <2>1, NewTied
  <2>4. Tied(c, h)'
    BY <1>4, <2>3 DEF Tied
  <2>5. Agree(c, h)'
    <3>1. Pair(c, h)' /\ sock'[c].state # CLOSED
      BY <1>1, <1>3, <2>1, StateValues DEF CInv, ConnInv
    <3>2. ~Apart(c, h)'
      BY <2>2, <2>3 DEF Apart
    <3>3. QED
      BY <2>4, <3>1, <3>2 DEF Pair
  <2>6. sock'[c].remoteSeq = Base(t) + Len(sock'[c].got)
    <3>1. sock'[c].remoteSeq = Base(t) + Len(sock'[c].got) + FinSeen(sock'[c])
      BY <2>5 DEF Agree, Half, HalfOK, Base, FinSent, FinSeen
    <3>2. FinSeen(sock'[c]) = 0
      BY <1>3 DEF FinSeen
    <3>3. Len(sock'[c].got) \in Nat
      BY <1>1, SoundNext, SockNumbers
    <3>4. QED
      BY <2>2, <3>1, <3>2, <3>3
  <2>7. i \in 9 .. t.sent - t.start
    <3>1. Len(sock'[c].got) \in Nat
      BY <1>1, SoundNext, SockNumbers
    <3> DEFINE b == Base(t)
               g == Len(sock'[c].got)
               last == t.sent - t.start
    <3>2. b \in Int /\ g \in Nat /\ m.seq = b + i - 1 /\ i \in 1 .. last
          /\ m.seq >= b + g - g + 8
      BY <1>2, <2>2, <2>6, <3>1
    <3> HIDE DEF b, g, last
    <3>3. i \in 9 .. last
      BY <3>2
    <3> QED
      BY <3>3 DEF last
  <2>8. Line(h, i)' = "250"
    <3>1. t.start + i = m.data.first
      <4>1. m.data.first \in Nat
        BY <2>1, OutFields
      <4>2. QED
        BY <2>0, <2>2, <4>1
    <3>2. said'[h][t.start + i] = "250"
      BY <1>2, <3>1
    <3>3. QED
      BY <3>2 DEF Line
  <2>9. QED
    BY <1>2, <2>2, <2>3, <2>4, <2>7, <2>8 DEF Answered, Sent
<1>7. QED
  BY <1>5, <1>6

-----------------------------------------------------------------------------
(* Which of the calls send data: what each makes of the bytes handed to     *)
(* send().                                                                 *)

\* Nobody's socket but that of n changes.
Only(n) == \A k \in Node : k # n => sock'[k] = sock[k]

\* n sends no data, and its handshake does not end.
Mute(n) ==
    /\ Only(n) /\ sock'[n].sent = sock[n].sent
    /\ sock[n].state = SYN_SENT => sock'[n].state \notin {4, 244}

LEMMA OfCInv ==
  ASSUME CInv
  PROVE  IInv /\ SInv /\ sock \in [Node -> Socket_]
<1>1. SInv
  BY DEF CInv, HInv, BInv
<1>2. QED
  BY <1>1, InSInv DEF IInv, TypeOK

LEMMA StepOnly ==
  ASSUME CInv, NEW n \in Node, NEW t, NEW out, Step(n, t, out) \/ \E m : Handle(n, m, t, out)
  PROVE  Only(n) /\ sock'[n] = t
<1>1. sock \in [Node -> Socket_] /\ sock' = [sock EXCEPT ![n] = t]
  BY OfCInv DEF Step, Handle
<1>2. QED
  BY <1>1 DEF Only

LEMMA QuietMute ==
  ASSUME CInv, NEW n \in Node, NEW t, NEW out,
         Step(n, t, out) \/ \E m : Handle(n, m, t, out),
         t.sent = sock[n].sent, sock[n].state = SYN_SENT => t.state \notin {4, 244}
  PROVE  Mute(n) /\ sock'[n] = t
  BY StepOnly DEF Mute

LEMMA ConnectMute ==
  ASSUME CInv, NEW n \in Node, Connect(n)
  PROVE  Mute(n) /\ sock'[n].state = SYN_SENT
<1> DEFINE s == sock[n]
           v == s.nextPort + 1
           t == [s EXCEPT !.localPort = s.nextPort, !.nextPort = v,
                          !.start = s.sent, !.got = <<>>, !.opened = FALSE]
           f == SentSyn(t)
           one == 1
           g == [f EXCEPT !.attempts = one]
           u == setState(g, SYN_SENT)
<1>1. s \in Socket_ /\ v \in Nat /\ s.nextPort \in Nat /\ s.sent \in Nat /\ <<>> \in Seq(Nat)
      /\ one \in Nat
  <2>1. s \in Socket_
    BY CFacts
  <2>2. QED
    BY <2>1 DEF Socket_
<1>2. Step(n, u, {Seg(n, t, {"SYN"}, NoData)})
  BY DEF Connect, SendSyn
<1> HIDE DEF v, one
<1>3. t \in Socket_ /\ t.sent = s.sent
  BY <1>1 DEF Socket_
<1> HIDE DEF t
<1>4. f \in Socket_ /\ f.sent = s.sent
  BY <1>3, SentControl DEF Counts
<1> HIDE DEF f
<1>5. g \in Socket_ /\ g.sent = s.sent
  BY <1>1, <1>4, AttemptsQuiet DEF Quiet
<1> HIDE DEF g
<1>6. SYN_SENT \in State
  BY StateByte, StateValues DEF States
<1>7. u.sent = s.sent /\ u.state = SYN_SENT
  BY <1>5, <1>6, SetStateQuiet DEF Quiet
<1> HIDE DEF u
<1>8. QED
  BY <1>2, <1>7, QuietMute, StateValues

LEMMA CloseMute ==
  ASSUME CInv, NEW n \in Node,
         NEW out, Step(n, AfterClose(sock[n]), out)
  PROVE  Mute(n) /\ sock'[n].state \notin {4, 244}
<1> DEFINE t == AfterClose(sock[n])
<1>1. t.sent = sock[n].sent /\ t.state = ClosedState(sock[n].state)
  BY CFacts, AfterCloseCounts DEF Counts
<1> HIDE DEF t
<1>2. t.state \notin {4, 244}
  BY <1>1, StateValues DEF ClosedState
<1>3. QED
  BY <1>1, <1>2, QuietMute DEF t

LEMMA ForceMute ==
  ASSUME CInv, NEW n \in Node, NEW s \in Socket_, s.sent = sock[n].sent,
         NEW out, Step(n, ForceClosed(n, s), out) \/ \E m : Handle(n, m, ForceClosed(n, s), out)
  PROVE  Mute(n) /\ sock'[n].state \notin {4, 244}
<1> DEFINE t == ForceClosed(n, s)
<1>1. t.sent = sock[n].sent /\ t.state \in {1, 11}
  BY ForceClosedQuiet, StateValues DEF Quiet
<1> HIDE DEF t
<1>2. QED
  BY <1>1, QuietMute DEF t

LEMMA RetryMute ==
  ASSUME CInv, NEW n \in Node, CheckRetry(n)
  PROVE  Mute(n)
<1> DEFINE s == sock[n]
           a == s.attempts + 1
           v == s.localSeq - (IF IsAwaiting(s.state) THEN s.stash.len ELSE 1)
           t == [s EXCEPT !.attempts = a, !.localSeq = v]
<1>1. /\ s \in Socket_ /\ SeqOK(s) /\ s.localSeq \in Nat /\ s.state \in State
      /\ a \in Nat /\ s.stash \in Data /\ s.stash.len \in Nat
  <2>1. s \in Socket_ /\ SeqOK(s)
    BY OfCInv, OfInv
  <2>2. s.stash \in Data /\ s.localSeq \in Nat /\ s.state \in State /\ s.attempts \in Nat
    BY <2>1 DEF Socket_
  <2>3. QED
    BY <2>1, <2>2 DEF Data
<1>2. \/ /\ s.state = SYN_SENT
         /\ Step(n, SentSyn(t), {Seg(n, t, {"SYN"}, NoData)})
      \/ /\ s.state = SYN_RECEIVED
         /\ Step(n, SentSyn(t), {Seg(n, t, {"SYN", "ACK"}, NoData)})
      \/ /\ s.state \in {FIN_WAIT_1, CLOSING}
         /\ Step(n, SentFin(t), {Fin(n, t)})
      \/ /\ IsAwaiting(s.state)
         /\ Step(n, SentData(t, s.stash), {Seg(n, t, {"ACK"}, s.stash)})
  BY DEF CheckRetry
<1> HIDE DEF a
<1>3. ASSUME v \in Nat
      PROVE  t \in Socket_ /\ t.state = s.state /\ t.sent = s.sent
  <2> HIDE DEF v
  <2>1. QED
    BY <1>1, <1>3 DEF Socket_
<1>4. s.state \in {2, 3, 5, 8, 244}
  <2>1. Retries(s)
    BY DEF CheckRetry, Due
  <2>2. QED
    BY <2>1, <1>1, StateByte, StateValues DEF Retries
<1>5. v \in Nat
  <2>1. CASE s.state \in {2, 3, 5, 8}
    <3>1. ~IsAwaiting(s.state) /\ s.state \in {SYN_SENT, SYN_RECEIVED, FIN_WAIT_1, CLOSING}
      BY <2>1, StateValues DEF IsAwaiting
    <3>2. s.localSeq >= 1 /\ v = s.localSeq - 1
      BY <1>1, <3>1 DEF SeqOK
    <3>3. QED
      BY <1>1, <3>2
  <2>2. CASE s.state = 244
    <3>1. IsAwaiting(s.state)
      BY <2>2 DEF IsAwaiting
    <3>2. s.stash.len \in 1 .. s.localSeq /\ v = s.localSeq - s.stash.len
      BY <1>1, <3>1 DEF SeqOK
    <3>3. QED
      BY <1>1, <3>2
  <2>3. QED
    BY <1>4, <2>1, <2>2
<1>6. t \in Socket_ /\ t.state = s.state /\ t.sent = s.sent
  BY <1>3, <1>5
<1> HIDE DEF t, v
<1>7. /\ SentSyn(t).sent = s.sent /\ SentSyn(t).state = s.state
      /\ SentFin(t).sent = s.sent /\ SentFin(t).state = s.state
  BY <1>6, SentControl DEF Counts
<1>8. CASE IsAwaiting(s.state)
  <2>1. s.state = 244
    BY <1>4, <1>8 DEF IsAwaiting
  <2>2. Low(t.state) = ESTABLISHED
    BY <1>6, <2>1, StateValues DEF Low
  <2>3. SentData(t, s.stash).sent = s.sent
    BY <1>1, <1>6, <2>2, SentDataCounts
  <2>4. QED
    BY <1>2, <1>4, <1>7, <2>1, <2>3, QuietMute, StateValues
<1>9. CASE ~IsAwaiting(s.state)
  <2>1. \/ \E out : Step(n, SentSyn(t), out)
        \/ \E out : Step(n, SentFin(t), out)
    BY <1>2, <1>9
  <2>2. s.state # 244
    BY <1>9 DEF IsAwaiting
  <2>3. s.state \notin {4, 244}
    BY <1>4, <2>2
  <2>4. QED
    BY <1>7, <2>1, <2>3, QuietMute
<1>10. QED
  BY <1>8, <1>9

LEMMA TimerMute ==
  ASSUME CInv, NEW n \in Node, checkState(n)
  PROVE  Mute(n)
<1> DEFINE s == sock[n]
<1>1. s \in Socket_ /\ Named = {}
  BY CFacts DEF CInv, ServersListen
<1>2. CASE CheckTimeout(n)
  <2>1. (\E out : Step(n, ForceClosed(n, s), out)) \/ (\E out : Step(n, AfterClose(s), out))
    BY <1>2 DEF CheckTimeout
  <2>2. QED
    BY <1>1, <2>1, ForceMute, CloseMute
<1>3. CASE CheckResolving(n)
  <2>1. Step(n, setState(s, RESOLVING), {})
    BY <1>1, <1>3 DEF CheckResolving, ResolveError, ResolveFound, CanResolve
  <2>2. RESOLVING \in State
    BY StateByte, StateValues DEF States
  <2>3. setState(s, RESOLVING).sent = s.sent /\ setState(s, RESOLVING).state = RESOLVING
    BY <1>1, <2>2, SetStateQuiet DEF Quiet
  <2>4. QED
    BY <2>1, <2>3, QuietMute, StateValues
<1>4. CASE CheckGiveUp(n)
  <2> DEFINE a == s.attempts + 1
             r == [s EXCEPT !.attempts = a]
  <2>1. \E out : Step(n, ForceClosed(n, r), out)
    BY <1>4 DEF CheckGiveUp
  <2>2. a \in Nat
    BY <1>1 DEF Socket_
  <2> HIDE DEF a
  <2>3. r \in Socket_ /\ r.sent = s.sent
    BY <1>1, <2>2, AttemptsQuiet DEF Quiet
  <2> HIDE DEF r
  <2>4. QED
    BY <2>1, <2>3, ForceMute
<1>5. CASE CheckTimeWait(n)
  <2>1. Step(n, closed(n, s), {})
    BY <1>5 DEF CheckTimeWait
  <2>2. closed(n, s).sent = s.sent /\ closed(n, s).state \in {1, 11}
    BY <1>1, ClosedQuiet, StateValues DEF Quiet
  <2>3. QED
    BY <2>1, <2>2, QuietMute
<1>6. QED
  BY <1>2, <1>3, <1>4, <1>5, RetryMute DEF checkState

LEMMA GotOf ==
  ASSUME CInv, NEW m \in net
  PROVE  LET s == Rcvd(m.dst) IN
         /\ m.dst \in Node /\ m \in Segment
         /\ sock[m.dst] \in Socket_ /\ s \in Socket_ /\ s.sent = sock[m.dst].sent
         /\ s.state = sock[m.dst].state /\ s.localSeq = sock[m.dst].localSeq
         /\ s.got = sock[m.dst].got /\ s.remoteSeq \in Nat /\ m.seq \in Nat
<1>1. m.dst \in Node /\ m \in Segment /\ m.seq \in Nat
  BY OfCInv, OfSegment
<1>2. /\ Rcvd(m.dst) \in Socket_ /\ Quiet(sock[m.dst], Rcvd(m.dst))
      /\ Rcvd(m.dst).state = sock[m.dst].state
  BY <1>1, OfCInv, RcvdQuiet
<1>3. Rcvd(m.dst).remoteSeq \in Nat
  BY <1>2, SockNumbers
<1>4. QED
  BY <1>1, <1>2, <1>3, CFacts DEF Quiet, Same

LEMMA RefusedMute ==
  ASSUME CInv, NEW m \in net,
         \/ RecvBad(m.dst, m) \/ RecvUnacceptable(m.dst, m) \/ RecvRst(m.dst, m)
         \/ RecvNoAck(m.dst, m) \/ RecvOutOfOrder(m.dst, m) \/ RecvLastResort(m.dst, m)
  PROVE  Mute(m.dst)
<1> DEFINE n == m.dst
           s == Rcvd(n)
<1>1. n \in Node /\ s \in Socket_ /\ s.sent = sock[n].sent /\ s.state = sock[n].state
  BY GotOf
<1>2. /\ SentPlain(s).sent = s.sent /\ SentPlain(s).state = s.state
      /\ closed(n, s).sent = s.sent /\ closed(n, s).state \in {1, 11}
  BY <1>1, SentPlainQuiet, ClosedQuiet, StateValues DEF Quiet
<1>3. \/ \E out : Handle(n, m, SentPlain(s), out)
      \/ \E out : Handle(n, m, closed(n, s), out)
      \/ \E out : Handle(n, m, s, out)
      \/ \E out : Handle(n, m, ForceClosed(n, s), out)
  BY DEF RecvBad, RecvUnacceptable, RecvRst, RecvNoAck, RecvOutOfOrder, RecvLastResort
<1>4. sock[n].state = SYN_SENT => s.state \notin {4, 244}
  BY <1>1, StateValues
<1> HIDE DEF s
<1>5. ASSUME NEW t, NEW out, Handle(n, m, t, out), t.sent = s.sent,
             t.state = s.state \/ t.state \in {1, 11}
      PROVE  Mute(n)
  <2>1. sock[n].state = SYN_SENT => t.state \notin {4, 244}
    BY <1>4, <1>5
  <2>2. t.sent = sock[n].sent /\ \E k : Handle(n, k, t, out)
    BY <1>1, <1>5
  <2>3. QED
    BY <1>1, <2>1, <2>2, QuietMute
<1>6. ASSUME NEW out, Handle(n, m, ForceClosed(n, s), out)
      PROVE  Mute(n)
  BY <1>1, <1>6, ForceMute
<1>7. QED
  BY <1>2, <1>3, <1>5, <1>6

LEMMA SynMute ==
  ASSUME CInv, NEW m \in net, RecvSynListen(m.dst, m) \/ RecvSynSent(m.dst, m)
  PROVE  Mute(m.dst)
<1> DEFINE n == m.dst
           r == Rcvd(n)
           v == m.seq + 1
<1>1. n \in Node /\ r \in Socket_ /\ r.sent = sock[n].sent /\ m.seq \in Nat
      /\ m.src \in Node /\ m.sport \in Nat /\ sock[n].sent \in Nat
  BY GotOf, OfCInv, OfSegment, SockNumbers
<1>2. v \in Nat /\ SYN_RECEIVED \in State /\ <<>> \in Seq(Nat) /\ 1 \in Nat
  BY <1>1, StateByte, StateValues DEF States
<1>3. CASE RecvSynListen(n, m)
  <2> DEFINE one == 1
             s == [r EXCEPT !.remoteIP = m.src, !.remotePort = m.sport, !.remoteSeq = v,
                            !.start = sock[n].sent, !.got = <<>>, !.opened = FALSE]
             f == SentSyn(s)
             u == setState(f, SYN_RECEIVED)
             w == [u EXCEPT !.attempts = one]
  <2>1. \E out : Handle(n, m, w, out)
    BY <1>3 DEF RecvSynListen
  <2>2. one \in Nat
    OBVIOUS
  <2> HIDE DEF n, r, v, one
  <2>3. s \in Socket_ /\ s.sent = r.sent
    BY <1>1, <1>2 DEF Socket_
  <2> HIDE DEF s
  <2>4. f \in Socket_ /\ f.sent = r.sent
    BY <2>3, SentControl DEF Counts
  <2> HIDE DEF f
  <2>5. u \in Socket_ /\ u.sent = r.sent /\ u.state = SYN_RECEIVED
    BY <1>2, <2>4, SetStateQuiet DEF Quiet
  <2> HIDE DEF u
  <2>6. w.sent = r.sent /\ w.state = SYN_RECEIVED
    BY <2>2, <2>5, AttemptsQuiet DEF Quiet
  <2> HIDE DEF w
  <2>7. Mute(n)
    BY <1>1, <2>1, <2>6, QuietMute, StateValues, SMTT(30)
  <2>8. QED
    BY <2>7 DEF n
<1>4. CASE RecvSynSent(n, m)
  <2> DEFINE s == [r EXCEPT !.remoteSeq = v]
             p == SentPlain(s)
             w == setState(p, SYN_RECEIVED)
  <2>1. \E out : Handle(n, m, w, out)
    BY <1>4 DEF RecvSynSent
  <2> HIDE DEF n, r, v
  <2>2. s \in Socket_ /\ s.sent = r.sent
    BY <1>1, <1>2 DEF Socket_
  <2> HIDE DEF s
  <2>3. p \in Socket_ /\ p.sent = r.sent
    BY <2>2, SentPlainQuiet DEF Quiet
  <2> HIDE DEF p
  <2>4. w.sent = r.sent /\ w.state = SYN_RECEIVED
    BY <1>2, <2>3, SetStateQuiet DEF Quiet
  <2> HIDE DEF w
  <2>5. Mute(n)
    BY <1>1, <2>1, <2>4, QuietMute, StateValues, SMTT(30)
  <2>6. QED
    BY <2>5 DEF n
<1>5. QED
  BY <1>3, <1>4

\* The answer to its own SYN: the one way into a dialogue.
LEMMA SynAckOpens ==
  ASSUME CInv, NEW m \in net, RecvSynAck(m.dst, m)
  PROVE  /\ Only(m.dst) /\ sock'[m.dst].sent = sock[m.dst].sent
         /\ sock[m.dst].state = SYN_SENT
<1> DEFINE n == m.dst
           r == Rcvd(n)
           v == m.seq + 1
           yes == TRUE
           s == [r EXCEPT !.remoteSeq = v, !.opened = yes]
           p == SentPlain(s)
           w == setState(p, ESTABLISHED)
<1>1. n \in Node /\ r \in Socket_ /\ r.sent = sock[n].sent /\ m.seq \in Nat
      /\ r.state = sock[n].state
  BY GotOf
<1>2. v \in Nat /\ ESTABLISHED \in State /\ yes \in BOOLEAN
  BY <1>1, StateByte, StateValues DEF States
<1>3. Handle(n, m, w, {Ack(n, s)}) /\ s.state = SYN_SENT
  BY DEF RecvSynAck, AcksSyn
<1> HIDE DEF n, r, v, yes
<1>4. s \in Socket_ /\ s.sent = r.sent /\ s.state = r.state
  BY <1>1, <1>2 DEF Socket_
<1> HIDE DEF s
<1>5. p \in Socket_ /\ p.sent = r.sent
  BY <1>4, SentPlainQuiet DEF Quiet
<1> HIDE DEF p
<1>6. w.sent = r.sent
  BY <1>2, <1>5, SetStateQuiet DEF Quiet
<1> HIDE DEF w
<1>7. Only(n) /\ sock'[n] = w
  BY <1>1, <1>3, StepOnly
<1>8. QED
  BY <1>1, <1>3, <1>4, <1>6, <1>7 DEF n

LEMMA AckMute ==
  ASSUME CInv, NEW m \in net, RecvAck(m.dst, m) \/ RecvFin(m.dst, m)
  PROVE  Mute(m.dst)
<1> DEFINE n == m.dst
           r == Rcvd(n)
           v == r.remoteSeq + 1
           t == [r EXCEPT !.remoteSeq = v]
           p == SentPlain(t)
           f == AfterFin(p, m)
<1>1. /\ n \in Node /\ r \in Socket_ /\ r.sent = sock[n].sent /\ r.state = sock[n].state
      /\ v \in Nat
  BY GotOf
<1>2. sock[n].state \in {4, 20, 244}
  BY OfCInv, InOrderFrom DEF RecvAck, RecvFin, InBlockOrder
<1>3. (\E out : Handle(n, m, ClearAck(r, m, r), out)) \/ (\E out : Handle(n, m, ClearAck(r, m, f), out))
  BY DEF RecvAck, RecvFin
<1> HIDE DEF n, r, v
<1>4. t \in Socket_ /\ t.sent = r.sent /\ t.state = r.state
  BY <1>1 DEF Socket_
<1> HIDE DEF t
<1>5. p \in Socket_ /\ p.sent = r.sent /\ p.state = r.state
  BY <1>4, SentPlainQuiet DEF Quiet
<1> HIDE DEF p
<1>6. f \in Socket_ /\ f.sent = r.sent /\ f.state = CLOSE_WAIT
  <2>1. f \in Socket_ /\ f.sent = p.sent /\ f.state = FinState(p, m)
    BY <1>5, AfterFinQuiet DEF Quiet
  <2>2. FinState(p, m) = CLOSE_WAIT
    BY <1>1, <1>2, <1>5, StateValues DEF FinState
  <2>3. QED
    BY <1>5, <2>1, <2>2
<1> HIDE DEF f
<1>7. ClearAck(r, m, r).sent = r.sent /\ ClearAck(r, m, f).sent = r.sent
  BY <1>1, <1>2, <1>6, ClearAckQuiet, StateValues DEF Quiet
<1>8. ASSUME NEW w, NEW out, Handle(n, m, w, out), w.sent = r.sent
      PROVE  Mute(n)
  <2>1. sock[n].state # SYN_SENT
    BY <1>1, <1>2, StateValues
  <2>2. w.sent = sock[n].sent /\ \E k : Handle(n, k, w, out)
    BY <1>1, <1>8
  <2>3. QED
    BY <1>1, <2>1, <2>2, QuietMute
<1>9. Mute(n)
  BY <1>3, <1>7, <1>8
<1>10. QED
  BY <1>9 DEF n

LEMMA AckOfAllMute ==
  ASSUME CInv, NEW m \in net, RecvAckOfAll(m.dst, m)
  PROVE  /\ Mute(m.dst)
         /\ sock[m.dst].state \notin {4, 244}
<1> DEFINE n == m.dst
           s == Rcvd(n)
           t == AfterAck(n, s)
           yes == TRUE
           u == [t EXCEPT !.opened = yes]
<1>1. /\ n \in Node /\ s \in Socket_ /\ s.sent = sock[n].sent /\ s.state = sock[n].state
      /\ yes \in BOOLEAN
  BY GotOf
<1>2. Handle(n, m, u, {}) /\ Low(s.state) # ESTABLISHED
  BY DEF RecvAckOfAll, PastEstablished
<1>3. s.state \notin {4, 244}
  BY <1>2, StateValues DEF Low
<1> HIDE DEF n, s, yes
<1>4. t \in Socket_ /\ t.sent = s.sent /\ t.state = AckState(n, s.state)
  BY <1>1, AfterAckQuiet DEF Quiet
<1> HIDE DEF t
<1>5. u.sent = s.sent /\ u.state = t.state
  BY <1>1, <1>4 DEF Socket_
<1> HIDE DEF u
<1>6. sock[n].state = SYN_SENT => u.state \notin {4, 244}
  BY <1>1, <1>4, <1>5, StateValues DEF AckState
<1>7. Mute(n)
  <2>1. u.sent = sock[n].sent /\ \E k : Handle(n, k, u, {})
    BY <1>1, <1>2, <1>4, <1>5
  <2>2. QED
    BY <1>1, <1>6, <2>1, QuietMute
<1>8. QED
  BY <1>1, <1>3, <1>7 DEF n

LEMMA SendUtters ==
  ASSUME CInv, NEW n \in Node, Send(n, 1)
  PROVE  Only(n) /\ sock'[n].sent = sock[n].sent + 1 /\ sock[n].state = ESTABLISHED
<1> DEFINE s == sock[n]
           d == [first |-> s.sent + 1, len |-> 1]
           t == AfterSend(s, d)
<1>1. s \in Socket_ /\ s.sent \in Nat /\ s.state \in State
      /\ s.state \in DevStates(n)
  <2>1. s \in Socket_ /\ s.state \in DevStates(n)
    BY CFacts
  <2>2. QED
    BY <2>1 DEF Socket_
<1>2. readyToSend(s) /\ \E out : Step(n, t, out)
  BY DEF Send
<1>3. s.state = 4
  <2>1. s.state \in {4, 20} /\ Low(s.state) = ESTABLISHED
    BY <1>1, <1>2, StateByte, StateValues DEF readyToSend
  <2>2. QED
    BY <1>1, <2>1 DEF DevStates, LiveStates
<1>4. d \in Data /\ d.len = 1
  BY <1>1 DEF Data
<1>5. Low(s.state) = ESTABLISHED
  BY <1>3, StateValues DEF Low
<1> HIDE DEF d
<1>6. t.sent = s.sent + 1
  BY <1>1, <1>4, <1>5, AfterSendCounts DEF SendsOf
<1>7. QED
  BY <1>2, <1>3, <1>6, StepOnly, StateValues

\* What onDataReceived() makes of a socket with which it may do as it likes.
LEMMA Replied ==
  ASSUME NEW n \in Node, NEW s \in Socket_, s.state \in {4, 20, 244},
         NEW react \in {"none", "send", "close", "both"}, NEW len, CanReply(n, s, react, len)
  PROVE  LET u == Reply(n, s, react, len) IN
         /\ u \in Socket_ /\ u.got = s.got
         /\ u.sent = s.sent + (IF react \in {"send", "both"} THEN len ELSE 0)
         /\ u.state = IF react \in {"close", "both"} THEN FIN_WAIT_1
                      ELSE IF react = "send" THEN 244 ELSE s.state
<1> DEFINE u == Reply(n, s, react, len)
           d == [first |-> s.sent + 1, len |-> len]
           v == AfterSend(s, d)
<1>1. s.sent \in Nat
  BY SockNumbers
<1>2. \A k \in {4, 20, 244} : ClosedState(k) = FIN_WAIT_1
  BY DEF ClosedState
<1>3. CASE react = "none"
  <2>1. u = s
    BY <1>3 DEF Reply
  <2>2. QED
    BY <1>1, <1>3, <2>1
<1>4. CASE react = "close"
  <2>1. u = AfterClose(s)
    BY <1>4 DEF Reply
  <2>2. /\ AfterClose(s) \in Socket_ /\ Counts(s, AfterClose(s), 1)
        /\ AfterClose(s).state = ClosedState(s.state)
    BY AfterCloseCounts
  <2>3. QED
    BY <1>1, <1>2, <1>4, <2>1, <2>2 DEF Counts, Same
<1>5. CASE react \in {"send", "both"}
  <2>1. readyToSend(s) /\ len \in 1 .. MaxPayload(s)
    BY <1>5 DEF CanReply
  <2>2. d \in Data /\ d.len = len
    <3>1. MaxPayload(s) \in Nat
      BY NumberAssumption DEF MaxPayload, Socket_
    <3>2. len \in Nat
      BY <2>1, <3>1
    <3>3. QED
      BY <1>1, <3>2 DEF Data
  <2>3. Low(s.state) = ESTABLISHED
    BY <2>1 DEF readyToSend
  <2>4. v \in Socket_ /\ v.sent = s.sent + len /\ v.state = 244 /\ v.got = s.got
    <3> HIDE DEF d
    <3>1. v \in Socket_ /\ SendsOf(s, v, d)
      BY <2>2, <2>3, AfterSendCounts
    <3>2. QED
      BY <2>2, <3>1 DEF SendsOf, Same
  <2>5. CASE react = "send"
    <3>1. u = v
      BY <2>5 DEF Reply
    <3> HIDE DEF v, u
    <3>2. QED
      BY <2>4, <2>5, <3>1 DEF u
  <2>6. CASE react = "both"
    <3>1. u = AfterClose(v)
      BY <2>6 DEF Reply
    <3> HIDE DEF v
    <3>2. /\ AfterClose(v) \in Socket_ /\ Counts(v, AfterClose(v), 1)
          /\ AfterClose(v).state = ClosedState(v.state)
      BY <2>4, AfterCloseCounts
    <3> HIDE DEF u
    <3>3. u \in Socket_ /\ u.sent = s.sent + len /\ u.got = s.got /\ u.state = FIN_WAIT_1
      BY <1>2, <2>4, <3>1, <3>2 DEF Counts, Same
    <3>4. QED
      BY <2>6, <3>3 DEF u
  <2>7. QED
    BY <1>5, <2>5, <2>6
<1>6. QED
  BY <1>3, <1>4, <1>5

\* Data that is taken: it comes without a FIN, and is the next.
Utters(m, react, len) ==
    LET s == sock[m.dst] t == sock'[m.dst] IN
    /\ Only(m.dst) /\ InBlockOrder(m.dst, m) /\ s.state \in {4, 244} /\ ~HasFin(m)
    /\ CanReply(m.dst, Rcvd(m.dst), react, len) /\ BeforeData(m.dst, m) = Rcvd(m.dst)
    /\ t.sent = s.sent + (IF react \in {"send", "both"} THEN len ELSE 0)
    /\ Len(t.got) = Len(s.got) + m.data.len
    /\ react \in {"close", "both"} => t.state = FIN_WAIT_1

LEMMA DataUtters ==
  ASSUME CInv, NEW m \in net, NEW react \in {"none", "send", "close", "both"}, NEW len,
         RecvData(m.dst, m, TRUE, react, len)
  PROVE  Utters(m, react, len)
<1> DEFINE n == m.dst
           s == Rcvd(n)
           u == Reply(n, s, react, len)
           v == m.seq + m.data.len
           nil == 0
           g == u.got \o Bytes(m.data)
           t == [u EXCEPT !.remoteSeq = v, !.age = nil, !.got = g]
           p == SentPlain(t)
           w == ClearAck(s, m, p)
<1>1. /\ n \in Node /\ m \in Segment /\ s \in Socket_ /\ s.sent = sock[n].sent
      /\ s.state = sock[n].state /\ s.got = sock[n].got
  BY GotOf
<1>2. InOrder(n, m) /\ InBlockOrder(n, m)
  BY OfCInv, InOrderFrom DEF RecvData, TakeData
<1>3. sock[n].state \in {4, 244}
  <2>1. sock[n].state \in {4, 20, 244}
    BY <1>2 DEF InBlockOrder
  <2>2. QED
    BY <1>1, <2>1, CFacts DEF DevStates, LiveStates
<1>4. ~HasFin(m) /\ m.data.len > 0
  <2>1. m.data.len > 0
    BY DEF RecvData, TakeData
  <2>2. ~HasRst(m)
    BY <1>2 DEF InOrder, InEstablished
  <2>3. HasFin(m) => m.data.len = 0
    BY <2>2 DEF CInv, FlagsAlone, Alone
  <2>4. QED
    BY <1>2, <2>1, <2>3 DEF InBlockOrder
<1>5. BeforeData(n, m) = s
  BY <1>4 DEF BeforeData
<1>6. (\E out : Handle(n, m, w, out)) /\ CanReply(n, s, react, len)
  BY <1>4, <1>5 DEF RecvData, TakeData
<1>7. /\ u \in Socket_ /\ u.got = s.got
      /\ u.sent = s.sent + (IF react \in {"send", "both"} THEN len ELSE 0)
      /\ u.state = IF react \in {"close", "both"} THEN FIN_WAIT_1
                   ELSE IF react = "send" THEN 244 ELSE s.state
  BY <1>1, <1>3, <1>6, Replied
<1>8. m.data \in Data /\ m.seq \in Nat /\ s.got \in Seq(Nat) /\ nil \in Nat
  BY <1>1, GotOf, SockNumbers DEF Segment
<1>9. /\ v \in Nat /\ Bytes(m.data) \in Seq(Nat) /\ Len(Bytes(m.data)) = m.data.len
      /\ m.data.len \in Nat
  <2>1. /\ Bytes(m.data) \in Seq(Nat) /\ Len(Bytes(m.data)) = m.data.len
        /\ m.data.len \in Nat
    BY <1>8, BytesOf
  <2>2. QED
    BY <1>8, <2>1
<1>10. g \in Seq(Nat) /\ Len(g) = Len(s.got) + m.data.len
  <2> DEFINE a == u.got
             b == Bytes(m.data)
  <2>1. a \in Seq(Nat) /\ b \in Seq(Nat) /\ g = a \o b
    BY <1>7, <1>8, <1>9
  <2> HIDE DEF a, b, g
  <2>2. Len(g) = Len(a) + Len(b)
    BY <2>1, Appended
  <2>3. g \in Seq(Nat)
    BY <2>1, ConcatProperties
  <2>4. Len(a) = Len(s.got) /\ Len(b) = m.data.len
    BY <1>7, <1>9 DEF a, b
  <2>5. Len(g) = Len(s.got) + m.data.len
    BY <2>2, <2>4
  <2> QED
    BY <2>3, <2>5
<1> HIDE DEF n, s, u, v, nil, g
<1>11. t \in Socket_ /\ t.sent = u.sent /\ t.got = g /\ t.state = u.state
  BY <1>7, <1>8, <1>9, <1>10 DEF Socket_
<1> HIDE DEF t
<1>12. p \in Socket_ /\ p.sent = u.sent /\ p.got = g /\ p.state = u.state
  BY <1>11, SentPlainQuiet DEF Quiet, Same
<1> HIDE DEF p
<1>13. /\ w.sent = u.sent /\ w.got = g
       /\ u.state = FIN_WAIT_1 => w.state = FIN_WAIT_1
  <2>1. p.state # UNKNOWN_HOST
    BY <1>1, <1>3, <1>7, <1>12, StateValues
  <2>2. /\ Quiet(p, w)
        /\ w.state = IF m.ack = s.localSeq /\ IsAwaiting(s.state) THEN Cleared(p.state) ELSE p.state
    BY <1>12, <2>1, ClearAckQuiet
  <2>3. Cleared(FIN_WAIT_1) = FIN_WAIT_1
    BY StateValues DEF Cleared
  <2>4. QED
    BY <1>12, <2>2, <2>3 DEF Quiet, Same
<1> HIDE DEF w
<1>14. Only(n) /\ sock'[n] = w
  BY <1>1, <1>6, StepOnly
<1>15. /\ sock'[n].sent = sock[n].sent + (IF react \in {"send", "both"} THEN len ELSE 0)
       /\ Len(sock'[n].got) = Len(sock[n].got) + m.data.len
       /\ react \in {"close", "both"} => sock'[n].state = FIN_WAIT_1
  <2>1. react \in {"close", "both"} => u.state = FIN_WAIT_1
    BY <1>7
  <2>2. w.sent = sock[n].sent + (IF react \in {"send", "both"} THEN len ELSE 0)
    BY <1>1, <1>7, <1>13
  <2>3. QED
    BY <1>1, <1>10, <1>13, <1>14, <2>1, <2>2
<1>16. QED
  BY <1>2, <1>3, <1>4, <1>5, <1>6, <1>14, <1>15 DEF n, s, Utters

-----------------------------------------------------------------------------
(* What the steps of the clients and servers do to the dialogue.            *)

LEMMA LaterLists ==
  ASSUME NEW x \in Call \ {"established"}, NEW y \in Call \ {"established"}
  PROVE  Later(<<>>) /\ Later(<<x>>) /\ Later(<<x, y>>)
  BY DEF Later

LEMMA LaterCalls ==
  /\ Later(<<>>) /\ Later(<<"closed">>) /\ Later(<<"remoteClosed">>) /\ Later(<<"readyToSend">>)
  /\ Later(<<"close">>) /\ Later(<<"closed", "reset">>) /\ Later(<<"reset", "closed">>)
<1> DEFINE C == Call \ {"established"}
<1>1. /\ "closed" \in C /\ "remoteClosed" \in C /\ "readyToSend" \in C
      /\ "close" \in C /\ "reset" \in C
  BY DEF Call
<1> HIDE DEF C
<1>2. \A x, y \in C : Later(<<>>) /\ Later(<<x>>) /\ Later(<<x, y>>)
  BY LaterLists DEF C
<1>3. QED
  BY <1>1, <1>2

LEMMA LaterConcat ==
  ASSUME NEW a, NEW b, Later(a), Later(b)
  PROVE  Later(a \o b)
<1>1. a \in Seq(Call) /\ b \in Seq(Call)
  BY DEF Later
<1>2. /\ a \o b \in Seq(Call) /\ Len(a \o b) = Len(a) + Len(b)
      /\ \A i \in 1 .. Len(a) + Len(b) :
            (a \o b)[i] = IF i <= Len(a) THEN a[i] ELSE b[i - Len(a)]
  BY <1>1, ConcatProperties
<1>3. ASSUME NEW i \in 1 .. Len(a) + Len(b)
      PROVE  (a \o b)[i] # "established"
  <2>1. Len(a) \in Nat /\ Len(b) \in Nat
    BY <1>1
  <2>2. i <= Len(a) => i \in 1 .. Len(a)
    BY <2>1
  <2>3. ~(i <= Len(a)) => i - Len(a) \in 1 .. Len(b)
    BY <2>1
  <2>4. QED
    BY <1>2, <2>2, <2>3 DEF Later
<1>4. QED
  BY <1>2, <1>3 DEF Later

LEMMA PlannedTail ==
  ASSUME NEW calls, Planned(calls), calls # <<>>
  PROVE  Later(Tail(calls))
<1>1. calls \in Seq(Call) /\ Len(calls) \in Nat \ {0}
  BY DEF Planned
<1>2. /\ Tail(calls) \in Seq(Call) /\ Len(Tail(calls)) = Len(calls) - 1
      /\ \A i \in 1 .. Len(calls) - 1 : Tail(calls)[i] = calls[i + 1]
  BY <1>1
<1>3. \A i \in 1 .. Len(calls) - 1 : i + 1 \in 2 .. Len(calls)
  BY <1>1
<1>4. QED
  BY <1>2, <1>3 DEF Planned, Later

LEMMA LaterPlanned ==
  ASSUME NEW calls, Later(calls)
  PROVE  Planned(calls) /\ \A a : a.todo = calls => ~Pending(a, "established")
<1>1. calls \in Seq(Call)
  BY DEF Later
<1>2. calls # <<>> => Head(calls) = calls[1] /\ 1 \in 1 .. Len(calls)
  BY <1>1
<1>3. QED
  BY <1>1, <1>2 DEF Planned, Later, Pending

\* The fields of the client on n become b.
LEMMA AppBecomes ==
  ASSUME AppOK, NEW n \in Client, NEW b \in App, Planned(b.todo), b.kind = app[n].kind,
         app' = [app EXCEPT ![n] = b]
  PROVE  AppOK' /\ KindsKept /\ app'[n] = b /\ \A k \in Client : k # n => app'[k] = app[k]
<1>1. app \in [Client -> App]
  BY DEF AppOK
<1>2. app' \in [Client -> App] /\ app'[n] = b /\ \A k \in Client : k # n => app'[k] = app[k]
  BY <1>1
<1>3. \A k \in Client : Planned(app'[k].todo)
  BY <1>2 DEF AppOK
<1>4. AppOK'
  BY <1>2, <1>3 DEF AppOK, Planned
<1>5. QED
  BY <1>2, <1>4 DEF KindsKept

LEMMA PlansBecomes ==
  ASSUME AppOK, NEW n \in Client, NEW a \in App, a.kind = app[n].kind,
         NEW calls, Planned(calls), Plans(n, a, calls)
  PROVE  /\ AppOK' /\ KindsKept /\ \A k \in Client : k # n => app'[k] = app[k]
         /\ app'[n].todo = calls /\ app'[n].protocolState = a.protocolState
         /\ app'[n].kind = a.kind
<1> DEFINE b == [a EXCEPT !.todo = calls]
<1>1. calls \in Seq(Call)
  BY DEF Planned
<1>2. /\ b \in App /\ b.todo = calls /\ b.protocolState = a.protocolState /\ b.kind = a.kind
  BY <1>1 DEF App
<1>3. app' = [app EXCEPT ![n] = b]
  BY DEF Plans
<1>4. Planned(b.todo) /\ b.kind = app[n].kind
  BY <1>2
<1> HIDE DEF b
<1>5. QED
  BY <1>2, <1>3, <1>4, AppBecomes, ZenonT(60)

LEMMA Silence ==
  ASSUME CInv, LinesNoted, UNCHANGED said, \A n \in Node : sock'[n].sent = sock[n].sent
  PROVE  LinesNoted' /\ NotesKept /\ NewAnswers
<1>1. LinesNoted'
  BY DEF LinesNoted
<1>2. NotesKept
  BY DEF NotesKept
<1>3. NewAnswers
  <2>1. SUFFICES ASSUME NEW h \in Hosts, NEW i \in 9 .. sock'[h].sent - sock[h].start
                 PROVE  ~(i > Sent(h))
    BY DEF NewAnswers
  <2>2. h \in Node
    BY NodeAssumption
  <2>3. Sent(h) = sock'[h].sent - sock[h].start
    BY <2>2 DEF Sent
  <2>4. sock'[h].sent \in Nat /\ sock[h].start \in Nat
    BY <2>2, CFacts, SockNumbers
  <2>5. QED
    BY <2>3, <2>4
<1>4. QED
  BY <1>1, <1>2, <1>3

LEMMA Uttered ==
  ASSUME LinesNoted, NEW n \in Node, Only(n), NEW line \in Lines, Tells(n, <<line>>),
         sock[n].sent \in Nat, sock'[n].sent = sock[n].sent + 1
  PROVE  /\ LinesNoted' /\ NotesKept
         /\ said'[n][sock[n].sent + 1] = line
         /\ \A k \in Node : k # n => said'[k] = said[k]
<1> DEFINE old == said[n]
           new == old \o <<line>>
<1>1. said \in [Node -> Seq(Lines)] /\ \A k \in Node : Len(said[k]) = sock[k].sent
  BY DEF LinesNoted
<1>2. said' = [said EXCEPT ![n] = new]
  BY DEF Tells
<1>3. old \in Seq(Lines) /\ <<line>> \in Seq(Lines) /\ Len(<<line>>) = 1 /\ <<line>>[1] = line
      /\ Len(old) = sock[n].sent
  BY <1>1
<1>4. /\ new \in Seq(Lines) /\ Len(new) = sock[n].sent + 1
      /\ new[sock[n].sent + 1] = line
      /\ \A i \in 1 .. sock[n].sent : new[i] = old[i]
  <2> DEFINE one == <<line>>
  <2>1. one \in Seq(Lines) /\ Len(one) = 1 /\ one[1] = line
    BY <1>3
  <2> HIDE DEF one, old
  <2>2. /\ old \o one \in Seq(Lines) /\ Len(old \o one) = Len(old) + Len(one)
        /\ \A i \in 1 .. Len(old) + Len(one) :
              (old \o one)[i] = IF i <= Len(old) THEN old[i] ELSE one[i - Len(old)]
    BY <1>3, <2>1, ConcatProperties, ZenonT(60)
  <2>3. Len(old) \in Nat /\ Len(old) = sock[n].sent
    BY <1>3 DEF old
  <2>4. /\ Len(old \o one) = Len(old) + 1 /\ (old \o one)[Len(old) + 1] = line
        /\ \A i \in 1 .. Len(old) : (old \o one)[i] = old[i]
    BY <2>1, <2>2, <2>3
  <2>5. new = old \o one
    BY DEF one, old
  <2> HIDE DEF new
  <2>6. QED
    BY <2>2, <2>3, <2>4, <2>5
<1> HIDE DEF new
<1>5. said' \in [Node -> Seq(Lines)] /\ said'[n] = new /\ \A k \in Node : k # n => said'[k] = said[k]
  BY <1>1, <1>2, <1>4
<1>6. LinesNoted'
  BY <1>1, <1>4, <1>5 DEF LinesNoted, Only
<1>7. NotesKept
  BY <1>4, <1>5 DEF NotesKept
<1>8. QED
  BY <1>4, <1>5, <1>6, <1>7

LEMMA NothingTold ==
  ASSUME LinesNoted, NEW n \in Node, Tells(n, <<>>)
  PROVE  UNCHANGED said
<1>1. said \in [Node -> Seq(Lines)]
  BY DEF LinesNoted
<1>2. said[n] \o <<>> = said[n]
  BY <1>1, ConcatEmptySeq
<1>3. QED
  BY <1>1, <1>2 DEF Tells

\* The step of somebody else.
LEMMA TalkStill ==
  ASSUME NEW c \in Client, sock'[c].state = sock[c].state, sock'[c].sent = sock[c].sent,
         sock'[c].start = sock[c].start, sock'[c].got = sock[c].got,
         app'[c] = app[c], said'[c] = said[c], Up(c) => Talk(c)
  PROVE  Up(c)' => Talk(c)'
  BY DEF Up, Talk, isSMTP, Line, Sent, Pending, Ready

\* A step of c in which it sends nothing.
LEMMA TalkOn ==
  ASSUME CInv, CInv', [Next]_vars, AppOK, NEW c \in Client, Mute(c), said'[c] = said[c],
         app'[c].kind = app[c].kind, app'[c].protocolState = app[c].protocolState,
         ~Pending(app[c], "established"), ~Pending(app[c], "close"),
         ~Pending(app'[c], "established"), Up(c) => Talk(c)
  PROVE  Up(c)' => Talk(c)'
<1>1. SUFFICES ASSUME Up(c)'
               PROVE  Talk(c)'
  OBVIOUS
<1>2. c \in Node \ Hosts
  BY DEF Client
<1>3. sock'[c].state \in {4, 244} /\ isSMTP(c)
  BY <1>1 DEF Up, isSMTP
<1>4. sock[c].state \in {4, 244} /\ Stays(sock[c], sock'[c])
  BY <1>2, <1>3, ClientStays DEF Mute, Opened
<1>5. Talk(c)
  BY <1>3, <1>4 DEF Up
<1>6. /\ sock'[c].sent = sock[c].sent /\ sock'[c].start = sock[c].start
      /\ Len(sock'[c].got) >= Len(sock[c].got)
  BY <1>4 DEF Mute, Stays
<1>7. /\ Len(sock[c].got) \in Nat /\ Len(sock'[c].got) \in Nat
      /\ app[c].protocolState \in Nat
  <2>1. Len(sock[c].got) \in Nat
    BY <1>2, CFacts, SockNumbers
  <2>2. app[c].protocolState \in 0 .. QUIT
    BY DEF AppOK, App
  <2>3. Len(sock'[c].got) \in Nat
    BY <1>2, SoundNext, SockNumbers
  <2>4. QED
    BY <2>1, <2>2, <2>3 DEF QUIT
<1>8. QED
  BY <1>5, <1>6, <1>7 DEF Talk, Line, Sent, Ready

\* What a step leaves the dialogue in.
StepOK ==
    /\ AppOK' /\ LinesNoted' /\ NotesKept /\ KindsKept
    /\ taken \subseteq taken' /\ NewAnswers
    /\ \A c \in Client : Up(c)' => Talk(c)'
    /\ SentMeansAccepted'

LEMMA OwnOK ==
  ASSUME CInv, LInv, NEW n \in Node, Only(n), sock'[n].sent = sock[n].sent,
         UNCHANGED said, NoMail, AppOK', KindsKept,
         \A c \in Client : c # n => app'[c] = app[c],
         n \in Client => (Up(n)' => Talk(n)')
  PROVE  StepOK
<1>1. \A k \in Node : sock'[k].sent = sock[k].sent
  BY DEF Only
<1>2. LinesNoted' /\ NotesKept /\ NewAnswers
  BY <1>1, Silence DEF LInv
<1>3. ASSUME NEW c \in Client
      PROVE  Up(c)' => Talk(c)'
  <2>1. c \in Node /\ (Up(c) => Talk(c))
    BY DEF LInv, Client
  <2>2. CASE c # n
    <3>1. sock'[c] = sock[c] /\ app'[c] = app[c] /\ said'[c] = said[c]
      BY <2>1, <2>2 DEF Only
    <3>2. QED
      BY <2>1, <3>1, TalkStill
  <2>3. QED
    BY <2>2, <1>3
<1>4. taken' = taken /\ SentMeansAccepted'
  BY DEF NoMail, LInv, SentMeansAccepted
<1>5. QED
  BY <1>2, <1>3, <1>4 DEF StepOK

LEMMA PassesOK ==
  ASSUME CInv, LInv, Passes \/ UNCHANGED vars, UNCHANGED <<app, said>>, NoMail
  PROVE  StepOK
<1>1. \A k \in Node : /\ sock'[k].sent = sock[k].sent /\ sock'[k].state = sock[k].state
                      /\ sock'[k].start = sock[k].start /\ sock'[k].got = sock[k].got
  BY DEF Passes, Quiet, Same, vars
<1>2. LinesNoted' /\ NotesKept /\ NewAnswers
  BY <1>1, Silence DEF LInv
<1>3. ASSUME NEW c \in Client
      PROVE  Up(c)' => Talk(c)'
  BY <1>1, TalkStill DEF LInv, Client
<1>4. taken' = taken /\ SentMeansAccepted'
  BY DEF NoMail, LInv, SentMeansAccepted
<1>5. AppOK' /\ KindsKept
  BY DEF LInv, AppOK, Planned, KindsKept
<1>6. QED
  BY <1>2, <1>3, <1>4, <1>5 DEF StepOK

LEMMA HostOK ==
  ASSUME CInv, LInv, NEW h \in Hosts, Only(h), sock'[h].sent = sock[h].sent,
         UNCHANGED <<app, said>>, NoMail
  PROVE  StepOK
<1>1. h \in Node /\ h \notin Client
  BY NodeAssumption DEF Client
<1>2. AppOK' /\ KindsKept
  BY DEF LInv, AppOK, Planned, KindsKept
<1>3. QED
  BY <1>1, <1>2, OwnOK

LEMMA HostReceivesOK ==
  ASSUME CInv, LInv, NEW m \in net, m.dst \in Hosts, HostReceives(m.dst, m)
  PROVE  StepOK
<1> DEFINE h == m.dst
<1>1. UNCHANGED <<app, said>> /\ NoMail
  BY DEF HostReceives
<1>2. CASE RecvData(h, m, TRUE, "none", 0)
  <2>1. Only(h) /\ sock'[h].sent = sock[h].sent + 0
    BY <1>2, DataUtters DEF Utters
  <2>2. sock[h].sent \in Nat
    BY NodeAssumption, CFacts, SockNumbers
  <2>3. QED
    BY <1>1, <2>1, <2>2, HostOK
<1>3. CASE ~(InOrder(h, m) /\ m.data.len > 0) /\ handleSegment(h, m)
  <2>1. \A accept, react, len : ~RecvData(h, m, accept, react, len)
    BY <1>3 DEF RecvData, TakeData
  <2>2. \/ RecvSynAck(h, m)
        \/ RecvBad(h, m) \/ RecvUnacceptable(h, m) \/ RecvRst(h, m)
        \/ RecvNoAck(h, m) \/ RecvOutOfOrder(h, m) \/ RecvLastResort(h, m)
        \/ RecvSynListen(h, m) \/ RecvSynSent(h, m)
        \/ RecvAck(h, m) \/ RecvFin(h, m) \/ RecvAckOfAll(h, m)
    BY <1>3, <2>1 DEF handleSegment
  <2>3. Only(h) /\ sock'[h].sent = sock[h].sent
    BY <2>2, RefusedMute, SynMute, SynAckOpens, AckMute, AckOfAllMute DEF Mute
  <2>4. QED
    BY <1>1, <2>3, HostOK
<1>4. QED
  BY <1>2, <1>3 DEF HostReceives

LEMMA HostActsOK ==
  ASSUME CInv, LInv, NEW h \in Hosts, HostActs(h)
  PROVE  StepOK
<1>1. h \in Node /\ sock[h] \in Socket_
  BY NodeAssumption, CFacts
<1>2. Mute(h)
  <2>1. CASE Close(h)
    <3>1. \E out : Step(h, AfterClose(sock[h]), out)
      BY <2>1 DEF Close
    <3>2. QED
      BY <1>1, <3>1, CloseMute
  <2>2. CASE ForceClose(h)
    <3>1. \E out : Step(h, ForceClosed(h, sock[h]), out)
      BY <2>2 DEF ForceClose
    <3>2. QED
      BY <1>1, <3>1, ForceMute
  <2>3. QED
    BY <1>1, <2>1, <2>2, TimerMute DEF HostActs
<1>3. QED
  BY <1>2, HostOK DEF Mute, HostActs

\* An answer: where it is a "250", and the ninth at least, it is to MESSAGE.
LEMMA AnswerOK ==
  ASSUME CInv, LInv, NEW h \in Hosts, NEW code \in Codes, Answer(h, code)
  PROVE  StepOK
<1>1. /\ Send(h, 1) /\ Tells(h, <<code>>) /\ UNCHANGED <<app, reported>>
      /\ Sent(h) < Owes(h) /\ code \in {RightAnswer(h), "500"}
      /\ taken \subseteq taken'
  BY DEF Answer
<1>2. h \in Node /\ h \notin Client /\ sock[h] \in Socket_
  BY NodeAssumption, CFacts DEF Client
<1>3. /\ sock[h].sent \in Nat /\ sock[h].start \in Nat /\ Len(sock[h].got) \in Nat
  BY <1>2, SockNumbers
<1>4. Only(h) /\ sock'[h].sent = sock[h].sent + 1
  BY <1>1, <1>2, SendUtters
<1>5. /\ LinesNoted' /\ NotesKept /\ said'[h][sock[h].sent + 1] = code
      /\ \A k \in Node : k # h => said'[k] = said[k]
  <2>1. code \in Lines
    BY DEF Lines
  <2>2. QED
    BY <1>1, <1>2, <1>3, <1>4, <2>1, Uttered DEF LInv
<1>6. ASSUME NEW c \in Client
      PROVE  Up(c)' => Talk(c)'
  <2>1. c \in Node /\ c # h
    BY <1>2 DEF Client
  <2>2. sock'[c] = sock[c] /\ app'[c] = app[c] /\ said'[c] = said[c]
    BY <1>1, <1>4, <1>5, <2>1 DEF Only
  <2>3. QED
    BY <2>2, TalkStill DEF LInv
<1>7. NewAnswers
  <2>1. SUFFICES ASSUME NEW c \in Client, NEW k \in Hosts, Up(c), Tied(c, k), sock[k].opened,
                        NEW i \in 9 .. sock'[k].sent - sock[k].start,
                        i > Sent(k), said'[k][sock[k].start + i] = "250"
                 PROVE  Mail(c) \in taken'
    BY DEF NewAnswers
  <2>2. k \in Node /\ c \in Node /\ c \notin Hosts
    BY NodeAssumption DEF Client
  <2>3. k = h
    <3>1. ASSUME k # h
          PROVE  FALSE
      <4>1. sock'[k] = sock[k]
        BY <1>4, <2>2, <3>1 DEF Only
      <4>2. sock[k].sent \in Nat /\ sock[k].start \in Nat
        BY <2>2, CFacts, SockNumbers
      <4>3. QED
        BY <2>1, <4>1, <4>2 DEF Sent
    <3>2. QED
      BY <3>1
  <2>4. i = Sent(h) + 1 /\ Sent(h) \in Nat /\ Sent(h) >= 8
        /\ sock[h].start + i = sock[h].sent + 1
    BY <1>3, <1>4, <2>1, <2>3, SMTT(30) DEF Sent
  <2>5. code = "250"
    BY <1>5, <2>1, <2>3, <2>4
  <2>6. /\ isSMTP(c) /\ sock[h].remoteIP = c /\ sock[h].remotePort = sock[c].localPort
        /\ sock[c].state \in {4, 244} /\ Talk(c)
    BY <2>1, <2>3 DEF Up, Tied, Holds, LInv
  <2>7. Agree(c, h)
    <3>1. Pair(c, h) /\ sock[c].state # CLOSED
      BY <1>2, <2>2, <2>6, StateValues DEF CInv, ConnInv
    <3>2. ~Apart(c, h)
      BY <2>1, <2>3 DEF Apart
    <3>3. QED
      BY <2>1, <2>3, <3>1, <3>2 DEF Pair
  <2>8. /\ Len(sock[h].got) <= Sent(c)
        /\ \A j \in 1 .. Len(sock[h].got) : sock[h].got[j] = sock[c].start + j
    BY <2>7 DEF Agree, Half, HalfOK, Sent
  <2>9. Sent(h) \in 1 .. Len(sock[h].got)
    <3>1. Owes(h) = Len(sock[h].got) + 1
      BY <2>6 DEF Owes
    <3>2. QED
      BY <1>1, <1>3, <2>4, <3>1
  <2>10. LineOf(h) = Line(c, Sent(h))
    BY <2>6, <2>8, <2>9 DEF LineOf, Line
  <2>11. Sent(c) \in Int
    BY <2>2, CFacts, SockNumbers DEF Sent
  <2>12. LineOf(h) \in 15 .. 17 /\ LineOf(h) % 2 = 1
    <3>1. Sent(h) \in 1 .. Sent(c)
      BY <1>3, <2>8, <2>9, <2>11
    <3>2. LineOf(h) \in 2 * Sent(h) - 1 .. QUIT /\ Ready(LineOf(h))
      BY <2>6, <2>10, <3>1 DEF Talk
    <3>3. QED
      BY <2>4, <3>2 DEF QUIT, Ready
  <2>13. LineOf(h) \in {15, 17}
    BY <2>12
  <2>14. LineOf(h) # QUIT
    <3>1. code = RightAnswer(h)
      BY <1>1, <2>5
    <3>2. Sent(h) # 0
      BY <2>4
    <3>3. LineOf(h) = QUIT => RightAnswer(h) = "221"
      BY <2>6, <3>2 DEF RightAnswer
    <3>4. QED
      BY <2>5, <3>1, <3>3
  <2>15. LineOf(h) = MESSAGE
    BY <2>13, <2>14 DEF QUIT, MESSAGE
  <2>16. taken' = taken \cup {<<c, sock[h].remotePort>>}
    BY <2>4, <2>5, <2>6, <2>15 DEF Answer
  <2>17. QED
    BY <2>6, <2>16 DEF Mail
<1>8. AppOK' /\ KindsKept
  BY <1>1 DEF LInv, AppOK, Planned, KindsKept
<1>9. SentMeansAccepted'
  BY <1>1 DEF LInv, SentMeansAccepted
<1>10. QED
  BY <1>1, <1>5, <1>6, <1>7, <1>8, <1>9 DEF StepOK

LEMMA AppFacts ==
  ASSUME LInv, NEW c \in Client
  PROVE  /\ c \in Node /\ c \notin Hosts /\ app[c] \in App /\ Planned(app[c].todo)
         /\ app[c].protocolState \in 0 .. 17
         /\ Idle(c) => ~Pending(app[c], "established") /\ ~Pending(app[c], "close")
<1>1. app[c] \in App /\ Planned(app[c].todo)
  BY DEF LInv, AppOK
<1>2. app[c].protocolState \in 0 .. 17
  BY <1>1 DEF App, QUIT
<1>3. QED
  BY <1>1, <1>2 DEF Client, Idle, Pending

\* A step of the client on n in which it sends nothing, ...
LEMMA MuteOK ==
  ASSUME CInv, CInv', [Next]_vars, LInv, NEW n \in Client, Mute(n),
         UNCHANGED said, NoMail,
         ~Pending(app[n], "established"), ~Pending(app[n], "close"),
         NEW a \in App, a.kind = app[n].kind, a.protocolState = app[n].protocolState,
         NEW calls, Later(calls), Plans(n, a, calls)
  PROVE  StepOK
<1>1. /\ AppOK' /\ KindsKept /\ \A k \in Client : k # n => app'[k] = app[k]
      /\ app'[n].todo = calls /\ app'[n].protocolState = a.protocolState
      /\ app'[n].kind = a.kind
  BY LaterPlanned, PlansBecomes DEF LInv
<1>2. ~Pending(app'[n], "established")
  BY <1>1, LaterPlanned
<1>3. n \in Node /\ Only(n) /\ sock'[n].sent = sock[n].sent
  BY AppFacts DEF Mute
<1>4. Up(n)' => Talk(n)'
  BY <1>1, <1>2, TalkOn DEF LInv
<1>5. QED
  BY <1>1, <1>3, <1>4, OwnOK

\* ... or plans nothing, ...
LEMMA IdleOK ==
  ASSUME CInv, CInv', [Next]_vars, LInv, NEW n \in Client, Mute(n),
         UNCHANGED <<app, said>>, NoMail, Idle(n)
  PROVE  StepOK
<1>1. AppOK' /\ KindsKept
  BY DEF LInv, AppOK, Planned, KindsKept
<1>2. n \in Node /\ Only(n) /\ sock'[n].sent = sock[n].sent
  BY AppFacts DEF Mute
<1>3. /\ ~Pending(app[n], "established") /\ ~Pending(app[n], "close")
      /\ ~Pending(app'[n], "established")
  BY AppFacts
<1>4. Up(n)' => Talk(n)'
  BY <1>3, TalkOn DEF LInv
<1>5. QED
  BY <1>1, <1>2, <1>4, OwnOK

\* ... or is in no dialogue after it.
LEMMA GoneOK ==
  ASSUME CInv, LInv, NEW n \in Client, Only(n), sock'[n].sent = sock[n].sent,
         UNCHANGED said, NoMail, sock'[n].state \notin {4, 244} \/ ~isSMTP(n),
         NEW a \in App, a.kind = app[n].kind,
         NEW calls, Planned(calls), Plans(n, a, calls)
  PROVE  StepOK
<1>1. /\ AppOK' /\ KindsKept /\ \A k \in Client : k # n => app'[k] = app[k]
      /\ app'[n].kind = app[n].kind
  BY PlansBecomes DEF LInv
<1>2. ~Up(n)'
  BY <1>1 DEF Up, isSMTP
<1>3. n \in Node
  BY AppFacts
<1>4. QED
  BY <1>1, <1>2, <1>3, OwnOK

LEMMA BeginOK ==
  ASSUME CInv, LInv, NEW n \in Client, Begin(n)
  PROVE  StepOK
<1>1. n \in Node /\ n \notin Hosts /\ app[n] \in App /\ Planned(app[n].todo)
  BY AppFacts
<1>2. Named = {}
  BY DEF CInv, ServersListen
<1>3. Connect(n)
  BY <1>2 DEF Begin, ConnectByName, ResolveError, ResolveFound, CanResolve
<1>4. Mute(n) /\ sock'[n].state = SYN_SENT
  BY <1>1, <1>3, ConnectMute
<1>5. PICK b : /\ app' = [app EXCEPT ![n] = b]
               /\ b = IF isSMTP(n) THEN [app[n] EXCEPT !.status = "sending"]
                      ELSE [app[n] EXCEPT !.sendInProgress = TRUE]
  BY DEF Begin
<1>6. b \in App /\ b.kind = app[n].kind /\ b.todo = app[n].todo
  BY <1>1, <1>5 DEF App
<1>7. AppOK' /\ KindsKept /\ \A k \in Client : k # n => app'[k] = app[k]
  BY <1>1, <1>5, <1>6, AppBecomes DEF LInv
<1>8. ~Up(n)'
  BY <1>4, StateValues DEF Up
<1>9. UNCHANGED said /\ NoMail
  BY DEF Begin
<1>10. QED
  BY <1>1, <1>4, <1>7, <1>8, <1>9, OwnOK DEF Mute

LEMMA TimerOK ==
  ASSUME CInv, CInv', [Next]_vars, LInv, NEW n \in Client, Timer(n)
  PROVE  StepOK
<1>1. n \in Node /\ n \notin Hosts /\ app[n] \in App
  BY AppFacts
<1>2. Mute(n) /\ Idle(n) /\ UNCHANGED said /\ NoMail
  BY <1>1, TimerMute DEF Timer
<1>3. PICK calls : Plans(n, app[n], calls)
                   /\ (calls = <<>> \/ calls = <<"closed">> \/ calls = <<"reset", "closed">>)
  BY Zenon DEF Timer
<1>4. Later(calls)
  <2>1. Later(<<>>) /\ Later(<<"closed">>) /\ Later(<<"reset", "closed">>)
    BY LaterCalls
  <2>2. QED
    BY <1>3, <2>1
<1>5. ~Pending(app[n], "established") /\ ~Pending(app[n], "close")
  BY <1>2, AppFacts
<1>6. QED
  BY <1>1, <1>2, <1>3, <1>4, <1>5, MuteOK

LEMMA AckCalls ==
  ASSUME NEW n, NEW m
  PROVE  Later(IfFin(m) \o IfAcked(n, m))
<1>1. Later(<<>>) /\ Later(<<"remoteClosed">>) /\ Later(<<"readyToSend">>)
  BY LaterCalls
<1>2. Later(IfFin(m)) /\ Later(IfAcked(n, m))
  BY <1>1 DEF IfFin, IfAcked
<1>3. QED
  BY <1>2, LaterConcat

LEMMA ReceivesOK ==
  ASSUME CInv, CInv', [Next]_vars, LInv, NEW m \in net, m.dst \in Client, Receives(m.dst, m)
  PROVE  StepOK
<1> DEFINE n == m.dst
<1>1. n \in Node /\ n \notin Hosts /\ app[n] \in App /\ Idle(n) /\ UNCHANGED said /\ NoMail
      /\ ~Pending(app[n], "established") /\ ~Pending(app[n], "close")
  BY AppFacts DEF Receives
<1>2. CASE (RecvUnacceptable(n, m) \/ RecvOutOfOrder(n, m)) /\ UNCHANGED app
  <2>1. Mute(n)
    BY <1>2, RefusedMute
  <2>2. QED
    BY <1>1, <1>2, <2>1, IdleOK
<1>3. ASSUME NEW calls, Later(calls), Plans(n, app[n], calls), Mute(n)
      PROVE  StepOK
  BY <1>1, <1>3, MuteOK
<1>4. /\ Later(<<>>) /\ Later(<<"closed">>) /\ Later(<<"closed", "reset">>)
      /\ Later(<<"reset", "closed">>)
  BY LaterCalls
<1>5. CASE RecvRst(n, m)
           /\ Plans(n, app[n], IF sock'[n].state = CLOSED THEN <<"closed", "reset">> ELSE <<>>)
  BY <1>3, <1>4, <1>5, RefusedMute
<1>6. CASE RecvSynAck(n, m) /\ Plans(n, app[n], <<"established", "readyToSend">>)
  <2> DEFINE calls == <<"established", "readyToSend">>
  <2>1. Planned(calls) /\ calls # <<>> /\ Head(calls) = "established"
    BY DEF Planned, Call
  <2> HIDE DEF calls
  <2>2. /\ AppOK' /\ KindsKept /\ \A k \in Client : k # n => app'[k] = app[k]
        /\ app'[n].todo = calls /\ app'[n].kind = app[n].kind
    BY <1>1, <1>6, <2>1, PlansBecomes DEF LInv, calls
  <2>3. Only(n) /\ sock'[n].sent = sock[n].sent /\ sock[n].state = SYN_SENT
    BY <1>6, SynAckOpens
  <2>4. Up(n)' => Talk(n)'
    <3>1. SUFFICES ASSUME Up(n)'
                   PROVE  Talk(n)'
      OBVIOUS
    <3>2. sock'[n].state \in {4, 244}
      BY <3>1 DEF Up
    <3>3. Opened(sock[n], sock'[n])
      BY <1>1, <2>3, <3>2, ClientStays, StateValues
    <3>4. sock'[n].sent \in Nat
      BY <1>1, PortsMove
    <3>5. sock'[n].sent - sock'[n].start = 0 /\ sock'[n].got = <<>>
      BY <3>3, <3>4 DEF Opened
    <3>6. Pending(app'[n], "established")
      BY <2>1, <2>2 DEF Pending
    <3>7. QED
      BY <3>5, <3>6 DEF Talk, Sent
  <2>5. QED
    BY <1>1, <2>2, <2>3, <2>4, OwnOK
<1>7. CASE (RecvAck(n, m) \/ RecvFin(n, m)) /\ Plans(n, app[n], IfFin(m) \o IfAcked(n, m))
  BY <1>3, <1>7, AckCalls, AckMute
<1>8. CASE RecvAckOfAll(n, m)
           /\ Plans(n, app[n], IF sock'[n].state = CLOSED THEN <<"closed">> ELSE <<>>)
  BY <1>3, <1>4, <1>8, AckOfAllMute
<1>9. CASE RecvLastResort(n, m)
           /\ Plans(n, app[n], IF sock[n].state = TIME_WAIT THEN <<"closed">>
                               ELSE <<"reset", "closed">>)
  BY <1>3, <1>4, <1>9, RefusedMute
<1>10. QED
  BY <1>2, <1>5, <1>6, <1>7, <1>8, <1>9 DEF Receives

LEMMA RecvAnswerOK ==
  ASSUME CInv, LInv, NEW m \in net, m.dst \in Client, RecvAnswer(m.dst, m)
  PROVE  StepOK
<1> DEFINE n == m.dst
<1>1. n \in Node /\ app[n] \in App /\ ~isSMTP(n) /\ UNCHANGED said /\ NoMail
      /\ RecvData(n, m, TRUE, "none", 0) /\ Plans(n, app[n], IfFin(m) \o IfAcked(n, m))
  BY AppFacts DEF RecvAnswer
<1>2. Only(n) /\ sock'[n].sent = sock[n].sent + 0
  BY <1>1, DataUtters DEF Utters
<1>3. sock[n].sent \in Nat
  BY <1>1, CFacts, SockNumbers
<1>4. Planned(IfFin(m) \o IfAcked(n, m))
  BY AckCalls, LaterPlanned
<1>5. sock'[n].sent = sock[n].sent
  BY <1>2, <1>3
<1>6. QED
  BY <1>1, <1>2, <1>4, <1>5, GoneOK

\* The step of a client that may send a line.
LEMMA ClientOK ==
  ASSUME CInv, LInv, NEW n \in Client, Only(n), LinesNoted', NotesKept,
         \A k \in Node : k # n => said'[k] = said[k],
         taken' = taken, SentMeansAccepted', AppOK', KindsKept,
         \A c \in Client : c # n => app'[c] = app[c],
         Up(n)' => Talk(n)'
  PROVE  StepOK
<1>1. n \in Node /\ n \notin Hosts
  BY AppFacts
<1>2. NewAnswers
  <2>1. SUFFICES ASSUME NEW h \in Hosts, NEW i \in 9 .. sock'[h].sent - sock[h].start
                 PROVE  ~(i > Sent(h))
    BY DEF NewAnswers
  <2>2. h \in Node /\ sock'[h] = sock[h]
    BY <1>1, NodeAssumption DEF Only
  <2>3. sock[h].sent \in Nat /\ sock[h].start \in Nat
    BY <2>2, CFacts, SockNumbers
  <2>4. QED
    BY <2>2, <2>3 DEF Sent
<1>3. ASSUME NEW c \in Client
      PROVE  Up(c)' => Talk(c)'
  <2>1. c \in Node /\ (Up(c) => Talk(c))
    BY DEF LInv, Client
  <2>2. CASE c # n
    <3>1. sock'[c] = sock[c] /\ app'[c] = app[c] /\ said'[c] = said[c]
      BY <2>1, <2>2 DEF Only
    <3>2. QED
      BY <2>1, <3>1, TalkStill
  <2>3. QED
    BY <2>2
<1>4. QED
  BY <1>2, <1>3 DEF StepOK

LEMMA Counted ==
  ASSUME NEW a \in Nat, NEW b \in Nat, NEW i \in 1 .. a - b + 1
  PROVE  /\ i = a - b + 1 => b + i = a + 1 /\ 2 * i - 1 = 2 * (a - b) + 1
         /\ i # a - b + 1 => i \in 1 .. a - b /\ b + i \in 1 .. a
OBVIOUS

\* It goes on from one line to the next.
LEMMA TalkSends ==
  ASSUME CInv, NEW n \in Client, Talk(n), NotesKept, Stays(sock[n], sock'[n]),
         sock'[n].sent = sock[n].sent + 1,
         said'[n][sock[n].sent + 1] \in 2 * Sent(n) + 1 .. 17,
         Ready(said'[n][sock[n].sent + 1]),
         ~Pending(app'[n], "established"),
         app'[n].protocolState <= 2 * Len(sock'[n].got),
         Pending(app'[n], "close") \/ 2 * (Sent(n) + 1) <= app'[n].protocolState
  PROVE  Talk(n)'
<1>1. n \in Node /\ sock[n] \in Socket_
  BY CFacts DEF Client
<1>2. sock[n].sent \in Nat /\ sock[n].start \in Nat /\ sock'[n].start = sock[n].start
  BY <1>1, SockNumbers DEF Stays
<1>3. Sent(n)' = Sent(n) + 1 /\ Sent(n) \in Int
  BY <1>2, SMTT(30) DEF Sent
<1>4. ASSUME NEW i \in 1 .. Sent(n) + 1
      PROVE  Line(n, i)' \in 2 * i - 1 .. QUIT /\ Ready(Line(n, i)')
  <2>1. Line(n, i)' = said'[n][sock[n].start + i]
    BY <1>2 DEF Line
  <2> DEFINE a == sock[n].sent
             b == sock[n].start
  <2>5. a \in Nat /\ b \in Nat /\ i \in 1 .. a - b + 1 /\ Sent(n) = a - b
    BY <1>2 DEF Sent
  <2> HIDE DEF a, b
  <2>6. /\ i = Sent(n) + 1 => b + i = a + 1 /\ 2 * i - 1 = 2 * Sent(n) + 1
        /\ i # Sent(n) + 1 => i \in 1 .. Sent(n) /\ b + i \in 1 .. a
    BY <2>5, Counted
  <2>2. CASE i = Sent(n) + 1
    <3>1. sock[n].start + i = sock[n].sent + 1 /\ 2 * i - 1 = 2 * Sent(n) + 1
      BY <2>2, <2>6 DEF a, b
    <3>2. Line(n, i)' = said'[n][sock[n].sent + 1]
      BY <2>1, <3>1
    <3>3. Ready(Line(n, i)')
      BY <3>2, Zenon
    <3>4. Line(n, i)' \in 2 * i - 1 .. 17
      BY <3>1, <3>2
    <3>5. QED
      BY <3>3, <3>4 DEF QUIT
  <2>3. CASE i # Sent(n) + 1
    <3>1. i \in 1 .. Sent(n) /\ sock[n].start + i \in 1 .. sock[n].sent
      BY <2>3, <2>6 DEF a, b
    <3>2. Line(n, i)' = Line(n, i)
      BY <1>1, <2>1, <3>1 DEF NotesKept, Line
    <3>3. Line(n, i) \in 2 * i - 1 .. QUIT /\ Ready(Line(n, i))
      BY <3>1 DEF Talk
    <3>4. Ready(Line(n, i)')
      BY <3>2, <3>3, Zenon
    <3>5. QED
      BY <3>2, <3>3, <3>4
  <2>4. QED
    BY <2>2, <2>3
<1>5. QED
  BY <1>3, <1>4 DEF Talk, Ready

LEMMA Odd ==
  ASSUME NEW p \in 0 .. 17, NEW s \in Int, NEW g \in Nat
  PROVE  /\ Ready(p) /\ 2 * s <= p => 2 * s + 1 <= p
         /\ Ready(p) /\ p <= 2 * g => p + 1 <= 2 * g
<1>1. p = 2 * (p \div 2) + (p % 2) /\ (p \div 2) \in Nat
  OBVIOUS
<1>2. QED
  BY <1>1 DEF Ready

LEMMA After ==
  ASSUME NEW p \in 0 .. 17
  PROVE  /\ ~Ready(p) => p + 1 \in 0 .. 17 /\ Ready(p + 1)
         /\ AfterReady(p) \in 0 .. 17 /\ AfterReady(p) >= p
         /\ Ready(p) /\ p # QUIT => AfterReady(p) = p + 1
         /\ ~Ready(p) \/ p = QUIT => AfterReady(p) = p
<1>1. p = 2 * (p \div 2) + (p % 2) /\ (p \div 2) \in Nat /\ (p % 2) \in {0, 1}
  OBVIOUS
<1>2. (p + 1) % 2 = 1 - (p % 2)
  BY <1>1
<1>3. QED
  BY <1>1, <1>2 DEF Ready, AfterReady, QUIT

LEMMA LineSent ==
  ASSUME CInv, LInv, NEW n \in Client, NEW line \in Lines, NEW fits, SendLine(n, line, fits)
  PROVE  \/ UNCHANGED <<vars, said>>
         \/ /\ Only(n) /\ sock'[n].sent = sock[n].sent + 1 /\ sock[n].state = ESTABLISHED
            /\ LinesNoted' /\ NotesKept
            /\ said'[n][sock[n].sent + 1] = line
            /\ \A k \in Node : k # n => said'[k] = said[k]
<1>1. n \in Node
  BY AppFacts
<1>2. sock[n].sent \in Nat
  BY <1>1, CFacts, SockNumbers
<1>3. CASE Send(n, 1) /\ Tells(n, <<line>>)
  <2>1. Only(n) /\ sock'[n].sent = sock[n].sent + 1 /\ sock[n].state = ESTABLISHED
    BY <1>1, <1>3, SendUtters
  <2>2. LinesNoted
    BY DEF LInv
  <2>3. QED
    BY <1>1, <1>2, <1>3, <2>1, <2>2, Uttered
<1>4. QED
  BY <1>3 DEF SendLine

\* The step leaves sockets and lines alone: nothing is notable.
LEMMA Unmoved ==
  ASSUME CInv, LInv, NEW n \in Node, UNCHANGED <<vars, said>>
  PROVE  /\ Only(n) /\ LinesNoted' /\ NotesKept /\ sock'[n] = sock[n]
         /\ \A k \in Node : k # n => said'[k] = said[k]
<1>1. sock' = sock
  BY DEF vars
<1>2. QED
  BY <1>1, Silence DEF Only, LInv

LEMMA EstablishedOK ==
  ASSUME CInv, LInv, NEW n \in Client, NEW fits, OnEstablished(n, fits)
  PROVE  StepOK
<1> DEFINE nil == 0
           a == [app[n] EXCEPT !.protocolState = nil]
<1>1. n \in Node /\ app[n] \in App /\ Planned(app[n].todo) /\ app[n].todo # <<>>
      /\ Pending(app[n], "established")
  BY AppFacts DEF OnEstablished, Called, Idle, Pending
<1>2. nil \in 0 .. QUIT /\ nil = 0
  BY DEF QUIT
<1>3. Plans(n, a, Rest(n)) /\ NoMail
  BY DEF OnEstablished
<1> HIDE DEF nil
<1>4. a \in App /\ a.kind = app[n].kind /\ a.protocolState = 0
  BY <1>1, <1>2 DEF App
<1> HIDE DEF a
<1>5. Later(Rest(n))
  BY <1>1, PlannedTail DEF Rest
<1>6. /\ AppOK' /\ KindsKept /\ \A k \in Client : k # n => app'[k] = app[k]
      /\ app'[n].todo = Rest(n) /\ app'[n].protocolState = 0 /\ app'[n].kind = app[n].kind
  BY <1>3, <1>4, <1>5, LaterPlanned, PlansBecomes DEF LInv
<1>7. taken' = taken /\ SentMeansAccepted'
  BY <1>3 DEF NoMail, LInv, SentMeansAccepted
<1>8. CASE isSMTP(n)
  <2>1. UNCHANGED <<vars, said>>
    BY <1>8 DEF OnEstablished
  <2>2. Only(n) /\ LinesNoted' /\ NotesKept /\ sock'[n] = sock[n]
        /\ \A k \in Node : k # n => said'[k] = said[k]
    BY <1>1, <2>1, Unmoved
  <2>3. Up(n)' => Talk(n)'
    <3>1. SUFFICES ASSUME Up(n)'
                   PROVE  Talk(n)'
      OBVIOUS
    <3>2. Up(n)
      BY <1>8, <2>2, <3>1 DEF Up
    <3>3. Sent(n) = 0 /\ sock[n].got = <<>>
      BY <1>1, <3>2 DEF LInv, Talk
    <3>4. QED
      BY <1>6, <2>2, <3>3 DEF Talk, Sent
  <2>4. QED
    BY <1>6, <1>7, <2>2, <2>3, ClientOK
<1>9. CASE ~isSMTP(n)
  <2>1. SendLine(n, 0, fits)
    BY <1>9 DEF OnEstablished
  <2>2. 0 \in Lines
    BY DEF Lines, QUIT
  <2>3. Only(n) /\ LinesNoted' /\ NotesKept /\ \A k \in Node : k # n => said'[k] = said[k]
    BY <1>1, <2>1, <2>2, LineSent, Unmoved
  <2>4. ~Up(n)'
    BY <1>6, <1>9 DEF Up, isSMTP
  <2>5. QED
    BY <1>6, <1>7, <2>3, <2>4, ClientOK
<1>10. QED
  BY <1>8, <1>9

LEMMA CloseFirst ==
  ASSUME NEW rest, Later(rest)
  PROVE  /\ Later(<<"close">> \o rest) /\ Later(<<>> \o rest)
         /\ <<"close">> \o rest # <<>> /\ Head(<<"close">> \o rest) = "close"
<1> DEFINE a == <<"close">>
           c == a \o rest
<1>1. Later(<<>>) /\ Later(a)
  BY LaterCalls
<1>2. Later(c) /\ Later(<<>> \o rest)
  BY <1>1, LaterConcat
<1>3. a \in Seq(Call) /\ rest \in Seq(Call) /\ Len(a) = 1 /\ a[1] = "close" /\ Len(rest) \in Nat
  BY <1>1 DEF Later
<1> HIDE DEF a
<1>4. /\ c \in Seq(Call) /\ Len(c) = Len(a) + Len(rest)
      /\ \A i \in 1 .. Len(a) + Len(rest) :
            c[i] = IF i <= Len(a) THEN a[i] ELSE rest[i - Len(a)]
  BY <1>3, ConcatProperties
<1> HIDE DEF c
<1>5. c[1] = "close" /\ Len(c) >= 1
  BY <1>3, <1>4
<1>6. c # <<>> /\ Head(c) = "close"
  BY <1>4, <1>5
<1>7. QED
  BY <1>2, <1>6 DEF c, a

\* The turn of the client: it sends the line of its protocolState, or cannot.
LEMMA ReadyOK ==
  ASSUME CInv, CInv', [Next]_vars, LInv, NEW n \in Client, NEW fits, OnReadyToSend(n, fits)
  PROVE  StepOK
<1> DEFINE p == app[n].protocolState
           q == AfterReady(p)
           a == [app[n] EXCEPT !.protocolState = q]
           calls == (IF p = QUIT THEN <<"close">> ELSE <<>>) \o Rest(n)
<1>1. /\ n \in Node /\ n \in Node \ Hosts /\ app[n] \in App /\ Planned(app[n].todo)
      /\ app[n].todo # <<>> /\ p \in 0 .. 17 /\ NoMail
      /\ ~Pending(app[n], "established") /\ ~Pending(app[n], "close")
  BY AppFacts DEF OnReadyToSend, Called, Idle, Pending
<1>2. Later(Rest(n))
  BY <1>1, PlannedTail DEF Rest
<1>3. CASE ~(isSMTP(n) /\ Ready(p))
  <2>1. UNCHANGED <<vars, said>> /\ Plans(n, app[n], Rest(n))
    BY <1>3 DEF OnReadyToSend
  <2>2. Mute(n)
    <3>1. Only(n) /\ sock'[n] = sock[n]
      BY <1>1, <2>1, Unmoved
    <3>2. QED
      BY <3>1, StateValues DEF Mute
  <2>3. QED
    BY <1>1, <1>2, <2>1, <2>2, MuteOK
<1>4. CASE isSMTP(n) /\ Ready(p)
  <2>1. SendLine(n, p, fits) /\ Plans(n, a, calls)
    BY <1>4 DEF OnReadyToSend
  <2>2. p \in Lines /\ q \in 0 .. 17 /\ q >= p /\ q \in Nat /\ p \in Nat
        /\ (p # QUIT => q = p + 1) /\ (p = QUIT => q = p)
    <3>1. q \in 0 .. 17 /\ q >= p /\ (p # QUIT => q = p + 1) /\ (p = QUIT => q = p)
      BY <1>1, <1>4, After
    <3>2. QED
      BY <1>1, <3>1, SMTT(30) DEF Lines, QUIT
  <2>3. Later(calls) /\ (p = QUIT => calls # <<>> /\ Head(calls) = "close")
    BY <1>2, CloseFirst
  <2> HIDE DEF q, calls
  <2>4. a \in App /\ a.kind = app[n].kind /\ a.protocolState = q
    BY <1>1, <2>2 DEF App, QUIT
  <2> HIDE DEF a
  <2>5. /\ AppOK' /\ KindsKept /\ \A k \in Client : k # n => app'[k] = app[k]
        /\ app'[n].todo = calls /\ app'[n].protocolState = q /\ app'[n].kind = app[n].kind
    BY <2>1, <2>3, <2>4, LaterPlanned, PlansBecomes DEF LInv
  <2>6. ~Pending(app'[n], "established") /\ (p = QUIT => Pending(app'[n], "close"))
    BY <2>3, <2>5, LaterPlanned DEF Pending
  <2>7. taken' = taken /\ SentMeansAccepted'
    BY <1>1 DEF NoMail, LInv, SentMeansAccepted
  <2>8. sock[n].sent \in Nat /\ sock[n].start \in Nat /\ Len(sock[n].got) \in Nat
        /\ Len(sock'[n].got) \in Nat /\ Sent(n) \in Int
    <3>1. sock[n].sent \in Nat /\ sock[n].start \in Nat /\ Len(sock[n].got) \in Nat
      BY <1>1, CFacts, SockNumbers
    <3>2. Len(sock'[n].got) \in Nat
      BY <1>1, SoundNext, SockNumbers
    <3>3. QED
      BY <3>1, <3>2 DEF Sent
  <2>9. ASSUME Talk(n)
        PROVE  /\ p <= 2 * Len(sock[n].got) /\ q <= 2 * Len(sock[n].got)
               /\ 2 * Sent(n) <= p /\ 2 * Sent(n) + 1 <= p
               /\ p = QUIT \/ 2 * (Sent(n) + 1) <= q
    <3>1. p <= 2 * Len(sock[n].got) /\ 2 * Sent(n) <= p
      BY <1>1, <2>9 DEF Talk
    <3>2. 2 * Sent(n) + 1 <= p /\ p + 1 <= 2 * Len(sock[n].got)
      BY <1>1, <1>4, <2>8, <3>1, Odd
    <3>3. QED
      BY <2>2, <2>8, <3>1, <3>2
  <2>10. CASE UNCHANGED <<vars, said>>
    <3>1. Only(n) /\ LinesNoted' /\ NotesKept /\ sock'[n] = sock[n]
          /\ \A k \in Node : k # n => said'[k] = said[k]
      BY <1>1, <2>10, Unmoved
    <3>2. Up(n)' => Talk(n)'
      <4>1. SUFFICES ASSUME Up(n)'
                     PROVE  Talk(n)'
        OBVIOUS
      <4>2. Up(n)
        BY <2>5, <3>1, <4>1 DEF Up, isSMTP
      <4>3. Talk(n)
        BY <4>2 DEF LInv
      <4>4. q <= 2 * Len(sock[n].got) /\ 2 * Sent(n) <= q
        BY <2>2, <2>8, <2>9, <4>3
      <4>5. said'[n] = said[n]
        BY <2>10
      <4>6. QED
        BY <2>5, <2>6, <3>1, <4>3, <4>4, <4>5 DEF Talk, Line, Sent, Ready
    <3>3. QED
      BY <2>5, <2>7, <3>1, <3>2, ClientOK
  <2>11. CASE /\ Only(n) /\ sock'[n].sent = sock[n].sent + 1 /\ sock[n].state = ESTABLISHED
              /\ LinesNoted' /\ NotesKept
              /\ said'[n][sock[n].sent + 1] = p
              /\ \A k \in Node : k # n => said'[k] = said[k]
    <3>1. Up(n)' => Talk(n)'
      <4>1. SUFFICES ASSUME Up(n)'
                     PROVE  Talk(n)'
        OBVIOUS
      <4>2. Stays(sock[n], sock'[n])
        BY <1>1, <2>11, <4>1, ClientStays, StateValues DEF Up, Opened
      <4>3. Talk(n)
        BY <1>4, <2>11, StateValues DEF Up, LInv
      <4>4. q <= 2 * Len(sock'[n].got)
        BY <2>2, <2>8, <2>9, <4>2, <4>3, SMTT(30) DEF Stays
      <4>5. p \in 2 * Sent(n) + 1 .. 17
        <5>1. 2 * Sent(n) + 1 <= p
          BY <2>9, <4>3
        <5>2. p \in 0 .. 17 /\ 2 * Sent(n) + 1 \in Int
          BY <1>1, <2>8
        <5> HIDE DEF p
        <5>3. QED
          BY <5>1, <5>2
      <4>6. Pending(app'[n], "close") \/ 2 * (Sent(n) + 1) <= q
        BY <2>6, <2>9, <4>3
      <4>7. said'[n][sock[n].sent + 1] \in 2 * Sent(n) + 1 .. 17
        BY <2>11, <4>5
      <4>8. Ready(said'[n][sock[n].sent + 1])
        BY <1>4, <2>11, Zenon
      <4>9. app'[n].protocolState <= 2 * Len(sock'[n].got)
        BY <2>5, <4>4
      <4>10. Pending(app'[n], "close") \/ 2 * (Sent(n) + 1) <= app'[n].protocolState
        BY <2>5, <4>6
      <4>11. QED
        BY <2>6, <2>11, <4>2, <4>3, <4>7, <4>8, <4>9, <4>10, TalkSends
    <3>2. QED
      BY <2>5, <2>7, <2>11, <3>1, ClientOK
  <2>12. QED
    BY <2>1, <2>2, <2>10, <2>11, LineSent
<1>5. QED
  BY <1>3, <1>4

\* A close(): it ends the dialogue.
LEMMA OnCloseOK ==
  ASSUME CInv, LInv, NEW n \in Client, NEW call, OnClose(n, call)
  PROVE  StepOK
<1>1. /\ n \in Node /\ app[n] \in App /\ Planned(app[n].todo) /\ app[n].todo # <<>>
      /\ UNCHANGED said /\ NoMail
  BY AppFacts DEF OnClose, Called, Idle
<1>2. Planned(Rest(n))
  BY <1>1, PlannedTail, LaterPlanned DEF Rest
<1>3. PICK a : /\ Plans(n, a, Rest(n))
               /\ a = IF call = "close" THEN app[n] ELSE [app[n] EXCEPT !.sendInProgress = FALSE]
  BY DEF OnClose
<1>4. a \in App /\ a.kind = app[n].kind
  BY <1>1, <1>3 DEF App
<1>5. Only(n) /\ sock'[n].sent = sock[n].sent /\ sock'[n].state \notin {4, 244}
  <2>1. CASE localClosed(sock[n]) /\ UNCHANGED vars
    <3>1. sock' = sock
      BY <2>1 DEF vars
    <3>2. sock[n].state \notin {4, 244}
      <4>1. Low(4) = 4 /\ Low(244) = 4
        BY DEF Low
      <4>2. QED
        BY <2>1, <4>1, StateValues DEF localClosed
    <3>3. QED
      BY <3>1, <3>2 DEF Only
  <2>2. CASE Close(n)
    <3>1. \E out : Step(n, AfterClose(sock[n]), out)
      BY <2>2 DEF Close
    <3>2. QED
      BY <1>1, <3>1, CloseMute DEF Mute
  <2>3. QED
    BY <2>1, <2>2 DEF OnClose
<1>6. QED
  BY <1>1, <1>2, <1>3, <1>4, <1>5, GoneOK

LEMMA EndedOK ==
  ASSUME NEW a \in App
  PROVE  Ended(a) \in App /\ Ended(a).kind = a.kind /\ Ended(a).protocolState = a.protocolState
  BY DEF Ended, App

LEMMA OnResetOK ==
  ASSUME CInv, CInv', [Next]_vars, LInv, NEW n \in Client, OnReset(n) \/ OnClosed(n)
  PROVE  StepOK
<1>1. /\ n \in Node /\ app[n] \in App /\ Planned(app[n].todo) /\ app[n].todo # <<>>
      /\ UNCHANGED said /\ NoMail /\ Plans(n, Ended(app[n]), Rest(n))
      /\ ~Pending(app[n], "established") /\ ~Pending(app[n], "close")
  BY AppFacts DEF OnReset, OnClosed, Called, Idle, Pending
<1>2. Later(Rest(n))
  BY <1>1, PlannedTail DEF Rest
<1>3. /\ Ended(app[n]) \in App /\ Ended(app[n]).kind = app[n].kind
      /\ Ended(app[n]).protocolState = app[n].protocolState
  BY <1>1, EndedOK
<1>4. Mute(n)
  <2>1. CASE UNCHANGED vars
    <3>1. Only(n) /\ sock'[n] = sock[n]
      BY <1>1, <2>1, Unmoved
    <3>2. QED
      BY <3>1, StateValues DEF Mute
  <2>2. CASE ForceClose(n)
    <3>1. sock[n] \in Socket_ /\ \E out : Step(n, ForceClosed(n, sock[n]), out)
      BY <1>1, <2>2, CFacts DEF ForceClose
    <3>2. QED
      BY <1>1, <3>1, ForceMute
  <2>3. QED
    BY <2>1, <2>2 DEF OnReset, OnClosed
<1>5. QED
  BY <1>1, <1>2, <1>3, <1>4, MuteOK

LEMMA CallBackOK ==
  ASSUME CInv, CInv', [Next]_vars, LInv, NEW n \in Client, CallBack(n)
  PROVE  StepOK
  BY EstablishedOK, ReadyOK, OnCloseOK, OnResetOK DEF CallBack

LEMMA Waiting ==
  ASSUME NEW p \in 0 .. 17, NEW line
  PROVE  LET r == AfterLine(p, line) IN
         /\ r \in 0 .. 17 /\ r >= p /\ r <= p + 1
         /\ Ready(r) => AfterReady(r) \in 0 .. 17 /\ AfterReady(r) >= r /\ AfterReady(r) <= r + 1
                        /\ (r # QUIT => AfterReady(r) = r + 1)
         /\ ~IsWrong(p, line) => Ready(r) /\ (Ready(p) => r = p)
         /\ AfterReady(r) \in 0 .. 17
<1> DEFINE r == AfterLine(p, line)
<1>1. r = p \/ (r = p + 1 /\ ~Ready(p))
  BY DEF AfterLine, IsAwaited
<1>2. ~Ready(p) => p + 1 \in 0 .. 17 /\ Ready(p + 1)
  BY After
<1>3. r \in 0 .. 17 /\ r >= p /\ r <= p + 1
  BY <1>1, <1>2
<1>4. ~IsWrong(p, line) => Ready(r) /\ (Ready(p) => r = p)
  BY <1>2 DEF IsWrong, AfterLine, IsAwaited
<1> HIDE DEF r
<1>5. /\ AfterReady(r) \in 0 .. 17 /\ AfterReady(r) >= r
      /\ Ready(r) /\ r # QUIT => AfterReady(r) = r + 1
      /\ ~Ready(r) \/ r = QUIT => AfterReady(r) = r
  BY <1>3, After
<1>6. AfterReady(r) <= r + 1
  BY <1>3, <1>5
<1>7. QED
  BY <1>3, <1>4, <1>5, <1>6 DEF r

\* The bounds that a protocolState keeps to when an answer has come.
LEMMA NextLine ==
  \A s \in Int : \A g, k, p, r, q \in Nat :
     /\ p <= 2 * g /\ 2 * s <= p /\ k >= g + 1
     /\ r >= p /\ r <= p + 1 /\ q >= r /\ q <= r + 1
     => /\ q <= 2 * k /\ 2 * s <= q
        /\ q = r + 1 /\ 2 * s + 1 <= r => 2 * (s + 1) <= q
OBVIOUS

\* An answer: the client goes on to its next line, and sends it if it can.
LEMMA RecvLineOK ==
  ASSUME CInv, CInv', [Next]_vars, LInv, NEW m \in net, m.dst \in Client, NEW fits,
         RecvLine(m.dst, m, fits)
  PROVE  StepOK
<1> DEFINE n == m.dst
           p == app[n].protocolState
           line == said[m.src][m.data.first]
           wrong == IsWrong(p, line)
           r == AfterLine(p, line)
           ready == ~wrong /\ readyToSend(BeforeData(n, m))
           says == ready /\ Ready(r) /\ fits
           noted == p = MESSAGE + 1 /\ IsAwaited(line, MESSAGE + 1)
           react == CASE wrong -> "close"
                      [] says /\ r = QUIT -> "both"
                      [] says /\ r # QUIT -> "send"
                      [] OTHER -> "none"
           len == IF says THEN 1 ELSE 0
           q == IF ready THEN AfterReady(r) ELSE r
           a == [app[n] EXCEPT !.protocolState = q,
                               !.status = IF noted THEN "sent" ELSE @]
           calls == IfFin(m) \o IfAcked(n, m)
<1>1. /\ n \in Client /\ n \in Node /\ n \in Node \ Hosts /\ app[n] \in App /\ p \in 0 .. 17
      /\ Planned(app[n].todo) /\ isSMTP(n)
      /\ ~Pending(app[n], "established") /\ ~Pending(app[n], "close")
  BY AppFacts DEF RecvLine
<1>2. /\ RecvData(n, m, TRUE, react, len)
      /\ Tells(n, IF says THEN <<r>> ELSE <<>>) /\ Plans(n, a, calls)
      /\ reported' = reported \cup (IF noted THEN {<<n, sock[n].localPort>>} ELSE {})
      /\ taken' = taken
  BY DEF RecvLine
<1>3. /\ r \in 0 .. 17 /\ r >= p /\ r <= p + 1
      /\ Ready(r) => AfterReady(r) \in 0 .. 17 /\ AfterReady(r) >= r /\ AfterReady(r) <= r + 1
                     /\ (r # QUIT => AfterReady(r) = r + 1)
      /\ ~wrong => Ready(r) /\ (Ready(p) => r = p)
      /\ AfterReady(r) \in 0 .. 17
  BY <1>1, Waiting
<1>4. /\ react \in {"none", "send", "close", "both"}
      /\ (react \in {"send", "both"}) <=> says
      /\ ~wrong /\ ~(says /\ r = QUIT) => react \notin {"close", "both"}
      /\ react \notin {"close", "both"} => ~wrong /\ ~(says /\ r = QUIT)
  <2> HIDE DEF wrong, r
  <2>1. QED
    OBVIOUS
<1>17. react \in {"none", "send", "close", "both"}
  BY <1>4
<1>18. (says => len = 1) /\ (~says => len = 0)
  OBVIOUS
<1>5. q \in 0 .. 17 /\ (~wrong => q >= r /\ q <= r + 1) /\ (says => q = AfterReady(r))
  <2>1. /\ ready => ~wrong /\ q = AfterReady(r)
        /\ ~ready => q = r
        /\ says => ready
    OBVIOUS
  <2> HIDE DEF wrong, r, ready, says, q
  <2>2. QED
    BY <1>3, <2>1
<1> HIDE DEF wrong, r, react, says, ready, q, calls, len
<1>6. a \in App /\ a.kind = app[n].kind /\ a.protocolState = q
  BY <1>1, <1>5 DEF App, QUIT
<1> HIDE DEF a
<1>7. Later(calls)
  BY AckCalls DEF calls
<1>8. /\ AppOK' /\ KindsKept /\ \A k \in Client : k # n => app'[k] = app[k]
      /\ app'[n].todo = calls /\ app'[n].protocolState = q /\ app'[n].kind = app[n].kind
      /\ ~Pending(app'[n], "established")
  BY <1>1, <1>2, <1>6, <1>7, LaterPlanned, PlansBecomes DEF LInv
<1>9. LET s == sock[n] t == sock'[n] IN
      /\ Only(n) /\ InBlockOrder(n, m) /\ s.state \in {4, 244} /\ ~HasFin(m)
      /\ t.sent = s.sent + (IF react \in {"send", "both"} THEN len ELSE 0)
      /\ Len(t.got) = Len(s.got) + m.data.len
      /\ react \in {"close", "both"} => t.state = FIN_WAIT_1
  <2>1. RecvData(n, m, TRUE, react, len)
    BY <1>2
  <2>2. Utters(m, react, len)
    BY <1>17, <2>1, DataUtters
  <2>3. QED
    BY <2>2 DEF Utters
<1>10. /\ sock[n].sent \in Nat /\ sock[n].start \in Nat /\ Len(sock[n].got) \in Nat
       /\ Len(sock'[n].got) \in Nat /\ Sent(n) \in Int /\ m.data.len \in Nat /\ m.data.len > 0
       /\ sock[n].remoteSeq \in Nat /\ Len(sock'[n].got) >= Len(sock[n].got) + 1
  <2>1. /\ sock[n].sent \in Nat /\ sock[n].start \in Nat /\ Len(sock[n].got) \in Nat
        /\ sock[n].remoteSeq \in Nat
    BY <1>1, CFacts, SockNumbers
  <2>2. Len(sock'[n].got) \in Nat
    BY <1>1, SoundNext, SockNumbers
  <2>3. m.data.len \in Nat /\ m.data.len > 0
    <3>1. m.data \in Data
      BY CFacts DEF Outgoing
    <3>2. QED
      BY <3>1, BytesOf DEF RecvLine
  <2>4. Len(sock'[n].got) = Len(sock[n].got) + m.data.len
    BY <1>9
  <2>5. Len(sock'[n].got) >= Len(sock[n].got) + 1
    <3> DEFINE x == Len(sock'[n].got)
               y == Len(sock[n].got)
    <3>1. x = y + m.data.len /\ y \in Nat
      BY <2>1, <2>4
    <3> HIDE DEF x, y
    <3>2. x >= y + 1
      BY <2>3, <3>1
    <3>3. QED
      BY <3>2 DEF x, y
  <2>6. QED
    BY <2>1, <2>2, <2>3, <2>5 DEF Sent
<1>11. Up(n) /\ Talk(n)
  BY <1>1, <1>9 DEF Up, LInv
<1>12. p <= 2 * Len(sock[n].got) /\ 2 * Sent(n) <= p
  BY <1>1, <1>11 DEF Talk
\* What it calls sent, the server has.
<1>13. SentMeansAccepted'
  <2>1. CASE ~noted
    BY <1>2, <2>1 DEF LInv, SentMeansAccepted
  <2>2. CASE noted
    <3>1. p = 16 /\ line = "250"
      <4>1. Awaited[16] = "250"
        BY DEF Awaited
      <4>2. QED
        BY <2>2, <4>1 DEF IsAwaited, MESSAGE
    <3>2. Len(sock[n].got) >= 8
      BY <1>10, <1>12, <3>1
    <3>3. FromPeer(n, m) /\ ~HasRst(m) /\ m.seq = sock[n].remoteSeq
      BY <1>9 DEF InBlockOrder
    <3>4. m.seq >= sock[n].remoteSeq - Len(sock[n].got) + 8
      BY <1>10, <3>2, <3>3
    <3>5. InFlight(n)
      BY <1>1 DEF LInv
    <3>6. Mail(n) \in taken
      BY <1>10, <1>11, <3>1, <3>3, <3>4, <3>5 DEF InFlight
    <3>7. reported \subseteq taken
      BY DEF LInv, SentMeansAccepted
    <3>8. QED
      BY <1>2, <3>6, <3>7 DEF Mail, SentMeansAccepted
  <2>3. QED
    BY <2>1, <2>2
<1>14. CASE says
  <2>1. sock'[n].sent = sock[n].sent + 1
    BY <1>4, <1>9, <1>14, <1>18
  <2>2. r \in Lines /\ Tells(n, <<r>>)
    BY <1>2, <1>3, <1>14 DEF Lines, QUIT
  <2>3. /\ LinesNoted' /\ NotesKept
        /\ said'[n][sock[n].sent + 1] = r
        /\ \A k \in Node : k # n => said'[k] = said[k]
    BY <1>1, <1>9, <1>10, <2>1, <2>2, Uttered DEF LInv
  <2>4. Up(n)' => Talk(n)'
    <3>1. SUFFICES ASSUME Up(n)'
                   PROVE  Talk(n)'
      OBVIOUS
    <3>2. ~wrong /\ r # QUIT /\ Stays(sock[n], sock'[n])
      <4>1. sock'[n].state \in {4, 244}
        BY <3>1 DEF Up
      <4>2. Stays(sock[n], sock'[n])
        BY <1>1, <1>9, <4>1, ClientStays, StateValues DEF Opened
      <4>3. react \notin {"close", "both"}
        BY <1>9, <4>1, StateValues
      <4>4. QED
        BY <1>4, <1>14, <4>2, <4>3
    <3>3. Ready(r) /\ q = r + 1 /\ q \in Nat /\ r \in Nat /\ p \in Nat
      BY <1>1, <1>3, <1>5, <1>14, <3>2
    <3>4. 2 * Sent(n) <= r
      <4>1. \A x \in Int : \A y, z \in 0 .. 17 : 2 * x <= y /\ y <= z => 2 * x <= z
        OBVIOUS
      <4>2. r >= p /\ 2 * Sent(n) <= p /\ p \in 0 .. 17 /\ r \in 0 .. 17 /\ Sent(n) \in Int
        BY <1>1, <1>3, <1>10, <1>12
      <4> HIDE DEF p, n
      <4>3. QED
        BY <4>1, <4>2
    <3>5. 2 * Sent(n) + 1 <= r
      BY <1>3, <1>10, <3>3, <3>4, Odd
    <3>6. q <= 2 * Len(sock'[n].got) /\ 2 * (Sent(n) + 1) <= q
      <4>1. r >= p /\ r <= p + 1 /\ q >= r /\ q <= r + 1
        BY <1>3, <3>3
      <4>2. /\ q <= 2 * Len(sock'[n].got)
            /\ q = r + 1 /\ 2 * Sent(n) + 1 <= r => 2 * (Sent(n) + 1) <= q
        <5> DEFINE s == Sent(n)
                   g == Len(sock[n].got)
                   k == Len(sock'[n].got)
        <5>1. s \in Int /\ g \in Nat /\ k \in Nat /\ k >= g + 1 /\ p <= 2 * g /\ 2 * s <= p
              /\ p \in Nat /\ q \in Nat /\ r \in Nat
          BY <1>10, <1>12, <3>3
        <5> HIDE DEF s, g, k, p
        <5>2. q <= 2 * k /\ (q = r + 1 /\ 2 * s + 1 <= r => 2 * (s + 1) <= q)
          BY <4>1, <5>1, NextLine
        <5>3. QED
          BY <5>2 DEF s, k
      <4>3. QED
        BY <3>3, <3>5, <4>2
    <3>7. said'[n][sock[n].sent + 1] \in 2 * Sent(n) + 1 .. 17
      BY <1>3, <1>10, <2>3, <3>5
    <3>8. Ready(said'[n][sock[n].sent + 1])
      BY <2>3, <3>3, Zenon
    <3>9. app'[n].protocolState <= 2 * Len(sock'[n].got)
      BY <1>8, <3>6
    <3>10. 2 * (Sent(n) + 1) <= app'[n].protocolState
      BY <1>8, <3>6
    <3>11. QED
      BY <1>1, <1>8, <1>11, <2>1, <2>3, <3>2, <3>7, <3>8, <3>9, <3>10, TalkSends
  <2>5. QED
    BY <1>1, <1>2, <1>8, <1>9, <1>13, <2>3, <2>4, ClientOK
<1>15. CASE ~says
  <2>1. sock'[n].sent = sock[n].sent
    BY <1>4, <1>9, <1>10, <1>15
  <2>2. UNCHANGED said
    BY <1>1, <1>2, <1>15, NothingTold DEF LInv
  <2>3. LinesNoted' /\ NotesKept
    <3>1. \A k \in Node : sock'[k].sent = sock[k].sent
      BY <1>9, <2>1 DEF Only
    <3>2. QED
      BY <2>2, <3>1, Silence DEF LInv
  <2>4. Up(n)' => Talk(n)'
    <3>1. SUFFICES ASSUME Up(n)'
                   PROVE  Talk(n)'
      OBVIOUS
    <3>2. ~wrong /\ Stays(sock[n], sock'[n])
      <4>1. sock'[n].state \in {4, 244}
        BY <3>1 DEF Up
      <4>2. Stays(sock[n], sock'[n])
        BY <1>1, <1>9, <4>1, ClientStays, StateValues DEF Opened
      <4>3. react \notin {"close", "both"}
        BY <1>9, <4>1, StateValues
      <4>4. QED
        BY <1>4, <4>2, <4>3
    <3>3. q <= 2 * Len(sock'[n].got) /\ 2 * Sent(n) <= q
      <4>1. r >= p /\ r <= p + 1 /\ q >= r /\ q <= r + 1 /\ q \in Nat /\ r \in Nat /\ p \in Nat
        BY <1>1, <1>3, <1>5, <3>2
      <4> DEFINE s == Sent(n)
                 g == Len(sock[n].got)
                 k == Len(sock'[n].got)
      <4>2. s \in Int /\ g \in Nat /\ k \in Nat /\ k >= g + 1 /\ p <= 2 * g /\ 2 * s <= p
        BY <1>10, <1>12
      <4> HIDE DEF s, g, k, p
      <4>3. q <= 2 * k /\ 2 * s <= q
        BY <4>1, <4>2, NextLine
      <4>4. QED
        BY <4>3 DEF s, k
    <3>4. sock'[n].start = sock[n].start
      BY <3>2 DEF Stays
    <3>5. QED
      BY <1>8, <1>11, <2>1, <2>2, <3>3, <3>4 DEF Talk, Line, Sent, Ready
  <2>5. QED
    BY <1>1, <1>2, <1>8, <1>9, <1>13, <2>2, <2>3, <2>4, ClientOK
<1>16. QED
  BY <1>14, <1>15

-----------------------------------------------------------------------------

LEMMA StepOKNext ==
  ASSUME CInv, CInv', LInv, [ClientsNext]_cvars
  PROVE  StepOK
<1>1. [Next]_vars
  BY StepIsStep
<1>2. ASSUME NEW n \in Client, Begin(n) \/ Timer(n) \/ CallBack(n)
      PROVE  StepOK
  BY <1>1, <1>2, BeginOK, TimerOK, CallBackOK
<1>3. ASSUME NEW m \in net, m.dst \in Client,
             \/ Receives(m.dst, m)
             \/ \E fits \in BOOLEAN : RecvLine(m.dst, m, fits)
             \/ RecvAnswer(m.dst, m)
      PROVE  StepOK
  BY <1>1, <1>3, ReceivesOK, RecvLineOK, RecvAnswerOK
<1>4. ASSUME NEW m \in net, m.dst \in Hosts, HostReceives(m.dst, m)
      PROVE  StepOK
  BY <1>4, HostReceivesOK
<1>5. ASSUME NEW h \in Hosts, NEW code \in Codes, Answer(h, code)
      PROVE  StepOK
  BY <1>5, AnswerOK
<1>6. ASSUME NEW h \in Hosts, HostActs(h)
      PROVE  StepOK
  BY <1>6, HostActsOK
<1>7. CASE (Network \/ Elapse) /\ UNCHANGED <<app, said>> /\ NoMail
  <2>1. SInv
    BY OfCInv
  <2>2. Passes
    BY <1>7, <2>1, NetworkPasses, ElapsePasses
  <2>3. QED
    BY <1>7, <2>2, PassesOK
<1>8. CASE UNCHANGED cvars
  BY <1>8, PassesOK DEF cvars, NoMail
<1>9. QED
  BY <1>2, <1>3, <1>4, <1>5, <1>6, <1>7, <1>8 DEF ClientsNext, Codes

LEMMA LInvNext ==
  ASSUME CInv, CInv', LInv, [ClientsNext]_cvars
  PROVE  LInv'
<1>1. [Next]_vars /\ StepOK
  BY StepIsStep, StepOKNext
<1>2. /\ AppOK' /\ LinesNoted' /\ NotesKept /\ KindsKept
      /\ taken \subseteq taken' /\ NewAnswers
      /\ \A c \in Client : Up(c)' => Talk(c)'
      /\ SentMeansAccepted'
  BY <1>1 DEF StepOK
<1>3. DataNoted'
  BY <1>1, DataNotedNext DEF LInv
<1>4. \A c \in Client, h \in Hosts : Answered(c, h)'
  BY <1>1, <1>2, AnsweredNext DEF LInv
<1>5. \A c \in Client : InFlight(c)'
  BY <1>1, <1>2, <1>4, InFlightNext DEF LInv
<1>6. QED
  BY <1>2, <1>3, <1>4, <1>5 DEF LInv, Client

LEMMA LInvInit ==
  ASSUME CInv, ClientsInit
  PROVE  LInv
<1>1. PICK kind \in {"SMTP", "HTTP"} :
         app = [n \in Client |->
                  [kind |-> kind, todo |-> <<>>, status |-> "init",
                   protocolState |-> 0, sendInProgress |-> FALSE]]
  BY DEF ClientsInit
<1>2. Planned(<<>>)
  BY LaterCalls, LaterPlanned
<1>3. AppOK
  <2> DEFINE e == <<>>
             a == [kind |-> kind, todo |-> e, status |-> "init",
                   protocolState |-> 0, sendInProgress |-> FALSE]
  <2>1. e \in Seq(Call) /\ a.todo = e /\ 0 \in 0 .. QUIT
    BY DEF QUIT
  <2>2. a \in App
    BY <2>1 DEF App
  <2>3. Planned(a.todo)
    BY <1>2
  <2>4. app = [n \in Client |-> a]
    BY <1>1
  <2> HIDE DEF a
  <2>5. QED
    BY <2>2, <2>3, <2>4 DEF AppOK
<1>4. /\ net = {} /\ reported = {} /\ said = [n \in Node |-> <<>>]
      /\ \A n \in Node : sock[n].sent = 0 /\ sock[n].state \in {LISTEN, CLOSED}
  BY DEF ClientsInit, Init, isHost
<1>5. LinesNoted
  BY <1>4 DEF LinesNoted
<1>6. \A c \in Client : ~Up(c)
  BY <1>4, StateValues DEF Up, Client
<1>7. QED
  BY <1>3, <1>4, <1>5, <1>6 DEF LInv, DataNoted, Answered, InFlight, SentMeansAccepted

\* A mail that getStatus() calls sent has been taken by the server: "250" and all
\* that led to it cannot be an answer to something else, however late or early the
\* answers come (SMTPClient.cpp onLineReceived(), onReadyToSend()).
THEOREM SentIsAccepted == ClientsSpec /\ ServersListen => []SentMeansAccepted
<1>1. ClientsSpec => Spec
  BY ClientsAreSockets
<1>2. ClientsInit /\ ServersListen => CInv /\ LInv
  BY CInvInit, LInvInit DEF ClientsInit
<1>3. LInv /\ CInv /\ CInv' /\ [ClientsNext]_cvars => LInv'
  BY LInvNext
<1>4. LInv => SentMeansAccepted
  BY DEF LInv
<1>5. QED
  BY <1>1, <1>2, <1>3, <1>4, CInvAlways, PTL DEF ClientsSpec


-----------------------------------------------------------------------------
(* Lengths.                                                                *)

LEMMA Needed ==
    ASSUME NEW length \in Nat
    PROVE  /\ neededChars(length) \in Nat
           /\ 6 * neededChars(length) \in 8 * length .. 8 * length + 5
<1> DEFINE x == length * 8
<1>1. x \in Nat /\ x = 8 * length
  OBVIOUS
<1>2. neededChars(length) = x \div 6 + (IF x % 6 > 0 THEN 1 ELSE 0)
  BY DEF neededChars
<1> HIDE DEF x
<1>3. x \div 6 \in Nat /\ x % 6 \in 0 .. 5 /\ x = 6 * (x \div 6) + (x % 6)
  BY <1>1
<1> QED
  BY <1>1, <1>2, <1>3

LEMMA Padded ==
    ASSUME NEW length \in Nat
    PROVE  /\ outputLength(length) \in Nat
           /\ outputLength(length) \in neededChars(length) .. neededChars(length) + 3
           /\ outputLength(length) % 4 = 0
<1> DEFINE needed == neededChars(length)
<1>1. needed \in Nat
  BY Needed
<1>2. outputLength(length) = IF needed % 4 > 0 THEN needed + (4 - (needed % 4)) ELSE needed
  BY DEF outputLength
<1> HIDE DEF needed
<1>3. /\ needed % 4 \in 0 .. 3 /\ needed \div 4 \in Nat
      /\ needed = 4 * (needed \div 4) + (needed % 4)
  BY <1>1
<1>4. CASE needed % 4 > 0
  <2>1. outputLength(length) = 4 * (needed \div 4 + 1)
    BY <1>2, <1>3, <1>4
  <2> QED
    BY <1>1, <1>2, <1>3, <1>4, <2>1 DEF needed
<1>5. CASE ~ (needed % 4 > 0)
  BY <1>1, <1>2, <1>3, <1>5 DEF needed
<1> QED
  BY <1>4, <1>5

\* The output has the letters that the text needs, and up to three Pads that
\* make it divisible by four (Encode).
THEOREM LengthsAreRight ==
    ASSUME NEW text \in Text
    PROVE  LengthsRight(text)
<1>1. Len(text) \in Nat
  BY DEF Text
<1> QED
  BY <1>1, Needed, Padded DEF LengthsRight

LEMMA EncodedIsSeq ==
    ASSUME NEW text \in Text
    PROVE  Len(Encode(text)) = outputLength(Len(text)) /\ outputLength(Len(text)) \in Nat
<1>1. outputLength(Len(text)) \in Nat
  BY Needed, Padded DEF Text
<1>2. \A n \in 1 .. outputLength(Len(text)) : Encode(text)[n] \in SUBSET (0 .. 31)
  BY DEF Encode, Index, Right, Pad
<1> QED
  BY <1>1, <1>2 DEF Encode

LEMMA LetterAt ==
    ASSUME NEW text \in Text, NEW i \in 0 .. neededChars(Len(text)) - 1
    PROVE  Encode(text)[i + 1] = Index(text, i)
<1>1. Len(text) \in Nat
  BY DEF Text
<1> DEFINE needed == neededChars(Len(text))
           all == outputLength(Len(text))
<1>2. needed \in Nat /\ all \in Nat /\ all >= needed
  BY <1>1, Needed, Padded
<1>3. i \in 0 .. needed - 1
  OBVIOUS
<1> HIDE DEF needed, all
<1>4. i + 1 \in 1 .. all /\ i + 1 - 1 = i /\ i < needed
  BY <1>2, <1>3
<1>5. Encode(text) = [n \in 1 .. all |-> IF n - 1 < needed THEN Index(text, n - 1) ELSE Pad]
  BY DEF Encode, needed, all
<1> QED
  BY <1>4, <1>5

-----------------------------------------------------------------------------
(* Letters.                                                                *)

\* The bit b of the letter at i is the bit b + 18 - 6 * (i % 4) of its three chars.
LEMMA ShiftedOut ==
    ASSUME NEW input, NEW i \in Nat, NEW b \in 0 .. 5
    PROVE  b \in Index(input, i) <=> b + 18 - 6 * (i % 4) \in Bank(input, i)
<1>1. i % 4 \in 0 .. 3
  OBVIOUS
<1>2. b \in Index(input, i) <=> b + 26 \in Left(Bank(input, i), 8 + 6 * (i % 4))
  BY DEF Index, Right
<1>3. b + 26 - (8 + 6 * (i % 4)) = b + 18 - 6 * (i % 4)
  BY <1>1
<1> QED
  BY <1>2, <1>3 DEF Left

LEMMA InWord ==
    ASSUME NEW ch \in Char, NEW x \in Int
    PROVE  /\ x < 0 => x \notin Word(ch)
           /\ x \in 0 .. 7 => (x \in Word(ch) <=> x \in ch)
           /\ x > 7 /\ 7 \notin ch => x \notin Word(ch)
<1>1. ch \subseteq 0 .. 7
  BY DEF Char
<1>2. CASE 7 \in ch
  BY <1>1, <1>2 DEF Word
<1>3. CASE 7 \notin ch
  BY <1>1, <1>3 DEF Word
<1> QED
  BY <1>2, <1>3

\* Where chars of a three have no sign, each bit of the three is one of a char.
LEMMA BitOfThree ==
    ASSUME NEW input \in Seq(Char), NEW i \in Nat, NEW v \in 0 .. 23,
           \A j \in 1 .. 2 : (i \div 4) * 3 + j + 1 <= Len(input)
                               => 7 \notin input[(i \div 4) * 3 + j + 1]
    PROVE  v \in Bank(input, i) <=>
             LET n == (i \div 4) * 3 + (2 - v \div 8) + 1
             IN  n <= Len(input) /\ v % 8 \in input[n]
<1> DEFINE start == (i \div 4) * 3
           j == 2 - v \div 8
           At(k) == v - (16 - 8 * k) \in Word(input[start + k + 1])
<1>1. start \in Nat /\ Len(input) \in Nat
  OBVIOUS
<1>2. v \div 8 \in 0 .. 2 /\ v % 8 \in 0 .. 7 /\ v = 8 * (v \div 8) + (v % 8)
  OBVIOUS
<1>3. v \in Bank(input, i) <=> \E k \in 0 .. 2 : start + k < Len(input) /\ At(k)
  <2>1. v \in Bank(input, i) <=> \E k \in 0 .. 2 : /\ start + k < Len(input)
                                                  /\ v \in Left(Word(input[start + k + 1]), 16 - 8 * k)
    BY Zenon DEF Bank
  <2>2. \A word, k : v \in Left(word, k) <=> v - k \in word
    BY DEF Left
  <2> QED
    BY <2>1, <2>2, Zenon
<1>4. j \in 0 .. 2 /\ v - (16 - 8 * j) = v % 8
  BY <1>2
<1>5. ASSUME NEW k \in 0 .. 2, start + k < Len(input)
      PROVE  input[start + k + 1] \in Char
  BY <1>1, <1>5
<1>6. ASSUME start + j < Len(input)
      PROVE  At(j) <=> v % 8 \in input[start + j + 1]
  <2>1. input[start + j + 1] \in Char
    BY <1>4, <1>5, <1>6
  <2>2. At(j) <=> v % 8 \in Word(input[start + j + 1])
    BY <1>4
  <2> HIDE DEF start, j, At
  <2> QED
    BY <1>2, <2>1, <2>2, InWord
<1>7. ASSUME NEW k \in 0 .. 2, k # j, start + k < Len(input), At(k)
      PROVE  FALSE
  <2>1. v - (16 - 8 * k) = (v % 8) + 8 * (k - j)
    BY <1>4, <1>7, <1>2
  <2>2. CASE k < j
    <3>1. v - (16 - 8 * k) < 0
      BY <1>2, <1>4, <2>1, <2>2
    <3>2. input[start + k + 1] \in Char
      BY <1>5, <1>7
    <3>3. v - (16 - 8 * k) \in Word(input[start + k + 1])
      BY <1>7
    <3>4. v - (16 - 8 * k) \in Int
      OBVIOUS
    <3> HIDE DEF start, j, At
    <3> QED
      BY ONLY <3>1, <3>2, <3>3, <3>4, InWord, Zenon
  <2>3. CASE k > j
    <3>1. v - (16 - 8 * k) > 7
      BY <1>2, <1>4, <2>1, <2>3
    <3>2. 7 \notin input[start + k + 1]
      <4>1. k \in 1 .. 2
        <5> HIDE DEF j
        <5> QED
          BY <1>4, <1>7, <2>3
      <4>2. start + k + 1 <= Len(input)
        <5> HIDE DEF start
        <5> QED
          BY <1>1, <1>7
      <4> QED
        BY <4>1, <4>2
    <3>3. input[start + k + 1] \in Char
      BY <1>5, <1>7
    <3>4. v - (16 - 8 * k) \in Word(input[start + k + 1])
      BY <1>7
    <3>5. v - (16 - 8 * k) \in Int
      OBVIOUS
    <3> HIDE DEF start, j, At
    <3> QED
      BY ONLY <3>1, <3>2, <3>3, <3>4, <3>5, InWord, Zenon
  <2> QED
    BY <1>4, <1>7, <2>2, <2>3
<1>8. start + j + 1 <= Len(input) <=> start + j < Len(input)
  BY <1>1, <1>4
<1> HIDE DEF start, j, At
<1>9. v \in Bank(input, i) <=> start + j < Len(input) /\ v % 8 \in input[start + j + 1]
  BY <1>3, <1>4, <1>6, <1>7
<1> QED
  BY <1>8, <1>9 DEF start, j

\* The place of a letter's bit in the text.
LEMMA PlaceInText ==
    ASSUME NEW i \in Nat, NEW b \in 0 .. 5
    PROVE  LET v == b + 18 - 6 * (i % 4)
               p == 6 * i + 5 - b
           IN  /\ v \in 0 .. 23 /\ p \in Nat
               /\ p \div 8 + 1 = (i \div 4) * 3 + (2 - v \div 8) + 1
               /\ 7 - (p % 8) = v % 8
<1> DEFINE q == i \div 4
           r == i % 4
           v == b + 18 - 6 * r
           p == 6 * i + 5 - b
<1>1. q \in Nat /\ r \in 0 .. 3 /\ i = 4 * q + r
  OBVIOUS
<1>2. v \in 0 .. 23 /\ p \in Nat
  BY <1>1
<1>3. v \div 8 \in 0 .. 2 /\ v % 8 \in 0 .. 7 /\ v = 8 * (v \div 8) + (v % 8)
  BY <1>2
<1>4. p = 8 * (3 * q + 2 - v \div 8) + (7 - (v % 8))
  BY <1>1, <1>3
<1>5. p \div 8 = 3 * q + 2 - v \div 8 /\ p % 8 = 7 - (v % 8)
  <2> DEFINE d == 3 * q + 2 - v \div 8
             e == 7 - (v % 8)
  <2>1. d \in Nat /\ e \in 0 .. 7 /\ p = 8 * d + e
    BY <1>1, <1>3, <1>4
  <2> HIDE DEF d, e, p
  <2>2. p \div 8 = d /\ p % 8 = e
    BY <2>1
  <2> QED
    BY <2>2 DEF d, e
<1>6. (i \div 4) * 3 + (2 - v \div 8) + 1 = 3 * q + 2 - v \div 8 + 1
  BY <1>1, <1>3
<1>7. 7 - (7 - (v % 8)) = v % 8
  BY <1>3
<1> QED
  BY <1>2, <1>5, <1>6, <1>7

\* Every letter whose three chars have no sign but the first is the six bits of
\* the text that it should be (Encode).
THEOREM OnlyItsThreeIsSpoilt ==
    ASSUME NEW text \in Text
    PROVE  SpoilsItsThree(text)
<1>1. text \in Seq(Char) /\ Len(text) \in Nat
  BY DEF Text
<1>2. SUFFICES ASSUME NEW i \in 0 .. neededChars(Len(text)) - 1,
                      \A j \in 1 .. 2 : (i \div 4) * 3 + j + 1 <= Len(text)
                                          => 7 \notin text[(i \div 4) * 3 + j + 1]
               PROVE  Encode(text)[i + 1] = SixBits(text, i)
  BY DEF SpoilsItsThree
<1>3. i \in Nat
  BY <1>1, Needed
<1>4. Encode(text)[i + 1] = Index(text, i)
  BY LetterAt
<1>5. ASSUME NEW b \in 0 .. 5
      PROVE  b \in Index(text, i) <=> TextBit(text, 6 * i + 5 - b)
  <2> DEFINE v == b + 18 - 6 * (i % 4)
             p == 6 * i + 5 - b
             n == (i \div 4) * 3 + (2 - v \div 8) + 1
  <2>1. v \in 0 .. 23 /\ p \div 8 + 1 = n /\ 7 - (p % 8) = v % 8
    BY <1>3, PlaceInText
  <2>2. b \in Index(text, i) <=> v \in Bank(text, i)
    BY <1>3, ShiftedOut
  <2>3. v \in Bank(text, i) <=> n <= Len(text) /\ v % 8 \in text[n]
    BY <1>1, <1>2, <1>3, <2>1, BitOfThree
  <2>4. TextBit(text, p) <=> n <= Len(text) /\ v % 8 \in text[n]
    BY <2>1 DEF TextBit
  <2> QED
    BY <2>2, <2>3, <2>4
<1>6. Index(text, i) \subseteq 0 .. 5
  <2>1. ASSUME NEW x \in Index(text, i)
        PROVE  x \in 0 .. 5
    <3>1. x \in 0 .. 31 /\ x + 26 \in Left(Bank(text, i), 8 + 6 * (i % 4))
      BY DEF Index, Right
    <3>2. x + 26 \in 0 .. 31
      BY <3>1 DEF Left
    <3> QED
      BY <3>1, <3>2
  <2> QED
    BY <2>1
<1> QED
  BY <1>4, <1>5, <1>6 DEF SixBits

\* A text of chars below 128 is encoded as Base64 says (Encode).
THEOREM AsciiIsEncoded ==
    ASSUME NEW text \in Text
    PROVE  EncodesAscii(text)
<1>1. SUFFICES ASSUME Ascii(text), NEW i \in 0 .. neededChars(Len(text)) - 1
               PROVE  Encode(text)[i + 1] = SixBits(text, i)
  BY DEF EncodesAscii
<1>2. i \in Nat /\ Len(text) \in Nat /\ DOMAIN text = 1 .. Len(text)
  BY Needed DEF Text
<1>3. ASSUME NEW j \in 1 .. 2, (i \div 4) * 3 + j + 1 <= Len(text)
      PROVE  7 \notin text[(i \div 4) * 3 + j + 1]
  BY <1>1, <1>2, <1>3 DEF Ascii
<1> QED
  BY <1>1, <1>3, OnlyItsThreeIsSpoilt DEF SpoilsItsThree

-----------------------------------------------------------------------------
(* Back again.                                                             *)

\* Bit b of the char at n of what is decoded is that of the text.
LEMMA BitBack ==
    ASSUME NEW text \in Text, Ascii(text), NEW n \in Nat \ {0},
           4 * ((n - 1) \div 3) + 4 <= outputLength(Len(text)), NEW b \in 0 .. 7
    PROVE  b \in Right(DecodeBank(Encode(text), ((n - 1) \div 3) * 4), 24 - 8 * ((n - 1) % 3))
             <=> n <= Len(text) /\ b \in text[n]
<1> DEFINE q == (n - 1) \div 3
           s == (n - 1) % 3
           w == b + (24 - 8 * s)
           code == Encode(text)
           In(k) == code[q * 4 + k + 1] # Pad /\ w - (26 - 6 * k) \in code[q * 4 + k + 1]
<1>1. q \in Nat /\ s \in 0 .. 2 /\ n - 1 = 3 * q + s
  OBVIOUS
<1>2. w \in 8 .. 31
  BY <1>1
<1>3. b \in Right(DecodeBank(code, q * 4), 24 - 8 * s) <=> w \in DecodeBank(code, q * 4)
  BY <1>1 DEF Right
<1>4. w \in DecodeBank(code, q * 4) <=> \E k \in 0 .. 3 : In(k)
  <2>1. w \in DecodeBank(code, q * 4) <=>
          \E k \in 0 .. 3 : /\ code[q * 4 + k + 1] # Pad
                            /\ w \in Left(code[q * 4 + k + 1], 26 - 6 * k)
    BY Zenon DEF DecodeBank
  <2>2. \A k \in 0 .. 3 : In(k) <=> /\ code[q * 4 + k + 1] # Pad
                                    /\ w \in Left(code[q * 4 + k + 1], 26 - 6 * k)
    BY <1>2 DEF Left
  <2> HIDE DEF In, w, code
  <2> QED
    BY <2>1, <2>2
<1> DEFINE L == Len(text)
           needed == neededChars(L)
           all == outputLength(L)
<1>5. /\ L \in Nat /\ needed \in Nat /\ all \in Nat
      /\ 6 * needed >= 8 * L /\ needed <= all /\ 4 * q + 4 <= all
  <2>1. L \in Nat
    BY DEF Text
  <2> QED
    BY <2>1, Needed, Padded
<1>6. ASSUME NEW k \in 0 .. 3
      PROVE  In(k) <=> /\ w - (26 - 6 * k) \in 0 .. 5
                       /\ n <= Len(text) /\ b \in text[n]
  <2> DEFINE i == q * 4 + k
             x == w - (26 - 6 * k)
             p == 6 * i + 5 - x
  <2>1. i \in Nat /\ x \in Int /\ i < all
    <3> HIDE DEF all, w, q
    <3> QED
      BY <1>1, <1>2, <1>5
  <2>2. p = 8 * (n - 1) + (7 - b)
    BY <1>1, <2>1
  <2>3. p \div 8 = n - 1 /\ p % 8 = 7 - b
    <3> DEFINE d == n - 1
               e == 7 - b
    <3>1. d \in Nat /\ e \in 0 .. 7 /\ p = 8 * d + e
      BY <2>2
    <3> HIDE DEF d, e, p
    <3>2. p \div 8 = d /\ p % 8 = e
      BY <3>1
    <3> QED
      BY <3>2 DEF d, e
  <2>4. TextBit(text, p) <=> n <= Len(text) /\ b \in text[n]
    <3>1. p \div 8 + 1 = n /\ 7 - (p % 8) = b
      BY <2>3
    <3> QED
      BY <3>1 DEF TextBit
  <2>5. CASE i < needed
    <3>1. i \in 0 .. needed - 1
      <4> HIDE DEF needed, i
      <4> QED
        BY <1>5, <2>1, <2>5
    <3>2. code[i + 1] = SixBits(text, i)
      BY <3>1, AsciiIsEncoded DEF EncodesAscii
    <3>3. code[i + 1] # Pad
      <4>1. 6 \notin SixBits(text, i) /\ 6 \in Pad
        BY DEF SixBits, Pad
      <4> QED
        BY <3>2, <4>1
    <3>4. x \in code[i + 1] <=> x \in 0 .. 5 /\ TextBit(text, p)
      BY <3>2 DEF SixBits
    <3> QED
      BY <2>4, <3>3, <3>4
  <2>6. CASE ~ (i < needed)
    <3>1. code[i + 1] = Pad
      <4>1. i + 1 \in 1 .. outputLength(Len(text)) /\ i + 1 - 1 = i
        BY <1>5, <2>1, EncodedIsSeq
      <4> QED
        BY <2>6, <4>1 DEF Encode
    <3>2. ASSUME x \in 0 .. 5
          PROVE  ~ (n <= Len(text))
      <4>1. 6 * i >= 8 * L
        <5> HIDE DEF needed, i, L
        <5> QED
          BY <1>5, <2>1, <2>6
      <4>2. 6 * i <= p
        BY <2>1, <3>2
      <4> QED
        BY <1>5, <2>2, <4>1, <4>2
    <3> QED
      BY <3>1, <3>2
  <2> QED
    BY <2>5, <2>6
<1>7. \E k \in 0 .. 3 : w - (26 - 6 * k) \in 0 .. 5
  <2>1. w \in 26 .. 31 \/ w \in 20 .. 25 \/ w \in 14 .. 19 \/ w \in 8 .. 13
    BY <1>2
  <2> QED
    BY <2>1
<1> HIDE DEF w, In, code
<1>8. (\E k \in 0 .. 3 : In(k)) <=> n <= Len(text) /\ b \in text[n]
  BY <1>6, <1>7
<1> QED
  BY <1>3, <1>4, <1>8 DEF code

\* Decode() gives a text of chars below 128 back, and after it only what ends a
\* string (Encode, Decode).
THEOREM DecodeRestores ==
    ASSUME NEW text \in Text
    PROVE  RoundTrip(text)
<1> SUFFICES ASSUME Ascii(text) PROVE RoundTrip(text)
  BY DEF RoundTrip
<1> DEFINE L == Len(text)
           O == outputLength(L)
           N == (O * 6) \div 8
           out == Decode(Encode(text))
<1>1. /\ L \in Nat /\ text \in Seq(Char) /\ O \in Nat /\ O % 4 = 0
      /\ 6 * O >= 8 * L /\ Len(Encode(text)) = O
  <2> DEFINE needed == neededChars(L)
  <2>1. L \in Nat /\ text \in Seq(Char)
    BY DEF Text
  <2>2. needed \in Nat /\ 6 * needed >= 8 * L
    BY <2>1, Needed
  <2>3. O \in Nat /\ O >= needed /\ O % 4 = 0
    BY <2>1, <2>2, Padded
  <2>4. Len(Encode(text)) = O
    BY EncodedIsSeq
  <2> HIDE DEF needed, O, L
  <2> QED
    BY <2>1, <2>2, <2>3, <2>4
<1>2. N \in Nat /\ 4 * N = 3 * O /\ N >= L
  <2>1. O = 4 * (O \div 4) /\ O \div 4 \in Nat
    BY <1>1
  <2> DEFINE g == O \div 4
  <2>2. O * 6 = 8 * (3 * g)
    BY <2>1
  <2>3. g \in Nat /\ O = 4 * g
    BY <2>1
  <2> HIDE DEF g
  <2>4. N = 3 * g
    BY <2>2, <2>3
  <2> QED
    BY <1>1, <2>3, <2>4
<1>3. out = [n \in 1 .. N |->
               Right(DecodeBank(Encode(text), ((n - 1) \div 3) * 4),
                     24 - 8 * ((n - 1) % 3)) \cap (0 .. 7)]
  BY <1>1 DEF Decode
<1>4. Len(out) = N
  <2>1. \A n \in 1 .. N : out[n] \in SUBSET (0 .. 7)
    BY <1>3
  <2> HIDE DEF N, out
  <2> QED
    BY <1>2, <1>3, <2>1
<1>5. ASSUME NEW n \in 1 .. N
      PROVE  out[n] = IF n <= L THEN text[n] ELSE Nul
  <2>1. n \in Nat \ {0}
    OBVIOUS
  <2>2. 4 * ((n - 1) \div 3) + 4 <= O
    <3> DEFINE m == n - 1
               q == m \div 3
    <3>1. q \in Nat /\ 3 * q <= m /\ m < N
      BY <1>2
    <3> HIDE DEF q, m, N
    <3>2. 12 * q < 3 * O
      <4>1. 4 * N = 3 * O /\ N \in Nat /\ O \in Nat
        BY <1>1, <1>2
      <4>2. m \in Nat
        BY DEF m
      <4> HIDE DEF O
      <4> QED
        BY <3>1, <4>1, <4>2
    <3>3. O = 4 * (O \div 4) /\ O \div 4 \in Nat
      BY <1>1
    <3>4. 4 * q + 4 <= O
      BY <1>1, <3>1, <3>2, <3>3
    <3> QED
      BY <3>4 DEF q, m
  <2>3. \A b \in 0 .. 7 : b \in out[n] <=> n <= L /\ b \in text[n]
    BY <1>3, <2>1, <2>2, BitBack
  <2>4. out[n] \subseteq 0 .. 7
    BY <1>3
  <2>5. n <= L => text[n] \subseteq 0 .. 7
    BY <1>1 DEF Char
  <2> HIDE DEF out
  <2> QED
    BY <2>3, <2>4, <2>5 DEF Nul
<1> QED
  BY <1>2, <1>4, <1>5 DEF RoundTrip

=============================================================================
