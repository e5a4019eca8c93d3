---------------------------- MODULE StreamProofs ----------------------------
(***************************************************************************)
(* Theorems about the two ends of a connection of Socket: AckNeverAhead and *)
(* HandshakeAgreed in every configuration; DataInOrder, AckedIsDelivered    *)
(* and FinCounted where clients connect to hosts by their address           *)
(* (ServersListen); of one client and one host (TwoEnds), that they         *)
(* implement ReliableStream; and, with devices as in SocketForeign,         *)
(* TimeWaitAfterBothClosed.                                                *)
(*                                                                         *)
(* Every step of Socket is first put into one of a few kinds (Kind), which  *)
(* say what it does to the fields and to the wire.  Three invariants then   *)
(* build on one another: BInv, what may be counted on of a number in flight; *)
(* HInv, the handshake; CInv, both ends of every connection.  FInv is what   *)
(* CInv says of the FINs alone, and holds of foreign devices as well.        *)
(***************************************************************************)
EXTENDS SocketProofs, SocketStream, SocketForeign

-----------------------------------------------------------------------------
(* What the helpers leave alone.                                           *)

\* The address, the ports and what has been received are the same.
Same(s, t) ==
    /\ t.localPort = s.localPort /\ t.nextPort = s.nextPort
    /\ t.remoteIP = s.remoteIP /\ t.remotePort = s.remotePort
    /\ t.remoteSeq = s.remoteSeq /\ t.start = s.start /\ t.got = s.got

\* Nothing was sent that counts either: at most the state is another.
Quiet(s, t) ==
    /\ Same(s, t)
    /\ t.opened = s.opened /\ t.sent = s.sent
    /\ t.localSeq = s.localSeq /\ t.stash = s.stash

LEMMA QuietTrans ==
  ASSUME NEW s, NEW t, NEW u, Quiet(s, t), Quiet(t, u)
  PROVE  Quiet(s, u)
  BY DEF Quiet, Same

LEMMA SetStateQuiet ==
  ASSUME NEW s \in Socket_, NEW st \in State
  PROVE  LET t == setState(s, st)
         IN  t \in Socket_ /\ Quiet(s, t) /\ t.state = st
  BY DEF setState, Socket_, Quiet, Same

LEMMA ClosedQuiet ==
  ASSUME NEW n \in Node, NEW s \in Socket_
  PROVE  LET t == closed(n, s)
         IN  t \in Socket_ /\ Quiet(s, t) /\ t.state = IF isHost(n) THEN LISTEN ELSE CLOSED
<1>1. LISTEN \in State /\ CLOSED \in State
  BY StateByte, StateValues DEF States
<1>2. QED
  BY <1>1, SetStateQuiet DEF closed

LEMMA SentPlainQuiet ==
  ASSUME NEW s \in Socket_
  PROVE  LET t == SentPlain(s)
         IN  t \in Socket_ /\ Quiet(s, t) /\ t.state = s.state
<1> DEFINE five == 5
<1>1. five \in 0 .. 6 /\ SentPlain(s) = [s EXCEPT !.words = five]
  BY DEF SentPlain
<1> HIDE DEF five
<1>2. QED
  BY <1>1 DEF Socket_, Quiet, Same

LEMMA ForceClosedQuiet ==
  ASSUME NEW n \in Node, NEW s \in Socket_
  PROVE  LET t == ForceClosed(n, s)
         IN  t \in Socket_ /\ Quiet(s, t) /\ t.state = IF isHost(n) THEN LISTEN ELSE CLOSED
<1>1. \A u \in Socket_ : /\ closed(n, u) \in Socket_ /\ Quiet(u, closed(n, u))
                         /\ closed(n, u).state = IF isHost(n) THEN LISTEN ELSE CLOSED
  BY ClosedQuiet
<1>2. SentPlain(s) \in Socket_ /\ Quiet(s, SentPlain(s))
  BY SentPlainQuiet
<1>3. CASE s.state = TIME_WAIT
  BY <1>1, <1>3 DEF ForceClosed
<1>4. CASE s.state # TIME_WAIT
  <2>1. ForceClosed(n, s) = closed(n, SentPlain(s))
    BY <1>4 DEF ForceClosed
  <2>2. Quiet(s, closed(n, SentPlain(s)))
    BY <1>1, <1>2, QuietTrans
  <2>3. QED
    BY <1>1, <1>2, <2>1, <2>2
<1>5. QED
  BY <1>3, <1>4

\* A SYN or a FIN counts one sequence number, and nothing else changes.
Counts(s, t, k) ==
    /\ Same(s, t) /\ t.opened = s.opened
    /\ t.sent = s.sent /\ t.stash = s.stash /\ t.localSeq = s.localSeq + k

LEMMA SentControl ==
  ASSUME NEW s \in Socket_
  PROVE  /\ SentSyn(s) \in Socket_ /\ Counts(s, SentSyn(s), 1) /\ SentSyn(s).state = s.state
         /\ SentFin(s) \in Socket_ /\ Counts(s, SentFin(s), 1) /\ SentFin(s).state = s.state
<1> DEFINE v   == s.localSeq + 1
           six == 6
<1>1. v \in Nat /\ six \in 0 .. 6
  BY DEF Socket_
<1>2. SentSyn(s) = [s EXCEPT !.words = six, !.localSeq = v]
  BY DEF SentSyn
<1>3. SentFin(s) = [s EXCEPT !.localSeq = v]
  BY DEF SentFin
<1> HIDE DEF v, six
<1>4. SentSyn(s) \in Socket_ /\ Same(s, SentSyn(s)) /\ SentSyn(s).opened = s.opened
      /\ SentSyn(s).sent = s.sent /\ SentSyn(s).stash = s.stash
      /\ SentSyn(s).localSeq = v /\ SentSyn(s).state = s.state
  BY <1>1, <1>2 DEF Socket_, Same
<1>5. SentFin(s) \in Socket_ /\ Same(s, SentFin(s)) /\ SentFin(s).opened = s.opened
      /\ SentFin(s).sent = s.sent /\ SentFin(s).stash = s.stash
      /\ SentFin(s).localSeq = v /\ SentFin(s).state = s.state
  BY <1>1, <1>3 DEF Socket_, Same
<1>6. QED
  BY <1>4, <1>5 DEF Counts, v

LEMMA CountsThen ==
  ASSUME NEW s, NEW t, NEW u, NEW k, Counts(s, t, k), Quiet(t, u)
  PROVE  Counts(s, u, k)
  BY DEF Counts, Quiet, Same

LEMMA ThenCounts ==
  ASSUME NEW s, NEW t, NEW u, NEW k, Quiet(s, t), Counts(t, u, k)
  PROVE  Counts(s, u, k)
  BY DEF Counts, Quiet, Same

\* The counter of the attempts is of no account.
LEMMA AttemptsQuiet ==
  ASSUME NEW s \in Socket_, NEW k \in Nat
  PROVE  LET t == [s EXCEPT !.attempts = k]
         IN  t \in Socket_ /\ Quiet(s, t) /\ t.state = s.state
  BY DEF Socket_, Quiet, Same

\* Where close() leads.
ClosedState(st) ==
    IF st \in {3, 4, 20, 244} THEN FIN_WAIT_1 ELSE IF st = CLOSE_WAIT THEN LAST_ACK ELSE st

LEMMA AfterCloseCounts ==
  ASSUME NEW s \in Socket_
  PROVE  LET t == AfterClose(s)
         IN  t \in Socket_ /\ Counts(s, t, 1) /\ t.state = ClosedState(s.state)
<1> DEFINE one == 1
           f == SentFin(s)
           t == [f EXCEPT !.attempts = one]
<1>1. f \in Socket_ /\ Counts(s, f, 1) /\ f.state = s.state
  BY SentControl
<1>2. one \in Nat
  OBVIOUS
<1> HIDE DEF one, f
<1>3. t \in Socket_ /\ Quiet(f, t) /\ t.state = f.state
  BY <1>1, <1>2, AttemptsQuiet
<1>4. Counts(s, t, 1) /\ t.state = s.state
  BY <1>1, <1>3, CountsThen
<1>5. AfterClose(s) =
        CASE Low(s.state) = ESTABLISHED -> setState(t, FIN_WAIT_1)
          [] s.state = SYN_RECEIVED     -> setState(t, FIN_WAIT_1)
          [] s.state = CLOSE_WAIT       -> setState(t, LAST_ACK)
          [] OTHER                      -> t
  BY DEF AfterClose, f, one
<1> HIDE DEF t
<1>6. \A st \in State : /\ setState(t, st) \in Socket_ /\ setState(t, st).state = st
                        /\ Counts(s, setState(t, st), 1)
  BY <1>3, <1>4, SetStateQuiet, CountsThen
<1>7. FIN_WAIT_1 \in State /\ LAST_ACK \in State /\ s.state \in State
  BY StateByte, StateValues DEF States, Socket_
<1>8. Low(s.state) = ESTABLISHED <=> s.state \in {4, 20, 244}
  BY <1>7, StateByte, StateValues, ZenonT(60)
<1>9. CASE Low(s.state) = ESTABLISHED
  <2>1. AfterClose(s) = setState(t, FIN_WAIT_1)
    <3>1. s.state # SYN_RECEIVED /\ s.state # CLOSE_WAIT
      BY <1>8, <1>9, StateValues
    <3>2. QED
      BY <1>5, <1>9, <3>1
  <2>2. ClosedState(s.state) = FIN_WAIT_1
    BY <1>8, <1>9 DEF ClosedState
  <2>3. QED
    BY <1>6, <1>7, <2>1, <2>2
<1>10. CASE s.state = SYN_RECEIVED
  <2>1. Low(s.state) # ESTABLISHED /\ s.state = 3 /\ s.state # CLOSE_WAIT
    BY <1>8, <1>10, StateValues
  <2>2. AfterClose(s) = setState(t, FIN_WAIT_1)
    BY <1>5, <1>10, <2>1
  <2>3. QED
    BY <1>6, <1>7, <2>1, <2>2 DEF ClosedState
<1>11. CASE s.state = CLOSE_WAIT
  <2>1. Low(s.state) # ESTABLISHED /\ s.state = 7 /\ s.state # SYN_RECEIVED
    BY <1>8, <1>11, StateValues
  <2>2. AfterClose(s) = setState(t, LAST_ACK)
    BY <1>5, <1>11, <2>1
  <2>3. QED
    BY <1>6, <1>7, <1>11, <2>1, <2>2 DEF ClosedState
<1>12. CASE Low(s.state) # ESTABLISHED /\ s.state # SYN_RECEIVED /\ s.state # CLOSE_WAIT
  <2>1. AfterClose(s) = t
    BY <1>5, <1>12
  <2>2. ClosedState(s.state) = s.state
    BY <1>8, <1>12, StateValues DEF ClosedState
  <2>3. QED
    BY <1>3, <1>4, <2>1, <2>2
<1>13. QED
  BY <1>9, <1>10, <1>11, <1>12

\* send() takes the next bytes of the stream at the next sequence number.
SendsOf(s, t, d) ==
    /\ Same(s, t) /\ t.opened = s.opened
    /\ t.sent = s.sent + d.len /\ t.localSeq = s.localSeq + d.len
    /\ t.state = 244 /\ t.stash = d

LEMMA SentDataCounts ==
  ASSUME NEW s \in Socket_, Low(s.state) = ESTABLISHED, NEW d \in Data
  PROVE  LET t == SentData(s, d)
         IN  /\ t \in Socket_ /\ Same(s, t) /\ t.opened = s.opened /\ t.sent = s.sent
             /\ t.localSeq = s.localSeq + d.len /\ t.state = 244 /\ t.stash = d
<1> DEFINE v    == s.localSeq + d.len
           five == 5
           st   == Awaiting(s.state)
           u    == [s EXCEPT !.words = five, !.localSeq = v]
           t    == [u EXCEPT !.state = st, !.stash = d]
<1>1. v \in Nat /\ five \in 0 .. 6
  BY SMTT(30) DEF Socket_, Data
<1>2. st = 244 /\ st \in State
  BY StateByte, StateValues DEF States, Socket_, Awaiting
<1>3. SentData(s, d) = t
  BY DEF SentData
<1> HIDE DEF v, five, st
<1>4. /\ u \in Socket_ /\ u.localSeq = v /\ Same(s, u) /\ u.opened = s.opened
      /\ u.sent = s.sent
  <2>1. s \in Socket_ /\ v \in Nat /\ five \in 0 .. 6
    BY <1>1
  <2>2. QED
    BY <2>1 DEF Socket_, Same
<1> HIDE DEF u
<1>5. /\ t \in Socket_ /\ t.localSeq = v /\ Same(u, t) /\ t.opened = u.opened
      /\ t.sent = u.sent /\ t.state = st /\ t.stash = d
  <2>1. st \in State /\ d \in Data /\ u \in Socket_
    BY <1>2, <1>4
  <2>2. QED
    BY <2>1, <1>4 DEF Socket_, Same
<1> HIDE DEF t
<1>6. QED
  BY <1>2, <1>3, <1>4, <1>5 DEF v, Same

LEMMA AfterSendCounts ==
  ASSUME NEW s \in Socket_, Low(s.state) = ESTABLISHED, NEW d \in Data
  PROVE  AfterSend(s, d) \in Socket_ /\ SendsOf(s, AfterSend(s, d), d)
<1> DEFINE r   == SentData(s, d)
           one == 1
           nil == 0
           v   == r.sent + d.len
           t   == [r EXCEPT !.attempts = one, !.age = nil, !.sent = v]
<1>1. /\ r \in Socket_ /\ Same(s, r) /\ r.opened = s.opened /\ r.sent = s.sent
      /\ r.localSeq = s.localSeq + d.len /\ r.state = 244 /\ r.stash = d
  BY SentDataCounts
<1> HIDE DEF r
<1>2. v \in Nat /\ one \in Nat /\ nil \in Nat
  <2>1. r.sent \in Nat /\ d.len \in Nat
    BY <1>1 DEF Socket_, Data
  <2>2. QED
    BY <2>1
<1>3. AfterSend(s, d) = t
  BY DEF AfterSend, r
<1>4. v = s.sent + d.len
  BY <1>1
<1> HIDE DEF one, nil, v
<1>5. /\ t \in Socket_ /\ Same(r, t) /\ t.opened = r.opened /\ t.sent = v
      /\ t.state = r.state /\ t.stash = r.stash /\ t.localSeq = r.localSeq
  BY <1>1, <1>2 DEF Socket_, Same
<1> HIDE DEF t
<1>6. QED
  BY <1>1, <1>3, <1>4, <1>5 DEF SendsOf, Same

\* Where the peer's FIN and its acknowledgements lead.
FinState(s, m) ==
    IF s.state = FIN_WAIT_1 THEN (IF m.ack = s.localSeq THEN TIME_WAIT ELSE CLOSING)
    ELSE IF s.state \in {4, 20, 244} THEN CLOSE_WAIT ELSE s.state

LEMMA AfterFinQuiet ==
  ASSUME NEW s \in Socket_, NEW m
  PROVE  LET t == AfterFin(s, m)
         IN  t \in Socket_ /\ Quiet(s, t) /\ t.state = FinState(s, m)
<1>1. TIME_WAIT \in State /\ CLOSING \in State /\ CLOSE_WAIT \in State /\ s.state \in State
  BY StateByte, StateValues DEF States, Socket_
<1>2. Low(s.state) = ESTABLISHED <=> s.state \in {4, 20, 244}
  BY <1>1, StateByte, StateValues, ZenonT(60)
<1>3. CASE s.state = FIN_WAIT_1
  <2>1. Low(s.state) # ESTABLISHED
    BY <1>2, <1>3, StateValues
  <2>2. AfterFin(s, m) = setState(s, FinState(s, m))
    BY <1>3, <2>1 DEF AfterFin, FinState
  <2>3. FinState(s, m) \in State
    BY <1>1, <1>3 DEF FinState
  <2>4. QED
    BY <2>2, <2>3, SetStateQuiet
<1>4. CASE s.state # FIN_WAIT_1 /\ Low(s.state) = ESTABLISHED
  <2>1. AfterFin(s, m) = setState(s, CLOSE_WAIT) /\ FinState(s, m) = CLOSE_WAIT
    BY <1>2, <1>4 DEF AfterFin, FinState
  <2>2. QED
    BY <1>1, <2>1, SetStateQuiet
<1>5. CASE s.state # FIN_WAIT_1 /\ Low(s.state) # ESTABLISHED
  <2>1. AfterFin(s, m) = s /\ FinState(s, m) = s.state
    BY <1>2, <1>5 DEF AfterFin, FinState
  <2>2. QED
    BY <2>1 DEF Quiet, Same
<1>6. QED
  BY <1>3, <1>4, <1>5

\* Clearing the flag is a step from AWAITING_ACK to ESTABLISHED.
Cleared(st) == IF st \in {20, 244} THEN ESTABLISHED ELSE st

LEMMA ClearAckQuiet ==
  ASSUME NEW s, NEW m, NEW t \in Socket_, t.state # UNKNOWN_HOST
  PROVE  LET u == ClearAck(s, m, t)
         IN  /\ u \in Socket_ /\ Quiet(t, u)
             /\ u.state = IF m.ack = s.localSeq /\ IsAwaiting(s.state)
                          THEN Cleared(t.state) ELSE t.state
<1> DEFINE st == Low(t.state)
           u  == [t EXCEPT !.state = st]
<1>1. t.state \in 1 .. 11 \cup {20, 244}
  BY StateByte, StateValues DEF Socket_, States
<1>2. st = Cleared(t.state)
  <2>1. Low(20) = 4 /\ Low(244) = 4
    BY StateByte, StateValues DEF States
  <2>2. QED
    BY <1>1, <2>1, StateByte, StateValues DEF Cleared
<1>3. Cleared(t.state) \in State
  BY <1>1, StateByte, StateValues DEF States, Cleared
<1>4. ClearAck(s, m, t) = IF m.ack = s.localSeq /\ IsAwaiting(s.state) THEN u ELSE t
  BY DEF ClearAck
<1> HIDE DEF st
<1>5. u \in Socket_ /\ u.state = st /\ Quiet(t, u)
  BY <1>2, <1>3 DEF Socket_, Quiet, Same
<1> HIDE DEF u
<1>6. Quiet(t, t)
  BY DEF Quiet, Same
<1>7. QED
  BY <1>2, <1>4, <1>5, <1>6

AckState(n, st) ==
    IF st = SYN_RECEIVED THEN ESTABLISHED
    ELSE IF st = FIN_WAIT_1 THEN FIN_WAIT_2
    ELSE IF st = CLOSING THEN TIME_WAIT
    ELSE IF st = LAST_ACK THEN (IF isHost(n) THEN LISTEN ELSE CLOSED) ELSE st

LEMMA AfterAckQuiet ==
  ASSUME NEW n \in Node, NEW s \in Socket_
  PROVE  LET t == AfterAck(n, s)
         IN  t \in Socket_ /\ Quiet(s, t) /\ t.state = AckState(n, s.state)
<1>1. \A st \in {ESTABLISHED, FIN_WAIT_2, TIME_WAIT} :
        /\ setState(s, st) \in Socket_ /\ Quiet(s, setState(s, st))
        /\ setState(s, st).state = st
  <2>1. {ESTABLISHED, FIN_WAIT_2, TIME_WAIT} \subseteq State
    BY StateByte, StateValues DEF States
  <2>2. QED
    BY <2>1, SetStateQuiet
<1>2. /\ closed(n, s) \in Socket_ /\ Quiet(s, closed(n, s))
      /\ closed(n, s).state = IF isHost(n) THEN LISTEN ELSE CLOSED
  BY ClosedQuiet
<1>3. Quiet(s, s)
  BY DEF Quiet, Same
<1>4. CASE s.state = SYN_RECEIVED
  BY <1>1, <1>4, StateValues DEF AfterAck, AckState
<1>5. CASE s.state = FIN_WAIT_1
  BY <1>1, <1>5, StateValues DEF AfterAck, AckState
<1>6. CASE s.state = CLOSING
  BY <1>1, <1>6, StateValues DEF AfterAck, AckState
<1>7. CASE s.state = LAST_ACK
  BY <1>2, <1>7, StateValues DEF AfterAck, AckState
<1>8. CASE s.state \notin {SYN_RECEIVED, FIN_WAIT_1, CLOSING, LAST_ACK}
  BY <1>3, <1>8 DEF AfterAck, AckState
<1>9. QED
  BY <1>4, <1>5, <1>6, <1>7, <1>8

LEMMA RcvdQuiet ==
  ASSUME IInv, NEW n \in Node
  PROVE  LET s == Rcvd(n)
         IN  s \in Socket_ /\ Quiet(sock[n], s) /\ s.state = sock[n].state
<1>1. StashSize \in Nat /\ sock[n] \in Socket_
  BY NumberAssumption, OfInv
<1>2. QED
  BY <1>1 DEF Rcvd, Socket_, Quiet, Same

-----------------------------------------------------------------------------
(* What the steps of Next do to the socket of one device and send from it, *)
(* as far as the other end can tell: one definition for each kind of step. *)

\* The fields of a segment sent from a socket with the addresses of s.
Carries(n, s, m, ctl, seq, ack, data) ==
    /\ m.src = n /\ m.dst = s.remoteIP
    /\ m.sport = s.localPort /\ m.dport = s.remotePort
    /\ m.ctl = ctl /\ m.seq = seq /\ m.ack = ack /\ m.data = data

\* A SYN comes alone, and from a Socket of this library so does a FIN.
PlainSyn(m) == HasSyn(m) => m.data.len = 0 /\ ~HasFin(m)
Alone(m) == PlainSyn(m) /\ (HasFin(m) => m.data.len = 0)
SynAlone   == \A m \in net : ~HasRst(m) => PlainSyn(m)
FlagsAlone == \A m \in net : ~HasRst(m) => Alone(m)

SInv == IInv /\ SynAlone

\* The socket of n becomes t, and out is sent.
Becomes(n, t, out) ==
    /\ n \in Node /\ t \in Socket_ /\ out \subseteq Outgoing
    /\ \A m \in out : m.src = n
    /\ Changes(n, t, out)

Handshaken(st) == st \notin {LISTEN, CLOSED}

\* m is for the connection that n has.
FromPeer(n, m) ==
    LET s == sock[n] IN
    /\ m \in net /\ m.dst = n /\ Handshaken(s.state)
    /\ m.src = s.remoteIP /\ m.sport = s.remotePort /\ m.dport = s.localPort

\* Time passes, or a segment is lost.
Passes ==
    /\ net' \subseteq net
    /\ \A n \in Node : Quiet(sock[n], sock'[n]) /\ sock'[n].state = sock[n].state

\* The connection is over: closed().
Leaves(n, t, out) ==
    LET s == sock[n] IN
    /\ Same(s, t) /\ t.sent = s.sent /\ t.localSeq = s.localSeq
    /\ t.state = IF isHost(n) THEN LISTEN ELSE CLOSED
    /\ \A m \in out : HasRst(m)

\* At most an acknowledgement or a reset is sent.
Answers(n, t, out) ==
    LET s == sock[n] IN
    /\ Quiet(s, t) /\ t.state = s.state
    /\ \A m \in out :
          \/ HasRst(m)
          \/ /\ Handshaken(s.state)
             /\ Carries(n, s, m, {"ACK"}, s.localSeq, s.remoteSeq, NoData)

\* The lookup of the name goes on, fails, or finds an address nobody asked for.
Looks(n, t, out) ==
    LET s == sock[n] IN
    /\ n \in Named /\ s.state \in {CLOSED, RESOLVING, UNKNOWN_HOST}
    /\ t.state \in {RESOLVING, UNKNOWN_HOST}
    /\ t.remoteIP \in {s.remoteIP, Server[n]}
    /\ t.localPort = s.localPort /\ t.nextPort = s.nextPort
    /\ t.remotePort = s.remotePort /\ t.remoteSeq = s.remoteSeq
    /\ t.localSeq = s.localSeq
    /\ out = {}

\* connect() with a port of its own.
Calls(n, t, out) ==
    LET s == sock[n] IN
    /\ n \notin Hosts /\ s.state \in {CLOSED, RESOLVING}
    /\ t.remoteIP = IF n \in Named THEN Server[n] ELSE s.remoteIP
    /\ t.localPort = s.nextPort /\ t.nextPort = s.nextPort + 1
    /\ t.remotePort = s.remotePort /\ t.remoteSeq = s.remoteSeq
    /\ t.sent = s.sent /\ t.start = s.sent /\ t.got = <<>> /\ t.opened = FALSE
    /\ t.localSeq = s.localSeq + 1 /\ t.state = SYN_SENT
    /\ \A m \in out : Carries(n, t, m, {"SYN"}, s.localSeq, s.remoteSeq, NoData)

\* What was sent last is sent again.
Repeats(n, t, out) ==
    LET s == sock[n] IN
    /\ Quiet(s, t) /\ t.state = s.state
    /\ \A m \in out :
       \/ /\ s.state = SYN_SENT
          /\ Carries(n, s, m, {"SYN"}, s.localSeq - 1, s.remoteSeq, NoData)
       \/ /\ s.state = SYN_RECEIVED
          /\ Carries(n, s, m, {"SYN", "ACK"}, s.localSeq - 1, s.remoteSeq, NoData)
       \/ /\ s.state \in {FIN_WAIT_1, CLOSING}
          /\ Carries(n, s, m, {"FIN", "ACK"}, s.localSeq - 1, s.remoteSeq, NoData)
       \/ /\ s.state = 244
          /\ Carries(n, s, m, {"ACK"}, s.localSeq - s.stash.len, s.remoteSeq, s.stash)

\* send().
Sends(n, s, t, out) ==
    /\ s.state \in {4, 20}
    /\ \E d \in Data :
          /\ d.first = s.sent + 1 /\ d.len > 0 /\ SendsOf(s, t, d)
          /\ \A m \in out : Carries(n, s, m, {"ACK"}, s.localSeq, s.remoteSeq, d)

\* close().
Closes(n, s, t, out) ==
    /\ ~localClosed(s)
    /\ Counts(s, t, 1) /\ t.state = ClosedState(s.state)
    /\ \A m \in out : Carries(n, s, m, {"FIN", "ACK"}, s.localSeq, s.remoteSeq, NoData)

\* A listening socket gets a SYN.
Accepts(n, m, t, out) ==
    LET s == sock[n] IN
    /\ n \in Hosts /\ s.state = LISTEN
    /\ m \in net /\ m.dst = n /\ PureSyn(m)
    /\ t.localPort = s.localPort /\ t.nextPort = s.nextPort
    /\ t.remoteIP = m.src /\ t.remotePort = m.sport /\ t.remoteSeq = m.seq + 1
    /\ t.sent = s.sent /\ t.start = s.sent /\ t.got = <<>> /\ t.opened = FALSE
    /\ t.localSeq = s.localSeq + 1 /\ t.state = SYN_RECEIVED
    /\ \A k \in out : Carries(n, t, k, {"SYN", "ACK"}, s.localSeq, t.remoteSeq, NoData)

\* The ways out of SYN_SENT: the peer's SYN, with an acknowledgement or not.
Joins(n, m, t, out) ==
    LET s == sock[n] IN
    /\ FromPeer(n, m) /\ s.state = SYN_SENT /\ HasSyn(m) /\ ~HasRst(m)
    /\ \/ m.ctl = {"SYN", "ACK"} /\ m.ack = s.localSeq /\ t.state = ESTABLISHED /\ t.opened
       \/ PureSyn(m) /\ t.state = SYN_RECEIVED /\ t.opened = s.opened
    /\ t.localPort = s.localPort /\ t.nextPort = s.nextPort
    /\ t.remoteIP = s.remoteIP /\ t.remotePort = s.remotePort
    /\ t.remoteSeq = m.seq + 1
    /\ t.sent = s.sent /\ t.start = s.start /\ t.got = s.got /\ t.localSeq = s.localSeq
    /\ \A k \in out : Carries(n, t, k, {"ACK"}, s.localSeq, t.remoteSeq, NoData)

\* An acknowledgement of everything, outside the established block.
Acked(n, m, t, out) ==
    LET s == sock[n] IN
    /\ m \in net /\ m.dst = n /\ ~HasRst(m) /\ HasAck(m) /\ m.ack = s.localSeq
    /\ s.state # LISTEN => FromPeer(n, m)
    /\ s.state \notin {4, 20, 244, LAST_ACK}
    /\ Same(s, t) /\ t.sent = s.sent /\ t.localSeq = s.localSeq /\ t.opened = TRUE
    /\ t.state = AckState(n, s.state)
    /\ out = {}

\* A segment in order, in the established block: an acknowledgement only, ...
InBlockOrder(n, m) ==
    /\ FromPeer(n, m) /\ ~HasRst(m) /\ HasAck(m)
    /\ sock[n].state \in {4, 20, 244} /\ m.seq = sock[n].remoteSeq

Flag(s, m, st) == IF m.ack = s.localSeq /\ s.state = 244 THEN Cleared(st) ELSE st

TakesAck(n, m, t, out) ==
    LET s == sock[n] IN
    /\ InBlockOrder(n, m)
    /\ Quiet(s, t) /\ t.state = Flag(s, m, s.state)
    /\ out = {}

\* ... the peer's FIN, ...
TakesFin(n, m, t, out) ==
    LET s == sock[n] IN
    /\ InBlockOrder(n, m) /\ HasFin(m) /\ m.data.len = 0
    /\ t.localPort = s.localPort /\ t.nextPort = s.nextPort
    /\ t.remoteIP = s.remoteIP /\ t.remotePort = s.remotePort
    /\ t.remoteSeq = s.remoteSeq + 1 /\ t.start = s.start /\ t.got = s.got
    /\ t.opened = s.opened /\ t.sent = s.sent /\ t.localSeq = s.localSeq
    /\ t.state = CLOSE_WAIT
    /\ \A k \in out : Carries(n, t, k, {"ACK"}, s.localSeq, t.remoteSeq, NoData)

\* Taking the data changes what has been got and what is expected next.
TakesBytes(m, u, t) ==
    /\ t.localPort = u.localPort /\ t.nextPort = u.nextPort
    /\ t.remoteIP = u.remoteIP /\ t.remotePort = u.remotePort
    /\ t.start = u.start /\ t.sent = u.sent /\ t.localSeq = u.localSeq
    /\ t.stash = u.stash /\ t.opened = u.opened
    /\ \/ t.remoteSeq = m.seq + m.data.len /\ t.got = u.got \o Bytes(m.data)
       \/ t.remoteSeq = u.remoteSeq /\ t.got = u.got

\* ... or data: u is the socket and said the segments when the application has
\* been called.
SaysBoth(n, s, u, said) ==
    \E v \in Socket_ : \E first, last :
       Sends(n, s, v, first) /\ Closes(n, v, u, last) /\ said = first \cup last

Speaks(n, s, u, said) ==
    /\ u \in Socket_
    /\ \/ Quiet(s, u) /\ u.state = s.state /\ said = {}
       \/ Sends(n, s, u, said)
       \/ Closes(n, s, u, said)
       \/ SaysBoth(n, s, u, said)

TakesData(n, m, u, said, t, out) ==
    LET s == sock[n] IN
    /\ InBlockOrder(n, m) /\ ~HasFin(m) /\ m.data.len > 0
    /\ Speaks(n, s, u, said)
    /\ t.localPort = u.localPort /\ t.nextPort = u.nextPort
    /\ t.remoteIP = u.remoteIP /\ t.remotePort = u.remotePort
    /\ t.start = u.start /\ t.sent = u.sent /\ t.localSeq = u.localSeq
    /\ t.stash = u.stash /\ t.opened = u.opened
    /\ \/ t.remoteSeq = m.seq + m.data.len /\ t.got = u.got \o Bytes(m.data)
       \/ t.remoteSeq = u.remoteSeq /\ t.got = u.got
    /\ t.state = Flag(s, m, u.state)
    /\ \A k \in out : k \in said \/ Carries(n, t, k, {"ACK"}, t.localSeq, t.remoteSeq, NoData)

Received(n, t, out) ==
    \E m \in net :
       \/ Accepts(n, m, t, out)
       \/ Joins(n, m, t, out)
       \/ Acked(n, m, t, out)
       \/ TakesAck(n, m, t, out)
       \/ TakesFin(n, m, t, out)
       \/ \E u, said : TakesData(n, m, u, said, t, out)

Kind(n, t, out) ==
    \/ Leaves(n, t, out)
    \/ Answers(n, t, out)
    \/ Looks(n, t, out)
    \/ Calls(n, t, out)
    \/ Repeats(n, t, out)
    \/ Sends(n, sock[n], t, out)
    \/ Closes(n, sock[n], t, out)
    \/ Received(n, t, out)

\* The device n does one of these things.
Does(n) == \E t, out : Becomes(n, t, out) /\ Kind(n, t, out)

\* r is s with the peer's FIN counted.
Heard(s, r) ==
    /\ r.localPort = s.localPort /\ r.nextPort = s.nextPort
    /\ r.remoteIP = s.remoteIP /\ r.remotePort = s.remotePort
    /\ r.remoteSeq = s.remoteSeq + 1 /\ r.start = s.start /\ r.got = s.got
    /\ r.opened = s.opened /\ r.sent = s.sent /\ r.localSeq = s.localSeq
    /\ r.stash = s.stash

\* What only a TCP that is not of this library does: the last data and the FIN in
\* one segment, ...
SendsEnd(n, t, out) ==
    LET s == sock[n] IN
    /\ s.state = ESTABLISHED /\ t.state = FIN_WAIT_1
    /\ Same(s, t) /\ t.opened = s.opened
    /\ \E d \in Data :
          /\ d.len > 0 /\ t.sent = s.sent + d.len /\ t.localSeq = s.localSeq + d.len + 1
          /\ \A m \in out : Carries(n, s, m, {"FIN", "ACK"}, s.localSeq, s.remoteSeq, d)

\* ... and a FIN after its own.
TakesLateFin(n, m, t, out) ==
    LET s == sock[n] IN
    /\ FromPeer(n, m) /\ ~HasRst(m) /\ HasFin(m) /\ m.data.len = 0
    /\ m.seq = s.remoteSeq /\ Heard(s, t)
    /\ \/ s.state = FIN_WAIT_2 /\ t.state = TIME_WAIT
       \/ s.state = FIN_WAIT_1 /\ t.state = CLOSING
    /\ \A k \in out : Carries(n, t, k, {"ACK"}, s.localSeq, t.remoteSeq, NoData)

\* What a Socket makes of data with a FIN: r is the socket that onDataReceived()
\* is called on, u and said are as above.
TakesEnd(n, m, r, u, said, t, out) ==
    LET s == sock[n] IN
    /\ InBlockOrder(n, m) /\ HasFin(m) /\ m.data.len > 0
    /\ r \in Socket_ /\ Heard(s, r) /\ r.state = s.state /\ Speaks(n, r, u, said)
    /\ TakesBytes(m, u, t) /\ t.state = FinState(u, m)
    /\ \A k \in out : k \in said \/ Carries(n, t, k, {"ACK"}, t.localSeq, t.remoteSeq, NoData)

EndKind(n, t, out) ==
    \/ SendsEnd(n, t, out)
    \/ \E m \in net : \/ TakesLateFin(n, m, t, out)
                     \/ \E r, u, said : TakesEnd(n, m, r, u, said, t, out)

AnyKind(n, t, out) == Kind(n, t, out) \/ EndKind(n, t, out)

DoesAny(n) == \E t, out : Becomes(n, t, out) /\ AnyKind(n, t, out)

LEMMA SegCarries ==
  ASSUME NEW n, NEW s, NEW ctl, NEW data
  PROVE  Carries(n, s, Seg(n, s, ctl, data), ctl, s.localSeq, s.remoteSeq, data)
  BY DEF Carries, Seg, Raw

LEMMA CarriesSame ==
  ASSUME NEW n, NEW s, NEW t, Same(s, t), NEW m, NEW ctl, NEW seq, NEW ack, NEW data,
         Carries(n, t, m, ctl, seq, ack, data)
  PROVE  Carries(n, s, m, ctl, seq, ack, data)
  BY DEF Carries, Same

LEMMA ResetRst ==
  ASSUME NEW n, NEW s
  PROVE  /\ \A seq, ack : HasRst(Reset(n, s, seq, ack))
         /\ \A m \in ForceReset(n, s) : HasRst(m)
<1>1. ASSUME NEW seq, NEW ack
      PROVE  HasRst(Reset(n, s, seq, ack))
  BY DEF Reset, Raw, HasRst
<1>2. QED
  BY <1>1 DEF ForceReset

\* What has no data is well formed and comes from its sender.
LEMMA EmptyBecomes ==
  ASSUME NEW n \in Node, NEW t \in Socket_, NEW out, NEW m, Empty(n, out),
         Step(n, t, out) \/ Handle(n, m, t, out)
  PROVE  Becomes(n, t, out)
  BY DEF Becomes, Empty, Changes, Step, Handle

LEMMA InSInv == SInv => IInv
  BY DEF SInv

LEMMA ForceClosedKind ==
  ASSUME SInv, NEW n \in Node, NEW s \in Socket_, Quiet(sock[n], s), NEW m,
         \/ Step(n, ForceClosed(n, s), ForceReset(n, s))
         \/ Handle(n, m, ForceClosed(n, s), ForceReset(n, s))
  PROVE  Does(n)
<1> DEFINE t == ForceClosed(n, s)
<1>1. t \in Socket_ /\ Quiet(s, t) /\ t.state = IF isHost(n) THEN LISTEN ELSE CLOSED
  BY ForceClosedQuiet
<1>2. Quiet(sock[n], t)
  BY <1>1, QuietTrans
<1> HIDE DEF t
<1>3. Leaves(n, t, ForceReset(n, s))
  BY <1>1, <1>2, ResetRst DEF Leaves, Quiet
<1>4. Becomes(n, t, ForceReset(n, s))
  BY <1>1, EmptyOut, EmptyBecomes DEF t
<1>5. QED
  BY <1>3, <1>4 DEF Does, Kind

LEMMA ClosesKind ==
  ASSUME SInv, NEW n \in Node, ~localClosed(sock[n]),
         Step(n, AfterClose(sock[n]), {Fin(n, sock[n])})
  PROVE  Does(n)
<1> DEFINE t == AfterClose(sock[n])
           out == {Fin(n, sock[n])}
<1>1. sock[n] \in Socket_
  BY InSInv, OfInv
<1>2. t \in Socket_ /\ Counts(sock[n], t, 1) /\ t.state = ClosedState(sock[n].state)
  BY <1>1, AfterCloseCounts
<1>3. \A m \in out : Carries(n, sock[n], m, {"FIN", "ACK"}, sock[n].localSeq,
                             sock[n].remoteSeq, NoData)
  BY SegCarries DEF Fin
<1>4. Becomes(n, t, out)
  BY <1>1, <1>2, EmptyOut, EmptyBecomes
<1>5. Closes(n, sock[n], t, out)
  BY <1>2, <1>3 DEF Closes
<1>6. QED
  BY <1>4, <1>5 DEF Does, Kind

LEMMA SameQuiet ==
  ASSUME NEW s
  PROVE  Quiet(s, s)
  BY DEF Quiet, Same

LEMMA CheckKinds ==
  ASSUME SInv, NEW n \in Node
  PROVE  /\ ForceClose(n) => Does(n)
         /\ CheckTimeout(n) => Does(n)
         /\ Close(n) => Does(n)
<1>1. sock[n] \in Socket_ /\ Quiet(sock[n], sock[n])
  BY InSInv, OfInv, SameQuiet
<1>2. QED
  BY <1>1, ForceClosedKind, ClosesKind DEF ForceClose, CheckTimeout, Close

LEMMA GiveUpKind ==
  ASSUME SInv, NEW n \in Node, CheckGiveUp(n)
  PROVE  Does(n)
<1> DEFINE v == sock[n].attempts + 1
           s == [sock[n] EXCEPT !.attempts = v]
<1>1. sock[n] \in Socket_ /\ v \in Nat
  BY InSInv, OfInv DEF Socket_
<1>2. Step(n, ForceClosed(n, s), ForceReset(n, s))
  BY DEF CheckGiveUp
<1> HIDE DEF v
<1>3. s \in Socket_ /\ Quiet(sock[n], s)
  BY <1>1, AttemptsQuiet
<1> HIDE DEF s
<1>4. QED
  BY <1>2, <1>3, ForceClosedKind

LEMMA TimeWaitKind ==
  ASSUME SInv, NEW n \in Node, CheckTimeWait(n)
  PROVE  Does(n)
<1> DEFINE t == closed(n, sock[n])
<1>1. /\ t \in Socket_ /\ Quiet(sock[n], t)
      /\ t.state = IF isHost(n) THEN LISTEN ELSE CLOSED
  BY InSInv, OfInv, ClosedQuiet
<1>2. Step(n, t, {})
  BY DEF CheckTimeWait
<1> HIDE DEF t
<1>3. Becomes(n, t, {})
  BY <1>1, <1>2, InSInv, OfInv, EmptyOut, EmptyBecomes
<1>4. Leaves(n, t, {})
  BY <1>1 DEF Leaves, Quiet
<1>5. QED
  BY <1>3, <1>4 DEF Does, Kind

LEMMA NetworkPasses ==
  ASSUME SInv, Network \/ UNCHANGED vars
  PROVE  Passes
  BY SameQuiet DEF Network, Discard, Lose, vars, Passes

LEMMA ElapsePasses ==
  ASSUME SInv, Elapse
  PROVE  Passes
<1> DEFINE a(n) == IF Active(n) /\ sock[n].age < MaxAge THEN sock[n].age + 1 ELSE sock[n].age
<1>1. \A n \in Node : sock[n] \in Socket_
  BY InSInv, OfInv
<1>2. sock' = [n \in Node |-> [sock[n] EXCEPT !.age = a(n)]] /\ net' = net
  BY DEF Elapse
<1> HIDE DEF a
<1>3. ASSUME NEW n \in Node
      PROVE  Quiet(sock[n], sock'[n]) /\ sock'[n].state = sock[n].state
  BY <1>1, <1>2 DEF Socket_, Quiet, Same
<1>4. QED
  BY <1>2, <1>3 DEF Passes

\* s is the socket of n with the address that connect() has found.
Addressed(n, s) ==
    LET r == sock[n] IN
    /\ s \in Socket_
    /\ s.remoteIP = IF n \in Named THEN Server[n] ELSE r.remoteIP
    /\ s.localPort = r.localPort /\ s.nextPort = r.nextPort
    /\ s.remotePort = r.remotePort /\ s.remoteSeq = r.remoteSeq
    /\ s.sent = r.sent /\ s.localSeq = r.localSeq /\ s.state = r.state

LEMMA SendSynKind ==
  ASSUME SInv, NEW n \in Node, n \notin Hosts, sock[n].state \in {CLOSED, RESOLVING},
         NEW s, Addressed(n, s), SendSyn(n, s)
  PROVE  Does(n)
<1> DEFINE v == s.nextPort + 1
           t == [s EXCEPT !.localPort = s.nextPort, !.nextPort = v,
                          !.start = s.sent, !.got = <<>>, !.opened = FALSE]
           f == SentSyn(t)
           one == 1
           g == [f EXCEPT !.attempts = one]
           u == setState(g, SYN_SENT)
           out == {Seg(n, t, {"SYN"}, NoData)}
<1>1. s \in Socket_ /\ v \in Nat /\ s.nextPort \in Nat /\ s.sent \in Nat /\ <<>> \in Seq(Nat)
      /\ one \in Nat /\ s.localSeq \in Nat
  BY DEF Socket_, Addressed
<1>2. Step(n, u, out)
  BY DEF SendSyn
<1>3. v = s.nextPort + 1
  OBVIOUS
<1> HIDE DEF v, one
<1>4. /\ t \in Socket_ /\ t.localPort = s.nextPort /\ t.nextPort = v
      /\ t.remoteIP = s.remoteIP /\ t.remotePort = s.remotePort
      /\ t.remoteSeq = s.remoteSeq /\ t.start = s.sent /\ t.got = <<>>
      /\ t.opened = FALSE /\ t.sent = s.sent /\ t.localSeq = s.localSeq
  BY <1>1 DEF Socket_
<1> HIDE DEF t
<1>5. f \in Socket_ /\ Counts(t, f, 1)
  BY <1>4, SentControl
<1> HIDE DEF f
<1>6. g \in Socket_ /\ Quiet(f, g)
  BY <1>1, <1>5, AttemptsQuiet
<1> HIDE DEF g
<1>7. SYN_SENT \in State
  BY StateByte, StateValues DEF States
<1>8. u \in Socket_ /\ Quiet(g, u) /\ u.state = SYN_SENT
  BY <1>6, <1>7, SetStateQuiet
<1> HIDE DEF u
<1>9. Counts(t, u, 1)
  BY <1>5, <1>6, <1>8, QuietTrans, CountsThen
<1>10. Carries(n, t, Seg(n, t, {"SYN"}, NoData), {"SYN"}, t.localSeq, t.remoteSeq, NoData)
  BY SegCarries
<1>11. Carries(n, u, Seg(n, t, {"SYN"}, NoData), {"SYN"}, s.localSeq, s.remoteSeq, NoData)
  BY <1>4, <1>9, <1>10 DEF Carries, Counts, Same
<1>12. Empty(n, out)
  BY <1>4, EmptyOut DEF Control
<1>13. Becomes(n, u, out)
  BY <1>2, <1>8, <1>12, EmptyBecomes
<1>14. Calls(n, u, out)
  <2>1. u.nextPort = sock[n].nextPort + 1 /\ u.localSeq = sock[n].localSeq + 1
    BY <1>3, <1>4, <1>9 DEF Counts, Same, Addressed
  <2>2. QED
    BY <2>1, <1>4, <1>8, <1>9, <1>11 DEF Calls, Counts, Same, Addressed
<1>15. QED
  BY <1>13, <1>14 DEF Does, Kind

LEMMA FoundAddressed ==
  ASSUME SInv, NEW n \in Node, n \in Named
  PROVE  LET s == Found(n)
             t == [Found(n) EXCEPT !.connectOnResolution = FALSE]
         IN  Addressed(n, s) /\ Addressed(n, t)
<1> DEFINE s == Found(n)
           t == [s EXCEPT !.connectOnResolution = FALSE]
<1>1. Server[n] \in Node /\ sock[n] \in Socket_
  BY NodeAssumption, ConfigAssumption, InSInv, OfInv
<1>2. Addressed(n, s)
  BY <1>1 DEF Found, Socket_, Addressed
<1>3. s \in Socket_
  BY <1>2 DEF Addressed
<1> HIDE DEF s
<1>4. t \in Socket_ /\ Quiet(s, t) /\ t.state = s.state
  BY <1>3 DEF Socket_, Quiet, Same
<1> HIDE DEF t
<1>5. Addressed(n, t)
  BY <1>2, <1>4 DEF Addressed, Quiet, Same
<1>6. QED
  BY <1>2, <1>5 DEF s, t

LEMMA ResolveFoundKind ==
  ASSUME SInv, NEW n \in Node, ResolveFound(n)
  PROVE  Does(n)
  BY FoundAddressed, SendSynKind, NodeAssumption DEF ResolveFound, CanResolve

LEMMA ConnectKind ==
  ASSUME SInv, NEW n \in Node, Connect(n)
  PROVE  Does(n)
<1>1. Addressed(n, sock[n])
  BY InSInv, OfInv DEF Addressed, Connect
<1>2. QED
  BY <1>1, SendSynKind DEF Connect

\* The state of a lookup.
LEMMA LooksState ==
  ASSUME SInv, NEW n \in Node, NEW st \in {RESOLVING, UNKNOWN_HOST}
  PROVE  LET t == setState(sock[n], st)
         IN  t \in Socket_ /\ Quiet(sock[n], t) /\ t.state = st
<1>1. st \in State
  BY StateByte, StateValues DEF States
<1>2. QED
  BY <1>1, InSInv, OfInv, SetStateQuiet

LEMMA LooksKind ==
  ASSUME SInv, NEW n \in Node, CanResolve(n), NEW t \in Socket_, Step(n, t, {}),
         t.remoteIP \in {sock[n].remoteIP, Server[n]},
         t.localPort = sock[n].localPort, t.nextPort = sock[n].nextPort,
         t.remotePort = sock[n].remotePort, t.remoteSeq = sock[n].remoteSeq,
         t.localSeq = sock[n].localSeq, t.state \in {RESOLVING, UNKNOWN_HOST}
  PROVE  Does(n)
<1>1. Becomes(n, t, {})
  BY InSInv, OfInv, EmptyOut, EmptyBecomes
<1>2. Looks(n, t, {})
  BY DEF Looks, CanResolve
<1>3. QED
  BY <1>1, <1>2 DEF Does, Kind

LEMMA ResolveErrorKind ==
  ASSUME SInv, NEW n \in Node, ResolveError(n)
  PROVE  Does(n)
  BY LooksState, LooksKind DEF ResolveError, Quiet, Same

LEMMA ConnectByNameKind ==
  ASSUME SInv, NEW n \in Node, ConnectByName(n)
  PROVE  Does(n)
<1>1. CASE ResolveError(n)
  BY <1>1, ResolveErrorKind
<1>2. CASE ResolveFound(n)
  BY <1>2, ResolveFoundKind
<1>3. CASE CanResolve(n) /\
           Step(n, [setState(sock[n], RESOLVING) EXCEPT !.connectOnResolution = TRUE], {})
  <2> DEFINE s == setState(sock[n], RESOLVING)
             t == [s EXCEPT !.connectOnResolution = TRUE]
  <2>1. s \in Socket_ /\ Quiet(sock[n], s) /\ s.state = RESOLVING
    BY LooksState
  <2>2. Step(n, t, {})
    BY <1>3
  <2> HIDE DEF s
  <2>3. t \in Socket_ /\ Quiet(s, t) /\ t.state = RESOLVING
    BY <2>1 DEF Socket_, Quiet, Same
  <2> HIDE DEF t
  <2>4. QED
    BY <1>3, <2>1, <2>2, <2>3, LooksKind DEF Quiet, Same
<1>4. CASE CanResolve(n) /\ sock[n].state = CLOSED /\ SendSyn(n, Found(n))
  BY <1>4, FoundAddressed, SendSynKind, NodeAssumption DEF CanResolve
<1>5. CASE CanResolve(n) /\ sock[n].state = UNKNOWN_HOST /\ Step(n, Found(n), {})
  <2>1. Addressed(n, Found(n))
    BY <1>5, FoundAddressed DEF CanResolve
  <2>2. n \in Named
    BY <1>5 DEF CanResolve
  <2>3. QED
    BY <1>5, <2>1, <2>2, LooksKind DEF Addressed
<1>6. QED
  BY <1>1, <1>2, <1>3, <1>4, <1>5 DEF ConnectByName

LEMMA QuietAnswers ==
  ASSUME SInv, NEW n \in Node, NEW t \in Socket_, NEW m,
         Quiet(sock[n], t), t.state = sock[n].state,
         Step(n, t, {}) \/ Handle(n, m, t, {})
  PROVE  Does(n)
<1>1. Becomes(n, t, {})
  BY InSInv, OfInv, EmptyOut, EmptyBecomes
<1>2. Answers(n, t, {})
  BY DEF Answers
<1>3. QED
  BY <1>1, <1>2 DEF Does, Kind

LEMMA CheckResolvingKind ==
  ASSUME SInv, NEW n \in Node, CheckResolving(n)
  PROVE  Does(n)
<1>1. CASE ResolveError(n)
  BY <1>1, ResolveErrorKind
<1>2. CASE ResolveFound(n)
  BY <1>2, ResolveFoundKind
<1>3. CASE Step(n, setState(sock[n], RESOLVING), {})
  <2>1. sock[n].state = RESOLVING
    BY DEF CheckResolving
  <2>2. QED
    BY <1>3, <2>1, LooksState, QuietAnswers
<1>4. QED
  BY <1>1, <1>2, <1>3 DEF CheckResolving

LEMMA SendKind ==
  ASSUME SInv, NEW n \in Node, NEW len \in 1 .. StashSize, Send(n, len)
  PROVE  Does(n)
<1> DEFINE s == sock[n]
           d == [first |-> s.sent + 1, len |-> len]
           t == AfterSend(s, d)
           m == Seg(n, s, {"ACK"}, d)
<1>1. s \in Socket_ /\ s.state \in State /\ s.sent \in Nat
  BY InSInv, OfInv DEF Socket_
<1>2. readyToSend(s) /\ Step(n, t, {m})
  BY DEF Send
<1>3. d \in Data /\ d.first = s.sent + 1 /\ d.len > 0
  <2>1. len \in Nat /\ len > 0 /\ s.sent + 1 \in Nat
    BY <1>1, NumberAssumption
  <2>2. QED
    BY <2>1 DEF Data
<1> HIDE DEF d
<1>4. s.state \in {4, 20} /\ Low(s.state) = ESTABLISHED
  BY <1>1, <1>2, StateByte, StateValues DEF readyToSend
<1>5. t \in Socket_ /\ SendsOf(s, t, d)
  BY <1>1, <1>3, <1>4, AfterSendCounts
<1>6. m \in Outgoing /\ Carries(n, s, m, {"ACK"}, s.localSeq, s.remoteSeq, d)
  BY <1>1, <1>3, DataSegment, SegCarries
<1> HIDE DEF t, m
<1>7. Becomes(n, t, {m})
  BY <1>2, <1>5, <1>6 DEF Becomes, Changes, Step, Carries
<1>8. Sends(n, s, t, {m})
  BY <1>3, <1>4, <1>5, <1>6 DEF Sends
<1>9. QED
  BY <1>7, <1>8 DEF Does, Kind

\* A rewound socket sends what is at the sequence numbers it has taken back.
LEMMA RewoundCarries ==
  ASSUME NEW n, NEW s, NEW t, t.localPort = s.localPort, t.remoteIP = s.remoteIP,
         t.remotePort = s.remotePort, t.remoteSeq = s.remoteSeq, NEW ctl, NEW data
  PROVE  Carries(n, s, Seg(n, t, ctl, data), ctl, t.localSeq, s.remoteSeq, data)
  BY DEF Carries, Seg, Raw

LEMMA CheckRetryKind ==
  ASSUME SInv, NEW n \in Node, CheckRetry(n)
  PROVE  Does(n)
<1> DEFINE s == sock[n]
           a == s.attempts + 1
           v == s.localSeq - (IF IsAwaiting(s.state) THEN s.stash.len ELSE 1)
           t == [s EXCEPT !.attempts = a, !.localSeq = v]
<1>1. /\ s \in Socket_ /\ SeqOK(s) /\ s.localSeq \in Nat /\ s.state \in State
      /\ a \in Nat /\ s.stash \in Data /\ s.stash.len \in Nat
  <2>1. s \in Socket_ /\ SeqOK(s)
    BY InSInv, OfInv
  <2>2. s.stash \in Data /\ s.localSeq \in Nat /\ s.state \in State /\ s.attempts \in Nat
    BY <2>1 DEF Socket_
  <2>3. QED
    BY <2>1, <2>2 DEF Data
<1>2. \/ /\ s.state = SYN_SENT
         /\ Step(n, SentSyn(t), {Seg(n, t, {"SYN"}, NoData)})
      \/ /\ s.state = SYN_RECEIVED
         /\ Step(n, SentSyn(t), {Seg(n, t, {"SYN", "ACK"}, NoData)})
      \/ /\ s.state \in {FIN_WAIT_1, CLOSING}
         /\ Step(n, SentFin(t), {Fin(n, t)})
      \/ /\ IsAwaiting(s.state)
         /\ Step(n, SentData(t, s.stash), {Seg(n, t, {"ACK"}, s.stash)})
  BY DEF CheckRetry
<1> HIDE DEF a
<1>3. ASSUME v \in Nat
      PROVE  /\ t \in Socket_ /\ t.state = s.state /\ t.localSeq = v /\ Same(s, t)
             /\ t.stash = s.stash /\ t.opened = s.opened /\ t.sent = s.sent
  <2> HIDE DEF v
  <2>1. QED
    BY <1>1, <1>3 DEF Socket_, Same
<1>4. ASSUME NEW ctl, NEW data, v \in Nat
      PROVE  Carries(n, s, Seg(n, t, ctl, data), ctl, v, s.remoteSeq, data)
  BY <1>3, <1>4, RewoundCarries, ZenonT(60) DEF Same
<1>5. CASE s.state \in Handshaking
  <2>1. ~IsAwaiting(s.state)
    BY <1>1, <1>5, StateByte, StateValues DEF Handshaking
  <2>2. v = s.localSeq - 1 /\ v \in Nat
    BY <1>1, <1>5, <2>1 DEF SeqOK, Handshaking
  <2>3. /\ t \in Socket_ /\ t.state = s.state /\ t.localSeq = v /\ Same(s, t)
        /\ t.stash = s.stash /\ t.opened = s.opened /\ t.sent = s.sent
    BY <1>3, <2>2
  <2>4. ASSUME NEW ctl
        PROVE  Carries(n, s, Seg(n, t, ctl, NoData), ctl, s.localSeq - 1, s.remoteSeq, NoData)
    BY <1>4, <2>2
  <2> HIDE DEF t, v
  <2>5. ASSUME NEW u \in Socket_, Counts(t, u, 1), u.state = t.state
        PROVE  Quiet(s, u) /\ u.state = s.state
    BY <1>1, <2>2, <2>3, <2>5 DEF Counts, Quiet, Same
  <2>6. /\ SentSyn(t) \in Socket_ /\ Quiet(s, SentSyn(t)) /\ SentSyn(t).state = s.state
        /\ SentFin(t) \in Socket_ /\ Quiet(s, SentFin(t)) /\ SentFin(t).state = s.state
    BY <2>3, <2>5, SentControl
  <2>7. /\ Empty(n, {Seg(n, t, {"SYN"}, NoData)})
        /\ Empty(n, {Seg(n, t, {"SYN", "ACK"}, NoData)}) /\ Empty(n, {Fin(n, t)})
    BY <2>3, EmptyOut DEF Control
  <2>8. CASE s.state = SYN_SENT /\ Step(n, SentSyn(t), {Seg(n, t, {"SYN"}, NoData)})
    <3> DEFINE out == {Seg(n, t, {"SYN"}, NoData)}
    <3>1. Becomes(n, SentSyn(t), out)
      BY <2>6, <2>7, <2>8, EmptyBecomes
    <3>2. Repeats(n, SentSyn(t), out)
      BY <2>4, <2>6, <2>8 DEF Repeats
    <3>3. QED
      BY <3>1, <3>2 DEF Does, Kind
  <2>9. CASE s.state = SYN_RECEIVED /\ Step(n, SentSyn(t), {Seg(n, t, {"SYN", "ACK"}, NoData)})
    <3> DEFINE out == {Seg(n, t, {"SYN", "ACK"}, NoData)}
    <3>1. Becomes(n, SentSyn(t), out)
      BY <2>6, <2>7, <2>9, EmptyBecomes
    <3>2. Repeats(n, SentSyn(t), out)
      BY <2>4, <2>6, <2>9 DEF Repeats
    <3>3. QED
      BY <3>1, <3>2 DEF Does, Kind
  <2>10. CASE s.state \in {FIN_WAIT_1, CLOSING} /\ Step(n, SentFin(t), {Fin(n, t)})
    <3> DEFINE out == {Fin(n, t)}
    <3>1. Becomes(n, SentFin(t), out)
      BY <2>6, <2>7, <2>10, EmptyBecomes
    <3>2. Repeats(n, SentFin(t), out)
      BY <2>4, <2>6, <2>10 DEF Repeats, Fin
    <3>3. QED
      BY <3>1, <3>2 DEF Does, Kind
  <2>11. QED
    BY <1>2, <2>1, <2>8, <2>9, <2>10 DEF t, v
<1>6. CASE s.state \notin Handshaking
  <2>1. IsAwaiting(s.state) /\ Step(n, SentData(t, s.stash), {Seg(n, t, {"ACK"}, s.stash)})
    BY <1>2, <1>6 DEF Handshaking
  <2>2. s.stash.len \in 1 .. s.localSeq /\ v = s.localSeq - s.stash.len /\ v \in Nat
    BY <1>1, <2>1 DEF SeqOK
  <2>3. /\ t \in Socket_ /\ t.state = s.state /\ t.localSeq = v /\ Same(s, t)
        /\ t.stash = s.stash /\ t.opened = s.opened /\ t.sent = s.sent
    BY <1>3, <2>2
  <2>4. s.state = 244 /\ Low(s.state) = ESTABLISHED
    BY <1>1, <2>1, StateByte, StateValues
  <2> DEFINE u == SentData(t, s.stash)
             m == Seg(n, t, {"ACK"}, s.stash)
  <2>5. Carries(n, s, m, {"ACK"}, s.localSeq - s.stash.len, s.remoteSeq, s.stash)
    BY <1>4, <2>2
  <2> HIDE DEF t, v
  <2>6. /\ u \in Socket_ /\ Same(t, u) /\ u.opened = t.opened /\ u.sent = t.sent
        /\ u.localSeq = t.localSeq + s.stash.len /\ u.state = 244 /\ u.stash = s.stash
    BY <1>1, <2>3, <2>4, SentDataCounts
  <2>7. Quiet(s, u) /\ u.state = s.state
    BY <1>1, <2>2, <2>3, <2>4, <2>6 DEF Quiet, Same
  <2>8. m \in Outgoing
    BY <1>1, <2>3, DataSegment
  <2> HIDE DEF u, m
  <2>9. Becomes(n, u, {m})
    BY <2>1, <2>5, <2>6, <2>8 DEF Becomes, Changes, Step, Carries, u, m
  <2>10. Repeats(n, u, {m})
    BY <2>4, <2>5, <2>7 DEF Repeats
  <2>11. QED
    BY <2>9, <2>10 DEF Does, Kind
<1>7. QED
  BY <1>5, <1>6

-----------------------------------------------------------------------------
(* handleSegment().                                                        *)

\* A delivered segment is for the connection, or for a listening host.
LEMMA DeliveredFrom ==
  ASSUME SInv, NEW m \in net, Delivered(m.dst, m)
  PROVE  LET s == sock[m.dst]
         IN  /\ m.dst \in Node /\ Delivered(m.dst, m)
             /\ s.state # LISTEN => FromPeer(m.dst, m)
             /\ s.state = LISTEN => m.dst \in Hosts
             /\ s.state # CLOSED
<1>1. m.dst \in Node /\ sock[m.dst] \in Socket_
  BY InSInv, OfSegment, OfInv
<1>2. LISTEN # CLOSED
  BY StateValues
<1>3. QED
  BY <1>1, <1>2 DEF Delivered, MatchesConnection, MatchesListen, FromPeer, Handshaken, isHost

\* Resets only.
LEMMA RecvBadKind ==
  ASSUME SInv, NEW m \in net, RecvBad(m.dst, m)
  PROVE  Does(m.dst)
<1> DEFINE n == m.dst
           s == Rcvd(n)
           size == m.seq + Size(m)
           out == {IF HasAck(m) THEN Reset(n, s, m.ack, 0) ELSE Reset(n, s, 0, size)}
           t == SentPlain(s)
<1>1. n \in Node /\ m.ack \in Nat /\ size \in Nat /\ 0 \in Nat
  BY InSInv, OfSegment DEF Size
<1>2. s \in Socket_ /\ Quiet(sock[n], s) /\ s.state = sock[n].state
  BY <1>1, InSInv, RcvdQuiet
<1>3. Handle(n, m, t, out)
  BY DEF RecvBad
<1> HIDE DEF n, s, size
<1>4. Empty(n, out)
  BY <1>1, <1>2, EmptyOut
<1>5. t \in Socket_ /\ Quiet(s, t) /\ t.state = s.state
  BY <1>2, SentPlainQuiet
<1> HIDE DEF t
<1>6. Quiet(sock[n], t) /\ t.state = sock[n].state
  BY <1>2, <1>5, QuietTrans
<1>7. \A k \in out : HasRst(k)
  BY ResetRst
<1> HIDE DEF out
<1>8. Answers(n, t, out)
  BY <1>6, <1>7 DEF Answers
<1>9. Becomes(n, t, out)
  BY <1>1, <1>3, <1>4, <1>5, EmptyBecomes
<1>10. QED
  BY <1>8, <1>9 DEF Does, Kind, n

\* An answer that only repeats what the socket knows.
LEMMA AckKind ==
  ASSUME SInv, NEW n \in Node, NEW m, Handshaken(sock[n].state),
         Handle(n, m, SentPlain(Rcvd(n)), {Ack(n, Rcvd(n))})
  PROVE  Does(n)
<1> DEFINE s == Rcvd(n)
           t == SentPlain(s)
           out == {Ack(n, s)}
<1>1. s \in Socket_ /\ Quiet(sock[n], s) /\ s.state = sock[n].state
  BY InSInv, RcvdQuiet
<1>2. Handle(n, m, t, out)
  OBVIOUS
<1> HIDE DEF s
<1>3. t \in Socket_ /\ Quiet(s, t) /\ t.state = s.state
  BY <1>1, SentPlainQuiet
<1>4. Quiet(sock[n], t) /\ t.state = sock[n].state
  BY <1>1, <1>3, QuietTrans
<1>5. Becomes(n, t, out)
  BY <1>1, <1>2, <1>3, EmptyOut, EmptyBecomes
<1>6. Carries(n, s, Ack(n, s), {"ACK"}, s.localSeq, s.remoteSeq, NoData)
  BY SegCarries DEF Ack
<1>7. Carries(n, sock[n], Ack(n, s), {"ACK"}, sock[n].localSeq, sock[n].remoteSeq, NoData)
  BY <1>1, <1>6 DEF Carries, Quiet, Same
<1>8. Answers(n, t, out)
  BY <1>4, <1>7 DEF Answers
<1>9. QED
  BY <1>5, <1>8 DEF Does, Kind

LEMMA RecvAnswerKind ==
  ASSUME SInv, NEW m \in net,
         RecvUnacceptable(m.dst, m) \/ RecvOutOfOrder(m.dst, m)
  PROVE  Does(m.dst)
<1>1. Delivered(m.dst, m) /\ m.dst \in Node
  BY DeliveredFrom DEF RecvUnacceptable, RecvOutOfOrder, InEstablished, Acceptable
<1>2. sock[m.dst].state # LISTEN
  <2>1. Rcvd(m.dst).state = sock[m.dst].state /\ sock[m.dst].state \in State
    BY <1>1, InSInv, OfInv, RcvdGood
  <2>2. CASE RecvUnacceptable(m.dst, m)
    BY <2>1, <2>2, StateValues DEF RecvUnacceptable, Unacceptable
  <2>3. CASE RecvOutOfOrder(m.dst, m)
    BY <2>1, <2>3, StateByte, StateValues DEF RecvOutOfOrder, InEstablished
  <2>4. QED
    BY <2>2, <2>3
<1>3. Handshaken(sock[m.dst].state)
  BY <1>1, <1>2, DeliveredFrom DEF FromPeer
<1>4. QED
  BY <1>1, <1>3, AckKind DEF RecvUnacceptable, RecvOutOfOrder

LEMMA RecvRstKind ==
  ASSUME SInv, NEW m \in net, RecvRst(m.dst, m)
  PROVE  Does(m.dst)
<1> DEFINE n == m.dst
           s == Rcvd(n)
           t == closed(n, s)
<1>1. n \in Node
  BY InSInv, OfSegment
<1>2. s \in Socket_ /\ Quiet(sock[n], s) /\ s.state = sock[n].state
  BY <1>1, InSInv, RcvdQuiet
<1>3. Handle(n, m, t, {}) \/ Handle(n, m, s, {})
  BY DEF RecvRst
<1> HIDE DEF n, s
<1>4. /\ t \in Socket_ /\ Quiet(s, t)
      /\ t.state = IF isHost(n) THEN LISTEN ELSE CLOSED
  BY <1>1, <1>2, ClosedQuiet
<1> HIDE DEF t
<1>5. Quiet(sock[n], t)
  BY <1>2, <1>4, QuietTrans
<1>6. CASE Handle(n, m, t, {})
  <2>1. Becomes(n, t, {})
    BY <1>1, <1>2, <1>4, <1>6, EmptyOut, EmptyBecomes
  <2>2. Leaves(n, t, {})
    BY <1>4, <1>5 DEF Leaves, Quiet
  <2>3. QED
    BY <2>1, <2>2 DEF Does, Kind, n
<1>7. CASE Handle(n, m, s, {})
  BY <1>1, <1>2, <1>7, QuietAnswers DEF n
<1>8. QED
  BY <1>3, <1>6, <1>7

LEMMA RecvSynListenKind ==
  ASSUME SInv, NEW m \in net, RecvSynListen(m.dst, m)
  PROVE  Does(m.dst)
<1> DEFINE n == m.dst
           r == Rcvd(n)
           v == m.seq + 1
           s == [r EXCEPT !.remoteIP = m.src, !.remotePort = m.sport, !.remoteSeq = v,
                          !.start = sock[n].sent, !.got = <<>>, !.opened = FALSE]
           f == SentSyn(s)
           u == setState(f, SYN_RECEIVED)
           one == 1
           w == [u EXCEPT !.attempts = one]
           out == {Seg(n, s, {"SYN", "ACK"}, NoData)}
<1>1. /\ n \in Node /\ m.src \in Node /\ m.sport \in Nat /\ v \in Nat /\ m \in net
      /\ <<>> \in Seq(Nat) /\ one \in Nat /\ m.dst = n /\ v = m.seq + 1
  BY InSInv, OfSegment
<1>2. r \in Socket_ /\ Quiet(sock[n], r) /\ r.state = sock[n].state
  BY <1>1, InSInv, RcvdQuiet
<1>3. sock[n].sent \in Nat
  BY <1>1, InSInv, OfInv DEF Socket_
<1>4. Handle(n, m, w, out) /\ Delivered(n, m) /\ s.state = LISTEN /\ PureSyn(m)
  BY DEF RecvSynListen, Acceptable
<1>5. sock[n].state = LISTEN => n \in Hosts
  BY <1>4, DeliveredFrom
<1> HIDE DEF n, r, v, one
<1>6. /\ s \in Socket_ /\ s.state = r.state /\ s.localSeq = r.localSeq
      /\ s.localPort = r.localPort /\ s.nextPort = r.nextPort /\ s.sent = r.sent
      /\ s.remoteIP = m.src /\ s.remotePort = m.sport /\ s.remoteSeq = v
      /\ s.start = sock[n].sent /\ s.got = <<>> /\ s.opened = FALSE
  BY <1>1, <1>2, <1>3, ZenonT(60) DEF Socket_
<1>7. Carries(n, s, Seg(n, s, {"SYN", "ACK"}, NoData), {"SYN", "ACK"}, s.localSeq,
              s.remoteSeq, NoData)
  BY SegCarries
<1> HIDE DEF s
<1>8. f \in Socket_ /\ Counts(s, f, 1)
  BY <1>6, SentControl
<1> HIDE DEF f
<1>9. SYN_RECEIVED \in State
  BY StateByte, StateValues DEF States
<1>10. u \in Socket_ /\ Quiet(f, u) /\ u.state = SYN_RECEIVED
  BY <1>8, <1>9, SetStateQuiet
<1> HIDE DEF u
<1>11. w \in Socket_ /\ Quiet(u, w) /\ w.state = u.state
  BY <1>1, <1>10, AttemptsQuiet
<1> HIDE DEF w
<1>12. Counts(s, w, 1) /\ w.state = SYN_RECEIVED
  BY <1>8, <1>10, <1>11, CountsThen
<1>13. Empty(n, out)
  BY <1>1, <1>6, EmptyOut DEF Control
<1>14. Becomes(n, w, out)
  BY <1>1, <1>4, <1>11, <1>13, EmptyBecomes
<1>15. \A k \in out : Carries(n, w, k, {"SYN", "ACK"}, sock[n].localSeq, w.remoteSeq, NoData)
  BY <1>2, <1>6, <1>7, <1>12 DEF Carries, Counts, Same, Quiet
<1>16. Accepts(n, m, w, out)
  BY <1>1, <1>2, <1>4, <1>5, <1>6, <1>12, <1>15 DEF Accepts, Counts, Same, Quiet
<1>17. QED
  BY <1>1, <1>14, <1>16 DEF Does, Kind, Received

LEMMA JoinsKind ==
  ASSUME SInv, NEW m \in net, Delivered(m.dst, m), sock[m.dst].state = SYN_SENT, HasSyn(m),
         NEW o \in BOOLEAN, NEW st,
         \/ /\ m.ctl = {"SYN", "ACK"} /\ m.ack = sock[m.dst].localSeq /\ st = ESTABLISHED
            /\ o = TRUE
         \/ PureSyn(m) /\ st = SYN_RECEIVED /\ o = sock[m.dst].opened,
         LET s == [Rcvd(m.dst) EXCEPT !.remoteSeq = m.seq + 1, !.opened = o]
         IN  Handle(m.dst, m, setState(SentPlain(s), st), {Ack(m.dst, s)})
  PROVE  Does(m.dst)
<1> DEFINE n == m.dst
           r == Rcvd(n)
           v == m.seq + 1
           s == [r EXCEPT !.remoteSeq = v, !.opened = o]
           f == SentPlain(s)
           u == setState(f, st)
           out == {Ack(n, s)}
<1>1. n \in Node /\ v \in Nat /\ m \in net /\ v = m.seq + 1
  BY InSInv, OfSegment
<1>2. r \in Socket_ /\ Quiet(sock[n], r) /\ r.state = sock[n].state
  BY <1>1, InSInv, RcvdQuiet
<1>3. Handle(n, m, u, out)
  OBVIOUS
<1>4. FromPeer(n, m) /\ sock[n].state = SYN_SENT
  <2>1. sock[n].state # LISTEN
    BY StateValues
  <2>2. QED
    BY <2>1, DeliveredFrom
<1>5. st \in State
  BY StateByte, StateValues DEF States
<1>6. \/ m.ctl = {"SYN", "ACK"} /\ m.ack = sock[n].localSeq /\ st = ESTABLISHED /\ o
      \/ PureSyn(m) /\ st = SYN_RECEIVED /\ o = sock[n].opened
  OBVIOUS
<1>7. ~HasRst(m) /\ n = m.dst
  BY DEF HasRst, PureSyn
<1> HIDE DEF n, r, v
<1>8. /\ s \in Socket_ /\ s.localPort = r.localPort /\ s.nextPort = r.nextPort
      /\ s.remoteIP = r.remoteIP /\ s.remotePort = r.remotePort /\ s.remoteSeq = v
      /\ s.sent = r.sent /\ s.start = r.start /\ s.got = r.got /\ s.localSeq = r.localSeq
      /\ s.opened = o
  BY <1>1, <1>2 DEF Socket_
<1>9. Carries(n, s, Ack(n, s), {"ACK"}, s.localSeq, s.remoteSeq, NoData)
  BY SegCarries DEF Ack
<1> HIDE DEF s
<1>10. f \in Socket_ /\ Quiet(s, f)
  BY <1>8, SentPlainQuiet
<1> HIDE DEF f
<1>11. u \in Socket_ /\ Quiet(f, u) /\ u.state = st
  BY <1>5, <1>10, SetStateQuiet
<1> HIDE DEF u
<1>12. Quiet(s, u)
  BY <1>10, <1>11, QuietTrans
<1>13. Becomes(n, u, out)
  BY <1>1, <1>3, <1>8, <1>11, EmptyOut, EmptyBecomes
<1>14. \A k \in out : Carries(n, u, k, {"ACK"}, sock[n].localSeq, u.remoteSeq, NoData)
  BY <1>2, <1>8, <1>9, <1>12 DEF Carries, Same, Quiet
<1>15. /\ u.localPort = sock[n].localPort /\ u.nextPort = sock[n].nextPort
       /\ u.remoteIP = sock[n].remoteIP /\ u.remotePort = sock[n].remotePort
       /\ u.remoteSeq = m.seq + 1 /\ u.opened = o
       /\ u.sent = sock[n].sent /\ u.start = sock[n].start /\ u.got = sock[n].got
       /\ u.localSeq = sock[n].localSeq
  BY <1>1, <1>2, <1>8, <1>12 DEF Same, Quiet
<1>16. Joins(n, m, u, out)
  BY <1>4, <1>6, <1>7, <1>11, <1>14, <1>15 DEF Joins
<1>17. QED
  BY <1>1, <1>7, <1>13, <1>16 DEF Does, Kind, Received

LEMMA RecvSynAckKind ==
  ASSUME SInv, NEW m \in net, RecvSynAck(m.dst, m)
  PROVE  Does(m.dst)
<1> DEFINE n == m.dst
           s == [Rcvd(n) EXCEPT !.remoteSeq = m.seq + 1, !.opened = TRUE]
<1>1. n \in Node
  BY InSInv, OfSegment
<1>2. /\ Rcvd(n) \in Socket_ /\ Quiet(sock[n], Rcvd(n)) /\ Rcvd(n).state = sock[n].state
  BY <1>1, InSInv, RcvdQuiet
<1>3. Delivered(n, m) /\ AcksSyn(s, m)
      /\ Handle(n, m, setState(SentPlain(s), ESTABLISHED), {Ack(n, s)})
  BY DEF RecvSynAck, Acceptable
<1>4. s.state = sock[n].state /\ s.localSeq = sock[n].localSeq
  BY <1>2 DEF Socket_, Quiet
<1>5. sock[n].state = SYN_SENT /\ m.ctl = {"SYN", "ACK"} /\ m.ack = sock[n].localSeq
  BY <1>3, <1>4 DEF AcksSyn
<1>6. HasSyn(m)
  BY <1>5 DEF HasSyn
<1>7. QED
  BY <1>3, <1>5, <1>6, JoinsKind

LEMMA RecvSynSentKind ==
  ASSUME SInv, NEW m \in net, RecvSynSent(m.dst, m)
  PROVE  Does(m.dst)
<1> DEFINE n == m.dst
           v == m.seq + 1
           o == sock[n].opened
           r == Rcvd(n)
           s == [r EXCEPT !.remoteSeq = v]
           t == [r EXCEPT !.remoteSeq = v, !.opened = o]
<1>1. n \in Node /\ v \in Nat
  BY InSInv, OfSegment
<1>2. r \in Socket_ /\ Quiet(sock[n], r) /\ r.state = sock[n].state
  BY <1>1, InSInv, RcvdQuiet
<1>3. /\ Delivered(n, m) /\ s.state = SYN_SENT /\ PureSyn(m)
      /\ Handle(n, m, setState(SentPlain(s), SYN_RECEIVED), {Ack(n, s)})
  BY DEF RecvSynSent, Acceptable
<1>4. o \in BOOLEAN /\ o = r.opened
  BY <1>1, <1>2, InSInv, OfInv DEF Socket_, Quiet
<1>5. s = t /\ s.state = r.state
  <2> HIDE DEF r, v, o
  <2>1. QED
    BY <1>2, <1>4 DEF Socket_
<1>6. HasSyn(m)
  BY <1>3 DEF PureSyn, HasSyn
<1>7. Handle(n, m, setState(SentPlain(t), SYN_RECEIVED), {Ack(n, t)})
  BY <1>3, <1>5
<1>8. QED
  BY <1>2, <1>3, <1>4, <1>5, <1>6, <1>7, JoinsKind

\* The established block.
LEMMA InBlockFrom ==
  ASSUME SInv, NEW m \in net, InEstablished(m.dst, m)
  PROVE  /\ m.dst \in Node /\ FromPeer(m.dst, m) /\ ~HasRst(m)
         /\ sock[m.dst].state \in {4, 20, 244}
<1>1. Delivered(m.dst, m) /\ m.dst \in Node /\ ~HasRst(m)
  BY InSInv, OfSegment DEF InEstablished, Acceptable
<1>2. sock[m.dst].state \in State /\ Low(sock[m.dst].state) = ESTABLISHED
  BY <1>1, InSInv, OfInv DEF Socket_, InEstablished
<1>3. sock[m.dst].state \in {4, 20, 244} /\ sock[m.dst].state # LISTEN
  BY <1>2, StateByte, StateValues
<1>4. QED
  BY <1>1, <1>3, DeliveredFrom

LEMMA InOrderFrom ==
  ASSUME SInv, NEW m \in net, InOrder(m.dst, m)
  PROVE  m.dst \in Node /\ InBlockOrder(m.dst, m)
  BY InBlockFrom DEF InOrder, InBlockOrder

\* The flag, in terms of the socket as it was before the segment.
LEMMA ClearAckFlag ==
  ASSUME SInv, NEW n \in Node, NEW m, NEW t \in Socket_, t.state # UNKNOWN_HOST
  PROVE  LET u == ClearAck(Rcvd(n), m, t)
         IN  u \in Socket_ /\ Quiet(t, u) /\ u.state = Flag(sock[n], m, t.state)
<1> DEFINE s == Rcvd(n)
           u == ClearAck(s, m, t)
<1>1. s.state = sock[n].state /\ s.localSeq = sock[n].localSeq /\ sock[n].state \in State
  BY InSInv, RcvdGood
<1>2. IsAwaiting(s.state) <=> sock[n].state = 244
  BY <1>1, StateByte
<1> HIDE DEF s
<1>3. /\ u \in Socket_ /\ Quiet(t, u)
      /\ u.state = IF m.ack = s.localSeq /\ IsAwaiting(s.state)
                   THEN Cleared(t.state) ELSE t.state
  BY ClearAckQuiet
<1>4. QED
  BY <1>1, <1>2, <1>3 DEF Flag, s

LEMMA RecvNoAckKind ==
  ASSUME SInv, NEW m \in net, RecvNoAck(m.dst, m)
  PROVE  Does(m.dst)
<1>1. m.dst \in Node
  BY InSInv, OfSegment
<1>2. QED
  BY <1>1, InSInv, RcvdQuiet, QuietAnswers DEF RecvNoAck

LEMMA RecvAckKind ==
  ASSUME SInv, NEW m \in net, RecvAck(m.dst, m)
  PROVE  Does(m.dst)
<1> DEFINE n == m.dst
           s == Rcvd(n)
           t == ClearAck(s, m, s)
<1>1. n \in Node /\ InBlockOrder(n, m)
  BY InOrderFrom DEF RecvAck
<1>2. s \in Socket_ /\ Quiet(sock[n], s) /\ s.state = sock[n].state
  BY <1>1, InSInv, RcvdQuiet
<1>3. s.state # UNKNOWN_HOST
  BY <1>1, <1>2, StateValues DEF InBlockOrder
<1>4. t \in Socket_ /\ Quiet(s, t) /\ t.state = Flag(sock[n], m, sock[n].state)
  BY <1>1, <1>2, <1>3, ClearAckFlag
<1>5. Handle(n, m, t, {})
  BY DEF RecvAck
<1> HIDE DEF n, s, t
<1>6. Becomes(n, t, {})
  BY <1>1, <1>2, <1>4, <1>5, EmptyOut, EmptyBecomes
<1>7. TakesAck(n, m, t, {})
  BY <1>1, <1>2, <1>4, QuietTrans DEF TakesAck
<1>8. QED
  BY <1>6, <1>7 DEF Does, Kind, Received, n

LEMMA RecvFinKind ==
  ASSUME SInv, NEW m \in net, RecvFin(m.dst, m)
  PROVE  Does(m.dst)
<1> DEFINE n == m.dst
           s == Rcvd(n)
           v == s.remoteSeq + 1
           t == [s EXCEPT !.remoteSeq = v]
           p == SentPlain(t)
           f == AfterFin(p, m)
           w == ClearAck(s, m, f)
           out == {Ack(n, t)}
<1>1. n \in Node /\ InBlockOrder(n, m) /\ m \in net
  BY InOrderFrom DEF RecvFin
<1>2. s \in Socket_ /\ Quiet(sock[n], s) /\ s.state = sock[n].state /\ s.remoteSeq \in Nat
  <2>1. s \in Socket_ /\ Quiet(sock[n], s) /\ s.state = sock[n].state
    BY <1>1, InSInv, RcvdQuiet
  <2>2. QED
    BY <2>1 DEF Socket_
<1>3. Handle(n, m, w, out) /\ HasFin(m) /\ m.data.len = 0
  BY DEF RecvFin
<1>4. v \in Nat /\ v = s.remoteSeq + 1
  BY <1>2
<1>5. s.state \in {4, 20, 244}
  BY <1>1, <1>2 DEF InBlockOrder
<1> HIDE DEF v
<1>6. /\ t \in Socket_ /\ t.state = s.state /\ t.remoteSeq = v
      /\ t.localPort = s.localPort /\ t.nextPort = s.nextPort /\ t.remoteIP = s.remoteIP
      /\ t.remotePort = s.remotePort /\ t.start = s.start /\ t.got = s.got
      /\ t.opened = s.opened /\ t.sent = s.sent /\ t.localSeq = s.localSeq
  BY <1>2, <1>4 DEF Socket_
<1>7. Carries(n, t, Ack(n, t), {"ACK"}, t.localSeq, t.remoteSeq, NoData)
  BY SegCarries DEF Ack
<1> HIDE DEF t
<1>8. p \in Socket_ /\ Quiet(t, p) /\ p.state = s.state
  BY <1>6, SentPlainQuiet
<1> HIDE DEF p
<1>9. f \in Socket_ /\ Quiet(p, f) /\ f.state = CLOSE_WAIT
  <2>1. f \in Socket_ /\ Quiet(p, f) /\ f.state = FinState(p, m)
    BY <1>8, AfterFinQuiet
  <2>2. FinState(p, m) = CLOSE_WAIT
    BY <1>5, <1>8, StateValues DEF FinState
  <2>3. QED
    BY <2>1, <2>2
<1> HIDE DEF f
<1>10. w \in Socket_ /\ Quiet(f, w) /\ w.state = CLOSE_WAIT
  <2>1. f.state # UNKNOWN_HOST
    BY <1>9, StateValues
  <2>2. w \in Socket_ /\ Quiet(f, w) /\ w.state = Flag(sock[n], m, f.state)
    BY <1>1, <1>9, <2>1, ClearAckFlag
  <2>3. Flag(sock[n], m, CLOSE_WAIT) = CLOSE_WAIT
    BY StateValues DEF Flag, Cleared
  <2>4. QED
    BY <1>9, <2>2, <2>3
<1> HIDE DEF n, s, w
<1>11. Quiet(t, w)
  BY <1>8, <1>9, <1>10, QuietTrans
<1>12. Becomes(n, w, out)
  BY <1>1, <1>3, <1>6, <1>10, EmptyOut, EmptyBecomes
<1>13. \A k \in out : Carries(n, w, k, {"ACK"}, sock[n].localSeq, w.remoteSeq, NoData)
  BY <1>2, <1>6, <1>7, <1>11 DEF Carries, Same, Quiet
<1>14. TakesFin(n, m, w, out)
  BY <1>1, <1>2, <1>3, <1>4, <1>6, <1>10, <1>11, <1>13 DEF TakesFin, Same, Quiet
<1>15. QED
  BY <1>1, <1>12, <1>14 DEF Does, Kind, Received, n

\* What the application says from onDataReceived().
LEMMA SpeaksKind ==
  ASSUME NEW n \in Node, NEW s \in Socket_, s.state \in {4, 20, 244},
         NEW react, NEW len, CanReply(n, s, react, len)
  PROVE  LET u == Reply(n, s, react, len)
             said == ReplySegs(n, s, react, len)
         IN  /\ Speaks(n, s, u, said) /\ said \subseteq Outgoing
             /\ \A k \in said : k.src = n
<1> DEFINE u == Reply(n, s, react, len)
           said == ReplySegs(n, s, react, len)
           d == [first |-> s.sent + 1, len |-> len]
<1>1. CASE react = "none"
  <2>1. u = s /\ said = {}
    BY <1>1 DEF Reply, ReplySegs
  <2>2. QED
    BY <2>1, SameQuiet DEF Speaks
<1>2. CASE react = "close"
  <2>1. u = AfterClose(s) /\ said = {Fin(n, s)}
    BY <1>2 DEF Reply, ReplySegs
  <2>2. /\ AfterClose(s) \in Socket_ /\ Counts(s, AfterClose(s), 1)
        /\ AfterClose(s).state = ClosedState(s.state)
    BY AfterCloseCounts
  <2>3. Carries(n, s, Fin(n, s), {"FIN", "ACK"}, s.localSeq, s.remoteSeq, NoData)
    BY SegCarries DEF Fin
  <2>4. ~localClosed(s)
    BY StateValues DEF localClosed
  <2>5. Empty(n, {Fin(n, s)})
    BY EmptyOut
  <2>6. QED
    BY <2>1, <2>2, <2>3, <2>4, <2>5 DEF Speaks, Closes, Empty
<1>3. CASE react \in {"send", "both"}
  <2> DEFINE v == AfterSend(s, d)
             answer == {Seg(n, s, {"ACK"}, d)}
  <2>1. readyToSend(s) /\ len \in 1 .. MaxPayload(s)
    BY <1>3 DEF CanReply
  <2>2. d \in Data /\ d.first = s.sent + 1 /\ d.len > 0
    <3>1. MaxPayload(s) \in Nat
      BY NumberAssumption DEF MaxPayload, Socket_
    <3>2. len \in Nat /\ len > 0
      BY <2>1, <3>1
    <3>3. s.sent + 1 \in Nat
      BY DEF Socket_
    <3>4. QED
      BY <3>2, <3>3 DEF Data
  <2>3. s.state \in {4, 20} /\ Low(s.state) = ESTABLISHED
    <3>1. s.state \in State
      BY DEF Socket_
    <3>2. QED
      BY <2>1, <3>1, StateByte, StateValues DEF readyToSend
  <2>4. v \in Socket_ /\ SendsOf(s, v, d)
    <3> HIDE DEF d
    <3>1. QED
      BY <2>2, <2>3, AfterSendCounts
  <2>5. /\ Seg(n, s, {"ACK"}, d) \in Outgoing /\ Seg(n, s, {"ACK"}, d).src = n
        /\ Carries(n, s, Seg(n, s, {"ACK"}, d), {"ACK"}, s.localSeq, s.remoteSeq, d)
    <3> HIDE DEF d
    <3>1. QED
      BY <2>2, DataSegment, SegCarries DEF Carries
  <2>6. Sends(n, s, v, answer)
    <3> HIDE DEF d, v
    <3>1. QED
      BY <2>2, <2>3, <2>4, <2>5 DEF Sends
  <2>7. CASE react = "send"
    <3>1. u = v /\ said = answer
      BY <2>7 DEF Reply, ReplySegs
    <3> HIDE DEF d, v
    <3>2. QED
      BY <2>4, <2>5, <2>6, <3>1 DEF Speaks
  <2>8. CASE react = "both"
    <3>1. u = AfterClose(v) /\ said = answer \cup {Fin(n, v)}
      BY <2>8 DEF Reply, ReplySegs
    <3> HIDE DEF d, v, u, said
    <3>2. v.state = 244
      BY <2>4 DEF SendsOf
    <3>3. /\ AfterClose(v) \in Socket_ /\ Counts(v, AfterClose(v), 1)
          /\ AfterClose(v).state = ClosedState(v.state)
      BY <2>4, AfterCloseCounts
    <3>4. Carries(n, v, Fin(n, v), {"FIN", "ACK"}, v.localSeq, v.remoteSeq, NoData)
      BY SegCarries DEF Fin
    <3>5. ~localClosed(v)
      BY <3>2, StateValues DEF localClosed
    <3>6. Closes(n, v, AfterClose(v), {Fin(n, v)})
      BY <3>3, <3>4, <3>5 DEF Closes
    <3>7. Fin(n, v) \in Outgoing /\ Fin(n, v).src = n
      <4>1. Empty(n, {Fin(n, v)})
        BY <2>4, EmptyOut, Zenon
      <4>2. QED
        BY <4>1 DEF Empty
    <3>8. SaysBoth(n, s, u, said)
      BY <2>4, <2>6, <3>1, <3>6 DEF SaysBoth
    <3>9. Speaks(n, s, u, said)
      BY <3>1, <3>3, <3>8 DEF Speaks
    <3>10. said \subseteq Outgoing /\ \A k \in said : k.src = n
      BY <2>5, <3>1, <3>7
    <3>11. QED
      BY <3>9, <3>10 DEF u, said
  <2>9. QED
    BY <1>3, <2>7, <2>8
<1>4. QED
  BY <1>1, <1>2, <1>3 DEF CanReply

\* What is said of s may be said of a socket that differs in the window only.
LEMMA SpeaksOf ==
  ASSUME NEW n, NEW s, NEW r, Quiet(s, r), r.state = s.state, NEW u, NEW said,
         Speaks(n, r, u, said)
  PROVE  Speaks(n, s, u, said)
<1>1. \A k, ctl, seq, ack, data :
        Carries(n, r, k, ctl, seq, ack, data) => Carries(n, s, k, ctl, seq, ack, data)
  BY DEF Carries, Quiet, Same
<1>2. r.localSeq = s.localSeq /\ r.remoteSeq = s.remoteSeq /\ r.sent = s.sent
  BY DEF Quiet, Same
<1>3. CASE Quiet(r, u) /\ u.state = r.state /\ said = {}
  BY <1>3, QuietTrans DEF Speaks
<1>4. CASE Sends(n, r, u, said)
  <2>1. Sends(n, s, u, said)
    BY <1>1, <1>2, <1>4 DEF Sends, SendsOf, Quiet, Same
  <2>2. QED
    BY <2>1 DEF Speaks
<1>5. CASE Closes(n, r, u, said)
  <2>1. Closes(n, s, u, said)
    BY <1>1, <1>2, <1>5, ThenCounts DEF Closes, localClosed
  <2>2. QED
    BY <2>1 DEF Speaks
<1>6. CASE SaysBoth(n, r, u, said)
  <2>0. PICK v \in Socket_ : \E first, last :
         Sends(n, r, v, first) /\ Closes(n, v, u, last) /\ said = first \cup last
    BY <1>6 DEF SaysBoth
  <2>1. PICK first, last :
         Sends(n, r, v, first) /\ Closes(n, v, u, last) /\ said = first \cup last
    BY <2>0
  <2>2. Sends(n, s, v, first)
    BY <1>1, <1>2, <2>1 DEF Sends, SendsOf, Quiet, Same
  <2>3. QED
    BY <2>1, <2>2 DEF Speaks, SaysBoth
<1>7. QED
  BY <1>3, <1>4, <1>5, <1>6 DEF Speaks

\* A socket that has sent and closed: the bytes of the answer, then the FIN.
LEMMA BothSaid ==
  ASSUME NEW n, NEW s \in Socket_, NEW u, NEW said, SaysBoth(n, s, u, said)
  PROVE  /\ Same(s, u) /\ u.opened = s.opened /\ s.state \in {4, 20}
         /\ u.state = FIN_WAIT_1
         /\ \E d \in Data :
               /\ d.first = s.sent + 1 /\ d.len > 0 /\ u.sent = s.sent + d.len
               /\ u.localSeq = s.localSeq + d.len + 1
               /\ \A k \in said :
                     \/ Carries(n, s, k, {"ACK"}, s.localSeq, s.remoteSeq, d)
                     \/ Carries(n, s, k, {"FIN", "ACK"}, s.localSeq + d.len, s.remoteSeq, NoData)
<1>0. PICK v \in Socket_ : \E first, last :
       Sends(n, s, v, first) /\ Closes(n, v, u, last) /\ said = first \cup last
  BY DEF SaysBoth
<1>1. PICK first, last :
       Sends(n, s, v, first) /\ Closes(n, v, u, last) /\ said = first \cup last
  BY <1>0
<1>2. PICK d \in Data : /\ d.first = s.sent + 1 /\ d.len > 0 /\ SendsOf(s, v, d)
                        /\ \A k \in first : Carries(n, s, k, {"ACK"}, s.localSeq, s.remoteSeq, d)
  BY <1>1 DEF Sends
<1>3. /\ Same(s, v) /\ v.opened = s.opened /\ v.sent = s.sent + d.len
      /\ v.localSeq = s.localSeq + d.len /\ v.state = 244
  BY <1>2 DEF SendsOf
<1>4. /\ Same(v, u) /\ u.opened = v.opened /\ u.sent = v.sent /\ u.localSeq = v.localSeq + 1
      /\ u.state = FIN_WAIT_1
  BY <1>1, <1>3 DEF Closes, Counts, ClosedState
<1>5. \A k \in last : Carries(n, s, k, {"FIN", "ACK"}, s.localSeq + d.len, s.remoteSeq, NoData)
  BY <1>1, <1>3 DEF Closes, Carries, Same
<1>6. Same(s, u)
  BY <1>3, <1>4 DEF Same
<1>7. s.state \in {4, 20}
  BY <1>1 DEF Sends
<1>8. QED
  BY <1>1, <1>2, <1>3, <1>4, <1>5, <1>6, <1>7

\* The address, the ports and what was received are not what the application changes.
LEMMA SpeaksSame ==
  ASSUME NEW n, NEW s, NEW u, NEW said, Speaks(n, s, u, said)
  PROVE  Same(s, u) /\ u.opened = s.opened
<1>1. CASE Quiet(s, u)
  BY <1>1 DEF Quiet
<1>2. CASE Sends(n, s, u, said) \/ Closes(n, s, u, said)
  BY <1>2 DEF Sends, SendsOf, Closes, Counts
<1>3. CASE SaysBoth(n, s, u, said)
  <2>0. PICK v \in Socket_ : \E first, last :
         Sends(n, s, v, first) /\ Closes(n, v, u, last)
    BY <1>3 DEF SaysBoth
  <2>1. PICK first, last :
         Sends(n, s, v, first) /\ Closes(n, v, u, last)
    BY <2>0
  <2>2. Same(s, v) /\ Same(v, u) /\ v.opened = s.opened /\ u.opened = v.opened
    BY <2>1 DEF Sends, SendsOf, Closes, Counts
  <2>3. QED
    BY <2>2 DEF Same
<1>4. QED
  BY <1>1, <1>2, <1>3 DEF Speaks

\* Where a socket of the established block is after the application was called.
LEMMA SpeaksState ==
  ASSUME NEW n, NEW s, NEW u, NEW said, Speaks(n, s, u, said), s.state \in {4, 20, 244}
  PROVE  u \in Socket_ /\ u.state \in {4, 20, 244, FIN_WAIT_1}
<1>1. ClosedState(s.state) = FIN_WAIT_1
  BY DEF ClosedState
<1>2. ClosedState(244) = FIN_WAIT_1
  BY DEF ClosedState
<1>3. SaysBoth(n, s, u, said) => u.state = FIN_WAIT_1
  BY <1>2 DEF SaysBoth, Sends, SendsOf, Closes
<1>4. QED
  BY <1>1, <1>3 DEF Speaks, Sends, SendsOf, Closes

LEMMA TakenBytes ==
  ASSUME NEW u \in Socket_, NEW m \in Segment, NEW accept \in BOOLEAN
  PROVE  LET t == IF accept
                  THEN [u EXCEPT !.remoteSeq = m.seq + m.data.len, !.age = 0,
                                 !.got = @ \o Bytes(m.data)]
                  ELSE u
         IN  t \in Socket_ /\ TakesBytes(m, u, t) /\ t.state = u.state
<1> DEFINE v   == m.seq + m.data.len
           nil == 0
           g   == u.got \o Bytes(m.data)
           t   == [u EXCEPT !.remoteSeq = v, !.age = nil, !.got = g]
<1>1. v \in Nat /\ nil \in Nat /\ g \in Seq(Nat)
  <2>1. m.data \in Data /\ m.seq \in Nat /\ u.got \in Seq(Nat)
    BY DEF Segment, Socket_
  <2>2. m.data.len \in Nat
    BY <2>1 DEF Data
  <2>3. Bytes(m.data) \in Seq(Nat)
    BY <2>1, BytesType
  <2>4. QED
    BY <2>1, <2>2, <2>3, ConcatProperties
<1>2. v = m.seq + m.data.len /\ g = u.got \o Bytes(m.data)
  OBVIOUS
<1>3. u \in Socket_ /\ TakesBytes(m, u, u)
  BY DEF TakesBytes
<1> HIDE DEF v, nil, g
<1>4. t \in Socket_ /\ t.state = u.state
      /\ t.localPort = u.localPort /\ t.nextPort = u.nextPort
      /\ t.remoteIP = u.remoteIP /\ t.remotePort = u.remotePort
      /\ t.start = u.start /\ t.sent = u.sent /\ t.localSeq = u.localSeq
      /\ t.stash = u.stash /\ t.opened = u.opened
      /\ t.remoteSeq = v /\ t.got = g
  BY <1>1 DEF Socket_
<1> HIDE DEF t
<1>5. TakesBytes(m, u, t)
  BY <1>2, <1>4 DEF TakesBytes
<1>6. QED
  BY <1>3, <1>4, <1>5 DEF t, v, nil, g

LEMMA RecvDataKind ==
  ASSUME SInv, NEW m \in net, NEW accept \in BOOLEAN, NEW react, NEW len,
         RecvData(m.dst, m, accept, react, len), ~HasFin(m)
  PROVE  Does(m.dst)
<1> DEFINE n == m.dst
           s == Rcvd(n)
           u == Reply(n, s, react, len)
           said == ReplySegs(n, s, react, len)
           t == IF accept
                THEN [u EXCEPT !.remoteSeq = m.seq + m.data.len, !.age = 0,
                               !.got = @ \o Bytes(m.data)]
                ELSE u
           p == SentPlain(t)
           w == ClearAck(s, m, p)
           out == said \cup {Ack(n, t)}
<1>1. n \in Node /\ InBlockOrder(n, m) /\ m \in net /\ m \in Segment
  BY InOrderFrom, InSInv, OfSegment DEF RecvData, TakeData
<1>2. m.data.len > 0 /\ ~HasFin(m)
  BY DEF RecvData, TakeData
<1>3. BeforeData(n, m) = s
  BY <1>2 DEF BeforeData
<1>4. Handle(n, m, w, out) /\ CanReply(n, s, react, len)
  BY <1>2, <1>3 DEF RecvData, TakeData
<1>5. s \in Socket_ /\ Quiet(sock[n], s) /\ s.state = sock[n].state
  BY <1>1, InSInv, RcvdQuiet
<1>6. s.state \in {4, 20, 244}
  BY <1>1, <1>5 DEF InBlockOrder
<1>7. /\ Speaks(n, s, u, said) /\ said \subseteq Outgoing
      /\ \A k \in said : k.src = n
  BY <1>1, <1>4, <1>5, <1>6, SpeaksKind
<1>8. Speaks(n, sock[n], u, said)
  BY <1>5, <1>7, SpeaksOf
<1>9. u \in Socket_ /\ u.state \in {4, 20, 244, FIN_WAIT_1}
  BY <1>6, <1>7, SpeaksState
<1> HIDE DEF u, said
<1>10. t \in Socket_ /\ TakesBytes(m, u, t) /\ t.state = u.state
  BY <1>1, <1>9, TakenBytes
<1>11. Carries(n, t, Ack(n, t), {"ACK"}, t.localSeq, t.remoteSeq, NoData)
  BY SegCarries DEF Ack
<1> HIDE DEF t
<1>12. p \in Socket_ /\ Quiet(t, p) /\ p.state = u.state
  BY <1>10, SentPlainQuiet
<1> HIDE DEF p
<1>13. w \in Socket_ /\ Quiet(p, w) /\ w.state = Flag(sock[n], m, u.state)
  <2>1. p.state # UNKNOWN_HOST
    BY <1>9, <1>12, StateValues
  <2>2. QED
    BY <1>1, <1>12, <2>1, ClearAckFlag
<1> HIDE DEF n, s, w
<1>14. Quiet(t, w)
  BY <1>12, <1>13, QuietTrans
<1>15. Becomes(n, w, out)
  <2>1. Ack(n, t) \in Outgoing /\ Ack(n, t).src = n
    BY <1>1, <1>10, EmptyOut DEF Empty
  <2>2. QED
    BY <1>1, <1>4, <1>7, <1>13, <2>1 DEF Becomes, Changes, Handle
<1>16. Carries(n, w, Ack(n, t), {"ACK"}, w.localSeq, w.remoteSeq, NoData)
  BY <1>11, <1>14 DEF Carries, Same, Quiet
<1>17. TakesData(n, m, u, said, w, out)
  BY <1>1, <1>2, <1>8, <1>10, <1>13, <1>14, <1>16 DEF TakesData, TakesBytes, Same, Quiet
<1>18. QED
  BY <1>1, <1>15, <1>17 DEF Does, Kind, Received, n

\* Data with a FIN, which counts before the application is called.
LEMMA RecvEndKind ==
  ASSUME SInv, NEW m \in net, NEW accept \in BOOLEAN, NEW react, NEW len,
         RecvData(m.dst, m, accept, react, len), HasFin(m)
  PROVE  DoesAny(m.dst)
<1> DEFINE n == m.dst
           s == Rcvd(n)
           v == s.remoteSeq + 1
           r == [s EXCEPT !.remoteSeq = v]
           u == Reply(n, r, react, len)
           said == ReplySegs(n, r, react, len)
           t == IF accept
                THEN [u EXCEPT !.remoteSeq = m.seq + m.data.len, !.age = 0,
                               !.got = @ \o Bytes(m.data)]
                ELSE u
           p == SentPlain(t)
           f == AfterFin(p, m)
           w == ClearAck(s, m, f)
           out == said \cup {Ack(n, t)}
<1>1. n \in Node /\ InBlockOrder(n, m) /\ m \in net /\ m \in Segment
  BY InOrderFrom, InSInv, OfSegment DEF RecvData, TakeData
<1>2. m.data.len > 0
  BY DEF RecvData, TakeData
<1>3. BeforeData(n, m) = r
  BY DEF BeforeData
<1>4. Handle(n, m, w, out) /\ CanReply(n, r, react, len)
  BY <1>2, <1>3 DEF RecvData, TakeData
<1>5. s \in Socket_ /\ Quiet(sock[n], s) /\ s.state = sock[n].state /\ s.remoteSeq \in Nat
  <2>1. s \in Socket_ /\ Quiet(sock[n], s) /\ s.state = sock[n].state
    BY <1>1, InSInv, RcvdQuiet
  <2>2. QED
    BY <2>1 DEF Socket_
<1>6. v \in Nat /\ v = s.remoteSeq + 1 /\ s.state \in {4, 20, 244}
  BY <1>1, <1>5 DEF InBlockOrder
<1> HIDE DEF v
<1>7. r \in Socket_ /\ Heard(s, r) /\ r.state = s.state
  BY <1>5, <1>6 DEF Socket_, Heard
<1> HIDE DEF r
<1>8. Heard(sock[n], r) /\ r.state = sock[n].state
  BY <1>5, <1>7 DEF Heard, Quiet, Same
<1>9. /\ Speaks(n, r, u, said) /\ said \subseteq Outgoing
      /\ \A k \in said : k.src = n
  BY <1>1, <1>4, <1>6, <1>7, SpeaksKind
<1>10. u \in Socket_ /\ u.state \in {4, 20, 244, FIN_WAIT_1}
  BY <1>6, <1>7, <1>9, SpeaksState
<1> HIDE DEF u, said
<1>11. t \in Socket_ /\ TakesBytes(m, u, t) /\ t.state = u.state
  BY <1>1, <1>10, TakenBytes
<1>12. Carries(n, t, Ack(n, t), {"ACK"}, t.localSeq, t.remoteSeq, NoData)
  BY SegCarries DEF Ack
<1> HIDE DEF t
<1>13. p \in Socket_ /\ Quiet(t, p) /\ p.state = u.state
  BY <1>11, SentPlainQuiet
<1> HIDE DEF p
<1>14. f \in Socket_ /\ Quiet(p, f) /\ f.state = FinState(u, m)
  <2>1. f \in Socket_ /\ Quiet(p, f) /\ f.state = FinState(p, m)
    BY <1>13, AfterFinQuiet
  <2>2. p.localSeq = u.localSeq
    BY <1>11, <1>13 DEF Quiet, TakesBytes
  <2>3. QED
    BY <1>13, <2>1, <2>2 DEF FinState
<1> HIDE DEF f
<1>15. FinState(u, m) \in {CLOSE_WAIT, CLOSING, TIME_WAIT}
  BY <1>10 DEF FinState
<1>16. w \in Socket_ /\ Quiet(f, w) /\ w.state = FinState(u, m)
  <2>1. f.state # UNKNOWN_HOST
    BY <1>14, <1>15, StateValues
  <2>2. w \in Socket_ /\ Quiet(f, w) /\ w.state = Flag(sock[n], m, f.state)
    BY <1>1, <1>14, <2>1, ClearAckFlag
  <2>3. Flag(sock[n], m, FinState(u, m)) = FinState(u, m)
    BY <1>15, StateValues DEF Flag, Cleared
  <2>4. QED
    BY <1>14, <2>2, <2>3
<1> HIDE DEF n, s, w
<1>17. Quiet(t, w)
  BY <1>13, <1>14, <1>16, QuietTrans
<1>18. Becomes(n, w, out)
  <2>1. Ack(n, t) \in Outgoing /\ Ack(n, t).src = n
    BY <1>1, <1>11, EmptyOut DEF Empty
  <2>2. QED
    BY <1>1, <1>4, <1>9, <1>16, <2>1 DEF Becomes, Changes, Handle
<1>19. Carries(n, w, Ack(n, t), {"ACK"}, w.localSeq, w.remoteSeq, NoData)
  BY <1>12, <1>17 DEF Carries, Same, Quiet
<1>20. TakesBytes(m, u, w)
  BY <1>11, <1>17 DEF TakesBytes, Same, Quiet
<1>21. TakesEnd(n, m, r, u, said, w, out)
  BY <1>1, <1>2, <1>7, <1>8, <1>9, <1>16, <1>19, <1>20 DEF TakesEnd
<1>22. QED
  BY <1>1, <1>18, <1>21 DEF DoesAny, AnyKind, EndKind, n

\* Past the established block.
LEMMA RecvAckOfAllKind ==
  ASSUME SInv, NEW m \in net, RecvAckOfAll(m.dst, m)
  PROVE  Does(m.dst)
<1> DEFINE n == m.dst
           s == Rcvd(n)
           t == AfterAck(n, s)
           yes == TRUE
           u == [t EXCEPT !.opened = yes]
<1>1. n \in Node /\ Delivered(n, m) /\ m \in net /\ m.dst = n
  BY InSInv, OfSegment DEF RecvAckOfAll, PastEstablished, Acceptable
<1>2. s \in Socket_ /\ Quiet(sock[n], s) /\ s.state = sock[n].state /\ s.state \in State
  BY <1>1, InSInv, RcvdQuiet, RcvdGood
<1>3. /\ Handle(n, m, u, {}) /\ ~HasRst(m) /\ HasAck(m) /\ m.ack = s.localSeq
      /\ Low(s.state) # ESTABLISHED
  BY DEF RecvAckOfAll, PastEstablished
<1>4. sock[n].state # LISTEN => FromPeer(n, m)
  BY <1>1, DeliveredFrom
<1>5. sock[n].state \notin {4, 20, 244}
  BY <1>2, <1>3, StateByte, StateValues
<1>6. yes \in BOOLEAN /\ yes = TRUE
  OBVIOUS
<1>7. t \in Socket_ /\ Quiet(s, t) /\ t.state = AckState(n, s.state)
  BY <1>1, <1>2, AfterAckQuiet
<1> HIDE DEF n, s, t, yes
<1>8. /\ u \in Socket_ /\ Same(t, u) /\ u.sent = t.sent /\ u.localSeq = t.localSeq
      /\ u.opened = TRUE /\ u.state = t.state
  BY <1>6, <1>7 DEF Socket_, Same
<1> HIDE DEF u
<1>9. Same(sock[n], u) /\ u.sent = sock[n].sent /\ u.localSeq = sock[n].localSeq
  BY <1>2, <1>7, <1>8 DEF Quiet, Same
<1>10. Becomes(n, u, {})
  BY <1>1, <1>2, <1>3, <1>8, EmptyOut, EmptyBecomes
<1>11. CASE sock[n].state = LAST_ACK
  <2>1. u.state = IF isHost(n) THEN LISTEN ELSE CLOSED
    BY <1>2, <1>7, <1>8, <1>11, StateValues DEF AckState
  <2>2. Leaves(n, u, {})
    BY <1>9, <2>1 DEF Leaves
  <2>3. QED
    BY <1>10, <2>2 DEF Does, Kind, n
<1>12. CASE sock[n].state # LAST_ACK
  <2>1. m.ack = sock[n].localSeq
    BY <1>2, <1>3 DEF Quiet
  <2>2. Acked(n, m, u, {})
    BY <1>1, <1>2, <1>3, <1>4, <1>5, <1>7, <1>8, <1>9, <1>12, <2>1 DEF Acked
  <2>3. QED
    BY <1>1, <1>10, <2>2 DEF Does, Kind, Received, n
<1>13. QED
  BY <1>11, <1>12

LEMMA RecvLastResortKind ==
  ASSUME SInv, NEW m \in net, RecvLastResort(m.dst, m)
  PROVE  Does(m.dst)
<1>1. m.dst \in Node
  BY InSInv, OfSegment
<1>2. QED
  BY <1>1, InSInv, RcvdQuiet, ForceClosedKind DEF RecvLastResort

LEMMA HandleSegmentKind ==
  ASSUME SInv, NEW m \in net, handleSegment(m.dst, m)
  PROVE  Does(m.dst) \/ (HasFin(m) /\ m.data.len > 0 /\ ~HasRst(m) /\ DoesAny(m.dst))
<1>1. ASSUME NEW accept \in BOOLEAN, NEW react \in {"none", "send", "close", "both"},
             NEW len \in 0 .. StashSize, RecvData(m.dst, m, accept, react, len)
      PROVE  Does(m.dst) \/ (HasFin(m) /\ m.data.len > 0 /\ ~HasRst(m) /\ DoesAny(m.dst))
  <2>1. m.data.len > 0 /\ ~HasRst(m)
    BY <1>1 DEF RecvData, TakeData, InOrder, InEstablished
  <2>2. QED
    BY <1>1, <2>1, RecvDataKind, RecvEndKind
<1>2. QED
  BY <1>1, RecvBadKind, RecvAnswerKind, RecvRstKind, RecvSynListenKind, RecvSynSentKind,
     RecvSynAckKind, RecvNoAckKind, RecvAckKind, RecvFinKind, RecvAckOfAllKind,
     RecvLastResortKind DEF handleSegment

\* Every step of a Socket, ...
LEMMA NextKind ==
  ASSUME SInv, [Next]_vars
  PROVE  /\ Passes \/ \E n \in Node : DoesAny(n)
         /\ FlagsAlone => Passes \/ \E n \in Node : Does(n)
<1>1. CASE \E n \in Node : Application(n) \/ checkState(n)
  <2>1. \E n \in Node : Does(n)
    BY <1>1, ConnectKind, ConnectByNameKind, SendKind, CheckKinds, CheckResolvingKind,
       CheckRetryKind, GiveUpKind, TimeWaitKind DEF Application, checkState
  <2>2. QED
    BY <2>1 DEF Does, DoesAny, AnyKind
<1>2. CASE \E m \in net : handleSegment(m.dst, m)
  <2>1. PICK m \in net : handleSegment(m.dst, m)
    BY <1>2
  <2>2. m.dst \in Node /\ m.data.len \in Nat
    BY InSInv, OfSegment
  <2>3. CASE Does(m.dst)
    BY <2>2, <2>3 DEF Does, DoesAny, AnyKind
  <2>4. CASE HasFin(m) /\ m.data.len > 0 /\ ~HasRst(m) /\ DoesAny(m.dst)
    <3>1. FlagsAlone => m.data.len = 0
      BY <2>4 DEF FlagsAlone, Alone
    <3>2. ~FlagsAlone
      BY <2>2, <2>4, <3>1
    <3>3. QED
      BY <2>2, <2>4, <3>2
  <2>5. QED
    BY <2>1, <2>3, <2>4, HandleSegmentKind
<1>3. CASE Network \/ UNCHANGED vars
  BY <1>3, NetworkPasses
<1>4. CASE Elapse
  BY <1>4, ElapsePasses
<1>5. QED
  BY <1>1, <1>2, <1>3, <1>4 DEF Next

\* ... and of a TCP that is not of this library.
LEMMA SendLastKind ==
  ASSUME SInv, NEW n \in Node, NEW len \in 1 .. StashSize, SendLast(n, len)
  PROVE  DoesAny(n) /\ IInv' /\ Forward
<1> DEFINE s == sock[n]
           d == [first |-> s.sent + 1, len |-> len]
           m == Seg(n, SentPlain(s), {"FIN", "ACK"}, d)
           r == AfterSend(s, d)
           v == r.localSeq + 1
           u == [r EXCEPT !.localSeq = v]
           t == setState(u, FIN_WAIT_1)
<1>1. s \in Socket_ /\ s.state = ESTABLISHED /\ Step(n, t, {m})
  BY InSInv, OfInv DEF SendLast
<1>2. d \in Data /\ d.len = len /\ len > 0 /\ len \in Nat
  <2>1. s.sent + 1 \in Nat
    BY <1>1, SMTT(30) DEF Socket_
  <2>2. QED
    BY <2>1, NumberAssumption DEF Data
<1> HIDE DEF d
<1>3. Low(s.state) = ESTABLISHED
  BY <1>1, StateByte, StateValues DEF Socket_
<1>4. r \in Socket_ /\ SendsOf(s, r, d)
  BY <1>1, <1>2, <1>3, AfterSendCounts
<1> HIDE DEF r
<1>5. v \in Nat /\ v = s.localSeq + len + 1 /\ s.localSeq \in Nat
  <2>1. s.localSeq \in Nat /\ r.localSeq = s.localSeq + d.len
    BY <1>1, <1>4 DEF Socket_, SendsOf
  <2>2. QED
    BY <1>2, <2>1
<1> HIDE DEF v
<1>6. /\ u \in Socket_ /\ Same(s, u) /\ u.opened = s.opened /\ u.sent = s.sent + d.len
      /\ u.localSeq = v
  BY <1>4, <1>5 DEF Socket_, SendsOf, Same
<1> HIDE DEF u
<1>7. t \in Socket_ /\ Quiet(u, t) /\ t.state = FIN_WAIT_1
  <2>1. FIN_WAIT_1 \in State
    BY StateByte, StateValues DEF States
  <2>2. QED
    BY <1>6, <2>1, SetStateQuiet
<1>8. SentPlain(s) \in Socket_ /\ Quiet(s, SentPlain(s))
  BY <1>1, SentPlainQuiet
<1>9. /\ m \in Outgoing /\ m.src = n
      /\ Carries(n, s, m, {"FIN", "ACK"}, s.localSeq, s.remoteSeq, d)
  <2>1. {"FIN", "ACK"} \in Control
    BY DEF Control
  <2>2. m \in Outgoing /\ m.src = n
    BY <1>2, <1>8, <2>1, SegType
  <2>3. Carries(n, SentPlain(s), m, {"FIN", "ACK"}, s.localSeq, s.remoteSeq, d)
    BY <1>8, SegCarries DEF Quiet, Same
  <2>4. QED
    BY <1>8, <2>2, <2>3, CarriesSame DEF Quiet
<1> HIDE DEF t, m
<1>10. Changes(n, t, {m})
  BY <1>1 DEF Step, Changes
<1>11. SeqOK(t) /\ ~IsAwaiting(t.state) /\ t.localSeq = s.localSeq + d.len + 1
  <2>1. t.localSeq = s.localSeq + d.len + 1
    BY <1>2, <1>5, <1>6, <1>7 DEF Quiet
  <2>2. ~IsAwaiting(t.state)
    BY <1>7, StateByte, StateValues DEF States
  <2>3. t.localSeq \in Nat /\ t.localSeq >= 1
    BY <1>2, <1>5, <2>1
  <2>4. QED
    BY <2>1, <2>2, <2>3 DEF SeqOK
<1>12. Fresh(n, s, t, {m})
  <2>1. t.localSeq >= s.localSeq + d.len
    BY <1>2, <1>5, <1>11
  <2>2. m.seq = s.localSeq /\ m.data = d
    BY <1>9 DEF Carries
  <2>3. QED
    BY <1>2, <1>7, <1>9, <1>11, <2>1, <2>2 DEF Fresh
<1>13. IInv' /\ Forward
  BY <1>10, <1>12, InSInv, FreshInv
<1>14. Becomes(n, t, {m})
  BY <1>7, <1>9, <1>10 DEF Becomes
<1>15. SendsEnd(n, t, {m})
  BY <1>1, <1>2, <1>6, <1>7, <1>9, <1>11 DEF SendsEnd, Quiet, Same
<1>16. QED
  BY <1>13, <1>14, <1>15 DEF DoesAny, AnyKind, EndKind

LEMMA TakeFinKind ==
  ASSUME SInv, NEW m \in net, TakeFin(m.dst, m)
  PROVE  DoesAny(m.dst) /\ IInv' /\ Forward
<1> DEFINE n == m.dst
           s == Rcvd(n)
           v == s.remoteSeq + 1
           r == [s EXCEPT !.remoteSeq = v]
           p == SentPlain(r)
           out == {Ack(n, r)}
<1>1. n \in Node /\ Delivered(n, m) /\ m \in net /\ sock[n] \in Socket_
  BY InSInv, OfInv, OfSegment DEF TakeFin
<1>2. /\ s \in Socket_ /\ Quiet(sock[n], s) /\ s.state = sock[n].state
      /\ Good(sock[n], s) /\ s.remoteSeq \in Nat
  <2>1. s \in Socket_ /\ Quiet(sock[n], s) /\ s.state = sock[n].state /\ Good(sock[n], s)
    BY <1>1, InSInv, RcvdQuiet, RcvdGood
  <2>2. QED
    BY <2>1 DEF Socket_
<1>3. v \in Nat /\ v = s.remoteSeq + 1
  BY <1>2
<1>4. HasFin(m) /\ ~HasRst(m) /\ m.data.len = 0 /\ m.seq = sock[n].remoteSeq
  BY DEF TakeFin
<1>5. PICK st \in {CLOSING, TIME_WAIT} :
         /\ Handle(n, m, setState(p, st), out)
         /\ \/ s.state = FIN_WAIT_2 /\ st = TIME_WAIT
            \/ s.state = FIN_WAIT_1 /\ st = CLOSING
  <2>1. r.state = s.state
    BY <1>2 DEF Socket_
  <2>2. QED
    BY <2>1 DEF TakeFin
<1> HIDE DEF v
<1>6. r \in Socket_ /\ Heard(s, r) /\ r.state = s.state
  BY <1>2, <1>3 DEF Socket_, Heard
<1>7. Carries(n, r, Ack(n, r), {"ACK"}, r.localSeq, r.remoteSeq, NoData)
  BY SegCarries DEF Ack
<1> HIDE DEF r
<1>8. p \in Socket_ /\ Quiet(r, p)
  BY <1>6, SentPlainQuiet
<1> HIDE DEF p
<1> DEFINE t == setState(p, st)
<1>9. t \in Socket_ /\ Quiet(p, t) /\ t.state = st /\ st \in State
  <2>1. st \in State
    BY <1>5, StateByte, StateValues DEF States
  <2>2. QED
    BY <1>8, <2>1, SetStateQuiet
<1>10. Heard(sock[n], t)
  BY <1>2, <1>6, <1>8, <1>9 DEF Heard, Quiet, Same
<1>11. \A k \in out : Carries(n, t, k, {"ACK"}, sock[n].localSeq, t.remoteSeq, NoData)
  BY <1>2, <1>6, <1>7, <1>8, <1>9 DEF Carries, Heard, Quiet, Same
<1>12. Empty(n, out)
  BY <1>1, <1>6, EmptyOut
<1>13. FromPeer(n, m)
  <2>1. sock[n].state # LISTEN
    BY <1>2, <1>5, StateValues
  <2>2. QED
    BY <1>1, <2>1, DeliveredFrom
<1>14. Handle(n, m, t, out)
  BY <1>5
<1>15. Good(sock[n], t)
  <2>1. /\ SeqOK(sock[n]) /\ sock[n].localSeq \in Nat /\ t.localSeq = sock[n].localSeq
        /\ t.stash = sock[n].stash
    BY <1>1, <1>10, InSInv, OfInv DEF Heard
  <2>2. ~IsAwaiting(t.state)
    BY <1>5, <1>9, StateByte, StateValues DEF States
  <2>3. t.state \in {FIN_WAIT_1, CLOSING} => sock[n].state = FIN_WAIT_1
    BY <1>2, <1>5, <1>9, StateValues
  <2>4. t.state \notin {SYN_SENT, SYN_RECEIVED, FIN_WAIT_1}
    BY <1>5, <1>9, StateValues
  <2>5. QED
    BY <1>9, <2>1, <2>2, <2>3, <2>4 DEF Good, Keeps, SeqOK
<1> HIDE DEF n, s, t, out
<1>16. IInv' /\ Forward
  BY <1>1, <1>12, <1>14, <1>15, InSInv, QuietInv DEF Handle, Changes
<1>17. Becomes(n, t, out)
  BY <1>1, <1>9, <1>12, <1>14, EmptyBecomes
<1>18. TakesLateFin(n, m, t, out)
  BY <1>2, <1>4, <1>5, <1>9, <1>10, <1>11, <1>13 DEF TakesLateFin
<1>19. QED
  BY <1>1, <1>16, <1>17, <1>18 DEF DoesAny, AnyKind, EndKind, n

LEMMA ForeignKind ==
  ASSUME SInv, [ForeignNext]_vars
  PROVE  /\ IInv' /\ Forward
         /\ Passes \/ \E n \in Node : DoesAny(n)
<1>1. CASE [Next]_vars
  BY <1>1, NextInv, InSInv, NextKind
<1>2. ASSUME NEW n \in Foreign, NEW len \in 1 .. StashSize, SendLast(n, len)
      PROVE  IInv' /\ Forward /\ \E k \in Node : DoesAny(k)
  BY <1>2, SendLastKind, ForeignAssumption
<1>3. ASSUME NEW m \in net, TakeFin(m.dst, m)
      PROVE  IInv' /\ Forward /\ \E k \in Node : DoesAny(k)
  <2>1. m.dst \in Node
    BY InSInv, OfSegment
  <2>2. QED
    BY <1>3, <2>1, TakeFinKind
<1>4. QED
  BY <1>1, <1>2, <1>3 DEF ForeignNext

-----------------------------------------------------------------------------
(* What is in flight.                                                      *)

LEMMA Flags ==
  ASSUME NEW m
  PROVE  /\ m.ctl = {"SYN"} => PureSyn(m) /\ HasSyn(m) /\ ~HasAck(m) /\ ~HasFin(m) /\ ~HasRst(m)
         /\ m.ctl = {"SYN", "ACK"} =>
               ~PureSyn(m) /\ HasSyn(m) /\ HasAck(m) /\ ~HasFin(m) /\ ~HasRst(m)
         /\ m.ctl = {"FIN", "ACK"} =>
               ~PureSyn(m) /\ ~HasSyn(m) /\ HasAck(m) /\ HasFin(m) /\ ~HasRst(m)
         /\ m.ctl = {"ACK"} =>
               ~PureSyn(m) /\ ~HasSyn(m) /\ HasAck(m) /\ ~HasFin(m) /\ ~HasRst(m)
         /\ PureSyn(m) => m.ctl = {"SYN"}
  BY DEF PureSyn, HasSyn, HasAck, HasFin, HasRst

\* The sequence numbers that a segment takes.
Extent(m) == m.data.len + (IF HasSyn(m) THEN 1 ELSE 0) + (IF HasFin(m) THEN 1 ELSE 0)

LEMMA OutFields ==
  ASSUME NEW m \in Outgoing
  PROVE  /\ m.seq \in Nat /\ m.ack \in Nat /\ m.data \in Data /\ m.data.len \in Nat
         /\ m.data.first \in Nat /\ Extent(m) \in Nat /\ Extent(m) >= m.data.len
         /\ HasSyn(m) => Extent(m) >= 1
         /\ HasFin(m) => Extent(m) >= 1
<1>1. m.seq \in Nat /\ m.ack \in Nat /\ m.data \in Data
  BY DEF Outgoing
<1>2. m.data.len \in Nat /\ m.data.first \in Nat
  BY <1>1 DEF Data
<1>3. QED
  BY <1>1, <1>2 DEF Extent

\* What a step of n from s to t may send.
OutOK(n, s, t, m) ==
    \/ HasRst(m)
    \/ /\ m.src = n /\ m.dst = t.remoteIP
       /\ m.sport = t.localPort /\ m.dport = t.remotePort
       /\ m.seq + Extent(m) <= t.localSeq
       /\ Alone(m)
       /\ PureSyn(m) => t.state = SYN_SENT
       /\ HasAck(m) => \/ m.ack = t.remoteSeq
                       \/ m.ack = s.remoteSeq /\ t.remoteIP = s.remoteIP

\* The last data and the FIN, in one segment, are there for n.
Ending(n) == \E k \in net : InBlockOrder(n, k) /\ HasFin(k) /\ k.data.len > 0

\* ... and where there are foreign devices.
OutBound(n, s, t, m) ==
    \/ HasRst(m)
    \/ /\ m.src = n /\ m.dst = t.remoteIP
       /\ m.sport = t.localPort /\ m.dport = t.remotePort
       /\ m.seq + Extent(m) <= t.localSeq
       /\ PlainSyn(m)
       /\ PureSyn(m) => t.state = SYN_SENT
       /\ HasAck(m) => \/ m.ack = t.remoteSeq
                       \/ m.ack = s.remoteSeq /\ t.remoteIP = s.remoteIP
                       \/ m.ack = s.remoteSeq + 1 /\ t.remoteIP = s.remoteIP /\ Ending(n)

LEMMA CarriesOK ==
  ASSUME NEW n, NEW s, NEW t, NEW u \in Socket_, NEW m \in Outgoing, t.remoteIP = u.remoteIP,
         t.localPort = u.localPort, t.remotePort = u.remotePort, t.localSeq \in Nat,
         NEW ctl, NEW seq \in Nat, NEW data \in Data, NEW ack,
         ack = t.remoteSeq \/ (ack = s.remoteSeq /\ t.remoteIP = s.remoteIP),
         Carries(n, u, m, ctl, seq, ack, data),
         \/ ctl = {"ACK"} /\ seq + data.len <= t.localSeq
         \/ ctl = {"SYN"} /\ seq + 1 <= t.localSeq /\ data = NoData /\ t.state = SYN_SENT
         \/ ctl \in {{"SYN", "ACK"}, {"FIN", "ACK"}} /\ seq + 1 <= t.localSeq /\ data = NoData
  PROVE  OutOK(n, s, t, m)
<1>1. m.data.len \in Nat /\ NoData.len = 0 /\ m.data = data /\ m.ctl = ctl /\ m.seq = seq
  BY OutFields, NoDataType DEF Carries
<1>2. CASE ctl = {"ACK"}
  <2>1. Extent(m) = data.len
    BY <1>1, <1>2, Flags DEF Extent
  <2>2. QED
    BY <1>1, <1>2, <2>1, Flags DEF OutOK, Carries, Alone, PlainSyn
<1>3. CASE ctl = {"SYN"}
  <2>1. Extent(m) = 1 /\ m.data.len = 0
    BY <1>1, <1>3, Flags DEF Extent
  <2>2. QED
    BY <1>1, <1>3, <2>1, Flags DEF OutOK, Carries, Alone, PlainSyn
<1>4. CASE ctl = {"SYN", "ACK"}
  <2>1. Extent(m) = 1 /\ m.data.len = 0
    BY <1>1, <1>4, Flags DEF Extent
  <2>2. QED
    BY <1>1, <1>4, <2>1, Flags DEF OutOK, Carries, Alone, PlainSyn
<1>5. CASE ctl = {"FIN", "ACK"}
  <2>1. Extent(m) = 1 /\ m.data.len = 0
    BY <1>1, <1>5, Flags DEF Extent
  <2>2. QED
    BY <1>1, <1>5, <2>1, Flags DEF OutOK, Carries, Alone, PlainSyn
<1>6. QED
  BY <1>2, <1>3, <1>4, <1>5

\* What the device and the network are after a step.
LEMMA BecomesThen ==
  ASSUME SInv, NEW n, NEW t, NEW out, Becomes(n, t, out)
  PROVE  /\ n \in Node /\ t \in Socket_ /\ sock[n] \in Socket_ /\ SeqOK(sock[n])
         /\ t.localSeq \in Nat /\ sock[n].localSeq \in Nat
         /\ t.remoteSeq \in Nat /\ sock[n].remoteSeq \in Nat
         /\ sock[n].sent \in Nat /\ sock[n].state \in State /\ t.state \in State
         /\ \A m \in out : m \in Outgoing /\ m.src = n
         /\ sock'[n] = t /\ \A k \in Node : k # n => sock'[k] = sock[k]
         /\ net' \subseteq net \cup out
         /\ \A m \in net' : m \in Segment /\ m.src \in Node /\ m.dst \in Node
<1>1. n \in Node /\ t \in Socket_ /\ out \subseteq Outgoing /\ (\A m \in out : m.src = n)
      /\ Changes(n, t, out)
  BY DEF Becomes
<1>2. TypeOK
  BY DEF SInv, IInv
<1>3. /\ TypeOK' /\ sock'[n] = t
      /\ \A k \in Node : k # n => sock'[k] = sock[k]
      /\ net' \subseteq net \cup out
  BY <1>1, <1>2, ChangesType
<1>4. \A m \in net' : m \in Segment /\ m.src \in Node /\ m.dst \in Node
  BY <1>3 DEF TypeOK, Segment
<1>5. sock[n] \in Socket_ /\ SeqOK(sock[n])
  BY <1>1, InSInv, OfInv
<1>6. \A s \in Socket_ : s.localSeq \in Nat /\ s.remoteSeq \in Nat /\ s.sent \in Nat
                         /\ s.state \in State
  BY DEF Socket_
<1>7. QED
  BY <1>1, <1>3, <1>4, <1>5, <1>6

\* The fields that a segment takes from its socket are those of s, t has come
\* from it, and localSeq is past what is sent.
LEMMA SaidOK ==
  ASSUME NEW n, NEW s \in Socket_, NEW u, NEW out, NEW t \in Socket_,
         \A m \in out : m \in Outgoing,
         Sends(n, s, u, out) \/ Closes(n, s, u, out),
         t.remoteIP = u.remoteIP, t.localPort = u.localPort, t.remotePort = u.remotePort,
         t.localSeq = u.localSeq
  PROVE  /\ t.localSeq >= s.localSeq
         /\ \A m \in out : OutOK(n, s, t, m)
<1>1. /\ s.localSeq \in Nat /\ t.localSeq \in Nat /\ NoData \in Data
      /\ \A d \in Data : d.len \in Nat
  BY NoDataType DEF Socket_, Data
<1>2. CASE Sends(n, s, u, out)
  <2>1. PICK d \in Data :
          /\ d.len > 0 /\ SendsOf(s, u, d)
          /\ \A m \in out : Carries(n, s, m, {"ACK"}, s.localSeq, s.remoteSeq, d)
    BY <1>2 DEF Sends
  <2>2. /\ t.localSeq = s.localSeq + d.len /\ t.remoteIP = s.remoteIP
        /\ t.localPort = s.localPort /\ t.remotePort = s.remotePort
    BY <2>1 DEF SendsOf, Same
  <2>3. ASSUME NEW m \in out
        PROVE  OutOK(n, s, t, m)
    <3>1. Carries(n, s, m, {"ACK"}, s.localSeq, s.remoteSeq, d) /\ m \in Outgoing
      BY <2>1
    <3>2. s.localSeq + d.len <= t.localSeq
      BY <1>1, <2>2
    <3>3. QED
      BY <1>1, <2>2, <3>1, <3>2, CarriesOK
  <2>4. QED
    BY <1>1, <2>2, <2>3
<1>3. CASE Closes(n, s, u, out)
  <2>1. /\ t.localSeq = s.localSeq + 1 /\ t.remoteIP = s.remoteIP
        /\ t.localPort = s.localPort /\ t.remotePort = s.remotePort
    BY <1>3 DEF Closes, Counts, Same
  <2>2. ASSUME NEW m \in out
        PROVE  OutOK(n, s, t, m)
    <3>1. Carries(n, s, m, {"FIN", "ACK"}, s.localSeq, s.remoteSeq, NoData) /\ m \in Outgoing
      BY <1>3, <2>2 DEF Closes
    <3>2. s.localSeq + 1 <= t.localSeq
      BY <1>1, <2>1
    <3>3. QED
      BY <1>1, <2>1, <3>1, <3>2, CarriesOK
  <2>3. QED
    BY <1>1, <2>1, <2>2
<1>4. QED
  BY <1>2, <1>3

\* ... whatever the application has said.
LEMMA SpokenOK ==
  ASSUME NEW n, NEW s \in Socket_, NEW u, NEW said, Speaks(n, s, u, said), NEW t \in Socket_,
         t.remoteIP = u.remoteIP, t.localPort = u.localPort, t.remotePort = u.remotePort,
         t.localSeq = u.localSeq
  PROVE  /\ t.localSeq >= s.localSeq
         /\ \A m \in said : m \in Outgoing => OutOK(n, s, t, m)
<1>1. s.localSeq \in Nat /\ t.localSeq \in Nat
  BY DEF Socket_
<1>2. CASE Quiet(s, u) /\ said = {}
  BY <1>1, <1>2 DEF Quiet
<1>3. CASE Sends(n, s, u, said) \/ Closes(n, s, u, said)
  <2> DEFINE both == said \cap Outgoing
  <2>1. Sends(n, s, u, both) \/ Closes(n, s, u, both)
    BY <1>3 DEF Sends, Closes
  <2>2. \A k \in both : k \in Outgoing
    OBVIOUS
  <2> HIDE DEF both
  <2>3. t.localSeq >= s.localSeq /\ \A k \in both : OutOK(n, s, t, k)
    BY <2>1, <2>2, SaidOK
  <2>4. QED
    BY <2>3 DEF both
<1>4. CASE SaysBoth(n, s, u, said)
  <2>1. Same(s, u)
    BY <1>4, BothSaid
  <2>2. PICK d \in Data :
           /\ d.first = s.sent + 1 /\ d.len > 0 /\ u.sent = s.sent + d.len
           /\ u.localSeq = s.localSeq + d.len + 1
           /\ \A k \in said :
                 \/ Carries(n, s, k, {"ACK"}, s.localSeq, s.remoteSeq, d)
                 \/ Carries(n, s, k, {"FIN", "ACK"}, s.localSeq + d.len, s.remoteSeq, NoData)
    BY <1>4, BothSaid
  <2>3. /\ t.remoteIP = s.remoteIP /\ t.localPort = s.localPort
        /\ t.remotePort = s.remotePort
    BY <2>1 DEF Same
  <2> DEFINE q == s.localSeq + d.len
  <2>4. /\ d.len \in Nat /\ q \in Nat /\ t.localSeq = q + 1 /\ NoData \in Data
        /\ s.localSeq + d.len <= t.localSeq
    BY <1>1, <2>2, NoDataType DEF Data
  <2>5. ASSUME NEW m \in said, m \in Outgoing
        PROVE  OutOK(n, s, t, m)
    <3>1. CASE Carries(n, s, m, {"ACK"}, s.localSeq, s.remoteSeq, d)
      BY <1>1, <2>3, <2>4, <2>5, <3>1, CarriesOK
    <3>2. CASE Carries(n, s, m, {"FIN", "ACK"}, q, s.remoteSeq, NoData)
      <4>1. q + 1 <= t.localSeq
        BY <2>4
      <4> HIDE DEF q
      <4>2. QED
        BY <1>1, <2>3, <2>4, <2>5, <3>2, <4>1, CarriesOK
    <3>3. QED
      BY <2>2, <2>5, <3>1, <3>2
  <2>6. QED
    BY <1>1, <2>4, <2>5
<1>5. QED
  BY <1>2, <1>3, <1>4 DEF Speaks

\* A bare acknowledgement.
LEMMA AckOK ==
  ASSUME NEW n, NEW s, NEW t \in Socket_, NEW m \in Outgoing, NEW ack,
         ack = t.remoteSeq \/ (ack = s.remoteSeq /\ t.remoteIP = s.remoteIP),
         Carries(n, t, m, {"ACK"}, t.localSeq, ack, NoData)
  PROVE  OutOK(n, s, t, m)
<1>1. t.localSeq \in Nat /\ NoData \in Data /\ t.localSeq + NoData.len <= t.localSeq
  BY NoDataType DEF Socket_
<1>2. QED
  BY <1>1, CarriesOK

LEMMA RepeatsOK ==
  ASSUME SInv, NEW n, NEW t, NEW out, Becomes(n, t, out), Repeats(n, t, out)
  PROVE  \A m \in out : OutOK(n, sock[n], t, m)
<1> DEFINE s == sock[n]
<1>1. /\ s \in Socket_ /\ t \in Socket_ /\ s.localSeq \in Nat /\ s.state \in State /\ SeqOK(s)
      /\ \A m \in out : m \in Outgoing
  BY BecomesThen
<1>2. Quiet(s, t) /\ t.state = s.state /\ t.localSeq = s.localSeq /\ t.remoteIP = s.remoteIP
  BY DEF Repeats, Quiet, Same
<1>3. ASSUME NEW m \in out
      PROVE  OutOK(n, s, t, m)
  <2> DEFINE one == s.localSeq - 1
             lot == s.localSeq - s.stash.len
  <2>1. NoData \in Data /\ s.stash \in Data /\ s.stash.len \in Nat
    BY <1>1, NoDataType DEF Socket_, Data
  <2>2. CASE s.state \in {SYN_SENT, SYN_RECEIVED, FIN_WAIT_1, CLOSING}
    <3>1. one \in Nat /\ one + 1 <= t.localSeq
      BY <1>1, <1>2, <2>2 DEF SeqOK
    <3>2. s.state # 244
      BY <2>2, StateValues
    <3>3. \/ Carries(n, s, m, {"SYN"}, one, s.remoteSeq, NoData) /\ s.state = SYN_SENT
          \/ Carries(n, s, m, {"SYN", "ACK"}, one, s.remoteSeq, NoData)
          \/ Carries(n, s, m, {"FIN", "ACK"}, one, s.remoteSeq, NoData)
      BY <1>3, <3>2 DEF Repeats
    <3> HIDE DEF one
    <3>4. \A ctl \in {{"SYN"}, {"SYN", "ACK"}, {"FIN", "ACK"}} :
            /\ Carries(n, s, m, ctl, one, s.remoteSeq, NoData)
            /\ ctl = {"SYN"} => s.state = SYN_SENT
            => OutOK(n, s, t, m)
      <4> SUFFICES ASSUME NEW ctl \in {{"SYN"}, {"SYN", "ACK"}, {"FIN", "ACK"}},
                          Carries(n, s, m, ctl, one, s.remoteSeq, NoData),
                          ctl = {"SYN"} => s.state = SYN_SENT
                   PROVE  OutOK(n, s, t, m)
        OBVIOUS
      <4>1. /\ t.localPort = s.localPort /\ t.remotePort = s.remotePort
            /\ t.localSeq \in Nat /\ m \in Outgoing
        BY <1>1, <1>2, <1>3 DEF Quiet, Same
      <4>2. \/ ctl = {"SYN"} /\ t.state = SYN_SENT
            \/ ctl \in {{"SYN", "ACK"}, {"FIN", "ACK"}}
        BY <1>2
      <4>3. QED
        BY <1>1, <1>2, <2>1, <3>1, <4>1, <4>2, CarriesOK
    <3>5. {"SYN", "ACK"} # {"SYN"} /\ {"FIN", "ACK"} # {"SYN"}
      OBVIOUS
    <3>6. QED
      BY <3>3, <3>4, <3>5
  <2>3. CASE s.state = 244
    <3>1. Carries(n, s, m, {"ACK"}, lot, s.remoteSeq, s.stash)
      BY <1>3, <2>3, StateValues DEF Repeats
    <3>2. lot \in Nat /\ lot + s.stash.len <= t.localSeq
      BY <1>1, <1>2, <2>1, <2>3, StateByte DEF SeqOK
    <3> HIDE DEF lot
    <3>3. /\ t.localPort = s.localPort /\ t.remotePort = s.remotePort
          /\ t.localSeq \in Nat /\ m \in Outgoing
      BY <1>1, <1>2, <1>3 DEF Quiet, Same
    <3>4. QED
      BY <1>1, <1>2, <2>1, <3>1, <3>2, <3>3, CarriesOK
  <2>4. QED
    BY <1>3, <2>2, <2>3 DEF Repeats
<1>4. QED
  BY <1>3

\* No step gives a sequence number back, and what it sends lies below localSeq.
LEMMA OutKind ==
  ASSUME SInv, NEW n, NEW t, NEW out, Becomes(n, t, out), Kind(n, t, out)
  PROVE  /\ t.localSeq >= sock[n].localSeq
         /\ \A m \in out : OutOK(n, sock[n], t, m)
<1> DEFINE s == sock[n]
<1>1. /\ s \in Socket_ /\ t \in Socket_ /\ s.localSeq \in Nat /\ t.localSeq \in Nat
      /\ \A m \in out : m \in Outgoing
  BY BecomesThen
<1>2. NoData \in Data
  BY NoDataType
<1>3. CASE Leaves(n, t, out)
  BY <1>1, <1>3 DEF Leaves, OutOK
<1>4. CASE Answers(n, t, out)
  <2>1. /\ t.localSeq = s.localSeq /\ t.remoteIP = s.remoteIP /\ t.localPort = s.localPort
        /\ t.remotePort = s.remotePort
    BY <1>4 DEF Answers, Quiet, Same
  <2>2. ASSUME NEW m \in out, ~HasRst(m)
        PROVE  OutOK(n, s, t, m)
    <3>1. Carries(n, t, m, {"ACK"}, t.localSeq, s.remoteSeq, NoData)
      BY <1>4, <2>1, <2>2 DEF Answers, Carries
    <3>2. QED
      BY <1>1, <2>1, <3>1, AckOK
  <2>3. QED
    BY <1>1, <2>1, <2>2 DEF OutOK
<1>5. CASE Looks(n, t, out)
  BY <1>1, <1>5 DEF Looks
<1>6. CASE Calls(n, t, out)
  <2>1. t.localSeq = s.localSeq + 1 /\ t.remoteSeq = s.remoteSeq /\ t.state = SYN_SENT
    BY <1>6 DEF Calls
  <2>2. ASSUME NEW m \in out
        PROVE  OutOK(n, s, t, m)
    <3>1. Carries(n, t, m, {"SYN"}, s.localSeq, t.remoteSeq, NoData)
      BY <1>6, <2>1 DEF Calls
    <3>2. s.localSeq + 1 <= t.localSeq /\ m \in Outgoing
      BY <1>1, <2>1
    <3>3. QED
      BY <1>1, <1>2, <2>1, <3>1, <3>2, CarriesOK
  <2>3. QED
    BY <1>1, <2>1, <2>2
<1>7. CASE Repeats(n, t, out)
  BY <1>1, <1>7, RepeatsOK DEF Repeats, Quiet
<1>8. CASE Sends(n, s, t, out) \/ Closes(n, s, t, out)
  BY <1>1, <1>8, SaidOK
<1>9. ASSUME NEW m \in net, Accepts(n, m, t, out)
      PROVE  t.localSeq >= s.localSeq /\ \A k \in out : OutOK(n, s, t, k)
  <2>1. t.localSeq = s.localSeq + 1
    BY <1>9 DEF Accepts
  <2>2. ASSUME NEW k \in out
        PROVE  OutOK(n, s, t, k)
    <3>1. Carries(n, t, k, {"SYN", "ACK"}, s.localSeq, t.remoteSeq, NoData)
      BY <1>9 DEF Accepts
    <3>2. s.localSeq + 1 <= t.localSeq /\ k \in Outgoing
      BY <1>1, <2>1
    <3>3. QED
      BY <1>1, <1>2, <3>1, <3>2, CarriesOK
  <2>3. QED
    BY <1>1, <2>1, <2>2
<1>10. ASSUME NEW m \in net,
              Joins(n, m, t, out) \/ TakesFin(n, m, t, out)
       PROVE  t.localSeq >= s.localSeq /\ \A k \in out : OutOK(n, s, t, k)
  <2>1. t.localSeq = s.localSeq
    BY <1>10 DEF Joins, TakesFin
  <2>2. ASSUME NEW k \in out
        PROVE  OutOK(n, s, t, k)
    <3>1. Carries(n, t, k, {"ACK"}, t.localSeq, t.remoteSeq, NoData)
      BY <1>10, <2>1 DEF Joins, TakesFin
    <3>2. QED
      BY <1>1, <3>1, AckOK
  <2>3. QED
    BY <1>1, <2>1, <2>2
<1>11. ASSUME NEW m \in net,
              Acked(n, m, t, out) \/ TakesAck(n, m, t, out)
       PROVE  t.localSeq >= s.localSeq /\ \A k \in out : OutOK(n, s, t, k)
  BY <1>1, <1>11 DEF Acked, TakesAck, Quiet
<1>12. ASSUME NEW m \in net, NEW u, NEW said, TakesData(n, m, u, said, t, out)
       PROVE  t.localSeq >= s.localSeq /\ \A k \in out : OutOK(n, s, t, k)
  <2>1. /\ Speaks(n, s, u, said)
        /\ t.remoteIP = u.remoteIP /\ t.localPort = u.localPort
        /\ t.remotePort = u.remotePort /\ t.localSeq = u.localSeq
        /\ \A k \in out :
              k \in said \/ Carries(n, t, k, {"ACK"}, t.localSeq, t.remoteSeq, NoData)
    BY <1>12 DEF TakesData
  <2>2. \A k \in out : Carries(n, t, k, {"ACK"}, t.localSeq, t.remoteSeq, NoData)
                          => OutOK(n, s, t, k)
    BY <1>1, AckOK
  <2>3. t.localSeq >= s.localSeq /\ \A k \in said : k \in Outgoing => OutOK(n, s, t, k)
    BY <1>1, <2>1, SpokenOK
  <2>4. QED
    BY <1>1, <2>1, <2>2, <2>3
<1>13. CASE Received(n, t, out)
  BY <1>9, <1>10, <1>11, <1>12, <1>13 DEF Received
<1>14. QED
  BY <1>3, <1>4, <1>5, <1>6, <1>7, <1>8, <1>13 DEF Kind

LEMMA OutAny ==
  ASSUME SInv, NEW n, NEW t, NEW out, Becomes(n, t, out), AnyKind(n, t, out)
  PROVE  /\ t.localSeq >= sock[n].localSeq
         /\ \A m \in out : OutBound(n, sock[n], t, m)
<1> DEFINE s == sock[n]
<1>1. /\ s \in Socket_ /\ t \in Socket_ /\ s.localSeq \in Nat /\ t.localSeq \in Nat
      /\ \A m \in out : m \in Outgoing
  BY BecomesThen
<1>2. CASE Kind(n, t, out)
  BY <1>2, OutKind DEF OutOK, OutBound, Alone
<1>3. CASE SendsEnd(n, t, out)
  <2>1. PICK d \in Data :
          /\ d.len > 0 /\ t.localSeq = s.localSeq + d.len + 1
          /\ \A m \in out : Carries(n, s, m, {"FIN", "ACK"}, s.localSeq, s.remoteSeq, d)
    BY <1>3 DEF SendsEnd
  <2>2. d.len \in Nat
    BY DEF Data
  <2>3. /\ t.remoteSeq = s.remoteSeq /\ t.remoteIP = s.remoteIP
        /\ t.localPort = s.localPort /\ t.remotePort = s.remotePort
    BY <1>3 DEF SendsEnd, Same
  <2>4. ASSUME NEW m \in out
        PROVE  OutBound(n, s, t, m)
    <3>1. /\ Carries(n, s, m, {"FIN", "ACK"}, s.localSeq, s.remoteSeq, d)
          /\ m.ctl = {"FIN", "ACK"} /\ m.data = d /\ m.seq = s.localSeq
      BY <2>1 DEF Carries
    <3>2. ~HasSyn(m) /\ HasFin(m) /\ ~HasRst(m) /\ ~PureSyn(m)
      BY <3>1, Flags
    <3>3. Extent(m) = d.len + 1
      BY <2>2, <3>1, <3>2 DEF Extent
    <3>4. m.seq + Extent(m) <= t.localSeq
      BY <1>1, <2>1, <2>2, <3>1, <3>3
    <3>5. QED
      BY <2>3, <3>1, <3>2, <3>4 DEF OutBound, Carries, PlainSyn
  <2>5. QED
    BY <1>1, <2>1, <2>2, <2>4
<1>4. ASSUME NEW m \in net, TakesLateFin(n, m, t, out)
      PROVE  t.localSeq >= s.localSeq /\ \A k \in out : OutBound(n, s, t, k)
  <2>1. t.localSeq = s.localSeq
    BY <1>4 DEF TakesLateFin, Heard
  <2>2. ASSUME NEW k \in out
        PROVE  OutBound(n, s, t, k)
    <3>1. Carries(n, t, k, {"ACK"}, t.localSeq, t.remoteSeq, NoData)
      BY <1>4, <2>1 DEF TakesLateFin
    <3>2. OutOK(n, s, t, k)
      BY <1>1, <3>1, AckOK
    <3>3. QED
      BY <3>2 DEF OutOK, OutBound, Alone
  <2>3. QED
    BY <1>1, <2>1, <2>2
<1>5. ASSUME NEW m \in net, NEW r, NEW u, NEW said, TakesEnd(n, m, r, u, said, t, out)
      PROVE  t.localSeq >= s.localSeq /\ \A k \in out : OutBound(n, s, t, k)
  <2>1. /\ r \in Socket_ /\ Heard(s, r) /\ Speaks(n, r, u, said) /\ Ending(n)
        /\ r.localSeq = s.localSeq /\ r.remoteSeq = s.remoteSeq + 1 /\ r.remoteIP = s.remoteIP
        /\ t.remoteIP = u.remoteIP /\ t.localPort = u.localPort
        /\ t.remotePort = u.remotePort /\ t.localSeq = u.localSeq
        /\ \A k \in out :
              k \in said \/ Carries(n, t, k, {"ACK"}, t.localSeq, t.remoteSeq, NoData)
    BY <1>5 DEF TakesEnd, TakesBytes, Heard, Ending
  <2>2. \A k \in out : Carries(n, t, k, {"ACK"}, t.localSeq, t.remoteSeq, NoData)
                          => OutOK(n, r, t, k)
    BY <1>1, AckOK
  <2>3. /\ t.localSeq >= s.localSeq
        /\ \A k \in out : OutOK(n, r, t, k)
    <3>1. t.localSeq >= r.localSeq /\ \A k \in said : k \in Outgoing => OutOK(n, r, t, k)
      BY <1>1, <2>1, SpokenOK
    <3>2. QED
      BY <1>1, <2>1, <2>2, <3>1
  <2>4. QED
    BY <2>1, <2>3 DEF OutOK, OutBound, Alone
<1>6. QED
  BY <1>2, <1>3, <1>4, <1>5 DEF AnyKind, EndKind

LEMMA NextForeign == [Next]_vars => [ForeignNext]_vars
  BY DEF ForeignNext

\* A SYN stays alone whatever the devices are, a FIN where none is foreign.
LEMMA SInvNext ==
  ASSUME SInv, [ForeignNext]_vars
  PROVE  SInv' /\ Forward
<1>1. IInv' /\ Forward
  BY ForeignKind
<1>2. CASE Passes
  BY <1>1, <1>2 DEF SInv, SynAlone, Passes, PlainSyn, HasSyn, HasFin, HasRst
<1>3. ASSUME NEW n \in Node, NEW t, NEW out, Becomes(n, t, out), AnyKind(n, t, out)
      PROVE  SynAlone'
  <2>1. net' \subseteq net \cup out
    BY <1>3, BecomesThen
  <2>2. \A m \in out : OutBound(n, sock[n], t, m)
    BY <1>3, OutAny
  <2>3. QED
    BY <2>1, <2>2 DEF SInv, SynAlone, OutBound, PlainSyn, HasSyn, HasFin, HasRst
<1>4. QED
  BY <1>1, <1>2, <1>3, ForeignKind DEF DoesAny, SInv

LEMMA FlagsNext ==
  ASSUME SInv, FlagsAlone, [Next]_vars
  PROVE  FlagsAlone'
<1>1. CASE Passes
  BY <1>1 DEF FlagsAlone, Passes, Alone, PlainSyn, HasSyn, HasFin, HasRst
<1>2. ASSUME NEW n \in Node, NEW t, NEW out, Becomes(n, t, out), Kind(n, t, out)
      PROVE  FlagsAlone'
  <2>1. net' \subseteq net \cup out
    BY <1>2, BecomesThen
  <2>2. \A m \in out : OutOK(n, sock[n], t, m)
    BY <1>2, OutKind
  <2>3. QED
    BY <2>1, <2>2 DEF FlagsAlone, OutOK, Alone, PlainSyn, HasSyn, HasFin, HasRst
<1>3. QED
  BY <1>1, <1>2, NextKind DEF Does

-----------------------------------------------------------------------------
(* Nobody expects what was not sent, in any configuration.                 *)

\* All that a segment takes lies below the localSeq of its sender, ...
SeqBound == \A m \in net : ~HasRst(m) => m.seq + Extent(m) <= sock[m.src].localSeq

\* ... what it acknowledges below that of its addressee, ...
AckBound == \A m \in net : ~HasRst(m) /\ HasAck(m) => m.ack <= sock[m.dst].localSeq

\* ... and what a socket expects next below that of its peer.  Only a host ever
\* learns another address than the one a client was built with.
RemoteBound ==
    \A n \in Node :
        LET s == sock[n] IN
        /\ s.remoteIP = NoNode => s.remoteSeq = 0
        /\ s.remoteIP \in Node => s.remoteSeq <= sock[s.remoteIP].localSeq
        /\ n \notin Hosts => s.remoteIP \in {NoNode, Server[n]}
        /\ n \notin Hosts \cup Named => s.remoteIP = Server[n]

BInv == SInv /\ SeqBound /\ AckBound /\ RemoteBound

LEMMA BInvTypes ==
  ASSUME BInv
  PROVE  /\ SInv
         /\ \A n \in Node : /\ sock[n] \in Socket_ /\ sock[n].localSeq \in Nat
                            /\ sock[n].remoteSeq \in Nat
                            /\ sock[n].remoteIP \in Node \cup {NoNode}
         /\ \A m \in net : /\ m \in Segment /\ m \in Outgoing /\ m.src \in Node /\ m.dst \in Node
                           /\ m.seq \in Nat /\ m.ack \in Nat /\ Extent(m) \in Nat
<1>1. SInv
  BY DEF BInv
<1>2. \A n \in Node : sock[n] \in Socket_
  BY <1>1, InSInv, OfInv
<1>3. \A s \in Socket_ : s.localSeq \in Nat /\ s.remoteSeq \in Nat
                         /\ s.remoteIP \in Node \cup {NoNode}
  BY DEF Socket_
<1>4. \A m \in net : m \in Segment /\ m.src \in Node /\ m.dst \in Node
  BY <1>1, InSInv, OfSegment
<1>5. \A m \in Segment : m \in Outgoing
  BY DEF Segment, Outgoing
<1>6. QED
  BY <1>1, <1>2, <1>3, <1>4, <1>5, OutFields

LEMMA ServerOf ==
  ASSUME NEW n \in Node, n \notin Hosts
  PROVE  Server[n] \in Node
  BY ConfigAssumption

\* What a socket expects after a step, by the kind of the step.
LEMMA ExpectsKind ==
  ASSUME BInv, NEW n, NEW t, NEW out, Becomes(n, t, out), AnyKind(n, t, out)
  PROVE  LET s == sock[n] IN
         /\ t.remoteIP = NoNode => t.remoteSeq = 0
         /\ t.remoteIP \in Node => t.remoteSeq <= sock[t.remoteIP].localSeq
         /\ n \notin Hosts => t.remoteIP \in {NoNode, Server[n]}
         /\ n \notin Hosts \cup Named => t.remoteIP = Server[n]
<1> DEFINE s == sock[n]
<1>1. n \in Node /\ s.remoteSeq \in Nat /\ s \in Socket_
  BY BInvTypes, BecomesThen
<1>2. /\ s.remoteIP = NoNode => s.remoteSeq = 0
      /\ s.remoteIP \in Node => s.remoteSeq <= sock[s.remoteIP].localSeq
      /\ n \notin Hosts => s.remoteIP \in {NoNode, Server[n]}
      /\ n \notin Hosts \cup Named => s.remoteIP = Server[n]
  BY <1>1 DEF BInv, RemoteBound
<1>3. \A m \in net : ~HasRst(m) =>
        /\ m.seq + m.data.len <= sock[m.src].localSeq
        /\ HasSyn(m) \/ HasFin(m) => m.seq + 1 <= sock[m.src].localSeq
  <2> SUFFICES ASSUME NEW m \in net, ~HasRst(m)
               PROVE  /\ m.seq + m.data.len <= sock[m.src].localSeq
                      /\ HasSyn(m) \/ HasFin(m) => m.seq + 1 <= sock[m.src].localSeq
    OBVIOUS
  <2>1. m.seq + Extent(m) <= sock[m.src].localSeq
    BY DEF BInv, SeqBound
  <2>2. m \in Outgoing /\ m.seq \in Nat /\ sock[m.src].localSeq \in Nat /\ Extent(m) \in Nat
    BY BInvTypes
  <2>3. m.data.len \in Nat /\ Extent(m) >= m.data.len
        /\ (HasSyn(m) \/ HasFin(m) => Extent(m) >= 1)
    BY <2>2, OutFields
  <2>4. QED
    BY <2>1, <2>2, <2>3
<1>4. CASE t.remoteSeq = s.remoteSeq /\ t.remoteIP = s.remoteIP
  BY <1>2, <1>4
<1>5. CASE Leaves(n, t, out) \/ Answers(n, t, out) \/ Repeats(n, t, out)
  BY <1>4, <1>5 DEF Leaves, Answers, Repeats, Quiet, Same
<1>6. CASE Looks(n, t, out) \/ Calls(n, t, out)
  <2>1. n \notin Hosts /\ Server[n] \in Node /\ Server[n] # NoNode
    BY <1>1, <1>6, ServerOf, NodeAssumption DEF Looks, Calls
  <2>2. t.remoteSeq = s.remoteSeq
    BY <1>6 DEF Looks, Calls
  <2>3. t.remoteIP = s.remoteIP \/ t.remoteIP = Server[n]
    BY <1>6 DEF Looks, Calls
  <2>4. CASE t.remoteIP = s.remoteIP
    BY <1>4, <2>2, <2>4
  <2>5. CASE t.remoteIP = Server[n] /\ s.remoteIP = NoNode
    <3>1. t.remoteSeq = 0 /\ sock[Server[n]].localSeq \in Nat
      BY <1>2, <2>1, <2>2, <2>5, BInvTypes
    <3>2. QED
      BY <2>1, <2>5, <3>1
  <2>6. QED
    BY <1>2, <2>1, <2>3, <2>4, <2>5
<1>7. CASE Sends(n, s, t, out) \/ Closes(n, s, t, out)
  BY <1>4, <1>7 DEF Sends, SendsOf, Closes, Counts, Same
<1>8. ASSUME NEW m \in net, Accepts(n, m, t, out)
      PROVE  /\ n \in Hosts /\ t.remoteIP \in Node
             /\ t.remoteSeq <= sock[t.remoteIP].localSeq
  <2>1. /\ n \in Hosts /\ t.remoteIP = m.src /\ t.remoteSeq = m.seq + 1 /\ PureSyn(m)
        /\ m.src \in Node
    BY <1>8, BInvTypes DEF Accepts
  <2>2. HasSyn(m) /\ ~HasRst(m)
    BY <2>1, Flags
  <2>3. QED
    BY <1>3, <2>1, <2>2
<1>9. ASSUME NEW m \in net, Joins(n, m, t, out) \/ TakesFin(n, m, t, out)
      PROVE  t.remoteIP = s.remoteIP /\ t.remoteIP \in Node
             /\ t.remoteSeq <= sock[t.remoteIP].localSeq
  <2>1. /\ t.remoteIP = m.src /\ m.src = s.remoteIP /\ t.remoteSeq = m.seq + 1
        /\ (HasSyn(m) \/ HasFin(m)) /\ m.src \in Node
    BY <1>9, BInvTypes DEF Joins, TakesFin, InBlockOrder, FromPeer
  <2>2. ~HasRst(m)
    BY <1>9 DEF Joins, TakesFin, InBlockOrder
  <2>3. QED
    BY <1>3, <2>1, <2>2
<1>10. ASSUME NEW m \in net, Acked(n, m, t, out) \/ TakesAck(n, m, t, out)
       PROVE  t.remoteSeq = s.remoteSeq /\ t.remoteIP = s.remoteIP
  BY <1>10 DEF Acked, TakesAck, Quiet, Same
<1>11. ASSUME NEW m \in net, NEW u, NEW said, TakesData(n, m, u, said, t, out)
       PROVE  /\ t.remoteIP = s.remoteIP
              /\ \/ t.remoteSeq = s.remoteSeq
                 \/ t.remoteIP \in Node /\ t.remoteSeq <= sock[t.remoteIP].localSeq
  <2>1. u.remoteIP = s.remoteIP /\ u.remoteSeq = s.remoteSeq
    BY <1>11, SpeaksSame DEF TakesData, Same
  <2>2. /\ t.remoteIP = m.src /\ m.src = s.remoteIP /\ m.src \in Node /\ ~HasRst(m)
        /\ t.remoteSeq = m.seq + m.data.len \/ t.remoteSeq = s.remoteSeq
    BY <1>11, <2>1, BInvTypes DEF TakesData, InBlockOrder, FromPeer
  <2>3. QED
    BY <1>3, <2>2
<1>12. CASE Received(n, t, out)
  <2>1. PICK m \in net :
           \/ Accepts(n, m, t, out)
           \/ Joins(n, m, t, out) \/ TakesFin(n, m, t, out)
           \/ Acked(n, m, t, out) \/ TakesAck(n, m, t, out)
           \/ \E u, said : TakesData(n, m, u, said, t, out)
    BY <1>12 DEF Received
  <2>2. CASE t.remoteIP \in Node /\ t.remoteSeq <= sock[t.remoteIP].localSeq
             /\ (n \in Hosts \/ t.remoteIP = s.remoteIP)
    BY <1>2, <2>2, NodeAssumption
  <2>3. QED
    BY <1>4, <1>8, <1>9, <1>10, <1>11, <2>1, <2>2
<1>13. CASE SendsEnd(n, t, out)
  BY <1>4, <1>13 DEF SendsEnd, Same
<1>14. ASSUME NEW m \in net, TakesLateFin(n, m, t, out)
       PROVE  t.remoteIP = s.remoteIP /\ t.remoteIP \in Node
              /\ t.remoteSeq <= sock[t.remoteIP].localSeq
  <2>1. /\ t.remoteIP = m.src /\ m.src = s.remoteIP /\ t.remoteSeq = m.seq + 1
        /\ HasFin(m) /\ m.src \in Node /\ ~HasRst(m)
    BY <1>14, BInvTypes DEF TakesLateFin, Heard, FromPeer
  <2>2. QED
    BY <1>3, <2>1
<1>15. ASSUME NEW m \in net, NEW r, NEW u, NEW said, TakesEnd(n, m, r, u, said, t, out)
       PROVE  t.remoteIP = s.remoteIP /\ t.remoteIP \in Node
              /\ t.remoteSeq <= sock[t.remoteIP].localSeq
  <2>1. u.remoteIP = s.remoteIP /\ u.remoteSeq = s.remoteSeq + 1
    BY <1>15, SpeaksSame DEF TakesEnd, Heard, Same
  <2>2. /\ t.remoteIP = m.src /\ m.src = s.remoteIP /\ m.src \in Node /\ ~HasRst(m)
        /\ HasFin(m) /\ m.seq = s.remoteSeq
        /\ t.remoteSeq = m.seq + m.data.len \/ t.remoteSeq = m.seq + 1
    BY <1>15, <2>1, BInvTypes DEF TakesEnd, TakesBytes, InBlockOrder, FromPeer
  <2>3. QED
    BY <1>2, <1>3, <2>2
<1>16. CASE /\ t.remoteIP = s.remoteIP /\ t.remoteIP \in Node
            /\ t.remoteSeq <= sock[t.remoteIP].localSeq
  BY <1>2, <1>16, NodeAssumption
<1>17. CASE EndKind(n, t, out)
  BY <1>13, <1>14, <1>15, <1>16, <1>17 DEF EndKind
<1>18. QED
  BY <1>5, <1>6, <1>7, <1>12, <1>17 DEF Kind, AnyKind

LEMMA BInvNext ==
  ASSUME BInv, [ForeignNext]_vars
  PROVE  BInv'
<1>1. SInv' /\ Forward
  BY SInvNext DEF BInv
<1>2. \A n \in Node : sock[n].localSeq \in Nat /\ sock[n].remoteSeq \in Nat
                      /\ sock[n].remoteIP \in Node \cup {NoNode}
  BY BInvTypes
<1>3. \A n \in Node : sock'[n].localSeq \in Nat
  BY <1>1 DEF SInv, IInv, TypeOK, Socket_
<1>4. \A n \in Node : sock'[n].localSeq >= sock[n].localSeq
  BY <1>1 DEF Forward
<1>5. \A m \in net : m.src \in Node /\ m.dst \in Node /\ m.seq + Extent(m) \in Nat /\ m.ack \in Nat
  BY BInvTypes
<1>6. ASSUME NEW m \in net, ~HasRst(m)
      PROVE  /\ m.seq + Extent(m) <= sock'[m.src].localSeq
             /\ HasAck(m) => m.ack <= sock'[m.dst].localSeq
  <2>1. /\ m.seq + Extent(m) <= sock[m.src].localSeq
        /\ HasAck(m) => m.ack <= sock[m.dst].localSeq
    BY <1>6 DEF BInv, SeqBound, AckBound
  <2>2. QED
    BY <2>1, <1>2, <1>3, <1>4, <1>5
<1>7. ASSUME NEW n \in Node, NEW a \in Node, sock[n].remoteSeq <= sock[a].localSeq
      PROVE  sock[n].remoteSeq <= sock'[a].localSeq
  BY <1>2, <1>3, <1>4, <1>7
<1>8. CASE Passes
  <2>1. \A n \in Node : /\ sock'[n].remoteIP = sock[n].remoteIP
                        /\ sock'[n].remoteSeq = sock[n].remoteSeq
    BY <1>8 DEF Passes, Quiet, Same
  <2>2. SeqBound' /\ AckBound'
    BY <1>6, <1>8 DEF Passes, SeqBound, AckBound, HasRst, HasAck, Extent, HasSyn, HasFin
  <2>3. RemoteBound'
    BY <1>7, <2>1 DEF BInv, RemoteBound
  <2>4. QED
    BY <1>1, <2>2, <2>3 DEF BInv
<1>9. ASSUME NEW n \in Node, NEW t, NEW out, Becomes(n, t, out), AnyKind(n, t, out)
      PROVE  BInv'
  <2>1. /\ sock'[n] = t /\ \A k \in Node : k # n => sock'[k] = sock[k]
        /\ net' \subseteq net \cup out
        /\ \A m \in net' : m.src \in Node /\ m.dst \in Node
        /\ t.remoteSeq \in Nat
    BY <1>9, BInvTypes, BecomesThen
  <2>2. \A m \in out : OutBound(n, sock[n], t, m)
    BY <1>9, BInvTypes, OutAny
  <2>3. /\ t.remoteIP = NoNode => t.remoteSeq = 0
        /\ t.remoteIP \in Node => t.remoteSeq <= sock[t.remoteIP].localSeq
        /\ n \notin Hosts => t.remoteIP \in {NoNode, Server[n]}
        /\ n \notin Hosts \cup Named => t.remoteIP = Server[n]
    BY <1>9, ExpectsKind
  <2>4. t.remoteIP \in Node => t.remoteSeq <= sock'[t.remoteIP].localSeq
    BY <1>2, <1>3, <1>4, <2>1, <2>3
  <2>5. SeqBound'
    BY <1>6, <2>1, <2>2 DEF OutBound, SeqBound, HasRst, Extent, HasSyn, HasFin
  <2>6. AckBound'
    <3> SUFFICES ASSUME NEW m \in net', m \in out, ~HasRst(m), HasAck(m)
                 PROVE  m.ack <= sock'[m.dst].localSeq
      BY <1>6, <2>1 DEF AckBound, HasRst, HasAck
    <3>1. /\ m.dst = t.remoteIP /\ m.dst \in Node
          /\ \/ m.ack = t.remoteSeq
             \/ m.ack = sock[n].remoteSeq /\ t.remoteIP = sock[n].remoteIP
             \/ m.ack = sock[n].remoteSeq + 1 /\ t.remoteIP = sock[n].remoteIP /\ Ending(n)
      BY <2>1, <2>2 DEF OutBound
    <3>2. CASE m.ack = t.remoteSeq
      BY <2>4, <3>1, <3>2
    <3>3. CASE m.ack = sock[n].remoteSeq /\ t.remoteIP = sock[n].remoteIP
      <4>1. sock[n].remoteSeq <= sock[m.dst].localSeq
        BY <3>1, <3>3 DEF BInv, RemoteBound
      <4>2. QED
        BY <1>7, <3>1, <3>3, <4>1
    <3>4. CASE m.ack = sock[n].remoteSeq + 1 /\ t.remoteIP = sock[n].remoteIP /\ Ending(n)
      <4>1. PICK k \in net : InBlockOrder(n, k) /\ HasFin(k) /\ k.data.len > 0
        BY <3>4 DEF Ending
      <4>2. /\ k.seq = sock[n].remoteSeq /\ k.src = m.dst /\ ~HasRst(k)
            /\ k \in Outgoing /\ k.seq \in Nat /\ Extent(k) \in Nat
        BY <3>1, <3>4, <4>1, BInvTypes DEF InBlockOrder, FromPeer
      <4>3. k.seq + Extent(k) <= sock'[m.dst].localSeq /\ Extent(k) >= 1
        BY <1>6, <4>1, <4>2, OutFields
      <4>4. QED
        BY <1>3, <3>1, <3>4, <4>2, <4>3
    <3>5. QED
      BY <3>1, <3>2, <3>3, <3>4
  <2>7. RemoteBound'
    BY <1>7, <2>1, <2>3, <2>4 DEF BInv, RemoteBound
  <2>8. QED
    BY <1>1, <2>5, <2>6, <2>7 DEF BInv
<1>10. QED
  BY <1>8, <1>9, BInvTypes, ForeignKind DEF DoesAny

\* The fields of a socket in the initial state.
LEMMA InitFields ==
  ASSUME Init, NEW n \in Node
  PROVE  LET s == sock[n] IN
         /\ s.state = IF isHost(n) THEN LISTEN ELSE CLOSED
         /\ s.remoteIP = IF n \in Hosts \cup Named THEN NoNode ELSE Server[n]
         /\ s.remoteSeq = 0 /\ s.localSeq = ISS[n] /\ s.localSeq \in Nat
         /\ s.sent = 0 /\ s.start = 0 /\ s.got = <<>> /\ s.opened = FALSE
         /\ net = {}
<1>1. ISS[n] \in Nat
  BY ConfigAssumption
<1>2. QED
  BY <1>1 DEF Init

LEMMA BInvInit == Init => BInv
<1> SUFFICES ASSUME Init PROVE BInv
  OBVIOUS
<1>1. SInv
  BY InitInv DEF Init, SInv, SynAlone
<1>2. SeqBound /\ AckBound
  BY DEF Init, SeqBound, AckBound
<1>3. RemoteBound
  <2>1. ASSUME NEW n \in Node
        PROVE  LET s == sock[n] IN
               /\ s.remoteSeq = 0
               /\ n \in Hosts \cup Named => s.remoteIP = NoNode
               /\ n \notin Hosts \cup Named => s.remoteIP = Server[n]
    BY InitFields
  <2>2. \A a \in Node : 0 <= sock[a].localSeq
    <3> SUFFICES ASSUME NEW a \in Node PROVE 0 <= sock[a].localSeq
      OBVIOUS
    <3>1. sock[a].localSeq \in Nat
      BY InitFields
    <3>2. QED
      BY <3>1
  <2>3. QED
    BY <2>1, <2>2 DEF RemoteBound
<1>4. QED
  BY <1>1, <1>2, <1>3 DEF BInv

LEMMA SpecForeign == Spec => ForeignSpec
  BY NextForeign, PTL DEF Spec, ForeignSpec

LEMMA SInvAlways == ForeignSpec => []SInv
<1>1. Init => SInv
  BY BInvInit DEF BInv
<1>2. QED
  BY <1>1, SInvNext, PTL DEF ForeignSpec

\* The data and the FIN that a foreign device puts into one segment take numbers
\* that no other payload of it has: as NumbersNameBytes.
THEOREM ForeignBytes == ForeignSpec => []SameBytes
<1>1. SInv => SameBytes
  BY DEF SInv, IInv
<1>2. QED
  BY <1>1, SInvAlways, PTL

\* Where handleSegment() takes the number of a FIN back off remoteSeq, because it
\* came with data, localSeq still does not go back: as NeverBack.
THEOREM ForeignNeverBack == ForeignSpec => SeqNeverBack
<1>1. ForeignSpec => [][Forward]_vars
  <2>1. SInv /\ [ForeignNext]_vars => [Forward]_vars
    BY SInvNext
  <2>2. QED
    BY <2>1, SInvAlways, PTL DEF ForeignSpec
<1>2. QED
  BY <1>1 DEF SeqNeverBack, Forward

\* handleSegment() takes no sequence number for received that its peer has not
\* sent: what remoteSeq is set to, from a SYN, from data or from a FIN, in
\* segments of any age, and what it is answered with, stay behind.  This needs
\* nothing of the configuration: any hosts, clients with and without names,
\* two devices that connect to each other at once, any losses and duplicates,
\* and any of them a TCP that puts its last data and its FIN into one segment.
THEOREM ForeignNeverAhead == ForeignSpec => []AckNeverAhead
<1>1. BInv => AckNeverAhead
  <2> SUFFICES ASSUME BInv, NEW a \in Node, NEW b \in Node, Connected(a, b)
               PROVE  sock[b].remoteSeq <= sock[a].localSeq
    BY DEF AckNeverAhead
  <2>1. QED
    BY DEF Connected, BInv, RemoteBound
<1>2. QED
  BY <1>1, BInvInit, BInvNext, PTL DEF ForeignSpec

\* The same, of a network of this library alone.
THEOREM NeverAhead == Spec => []AckNeverAhead
  BY ForeignNeverAhead, SpecForeign, PTL

-----------------------------------------------------------------------------
(* The handshake, in any configuration.                                    *)

\* The host b has, or had, a connection with the client a.
Holds(b, a) == b \in Hosts /\ a \notin Hosts /\ sock[b].remoteIP = a

\* It is in a connection with the port that a is using now.
Tied(a, b) ==
    Holds(b, a) /\ sock[b].state # LISTEN /\ sock[b].remotePort = sock[a].localPort

\* A host never leaves the states of a listening socket, ...
HostStates == {1, 3, 4, 5, 6, 7, 8, 9, 10, 244}
StatesInv == \A n \in Hosts : sock[n].state \in HostStates

\* ... a SYN comes from a client, which has not yet come to its port again, ...
SynInv ==
    \A m \in net : PureSyn(m) =>
        /\ m.src \notin Hosts /\ m.dst = Server[m.src]
        /\ m.sport < sock[m.src].nextPort

\* ... and so does the port that a host knows it by.
PortInv ==
    /\ \A a, b \in Node : Holds(b, a) =>
          b = Server[a] /\ sock[b].remotePort < sock[a].nextPort
    /\ \A a \in Node : sock[a].state = SYN_SENT =>
          sock[a].remoteIP = Server[a] /\ sock[a].localPort < sock[a].nextPort

\* The acknowledgements of a for the port that it is using now.
AcksOf(a, b) ==
    {m \in net : ~HasRst(m) /\ HasAck(m) /\ m.src = a /\ m.dst = b /\ m.sport = sock[a].localPort}

\* While a client waits for the SYN|ACK, its host has no acknowledgement of it,
\* and nothing in flight is one.
Unanswered ==
    \A a, b \in Node : Tied(a, b) /\ sock[a].state = SYN_SENT =>
        /\ ~sock[b].opened
        /\ sock[a].remoteSeq < sock[b].localSeq
        /\ \A m \in AcksOf(a, b) : m.ack < sock[b].localSeq

HInv == BInv /\ StatesInv /\ SynInv /\ PortInv /\ Unanswered

\* A socket that takes data with a FIN has its state from fin() alone.
LEMMA EndState ==
  ASSUME NEW n, NEW m, NEW r, NEW u, NEW said, NEW t, NEW out,
         TakesEnd(n, m, r, u, said, t, out)
  PROVE  /\ u.state \in {4, 20, 244, FIN_WAIT_1}
         /\ t.state = IF u.state = FIN_WAIT_1
                      THEN IF m.ack = u.localSeq THEN TIME_WAIT ELSE CLOSING
                      ELSE CLOSE_WAIT
<1>1. r.state \in {4, 20, 244} /\ Speaks(n, r, u, said) /\ t.state = FinState(u, m)
  BY DEF TakesEnd, InBlockOrder
<1>2. u.state \in {4, 20, 244, FIN_WAIT_1}
  BY <1>1, SpeaksState
<1>3. QED
  BY <1>1, <1>2 DEF FinState

\* The ports, and the way into SYN_SENT.
LEMMA PortKind ==
  ASSUME SInv, NEW n, NEW t, NEW out, Becomes(n, t, out), AnyKind(n, t, out)
  PROVE  LET s == sock[n] IN
         /\ s.nextPort \in Nat /\ t.nextPort \in Nat /\ t.nextPort >= s.nextPort
         /\ \/ Calls(n, t, out)
            \/ /\ t.localPort = s.localPort /\ t.nextPort = s.nextPort
               /\ t.state = SYN_SENT =>
                     s.state = SYN_SENT /\ t.remoteIP = s.remoteIP /\ t.remoteSeq = s.remoteSeq
<1> DEFINE s == sock[n]
<1>1. s.nextPort \in Nat /\ t.nextPort \in Nat /\ s.state \in State /\ n \in Node
  <2>1. s \in Socket_ /\ t \in Socket_ /\ n \in Node
    BY BecomesThen
  <2>2. QED
    BY <2>1 DEF Socket_
<1> DEFINE Rest == /\ t.localPort = s.localPort /\ t.nextPort = s.nextPort
                   /\ t.state = SYN_SENT =>
                         /\ s.state = SYN_SENT /\ t.remoteIP = s.remoteIP
                         /\ t.remoteSeq = s.remoteSeq
<1>2. CASE Calls(n, t, out)
  BY <1>1, <1>2 DEF Calls
<1>3. CASE Rest
  BY <1>1, <1>3
<1>4. CASE Leaves(n, t, out)
  <2>1. t.state # SYN_SENT
    BY <1>4, StateValues DEF Leaves
  <2>2. QED
    BY <1>3, <1>4, <2>1 DEF Leaves, Same
<1>5. CASE Answers(n, t, out) \/ Repeats(n, t, out)
  BY <1>3, <1>5 DEF Answers, Repeats, Quiet, Same
<1>6. CASE Looks(n, t, out)
  <2>1. t.state # SYN_SENT
    BY <1>6, StateValues DEF Looks
  <2>2. QED
    BY <1>3, <1>6, <2>1 DEF Looks
<1>7. CASE Sends(n, s, t, out)
  <2>1. t.state # SYN_SENT
    BY <1>7, StateValues DEF Sends, SendsOf
  <2>2. QED
    BY <1>3, <1>7, <2>1 DEF Sends, SendsOf, Same
<1>8. CASE Closes(n, s, t, out)
  <2>1. t.state = SYN_SENT => s.state = SYN_SENT
    BY <1>8, StateValues DEF Closes, ClosedState
  <2>2. QED
    BY <1>3, <1>8, <2>1 DEF Closes, Counts, Same
<1>9. ASSUME NEW m \in net, Accepts(n, m, t, out) \/ Joins(n, m, t, out) \/ TakesFin(n, m, t, out)
      PROVE  Rest
  <2>1. t.state # SYN_SENT
    BY <1>9, StateValues DEF Accepts, Joins, TakesFin
  <2>2. QED
    BY <1>9, <2>1 DEF Accepts, Joins, TakesFin
<1>10. ASSUME NEW m \in net, Acked(n, m, t, out)
       PROVE  Rest
  <2>1. t.state = SYN_SENT => s.state = SYN_SENT
    BY <1>10, StateValues DEF Acked, AckState
  <2>2. QED
    BY <1>10, <2>1 DEF Acked, Same
<1>11. ASSUME NEW m \in net, TakesAck(n, m, t, out)
       PROVE  Rest
  <2>1. t.state # SYN_SENT
    BY <1>11, StateValues DEF TakesAck, InBlockOrder, Flag, Cleared
  <2>2. QED
    BY <1>11, <2>1 DEF TakesAck, Quiet, Same
<1>12. ASSUME NEW m \in net, NEW u, NEW said, TakesData(n, m, u, said, t, out)
       PROVE  Rest
  <2>1. u.state \in {4, 20, 244, FIN_WAIT_1}
    BY <1>12, SpeaksState DEF TakesData, InBlockOrder
  <2>2. t.state # SYN_SENT
    BY <1>12, <2>1, StateValues DEF TakesData, Flag, Cleared
  <2>3. u.localPort = s.localPort /\ u.nextPort = s.nextPort
    BY <1>12, SpeaksSame DEF TakesData, Same
  <2>4. QED
    BY <1>12, <2>2, <2>3 DEF TakesData
<1>13. CASE Received(n, t, out)
  BY <1>3, <1>9, <1>10, <1>11, <1>12, <1>13 DEF Received
<1>14. CASE EndKind(n, t, out)
  <2>1. CASE SendsEnd(n, t, out)
    BY <1>3, <2>1, StateValues DEF SendsEnd, Same
  <2>2. ASSUME NEW m \in net, TakesLateFin(n, m, t, out)
        PROVE  Rest
    BY <2>2, StateValues DEF TakesLateFin, Heard
  <2>3. ASSUME NEW m \in net, NEW r, NEW u, NEW said, TakesEnd(n, m, r, u, said, t, out)
        PROVE  Rest
    <3>1. t.state # SYN_SENT
      BY <2>3, EndState, StateValues
    <3>2. u.localPort = s.localPort /\ u.nextPort = s.nextPort
      BY <2>3, SpeaksSame DEF TakesEnd, Heard, Same
    <3>3. QED
      BY <2>3, <3>1, <3>2 DEF TakesEnd, TakesBytes
  <2>4. QED
    BY <1>3, <1>14, <2>1, <2>2, <2>3 DEF EndKind
<1>15. QED
  BY <1>2, <1>4, <1>5, <1>6, <1>7, <1>8, <1>13, <1>14 DEF Kind, AnyKind

\* A host is not RESOLVING after it has spoken either.
LEMMA HostSpeaks ==
  ASSUME NEW n, NEW s, NEW u, NEW said, Speaks(n, s, u, said), s.state \in {4, 244}
  PROVE  u.state \in {4, 244, FIN_WAIT_1}
<1>1. ClosedState(s.state) = FIN_WAIT_1 /\ ClosedState(244) = FIN_WAIT_1
  BY DEF ClosedState
<1>2. SaysBoth(n, s, u, said) => u.state = FIN_WAIT_1
  BY <1>1 DEF SaysBoth, Sends, SendsOf, Closes
<1>3. QED
  BY <1>1, <1>2 DEF Speaks, Sends, SendsOf, Closes

\* What a host does: it accepts a connection, or keeps the one it has.
LEMMA HostKind ==
  ASSUME SInv, NEW n \in Hosts, NEW t, NEW out, Becomes(n, t, out), AnyKind(n, t, out),
         sock[n].state \in HostStates
  PROVE  LET s == sock[n] IN
         /\ t.state \in HostStates
         /\ \/ \E m \in net : Accepts(n, m, t, out)
            \/ /\ t.remoteIP = s.remoteIP /\ t.remotePort = s.remotePort
               /\ s.state = LISTEN => t.state = LISTEN
               /\ t.opened /\ t.state # LISTEN =>
                     s.opened \/ \E m \in net : /\ FromPeer(n, m) /\ ~HasRst(m) /\ HasAck(m)
                                                /\ m.ack = s.localSeq
<1> DEFINE s == sock[n]
           Rest == /\ t.remoteIP = s.remoteIP /\ t.remotePort = s.remotePort
                   /\ s.state = LISTEN => t.state = LISTEN
                   /\ t.opened /\ t.state # LISTEN =>
                         s.opened \/ \E m \in net : /\ FromPeer(n, m) /\ ~HasRst(m) /\ HasAck(m)
                                                    /\ m.ack = s.localSeq
<1>1. n \in Node /\ n \notin Named
  BY NodeAssumption
<1>2. CASE Leaves(n, t, out)
  <2>1. t.state = LISTEN /\ t.state \in HostStates
    BY <1>2, StateValues DEF Leaves, isHost, HostStates
  <2>2. QED
    BY <1>2, <2>1 DEF Leaves, Same
<1>3. CASE Answers(n, t, out) \/ Repeats(n, t, out)
  BY <1>3 DEF Answers, Repeats, Quiet, Same
<1>4. ~Looks(n, t, out) /\ ~Calls(n, t, out)
  BY <1>1 DEF Looks, Calls
<1>5. CASE Sends(n, s, t, out)
  BY <1>5, StateValues DEF Sends, SendsOf, Same, HostStates
<1>6. CASE Closes(n, s, t, out)
  <2>1. s.state # LISTEN /\ t.state \in HostStates
    BY <1>6, StateValues DEF Closes, localClosed, ClosedState, HostStates
  <2>2. QED
    BY <1>6, <2>1 DEF Closes, Counts, Same
<1>7. ASSUME NEW m \in net, Accepts(n, m, t, out)
      PROVE  t.state \in HostStates
  BY <1>7, StateValues DEF Accepts, HostStates
<1>8. ASSUME NEW m \in net
      PROVE  ~Joins(n, m, t, out)
  BY StateValues DEF Joins, HostStates
<1>9. ASSUME NEW m \in net, TakesFin(n, m, t, out)
      PROVE  t.state \in HostStates /\ Rest
  BY <1>9, StateValues DEF TakesFin, InBlockOrder, HostStates
<1>10. ASSUME NEW m \in net, Acked(n, m, t, out)
       PROVE  t.state \in HostStates /\ Rest
  <2>1. t.state \in HostStates /\ (s.state = LISTEN => t.state = LISTEN)
    BY <1>10, StateValues DEF Acked, AckState, HostStates, isHost
  <2>2. t.state # LISTEN =>
            FromPeer(n, m) /\ ~HasRst(m) /\ HasAck(m) /\ m.ack = s.localSeq
    BY <1>10, <2>1 DEF Acked
  <2>3. QED
    BY <1>10, <2>1, <2>2 DEF Acked, Same
<1>11. ASSUME NEW m \in net, TakesAck(n, m, t, out)
       PROVE  t.state \in HostStates /\ Rest
  <2>1. t.state \in {4, 244} /\ s.state \in {4, 244}
    BY <1>11, StateValues DEF TakesAck, InBlockOrder, Flag, Cleared, HostStates
  <2>2. QED
    BY <1>11, <2>1, StateValues DEF TakesAck, Quiet, Same, HostStates
<1>12. ASSUME NEW m \in net, NEW u, NEW said, TakesData(n, m, u, said, t, out)
       PROVE  t.state \in HostStates /\ Rest
  <2>1. s.state \in {4, 244}
    BY <1>12 DEF TakesData, InBlockOrder, HostStates
  <2>2. u.state \in {4, 244, FIN_WAIT_1}
    BY <1>12, <2>1, HostSpeaks DEF TakesData
  <2>3. t.state \in {4, 244, FIN_WAIT_1}
    BY <1>12, <2>2, StateValues DEF TakesData, Flag, Cleared
  <2>4. u.remoteIP = s.remoteIP /\ u.remotePort = s.remotePort /\ u.opened = s.opened
    BY <1>12, SpeaksSame DEF TakesData, Same
  <2>5. QED
    BY <1>12, <2>1, <2>3, <2>4, StateValues DEF TakesData, HostStates
<1>13. CASE Received(n, t, out)
  <2>1. PICK m \in net :
           \/ Accepts(n, m, t, out) \/ Joins(n, m, t, out) \/ Acked(n, m, t, out)
           \/ TakesAck(n, m, t, out) \/ TakesFin(n, m, t, out)
           \/ \E u, said : TakesData(n, m, u, said, t, out)
    BY <1>13 DEF Received
  <2>2. CASE Accepts(n, m, t, out)
    BY <1>7, <2>2
  <2>3. CASE t.state \in HostStates /\ Rest
    BY <2>3
  <2>4. QED
    BY <1>8, <1>9, <1>10, <1>11, <1>12, <2>1, <2>2, <2>3
<1>14. CASE EndKind(n, t, out)
  <2>1. CASE SendsEnd(n, t, out)
    BY <2>1, StateValues DEF SendsEnd, Same, HostStates
  <2>2. ASSUME NEW m \in net, TakesLateFin(n, m, t, out)
        PROVE  t.state \in HostStates /\ Rest
    BY <2>2, StateValues DEF TakesLateFin, Heard, HostStates
  <2>3. ASSUME NEW m \in net, NEW r, NEW u, NEW said, TakesEnd(n, m, r, u, said, t, out)
        PROVE  t.state \in HostStates /\ Rest
    <3>1. s.state \in {4, 244}
      BY <2>3 DEF TakesEnd, InBlockOrder, HostStates
    <3>2. t.state \in {CLOSE_WAIT, CLOSING, TIME_WAIT}
      BY <2>3, EndState
    <3>3. u.remoteIP = s.remoteIP /\ u.remotePort = s.remotePort /\ u.opened = s.opened
      BY <2>3, SpeaksSame DEF TakesEnd, Heard, Same
    <3>4. QED
      BY <2>3, <3>1, <3>2, <3>3, StateValues DEF TakesEnd, TakesBytes, HostStates
  <2>4. QED
    BY <1>14, <2>1, <2>2, <2>3 DEF EndKind
<1>15. QED
  BY <1>2, <1>3, <1>4, <1>5, <1>6, <1>13, <1>14 DEF Kind, AnyKind

\* One device moves from s to t; the others stay.
LEMMA HInvMove ==
  ASSUME HInv, NEW n, NEW t, NEW out, Becomes(n, t, out), AnyKind(n, t, out)
  PROVE  (StatesInv /\ SynInv /\ PortInv /\ Unanswered)'
<1> DEFINE s == sock[n]
<1>1. BInv /\ SInv
  BY DEF HInv, BInv
<1>2. /\ n \in Node /\ sock'[n] = t /\ \A k \in Node : k # n => sock'[k] = sock[k]
      /\ net' \subseteq net \cup out
      /\ \A m \in net' : m.src \in Node /\ m.dst \in Node
      /\ \A m \in out : m.src = n
  BY <1>1, BecomesThen
<1>3. \A m \in out : OutBound(n, s, t, m)
  BY <1>1, OutAny
<1>4. /\ s.nextPort \in Nat /\ t.nextPort \in Nat /\ t.nextPort >= s.nextPort
      /\ \/ Calls(n, t, out)
         \/ /\ t.localPort = s.localPort /\ t.nextPort = s.nextPort
            /\ t.state = SYN_SENT =>
                  s.state = SYN_SENT /\ t.remoteIP = s.remoteIP /\ t.remoteSeq = s.remoteSeq
  BY <1>1, PortKind
<1>5. n \in Hosts => s.state \in HostStates
  BY DEF HInv, StatesInv
<1>6. ASSUME n \in Hosts
      PROVE  /\ t.state \in HostStates
             /\ \/ \E m \in net : Accepts(n, m, t, out)
                \/ /\ t.remoteIP = s.remoteIP /\ t.remotePort = s.remotePort
                   /\ s.state = LISTEN => t.state = LISTEN
                   /\ t.opened /\ t.state # LISTEN =>
                         s.opened \/ \E m \in net : /\ FromPeer(n, m) /\ ~HasRst(m) /\ HasAck(m)
                                                    /\ m.ack = s.localSeq
  BY <1>1, <1>5, <1>6, HostKind
<1>7. /\ \A k \in Node : /\ sock[k].localSeq \in Nat /\ sock[k].remoteSeq \in Nat
                         /\ sock[k].nextPort \in Nat /\ sock[k].localPort \in Nat
                         /\ sock[k].remotePort \in Nat
      /\ t.localSeq \in Nat /\ t.localSeq >= s.localSeq
      /\ \A m \in net : m.sport \in Nat /\ m.ack \in Nat /\ m.src \in Node /\ m.dst \in Node
  <2>1. \A k \in Node : sock[k] \in Socket_
    BY <1>1, BInvTypes
  <2>2. \A m \in net : m \in Segment
    BY <1>1, BInvTypes
  <2>3. t \in Socket_ /\ t.localSeq >= s.localSeq
    BY <1>1, BecomesThen, OutAny
  <2>4. QED
    BY <2>1, <2>2, <2>3 DEF Socket_, Segment
<1>8. \A k \in Node : sock[k].nextPort <= sock'[k].nextPort /\ sock'[k].nextPort \in Nat
  BY <1>2, <1>4, <1>7
<1>9. StatesInv'
  BY <1>2, <1>6, NodeAssumption DEF HInv, StatesInv
<1>10. ASSUME NEW a \in Node, sock'[a].state = SYN_SENT
       PROVE  /\ a \notin Hosts
              /\ sock'[a].remoteIP = Server[a] /\ sock'[a].localPort < sock'[a].nextPort
  <2>1. a \notin Hosts
    BY <1>9, <1>10, StateValues DEF StatesInv, HostStates
  <2>2. CASE a # n
    BY <1>2, <1>10, <2>1, <2>2 DEF HInv, PortInv
  <2>3. CASE a = n /\ Calls(n, t, out)
    <3>1. n \notin Hosts \cup Named => s.remoteIP = Server[n]
      BY <1>1, <1>2 DEF BInv, RemoteBound
    <3>2. t.remoteIP = Server[n]
      BY <2>1, <2>3, <3>1 DEF Calls
    <3>3. t.localPort = s.nextPort /\ t.nextPort = s.nextPort + 1
      BY <2>3 DEF Calls
    <3>4. QED
      BY <1>2, <1>4, <2>1, <2>3, <3>2, <3>3
  <2>4. CASE a = n /\ ~Calls(n, t, out)
    BY <1>2, <1>4, <1>10, <2>1, <2>4 DEF HInv, PortInv
  <2>5. QED
    BY <2>2, <2>3, <2>4
<1>11. SynInv'
  <2> SUFFICES ASSUME NEW m \in net', PureSyn(m)
               PROVE  /\ m.src \notin Hosts /\ m.dst = Server[m.src]
                      /\ m.sport < sock'[m.src].nextPort
    BY DEF SynInv, PureSyn
  <2>1. CASE m \in net
    BY <1>7, <1>8, <2>1 DEF HInv, SynInv
  <2>2. CASE m \in out
    <3>1. /\ m.src = n /\ m.dst = t.remoteIP /\ m.sport = t.localPort /\ t.state = SYN_SENT
      BY <1>3, <2>2, Flags DEF OutBound
    <3>2. QED
      BY <1>2, <1>10, <3>1
  <2>3. QED
    BY <1>2, <2>1, <2>2
<1>12. ASSUME NEW a \in Node, NEW b \in Node, b \in Hosts, a \notin Hosts,
              sock'[b].remoteIP = a
       PROVE  b = Server[a] /\ sock'[b].remotePort < sock[a].nextPort
  <2>1. CASE sock'[b].remoteIP = sock[b].remoteIP /\ sock'[b].remotePort = sock[b].remotePort
    BY <1>12, <2>1 DEF HInv, PortInv, Holds
  <2>2. ASSUME NEW m \in net, b = n, Accepts(n, m, t, out)
        PROVE  b = Server[a] /\ sock'[b].remotePort < sock[a].nextPort
    <3>1. /\ m.src = a /\ m.dst = b /\ PureSyn(m) /\ sock'[b].remotePort = m.sport
      BY <1>2, <1>12, <2>2 DEF Accepts
    <3>2. QED
      BY <3>1 DEF HInv, SynInv
  <2>3. QED
    BY <1>2, <1>6, <1>12, <2>1, <2>2
<1>13. PortInv'
  <2>1. ASSUME NEW a \in Node, NEW b \in Node, Holds(b, a)'
        PROVE  b = Server[a] /\ sock'[b].remotePort < sock'[a].nextPort
    <3>1. b = Server[a] /\ sock'[b].remotePort < sock[a].nextPort
      BY <1>12, <2>1 DEF Holds
    <3>2. sock'[b].remotePort \in Nat
      <4>1. b # n => sock'[b].remotePort \in Nat
        BY <1>2, <1>7
      <4>2. t \in Socket_
        BY <1>1, BecomesThen
      <4>3. t.remotePort \in Nat
        BY <4>2 DEF Socket_
      <4>4. QED
        BY <1>2, <4>1, <4>3
    <3>3. QED
      BY <1>7, <1>8, <3>1, <3>2
  <2>2. QED
    BY <1>10, <2>1 DEF PortInv
<1>14. Unanswered'
  <2> SUFFICES ASSUME NEW a \in Node, NEW b \in Node, Tied(a, b)', sock'[a].state = SYN_SENT
               PROVE  /\ ~sock'[b].opened
                      /\ sock'[a].remoteSeq < sock'[b].localSeq
                      /\ \A m \in AcksOf(a, b)' : m.ack < sock'[b].localSeq
    BY DEF Unanswered
  <2>1. /\ b \in Hosts /\ a \notin Hosts /\ sock'[b].remoteIP = a /\ sock'[b].state # LISTEN
        /\ sock'[b].remotePort = sock'[a].localPort /\ a # b
    BY DEF Tied, Holds
  <2>2. ~(a = n /\ Calls(n, t, out))
    <3> SUFFICES ASSUME a = n, Calls(n, t, out) PROVE FALSE
      OBVIOUS
    <3>1. sock'[a].localPort = sock[a].nextPort
      BY <1>2 DEF Calls
    <3>2. sock'[b].remotePort < sock[a].nextPort
      BY <1>12, <2>1
    <3>3. QED
      BY <1>7, <2>1, <3>1, <3>2
  <2>3. /\ sock[a].state = SYN_SENT /\ sock'[a].localPort = sock[a].localPort
        /\ sock'[a].remoteIP = sock[a].remoteIP /\ sock'[a].remoteSeq = sock[a].remoteSeq
    BY <1>2, <1>4, <2>2
  <2>4. sock[a].remoteIP = Server[a] /\ b = Server[a]
    BY <1>12, <2>1, <2>3 DEF HInv, PortInv
  <2>5. sock[a].remoteSeq <= sock[b].localSeq
    BY <1>1, <2>4 DEF BInv, RemoteBound
  \* What a sends now acknowledges what it has seen before.
  <2>6. ASSUME NEW m \in AcksOf(a, b)'
        PROVE  m \in AcksOf(a, b) \/ m.ack = sock[a].remoteSeq
    <3>1. /\ m \in net' /\ ~HasRst(m) /\ HasAck(m) /\ m.src = a /\ m.dst = b
          /\ m.sport = sock[a].localPort
      BY <2>3 DEF AcksOf, HasRst, HasAck
    <3>2. CASE m \in net
      BY <3>1, <3>2 DEF AcksOf
    <3>3. CASE m \in out
      <4>1. a = n
        BY <1>2, <3>1, <3>3
      <4>2. m.ack = t.remoteSeq \/ m.ack = s.remoteSeq
        BY <1>2, <1>3, <2>3, <3>1, <3>3, <4>1, StateValues DEF OutBound, Ending, InBlockOrder
      <4>3. QED
        BY <1>2, <2>3, <4>1, <4>2
    <3>4. QED
      BY <1>2, <3>1, <3>2, <3>3
  <2>7. \A m \in AcksOf(a, b) : m.ack <= sock[b].localSeq /\ m.ack \in Nat
    BY <1>1, <1>7 DEF AcksOf, BInv, AckBound
  <2>8. CASE b = n /\ \E m \in net : Accepts(n, m, t, out)
    <3>1. t.localSeq = s.localSeq + 1 /\ t.opened = FALSE
      BY <2>8 DEF Accepts
    <3>2. sock'[a].remoteSeq < sock'[b].localSeq
      BY <1>2, <1>7, <2>3, <2>5, <2>8, <3>1
    <3>3. ASSUME NEW m \in AcksOf(a, b)'
          PROVE  m.ack < sock'[b].localSeq
      <4>1. CASE m \in AcksOf(a, b)
        BY <1>2, <1>7, <2>7, <2>8, <3>1, <4>1
      <4>2. CASE m.ack = sock[a].remoteSeq
        BY <2>3, <3>2, <4>2
      <4>3. QED
        BY <2>6, <4>1, <4>2
    <3>4. QED
      BY <1>2, <2>8, <3>1, <3>2, <3>3
  <2>9. CASE ~(b = n /\ \E m \in net : Accepts(n, m, t, out))
    <3>1. /\ sock'[b].remoteIP = sock[b].remoteIP /\ sock'[b].remotePort = sock[b].remotePort
          /\ sock[b].state # LISTEN
      BY <1>2, <1>6, <2>1, <2>9
    <3>2. Tied(a, b)
      BY <2>1, <2>3, <3>1 DEF Tied, Holds
    <3>3. /\ ~sock[b].opened /\ sock[a].remoteSeq < sock[b].localSeq
          /\ \A m \in AcksOf(a, b) : m.ack < sock[b].localSeq
      BY <2>3, <3>2 DEF HInv, Unanswered
    <3>4. sock'[b].localSeq >= sock[b].localSeq /\ sock'[b].localSeq \in Nat
      BY <1>2, <1>7
    <3>5. sock'[a].remoteSeq < sock'[b].localSeq
      BY <1>7, <2>3, <3>3, <3>4
    <3>6. ASSUME NEW m \in AcksOf(a, b)'
          PROVE  m.ack < sock'[b].localSeq
      <4>1. CASE m \in AcksOf(a, b)
        BY <1>7, <2>7, <3>3, <3>4, <4>1
      <4>2. CASE m.ack = sock[a].remoteSeq
        BY <2>3, <3>5, <4>2
      <4>3. QED
        BY <2>6, <4>1, <4>2
    <3>7. ~sock'[b].opened
      <4> SUFFICES ASSUME sock'[b].opened PROVE FALSE
        OBVIOUS
      <4>1. b = n
        BY <1>2, <3>3
      <4>2. PICK m \in net : /\ FromPeer(n, m) /\ ~HasRst(m) /\ HasAck(m)
                             /\ m.ack = s.localSeq
        BY <1>2, <1>6, <2>1, <2>9, <3>3, <4>1
      <4>3. m \in AcksOf(a, b)
        BY <4>1, <4>2, <3>2 DEF AcksOf, FromPeer, Tied, Holds
      <4>4. m.ack < sock[b].localSeq
        BY <3>3, <4>3
      <4>5. QED
        BY <1>7, <4>1, <4>2, <4>4
    <3>8. QED
      BY <3>5, <3>6, <3>7
  <2>10. QED
    BY <2>8, <2>9
<1>15. QED
  BY <1>9, <1>11, <1>13, <1>14

LEMMA HInvNext ==
  ASSUME HInv, [ForeignNext]_vars
  PROVE  HInv'
<1>1. BInv'
  BY BInvNext DEF HInv
<1>2. CASE Passes
  <2>1. /\ net' \subseteq net
        /\ \A n \in Node : Quiet(sock[n], sock'[n]) /\ sock'[n].state = sock[n].state
    BY <1>2 DEF Passes
  <2>2. \A m \in net : m.src \in Node
    BY BInvTypes DEF HInv
  <2>3. StatesInv'
    BY <2>1, NodeAssumption DEF HInv, StatesInv
  <2>4. SynInv'
    BY <2>1, <2>2 DEF HInv, SynInv, PureSyn, Quiet, Same
  <2>5. \A a, b \in Node : Holds(b, a)' <=> Holds(b, a)
    BY <2>1 DEF Holds, Quiet, Same
  <2>6. PortInv'
    BY <2>1, <2>5 DEF HInv, PortInv, Quiet, Same
  <2>7. \A a, b \in Node : Tied(a, b)' <=> Tied(a, b)
    BY <2>1, <2>5 DEF Tied, Quiet, Same
  <2>8. \A a, b \in Node : AcksOf(a, b)' \subseteq AcksOf(a, b)
    BY <2>1 DEF AcksOf, HasRst, HasAck, Quiet, Same
  <2>9. Unanswered'
    BY <2>1, <2>7, <2>8 DEF HInv, Unanswered, Quiet, Same
  <2>10. QED
    BY <1>1, <2>3, <2>4, <2>6, <2>9 DEF HInv
<1>3. ASSUME NEW n \in Node, NEW t, NEW out, Becomes(n, t, out), AnyKind(n, t, out)
      PROVE  HInv'
  BY <1>1, <1>3, HInvMove DEF HInv
<1>4. QED
  BY <1>2, <1>3, ForeignKind DEF DoesAny, HInv, BInv

LEMMA HInvInit == Init => HInv
<1> SUFFICES ASSUME Init PROVE HInv
  OBVIOUS
<1>1. BInv
  BY BInvInit
<1>2. ASSUME NEW n \in Node
      PROVE  /\ sock[n].state = IF isHost(n) THEN LISTEN ELSE CLOSED
             /\ n \in Hosts => sock[n].remoteIP = NoNode
             /\ net = {}
  BY InitFields
<1>3. StatesInv
  BY <1>2, NodeAssumption, StateValues DEF StatesInv, HostStates, isHost
<1>4. net = {}
  BY DEF Init
<1>5. \A a, b \in Node : ~Holds(b, a)
  BY <1>2, NodeAssumption DEF Holds
<1>6. \A a \in Node : sock[a].state # SYN_SENT
  BY <1>2, StateValues
<1>7. QED
  BY <1>1, <1>3, <1>4, <1>5, <1>6 DEF HInv, SynInv, PortInv, Unanswered

\* A host takes its handshake for complete only if its client has left SYN_SENT,
\* and has therefore taken the SYN|ACK: no SYN or ACK left over from an earlier
\* connection acknowledges the SYN of a new one, because nextPort has moved on
\* and localSeq is past all that was acknowledged.  Of foreign devices too.
THEOREM ForeignHandshakes == ForeignSpec => []HandshakeAgreed
<1>1. HInv => HandshakeAgreed
  <2> SUFFICES ASSUME HInv, NEW a \in Node, NEW b \in Node, isHost(b), ~isHost(a),
                      Synchronized(sock[b]), sock[b].opened,
                      sock[b].remoteIP = a, sock[b].remotePort = sock[a].localPort
               PROVE  sock[a].state # SYN_SENT
    BY DEF HandshakeAgreed
  <2>1. sock[b].state # LISTEN
    BY StateByte, StateValues DEF Synchronized
  <2>2. Tied(a, b)
    BY <2>1 DEF Tied, Holds, isHost
  <2>3. QED
    BY <2>2 DEF HInv, Unanswered
<1>2. QED
  BY <1>1, HInvInit, HInvNext, PTL DEF ForeignSpec

\* The same, of a network of this library alone.
THEOREM Handshakes == Spec => []HandshakeAgreed
  BY ForeignHandshakes, SpecForeign, PTL

-----------------------------------------------------------------------------
(* The stream, where clients connect to hosts by their address.            *)

\* A client built with a name is left out: close() while its name is looked up
\* takes RESOLVING for ESTABLISHED.  So are two devices that connect to each other.
ServersListen == Named = {} /\ \A n \in Node \ Hosts : Server[n] \in Hosts

\* The states of a connection, and those of a device.
LiveStates == {3, 4, 5, 6, 7, 9, 244}
DevStates(n) == IF n \in Hosts THEN LiveStates \cup {1} ELSE (LiveStates \ {3}) \cup {2, 11}

\* Whether the FIN of a socket was sent, and that of its peer received.
FinSent(s) == IF s.state \in {5, 6, 9} THEN 1 ELSE 0
FinSeen(s) == IF s.state \in {7, 9} THEN 1 ELSE 0

\* The sequence number of the first byte of the connection.
Base(s) == s.localSeq - (s.sent - s.start) - FinSent(s)

\* What is so in each state: nothing is sent or received before the handshake is
\* over, and the stash holds the last bytes sent.
Young(n, s) ==
    /\ s.sent >= s.start
    /\ s.state \in {2, 3} => s.sent = s.start /\ s.got = <<>>
    /\ s.state = 3 => ~s.opened
    /\ n \notin Hosts /\ s.state \in LiveStates => s.opened
    /\ n \in Hosts /\ s.state # 1 /\ ~s.opened =>
          s.state \in {3, 5} /\ s.sent = s.start /\ s.got = <<>>
    /\ s.state = 244 =>
          s.stash.first + s.stash.len = s.sent + 1 /\ s.stash.len <= s.sent - s.start

Fields ==
    \A n \in Node : /\ sock[n].state \in DevStates(n)
                    /\ Young(n, sock[n])
                    /\ n \in Hosts => sock[n].remoteIP \notin Hosts

\* An acknowledgement of all that n has sent.
AckedAll(n) ==
    \E m \in net : FromPeer(n, m) /\ ~HasRst(m) /\ HasAck(m) /\ m.ack = sock[n].localSeq

\* A step of a connected socket, as far as what it sends is concerned, ...
Sender(n, s, t) ==
    /\ t.start = s.start /\ t.sent >= s.sent /\ Base(t) = Base(s)
    /\ t.sent = s.sent \/ s.state = 4
    /\ FinSent(s) = 1 => FinSent(t) = 1 /\ t.localSeq = s.localSeq
    /\ t.state \in {4, 6} => t.localSeq = s.localSeq /\ (t.state = s.state \/ AckedAll(n))
    /\ t.state = 244 =>
          \/ s.state = 244 /\ t.localSeq = s.localSeq /\ t.stash = s.stash /\ t.sent = s.sent
          \/ s.state = 4 /\ t.localSeq = s.localSeq + t.stash.len
             /\ t.sent = s.sent + t.stash.len /\ t.stash.first = s.sent + 1

\* ... as far as what it receives is, ...
Receiver(n, s, t) ==
    \/ t.remoteSeq = s.remoteSeq /\ t.got = s.got /\ FinSeen(t) = FinSeen(s)
    \/ \E m \in net :
          /\ InBlockOrder(n, m) /\ HasFin(m)
          /\ t.remoteSeq = m.seq + 1 /\ t.got = s.got /\ FinSeen(t) = 1
          /\ t.sent = s.sent
    \/ \E m \in net :
          /\ InBlockOrder(n, m) /\ m.data.len > 0
          /\ t.remoteSeq = m.seq + m.data.len /\ t.got = s.got \o Bytes(m.data)
          /\ FinSeen(t) = 0

\* ... and as far as the handshake is.
Opens(n, s, t) ==
    /\ s.opened => t.opened
    /\ t.opened => s.opened \/ AckedAll(n)
    /\ t.state = 3 => s.state = 3 /\ t.opened = s.opened
    /\ s.state \in {3, 5} /\ ~t.opened =>
          t.state \in {3, 5} /\ t.sent = s.sent /\ t.got = s.got /\ t.remoteSeq = s.remoteSeq

Talks(n, t) ==
    LET s == sock[n] IN
    /\ s.state \in LiveStates /\ t.state \in LiveStates
    /\ t.localPort = s.localPort /\ t.remoteIP = s.remoteIP /\ t.remotePort = s.remotePort
    /\ Sender(n, s, t) /\ Receiver(n, s, t) /\ Opens(n, s, t)

\* The numbers of a socket.
LEMMA SockNumbers ==
  ASSUME NEW s \in Socket_
  PROVE  /\ s.localSeq \in Nat /\ s.remoteSeq \in Nat /\ s.sent \in Nat /\ s.start \in Nat
         /\ s.stash.len \in Nat /\ s.stash.first \in Nat /\ s.stash \in Data
         /\ s.opened \in BOOLEAN /\ s.got \in Seq(Nat) /\ Len(s.got) \in Nat
         /\ FinSent(s) \in {0, 1} /\ FinSeen(s) \in {0, 1} /\ Base(s) \in Int
<1>1. /\ s.localSeq \in Nat /\ s.remoteSeq \in Nat /\ s.sent \in Nat /\ s.start \in Nat
      /\ s.stash \in Data /\ s.opened \in BOOLEAN /\ s.got \in Seq(Nat)
  BY DEF Socket_
<1>2. s.stash.len \in Nat /\ s.stash.first \in Nat
  BY <1>1 DEF Data
<1>3. FinSent(s) \in {0, 1} /\ FinSeen(s) \in {0, 1}
  BY DEF FinSent, FinSeen
<1>4. Len(s.got) \in Nat
  BY <1>1
<1>5. Base(s) \in Int
  BY <1>1, <1>3 DEF Base
<1>6. QED
  BY <1>1, <1>2, <1>3, <1>4, <1>5

LEMMA QuietTalks ==
  ASSUME NEW n, NEW t, sock[n] \in Socket_, t \in Socket_, sock[n].state \in LiveStates,
         Quiet(sock[n], t), t.state = sock[n].state
  PROVE  Talks(n, t)
<1> DEFINE s == sock[n]
<1>1. FinSent(t) = FinSent(s) /\ FinSeen(t) = FinSeen(s)
  BY DEF FinSent, FinSeen
<1>2. Base(t) = Base(s)
  BY <1>1 DEF Base, Quiet, Same
<1>3. s.sent \in Nat /\ s.localSeq \in Nat
  BY SockNumbers
<1>4. Sender(n, s, t)
  BY <1>1, <1>2, <1>3 DEF Sender, Quiet, Same
<1>5. Receiver(n, s, t)
  BY <1>1 DEF Receiver, Quiet, Same
<1>6. Opens(n, s, t)
  BY DEF Opens, Quiet, Same
<1>7. QED
  BY <1>4, <1>5, <1>6 DEF Talks, Quiet, Same

LEMMA SendsSender ==
  ASSUME NEW n, NEW s \in Socket_, NEW t \in Socket_, NEW out, s.state \in LiveStates,
         Sends(n, s, t, out)
  PROVE  /\ Sender(n, s, t) /\ t.state = 244 /\ s.state = 4
         /\ Same(s, t) /\ t.opened = s.opened
<1>1. PICK d \in Data : d.first = s.sent + 1 /\ d.len > 0 /\ SendsOf(s, t, d)
  BY DEF Sends
<1>2. s.state = 4 /\ t.state = 244
  BY <1>1 DEF Sends, SendsOf, LiveStates
<1>3. /\ t.start = s.start /\ t.sent = s.sent + d.len /\ t.localSeq = s.localSeq + d.len
      /\ t.stash = d
  BY <1>1 DEF SendsOf, Same
<1>4. FinSent(t) = 0 /\ FinSent(s) = 0
  BY <1>2 DEF FinSent
<1>5. d.len \in Nat /\ s.sent \in Nat /\ s.localSeq \in Nat /\ s.start \in Nat
  BY SockNumbers DEF Data
<1>6. Base(t) = Base(s)
  BY <1>3, <1>4, <1>5 DEF Base
<1>7. Sender(n, s, t)
  BY <1>1, <1>2, <1>3, <1>4, <1>5, <1>6 DEF Sender
<1>8. QED
  BY <1>1, <1>2, <1>7 DEF SendsOf

LEMMA ClosesSender ==
  ASSUME NEW n, NEW s \in Socket_, NEW t \in Socket_, NEW out, s.state \in LiveStates,
         Closes(n, s, t, out)
  PROVE  /\ Sender(n, s, t) /\ FinSent(s) = 0 /\ FinSent(t) = 1 /\ t.localSeq = s.localSeq + 1
         /\ \/ s.state \in {3, 4, 244} /\ t.state = 5
            \/ s.state = 7 /\ t.state = 9
         /\ Same(s, t) /\ t.opened = s.opened /\ t.sent = s.sent
<1>1. /\ Same(s, t) /\ t.opened = s.opened /\ t.sent = s.sent /\ t.start = s.start
      /\ t.localSeq = s.localSeq + 1 /\ t.state = ClosedState(s.state) /\ ~localClosed(s)
  BY DEF Closes, Counts, Same
<1>2. s.state \in {3, 4, 244, 7}
  BY <1>1, StateValues DEF localClosed, LiveStates
<1>3. \/ s.state \in {3, 4, 244} /\ t.state = 5
      \/ s.state = 7 /\ t.state = 9
  BY <1>1, <1>2, StateValues DEF ClosedState
<1>4. FinSent(s) = 0 /\ FinSent(t) = 1
  BY <1>3 DEF FinSent
<1>5. s.sent \in Nat /\ s.localSeq \in Nat /\ s.start \in Nat
  BY SockNumbers
<1>6. Base(t) = Base(s)
  BY <1>1, <1>4, <1>5 DEF Base
<1>7. Sender(n, s, t)
  BY <1>1, <1>3, <1>4, <1>5, <1>6 DEF Sender
<1>8. QED
  BY <1>1, <1>3, <1>4, <1>7

LEMMA BothSender ==
  ASSUME NEW n, NEW s \in Socket_, NEW t \in Socket_, NEW out, s.state \in LiveStates,
         SaysBoth(n, s, t, out)
  PROVE  /\ Sender(n, s, t) /\ t.state = 5 /\ s.state = 4
         /\ Same(s, t) /\ t.opened = s.opened
<1>1. Same(s, t) /\ t.opened = s.opened /\ s.state = 4 /\ t.state = 5 /\ t.start = s.start
  BY BothSaid, StateValues DEF LiveStates, Same
<1>2. PICK d \in Data : /\ d.len > 0 /\ t.sent = s.sent + d.len
                        /\ t.localSeq = s.localSeq + d.len + 1
  BY BothSaid
<1>3. FinSent(t) = 1 /\ FinSent(s) = 0
  BY <1>1 DEF FinSent
<1>4. d.len \in Nat /\ s.sent \in Nat /\ s.localSeq \in Nat /\ s.start \in Nat
  BY SockNumbers DEF Data
<1>5. Base(t) = Base(s)
  BY <1>1, <1>2, <1>3, <1>4 DEF Base
<1>6. Sender(n, s, t)
  BY <1>1, <1>2, <1>3, <1>4, <1>5 DEF Sender
<1>7. QED
  BY <1>1, <1>6

LEMMA SendsTalks ==
  ASSUME NEW n, NEW t, NEW out, sock[n] \in Socket_, t \in Socket_,
         sock[n].state \in LiveStates,
         Sends(n, sock[n], t, out) \/ Closes(n, sock[n], t, out)
  PROVE  Talks(n, t)
<1> DEFINE s == sock[n]
<1>1. CASE Sends(n, s, t, out)
  <2>1. /\ Sender(n, s, t) /\ t.state = 244 /\ s.state = 4
        /\ Same(s, t) /\ t.opened = s.opened
    BY <1>1, SendsSender
  <2>2. FinSeen(t) = 0 /\ FinSeen(s) = 0
    BY <2>1 DEF FinSeen
  <2>3. QED
    BY <2>1, <2>2 DEF Talks, Receiver, Opens, LiveStates, Same
<1>2. CASE Closes(n, s, t, out)
  <2>1. /\ Sender(n, s, t)
        /\ \/ s.state \in {3, 4, 244} /\ t.state = 5
           \/ s.state = 7 /\ t.state = 9
        /\ Same(s, t) /\ t.opened = s.opened /\ t.sent = s.sent
    BY <1>2, ClosesSender
  <2>2. FinSeen(t) = FinSeen(s)
    BY <2>1 DEF FinSeen
  <2>3. QED
    BY <2>1, <2>2 DEF Talks, Receiver, Opens, LiveStates, Same
<1>3. QED
  BY <1>1, <1>2

LEMMA AckedTalks ==
  ASSUME NEW n, NEW m \in net, NEW t, NEW out, sock[n] \in Socket_, t \in Socket_,
         sock[n].state \in LiveStates, Acked(n, m, t, out)
  PROVE  Talks(n, t)
<1> DEFINE s == sock[n]
<1>1. /\ Same(s, t) /\ t.sent = s.sent /\ t.localSeq = s.localSeq /\ t.opened = TRUE
      /\ t.state = AckState(n, s.state) /\ s.state \in {3, 5, 6, 7}
  BY StateValues DEF Acked, LiveStates
<1>2. AckedAll(n)
  BY StateValues DEF Acked, AckedAll, LiveStates
<1>3. \/ s.state = 3 /\ t.state = 4
      \/ s.state \in {5, 6} /\ t.state = 6
      \/ s.state = 7 /\ t.state = 7
  BY <1>1, StateValues DEF AckState
<1>4. FinSent(t) = FinSent(s) /\ FinSeen(t) = FinSeen(s)
  BY <1>3 DEF FinSent, FinSeen
<1>5. Base(t) = Base(s) /\ t.start = s.start
  BY <1>1, <1>4 DEF Base, Same
<1>6. s.sent \in Nat
  BY SockNumbers
<1>7. Sender(n, s, t)
  BY <1>1, <1>2, <1>3, <1>4, <1>5, <1>6 DEF Sender
<1>8. QED
  BY <1>1, <1>2, <1>3, <1>4, <1>7 DEF Talks, Receiver, Opens, LiveStates, Same

LEMMA TakesAckTalks ==
  ASSUME NEW n, NEW m \in net, NEW t, NEW out, sock[n] \in Socket_, t \in Socket_,
         sock[n].state \in LiveStates, TakesAck(n, m, t, out)
  PROVE  Talks(n, t)
<1> DEFINE s == sock[n]
<1>1. Quiet(s, t) /\ t.state = Flag(s, m, s.state) /\ s.state \in {4, 244}
  BY DEF TakesAck, InBlockOrder, LiveStates
<1>2. CASE t.state = s.state
  BY <1>1, <1>2, QuietTalks
<1>3. CASE t.state # s.state
  <2>1. t.state = 4 /\ s.state = 244 /\ m.ack = s.localSeq
    BY <1>1, <1>3, StateValues DEF Flag, Cleared
  <2>2. AckedAll(n)
    BY <2>1 DEF TakesAck, InBlockOrder, AckedAll
  <2>3. FinSent(t) = FinSent(s) /\ FinSeen(t) = FinSeen(s)
    BY <2>1 DEF FinSent, FinSeen
  <2>4. Base(t) = Base(s)
    BY <1>1, <2>3 DEF Base, Quiet, Same
  <2>5. s.sent \in Nat
    BY SockNumbers
  <2>6. Sender(n, s, t)
    BY <1>1, <2>1, <2>2, <2>3, <2>4, <2>5 DEF Sender, Quiet, Same
  <2>7. QED
    BY <1>1, <2>1, <2>3, <2>6 DEF Talks, Receiver, Opens, LiveStates, Quiet, Same
<1>4. QED
  BY <1>2, <1>3

LEMMA TakesFinTalks ==
  ASSUME NEW n, NEW m \in net, NEW t, NEW out, sock[n] \in Socket_, t \in Socket_,
         sock[n].state \in LiveStates, TakesFin(n, m, t, out)
  PROVE  Talks(n, t)
<1> DEFINE s == sock[n]
<1>1. /\ InBlockOrder(n, m) /\ HasFin(m) /\ s.state \in {4, 244} /\ t.state = 7
      /\ t.remoteSeq = m.seq + 1 /\ t.start = s.start /\ t.got = s.got
      /\ t.opened = s.opened /\ t.sent = s.sent /\ t.localSeq = s.localSeq
  BY StateValues DEF TakesFin, InBlockOrder, LiveStates
<1>2. FinSent(t) = 0 /\ FinSent(s) = 0 /\ FinSeen(t) = 1
  BY <1>1 DEF FinSent, FinSeen
<1>3. Base(t) = Base(s) /\ s.sent \in Nat
  BY <1>1, <1>2, SockNumbers DEF Base
<1>4. Sender(n, s, t)
  BY <1>1, <1>2, <1>3 DEF Sender
<1>5. Receiver(n, s, t)
  BY <1>1, <1>2 DEF Receiver
<1>6. Opens(n, s, t)
  BY <1>1 DEF Opens
<1>7. QED
  BY <1>1, <1>4, <1>5, <1>6 DEF Talks, LiveStates, TakesFin

LEMMA SenderCopy ==
  ASSUME NEW n, NEW s, NEW u, NEW t, Sender(n, s, u),
         t.start = u.start, t.sent = u.sent, t.localSeq = u.localSeq, t.stash = u.stash,
         t.state = u.state
  PROVE  Sender(n, s, t)
<1>1. FinSent(t) = FinSent(u)
  BY DEF FinSent
<1>2. Base(t) = Base(u)
  BY <1>1 DEF Base
<1>3. QED
  BY <1>1, <1>2 DEF Sender

LEMMA TakesDataTalks ==
  ASSUME NEW n, NEW m \in net, NEW u, NEW said, NEW t, NEW out, sock[n] \in Socket_,
         t \in Socket_, sock[n].state \in LiveStates, TakesData(n, m, u, said, t, out)
  PROVE  Talks(n, t)
<1> DEFINE s == sock[n]
<1>1. /\ InBlockOrder(n, m) /\ m.data.len > 0 /\ s.state \in {4, 244} /\ u \in Socket_
      /\ t.localPort = u.localPort /\ t.remoteIP = u.remoteIP /\ t.remotePort = u.remotePort
      /\ t.start = u.start /\ t.sent = u.sent /\ t.localSeq = u.localSeq
      /\ t.stash = u.stash /\ t.opened = u.opened
      /\ t.state = Flag(s, m, u.state)
  BY DEF TakesData, InBlockOrder, LiveStates, Speaks
<1>2. /\ \/ t.remoteSeq = m.seq + m.data.len /\ t.got = u.got \o Bytes(m.data)
         \/ t.remoteSeq = u.remoteSeq /\ t.got = u.got
      /\ Speaks(n, s, u, said)
  BY DEF TakesData
<1>3. s.sent \in Nat
  BY SockNumbers
<1>4. /\ Sender(n, s, t) /\ Same(s, u) /\ u.opened = s.opened /\ t.state \in {4, 244, 5}
  <2>1. CASE Quiet(s, u) /\ u.state = s.state
    <3>1. Same(s, u) /\ u.opened = s.opened /\ t.start = s.start /\ t.sent = s.sent
          /\ t.localSeq = s.localSeq /\ t.stash = s.stash
      BY <1>1, <2>1 DEF Quiet, Same
    <3>2. t.state \in {4, 244} /\ (t.state = s.state \/ (t.state = 4 /\ m.ack = s.localSeq))
      BY <1>1, <2>1, StateValues DEF Flag, Cleared
    <3>3. t.state = s.state \/ (t.state = 4 /\ AckedAll(n))
      BY <1>1, <3>2 DEF InBlockOrder, AckedAll
    <3>4. FinSent(t) = 0 /\ FinSent(s) = 0
      BY <1>1, <3>2 DEF FinSent
    <3>5. Base(t) = Base(s)
      BY <3>1, <3>4 DEF Base
    <3>6. Sender(n, s, t)
      BY <1>3, <3>1, <3>2, <3>3, <3>4, <3>5 DEF Sender
    <3>7. QED
      BY <3>1, <3>2, <3>6
  <2>2. CASE Sends(n, s, u, said)
    <3>1. Sender(n, s, u) /\ u.state = 244 /\ s.state = 4 /\ Same(s, u) /\ u.opened = s.opened
      BY <1>1, <2>2, SendsSender
    <3>2. t.state = u.state
      BY <1>1, <3>1 DEF Flag
    <3>3. Sender(n, s, t)
      BY <1>1, <3>1, <3>2, SenderCopy
    <3>4. QED
      BY <3>1, <3>2, <3>3
  <2>3. CASE Closes(n, s, u, said)
    <3>1. Sender(n, s, u) /\ u.state = 5 /\ Same(s, u) /\ u.opened = s.opened
      BY <1>1, <2>3, ClosesSender
    <3>2. t.state = u.state
      BY <1>1, <3>1 DEF Flag, Cleared
    <3>3. Sender(n, s, t)
      BY <1>1, <3>1, <3>2, SenderCopy
    <3>4. QED
      BY <3>1, <3>2, <3>3
  <2>4. CASE SaysBoth(n, s, u, said)
    <3>1. Sender(n, s, u) /\ u.state = 5 /\ Same(s, u) /\ u.opened = s.opened
      BY <1>1, <2>4, BothSender
    <3>2. t.state = u.state
      BY <1>1, <3>1 DEF Flag, Cleared
    <3>3. Sender(n, s, t)
      BY <1>1, <3>1, <3>2, SenderCopy
    <3>4. QED
      BY <3>1, <3>2, <3>3
  <2>5. QED
    BY <1>2, <2>1, <2>2, <2>3, <2>4 DEF Speaks
<1>5. FinSeen(t) = 0 /\ FinSeen(s) = 0
  BY <1>1, <1>4 DEF FinSeen
<1>6. u.got = s.got /\ u.remoteSeq = s.remoteSeq /\ u.localPort = s.localPort
      /\ u.remoteIP = s.remoteIP /\ u.remotePort = s.remotePort
  BY <1>4 DEF Same
<1>7. Receiver(n, s, t)
  BY <1>1, <1>2, <1>5, <1>6 DEF Receiver
<1>8. Opens(n, s, t)
  BY <1>1, <1>4 DEF Opens
<1>9. QED
  BY <1>1, <1>4, <1>6, <1>7, <1>8 DEF Talks, LiveStates

LEMMA YoungTalks ==
  ASSUME NEW n, NEW t, sock[n] \in Socket_, t \in Socket_, Young(n, sock[n]), Talks(n, t)
  PROVE  Young(n, t)
<1> DEFINE s == sock[n]
<1>1. s.state \in LiveStates /\ t.state \in LiveStates /\ Sender(n, s, t) /\ Opens(n, s, t)
  BY DEF Talks
<1>2. /\ s.sent \in Nat /\ s.start \in Nat /\ t.sent \in Nat /\ t.start \in Nat
      /\ t.stash.len \in Nat /\ t.stash.first \in Nat
  BY SockNumbers
<1>3. s.state # 1 /\ t.state # 2 /\ t.start = s.start /\ t.sent >= s.sent
  BY <1>1 DEF LiveStates, Sender
<1>4. t.sent >= t.start
  BY <1>2, <1>3 DEF Young
<1>5. ASSUME t.state = 3
      PROVE  t.sent = t.start /\ t.got = <<>> /\ ~t.opened
  BY <1>1, <1>3, <1>5 DEF Opens, Young
<1>6. ASSUME n \in Hosts, ~t.opened
      PROVE  t.state \in {3, 5} /\ t.sent = t.start /\ t.got = <<>>
  <2>1. ~s.opened
    BY <1>1, <1>6 DEF Opens
  <2>2. s.state \in {3, 5} /\ s.sent = s.start /\ s.got = <<>>
    BY <1>3, <1>6, <2>1 DEF Young
  <2>3. QED
    BY <1>1, <1>3, <1>6, <2>2 DEF Opens
<1>7. ASSUME n \notin Hosts
      PROVE  t.opened
  BY <1>1, <1>7 DEF Opens, Young
<1>8. ASSUME t.state = 244
      PROVE  t.stash.first + t.stash.len = t.sent + 1 /\ t.stash.len <= t.sent - t.start
  <2>1. CASE s.state = 244 /\ t.stash = s.stash /\ t.sent = s.sent
    BY <1>3, <2>1 DEF Young
  <2>2. CASE t.sent = s.sent + t.stash.len /\ t.stash.first = s.sent + 1
    BY <1>2, <1>3, <2>2, SMTT(30) DEF Young
  <2>3. QED
    BY <1>1, <1>8, <2>1, <2>2 DEF Sender
<1>9. QED
  BY <1>3, <1>4, <1>5, <1>6, <1>7, <1>8 DEF Young

\* A segment that is not a reset, sent in a step of a connection to t: the
\* SYN|ACK, the FIN, an acknowledgement, or bytes of the stream at their place.
NewOK(t, m) ==
    \/ HasSyn(m) /\ ~HasFin(m) /\ m.data.len = 0
       /\ t.state = 3 /\ m.seq = t.localSeq - 1 /\ m.ack = t.remoteSeq
    \/ ~HasSyn(m) /\ HasFin(m) /\ m.data.len = 0 /\ FinSent(t) = 1 /\ m.seq = t.localSeq - 1
    \/ ~HasSyn(m) /\ ~HasFin(m) /\ m.data.len = 0 /\ m.seq >= Base(t)
    \/ ~HasSyn(m) /\ ~HasFin(m) /\ m.seq >= Base(t)
       /\ m.data.first = m.seq - Base(t) + t.start + 1
       /\ m.seq + m.data.len = t.localSeq - FinSent(t)

LEMMA AckNew ==
  ASSUME NEW n, NEW x, NEW t \in Socket_, t.sent >= t.start, NEW m, NEW ack,
         Carries(n, x, m, {"ACK"}, t.localSeq, ack, NoData)
  PROVE  NewOK(t, m)
<1>1. ~HasSyn(m) /\ ~HasFin(m) /\ m.data.len = 0 /\ m.seq = t.localSeq
  BY Flags, NoDataType DEF Carries
<1>2. t.localSeq >= Base(t)
  BY SockNumbers DEF Base
<1>3. QED
  BY <1>1, <1>2 DEF NewOK

LEMMA FinNew ==
  ASSUME NEW n, NEW x, NEW t \in Socket_, FinSent(t) = 1, NEW m, NEW ack,
         Carries(n, x, m, {"FIN", "ACK"}, t.localSeq - 1, ack, NoData)
  PROVE  NewOK(t, m)
<1>1. ~HasSyn(m) /\ HasFin(m) /\ m.data.len = 0 /\ m.seq = t.localSeq - 1
  BY Flags, NoDataType DEF Carries
<1>2. QED
  BY <1>1 DEF NewOK

LEMMA DataNew ==
  ASSUME NEW n, NEW x, NEW t \in Socket_, NEW m, NEW ack, NEW d \in Data,
         d.first + d.len = t.sent + 1, d.len <= t.sent - t.start,
         Carries(n, x, m, {"ACK"}, t.localSeq - FinSent(t) - d.len, ack, d)
  PROVE  NewOK(t, m)
<1>1. ~HasSyn(m) /\ ~HasFin(m) /\ m.data = d /\ m.seq = t.localSeq - FinSent(t) - d.len
  BY Flags DEF Carries
<1>2. /\ d.len \in Nat /\ d.first \in Nat
      /\ t.localSeq \in Nat /\ t.sent \in Nat /\ t.start \in Nat
  BY SockNumbers DEF Data
<1>3. Base(t) = t.localSeq - (t.sent - t.start) - FinSent(t) /\ FinSent(t) \in {0, 1}
  BY <1>2 DEF Base, FinSent
<1>4. m.seq >= Base(t) /\ m.data.first = m.seq - Base(t) + t.start + 1
      /\ m.seq + m.data.len = t.localSeq - FinSent(t)
  BY <1>1, <1>2, <1>3, SMTT(30)
<1>5. QED
  BY <1>1, <1>4 DEF NewOK

\* What send() and close() send, from s to u, if t has sent no more than u.
LEMMA SaidNew ==
  ASSUME NEW n, NEW s \in Socket_, NEW u \in Socket_, NEW t \in Socket_, NEW said, NEW m \in said,
         s.state \in LiveStates, s.sent >= s.start,
         Sends(n, s, u, said) \/ Closes(n, s, u, said) \/ SaysBoth(n, s, u, said),
         t.start = u.start, t.sent = u.sent, t.localSeq = u.localSeq, t.state = u.state
  PROVE  NewOK(t, m)
<1>1. /\ s.localSeq \in Nat /\ s.sent \in Nat /\ s.start \in Nat
  BY SockNumbers
<1>2. CASE Sends(n, s, u, said)
  <2>1. PICK d \in Data : /\ d.first = s.sent + 1 /\ SendsOf(s, u, d)
                          /\ Carries(n, s, m, {"ACK"}, s.localSeq, s.remoteSeq, d)
    BY <1>2 DEF Sends
  <2>2. /\ t.start = s.start /\ t.sent = s.sent + d.len /\ t.localSeq = s.localSeq + d.len
        /\ t.state = 244
    BY <2>1 DEF SendsOf, Same
  <2>3. d.len \in Nat /\ d.first \in Nat
    BY DEF Data
  <2>4. FinSent(t) = 0
    BY <2>2 DEF FinSent
  <2>5. d.first + d.len = t.sent + 1 /\ d.len <= t.sent - t.start
    BY <1>1, <2>1, <2>2, <2>3
  <2>6. t.localSeq - FinSent(t) - d.len = s.localSeq
    BY <1>1, <2>2, <2>3, <2>4
  <2>7. Carries(n, s, m, {"ACK"}, t.localSeq - FinSent(t) - d.len, s.remoteSeq, d)
    BY <2>1, <2>6
  <2>8. QED
    BY <2>5, <2>7, DataNew
<1>3. CASE Closes(n, s, u, said)
  <2>1. FinSent(u) = 1 /\ u.localSeq = s.localSeq + 1
    BY <1>3, ClosesSender
  <2>2. FinSent(t) = 1
    BY <2>1 DEF FinSent
  <2>3. s.localSeq = t.localSeq - 1
    BY <1>1, <2>1
  <2>4. Carries(n, s, m, {"FIN", "ACK"}, s.localSeq, s.remoteSeq, NoData)
    BY <1>3 DEF Closes
  <2>5. Carries(n, s, m, {"FIN", "ACK"}, t.localSeq - 1, s.remoteSeq, NoData)
    BY <2>3, <2>4
  <2>6. QED
    BY <2>2, <2>5, FinNew
<1>4. CASE SaysBoth(n, s, u, said)
  <2>1. Same(s, u) /\ u.state = FIN_WAIT_1
    BY <1>4, BothSaid
  <2>2. PICK d \in Data :
           /\ d.first = s.sent + 1 /\ d.len > 0 /\ u.sent = s.sent + d.len
           /\ u.localSeq = s.localSeq + d.len + 1
           /\ \/ Carries(n, s, m, {"ACK"}, s.localSeq, s.remoteSeq, d)
              \/ Carries(n, s, m, {"FIN", "ACK"}, s.localSeq + d.len, s.remoteSeq, NoData)
    BY <1>4, BothSaid
  <2>3. d.len \in Nat /\ d.first \in Nat
    BY DEF Data
  <2>4. FinSent(t) = 1 /\ t.start = s.start
    BY <2>1, StateValues DEF FinSent, Same
  <2>5. d.first + d.len = t.sent + 1 /\ d.len <= t.sent - t.start
    BY <1>1, <2>2, <2>3, <2>4
  <2>6. t.localSeq - FinSent(t) - d.len = s.localSeq /\ t.localSeq - 1 = s.localSeq + d.len
    BY <1>1, <2>2, <2>3, <2>4
  <2>7. CASE Carries(n, s, m, {"ACK"}, s.localSeq, s.remoteSeq, d)
    <3>1. Carries(n, s, m, {"ACK"}, t.localSeq - FinSent(t) - d.len, s.remoteSeq, d)
      BY <2>6, <2>7
    <3>2. QED
      BY <2>5, <3>1, DataNew
  <2>8. CASE Carries(n, s, m, {"FIN", "ACK"}, s.localSeq + d.len, s.remoteSeq, NoData)
    <3>1. Carries(n, s, m, {"FIN", "ACK"}, t.localSeq - 1, s.remoteSeq, NoData)
      BY <2>6, <2>8
    <3>2. QED
      BY <2>4, <3>1, FinNew
  <2>9. QED
    BY <2>2, <2>7, <2>8
<1>5. QED
  BY <1>2, <1>3, <1>4

LEMMA RepeatsNew ==
  ASSUME NEW n, NEW t \in Socket_, NEW out, NEW m \in out, sock[n] \in Socket_,
         Young(n, sock[n]), sock[n].state \in LiveStates, Repeats(n, t, out)
  PROVE  NewOK(t, m)
<1> DEFINE s == sock[n]
<1>1. /\ t.start = s.start /\ t.sent = s.sent /\ t.localSeq = s.localSeq /\ t.state = s.state
      /\ t.remoteSeq = s.remoteSeq /\ s.state \in {3, 5, 244, 4, 6, 7, 9}
  BY DEF Repeats, Quiet, Same, LiveStates
<1>2. CASE s.state = 3 /\ Carries(n, s, m, {"SYN", "ACK"}, s.localSeq - 1, s.remoteSeq, NoData)
  <2>1. HasSyn(m) /\ ~HasFin(m) /\ m.data.len = 0 /\ m.seq = t.localSeq - 1
        /\ m.ack = t.remoteSeq
    BY <1>1, <1>2, Flags, NoDataType DEF Carries
  <2>2. QED
    BY <1>1, <1>2, <2>1 DEF NewOK
<1>3. CASE s.state = 5 /\ Carries(n, s, m, {"FIN", "ACK"}, s.localSeq - 1, s.remoteSeq, NoData)
  <2>1. FinSent(t) = 1
    BY <1>1, <1>3 DEF FinSent
  <2>2. QED
    BY <1>1, <1>3, <2>1, FinNew
<1>4. CASE s.state = 244 /\ Carries(n, s, m, {"ACK"}, s.localSeq - s.stash.len, s.remoteSeq, s.stash)
  <2>1. FinSent(t) = 0
    BY <1>1, <1>4 DEF FinSent
  <2>2. s.stash \in Data
    BY SockNumbers
  <2>3. s.stash.first + s.stash.len = t.sent + 1 /\ s.stash.len <= t.sent - t.start
    BY <1>1, <1>4 DEF Young
  <2>4. t.localSeq - FinSent(t) - s.stash.len = s.localSeq - s.stash.len
    BY <1>1, <2>1, <2>2, SockNumbers
  <2>5. Carries(n, s, m, {"ACK"}, t.localSeq - FinSent(t) - s.stash.len, s.remoteSeq, s.stash)
    BY <1>4, <2>4
  <2>6. QED
    BY <2>2, <2>3, <2>5, DataNew
<1>5. QED
  BY <1>1, <1>2, <1>3, <1>4, StateValues DEF Repeats

\* The connection is over, or there was none, ...
Rests(n, t) ==
    LET s == sock[n] IN
    /\ t.state = IF n \in Hosts THEN LISTEN ELSE CLOSED
    /\ t.sent = s.sent /\ t.start = s.start /\ t.remoteIP = s.remoteIP

\* ... or it is not there yet.
Waits(n, t) ==
    LET s == sock[n] IN
    s.state = SYN_SENT /\ t.state = SYN_SENT /\ Same(s, t) /\ t.sent = s.sent

\* The step of a connection, with what it sends.
Goes(n, t, out) ==
    Talks(n, t) /\ \A m \in out : HasRst(m) \/ NewOK(t, m)

Moves(n, t, out) ==
    \/ Rests(n, t)
    \/ Calls(n, t, out)
    \/ \E m \in net : Accepts(n, m, t, out)
    \/ Waits(n, t)
    \/ \E m \in net : Joins(n, m, t, out) /\ m.ctl = {"SYN", "ACK"}
    \/ Goes(n, t, out)

LEMMA ReceivedMoves ==
  ASSUME SInv, SynInv, ServersListen, NEW n \in Node, NEW t \in Socket_, NEW out,
         sock[n].state \in DevStates(n), Young(n, sock[n]),
         n \notin Hosts => sock[n].remoteIP = Server[n],
         Received(n, t, out)
  PROVE  Moves(n, t, out)
<1> DEFINE s == sock[n]
<1>1. s \in Socket_ /\ s.sent >= s.start
  BY InSInv, OfInv DEF Young
<1>2. PICK m \in net :
         \/ Accepts(n, m, t, out) \/ Joins(n, m, t, out) \/ Acked(n, m, t, out)
         \/ TakesAck(n, m, t, out) \/ TakesFin(n, m, t, out)
         \/ \E u, said : TakesData(n, m, u, said, t, out)
  BY DEF Received
<1>3. CASE Accepts(n, m, t, out)
  BY <1>3 DEF Moves
<1>4. CASE Joins(n, m, t, out)
  <2>1. n \notin Hosts /\ m.src = Server[n] /\ Server[n] \in Hosts
    <3>1. n \notin Hosts
      BY <1>4, StateValues DEF Joins, DevStates, LiveStates
    <3>2. QED
      BY <1>4, <3>1 DEF Joins, FromPeer, ServersListen
  <2>2. ~PureSyn(m)
    BY <2>1 DEF SynInv
  <2>3. m.ctl = {"SYN", "ACK"}
    BY <1>4, <2>2 DEF Joins
  <2>4. QED
    BY <1>4, <2>3 DEF Moves
<1>5. CASE Acked(n, m, t, out)
  <2>1. /\ Same(s, t) /\ t.sent = s.sent /\ t.state = AckState(n, s.state)
        /\ out = {}
    BY <1>5 DEF Acked
  <2>2. CASE s.state = LISTEN
    <3>1. n \in Hosts /\ t.state = LISTEN
      BY <2>1, <2>2, StateValues DEF DevStates, LiveStates, AckState
    <3>2. QED
      BY <2>1, <3>1 DEF Moves, Rests, Same
  <2>3. CASE s.state = SYN_SENT
    <3>1. t.state = SYN_SENT
      BY <2>1, <2>3, StateValues DEF AckState
    <3>2. QED
      BY <2>1, <2>3, <3>1 DEF Moves, Waits
  <2>4. CASE s.state \notin {LISTEN, SYN_SENT}
    <3>1. s.state # CLOSED
      BY <1>5, <2>4 DEF Acked, FromPeer, Handshaken
    <3>2. s.state \in LiveStates
      BY <2>4, <3>1, StateValues DEF DevStates, LiveStates
    <3>3. Talks(n, t)
      BY <1>1, <1>5, <3>2, AckedTalks
    <3>4. QED
      BY <2>1, <3>3 DEF Moves, Goes
  <2>5. QED
    BY <2>2, <2>3, <2>4
<1>6. CASE TakesAck(n, m, t, out)
  <2>1. s.state \in LiveStates /\ out = {}
    BY <1>6, StateValues DEF TakesAck, InBlockOrder, DevStates, LiveStates
  <2>2. Talks(n, t)
    BY <1>1, <1>6, <2>1, TakesAckTalks
  <2>3. QED
    BY <2>1, <2>2 DEF Moves, Goes
<1>7. CASE TakesFin(n, m, t, out)
  <2>1. s.state \in LiveStates /\ t.localSeq = s.localSeq /\ t.sent = s.sent /\ t.start = s.start
    BY <1>7, StateValues DEF TakesFin, InBlockOrder, DevStates, LiveStates
  <2>2. Talks(n, t)
    BY <1>1, <1>7, <2>1, TakesFinTalks
  <2>3. t.sent >= t.start
    BY <1>1, <2>1
  <2>4. ASSUME NEW k \in out
        PROVE  NewOK(t, k)
    <3>1. Carries(n, t, k, {"ACK"}, t.localSeq, t.remoteSeq, NoData)
      BY <1>7, <2>1 DEF TakesFin
    <3>2. QED
      BY <2>3, <3>1, AckNew
  <2>5. QED
    BY <2>2, <2>4 DEF Moves, Goes
<1>8. ASSUME NEW u, NEW said, TakesData(n, m, u, said, t, out)
      PROVE  Moves(n, t, out)
  <2>1. s.state \in LiveStates /\ s.state \in {4, 244}
    BY <1>8, StateValues DEF TakesData, InBlockOrder, DevStates, LiveStates
  <2>2. Talks(n, t)
    <3>1. sock[n] \in Socket_ /\ sock[n].state \in LiveStates
      BY <1>1, <2>1
    <3>2. QED
      BY <1>8, <3>1, TakesDataTalks
  <2>3. t.sent >= t.start
    BY <1>1, <2>2, YoungTalks DEF Young
  <2>4. /\ t.start = u.start /\ t.sent = u.sent /\ t.localSeq = u.localSeq
        /\ t.state = Flag(s, m, u.state) /\ u \in Socket_
        /\ Speaks(n, s, u, said)
    BY <1>8 DEF TakesData, Speaks
  <2>5. ASSUME NEW k \in said
        PROVE  NewOK(t, k)
    <3>1. CASE Quiet(s, u) /\ u.state = s.state /\ said = {}
      BY <3>1
    <3>2. CASE Sends(n, s, u, said) \/ Closes(n, s, u, said) \/ SaysBoth(n, s, u, said)
      <4>1. u.state = 5 \/ (u.state = 244 /\ s.state = 4)
        BY <1>1, <2>1, <2>4, <3>2, SendsSender, ClosesSender, BothSender
      <4>2. t.state = u.state
        BY <2>4, <4>1 DEF Flag, Cleared
      <4>3. QED
        BY <1>1, <2>1, <2>4, <3>2, <4>2, SaidNew
    <3>3. QED
      BY <2>4, <3>1, <3>2 DEF Speaks
  <2>6. ASSUME NEW k \in out
        PROVE  NewOK(t, k)
    <3>1. CASE Carries(n, t, k, {"ACK"}, t.localSeq, t.remoteSeq, NoData)
      BY <2>3, <3>1, AckNew
    <3>2. QED
      BY <1>8, <2>5, <3>1 DEF TakesData
  <2>7. QED
    BY <2>2, <2>6 DEF Moves, Goes
<1>9. QED
  BY <1>2, <1>3, <1>4, <1>5, <1>6, <1>7, <1>8

LEMMA MoveKind ==
  ASSUME SInv, SynInv, ServersListen, NEW n \in Node, NEW t \in Socket_, NEW out,
         sock[n].state \in DevStates(n), Young(n, sock[n]),
         n \notin Hosts => sock[n].remoteIP = Server[n],
         Kind(n, t, out)
  PROVE  Moves(n, t, out)
<1> DEFINE s == sock[n]
<1>1. s \in Socket_ /\ s.sent >= s.start
  BY InSInv, OfInv DEF Young
<1>2. CASE Leaves(n, t, out)
  BY <1>2 DEF Leaves, Same, Moves, Rests, isHost
<1>3. CASE Answers(n, t, out)
  <2>1. Quiet(s, t) /\ t.state = s.state
    BY <1>3 DEF Answers
  <2>2. CASE s.state \in {LISTEN, CLOSED}
    <3>1. s.state = IF n \in Hosts THEN LISTEN ELSE CLOSED
      BY <2>2, StateValues DEF DevStates, LiveStates
    <3>2. QED
      BY <2>1, <3>1 DEF Moves, Rests, Quiet, Same
  <2>3. CASE s.state = SYN_SENT
    BY <2>1, <2>3 DEF Moves, Waits, Quiet
  <2>4. CASE s.state \notin {LISTEN, CLOSED, SYN_SENT}
    <3>1. s.state \in LiveStates
      BY <2>4, StateValues DEF DevStates, LiveStates
    <3>2. Talks(n, t)
      BY <1>1, <2>1, <3>1, QuietTalks
    <3>3. t.sent >= t.start /\ t.localSeq = s.localSeq
      BY <1>1, <2>1 DEF Quiet, Same
    <3>4. ASSUME NEW k \in out, ~HasRst(k)
          PROVE  NewOK(t, k)
      <4>1. Carries(n, s, k, {"ACK"}, t.localSeq, s.remoteSeq, NoData)
        BY <1>3, <3>3, <3>4 DEF Answers
      <4>2. QED
        BY <3>3, <4>1, AckNew
    <3>5. QED
      BY <3>2, <3>4 DEF Moves, Goes
  <2>5. QED
    BY <2>2, <2>3, <2>4
<1>4. ~Looks(n, t, out)
  BY DEF Looks, ServersListen
<1>5. CASE Calls(n, t, out)
  BY <1>5 DEF Moves
<1>6. CASE Repeats(n, t, out)
  <2>1. Quiet(s, t) /\ t.state = s.state
    BY <1>6 DEF Repeats
  <2>2. CASE s.state \in {LISTEN, CLOSED}
    <3>1. s.state = IF n \in Hosts THEN LISTEN ELSE CLOSED
      BY <2>2, StateValues DEF DevStates, LiveStates
    <3>2. QED
      BY <2>1, <3>1 DEF Moves, Rests, Quiet, Same
  <2>3. CASE s.state = SYN_SENT
    BY <2>1, <2>3 DEF Moves, Waits, Quiet
  <2>4. CASE s.state \notin {LISTEN, CLOSED, SYN_SENT}
    <3>1. s.state \in LiveStates
      BY <2>4, StateValues DEF DevStates, LiveStates
    <3>2. Talks(n, t)
      BY <1>1, <2>1, <3>1, QuietTalks
    <3>3. \A k \in out : NewOK(t, k)
      BY <1>1, <1>6, <3>1, RepeatsNew
    <3>4. QED
      BY <3>2, <3>3 DEF Moves, Goes
  <2>5. QED
    BY <2>2, <2>3, <2>4
<1>7. CASE Sends(n, s, t, out)
  <2>1. s.state \in LiveStates
    BY <1>7, StateValues DEF Sends, DevStates, LiveStates
  <2>2. Talks(n, t)
    BY <1>1, <1>7, <2>1, SendsTalks
  <2>3. \A k \in out : NewOK(t, k)
    BY <1>1, <1>7, <2>1, SaidNew
  <2>4. QED
    BY <2>2, <2>3 DEF Moves, Goes
<1>8. CASE Closes(n, s, t, out)
  <2>1. CASE s.state = SYN_SENT
    <3>1. t.state = SYN_SENT
      BY <1>8, <2>1, StateValues DEF Closes, ClosedState
    <3>2. QED
      BY <1>8, <2>1, <3>1 DEF Closes, Counts, Moves, Waits
  <2>2. CASE s.state # SYN_SENT
    <3>1. s.state \in LiveStates
      BY <1>8, <2>2, StateValues DEF Closes, localClosed, DevStates, LiveStates
    <3>2. Talks(n, t)
      BY <1>1, <1>8, <3>1, SendsTalks
    <3>3. \A k \in out : NewOK(t, k)
      BY <1>1, <1>8, <3>1, SaidNew
    <3>4. QED
      BY <3>2, <3>3 DEF Moves, Goes
  <2>3. QED
    BY <2>1, <2>2
<1>9. CASE Received(n, t, out)
  BY <1>9, ReceivedMoves
<1>10. QED
  BY <1>2, <1>3, <1>4, <1>5, <1>6, <1>7, <1>8, <1>9 DEF Kind

\* The fields of a socket after each kind of step.
LEMMA FieldsMove ==
  ASSUME SInv, SynInv, NEW n \in Node, NEW t \in Socket_, NEW out,
         sock[n].state \in DevStates(n), Young(n, sock[n]),
         n \in Hosts => sock[n].remoteIP \notin Hosts,
         Moves(n, t, out)
  PROVE  /\ t.state \in DevStates(n) /\ Young(n, t)
         /\ n \in Hosts => t.remoteIP \notin Hosts
<1> DEFINE s == sock[n]
<1>1. s \in Socket_ /\ s.sent >= s.start
  BY InSInv, OfInv DEF Young
<1>2. s.sent \in Nat
  BY <1>1, SockNumbers
<1>3. CASE Rests(n, t)
  BY <1>1, <1>3, StateValues DEF Rests, DevStates, LiveStates, Young
<1>4. CASE Calls(n, t, out)
  <2>1. /\ n \notin Hosts /\ t.state = 2 /\ t.sent = s.sent /\ t.start = s.sent /\ t.got = <<>>
    BY <1>4, StateValues DEF Calls
  <2>2. QED
    BY <1>2, <2>1 DEF DevStates, LiveStates, Young
<1>5. CASE \E m \in net : Accepts(n, m, t, out)
  <2>1. PICK m \in net : Accepts(n, m, t, out)
    BY <1>5
  <2>2. /\ n \in Hosts /\ t.state = 3 /\ t.sent = s.sent /\ t.start = s.sent /\ t.got = <<>>
        /\ t.opened = FALSE /\ PureSyn(m) /\ t.remoteIP = m.src
    BY <2>1, StateValues DEF Accepts
  <2>3. m.src \notin Hosts
    BY <2>2 DEF SynInv
  <2>4. QED
    BY <1>2, <2>2, <2>3 DEF DevStates, LiveStates, Young
<1>6. CASE Waits(n, t)
  <2>1. /\ n \notin Hosts /\ s.state = 2 /\ t.state = 2 /\ t.sent = s.sent
        /\ t.start = s.start /\ t.got = s.got
    BY <1>6, StateValues DEF Waits, Same, DevStates, LiveStates
  <2>2. QED
    BY <2>1 DEF DevStates, LiveStates, Young
<1>7. CASE \E m \in net : Joins(n, m, t, out) /\ m.ctl = {"SYN", "ACK"}
  <2>1. PICK m \in net : Joins(n, m, t, out) /\ m.ctl = {"SYN", "ACK"}
    BY <1>7
  <2>2. /\ s.state = 2 /\ t.state = 4 /\ t.sent = s.sent /\ t.start = s.start /\ t.opened
    BY <2>1, Flags, StateValues DEF Joins
  <2>3. n \notin Hosts
    BY <2>2 DEF DevStates, LiveStates
  <2>4. QED
    BY <1>1, <2>2, <2>3 DEF DevStates, LiveStates, Young
<1>8. CASE Goes(n, t, out)
  <2>1. Talks(n, t) /\ Young(n, t)
    BY <1>1, <1>8, YoungTalks DEF Goes
  <2>2. s.state \in LiveStates /\ t.state \in LiveStates /\ t.remoteIP = s.remoteIP
    BY <2>1 DEF Talks
  <2>3. ASSUME t.state = 3
        PROVE  n \in Hosts
    <3>1. s.state = 3
      BY <2>1, <2>3 DEF Talks, Opens
    <3>2. QED
      BY <3>1 DEF DevStates, LiveStates
  <2>4. QED
    BY <2>1, <2>2, <2>3 DEF DevStates
<1>9. QED
  BY <1>3, <1>4, <1>5, <1>6, <1>7, <1>8 DEF Moves

\* What is in flight from a live socket: on the host's side the segments of the
\* connections before this one, its SYN|ACK, and then on both sides bytes of the
\* stream, each at its place, and at the end the FIN.
SegOK(n, s, m) ==
    /\ n \in Hosts =>
          /\ ~HasSyn(m) /\ m.seq < Base(s) => m.seq + Extent(m) < Base(s)
          /\ HasSyn(m) => m.seq + 1 <= Base(s)
          /\ HasSyn(m) /\ m.seq + 1 = Base(s) /\ ~s.opened => m.ack = s.remoteSeq
    /\ m.data.len > 0 /\ m.seq >= Base(s) =>
          /\ m.data.first = m.seq - Base(s) + s.start + 1
          /\ m.seq + m.data.len <= s.localSeq - FinSent(s)
    /\ HasFin(m) /\ m.seq >= Base(s) => FinSent(s) = 1 /\ m.seq = s.localSeq - 1

SegInv ==
    \A m \in net : ~HasRst(m) /\ sock[m.src].state \notin {1, 11} =>
        SegOK(m.src, sock[m.src], m)

\* Below the first byte of a connection nothing is said of a client.
LEMMA BelowOK ==
  ASSUME NEW n, n \notin Hosts, NEW t \in Socket_, NEW m \in Outgoing,
         Base(t) = t.localSeq, m.seq + Extent(m) <= t.localSeq
  PROVE  SegOK(n, t, m)
<1>1. /\ m.seq \in Nat /\ Extent(m) \in Nat /\ m.data.len \in Nat /\ Extent(m) >= m.data.len
      /\ HasFin(m) => Extent(m) >= 1
      /\ t.localSeq \in Nat
  BY OutFields, SockNumbers
<1>2. m.data.len > 0 \/ HasFin(m) => m.seq < Base(t)
  BY <1>1
<1>3. Base(t) \in Int
  BY SockNumbers
<1>4. QED
  BY <1>1, <1>2, <1>3 DEF SegOK

LEMMA NewSegOK ==
  ASSUME NEW n, NEW t \in Socket_, NEW m \in Outgoing, Young(n, t), NewOK(t, m)
  PROVE  SegOK(n, t, m)
<1>1. /\ m.seq \in Nat /\ Extent(m) \in Nat /\ m.data.len \in Nat
      /\ t.localSeq \in Nat /\ t.sent \in Nat /\ t.start \in Nat /\ Base(t) \in Int
      /\ FinSent(t) \in {0, 1} /\ t.sent >= t.start
  BY OutFields, SockNumbers DEF Young
<1>2. CASE HasSyn(m) /\ ~HasFin(m) /\ m.data.len = 0
           /\ t.state = 3 /\ m.seq = t.localSeq - 1 /\ m.ack = t.remoteSeq
  <2>1. FinSent(t) = 0 /\ t.sent = t.start
    BY <1>2 DEF FinSent, Young
  <2>2. Base(t) = t.localSeq
    BY <1>1, <2>1 DEF Base
  <2>3. QED
    BY <1>1, <1>2, <2>2 DEF SegOK
<1>3. CASE ~HasSyn(m) /\ HasFin(m) /\ m.data.len = 0 /\ FinSent(t) = 1 /\ m.seq = t.localSeq - 1
  <2>1. m.seq >= Base(t)
    BY <1>1, <1>3 DEF Base
  <2>2. QED
    BY <1>1, <1>3, <2>1 DEF SegOK
<1>4. CASE ~HasSyn(m) /\ ~HasFin(m) /\ m.data.len = 0 /\ m.seq >= Base(t)
  BY <1>1, <1>4 DEF SegOK
<1>5. CASE ~HasSyn(m) /\ ~HasFin(m) /\ m.seq >= Base(t)
           /\ m.data.first = m.seq - Base(t) + t.start + 1
           /\ m.seq + m.data.len = t.localSeq - FinSent(t)
  BY <1>1, <1>5 DEF SegOK
<1>6. QED
  BY <1>2, <1>3, <1>4, <1>5 DEF NewOK

\* A step of a connection leaves the segments at their places.
LEMMA OldSegOK ==
  ASSUME NEW n, sock[n] \in Socket_, NEW t \in Socket_, NEW m \in Outgoing,
         Young(n, sock[n]), Talks(n, t), SegOK(n, sock[n], m)
  PROVE  SegOK(n, t, m)
<1> DEFINE s == sock[n]
<1>1. /\ m.seq \in Nat /\ Extent(m) \in Nat /\ m.data.len \in Nat
      /\ t.localSeq \in Nat /\ t.sent \in Nat /\ t.start \in Nat /\ Base(t) \in Int
      /\ s.localSeq \in Nat /\ s.sent \in Nat /\ s.start \in Nat
      /\ FinSent(t) \in {0, 1} /\ FinSent(s) \in {0, 1}
  BY OutFields, SockNumbers
<1>2. /\ t.start = s.start /\ t.sent >= s.sent /\ Base(t) = Base(s)
      /\ FinSent(s) = 1 => FinSent(t) = 1 /\ t.localSeq = s.localSeq
  BY DEF Talks, Sender
<1>3. t.localSeq - FinSent(t) >= s.localSeq - FinSent(s)
  BY <1>1, <1>2 DEF Base
<1>4. ASSUME n \in Hosts, ~t.opened
      PROVE  ~s.opened /\ t.remoteSeq = s.remoteSeq
  <2>1. ~s.opened /\ s.state # 1
    BY <1>4 DEF Talks, Opens, LiveStates
  <2>2. s.state \in {3, 5}
    BY <1>4, <2>1 DEF Young
  <2>3. QED
    BY <1>4, <2>1, <2>2 DEF Talks, Opens
<1>5. QED
  BY <1>1, <1>2, <1>3, <1>4 DEF SegOK

\* A step of one device, with all that is known of it.
LEMMA OneMoves ==
  ASSUME HInv, ServersListen, Fields, NEW n, NEW t, NEW out,
         Becomes(n, t, out), Kind(n, t, out)
  PROVE  /\ n \in Node /\ t \in Socket_ /\ sock'[n] = t
         /\ \A k \in Node : k # n => sock'[k] = sock[k]
         /\ net' \subseteq net \cup out
         /\ \A m \in out : m.src = n /\ m \in Outgoing /\ OutOK(n, sock[n], t, m)
         /\ \A k \in Node : sock[k] \in Socket_ /\ sock'[k] \in Socket_
         /\ \A k \in Node \ Hosts : sock[k].remoteIP = Server[k]
         /\ \A m \in net : m \in Outgoing /\ m.src \in Node /\ m.dst \in Node
         /\ t.localSeq \in Nat /\ t.localSeq >= sock[n].localSeq
         /\ Moves(n, t, out)
<1>1. SInv /\ SynInv /\ BInv
  BY DEF HInv, BInv
<1>2. /\ n \in Node /\ t \in Socket_ /\ sock'[n] = t
      /\ \A k \in Node : k # n => sock'[k] = sock[k]
      /\ net' \subseteq net \cup out
  BY <1>1, BecomesThen
<1>3. \A m \in out : m.src = n /\ m \in Outgoing
  BY DEF Becomes
<1>4. /\ \A m \in out : OutOK(n, sock[n], t, m)
      /\ t.localSeq >= sock[n].localSeq
  BY <1>1, OutKind
<1>5. \A k \in Node : sock[k] \in Socket_
  BY <1>1, BInvTypes
<1>6. \A m \in net : m \in Outgoing /\ m.src \in Node /\ m.dst \in Node
  BY <1>1, BInvTypes
<1>7. \A k \in Node \ Hosts : sock[k].remoteIP = Server[k]
  BY <1>1 DEF BInv, RemoteBound, ServersListen
<1>8. sock[n].state \in DevStates(n) /\ Young(n, sock[n])
  BY <1>2 DEF Fields
<1>9. Moves(n, t, out)
  BY <1>1, <1>2, <1>7, <1>8, MoveKind
<1>10. t.localSeq \in Nat
  BY <1>2, SockNumbers
<1>11. \A k \in Node : sock'[k] \in Socket_
  BY <1>2, <1>5
<1>12. QED
  BY <1>2, <1>3, <1>4, <1>5, <1>6, <1>7, <1>9, <1>10, <1>11

LEMMA FieldsNext ==
  ASSUME HInv, ServersListen, Fields, NEW n, NEW t, NEW out,
         Becomes(n, t, out), Kind(n, t, out)
  PROVE  Fields'
<1>1. /\ n \in Node /\ t \in Socket_ /\ sock'[n] = t
      /\ \A k \in Node : k # n => sock'[k] = sock[k]
      /\ Moves(n, t, out)
  BY OneMoves
<1>2. SInv /\ SynInv
  BY DEF HInv, BInv
<1>3. /\ sock[n].state \in DevStates(n) /\ Young(n, sock[n])
      /\ n \in Hosts => sock[n].remoteIP \notin Hosts
  BY <1>1 DEF Fields
<1>4. /\ t.state \in DevStates(n) /\ Young(n, t)
      /\ n \in Hosts => t.remoteIP \notin Hosts
  BY <1>1, <1>2, <1>3, FieldsMove
<1>5. ASSUME NEW k \in Node
      PROVE  /\ sock'[k].state \in DevStates(k) /\ Young(k, sock'[k])
             /\ k \in Hosts => sock'[k].remoteIP \notin Hosts
  BY <1>1, <1>4 DEF Fields
<1>6. QED
  BY <1>5 DEF Fields, DevStates, Young

LEMMA SegNext ==
  ASSUME HInv, ServersListen, Fields, SegInv, NEW n, NEW t, NEW out,
         Becomes(n, t, out), Kind(n, t, out), NEW m \in net', ~HasRst(m),
         sock'[m.src].state \notin {1, 11}
  PROVE  SegOK(m.src, sock'[m.src], m)
<1> DEFINE s == sock[n]
<1>1. /\ n \in Node /\ t \in Socket_ /\ sock'[n] = t
      /\ \A k \in Node : k # n => sock'[k] = sock[k]
      /\ net' \subseteq net \cup out
      /\ \A k \in out : k.src = n /\ k \in Outgoing /\ OutOK(n, s, t, k)
      /\ \A k \in net : k \in Outgoing /\ k.src \in Node /\ k.dst \in Node
      /\ t.localSeq \in Nat /\ t.localSeq >= s.localSeq
      /\ Moves(n, t, out) /\ s \in Socket_
  BY OneMoves
<1>2. CASE m.src # n
  BY <1>1, <1>2 DEF SegInv
<1>3. CASE m.src = n
  <2>1. SInv /\ SynInv
    BY DEF HInv, BInv
  <2>2. /\ s.state \in DevStates(n) /\ Young(n, s)
        /\ n \in Hosts => s.remoteIP \notin Hosts
    BY <1>1 DEF Fields
  <2>3. Young(n, t) /\ t.state \in DevStates(n)
    BY <1>1, <2>1, <2>2, FieldsMove
  <2>4. m \in Outgoing /\ m.seq \in Nat /\ Extent(m) \in Nat /\ m.data.len \in Nat
    BY <1>1, OutFields
  <2>5. m \in net => m.seq + Extent(m) <= s.localSeq
    BY <1>3 DEF HInv, BInv, SeqBound
  <2>6. m \in out => m.seq + Extent(m) <= t.localSeq
    BY <1>1 DEF OutOK
  <2>7. s.localSeq \in Nat /\ s.sent \in Nat /\ s.start \in Nat
    BY <1>1, SockNumbers
  <2>8. m.seq + Extent(m) <= t.localSeq
    BY <1>1, <2>4, <2>5, <2>6, <2>7
  <2>9. CASE n \notin Hosts /\ t.sent = t.start /\ FinSent(t) = 0
    <3>1. t.sent \in Nat /\ t.start \in Nat
      BY <1>1, SockNumbers
    <3>2. Base(t) = t.localSeq
      BY <1>1, <2>9, <3>1 DEF Base
    <3>3. QED
      BY <1>1, <1>3, <2>4, <2>8, <2>9, <3>2, BelowOK
  <2>10. CASE Rests(n, t)
    BY <1>1, <1>3, <2>10, StateValues DEF Rests
  <2>11. CASE Calls(n, t, out)
    <3>1. n \notin Hosts /\ t.sent = t.start /\ t.state = 2
      BY <2>11, StateValues DEF Calls
    <3>2. QED
      BY <2>9, <3>1 DEF FinSent
  <2>12. CASE Waits(n, t) \/ \E k \in net : Joins(n, k, t, out) /\ k.ctl = {"SYN", "ACK"}
    <3>1. /\ s.state = 2 /\ t.state \in {2, 4} /\ t.sent = s.sent /\ t.start = s.start
      BY <2>12, Flags, StateValues DEF Waits, Joins, Same
    <3>2. n \notin Hosts /\ t.sent = t.start
      BY <2>2, <3>1 DEF DevStates, LiveStates, Young
    <3>3. QED
      BY <2>9, <3>1, <3>2 DEF FinSent
  <2>13. CASE \E k \in net : Accepts(n, k, t, out)
    <3>1. PICK k \in net : Accepts(n, k, t, out)
      BY <2>13
    <3>2. /\ t.sent = s.sent /\ t.start = s.sent /\ t.state = 3 /\ t.localSeq = s.localSeq + 1
      BY <3>1, StateValues DEF Accepts
    <3>3. Base(t) = t.localSeq /\ FinSent(t) = 0
      BY <1>1, <2>7, <3>2 DEF Base, FinSent
    <3>4. CASE m \in net
      <4>1. m.seq + Extent(m) < Base(t)
        BY <2>4, <2>5, <2>7, <3>2, <3>3, <3>4
      <4>2. Extent(m) >= m.data.len /\ (HasSyn(m) => Extent(m) >= 1)
            /\ (HasFin(m) => Extent(m) >= 1)
        BY <2>4, OutFields
      <4>3. m.seq < Base(t) /\ (HasSyn(m) => m.seq + 1 < Base(t))
        BY <1>1, <2>4, <3>3, <4>1, <4>2
      <4>4. SegOK(n, t, m)
        BY <1>1, <2>4, <3>3, <4>1, <4>3 DEF SegOK
      <4>5. QED
        BY <1>1, <1>3, <4>4
    <3>5. CASE m \in out
      <4>1. Carries(n, t, m, {"SYN", "ACK"}, s.localSeq, t.remoteSeq, NoData)
        BY <3>1, <3>5 DEF Accepts
      <4>2. HasSyn(m) /\ ~HasFin(m) /\ m.data.len = 0 /\ m.seq = s.localSeq
            /\ m.ack = t.remoteSeq
        BY <4>1, Flags, NoDataType DEF Carries
      <4>3. NewOK(t, m)
        BY <2>7, <3>2, <4>2 DEF NewOK
      <4>4. QED
        BY <1>1, <1>3, <2>3, <2>4, <4>3, NewSegOK
    <3>6. QED
      BY <1>1, <3>4, <3>5
  <2>14. CASE Goes(n, t, out)
    <3>1. Talks(n, t) /\ \A k \in out : HasRst(k) \/ NewOK(t, k)
      BY <2>14 DEF Goes
    <3>2. CASE m \in net
      <4>1. s.state \notin {1, 11}
        BY <3>1 DEF Talks, LiveStates
      <4>2. SegOK(n, s, m)
        BY <1>3, <3>2, <4>1 DEF SegInv
      <4>3. SegOK(n, t, m)
        BY <1>1, <2>2, <2>4, <3>1, <4>2, OldSegOK
      <4>4. QED
        BY <1>1, <1>3, <4>3
    <3>3. CASE m \in out
      BY <1>1, <1>3, <2>3, <2>4, <3>1, <3>3, NewSegOK
    <3>4. QED
      BY <1>1, <3>2, <3>3
  <2>15. QED
    BY <1>1, <2>10, <2>11, <2>12, <2>13, <2>14 DEF Moves
<1>4. QED
  BY <1>2, <1>3

\* What the receiver t has of the sender s, sockets of one connection: a prefix of
\* its stream, and the FIN only after all of it.
HalfOK(s, t) ==
    /\ t.remoteSeq = Base(s) + Len(t.got) + FinSeen(t)
    /\ Len(t.got) <= s.sent - s.start
    /\ \A i \in 1 .. Len(t.got) : t.got[i] = s.start + i
    /\ FinSeen(t) = 1 => FinSent(s) = 1 /\ t.remoteSeq = s.localSeq
    /\ s.state \in {4, 6} => t.remoteSeq = s.localSeq
    /\ s.state = 244 => t.remoteSeq \in {s.localSeq, s.localSeq - s.stash.len}

\* The acknowledgements that x would take for those of its peer y.
AcksTo(x, y) ==
    {m \in net : /\ ~HasRst(m) /\ HasAck(m) /\ m.src = y /\ m.dst = x
                 /\ m.sport = sock[x].remotePort /\ m.dport = sock[x].localPort}

\* One send() is in transit at a time: the bytes of the connection in flight from
\* x are those it has sent last, or y has had them.
LastOK(x, y) ==
    \A m \in net :
       m.src = x /\ ~HasRst(m) /\ m.data.len > 0 /\ m.seq >= Base(sock[x]) =>
          \/ m.seq + m.data.len <= sock[y].remoteSeq
          \/ m.seq + m.data.len = sock[x].localSeq - FinSent(sock[x])

Half(x, y) ==
    /\ HalfOK(sock[x], sock[y])
    /\ LastOK(x, y)
    /\ \A m \in AcksTo(x, y) : m.ack <= sock[y].remoteSeq

\* The client a is at an earlier connection of its own with b, and b waits for an
\* answer to its SYN|ACK that will not come; ...
Apart(a, b) ==
    /\ ~sock[b].opened
    /\ sock[a].remoteSeq < Base(sock[b])
    /\ \A m \in AcksOf(a, b) : m.ack < Base(sock[b])

\* ... or both are in the same connection.
Agree(a, b) == sock[a].state # SYN_SENT /\ Half(a, b) /\ Half(b, a)

Pair(a, b) == Tied(a, b) /\ sock[a].state # CLOSED => Apart(a, b) \/ Agree(a, b)

ConnInv == \A a, b \in Node : Pair(a, b)

CInv == HInv /\ FlagsAlone /\ ServersListen /\ Fields /\ SegInv /\ ConnInv

\* A step of the sender.
LEMMA SenderHalf ==
  ASSUME NEW s \in Socket_, NEW t \in Socket_, NEW r \in Socket_, NEW n, s = sock[n],
         HalfOK(s, r), Sender(n, s, t), r.remoteSeq <= s.localSeq,
         AckedAll(n) => s.localSeq <= r.remoteSeq
  PROVE  HalfOK(t, r)
<1>1. /\ s.localSeq \in Nat /\ s.sent \in Nat /\ s.start \in Nat /\ r.remoteSeq \in Nat
      /\ t.localSeq \in Nat /\ t.sent \in Nat /\ t.start \in Nat /\ t.stash.len \in Nat
      /\ Len(r.got) \in Nat
  BY SockNumbers
<1>2. /\ t.start = s.start /\ t.sent >= s.sent /\ Base(t) = Base(s)
      /\ FinSent(s) = 1 => FinSent(t) = 1 /\ t.localSeq = s.localSeq
  BY DEF Sender
<1>3. /\ r.remoteSeq = Base(t) + Len(r.got) + FinSeen(r)
      /\ Len(r.got) <= t.sent - t.start
      /\ \A i \in 1 .. Len(r.got) : r.got[i] = t.start + i
      /\ FinSeen(r) = 1 => FinSent(t) = 1 /\ r.remoteSeq = t.localSeq
  BY <1>1, <1>2 DEF HalfOK
<1>4. ASSUME t.state \in {4, 6}
      PROVE  r.remoteSeq = t.localSeq
  <2>1. t.localSeq = s.localSeq /\ (t.state = s.state \/ AckedAll(n))
    BY <1>4 DEF Sender
  <2>2. CASE t.state = s.state
    BY <1>4, <2>1, <2>2 DEF HalfOK
  <2>3. CASE AckedAll(n)
    BY <1>1, <2>1, <2>3
  <2>4. QED
    BY <2>1, <2>2, <2>3
<1>5. ASSUME t.state = 244
      PROVE  r.remoteSeq \in {t.localSeq, t.localSeq - t.stash.len}
  <2>1. CASE s.state = 244 /\ t.localSeq = s.localSeq /\ t.stash = s.stash
    BY <2>1 DEF HalfOK
  <2>2. CASE s.state = 4 /\ t.localSeq = s.localSeq + t.stash.len
    <3>1. r.remoteSeq = s.localSeq
      BY <2>2 DEF HalfOK
    <3>2. r.remoteSeq = t.localSeq - t.stash.len
      BY <1>1, <2>2, <3>1
    <3>3. QED
      BY <3>2
  <2>3. QED
    BY <1>5, <2>1, <2>2 DEF Sender
<1>6. QED
  BY <1>3, <1>4, <1>5 DEF HalfOK

\* The bytes of two sequences put together.
LEMMA Appended ==
  ASSUME NEW a \in Seq(Nat), NEW b \in Seq(Nat), NEW g, g = a \o b
  PROVE  /\ Len(g) = Len(a) + Len(b)
         /\ \A i \in 1 .. Len(a) + Len(b) : g[i] = IF i <= Len(a) THEN a[i] ELSE b[i - Len(a)]
<1>1. /\ Len(a \o b) = Len(a) + Len(b)
      /\ \A i \in 1 .. Len(a) + Len(b) :
            (a \o b)[i] = IF i <= Len(a) THEN a[i] ELSE b[i - Len(a)]
  BY ConcatProperties
<1>2. QED
  BY <1>1, Zenon

LEMMA BytesOf ==
  ASSUME NEW d \in Data
  PROVE  /\ Bytes(d) \in Seq(Nat) /\ Len(Bytes(d)) = d.len /\ d.len \in Nat /\ d.first \in Nat
         /\ \A i \in 1 .. d.len : Bytes(d)[i] = d.first + i - 1
<1>1. Bytes(d) \in Seq(Nat)
  BY BytesType
<1>2. d.len \in Nat /\ d.first \in Nat
  BY DEF Data
<1>3. DOMAIN Bytes(d) = 1 .. d.len
  BY DEF Bytes
<1>4. Len(Bytes(d)) = d.len
  BY <1>1, <1>2, <1>3, LenProperties
<1>5. \A i \in 1 .. d.len : Bytes(d)[i] = d.first + i - 1
  BY DEF Bytes
<1>6. QED
  BY <1>1, <1>2, <1>4, <1>5

\* Bytes that go on where the others end.
LEMMA GoesOn ==
  ASSUME NEW g \in Seq(Nat), NEW h \in Seq(Nat), NEW d \in Data, h = g \o Bytes(d),
         NEW start \in Nat, d.first = start + Len(g) + 1,
         \A i \in 1 .. Len(g) : g[i] = start + i
  PROVE  /\ Len(h) = Len(g) + d.len
         /\ \A i \in 1 .. Len(h) : h[i] = start + i
<1> DEFINE b == Bytes(d)
           k == Len(g)
           l == d.len
           f == d.first
<1>1. /\ b \in Seq(Nat) /\ Len(b) = l /\ l \in Nat
      /\ \A i \in 1 .. l : b[i] = f + i - 1
  BY BytesOf
<1>2. k \in Nat
  OBVIOUS
<1>3. /\ Len(h) = k + Len(b)
      /\ \A i \in 1 .. k + Len(b) : h[i] = IF i <= k THEN g[i] ELSE b[i - k]
  <2>1. g \in Seq(Nat) /\ b \in Seq(Nat) /\ h = g \o b
    BY <1>1, Zenon
  <2> HIDE DEF b
  <2>2. QED
    BY <2>1, Appended, ZenonT(40)
<1>4. f = start + k + 1 /\ \A i \in 1 .. k : g[i] = start + i
  OBVIOUS
<1> HIDE DEF b, k, l, f
<1>5. Len(h) = k + l
  BY <1>1, <1>3
<1>6. ASSUME NEW i \in 1 .. Len(h)
      PROVE  h[i] = start + i
  <2>1. i \in 1 .. k + l /\ h[i] = IF i <= k THEN g[i] ELSE b[i - k]
    BY <1>1, <1>3, <1>5
  <2>2. CASE i <= k
    <3>1. i \in 1 .. k
      BY <1>1, <1>2, <2>1, <2>2
    <3>2. QED
      BY <1>4, <2>1, <2>2, <3>1
  <2>3. CASE ~(i <= k)
    <3>1. i - k \in 1 .. l
      BY <1>1, <1>2, <2>1, <2>3
    <3>2. h[i] = f + (i - k) - 1
      BY <1>1, <2>1, <2>3, <3>1
    <3>3. i \in Int /\ f = start + k + 1
      BY <1>1, <1>2, <1>4, <2>1
    <3>4. f + (i - k) - 1 = start + i
      BY <1>2, <3>3
    <3>5. QED
      BY <3>2, <3>4
  <2>4. QED
    BY <2>2, <2>3
<1>7. QED
  BY <1>5, <1>6 DEF k, l

\* A step of the receiver.
LEMMA ReceiverHalf ==
  ASSUME NEW n, NEW x, NEW t \in Socket_, sock[n] \in Socket_, sock[x] \in Socket_,
         HalfOK(sock[x], sock[n]), Receiver(n, sock[n], t),
         \A m \in net : InBlockOrder(n, m) =>
            /\ m \in Outgoing /\ SegOK(x, sock[x], m)
            /\ sock[x].state = 244 /\ m.data.len > 0
                  /\ m.seq = sock[x].localSeq - sock[x].stash.len => m.data = sock[x].stash
  PROVE  HalfOK(sock[x], t) /\ t.remoteSeq >= sock[n].remoteSeq
<1> DEFINE s == sock[x]
           r == sock[n]
<1>1. /\ s.localSeq \in Nat /\ s.sent \in Nat /\ s.start \in Nat /\ r.remoteSeq \in Nat
      /\ s.stash.len \in Nat /\ Len(r.got) \in Nat /\ r.got \in Seq(Nat)
      /\ FinSent(s) \in {0, 1} /\ Base(s) \in Int
  BY SockNumbers
<1>2. CASE t.remoteSeq = r.remoteSeq /\ t.got = r.got /\ FinSeen(t) = FinSeen(r)
  <2>1. HalfOK(s, t)
    <3> HIDE DEF s
    <3>1. HalfOK(s, r)
      BY DEF s
    <3> HIDE DEF r
    <3>2. QED
      BY <1>2, <3>1, Zenon DEF HalfOK
  <2>2. t.remoteSeq >= r.remoteSeq
    BY <1>1, <1>2
  <2>3. QED
    BY <2>1, <2>2
<1>3. ASSUME NEW m \in net, InBlockOrder(n, m)
      PROVE  /\ m.seq = r.remoteSeq /\ FinSeen(r) = 0
             /\ m.seq = Base(s) + Len(r.got) /\ m.seq >= Base(s)
             /\ m \in Outgoing /\ SegOK(x, s, m) /\ m.seq \in Nat
  <2>1. r.state \in {4, 20, 244} /\ m.seq = r.remoteSeq
    BY <1>3 DEF InBlockOrder
  <2>2. FinSeen(r) = 0
    BY <2>1 DEF FinSeen
  <2>3. m.seq = Base(s) + Len(r.got)
    BY <1>1, <2>1, <2>2 DEF HalfOK
  <2>4. QED
    BY <1>1, <1>3, <2>1, <2>2, <2>3
<1>4. ASSUME NEW m \in net, InBlockOrder(n, m), HasFin(m),
             t.remoteSeq = m.seq + 1, t.got = r.got, FinSeen(t) = 1
      PROVE  HalfOK(s, t) /\ t.remoteSeq >= r.remoteSeq
  <2>1. FinSent(s) = 1 /\ m.seq = s.localSeq - 1
    BY <1>3, <1>4 DEF SegOK
  <2>2. s.state \in {5, 6, 9}
    BY <2>1 DEF FinSent
  <2>3. t.remoteSeq = s.localSeq /\ t.remoteSeq >= r.remoteSeq
        /\ t.remoteSeq = Base(s) + Len(t.got) + FinSeen(t)
    BY <1>1, <1>3, <1>4, <2>1
  <2>4. QED
    BY <1>4, <2>1, <2>2, <2>3 DEF HalfOK
<1>5. ASSUME NEW m \in net, InBlockOrder(n, m), m.data.len > 0,
             t.remoteSeq = m.seq + m.data.len, t.got = r.got \o Bytes(m.data), FinSeen(t) = 0
      PROVE  HalfOK(s, t) /\ t.remoteSeq >= r.remoteSeq
  <2> DEFINE d == m.data
             l == d.len
             q == m.seq
             k == Len(r.got)
             j == Len(t.got)
             base == Base(s)
             fin == FinSent(s)
             up == s.stash.len
  <2>1. /\ q = r.remoteSeq /\ q = base + k /\ q \in Nat
        /\ d.first = q - base + s.start + 1
        /\ q + l <= s.localSeq - fin
    BY <1>3, <1>5 DEF SegOK
  <2>2. d \in Data /\ l \in Nat /\ d.first \in Nat /\ l > 0
    BY <1>3, <1>5, OutFields
  <2>3. t.remoteSeq = q + l /\ FinSeen(t) = 0 /\ t.got = r.got \o Bytes(d)
    BY <1>5, Zenon
  <2>4. s.state = 244 /\ q = s.localSeq - up => l = up
    BY <1>5
  <2>5. base + (s.sent - s.start) = s.localSeq - fin
    BY <1>1 DEF Base
  <2>6. /\ base \in Int /\ fin \in {0, 1} /\ k \in Nat /\ up \in Nat
        /\ s.localSeq \in Nat /\ s.sent \in Nat /\ s.start \in Nat
    BY <1>1
  <2>7. t.got \in Seq(Nat)
    BY SockNumbers
  <2>8. /\ \A i \in 1 .. k : r.got[i] = s.start + i
        /\ s.state \in {4, 6} => q = s.localSeq
        /\ s.state = 244 => q = s.localSeq \/ q = s.localSeq - up
    BY <2>1 DEF HalfOK
  <2> HIDE DEF q, base, fin, up
  <2>9. d.first = s.start + k + 1
    BY <2>1, <2>6
  <2>10. j = k + l /\ \A i \in 1 .. j : t.got[i] = s.start + i
    <3>1. r.got \in Seq(Nat)
      BY <1>1
    <3>2. t.got = r.got \o Bytes(d) /\ d \in Data /\ s.start \in Nat
      BY <2>2, <2>3, <2>6, Zenon
    <3>3. d.first = s.start + Len(r.got) + 1 /\ \A i \in 1 .. Len(r.got) : r.got[i] = s.start + i
      BY <2>8, <2>9, Zenon
    <3>4. /\ Len(t.got) = Len(r.got) + d.len
          /\ \A i \in 1 .. Len(t.got) : t.got[i] = s.start + i
      BY <2>7, <3>1, <3>2, <3>3, GoesOn, Zenon
    <3>5. QED
      BY <3>4, Zenon
  <2> HIDE DEF k, j, l, d
  <2>11. /\ t.remoteSeq = base + j + FinSeen(t)
         /\ j <= s.sent - s.start
         /\ t.remoteSeq >= q
    <3>1. t.remoteSeq = q + l /\ FinSeen(t) = 0
      BY <2>3, Zenon
    <3>2. j = k + l
      BY <2>10, Zenon
    <3>3. QED
      BY <2>1, <2>2, <2>5, <2>6, <3>1, <3>2
  <2>12. q # s.localSeq
    BY <2>1, <2>2, <2>6
  <2>13. ASSUME s.state = 244
         PROVE  t.remoteSeq = s.localSeq
    <3>1. q = s.localSeq - up /\ l = up
      BY <2>4, <2>8, <2>12, <2>13
    <3>2. t.remoteSeq = q + l
      BY <2>3, Zenon
    <3>3. QED
      BY <2>1, <2>6, <3>1, <3>2
  <2>14. s.state \notin {4, 6}
    BY <2>8, <2>12
  <2>15. HalfOK(s, t)
    <3>1. FinSeen(t) # 1
      BY <2>3
    <3>2. QED
      BY <2>10, <2>11, <2>13, <2>14, <3>1 DEF HalfOK, base, j
  <2>16. QED
    BY <2>1, <2>11, <2>15
<1>6. QED
  BY <1>2, <1>4, <1>5 DEF Receiver

\* The two ends of a connection know each other.
LEMMA TiedFacts ==
  ASSUME HInv, ServersListen, Fields, NEW a \in Node, NEW b \in Node, Tied(a, b),
         sock[a].state # CLOSED
  PROVE  /\ a # b /\ a \notin Hosts /\ b \in Hosts
         /\ sock[a].remoteIP = b /\ sock[b].remoteIP = a
         /\ sock[b].remotePort = sock[a].localPort
         /\ sock[a].state \notin {1, 11} /\ sock[b].state \notin {1, 11}
         /\ sock[a].remoteSeq <= sock[b].localSeq /\ sock[b].remoteSeq <= sock[a].localSeq
<1>1. /\ b \in Hosts /\ a \notin Hosts /\ sock[b].remoteIP = a /\ sock[b].state # 1
      /\ sock[b].remotePort = sock[a].localPort
  BY StateValues DEF Tied, Holds
<1>2. b = Server[a]
  BY <1>1 DEF HInv, PortInv, Holds
<1>3. sock[a].remoteIP = b
  BY <1>1, <1>2 DEF HInv, BInv, RemoteBound, ServersListen
<1>4. sock[a].remoteSeq <= sock[b].localSeq /\ sock[b].remoteSeq <= sock[a].localSeq
  BY <1>1, <1>3 DEF HInv, BInv, RemoteBound
<1>5. sock[a].state \notin {1, 11} /\ sock[b].state \notin {1, 11}
  BY <1>1, StateValues DEF Fields, DevStates, LiveStates
<1>6. QED
  BY <1>1, <1>3, <1>4, <1>5

\* A segment in flight when its sender moves: send() is called only when
\* everything before has been taken.
LEMMA LastMoves ==
  ASSUME NEW x, NEW y, sock[x] \in Socket_, sock[y] \in Socket_, NEW t \in Socket_,
         HalfOK(sock[x], sock[y]), LastOK(x, y), Sender(x, sock[x], t),
         NEW m \in net, m \in Outgoing, m.src = x, ~HasRst(m), m.data.len > 0,
         m.seq >= Base(t), SegOK(x, sock[x], m)
  PROVE  \/ m.seq + m.data.len <= sock[y].remoteSeq
         \/ m.seq + m.data.len = t.localSeq - FinSent(t)
<1> DEFINE s == sock[x]
           r == sock[y]
<1>1. /\ m.seq \in Nat /\ m.data.len \in Nat /\ r.remoteSeq \in Nat
      /\ t.localSeq \in Nat /\ t.sent \in Nat /\ t.start \in Nat /\ FinSent(t) \in {0, 1}
      /\ s.localSeq \in Nat /\ s.sent \in Nat /\ s.start \in Nat /\ FinSent(s) \in {0, 1}
  BY OutFields, SockNumbers
<1>2. Base(t) = Base(s) /\ t.start = s.start /\ (t.sent = s.sent \/ s.state = 4)
  BY DEF Sender
<1>3. \/ m.seq + m.data.len <= r.remoteSeq
      \/ m.seq + m.data.len = s.localSeq - FinSent(s)
  BY <1>2 DEF LastOK
<1>4. CASE t.sent = s.sent
  <2>1. t.localSeq - FinSent(t) = s.localSeq - FinSent(s)
    BY <1>1, <1>2, <1>4 DEF Base
  <2>2. QED
    BY <1>3, <2>1
<1>5. CASE s.state = 4
  <2>1. r.remoteSeq = s.localSeq
    BY <1>5 DEF HalfOK
  <2>2. m.seq + m.data.len <= s.localSeq - FinSent(s)
    BY <1>2 DEF SegOK
  <2>3. QED
    BY <1>1, <2>1, <2>2
<1>6. QED
  BY <1>2, <1>4, <1>5

\* A step of x, one of the two ends x and y of a connection.
LEMMA HalvesMove ==
  ASSUME HInv, ServersListen, Fields, SegInv, NEW x \in Node, NEW y \in Node, x # y,
         sock[x].remoteIP = y, sock[y].state \notin {1, 11},
         sock[y].remoteSeq <= sock[x].localSeq,
         NEW t, NEW out, Becomes(x, t, out), Kind(x, t, out), Goes(x, t, out),
         Half(x, y), Half(y, x)
  PROVE  Half(x, y)' /\ Half(y, x)'
<1> DEFINE s == sock[x]
           r == sock[y]
<1>1. /\ t \in Socket_ /\ sock'[x] = t /\ sock'[y] = r
      /\ net' \subseteq net \cup out
      /\ \A m \in out : m.src = x /\ OutOK(x, s, t, m)
      /\ \A m \in net : m \in Outgoing
      /\ s \in Socket_ /\ r \in Socket_
  BY OneMoves
<1>2. /\ t.localPort = s.localPort /\ t.remotePort = s.remotePort /\ t.remoteIP = s.remoteIP
      /\ Sender(x, s, t) /\ Receiver(x, s, t) /\ s.state \in LiveStates
      /\ \A m \in out : HasRst(m) \/ NewOK(t, m)
  BY DEF Goes, Talks
<1>3. s.remoteSeq \in Nat /\ r.remoteSeq \in Nat /\ s.localSeq \in Nat /\ t.remoteSeq \in Nat
  BY <1>1, SockNumbers
<1>4. AckedAll(x) => s.localSeq <= r.remoteSeq
  <2> SUFFICES ASSUME NEW m \in net, FromPeer(x, m), ~HasRst(m), HasAck(m),
                      m.ack = s.localSeq
               PROVE  s.localSeq <= r.remoteSeq
    BY DEF AckedAll
  <2>1. m \in AcksTo(x, y)
    BY DEF FromPeer, AcksTo
  <2>2. QED
    BY <2>1 DEF Half
<1>5. HalfOK(t, r)
  <2>1. HalfOK(s, r)
    BY DEF Half
  <2>2. QED
    BY <1>1, <1>2, <1>4, <2>1, SenderHalf
<1>6. ASSUME NEW m \in net, InBlockOrder(x, m)
      PROVE  /\ m \in Outgoing /\ SegOK(y, r, m)
             /\ r.state = 244 /\ m.data.len > 0 /\ m.seq = r.localSeq - r.stash.len =>
                   m.data = r.stash
  <2>1. m.src = y /\ ~HasRst(m)
    BY <1>6 DEF InBlockOrder, FromPeer
  <2>2. SegOK(y, r, m)
    BY <2>1 DEF SegInv
  <2>3. IsAwaiting(244)
    BY DEF IsAwaiting
  <2>4. StashSent
    BY DEF HInv, BInv, SInv, IInv
  <2>5. QED
    BY <1>1, <2>1, <2>2, <2>3, <2>4 DEF StashSent
<1>7. HalfOK(r, t) /\ t.remoteSeq >= s.remoteSeq
  <2>1. HalfOK(r, s)
    BY DEF Half
  <2>2. QED
    <3>1. \A m \in net : InBlockOrder(x, m) =>
             /\ m \in Outgoing /\ SegOK(y, r, m)
             /\ r.state = 244 /\ m.data.len > 0 /\ m.seq = r.localSeq - r.stash.len =>
                   m.data = r.stash
      BY <1>6
    <3>2. r \in Socket_ /\ s \in Socket_ /\ t \in Socket_ /\ Receiver(x, s, t)
      BY <1>1, <1>2
    <3>3. QED
      BY <2>1, <3>1, <3>2, ReceiverHalf
<1>8. ASSUME NEW m \in AcksTo(x, y)'
      PROVE  m.ack <= r.remoteSeq
  <2>1. m \in net' /\ m.src = y /\ m.dst = x /\ ~HasRst(m) /\ HasAck(m)
        /\ m.sport = t.remotePort /\ m.dport = t.localPort
    BY <1>1, <1>8 DEF AcksTo, HasRst, HasAck
  <2>2. m \in net
    BY <1>1, <2>1
  <2>3. m \in AcksTo(x, y)
    BY <1>2, <2>1, <2>2 DEF AcksTo
  <2>4. QED
    BY <2>3 DEF Half
<1>9. ASSUME NEW m \in AcksTo(y, x)'
      PROVE  m.ack <= t.remoteSeq
  <2>1. m \in net' /\ m.src = x /\ m.dst = y /\ ~HasRst(m) /\ HasAck(m)
        /\ m.sport = r.remotePort /\ m.dport = r.localPort
    BY <1>1, <1>9 DEF AcksTo, HasRst, HasAck
  <2>2. CASE m \in net
    <3>1. m \in AcksTo(y, x)
      BY <2>1, <2>2 DEF AcksTo
    <3>2. m.ack <= s.remoteSeq
      BY <3>1 DEF Half
    <3>3. m.ack \in Nat
      BY <1>1, <2>2, OutFields
    <3>4. QED
      BY <1>3, <1>7, <3>2, <3>3
  <2>3. CASE m \in out
    <3>1. m.ack = t.remoteSeq \/ m.ack = s.remoteSeq
      BY <1>1, <2>1, <2>3 DEF OutOK
    <3>2. QED
      BY <1>3, <1>7, <3>1
  <2>4. QED
    BY <1>1, <2>1, <2>2, <2>3
<1>10. LastOK(x, y)'
  <2> SUFFICES ASSUME NEW m \in net', m.src = x, ~HasRst(m), m.data.len > 0,
                      m.seq >= Base(t)
               PROVE  \/ m.seq + m.data.len <= r.remoteSeq
                      \/ m.seq + m.data.len = t.localSeq - FinSent(t)
    <3>1. \A m \in net' :
             m.src = x /\ ~HasRst(m) /\ m.data.len > 0 /\ m.seq >= Base(sock'[x]) =>
                \/ m.seq + m.data.len <= sock'[y].remoteSeq
                \/ m.seq + m.data.len = sock'[x].localSeq - FinSent(sock'[x])
      BY <1>1
    <3>2. QED
      BY <3>1 DEF LastOK, HasRst, Base, FinSent
  <2>1. CASE m \in out
    BY <1>2, <2>1 DEF NewOK
  <2>2. CASE m \in net
    BY <1>1, <1>2, <2>2, LastMoves DEF Half, SegInv, LiveStates
  <2>3. QED
    BY <1>1, <2>1, <2>2
<1>11. LastOK(y, x)'
  <2> SUFFICES ASSUME NEW m \in net', m.src = y, ~HasRst(m), m.data.len > 0,
                      m.seq >= Base(r)
               PROVE  \/ m.seq + m.data.len <= t.remoteSeq
                      \/ m.seq + m.data.len = r.localSeq - FinSent(r)
    <3>1. \A m \in net' :
             m.src = y /\ ~HasRst(m) /\ m.data.len > 0 /\ m.seq >= Base(sock'[y]) =>
                \/ m.seq + m.data.len <= sock'[x].remoteSeq
                \/ m.seq + m.data.len = sock'[y].localSeq - FinSent(sock'[y])
      BY <1>1
    <3>2. QED
      BY <3>1 DEF LastOK, HasRst, Base, FinSent
  <2>1. m \in net /\ m.seq \in Nat /\ m.data.len \in Nat
    BY <1>1, OutFields
  <2>2. \/ m.seq + m.data.len <= s.remoteSeq
        \/ m.seq + m.data.len = r.localSeq - FinSent(r)
    BY <2>1 DEF Half, LastOK
  <2>3. QED
    BY <1>3, <1>7, <2>1, <2>2
<1>12. Half(x, y)'
  <2>1. HalfOK(sock'[x], sock'[y]) /\ \A m \in AcksTo(x, y)' : m.ack <= sock'[y].remoteSeq
    BY <1>1, <1>5, <1>8
  <2>2. QED
    BY <1>10, <2>1 DEF Half, HalfOK, Base, FinSent, FinSeen
<1>13. Half(y, x)'
  <2>1. HalfOK(sock'[y], sock'[x]) /\ \A m \in AcksTo(y, x)' : m.ack <= sock'[x].remoteSeq
    BY <1>1, <1>7, <1>9
  <2>2. QED
    BY <1>11, <2>1 DEF Half, HalfOK, Base, FinSent, FinSeen
<1>14. QED
  BY <1>12, <1>13

\* The acknowledgements of the client a after a step of its own.
LEMMA AcksMove ==
  ASSUME NEW a \in Node, NEW b \in Node, a # b, sock[a].remoteIP = b,
         NEW t \in Socket_, NEW out, sock[a] \in Socket_, sock'[a] = t,
         t.localPort = sock[a].localPort, t.remoteIP = sock[a].remoteIP,
         net' \subseteq net \cup out,
         \A m \in out : OutOK(a, sock[a], t, m),
         NEW base, t.remoteSeq < base, sock[a].remoteSeq < base,
         \A m \in AcksOf(a, b) : m.ack < base
  PROVE  \A m \in AcksOf(a, b)' : m.ack < base
<1> SUFFICES ASSUME NEW m \in AcksOf(a, b)' PROVE m.ack < base
  OBVIOUS
<1>1. m \in net' /\ ~HasRst(m) /\ HasAck(m) /\ m.src = a /\ m.dst = b /\ m.sport = t.localPort
  BY DEF AcksOf, HasRst, HasAck
<1>2. CASE m \in net
  BY <1>1, <1>2 DEF AcksOf
<1>3. CASE m \in out
  BY <1>1, <1>3 DEF OutOK
<1>4. QED
  BY <1>1, <1>2, <1>3

\* The client of a pair that is apart moves.
LEMMA ApartClient ==
  ASSUME HInv, ServersListen, Fields, SegInv, NEW a \in Node, NEW b \in Node,
         Tied(a, b), sock[a].state # CLOSED, Apart(a, b),
         NEW t, NEW out, Becomes(a, t, out), Kind(a, t, out), Talks(a, t)
  PROVE  Apart(a, b)'
<1> DEFINE s == sock[a]
           h == sock[b]
<1>1. /\ t \in Socket_ /\ s \in Socket_ /\ h \in Socket_ /\ sock'[a] = t
      /\ net' \subseteq net \cup out /\ \A m \in out : OutOK(a, s, t, m)
      /\ \A m \in net : m \in Outgoing
      /\ \A k \in Node : k # a => sock'[k] = sock[k]
  BY OneMoves
<1>2. a # b /\ b \in Hosts /\ s.remoteIP = b /\ h.state \notin {1, 11}
  BY TiedFacts
<1>3. sock'[b] = h
  BY <1>1, <1>2
<1>4. ~h.opened /\ s.remoteSeq < Base(h) /\ \A m \in AcksOf(a, b) : m.ack < Base(h)
  BY DEF Apart
<1>5. s.remoteSeq \in Nat /\ t.remoteSeq \in Nat /\ Base(h) \in Int
  BY <1>1, SockNumbers
<1>6. t.localPort = s.localPort /\ t.remoteIP = s.remoteIP /\ Receiver(a, s, t)
  BY DEF Talks
<1>7. ASSUME NEW m \in net, InBlockOrder(a, m), HasFin(m) \/ m.data.len > 0
      PROVE  m.seq + Extent(m) < Base(h)
  <2>1. m.src = b /\ ~HasRst(m) /\ m.seq = s.remoteSeq
    BY <1>2, <1>7 DEF InBlockOrder, FromPeer
  <2>2. SegOK(b, h, m)
    BY <1>2, <2>1 DEF SegInv
  <2>3. ~HasSyn(m)
    <3>1. PlainSyn(m)
      BY <2>1 DEF HInv, BInv, SInv, SynAlone
    <3>2. m.data.len \in Nat
      BY <1>1, OutFields
    <3>3. QED
      BY <1>7, <3>1, <3>2 DEF PlainSyn
  <2>4. QED
    BY <1>2, <1>4, <2>1, <2>2, <2>3 DEF SegOK
<1>8. t.remoteSeq < Base(h)
  <2>1. CASE t.remoteSeq = s.remoteSeq
    BY <1>4, <2>1
  <2>2. ASSUME NEW m \in net, InBlockOrder(a, m), HasFin(m), t.remoteSeq = m.seq + 1
        PROVE  t.remoteSeq < Base(h)
    <3>1. m.seq + Extent(m) < Base(h) /\ Extent(m) >= 1 /\ Extent(m) \in Nat /\ m.seq \in Nat
      BY <1>1, <1>7, <2>2, OutFields
    <3>2. QED
      BY <1>5, <2>2, <3>1
  <2>3. ASSUME NEW m \in net, InBlockOrder(a, m), m.data.len > 0,
               t.remoteSeq = m.seq + m.data.len
        PROVE  t.remoteSeq < Base(h)
    <3>1. /\ m.seq + Extent(m) < Base(h) /\ Extent(m) >= m.data.len /\ Extent(m) \in Nat
          /\ m.seq \in Nat /\ m.data.len \in Nat
      BY <1>1, <1>7, <2>3, OutFields
    <3>2. QED
      BY <1>5, <2>3, <3>1
  <2>4. QED
    BY <1>6, <2>1, <2>2, <2>3 DEF Receiver
<1>9. \A m \in AcksOf(a, b)' : m.ack < Base(h)
  <2> DEFINE base == Base(h)
  <2>1. t.remoteSeq < base /\ s.remoteSeq < base /\ \A m \in AcksOf(a, b) : m.ack < base
    BY <1>4, <1>8
  <2> HIDE DEF base
  <2>2. \A m \in AcksOf(a, b)' : m.ack < base
    BY <1>1, <1>2, <1>6, <2>1, AcksMove
  <2>3. QED
    BY <2>2 DEF base
<1>10. ~sock'[b].opened /\ sock'[a].remoteSeq < Base(sock'[b])
       /\ \A m \in AcksOf(a, b)' : m.ack < Base(sock'[b])
  BY <1>1, <1>3, <1>4, <1>8, <1>9
<1>11. QED
  BY <1>10 DEF Apart, Base, FinSent

\* The SYN|ACK: of this connection, or of one before.
LEMMA JoinsConn ==
  ASSUME HInv, ServersListen, Fields, SegInv, NEW a \in Node, NEW b \in Node,
         Tied(a, b), sock[a].state # CLOSED, Apart(a, b),
         NEW t, NEW out, Becomes(a, t, out), Kind(a, t, out),
         NEW m \in net, Joins(a, m, t, out), m.ctl = {"SYN", "ACK"}
  PROVE  Apart(a, b)' \/ Agree(a, b)'
<1> DEFINE s == sock[a]
           h == sock[b]
<1>1. /\ t \in Socket_ /\ s \in Socket_ /\ h \in Socket_ /\ sock'[a] = t
      /\ net' \subseteq net \cup out /\ \A k \in out : k.src = a /\ OutOK(a, s, t, k)
      /\ \A k \in net : k \in Outgoing
      /\ \A k \in Node : k # a => sock'[k] = sock[k]
  BY OneMoves
<1>2. /\ a # b /\ b \in Hosts /\ s.remoteIP = b /\ h.state \notin {1, 11} /\ h.remoteIP = a
      /\ h.remotePort = s.localPort
  BY TiedFacts
<1>3. sock'[b] = h
  BY <1>1, <1>2
<1>4. ~h.opened /\ s.remoteSeq < Base(h) /\ \A k \in AcksOf(a, b) : k.ack < Base(h)
  BY DEF Apart
<1>5. /\ s.remoteSeq \in Nat /\ t.remoteSeq \in Nat /\ Base(h) \in Int
      /\ s.localSeq \in Nat /\ s.sent \in Nat /\ s.start \in Nat
  BY <1>1, SockNumbers
<1>6. /\ HasSyn(m) /\ ~HasRst(m) /\ FromPeer(a, m) /\ s.state = SYN_SENT
      /\ m.ack = s.localSeq /\ t.state = ESTABLISHED /\ ~PureSyn(m)
      /\ t.localPort = s.localPort /\ t.remoteIP = s.remoteIP /\ t.remotePort = s.remotePort
      /\ t.remoteSeq = m.seq + 1
      /\ t.sent = s.sent /\ t.start = s.start /\ t.got = s.got /\ t.localSeq = s.localSeq
  BY Flags DEF Joins
<1>7. SegOK(b, h, m)
  BY <1>2, <1>6 DEF SegInv, FromPeer
<1>8. m.seq + 1 <= Base(h) /\ (m.seq + 1 = Base(h) => m.ack = h.remoteSeq)
  BY <1>2, <1>4, <1>6, <1>7 DEF SegOK
<1>9. CASE m.seq + 1 # Base(h)
  <2>1. t.remoteSeq < Base(h)
    BY <1>5, <1>6, <1>8, <1>9
  <2>2. \A k \in AcksOf(a, b)' : k.ack < Base(h)
    <3> DEFINE base == Base(h)
    <3>1. t.remoteSeq < base /\ s.remoteSeq < base /\ \A k \in AcksOf(a, b) : k.ack < base
      BY <1>4, <2>1
    <3> HIDE DEF base
    <3>2. \A k \in AcksOf(a, b)' : k.ack < base
      BY <1>1, <1>2, <1>6, <3>1, AcksMove
    <3>3. QED
      BY <3>2 DEF base
  <2>3. ~sock'[b].opened /\ sock'[a].remoteSeq < Base(sock'[b])
        /\ \A k \in AcksOf(a, b)' : k.ack < Base(sock'[b])
    BY <1>1, <1>3, <1>4, <2>1, <2>2
  <2>4. QED
    BY <2>3 DEF Apart, Base, FinSent
<1>10. CASE m.seq + 1 = Base(h)
  <2>1. h.remoteSeq = s.localSeq
    BY <1>6, <1>8, <1>10
  <2>2. /\ s.sent = s.start /\ s.got = <<>>
        /\ h.state \in {3, 5} /\ h.sent = h.start /\ h.got = <<>>
    BY <1>2, <1>4, <1>6, StateValues DEF Fields, Young
  <2>3. FinSeen(h) = 0 /\ FinSeen(t) = 0 /\ FinSent(t) = 0
    BY <1>6, <2>2, StateValues DEF FinSeen, FinSent
  <2>4. Base(t) = t.localSeq
    BY <1>5, <1>6, <2>2, <2>3 DEF Base
  <2>5. t.got = <<>> /\ Len(t.got) = 0 /\ Len(h.got) = 0
    BY <1>6, <2>2
  <2>6. h.sent \in Nat /\ h.start \in Nat
    BY <1>1, SockNumbers
  <2>7. HalfOK(t, h)
    <3>1. /\ h.remoteSeq = Base(t) + Len(h.got) + FinSeen(h)
          /\ Len(h.got) <= t.sent - t.start /\ h.remoteSeq = t.localSeq
          /\ t.state # 244
      BY <1>5, <1>6, <2>1, <2>2, <2>3, <2>4, <2>5, StateValues
    <3>2. QED
      BY <2>3, <2>5, <3>1 DEF HalfOK
  <2>8. HalfOK(h, t)
    <3>1. /\ t.remoteSeq = Base(h) + Len(t.got) + FinSeen(t)
          /\ Len(t.got) <= h.sent - h.start
      BY <1>5, <1>6, <1>10, <2>2, <2>3, <2>5, <2>6
    <3>2. QED
      BY <2>2, <2>3, <2>5, <3>1 DEF HalfOK
  <2>9. ASSUME NEW k \in AcksTo(a, b)'
        PROVE  k.ack <= h.remoteSeq
    <3>1. k \in net' /\ k.src = b /\ k.dst = a /\ ~HasRst(k) /\ HasAck(k)
      BY <2>9 DEF AcksTo, HasRst, HasAck
    <3>2. k \in net
      BY <1>1, <1>2, <3>1
    <3>3. QED
      BY <2>1, <3>1, <3>2 DEF HInv, BInv, AckBound
  <2>10. ASSUME NEW k \in AcksTo(b, a)'
         PROVE  k.ack <= t.remoteSeq
    <3>1. /\ k \in net' /\ k.src = a /\ k.dst = b /\ ~HasRst(k) /\ HasAck(k)
          /\ k.sport = h.remotePort
      BY <1>3, <2>10 DEF AcksTo, HasRst, HasAck
    <3>2. CASE k \in net
      <4>1. k \in AcksOf(a, b)
        BY <1>2, <3>1, <3>2 DEF AcksOf
      <4>2. k.ack < Base(h) /\ k.ack \in Nat
        BY <1>1, <1>4, <3>2, <4>1, OutFields
      <4>3. QED
        BY <1>5, <1>6, <1>10, <4>2
    <3>3. CASE k \in out
      <4>1. k.ack = t.remoteSeq \/ k.ack = s.remoteSeq
        BY <1>1, <3>1, <3>3 DEF OutOK
      <4>2. QED
        BY <1>4, <1>5, <1>6, <1>10, <4>1
    <3>4. QED
      BY <1>1, <3>1, <3>2, <3>3
  <2>11. /\ HalfOK(sock'[a], sock'[b]) /\ HalfOK(sock'[b], sock'[a])
         /\ \A k \in AcksTo(a, b)' : k.ack <= sock'[b].remoteSeq
         /\ \A k \in AcksTo(b, a)' : k.ack <= sock'[a].remoteSeq
         /\ sock'[a].state # SYN_SENT
    BY <1>1, <1>3, <1>6, <2>7, <2>8, <2>9, <2>10, StateValues
  <2>12. ASSUME NEW k \in net', ~HasRst(k), k.data.len > 0, k.src \in {a, b}
         PROVE  k.seq < Base(sock'[k.src])
    <3>1. CASE k \in out
      <4>1. k.data = NoData
        BY <3>1 DEF Joins, Carries
      <4>2. QED
        BY <2>12, <4>1, NoDataType
    <3>2. CASE k \in net
      <4>1. SegOK(k.src, sock[k.src], k) /\ k.seq \in Nat /\ k.data.len \in Nat
        BY <1>1, <1>2, <1>6, <2>12, <3>2, OutFields, StateValues DEF SegInv
      <4>2. s.sent = s.start /\ h.sent = h.start /\ h.sent \in Nat /\ h.start \in Nat
            /\ h.localSeq \in Nat /\ FinSent(h) \in {0, 1} /\ FinSent(s) = 0
        BY <1>1, <1>6, <2>2, SockNumbers, StateValues DEF FinSent
      <4>3. Base(s) = s.localSeq - FinSent(s) /\ Base(h) = h.localSeq - FinSent(h)
        BY <1>5, <4>2 DEF Base
      <4>4. CASE k.src = a
        <5>1. k.seq < Base(s)
          BY <1>5, <2>12, <4>1, <4>2, <4>3, <4>4 DEF SegOK
        <5>2. QED
          BY <1>1, <1>5, <1>6, <2>4, <4>2, <4>3, <4>4, <5>1
      <4>5. CASE k.src = b
        <5>1. k.seq < Base(h)
          BY <2>12, <4>1, <4>2, <4>3, <4>5 DEF SegOK
        <5>2. QED
          BY <1>3, <4>5, <5>1
      <4>6. QED
        BY <2>12, <4>4, <4>5
    <3>3. QED
      BY <1>1, <3>1, <3>2
  <2>13. LastOK(a, b)' /\ LastOK(b, a)'
    <3>1. ASSUME NEW k \in net', ~HasRst(k), k.data.len > 0, k.src \in {a, b},
                 k.seq >= Base(sock'[k.src])
          PROVE  FALSE
      <4>1. k.seq \in Nat /\ Base(sock'[k.src]) \in Int
        <5>1. k \in Outgoing
          BY <1>1, <3>1 DEF Becomes
        <5>2. sock'[a] = t /\ sock'[b] = h
          BY <1>1, <1>3
        <5>3. sock'[k.src] \in Socket_
          BY <1>1, <3>1, <5>2
        <5>4. QED
          BY <5>1, <5>3, OutFields, SockNumbers
      <4>2. QED
        BY <2>12, <3>1, <4>1
    <3>2. QED
      BY <3>1 DEF LastOK, HasRst, Base, FinSent
  <2>14. Agree(a, b)'
    BY <2>11, <2>13 DEF Agree, Half, HalfOK, Base, FinSent, FinSeen
  <2>15. QED
    BY <2>14
<1>11. QED
  BY <1>9, <1>10

\* Neither of the two does anything.
LEMMA QuietHalf ==
  ASSUME NEW s, NEW t, NEW r, NEW u, Quiet(s, t), t.state = s.state,
         Quiet(r, u), u.state = r.state, HalfOK(s, r)
  PROVE  HalfOK(t, u)
<1>1. FinSent(t) = FinSent(s) /\ FinSeen(u) = FinSeen(r)
  BY DEF FinSent, FinSeen
<1>2. Base(t) = Base(s)
  BY <1>1 DEF Base, Quiet, Same
<1>3. /\ u.remoteSeq = r.remoteSeq /\ u.got = r.got
      /\ t.localSeq = s.localSeq /\ t.stash = s.stash /\ t.sent = s.sent /\ t.start = s.start
  BY DEF Quiet, Same
<1>4. QED
  BY <1>1, <1>2, <1>3 DEF HalfOK

LEMMA PairStill ==
  ASSUME NEW a \in Node, NEW b \in Node, Pair(a, b),
         Quiet(sock[a], sock'[a]), sock'[a].state = sock[a].state,
         Quiet(sock[b], sock'[b]), sock'[b].state = sock[b].state,
         \A m \in net' : m.src \in {a, b} => m \in net
  PROVE  Pair(a, b)'
<1> SUFFICES ASSUME Tied(a, b)', sock'[a].state # CLOSED
             PROVE  Apart(a, b)' \/ Agree(a, b)'
  BY DEF Pair
<1>1. Tied(a, b) /\ sock[a].state # CLOSED
  BY DEF Tied, Holds, Quiet, Same
<1>2. CASE Apart(a, b)
  <2>1. ~sock'[b].opened /\ sock'[a].remoteSeq = sock[a].remoteSeq
    BY <1>2 DEF Apart, Quiet, Same
  <2>2. FinSent(sock'[b]) = FinSent(sock[b])
    BY DEF FinSent
  <2>3. Base(sock'[b]) = Base(sock[b])
    BY <2>2 DEF Base, Quiet, Same
  <2>4. AcksOf(a, b)' \subseteq AcksOf(a, b)
    BY DEF AcksOf, HasRst, HasAck, Quiet, Same
  <2>5. ~sock'[b].opened /\ sock'[a].remoteSeq < Base(sock'[b])
        /\ \A m \in AcksOf(a, b)' : m.ack < Base(sock'[b])
    BY <1>2, <2>1, <2>3, <2>4 DEF Apart
  <2>6. Apart(a, b)'
    BY <2>5 DEF Apart, Base, FinSent
  <2>7. QED
    BY <2>6
<1>3. CASE Agree(a, b)
  <2>1. HalfOK(sock'[a], sock'[b]) /\ HalfOK(sock'[b], sock'[a])
    BY <1>3, QuietHalf DEF Agree, Half
  <2>2. AcksTo(a, b)' \subseteq AcksTo(a, b) /\ AcksTo(b, a)' \subseteq AcksTo(b, a)
    BY DEF AcksTo, HasRst, HasAck, Quiet, Same
  <2>3. /\ \A m \in AcksTo(a, b)' : m.ack <= sock'[b].remoteSeq
        /\ \A m \in AcksTo(b, a)' : m.ack <= sock'[a].remoteSeq
        /\ sock'[a].state # SYN_SENT
    BY <1>3, <2>2 DEF Agree, Half, Quiet, Same
  <2>4. LastOK(a, b)' /\ LastOK(b, a)'
    <3>1. ASSUME NEW n \in {a, b}
          PROVE  /\ FinSent(sock'[n]) = FinSent(sock[n]) /\ Base(sock'[n]) = Base(sock[n])
                 /\ sock'[n].localSeq = sock[n].localSeq
                 /\ sock'[n].remoteSeq = sock[n].remoteSeq
      <4>1. FinSent(sock'[n]) = FinSent(sock[n])
        BY DEF FinSent
      <4>2. QED
        BY <4>1 DEF Base, Quiet, Same
    <3>2. ASSUME NEW x \in {a, b}, NEW y \in {a, b}, LastOK(x, y)
          PROVE  \A m \in net' :
                    m.src = x /\ ~HasRst(m) /\ m.data.len > 0 /\ m.seq >= Base(sock'[x]) =>
                       \/ m.seq + m.data.len <= sock'[y].remoteSeq
                       \/ m.seq + m.data.len = sock'[x].localSeq - FinSent(sock'[x])
      BY <3>1, <3>2 DEF LastOK
    <3>3. LastOK(a, b) /\ LastOK(b, a)
      BY <1>3 DEF Agree, Half
    <3>4. QED
      BY <3>2, <3>3 DEF LastOK, HasRst, Base, FinSent
  <2>5. Agree(a, b)'
    BY <2>1, <2>3, <2>4 DEF Agree, Half, HalfOK, Base, FinSent, FinSeen
  <2>6. QED
    BY <2>5
<1>4. QED
  BY <1>1, <1>2, <1>3 DEF Pair

\* The client moves.
LEMMA PairClient ==
  ASSUME HInv, ServersListen, Fields, SegInv, NEW a \in Node, NEW b \in Node, Pair(a, b),
         NEW t, NEW out, Becomes(a, t, out), Kind(a, t, out)
  PROVE  Pair(a, b)'
<1> DEFINE s == sock[a]
<1> SUFFICES ASSUME Tied(a, b)', sock'[a].state # CLOSED
             PROVE  Apart(a, b)' \/ Agree(a, b)'
  BY DEF Pair
<1>1. /\ t \in Socket_ /\ s \in Socket_ /\ sock[b] \in Socket_ /\ sock'[a] = t
      /\ net' \subseteq net \cup out /\ \A m \in out : m.src = a /\ OutOK(a, s, t, m)
      /\ \A k \in Node : k # a => sock'[k] = sock[k]
      /\ Moves(a, t, out)
  BY OneMoves
<1>2. a \notin Hosts /\ b \in Hosts /\ a # b /\ sock'[b] = sock[b] /\ Holds(b, a)
      /\ sock[b].state # LISTEN /\ sock[b].remotePort = t.localPort
  BY <1>1 DEF Tied, Holds
<1>3. sock[b].remotePort < s.nextPort /\ b = Server[a] /\ sock[b].remotePort \in Nat
  BY <1>1, <1>2 DEF HInv, PortInv, Socket_
<1>4. ~Rests(a, t) /\ ~(\E m \in net : Accepts(a, m, t, out))
  BY <1>1, <1>2 DEF Rests, Accepts
<1>5. ~Calls(a, t, out)
  BY <1>2, <1>3 DEF Calls
<1>6. CASE Waits(a, t)
  <2>1. s.state = SYN_SENT /\ Same(s, t)
    BY <1>6 DEF Waits
  <2>2. s.localPort = t.localPort /\ t.remoteIP = s.remoteIP /\ t.remoteSeq = s.remoteSeq
    BY <2>1 DEF Same
  <2>3. Tied(a, b) /\ s.state # CLOSED
    BY <1>2, <2>1, <2>2, StateValues DEF Tied
  <2>4. Apart(a, b)
    BY <2>1, <2>3 DEF Pair, Agree
  <2>5. s.remoteIP = b
    BY <2>3, TiedFacts
  <2>6. ~sock[b].opened /\ s.remoteSeq < Base(sock[b])
        /\ \A m \in AcksOf(a, b) : m.ack < Base(sock[b])
    BY <2>4 DEF Apart
  <2>7. \A m \in AcksOf(a, b)' : m.ack < Base(sock[b])
    <3> DEFINE base == Base(sock[b])
    <3>1. t.remoteSeq < base /\ s.remoteSeq < base /\ \A m \in AcksOf(a, b) : m.ack < base
      BY <2>2, <2>6
    <3> HIDE DEF base
    <3>2. \A m \in AcksOf(a, b)' : m.ack < base
      BY <1>1, <1>2, <2>2, <2>5, <3>1, AcksMove
    <3>3. QED
      BY <3>2 DEF base
  <2>8. ~sock'[b].opened /\ sock'[a].remoteSeq < Base(sock'[b])
        /\ \A m \in AcksOf(a, b)' : m.ack < Base(sock'[b])
    BY <1>1, <1>2, <2>2, <2>6, <2>7
  <2>9. Apart(a, b)'
    BY <2>8 DEF Apart, Base, FinSent
  <2>10. QED
    BY <2>9
<1>7. ASSUME NEW m \in net, Joins(a, m, t, out), m.ctl = {"SYN", "ACK"}
      PROVE  Apart(a, b)' \/ Agree(a, b)'
  <2>1. s.state = SYN_SENT /\ s.localPort = t.localPort
    BY <1>7 DEF Joins
  <2>2. Tied(a, b) /\ s.state # CLOSED
    BY <1>2, <2>1, StateValues DEF Tied
  <2>3. Apart(a, b)
    BY <2>1, <2>2 DEF Pair, Agree
  <2>4. QED
    BY <1>7, <2>2, <2>3, JoinsConn
<1>8. CASE Goes(a, t, out)
  <2>1. Talks(a, t)
    BY <1>8 DEF Goes
  <2>2. s.localPort = t.localPort /\ s.state \in LiveStates /\ t.state \in LiveStates
    BY <2>1 DEF Talks
  <2>3. Tied(a, b) /\ s.state # CLOSED /\ t.state # SYN_SENT
    BY <1>2, <2>2, StateValues DEF Tied, LiveStates
  <2>4. CASE Apart(a, b)
    BY <2>1, <2>3, <2>4, ApartClient
  <2>5. CASE Agree(a, b)
    <3>1. /\ s.remoteIP = b /\ sock[b].state \notin {1, 11}
          /\ sock[b].remoteSeq <= s.localSeq
      BY <2>3, TiedFacts
    <3>2. Half(a, b) /\ Half(b, a)
      BY <2>5 DEF Agree
    <3>3. Half(a, b)' /\ Half(b, a)'
      BY <1>2, <1>8, <3>1, <3>2, HalvesMove
    <3>4. sock'[a].state # SYN_SENT
      BY <1>1, <2>3
    <3>5. Agree(a, b)'
      BY <3>3, <3>4 DEF Agree
    <3>6. QED
      BY <3>5
  <2>6. QED
    BY <2>3, <2>4, <2>5 DEF Pair
<1>9. QED
  BY <1>1, <1>4, <1>5, <1>6, <1>7, <1>8 DEF Moves

\* The host moves.
LEMMA PairHost ==
  ASSUME HInv, ServersListen, Fields, SegInv, NEW a \in Node, NEW b \in Node, Pair(a, b),
         NEW t, NEW out, Becomes(b, t, out), Kind(b, t, out)
  PROVE  Pair(a, b)'
<1> DEFINE s == sock[b]
           c == sock[a]
<1> SUFFICES ASSUME Tied(a, b)', sock'[a].state # CLOSED
             PROVE  Apart(a, b)' \/ Agree(a, b)'
  BY DEF Pair
<1>1. /\ t \in Socket_ /\ s \in Socket_ /\ c \in Socket_ /\ sock'[b] = t
      /\ net' \subseteq net \cup out /\ \A m \in out : m.src = b /\ OutOK(b, s, t, m)
      /\ \A m \in net : m \in Outgoing
      /\ \A k \in Node : k # b => sock'[k] = sock[k]
      /\ \A k \in Node \ Hosts : sock[k].remoteIP = Server[k]
      /\ Moves(b, t, out)
  BY OneMoves
<1>2. a \notin Hosts /\ b \in Hosts /\ a # b /\ t.state # LISTEN /\ t.remoteIP = a
  BY <1>1 DEF Tied, Holds
<1>3. sock'[a] = c /\ c.localPort = t.remotePort /\ c.state # CLOSED
  BY <1>1, <1>2 DEF Tied, Holds
<1>4. ~Rests(b, t) /\ ~Calls(b, t, out)
  BY <1>2 DEF Rests, Calls
<1>5. s.state # SYN_SENT
  BY <1>2, StateValues DEF Fields, DevStates, LiveStates
<1>6. ~Waits(b, t) /\ \A m \in net : ~Joins(b, m, t, out)
  BY <1>5 DEF Waits, Joins
<1>7. /\ s.localSeq \in Nat /\ s.sent \in Nat /\ c.remoteSeq \in Nat /\ s.start \in Nat
      /\ Base(s) \in Int /\ FinSent(s) \in {0, 1}
  BY <1>1, SockNumbers
<1>8. ASSUME AcksOf(a, b)' \subseteq AcksOf(a, b), ~t.opened, c.remoteSeq < Base(t),
             \A m \in AcksOf(a, b) : m.ack < Base(t)
      PROVE  Apart(a, b)'
  <2>1. ~sock'[b].opened /\ sock'[a].remoteSeq < Base(sock'[b])
        /\ \A m \in AcksOf(a, b)' : m.ack < Base(sock'[b])
    BY <1>1, <1>3, <1>8
  <2>2. QED
    BY <2>1 DEF Apart, Base, FinSent
<1>9. AcksOf(a, b)' \subseteq AcksOf(a, b)
  BY <1>1, <1>2, <1>3 DEF AcksOf, HasRst, HasAck
<1>10. ASSUME NEW m \in net, Accepts(b, m, t, out)
       PROVE  Apart(a, b)'
  <2>1. /\ t.sent = s.sent /\ t.start = s.sent /\ ~t.opened
        /\ t.localSeq = s.localSeq + 1 /\ t.state = 3
        /\ PureSyn(m) /\ m.src = a
    BY <1>2, <1>10, StateValues DEF Accepts
  <2>2. Base(t) = s.localSeq + 1
    <3>1. FinSent(t) = 0
      BY <2>1 DEF FinSent
    <3>2. QED
      BY <1>7, <2>1, <3>1 DEF Base
  <2>3. c.remoteIP = b
    <3>1. m.dst = b /\ m.dst = Server[m.src]
      BY <1>10, <2>1 DEF Accepts, HInv, SynInv
    <3>2. QED
      BY <1>1, <1>2, <2>1, <3>1
  <2>4. c.remoteSeq <= s.localSeq
    BY <2>3 DEF HInv, BInv, RemoteBound
  <2>5. ASSUME NEW k \in AcksOf(a, b)
        PROVE  k.ack < Base(t)
    <3>1. k \in net /\ k.dst = b /\ ~HasRst(k) /\ HasAck(k)
      BY DEF AcksOf
    <3>2. k.ack <= s.localSeq /\ k.ack \in Nat
      BY <1>1, <3>1, OutFields DEF HInv, BInv, AckBound
    <3>3. QED
      BY <1>7, <2>2, <3>2
  <2>6. c.remoteSeq < Base(t)
    BY <1>7, <2>2, <2>4
  <2>7. QED
    BY <1>8, <1>9, <2>1, <2>5, <2>6
<1>11. CASE Goes(b, t, out)
  <2>1. Talks(b, t)
    BY <1>11 DEF Goes
  <2>2. /\ t.remoteIP = s.remoteIP /\ t.remotePort = s.remotePort
        /\ s.state \in LiveStates /\ Sender(b, s, t) /\ Opens(b, s, t)
    BY <2>1 DEF Talks
  <2>3. Tied(a, b)
    BY <1>2, <1>3, <2>2, StateValues DEF Tied, Holds, LiveStates
  <2>4. CASE Apart(a, b)
    <3>1. ~s.opened /\ c.remoteSeq < Base(s) /\ \A m \in AcksOf(a, b) : m.ack < Base(s)
      BY <2>4 DEF Apart
    <3>2. Base(s) <= s.localSeq
      <4>1. s.sent >= s.start
        BY DEF Fields, Young
      <4>2. QED
        BY <1>7, <4>1 DEF Base
    <3>3. ~AckedAll(b)
      <4> SUFFICES ASSUME NEW m \in net, FromPeer(b, m), ~HasRst(m), HasAck(m),
                          m.ack = s.localSeq
                   PROVE  FALSE
        BY DEF AckedAll
      <4>1. m \in AcksOf(a, b)
        BY <1>2, <1>3, <2>2 DEF FromPeer, AcksOf
      <4>2. m.ack < Base(s)
        BY <3>1, <4>1
      <4>3. QED
        BY <1>7, <3>2, <4>2
    <3>4. ~t.opened
      BY <2>2, <3>1, <3>3 DEF Opens
    <3>5. Base(t) = Base(s)
      BY <2>2 DEF Sender
    <3>6. QED
      BY <1>8, <1>9, <3>1, <3>4, <3>5
  <2>5. CASE Agree(a, b)
    <3>1. /\ s.remoteIP = a /\ c.state \notin {1, 11}
          /\ c.remoteSeq <= s.localSeq
      BY <1>3, <2>3, TiedFacts
    <3>2. Half(a, b) /\ Half(b, a) /\ c.state # SYN_SENT
      BY <2>5 DEF Agree
    <3>3. Half(a, b)' /\ Half(b, a)'
      BY <1>2, <1>11, <3>1, <3>2, HalvesMove
    <3>4. sock'[a].state # SYN_SENT
      BY <1>3, <3>2
    <3>5. Agree(a, b)'
      BY <3>3, <3>4 DEF Agree
    <3>6. QED
      BY <3>5
  <2>6. QED
    BY <1>3, <2>3, <2>4, <2>5 DEF Pair
<1>12. QED
  BY <1>1, <1>4, <1>6, <1>10, <1>11 DEF Moves

LEMMA CInvMove ==
  ASSUME CInv, NEW n, NEW t, NEW out, Becomes(n, t, out), Kind(n, t, out)
  PROVE  (Fields /\ SegInv /\ ConnInv)'
<1>1. HInv /\ ServersListen /\ Fields /\ SegInv
  BY DEF CInv
<1>2. /\ n \in Node /\ sock'[n] = t
      /\ \A k \in Node : k # n => sock'[k] = sock[k]
      /\ net' \subseteq net \cup out /\ \A m \in out : m.src = n
  BY <1>1, OneMoves
<1>3. Fields'
  BY <1>1, FieldsNext
<1>4. SegInv'
  <2>1. \A m \in net' : ~HasRst(m) /\ sock'[m.src].state \notin {1, 11} =>
            SegOK(m.src, sock'[m.src], m)
    BY <1>1, SegNext
  <2>2. QED
    BY <2>1 DEF SegInv, SegOK, HasRst, HasSyn, HasFin, Extent, Base, FinSent
<1>5. ASSUME NEW a \in Node, NEW b \in Node
      PROVE  Pair(a, b)'
  <2>1. Pair(a, b)
    BY DEF CInv, ConnInv
  <2>2. CASE a = n
    BY <1>1, <2>1, <2>2, PairClient
  <2>3. CASE b = n
    BY <1>1, <2>1, <2>3, PairHost
  <2>4. CASE a # n /\ b # n
    <3>1. sock'[a] = sock[a] /\ sock'[b] = sock[b]
      BY <1>2, <2>4
    <3>2. /\ Quiet(sock[a], sock'[a]) /\ sock'[a].state = sock[a].state
          /\ Quiet(sock[b], sock'[b]) /\ sock'[b].state = sock[b].state
      BY <3>1, SameQuiet
    <3>3. \A m \in net' : m.src \in {a, b} => m \in net
      BY <1>2, <2>4
    <3>4. QED
      BY <2>1, <3>2, <3>3, PairStill
  <2>5. QED
    BY <2>2, <2>3, <2>4
<1>6. ConnInv'
  BY <1>5 DEF ConnInv
<1>7. QED
  BY <1>3, <1>4, <1>6

LEMMA CInvNext ==
  ASSUME CInv, [Next]_vars
  PROVE  CInv'
<1>1. HInv' /\ FlagsAlone' /\ ServersListen'
  BY NextForeign, HInvNext, FlagsNext DEF CInv, HInv, BInv, ServersListen
<1>2. CASE Passes
  <2>1. /\ net' \subseteq net
        /\ \A n \in Node : Quiet(sock[n], sock'[n]) /\ sock'[n].state = sock[n].state
    BY <1>2 DEF Passes
  <2>2. \A m \in net : m.src \in Node /\ m \in Outgoing
    BY BInvTypes DEF CInv, HInv
  <2>3. ASSUME NEW n \in Node
        PROVE  LET s == sock[n] t == sock'[n] IN
               /\ t.state = s.state /\ FinSent(t) = FinSent(s) /\ Base(t) = Base(s)
               /\ t.opened = s.opened /\ t.remoteSeq = s.remoteSeq /\ t.start = s.start
               /\ t.sent = s.sent /\ t.got = s.got /\ t.stash = s.stash
               /\ t.localSeq = s.localSeq /\ t.remoteIP = s.remoteIP
    <3>1. FinSent(sock'[n]) = FinSent(sock[n])
      BY <2>1 DEF FinSent
    <3>2. QED
      BY <2>1, <3>1 DEF Base, Quiet, Same
  <2>4. Fields'
    <3>1. ASSUME NEW n \in Node
          PROVE  /\ sock'[n].state \in DevStates(n) /\ Young(n, sock'[n])
                 /\ n \in Hosts => sock'[n].remoteIP \notin Hosts
      BY <2>3 DEF CInv, Fields, Young
    <3>2. QED
      BY <3>1 DEF Fields, DevStates, Young
  <2>5. SegInv'
    <3>1. ASSUME NEW m \in net', ~HasRst(m), sock'[m.src].state \notin {1, 11}
          PROVE  SegOK(m.src, sock'[m.src], m)
      <4>1. m \in net /\ m.src \in Node
        BY <2>1, <2>2
      <4>2. SegOK(m.src, sock[m.src], m)
        BY <2>3, <3>1, <4>1 DEF CInv, SegInv
      <4>3. QED
        BY <2>3, <4>1, <4>2 DEF SegOK
    <3>2. QED
      BY <3>1 DEF SegInv, SegOK, HasRst, HasSyn, HasFin, Extent, Base, FinSent
  <2>6. ConnInv'
    <3>1. ASSUME NEW a \in Node, NEW b \in Node
          PROVE  Pair(a, b)'
      <4>1. Pair(a, b) /\ \A m \in net' : m.src \in {a, b} => m \in net
        BY <2>1 DEF CInv, ConnInv
      <4>2. QED
        BY <2>1, <4>1, PairStill
    <3>2. QED
      BY <3>1 DEF ConnInv
  <2>7. QED
    BY <1>1, <2>4, <2>5, <2>6 DEF CInv
<1>3. ASSUME NEW n \in Node, NEW t, NEW out, Becomes(n, t, out), Kind(n, t, out)
      PROVE  CInv'
  BY <1>1, <1>3, CInvMove DEF CInv
<1>4. SInv /\ FlagsAlone
  BY DEF CInv, HInv, BInv
<1>5. QED
  BY <1>2, <1>3, <1>4, NextKind DEF Does

LEMMA CInvInit == Init /\ ServersListen => CInv
<1> SUFFICES ASSUME Init, ServersListen PROVE CInv
  OBVIOUS
<1>1. HInv
  BY HInvInit
<1>2. net = {}
  BY DEF Init
<1>3. ASSUME NEW n \in Node
      PROVE  /\ sock[n].state = IF isHost(n) THEN LISTEN ELSE CLOSED
             /\ n \in Hosts => sock[n].remoteIP = NoNode
             /\ sock[n].sent = 0 /\ sock[n].start = 0
  BY InitFields DEF Init
<1>4. Fields
  <2>1. ASSUME NEW n \in Node
        PROVE  /\ sock[n].state \in DevStates(n) /\ Young(n, sock[n])
               /\ n \in Hosts => sock[n].remoteIP \notin Hosts
    <3>1. sock[n].state = IF n \in Hosts THEN 1 ELSE 11
      BY <1>3, StateValues DEF isHost
    <3>2. NoNode \notin Hosts
      BY NodeAssumption
    <3>3. Young(n, sock[n])
      BY <1>3, <3>1 DEF Young, LiveStates
    <3>4. QED
      BY <1>3, <3>1, <3>2, <3>3 DEF DevStates, LiveStates
  <2>2. QED
    BY <2>1 DEF Fields
<1>5. SegInv
  BY <1>2 DEF SegInv
<1>6. \A a, b \in Node : ~Tied(a, b)
  BY <1>3, StateValues DEF Tied, Holds, isHost
<1>7. ConnInv
  BY <1>6 DEF ConnInv, Pair
<1>8. QED
  BY <1>1, <1>2, <1>4, <1>5, <1>7 DEF CInv, FlagsAlone

LEMMA CInvAlways == Spec /\ ServersListen => []CInv
  BY CInvInit, CInvNext, PTL DEF Spec

\* The two ends of a connection whose handshake is over are in the same one.
LEMMA Ends ==
  ASSUME CInv, NEW a \in Node, NEW b \in Node, Connected(a, b)
  PROVE  Half(a, b)
<1>1. /\ sock[a].remoteIP = b /\ sock[b].remoteIP = a
      /\ sock[a].localPort = sock[b].remotePort /\ sock[a].remotePort = sock[b].localPort
      /\ Synchronized(sock[a]) /\ Synchronized(sock[b]) /\ sock[a].opened /\ sock[b].opened
  BY DEF Connected
<1>2. /\ sock[a].state \notin {LISTEN, CLOSED} /\ sock[b].state \notin {LISTEN, CLOSED}
  BY <1>1, StateByte, StateValues DEF Synchronized
<1>3. \A x, y \in Node : Pair(x, y)
  BY DEF CInv, ConnInv
<1>4. CASE a \notin Hosts
  <2>1. b \in Hosts
    BY <1>1, <1>4 DEF CInv, HInv, BInv, RemoteBound, ServersListen
  <2>2. Tied(a, b)
    BY <1>1, <1>2, <1>4, <2>1 DEF Tied, Holds
  <2>3. ~Apart(a, b)
    BY <1>1 DEF Apart
  <2>4. Agree(a, b)
    BY <1>2, <1>3, <2>2, <2>3 DEF Pair
  <2>5. QED
    BY <2>4 DEF Agree
<1>5. CASE a \in Hosts
  <2>1. b \notin Hosts
    BY <1>1, <1>5 DEF CInv, Fields
  <2>2. Tied(b, a)
    BY <1>1, <1>2, <1>5, <2>1 DEF Tied, Holds
  <2>3. ~Apart(b, a)
    BY <1>1 DEF Apart
  <2>4. Agree(b, a)
    BY <1>2, <1>3, <2>2, <2>3 DEF Pair
  <2>5. QED
    BY <2>4 DEF Agree
<1>6. QED
  BY <1>4, <1>5

\* Whatever is lost, repeated or reordered, in any number of connections one after
\* the other: what onDataReceived() has been given is a prefix of what the other
\* end has handed to send(), of this connection and not of an earlier one.
THEOREM StreamInOrder == Spec /\ ServersListen => []DataInOrder
<1>1. CInv => DataInOrder
  <2> SUFFICES ASSUME CInv, NEW a \in Node, NEW b \in Node, Connected(a, b)
               PROVE  /\ Len(sock[b].got) <= Sent(a)
                      /\ \A i \in 1 .. Len(sock[b].got) : sock[b].got[i] = sock[a].start + i
    BY DEF DataInOrder
  <2>1. HalfOK(sock[a], sock[b])
    BY Ends DEF Half
  <2>2. QED
    BY <2>1 DEF HalfOK, Sent
<1>2. QED
  BY <1>1, CInvAlways, PTL

\* When the state byte of a socket is ESTABLISHED again, the peer's application
\* has all it was sent; while AWAITING_ACK is set, all but at most the stash.
THEOREM NothingOutstanding == Spec /\ ServersListen => []AckedIsDelivered
<1>1. CInv => AckedIsDelivered
  <2> SUFFICES ASSUME CInv, NEW a \in Node, NEW b \in Node, Connected(a, b)
               PROVE  /\ sock[a].state = ESTABLISHED => Len(sock[b].got) = Sent(a)
                      /\ IsAwaiting(sock[a].state) =>
                            Len(sock[b].got) \in {Sent(a), Sent(a) - sock[a].stash.len}
    BY DEF AckedIsDelivered
  <2> DEFINE s == sock[a]
             t == sock[b]
             len == Len(t.got)
             base == Base(s)
             seen == FinSeen(t)
  <2>1. HalfOK(s, t)
    BY Ends DEF Half
  <2>2. s \in Socket_ /\ t \in Socket_
    BY BInvTypes DEF CInv, HInv
  <2>3. /\ s.localSeq \in Nat /\ s.sent \in Nat /\ s.start \in Nat /\ s.stash.len \in Nat
        /\ len \in Nat /\ seen \in {0, 1} /\ base \in Int /\ t.remoteSeq \in Nat
    BY <2>2, SockNumbers
  <2>4. ASSUME s.state \in {4, 244}
        PROVE  seen = 0 /\ base = s.localSeq - Sent(a) /\ t.remoteSeq = base + len
    <3>1. FinSent(s) = 0
      BY <2>4 DEF FinSent
    <3>2. seen = 0 /\ t.remoteSeq = base + len + seen
      BY <2>1, <2>3, <3>1 DEF HalfOK
    <3>3. base = s.localSeq - Sent(a)
      BY <2>3, <3>1 DEF Base, Sent
    <3>4. QED
      BY <2>3, <3>2, <3>3
  <2>5. Sent(a) \in Int
    BY <2>3 DEF Sent
  <2>6. s.state = 4 => t.remoteSeq = s.localSeq
    BY <2>1 DEF HalfOK
  <2>7. s.state = 244 => t.remoteSeq = s.localSeq \/ t.remoteSeq = s.localSeq - s.stash.len
    BY <2>1 DEF HalfOK
  <2>8. IsAwaiting(s.state) => s.state = 244
    <3>1. s.state \in State
      BY <2>2 DEF Socket_
    <3>2. QED
      BY <3>1, StateByte, StateValues
  <2> HIDE DEF len, base, seen
  <2>9. s.state = 4 => len = Sent(a)
    BY <2>3, <2>4, <2>5, <2>6
  <2>10. s.state = 244 => len = Sent(a) \/ len = Sent(a) - s.stash.len
    BY <2>3, <2>4, <2>5, <2>7
  <2>11. QED
    BY <2>8, <2>9, <2>10, StateValues DEF len
<1>2. QED
  BY <1>1, CInvAlways, PTL

\* close() on one end is seen by the other: FIN_WAIT_2 is reached only when the
\* peer has taken the FIN, and a peer that has taken it expects nothing more.
THEOREM FinAgreed == Spec /\ ServersListen => []FinCounted
<1>1. CInv => FinCounted
  <2> SUFFICES ASSUME CInv, NEW a \in Node, NEW b \in Node, Connected(a, b)
               PROVE  /\ sock[a].state = FIN_WAIT_2 => sock[b].state \in {CLOSE_WAIT, LAST_ACK}
                      /\ sock[a].state \in {FIN_WAIT_1, FIN_WAIT_2}
                            /\ sock[b].state \in {CLOSE_WAIT, LAST_ACK}
                            => sock[b].remoteSeq = sock[a].localSeq
    BY DEF FinCounted
  <2> DEFINE s == sock[a]
             t == sock[b]
             len == Len(t.got)
             base == Base(s)
             seen == FinSeen(t)
  <2>1. HalfOK(s, t)
    BY Ends DEF Half
  <2>2. s \in Socket_ /\ t \in Socket_
    BY BInvTypes DEF CInv, HInv
  <2>3. /\ s.localSeq \in Nat /\ s.sent \in Nat /\ s.start \in Nat
        /\ len \in Nat /\ seen \in {0, 1} /\ base \in Int /\ t.remoteSeq \in Nat
    BY <2>2, SockNumbers
  <2>4. ASSUME s.state = 6
        PROVE  seen = 1
    <3>1. FinSent(s) = 1
      BY <2>4 DEF FinSent
    <3>2. base = s.localSeq - (s.sent - s.start) - 1
      BY <2>3, <3>1 DEF Base
    <3>3. t.remoteSeq = base + len + seen /\ len <= s.sent - s.start /\ t.remoteSeq = s.localSeq
      BY <2>1, <2>4 DEF HalfOK
    <3> HIDE DEF len, base, seen
    <3>4. QED
      BY <2>3, <3>2, <3>3
  <2>5. seen = 1 <=> t.state \in {7, 9}
    BY DEF FinSeen
  <2>6. seen = 1 => t.remoteSeq = s.localSeq
    BY <2>1 DEF HalfOK
  <2> HIDE DEF seen
  <2>7. QED
    BY <2>4, <2>5, <2>6, StateValues
<1>2. QED
  BY <1>1, CInvAlways, PTL

\* Both ends of a connection close through LAST_ACK or a reset: CLOSING and
\* TIME_WAIT (TCPHandler.cpp:41-42), which an acknowledgement of the FIN would have
\* to bring, are never entered between two devices that run this library.
NeverWaits == \A n \in Node : sock[n].state \notin {CLOSING, TIME_WAIT}

THEOREM NoTimeWait == Spec /\ ServersListen => []NeverWaits
<1>1. CInv => NeverWaits
  BY StateValues DEF CInv, Fields, DevStates, LiveStates, NeverWaits
<1>2. QED
  BY <1>1, CInvAlways, PTL

-----------------------------------------------------------------------------
(* The FINs, where some devices put their last data and their FIN together. *)
(* handleSegment() then takes the FIN's number back off remoteSeq, so that   *)
(* the counts of CInv no longer hold.  What is left of them (FInv): no end   *)
(* takes for received a FIN that the other has not sent.                    *)

AnyLive == LiveStates \cup {8, 10}
AnyStates(n) == DevStates(n) \cup {8, 10}

\* FinSent, FinSeen and Base, with CLOSING and TIME_WAIT.
FinOut(s) == IF s.state \in {5, 6, 8, 9, 10} THEN 1 ELSE 0
FinIn(s)  == IF s.state \in {7, 8, 9, 10} THEN 1 ELSE 0
First(s)  == s.localSeq - (s.sent - s.start) - FinOut(s)

Aged(n, s) ==
    /\ s.sent >= s.start
    /\ s.state \notin {8, 10} => Young(n, s)
    /\ s.state \in {8, 10} => s.opened \/ (n \in Hosts /\ s.state = 8 /\ s.sent = s.start)

AnyFields ==
    \A n \in Node : /\ sock[n].state \in AnyStates(n)
                    /\ Aged(n, sock[n])
                    /\ n \in Hosts => sock[n].remoteIP \notin Hosts

\* What n expects next moves on within a segment that is in order.
Takes(n, s, t) ==
    \/ t.remoteSeq = s.remoteSeq /\ FinIn(t) = FinIn(s)
    \/ \E m \in net :
          /\ FromPeer(n, m) /\ ~HasRst(m) /\ m.seq = s.remoteSeq
          /\ HasFin(m) \/ m.data.len > 0
          /\ s.remoteSeq <= t.remoteSeq /\ t.remoteSeq <= m.seq + Extent(m)
          /\ FinIn(t) = FinIn(s) \/ (FinIn(t) = 1 /\ HasFin(m))

\* A step of a connected socket.
AnyTalks(n, t) ==
    LET s == sock[n] IN
    /\ s.state \in AnyLive /\ t.state \in AnyLive
    /\ t.localPort = s.localPort /\ t.remoteIP = s.remoteIP /\ t.remotePort = s.remotePort
    /\ First(t) = First(s)
    /\ FinOut(s) = 1 => FinOut(t) = 1
    /\ Takes(n, s, t)
    /\ t.opened => s.opened \/ AckedAll(n)
    /\ ~t.opened => ~s.opened
    /\ s.state \in {3, 5, 8} /\ ~t.opened =>
          t.remoteSeq - FinIn(t) = s.remoteSeq - FinIn(s)

\* A segment that it sends.
AnyNew(t, m) ==
    \/ HasSyn(m) /\ ~HasFin(m) /\ t.state = 3 /\ m.seq = t.localSeq - 1 /\ m.ack = t.remoteSeq
    \/ ~HasSyn(m) /\ m.seq >= First(t) /\ (HasFin(m) => FinOut(t) = 1)

AnyGoes(n, t, out) ==
    AnyTalks(n, t) /\ \A m \in out : HasRst(m) \/ AnyNew(t, m)

AnyMoves(n, t, out) ==
    \/ Rests(n, t)
    \/ Calls(n, t, out)
    \/ \E m \in net : Accepts(n, m, t, out)
    \/ Waits(n, t)
    \/ \E m \in net : Joins(n, m, t, out) /\ m.ctl = {"SYN", "ACK"}
    \/ AnyGoes(n, t, out)

LEMMA AnyNumbers ==
  ASSUME NEW s \in Socket_
  PROVE  /\ s.localSeq \in Nat /\ s.remoteSeq \in Nat /\ s.sent \in Nat /\ s.start \in Nat
         /\ FinOut(s) \in {0, 1} /\ FinIn(s) \in {0, 1} /\ First(s) \in Int
         /\ s.sent >= s.start => First(s) <= s.localSeq - FinOut(s)
<1>1. s.localSeq \in Nat /\ s.remoteSeq \in Nat /\ s.sent \in Nat /\ s.start \in Nat
  BY DEF Socket_
<1>2. FinOut(s) \in {0, 1} /\ FinIn(s) \in {0, 1}
  BY DEF FinOut, FinIn
<1>3. QED
  BY <1>1, <1>2 DEF First

\* Outside CLOSING and TIME_WAIT nothing is new.
LEMMA LiveFins ==
  ASSUME NEW s, s.state \in LiveStates
  PROVE  FinOut(s) = FinSent(s) /\ FinIn(s) = FinSeen(s) /\ First(s) = Base(s)
<1>1. FinOut(s) = FinSent(s) /\ FinIn(s) = FinSeen(s)
  BY DEF LiveStates, FinOut, FinIn, FinSent, FinSeen
<1>2. QED
  BY <1>1 DEF First, Base

LEMMA GoesAny ==
  ASSUME NEW n, NEW t \in Socket_, sock[n] \in Socket_, NEW out, Young(n, t),
         \A m \in out : m \in Outgoing, \A m \in net : m \in Outgoing, Goes(n, t, out)
  PROVE  AnyGoes(n, t, out)
<1> DEFINE s == sock[n]
<1>1. /\ s.state \in LiveStates /\ t.state \in LiveStates
      /\ t.localPort = s.localPort /\ t.remoteIP = s.remoteIP /\ t.remotePort = s.remotePort
      /\ Sender(n, s, t) /\ Receiver(n, s, t) /\ Opens(n, s, t)
  BY DEF Goes, Talks
<1>2. /\ FinOut(t) = FinSent(t) /\ FinIn(t) = FinSeen(t) /\ First(t) = Base(t)
      /\ FinOut(s) = FinSent(s) /\ FinIn(s) = FinSeen(s) /\ First(s) = Base(s)
  BY <1>1, LiveFins
<1>3. s.remoteSeq \in Nat /\ t.remoteSeq \in Nat
  BY AnyNumbers
<1>4. Takes(n, s, t)
  <2>1. CASE t.remoteSeq = s.remoteSeq /\ FinSeen(t) = FinSeen(s)
    BY <1>2, <2>1 DEF Takes
  <2>2. ASSUME NEW m \in net, InBlockOrder(n, m), HasFin(m), t.remoteSeq = m.seq + 1,
               FinSeen(t) = 1
        PROVE  Takes(n, s, t)
    <3>1. Extent(m) \in Nat /\ Extent(m) >= 1
      BY <2>2, OutFields
    <3>2. FromPeer(n, m) /\ ~HasRst(m) /\ m.seq = s.remoteSeq
      BY <2>2 DEF InBlockOrder
    <3>3. s.remoteSeq <= t.remoteSeq /\ t.remoteSeq <= m.seq + Extent(m)
      BY <1>3, <2>2, <3>1, <3>2
    <3>4. QED
      BY <1>2, <2>2, <3>2, <3>3 DEF Takes
  <2>3. ASSUME NEW m \in net, InBlockOrder(n, m), m.data.len > 0,
               t.remoteSeq = m.seq + m.data.len, FinSeen(t) = 0
        PROVE  Takes(n, s, t)
    <3>1. Extent(m) \in Nat /\ Extent(m) >= m.data.len /\ m.data.len \in Nat
      BY <2>3, OutFields
    <3>2. FromPeer(n, m) /\ ~HasRst(m) /\ m.seq = s.remoteSeq /\ FinSeen(s) = 0
      BY <2>3 DEF InBlockOrder, FinSeen
    <3>3. s.remoteSeq <= t.remoteSeq /\ t.remoteSeq <= m.seq + Extent(m)
      BY <1>3, <2>3, <3>1, <3>2
    <3>4. QED
      BY <1>2, <2>3, <3>2, <3>3 DEF Takes
  <2>4. QED
    BY <1>1, <2>1, <2>2, <2>3 DEF Receiver
<1>5. ASSUME s.state \in {3, 5, 8}, ~t.opened
      PROVE  t.remoteSeq - FinIn(t) = s.remoteSeq - FinIn(s)
  <2>1. s.state \in {3, 5} /\ t.state \in {3, 5} /\ t.remoteSeq = s.remoteSeq
    BY <1>1, <1>5 DEF LiveStates, Opens
  <2>2. FinIn(t) = 0 /\ FinIn(s) = 0
    BY <2>1 DEF FinIn
  <2>3. QED
    BY <2>1, <2>2
<1>6. AnyTalks(n, t)
  BY <1>1, <1>2, <1>4, <1>5 DEF AnyTalks, AnyLive, Sender, Opens
<1>7. ASSUME NEW m \in out, NewOK(t, m)
      PROVE  AnyNew(t, m)
  <2>1. First(t) \in Int /\ FinOut(t) \in {0, 1} /\ t.localSeq \in Nat /\ m.seq \in Nat
        /\ First(t) <= t.localSeq - FinOut(t)
    BY AnyNumbers, OutFields DEF Young
  <2>2. CASE ~HasSyn(m) /\ HasFin(m) /\ FinSent(t) = 1 /\ m.seq = t.localSeq - 1
    BY <1>2, <2>1, <2>2 DEF AnyNew
  <2>3. QED
    BY <1>2, <1>7, <2>2 DEF NewOK, AnyNew
<1>8. QED
  BY <1>6, <1>7 DEF Goes, AnyGoes

\* What has come of the numbers, where only the state changes.
LEMMA SameFirst ==
  ASSUME NEW s, NEW t, t.localSeq = s.localSeq, t.sent = s.sent, t.start = s.start,
         FinOut(t) = FinOut(s)
  PROVE  First(t) = First(s)
  BY DEF First

\* CLOSING and TIME_WAIT: only the FIN again, and the acknowledgement of it.
LEMMA LateKind ==
  ASSUME ServersListen, NEW n \in Node, NEW t \in Socket_, NEW out, sock[n] \in Socket_,
         sock[n].state \in {8, 10}, Aged(n, sock[n]), Kind(n, t, out)
  PROVE  Rests(n, t) \/ (AnyGoes(n, t, out) /\ Aged(n, t) /\ t.state \in {8, 10})
<1> DEFINE s == sock[n]
<1>1. /\ s.localSeq \in Nat /\ t.localSeq \in Nat /\ s.sent \in Nat /\ s.start \in Nat
      /\ t.sent \in Nat /\ t.start \in Nat
      /\ First(s) \in Int /\ First(t) \in Int /\ FinOut(s) = 1 /\ FinIn(s) = 1
      /\ First(s) <= s.localSeq - 1
  <2>1. FinOut(s) = 1 /\ FinIn(s) = 1
    BY DEF FinOut, FinIn
  <2>2. QED
    BY <2>1, AnyNumbers DEF Aged
<1>2. ASSUME Same(s, t), t.sent = s.sent, t.localSeq = s.localSeq, t.opened = s.opened,
             t.state = s.state
      PROVE  AnyTalks(n, t) /\ Aged(n, t) /\ First(t) = First(s)
  <2>1. FinOut(t) = FinOut(s) /\ FinIn(t) = FinIn(s)
    BY <1>2 DEF FinOut, FinIn
  <2>2. First(t) = First(s)
    BY <1>2, <2>1, SameFirst DEF Same
  <2>3. Aged(n, t)
    BY <1>2 DEF Aged, Same
  <2>4. Takes(n, s, t)
    BY <1>2, <2>1 DEF Takes, Same
  <2>5. QED
    BY <1>2, <2>1, <2>2, <2>3, <2>4 DEF AnyTalks, AnyLive, Same
<1>3. CASE Leaves(n, t, out)
  BY <1>3 DEF Leaves, Same, Rests, isHost
<1>4. CASE Answers(n, t, out)
  <2>1. Same(s, t) /\ t.sent = s.sent /\ t.localSeq = s.localSeq /\ t.opened = s.opened
        /\ t.state = s.state
    BY <1>4 DEF Answers, Quiet
  <2>2. ASSUME NEW k \in out, ~HasRst(k)
        PROVE  AnyNew(t, k)
    <3>1. Carries(n, s, k, {"ACK"}, s.localSeq, s.remoteSeq, NoData)
      BY <1>4, <2>2 DEF Answers
    <3>2. ~HasSyn(k) /\ ~HasFin(k) /\ k.seq = s.localSeq
      BY <3>1, Flags DEF Carries
    <3>3. QED
      BY <1>1, <1>2, <2>1, <3>2 DEF AnyNew
  <2>3. AnyGoes(n, t, out) /\ Aged(n, t) /\ t.state \in {8, 10}
    BY <1>2, <2>1, <2>2 DEF AnyGoes
  <2>4. QED
    BY <2>3
<1>5. CASE Repeats(n, t, out)
  <2>1. Same(s, t) /\ t.sent = s.sent /\ t.localSeq = s.localSeq /\ t.opened = s.opened
        /\ t.state = s.state
    BY <1>5 DEF Repeats, Quiet
  <2>2. ASSUME NEW k \in out
        PROVE  AnyNew(t, k)
    <3>1. Carries(n, s, k, {"FIN", "ACK"}, s.localSeq - 1, s.remoteSeq, NoData)
      BY <1>5, <2>2, StateValues DEF Repeats
    <3>2. ~HasSyn(k) /\ k.seq = s.localSeq - 1
      BY <3>1, Flags DEF Carries
    <3>3. FinOut(t) = 1
      BY <2>1 DEF FinOut
    <3>4. QED
      BY <1>1, <1>2, <2>1, <3>2, <3>3 DEF AnyNew
  <2>3. AnyGoes(n, t, out) /\ Aged(n, t) /\ t.state \in {8, 10}
    BY <1>2, <2>1, <2>2 DEF AnyGoes
  <2>4. QED
    BY <2>3
<1>6. ASSUME NEW m \in net, Acked(n, m, t, out)
      PROVE  AnyGoes(n, t, out) /\ Aged(n, t) /\ t.state \in {8, 10}
  <2>1. /\ Same(s, t) /\ t.sent = s.sent /\ t.localSeq = s.localSeq /\ t.opened = TRUE
        /\ t.state = AckState(n, s.state) /\ out = {} /\ FromPeer(n, m)
        /\ m \in net /\ ~HasRst(m) /\ HasAck(m) /\ m.ack = s.localSeq
    BY <1>6, StateValues DEF Acked
  <2>2. t.state = 10
    BY <2>1, StateValues DEF AckState
  <2>3. FinOut(t) = 1 /\ FinIn(t) = 1
    BY <2>2 DEF FinOut, FinIn
  <2>4. First(t) = First(s)
    BY <1>1, <2>1, <2>3, SameFirst DEF Same
  <2>5. Aged(n, t)
    BY <2>1, <2>2 DEF Aged, Same
  <2>6. Takes(n, s, t)
    BY <1>1, <2>1, <2>3 DEF Takes, Same
  <2>7. AckedAll(n)
    BY <2>1 DEF AckedAll
  <2>8. AnyTalks(n, t)
    BY <2>1, <2>2, <2>3, <2>4, <2>6, <2>7 DEF AnyTalks, AnyLive, Same
  <2>9. QED
    BY <2>1, <2>2, <2>5, <2>8 DEF AnyGoes
<1>7. ASSUME Received(n, t, out)
      PROVE  \E m \in net : Acked(n, m, t, out)
  <2>1. ASSUME NEW m \in net
        PROVE  ~Accepts(n, m, t, out) /\ ~Joins(n, m, t, out) /\ ~InBlockOrder(n, m)
    BY StateValues DEF Accepts, Joins, InBlockOrder
  <2>2. QED
    BY <1>7, <2>1, Zenon DEF Received, TakesAck, TakesFin, TakesData
<1>8. ~Looks(n, t, out) /\ ~Calls(n, t, out) /\ ~Sends(n, s, t, out) /\ ~Closes(n, s, t, out)
  BY StateValues DEF Looks, Calls, Sends, Closes, ServersListen, localClosed
<1>9. QED
  BY <1>3, <1>4, <1>5, <1>6, <1>7, <1>8 DEF Kind

\* The last data and the FIN leave, or come; a FIN comes late.
LEMMA SendsEndGoes ==
  ASSUME NEW n, NEW t \in Socket_, NEW out, sock[n] \in Socket_, Young(n, sock[n]),
         SendsEnd(n, t, out)
  PROVE  AnyGoes(n, t, out) /\ Aged(n, t) /\ t.state = 5
<1> DEFINE s == sock[n]
<1>1. PICK d \in Data : /\ d.len > 0 /\ t.sent = s.sent + d.len /\ t.localSeq = s.localSeq + d.len + 1
                        /\ \A m \in out : Carries(n, s, m, {"FIN", "ACK"}, s.localSeq, s.remoteSeq, d)
  BY DEF SendsEnd
<1>2. s.state = 4 /\ t.state = 5 /\ Same(s, t) /\ t.opened = s.opened /\ t.start = s.start
      /\ t.remoteSeq = s.remoteSeq
  BY StateValues DEF SendsEnd, Same
<1>3. FinOut(s) = 0 /\ FinOut(t) = 1 /\ FinIn(s) = 0 /\ FinIn(t) = 0
  BY <1>2 DEF FinOut, FinIn
<1>4. /\ s.localSeq \in Nat /\ s.sent \in Nat /\ s.start \in Nat /\ d.len \in Nat
      /\ First(s) \in Int /\ First(s) <= s.localSeq /\ s.sent >= s.start
  BY <1>3, AnyNumbers DEF Young, Data
<1>5. First(t) = First(s)
  BY <1>1, <1>2, <1>3, <1>4 DEF First
<1>6. Takes(n, s, t)
  BY <1>2, <1>3 DEF Takes
<1>7. ~t.opened => t.sent = t.start
  <2>1. n \in Hosts => s.opened
    BY <1>2 DEF Young
  <2>2. n \notin Hosts => s.opened
    BY <1>2 DEF Young, LiveStates
  <2>3. QED
    BY <1>2, <2>1, <2>2
<1>8. s.opened
  BY <1>2 DEF Young, LiveStates
<1>9. AnyTalks(n, t)
  BY <1>2, <1>3, <1>5, <1>6, <1>8 DEF AnyTalks, AnyLive, LiveStates, Same
<1>10. Aged(n, t)
  BY <1>1, <1>2, <1>4, <1>8 DEF Aged, Young
<1>11. ASSUME NEW m \in out
       PROVE  AnyNew(t, m)
  <2>1. Carries(n, s, m, {"FIN", "ACK"}, s.localSeq, s.remoteSeq, d)
    BY <1>1, <1>11
  <2>2. ~HasSyn(m) /\ m.seq = s.localSeq
    BY <2>1, Flags DEF Carries
  <2>3. QED
    BY <1>3, <1>4, <1>5, <2>2 DEF AnyNew
<1>12. QED
  BY <1>2, <1>9, <1>10, <1>11 DEF AnyGoes

LEMMA LateFinGoes ==
  ASSUME NEW n, NEW t \in Socket_, NEW out, sock[n] \in Socket_, Young(n, sock[n]),
         NEW m \in net, m \in Outgoing, TakesLateFin(n, m, t, out)
  PROVE  AnyGoes(n, t, out) /\ Aged(n, t) /\ t.state \in {8, 10}
<1> DEFINE s == sock[n]
<1>1. /\ FromPeer(n, m) /\ ~HasRst(m) /\ HasFin(m) /\ m.data.len = 0
      /\ m.seq = s.remoteSeq /\ Heard(s, t)
      /\ \/ s.state = 6 /\ t.state = 10
         \/ s.state = 5 /\ t.state = 8
      /\ \A k \in out : Carries(n, t, k, {"ACK"}, s.localSeq, t.remoteSeq, NoData)
  BY StateValues DEF TakesLateFin
<1>2. /\ t.localPort = s.localPort /\ t.remoteIP = s.remoteIP /\ t.remotePort = s.remotePort
      /\ t.remoteSeq = s.remoteSeq + 1 /\ t.start = s.start
      /\ t.opened = s.opened /\ t.sent = s.sent /\ t.localSeq = s.localSeq
  BY <1>1 DEF Heard
<1>3. FinOut(s) = 1 /\ FinOut(t) = 1 /\ FinIn(s) = 0 /\ FinIn(t) = 1
  BY <1>1 DEF FinOut, FinIn
<1>4. /\ s.localSeq \in Nat /\ s.remoteSeq \in Nat /\ First(s) \in Int
      /\ First(s) <= s.localSeq - 1 /\ s.sent >= s.start
  BY <1>3, AnyNumbers DEF Young
<1>5. First(t) = First(s)
  BY <1>2, <1>3, SameFirst
<1>6. Takes(n, s, t)
  <2>1. Extent(m) \in Nat /\ Extent(m) >= 1
    BY <1>1, OutFields
  <2>2. s.remoteSeq <= t.remoteSeq /\ t.remoteSeq <= m.seq + Extent(m)
    BY <1>1, <1>2, <1>4, <2>1
  <2>3. QED
    BY <1>1, <1>3, <2>2 DEF Takes
<1>7. AnyTalks(n, t)
  <2>1. t.remoteSeq - FinIn(t) = s.remoteSeq - FinIn(s)
    BY <1>2, <1>3, <1>4
  <2>2. QED
    BY <1>1, <1>2, <1>3, <1>5, <1>6, <2>1 DEF AnyTalks, AnyLive, LiveStates
<1>8. Aged(n, t)
  <2>1. s.opened \/ (n \in Hosts /\ s.state = 5 /\ s.sent = s.start)
    BY <1>1 DEF Young, LiveStates
  <2>2. QED
    BY <1>1, <1>2, <1>4, <2>1 DEF Aged
<1>9. ASSUME NEW k \in out
      PROVE  AnyNew(t, k)
  <2>1. Carries(n, t, k, {"ACK"}, s.localSeq, t.remoteSeq, NoData)
    BY <1>1, <1>9
  <2>2. ~HasSyn(k) /\ ~HasFin(k) /\ k.seq = s.localSeq
    BY <2>1, Flags DEF Carries
  <2>3. QED
    BY <1>4, <1>5, <2>2 DEF AnyNew
<1>10. QED
  BY <1>1, <1>7, <1>8, <1>9 DEF AnyGoes

\* What the application says while the socket r is at the data that came with a FIN.
LEMMA SpeaksFirst ==
  ASSUME NEW n, NEW r \in Socket_, NEW u, NEW said, r.state \in {4, 244},
         r.sent >= r.start, Speaks(n, r, u, said)
  PROVE  /\ u \in Socket_ /\ u.state \in {4, 5, 244} /\ u.sent >= u.start
         /\ u.localPort = r.localPort /\ u.remoteIP = r.remoteIP /\ u.remotePort = r.remotePort
         /\ u.remoteSeq = r.remoteSeq /\ u.start = r.start /\ u.opened = r.opened
         /\ First(u) = First(r)
         /\ \A k \in said : /\ ~HasSyn(k) /\ k.seq >= First(r)
                            /\ HasFin(k) => u.state = 5
<1>1. /\ r.localSeq \in Nat /\ r.sent \in Nat /\ r.start \in Nat /\ FinOut(r) = 0
      /\ First(r) \in Int /\ First(r) <= r.localSeq /\ u \in Socket_
  <2>1. FinOut(r) = 0
    BY DEF FinOut
  <2>2. QED
    BY <2>1, AnyNumbers DEF Speaks
<1>2. CASE Quiet(r, u) /\ u.state = r.state /\ said = {}
  <2>1. FinOut(u) = 0
    BY <1>2 DEF FinOut
  <2>2. First(u) = First(r)
    BY <1>1, <1>2, <2>1, SameFirst DEF Quiet, Same
  <2>3. QED
    BY <1>1, <1>2, <2>2 DEF Quiet, Same
<1>3. CASE Sends(n, r, u, said)
  <2>1. PICK d \in Data : /\ d.len > 0 /\ SendsOf(r, u, d)
                          /\ \A m \in said : Carries(n, r, m, {"ACK"}, r.localSeq, r.remoteSeq, d)
    BY <1>3 DEF Sends
  <2>2. /\ Same(r, u) /\ u.opened = r.opened /\ u.sent = r.sent + d.len
        /\ u.localSeq = r.localSeq + d.len /\ u.state = 244 /\ u.start = r.start
    BY <2>1 DEF SendsOf, Same
  <2>3. FinOut(u) = 0 /\ d.len \in Nat
    BY <2>2 DEF FinOut, Data
  <2>4. First(u) = First(r) /\ u.sent >= u.start
    BY <1>1, <2>2, <2>3 DEF First
  <2>5. ASSUME NEW k \in said
        PROVE  ~HasSyn(k) /\ ~HasFin(k) /\ k.seq >= First(r)
    <3>1. Carries(n, r, k, {"ACK"}, r.localSeq, r.remoteSeq, d)
      BY <2>1, <2>5
    <3>2. QED
      BY <1>1, <3>1, Flags DEF Carries
  <2>6. QED
    BY <1>1, <2>2, <2>4, <2>5 DEF Same
<1>4. CASE Closes(n, r, u, said)
  <2>1. /\ Same(r, u) /\ u.opened = r.opened /\ u.sent = r.sent
        /\ u.localSeq = r.localSeq + 1 /\ u.state = 5 /\ u.start = r.start
    BY <1>4, StateValues DEF Closes, Counts, Same, ClosedState
  <2>2. FinOut(u) = 1
    BY <2>1 DEF FinOut
  <2>3. First(u) = First(r)
    BY <1>1, <2>1, <2>2 DEF First
  <2>4. ASSUME NEW k \in said
        PROVE  ~HasSyn(k) /\ k.seq >= First(r)
    <3>1. Carries(n, r, k, {"FIN", "ACK"}, r.localSeq, r.remoteSeq, NoData)
      BY <1>4, <2>4 DEF Closes
    <3>2. QED
      BY <1>1, <3>1, Flags DEF Carries
  <2>5. QED
    BY <1>1, <2>1, <2>3, <2>4 DEF Same
<1>5. CASE SaysBoth(n, r, u, said)
  <2>1. Same(r, u) /\ u.opened = r.opened /\ u.state = 5 /\ u.start = r.start
    BY <1>5, BothSaid, StateValues DEF Same
  <2>2. PICK d \in Data :
           /\ u.sent = r.sent + d.len /\ u.localSeq = r.localSeq + d.len + 1
           /\ \A k \in said :
                 \/ Carries(n, r, k, {"ACK"}, r.localSeq, r.remoteSeq, d)
                 \/ Carries(n, r, k, {"FIN", "ACK"}, r.localSeq + d.len, r.remoteSeq, NoData)
    BY <1>5, BothSaid
  <2>3. FinOut(u) = 1 /\ d.len \in Nat
    BY <2>1 DEF FinOut, Data
  <2>4. First(u) = First(r) /\ u.sent >= u.start
    BY <1>1, <2>1, <2>2, <2>3 DEF First
  <2>5. ASSUME NEW k \in said
        PROVE  ~HasSyn(k) /\ k.seq >= First(r)
    <3>1. ~HasSyn(k) /\ k.seq \in {r.localSeq, r.localSeq + d.len}
      BY <2>2, <2>5, Flags DEF Carries
    <3>2. QED
      BY <1>1, <2>3, <3>1
  <2>6. QED
    BY <1>1, <2>1, <2>4, <2>5 DEF Same
<1>6. QED
  BY <1>2, <1>3, <1>4, <1>5 DEF Speaks

LEMMA TakesEndGoes ==
  ASSUME NEW n, NEW t \in Socket_, NEW out, sock[n] \in Socket_, Young(n, sock[n]),
         sock[n].state # 20, NEW m \in net, m \in Outgoing, NEW r, NEW u, NEW said,
         TakesEnd(n, m, r, u, said, t, out)
  PROVE  AnyGoes(n, t, out) /\ Aged(n, t) /\ t.state \in {7, 8, 10}
<1> DEFINE s == sock[n]
<1>1. /\ InBlockOrder(n, m) /\ HasFin(m) /\ m.data.len > 0
      /\ r \in Socket_ /\ Heard(s, r) /\ r.state = s.state /\ Speaks(n, r, u, said)
      /\ TakesBytes(m, u, t)
      /\ \A k \in out : k \in said \/ Carries(n, t, k, {"ACK"}, t.localSeq, t.remoteSeq, NoData)
  BY DEF TakesEnd
<1>2. /\ FromPeer(n, m) /\ ~HasRst(m) /\ s.state \in {4, 244} /\ m.seq = s.remoteSeq
  BY <1>1 DEF InBlockOrder
<1>3. /\ r.localPort = s.localPort /\ r.remoteIP = s.remoteIP /\ r.remotePort = s.remotePort
      /\ r.remoteSeq = s.remoteSeq + 1 /\ r.start = s.start /\ r.opened = s.opened
      /\ r.sent = s.sent /\ r.localSeq = s.localSeq
  BY <1>1 DEF Heard
<1>4. s.sent >= s.start /\ s.opened
  BY <1>2 DEF Young, LiveStates
<1>5. /\ u \in Socket_ /\ u.state \in {4, 5, 244} /\ u.sent >= u.start
      /\ u.localPort = r.localPort /\ u.remoteIP = r.remoteIP /\ u.remotePort = r.remotePort
      /\ u.remoteSeq = r.remoteSeq /\ u.start = r.start /\ u.opened = r.opened
      /\ First(u) = First(r)
      /\ \A k \in said : /\ ~HasSyn(k) /\ k.seq >= First(r)
                         /\ HasFin(k) => u.state = 5
  <2>1. r \in Socket_ /\ r.state \in {4, 244} /\ r.sent >= r.start /\ Speaks(n, r, u, said)
    BY <1>1, <1>2, <1>3, <1>4
  <2>2. QED
    BY <2>1, SpeaksFirst
<1>6. /\ t.localPort = u.localPort /\ t.remoteIP = u.remoteIP /\ t.remotePort = u.remotePort
      /\ t.start = u.start /\ t.sent = u.sent /\ t.localSeq = u.localSeq /\ t.opened = u.opened
      /\ t.remoteSeq \in {m.seq + m.data.len, u.remoteSeq}
  BY <1>1 DEF TakesBytes
<1>7. \/ t.state = 7 /\ u.state \in {4, 244}
      \/ t.state \in {8, 10} /\ u.state = 5
  <2>1. /\ u.state \in {4, 20, 244, FIN_WAIT_1}
        /\ t.state = IF u.state = FIN_WAIT_1
                     THEN IF m.ack = u.localSeq THEN TIME_WAIT ELSE CLOSING
                     ELSE CLOSE_WAIT
    BY EndState
  <2>2. QED
    BY <1>5, <2>1, StateValues
<1>8. FinOut(t) = FinOut(u) /\ FinIn(t) = 1 /\ FinOut(s) = 0 /\ FinOut(r) = 0
  BY <1>1, <1>2, <1>7 DEF FinOut, FinIn
<1>9. First(t) = First(s)
  <2>1. First(t) = First(u)
    BY <1>6, <1>8, SameFirst
  <2>2. First(r) = First(s)
    BY <1>3, <1>8, SameFirst
  <2>3. QED
    BY <1>5, <2>1, <2>2
<1>10. /\ t.localSeq \in Nat /\ First(t) \in Int /\ t.sent >= t.start
       /\ First(t) <= t.localSeq
  <2>1. t.sent >= t.start
    BY <1>5, <1>6
  <2>2. /\ t.localSeq \in Nat /\ First(t) \in Int /\ FinOut(t) \in {0, 1}
        /\ First(t) <= t.localSeq - FinOut(t)
    BY <2>1, AnyNumbers
  <2>3. QED
    BY <2>1, <2>2
<1>11. Takes(n, s, t)
  <2>1. s.remoteSeq \in Nat /\ m.data.len \in Nat /\ Extent(m) \in Nat
        /\ Extent(m) >= m.data.len /\ Extent(m) >= 1
    BY <1>1, OutFields, AnyNumbers
  <2>2. s.remoteSeq <= t.remoteSeq /\ t.remoteSeq <= m.seq + Extent(m)
    BY <1>2, <1>3, <1>5, <1>6, <2>1
  <2>3. QED
    BY <1>1, <1>2, <1>8, <2>2 DEF Takes
<1>12. AnyTalks(n, t)
  <2>1. t.opened /\ s.opened
    BY <1>3, <1>4, <1>5, <1>6
  <2>2. s.state \in AnyLive /\ t.state \in AnyLive
    BY <1>2, <1>7 DEF AnyLive, LiveStates
  <2>3. QED
    BY <1>3, <1>5, <1>6, <1>8, <1>9, <1>11, <2>1, <2>2 DEF AnyTalks
<1>13. Aged(n, t)
  BY <1>3, <1>4, <1>5, <1>6, <1>7, <1>10 DEF Aged, Young
<1>14. ASSUME NEW k \in out
       PROVE  AnyNew(t, k)
  <2>1. CASE k \in said
    <3>1. ~HasSyn(k) /\ k.seq >= First(r) /\ (HasFin(k) => u.state = 5)
      BY <1>5, <2>1
    <3>2. First(r) = First(t)
      BY <1>3, <1>8, <1>9, SameFirst
    <3>3. HasFin(k) => FinOut(t) = 1
      BY <1>7, <3>1 DEF FinOut
    <3>4. QED
      BY <3>1, <3>2, <3>3 DEF AnyNew
  <2>2. CASE Carries(n, t, k, {"ACK"}, t.localSeq, t.remoteSeq, NoData)
    <3>1. ~HasSyn(k) /\ ~HasFin(k) /\ k.seq = t.localSeq
      BY <2>2, Flags DEF Carries
    <3>2. QED
      BY <1>10, <3>1 DEF AnyNew
  <2>3. QED
    BY <1>1, <1>14, <2>1, <2>2
<1>15. QED
  BY <1>7, <1>12, <1>13, <1>14 DEF AnyGoes

LEMMA AnyMoveKind ==
  ASSUME SInv, SynInv, ServersListen, NEW n \in Node, NEW t \in Socket_, NEW out,
         \A m \in out : m \in Outgoing, \A m \in net : m \in Outgoing,
         sock[n].state \in AnyStates(n), Aged(n, sock[n]),
         n \in Hosts => sock[n].remoteIP \notin Hosts,
         n \notin Hosts => sock[n].remoteIP = Server[n],
         AnyKind(n, t, out)
  PROVE  /\ AnyMoves(n, t, out) /\ t.state \in AnyStates(n) /\ Aged(n, t)
         /\ n \in Hosts => t.remoteIP \notin Hosts
<1> DEFINE s == sock[n]
           Goal == /\ AnyMoves(n, t, out) /\ t.state \in AnyStates(n) /\ Aged(n, t)
                   /\ n \in Hosts => t.remoteIP \notin Hosts
<1>1. s \in Socket_ /\ s.sent >= s.start
  BY InSInv, OfInv DEF Aged
<1>2. ASSUME AnyGoes(n, t, out), Aged(n, t), t.state \in AnyLive \ {3}
      PROVE  Goal
  <2>1. t.remoteIP = s.remoteIP
    BY <1>2 DEF AnyGoes, AnyTalks
  <2>2. t.state \in AnyStates(n)
    BY <1>2 DEF AnyLive, AnyStates, DevStates, LiveStates
  <2>3. QED
    BY <1>2, <2>1, <2>2 DEF AnyMoves
<1>3. ASSUME s.state \in DevStates(n)
      PROVE  Young(n, s)
  BY <1>3 DEF Aged, DevStates, LiveStates
<1>4. CASE s.state \in DevStates(n) /\ Kind(n, t, out)
  <2>1. Moves(n, t, out)
    BY <1>3, <1>4, MoveKind
  <2>2. /\ t.state \in DevStates(n) /\ Young(n, t)
        /\ n \in Hosts => t.remoteIP \notin Hosts
    BY <1>3, <1>4, <2>1, FieldsMove
  <2>3. t.state \in AnyStates(n) /\ Aged(n, t)
    BY <2>2 DEF AnyStates, Aged, DevStates, LiveStates, Young
  <2>4. AnyMoves(n, t, out)
    <3>1. Goes(n, t, out) => AnyGoes(n, t, out)
      BY <1>1, <2>2, GoesAny
    <3>2. QED
      BY <2>1, <3>1 DEF Moves, AnyMoves
  <2>5. QED
    BY <2>2, <2>3, <2>4
<1>5. CASE s.state \in {8, 10} /\ Kind(n, t, out)
  <2>1. Rests(n, t) \/ (AnyGoes(n, t, out) /\ Aged(n, t) /\ t.state \in {8, 10})
    BY <1>1, <1>5, LateKind
  <2>2. CASE Rests(n, t)
    <3>1. t.state \in DevStates(n) \ {2, 3} /\ t.state \notin AnyLive
      BY <2>2, StateValues DEF Rests, DevStates, LiveStates, AnyLive
    <3>2. t.state \notin {2, 3, 8, 10, 244} /\ t.state \notin LiveStates
      BY <3>1 DEF AnyLive, LiveStates
    <3>3. t.sent >= t.start /\ t.remoteIP = s.remoteIP /\ (n \in Hosts => t.state = 1)
      BY <1>1, <2>2, StateValues DEF Rests
    <3>4. Aged(n, t)
      BY <3>2, <3>3 DEF Aged, Young
    <3>5. QED
      BY <2>2, <3>1, <3>3, <3>4 DEF AnyMoves, AnyStates
  <2>3. CASE AnyGoes(n, t, out) /\ Aged(n, t) /\ t.state \in {8, 10}
    BY <1>2, <2>3 DEF AnyLive
  <2>4. QED
    BY <2>1, <2>2, <2>3
<1>6. CASE EndKind(n, t, out)
  <2>1. s.state \in {4, 5, 6, 20, 244}
    BY <1>6, StateValues DEF EndKind, SendsEnd, TakesLateFin, TakesEnd, InBlockOrder
  <2>2. s.state # 20 /\ Young(n, s)
    BY <2>1 DEF Aged, AnyStates, DevStates, LiveStates
  <2>3. CASE SendsEnd(n, t, out)
    BY <1>1, <1>2, <2>2, <2>3, SendsEndGoes DEF AnyLive, LiveStates
  <2>4. ASSUME NEW m \in net, TakesLateFin(n, m, t, out)
        PROVE  Goal
    <3>1. m \in Outgoing
      OBVIOUS
    <3>2. AnyGoes(n, t, out) /\ Aged(n, t) /\ t.state \in {8, 10}
      BY <1>1, <2>2, <2>4, <3>1, LateFinGoes
    <3>3. QED
      BY <1>2, <3>2 DEF AnyLive
  <2>5. ASSUME NEW m \in net, NEW r, NEW u, NEW said, TakesEnd(n, m, r, u, said, t, out)
        PROVE  Goal
    <3>1. m \in Outgoing
      OBVIOUS
    <3>2. AnyGoes(n, t, out) /\ Aged(n, t) /\ t.state \in {7, 8, 10}
      BY <1>1, <2>2, <2>5, <3>1, TakesEndGoes
    <3>3. QED
      BY <1>2, <3>2 DEF AnyLive, LiveStates
  <2>6. QED
    BY <1>6, <2>3, <2>4, <2>5 DEF EndKind
<1>7. s.state \in DevStates(n) \cup {8, 10}
  BY DEF AnyStates
<1>8. QED
  BY <1>4, <1>5, <1>6, <1>7 DEF AnyKind

LEMMA AnyOneMoves ==
  ASSUME HInv, ServersListen, AnyFields, NEW n, NEW t, NEW out,
         Becomes(n, t, out), AnyKind(n, t, out)
  PROVE  /\ n \in Node /\ t \in Socket_ /\ sock'[n] = t
         /\ \A k \in Node : k # n => sock'[k] = sock[k]
         /\ net' \subseteq net \cup out
         /\ \A m \in out : m.src = n /\ m \in Outgoing /\ OutBound(n, sock[n], t, m)
         /\ \A k \in Node : sock[k] \in Socket_ /\ sock'[k] \in Socket_
         /\ \A k \in Node \ Hosts : sock[k].remoteIP = Server[k]
         /\ \A m \in net : m \in Outgoing /\ m.src \in Node /\ m.dst \in Node
         /\ t.localSeq \in Nat /\ t.localSeq >= sock[n].localSeq
         /\ AnyMoves(n, t, out) /\ t.state \in AnyStates(n) /\ Aged(n, t)
         /\ n \in Hosts => t.remoteIP \notin Hosts
<1>1. SInv /\ SynInv /\ BInv
  BY DEF HInv, BInv
<1>2. /\ n \in Node /\ t \in Socket_ /\ sock'[n] = t
      /\ \A k \in Node : k # n => sock'[k] = sock[k]
      /\ net' \subseteq net \cup out
  BY <1>1, BecomesThen
<1>3. \A m \in out : m.src = n /\ m \in Outgoing
  BY DEF Becomes
<1>4. /\ \A m \in out : OutBound(n, sock[n], t, m)
      /\ t.localSeq >= sock[n].localSeq
  BY <1>1, OutAny
<1>5. \A k \in Node : sock[k] \in Socket_
  BY <1>1, BInvTypes
<1>6. \A m \in net : m \in Outgoing /\ m.src \in Node /\ m.dst \in Node
  BY <1>1, BInvTypes
<1>7. \A k \in Node \ Hosts : sock[k].remoteIP = Server[k]
  BY <1>1 DEF BInv, RemoteBound, ServersListen
<1>8. /\ sock[n].state \in AnyStates(n) /\ Aged(n, sock[n])
      /\ n \in Hosts => sock[n].remoteIP \notin Hosts
  BY <1>2 DEF AnyFields
<1>9. /\ AnyMoves(n, t, out) /\ t.state \in AnyStates(n) /\ Aged(n, t)
      /\ n \in Hosts => t.remoteIP \notin Hosts
  BY <1>1, <1>2, <1>3, <1>6, <1>7, <1>8, AnyMoveKind
<1>10. t.localSeq \in Nat
  BY <1>2, SockNumbers
<1>11. \A k \in Node : sock'[k] \in Socket_
  BY <1>2, <1>5
<1>12. QED
  BY <1>2, <1>3, <1>4, <1>5, <1>6, <1>7, <1>9, <1>10, <1>11

LEMMA AnyFieldsNext ==
  ASSUME HInv, ServersListen, AnyFields, NEW n, NEW t, NEW out,
         Becomes(n, t, out), AnyKind(n, t, out)
  PROVE  AnyFields'
<1>1. /\ n \in Node /\ t \in Socket_ /\ sock'[n] = t
      /\ \A k \in Node : k # n => sock'[k] = sock[k]
      /\ t.state \in AnyStates(n) /\ Aged(n, t)
      /\ n \in Hosts => t.remoteIP \notin Hosts
  BY AnyOneMoves
<1>2. ASSUME NEW k \in Node
      PROVE  /\ sock'[k].state \in AnyStates(k) /\ Aged(k, sock'[k])
             /\ k \in Hosts => sock'[k].remoteIP \notin Hosts
  BY <1>1 DEF AnyFields
<1>3. QED
  BY <1>2 DEF AnyFields, AnyStates, DevStates, Aged, Young

\* What is in flight from a live socket: on the host's side the segments of the
\* connections before this one, its SYN|ACK, and then on both sides a FIN only if
\* one was sent.
SegEnds(n, s, m) ==
    /\ n \in Hosts =>
          /\ ~HasSyn(m) /\ m.seq < First(s) => m.seq + Extent(m) < First(s)
          /\ HasSyn(m) => m.seq + 1 <= First(s)
          /\ HasSyn(m) /\ m.seq + 1 = First(s) /\ ~s.opened => m.ack + FinIn(s) = s.remoteSeq
    /\ HasFin(m) /\ m.seq >= First(s) => FinOut(s) = 1

SegEndsInv ==
    \A m \in net : ~HasRst(m) /\ sock[m.src].state \notin {1, 11} =>
        SegEnds(m.src, sock[m.src], m)

\* Where nothing was sent yet, what is in flight is older.
LEMMA FirstIsNext ==
  ASSUME NEW t \in Socket_, t.sent = t.start, FinOut(t) = 0
  PROVE  First(t) = t.localSeq /\ t.localSeq \in Nat
<1>1. t.sent \in Nat /\ t.start \in Nat /\ t.localSeq \in Nat
  BY AnyNumbers
<1>2. QED
  BY <1>1 DEF First

LEMMA BelowFirst ==
  ASSUME NEW n, n \notin Hosts, NEW t \in Socket_, NEW m \in Outgoing,
         t.sent = t.start, FinOut(t) = 0, m.seq + Extent(m) <= t.localSeq
  PROVE  SegEnds(n, t, m)
<1>1. m.seq \in Nat /\ Extent(m) \in Nat /\ (HasFin(m) => Extent(m) >= 1)
      /\ First(t) = t.localSeq /\ t.localSeq \in Nat
  BY OutFields, FirstIsNext
<1>2. HasFin(m) => ~(m.seq >= First(t))
  BY <1>1
<1>3. QED
  BY <1>2 DEF SegEnds

LEMMA NewSegEnds ==
  ASSUME NEW n, NEW t \in Socket_, NEW m \in Outgoing, Aged(n, t), AnyNew(t, m)
  PROVE  SegEnds(n, t, m)
<1>1. m.seq \in Nat /\ m.ack \in Nat /\ First(t) \in Int
  BY OutFields, AnyNumbers
<1>2. CASE HasSyn(m) /\ ~HasFin(m) /\ t.state = 3 /\ m.seq = t.localSeq - 1 /\ m.ack = t.remoteSeq
  <2>1. FinOut(t) = 0 /\ FinIn(t) = 0 /\ t.sent = t.start
    BY <1>2 DEF FinOut, FinIn, Aged, Young
  <2>2. First(t) = t.localSeq /\ t.localSeq \in Nat
    BY <2>1, FirstIsNext
  <2>3. m.seq + 1 = First(t) /\ m.ack + FinIn(t) = t.remoteSeq
    BY <1>1, <1>2, <2>1, <2>2
  <2>4. QED
    BY <1>1, <1>2, <2>3 DEF SegEnds
<1>3. CASE ~HasSyn(m) /\ m.seq >= First(t) /\ (HasFin(m) => FinOut(t) = 1)
  BY <1>1, <1>3 DEF SegEnds
<1>4. QED
  BY <1>2, <1>3 DEF AnyNew

LEMMA OldSegEnds ==
  ASSUME NEW n, sock[n] \in Socket_, NEW t \in Socket_, NEW m \in Outgoing,
         Aged(n, sock[n]), AnyTalks(n, t), SegEnds(n, sock[n], m)
  PROVE  SegEnds(n, t, m)
<1> DEFINE s == sock[n]
<1>1. /\ m.ack \in Nat /\ s.remoteSeq \in Nat /\ t.remoteSeq \in Nat
      /\ FinIn(s) \in {0, 1} /\ FinIn(t) \in {0, 1}
  BY OutFields, AnyNumbers
<1>2. First(t) = First(s) /\ (FinOut(s) = 1 => FinOut(t) = 1) /\ (~t.opened => ~s.opened)
      /\ s.state # 1
  BY DEF AnyTalks, AnyLive, LiveStates
<1>3. ASSUME n \in Hosts, ~t.opened
      PROVE  t.remoteSeq - FinIn(t) = s.remoteSeq - FinIn(s) /\ ~s.opened
  <2>1. ~s.opened
    BY <1>2, <1>3
  <2>2. s.state \in {3, 5, 8}
    BY <1>2, <1>3, <2>1 DEF Aged, Young
  <2>3. QED
    BY <1>3, <2>1, <2>2 DEF AnyTalks
<1>4. ASSUME n \in Hosts, ~t.opened, m.ack + FinIn(s) = s.remoteSeq
      PROVE  m.ack + FinIn(t) = t.remoteSeq
  BY <1>1, <1>3, <1>4
<1>5. ASSUME n \in Hosts
      PROVE  /\ ~HasSyn(m) /\ m.seq < First(t) => m.seq + Extent(m) < First(t)
             /\ HasSyn(m) => m.seq + 1 <= First(t)
             /\ HasSyn(m) /\ m.seq + 1 = First(t) /\ ~t.opened =>
                   m.ack + FinIn(t) = t.remoteSeq
  <2>1. /\ ~HasSyn(m) /\ m.seq < First(s) => m.seq + Extent(m) < First(s)
        /\ HasSyn(m) => m.seq + 1 <= First(s)
        /\ HasSyn(m) /\ m.seq + 1 = First(s) /\ ~s.opened => m.ack + FinIn(s) = s.remoteSeq
    BY <1>5 DEF SegEnds
  <2>2. QED
    BY <1>2, <1>4, <1>5, <2>1
<1>6. HasFin(m) /\ m.seq >= First(t) => FinOut(t) = 1
  BY <1>2 DEF SegEnds
<1>7. QED
  BY <1>5, <1>6 DEF SegEnds

LEMMA SegEndsNext ==
  ASSUME HInv, ServersListen, AnyFields, SegEndsInv, NEW n, NEW t, NEW out,
         Becomes(n, t, out), AnyKind(n, t, out), NEW m \in net', ~HasRst(m),
         sock'[m.src].state \notin {1, 11}
  PROVE  SegEnds(m.src, sock'[m.src], m)
<1> DEFINE s == sock[n]
<1>1. /\ n \in Node /\ t \in Socket_ /\ sock'[n] = t
      /\ \A k \in Node : k # n => sock'[k] = sock[k]
      /\ net' \subseteq net \cup out
      /\ \A k \in out : k.src = n /\ k \in Outgoing /\ OutBound(n, s, t, k)
      /\ \A k \in net : k \in Outgoing /\ k.src \in Node /\ k.dst \in Node
      /\ t.localSeq \in Nat /\ t.localSeq >= s.localSeq
      /\ AnyMoves(n, t, out) /\ Aged(n, t) /\ s \in Socket_
  BY AnyOneMoves
<1>2. CASE m.src # n
  BY <1>1, <1>2 DEF SegEndsInv
<1>3. CASE m.src = n
  <2>1. s.state \in AnyStates(n) /\ Aged(n, s)
    BY <1>1 DEF AnyFields
  <2>2. m \in Outgoing /\ m.seq \in Nat /\ Extent(m) \in Nat
    BY <1>1, OutFields
  <2>3. s.localSeq \in Nat
    BY <1>1, AnyNumbers
  <2>4. m \in net => m.seq + Extent(m) <= s.localSeq
    BY <1>3 DEF HInv, BInv, SeqBound
  <2>5. m \in out => m.seq + Extent(m) <= t.localSeq
    BY <1>1 DEF OutBound
  <2>6. m.seq + Extent(m) <= t.localSeq
    BY <1>1, <2>2, <2>3, <2>4, <2>5
  <2>7. CASE n \notin Hosts /\ t.sent = t.start /\ FinOut(t) = 0
    BY <1>1, <1>3, <2>2, <2>6, <2>7, BelowFirst
  <2>8. CASE Rests(n, t)
    BY <1>1, <1>3, <2>8, StateValues DEF Rests
  <2>9. CASE Calls(n, t, out)
    <3>1. n \notin Hosts /\ t.sent = t.start /\ t.state = 2
      BY <2>9, StateValues DEF Calls
    <3>2. QED
      BY <2>7, <3>1 DEF FinOut
  <2>10. CASE Waits(n, t) \/ \E k \in net : Joins(n, k, t, out) /\ k.ctl = {"SYN", "ACK"}
    <3>1. /\ s.state = 2 /\ t.state \in {2, 4} /\ t.sent = s.sent /\ t.start = s.start
      BY <2>10, Flags, StateValues DEF Waits, Joins, Same
    <3>2. n \notin Hosts /\ t.sent = t.start
      BY <2>1, <3>1 DEF AnyStates, DevStates, LiveStates, Aged, Young
    <3>3. QED
      BY <2>7, <3>1, <3>2 DEF FinOut
  <2>11. CASE \E k \in net : Accepts(n, k, t, out)
    <3>1. PICK k \in net : Accepts(n, k, t, out)
      BY <2>11
    <3>2. /\ t.sent = s.sent /\ t.start = s.sent /\ t.state = 3 /\ t.localSeq = s.localSeq + 1
      BY <3>1, StateValues DEF Accepts
    <3>3. First(t) = t.localSeq
      <4>1. FinOut(t) = 0 /\ t.sent = t.start
        BY <3>2 DEF FinOut
      <4>2. QED
        BY <1>1, <4>1, FirstIsNext
    <3>4. CASE m \in net
      <4>1. m.seq + Extent(m) < First(t)
        BY <2>2, <2>3, <2>4, <3>2, <3>3, <3>4
      <4>2. (HasSyn(m) => Extent(m) >= 1) /\ (HasFin(m) => Extent(m) >= 1)
        BY <2>2, OutFields
      <4>3. (HasSyn(m) => m.seq + 1 < First(t)) /\ (HasFin(m) => m.seq < First(t))
        BY <1>1, <2>2, <3>3, <4>1, <4>2
      <4>4. SegEnds(n, t, m)
        BY <1>1, <2>2, <3>3, <4>1, <4>3 DEF SegEnds
      <4>5. QED
        BY <1>1, <1>3, <4>4
    <3>5. CASE m \in out
      <4>1. Carries(n, t, m, {"SYN", "ACK"}, s.localSeq, t.remoteSeq, NoData)
        BY <3>1, <3>5 DEF Accepts
      <4>2. HasSyn(m) /\ ~HasFin(m) /\ m.seq = s.localSeq /\ m.ack = t.remoteSeq
        BY <4>1, Flags DEF Carries
      <4>3. AnyNew(t, m)
        BY <2>3, <3>2, <4>2 DEF AnyNew
      <4>4. QED
        BY <1>1, <1>3, <2>2, <4>3, NewSegEnds
    <3>6. QED
      BY <1>1, <3>4, <3>5
  <2>12. CASE AnyGoes(n, t, out)
    <3>1. AnyTalks(n, t) /\ \A k \in out : HasRst(k) \/ AnyNew(t, k)
      BY <2>12 DEF AnyGoes
    <3>2. CASE m \in net
      <4>1. s.state \notin {1, 11}
        BY <3>1 DEF AnyTalks, AnyLive, LiveStates
      <4>2. SegEnds(n, s, m)
        BY <1>3, <3>2, <4>1 DEF SegEndsInv
      <4>3. SegEnds(n, t, m)
        BY <1>1, <2>1, <2>2, <3>1, <4>2, OldSegEnds
      <4>4. QED
        BY <1>1, <1>3, <4>3
    <3>3. CASE m \in out
      BY <1>1, <1>3, <2>2, <3>1, <3>3, NewSegEnds
    <3>4. QED
      BY <1>1, <3>2, <3>3
  <2>13. QED
    BY <1>1, <2>8, <2>9, <2>10, <2>11, <2>12 DEF AnyMoves
<1>4. QED
  BY <1>2, <1>3

\* What the two ends of a connection know of each other, ...
HalfEnds(x, y) ==
    /\ First(sock[x]) <= sock[y].remoteSeq
    /\ FinIn(sock[y]) = 1 => FinOut(sock[x]) = 1

\* ... if they are in the same one: as Pair above.
ApartEnds(a, b) ==
    /\ ~sock[b].opened
    /\ sock[a].remoteSeq < First(sock[b])
    /\ \A m \in AcksOf(a, b) : m.ack < First(sock[b])

AgreeEnds(a, b) == sock[a].state # SYN_SENT /\ HalfEnds(a, b) /\ HalfEnds(b, a)

PairEnds(a, b) ==
    Tied(a, b) /\ sock[a].state # CLOSED => ApartEnds(a, b) \/ AgreeEnds(a, b)

FInv ==
    /\ HInv /\ ServersListen /\ AnyFields /\ SegEndsInv
    /\ \A a, b \in Node : PairEnds(a, b)

LEMMA TiedAny ==
  ASSUME HInv, ServersListen, AnyFields, NEW a \in Node, NEW b \in Node, Tied(a, b),
         sock[a].state # CLOSED
  PROVE  /\ a # b /\ a \notin Hosts /\ b \in Hosts
         /\ sock[a].remoteIP = b /\ sock[b].remoteIP = a
         /\ sock[b].remotePort = sock[a].localPort
         /\ sock[a].state \notin {1, 11} /\ sock[b].state \notin {1, 11}
         /\ sock[a].remoteSeq <= sock[b].localSeq /\ sock[b].remoteSeq <= sock[a].localSeq
<1>1. /\ b \in Hosts /\ a \notin Hosts /\ sock[b].remoteIP = a /\ sock[b].state # 1
      /\ sock[b].remotePort = sock[a].localPort
  BY StateValues DEF Tied, Holds
<1>2. b = Server[a]
  BY <1>1 DEF HInv, PortInv, Holds
<1>3. sock[a].remoteIP = b
  BY <1>1, <1>2 DEF HInv, BInv, RemoteBound, ServersListen
<1>4. sock[a].remoteSeq <= sock[b].localSeq /\ sock[b].remoteSeq <= sock[a].localSeq
  BY <1>1, <1>3 DEF HInv, BInv, RemoteBound
<1>5. sock[a].state \notin {1, 11} /\ sock[b].state \notin {1, 11}
  BY <1>1, StateValues DEF AnyFields, AnyStates, DevStates, LiveStates
<1>6. QED
  BY <1>1, <1>3, <1>4, <1>5

LEMMA AnyAcks ==
  ASSUME NEW a \in Node, NEW b \in Node, a # b, sock[a].remoteIP = b,
         NEW t \in Socket_, NEW out, sock[a] \in Socket_, sock'[a] = t,
         t.localPort = sock[a].localPort, t.remoteIP = sock[a].remoteIP,
         net' \subseteq net \cup out,
         \A m \in out : OutBound(a, sock[a], t, m),
         NEW base, t.remoteSeq < base, sock[a].remoteSeq < base,
         Ending(a) => sock[a].remoteSeq + 1 < base,
         \A m \in AcksOf(a, b) : m.ack < base
  PROVE  \A m \in AcksOf(a, b)' : m.ack < base
<1> SUFFICES ASSUME NEW m \in AcksOf(a, b)' PROVE m.ack < base
  OBVIOUS
<1>1. m \in net' /\ ~HasRst(m) /\ HasAck(m) /\ m.src = a /\ m.dst = b /\ m.sport = t.localPort
  BY DEF AcksOf, HasRst, HasAck
<1>2. CASE m \in net
  BY <1>1, <1>2 DEF AcksOf
<1>3. CASE m \in out
  BY <1>1, <1>3 DEF OutBound
<1>4. QED
  BY <1>1, <1>2, <1>3

\* One of two ends that agree moves.
LEMMA HalvesEnds ==
  ASSUME SegEndsInv, NEW x \in Node, NEW y \in Node, x # y,
         sock[x] \in Socket_, sock[y] \in Socket_, NEW t \in Socket_, sock'[x] = t,
         sock'[y] = sock[y], sock[x].remoteIP = y, sock[y].state \notin {1, 11},
         \A m \in net : m \in Outgoing,
         HalfEnds(x, y), HalfEnds(y, x), AnyTalks(x, t)
  PROVE  HalfEnds(x, y)' /\ HalfEnds(y, x)'
<1> DEFINE s == sock[x]
           r == sock[y]
<1>1. /\ First(t) = First(s) /\ (FinOut(s) = 1 => FinOut(t) = 1) /\ Takes(x, s, t)
  BY DEF AnyTalks
<1>2. /\ First(s) <= r.remoteSeq /\ (FinIn(r) = 1 => FinOut(s) = 1)
      /\ First(r) <= s.remoteSeq /\ (FinIn(s) = 1 => FinOut(r) = 1)
  BY DEF HalfEnds
<1>3. s.remoteSeq \in Nat /\ t.remoteSeq \in Nat /\ First(r) \in Int
  BY AnyNumbers
<1>4. First(r) <= t.remoteSeq /\ (FinIn(t) = 1 => FinOut(r) = 1)
  <2>1. CASE t.remoteSeq = s.remoteSeq /\ FinIn(t) = FinIn(s)
    BY <1>2, <2>1
  <2>2. ASSUME NEW m \in net, FromPeer(x, m), ~HasRst(m), m.seq = s.remoteSeq,
               s.remoteSeq <= t.remoteSeq,
               FinIn(t) = FinIn(s) \/ (FinIn(t) = 1 /\ HasFin(m))
        PROVE  First(r) <= t.remoteSeq /\ (FinIn(t) = 1 => FinOut(r) = 1)
    <3>1. SegEnds(y, r, m)
      BY <2>2 DEF FromPeer, SegEndsInv
    <3>2. HasFin(m) => FinOut(r) = 1
      BY <1>2, <1>3, <2>2, <3>1 DEF SegEnds
    <3>3. QED
      BY <1>2, <1>3, <2>2, <3>2
  <2>3. QED
    BY <1>1, <2>1, <2>2 DEF Takes
<1>5. /\ First(sock'[x]) <= sock'[y].remoteSeq
      /\ FinIn(sock'[y]) = 1 => FinOut(sock'[x]) = 1
      /\ First(sock'[y]) <= sock'[x].remoteSeq
      /\ FinIn(sock'[x]) = 1 => FinOut(sock'[y]) = 1
  BY <1>1, <1>2, <1>4
<1>6. QED
  BY <1>5 DEF HalfEnds, First, FinIn, FinOut

\* A segment that is in order for the client of a pair that is apart is an old one.
LEMMA OldOfApart ==
  ASSUME HInv, ServersListen, AnyFields, SegEndsInv, NEW a \in Node, NEW b \in Node,
         Tied(a, b), sock[a].state # CLOSED, ApartEnds(a, b),
         NEW m \in net, FromPeer(a, m), ~HasRst(m), m.seq = sock[a].remoteSeq,
         HasFin(m) \/ m.data.len > 0
  PROVE  m.seq + Extent(m) < First(sock[b])
<1>1. b \in Hosts /\ sock[a].remoteIP = b /\ sock[b].state \notin {1, 11}
  BY TiedAny
<1>2. m.src = b /\ m \in Outgoing
  BY <1>1, BInvTypes DEF FromPeer, HInv
<1>3. SegEnds(b, sock[b], m)
  BY <1>1, <1>2 DEF SegEndsInv
<1>4. ~HasSyn(m)
  <2>1. PlainSyn(m)
    BY DEF HInv, BInv, SInv, SynAlone
  <2>2. m.data.len \in Nat
    BY <1>2, OutFields
  <2>3. QED
    BY <2>1, <2>2 DEF PlainSyn
<1>5. QED
  BY <1>1, <1>3, <1>4 DEF SegEnds, ApartEnds

LEMMA ApartMoves ==
  ASSUME HInv, ServersListen, AnyFields, SegEndsInv, NEW a \in Node, NEW b \in Node,
         Tied(a, b), sock[a].state # CLOSED, ApartEnds(a, b),
         NEW t, NEW out, Becomes(a, t, out), AnyKind(a, t, out),
         t.localPort = sock[a].localPort, t.remoteIP = sock[a].remoteIP,
         t.remoteSeq < First(sock[b])
  PROVE  ApartEnds(a, b)'
<1> DEFINE s == sock[a]
           h == sock[b]
           base == First(h)
<1>1. /\ t \in Socket_ /\ s \in Socket_ /\ h \in Socket_ /\ sock'[a] = t
      /\ net' \subseteq net \cup out /\ \A m \in out : OutBound(a, s, t, m)
      /\ \A m \in net : m \in Outgoing
      /\ \A k \in Node : k # a => sock'[k] = sock[k]
  BY AnyOneMoves
<1>2. a # b /\ s.remoteIP = b /\ sock'[b] = h
  BY <1>1, TiedAny
<1>3. ~h.opened /\ s.remoteSeq < base /\ \A m \in AcksOf(a, b) : m.ack < base
  BY DEF ApartEnds
<1>4. ASSUME Ending(a)
      PROVE  s.remoteSeq + 1 < base
  <2>1. PICK k \in net : InBlockOrder(a, k) /\ HasFin(k) /\ k.data.len > 0
    BY <1>4 DEF Ending
  <2>2. FromPeer(a, k) /\ ~HasRst(k) /\ k.seq = s.remoteSeq
    BY <2>1 DEF InBlockOrder
  <2>3. k.seq + Extent(k) < base
    BY <2>1, <2>2, OldOfApart
  <2>4. Extent(k) \in Nat /\ Extent(k) >= 1 /\ s.remoteSeq \in Nat /\ base \in Int
    BY <1>1, <2>1, OutFields, AnyNumbers
  <2>5. QED
    BY <2>2, <2>3, <2>4
<1>5. t.remoteSeq < base
  OBVIOUS
<1> HIDE DEF base
<1>6. \A m \in AcksOf(a, b)' : m.ack < base
  BY <1>1, <1>2, <1>3, <1>4, <1>5, AnyAcks
<1>7. ~sock'[b].opened /\ sock'[a].remoteSeq < First(sock'[b])
      /\ \A m \in AcksOf(a, b)' : m.ack < First(sock'[b])
  BY <1>1, <1>2, <1>3, <1>5, <1>6 DEF base
<1>8. QED
  BY <1>7 DEF ApartEnds, First, FinOut

\* The SYN|ACK: of this connection, or of one before.
LEMMA JoinsEnds ==
  ASSUME HInv, ServersListen, AnyFields, SegEndsInv, NEW a \in Node, NEW b \in Node,
         Tied(a, b), sock[a].state # CLOSED, ApartEnds(a, b),
         NEW t, NEW out, Becomes(a, t, out), AnyKind(a, t, out),
         NEW m \in net, Joins(a, m, t, out), m.ctl = {"SYN", "ACK"}
  PROVE  ApartEnds(a, b)' \/ AgreeEnds(a, b)'
<1> DEFINE s == sock[a]
           h == sock[b]
<1>1. /\ t \in Socket_ /\ s \in Socket_ /\ h \in Socket_ /\ sock'[a] = t
      /\ \A k \in net : k \in Outgoing
      /\ \A k \in Node : k # a => sock'[k] = sock[k]
  BY AnyOneMoves
<1>2. /\ a # b /\ b \in Hosts /\ s.remoteIP = b /\ h.state \notin {1, 11}
      /\ h.remoteSeq <= s.localSeq /\ sock'[b] = h
  BY <1>1, TiedAny
<1>3. ~h.opened /\ s.remoteSeq < First(h)
  BY DEF ApartEnds
<1>4. /\ HasSyn(m) /\ ~HasRst(m) /\ FromPeer(a, m) /\ s.state = SYN_SENT
      /\ m.ack = s.localSeq /\ t.state = ESTABLISHED
      /\ t.localPort = s.localPort /\ t.remoteIP = s.remoteIP
      /\ t.remoteSeq = m.seq + 1
      /\ t.sent = s.sent /\ t.start = s.start /\ t.localSeq = s.localSeq
  BY Flags DEF Joins
<1>5. SegEnds(b, h, m)
  BY <1>2, <1>4 DEF SegEndsInv, FromPeer
<1>6. m.seq + 1 <= First(h) /\ (m.seq + 1 = First(h) => m.ack + FinIn(h) = h.remoteSeq)
  BY <1>2, <1>3, <1>4, <1>5 DEF SegEnds
<1>7. /\ First(h) \in Int /\ m.seq \in Nat /\ m.ack \in Nat /\ s.localSeq \in Nat
      /\ h.remoteSeq \in Nat /\ FinIn(h) \in {0, 1}
  BY <1>1, OutFields, AnyNumbers
<1>8. CASE m.seq + 1 # First(h)
  <2>1. t.remoteSeq < First(h)
    BY <1>4, <1>6, <1>7, <1>8
  <2>2. QED
    BY <1>4, <2>1, ApartMoves
<1>9. CASE m.seq + 1 = First(h)
  <2>1. FinIn(h) = 0 /\ h.remoteSeq = s.localSeq
    BY <1>2, <1>4, <1>6, <1>7, <1>9
  <2>2. s.sent = s.start
    BY <1>4, StateValues DEF AnyFields, Aged, Young
  <2>3. FinOut(t) = 0 /\ FinIn(t) = 0 /\ t.state # SYN_SENT
    BY <1>4, StateValues DEF FinOut, FinIn
  <2>4. First(t) = t.localSeq
    BY <1>1, <1>4, <2>2, <2>3, FirstIsNext
  <2>5. /\ First(sock'[a]) <= sock'[b].remoteSeq
        /\ FinIn(sock'[b]) = 1 => FinOut(sock'[a]) = 1
        /\ First(sock'[b]) <= sock'[a].remoteSeq
        /\ FinIn(sock'[a]) = 1 => FinOut(sock'[b]) = 1
        /\ sock'[a].state # SYN_SENT
    BY <1>1, <1>2, <1>4, <1>7, <1>9, <2>1, <2>3, <2>4
  <2>6. AgreeEnds(a, b)'
    BY <2>5 DEF AgreeEnds, HalfEnds, First, FinIn, FinOut
  <2>7. QED
    BY <2>6
<1>10. QED
  BY <1>8, <1>9

\* The client moves.
LEMMA EndsClient ==
  ASSUME HInv, ServersListen, AnyFields, SegEndsInv, NEW a \in Node, NEW b \in Node,
         PairEnds(a, b), NEW t, NEW out, Becomes(a, t, out), AnyKind(a, t, out)
  PROVE  PairEnds(a, b)'
<1> DEFINE s == sock[a]
           h == sock[b]
<1> SUFFICES ASSUME Tied(a, b)', sock'[a].state # CLOSED
             PROVE  ApartEnds(a, b)' \/ AgreeEnds(a, b)'
  BY DEF PairEnds
<1>1. /\ t \in Socket_ /\ s \in Socket_ /\ h \in Socket_ /\ sock'[a] = t
      /\ \A m \in net : m \in Outgoing
      /\ \A k \in Node : k # a => sock'[k] = sock[k]
      /\ AnyMoves(a, t, out)
  BY AnyOneMoves
<1>2. a \notin Hosts /\ b \in Hosts /\ a # b /\ sock'[b] = h /\ Holds(b, a)
      /\ h.state # LISTEN /\ h.remotePort = t.localPort
  BY <1>1 DEF Tied, Holds
<1>3. h.remotePort < s.nextPort /\ h.remotePort \in Nat
  BY <1>1, <1>2 DEF HInv, PortInv, Socket_
<1>4. ~Rests(a, t) /\ ~(\E m \in net : Accepts(a, m, t, out))
  BY <1>1, <1>2 DEF Rests, Accepts
<1>5. ~Calls(a, t, out)
  BY <1>2, <1>3 DEF Calls
<1>6. CASE Waits(a, t)
  <2>1. /\ s.state = SYN_SENT /\ s.localPort = t.localPort
        /\ t.remoteIP = s.remoteIP /\ t.remoteSeq = s.remoteSeq
    BY <1>6 DEF Waits, Same
  <2>2. Tied(a, b) /\ s.state # CLOSED
    BY <1>2, <2>1, StateValues DEF Tied
  <2>3. ApartEnds(a, b)
    BY <2>1, <2>2 DEF PairEnds, AgreeEnds
  <2>4. t.remoteSeq < First(h)
    BY <2>1, <2>3 DEF ApartEnds
  <2>5. QED
    BY <2>1, <2>2, <2>3, <2>4, ApartMoves
<1>7. ASSUME NEW m \in net, Joins(a, m, t, out), m.ctl = {"SYN", "ACK"}
      PROVE  ApartEnds(a, b)' \/ AgreeEnds(a, b)'
  <2>1. s.state = SYN_SENT /\ s.localPort = t.localPort
    BY <1>7 DEF Joins
  <2>2. Tied(a, b) /\ s.state # CLOSED
    BY <1>2, <2>1, StateValues DEF Tied
  <2>3. ApartEnds(a, b)
    BY <2>1, <2>2 DEF PairEnds, AgreeEnds
  <2>4. QED
    BY <1>7, <2>2, <2>3, JoinsEnds
<1>8. CASE AnyGoes(a, t, out)
  <2>1. /\ s.localPort = t.localPort /\ t.remoteIP = s.remoteIP /\ Takes(a, s, t)
        /\ s.state \in AnyLive /\ t.state \in AnyLive /\ AnyTalks(a, t)
    BY <1>8 DEF AnyGoes, AnyTalks
  <2>2. Tied(a, b) /\ s.state # CLOSED /\ t.state # SYN_SENT
    BY <1>2, <2>1, StateValues DEF Tied, AnyLive, LiveStates
  <2>3. CASE ApartEnds(a, b)
    <3>1. s.remoteSeq < First(h) /\ t.remoteSeq \in Nat /\ First(h) \in Int
      BY <1>1, <2>3, AnyNumbers DEF ApartEnds
    <3>2. ASSUME NEW m \in net, FromPeer(a, m), ~HasRst(m), m.seq = s.remoteSeq,
                 HasFin(m) \/ m.data.len > 0, t.remoteSeq <= m.seq + Extent(m)
          PROVE  t.remoteSeq < First(h)
      <4>1. m.seq + Extent(m) < First(h)
        BY <2>2, <2>3, <3>2, OldOfApart
      <4>2. m.seq \in Nat /\ Extent(m) \in Nat
        BY <1>1, OutFields
      <4>3. QED
        BY <3>1, <3>2, <4>1, <4>2
    <3>3. t.remoteSeq < First(h)
      BY <2>1, <3>1, <3>2 DEF Takes
    <3>4. QED
      BY <2>1, <2>2, <2>3, <3>3, ApartMoves
  <2>4. CASE AgreeEnds(a, b)
    <3>1. s.remoteIP = b /\ h.state \notin {1, 11}
      BY <2>2, TiedAny
    <3>2. HalfEnds(a, b) /\ HalfEnds(b, a)
      BY <2>4 DEF AgreeEnds
    <3>3. HalfEnds(a, b)' /\ HalfEnds(b, a)'
      BY <1>1, <1>2, <2>1, <3>1, <3>2, HalvesEnds
    <3>4. sock'[a].state # SYN_SENT
      BY <1>1, <2>2
    <3>5. AgreeEnds(a, b)'
      BY <3>3, <3>4 DEF AgreeEnds
    <3>6. QED
      BY <3>5
  <2>5. QED
    BY <2>2, <2>3, <2>4 DEF PairEnds
<1>9. QED
  BY <1>1, <1>4, <1>5, <1>6, <1>7, <1>8 DEF AnyMoves

\* The host moves.
LEMMA EndsHost ==
  ASSUME HInv, ServersListen, AnyFields, SegEndsInv, NEW a \in Node, NEW b \in Node,
         PairEnds(a, b), NEW t, NEW out, Becomes(b, t, out), AnyKind(b, t, out)
  PROVE  PairEnds(a, b)'
<1> DEFINE s == sock[b]
           c == sock[a]
<1> SUFFICES ASSUME Tied(a, b)', sock'[a].state # CLOSED
             PROVE  ApartEnds(a, b)' \/ AgreeEnds(a, b)'
  BY DEF PairEnds
<1>1. /\ t \in Socket_ /\ s \in Socket_ /\ c \in Socket_ /\ sock'[b] = t
      /\ net' \subseteq net \cup out /\ \A m \in out : m.src = b
      /\ \A m \in net : m \in Outgoing
      /\ \A k \in Node : k # b => sock'[k] = sock[k]
      /\ \A k \in Node \ Hosts : sock[k].remoteIP = Server[k]
      /\ AnyMoves(b, t, out)
  BY AnyOneMoves
<1>2. a \notin Hosts /\ b \in Hosts /\ a # b /\ t.state # LISTEN /\ t.remoteIP = a
  BY <1>1 DEF Tied, Holds
<1>3. sock'[a] = c /\ c.localPort = t.remotePort /\ c.state # CLOSED
  BY <1>1, <1>2 DEF Tied, Holds
<1>4. ~Rests(b, t) /\ ~Calls(b, t, out)
  BY <1>2 DEF Rests, Calls
<1>5. s.state # SYN_SENT
  BY <1>2, StateValues DEF AnyFields, AnyStates, DevStates, LiveStates
<1>6. ~Waits(b, t) /\ \A m \in net : ~Joins(b, m, t, out)
  BY <1>5 DEF Waits, Joins
<1>7. s.localSeq \in Nat /\ c.remoteSeq \in Nat /\ First(s) \in Int /\ FinOut(s) \in {0, 1}
  BY <1>1, AnyNumbers
<1>8. AcksOf(a, b)' \subseteq AcksOf(a, b)
  BY <1>1, <1>2, <1>3 DEF AcksOf, HasRst, HasAck
<1>9. ASSUME ~t.opened, c.remoteSeq < First(t), \A m \in AcksOf(a, b) : m.ack < First(t)
      PROVE  ApartEnds(a, b)'
  <2>1. ~sock'[b].opened /\ sock'[a].remoteSeq < First(sock'[b])
        /\ \A m \in AcksOf(a, b)' : m.ack < First(sock'[b])
    BY <1>1, <1>3, <1>8, <1>9
  <2>2. QED
    BY <2>1 DEF ApartEnds, First, FinOut
<1>10. ASSUME NEW m \in net, Accepts(b, m, t, out)
       PROVE  ApartEnds(a, b)'
  <2>1. /\ t.sent = s.sent /\ t.start = s.sent /\ ~t.opened
        /\ t.localSeq = s.localSeq + 1 /\ t.state = 3
        /\ PureSyn(m) /\ m.src = a /\ m.dst = b
    BY <1>2, <1>10, StateValues DEF Accepts
  <2>2. First(t) = s.localSeq + 1
    <3>1. FinOut(t) = 0 /\ t.sent = t.start
      BY <2>1 DEF FinOut
    <3>2. QED
      BY <1>1, <2>1, <3>1, FirstIsNext
  <2>3. c.remoteIP = b
    <3>1. m.dst = Server[m.src]
      BY <2>1 DEF HInv, SynInv
    <3>2. QED
      BY <1>1, <1>2, <2>1, <3>1
  <2>4. c.remoteSeq <= s.localSeq
    BY <2>3 DEF HInv, BInv, RemoteBound
  <2>5. ASSUME NEW k \in AcksOf(a, b)
        PROVE  k.ack < First(t)
    <3>1. k \in net /\ k.dst = b /\ ~HasRst(k) /\ HasAck(k)
      BY DEF AcksOf
    <3>2. k.ack <= s.localSeq /\ k.ack \in Nat
      BY <1>1, <3>1, OutFields DEF HInv, BInv, AckBound
    <3>3. QED
      BY <1>7, <2>2, <3>2
  <2>6. c.remoteSeq < First(t)
    BY <1>7, <2>2, <2>4
  <2>7. QED
    BY <1>9, <2>1, <2>5, <2>6
<1>11. CASE AnyGoes(b, t, out)
  <2>1. /\ t.remoteIP = s.remoteIP /\ t.remotePort = s.remotePort
        /\ s.state \in AnyLive /\ First(t) = First(s) /\ AnyTalks(b, t)
        /\ (t.opened => s.opened \/ AckedAll(b))
    BY <1>11 DEF AnyGoes, AnyTalks
  <2>2. Tied(a, b)
    BY <1>2, <1>3, <2>1, StateValues DEF Tied, Holds, AnyLive, LiveStates
  <2>3. CASE ApartEnds(a, b)
    <3>1. ~s.opened /\ c.remoteSeq < First(s) /\ \A m \in AcksOf(a, b) : m.ack < First(s)
      BY <2>3 DEF ApartEnds
    <3>2. First(s) <= s.localSeq
      <4>1. s.sent >= s.start
        BY DEF AnyFields, Aged
      <4>2. First(s) <= s.localSeq - FinOut(s)
        BY <1>1, <4>1, AnyNumbers
      <4>3. QED
        BY <1>7, <4>2
    <3>3. ~AckedAll(b)
      <4> SUFFICES ASSUME NEW m \in net, FromPeer(b, m), ~HasRst(m), HasAck(m),
                          m.ack = s.localSeq
                   PROVE  FALSE
        BY DEF AckedAll
      <4>1. m \in AcksOf(a, b)
        BY <1>2, <1>3, <2>1 DEF FromPeer, AcksOf
      <4>2. m.ack < First(s)
        BY <3>1, <4>1
      <4>3. QED
        BY <1>7, <3>2, <4>2
    <3>4. ~t.opened
      BY <2>1, <3>1, <3>3
    <3>5. QED
      BY <1>9, <2>1, <3>1, <3>4
  <2>4. CASE AgreeEnds(a, b)
    <3>1. s.remoteIP = a /\ c.state \notin {1, 11}
      BY <1>3, <2>2, TiedAny
    <3>2. HalfEnds(a, b) /\ HalfEnds(b, a) /\ c.state # SYN_SENT
      BY <2>4 DEF AgreeEnds
    <3>3. HalfEnds(a, b)' /\ HalfEnds(b, a)'
      BY <1>1, <1>2, <1>3, <2>1, <3>1, <3>2, HalvesEnds
    <3>4. sock'[a].state # SYN_SENT
      BY <1>3, <3>2
    <3>5. AgreeEnds(a, b)'
      BY <3>3, <3>4 DEF AgreeEnds
    <3>6. QED
      BY <3>5
  <2>5. QED
    BY <1>3, <2>2, <2>3, <2>4 DEF PairEnds
<1>12. QED
  BY <1>1, <1>4, <1>6, <1>10, <1>11 DEF AnyMoves

\* Neither of the two does anything.
LEMMA EndsStill ==
  ASSUME NEW a \in Node, NEW b \in Node, PairEnds(a, b),
         Quiet(sock[a], sock'[a]), sock'[a].state = sock[a].state,
         Quiet(sock[b], sock'[b]), sock'[b].state = sock[b].state,
         \A m \in net' : m.src \in {a, b} => m \in net
  PROVE  PairEnds(a, b)'
<1> SUFFICES ASSUME Tied(a, b)', sock'[a].state # CLOSED
             PROVE  ApartEnds(a, b)' \/ AgreeEnds(a, b)'
  BY DEF PairEnds
<1>1. Tied(a, b) /\ sock[a].state # CLOSED
  BY DEF Tied, Holds, Quiet, Same
<1>2. ASSUME NEW n \in {a, b}
      PROVE  /\ FinOut(sock'[n]) = FinOut(sock[n]) /\ FinIn(sock'[n]) = FinIn(sock[n])
             /\ First(sock'[n]) = First(sock[n]) /\ sock'[n].opened = sock[n].opened
             /\ sock'[n].remoteSeq = sock[n].remoteSeq /\ sock'[n].state = sock[n].state
  <2>1. FinOut(sock'[n]) = FinOut(sock[n]) /\ FinIn(sock'[n]) = FinIn(sock[n])
    BY DEF FinOut, FinIn
  <2>2. QED
    BY <2>1, SameFirst DEF Quiet, Same
<1>3. AcksOf(a, b)' \subseteq AcksOf(a, b)
  BY DEF AcksOf, HasRst, HasAck, Quiet, Same
<1>4. CASE ApartEnds(a, b)
  <2>1. ~sock'[b].opened /\ sock'[a].remoteSeq < First(sock'[b])
        /\ \A m \in AcksOf(a, b)' : m.ack < First(sock'[b])
    BY <1>2, <1>3, <1>4 DEF ApartEnds
  <2>2. ApartEnds(a, b)'
    BY <2>1 DEF ApartEnds, First, FinOut
  <2>3. QED
    BY <2>2
<1>5. CASE AgreeEnds(a, b)
  <2>1. /\ First(sock'[a]) <= sock'[b].remoteSeq
        /\ FinIn(sock'[b]) = 1 => FinOut(sock'[a]) = 1
        /\ First(sock'[b]) <= sock'[a].remoteSeq
        /\ FinIn(sock'[a]) = 1 => FinOut(sock'[b]) = 1
        /\ sock'[a].state # SYN_SENT
    BY <1>2, <1>5 DEF AgreeEnds, HalfEnds
  <2>2. AgreeEnds(a, b)'
    BY <2>1 DEF AgreeEnds, HalfEnds, First, FinIn, FinOut
  <2>3. QED
    BY <2>2
<1>6. QED
  BY <1>1, <1>4, <1>5 DEF PairEnds

LEMMA FInvMove ==
  ASSUME FInv, NEW n, NEW t, NEW out, Becomes(n, t, out), AnyKind(n, t, out)
  PROVE  AnyFields' /\ SegEndsInv' /\ \A a, b \in Node : PairEnds(a, b)'
<1>1. HInv /\ ServersListen /\ AnyFields /\ SegEndsInv
  BY DEF FInv
<1>2. /\ n \in Node /\ sock'[n] = t
      /\ \A k \in Node : k # n => sock'[k] = sock[k]
      /\ net' \subseteq net \cup out /\ \A m \in out : m.src = n
  BY <1>1, AnyOneMoves
<1>3. AnyFields'
  BY <1>1, AnyFieldsNext
<1>4. SegEndsInv'
  <2>1. \A m \in net' : ~HasRst(m) /\ sock'[m.src].state \notin {1, 11} =>
            SegEnds(m.src, sock'[m.src], m)
    BY <1>1, SegEndsNext
  <2>2. QED
    BY <2>1 DEF SegEndsInv, SegEnds, HasRst, HasSyn, HasFin, Extent, First, FinOut, FinIn
<1>5. ASSUME NEW a \in Node, NEW b \in Node
      PROVE  PairEnds(a, b)'
  <2>1. PairEnds(a, b)
    BY DEF FInv
  <2>2. CASE a = n
    BY <1>1, <2>1, <2>2, EndsClient
  <2>3. CASE b = n
    BY <1>1, <2>1, <2>3, EndsHost
  <2>4. CASE a # n /\ b # n
    <3>1. sock'[a] = sock[a] /\ sock'[b] = sock[b]
      BY <1>2, <2>4
    <3>2. /\ Quiet(sock[a], sock'[a]) /\ sock'[a].state = sock[a].state
          /\ Quiet(sock[b], sock'[b]) /\ sock'[b].state = sock[b].state
      BY <3>1, SameQuiet
    <3>3. \A m \in net' : m.src \in {a, b} => m \in net
      BY <1>2, <2>4
    <3>4. QED
      BY <2>1, <3>2, <3>3, EndsStill
  <2>5. QED
    BY <2>2, <2>3, <2>4
<1>6. QED
  BY <1>3, <1>4, <1>5

LEMMA FInvNext ==
  ASSUME FInv, [ForeignNext]_vars
  PROVE  FInv'
<1>1. HInv' /\ ServersListen'
  BY HInvNext DEF FInv, ServersListen
<1>2. CASE Passes
  <2>1. /\ net' \subseteq net
        /\ \A n \in Node : Quiet(sock[n], sock'[n]) /\ sock'[n].state = sock[n].state
    BY <1>2 DEF Passes
  <2>2. \A m \in net : m.src \in Node /\ m \in Outgoing
    BY BInvTypes DEF FInv, HInv
  <2>3. ASSUME NEW n \in Node
        PROVE  LET s == sock[n] t == sock'[n] IN
               /\ t.state = s.state /\ FinOut(t) = FinOut(s) /\ FinIn(t) = FinIn(s)
               /\ First(t) = First(s) /\ t.opened = s.opened /\ t.remoteSeq = s.remoteSeq
               /\ t.sent = s.sent /\ t.start = s.start /\ t.got = s.got /\ t.stash = s.stash
               /\ t.remoteIP = s.remoteIP
    <3>1. FinOut(sock'[n]) = FinOut(sock[n]) /\ FinIn(sock'[n]) = FinIn(sock[n])
      BY <2>1 DEF FinOut, FinIn
    <3>2. First(sock'[n]) = First(sock[n])
      BY <2>1, <3>1, SameFirst DEF Quiet, Same
    <3>3. QED
      BY <2>1, <3>1, <3>2 DEF Quiet, Same
  <2>4. AnyFields'
    <3>1. ASSUME NEW n \in Node
          PROVE  /\ sock'[n].state \in AnyStates(n) /\ Aged(n, sock'[n])
                 /\ n \in Hosts => sock'[n].remoteIP \notin Hosts
      BY <2>3 DEF FInv, AnyFields, Aged, Young
    <3>2. QED
      BY <3>1 DEF AnyFields, AnyStates, DevStates, Aged, Young
  <2>5. SegEndsInv'
    <3>1. ASSUME NEW m \in net', ~HasRst(m), sock'[m.src].state \notin {1, 11}
          PROVE  SegEnds(m.src, sock'[m.src], m)
      <4>1. m \in net /\ m.src \in Node
        BY <2>1, <2>2
      <4>2. SegEnds(m.src, sock[m.src], m)
        BY <2>3, <3>1, <4>1 DEF FInv, SegEndsInv
      <4>3. QED
        BY <2>3, <4>1, <4>2 DEF SegEnds
    <3>2. QED
      BY <3>1 DEF SegEndsInv, SegEnds, HasRst, HasSyn, HasFin, Extent, First, FinOut, FinIn
  <2>6. ASSUME NEW a \in Node, NEW b \in Node
        PROVE  PairEnds(a, b)'
    <3>1. PairEnds(a, b) /\ \A m \in net' : m.src \in {a, b} => m \in net
      BY <2>1 DEF FInv
    <3>2. QED
      BY <2>1, <3>1, EndsStill
  <2>7. (\A a, b \in Node : PairEnds(a, b))'
    BY <2>6
  <2>8. QED
    BY <1>1, <2>4, <2>5, <2>7 DEF FInv
<1>3. ASSUME NEW n \in Node, NEW t, NEW out, Becomes(n, t, out), AnyKind(n, t, out)
      PROVE  FInv'
  BY <1>1, <1>3, FInvMove DEF FInv
<1>4. SInv
  BY DEF FInv, HInv, BInv
<1>5. QED
  BY <1>2, <1>3, <1>4, ForeignKind DEF DoesAny

LEMMA FInvInit == Init /\ ServersListen => FInv
<1> SUFFICES ASSUME Init, ServersListen PROVE FInv
  OBVIOUS
<1>1. CInv
  BY CInvInit
<1>2. AnyFields
  <2>1. ASSUME NEW n \in Node
        PROVE  /\ sock[n].state \in AnyStates(n) /\ Aged(n, sock[n])
               /\ n \in Hosts => sock[n].remoteIP \notin Hosts
    <3>1. /\ sock[n].state \in DevStates(n) /\ Young(n, sock[n])
          /\ n \in Hosts => sock[n].remoteIP \notin Hosts
      BY <1>1 DEF CInv, Fields
    <3>2. sock[n].state \notin {8, 10} /\ sock[n].state \in AnyStates(n)
      BY <3>1 DEF DevStates, LiveStates, AnyStates
    <3>3. sock[n].sent >= sock[n].start
      BY <3>1 DEF Young
    <3>4. QED
      BY <3>1, <3>2, <3>3 DEF Aged
  <2>2. QED
    BY <2>1 DEF AnyFields
<1>3. net = {}
  BY DEF Init
<1>4. ASSUME NEW n \in Node
      PROVE  sock[n].state = IF isHost(n) THEN LISTEN ELSE CLOSED
  BY InitFields
<1>5. \A a, b \in Node : ~Tied(a, b)
  BY <1>4, StateValues DEF Tied, Holds, isHost
<1>6. QED
  BY <1>1, <1>2, <1>3, <1>5 DEF FInv, CInv, SegEndsInv, PairEnds

\* The two ends of a connection whose handshake is over are in the same one.
LEMMA EndsAgree ==
  ASSUME FInv, NEW a \in Node, NEW b \in Node, Connected(a, b)
  PROVE  HalfEnds(a, b) /\ HalfEnds(b, a)
<1>1. /\ sock[a].remoteIP = b /\ sock[b].remoteIP = a
      /\ sock[a].localPort = sock[b].remotePort /\ sock[a].remotePort = sock[b].localPort
      /\ Synchronized(sock[a]) /\ Synchronized(sock[b]) /\ sock[a].opened /\ sock[b].opened
  BY DEF Connected
<1>2. /\ sock[a].state \notin {LISTEN, CLOSED} /\ sock[b].state \notin {LISTEN, CLOSED}
  BY <1>1, StateByte, StateValues DEF Synchronized
<1>3. \A x, y \in Node : PairEnds(x, y)
  BY DEF FInv
<1>4. CASE a \notin Hosts
  <2>1. b \in Hosts
    BY <1>1, <1>4 DEF FInv, HInv, BInv, RemoteBound, ServersListen
  <2>2. Tied(a, b)
    BY <1>1, <1>2, <1>4, <2>1 DEF Tied, Holds
  <2>3. AgreeEnds(a, b)
    BY <1>1, <1>2, <1>3, <2>2 DEF PairEnds, ApartEnds
  <2>4. QED
    BY <2>3 DEF AgreeEnds
<1>5. CASE a \in Hosts
  <2>1. b \notin Hosts
    BY <1>1, <1>5 DEF FInv, AnyFields
  <2>2. Tied(b, a)
    BY <1>1, <1>2, <1>5, <2>1 DEF Tied, Holds
  <2>3. AgreeEnds(b, a)
    BY <1>1, <1>2, <1>3, <2>2 DEF PairEnds, ApartEnds
  <2>4. QED
    BY <2>3 DEF AgreeEnds
<1>6. QED
  BY <1>4, <1>5

\* handleSegment() gets to CLOSING or TIME_WAIT only by a FIN of this connection:
\* what is left in flight of the one before has lower sequence numbers and is not
\* in order.  So the peer has called close() as well, whatever the network loses,
\* repeats or reorders and whichever of the devices put their last data and their
\* FIN into one segment.
THEOREM BothClosed == ForeignSpec /\ ServersListen => []TimeWaitAfterBothClosed
<1>1. FInv => TimeWaitAfterBothClosed
  <2> SUFFICES ASSUME FInv, NEW a \in Node, NEW b \in Node, Connected(a, b),
                      sock[a].state \in {CLOSING, TIME_WAIT}
               PROVE  localClosed(sock[b])
    BY DEF TimeWaitAfterBothClosed
  <2>1. FinIn(sock[a]) = 1
    BY StateValues DEF FinIn
  <2>2. FinOut(sock[b]) = 1
    BY <2>1, EndsAgree DEF HalfEnds
  <2>3. QED
    BY <2>2, StateValues DEF FinOut, localClosed
<1>2. QED
  BY <1>1, FInvInit, FInvNext, PTL DEF ForeignSpec

-----------------------------------------------------------------------------
(* The two ends implement the stream.                                      *)

TwoEnds == \E a, b \in Node : a # b /\ Node = {a, b}

\* What the stream sees of the sockets.
Sents == [a \in Node |-> IF Joined THEN Sent(a) ELSE 0]
Gots  == [a \in Node |-> IF Joined THEN Given(a) ELSE <<>>]
Endeds == [a \in Node |-> Joined /\ remoteClosed(sock[a])]

LEMMA OtherEnd ==
  ASSUME TwoEnds, NEW a \in Node
  PROVE  /\ Other(a) \in Node /\ Other(a) # a
         /\ \A b \in Node : b # a => b = Other(a)
         /\ Stream!Peer(a) = Other(a)
<1>1. PICK c \in Node, h \in Node : c # h /\ Node = {c, h}
  BY DEF TwoEnds
<1>2. \E b \in Node : b # a
  BY <1>1
<1>3. Other(a) \in Node /\ Other(a) # a
  BY <1>2 DEF Other
<1>4. \A b \in Node : b # a => b = Other(a)
  BY <1>1, <1>3
<1>5. Stream!Peer(a) = Other(a)
  BY DEF Stream!Peer, Other
<1>6. QED
  BY <1>3, <1>4, <1>5

LEMMA StreamStill ==
  ASSUME Joined' = Joined, Sents' = Sents, Gots' = Gots, Endeds' = Endeds
  PROVE  UNCHANGED Stream!stream
  BY Zenon DEF Stream!stream, Sents, Gots, Endeds

LEMMA StreamDown ==
  ASSUME ~Joined
  PROVE  Stream!Down
<1>1. Joined = FALSE
  BY DEF Joined
<1>2. /\ Sents = [a \in Node |-> 0] /\ Gots = [a \in Node |-> <<>>]
      /\ Endeds = [a \in Node |-> FALSE]
  BY <1>1 DEF Sents, Gots, Endeds
<1>3. QED
  BY <1>1, <1>2, Zenon DEF Stream!Down, Sents, Gots, Endeds

LEMMA StreamBreaks ==
  ASSUME Joined, ~Joined'
  PROVE  Stream!Break
<1>1. Joined' = FALSE
  BY DEF Joined
<1>2. /\ Sents' = [a \in Node |-> 0] /\ Gots' = [a \in Node |-> <<>>]
      /\ Endeds' = [a \in Node |-> FALSE]
  BY <1>1 DEF Sents, Gots, Endeds
<1>3. QED
  BY <1>1, <1>2, Zenon DEF Stream!Break, Stream!Down, Sents, Gots, Endeds

LEMMA StreamWrites ==
  ASSUME TwoEnds, NEW e \in Node, Joined, Joined',
         Len(Gots[Other(e)]) = Sents[e], ~Endeds[Other(e)],
         Sents'[e] \in Nat, Sents'[e] > Sents[e],
         Sents' = [Sents EXCEPT ![e] = Sents'[e]],
         Gots' = Gots, Endeds' = Endeds
  PROVE  Stream!Write(e)
<1>1. Stream!Peer(e) = Other(e) /\ Joined' = Joined
  BY OtherEnd DEF Joined
<1>2. /\ Len(Gots[Stream!Peer(e)]) = Sents[e] /\ ~Endeds[Stream!Peer(e)]
  BY <1>1
<1>3. Stream!Sends(e)
  BY <1>2, SMT DEF Stream!Sends, Sents, Gots, Endeds
<1>4. QED
  BY <1>1, <1>3, SMT DEF Stream!Write, Sents, Gots, Endeds

\* What is so of the two ends while they are joined.
EndOK(a, b) ==
    /\ Half(a, b) /\ sock[a].opened
    /\ sock[a].state \in {4, 5, 6, 7, 9, 244}

EndsOK == \A a \in Node : EndOK(a, Other(a))

LEMMA EndsAre == CInv /\ TwoEnds /\ Joined => EndsOK
<1> SUFFICES ASSUME CInv, TwoEnds, Joined, NEW a \in Node
             PROVE  EndOK(a, Other(a))
  BY DEF EndsOK
<1>1. Other(a) \in Node /\ Connected(a, Other(a))
  BY OtherEnd DEF Joined
<1>2. Half(a, Other(a))
  BY <1>1, Ends
<1>3. sock[a].opened /\ Synchronized(sock[a])
  BY <1>1 DEF Connected
<1>4. sock[a].state \in DevStates(a)
  BY DEF CInv, Fields
<1>5. sock[a].state \in {4, 5, 6, 7, 9, 244}
  BY <1>3, <1>4, StateValues, StateByte DEF Synchronized, DevStates, LiveStates
<1>6. QED
  BY <1>2, <1>3, <1>5 DEF EndOK

LEMMA EndsAreNext == TwoEnds /\ CInv' /\ Joined' => EndsOK'
<1>1. CInv' /\ TwoEnds' /\ Joined' => EndsOK'
  BY EndsAre, PTL
<1>2. TwoEnds => TwoEnds'
  BY DEF TwoEnds
<1>3. QED
  BY <1>1, <1>2

LEMMA ClosedSeen ==
  ASSUME NEW s, s.state \in {4, 5, 6, 7, 9, 244}
  PROVE  remoteClosed(s) <=> FinSeen(s) = 1
BY StateValues DEF remoteClosed, FinSeen

\* What the stream sees while the two are joined.
LEMMA SeenNow ==
  ASSUME Joined, NEW a \in Node
  PROVE  /\ Sents[a] = sock[a].sent - sock[a].start
         /\ Gots[a] = Given(a) /\ Endeds[a] = remoteClosed(sock[a])
BY DEF Sents, Gots, Endeds, Sent, remoteClosed

LEMMA SeenNext ==
  ASSUME Joined', NEW a \in Node
  PROVE  /\ Sents'[a] = sock'[a].sent - sock'[a].start
         /\ Gots'[a] = Given(a)' /\ Endeds'[a] = remoteClosed(sock'[a])
BY DEF Sents, Gots, Endeds, Sent, remoteClosed

\* Functions on the two ends.
LEMMA OneEnd ==
  ASSUME TwoEnds, NEW n \in Node
  PROVE  /\ Sents'[Other(n)] = Sents[Other(n)] => Sents' = [Sents EXCEPT ![n] = Sents'[n]]
         /\ Gots'[Other(n)] = Gots[Other(n)] => Gots' = [Gots EXCEPT ![n] = Gots'[n]]
         /\ Endeds'[Other(n)] = Endeds[Other(n)] => Endeds' = [Endeds EXCEPT ![n] = Endeds'[n]]
         /\ Sents'[Other(n)] = Sents[Other(n)] /\ Sents'[n] = Sents[n] => Sents' = Sents
         /\ Gots'[Other(n)] = Gots[Other(n)] /\ Gots'[n] = Gots[n] => Gots' = Gots
         /\ Endeds'[Other(n)] = Endeds[Other(n)] /\ Endeds'[n] = Endeds[n] => Endeds' = Endeds
<1>1. \A a \in Node : a = n \/ a = Other(n)
  BY OtherEnd
<1>2. /\ DOMAIN Sents = Node /\ DOMAIN Sents' = Node /\ DOMAIN Gots = Node /\ DOMAIN Gots' = Node
      /\ DOMAIN Endeds = Node /\ DOMAIN Endeds' = Node
      /\ Sents = [a \in Node |-> Sents[a]] /\ Sents' = [a \in Node |-> Sents'[a]]
      /\ Gots = [a \in Node |-> Gots[a]] /\ Gots' = [a \in Node |-> Gots'[a]]
      /\ Endeds = [a \in Node |-> Endeds[a]] /\ Endeds' = [a \in Node |-> Endeds'[a]]
  BY DEF Sents, Gots, Endeds
<1>3. QED
  BY <1>1, <1>2

\* Bytes in order, numbered from the first of the connection.
LEMMA Numbered ==
  ASSUME NEW got \in Seq(Nat), NEW start \in Nat, NEW len \in Nat, Len(got) = len,
         \A i \in 1 .. Len(got) : got[i] = start + i
  PROVE  [i \in 1 .. Len(got) |-> got[i] - start] = Stream!FirstBytes(len)
<1>1. \A i \in 1 .. len : got[i] - start = i
  <2> SUFFICES ASSUME NEW i \in 1 .. len PROVE got[i] - start = i
    OBVIOUS
  <2>1. got[i] = start + i /\ i \in Nat
    OBVIOUS
  <2>2. QED
    BY <2>1
<1>2. QED
  BY <1>1 DEF Stream!FirstBytes

\* What a step of the device n does to a joined connection.
LEMMA JoinedGoes ==
  ASSUME CInv, CInv', TwoEnds, Joined, Joined', NEW n, NEW t, NEW out,
         Becomes(n, t, out), Kind(n, t, out)
  PROVE  /\ n \in Node /\ sock'[n] = t /\ sock'[Other(n)] = sock[Other(n)]
         /\ t \in Socket_ /\ sock[n] \in Socket_ /\ sock[Other(n)] \in Socket_
         /\ Sender(n, sock[n], t) /\ Receiver(n, sock[n], t)
         /\ EndOK(n, Other(n)) /\ EndOK(Other(n), n)
         /\ HalfOK(sock[Other(n)], t)
         /\ t.state \in {4, 5, 6, 7, 9, 244}
<1> DEFINE s == sock[n]
           p == Other(n)
<1>1. HInv /\ ServersListen /\ Fields /\ SegInv
  BY DEF CInv
<1>2. /\ n \in Node /\ t \in Socket_ /\ sock'[n] = t
      /\ \A k \in Node : k # n => sock'[k] = sock[k]
      /\ \A k \in Node : sock[k] \in Socket_
      /\ Moves(n, t, out)
  BY <1>1, OneMoves
<1>3. p \in Node /\ p # n /\ Other(p) = n
  BY <1>2, OtherEnd
<1>4. sock'[p] = sock[p]
  BY <1>2, <1>3
<1>5. EndOK(n, p) /\ EndOK(p, n)
  BY <1>2, <1>3, EndsAre DEF EndsOK
<1>6. EndsOK'
  BY EndsAreNext
<1>7. EndOK(n, p)' /\ EndOK(p, n)'
  <2>1. \A a \in Node : EndOK(a, Other(a))'
    BY <1>6 DEF EndsOK
  <2>2. QED
    BY <1>2, <1>3, <2>1
<1>8. t.state \in {4, 5, 6, 7, 9, 244}
  <2>1. sock'[n].state \in {4, 5, 6, 7, 9, 244}
    BY <1>7 DEF EndOK
  <2>2. QED
    BY <1>2, <2>1
<1>9. HalfOK(sock[p], t)
  <2>1. HalfOK(sock'[p], sock'[n])
    BY <1>7 DEF EndOK, Half, HalfOK, Base, FinSent, FinSeen
  <2>2. QED
    BY <1>2, <1>4, <2>1
<1>10. s.state \in {4, 5, 6, 7, 9, 244}
  BY <1>5 DEF EndOK
<1>11. Goes(n, t, out)
  BY <1>2, <1>8, <1>10, StateValues DEF Moves, Rests, Calls, Accepts, Waits, Joins
<1>12. QED
  BY <1>2, <1>3, <1>4, <1>5, <1>8, <1>9, <1>11 DEF Goes, Talks

\* Counting: a segment that ends where the sender is brings all that was sent.
LEMMA AllTaken ==
  ASSUME NEW seq \in Nat, NEW len \in Nat, NEW old \in Nat, NEW new \in Nat,
         NEW base \in Int, NEW local \in Nat, NEW sent \in Nat, NEW start \in Nat,
         NEW fin \in Nat, seq = base + old, seq + len = base + new,
         base = local - (sent - start) - fin, seq + len = local - fin, len > 0
  PROVE  new = sent - start /\ old < sent - start
OBVIOUS

LEMMA NoneOut ==
  ASSUME NEW local \in Nat, NEW sent \in Nat, NEW start \in Nat, NEW len \in Nat,
         NEW fin \in Nat, NEW base \in Int, base = local - (sent - start) - fin,
         local = base + len + fin
  PROVE  len = sent - start
OBVIOUS

\* New bytes are handed to send() only when the peer has been given all others.
LEMMA StreamSends ==
  ASSUME CInv, CInv', TwoEnds, Joined, Joined', NEW n, NEW t, NEW out,
         Becomes(n, t, out), Kind(n, t, out), t.sent # sock[n].sent
  PROVE  Stream!Sends(n)
<1> DEFINE s == sock[n]
           p == Other(n)
           r == sock[p]
<1>1. /\ n \in Node /\ sock'[n] = t /\ sock'[p] = r
      /\ t \in Socket_ /\ s \in Socket_ /\ r \in Socket_
      /\ Sender(n, s, t) /\ HalfOK(s, r)
      /\ r.state \in {4, 5, 6, 7, 9, 244}
  BY JoinedGoes DEF EndOK, Half
<1>2. /\ s.localSeq \in Nat /\ s.sent \in Nat /\ s.start \in Nat
      /\ t.sent \in Nat /\ r.sent \in Nat /\ r.start \in Nat /\ Len(r.got) \in Nat
  BY <1>1, SockNumbers
<1>3. s.state = 4 /\ t.start = s.start /\ t.sent > s.sent
  BY <1>1, <1>2 DEF Sender
<1>4. FinSent(s) = 0
  BY <1>3 DEF FinSent
<1>5. FinSeen(r) = 0 /\ r.remoteSeq = s.localSeq
  BY <1>1, <1>3, <1>4 DEF HalfOK, FinSeen
<1>6. Len(r.got) = s.sent - s.start
  <2> DEFINE len == Len(r.got)
             base == Base(s)
             fin == FinSent(s)
             local == s.localSeq
             sent == s.sent
             start == s.start
  <2>1. r.remoteSeq = base + len + FinSeen(r)
    BY <1>1 DEF HalfOK
  <2>2. base = local - (sent - start) - fin
    BY DEF Base
  <2>3. local = base + len + fin
    BY <1>4, <1>5, <2>1
  <2>4. /\ local \in Nat /\ sent \in Nat /\ start \in Nat /\ len \in Nat
        /\ fin \in Nat /\ base \in Int
    BY <1>1, SockNumbers
  <2> HIDE DEF len, base, fin, local, sent, start
  <2>5. len = sent - start
    BY <2>2, <2>3, <2>4, NoneOut
  <2>6. QED
    BY <2>5 DEF len, sent, start
<1>7. p \in Node /\ Stream!Peer(n) = p
  BY <1>1, OtherEnd
<1>8. Sents[n] = s.sent - s.start /\ Gots[p] = Given(p) /\ Endeds[p] = remoteClosed(r)
      /\ Sents[p] = r.sent - r.start
  BY <1>1, <1>7, SeenNow
<1>9. Sents'[n] = t.sent - t.start /\ Sents'[p] = r.sent - r.start
  BY <1>1, <1>7, SeenNext
<1>10. Len(Given(p)) = Len(r.got)
  BY <1>2 DEF Given
<1>11. Len(Gots[Stream!Peer(n)]) = Sents[n] /\ ~Endeds[Stream!Peer(n)]
  <2>1. ~remoteClosed(r)
    BY <1>1, <1>5, ClosedSeen
  <2>2. Len(Gots[p]) = Sents[n] /\ ~Endeds[p]
    BY <1>6, <1>8, <1>10, <2>1
  <2>3. QED
    BY <1>7, <2>2
<1>12. Sents'[n] \in Nat /\ Sents'[n] > Sents[n]
  BY <1>1, <1>2, <1>3, <1>8, <1>9, <1>6
<1>13. Sents' = [Sents EXCEPT ![n] = Sents'[n]]
  BY <1>1, <1>8, <1>9, OneEnd
<1>14. QED
  BY <1>11, <1>12, <1>13, SMT DEF Stream!Sends, Sents, Gots, Endeds

\* A segment with data in order is the last one sent: with it, all has been given.
LEMMA StreamTakes ==
  ASSUME CInv, CInv', TwoEnds, Joined, Joined', NEW n, NEW t, NEW out,
         Becomes(n, t, out), Kind(n, t, out),
         NEW m \in net, InBlockOrder(n, m), m.data.len > 0,
         t.remoteSeq = m.seq + m.data.len, FinSeen(t) = 0
  PROVE  Stream!Takes(n) /\ Endeds' = Endeds
<1> DEFINE s == sock[n]
           p == Other(n)
           r == sock[p]
<1>1. /\ n \in Node /\ sock'[n] = t /\ sock'[p] = r
      /\ t \in Socket_ /\ s \in Socket_ /\ r \in Socket_
      /\ Sender(n, s, t) /\ HalfOK(r, s) /\ LastOK(p, n) /\ HalfOK(r, t)
      /\ r.state \in {4, 5, 6, 7, 9, 244} /\ s.state \in {4, 5, 6, 7, 9, 244}
      /\ t.state \in {4, 5, 6, 7, 9, 244}
  BY JoinedGoes DEF EndOK, Half
<1>2. p \in Node /\ Stream!Peer(n) = p /\ p # n /\ Other(p) = n
  BY <1>1, OtherEnd
<1>3. m \in Outgoing /\ m.seq \in Nat /\ m.data.len \in Nat
  BY BInvTypes, OutFields DEF CInv, HInv
<1>4. /\ r.localSeq \in Nat /\ r.sent \in Nat /\ r.start \in Nat /\ FinSent(r) \in {0, 1}
      /\ Len(s.got) \in Nat /\ Len(t.got) \in Nat /\ s.remoteSeq \in Nat
      /\ t.got \in Seq(Nat)
  BY <1>1, SockNumbers
<1>5. s.state \in {4, 244} /\ m.seq = s.remoteSeq /\ ~HasRst(m) /\ m.src = s.remoteIP
  BY <1>1 DEF InBlockOrder, FromPeer
<1>6. m.src = p
  BY <1>1, <1>2, <1>5 DEF Joined, Connected
<1>7. FinSeen(s) = 0
  BY <1>5 DEF FinSeen
<1>8. /\ s.remoteSeq = Base(r) + Len(s.got) /\ t.remoteSeq = Base(r) + Len(t.got)
      /\ Base(r) = r.localSeq - (r.sent - r.start) - FinSent(r) /\ Base(r) \in Int
      /\ \A i \in 1 .. Len(t.got) : t.got[i] = r.start + i
  <2>1. /\ s.remoteSeq = Base(r) + Len(s.got) + FinSeen(s)
        /\ t.remoteSeq = Base(r) + Len(t.got) + FinSeen(t)
        /\ \A i \in 1 .. Len(t.got) : t.got[i] = r.start + i
    BY <1>1 DEF HalfOK
  <2>2. Base(r) \in Int /\ Base(r) = r.localSeq - (r.sent - r.start) - FinSent(r)
    BY <1>1, SockNumbers DEF Base
  <2>3. Base(r) + Len(s.got) \in Int /\ Base(r) + Len(t.got) \in Int
    BY <1>4, <2>2
  <2>4. s.remoteSeq = Base(r) + Len(s.got)
    BY <1>7, <2>1, <2>3
  <2>5. t.remoteSeq = Base(r) + Len(t.got)
    BY <2>1, <2>3
  <2>6. QED
    BY <2>1, <2>2, <2>4, <2>5
<1>9. m.seq + m.data.len = r.localSeq - FinSent(r)
  <2>1. m.seq >= Base(r)
    BY <1>4, <1>5, <1>8
  <2>2. \/ m.seq + m.data.len <= s.remoteSeq
        \/ m.seq + m.data.len = r.localSeq - FinSent(r)
    BY <1>1, <1>5, <1>6, <2>1 DEF LastOK
  <2>3. QED
    BY <1>3, <1>4, <1>5, <2>2
<1>10. Len(t.got) = r.sent - r.start /\ Len(s.got) < r.sent - r.start
       /\ r.sent - r.start \in Nat
  <2> DEFINE old == Len(s.got)
             new == Len(t.got)
             base == Base(r)
             fin == FinSent(r)
             seq == m.seq
             len == m.data.len
             local == r.localSeq
             sent == r.sent
             start == r.start
  <2>1. /\ seq = base + old /\ seq + len = base + new
        /\ base = local - (sent - start) - fin
        /\ seq + len = local - fin
    BY <1>5, <1>8, <1>9
  <2>2. /\ seq \in Nat /\ len \in Nat /\ local \in Nat /\ sent \in Nat /\ start \in Nat
        /\ old \in Nat /\ new \in Nat /\ fin \in Nat /\ base \in Int /\ len > 0
    BY <1>3, <1>4, <1>8
  <2> HIDE DEF old, new, base, fin, seq, len, local, sent, start
  <2>3. new = sent - start /\ old < sent - start
    BY <2>1, <2>2, AllTaken
  <2>4. sent - start \in Nat
    BY <2>2, <2>3
  <2>5. QED
    BY <2>3, <2>4 DEF old, new, sent, start
<1>11. /\ Sents[p] = r.sent - r.start /\ Gots[n] = Given(n) /\ Endeds[n] = remoteClosed(s)
       /\ Gots[p] = Given(p) /\ Endeds[p] = remoteClosed(r)
  BY <1>1, <1>2, SeenNow
<1>12. /\ Gots'[n] = Given(n)' /\ Endeds'[n] = remoteClosed(t)
       /\ Gots'[p] = Given(p)' /\ Endeds'[p] = remoteClosed(r)
  BY <1>1, <1>2, SeenNext
<1>13. Len(Given(n)) = Len(s.got)
  BY <1>4 DEF Given
<1>14. Given(n)' = Stream!FirstBytes(r.sent - r.start)
  <2>1. Given(n)' = [i \in 1 .. Len(t.got) |-> t.got[i] - r.start]
    BY <1>1 DEF Given
  <2>2. QED
    BY <1>4, <1>8, <1>10, <2>1, Numbered
<1>15. Given(p)' = Given(p)
  BY <1>1, <1>2 DEF Given, Sender
<1>16. remoteClosed(t) = FALSE /\ remoteClosed(s) = FALSE
  BY <1>1, <1>7, ClosedSeen DEF remoteClosed
<1>17. Endeds' = Endeds
  <2>1. Endeds'[p] = Endeds[p] /\ Endeds'[n] = Endeds[n]
    BY <1>11, <1>12, <1>16
  <2>2. QED
    BY <1>1, <2>1, OneEnd
<1>18. Len(Gots[n]) < Sents[Stream!Peer(n)] /\ ~Endeds[n]
  BY <1>2, <1>10, <1>11, <1>13, <1>16
<1>19. Gots' = [Gots EXCEPT ![n] = Stream!FirstBytes(Sents[Stream!Peer(n)])]
  <2>1. Gots'[n] = Stream!FirstBytes(Sents[Stream!Peer(n)])
    BY <1>2, <1>11, <1>12, <1>14
  <2>2. Gots' = [Gots EXCEPT ![n] = Gots'[n]]
    BY <1>1, <1>11, <1>12, <1>15, OneEnd
  <2>3. QED
    BY <2>1, <2>2
<1>20. Stream!Takes(n)
  BY <1>18, <1>19, SMT DEF Stream!Takes, Sents, Gots, Endeds
<1>21. QED
  BY <1>17, <1>20

\* The FIN in order comes after the last byte.
LEMMA StreamTold ==
  ASSUME CInv, CInv', TwoEnds, Joined, Joined', NEW n, NEW t, NEW out,
         Becomes(n, t, out), Kind(n, t, out),
         NEW m \in net, InBlockOrder(n, m),
         t.got = sock[n].got, FinSeen(t) = 1, t.sent = sock[n].sent
  PROVE  Stream!ReadEnd(n)
<1> DEFINE s == sock[n]
           p == Other(n)
           r == sock[p]
<1>1. /\ n \in Node /\ sock'[n] = t /\ sock'[p] = r
      /\ t \in Socket_ /\ s \in Socket_ /\ r \in Socket_
      /\ Sender(n, s, t) /\ HalfOK(r, t)
      /\ s.state \in {4, 5, 6, 7, 9, 244} /\ t.state \in {4, 5, 6, 7, 9, 244}
  BY JoinedGoes DEF EndOK, Half
<1>2. p \in Node /\ Stream!Peer(n) = p /\ p # n /\ Other(p) = n
  BY <1>1, OtherEnd
<1>3. Joined' = Joined
  BY DEF Joined
<1>4. Len(t.got) = r.sent - r.start
  <2> DEFINE len == Len(t.got)
             base == Base(r)
             fin == FinSent(r)
             local == r.localSeq
             sent == r.sent
             start == r.start
  <2>1. t.remoteSeq = base + len + FinSeen(t) /\ fin = 1 /\ t.remoteSeq = local
    BY <1>1 DEF HalfOK
  <2>2. base = local - (sent - start) - fin
    BY DEF Base
  <2>3. local = base + len + fin
    BY <2>1
  <2>4. /\ local \in Nat /\ sent \in Nat /\ start \in Nat /\ len \in Nat
        /\ fin \in Nat /\ base \in Int
    BY <1>1, <2>1, SockNumbers
  <2> HIDE DEF len, base, fin, local, sent, start
  <2>5. len = sent - start
    BY <2>2, <2>3, <2>4, NoneOut
  <2>6. QED
    BY <2>5 DEF len, sent, start
<1>5. remoteClosed(s) = FALSE /\ remoteClosed(t) = TRUE
  <2>1. FinSeen(s) = 0
    BY DEF InBlockOrder, FinSeen
  <2>2. ~remoteClosed(s) /\ remoteClosed(t)
    BY <1>1, <2>1, ClosedSeen
  <2>3. QED
    BY <2>2 DEF remoteClosed
<1>6. /\ Sents[p] = r.sent - r.start /\ Gots[n] = Given(n) /\ Endeds[n] = remoteClosed(s)
      /\ Gots[p] = Given(p) /\ Endeds[p] = remoteClosed(r) /\ Sents[n] = s.sent - s.start
  BY <1>1, <1>2, SeenNow
<1>7. /\ Gots'[n] = Given(n)' /\ Endeds'[n] = remoteClosed(t) /\ Sents'[p] = r.sent - r.start
      /\ Gots'[p] = Given(p)' /\ Endeds'[p] = remoteClosed(r) /\ Sents'[n] = t.sent - t.start
  BY <1>1, <1>2, SeenNext
<1>8. Given(p)' = Given(p) /\ Given(n)' = Given(n)
  BY <1>1, <1>2 DEF Given, Sender
<1>9. Sents' = Sents
  <2>1. Sents'[p] = Sents[p] /\ Sents'[n] = Sents[n]
    BY <1>1, <1>6, <1>7 DEF Sender
  <2>2. QED
    BY <1>1, <2>1, OneEnd
<1>10. Gots' = Gots
  BY <1>1, <1>6, <1>7, <1>8, OneEnd
<1>11. Endeds' = [Endeds EXCEPT ![n] = TRUE]
  <2>1. Endeds' = [Endeds EXCEPT ![n] = Endeds'[n]]
    BY <1>1, <1>6, <1>7, OneEnd
  <2>2. QED
    BY <1>5, <1>7, <2>1
<1>12. Len(Gots'[n]) = Sents[Stream!Peer(n)] /\ ~Endeds[n]
  <2>1. Len(s.got) \in Nat
    BY <1>1, SockNumbers
  <2>2. Len(Given(n)) = Len(s.got)
    BY <2>1 DEF Given
  <2>3. QED
    BY <1>2, <1>4, <1>5, <1>6, <1>7, <1>8, <2>2
<1>13. Stream!Ends(n)
  BY <1>11, <1>12, SMT DEF Stream!Ends, Sents, Gots, Endeds
<1>14. QED
  BY <1>3, <1>9, <1>10, <1>13, SMT DEF Stream!ReadEnd, Sents, Gots, Endeds

\* A step of one end while the two are joined.
LEMMA JoinedMoves ==
  ASSUME CInv, CInv', TwoEnds, Joined, Joined', NEW n, NEW t, NEW out,
         Becomes(n, t, out), Kind(n, t, out)
  PROVE  Stream!Next \/ UNCHANGED Stream!stream
<1> DEFINE s == sock[n]
           p == Other(n)
           r == sock[p]
<1>1. /\ n \in Node /\ sock'[n] = t /\ sock'[p] = r
      /\ s \in Socket_ /\ t \in Socket_
      /\ Sender(n, s, t) /\ Receiver(n, s, t)
      /\ s.state \in {4, 5, 6, 7, 9, 244} /\ t.state \in {4, 5, 6, 7, 9, 244}
  BY JoinedGoes DEF EndOK
<1>2. p \in Node /\ p # n /\ Other(p) = n
  BY <1>1, OtherEnd
<1>3. Joined' = Joined
  BY DEF Joined
<1>4. /\ Sents[p] = r.sent - r.start /\ Gots[n] = Given(n) /\ Endeds[n] = remoteClosed(s)
      /\ Gots[p] = Given(p) /\ Endeds[p] = remoteClosed(r) /\ Sents[n] = s.sent - s.start
  BY <1>1, <1>2, SeenNow
<1>5. /\ Gots'[n] = Given(n)' /\ Endeds'[n] = remoteClosed(t) /\ Sents'[p] = r.sent - r.start
      /\ Gots'[p] = Given(p)' /\ Endeds'[p] = remoteClosed(r) /\ Sents'[n] = t.sent - t.start
  BY <1>1, <1>2, SeenNext
<1>6. t.sent = s.sent => Sents' = Sents
  BY <1>1, <1>4, <1>5, OneEnd DEF Sender
<1>7. CASE t.remoteSeq = s.remoteSeq /\ t.got = s.got /\ FinSeen(t) = FinSeen(s)
  <2>1. Gots' = Gots
    <3>1. Given(p)' = Given(p) /\ Given(n)' = Given(n)
      BY <1>1, <1>2, <1>7 DEF Given, Sender
    <3>2. QED
      BY <1>1, <1>4, <1>5, <3>1, OneEnd
  <2>2. Endeds' = Endeds
    <3>1. remoteClosed(t) <=> remoteClosed(s)
      BY <1>1, <1>7, ClosedSeen
    <3>2. remoteClosed(t) = remoteClosed(s)
      BY <3>1 DEF remoteClosed
    <3>3. QED
      BY <1>1, <1>4, <1>5, <3>2, OneEnd
  <2>3. CASE t.sent = s.sent
    BY <1>3, <1>6, <2>1, <2>2, <2>3, StreamStill
  <2>4. CASE t.sent # s.sent
    <3>1. Stream!Sends(n)
      BY <2>4, StreamSends
    <3>2. Stream!Write(n)
      BY <1>3, <2>1, <2>2, <3>1, SMT DEF Stream!Write, Sents, Gots, Endeds
    <3>3. QED
      BY <1>1, <3>2 DEF Stream!Next
  <2>5. QED
    BY <2>3, <2>4
<1>8. ASSUME NEW m \in net, InBlockOrder(n, m), HasFin(m),
             t.remoteSeq = m.seq + 1, t.got = s.got, FinSeen(t) = 1, t.sent = s.sent
      PROVE  Stream!Next
  <2>1. Stream!ReadEnd(n)
    BY <1>8, StreamTold
  <2>2. QED
    BY <1>1, <2>1 DEF Stream!Next
<1>9. ASSUME NEW m \in net, InBlockOrder(n, m), m.data.len > 0,
             t.remoteSeq = m.seq + m.data.len, FinSeen(t) = 0
      PROVE  Stream!Next
  <2>1. Stream!Takes(n) /\ Endeds' = Endeds
    BY <1>9, StreamTakes
  <2>2. CASE t.sent = s.sent
    <3>1. Sents' = Sents
      BY <1>6, <2>2
    <3>2. Stream!Read(n)
      BY <1>3, <2>1, <3>1, SMT DEF Stream!Read, Sents, Gots, Endeds
    <3>3. QED
      BY <1>1, <3>2 DEF Stream!Next
  <2>3. CASE t.sent # s.sent
    <3>1. Stream!Sends(n)
      BY <2>3, StreamSends
    <3>2. Stream!Reply(n)
      BY <1>3, <2>1, <3>1, SMT DEF Stream!Reply, Sents, Gots, Endeds
    <3>3. QED
      BY <1>1, <3>2 DEF Stream!Next
  <2>4. QED
    BY <2>2, <2>3
<1>10. QED
  BY <1>1, <1>7, <1>8, <1>9 DEF Receiver

\* The handshake is over when the host takes the ACK of its SYN|ACK: it has
\* neither sent nor been given anything, but may have called close().
LEMMA StreamOpens ==
  ASSUME CInv, CInv', TwoEnds, ~Joined, Joined', NEW n, NEW t, NEW out,
         Becomes(n, t, out), Kind(n, t, out)
  PROVE  Stream!Open
<1> DEFINE s == sock[n]
           p == Other(n)
           r == sock[p]
<1>1. HInv /\ ServersListen /\ Fields /\ SegInv /\ ConnInv
  BY DEF CInv
<1>2. /\ n \in Node /\ t \in Socket_ /\ sock'[n] = t
      /\ \A k \in Node : k # n => sock'[k] = sock[k]
      /\ \A k \in Node : sock[k] \in Socket_
      /\ Moves(n, t, out)
  BY <1>1, OneMoves
<1>3. p \in Node /\ p # n /\ Other(p) = n /\ Stream!Peer(n) = p /\ Stream!Peer(p) = n
      /\ \A k \in Node : k = n \/ k = p
  <2>1. p \in Node /\ p # n /\ Stream!Peer(n) = p /\ \A k \in Node : k = n \/ k = p
    BY <1>2, OtherEnd
  <2>2. Other(p) = n /\ Stream!Peer(p) = n
    BY <1>2, <2>1, OtherEnd
  <2>3. QED
    BY <2>1, <2>2
<1>4. sock'[p] = r /\ s \in Socket_ /\ r \in Socket_
  BY <1>2, <1>3
<1>5. /\ t.remoteIP = p /\ r.remoteIP = n
      /\ t.localPort = r.remotePort /\ t.remotePort = r.localPort
      /\ Synchronized(t) /\ Synchronized(r) /\ t.opened /\ r.opened
  <2>1. Connected(n, p)'
    BY <1>2, <1>3 DEF Joined
  <2>2. QED
    BY <1>2, <1>4, <2>1 DEF Connected, Synchronized
<1>6. /\ t.state \in {4, 5, 6, 7, 9, 244} /\ r.state \in {4, 5, 6, 7, 9, 244}
      /\ HalfOK(t, r)
  <2>1. EndsOK'
    BY EndsAreNext
  <2>2. \A a \in Node : EndOK(a, Other(a))'
    BY <2>1 DEF EndsOK
  <2>3. EndOK(n, p)' /\ EndOK(p, n)'
    BY <1>2, <1>3, <2>2
  <2>4. HalfOK(sock'[n], sock'[p])
    BY <2>3 DEF EndOK, Half, HalfOK, Base, FinSent, FinSeen
  <2>5. sock'[n].state \in {4, 5, 6, 7, 9, 244} /\ sock'[p].state \in {4, 5, 6, 7, 9, 244}
    BY <2>3 DEF EndOK
  <2>6. QED
    BY <1>2, <1>4, <2>4, <2>5
<1>7. ASSUME NEW m \in net, Joins(n, m, t, out)
      PROVE  FALSE
  <2>1. n \notin Hosts /\ s.state = SYN_SENT /\ t.localPort = s.localPort
    BY <1>1, <1>2, <1>7, StateValues DEF Joins, Fields, DevStates, LiveStates
  <2>2. p \in Hosts
    <3>1. Server[n] \in Hosts /\ Server[n] \in Node
      BY <1>1, <1>2, <2>1, NodeAssumption DEF ServersListen
    <3>2. QED
      BY <1>3, <2>1, <3>1
  <2>3. Tied(n, p)
    BY <1>5, <1>6, <2>1, <2>2, StateValues DEF Tied, Holds
  <2>4. Apart(n, p) \/ Agree(n, p)
    BY <1>1, <1>2, <1>3, <2>1, <2>3, StateValues DEF ConnInv, Pair
  <2>5. QED
    BY <1>5, <2>1, <2>4 DEF Apart, Agree
<1>8. Goes(n, t, out)
  BY <1>2, <1>6, <1>7, StateValues DEF Moves, Rests, Calls, Accepts, Waits
<1>9. /\ s.state \in LiveStates /\ Sender(n, s, t) /\ Receiver(n, s, t)
      /\ t.localPort = s.localPort /\ t.remoteIP = s.remoteIP /\ t.remotePort = s.remotePort
  BY <1>8 DEF Goes, Talks
<1>10. ~s.opened
  <2>1. ~(Synchronized(s) /\ s.opened)
    <3>1. ASSUME Synchronized(s), s.opened
          PROVE  Connected(n, p) /\ Connected(p, n)
      BY <1>5, <1>9, <3>1 DEF Connected
    <3>2. ~(Connected(n, p) /\ Connected(p, n))
      BY <1>3 DEF Joined
    <3>3. QED
      BY <3>1, <3>2
  <2>2. ~Synchronized(s) => s.state = 3
    BY <1>9, StateValues, StateByte DEF LiveStates, Synchronized
  <2>3. s.state = 3 => ~s.opened
    BY <1>1, <1>2 DEF Fields, Young
  <2>4. QED
    BY <2>1, <2>2, <2>3
<1>11. s.state \in {3, 5} /\ s.sent = s.start /\ s.got = <<>>
  BY <1>1, <1>2, <1>9, <1>10 DEF Fields, Young, LiveStates
<1>12. t.sent = s.sent /\ t.start = s.start
  BY <1>9, <1>11 DEF Sender
<1>13. t.got = <<>> /\ FinSeen(t) = 0
  <2>1. FinSeen(s) = 0
    BY <1>11 DEF FinSeen
  <2>2. \A m \in net : ~InBlockOrder(n, m)
    BY <1>11 DEF InBlockOrder
  <2>3. QED
    BY <1>9, <1>11, <2>1, <2>2 DEF Receiver
<1>14. t.sent - t.start = 0
  BY <1>4, <1>11, <1>12, SockNumbers
<1>15. Len(r.got) = 0
  <2>1. Len(r.got) <= t.sent - t.start /\ Len(r.got) \in Nat
    BY <1>4, <1>6, SockNumbers DEF HalfOK
  <2> DEFINE len == Len(r.got)
  <2>2. len <= 0 /\ len \in Nat
    BY <1>14, <2>1
  <2> HIDE DEF len
  <2>3. len = 0
    BY <2>2
  <2>4. QED
    BY <2>3 DEF len
<1>16. r.sent - r.start \in Nat
  <2>1. r.sent >= r.start
    BY <1>1, <1>3 DEF Fields, Young
  <2>2. QED
    BY <1>4, <2>1, SockNumbers
<1>17. /\ Gots'[n] = Given(n)' /\ Endeds'[n] = remoteClosed(t) /\ Sents'[p] = r.sent - r.start
       /\ Gots'[p] = Given(p)' /\ Endeds'[p] = remoteClosed(r) /\ Sents'[n] = t.sent - t.start
  BY <1>2, <1>3, <1>4, SeenNext
<1>18. Given(n)' = <<>> /\ Given(p)' = <<>>
  <2>1. Len(t.got) = 0
    BY <1>13
  <2>2. Given(n)' = [i \in 1 .. 0 |-> t.got[i] - sock'[Other(n)].start]
    BY <1>2, <2>1 DEF Given
  <2>3. Given(p)' = [i \in 1 .. 0 |-> r.got[i] - sock'[Other(p)].start]
    BY <1>4, <1>15 DEF Given
  <2>4. QED
    BY <2>2, <2>3
<1>19. Gots' = [a \in Node |-> <<>>]
  <2>1. \A a \in Node : Gots'[a] = <<>>
    BY <1>3, <1>17, <1>18
  <2>2. Gots' = [a \in Node |-> Gots'[a]]
    BY DEF Gots
  <2>3. QED
    BY <2>1, <2>2
<1>20. /\ \A a \in Node : Sents'[a] \in Nat
       /\ Sents' = [a \in Node |-> Sents'[a]]
  <2>1. \A a \in Node : Sents'[a] \in Nat
    BY <1>3, <1>14, <1>16, <1>17
  <2>2. Sents' = [a \in Node |-> Sents'[a]]
    BY DEF Sents
  <2>3. QED
    BY <2>1, <2>2
<1>21. /\ Endeds' \in [Node -> BOOLEAN]
       /\ \A a \in Node : Endeds'[a] => Sents'[Stream!Peer(a)] = 0
  <2>1. ~remoteClosed(t)
    BY <1>6, <1>13, ClosedSeen
  <2>2. ~Endeds'[n] /\ Sents'[Stream!Peer(p)] = 0
    BY <1>3, <1>14, <1>17, <2>1
  <2>3. \A a \in Node : Endeds'[a] => Sents'[Stream!Peer(a)] = 0
    BY <1>3, <2>2
  <2>4. Endeds' \in [Node -> BOOLEAN]
    BY DEF Endeds, remoteClosed, Joined
  <2>5. QED
    BY <2>3, <2>4
<1>22. QED
  BY <1>19, <1>20, <1>21, SMT DEF Stream!Open, Sents, Gots, Endeds

\* Time and the loss of a segment are not seen.
LEMMA StreamPasses ==
  ASSUME TwoEnds, Passes
  PROVE  UNCHANGED Stream!stream
<1>1. ASSUME NEW a \in Node
      PROVE  LET s == sock[a] t == sock'[a] IN
             /\ t.state = s.state /\ t.remoteIP = s.remoteIP /\ t.localPort = s.localPort
             /\ t.remotePort = s.remotePort /\ t.opened = s.opened
             /\ t.sent = s.sent /\ t.start = s.start /\ t.got = s.got
  BY DEF Passes, Quiet, Same
<1>2. ASSUME NEW a \in Node, NEW b \in Node
      PROVE  Connected(a, b)' <=> Connected(a, b)
  BY <1>1 DEF Connected, Synchronized
<1>3. \A a \in Node : Other(a) \in Node
  BY OtherEnd
<1>4. Joined' <=> Joined
  <2>1. \A a \in Node : Connected(a, Other(a))' <=> Connected(a, Other(a))
    BY <1>2, <1>3
  <2>2. QED
    BY <2>1 DEF Joined
<1>5. Joined' = Joined
  BY <1>4 DEF Joined
<1>6. Sents' = Sents
  BY <1>1, <1>5 DEF Sents, Sent
<1>7. Gots' = Gots
  <2>1. \A a \in Node : Given(a)' = Given(a)
    BY <1>1, <1>3 DEF Given
  <2>2. QED
    BY <1>5, <2>1 DEF Gots
<1>8. Endeds' = Endeds
  <2>1. \A a \in Node : remoteClosed(sock'[a]) = remoteClosed(sock[a])
    BY <1>1 DEF remoteClosed
  <2>2. QED
    BY <1>5, <2>1 DEF Endeds
<1>9. QED
  BY <1>5, <1>6, <1>7, <1>8, StreamStill

LEMMA StreamNext ==
  ASSUME CInv, CInv', TwoEnds, [Next]_vars
  PROVE  [Stream!Next]_Stream!stream
<1>1. SInv /\ FlagsAlone
  BY DEF CInv, HInv, BInv
<1>2. CASE Passes
  BY <1>2, StreamPasses
<1>3. ASSUME NEW n, NEW t, NEW out, Becomes(n, t, out), Kind(n, t, out)
      PROVE  Stream!Next \/ UNCHANGED Stream!stream
  <2>1. CASE Joined /\ Joined'
    BY <1>3, <2>1, JoinedMoves
  <2>2. CASE Joined /\ ~Joined'
    BY <2>2, StreamBreaks DEF Stream!Next
  <2>3. CASE ~Joined /\ Joined'
    BY <1>3, <2>3, StreamOpens DEF Stream!Next
  <2>4. CASE ~Joined /\ ~Joined'
    <3>1. Joined' = Joined
      BY <2>4 DEF Joined
    <3>2. Sents' = Sents /\ Gots' = Gots /\ Endeds' = Endeds
      BY <2>4, <3>1 DEF Sents, Gots, Endeds
    <3>3. QED
      BY <3>1, <3>2, StreamStill
  <2>5. QED
    BY <2>1, <2>2, <2>3, <2>4
<1>4. QED
  BY <1>1, <1>2, <1>3, NextKind DEF Does

LEMMA StreamInit == Init /\ TwoEnds => Stream!Down
<1> SUFFICES ASSUME Init, TwoEnds PROVE Stream!Down
  OBVIOUS
<1>1. PICK a \in Node : TRUE
  BY DEF TwoEnds
<1>2. sock[a].state \in {LISTEN, CLOSED}
  BY DEF Init
<1>3. ~Connected(a, Other(a))
  BY <1>2, StateByte, StateValues DEF Connected, Synchronized
<1>4. QED
  BY <1>1, <1>3, StreamDown DEF Joined

\* What TCPHandler.cpp:12-15 promises of a connection is what handleSegment(), the
\* calls of both applications and checkState() make of it: every step of the two
\* sockets is one of the stream, or is not seen by the applications.
THEOREM StreamRefined == Spec /\ ServersListen /\ TwoEnds => StreamImplemented
<1>1. TwoEnds => []TwoEnds
  <2>1. TwoEnds => TwoEnds'
    BY DEF TwoEnds
  <2>2. QED
    BY <2>1, PTL
<1>2. CInv /\ CInv' /\ TwoEnds /\ [Next]_vars => [Stream!Next]_Stream!stream
  BY StreamNext
<1>3. QED
  BY <1>1, <1>2, CInvAlways, StreamInit, PTL DEF Spec, StreamImplemented, Stream!Spec

=============================================================================
