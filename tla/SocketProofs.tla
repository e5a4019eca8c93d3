---------------------------- MODULE SocketProofs ----------------------------
(* Theorems about Socket, for any number of devices, any configuration and *)
(* any bounds: TypeOK, SameBytes and SeqNeverBack.                         *)
EXTENDS Socket, SequenceTheorems, TLAPS

\* What makes the subtractions of checkState() safe: there is a sequence number
\* to take back wherever a SYN, a FIN or the stash may be sent again.
SeqOK(s) ==
    /\ s.state \in {SYN_SENT, SYN_RECEIVED, FIN_WAIT_1, CLOSING} => s.localSeq >= 1
    /\ IsAwaiting(s.state) => s.stash.len \in 1 .. s.localSeq

\* Data in flight lies below the localSeq of its sender ...
DataSent ==
    \A m \in net : m.data.len > 0 => m.seq + m.data.len <= sock[m.src].localSeq

\* ... and what is at the place of the stash is the stash.
StashSent ==
    \A m \in net :
        LET s == sock[m.src] IN
        m.data.len > 0 /\ IsAwaiting(s.state) /\ m.seq = s.localSeq - s.stash.len
            => m.data = s.stash

IInv ==
    /\ TypeOK
    /\ \A n \in Node : SeqOK(sock[n])
    /\ DataSent
    /\ StashSent
    /\ SameBytes

-----------------------------------------------------------------------------
(* What the helpers do to the fields of one socket.                        *)

\* The operation took s to t without sending new data: localSeq may only grow,
\* and t waits for an ACK only if s did, for the same bytes.
Keeps(s, t) ==
    /\ t \in Socket_
    /\ t.localSeq >= s.localSeq
    /\ IsAwaiting(t.state) =>
          /\ IsAwaiting(s.state)
          /\ t.localSeq = s.localSeq /\ t.stash = s.stash

States == LISTEN .. CLOSED \cup {20, 21, 244}

\* The arithmetic of the state byte, on the values it takes.
LEMMA StateByte ==
    /\ State = States
    /\ \A st \in State : IsAwaiting(st) <=> st = 244
    /\ \A st \in State : st # 244 => (Low(st) = ESTABLISHED <=> st \in {4, 20})
    /\ Low(244) = 4 /\ Awaiting(4) = 244 /\ Awaiting(20) = 244 /\ Awaiting(244) = 244
    /\ \A st \in 1 .. 11 : Low(st) = st
  BY DEF State, States, IsAwaiting, Low, Awaiting, LISTEN, CLOSED, ESTABLISHED,
         RESOLVING, UNKNOWN_HOST

\* A segment with nothing known of its addressee.
Outgoing == [src : Node, dst : Node \cup {NoNode}, sport : Nat, dport : Nat,
             ctl : Control, seq : Nat, ack : Nat, data : Data, words : 0 .. 6]

LEMMA NoDataType == NoData \in Data /\ NoData.len = 0
  BY DEF NoData, Data

LEMMA RawType ==
  ASSUME NEW n \in Node, NEW s \in Socket_, NEW ctl \in Control,
         NEW seq \in Nat, NEW ack \in Nat, NEW data \in Data
  PROVE  LET m == Raw(n, s, ctl, seq, ack, data)
         IN  m \in Outgoing /\ m.src = n /\ m.seq = seq /\ m.data = data
  BY DEF Raw, Outgoing, Socket_

LEMMA SegType ==
  ASSUME NEW n \in Node, NEW s \in Socket_, NEW ctl \in Control, NEW data \in Data
  PROVE  LET m == Seg(n, s, ctl, data)
         IN  m \in Outgoing /\ m.src = n /\ m.seq = s.localSeq /\ m.data = data
<1>1. s.localSeq \in Nat /\ s.remoteSeq \in Nat
  BY DEF Socket_
<1>2. QED
  BY <1>1, RawType DEF Seg

\* The segments of an operation that sends no new data.
Empty(n, out) == out \subseteq Outgoing /\ \A m \in out : m.src = n /\ m.data.len = 0

LEMMA EmptyOut ==
  ASSUME NEW n \in Node, NEW s \in Socket_
  PROVE  /\ \A ctl \in Control : Empty(n, {Seg(n, s, ctl, NoData)})
         /\ Empty(n, {Ack(n, s)}) /\ Empty(n, {Fin(n, s)}) /\ Empty(n, {})
         /\ \A seq, ack \in Nat : Empty(n, {Reset(n, s, seq, ack)})
         /\ Empty(n, ForceReset(n, s))
<1>1. \A ctl \in Control : Empty(n, {Seg(n, s, ctl, NoData)})
  BY SegType, NoDataType DEF Empty
<1>2. {"ACK"} \in Control /\ {"FIN", "ACK"} \in Control
      /\ {"RST"} \in Control /\ {"RST", "ACK"} \in Control
  BY DEF Control
<1>3. Empty(n, {Ack(n, s)}) /\ Empty(n, {Fin(n, s)})
  BY <1>1, <1>2 DEF Ack, Fin
<1>4. ASSUME NEW seq \in Nat, NEW ack \in Nat
      PROVE  Empty(n, {Reset(n, s, seq, ack)})
  <2>1. CASE ack = s.remoteSeq
    BY <2>1, <1>2, RawType, NoDataType DEF Empty, Reset
  <2>2. CASE ack # s.remoteSeq
    BY <2>2, <1>2, RawType, NoDataType DEF Empty, Reset
  <2>3. QED
    BY <2>1, <2>2
<1>5. Empty(n, {})
  BY DEF Empty
<1>6. s.localSeq \in Nat /\ s.remoteSeq \in Nat
  BY DEF Socket_
<1>7. QED
  BY <1>1, <1>3, <1>4, <1>5, <1>6 DEF ForceReset


\* t is a step on from s and keeps what the retransmissions rely on.
Good(s, t) == Keeps(s, t) /\ SeqOK(t)

LEMMA SameGood ==
  ASSUME NEW s \in Socket_, SeqOK(s), NEW t \in Socket_,
         t.state = s.state, t.localSeq = s.localSeq, t.stash = s.stash
  PROVE  Good(s, t)
  BY DEF Good, Keeps, SeqOK, Socket_

LEMMA GoodTrans ==
  ASSUME NEW s \in Socket_, NEW t, NEW u, Keeps(s, t), Good(t, u)
  PROVE  Good(s, u)
<1>1. \A v \in Socket_ : v.localSeq \in Nat
  BY DEF Socket_
<1>2. t \in Socket_ /\ u \in Socket_
  BY DEF Good, Keeps
<1>3. QED
  BY <1>1, <1>2 DEF Good, Keeps

\* The states of a retransmission other than that of data.
Handshaking == {SYN_SENT, SYN_RECEIVED, FIN_WAIT_1, CLOSING}

LEMMA StateValues ==
  /\ LISTEN = 1 /\ SYN_SENT = 2 /\ SYN_RECEIVED = 3 /\ ESTABLISHED = 4
  /\ FIN_WAIT_1 = 5 /\ FIN_WAIT_2 = 6 /\ CLOSE_WAIT = 7 /\ CLOSING = 8
  /\ LAST_ACK = 9 /\ TIME_WAIT = 10 /\ CLOSED = 11
  /\ RESOLVING = 20 /\ UNKNOWN_HOST = 21
  BY DEF LISTEN, SYN_SENT, SYN_RECEIVED, ESTABLISHED, FIN_WAIT_1, FIN_WAIT_2,
         CLOSE_WAIT, CLOSING, LAST_ACK, TIME_WAIT, CLOSED, RESOLVING, UNKNOWN_HOST

LEMMA SetStateGood ==
  ASSUME NEW s \in Socket_, NEW st \in State, st # 244,
         st \in Handshaking => s.localSeq >= 1
  PROVE  LET t == setState(s, st)
         IN  /\ Good(s, t) /\ t \in Socket_
             /\ t.state = st /\ t.localSeq = s.localSeq /\ t.stash = s.stash
<1> DEFINE t == setState(s, st)
<1>1. t \in Socket_ /\ t.state = st /\ t.localSeq = s.localSeq /\ t.stash = s.stash
  BY DEF setState, Socket_
<1>2. ~IsAwaiting(st)
  BY StateByte
<1>3. s.localSeq \in Nat
  BY DEF Socket_
<1>4. QED
  BY <1>1, <1>2, <1>3 DEF Good, Keeps, SeqOK, Handshaking

LEMMA ClosedGood ==
  ASSUME NEW n \in Node, NEW s \in Socket_
  PROVE  Good(s, closed(n, s)) /\ closed(n, s) \in Socket_
<1>1. LISTEN \in State /\ CLOSED \in State
  BY StateByte, StateValues DEF States
<1>2. LISTEN # 244 /\ CLOSED # 244 /\ LISTEN \notin Handshaking /\ CLOSED \notin Handshaking
  BY StateValues DEF Handshaking
<1>3. QED
  BY <1>1, <1>2, SetStateGood DEF closed

LEMMA SentFields ==
  ASSUME NEW s \in Socket_
  PROVE  /\ SentPlain(s) \in Socket_
         /\ SentPlain(s).state = s.state /\ SentPlain(s).localSeq = s.localSeq
         /\ SentPlain(s).stash = s.stash /\ SentPlain(s).remoteSeq = s.remoteSeq
         /\ SentSyn(s) \in Socket_ /\ SentSyn(s).state = s.state
         /\ SentSyn(s).localSeq = s.localSeq + 1 /\ SentSyn(s).stash = s.stash
         /\ SentFin(s) \in Socket_ /\ SentFin(s).state = s.state
         /\ SentFin(s).localSeq = s.localSeq + 1 /\ SentFin(s).stash = s.stash
<1> DEFINE v    == s.localSeq + 1
           five == 5
           six  == 6
<1>1. v \in Nat /\ v = s.localSeq + 1 /\ five \in 0 .. 6 /\ six \in 0 .. 6
  BY DEF Socket_
<1>2. SentPlain(s) = [s EXCEPT !.words = five]
  BY DEF SentPlain
<1>3. SentSyn(s) = [s EXCEPT !.words = six, !.localSeq = v]
  BY DEF SentSyn
<1>4. SentFin(s) = [s EXCEPT !.localSeq = v]
  BY DEF SentFin
<1> HIDE DEF v, five, six
<1>5. /\ SentPlain(s) \in Socket_
      /\ SentPlain(s).state = s.state /\ SentPlain(s).localSeq = s.localSeq
      /\ SentPlain(s).stash = s.stash /\ SentPlain(s).remoteSeq = s.remoteSeq
  BY <1>1, <1>2 DEF Socket_
<1>6. /\ SentSyn(s) \in Socket_ /\ SentSyn(s).state = s.state
      /\ SentSyn(s).localSeq = v /\ SentSyn(s).stash = s.stash
  BY <1>1, <1>3 DEF Socket_
<1>7. /\ SentFin(s) \in Socket_ /\ SentFin(s).state = s.state
      /\ SentFin(s).localSeq = v /\ SentFin(s).stash = s.stash
  BY <1>1, <1>4 DEF Socket_
<1>8. QED
  BY <1>1, <1>5, <1>6, <1>7

LEMMA SentPlainGood ==
  ASSUME NEW s \in Socket_, SeqOK(s)
  PROVE  Good(s, SentPlain(s))
  BY SentFields, SameGood

LEMMA ForceClosedGood ==
  ASSUME NEW n \in Node, NEW s \in Socket_, SeqOK(s)
  PROVE  Good(s, ForceClosed(n, s))
<1>1. CASE s.state = TIME_WAIT
  BY <1>1, ClosedGood DEF ForceClosed
<1>2. CASE s.state # TIME_WAIT
  <2>1. Keeps(s, SentPlain(s)) /\ SentPlain(s) \in Socket_
    BY SentPlainGood, SentFields DEF Good
  <2>2. Good(SentPlain(s), closed(n, SentPlain(s)))
    BY <2>1, ClosedGood
  <2>3. QED
    BY <1>2, <2>1, <2>2, GoodTrans DEF ForceClosed
<1>3. QED
  BY <1>1, <1>2

LEMMA AfterCloseGood ==
  ASSUME NEW s \in Socket_, SeqOK(s)
  PROVE  Good(s, AfterClose(s))
<1> DEFINE t == [SentFin(s) EXCEPT !.attempts = 1]
<1>1. t \in Socket_ /\ t.state = s.state /\ t.localSeq = s.localSeq + 1 /\ t.stash = s.stash
  <2> DEFINE f == SentFin(s)
  <2>1. f \in Socket_ /\ f.state = s.state /\ f.localSeq = s.localSeq + 1 /\ f.stash = s.stash
    BY SentFields
  <2> HIDE DEF f
  <2>2. LET u == [f EXCEPT !.attempts = 1]
        IN  u \in Socket_ /\ u.state = f.state /\ u.localSeq = f.localSeq /\ u.stash = f.stash
    BY <2>1 DEF Socket_
  <2>3. QED
    BY <2>1, <2>2 DEF f
<1> HIDE DEF t
<1>2. s.localSeq \in Nat /\ s.state \in State
  BY DEF Socket_
<1>3. ASSUME NEW st \in State, st # 244
      PROVE  Good(s, setState(t, st))
  <2>1. t.localSeq >= 1 /\ t.localSeq >= s.localSeq
    BY <1>1, <1>2
  <2>2. LET u == setState(t, st)
        IN  Good(t, u) /\ u \in Socket_ /\ u.state = st /\ u.localSeq = t.localSeq
    BY <1>1, <1>3, <2>1, SetStateGood
  <2>3. ~IsAwaiting(st)
    BY <1>3, StateByte
  <2>4. QED
    BY <2>1, <2>2, <2>3 DEF Good, Keeps
<1>4. FIN_WAIT_1 \in State /\ LAST_ACK \in State /\ FIN_WAIT_1 # 244 /\ LAST_ACK # 244
  BY StateByte, StateValues DEF States
<1>5. CASE Low(s.state) = ESTABLISHED
  BY <1>5, <1>3, <1>4 DEF AfterClose, t
<1>6. CASE s.state = SYN_RECEIVED /\ Low(s.state) # ESTABLISHED
  BY <1>6, <1>3, <1>4, StateValues DEF AfterClose, t
<1>7. CASE s.state = CLOSE_WAIT /\ Low(s.state) # ESTABLISHED
  BY <1>7, <1>3, <1>4, StateValues DEF AfterClose, t
<1>8. CASE Low(s.state) # ESTABLISHED /\ s.state # SYN_RECEIVED /\ s.state # CLOSE_WAIT
  <2>1. AfterClose(s) = t
    BY <1>8 DEF AfterClose, t
  <2>2. ~IsAwaiting(s.state)
    BY <1>2, <1>8, StateByte, StateValues
  <2>3. QED
    BY <1>1, <1>2, <2>1, <2>2 DEF Good, Keeps, SeqOK
<1>9. QED
  BY <1>5, <1>6, <1>7, <1>8


-----------------------------------------------------------------------------
(* What an operation may do to preserve IInv, in three forms.              *)

\* Every operation replaces the socket of one device and adds to the network,
\* apart from segments it may take out of it.
Changes(n, t, out) ==
    /\ sock' = [sock EXCEPT ![n] = t]
    /\ net' \subseteq net \cup OnWire(out)

\* New data goes out at the old localSeq, and localSeq moves past it.
Fresh(n, s, t, out) ==
    /\ t \in Socket_ /\ SeqOK(t) /\ out \subseteq Outgoing
    /\ \E d \in Data :
          /\ t.localSeq >= s.localSeq + d.len
          /\ IsAwaiting(t.state) => t.stash = d /\ t.localSeq = s.localSeq + d.len
          /\ \A m \in out : m.src = n /\
                (m.data.len > 0 => m.seq = s.localSeq /\ m.data = d)

\* The stash goes out again, where it was.
Resent(n, s, t, out) ==
    /\ t \in Socket_ /\ SeqOK(t) /\ out \subseteq Outgoing
    /\ IsAwaiting(s.state)
    /\ t.localSeq = s.localSeq /\ t.stash = s.stash
    /\ \A m \in out : m.src = n /\ m.seq = s.localSeq - s.stash.len /\ m.data = s.stash

LEMMA WireType ==
  ASSUME NEW out, out \subseteq Outgoing
  PROVE  OnWire(out) \subseteq Segment /\ OnWire(out) \subseteq out
  BY DEF OnWire, Outgoing, Segment

LEMMA ChangesType ==
  ASSUME TypeOK, NEW n \in Node, NEW t \in Socket_, NEW out, out \subseteq Outgoing,
         Changes(n, t, out)
  PROVE  /\ TypeOK' /\ sock'[n] = t
         /\ \A k \in Node : k # n => sock'[k] = sock[k]
         /\ net' \subseteq net \cup out
  BY WireType DEF TypeOK, Changes

LEMMA Numbers ==
  ASSUME TypeOK
  PROVE  /\ \A n \in Node : sock[n] \in Socket_ /\ sock[n].localSeq \in Nat
                            /\ sock[n].stash \in Data /\ sock[n].stash.len \in Nat
         /\ \A m \in net : m.src \in Node /\ m.seq \in Nat /\ m.data.len \in Nat
         /\ \A m \in Outgoing : m.seq \in Nat /\ m.data.len \in Nat
         /\ \A d \in Data : d.len \in Nat
         /\ \A s \in Socket_ : s.localSeq \in Nat /\ s.stash \in Data
<1>1. \A s \in Socket_ : s.localSeq \in Nat /\ s.stash \in Data
  BY DEF Socket_
<1>2. \A d \in Data : d.len \in Nat
  BY DEF Data
<1>3. \A m \in net : m.src \in Node /\ m.seq \in Nat /\ m.data \in Data
  BY DEF TypeOK, Segment
<1>4. \A m \in Outgoing : m.seq \in Nat /\ m.data \in Data
  BY DEF Outgoing
<1>5. \A n \in Node : sock[n] \in Socket_
  BY DEF TypeOK
<1>6. QED
  BY <1>1, <1>2, <1>3, <1>4, <1>5

Forward == \A n \in Node : sock'[n].localSeq >= sock[n].localSeq

LEMMA FreshInv ==
  ASSUME IInv, NEW n \in Node, NEW t, NEW out,
         Changes(n, t, out), Fresh(n, sock[n], t, out)
  PROVE  IInv' /\ Forward
<1> DEFINE s == sock[n]
<1>1. TypeOK /\ t \in Socket_ /\ out \subseteq Outgoing
  BY DEF IInv, Fresh
<1>2. PICK d \in Data :
          /\ t.localSeq >= s.localSeq + d.len
          /\ IsAwaiting(t.state) => t.stash = d /\ t.localSeq = s.localSeq + d.len
          /\ \A m \in out : m.src = n /\
                (m.data.len > 0 => m.seq = s.localSeq /\ m.data = d)
  BY DEF Fresh
<1>3. /\ TypeOK' /\ sock'[n] = t
      /\ \A k \in Node : k # n => sock'[k] = sock[k]
      /\ net' \subseteq net \cup out
  BY <1>1, ChangesType
<1>4. /\ s.localSeq \in Nat /\ t.localSeq \in Nat /\ d.len \in Nat
      /\ \A k \in Node : sock[k].localSeq \in Nat
      /\ \A m \in net : m.src \in Node /\ m.seq \in Nat /\ m.data.len \in Nat
      /\ \A m \in out : m.seq \in Nat /\ m.data.len \in Nat
  BY <1>1, Numbers
<1>5. Forward
  BY <1>2, <1>3, <1>4 DEF Forward
<1>6. (\A k \in Node : SeqOK(sock[k]))'
  BY <1>3 DEF IInv, Fresh, SeqOK
<1>7. DataSent'
  <2> SUFFICES ASSUME NEW m \in net', m.data.len > 0
               PROVE  m.seq + m.data.len <= sock'[m.src].localSeq
    BY DEF DataSent
  <2>1. CASE m \in net
    <3>1. m.seq + m.data.len <= sock[m.src].localSeq /\ m.src \in Node
      BY <2>1, <1>4 DEF IInv, DataSent
    <3>2. sock'[m.src].localSeq >= sock[m.src].localSeq
      BY <3>1, <1>5 DEF Forward
    <3>3. sock'[m.src].localSeq \in Nat
      BY <3>1, <1>3, <1>4
    <3>4. QED
      BY <2>1, <3>1, <3>2, <3>3, <1>4
  <2>2. CASE m \in out
    BY <2>2, <1>2, <1>3, <1>4
  <2>3. QED
    BY <2>1, <2>2, <1>3
<1>8. \A m \in net : m.src = n /\ m.data.len > 0 => m.seq < s.localSeq
  BY <1>4 DEF IInv, DataSent
<1>9. StashSent'
  <2> SUFFICES ASSUME NEW m \in net', m.data.len > 0, IsAwaiting(sock'[m.src].state),
                      m.seq = sock'[m.src].localSeq - sock'[m.src].stash.len
               PROVE  m.data = sock'[m.src].stash
    BY DEF StashSent, IsAwaiting
  <2>1. CASE m \in out
    BY <2>1, <1>2, <1>3
  <2>2. CASE m \in net /\ m.src = n
    BY <2>2, <1>2, <1>3, <1>4, <1>8
  <2>3. CASE m \in net /\ m.src # n
    <3>1. sock'[m.src] = sock[m.src]
      BY <2>3, <1>3, <1>4
    <3>2. QED
      BY <2>3, <3>1 DEF IInv, StashSent
  <2>4. QED
    BY <2>1, <2>2, <2>3, <1>3
<1>10. SameBytes'
  <2> SUFFICES ASSUME NEW l \in net', NEW m \in net', l.src = m.src,
                      l.data.len > 0, m.data.len > 0, l.seq = m.seq
               PROVE  l.data = m.data
    BY DEF SameBytes
  <2>1. CASE l \in net /\ m \in net
    BY <2>1 DEF IInv, SameBytes
  <2>2. CASE l \in out /\ m \in out
    BY <2>2, <1>2
  <2>3. CASE l \in out /\ m \in net
    BY <2>3, <1>2, <1>4, <1>8
  <2>4. CASE l \in net /\ m \in out
    BY <2>4, <1>2, <1>4, <1>8
  <2>5. QED
    BY <2>1, <2>2, <2>3, <2>4, <1>3
<1>11. QED
  BY <1>3, <1>5, <1>6, <1>7, <1>9, <1>10 DEF IInv


LEMMA QuietInv ==
  ASSUME IInv, NEW n \in Node, NEW t, NEW out,
         Changes(n, t, out), Good(sock[n], t), Empty(n, out)
  PROVE  IInv' /\ Forward
<1> DEFINE s == sock[n]
<1>1. TypeOK /\ t \in Socket_ /\ out \subseteq Outgoing
  BY DEF IInv, Good, Keeps, Empty
<1>2. /\ TypeOK' /\ sock'[n] = t
      /\ \A k \in Node : k # n => sock'[k] = sock[k]
      /\ net' \subseteq net \cup out
  BY <1>1, ChangesType
<1>3. /\ \A k \in Node : sock[k].localSeq \in Nat
      /\ \A k \in Node : sock'[k].localSeq \in Nat
      /\ \A m \in net : m.src \in Node /\ m.seq \in Nat /\ m.data.len \in Nat
  BY <1>1, <1>2, Numbers
<1>4. Forward
  BY <1>2, <1>3 DEF Forward, Good, Keeps
<1>5. (\A k \in Node : SeqOK(sock[k]))'
  BY <1>2 DEF IInv, Good, SeqOK
<1>6. \A m \in net' : m.data.len > 0 => m \in net
  BY <1>2 DEF Empty
<1>7. DataSent'
  <2> SUFFICES ASSUME NEW m \in net', m.data.len > 0
               PROVE  m.seq + m.data.len <= sock'[m.src].localSeq
    BY DEF DataSent
  <2>1. m.seq + m.data.len <= sock[m.src].localSeq /\ m.src \in Node
    BY <1>6, <1>3 DEF IInv, DataSent
  <2>2. sock'[m.src].localSeq >= sock[m.src].localSeq
    BY <2>1, <1>4 DEF Forward
  <2>3. QED
    BY <2>1, <2>2, <1>3, <1>6
<1>8. StashSent'
  <2> SUFFICES ASSUME NEW m \in net', m.data.len > 0, IsAwaiting(sock'[m.src].state),
                      m.seq = sock'[m.src].localSeq - sock'[m.src].stash.len
               PROVE  m.data = sock'[m.src].stash
    BY DEF StashSent, IsAwaiting
  <2>1. CASE m.src = n
    BY <2>1, <1>2, <1>6 DEF IInv, StashSent, Good, Keeps
  <2>2. CASE m.src # n
    BY <2>2, <1>2, <1>3, <1>6 DEF IInv, StashSent
  <2>3. QED
    BY <2>1, <2>2
<1>9. SameBytes'
  BY <1>6 DEF IInv, SameBytes
<1>10. QED
  BY <1>2, <1>4, <1>5, <1>7, <1>8, <1>9 DEF IInv

LEMMA ResentInv ==
  ASSUME IInv, NEW n \in Node, NEW t, NEW out,
         Changes(n, t, out), Resent(n, sock[n], t, out)
  PROVE  IInv' /\ Forward
<1> DEFINE s == sock[n]
<1>1. TypeOK /\ t \in Socket_ /\ out \subseteq Outgoing
  BY DEF IInv, Resent
<1>2. /\ TypeOK' /\ sock'[n] = t
      /\ \A k \in Node : k # n => sock'[k] = sock[k]
      /\ net' \subseteq net \cup out
  BY <1>1, ChangesType
<1>3. /\ \A k \in Node : sock[k].localSeq \in Nat /\ sock[k].stash.len \in Nat
      /\ \A m \in net : m.src \in Node /\ m.seq \in Nat /\ m.data.len \in Nat
  BY <1>1, Numbers
<1>4. \A k \in Node : sock'[k].localSeq = sock[k].localSeq
  BY <1>2 DEF Resent
<1>5. Forward
  BY <1>3, <1>4 DEF Forward
<1>6. (\A k \in Node : SeqOK(sock[k]))'
  BY <1>2 DEF IInv, Resent, SeqOK
<1>7. \A m \in out : m.src = n /\ m.seq = s.localSeq - s.stash.len /\ m.data = s.stash
  BY DEF Resent
<1>8. \A m \in net : m.data.len > 0 /\ m.src = n /\ m.seq = s.localSeq - s.stash.len
                       => m.data = s.stash
  BY DEF IInv, StashSent, Resent
<1>9. DataSent'
  <2> SUFFICES ASSUME NEW m \in net', m.data.len > 0
               PROVE  m.seq + m.data.len <= sock'[m.src].localSeq
    BY DEF DataSent
  <2>1. CASE m \in net
    BY <2>1, <1>3, <1>4 DEF IInv, DataSent
  <2>2. CASE m \in out
    BY <2>2, <1>3, <1>4, <1>7
  <2>3. QED
    BY <2>1, <2>2, <1>2
<1>10. StashSent'
  <2> SUFFICES ASSUME NEW m \in net', m.data.len > 0, IsAwaiting(sock'[m.src].state),
                      m.seq = sock'[m.src].localSeq - sock'[m.src].stash.len
               PROVE  m.data = sock'[m.src].stash
    BY DEF StashSent, IsAwaiting
  <2>1. CASE m \in out
    BY <2>1, <1>2, <1>7 DEF Resent
  <2>2. CASE m \in net /\ m.src = n
    BY <2>2, <1>2, <1>8 DEF Resent
  <2>3. CASE m \in net /\ m.src # n
    <3>1. sock'[m.src] = sock[m.src]
      BY <2>3, <1>2, <1>3
    <3>2. QED
      BY <2>3, <3>1 DEF IInv, StashSent
  <2>4. QED
    BY <2>1, <2>2, <2>3, <1>2
<1>11. SameBytes'
  <2> SUFFICES ASSUME NEW l \in net', NEW m \in net', l.src = m.src,
                      l.data.len > 0, m.data.len > 0, l.seq = m.seq
               PROVE  l.data = m.data
    BY DEF SameBytes
  <2>1. CASE l \in net /\ m \in net
    BY <2>1 DEF IInv, SameBytes
  <2>2. CASE l \in out \/ m \in out
    BY <2>2, <1>2, <1>7, <1>8
  <2>3. QED
    BY <2>1, <2>2, <1>2
<1>12. QED
  BY <1>2, <1>5, <1>6, <1>9, <1>10, <1>11 DEF IInv

-----------------------------------------------------------------------------
(* Steps that send no new data.                                            *)

LEMMA QuietStep ==
  ASSUME IInv, NEW n \in Node, NEW t, NEW out, NEW m,
         Step(n, t, out) \/ Handle(n, m, t, out),
         Good(sock[n], t), Empty(n, out)
  PROVE  IInv' /\ Forward
<1>1. Changes(n, t, out)
  BY DEF Changes, Step, Handle
<1>2. QED
  BY <1>1, QuietInv

\* What the proof of one action needs to know of the socket it is about.
LEMMA OfInv ==
  ASSUME IInv, NEW n \in Node
  PROVE  sock[n] \in Socket_ /\ SeqOK(sock[n]) /\ sock[n].localSeq \in Nat
  BY Numbers DEF IInv

LEMMA OfSegment ==
  ASSUME IInv, NEW m \in net
  PROVE  /\ m \in Segment /\ m.dst \in Node /\ m.src \in Node /\ m.seq \in Nat
         /\ m.ack \in Nat /\ m.sport \in Nat /\ m.data \in Data
         /\ m.data.first \in Nat /\ m.data.len \in Nat /\ m.words \in Nat
<1>1. m \in Segment
  BY DEF IInv, TypeOK
<1>2. m.data \in Data /\ m.words \in 0 .. 6
  BY <1>1 DEF Segment
<1>3. QED
  BY <1>1, <1>2 DEF Segment, Data

LEMMA RcvdGood ==
  ASSUME IInv, NEW n \in Node
  PROVE  LET s == Rcvd(n)
         IN  /\ s \in Socket_ /\ SeqOK(s) /\ Good(sock[n], s) /\ Keeps(sock[n], s)
             /\ s.state = sock[n].state /\ s.localSeq = sock[n].localSeq
             /\ s.stash = sock[n].stash /\ s.remoteSeq = sock[n].remoteSeq
             /\ s.localSeq \in Nat /\ s.remoteSeq \in Nat /\ s.state \in State
<1> DEFINE s == Rcvd(n)
<1>1. StashSize \in Nat
  BY NumberAssumption
<1>2. sock[n] \in Socket_ /\ SeqOK(sock[n])
  BY OfInv
<1>3. /\ s \in Socket_
      /\ s.state = sock[n].state /\ s.localSeq = sock[n].localSeq
      /\ s.stash = sock[n].stash /\ s.remoteSeq = sock[n].remoteSeq
  BY <1>1, <1>2 DEF Rcvd, Socket_
<1>4. Good(sock[n], s)
  BY <1>2, <1>3, SameGood
<1>5. s.localSeq \in Nat /\ s.remoteSeq \in Nat /\ s.state \in State
  BY <1>3 DEF Socket_
<1>6. QED
  BY <1>3, <1>4, <1>5 DEF Good

LEMMA ForceCloseStep ==
  ASSUME IInv, NEW n \in Node, NEW m, NEW s \in Socket_, SeqOK(s), Keeps(sock[n], s),
         \/ Step(n, ForceClosed(n, s), ForceReset(n, s))
         \/ Handle(n, m, ForceClosed(n, s), ForceReset(n, s))
  PROVE  IInv' /\ Forward
<1>1. Good(sock[n], ForceClosed(n, s))
  BY OfInv, ForceClosedGood, GoodTrans
<1>2. Empty(n, ForceReset(n, s))
  BY EmptyOut
<1>3. QED
  BY <1>1, <1>2, QuietStep

LEMMA CloseStep ==
  ASSUME IInv, NEW n \in Node, Step(n, AfterClose(sock[n]), {Fin(n, sock[n])})
  PROVE  IInv' /\ Forward
  BY OfInv, AfterCloseGood, EmptyOut, QuietStep

LEMMA ForceCloseInv ==
  ASSUME IInv, NEW n \in Node, ForceClose(n)
  PROVE  IInv' /\ Forward
<1>1. sock[n] \in Socket_ /\ SeqOK(sock[n]) /\ Keeps(sock[n], sock[n])
  BY OfInv, SameGood DEF Good
<1>2. QED
  BY <1>1, ForceCloseStep DEF ForceClose

LEMMA CheckTimeoutInv ==
  ASSUME IInv, NEW n \in Node, CheckTimeout(n)
  PROVE  IInv' /\ Forward
<1>1. sock[n] \in Socket_ /\ SeqOK(sock[n]) /\ Keeps(sock[n], sock[n])
  BY OfInv, SameGood DEF Good
<1>2. QED
  BY <1>1, ForceCloseStep, CloseStep DEF CheckTimeout

LEMMA CheckGiveUpInv ==
  ASSUME IInv, NEW n \in Node, CheckGiveUp(n)
  PROVE  IInv' /\ Forward
<1> DEFINE v == sock[n].attempts + 1
           s == [sock[n] EXCEPT !.attempts = v]
<1>1. v \in Nat
  BY OfInv DEF Socket_
<1> HIDE DEF v
<1>2. /\ s \in Socket_ /\ s.state = sock[n].state
      /\ s.localSeq = sock[n].localSeq /\ s.stash = sock[n].stash
  BY <1>1, OfInv DEF Socket_
<1>3. SeqOK(s) /\ Keeps(sock[n], s)
  BY <1>2, OfInv, SameGood DEF Good
<1>4. Step(n, ForceClosed(n, s), ForceReset(n, s))
  BY DEF CheckGiveUp, v
<1> HIDE DEF s
<1>5. QED
  BY <1>2, <1>3, <1>4, ForceCloseStep

LEMMA CheckTimeWaitInv ==
  ASSUME IInv, NEW n \in Node, CheckTimeWait(n)
  PROVE  IInv' /\ Forward
  BY OfInv, ClosedGood, EmptyOut, QuietStep DEF CheckTimeWait

LEMMA NetworkInv ==
  ASSUME IInv, NEW m \in net, Discard(m.dst, m) \/ Lose(m)
  PROVE  IInv' /\ Forward
<1>1. m.dst \in Node
  BY OfSegment
<1>2. Changes(m.dst, sock[m.dst], {})
  BY <1>1 DEF Changes, Discard, Lose, IInv, TypeOK
<1>3. Good(sock[m.dst], sock[m.dst])
  BY <1>1, OfInv, SameGood
<1>4. QED
  BY <1>1, <1>2, <1>3, OfInv, EmptyOut, QuietInv

LEMMA CloseInv ==
  ASSUME IInv, NEW n \in Node, Close(n)
  PROVE  IInv' /\ Forward
  BY CloseStep DEF Close

\* Time changes the age of the states and nothing else.
LEMMA ElapseInv ==
  ASSUME IInv, Elapse
  PROVE  IInv' /\ Forward
<1> DEFINE a(n) == IF Active(n) /\ sock[n].age < MaxAge THEN sock[n].age + 1 ELSE sock[n].age
<1>1. \A n \in Node : sock[n] \in Socket_ /\ a(n) \in Nat
  BY OfInv DEF Socket_
<1>2. sock' = [n \in Node |-> [sock[n] EXCEPT !.age = a(n)]] /\ net' = net
  BY DEF Elapse
<1> HIDE DEF a
<1>3. ASSUME NEW n \in Node
      PROVE  /\ sock'[n] \in Socket_
             /\ sock'[n].state = sock[n].state /\ sock'[n].localSeq = sock[n].localSeq
             /\ sock'[n].stash = sock[n].stash
  BY <1>1, <1>2, ZenonT(60) DEF Socket_
<1>4. TypeOK'
  BY <1>2, <1>3 DEF IInv, TypeOK
<1>5. Forward
  BY <1>3, OfInv DEF Forward
<1>6. (\A n \in Node : SeqOK(sock[n]))'
  BY <1>3 DEF IInv, SeqOK
<1>7. \A m \in net : m.src \in Node
  BY OfSegment
<1>8. DataSent' /\ StashSent' /\ SameBytes'
  BY <1>2, <1>3, <1>7 DEF IInv, DataSent, StashSent, SameBytes
<1>9. QED
  BY <1>4, <1>5, <1>6, <1>8 DEF IInv

-----------------------------------------------------------------------------
(* connect() and the lookup of the name.                                   *)

LEMMA ResolveStateGood ==
  ASSUME IInv, NEW n \in Node, NEW st \in {RESOLVING, UNKNOWN_HOST}
  PROVE  LET t == setState(sock[n], st)
         IN  /\ Good(sock[n], t) /\ t \in Socket_
             /\ t.state = st /\ t.localSeq = sock[n].localSeq /\ t.stash = sock[n].stash
<1>1. st \in State /\ st # 244 /\ st \notin Handshaking
  BY StateByte, StateValues DEF States, Handshaking
<1>2. QED
  BY <1>1, OfInv, SetStateGood

LEMMA ResolveErrorInv ==
  ASSUME IInv, NEW n \in Node, ResolveError(n)
  PROVE  IInv' /\ Forward
  BY ResolveStateGood, OfInv, EmptyOut, QuietStep DEF ResolveError

\* A SYN may be sent from any socket that has the sequence numbers of this one.
LEMMA SendSynInv ==
  ASSUME IInv, NEW n \in Node, NEW s \in Socket_, SeqOK(s), Keeps(sock[n], s),
         SendSyn(n, s)
  PROVE  IInv' /\ Forward
<1> DEFINE v == s.nextPort + 1
           t == [s EXCEPT !.localPort = s.nextPort, !.nextPort = v,
                          !.start = s.sent, !.got = <<>>, !.opened = FALSE]
           f == SentSyn(t)
           one == 1
           g == [f EXCEPT !.attempts = one]
           u == setState(g, SYN_SENT)
<1>1. v \in Nat /\ s.nextPort \in Nat /\ s.sent \in Nat /\ <<>> \in Seq(Nat)
      /\ one \in Nat /\ s.localSeq \in Nat
  BY DEF Socket_
<1>2. Step(n, u, {Seg(n, t, {"SYN"}, NoData)})
  BY DEF SendSyn
<1> HIDE DEF v, one
<1>3. t \in Socket_ /\ t.state = s.state /\ t.localSeq = s.localSeq /\ t.stash = s.stash
  BY <1>1 DEF Socket_
<1>4. Good(s, t)
  BY <1>3, SameGood
<1> HIDE DEF t
<1>5. f \in Socket_ /\ f.localSeq = s.localSeq + 1
  BY <1>3, SentFields
<1> HIDE DEF f
<1>6. g \in Socket_ /\ g.localSeq = s.localSeq + 1
  BY <1>1, <1>5 DEF Socket_
<1> HIDE DEF g
<1>7. SYN_SENT \in State /\ SYN_SENT # 244 /\ ~IsAwaiting(SYN_SENT)
  BY StateByte, StateValues DEF States
<1>8. Good(g, u) /\ u \in Socket_ /\ u.state = SYN_SENT /\ u.localSeq = s.localSeq + 1
  BY <1>1, <1>6, <1>7, SetStateGood
<1> HIDE DEF u
<1>9. Good(s, u)
  BY <1>1, <1>7, <1>8 DEF Good, Keeps
<1>10. Good(sock[n], u)
  BY <1>9, OfInv, GoodTrans
<1>11. Empty(n, {Seg(n, t, {"SYN"}, NoData)})
  BY <1>3, EmptyOut DEF Control
<1>12. QED
  BY <1>2, <1>10, <1>11, QuietStep

LEMMA FoundGood ==
  ASSUME IInv, NEW n \in Node, n \in Named
  PROVE  LET s == Found(n)
             t == [Found(n) EXCEPT !.connectOnResolution = FALSE]
         IN  /\ s \in Socket_ /\ SeqOK(s) /\ Keeps(sock[n], s) /\ Good(sock[n], s)
             /\ t \in Socket_ /\ SeqOK(t) /\ Keeps(sock[n], t)
<1> DEFINE s == Found(n)
           t == [s EXCEPT !.connectOnResolution = FALSE]
<1>1. Server[n] \in Node
  BY NodeAssumption, ConfigAssumption
<1>2. sock[n] \in Socket_ /\ SeqOK(sock[n])
  BY OfInv
<1>3. /\ s \in Socket_ /\ s.state = sock[n].state
      /\ s.localSeq = sock[n].localSeq /\ s.stash = sock[n].stash
  BY <1>1, <1>2 DEF Found, Socket_
<1> HIDE DEF s
<1>4. /\ t \in Socket_ /\ t.state = s.state
      /\ t.localSeq = s.localSeq /\ t.stash = s.stash
  BY <1>3 DEF Socket_
<1> HIDE DEF t
<1>5. Good(sock[n], s) /\ Good(sock[n], t)
  BY <1>2, <1>3, <1>4, SameGood
<1>6. QED
  BY <1>3, <1>4, <1>5 DEF Good, s, t

LEMMA ResolveFoundInv ==
  ASSUME IInv, NEW n \in Node, ResolveFound(n)
  PROVE  IInv' /\ Forward
  BY FoundGood, SendSynInv DEF ResolveFound, CanResolve

LEMMA ConnectInv ==
  ASSUME IInv, NEW n \in Node, Connect(n)
  PROVE  IInv' /\ Forward
<1>1. sock[n] \in Socket_ /\ SeqOK(sock[n]) /\ Keeps(sock[n], sock[n])
  BY OfInv, SameGood DEF Good
<1>2. QED
  BY <1>1, SendSynInv DEF Connect

LEMMA ResolvingGood ==
  ASSUME IInv, NEW n \in Node
  PROVE  LET t == setState(sock[n], RESOLVING)
             u == [setState(sock[n], RESOLVING) EXCEPT !.connectOnResolution = TRUE]
         IN  Good(sock[n], t) /\ Good(sock[n], u)
<1> DEFINE t == setState(sock[n], RESOLVING)
           u == [t EXCEPT !.connectOnResolution = TRUE]
<1>1. Good(sock[n], t) /\ t \in Socket_
  BY ResolveStateGood
<1> HIDE DEF t
<1>2. u \in Socket_ /\ u.state = t.state /\ u.localSeq = t.localSeq /\ u.stash = t.stash
  BY <1>1 DEF Socket_
<1> HIDE DEF u
<1>3. Good(t, u)
  BY <1>1, <1>2, SameGood DEF Good
<1>4. Good(sock[n], u)
  BY <1>1, <1>3, OfInv, GoodTrans DEF Good
<1>5. QED
  BY <1>1, <1>4 DEF t, u

LEMMA ConnectByNameInv ==
  ASSUME IInv, NEW n \in Node, ConnectByName(n)
  PROVE  IInv' /\ Forward
<1>1. CASE ResolveError(n)
  BY <1>1, ResolveErrorInv
<1>2. CASE ResolveFound(n)
  BY <1>2, ResolveFoundInv
<1>3. CASE Step(n, [setState(sock[n], RESOLVING) EXCEPT !.connectOnResolution = TRUE], {})
  BY <1>3, ResolvingGood, OfInv, EmptyOut, QuietStep
<1>4. CASE CanResolve(n) /\ SendSyn(n, Found(n))
  BY <1>4, FoundGood, SendSynInv DEF CanResolve
<1>5. CASE CanResolve(n) /\ Step(n, Found(n), {})
  BY <1>5, FoundGood, OfInv, EmptyOut, QuietStep DEF CanResolve
<1>6. QED
  BY <1>1, <1>2, <1>3, <1>4, <1>5 DEF ConnectByName

LEMMA CheckResolvingInv ==
  ASSUME IInv, NEW n \in Node, CheckResolving(n)
  PROVE  IInv' /\ Forward
<1>1. CASE ResolveError(n)
  BY <1>1, ResolveErrorInv
<1>2. CASE ResolveFound(n)
  BY <1>2, ResolveFoundInv
<1>3. CASE Step(n, setState(sock[n], RESOLVING), {})
  BY <1>3, ResolvingGood, OfInv, EmptyOut, QuietStep
<1>4. QED
  BY <1>1, <1>2, <1>3 DEF CheckResolving

-----------------------------------------------------------------------------
(* send() and the retransmissions.                                         *)

LEMMA SentDataFields ==
  ASSUME NEW s \in Socket_, Low(s.state) = ESTABLISHED, NEW d \in Data
  PROVE  LET t == SentData(s, d)
         IN  /\ t \in Socket_ /\ t.state = 244 /\ t.stash = d
             /\ t.localSeq = s.localSeq + d.len
<1> DEFINE v    == s.localSeq + d.len
           five == 5
           st   == Awaiting(s.state)
<1>1. v \in Nat /\ five \in 0 .. 6
  BY SMTT(30) DEF Socket_, Data
<1>2. st = 244 /\ st \in State
  BY StateByte, StateValues DEF States, Socket_, Awaiting
<1>3. SentData(s, d) = [s EXCEPT !.words = five, !.localSeq = v, !.state = st, !.stash = d]
  BY DEF SentData
<1> HIDE DEF v, five, st
<1> DEFINE u == [s EXCEPT !.words = five, !.localSeq = v]
           t == [u EXCEPT !.state = st, !.stash = d]
<1>4. u \in Socket_ /\ u.localSeq = v
  <2>1. s \in Socket_ /\ v \in Nat /\ five \in 0 .. 6
    BY <1>1
  <2>2. QED
    BY <2>1 DEF Socket_
<1>5. SentData(s, d) = t
  BY <1>3
<1> HIDE DEF u
<1>6. t \in Socket_ /\ t.state = st /\ t.stash = d /\ t.localSeq = v
  <2>1. st \in State /\ d \in Data
    BY <1>2
  <2>2. QED
    BY <2>1, <1>4 DEF Socket_
<1>7. QED
  BY <1>2, <1>5, <1>6 DEF v

\* A socket that sends data can take its length back as often as it likes.
LEMMA AfterSendFields ==
  ASSUME NEW s \in Socket_, Low(s.state) = ESTABLISHED,
         NEW len \in Nat \ {0}, NEW d \in Data, d.len = len
  PROVE  LET t == AfterSend(s, d)
         IN  /\ t \in Socket_ /\ t.state = 244 /\ t.stash = d
             /\ t.localSeq = s.localSeq + len /\ SeqOK(t)
<1> DEFINE r   == SentData(s, d)
           one == 1
           nil == 0
           v   == r.sent + d.len
           t   == [r EXCEPT !.attempts = one, !.age = nil, !.sent = v]
<1>1. r \in Socket_ /\ r.state = 244 /\ r.stash = d /\ r.localSeq = s.localSeq + d.len
  BY SentDataFields
<1> HIDE DEF r
<1>2. v \in Nat /\ one \in Nat /\ nil \in Nat /\ s.localSeq \in Nat
  <2>1. r.sent \in Nat /\ s.localSeq \in Nat
    BY <1>1 DEF Socket_
  <2>2. QED
    BY <2>1
<1>3. AfterSend(s, d) = t
  BY DEF AfterSend, r
<1> HIDE DEF one, nil, v
<1>4. t \in Socket_ /\ t.state = r.state /\ t.stash = r.stash /\ t.localSeq = r.localSeq
  BY <1>1, <1>2 DEF Socket_
<1> HIDE DEF t
<1>5. SeqOK(t)
  BY <1>1, <1>2, <1>4, StateValues DEF SeqOK
<1>6. QED
  BY <1>1, <1>3, <1>4, <1>5

LEMMA DataSegment ==
  ASSUME NEW n \in Node, NEW s \in Socket_, NEW d \in Data
  PROVE  LET m == Seg(n, s, {"ACK"}, d)
         IN  m \in Outgoing /\ m.src = n /\ m.seq = s.localSeq /\ m.data = d
  BY SegType DEF Control

\* send() puts data where no data was before.
LEMMA AfterSendFresh ==
  ASSUME NEW n \in Node, NEW s \in Socket_, readyToSend(s),
         NEW len \in Nat \ {0}
  PROVE  LET d == [first |-> s.sent + 1, len |-> len]
         IN  Fresh(n, s, AfterSend(s, d), {Seg(n, s, {"ACK"}, d)})
<1> DEFINE d == [first |-> s.sent + 1, len |-> len]
           t == AfterSend(s, d)
           m == Seg(n, s, {"ACK"}, d)
<1>1. d \in Data /\ d.len = len
  <2>1. s.sent + 1 \in Nat
    BY DEF Socket_
  <2>2. QED
    BY <2>1 DEF Data
<1> HIDE DEF d
<1>2. /\ t \in Socket_ /\ t.stash = d /\ t.localSeq = s.localSeq + len /\ SeqOK(t)
  BY <1>1, AfterSendFields DEF readyToSend
<1>3. m \in Outgoing /\ m.src = n /\ m.seq = s.localSeq /\ m.data = d
  BY <1>1, DataSegment
<1>4. t.localSeq \in Nat /\ s.localSeq \in Nat
  BY <1>2 DEF Socket_
<1> HIDE DEF t, m
<1>5. Fresh(n, s, t, {m})
  BY <1>1, <1>2, <1>3, <1>4 DEF Fresh
<1>6. QED
  BY <1>5 DEF t, m, d

LEMMA SendInv ==
  ASSUME IInv, NEW n \in Node, NEW len \in 1 .. StashSize, Send(n, len)
  PROVE  IInv' /\ Forward
<1> DEFINE s == sock[n]
           d == [first |-> s.sent + 1, len |-> len]
<1>1. readyToSend(s) /\ Step(n, AfterSend(s, d), {Seg(n, s, {"ACK"}, d)})
  BY DEF Send
<1>2. len \in Nat \ {0}
  BY NumberAssumption
<1>3. Fresh(n, s, AfterSend(s, d), {Seg(n, s, {"ACK"}, d)})
  BY <1>1, <1>2, OfInv, AfterSendFresh
<1>4. Changes(n, AfterSend(s, d), {Seg(n, s, {"ACK"}, d)})
  BY <1>1 DEF Changes, Step
<1> HIDE DEF d
<1>5. QED
  BY <1>3, <1>4, FreshInv

\* checkState() takes off localSeq what sendSegment() puts back.
LEMMA CheckRetryInv ==
  ASSUME IInv, NEW n \in Node, CheckRetry(n)
  PROVE  IInv' /\ Forward
<1> DEFINE s == sock[n]
           a == s.attempts + 1
           v == s.localSeq - (IF IsAwaiting(s.state) THEN s.stash.len ELSE 1)
           t == [s EXCEPT !.attempts = a, !.localSeq = v]
<1>1. /\ s \in Socket_ /\ SeqOK(s) /\ s.localSeq \in Nat /\ s.state \in State
      /\ a \in Nat /\ s.stash \in Data /\ s.stash.len \in Nat
  BY OfInv, Numbers, SMTT(30) DEF Socket_, IInv
<1>2. \/ /\ s.state = SYN_SENT
         /\ Step(n, SentSyn(t), {Seg(n, t, {"SYN"}, NoData)})
      \/ /\ s.state = SYN_RECEIVED
         /\ Step(n, SentSyn(t), {Seg(n, t, {"SYN", "ACK"}, NoData)})
      \/ /\ s.state \in {FIN_WAIT_1, CLOSING}
         /\ Step(n, SentFin(t), {Fin(n, t)})
      \/ /\ IsAwaiting(s.state)
         /\ Step(n, SentData(t, s.stash), {Seg(n, t, {"ACK"}, s.stash)})
  BY DEF CheckRetry
<1> HIDE DEF a
<1>3. ASSUME v \in Nat
      PROVE  t \in Socket_ /\ t.state = s.state /\ t.localSeq = v /\ t.stash = s.stash
  <2> HIDE DEF v
  <2>1. QED
    BY <1>1, <1>3 DEF Socket_
<1>4. CASE s.state \in Handshaking
  <2>1. ~IsAwaiting(s.state)
    BY <1>1, <1>4, StateByte, StateValues DEF Handshaking
  <2>2. v = s.localSeq - 1 /\ v \in Nat
    BY <1>1, <1>4, <2>1 DEF SeqOK, Handshaking
  <2>3. t \in Socket_ /\ t.state = s.state /\ t.localSeq = s.localSeq - 1 /\ t.stash = s.stash
    BY <1>3, <2>2
  <2> HIDE DEF t
  <2>4. /\ SentSyn(t) \in Socket_ /\ SentSyn(t).state = s.state
        /\ SentSyn(t).localSeq = t.localSeq + 1 /\ SentSyn(t).stash = s.stash
        /\ SentFin(t) \in Socket_ /\ SentFin(t).state = s.state
        /\ SentFin(t).localSeq = t.localSeq + 1 /\ SentFin(t).stash = s.stash
    BY <2>3, SentFields
  <2>5. t.localSeq + 1 = s.localSeq
    BY <1>1, <2>3
  <2>6. Good(s, SentSyn(t))
    BY <1>1, <2>4, <2>5, SameGood
  <2>7. Good(s, SentFin(t))
    BY <1>1, <2>4, <2>5, SameGood
  <2>8. /\ Empty(n, {Seg(n, t, {"SYN"}, NoData)})
        /\ Empty(n, {Seg(n, t, {"SYN", "ACK"}, NoData)}) /\ Empty(n, {Fin(n, t)})
    BY <2>3, EmptyOut DEF Control
  <2>9. QED
    BY <1>2, <2>1, <2>6, <2>7, <2>8, QuietStep
<1>5. CASE s.state \notin Handshaking
  <2>1. IsAwaiting(s.state) /\ Step(n, SentData(t, s.stash), {Seg(n, t, {"ACK"}, s.stash)})
    BY <1>2, <1>5 DEF Handshaking
  <2>2. s.stash.len \in 1 .. s.localSeq /\ v = s.localSeq - s.stash.len /\ v \in Nat
    BY <1>1, <2>1 DEF SeqOK
  <2>3. /\ t \in Socket_ /\ t.state = s.state /\ t.stash = s.stash
        /\ t.localSeq = s.localSeq - s.stash.len
    BY <1>3, <2>2
  <2>4. s.state = 244 /\ Low(s.state) = ESTABLISHED
    BY <1>1, <2>1, StateByte, StateValues
  <2> HIDE DEF t
  <2> DEFINE u == SentData(t, s.stash)
             m == Seg(n, t, {"ACK"}, s.stash)
  <2>5. u \in Socket_ /\ u.state = 244 /\ u.stash = s.stash /\ u.localSeq = s.localSeq
    BY <1>1, <2>2, <2>3, <2>4, SentDataFields
  <2>6. m \in Outgoing /\ m.src = n /\ m.seq = s.localSeq - s.stash.len /\ m.data = s.stash
    BY <1>1, <2>3, DataSegment
  <2>7. Changes(n, u, {m})
    BY <2>1 DEF Changes, Step
  <2> HIDE DEF u, m
  <2>8. SeqOK(u)
    BY <1>1, <2>4, <2>5 DEF SeqOK
  <2>9. Resent(n, s, u, {m})
    BY <2>1, <2>5, <2>6, <2>8 DEF Resent
  <2>10. QED
    BY <2>7, <2>9, ResentInv
<1>6. QED
  BY <1>4, <1>5

LEMMA CheckStateInv ==
  ASSUME IInv, NEW n \in Node, checkState(n)
  PROVE  IInv' /\ Forward
  BY CheckTimeoutInv, CheckResolvingInv, CheckRetryInv, CheckGiveUpInv,
     CheckTimeWaitInv DEF checkState

LEMMA ApplicationInv ==
  ASSUME IInv, NEW n \in Node, Application(n)
  PROVE  IInv' /\ Forward
  BY ConnectInv, ConnectByNameInv, SendInv, CloseInv, ForceCloseInv DEF Application

-----------------------------------------------------------------------------
(* handleSegment().                                                        *)

LEMMA RecvBadInv ==
  ASSUME IInv, NEW m \in net, RecvBad(m.dst, m)
  PROVE  IInv' /\ Forward
<1> DEFINE n == m.dst
           s == Rcvd(n)
           size == m.seq + Size(m)
           out == {IF HasAck(m) THEN Reset(n, s, m.ack, 0) ELSE Reset(n, s, 0, size)}
<1>1. n \in Node /\ m.ack \in Nat /\ size \in Nat /\ 0 \in Nat
  BY OfSegment DEF Size
<1>2. s \in Socket_ /\ SeqOK(s) /\ Keeps(sock[n], s)
  BY <1>1, RcvdGood
<1>3. Handle(n, m, SentPlain(s), out)
  BY DEF RecvBad
<1> HIDE DEF n, s, size
<1>4. Empty(n, out)
  BY <1>1, <1>2, EmptyOut
<1>5. Good(sock[n], SentPlain(s))
  BY <1>1, <1>2, OfInv, SentPlainGood, GoodTrans
<1>6. QED
  BY <1>1, <1>3, <1>4, <1>5, QuietStep

\* An answer that only repeats what the socket knows.
LEMMA AnswerInv ==
  ASSUME IInv, NEW n \in Node, NEW m, Handle(n, m, SentPlain(Rcvd(n)), {Ack(n, Rcvd(n))})
  PROVE  IInv' /\ Forward
<1> DEFINE s == Rcvd(n)
<1>1. s \in Socket_ /\ SeqOK(s) /\ Keeps(sock[n], s)
  BY RcvdGood
<1>2. Handle(n, m, SentPlain(s), {Ack(n, s)})
  OBVIOUS
<1> HIDE DEF s
<1>3. Good(sock[n], SentPlain(s))
  BY <1>1, OfInv, SentPlainGood, GoodTrans
<1>4. QED
  BY <1>1, <1>2, <1>3, EmptyOut, QuietStep

LEMMA RecvRstInv ==
  ASSUME IInv, NEW m \in net, RecvRst(m.dst, m)
  PROVE  IInv' /\ Forward
<1> DEFINE n == m.dst
           s == Rcvd(n)
<1>1. n \in Node
  BY OfSegment
<1>2. s \in Socket_ /\ SeqOK(s) /\ Keeps(sock[n], s) /\ Good(sock[n], s)
  BY <1>1, RcvdGood
<1>3. Handle(n, m, closed(n, s), {}) \/ Handle(n, m, s, {})
  BY DEF RecvRst
<1> HIDE DEF n, s
<1>4. Good(sock[n], closed(n, s))
  BY <1>1, <1>2, OfInv, ClosedGood, GoodTrans
<1>5. QED
  BY <1>1, <1>2, <1>3, <1>4, EmptyOut, QuietStep

LEMMA RecvSynListenInv ==
  ASSUME IInv, NEW m \in net, RecvSynListen(m.dst, m)
  PROVE  IInv' /\ Forward
<1> DEFINE n == m.dst
           r == Rcvd(n)
           v == m.seq + 1
           s == [r EXCEPT !.remoteIP = m.src, !.remotePort = m.sport, !.remoteSeq = v,
                          !.start = sock[n].sent, !.got = <<>>, !.opened = FALSE]
           f == SentSyn(s)
           u == setState(f, SYN_RECEIVED)
           one == 1
           w == [u EXCEPT !.attempts = one]
<1>1. /\ n \in Node /\ m.src \in Node /\ m.sport \in Nat /\ v \in Nat
      /\ <<>> \in Seq(Nat) /\ one \in Nat
  BY OfSegment
<1>2. r \in Socket_ /\ SeqOK(r) /\ Keeps(sock[n], r) /\ r.localSeq \in Nat
  BY <1>1, RcvdGood
<1>3. sock[n].sent \in Nat
  BY <1>1, OfInv DEF Socket_
<1>4. Handle(n, m, w, {Seg(n, s, {"SYN", "ACK"}, NoData)})
  BY DEF RecvSynListen
<1> HIDE DEF n, r, v, one
<1>5. s \in Socket_ /\ s.state = r.state /\ s.localSeq = r.localSeq /\ s.stash = r.stash
  BY <1>1, <1>2, <1>3 DEF Socket_
<1> HIDE DEF s
<1>6. f \in Socket_ /\ f.localSeq = r.localSeq + 1
  BY <1>5, SentFields
<1> HIDE DEF f
<1>7. SYN_RECEIVED \in State /\ SYN_RECEIVED # 244
  BY StateByte, StateValues DEF States
<1>8. /\ Good(f, u) /\ u \in Socket_ /\ u.localSeq = r.localSeq + 1
      /\ u.state = SYN_RECEIVED
  BY <1>2, <1>6, <1>7, SetStateGood
<1> HIDE DEF u
<1>9. w \in Socket_ /\ w.state = u.state /\ w.localSeq = u.localSeq /\ w.stash = u.stash
  BY <1>1, <1>8 DEF Socket_
<1> HIDE DEF w
<1>10. Good(r, w)
  <2>1. SeqOK(u) /\ ~IsAwaiting(u.state)
    BY <1>7, <1>8, StateByte DEF Good
  <2>2. w.localSeq >= r.localSeq
    BY <1>2, <1>8, <1>9
  <2>3. QED
    BY <2>1, <2>2, <1>9 DEF Good, Keeps, SeqOK
<1>11. Good(sock[n], w)
  BY <1>1, <1>2, <1>10, OfInv, GoodTrans
<1>12. Empty(n, {Seg(n, s, {"SYN", "ACK"}, NoData)})
  BY <1>1, <1>5, EmptyOut DEF Control
<1>13. QED
  BY <1>1, <1>4, <1>11, <1>12, QuietStep

\* The two ways out of SYN_SENT.  In SYN_SENT the socket has sent a SYN.
LEMMA RecvSynSentInv ==
  ASSUME IInv, NEW m \in net, RecvSynSent(m.dst, m)
  PROVE  IInv' /\ Forward
<1> DEFINE n == m.dst
           r == Rcvd(n)
           v == m.seq + 1
           s == [r EXCEPT !.remoteSeq = v]
           f == SentPlain(s)
           u == setState(f, SYN_RECEIVED)
<1>1. n \in Node /\ v \in Nat
  BY OfSegment
<1>2. r \in Socket_ /\ SeqOK(r) /\ Keeps(sock[n], r) /\ r.localSeq \in Nat
  BY <1>1, RcvdGood
<1>3. Handle(n, m, u, {Ack(n, s)}) /\ s.state = SYN_SENT
  BY DEF RecvSynSent
<1> HIDE DEF n, r, v
<1>4. s \in Socket_ /\ s.state = r.state /\ s.localSeq = r.localSeq /\ s.stash = r.stash
  BY <1>1, <1>2 DEF Socket_
<1> HIDE DEF s
<1>5. Good(r, f) /\ f \in Socket_ /\ f.localSeq = r.localSeq
  BY <1>2, <1>4, SentFields, SameGood
<1> HIDE DEF f
<1>6. SYN_RECEIVED \in State /\ SYN_RECEIVED # 244
  BY StateByte, StateValues DEF States
<1>7. r.localSeq >= 1
  BY <1>2, <1>3, <1>4 DEF SeqOK
<1>8. Good(f, u)
  BY <1>5, <1>6, <1>7, SetStateGood
<1> HIDE DEF u
<1>9. Good(sock[n], u)
  BY <1>1, <1>2, <1>5, <1>8, OfInv, GoodTrans DEF Good
<1>10. QED
  BY <1>1, <1>3, <1>4, <1>9, EmptyOut, QuietStep

LEMMA RecvSynAckInv ==
  ASSUME IInv, NEW m \in net, RecvSynAck(m.dst, m)
  PROVE  IInv' /\ Forward
<1> DEFINE n == m.dst
           r == Rcvd(n)
           v == m.seq + 1
           s == [r EXCEPT !.remoteSeq = v, !.opened = TRUE]
           f == SentPlain(s)
           u == setState(f, ESTABLISHED)
<1>1. n \in Node /\ v \in Nat
  BY OfSegment
<1>2. r \in Socket_ /\ SeqOK(r) /\ Keeps(sock[n], r)
  BY <1>1, RcvdGood
<1>3. Handle(n, m, u, {Ack(n, s)})
  BY DEF RecvSynAck
<1> HIDE DEF n, r, v
<1>4. s \in Socket_ /\ s.state = r.state /\ s.localSeq = r.localSeq /\ s.stash = r.stash
  BY <1>1, <1>2 DEF Socket_
<1> HIDE DEF s
<1>5. Good(r, f) /\ f \in Socket_
  BY <1>2, <1>4, SentFields, SameGood
<1> HIDE DEF f
<1>6. ESTABLISHED \in State /\ ESTABLISHED # 244 /\ ESTABLISHED \notin Handshaking
  BY StateByte, StateValues DEF States, Handshaking
<1>7. Good(f, u)
  BY <1>5, <1>6, SetStateGood
<1> HIDE DEF u
<1>8. Good(sock[n], u)
  BY <1>1, <1>2, <1>5, <1>7, OfInv, GoodTrans DEF Good
<1>9. QED
  BY <1>1, <1>3, <1>4, <1>8, EmptyOut, QuietStep

-----------------------------------------------------------------------------
(* The established block and what follows it.                              *)

LEMMA AfterFinGood ==
  ASSUME NEW s \in Socket_, SeqOK(s), s.state # UNKNOWN_HOST, NEW m
  PROVE  Good(s, AfterFin(s, m)) /\ AfterFin(s, m).state # UNKNOWN_HOST
<1>1. /\ TIME_WAIT \in State /\ TIME_WAIT # 244 /\ TIME_WAIT \notin Handshaking
      /\ CLOSING \in State /\ CLOSING # 244
      /\ CLOSE_WAIT \in State /\ CLOSE_WAIT # 244 /\ CLOSE_WAIT \notin Handshaking
      /\ UNKNOWN_HOST \notin {TIME_WAIT, CLOSING, CLOSE_WAIT}
  BY StateByte, StateValues DEF States, Handshaking
<1>2. CASE s.state = FIN_WAIT_1
  <2>1. s.localSeq >= 1
    BY <1>2 DEF SeqOK
  <2>2. QED
    BY <1>1, <1>2, <2>1, SetStateGood DEF AfterFin
<1>3. CASE s.state # FIN_WAIT_1 /\ Low(s.state) = ESTABLISHED
  BY <1>1, <1>3, SetStateGood DEF AfterFin
<1>4. CASE s.state # FIN_WAIT_1 /\ Low(s.state) # ESTABLISHED
  BY <1>4, SameGood DEF AfterFin
<1>5. QED
  BY <1>2, <1>3, <1>4

\* Clearing the flag of a state that is a state leads to a state.
LEMMA ClearAckGood ==
  ASSUME NEW s, NEW m, NEW t \in Socket_, SeqOK(t), t.state # UNKNOWN_HOST
  PROVE  Good(t, ClearAck(s, m, t))
<1> DEFINE st == Low(t.state)
           u  == [t EXCEPT !.state = st]
<1>1. t.state \in 1 .. 11 \cup {20, 244}
  BY StateByte, StateValues DEF Socket_, States
<1>2. st = t.state \/ (st = 4 /\ t.state \in {20, 244})
  <2>1. Low(20) = 4
    BY StateByte, StateValues DEF States
  <2>2. QED
    BY <1>1, <2>1, StateByte
<1>3. st \in State /\ st # 244
  BY <1>1, <1>2, StateByte, StateValues DEF States
<1>4. ~IsAwaiting(st) /\ t.localSeq \in Nat
  BY <1>3, StateByte DEF Socket_
<1>5. st \in Handshaking => st = t.state
  BY <1>2, StateValues DEF Handshaking
<1> HIDE DEF st
<1>6. u \in Socket_ /\ u.state = st /\ u.localSeq = t.localSeq
  BY <1>3 DEF Socket_
<1> HIDE DEF u
<1>7. Good(t, u)
  BY <1>4, <1>5, <1>6 DEF Good, Keeps, SeqOK, Handshaking
<1>8. ClearAck(s, m, t) = t \/ ClearAck(s, m, t) = u
  BY DEF ClearAck, u, st
<1>9. QED
  BY <1>7, <1>8, SameGood

\* What holds of a socket in the established block.
LEMMA InBlock ==
  ASSUME IInv, NEW n \in Node, NEW m, InEstablished(n, m)
  PROVE  Rcvd(n).state # UNKNOWN_HOST /\ Low(Rcvd(n).state) = ESTABLISHED
<1>1. sock[n].state \in State /\ Low(sock[n].state) = ESTABLISHED
  BY OfInv DEF Socket_, InEstablished
<1>2. sock[n].state # UNKNOWN_HOST
  BY <1>1, StateByte, StateValues
<1>3. QED
  BY <1>1, <1>2, RcvdGood

LEMMA RecvNoAckInv ==
  ASSUME IInv, NEW m \in net, RecvNoAck(m.dst, m)
  PROVE  IInv' /\ Forward
  BY OfSegment, RcvdGood, EmptyOut, QuietStep, OfInv DEF RecvNoAck

LEMMA RecvAckInv ==
  ASSUME IInv, NEW m \in net, RecvAck(m.dst, m)
  PROVE  IInv' /\ Forward
<1> DEFINE n == m.dst
           s == Rcvd(n)
<1>1. n \in Node
  BY OfSegment
<1>2. s \in Socket_ /\ SeqOK(s) /\ Keeps(sock[n], s)
  BY <1>1, RcvdGood
<1>3. s.state # UNKNOWN_HOST
  BY <1>1, InBlock DEF RecvAck, InOrder
<1>4. Handle(n, m, ClearAck(s, m, s), {})
  BY DEF RecvAck
<1> HIDE DEF n, s
<1>5. Good(sock[n], ClearAck(s, m, s))
  BY <1>1, <1>2, <1>3, ClearAckGood, GoodTrans, OfInv
<1>6. QED
  BY <1>1, <1>2, <1>4, <1>5, EmptyOut, QuietStep

LEMMA RecvFinInv ==
  ASSUME IInv, NEW m \in net, RecvFin(m.dst, m)
  PROVE  IInv' /\ Forward
<1> DEFINE n == m.dst
           s == Rcvd(n)
           v == s.remoteSeq + 1
           t == [s EXCEPT !.remoteSeq = v]
           p == SentPlain(t)
           f == AfterFin(p, m)
           w == ClearAck(s, m, f)
<1>1. n \in Node
  BY OfSegment
<1>2. s \in Socket_ /\ SeqOK(s) /\ Keeps(sock[n], s) /\ s.remoteSeq \in Nat
  BY <1>1, RcvdGood
<1>3. s.state # UNKNOWN_HOST
  BY <1>1, InBlock DEF RecvFin, InOrder
<1>4. Handle(n, m, w, {Ack(n, t)})
  BY DEF RecvFin
<1>5. v \in Nat
  BY <1>2
<1> HIDE DEF n, s, v
<1>6. t \in Socket_ /\ t.state = s.state /\ t.localSeq = s.localSeq /\ t.stash = s.stash
  BY <1>2, <1>5 DEF Socket_
<1> HIDE DEF t
<1>7. Good(s, p) /\ p \in Socket_ /\ p.state # UNKNOWN_HOST
  BY <1>2, <1>3, <1>6, SentFields, SameGood
<1> HIDE DEF p
<1>8. Good(p, f) /\ f.state # UNKNOWN_HOST
  BY <1>7, AfterFinGood DEF Good
<1> HIDE DEF f
<1>9. Good(f, w)
  BY <1>8, ClearAckGood DEF Good, Keeps
<1> HIDE DEF w
<1>10. Good(p, w)
  BY <1>7, <1>8, <1>9, GoodTrans DEF Good
<1>11. Good(s, w)
  BY <1>2, <1>7, <1>10, GoodTrans DEF Good
<1>12. Good(sock[n], w)
  BY <1>1, <1>2, <1>11, OfInv, GoodTrans
<1>13. QED
  BY <1>1, <1>4, <1>6, <1>12, EmptyOut, QuietStep

LEMMA AfterAckGood ==
  ASSUME NEW n \in Node, NEW s \in Socket_, SeqOK(s)
  PROVE  Good(s, AfterAck(n, s))
<1>1. /\ {ESTABLISHED, FIN_WAIT_2, TIME_WAIT} \subseteq State
      /\ \A st \in {ESTABLISHED, FIN_WAIT_2, TIME_WAIT} : st # 244 /\ st \notin Handshaking
  BY StateByte, StateValues DEF States, Handshaking
<1>2. \A st \in {ESTABLISHED, FIN_WAIT_2, TIME_WAIT} : Good(s, setState(s, st))
  BY <1>1, SetStateGood
<1>3. Good(s, closed(n, s)) /\ Good(s, s)
  BY ClosedGood, SameGood
<1>4. QED
  BY <1>2, <1>3, StateValues DEF AfterAck

LEMMA RecvAckOfAllInv ==
  ASSUME IInv, NEW m \in net, RecvAckOfAll(m.dst, m)
  PROVE  IInv' /\ Forward
<1> DEFINE n == m.dst
           s == Rcvd(n)
           t == AfterAck(n, s)
           u == [t EXCEPT !.opened = TRUE]
<1>1. n \in Node
  BY OfSegment
<1>2. s \in Socket_ /\ SeqOK(s) /\ Keeps(sock[n], s)
  BY <1>1, RcvdGood
<1>3. Handle(n, m, u, {})
  BY DEF RecvAckOfAll
<1> HIDE DEF n, s
<1>4. Good(s, t) /\ t \in Socket_
  BY <1>1, <1>2, AfterAckGood DEF Good, Keeps
<1> HIDE DEF t
<1>5. u \in Socket_ /\ u.state = t.state /\ u.localSeq = t.localSeq /\ u.stash = t.stash
  BY <1>4 DEF Socket_
<1> HIDE DEF u
<1>6. Good(t, u)
  BY <1>4, <1>5, SameGood DEF Good
<1>7. Good(sock[n], u)
  BY <1>1, <1>2, <1>4, <1>6, OfInv, GoodTrans DEF Good
<1>8. QED
  BY <1>1, <1>2, <1>3, <1>7, EmptyOut, QuietStep

LEMMA RecvLastResortInv ==
  ASSUME IInv, NEW m \in net, RecvLastResort(m.dst, m)
  PROVE  IInv' /\ Forward
  BY OfSegment, RcvdGood, ForceCloseStep DEF RecvLastResort

-----------------------------------------------------------------------------
(* Data, and what the application answers while it is being received.      *)

\* What is done after new data was sent leaves it where it is.
LEMMA FreshThen ==
  ASSUME NEW n \in Node, NEW s, NEW u, s.localSeq = u.localSeq, NEW r, NEW w,
         NEW out, NEW more,
         Fresh(n, u, r, out), Good(r, w), Empty(n, more), u.localSeq \in Nat
  PROVE  Fresh(n, s, w, out \cup more)
<1>1. PICK d \in Data :
          /\ r.localSeq >= u.localSeq + d.len
          /\ IsAwaiting(r.state) => r.stash = d /\ r.localSeq = u.localSeq + d.len
          /\ \A m \in out : m.src = n /\
                (m.data.len > 0 => m.seq = u.localSeq /\ m.data = d)
  BY DEF Fresh
<1>2. r \in Socket_ /\ w \in Socket_ /\ SeqOK(w)
  BY DEF Fresh, Good, Keeps
<1>3. r.localSeq \in Nat /\ w.localSeq \in Nat
  BY <1>2 DEF Socket_
<1>4. d.len \in Nat
  BY DEF Data
<1>5. w.localSeq >= s.localSeq + d.len
  BY <1>1, <1>3, <1>4 DEF Good, Keeps
<1>6. IsAwaiting(w.state) => w.stash = d /\ w.localSeq = s.localSeq + d.len
  BY <1>1 DEF Good, Keeps
<1>7. \A m \in out \cup more : m.src = n /\
                (m.data.len > 0 => m.seq = s.localSeq /\ m.data = d)
  BY <1>1 DEF Empty
<1>8. out \cup more \subseteq Outgoing
  BY DEF Fresh, Empty
<1>9. QED
  BY <1>2, <1>5, <1>6, <1>7, <1>8 DEF Fresh

LEMMA AfterCloseLeaves ==
  ASSUME NEW s \in Socket_, Low(s.state) = ESTABLISHED
  PROVE  AfterClose(s).state # UNKNOWN_HOST
<1> DEFINE t == [SentFin(s) EXCEPT !.attempts = 1]
<1>1. AfterClose(s) = setState(t, FIN_WAIT_1)
  <2>1. s.state # CLOSE_WAIT
    BY StateByte, StateValues
  <2>2. QED
    BY <2>1 DEF AfterClose
<1>2. SentFin(s) \in Socket_
  BY SentFields
<1> DEFINE f == SentFin(s)
<1> HIDE DEF f
<1>3. [f EXCEPT !.attempts = 1] \in Socket_
  BY <1>2 DEF Socket_, f
<1>4. t \in Socket_
  BY <1>3 DEF f
<1> HIDE DEF t
<1>5. setState(t, FIN_WAIT_1).state = FIN_WAIT_1
  BY <1>4 DEF setState, Socket_
<1>6. QED
  BY <1>1, <1>5, StateValues

LEMMA BytesType ==
  ASSUME NEW d \in Data
  PROVE  Bytes(d) \in Seq(Nat)
<1>1. d.first \in Nat /\ d.len \in Nat
  BY DEF Data
<1>2. \A i \in 1 .. d.len : d.first + i - 1 \in Nat
  BY <1>1
<1>3. QED
  BY <1>1, <1>2 DEF Bytes

\* The socket after onDataReceived(), and what that call has sent.
LEMMA ReplyGood ==
  ASSUME NEW n \in Node, NEW u \in Socket_, SeqOK(u), u.state # UNKNOWN_HOST,
         Low(u.state) = ESTABLISHED, NEW react, NEW len, CanReply(n, u, react, len)
  PROVE  LET r    == Reply(n, u, react, len)
             segs == ReplySegs(n, u, react, len)
         IN  /\ r \in Socket_ /\ SeqOK(r) /\ r.state # UNKNOWN_HOST
             /\ (Good(u, r) /\ Empty(n, segs)) \/ Fresh(n, u, r, segs)
<1> DEFINE r    == Reply(n, u, react, len)
           segs == ReplySegs(n, u, react, len)
           d    == [first |-> u.sent + 1, len |-> len]
<1>1. CASE react = "none"
  <2>1. r = u /\ segs = {}
    BY <1>1 DEF Reply, ReplySegs
  <2>2. QED
    BY <2>1, SameGood, EmptyOut
<1>2. CASE react = "close"
  <2>1. r = AfterClose(u) /\ segs = {Fin(n, u)}
    BY <1>2 DEF Reply, ReplySegs
  <2>2. Good(u, AfterClose(u)) /\ AfterClose(u).state # UNKNOWN_HOST
    BY AfterCloseGood, AfterCloseLeaves
  <2>3. QED
    BY <2>1, <2>2, EmptyOut DEF Good, Keeps
<1>3. CASE react \in {"send", "both"}
  <2> DEFINE v == AfterSend(u, d)
             answer == {Seg(n, u, {"ACK"}, d)}
  <2>1. readyToSend(u) /\ len \in 1 .. MaxPayload(u)
    BY <1>3 DEF CanReply
  <2>2. len \in Nat \ {0}
    <3>1. MaxPayload(u) \in Nat
      BY NumberAssumption DEF MaxPayload, Socket_
    <3>2. QED
      BY <2>1, <3>1
  <2>3. d \in Data /\ d.len = len
    <3>1. u.sent + 1 \in Nat
      BY DEF Socket_
    <3>2. QED
      BY <2>2, <3>1 DEF Data
  <2>4. Fresh(n, u, v, answer)
    BY <2>1, <2>2, AfterSendFresh
  <2>5. v \in Socket_ /\ SeqOK(v) /\ v.state = 244
    <3> HIDE DEF d
    <3>1. QED
      BY <2>2, <2>3, AfterSendFields
  <2>6. CASE react = "send"
    <3>1. r = v /\ segs = answer
      BY <2>6 DEF Reply, ReplySegs
    <3>2. QED
      BY <2>4, <2>5, <3>1, StateValues
  <2>7. CASE react = "both"
    <3>1. r = AfterClose(v) /\ segs = answer \cup {Fin(n, v)}
      BY <2>7 DEF Reply, ReplySegs
    <3> HIDE DEF v, answer, d
    <3>2. Low(v.state) = ESTABLISHED
      BY <2>5, StateByte, StateValues
    <3>3. Good(v, AfterClose(v)) /\ AfterClose(v).state # UNKNOWN_HOST
      BY <2>5, <3>2, AfterCloseGood, AfterCloseLeaves
    <3>4. Empty(n, {Fin(n, v)})
      <4>1. n \in Node /\ v \in Socket_
        BY <2>5
      <4>2. QED
        BY <4>1, EmptyOut, Zenon
    <3>5. u.localSeq \in Nat
      BY DEF Socket_
    <3>6. Fresh(n, u, AfterClose(v), answer \cup {Fin(n, v)})
      BY <2>4, <3>3, <3>4, <3>5, FreshThen
    <3>7. QED
      BY <3>1, <3>3, <3>6 DEF Good, Keeps
  <2>8. QED
    BY <1>3, <2>6, <2>7
<1>4. QED
  BY <1>1, <1>2, <1>3 DEF CanReply

\* Taking the data changes what the application has got and what is expected
\* next; the FIN and the acknowledgement change the state.
LEMMA TakeGood ==
  ASSUME NEW s, NEW r \in Socket_, SeqOK(r), r.state # UNKNOWN_HOST,
         NEW m \in Segment, NEW accept \in BOOLEAN
  PROVE  LET t == IF accept
                  THEN [r EXCEPT !.remoteSeq = m.seq + m.data.len, !.age = 0,
                                 !.got = @ \o Bytes(m.data)]
                  ELSE r
             f == IF HasFin(m) THEN AfterFin(SentPlain(t), m) ELSE SentPlain(t)
         IN  t \in Socket_ /\ Good(r, ClearAck(s, m, f))
<1> DEFINE v   == m.seq + m.data.len
           nil == 0
           g   == r.got \o Bytes(m.data)
           x   == [r EXCEPT !.remoteSeq = v, !.age = nil, !.got = g]
           t   == IF accept THEN x ELSE r
           p   == SentPlain(t)
           f   == IF HasFin(m) THEN AfterFin(p, m) ELSE p
           w   == ClearAck(s, m, f)
<1>1. v \in Nat /\ nil \in Nat /\ g \in Seq(Nat)
  <2>1. m.data \in Data /\ m.seq \in Nat /\ r.got \in Seq(Nat)
    BY DEF Segment, Socket_
  <2>2. m.data.len \in Nat
    BY <2>1 DEF Data
  <2>3. Bytes(m.data) \in Seq(Nat)
    BY <2>1, BytesType
  <2>4. g \in Seq(Nat)
    BY <2>1, <2>3, ConcatProperties
  <2>5. QED
    BY <2>1, <2>2, <2>4
<1> HIDE DEF v, nil, g
<1>2. x \in Socket_ /\ x.state = r.state /\ x.localSeq = r.localSeq /\ x.stash = r.stash
  BY <1>1 DEF Socket_
<1> HIDE DEF x
<1>3. t \in Socket_ /\ t.state = r.state /\ t.localSeq = r.localSeq /\ t.stash = r.stash
  BY <1>2
<1> HIDE DEF t
<1>4. Good(r, p) /\ p \in Socket_ /\ p.state # UNKNOWN_HOST
  BY <1>3, SentFields, SameGood
<1> HIDE DEF p
<1>5. Good(p, f) /\ f.state # UNKNOWN_HOST
  BY <1>4, AfterFinGood, SameGood DEF Good
<1> HIDE DEF f
<1>6. Good(f, w)
  BY <1>5, ClearAckGood DEF Good, Keeps
<1> HIDE DEF w
<1>7. Good(p, w)
  BY <1>4, <1>5, <1>6, GoodTrans DEF Good
<1>8. Good(r, w)
  BY <1>4, <1>7, GoodTrans DEF Good
<1>9. QED
  BY <1>3, <1>8 DEF w, f, p, t, x, v, nil, g

LEMMA RecvDataInv ==
  ASSUME IInv, NEW m \in net, NEW accept \in BOOLEAN, NEW react, NEW len,
         RecvData(m.dst, m, accept, react, len)
  PROVE  IInv' /\ Forward
<1> DEFINE n == m.dst
           s == Rcvd(n)
           v == s.remoteSeq + 1
           u == IF HasFin(m) THEN [s EXCEPT !.remoteSeq = v] ELSE s
           r == Reply(n, u, react, len)
           segs == ReplySegs(n, u, react, len)
           t == IF accept
                THEN [r EXCEPT !.remoteSeq = m.seq + m.data.len, !.age = 0,
                               !.got = @ \o Bytes(m.data)]
                ELSE r
           f == IF HasFin(m) THEN AfterFin(SentPlain(t), m) ELSE SentPlain(t)
           w == ClearAck(s, m, f)
<1>1. n \in Node /\ m \in Segment
  BY OfSegment
<1>2. /\ s \in Socket_ /\ SeqOK(s) /\ Keeps(sock[n], s) /\ s.remoteSeq \in Nat
      /\ s.localSeq = sock[n].localSeq /\ s.localSeq \in Nat
  BY <1>1, RcvdGood
<1>3. s.state # UNKNOWN_HOST /\ Low(s.state) = ESTABLISHED
  BY <1>1, InBlock DEF RecvData, TakeData, InOrder
<1>4. Handle(n, m, w, segs \cup {Ack(n, t)}) /\ CanReply(n, u, react, len)
  BY <1>1 DEF RecvData, TakeData, BeforeData
<1>5. v \in Nat
  BY <1>2
<1> HIDE DEF n, s, v
<1>6. /\ u \in Socket_ /\ u.state = s.state /\ u.localSeq = s.localSeq
      /\ u.stash = s.stash
  BY <1>2, <1>5 DEF Socket_
<1> HIDE DEF u
<1>7. SeqOK(u) /\ Good(s, u) /\ u.state # UNKNOWN_HOST /\ Low(u.state) = ESTABLISHED
  BY <1>2, <1>3, <1>6, SameGood DEF Good
<1>8. /\ r \in Socket_ /\ SeqOK(r) /\ r.state # UNKNOWN_HOST
      /\ (Good(u, r) /\ Empty(n, segs)) \/ Fresh(n, u, r, segs)
  BY <1>1, <1>4, <1>6, <1>7, ReplyGood
<1> HIDE DEF r, segs
<1>9. t \in Socket_ /\ Good(r, w)
  BY <1>1, <1>8, TakeGood
<1> HIDE DEF t, f, w
<1>10. Empty(n, {Ack(n, t)})
  BY <1>1, <1>9, EmptyOut
<1>11. CASE Good(u, r) /\ Empty(n, segs)
  <2>1. Empty(n, segs \cup {Ack(n, t)})
    BY <1>10, <1>11 DEF Empty
  <2>2. Good(u, w)
    BY <1>6, <1>9, <1>11, GoodTrans DEF Good
  <2>3. Good(s, w)
    BY <1>2, <1>7, <2>2, GoodTrans DEF Good
  <2>4. Good(sock[n], w)
    BY <1>1, <1>2, <2>3, OfInv, GoodTrans
  <2>5. QED
    BY <1>1, <1>4, <2>1, <2>4, QuietStep
<1>12. CASE Fresh(n, u, r, segs)
  <2>1. Fresh(n, sock[n], w, segs \cup {Ack(n, t)})
    BY <1>1, <1>2, <1>6, <1>9, <1>10, <1>12, FreshThen
  <2>2. Changes(n, w, segs \cup {Ack(n, t)})
    BY <1>4 DEF Changes, Handle
  <2>3. QED
    BY <1>1, <2>1, <2>2, FreshInv
<1>13. QED
  BY <1>8, <1>11, <1>12

LEMMA HandleSegmentInv ==
  ASSUME IInv, NEW m \in net, handleSegment(m.dst, m)
  PROVE  IInv' /\ Forward
<1>1. m.dst \in Node
  BY OfSegment
<1>2. CASE RecvUnacceptable(m.dst, m)
  BY <1>1, <1>2, AnswerInv DEF RecvUnacceptable
<1>3. CASE RecvOutOfOrder(m.dst, m)
  BY <1>1, <1>3, AnswerInv DEF RecvOutOfOrder
<1>4. CASE \E accept \in BOOLEAN, react \in {"none", "send", "close", "both"},
              len \in 0 .. StashSize : RecvData(m.dst, m, accept, react, len)
  BY <1>4, RecvDataInv
<1>5. QED
  BY <1>2, <1>3, <1>4, RecvBadInv, RecvRstInv, RecvSynListenInv, RecvSynSentInv,
     RecvSynAckInv, RecvNoAckInv, RecvAckInv, RecvFinInv, RecvAckOfAllInv,
     RecvLastResortInv DEF handleSegment

-----------------------------------------------------------------------------
(* The theorems.                                                           *)

LEMMA InitInv == Init => IInv
<1> SUFFICES ASSUME Init PROVE IInv
  OBVIOUS
<1> DEFINE zero == 0
           st(n) == IF isHost(n) THEN LISTEN ELSE CLOSED
           lp(n) == IF isHost(n) THEN Port[n] ELSE zero
           ip(n) == IF n \in Hosts \cup Named THEN NoNode ELSE Server[n]
           rp(n) == IF isHost(n) THEN zero ELSE Port[n]
<1>1. ASSUME NEW n \in Node
      PROVE  /\ st(n) \in State /\ lp(n) \in Nat /\ FirstPort[n] \in Nat
             /\ ip(n) \in Node \cup {NoNode} /\ rp(n) \in Nat /\ ISS[n] \in Nat
  BY NodeAssumption, ConfigAssumption, StateByte, StateValues DEF States, isHost
<1>2. zero \in Nat /\ zero \in 0 .. 6 /\ NoData \in Data /\ <<>> \in Seq(Nat)
  BY NoDataType
<1>3. sock = [n \in Node |->
         [state      |-> st(n),
          localPort  |-> lp(n),
          nextPort   |-> FirstPort[n],
          remoteIP   |-> ip(n),
          remotePort |-> rp(n),
          localSeq   |-> ISS[n],
          remoteSeq  |-> zero,
          remoteWindow |-> zero,
          age        |-> zero,
          attempts   |-> zero,
          connectOnResolution |-> FALSE,
          stash      |-> NoData,
          words      |-> zero,
          sent  |-> zero,
          start |-> zero,
          got   |-> <<>>,
          opened |-> FALSE]]
  BY DEF Init
<1>4. net = {}
  BY DEF Init
<1>5. \A n \in Node : st(n) \in {LISTEN, CLOSED}
  OBVIOUS
<1> HIDE DEF zero, st, lp, ip, rp
<1>6. \A n \in Node : sock[n] \in Socket_ /\ sock[n].state = st(n)
  BY <1>1, <1>2, <1>3 DEF Socket_
<1>7. TypeOK
  BY <1>3, <1>4, <1>6 DEF TypeOK
<1>8. \A n \in Node : SeqOK(sock[n])
  BY <1>1, <1>5, <1>6, StateByte, StateValues DEF SeqOK
<1>9. QED
  BY <1>4, <1>7, <1>8 DEF IInv, DataSent, StashSent, SameBytes

LEMMA NextInv ==
  ASSUME IInv, [Next]_vars
  PROVE  IInv' /\ Forward
<1>1. CASE \E n \in Node : Application(n) \/ checkState(n)
  BY <1>1, ApplicationInv, CheckStateInv
<1>2. CASE \E m \in net : handleSegment(m.dst, m)
  BY <1>2, HandleSegmentInv
<1>3. CASE Network
  BY <1>3, NetworkInv DEF Network
<1>4. CASE Elapse
  BY <1>4, ElapseInv
<1>5. CASE UNCHANGED vars
  <2>1. IInv'
    BY <1>5 DEF IInv, TypeOK, SeqOK, DataSent, StashSent, SameBytes, vars
  <2>2. Forward
    BY <1>5, OfInv DEF Forward, vars
  <2>3. QED
    BY <2>1, <2>2
<1>6. QED
  BY <1>1, <1>2, <1>3, <1>4, <1>5 DEF Next

\* IInv is an inductive invariant of the whole library: whatever the calls, the
\* timers and the network do, in any order.
THEOREM Inductive == Spec => []IInv
  BY InitInv, NextInv, PTL DEF Spec

\* setState(), close() and the clearing of AWAITING_ACK in handleSegment() only
\* ever produce the states of Socket.h, and checkState() never takes a sequence
\* number off localSeq that was not there: every field keeps its type.
THEOREM TypeCorrect == Spec => []TypeOK
<1>1. IInv => TypeOK
  BY DEF IInv
<1>2. QED
  BY <1>1, Inductive, PTL

\* send() and resendData() never put two different payloads at one sequence
\* number of a device, in any two segments in flight, old or new.
THEOREM NumbersNameBytes == Spec => []SameBytes
<1>1. IInv => SameBytes
  BY DEF IInv
<1>2. QED
  BY <1>1, Inductive, PTL

\* No call, timer or segment moves localSeq back: what checkState() takes off
\* to send again, sendSegment() adds in the same step.
THEOREM NeverBack == Spec => SeqNeverBack
<1>1. IInv /\ [Next]_vars => [Forward]_vars
  BY NextInv
<1>2. Spec => [][Forward]_vars
  BY <1>1, Inductive, PTL DEF Spec
<1>3. QED
  BY <1>2 DEF SeqNeverBack, Forward

=============================================================================
