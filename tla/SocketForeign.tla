---------------------------- MODULE SocketForeign ----------------------------
(* Socket with peers that may put their last data and their FIN into one   *)
(* segment.  This library never does, most other TCPs do, and              *)
(* handleSegment() has code for it.  The foreign TCP is external: apart    *)
(* from that segment, and from the FIN it takes after its own, it is        *)
(* modelled as a Socket, and retransmits nothing but its FIN, so the        *)
(* network of the runs loses nothing for good.                              *)
EXTENDS Socket

CONSTANT Foreign        \* the devices with such a TCP

ASSUME ForeignAssumption == Foreign \subseteq Node

SendLast(n, len) ==
    LET s == sock[n]
        data == [first |-> s.sent + 1, len |-> len]
    IN  /\ n \in Foreign
        /\ s.sent + len <= MaxBytes[n]
        /\ s.state = ESTABLISHED /\ len <= MaxPayload(s)
        /\ Step(n, setState([AfterSend(s, data) EXCEPT !.localSeq = @ + 1], FIN_WAIT_1),
                {Seg(n, SentPlain(s), {"FIN", "ACK"}, data)})

\* ... and takes a FIN after its own, which handleSegment() does not.
TakeFin(n, m) ==
    LET s == [Rcvd(n) EXCEPT !.remoteSeq = @ + 1]
    IN  /\ n \in Foreign
        /\ Delivered(n, m) /\ ~HasRst(m) /\ HasFin(m) /\ m.data.len = 0
        /\ m.seq = sock[n].remoteSeq
        /\ \/ /\ s.state = FIN_WAIT_2
              /\ Handle(n, m, setState(SentPlain(s), TIME_WAIT), {Ack(n, s)})
           \/ /\ s.state = FIN_WAIT_1 /\ m.ack # s.localSeq
              /\ Handle(n, m, setState(SentPlain(s), CLOSING), {Ack(n, s)})

ForeignNext ==
    \/ Next
    \/ \E n \in Foreign, len \in 1 .. StashSize : SendLast(n, len)
    \/ \E m \in net : TakeFin(m.dst, m)

ForeignSpec == Init /\ [][ForeignNext]_vars

-----------------------------------------------------------------------------

\* A socket gets to CLOSING or TIME_WAIT only when its peer has closed too.
TimeWaitAfterBothClosed ==
    \A a, b \in Node :
        Connected(a, b) /\ sock[a].state \in {CLOSING, TIME_WAIT} => localClosed(sock[b])

=============================================================================
