-------------------------- MODULE TCPHandlerProofs --------------------------
(* Theorems about TCPHandler, for any sockets, ports, peers and handlers   *)
(* and tables of any size: the types, OneRowEach, RegistryAgrees,          *)
(* TimerIffSockets, ClosedIffGone and OneConnection.                       *)
EXTENDS TCPHandler, EtherControlProofs

\* The table of timers is in order, also while handleTimer() runs and the slot
\* that was called may be gone.
TableInv == TableOK(eth, timer) /\ round \in Rounds

LoopTypes ==
    /\ visit \in 0 .. SocketCapacity + 1 /\ callback \in BOOLEAN
    /\ others \in 0 .. MaxOthers

SockTypes ==
    /\ registered \in [Row -> Sock \cup {NoSock}]
    /\ sock \in [Sock -> Socket]
    /\ nextPort \in Nat /\ running \in BOOLEAN /\ bypassed \subseteq Sock

StashOK == \A s \in Sock : sock[s].tcp => sock[s].stash \in Row

\* Hosts keep their port, and the ports of open clients have come from
\* getPort(), each once.
HostPorts == \A s \in Sock : isHost(s) => sock[s].localPort = ListenPort[s]
OpenClients == {s \in Sock : ~isHost(s) /\ sock[s].state = "OPEN"}
ClientPorts ==
    \A s \in OpenClients : FirstPort <= sock[s].localPort /\ sock[s].localPort < nextPort
PortsDiffer ==
    \A s, t \in OpenClients : sock[s].localPort = sock[t].localPort => s = t
PortsOK == FirstPort <= nextPort /\ HostPorts /\ ClientPorts /\ PortsDiffer

RegInv ==
    /\ SockTypes /\ StashOK /\ PortsOK
    /\ OneRowEach /\ RegistryAgrees /\ ClosedIffGone /\ OneConnection

TCPInv == TableInv /\ LoopTypes /\ RegInv /\ TimerIffSockets

-----------------------------------------------------------------------------
(* The table of timers.                                                    *)

LEMMA TCPDelay == TCP \in Handler /\ CheckDelay \in Nat
  BY TCPAssumption

LEMMA HasRegisteredTable ==
    ASSUME TableInv, NEW h \in Handler, timer[h] = 0, NEW d \in Nat, HasRegistered(h, d, eth)
    PROVE  /\ TableInv' /\ (Free(eth) # {} => timer'[h] # 0)
           /\ \A g \in Handler \ {h} : timer'[g] = timer[g]
<1>1. /\ eth' = Registered(eth, h, d) /\ timer' = [timer EXCEPT ![h] = NewIndex(eth)]
      /\ round' = round
  BY DEF HasRegistered
<1>2. TableOK(eth', timer') /\ (Free(eth) # {} => timer'[h] # 0)
  BY <1>1, RegisteredKeeps DEF TableInv
<1>3. \A g \in Handler \ {h} : timer'[g] = timer[g]
  BY <1>1 DEF TableInv, TableOK, Indices
<1> QED
  BY <1>1, <1>2, <1>3 DEF TableInv

LEMMA HasUnregisteredTable ==
    ASSUME NEW e, TableOK(e, timer), round \in Rounds, NEW h \in Handler, timer[h] # 0,
           HasUnregistered(h, e)
    PROVE  TableInv' /\ timer'[h] = 0 /\ \A g \in Handler \ {h} : timer'[g] = timer[g]
<1>1. /\ eth' = Unregistered(e, timer[h]) /\ timer' = [timer EXCEPT ![h] = 0]
      /\ round' = [owed |-> round.owed \ {timer[h]}, dropped |-> TRUE]
  BY DEF HasUnregistered
<1>2. TableOK(eth', timer')
  BY <1>1, UnregisteredKeeps
<1>3. timer'[h] = 0 /\ \A g \in Handler \ {h} : timer'[g] = timer[g]
  BY <1>1 DEF TableOK, Indices
<1>4. round' \in Rounds
  BY <1>1 DEF Rounds
<1> QED
  BY <1>2, <1>3, <1>4 DEF TableInv

LEMMA HasTimerTable ==
    ASSUME TableInv, HasTimer
    PROVE  TableInv' /\ timer'[TCP] # 0
<1>1. CASE timer[TCP] # 0
  BY <1>1 DEF HasTimer, etherVars, TableInv, TableOK, Counted, Owned, Used, Index
<1>2. CASE timer[TCP] = 0
  BY <1>2, HasRegisteredTable, TCPDelay DEF HasTimer
<1> QED
  BY <1>1, <1>2

LEMMA unregisterTimerTable ==
    ASSUME TableInv, unregisterTimer
    PROVE  TableInv' /\ timer'[TCP] = 0
<1>1. CASE timer[TCP] # 0
  BY <1>1, HasUnregisteredTable, TCPDelay DEF unregisterTimer, TableInv
<1>2. CASE timer[TCP] = 0
  BY <1>2 DEF unregisterTimer, etherVars, TableInv, TableOK, Counted, Owned, Used, Index
<1> QED
  BY <1>1, <1>2

\* The steps of processTimers() leave the handlers in their slots.
LEMMA RoundTable ==
    ASSUME TableInv, Round
    PROVE  TableInv' /\ timer' = timer
<1>1. eth \in EtherState /\ timer' = timer
  BY DEF TableInv, TableOK, Round, BeginRound, SkipSlot, CallSlot, EndRound
<1>2. CASE BeginRound
  <2>1. /\ eth' = [eth EXCEPT !.at = 1, !.processed = 0]
        /\ round' = [owed |-> DueSlots(eth), dropped |-> FALSE]
    BY <1>2 DEF BeginRound
  <2>2. eth' \in EtherState /\ eth'.slot = eth.slot /\ eth'.timers = eth.timers
    BY <1>1, <2>1 DEF EtherState
  <2>3. round' \in Rounds
    BY <2>1 DEF Rounds, DueSlots
  <2> QED
    BY <1>1, <2>2, <2>3, SameHandlers DEF TableInv
<1>3. CASE SkipSlot \/ EndRound
  <2>1. PICK n \in Nat : eth' = [eth EXCEPT !.at = n]
    <3>1. eth.at + 1 \in Nat /\ 0 \in Nat
      BY <1>1 DEF EtherState
    <3> QED
      BY <1>3, <3>1 DEF SkipSlot, EndRound
  <2>2. eth' \in EtherState /\ eth'.slot = eth.slot /\ eth'.timers = eth.timers
    BY <1>1, <2>1 DEF EtherState
  <2>3. round' = round
    BY <1>3 DEF SkipSlot, EndRound
  <2> QED
    BY <1>1, <2>2, <2>3, SameHandlers DEF TableInv
<1>4. CASE CallSlot
  <2> DEFINE k == eth.at
             sl == [eth.slot EXCEPT ![k].age = 0]
  <2>1. k \in Index
    BY <1>4 DEF CallSlot, IsDue, Used
  <2>2. /\ eth' = [eth EXCEPT !.slot[k].age = 0, !.calling = k]
        /\ round' = [round EXCEPT !.owed = @ \ {k}]
    BY <1>4 DEF CallSlot
  <2>3. eth.slot[k] \in Slot /\ eth.slot \in [Index -> Slot]
    BY <1>1, <2>1 DEF EtherState
  <2>4. /\ sl \in [Index -> Slot]
        /\ \A i \in Index : sl[i].handler = eth.slot[i].handler
    BY <2>1, <2>3 DEF Slot
  <2>5. eth' = [eth EXCEPT !.slot = sl, !.calling = k]
    BY <2>2
  <2> HIDE DEF sl, k
  <2>6. eth' \in EtherState /\ eth'.slot = sl /\ eth'.timers = eth.timers
    BY <1>1, <2>1, <2>4, <2>5 DEF EtherState
  <2>7. round' \in Rounds
    BY <2>2 DEF TableInv, Rounds
  <2> QED
    BY <1>1, <2>4, <2>6, <2>7, SameHandlers DEF TableInv
<1> QED
  BY <1>2, <1>3, <1>4 DEF Round

\* Returning from a handler, another handler's calls, and time.
LEMMA ReturnedTable ==
    ASSUME TableInv, eth' = Returned(eth), UNCHANGED <<timer, round>>
    PROVE  TableInv'
  BY ReturnedKeeps DEF TableInv

LEMMA OtherRegisterTable ==
    ASSUME TableInv, NEW h \in Other, OtherRegister(h)
    PROVE  TableInv' /\ timer'[TCP] = timer[TCP]
<1>1. PICK d \in Delays[h] : HasRegistered(h, d, eth)
  BY DEF OtherRegister
<1>2. h \in Handler /\ h # TCP /\ timer[h] = 0 /\ d \in Nat
  BY <1>1, TimerAssumption DEF OtherRegister, Other
<1> QED
  BY <1>1, <1>2, HasRegisteredTable, TCPDelay

LEMMA OtherTimerTable ==
    ASSUME TableInv, NEW h \in Other, OtherTimer(h)
    PROVE  TableInv' /\ timer'[TCP] = timer[TCP]
<1>1. CASE eth' = Returned(eth) /\ UNCHANGED <<timer, round>>
  BY <1>1, ReturnedTable
<1>2. CASE timer[h] # 0 /\ HasUnregistered(h, Returned(eth))
  <2>1. h \in Handler /\ h # TCP
    BY DEF Other
  <2>2. TableOK(Returned(eth), timer) /\ round \in Rounds
    BY ReturnedKeeps DEF TableInv
  <2> QED
    BY <1>2, <2>1, <2>2, HasUnregisteredTable, TCPDelay
<1> QED
  BY <1>1, <1>2 DEF OtherTimer

LEMMA ElapseTable ==
    ASSUME TableInv, Elapse
    PROVE  TableInv' /\ timer' = timer
  BY AgedKeeps DEF TableInv, Elapse

-----------------------------------------------------------------------------
(* Steps that leave the registry as it is.                                 *)

LEMMA RegSame ==
    ASSUME RegInv, UNCHANGED <<registered, sock, bypassed, nextPort, running>>
    PROVE  RegInv' /\ \A s \in Sock : IsRegistered(s)' = IsRegistered(s)
  BY DEF RegInv, SockTypes, StashOK, PortsOK, HostPorts, ClientPorts, PortsDiffer,
         OpenClients, OneRowEach, RegistryAgrees, ClosedIffGone,
         OneConnection, IsRegistered, RowsOf, Row

LEMMA TimerKept ==
    ASSUME TimerIffSockets, timer'[TCP] = timer[TCP],
           \A s \in Sock : IsRegistered(s)' = IsRegistered(s)
    PROVE  TimerIffSockets'
  BY DEF TimerIffSockets

LEMMA QuietInv ==
    ASSUME TCPInv, TableInv', LoopTypes', timer'[TCP] = timer[TCP],
           UNCHANGED <<registered, sock, bypassed, nextPort, running>>
    PROVE  TCPInv'
  BY RegSame, TimerKept DEF TCPInv

LEMMA VisitTypes ==
    ASSUME LoopTypes, callback' \in BOOLEAN, others' = others,
           \/ visit \in Row /\ visit' = visit + 1
           \/ visit' = 0 \/ visit' = 1
    PROVE  LoopTypes'
<1>1. SocketCapacity \in Nat
  BY TCPAssumption
<1>2. visit' \in 0 .. SocketCapacity + 1
  BY <1>1 DEF Row
<1> QED
  BY <1>2 DEF LoopTypes

LEMMA TableSame ==
    ASSUME TableInv, UNCHANGED etherVars
    PROVE  TableInv' /\ timer' = timer
  BY DEF etherVars, TableInv, TableOK, Counted, Owned, Used, Index

LEMMA QuietVisits ==
    ASSUME TCPInv, BeginVisits \/ SkipRow \/ EndVisits
    PROVE  TCPInv'
<1>1. CASE BeginVisits
  <2>1. LoopTypes'
    BY <1>1, VisitTypes DEF BeginVisits, restVars, TCPInv
  <2> QED
    BY <1>1, <2>1, TableSame, QuietInv DEF BeginVisits, restVars, TCPInv
<1>2. CASE SkipRow
  <2>1. LoopTypes'
    BY <1>2, VisitTypes DEF SkipRow, restVars, TCPInv
  <2> QED
    BY <1>2, <2>1, TableSame, QuietInv DEF SkipRow, restVars, TCPInv
<1>3. CASE EndVisits
  <2>1. LoopTypes'
    BY <1>3, VisitTypes DEF EndVisits, restVars, TCPInv
  <2> QED
    BY <1>3, <2>1, ReturnedTable, QuietInv DEF EndVisits, restVars, TCPInv
<1> QED
  BY <1>1, <1>2, <1>3

LEMMA DevicesInv ==
    ASSUME TCPInv, Devices \/ TCPRound \/ Elapse
    PROVE  TCPInv'
<1>1. CASE Devices
  <2>1. PICK h \in Other : OtherRegister(h) \/ OtherTimer(h)
    BY <1>1 DEF Devices
  <2>2. TableInv' /\ timer'[TCP] = timer[TCP]
    BY <2>1, OtherRegisterTable, OtherTimerTable DEF TCPInv
  <2>3. LoopTypes'
    BY <2>1, TCPAssumption DEF OtherRegister, OtherTimer, visitVars, TCPInv, LoopTypes
  <2>4. UNCHANGED <<registered, sock, bypassed, nextPort, running>>
    BY <2>1 DEF OtherRegister, OtherTimer, sockVars
  <2> QED
    BY <2>2, <2>3, <2>4, QuietInv
<1>2. CASE TCPRound
  <2>1. /\ LoopTypes'
        /\ UNCHANGED <<registered, sock, bypassed, nextPort, running>>
    BY <1>2 DEF TCPRound, visitVars, sockVars, TCPInv, LoopTypes
  <2> QED
    BY <1>2, <2>1, RoundTable, QuietInv DEF TCPRound, TCPInv
<1>3. CASE Elapse
  <2>1. /\ LoopTypes'
        /\ UNCHANGED <<registered, sock, bypassed, nextPort, running>>
    BY <1>3 DEF Elapse, visitVars, sockVars, TCPInv, LoopTypes
  <2> QED
    BY <1>3, <2>1, ElapseTable, QuietInv DEF TCPInv
<1> QED
  BY <1>1, <1>2, <1>3

-----------------------------------------------------------------------------
(* Steps of one socket that keep its registration.                         *)

\* What a socket that is CLOSED, LISTEN or OPEN under the port lp has to be.
Fits(s, state, lp) ==
    /\ state \in {"CLOSED", "LISTEN", "OPEN"}
    /\ lp \in Nat
    /\ isHost(s) => lp = ListenPort[s]
    /\ ~isHost(s) => state # "LISTEN"
    /\ isHost(s) /\ sock[s].tcp => state # "CLOSED"
    /\ ~sock[s].tcp => state = "CLOSED"

\* A row that a search finds is one of the rows searched for.
LEMMA FirstRowIn ==
    ASSUME NEW S \in SUBSET Row, S # {}
    PROVE  FirstRow(S) \in S
<1>1. S \subseteq Nat
  BY DEF Row
<1> QED
  BY <1>1, LeastOf DEF FirstRow

\* Nobody in the table is connected to p on the port lp.
NobodyHas(p, lp) ==
    \A t \in Sock :
        IsRegistered(t) /\ sock[t].state = "OPEN" /\ sock[t].localPort = lp
        => sock[t].peer # p

\* A registered socket that no direct call has touched is connected under its
\* peer and port alone.
LEMMA StateInv ==
    ASSUME RegInv, running, NEW s \in Sock, NEW r \in Socket,
           sock' = [sock EXCEPT ![s] = r],
           r.tcp = sock[s].tcp, r.stash = sock[s].stash,
           Fits(s, r.state, r.localPort),
           UNCHANGED <<registered, bypassed, running>>,
           nextPort' \in Nat, nextPort <= nextPort',
           \* what a client has that is open now: its own port, or the next one
           ~isHost(s) /\ r.state = "OPEN" =>
               \/ sock[s].state = "OPEN" /\ r.localPort = sock[s].localPort
               \/ r.localPort = nextPort /\ nextPort' = nextPort + 1,
           \* what a host has that is open now: a connection nobody else has
           isHost(s) /\ r.state = "OPEN" =>
               \/ sock[s].state = "OPEN" /\ r.peer = sock[s].peer
               \/ NobodyHas(r.peer, r.localPort)
    PROVE  RegInv' /\ \A t \in Sock : IsRegistered(t)' = IsRegistered(t)
<1>1. /\ sock \in [Sock -> Socket] /\ nextPort \in Nat /\ FirstPort \in Nat
      /\ sock'[s] = r /\ \A t \in Sock \ {s} : sock'[t] = sock[t]
      /\ sock' \in [Sock -> Socket]
      /\ registered' = registered /\ bypassed' = bypassed /\ running' = running
  BY TCPAssumption DEF RegInv, SockTypes
<1>2. /\ \A t \in Sock : sock'[t].tcp = sock[t].tcp /\ sock'[t].stash = sock[t].stash
      /\ \A t \in Sock : IsRegistered(t)' = IsRegistered(t)
  BY <1>1 DEF IsRegistered, RowsOf, Row
<1>3. SockTypes'
  BY <1>1 DEF RegInv, SockTypes, Row
<1>4. StashOK' /\ OneRowEach'
  BY <1>1, <1>2 DEF RegInv, StashOK, OneRowEach, Row
<1>5. RegistryAgrees'
  <2>1. \A i \in Row : registered[i] \in Sock \cup {NoSock}
    BY DEF RegInv, SockTypes
  <2> QED
    BY <1>1, <1>2, <2>1 DEF RegInv, RegistryAgrees, Row
<1>6. ClosedIffGone'
  BY <1>1, <1>2 DEF RegInv, ClosedIffGone, Fits, isHost
<1>7. \A t \in Sock : sock[t].localPort \in Nat /\ sock'[t].localPort \in Nat
  BY <1>1 DEF Socket
<1>8. PortsOK'
  <2>1. FirstPort <= nextPort' /\ FirstPort <= nextPort
    BY <1>1 DEF RegInv, PortsOK
  <2>2. \A t \in Sock : isHost(t) => sock'[t].localPort = ListenPort[t]
    BY <1>1 DEF RegInv, PortsOK, HostPorts, Fits
  <2>3. ASSUME NEW t \in OpenClients'
        PROVE  /\ t \in Sock
               /\ \/ t \in OpenClients /\ sock'[t].localPort = sock[t].localPort
                  \/ t = s /\ sock'[t].localPort = nextPort /\ nextPort' = nextPort + 1
    <3>1. t \in Sock /\ ~isHost(t) /\ sock'[t].state = "OPEN"
      BY <2>3 DEF OpenClients, isHost
    <3>2. CASE sock[t].state = "OPEN" /\ sock'[t].localPort = sock[t].localPort
      BY <3>1, <3>2 DEF OpenClients
    <3> QED
      BY <1>1, <3>1, <3>2
  <2>4. \A t \in OpenClients : FirstPort <= sock[t].localPort /\ sock[t].localPort < nextPort
    BY DEF RegInv, PortsOK, ClientPorts
  <2>5. HostPorts'
    BY <2>2 DEF HostPorts, isHost
  <2>6. ClientPorts'
    <3> SUFFICES ASSUME NEW t \in OpenClients'
                 PROVE  FirstPort <= sock'[t].localPort /\ sock'[t].localPort < nextPort'
      BY DEF ClientPorts
    <3> QED
      BY <1>1, <1>7, <2>1, <2>3, <2>4
  <2>7. PortsDiffer'
    <3> SUFFICES ASSUME NEW t \in OpenClients', NEW u \in OpenClients',
                        sock'[t].localPort = sock'[u].localPort
                 PROVE  t = u
      BY DEF PortsDiffer
    <3>1. \A v \in OpenClients : sock[v].localPort # nextPort
      <4>1. \A v \in OpenClients : v \in Sock
        BY DEF OpenClients
      <4> QED
        BY <1>1, <1>7, <2>4, <4>1
    <3>2. \A v, w \in OpenClients : sock[v].localPort = sock[w].localPort => v = w
      BY DEF RegInv, PortsOK, PortsDiffer
    <3> QED
      BY <2>3, <3>1, <3>2
  <2> QED
    BY <2>1, <2>5, <2>6, <2>7 DEF PortsOK
<1>9. OneConnection'
  <2> SUFFICES ASSUME NEW t \in Sock \ bypassed, NEW u \in Sock \ bypassed,
                      IsRegistered(t), IsRegistered(u),
                      sock'[t].state = "OPEN", sock'[u].state = "OPEN",
                      sock'[t].peer = sock'[u].peer,
                      sock'[t].localPort = sock'[u].localPort
               PROVE  t = u
    BY <1>1, <1>2 DEF OneConnection
  \* Ports keep clients apart, and hosts from clients.
  <2>1. ASSUME NEW v \in Sock, NEW w \in Sock, isHost(v), ~isHost(w), sock'[w].state = "OPEN",
               sock'[v].localPort = sock'[w].localPort
        PROVE  FALSE
    <3>1. sock'[v].localPort = ListenPort[v] /\ FirstPort <= sock'[w].localPort
      BY <1>8, <2>1 DEF PortsOK, HostPorts, ClientPorts, OpenClients, isHost
    <3>2. ListenPort[v] < FirstPort /\ ListenPort[v] \in Nat /\ FirstPort \in Nat
      BY TCPAssumption
    <3> QED
      BY <2>1, <3>1, <3>2
  <2>2. CASE ~isHost(t) /\ ~isHost(u)
    BY <1>8, <2>2 DEF PortsOK, PortsDiffer, OpenClients, isHost
  <2>3. CASE isHost(t) /\ isHost(u)
    <3>1. \A v \in Sock : isHost(v) => sock'[v].localPort = sock[v].localPort
      BY <1>1 DEF RegInv, PortsOK, HostPorts, Fits
    <3>2. CASE sock[t].state = "OPEN" /\ sock'[t].peer = sock[t].peer /\
               sock[u].state = "OPEN" /\ sock'[u].peer = sock[u].peer
      BY <2>3, <3>1, <3>2 DEF RegInv, OneConnection
    <3>3. ASSUME NEW w \in Sock, IsRegistered(w), isHost(w), w # s, sock[w] = sock'[w],
                 sock'[w].state = "OPEN", isHost(s), r.state = "OPEN",
                 sock[w].localPort = r.localPort, sock[w].peer = r.peer
          PROVE  sock[s].state = "OPEN" /\ r.peer = sock[s].peer
      BY <3>3 DEF NobodyHas
    <3> QED
      BY <1>1, <2>3, <3>1, <3>2, <3>3
  <2> QED
    BY <2>1, <2>2, <2>3
<1> QED
  BY <1>2, <1>3, <1>4, <1>5, <1>6, <1>8, <1>9 DEF RegInv

LEMMA SockFields ==
    ASSUME SockTypes, NEW s \in Sock
    PROVE  /\ sock[s].tcp \in BOOLEAN /\ sock[s].stash \in Row \cup {0}
           /\ sock[s].state \in {"CLOSED", "LISTEN", "OPEN"}
           /\ sock[s].peer \in Peer /\ sock[s].localPort \in Nat
  BY DEF Socket, SockTypes

SameRegistry == UNCHANGED <<registered, bypassed, running>>

LEMMA ClosesInv ==
    ASSUME RegInv, running, NEW s \in Sock, Closes(s), SameRegistry, nextPort' = nextPort
    PROVE  RegInv' /\ \A t \in Sock : IsRegistered(t)' = IsRegistered(t)
<1> DEFINE x == sock[s]
           r == [tcp |-> x.tcp, stash |-> x.stash, state |-> closed(s, x.tcp),
                 peer |-> x.peer, localPort |-> x.localPort]
<1>1. /\ x.tcp \in BOOLEAN /\ x.stash \in Row \cup {0} /\ x.peer \in Peer /\ x.localPort \in Nat
      /\ nextPort \in Nat
  BY SockFields DEF RegInv, SockTypes
<1>2. closed(s, x.tcp) \in {"CLOSED", "LISTEN"}
  BY DEF closed
<1>3. r \in Socket
  BY <1>1, <1>2 DEF Socket
<1>4. sock' = [sock EXCEPT ![s] = r]
  BY DEF Closes, Set
<1>5. Fits(s, r.state, r.localPort)
  BY <1>1, <1>2 DEF Fits, closed, RegInv, PortsOK, HostPorts
<1>6. r.state # "OPEN"
  BY <1>2
<1>7. r.tcp = sock[s].tcp /\ r.stash = sock[s].stash
  OBVIOUS
<1> HIDE DEF r, x
<1>8. UNCHANGED <<registered, bypassed, running>> /\ nextPort' \in Nat /\ nextPort <= nextPort'
  BY <1>1 DEF SameRegistry
<1> QED
  BY <1>3, <1>4, <1>5, <1>6, <1>7, <1>8, StateInv

LEMMA connectInv ==
    ASSUME RegInv, running, NEW s \in Sock, connect(s)
    PROVE  RegInv' /\ \A t \in Sock : IsRegistered(t)' = IsRegistered(t)
<1> DEFINE x == sock[s]
           r == [tcp |-> TRUE, stash |-> x.stash, state |-> "OPEN",
                 peer |-> Server[s], localPort |-> nextPort]
<1>1. /\ x.tcp = TRUE /\ x.stash \in Row \cup {0} /\ Server[s] \in Peer /\ nextPort \in Nat
  BY SockFields, TCPAssumption DEF RegInv, SockTypes, connect
<1>2. r \in Socket
  BY <1>1 DEF Socket
<1>3. sock' = [sock EXCEPT ![s] = r] /\ ~isHost(s) /\ SameRegistry
  BY DEF connect, SameRegistry
<1>4. Fits(s, r.state, r.localPort)
  BY <1>1, <1>3 DEF Fits
<1>5. nextPort' = nextPort + 1 /\ nextPort' \in Nat /\ nextPort <= nextPort'
  BY <1>1 DEF connect
<1>6. r.tcp = sock[s].tcp /\ r.stash = sock[s].stash /\ r.localPort = nextPort
  BY <1>1
<1> HIDE DEF r, x
<1> QED
  BY <1>2, <1>3, <1>4, <1>5, <1>6, StateInv DEF SameRegistry

\* A SYN opens a listening socket only if nobody has its connection.
LEMMA SynForInv ==
    ASSUME RegInv, running, NEW p \in Peer, NEW port \in Nat, SynFor(p, port),
           SameRegistry, nextPort' = nextPort
    PROVE  RegInv' /\ \A t \in Sock : IsRegistered(t)' = IsRegistered(t)
<1> DEFINE i == FirstRow(Listeners(port))
           s == registered[i]
           x == sock[s]
           r == [tcp |-> x.tcp, stash |-> x.stash, state |-> "OPEN",
                 peer |-> p, localPort |-> x.localPort]
<1>1. i \in Listeners(port)
  <2>1. Listeners(port) \in SUBSET Row /\ Listeners(port) # {}
    BY DEF Listeners, SynFor
  <2> QED
    BY <2>1, FirstRowIn
<1> HIDE DEF i
<1>2. s \in Sock /\ i \in Row /\ isHost(s) /\ ListenPort[s] = port /\ x.state = "LISTEN"
  BY <1>1 DEF Listeners
<1>3. /\ x.tcp \in BOOLEAN /\ x.stash \in Row \cup {0} /\ nextPort \in Nat
      /\ x.localPort = port
  BY <1>2, SockFields DEF RegInv, SockTypes, PortsOK, HostPorts
<1>4. sock' = [sock EXCEPT ![s] = r]
  BY DEF SynFor, i
<1>5. r \in Socket
  BY <1>3 DEF Socket
<1>6. x.tcp
  BY <1>2, TCPAssumption DEF RegInv, RegistryAgrees
<1>7. Fits(s, r.state, r.localPort)
  BY <1>2, <1>3, <1>6 DEF Fits
<1>8. NobodyHas(p, port)
  BY DEF NobodyHas, SynFor, Connections, IsRegistered, RowsOf
<1>9. r.tcp = x.tcp /\ r.stash = x.stash /\ r.localPort = port /\ r.peer = p
  BY <1>3
<1> HIDE DEF r, x
<1>10. UNCHANGED <<registered, bypassed, running>> /\ nextPort' \in Nat /\ nextPort <= nextPort'
  BY <1>3 DEF SameRegistry
<1>11. s \in Sock /\ isHost(s) /\ r.tcp = sock[s].tcp /\ r.stash = sock[s].stash
  BY <1>2, <1>9 DEF x
<1> HIDE DEF s
<1>12. NobodyHas(r.peer, r.localPort)
  BY <1>8, <1>9
<1> QED
  BY <1>4, <1>5, <1>7, <1>10, <1>11, <1>12, StateInv

\* handlePacket() closes or keeps the socket that has the connection, if any.
LEMMA SegmentOfInv ==
    ASSUME RegInv, running, NEW p \in Peer, NEW port \in Nat, SegmentOf(p, port),
           SameRegistry, nextPort' = nextPort
    PROVE  RegInv' /\ \A t \in Sock : IsRegistered(t)' = IsRegistered(t)
<1> DEFINE i == FirstRow(Connections(p, port))
<1>1. i \in Connections(p, port)
  <2>1. Connections(p, port) \in SUBSET Row /\ Connections(p, port) # {}
    BY DEF Connections, SegmentOf
  <2> QED
    BY <2>1, FirstRowIn
<1>2. Closes(registered[i])
  BY DEF SegmentOf
<1> HIDE DEF i
<1>3. registered[i] \in Sock
  BY <1>1 DEF Connections
<1> QED
  BY <1>2, <1>3, ClosesInv

\* A step of a socket that keeps its registration leaves the timers alone.
LEMMA SocketStep ==
    ASSUME TCPInv, RegInv', \A t \in Sock : IsRegistered(t)' = IsRegistered(t),
           UNCHANGED etherVars, LoopTypes'
    PROVE  TCPInv'
  BY TableSame, TimerKept DEF TCPInv

LEMMA LoopSame ==
    ASSUME LoopTypes, UNCHANGED <<visit, callback, others>>
    PROVE  LoopTypes'
  BY DEF LoopTypes

LEMMA SocketsInv ==
    ASSUME TCPInv, running,
           \/ \E s \in Sock : connect(s) \/ forceClose(s)
           \/ \E p \in Peer, port \in 1 .. MaxPort : handlePacket(p, port)
    PROVE  TCPInv'
<1>1. CASE \E s \in Sock : connect(s)
  <2>1. PICK s \in Sock : connect(s)
    BY <1>1
  <2> QED
    BY <2>1, connectInv, SocketStep, LoopSame DEF connect, TCPInv
<1>2. CASE \E s \in Sock : forceClose(s)
  <2>1. PICK s \in Sock : forceClose(s)
    BY <1>2
  <2> QED
    BY <2>1, ClosesInv, SocketStep, LoopSame DEF forceClose, SameRegistry, TCPInv
<1>3. CASE \E p \in Peer, port \in 1 .. MaxPort : handlePacket(p, port)
  <2>1. PICK p \in Peer, port \in 1 .. MaxPort : handlePacket(p, port)
    BY <1>3
  <2>2. port \in Nat
    BY TCPAssumption
  <2>3. RegInv' /\ \A t \in Sock : IsRegistered(t)' = IsRegistered(t)
    BY <2>1, <2>2, SegmentOfInv, SynForInv DEF handlePacket, SameRegistry, TCPInv
  <2> QED
    BY <2>1, <2>3, SocketStep, LoopSame DEF handlePacket, TCPInv
<1> QED
  BY <1>1, <1>2, <1>3

LEMMA CheckSocketInv ==
    ASSUME TCPInv, running, CheckSocket
    PROVE  TCPInv'
<1> DEFINE s == registered[visit]
<1>1. s \in Sock /\ UNCHANGED <<registered, bypassed, running, nextPort, others>>
      /\ UNCHANGED etherVars
  BY DEF CheckSocket, restVars, TCPInv, RegInv, SockTypes
<1>2. LoopTypes'
  <2>1. callback' \in BOOLEAN /\ visit \in Row /\ visit' = visit + 1
    BY DEF CheckSocket
  <2> QED
    BY <1>1, <2>1, VisitTypes DEF TCPInv
<1>3. CASE UNCHANGED sock
  BY <1>1, <1>2, <1>3, QuietInv, TableSame DEF TCPInv
<1>4. CASE Closes(s)
  BY <1>1, <1>2, <1>4, ClosesInv, SocketStep DEF SameRegistry, TCPInv
<1> QED
  BY <1>3, <1>4 DEF CheckSocket

-----------------------------------------------------------------------------
(* Registration and removal of one socket.                                 *)

\* The others keep their row, if they have one, and their history.
OnlyOf(s) ==
    \A t \in Sock \ {s} : /\ IsRegistered(t)' <=> IsRegistered(t)
                          /\ t \in bypassed' <=> t \in bypassed

\* A socket that comes or goes is not connected, or a direct call has touched it.
LEMMA NotOpenInv ==
    ASSUME RegInv, NEW s \in Sock, NEW r \in Socket, sock' = [sock EXCEPT ![s] = r],
           r.localPort = sock[s].localPort,
           r.state # "OPEN" \/ (r.state = sock[s].state /\ s \in bypassed'),
           OnlyOf(s), nextPort' = nextPort
    PROVE  PortsOK' /\ OneConnection'
<1>1. /\ sock'[s] = r /\ \A t \in Sock \ {s} : sock'[t] = sock[t]
      /\ \A t \in Sock : sock'[t].localPort = sock[t].localPort
  BY DEF RegInv, SockTypes
<1>2. \A t \in OpenClients' : t \in OpenClients
  BY <1>1 DEF OpenClients, isHost
<1>3. PortsOK'
  <2>1. HostPorts'
    BY <1>1 DEF RegInv, PortsOK, HostPorts, isHost
  <2>2. \A t \in OpenClients : t \in Sock
    BY DEF OpenClients
  <2>3. ClientPorts'
    <3> SUFFICES ASSUME NEW t \in OpenClients'
                 PROVE  FirstPort <= sock'[t].localPort /\ sock'[t].localPort < nextPort'
      BY DEF ClientPorts
    <3> QED
      BY <1>1, <1>2, <2>2 DEF RegInv, PortsOK, ClientPorts
  <2>4. PortsDiffer'
    <3> SUFFICES ASSUME NEW t \in OpenClients', NEW u \in OpenClients',
                        sock'[t].localPort = sock'[u].localPort
                 PROVE  t = u
      BY DEF PortsDiffer
    <3> QED
      BY <1>1, <1>2, <2>2 DEF RegInv, PortsOK, PortsDiffer
  <2> QED
    BY <2>1, <2>3, <2>4 DEF RegInv, PortsOK
<1>4. OneConnection'
  <2> SUFFICES ASSUME NEW t \in Sock \ bypassed', NEW u \in Sock \ bypassed',
                      IsRegistered(t)', IsRegistered(u)',
                      sock'[t].state = "OPEN", sock'[u].state = "OPEN",
                      sock'[t].peer = sock'[u].peer,
                      sock'[t].localPort = sock'[u].localPort
               PROVE  t = u
    BY DEF OneConnection
  <2>1. t # s /\ u # s
    BY <1>1
  <2>2. /\ t \notin bypassed /\ u \notin bypassed
        /\ IsRegistered(t) /\ IsRegistered(u)
    BY <2>1 DEF OnlyOf
  <2> QED
    BY <1>1, <2>1, <2>2 DEF RegInv, OneConnection
<1> QED
  BY <1>3, <1>4

\* A row for s, and no other row changes hands.
LEMMA TakesRowRows ==
    ASSUME SockTypes, NEW s \in Sock, FreeRows # {}, TakesRow(s)
    PROVE  LET f == FirstRow(FreeRows)
           IN  /\ f \in Row /\ registered[f] = NoSock /\ registered'[f] = s
               /\ \A i \in Row \ {f} : registered'[i] = registered[i]
               /\ registered' \in [Row -> Sock \cup {NoSock}]
               /\ \A t \in Sock : IsRegistered(t)' <=> IsRegistered(t) \/ t = s
<1> DEFINE f == FirstRow(FreeRows)
<1>1. f \in Row /\ registered[f] = NoSock
  <2>1. FreeRows \in SUBSET Row
    BY DEF FreeRows, RowsOf
  <2>2. f \in FreeRows
    BY <2>1, FirstRowIn
  <2> QED
    BY <2>2 DEF FreeRows, RowsOf
<1>2. registered' = [registered EXCEPT ![f] = s]
  BY DEF TakesRow
<1> HIDE DEF f
<1>3. /\ registered'[f] = s /\ \A i \in Row \ {f} : registered'[i] = registered[i]
      /\ registered' \in [Row -> Sock \cup {NoSock}]
  BY <1>1, <1>2 DEF SockTypes
<1>4. \A t \in Sock : IsRegistered(t)' <=> IsRegistered(t) \/ t = s
  BY <1>1, <1>3, TCPAssumption DEF IsRegistered, RowsOf, Row
<1> QED
  BY <1>1, <1>3, <1>4 DEF f

\* registerTCPHandler() in Socket.cpp for a socket without handler: it is
\* closed, and if it is a host it listens now.
LEMMA JoinsRecord ==
    ASSUME RegInv, running, NEW s \in Sock, ~sock[s].tcp, FreeRows # {}, Joins(s)
    PROVE  \E r \in Socket :
               /\ sock' = [sock EXCEPT ![s] = r]
               /\ sock'[s] = r /\ \A t \in Sock \ {s} : sock'[t] = sock[t]
               /\ sock' \in [Sock -> Socket]
               /\ r.tcp = TRUE /\ r.stash = FirstRow(FreeRows) /\ r.stash \in Row
               /\ r.state # "OPEN" /\ (isHost(s) => r.state = "LISTEN")
               /\ r.localPort = sock[s].localPort
<1> DEFINE f == FirstRow(FreeRows)
           x == sock[s]
           st == IF isHost(s) THEN "LISTEN" ELSE x.state
           r == [tcp |-> TRUE, stash |-> f, state |-> st,
                 peer |-> x.peer, localPort |-> x.localPort]
<1>1. f \in Row
  <2>1. FreeRows \in SUBSET Row
    BY DEF FreeRows, RowsOf
  <2> QED
    BY <2>1, FirstRowIn
<1>2. x.peer \in Peer /\ x.localPort \in Nat
  BY SockFields DEF RegInv
<1>3. x.state = "CLOSED"
  BY DEF RegInv, ClosedIffGone
<1>4. st \in {"CLOSED", "LISTEN"} /\ (isHost(s) => st = "LISTEN")
  BY <1>3
<1>5. sock' = [sock EXCEPT ![s] = r]
  BY DEF Joins, Set
<1> HIDE DEF f, x, st
<1>6. r \in Socket
  BY <1>1, <1>2, <1>4 DEF Socket
<1>7. /\ r.tcp = TRUE /\ r.stash = f /\ r.state # "OPEN" /\ (isHost(s) => r.state = "LISTEN")
      /\ r.localPort = x.localPort
  BY <1>4
<1> HIDE DEF r
<1>8. /\ sock'[s] = r /\ \A t \in Sock \ {s} : sock'[t] = sock[t]
      /\ sock' \in [Sock -> Socket]
  BY <1>5, <1>6 DEF RegInv, SockTypes
<1> QED
  BY <1>1, <1>5, <1>6, <1>7, <1>8 DEF f, x

\* A socket that has its handler but no row has been touched by a direct call.
LEMMA TouchedOnly ==
    ASSUME RegInv, NEW s \in Sock, sock[s].tcp, ~IsRegistered(s)
    PROVE  s \in bypassed
<1>1. sock[s].stash \in Row
  BY DEF RegInv, StashOK
<1> QED
  BY <1>1 DEF RegInv, RegistryAgrees, IsRegistered, RowsOf

LEMMA JoinsInv ==
    ASSUME RegInv, running, NEW s \in Sock, ~IsRegistered(s), FreeRows # {},
           IF sock[s].tcp THEN UNCHANGED sock ELSE Joins(s),
           \/ TakesRow(s) /\ bypassed' = bypassed
           \/ registered' = registered /\ bypassed' = bypassed \cup {s},
           UNCHANGED <<nextPort, running>>
    PROVE  RegInv'
<1> DEFINE f == FirstRow(FreeRows)
<1>1. OnlyOf(s) /\ registered' \in [Row -> Sock \cup {NoSock}]
  <2>1. CASE TakesRow(s) /\ bypassed' = bypassed
    <3>1. /\ registered' \in [Row -> Sock \cup {NoSock}]
          /\ \A t \in Sock : IsRegistered(t)' <=> IsRegistered(t) \/ t = s
      BY <2>1, TakesRowRows DEF RegInv
    <3> QED
      BY <2>1, <3>1 DEF OnlyOf
  <2>2. CASE registered' = registered /\ bypassed' = bypassed \cup {s}
    BY <2>2 DEF OnlyOf, IsRegistered, RowsOf, Row, RegInv, SockTypes
  <2> QED
    BY <2>1, <2>2
<1>2. \/ /\ TakesRow(s) /\ bypassed' = bypassed
         /\ f \in Row /\ registered[f] = NoSock /\ registered'[f] = s
         /\ \A i \in Row \ {f} : registered'[i] = registered[i]
      \/ registered' = registered /\ bypassed' = bypassed \cup {s}
  BY TakesRowRows DEF RegInv
<1>3. \A i \in Row : registered[i] # s
  BY DEF IsRegistered, RowsOf
<1>4. NoSock \notin Sock
  BY TCPAssumption
<1>5. PICK r \in Socket :
          /\ sock' = [sock EXCEPT ![s] = r]
          /\ sock'[s] = r /\ \A t \in Sock \ {s} : sock'[t] = sock[t]
          /\ sock' \in [Sock -> Socket]
          /\ r.tcp = TRUE /\ r.stash \in Row
          /\ r.localPort = sock[s].localPort
          /\ isHost(s) => r.state # "CLOSED"
          /\ \/ r.stash = f /\ r.state # "OPEN"
             \/ r = sock[s] /\ s \in bypassed'
  <2>1. CASE ~sock[s].tcp
    <3>1. Joins(s)
      BY <2>1
    <3>2. PICK r \in Socket :
               /\ sock' = [sock EXCEPT ![s] = r]
               /\ sock'[s] = r /\ \A t \in Sock \ {s} : sock'[t] = sock[t]
               /\ sock' \in [Sock -> Socket]
               /\ r.tcp = TRUE /\ r.stash = f /\ r.stash \in Row
               /\ r.state # "OPEN" /\ (isHost(s) => r.state = "LISTEN")
               /\ r.localPort = sock[s].localPort
      BY <2>1, <3>1, JoinsRecord
    <3> QED
      BY <3>2
  <2>2. CASE sock[s].tcp
    <3>1. s \in bypassed'
      BY <1>2, <2>2, TouchedOnly
    <3>2. /\ sock' = sock /\ sock \in [Sock -> Socket] /\ sock[s] \in Socket
          /\ sock[s].tcp = TRUE /\ sock[s].stash \in Row
      BY <2>2, SockFields DEF RegInv, SockTypes, StashOK
    <3>3. isHost(s) => sock[s].state # "CLOSED"
      BY <2>2 DEF RegInv, ClosedIffGone
    <3> QED
      BY <3>1, <3>2, <3>3
  <2> QED
    BY <2>1, <2>2
<1> HIDE DEF f
<1>6. PortsOK' /\ OneConnection'
  <2>1. r.state # "OPEN" \/ (r.state = sock[s].state /\ s \in bypassed')
    BY <1>5
  <2> QED
    BY <1>1, <1>5, <2>1, NotOpenInv
<1>7. SockTypes'
  BY <1>1, <1>2, <1>5 DEF RegInv, SockTypes, Row
<1>8. StashOK'
  BY <1>5 DEF RegInv, StashOK, Row
<1>9. OneRowEach'
  BY <1>2, <1>3, <1>4 DEF RegInv, OneRowEach, Row
<1>10. RegistryAgrees'
  <2>1. ASSUME NEW i \in Row, registered'[i] # NoSock
        PROVE  sock'[registered'[i]].tcp
    BY <1>2, <1>5, <2>1 DEF RegInv, RegistryAgrees, SockTypes
  <2>2. ASSUME NEW t \in Sock \ bypassed', NEW i \in Row
        PROVE  registered'[i] = t <=> sock'[t].tcp /\ sock'[t].stash = i
    <3>1. CASE t = s
      BY <1>2, <1>3, <1>5, <2>2, <3>1
    <3>2. CASE t # s
      <4>1. t \in Sock \ bypassed /\ sock'[t] = sock[t]
        BY <1>1, <1>5, <2>2, <3>2 DEF OnlyOf
      <4>2. registered'[i] = t <=> registered[i] = t
        BY <1>2, <1>4, <2>2, <3>2
      <4> QED
        BY <4>1, <4>2 DEF RegInv, RegistryAgrees
    <3> QED
      BY <3>1, <3>2
  <2> QED
    BY <2>1, <2>2 DEF RegistryAgrees, Row
<1>11. ClosedIffGone'
  BY <1>5 DEF RegInv, ClosedIffGone, isHost
<1> QED
  BY <1>6, <1>7, <1>8, <1>9, <1>10, <1>11 DEF RegInv

\* The rows of s are cleared, and nobody else's.
LEMMA LeavesTableRows ==
    ASSUME SockTypes, NEW s \in Sock, LeavesTable(s)
    PROVE  /\ \A i \in Row : registered'[i] =
                                 IF registered[i] = s THEN NoSock ELSE registered[i]
           /\ registered' \in [Row -> Sock \cup {NoSock}]
           /\ \A t \in Sock : IsRegistered(t)' <=> IsRegistered(t) /\ t # s
<1>1. registered' = [i \in Row |-> IF registered[i] = s THEN NoSock ELSE registered[i]]
  BY DEF LeavesTable
<1>2. /\ \A i \in Row : registered'[i] =
                            IF registered[i] = s THEN NoSock ELSE registered[i]
      /\ registered' \in [Row -> Sock \cup {NoSock}]
  BY <1>1 DEF SockTypes
<1>3. \A t \in Sock : IsRegistered(t)' <=> IsRegistered(t) /\ t # s
  BY <1>2, TCPAssumption DEF IsRegistered, RowsOf, Row
<1> QED
  BY <1>2, <1>3

LEMMA LeavesTableTimer ==
    ASSUME TCPInv, NEW s \in Sock, LeavesTable(s)
    PROVE  TableInv' /\ TimerIffSockets'
<1>1. \A t \in Sock : IsRegistered(t)' <=> IsRegistered(t) /\ t # s
  BY LeavesTableRows DEF TCPInv, RegInv
<1>2. CASE LastOut(s)
  <2>1. TableInv' /\ timer'[TCP] = 0
    BY <1>2, unregisterTimerTable DEF LeavesTable, TCPInv
  <2>2. \A t \in Sock : ~IsRegistered(t)'
    <3>1. \A t \in Sock : IsRegistered(t) => t = s
      BY <1>2, TCPAssumption DEF LastOut, IsRegistered, RowsOf
    <3> QED
      BY <1>1, <3>1
  <2> QED
    BY <2>1, <2>2 DEF TimerIffSockets
<1>3. CASE ~LastOut(s)
  <2>1. TableInv' /\ timer' = timer
    BY <1>3, TableSame DEF LeavesTable, TCPInv
  <2>2. PICK i \in Row : registered[i] \in Sock /\ registered[i] # s
    BY <1>3 DEF LastOut, TCPInv, RegInv, SockTypes
  <2>3. IsRegistered(registered[i])
    BY <2>2 DEF IsRegistered, RowsOf
  <2>4. timer[TCP] # 0
    BY <2>2, <2>3 DEF TCPInv, TimerIffSockets
  <2>5. \E t \in Sock : IsRegistered(t)'
    BY <1>1, <2>2, <2>3
  <2> QED
    BY <2>1, <2>4, <2>5 DEF TimerIffSockets
<1> QED
  BY <1>2, <1>3

\* What is left of a socket that leaves: the registry agrees because the
\* socket gives up its handler, or because a direct call is on record.
LEMMA LeavesInv ==
    ASSUME RegInv, NEW s \in Sock, LeavesTable(s), NEW r \in Socket,
           sock' = [sock EXCEPT ![s] = r],
           r.localPort = sock[s].localPort, r.tcp => r = sock[s] /\ s \in bypassed',
           ~r.tcp => r.state # "OPEN" /\ (running' => r.state = "CLOSED"),
           running, running' \in BOOLEAN, bypassed' \subseteq Sock,
           \A t \in Sock \ {s} : t \in bypassed' <=> t \in bypassed,
           nextPort' = nextPort
    PROVE  RegInv'
<1>1. /\ \A i \in Row : registered'[i] = IF registered[i] = s THEN NoSock ELSE registered[i]
      /\ registered' \in [Row -> Sock \cup {NoSock}]
      /\ \A t \in Sock : IsRegistered(t)' <=> IsRegistered(t) /\ t # s
  BY LeavesTableRows DEF RegInv
<1>2. /\ sock' \in [Sock -> Socket]
      /\ sock'[s] = r /\ \A t \in Sock \ {s} : sock'[t] = sock[t]
  BY DEF RegInv, SockTypes
<1>3. NoSock \notin Sock
  BY TCPAssumption
<1>4. PortsOK' /\ OneConnection'
  <2>1. OnlyOf(s)
    BY <1>1 DEF OnlyOf
  <2>2. r.state # "OPEN" \/ (r.state = sock[s].state /\ s \in bypassed')
    OBVIOUS
  <2> QED
    BY <2>1, <2>2, NotOpenInv
<1>5. SockTypes'
  BY <1>1, <1>2 DEF RegInv, SockTypes, Row
<1>6. StashOK'
  BY <1>2 DEF RegInv, StashOK, Row
<1>7. OneRowEach'
  BY <1>1 DEF RegInv, OneRowEach, Row
<1>8. RegistryAgrees'
  <2>1. ASSUME NEW i \in Row, registered'[i] # NoSock
        PROVE  sock'[registered'[i]].tcp
    BY <1>1, <1>2, <2>1 DEF RegInv, RegistryAgrees, SockTypes
  <2>2. ASSUME NEW t \in Sock \ bypassed', NEW i \in Row
        PROVE  registered'[i] = t <=> sock'[t].tcp /\ sock'[t].stash = i
    <3>1. CASE t = s
      <4>1. ~r.tcp
        BY <2>2, <3>1
      <4>2. registered'[i] # s
        BY <1>1, <1>3
      <4> QED
        BY <1>2, <3>1, <4>1, <4>2
    <3>2. CASE t # s
      <4>1. t \in Sock \ bypassed /\ sock'[t] = sock[t]
        BY <1>2, <2>2, <3>2
      <4>2. registered'[i] = t <=> registered[i] = t
        BY <1>1, <1>3, <2>2, <3>2
      <4> QED
        BY <4>1, <4>2 DEF RegInv, RegistryAgrees
    <3> QED
      BY <3>1, <3>2
  <2> QED
    BY <2>1, <2>2 DEF RegistryAgrees, Row
<1>9. ClosedIffGone'
  <2>1. isHost(s) /\ r.tcp => r.state # "CLOSED"
    BY DEF RegInv, ClosedIffGone
  <2> QED
    BY <1>2, <2>1 DEF RegInv, ClosedIffGone, isHost
<1> QED
  BY <1>4, <1>5, <1>6, <1>7, <1>8, <1>9 DEF RegInv

-----------------------------------------------------------------------------
(* TCPInv is inductive.                                                    *)

LEMMA RegistersInv ==
    ASSUME TCPInv, running, NEW s \in Sock, registerTCPHandler(s) \/ registerSocket(s)
    PROVE  TCPInv'
<1>1. /\ RegInv' /\ LoopTypes'
  <2>1. /\ ~IsRegistered(s) /\ FreeRows # {}
        /\ IF sock[s].tcp THEN UNCHANGED sock ELSE Joins(s)
        /\ \/ TakesRow(s) /\ bypassed' = bypassed
           \/ registered' = registered /\ bypassed' = bypassed \cup {s}
        /\ UNCHANGED <<nextPort, running>> /\ UNCHANGED <<visit, callback, others>>
    BY DEF registerTCPHandler, registerSocket
  <2> QED
    BY <2>1, JoinsInv, LoopSame DEF TCPInv
<1>2. CASE HasTimer /\ TakesRow(s)
  <2>1. TableInv' /\ timer'[TCP] # 0
    BY <1>2, HasTimerTable DEF TCPInv
  <2>2. IsRegistered(s)'
    <3>1. FreeRows # {} /\ SockTypes
      BY DEF registerTCPHandler, registerSocket, TCPInv, RegInv
    <3> QED
      BY <1>2, <3>1, TakesRowRows
  <2> QED
    BY <1>1, <2>1, <2>2 DEF TCPInv, TimerIffSockets
<1>3. CASE UNCHANGED etherVars /\ UNCHANGED registered
  <2>1. \A t \in Sock : IsRegistered(t)' = IsRegistered(t)
    BY <1>3 DEF IsRegistered, RowsOf, Row
  <2> QED
    BY <1>1, <1>3, <2>1, SocketStep
<1> QED
  BY <1>2, <1>3 DEF registerTCPHandler, registerSocket

LEMMA unregisterSocketInv ==
    ASSUME TCPInv, running, NEW s \in Sock, unregisterSocket(s)
    PROVE  TCPInv'
<1>1. /\ LeavesTable(s) /\ IsRegistered(s) /\ bypassed' = bypassed \cup {s}
      /\ UNCHANGED <<sock, nextPort, running>> /\ UNCHANGED <<visit, callback, others>>
  BY DEF unregisterSocket
<1>2. sock[s] \in Socket /\ sock' = [sock EXCEPT ![s] = sock[s]] /\ running \in BOOLEAN
      /\ bypassed' \subseteq Sock
  BY <1>1 DEF TCPInv, RegInv, SockTypes
<1>3. sock[s].tcp
  BY <1>1, TCPAssumption DEF TCPInv, RegInv, RegistryAgrees, IsRegistered, RowsOf
<1>4. RegInv'
  <2>1. \A t \in Sock \ {s} : t \in bypassed' <=> t \in bypassed
    BY <1>1
  <2> QED
    BY <1>1, <1>2, <1>3, <2>1, LeavesInv DEF TCPInv
<1> QED
  BY <1>1, <1>4, LeavesTableTimer, LoopSame DEF TCPInv

LEMMA unregisterTCPHandlerInv ==
    ASSUME TCPInv, running, NEW s \in Sock, unregisterTCPHandler(s)
    PROVE  TCPInv'
<1>1. /\ LeavesTable(s) /\ nextPort' = nextPort /\ UNCHANGED <<visit, callback, others>>
      /\ \/ /\ Set(s, FALSE, 0, closed(s, FALSE)) /\ running' = running
            /\ bypassed' = bypassed \ {s}
         \/ /\ Set(s, FALSE, 0, closed(s, TRUE)) /\ running' = FALSE
            /\ bypassed' = bypassed
  BY DEF unregisterTCPHandler
<1>2. \E r \in Socket :
          /\ sock' = [sock EXCEPT ![s] = r]
          /\ r.localPort = sock[s].localPort /\ ~r.tcp
          /\ r.state # "OPEN" /\ (running' => r.state = "CLOSED")
  <2> DEFINE x == sock[s]
             record(st) == [tcp |-> FALSE, stash |-> 0, state |-> st,
                            peer |-> x.peer, localPort |-> x.localPort]
  <2>1. x.peer \in Peer /\ x.localPort \in Nat
    BY SockFields DEF TCPInv, RegInv
  <2>2. ASSUME NEW st \in {"CLOSED", "LISTEN"}
        PROVE  /\ record(st) \in Socket /\ ~record(st).tcp
               /\ record(st).state = st /\ record(st).localPort = x.localPort
    BY <2>1 DEF Socket
  <2>3. \E st \in {"CLOSED", "LISTEN"} :
            sock' = [sock EXCEPT ![s] = record(st)] /\ (running' => st = "CLOSED")
    <3>1. closed(s, FALSE) = "CLOSED" /\ closed(s, TRUE) \in {"CLOSED", "LISTEN"}
      BY DEF closed
    <3> QED
      BY <1>1, <3>1 DEF Set
  <2> HIDE DEF record
  <2> QED
    BY <2>2, <2>3
<1>3. PICK r \in Socket :
          /\ sock' = [sock EXCEPT ![s] = r]
          /\ r.localPort = sock[s].localPort /\ ~r.tcp
          /\ r.state # "OPEN" /\ (running' => r.state = "CLOSED")
  BY <1>2
<1>4. RegInv'
  <2>1. /\ running' \in BOOLEAN /\ bypassed' \subseteq Sock
        /\ \A t \in Sock \ {s} : t \in bypassed' <=> t \in bypassed
    BY <1>1 DEF TCPInv, RegInv, SockTypes
  <2> QED
    BY <1>1, <1>3, <2>1, LeavesInv DEF TCPInv
<1> QED
  BY <1>1, <1>4, LeavesTableTimer, LoopSame DEF TCPInv

LEMMA TCPInitInv == TCPInit => TCPInv
<1> SUFFICES ASSUME TCPInit PROVE TCPInv
  OBVIOUS
<1>1. TableInv /\ timer[TCP] = 0
  BY TimerInit, TCPDelay DEF TCPInit, TimerInv, TableInv, EtherInit
<1>2. LoopTypes
  <2>1. visit = 0 /\ callback = FALSE /\ others = 0
    BY DEF TCPInit
  <2>2. SocketCapacity \in Nat /\ MaxOthers \in Nat
    BY TCPAssumption
  <2>3. visit \in 0 .. SocketCapacity + 1 /\ others \in 0 .. MaxOthers
    BY <2>1, <2>2
  <2> QED
    BY <2>1, <2>3 DEF LoopTypes
<1>3. \A s \in Sock : /\ sock[s].tcp = FALSE /\ sock[s].stash = 0 /\ sock[s].state = "CLOSED"
                      /\ sock[s].peer = Server[s] /\ sock[s].localPort = ListenPort[s]
  BY DEF TCPInit
<1>4. \A i \in Row : registered[i] = NoSock
  BY DEF TCPInit
<1>5. SockTypes
  <2>1. ASSUME NEW s \in Sock
        PROVE  [tcp |-> FALSE, stash |-> 0, state |-> "CLOSED",
                peer |-> Server[s], localPort |-> ListenPort[s]] \in Socket
    BY TCPAssumption DEF Socket
  <2> QED
    BY <2>1, TCPAssumption DEF TCPInit, SockTypes
<1>6. StashOK /\ ClosedIffGone
  BY <1>3 DEF StashOK, ClosedIffGone
<1>7. PortsOK /\ OneConnection
  BY <1>3, TCPAssumption DEF TCPInit, PortsOK, HostPorts, ClientPorts, PortsDiffer,
     OpenClients, OneConnection
<1>8. OneRowEach /\ RegistryAgrees
  BY <1>3, <1>4, TCPAssumption DEF OneRowEach, RegistryAgrees
<1>9. TimerIffSockets
  BY <1>1, <1>4, TCPAssumption DEF TimerIffSockets, IsRegistered, RowsOf
<1> QED
  BY <1>1, <1>2, <1>5, <1>6, <1>7, <1>8, <1>9 DEF TCPInv, RegInv

LEMMA TCPNextInv ==
    ASSUME TCPInv, [TCPNext]_tcpVars
    PROVE  TCPInv'
<1>1. CASE running /\ Application
  <2>1. PICK s \in Sock :
            \/ registerTCPHandler(s) \/ registerSocket(s)
            \/ unregisterTCPHandler(s) \/ unregisterSocket(s)
            \/ connect(s) \/ forceClose(s)
    BY <1>1 DEF Application
  <2> QED
    BY <1>1, <2>1, RegistersInv, unregisterTCPHandlerInv, unregisterSocketInv, SocketsInv
<1>2. CASE running /\ \E p \in Peer, port \in 1 .. MaxPort : handlePacket(p, port)
  BY <1>2, SocketsInv
<1>3. CASE Visits
  BY <1>3, QuietVisits, CheckSocketInv DEF Visits
<1>4. CASE (running /\ Devices) \/ TCPRound \/ (running /\ Elapse)
  BY <1>4, DevicesInv
<1>5. CASE UNCHANGED tcpVars
  <2>1. /\ UNCHANGED etherVars /\ UNCHANGED <<visit, callback, others>>
        /\ UNCHANGED <<registered, sock, bypassed, nextPort, running>>
    BY <1>5 DEF tcpVars, sockVars
  <2> QED
    BY <2>1, QuietInv, TableSame, LoopSame DEF TCPInv
<1> QED
  BY <1>1, <1>2, <1>3, <1>4, <1>5 DEF TCPNext

\* TCPInv is inductive, whatever sockets register and leave by either call,
\* connect, close and are checked, and whatever the other handlers do.
THEOREM TCPInductive == TCPSpec => []TCPInv
  BY TCPInitInv, TCPNextInv, PTL DEF TCPSpec

\* The table of sockets, their fields, the loop over them and the table of
\* timers keep their types.
THEOREM TCPTypeCorrect == TCPSpec => []TCPTypeOK
<1>1. TCPInv => TCPTypeOK
  BY DEF TCPInv, TCPTypeOK, RegInv, SockTypes, LoopTypes, TableInv, TableOK, TimerTypeOK,
     Indices, Rounds
<1> QED
  BY <1>1, TCPInductive, PTL

\* registerSocket() and registerTCPHandler() call each other and either may
\* come first, yet no socket gets a second row, in tables of any size.
THEOREM RowsAreOwn == TCPSpec => []OneRowEach
<1>1. TCPInv => OneRowEach
  BY DEF TCPInv, RegInv
<1> QED
  BY <1>1, TCPInductive, PTL

\* Whatever sockets come and go, also from callbacks, each socket in the table
\* has its handler, and the table and the sockets agree on who has which stash
\* as long as the application uses the calls of the socket.
THEOREM BothSidesAgree == TCPSpec => []RegistryAgrees
<1>1. TCPInv => RegistryAgrees
  BY DEF TCPInv, RegInv
<1> QED
  BY <1>1, TCPInductive, PTL

\* The timer of the TCPHandler comes with the first socket and goes with the
\* last, although nobody keeps a count of them, and although the other
\* handlers may have taken the last slot.
THEOREM TimerFollowsSockets == TCPSpec => []TimerIffSockets
<1>1. TCPInv => TimerIffSockets
  BY DEF TCPInv
<1> QED
  BY <1>1, TCPInductive, PTL

\* A host with a handler is never CLOSED, and a socket that has left is, if the
\* read through the NULL handler does no harm.
THEOREM ClosedWhenGone == TCPSpec => []ClosedIffGone
<1>1. TCPInv => ClosedIffGone
  BY DEF TCPInv, RegInv
<1> QED
  BY <1>1, TCPInductive, PTL

\* The order in which handlePacket() asks the sockets keeps connections apart,
\* for any hosts that share a port and any peers.
THEOREM ConnectionsAreOne == TCPSpec => []OneConnection
<1>1. TCPInv => OneConnection
  BY DEF TCPInv, RegInv
<1> QED
  BY <1>1, TCPInductive, PTL

====================================================================
