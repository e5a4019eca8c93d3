----------------------------- MODULE TCPHandler -----------------------------
(***************************************************************************)
(* The registry of TCPHandler.h / TCPHandler.cpp: several sockets in one   *)
(* device, the row and the stash of each, the dispatch of segments among   *)
(* them, and the one timer that they share.  A socket and its handler name *)
(* each other, and both sides are kept by hand.                            *)
(*                                                                         *)
(* What a connection does is in Socket; here a socket is CLOSED, LISTEN or *)
(* OPEN, which stands for the other states.  Sockets have numeric remote   *)
(* addresses; a Peer is an address and a port.  The application acts       *)
(* outside the loop over the timers, and inside it from the callbacks of a *)
(* socket that handleTimer() has called.                                   *)
(***************************************************************************)
EXTENDS EtherControl

CONSTANTS
    TCP,            \* the TCPHandler's own timer handler
    CheckDelay,     \* the 1000 that its timer is registered with
    Sock,           \* the Socket objects of the application
    NoSock,         \* the NULL of a free row
    SocketCapacity,
    ListenPort,     \* ListenPort[s]: 0 for a client
    Peer,           \* remote addresses with a port
    Server,         \* Server[s]: whom a client connects to
    FirstPort,      \* nextPort of the IPHandler at the start
    MaxPort,        \* bound: connect() stops there
    MaxOthers       \* bound: registrations of timers by the other handlers

ASSUME TCPAssumption ==
    /\ TCP \in Handler /\ CheckDelay \in Nat
    /\ NoSock \notin Sock
    /\ SocketCapacity \in Nat
    /\ ListenPort \in [Sock -> Nat] /\ Server \in [Sock -> Peer]
    /\ FirstPort \in Nat /\ MaxPort \in Nat /\ MaxOthers \in Nat
    \* getPort() counts on through listening ports without looking; here it
    \* starts above them.
    /\ \A s \in Sock : ListenPort[s] < FirstPort

VARIABLES
    registered, \* registeredSockets[i].socket
    sock,       \* the fields of the sockets that the registry depends on
    nextPort,   \* of the IPHandler
    visit,      \* i + 1 of handleTimer()'s loop, 0 outside
    callback,   \* the socket called last in that loop may be in a callback
    running,    \* FALSE after undefined behaviour that did harm
    bypassed,   \* history: sockets that a call of the TCPHandler itself has
                \* left at odds with the registry
    others      \* registrations of the other handlers so far

sockVars == <<registered, sock, bypassed>>
tcpVars == <<etherVars, sockVars, nextPort, visit, callback, running, others>>

Row == 1 .. SocketCapacity
Socket == [tcp : BOOLEAN, stash : Row \cup {0}, state : {"CLOSED", "LISTEN", "OPEN"},
           peer : Peer, localPort : Nat]

isHost(s) == ListenPort[s] > 0

RowsOf(s) == {i \in Row : registered[i] = s}
FreeRows == RowsOf(NoSock)
FirstRow(S) == CHOOSE i \in S : \A j \in S : i <= j

\* (mutant of IsRegistered: the table is not searched for the socket first)
NeverFound(s) == FALSE
IsRegistered(s) == RowsOf(s) # {}

TCPInit ==
    /\ EtherInit
    /\ registered = [i \in Row |-> NoSock]
    /\ sock = [s \in Sock |-> [tcp |-> FALSE, stash |-> 0, state |-> "CLOSED",
                               peer |-> Server[s], localPort |-> ListenPort[s]]]
    /\ nextPort = FirstPort
    /\ visit = 0 /\ callback = FALSE
    /\ running = TRUE
    /\ bypassed = {}
    /\ others = 0

\* The application is in control between two frames and in a callback.
InApplication == Idle(eth) \/ callback

\* What a call leaves of the fields of s that belong to its registration.
Set(s, tcp, stash, state) ==
    sock' = [sock EXCEPT ![s] =
        [tcp |-> tcp, stash |-> stash, state |-> state,
         peer |-> sock[s].peer, localPort |-> sock[s].localPort]]

-----------------------------------------------------------------------------
(* Registration, by a call of the socket or of the handler.                *)

\* Socket::registerTCPHandler() when the handler has given it a row: the stash
\* is that of the row, and a host listens at once, whatever its state was.
\* (mutant of Joins: every socket gets the first stash)
FirstStash(s) == Set(s, TRUE, 1, IF isHost(s) THEN "LISTEN" ELSE sock[s].state)
Joins(s) ==
    Set(s, TRUE, FirstRow(FreeRows), IF isHost(s) THEN "LISTEN" ELSE sock[s].state)

TakesRow(s) == registered' = [registered EXCEPT ![FirstRow(FreeRows)] = s]

\* The timer comes with the first socket, if the table of timers has a slot.
NoTimerLeft == timer[TCP] = 0 /\ Free(eth) = {}
HasTimer ==
    IF timer[TCP] # 0 THEN UNCHANGED etherVars
    ELSE Free(eth) # {} /\ HasRegistered(TCP, CheckDelay, eth)

\* s.registerTCPHandler(tcp): a call that fails changes nothing.
registerTCPHandler(s) ==
    /\ InApplication
    /\ ~sock[s].tcp /\ ~IsRegistered(s) /\ FreeRows # {}
    /\ HasTimer
    /\ TakesRow(s)
    /\ Joins(s)
    /\ UNCHANGED <<nextPort, visit, callback, running, bypassed, others>>

\* tcp.registerSocket(s): a socket that has the handler already keeps its
\* stash, and one that gets no timer keeps the handler without a row.
registerSocket(s) ==
    /\ InApplication
    /\ ~IsRegistered(s) /\ FreeRows # {}
    /\ IF sock[s].tcp THEN UNCHANGED sock ELSE Joins(s)
    /\ \/ HasTimer /\ TakesRow(s) /\ UNCHANGED bypassed
       \/ /\ NoTimerLeft
          /\ bypassed' = bypassed \cup {s}
          /\ UNCHANGED <<etherVars, registered>>
    /\ UNCHANGED <<nextPort, visit, callback, running, others>>

-----------------------------------------------------------------------------
(* Removal.                                                                *)

\* closed(): a host that has its handler listens again.
\* (mutant of closed: a host listens again in any case)
AlwaysListens(s, tcp) == IF isHost(s) THEN "LISTEN" ELSE "CLOSED"
closed(s, tcp) == IF tcp /\ isHost(s) THEN "LISTEN" ELSE "CLOSED"

\* No row is left when those of s are cleared, which is also so if none was
\* taken.
\* (mutant of LastOut: the rows that were free before are not counted)
FreeNotCounted(s) == \A i \in Row : registered[i] = s
LastOut(s) == \A i \in Row : registered[i] \in {s, NoSock}

unregisterTimer ==
    IF timer[TCP] # 0 THEN HasUnregistered(TCP, eth) ELSE UNCHANGED etherVars

LeavesTable(s) ==
    /\ registered' = [i \in Row |-> IF registered[i] = s THEN NoSock ELSE registered[i]]
    /\ IF LastOut(s) THEN unregisterTimer ELSE UNCHANGED etherVars

\* tcp.unregisterSocket(s): the socket keeps its handler, its stash and its
\* connection.
unregisterSocket(s) ==
    /\ InApplication
    /\ IsRegistered(s)
    /\ LeavesTable(s)
    /\ bypassed' = bypassed \cup {s}
    /\ UNCHANGED <<sock, nextPort, visit, callback, running, others>>

\* s.unregisterTCPHandler().  unregisterTimer(0) looks at the slot before the
\* table if there is no timer, and the second forceClose() reads through the
\* handler pointer that has just been cleared.  If the program survives that,
\* the socket is closed.
unregisterTCPHandler(s) ==
    /\ InApplication
    /\ sock[s].tcp
    /\ LeavesTable(s)
    /\ \/ /\ Set(s, FALSE, 0, closed(s, FALSE))
          /\ running' = running /\ bypassed' = bypassed \ {s}
       \/ /\ Set(s, FALSE, 0, closed(s, TRUE))
          /\ running' = FALSE /\ UNCHANGED bypassed
    /\ UNCHANGED <<nextPort, visit, callback, others>>

-----------------------------------------------------------------------------
(* The sockets themselves.                                                 *)

connect(s) ==
    /\ InApplication
    /\ ~isHost(s) /\ sock[s].state = "CLOSED" /\ sock[s].tcp
    /\ nextPort <= MaxPort /\ nextPort' = nextPort + 1
    /\ sock' = [sock EXCEPT ![s] = [tcp |-> TRUE, stash |-> sock[s].stash, state |-> "OPEN",
                                    peer |-> Server[s], localPort |-> nextPort]]
    /\ UNCHANGED <<etherVars, registered, visit, callback, running, bypassed, others>>

Closes(s) == Set(s, sock[s].tcp, sock[s].stash, closed(s, sock[s].tcp))

forceClose(s) ==
    /\ InApplication
    /\ sock[s].state = "OPEN"
    /\ Closes(s)
    /\ UNCHANGED <<etherVars, registered, nextPort, visit, callback, running, bypassed, others>>

\* handlePacket(): the first socket with the connection, else the first that
\* listens on the port.
Connections(p, port) ==
    {i \in Row : \E s \in Sock : /\ registered[i] = s /\ sock[s].state = "OPEN"
                                 /\ sock[s].peer = p /\ sock[s].localPort = port}
Listeners(port) ==
    {i \in Row : \E s \in Sock : /\ registered[i] = s /\ sock[s].state = "LISTEN"
                                 /\ isHost(s) /\ ListenPort[s] = port}

\* A segment of a connection leaves it open or ends it.
SegmentOf(p, port) ==
    /\ Connections(p, port) # {}
    /\ Closes(registered[FirstRow(Connections(p, port))])

\* (mutant of SynFor: listening sockets are asked before connections)
ListenersFirst(p, port) ==
    /\ Listeners(port) # {}
    /\ LET s == registered[FirstRow(Listeners(port))]
       IN  sock' = [sock EXCEPT ![s] = [tcp |-> sock[s].tcp, stash |-> sock[s].stash,
                                        state |-> "OPEN", peer |-> p, localPort |-> ListenPort[s]]]
SynFor(p, port) ==
    /\ Connections(p, port) = {} /\ Listeners(port) # {}
    /\ LET s == registered[FirstRow(Listeners(port))]
       IN  sock' = [sock EXCEPT ![s] = [tcp |-> sock[s].tcp, stash |-> sock[s].stash,
                                        state |-> "OPEN", peer |-> p, localPort |-> sock[s].localPort]]

handlePacket(p, port) ==
    /\ Idle(eth)
    /\ SegmentOf(p, port) \/ SynFor(p, port)
    /\ UNCHANGED <<etherVars, registered, nextPort, visit, callback, running, bypassed, others>>

-----------------------------------------------------------------------------
(* handleTimer(): checkState() of each socket in turn.                     *)

visitVars == <<visit, callback>>
restVars == <<registered, nextPort, running, bypassed, others>>

BeginVisits ==
    /\ Calling(TCP) /\ visit = 0
    /\ visit' = 1 /\ callback' = FALSE
    /\ UNCHANGED <<etherVars, sock, restVars>>

\* Only a socket that is open may call back.
CheckSocket ==
    /\ visit \in Row /\ registered[visit] # NoSock
    /\ LET s == registered[visit]
       IN  /\ callback' = (sock[s].state = "OPEN")
           /\ \/ UNCHANGED sock
              \/ sock[s].state = "OPEN" /\ Closes(s)
    /\ visit' = visit + 1
    /\ UNCHANGED <<etherVars, restVars>>

\* (mutant of SkipRow: the loop ends at the first free row)
EndsAtFreeRow ==
    /\ visit \in Row /\ registered[visit] = NoSock
    /\ visit' = SocketCapacity + 1 /\ callback' = FALSE
    /\ UNCHANGED <<etherVars, sock, restVars>>
SkipRow ==
    /\ visit \in Row /\ registered[visit] = NoSock
    /\ visit' = visit + 1 /\ callback' = FALSE
    /\ UNCHANGED <<etherVars, sock, restVars>>

EndVisits ==
    /\ visit > SocketCapacity
    /\ eth' = Returned(eth)
    /\ visit' = 0 /\ callback' = FALSE
    /\ UNCHANGED <<timer, round, sock, restVars>>

Visits == running /\ (BeginVisits \/ CheckSocket \/ SkipRow \/ EndVisits)

-----------------------------------------------------------------------------
(* The other handlers of the device, and time.                             *)

Other == Handler \ {TCP}

\* A handler registers its timer when the application calls it, or when a
\* socket that sends needs its service.
OtherRegister(h) ==
    /\ Idle(eth) \/ visit # 0
    /\ timer[h] = 0
    /\ others < MaxOthers /\ others' = others + 1
    /\ \E d \in Delays[h] : HasRegistered(h, d, eth)
    /\ UNCHANGED <<sockVars, nextPort, visitVars, running>>

OtherTimer(h) ==
    /\ Calling(h) /\ visit = 0
    /\ \/ eth' = Returned(eth) /\ UNCHANGED <<timer, round>>
       \/ timer[h] # 0 /\ HasUnregistered(h, Returned(eth))
    /\ UNCHANGED <<sockVars, nextPort, visitVars, running, others>>

TCPRound ==
    /\ running /\ Round
    /\ UNCHANGED <<sockVars, nextPort, visitVars, running, others>>

Elapse ==
    /\ Used(eth) # DueSlots(eth)
    /\ eth' = Aged(eth)
    /\ UNCHANGED <<timer, round, sockVars, nextPort, visitVars, running, others>>

Application ==
    \E s \in Sock :
        \/ registerTCPHandler(s) \/ registerSocket(s)
        \/ unregisterTCPHandler(s) \/ unregisterSocket(s)
        \/ connect(s) \/ forceClose(s)

Devices == \E h \in Other : OtherRegister(h) \/ OtherTimer(h)

TCPNext ==
    \/ running /\ Application
    \/ running /\ \E p \in Peer, port \in 1 .. MaxPort : handlePacket(p, port)
    \/ Visits
    \/ running /\ Devices
    \/ TCPRound
    \/ running /\ Elapse

TCPSpec == TCPInit /\ [][TCPNext]_tcpVars

\* loop() calls processFrame() for ever, which runs its loop over the timers
\* and handleTimer()'s over the sockets to the end; time passes.
TCPFairSpec ==
    /\ TCPSpec
    /\ WF_tcpVars(TCPRound)
    /\ WF_tcpVars(Visits)
    /\ \A h \in Other : WF_tcpVars(running /\ OtherTimer(h))
    /\ WF_tcpVars(running /\ Elapse)

-----------------------------------------------------------------------------
(* Properties.                                                             *)

TCPTypeOK ==
    /\ TimerTypeOK
    /\ registered \in [Row -> Sock \cup {NoSock}]
    /\ sock \in [Sock -> Socket]
    /\ nextPort \in Nat
    /\ visit \in 0 .. SocketCapacity + 1 /\ callback \in BOOLEAN
    /\ running \in BOOLEAN
    /\ bypassed \subseteq Sock
    /\ others \in 0 .. MaxOthers

\* A socket has one row at most, whichever of the two calls registers it, so
\* that it is checked once a second and unregistered entirely.
OneRowEach ==
    \A i, j \in Row : registered[i] = registered[j] /\ registered[i] # NoSock => i = j

\* TCPHandler.cpp:19-24: every socket in the table has its handler, so that
\* checkState() and handleSegment() find one; and unless a direct call of the
\* TCPHandler came between, the two sides agree on the row and the stash.
RegistryAgrees ==
    /\ \A i \in Row : registered[i] # NoSock => sock[registered[i]].tcp
    /\ \A s \in Sock \ bypassed, i \in Row :
          registered[i] = s <=> sock[s].tcp /\ sock[s].stash = i

\* TCPHandler.cpp:187: there is a timer as long as there are sockets, and none
\* takes a slot when the last one has left, counted anew by each call.
TimerIffSockets == timer[TCP] # 0 <=> \E s \in Sock : IsRegistered(s)

\* TCPHandler.cpp:26-61: a host that has its handler listens or is connected,
\* and a socket without a handler is closed.
ClosedIffGone ==
    \A s \in Sock :
        /\ isHost(s) /\ sock[s].tcp => sock[s].state # "CLOSED"
        /\ running /\ ~sock[s].tcp => sock[s].state = "CLOSED"

\* TCPHandler.cpp:5-6: the addresses and ports of a connection define its
\* socket; no two sockets in the table ever have the same, so that the first
\* one that handlePacket() finds is the one.
OneConnection ==
    \A s, t \in Sock \ bypassed :
        /\ IsRegistered(s) /\ IsRegistered(t)
        /\ sock[s].state = "OPEN" /\ sock[t].state = "OPEN"
        /\ sock[s].peer = sock[t].peer /\ sock[s].localPort = sock[t].localPort
        => s = t

\* Every socket in the table is checked again and again, whoever comes and
\* goes around it, also from the callbacks of other sockets in the same round.
SocketsChecked ==
    \A s \in Sock :
        []<>(\/ visit \in Row /\ registered[visit] = s
             \/ ~IsRegistered(s) \/ ~running)

=============================================================================
