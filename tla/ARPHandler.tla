----------------------------- MODULE ARPHandler -----------------------------
(***************************************************************************)
(* The routing table of ARPHandler.h / ARPHandler.cpp: lookups of MAC      *)
(* addresses that a timer shared with DNSHandler and TCPHandler repeats.   *)
(*                                                                         *)
(* A frame is handed to handlePayload() and the application calls          *)
(* requestMACAddress() outside the loop over the timers; a socket that     *)
(* sends again may also call it from TCPHandler's handleTimer(), inside.   *)
(* The network loses, delays and repeats answers.  MAC addresses do not    *)
(* matter to what is checked, and requests to us change no state.          *)
(***************************************************************************)
EXTENDS EtherControl

CONSTANTS
    ARP,            \* the ARPHandler's own timer handler; the others are the
                    \* other handlers of the device
    IP,             \* the addresses asked for
    Present,        \* those that somebody has
    NoIP,           \* 0.0.0.0
    RoutingTableSize,
    MaxLookups,     \* 5 in handleTimer()
    LookupWait,     \* the 250 of handleTimer()
    LookupDelay,    \* the 250 that the timer is registered with
    MaxOthers       \* bound: registrations of timers by the other handlers

ASSUME ARPAssumption ==
    /\ ARP \in Handler /\ LookupDelay \in Delays[ARP]
    /\ NoIP \notin IP /\ Present \subseteq IP
    /\ RoutingTableSize \in Nat \ {0} /\ MaxLookups \in Nat \ {0}
    /\ LookupWait \in Nat /\ MaxOthers \in Nat

VARIABLES
    route,  \* routingTable
    asked,  \* addresses an ARP request has been broadcast for: answers may come
    others  \* registrations of the other handlers so far

arpVars == <<etherVars, route, asked, others>>

Row == 1 .. RoutingTableSize

\* lookupStatus is a bit for resolved and a count of attempts.  age is
\* host_millis() - lookupTime, counted as far as handleTimer() compares it.
Route == [ip : IP \cup {NoIP}, resolved : BOOLEAN, count : 0 .. MaxLookups,
          age : 0 .. LookupWait]
NoRoute == [ip |-> NoIP, resolved |-> FALSE, count |-> 0, age |-> 0]

IsActive(r) == ~r.resolved /\ r.count > 0
IsFree(r) == ~r.resolved /\ r.count = 0

\* (mutant of SETATTEMPTCOUNT: the bit for resolved is not kept)
LosesResolved(r, value) == [r EXCEPT !.count = value, !.resolved = FALSE]
SETATTEMPTCOUNT(r, value) == [r EXCEPT !.count = value]

ActiveRows == {i \in Row : IsActive(route[i])}

ARPInit ==
    /\ EtherInit
    /\ route = [i \in Row |-> NoRoute]
    /\ asked = {}
    /\ others = 0

-----------------------------------------------------------------------------
(* requestMACAddress() and getMACAddress().                                *)

Rows(ip) == {i \in Row : route[i].ip = ip}
LookedUp(ip) == \E i \in Rows(ip) : ~route[i].resolved
KnownMAC(ip) == \E i \in Rows(ip) : route[i].resolved

\* The row of a request: the last one with the address, else the first free.
\* (mutant of RowFor: the table is not searched for the address)
AlwaysNewRow(ip, i) == IsFree(route[i]) /\ \A j \in Row : IsFree(route[j]) => i <= j
RowFor(ip, i) ==
    \/ i \in Rows(ip) /\ \A j \in Rows(ip) : j <= i
    \/ /\ Rows(ip) = {}
       /\ IsFree(route[i]) /\ \A j \in Row : IsFree(route[j]) => i <= j

\* sendARPRequest(): a broadcast, to which answers may come from now on.
sendARPRequest(ips) == asked' = asked \cup ips

\* An address already looked up is not asked for again; one that is resolved
\* is, and stays resolved.  Without a free row or a timer nothing happens.
\* e is the table of timers at the call.
RequestOn(ip, e) ==
    LET Start(i) ==
          /\ route' = [route EXCEPT ![i] = [SETATTEMPTCOUNT(@, 1) EXCEPT !.ip = ip, !.age = 0]]
          /\ sendARPRequest({ip})
        NoTimer == timer[ARP] = 0 /\ Free(e) = {}
        i == CHOOSE j \in Row : RowFor(ip, j)
    IN  /\ UNCHANGED round
        /\ IF LookedUp(ip) \/ (\A j \in Row : ~RowFor(ip, j)) \/ NoTimer
           THEN UNCHANGED <<timer, route, asked>> /\ eth' = e
           ELSE /\ Start(i)
                /\ IF timer[ARP] = 0
                   THEN /\ eth' = Registered(e, ARP, LookupDelay)
                        /\ timer' = [timer EXCEPT ![ARP] = NewIndex(e)]
                   ELSE eth' = e /\ UNCHANGED timer

requestMACAddress(ip) ==
    /\ Idle(eth)
    /\ RequestOn(ip, eth)
    /\ UNCHANGED others

-----------------------------------------------------------------------------
(* handlePayload(), for an ARP response to us.                             *)

Response(ip) ==
    /\ Idle(eth)
    /\ ip \in asked \cap Present
    /\ \E i \in Rows(ip) :
         /\ \A j \in Rows(ip) : i <= j
         /\ route' = [route EXCEPT ![i].resolved = TRUE]
    /\ UNCHANGED <<etherVars, asked, others>>

-----------------------------------------------------------------------------
(* handleTimer().                                                          *)

Expired(i) == i \in ActiveRows /\ route[i].age >= LookupWait

\* (mutant of AfterTimer: the attempt is sent but not counted)
NeverForgets(i) == IF ~Expired(i) THEN route[i] ELSE [route[i] EXCEPT !.age = 0]
\* (mutant of AfterTimer: the limit is compared with > instead of >=)
OneAttemptMore(i) ==
    IF ~Expired(i) THEN route[i]
    ELSE IF route[i].count > MaxLookups THEN NoRoute
    ELSE [route[i] EXCEPT !.count = @ + 1, !.age = 0]
AfterTimer(i) ==
    IF ~Expired(i) THEN route[i]
    ELSE IF route[i].count >= MaxLookups THEN NoRoute
    ELSE [SETATTEMPTCOUNT(route[i], route[i].count + 1) EXCEPT !.age = 0]

SentAgain == {route[i].ip : i \in {j \in Row : Expired(j) /\ route[j].count < MaxLookups}}

\* (mutant of TimerIsDone: rows whose lookup has not expired are not counted)
NothingExpired == \A i \in Row : ~Expired(i)
TimerIsDone == ActiveRows = {}

\* (mutant of DropTimer: the index is not reset)
KeepsIndex == eth' = Unregistered(Returned(eth), timer[ARP]) /\ UNCHANGED <<timer, round>>
DropTimer == HasUnregistered(ARP, Returned(eth))

\* The timer goes when a round finds no lookup under way: the round that
\* forgets the last one has still counted it.
HandleLookups ==
    /\ Calling(ARP)
    /\ route' = [i \in Row |-> AfterTimer(i)]
    /\ sendARPRequest(SentAgain)
    /\ IF TimerIsDone /\ timer[ARP] # 0
       THEN DropTimer
       ELSE eth' = Returned(eth) /\ UNCHANGED <<timer, round>>
    /\ UNCHANGED others

-----------------------------------------------------------------------------
(* The other handlers of the device.                                       *)

Other == Handler \ {ARP}

OtherRegister(h) ==
    /\ others < MaxOthers /\ others' = others + 1
    /\ Register(h)
    /\ UNCHANGED <<route, asked>>

OtherUnregister(h) ==
    /\ Unregister(h)
    /\ UNCHANGED <<route, asked, others>>

\* Its handleTimer() may give its timer up, or send a segment that needs a
\* MAC address.
OtherTimer(h) ==
    /\ Calling(h)
    /\ \/ RequestOn(NoIP, Returned(eth))
       \/ \E ip \in IP : RequestOn(ip, Returned(eth))
       \/ /\ timer[h] # 0 /\ HasUnregistered(h, Returned(eth))
          /\ UNCHANGED <<route, asked>>
    /\ UNCHANGED others

Elapse ==
    LET Older(r) == IF IsActive(r) /\ r.age < LookupWait
                    THEN [r EXCEPT !.age = @ + 1] ELSE r
        aged == [i \in Row |-> Older(route[i])]
    IN  /\ <<aged, Aged(eth)>> # <<route, eth>>
        /\ route' = aged /\ eth' = Aged(eth)
        /\ UNCHANGED <<timer, round, asked, others>>

ARPRound == Round /\ UNCHANGED <<route, asked, others>>

ARPNext ==
    \/ \E ip \in IP \cup {NoIP} : requestMACAddress(ip)
    \/ \E ip \in IP : Response(ip)
    \/ HandleLookups
    \/ \E h \in Other : OtherRegister(h) \/ OtherUnregister(h) \/ OtherTimer(h)
    \/ ARPRound
    \/ Elapse

ARPSpec == ARPInit /\ [][ARPNext]_arpVars

\* loop() calls processFrame() for ever, which runs its loop over the timers
\* to the end; time passes.  Nothing is assumed of answers.
ARPFairSpec ==
    /\ ARPSpec
    /\ WF_arpVars(ARPRound)
    /\ WF_arpVars(HandleLookups)
    /\ \A h \in Other : WF_arpVars(OtherTimer(h))
    /\ WF_arpVars(Elapse)

-----------------------------------------------------------------------------
(* Properties.                                                             *)

\* To the table of timers the ARPHandler and its neighbours are nothing but
\* handlers: requestMACAddress(), called from anywhere, and handleTimer()
\* take only steps that TimerSpec knows, so that what holds there holds here.
TimersImplemented == TimerSpec

ARPTypeOK ==
    /\ TimerTypeOK
    /\ route \in [Row -> Route]
    /\ asked \subseteq IP
    /\ others \in 0 .. MaxOthers

\* EtherControl.h:68: a lookup under way has the one timer that repeats it,
\* whenever it was started and whatever the other handlers do with theirs.
ActiveHasTimer ==
    ActiveRows # {} => timer[ARP] # 0 /\ eth.slot[timer[ARP]].handler = ARP

\* No address is looked up in two rows: an answer marks only the first.
RoutesUnique ==
    \A i, j \in Row :
        i # j /\ ~IsFree(route[i]) /\ ~IsFree(route[j]) => route[i].ip # route[j].ip

\* ARPHandler.cpp:13-14: a route once known is never discarded, not by asking
\* for it again and not by a timer that expires.
RoutesKept == [][\A ip \in IP : KnownMAC(ip) => KnownMAC(ip)']_arpVars

\* A lookup ends, answered or given up, so that its row and the timer are free
\* again.
LookupEnds ==
    \A ip \in IP : (\E i \in ActiveRows : route[i].ip = ip)
                     ~> ~(\E i \in ActiveRows : route[i].ip = ip)

=============================================================================
