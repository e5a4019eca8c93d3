-------------------------- MODULE ARPHandlerProofs --------------------------
(* Theorems about ARPHandler, for any handlers, addresses and sizes of the *)
(* two tables: ARPTypeOK, ActiveHasTimer, RoutesUnique and RoutesKept.     *)
EXTENDS ARPHandler, EtherControlProofs

\* A row is free exactly if it has no address.
RouteOK == \A i \in Row : IF IsFree(route[i]) THEN route[i].ip = NoIP ELSE route[i].ip \in IP

\* The timers are as TimerInv says, and a lookup under way keeps the timer: the
\* slot is then the handler's own, because TimerInv says so of every index.
ARPInv ==
    /\ TimerInv
    /\ route \in [Row -> Route] /\ asked \subseteq IP /\ others \in 0 .. MaxOthers
    /\ RouteOK
    /\ RoutesUnique
    /\ ActiveRows # {} => timer[ARP] # 0

\* What a step does to the table of routes: as rows come and go, no address is
\* in two of them, and the rows that are resolved keep their address.
Kept == \A ip \in IP : KnownMAC(ip) => KnownMAC(ip)'

-----------------------------------------------------------------------------
(* The steps that leave the table of routes alone.                         *)

LEMMA RouteSame ==
    ASSUME ARPInv, TimerInv', route' = route, asked' \subseteq IP, others' \in 0 .. MaxOthers,
           ActiveRows # {} => timer'[ARP] # 0
    PROVE  ARPInv' /\ Kept
<1>1. ActiveRows' = ActiveRows /\ RouteOK' /\ RoutesUnique'
  BY DEF ARPInv, ActiveRows, RouteOK, RoutesUnique, Row
<1>2. Kept
  BY DEF Kept, KnownMAC, Rows, Row
<1> QED
  BY <1>1, <1>2 DEF ARPInv

LEMMA RoundInv ==
    ASSUME TimerInv, Round
    PROVE  TimerInv' /\ timer' = timer
<1>1. timer' = timer
  BY DEF Round, BeginRound, SkipSlot, CallSlot, EndRound
<1> QED
  BY <1>1, BeginRoundInv, SkipSlotInv, CallSlotInv, EndRoundInv DEF Round

LEMMA ARPRoundInv ==
    ASSUME ARPInv, ARPRound
    PROVE  ARPInv' /\ Kept
  BY RoundInv, RouteSame DEF ARPInv, ARPRound

\* Another handler's registration does not touch the index of the ARPHandler.
LEMMA OthersTimer ==
    ASSUME TimerInv, NEW h \in Other, NEW e,
           \/ \E d \in Nat : HasRegistered(h, d, e)
           \/ HasUnregistered(h, e)
    PROVE  timer'[ARP] = timer[ARP]
<1>1. h \in Handler /\ h # ARP /\ timer \in Indices /\ ARP \in Handler
  BY TimerTypes, ARPAssumption DEF Other
<1> QED
  BY <1>1 DEF HasRegistered, HasUnregistered, Indices

LEMMA OtherRegisterInv ==
    ASSUME ARPInv, NEW h \in Other, OtherRegister(h)
    PROVE  ARPInv' /\ Kept
<1>1. TimerInv /\ h \in Handler /\ Register(h)
  BY DEF ARPInv, Other, OtherRegister
<1>2. TimerInv'
  BY <1>1, RegisterInv
<1>3. timer'[ARP] = timer[ARP]
  BY <1>1, OthersTimer, TimerAssumption DEF Register
<1>4. others' \in 0 .. MaxOthers
  BY ARPAssumption DEF ARPInv, OtherRegister
<1> QED
  BY <1>2, <1>3, <1>4, RouteSame DEF ARPInv, OtherRegister

LEMMA OtherUnregisterInv ==
    ASSUME ARPInv, NEW h \in Other, OtherUnregister(h)
    PROVE  ARPInv' /\ Kept
<1>1. TimerInv /\ h \in Handler /\ Unregister(h)
  BY DEF ARPInv, Other, OtherUnregister
<1>2. TimerInv'
  BY <1>1, UnregisterInv
<1>3. timer'[ARP] = timer[ARP]
  BY <1>1, OthersTimer DEF Unregister
<1> QED
  BY <1>2, <1>3, RouteSame DEF ARPInv, OtherUnregister

-----------------------------------------------------------------------------
(* requestMACAddress(), from the application or from a handleTimer().      *)

\* The row a lookup takes is the one the address has, or else a free one.
LEMMA RequestCases ==
    ASSUME NEW ip, NEW e, RequestOn(ip, e)
    PROVE  \/ eth' = e /\ UNCHANGED <<timer, round, route, asked>>
           \/ \E i \in Row :
                 /\ RowFor(ip, i) /\ ~LookedUp(ip)
                 /\ route' = [route EXCEPT ![i] =
                                 [SETATTEMPTCOUNT(@, 1) EXCEPT !.ip = ip, !.age = 0]]
                 /\ asked' = asked \cup {ip}
                 /\ \/ timer[ARP] = 0 /\ Free(e) # {} /\ HasRegistered(ARP, LookupDelay, e)
                    \/ timer[ARP] # 0 /\ eth' = e /\ UNCHANGED <<timer, round>>
<1> DEFINE i == CHOOSE j \in Row : RowFor(ip, j)
           stop == LookedUp(ip) \/ (\A j \in Row : ~RowFor(ip, j))
                      \/ (timer[ARP] = 0 /\ Free(e) = {})
<1>1. CASE stop
  BY <1>1 DEF RequestOn
<1>2. CASE ~stop
  <2>1. i \in Row /\ RowFor(ip, i) /\ ~LookedUp(ip)
    BY <1>2
  <2>2. /\ route' = [route EXCEPT ![i] =
                        [SETATTEMPTCOUNT(@, 1) EXCEPT !.ip = ip, !.age = 0]]
        /\ asked' = asked \cup {ip} /\ round' = round
    BY <1>2 DEF RequestOn, sendARPRequest
  <2>3. CASE timer[ARP] = 0
    <3>1. Free(e) # {} /\ HasRegistered(ARP, LookupDelay, e)
      BY <1>2, <2>3 DEF RequestOn, HasRegistered
    <3> HIDE DEF i, stop
    <3> QED
      BY <2>1, <2>2, <2>3, <3>1
  <2>4. CASE timer[ARP] # 0
    <3>1. eth' = e /\ UNCHANGED <<timer, round>>
      BY <1>2, <2>4 DEF RequestOn
    <3> HIDE DEF i, stop
    <3> QED
      BY <2>1, <2>2, <2>4, <3>1
  <2> QED
    BY <2>3, <2>4
<1> QED
  BY <1>1, <1>2

LEMMA ARPTypes ==
    ASSUME ARPInv
    PROVE  /\ TimerInv /\ HandlerInv(eth)
           /\ \A i \in Row : /\ route[i] \in Route
                             /\ route[i].resolved \in BOOLEAN
                             /\ route[i].count \in 0 .. MaxLookups
           /\ 0 \in 0 .. MaxLookups /\ 1 \in 0 .. MaxLookups /\ 0 \in 0 .. LookupWait
           /\ NoRoute \in Route /\ IsFree(NoRoute) /\ NoRoute.ip = NoIP /\ ~IsActive(NoRoute)
           /\ ~NoRoute.resolved
<1>1. 0 \in 0 .. MaxLookups /\ 1 \in 0 .. MaxLookups /\ 0 \in 0 .. LookupWait
  BY ARPAssumption
<1>2. NoRoute \in Route /\ NoRoute.count = 0 /\ NoRoute.resolved = FALSE /\ NoRoute.ip = NoIP
  BY <1>1 DEF NoRoute, Route
<1>3. IsFree(NoRoute) /\ ~IsActive(NoRoute)
  BY <1>2 DEF IsFree, IsActive
<1> QED
  BY <1>1, <1>2, <1>3, IdleInv DEF ARPInv, Route

\* What starting a lookup in row i does to the table of routes.
LEMMA StartInv ==
    ASSUME ARPInv, NEW ip \in IP \cup {NoIP}, NEW i \in Row, RowFor(ip, i), ~LookedUp(ip),
           route' = [route EXCEPT ![i] = [SETATTEMPTCOUNT(@, 1) EXCEPT !.ip = ip, !.age = 0]],
           TimerInv', timer'[ARP] # 0,
           asked' = asked \cup {ip}, others' \in 0 .. MaxOthers
    PROVE  ARPInv' /\ Kept
<1> DEFINE one == 1
           zero == 0
           v == [route[i] EXCEPT !.count = one, !.ip = ip, !.age = zero]
<1>1. one \in 0 .. MaxLookups /\ zero \in 0 .. LookupWait /\ one # 0
  BY ARPTypes
<1>2. route' = [route EXCEPT ![i] = v]
  BY DEF SETATTEMPTCOUNT
<1> HIDE DEF one, zero
<1>3. v \in Route /\ v.ip = ip /\ v.count = one /\ v.resolved = route[i].resolved
  BY <1>1, ARPTypes DEF Route
<1> HIDE DEF v
<1>4. /\ route' \in [Row -> Route] /\ route'[i] = v
      /\ \A j \in Row \ {i} : route'[j] = route[j]
  BY <1>2, <1>3 DEF ARPInv
<1>5. \A j \in Rows(ip) : j \in Row /\ route[j].ip = ip /\ route[j].resolved
  BY DEF LookedUp, Rows
<1>6. i \in Rows(ip) \/ (Rows(ip) = {} /\ IsFree(route[i]))
  BY DEF RowFor
<1>7. ip # NoIP
  <2> SUFFICES ASSUME ip = NoIP PROVE FALSE
    OBVIOUS
  <2>1. CASE i \in Rows(ip)
    <3>1. route[i].ip = NoIP /\ ~IsFree(route[i])
      BY <1>5, <2>1 DEF IsFree
    <3> QED
      BY <3>1, ARPAssumption DEF ARPInv, RouteOK
  <2>2. CASE Rows(ip) = {} /\ IsFree(route[i])
    <3>1. route[i].ip = ip
      BY <2>2 DEF ARPInv, RouteOK
    <3> QED
      BY <2>2, <3>1 DEF Rows
  <2> QED
    BY <1>6, <2>1, <2>2
<1>8. ~IsFree(v) /\ asked' \subseteq IP
  BY <1>1, <1>3, <1>7 DEF IsFree, ARPInv
<1>9. RouteOK'
  <2> SUFFICES ASSUME NEW j \in Row
               PROVE  IF IsFree(route'[j]) THEN route'[j].ip = NoIP ELSE route'[j].ip \in IP
    BY DEF RouteOK, Row, IsFree
  <2>1. CASE j = i
    BY <2>1, <1>3, <1>4, <1>7, <1>8
  <2>2. CASE j # i
    BY <2>2, <1>4 DEF ARPInv, RouteOK
  <2> QED
    BY <2>1, <2>2
<1>10. \A j \in Row \ {i} : ~IsFree(route[j]) => route[j].ip # ip
  <2>1. CASE i \in Rows(ip)
    <3>1. route[i].ip = ip /\ ~IsFree(route[i])
      BY <1>5, <2>1 DEF IsFree
    <3> QED
      BY <3>1 DEF ARPInv, RoutesUnique
  <2>2. CASE Rows(ip) = {}
    BY <2>2 DEF Rows
  <2> QED
    BY <1>6, <2>1, <2>2
<1>11. RoutesUnique'
  <2> SUFFICES ASSUME NEW j \in Row, NEW k \in Row, j # k,
                      ~IsFree(route'[j]), ~IsFree(route'[k])
               PROVE  route'[j].ip # route'[k].ip
    BY DEF RoutesUnique, Row, IsFree
  <2>1. CASE j # i /\ k # i
    BY <2>1, <1>4 DEF ARPInv, RoutesUnique
  <2>2. CASE j = i
    BY <2>2, <1>3, <1>4, <1>10
  <2>3. CASE k = i
    BY <2>3, <1>3, <1>4, <1>10
  <2> QED
    BY <2>1, <2>2, <2>3
<1>12. Kept
  <2> SUFFICES ASSUME NEW p \in IP, KnownMAC(p) PROVE KnownMAC(p)'
    BY DEF Kept
  <2>1. PICK k \in Row : route[k].ip = p /\ route[k].resolved
    BY DEF KnownMAC, Rows
  <2>2. CASE k # i
    BY <2>1, <2>2, <1>4 DEF KnownMAC, Rows, Row
  <2>3. CASE k = i
    <3>1. ~IsFree(route[i])
      BY <2>1, <2>3 DEF IsFree
    <3>2. route[i].ip = ip
      BY <3>1, <1>5, <1>6
    <3> QED
      BY <2>1, <2>3, <3>2, <1>3, <1>4 DEF KnownMAC, Rows, Row
  <2> QED
    BY <2>2, <2>3
<1> QED
  BY <1>4, <1>8, <1>9, <1>11, <1>12 DEF ARPInv

LEMMA RequestInv ==
    ASSUME ARPInv, NEW e, HandlerInv(e), NEW ip \in IP \cup {NoIP}, RequestOn(ip, e),
           others' = others
    PROVE  ARPInv' /\ Kept
<1>1. ARP \in Handler /\ LookupDelay \in Nat
  BY ARPAssumption, TimerAssumption
<1>2. CASE eth' = e /\ UNCHANGED <<timer, round, route, asked>>
  <2>1. TimerInv'
    BY <1>2 DEF HandlerInv, TimerInv
  <2> QED
    BY <1>2, <2>1, RouteSame DEF ARPInv
<1>3. CASE \E i \in Row :
                 /\ RowFor(ip, i) /\ ~LookedUp(ip)
                 /\ route' = [route EXCEPT ![i] =
                                 [SETATTEMPTCOUNT(@, 1) EXCEPT !.ip = ip, !.age = 0]]
                 /\ asked' = asked \cup {ip}
                 /\ \/ timer[ARP] = 0 /\ Free(e) # {} /\ HasRegistered(ARP, LookupDelay, e)
                    \/ timer[ARP] # 0 /\ eth' = e /\ UNCHANGED <<timer, round>>
  <2>1. TimerInv' /\ timer'[ARP] # 0
    <3>1. CASE timer[ARP] = 0 /\ Free(e) # {} /\ HasRegistered(ARP, LookupDelay, e)
      <4>1. TimerInv'
        BY <1>1, <3>1, HasRegisteredInv
      <4>2. timer' = [timer EXCEPT ![ARP] = NewIndex(e)]
        BY <3>1 DEF HasRegistered
      <4> QED
        BY <1>1, <3>1, <4>1, <4>2, RegisteredKeeps DEF HandlerInv
    <3>2. CASE timer[ARP] # 0 /\ eth' = e /\ UNCHANGED <<timer, round>>
      BY <3>2 DEF HandlerInv, TimerInv
    <3> QED
      BY <1>3, <3>1, <3>2
  <2> QED
    BY <1>3, <2>1, StartInv DEF ARPInv
<1> QED
  BY <1>2, <1>3, RequestCases

-----------------------------------------------------------------------------
(* Answers, the timer and the clock: rows keep their address or are freed. *)

LEMMA RowsKept ==
    ASSUME ARPInv, TimerInv', asked' \subseteq IP, others' \in 0 .. MaxOthers,
           route' \in [Row -> Route],
           \A i \in Row :
              /\ IsFree(route'[i]) => route'[i].ip = NoIP
              /\ ~IsFree(route'[i]) => ~IsFree(route[i]) /\ route'[i].ip = route[i].ip
              /\ route[i].resolved => route'[i].resolved /\ route'[i].ip = route[i].ip,
           (\E i \in Row : IsActive(route'[i])) => timer'[ARP] # 0
    PROVE  ARPInv' /\ Kept
<1>1. RouteOK'
  <2> SUFFICES ASSUME NEW j \in Row
               PROVE  IF IsFree(route'[j]) THEN route'[j].ip = NoIP ELSE route'[j].ip \in IP
    BY DEF RouteOK, Row, IsFree
  <2> QED
    BY DEF ARPInv, RouteOK
<1>2. RoutesUnique'
  <2> SUFFICES ASSUME NEW j \in Row, NEW k \in Row, j # k,
                      ~IsFree(route'[j]), ~IsFree(route'[k])
               PROVE  route'[j].ip # route'[k].ip
    BY DEF RoutesUnique, Row, IsFree
  <2> QED
    BY DEF ARPInv, RoutesUnique
<1>3. Kept
  BY DEF Kept, KnownMAC, Rows, Row
<1>4. (ActiveRows # {} => timer[ARP] # 0)'
  BY DEF ActiveRows, Row, IsActive
<1> QED
  BY <1>1, <1>2, <1>3, <1>4 DEF ARPInv

LEMMA ResponseInv ==
    ASSUME ARPInv, NEW ip \in IP, Response(ip)
    PROVE  ARPInv' /\ Kept
<1>1. PICK i \in Row : /\ route[i].ip = ip
                       /\ route' = [route EXCEPT ![i].resolved = TRUE]
  BY DEF Response, Rows
<1>2. UNCHANGED <<etherVars, asked, others>>
  BY DEF Response
<1>3. TimerInv'
  BY <1>2, TimerNextInv DEF ARPInv, etherVars
<1>4. ~IsFree(route[i])
  BY <1>1, ARPAssumption DEF ARPInv, RouteOK
<1>5. /\ route' \in [Row -> Route]
      /\ route'[i].ip = ip /\ route'[i].resolved /\ route'[i].count = route[i].count
      /\ \A j \in Row \ {i} : route'[j] = route[j]
  BY <1>1 DEF ARPInv, Route
<1>6. \A j \in Row :
        /\ IsFree(route'[j]) => route'[j].ip = NoIP
        /\ ~IsFree(route'[j]) => ~IsFree(route[j]) /\ route'[j].ip = route[j].ip
        /\ route[j].resolved => route'[j].resolved /\ route'[j].ip = route[j].ip
        /\ IsActive(route'[j]) => IsActive(route[j])
  <2> TAKE j \in Row
  <2>1. CASE j = i
    BY <2>1, <1>1, <1>4, <1>5 DEF IsFree, IsActive
  <2>2. CASE j # i
    BY <2>2, <1>5 DEF ARPInv, RouteOK
  <2> QED
    BY <2>1, <2>2
<1>7. (\E j \in Row : IsActive(route'[j])) => timer'[ARP] # 0
  BY <1>2, <1>6 DEF ARPInv, ActiveRows, etherVars
<1> QED
  BY <1>2, <1>3, <1>5, <1>6, <1>7, RowsKept DEF ARPInv

\* handleTimer() counts an attempt, forgets a row, or leaves it alone.
LEMMA AfterTimerRow ==
    ASSUME ARPInv, NEW i \in Row
    PROVE  LET r == AfterTimer(i) IN
           /\ r \in Route
           /\ IsFree(r) => r.ip = NoIP
           /\ ~IsFree(r) => ~IsFree(route[i]) /\ r.ip = route[i].ip
           /\ route[i].resolved => r.resolved /\ r.ip = route[i].ip
           /\ IsActive(r) => IsActive(route[i])
<1>1. /\ route[i] \in Route /\ route[i].count \in 0 .. MaxLookups
      /\ route[i].resolved \in BOOLEAN
      /\ IsFree(route[i]) => route[i].ip = NoIP
  BY ARPTypes DEF ARPInv, RouteOK
<1>2. CASE ~Expired(i)
  BY <1>1, <1>2 DEF AfterTimer
<1>3. CASE Expired(i) /\ route[i].count >= MaxLookups
  <2>1. AfterTimer(i) = NoRoute /\ ~route[i].resolved
    BY <1>3 DEF AfterTimer, Expired, ActiveRows, IsActive
  <2> QED
    BY <2>1, ARPTypes
<1>4. CASE Expired(i) /\ ~(route[i].count >= MaxLookups)
  <2> DEFINE n == route[i].count + 1
             zero == 0
             r == [route[i] EXCEPT !.count = n, !.age = zero]
  <2>1. n \in 0 .. MaxLookups /\ n > 0 /\ zero \in 0 .. LookupWait
    BY <1>1, <1>4, ARPAssumption
  <2>2. AfterTimer(i) = r
    BY <1>4 DEF AfterTimer, SETATTEMPTCOUNT
  <2> HIDE DEF zero, n
  <2>3. r \in Route /\ r.ip = route[i].ip /\ r.resolved = route[i].resolved /\ r.count = n
    BY <1>1, <2>1 DEF Route
  <2>4. IsActive(route[i]) /\ ~IsFree(route[i])
    BY <1>4 DEF Expired, ActiveRows, IsActive, IsFree
  <2>5. ~IsFree(r)
    BY <2>1, <2>3 DEF IsFree, n
  <2> HIDE DEF r
  <2> QED
    BY <2>2, <2>3, <2>4, <2>5
<1> QED
  BY <1>2, <1>3, <1>4

LEMMA HandleLookupsInv ==
    ASSUME ARPInv, HandleLookups
    PROVE  ARPInv' /\ Kept
<1> DEFINE e == Returned(eth)
<1>1. TimerInv /\ HandlerInv(e) /\ e.calling = 0 /\ ARP \in Handler
  BY ReturnedInv, ARPAssumption DEF ARPInv, HandleLookups, Calling
<1>2. route' = [i \in Row |-> AfterTimer(i)] /\ asked' = asked \cup SentAgain
      /\ others' = others
  BY DEF HandleLookups, sendARPRequest
<1>3. TimerInv' /\ (ActiveRows # {} => timer'[ARP] # 0)
  <2>1. CASE TimerIsDone /\ timer[ARP] # 0
    <3>1. HasUnregistered(ARP, e) /\ ActiveRows = {}
      BY <2>1 DEF HandleLookups, TimerIsDone, DropTimer
    <3> QED
      BY <1>1, <2>1, <3>1, HasUnregisteredInv
  <2>2. CASE ~(TimerIsDone /\ timer[ARP] # 0)
    <3>1. eth' = e /\ UNCHANGED <<timer, round>>
      BY <2>2 DEF HandleLookups
    <3> QED
      BY <1>1, <3>1 DEF HandlerInv, TimerInv, ARPInv
  <2> QED
    BY <2>1, <2>2
<1>4. SentAgain \subseteq IP
  <2> SUFFICES ASSUME NEW j \in Row, Expired(j) PROVE route[j].ip \in IP
    BY DEF SentAgain
  <2> QED
    BY DEF Expired, ActiveRows, IsActive, IsFree, ARPInv, RouteOK
<1>5. (\E i \in Row : IsActive(route'[i])) => timer'[ARP] # 0
  BY <1>2, <1>3, AfterTimerRow DEF ActiveRows
<1> QED
  BY <1>2, <1>3, <1>4, <1>5, AfterTimerRow, RowsKept DEF ARPInv

LEMMA OtherTimerInv ==
    ASSUME ARPInv, NEW h \in Other, OtherTimer(h)
    PROVE  ARPInv' /\ Kept
<1> DEFINE e == Returned(eth)
<1>1. TimerInv /\ HandlerInv(e) /\ e.calling = 0 /\ h \in Handler /\ others' = others
  BY ReturnedInv DEF ARPInv, OtherTimer, Calling, Other
<1>2. CASE \E ip \in IP \cup {NoIP} : RequestOn(ip, e)
  BY <1>1, <1>2, RequestInv
<1>3. CASE timer[h] # 0 /\ HasUnregistered(h, e) /\ UNCHANGED <<route, asked>>
  <2>1. TimerInv' /\ timer'[ARP] = timer[ARP]
    BY <1>1, <1>3, HasUnregisteredInv, OthersTimer
  <2> QED
    BY <1>1, <1>3, <2>1, RouteSame DEF ARPInv
<1> QED
  BY <1>2, <1>3 DEF OtherTimer

LEMMA ARPElapseInv ==
    ASSUME ARPInv, Elapse
    PROVE  ARPInv' /\ Kept
<1> DEFINE Older(r) == IF IsActive(r) /\ r.age < LookupWait
                       THEN [r EXCEPT !.age = @ + 1] ELSE r
<1>1. /\ route' = [i \in Row |-> Older(route[i])] /\ eth' = Aged(eth)
      /\ UNCHANGED <<timer, round, asked, others>>
  BY DEF Elapse
<1>2. TimerInv'
  BY <1>1, AgedInv DEF ARPInv
<1>3. ASSUME NEW i \in Row
      PROVE  LET r == Older(route[i]) IN
             r \in Route /\ r.ip = route[i].ip /\ r.resolved = route[i].resolved
             /\ r.count = route[i].count
  <2> DEFINE s == route[i]
             a == s.age + 1
  <2>1. s \in Route /\ s.age \in 0 .. LookupWait /\ LookupWait \in Nat
    BY ARPTypes, ARPAssumption DEF Route
  <2>2. CASE IsActive(s) /\ s.age < LookupWait
    <3>1. a \in 0 .. LookupWait
      BY <2>1, <2>2
    <3>2. Older(s) = [s EXCEPT !.age = a]
      BY <2>2
    <3> HIDE DEF a, s
    <3>3. LET r == [s EXCEPT !.age = a]
          IN  r \in Route /\ r.ip = s.ip /\ r.resolved = s.resolved /\ r.count = s.count
      BY <2>1, <3>1 DEF Route
    <3> QED
      BY <3>2, <3>3 DEF s
  <2>3. CASE ~(IsActive(s) /\ s.age < LookupWait)
    BY <2>1, <2>3
  <2> QED
    BY <2>2, <2>3
<1> HIDE DEF Older
<1>4. route' \in [Row -> Route]
      /\ \A i \in Row : /\ route'[i].ip = route[i].ip
                        /\ route'[i].resolved = route[i].resolved
                        /\ route'[i].count = route[i].count
  BY <1>1, <1>3
<1>5. \A i \in Row : /\ IsFree(route'[i]) = IsFree(route[i])
                     /\ IsActive(route'[i]) = IsActive(route[i])
  BY <1>4 DEF IsFree, IsActive
<1>6. (\E i \in Row : IsActive(route'[i])) => timer'[ARP] # 0
  BY <1>1, <1>5 DEF ARPInv, ActiveRows
<1>7. \A i \in Row : IsFree(route[i]) => route[i].ip = NoIP
  BY DEF ARPInv, RouteOK
<1> QED
  BY <1>1, <1>2, <1>4, <1>5, <1>6, <1>7, RowsKept DEF ARPInv

LEMMA RequestMACInv ==
    ASSUME ARPInv, NEW ip \in IP \cup {NoIP}, requestMACAddress(ip)
    PROVE  ARPInv' /\ Kept
<1>1. RequestOn(ip, eth) /\ others' = others
  BY DEF requestMACAddress
<1> QED
  BY <1>1, ARPTypes, RequestInv

LEMMA ARPInitInv == ARPInit => ARPInv
<1> SUFFICES ASSUME ARPInit PROVE ARPInv
  OBVIOUS
<1> DEFINE zero == 0
<1>1. TimerInv
  BY TimerInit DEF ARPInit
<1>2. zero \in 0 .. MaxLookups /\ zero \in 0 .. LookupWait /\ zero \in 0 .. MaxOthers
  BY ARPAssumption
<1>3. NoRoute = [ip |-> NoIP, resolved |-> FALSE, count |-> zero, age |-> zero]
  BY DEF NoRoute
<1> HIDE DEF zero
<1>4. NoRoute \in Route /\ NoRoute.count = zero /\ NoRoute.resolved = FALSE /\ NoRoute.ip = NoIP
  BY <1>2, <1>3 DEF Route
<1>5. IsFree(NoRoute) /\ ~IsActive(NoRoute)
  BY <1>4 DEF IsFree, IsActive, zero
<1>6. route = [i \in Row |-> NoRoute] /\ asked = {} /\ others \in 0 .. MaxOthers
  BY <1>2 DEF ARPInit, zero
<1>7. RouteOK /\ RoutesUnique /\ ActiveRows = {}
  BY <1>4, <1>5, <1>6 DEF RouteOK, RoutesUnique, ActiveRows
<1> QED
  BY <1>1, <1>4, <1>6, <1>7 DEF ARPInv

LEMMA ARPNextInv ==
    ASSUME ARPInv, [ARPNext]_arpVars
    PROVE  ARPInv' /\ Kept
<1>1. CASE \E ip \in IP \cup {NoIP} : requestMACAddress(ip)
  BY <1>1, RequestMACInv
<1>2. CASE \E ip \in IP : Response(ip)
  BY <1>2, ResponseInv
<1>3. CASE HandleLookups
  BY <1>3, HandleLookupsInv
<1>4. CASE \E h \in Other : OtherRegister(h) \/ OtherUnregister(h) \/ OtherTimer(h)
  BY <1>4, OtherRegisterInv, OtherUnregisterInv, OtherTimerInv
<1>5. CASE ARPRound
  BY <1>5, ARPRoundInv
<1>6. CASE Elapse
  BY <1>6, ARPElapseInv
<1>7. CASE UNCHANGED arpVars
  <2>1. TimerInv'
    BY <1>7, TimerNextInv DEF ARPInv, arpVars
  <2> QED
    BY <1>7, <2>1, RouteSame DEF arpVars, etherVars, ARPInv
<1> QED
  BY <1>1, <1>2, <1>3, <1>4, <1>5, <1>6, <1>7 DEF ARPNext

\* ARPInv is inductive, with any number of handlers that register and
\* unregister around the ARPHandler.
THEOREM ARPInductive == ARPSpec => []ARPInv
  BY ARPInitInv, ARPNextInv, PTL DEF ARPSpec

\* Every field of the routing table and of the timers keeps its type; in
\* particular handleTimer() counts no more than MaxLookups attempts.
THEOREM ARPTypeCorrect == ARPSpec => []ARPTypeOK
<1>1. ARPInv => ARPTypeOK
  BY DEF ARPInv, ARPTypeOK, TimerInv, TableOK, TimerTypeOK, Indices, Rounds
<1> QED
  BY <1>1, ARPInductive, PTL

\* A lookup under way always has the one timer that repeats it and gives it up:
\* no order of requests, expirations and other handlers loses it.
THEOREM LookupsHaveTimer == ARPSpec => []ActiveHasTimer
<1>1. ARPInv => ActiveHasTimer
  BY ARPAssumption DEF ARPInv, ActiveHasTimer, TimerInv, TableOK, Owned
<1> QED
  BY <1>1, ARPInductive, PTL

\* requestMACAddress() never puts an address into two rows.
THEOREM OneRouteEach == ARPSpec => []RoutesUnique
<1>1. ARPInv => RoutesUnique
  BY DEF ARPInv
<1> QED
  BY <1>1, ARPInductive, PTL

\* A route once known stays known: neither another request for it nor a timer
\* takes it away (SETATTEMPTCOUNT keeps the bit for resolved).
THEOREM KnownStaysKnown == ARPSpec => RoutesKept
<1>1. ARPInv /\ [ARPNext]_arpVars => [Kept]_arpVars
  BY ARPNextInv
<1>2. ARPSpec => [][Kept]_arpVars
  BY <1>1, ARPInductive, PTL DEF ARPSpec
<1> QED
  BY <1>2 DEF RoutesKept, Kept

-----------------------------------------------------------------------------
(* What the table of timers sees of the ARPHandler.                        *)

LEMMA RequestOnTimers ==
    ASSUME NEW ip, NEW e, RequestOn(ip, e)
    PROVE  \/ eth' = e /\ UNCHANGED <<timer, round>>
           \/ timer[ARP] = 0 /\ HasRegistered(ARP, LookupDelay, e)
  BY RequestCases

LEMMA RequestMACTimers ==
    ASSUME NEW ip, requestMACAddress(ip)
    PROVE  [TimerNext]_etherVars
<1>1. Idle(eth) /\ RequestOn(ip, eth)
  BY DEF requestMACAddress
<1>2. CASE eth' = eth /\ UNCHANGED <<timer, round>>
  BY <1>2 DEF etherVars
<1>3. CASE timer[ARP] = 0 /\ HasRegistered(ARP, LookupDelay, eth)
  BY <1>1, <1>3, ARPAssumption DEF TimerNext, Register
<1> QED
  BY <1>1, <1>2, <1>3, RequestOnTimers

LEMMA HandleLookupsTimers ==
    ASSUME HandleLookups
    PROVE  TimerNext
<1>1. ARP \in Handler /\ Calling(ARP)
  BY ARPAssumption DEF HandleLookups
<1>2. \/ timer[ARP] # 0 /\ HasUnregistered(ARP, Returned(eth))
      \/ eth' = Returned(eth) /\ UNCHANGED <<timer, round>>
  BY DEF HandleLookups, DropTimer
<1>3. handleTimer(ARP)
  BY <1>1, <1>2 DEF handleTimer
<1> QED
  BY <1>1, <1>3 DEF TimerNext

LEMMA OtherTimerTimers ==
    ASSUME NEW h \in Other, OtherTimer(h)
    PROVE  TimerNext
<1>1. h \in Handler /\ ARP \in Handler /\ LookupDelay \in Delays[ARP] /\ Calling(h)
  BY ARPAssumption DEF Other, OtherTimer
<1>2. \/ eth' = Returned(eth) /\ UNCHANGED <<timer, round>>
      \/ timer[ARP] = 0 /\ HasRegistered(ARP, LookupDelay, Returned(eth))
      \/ timer[h] # 0 /\ HasUnregistered(h, Returned(eth))
  BY RequestOnTimers DEF OtherTimer
<1>3. handleTimer(h)
  BY <1>1, <1>2 DEF handleTimer
<1> QED
  BY <1>1, <1>3 DEF TimerNext

LEMMA ARPNextTimers ==
    ASSUME ARPInv, [ARPNext]_arpVars
    PROVE  [TimerNext]_etherVars
<1>1. CASE \E ip \in IP \cup {NoIP} : requestMACAddress(ip)
  BY <1>1, RequestMACTimers
<1>2. CASE \E ip \in IP : Response(ip)
  BY <1>2 DEF Response
<1>3. CASE HandleLookups
  BY <1>3, HandleLookupsTimers
<1>4. CASE \E h \in Other : OtherRegister(h) \/ OtherUnregister(h) \/ OtherTimer(h)
  <2>1. PICK h \in Other : OtherRegister(h) \/ OtherUnregister(h) \/ OtherTimer(h)
    BY <1>4
  <2>2. CASE OtherTimer(h)
    BY <2>2, OtherTimerTimers
  <2>3. CASE OtherRegister(h) \/ OtherUnregister(h)
    BY <2>3 DEF OtherRegister, OtherUnregister, Other, TimerNext
  <2> QED
    BY <2>1, <2>2, <2>3
<1>5. CASE ARPRound
  BY <1>5 DEF ARPRound, TimerNext
<1>6. CASE Elapse
  <2>1. eth' = Aged(eth) /\ UNCHANGED <<timer, round>>
    BY <1>6 DEF Elapse
  <2> QED
    BY <2>1, AgedStep DEF ARPInv, TimerNext
<1>7. CASE UNCHANGED arpVars
  BY <1>7 DEF arpVars
<1> QED
  BY <1>1, <1>2, <1>3, <1>4, <1>5, <1>6, <1>7 DEF ARPNext

\* With any number of lookups and neighbours the ARPHandler uses the table of
\* timers only as TimerSpec allows: all that is proved of TimerSpec, that the
\* count is right and every slot its owner's, holds beside it.
THEOREM ARPImplementsTimers == ARPSpec => TimersImplemented
<1>1. ARPInit => EtherInit
  BY DEF ARPInit
<1>2. ARPSpec => EtherInit /\ [][TimerNext]_etherVars
  BY <1>1, ARPNextTimers, ARPInductive, PTL DEF ARPSpec
<1> QED
  BY <1>2 DEF TimersImplemented, TimerSpec

=============================================================================
