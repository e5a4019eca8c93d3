-------------------------- MODULE DNSHandlerProofs --------------------------
(* Theorems about DNSHandler, for any handlers, names, servers' answers and *)
(* sizes of the two tables: DNSTypeOK, NamesUnique, AddressIsOwn and        *)
(* DNSTimerIsOwn.                                                           *)
EXTENDS DNSHandler, SequenceTheorems, EtherControlProofs

Cache == Seq(Entry)

\* Every request sent so far is for the name in the entry that its id names:
\* entries are never removed or renamed.
AskedOwn == \A q \in asked : q.id \in DOMAIN cache /\ cache[q.id].name = q.name

CacheInv ==
    /\ cache \in Cache /\ Len(cache) <= CacheCapacity
    /\ asked \subseteq Request /\ others \in 0 .. MaxOthers
    /\ AskedOwn
    /\ NamesUnique
    /\ AddressIsOwn

DNSInv == TimerInv /\ CacheInv

\* c may become the entry d: the name stays, and an address is its own.
Follows(c, d) ==
    /\ d \in Entry
    /\ d.name = c.name /\ d.freed = c.freed
    /\ d.ip \in {c.ip, c.name}

\* A set of requests for entries there are, under the names they have.
Own(requests) ==
    \A q \in requests : q \in Request /\ q.id \in DOMAIN cache /\ cache[q.id].name = q.name

-----------------------------------------------------------------------------
(* What a step may do to the cache.                                        *)

LEMMA CacheTypes ==
    ASSUME CacheInv
    PROVE  /\ cache \in Seq(Entry) /\ Len(cache) \in Nat
           /\ DOMAIN cache = 1 .. Len(cache)
           /\ \A i \in DOMAIN cache : cache[i] \in Entry
           /\ DOMAIN cache \subseteq 1 .. CacheCapacity
<1>1. cache \in Seq(Entry) /\ Len(cache) <= CacheCapacity /\ CacheCapacity \in Nat
  BY DNSAssumption DEF CacheInv, Cache
<1>2. Len(cache) \in Nat /\ DOMAIN cache = 1 .. Len(cache)
  BY <1>1, LenProperties
<1>3. \A i \in 1 .. Len(cache) : cache[i] \in Entry
  BY <1>1, ElementOfSeq
<1> QED
  BY <1>1, <1>2, <1>3

LEMMA CacheSame ==
    ASSUME CacheInv, cache' = cache, asked' = asked, others' \in 0 .. MaxOthers
    PROVE  CacheInv'
  BY DEF CacheInv, AskedOwn, NamesUnique, AddressIsOwn

\* Every entry follows its predecessor.
LEMMA EntriesFollow ==
    ASSUME CacheInv, cache' \in Seq(Entry), Len(cache') = Len(cache),
           \A i \in DOMAIN cache : Follows(cache[i], cache'[i]),
           NEW requests, Own(requests), asked' = asked \cup requests,
           others' = others
    PROVE  CacheInv'
<1>1. DOMAIN cache' = DOMAIN cache
  BY LenProperties, CacheTypes
<1>2. AskedOwn' /\ asked' \subseteq Request
  BY <1>1 DEF CacheInv, AskedOwn, Own, Follows
<1>3. NamesUnique'
  BY <1>1 DEF CacheInv, NamesUnique, Follows
<1>4. AddressIsOwn'
  <2> SUFFICES ASSUME NEW i \in DOMAIN cache'
               PROVE  cache'[i].ip \in {NoIP, cache'[i].name}
    BY DEF AddressIsOwn
  <2>1. i \in DOMAIN cache
    BY <1>1
  <2>2. cache[i].ip \in {NoIP, cache[i].name} /\ Follows(cache[i], cache'[i])
    BY <2>1 DEF CacheInv, AddressIsOwn
  <2> QED
    BY <2>2 DEF Follows
<1> QED
  BY <1>2, <1>3, <1>4 DEF CacheInv, Cache

\* One entry follows its predecessor, the others stay.
LEMMA OneFollows ==
    ASSUME CacheInv, NEW i \in DOMAIN cache, NEW d, Follows(cache[i], d),
           cache' = [cache EXCEPT ![i] = d],
           NEW requests, Own(requests), asked' = asked \cup requests,
           others' = others
    PROVE  CacheInv'
<1>1. d \in Entry
  BY DEF Follows
<1>2. /\ cache' \in Seq(Entry) /\ Len(cache') = Len(cache)
      /\ \A j \in 1 .. Len(cache) : cache'[j] = IF j = i THEN d ELSE cache[j]
  BY <1>1, CacheTypes, ExceptSeq
<1>3. \A j \in DOMAIN cache : Follows(cache[j], cache[j])
  BY CacheTypes DEF Follows
<1>4. \A j \in DOMAIN cache : Follows(cache[j], cache'[j])
  BY <1>2, <1>3, CacheTypes
<1> QED
  BY <1>2, <1>4, EntriesFollow

\* The fields an operation writes, one way of writing them at a time.
LEMMA FieldsFollow ==
    ASSUME NEW c \in Entry
    PROVE  /\ Follows(c, c)
           /\ \A st \in {"PENDING", "DONE"}, err \in Errors \cup {NO_ERROR, NO_RESPONSE} :
                Follows(c, [c EXCEPT !.status = st, !.err = err])
           /\ \A age \in 0 .. MaxAge, attempts \in 1 .. MaxAttempts :
                Follows(c, [c EXCEPT !.age = age, !.attempts = attempts])
           /\ \A age \in 0 .. MaxAge : Follows(c, [c EXCEPT !.age = age])
           /\ \A ttl \in Nat : Follows(c, [c EXCEPT !.ttl = ttl])
           /\ Follows(c, [c EXCEPT !.ip = c.name])
  BY DEF Follows, Entry

LEMMA FollowsTrans ==
    ASSUME NEW c, NEW d, NEW f, Follows(c, d), Follows(d, f), f.ip = d.ip
    PROVE  Follows(c, f)
  BY DEF Follows

-----------------------------------------------------------------------------
(* What a call may do to the table of timers.                              *)

LEMMA EnsureTimerInv ==
    ASSUME NEW e, HandlerInv(e), NEW d \in Nat, EnsureTimer(d, e)
    PROVE  TimerInv'
<1>1. CASE timer[DNS] = 0
  <2>1. HasRegistered(DNS, d, e) /\ DNS \in Handler
    BY <1>1, DNSAssumption DEF EnsureTimer, HasRegistered
  <2> QED
    BY <1>1, <2>1, HasRegisteredInv
<1>2. CASE timer[DNS] # 0
  BY <1>2 DEF EnsureTimer, HandlerInv, TimerInv
<1> QED
  BY <1>1, <1>2

LEMMA TableSame ==
    ASSUME NEW e, HandlerInv(e), eth' = e, UNCHANGED <<timer, round>>
    PROVE  TimerInv'
  BY DEF HandlerInv, TimerInv

-----------------------------------------------------------------------------
(* resolve(), from the application or from a handleTimer().                *)

LEMMA DelaysNat == FirstDelay \in Nat /\ LaterDelay \in Nat
  BY DNSAssumption, TimerAssumption

LEMMA ResolveKnownInv ==
    ASSUME CacheInv, NEW e, HandlerInv(e), NEW n \in Name,
           NEW force, NEW stale, ResolveKnown(n, force, stale, e), others' = others
    PROVE  DNSInv'
<1> DEFINE i == CHOOSE j \in Matches(n, stale) : \A k \in Matches(n, stale) : j <= k
           zero == 0
           one == 1
           c == [cache[i] EXCEPT !.status = "PENDING", !.err = NO_ERROR]
           d == [c EXCEPT !.age = zero, !.attempts = one]
           resubmit == force \/ Expires(cache[i])
<1>1. i \in DOMAIN cache /\ cache[i].name = n
  <2>1. /\ Matches(n, stale) # {} /\ Matches(n, stale) \subseteq Nat
    <3>1. Matches(n, stale) # {}
      BY DEF ResolveKnown
    <3>2. Matches(n, stale) \subseteq DOMAIN cache
      BY DEF Matches
    <3>3. DOMAIN cache \subseteq Nat
      BY CacheTypes
    <3>4. QED
      BY <3>1, <3>2, <3>3
  <2>2. \E j \in Matches(n, stale) : \A k \in Matches(n, stale) : j <= k
    BY <2>1, LeastOf
  <2>3. i \in Matches(n, stale)
    BY <2>2
  <2> QED
    BY <2>3 DEF Matches
<1>2. \/ /\ cache' = [cache EXCEPT ![i] = d]
         /\ asked' = asked \cup {[id |-> i, name |-> n]}
         /\ EnsureTimer(LaterDelay, e)
      \/ /\ cache' = [cache EXCEPT ![i] = c]
         /\ eth' = e /\ UNCHANGED <<asked, timer, round>>
      \/ eth' = e /\ UNCHANGED <<cache, asked, timer, round>>
  BY DEF ResolveKnown, sendDNSRequest
<1>3. zero \in 0 .. MaxAge /\ one \in 1 .. MaxAttempts
  BY DNSAssumption
<1> HIDE DEF i, zero, one
<1>4. cache[i] \in Entry
  BY <1>1, CacheTypes
<1>5. Follows(cache[i], c)
  BY <1>4, FieldsFollow
<1>6. Follows(c, d)
  BY <1>3, <1>5, FieldsFollow DEF Follows
<1>7. Follows(cache[i], d)
  BY <1>5, <1>6 DEF Follows
<1>8. Own({[id |-> i, name |-> n]}) /\ Own({})
  BY <1>1, CacheTypes DEF Own, Request
<1> HIDE DEF c, d
<1>9. CASE /\ cache' = [cache EXCEPT ![i] = d]
           /\ asked' = asked \cup {[id |-> i, name |-> n]}
           /\ EnsureTimer(LaterDelay, e)
  BY <1>1, <1>7, <1>8, <1>9, OneFollows, EnsureTimerInv, DelaysNat DEF DNSInv
<1>10. CASE /\ cache' = [cache EXCEPT ![i] = c]
            /\ eth' = e /\ UNCHANGED <<asked, timer, round>>
  <2>1. asked' = asked \cup {}
    BY <1>10
  <2> QED
    BY <1>1, <1>5, <1>8, <1>10, <2>1, OneFollows, TableSame DEF DNSInv
<1>11. CASE eth' = e /\ UNCHANGED <<cache, asked, timer, round>>
  BY <1>11, CacheSame, TableSame DEF DNSInv, CacheInv
<1> QED
  BY <1>2, <1>9, <1>10, <1>11

\* A new entry at the end, under a name that no entry has that still has one.
LEMMA AppendInv ==
    ASSUME CacheInv, Len(cache) < CacheCapacity, NEW d \in Entry, d.ip = NoIP,
           \A i \in DOMAIN cache : ~cache[i].freed => cache[i].name # d.name,
           cache' = Append(cache, d), others' = others,
           \/ asked' = asked
           \/ asked' = asked \cup {[id |-> Len(cache) + 1, name |-> d.name]}
    PROVE  CacheInv'
<1> DEFINE n == Len(cache)
           k == n + 1
<1>1. n \in Nat /\ k \in Nat /\ cache \in Seq(Entry) /\ DOMAIN cache = 1 .. n
  BY CacheTypes
<1>2. /\ cache' \in Seq(Entry) /\ Len(cache') = k
      /\ DOMAIN cache' = 1 .. k
      /\ cache'[k] = d
      /\ \A i \in 1 .. n : cache'[i] = cache[i]
  BY <1>1
<1>3. k \in 1 .. CacheCapacity /\ k \notin 1 .. n /\ 1 .. k = (1 .. n) \cup {k}
      /\ k <= CacheCapacity
  BY <1>1, DNSAssumption
<1>4. asked' = asked \/ asked' = asked \cup {[id |-> k, name |-> d.name]}
  OBVIOUS
<1> HIDE DEF n, k
<1>5. [id |-> k, name |-> d.name] \in Request
  BY <1>3 DEF Request, Entry
<1>6. AskedOwn' /\ asked' \subseteq Request
  BY <1>1, <1>2, <1>3, <1>4, <1>5 DEF AskedOwn, CacheInv
<1>7. NamesUnique'
  <2> SUFFICES ASSUME NEW i \in 1 .. k, NEW j \in 1 .. k, i # j,
                      ~cache'[i].freed, ~cache'[j].freed
               PROVE  cache'[i].name # cache'[j].name
    BY <1>2 DEF NamesUnique
  <2>1. CASE i = k
    BY <1>1, <1>2, <1>3, <2>1
  <2>2. CASE j = k
    BY <1>1, <1>2, <1>3, <2>2
  <2>3. CASE i # k /\ j # k
    BY <1>1, <1>2, <1>3, <2>3 DEF CacheInv, NamesUnique
  <2> QED
    BY <2>1, <2>2, <2>3
<1>8. AddressIsOwn'
  BY <1>1, <1>2, <1>3 DEF AddressIsOwn, CacheInv
<1> QED
  BY <1>2, <1>3, <1>6, <1>7, <1>8 DEF CacheInv, Cache

LEMMA ResolveNewInv ==
    ASSUME CacheInv, NEW e, HandlerInv(e), NEW n \in Name,
           NEW stale, ResolveNew(n, stale, e), others' = others
    PROVE  DNSInv'
<1> DEFINE zero == 0
           one == 1
           c == [name |-> n, freed |-> FALSE, ip |-> NoIP, status |-> "PENDING",
                 err |-> NO_ERROR, age |-> zero, ttl |-> zero, attempts |-> one]
<1>1. zero \in 0 .. MaxAge /\ one \in 1 .. MaxAttempts /\ zero \in Nat
  BY DNSAssumption
<1>2. \/ /\ cache' = Append(cache, c)
         /\ asked' = asked \cup {[id |-> Len(cache) + 1, name |-> n]}
         /\ EnsureTimer(FirstDelay, e)
      \/ /\ \E age \in 0 .. MaxAge :
               cache' = Append(cache, [c EXCEPT !.freed = TRUE, !.age = age])
         /\ eth' = e /\ UNCHANGED <<asked, timer, round>>
  BY DEF ResolveNew, sendDNSRequest
<1> HIDE DEF zero, one
<1>3. c \in Entry /\ c.ip = NoIP /\ c.name = n
  BY <1>1 DEF Entry
<1>4. ASSUME NEW age \in 0 .. MaxAge
      PROVE  LET d == [c EXCEPT !.freed = TRUE, !.age = age]
             IN  d \in Entry /\ d.ip = NoIP /\ d.name = n
  BY <1>3 DEF Entry
<1>5. \A i \in DOMAIN cache : ~cache[i].freed => cache[i].name # n
  BY DEF ResolveNew, IsNew, Matches
<1>6. Len(cache) < CacheCapacity
  BY DEF ResolveNew, IsNew
<1> HIDE DEF c
<1>7. CASE /\ cache' = Append(cache, c)
           /\ asked' = asked \cup {[id |-> Len(cache) + 1, name |-> n]}
           /\ EnsureTimer(FirstDelay, e)
  BY <1>3, <1>5, <1>6, <1>7, AppendInv, EnsureTimerInv, DelaysNat DEF DNSInv
<1>8. CASE /\ \E age \in 0 .. MaxAge :
                 cache' = Append(cache, [c EXCEPT !.freed = TRUE, !.age = age])
           /\ eth' = e /\ UNCHANGED <<asked, timer, round>>
  <2>1. PICK age \in 0 .. MaxAge :
                 cache' = Append(cache, [c EXCEPT !.freed = TRUE, !.age = age])
    BY <1>8
  <2> DEFINE d == [c EXCEPT !.freed = TRUE, !.age = age]
  <2>2. d \in Entry /\ d.ip = NoIP /\ d.name = n /\ cache' = Append(cache, d)
    BY <1>4, <2>1
  <2> HIDE DEF d
  <2>3. CacheInv'
    BY <1>5, <1>6, <1>8, <2>2, AppendInv
  <2> QED
    BY <1>8, <2>3, TableSame DEF DNSInv
<1> QED
  BY <1>2, <1>7, <1>8

LEMMA ResolveOnInv ==
    ASSUME CacheInv, NEW e, HandlerInv(e), NEW n \in Name, ResolveOn(n, e),
           others' = others
    PROVE  DNSInv'
<1>1. PICK f \in BOOLEAN, stale \in BOOLEAN :
        \/ ResolveKnown(n, f, stale, e)
        \/ ResolveNew(n, stale, e)
        \/ ResolveFull(n, stale, e)
  BY DNSAssumption DEF ResolveOn
<1>2. CASE ResolveFull(n, stale, e)
  BY <1>2, CacheSame, TableSame DEF ResolveFull, DNSInv, CacheInv
<1> QED
  BY <1>1, <1>2, ResolveKnownInv, ResolveNewInv

LEMMA ResolveInv ==
    ASSUME DNSInv, NEW n \in Name, resolve(n)
    PROVE  DNSInv'
  BY IdleInv, ResolveOnInv DEF resolve, DNSInv

-----------------------------------------------------------------------------
(* handleDatagram().                                                       *)

LEMMA AnswerInv ==
    ASSUME DNSInv, NEW q \in asked, handleDatagram(q)
    PROVE  DNSInv'
<1> DEFINE i == q.id
           c == cache[i]
           zero == 0
<1>1. i \in DOMAIN cache /\ c.name = q.name /\ c \in Entry
  BY CacheTypes DEF DNSInv, CacheInv, AskedOwn
<1>2. zero \in 0 .. MaxAge /\ \A ttl \in TTL \cup {c.ttl} : ttl \in Nat
  <2>1. c.ttl \in Nat
    BY <1>1 DEF Entry
  <2>2. MaxAge \in Nat /\ TTL \subseteq Nat
    BY DNSAssumption
  <2>3. zero \in 0 .. MaxAge
    BY <2>2
  <2> QED
    BY <2>1, <2>2, <2>3
<1>3. \E d \in Entry : Follows(c, d) /\ cache' = [cache EXCEPT ![i] = d]
  <2>1. CASE \E err \in Errors : AnswerError(q, err)
    <3>1. PICK err \in Errors : cache' = [cache EXCEPT ![i] = [c EXCEPT !.status = "DONE", !.err = err]]
      BY <2>1 DEF AnswerError, EntryOf
    <3> DEFINE d == [c EXCEPT !.status = "DONE", !.err = err]
    <3>2. Follows(c, d)
      BY <1>1, FieldsFollow
    <3> QED
      BY <3>1, <3>2 DEF Follows
  <2>2. CASE AnswerEmpty(q)
    <3> DEFINE d == [c EXCEPT !.status = "DONE", !.err = SERVER_FAILURE, !.age = zero]
    <3>1. cache' = [cache EXCEPT ![i] = d]
      BY <2>2 DEF AnswerEmpty, EntryOf
    <3> HIDE DEF zero
    <3>2. Follows(c, d)
      BY <1>1, <1>2, DNSAssumption DEF Follows, Entry
    <3> HIDE DEF d
    <3> QED
      BY <3>1, <3>2 DEF Follows
  <2>3. CASE \E ttl \in TTL : AnswerAddress(q, ttl)
    <3>1. PICK ttl \in TTL : AnswerAddress(q, ttl)
      BY <2>3
    <3> DEFINE d == [c EXCEPT !.status = "DONE", !.err = NO_ERROR, !.age = zero,
                              !.ttl = ttl, !.ip = q.name]
    <3>2. cache' = [cache EXCEPT ![i] = d]
      BY <3>1 DEF AnswerAddress, EntryOf
    <3> HIDE DEF zero
    <3>3. Follows(c, d)
      BY <1>1, <1>2 DEF Follows, Entry
    <3> HIDE DEF d
    <3> QED
      BY <3>2, <3>3 DEF Follows
  <2>4. CASE AnswerOther(q)
    <3>1. PICK ttl \in TTL \cup {c.ttl} :
            cache' = [cache EXCEPT ![i] = [c EXCEPT !.status = "DONE", !.err = NO_ERROR,
                                                    !.age = zero, !.ttl = ttl]]
      BY <2>4 DEF AnswerOther, EntryOf
    <3> DEFINE d == [c EXCEPT !.status = "DONE", !.err = NO_ERROR, !.age = zero, !.ttl = ttl]
    <3> HIDE DEF zero
    <3>2. Follows(c, d)
      BY <1>1, <1>2 DEF Follows, Entry
    <3> QED
      BY <3>1, <3>2 DEF Follows
  <2> QED
    BY <2>1, <2>2, <2>3, <2>4 DEF handleDatagram
<1>4. PICK d \in Entry : Follows(c, d) /\ cache' = [cache EXCEPT ![i] = d]
  BY <1>3
<1>5. Own({}) /\ asked' = asked \cup {} /\ others' = others
  BY DEF handleDatagram, Own
<1>6. CacheInv'
  BY <1>1, <1>4, <1>5, OneFollows DEF DNSInv
<1>7. TimerInv'
  BY IdleInv, TableSame DEF DNSInv, handleDatagram, etherVars
<1> QED
  BY <1>6, <1>7 DEF DNSInv

-----------------------------------------------------------------------------
(* handleTimer(), and the rest of the device.                              *)

\* What handleTimer() makes of an entry.
LEMMA AfterTimerFollows ==
    ASSUME NEW c \in Entry
    PROVE  Follows(c, AfterTimer(c))
<1> DEFINE a == c.attempts + 1
           zero == 0
<1>1. zero \in 0 .. MaxAge /\ c.attempts \in 1 .. MaxAttempts /\ MaxAttempts \in Nat
  BY DNSAssumption DEF Entry
<1>2. CASE ~RetryDue(c)
  BY <1>2, FieldsFollow DEF AfterTimer
<1>3. CASE RetryDue(c) /\ GivesUp(c)
  BY <1>3, FieldsFollow DEF AfterTimer
<1>4. CASE RetryDue(c) /\ ~GivesUp(c)
  <2>1. a \in 1 .. MaxAttempts
    BY <1>1, <1>4 DEF GivesUp
  <2>2. AfterTimer(c) = [c EXCEPT !.attempts = a, !.age = zero]
    BY <1>4 DEF AfterTimer
  <2> HIDE DEF a, zero
  <2> QED
    BY <1>1, <2>1, <2>2 DEF Follows, Entry
<1> QED
  BY <1>2, <1>3, <1>4

\* The slot that is called is the handler's own, so its index is not 0.
LEMMA CallingHasTimer ==
    ASSUME TimerInv, NEW h \in Handler, Calling(h)
    PROVE  timer[h] # 0
  BY TimerAssumption DEF TimerInv, TableOK, Owned, CallOK, Calling, Used, Index

LEMMA HandleQueriesInv ==
    ASSUME DNSInv, HandleQueries
    PROVE  DNSInv'
<1> DEFINE e == Returned(eth)
           again == {j \in AskedAgain : ~cache[j].freed}
           requests == {[id |-> i, name |-> cache[i].name] : i \in again}
<1>1. HandlerInv(e) /\ e.calling = 0 /\ DNS \in Handler /\ timer[DNS] # 0
  BY ReturnedInv, CallingHasTimer, DNSAssumption DEF DNSInv, HandleQueries, Calling
<1>2. TimerInv'
  <2>1. CASE AskedAgain = {}
    BY <1>1, <2>1, HasUnregisteredInv DEF HandleQueries, DropTimer
  <2>2. CASE AskedAgain # {}
    BY <1>1, <2>2, TableSame DEF HandleQueries
  <2> QED
    BY <2>1, <2>2
<1>3. /\ cache' = [i \in DOMAIN cache |-> AfterTimer(cache[i])]
      /\ asked' = asked \cup requests /\ others' = others
  BY DEF HandleQueries, sendDNSRequest
<1>4. \A i \in DOMAIN cache : Follows(cache[i], AfterTimer(cache[i]))
  BY CacheTypes, AfterTimerFollows DEF DNSInv
<1>5. cache' \in Seq(Entry) /\ Len(cache') = Len(cache)
  BY <1>3, <1>4, CacheTypes DEF Follows, DNSInv
<1>6. \A i \in DOMAIN cache : Follows(cache[i], cache'[i])
  BY <1>3, <1>4
<1>7. Own(requests)
  <2> SUFFICES ASSUME NEW i \in again
               PROVE  LET q == [id |-> i, name |-> cache[i].name]
                      IN  q \in Request /\ q.id \in DOMAIN cache /\ cache[q.id].name = q.name
    BY DEF Own
  <2>1. i \in DOMAIN cache /\ i \in 1 .. CacheCapacity /\ cache[i] \in Entry
    BY CacheTypes DEF AskedAgain, DNSInv
  <2> QED
    BY <2>1 DEF Request, Entry
<1> HIDE DEF requests
<1>8. CacheInv'
  BY <1>3, <1>5, <1>6, <1>7, EntriesFollow DEF DNSInv
<1> QED
  BY <1>2, <1>8 DEF DNSInv

LEMMA OtherRegisterInv ==
    ASSUME DNSInv, NEW h \in Other, OtherRegister(h)
    PROVE  DNSInv'
<1>1. TimerInv'
  BY RegisterInv DEF DNSInv, Other, OtherRegister
<1>2. others' \in 0 .. MaxOthers
  BY DNSAssumption DEF DNSInv, CacheInv, OtherRegister
<1> QED
  BY <1>1, <1>2, CacheSame DEF DNSInv, OtherRegister

LEMMA OtherUnregisterInv ==
    ASSUME DNSInv, NEW h \in Other, OtherUnregister(h)
    PROVE  DNSInv'
<1>1. TimerInv'
  BY UnregisterInv DEF DNSInv, Other, OtherUnregister
<1> QED
  BY <1>1, CacheSame DEF DNSInv, CacheInv, OtherUnregister

LEMMA OtherTimerInv ==
    ASSUME DNSInv, NEW h \in Other, OtherTimer(h)
    PROVE  DNSInv'
<1> DEFINE e == Returned(eth)
<1>1. HandlerInv(e) /\ e.calling = 0 /\ h \in Handler /\ others' = others
  BY ReturnedInv DEF DNSInv, OtherTimer, Calling, Other
<1>2. CASE eth' = e /\ UNCHANGED <<timer, round, cache, asked>>
  BY <1>1, <1>2, TableSame, CacheSame DEF DNSInv, CacheInv
<1>3. CASE \E n \in Name : ResolveOn(n, e)
  BY <1>1, <1>3, ResolveOnInv DEF DNSInv
<1>4. CASE timer[h] # 0 /\ HasUnregistered(h, e) /\ UNCHANGED <<cache, asked>>
  BY <1>1, <1>4, HasUnregisteredInv, CacheSame DEF DNSInv, CacheInv
<1> QED
  BY <1>2, <1>3, <1>4 DEF OtherTimer

LEMMA ElapseInv ==
    ASSUME DNSInv, Elapse
    PROVE  DNSInv'
<1> DEFINE Older(c) == IF (IsPending(c) \/ Resolved(c)) /\ c.age < MaxAge
                       THEN [c EXCEPT !.age = @ + 1] ELSE c
<1>1. /\ cache' = [i \in DOMAIN cache |-> Older(cache[i])] /\ eth' = Aged(eth)
      /\ UNCHANGED <<timer, round, asked, others>>
  BY DEF Elapse
<1>2. TimerInv'
  BY <1>1, AgedInv DEF DNSInv
<1>3. ASSUME NEW c \in Entry
      PROVE  Follows(c, Older(c))
  <2> DEFINE a == c.age + 1
  <2>1. CASE (IsPending(c) \/ Resolved(c)) /\ c.age < MaxAge
    <3>1. a \in 0 .. MaxAge
      BY <2>1, DNSAssumption DEF Entry
    <3>2. Older(c) = [c EXCEPT !.age = a]
      BY <2>1
    <3> HIDE DEF a
    <3> QED
      BY <3>1, <3>2, FieldsFollow
  <2>2. CASE ~((IsPending(c) \/ Resolved(c)) /\ c.age < MaxAge)
    BY <2>2, FieldsFollow
  <2> QED
    BY <2>1, <2>2
<1> HIDE DEF Older
<1>4. \A i \in DOMAIN cache : Follows(cache[i], Older(cache[i]))
  BY <1>3, CacheTypes DEF DNSInv
<1>5. cache' \in Seq(Entry) /\ Len(cache') = Len(cache)
  BY <1>1, <1>4, CacheTypes DEF Follows, DNSInv
<1>6. \A i \in DOMAIN cache : Follows(cache[i], cache'[i])
  BY <1>1, <1>4
<1>7. Own({}) /\ asked' = asked \cup {} /\ others' = others
  BY <1>1 DEF Own
<1>8. CacheInv'
  BY <1>5, <1>6, <1>7, EntriesFollow DEF DNSInv
<1> QED
  BY <1>2, <1>8 DEF DNSInv

-----------------------------------------------------------------------------

LEMMA DNSInitInv == DNSInit => DNSInv
<1> SUFFICES ASSUME DNSInit PROVE DNSInv
  OBVIOUS
<1>1. TimerInv
  BY TimerInit DEF DNSInit
<1>2. cache = <<>> /\ asked = {} /\ others = 0
  BY DEF DNSInit
<1>3. cache \in Seq(Entry) /\ Len(cache) = 0 /\ DOMAIN cache = {}
  BY <1>2
<1>4. Len(cache) <= CacheCapacity /\ others \in 0 .. MaxOthers
  BY <1>2, <1>3, DNSAssumption
<1>5. AskedOwn /\ NamesUnique /\ AddressIsOwn /\ asked \subseteq Request
  BY <1>2, <1>3 DEF AskedOwn, NamesUnique, AddressIsOwn
<1> QED
  BY <1>1, <1>3, <1>4, <1>5 DEF DNSInv, CacheInv, Cache

LEMMA DNSNextInv ==
    ASSUME DNSInv, [DNSNext]_dnsVars
    PROVE  DNSInv'
<1>1. CASE \E n \in Name : resolve(n)
  BY <1>1, ResolveInv
<1>2. CASE \E q \in asked : handleDatagram(q)
  BY <1>2, AnswerInv
<1>3. CASE HandleQueries
  BY <1>3, HandleQueriesInv
<1>4. CASE \E h \in Other : OtherRegister(h) \/ OtherUnregister(h) \/ OtherTimer(h)
  BY <1>4, OtherRegisterInv, OtherUnregisterInv, OtherTimerInv
<1>5. CASE DNSRound
  <2>1. TimerInv'
    BY <1>5, TimerNextInv DEF DNSRound, DNSInv, TimerNext
  <2> QED
    BY <1>5, <2>1, CacheSame DEF DNSRound, DNSInv, CacheInv
<1>6. CASE Elapse
  BY <1>6, ElapseInv
<1>7. CASE UNCHANGED dnsVars
  <2>1. TimerInv'
    BY <1>7, TimerNextInv DEF DNSInv, dnsVars
  <2> QED
    BY <1>7, <2>1, CacheSame DEF dnsVars, DNSInv, CacheInv
<1> QED
  BY <1>1, <1>2, <1>3, <1>4, <1>5, <1>6, <1>7 DEF DNSNext

\* DNSInv is inductive: whatever is asked for and answered, and whichever
\* handlers take and leave their timers.
THEOREM DNSInductive == DNSSpec => []DNSInv
  BY DNSInitInv, DNSNextInv, PTL DEF DNSSpec

\* Every field of the cache and of the timers keeps its type; in particular
\* handleTimer() counts no more than MaxAttempts attempts.
THEOREM DNSTypeCorrect == DNSSpec => []DNSTypeOK
<1>1. DNSInv => DNSTypeOK
  BY DEF DNSInv, CacheInv, Cache, DNSTypeOK, TimerInv, TableOK, TimerTypeOK, Indices, Rounds
<1> QED
  BY <1>1, DNSInductive, PTL

\* resolve() never puts a name into two entries of the cache.
THEOREM OneEntryEach == DNSSpec => []NamesUnique
<1>1. DNSInv => NamesUnique
  BY DEF DNSInv, CacheInv
<1> QED
  BY <1>1, DNSInductive, PTL

\* handleDatagram() trusts the id of an answer alone, and an address is all the
\* same stored with the name it belongs to, however late or often it comes.
THEOREM AddressesAreOwn == DNSSpec => []AddressIsOwn
<1>1. DNSInv => AddressIsOwn
  BY DEF DNSInv, CacheInv
<1> QED
  BY <1>1, DNSInductive, PTL

\* handleTimer() never unregisters another handler's timer.
THEOREM DNSTimersAreOwn == DNSSpec => []DNSTimerIsOwn
<1>1. DNSInv => DNSTimerIsOwn
  BY DNSAssumption DEF DNSInv, TimerInv, TableOK, Owned, DNSTimerIsOwn
<1> QED
  BY <1>1, DNSInductive, PTL

-----------------------------------------------------------------------------
(* What the table of timers sees of the DNSHandler.                        *)

LEMMA EnsureTimerStep ==
    ASSUME NEW d \in {FirstDelay, LaterDelay}, NEW e, EnsureTimer(d, e)
    PROVE  \/ eth' = e /\ UNCHANGED <<timer, round>>
           \/ timer[DNS] = 0 /\ HasRegistered(DNS, d, e)
  BY DEF EnsureTimer, HasRegistered

LEMMA ResolveOnTimers ==
    ASSUME NEW n, NEW e, ResolveOn(n, e)
    PROVE  \/ eth' = e /\ UNCHANGED <<timer, round>>
           \/ timer[DNS] = 0 /\ \E d \in Delays[DNS] : HasRegistered(DNS, d, e)
<1>1. PICK f, stale :
        \/ ResolveKnown(n, f, stale, e)
        \/ ResolveNew(n, stale, e)
        \/ ResolveFull(n, stale, e)
  BY DEF ResolveOn
<1>2. \/ eth' = e /\ UNCHANGED <<timer, round>>
      \/ \E d \in {FirstDelay, LaterDelay} : EnsureTimer(d, e)
  <2>1. CASE ResolveKnown(n, f, stale, e)
    BY <2>1 DEF ResolveKnown
  <2>2. CASE ResolveNew(n, stale, e)
    BY <2>2 DEF ResolveNew
  <2>3. CASE ResolveFull(n, stale, e)
    BY <2>3 DEF ResolveFull
  <2> QED
    BY <1>1, <2>1, <2>2, <2>3
<1> QED
  BY <1>2, EnsureTimerStep, DNSAssumption

LEMMA HandleQueriesTimers ==
    ASSUME DNSInv, HandleQueries
    PROVE  TimerNext
<1>1. DNS \in Handler /\ Calling(DNS) /\ timer[DNS] # 0
  BY CallingHasTimer, DNSAssumption DEF DNSInv, HandleQueries
<1>2. \/ HasUnregistered(DNS, Returned(eth))
      \/ eth' = Returned(eth) /\ UNCHANGED <<timer, round>>
  BY DEF HandleQueries, DropTimer
<1>3. handleTimer(DNS)
  BY <1>1, <1>2 DEF handleTimer
<1> QED
  BY <1>1, <1>3 DEF TimerNext

LEMMA OtherTimerTimers ==
    ASSUME NEW h \in Other, OtherTimer(h)
    PROVE  TimerNext
<1>1. h \in Handler /\ DNS \in Handler /\ Calling(h)
  BY DNSAssumption DEF Other, OtherTimer
<1>2. \/ eth' = Returned(eth) /\ UNCHANGED <<timer, round>>
      \/ timer[DNS] = 0 /\ \E d \in Delays[DNS] : HasRegistered(DNS, d, Returned(eth))
      \/ timer[h] # 0 /\ HasUnregistered(h, Returned(eth))
  BY ResolveOnTimers DEF OtherTimer
<1>3. handleTimer(h)
  BY <1>1, <1>2 DEF handleTimer
<1> QED
  BY <1>1, <1>3 DEF TimerNext

LEMMA DNSNextTimers ==
    ASSUME DNSInv, [DNSNext]_dnsVars
    PROVE  [TimerNext]_etherVars
<1>1. CASE \E n \in Name : resolve(n)
  <2>1. PICK n \in Name : Idle(eth) /\ ResolveOn(n, eth)
    BY <1>1 DEF resolve
  <2>2. CASE eth' = eth /\ UNCHANGED <<timer, round>>
    BY <2>2 DEF etherVars
  <2>3. CASE timer[DNS] = 0 /\ \E d \in Delays[DNS] : HasRegistered(DNS, d, eth)
    BY <2>1, <2>3, DNSAssumption DEF TimerNext, Register
  <2> QED
    BY <2>1, <2>2, <2>3, ResolveOnTimers
<1>2. CASE \E q \in asked : handleDatagram(q)
  BY <1>2 DEF handleDatagram
<1>3. CASE HandleQueries
  BY <1>3, HandleQueriesTimers
<1>4. CASE \E h \in Other : OtherRegister(h) \/ OtherUnregister(h) \/ OtherTimer(h)
  <2>1. PICK h \in Other : OtherRegister(h) \/ OtherUnregister(h) \/ OtherTimer(h)
    BY <1>4
  <2>2. CASE OtherTimer(h)
    BY <2>2, OtherTimerTimers
  <2>3. CASE OtherRegister(h) \/ OtherUnregister(h)
    BY <2>3 DEF OtherRegister, OtherUnregister, Other, TimerNext
  <2> QED
    BY <2>1, <2>2, <2>3
<1>5. CASE DNSRound
  BY <1>5 DEF DNSRound, TimerNext
<1>6. CASE Elapse
  <2>1. eth' = Aged(eth) /\ UNCHANGED <<timer, round>>
    BY <1>6 DEF Elapse
  <2> QED
    BY <2>1, AgedStep DEF DNSInv, TimerNext
<1>7. CASE UNCHANGED dnsVars
  BY <1>7 DEF dnsVars
<1> QED
  BY <1>1, <1>2, <1>3, <1>4, <1>5, <1>6, <1>7 DEF DNSNext

\* The DNSHandler, too, uses the table of timers only as TimerSpec allows:
\* resolve(), from the application or from a socket's checkState(), registers
\* one timer, and handleTimer() gives up no timer but its own.
THEOREM DNSImplementsTimers == DNSSpec => TimerSpec
<1>1. DNSInit => EtherInit
  BY DEF DNSInit
<1> QED
  BY <1>1, DNSNextTimers, DNSInductive, PTL DEF DNSSpec, TimerSpec

=============================================================================
