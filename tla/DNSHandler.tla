----------------------------- MODULE DNSHandler -----------------------------
(***************************************************************************)
(* The cache of DNSHandler.h / DNSHandler.cpp: lookups of names that a     *)
(* timer shared with ARPHandler and TCPHandler repeats.                    *)
(*                                                                         *)
(* resolve() is called by the application outside the loop over the        *)
(* timers, and by a socket's checkState() inside it.  Requests and answers *)
(* may be lost, late, or come twice, and the two servers may disagree.     *)
(* The packet is modelled by its response code and by what the loop over   *)
(* its answers finds.                                                      *)
(***************************************************************************)
EXTENDS EtherControl, Sequences

CONSTANTS
    DNS,            \* the DNSHandler's own timer handler
    Name,           \* the domain names asked for
    TooLong,        \* those that do not fit into a request
    NoIP,           \* an ipAddress never written
    Errors,         \* response codes other than NO_ERROR, SERVER_FAILURE among them
    NO_ERROR, SERVER_FAILURE, NO_RESPONSE,
    NoAddress,      \* whether an answer may come without an A record
    Forced,         \* whether resolve() is called with force
    CacheCapacity,
    MaxAttempts,    \* 5 in handleTimer()
    RetryAfter,     \* the 1000 of handleTimer()
    FirstDelay,     \* the 5000 that a new name registers the timer with
    LaterDelay,     \* the 1000 that a name asked for again registers it with
    TTL,            \* the times to live that servers answer
    CallTime,       \* bound: ticks between setting startTime and handleTimer()
    MaxOthers,      \* bound: registrations of timers by the other handlers
    MaxAge          \* bound: where the age of an entry stops counting

ASSUME DNSAssumption ==
    /\ DNS \in Handler /\ {FirstDelay, LaterDelay} \subseteq Delays[DNS]
    /\ TooLong \subseteq Name /\ NoIP \notin Name
    /\ SERVER_FAILURE \in Errors /\ {NO_ERROR, NO_RESPONSE} \cap Errors = {}
    /\ NO_ERROR # NO_RESPONSE
    /\ NoAddress \in BOOLEAN /\ Forced \in BOOLEAN
    /\ CacheCapacity \in Nat /\ MaxAttempts \in Nat \ {0}
    /\ RetryAfter \in Nat /\ TTL \subseteq Nat
    /\ MaxAge \in Nat /\ MaxAge > RetryAfter
    /\ CallTime \in Nat /\ MaxOthers \in Nat

VARIABLES
    cache,  \* the entries of the cache in use, cacheSize of them
    asked,  \* the requests sent so far, each of which may be answered
    others  \* registrations of the other handlers so far

dnsVars == <<etherVars, cache, asked, others>>

\* age is host_millis() - time.  EXPIRED is not among the values of status:
\* resolve() sets it only to replace it at once.  freed says that domainName
\* has been given back to the heap.
Entry == [name : Name, freed : BOOLEAN, ip : Name \cup {NoIP},
          status : {"PENDING", "DONE"}, err : Errors \cup {NO_ERROR, NO_RESPONSE},
          age : 0 .. MaxAge, ttl : Nat, attempts : 1 .. MaxAttempts]

Request == [id : 1 .. CacheCapacity, name : Name]

IsPending(c) == c.status = "PENDING" /\ c.err = NO_ERROR
Resolved(c) == c.status = "DONE" /\ c.err = NO_ERROR

DNSInit ==
    /\ EtherInit
    /\ cache = <<>>
    /\ asked = {}
    /\ others = 0

-----------------------------------------------------------------------------
(* resolve().  A string that has been freed may still compare equal.       *)

Matches(n, stale) ==
    {i \in DOMAIN cache : cache[i].name = n /\ (cache[i].freed => stale)}

\* checkAndSetExpiration()
Expires(c) == Resolved(c) /\ c.age > c.ttl

\* "make sure we have a timer enabled so we can retry if needed": the timer is
\* registered if there is none, and its index kept even when it is 0.
EnsureTimer(d, e) ==
    /\ UNCHANGED round
    /\ IF timer[DNS] = 0
       THEN /\ eth' = Registered(e, DNS, d)
            /\ timer' = [timer EXCEPT ![DNS] = NewIndex(e)]
       ELSE eth' = e /\ UNCHANGED timer

\* sendDNSRequest(), for requests that fit into the buffer.
sendDNSRequest(requests) == asked' = asked \cup requests

\* A name in the cache is asked for again if it has expired or is forced.
\* When the request cannot be sent the entry is pending all the same.
ResolveKnown(n, force, stale, e) ==
    LET i == CHOOSE j \in Matches(n, stale) : \A k \in Matches(n, stale) : j <= k
        c == [cache[i] EXCEPT !.status = "PENDING", !.err = NO_ERROR]
        resubmit == force \/ Expires(cache[i])
    IN  /\ Matches(n, stale) # {}
        /\ \/ /\ resubmit /\ n \notin TooLong
              /\ cache' = [cache EXCEPT ![i] = [c EXCEPT !.age = 0, !.attempts = 1]]
              /\ sendDNSRequest({[id |-> i, name |-> n]})
              /\ EnsureTimer(LaterDelay, e)
           \/ /\ resubmit /\ n \in TooLong
              /\ cache' = [cache EXCEPT ![i] = c]
              /\ eth' = e /\ UNCHANGED <<asked, timer, round>>
           \/ /\ ~resubmit
              /\ eth' = e /\ UNCHANGED <<cache, asked, timer, round>>

\* (mutant of IsNew: the cache is not searched)
AlwaysNew(n, stale) == Len(cache) < CacheCapacity
IsNew(n, stale) == Matches(n, stale) = {} /\ Len(cache) < CacheCapacity

\* A name not in the cache takes the next entry, also when the request cannot
\* be sent: then the string is freed and time is what malloc() left there.
ResolveNew(n, stale, e) ==
    LET c == [name |-> n, freed |-> FALSE, ip |-> NoIP, status |-> "PENDING",
              err |-> NO_ERROR, age |-> 0, ttl |-> 0, attempts |-> 1]
    IN  /\ IsNew(n, stale)
        /\ \/ /\ n \notin TooLong
              /\ cache' = Append(cache, c)
              /\ sendDNSRequest({[id |-> Len(cache) + 1, name |-> n]})
              /\ EnsureTimer(FirstDelay, e)
           \/ /\ n \in TooLong
              /\ \E age \in 0 .. MaxAge :
                    cache' = Append(cache, [c EXCEPT !.freed = TRUE, !.age = age])
              /\ eth' = e /\ UNCHANGED <<asked, timer, round>>

ResolveFull(n, stale, e) ==
    /\ Matches(n, stale) = {} /\ Len(cache) >= CacheCapacity
    /\ eth' = e /\ UNCHANGED <<cache, asked, timer, round>>

ResolveOn(n, e) ==
    \E force \in {FALSE, Forced}, stale \in BOOLEAN :
        \/ ResolveKnown(n, force, stale, e)
        \/ ResolveNew(n, stale, e)
        \/ ResolveFull(n, stale, e)

resolve(n) == Idle(eth) /\ ResolveOn(n, eth) /\ UNCHANGED others

-----------------------------------------------------------------------------
(* handleDatagram(), for an answer to the request q.                       *)

\* (mutant of EntryOf: the id is taken for an index that counts from zero)
NextEntry(q) == q.id + 1
EntryOf(q) == q.id

HasEntry(q) == EntryOf(q) \in DOMAIN cache

\* The test for an entry that is no longer pending never applies (PENDING is 0).
AnswerError(q, err) ==
    /\ HasEntry(q)
    /\ cache' = [cache EXCEPT ![EntryOf(q)] =
                   [@ EXCEPT !.status = "DONE", !.err = err]]

\* A response without any answer.
AnswerEmpty(q) ==
    /\ HasEntry(q)
    /\ cache' = [cache EXCEPT ![EntryOf(q)] =
                   [@ EXCEPT !.status = "DONE", !.err = SERVER_FAILURE, !.age = 0]]

\* An A record: the server's answer is for the name it was asked for.
AnswerAddress(q, ttl) ==
    /\ HasEntry(q)
    /\ cache' = [cache EXCEPT ![EntryOf(q)] =
                   [@ EXCEPT !.status = "DONE", !.err = NO_ERROR, !.age = 0,
                             !.ttl = ttl, !.ip = q.name]]

\* Answers none of which is an A record, or a packet that ends too early:
\* the status has been set before, and ttl may have been read.
AnswerOther(q) ==
    /\ NoAddress /\ HasEntry(q)
    /\ \E ttl \in TTL \cup {cache[EntryOf(q)].ttl} :
         cache' = [cache EXCEPT ![EntryOf(q)] =
                     [@ EXCEPT !.status = "DONE", !.err = NO_ERROR, !.age = 0,
                               !.ttl = ttl]]

handleDatagram(q) ==
    /\ Idle(eth) /\ q \in asked
    /\ \/ \E err \in Errors : AnswerError(q, err)
       \/ AnswerEmpty(q)
       \/ \E ttl \in TTL : AnswerAddress(q, ttl)
       \/ AnswerOther(q)
    /\ UNCHANGED <<etherVars, asked, others>>

-----------------------------------------------------------------------------
(* handleTimer().                                                          *)

RetryDue(c) == IsPending(c) /\ c.age > RetryAfter
GivesUp(c) == c.attempts >= MaxAttempts

\* (mutant of AfterTimer: the attempts are not counted)
AsksForEver(c) == IF RetryDue(c) THEN [c EXCEPT !.age = 0] ELSE c
\* (mutant of AfterTimer: the limit is compared with > instead of >=)
OneAttemptMore(c) ==
    IF ~RetryDue(c) THEN c
    ELSE IF c.attempts > MaxAttempts THEN [c EXCEPT !.status = "DONE", !.err = NO_RESPONSE]
    ELSE [c EXCEPT !.attempts = @ + 1, !.age = 0]
AfterTimer(c) ==
    IF ~RetryDue(c) THEN c
    ELSE IF GivesUp(c) THEN [c EXCEPT !.status = "DONE", !.err = NO_RESPONSE]
    ELSE [c EXCEPT !.attempts = @ + 1, !.age = 0]

AskedAgain == {i \in DOMAIN cache : RetryDue(cache[i]) /\ ~GivesUp(cache[i])}

\* (mutant of DropTimer: the index is not reset)
KeepsIndex == eth' = Unregistered(Returned(eth), timer[DNS]) /\ UNCHANGED <<timer, round>>
DropTimer == HasUnregistered(DNS, Returned(eth))

\* Only an entry that has just been asked for again keeps the timer.
HandleQueries ==
    /\ Calling(DNS)
    /\ cache' = [i \in DOMAIN cache |-> AfterTimer(cache[i])]
    /\ sendDNSRequest({[id |-> i, name |-> cache[i].name] :
                          i \in {j \in AskedAgain : ~cache[j].freed}})
    /\ IF AskedAgain = {}
       THEN DropTimer
       ELSE eth' = Returned(eth) /\ UNCHANGED <<timer, round>>
    /\ UNCHANGED others

-----------------------------------------------------------------------------
(* The other handlers of the device.                                       *)

Other == Handler \ {DNS}

OtherRegister(h) ==
    /\ others < MaxOthers /\ others' = others + 1
    /\ Register(h)
    /\ UNCHANGED <<cache, asked>>

OtherUnregister(h) ==
    /\ Unregister(h)
    /\ UNCHANGED <<cache, asked, others>>

\* TCPHandler's handleTimer() may call resolve(), or give its timer up.
OtherTimer(h) ==
    /\ Calling(h)
    /\ \/ eth' = Returned(eth) /\ UNCHANGED <<timer, round, cache, asked>>
       \/ \E n \in Name : ResolveOn(n, Returned(eth))
       \/ /\ timer[h] # 0 /\ HasUnregistered(h, Returned(eth))
          /\ UNCHANGED <<cache, asked>>
    /\ UNCHANGED others

Elapse ==
    LET Older(c) == IF (IsPending(c) \/ Resolved(c)) /\ c.age < MaxAge
                    THEN [c EXCEPT !.age = @ + 1] ELSE c
        aged == [i \in DOMAIN cache |-> Older(cache[i])]
    IN  /\ eth.calling # 0 => eth.slot[eth.calling].age < CallTime
        /\ <<aged, Aged(eth)>> # <<cache, eth>>
        /\ cache' = aged /\ eth' = Aged(eth)
        /\ UNCHANGED <<timer, round, asked, others>>

DNSRound == Round /\ UNCHANGED <<cache, asked, others>>

DNSNext ==
    \/ \E n \in Name : resolve(n)
    \/ \E q \in asked : handleDatagram(q)
    \/ HandleQueries
    \/ \E h \in Other : OtherRegister(h) \/ OtherUnregister(h) \/ OtherTimer(h)
    \/ DNSRound
    \/ Elapse

DNSSpec == DNSInit /\ [][DNSNext]_dnsVars

\* As in ARPHandler: the loop over the timers runs for ever and time passes;
\* no request need ever be answered.
DNSFairSpec ==
    /\ DNSSpec
    /\ WF_dnsVars(DNSRound)
    /\ WF_dnsVars(HandleQueries)
    /\ \A h \in Other : WF_dnsVars(OtherTimer(h))
    /\ WF_dnsVars(Elapse)

-----------------------------------------------------------------------------
(* Properties.                                                             *)

DNSTypeOK ==
    /\ TimerTypeOK
    /\ cache \in Seq(Entry) /\ Len(cache) <= CacheCapacity
    /\ asked \subseteq Request
    /\ others \in 0 .. MaxOthers

\* No name has two entries: resolve() stops at the first.  (An entry whose
\* request could not be sent has lost its name.)
NamesUnique ==
    \A i, j \in DOMAIN cache :
        i # j /\ ~cache[i].freed /\ ~cache[j].freed => cache[i].name # cache[j].name

\* However late an answer is, and whatever has been asked for since, an
\* address is stored with the name it was asked for (the id of a request is
\* the index of its entry plus one).
AddressIsOwn == \A i \in DOMAIN cache : cache[i].ip \in {NoIP, cache[i].name}

\* The index that handleTimer() unregisters is the DNSHandler's own, although
\* the timer comes and goes while other handlers take and leave their slots.
DNSTimerIsOwn == timer[DNS] # 0 => eth.slot[timer[DNS]].handler = DNS

\* A lookup ends: an answer comes, or handleTimer() gives up.
LookupEnds ==
    \A n \in Name : (\E i \in DOMAIN cache : cache[i].name = n /\ IsPending(cache[i]))
             ~> ~(\E i \in DOMAIN cache : cache[i].name = n /\ IsPending(cache[i]))

-----------------------------------------------------------------------------
(* What the documents and comments say and the code does not do.           *)

\* DNSHandler.cpp:235: a pending lookup has a timer so it can be retried.
PendingHasTimer ==
    (\E i \in DOMAIN cache : IsPending(cache[i])) => timer[DNS] # 0

=============================================================================
