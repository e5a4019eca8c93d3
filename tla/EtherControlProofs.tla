------------------------- MODULE EtherControlProofs -------------------------
(* Theorems about EtherControl, for any handlers, delays and capacity of   *)
(* the table: TimerTypeOK, TimersCounted, OwnSlot and RoundServesAll.      *)
EXTENDS EtherControl, FiniteSetTheorems, WellFoundedInduction, TLAPS

\* The count of the slots in use is right.
Counted(e) == e.timers = Cardinality(Used(e))

\* e and the indices tm that the handlers keep fit together.
Owned(e, tm) ==
    /\ \A h \in Handler : tm[h] # 0 => e.slot[tm[h]].handler = h
    /\ \A i \in Used(e) : tm[e.slot[i].handler] = i

Indices == [Handler -> Index \cup {0}]

\* What every call of a handler keeps.
TableOK(e, tm) ==
    /\ e \in EtherState /\ tm \in Indices
    /\ Counted(e) /\ Owned(e, tm)

\* The slots in use that the loop has passed.
Passed(e) == {i \in Used(e) : i < e.at}

CallOK(e) == e.calling # 0 => e.calling = e.at /\ e.calling \in Used(e)

\* In a round, what is still owed a call is due and lies ahead, and unless a
\* timer has been unregistered, every call so far was of a slot in use behind.
RoundOK(e, r) ==
    e.at # 0 =>
        /\ \A i \in r.owed : i \in DueSlots(e) /\ i >= e.at /\ i # e.calling
        /\ ~r.dropped => e.processed <= Cardinality(Passed(e))

Rounds == [owed : SUBSET Index, dropped : BOOLEAN]

TimerInv ==
    /\ TableOK(eth, timer)
    /\ round \in Rounds
    /\ CallOK(eth)
    /\ RoundOK(eth, round)

-----------------------------------------------------------------------------
(* What the calls of the handlers do to a table.                           *)

LEMMA UsedFinite ==
    ASSUME NEW e
    PROVE  IsFiniteSet(Used(e)) /\ Cardinality(Used(e)) \in Nat
<1>1. IsFiniteSet(Index)
  BY FS_Interval, TimerAssumption DEF Index
<1>2. Used(e) \in SUBSET Index
  BY DEF Used
<1> QED
  BY <1>1, <1>2, FS_Subset, FS_CardinalityType

LEMMA PassedFinite ==
    ASSUME NEW e
    PROVE  /\ IsFiniteSet(Passed(e)) /\ Cardinality(Passed(e)) \in Nat
           /\ Cardinality(Passed(e)) <= Cardinality(Used(e))
           /\ Cardinality(Passed(e)) = Cardinality(Used(e)) => Passed(e) = Used(e)
<1>1. Passed(e) \in SUBSET Used(e)
  BY DEF Passed
<1> QED
  BY <1>1, UsedFinite, FS_Subset, FS_CardinalityType

\* A search that stops at the first hit has a first hit to stop at.
LEMMA LeastOf ==
    ASSUME NEW S, S # {}, S \subseteq Nat
    PROVE  \E i \in S : \A j \in S : i <= j
<1>1. PICK i \in S : \A j \in S : ~ (<<j, i>> \in OpToRel(<, Nat))
  BY NatLessThanWellFounded, WFMin
<1>2. ASSUME NEW j \in S
      PROVE  i <= j
  <2>1. i \in Nat /\ j \in Nat
    BY <1>1, <1>2
  <2>2. ~ (<<j, i>> \in OpToRel(<, Nat))
    BY <1>1, <1>2
  <2>3. ~ (j < i)
    BY <2>1, <2>2 DEF OpToRel
  <2> QED
    BY <2>1, <2>3
<1> QED
  BY <1>2

\* registerTimer() finds the first free slot.
LEMMA FirstFreeIsFree ==
    ASSUME NEW e, Free(e) # {}
    PROVE  FirstFree(e) \in Free(e)
<1>1. Free(e) \subseteq Nat
  BY TimerAssumption DEF Free, Index
<1> QED
  BY <1>1, LeastOf DEF FirstFree

LEMMA SlotTypes ==
    /\ FreeSlot \in Slot /\ FreeSlot.handler = NoHandler
    /\ \A h \in Handler, d \in Nat :
          LET s == [handler |-> h, delay |-> d, age |-> 0]
          IN  s \in Slot /\ s.handler = h /\ s.handler # NoHandler /\ s.age = 0 /\ s.delay = d
  BY TimerAssumption DEF FreeSlot, Slot

\* registerTimer() called by a handler without a timer.
LEMMA RegisteredKeeps ==
    ASSUME NEW e, NEW tm, TableOK(e, tm), NEW h \in Handler, tm[h] = 0, NEW d \in Nat
    PROVE  LET r == Registered(e, h, d)
               u == [tm EXCEPT ![h] = NewIndex(e)]
           IN  /\ TableOK(r, u)
               /\ Used(e) \subseteq Used(r)
               /\ DueSlots(e) \subseteq DueSlots(r)
               /\ r.at = e.at /\ r.processed = e.processed /\ r.calling = e.calling
               /\ Free(e) # {} => u[h] # 0
<1> DEFINE f == FirstFree(e)
           s == [handler |-> h, delay |-> d, age |-> 0]
           n == e.timers + 1
           r == [e EXCEPT !.slot[f] = s, !.timers = n]
           u == [tm EXCEPT ![h] = f]
<1>1. CASE Free(e) = {}
  <2>1. Registered(e, h, d) = e /\ NewIndex(e) = 0
    BY <1>1 DEF Registered, NewIndex
  <2>2. [tm EXCEPT ![h] = 0] = tm
    BY DEF TableOK, Indices
  <2> QED
    BY <1>1, <2>1, <2>2
<1>2. CASE Free(e) # {}
  <2>1. f \in Index /\ f \notin Used(e) /\ f # 0
    <3>1. f \in Free(e)
      BY <1>2, FirstFreeIsFree
    <3> QED
      BY <3>1, TimerAssumption DEF Free, Index
  <2>2. e \in EtherState /\ tm \in Indices /\ e.timers \in Nat /\ n \in Nat
    BY DEF TableOK, EtherState
  <2>3. s \in Slot /\ s.handler = h /\ h # NoHandler
    BY SlotTypes
  <2>4. Registered(e, h, d) = r /\ NewIndex(e) = f
    BY <1>2 DEF Registered, NewIndex
  <2> HIDE DEF f, s, n
  <2>5. /\ r \in EtherState
        /\ r.slot[f] = s /\ \A j \in Index \ {f} : r.slot[j] = e.slot[j]
        /\ r.timers = n /\ r.at = e.at
        /\ r.processed = e.processed /\ r.calling = e.calling
    BY <2>1, <2>2, <2>3 DEF EtherState
  <2>6. u \in Indices /\ u[h] = f /\ \A g \in Handler \ {h} : u[g] = tm[g]
    BY <2>1, <2>2 DEF Indices
  <2> HIDE DEF r, u
  <2>7. Used(r) = Used(e) \cup {f}
    BY <2>1, <2>3, <2>5 DEF Used
  <2>8. Cardinality(Used(r)) = Cardinality(Used(e)) + 1
    BY <2>1, <2>7, UsedFinite, FS_AddElement, ZenonT(60)
  <2>9. Counted(r)
    BY <2>5, <2>8 DEF Counted, TableOK, n
  <2>10. Owned(r, u)
    <3>1. ASSUME NEW g \in Handler, u[g] # 0
          PROVE  r.slot[u[g]].handler = g
      <4>1. CASE g = h
        BY <4>1, <2>3, <2>5, <2>6
      <4>2. CASE g # h
        <5>1. u[g] = tm[g] /\ tm[g] \in Index /\ e.slot[tm[g]].handler = g
          BY <4>2, <3>1, <2>2, <2>6 DEF TableOK, Owned, Indices
        <5>2. tm[g] # f
          BY <5>1, <2>1, TimerAssumption DEF Used
        <5> QED
          BY <5>1, <5>2, <2>5
      <4> QED
        BY <4>1, <4>2
    <3>2. ASSUME NEW i \in Used(r)
          PROVE  u[r.slot[i].handler] = i
      <4>1. CASE i = f
        BY <4>1, <2>3, <2>5, <2>6
      <4>2. CASE i # f
        <5>1. i \in Used(e) /\ r.slot[i] = e.slot[i] /\ i \in Index /\ i # 0
          BY <4>2, <2>5, <2>7, TimerAssumption DEF Used, Index
        <5>2. tm[e.slot[i].handler] = i /\ e.slot[i].handler \in Handler
          BY <5>1, <2>2 DEF TableOK, Owned, Used, EtherState, Slot
        <5>3. e.slot[i].handler # h
          BY <5>1, <5>2
        <5> QED
          BY <5>1, <5>2, <5>3, <2>6
      <4> QED
        BY <4>1, <4>2
    <3> QED
      BY <3>1, <3>2 DEF Owned
  <2>11. DueSlots(e) \subseteq DueSlots(r)
    BY <2>1, <2>5, <2>7 DEF DueSlots, IsDue
  <2>12. TableOK(r, u)
    BY <2>5, <2>6, <2>9, <2>10 DEF TableOK
  <2>13. Used(e) \subseteq Used(r)
    BY <2>7
  <2>14. [tm EXCEPT ![h] = NewIndex(e)] = u
    BY <2>4 DEF u
  <2> QED
    BY <2>1, <2>4, <2>5, <2>6, <2>11, <2>12, <2>13, <2>14
<1> QED
  BY <1>1, <1>2

\* unregisterTimer() called by a handler with a timer: only its slot goes.
LEMMA UnregisteredKeeps ==
    ASSUME NEW e, NEW tm, TableOK(e, tm), NEW h \in Handler, tm[h] # 0
    PROVE  LET r == Unregistered(e, tm[h])
               u == [tm EXCEPT ![h] = 0]
           IN  /\ TableOK(r, u)
               /\ tm[h] \in Index
               /\ DueSlots(e) \ {tm[h]} \subseteq DueSlots(r)
               /\ r.at = e.at /\ r.processed = e.processed /\ r.calling = e.calling
<1> DEFINE k == tm[h]
           s == FreeSlot
           n == e.timers - 1
           r == [e EXCEPT !.slot[k] = s, !.timers = n]
           u == [tm EXCEPT ![h] = 0]
<1>1. e \in EtherState /\ tm \in Indices /\ e.timers \in Nat
  BY DEF TableOK, EtherState
<1>2. k \in Index /\ k \in Used(e) /\ k # 0 /\ e.slot[k].handler = h
  <2>1. k \in Index /\ e.slot[k].handler = h
    BY <1>1 DEF Indices, TableOK, Owned
  <2> QED
    BY <2>1, TimerAssumption DEF Used
<1>3. Unregistered(e, tm[h]) = r
  BY <1>2 DEF Unregistered
<1>4. s \in Slot /\ s.handler = NoHandler
  BY SlotTypes
<1> HIDE DEF k, s
<1>5. /\ IsFiniteSet(Used(e) \ {k})
      /\ Cardinality(Used(e) \ {k}) = Cardinality(Used(e)) - 1
      /\ Cardinality(Used(e) \ {k}) \in Nat
  BY <1>2, UsedFinite, FS_RemoveElement, FS_CardinalityType
<1>6. n = Cardinality(Used(e) \ {k}) /\ n \in Nat
  BY <1>5 DEF Counted, TableOK
<1> HIDE DEF n
<1>7. /\ r \in EtherState
      /\ r.slot[k] = s /\ \A j \in Index \ {k} : r.slot[j] = e.slot[j]
      /\ r.timers = n /\ r.at = e.at
      /\ r.processed = e.processed /\ r.calling = e.calling
  BY <1>1, <1>2, <1>4, <1>6 DEF EtherState
<1>8. u \in Indices /\ u[h] = 0 /\ \A g \in Handler \ {h} : u[g] = tm[g]
  BY <1>1 DEF Indices
<1> HIDE DEF r, u
<1>9. Used(r) = Used(e) \ {k}
  BY <1>2, <1>4, <1>7 DEF Used
<1>10. Counted(r)
  BY <1>6, <1>7, <1>9 DEF Counted
<1>11. Owned(r, u)
  <2>1. ASSUME NEW g \in Handler, u[g] # 0
        PROVE  r.slot[u[g]].handler = g
    <3>1. g # h /\ u[g] = tm[g] /\ tm[g] \in Index /\ e.slot[tm[g]].handler = g
      BY <2>1, <1>1, <1>8 DEF TableOK, Owned, Indices
    <3>2. tm[g] # k
      BY <3>1, <1>2
    <3> QED
      BY <3>1, <3>2, <1>7
  <2>2. ASSUME NEW i \in Used(r)
        PROVE  u[r.slot[i].handler] = i
    <3>1. i \in Used(e) /\ i # k /\ i \in Index /\ r.slot[i] = e.slot[i]
      BY <1>7, <1>9 DEF Used
    <3>2. tm[e.slot[i].handler] = i /\ e.slot[i].handler \in Handler
      BY <3>1, <1>1 DEF TableOK, Owned, Used, EtherState, Slot
    <3>3. e.slot[i].handler # h
      BY <3>1, <3>2 DEF k
    <3> QED
      BY <3>1, <3>2, <3>3, <1>8
  <2> QED
    BY <2>1, <2>2 DEF Owned
<1>12. DueSlots(e) \ {k} \subseteq DueSlots(r)
  BY <1>7, <1>9 DEF DueSlots, IsDue
<1>13. TableOK(r, u)
  BY <1>7, <1>8, <1>10, <1>11 DEF TableOK
<1>14. [tm EXCEPT ![h] = 0] = u
  BY DEF u
<1> QED
  BY <1>2, <1>3, <1>7, <1>12, <1>13, <1>14 DEF k

\* A table with the same handlers in its slots is as good.
LEMMA SameHandlers ==
    ASSUME NEW e \in EtherState, NEW r \in EtherState, NEW tm, TableOK(e, tm),
           \A i \in Index : r.slot[i].handler = e.slot[i].handler,
           r.timers = e.timers
    PROVE  TableOK(r, tm) /\ Used(r) = Used(e)
<1>1. Used(r) = Used(e)
  BY DEF Used
<1>2. \A i \in Used(e) : i \in Index
  BY DEF Used
<1>3. \A h \in Handler : tm[h] # 0 => tm[h] \in Index
  BY DEF TableOK, Indices
<1> QED
  BY <1>1, <1>2, <1>3 DEF TableOK, Counted, Owned

\* The end of the loop body, host_millis() and the steps of processTimers().
LEMMA ReturnedKeeps ==
    ASSUME NEW e, NEW tm, TableOK(e, tm)
    PROVE  LET r == Returned(e)
           IN  /\ TableOK(r, tm) /\ Used(r) = Used(e) /\ DueSlots(r) = DueSlots(e)
               /\ r.at = e.at + 1 /\ r.processed = e.processed + 1 /\ r.calling = 0
<1> DEFINE a == e.at + 1
           p == e.processed + 1
           r == [e EXCEPT !.calling = 0, !.processed = p, !.at = a]
<1>1. e \in EtherState /\ a \in Nat /\ p \in Nat
  BY DEF TableOK, EtherState
<1>2. Returned(e) = r
  BY DEF Returned
<1> HIDE DEF a, p
<1>3. /\ r \in EtherState /\ r.slot = e.slot /\ r.timers = e.timers
      /\ r.at = a /\ r.processed = p /\ r.calling = 0
  BY <1>1 DEF EtherState
<1> HIDE DEF r
<1>4. TableOK(r, tm) /\ Used(r) = Used(e)
  BY <1>1, <1>3, SameHandlers
<1>5. DueSlots(r) = DueSlots(e)
  BY <1>3, <1>4 DEF DueSlots, IsDue
<1> QED
  BY <1>2, <1>3, <1>4, <1>5 DEF a, p

LEMMA AgedKeeps ==
    ASSUME NEW e, NEW tm, TableOK(e, tm)
    PROVE  LET r == Aged(e)
           IN  /\ TableOK(r, tm) /\ Used(r) = Used(e) /\ DueSlots(e) \subseteq DueSlots(r)
               /\ r.at = e.at /\ r.processed = e.processed /\ r.calling = e.calling
<1> DEFINE sl == [i \in Index |-> IF i \in Used(e) /\ ~IsDue(e, i)
                                  THEN [e.slot[i] EXCEPT !.age = @ + 1] ELSE e.slot[i]]
           r == [e EXCEPT !.slot = sl]
<1>1. e \in EtherState
  BY DEF TableOK
<1>2. Aged(e) = r
  BY DEF Aged
<1>3. ASSUME NEW i \in Index
      PROVE  /\ sl[i] \in Slot
             /\ sl[i].handler = e.slot[i].handler
             /\ IsDue(e, i) => sl[i] = e.slot[i]
  <2> DEFINE s == e.slot[i]
             g == s.age + 1
  <2>1. s \in Slot /\ g \in Nat
    BY <1>1 DEF EtherState, Slot
  <2> HIDE DEF g
  <2>2. /\ [s EXCEPT !.age = g] \in Slot
        /\ [s EXCEPT !.age = g].handler = s.handler
    BY <2>1 DEF Slot
  <2>3. sl[i] = IF i \in Used(e) /\ ~IsDue(e, i) THEN [s EXCEPT !.age = g] ELSE s
    BY DEF g
  <2> QED
    BY <2>1, <2>2, <2>3
<1>4. sl \in [Index -> Slot]
  BY <1>3
<1> HIDE DEF sl
<1>5. /\ r \in EtherState /\ r.slot = sl /\ r.timers = e.timers
      /\ r.at = e.at /\ r.processed = e.processed /\ r.calling = e.calling
  BY <1>1, <1>4 DEF EtherState
<1> HIDE DEF r
<1>6. TableOK(r, tm) /\ Used(r) = Used(e)
  BY <1>1, <1>3, <1>5, SameHandlers
<1>7. DueSlots(e) \subseteq DueSlots(r)
  BY <1>3, <1>5, <1>6 DEF DueSlots, IsDue
<1> QED
  BY <1>2, <1>5, <1>6, <1>7

-----------------------------------------------------------------------------
(* The steps of the specification.                                         *)

LEMMA PassedGrows ==
    ASSUME NEW e, NEW f, Passed(e) \subseteq Passed(f)
    PROVE  Cardinality(Passed(e)) <= Cardinality(Passed(f))
  BY PassedFinite, FS_Subset

\* A round is not disturbed by what leaves the loop where it is and only adds
\* to the slots in use and to those that are due.
LEMMA RoundKept ==
    ASSUME NEW e \in EtherState, NEW f \in EtherState, NEW r, RoundOK(e, r), CallOK(e),
           Used(e) \subseteq Used(f), DueSlots(e) \subseteq DueSlots(f),
           f.at = e.at, f.processed = e.processed, f.calling = e.calling
    PROVE  RoundOK(f, r) /\ CallOK(f)
<1>1. Passed(e) \subseteq Passed(f)
  BY DEF Passed
<1>2. /\ Cardinality(Passed(e)) \in Nat /\ Cardinality(Passed(f)) \in Nat
      /\ Cardinality(Passed(e)) <= Cardinality(Passed(f))
  BY <1>1, PassedGrows, PassedFinite
<1>3. e.processed \in Nat
  BY DEF EtherState
<1> QED
  BY <1>2, <1>3 DEF RoundOK, CallOK

LEMMA TimerTypes ==
    ASSUME TimerInv
    PROVE  /\ eth \in EtherState /\ timer \in Indices
           /\ eth.at \in Nat /\ eth.processed \in Nat /\ eth.timers \in Nat
           /\ eth.calling \in Index \cup {0}
           /\ round \in Rounds /\ round.owed \subseteq Index /\ round.dropped \in BOOLEAN
           /\ eth.at = 0 => eth.calling = 0
  BY TimerAssumption DEF TimerInv, TableOK, EtherState, Rounds, CallOK, Index

LEMMA TimerInit == EtherInit => TimerInv
<1> SUFFICES ASSUME EtherInit PROVE TimerInv
  OBVIOUS
<1>1. /\ eth.slot = [i \in Index |-> FreeSlot] /\ eth.timers = 0 /\ eth.at = 0
      /\ eth.processed = 0 /\ eth.calling = 0 /\ eth \in EtherState
  BY SlotTypes DEF EtherInit, EtherState
<1>2. Used(eth) = {}
  BY <1>1, SlotTypes DEF Used
<1>3. timer \in Indices /\ \A h \in Handler : timer[h] = 0
  BY DEF EtherInit, Indices
<1>4. TableOK(eth, timer)
  BY <1>1, <1>2, <1>3, FS_EmptySet DEF TableOK, Counted, Owned
<1>5. round \in Rounds
  BY DEF EtherInit, Rounds
<1> QED
  BY <1>1, <1>4, <1>5 DEF TimerInv, CallOK, RoundOK

LEMMA BeginRoundInv ==
    ASSUME TimerInv, BeginRound
    PROVE  TimerInv'
<1>1. /\ eth' = [eth EXCEPT !.at = 1, !.processed = 0] /\ eth.at = 0
      /\ round' = [owed |-> DueSlots(eth), dropped |-> FALSE] /\ timer' = timer
  BY DEF BeginRound, Idle
<1>2. /\ eth' \in EtherState /\ eth'.slot = eth.slot /\ eth'.timers = eth.timers
      /\ eth'.at = 1 /\ eth'.processed = 0 /\ eth'.calling = 0
  BY <1>1, TimerTypes DEF EtherState
<1>3. TableOK(eth', timer') /\ Used(eth') = Used(eth)
  BY <1>1, <1>2, TimerTypes, SameHandlers DEF TimerInv
<1>4. DueSlots(eth') = DueSlots(eth)
  BY <1>2, <1>3 DEF DueSlots, IsDue
<1>5. round' \in Rounds /\ DueSlots(eth) \subseteq Index
  BY <1>1 DEF Rounds, DueSlots
<1>6. \A i \in DueSlots(eth) : i >= 1 /\ i # 0
  BY <1>5, TimerAssumption DEF Index
<1>7. 0 <= Cardinality(Passed(eth'))
  BY PassedFinite
<1>8. round'.owed = DueSlots(eth)
  BY <1>1
<1>9. RoundOK(eth', round')
  BY <1>2, <1>4, <1>6, <1>7, <1>8 DEF RoundOK
<1> QED
  BY <1>2, <1>3, <1>5, <1>9 DEF TimerInv, CallOK

LEMMA SkipSlotInv ==
    ASSUME TimerInv, SkipSlot
    PROVE  TimerInv'
<1> DEFINE a == eth.at + 1
<1>1. /\ eth' = [eth EXCEPT !.at = a] /\ timer' = timer /\ round' = round
      /\ eth.at # 0 /\ eth.calling = 0 /\ ~IsDue(eth, eth.at)
  BY DEF SkipSlot, InLoop, Idle
<1>2. a \in Nat /\ a # 0 /\ a > eth.at
  BY TimerTypes
<1> HIDE DEF a
<1>3. /\ eth' \in EtherState /\ eth'.slot = eth.slot /\ eth'.timers = eth.timers
      /\ eth'.at = a /\ eth'.processed = eth.processed /\ eth'.calling = 0
  BY <1>1, <1>2, TimerTypes DEF EtherState
<1>4. TableOK(eth', timer') /\ Used(eth') = Used(eth)
  BY <1>1, <1>3, TimerTypes, SameHandlers DEF TimerInv
<1>5. DueSlots(eth') = DueSlots(eth)
  BY <1>3, <1>4 DEF DueSlots, IsDue
<1>6. \A i \in round.owed : i \in DueSlots(eth') /\ i >= a /\ i # 0
  <2> SUFFICES ASSUME NEW i \in round.owed
               PROVE  i \in DueSlots(eth') /\ i >= a /\ i # 0
    OBVIOUS
  <2>1. i \in DueSlots(eth) /\ i >= eth.at /\ i \in Nat /\ i # 0
    BY <1>1, TimerTypes, TimerAssumption DEF TimerInv, RoundOK, Index
  <2>2. i # eth.at
    BY <1>1, <2>1 DEF DueSlots
  <2> QED
    BY <1>5, <2>1, <2>2, TimerTypes DEF a
<1>7. Cardinality(Passed(eth)) <= Cardinality(Passed(eth'))
  <2>1. \A i \in Used(eth) : i \in Nat
    BY TimerAssumption DEF Used, Index
  <2>2. Passed(eth) \subseteq Passed(eth')
    BY <1>2, <1>3, <1>4, <2>1, TimerTypes DEF Passed
  <2> QED
    BY <2>2, PassedGrows
<1>8. ~round.dropped => eth.processed <= Cardinality(Passed(eth'))
  BY <1>1, <1>7, TimerTypes, PassedFinite DEF TimerInv, RoundOK
<1>9. RoundOK(eth', round')
  BY <1>1, <1>3, <1>6, <1>8 DEF RoundOK
<1> QED
  BY <1>1, <1>3, <1>4, <1>9, TimerTypes DEF TimerInv, CallOK

LEMMA CallSlotInv ==
    ASSUME TimerInv, CallSlot
    PROVE  TimerInv'
<1> DEFINE k == eth.at
           s == [eth.slot[k] EXCEPT !.age = 0]
<1>1. /\ eth' = [eth EXCEPT !.slot[k] = s, !.calling = k]
      /\ round' = [round EXCEPT !.owed = @ \ {k}] /\ timer' = timer
      /\ k # 0 /\ eth.calling = 0 /\ k \in Used(eth) /\ k \in Index
  BY DEF CallSlot, InLoop, Idle, IsDue, Used
<1>2. s \in Slot /\ s.handler = eth.slot[k].handler
  BY <1>1, TimerTypes DEF EtherState, Slot
<1> HIDE DEF k, s
<1>3. /\ eth' \in EtherState /\ eth'.slot[k] = s
      /\ \A j \in Index \ {k} : eth'.slot[j] = eth.slot[j]
      /\ eth'.timers = eth.timers /\ eth'.at = eth.at
      /\ eth'.processed = eth.processed /\ eth'.calling = k
  BY <1>1, <1>2, TimerTypes DEF EtherState
<1>4. TableOK(eth', timer') /\ Used(eth') = Used(eth)
  <2>1. \A i \in Index : eth'.slot[i].handler = eth.slot[i].handler
    BY <1>2, <1>3
  <2> QED
    BY <1>1, <1>3, <2>1, TimerTypes, SameHandlers DEF TimerInv
<1>5. DueSlots(eth) \ {k} \subseteq DueSlots(eth')
  BY <1>3, <1>4 DEF DueSlots, IsDue
<1>6. Passed(eth') = Passed(eth)
  BY <1>3, <1>4 DEF Passed
<1>7. round' \in Rounds /\ round'.owed = round.owed \ {k} /\ round'.dropped = round.dropped
  BY <1>1, TimerTypes DEF Rounds
<1>8. RoundOK(eth', round')
  BY <1>1, <1>3, <1>5, <1>6, <1>7 DEF TimerInv, RoundOK, k
<1>9. CallOK(eth')
  BY <1>1, <1>3, <1>4 DEF CallOK, k
<1> QED
  BY <1>4, <1>7, <1>8, <1>9 DEF TimerInv

LEMMA EndRoundInv ==
    ASSUME TimerInv, EndRound
    PROVE  TimerInv' /\ (round.owed = {} \/ round.dropped)
<1>1. /\ eth' = [eth EXCEPT !.at = 0] /\ timer' = timer /\ round' = round
      /\ eth.at # 0 /\ eth.calling = 0
      /\ eth.processed >= eth.timers \/ eth.at > TimerCapacity
  BY TimerTypes, TimerAssumption DEF EndRound, InLoop, Idle, LoopGoesOn
<1>2. /\ eth' \in EtherState /\ eth'.slot = eth.slot /\ eth'.timers = eth.timers
      /\ eth'.at = 0 /\ eth'.calling = 0
  BY <1>1, TimerTypes DEF EtherState
<1>3. TableOK(eth', timer')
  BY <1>1, <1>2, TimerTypes, SameHandlers DEF TimerInv
<1>4. TimerInv'
  BY <1>1, <1>2, <1>3, TimerTypes DEF TimerInv, CallOK, RoundOK
<1>5. ASSUME ~round.dropped, NEW i \in round.owed
      PROVE  FALSE
  <2>1. i \in DueSlots(eth) /\ i \in Used(eth) /\ i >= eth.at /\ i \in 1 .. TimerCapacity
    BY <1>1, <1>5, TimerTypes DEF TimerInv, RoundOK, DueSlots, IsDue, Index
  <2>2. CASE eth.at > TimerCapacity
    BY <2>1, <2>2, TimerTypes, TimerAssumption
  <2>3. CASE eth.processed >= eth.timers
    <3>1. eth.timers = Cardinality(Used(eth)) /\ eth.processed <= Cardinality(Passed(eth))
      BY <1>1, <1>5 DEF TimerInv, TableOK, Counted, RoundOK
    <3>2. Passed(eth) = Used(eth)
      BY <2>3, <3>1, PassedFinite, UsedFinite, TimerTypes
    <3>3. i < eth.at
      BY <2>1, <3>2 DEF Passed
    <3> QED
      BY <2>1, <3>3, TimerTypes
  <2> QED
    BY <1>1, <2>2, <2>3
<1> QED
  BY <1>4, <1>5

LEMMA AgedInv ==
    ASSUME TimerInv, eth' = Aged(eth), UNCHANGED <<timer, round>>
    PROVE  TimerInv'
<1>1. /\ TableOK(eth', timer') /\ Used(eth') = Used(eth)
      /\ DueSlots(eth) \subseteq DueSlots(eth')
      /\ eth'.at = eth.at /\ eth'.processed = eth.processed /\ eth'.calling = eth.calling
  BY AgedKeeps DEF TimerInv
<1>2. RoundOK(eth', round) /\ CallOK(eth')
  BY <1>1, RoundKept, TimerTypes DEF TimerInv, TableOK
<1> QED
  BY <1>1, <1>2, TimerTypes DEF TimerInv

\* Aged(eth) is a step of the timers unless it changes nothing.
LEMMA AgedStep ==
    ASSUME TimerInv, eth' = Aged(eth), UNCHANGED <<timer, round>>
    PROVE  TimerElapse \/ UNCHANGED etherVars
<1>1. CASE Used(eth) # DueSlots(eth)
  BY <1>1 DEF TimerElapse
<1>2. CASE Used(eth) = DueSlots(eth)
  <2>1. \A i \in Index : ~(i \in Used(eth) /\ ~IsDue(eth, i))
    BY <1>2 DEF DueSlots
  <2>2. eth \in EtherState
    BY DEF TimerInv, TableOK
  <2>3. [i \in Index |-> IF i \in Used(eth) /\ ~IsDue(eth, i)
                         THEN [eth.slot[i] EXCEPT !.age = @ + 1] ELSE eth.slot[i]]
           = [i \in Index |-> eth.slot[i]]
    BY <2>1
  <2>4. [i \in Index |-> eth.slot[i]] = eth.slot
    BY <2>2 DEF EtherState
  <2>5. Aged(eth) = [eth EXCEPT !.slot = eth.slot]
    BY <2>3, <2>4 DEF Aged
  <2>6. [eth EXCEPT !.slot = eth.slot] = eth
    BY <2>2 DEF EtherState
  <2> QED
    BY <2>5, <2>6 DEF etherVars
<1> QED
  BY <1>1, <1>2

\* What a handler may do to a table e that is in order.
HandlerInv(e) ==
    TableOK(e, timer) /\ CallOK(e) /\ RoundOK(e, round) /\ round \in Rounds

LEMMA HasRegisteredInv ==
    ASSUME NEW e, HandlerInv(e), NEW h \in Handler, timer[h] = 0, NEW d \in Nat,
           HasRegistered(h, d, e)
    PROVE  TimerInv'
<1>1. /\ eth' = Registered(e, h, d) /\ timer' = [timer EXCEPT ![h] = NewIndex(e)]
      /\ round' = round
  BY DEF HasRegistered
<1>2. /\ TableOK(eth', timer') /\ Used(e) \subseteq Used(eth')
      /\ DueSlots(e) \subseteq DueSlots(eth')
      /\ eth'.at = e.at /\ eth'.processed = e.processed /\ eth'.calling = e.calling
  BY <1>1, RegisteredKeeps DEF HandlerInv
<1>3. RoundOK(eth', round) /\ CallOK(eth')
  BY <1>2, RoundKept DEF HandlerInv, TableOK
<1> QED
  BY <1>1, <1>2, <1>3 DEF TimerInv, HandlerInv

LEMMA HasUnregisteredInv ==
    ASSUME NEW e, HandlerInv(e), e.calling = 0, NEW h \in Handler, timer[h] # 0,
           HasUnregistered(h, e)
    PROVE  TimerInv'
<1>1. /\ eth' = Unregistered(e, timer[h]) /\ timer' = [timer EXCEPT ![h] = 0]
      /\ round' = [owed |-> round.owed \ {timer[h]}, dropped |-> TRUE]
  BY DEF HasUnregistered
<1>2. /\ TableOK(eth', timer') /\ DueSlots(e) \ {timer[h]} \subseteq DueSlots(eth')
      /\ eth'.at = e.at /\ eth'.processed = e.processed /\ eth'.calling = 0
  BY <1>1, UnregisteredKeeps DEF HandlerInv
<1>3. /\ round' \in Rounds /\ round'.dropped = TRUE
      /\ round'.owed = round.owed \ {timer[h]}
  BY <1>1 DEF HandlerInv, Rounds
<1>4. RoundOK(eth', round')
  BY <1>2, <1>3 DEF HandlerInv, RoundOK
<1> QED
  BY <1>2, <1>3, <1>4 DEF TimerInv, CallOK

\* After handleTimer() the loop is in order again, one slot further.
LEMMA ReturnedInv ==
    ASSUME TimerInv, eth.calling # 0
    PROVE  HandlerInv(Returned(eth)) /\ Returned(eth).calling = 0
<1> DEFINE e == Returned(eth)
           k == eth.at
<1>1. /\ TableOK(e, timer) /\ Used(e) = Used(eth) /\ DueSlots(e) = DueSlots(eth)
      /\ e.at = k + 1 /\ e.processed = eth.processed + 1 /\ e.calling = 0
  BY ReturnedKeeps DEF TimerInv
<1> HIDE DEF e
<1>2. k \in Nat /\ k # 0 /\ k = eth.calling /\ k \in Used(eth)
  BY TimerTypes DEF TimerInv, CallOK
<1>3. k \notin Passed(eth) /\ Passed(e) = Passed(eth) \cup {k}
  <2>1. \A i \in Used(eth) : i \in Nat
    BY TimerAssumption DEF Used, Index
  <2> QED
    BY <1>1, <1>2, <2>1 DEF Passed
<1>4. /\ Cardinality(Passed(e)) = Cardinality(Passed(eth)) + 1
      /\ Cardinality(Passed(eth)) \in Nat
  BY <1>3, PassedFinite, FS_AddElement
<1>5. \A i \in round.owed : i \in DueSlots(e) /\ i >= e.at /\ i # e.calling
  <2> SUFFICES ASSUME NEW i \in round.owed
               PROVE  i \in DueSlots(e) /\ i >= e.at /\ i # e.calling
    OBVIOUS
  <2>1. i \in DueSlots(eth) /\ i >= k /\ i # k /\ i \in Nat
    BY <1>2, TimerTypes, TimerAssumption DEF TimerInv, RoundOK, Index
  <2> QED
    BY <1>1, <1>2, <2>1
<1>6. ~round.dropped => e.processed <= Cardinality(Passed(e))
  BY <1>1, <1>2, <1>4, TimerTypes DEF TimerInv, RoundOK
<1>7. RoundOK(e, round) /\ CallOK(e)
  BY <1>1, <1>5, <1>6 DEF RoundOK, CallOK
<1> QED
  BY <1>1, <1>7, TimerTypes DEF HandlerInv, e

LEMMA IdleInv ==
    ASSUME TimerInv
    PROVE  HandlerInv(eth)
  BY DEF TimerInv, HandlerInv

LEMMA RegisterInv ==
    ASSUME TimerInv, NEW h \in Handler, Register(h)
    PROVE  TimerInv'
<1>1. PICK d \in Delays[h] : HasRegistered(h, d, eth)
  BY DEF Register
<1>2. timer[h] = 0 /\ d \in Nat
  BY <1>1, TimerAssumption DEF Register
<1> QED
  BY <1>1, <1>2, IdleInv, HasRegisteredInv

LEMMA UnregisterInv ==
    ASSUME TimerInv, NEW h \in Handler, Unregister(h)
    PROVE  TimerInv'
<1>1. eth.calling = 0 /\ timer[h] # 0 /\ HasUnregistered(h, eth)
  BY TimerTypes DEF Unregister, Idle
<1> QED
  BY <1>1, IdleInv, HasUnregisteredInv

LEMMA handleTimerInv ==
    ASSUME TimerInv, NEW h \in Handler, handleTimer(h)
    PROVE  TimerInv'
<1> DEFINE e == Returned(eth)
<1>1. HandlerInv(e) /\ e.calling = 0
  BY ReturnedInv DEF handleTimer, Calling
<1>2. CASE eth' = e /\ UNCHANGED <<timer, round>>
  BY <1>1, <1>2 DEF HandlerInv, TimerInv
<1>3. CASE \E g \in Handler : timer[g] = 0 /\ \E d \in Delays[g] : HasRegistered(g, d, e)
  <2>1. PICK g \in Handler : timer[g] = 0 /\ \E d \in Delays[g] : HasRegistered(g, d, e)
    BY <1>3
  <2>2. PICK d \in Delays[g] : HasRegistered(g, d, e)
    BY <2>1
  <2>3. d \in Nat
    BY <2>2, TimerAssumption
  <2> QED
    BY <1>1, <2>1, <2>2, <2>3, HasRegisteredInv
<1>4. CASE \E g \in Handler : timer[g] # 0 /\ HasUnregistered(g, e)
  BY <1>1, <1>4, HasUnregisteredInv
<1> QED
  BY <1>2, <1>3, <1>4 DEF handleTimer

LEMMA TimerNextInv ==
    ASSUME TimerInv, [TimerNext]_etherVars
    PROVE  TimerInv'
<1>1. CASE BeginRound
  BY <1>1, BeginRoundInv
<1>2. CASE SkipSlot
  BY <1>2, SkipSlotInv
<1>3. CASE CallSlot
  BY <1>3, CallSlotInv
<1>4. CASE EndRound
  BY <1>4, EndRoundInv
<1>5. CASE \E h \in Handler : Register(h) \/ Unregister(h) \/ handleTimer(h)
  BY <1>5, RegisterInv, UnregisterInv, handleTimerInv
<1>6. CASE TimerElapse
  BY <1>6, AgedInv DEF TimerElapse
<1>7. CASE UNCHANGED etherVars
  BY <1>7 DEF etherVars, TimerInv, TableOK, Counted, Owned, CallOK, RoundOK, Used, Index,
              DueSlots, IsDue, Passed
<1> QED
  BY <1>1, <1>2, <1>3, <1>4, <1>5, <1>6, <1>7 DEF TimerNext, Round

\* TimerInv is inductive: whatever handlers register and unregister, inside
\* and outside the loop of processTimers().
THEOREM TimersInductive == TimerSpec => []TimerInv
  BY TimerInit, TimerNextInv, PTL DEF TimerSpec

\* The table, the indices the handlers keep and the history keep their types.
THEOREM TimerTypeCorrect == TimerSpec => []TimerTypeOK
<1>1. TimerInv => TimerTypeOK
  BY DEF TimerInv, TableOK, TimerTypeOK, Indices, Rounds
<1> QED
  BY <1>1, TimersInductive, PTL

\* registerTimer() and unregisterTimer() keep timers, which bounds the loop, at
\* the number of slots in use, for tables of any size.
THEOREM CountIsRight == TimerSpec => []TimersCounted
<1>1. TimerInv => TimersCounted
  BY DEF TimerInv, TableOK, Counted, TimersCounted
<1> QED
  BY <1>1, TimersInductive, PTL

\* The index that registerTimer() gives a handler names its own slot until it
\* unregisters it: no handler ever takes away another one's timer.
THEOREM SlotsAreOwn == TimerSpec => []OwnSlot
<1>1. TimerInv => OwnSlot
  BY DEF TimerInv, TableOK, Owned, OwnSlot
<1> QED
  BY <1>1, TimersInductive, PTL

\* processTimers() may stop before the end of the table, and all the same calls
\* every handler due when the round began, unless one leaves the table.
THEOREM RoundsServeAll == TimerSpec => RoundServesAll
<1>1. TimerInv /\ [TimerNext]_etherVars
        => [EndRound => round.owed = {} \/ round.dropped]_etherVars
  BY EndRoundInv
<1>2. TimerSpec => [][EndRound => round.owed = {} \/ round.dropped]_etherVars
  BY <1>1, TimersInductive, PTL DEF TimerSpec
<1> QED
  BY <1>2 DEF RoundServesAll

=============================================================================
