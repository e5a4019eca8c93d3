---------------------------- MODULE EtherControl ----------------------------
(***************************************************************************)
(* The timers of EtherControl.h / EtherControl.cpp: a table of few slots   *)
(* which ARPHandler, DNSHandler and TCPHandler share, and the loop over it *)
(* at the end of processFrame().                                           *)
(*                                                                         *)
(* The operators on the state e of an EtherControl are what the handlers   *)
(* call; ARPHandler and DNSHandler extend this module and use them.  The   *)
(* specification TimerSpec puts handlers around the table that register    *)
(* and unregister their timer in any way the library's handlers do.        *)
(***************************************************************************)
EXTENDS Naturals, FiniteSets

CONSTANTS
    Handler,        \* the objects that implement TimerHandler
    NoHandler,      \* the NULL of a free slot
    TimerCapacity,  \* slots of the table, 3 unless the constructor is told otherwise
    Delays          \* Delays[h]: the millisDelays that h registers its timer with

ASSUME TimerAssumption ==
    /\ NoHandler \notin Handler
    /\ TimerCapacity \in Nat
    /\ Delays \in [Handler -> SUBSET Nat]

VARIABLES
    eth,    \* the timers of the EtherControl, and where its loop is
    timer,  \* timer[h]: the index h keeps of its timer, 0 for none
    round   \* history: the slots due when the round began and not called yet,
            \* and whether a timer has been unregistered since

etherVars == <<eth, timer, round>>

Index == 1 .. TimerCapacity

\* age is host_millis() - startTime; past the delay it need not be told apart.
Slot == [handler : Handler \cup {NoHandler}, delay : Nat, age : Nat]
FreeSlot == [handler |-> NoHandler, delay |-> 0, age |-> 0]

\* at is i + 1 of processTimers() and 0 outside; calling is the slot whose
\* startTime has been set and whose handleTimer() is about to run.
EtherState == [slot : [Index -> Slot], timers : Nat, at : Nat,
               processed : Nat, calling : Index \cup {0}]

Used(e) == {i \in Index : e.slot[i].handler # NoHandler}
Free(e) == Index \ Used(e)
IsDue(e, i) == i \in Used(e) /\ e.slot[i].age > e.slot[i].delay
DueSlots(e) == {i \in Index : IsDue(e, i)}
Idle(e) == e.at = 0

-----------------------------------------------------------------------------
(* The calls of the handlers.                                              *)

FirstFree(e) == CHOOSE i \in Free(e) : \A j \in Free(e) : i <= j

\* registerTimer(): the index it returns, and the table it leaves.
\* (mutant of NewIndex: counted from two)
CountsFromTwo(e) == IF Free(e) = {} THEN 0 ELSE FirstFree(e) + 1
NewIndex(e) == IF Free(e) = {} THEN 0 ELSE FirstFree(e)

\* (mutant of Registered: the last slot is taken without looking whether it is free)
TakesLast(e, h, d) ==
    [e EXCEPT !.slot[TimerCapacity] = [handler |-> h, delay |-> d, age |-> 0],
              !.timers = @ + 1]
Registered(e, h, d) ==
    IF Free(e) = {} THEN e
    ELSE [e EXCEPT !.slot[FirstFree(e)] = [handler |-> h, delay |-> d, age |-> 0],
                   !.timers = @ + 1]

\* (mutant of Unregistered: timers is left as it is)
KeepsCount(e, i) ==
    IF i \in Used(e) THEN [e EXCEPT !.slot[i] = FreeSlot] ELSE e
Unregistered(e, i) ==
    IF i \in Used(e)
    THEN [e EXCEPT !.slot[i] = FreeSlot, !.timers = @ - 1]
    ELSE e

-----------------------------------------------------------------------------
(* processTimers(), called at the end of processFrame().                   *)

EtherInit ==
    /\ eth = [slot |-> [i \in Index |-> FreeSlot], timers |-> 0, at |-> 0,
              processed |-> 0, calling |-> 0]
    /\ timer = [h \in Handler |-> 0]
    /\ round = [owed |-> {}, dropped |-> FALSE]

InLoop == ~Idle(eth) /\ eth.calling = 0
LoopGoesOn == eth.processed < eth.timers /\ eth.at <= TimerCapacity

BeginRound ==
    /\ Idle(eth)
    /\ eth' = [eth EXCEPT !.at = 1, !.processed = 0]
    /\ round' = [owed |-> DueSlots(eth), dropped |-> FALSE]
    /\ UNCHANGED timer

\* (mutant of SkipSlot: a slot is passed over whether or not it is due)
SkipAnySlot ==
    /\ InLoop /\ LoopGoesOn
    /\ eth' = [eth EXCEPT !.at = @ + 1]
    /\ UNCHANGED <<timer, round>>
SkipSlot ==
    /\ InLoop /\ LoopGoesOn /\ ~IsDue(eth, eth.at)
    /\ eth' = [eth EXCEPT !.at = @ + 1]
    /\ UNCHANGED <<timer, round>>

\* A due slot starts a new delay before its handler runs.
CallSlot ==
    /\ InLoop /\ LoopGoesOn /\ IsDue(eth, eth.at)
    /\ eth' = [eth EXCEPT !.slot[eth.at].age = 0, !.calling = eth.at]
    /\ round' = [round EXCEPT !.owed = @ \ {eth.at}]
    /\ UNCHANGED timer

EndRound ==
    /\ InLoop /\ ~LoopGoesOn
    /\ eth' = [eth EXCEPT !.at = 0]
    /\ UNCHANGED <<timer, round>>

Round == BeginRound \/ SkipSlot \/ CallSlot \/ EndRound

\* h's handleTimer() runs, and what it does to e is followed by the end of
\* the loop body.
Calling(h) == eth.calling # 0 /\ eth.slot[eth.calling].handler = h
Returned(e) == [e EXCEPT !.calling = 0, !.processed = @ + 1, !.at = @ + 1]

\* host_millis() moves on; Aged(e) is the table a millisecond later.
Aged(e) ==
    [e EXCEPT !.slot =
        [i \in Index |-> IF i \in Used(e) /\ ~IsDue(e, i)
                         THEN [e.slot[i] EXCEPT !.age = @ + 1] ELSE e.slot[i]]]

-----------------------------------------------------------------------------
(* The table among handlers that do anything the library's handlers do: a  *)
(* handler registers its timer when it has none, from the application or   *)
(* from any handleTimer(), and unregisters it from either.                 *)

HasRegistered(h, d, e) ==
    /\ eth' = Registered(e, h, d)
    /\ timer' = [timer EXCEPT ![h] = NewIndex(e)]
    /\ UNCHANGED round

HasUnregistered(h, e) ==
    /\ eth' = Unregistered(e, timer[h])
    /\ timer' = [timer EXCEPT ![h] = 0]
    /\ round' = [owed |-> round.owed \ {timer[h]}, dropped |-> TRUE]

Register(h) ==
    /\ Idle(eth) /\ timer[h] = 0
    /\ \E d \in Delays[h] : HasRegistered(h, d, eth)

Unregister(h) ==
    /\ Idle(eth) /\ timer[h] # 0
    /\ HasUnregistered(h, eth)

handleTimer(h) ==
    /\ Calling(h)
    /\ LET e == Returned(eth) IN
       \/ eth' = e /\ UNCHANGED <<timer, round>>
       \/ \E g \in Handler : timer[g] = 0 /\ \E d \in Delays[g] : HasRegistered(g, d, e)
       \/ \E g \in Handler : timer[g] # 0 /\ HasUnregistered(g, e)

TimerElapse ==
    /\ Used(eth) # DueSlots(eth)
    /\ eth' = Aged(eth)
    /\ UNCHANGED <<timer, round>>

TimerNext ==
    \/ Round
    \/ \E h \in Handler : Register(h) \/ Unregister(h) \/ handleTimer(h)
    \/ TimerElapse

TimerSpec == EtherInit /\ [][TimerNext]_etherVars

-----------------------------------------------------------------------------
(* Properties.                                                             *)

TimerTypeOK ==
    /\ eth \in EtherState
    /\ timer \in [Handler -> Index \cup {0}]
    /\ round \in [owed : SUBSET Index, dropped : BOOLEAN]

\* timers, which bounds the loop of processTimers(), counts the slots in use
\* (registerTimer() and unregisterTimer() keep it by hand).
TimersCounted == eth.timers = Cardinality(Used(eth))

\* The index a handler keeps names a slot that is its own, and no handler has
\* a second slot: unregisterTimer(timer) never takes another one's timer.
OwnSlot ==
    /\ \A h \in Handler : timer[h] # 0 => eth.slot[timer[h]].handler = h
    /\ \A i \in Used(eth) : timer[eth.slot[i].handler] = i

\* A round that nobody unregistered a timer in calls every handler that was
\* due when it began, although the loop ends as soon as it has called as many
\* handlers as there are timers.
RoundServesAll ==
    [][EndRound => round.owed = {} \/ round.dropped]_etherVars

=============================================================================
