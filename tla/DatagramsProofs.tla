-------------------------- MODULE DatagramsProofs ---------------------------
(* Theorems about Datagrams: DatagramToListener, for tables of any size and  *)
(* any ports, receivers and frames, and the receive ring of the driver below *)
(* it, for a ring of any size: NeverDeaf and FramesImplemented.  And about   *)
(* IPRouting, for addresses and bytes of any length and every configuration  *)
(* whose mask a network may have.                                            *)
EXTENDS Datagrams, IPRouting, SequenceTheorems, WellFoundedInduction, TLAPS

\* The rows of a registry: a free one has no handler, another the one that is
\* named for its key.
Registry(table, n) ==
    /\ DOMAIN table = 1 .. n
    /\ \A i \in 1 .. n :
          table[i].handler = IF table[i].key = 0 THEN NULL ELSE table[i].key

\* Of the listeners' rows, those without a receiver are the free ones, and no
\* port has two.
ReceiversOK(rows) ==
    /\ rows \in [1 .. ReceiverCount -> [port : Port \cup {0}, receiver : Receiver \cup {NULL}]]
    /\ \A i \in 1 .. ReceiverCount : rows[i].port = 0 <=> rows[i].receiver = NULL
    /\ \A i, j \in 1 .. ReceiverCount :
          rows[i].port = rows[j].port /\ rows[i].port # 0 => i = j

\* The rows say what the application has last asked for.
AsAsked(rows, w) ==
    /\ w \in [Port -> Receiver \cup {NULL}]
    /\ \A p \in Port :
          /\ \A i \in 1 .. ReceiverCount : rows[i].port = p => rows[i].receiver = w[p]
          /\ w[p] # NULL => \E i \in 1 .. ReceiverCount : rows[i].port = p

\* UDP and TCP register with IP only once it is there.
InOrder == handlerOf(ipRegistry, UDP) # NULL => handlerOf(protocolRegistry, IP) # NULL

TablesInv ==
    /\ Registry(protocolRegistry, Rows)
    /\ Registry(ipRegistry, IPRows)
    /\ InOrder
    /\ ReceiversOK(receivers)
    /\ AsAsked(receivers, wanted)

-----------------------------------------------------------------------------
(* Searches of the tables.                                                 *)

\* A loop over the rows that stops at the first hit finds one if there is one.
LEMMA FirstRowIsOne ==
    ASSUME NEW S, S \subseteq Nat \ {0}
    PROVE  /\ FirstRow(S) = 0 <=> S = {}
           /\ S # {} => FirstRow(S) \in S
<1>1. CASE S = {}
  BY <1>1 DEF FirstRow
<1>2. CASE S # {}
  <2>1. PICK i \in S : \A j \in S : ~ (<<j, i>> \in OpToRel(<, Nat))
    <3>1. S \subseteq Nat
      OBVIOUS
    <3> QED
      BY <1>2, <3>1, NatLessThanWellFounded, WFMin
  <2>2. ASSUME NEW j \in S
        PROVE  i <= j
    <3>1. i \in Nat /\ j \in Nat
      OBVIOUS
    <3>2. ~ (<<j, i>> \in OpToRel(<, Nat))
      BY <2>1
    <3>3. ~ (j < i)
      BY <3>1, <3>2 DEF OpToRel
    <3> QED
      BY <3>1, <3>3
  <2>3. (CHOOSE k \in S : \A j \in S : k <= j) \in S
    BY <2>2
  <2> QED
    BY <1>2, <2>3 DEF FirstRow
<1> QED
  BY <1>1, <1>2

\* A handler is found under its own key and under no other.
LEMMA FoundByKey ==
    ASSUME NEW table, NEW n \in Nat, Registry(table, n), NEW key
    PROVE  handlerOf(table, key) # NULL => handlerOf(table, key) = key
<1> DEFINE S == {j \in DOMAIN table : table[j].key = key}
<1>1. S \subseteq Nat \ {0}
  BY DEF Registry
<1>2. CASE FirstRow(S) = 0
  BY <1>2 DEF handlerOf
<1>3. CASE FirstRow(S) # 0
  <2>1. FirstRow(S) \in S
    BY <1>1, <1>3, FirstRowIsOne
  <2>2. handlerOf(table, key) = table[FirstRow(S)].handler
    BY <1>3 DEF handlerOf
  <2> HIDE DEF handlerOf
  <2> QED
    BY <2>1, <2>2 DEF Registry
<1> QED
  BY <1>2, <1>3

\* Registration keeps a registry one.
LEMMA RegisteredKeeps ==
    ASSUME NEW table, NEW n \in Nat, Registry(table, n), NEW key \in Nat \ {0}
    PROVE  Registry(Registered(table, key), n)
<1> DEFINE k == FirstRow({j \in DOMAIN table : table[j].key \in {0, key}})
           row == [key |-> key, handler |-> key]
<1>1. row.key = key /\ row.handler = key
  OBVIOUS
<1>2. Registered(table, key) = IF k = 0 THEN table ELSE [table EXCEPT ![k] = row]
  BY DEF Registered
<1> HIDE DEF k, row
<1> QED
  BY <1>1, <1>2 DEF Registry

\* getListener() returns what the application has asked for, for any port.
LEMMA ListenerIsAsked ==
    ASSUME ReceiversOK(receivers), AsAsked(receivers, wanted), NEW port
    PROVE  getListener(port) = IF port \in Port THEN wanted[port] ELSE NULL
<1> DEFINE S == {j \in DOMAIN receivers : receivers[j].port = port}
           i == FirstRow(S)
<1>1. DOMAIN receivers = 1 .. ReceiverCount
  BY DEF ReceiversOK
<1>2. S \subseteq Nat \ {0}
  BY <1>1
<1>3. getListener(port) = IF i = 0 THEN NULL ELSE receivers[i].receiver
  BY DEF getListener
<1>4. CASE i = 0
  <2>1. \A j \in 1 .. ReceiverCount : receivers[j].port # port
    <3>1. S = {}
      BY <1>2, <1>4, FirstRowIsOne
    <3> QED
      BY <1>1, <3>1
  <2>2. port \in Port => wanted[port] = NULL
    BY <2>1 DEF AsAsked
  <2> HIDE DEF i, S
  <2> QED
    BY <1>3, <1>4, <2>2
<1>5. CASE i # 0
  <2>1. i \in 1 .. ReceiverCount /\ receivers[i].port = port
    BY <1>1, <1>2, <1>5, FirstRowIsOne
  <2> HIDE DEF i, S
  <2>2. port \in Port => receivers[i].receiver = wanted[port]
    BY <2>1 DEF AsAsked
  <2>3. port \notin Port => receivers[i].receiver = NULL
    <3>1. receivers[i].port \in Port \cup {0}
      BY <2>1 DEF ReceiversOK
    <3> QED
      BY <2>1, <3>1 DEF ReceiversOK
  <2> QED
    BY <1>3, <1>5, <2>2, <2>3
<1> QED
  BY <1>4, <1>5

-----------------------------------------------------------------------------
(* The calls of the application.                                           *)

LEMMA RegisterKeeps ==
    ASSUME TablesInv, NEW port \in Port, NEW r \in Receiver, registerListener(port, r)
    PROVE  ReceiversOK(receivers') /\ AsAsked(receivers', wanted')
<1> DEFINE own == {j \in DOMAIN receivers : receivers[j].port = port}
           free == {j \in DOMAIN receivers : receivers[j].receiver = NULL}
           i == RowFor(port)
           row == [port |-> port, receiver |-> r]
<1>1. /\ ReceiversOK(receivers) /\ AsAsked(receivers, wanted)
      /\ DOMAIN receivers = 1 .. ReceiverCount
  BY DEF TablesInv, ReceiversOK
<1>2. CASE i = 0
  BY <1>1, <1>2 DEF registerListener
<1>3. CASE i # 0
  <2>0. own \subseteq Nat \ {0} /\ free \subseteq Nat \ {0}
    BY <1>1
  <2>1. /\ i \in 1 .. ReceiverCount
        /\ \A j \in 1 .. ReceiverCount : receivers[j].port = port => j = i
        /\ receivers[i].port \in {port, 0}
    <3>1. CASE FirstRow(own) # 0
      <4>1. i \in own
        BY <2>0, <3>1, FirstRowIsOne DEF RowFor
      <4> QED
        BY <1>1, <4>1, TableAssumption DEF ReceiversOK
    <3>2. CASE FirstRow(own) = 0
      <4>1. i = FirstRow(free)
        BY <3>2 DEF RowFor, FreeRow
      <4>2. i \in free
        BY <1>3, <2>0, <4>1, FirstRowIsOne
      <4>3. own = {}
        BY <2>0, <3>2, FirstRowIsOne
      <4> QED
        BY <1>1, <4>2, <4>3 DEF ReceiversOK
    <3> QED
      BY <3>1, <3>2
  <2>2. /\ receivers' = [receivers EXCEPT ![i] = row]
        /\ wanted' = [wanted EXCEPT ![port] = r]
    BY <1>3 DEF registerListener
  <2>3. /\ row \in [port : Port \cup {0}, receiver : Receiver \cup {NULL}]
        /\ row.port = port /\ row.receiver = r
    OBVIOUS
  <2>4. port # 0 /\ r # NULL
    BY TableAssumption
  <2> HIDE DEF i, row, own, free
  <2>5. ReceiversOK(receivers')
    BY <1>1, <2>1, <2>2, <2>3, <2>4 DEF ReceiversOK
  <2>6. wanted' \in [Port -> Receiver \cup {NULL}]
    BY <1>1, <2>2 DEF AsAsked
  <2>7. ASSUME NEW p \in Port
        PROVE  /\ \A j \in 1 .. ReceiverCount :
                     receivers'[j].port = p => receivers'[j].receiver = wanted'[p]
               /\ wanted'[p] # NULL => \E j \in 1 .. ReceiverCount : receivers'[j].port = p
    <3>1. /\ \A j \in 1 .. ReceiverCount :
                receivers[j].port = p => receivers[j].receiver = wanted[p]
          /\ wanted[p] # NULL => \E j \in 1 .. ReceiverCount : receivers[j].port = p
      BY <1>1 DEF AsAsked
    <3>2. p # 0
      BY TableAssumption
    <3>3. receivers'[i] = row /\ \A j \in 1 .. ReceiverCount : j # i => receivers'[j] = receivers[j]
      BY <1>1, <2>1, <2>2
    <3>4. wanted'[p] = IF p = port THEN r ELSE wanted[p]
      BY <1>1, <2>2 DEF AsAsked
    <3>5. CASE p = port
      BY <2>1, <2>3, <3>3, <3>4, <3>5
    <3>6. CASE p # port
      BY <2>1, <2>3, <3>1, <3>2, <3>3, <3>4, <3>6
    <3> QED
      BY <3>5, <3>6
  <2> QED
    BY <2>5, <2>6, <2>7 DEF AsAsked
<1> QED
  BY <1>2, <1>3

LEMMA UnregisterKeeps ==
    ASSUME TablesInv, NEW port \in Port, unregisterListener(port)
    PROVE  ReceiversOK(receivers') /\ AsAsked(receivers', wanted')
<1> DEFINE none == [port |-> 0, receiver |-> NULL]
<1>1. /\ ReceiversOK(receivers) /\ AsAsked(receivers, wanted)
      /\ DOMAIN receivers = 1 .. ReceiverCount
  BY DEF TablesInv, ReceiversOK
<1>2. /\ receivers' = [j \in 1 .. ReceiverCount |->
                         IF receivers[j].port = port THEN none ELSE receivers[j]]
      /\ wanted' = [wanted EXCEPT ![port] = NULL]
  BY <1>1 DEF unregisterListener
<1>3. /\ none \in [port : Port \cup {0}, receiver : Receiver \cup {NULL}]
      /\ none.port = 0 /\ none.receiver = NULL
  OBVIOUS
<1> HIDE DEF none
<1>4. ReceiversOK(receivers')
  BY <1>1, <1>2, <1>3 DEF ReceiversOK
<1>5. wanted' \in [Port -> Receiver \cup {NULL}]
  BY <1>1, <1>2 DEF AsAsked
<1>6. ASSUME NEW p \in Port
      PROVE  /\ \A j \in 1 .. ReceiverCount :
                   receivers'[j].port = p => receivers'[j].receiver = wanted'[p]
             /\ wanted'[p] # NULL => \E j \in 1 .. ReceiverCount : receivers'[j].port = p
  <2>1. p # 0
    BY TableAssumption
  <2>2. wanted'[p] = IF p = port THEN NULL ELSE wanted[p]
    BY <1>1, <1>2 DEF AsAsked
  <2> QED
    BY <1>1, <1>2, <1>3, <2>1, <2>2 DEF AsAsked
<1> QED
  BY <1>4, <1>5, <1>6 DEF AsAsked

-----------------------------------------------------------------------------

LEMMA TablesStart == Init => TablesInv
<1> SUFFICES ASSUME Init PROVE TablesInv
  OBVIOUS
<1>1. Registry(protocolRegistry, Rows) /\ Registry(ipRegistry, IPRows)
  BY TableAssumption DEF Init, Registry
<1>2. ReceiversOK(receivers) /\ AsAsked(receivers, wanted)
  BY TableAssumption DEF Init, ReceiversOK, AsAsked
<1>3. \A j \in DOMAIN ipRegistry : ipRegistry[j].key # UDP
  BY TableAssumption DEF Init
<1>4. handlerOf(ipRegistry, UDP) = NULL
  <2>1. {j \in DOMAIN ipRegistry : ipRegistry[j].key = UDP} = {}
    BY <1>3
  <2> QED
    BY <2>1 DEF handlerOf, FirstRow
<1> QED
  BY <1>1, <1>2, <1>4 DEF TablesInv, InOrder

\* What changes none of the tables keeps them.
LEMMA TablesAlone ==
    ASSUME TablesInv, UNCHANGED <<tables, wanted>>
    PROVE  TablesInv'
  BY DEF TablesInv, tables, InOrder, handlerOf

LEMMA TablesStep == TablesInv /\ [Next]_vars => TablesInv'
<1> SUFFICES ASSUME TablesInv, [Next]_vars PROVE TablesInv'
  OBVIOUS
<1>1. CASE UNCHANGED above \/ processFrame \/ Finish
  BY <1>1, TablesAlone DEF above, processFrame, Finish
<1>2. CASE NewIPHandler
  <2>1. handlerOf(ipRegistry, UDP) = NULL
    BY <1>2 DEF TablesInv, InOrder, NewIPHandler
  <2>2. UNCHANGED <<ipRegistry, receivers, wanted>>
    BY <1>2 DEF NewIPHandler
  <2>3. Registry(protocolRegistry', Rows)
    BY <1>2, RegisteredKeeps, TableAssumption DEF TablesInv, NewIPHandler
  <2> QED
    BY <2>1, <2>2, <2>3 DEF TablesInv, InOrder
<1>3. ASSUME NEW p \in {UDP, TCP}, NewHandler(p)
      PROVE  TablesInv'
  <2>1. UNCHANGED <<protocolRegistry, receivers, wanted>>
    BY <1>3 DEF NewHandler
  <2>2. handlerOf(protocolRegistry, IP)' # NULL
    BY <1>3, <2>1 DEF NewHandler, handlerOf
  <2>3. p \in Nat \ {0}
    BY TableAssumption
  <2>4. Registry(ipRegistry', IPRows)
    BY <1>3, <2>3, RegisteredKeeps, TableAssumption DEF TablesInv, NewHandler
  <2> QED
    BY <2>1, <2>2, <2>4 DEF TablesInv, InOrder
<1>4. ASSUME NEW port \in Port, NEW r \in Receiver, registerListener(port, r)
      PROVE  TablesInv'
  <2>1. UNCHANGED <<protocolRegistry, ipRegistry>>
    BY <1>4 DEF registerListener
  <2>2. ReceiversOK(receivers') /\ AsAsked(receivers', wanted')
    BY <1>4, RegisterKeeps
  <2> QED
    BY <2>1, <2>2 DEF TablesInv, InOrder, handlerOf
<1>5. ASSUME NEW port \in Port, unregisterListener(port)
      PROVE  TablesInv'
  <2>1. UNCHANGED <<protocolRegistry, ipRegistry>>
    BY <1>5 DEF unregisterListener
  <2>2. ReceiversOK(receivers') /\ AsAsked(receivers', wanted')
    BY <1>5, UnregisterKeeps
  <2> QED
    BY <2>1, <2>2 DEF TablesInv, InOrder, handlerOf
<1> QED
  BY <1>1, <1>2, <1>3, <1>4, <1>5 DEF Next, vars

-----------------------------------------------------------------------------

\* Only processFrame() begins the handling of a frame.
LEMMA OnlyProcessFrame ==
    ASSUME [Next]_vars, pc = "received", pc' = "handling"
    PROVE  processFrame
<1>1. UNCHANGED vars => FALSE
  BY DEF vars, dvars
<1>2. Chip => FALSE
  BY DEF Chip, Receive, TransmitDone, TransmitError
<1>3. Driver => FALSE
  BY DEF Driver, receiveFrame, CallSend, AbortTransmit, StartTransmit, powerDown, Sleep, powerUp
<1>4. NewIPHandler \/ (\E p \in {UDP, TCP} : NewHandler(p)) \/ Finish => FALSE
  BY DEF NewIPHandler, NewHandler, Finish
<1>5. (\E port \in Port, r \in Receiver : registerListener(port, r)) => FALSE
  BY DEF registerListener, dvars
<1>6. (\E port \in Port : unregisterListener(port)) => FALSE
  BY DEF unregisterListener, dvars
<1> QED
  BY <1>1, <1>2, <1>3, <1>4, <1>5, <1>6 DEF Next

\* Whom a frame is given to, once UDP is there: the way through the two
\* registries is open to datagrams and to nothing else.
LEMMA WayOfAFrame ==
    ASSUME TablesInv, handlerOf(ipRegistry, UDP) # NULL, NEW f \in Frame
    PROVE  Listener(f) =
             IF /\ f.etherType = IP /\ ForUs(f)
                /\ f.protocol = UDP /\ f.udpOK /\ ChecksumOK(f)
             THEN IF f.port \in Port THEN wanted[f.port] ELSE NULL
             ELSE NULL
<1>1. handlerOf(protocolRegistry, f.etherType) = IP <=> f.etherType = IP
  <2>1. handlerOf(protocolRegistry, f.etherType) # NULL
          => handlerOf(protocolRegistry, f.etherType) = f.etherType
    BY FoundByKey, TableAssumption DEF TablesInv
  <2>2. handlerOf(protocolRegistry, IP) # NULL
    BY DEF TablesInv, InOrder
  <2> QED
    BY <2>1, <2>2, TableAssumption
<1>2. handlerOf(ipRegistry, f.protocol) = UDP <=> f.protocol = UDP
  <2>1. handlerOf(ipRegistry, f.protocol) # NULL
          => handlerOf(ipRegistry, f.protocol) = f.protocol
    BY FoundByKey, TableAssumption DEF TablesInv
  <2> QED
    BY <2>1, TableAssumption
<1>3. getListener(f.port) = IF f.port \in Port THEN wanted[f.port] ELSE NULL
  BY ListenerIsAsked DEF TablesInv
<1> QED
  BY <1>1, <1>2, <1>3 DEF Listener

\* The tables, and the order in which handlers register, are always right
\* (registerProtocol, registerListener, unregisterListener).
THEOREM TablesCorrect == Spec => []TablesInv
<1> QED
  BY TablesStart, TablesStep, PTL DEF Spec

\* DatagramToListener, for every frame and every history of the tables: a
\* datagram reaches the receiver last asked for on its port and nobody else
\* (processFrame, handlePayload, handlePacket).
THEOREM DatagramsReachListeners == Spec => DatagramToListener
<1> DEFINE Given(f) ==
            /\ pc = "received" /\ pc' = "handling"
            /\ f = FrameAt(recv.ptr, recv.len)
            /\ handlerOf(ipRegistry, UDP) # NULL
            => LET datagram == /\ f.etherType = IP /\ f.ipOK /\ f.protocol = UDP
                               /\ f.udpOK /\ f.sum # "bad"
                   asked == IF f.port \in Port THEN wanted[f.port] ELSE NULL
               IN  CASE datagram /\ f.to = IPAddress -> heard' = asked
                     [] datagram /\ f.to = Broadcast -> heard' \in {asked, NULL}
                     [] OTHER -> heard' = NULL
<1>1. ASSUME TablesInv, [Next]_vars, NEW f \in Frame
      PROVE  Given(f)
  <2>1. SUFFICES ASSUME /\ pc = "received" /\ pc' = "handling"
                        /\ f = FrameAt(recv.ptr, recv.len)
                        /\ handlerOf(ipRegistry, UDP) # NULL
                 PROVE  Given(f)
    OBVIOUS
  <2> DEFINE asked == IF f.port \in Port THEN wanted[f.port] ELSE NULL
             datagram == /\ f.etherType = IP /\ f.ipOK /\ f.protocol = UDP
                         /\ f.udpOK /\ f.sum # "bad"
  <2>2. heard' = Listener(f)
    BY <1>1, <2>1, OnlyProcessFrame DEF processFrame
  <2>3. Listener(f) = IF /\ f.etherType = IP /\ ForUs(f)
                         /\ f.protocol = UDP /\ f.udpOK /\ ChecksumOK(f)
                      THEN asked ELSE NULL
    BY <1>1, <2>1, WayOfAFrame
  <2>4. f.sum \in {"none", "good", "bad"}
    BY FieldAssumption
  <2> HIDE DEF asked
  <2>5. datagram /\ f.to = IPAddress => heard' = asked
    BY <2>2, <2>3, <2>4 DEF ForUs, ChecksumOK
  <2>6. heard' \in {asked, NULL}
    BY <2>2, <2>3
  <2>7. ~ (datagram /\ f.to \in {IPAddress, Broadcast}) => heard' = NULL
    BY <2>2, <2>3, <2>4 DEF ForUs, ChecksumOK
  <2> QED
    BY <2>5, <2>6, <2>7 DEF asked
<1>2. ASSUME TablesInv, [Next]_vars
      PROVE  [\A f \in Frame : Given(f)]_vars
  BY <1>1, <1>2
<1> QED
  BY <1>2, TablesCorrect, PTL DEF Spec, DatagramToListener

-----------------------------------------------------------------------------
(* The ring as a queue.                                                    *)

\* How far it is from the cell b to the cell c, going the way of the chip.
Dist(b, c) == IF c >= b THEN c - b ELSE c - b + RingSize

\* The cells of the last frame taken, which it keeps until the next one is.
Held == Dist(ERXRDPT, gNextPacketPtr)

PointersOK ==
    /\ ERXWRPT \in Cell /\ ERXRDPT \in Cell /\ gNextPacketPtr \in Cell
    /\ EPKTCNT \in Nat /\ DOMAIN ring = Cell
    /\ Held <= MaxFrame
    /\ back \in {"loop", "handling"}

\* The frames q lie in the ring one behind the other up to where the chip writes,
\* the k-th of them pos[k] cells after gNextPacketPtr, and there is room for
\* them behind the cells that are held.
Chain(q, pos) ==
    LET end == EPKTCNT + 1 IN
    /\ q \in Seq(Frame) /\ Len(q) = EPKTCNT
    /\ pos \in [1 .. end -> Nat] /\ pos[1] = 0
    /\ ERXWRPT = Address(gNextPacketPtr, pos[end])
    /\ Held + pos[end] <= RingSize - 1
    /\ \A j, k \in 1 .. end : j <= k => pos[j] <= pos[k]
    /\ \A k \in 1 .. EPKTCNT :
          /\ pos[k + 1] = pos[k] + q[k].cells + 1
          /\ ring[Address(gNextPacketPtr, pos[k])]
                = Header(q[k], Address(gNextPacketPtr, pos[k + 1]))
          /\ \A i \in 1 .. q[k].cells :
                ring[Address(gNextPacketPtr, pos[k] + i)] = Part(q[k], i)

\* The frame that is being handled is whole and fills the cells that are held.
Handled(f) ==
    /\ f \in Frame /\ f.ok /\ f.cells = Held
    /\ recv.ptr = ERXRDPT /\ recv.len = f.cells
    /\ \A i \in 1 .. f.cells : ring[Address(ERXRDPT, i - 1)] = Part(f, i)

RingInv ==
    /\ PointersOK
    /\ \E q, pos : Chain(q, pos)
    /\ Handling => \E f \in Frame : Handled(f)

-----------------------------------------------------------------------------
(* Going round the ring.                                                   *)

LEMMA Rounds ==
    /\ RingSize \in Nat /\ MaxFrame \in Nat /\ MaxFrame >= 1 /\ RingSize >= 2 * MaxFrame + 2
    /\ \A f \in Frame : f.cells \in Nat /\ f.cells >= 1 /\ f.cells <= MaxFrame /\ f.ok \in BOOLEAN
  BY RingAssumption

\* A way of less than a round leads where Dist says, in the words of the driver
\* (Address) and of the chip (the remainder).
LEMMA Onward ==
  ASSUME NEW b \in Cell, NEW d \in 0 .. RingSize - 1
  PROVE  /\ Address(b, d) \in Cell /\ (b + d) % RingSize = Address(b, d)
         /\ Dist(b, Address(b, d)) = d
<1>1. RingSize \in Nat \ {0} /\ b \in 0 .. RingSize - 1
  BY Rounds DEF Cell
<1>2. b + d < RingSize => (b + d) % RingSize = b + d
  BY <1>1
<1>3. b + d >= RingSize => (b + d) % RingSize = b + d - RingSize
  BY <1>1
<1>4. QED
  BY <1>1, <1>2, <1>3 DEF Address, Cell, Dist

LEMMA Between ==
  ASSUME NEW b \in Cell, NEW c \in Cell
  PROVE  /\ Dist(b, c) \in 0 .. RingSize - 1 /\ (c - b) % RingSize = Dist(b, c)
         /\ Address(b, Dist(b, c)) = c
<1>1. RingSize \in Nat \ {0} /\ b \in 0 .. RingSize - 1 /\ c \in 0 .. RingSize - 1
  BY Rounds DEF Cell
<1>2. c >= b => (c - b) % RingSize = c - b
  BY <1>1
<1>3. c < b => (c - b) % RingSize = c - b + RingSize
  BY <1>1
<1>4. QED
  BY <1>1, <1>2, <1>3 DEF Address, Dist

LEMMA OnwardTwice ==
  ASSUME NEW b \in Cell, NEW d \in Nat, NEW e \in Nat, d + e <= RingSize - 1
  PROVE  Address(Address(b, d), e) = Address(b, d + e)
         /\ Dist(Address(b, d), Address(b, d + e)) = e
BY Rounds DEF Address, Dist, Cell

LEMMA Around ==
  ASSUME NEW b \in Cell, NEW d \in Nat, NEW e \in Nat, d < e, e <= RingSize - 1
  PROVE  Dist(Address(b, e), Address(b, d)) = RingSize - e + d
BY Rounds DEF Address, Dist, Cell

\* Where things are, counted from ERXRDPT.
LEMMA Places ==
  ASSUME PointersOK, NEW q, NEW pos, Chain(q, pos)
  PROVE  LET end == pos[EPKTCNT + 1] IN
         /\ Held \in Nat /\ end \in Nat /\ Held + end <= RingSize - 1
         /\ ERXWRPT = Address(ERXRDPT, Held + end)
         /\ \A d \in Nat : d <= end =>
               Address(gNextPacketPtr, d) = Address(ERXRDPT, Held + d)
         /\ Dist(ERXRDPT, ERXWRPT) = Held + end
<1> DEFINE end == pos[EPKTCNT + 1]
           w == Held
<1>1. w \in Nat /\ gNextPacketPtr = Address(ERXRDPT, w)
  BY Between DEF PointersOK, Held
<1>2. end \in Nat /\ w + end <= RingSize - 1 /\ ERXWRPT = Address(gNextPacketPtr, end)
  BY DEF Chain, PointersOK
<1>3. ERXRDPT \in Cell
  BY DEF PointersOK
<1> HIDE DEF w, end
<1>4. ASSUME NEW d \in Nat, d <= end
      PROVE  Address(gNextPacketPtr, d) = Address(ERXRDPT, w + d)
  <2>1. w + d <= RingSize - 1
    BY <1>1, <1>2, <1>4, Rounds
  <2>2. QED
    BY <1>1, <1>3, <2>1, OnwardTwice
<1>5. ERXWRPT = Address(ERXRDPT, w + end)
  BY <1>2, <1>4
<1>6. Dist(ERXRDPT, ERXWRPT) = w + end
  <2>1. w + end \in 0 .. RingSize - 1
    BY <1>1, <1>2, Rounds
  <2>2. QED
    BY <1>3, <1>5, <2>1, Onward
<1>7. QED
  BY <1>1, <1>2, <1>4, <1>5, <1>6 DEF w, end

\* The room that the chip has.
LEMMA FreeIs ==
  ASSUME PointersOK
  PROVE  Free = RingSize - 1 - Dist(ERXRDPT, ERXWRPT)
<1>1. ERXRDPT \in 0 .. RingSize - 1 /\ ERXWRPT \in 0 .. RingSize - 1 /\ RingSize \in Nat \ {0}
  BY Rounds DEF PointersOK, Cell
<1>2. CASE ERXWRPT = ERXRDPT
  BY <1>1, <1>2 DEF Free, Dist
<1>3. CASE ERXWRPT < ERXRDPT
  <2>1. ERXRDPT - ERXWRPT - 1 \in 0 .. RingSize - 1
    BY <1>1, <1>3
  <2>2. (ERXRDPT - ERXWRPT - 1) % RingSize = ERXRDPT - ERXWRPT - 1
    BY <1>1, <2>1
  <2>3. QED
    BY <1>1, <1>3, <2>2 DEF Free, Dist
<1>4. CASE ERXWRPT > ERXRDPT
  <2>1. ERXRDPT - ERXWRPT - 1 \in -RingSize .. -1
    BY <1>1, <1>4
  <2>2. (ERXRDPT - ERXWRPT - 1) % RingSize = ERXRDPT - ERXWRPT - 1 + RingSize
    BY <1>1, <2>1
  <2>3. QED
    BY <1>1, <1>4, <2>2 DEF Free, Dist
<1>5. QED
  BY <1>1, <1>2, <1>3, <1>4

-----------------------------------------------------------------------------
(* What the chip and receiveFrame() do to it.                              *)

\* A frame arrives behind the others, in cells that nothing is in.
LEMMA Arrives ==
  ASSUME PointersOK, NEW q, NEW pos, Chain(q, pos), NEW f \in Frame, Receive(f)
  PROVE  /\ PointersOK' /\ \E p : Chain(Append(q, f), p)'
         /\ \A d \in Nat : d < Held + pos[EPKTCNT + 1] =>
               ring'[Address(ERXRDPT, d)] = ring[Address(ERXRDPT, d)]
         /\ Held' = Held /\ ERXRDPT' = ERXRDPT
<1> DEFINE n == EPKTCNT
           end == pos[n + 1]
           len == f.cells
           w == Held
           g == gNextPacketPtr
           base == ERXRDPT
           next == Address(ERXWRPT, len + 1)
<1>0. PICK p : p = [k \in 1 .. n + 2 |-> IF k <= n + 1 THEN pos[k] ELSE end + len + 1]
  OBVIOUS
<1>1. /\ w \in Nat /\ end \in Nat /\ w + end <= RingSize - 1
      /\ ERXWRPT = Address(base, w + end) /\ Dist(base, ERXWRPT) = w + end
      /\ \A d \in Nat : d <= end => Address(g, d) = Address(base, w + d)
  BY Places
<1>2. /\ RingSize \in Nat /\ len \in Nat /\ len >= 1 /\ len <= MaxFrame /\ MaxFrame \in Nat
      /\ n \in Nat /\ base \in Cell /\ ERXWRPT \in Cell /\ g \in Cell
  BY Rounds DEF PointersOK
<1>3. w + end + len + 1 <= RingSize - 1
  <2>1. len + 1 <= Free
    BY DEF Receive
  <2>2. QED
    BY <1>1, <1>2, <2>1, FreeIs
<1>4. next \in Cell /\ (ERXWRPT + len + 1) % RingSize = next
  <2>1. len + 1 \in 0 .. RingSize - 1
    BY <1>1, <1>2, <1>3
  <2>2. ERXWRPT + (len + 1) = ERXWRPT + len + 1
    BY <1>2 DEF Cell
  <2>3. QED
    BY <1>2, <2>1, <2>2, Onward
<1>5. /\ UNCHANGED <<ERXRDPT, gNextPacketPtr, recv, pc, back>>
      /\ EPKTCNT' = n + 1 /\ ERXWRPT' = next
      /\ ring' = [c \in Cell |->
                    IF (c - ERXWRPT) % RingSize = 0 THEN Header(f, next)
                    ELSE IF (c - ERXWRPT) % RingSize <= len THEN Part(f, (c - ERXWRPT) % RingSize)
                    ELSE ring[c]]
  BY <1>4 DEF Receive
<1>6. ring' = [c \in Cell |-> IF Dist(ERXWRPT, c) = 0 THEN Header(f, next)
                              ELSE IF Dist(ERXWRPT, c) <= len THEN Part(f, Dist(ERXWRPT, c))
                              ELSE ring[c]]
  <2>1. \A c \in Cell : (c - ERXWRPT) % RingSize = Dist(ERXWRPT, c)
    BY <1>2, Between
  <2>2. QED
    BY <1>5, <2>1
<1> HIDE DEF n, end, len, w, g, base, next
<1>7. ASSUME NEW d \in Nat, d < w + end
      PROVE  ring'[Address(base, d)] = ring[Address(base, d)]
  <2>1. Dist(ERXWRPT, Address(base, d)) = RingSize - (w + end) + d
    <3>1. w + end \in Nat
      BY <1>1
    <3>2. QED
      BY <1>1, <1>2, <1>7, <3>1, Around
  <2>2. ~ (Dist(ERXWRPT, Address(base, d)) <= len)
    BY <1>1, <1>2, <1>3, <2>1
  <2>3. Address(base, d) \in Cell
    <3>1. d \in 0 .. RingSize - 1
      BY <1>1, <1>2, <1>7
    <3>2. QED
      BY <1>2, <3>1, Onward
  <2>4. Dist(ERXWRPT, Address(base, d)) # 0
    BY <1>2, <2>1, <2>2
  <2>5. QED
    BY <1>6, <2>2, <2>3, <2>4
<1>8. ring'[ERXWRPT] = Header(f, next)
  BY <1>2, <1>6 DEF Dist, Cell
<1>9. ASSUME NEW i \in 1 .. len
      PROVE  ring'[Address(ERXWRPT, i)] = Part(f, i)
  <2>1. i \in 0 .. RingSize - 1
    BY <1>1, <1>2, <1>3
  <2>2. Address(ERXWRPT, i) \in Cell /\ Dist(ERXWRPT, Address(ERXWRPT, i)) = i
    BY <1>2, <2>1, Onward
  <2>3. i # 0 /\ i <= len
    BY <1>2
  <2>4. QED
    BY <1>6, <2>2, <2>3
<1>10. PointersOK'
  BY <1>2, <1>4, <1>5, <1>6 DEF PointersOK, Held, n, Cell
<1>11. /\ q \in Seq(Frame) /\ Len(q) = n /\ pos \in [1 .. n + 1 -> Nat] /\ pos[1] = 0
       /\ ERXWRPT = Address(g, end)
       /\ \A k \in 1 .. n :
            /\ pos[k + 1] = pos[k] + q[k].cells + 1
            /\ ring[Address(g, pos[k])] = Header(q[k], Address(g, pos[k + 1]))
            /\ \A i \in 1 .. q[k].cells : ring[Address(g, pos[k] + i)] = Part(q[k], i)
       /\ \A j, k \in 1 .. n + 1 : j <= k => pos[j] <= pos[k]
  BY DEF Chain, n, end, g
<1>12. /\ p \in [1 .. n + 2 -> Nat] /\ p[n + 1] = end /\ p[n + 2] = end + len + 1
       /\ \A k \in 1 .. n + 1 : p[k] = pos[k]
  <2>1. \A k \in 1 .. n + 1 : pos[k] \in Nat
    BY <1>11
  <2>2. pos[n + 1] = end
    BY DEF end
  <2>3. QED
    BY <1>0, <1>1, <1>2, <2>1, <2>2
<1>13. \A e \in Nat : end + e <= RingSize - 1 => Address(g, end + e) = Address(ERXWRPT, e)
  BY <1>1, <1>2, <1>11, OnwardTwice
<1>14. /\ Append(q, f) \in Seq(Frame) /\ Len(Append(q, f)) = n + 1
       /\ \A k \in 1 .. n : Append(q, f)[k] = q[k]
       /\ Append(q, f)[n + 1] = f
  BY <1>2, <1>11, AppendProperties
<1>15. ASSUME NEW k \in 1 .. n + 1
       PROVE  /\ p[k + 1] = p[k] + Append(q, f)[k].cells + 1
              /\ ring'[Address(g, p[k])] = Header(Append(q, f)[k], Address(g, p[k + 1]))
              /\ \A i \in 1 .. Append(q, f)[k].cells :
                    ring'[Address(g, p[k] + i)] = Part(Append(q, f)[k], i)
  <2>1. CASE k = n + 1
    <3>1. p[k] = end /\ p[k + 1] = end + len + 1 /\ Append(q, f)[k] = f
      BY <1>2, <1>12, <1>14, <2>1
    <3>2. Address(g, end + len + 1) = next
      <4>1. end + (len + 1) <= RingSize - 1 /\ len + 1 \in Nat
        BY <1>1, <1>2, <1>3
      <4>2. Address(g, end + (len + 1)) = Address(ERXWRPT, len + 1)
        BY <1>13, <4>1
      <4>3. end + (len + 1) = end + len + 1
        BY <1>1, <1>2
      <4>4. QED
        BY <4>2, <4>3 DEF next
    <3>3. ring'[Address(g, p[k])] = Header(f, Address(g, p[k + 1]))
      BY <1>8, <1>11, <3>1, <3>2
    <3>4. ASSUME NEW i \in 1 .. len
          PROVE  ring'[Address(g, p[k] + i)] = Part(f, i)
      <4>1. end + i <= RingSize - 1 /\ i \in Nat
        BY <1>1, <1>2, <1>3
      <4>2. QED
        BY <1>9, <1>13, <3>1, <4>1
    <3>5. QED
      BY <3>1, <3>3, <3>4 DEF len
  <2>2. CASE k \in 1 .. n
    <3> DEFINE r == q[k].cells
    <3>1. /\ p[k] = pos[k] /\ p[k + 1] = pos[k + 1] /\ Append(q, f)[k] = q[k]
          /\ pos[k] \in Nat /\ pos[k + 1] \in Nat /\ q[k] \in Frame
      BY <1>2, <1>11, <1>12, <1>14, <2>2
    <3>2. r \in Nat
      BY <3>1, Rounds
    <3>3. pos[k + 1] = pos[k] + r + 1 /\ pos[k + 1] <= end
      <4>1. k + 1 \in 1 .. n + 1 /\ n + 1 \in 1 .. n + 1 /\ k + 1 <= n + 1
        BY <1>2, <2>2
      <4>2. QED
        BY <1>11, <2>2, <4>1 DEF end
    <3>4. \A d \in Nat : d < end => ring'[Address(g, d)] = ring[Address(g, d)]
      <4>1. ASSUME NEW d \in Nat, d < end
            PROVE  ring'[Address(g, d)] = ring[Address(g, d)]
        <5>1. w + d \in Nat /\ w + d < w + end /\ d <= end
          BY <1>1, <4>1
        <5>2. Address(g, d) = Address(base, w + d)
          BY <1>1, <5>1
        <5>3. QED
          BY <1>7, <5>1, <5>2
      <4>2. QED
        BY <4>1
    <3>5. /\ ring[Address(g, pos[k])] = Header(q[k], Address(g, pos[k + 1]))
          /\ \A i \in 1 .. r : ring[Address(g, pos[k] + i)] = Part(q[k], i)
      BY <1>11, <2>2
    <3> HIDE DEF r
    <3>6. ring'[Address(g, pos[k])] = Header(q[k], Address(g, pos[k + 1]))
      <4>1. pos[k] \in Nat /\ pos[k] < end
        <5> DEFINE a == pos[k]
        <5>1. a \in Nat /\ end \in Nat /\ a + r + 1 <= end
          BY <1>1, <3>1, <3>3
        <5> HIDE DEF a
        <5>2. a < end
          BY <3>2, <5>1
        <5> QED
          BY <5>1, <5>2 DEF a
      <4> QED
        BY <3>4, <3>5, <4>1
    <3>7. ASSUME NEW i \in 1 .. r
          PROVE  ring'[Address(g, pos[k] + i)] = Part(q[k], i)
      <4>1. pos[k] + i \in Nat /\ pos[k] + i < end
        <5> DEFINE a == pos[k]
        <5>1. a \in Nat /\ end \in Nat /\ a + r + 1 <= end
          BY <1>1, <3>1, <3>3
        <5> HIDE DEF a
        <5>2. a + i \in Nat /\ a + i < end
          BY <3>2, <5>1
        <5>3. QED
          BY <5>2 DEF a
      <4>2. QED
        BY <3>4, <3>5, <4>1
    <3>8. QED
      BY <3>1, <3>3, <3>6, <3>7 DEF r
  <2>3. k = n + 1 \/ k \in 1 .. n
    BY <1>2
  <2>4. QED
    BY <2>1, <2>2, <2>3
<1>16. Chain(Append(q, f), p)'
  <2>1. EPKTCNT' + 1 = n + 2 /\ EPKTCNT' = n + 1 /\ gNextPacketPtr' = g /\ Held' = w
    <3>1. EPKTCNT' = n + 1 /\ gNextPacketPtr' = gNextPacketPtr /\ ERXRDPT' = ERXRDPT
      BY <1>5
    <3>2. n + 1 + 1 = n + 2
      BY <1>2
    <3> QED
      BY <3>1, <3>2 DEF g, w, Held, Dist
  <2>2. p[1] = 0
    <3>1. 1 \in 1 .. n + 1
      BY <1>2
    <3>2. pos[1] = 0 /\ p[1] = pos[1]
      BY <1>11, <1>12, <3>1
    <3> QED
      BY <3>2
  <2>3. ERXWRPT' = Address(g, p[n + 2])
    <3>1. end + (len + 1) <= RingSize - 1 /\ len + 1 \in Nat /\ end + (len + 1) = end + len + 1
      BY <1>1, <1>2, <1>3
    <3>2. Address(g, end + len + 1) = next
      BY <1>13, <3>1 DEF next
    <3>3. QED
      BY <1>5, <1>12, <3>2
  <2>4. w + p[n + 2] <= RingSize - 1
    BY <1>1, <1>2, <1>3, <1>12
  <2>5. p \in [1 .. EPKTCNT' + 1 -> Nat] /\ Len(Append(q, f)) = EPKTCNT'
    BY <1>12, <1>14, <2>1
  <2>6. \A k \in 1 .. EPKTCNT' :
          /\ p[k + 1] = p[k] + Append(q, f)[k].cells + 1
          /\ ring'[Address(gNextPacketPtr', p[k])]
                = Header(Append(q, f)[k], Address(gNextPacketPtr', p[k + 1]))
          /\ \A i \in 1 .. Append(q, f)[k].cells :
                ring'[Address(gNextPacketPtr', p[k] + i)] = Part(Append(q, f)[k], i)
    BY <1>15, <2>1
  <2>7. /\ ERXWRPT' = Address(gNextPacketPtr', p[EPKTCNT' + 1])
        /\ Held' + p[EPKTCNT' + 1] <= RingSize - 1
    BY <2>1, <2>3, <2>4
  <2>8. Append(q, f) \in Seq(Frame)
    BY <1>14
  <2>9. ASSUME NEW j \in 1 .. EPKTCNT' + 1, NEW k \in 1 .. EPKTCNT' + 1, j <= k
        PROVE  p[j] <= p[k]
    <3>1. CASE k \in 1 .. n + 1
      <4>1. j \in 1 .. n + 1
        BY <1>2, <2>1, <2>9, <3>1
      <4>2. QED
        BY <1>11, <1>12, <2>9, <3>1, <4>1
    <3>2. CASE k = n + 2 /\ j \in 1 .. n + 1
      <4>1. pos[j] \in Nat /\ pos[j] <= end
        <5>1. n + 1 \in 1 .. n + 1 /\ j <= n + 1
          BY <1>2, <3>2
        <5>2. QED
          BY <1>11, <3>2, <5>1 DEF end
      <4>2. p[k] = end + len + 1 /\ p[j] = pos[j]
        BY <1>12, <3>2
      <4>3. QED
        BY <1>1, <1>2, <4>1, <4>2
    <3>3. CASE k = n + 2 /\ j = n + 2
      BY <1>1, <1>2, <1>12, <3>3
    <3>4. QED
      BY <1>2, <2>1, <3>1, <3>2, <3>3
  <2>10. QED
    BY <2>2, <2>5, <2>6, <2>7, <2>8, <2>9 DEF Chain
<1>17. Held' = w /\ ERXRDPT' = ERXRDPT
  BY <1>5 DEF Held, w
<1>18. QED
  BY <1>7, <1>10, <1>16, <1>17 DEF w, end, base, n

\* receiveFrame() takes the first of them: its cells are held from now on, and
\* those that were held are the chip's again.
LEMMA Taken ==
  ASSUME PointersOK, NEW q, NEW pos, Chain(q, pos), receiveFrame
  PROVE  /\ PointersOK' /\ q # <<>> /\ \E p : Chain(Tail(q), p)'
         /\ q[1] \in Frame /\ pc' = (IF q[1].ok THEN "received" ELSE "loop")
         /\ q[1].ok => Handled(q[1])'
<1> DEFINE n == EPKTCNT
           end == pos[n + 1]
           w == Held
           g == gNextPacketPtr
           base == ERXRDPT
           f == q[1]
           len == f.cells
           offset == Address(g, 1)
           next == Address(g, len + 1)
<1>1. /\ w \in Nat /\ end \in Nat /\ w + end <= RingSize - 1
      /\ \A d \in Nat : d <= end => Address(g, d) = Address(base, w + d)
  BY Places
<1>2. /\ RingSize \in Nat /\ MaxFrame \in Nat
      /\ n \in Nat /\ n # 0 /\ base \in Cell /\ ERXWRPT \in Cell /\ g \in Cell
  BY Rounds DEF PointersOK, receiveFrame
<1>3. /\ q \in Seq(Frame) /\ Len(q) = n /\ pos \in [1 .. n + 1 -> Nat] /\ pos[1] = 0
      /\ ERXWRPT = Address(g, end)
      /\ \A k \in 1 .. n :
            /\ pos[k + 1] = pos[k] + q[k].cells + 1
            /\ ring[Address(g, pos[k])] = Header(q[k], Address(g, pos[k + 1]))
            /\ \A i \in 1 .. q[k].cells : ring[Address(g, pos[k] + i)] = Part(q[k], i)
      /\ \A j, k \in 1 .. n + 1 : j <= k => pos[j] <= pos[k]
  BY DEF Chain
<1>4. 1 \in 1 .. n /\ 2 \in 1 .. n + 1 /\ n + 1 \in 1 .. n + 1
  BY <1>2
<1>5. f \in Frame /\ len \in Nat /\ len >= 1 /\ len <= MaxFrame
  BY <1>3, <1>4, Rounds, ElementOfSeq
<1>6. pos[2] = len + 1 /\ len + 1 <= end
  <2>1. pos[1 + 1] = pos[1] + len + 1 /\ 1 + 1 = 2
    BY <1>3, <1>4
  <2>2. pos[2] = len + 1
    BY <1>3, <1>5, <2>1
  <2>3. pos[2] <= end
    BY <1>2, <1>3, <1>4
  <2>4. QED
    BY <2>2, <2>3
<1>7. 0 \in 0 .. RingSize - 1 /\ 1 \in 0 .. RingSize - 1
  BY <1>1, <1>2, <1>5, <1>6
<1>8. Address(g, 0) = g /\ (g + 1) % RingSize = offset /\ offset \in Cell
  <2>1. Address(g, 0) = g
    BY <1>2 DEF Address, Cell
  <2>2. QED
    BY <1>2, <1>7, <2>1, Onward
<1>9. ring[g] = Header(f, next) /\ \A i \in 1 .. len : ring[Address(g, i)] = Part(f, i)
  <2>1. /\ ring[Address(g, pos[1])] = Header(f, Address(g, pos[1 + 1]))
        /\ \A i \in 1 .. len : ring[Address(g, pos[1] + i)] = Part(f, i)
    BY <1>3, <1>4
  <2>2. \A i \in 1 .. len : 0 + i = i
    BY <1>5
  <2>3. QED
    BY <1>3, <1>6, <1>8, <2>1, <2>2
<1>10. ring[g].frame = f /\ ring[g].next = next
  BY <1>9 DEF Header
<1>11. /\ gNextPacketPtr' = next /\ ERXRDPT' = offset
       /\ recv' = [ptr |-> offset, len |-> IF f.ok THEN len ELSE 0]
       /\ ring' = [c \in Cell |-> IF c \in Released(offset) THEN Blank ELSE ring[c]]
       /\ EPKTCNT' = n - 1 /\ pc' = (IF f.ok THEN "received" ELSE "loop")
       /\ UNCHANGED <<ERXWRPT, back>>
  <2>1. (IF ring[g].frame.cells > MaxFrame THEN MaxFrame ELSE ring[g].frame.cells) = len
    BY <1>2, <1>5, <1>10
  <2> HIDE DEF f, len, next, offset
  <2>2. /\ gNextPacketPtr' = next /\ ERXRDPT' = offset
        /\ recv' = [ptr |-> offset, len |-> IF f.ok THEN len ELSE 0]
        /\ ring' = [c \in Cell |-> IF c \in Released(offset) THEN Blank ELSE ring[c]]
    BY <1>8, <1>10, <2>1 DEF receiveFrame, FreeUpTo
  <2>3. /\ EPKTCNT' = n - 1 /\ pc' = (IF f.ok THEN "received" ELSE "loop")
        /\ UNCHANGED <<ERXWRPT, back>>
    BY <1>10 DEF receiveFrame
  <2> QED
    BY <2>2, <2>3
<1>12. offset = Address(base, w + 1) /\ Dist(base, offset) = w + 1
  <2>1. 1 <= end /\ w + 1 \in 0 .. RingSize - 1
    BY <1>1, <1>2, <1>5, <1>6
  <2>2. offset = Address(base, w + 1)
    BY <1>1, <2>1
  <2>3. QED
    BY <1>2, <2>1, <2>2, Onward
<1> HIDE DEF n, end, w, g, base, len, offset, next, f
<1>13. /\ next = Address(g, pos[2]) /\ next \in Cell
       /\ \A e \in Nat : pos[2] + e <= RingSize - 1 => Address(next, e) = Address(g, pos[2] + e)
       /\ \A e \in Nat : 1 + e <= RingSize - 1 => Address(offset, e) = Address(g, 1 + e)
  <2>1. next = Address(g, pos[2])
    BY <1>6 DEF next
  <2>2. pos[2] \in 0 .. RingSize - 1 /\ pos[2] \in Nat
    BY <1>1, <1>2, <1>5, <1>6
  <2>3. next \in Cell
    BY <1>2, <2>1, <2>2, Onward
  <2>4. ASSUME NEW e \in Nat, pos[2] + e <= RingSize - 1
        PROVE  Address(next, e) = Address(g, pos[2] + e)
    BY <1>2, <2>1, <2>2, <2>4, OnwardTwice
  <2>5. ASSUME NEW e \in Nat, 1 + e <= RingSize - 1
        PROVE  Address(offset, e) = Address(g, 1 + e)
    BY <1>2, <2>5, OnwardTwice DEF offset
  <2>6. QED
    BY <2>1, <2>3, <2>4, <2>5
<1>14. Held' = len
  <2>1. 1 + len <= RingSize - 1 /\ 1 + len = len + 1
    BY <1>1, <1>2, <1>5, <1>6
  <2>2. Dist(Address(g, 1), Address(g, 1 + len)) = len
    BY <1>2, <1>5, <2>1, OnwardTwice
  <2>3. Dist(offset, next) = len
    BY <2>1, <2>2 DEF offset, next
  <2>4. QED
    BY <1>11, <2>3 DEF Held, Dist
<1>15. ASSUME NEW d \in Nat, d >= 1, d <= end
       PROVE  ring'[Address(g, d)] = ring[Address(g, d)]
  <2>1. w + d \in 0 .. RingSize - 1 /\ w + d >= w + 1
    BY <1>1, <1>2, <1>15
  <2>2. Address(g, d) = Address(base, w + d)
    BY <1>1, <1>15
  <2>3. Address(g, d) \in Cell /\ Dist(base, Address(g, d)) = w + d
    BY <1>2, <2>1, <2>2, Onward
  <2>4. (Address(g, d) - base) % RingSize = w + d /\ (offset - base) % RingSize = w + 1
    BY <1>2, <1>8, <1>12, <2>3, Between
  <2>5. ~ (w + d < w + 1)
    BY <1>1, <1>15
  <2>6. Address(g, d) \notin Released(offset)
    BY <2>4, <2>5 DEF Released, base
  <2>7. QED
    BY <1>11, <2>3, <2>6
<1>16. PointersOK'
  <2>1. EPKTCNT' \in Nat
    BY <1>2, <1>11
  <2>2. DOMAIN ring' = Cell
    BY <1>11
  <2>3. back' \in {"loop", "handling"} /\ ERXWRPT' \in Cell
    BY <1>2, <1>11 DEF PointersOK
  <2>4. Held' <= MaxFrame
    BY <1>5, <1>14 DEF f
  <2>5. ERXRDPT' \in Cell /\ gNextPacketPtr' \in Cell /\ Cell' = Cell
    BY <1>8, <1>11, <1>13 DEF Cell
  <2>6. QED
    BY <2>1, <2>2, <2>3, <2>4, <2>5 DEF PointersOK
<1>17. f.ok => Handled(q[1])'
  <2>1. SUFFICES ASSUME f.ok PROVE Handled(q[1])'
    OBVIOUS
  <2>2. /\ f \in Frame /\ f.ok /\ len = Held'
        /\ recv'.ptr = ERXRDPT' /\ recv'.len = len
    BY <1>5, <1>11, <1>14, <2>1
  <2>3. ASSUME NEW i \in 1 .. len
        PROVE  ring'[Address(ERXRDPT', i - 1)] = Part(f, i)
    <3>1. i - 1 \in Nat /\ 1 + (i - 1) <= RingSize - 1 /\ 1 + (i - 1) = i
          /\ i \in Nat /\ i >= 1 /\ i <= end
      BY <1>1, <1>2, <1>5, <1>6
    <3>2. Address(ERXRDPT', i - 1) = Address(g, i)
      BY <1>11, <1>13, <3>1
    <3>3. QED
      BY <1>9, <1>15, <3>1, <3>2
  <2>4. QED
    BY <2>2, <2>3 DEF Handled, f, len
<1>18. PICK p : p = [k \in 1 .. n |-> pos[k + 1] - pos[2]]
  OBVIOUS
<1>19. /\ Tail(q) \in Seq(Frame) /\ Len(Tail(q)) = n - 1 /\ q # <<>>
       /\ \A k \in 1 .. n - 1 : Tail(q)[k] = q[k + 1]
  BY <1>2, <1>3
<1>20. ASSUME NEW k \in 1 .. n
       PROVE  /\ p[k] = pos[k + 1] - pos[2] /\ p[k] \in Nat /\ pos[2] + p[k] = pos[k + 1]
              /\ pos[k + 1] <= end
  <2>1. k + 1 \in 1 .. n + 1 /\ 2 <= k + 1 /\ k + 1 <= n + 1
    BY <1>2
  <2>2. pos[2] <= pos[k + 1] /\ pos[k + 1] <= pos[n + 1]
    BY <1>3, <1>4, <2>1
  <2>3. pos[k + 1] \in Nat /\ pos[2] \in Nat
    BY <1>3, <1>4, <2>1
  <2>4. p[k] = pos[k + 1] - pos[2]
    BY <1>18
  <2>5. QED
    BY <2>2, <2>3, <2>4 DEF end
<1>21. ASSUME NEW k \in 1 .. n - 1
       PROVE  /\ p[k + 1] = p[k] + Tail(q)[k].cells + 1
              /\ ring'[Address(next, p[k])] = Header(Tail(q)[k], Address(next, p[k + 1]))
              /\ \A i \in 1 .. Tail(q)[k].cells :
                    ring'[Address(next, p[k] + i)] = Part(Tail(q)[k], i)
  <2> DEFINE a == pos[k + 1]
             b == pos[k + 1 + 1]
             r == q[k + 1].cells
             s == pos[2]
             x == p[k]
             y == p[k + 1]
  <2>1. k \in 1 .. n /\ k + 1 \in 1 .. n /\ k + 1 + 1 \in 1 .. n + 1
    BY <1>2
  <2>2. q[k + 1] \in Frame /\ Tail(q)[k] = q[k + 1] /\ r \in Nat
    BY <1>3, <1>19, <2>1, Rounds, ElementOfSeq
  <2>3. /\ b = a + r + 1
        /\ ring[Address(g, a)] = Header(q[k + 1], Address(g, b))
        /\ \A i \in 1 .. r : ring[Address(g, a + i)] = Part(q[k + 1], i)
    BY <1>3, <2>1
  <2>4. x \in Nat /\ y \in Nat /\ s + x = a /\ s + y = b /\ b <= end
    BY <1>20, <2>1
  <2>5. s \in Nat /\ s >= 1
    BY <1>5, <1>6
  <2> HIDE DEF a, b, r, s, x, y
  <2>6. a \in Nat /\ a >= 1 /\ a <= end /\ b \in Nat /\ y = x + r + 1
    <3>1. r \in Nat /\ end \in Nat /\ b = a + r + 1
      BY <1>1, <2>2, <2>3
    <3> QED
      BY <2>4, <2>5, <3>1
  <2>7. Address(next, x) = Address(g, a) /\ Address(next, y) = Address(g, b)
    <3>1. s + x <= RingSize - 1 /\ s + y <= RingSize - 1
      BY <1>1, <1>2, <2>4, <2>6
    <3>2. QED
      BY <1>13, <2>4, <3>1 DEF s
  <2>8. ring'[Address(next, x)] = Header(q[k + 1], Address(next, y))
    BY <1>15, <2>3, <2>6, <2>7
  <2>9. ASSUME NEW i \in 1 .. r
        PROVE  ring'[Address(next, x + i)] = Part(q[k + 1], i)
    <3>1. /\ x + i \in Nat /\ s + (x + i) = a + i /\ a + i \in Nat
          /\ a + i >= 1 /\ a + i <= end /\ s + (x + i) <= RingSize - 1
      BY <1>1, <1>2, <2>2, <2>3, <2>4, <2>5, <2>6
    <3>2. Address(next, x + i) = Address(g, a + i)
      BY <1>13, <3>1 DEF s
    <3>3. QED
      BY <1>15, <2>3, <3>1, <3>2
  <2>10. QED
    BY <2>2, <2>6, <2>8, <2>9 DEF x, y, r
<1>22. Chain(Tail(q), p)'
  <2>1. EPKTCNT' = n - 1 /\ EPKTCNT' + 1 = n /\ gNextPacketPtr' = next /\ ERXWRPT' = ERXWRPT
    BY <1>2, <1>11
  <2>2. p \in [1 .. n -> Nat]
    <3>1. \A k \in 1 .. n : pos[k + 1] - pos[2] \in Nat
      BY <1>18, <1>20
    <3>2. QED
      BY <1>18, <3>1
  <2>3. p[1] = 0
    <3>1. p[1] = pos[1 + 1] - pos[2] /\ 1 + 1 = 2 /\ pos[2] \in Nat
      BY <1>3, <1>4, <1>20
    <3>2. QED
      BY <3>1
  <2>4. p[n] \in Nat /\ pos[2] + p[n] = end
    <3>1. n \in 1 .. n
      BY <1>2
    <3>2. QED
      BY <1>20, <3>1 DEF end
  <2>5. ERXWRPT' = Address(next, p[n])
    <3>1. pos[2] + p[n] <= RingSize - 1
      BY <1>1, <1>2, <2>4
    <3>2. QED
      BY <1>3, <1>13, <2>1, <2>4, <3>1
  <2>6. Held' + p[n] <= RingSize - 1
    BY <1>1, <1>2, <1>5, <1>6, <1>14, <2>4
  <2>7. ASSUME NEW j \in 1 .. n, NEW k \in 1 .. n, j <= k
        PROVE  p[j] <= p[k]
    <3>1. j + 1 \in 1 .. n + 1 /\ k + 1 \in 1 .. n + 1 /\ j + 1 <= k + 1
      BY <1>2, <2>7
    <3>2. pos[j + 1] <= pos[k + 1] /\ pos[j + 1] \in Nat /\ pos[k + 1] \in Nat /\ pos[2] \in Nat
      BY <1>3, <1>4, <3>1
    <3>3. p[j] = pos[j + 1] - pos[2] /\ p[k] = pos[k + 1] - pos[2]
      BY <1>20
    <3>4. QED
      BY <3>2, <3>3
  <2>8. /\ Tail(q) \in Seq(Frame) /\ Len(Tail(q)) = EPKTCNT'
        /\ p \in [1 .. EPKTCNT' + 1 -> Nat]
        /\ \A j, k \in 1 .. EPKTCNT' + 1 : j <= k => p[j] <= p[k]
    BY <1>19, <2>1, <2>2, <2>7
  <2>9. /\ ERXWRPT' = Address(gNextPacketPtr', p[EPKTCNT' + 1])
        /\ Held' + p[EPKTCNT' + 1] <= RingSize - 1
    BY <2>1, <2>5, <2>6
  <2>10. \A k \in 1 .. EPKTCNT' :
            /\ p[k + 1] = p[k] + Tail(q)[k].cells + 1
            /\ ring'[Address(gNextPacketPtr', p[k])]
                  = Header(Tail(q)[k], Address(gNextPacketPtr', p[k + 1]))
            /\ \A i \in 1 .. Tail(q)[k].cells :
                  ring'[Address(gNextPacketPtr', p[k] + i)] = Part(Tail(q)[k], i)
    BY <1>21, <2>1
  <2>11. QED
    BY <2>3, <2>8, <2>9, <2>10 DEF Chain
<1>23. QED
  BY <1>5, <1>11, <1>16, <1>17, <1>19, <1>22 DEF f

-----------------------------------------------------------------------------
(* RingInv is inductive.                                                   *)

LEMMA RingStarts == DriverInit => RingInv
<1> SUFFICES ASSUME DriverInit PROVE RingInv
  OBVIOUS
<1>1. PICK pos : pos = [k \in 1 .. 1 |-> 0]
  OBVIOUS
<1>2. 0 \in Cell /\ RingSize \in Nat /\ RingSize - 1 >= 0 /\ MaxFrame >= 0
  BY Rounds DEF Cell
<1>3. Held = 0 /\ Address(0, 0) = 0
  BY <1>2 DEF DriverInit, Held, Dist, Address
<1>4. PointersOK
  BY <1>2, <1>3 DEF DriverInit, PointersOK
<1>5. Chain(<<>>, pos)
  <2>1. EPKTCNT = 0 /\ EPKTCNT + 1 = 1 /\ gNextPacketPtr = 0 /\ ERXWRPT = 0
    BY DEF DriverInit
  <2>2. pos \in [1 .. 1 -> Nat] /\ pos[1] = 0 /\ <<>> \in Seq(Frame) /\ Len(<<>>) = 0
    BY <1>1
  <2>3. Held + pos[1] <= RingSize - 1 /\ \A j, k \in 1 .. 1 : pos[j] <= pos[k]
    BY <1>1, <1>2, <1>3
  <2> QED
    BY <1>3, <2>1, <2>2, <2>3 DEF Chain
<1>6. ~Handling
  BY DEF DriverInit, Handling
<1>7. QED
  BY <1>4, <1>5, <1>6 DEF RingInv

\* A step that leaves the ring alone may end the handling of a frame.
LEMMA RingAlone ==
  ASSUME RingInv, UNCHANGED rx, back' \in {"loop", "handling"}, Handling' => Handling
  PROVE  RingInv'
<1>1. /\ ring' = ring /\ ERXWRPT' = ERXWRPT /\ ERXRDPT' = ERXRDPT /\ EPKTCNT' = EPKTCNT
      /\ gNextPacketPtr' = gNextPacketPtr /\ recv' = recv
  BY DEF rx
<1>2. PointersOK'
  BY <1>1 DEF RingInv, PointersOK, Held, Dist, Cell
<1>3. \E q, pos : Chain(q, pos)'
  <2>1. PICK q, pos : Chain(q, pos)
    BY DEF RingInv
  <2>2. Held' = Held
    BY <1>1 DEF Held, Dist
  <2>3. Chain(q, pos)'
    BY <1>1, <2>1, <2>2 DEF Chain
  <2> QED
    BY <2>3
<1>4. ASSUME Handling' PROVE \E f \in Frame : Handled(f)'
  <2>1. PICK f \in Frame : Handled(f)
    BY <1>4 DEF RingInv
  <2>2. Handled(f)'
    BY <1>1, <2>1 DEF Handled, Held, Dist
  <2> QED
    BY <2>2
<1>5. QED
  BY <1>2, <1>3, <1>4 DEF RingInv

\* A frame that arrives does not touch the one that is being handled.
LEMMA HandledStays ==
  ASSUME PointersOK, NEW q, NEW pos, Chain(q, pos), NEW f \in Frame, Receive(f),
         NEW h \in Frame, Handled(h)
  PROVE  Handled(h)'
<1>1. /\ \A d \in Nat : d < Held + pos[EPKTCNT + 1] =>
             ring'[Address(ERXRDPT, d)] = ring[Address(ERXRDPT, d)]
      /\ Held' = Held /\ ERXRDPT' = ERXRDPT
  BY Arrives
<1>2. recv' = recv
  BY DEF Receive
<1>3. Held \in Nat /\ pos[EPKTCNT + 1] \in Nat
  BY Places
<1>4. ASSUME NEW i \in 1 .. h.cells
      PROVE  ring'[Address(ERXRDPT', i - 1)] = Part(h, i)
  <2>1. h.cells = Held /\ ring[Address(ERXRDPT, i - 1)] = Part(h, i)
    BY DEF Handled
  <2>2. i - 1 \in Nat /\ i - 1 < Held + pos[EPKTCNT + 1]
    <3>1. i \in 1 .. Held
      BY <2>1
    <3> DEFINE w == Held
               e == pos[EPKTCNT + 1]
    <3> HIDE DEF w, e
    <3>2. w \in Nat /\ e \in Nat /\ i \in 1 .. w
      BY <1>3, <3>1 DEF w, e
    <3>3. i - 1 \in Nat /\ i - 1 < w + e
      BY <3>2
    <3> QED
      BY <3>3 DEF w, e
  <2>3. QED
    BY <1>1, <2>1, <2>2
<1>5. QED
  BY <1>1, <1>2, <1>4 DEF Handled

\* Only the chip and receiveFrame() change the ring ...
LEMMA RingSteps ==
  ASSUME [Next]_vars
  PROVE  (\E f \in Frame : Receive(f)) \/ receiveFrame \/ UNCHANGED rx
<1>1. CASE Chip
  BY <1>1 DEF Chip, TransmitDone, TransmitError
<1>2. CASE Driver
  BY <1>2 DEF Driver, CallSend, AbortTransmit, StartTransmit, powerDown, Sleep, powerUp, chip
<1>3. CASE UNCHANGED vars \/ NewIPHandler \/ (\E p \in {UDP, TCP} : NewHandler(p))
  BY <1>3 DEF NewIPHandler, NewHandler, vars, dvars, chip
<1>4. CASE \/ \E port \in Port, r \in Receiver : registerListener(port, r)
           \/ \E port \in Port : unregisterListener(port)
  BY <1>4 DEF registerListener, unregisterListener, dvars, chip
<1>5. CASE processFrame \/ Finish
  BY <1>5 DEF processFrame, Finish, chip
<1>6. QED
  BY <1>1, <1>2, <1>3, <1>4, <1>5 DEF Next

\* ... and of the other steps only the end of a handler changes what is handled.
LEMMA OtherSteps ==
  ASSUME PointersOK, [Next]_vars, UNCHANGED rx
  PROVE  /\ back' \in {"loop", "handling"}
         /\ Handling' => Handling
         /\ Finish \/ (Handling' <=> Handling)
<1>0. back \in {"loop", "handling"} /\ EPKTCNT \in Nat
  BY DEF PointersOK
<1>1. CASE Chip
  <2>1. pc' = pc /\ back' = back
    BY <1>1 DEF Chip, Receive, TransmitDone, TransmitError
  <2> QED
    BY <1>0, <2>1 DEF Handling
<1>2. CASE Driver
  <2>1. ~receiveFrame
    <3> SUFFICES ASSUME receiveFrame PROVE FALSE
      OBVIOUS
    <3>1. EPKTCNT' = EPKTCNT - 1 /\ EPKTCNT > 0 /\ EPKTCNT' = EPKTCNT
      BY DEF receiveFrame, rx
    <3> QED
      BY <1>0, <3>1
  <2>2. CASE CallSend \/ AbortTransmit \/ StartTransmit
    BY <1>0, <2>2 DEF CallSend, AbortTransmit, StartTransmit, Handling
  <2>3. CASE powerDown \/ Sleep \/ powerUp
    BY <1>0, <2>3 DEF powerDown, Sleep, powerUp, Handling
  <2> QED
    BY <1>2, <2>1, <2>2, <2>3 DEF Driver
<1>3. CASE UNCHANGED vars \/ NewIPHandler \/ (\E p \in {UDP, TCP} : NewHandler(p))
  <2>1. pc' = pc /\ back' = back
    BY <1>3 DEF NewIPHandler, NewHandler, vars, dvars
  <2> QED
    BY <1>0, <2>1 DEF Handling
<1>4. CASE \/ \E port \in Port, r \in Receiver : registerListener(port, r)
           \/ \E port \in Port : unregisterListener(port)
  <2>1. pc' = pc /\ back' = back
    BY <1>4 DEF registerListener, unregisterListener, dvars
  <2> QED
    BY <1>0, <2>1 DEF Handling
<1>5. CASE processFrame \/ Finish
  BY <1>0, <1>5 DEF processFrame, Finish, Handling
<1>6. QED
  BY <1>1, <1>2, <1>3, <1>4, <1>5 DEF Next

LEMMA RingStep == RingInv /\ [Next]_vars => RingInv'
<1> SUFFICES ASSUME RingInv, [Next]_vars PROVE RingInv'
  OBVIOUS
<1>1. PointersOK /\ back \in {"loop", "handling"}
  BY DEF RingInv, PointersOK
<1>2. PICK q, pos : Chain(q, pos)
  BY DEF RingInv
<1>3. ASSUME NEW f \in Frame, Receive(f)
      PROVE  RingInv'
  <2>1. PointersOK' /\ \E r, p : Chain(r, p)'
    BY <1>1, <1>2, <1>3, Arrives
  <2>2. Handling' <=> Handling
    BY <1>3 DEF Receive, Handling
  <2>3. Handling' => \E h \in Frame : Handled(h)'
    BY <1>1, <1>2, <1>3, <2>2, HandledStays DEF RingInv
  <2>4. QED
    BY <2>1, <2>3 DEF RingInv
<1>4. CASE receiveFrame
  <2>1. /\ PointersOK' /\ \E r, p : Chain(r, p)'
        /\ q[1] \in Frame /\ pc' = (IF q[1].ok THEN "received" ELSE "loop")
        /\ q[1].ok => Handled(q[1])'
    BY <1>1, <1>2, <1>4, Taken
  <2>2. Handling' => q[1].ok
    BY <2>1 DEF Handling
  <2>3. QED
    BY <2>1, <2>2 DEF RingInv
<1>5. CASE UNCHANGED rx
  BY <1>1, <1>5, OtherSteps, RingAlone
<1>6. QED
  BY <1>3, <1>4, <1>5, RingSteps

\* The ring is always in order: what has been received lies in it frame behind
\* frame, and the last frame taken keeps its cells until the next one is taken
\* (receiveFrame).
THEOREM RingCorrect == Spec => []RingInv
<1>1. Init => RingInv
  BY RingStarts DEF Init
<1>2. QED
  BY <1>1, RingStep, PTL DEF Spec

\* NeverDeaf, for every size of the ring that RingAssumption allows: once all is
\* taken the chip has room for the largest frame (ERXRDPT in receiveFrame()).
THEOREM RoomForAFrame == Spec => []NeverDeaf
<1>1. RingInv => NeverDeaf
  <2> SUFFICES ASSUME RingInv, EPKTCNT = 0 PROVE Free >= MaxFrame + 1
    BY DEF NeverDeaf
  <2>0. EPKTCNT = 0
    OBVIOUS
  <2>1. PointersOK
    BY DEF RingInv
  <2>2. PICK q, pos : Chain(q, pos)
    BY DEF RingInv
  <2>3. pos[EPKTCNT + 1] = 0
    <3>1. pos[1] = 0 /\ EPKTCNT + 1 = 1
      BY <2>0, <2>2 DEF Chain
    <3> QED
      BY <3>1
  <2> DEFINE w == Held
             d == Dist(ERXRDPT, ERXWRPT)
  <2>4. w \in Nat /\ d = w + 0
    BY <2>1, <2>2, <2>3, Places
  <2>5. w <= MaxFrame
    BY <2>1 DEF PointersOK
  <2>6. Free = RingSize - 1 - d
    BY <2>1, FreeIs
  <2> HIDE DEF w, d
  <2>7. QED
    BY <2>4, <2>5, <2>6, Rounds
<1>2. QED
  BY <1>1, RingCorrect, PTL

-----------------------------------------------------------------------------
(* The queue that the ring stands for.                                     *)

\* Where a frame is whole, a reader sees that frame and no other.
LEMMA WholeIs ==
  ASSUME NEW f \in Frame, NEW c,
         \A i \in 1 .. f.cells : ring[Address(c, i - 1)] = Part(f, i)
  PROVE  FrameAt(c, f.cells) = f
<1> DEFINE found == {h \in Frame : h.cells = f.cells /\
                       \A i \in 1 .. f.cells : ring[Address(c, i - 1)] = Part(h, i)}
<1>1. f \in found
  OBVIOUS
<1>2. 1 \in 1 .. f.cells
  BY Rounds
<1>3. ASSUME NEW h \in found PROVE h = f
  <2>1. Part(h, 1) = Part(f, 1)
    BY <1>2
  <2>2. Part(h, 1).frame = h /\ Part(f, 1).frame = f
    BY DEF Part
  <2> QED
    BY <2>1, <2>2
<1>4. FrameAt(c, f.cells) = IF found = {} THEN Garbled ELSE CHOOSE h \in found : TRUE
  BY DEF FrameAt
<1> HIDE DEF found
<1>5. QED
  BY <1>1, <1>3, <1>4

\* The headers are where Chain has them: each is found through the one before.
LEMMA HeadsAre ==
  ASSUME PointersOK, NEW q, NEW pos, Chain(q, pos)
  PROVE  \A k \in 1 .. EPKTCNT : Heads[k] = Address(gNextPacketPtr, pos[k])
<1> DEFINE n == EPKTCNT
           g == gNextPacketPtr
           At(h, k) == IF k = 1 THEN g ELSE ring[h[k - 1]].next
<1>1. n \in Nat /\ g \in Cell
  BY DEF PointersOK
<1>2. /\ pos[1] = 0
      /\ \A k \in 1 .. n : ring[Address(g, pos[k])].next = Address(g, pos[k + 1])
  <2>1. /\ pos[1] = 0
        /\ \A k \in 1 .. n :
              ring[Address(g, pos[k])] = Header(q[k], Address(g, pos[k + 1]))
    BY DEF Chain
  <2>2. \A f, c : Header(f, c).next = c
    BY DEF Header
  <2> QED
    BY <2>1, <2>2
<1>3. Address(g, 0) = g
  BY <1>1, Rounds DEF Address, Cell
<1>4. PICK h : h = [k \in 1 .. n |-> Address(g, pos[k])]
  OBVIOUS
<1>5. ASSUME NEW k \in 1 .. n
      PROVE  h[k] = At(h, k)
  <2>1. CASE k = 1
    BY <1>2, <1>3, <1>4, <2>1
  <2>2. CASE k # 1
    <3>1. k - 1 \in 1 .. n /\ k - 1 + 1 = k
      BY <1>1, <2>2
    <3>2. h[k - 1] = Address(g, pos[k - 1]) /\ h[k] = Address(g, pos[k])
      BY <1>4, <3>1
    <3>3. ring[Address(g, pos[k - 1])].next = Address(g, pos[k])
      BY <1>2, <3>1
    <3> QED
      BY <2>2, <3>2, <3>3
  <2> QED
    BY <2>1, <2>2
<1>6. h = [k \in 1 .. n |-> IF k = 1 THEN g ELSE ring[h[k - 1]].next]
  BY <1>4, <1>5
<1>7. Heads = [k \in 1 .. n |-> IF k = 1 THEN g ELSE ring[Heads[k - 1]].next]
  BY <1>6 DEF Heads
<1>8. \A k \in 1 .. n : Heads[k] = At(Heads, k)
  BY <1>7
<1> DEFINE Bad == {k \in 1 .. n : Heads[k] # h[k]}
<1>9. Bad = {}
  <2> SUFFICES ASSUME Bad # {} PROVE FALSE
    OBVIOUS
  <2>1. Bad \subseteq Nat
    OBVIOUS
  <2>2. PICK k \in Bad : \A j \in Bad : ~ (<<j, k>> \in OpToRel(<, Nat))
    BY <2>1, NatLessThanWellFounded, WFMin
  <2>3. k \in 1 .. n /\ Heads[k] # h[k]
    OBVIOUS
  <2>4. k # 1
    BY <1>5, <1>8, <2>3
  <2>5. k - 1 \in 1 .. n /\ k - 1 \in Nat /\ k \in Nat /\ k - 1 < k
    BY <1>1, <2>3, <2>4
  <2>6. <<k - 1, k>> \in OpToRel(<, Nat)
    BY <2>5 DEF OpToRel
  <2>7. Heads[k - 1] = h[k - 1]
    BY <2>2, <2>5, <2>6
  <2>8. QED
    BY <1>5, <1>8, <2>3, <2>4, <2>7
<1>10. QED
  BY <1>4, <1>9

LEMMA QueueIs ==
  ASSUME PointersOK, NEW q, NEW pos, Chain(q, pos)
  PROVE  Queue = q
<1> DEFINE n == EPKTCNT
           g == gNextPacketPtr
           end == pos[n + 1]
<1>1. n \in Nat /\ g \in Cell /\ RingSize \in Nat
  BY Rounds DEF PointersOK
<1>2. /\ end \in Nat /\ end <= RingSize - 1
  <2>1. Held \in Nat /\ end \in Nat /\ Held + end <= RingSize - 1
    BY Places
  <2> HIDE DEF end
  <2>2. QED
    BY <2>1, <1>1
<1>3. /\ q \in Seq(Frame) /\ Len(q) = n /\ pos \in [1 .. n + 1 -> Nat]
      /\ \A k \in 1 .. n :
            /\ pos[k + 1] = pos[k] + q[k].cells + 1
            /\ ring[Address(g, pos[k])] = Header(q[k], Address(g, pos[k + 1]))
            /\ \A i \in 1 .. q[k].cells : ring[Address(g, pos[k] + i)] = Part(q[k], i)
      /\ \A j, k \in 1 .. n + 1 : j <= k => pos[j] <= pos[k]
  BY DEF Chain
<1> HIDE DEF n, g
<1>4. ASSUME NEW k \in 1 .. n
      PROVE  FrameAt((Heads[k] + 1) % RingSize, ring[Heads[k]].frame.cells) = q[k]
  <2> DEFINE f == q[k]
             a == pos[k]
             b == pos[k + 1]
             r == f.cells
  <2>1. k \in 1 .. n + 1 /\ k + 1 \in 1 .. n + 1 /\ n + 1 \in 1 .. n + 1 /\ k + 1 <= n + 1
    BY <1>1
  <2>2. f \in Frame /\ r \in Nat /\ r >= 1
    BY <1>3, ElementOfSeq, Rounds
  <2>3. a \in Nat /\ b \in Nat /\ b = a + r + 1 /\ b <= end
    BY <1>3, <2>1
  <2>4. /\ Heads[k] = Address(g, a)
        /\ ring[Heads[k]].frame = f
        /\ \A i \in 1 .. r : ring[Address(g, a + i)] = Part(f, i)
    <3>1. Heads[k] = Address(g, a)
      BY HeadsAre DEF n, g
    <3>2. Header(f, Address(g, b)).frame = f
      BY DEF Header
    <3> QED
      BY <1>3, <3>1, <3>2
  <2> HIDE DEF f, a, b, r, end
  <2>5. a + 1 <= RingSize - 1 /\ a \in 0 .. RingSize - 1 /\ 1 \in 0 .. RingSize - 1
    BY <1>1, <1>2, <2>2, <2>3
  <2>6. Address(g, a) \in Cell
    BY <1>1, <2>5, Onward
  <2>7. (Heads[k] + 1) % RingSize = Address(g, a + 1)
    <3>1. (Address(g, a) + 1) % RingSize = Address(Address(g, a), 1)
      BY <2>5, <2>6, Onward
    <3>2. Address(Address(g, a), 1) = Address(g, a + 1)
      BY <1>1, <2>3, <2>5, OnwardTwice
    <3> QED
      BY <2>4, <3>1, <3>2
  <2>8. ASSUME NEW i \in 1 .. r
        PROVE  ring[Address(Address(g, a + 1), i - 1)] = Part(f, i)
    <3>1. a + 1 \in Nat /\ i - 1 \in Nat /\ (a + 1) + (i - 1) <= RingSize - 1
          /\ (a + 1) + (i - 1) = a + i
      BY <1>1, <1>2, <2>2, <2>3
    <3>2. Address(Address(g, a + 1), i - 1) = Address(g, (a + 1) + (i - 1))
      BY <1>1, <3>1, OnwardTwice
    <3> QED
      BY <2>4, <3>1, <3>2
  <2>9. FrameAt(Address(g, a + 1), r) = f
    BY <2>2, <2>8, WholeIs DEF r
  <2>10. QED
    BY <2>4, <2>7, <2>9 DEF f, r
<1>5. Queue = [k \in 1 .. n |-> FrameAt((Heads[k] + 1) % RingSize, ring[Heads[k]].frame.cells)]
  BY DEF Queue, n
<1>6. Queue = [k \in 1 .. n |-> q[k]]
  BY <1>4, <1>5
<1>7. q = [k \in 1 .. n |-> q[k]]
  BY <1>3
<1>8. QED
  BY <1>6, <1>7

\* What is being handled.
Current == IF Handling THEN FrameAt(recv.ptr, recv.len) ELSE NoFrame

LEMMA CurrentIs ==
  ASSUME NEW f \in Frame, Handled(f)
  PROVE  FrameAt(recv.ptr, recv.len) = f
<1>1. recv.ptr = ERXRDPT /\ recv.len = f.cells
  BY DEF Handled
<1>2. \A i \in 1 .. f.cells : ring[Address(ERXRDPT, i - 1)] = Part(f, i)
  BY DEF Handled
<1>3. QED
  BY <1>1, <1>2, WholeIs

Readable ==
    /\ \A q, pos : Chain(q, pos) => Queue = q
    /\ \A f \in Frame : Handled(f) => FrameAt(recv.ptr, recv.len) = f

LEMMA RingReadable == RingInv => Readable
BY QueueIs, CurrentIs DEF RingInv, Readable

LEMMA RingImplements ==
  ASSUME RingInv, Readable, Readable', [Next]_vars
  PROVE  \/ \E f \in Frame : Queue' = Append(Queue, f) /\ Current' = Current
         \/ /\ Queue # <<>> /\ Current = NoFrame /\ Queue' = Tail(Queue)
            /\ Current' = IF Head(Queue).ok THEN Head(Queue) ELSE NoFrame
            /\ Head(Queue) \in Frame
         \/ Current # NoFrame /\ Current' = NoFrame /\ Queue' = Queue
         \/ Queue' = Queue /\ Current' = Current
<1>1. PointersOK
  BY DEF RingInv
<1>2. PICK q, pos : Chain(q, pos)
  BY DEF RingInv
<1>3. Queue = q
  BY <1>2 DEF Readable
<1>4. ASSUME NEW f \in Frame, Receive(f)
      PROVE  Queue' = Append(Queue, f) /\ Current' = Current
  <2>1. PICK p : Chain(Append(q, f), p)'
    BY <1>1, <1>2, <1>4, Arrives
  <2>2. Queue' = Append(q, f)
    BY <2>1 DEF Readable
  <2>3. Handling' <=> Handling
    BY <1>4 DEF Receive, Handling
  <2>4. CASE Handling
    <3>1. PICK h \in Frame : Handled(h)
      BY <2>4 DEF RingInv
    <3>2. Handled(h)'
      BY <1>1, <1>2, <1>4, <3>1, HandledStays
    <3>3. Current = h /\ Current' = h
      BY <2>3, <2>4, <3>1, <3>2 DEF Readable, Current
    <3> QED
      BY <1>3, <2>2, <3>3
  <2>5. CASE ~Handling
    BY <1>3, <2>2, <2>3, <2>5 DEF Current
  <2> QED
    BY <2>4, <2>5
<1>5. ASSUME receiveFrame
      PROVE  /\ Queue # <<>> /\ Current = NoFrame /\ Queue' = Tail(Queue)
             /\ Current' = IF Head(Queue).ok THEN Head(Queue) ELSE NoFrame
             /\ Head(Queue) \in Frame
  <2>1. /\ q # <<>> /\ \E p : Chain(Tail(q), p)'
        /\ q[1] \in Frame /\ pc' = (IF q[1].ok THEN "received" ELSE "loop")
        /\ q[1].ok => Handled(q[1])'
    BY <1>1, <1>2, <1>5, Taken
  <2>2. Queue' = Tail(q)
    BY <2>1 DEF Readable
  <2>3. Head(q) = q[1]
    OBVIOUS
  <2>4. Current = NoFrame
    BY <1>5 DEF receiveFrame, Current, Handling
  <2>5. Current' = IF q[1].ok THEN q[1] ELSE NoFrame
    <3>1. CASE q[1].ok
      BY <2>1, <3>1 DEF Readable, Current, Handling
    <3>2. CASE ~q[1].ok
      BY <2>1, <3>2 DEF Current, Handling
    <3> QED
      BY <3>1, <3>2
  <2> QED
    BY <1>3, <2>1, <2>2, <2>3, <2>4, <2>5
<1>6. CASE UNCHANGED rx
  <2>1. Queue' = Queue /\ FrameAt(recv.ptr, recv.len)' = FrameAt(recv.ptr, recv.len)
    BY <1>6 DEF rx, Queue, Heads, FrameAt
  <2>2. CASE Finish
    <3>1. Handling /\ ~Handling'
      BY <2>2 DEF Finish, Handling
    <3>2. PICK h \in Frame : Handled(h)
      BY <3>1 DEF RingInv
    <3>3. Current = h /\ Current' = NoFrame
      BY <3>1, <3>2 DEF Readable, Current
    <3> QED
      BY <2>1, <3>3, MarkAssumption
  <2>3. CASE Handling' <=> Handling
    BY <2>1, <2>3 DEF Current
  <2> QED
    BY <1>1, <1>6, <2>2, <2>3, OtherSteps
<1>7. QED
  BY <1>4, <1>5, <1>6, RingSteps

\* FramesImplemented, for every size of the ring and whatever the chip receives
\* and when: the frames come up in their order, each of them once, and the one
\* being handled stays whole until its handler is done (receiveFrame, read).
THEOREM RingIsQueue == Spec => FramesImplemented
<1>1. Init => Frames!FrameInit
  <2> SUFFICES ASSUME Init PROVE Frames!FrameInit
    OBVIOUS
  <2>1. EPKTCNT = 0 /\ ~Handling
    BY DEF Init, DriverInit, Handling
  <2>2. Queue = <<>>
    BY <2>1 DEF Queue
  <2> QED
    BY <2>1, <2>2 DEF Frames!FrameInit
<1>2. RingInv /\ Readable /\ Readable' /\ [Next]_vars => [Frames!FrameNext]_Frames!fvars
  <2> SUFFICES ASSUME RingInv, Readable, Readable', [Next]_vars
               PROVE  Frames!FrameNext \/ UNCHANGED Frames!fvars
    OBVIOUS
  <2> QED
    BY RingImplements DEF Current, Frames!FrameNext, Frames!Arrive, Frames!Take,
                          Frames!Finish, Frames!fvars
<1>3. QED
  BY <1>1, <1>2, RingCorrect, RingReadable, PTL DEF Spec, FramesImplemented, Frames!FrameSpec

-----------------------------------------------------------------------------
(* The choice between the neighbour and the gateway.                       *)


Configured(destinationIP, c) ==
    /\ c \in Configuration /\ Contiguous(c.subnetMask)
    /\ destinationIP \in IPv4

\* What the precedence makes of one byte: the comparison counts if the lowest
\* bit of the mask's byte is 1.
LEMMA LowestBitDecides ==
    ASSUME NEW m, NEW a, NEW b
    PROVE  m \cap Differ(a, b) = {} <=> (0 \in m => a = b)
  BY DEF Differ

\* The lowest bit of a byte is 1 only if all of them are, since 1s come first.
LEMMA LowestIsLast ==
    ASSUME NEW mask \in IPv4, Contiguous(mask), NEW i \in Place
    PROVE  0 \in mask[i] <=> mask[i] = Bit
<1>1. mask[i] \subseteq Bit
  BY DEF IPv4, Byte
<1>2. ASSUME 0 \in mask[i]
      PROVE  Bit \subseteq mask[i]
  <2>1. SUFFICES ASSUME NEW h \in Bit PROVE h \in mask[i]
    OBVIOUS
  <2>2. 0 <= h
    BY <2>1, BitAssumption
  <2> QED
    BY <1>2, <2>1, <2>2 DEF Contiguous
<1> QED
  BY <1>1, <1>2, BitAssumption

\* getMACForIP() compares exactly the bytes that the mask covers as a whole: the
\* rest of a mask is not looked at.
THEOREM WholeBytesAreCompared ==
    ASSUME NEW c, NEW destinationIP, Configured(destinationIP, c)
    PROVE  ComparesWholeBytes(destinationIP, c)
<1>0. c.subnetMask \in IPv4 /\ c.ipAddress \in IPv4 /\ Contiguous(c.subnetMask)
  BY DEF Configured, Configuration
<1>1. ASSUME NEW i \in Place
      PROVE  c.subnetMask[i] \cap Differ(destinationIP[i], ipNetwork(c)[i]) = {}
               <=> (c.subnetMask[i] = Bit => destinationIP[i] = c.ipAddress[i])
  <2>1. 0 \in c.subnetMask[i] <=> c.subnetMask[i] = Bit
    BY <1>0, LowestIsLast
  <2>2. c.subnetMask[i] = Bit => ipNetwork(c)[i] = c.ipAddress[i]
    BY <1>0 DEF ipNetwork, IPv4, Byte
  <2>3. c.subnetMask[i] \cap Differ(destinationIP[i], ipNetwork(c)[i]) = {}
          <=> (0 \in c.subnetMask[i] => destinationIP[i] = ipNetwork(c)[i])
    BY LowestBitDecides
  <2> QED
    BY <2>1, <2>2, <2>3
<1> QED
  BY <1>1 DEF ComparesWholeBytes, onLocalNetwork

\* No packet for a neighbour is handed to the gateway, whatever the mask
\* (getMACForIP).
THEOREM NeighboursAreDirect ==
    ASSUME NEW c, NEW destinationIP, Configured(destinationIP, c)
    PROVE  NeighboursDirect(destinationIP, c)
<1>1. ASSUME SameNetwork(destinationIP, c), NEW i \in Place, c.subnetMask[i] = Bit
      PROVE  destinationIP[i] = c.ipAddress[i]
  <2>1. destinationIP[i] \subseteq Bit /\ c.ipAddress[i] \subseteq Bit
    BY DEF Configured, Configuration, IPv4, Byte
  <2>2. destinationIP[i] \cap Bit = c.ipAddress[i] \cap Bit
    BY <1>1 DEF SameNetwork
  <2> QED
    BY <2>1, <2>2
<1>2. SameNetwork(destinationIP, c) => onLocalNetwork(destinationIP, c)
  BY <1>1, WholeBytesAreCompared DEF ComparesWholeBytes
<1> QED
  BY <1>2 DEF NeighboursDirect, NextHop

\* With a mask of 8, 16 or 24 bits, everybody else is reached through the
\* gateway (getMACForIP).
THEOREM OthersGoByGateway ==
    ASSUME NEW c, NEW destinationIP, Configured(destinationIP, c)
    PROVE  OthersByGateway(destinationIP, c)
<1>1. ASSUME OfWholeBytes(c.subnetMask), ~SameNetwork(destinationIP, c)
      PROVE  ~onLocalNetwork(destinationIP, c)
  <2>1. PICK i \in Place : destinationIP[i] \cap c.subnetMask[i]
                             # c.ipAddress[i] \cap c.subnetMask[i]
    BY <1>1 DEF SameNetwork
  <2>2. c.subnetMask[i] = Bit /\ destinationIP[i] # c.ipAddress[i]
    BY <1>1, <2>1 DEF OfWholeBytes
  <2> QED
    BY <2>2, WholeBytesAreCompared DEF ComparesWholeBytes
<1> QED
  BY <1>1 DEF OthersByGateway, NextHop

\* The broadcast address that init() makes is taken for the broadcast, and no
\* address of another network is (getMACForIP).
THEOREM BroadcastIsKnown ==
    ASSUME NEW c, NEW destinationIP, Configured(destinationIP, c)
    PROVE  BroadcastKnown(destinationIP, c)
<1> DEFINE all == ipBroadcastAddress(c)
<1>0. /\ c \in Configuration /\ Contiguous(c.subnetMask)
      /\ c.ipAddress \in IPv4 /\ c.subnetMask \in IPv4
  BY DEF Configured, Configuration
<1>1. all \in IPv4
  BY <1>0 DEF ipBroadcastAddress, ipNetwork, IPv4, Byte
<1>2. ASSUME NEW i \in Place
      PROVE  all[i] \cap c.subnetMask[i] = c.ipAddress[i] \cap c.subnetMask[i]
  BY <1>0 DEF ipBroadcastAddress, ipNetwork, IPv4, Byte
<1>3. SameNetwork(all, c)
  BY <1>2 DEF SameNetwork
<1>4. ComparesWholeBytes(all, c)
  BY <1>0, <1>1, WholeBytesAreCompared DEF Configured
<1>5. ASSUME NEW i \in Place, c.subnetMask[i] = Bit
      PROVE  all[i] = c.ipAddress[i]
  BY <1>0, <1>1, <1>2, <1>5 DEF IPv4, Byte
<1>6. IsBroadcast(all, c)
  BY <1>4, <1>5 DEF ComparesWholeBytes, IsBroadcast
<1> QED
  BY <1>3, <1>6 DEF BroadcastKnown, IsBroadcast

=============================================================================
