----------------------------- MODULE Datagrams ------------------------------
(***************************************************************************)
(* The way of a frame up to the application: EtherControl::processFrame(),  *)
(* IPHandler::handlePayload() and UDPHandler::handlePacket(), with the      *)
(* tables in which each finds the next one, over the driver of ENC28J60.    *)
(* What is in a frame is read from the chip's memory when it is needed.     *)
(*                                                                         *)
(* A whole frame has these fields next to those of the driver: etherType,   *)
(* and, of an IP packet, ipOK (size, header checksum and length are right), *)
(* to, protocol, and, of a datagram, udpOK (its length is), sum (no         *)
(* checksum, a good one, a bad one) and port: of a frame that is no datagram *)
(* they are what its bytes would be read as.                                *)
(***************************************************************************)
EXTENDS ENC28J60

CONSTANTS
    IPAddress, Broadcast,     \* ipAddress and ipBroadcastAddress
    IP, UDP, TCP,             \* IP_PROTOCOL, and UDP_PROTOCOL and TCP_PROTOCOL
    Rows,         \* protocolCapacity of EtherControl, as the program sets it
    IPRows,       \* sizeof(protocolRegistry) / sizeof(protocolMap)
    ReceiverCount,    \* the listeners UDPHandler has room for
    Port,         \* the ports that the application listens on
    Receiver,     \* its DatagramReceivers
    NULL

ASSUME TableAssumption ==
    /\ Rows \in Nat /\ IPRows \in Nat /\ ReceiverCount \in Nat
    /\ Port \subseteq Nat \ {0} /\ NULL \notin Receiver \cup {IP, UDP, TCP}
    /\ \A p \in {IP, UDP, TCP} : p \in Nat \ {0}
ASSUME FieldAssumption ==
    \A f \in Frame : /\ f.ipOK \in BOOLEAN /\ f.udpOK \in BOOLEAN
                     /\ f.sum \in {"none", "good", "bad"}

VARIABLES
    protocolRegistry,     \* EtherControl's rows: etherType and handler
    ipRegistry,           \* IPHandler's rows: ipProtocol and handler
    receivers,            \* UDPHandler's rows: port and receiver
    heard,        \* history: whom the frame being handled was given to
    wanted        \* history: the receiver the application has last asked for, by port

tables == <<protocolRegistry, ipRegistry, receivers>>
above == <<tables, heard, wanted>>
vars == <<dvars, above>>

\* The first of some rows of a table, 0 if there is none.
FirstRow(rows) ==
    IF rows = {} THEN 0 ELSE CHOOSE i \in rows : \A j \in rows : i <= j

-----------------------------------------------------------------------------
(* Registration.  All rows are free in the beginning.                       *)

Init ==
    /\ DriverInit
    /\ protocolRegistry = [i \in 1 .. Rows |-> [key |-> 0, handler |-> NULL]]
    /\ ipRegistry = [i \in 1 .. IPRows |-> [key |-> 0, handler |-> NULL]]
    /\ receivers = [i \in 1 .. ReceiverCount |-> [port |-> 0, receiver |-> NULL]]
    /\ heard = NULL
    /\ wanted = [p \in Port |-> NULL]

\* registerProtocol(), of EtherControl and of IPHandler: the first row that is
\* free or has the protocol already.
Registered(table, key) ==
    LET i == FirstRow({j \in DOMAIN table : table[j].key \in {0, key}})
    IN  IF i = 0 THEN table ELSE [table EXCEPT ![i] = [key |-> key, handler |-> key]]

handlerOf(table, key) ==
    LET i == FirstRow({j \in DOMAIN table : table[j].key = key})
    IN  IF i = 0 THEN NULL ELSE table[i].handler

\* The constructors of IPHandler, UDPHandler and TCPHandler, the last two in
\* either order.
NewIPHandler ==
    /\ pc = "loop"
    /\ handlerOf(protocolRegistry, IP) = NULL
    /\ protocolRegistry' = Registered(protocolRegistry, IP)
    /\ UNCHANGED <<dvars, ipRegistry, receivers, heard, wanted>>

NewHandler(protocol) ==
    /\ pc = "loop"
    /\ handlerOf(protocolRegistry, IP) # NULL
    /\ handlerOf(ipRegistry, protocol) = NULL
    /\ ipRegistry' = Registered(ipRegistry, protocol)
    /\ UNCHANGED <<dvars, protocolRegistry, receivers, heard, wanted>>

\* The application runs in loop() and in what a handler calls back.
InApplication == pc \in {"loop", "handling"} /\ handlerOf(ipRegistry, UDP) # NULL

\* A row without a receiver.  (mutant of RowFor: whether or not the port has one)
FreeRow(port) == FirstRow({j \in DOMAIN receivers : receivers[j].receiver = NULL})

\* registerListener(): the row of the port if it has one, else a free row.
RowFor(port) ==
    LET own == FirstRow({j \in DOMAIN receivers : receivers[j].port = port})
    IN  IF own # 0 THEN own ELSE FreeRow(port)

registerListener(port, receiver) ==
    LET i == RowFor(port) IN
    /\ InApplication
    /\ IF i = 0 THEN UNCHANGED <<receivers, wanted>>
       ELSE /\ receivers' = [receivers EXCEPT ![i] = [port |-> port, receiver |-> receiver]]
            /\ wanted' = [wanted EXCEPT ![port] = receiver]
    /\ UNCHANGED <<dvars, protocolRegistry, ipRegistry, heard>>

unregisterListener(port) ==
    /\ InApplication
    /\ receivers' = [i \in DOMAIN receivers |->
                       IF receivers[i].port = port
                       THEN [port |-> 0, receiver |-> NULL] ELSE receivers[i]]
    /\ wanted' = [wanted EXCEPT ![port] = NULL]
    /\ UNCHANGED <<dvars, protocolRegistry, ipRegistry, heard>>

getListener(port) ==
    LET i == FirstRow({j \in DOMAIN receivers : receivers[j].port = port})
    IN  IF i = 0 THEN NULL ELSE receivers[i].receiver

-----------------------------------------------------------------------------
(* The handlers.                                                           *)

\* handlePayload() of IPHandler takes what is for this address or for all.
ForUs(p) == p.ipOK /\ p.to \in {IPAddress, Broadcast}

\* The sender's checksum covers the address it sent to, calcChecksum() our own.
ChecksumOK(p) == p.sum = "none" \/ (p.sum = "good" /\ p.to = IPAddress)

\* Whom processFrame() has the frame given to, once it has found a handler in
\* each of the tables.
Listener(p) ==
    IF /\ handlerOf(protocolRegistry, p.etherType) = IP
       /\ ForUs(p)
       /\ handlerOf(ipRegistry, p.protocol) = UDP
       /\ p.udpOK /\ ChecksumOK(p)
    THEN getListener(p.port) ELSE NULL

\* The packet is the one in the memory of the chip.
processFrame ==
    /\ pc = "received" /\ pc' = "handling"
    /\ heard' = Listener(FrameAt(recv.ptr, recv.len))
    /\ UNCHANGED <<chip, back, tables, wanted>>

Finish ==
    /\ pc = "handling" /\ pc' = "loop"
    /\ heard' = NULL
    /\ UNCHANGED <<chip, back, tables, wanted>>

-----------------------------------------------------------------------------

Chip ==
    \/ \E f \in Frame : Receive(f)
    \/ TransmitDone
    \/ TransmitError

Driver ==
    \/ receiveFrame
    \/ CallSend
    \/ AbortTransmit
    \/ StartTransmit
    \/ powerDown
    \/ Sleep
    \/ powerUp

Next ==
    \/ (Chip \/ Driver) /\ UNCHANGED above
    \/ NewIPHandler
    \/ \E p \in {UDP, TCP} : NewHandler(p)
    \/ \E port \in Port, r \in Receiver : registerListener(port, r)
    \/ \E port \in Port : unregisterListener(port)
    \/ processFrame
    \/ Finish

Spec == Init /\ [][Next]_vars

\* A transmission ends, well or not, and sendFrame() goes on looking.
FairSpec ==
    /\ Spec
    /\ WF_vars((TransmitDone \/ TransmitError) /\ UNCHANGED above)
    /\ WF_vars((AbortTransmit \/ StartTransmit) /\ UNCHANGED above)

-----------------------------------------------------------------------------

\* A datagram for this address reaches the receiver that the application has
\* last asked for on its port, nobody else and nobody if it has asked for none,
\* whatever the chip receives meanwhile and whatever was registered before; a
\* broadcast reaches that one or nobody, and what is not for us nobody
\* (getListener, registerListener, handlePayload).
DatagramToListener ==
    [][\A f \in Frame :
        /\ pc = "received" /\ pc' = "handling"
        /\ f = FrameAt(recv.ptr, recv.len)
        /\ handlerOf(ipRegistry, UDP) # NULL
        => LET datagram == /\ f.etherType = IP /\ f.ipOK /\ f.protocol = UDP
                           /\ f.udpOK /\ f.sum # "bad"
               asked == IF f.port \in Port THEN wanted[f.port] ELSE NULL
           IN  CASE datagram /\ f.to = IPAddress -> heard' = asked
                 [] datagram /\ f.to = Broadcast -> heard' \in {asked, NULL}
                 [] OTHER -> heard' = NULL]_vars

=============================================================================
