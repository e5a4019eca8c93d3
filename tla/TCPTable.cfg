SPECIFICATION TCPFairSpec
CONSTANTS
    Handler = {arp, tcp}
    NoHandler = NoHandler
    TimerCapacity = 1
    Delays <- OneDelay
    TCP = tcp
    CheckDelay = 1
    h1 = h1
    h2 = h2
    c = c
    Sock = {h1, h2, c}
    NoSock = NoSock
    SocketCapacity = 2
    ListenPort <- Http
    Peer = {p}
    Server <- ToPeer
    FirstPort = 2
    MaxPort = 3
    MaxOthers = 1
INVARIANTS
    TCPTypeOK
    OneRowEach
    RegistryAgrees
    TimerIffSockets
    ClosedIffGone
    OneConnection
PROPERTIES
    SocketsChecked
CHECK_DEADLOCK FALSE
