SPECIFICATION ARPFairSpec
CONSTANTS
    Handler = {arp, dns, tcp}
    NoHandler = NoHandler
    TimerCapacity = 2
    Delays <- OneDelay
    ARP = arp
    IP = {ip1, ip2, ip3}
    Present = {ip1, ip2}
    NoIP = NoIP
    RoutingTableSize = 2
    MaxLookups = 2
    LookupWait = 1
    LookupDelay = 1
    MaxOthers = 1
INVARIANTS
    ARPTypeOK
    ActiveHasTimer
    RoutesUnique
    OwnSlot
PROPERTIES
    RoutesKept
    RoundServesAll
    TimersImplemented
    LookupEnds
CHECK_DEADLOCK FALSE
