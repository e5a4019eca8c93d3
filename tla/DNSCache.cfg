SPECIFICATION DNSSpec
CONSTANTS
    Handler = {dns, tcp}
    NoHandler = NoHandler
    TimerCapacity = 2
    Delays <- SomeDelays
    DNS = dns
    Name = {a, b, c}
    TooLong = {c}
    NoIP = NoIP
    Errors = {SERVER_FAILURE}
    NO_ERROR = NO_ERROR
    SERVER_FAILURE = SERVER_FAILURE
    NO_RESPONSE = NO_RESPONSE
    NoAddress = TRUE
    Forced = TRUE
    CacheCapacity = 2
    MaxAttempts = 2
    RetryAfter = 1
    FirstDelay = 1
    LaterDelay = 1
    TTL = {1}
    MaxAge = 2
    CallTime = 0
    MaxOthers = 1
INVARIANTS
    DNSTypeOK
    NamesUnique
    AddressIsOwn
    DNSTimerIsOwn
CHECK_DEADLOCK FALSE
