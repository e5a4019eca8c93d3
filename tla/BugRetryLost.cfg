SPECIFICATION DNSSpec
CONSTANTS
    Handler = {dns}
    NoHandler = NoHandler
    TimerCapacity = 2
    Delays <- SomeDelays
    DNS = dns
    Name = {a, b}
    TooLong = {}
    NoIP = NoIP
    Errors = {SERVER_FAILURE}
    NO_ERROR = NO_ERROR
    SERVER_FAILURE = SERVER_FAILURE
    NO_RESPONSE = NO_RESPONSE
    NoAddress = FALSE
    Forced = FALSE
    CacheCapacity = 2
    MaxAttempts = 2
    RetryAfter = 1
    FirstDelay = 2
    LaterDelay = 1
    TTL = {1}
    MaxAge = 2
    CallTime = 1
    MaxOthers = 2
INVARIANTS
    PendingHasTimer
CHECK_DEADLOCK FALSE
