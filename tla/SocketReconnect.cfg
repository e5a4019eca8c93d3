SPECIFICATION Spec
CONSTANTS
    c = c
    h = h
    Node = {c, h}
    NoNode = NoNode
    Hosts = {h}
    Named = {}
    Server <- ToHost
    Port <- Http
    FirstPort <- One
    ISS <- FirstSeq
    Timeout <- NoTimeout
    MaxAttempts = 0
    AckWait = 0
    TimeWait = 0
    StashSize = 1
    Losses = FALSE
    Duplicates = TRUE
    Refuses = TRUE
    Aborts = {c}
    MaxPort = 2
    MaxAge = 0
    MaxBytes <- OneFromC
    MaxSeq <- CloseC
INVARIANTS
    HandshakeAgreed
    
PROPERTIES
    StreamImplemented
CHECK_DEADLOCK FALSE
