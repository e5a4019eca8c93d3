SPECIFICATION ClientsSpec
CONSTANTS
    c = c
    h = h
    Node = {c, h}
    NoNode = NoNode
    Hosts = {h}
    Named = {}
    Server <- ToHost
    Port <- OnPort
    FirstPort <- One
    ISS <- FirstSeq
    Timeout <- TimeoutC
    MaxAttempts = 1
    AckWait = 2
    TimeWait = 1
    StashSize = 1
    Losses = FALSE
    Duplicates = FALSE
    Refuses = FALSE
    Aborts = {c}
    MaxPort = 1
    MaxDelayed = 1
    Early = {8}
    MaxUnheard = 2
    MaxAge = 2
    MaxBytes <- Lines
    MaxSeq <- HostSeq

    
PROPERTIES
    BusyEnds
CHECK_DEADLOCK FALSE
