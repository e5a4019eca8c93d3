SPECIFICATION TimerFairSpec
CONSTANTS
    c = c
    h = h
    Node = {c, h}
    NoNode = NoNode
    Hosts = {h}
    Named = {}
    Server <- ToHost
    Port <- Http
    FirstPort <- One
    ISS <- FirstSeq
    Timeout <- TimeoutHost
    MaxAttempts = 1
    AckWait = 2
    TimeWait = 1
    StashSize = 1
    Losses = TRUE
    Duplicates = FALSE
    Refuses = FALSE
    Aborts = {}
    MaxPort = 1
    MaxAge = 2
    MaxBytes <- OneFromC
    MaxSeq <- CloseC1
PROPERTIES
    
    HostListensAgain
CHECK_DEADLOCK FALSE
