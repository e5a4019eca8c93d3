SPECIFICATION FairSpec
CONSTANTS
    c = c
    h = h
    Node = {c, h}
    NoNode = NoNode
    Hosts = {h}
    Named = {}
    Server <- ToHost
    Port <- Http
    FirstPort <- One
    ISS <- FirstSeq
    Timeout <- NoTimeout
    MaxAttempts = 1
    AckWait = 1
    TimeWait = 1
    StashSize = 1
    Losses = FALSE
    Duplicates = FALSE
    Refuses = FALSE
    Aborts = {}
    MaxPort = 1
    MaxAge = 1
    MaxBytes <- NoBytes
    MaxSeq <- CloseEach
PROPERTIES
    BothClosedEnds
CHECK_DEADLOCK FALSE
