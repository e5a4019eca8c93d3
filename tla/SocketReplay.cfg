SPECIFICATION ForeignSpec
CONSTANTS
    c = c
    h = h
    Node = {c, h}
    NoNode = NoNode
    Hosts = {h}
    Named = {}
    Server <- ToHost
    Port <- Http
    FirstPort <- One
    ISS <- FirstSeq
    Timeout <- NoTimeout
    MaxAttempts = 1
    AckWait = 0
    TimeWait = 0
    StashSize = 1
    Losses = FALSE
    Duplicates = TRUE
    Refuses = FALSE
    Aborts = {h}
    MaxPort = 1
    MaxAge = 0
    MaxBytes <- TwoFromH
    MaxSeq <- CloseEach
    Foreign = {h}
INVARIANTS
    TypeOK
    AckNeverAhead
    SameBytes
    TimeWaitAfterBothClosed
PROPERTIES
    SeqNeverBack
    StreamImplemented
CHECK_DEADLOCK FALSE
