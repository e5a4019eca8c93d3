SPECIFICATION Spec
CONSTANTS
    c = c
    h = h
    Node = {c, h}
    NoNode = NoNode
    Hosts = {}
    Named = {c}
    Server <- ToEachOther
    Port <- One
    FirstPort <- One
    ISS <- FirstSeq
    Timeout <- NoTimeout
    MaxAttempts = 0
    AckWait = 0
    TimeWait = 0
    StashSize = 1
    Losses = FALSE
    Duplicates = TRUE
    Refuses = FALSE
    Aborts = {}
    MaxPort = 1
    MaxAge = 0
    MaxBytes <- OneByteEach
    MaxSeq <- CloseEarly
INVARIANTS
    DataInOrder
    AckedIsDelivered
CHECK_DEADLOCK FALSE
