SPECIFICATION FairSpec
CONSTANTS
    RingSize = 6
    MaxFrame = 2
    Frame <- MCFrame
    Blank = Blank
    NoFrame = NoFrame
    Garbled = Garbled
    IPAddress = "us"
    Broadcast = "all"
    IP = 2048
    UDP = 17
    TCP = 6
    Rows = 2
    IPRows = 2
    ReceiverCount = 2
    Port = {1, 2}
    Receiver = {a, b}
    NULL = NULL
    Place = {0, 1}
    Bit = {0, 1}
INVARIANTS
    NeverDeaf
PROPERTIES
    FramesImplemented
    DatagramToListener
    SendEnds
CHECK_DEADLOCK FALSE
