------------------------------ MODULE ENC28J60 ------------------------------
(***************************************************************************)
(* ENC28J60Driver.cpp and the receive side of ENC28J60Buffer.cpp: the       *)
(* driver of the Ethernet chip, and the chip (external), which receives and *)
(* transmits on its own while the program reads and writes its memory.      *)
(*                                                                         *)
(* The receive ring is counted in cells: one for the six bytes of header    *)
(* and the next-packet pointer that the chip puts before a frame, and some  *)
(* for the frame.  A cell that the driver has given back to the chip is     *)
(* Blank: what it still holds is of no frame any more.                      *)
(***************************************************************************)
EXTENDS Integers, Sequences, FiniteSets

CONSTANTS
    RingSize,     \* RXSTOP_INIT - RXSTART_INIT + 1, in cells
    MaxFrame,     \* MAX_FRAMELEN, in cells
    Frame,        \* the frames on the wire; f.cells of them, f.ok if the CRC is right
    Blank,        \* a cell without a frame
    NoFrame,      \* no frame is being handled
    Garbled       \* what a reader sees where no frame is whole

ASSUME RingAssumption ==
    /\ MaxFrame \in Nat \ {0} /\ RingSize \in Nat
    /\ RingSize >= 2 * MaxFrame + 2        \* 3072 bytes for 1500 and the headers
    /\ \A f \in Frame : f.cells \in 1 .. MaxFrame /\ f.ok \in BOOLEAN
ASSUME MarkAssumption == Blank # NoFrame /\ {NoFrame, Garbled} \cap Frame = {}

VARIABLES
    ring,         \* the receive buffer, RXSTART_INIT being 0
    ERXWRPT,      \* where the chip writes the next frame
    ERXRDPT,      \* how far the chip may write
    EPKTCNT,      \* the frames received and not taken
    RXEN,         \* whether the chip receives
    gNextPacketPtr,   \* where the driver expects the next frame
    recv,         \* the receive buffer's payloadPointer, and receiveFrame()'s result
    tx,           \* ECON1.TXRTS: set while transmitting, stuck after some errors
    TXERIF,       \* the transmit error flag
    pc,           \* where loop() is
    back          \* where it goes on after sendFrame()

rx == <<ring, ERXWRPT, ERXRDPT, EPKTCNT, gNextPacketPtr, recv>>
chip == <<rx, RXEN, tx, TXERIF>>
dvars == <<chip, pc, back>>

Cell == 0 .. RingSize - 1

\* ENC28J60Buffer::read(): an address past the end is taken back to the start.
Address(ptr, i) ==
    IF ptr + i > RingSize - 1 THEN ptr + i - (RingSize - 1) - 1 ELSE ptr + i

Header(f, next) == [frame |-> f, part |-> 0, next |-> next]
Part(f, i)      == [frame |-> f, part |-> i]

DriverInit ==
    /\ ring = [c \in Cell |-> Blank]
    /\ ERXWRPT = 0 /\ ERXRDPT = 0 /\ EPKTCNT = 0 /\ RXEN = TRUE
    /\ gNextPacketPtr = 0 /\ recv = [ptr |-> 0, len |-> 0]
    /\ tx = "idle" /\ TXERIF = FALSE
    /\ pc = "loop" /\ back = "loop"

-----------------------------------------------------------------------------
(* The chip.                                                               *)

\* The chip stops short of ERXRDPT; a frame that does not fit is lost.
Free ==
    IF ERXWRPT = ERXRDPT THEN RingSize - 1
    ELSE (ERXRDPT - ERXWRPT - 1) % RingSize

Receive(f) ==
    LET next == (ERXWRPT + f.cells + 1) % RingSize
        From(c) == (c - ERXWRPT) % RingSize
    IN  /\ RXEN /\ f.cells + 1 <= Free
        /\ ring' = [c \in Cell |-> IF From(c) = 0 THEN Header(f, next)
                                   ELSE IF From(c) <= f.cells THEN Part(f, From(c))
                                   ELSE ring[c]]
        /\ ERXWRPT' = next
        /\ EPKTCNT' = EPKTCNT + 1
        /\ UNCHANGED <<ERXRDPT, RXEN, gNextPacketPtr, recv, tx, TXERIF, pc, back>>

TransmitDone ==
    /\ tx = "sending" /\ tx' = "idle"
    /\ UNCHANGED <<rx, RXEN, TXERIF, pc, back>>

\* After an error TXRTS may stay set until the transmit logic is reset.
TransmitError ==
    /\ tx = "sending" /\ tx' \in {"idle", "stuck"}
    /\ TXERIF' = TRUE
    /\ UNCHANGED <<rx, RXEN, pc, back>>

-----------------------------------------------------------------------------
(* The driver.                                                             *)

\* The cells from the old read pointer up to the new one, which the chip may
\* use again.
Released(to) == {c \in Cell : (c - ERXRDPT) % RingSize < (to - ERXRDPT) % RingSize}

\* (mutants of FreeUpTo: the frame that is about to be handled is given back,
\* and ERXRDPT is never written)
FreesTooMuch(offset, next) == next
NeverFrees(offset, next) == ERXRDPT
FreeUpTo(offset, next) == offset

\* receiveFrame(): the header first, then the payload pointer, the pointer to
\* the next packet, the length, and how far the chip may write from now on.
receiveFrame ==
    LET header == ring[gNextPacketPtr]
        offset == (gNextPacketPtr + 1) % RingSize
        to     == FreeUpTo(offset, header.next)
        len    == IF header.frame.cells > MaxFrame THEN MaxFrame ELSE header.frame.cells
    IN  /\ pc = "loop" /\ EPKTCNT > 0
        /\ gNextPacketPtr' = header.next
        /\ recv' = [ptr |-> offset, len |-> IF header.frame.ok THEN len ELSE 0]
        /\ ERXRDPT' = to
        /\ ring' = [c \in Cell |-> IF c \in Released(to) THEN Blank ELSE ring[c]]
        /\ EPKTCNT' = EPKTCNT - 1
        /\ pc' = IF header.frame.ok THEN "received" ELSE "loop"
        /\ UNCHANGED <<ERXWRPT, RXEN, tx, TXERIF, back>>

\* The program writes a frame and calls sendFrame(), from loop() or from a
\* handler.
CallSend ==
    /\ pc \in {"loop", "handling"}
    /\ back' = pc /\ pc' = "sending"
    /\ UNCHANGED chip

\* (mutant of AbortTransmit: it waits for an end that may never come)
WaitsForEver ==
    /\ pc = "sending" /\ tx = "sending" /\ TXERIF
    /\ UNCHANGED dvars

\* sendFrame(): while TXRTS is set it waits, and resets the transmit logic if
\* the error flag is set, which nothing ever clears ...
AbortTransmit ==
    /\ pc = "sending" /\ tx # "idle" /\ TXERIF
    /\ tx' = "idle"
    /\ UNCHANGED <<rx, RXEN, TXERIF, pc, back>>

\* ... and then starts its own transmission.
StartTransmit ==
    /\ pc = "sending" /\ tx = "idle"
    /\ tx' = "sending"
    /\ pc' = back
    /\ UNCHANGED <<rx, RXEN, TXERIF, back>>

\* powerDown(): no more frames are received; it waits for the transmission to
\* end, but for no error.
powerDown ==
    /\ pc = "loop" /\ pc' = "stopping" /\ RXEN' = FALSE
    /\ UNCHANGED <<rx, tx, TXERIF, back>>

Sleep ==
    /\ pc = "stopping" /\ tx = "idle" /\ pc' = "asleep"
    /\ UNCHANGED <<chip, back>>

powerUp ==
    /\ pc = "asleep" /\ pc' = "loop" /\ RXEN' = TRUE
    /\ UNCHANGED <<rx, tx, TXERIF, back>>

-----------------------------------------------------------------------------
(* The queue of frames that the ring stands for.                           *)

\* The frame whose cells start at c, all of them.
FrameAt(c, n) ==
    LET found == {f \in Frame : f.cells = n /\
                     \A i \in 1 .. n : ring[Address(c, i - 1)] = Part(f, i)}
    IN  IF found = {} THEN Garbled ELSE CHOOSE f \in found : TRUE

\* The headers of the frames not taken yet, each found through the one before.
Heads ==
    LET At[k \in 1 .. EPKTCNT] ==
            IF k = 1 THEN gNextPacketPtr ELSE ring[At[k - 1]].next
    IN  At

Queue == [k \in 1 .. EPKTCNT |-> FrameAt((Heads[k] + 1) % RingSize, ring[Heads[k]].frame.cells)]

Handling == pc \in {"received", "handling"} \/ (pc = "sending" /\ back = "handling")

Frames == INSTANCE FrameQueue WITH
    Whole   <- {f \in Frame : f.ok},
    queue   <- Queue,
    current <- IF Handling THEN FrameAt(recv.ptr, recv.len) ELSE NoFrame

\* The ring implements the queue: the frames are handed on in order, each of
\* them once, and the chip never writes over one that is still to be handled or
\* is being handled (ERXRDPT in receiveFrame(), the wrap in ENC28J60Buffer).
FramesImplemented == Frames!FrameSpec

\* The chip is never left without room for the largest frame once all that it
\* has received is taken, although the last frame keeps its cells until the next
\* one is taken (ERXRDPT in receiveFrame(), RXSTOP_INIT for two packets).
NeverDeaf == EPKTCNT = 0 => Free >= MaxFrame + 1

\* sendFrame() comes back, whatever error the transmission before it met.
SendEnds == pc = "sending" ~> pc # "sending"

=============================================================================
