----------------------------- MODULE FrameQueue -----------------------------
(* What the driver of the Ethernet chip promises to EtherControl: the       *)
(* frames that the chip has accepted are handed on in the order they came,  *)
(* each of them once, and the one that is being handled does not change     *)
(* until its handler is done.                                               *)
EXTENDS Sequences

CONSTANTS
    Frame,        \* the frames that may arrive, whole or received in error
    Whole,        \* those without a receive error: the others are dropped
    NoFrame       \* no frame is being handled (not a Frame)

VARIABLES
    queue,        \* the frames received and not handed on yet
    current       \* the frame that is being handled

fvars == <<queue, current>>

FrameInit == queue = <<>> /\ current = NoFrame

Arrive(f) == queue' = Append(queue, f) /\ UNCHANGED current

Take ==
    /\ queue # <<>> /\ current = NoFrame
    /\ queue' = Tail(queue)
    /\ current' = IF Head(queue) \in Whole THEN Head(queue) ELSE NoFrame

Finish == current # NoFrame /\ current' = NoFrame /\ UNCHANGED queue

FrameNext == (\E f \in Frame : Arrive(f)) \/ Take \/ Finish

FrameSpec == FrameInit /\ [][FrameNext]_fvars

=============================================================================
