------------------------------- MODULE FrameFifo ------------------------------
(* What the serial receiver promises to the event handlers: the frames that    *)
(* the dongle sends, all of them, each once, in the order they were sent,      *)
(* however the bytes are cut into reads.  The promise holds as long as noise   *)
(* and frames were told apart and there is a receiver; afterwards nothing is   *)
(* promised.                                                                   *)
EXTENDS Naturals, Sequences

CONSTANT Frames
VARIABLES stream, delivered, noise

Init == /\ stream \in Seq(Frames)
        /\ delivered = <<>>
        /\ noise = FALSE

Deliver == /\ ~noise
           /\ Len(delivered) < Len(stream)
           /\ delivered' = Append(delivered, stream[Len(delivered) + 1])
           /\ UNCHANGED <<stream, noise>>

Noise == /\ noise' = TRUE
         /\ UNCHANGED <<stream, delivered>>

AfterNoise == noise /\ UNCHANGED <<stream, noise>>

Next == Deliver \/ Noise \/ AfterNoise

Spec == /\ Init /\ [][Next]_<<stream, delivered, noise>>
        /\ WF_<<stream, delivered, noise>>(Deliver)
===============================================================================
