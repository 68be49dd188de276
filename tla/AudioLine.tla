------------------------------ MODULE AudioLine ------------------------------
(***************************************************************************)
(* What a call promises about the model's voice, with no word on channels, *)
(* chunks, queues or ticks: the peer is played frames of what the model    *)
(* said, samples may be left out, but what has been played stays played,   *)
(* in the order in which it was said; and when an interruption has taken   *)
(* effect, nothing said before it is played any more.  AudioBridge is      *)
(* shown to implement this specification.                                  *)
(***************************************************************************)
EXTENDS Integers, Sequences

CONSTANT FrameSize \* samples of a frame

VARIABLES said,   \* how many samples the model has said; a sample is its number
          played, \* the samples the peer has been played
          floor   \* the last sample said when the last interruption took effect

lineVars == <<said, played, floor>>

Init == said = 0 /\ played = <<>> /\ floor = 0

Say == /\ said' = said + 1
       /\ UNCHANGED <<played, floor>>

Play == /\ \E frame \in [1 .. FrameSize -> floor + 1 .. said] :
             /\ \A i, j \in 1 .. FrameSize : i < j => frame[i] < frame[j]
             /\ \A i \in DOMAIN played, j \in 1 .. FrameSize : played[i] < frame[j]
             /\ played' = played \o frame
        /\ UNCHANGED <<said, floor>>

Interrupt == /\ floor' = said
             /\ UNCHANGED <<said, played>>

Next == Say \/ Play \/ Interrupt

Spec == Init /\ [][Next]_lineVars
=============================================================================
