---------------------------- MODULE FramePipeline ----------------------------
(***************************************************************************)
(* What the scheduler promises the engine about frames: every submitted    *)
(* frame is drawn and then handed to the display exactly once, in the      *)
(* order of submission, and no frame is finished into a framebuffer that   *)
(* still holds a frame waiting for its turn or the frame on the screen.    *)
(***************************************************************************)
EXTENDS Sequences, SequencesExt

CONSTANTS Slots,        \* the frame slots, one framebuffer each
          None

VARIABLES drawing,      \* submitted, not finished by the RDP
          ready,        \* finished, not yet handed to the display
          screen        \* the frame handed to the display last

vars == <<drawing, ready, screen>>

Init == drawing = <<>> /\ ready = <<>> /\ screen = None

Submit == /\ UNCHANGED <<ready, screen>>
          /\ drawing' \in {Append(drawing, s) : s \in Slots \ Range(drawing)}

Finished == /\ drawing # <<>> /\ drawing' = Tail(drawing)
            /\ Head(drawing) \notin Range(ready) \cup {screen}

\* The finished frame waits behind the others ...
Finish == Finished /\ ready' = Append(ready, Head(drawing)) /\ UNCHANGED screen

\* ... or, with none waiting, it goes to the display at once.
FinishAndShow == Finished /\ ready = <<>> /\ screen' = Head(drawing) /\ UNCHANGED ready

Show == ready # <<>> /\ screen' = Head(ready) /\ ready' = Tail(ready) /\ UNCHANGED drawing

Next == Submit \/ Finish \/ FinishAndShow \/ Show

Spec == Init /\ [][Next]_vars
=============================================================================
