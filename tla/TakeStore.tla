----------------------------- MODULE TakeStore ------------------------------
(***************************************************************************)
(* What the recorder promises of the positions of its take, seen from      *)
(* outside sound.cpp: the positions saved in F-RAM change to those of a    *)
(* take that has ended, all at once, when it ends or at a later save; a    *)
(* recording that power loss interrupts leaves the saved positions, and    *)
(* so what is played afterwards, as they were.                             *)
(***************************************************************************)
EXTENDS Integers

CONSTANT Positions   \* pairs [start, end]

VARIABLES
    saved,      \* the positions a restart restores
    kept,       \* those of the last take that ended, to be saved
    live,       \* the positions a playback would use now
    recording

vars == <<saved, kept, live, recording>>

NonEmpty == {p \in Positions : p.start # p.end}

Init ==
    /\ saved \in Positions
    /\ kept = saved /\ live = saved
    /\ recording = FALSE

Begin ==
    /\ ~recording
    /\ recording' = TRUE
    /\ live' \in NonEmpty
    /\ UNCHANGED <<saved, kept>>

Grow ==
    /\ recording
    /\ live' \in NonEmpty
    /\ UNCHANGED <<saved, kept, recording>>

(* The end of a take.  The save it makes may come to nothing.              *)
Commit ==
    /\ recording
    /\ recording' = FALSE
    /\ kept' = live
    /\ saved' \in {saved, live}
    /\ UNCHANGED live

Save == saved' = kept /\ UNCHANGED <<kept, live, recording>>

PowerLoss ==
    /\ recording' = FALSE
    /\ live' = saved /\ kept' = saved
    /\ UNCHANGED saved

Next == Begin \/ Grow \/ Commit \/ Save \/ PowerLoss

Spec == Init /\ [][Next]_vars
=============================================================================
