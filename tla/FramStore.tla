----------------------------- MODULE FramStore ------------------------------
(***************************************************************************)
(* What the users of the F-RAM may count on: a memory of slots in which a  *)
(* write of the Status record is done as a whole or comes to nothing, a    *)
(* write of a sound block is done, and neither ever lands anywhere else.   *)
(***************************************************************************)

CONSTANTS
    StatusSlot,   \* the slot of the Status record
    Blocks,       \* the slots of the sound ring
    Records,      \* what a Status record may be
    Samples       \* what a sound block may be

VARIABLES
    mem,
    saving        \* the Status record being written, the last one if none is

vars == <<mem, saving>>

Init ==
    /\ mem[StatusSlot] \in Records
    /\ saving = mem[StatusSlot]

Save == mem' = [mem EXCEPT ![StatusSlot] = saving] /\ UNCHANGED saving

Ask == saving' \in Records /\ UNCHANGED mem

WriteSound ==
    /\ \E b \in Blocks, s \in Samples : mem' = [mem EXCEPT ![b] = s]
    /\ UNCHANGED saving

Next == Save \/ Ask \/ WriteSound

Spec == Init /\ [][Next]_vars
=============================================================================
