------------------------------- MODULE MCLcd --------------------------------
(* Two buffers, a queue of two events and one line: enough for a buffer  *)
(* to be claimed twice, lost to a full queue, or held by a closing text.   *)
EXTENDS Lcd

MCPositions == {175, 178}
=============================================================================
