-------------------------- MODULE MCRecorderInputs --------------------------
(* Instances of RecorderInputs for TLC: where the AWS thread may preempt.  *)
EXTENDS RecorderInputs

InDelay == {"delay"}
=============================================================================
