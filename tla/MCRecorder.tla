----------------------------- MODULE MCRecorder -----------------------------
(* Instances of Recorder for TLC: where the AWS thread may preempt.        *)
EXTENDS Recorder

Nowhere      == {}
BootAndDelay == {"boot", "delay"}
=============================================================================
