----------------------------- MODULE MCFramBus ------------------------------
(* Instances of FramBus for TLC: blocks, samples and positions as values.  *)
EXTENDS FramBus

CONSTANTS b1, b2, s1, s2, t1, t2

TwoBlocks  == {b1, b2}
TwoSamples == {s1, s2}
TwoTakes   == {t1, t2}
TwoVolumes == {0, 75}
=============================================================================
