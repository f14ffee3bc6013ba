------------------------------ MODULE MCShadow ------------------------------
(* A small instance of Shadow: one button, one slider, two values.         *)
EXTENDS Shadow

MCButtons  == {"button_0"}
MCSliders  == {"slider_0"}
MCKeyOrder == <<"button_0", "slider_0">>
MCInitial  == [n \in {"button_0", "slider_0"} |-> 0]
=============================================================================
