------------------------------ MODULE MCDevice ------------------------------
(* The arguments main.cpp gives to wait_net_suspend, a wait that ends, and *)
(* the ones it refuses.                                                    *)
EXTENDS Device

MCArguments ==
    {[interval |-> 300, window |-> 200, forever |-> TRUE],
     [interval |-> 300, window |-> 200, forever |-> FALSE],
     [interval |-> 200, window |-> 200, forever |-> TRUE]}
=============================================================================
