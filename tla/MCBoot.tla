------------------------------- MODULE MCBoot -------------------------------
(* Small clock trees, drawings and fingers for Boot.                       *)
EXTENDS Boot

Tree(fast, p0, fll, pll, hf0) ==
    [AfterReset("warm", {"WCO"}) EXCEPT
        !.path[0] = p0, !.fll = fll, !.pll = pll, !.hf[0] = hf0, !.waits = fast,
        !.lf = "WCO", !.bak = "WCO"]

(* Trees an earlier program, a boot loader, may leave: with and without    *)
(* the FLL and the PLL, the core on either path, with just enough waits.   *)
MCEarlier ==
    {c \in {Tree(w, p0, fll, pll, [path |-> p, div |-> d]) :
                w \in {8, 50, 100, 150}, p0 \in Sources, fll \in {0, 100}, pll \in {0, 150},
                p \in {0, 1}, d \in {1, 2}} : Legal(c)}

MCDraws == {Cmd(44, <<7, 8>>)}

MCFingers == {{}, {"P8_2", "P8_4"}}
=============================================================================
