------------------------------- MODULE Clocks -------------------------------
(***************************************************************************)
(* init_cycfg_system, init_cycfg_clocks and init_cycfg_peripherals: the    *)
(* clocks of the microcontroller, set step by step from whatever an        *)
(* earlier program, or a reset, left.  Frequencies are in MHz; the 32 kHz  *)
(* oscillators count as 0.                                                 *)
(*                                                                         *)
(* The clock tree (external): a path gives the frequency of its source,    *)
(* path 0 that of the FLL and path 1 that of the PLL when they are on;     *)
(* neither can be configured while it is on.                               *)
(***************************************************************************)
EXTENDS Integers

CONSTANTS
    Earlier,     \* clock trees an earlier program may hand over
    NumPlls      \* CY_SRSS_NUM_PLL

VARIABLES
    ckPc,        \* where the start-up is
    clk,         \* the clock tree
    divider,     \* of the 8-bit peripheral dividers, 0 while off
    csdDivider,  \* the one the CapSense block is given, 0 before
    failed       \* what did not start or lock in time

ckVars == <<ckPc, clk, divider, csdDivider, failed>>

Sources == {"IMO", "WCO"}
MHz(source) == IF source = "IMO" THEN 8 ELSE 0

Trees ==
    [cause   : {"por", "warm"},               \* of the reset
     running : {r \in SUBSET {"IMO", "WCO", "ILO"} : "IMO" \in r},
     path    : [0 .. 4 -> Sources],
     fll     : 0 .. 150, pll : 0 .. 150,      \* output, 0 when off
     hf      : [0 .. 3 -> [path : 0 .. 4, div : {1, 2}]],
     cpu     : [fast : 0 .. 1, peri : 0 .. 1, slow : 0 .. 1],
     lf      : {"ILO", "WCO"}, bak : {"ILO", "WCO"},
     waits   : 0 .. 150]                      \* what the flash is set to keep up with

PathMHz(c, p) ==
    IF p = 0 /\ c.fll # 0 THEN c.fll
    ELSE IF p = 1 /\ c.pll # 0 THEN c.pll ELSE MHz(c.path[p])

HfMHz(c, i) == PathMHz(c, c.hf[i].path) \div c.hf[i].div

(* What a program may rely on when it starts; after a power-on nobody has  *)
(* put the core on an oscillator of the backup domain.                     *)
Legal(c) ==
    /\ HfMHz(c, 0) <= c.waits
    /\ \A p \in {0, 1} : PathMHz(c, p) <= 150
    /\ c.path[c.hf[0].path] \in c.running
    /\ c.cause = "por" => c.path[c.hf[0].path] = "IMO"

ASSUME EarlierAssumption == Earlier \subseteq Trees /\ \A c \in Earlier : Legal(c)
ASSUME PllsAssumption == NumPlls \in Nat \ {0}

(* The tree after a reset; the backup domain keeps its oscillators.        *)
AfterReset(cause, kept) ==
    [cause |-> cause, running |-> {"IMO", "ILO"} \cup kept,
     path |-> [p \in 0 .. 4 |-> "IMO"], fll |-> 0, pll |-> 0,
     hf |-> [i \in 0 .. 3 |-> [path |-> 0, div |-> 1]],
     cpu |-> [fast |-> 0, peri |-> 0, slow |-> 0],
     lf |-> "ILO", bak |-> "ILO", waits |-> 8]

StartTrees(kept) == {AfterReset(cause, kept) : cause \in {"por", "warm"}}

ClockStart ==
    /\ ckPc = "waitsWorst"
    /\ clk \in Earlier \cup StartTrees({}) \cup StartTrees({"WCO"})
    /\ divider = [d \in 1 .. 3 |-> 0] /\ csdDivider = 0
    /\ failed = {}
-----------------------------------------------------------------------------
(* A step of the program from one place to the next that cannot fail.      *)
Sets(here, there, tree) ==
    /\ ckPc = here /\ ckPc' = there
    /\ clk' = tree
    /\ UNCHANGED <<divider, csdDivider, failed>>

WaitsWorstSkipped ==   \* mutant
    Sets("waitsWorst", "power", clk)

WaitsWorst == Sets("waitsWorst", "power", [clk EXCEPT !.waits = 150])

PowerResetsAlways ==   \* mutant: whatever the cause of the reset
    Sets("power", "dividers", [clk EXCEPT !.running = {"IMO", "ILO"}, !.lf = "ILO", !.bak = "ILO"])

(* init_cycfg_power: after POR, XRES or a brown-out the backup domain is   *)
(* reset, which stops the WCO, and the ILO started anew.                   *)
Power ==
    Sets("power", "dividers",
         IF clk.cause = "por"
         THEN [clk EXCEPT !.running = {"IMO", "ILO"}, !.lf = "ILO", !.bak = "ILO"]
         ELSE clk)

ResetDividers ==
    Sets("dividers", "plls",
         [clk EXCEPT !.hf[0].div = 1, !.cpu = [fast |-> 0, peri |-> 1, slow |-> 0]])

PllsOffFromZero ==   \* mutant: an off-by-one, PLL numbers begin at 1
    Sets("plls", "path1", IF NumPlls >= 2 THEN [clk EXCEPT !.pll = 0] ELSE clk)

PllsOff == Sets("plls", "path1", IF NumPlls >= 1 THEN [clk EXCEPT !.pll = 0] ELSE clk)

Path1Default == Sets("path1", "aside", [clk EXCEPT !.path[1] = "IMO"])

(* The core leaves path 0 if that runs on the WCO.                         *)
Aside ==
    Sets("aside", "fllOff",
         IF clk.hf[0].path = 0 /\ clk.path[0] = "WCO" THEN [clk EXCEPT !.hf[0].path = 1] ELSE clk)

FllOff == Sets("fllOff", "path0", [clk EXCEPT !.fll = 0])

Path0Default == Sets("path0", "core", [clk EXCEPT !.path[0] = "IMO"])

CoreDefault == Sets("core", "wco", [clk EXCEPT !.hf[0].path = 0])

(* cycfg_ClockStartupError is a loop without an end.                       *)
Hangs == ckPc' = "hung"

WcoInit ==
    /\ ckPc = "wco"
    /\ \/ ckPc' = "lf" /\ clk' = [clk EXCEPT !.running = @ \cup {"WCO"}] /\ UNCHANGED failed
       \/ Hangs /\ failed' = failed \cup {"WCO"} /\ UNCHANGED clk
    /\ UNCHANGED <<divider, csdDivider>>

LfInit == Sets("lf", "cpu", [clk EXCEPT !.lf = "WCO"])

CpuInit == Sets("cpu", "paths", [clk EXCEPT !.cpu = [fast |-> 0, peri |-> 0, slow |-> 0]])

(* ClkPath0Init, ClkPath1Init and so on.                                   *)
PathSources == [p \in 0 .. 4 |-> "IMO"]

PathsInit == Sets("paths", "fll", [clk EXCEPT !.path = PathSources])

FllOutput == ((8 * 500) \div 20) \div 2   \* fllMult, refDiv, the output divider

FllInit ==
    /\ ckPc = "fll"
    /\ \/ /\ clk.fll = 0
          /\ ckPc' = "hf0" /\ clk' = [clk EXCEPT !.fll = FllOutput] /\ UNCHANGED failed
       \/ Hangs /\ UNCHANGED clk /\ failed' = IF clk.fll = 0 THEN failed \cup {"FLL"} ELSE failed
    /\ UNCHANGED <<divider, csdDivider>>

Hf0Init == Sets("hf0", "pll", [clk EXCEPT !.hf[0] = [path |-> 0, div |-> 1]])

PllOutput == ((8 * 49) \div 1) \div 4     \* feedbackDiv, referenceDiv, outputDiv

Pll0Init ==
    /\ ckPc = "pll"
    /\ \/ /\ clk.pll = 0
          /\ ckPc' = "hf" /\ clk' = [clk EXCEPT !.pll = PllOutput] /\ UNCHANGED failed
       \/ Hangs /\ UNCHANGED clk /\ failed' = IF clk.pll = 0 THEN failed \cup {"PLL"} ELSE failed
    /\ UNCHANGED <<divider, csdDivider>>

HfOnOnePath ==   \* mutant: HF2 from the path of its neighbours
    Sets("hf", "misc",
         [clk EXCEPT !.hf[1] = [path |-> 1, div |-> 2],
                     !.hf[2] = [path |-> 1, div |-> 2],
                     !.hf[3] = [path |-> 1, div |-> 1]])

(* ClkHf1Init, ClkHf2Init and ClkHf3Init.                                  *)
HfConfig(c) ==
    [c EXCEPT !.hf[1] = [path |-> 1, div |-> 2],
              !.hf[2] = [path |-> 0, div |-> 2],
              !.hf[3] = [path |-> 1, div |-> 1]]

HfInit == Sets("hf", "misc", HfConfig(clk))

(* Timer, SysTick, pump, backup clock and the ILO.                         *)
MiscInit == Sets("misc", "waits", [clk EXCEPT !.bak = "WCO", !.running = @ \cup {"ILO"}])

Waits == Sets("waits", "periph", [clk EXCEPT !.waits = 100])

(* init_cycfg_clocks.                                                      *)
PeriphDividers ==
    /\ ckPc = "periph" /\ ckPc' = "routing"
    /\ divider' = [d \in 1 .. 3 |-> IF d = 1 THEN 199 ELSE IF d = 2 THEN 11 ELSE 255]
    /\ UNCHANGED <<clk, csdDivider, failed>>

(* init_cycfg_peripherals; init_cycfg_routing and init_cycfg_pins, before  *)
(* and after it, are in Pins.                                              *)
CsdClock ==
    /\ ckPc = "csd" /\ ckPc' = "pins"
    /\ csdDivider' = 3
    /\ UNCHANGED <<clk, divider, failed>>

ClockStep ==
    \/ WaitsWorst \/ Power \/ ResetDividers \/ PllsOff \/ Path1Default \/ Aside
    \/ FllOff \/ Path0Default \/ CoreDefault \/ WcoInit \/ LfInit \/ CpuInit \/ PathsInit
    \/ FllInit \/ Hf0Init \/ Pll0Init \/ HfInit \/ MiscInit \/ Waits \/ PeriphDividers
    \/ CsdClock

(* A reset of the microcontroller begins again.                            *)
ClockReset ==
    /\ ckPc' = "waitsWorst"
    /\ clk' \in StartTrees(clk.running \cap {"WCO"})
    /\ divider' = [d \in 1 .. 3 |-> 0] /\ csdDivider' = 0
    /\ failed' = {}
-----------------------------------------------------------------------------
FlashKeepsUp == HfMHz(clk, 0) <= clk.waits

CoreClocked == clk.path[clk.hf[0].path] \in clk.running

(* At every step of the way from any earlier clock tree to the one         *)
(* configured the flash has enough wait states for the core's clock, and   *)
(* that never comes from an oscillator that has been stopped.              *)
CoreRuns == FlashKeepsUp /\ CoreClocked

HangsOnlyOnFailure == ckPc = "hung" => failed # {}

(* CY_CFG_SYSCLK_CLKHF0_FREQ_MHZ and so on.                                *)
DeclaredMHz == <<100, 49, 50, 98>>

ClocksAsDeclared ==
    ckPc = "done" =>
        /\ <<HfMHz(clk, 0), HfMHz(clk, 1), HfMHz(clk, 2), HfMHz(clk, 3)>> = DeclaredMHz
        /\ HfMHz(clk, 0) \div (clk.cpu.peri + 1) = 100
        /\ clk.lf = "WCO" /\ clk.bak = "WCO" /\ "WCO" \in clk.running
        /\ divider[csdDivider] = 255

(* Whatever was configured before, the start-up hangs only when an         *)
(* oscillator does not start or a loop does not lock, and never because    *)
(* the FLL or PLL it configures is still on; and when it is done the four  *)
(* clocks have the frequencies that cycfg_system.c declares, and           *)
(* peripherals and CapSense what cycfg_peripherals.h tells them.           *)
StartsAsDeclared == HangsOnlyOnFailure /\ ClocksAsDeclared
=============================================================================
