----------------------------- MODULE BootProofs -----------------------------
(***************************************************************************)
(* What TLAPS proves of Boot.  First of two of its parts alone, Clocks and *)
(* Panel: the flash keeps up with the core all along the way from any      *)
(* clock tree to the one configured, and what the panel has taken at every *)
(* edge of its bus.  Then of the program: every step of it is, for each    *)
(* part, a step of that part, a reset of it, or none; so what is proved of *)
(* the clocks and of the bus holds in the program, and so does what is     *)
(* proved here of the F-RAM chip, the touch scan, the codec and the pins.  *)
(***************************************************************************)
EXTENDS Boot, TLAPS, SequenceTheorems

(* From each place on: what the steps before it have settled.              *)
FromCsd    == {"csd", "pins", "done"}
FromPeriph == {"periph", "routing"} \cup FromCsd
FromMisc   == {"misc", "waits"} \cup FromPeriph
FromHf     == {"hf"} \cup FromMisc
FromPll    == {"pll"} \cup FromHf
FromHf0    == {"hf0"} \cup FromPll
FromFll    == {"fll"} \cup FromHf0
FromCore   == {"core", "wco", "lf", "cpu", "paths"} \cup FromFll
Places     == {"hung", "waitsWorst", "power", "dividers", "plls", "path1", "aside",
               "fllOff", "path0"} \cup FromCore

(* The flash is set for any clock until the frequencies are final, and     *)
(* the core stands on the IMO before its sources change.                   *)
CoreInv ==
    /\ ckPc \in Places /\ clk \in Trees
    /\ CoreClocked
    /\ ckPc = "waitsWorst" => Legal(clk)
    /\ ckPc = "power" /\ clk.cause = "por" => clk.path[clk.hf[0].path] = "IMO"
    /\ ckPc = "aside" => clk.path[1] = "IMO"
    /\ ckPc \in FromCore => clk.path[0] = "IMO"
    /\ ckPc \notin {"waitsWorst"} \cup FromPeriph => clk.waits = 150
    /\ ckPc \in FromHf0 => clk.fll = 100
    /\ ckPc \in FromPll => clk.hf[0] = [path |-> 0, div |-> 1]
    /\ ckPc \in FromPeriph => clk.waits = 100

LEMMA PathBounded ==
  ASSUME NEW c \in Trees, NEW p \in 0 .. 4
  PROVE  PathMHz(c, p) \in 0 .. 150
BY DEF PathMHz, Trees, MHz, Sources

LEMMA HfBounded ==
  ASSUME NEW c \in Trees
  PROVE  HfMHz(c, 0) \in 0 .. 150
<1>1. c.hf[0].path \in 0 .. 4 /\ c.hf[0].div \in {1, 2}
      BY DEF Trees
<1>2. PathMHz(c, c.hf[0].path) \in 0 .. 150
      BY <1>1, PathBounded
<1>3. CASE c.hf[0].div = 1
      BY <1>2, <1>3 DEF HfMHz
<1>4. CASE c.hf[0].div = 2
      BY <1>2, <1>4 DEF HfMHz
<1>5. QED
      BY <1>1, <1>3, <1>4

LEMMA CoreInvImplies == CoreInv => CoreRuns
<1> SUFFICES ASSUME CoreInv PROVE FlashKeepsUp /\ CoreClocked
    BY DEF CoreRuns
<1> USE DEF CoreInv, FlashKeepsUp
<1>1. CASE ckPc = "waitsWorst"
      BY <1>1 DEF Legal
<1>2. CASE ckPc \in FromPeriph
  <2>1. clk.waits = 100 /\ clk.fll = 100 /\ clk.hf[0] = [path |-> 0, div |-> 1]
        BY <1>2 DEF FromHf0, FromPll, FromHf, FromMisc
  <2>2. HfMHz(clk, 0) = 100
        BY <2>1 DEF HfMHz, PathMHz
  <2>3. QED
        BY <2>1, <2>2
<1>3. CASE ckPc \notin {"waitsWorst"} \cup FromPeriph
      BY <1>3, HfBounded
<1>4. QED
      BY <1>1, <1>2, <1>3

LEMMA StartTreesLegal ==
  ASSUME NEW kept \in SUBSET {"WCO"}, NEW c \in StartTrees(kept)
  PROVE  c \in Trees /\ Legal(c)
<1> PICK cause \in {"por", "warm"} : c = AfterReset(cause, kept)
    BY DEF StartTrees
<1>1. c \in Trees
      BY DEF AfterReset, Trees, Sources
<1>2. HfMHz(c, 0) = 8 /\ \A p \in {0, 1} : PathMHz(c, p) = 8
      BY DEF AfterReset, HfMHz, PathMHz, MHz
<1>3. QED
      BY <1>1, <1>2 DEF Legal, AfterReset

LEMMA CoreStart == ClockStart => CoreInv
<1> SUFFICES ASSUME ClockStart PROVE CoreInv
    OBVIOUS
<1>1. clk \in Trees /\ Legal(clk)
      BY EarlierAssumption, StartTreesLegal DEF ClockStart
<1>2. QED
      BY <1>1 DEF ClockStart, CoreInv, Legal, CoreClocked, Places, FromCore, FromFll, FromHf0,
                  FromPll, FromHf, FromMisc, FromPeriph, FromCsd

LEMMA CoreReset == CoreInv /\ ClockReset => CoreInv'
<1> SUFFICES ASSUME ClockReset PROVE CoreInv'
    OBVIOUS
<1>1. clk' \in Trees /\ Legal(clk')
      BY StartTreesLegal DEF ClockReset
<1>2. QED
      BY <1>1 DEF ClockReset, CoreInv, Legal, CoreClocked, Places, FromCore, FromFll, FromHf0,
                  FromPll, FromHf, FromMisc, FromPeriph, FromCsd

(* Trees whose oscillators or dividers have been set.                      *)
LEMMA TreesPowered ==
  \A c \in Trees : [c EXCEPT !.running = {"IMO", "ILO"}, !.lf = "ILO", !.bak = "ILO"] \in Trees
BY DEF Trees

LEMMA TreesBackedUp ==
  \A c \in Trees : [c EXCEPT !.bak = "WCO", !.running = @ \cup {"ILO"}] \in Trees
BY DEF Trees

LEMMA TreesDivided ==
  \A c \in Trees, hf \in [0 .. 3 -> [path : 0 .. 4, div : {1, 2}]],
     cpu \in [fast : 0 .. 1, peri : 0 .. 1, slow : 0 .. 1] :
        [c EXCEPT !.hf = hf, !.cpu = cpu] \in Trees
BY DEF Trees

LEMMA CoreSteps == ASSUME CoreInv, ClockStep PROVE CoreInv'
<1> USE DEF CoreInv, CoreClocked, Sets, Places, FromCore, FromFll, FromHf0, FromPll, FromHf,
            FromMisc, FromPeriph, FromCsd, Trees, Sources
<1>1. CASE WaitsWorst
      BY <1>1 DEF WaitsWorst, Legal
<1>2. CASE Power
  <2>1. ckPc = "power" /\ ckPc' = "dividers"
        BY <1>2 DEF Power
  <2>2. CASE clk.cause = "por"
    <3>1. clk' = [clk EXCEPT !.running = {"IMO", "ILO"}, !.lf = "ILO", !.bak = "ILO"]
          BY <1>2, <2>2 DEF Power
    <3>2. clk' \in Trees
      <4>1. clk \in Trees
            OBVIOUS
      <4>2. QED
        <5> HIDE DEF Trees, CoreInv
        <5>1. QED
              BY <3>1, <4>1, TreesPowered
    <3>3. /\ clk'.path = clk.path /\ clk'.hf = clk.hf /\ clk'.waits = clk.waits
          /\ "IMO" \in clk'.running
          BY <3>1
    <3>4. QED
          BY <2>1, <2>2, <3>2, <3>3
  <2>3. CASE clk.cause # "por"
        BY <1>2, <2>1, <2>3 DEF Power
  <2>4. QED
        BY <2>2, <2>3
<1>3. CASE ResetDividers
  <2> USE <1>3 DEF ResetDividers
  <2>1. /\ clk'.path = clk.path /\ clk'.running = clk.running /\ clk'.waits = clk.waits
        /\ clk'.hf[0].path = clk.hf[0].path
        OBVIOUS
  <2>2. clk'.hf \in [0 .. 3 -> [path : 0 .. 4, div : {1, 2}]]
        OBVIOUS
  <2>3. /\ clk' = [clk EXCEPT !.hf = clk'.hf, !.cpu = clk'.cpu]
        /\ clk'.cpu = [fast |-> 0, peri |-> 1, slow |-> 0]
        OBVIOUS
  <2>4. clk' \in Trees
    <3> HIDE <1>3
    <3>1. [fast |-> 0, peri |-> 1, slow |-> 0] \in [fast : 0 .. 1, peri : 0 .. 1, slow : 0 .. 1]
          OBVIOUS
    <3>2. clk \in Trees
          OBVIOUS
    <3>3. clk'.cpu \in [fast : 0 .. 1, peri : 0 .. 1, slow : 0 .. 1]
          BY <2>3, <3>1
    <3>4. QED
      <4> HIDE DEF Trees, CoreInv
      <4>1. [clk EXCEPT !.hf = clk'.hf, !.cpu = clk'.cpu] \in Trees
            BY <2>2, <3>2, <3>3, TreesDivided
      <4>2. QED
            BY <2>3, <4>1
  <2>5. QED
        BY <2>1, <2>4
<1>4. CASE PllsOff
      BY <1>4 DEF PllsOff
<1>5. CASE Path1Default
      BY <1>5 DEF Path1Default
<1>6. CASE Aside
      BY <1>6 DEF Aside
<1>7. CASE FllOff
      BY <1>7 DEF FllOff
<1>8. CASE Path0Default
      BY <1>8 DEF Path0Default
<1>9. CASE CoreDefault
      BY <1>9 DEF CoreDefault
<1>10. CASE WcoInit
      BY <1>10 DEF WcoInit, Hangs
<1>11. CASE LfInit
      BY <1>11 DEF LfInit
<1>12. CASE CpuInit
      BY <1>12 DEF CpuInit
<1>13. CASE PathsInit
      BY <1>13 DEF PathsInit, PathSources
<1>14. CASE FllInit
      BY <1>14 DEF FllInit, FllOutput, Hangs
<1>15. CASE Hf0Init
      BY <1>15 DEF Hf0Init
<1>16. CASE Pll0Init
      BY <1>16 DEF Pll0Init, PllOutput, Hangs
<1>17. CASE HfInit
  <2> USE <1>17 DEF HfInit, HfConfig
  <2>1. /\ clk'.path = clk.path /\ clk'.running = clk.running /\ clk'.waits = clk.waits
        /\ clk'.fll = clk.fll /\ clk'.hf[0] = clk.hf[0]
        OBVIOUS
  <2>2. clk'.hf \in [0 .. 3 -> [path : 0 .. 4, div : {1, 2}]]
        OBVIOUS
  <2>3. clk' \in Trees
        BY <2>2
  <2>4. ckPc = "hf" /\ ckPc' = "misc"
        OBVIOUS
  <2>5. QED
    <3> HIDE <1>17 DEF HfInit, HfConfig
    <3>1. QED
          BY <2>1, <2>3, <2>4
<1>18. CASE MiscInit
  <2>1. ckPc = "misc" /\ ckPc' = "waits" /\ clk' = [clk EXCEPT !.bak = "WCO", !.running = @ \cup {"ILO"}]
        BY <1>18 DEF MiscInit
  <2>2. clk' \in Trees
    <3>1. clk \in Trees
          OBVIOUS
    <3>2. QED
      <4> HIDE DEF Trees, CoreInv
      <4>1. QED
            BY <2>1, <3>1, TreesBackedUp
  <2>3. /\ clk'.path = clk.path /\ clk'.hf = clk.hf /\ clk'.waits = clk.waits
        /\ clk'.fll = clk.fll /\ clk.running \subseteq clk'.running
        BY <2>1
  <2>4. QED
        BY <2>1, <2>2, <2>3
<1>19. CASE Waits
      BY <1>19 DEF Waits
<1>20. CASE PeriphDividers
      BY <1>20 DEF PeriphDividers
<1>21. CASE CsdClock
      BY <1>21 DEF CsdClock
<1>22. QED
      BY <1>1, <1>2, <1>3, <1>4, <1>5, <1>6, <1>7, <1>8, <1>9, <1>10, <1>11, <1>12, <1>13, <1>14, <1>15, <1>16, <1>17, <1>18, <1>19, <1>20, <1>21
      DEF ClockStep

(* init_cycfg_all goes on with routing and pins, which touch no clock.     *)
Elsewhere == Sets("routing", "csd", clk) \/ Sets("pins", "done", clk)

LEMMA CoreElsewhere == CoreInv /\ (Elsewhere \/ UNCHANGED ckVars) => CoreInv'
BY DEF CoreInv, Elsewhere, Sets, ckVars, CoreClocked, Legal, HfMHz, PathMHz, Places, FromCore,
       FromFll, FromHf0, FromPll, FromHf, FromMisc, FromPeriph, FromCsd
-----------------------------------------------------------------------------
(* What is configured by then, and that the FLL and the PLL are off when   *)
(* their turn comes.                                                       *)
DeclInv ==
    /\ CoreInv
    /\ ckPc = "hung" => failed # {}
    /\ ckPc \in {"path0", "core", "wco", "lf", "cpu", "paths", "fll"} => clk.fll = 0
    /\ ckPc \in {"path1", "aside", "fllOff", "path0", "core", "wco", "lf", "cpu", "paths", "fll",
                 "hf0", "pll"} => clk.pll = 0
    /\ ckPc \in {"lf", "cpu", "paths"} \cup FromFll => "WCO" \in clk.running
    /\ ckPc \in {"cpu", "paths"} \cup FromFll => clk.lf = "WCO"
    /\ ckPc \in {"paths"} \cup FromFll => clk.cpu.peri = 0
    /\ ckPc \in FromHf => clk.pll = 98
    /\ ckPc \in FromMisc =>
          /\ clk.hf[1] = [path |-> 1, div |-> 2]
          /\ clk.hf[2] = [path |-> 0, div |-> 2]
          /\ clk.hf[3] = [path |-> 1, div |-> 1]
    /\ ckPc \in {"waits"} \cup FromPeriph => clk.bak = "WCO"
    /\ ckPc \in {"routing"} \cup FromCsd => divider[3] = 255
    /\ ckPc \in {"pins", "done"} => csdDivider = 3

LEMMA DeclImplies == DeclInv => StartsAsDeclared
<1> SUFFICES ASSUME DeclInv PROVE HangsOnlyOnFailure /\ ClocksAsDeclared
    BY DEF StartsAsDeclared
<1>1. HangsOnlyOnFailure
      BY DEF DeclInv, HangsOnlyOnFailure
<1>2. ASSUME ckPc = "done" PROVE
          /\ clk.fll = 100 /\ clk.pll = 98 /\ clk.cpu.peri = 0
          /\ clk.hf[0] = [path |-> 0, div |-> 1] /\ clk.hf[1] = [path |-> 1, div |-> 2]
          /\ clk.hf[2] = [path |-> 0, div |-> 2] /\ clk.hf[3] = [path |-> 1, div |-> 1]
          /\ clk.lf = "WCO" /\ clk.bak = "WCO" /\ "WCO" \in clk.running
          /\ divider[csdDivider] = 255
      BY <1>2 DEF DeclInv, CoreInv, FromFll, FromHf0, FromPll, FromHf, FromMisc, FromPeriph, FromCsd
<1>3. ASSUME ckPc = "done"
      PROVE  HfMHz(clk, 0) = 100 /\ HfMHz(clk, 1) = 49 /\ HfMHz(clk, 2) = 50 /\ HfMHz(clk, 3) = 98
      BY <1>2, <1>3 DEF HfMHz, PathMHz
<1>4. ClocksAsDeclared
      BY <1>2, <1>3 DEF ClocksAsDeclared, DeclaredMHz
<1>5. QED
      BY <1>1, <1>4

LEMMA DeclStart == ClockStart => DeclInv
BY CoreStart DEF ClockStart, DeclInv, FromFll, FromHf0, FromPll, FromHf, FromMisc, FromPeriph, FromCsd

LEMMA DeclReset == DeclInv /\ ClockReset => DeclInv'
BY CoreReset DEF ClockReset, DeclInv, FromFll, FromHf0, FromPll, FromHf, FromMisc, FromPeriph, FromCsd

LEMMA DeclElsewhere == DeclInv /\ (Elsewhere \/ UNCHANGED ckVars) => DeclInv'
BY CoreElsewhere DEF Elsewhere, Sets, ckVars, DeclInv, FromFll, FromHf0, FromPll, FromHf, FromMisc,
                     FromPeriph, FromCsd

LEMMA DeclSteps == ASSUME DeclInv, ClockStep PROVE DeclInv'
<1>0. CoreInv'
      BY CoreSteps DEF DeclInv
<1>t. clk \in Trees
      BY DEF DeclInv, CoreInv
<1> USE <1>0, <1>t DEF DeclInv, Sets, FromFll, FromHf0, FromPll, FromHf, FromMisc, FromPeriph,
                       FromCsd, Trees
<1>1. CASE WaitsWorst
      BY <1>1 DEF WaitsWorst
<1>2. CASE Power
      BY <1>2 DEF Power
<1>3. CASE ResetDividers
      BY <1>3 DEF ResetDividers
<1>4. CASE PllsOff
      BY <1>4, PllsAssumption DEF PllsOff
<1>5. CASE Path1Default
      BY <1>5 DEF Path1Default
<1>6. CASE Aside
      BY <1>6 DEF Aside
<1>7. CASE FllOff
      BY <1>7 DEF FllOff
<1>8. CASE Path0Default
      BY <1>8 DEF Path0Default
<1>9. CASE CoreDefault
      BY <1>9 DEF CoreDefault
<1>10. CASE WcoInit
      BY <1>10 DEF WcoInit, Hangs
<1>11. CASE LfInit
      BY <1>11 DEF LfInit
<1>12. CASE CpuInit
      BY <1>12 DEF CpuInit
<1>13. CASE PathsInit
      BY <1>13 DEF PathsInit
<1>14. CASE FllInit
      BY <1>14 DEF FllInit, Hangs
<1>15. CASE Hf0Init
      BY <1>15 DEF Hf0Init
<1>16. CASE Pll0Init
      BY <1>16 DEF Pll0Init, PllOutput, Hangs
<1>17. CASE HfInit
      BY <1>17 DEF HfInit, HfConfig
<1>18. CASE MiscInit
      BY <1>18 DEF MiscInit
<1>19. CASE Waits
      BY <1>19 DEF Waits
<1>20. CASE PeriphDividers
      BY <1>20 DEF PeriphDividers
<1>21. CASE CsdClock
      BY <1>21 DEF CsdClock
<1>22. QED
      BY <1>1, <1>2, <1>3, <1>4, <1>5, <1>6, <1>7, <1>8, <1>9, <1>10, <1>11, <1>12, <1>13, <1>14, <1>15, <1>16, <1>17, <1>18, <1>19, <1>20, <1>21
      DEF ClockStep
-----------------------------------------------------------------------------
Sending == {"dc", "byte", "low", "high"}
Reading == {"input", "nrdLow", "read", "nrdHigh", "output"}

LineType ==
    lines \in [data : Byte, dc : {0, 1}, nwr : {0, 1}, nrd : {0, 1}, rst : {0, 1},
               dir : {"host", "panel"}]

PanelType ==
    /\ busAt \in {"off", "reset", "release", "script", "ready"} \cup Sending \cup Reading
    /\ LineType
    /\ call \in Calls /\ panel \in Calls
    /\ back \in {"script", "ready"} /\ pos \in Nat /\ sent \in Nat

(* Before the byte at pos goes out the panel has the command and the       *)
(* parameters before it.                                                   *)
SentSoFar ==
    pos > 0 =>
        /\ panel.cmd = call.cmd
        /\ Len(panel.params) = pos - 1
        /\ \A k \in 1 .. pos - 1 : panel.params[k] = call.params[k]

(* And the lines carry that byte as what it is.                            *)
LinesCarry ==
    /\ busAt \in Sending => pos <= Len(call.params) /\ SentSoFar
    /\ busAt \in {"byte", "low", "high"} => lines.dc = IF pos = 0 THEN 0 ELSE 1
    /\ busAt \in {"low", "high"} =>
          lines.data = IF pos = 0 THEN call.cmd ELSE call.params[pos]

(* Where no function of the bus is under way, and between the pixels.      *)
AtRest ==
    /\ busAt \in {"off", "reset", "release", "script", "ready"} => pos = 0
    /\ busAt \in {"off", "reset", "release"} => call = Blank
    /\ busAt = "release" => panel = Blank
    /\ busAt \in {"script", "ready"} \cup Reading => panel = call
    /\ busAt \in {"ready"} \cup Reading => back = "ready"
    /\ busAt \in {"off", "reset", "release", "script"} => back = "script"

Directions ==
    /\ busAt \notin {"off", "read", "nrdHigh"} => lines.nrd = 1
    /\ busAt \in {"off", "nrdLow", "read", "nrdHigh"} => lines.dir = "panel"
    /\ busAt = "read" => lines.nrd = 0
    /\ sample # "other"

PanelInv == PanelType /\ LinesCarry /\ AtRest /\ Directions

LEMMA PanelInvImplies == PanelInv => BusWorks
<1>1. AtRest => BytesArrive
      BY DEF AtRest, BytesArrive
<1>2. Directions => NoContention
      BY DEF Directions, NoContention
<1>3. QED
      BY <1>1, <1>2 DEF PanelInv, BusWorks

LEMMA BlankIsCall == Blank \in Calls
<1>1. 0 \in Byte /\ <<>> \in Seq(Byte)
      BY EmptySeq DEF Byte
<1>2. QED
      BY <1>1 DEF Blank, Calls, Cmd

LEMMA ScriptIsCalls == \A i \in 1 .. Len(Script) : Script[i] \in Calls
<1>1. Script \in Seq(Calls)
      BY DEF Script, Calls, Cmd, Byte
<1>2. QED
      BY <1>1

LEMMA PanelInit == PanelStart => PanelInv
<1> SUFFICES ASSUME PanelStart PROVE PanelInv
    OBVIOUS
<1> USE BlankIsCall DEF PanelStart
<1>1. PanelType
      BY DEF PanelType, LineType, Byte
<1>2. LinesCarry /\ AtRest /\ Directions
      BY DEF LinesCarry, AtRest, Directions, Sending, Reading
<1>3. QED
      BY <1>1, <1>2 DEF PanelInv

LEMMA PanelAfterReset == PanelReset => PanelInv'
<1> SUFFICES ASSUME PanelReset PROVE PanelInv'
    OBVIOUS
<1> USE BlankIsCall DEF PanelReset
<1>1. PanelType'
      BY DEF PanelType, LineType, Byte
<1>2. LinesCarry' /\ AtRest' /\ Directions'
      BY DEF LinesCarry, AtRest, Directions, Sending, Reading
<1>3. QED
      BY <1>1, <1>2 DEF PanelInv

LEMMA PanelStutters == PanelInv /\ UNCHANGED panelVars => PanelInv'
BY DEF PanelInv, PanelType, LineType, LinesCarry, SentSoFar, AtRest, Directions, panelVars

(* The start-up, and the edges that carry no byte.                         *)
LEMMA PanelQuiet ==
  ASSUME PanelInv, IoInit \/ ResetLow \/ ResetHigh \/ NextCall \/ Draw
  PROVE  PanelInv'
<1> USE BlankIsCall DEF PanelInv, Sending, Reading
<1>1. CASE IoInit
  <2>1. PanelType'
        BY <1>1 DEF IoInit, PanelType, LineType, Byte
  <2>2. LinesCarry' /\ AtRest' /\ Directions'
        BY <1>1 DEF IoInit, LinesCarry, AtRest, Directions
  <2>3. QED
        BY <2>1, <2>2
<1>2. CASE ResetLow
  <2>1. PanelType'
        BY <1>2 DEF ResetLow, Line, PanelType, LineType
  <2>2. LinesCarry' /\ AtRest' /\ Directions'
        BY <1>2 DEF ResetLow, Line, LinesCarry, AtRest, Directions, PanelType, LineType
  <2>3. QED
        BY <2>1, <2>2
<1>3. CASE ResetHigh
  <2>1. PanelType'
        BY <1>3 DEF ResetHigh, Line, PanelType, LineType
  <2>2. LinesCarry' /\ AtRest' /\ Directions'
        BY <1>3 DEF ResetHigh, Line, LinesCarry, AtRest, Directions, PanelType, LineType
  <2>3. QED
        BY <2>1, <2>2
<1>4. CASE NextCall
  <2>1. call' \in Calls
        BY <1>4, ScriptIsCalls DEF NextCall, PanelType
  <2>2. PanelType'
        BY <1>4, <2>1 DEF NextCall, PanelType, LineType
  <2>3. Len(call'.params) \in Nat
        BY <2>1 DEF Calls
  <2>4. LinesCarry' /\ AtRest' /\ Directions'
        BY <1>4, <2>3 DEF NextCall, LinesCarry, SentSoFar, AtRest, Directions, PanelType
  <2>5. QED
        BY <2>2, <2>4
<1>5. CASE Draw
  <2>1. call' \in Calls
        BY <1>5, DrawsAssumption DEF Draw
  <2>2. PanelType'
        BY <1>5, <2>1 DEF Draw, PanelType, LineType
  <2>3. Len(call'.params) \in Nat
        BY <2>1 DEF Calls
  <2>4. LinesCarry' /\ AtRest' /\ Directions'
        BY <1>5, <2>3 DEF Draw, LinesCarry, SentSoFar, AtRest, Directions, PanelType
  <2>5. QED
        BY <2>2, <2>4
<1>6. QED
      BY <1>1, <1>2, <1>3, <1>4, <1>5

(* A byte is set up and latched.                                           *)
LEMMA PanelWrites ==
  ASSUME PanelInv, SetDc \/ PutByte \/ NwrLow
  PROVE  PanelInv'
<1> USE DEF PanelInv, Sending, Reading, Line
<1>0. /\ call.cmd \in Byte
      /\ pos > 0 /\ pos <= Len(call.params) => call.params[pos] \in Byte
      BY DEF PanelType, Calls
<1>1. CASE SetDc
  <2>1. PanelType'
        BY <1>1 DEF SetDc, PanelType, LineType
  <2>2. LinesCarry' /\ AtRest' /\ Directions'
        BY <1>1 DEF SetDc, LinesCarry, SentSoFar, AtRest, Directions, PanelType, LineType
  <2>3. QED
        BY <2>1, <2>2
<1>2. CASE PutByte
  <2>1. PanelType'
        BY <1>0, <1>2 DEF PutByte, PanelType, LineType, LinesCarry
  <2>2. LinesCarry' /\ AtRest' /\ Directions'
        BY <1>2 DEF PutByte, LinesCarry, SentSoFar, AtRest, Directions, PanelType, LineType
  <2>3. QED
        BY <2>1, <2>2
<1>3. CASE NwrLow
  <2>1. PanelType'
        BY <1>3 DEF NwrLow, PanelType, LineType
  <2>2. LinesCarry' /\ AtRest' /\ Directions'
        BY <1>3 DEF NwrLow, LinesCarry, SentSoFar, AtRest, Directions, PanelType, LineType
  <2>3. QED
        BY <2>1, <2>2
<1>4. QED
      BY <1>1, <1>2, <1>3

(* The rising edge of NWR, with which the panel takes the byte.            *)
LEMMA PanelLatches == ASSUME PanelInv, NwrHigh PROVE PanelInv'
<1> USE DEF PanelInv, NwrHigh
<1>1. /\ panel' \in Calls /\ panel'.cmd = call.cmd
      /\ Len(panel'.params) = pos
      /\ \A k \in 1 .. pos : panel'.params[k] = call.params[k]
  <2>1. CASE pos = 0
        BY <2>1 DEF PanelTakes, LinesCarry, PanelType, LineType, Calls, Cmd, Sending
  <2>2. CASE pos > 0
    <3>1. /\ lines.dc = 1 /\ lines.data = call.params[pos] /\ lines.data \in Byte
          /\ panel.cmd = call.cmd /\ Len(panel.params) = pos - 1
          /\ \A k \in 1 .. pos - 1 : panel.params[k] = call.params[k]
          BY <2>2 DEF LinesCarry, SentSoFar, PanelType, LineType, Sending
    <3>2. panel' = [panel EXCEPT !.params = Append(panel.params, lines.data)]
          BY <3>1 DEF PanelTakes
    <3>3. panel.params \in Seq(Byte) /\ panel.cmd \in Byte
          BY DEF PanelType, Calls
    <3>4. /\ Append(panel.params, lines.data) \in Seq(Byte)
          /\ Len(Append(panel.params, lines.data)) = pos
          /\ \A k \in 1 .. pos : Append(panel.params, lines.data)[k] = call.params[k]
          BY <2>2, <3>1, <3>3, AppendProperties DEF PanelType
    <3>5. QED
          BY <3>1, <3>2, <3>3, <3>4 DEF PanelType, Calls
  <2>3. QED
        BY <2>1, <2>2 DEF PanelType
<1>2. PanelType'
      BY <1>1 DEF PanelType, LineType, Sending
<1>3. CASE pos < Len(call.params)
  <2>1. LinesCarry' /\ AtRest' /\ Directions'
        BY <1>1, <1>3 DEF LinesCarry, SentSoFar, AtRest, Directions, PanelType, LineType,
                          Sending, Reading, Calls
  <2>2. QED
        BY <1>2, <2>1
<1>4. CASE ~(pos < Len(call.params))
  <2>1. Len(call.params) = pos
        BY <1>4 DEF LinesCarry, PanelType, Calls, Sending
  <2>2. panel'.params = call.params
        BY <1>1, <2>1, SeqEqual DEF PanelType, Calls
  <2>3. panel' = call
        BY <1>1, <2>2 DEF PanelType, Calls
  <2>4. LinesCarry' /\ AtRest' /\ Directions'
        BY <1>4, <2>3 DEF LinesCarry, SentSoFar, AtRest, Directions, PanelType, LineType,
                          Sending, Reading
  <2>5. QED
        BY <1>2, <2>4
<1>5. QED
      BY <1>3, <1>4

(* Pixels are read while the panel drives the lines.                       *)
LEMMA PanelReads ==
  ASSUME PanelInv,
         ReadPixels \/ SetInput \/ NrdLow \/ ReadByte \/ NrdHigh \/ SetOutput
  PROVE  PanelInv'
<1> USE DEF PanelInv, Sending, Reading, Line
<1>1. PanelType'
      BY DEF ReadPixels, SetInput, NrdLow, ReadByte, NrdHigh, SetOutput, PanelType, LineType
<1>2. LinesCarry' /\ AtRest'
      BY DEF ReadPixels, SetInput, NrdLow, ReadByte, NrdHigh, SetOutput, LinesCarry, AtRest
<1>3. Directions'
      BY DEF ReadPixels, SetInput, NrdLow, ReadByte, NrdHigh, SetOutput, Directions,
             PanelType, LineType
<1>4. QED
      BY <1>1, <1>2, <1>3

LEMMA PanelSteps == PanelInv /\ PanelStep => PanelInv'
BY PanelQuiet, PanelWrites, PanelLatches, PanelReads DEF PanelStep

(* On a bus of its own, for any drawings and any number of them, the panel *)
(* has every command with its parameters when a function of cy_tft.c       *)
(* returns, and host and panel never drive the data lines together.        *)
THEOREM PanelBus == PanelSpec => []BusWorks
<1>1. QED
      BY PanelInit, PanelSteps, PanelStutters, PanelInvImplies, PTL DEF PanelSpec
-----------------------------------------------------------------------------
LEMMA NextForParts ==
  ASSUME [Next]_vars
  PROVE  /\ ClockStep \/ Elsewhere \/ UNCHANGED ckVars \/ ClockReset
         /\ PanelStep \/ UNCHANGED panelVars \/ PanelReset
         /\ TouchStep \/ UNCHANGED touchVars \/ TouchReset
         /\ FramStep \/ UNCHANGED framVars \/ FramReset
<1>1. CASE Configures
      BY <1>1 DEF Configures, Elsewhere
<1>2. CASE Constructors \/ Console \/ FramQspi \/ LcdStartUp \/ ImuInit \/ Connects
      BY <1>2 DEF Constructors, Console, FramQspi, LcdStartUp, ImuInit, Connects, Idle
<1>3. CASE FramCommands
      BY <1>3 DEF FramCommands
<1>4. CASE LcdThread
      BY <1>4 DEF LcdThread
<1>5. CASE CapsenseUp
      BY <1>5 DEF CapsenseUp, TouchStep
<1>6. CASE SoundPins \/ SoundVolume \/ SoundOff \/ SoundRecords \/ CodecWrite
      BY <1>6 DEF SoundPins, SoundVolume, SoundOff, SoundRecords, CodecWrite, Then, CodecOnly, Idle
<1>7. CASE ScanRuns
      BY <1>7 DEF ScanRuns, TouchStep
<1>8. CASE RunCapSenseScan
      BY <1>8 DEF RunCapSenseScan, TouchStep
<1>9. CASE NewVolume \/ SameVolume \/ ConsoleOff \/ PlayPin \/ PlaybackOff \/ FreePins
      BY <1>9 DEF NewVolume, SameVolume, ConsoleOff, PlayPin, PlaybackOff, FreePins, Then,
                  CodecOnly, Idle
<1>10. CASE NoButton \/ PlaybackOn \/ ConsoleBack
      BY <1>10 DEF NoButton, PlaybackOn, ConsoleBack, Again, TouchStep
<1>11. CASE ResetHost
      BY <1>11 DEF ResetHost
<1>12. CASE UNCHANGED vars
      BY <1>12 DEF vars
<1>13. QED
      BY <1>1, <1>2, <1>3, <1>4, <1>5, <1>6, <1>7, <1>8, <1>9, <1>10, <1>11, <1>12 DEF Next

(* From any legal clock tree an earlier program or a reset leaves, with    *)
(* resets at any moment, the flash keeps up with the core and the core's   *)
(* clock never stops (init_cycfg_system).                                  *)
THEOREM CoreAlwaysRuns == Spec => []CoreRuns
<1>1. Init => CoreInv
      BY CoreStart DEF Init
<1>2. CoreInv /\ [Next]_vars => CoreInv'
      BY NextForParts, CoreSteps, CoreElsewhere, CoreReset
<1>3. QED
      BY <1>1, <1>2, CoreInvImplies, PTL DEF Spec

(* And the start-up hangs only on an oscillator or a loop that fails, and  *)
(* ends with the frequencies that the generated code declares.             *)
THEOREM EndsAsDeclared == Spec => []StartsAsDeclared
<1>1. Init => DeclInv
      BY DeclStart DEF Init
<1>2. DeclInv /\ [Next]_vars => DeclInv'
      BY NextForParts, DeclSteps, DeclElsewhere, DeclReset
<1>3. QED
      BY <1>1, <1>2, DeclImplies, PTL DEF Spec

(* For any drawings, their number and the number of pixels read: the panel *)
(* gets every command with its parameters and nobody drives the lines      *)
(* against it, in the program with its resets (cy_tft.c, LCDConf.cpp).     *)
THEOREM PanelServed == Spec => []BusWorks
<1>1. Init => PanelInv
      BY PanelInit DEF Init
<1>2. PanelInv /\ [Next]_vars => PanelInv'
      BY NextForParts, PanelSteps, PanelStutters, PanelAfterReset
<1>3. QED
      BY <1>1, <1>2, PanelInvImplies, PTL DEF Spec
-----------------------------------------------------------------------------
(* The commands of fram_init, one by one.                                  *)
LEMMA CommandsAre ==
  /\ Len(Commands) = 17
  /\ Commands[1] = [op |-> "WREN", bus |-> "DPI"]
  /\ Commands[2] = [op |-> "CR2", bus |-> "DPI", val |-> "SPI"]
  /\ Commands[3] = [op |-> "WREN", bus |-> "QPI"]
  /\ Commands[4] = [op |-> "CR2", bus |-> "QPI", val |-> "SPI"]
  /\ \A i \in {5, 7, 9} : Commands[i] = [op |-> "WREN", bus |-> "SPI"]
  /\ Commands[6] = [op |-> "CR1", bus |-> "SPI", val |-> 0]
  /\ Commands[8] = [op |-> "CR5", bus |-> "SPI", val |-> 0]
  /\ Commands[10] = [op |-> "CR2", bus |-> "SPI", val |-> "QPI"]
  /\ \A i \in {11, 13} : Commands[i] = [op |-> "WREN", bus |-> "QPI"]
  /\ Commands[12] = [op |-> "CR1", bus |-> "QPI", val |-> 5]
  /\ Commands[14] = [op |-> "CR5", bus |-> "QPI", val |-> 1]
  /\ Commands[15] = [op |-> "RDID", bus |-> "QPI", latency |-> 1]
  /\ Commands[16] = [op |-> "RUID", bus |-> "QPI", latency |-> 1]
  /\ Commands[17] = [op |-> "READ", bus |-> "QPI", latency |-> 5]
BY DEF Commands, Reset, SetMode, SetMem, SetReg, Wren, MEM_LATENCY, REG_LATENCY

(* What the commands so far have made of the chip, whatever it was.        *)
FramInv ==
    /\ next \in 1 .. 18 /\ mode \in Modes /\ wel \in BOOLEAN
    /\ latency \in [CR1 : Int, CR5 : Int]
    /\ next = 2 /\ mode = "DPI" => wel
    /\ next \in {3, 4} => mode # "DPI"
    /\ next = 4 /\ mode = "QPI" => wel
    /\ next \in 5 .. 10 => mode = "SPI"
    /\ next \in 11 .. 18 => mode = "QPI"
    /\ next \in {6, 8, 10, 12, 14} => wel
    /\ next >= 13 => latency.CR1 = 5
    /\ next >= 15 => latency.CR5 = 1 /\ ~wel
    /\ status \in {"unread", "stored"}

LEMMA FramStarts == FramStart => FramInv
BY LatencyAssumption DEF FramStart, FramInv, Modes

LEMMA FramResets == FramInv /\ (FramReset \/ UNCHANGED framVars) => FramInv'
BY DEF FramInv, FramReset, framVars

LEMMA FramWrites == FramInv /\ FramWrite => FramInv'
<1> SUFFICES ASSUME FramInv, FramWrite PROVE FramInv'
    OBVIOUS
<1> DEFINE c == Commands[next]
           taken == c.bus = mode /\ (wel \/ c.op = "WREN")
<1>1. /\ next <= 17 /\ c.op \in {"WREN", "CR1", "CR2", "CR5"}
      /\ wel' = IF taken THEN c.op = "WREN" ELSE wel
      /\ mode' = IF taken /\ c.op = "CR2" THEN c.val ELSE mode
      /\ latency' = IF taken /\ c.op \in {"CR1", "CR5"}
                    THEN [latency EXCEPT ![c.op] = c.val] ELSE latency
      /\ next' = next + 1 /\ status' = status
      BY CommandsAre DEF FramWrite, Understood
<1>2. next \in 1 .. 14
      BY <1>1, CommandsAre DEF FramInv
<1>w. wel' \in BOOLEAN
      BY <1>1 DEF FramInv
<1> HIDE DEF c, taken
<1>3. CASE next \in {1, 3, 5, 7, 9, 11, 13}
  <2>1. c.op = "WREN" /\ c.bus = IF next = 1 THEN "DPI" ELSE IF next \in {3, 11, 13} THEN "QPI" ELSE "SPI"
        BY <1>3, CommandsAre DEF c
  <2>2. (wel' <=> c.bus = mode \/ wel) /\ mode' = mode /\ latency' = latency
        BY <1>1, <2>1 DEF taken, FramInv
  <2>3. QED
        BY <1>w, <1>1, <1>3, <2>1, <2>2 DEF FramInv, Modes
<1>4. CASE next \in {2, 4, 10}
  <2>1. c.op = "CR2" /\ c.bus = (IF next = 2 THEN "DPI" ELSE IF next = 4 THEN "QPI" ELSE "SPI")
        /\ c.val = (IF next = 10 THEN "QPI" ELSE "SPI")
        BY <1>4, CommandsAre DEF c
  <2>2. /\ wel' <=> wel /\ c.bus # mode
        /\ latency' = latency
        /\ mode' = IF c.bus = mode /\ wel THEN c.val ELSE mode
        BY <1>1, <2>1 DEF taken, FramInv
  <2>3. QED
        BY <1>w, <1>1, <1>4, <2>1, <2>2 DEF FramInv, Modes
<1>5. CASE next \in {6, 8, 12, 14}
  <2>1. /\ c.op = (IF next \in {6, 12} THEN "CR1" ELSE "CR5")
        /\ c.bus = (IF next \in {6, 8} THEN "SPI" ELSE "QPI")
        /\ c.val = (IF next = 12 THEN 5 ELSE IF next = 14 THEN 1 ELSE 0)
        BY <1>5, CommandsAre DEF c
  <2>2. wel /\ c.bus = mode
        BY <1>5, <2>1 DEF FramInv
  <2>3. ~wel' /\ mode' = mode /\ latency' = [latency EXCEPT ![c.op] = c.val]
        BY <1>1, <2>1, <2>2 DEF taken
  <2>4. QED
        BY <1>w, <1>1, <1>5, <2>1, <2>3 DEF FramInv
<1>6. QED
      BY <1>2, <1>3, <1>4, <1>5

LEMMA FramReads == FramInv /\ FramRead => FramInv'
<1> SUFFICES ASSUME FramInv, FramRead PROVE FramInv'
    OBVIOUS
<1>1. next \in 15 .. 17
  <2>1. next <= 17 /\ Commands[next].op \in {"RDID", "RUID", "READ"}
        BY CommandsAre DEF FramRead
  <2>2. QED
        BY <2>1, CommandsAre DEF FramInv
<1>2. status' \in {"unread", "stored"}
  <2>1. next = 17 => ReadsWell(Commands[next])
        BY CommandsAre DEF FramInv, ReadsWell, Understood
  <2>2. next \in {15, 16} => Commands[next].op # "READ"
        BY CommandsAre
  <2>3. QED
        BY <1>1, <2>1, <2>2 DEF FramRead, FramInv
<1>3. QED
      BY <1>1, <1>2 DEF FramRead, FramInv

LEMMA FramInvImplies == FramInv => StatusIsRead
BY CommandsAre DEF FramInv, StatusIsRead

(* For any latencies, and with resets between any two commands: the record *)
(* that main reads is the one that is stored, and the chip is left closed  *)
(* for writing (fram_init).                                                *)
THEOREM RecordRead == Spec => []StatusIsRead
<1>1. Init => FramInv
      BY FramStarts DEF Init
<1>2. FramInv /\ [Next]_vars => FramInv'
      BY NextForParts, FramWrites, FramReads, FramResets DEF FramStep
<1>3. QED
      BY <1>1, <1>2, FramInvImplies, PTL DEF Spec
-----------------------------------------------------------------------------
(* The touch scan.  What lies under the finger at each widget, and the     *)
(* widgets whose last sample is of another finger.                         *)
Under(w) == PinsOf(w) \cap finger
Stale(w) == raw[w] # Under(w)
AnyStale == \E w \in 1 .. 4 : Stale(w)

(* Passes that stale samples may still spoil: one for each scan that has   *)
(* been announced, for the running scan if it has passed a stale widget,   *)
(* and for the pass under way if its samples were read.                    *)
PassedStale == \E w \in 1 .. 4 : w < scan /\ Stale(w)
Spoils ==
    token + (IF PassedStale THEN 1 ELSE 0) + (IF touchAt \in {"process", "status"} THEN 1 ELSE 0)

Reported == IF touchAt = "status" /\ passes < 5 THEN passes + 1 ELSE passes

TouchType ==
    /\ finger \in Fingers
    /\ scan \in 0 .. 4 /\ token \in 0 .. 2
    /\ left \in [1 .. 4 -> 0 .. 3]
    /\ active \subseteq 1 .. 4
    /\ raw \in [1 .. 4 -> SUBSET (SliderPads \cup {"P8_0", "P8_1", "P8_2"})]
    /\ prev \in [{1, 2} -> BOOLEAN] /\ led \in BOOLEAN
    /\ passes \in 0 .. 5
    /\ touchAt \in {"off", "loop", "acquire", "process", "status", "seen"}

(* At most two scans are announced or running, and one while main is not   *)
(* waiting for it.                                                         *)
Tokens ==
    LET running == IF scan = 0 THEN 0 ELSE 1
    IN  /\ token + running <= IF touchAt = "acquire" THEN 2 ELSE 1
        /\ touchAt = "acquire" => token + running >= 1
        /\ touchAt = "off" => token + running = 0

(* Stale samples are of the first two passes; from the third on they tell  *)
(* of the finger, and a touched widget comes closer to its debounced state *)
(* with each pass; what is reported is what was processed.                 *)
Debounced ==
    Reported >= 3 =>
        /\ \A w \in 1 .. 4 : Under(w) # {} => left[w] <= 5 - Reported
        /\ active = {w \in 1 .. 4 : Under(w) # {} /\ left[w] = 0}
        /\ 3 \in active => position = Position(Under(3))

Told ==
    passes >= 5 =>
        /\ prev[1] <=> 1 \in active
        /\ prev[2] <=> 2 \in active
        /\ 3 \in active => prevSlider = position
        /\ led <=> (active \cap {1, 2, 3} # {})

TouchInv ==
    /\ TouchType /\ Tokens
    /\ AnyStale => passes + Spoils <= 2
    /\ Debounced /\ Told

LEMMA WidgetPins ==
  /\ Widgets = 1 .. 4 /\ Len(WidgetConfig) = 4
  /\ PinsOf(1) = {"P8_1"} /\ PinsOf(2) = {"P8_2"}
  /\ PinsOf(3) = SliderPads /\ PinsOf(4) = {"P8_0"}
<1>1. Widgets = 1 .. 4 /\ Len(WidgetConfig) = 4
  <2>1. Len(WidgetConfig) = 4
        BY DEF WidgetConfig
  <2>2. DOMAIN WidgetConfig = 1 .. 4
        BY DEF WidgetConfig
  <2>3. QED
        BY <2>1, <2>2 DEF Widgets
<1>2. /\ WidgetConfig[1].first = 0 /\ WidgetConfig[1].eltds = 1
      /\ WidgetConfig[2].first = 2 /\ WidgetConfig[2].eltds = 1
      /\ WidgetConfig[3].first = 4 /\ WidgetConfig[3].eltds = 5
      /\ WidgetConfig[4].first = 9 /\ WidgetConfig[4].eltds = 1
      BY DEF WidgetConfig
<1>3. /\ ElectrodePin[0] = "P8_1" /\ ElectrodePin[2] = "P8_2" /\ ElectrodePin[9] = "P8_0"
      /\ ElectrodePin[4] = "P8_3" /\ ElectrodePin[5] = "P8_4" /\ ElectrodePin[6] = "P8_5"
      /\ ElectrodePin[7] = "P8_6" /\ ElectrodePin[8] = "P8_7"
      BY DEF ElectrodePin
<1>4. /\ PinsOf(1) = {ElectrodePin[e] : e \in 0 .. 0} /\ PinsOf(2) = {ElectrodePin[e] : e \in 2 .. 2}
      /\ PinsOf(3) = {ElectrodePin[e] : e \in 4 .. 8} /\ PinsOf(4) = {ElectrodePin[e] : e \in 9 .. 9}
      BY <1>2 DEF PinsOf
<1>5. 0 .. 0 = {0} /\ 2 .. 2 = {2} /\ 4 .. 8 = {4, 5, 6, 7, 8} /\ 9 .. 9 = {9}
      OBVIOUS
<1>6. /\ PinsOf(1) = {"P8_1"} /\ PinsOf(2) = {"P8_2"} /\ PinsOf(4) = {"P8_0"}
      /\ PinsOf(3) = SliderPads
      BY <1>3, <1>4, <1>5 DEF SliderPads
<1>7. QED
      BY <1>1, <1>6

LEMMA TouchStarts == TouchStart => TouchInv
<1> SUFFICES ASSUME TouchStart PROVE TouchInv
    OBVIOUS
<1> USE WidgetPins DEF TouchStart
<1>0. finger = {} /\ scan = 0 /\ token = 0 /\ passes = 0 /\ active = {} /\ led = FALSE
      OBVIOUS
<1>1. (/\ finger \in Fingers /\ scan \in 0 .. 4 /\ token \in 0 .. 2 /\ passes \in 0 .. 5
       /\ touchAt = "off" /\ active \subseteq 1 .. 4 /\ led \in BOOLEAN)
  <2>1. finger \in Fingers
        BY <1>0, FingersAssumption
  <2>2. led \in BOOLEAN
        BY <1>0, Zenon
  <2>3. scan \in 0 .. 4 /\ token \in 0 .. 2 /\ passes \in 0 .. 5 /\ active \subseteq 1 .. 4
        BY <1>0
  <2>4. QED
        BY <2>1, <2>2, <2>3
<1>2. (left \in [1 .. 4 -> 0 .. 3])
      BY DEF OnDebounce
<1>3. (raw \in [1 .. 4 -> SUBSET (SliderPads \cup {"P8_0", "P8_1", "P8_2"})])
      OBVIOUS
<1>4. (prev \in [{1, 2} -> BOOLEAN])
      BY DEF Button0, Button1
<1>5. TouchType
      BY <1>1, <1>2, <1>3, <1>4 DEF TouchType
<1>6. Tokens /\ Debounced /\ Told
      BY DEF Tokens, Debounced, Told, Reported
<1>7. ~AnyStale
      BY DEF AnyStale, Stale, Under
<1>8. QED
      BY <1>5, <1>6, <1>7 DEF TouchInv

LEMMA TouchResets == TouchReset => TouchInv'
<1> SUFFICES ASSUME TouchReset PROVE TouchInv'
    OBVIOUS
<1> USE WidgetPins DEF TouchReset
<1>0. finger' = {} /\ scan' = 0 /\ token' = 0 /\ passes' = 0 /\ active' = {} /\ led' = FALSE
      OBVIOUS
<1>1. (/\ finger \in Fingers /\ scan \in 0 .. 4 /\ token \in 0 .. 2 /\ passes \in 0 .. 5
       /\ touchAt = "off" /\ active \subseteq 1 .. 4 /\ led \in BOOLEAN)'
  <2>1. finger' \in Fingers
        BY <1>0, FingersAssumption
  <2>2. led' \in BOOLEAN
        BY <1>0, Zenon
  <2>3. scan' \in 0 .. 4 /\ token' \in 0 .. 2 /\ passes' \in 0 .. 5 /\ active' \subseteq 1 .. 4
        BY <1>0
  <2>4. QED
        BY <2>1, <2>2, <2>3
<1>2. (left \in [1 .. 4 -> 0 .. 3])'
      BY DEF OnDebounce
<1>3. (raw \in [1 .. 4 -> SUBSET (SliderPads \cup {"P8_0", "P8_1", "P8_2"})])'
      OBVIOUS
<1>4. (prev \in [{1, 2} -> BOOLEAN])'
      BY DEF Button0, Button1
<1>5. TouchType'
      BY <1>1, <1>2, <1>3, <1>4 DEF TouchType
<1>6. (Tokens /\ Debounced /\ Told)'
      BY DEF Tokens, Debounced, Told, Reported
<1>7. (~AnyStale)'
      BY DEF AnyStale, Stale, Under
<1>8. QED
      BY <1>5, <1>6, <1>7 DEF TouchInv

LEMMA TouchRests == TouchInv /\ UNCHANGED touchVars => TouchInv'
BY DEF TouchInv, touchVars, TouchType, Tokens, AnyStale, Spoils, PassedStale, Stale, Under, Debounced,
       Told, Reported

LEMMA TouchSteps == TouchInv /\ TouchStep => TouchInv'
<1> SUFFICES ASSUME TouchInv, TouchStep PROVE TouchInv'
    OBVIOUS
<1>t. TouchType /\ Tokens /\ (AnyStale => passes + Spoils <= 2) /\ Debounced /\ Told
      BY DEF TouchInv
<1>w. Widgets = 1 .. 4 /\ Len(WidgetConfig) = 4
      BY WidgetPins
<1>1. CASE Moves
  <2>1. TouchType' /\ Tokens' /\ Debounced' /\ Told'
        BY <1>1, <1>t DEF Moves, TouchType, Tokens, Debounced, Told, Reported
  <2>2. (passes + Spoils <= 2)'
        BY <1>1, <1>t DEF Moves, TouchType, Tokens, Spoils, PassedStale
  <2>3. QED
        BY <2>1, <2>2 DEF TouchInv
<1>2. CASE Sample
  <2>0. scan \in 1 .. 4 /\ \A w \in 1 .. 4 : raw'[w] = IF w = scan THEN Under(w) ELSE raw[w]
    <3>1. scan \in 1 .. 4
          BY <1>2, <1>t DEF Sample, TouchType
    <3>2. raw' = [raw EXCEPT ![scan] = Under(scan)]
          BY <1>2 DEF Sample, Under
    <3>3. DOMAIN raw = 1 .. 4
          BY <1>t DEF TouchType
    <3>4. QED
          BY <3>1, <3>2, <3>3
  <2>1. TouchType'
    <3>1. Under(scan) \in SUBSET (SliderPads \cup {"P8_0", "P8_1", "P8_2"})
          BY <1>t, FingersAssumption DEF TouchType, Under
    <3>2. raw' \in [1 .. 4 -> SUBSET (SliderPads \cup {"P8_0", "P8_1", "P8_2"})]
          BY <1>2, <1>t, <3>1 DEF Sample, TouchType, Under
    <3>3. QED
          BY <1>2, <1>t, <1>w, <3>2 DEF Sample, TouchType, Tokens
  <2>2. Tokens'
        BY <1>2, <1>t, <1>w DEF Sample, TouchType, Tokens
  <2>3. \A w \in 1 .. 4 : Under(w)' = Under(w)
        BY <1>2 DEF Sample, Under
  <2>4. \A w \in 1 .. 4 : Stale(w)' => Stale(w) /\ w # scan
        BY <2>0, <2>3 DEF Stale
  <2>5. ASSUME scan < 4
        PROVE  (AnyStale => passes + Spoils <= 2)'
    <3>1. scan' = scan + 1 /\ token' = token /\ touchAt' = touchAt /\ passes' = passes
          BY <1>2, <1>w, <2>5 DEF Sample
    <3>2. PassedStale' => PassedStale
          BY <3>1, <2>0, <2>4 DEF PassedStale
    <3>3. AnyStale' => AnyStale
          BY <2>4 DEF AnyStale
    <3>4. QED
          BY <1>t, <3>1, <3>2, <3>3 DEF Spoils, TouchType
  <2>6. ASSUME scan = 4
        PROVE  (AnyStale => passes + Spoils <= 2)'
    <3>1. scan' = 0 /\ token' = token + 1 /\ touchAt' = touchAt /\ passes' = passes
          BY <1>2, <1>w, <2>6 DEF Sample
    <3>2. ~PassedStale'
          BY <3>1 DEF PassedStale
    <3>3. AnyStale' => AnyStale /\ PassedStale
          BY <2>0, <2>4, <2>6 DEF AnyStale, PassedStale
    <3>4. QED
          BY <1>t, <3>1, <3>2, <3>3 DEF Spoils, TouchType
  <2>7. Debounced' /\ Told'
        BY <1>2, <1>t, <2>3 DEF Sample, Debounced, Told, Reported
  <2>8. QED
        BY <2>0, <2>1, <2>2, <2>5, <2>6, <2>7 DEF TouchInv
<1>3. CASE CapsenseInit \/ ScanStarts
  <2>1. TouchType' /\ Tokens' /\ Debounced' /\ Told'
    <3>0. UNCHANGED <<finger, left, active, raw, prev, led, passes>>
          BY <1>3 DEF CapsenseInit, ScanStarts
    <3>1. TouchType'
      <4>1. scan' \in 0 .. 4 /\ token' \in 0 .. 2
            BY <1>3, <1>t DEF CapsenseInit, ScanStarts, TouchType, Tokens
      <4>2. touchAt' \in {"off", "loop", "acquire", "process", "status", "seen"}
            BY <1>3 DEF CapsenseInit, ScanStarts
      <4>3. QED
            BY <1>t, <3>0, <4>1, <4>2 DEF TouchType
    <3>2. Tokens'
          BY <1>3, <1>t DEF CapsenseInit, ScanStarts, TouchType, Tokens
    <3>3. /\ Reported' = Reported /\ passes' = passes
          /\ UNCHANGED <<finger, left, active, position, prev, prevSlider, led>>
          BY <1>3 DEF CapsenseInit, ScanStarts, Reported
    <3>4. Debounced' /\ Told'
          BY <1>t, <3>3 DEF Debounced, Told, Under
    <3>5. QED
          BY <3>1, <3>2, <3>4
  <2>2. AnyStale' => AnyStale
        BY <1>3 DEF CapsenseInit, ScanStarts, AnyStale, Stale, Under
  <2>3. PassedStale' => PassedStale
        BY <1>3 DEF CapsenseInit, ScanStarts, PassedStale, Stale, Under
  <2>4. (AnyStale => passes + Spoils <= 2)'
        BY <1>3, <1>t, <2>2, <2>3 DEF CapsenseInit, ScanStarts, Spoils, TouchType
  <2>5. QED
        BY <2>1, <2>4 DEF TouchInv
<1>4. CASE Acquires \/ LoopAgain
  <2>1. TouchType' /\ Tokens' /\ Debounced' /\ Told'
    <3>0. UNCHANGED <<finger, left, active, raw, prev, led, passes>>
          BY <1>4 DEF Acquires, LoopAgain
    <3>1. TouchType'
      <4>1. scan' \in 0 .. 4 /\ token' \in 0 .. 2
            BY <1>4, <1>t DEF Acquires, LoopAgain, TouchType, Tokens
      <4>2. touchAt' \in {"off", "loop", "acquire", "process", "status", "seen"}
            BY <1>4 DEF Acquires, LoopAgain
      <4>3. QED
            BY <1>t, <3>0, <4>1, <4>2 DEF TouchType
    <3>2. Tokens'
          BY <1>4, <1>t DEF Acquires, LoopAgain, TouchType, Tokens
    <3>3. /\ Reported' = Reported /\ passes' = passes
          /\ UNCHANGED <<finger, left, active, position, prev, prevSlider, led>>
          BY <1>4 DEF Acquires, LoopAgain, Reported
    <3>4. Debounced' /\ Told'
          BY <1>t, <3>3 DEF Debounced, Told, Under
    <3>5. QED
          BY <3>1, <3>2, <3>4
  <2>2. AnyStale' = AnyStale /\ PassedStale' = PassedStale
        BY <1>4 DEF Acquires, LoopAgain, AnyStale, PassedStale, Stale, Under
  <2>3. (AnyStale => passes + Spoils <= 2)'
        BY <1>4, <1>t, <2>2 DEF Acquires, LoopAgain, Spoils, TouchType
  <2>4. QED
        BY <2>1, <2>3 DEF TouchInv
<1>5. CASE ProcessAll
  <2>1. /\ touchAt = "process" /\ touchAt' = "status" /\ passes' = passes
        /\ UNCHANGED <<finger, scan, raw, token, prev, prevSlider, led>>
        /\ \A w \in 1 .. 4 : left'[w] = IF raw[w] = {} THEN 3
                                        ELSE IF left[w] > 0 THEN left[w] - 1 ELSE 0
        /\ active' = {w \in 1 .. 4 : raw[w] # {} /\ left'[w] = 0}
        /\ 3 \in active' => position' = Position(raw[3])
        BY <1>5, <1>w DEF ProcessAll, OnDebounce, LinearSlider0
  <2>2. left' \in [1 .. 4 -> 0 .. 3]
        BY <1>5, <1>w, <1>t DEF ProcessAll, OnDebounce, TouchType
  <2>3. TouchType' /\ Tokens'
        BY <1>t, <2>1, <2>2 DEF TouchType, Tokens
  <2>4. AnyStale' = AnyStale /\ PassedStale' = PassedStale
        BY <2>1 DEF AnyStale, PassedStale, Stale, Under
  <2>5. (AnyStale => passes + Spoils <= 2)'
        BY <1>t, <2>1, <2>4 DEF Spoils, TouchType
  <2>6. ASSUME passes >= 2
        PROVE  ~AnyStale
        BY <1>t, <2>1, <2>6 DEF Spoils, TouchType
  <2>7. ASSUME passes >= 2
        PROVE  \A w \in 1 .. 4 : raw[w] = Under(w) /\ Under(w)' = Under(w)
        BY <2>1, <2>6, <2>7 DEF AnyStale, Stale, Under
  <2>8. ASSUME passes >= 2
        PROVE  \A w \in 1 .. 4 : Under(w) # {} => left'[w] <= 5 - Reported'
        BY <1>t, <2>1, <2>7, <2>8 DEF TouchType, Debounced, Reported
  <2>9. Debounced'
        BY <1>t, <2>1, <2>7, <2>8 DEF TouchType, Debounced, Reported
  <2>10. ASSUME passes >= 5
         PROVE  active' = active /\ (3 \in active => position' = position)
    <3>1. \A w \in 1 .. 4 : Under(w) # {} => left[w] = 0 /\ left'[w] = 0
          BY <1>t, <2>1, <2>7, <2>10 DEF TouchType, Debounced, Reported
    <3>2. active' = active
          BY <1>t, <2>1, <2>7, <2>10, <3>1 DEF TouchType, Debounced, Reported
    <3>3. QED
          BY <1>t, <2>1, <2>7, <2>10, <3>2 DEF TouchType, Debounced, Reported
  <2>11. Told'
        BY <1>t, <2>1, <2>10 DEF Told
  <2>12. QED
        BY <2>3, <2>5, <2>9, <2>11 DEF TouchInv
<1>6. CASE ProcessTouchStatus
  <2>1. /\ touchAt = "status" /\ touchAt' = "seen"
        /\ passes' = IF passes < 5 THEN passes + 1 ELSE passes
        /\ UNCHANGED <<finger, scan, raw, token, left, active, position>>
        /\ prev' \in [{1, 2} -> BOOLEAN] /\ led' \in BOOLEAN
        /\ prev'[1] <=> 1 \in active
        /\ prev'[2] <=> 2 \in active
        /\ 3 \in active => prevSlider' = position
        /\ led' <=> (active \cap {1, 2, 3} # {})
    <3>1. prev' = [b \in {1, 2} |-> b \in active] /\ led' = (active \cap {1, 2, 3} # {})
          BY <1>6 DEF ProcessTouchStatus, Button0, Button1, LinearSlider0
    <3>2. prev' \in [{1, 2} -> BOOLEAN] /\ led' \in BOOLEAN
          BY <3>1
    <3>3. (prev'[1] <=> 1 \in active) /\ (prev'[2] <=> 2 \in active)
          BY <3>1
    <3>4. led' <=> (active \cap {1, 2, 3} # {})
          BY <3>1
    <3>5. QED
          BY <1>6, <3>2, <3>3, <3>4 DEF ProcessTouchStatus, LinearSlider0, Enough
  <2>2. TouchType' /\ Tokens' /\ Told'
        BY <1>t, <2>1 DEF TouchType, Tokens, Told
  <2>3. AnyStale' = AnyStale /\ PassedStale' = PassedStale
        BY <2>1 DEF AnyStale, PassedStale, Stale, Under
  <2>4. (AnyStale => passes + Spoils <= 2)'
        BY <1>t, <2>1, <2>3 DEF Spoils, TouchType
  <2>5. Reported' = Reported
        BY <1>t, <2>1 DEF Reported, TouchType
  <2>6. Debounced'
        BY <1>t, <2>1, <2>5 DEF Debounced, Under
  <2>7. QED
        BY <2>2, <2>4, <2>6 DEF TouchInv
<1>7. QED
      BY <1>1, <1>2, <1>3, <1>4, <1>5, <1>6 DEF TouchStep

LEMMA TouchInvImplies == TouchInv => TouchServed
<1> SUFFICES ASSUME TouchInv PROVE TouchServed
    OBVIOUS
<1>t. TouchType /\ Tokens /\ Debounced /\ Told
      BY DEF TouchInv
<1>1. ScanPending
      BY <1>t DEF ScanPending, Tokens, TouchType
<1>2. ASSUME passes = 5
      PROVE  /\ \A b \in {1, 2} : prev[b] <=> Pad[b] \in finger
             /\ finger \cap SliderPads # {} => prevSlider = Position(finger \cap SliderPads)
             /\ led <=> (finger \ {"P8_0"} # {})
  <2>1. active = {w \in 1 .. 4 : Under(w) # {}}
        BY <1>2, <1>t DEF Debounced, Reported, TouchType
  <2>2. Pad[1] = "P8_1" /\ Pad[2] = "P8_2"
        BY DEF Pad, Button0, Button1
  <2>3. /\ 1 \in active <=> "P8_1" \in finger
        /\ 2 \in active <=> "P8_2" \in finger
        /\ 3 \in active <=> finger \cap SliderPads # {}
        BY <2>1, WidgetPins DEF Under
  <2>4. Under(3) = finger \cap SliderPads
        BY WidgetPins DEF Under
  <2>5. finger \cap SliderPads # {} => prevSlider = Position(finger \cap SliderPads)
        BY <1>2, <1>t, <2>3, <2>4 DEF Told, Debounced, Reported
  <2>6. \A b \in {1, 2} : prev[b] <=> Pad[b] \in finger
        BY <1>2, <1>t, <2>2, <2>3 DEF Told
  <2>7. finger \subseteq SliderPads \cup {"P8_0", "P8_1", "P8_2"} /\ "P8_0" \notin SliderPads
        BY <1>t, FingersAssumption DEF TouchType, SliderPads
  <2>8. led <=> (finger \ {"P8_0"} # {})
    <3>1. led <=> (1 \in active \/ 2 \in active \/ 3 \in active)
          BY <1>2, <1>t DEF Told
    <3>2. finger \ {"P8_0"} # {} <=>
             "P8_1" \in finger \/ "P8_2" \in finger \/ finger \cap SliderPads # {}
          BY <2>7
    <3>3. QED
          BY <2>3, <3>1, <3>2
  <2>9. QED
        BY <2>5, <2>6, <2>8
<1>3. QED
      BY <1>1, <1>2 DEF TouchServed, SeenInTime, Button0, Button1, Enough

(* For any fingers on the board: main never waits for a scan that nobody   *)
(* has started, and shows what a finger does once it has kept still for    *)
(* five passes, in the program with its resets (capsense.cpp).             *)
THEOREM TouchAnswered == Spec => []TouchServed
<1>1. Init => TouchInv
      BY TouchStarts DEF Init
<1>2. TouchInv /\ [Next]_vars => TouchInv'
      BY NextForParts, TouchSteps, TouchRests, TouchResets
<1>3. QED
      BY <1>1, <1>2, TouchInvImplies, PTL DEF Spec
-----------------------------------------------------------------------------
(* The codec.  What holds while no function of its driver runs, and, while *)
(* one does, where main is then and what its writes have settled so far.   *)
Even == "R" \notin dirty => regs.L = regs.R

PowerOff ==
    /\ "PM1" \notin dirty => regs.PM1 = VCM
    /\ "PM2" \notin dirty => regs.PM2 = 0
PowerOn == dirty \cap {"PM1", "PM2"} = {} => regs.PM1 = VCM + DAC /\ regs.PM2 = HEADPHONES
Powered == IF playing THEN PowerOn ELSE PowerOff

WritesNone == writes = <<>> /\ Even /\ (at \in Looping \cup {"record"} => Powered)

WritesInit ==
    /\ at = "codec" /\ Even
    /\ writes \in Seq([reg : {"PM1"} \cup OtherRegs, val : Int, must : BOOLEAN])

WritesVolume ==
    /\ at \in {"volume", "play"} /\ (at = "play" => Powered)
    /\ \E v \in Volumes :
          \/ writes = <<Must("L", v), May("R", v)>> /\ Even
          \/ writes = <<May("R", v)>> /\ regs.L = v

WritesOff ==
    /\ at \in {"record", "free"} /\ ~playing /\ Even
    /\ \/ writes = <<May("PM2", 0), May("PM1", VCM)>>
       \/ writes = <<May("PM1", VCM)>> /\ ("PM2" \notin dirty => regs.PM2 = 0)

WritesOn ==
    /\ at = "started" /\ playing /\ Even
    /\ \/ writes = <<Must("PM1", VCM + DAC), May("PM2", HEADPHONES)>>
       \/ writes = <<May("PM2", HEADPHONES)>> /\ regs.PM1 = VCM + DAC

CodecInv ==
    /\ regs \in [RegNames -> Int] /\ dirty \subseteq RegNames /\ playing \in BOOLEAN
    /\ at \notin Looping \/ at = "sck" => ~playing
    /\ WritesNone \/ WritesInit \/ WritesVolume \/ WritesOff \/ WritesOn

LEMMA CodecQuiet ==
  ASSUME CodecInv, writes = <<>>
  PROVE  WritesNone
BY DEF CodecInv, WritesNone, WritesInit, WritesVolume, WritesOff, WritesOn, Looping

LEMMA CodecStarts == Init => CodecInv
<1> SUFFICES ASSUME Init PROVE CodecInv
    OBVIOUS
<1>1. regs = [PM1 |-> 0, PM2 |-> 0, L |-> 24, R |-> 24] /\ writes = <<>> /\ dirty = RegNames
      /\ at = "clocks"
      BY DEF Init, CodecStart
<1>2. playing \in BOOLEAN /\ ~playing
      BY DEF Init, CodecStart
<1>3. regs \in [RegNames -> Int]
      BY <1>1 DEF RegNames
<1>4. WritesNone
      BY <1>1 DEF WritesNone, Even, RegNames, Looping
<1>5. QED
      BY <1>1, <1>2, <1>3, <1>4 DEF CodecInv

LEMMA CodecResets == ResetHost /\ CodecInv => CodecInv'
BY DEF ResetHost, CodecInv, WritesNone, Even, RegNames, Looping

LEMMA CodecStays == ASSUME CodecInv, UNCHANGED <<at, codecVars>> PROVE CodecInv'
BY DEF codecVars, CodecInv, WritesNone, WritesInit, WritesVolume, WritesOff, WritesOn, Even, Powered,
       PowerOn, PowerOff

(* Main goes on without the codec.                                         *)
LEMMA CodecPasses ==
  ASSUME CodecInv, UNCHANGED codecVars, writes = <<>>,
         at \in Looping \cup {"record"} \/ at' \notin Looping \cup {"record"},
         at' \notin Looping \/ at' = "sck" => ~playing
  PROVE  CodecInv'
<1>1. WritesNone
      BY CodecQuiet
<1>2. WritesNone'
      BY <1>1 DEF WritesNone, codecVars, Even, Powered, PowerOn, PowerOff
<1>3. QED
      BY <1>2 DEF CodecInv, codecVars

LEMMA CodecIdles ==
  ASSUME CodecInv, Configures \/ Constructors \/ Console \/ FramQspi \/ FramCommands \/ LcdStartUp
                   \/ LcdThread \/ ImuInit \/ CapsenseUp \/ Connects \/ SoundRecords \/ ScanRuns
                   \/ RunCapSenseScan \/ SameVolume \/ NoButton \/ ConsoleOff \/ PlaybackOn
                   \/ FreePins \/ ConsoleBack \/ UNCHANGED vars
  PROVE  CodecInv'
<1>1. UNCHANGED codecVars
      BY DEF Configures, Constructors, Console, FramQspi, FramCommands, LcdStartUp, LcdThread, ImuInit,
             CapsenseUp, Connects, SoundRecords, ScanRuns, RunCapSenseScan, SameVolume, NoButton,
             ConsoleOff, PlaybackOn, FreePins, ConsoleBack, Again, Idle, vars
<1>2. at' = at \/ writes = <<>>
  <2>1. at \in {"clocks", "console", "fram", "commands", "lcd", "imu", "capsense", "connect", "loop",
                "update"} => writes = <<>>
        BY DEF CodecInv, WritesNone, WritesInit, WritesVolume, WritesOff, WritesOn
  <2>2. QED
        BY <2>1 DEF Configures, Constructors, Console, FramQspi, FramCommands, LcdStartUp, LcdThread,
                    ImuInit, CapsenseUp, Connects, SoundRecords, ScanRuns, RunCapSenseScan, SameVolume,
                    NoButton, ConsoleOff, PlaybackOn, FreePins, ConsoleBack, Again, Goes, vars
<1>3. /\ at' = at \/ at \in Looping \cup {"record"} \/ at' \notin Looping \cup {"record"}
      /\ at' = at \/ (at' \notin Looping \/ at' = "sck" => ~playing)
      BY DEF CodecInv, Configures, Constructors, Console, FramQspi, FramCommands, LcdStartUp, LcdThread,
             ImuInit, CapsenseUp, Connects, SoundRecords, ScanRuns, RunCapSenseScan, SameVolume, NoButton,
             ConsoleOff, PlaybackOn, FreePins, ConsoleBack, Again, Goes, Looping, vars
<1>4. QED
      BY <1>1, <1>2, <1>3, CodecPasses, CodecStays

LEMMA CodecCalls ==
  ASSUME CodecInv, SoundPins \/ SoundVolume \/ SoundOff \/ NewVolume \/ PlayPin \/ PlaybackOff
  PROVE  CodecInv'
<1>1. WritesNone /\ regs' = regs /\ dirty' = dirty
      BY CodecQuiet DEF SoundPins, SoundVolume, SoundOff, NewVolume, PlayPin, PlaybackOff, Then, Runs
<1>2. CASE SoundPins
  <2>1. writes' \in Seq([reg : {"PM1"} \cup OtherRegs, val : Int, must : BOOLEAN])
    <3>1. \A v \in Int, r \in {"PM1"} \cup OtherRegs :
             /\ Must(r, v) \in [reg : {"PM1"} \cup OtherRegs, val : Int, must : BOOLEAN]
             /\ May(r, v) \in [reg : {"PM1"} \cup OtherRegs, val : Int, must : BOOLEAN]
          BY DEF Must, May
    <3>2. writes' = << Must("PM1", 0), Must("PM1", 0), Must("MODE1", 3), Must("MODE2", 0),
                       Must("PM1", VCM), May("FILT", 0) >>
          BY <1>2 DEF SoundPins, Runs, ak4954a_init
    <3>3. VCM \in Int /\ {"MODE1", "MODE2", "FILT"} \subseteq OtherRegs
          BY DEF VCM, OtherRegs
    <3> DEFINE S == [reg : {"PM1"} \cup OtherRegs, val : Int, must : BOOLEAN]
    <3>4. /\ Must("PM1", 0) \in S /\ Must("MODE1", 3) \in S /\ Must("MODE2", 0) \in S
          /\ Must("PM1", VCM) \in S /\ May("FILT", 0) \in S
      <4>1. {0, 3} \subseteq Int /\ {"PM1", "MODE1", "MODE2", "FILT"} \subseteq {"PM1"} \cup OtherRegs
            BY DEF OtherRegs
      <4>2. QED
            BY <4>1, <3>1, <3>3
    <3> HIDE DEF S
    <3>5. writes' \in Seq(S)
          BY <3>2, <3>4
    <3>6. QED
          BY <3>5 DEF S
  <2>2. QED
        BY <1>1, <1>2, <2>1 DEF SoundPins, Goes, CodecInv, WritesNone, WritesInit, Even, Looping
<1>3. CASE SoundVolume \/ NewVolume
  <2>1. PICK v \in Volumes : writes' = <<Must("L", v), May("R", v)>>
        BY <1>3 DEF SoundVolume, NewVolume, Then, Runs, ak4954a_adjust_volume
  <2>2. WritesVolume'
        BY <1>1, <1>3, <2>1 DEF SoundVolume, NewVolume, Then, Goes, WritesNone, WritesVolume, Even,
                                Powered, PowerOn, PowerOff, Looping
  <2>3. QED
        BY <1>1, <1>3, <2>2 DEF SoundVolume, NewVolume, Then, Goes, CodecInv, Looping
<1>4. CASE SoundOff
      BY <1>1, <1>4 DEF SoundOff, Then, Goes, Runs, ak4954a_deactivate, CodecInv, WritesNone, WritesOff,
                        Even, Looping
<1>5. CASE PlayPin
      BY <1>1, <1>5 DEF PlayPin, Goes, Runs, ak4954a_activate, CodecInv, WritesNone, WritesOn, Even,
                        Looping
<1>6. CASE PlaybackOff
      BY <1>1, <1>6 DEF PlaybackOff, Goes, Runs, ak4954a_deactivate, CodecInv, WritesNone, WritesOff,
                        Even, Looping
<1>7. QED
      BY <1>2, <1>3, <1>4, <1>5, <1>6

LEMMA HeadsTails ==
  /\ \A a, b : Head(<<a, b>>) = a /\ Tail(<<a, b>>) = <<b>>
  /\ \A a : Head(<<a>>) = a /\ Tail(<<a>>) = <<>>
OBVIOUS

LEMMA HeadsOfSeq ==
  ASSUME NEW S, NEW s \in Seq(S), s # <<>>
  PROVE  Head(s) \in S /\ Tail(s) \in Seq(S)
OBVIOUS

LEMMA WriteFields ==
  \A reg, val :
     /\ Must(reg, val).reg = reg /\ Must(reg, val).val = val /\ Must(reg, val).must = TRUE
     /\ May(reg, val).reg = reg /\ May(reg, val).val = val /\ May(reg, val).must = FALSE
BY DEF Must, May

LEMMA CodecWrites == ASSUME CodecInv, CodecWrite PROVE CodecInv'
<1> DEFINE w == Head(writes)
           Written == /\ regs' = [r \in RegNames |-> IF r = w.reg THEN w.val ELSE regs[r]]
                      /\ dirty' = dirty \ {w.reg} /\ writes' = Tail(writes)
           Failed  == /\ regs' = regs /\ dirty' = dirty \cup ({w.reg} \cap RegNames)
                      /\ writes' = IF w.must THEN <<>> ELSE Tail(writes)
<1>1. at' = at /\ playing' = playing /\ writes # <<>> /\ (Written \/ Failed)
      BY DEF CodecWrite, Transmit
<1>h. w = Head(writes)
      OBVIOUS
<1> HIDE DEF w
<1>2. WritesInit \/ WritesVolume \/ WritesOff \/ WritesOn
      BY <1>1 DEF CodecInv, WritesNone
<1>3. w.val \in Int => regs' \in [RegNames -> Int]
      BY <1>1 DEF CodecInv
<1>4. dirty' \subseteq RegNames
      BY <1>1 DEF CodecInv
<1>5. SUFFICES w.val \in Int /\ (WritesNone \/ WritesInit \/ WritesVolume \/ WritesOff \/ WritesOn)'
      BY <1>1, <1>3, <1>4 DEF CodecInv
<1> USE WriteFields DEF RegNames
<1>6. CASE WritesInit
  <2>1. w \in [reg : {"PM1"} \cup OtherRegs, val : Int, must : BOOLEAN]
    <3> DEFINE S == [reg : {"PM1"} \cup OtherRegs, val : Int, must : BOOLEAN]
    <3>1. writes \in Seq(S)
          BY <1>6 DEF WritesInit
    <3> HIDE DEF S
    <3>2. w \in S
          BY <1>1, <1>h, <3>1, HeadsOfSeq
    <3>3. QED
          BY <3>2 DEF S
  <2>2. writes' \in Seq([reg : {"PM1"} \cup OtherRegs, val : Int, must : BOOLEAN])
    <3> DEFINE S == [reg : {"PM1"} \cup OtherRegs, val : Int, must : BOOLEAN]
    <3>1. writes \in Seq(S)
          BY <1>6 DEF WritesInit
    <3> HIDE DEF S
    <3>2. Tail(writes) \in Seq(S) /\ <<>> \in Seq(S)
          BY <1>1, <3>1, HeadsOfSeq
    <3>3. writes' \in Seq(S)
          BY <1>1, <3>2
    <3>4. QED
          BY <3>3 DEF S
  <2>3. w.reg \notin {"L", "R"}
        BY <2>1 DEF OtherRegs
  <2>4. Even'
        BY <1>1, <1>6, <2>3 DEF WritesInit, Even, CodecInv
  <2>5. QED
        BY <1>1, <1>6, <2>1, <2>2, <2>4 DEF WritesInit
<1>7. CASE WritesVolume
  <2>0. PICK v \in Volumes :
           \/ writes = <<Must("L", v), May("R", v)>> /\ Even
           \/ writes = <<May("R", v)>> /\ regs.L = v
        BY <1>7 DEF WritesVolume
  <2>v. v \in Int
        BY VolumesAssumption
  <2>1. (at = "play" => Powered)' /\ at' \in {"volume", "play"}
    <3>1. w.reg \in {"L", "R"}
          BY <2>0, <1>h, HeadsTails
    <3>2. regs'.PM1 = regs.PM1 /\ regs'.PM2 = regs.PM2 /\ ("PM1" \in dirty' <=> "PM1" \in dirty)
          /\ ("PM2" \in dirty' <=> "PM2" \in dirty)
          BY <1>1, <3>1 DEF CodecInv
    <3>3. QED
          BY <1>1, <1>7, <3>2 DEF WritesVolume, Powered, PowerOn, PowerOff
  <2>2. CASE writes = <<Must("L", v), May("R", v)>> /\ Even
    <3>1. w = Must("L", v) /\ Tail(writes) = <<May("R", v)>>
          BY <2>2, <1>h, HeadsTails
    <3>2. CASE Written
          BY <1>1, <2>1, <2>v, <3>1, <3>2 DEF WritesVolume
    <3>3. CASE Failed
          BY <1>1, <2>1, <2>2, <2>v, <3>1, <3>3 DEF WritesNone, Even, Looping
    <3>4. QED
          BY <1>1, <3>2, <3>3
  <2>3. CASE writes = <<May("R", v)>> /\ regs.L = v
    <3>1. w = May("R", v) /\ Tail(writes) = <<>>
          BY <2>3, <1>h, HeadsTails
    <3>2. writes' = <<>> /\ Even'
      <4>1. CASE Written
            BY <4>1, <2>3, <3>1 DEF Even, CodecInv
      <4>2. CASE Failed
            BY <4>2, <2>3, <3>1 DEF Even, CodecInv
      <4>3. QED
            BY <1>1, <4>1, <4>2
    <3>3. QED
          BY <1>1, <2>1, <2>v, <3>1, <3>2 DEF WritesNone, Looping
  <2>4. QED
        BY <2>0, <2>2, <2>3
<1>8. CASE WritesOff
  <2>1. w.reg \in {"PM1", "PM2"} /\ w.val \in Int
        BY <1>8, <1>h, HeadsTails DEF WritesOff, VCM
  <2>2. Even'
        BY <1>1, <1>8, <2>1 DEF WritesOff, Even, CodecInv
  <2>3. CASE writes = <<May("PM2", 0), May("PM1", VCM)>>
    <3>1. w = May("PM2", 0) /\ Tail(writes) = <<May("PM1", VCM)>>
          BY <2>3, <1>h, HeadsTails
    <3>2. writes' = <<May("PM1", VCM)>> /\ ("PM2" \notin dirty' => regs'.PM2 = 0)
      <4>1. CASE Written
            BY <4>1, <3>1 DEF CodecInv
      <4>2. CASE Failed
            BY <4>2, <3>1 DEF CodecInv
      <4>3. QED
            BY <1>1, <4>1, <4>2
    <3>3. WritesOff'
          BY <1>1, <1>8, <2>2, <3>2 DEF WritesOff
    <3>4. QED
          BY <2>1, <3>3
  <2>4. CASE writes = <<May("PM1", VCM)>> /\ ("PM2" \notin dirty => regs.PM2 = 0)
    <3>1. w = May("PM1", VCM) /\ Tail(writes) = <<>>
          BY <2>4, <1>h, HeadsTails
    <3>2. writes' = <<>> /\ PowerOff'
      <4>1. CASE Written
            BY <4>1, <2>4, <3>1 DEF CodecInv, PowerOff
      <4>2. CASE Failed
            BY <4>2, <2>4, <3>1 DEF CodecInv, PowerOff
      <4>3. QED
            BY <1>1, <4>1, <4>2
    <3>3. WritesNone'
          BY <1>1, <1>8, <2>2, <3>2 DEF WritesOff, WritesNone, Powered
    <3>4. QED
          BY <2>1, <3>3
  <2>5. QED
        BY <1>8, <2>3, <2>4 DEF WritesOff
<1>9. CASE WritesOn
  <2>1. w.reg \in {"PM1", "PM2"} /\ w.val \in Int
        BY <1>9, <1>h, HeadsTails DEF WritesOn, VCM, DAC, HEADPHONES
  <2>2. Even'
        BY <1>1, <1>9, <2>1 DEF WritesOn, Even, CodecInv
  <2>3. CASE writes = <<Must("PM1", VCM + DAC), May("PM2", HEADPHONES)>>
    <3>1. w = Must("PM1", VCM + DAC) /\ Tail(writes) = <<May("PM2", HEADPHONES)>>
          BY <2>3, <1>h, HeadsTails
    <3>2. CASE Written
      <4>1. WritesOn'
            BY <1>1, <1>9, <2>2, <3>1, <3>2 DEF WritesOn
      <4>2. QED
            BY <2>1, <4>1
    <3>3. CASE Failed
      <4>1. w.must = TRUE /\ w.reg = "PM1"
            BY <3>1
      <4>2. writes' = <<>> /\ "PM1" \in dirty'
            BY <3>3, <4>1
      <4>3. PowerOn'
            BY <4>2 DEF PowerOn
      <4>4. WritesNone'
            BY <1>1, <1>9, <2>2, <4>2, <4>3 DEF WritesOn, WritesNone, Powered
      <4>5. QED
            BY <2>1, <4>4
    <3>4. QED
          BY <1>1, <3>2, <3>3
  <2>4. CASE writes = <<May("PM2", HEADPHONES)>> /\ regs.PM1 = VCM + DAC
    <3>1. w = May("PM2", HEADPHONES) /\ Tail(writes) = <<>>
          BY <2>4, <1>h, HeadsTails
    <3>2. writes' = <<>> /\ PowerOn'
      <4>1. CASE Written
            BY <4>1, <2>4, <3>1 DEF CodecInv, PowerOn
      <4>2. CASE Failed
        <5>1. w.must = FALSE /\ w.reg = "PM2"
              BY <3>1
        <5>2. writes' = <<>> /\ "PM2" \in dirty'
              BY <3>1, <4>2, <5>1
        <5>3. QED
              BY <5>2 DEF PowerOn
      <4>3. QED
            BY <1>1, <4>1, <4>2
    <3>3. WritesNone'
          BY <1>1, <1>9, <2>2, <3>2 DEF WritesOn, WritesNone, Powered
    <3>4. QED
          BY <2>1, <3>3
  <2>5. QED
        BY <1>9, <2>3, <2>4 DEF WritesOn
<1>10. QED
      BY <1>2, <1>6, <1>7, <1>8, <1>9

LEMMA CodecNext ==
  ASSUME CodecInv, [Next]_vars PROVE CodecInv'
BY CodecIdles, CodecCalls, CodecWrites, CodecResets DEF Next

LEMMA CodecInvImplies == CodecInv => CodecFollows
<1> SUFFICES ASSUME CodecInv PROVE CodecFollows
    OBVIOUS
<1>1. CASE writes = <<>>
  <2>1. WritesNone
        BY <1>1, CodecQuiet
  <2>2. QED
        BY <2>1 DEF CodecFollows, VolumeBoth, PowerFollows, WritesNone, Even, Powered, PowerOn, PowerOff
<1>2. CASE writes # <<>>
      BY <1>2 DEF CodecFollows, VolumeBoth, PowerFollows
<1>3. QED
      BY <1>1, <1>2

(* For any volumes and any number of failing writes: the two channels stay *)
(* equally loud and the outputs are on while something is played and off   *)
(* while nothing is, as far as the last write of each register went well   *)
(* (ak4954a.c, sound.cpp).                                                 *)
THEOREM CodecObeys == Spec => []CodecFollows
<1>1. CodecInv /\ [Next]_vars => CodecInv'
      BY CodecNext
<1>2. QED
      BY <1>1, CodecStarts, CodecInvImplies, PTL DEF Spec
-----------------------------------------------------------------------------
(* The pins: who has them at each place of main.                           *)
Late == {"codec", "volume", "record"} \cup Looping

PinPlaces ==
    /\ at = "clocks" => on = {}
    /\ at # "clocks" => ckPc = "done"
    /\ at \in Early => busAt = "off"
    /\ at \in Early \cup {"imu", "capsense"} => touchAt = "off"
    /\ at \in {"sck", "free", "recover"} => ~playing
    /\ at = "started" => playing
    /\ "PDM" \in on => at \in Looping
    /\ "I2S" \in on => playing /\ at \in {"loop", "update", "play"}
    /\ playing \/ at \in {"sck", "free", "recover"} => "UART" \notin on

PinOwners ==
    /\ at # "clocks" => Serve("I2C", I2cPins)
    /\ ckPc = "done" => Serve("SWJ", DebugPins)
    /\ "UART" \in on => Serve("UART", UartPins)
    /\ "QSPI" \in on => Serve("QSPI", FramPins)
    /\ busAt # "off" => Serve("PANEL", PanelPins)
    /\ touchAt # "off" => Serve("CSD", CsdPins)
    /\ at \in Late => Serve("PDM", PdmPins) /\ Serve("I2S", I2sOwn)
    /\ playing => Serve("I2S", SckPin)

PinInv == CodecInv /\ PinPlaces /\ PinOwners

LEMMA PinsApart ==
  /\ I2cPins \cap (UartPins \cup FramPins \cup PanelPins \cup CsdPins \cup PdmPins \cup I2sOwn) = {}
  /\ DebugPins \cap (UartPins \cup FramPins \cup PanelPins \cup CsdPins \cup PdmPins \cup I2sOwn) = {}
  /\ DebugPins \cap (I2cPins \cup BoardPins) = {}
  /\ UartPins \cap (FramPins \cup PanelPins \cup CsdPins \cup PdmPins \cup I2sOwn) = {}
  /\ FramPins \cap (PanelPins \cup CsdPins \cup PdmPins \cup I2sOwn) = {}
  /\ PanelPins \cap (CsdPins \cup PdmPins \cup I2sOwn) = {}
  /\ CsdPins \cap (PdmPins \cup I2sOwn) = {}
  /\ PdmPins \cap I2sOwn = {} /\ SckPin \subseteq UartPins
<1> USE DEF I2cPins, DebugPins, UartPins, FramPins, QspiPins, PanelPins, CsdPins, TxPin,
            CapacitorPins, ButtonPins, SliderPins, PdmPins, I2sOwn, SckPin, BoardPins
<1>1. I2cPins \cap (UartPins \cup FramPins \cup PanelPins \cup CsdPins \cup PdmPins \cup I2sOwn) = {}
      OBVIOUS
<1>2. DebugPins \cap (UartPins \cup FramPins \cup PanelPins \cup CsdPins \cup PdmPins \cup I2sOwn) = {}
      OBVIOUS
<1>3. DebugPins \cap (I2cPins \cup BoardPins) = {}
      OBVIOUS
<1>4. UartPins \cap (FramPins \cup PanelPins \cup CsdPins \cup PdmPins \cup I2sOwn) = {}
      OBVIOUS
<1>5. FramPins \cap (PanelPins \cup CsdPins \cup PdmPins \cup I2sOwn) = {}
      OBVIOUS
<1>6. PanelPins \cap (CsdPins \cup PdmPins \cup I2sOwn) = {}
      OBVIOUS
<1>7. CsdPins \cap (PdmPins \cup I2sOwn) = {} /\ PdmPins \cap I2sOwn = {} /\ SckPin \subseteq UartPins
      OBVIOUS
<1>8. QED
      BY <1>1, <1>2, <1>3, <1>4, <1>5, <1>6, <1>7

LEMMA PinsThere ==
  /\ I2cPins \subseteq AllPins /\ DebugPins \subseteq AllPins /\ UartPins \subseteq AllPins
  /\ FramPins \subseteq AllPins /\ PanelPins \subseteq AllPins /\ CsdPins \subseteq AllPins
  /\ PdmPins \subseteq AllPins /\ I2sOwn \subseteq AllPins /\ SckPin \subseteq AllPins
BY DEF AllPins, FramPins, I2sPins

(* Pins that others are switched to stay; those that are switched serve.   *)
LEMMA ServeStays ==
  ASSUME NEW user, NEW ps \in SUBSET AllPins, NEW changed, ps \cap changed = {},
         \A p \in AllPins \ changed : pins'[p] = pins[p],
         Serve(user, ps)
  PROVE  Serve(user, ps)'
BY DEF Serve

LEMMA SwitchedServe ==
  ASSUME NEW ps \in SUBSET AllPins, NEW user, NEW drive, pins' = Switched(ps, To(user, drive))
  PROVE  /\ Serve(user, ps)'
         /\ \A p \in AllPins \ ps : pins'[p] = pins[p]
BY DEF Serve, Switched, To

LEMMA PinStarts == Init => PinInv
BY CodecStarts DEF Init, ClockStart, PanelStart, TouchStart, CodecStart, PinInv, PinPlaces, PinOwners,
                   Early, Looping, Late

LEMMA PinResets == PinInv /\ ResetHost => PinInv'
BY CodecResets DEF ResetHost, ClockReset, PanelReset, TouchReset, PinInv, PinPlaces, PinOwners, Early,
                   Looping, Late

LEMMA ClockPlaces == (ClockStep => ckPc # "done" /\ ckPc' # "done") /\ (Elsewhere => ckPc # "done")
BY DEF ClockStep, Elsewhere, Sets, WaitsWorst, Power, ResetDividers, PllsOff, Path1Default, Aside, FllOff,
       Path0Default, CoreDefault, WcoInit, LfInit, CpuInit, PathsInit, FllInit, Hf0Init, Pll0Init,
       HfInit, MiscInit, Waits, PeriphDividers, CsdClock, Hangs

(* Steps that switch no pin.                                               *)
LEMMA PinsUnswitched ==
  ASSUME PinInv, CodecInv', pins' = pins,
         FramCommands \/ LcdStartUp \/ ImuInit \/ Connects \/ SoundVolume \/ SoundOff \/ SoundRecords
         \/ CodecWrite \/ ScanRuns \/ RunCapSenseScan \/ NewVolume \/ SameVolume \/ NoButton
         \/ PlaybackOn \/ PlaybackOff \/ UNCHANGED vars
  PROVE  PinInv'
<1> USE DEF PinInv, PinPlaces, Goes, Early, Looping, Late, ckVars, panelVars, touchVars, codecVars, Serve
<1>1. CASE FramCommands \/ LcdStartUp \/ ImuInit \/ Connects
      BY <1>1 DEF FramCommands, LcdStartUp, ImuInit, Connects, Idle, PinOwners, CodecInv
<1>2. CASE SoundVolume \/ SoundOff \/ SoundRecords \/ CodecWrite
      BY <1>2 DEF SoundVolume, SoundOff, SoundRecords, CodecWrite, Transmit, Then, CodecOnly, Idle,
                  PinOwners, CodecInv
<1>3. CASE ScanRuns \/ RunCapSenseScan
      BY <1>3 DEF ScanRuns, RunCapSenseScan, Sample, Moves, ScanStarts, Acquires, ProcessAll,
                  ProcessTouchStatus, PinOwners
<1>4. CASE NewVolume \/ SameVolume \/ NoButton
      BY <1>4 DEF NewVolume, SameVolume, NoButton, Again, LoopAgain, Then, CodecOnly, Idle, PinOwners
<1>5. CASE PlaybackOn \/ PlaybackOff
      BY <1>5 DEF PlaybackOn, PlaybackOff, Again, LoopAgain, CodecOnly, PinOwners
<1>6. CASE UNCHANGED vars
      BY <1>6 DEF vars, PinOwners
<1>7. QED
      BY <1>1, <1>2, <1>3, <1>4, <1>5, <1>6

(* init_cycfg_all and the constructors, before anything is in use.         *)
LEMMA PinsConfigured ==
  ASSUME PinInv, CodecInv', Configures \/ Constructors
  PROVE  PinInv'
<1>0. at = "clocks" /\ on = {} /\ on' = {} /\ busAt = "off" /\ touchAt = "off" /\ ~playing
      BY DEF Configures, Constructors, Goes, PinInv, PinPlaces, CodecInv, Early, Looping
<1>1. UNCHANGED <<framVars, panelVars, touchVars, codecVars>>
      BY DEF Configures, Constructors, Idle
<1>2. CASE Configures
  <2>1. at' = "clocks"
        BY <1>0, <1>2 DEF Configures
  <2>2. ckPc' = "done" => Serve("SWJ", DebugPins)'
    <3>1. ASSUME CfgPins PROVE Serve("SWJ", DebugPins)'
      <4>1. \A p \in DebugPins : p \in AllPins /\ CfgPinOf(p) = DebugConfig[p]
            BY PinsThere DEF CfgPinOf, DebugPins, WcoPins, Port0Pins, ImuPins, QspiPins, HostWakePin,
                             I2cPins
      <4>2. \A p \in DebugPins : DebugConfig[p].to = "SWJ"
            BY DEF DebugConfig, To
      <4>3. QED
            BY <3>1, <4>1, <4>2 DEF CfgPins, Serve
    <3>2. QED
          BY <1>2, <3>1, ClockPlaces DEF Configures, Sets
  <2>3. QED
        BY <1>0, <1>1, <2>1, <2>2 DEF PinInv, PinPlaces, PinOwners, Early, Looping, Late, panelVars,
                                      touchVars, codecVars
<1>3. CASE Constructors
  <2>1. at' = "console" /\ ckPc = "done" /\ ckPc' = ckPc
        BY <1>3 DEF Constructors, Goes, Idle, ckVars
  <2>2. \A p \in I2cPins : pins'[p] = To("I2C", "OD_DRIVESLOW")
    <3>1. \A p \in I2cPins : p \in AllPins /\ p \notin BoardPins /\ p # "P10_0"
          BY PinsThere DEF I2cPins, BoardPins
    <3>2. QED
          BY <1>3, <3>1 DEF Constructors
  <2>3. \A p \in DebugPins : pins'[p] = pins[p]
    <3>1. \A p \in DebugPins : p \in AllPins /\ p \notin I2cPins /\ p \notin BoardPins
          BY PinsThere, PinsApart
    <3>2. "P10_0" \in BoardPins
          BY DEF BoardPins
    <3>3. QED
          BY <1>3, <3>1, <3>2 DEF Constructors
  <2>4. Serve("I2C", I2cPins)' /\ Serve("SWJ", DebugPins)'
        BY <2>1, <2>2, <2>3 DEF PinInv, PinOwners, Serve, To
  <2>5. QED
        BY <1>0, <1>1, <2>1, <2>4 DEF PinInv, PinPlaces, PinOwners, Early, Looping, Late, panelVars,
                                      touchVars, codecVars
<1>4. QED
      BY <1>2, <1>3

(* A peripheral that is brought up takes its own pins from nobody.         *)
LEMMA PinsTaken ==
  ASSUME PinInv, CodecInv', Console \/ FramQspi \/ CapsenseUp \/ LcdThread \/ SoundPins
  PROVE  PinInv'
<1> USE PinsThere DEF PinInv, PinPlaces, Goes, Early, Looping, Late, ckVars, panelVars, touchVars, codecVars
<1>1. CASE Console
  <2>1. pins' = Switched(UartPins, To("UART", "STRONG")) /\ on' = {"UART"} \cup on
        BY <1>1 DEF Console, UartUp
  <2>a. Serve("UART", UartPins)' /\ \A p \in AllPins \ UartPins : pins'[p] = pins[p]
        BY <2>1, SwitchedServe
  <2>2. /\ (Serve("I2C", I2cPins) => Serve("I2C", I2cPins)')
        /\ (Serve("SWJ", DebugPins) => Serve("SWJ", DebugPins)')
        /\ (Serve("QSPI", FramPins) => Serve("QSPI", FramPins)')
        BY <2>a, ServeStays, PinsApart
  <2>3. QED
        BY <1>1, <2>1, <2>a, <2>2 DEF Console, Idle, PinOwners, CodecInv
<1>2. CASE FramQspi
  <2>1. pins' = Switched(FramPins, To("QSPI", "STRONG")) /\ on' = {"QSPI"} \cup on
        BY <1>2 DEF FramQspi
  <2>a. Serve("QSPI", FramPins)' /\ \A p \in AllPins \ FramPins : pins'[p] = pins[p]
        BY <2>1, SwitchedServe
  <2>2. /\ (Serve("I2C", I2cPins) => Serve("I2C", I2cPins)')
        /\ (Serve("SWJ", DebugPins) => Serve("SWJ", DebugPins)')
        /\ (Serve("UART", UartPins) => Serve("UART", UartPins)')
        BY <2>a, ServeStays, PinsApart
  <2>3. QED
        BY <1>2, <2>1, <2>a, <2>2 DEF FramQspi, Idle, PinOwners, CodecInv
<1>3. CASE CapsenseUp
  <2>1. pins' = Switched(CsdPins, To("CSD", "ANALOG"))
        BY <1>3 DEF CapsenseUp
  <2>a. Serve("CSD", CsdPins)' /\ \A p \in AllPins \ CsdPins : pins'[p] = pins[p]
        BY <2>1, SwitchedServe
  <2>2. /\ (Serve("I2C", I2cPins) => Serve("I2C", I2cPins)')
        /\ (Serve("SWJ", DebugPins) => Serve("SWJ", DebugPins)')
        /\ (Serve("UART", UartPins) => Serve("UART", UartPins)')
        /\ (Serve("QSPI", FramPins) => Serve("QSPI", FramPins)')
        /\ (Serve("PANEL", PanelPins) => Serve("PANEL", PanelPins)')
        BY <2>a, ServeStays, PinsApart
  <2>3. QED
        BY <1>3, <2>a, <2>2 DEF CapsenseUp, PinOwners, CodecInv
<1>4. CASE LcdThread
  <2>0. at' = at /\ at \notin Early /\ UNCHANGED <<on, ckVars, touchVars, codecVars>>
        BY <1>4 DEF LcdThread
  <2>1. CASE busAt = "off"
    <3>1. pins' = Switched(PanelPins, To("PANEL", "STRONG"))
          BY <1>4, <2>1 DEF LcdThread
    <3>a. Serve("PANEL", PanelPins)' /\ \A p \in AllPins \ PanelPins : pins'[p] = pins[p]
          BY <3>1, SwitchedServe
    <3>b. SckPin \cap PanelPins = {}
          BY PinsApart
    <3>2. /\ (Serve("I2C", I2cPins) => Serve("I2C", I2cPins)')
          /\ (Serve("SWJ", DebugPins) => Serve("SWJ", DebugPins)')
          /\ (Serve("UART", UartPins) => Serve("UART", UartPins)')
          /\ (Serve("QSPI", FramPins) => Serve("QSPI", FramPins)')
          /\ (Serve("CSD", CsdPins) => Serve("CSD", CsdPins)')
          /\ (Serve("PDM", PdmPins) => Serve("PDM", PdmPins)')
          /\ (Serve("I2S", I2sOwn) => Serve("I2S", I2sOwn)')
          /\ (Serve("I2S", SckPin) => Serve("I2S", SckPin)')
          BY <3>a, <3>b, ServeStays, PinsApart
    <3>3. QED
          BY <2>0, <3>a, <3>2 DEF PinOwners
  <2>2. CASE busAt # "off"
    <3>1. pins' = pins
          BY <1>4, <2>2 DEF LcdThread
    <3>2. QED
          BY <2>0, <2>2, <3>1 DEF PinOwners, Serve
  <2>3. QED
        BY <2>1, <2>2
<1>5. CASE SoundPins
  <2>1. pins' = [p \in AllPins |->
                    CASE p \in PdmPins -> PdmConfig[p]
                      [] p \in I2sOwn -> I2sConfig[p]
                      [] OTHER -> pins[p]]
        BY <1>5 DEF SoundPins
  <2>2. \A p \in AllPins \ (PdmPins \cup I2sOwn) : pins'[p] = pins[p]
        BY <2>1
  <2>3. \A p \in PdmPins : pins'[p].to = "PDM"
    <3>1. \A p \in PdmPins : pins'[p] = PdmConfig[p]
          BY <2>1, PinsApart
    <3>2. \A p \in PdmPins : PdmConfig[p].to = "PDM"
      <4>1. \A d : To("PDM", d).to = "PDM"
            BY DEF To
      <4>2. QED
            BY <4>1 DEF PdmConfig
    <3>3. QED
          BY <3>1, <3>2
  <2>4. \A p \in I2sOwn : pins'[p].to = "I2S"
        BY <2>1, PinsApart DEF I2sConfig, I2sPins, To
  <2>5. /\ Serve("PDM", PdmPins)' /\ Serve("I2S", I2sOwn)'
        BY <2>3, <2>4 DEF Serve
  <2>6. /\ (Serve("I2C", I2cPins) => Serve("I2C", I2cPins)')
        /\ (Serve("SWJ", DebugPins) => Serve("SWJ", DebugPins)')
        /\ (Serve("UART", UartPins) => Serve("UART", UartPins)')
        /\ (Serve("QSPI", FramPins) => Serve("QSPI", FramPins)')
        /\ (Serve("CSD", CsdPins) => Serve("CSD", CsdPins)')
        /\ (Serve("PANEL", PanelPins) => Serve("PANEL", PanelPins)')
        BY <2>2, ServeStays, PinsApart
  <2>7. QED
        BY <1>5, <2>5, <2>6 DEF SoundPins, CodecOnly, PinOwners, CodecInv
<1>6. QED
      BY <1>1, <1>2, <1>3, <1>4, <1>5

(* The console and playback hand P5_1 to each other.                       *)
LEMMA PinsHanded ==
  ASSUME PinInv, CodecInv', ConsoleOff \/ PlayPin \/ FreePins \/ ConsoleBack
  PROVE  PinInv'
<1> USE PinsThere DEF PinInv, PinPlaces, Goes, Early, Looping, Late, ckVars, panelVars, touchVars, codecVars
<1>1. \A p \in AllPins \ UartPins : pins'[p] = pins[p]
      BY PinsApart DEF ConsoleOff, PlayPin, FreePins, ConsoleBack, UartUp, Switched
<1>2. /\ (Serve("I2C", I2cPins) => Serve("I2C", I2cPins)')
      /\ (Serve("SWJ", DebugPins) => Serve("SWJ", DebugPins)')
      /\ (Serve("QSPI", FramPins) => Serve("QSPI", FramPins)')
      /\ (Serve("CSD", CsdPins) => Serve("CSD", CsdPins)')
      /\ (Serve("PANEL", PanelPins) => Serve("PANEL", PanelPins)')
      /\ (Serve("PDM", PdmPins) => Serve("PDM", PdmPins)')
      /\ (Serve("I2S", I2sOwn) => Serve("I2S", I2sOwn)')
      BY <1>1, ServeStays, PinsApart
<1>3. CASE ConsoleOff
      BY <1>2, <1>3 DEF ConsoleOff, Idle, PinOwners
<1>4. CASE PlayPin
  <2>1. Serve("I2S", SckPin)'
        BY <1>4 DEF PlayPin, I2sConfig, I2sPins, To, Serve
  <2>2. QED
        BY <1>2, <1>4, <2>1 DEF PlayPin, CodecOnly, PinOwners
<1>5. CASE FreePins
      BY <1>2, <1>5 DEF FreePins, Idle, PinOwners
<1>6. CASE ConsoleBack
  <2>1. pins' = Switched(UartPins, To("UART", "STRONG"))
        BY <1>6 DEF ConsoleBack, UartUp
  <2>2. Serve("UART", UartPins)'
        BY <2>1, SwitchedServe
  <2>3. QED
        BY <1>2, <1>6, <2>2 DEF ConsoleBack, UartUp, Again, LoopAgain, PinOwners
<1>7. QED
      BY <1>3, <1>4, <1>5, <1>6

LEMMA PinSteps == PinInv /\ [Next]_vars => PinInv'
<1> SUFFICES ASSUME PinInv, [Next]_vars PROVE PinInv'
    OBVIOUS
<1>1. CodecInv'
      BY CodecNext DEF PinInv
<1>2. CASE FramCommands \/ LcdStartUp \/ ImuInit \/ Connects \/ SoundVolume \/ SoundOff \/ SoundRecords
           \/ CodecWrite \/ ScanRuns \/ RunCapSenseScan \/ NewVolume \/ SameVolume \/ NoButton
           \/ PlaybackOn \/ PlaybackOff \/ UNCHANGED vars
  <2>1. pins' = pins
        BY <1>2 DEF FramCommands, LcdStartUp, ImuInit, Connects, SoundVolume, SoundOff, SoundRecords,
                    CodecWrite, ScanRuns, RunCapSenseScan, NewVolume, SameVolume, NoButton, PlaybackOn,
                    PlaybackOff, Then, Again, pinVars, vars
  <2>2. QED
        BY <1>1, <1>2, <2>1, PinsUnswitched
<1>3. CASE Configures \/ Constructors
      BY <1>1, <1>3, PinsConfigured
<1>4. CASE Console \/ FramQspi \/ CapsenseUp \/ LcdThread \/ SoundPins
      BY <1>1, <1>4, PinsTaken
<1>5. CASE ConsoleOff \/ PlayPin \/ FreePins \/ ConsoleBack
      BY <1>1, <1>5, PinsHanded
<1>6. CASE ResetHost
      BY <1>6, PinResets
<1>7. QED
      BY <1>2, <1>3, <1>4, <1>5, <1>6 DEF Next

LEMMA PinInvImplies == PinInv => PinsServe
<1> SUFFICES ASSUME PinInv PROVE PinsServe
    OBVIOUS
<1>1. writes # <<>> => at # "clocks"
      BY DEF PinInv, CodecInv, WritesNone, WritesInit, WritesVolume, WritesOff, WritesOn
<1>2. "I2S" \in on => Serve("I2S", I2sPins)
      BY DEF PinInv, PinPlaces, PinOwners, Late, Looping, Serve, I2sPins
<1>3. QED
      BY <1>1, <1>2 DEF PinInv, PinPlaces, PinOwners, PinsServe, Late

(* At 49 MHz both blocks run at 15 950 samples a second.                   *)
LEMMA SameRate == ASSUME DeclInv, PinInv PROVE PlaybackAtRecordedRate
<1>1. "PDM" \in on => HfMHz(clk, 1) = 49
  <2>1. "PDM" \in on => ckPc = "done"
        BY DEF PinInv, PinPlaces, Looping
  <2>2. ckPc = "done" => clk.hf[1] = [path |-> 1, div |-> 2] /\ clk.pll = 98
        BY DEF DeclInv, FromHf, FromMisc, FromPeriph, FromCsd
  <2>3. QED
        BY <2>1, <2>2 DEF HfMHz, PathMHz
<1>2. 49 * 1000000 = 49000000
      OBVIOUS
<1>3. PdmRate(49000000) = 15950 /\ I2sRate(49000000) = 15950
      BY DEF PdmRate, I2sRate
<1>4. QED
      BY <1>1, <1>2, <1>3 DEF PlaybackAtRecordedRate

(* From any clock tree, with any fingers, volumes, failing writes and      *)
(* resets: no block that is in use has lost a pin, and what is recorded is *)
(* played at the rate it was recorded with (hw.cpp, sound.cpp,             *)
(* cycfg_pins.c, cycfg_system.c).                                          *)
THEOREM BlocksHaveTheirPins == Spec => []BlocksServed
<1>1. Init => DeclInv /\ PinInv
      BY DeclStart, PinStarts DEF Init
<1>2. DeclInv /\ PinInv /\ [Next]_vars => (DeclInv /\ PinInv)'
      BY NextForParts, DeclSteps, DeclElsewhere, DeclReset, PinSteps
<1>3. DeclInv /\ PinInv => BlocksServed
      BY PinInvImplies, SameRate DEF BlocksServed
<1>4. QED
      BY <1>1, <1>2, <1>3, PTL DEF Spec
=============================================================================
