------------------------------- MODULE Panel -------------------------------
(***************************************************************************)
(* The display: cy_tft.c, which drives the lines of its 8080 bus one after *)
(* the other, and the start-up and the port functions that LCDConf.cpp     *)
(* gives the graphics library.  One thread calls them.                     *)
(*                                                                         *)
(* The panel (external): it takes what is on the data lines when NWR       *)
(* rises, as a command while DC is low and as a parameter of its last      *)
(* command while DC is high; it drives the data lines while NRD is low.    *)
(***************************************************************************)
EXTENDS Integers, Sequences

CONSTANTS
    Draws,      \* what the library may draw: commands as in Script
    MaxDraws,   \* how many drawings and readings there are
    MaxPixels   \* pixels of one reading

Byte == 0 .. 255
Cmd(c, params) == [cmd |-> c, params |-> params]
Calls == [cmd : Byte, params : Seq(Byte)]

ASSUME DrawsAssumption == Draws \subseteq Calls
ASSUME BoundsAssumption == MaxDraws \in Nat /\ MaxPixels \in Nat

VARIABLES
    busAt,      \* where the display's thread is
    lines,      \* level of each line; who may drive the data lines
    call,       \* the command being sent, or the last one
    back,       \* and where the function it is in returns to
    pos,        \* 0 for the command itself, else which parameter; pixels read
    sent,       \* calls of Script finished, and drawings begun
    panel,      \* the last command the panel took, with its parameters
    sample      \* who drove the data lines when a pixel was read

panelVars == <<busAt, lines, call, back, pos, sent, panel, sample>>

(* _InitController, after the reset.                                       *)
Script == <<
    Cmd(40, <<>>), Cmd(17, <<>>), Cmd(54, <<160>>), Cmd(58, <<101>>),
    Cmd(178, <<12, 12, 0, 51, 51>>), Cmd(183, <<53>>), Cmd(187, <<43>>), Cmd(192, <<44>>),
    Cmd(194, <<1, 255>>), Cmd(195, <<17>>), Cmd(196, <<32>>), Cmd(198, <<15>>),
    Cmd(208, <<164, 161>>),
    Cmd(224, <<208, 0, 5, 14, 21, 13, 55, 67, 71, 9, 21, 18, 22, 25>>),
    Cmd(225, <<208, 0, 5, 13, 12, 6, 45, 68, 64, 14, 28, 24, 22, 25>>),
    Cmd(43, <<0, 0, 0, 239>>), Cmd(42, <<0, 0, 1, 63>>), Cmd(41, <<>>) >>

Blank == Cmd(0, <<>>)

PanelStart ==
    /\ busAt = "off"
    /\ lines = [data |-> 0, dc |-> 0, nwr |-> 0, nrd |-> 0, rst |-> 0, dir |-> "panel"]
    /\ call = Blank /\ back = "script" /\ pos = 0 /\ sent = 0
    /\ panel = Blank /\ sample = "none"
-----------------------------------------------------------------------------
(* From one place to the next, with one line set.                          *)
Line(here, there, line, level) ==
    /\ busAt = here /\ busAt' = there
    /\ lines' = [lines EXCEPT ![line] = level]

(* cy_tft_io_init.                                                         *)
IoInit ==
    /\ busAt = "off" /\ busAt' = "reset"
    /\ lines' = [data |-> 0, dc |-> 0, nwr |-> 1, nrd |-> 1, rst |-> 1, dir |-> "host"]
    /\ UNCHANGED <<call, back, pos, sent, panel, sample>>

ResetLow ==
    /\ Line("reset", "release", "rst", 0)
    /\ panel' = Blank
    /\ UNCHANGED <<call, back, pos, sent, sample>>

ResetHigh ==
    /\ Line("release", "script", "rst", 1)
    /\ UNCHANGED <<call, back, pos, sent, panel, sample>>

(* The next call of _InitController, or its end.                           *)
NextCall ==
    /\ busAt = "script"
    /\ IF sent < Len(Script)
       THEN busAt' = "dc" /\ call' = Script[sent + 1] /\ sent' = sent + 1 /\ UNCHANGED back
       ELSE busAt' = "ready" /\ back' = "ready" /\ sent' = 0 /\ UNCHANGED call
    /\ UNCHANGED <<lines, pos, panel, sample>>

(* The library draws through the port functions of LCD_X_Config.           *)
Draw ==
    /\ busAt = "ready" /\ busAt' = "dc"
    /\ sent < MaxDraws /\ sent' = sent + 1
    /\ call' \in Draws
    /\ UNCHANGED <<lines, back, pos, panel, sample>>

DcLowAlways ==   \* mutant: parameters sent like commands
    /\ Line("dc", "byte", "dc", 0)
    /\ UNCHANGED <<call, back, pos, sent, panel, sample>>

(* cy_tft_write_command, cy_tft_write_data and their streams.              *)
SetDc ==
    /\ Line("dc", "byte", "dc", IF pos = 0 THEN 0 ELSE 1)
    /\ UNCHANGED <<call, back, pos, sent, panel, sample>>

(* write_data of one byte.                                                 *)
PutByte ==
    /\ Line("byte", "low", "data", IF pos = 0 THEN call.cmd ELSE call.params[pos])
    /\ UNCHANGED <<call, back, pos, sent, panel, sample>>

NwrLow ==
    /\ Line("low", "high", "nwr", 0)
    /\ UNCHANGED <<call, back, pos, sent, panel, sample>>

PanelTakes ==
    panel' = IF lines.dc = 0 THEN Cmd(lines.data, <<>>)
             ELSE [panel EXCEPT !.params = Append(@, lines.data)]

NwrHigh ==
    /\ busAt = "high"
    /\ lines' = [lines EXCEPT !.nwr = 1]
    /\ PanelTakes
    /\ IF pos < Len(call.params)
       THEN busAt' = "dc" /\ pos' = pos + 1
       ELSE busAt' = back /\ pos' = 0
    /\ UNCHANGED <<call, back, sent, sample>>

(* cy_tft_read_data and cy_tft_read_data_stream.                           *)
ReadPixels ==
    /\ Line("ready", "input", "dc", 1)
    /\ MaxPixels > 0
    /\ sent < MaxDraws /\ sent' = sent + 1
    /\ UNCHANGED <<call, back, pos, panel, sample>>

SetInputSkipped ==   \* mutant
    /\ Line("input", "nrdLow", "nrd", 1)
    /\ UNCHANGED <<call, back, pos, sent, panel, sample>>

SetInput ==
    /\ Line("input", "nrdLow", "dir", "panel")
    /\ UNCHANGED <<call, back, pos, sent, panel, sample>>

NrdLow ==
    /\ Line("nrdLow", "read", "nrd", 0)
    /\ UNCHANGED <<call, back, pos, sent, panel, sample>>

ReadByte ==
    /\ busAt = "read" /\ busAt' = "nrdHigh"
    /\ sample' = IF lines.dir = "panel" /\ lines.nrd = 0 THEN "panel" ELSE "other"
    /\ pos' = pos + 1
    /\ UNCHANGED <<lines, call, back, sent, panel>>

NrdHigh ==
    /\ \E there \in {"nrdLow", "output"} :
         /\ there = "nrdLow" => pos < MaxPixels
         /\ Line("nrdHigh", there, "nrd", 1)
    /\ UNCHANGED <<call, back, pos, sent, panel, sample>>

SetOutput ==
    /\ Line("output", "ready", "dir", "host")
    /\ pos' = 0
    /\ UNCHANGED <<call, back, sent, panel, sample>>

PanelStep ==
    \/ IoInit \/ ResetLow \/ ResetHigh \/ NextCall \/ Draw
    \/ SetDc \/ PutByte \/ NwrLow \/ NwrHigh
    \/ ReadPixels \/ SetInput \/ NrdLow \/ ReadByte \/ NrdHigh \/ SetOutput

(* The microcontroller alone is reset: its pins float.                     *)
PanelReset ==
    /\ busAt' = "off"
    /\ lines' = [data |-> 0, dc |-> 0, nwr |-> 0, nrd |-> 0, rst |-> 0, dir |-> "panel"]
    /\ call' = Blank /\ back' = "script" /\ pos' = 0 /\ sent' = 0
    /\ panel' = Blank /\ sample' = "none"

PanelSpec == PanelStart /\ [][PanelStep]_panelVars
-----------------------------------------------------------------------------
BytesArrive == busAt \in {"script", "ready"} => panel = call

NoContention == (lines.nrd = 0 => lines.dir = "panel") /\ sample # "other"

(* Whenever a function of the bus has returned, the panel has the last     *)
(* command with all its parameters, none taken for a command or twice; and *)
(* the host and the panel never drive the data lines together: a pixel is  *)
(* read while the panel alone drives them.                                 *)
BusWorks == BytesArrive /\ NoContention
=============================================================================
