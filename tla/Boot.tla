-------------------------------- MODULE Boot --------------------------------
(***************************************************************************)
(* From a reset to the main loop: the clocks, the pins, the F-RAM chip,    *)
(* the display with its own thread, CapSense with its interrupt and the    *)
(* codec, in the order main brings them up, and the loop that then serves  *)
(* touches, volume and playback.  The microcontroller may be reset at any  *)
(* moment; the F-RAM chip and the codec are not reset with it.             *)
(***************************************************************************)
EXTENDS Clocks, Pins, FramInit, Panel, Touch, Codec

VARIABLES
    at,     \* where main is
    on      \* the blocks whose clock and data lines are in use

vars == <<at, on, ckVars, pinVars, framVars, panelVars, touchVars, codecVars>>

Blocks == {"UART", "QSPI", "PDM", "I2S"}
Early == {"clocks", "objects", "console", "fram", "commands", "lcd"}

Init ==
    /\ at = "clocks" /\ on = {}
    /\ ClockStart /\ FramStart /\ PanelStart /\ TouchStart /\ CodecStart
    /\ pins = PinsAfterReset /\ splitters = {}

(* Main goes from one place to the next.                                   *)
Goes(here, there) == at = here /\ at' = there

Idle == UNCHANGED <<ckVars, framVars, panelVars, touchVars, codecVars>>
-----------------------------------------------------------------------------
(* init_cycfg_all.                                                         *)
Configures ==
    /\ at = "clocks" /\ UNCHANGED <<at, on>>
    /\ \/ ClockStep /\ UNCHANGED pinVars
       \/ Sets("routing", "csd", clk) /\ CfgRouting
       \/ Sets("pins", "done", clk) /\ CfgPins
    /\ UNCHANGED <<framVars, panelVars, touchVars, codecVars>>

(* The I2C, AnalogIn and DigitalOut objects of hw.cpp and capsense.cpp are *)
(* constructed before main.                                                *)
Constructors ==
    /\ ckPc = "done" /\ Goes("clocks", "console")
    /\ pins' = [p \in AllPins |->
                    CASE p \in I2cPins -> To("I2C", "OD_DRIVESLOW")
                      [] p = "P10_0"   -> To("ADC", "ANALOG")
                      [] p \in BoardPins \ {"P10_0"} -> To("GPIO", "STRONG")
                      [] OTHER -> pins[p]]
    /\ UNCHANGED <<on, splitters>> /\ Idle

UartUp ==
    /\ pins' = Switched(UartPins, To("UART", "STRONG"))
    /\ on' = on \cup {"UART"}

(* The first line printed opens the console.                               *)
Console ==
    /\ Goes("console", "fram")
    /\ UartUp /\ UNCHANGED splitters /\ Idle

(* fram_init: cyhal_qspi_init, then the commands of FramInit.              *)
FramQspi ==
    /\ Goes("fram", "commands")
    /\ pins' = Switched(FramPins, To("QSPI", "STRONG"))
    /\ on' = on \cup {"QSPI"}
    /\ UNCHANGED splitters /\ Idle

FramCommands ==
    /\ at = "commands"
    /\ FramStep
    /\ at' = IF next' > Len(Commands) THEN "lcd" ELSE at
    /\ UNCHANGED <<on, ckVars, pinVars, panelVars, touchVars, codecVars>>

(* lcd_StartUp: from here the display's thread runs.                       *)
LcdStartUp == Goes("lcd", "imu") /\ UNCHANGED <<on, pinVars>> /\ Idle

(* Bounds: it draws first and reads pixels last, and all before the loop.  *)
LcdThread ==
    /\ at \notin Early
    /\ PanelStep
    /\ busAt = "ready" => busAt' = IF sent + 1 < MaxDraws THEN "dc" ELSE "input"
    /\ pins' = IF busAt = "off" THEN Switched(PanelPins, To("PANEL", "STRONG")) ELSE pins
    /\ UNCHANGED <<at, on, ckVars, splitters, framVars, touchVars, codecVars>>

(* hw_bmi160_init goes on whatever the sensor answers.                     *)
ImuInit == Goes("imu", "capsense") /\ UNCHANGED <<on, pinVars>> /\ Idle

CapsenseUp ==
    /\ Goes("capsense", "connect")
    /\ CapsenseInit
    /\ pins' = Switched(CsdPins, To("CSD", "ANALOG"))
    /\ UNCHANGED <<on, splitters, ckVars, framVars, panelVars, codecVars>>

(* The network, the time and AWS are in Device; main may give up there.    *)
Connects ==
    /\ at = "connect" /\ at' \in {"sound", "returned"}
    /\ UNCHANGED <<on, pinVars>> /\ Idle
-----------------------------------------------------------------------------
(* A step of main that touches the codec's variables at most.              *)
CodecOnly == UNCHANGED <<ckVars, framVars, panelVars, touchVars>>

(* sound_init: its delay of 2000 s outlasts the display's start-up.        *)
SoundPins ==
    /\ Goes("sound", "codec") /\ busAt = "ready" /\ sent = MaxDraws
    /\ pins' = [p \in AllPins |->
                    CASE p \in PdmPins -> PdmConfig[p]
                      [] p \in I2sOwn -> I2sConfig[p]
                      [] OTHER -> pins[p]]
    /\ Runs(ak4954a_init)
    /\ CodecOnly /\ UNCHANGED <<on, splitters, regs, faults, dirty, playing>>

(* A function of the driver begins when the one before has returned.       *)
Then(here, there, function) ==
    /\ Goes(here, there) /\ Runs(function)
    /\ CodecOnly /\ UNCHANGED <<on, pinVars, regs, faults, dirty>>

SoundVolume ==
    \E v \in Volumes : Then("codec", "volume", ak4954a_adjust_volume(v)) /\ UNCHANGED playing

SoundOff == Then("volume", "record", ak4954a_deactivate) /\ UNCHANGED playing

SoundRecords ==
    /\ Goes("record", "loop") /\ writes = <<>>
    /\ on' = on \cup {"PDM"}
    /\ Idle /\ UNCHANGED pinVars

(* Transmit is main's own step, one write after the other.                 *)
CodecWrite == Transmit /\ CodecOnly /\ UNCHANGED <<at, on, pinVars>>
-----------------------------------------------------------------------------
(* The scan goes on whatever main does; fingers move, as a bound, only     *)
(* while main is with them.                                                *)
ScanRuns ==
    /\ Sample \/ (at = "loop" /\ Moves)
    /\ UNCHANGED <<at, on, ckVars, pinVars, framVars, panelVars, codecVars>>

RunCapSenseScan ==
    /\ at = "loop" /\ at' = IF touchAt = "status" THEN "update" ELSE "loop"
    /\ ScanStarts \/ Acquires \/ ProcessAll \/ ProcessTouchStatus
    /\ UNCHANGED <<on, ckVars, pinVars, framVars, panelVars, codecVars>>

(* A bound: volume and playback change while no finger does.               *)
Rest == finger = {} /\ passes = Enough

(* sound_update: a new volume first, then the play button.                 *)
NewVolume ==
    /\ Rest
    /\ \E v \in Volumes : Then("update", "play", ak4954a_adjust_volume(v)) /\ UNCHANGED playing

SameVolume == Goes("update", "play") /\ UNCHANGED <<on, pinVars>> /\ Idle

(* The end of a pass, with the delay.                                      *)
Again(here) ==
    /\ Goes(here, "loop") /\ writes = <<>>
    /\ LoopAgain
    /\ UNCHANGED <<ckVars, framVars, panelVars, codecVars>>

NoButton == Again("play") /\ UNCHANGED <<on, pinVars>>

(* sound_start_playback: UART_OUTPUT off and serial_free, then P5_1.       *)
ConsoleOff ==
    /\ Goes("play", "sck") /\ writes = <<>> /\ ~playing /\ Rest
    /\ on' = on \ {"UART"}
    /\ pins' = Switched(UartPins, To("none", "HIGHZ"))
    /\ UNCHANGED splitters /\ Idle

SckPinSkipped ==   \* mutant
    /\ Then("sck", "started", ak4954a_activate)
    /\ playing' = TRUE

PlayPin ==
    /\ Goes("sck", "started") /\ Runs(ak4954a_activate)
    /\ playing' = TRUE
    /\ pins' = [p \in AllPins |-> IF p \in SckPin THEN I2sConfig[p] ELSE pins[p]]
    /\ CodecOnly /\ UNCHANGED <<on, splitters, regs, faults, dirty>>

PlaybackOn ==
    /\ Again("started")
    /\ on' = on \cup {"I2S"}
    /\ UNCHANGED pinVars

(* sound_stop_playback.                                                    *)
PlaybackOff ==
    /\ Goes("play", "free") /\ Rest
    /\ playing /\ playing' = FALSE
    /\ Runs(ak4954a_deactivate)
    /\ on' = on \ {"I2S"}
    /\ CodecOnly /\ UNCHANGED <<pinVars, regs, faults, dirty>>

FreePins ==
    /\ Goes("free", "recover") /\ writes = <<>>
    /\ pins' = Switched(UartPins, To("none", "HIGHZ"))
    /\ UNCHANGED <<on, splitters>> /\ Idle

ConsoleBack == Again("recover") /\ UartUp /\ UNCHANGED splitters

ResetHost ==
    /\ at' = "clocks" /\ on' = {}
    /\ ClockReset /\ FramReset /\ PanelReset /\ TouchReset
    /\ pins' = PinsAfterReset /\ splitters' = {}
    /\ writes' = <<>> /\ dirty' = RegNames /\ playing' = FALSE
    /\ UNCHANGED <<regs, faults>>

Next ==
    \/ Configures \/ Constructors \/ Console \/ FramQspi \/ FramCommands \/ LcdStartUp
    \/ LcdThread \/ ImuInit \/ CapsenseUp \/ Connects
    \/ SoundPins \/ SoundVolume \/ SoundOff \/ SoundRecords \/ CodecWrite
    \/ ScanRuns \/ RunCapSenseScan \/ NewVolume \/ SameVolume \/ NoButton
    \/ ConsoleOff \/ PlayPin \/ PlaybackOn \/ PlaybackOff \/ FreePins \/ ConsoleBack
    \/ ResetHost

Spec == Init /\ [][Next]_vars
-----------------------------------------------------------------------------
Looping == {"loop", "update", "play", "sck", "started", "free", "recover"}

PinsServe ==
    /\ "UART" \in on => Serve("UART", UartPins)
    /\ "I2S" \in on => Serve("I2S", I2sPins)
    /\ "PDM" \in on => Serve("PDM", PdmPins)
    /\ "QSPI" \in on => Serve("QSPI", FramPins)
    /\ writes # <<>> => Serve("I2C", I2cPins)
    /\ busAt # "off" => Serve("PANEL", PanelPins)
    /\ touchAt # "off" => Serve("CSD", CsdPins)
    /\ ckPc = "done" => Serve("SWJ", DebugPins)

PowerFollows ==
    at \in Looping /\ writes = <<>> =>
        IF playing
        THEN dirty \cap {"PM1", "PM2"} = {} => regs.PM1 = VCM + DAC /\ regs.PM2 = HEADPHONES
        ELSE /\ "PM1" \notin dirty => regs.PM1 = VCM
             /\ "PM2" \notin dirty => regs.PM2 = 0

PlaybackAtRecordedRate ==
    "PDM" \in on =>
        LET hz == HfMHz(clk, 1) * 1000000
        IN  PdmRate(hz) = I2sRate(hz) /\ PdmRate(hz) \in 15900 .. 16100

(* A block that is in use has its pins, although the console and playback  *)
(* take turns on P5_1, and so have the buses while they are used; and the  *)
(* clock that is configured for PDM and I2S makes both run at one rate.    *)
BlocksServed == PinsServe /\ PlaybackAtRecordedRate

(* With no function of the driver running the codec's two channels are     *)
(* equally loud, unless it was the right one's write that failed.  While   *)
(* nothing is played its outputs and its DAC are off, even if the write    *)
(* before failed; and unless a write of playback failed, both are on while *)
(* something is.                                                           *)
CodecFollows == VolumeBoth /\ PowerFollows
=============================================================================
