------------------------------- MODULE Touch -------------------------------
(***************************************************************************)
(* capsense.cpp with the tables of cycfg_capsense.c: the scan of the       *)
(* widgets, its end announced by a semaphore, and the main loop that waits *)
(* for it and turns what was sampled into button presses and a slider      *)
(* position.                                                               *)
(*                                                                         *)
(* The middleware (external): a scan samples one widget after the other    *)
(* and calls back at its end; processing debounces each widget and looks   *)
(* for the position of the slider.  Signals are far above the thresholds   *)
(* or far below.                                                           *)
(***************************************************************************)
EXTENDS Integers, FiniteSets, Sequences

CONSTANT Fingers   \* where fingers may lie: sets of the pins of electrodes

VARIABLES
    finger,     \* an element of Fingers
    scan,       \* the widget sampled next, 0 while no scan runs
    raw,        \* of each widget: which of its electrodes had a signal
    token,      \* capsense_sem
    left,       \* passes until a widget with a signal counts as touched
    active,     \* the widgets that do
    position,   \* ptrPosition->x of the slider
    prev,       \* prevBtn0Status, prevBtn1Status
    prevSlider, \* prevSliderPos
    led,        \* ledStatus
    passes,     \* how often main has looked since a finger moved, at most Enough
    touchAt     \* where main is

touchVars ==
    <<finger, scan, raw, token, left, active, position, prev, prevSlider, led, passes, touchAt>>

(* cy_capsense_pinConfig and cy_capsense_electrodeConfig, from 0.          *)
ElectrodePin ==
    [e \in 0 .. 9 |->
        <<"P8_1", "P1_0", "P8_2", "P1_0", "P8_3", "P8_4", "P8_5", "P8_6", "P8_7", "P8_0">>[e + 1]]

WidgetConfigShifted ==   \* mutant: the first electrode of its neighbour
    << [wd |-> "Button0",       first |-> 0, eltds |-> 1],
       [wd |-> "Button1",       first |-> 0, eltds |-> 1],
       [wd |-> "LinearSlider0", first |-> 4, eltds |-> 5],
       [wd |-> "Proximity0",    first |-> 9, eltds |-> 1] >>

(* cy_capsense_widgetConfig: ptrEltdConfig and how many electrodes are     *)
(* read; the transmit electrode of a button comes after its own.           *)
WidgetConfig ==
    << [wd |-> "Button0",       first |-> 0, eltds |-> 1],
       [wd |-> "Button1",       first |-> 2, eltds |-> 1],
       [wd |-> "LinearSlider0", first |-> 4, eltds |-> 5],
       [wd |-> "Proximity0",    first |-> 9, eltds |-> 1] >>

Widgets == DOMAIN WidgetConfig
Button0 == 1
Button1 == 2
LinearSlider0 == 3

PinsOf(w) ==
    {ElectrodePin[e] : e \in WidgetConfig[w].first .. WidgetConfig[w].first + WidgetConfig[w].eltds - 1}

(* cy_capsense_tuner: onDebounce of each widget.                           *)
OnDebounce == [w \in Widgets |-> 3]

(* xResolution 300 over five electrodes: where the signal is.              *)
Position(pins) ==
    LET e == CHOOSE i \in 0 .. 4 : ElectrodePin[WidgetConfig[LinearSlider0].first + i] \in pins
    IN  e * (300 \div 4)

(* What lies under a finger, on the board: CYBSP_CSD_BTN0, CYBSP_CSD_BTN1, *)
(* and CYBSP_CSD_SLD0 to 4.                                                *)
Pad == [b \in {Button0, Button1} |-> IF b = Button0 THEN "P8_1" ELSE "P8_2"]
SliderPads == {"P8_3", "P8_4", "P8_5", "P8_6", "P8_7"}

ASSUME FingersAssumption ==
    /\ {} \in Fingers
    /\ \A f \in Fingers : f \subseteq SliderPads \cup {"P8_0", "P8_1", "P8_2"}
    /\ \A f \in Fingers : Cardinality(f \cap SliderPads) <= 1

Enough == 5

TouchStart ==
    /\ finger = {}
    /\ scan = 0 /\ raw = [w \in Widgets |-> {}] /\ token = 0
    /\ left = OnDebounce /\ active = {} /\ position = 0
    /\ prev = [b \in {Button0, Button1} |-> FALSE] /\ prevSlider = 0
    /\ led = FALSE /\ passes = 0
    /\ touchAt = "off"
-----------------------------------------------------------------------------
Moves ==
    /\ finger' \in Fingers \ {finger}
    /\ passes' = 0
    /\ UNCHANGED <<scan, raw, token, left, active, position, prev, prevSlider, led, touchAt>>

(* One widget is sampled; after the last CapSenseEndOfScanCallback.        *)
Sample ==
    /\ scan # 0
    /\ raw' = [raw EXCEPT ![scan] = PinsOf(scan) \cap finger]
    /\ IF scan < Len(WidgetConfig)
       THEN scan' = scan + 1 /\ UNCHANGED token
       ELSE scan' = 0 /\ token' = token + 1
    /\ UNCHANGED <<finger, left, active, position, prev, prevSlider, led, passes, touchAt>>

(* capsense_init starts a scan that RunCapSenseScan has not waited for.    *)
CapsenseInit ==
    /\ touchAt = "off" /\ touchAt' = "loop"
    /\ scan' = 1
    /\ UNCHANGED <<finger, raw, token, left, active, position, prev, prevSlider, led, passes>>

ScanStartsIfBusy ==   \* mutant: the test of Cy_CapSense_IsBusy the wrong way round
    /\ touchAt = "loop" /\ touchAt' = "acquire"
    /\ scan' = IF scan # 0 THEN 1 ELSE scan
    /\ UNCHANGED <<finger, raw, token, left, active, position, prev, prevSlider, led, passes>>

(* RunCapSenseScan, up to its acquire.                                     *)
ScanStarts ==
    /\ touchAt = "loop" /\ touchAt' = "acquire"
    /\ scan' = IF scan = 0 THEN 1 ELSE scan
    /\ UNCHANGED <<finger, raw, token, left, active, position, prev, prevSlider, led, passes>>

Acquires ==
    /\ touchAt = "acquire" /\ touchAt' = "process"
    /\ token > 0 /\ token' = token - 1
    /\ UNCHANGED <<finger, scan, raw, left, active, position, prev, prevSlider, led, passes>>

(* Cy_CapSense_ProcessAllWidgets.                                          *)
ProcessAll ==
    /\ touchAt = "process" /\ touchAt' = "status"
    /\ left' = [w \in Widgets |->
                    IF raw[w] = {} THEN OnDebounce[w] ELSE IF left[w] > 0 THEN left[w] - 1 ELSE 0]
    /\ active' = {w \in Widgets : raw[w] # {} /\ left'[w] = 0}
    /\ position' = IF LinearSlider0 \in active' THEN Position(raw[LinearSlider0]) ELSE position
    /\ UNCHANGED <<finger, scan, raw, token, prev, prevSlider, led, passes>>

(* What has changed since the last time; hw_flipping_button at a release   *)
(* and hw_set_slider are in RecorderInputs.                                *)
ProcessTouchStatus ==
    /\ touchAt = "status" /\ touchAt' = "seen"
    /\ prev' = [b \in {Button0, Button1} |-> b \in active]
    /\ prevSlider' = IF LinearSlider0 \in active THEN position ELSE prevSlider
    /\ led' = (active \cap {Button0, Button1, LinearSlider0} # {})
    /\ passes' = IF passes < Enough THEN passes + 1 ELSE passes
    /\ UNCHANGED <<finger, scan, raw, token, left, active, position>>

(* The rest of the main loop.                                              *)
LoopAgain ==
    /\ touchAt = "seen" /\ touchAt' = "loop"
    /\ UNCHANGED <<finger, scan, raw, token, left, active, position, prev, prevSlider, led, passes>>

TouchReset ==
    /\ finger' = {}
    /\ scan' = 0 /\ raw' = [w \in Widgets |-> {}] /\ token' = 0
    /\ left' = OnDebounce /\ active' = {} /\ position' = 0
    /\ prev' = [b \in {Button0, Button1} |-> FALSE] /\ prevSlider' = 0
    /\ led' = FALSE /\ passes' = 0
    /\ touchAt' = "off"

TouchStep ==
    \/ Moves \/ Sample \/ CapsenseInit \/ ScanStarts \/ Acquires
    \/ ProcessAll \/ ProcessTouchStatus \/ LoopAgain

TouchSpec == TouchStart /\ [][TouchStep]_touchVars
-----------------------------------------------------------------------------
ScanPending == touchAt = "acquire" => scan # 0 \/ token > 0

SeenInTime ==
    passes = Enough =>
        /\ \A b \in {Button0, Button1} : prev[b] <=> Pad[b] \in finger
        /\ finger \cap SliderPads # {} => prevSlider = Position(finger \cap SliderPads)
        /\ led <=> (finger \ {"P8_0"} # {})

(* Main never waits for a scan that nobody has started; and once a finger  *)
(* has kept still for Enough passes of the main loop, the buttons, the     *)
(* slider and the LED are what it does, although the tokens main takes may *)
(* be of scans that ended before, or that are still running.               *)
TouchServed == ScanPending /\ SeenInTime
=============================================================================
