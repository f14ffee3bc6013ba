------------------------------ MODULE Recorder ------------------------------
(***************************************************************************)
(* The sound recorder of sound.cpp, with the buttons and the slider of     *)
(* hw.cpp that drive it and the F-RAM records of fram.cpp that outlive it. *)
(*                                                                         *)
(* Actors: the main loop (touch scan, sound_update, delay), the AWS thread *)
(* that preempts it, the PDM and I2S interrupts, and the power supply.     *)
(* A main-loop step is one of the code's reads-then-writes of the shared   *)
(* button flags; `pc` says which comes next.  The interrupts may run       *)
(* between any two steps, the AWS thread at the places in RemotePoints.    *)
(***************************************************************************)
EXTENDS Integers, Sequences

CONSTANTS
    TotalBlock,     \* RECORD_SOUND_TOTAL_BLOCK, blocks in the F-RAM ring
    DisplayBlocks,  \* blocks per displayed unit (128 in sound_update)
    Sliders,        \* slider positions, local or remote
    RemotePoints    \* where the AWS thread may preempt the main loop

Places == {"boot", "scan", "volume", "latchVolume", "play", "latchPlay",
           "rec", "recStopped", "latchRec", "stopCheck", "clearStop",
           "display", "delay"}

ASSUME TotalBlockAssumption == TotalBlock \in Nat /\ TotalBlock >= 3
ASSUME DisplayAssumption == DisplayBlocks \in Nat \ {0}
ASSUME SlidersAssumption == Sliders \subseteq Nat
ASSUME RemoteAssumption == RemotePoints \subseteq Places \cup {"call", "between"}

VARIABLES
    fram,            \* the Status record at STATUS_ADDRESS, survives power loss
    status,          \* its copy in RAM
    lost,            \* history: the last save of status did not reach fram
    fresh,           \* the ring blocks written by the take of this power session
    sound_start,     \* sound_record_start_pos
    sound_end,       \* sound_record_end_pos
    playingblock,    \* sound_playingblock
    endblock,        \* sound_endblock
    buffer,          \* the block the shared sample buffer holds
    half,            \* TRUE when the second half of buffer is next
    sound_rec, sound_play,
    pdm_irq,         \* the PDM interrupt is enabled
    i2s_irq,         \* the I2S interrupt is enabled in the NVIC
    i2s_mask,        \* its mask in the I2S block is not 0
    heard,           \* pdm_int has run since the recording began
    call_stop_play,
    hw_button,       \* hw_button[id], what the display and the cloud show
    button,          \* play_button (0) and rec_button (1)
    last_button,     \* last_play_button (0) and last_rec_button (1)
    hw_slider, volume, last_volume,
    codec,           \* attenuation register of the AK4954A
    shown,           \* lastdisplaysecond
    pc,              \* where the main loop is
    calls,           \* hw_ calls the main loop has still to make
    btn_call,        \* <<id, onoff>> of a half-done hw_set_button, or <<>>
    sld_call         \* <<pos>> of a half-done hw_set_slider, or <<>>

ringVars   == <<fresh, sound_start, sound_end, heard>>
playVars   == <<playingblock, endblock, i2s_mask>>
irqVars    == <<pdm_irq, i2s_irq>>
savedVars  == <<fram, status, lost>>
buttonVars == <<hw_button, button>>
sliderVars == <<hw_slider, volume>>
volumeVars == <<last_volume, codec>>
callVars   == <<calls, btn_call, sld_call>>
vars == <<ringVars, playVars, buffer, half, sound_rec, sound_play, irqVars,
          call_stop_play, savedVars, buttonVars, last_button, sliderVars,
          volumeVars, shown, pc, callVars>>

Blocks   == 0 .. TotalBlock - 1
Buttons  == {0, 1}
Play     == 0
Rec      == 1
NoBlock  == -1    \* a buffer of microphone samples, or one never filled

(* (300-volume+30)/4 in a uint8_t; the division truncates towards zero.    *)
Atten(v) == IF v <= 330 THEN ((330 - v) \div 4) % 256 ELSE (-((v - 330) \div 4)) % 256

(* The position after b, and the start of the ring after its end moved to  *)
(* e: a block is given up when the end meets the start.                    *)
Next1LateWrap(b) == IF b + 1 > TotalBlock THEN 0 ELSE b + 1   \* mutant
Next1(b) == IF b + 1 >= TotalBlock THEN 0 ELSE b + 1

PushedNever(s, e) == s                                          \* mutant
PushedTwice(s, e) == IF s = e THEN Next1(Next1(s)) ELSE s       \* mutant
Pushed(s, e) == IF s = e THEN Next1(s) ELSE s

(* The position pair sound_init and sound_start_record make of a Status.   *)
Recovered(s) == IF s.start = s.end THEN [start |-> 0, end |-> 0]
                                   ELSE [start |-> s.start, end |-> s.end]

(* The blocks from position s up to position e of the ring.                *)
Span(s, e) == IF s < e THEN s .. (e - 1) ELSE (s .. TotalBlock - 1) \cup (0 .. e - 1)
-----------------------------------------------------------------------------
(* RAM after a reset, before sound_init: main has read the Status record.  *)
ResetRam ==
    /\ status' = fram /\ lost' = FALSE
    /\ fresh' = {}
    /\ sound_start' = 0 /\ sound_end' = 0 /\ heard' = FALSE
    /\ playingblock' = 0 /\ endblock' = 0 /\ i2s_mask' = FALSE
    /\ buffer' = NoBlock /\ half' = FALSE
    /\ sound_rec' = FALSE /\ sound_play' = FALSE
    /\ pdm_irq' = FALSE /\ i2s_irq' = FALSE
    /\ call_stop_play' = FALSE
    /\ hw_button' = [i \in Buttons |-> FALSE]
    /\ button' = [i \in Buttons |-> FALSE]
    /\ last_button' = [i \in Buttons |-> FALSE]
    /\ hw_slider' = 0 /\ volume' = 0 /\ last_volume' = 0
    /\ shown' = -1
    /\ pc' = "boot" /\ calls' = <<>> /\ btn_call' = <<>> /\ sld_call' = <<>>

Init ==
    /\ fram = [start |-> 0, end |-> 0, volume |-> 0]
    /\ status = fram /\ lost = FALSE
    /\ fresh = {}
    /\ sound_start = 0 /\ sound_end = 0 /\ heard = FALSE
    /\ playingblock = 0 /\ endblock = 0 /\ i2s_mask = FALSE
    /\ buffer = NoBlock /\ half = FALSE
    /\ sound_rec = FALSE /\ sound_play = FALSE
    /\ pdm_irq = FALSE /\ i2s_irq = FALSE
    /\ call_stop_play = FALSE
    /\ hw_button = [i \in Buttons |-> FALSE]
    /\ button = [i \in Buttons |-> FALSE]
    /\ last_button = [i \in Buttons |-> FALSE]
    /\ hw_slider = 0 /\ volume = 0 /\ last_volume = 0 /\ codec = 0
    /\ shown = -1
    /\ pc = "boot" /\ calls = <<>> /\ btn_call = <<>> /\ sld_call = <<>>

(* Power fails at any point: F-RAM keeps its contents, the registers of    *)
(* the codec (here, their value after reset is 0) and RAM do not.          *)
PowerLoss ==
    /\ ResetRam
    /\ codec' = 0
    /\ UNCHANGED fram
-----------------------------------------------------------------------------
(* hw_flipping_button, hw_set_button and hw_set_slider called by the main  *)
(* loop.  The test and the write of the hw_ value come first, then the     *)
(* display calls, then sound_button or sound_volume_slider: two steps.     *)
MidCall == btn_call # <<>> \/ sld_call # <<>>
Idle    == calls = <<>> /\ ~MidCall

Flip(id)   == [op |-> "flip", id |-> id, val |-> 0]
Off(id)    == [op |-> "off", id |-> id, val |-> 0]

CallsOffNone(i, j) == <<>>       \* mutant
CallsOffOne(i, j) == <<Off(j)>>  \* mutant
CallsOff(i, j) == <<Off(i), Off(j)>>

Slide(pos) == [op |-> "slide", id |-> 0, val |-> pos]

BeginButtonCall ==
    /\ ~MidCall /\ calls # <<>>
    /\ LET c  == Head(calls)
           on == c.op = "flip" /\ ~hw_button[c.id]
       IN  /\ c.op \in {"flip", "off"}
           /\ hw_button' = [hw_button EXCEPT ![c.id] = on]
           /\ btn_call' = IF hw_button[c.id] = on THEN <<>> ELSE <<c.id, on>>
    /\ calls' = Tail(calls)
    /\ UNCHANGED <<ringVars, playVars, buffer, half, sound_rec, sound_play,
                   irqVars, call_stop_play, savedVars, button, last_button,
                   sliderVars, volumeVars, shown, pc, sld_call>>

BeginSliderCall ==
    /\ ~MidCall /\ calls # <<>>
    /\ LET c == Head(calls)
       IN  /\ c.op = "slide"
           /\ hw_slider' = c.val
           /\ sld_call' = IF hw_slider = c.val THEN <<>> ELSE <<c.val>>
    /\ calls' = Tail(calls)
    /\ UNCHANGED <<ringVars, playVars, buffer, half, sound_rec, sound_play,
                   irqVars, call_stop_play, savedVars, buttonVars, last_button,
                   volume, volumeVars, shown, pc, btn_call>>

EndButtonCall ==
    /\ btn_call # <<>>
    /\ button' = [button EXCEPT ![btn_call[1]] = btn_call[2]]
    /\ btn_call' = <<>>
    /\ UNCHANGED <<ringVars, playVars, buffer, half, sound_rec, sound_play,
                   irqVars, call_stop_play, savedVars, hw_button, last_button,
                   sliderVars, volumeVars, shown, pc, calls, sld_call>>

EndSliderCall ==
    /\ sld_call # <<>>
    /\ volume' = sld_call[1]
    /\ sld_call' = <<>>
    /\ UNCHANGED <<ringVars, playVars, buffer, half, sound_rec, sound_play,
                   irqVars, call_stop_play, savedVars, buttonVars, last_button,
                   hw_slider, volumeVars, shown, pc, calls, btn_call>>
-----------------------------------------------------------------------------
(* sound_init, at the end of the start-up sequence.                        *)
RestoreNothing == UNCHANGED codec   \* mutant
RestoreVolume == codec' = status.volume

SoundInit ==
    /\ pc = "boot"
    /\ button' = [i \in Buttons |-> FALSE]
    /\ RestoreVolume
    /\ sound_start' = Recovered(status).start
    /\ sound_end' = Recovered(status).end
    /\ pc' = "scan"
    /\ UNCHANGED <<fresh, heard, playVars, buffer, half, sound_rec, sound_play,
                   irqVars, call_stop_play, savedVars, hw_button, last_button,
                   sliderVars, last_volume, shown, callVars>>

(* RunCapSenseScan: ProcessTouchStatus flips each button released since    *)
(* the last scan, button 0 first, then moves the slider.                   *)
Scan ==
    /\ pc = "scan" /\ Idle
    /\ \E ids \in SUBSET Buttons, moves \in {<<>>} \cup {<<p>> : p \in Sliders} :
          /\ calls' = (IF Play \in ids THEN <<Flip(Play)>> ELSE <<>>)
                      \o (IF Rec \in ids THEN <<Flip(Rec)>> ELSE <<>>)
                      \o (IF moves # <<>> THEN <<Slide(moves[1])>> ELSE <<>>)
    /\ pc' = "volume"
    /\ UNCHANGED <<ringVars, playVars, buffer, half, sound_rec, sound_play,
                   irqVars, call_stop_play, savedVars, buttonVars, last_button,
                   sliderVars, volumeVars, shown, btn_call, sld_call>>

(* fram_write_status, after its caller has set status.  An interrupt that  *)
(* uses the F-RAM in the middle of it makes it write nothing (FramBus).    *)
SaveStatus(pdm_on) ==
    \/ fram' = status' /\ lost' = FALSE
    \/ /\ pdm_on \/ (i2s_irq /\ i2s_mask)
       /\ lost' = TRUE
       /\ UNCHANGED fram

(* sound_update, first part: a new volume goes to the codec and to F-RAM.  *)
UpdateVolume ==
    /\ pc = "volume" /\ Idle
    /\ IF volume = last_volume
       THEN /\ pc' = "play"
            /\ UNCHANGED <<codec, savedVars>>
       ELSE /\ codec' = Atten(volume)
            /\ status' = [status EXCEPT !.volume = Atten(volume)]
            /\ SaveStatus(pdm_irq)
            /\ pc' = "latchVolume"
    /\ UNCHANGED <<ringVars, playVars, buffer, half, sound_rec, sound_play,
                   irqVars, call_stop_play, buttonVars, last_button,
                   sliderVars, last_volume, shown, callVars>>

LatchVolume ==
    /\ pc = "latchVolume"
    /\ last_volume' = volume
    /\ pc' = "play"
    /\ UNCHANGED <<ringVars, playVars, buffer, half, sound_rec, sound_play,
                   irqVars, call_stop_play, savedVars, buttonVars, last_button,
                   sliderVars, codec, shown, callVars>>

(* sound_start_playback and sound_stop_playback.  The former leaves `half` *)
(* as the last playback left it.                                           *)
StartPlayback ==
    /\ playingblock' = sound_start
    /\ endblock' = sound_end
    /\ i2s_mask' = TRUE /\ i2s_irq' = TRUE
    /\ sound_play' = TRUE

StopPlayback ==
    /\ i2s_irq' = FALSE
    /\ sound_play' = FALSE
    /\ UNCHANGED playVars

(* Second part: the play button changed.  With the rec button on, both are *)
(* switched off and the update ends; the next one sees the change.         *)
UpdatePlay ==
    /\ pc = "play"
    /\ \/ /\ button[Play] = last_button[Play]
          /\ pc' = "rec"
          /\ UNCHANGED <<playVars, i2s_irq, sound_play, calls>>
       \/ /\ button[Play] # last_button[Play] /\ button[Rec]
          /\ calls' = CallsOff(Rec, Play)
          /\ pc' = "delay"
          /\ UNCHANGED <<playVars, i2s_irq, sound_play>>
       \/ /\ button[Play] # last_button[Play] /\ ~button[Rec]
          /\ \/ button[Play] /\ ~sound_play /\ StartPlayback
             \/ ~button[Play] /\ sound_play /\ StopPlayback
             \/ button[Play] = sound_play /\ UNCHANGED <<playVars, i2s_irq, sound_play>>
          /\ pc' = "latchPlay"
          /\ UNCHANGED calls
    /\ UNCHANGED <<ringVars, buffer, half, sound_rec, pdm_irq, call_stop_play,
                   savedVars, buttonVars, last_button, sliderVars, volumeVars,
                   shown, btn_call, sld_call>>

LatchPlayMissing ==   \* mutant
    /\ pc = "latchPlay"
    /\ pc' = "rec"
    /\ UNCHANGED <<ringVars, playVars, buffer, half, sound_rec, sound_play,
                   irqVars, call_stop_play, savedVars, buttonVars, last_button,
                   sliderVars, volumeVars, shown, callVars>>

LatchPlay ==
    /\ pc = "latchPlay"
    /\ last_button' = [last_button EXCEPT ![Play] = button[Play]]
    /\ pc' = "rec"
    /\ UNCHANGED <<ringVars, playVars, buffer, half, sound_rec, sound_play,
                   irqVars, call_stop_play, savedVars, buttonVars, sliderVars,
                   volumeVars, shown, callVars>>

(* sound_start_record: one past the saved end, and one more, unwrapped.    *)
StartRecordAppending ==   \* mutant
    /\ sound_start' = Recovered(status).start
    /\ sound_end' = Recovered(status).end + 1
    /\ fresh' = {} /\ heard' = FALSE
    /\ pdm_irq' = TRUE
    /\ sound_rec' = TRUE
    /\ UNCHANGED savedVars

StartRecord ==
    LET e == Recovered(status).end
    IN  /\ sound_start' = e + 1
        /\ sound_end' = e + 2
        /\ fresh' = {} /\ heard' = FALSE
        /\ pdm_irq' = TRUE
        /\ sound_rec' = TRUE
        /\ UNCHANGED savedVars

(* sound_stop_record up to its call of hw_set_button.                      *)
StopRecordUnsaved ==   \* mutant
    /\ pdm_irq' = FALSE
    /\ status' = [status EXCEPT !.start = sound_start, !.end = sound_end]
    /\ UNCHANGED <<fram, lost, ringVars, sound_rec>>

StopRecordEndOnly ==   \* mutant
    /\ pdm_irq' = FALSE
    /\ status' = [status EXCEPT !.end = sound_end]
    /\ SaveStatus(FALSE)
    /\ UNCHANGED <<ringVars, sound_rec>>

StopRecord ==
    /\ pdm_irq' = FALSE
    /\ status' = [status EXCEPT !.start = sound_start, !.end = sound_end]
    /\ SaveStatus(FALSE)
    /\ UNCHANGED <<ringVars, sound_rec>>

(* Third part: the rec button changed.                                     *)
UpdateRec ==
    /\ pc = "rec"
    /\ \/ /\ button[Rec] = last_button[Rec]
          /\ pc' = "stopCheck"
          /\ UNCHANGED <<ringVars, savedVars, pdm_irq, sound_rec, calls>>
       \/ /\ button[Rec] # last_button[Rec] /\ button[Play]
          /\ calls' = CallsOff(Play, Rec)
          /\ pc' = "delay"
          /\ UNCHANGED <<ringVars, savedVars, pdm_irq, sound_rec>>
       \/ /\ button[Rec] # last_button[Rec] /\ ~button[Play]
          /\ \/ button[Rec] /\ ~sound_rec /\ StartRecord /\ pc' = "latchRec" /\ UNCHANGED calls
             \/ ~button[Rec] /\ sound_rec /\ StopRecord /\ pc' = "recStopped" /\ calls' = <<Off(Rec)>>
             \/ /\ button[Rec] = sound_rec
                /\ pc' = "latchRec"
                /\ UNCHANGED <<ringVars, savedVars, pdm_irq, sound_rec, calls>>
    /\ UNCHANGED <<playVars, buffer, half, sound_play, i2s_irq, call_stop_play,
                   buttonVars, last_button, sliderVars, volumeVars, shown,
                   btn_call, sld_call>>

(* The rest of sound_stop_record.                                          *)
RecStopped ==
    /\ pc = "recStopped" /\ Idle
    /\ sound_rec' = FALSE
    /\ pc' = "latchRec"
    /\ UNCHANGED <<ringVars, playVars, buffer, half, sound_play, irqVars,
                   call_stop_play, savedVars, buttonVars, last_button,
                   sliderVars, volumeVars, shown, callVars>>

LatchRec ==
    /\ pc = "latchRec"
    /\ last_button' = [last_button EXCEPT ![Rec] = button[Rec]]
    /\ pc' = "stopCheck"
    /\ UNCHANGED <<ringVars, playVars, buffer, half, sound_rec, sound_play,
                   irqVars, call_stop_play, savedVars, buttonVars, sliderVars,
                   volumeVars, shown, callVars>>

(* Fourth part: the I2S interrupt reached the end of the take.             *)
StopCallsNone == <<>>   \* mutant
StopCalls == IF call_stop_play /\ sound_play THEN <<Off(Play)>> ELSE <<>>

CheckStop ==
    /\ pc = "stopCheck"
    /\ calls' = StopCalls
    /\ pc' = IF call_stop_play THEN "clearStop" ELSE "display"
    /\ UNCHANGED <<ringVars, playVars, buffer, half, sound_rec, sound_play,
                   irqVars, call_stop_play, savedVars, buttonVars, last_button,
                   sliderVars, volumeVars, shown, btn_call, sld_call>>

ClearStop ==
    /\ pc = "clearStop" /\ Idle
    /\ call_stop_play' = FALSE
    /\ pc' = "display"
    /\ UNCHANGED <<ringVars, playVars, buffer, half, sound_rec, sound_play,
                   irqVars, savedVars, buttonVars, last_button, sliderVars,
                   volumeVars, shown, callVars>>

(* Last part: the length recorded, or left to play, on line 2.             *)
Length(s, e) == IF e < s THEN TotalBlock - s + e ELSE e - s

Display ==
    /\ pc = "display"
    /\ shown' = CASE sound_rec  -> Length(sound_start, sound_end) \div DisplayBlocks
                  [] sound_play /\ ~sound_rec -> Length(playingblock, endblock) \div DisplayBlocks
                  [] ~sound_play /\ ~sound_rec -> -1
    /\ pc' = "delay"
    /\ UNCHANGED <<ringVars, playVars, buffer, half, sound_rec, sound_play,
                   irqVars, call_stop_play, savedVars, buttonVars, last_button,
                   sliderVars, volumeVars, callVars>>

(* Cy_SysLib_Delay(LOOP_MS).  Its 20 ms are longer than the 8 ms in which  *)
(* the PDM FIFO collects 128 samples at 16 kHz, so a recording hears its   *)
(* first block before the next scan.                                       *)
FirstBlockHeard == pdm_irq => heard

Delay ==
    /\ pc = "delay" /\ Idle
    /\ FirstBlockHeard
    /\ pc' = "scan"
    /\ UNCHANGED <<ringVars, playVars, buffer, half, sound_rec, sound_play,
                   irqVars, call_stop_play, savedVars, buttonVars, last_button,
                   sliderVars, volumeVars, shown, callVars>>
-----------------------------------------------------------------------------
(* pdm_int: 128 samples into the buffer, the buffer into block sound_end.  *)
(* fram_write_sound takes 0..TotalBlock; the block at TotalBlock is past   *)
(* the ring and no read returns it.                                        *)
PdmInt ==
    /\ pdm_irq
    /\ buffer' = NoBlock
    /\ heard' = TRUE
    /\ fresh' = fresh \cup ({sound_end} \cap Blocks)
    /\ sound_end' = Next1(sound_end)
    /\ sound_start' = Pushed(sound_start, sound_end')
    /\ UNCHANGED <<playVars, half, sound_rec, sound_play, irqVars,
                   call_stop_play, savedVars, buttonVars, last_button,
                   sliderVars, volumeVars, shown, pc, callVars>>

(* i2s_int: half a block to the FIFO; fram_read_sound refuses a position   *)
(* outside the ring and leaves the buffer alone.                           *)
PastEnd(b) == b > endblock   \* mutant
AtEnd(b) == b = endblock

I2sInt ==
    /\ i2s_irq /\ i2s_mask
    /\ \/ /\ ~half
          /\ buffer' = IF playingblock \in Blocks THEN playingblock ELSE buffer
          /\ UNCHANGED <<playVars, call_stop_play>>
       \/ /\ half
          /\ playingblock' = Next1(playingblock)
          /\ IF AtEnd(playingblock')
             THEN i2s_mask' = FALSE /\ call_stop_play' = TRUE
             ELSE UNCHANGED <<i2s_mask, call_stop_play>>
          /\ UNCHANGED <<endblock, buffer>>
    /\ half' = ~half
    /\ UNCHANGED <<ringVars, sound_rec, sound_play, irqVars, savedVars,
                   buttonVars, last_button, sliderVars, volumeVars, shown, pc,
                   callVars>>

(* hw_aws_sync on the AWS thread, which runs to completion before the main *)
(* loop continues.  A map that holds a button never reaches the slider.    *)
Place == IF MidCall THEN "call" ELSE IF calls # <<>> THEN "between" ELSE pc

RemoteButtons ==
    /\ Place \in RemotePoints
    /\ \E ids \in SUBSET Buttons \ {{}} : \E on \in [ids -> BOOLEAN] :
          /\ hw_button' = [i \in Buttons |-> IF i \in ids THEN on[i] ELSE hw_button[i]]
          /\ button' = [i \in Buttons |->
                          IF i \in ids /\ on[i] # hw_button[i] THEN on[i] ELSE button[i]]
    /\ UNCHANGED <<ringVars, playVars, buffer, half, sound_rec, sound_play,
                   irqVars, call_stop_play, savedVars, last_button, sliderVars,
                   volumeVars, shown, pc, callVars>>

RemoteSlider ==
    /\ Place \in RemotePoints
    /\ \E p \in Sliders :
          /\ p # hw_slider
          /\ hw_slider' = p /\ volume' = p
    /\ UNCHANGED <<ringVars, playVars, buffer, half, sound_rec, sound_play,
                   irqVars, call_stop_play, savedVars, buttonVars, last_button,
                   volumeVars, shown, pc, callVars>>
-----------------------------------------------------------------------------
LoopStep ==
    \/ BeginButtonCall \/ BeginSliderCall \/ EndButtonCall \/ EndSliderCall
    \/ SoundInit \/ UpdateVolume \/ LatchVolume
    \/ UpdatePlay \/ LatchPlay \/ UpdateRec \/ RecStopped \/ LatchRec
    \/ CheckStop \/ ClearStop \/ Display

Loop == LoopStep \/ Scan \/ Delay

Next == Loop \/ PdmInt \/ I2sInt \/ RemoteButtons \/ RemoteSlider \/ PowerLoss

Spec == Init /\ [][Next]_vars

(* The main thread is scheduled and the enabled interrupts fire; nobody    *)
(* has to touch the device, send to it or switch it off.                   *)
Fairness == WF_vars(Loop) /\ WF_vars(PdmInt) /\ WF_vars(I2sInt)
-----------------------------------------------------------------------------
Calls == {Flip(i) : i \in Buttons} \cup {Off(i) : i \in Buttons}
         \cup {Slide(p) : p \in Sliders}

StatusType == [start : 0 .. TotalBlock, end : Blocks, volume : 0 .. 255]

SavedType == fram \in StatusType /\ status \in StatusType /\ lost \in BOOLEAN

RingType ==
    /\ fresh \subseteq Blocks
    /\ sound_start \in 0 .. TotalBlock
    /\ sound_end \in 0 .. TotalBlock + 1
    /\ heard \in BOOLEAN

PlayType ==
    /\ playingblock \in 0 .. TotalBlock
    /\ endblock \in Blocks
    /\ i2s_mask \in BOOLEAN

FlagType ==
    /\ buffer \in Blocks \cup {NoBlock}
    /\ half \in BOOLEAN /\ sound_rec \in BOOLEAN /\ sound_play \in BOOLEAN
    /\ pdm_irq \in BOOLEAN /\ i2s_irq \in BOOLEAN
    /\ call_stop_play \in BOOLEAN

ButtonType ==
    /\ hw_button \in [Buttons -> BOOLEAN]
    /\ button \in [Buttons -> BOOLEAN]
    /\ last_button \in [Buttons -> BOOLEAN]

VolumeType ==
    /\ hw_slider \in Sliders \cup {0}
    /\ volume \in Sliders \cup {0}
    /\ last_volume \in Sliders \cup {0}
    /\ codec \in 0 .. 255

LoopType == pc \in Places /\ shown \in Int

CallType ==
    /\ calls \in Seq(Calls)
    /\ btn_call \in {<<>>} \cup (Buttons \X BOOLEAN)
    /\ sld_call \in {<<>>} \cup {<<p>> : p \in Sliders}

(* Every variable has its type.  sound_start reaches one past the ring and *)
(* sound_end two past it, but what is saved or played ends in the ring.    *)
TypeOK ==
    /\ SavedType /\ RingType /\ PlayType /\ FlagType
    /\ ButtonType /\ VolumeType /\ LoopType /\ CallType

(* The interrupt is on exactly while a recording runs, but for the moment  *)
(* in which sound_stop_record ends it, and a recording is not stopped, nor *)
(* played from, before its first block: until then sound_end may be        *)
(* outside the ring, and no playback that ends there would end.            *)
RecordingPhases ==
    /\ pdm_irq => sound_rec
    /\ sound_rec /\ ~pdm_irq => pc = "recStopped"
    /\ pc = "recStopped" => ~pdm_irq
    /\ pdm_irq /\ ~heard =>
          pc \in {"latchRec", "stopCheck", "clearStop", "display", "delay"}
    /\ ~pdm_irq \/ heard => sound_end \in Blocks
    /\ pc = "boot" => ~sound_rec

(* A recording is never empty and never full to the point of looking empty:*)
(* pdm_int pushes the start on before the end can meet it, so the pair     *)
(* sound_init and sound_start_record read as "nothing recorded" is never   *)
(* left by a take.                                                         *)
NeverEmptyWhileRecording == sound_rec => sound_start # sound_end

(* When nothing is being recorded, the positions in RAM are the ones the   *)
(* Status record in F-RAM restores: a power loss changes what is played by *)
(* nothing at all, unless a playback disturbed the last save.              *)
(* sound_stop_record must save before it reports the end.                  *)
RestartTransparent ==
    (~sound_rec /\ pc # "boot" /\ ~lost) =>
        Recovered(fram) = [start |-> sound_start, end |-> sound_end]

(* Whatever playback reaches was recorded by the latest take, but for the  *)
(* block sound_start itself (sound_start_record begins to write one past   *)
(* it): pdm_int moves both positions with the block it writes.             *)
TakeIsContiguous ==
    heard => Span(sound_start, sound_end) \cap Blocks \subseteq fresh \cup {sound_start}

(* A recording as long as the ring loses its oldest blocks only: all that  *)
(* was recorded is between the positions, except the block to be           *)
(* overwritten next.  It is stated for a start inside the ring: a take     *)
(* that follows one that ended in the last block starts one past it.       *)
KeepsLatest ==
    (heard /\ sound_start \in Blocks) =>
        fresh \subseteq Span(sound_start, sound_end) \cup {sound_end}

(* At the top of the loop the last_ flags of sound_update say what the     *)
(* machine does, so the next change of a button is seen: a flag that got   *)
(* out of step would swallow a touch.                                      *)
FlagsFollow ==
    pc = "scan" => last_button = [i \in Buttons |-> IF i = Play THEN sound_play ELSE sound_rec]

(* A volume is heard and saved in the loop that sees it: the codec, the    *)
(* F-RAM and last_volume agree with the slider, so a restart sounds alike, *)
(* unless an interrupt disturbed the last save.                            *)
VolumeSaved ==
    /\ pc # "boot" /\ ~lost => codec = fram.volume
    /\ pc = "display" =>
          last_volume = volume /\ (volume # 0 => codec = Atten(volume))

(* A playback left alone reaches the end of the take, or is stopped: the   *)
(* codec is never fed from the ring for ever.                              *)
PlaybackEnds == (sound_play /\ i2s_mask) ~> ~(sound_play /\ i2s_mask)

(* The refinement of TakeStore: before sound_init the positions to be used *)
(* are the saved ones, and the take is committed when pdm_int is off.      *)
Takes == INSTANCE TakeStore WITH
    Positions <- [start : 0 .. TotalBlock, end : 0 .. TotalBlock + 1],
    saved     <- Recovered(fram),
    kept      <- Recovered(status),
    live      <- IF pc = "boot" THEN Recovered(fram)
                 ELSE [start |-> sound_start, end |-> sound_end],
    recording <- pdm_irq

(* sound.cpp keeps the promise of TakeStore: a take is committed as a      *)
(* whole when it is stopped or at a later save, or not at all.             *)
TakesCommitted == Takes!Spec
=============================================================================
