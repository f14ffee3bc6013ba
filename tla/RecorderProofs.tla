--------------------------- MODULE RecorderProofs ---------------------------
(***************************************************************************)
(* What TLAPS proves of Recorder, for a ring of any size, any slider       *)
(* positions and an AWS thread that preempts anywhere; and, behind the     *)
(* line, of RecorderInputs: sound_update follows the buttons and the       *)
(* slider, provided that the AWS thread does not preempt the main loop in  *)
(* the places that each theorem names.                                     *)
(***************************************************************************)
EXTENDS RecorderInputs, TLAPS, SequenceTheorems

LEMMA AttenRange == ASSUME NEW v \in Nat PROVE Atten(v) \in 0 .. 255
  BY DEF Atten

LEMMA RecoveredRange ==
  ASSUME NEW s \in StatusType
  PROVE  Recovered(s).start \in 0 .. TotalBlock /\ Recovered(s).end \in Blocks
  BY TotalBlockAssumption DEF Recovered, StatusType, Blocks

LEMMA CallSeqs ==
  /\ <<>> \in Seq(Calls)
  /\ \A i \in Buttons : <<Flip(i)>> \in Seq(Calls) /\ <<Off(i)>> \in Seq(Calls)
  /\ \A p \in Sliders : <<Slide(p)>> \in Seq(Calls)
  /\ \A i, j \in Buttons : <<Off(i), Off(j)>> \in Seq(Calls)
  /\ \A s, t \in Seq(Calls) : s \o t \in Seq(Calls)
  BY DEF Calls

LEMMA TailOfCalls ==
  ASSUME NEW s \in Seq(Calls), s # <<>>
  PROVE  Head(s) \in Calls /\ Tail(s) \in Seq(Calls)
  OBVIOUS

(* What a step leaves alone keeps its type.                                *)
LEMMA Frame ==
  /\ SavedType /\ UNCHANGED savedVars => SavedType'
  /\ RingType /\ UNCHANGED ringVars => RingType'
  /\ PlayType /\ UNCHANGED playVars => PlayType'
  /\ FlagType /\ UNCHANGED <<buffer, half, sound_rec, sound_play, irqVars,
                             call_stop_play>> => FlagType'
  /\ ButtonType /\ UNCHANGED <<buttonVars, last_button>> => ButtonType'
  /\ VolumeType /\ UNCHANGED <<sliderVars, volumeVars>> => VolumeType'
  /\ LoopType /\ UNCHANGED <<pc, shown>> => LoopType'
  /\ CallType /\ UNCHANGED callVars => CallType'
  BY DEF SavedType, RingType, PlayType, FlagType, ButtonType, VolumeType,
         LoopType, CallType, savedVars, ringVars, playVars, irqVars,
         buttonVars, sliderVars, volumeVars, callVars

LEMMA TypeStep == ASSUME TypeOK, RecordingPhases, [Next]_vars PROVE TypeOK'
<1> USE TotalBlockAssumption, DisplayAssumption, SlidersAssumption
<1> USE DEF TypeOK, Blocks, Buttons, Play, Rec, NoBlock
<1>1. CASE BeginButtonCall
  <2>1. SavedType' /\ RingType' /\ PlayType' /\ FlagType' /\ VolumeType' /\ LoopType'
    BY <1>1, Frame DEF BeginButtonCall
  <2>2. ButtonType'
    BY <1>1, TailOfCalls DEF BeginButtonCall, MidCall, ButtonType, buttonVars,
       Calls, Flip, Off, Slide, CallType
  <2>3. CallType'
    <3>1. calls' \in Seq(Calls) /\ sld_call' \in {<<>>} \cup {<<p>> : p \in Sliders}
      BY <1>1, TailOfCalls DEF BeginButtonCall, CallType
    <3>2. Head(calls).op \in {"flip", "off"} => Head(calls).id \in Buttons
      BY <1>1, TailOfCalls DEF BeginButtonCall, CallType, Calls, Flip, Off,
         Slide
    <3>3. btn_call' \in {<<>>} \cup (Buttons \X BOOLEAN)
      BY <1>1, <3>2, Zenon DEF BeginButtonCall
    <3> QED
      BY <3>1, <3>3 DEF CallType
  <2> QED
    BY <2>1, <2>2, <2>3
<1>2. CASE BeginSliderCall
  <2>1. SavedType' /\ RingType' /\ PlayType' /\ FlagType' /\ ButtonType' /\ LoopType'
    BY <1>2, Frame DEF BeginSliderCall
  <2>2. VolumeType'
    BY <1>2, TailOfCalls DEF BeginSliderCall, MidCall, VolumeType, sliderVars,
       volumeVars, Calls, Flip, Off, Slide, CallType
  <2>3. CallType'
    <3>1. calls' \in Seq(Calls) /\ btn_call' \in {<<>>} \cup (Buttons \X BOOLEAN)
      BY <1>2, TailOfCalls DEF BeginSliderCall, CallType
    <3>2. Head(calls).op = "slide" => Head(calls).val \in Sliders
      BY <1>2, TailOfCalls DEF BeginSliderCall, CallType, Calls, Flip, Off,
         Slide
    <3>3. sld_call' \in {<<>>} \cup {<<p>> : p \in Sliders}
      BY <1>2, <3>2, Zenon DEF BeginSliderCall
    <3> QED
      BY <3>1, <3>3 DEF CallType
  <2> QED
    BY <2>1, <2>2, <2>3
<1>3. CASE EndButtonCall
  <2>1. SavedType' /\ RingType' /\ PlayType' /\ FlagType' /\ VolumeType' /\ LoopType'
    BY <1>3, Frame DEF EndButtonCall
  <2>2. ButtonType'
    BY <1>3 DEF EndButtonCall, ButtonType, buttonVars, CallType
  <2>3. CallType'
    BY <1>3 DEF EndButtonCall, CallType, callVars
  <2> QED
    BY <2>1, <2>2, <2>3
<1>4. CASE EndSliderCall
  <2>1. SavedType' /\ RingType' /\ PlayType' /\ FlagType' /\ ButtonType' /\ LoopType'
    BY <1>4, Frame DEF EndSliderCall
  <2>2. VolumeType'
    BY <1>4 DEF EndSliderCall, VolumeType, sliderVars, volumeVars, CallType
  <2>3. CallType'
    BY <1>4 DEF EndSliderCall, CallType, callVars
  <2> QED
    BY <2>1, <2>2, <2>3
<1>5. CASE SoundInit
  <2>1. SavedType' /\ PlayType' /\ FlagType' /\ CallType'
    BY <1>5, Frame DEF SoundInit
  <2>2. RingType'
    BY <1>5, RecoveredRange DEF SoundInit, RestoreVolume, SavedType,
       StatusType, RingType, ringVars
  <2>3. ButtonType'
    BY <1>5 DEF SoundInit, RestoreVolume, SavedType, StatusType, ButtonType,
       buttonVars
  <2>4. VolumeType'
    BY <1>5 DEF SoundInit, RestoreVolume, SavedType, StatusType, VolumeType,
       sliderVars, volumeVars
  <2>5. LoopType'
    BY <1>5 DEF SoundInit, RestoreVolume, SavedType, StatusType, LoopType,
       Places
  <2> QED
    BY <2>1, <2>2, <2>3, <2>4, <2>5
<1>6. CASE Scan
  <2>1. SavedType' /\ RingType' /\ PlayType' /\ FlagType' /\ ButtonType' /\ VolumeType'
    BY <1>6, Frame DEF Scan
  <2>2. LoopType'
    BY <1>6 DEF Scan, CallsOff, LoopType, Places
  <2>3. CallType'
    BY <1>6, CallSeqs DEF Scan, CallsOff, CallType, callVars
  <2> QED
    BY <2>1, <2>2, <2>3
<1>7. CASE UpdateVolume
  <2>1. RingType' /\ PlayType' /\ FlagType' /\ ButtonType' /\ CallType'
    BY <1>7, Frame DEF UpdateVolume
  <2>2. SavedType'
    <3>1. status' \in StatusType
      BY <1>7, AttenRange DEF UpdateVolume, StatusType, SavedType, savedVars,
         VolumeType
    <3>2. fram' \in {fram, status'} /\ lost' \in {lost, TRUE, FALSE}
      BY <1>7 DEF UpdateVolume, SaveStatus, savedVars
    <3> QED
      BY <3>1, <3>2 DEF SavedType
  <2>3. VolumeType'
    BY <1>7, AttenRange DEF UpdateVolume, StatusType, VolumeType, sliderVars,
       volumeVars
  <2>4. LoopType'
    BY <1>7 DEF UpdateVolume, StatusType, LoopType, Places
  <2> QED
    BY <2>1, <2>2, <2>3, <2>4
<1>8. CASE LatchVolume
  <2>1. SavedType' /\ RingType' /\ PlayType' /\ FlagType' /\ ButtonType' /\ CallType'
    BY <1>8, Frame DEF LatchVolume
  <2>2. VolumeType'
    BY <1>8 DEF LatchVolume, VolumeType, sliderVars, volumeVars
  <2>3. LoopType'
    BY <1>8 DEF LatchVolume, LoopType, Places
  <2> QED
    BY <2>1, <2>2, <2>3
<1>9. CASE UpdatePlay
  <2>1. SavedType' /\ RingType' /\ ButtonType' /\ VolumeType'
    BY <1>9, Frame DEF UpdatePlay
  <2>2. PlayType'
    <3>1. pdm_irq => heard
      BY <1>9 DEF UpdatePlay, RecordingPhases
    <3>2. sound_end \in Blocks /\ sound_start \in 0 .. TotalBlock
      BY <3>1 DEF RecordingPhases, RingType, FlagType
    <3>3. CASE UNCHANGED playVars
      BY <3>3, Frame
    <3>4. CASE StartPlayback
      BY <3>2, <3>4 DEF StartPlayback, PlayType
    <3> QED
      BY <1>9, <3>3, <3>4 DEF UpdatePlay, StopPlayback
  <2>3. FlagType'
    <3>1. /\ i2s_irq' \in {i2s_irq, TRUE, FALSE}
          /\ sound_play' \in {sound_play, TRUE, FALSE}
      BY <1>9 DEF UpdatePlay, StartPlayback, StopPlayback
    <3> QED
      BY <1>9, <3>1 DEF UpdatePlay, FlagType
  <2>4. LoopType'
    BY <1>9 DEF UpdatePlay, CallsOff, LoopType, Places
  <2>5. CallType'
    BY <1>9, CallSeqs DEF UpdatePlay, CallsOff, CallType, callVars
  <2> QED
    BY <2>1, <2>2, <2>3, <2>4, <2>5
<1>10. CASE LatchPlay
  <2>1. SavedType' /\ RingType' /\ PlayType' /\ FlagType' /\ VolumeType' /\ CallType'
    BY <1>10, Frame DEF LatchPlay
  <2>2. ButtonType'
    BY <1>10 DEF LatchPlay, ButtonType, buttonVars
  <2>3. LoopType'
    BY <1>10 DEF LatchPlay, LoopType, Places
  <2> QED
    BY <2>1, <2>2, <2>3
<1>11. CASE UpdateRec
  <2>1. PlayType' /\ ButtonType' /\ VolumeType'
    BY <1>11, Frame DEF UpdateRec, StartRecord, StopRecord
  <2>2. RingType'
    <3>1. CASE UNCHANGED ringVars
      BY <3>1, Frame
    <3>2. CASE StartRecord
      <4>1. Recovered(status).end \in Blocks
        BY RecoveredRange DEF SavedType
      <4>2. /\ sound_start' = Recovered(status).end + 1
            /\ sound_end' = Recovered(status).end + 2
            /\ fresh' = {} /\ heard' = FALSE
        BY <3>2 DEF StartRecord
      <4>3. sound_start' \in 0 .. TotalBlock /\ sound_end' \in 0 .. TotalBlock + 1
        BY <4>1, <4>2
      <4> QED
        BY <4>2, <4>3 DEF RingType
    <3> QED
      BY <1>11, <3>1, <3>2 DEF UpdateRec, StopRecord
  <2>3. SavedType'
    <3>1. CASE StopRecord /\ sound_rec
      <4>1. sound_end \in Blocks
        BY <1>11, <3>1 DEF UpdateRec, RecordingPhases
      <4> QED
        <5>1. status' \in StatusType
          BY <3>1, <4>1 DEF StopRecord, SavedType, StatusType, RingType
        <5>2. fram' \in {fram, status'} /\ lost' \in BOOLEAN
          BY <3>1 DEF StopRecord, SaveStatus
        <5> QED
          BY <5>1, <5>2 DEF SavedType
    <3>2. CASE UNCHANGED savedVars
      BY <3>2, Frame
    <3> QED
      BY <1>11, <3>1, <3>2 DEF UpdateRec, StartRecord
  <2>4. FlagType'
    <3>1. /\ pdm_irq' \in {pdm_irq, TRUE, FALSE}
          /\ sound_rec' \in {sound_rec, TRUE}
      BY <1>11 DEF UpdateRec, StartRecord, StopRecord
    <3> QED
      BY <1>11, <3>1 DEF UpdateRec, FlagType
  <2>5. LoopType'
    BY <1>11 DEF UpdateRec, CallsOff, LoopType, Places
  <2>6. CallType'
    BY <1>11, CallSeqs DEF UpdateRec, CallsOff, CallType, callVars
  <2> QED
    BY <2>1, <2>2, <2>3, <2>4, <2>5, <2>6
<1>12. CASE RecStopped
  <2>1. SavedType' /\ RingType' /\ PlayType' /\ ButtonType' /\ VolumeType' /\ CallType'
    BY <1>12, Frame DEF RecStopped
  <2>2. FlagType'
    BY <1>12 DEF RecStopped, FlagType, irqVars
  <2>3. LoopType'
    BY <1>12 DEF RecStopped, LoopType, Places
  <2> QED
    BY <2>1, <2>2, <2>3
<1>13. CASE LatchRec
  <2>1. SavedType' /\ RingType' /\ PlayType' /\ FlagType' /\ VolumeType' /\ CallType'
    BY <1>13, Frame DEF LatchRec
  <2>2. ButtonType'
    BY <1>13 DEF LatchRec, ButtonType, buttonVars
  <2>3. LoopType'
    BY <1>13 DEF LatchRec, LoopType, Places
  <2> QED
    BY <2>1, <2>2, <2>3
<1>14. CASE CheckStop
  <2>1. SavedType' /\ RingType' /\ PlayType' /\ FlagType' /\ ButtonType' /\ VolumeType'
    BY <1>14, Frame DEF CheckStop
  <2>2. LoopType'
    BY <1>14 DEF CheckStop, StopCalls, LoopType, Places
  <2>3. CallType'
    BY <1>14, CallSeqs DEF CheckStop, StopCalls, CallType, callVars
  <2> QED
    BY <2>1, <2>2, <2>3
<1>15. CASE ClearStop
  <2>1. SavedType' /\ RingType' /\ PlayType' /\ ButtonType' /\ VolumeType' /\ CallType'
    BY <1>15, Frame DEF ClearStop
  <2>2. FlagType'
    BY <1>15 DEF ClearStop, FlagType, irqVars
  <2>3. LoopType'
    BY <1>15 DEF ClearStop, LoopType, Places
  <2> QED
    BY <2>1, <2>2, <2>3
<1>16. CASE Display
  <2>1. SavedType' /\ RingType' /\ PlayType' /\ FlagType' /\ ButtonType' /\ VolumeType' /\ CallType'
    BY <1>16, Frame DEF Display
  <2>2. LoopType'
    BY <1>16 DEF Display, Length, RingType, PlayType, LoopType, Places
  <2> QED
    BY <2>1, <2>2
<1>17. CASE Delay
  <2>1. SavedType' /\ RingType' /\ PlayType' /\ FlagType' /\ ButtonType' /\ VolumeType' /\ CallType'
    BY <1>17, Frame DEF Delay
  <2>2. LoopType'
    BY <1>17 DEF Delay, LoopType, Places
  <2> QED
    BY <2>1, <2>2
<1>18. CASE PdmInt
  <2>1. SavedType' /\ PlayType' /\ ButtonType' /\ VolumeType' /\ LoopType' /\ CallType'
    BY <1>18, Frame DEF PdmInt
  <2>2. RingType'
    BY <1>18 DEF PdmInt, Pushed, Next1, RingType, ringVars
  <2>3. FlagType'
    BY <1>18 DEF PdmInt, Pushed, Next1, FlagType, irqVars
  <2> QED
    BY <2>1, <2>2, <2>3
<1>19. CASE I2sInt
  <2>1. SavedType' /\ RingType' /\ ButtonType' /\ VolumeType' /\ LoopType' /\ CallType'
    BY <1>19, Frame DEF I2sInt
  <2>2. PlayType'
    <3>1. endblock' = endblock /\ playingblock' \in {playingblock, Next1(playingblock)}
      BY <1>19 DEF I2sInt, AtEnd, playVars
    <3>2. i2s_mask' \in {i2s_mask, FALSE}
      BY <1>19 DEF I2sInt, AtEnd, playVars
    <3>3. Next1(playingblock) \in 0 .. TotalBlock
      BY DEF Next1, PlayType
    <3>4. i2s_mask' \in BOOLEAN
      BY <3>2 DEF PlayType
    <3> QED
      BY <3>1, <3>3, <3>4 DEF PlayType
  <2>3. FlagType'
    <3>1. /\ call_stop_play' \in {call_stop_play, TRUE}
          /\ buffer' \in Blocks \cup {buffer}
      BY <1>19 DEF I2sInt, AtEnd
    <3> QED
      BY <1>19, <3>1 DEF I2sInt, FlagType, irqVars
  <2> QED
    BY <2>1, <2>2, <2>3
<1>20. CASE RemoteButtons
  <2>1. SavedType' /\ RingType' /\ PlayType' /\ FlagType' /\ VolumeType' /\ LoopType' /\ CallType'
    BY <1>20, Frame DEF RemoteButtons
  <2>2. ButtonType'
    BY <1>20 DEF RemoteButtons, ButtonType, buttonVars
  <2> QED
    BY <2>1, <2>2
<1>21. CASE RemoteSlider
  <2>1. SavedType' /\ RingType' /\ PlayType' /\ FlagType' /\ ButtonType' /\ LoopType' /\ CallType'
    BY <1>21, Frame DEF RemoteSlider
  <2>2. VolumeType'
    BY <1>21 DEF RemoteSlider, VolumeType, sliderVars, volumeVars
  <2> QED
    BY <2>1, <2>2
<1>22. CASE PowerLoss
  <2>1. SavedType'
    BY <1>22 DEF PowerLoss, ResetRam, SavedType, savedVars, StatusType
  <2>2. RingType'
    <3>1. /\ fresh' = {} /\ heard' = FALSE
          /\ sound_start' = 0 /\ sound_end' = 0
      BY <1>22 DEF PowerLoss, ResetRam
    <3>2. sound_start' \in 0 .. TotalBlock /\ sound_end' \in 0 .. TotalBlock + 1
      BY <3>1
    <3> QED
      BY <3>1, <3>2 DEF RingType
  <2>3. PlayType'
    BY <1>22 DEF PowerLoss, ResetRam, PlayType, playVars
  <2>4. FlagType'
    BY <1>22 DEF PowerLoss, ResetRam, FlagType, irqVars
  <2>5. ButtonType'
    BY <1>22 DEF PowerLoss, ResetRam, ButtonType, buttonVars
  <2>6. VolumeType'
    BY <1>22 DEF PowerLoss, ResetRam, VolumeType, sliderVars, volumeVars
  <2>7. LoopType'
    BY <1>22 DEF PowerLoss, ResetRam, LoopType, Places
  <2>8. CallType'
    BY <1>22, CallSeqs DEF PowerLoss, ResetRam, CallType, callVars
  <2> QED
    BY <2>1, <2>2, <2>3, <2>4, <2>5, <2>6, <2>7, <2>8
<1>23. CASE UNCHANGED vars
  BY <1>23, Frame DEF vars
<1> QED
  BY <1>1, <1>2, <1>3, <1>4, <1>5, <1>6, <1>7, <1>8, <1>9, <1>10, <1>11, <1>12,
     <1>13, <1>14, <1>15, <1>16, <1>17, <1>18, <1>19, <1>20, <1>21, <1>22,
     <1>23
     DEF Next, Loop, LoopStep

LEMMA PhasesStep ==
  ASSUME TypeOK, RecordingPhases, [Next]_vars PROVE RecordingPhases'
<1> USE TotalBlockAssumption
<1> USE DEF TypeOK, RecordingPhases, Blocks
<1>1. CASE SoundInit
  <2>1. Recovered(status).end \in Blocks
    BY RecoveredRange DEF SavedType
  <2> QED
    BY <1>1, <2>1 DEF SoundInit, irqVars
<1>2. CASE UpdateRec
  <2>1. CASE StartRecord /\ pc' = "latchRec"
    BY <2>1 DEF StartRecord
  <2>2. CASE StopRecord /\ sound_rec /\ pc' = "recStopped"
    BY <1>2, <2>2 DEF UpdateRec, StopRecord, ringVars
  <2>3. CASE /\ UNCHANGED <<ringVars, savedVars, pdm_irq, sound_rec>>
             /\ pc' \in {"stopCheck", "delay", "latchRec"}
    BY <1>2, <2>3 DEF UpdateRec, ringVars
  <2> QED
    BY <1>2, <2>1, <2>2, <2>3 DEF UpdateRec
<1>3. CASE RecStopped
  BY <1>3 DEF RecStopped, ringVars, irqVars
<1>4. CASE PdmInt
  BY <1>4 DEF PdmInt, Pushed, Next1, irqVars, RingType
<1>5. CASE PowerLoss
  BY <1>5 DEF PowerLoss, ResetRam
<1>6. CASE Delay
  BY <1>6 DEF Delay, FirstBlockHeard, ringVars, irqVars
<1>7. CASE \/ BeginButtonCall \/ BeginSliderCall \/ EndButtonCall
           \/ EndSliderCall \/ I2sInt \/ RemoteButtons \/ RemoteSlider
           \/ UNCHANGED vars
  BY <1>7 DEF BeginButtonCall, BeginSliderCall, EndButtonCall, EndSliderCall,
     I2sInt, RemoteButtons, RemoteSlider, vars, ringVars, irqVars
<1>8. CASE Scan \/ UpdateVolume \/ LatchVolume
  BY <1>8 DEF Scan, UpdateVolume, LatchVolume, ringVars, irqVars
<1>9. CASE UpdatePlay \/ LatchPlay
  BY <1>9 DEF UpdatePlay, LatchPlay, ringVars, irqVars
<1>10. CASE LatchRec \/ CheckStop \/ ClearStop \/ Display
  BY <1>10 DEF LatchRec, CheckStop, ClearStop, Display, ringVars, irqVars
<1> QED
  BY <1>1, <1>2, <1>3, <1>4, <1>5, <1>6, <1>7, <1>8, <1>9, <1>10
     DEF Next, Loop, LoopStep

(* What ties the positions in RAM to the saved ones.                       *)
Positions ==
  /\ ~lost => status = fram
  /\ pc = "boot" => ~lost
  /\ NeverEmptyWhileRecording
  /\ (~pdm_irq /\ pc # "boot") =>
        Recovered(status) = [start |-> sound_start, end |-> sound_end]

LEMMA PositionsStep ==
  ASSUME TypeOK, RecordingPhases, Positions, [Next]_vars PROVE Positions'
<1> USE TotalBlockAssumption
<1> USE DEF TypeOK, Positions, NeverEmptyWhileRecording
<1>1. CASE SoundInit
  BY <1>1 DEF SoundInit, savedVars, irqVars, RecordingPhases,
     Recovered
<1>2. CASE UpdateVolume
  BY <1>2 DEF UpdateVolume, SaveStatus, ringVars, irqVars, savedVars, Recovered,
     SavedType, StatusType
<1>3. CASE UpdateRec
  <2>1. CASE StartRecord /\ pc' = "latchRec"
    <3>1. Recovered(status).end \in Blocks
      BY RecoveredRange DEF SavedType
    <3>2. /\ sound_start' = Recovered(status).end + 1
          /\ sound_end' = Recovered(status).end + 2
      BY <2>1 DEF StartRecord
    <3>3. sound_start' # sound_end'
      BY <3>1, <3>2 DEF Blocks
    <3> QED
      BY <2>1, <3>3 DEF StartRecord, savedVars
  <2>2. CASE StopRecord /\ sound_rec
    <3>1. /\ sound_start # sound_end
          /\ status'.start = sound_start /\ status'.end = sound_end
      BY <2>2 DEF StopRecord, SavedType, StatusType
    <3>2. Recovered(status') = [start |-> sound_start, end |-> sound_end]
      BY <3>1 DEF Recovered
    <3>3. (~lost' => status' = fram') /\ pc' # "boot"
      BY <1>3, <2>2 DEF UpdateRec, StopRecord, SaveStatus
    <3> QED
      BY <2>2, <3>1, <3>2, <3>3 DEF StopRecord, ringVars
  <2>3. CASE UNCHANGED <<ringVars, savedVars, pdm_irq, sound_rec>>
    BY <1>3, <2>3 DEF UpdateRec, ringVars, savedVars
  <2> QED
    BY <1>3, <2>1, <2>2, <2>3 DEF UpdateRec
<1>4. CASE RecStopped
  BY <1>4 DEF RecStopped, ringVars, savedVars, irqVars
<1>5. CASE PdmInt
  BY <1>5 DEF PdmInt, Pushed, Next1, savedVars, irqVars, RingType
<1>6. CASE PowerLoss
  BY <1>6 DEF PowerLoss, ResetRam
<1>7. CASE \/ BeginButtonCall \/ BeginSliderCall \/ EndButtonCall
           \/ EndSliderCall \/ I2sInt \/ RemoteButtons \/ RemoteSlider
           \/ UNCHANGED vars
  BY <1>7 DEF BeginButtonCall, BeginSliderCall, EndButtonCall, EndSliderCall,
     I2sInt, RemoteButtons, RemoteSlider, vars, ringVars, savedVars, irqVars
<1>8. CASE Scan \/ LatchVolume \/ UpdatePlay \/ LatchPlay
  BY <1>8 DEF Scan, LatchVolume, UpdatePlay, LatchPlay, ringVars, savedVars,
     irqVars
<1>9. CASE LatchRec \/ CheckStop \/ ClearStop \/ Display \/ Delay
  BY <1>9 DEF LatchRec, CheckStop, ClearStop, Display, Delay, ringVars,
     savedVars,
     irqVars
<1> QED
  BY <1>1, <1>2, <1>3, <1>4, <1>5, <1>6, <1>7, <1>8, <1>9
     DEF Next, Loop, LoopStep

IInv == TypeOK /\ RecordingPhases /\ Positions

LEMMA Inductive == Spec => []IInv
<1>1. Init => IInv
  <2> SUFFICES ASSUME Init PROVE IInv
    OBVIOUS
  <2> USE TotalBlockAssumption
  <2> USE DEF Init, Blocks, Buttons, NoBlock
  <2>1. SavedType /\ RingType /\ PlayType /\ FlagType
    BY DEF SavedType, StatusType, RingType, PlayType, FlagType
  <2>2. ButtonType /\ VolumeType /\ LoopType
    BY DEF ButtonType, VolumeType, LoopType, Places
  <2>3. CallType
    BY CallSeqs DEF CallType
  <2>4. RecordingPhases /\ Positions
    BY DEF RecordingPhases, Positions, NeverEmptyWhileRecording
  <2> QED
    BY <2>1, <2>2, <2>3, <2>4 DEF IInv, TypeOK
<1>2. IInv /\ [Next]_vars => IInv'
  BY TypeStep, PhasesStep, PositionsStep DEF IInv
<1> QED
  BY <1>1, <1>2, PTL DEF Spec

(* Type correctness: the positions never leave their bounds, whoever       *)
(* preempts whom.                                                          *)
THEOREM TypeInvariant == Spec => []TypeOK
  BY Inductive, PTL DEF IInv

(* No recording is stopped before its first block, so that every playback  *)
(* has an end inside the ring to come to (sound_stop_record, LOOP_MS).     *)
THEOREM PhasesInvariant == Spec => []RecordingPhases
  BY Inductive, PTL DEF IInv

(* pdm_int never lets a recording look empty.                              *)
THEOREM NeverEmpty == Spec => []NeverEmptyWhileRecording
  BY Inductive, PTL DEF IInv, Positions

(* What is played after a power loss is what would have been played before *)
(* it, but for a recording in progress.                                    *)
THEOREM Restart == Spec => []RestartTransparent
<1>1. IInv => RestartTransparent
  BY DEF IInv, RecordingPhases, Positions, RestartTransparent
<1> QED
  BY <1>1, Inductive, PTL

-----------------------------------------------------------------------------
(* One step of pdm_int on the positions: the positions delimit the blocks  *)
(* they delimited before and the block just written, less one at the start *)
(* when the ring is full.                                                  *)
LEMMA SpanStep ==
  ASSUME NEW s \in 0 .. TotalBlock, NEW e \in 0 .. TotalBlock + 1, s # e,
         NEW b \in Blocks
  PROVE  LET e2 == Next1(e)
             s2 == Pushed(s, e2)
         IN  /\ b \in Span(s2, e2) => b \in Span(s, e) \cup {e}
             /\ b \in Span(s2, e2) => b # s \/ s2 = s
             /\ (b \in Span(s, e) \cup {e} /\ s \in Blocks /\ e \in Blocks) =>
                   b \in Span(s2, e2) \cup {e2}
  BY TotalBlockAssumption DEF Span, Pushed, Next1, Blocks

(* The ring and the blocks of the latest take.                             *)
RingHistory ==
  /\ (heard \/ pdm_irq) =>
        Span(sound_start, sound_end) \cap Blocks \subseteq fresh \cup {sound_start}
  /\ ~heard => fresh = {}
  /\ pc = "boot" => ~heard /\ ~pdm_irq
  /\ KeepsLatest

LEMMA RingHistoryStep ==
  ASSUME IInv, RingHistory, [Next]_vars PROVE RingHistory'
<1> USE TotalBlockAssumption
<1> USE DEF IInv, TypeOK, RingHistory, KeepsLatest
<1>1. CASE SoundInit
  BY <1>1 DEF SoundInit, irqVars
<1>2. CASE UpdateRec
  <2>1. CASE StartRecord /\ pc' = "latchRec"
    <3>1. Recovered(status).end \in Blocks
      BY RecoveredRange DEF SavedType
    <3>2. /\ sound_start' = Recovered(status).end + 1
          /\ sound_end' = Recovered(status).end + 2
          /\ heard' = FALSE /\ fresh' = {}
      BY <2>1 DEF StartRecord
    <3>3. Span(sound_start', sound_end') \subseteq {sound_start'}
      BY <3>1, <3>2 DEF Span, Blocks
    <3> QED
      BY <2>1, <3>2, <3>3
  <2>2. CASE StopRecord /\ sound_rec /\ pc' = "recStopped"
    BY <1>2, <2>2 DEF StopRecord, ringVars
  <2>3. CASE /\ UNCHANGED <<ringVars, savedVars, pdm_irq, sound_rec>>
             /\ pc' \in {"stopCheck", "delay", "latchRec"}
    BY <1>2, <2>3 DEF ringVars
  <2> QED
    BY <1>2, <2>1, <2>2, <2>3 DEF UpdateRec
<1>3. CASE PdmInt
  <2>1. /\ sound_start \in 0 .. TotalBlock /\ sound_end \in 0 .. TotalBlock + 1
        /\ sound_start # sound_end
    BY <1>3 DEF PdmInt, RingType, RecordingPhases, Positions,
       NeverEmptyWhileRecording
  <2>2. /\ sound_end' = Next1(sound_end)
        /\ sound_start' = Pushed(sound_start, sound_end')
        /\ fresh' = fresh \cup ({sound_end} \cap Blocks)
        /\ pdm_irq /\ heard' /\ pdm_irq' /\ pc' = pc
    BY <1>3 DEF PdmInt, Pushed, irqVars
  <2>3. ASSUME NEW b \in Blocks, b \in Span(sound_start', sound_end')
        PROVE  b \in fresh' \cup {sound_start'}
    BY <2>1, <2>2, <2>3, SpanStep
  <2>4. ASSUME sound_start' \in Blocks, NEW b \in fresh'
        PROVE  b \in Span(sound_start', sound_end') \cup {sound_end'}
    <3>1. b \in Blocks
      BY <2>2, <2>4 DEF RingType
    <3>2. sound_start \in Blocks
      BY <2>1, <2>2, <2>4 DEF Pushed, Next1, Blocks
    <3>3. CASE heard
      <4>1. sound_end \in Blocks
        BY <3>3 DEF RecordingPhases
      <4>2. b \in Span(sound_start, sound_end) \cup {sound_end}
        BY <2>2, <2>4, <3>2, <3>3
      <4> QED
        BY <2>1, <2>2, <3>1, <3>2, <4>1, <4>2, SpanStep
    <3>4. CASE ~heard
      <4>1. b = sound_end /\ sound_end \in Blocks
        BY <2>2, <2>4, <3>4
      <4> QED
        BY <2>1, <2>2, <3>1, <3>2, <4>1, SpanStep
    <3> QED
      BY <3>3, <3>4
  <2> QED
    BY <2>2, <2>3, <2>4
<1>4. CASE PowerLoss
  BY <1>4 DEF PowerLoss, ResetRam
<1>5. CASE \/ BeginButtonCall \/ BeginSliderCall \/ EndButtonCall
           \/ EndSliderCall \/ I2sInt \/ RemoteButtons \/ RemoteSlider
           \/ UNCHANGED vars
  BY <1>5 DEF BeginButtonCall, BeginSliderCall, EndButtonCall, EndSliderCall,
     I2sInt, RemoteButtons, RemoteSlider, vars, ringVars, irqVars
<1>6. CASE Scan \/ UpdateVolume \/ LatchVolume \/ UpdatePlay \/ LatchPlay
  BY <1>6 DEF Scan, UpdateVolume, LatchVolume, UpdatePlay, LatchPlay, ringVars,
     irqVars
<1>7. CASE RecStopped \/ LatchRec \/ CheckStop \/ ClearStop \/ Display \/ Delay
  BY <1>7 DEF RecStopped, LatchRec, CheckStop, ClearStop, Display, Delay,
     ringVars, irqVars
<1> QED
  BY <1>1, <1>2, <1>3, <1>4, <1>5, <1>6, <1>7 DEF Next, Loop, LoopStep

LEMMA RingInductive == Spec => []RingHistory
<1>1. Init => RingHistory
  BY DEF Init, RingHistory, KeepsLatest
<1>2. IInv /\ RingHistory /\ [Next]_vars => RingHistory'
  BY RingHistoryStep
<1> QED
  BY <1>1, <1>2, Inductive, PTL DEF Spec

(* A playback after a recording reaches only what that recording wrote,    *)
(* but for its first block.                                                *)
THEOREM Contiguous == Spec => []TakeIsContiguous
<1>1. RingHistory => TakeIsContiguous
  BY DEF RingHistory, TakeIsContiguous
<1> QED
  BY <1>1, RingInductive, PTL

(* A recording that fills the ring gives up its oldest block, and no other.*)
THEOREM Latest == Spec => []KeepsLatest
  BY RingInductive, PTL DEF RingHistory
-----------------------------------------------------------------------------
Saved == Recovered(fram)
Kept  == Recovered(status)
Live  == IF pc = "boot" THEN Recovered(fram)
         ELSE [start |-> sound_start, end |-> sound_end]

LEMMA LiveType ==
  ASSUME TypeOK'
  PROVE  Live' \in [start : 0 .. TotalBlock, end : 0 .. TotalBlock + 1]
<1>1. Saved' \in [start : 0 .. TotalBlock, end : 0 .. TotalBlock + 1]
  BY TotalBlockAssumption DEF TypeOK, SavedType, StatusType, Saved, Recovered,
     Blocks
<1> QED
  BY <1>1 DEF TypeOK, RingType, Saved, Live

LEMMA TakesStep ==
  ASSUME IInv, IInv', [Next]_vars PROVE [Takes!Next]_(Takes!vars)
<1> USE TotalBlockAssumption
<1> USE DEF IInv, Saved, Kept, Live
<1>0. Live' \in [start : 0 .. TotalBlock, end : 0 .. TotalBlock + 1]
  BY LiveType
<1>1. CASE UNCHANGED <<Saved, Kept, Live, pdm_irq>>
  BY <1>1 DEF Takes!vars
<1>2. CASE SoundInit
  <2>1. UNCHANGED <<Saved, Kept, Live, pdm_irq>>
    BY <1>2 DEF SoundInit, savedVars, irqVars, Positions, Recovered
  <2> QED
    BY <1>1, <2>1
<1>3. CASE UpdateRec
  <2>1. CASE StartRecord /\ ~sound_rec /\ pc' = "latchRec"
    <3>1. Takes!Begin
      <4>1. ~pdm_irq /\ pdm_irq' /\ Saved' = Saved /\ Kept' = Kept
        BY <2>1 DEF StartRecord, RecordingPhases, savedVars
      <4>2. Live'.start # Live'.end
        BY <2>1 DEF StartRecord, Positions, NeverEmptyWhileRecording
      <4> QED
        BY <1>0, <4>1, <4>2 DEF Takes!Begin, Takes!NonEmpty, TypeOK, FlagType
    <3> QED
      BY <3>1 DEF Takes!Next
  <2>2. CASE StopRecord /\ sound_rec /\ pc' = "recStopped"
    <3>1. Takes!Commit
      <4>1. pdm_irq /\ ~pdm_irq' /\ pc = "rec"
        BY <1>3, <2>2 DEF UpdateRec, StopRecord, RecordingPhases
      <4>2. Live' = Live
        BY <2>2, <4>1 DEF StopRecord, ringVars
      <4>3. Kept' = Live'
        BY <2>2, <4>1 DEF Positions
      <4>4. Saved' \in {Saved, Live}
        BY <2>2, <4>2, <4>3 DEF StopRecord, SaveStatus
      <4> QED
        BY <4>1, <4>2, <4>3, <4>4 DEF Takes!Commit, TypeOK, FlagType
    <3> QED
      BY <3>1 DEF Takes!Next
  <2>3. CASE /\ UNCHANGED <<ringVars, savedVars, pdm_irq, sound_rec>>
             /\ pc' \in {"stopCheck", "delay", "latchRec"}
    BY <1>1, <1>3, <2>3 DEF UpdateRec, ringVars, savedVars
  <2> QED
    BY <1>3, <2>1, <2>2, <2>3 DEF UpdateRec
<1>4. CASE PdmInt
  <2>1. pdm_irq /\ pdm_irq' = pdm_irq /\ Saved' = Saved /\ Kept' = Kept
    BY <1>4 DEF PdmInt, irqVars, savedVars
  <2>2. Live'.start # Live'.end
    BY <1>4, <2>1 DEF PdmInt, RecordingPhases, Positions,
       NeverEmptyWhileRecording
  <2>3. Takes!Grow
    BY <1>0, <2>1, <2>2 DEF Takes!Grow, Takes!NonEmpty
  <2> QED
    BY <2>3 DEF Takes!Next
<1>5. CASE PowerLoss
  <2>1. Takes!PowerLoss
    BY <1>5 DEF PowerLoss, ResetRam, Takes!PowerLoss
  <2> QED
    BY <2>1 DEF Takes!Next
<1>6. CASE UpdateVolume
  <2>1. UNCHANGED <<Kept, Live, pdm_irq>>
    BY <1>6 DEF UpdateVolume, ringVars, irqVars, savedVars, Positions, TypeOK,
       SavedType, StatusType, Recovered
  <2>2. Saved' \in {Saved, Kept'}
    BY <1>6 DEF UpdateVolume, SaveStatus, savedVars
  <2>3. CASE Saved' = Saved
    BY <1>1, <2>1, <2>3
  <2>4. CASE Saved' = Kept'
    BY <2>1, <2>4 DEF Takes!Save, Takes!Next
  <2> QED
    BY <2>2, <2>3, <2>4
<1>7. CASE \/ BeginButtonCall \/ BeginSliderCall \/ EndButtonCall
           \/ EndSliderCall \/ I2sInt \/ RemoteButtons \/ RemoteSlider
           \/ UNCHANGED vars
  BY <1>1, <1>7 DEF BeginButtonCall, BeginSliderCall, EndButtonCall,
     EndSliderCall, I2sInt, RemoteButtons, RemoteSlider, vars, ringVars,
     irqVars, savedVars
<1>8. CASE Scan \/ LatchVolume \/ UpdatePlay \/ LatchPlay
  BY <1>1, <1>8 DEF Scan, LatchVolume, UpdatePlay, LatchPlay, ringVars,
     irqVars, savedVars
<1>9. CASE RecStopped \/ LatchRec \/ CheckStop \/ ClearStop \/ Display \/ Delay
  BY <1>1, <1>9 DEF RecStopped, LatchRec, CheckStop, ClearStop, Display, Delay,
     ringVars, irqVars, savedVars
<1> QED
  BY <1>2, <1>3, <1>4, <1>5, <1>6, <1>7, <1>8, <1>9 DEF Next, Loop, LoopStep

(* A take is committed as a whole when it is stopped or at a later save,   *)
(* or lost to a power failure with the saved positions in force.           *)
THEOREM Refinement == Spec => TakesCommitted
<1>1. Init => Takes!Init
  BY TotalBlockAssumption DEF Init, Takes!Init, Recovered
<1>2. IInv /\ IInv' /\ [Next]_vars => [Takes!Next]_(Takes!vars)
  BY TakesStep
<1> QED
  BY <1>1, <1>2, Inductive, PTL DEF Spec, TakesCommitted, Takes!Spec
-----------------------------------------------------------------------------
(* Which calls of hw_ functions are pending, and where: the touches and    *)
(* slides of a scan before sound_update, the switching off of its early    *)
(* returns after it, and that of sound_stop_record and of the stop at the  *)
(* end of the take inside it.                                              *)
CallsPlaced ==
    /\ pc \notin {"volume", "delay", "recStopped", "clearStop"} => Idle
    /\ \A k \in DOMAIN calls : (calls[k].op = "off") = (pc # "volume")
    /\ sld_call # <<>> => pc = "volume"
    /\ btn_call # <<>> /\ pc # "volume" => btn_call[2] = FALSE
    /\ pc = "recStopped" =>
          calls \in {<<>>, <<Off(Rec)>>} /\ btn_call \in {<<>>, <<Rec, FALSE>>}
    /\ pc = "clearStop" =>
          calls \in {<<>>, <<Off(Play)>>} /\ btn_call \in {<<>>, <<Play, FALSE>>}

LEMMA TailPart ==
  ASSUME NEW s \in Seq(Calls), s # <<>>
  PROVE  /\ 1 \in DOMAIN s /\ Head(s) = s[1]
         /\ \A k \in DOMAIN Tail(s) : k + 1 \in DOMAIN s /\ Tail(s)[k] = s[k + 1]
         /\ \A c : s = <<c>> => Head(s) = c /\ Tail(s) = <<>>
<1>1. /\ Len(s) \in Nat \ {0} /\ DOMAIN s = 1 .. Len(s)
      /\ Tail(s) \in Seq(Calls) /\ Len(Tail(s)) = Len(s) - 1
      /\ \A k \in 1 .. Len(s) - 1 : Tail(s)[k] = s[k + 1]
  BY HeadTailProperties, EmptySeq, LenProperties
<1>2. DOMAIN Tail(s) = 1 .. Len(s) - 1
  BY <1>1
<1>3. ASSUME NEW c, s = <<c>> PROVE Head(s) = c /\ Tail(s) = <<>>
  BY <1>3
<1> QED
  BY <1>1, <1>2, <1>3

(* hw_set_button to off, and hw_flipping_button.                           *)
LEMMA ButtonCall ==
  ASSUME TypeOK, BeginButtonCall
  PROVE  \E i \in Buttons :
            \/ /\ Head(calls) = Off(i)
               /\ hw_button' = [hw_button EXCEPT ![i] = FALSE]
               /\ btn_call' = IF hw_button[i] THEN <<i, FALSE>> ELSE <<>>
            \/ /\ Head(calls) = Flip(i)
               /\ hw_button' = [hw_button EXCEPT ![i] = ~hw_button[i]]
               /\ btn_call' = <<i, ~hw_button[i]>>
<1> DEFINE c  == Head(calls)
           on == c.op = "flip" /\ ~hw_button[c.id]
<1>1. /\ c.op \in {"flip", "off"}
      /\ hw_button' = [hw_button EXCEPT ![c.id] = on]
      /\ btn_call' = IF hw_button[c.id] = on THEN <<>> ELSE <<c.id, on>>
  BY DEF BeginButtonCall
<1>2. c \in Calls
  BY TailOfCalls DEF BeginButtonCall, TypeOK, CallType
<1>3. PICK i \in Buttons : c = Off(i) \/ c = Flip(i)
  BY <1>1, <1>2 DEF Calls, Off, Flip, Slide
<1>4. c.id = i /\ on \in BOOLEAN /\ hw_button[i] \in BOOLEAN
  BY <1>3 DEF Off, Flip, TypeOK, ButtonType
<1>5. CASE c = Off(i)
  <2>1. on = FALSE
    BY <1>5 DEF Off
  <2> HIDE DEF on, c
  <2>2. CASE hw_button[i] = TRUE
    BY <1>1, <1>4, <1>5, <2>1, <2>2 DEF c
  <2>3. CASE hw_button[i] = FALSE
    BY <1>1, <1>4, <1>5, <2>1, <2>3 DEF c
  <2> QED
    BY <1>4, <2>2, <2>3
<1>6. CASE c = Flip(i)
  <2>1. c.op = "flip" /\ hw_button[c.id] = hw_button[i]
    BY <1>4, <1>6 DEF Flip
  <2>2. CASE hw_button[i] = TRUE
    <3>1. on = FALSE /\ (~hw_button[i]) = FALSE
      BY <2>1, <2>2
    <3> HIDE DEF on, c
    <3> QED
      BY <1>1, <1>4, <1>6, <2>2, <3>1 DEF c
  <2>3. CASE hw_button[i] = FALSE
    <3>1. on = TRUE /\ (~hw_button[i]) = TRUE
      BY <2>1, <2>3
    <3> HIDE DEF on, c
    <3> QED
      BY <1>1, <1>4, <1>6, <2>3, <3>1 DEF c
  <2> QED
    BY <1>4, <2>2, <2>3
<1> QED
  BY <1>3, <1>5, <1>6

(* The calls a scan makes.                                                 *)
ScanCalls(ids, moves) ==
    (IF Play \in ids THEN <<Flip(Play)>> ELSE <<>>)
    \o (IF Rec \in ids THEN <<Flip(Rec)>> ELSE <<>>)
    \o (IF moves # <<>> THEN <<Slide(moves[1])>> ELSE <<>>)

LEMMA ScanCallsOps ==
  ASSUME NEW ids, NEW moves, NEW k \in DOMAIN ScanCalls(ids, moves)
  PROVE  ScanCalls(ids, moves)[k].op # "off"
  BY DEF ScanCalls, Flip, Slide

LEMMA CallsPlacedStep == ASSUME TypeOK, CallsPlaced, [Next]_vars PROVE CallsPlaced'
<1> USE DEF CallsPlaced, Idle, MidCall, Play, Rec
<1>0. calls \in Seq(Calls) /\ btn_call \in {<<>>} \cup (Buttons \X BOOLEAN)
  BY DEF TypeOK, CallType
<1>1. CASE BeginButtonCall
  <2>1. /\ calls # <<>> /\ calls' = Tail(calls) /\ pc' = pc
        /\ sld_call = <<>> /\ sld_call' = <<>>
    BY <1>1 DEF BeginButtonCall
  <2>2. Head(calls) = calls[1] /\ 1 \in DOMAIN calls
    BY <1>0, <2>1, TailPart
  <2>3. pc \in {"volume", "delay", "recStopped", "clearStop"}
    BY <2>1
  <2>4. \A k \in DOMAIN calls' : (calls'[k].op = "off") = (pc' # "volume")
    BY <1>0, <2>1, TailPart
  <2>5. pc # "volume" => btn_call' \in {<<>>, <<Head(calls).id, FALSE>>}
    BY <1>1, <2>2 DEF BeginButtonCall
  <2>6. pc = "recStopped" => calls = <<Off(Rec)>> /\ Head(calls).id = Rec /\ calls' = <<>>
    BY <1>0, <2>1, TailPart DEF Off
  <2>7. pc = "clearStop" => calls = <<Off(Play)>> /\ Head(calls).id = Play /\ calls' = <<>>
    BY <1>0, <2>1, TailPart DEF Off
  <2>8. ASSUME pc # "volume", btn_call' # <<>> PROVE btn_call'[2] = FALSE
    <3>1. btn_call' = <<Head(calls).id, FALSE>>
      BY <2>5, <2>8
    <3> QED
      BY <3>1, Zenon
  <2>9. pc = "recStopped" => btn_call' \in {<<>>, <<Rec, FALSE>>}
    BY <2>5, <2>6
  <2>10. pc = "clearStop" => btn_call' \in {<<>>, <<Play, FALSE>>}
    BY <2>5, <2>7
  <2> QED
    BY <2>1, <2>3, <2>4, <2>6, <2>7, <2>8, <2>9, <2>10
<1>2. CASE BeginSliderCall
  <2>1. calls # <<>> /\ calls' = Tail(calls) /\ pc' = pc /\ btn_call' = btn_call
    BY <1>2 DEF BeginSliderCall
  <2>2. Head(calls) = calls[1] /\ 1 \in DOMAIN calls /\ Head(calls).op = "slide"
    BY <1>0, <1>2, <2>1, TailPart DEF BeginSliderCall
  <2>3. pc = "volume"
    BY <2>2
  <2>4. \A k \in DOMAIN calls' : (calls'[k].op = "off") = (pc' # "volume")
    BY <1>0, <2>1, TailPart
  <2> QED
    BY <1>2, <2>1, <2>3, <2>4
<1>3. CASE EndButtonCall \/ EndSliderCall
  BY <1>3 DEF EndButtonCall, EndSliderCall
<1>4. CASE Scan
  <2>1. PICK ids \in SUBSET Buttons, moves \in {<<>>} \cup {<<p>> : p \in Sliders} :
            calls' = ScanCalls(ids, moves)
    BY <1>4 DEF Scan, ScanCalls
  <2>2. \A k \in DOMAIN calls' : calls'[k].op # "off"
    BY <2>1, ScanCallsOps
  <2>3. btn_call' = <<>> /\ sld_call' = <<>> /\ pc' = "volume"
    BY <1>4 DEF Scan
  <2> QED
    BY <2>2, <2>3
<1>5. CASE SoundInit \/ UpdateVolume \/ LatchVolume \/ LatchPlay
  <2>1. /\ calls = <<>> /\ btn_call = <<>> /\ sld_call = <<>> /\ UNCHANGED callVars
        /\ pc' \in {"scan", "play", "latchVolume", "rec"}
    BY <1>0, <1>5 DEF SoundInit, UpdateVolume, LatchVolume, LatchPlay
  <2> QED
    BY <2>1 DEF callVars
<1>6. CASE UpdatePlay
  <2>1. btn_call = <<>> /\ sld_call = <<>> /\ calls = <<>>
    BY <1>0, <1>6 DEF UpdatePlay
  <2>2. /\ btn_call' = <<>> /\ sld_call' = <<>>
        /\ \/ calls' = <<>> /\ pc' \in {"rec", "latchPlay"}
           \/ calls' = <<Off(Rec), Off(Play)>> /\ pc' = "delay"
    BY <1>6, <2>1 DEF UpdatePlay, CallsOff
  <2> QED
    BY <2>2 DEF Off
<1>7. CASE UpdateRec
  <2>1. btn_call = <<>> /\ sld_call = <<>> /\ calls = <<>>
    BY <1>0, <1>7 DEF UpdateRec
  <2>2. /\ btn_call' = <<>> /\ sld_call' = <<>>
        /\ \/ calls' = <<>> /\ pc' \in {"stopCheck", "latchRec"}
           \/ calls' = <<Off(Play), Off(Rec)>> /\ pc' = "delay"
           \/ calls' = <<Off(Rec)>> /\ pc' = "recStopped"
    BY <1>7, <2>1 DEF UpdateRec, CallsOff
  <2> QED
    BY <2>2 DEF Off
<1>8. CASE RecStopped \/ LatchRec \/ ClearStop \/ Display \/ Delay
  BY <1>8 DEF RecStopped, LatchRec, ClearStop, Display, Delay, callVars
<1>9. CASE CheckStop
  <2>1. /\ btn_call' = <<>> /\ sld_call' = <<>>
        /\ \/ calls' = <<>> /\ pc' \in {"clearStop", "display"}
           \/ calls' = <<Off(Play)>> /\ pc' = "clearStop"
    BY <1>0, <1>9 DEF CheckStop, StopCalls
  <2> QED
    BY <2>1 DEF Off
<1>10. CASE PdmInt \/ I2sInt \/ RemoteButtons \/ RemoteSlider \/ UNCHANGED vars
  BY <1>10 DEF PdmInt, I2sInt, RemoteButtons, RemoteSlider, vars, callVars
<1>11. CASE PowerLoss
  BY <1>0, <1>11 DEF PowerLoss, ResetRam
<1> QED
  BY <1>1, <1>2, <1>3, <1>4, <1>5, <1>6, <1>7, <1>8, <1>9, <1>10, <1>11
     DEF Next, Loop, LoopStep

LEMMA CallsPlacedInductive == Spec => []CallsPlaced
<1>1. Init => CallsPlaced
  BY DEF Init, CallsPlaced, Idle, MidCall
<1>2. IInv /\ CallsPlaced /\ [Next]_vars => CallsPlaced'
  BY CallsPlacedStep DEF IInv
<1> QED
  BY <1>1, <1>2, Inductive, PTL DEF Spec
-----------------------------------------------------------------------------
(* The last_ flags say what the machine does, but between a start or stop  *)
(* and the latch that follows it, where the button says it; a half-done    *)
(* sound_stop_record is about to switch the rec button off, unless it has. *)
FlagsKept ==
    /\ pc # "latchPlay" => last_button[Play] = sound_play
    /\ pc \notin {"recStopped", "latchRec"} => last_button[Rec] = sound_rec
    /\ pc = "latchPlay" => button[Play] = sound_play
    /\ pc = "latchRec" => button[Rec] = sound_rec
    /\ pc = "recStopped" =>
          \/ calls = <<Off(Rec)>> /\ (button[Rec] => hw_button[Rec])
          \/ calls = <<>> /\ btn_call # <<>>
          \/ calls = <<>> /\ ~button[Rec]

Latches == {"latchPlay", "recStopped", "latchRec"}

LEMMA FlagsStep ==
  ASSUME RemotePoints \cap Latches = {},
         TypeOK, CallsPlaced, FlagsKept, [Next]_vars
  PROVE  FlagsKept'
<1> USE DEF FlagsKept, Play, Rec, Buttons
<1>0. /\ button \in [Buttons -> BOOLEAN] /\ hw_button \in [Buttons -> BOOLEAN]
      /\ last_button \in [Buttons -> BOOLEAN]
      /\ sound_rec \in BOOLEAN /\ sound_play \in BOOLEAN
      /\ calls \in Seq(Calls) /\ btn_call \in {<<>>} \cup (Buttons \X BOOLEAN)
  BY DEF TypeOK, ButtonType, FlagType, CallType
<1>a. /\ pc = "recStopped" => calls \in {<<>>, <<Off(Rec)>>}
      /\ pc = "recStopped" => btn_call \in {<<>>, <<Rec, FALSE>>}
      /\ pc \in {"latchPlay", "latchRec"} => btn_call = <<>> /\ calls = <<>>
  BY DEF CallsPlaced, Idle, MidCall
<1>1. CASE BeginButtonCall
  <2>1. /\ btn_call = <<>> /\ calls # <<>>
        /\ UNCHANGED <<pc, button, last_button, sound_play, sound_rec>>
    BY <1>1 DEF BeginButtonCall, MidCall
  <2>2. ASSUME pc = "recStopped"
        PROVE  calls' = <<>> /\ (btn_call' # <<>> \/ ~button'[Rec])
    <3>1. calls = <<Off(Rec)>> /\ (button[Rec] => hw_button[Rec])
      BY <1>a, <2>1, <2>2
    <3>2. Head(calls) = Off(Rec) /\ calls' = <<>>
      BY <1>0, <1>1, <2>1, <3>1, TailPart DEF BeginButtonCall
    <3>3. btn_call' = IF hw_button[Rec] THEN <<Rec, FALSE>> ELSE <<>>
      <4>1. \A i \in Buttons : Off(Rec) # Flip(i) /\ (Off(Rec) = Off(i) => i = Rec)
        BY DEF Off, Flip
      <4> QED
        BY <1>1, <3>2, <4>1, ButtonCall
    <3>4. CASE hw_button[Rec]
      BY <3>2, <3>3, <3>4
    <3>5. CASE ~hw_button[Rec]
      BY <1>0, <2>1, <3>1, <3>2, <3>5
    <3> QED
      BY <3>4, <3>5
  <2> QED
    BY <1>a, <2>1, <2>2
<1>2. CASE BeginSliderCall
  <2>1. pc # "recStopped" /\ calls # <<>>
    BY <1>0, <1>2, <1>a, TailPart DEF BeginSliderCall, Off
  <2> QED
    BY <1>2, <1>a, <2>1 DEF BeginSliderCall, buttonVars
<1>3. CASE EndButtonCall
  <2>1. /\ btn_call # <<>> /\ btn_call' = <<>>
        /\ button' = [button EXCEPT ![btn_call[1]] = btn_call[2]]
        /\ UNCHANGED <<pc, calls, hw_button, last_button, sound_play, sound_rec>>
    BY <1>3 DEF EndButtonCall
  <2>2. ASSUME pc = "recStopped"
        PROVE  ~button'[Rec]
    <3>1. btn_call = <<Rec, FALSE>>
      BY <1>a, <2>1, <2>2
    <3>2. btn_call[1] = Rec /\ btn_call[2] = FALSE
      BY <3>1
    <3> QED
      BY <1>0, <2>1, <3>2
  <2> QED
    BY <1>a, <2>1, <2>2
<1>4. CASE EndSliderCall
  BY <1>4 DEF EndSliderCall, buttonVars
<1>5. CASE SoundInit \/ Scan \/ UpdateVolume \/ LatchVolume
  BY <1>0, <1>5 DEF SoundInit, Scan, UpdateVolume, LatchVolume
<1>6. CASE UpdatePlay
  BY <1>6, <1>0 DEF UpdatePlay, StartPlayback, StopPlayback, buttonVars
<1>7. CASE LatchPlay
  BY <1>7, <1>0 DEF LatchPlay, buttonVars
<1>8. CASE UpdateRec
  <2>1. /\ pc = "rec" /\ UNCHANGED <<button, last_button, sound_play>>
        /\ \/ pc' \in {"stopCheck", "delay"} /\ UNCHANGED sound_rec
           \/ pc' = "latchRec" /\ sound_rec' = button[Rec]
           \/ pc' = "recStopped" /\ calls' = <<Off(Rec)>> /\ ~button[Rec]
    BY <1>8, <1>0 DEF UpdateRec, StartRecord, StopRecord, buttonVars
  <2> QED
    BY <2>1
<1>9. CASE RecStopped
  BY <1>9, <1>0 DEF RecStopped, Idle, MidCall, buttonVars, Off
<1>10. CASE LatchRec
  BY <1>10, <1>0 DEF LatchRec, buttonVars
<1>11. CASE CheckStop \/ ClearStop \/ Display \/ Delay
  BY <1>0, <1>11 DEF CheckStop, ClearStop, Display, Delay, buttonVars
<1>12. CASE PdmInt \/ I2sInt \/ RemoteSlider \/ UNCHANGED vars
  BY <1>0, <1>12 DEF PdmInt, I2sInt, RemoteSlider, vars, buttonVars, callVars
<1>13. CASE RemoteButtons
  <2>1. UNCHANGED <<pc, calls, btn_call, last_button, sound_play, sound_rec>>
    BY <1>13 DEF RemoteButtons, callVars
  <2>2. button'[Rec] => button[Rec] \/ hw_button'[Rec]
    BY <1>13, <1>0 DEF RemoteButtons
  <2>3. button[Rec] /\ hw_button[Rec] /\ button'[Rec] => hw_button'[Rec]
    BY <1>13, <1>0 DEF RemoteButtons
  <2>4. pc \in Latches => btn_call # <<>> \/ calls # <<>>
    BY <1>13, <1>a DEF RemoteButtons, Place, MidCall, Latches, CallsPlaced
  <2> QED
    BY <1>0, <1>a, <2>1, <2>2, <2>3, <2>4 DEF Latches
<1>14. CASE PowerLoss
  BY <1>14 DEF PowerLoss, ResetRam
<1> QED
  BY <1>1, <1>2, <1>3, <1>4, <1>5, <1>6, <1>7, <1>8, <1>9, <1>10, <1>11, <1>12,
     <1>13, <1>14 DEF Next, Loop, LoopStep

LEMMA FlagsInductive ==
  RemotePoints \cap Latches = {} => (Spec => [](TypeOK /\ FlagsKept))
<1> SUFFICES ASSUME RemotePoints \cap Latches = {}
             PROVE  Spec => [](TypeOK /\ FlagsKept)
  OBVIOUS
<1>1. Init => FlagsKept
  BY DEF Init, FlagsKept, Buttons, Play, Rec
<1>2. IInv /\ CallsPlaced /\ FlagsKept /\ [Next]_vars => FlagsKept'
  BY FlagsStep DEF IInv
<1>3. IInv => TypeOK
  BY DEF IInv
<1> QED
  BY <1>1, <1>2, <1>3, Inductive, CallsPlacedInductive, PTL DEF Spec

(* At the top of the loop the last_ flags of sound_update say what the     *)
(* machine does, whoever preempts it, but between starting or stopping and *)
(* the read of the button that the flag is set from: sound_update reads    *)
(* play_button and rec_button twice.                                       *)
THEOREM FlagsFollowAlways ==
  RemotePoints \cap Latches = {} => (Spec => []FlagsFollow)
<1> SUFFICES ASSUME RemotePoints \cap Latches = {} PROVE Spec => []FlagsFollow
  OBVIOUS
<1>1. TypeOK /\ FlagsKept => FlagsFollow
  BY DEF TypeOK, ButtonType, FlagsKept, FlagsFollow, Buttons, Play, Rec
<1> QED
  BY <1>1, FlagsInductive, PTL
-----------------------------------------------------------------------------
(* Where the update of the volume is behind the main loop, until the delay.*)
Seen == {"play", "latchPlay", "rec", "recStopped", "latchRec", "stopCheck",
         "clearStop", "display"}

(* The codec has the attenuation of the Status record and, when a volume   *)
(* was ever set since the start, the one of the slider last seen.          *)
VolumeFollows ==
    /\ pc # "boot" => codec = status.volume
    /\ pc = "boot" => last_volume = 0
    /\ pc \in Seen => last_volume = volume
    /\ pc = "latchVolume" => codec = Atten(volume)
    /\ pc # "latchVolume" /\ last_volume # 0 => codec = Atten(last_volume)

BeforeVolume == {"boot", "scan", "volume", "delay"}

LEMMA VolumeStep ==
  ASSUME RemotePoints \subseteq BeforeVolume,
         TypeOK, CallsPlaced, VolumeFollows, [Next]_vars
  PROVE  VolumeFollows'
<1> USE DEF VolumeFollows, Seen
<1>0. status \in StatusType
  BY DEF TypeOK, SavedType
<1>1. CASE BeginButtonCall \/ BeginSliderCall \/ EndButtonCall
  BY <1>1 DEF BeginButtonCall, BeginSliderCall, EndButtonCall, volumeVars,
     savedVars, sliderVars
<1>2. CASE EndSliderCall
  BY <1>2 DEF EndSliderCall, CallsPlaced, volumeVars, savedVars
<1>3. CASE SoundInit
  BY <1>3 DEF SoundInit, RestoreVolume, savedVars
<1>4. CASE UpdateVolume
  BY <1>0, <1>4 DEF UpdateVolume, sliderVars, StatusType, savedVars
<1>5. CASE LatchVolume
  BY <1>0, <1>5 DEF LatchVolume, sliderVars, savedVars
<1>6. CASE Scan \/ UpdatePlay \/ LatchPlay
  BY <1>0, <1>6 DEF Scan, UpdatePlay, LatchPlay, volumeVars, savedVars, sliderVars
<1>7. CASE UpdateRec
  BY <1>0, <1>7 DEF UpdateRec, StartRecord, StopRecord, volumeVars, savedVars,
     sliderVars, StatusType
<1>8. CASE RecStopped \/ LatchRec \/ CheckStop \/ ClearStop \/ Display \/ Delay
  BY <1>8 DEF RecStopped, LatchRec, CheckStop, ClearStop, Display, Delay,
     volumeVars, savedVars, sliderVars
<1>9. CASE PdmInt \/ I2sInt \/ RemoteButtons \/ UNCHANGED vars
  BY <1>0, <1>9 DEF PdmInt, I2sInt, RemoteButtons, vars, volumeVars, savedVars,
     sliderVars
<1>10. CASE RemoteSlider
  <2>1. pc \in BeforeVolume
    BY <1>10 DEF RemoteSlider, Place, BeforeVolume
  <2> QED
    BY <1>10, <2>1 DEF RemoteSlider, volumeVars, savedVars, BeforeVolume
<1>11. CASE PowerLoss
  BY <1>0, <1>11 DEF PowerLoss, ResetRam
<1> QED
  BY <1>1, <1>2, <1>3, <1>4, <1>5, <1>6, <1>7, <1>8, <1>9, <1>10, <1>11
     DEF Next, Loop, LoopStep

(* The volume is heard, saved and taken for seen in the same loop, by an   *)
(* AWS thread that may come in anywhere but inside the calls and the       *)
(* update that make it so: sound_update reads volume three times, and a    *)
(* position that arrives between the reads or behind them is taken for     *)
(* seen, or shows up in the next loop only.                                *)
THEOREM VolumeSavedAlways ==
  RemotePoints \subseteq BeforeVolume => (Spec => []VolumeSaved)
<1> SUFFICES ASSUME RemotePoints \subseteq BeforeVolume
             PROVE  Spec => []VolumeSaved
  OBVIOUS
<1>1. Init => VolumeFollows
  BY DEF Init, VolumeFollows, Seen
<1>2. IInv /\ CallsPlaced /\ VolumeFollows /\ [Next]_vars => VolumeFollows'
  BY VolumeStep DEF IInv
<1>3. IInv /\ VolumeFollows => VolumeSaved
  BY DEF IInv, Positions, VolumeFollows, VolumeSaved, Seen
<1> QED
  BY <1>1, <1>2, <1>3, Inductive, CallsPlacedInductive, PTL DEF Spec
-----------------------------------------------------------------------------
(* Where a remote command would split a button from its hw_ value, be lost *)
(* in sound_init, or be latched unseen.                                    *)
Undisturbed == RemotePoints \cap ({"boot", "call"} \cup Latches) = {}

In(e, s) == \E k \in DOMAIN s : s[k] = e

Distinct(s) == \A j, k \in DOMAIN s : s[j] = s[k] => j = k

(* The button is its hw_ value but in the middle of a call, the I2S        *)
(* interrupt is enabled while it plays, and only the calls of the last     *)
(* scan flip.                                                              *)
Synced ==
    /\ quiet \in 0 .. QuietBound /\ calm \in BOOLEAN /\ asked \in BOOLEAN
    /\ \A i \in Buttons :
          hw_button[i] = IF btn_call # <<>> /\ btn_call[1] = i THEN btn_call[2] ELSE button[i]
    /\ pc = "boot" => \A i \in Buttons : ~button[i]
    /\ i2s_irq = sound_play
    /\ Distinct(calls)
    /\ pc = "volume" /\ (btn_call # <<>> \/ \E k \in DOMAIN calls : calls[k].op = "flip")
          => quiet = 0

LEMMA InTail ==
  ASSUME NEW s \in Seq(Calls), s # <<>>, Distinct(s)
  PROVE  /\ Distinct(Tail(s))
         /\ \A e : In(e, Tail(s)) <=> In(e, s) /\ e # Head(s)
<1> DEFINE n == Len(s)
<1>1. n \in Nat \ {0} /\ DOMAIN s = 1 .. n /\ DOMAIN Tail(s) = 1 .. n - 1
  BY HeadTailProperties, EmptySeq, LenProperties
<1>2. Head(s) = s[1] /\ \A k \in 1 .. n - 1 : Tail(s)[k] = s[k + 1]
  BY <1>1, TailPart
<1>3. \A k \in 1 .. n - 1 : k + 1 \in 1 .. n /\ k + 1 # 1
  BY <1>1
<1>4. \A k \in 1 .. n : k # 1 => k - 1 \in 1 .. n - 1 /\ (k - 1) + 1 = k
  BY <1>1
<1> HIDE DEF n
<1>5. Distinct(Tail(s))
  BY <1>1, <1>2, <1>3 DEF Distinct
<1>6. ASSUME NEW e, In(e, Tail(s)) PROVE In(e, s) /\ e # Head(s)
  BY <1>1, <1>2, <1>3, <1>6 DEF In, Distinct
<1>7. ASSUME NEW e, In(e, s), e # Head(s) PROVE In(e, Tail(s))
  <2>1. PICK k \in 1 .. n : s[k] = e
    BY <1>1, <1>7 DEF In
  <2>2. k - 1 \in 1 .. n - 1 /\ (k - 1) + 1 = k
    BY <1>2, <1>4, <1>7, <2>1
  <2>3. Tail(s)[k - 1] = e
    BY <1>2, <2>1, <2>2
  <2> QED
    BY <1>1, <2>2, <2>3 DEF In
<1> QED
  BY <1>5, <1>6, <1>7

LEMMA InConcat ==
  ASSUME NEW s \in Seq(Calls), NEW t \in Seq(Calls)
  PROVE  /\ \A e : In(e, s \o t) <=> In(e, s) \/ In(e, t)
         /\ Distinct(s) /\ Distinct(t) /\ (\A e : ~(In(e, s) /\ In(e, t))) => Distinct(s \o t)
<1> DEFINE m == Len(s)
           n == Len(t)
           u == s \o t
<1>1. /\ m \in Nat /\ n \in Nat
      /\ DOMAIN s = 1 .. m /\ DOMAIN t = 1 .. n /\ DOMAIN u = 1 .. m + n
  BY ConcatProperties, LenProperties
<1>2. \A k \in 1 .. m + n : u[k] = IF k <= m THEN s[k] ELSE t[k - m]
  BY ConcatProperties
<1> HIDE DEF m, n, u
<1>3. /\ \A k \in 1 .. m : k \in 1 .. m + n /\ u[k] = s[k]
      /\ \A k \in 1 .. n : k + m \in 1 .. m + n /\ u[k + m] = t[k]
      /\ \A k \in 1 .. m + n : \/ k \in 1 .. m
                               \/ k - m \in 1 .. n /\ u[k] = t[k - m]
  BY <1>1, <1>2
<1>4. \A e : In(e, u) <=> In(e, s) \/ In(e, t)
  BY <1>1, <1>3 DEF In
<1>5. ASSUME Distinct(s), Distinct(t), \A e : ~(In(e, s) /\ In(e, t)),
             NEW j \in 1 .. m + n, NEW k \in 1 .. m + n, u[j] = u[k]
      PROVE  j = k
  <2>1. CASE j \in 1 .. m /\ k \in 1 .. m
    BY <1>1, <1>3, <1>5, <2>1 DEF Distinct
  <2>2. CASE j - m \in 1 .. n /\ u[j] = t[j - m] /\ k - m \in 1 .. n /\ u[k] = t[k - m]
    <3>1. j - m = k - m
      BY <1>1, <1>5, <2>2 DEF Distinct
    <3> QED
      BY <1>1, <3>1
  <2>3. CASE j \in 1 .. m /\ k - m \in 1 .. n /\ u[k] = t[k - m]
    <3>1. In(u[j], s) /\ In(u[k], t)
      BY <1>1, <1>3, <2>3 DEF In
    <3> QED
      BY <1>5, <3>1
  <2>4. CASE k \in 1 .. m /\ j - m \in 1 .. n /\ u[j] = t[j - m]
    <3>1. In(u[k], s) /\ In(u[j], t)
      BY <1>1, <1>3, <2>4 DEF In
    <3> QED
      BY <1>5, <3>1
  <2> QED
    BY <1>3, <2>1, <2>2, <2>3, <2>4
<1> QED
  BY <1>1, <1>4, <1>5 DEF Distinct, u

LEMMA InTuple ==
  /\ \A x : In(x, <<x>>) /\ ~In(x, <<>>)
  /\ \A x, y : In(x, <<x, y>>) /\ In(y, <<x, y>>)
<1>1. \A x, y : /\ 1 \in DOMAIN <<x>> /\ <<x>>[1] = x
                /\ 1 \in DOMAIN <<x, y>> /\ <<x, y>>[1] = x
                /\ 2 \in DOMAIN <<x, y>> /\ <<x, y>>[2] = y
  OBVIOUS
<1> QED
  BY <1>1 DEF In

LEMMA ScanCallsIn ==
  ASSUME NEW ids \in SUBSET Buttons, NEW moves \in {<<>>} \cup {<<p>> : p \in Sliders}
  PROVE  /\ Distinct(ScanCalls(ids, moves))
         /\ \A i \in Buttons : In(Flip(i), ScanCalls(ids, moves)) <=> i \in ids
         /\ (\E k \in DOMAIN ScanCalls(ids, moves) :
                ScanCalls(ids, moves)[k].op = "flip") <=> ids # {}
<1> DEFINE a == IF Play \in ids THEN <<Flip(Play)>> ELSE <<>>
           b == IF Rec \in ids THEN <<Flip(Rec)>> ELSE <<>>
           c == IF moves # <<>> THEN <<Slide(moves[1])>> ELSE <<>>
           s == ScanCalls(ids, moves)
<1>1. /\ \A e : In(e, a) <=> Play \in ids /\ e = Flip(Play)
      /\ \A e : In(e, b) <=> Rec \in ids /\ e = Flip(Rec)
      /\ \A e : In(e, c) <=> moves # <<>> /\ e = Slide(moves[1])
      /\ Distinct(a) /\ Distinct(b) /\ Distinct(c)
  BY DEF In, Distinct
<1>2. a \in Seq(Calls) /\ b \in Seq(Calls) /\ c \in Seq(Calls) /\ a \o b \in Seq(Calls)
  <2>1. moves # <<>> => moves[1] \in Sliders
    OBVIOUS
  <2>2. Play \in Buttons /\ Rec \in Buttons
    BY DEF Play, Rec, Buttons
  <2>3. a \in Seq(Calls) /\ b \in Seq(Calls) /\ c \in Seq(Calls)
    BY <2>1, <2>2, CallSeqs
  <2> QED
    BY <2>3, CallSeqs
<1>3. s = (a \o b) \o c
  BY DEF ScanCalls
<1>4. /\ \A i \in Buttons : Flip(i) # Slide(moves[1]) /\ Flip(i).op = "flip"
      /\ Slide(moves[1]).op # "flip"
      /\ Flip(Play) # Flip(Rec)
      /\ Buttons = {Play, Rec}
  BY DEF Flip, Slide, Play, Rec, Buttons
<1> HIDE DEF a, b, c, s
<1>5. \A e : In(e, a \o b) <=> In(e, a) \/ In(e, b)
  BY <1>2, InConcat
<1>6. \A e : In(e, s) <=> In(e, a) \/ In(e, b) \/ In(e, c)
  BY <1>2, <1>3, <1>5, InConcat
<1>7. Distinct(a \o b)
  BY <1>1, <1>2, <1>4, InConcat
<1>8. Distinct(s)
  <2>1. \A e : ~(In(e, a \o b) /\ In(e, c))
    BY <1>1, <1>4, <1>5
  <2> QED
    BY <1>1, <1>2, <1>3, <1>7, <2>1, InConcat
<1>9. \A i \in Buttons : In(Flip(i), s) <=> i \in ids
  BY <1>1, <1>4, <1>6
<1>10. (\E k \in DOMAIN s : s[k].op = "flip") <=> ids # {}
  <2>1. (\E k \in DOMAIN s : s[k].op = "flip") <=> \E e : In(e, s) /\ e.op = "flip"
    BY DEF In
  <2>2. ASSUME NEW e, In(e, s), e.op = "flip" PROVE ids # {}
    BY <1>1, <1>4, <1>6, <2>2
  <2>3. ASSUME NEW i \in ids PROVE In(Flip(i), s) /\ Flip(i).op = "flip"
    BY <1>4, <1>9
  <2> QED
    BY <2>1, <2>2, <2>3
<1> QED
  BY <1>8, <1>9, <1>10 DEF s

LEMMA InputsAreNext == [NextInputs]_inputVars => [Next]_vars
  BY DEF NextInputs, inputVars, Next, Loop

LEMMA InputsImplement == SpecInputs => Spec
  BY InputsAreNext, PTL DEF SpecInputs, InitInputs, Spec

HistoryType == quiet \in 0 .. QuietBound /\ calm \in BOOLEAN /\ asked \in BOOLEAN

LEMMA HistoryStep ==
  ASSUME TypeOK, HistoryType, [NextInputs]_inputVars PROVE HistoryType'
<1> USE DEF HistoryType, QuietBound
<1>1. CASE UNCHANGED <<quiet, calm, asked>>
  BY <1>1
<1>2. CASE Input /\ asked' \in BOOLEAN
  BY <1>2 DEF Input
<1>3. CASE quiet' = (IF quiet < QuietBound THEN quiet + 1 ELSE quiet) /\ UNCHANGED <<calm, asked>>
  BY <1>3
<1>4. CASE quiet' = QuietBound /\ calm' = TRUE /\ asked' = FALSE
  <2>1. calm' \in BOOLEAN /\ asked' \in BOOLEAN
    BY <1>4, Zenon
  <2> QED
    BY <1>4, <2>1
<1>5. CASE Input /\ asked' = (calm' /\ (sound_rec \/ (sound_play /\ i2s_mask)))
  <2>1. (calm' /\ (sound_rec \/ (sound_play /\ i2s_mask))) \in BOOLEAN
    OBVIOUS
  <2> QED
    BY <1>2, <1>5, <2>1
<1> QED
  BY <1>1, <1>2, <1>3, <1>4, <1>5 DEF NextInputs, inputVars

LEMMA SyncedStep ==
  ASSUME Undisturbed, TypeOK, CallsPlaced, Synced, [NextInputs]_inputVars
  PROVE  Synced'
<1> USE DEF Play, Rec, Buttons
<1>0. /\ button \in [Buttons -> BOOLEAN] /\ hw_button \in [Buttons -> BOOLEAN]
      /\ calls \in Seq(Calls) /\ btn_call \in {<<>>} \cup (Buttons \X BOOLEAN)
  BY DEF TypeOK, ButtonType, CallType
<1>a. HistoryType'
  BY HistoryStep DEF Synced, HistoryType
<1>b. Distinct(<<>>) /\ \A e : ~In(e, <<>>)
  BY DEF Distinct, In
<1>c. ASSUME UNCHANGED <<pc, hw_button, button, i2s_irq, sound_play, callVars, quiet>>
      PROVE  Synced'
  BY <1>a, <1>c DEF Synced, callVars, HistoryType
<1>d. ASSUME pc' \notin {"boot", "volume"}, calls' = <<>>,
             UNCHANGED <<hw_button, button, i2s_irq, sound_play, btn_call>>
      PROVE  Synced'
  BY <1>a, <1>b, <1>d DEF Synced, HistoryType
<1>1. CASE BeginButtonCall /\ UNCHANGED quiet
  <2>1. /\ btn_call = <<>> /\ calls # <<>> /\ calls' = Tail(calls)
        /\ UNCHANGED <<pc, button, i2s_irq, sound_play, quiet>>
    BY <1>1 DEF BeginButtonCall, MidCall, buttonVars, irqVars
  <2>2. hw_button = button
    BY <1>0, <2>1 DEF Synced
  <2>3. \A i \in Buttons :
          hw_button'[i] = IF btn_call' # <<>> /\ btn_call'[1] = i THEN btn_call'[2] ELSE button[i]
    <3>1. PICK i \in Buttons :
            \/ /\ Head(calls) = Off(i)
               /\ hw_button' = [hw_button EXCEPT ![i] = FALSE]
               /\ btn_call' = IF hw_button[i] THEN <<i, FALSE>> ELSE <<>>
            \/ /\ Head(calls) = Flip(i)
               /\ hw_button' = [hw_button EXCEPT ![i] = ~hw_button[i]]
               /\ btn_call' = <<i, ~hw_button[i]>>
      BY <1>1, ButtonCall
    <3>2. CASE ~hw_button[i] /\ btn_call' = <<>> /\ hw_button' = [hw_button EXCEPT ![i] = FALSE]
      BY <1>0, <2>2, <3>2
    <3>3. ASSUME NEW v \in BOOLEAN, btn_call' = <<i, v>>, hw_button' = [hw_button EXCEPT ![i] = v]
          PROVE  \A j \in Buttons :
                   hw_button'[j] = IF btn_call' # <<>> /\ btn_call'[1] = j
                                   THEN btn_call'[2] ELSE button[j]
      BY <1>0, <2>2, <3>3
    <3> QED
      BY <1>0, <3>1, <3>2, <3>3
  <2>4. Distinct(calls') /\ \A e : In(e, calls') => In(e, calls)
    BY <1>0, <2>1, InTail DEF Synced
  <2>5. ASSUME pc = "volume", \/ btn_call' # <<>>
                              \/ \E k \in DOMAIN calls' : calls'[k].op = "flip"
        PROVE  quiet = 0
    <3>1. \A k \in DOMAIN calls : calls[k].op # "off"
      BY <2>5 DEF CallsPlaced
    <3>2. Head(calls) = calls[1] /\ 1 \in DOMAIN calls
      BY <1>0, <2>1, TailPart
    <3>3. btn_call' # <<>> => Head(calls).op = "flip"
      BY <1>1, <3>1, <3>2 DEF BeginButtonCall
    <3>4. \E k \in DOMAIN calls : calls[k].op = "flip"
      BY <2>4, <2>5, <3>2, <3>3 DEF In
    <3> QED
      BY <2>5, <3>4 DEF Synced
  <2> QED
    BY <1>a, <2>1, <2>3, <2>4, <2>5 DEF Synced, HistoryType
<1>2. CASE BeginSliderCall /\ UNCHANGED quiet
  <2>1. /\ btn_call = <<>> /\ calls # <<>> /\ calls' = Tail(calls)
        /\ UNCHANGED <<pc, button, hw_button, btn_call, i2s_irq, sound_play, quiet>>
    BY <1>2 DEF BeginSliderCall, MidCall, buttonVars, irqVars
  <2>2. Distinct(calls') /\ \A e : In(e, calls') => In(e, calls)
    BY <1>0, <2>1, InTail DEF Synced
  <2>3. (\E k \in DOMAIN calls' : calls'[k].op = "flip")
           => (\E k \in DOMAIN calls : calls[k].op = "flip")
    BY <2>2 DEF In
  <2> QED
    BY <1>a, <2>1, <2>2, <2>3 DEF Synced, HistoryType
<1>3. CASE EndButtonCall /\ UNCHANGED quiet
  <2>1. /\ btn_call # <<>> /\ btn_call' = <<>>
        /\ button' = [button EXCEPT ![btn_call[1]] = btn_call[2]]
        /\ UNCHANGED <<pc, calls, hw_button, i2s_irq, sound_play, quiet>>
    BY <1>3 DEF EndButtonCall, irqVars
  <2>2. btn_call[1] \in Buttons /\ btn_call[2] \in BOOLEAN
    BY <1>0, <2>1
  <2>3. \A i \in Buttons : hw_button[i] = button'[i]
    BY <1>0, <2>1, <2>2 DEF Synced
  <2>4. pc # "boot"
    BY <2>1 DEF CallsPlaced, Idle, MidCall
  <2> QED
    BY <1>a, <2>1, <2>3, <2>4 DEF Synced, HistoryType
<1>4. CASE EndSliderCall /\ UNCHANGED quiet
  BY <1>a, <1>4 DEF EndSliderCall, Synced, HistoryType, buttonVars, irqVars
<1>5. CASE SoundInit
  <2>1. button' = button
    BY <1>0, <1>5 DEF SoundInit, Synced
  <2>2. calls = <<>>
    BY <1>0, <1>5 DEF SoundInit, CallsPlaced, Idle
  <2> QED
    BY <1>5, <1>d, <2>1, <2>2 DEF SoundInit, irqVars, callVars
<1>6. CASE /\ Scan
           /\ (\E i \in DOMAIN calls' : calls'[i].op = "flip") => quiet' = 0
  <2>1. PICK ids \in SUBSET Buttons, moves \in {<<>>} \cup {<<p>> : p \in Sliders} :
            calls' = ScanCalls(ids, moves)
    BY <1>0, <1>6 DEF Scan, ScanCalls
  <2>2. Distinct(calls')
    BY <2>1, ScanCallsIn
  <2>3. btn_call = <<>> /\ UNCHANGED <<button, hw_button, btn_call, i2s_irq, sound_play>>
    BY <1>0, <1>6 DEF Scan, Idle, MidCall, buttonVars, irqVars
  <2> QED
    BY <1>6, <1>a, <2>2, <2>3 DEF Scan, Synced, HistoryType
<1>7. CASE UpdateVolume \/ LatchVolume \/ LatchPlay \/ RecStopped \/ LatchRec \/ ClearStop
           \/ Display \/ Delay
  <2>1. calls = <<>> /\ UNCHANGED <<calls, btn_call, buttonVars, irqVars, sound_play>>
    BY <1>0, <1>7 DEF UpdateVolume, LatchVolume, LatchPlay, RecStopped, LatchRec, ClearStop, Display,
       Delay, CallsPlaced, Idle, callVars
  <2>2. pc' \notin {"boot", "volume"}
    BY <1>0, <1>7 DEF UpdateVolume, LatchVolume, LatchPlay, RecStopped, LatchRec, ClearStop, Display,
       Delay
  <2> QED
    BY <1>d, <2>1, <2>2 DEF buttonVars, irqVars
<1>8. CASE UpdatePlay
  <2>1. UNCHANGED <<buttonVars, btn_call>> /\ i2s_irq' = sound_play'
        /\ pc' \notin {"boot", "volume"} /\ btn_call = <<>> /\ calls = <<>>
    BY <1>8 DEF UpdatePlay, StartPlayback, StopPlayback, Synced, CallsPlaced, Idle, MidCall
  <2>2. Distinct(calls')
    <3>1. calls' = <<>> \/ calls' = <<Off(Rec), Off(Play)>>
      BY <1>8, <2>1 DEF UpdatePlay, CallsOff
    <3>2. Off(Rec) # Off(Play)
      BY DEF Off
    <3> QED
      BY <3>1, <3>2 DEF Distinct
  <2> QED
    BY <1>a, <2>1, <2>2 DEF Synced, HistoryType, buttonVars
<1>9. CASE UpdateRec
  <2>1. UNCHANGED <<buttonVars, btn_call, i2s_irq, sound_play>>
        /\ pc' \notin {"boot", "volume"} /\ btn_call = <<>> /\ calls = <<>>
    BY <1>0, <1>9 DEF UpdateRec, CallsPlaced, Idle, MidCall
  <2>2. Distinct(calls')
    <3>1. calls' \in {<<>>, <<Off(Play), Off(Rec)>>, <<Off(Rec)>>}
      BY <1>9, <2>1 DEF UpdateRec, CallsOff
    <3>2. Off(Rec) # Off(Play)
      BY DEF Off
    <3> QED
      BY <3>1, <3>2 DEF Distinct
  <2> QED
    BY <1>a, <2>1, <2>2 DEF Synced, HistoryType, buttonVars
<1>10. CASE CheckStop
  <2>1. UNCHANGED <<buttonVars, btn_call, irqVars, sound_play>>
        /\ pc' \notin {"boot", "volume"} /\ btn_call = <<>> /\ calls' \in {<<>>, <<Off(Play)>>}
    BY <1>10 DEF CheckStop, StopCalls, CallsPlaced, Idle, MidCall
  <2>2. Distinct(calls')
    BY <2>1 DEF Distinct
  <2> QED
    BY <1>a, <2>1, <2>2 DEF Synced, HistoryType, buttonVars, irqVars
<1>11. CASE (PdmInt \/ I2sInt \/ RemoteSlider) /\ UNCHANGED quiet
  BY <1>11, <1>c DEF PdmInt, I2sInt, RemoteSlider, buttonVars, irqVars
<1>12. CASE UNCHANGED inputVars
  BY <1>12, <1>c DEF inputVars, vars, buttonVars, irqVars
<1>13. CASE RemoteButtons /\ Input
  <2>1. /\ Place \in RemotePoints
        /\ UNCHANGED <<pc, i2s_irq, sound_play, calls, btn_call>>
    BY <1>13 DEF RemoteButtons, irqVars, callVars
  <2>2. btn_call = <<>>
    BY <2>1 DEF Undisturbed, Place, MidCall
  <2>3. pc # "boot"
    BY <2>1, <2>2 DEF Undisturbed, Place, CallsPlaced, Idle
  <2>4. hw_button = button
    BY <1>0, <2>2 DEF Synced
  <2>5. hw_button' = button'
    BY <1>0, <1>13, <2>4 DEF RemoteButtons
  <2>6. quiet' = 0 /\ Distinct(calls) /\ i2s_irq = sound_play
    BY <1>13 DEF Input, Synced
  <2> QED
    BY <1>a, <2>1, <2>2, <2>3, <2>5, <2>6 DEF Synced, HistoryType
<1>14. CASE PowerLoss
  BY <1>14, <1>a, <1>b DEF PowerLoss, ResetRam, Synced, HistoryType
<1> QED
  BY <1>1, <1>2, <1>3, <1>4, <1>5, <1>6, <1>7, <1>8, <1>9, <1>10, <1>11, <1>12, <1>13, <1>14
     DEF NextInputs, Input, LoopStep
-----------------------------------------------------------------------------
(* The parts of sound_update before the rec button is looked at.           *)
Low == {"scan", "volume", "latchVolume", "play"}

Both    == sound_rec /\ sound_play
OffBoth == ~button[Play] /\ ~button[Rec]
AllOff  == OffBoth /\ ~sound_rec /\ ~sound_play
Follows == button[Play] = sound_play /\ button[Rec] = sound_rec /\ ~Both

(* A request of i2s_int to stop is of the playback that runs.              *)
StopSeen == call_stop_play => sound_play

(* Button i is off, or about to be switched off.                           *)
Dropped(i) == ~button[i] \/ In(Off(i), calls) \/ btn_call = <<i, FALSE>>

(* The machine does what the buttons say, but for a play button switched   *)
(* off at the end of the take, whose playback the next update ends.        *)
Done ==
    /\ button[Rec] = sound_rec /\ ~Both /\ StopSeen
    /\ button[Play] => sound_play
    /\ sound_play /\ ~button[Play] => ~i2s_mask /\ ~call_stop_play

Blank == ~sound_rec /\ ~sound_play => shown = -1

(* In every pass.                                                          *)
Always ==
    /\ call_stop_play /\ sound_play => ~i2s_mask
    /\ pc = "boot" => quiet = QuietBound /\ AllOff /\ ~call_stop_play /\ Blank
    /\ pc = "latchPlay" => button[Play] = sound_play /\ ~button[Rec]
    /\ pc = "recStopped" => OffBoth /\ ~sound_play
    /\ pc = "latchRec" => ~button[Play] /\ button[Rec] = sound_rec
    /\ pc = "clearStop" => call_stop_play
    /\ pc \in {"display", "delay"} => StopSeen

(* The pass of the input: the update may see one button and not the other, *)
(* and start to play while it records.                                     *)
Pass0 ==
    /\ pc \in Low => ~Both /\ StopSeen
    /\ pc = "rec" => \/ ~Both /\ StopSeen
                     \/ button[Play] = sound_play /\ (Both => ~button[Rec])
    /\ pc \in {"stopCheck", "clearStop", "display"} => (Both => ~button[Play])
    /\ pc = "delay" => (Both => ~button[Play] \/ ~button[Rec])

(* The next: what the buttons ask for is done, or both are switched off.   *)
Pass1 ==
    /\ pc \in Low => (Both => ~button[Play] \/ ~button[Rec]) /\ StopSeen
    /\ pc = "rec" => button[Play] = sound_play /\ (Both => ~button[Rec])
    /\ pc = "delay" => (Idle /\ Done) \/ (Dropped(Play) /\ Dropped(Rec))

(* Then that is done as well, and shown.                                   *)
Pass2 ==
    /\ pc \in Low => (OffBoth \/ Follows) /\ StopSeen
    /\ pc = "latchPlay" => OffBoth
    /\ pc = "rec" => button[Play] = sound_play /\ (OffBoth \/ Follows)
    /\ pc = "delay" => Idle /\ Done /\ Blank

(* Then only the end of a playback changes anything.                       *)
Pass3 ==
    /\ pc \in Low => Done
    /\ pc \in {"scan", "delay"} => Blank
    /\ pc \in {"latchPlay", "rec"} => Follows /\ StopSeen
    /\ pc = "stopCheck" => StopSeen
    /\ pc \notin {"recStopped", "latchRec"}
    /\ pc = "delay" => Idle /\ Done

(* After the pass of the input, once the rec button was looked at.         *)
Later ==
    /\ pc = "latchRec" => ~sound_play
    /\ pc = "stopCheck" => Follows
    /\ pc = "clearStop" =>
          button[Rec] = sound_rec /\ ~Both /\ (button[Play] => sound_play) /\ Dropped(Play)
    /\ pc = "display" => Done

Settling ==
    calm =>
        /\ Always
        /\ quiet = 0 => Pass0
        /\ quiet = 1 => Pass1
        /\ quiet = 2 => Pass2
        /\ quiet = 3 => Pass3
        /\ quiet > 0 => Later

LEMMA DroppedKept ==
  ASSUME TypeOK, CallsPlaced, Synced,
         BeginButtonCall \/ (EndButtonCall /\ pc # "volume"), NEW i \in Buttons
  PROVE  /\ Dropped(i) => Dropped(i)'
         /\ button'[i] => button[i]
<1>0. /\ button \in [Buttons -> BOOLEAN] /\ hw_button \in [Buttons -> BOOLEAN]
      /\ calls \in Seq(Calls) /\ btn_call \in {<<>>} \cup (Buttons \X BOOLEAN)
  BY DEF TypeOK, ButtonType, CallType
<1>1. CASE BeginButtonCall
  <2>1. /\ btn_call = <<>> /\ calls # <<>> /\ calls' = Tail(calls)
        /\ UNCHANGED button
    BY <1>1 DEF BeginButtonCall, MidCall
  <2>2. ASSUME Dropped(i), button[i] PROVE Dropped(i)'
    <3>1. In(Off(i), calls) /\ hw_button[i]
      BY <1>0, <2>1, <2>2 DEF Dropped, Synced
    <3>2. CASE Head(calls) = Off(i)
      <4>1. \A j \in Buttons : Off(i) # Flip(j) /\ (Off(i) = Off(j) => i = j)
        BY DEF Off, Flip
      <4>2. btn_call' = <<i, FALSE>>
        BY <1>1, <3>1, <3>2, <4>1, ButtonCall
      <4> QED
        BY <4>2 DEF Dropped
    <3>3. CASE Head(calls) # Off(i)
      BY <1>0, <2>1, <3>1, <3>3, InTail DEF Synced, Dropped
    <3> QED
      BY <3>2, <3>3
  <2> QED
    BY <2>1, <2>2 DEF Dropped
<1>2. CASE EndButtonCall /\ pc # "volume"
  <2>1. /\ btn_call # <<>> /\ calls' = calls
        /\ button' = [button EXCEPT ![btn_call[1]] = btn_call[2]]
    BY <1>2 DEF EndButtonCall
  <2>2. btn_call[1] \in Buttons /\ btn_call[2] = FALSE
    BY <1>0, <1>2, <2>1 DEF CallsPlaced
  <2>3. button'[i] => button[i] /\ i # btn_call[1]
    BY <1>0, <2>1, <2>2
  <2>4. i # btn_call[1] => btn_call # <<i, FALSE>>
    <3>1. <<i, FALSE>>[1] = i
      OBVIOUS
    <3> QED
      BY <3>1
  <2> QED
    BY <2>1, <2>3, <2>4 DEF Dropped
<1> QED
  BY <1>1, <1>2

LEMMA SettlingStep ==
  ASSUME Undisturbed, TypeOK, CallsPlaced, FlagsKept, Synced, Settling, [NextInputs]_inputVars
  PROVE  Settling'
<1> USE DEF Play, Rec, Buttons, QuietBound
<1>0. /\ button \in [Buttons -> BOOLEAN] /\ hw_button \in [Buttons -> BOOLEAN]
      /\ last_button \in [Buttons -> BOOLEAN]
      /\ calls \in Seq(Calls) /\ btn_call \in {<<>>} \cup (Buttons \X BOOLEAN)
      /\ sound_rec \in BOOLEAN /\ sound_play \in BOOLEAN /\ i2s_mask \in BOOLEAN
      /\ call_stop_play \in BOOLEAN /\ calm \in BOOLEAN /\ quiet \in 0 .. 3
  BY DEF TypeOK, ButtonType, CallType, FlagType, PlayType, Synced
<1> DEFINE Machine == <<sound_rec, sound_play, i2s_mask, call_stop_play, shown, quiet, calm>>
<1>1. CASE BeginButtonCall /\ UNCHANGED <<quiet, calm>>
  <2>1. /\ btn_call = <<>> /\ calls # <<>> /\ calls' = Tail(calls)
        /\ UNCHANGED <<pc, button, Machine>>
    BY <1>1 DEF BeginButtonCall, MidCall, buttonVars, playVars
  <2>2. pc \in {"volume", "delay", "recStopped", "clearStop"}
    BY <2>1 DEF CallsPlaced, Idle
  <2>3. \A i \in Buttons : Dropped(i) => Dropped(i)'
    BY <1>1, DroppedKept
  <2>4. ~Idle
    BY <2>1 DEF Idle
  <2> QED
    BY <2>1, <2>2, <2>3, <2>4 DEF Settling, Always, Pass0, Pass1, Pass2, Pass3, Later, Low, Both,
       OffBoth, AllOff, Follows, StopSeen, Done, Blank
<1>2. CASE (BeginSliderCall \/ EndSliderCall) /\ UNCHANGED <<quiet, calm>>
  <2>1. UNCHANGED <<pc, button, Machine>> /\ pc = "volume"
    <3>1. BeginSliderCall => pc = "volume"
      <4>1. ASSUME BeginSliderCall PROVE 1 \in DOMAIN calls /\ calls[1].op = "slide"
        BY <1>0, <4>1, TailPart DEF BeginSliderCall
      <4> QED
        BY <4>1 DEF CallsPlaced
    <3>2. EndSliderCall => pc = "volume"
      BY DEF EndSliderCall, CallsPlaced
    <3> QED
      BY <1>2, <3>1, <3>2 DEF BeginSliderCall, EndSliderCall, buttonVars, playVars
  <2> QED
    BY <2>1 DEF Settling, Always, Pass0, Pass1, Pass2, Pass3, Later, Low, Both,
       OffBoth, AllOff, Follows, StopSeen, Done, Blank
<1>3. CASE EndButtonCall /\ UNCHANGED <<quiet, calm>>
  <2>1. /\ btn_call # <<>> /\ btn_call' = <<>>
        /\ button' = [button EXCEPT ![btn_call[1]] = btn_call[2]]
        /\ UNCHANGED <<pc, calls, Machine>>
    BY <1>3 DEF EndButtonCall, playVars
  <2>2. btn_call[1] \in Buttons /\ btn_call[2] \in BOOLEAN /\ ~Idle
    BY <1>0, <2>1 DEF Idle, MidCall
  <2>3. pc \in {"volume", "delay", "recStopped", "clearStop"}
    BY <2>2 DEF CallsPlaced
  <2>4. pc = "volume" => quiet = 0
    BY <2>1 DEF Synced
  <2>5. pc # "volume" => /\ button'[btn_call[1]] = FALSE
                         /\ \A i \in Buttons : button'[i] => button[i] /\ i # btn_call[1]
    BY <1>0, <2>1, <2>2 DEF CallsPlaced
  <2>6. pc # "volume" => \A i \in Buttons : Dropped(i) => Dropped(i)'
    BY <1>3, DroppedKept
  <2>7. ASSUME pc = "clearStop" PROVE btn_call[1] = Play
    <3>1. btn_call = <<Play, FALSE>>
      BY <2>1, <2>7 DEF CallsPlaced
    <3> QED
      BY <3>1
  <2>8. CASE pc = "volume"
    BY <2>1, <2>4, <2>8 DEF Settling, Always, Pass0, Low, Both, StopSeen
  <2>9. CASE pc = "delay"
    BY <2>1, <2>2, <2>5, <2>6, <2>9 DEF Settling, Always, Pass0, Pass1, Pass2, Pass3, Later, Low,
       Both, StopSeen
  <2>10. CASE pc = "recStopped"
    BY <2>1, <2>5, <2>10 DEF Settling, Always, Pass0, Pass1, Pass2, Pass3, Later, Low,
       Both, StopSeen, OffBoth
  <2>11. CASE pc = "clearStop"
    BY <1>0, <2>1, <2>5, <2>6, <2>7, <2>11 DEF Settling, Always, Pass0, Pass1, Pass2, Pass3,
       Later, Low, Both, StopSeen
  <2> QED
    BY <2>3, <2>8, <2>9, <2>10, <2>11
<1> USE DEF Settling, Always, Low, Both, OffBoth, AllOff, Follows, StopSeen
<1>4. CASE SoundInit /\ UNCHANGED <<quiet, calm>>
  <2>1. button' = button
    BY <1>0, <1>4 DEF SoundInit, Synced
  <2> QED
    BY <1>0, <1>4, <2>1 DEF SoundInit, playVars, Pass0, Pass1, Pass2, Pass3, Later, Done, Blank
<1>5. CASE Scan /\ UNCHANGED <<quiet, calm>>
  BY <1>0, <1>5 DEF Scan, playVars, buttonVars, Pass0, Pass1, Pass2, Pass3, Later, Done, Blank
<1>6. CASE Scan /\ Input
  BY <1>0, <1>6 DEF Scan, Input, playVars, buttonVars, Pass0, Pass3, Done
<1>7. CASE (UpdateVolume \/ LatchVolume) /\ UNCHANGED <<quiet, calm>>
  BY <1>0, <1>7 DEF UpdateVolume, LatchVolume, playVars, buttonVars, Pass0, Pass1, Pass2, Pass3, Later,
     Done, Blank
<1>8. CASE UpdatePlay /\ UNCHANGED <<quiet, calm>>
  <2>1. /\ pc = "play" /\ last_button[Play] = sound_play
        /\ UNCHANGED <<sound_rec, call_stop_play, shown, button, hw_button>>
    BY <1>8 DEF UpdatePlay, FlagsKept, buttonVars
  <2>2. CASE /\ pc' = "rec" /\ button[Play] = last_button[Play]
             /\ UNCHANGED <<sound_play, i2s_mask, calls>>
    BY <1>0, <1>8, <2>1, <2>2 DEF Pass0, Pass1, Pass2, Pass3, Later, Done
  <2>3. CASE /\ pc' = "delay" /\ button[Play] # last_button[Play] /\ button[Rec]
             /\ calls' = <<Off(Rec), Off(Play)>>
             /\ UNCHANGED <<sound_play, i2s_mask>>
    <3>1. Dropped(Play)' /\ Dropped(Rec)'
      BY <2>3, InTuple DEF Dropped
    <3>2. calm => quiet \notin {2, 3}
      BY <1>0, <2>1, <2>3 DEF Pass2, Pass3, Done
    <3>3. calm /\ quiet = 0 => StopSeen' /\ (~button'[Play] \/ ~Both')
      BY <1>0, <2>1, <2>3 DEF Pass0
    <3>4. calm /\ quiet = 1 => StopSeen'
      BY <1>0, <2>1, <2>3 DEF Pass1
    <3> QED
      BY <1>0, <1>8, <2>1, <2>3, <3>1, <3>2, <3>3, <3>4 DEF Pass0, Pass1, Later
  <2>4. CASE /\ pc' = "latchPlay" /\ button[Play] # last_button[Play] /\ ~button[Rec]
             /\ sound_play' = button[Play]
    BY <1>0, <1>8, <2>1, <2>4 DEF Pass0, Pass1, Pass2, Pass3, Later, Done
  <2> QED
    BY <1>0, <1>8, <2>2, <2>3, <2>4 DEF UpdatePlay, CallsOff, StartPlayback, StopPlayback, playVars
<1>9. CASE LatchPlay /\ UNCHANGED <<quiet, calm>>
  BY <1>0, <1>9 DEF LatchPlay, playVars, buttonVars, Pass0, Pass1, Pass2, Pass3, Later, Done
<1>10. CASE UpdateRec /\ UNCHANGED <<quiet, calm>>
  <2>1. /\ pc = "rec" /\ last_button[Rec] = sound_rec
        /\ UNCHANGED <<sound_play, i2s_mask, call_stop_play, shown, button, hw_button>>
    BY <1>10 DEF UpdateRec, FlagsKept, buttonVars, playVars
  <2>2. CASE /\ pc' = "stopCheck" /\ button[Rec] = last_button[Rec]
             /\ UNCHANGED <<sound_rec, calls>>
    BY <1>0, <1>10, <2>1, <2>2 DEF Pass0, Pass1, Pass2, Pass3, Later, Done
  <2>3. CASE /\ pc' = "delay" /\ button[Rec] # last_button[Rec] /\ button[Play]
             /\ calls' = <<Off(Play), Off(Rec)>>
             /\ UNCHANGED sound_rec
    <3>1. Dropped(Play)' /\ Dropped(Rec)'
      BY <2>3, InTuple DEF Dropped
    <3> QED
      BY <1>0, <1>10, <2>1, <2>3, <3>1 DEF Pass0, Pass1, Pass2, Pass3, Later, Done
  <2>4. CASE /\ pc' = "latchRec" /\ button[Rec] # last_button[Rec] /\ ~button[Play]
             /\ sound_rec' = button[Rec]
    BY <1>0, <1>10, <2>1, <2>4 DEF Pass0, Pass1, Pass2, Pass3, Later, Done
  <2>5. CASE /\ pc' = "recStopped" /\ ~button[Rec] /\ sound_rec /\ ~button[Play]
             /\ UNCHANGED sound_rec
    BY <1>0, <1>10, <2>1, <2>5 DEF Pass0, Pass1, Pass2, Pass3, Later, Done
  <2> QED
    BY <1>0, <1>10, <2>2, <2>3, <2>4, <2>5 DEF UpdateRec, CallsOff, StartRecord, StopRecord
<1>11. CASE RecStopped /\ UNCHANGED <<quiet, calm>>
  BY <1>0, <1>11 DEF RecStopped, playVars, buttonVars, Pass0, Pass1, Pass2, Pass3, Later, Done
<1>12. CASE LatchRec /\ UNCHANGED <<quiet, calm>>
  BY <1>0, <1>12 DEF LatchRec, playVars, buttonVars, Pass0, Pass1, Pass2, Pass3, Later, Done
<1>13. CASE CheckStop /\ UNCHANGED <<quiet, calm>>
  <2>1. pc' = "clearStop" => call_stop_play /\ (sound_play => Dropped(Play)')
    <3>1. calls' = <<Off(Play)>> => Dropped(Play)'
      BY InTuple DEF Dropped
    <3> QED
      BY <1>13, <3>1 DEF CheckStop, StopCalls
  <2>2. ~button[Play] => Dropped(Play)'
    BY <1>13 DEF CheckStop, Dropped, buttonVars
  <2> QED
    BY <1>0, <1>13, <2>1, <2>2 DEF CheckStop, playVars, buttonVars, Pass0, Pass1, Pass2, Pass3,
       Later, Done
<1>14. CASE ClearStop /\ UNCHANGED <<quiet, calm>>
  <2>1. Dropped(Play) => ~button[Play]
    BY <1>14, InTuple DEF ClearStop, Idle, MidCall, Dropped
  <2> QED
    BY <1>0, <1>14, <2>1 DEF ClearStop, playVars, buttonVars, Pass0, Pass1, Pass2, Pass3,
       Later, Done
<1>15. CASE Display /\ UNCHANGED <<quiet, calm>>
  BY <1>0, <1>15 DEF Display, playVars, buttonVars, callVars, Pass0, Pass1, Pass2, Pass3, Later,
     Done, Blank, Idle, MidCall, CallsPlaced
<1>16. CASE /\ Delay
            /\ quiet' = IF quiet < QuietBound THEN quiet + 1 ELSE quiet
            /\ calm' = calm
  <2>1. (Dropped(Play) => ~button[Play]) /\ (Dropped(Rec) => ~button[Rec])
    BY <1>16, InTuple DEF Delay, Idle, MidCall, Dropped
  <2> QED
    BY <1>0, <1>16, <2>1 DEF Delay, playVars, buttonVars, Pass0, Pass1, Pass2, Pass3, Later, Done,
       Blank
<1>17. CASE (PdmInt \/ RemoteSlider) /\ UNCHANGED <<quiet, calm>>
  BY <1>0, <1>17 DEF PdmInt, RemoteSlider, playVars, buttonVars, callVars, Pass0, Pass1, Pass2, Pass3,
     Later, Done, Blank, Idle, MidCall, Dropped
<1>18. CASE I2sInt /\ UNCHANGED <<quiet, calm>>
  <2>1. /\ UNCHANGED <<pc, calls, btn_call, sld_call, button, sound_rec, sound_play, shown>>
        /\ sound_play
        /\ \/ UNCHANGED <<i2s_mask, call_stop_play>>
           \/ ~i2s_mask' /\ call_stop_play'
    BY <1>18 DEF I2sInt, playVars, buttonVars, callVars, Synced
  <2>2. i2s_mask /\ calm' = calm /\ quiet' = quiet
    BY <1>18 DEF I2sInt
  <2>3. calm => ~call_stop_play /\ pc # "clearStop"
    BY <2>1, <2>2
  <2>4. (Done => Done') /\ Idle' = Idle /\ Blank' = Blank
    BY <1>0, <2>1, <2>2 DEF Done, Idle, MidCall, Blank
  <2>5. \A i \in Buttons : Dropped(i)' = Dropped(i)
    BY <2>1 DEF Dropped
  <2> QED
    BY <1>0, <2>1, <2>2, <2>3, <2>4, <2>5 DEF Pass0, Pass1, Pass2, Pass3, Later
<1>19. CASE UNCHANGED inputVars
  BY <1>0, <1>19 DEF inputVars, vars, playVars, buttonVars, callVars, Pass0, Pass1, Pass2, Pass3, Later,
     Done, Blank, Idle, MidCall, Dropped
<1>20. CASE RemoteButtons /\ Input
  <2>1. pc \notin {"boot", "latchPlay"}
    BY <1>20 DEF RemoteButtons, Undisturbed, Latches, Place, CallsPlaced, Idle
  <2>2. /\ calm' => calm /\ quiet = 3
        /\ quiet' = 0
        /\ UNCHANGED <<pc, sound_rec, sound_play, i2s_mask, call_stop_play>>
    BY <1>20 DEF RemoteButtons, Input, playVars
  <2> QED
    BY <1>0, <2>1, <2>2 DEF Pass0, Pass3, Later, Done
<1>21. CASE PowerLoss /\ quiet' = QuietBound
  BY <1>21 DEF PowerLoss, ResetRam, Pass3, Later, Blank
<1> QED
  BY <1>1, <1>2, <1>3, <1>4, <1>5, <1>6, <1>7, <1>8, <1>9, <1>10, <1>11, <1>12, <1>13, <1>14,
     <1>15, <1>16, <1>17, <1>18, <1>19, <1>20, <1>21 DEF NextInputs, LoopStep, Input

SettlingInv == Synced /\ Settling

LEMMA SettlingInductive ==
  Undisturbed => (SpecInputs => [](TypeOK /\ CallsPlaced /\ FlagsKept /\ SettlingInv))
<1> SUFFICES ASSUME Undisturbed
             PROVE  SpecInputs => [](TypeOK /\ CallsPlaced /\ FlagsKept /\ SettlingInv)
  OBVIOUS
<1>1. RemotePoints \cap Latches = {}
  BY DEF Undisturbed
<1>2. Spec => [](TypeOK /\ FlagsKept)
  BY <1>1, FlagsInductive
<1>3. InitInputs => SettlingInv
  <2> SUFFICES ASSUME InitInputs PROVE SettlingInv
    OBVIOUS
  <2> USE DEF InitInputs, Init, Buttons, Play, Rec, QuietBound
  <2>1. Synced
    BY DEF Synced, Distinct
  <2>2. Settling
    BY DEF Settling, Always, Pass3, Later, AllOff, OffBoth, Blank, Low
  <2> QED
    BY <2>1, <2>2 DEF SettlingInv
<1>4. TypeOK /\ CallsPlaced /\ FlagsKept /\ SettlingInv /\ [NextInputs]_inputVars => SettlingInv'
  BY SyncedStep, SettlingStep DEF SettlingInv
<1> QED
  BY <1>2, <1>3, <1>4, InputsImplement, CallsPlacedInductive, PTL DEF SpecInputs

(* sound_update settles: two passes after the last input the machine does  *)
(* what the buttons show, whoever sent or touched what, wherever a remote  *)
(* command preempts the main loop outside a call of hw_set_button and the  *)
(* latches.                                                                *)
THEOREM SettledAlways == Undisturbed => (SpecInputs => []Settled)
<1> SUFFICES ASSUME Undisturbed PROVE SpecInputs => []Settled
  OBVIOUS
<1>1. TypeOK /\ CallsPlaced /\ SettlingInv => Settled
  <2> SUFFICES ASSUME TypeOK, CallsPlaced, Synced, Settling, Left, calm PROVE Settled
    BY DEF SettlingInv, Settled
  <2>1. pc = "scan" /\ quiet = 3 /\ btn_call = <<>>
    BY DEF Left, QuietBound, CallsPlaced, Idle, MidCall
  <2>2. /\ button \in [Buttons -> BOOLEAN] /\ hw_button \in [Buttons -> BOOLEAN]
        /\ sound_rec \in BOOLEAN /\ sound_play \in BOOLEAN /\ i2s_mask \in BOOLEAN
    BY DEF TypeOK, ButtonType, FlagType, PlayType
  <2>3. hw_button = button
    BY <2>1, <2>2 DEF Synced
  <2>4. Done /\ Blank
    BY <2>1 DEF Settling, Pass3, Low
  <2> QED
    BY <2>2, <2>3, <2>4 DEF Settled, Done, Blank, Both, Buttons, Play, Rec
<1> QED
  BY <1>1, SettlingInductive, PTL

-----------------------------------------------------------------------------
(* What button i will be when the calls of the scan have been made.        *)
Wanted(i) == IF In(Flip(i), calls) THEN ~hw_button[i] ELSE hw_button[i]

(* From a touch that asks a busy device to stop until it has: the device   *)
(* did one thing, the touch changed a button, and whatever it asks for now *)
(* is met by a stop in this update or by both buttons off in the next.     *)
AskedPass ==
    /\ pc # "scan"
    /\ pc = "volume" =>
          sound_rec # sound_play /\ ~(Wanted(Play) = sound_play /\ Wanted(Rec) = sound_rec)
    /\ pc \in {"latchVolume", "play"} =>
          sound_rec # sound_play /\ ~(button[Play] = sound_play /\ button[Rec] = sound_rec)
    /\ pc = "latchPlay" => (sound_play => sound_rec)
    /\ pc = "rec" =>
          /\ button[Play] = sound_play
          /\ button[Play] => button[Rec] # sound_rec
          /\ ~button[Play] => ~button[Rec]
    /\ pc \in {"latchRec", "stopCheck", "clearStop", "display"} => AllOff
    /\ pc = "delay" => Dropped(Play) /\ Dropped(Rec)

NextPass ==
    /\ pc \in Low => OffBoth
    /\ pc \in {"latchPlay", "rec"} => OffBoth /\ ~sound_play
    /\ pc \in {"latchRec", "stopCheck", "clearStop", "display", "delay"} => AllOff

Stops ==
    asked =>
        /\ calm /\ pc # "boot"
        /\ quiet = 0 => AskedPass
        /\ quiet = 1 => NextPass
        /\ quiet > 1 => AllOff

LEMMA StopsStep ==
  ASSUME Undisturbed, TypeOK, CallsPlaced, FlagsKept, Synced, Settling, Stops,
         [NextInputs]_inputVars, asked', HistoryType'
  PROVE  Stops'
<1> USE DEF Play, Rec, Buttons, QuietBound, Stops, AllOff, OffBoth, Low
<1>0. /\ button \in [Buttons -> BOOLEAN] /\ hw_button \in [Buttons -> BOOLEAN]
      /\ last_button \in [Buttons -> BOOLEAN]
      /\ calls \in Seq(Calls) /\ btn_call \in {<<>>} \cup (Buttons \X BOOLEAN)
      /\ sound_rec \in BOOLEAN /\ sound_play \in BOOLEAN /\ i2s_mask \in BOOLEAN
      /\ quiet \in 0 .. 3
  BY DEF TypeOK, ButtonType, CallType, FlagType, PlayType, Synced
<1>a. (asked /\ calm /\ pc # "boot") \/ Scan
  BY DEF NextInputs, inputVars
<1> DEFINE Frozen == UNCHANGED <<quiet, calm, asked>>
<1>1. CASE BeginButtonCall /\ Frozen
  <2>1. /\ btn_call = <<>> /\ calls # <<>> /\ calls' = Tail(calls)
        /\ UNCHANGED <<pc, button, sound_rec, sound_play>>
    BY <1>1 DEF BeginButtonCall, MidCall
  <2>2. pc \in {"volume", "delay", "recStopped", "clearStop"}
    BY <2>1 DEF CallsPlaced, Idle
  <2>3. \A i \in Buttons : Dropped(i) => Dropped(i)'
    BY <1>1, DroppedKept
  <2>4. ASSUME pc = "volume", NEW i \in Buttons PROVE Wanted(i)' = Wanted(i)
    <3>1. \A e : In(e, calls') <=> In(e, calls) /\ e # Head(calls)
      BY <1>0, <2>1, InTail DEF Synced
    <3>2. In(Head(calls), calls) /\ Head(calls).op # "off"
      BY <1>0, <2>1, <2>4, TailPart DEF In, CallsPlaced
    <3>3. PICK j \in Buttons :
            Head(calls) = Flip(j) /\ hw_button' = [hw_button EXCEPT ![j] = ~hw_button[j]]
      <4>1. \A k \in Buttons : Off(k).op = "off"
        BY DEF Off
      <4> QED
        BY <1>1, <3>2, <4>1, ButtonCall
    <3>4. Flip(i) = Flip(j) <=> i = j
      BY DEF Flip
    <3>5. CASE i = j
      <4>1. In(Flip(i), calls) /\ ~In(Flip(i), calls') /\ hw_button'[i] = ~hw_button[i]
        BY <1>0, <3>1, <3>2, <3>3, <3>5
      <4> QED
        BY <1>0, <4>1 DEF Wanted
    <3>6. CASE i # j
      <4>1. (In(Flip(i), calls) <=> In(Flip(i), calls')) /\ hw_button'[i] = hw_button[i]
        BY <1>0, <3>1, <3>3, <3>4, <3>6
      <4> QED
        BY <1>0, <4>1 DEF Wanted, In
    <3> QED
      BY <3>5, <3>6
  <2> QED
    BY <1>1, <1>a, <2>1, <2>2, <2>3, <2>4 DEF AskedPass, NextPass, BeginButtonCall, Scan, Idle
<1>2. CASE BeginSliderCall /\ Frozen
  <2>1. /\ btn_call = <<>> /\ calls # <<>> /\ calls' = Tail(calls)
        /\ UNCHANGED <<pc, button, hw_button, sound_rec, sound_play>>
    BY <1>2 DEF BeginSliderCall, MidCall, buttonVars
  <2>2. Head(calls).op = "slide" /\ 1 \in DOMAIN calls /\ Head(calls) = calls[1]
    BY <1>0, <1>2, <2>1, TailPart DEF BeginSliderCall
  <2>3. pc = "volume"
    BY <2>2 DEF CallsPlaced
  <2>4. ASSUME NEW i \in Buttons PROVE Wanted(i)' = Wanted(i)
    <3>1. Flip(i) # Head(calls)
      BY <2>2 DEF Flip
    <3>2. In(Flip(i), calls) <=> In(Flip(i), calls')
      BY <1>0, <2>1, <3>1, InTail DEF Synced
    <3> QED
      BY <2>1, <3>2 DEF Wanted, In
  <2> QED
    BY <1>2, <1>a, <2>1, <2>3, <2>4 DEF AskedPass, NextPass, Scan
<1>3. CASE EndButtonCall /\ Frozen
  <2>1. /\ btn_call # <<>> /\ UNCHANGED <<pc, calls, hw_button, sound_rec, sound_play>>
    BY <1>3 DEF EndButtonCall
  <2>2. pc \in {"volume", "delay", "recStopped", "clearStop"} /\ (pc = "volume" => quiet = 0)
    BY <2>1 DEF CallsPlaced, Idle, MidCall, Synced
  <2>3. pc # "volume" =>
          \A i \in Buttons : (Dropped(i) => Dropped(i)') /\ (button'[i] => button[i])
    BY <1>3, DroppedKept
  <2>4. \A i \in Buttons : Wanted(i)' = Wanted(i)
    BY <2>1 DEF Wanted
  <2>5. asked /\ calm
    BY <1>3, <1>a, <2>2 DEF Scan
  <2> QED
    BY <1>3, <2>1, <2>2, <2>3, <2>4, <2>5 DEF AskedPass, NextPass
<1>4. CASE EndSliderCall /\ Frozen
  <2>1. UNCHANGED <<pc, calls, hw_button, button, sound_rec, sound_play>> /\ pc = "volume"
    BY <1>4 DEF EndSliderCall, buttonVars, CallsPlaced
  <2>2. \A i \in Buttons : Wanted(i)' = Wanted(i)
    BY <2>1 DEF Wanted
  <2> QED
    BY <1>4, <1>a, <2>1, <2>2 DEF AskedPass, NextPass, Scan
<1>5. CASE Scan /\ Frozen
  <2>1. UNCHANGED <<button, sound_rec, sound_play>> /\ quiet # 0 /\ asked /\ calm
    BY <1>0, <1>5 DEF Scan, buttonVars, AskedPass
  <2> QED
    BY <1>0, <1>5, <2>1 DEF Scan, NextPass
<1>6. CASE /\ Scan /\ Input
           /\ \E i \in DOMAIN calls' : calls'[i].op = "flip"
           /\ asked' = (calm' /\ (sound_rec \/ (sound_play /\ i2s_mask)))
  <2>1. PICK ids \in SUBSET Buttons, moves \in {<<>>} \cup {<<p>> : p \in Sliders} :
            calls' = ScanCalls(ids, moves)
    BY <1>6 DEF Scan, ScanCalls
  <2>2. ids # {} /\ \A i \in Buttons : In(Flip(i), calls') <=> i \in ids
    BY <1>6, <2>1, ScanCallsIn
  <2>3. /\ calm /\ calm' /\ quiet = 3 /\ quiet' = 0 /\ pc = "scan" /\ pc' = "volume"
        /\ btn_call = <<>> /\ UNCHANGED <<hw_button, sound_rec, sound_play>>
        /\ sound_rec \/ (sound_play /\ i2s_mask)
    BY <1>6 DEF Scan, Input, Idle, MidCall, buttonVars
  <2>4. hw_button = button
    BY <1>0, <2>3 DEF Synced
  <2>5. Done
    BY <2>3 DEF Settling, Pass3
  <2>6. button[Play] = sound_play /\ button[Rec] = sound_rec /\ sound_rec # sound_play
    BY <1>0, <2>3, <2>5 DEF Done, Both
  <2>7. PICK i \in Buttons : i \in ids
    BY <2>2
  <2>8. Wanted(i)' # button[i]
    BY <1>0, <2>2, <2>3, <2>4, <2>7 DEF Wanted, In
  <2> QED
    BY <2>3, <2>6, <2>8 DEF AskedPass
<1>7. CASE (UpdateVolume \/ LatchVolume) /\ Frozen
  <2>1. pc = "volume" => Wanted(Play) = button[Play] /\ Wanted(Rec) = button[Rec]
    <3>1. ASSUME pc = "volume" PROVE btn_call = <<>> /\ calls = <<>>
      BY <1>7, <3>1 DEF UpdateVolume, LatchVolume, Idle, MidCall
    <3> QED
      BY <1>0, <3>1, InTuple DEF Wanted, Synced
  <2> QED
    BY <1>0, <1>7, <1>a, <2>1 DEF UpdateVolume, LatchVolume, buttonVars, AskedPass, NextPass, Scan
<1>8. CASE UpdatePlay /\ Frozen
  <2>1. /\ pc = "play" /\ last_button[Play] = sound_play /\ asked /\ calm
        /\ UNCHANGED <<sound_rec, button>>
    BY <1>8, <1>a DEF UpdatePlay, FlagsKept, buttonVars, Scan
  <2>2. CASE /\ pc' = "rec" /\ button[Play] = last_button[Play]
             /\ UNCHANGED sound_play
    BY <1>0, <1>8, <2>1, <2>2 DEF AskedPass, NextPass
  <2>3. CASE /\ pc' = "delay" /\ button[Play] # last_button[Play] /\ button[Rec]
             /\ calls' = <<Off(Rec), Off(Play)>>
             /\ UNCHANGED sound_play
    <3>1. Dropped(Play)' /\ Dropped(Rec)'
      BY <2>3, InTuple DEF Dropped
    <3> QED
      BY <1>0, <1>8, <2>1, <2>3, <3>1 DEF AskedPass, NextPass
  <2>4. CASE /\ pc' = "latchPlay" /\ button[Play] # last_button[Play] /\ ~button[Rec]
             /\ sound_play' = button[Play]
    BY <1>0, <1>8, <2>1, <2>4 DEF AskedPass, NextPass
  <2> QED
    BY <1>0, <1>8, <2>2, <2>3, <2>4 DEF UpdatePlay, CallsOff, StartPlayback, StopPlayback
<1>9. CASE LatchPlay /\ Frozen
  BY <1>0, <1>9, <1>a DEF LatchPlay, buttonVars, AskedPass, NextPass, Settling, Always, Scan
<1>10. CASE UpdateRec /\ Frozen
  <2>1. /\ pc = "rec" /\ last_button[Rec] = sound_rec /\ asked /\ calm
        /\ UNCHANGED <<sound_play, button>>
    BY <1>10, <1>a DEF UpdateRec, FlagsKept, buttonVars, Scan
  <2>2. CASE /\ pc' = "stopCheck" /\ button[Rec] = last_button[Rec]
             /\ UNCHANGED sound_rec
    BY <1>0, <1>10, <2>1, <2>2 DEF AskedPass, NextPass
  <2>3. CASE /\ pc' = "delay" /\ button[Rec] # last_button[Rec] /\ button[Play]
             /\ calls' = <<Off(Play), Off(Rec)>>
             /\ UNCHANGED sound_rec
    <3>1. Dropped(Play)' /\ Dropped(Rec)'
      BY <2>3, InTuple DEF Dropped
    <3> QED
      BY <1>0, <1>10, <2>1, <2>3, <3>1 DEF AskedPass, NextPass
  <2>4. CASE /\ pc' = "latchRec" /\ button[Rec] # last_button[Rec] /\ ~button[Play]
             /\ sound_rec' = button[Rec]
    BY <1>0, <1>10, <2>1, <2>4 DEF AskedPass, NextPass
  <2>5. CASE /\ pc' = "recStopped" /\ ~button[Rec] /\ sound_rec /\ ~button[Play]
             /\ UNCHANGED sound_rec
    BY <1>0, <1>10, <2>1, <2>5 DEF AskedPass, NextPass
  <2> QED
    BY <1>0, <1>10, <2>2, <2>3, <2>4, <2>5 DEF UpdateRec, CallsOff, StartRecord, StopRecord
<1>11. CASE RecStopped /\ Frozen
  BY <1>0, <1>11, <1>a DEF RecStopped, buttonVars, AskedPass, NextPass, Settling, Always, Scan
<1>12. CASE LatchRec /\ Frozen
  BY <1>0, <1>12, <1>a DEF LatchRec, buttonVars, AskedPass, NextPass, Scan
<1>13. CASE (CheckStop \/ ClearStop) /\ Frozen
  BY <1>0, <1>13, <1>a DEF CheckStop, ClearStop, buttonVars, AskedPass, NextPass, Scan
<1>14. CASE Display /\ Frozen
  BY <1>0, <1>14, <1>a DEF Display, buttonVars, AskedPass, NextPass, Scan, Dropped
<1>15. CASE /\ Delay
            /\ quiet' = IF quiet < QuietBound THEN quiet + 1 ELSE quiet
            /\ UNCHANGED <<calm, asked>>
  <2>1. (Dropped(Play) => ~button[Play]) /\ (Dropped(Rec) => ~button[Rec])
    BY <1>15, InTuple DEF Delay, Idle, MidCall, Dropped
  <2> QED
    BY <1>0, <1>15, <1>a, <2>1 DEF Delay, buttonVars, AskedPass, NextPass, Scan
<1>16. CASE (PdmInt \/ I2sInt \/ RemoteSlider \/ UNCHANGED inputVars) /\ Frozen
  <2>1. UNCHANGED <<pc, button, hw_button, calls, btn_call, sound_rec, sound_play>>
    BY <1>16 DEF PdmInt, I2sInt, RemoteSlider, inputVars, vars, buttonVars, callVars
  <2>2. \A i \in Buttons : Wanted(i)' = Wanted(i) /\ Dropped(i)' = Dropped(i)
    BY <2>1 DEF Wanted, Dropped
  <2> QED
    BY <1>16, <2>1, <2>2 DEF AskedPass, NextPass
<1> QED
  BY <1>1, <1>2, <1>3, <1>4, <1>5, <1>6, <1>7, <1>8, <1>9, <1>10, <1>11, <1>12, <1>13, <1>14,
     <1>15, <1>16 DEF NextInputs, LoopStep, SoundInit, inputVars

(* "Any Button for Stop": a touch of any button of a settled device that   *)
(* records, or still feeds the codec, stops it in this update or the next, *)
(* wherever a slide, the end of the take or a remote slider comes between. *)
THEOREM AnyButtonStopsAlways == Undisturbed => (SpecInputs => []AnyButtonStops)
<1> SUFFICES ASSUME Undisturbed PROVE SpecInputs => []AnyButtonStops
  OBVIOUS
<1> DEFINE Inv == TypeOK /\ CallsPlaced /\ FlagsKept /\ SettlingInv
<1>1. SpecInputs => []Inv
  BY SettlingInductive
<1>2. InitInputs => Stops
  BY DEF InitInputs, Stops
<1>3. Inv /\ Inv' /\ Stops /\ [NextInputs]_inputVars => Stops'
  <2> SUFFICES ASSUME Inv, Inv', Stops, [NextInputs]_inputVars, asked' PROVE Stops'
    BY DEF Stops
  <2>1. HistoryType'
    BY DEF SettlingInv, Synced, HistoryType
  <2> QED
    BY <2>1, StopsStep DEF SettlingInv
<1>4. Stops => AnyButtonStops
  BY DEF Stops, AnyButtonStops, Left, AllOff, QuietBound
<1> HIDE DEF Inv
<1> QED
  BY <1>1, <1>2, <1>3, <1>4, PTL DEF SpecInputs
=============================================================================
