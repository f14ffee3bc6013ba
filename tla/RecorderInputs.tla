--------------------------- MODULE RecorderInputs ---------------------------
(***************************************************************************)
(* Recorder with the history of its inputs: how many passes of the main    *)
(* loop ago somebody last pressed a button or sent a command, and what     *)
(* that input asked for.  The history restricts nothing: it lets a         *)
(* property speak of a device left alone long enough to settle.            *)
(***************************************************************************)
EXTENDS Recorder

VARIABLES
    quiet,   \* passes of the loop since the last input, up to QuietBound
    calm,    \* no input came before the one before it had settled
    asked    \* the last input was a touch that asks a busy device to stop

inputVars == <<vars, quiet, calm, asked>>

(* An input seen by the scan of one pass is acted on in that pass and in   *)
(* the next; one that arrives in the delay counts that delay as well.      *)
QuietBound == 3

InitInputs ==
    /\ Init
    /\ quiet = QuietBound /\ calm = TRUE /\ asked = FALSE

Input ==
    /\ quiet' = 0
    /\ calm' = (calm /\ quiet = QuietBound)

NextInputs ==
    \/ /\ Scan
       /\ IF \E i \in DOMAIN calls' : calls'[i].op = "flip"
          THEN /\ Input
               /\ asked' = (calm' /\ (sound_rec \/ (sound_play /\ i2s_mask)))
          ELSE UNCHANGED <<quiet, calm, asked>>
    \/ RemoteButtons /\ Input /\ asked' = FALSE
    \/ /\ Delay
       /\ quiet' = IF quiet < QuietBound THEN quiet + 1 ELSE quiet
       /\ UNCHANGED <<calm, asked>>
    \/ PowerLoss /\ quiet' = QuietBound /\ calm' = TRUE /\ asked' = FALSE
    \/ /\ RemoteSlider \/ PdmInt \/ I2sInt \/ LoopStep
       /\ UNCHANGED <<quiet, calm, asked>>

SpecInputs == InitInputs /\ [][NextInputs]_inputVars

FairSpecInputs == SpecInputs /\ Fairness
-----------------------------------------------------------------------------
Left == pc = "scan" /\ quiet = QuietBound

(* Once the updates that follow the last input are done, the machine does  *)
(* what the buttons show: it records exactly when the rec button is on,    *)
(* plays when the play button is on (or has just come to the end of the    *)
(* take), never both, and a machine at rest shows no counter.  It is what  *)
(* the two early returns of sound_update and its last_ flags are for.  The *)
(* inputs must not come faster than the loop settles (calm).               *)
Settled ==
    (Left /\ calm) =>
        /\ hw_button = button
        /\ sound_rec = button[Rec]
        /\ sound_play = (button[Play] \/ (sound_play /\ ~i2s_mask))
        /\ ~(sound_rec /\ sound_play)
        /\ ~sound_rec /\ ~sound_play => shown = -1

(* "Any Button for Stop" (README.md): a touch of any button of a device    *)
(* that records, or still feeds the codec, stops it within two updates.    *)
AnyButtonStops == (Left /\ asked) => ~sound_rec /\ ~sound_play

(* A playback that comes to its end with nobody touching the device gives  *)
(* the UART back: the interrupt's request and the main loop's flag agree.  *)
PlaybackStops ==
    (sound_play /\ i2s_mask /\ calm /\ quiet = QuietBound)
        ~> (~sound_play \/ quiet < QuietBound)
=============================================================================
