------------------------------- MODULE Codec -------------------------------
(***************************************************************************)
(* The audio path: the driver of the AK4954A codec with the I2C write of   *)
(* hw.cpp it is given, and the rates of the PDM and I2S blocks of          *)
(* sound.cpp.  Any write may fail.                                         *)
(*                                                                         *)
(* The codec (external): a register holds what was last written to it; a   *)
(* write that failed did not reach it.  It keeps its registers when only   *)
(* the microcontroller is reset.                                           *)
(***************************************************************************)
EXTENDS Integers, Sequences

CONSTANTS
    Volumes,     \* attenuations the slider may ask for
    MaxFaults    \* failing writes

ASSUME VolumesAssumption == Volumes \subseteq 0 .. 255 /\ MaxFaults \in Nat

VARIABLES
    regs,        \* of the codec
    writes,      \* what is left of the driver's function that runs
    faults,      \* writes that have failed
    dirty,       \* registers whose last write failed
    playing      \* between sound_start_playback and sound_stop_playback

codecVars == <<regs, writes, faults, dirty, playing>>

(* The mode and filter registers are written once, and count only because  *)
(* their writes may fail.                                                  *)
RegNames == {"PM1", "PM2", "L", "R"}
OtherRegs == {"MODE1", "MODE2", "FILT"}

(* A write after which the function gives up if it fails, and another.     *)
Must(reg, val) == [reg |-> reg, val |-> val, must |-> TRUE]
May(reg, val)  == [reg |-> reg, val |-> val, must |-> FALSE]

VCM == 64
DAC == 4          \* PWR_MGMT2_PMPLL, which activate sends to PM1, is the same bit
HEADPHONES == 52  \* PMPLL, PMHPL, PMHPR

ak4954a_init ==
    << Must("PM1", 0), Must("PM1", 0), Must("MODE1", 3), Must("MODE2", 0),
       Must("PM1", VCM), May("FILT", 0) >>

AdjustGoesOn(volume) ==   \* mutant: the left channel's error ignored
    <<May("L", volume), May("R", volume)>>

ak4954a_adjust_volume(volume) == <<Must("L", volume), May("R", volume)>>

ak4954a_activate == <<Must("PM1", VCM + DAC), May("PM2", HEADPHONES)>>

DeactivateGivesUp ==   \* mutant
    <<Must("PM2", 0), May("PM1", VCM)>>

ak4954a_deactivate == <<May("PM2", 0), May("PM1", VCM)>>

CodecStart ==
    /\ regs = [PM1 |-> 0, PM2 |-> 0, L |-> 24, R |-> 24]
    /\ writes = <<>> /\ faults = 0 /\ dirty = RegNames
    /\ playing = FALSE
-----------------------------------------------------------------------------
Runs(function) == writes = <<>> /\ writes' = function

(* hw_ak4954a_transmit.                                                    *)
Transmit ==
    /\ writes # <<>>
    /\ LET w == Head(writes)
       IN  \/ /\ regs' = [r \in RegNames |-> IF r = w.reg THEN w.val ELSE regs[r]]
              /\ dirty' = dirty \ {w.reg}
              /\ writes' = Tail(writes)
              /\ UNCHANGED faults
           \/ /\ faults < MaxFaults /\ faults' = faults + 1
              /\ dirty' = dirty \cup ({w.reg} \cap RegNames)
              /\ writes' = IF w.must THEN <<>> ELSE Tail(writes)
              /\ UNCHANGED regs
    /\ UNCHANGED playing
-----------------------------------------------------------------------------
(* CYBSP_PDM_config: clkDiv 1/2, mclkDiv 1/4, ckoDiv 5, sincDecRate 32.    *)
PdmOffByOne(hz) ==   \* mutant: ckoDiv is one less than the divider
    ((hz \div (2 * 4)) \div 5) \div (2 * 32)

PdmRate(hz) == ((hz \div (2 * 4)) \div (5 + 1)) \div (2 * 32)

(* CYBSP_I2S_config: clkDiv 12, two channels of 16 bits, 8 clocks a bit.   *)
I2sRate(hz) == ((hz \div 12) \div 8) \div (2 * 16)

VolumeBoth == writes = <<>> /\ "R" \notin dirty => regs.L = regs.R
=============================================================================
