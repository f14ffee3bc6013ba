--------------------------- MODULE FramBusProofs ----------------------------
(***************************************************************************)
(* What TLAPS proves of FramBus, for any blocks, samples and records: first *)
(* when the bus carries every transfer, then when it may fail.             *)
(***************************************************************************)
EXTENDS FramBus, TLAPS

(* What makes the shared frame harmless.  At the WRITE of the main loop a  *)
(* frame that a handler has taken over is a READ, or a WRITE of pdm_int    *)
(* and then its own WRITE has cleared the latch.                           *)
FrameSafe ==
    (pc = "writeSend" /\ Stores) => frame.addr = StatusSlot

IInv == TypeOK /\ FrameSafe

(* The steps of the main loop that touch neither chip nor frame.           *)
LEMMA QuietStep ==
  ASSUME IInv,
         \/ StartRecord \/ StopRecord \/ StartPlayback
         \/ StopPlayback \/ ChangeVolume
  PROVE  IInv' /\ mem' = mem /\ status' \in Records
<1> USE DEF IInv, TypeOK, FrameSafe, Stores, Steps, Records, callVars,
            CallWriteStatus
<1>1. CASE StartRecord \/ StartPlayback \/ StopPlayback
  BY <1>1 DEF StartRecord, StartPlayback, StopPlayback
<1>2. CASE StopRecord
  BY <1>2 DEF StopRecord
<1>3. CASE ChangeVolume
  BY <1>3 DEF ChangeVolume
<1> QED
  BY <1>1, <1>2, <1>3

(* The steps that put a command together.                                  *)
LEMMA FrameStep ==
  ASSUME IInv,
         WrenInstr \/ WrenAddr \/ WrenSend \/ WriteInstr \/ WriteAddr
  PROVE  IInv' /\ mem' = mem /\ status' = status
<1> USE DEF IInv, TypeOK, FrameSafe, Stores, Steps, Slots, callVars
<1>1. CASE WrenInstr
  BY <1>1 DEF WrenInstr
<1>2. CASE WrenAddr
  BY <1>2 DEF WrenAddr
<1>3. CASE WrenSend
  BY <1>3, FailsAssumption DEF WrenSend
<1>4. CASE WriteInstr
  BY <1>4 DEF WriteInstr
<1>5. CASE WriteAddr
  BY <1>5 DEF WriteAddr
<1> QED
  BY <1>1, <1>2, <1>3, <1>4, <1>5

LEMMA SendStep ==
  ASSUME IInv, WriteSend
  PROVE  /\ IInv' /\ status' = status
         /\ mem' \in {mem, [mem EXCEPT ![StatusSlot] = status]}
<1> USE DEF IInv, TypeOK, FrameSafe, Stores, Steps, WriteSend
<1>1. mem' \in {mem, [mem EXCEPT ![StatusSlot] = status]}
  BY DEF Send
<1>2. /\ mem' \in [Slots -> Samples \cup Records]
      /\ mem'[StatusSlot] \in Records
      /\ \A b \in Blocks : mem'[b] \in Samples
  BY <1>1, BlocksAssumption DEF Slots
<1>3. wel' \in BOOLEAN /\ failed' \in BOOLEAN
  BY FailsAssumption DEF Send, LatchAfterWrite
<1> QED
  BY <1>1, <1>2, <1>3

LEMMA HandlerStep ==
  ASSUME IInv, ~BusFails, PdmInt \/ PdmIntFailing \/ I2sInt
  PROVE  /\ IInv' /\ status' = status
         /\ \/ mem' = mem
            \/ \E b \in Blocks, s \in Samples : mem' = [mem EXCEPT ![b] = s]
<1> USE DEF IInv, TypeOK, FrameSafe, Stores, Slots
<1>1. CASE PdmInt
  <2>1. PICK b \in Blocks, s \in Samples :
          /\ frame' = [instr |-> "WRITE", addr |-> b, addressed |-> TRUE]
          /\ mem' = [mem EXCEPT ![b] = s]
          /\ wel' = FALSE
    BY <1>1 DEF PdmInt, LatchAfterWrite
  <2> QED
    BY <1>1, <2>1, BlocksAssumption DEF PdmInt
<1>2. CASE I2sInt
  BY <1>2 DEF I2sInt
<1> QED
  BY <1>1, <1>2 DEF PdmIntFailing

LEMMA ResetStep ==
  ASSUME IInv, PowerLoss
  PROVE  IInv' /\ mem' = mem /\ status' \in Records
  BY DEF IInv, TypeOK, FrameSafe, Stores, Slots, Steps, PowerLoss

LEMMA Start == ASSUME Init PROVE IInv /\ Store!Init
<1>1. /\ mem \in [Slots -> Samples \cup Records]
      /\ mem[StatusSlot] \in Records
      /\ \A b \in Blocks : mem[b] \in Samples
  BY DEF Init
<1>2. frame \in [instr : {"none", "WREN", "WRITE", "READ"},
                addr : Slots, addressed : BOOLEAN]
  BY DEF Init, NoFrame, Slots
<1>3. /\ wel = FALSE /\ status = mem[StatusSlot] /\ irqs = {}
      /\ pc = "idle" /\ saves = "take"
      /\ disturbed = FALSE /\ failed = FALSE
  BY DEF Init
<1> QED
  BY <1>1, <1>2, <1>3
     DEF IInv, TypeOK, FrameSafe, Steps, Store!Init

(* With a bus that does not fail, the types of the slots are never mixed,  *)
(* whatever interrupts whatever (fram_write_cmd and the global frame).     *)
THEOREM SlotsKeepTheirType == ~BusFails => (Spec => []TypeOK)
<1> SUFFICES ASSUME ~BusFails PROVE Spec => []TypeOK
  OBVIOUS
<1>1. Init => IInv
  BY Start
<1>2. IInv /\ [Next]_vars => IInv'
  <2>1. IInv /\ UNCHANGED vars => IInv'
    BY DEF IInv, TypeOK, FrameSafe, Stores, vars, callVars
  <2> QED
    BY <2>1, QuietStep, FrameStep, SendStep, HandlerStep, ResetStep DEF Next
<1>3. IInv => TypeOK
  BY DEF IInv
<1> QED
  BY <1>1, <1>2, <1>3, PTL DEF Spec

(* fram_write_cmd implements FramStore: a save of Status interrupted by a  *)
(* handler is done or lost, and never lands in another slot.               *)
THEOREM Implements == ~BusFails => (Spec => NothingDiverted)
<1> SUFFICES ASSUME ~BusFails PROVE Spec => NothingDiverted
  OBVIOUS
<1>1. Init => IInv /\ Store!Init
  BY Start
<1>2. IInv /\ [Next]_vars => IInv' /\ [Store!Next]_(Store!vars)
  <2> SUFFICES ASSUME IInv, [Next]_vars
               PROVE  IInv' /\ [Store!Next]_(Store!vars)
    OBVIOUS
  <2> USE DEF Store!Next, Store!vars, Store!Save, Store!Ask, Store!WriteSound
  <2>1. CASE UNCHANGED vars
    BY <2>1 DEF IInv, TypeOK, FrameSafe, Stores, vars, callVars
  <2>2. CASE \/ StartRecord \/ StopRecord \/ StartPlayback
             \/ StopPlayback \/ ChangeVolume
    BY <2>2, QuietStep
  <2>3. CASE WrenInstr \/ WrenAddr \/ WrenSend \/ WriteInstr \/ WriteAddr
    BY <2>3, FrameStep
  <2>4. CASE WriteSend
    BY <2>4, SendStep
  <2>5. CASE PdmInt \/ PdmIntFailing \/ I2sInt
    BY <2>5, HandlerStep
  <2>6. CASE PowerLoss
    BY <2>6, ResetStep
  <2> QED
    BY <2>1, <2>2, <2>3, <2>4, <2>5, <2>6 DEF Next
<1> QED
  BY <1>1, <1>2, PTL DEF Spec, NothingDiverted, Store!Spec

-----------------------------------------------------------------------------
(* From here on the bus may fail.  The slots may then hold anything.       *)
LooseType ==
    /\ DOMAIN mem = Slots
    /\ wel \in BOOLEAN
    /\ frame \in [instr : {"none", "WREN", "WRITE", "READ"},
                  addr : Slots, addressed : BOOLEAN]
    /\ pc \in Steps
    /\ disturbed \in BOOLEAN /\ failed \in BOOLEAN

(* Without a handler in between each command is what the main loop put     *)
(* together, and the chip in the state it asked for.                       *)
AsPutTogether ==
    ~disturbed /\ ~failed =>
        /\ pc = "idle" => mem[StatusSlot] = status
        /\ pc \in {"wrenAddr", "wrenSend"} => frame.instr = "WREN"
        /\ pc \in {"writeInstr", "writeAddr", "writeSend"} => wel
        /\ pc \in {"writeAddr", "writeSend"} => frame.instr = "WRITE"
        /\ pc = "writeSend" => frame.addressed /\ frame.addr = StatusSlot

(* In the save that ends a take only i2s_int can come in between, and a    *)
(* save that goes on has not failed.                                       *)
PdmIsOff ==
    pc # "idle" =>
        /\ ~failed
        /\ saves = "take" => "pdm" \notin irqs
        /\ saves = "take" /\ "i2s" \notin irqs => ~disturbed

SaveInv == LooseType /\ AsPutTogether /\ PdmIsOff

LEMMA SaveStart == Init => SaveInv
<1> SUFFICES ASSUME Init PROVE SaveInv
    OBVIOUS
<1>1. /\ DOMAIN mem = Slots /\ wel = FALSE /\ frame = NoFrame /\ status = mem[StatusSlot]
      /\ pc = "idle" /\ disturbed = FALSE /\ failed = FALSE
      BY DEF Init
<1>2. NoFrame \in [instr : {"none", "WREN", "WRITE", "READ"}, addr : Slots, addressed : BOOLEAN]
      BY DEF NoFrame, Slots
<1>3. QED
      BY <1>1, <1>2 DEF SaveInv, LooseType, AsPutTogether, PdmIsOff, Steps

LEMMA SavedBySend ==
  ASSUME SaveInv, WriteSend, ~disturbed, ~failed'
  PROVE  mem'[StatusSlot] = status
<1>1. Stores /\ frame.addr = StatusSlot /\ StatusSlot \in Slots
      BY DEF SaveInv, AsPutTogether, WriteSend, Stores, PdmIsOff, Slots
<1>2. mem' = [mem EXCEPT ![StatusSlot] = status]
      BY <1>1 DEF WriteSend, Send
<1>3. QED
      BY <1>1, <1>2 DEF SaveInv, LooseType

LEMMA SaveSteps == SaveInv /\ [Next]_vars => SaveInv'
<1> SUFFICES ASSUME SaveInv, [Next]_vars PROVE SaveInv'
    OBVIOUS
<1> USE DEF SaveInv, LooseType, AsPutTogether, PdmIsOff, Steps, Slots, callVars
<1>1. CASE StartRecord \/ StartPlayback \/ StopPlayback
      BY <1>1 DEF StartRecord, StartPlayback, StopPlayback
<1>2. CASE StopRecord
      BY <1>2 DEF StopRecord, CallWriteStatus
<1>3. CASE ChangeVolume
      BY <1>3 DEF ChangeVolume, CallWriteStatus
<1>4. CASE WrenInstr
      BY <1>4 DEF WrenInstr
<1>5. CASE WrenAddr
      BY <1>5 DEF WrenAddr
<1>6. CASE WrenSend
  <2>1. /\ UNCHANGED <<mem, frame, status, irqs, saves, disturbed>> /\ pc = "wrenSend"
        /\ wel' \in BOOLEAN
        BY <1>6 DEF WrenSend
  <2>2. CASE pc' = "idle" /\ failed' = TRUE
        BY <2>1, <2>2
  <2>3. CASE pc' = "writeInstr" /\ failed' = failed /\ (frame.instr = "WREN" => wel')
    <3>1. LooseType' /\ PdmIsOff'
          BY <2>1, <2>3
    <3>2. ~disturbed /\ ~failed => wel'
          BY <2>1, <2>3
    <3>3. AsPutTogether'
          BY <2>1, <2>3, <3>2
    <3>4. QED
          BY <3>1, <3>3
  <2>4. QED
        BY <1>6, <2>2, <2>3 DEF WrenSend
<1>7. CASE WriteInstr
      BY <1>7 DEF WriteInstr
<1>8. CASE WriteAddr
      BY <1>8 DEF WriteAddr
<1>9. CASE WriteSend
  <2>1. LooseType'
        BY <1>9 DEF WriteSend, Send, LatchAfterWrite
  <2>2. AsPutTogether'
        BY <1>9, SavedBySend DEF WriteSend
  <2>3. PdmIsOff'
        BY <1>9 DEF WriteSend
  <2>4. QED
        BY <2>1, <2>2, <2>3
<1>10. CASE PdmInt
  <2>1. /\ DOMAIN mem' = Slots /\ wel' \in BOOLEAN
        /\ UNCHANGED <<irqs, pc, saves, failed>> /\ disturbed' = TRUE /\ "pdm" \in irqs
        BY <1>10 DEF PdmInt, LatchAfterWrite
  <2>2. frame' \in [instr : {"none", "WREN", "WRITE", "READ"}, addr : Slots, addressed : BOOLEAN]
    <3>1. PICK b \in Blocks : frame' = [instr |-> "WRITE", addr |-> b, addressed |-> TRUE]
          BY <1>10 DEF PdmInt
    <3>2. QED
          BY <3>1
  <2>3. LooseType' /\ AsPutTogether'
        BY <2>1, <2>2
  <2>4. PdmIsOff'
        BY <2>1
  <2>5. QED
        BY <2>3, <2>4
<1>11. CASE PdmIntFailing
      BY <1>11 DEF PdmIntFailing
<1>12. CASE I2sInt
      BY <1>12 DEF I2sInt
<1>13. CASE PowerLoss
      BY <1>13 DEF PowerLoss
<1>14. CASE UNCHANGED vars
      BY <1>14 DEF vars
<1>15. QED
      BY <1>1, <1>2, <1>3, <1>4, <1>5, <1>6, <1>7, <1>8, <1>9, <1>10, <1>11, <1>12, <1>13,
         <1>14 DEF Next

(* For any blocks and records, and with a bus that may fail: a             *)
(* fram_write_status in which no handler ran and no transfer failed leaves *)
(* in F-RAM the record that is in RAM (serial_fram_api.c).                 *)
THEOREM UndisturbedSave == Spec => []QuietSaved
<1>1. SaveInv => QuietSaved
      BY DEF SaveInv, AsPutTogether, QuietSaved
<1>2. QED
      BY <1>1, SaveStart, SaveSteps, PTL DEF Spec

(* And the save with which sound_stop_record ends a take succeeds, unless  *)
(* a playback runs as well, because the interrupt is off by then.          *)
THEOREM TakeIsSaved == Spec => TakeSaved
<1> DEFINE Succeeds == WriteSend /\ ~failed' /\ saves = "take" /\ "i2s" \notin irqs
                         => mem'[StatusSlot] = status
<1>1. SaveInv => Succeeds
      BY SavedBySend DEF SaveInv, PdmIsOff, WriteSend
<1>2. SaveInv /\ [Next]_vars => [Succeeds]_vars
      BY <1>1
<1>3. QED
      BY <1>2, SaveStart, SaveSteps, PTL DEF Spec, TakeSaved
=============================================================================
