------------------------------ MODULE FramBus -------------------------------
(***************************************************************************)
(* The F-RAM commands of serial_fram_api.c as their callers issue them: the*)
(* main loop writes the Status record (fram_write_status) while pdm_int    *)
(* writes blocks and i2s_int reads them.  Every command is put together in *)
(* the one global command_frame, field by field, and then sent; a write is *)
(* two commands, WREN and WRITE.  The interrupts have one priority: a      *)
(* handler runs to its end, between any two steps of the main loop.        *)
(*                                                                         *)
(* The chip (external): WREN sets its write enable latch, WRITE with an    *)
(* address stores if the latch is set and clears it, READ stores nothing.  *)
(***************************************************************************)
EXTENDS Integers

CONSTANTS
    Blocks,    \* sound blocks
    Takes,     \* positions a Status record may hold
    Volumes,   \* volumes a Status record may hold
    Samples,   \* what a sound block may hold
    BusFails   \* TRUE if cyhal_qspi_transfer may report an error

StatusSlot == "STATUS_ADDRESS"
Slots      == Blocks \cup {StatusSlot}
Records    == [take : Takes, volume : Volumes]

ASSUME BlocksAssumption  == StatusSlot \notin Blocks
ASSUME SamplesAssumption == Samples \cap Records = {}
ASSUME FailsAssumption   == BusFails \in BOOLEAN

VARIABLES
    mem,         \* the F-RAM
    wel,         \* its write enable latch
    frame,       \* command_frame: [instr, addr, addressed]
    status,      \* the Status record in RAM
    irqs,        \* the interrupts enabled
    pc,          \* the next step of fram_write_cmd in the main loop, or "idle"
    saves,       \* history: what the last fram_write_status is for
    disturbed,   \* history: a handler ran since it was called
    failed       \* history: the bus failed since it was called

callVars == <<saves, disturbed, failed>>
vars == <<mem, wel, frame, status, irqs, pc, callVars>>

NoFrame == [instr |-> "none", addr |-> StatusSlot, addressed |-> FALSE]

Init ==
    /\ mem \in {m \in [Slots -> Samples \cup Records] :
                  m[StatusSlot] \in Records /\ \A b \in Blocks : m[b] \in Samples}
    /\ wel = FALSE
    /\ frame = NoFrame
    /\ status = mem[StatusSlot]
    /\ irqs = {}
    /\ pc = "idle"
    /\ saves = "take" /\ disturbed = FALSE /\ failed = FALSE

(* A frame sent with data.                                                *)
LatchKept == TRUE         \* mutant
LatchAfterWrite == FALSE

Stores == frame.instr = "WRITE" /\ frame.addressed /\ wel

Send(data) ==
    /\ mem' = IF Stores THEN [mem EXCEPT ![frame.addr] = data] ELSE mem
    /\ wel' = IF Stores THEN LatchAfterWrite ELSE wel
-----------------------------------------------------------------------------
(* The main loop: what sound_update does of it.  The record changes before *)
(* fram_write_status is called, and stays until it returns.                *)
StartRecord ==
    /\ pc = "idle"
    /\ irqs' = irqs \cup {"pdm"}
    /\ UNCHANGED <<mem, wel, frame, status, pc, callVars>>

CallWriteStatus(what) ==
    /\ pc' = "wrenInstr"
    /\ saves' = what /\ disturbed' = FALSE /\ failed' = FALSE
    /\ UNCHANGED <<mem, wel, frame>>

StopRecordIrqOn ==   \* mutant
    /\ pc = "idle" /\ "pdm" \in irqs
    /\ \E t \in Takes : status' = [status EXCEPT !.take = t]
    /\ CallWriteStatus("take")
    /\ UNCHANGED irqs

StopRecord ==
    /\ pc = "idle" /\ "pdm" \in irqs
    /\ irqs' = irqs \ {"pdm"}
    /\ \E t \in Takes : status' = [status EXCEPT !.take = t]
    /\ CallWriteStatus("take")

StartPlayback ==
    /\ pc = "idle"
    /\ irqs' = irqs \cup {"i2s"}
    /\ UNCHANGED <<mem, wel, frame, status, pc, callVars>>

StopPlayback ==
    /\ pc = "idle" /\ "i2s" \in irqs
    /\ irqs' = irqs \ {"i2s"}
    /\ UNCHANGED <<mem, wel, frame, status, pc, callVars>>

ChangeVolume ==
    /\ pc = "idle"
    /\ \E v \in Volumes \ {status.volume} : status' = [status EXCEPT !.volume = v]
    /\ CallWriteStatus("volume")
    /\ UNCHANGED irqs

(* fram_opcode_only_cmd(MEM_CMD_WREN)                                      *)
WrenInstr ==
    /\ pc = "wrenInstr"
    /\ frame' = [frame EXCEPT !.instr = "WREN"]
    /\ pc' = "wrenAddr"
    /\ UNCHANGED <<mem, wel, status, irqs, callVars>>

WrenAddr ==
    /\ pc = "wrenAddr"
    /\ frame' = [frame EXCEPT !.addressed = FALSE]
    /\ pc' = "wrenSend"
    /\ UNCHANGED <<mem, wel, status, irqs, callVars>>

(* A transfer of no data: whatever the frame has become, nothing is stored.*)
WrenNotSent ==   \* mutant
    /\ pc = "wrenSend"
    /\ pc' = "writeInstr"
    /\ UNCHANGED <<mem, wel, frame, status, irqs, callVars>>

WrenSend ==
    /\ pc = "wrenSend"
    /\ \/ /\ wel' = (wel \/ frame.instr = "WREN")
          /\ pc' = "writeInstr"
          /\ UNCHANGED failed
       \/ BusFails /\ pc' = "idle" /\ failed' = TRUE /\ UNCHANGED wel
    /\ UNCHANGED <<mem, frame, status, irqs, saves, disturbed>>

(* The rest of fram_write_cmd                                              *)
WriteInstr ==
    /\ pc = "writeInstr"
    /\ frame' = [frame EXCEPT !.instr = "WRITE"]
    /\ pc' = "writeAddr"
    /\ UNCHANGED <<mem, wel, status, irqs, callVars>>

WriteAddrStale ==   \* mutant
    /\ pc = "writeAddr"
    /\ frame' = [frame EXCEPT !.addressed = TRUE]
    /\ pc' = "writeSend"
    /\ UNCHANGED <<mem, wel, status, irqs, callVars>>

WriteAddr ==
    /\ pc = "writeAddr"
    /\ frame' = [frame EXCEPT !.addr = StatusSlot, !.addressed = TRUE]
    /\ pc' = "writeSend"
    /\ UNCHANGED <<mem, wel, status, irqs, callVars>>

WriteSend ==
    /\ pc = "writeSend"
    /\ \/ Send(status) /\ UNCHANGED failed
       \/ BusFails /\ failed' = TRUE /\ UNCHANGED <<mem, wel>>
    /\ pc' = "idle"
    /\ UNCHANGED <<frame, status, irqs, saves, disturbed>>
-----------------------------------------------------------------------------
(* pdm_int: the whole fram_write_cmd of fram_write_sound.  It fails as the *)
(* main loop's does: at the WREN, or at the WRITE.                         *)
PdmInt ==
    /\ "pdm" \in irqs
    /\ \E b \in Blocks :
          LET write == [instr |-> "WRITE", addr |-> b, addressed |-> TRUE]
          IN  \/ /\ \E s \in Samples : mem' = [mem EXCEPT ![b] = s]
                 /\ frame' = write
                 /\ wel' = LatchAfterWrite
              \/ BusFails /\ frame' = write /\ wel' = TRUE /\ UNCHANGED mem
    /\ disturbed' = TRUE
    /\ UNCHANGED <<status, irqs, pc, saves, failed>>

PdmIntFailing ==
    /\ BusFails /\ "pdm" \in irqs
    /\ frame' = [frame EXCEPT !.instr = "WREN", !.addressed = FALSE]
    /\ disturbed' = TRUE
    /\ UNCHANGED <<mem, wel, status, irqs, pc, saves, failed>>

(* i2s_int: the fram_read_cmd of fram_read_sound.                          *)
I2sInt ==
    /\ "i2s" \in irqs
    /\ \E b \in Blocks :
          frame' = [instr |-> "READ", addr |-> b, addressed |-> TRUE]
    /\ disturbed' = TRUE
    /\ UNCHANGED <<mem, wel, status, irqs, pc, saves, failed>>

(* A reset of the board: the chip loses its latch, and main reads Status.  *)
PowerLoss ==
    /\ wel' = FALSE
    /\ frame' = [instr |-> "READ", addr |-> StatusSlot, addressed |-> TRUE]
    /\ status' = mem[StatusSlot]
    /\ irqs' = {}
    /\ pc' = "idle"
    /\ saves' = "take" /\ disturbed' = FALSE /\ failed' = FALSE
    /\ UNCHANGED mem

Next ==
    \/ StartRecord \/ StopRecord \/ StartPlayback \/ StopPlayback \/ ChangeVolume
    \/ WrenInstr \/ WrenAddr \/ WrenSend \/ WriteInstr \/ WriteAddr \/ WriteSend
    \/ PdmInt \/ PdmIntFailing \/ I2sInt \/ PowerLoss

Spec == Init /\ [][Next]_vars
-----------------------------------------------------------------------------
Steps == {"idle", "wrenInstr", "wrenAddr", "wrenSend",
          "writeInstr", "writeAddr", "writeSend"}

(* Every variable has its type, and every slot of the F-RAM the type of    *)
(* what is kept there.                                                     *)
TypeOK ==
    /\ mem \in [Slots -> Samples \cup Records]
    /\ mem[StatusSlot] \in Records
    /\ \A b \in Blocks : mem[b] \in Samples
    /\ wel \in BOOLEAN
    /\ frame \in [instr : {"none", "WREN", "WRITE", "READ"},
                  addr : Slots, addressed : BOOLEAN]
    /\ status \in Records
    /\ irqs \subseteq {"pdm", "i2s"}
    /\ pc \in Steps
    /\ saves \in {"take", "volume"}
    /\ disturbed \in BOOLEAN /\ failed \in BOOLEAN

(* A fram_write_status that no handler ran in the middle of, and that the  *)
(* bus carried, leaves in F-RAM the record that is in RAM.                 *)
QuietSaved ==
    (pc = "idle" /\ ~disturbed /\ ~failed) => mem[StatusSlot] = status

(* sound_stop_record disables the PDM interrupt before it saves: unless a  *)
(* playback runs as well, the take it ends is in F-RAM when it returns.    *)
TakeSaved ==
    [][(WriteSend /\ ~failed' /\ saves = "take" /\ "i2s" \notin irqs)
           => mem'[StatusSlot] = status]_vars

Store == INSTANCE FramStore WITH saving <- status

(* Sharing command_frame loses writes of Status, but never puts a record   *)
(* into the sound ring, nor sound into the record: whenever the frame has  *)
(* become a handler's WRITE the latch is already cleared.                  *)
NothingDiverted == Store!Spec

(* "This function executes F-RAM write commands" (serial_fram_api.c): when *)
(* fram_write_cmd has returned success, the record is written.             *)
WriteExecuted == (pc = "idle" /\ ~failed) => mem[StatusSlot] = status
=============================================================================
