------------------------------ MODULE FramInit ------------------------------
(***************************************************************************)
(* fram_init and the first fram_read_status of fram.cpp.  The chip keeps   *)
(* its access mode and latencies when only the microcontroller is reset,   *)
(* so the host first tries to bring it back from any mode it may be in.    *)
(*                                                                         *)
(* The chip (external): it understands a command sent at the bus width of  *)
(* its own mode, and no other; a register write needs the write enable     *)
(* latch and clears it.                                                    *)
(***************************************************************************)
EXTENDS Integers, Sequences

CONSTANTS
    MaxMemLatency, MaxRegLatency   \* what the bits of CR1 and CR5 can hold

ASSUME LatencyAssumption == MaxMemLatency \in Nat /\ MaxRegLatency \in Nat

VARIABLES
    mode,       \* of the chip, from CR2
    latency,    \* of its memory (CR1) and of its registers (CR5)
    wel,        \* its write enable latch
    next,       \* index in Commands of what the host sends next
    status      \* what the host has of the Status record

framVars == <<mode, latency, wel, next, status>>

Modes == {"SPI", "DPI", "QPI"}
MEM_LATENCY == 5
REG_LATENCY == 1

Wren(bus)           == <<[op |-> "WREN", bus |-> bus]>>
SetMode(bus, m)     == Wren(bus) \o <<[op |-> "CR2", bus |-> bus, val |-> m]>>
SetMem(bus, l)      == Wren(bus) \o <<[op |-> "CR1", bus |-> bus, val |-> l]>>
SetReg(bus, l)      == Wren(bus) \o <<[op |-> "CR5", bus |-> bus, val |-> l]>>

ResetNoDpi ==   \* mutant
    SetMode("QPI", "SPI") \o SetMem("SPI", 0) \o SetReg("SPI", 0)

(* fram_reset_to_factory_default                                           *)
Reset ==
    SetMode("DPI", "SPI") \o SetMode("QPI", "SPI")
    \o SetMem("SPI", 0) \o SetReg("SPI", 0)

(* fram_init: access_mode is SPI up to the write of CR2, then QPI.         *)
Commands ==
    Reset
    \o SetMode("SPI", "QPI")
    \o SetMem("QPI", MEM_LATENCY) \o SetReg("QPI", REG_LATENCY)
    \o <<[op |-> "RDID", bus |-> "QPI", latency |-> REG_LATENCY],
         [op |-> "RUID", bus |-> "QPI", latency |-> REG_LATENCY],
         [op |-> "READ", bus |-> "QPI", latency |-> 5]>>

FramStart ==
    /\ mode \in Modes
    /\ latency \in [CR1 : 0 .. MaxMemLatency, CR5 : 0 .. MaxRegLatency]
    /\ wel \in BOOLEAN
    /\ next = 1
    /\ status = "unread"

Understood(c) == c.bus = mode

FramWrite ==
    /\ next <= Len(Commands)
    /\ LET c == Commands[next]
           taken == Understood(c) /\ (wel \/ c.op = "WREN")
       IN  /\ c.op \in {"WREN", "CR1", "CR2", "CR5"}
           /\ wel' = IF taken THEN c.op = "WREN" ELSE wel
           /\ mode' = IF taken /\ c.op = "CR2" THEN c.val ELSE mode
           /\ latency' = IF taken /\ c.op \in {"CR1", "CR5"}
                         THEN [latency EXCEPT ![c.op] = c.val] ELSE latency
    /\ next' = next + 1
    /\ UNCHANGED status

(* A read at the wrong width or latency returns something else.            *)
ReadsWell(c) ==
    /\ Understood(c)
    /\ c.latency = IF c.op = "READ" THEN latency.CR1 ELSE latency.CR5

FramRead ==
    /\ next <= Len(Commands)
    /\ LET c == Commands[next]
       IN  /\ c.op \in {"RDID", "RUID", "READ"}
           /\ status' = IF c.op # "READ" THEN status
                        ELSE IF ReadsWell(c) THEN "stored" ELSE "garbage"
    /\ next' = next + 1
    /\ UNCHANGED <<mode, latency, wel>>

FramStep == FramWrite \/ FramRead

(* A reset of the microcontroller alone, at any moment: the debugger, or   *)
(* the reset button.                                                       *)
FramReset ==
    /\ next' = 1 /\ status' = "unread"
    /\ UNCHANGED <<mode, latency, wel>>
-----------------------------------------------------------------------------
(* Whatever mode, latencies and latch an earlier run left in the chip, and *)
(* wherever that run was cut short, the Status record that main reads is   *)
(* the one that is stored, and no stray write enable is left behind.       *)
StatusIsRead ==
    /\ status # "garbage"
    /\ next > Len(Commands) => ~wel
=============================================================================
