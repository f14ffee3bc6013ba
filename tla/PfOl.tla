-------------------------------- MODULE PfOl --------------------------------
(***************************************************************************)
(* The packet filters of the low power assistant, cy_lpa_wifi_pf_ol.c.  A  *)
(* number is the set of its bits: the chip keeps a port when its bits      *)
(* under the mask are the pattern (run_pf_test).                           *)
(***************************************************************************)
EXTENDS Integers, FiniteSets

CONSTANT MaxBits   \* MAX_BITS_IN_PORTNUM
ASSUME BitsAssumption == MaxBits \in Nat \ {0}

VARIABLES
    added, enabled   \* identifiers of the filters the chip has, and has enabled

pfVars == <<added, enabled>>

BitIndexes == 0 .. MaxBits - 1
Numbers == 0 .. 2^MaxBits - 1
BitsOf(n) == {b \in 0 .. MaxBits : (n \div 2^b) % 2 = 1}

(* IS_POWER                                                                *)
IsPower(n) == Cardinality(BitsOf(n)) = 1

(* bitwidth and sign_extend: every bit above the highest one is set.       *)
SignExtend(mask) ==
    mask \cup {b \in BitIndexes : \A c \in mask : c < b}

(* (port - 1) ^ range: exclusive or.                                       *)
Differ(s, t) == (s \ t) \cup (t \ s)

RangeMaskNotExtended(port, range) ==   \* mutant
    Differ(BitsOf(port - 1), BitsOf(range)) \cup BitsOf(port)

(* create_portnum_range_mask                                               *)
RangeMask(port, range) ==
    SignExtend(Differ(BitsOf(port - 1), BitsOf(range)) \cup BitsOf(port))

IsRange(port, range) == IsPower(port) /\ IsPower(range + 1) /\ range # 0

(* What pf_ol_init picks, or create_single_portnum_mask.                   *)
PortMask(f) ==
    IF IsRange(f.port, f.range) THEN RangeMask(f.port, f.range) ELSE BitIndexes

PortsKept(f) == {n \in Numbers : BitsOf(n) \cap PortMask(f) = BitsOf(f.port)}

(* What each kind of filter says of a frame; nothing where its mask is 0.  *)
KeepsPort(f, frame) ==   \* create_port_filter
    /\ frame.ethertype = "IP"
    /\ frame.protocol = IF f.proto = "UDP" THEN "UDP" ELSE "TCP"
    /\ (IF f.direction = "SOURCE" THEN frame.src ELSE frame.dst) \in PortsKept(f)

KeepsEthtype(f, frame) == frame.ethertype = f.type

KeepsIp(f, frame) == frame.ethertype = "IP" /\ frame.protocol = f.type

Keeps(f, frame) ==
    CASE f.feature = "PORTNUM" -> KeepsPort(f, frame)
      [] f.feature = "ETHTYPE" -> KeepsEthtype(f, frame)
      [] f.feature = "IPTYPE"  -> KeepsIp(f, frame)

(* CY_PF_ACTION_DISCARD                                                    *)
Rule(f) == IF "DISCARD" \in f.bits THEN "NEGATIVE_MATCHING" ELSE "POSITIVE_MATCHING"
-----------------------------------------------------------------------------
Ids(filters) == {f.id : f \in filters}
WithBit(filters, b) == {f \in filters : b \in f.bits}

PfStart == added = {} /\ enabled = {}

PfInit(filters) ==
    /\ added' = added \cup Ids(filters)
    /\ enabled' = enabled \cup Ids(WithBit(filters, "WAKE"))

PfDeinit(filters) ==
    /\ added' = added \ Ids(filters)
    /\ enabled' = enabled \ Ids(filters)

PmNoDisable(filters, st) ==   \* mutant
    LET moving == filters \ (WithBit(filters, "SLEEP") \cap WithBit(filters, "WAKE"))
        now    == IF st = "AWAKE" THEN "WAKE" ELSE "SLEEP"
    IN  /\ enabled' = enabled \cup Ids(WithBit(moving, now))
        /\ UNCHANGED added

(* A filter that is always on is left as pf_ol_init made it.               *)
PfPm(filters, st) ==
    LET moving == filters \ (WithBit(filters, "SLEEP") \cap WithBit(filters, "WAKE"))
        now    == IF st = "AWAKE" THEN "WAKE" ELSE "SLEEP"
    IN  /\ enabled' = (enabled \ Ids(moving)) \cup Ids(WithBit(moving, now))
        /\ UNCHANGED added
=============================================================================
