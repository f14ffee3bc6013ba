------------------------------- MODULE ArpOl --------------------------------
(***************************************************************************)
(* The ARP offload of the low power assistant, cy_lpa_wifi_arp_ol.c.  Four *)
(* threads meet in it: the one that calls the offload manager (init,       *)
(* deinit, pm), the network stack (the status callback), the timer and the *)
(* worker that keeps the chip's list of host addresses.  There is no lock. *)
(*                                                                         *)
(* The chip (external): the engine's switch, its features, the addresses   *)
(* it answers for.  Its commands succeed; clearing an address that is not  *)
(* in the list does nothing ("clear FAIL (OK)").                           *)
(***************************************************************************)
EXTENDS Naturals

CONSTANTS
    Addresses,     \* IPv4 addresses the network may give
    NullAddress,   \* NULL_IP_ADDRESS
    Retries,       \* CY_ARPOL_DHCP_RETRY_COUNT
    MaxWork        \* length of the worker's queue

ASSUME NullAssumption == NullAddress \notin Addresses
ASSUME WorkAssumption == Retries \in Nat /\ MaxWork \in Nat \ {0}

VARIABLES
    state,         \* arp_ol->state
    ip_address,    \* arp_ol->ip_address
    dhcp_retry_count,
    timer,         \* delay_dhcp_timer is running
    registered,    \* the status callback is registered
    work,          \* calls of arp_ol_nw_ip_change_work that are queued
    workPc, addr,  \* where the worker is in one, and its local
    arpoe, features, hostip,   \* the chip
    ipv4, ready                \* the network: its address, and that the link is up

workVars == <<dhcp_retry_count, work, workPc, addr>>
chipVars == <<arpoe, features, hostip>>
netVars  == <<ipv4, ready>>
arpVars  == <<state, ip_address, timer, registered, workVars, chipVars, netVars>>

States   == {"UNINITIALIZED", "AWAKE", "GOING_TO_SLEEP"}
Features == {"AGENT", "SNOOP", "HOST_AUTO_REPLY", "PEER_AUTO_REPLY"}
MaybeAddress == Addresses \cup {NullAddress}

ArpStart ==
    /\ state = "UNINITIALIZED" /\ ip_address = NullAddress
    /\ dhcp_retry_count = Retries
    /\ timer = FALSE /\ registered = FALSE
    /\ work = 0 /\ workPc = "idle" /\ addr = NullAddress
    /\ arpoe = FALSE /\ features = {} /\ hostip = {}
    /\ ipv4 = NullAddress /\ ready = FALSE
-----------------------------------------------------------------------------
(* arp_ol_init, in three steps that the worker may come between.           *)
ArpClearStruct ==
    /\ state' = "UNINITIALIZED" /\ ip_address' = NullAddress
    /\ UNCHANGED <<timer, registered, workVars, chipVars, netVars>>

ArpClearChip ==
    /\ arpoe' = FALSE /\ features' = {} /\ hostip' = {}
    /\ UNCHANGED <<state, ip_address, timer, registered, workVars, netVars>>

WithAgent(mask) ==
    IF mask \cap {"HOST_AUTO_REPLY", "PEER_AUTO_REPLY"} # {}
    THEN mask \cup {"AGENT"} ELSE mask

MaskOf(cfg, st) == IF st = "AWAKE" THEN cfg.awake ELSE cfg.sleep

PmAsleepOnly(cfg, st) ==   \* mutant: the features of waking up are not written
    /\ state # st
    /\ state' = st
    /\ IF state = "UNINITIALIZED" \/ (cfg.awake # cfg.sleep /\ st # "AWAKE")
       THEN /\ registered' = TRUE
            /\ arpoe' = TRUE /\ features' = WithAgent(MaskOf(cfg, st))
       ELSE UNCHANGED <<registered, arpoe, features>>
    /\ UNCHANGED <<ip_address, timer, workVars, hostip, netVars>>

(* arp_ol_pm, when it does not return at once.  With equal masks the first *)
(* call writes them, and the next one turns the engine off for good.       *)
ArpPm(cfg, st) ==
    /\ state # st
    /\ state' = st
    /\ IF state = "UNINITIALIZED" \/ cfg.awake # cfg.sleep
       THEN /\ registered' = TRUE
            /\ arpoe' = TRUE /\ features' = WithAgent(MaskOf(cfg, st))
       ELSE /\ arpoe' = FALSE /\ features' = {}
            /\ UNCHANGED registered
    /\ UNCHANGED <<ip_address, timer, workVars, hostip, netVars>>

(* arp_ol_deinit: work that is queued already is still done.               *)
ArpDeinit ==
    /\ state' = "UNINITIALIZED"
    /\ registered' = FALSE
    /\ timer' = FALSE
    /\ arpoe' = FALSE
    /\ UNCHANGED <<ip_address, workVars, features, hostip, netVars>>
-----------------------------------------------------------------------------
(* The network changes and arp_ol_nw_ip_change_callback (re)starts the     *)
(* timer.                                                                  *)
NetworkChanges ==
    /\ ipv4' \in MaybeAddress /\ ready' \in BOOLEAN
    /\ netVars' # netVars
    /\ timer' = (timer \/ registered)
    /\ UNCHANGED <<state, ip_address, registered, workVars, chipVars>>

TimerDefersIfIdle ==   \* mutant: no work is deferred while the worker is at one
    /\ timer
    /\ timer' = FALSE
    /\ work' = IF workPc # "idle" THEN work ELSE IF work < MaxWork THEN work + 1 ELSE work
    /\ UNCHANGED <<state, ip_address, registered, dhcp_retry_count, workPc, addr,
                   chipVars, netVars>>

(* arp_ol_nw_ip_change_timer_callback; a full queue refuses the work.      *)
TimerFires ==
    /\ timer
    /\ timer' = FALSE
    /\ work' = IF work < MaxWork THEN work + 1 ELSE work
    /\ UNCHANGED <<state, ip_address, registered, dhcp_retry_count, workPc, addr,
                   chipVars, netVars>>

(* arp_ol_nw_ip_change_work: it reads the address, ...                     *)
WorkReads ==
    /\ workPc = "idle" /\ work > 0
    /\ work' = work - 1
    /\ addr' = ipv4
    /\ workPc' = "clear"
    /\ UNCHANGED <<state, ip_address, timer, registered, dhcp_retry_count, chipVars, netVars>>

WorkKeepsOld ==   \* mutant: the old address stays in the chip
    /\ workPc = "clear"
    /\ ip_address' = IF addr = ip_address THEN addr ELSE NullAddress
    /\ workPc' = IF addr = NullAddress THEN "retry" ELSE "add"
    /\ UNCHANGED <<state, timer, registered, dhcp_retry_count, work, addr, chipVars, netVars>>

(* ... removes another one from the chip, ...                              *)
WorkClears ==
    /\ workPc = "clear"
    /\ IF addr = ip_address
       THEN UNCHANGED <<ip_address, hostip>>
       ELSE /\ hostip' = hostip \ {ip_address}
            /\ ip_address' = NullAddress
    /\ workPc' = IF addr = NullAddress THEN "retry" ELSE "add"
    /\ UNCHANGED <<state, timer, registered, dhcp_retry_count, work, addr,
                   arpoe, features, netVars>>

(* ... adds the one it read, ...                                           *)
WorkAdds ==
    /\ workPc = "add"
    /\ hostip' = hostip \cup {addr}
    /\ workPc' = "assign"
    /\ UNCHANGED <<state, ip_address, timer, registered, dhcp_retry_count, work, addr,
                   arpoe, features, netVars>>

WorkAssigns ==
    /\ workPc = "assign"
    /\ ip_address' = addr
    /\ dhcp_retry_count' = Retries
    /\ workPc' = "idle"
    /\ UNCHANGED <<state, timer, registered, work, addr, chipVars, netVars>>

RetryForever ==   \* mutant: the count is not spent
    /\ workPc = "retry"
    /\ timer' = (timer \/ (ready /\ ip_address = NullAddress))
    /\ workPc' = "idle"
    /\ UNCHANGED <<state, ip_address, registered, dhcp_retry_count, work, addr, chipVars, netVars>>

(* ... or waits for DHCP once more.  The count does not go below zero here:*)
(* there it only stays too small.                                          *)
WorkRetries ==
    /\ workPc = "retry"
    /\ IF ready /\ ip_address = NullAddress
       THEN /\ dhcp_retry_count' = IF dhcp_retry_count = 0 THEN 0 ELSE dhcp_retry_count - 1
            /\ timer' = (timer \/ dhcp_retry_count > 1)
       ELSE UNCHANGED <<dhcp_retry_count, timer>>
    /\ workPc' = "idle"
    /\ UNCHANGED <<state, ip_address, registered, work, addr, chipVars, netVars>>

Worker == WorkReads \/ WorkClears \/ WorkAdds \/ WorkAssigns \/ WorkRetries
=============================================================================
