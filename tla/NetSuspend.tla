----------------------------- MODULE NetSuspend -----------------------------
(***************************************************************************)
(* network_activity_handler.cpp: wait_net_suspend waits for the network to *)
(* be idle, takes the lock of the TCP/IP core and lets the microcontroller *)
(* sleep until a frame goes in or out.  The driver sets the event's bits   *)
(* without any lock; whoever sends needs the core.                         *)
(***************************************************************************)
EXTENDS Naturals

CONSTANT Arguments   \* those it may be called with

ASSUME ArgumentsAssumption ==
    Arguments \subseteq [interval : Nat, window : Nat, forever : BOOLEAN]

VARIABLES
    args,         \* those it is called with
    psPc,         \* where wait_net_suspend is
    psState,      \* its state, and result
    callback,     \* emac_activity_callback_registered
    bits,         \* lp_wait_net_event
    suspended,    \* s_ns_suspended
    core,         \* who holds the TCP/IP core between two steps
    sleepLocks    \* locks of deep sleep this module holds

psVars == <<args, psPc, psState, callback, bits, suspended, core, sleepLocks>>

PsStart ==
    /\ args \in Arguments
    /\ psPc = "none" /\ psState = "SUCCESS" /\ callback = FALSE /\ bits = {}
    /\ suspended = FALSE /\ core = "none" /\ sleepLocks = 0

(* on_emac_activity.                                                       *)
Activity(bit) == bits' = IF callback THEN bits \cup {bit} ELSE bits

(* Sending, or passing a frame up, when the core is free.                  *)
UseCore(bit) ==
    /\ core = "none"
    /\ Activity(bit)
    /\ UNCHANGED <<args, psPc, psState, callback, suspended, core, sleepLocks>>

Receive ==
    /\ Activity("RX")
    /\ UNCHANGED <<args, psPc, psState, callback, suspended, core, sleepLocks>>
-----------------------------------------------------------------------------
PsEnter ==
    /\ psPc = "call"
    /\ callback' = TRUE
    /\ sleepLocks' = sleepLocks + 1
    /\ IF args.interval > args.window
       THEN bits' = {} /\ psPc' = "inactivity" /\ psState' = "SUCCESS"
       ELSE UNCHANGED bits /\ psPc' = "leave" /\ psState' = "BAD_ARGS"
    /\ UNCHANGED <<args, suspended, core>>

(* wait_net_inactivity: activity starts the window again, until the        *)
(* interval is over; how much of it has passed is left open.               *)
PsActive ==
    /\ psPc = "inactivity" /\ bits # {}
    /\ bits' = {}
    /\ \/ UNCHANGED <<psPc, psState>>
       \/ psPc' = "leave" /\ psState' = "WAIT_INACTIVITY_TIMEOUT_EXPIRED"
    /\ UNCHANGED <<args, callback, suspended, core, sleepLocks>>

PsIdle ==
    /\ psPc = "inactivity" /\ bits = {}
    /\ psPc' = "suspend"
    /\ UNCHANGED <<args, psState, callback, bits, suspended, core, sleepLocks>>

(* suspend_ns.                                                             *)
PsSuspend ==
    /\ psPc = "suspend"
    /\ IF suspended
       THEN psState' = "BAD_STATE" /\ psPc' = "leave" /\ UNCHANGED <<core, suspended>>
       ELSE /\ core = "none" /\ core' = "powersave"
            /\ suspended' = TRUE
            /\ psState' = "SUCCESS" /\ psPc' = "unlock"
    /\ UNCHANGED <<args, callback, bits, sleepLocks>>

PsUnlockSleep ==
    /\ psPc = "unlock"
    /\ sleepLocks' = sleepLocks - 1
    /\ psPc' = "waiting"
    /\ UNCHANGED <<args, psState, callback, bits, suspended, core>>

WakesOnFrames ==   \* mutant: the wait is for one of the two bits
    /\ psPc = "waiting"
    /\ \/ "RX" \in bits /\ bits' = {} /\ psState' = "NET_ACTIVITY"
       \/ ~args.forever /\ bits = {} /\ UNCHANGED bits /\ psState' = "WAIT_TIMEOUT_EXPIRED"
    /\ psPc' = "relock"
    /\ UNCHANGED <<args, callback, suspended, core, sleepLocks>>

PsWakes ==
    /\ psPc = "waiting"
    /\ \/ bits # {} /\ bits' = {} /\ psState' = "NET_ACTIVITY"
       \/ ~args.forever /\ bits = {} /\ UNCHANGED bits /\ psState' = "WAIT_TIMEOUT_EXPIRED"
    /\ psPc' = "relock"
    /\ UNCHANGED <<args, callback, suspended, core, sleepLocks>>

PsLockSleep ==
    /\ psPc = "relock"
    /\ sleepLocks' = sleepLocks + 1
    /\ psPc' = "resume"
    /\ UNCHANGED <<args, psState, callback, bits, suspended, core>>

ResumeKeepsCore ==   \* mutant: the flag is cleared and the core stays locked
    /\ psPc = "resume"
    /\ suspended' = FALSE /\ psState' = "SUCCESS"
    /\ psPc' = "leave"
    /\ UNCHANGED <<args, callback, bits, core, sleepLocks>>

(* resume_ns; its result replaces that of the wait.                        *)
PsResume ==
    /\ psPc = "resume"
    /\ IF suspended
       THEN core' = "none" /\ suspended' = FALSE /\ psState' = "SUCCESS"
       ELSE UNCHANGED <<core, suspended>> /\ psState' = "BAD_STATE"
    /\ psPc' = "leave"
    /\ UNCHANGED <<args, callback, bits, sleepLocks>>

PsLeave ==
    /\ psPc = "leave"
    /\ sleepLocks' = sleepLocks - 1
    /\ psPc' = "done"
    /\ UNCHANGED <<args, psState, callback, bits, suspended, core>>

PsStep ==
    \/ PsEnter \/ PsActive \/ PsIdle \/ PsSuspend \/ PsUnlockSleep
    \/ PsWakes \/ PsLockSleep \/ PsResume \/ PsLeave
-----------------------------------------------------------------------------
(* The core is locked exactly while the stack counts as suspended, the     *)
(* microcontroller may sleep deeply only while it waits for activity, and  *)
(* on every way out of wait_net_suspend both locks are given back.         *)
LocksBalanced ==
    /\ suspended <=> core = "powersave"
    /\ suspended => psPc \in {"unlock", "waiting", "relock", "resume"}
    /\ sleepLocks = IF psPc \in {"none", "call", "waiting", "relock", "done"} THEN 0 ELSE 1
=============================================================================
