-------------------------------- MODULE Olm ---------------------------------
(***************************************************************************)
(* The offload manager, cy_lpa_wifi_olm.c behind WhdOlmInterface.h, over   *)
(* the two offloads there are.  The driver calls it from one thread at a   *)
(* time; each call walks the list of offloads, and the worker, the timer   *)
(* and the network stack take steps between those of the walk.  (Between   *)
(* the memset of arp_ol_init and the assignment that follows, the worker   *)
(* finds a NULL pointer; that window is left out.)                         *)
(***************************************************************************)
EXTENDS ArpOl, PfOl, Sequences

CONSTANT Setups   \* what the configurator may generate: [list, arp, filters]

VARIABLES
    setup,     \* the one of this build
    inited,    \* _ols_inited
    call,      \* the call under way, "idle" if none
    at, upTo,  \* the offload it has come to, and where it ends
    sub,       \* how far arp_ol_init has come
    host       \* history: the power state last told

olmVars == <<inited, call, at, upTo, sub, host>>
vars == <<setup, olmVars, arpVars, pfVars>>

(* Masks are empty in a setup whose ARP configuration pointer is NULL.     *)
(* Each offload is there once, and so is each filter identifier; a port    *)
(* and a range are numbers of MAX_BITS_IN_PORTNUM bits.                    *)
IsSetup(s) ==
    /\ s.list \in Seq({"ARP", "PF"})
    /\ \A i, j \in DOMAIN s.list : s.list[i] = s.list[j] => i = j
    /\ s.arp \in [given : BOOLEAN, awake : SUBSET Features, sleep : SUBSET Features]
    /\ \A f \in s.filters : f.id \in Nat /\ f.bits \subseteq {"WAKE", "SLEEP", "DISCARD"}
    /\ \A f, g \in s.filters : f.id = g.id => f = g
    /\ \A f \in s.filters : f.feature = "PORTNUM" =>
          f.port \in Numbers /\ f.range \in Numbers /\ f.proto \in {"TCP", "UDP"}

ASSUME SetupsAssumption == \A s \in Setups : IsSetup(s)

Init ==
    /\ setup \in Setups
    /\ inited = FALSE /\ call = "idle" /\ at = 1 /\ upTo = 0 /\ sub = 0
    /\ host = "AWAKE"
    /\ ArpStart /\ PfStart

list == setup.list
Idle == call = "idle"
Here(name) == at <= upTo /\ list[at] = name

(* The next offload, in the for loops of olm.c.                            *)
NextOl == at' = at + 1 /\ sub' = 0 /\ UNCHANGED <<setup, inited, call, upTo, host>>

Calls(c) ==
    /\ Idle
    /\ call' = c /\ at' = 1 /\ sub' = 0 /\ upTo' = Len(list)

Returns ==
    /\ at > upTo
    /\ call' = "idle"
    /\ UNCHANGED <<setup, at, upTo, sub, host, arpVars, pfVars>>
-----------------------------------------------------------------------------
(* init_ols.                                                               *)
InitOls ==
    /\ ~inited
    /\ Calls("init")
    /\ host' = "AWAKE"
    /\ UNCHANGED <<setup, inited, arpVars, pfVars>>

InitArp ==
    /\ call = "init" /\ Here("ARP") /\ setup.arp.given
    /\ UNCHANGED pfVars
    /\ \/ /\ sub = 0 /\ ArpClearStruct /\ sub' = 1
          /\ UNCHANGED <<setup, inited, call, at, upTo, host>>
       \/ /\ sub = 1 /\ ArpClearChip /\ sub' = 2
          /\ UNCHANGED <<setup, inited, call, at, upTo, host>>
       \/ sub = 2 /\ ArpPm(setup.arp, "AWAKE") /\ NextOl

InitFailsKeepsFirst ==   \* mutant: what was initialised stays so
    /\ call = "init" /\ Here("ARP") /\ ~setup.arp.given
    /\ call' = "undo" /\ at' = at /\ upTo' = at - 1
    /\ UNCHANGED <<setup, inited, sub, host, arpVars, pfVars>>

(* An offload that fails ends the loop, and those before it are undone.    *)
InitFails ==
    /\ call = "init" /\ Here("ARP") /\ ~setup.arp.given
    /\ call' = "undo" /\ at' = 1 /\ upTo' = at - 1
    /\ UNCHANGED <<setup, inited, sub, host, arpVars, pfVars>>

InitPf ==
    /\ call = "init" /\ Here("PF")
    /\ PfInit(setup.filters)
    /\ NextOl
    /\ UNCHANGED arpVars

InitReturns ==
    /\ call \in {"init", "undo"}
    /\ inited' = (call = "init")
    /\ Returns

(* deinit_ols, and the undoing.                                            *)
DeinitOls ==
    /\ inited
    /\ Calls("deinit")
    /\ UNCHANGED <<setup, inited, host, arpVars, pfVars>>

DeinitOl ==
    /\ call \in {"undo", "deinit"}
    /\ \/ Here("ARP") /\ ArpDeinit /\ UNCHANGED pfVars
       \/ Here("PF") /\ PfDeinit(setup.filters) /\ UNCHANGED arpVars
    /\ NextOl

DeinitReturns ==
    /\ call = "deinit"
    /\ inited' = FALSE
    /\ Returns

(* sleep and wake: olm_dispatch_pm_notification.                           *)
Dispatch ==
    /\ inited
    /\ Calls("pm")
    /\ host' \in {"AWAKE", "GOING_TO_SLEEP"}
    /\ UNCHANGED <<setup, inited, arpVars, pfVars>>

PmOl ==
    /\ call = "pm"
    /\ \/ /\ Here("ARP") /\ UNCHANGED pfVars
          /\ IF state = host THEN UNCHANGED arpVars ELSE ArpPm(setup.arp, host)
       \/ /\ Here("PF") /\ UNCHANGED arpVars
          /\ PfPm(setup.filters, host)
    /\ NextOl

PmReturns == call = "pm" /\ Returns /\ UNCHANGED inited

Driver ==
    \/ InitArp \/ InitFails \/ InitPf \/ InitReturns
    \/ DeinitOl \/ DeinitReturns \/ PmOl \/ PmReturns

Others == NetworkChanges \/ TimerFires \/ Worker

Next ==
    \/ InitOls \/ DeinitOls \/ Dispatch \/ Driver
    \/ Others /\ UNCHANGED <<setup, olmVars, pfVars>>

(* The threads run; nothing obliges the driver to call or the network to   *)
(* change.                                                                 *)
Fairness ==
    /\ WF_vars(Driver)
    /\ WF_vars(TimerFires /\ UNCHANGED <<setup, olmVars, pfVars>>)
    /\ WF_vars(Worker /\ UNCHANGED <<setup, olmVars, pfVars>>)

Spec == Init /\ [][Next]_vars /\ Fairness
-----------------------------------------------------------------------------
(* The chip answers ARP for no address but the one the offload has, or is  *)
(* about to have, however the worker interleaves with a driver that        *)
(* initialises and deinitialises the offload under it.                     *)
HostIpOwned ==
    sub # 1 => hostip \subseteq {ip_address} \cup (IF workPc = "assign" THEN {addr} ELSE {})

(* olm_init_ols is all or nothing: outside a call, either every offload is *)
(* in the chip, or none has left anything working there.                   *)
AllOrNothing ==
    Idle /\ ~inited =>
        /\ ~arpoe /\ ~registered /\ state = "UNINITIALIZED"
        /\ added = {} /\ enabled = {}

HasOl(name) == \E i \in DOMAIN list : list[i] = name
Settled == Idle /\ inited

(* With the same features for both states the engine is off after the      *)
(* first sleep (arp_ol_pm).                                                *)
FeaturesFollow ==
    Settled /\ HasOl("ARP") /\ setup.arp.awake # setup.arp.sleep =>
        arpoe /\ features = WithAgent(MaskOf(setup.arp, host))

FiltersFollow ==
    Settled /\ HasOl("PF") =>
        /\ added = Ids(setup.filters)
        /\ enabled = Ids(WithBit(setup.filters, IF host = "AWAKE" THEN "WAKE" ELSE "SLEEP"))

(* Told of a power state, the chip has the ARP features configured for it, *)
(* and the agent whenever one of them replies, and of the packet filters   *)
(* exactly those configured for it are enabled, whatever sleeps and wakes  *)
(* came before.                                                            *)
OffloadsFollow == FeaturesFollow /\ FiltersFollow
-----------------------------------------------------------------------------
Filters == UNION {s.filters : s \in Setups}
Frames ==
    [ethertype : {"IP", "ARP"}, protocol : {"UDP", "TCP"},
     src : Numbers, dst : Numbers]

(* The frames a filter lets through, when no other one decides.            *)
FramesKept ==
    [f \in Filters |-> {frame \in Frames : Keeps(f, frame) = (Rule(f) = "POSITIVE_MATCHING")}]

(* What cy_lpa_wifi_pf_ol.h documents of a port filter.                    *)
Documented(f, last) ==
    {frame \in Frames :
        ("DISCARD" \notin f.bits) =
            (/\ frame.ethertype = "IP" /\ frame.protocol = f.proto
             /\ (IF f.direction = "SOURCE" THEN frame.src ELSE frame.dst) \in f.port .. last)}

FramesOfPort == [f \in Filters |-> IF f.feature = "PORTNUM" THEN Documented(f, f.port) ELSE {}]
FramesOfRange ==
    [f \in Filters |-> IF f.feature = "PORTNUM" THEN Documented(f, f.port + f.range) ELSE {}]

Valid(f) == IsRange(f.port, f.range) /\ f.range < f.port

(* A port filter keeps, or discards, the ports from portnum to portnum +   *)
(* range, and one whose numbers are not of the forms the mask can express  *)
(* falls back to portnum alone; a range that is not below portnum apart,   *)
(* which the code does not check.                                          *)
PortsMatch ==
    \A f \in setup.filters :
        f.feature = "PORTNUM" /\ f.id \in added =>
            \/ FramesKept[f] = IF Valid(f) THEN FramesOfRange[f] ELSE FramesOfPort[f]
            \/ IsRange(f.port, f.range) /\ f.range >= f.port
-----------------------------------------------------------------------------
AddressServed ==
    \A a \in MaybeAddress :
        (timer /\ state # "UNINITIALIZED" /\ ipv4 = a)
            ~> (hostip = {a} \ {NullAddress} \/ ipv4 # a \/ state = "UNINITIALIZED")

RetriesEnd ==
    \A a \in MaybeAddress, r \in BOOLEAN :
        <>[](ipv4 = a /\ ready = r) => <>[]~timer

(* No change of address is lost: once the timer runs, the chip comes to    *)
(* answer for the network's address and no other, unless that changes      *)
(* again or the offload is deinitialised first.  And waiting for DHCP ends:*)
(* with no more news from the network the timer, which wakes the           *)
(* microcontroller, stops for good.                                        *)
AddressSettles == AddressServed /\ RetriesEnd
=============================================================================
