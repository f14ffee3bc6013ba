------------------------------ MODULE OlmProofs ------------------------------
(* Proofs about the offload manager: the addresses the chip answers for,   *)
(* that initialising the offloads is all or nothing, that the chip follows *)
(* the power states, and what ports the masks of the filters let through.  *)
EXTENDS Olm, TLAPS, FiniteSetTheorems, WellFoundedInduction

netStep == Others /\ UNCHANGED <<setup, olmVars, pfVars>>

(* The worker adds an address only when the offload has none, or that one; *)
(* and the chip's list is open while arp_ol_init has cleared the offload   *)
(* and not the chip yet, which is no place where it stays.                 *)
HostInv ==
    /\ setup \in Setups /\ at \in Int /\ upTo \in Int
    /\ workPc \in {"add", "assign"} => addr # NullAddress /\ ip_address \in {NullAddress, addr}
    /\ NullAddress \notin hostip
    /\ sub \in 0 .. 2
    /\ sub # 0 => call = "init" /\ Here("ARP") /\ setup.arp.given
    /\ HostIpOwned

LEMMA HostInit == Init => HostInv
BY NullAssumption DEF Init, ArpStart, PfStart, HostInv, HostIpOwned

LEMMA HostOthers == HostInv /\ netStep => HostInv'
<1> SUFFICES ASSUME HostInv, netStep PROVE HostInv'
    OBVIOUS
<1> USE DEF HostInv, HostIpOwned, netStep, olmVars, Here, list, chipVars, netVars
<1>1. CASE NetworkChanges
      BY <1>1 DEF NetworkChanges, workVars
<1>2. CASE TimerFires
      BY <1>2 DEF TimerFires
<1>3. CASE WorkReads
      BY <1>3 DEF WorkReads
<1>4. CASE WorkClears
      BY <1>4 DEF WorkClears
<1>5. CASE WorkAdds
      BY <1>5 DEF WorkAdds
<1>6. CASE WorkAssigns
      BY <1>6 DEF WorkAssigns
<1>7. CASE WorkRetries
      BY <1>7 DEF WorkRetries
<1>8. QED
      BY <1>1, <1>2, <1>3, <1>4, <1>5, <1>6, <1>7 DEF Others, Worker

LEMMA HostDriver == HostInv /\ (InitOls \/ DeinitOls \/ Dispatch \/ Driver) => HostInv'
<1> SUFFICES ASSUME HostInv, InitOls \/ DeinitOls \/ Dispatch \/ Driver PROVE HostInv'
    OBVIOUS
<1>0. setup \in Setups => Len(setup.list) \in Int
      BY SetupsAssumption DEF IsSetup
<1> USE <1>0 DEF HostInv, HostIpOwned, Here, list, Idle, arpVars, workVars, chipVars, netVars
<1>1. CASE InitOls
      BY <1>1 DEF InitOls, Calls
<1>2. CASE DeinitOls
      BY <1>2 DEF DeinitOls, Calls
<1>3. CASE Dispatch
      BY <1>3 DEF Dispatch, Calls
<1>4. CASE InitArp
  <2>1. CASE sub = 0 /\ ArpClearStruct /\ sub' = 1 /\ UNCHANGED <<setup, inited, call, at, upTo, host>>
        BY <1>4, <2>1 DEF InitArp, ArpClearStruct
  <2>2. CASE sub = 1 /\ ArpClearChip /\ sub' = 2 /\ UNCHANGED <<setup, inited, call, at, upTo, host>>
        BY <1>4, <2>2 DEF InitArp, ArpClearChip
  <2>3. CASE sub = 2 /\ ArpPm(setup.arp, "AWAKE") /\ NextOl
        BY <2>3 DEF ArpPm, NextOl
  <2>4. QED
        BY <1>4, <2>1, <2>2, <2>3 DEF InitArp
<1>5. CASE InitFails
      BY <1>5 DEF InitFails
<1>6. CASE InitPf
      BY <1>6 DEF InitPf, NextOl
<1>7. CASE InitReturns
      BY <1>7 DEF InitReturns, Returns
<1>8. CASE DeinitOl
      BY <1>8 DEF DeinitOl, ArpDeinit, NextOl
<1>9. CASE DeinitReturns
      BY <1>9 DEF DeinitReturns, Returns
<1>10. CASE PmOl
      BY <1>10 DEF PmOl, ArpPm, NextOl
<1>11. CASE PmReturns
      BY <1>11 DEF PmReturns, Returns
<1>12. QED
      BY <1>1, <1>2, <1>3, <1>4, <1>5, <1>6, <1>7, <1>8, <1>9, <1>10, <1>11 DEF Driver

LEMMA HostStep == HostInv /\ [Next]_vars => HostInv'
<1>1. HostInv /\ UNCHANGED vars => HostInv'
      BY DEF HostInv, HostIpOwned, vars, olmVars, arpVars, workVars, chipVars, Here, list
<1>2. QED
      BY <1>1, HostOthers, HostDriver DEF Next, netStep

(* For any setups, addresses and sizes the chip answers ARP for no address *)
(* but the offload's, or the one the worker is about to give it, however   *)
(* arp_ol_nw_ip_change_work meets init, deinit and the power changes.      *)
THEOREM HostAddresses == Spec => []HostIpOwned
<1>1. HostInv => HostIpOwned
      BY DEF HostInv
<1>2. QED
      BY <1>1, HostInit, HostStep, PTL DEF Spec
-----------------------------------------------------------------------------
Working(name) ==
    \/ name = "ARP" /\ (arpoe \/ registered \/ state # "UNINITIALIZED")
    \/ name = "PF" /\ (added # {} \/ enabled # {})

(* What the walk has left working, or is still to take down, is in the     *)
(* list where it has been, or where it is still to come.                   *)
MayWork(j) ==
    \/ call = "init" /\ j < at
    \/ call \in {"undo", "deinit"} /\ at <= j /\ j <= upTo
    \/ call \in {"idle", "pm"} /\ inited

WalkType ==
    /\ inited \in BOOLEAN /\ arpoe \in BOOLEAN /\ registered \in BOOLEAN
    /\ setup \in Setups /\ at \in Nat \ {0} /\ upTo \in Nat
    /\ call \in {"idle", "init", "undo", "deinit", "pm"}
    /\ call \in {"deinit", "pm"} => inited
    /\ call \in {"init", "undo"} => ~inited
    /\ call \in {"init", "deinit", "pm"} => upTo = Len(list)
    /\ added \subseteq Ids(setup.filters) /\ enabled \subseteq Ids(setup.filters)

WalkInv ==
    /\ WalkType
    /\ \A name \in {"ARP", "PF"} :
          Working(name) => \E j \in 1 .. Len(list) : MayWork(j) /\ list[j] = name

LEMMA WalkInit == Init => WalkInv
<1> SUFFICES ASSUME Init PROVE WalkInv
    OBVIOUS
<1> USE DEF Init, ArpStart, PfStart, WalkInv, WalkType, Working, MayWork
<1>1. setup \in Setups /\ at \in Nat \ {0} /\ upTo \in Nat
      OBVIOUS
<1>2. inited \in BOOLEAN /\ arpoe \in BOOLEAN /\ registered \in BOOLEAN
      OBVIOUS
<1>3. added \subseteq Ids(setup.filters) /\ enabled \subseteq Ids(setup.filters)
      OBVIOUS
<1>4. call = "idle" /\ \A name \in {"ARP", "PF"} : ~Working(name)
      OBVIOUS
<1>5. QED
      BY <1>1, <1>2, <1>3, <1>4

(* The other threads keep the chip's switch and the offload's state.       *)
LEMMA WalkOthers == WalkInv /\ netStep => WalkInv'
<1>1. netStep => UNCHANGED <<setup, olmVars, pfVars, arpoe, registered, state>>
      BY DEF netStep, Others, NetworkChanges, TimerFires, Worker, WorkReads, WorkClears,
             WorkAdds, WorkAssigns, WorkRetries, chipVars, netVars, workVars
<1>2. WalkInv /\ UNCHANGED <<setup, olmVars, pfVars, arpoe, registered, state>> => WalkInv'
      BY DEF WalkInv, WalkType, Working, MayWork, olmVars, pfVars, list
<1>3. QED
      BY <1>1, <1>2

LEMMA WalkDriver == WalkInv /\ (InitOls \/ DeinitOls \/ Dispatch \/ Driver) => WalkInv'
<1> SUFFICES ASSUME WalkInv, InitOls \/ DeinitOls \/ Dispatch \/ Driver PROVE WalkInv'
    OBVIOUS
<1>0. Len(setup.list) \in Nat
      BY SetupsAssumption DEF IsSetup, WalkInv, WalkType
<1> USE <1>0 DEF WalkInv, WalkType, Working, MayWork, Here, list, Idle, pfVars, chipVars
<1>1. CASE InitOls
      BY <1>1 DEF InitOls, Calls, arpVars
<1>2. CASE DeinitOls
      BY <1>2 DEF DeinitOls, Calls, arpVars
<1>3. CASE Dispatch
      BY <1>3 DEF Dispatch, Calls, arpVars
<1>4. CASE InitArp
  <2> USE <1>4 DEF InitArp, ArpPm, ArpClearStruct, ArpClearChip, NextOl
  <2>1. /\ UNCHANGED <<setup, call, upTo, inited, added, enabled>>
        /\ call = "init" /\ at \in 1 .. Len(list) /\ list[at] = "ARP"
        OBVIOUS
  <2>2. arpoe' \in BOOLEAN /\ registered' \in BOOLEAN
        OBVIOUS
  <2>3. at' \in {at, at + 1} /\ (at' = at => (Working("ARP")' => Working("ARP")))
        OBVIOUS
  <2>4. WalkType'
        BY <2>1, <2>2, <2>3
  <2>5. ASSUME NEW name \in {"ARP", "PF"}, Working(name)'
        PROVE  Working(name) \/ (at' = at + 1 /\ list[at] = name)
        BY <2>1, <2>3, <2>5
  <2>6. ASSUME NEW j \in 1 .. Len(list), MayWork(j) \/ (j = at /\ at' = at + 1)
        PROVE  MayWork(j)'
        BY <2>1, <2>3, <2>6
  <2>7. QED
        BY <2>1, <2>4, <2>5, <2>6
<1>5. CASE InitFails
      BY <1>5 DEF InitFails, arpVars
<1>6. CASE InitPf
      BY <1>6 DEF InitPf, PfInit, NextOl, arpVars, Ids, WithBit
<1>7. CASE InitReturns
  <2> USE <1>7 DEF InitReturns, Returns, arpVars
  <2>1. /\ UNCHANGED <<setup, at, upTo, added, enabled, arpoe, registered, state>>
        /\ call \in {"init", "undo"} /\ at > upTo /\ call' = "idle"
        OBVIOUS
  <2>2. inited' = (call = "init") /\ inited' \in BOOLEAN
        OBVIOUS
  <2>3. WalkType'
        BY <2>1, <2>2
  <2>4. CASE call = "init"
    <3>1. inited' /\ \A j \in 1 .. Len(list) : MayWork(j)'
          BY <2>1, <2>2, <2>4
    <3>2. ASSUME NEW name \in {"ARP", "PF"}, Working(name)'
          PROVE  Working(name) /\ \E j \in 1 .. Len(list) : list[j] = name
          BY <2>1, <3>2
    <3>3. QED
          BY <2>1, <2>3, <3>1, <3>2
  <2>5. CASE call = "undo"
    <3>1. \A name \in {"ARP", "PF"} : ~Working(name)
          BY <2>1, <2>5
    <3>2. QED
          BY <2>1, <2>3, <3>1
  <2>6. QED
        BY <2>1, <2>4, <2>5
<1>8. CASE DeinitOl
  <2> USE <1>8 DEF DeinitOl, ArpDeinit, PfDeinit, NextOl, arpVars, netVars
  <2>1. /\ UNCHANGED <<setup, call, upTo, inited>>
        /\ call \in {"undo", "deinit"} /\ at' = at + 1
        OBVIOUS
  <2>2. /\ arpoe' \in BOOLEAN /\ registered' \in BOOLEAN
        /\ added' \subseteq added /\ enabled' \subseteq enabled
        OBVIOUS
  <2>3. WalkType'
        BY <2>1, <2>2
  <2>4. ASSUME NEW name \in {"ARP", "PF"}, Working(name)'
        PROVE  Working(name) /\ list[at] # name
        BY <2>4
  <2>5. ASSUME NEW j \in 1 .. Len(list), MayWork(j), j # at PROVE MayWork(j)'
        BY <2>1, <2>5
  <2>6. QED
        BY <2>1, <2>3, <2>4, <2>5
<1>9. CASE DeinitReturns
  <2> USE <1>9 DEF DeinitReturns, Returns, arpVars
  <2>1. /\ UNCHANGED <<setup, at, upTo, added, enabled, arpoe, registered, state>>
        /\ call' = "idle"
        OBVIOUS
  <2>2. WalkType'
        BY <2>1
  <2>3. \A name \in {"ARP", "PF"} : ~Working(name)'
        BY <2>1
  <2>4. QED
        BY <2>1, <2>2, <2>3
<1>10. CASE PmOl
  <2> USE <1>10 DEF PmOl, ArpPm, PfPm, NextOl, arpVars, Ids, WithBit
  <2>1. /\ UNCHANGED <<setup, upTo, call, inited, added>>
        /\ call = "pm" /\ at \in 1 .. Len(list)
        OBVIOUS
  <2>2. /\ arpoe' \in BOOLEAN /\ registered' \in BOOLEAN
        /\ enabled' \subseteq Ids(setup.filters)
        OBVIOUS
  <2>3. WalkType'
        BY <2>1, <2>2
  <2>4. \A name \in {"ARP", "PF"} : Working(name)' => Working(name) \/ list[at] = name
        OBVIOUS
  <2>5. \A j \in 1 .. Len(list) : MayWork(j)'
        OBVIOUS
  <2>6. QED
        BY <2>1, <2>3, <2>4, <2>5
<1>11. CASE PmReturns
      BY <1>11 DEF PmReturns, Returns, arpVars
<1>12. QED
      BY <1>1, <1>2, <1>3, <1>4, <1>5, <1>6, <1>7, <1>8, <1>9, <1>10, <1>11 DEF Driver

LEMMA WalkStep == WalkInv /\ [Next]_vars => WalkInv'
<1>1. WalkInv /\ UNCHANGED vars => WalkInv'
      BY DEF WalkInv, WalkType, Working, MayWork, vars, olmVars, arpVars, chipVars, pfVars, list
<1>2. QED
      BY <1>1, WalkOthers, WalkDriver DEF Next, netStep

(* For any list of offloads and any filters, in any number and order,      *)
(* init_ols leaves all of them working or, when one fails, none; and after *)
(* deinit_ols none is (cy_lpa_wifi_olm.c, WhdOlmInterface.h).              *)
THEOREM OffloadsAllOrNothing == Spec => []AllOrNothing
<1>1. WalkInv => AllOrNothing
      BY DEF WalkInv, Working, MayWork, AllOrNothing, Idle
<1>2. QED
      BY <1>1, WalkInit, WalkStep, PTL DEF Spec
-----------------------------------------------------------------------------
(* What the chip does in each state it has been told of.                   *)
Bit(st) == IF st = "AWAKE" THEN "WAKE" ELSE "SLEEP"
FilteredFor(st) == added = Ids(setup.filters) /\ enabled = Ids(WithBit(setup.filters, Bit(st)))
FeaturedFor(st) ==
    setup.arp.awake # setup.arp.sleep => arpoe /\ features = WithAgent(MaskOf(setup.arp, st))

(* The offload of that name has been initialised, and told of host.        *)
Up(name) ==
    \E j \in 1 .. Len(list) :
       /\ list[j] = name
       /\ \/ call \in {"idle", "pm"} /\ inited
          \/ call = "init" /\ j < at
Told(name) == \E j \in 1 .. Len(list) : list[j] = name /\ (call = "pm" => j < at)

FollowInv ==
    /\ host \in {"AWAKE", "GOING_TO_SLEEP"}
    /\ call = "init" => host = "AWAKE"
    /\ Up("ARP") => /\ state \in {"AWAKE", "GOING_TO_SLEEP"} /\ FeaturedFor(state)
                    /\ Told("ARP") => state = host
    /\ Up("PF") => /\ \E st \in {"AWAKE", "GOING_TO_SLEEP"} : FilteredFor(st)
                   /\ Told("PF") => FilteredFor(host)

LEMMA OneOfEach ==
  ASSUME WalkInv, NEW i \in 1 .. Len(list), NEW j \in 1 .. Len(list), list[i] = list[j]
  PROVE  i = j
<1>1. setup.list \in Seq({"ARP", "PF"}) /\ \A m, n \in DOMAIN setup.list : setup.list[m] = setup.list[n] => m = n
      BY SetupsAssumption DEF IsSetup, WalkInv, WalkType
<1>2. DOMAIN setup.list = 1 .. Len(setup.list)
      BY <1>1
<1>3. QED
      BY <1>1, <1>2 DEF list

(* Filters that are always on keep their place, the others change theirs.  *)
LEMMA FiltersMoved ==
  ASSUME WalkInv, NEW st \in {"AWAKE", "GOING_TO_SLEEP"}, NEW old \in {"AWAKE", "GOING_TO_SLEEP"},
         FilteredFor(old), PfPm(setup.filters, st), setup' = setup
  PROVE  FilteredFor(st)'
<1> DEFINE moving == setup.filters \ (WithBit(setup.filters, "SLEEP") \cap WithBit(setup.filters, "WAKE"))
<1>1. \A f, g \in setup.filters : f.id = g.id => f = g
      BY SetupsAssumption DEF IsSetup, WalkInv, WalkType
<1>2. enabled' = (Ids(WithBit(setup.filters, Bit(old))) \ Ids(moving)) \cup Ids(WithBit(moving, Bit(st)))
      BY DEF PfPm, FilteredFor, Bit
<1>3. ASSUME NEW x \in Ids(WithBit(setup.filters, Bit(st)))
      PROVE  x \in enabled'
  <2>1. PICK f \in setup.filters : Bit(st) \in f.bits /\ x = f.id
        BY DEF Ids, WithBit
  <2>2. CASE f \in moving
        BY <1>2, <2>1, <2>2 DEF Ids, WithBit
  <2>3. CASE f \notin moving
    <3>1. Bit(old) \in f.bits
          BY <2>1, <2>3 DEF WithBit, Bit
    <3>2. x \notin Ids(moving)
          BY <1>1, <2>1, <2>3 DEF Ids
    <3>3. QED
          BY <1>2, <2>1, <3>1, <3>2 DEF Ids, WithBit
  <2>4. QED
        BY <2>2, <2>3
<1>4. ASSUME NEW x \in enabled'
      PROVE  x \in Ids(WithBit(setup.filters, Bit(st)))
  <2>1. CASE x \in Ids(WithBit(setup.filters, Bit(old))) \ Ids(moving)
    <3>1. PICK f \in setup.filters : x = f.id /\ f \notin moving
          BY <2>1 DEF Ids, WithBit
    <3>2. Bit(st) \in f.bits
          BY <3>1 DEF WithBit, Bit
    <3>3. QED
          BY <3>1, <3>2 DEF Ids, WithBit
  <2>2. CASE x \in Ids(WithBit(moving, Bit(st)))
        BY <2>2 DEF Ids, WithBit
  <2>3. QED
        BY <1>2, <1>4, <2>1, <2>2
<1>5. enabled' = Ids(WithBit(setup.filters, Bit(st)))
      BY <1>3, <1>4
<1>6. QED
      BY <1>5 DEF FilteredFor, PfPm, Ids, WithBit

LEMMA FollowInit == Init => FollowInv
BY DEF Init, FollowInv, Up

LEMMA FollowOthers == FollowInv /\ (netStep \/ UNCHANGED vars) => FollowInv'
<1>1. netStep \/ UNCHANGED vars => UNCHANGED <<setup, olmVars, pfVars, arpoe, features, state>>
      BY DEF netStep, Others, NetworkChanges, TimerFires, Worker, WorkReads, WorkClears,
             WorkAdds, WorkAssigns, WorkRetries, chipVars, netVars, workVars, vars, arpVars
<1>2. FollowInv /\ UNCHANGED <<setup, olmVars, pfVars, arpoe, features, state>> => FollowInv'
      BY DEF FollowInv, Up, Told, FilteredFor, FeaturedFor, olmVars, pfVars, list
<1>3. QED
      BY <1>1, <1>2

LEMMA FollowDriver ==
  ASSUME FollowInv, WalkInv, InitOls \/ DeinitOls \/ Dispatch \/ Driver
  PROVE  FollowInv'
<1>0. /\ setup \in Setups /\ Len(setup.list) \in Nat /\ at \in Nat \ {0}
      /\ call \in {"init", "deinit", "pm"} => upTo = Len(list)
      /\ call \in {"init", "undo"} => ~inited
      BY SetupsAssumption DEF IsSetup, WalkInv, WalkType
<1> USE <1>0 DEF Here, list, Idle
<1>1. CASE InitOls \/ DeinitOls \/ Dispatch
  <2>1. UNCHANGED <<setup, inited, arpVars, pfVars>> /\ at' = 1
        BY <1>1 DEF InitOls, DeinitOls, Dispatch, Calls
  <2>2. \A st \in {"AWAKE", "GOING_TO_SLEEP"} :
           FilteredFor(st)' = FilteredFor(st) /\ FeaturedFor(st)' = FeaturedFor(st)
        BY <2>1 DEF FilteredFor, FeaturedFor, arpVars, chipVars, pfVars
  <2>3. CASE InitOls \/ DeinitOls
    <3>1. ~Up("ARP")' /\ ~Up("PF")' /\ host' \in {host, "AWAKE"} /\ (call' = "init" => host' = "AWAKE")
          BY <2>1, <2>3 DEF InitOls, DeinitOls, Calls, Up
    <3>2. QED
          BY <3>1 DEF FollowInv
  <2>4. CASE Dispatch
    <3>1. call = "idle" /\ inited /\ call' = "pm" /\ host' \in {"AWAKE", "GOING_TO_SLEEP"}
          BY <2>4 DEF Dispatch, Calls
    <3>2. ~Told("ARP")' /\ ~Told("PF")'
          BY <2>1, <3>1 DEF Told
    <3>3. (Up("ARP")' => Up("ARP")) /\ (Up("PF")' => Up("PF"))
          BY <2>1, <3>1 DEF Up
    <3>4. state' = state
          BY <2>1 DEF arpVars
    <3>5. QED
          BY <2>2, <3>1, <3>2, <3>3, <3>4 DEF FollowInv
  <2>5. QED
        BY <1>1, <2>3, <2>4
<1>2. CASE InitFails
  <2>1. ~Up("ARP")' /\ ~Up("PF")' /\ host' = host /\ call' = "undo"
        BY <1>2 DEF InitFails, Up
  <2>2. QED
        BY <2>1 DEF FollowInv
<1>3. CASE DeinitOl \/ (InitReturns /\ call = "undo") \/ DeinitReturns
  <2>1. ~Up("ARP")' /\ ~Up("PF")' /\ host' = host /\ call' # "init"
        BY <1>3 DEF DeinitOl, InitReturns, DeinitReturns, Returns, NextOl, Up
  <2>2. QED
        BY <2>1 DEF FollowInv
<1>4. CASE (InitReturns /\ call = "init") \/ PmReturns
  <2>1. UNCHANGED <<setup, host, arpVars, pfVars>> /\ call' = "idle" /\ at > Len(setup.list)
        BY <1>4 DEF InitReturns, PmReturns, Returns
  <2>2. \A name \in {"ARP", "PF"} : (Up(name)' => Up(name)) /\ (Told(name)' => Told(name))
    <3>1. call = "pm" => inited' = inited
          BY <1>4 DEF PmReturns, InitReturns
    <3>2. QED
          BY <1>4, <2>1, <3>1 DEF Up, Told, InitReturns, PmReturns
  <2>3. \A st \in {"AWAKE", "GOING_TO_SLEEP"} :
           (FilteredFor(st) => FilteredFor(st)') /\ (FeaturedFor(st) => FeaturedFor(st)')
        BY <2>1 DEF FilteredFor, FeaturedFor, arpVars, chipVars, pfVars
  <2>4. state' = state
        BY <2>1 DEF arpVars
  <2>5. QED
        BY <2>1, <2>2, <2>3, <2>4 DEF FollowInv
<1>5. CASE InitArp
  <2>1. /\ call = "init" /\ call' = "init" /\ at \in 1 .. Len(list) /\ list[at] = "ARP" /\ host' = host
        /\ UNCHANGED <<setup, inited, added, enabled>> /\ at' \in {at, at + 1}
        BY <1>5 DEF InitArp, NextOl, pfVars
  <2>2. Up("PF")' => Up("PF")
        BY <2>1 DEF Up
  <2>3. ~Up("ARP")
        BY <2>1, OneOfEach DEF Up
  <2>4. CASE at' = at
    <3>1. ~Up("ARP")'
          BY <2>1, <2>3, <2>4 DEF Up
    <3>2. QED
          BY <2>1, <2>2, <3>1 DEF FollowInv, FilteredFor, Told
  <2>5. CASE at' = at + 1
    <3>1. ArpPm(setup.arp, "AWAKE")
          BY <1>5, <2>1, <2>5 DEF InitArp
    <3>2. state' = "AWAKE"
          BY <3>1 DEF ArpPm
    <3>3. FeaturedFor("AWAKE")'
          BY <2>1, <3>1 DEF ArpPm, FeaturedFor
    <3>4. QED
          BY <2>1, <2>2, <3>2, <3>3 DEF FollowInv, FilteredFor, Told
  <2>6. QED
        BY <2>1, <2>4, <2>5
<1>6. CASE InitPf
  <2>1. /\ call = "init" /\ call' = "init" /\ at \in 1 .. Len(list) /\ list[at] = "PF" /\ host' = host
        /\ UNCHANGED <<setup, inited, arpoe, features, state>> /\ at' = at + 1
        /\ PfInit(setup.filters)
        BY <1>6 DEF InitPf, NextOl, arpVars, chipVars
  <2>2. Up("ARP")' => Up("ARP")
        BY <2>1 DEF Up
  <2>3. added = {} /\ enabled = {}
    <3>1. \A j \in 1 .. Len(list) : MayWork(j) => list[j] # "PF"
          BY <2>1, OneOfEach DEF MayWork
    <3>2. ~Working("PF")
          BY <3>1 DEF WalkInv
    <3>3. QED
          BY <3>2 DEF Working
  <2>4. FilteredFor("AWAKE")'
        BY <2>1, <2>3 DEF PfInit, FilteredFor, Bit, Ids, WithBit
  <2>5. QED
        BY <2>1, <2>2, <2>4 DEF FollowInv, FeaturedFor, Told
<1>7. CASE PmOl
  <2>1. /\ call = "pm" /\ call' = "pm" /\ at \in 1 .. Len(list) /\ host' = host
        /\ UNCHANGED <<setup, inited>> /\ at' = at + 1
        BY <1>7 DEF PmOl, NextOl
  <2>2. \A name \in {"ARP", "PF"} : (Up(name)' <=> Up(name)) /\ (Told(name)' => Told(name) \/ list[at] = name)
    <3> SUFFICES ASSUME NEW name \in {"ARP", "PF"}
                 PROVE  (Up(name)' <=> Up(name)) /\ (Told(name)' => Told(name) \/ list[at] = name)
        OBVIOUS
    <3>1. Up(name)' <=> Up(name)
          BY <2>1 DEF Up
    <3>2. ASSUME Told(name)' PROVE Told(name) \/ list[at] = name
      <4>1. PICK j \in 1 .. Len(list) : list[j] = name /\ j < at + 1
            BY <2>1, <3>2 DEF Told
      <4>2. j < at \/ j = at
            BY <4>1
      <4>3. QED
            BY <4>1, <4>2 DEF Told
    <3>3. QED
          BY <3>1, <3>2
  <2>3. CASE list[at] = "ARP"
    <3>1. UNCHANGED pfVars /\ IF state = host THEN UNCHANGED arpVars ELSE ArpPm(setup.arp, host)
          BY <1>7, <2>3 DEF PmOl
    <3>2. Up("ARP") => state \in {"AWAKE", "GOING_TO_SLEEP"} /\ FeaturedFor(state)
          BY DEF FollowInv
    <3>3. Up("ARP") => state' = host /\ FeaturedFor(host)'
          BY <2>1, <3>1, <3>2 DEF ArpPm, FeaturedFor, arpVars, chipVars
    <3>4. ~(list[at] = "PF")
          BY <2>3
    <3>5. QED
          BY <2>1, <2>2, <3>1, <3>3, <3>4 DEF FollowInv, FilteredFor, pfVars
  <2>4. CASE list[at] = "PF"
    <3>1. UNCHANGED arpVars /\ PfPm(setup.filters, host)
          BY <1>7, <2>4 DEF PmOl
    <3>2. Up("PF") => FilteredFor(host)'
          BY <2>1, <3>1, FiltersMoved DEF FollowInv
    <3>3. QED
          BY <2>1, <2>2, <2>4, <3>1, <3>2 DEF FollowInv, FeaturedFor, arpVars, chipVars
  <2>5. QED
        BY <1>7, <2>3, <2>4 DEF PmOl
<1>8. QED
      BY <1>1, <1>2, <1>3, <1>4, <1>5, <1>6, <1>7 DEF Driver, InitReturns

LEMMA FollowInvImplies ==
  ASSUME FollowInv, WalkInv PROVE OffloadsFollow
<1>1. DOMAIN setup.list = 1 .. Len(setup.list)
      BY SetupsAssumption DEF IsSetup, WalkInv, WalkType
<1>2. \A name : Settled /\ HasOl(name) => Up(name) /\ Told(name)
  <2> SUFFICES ASSUME NEW name, Settled, HasOl(name) PROVE Up(name) /\ Told(name)
      OBVIOUS
  <2>1. PICK i \in 1 .. Len(setup.list) : setup.list[i] = name
        BY <1>1 DEF HasOl, list
  <2>2. call = "idle" /\ inited
        BY DEF Settled, Idle
  <2>3. QED
        BY <2>1, <2>2 DEF Up, Told, list
<1>3. FeaturesFollow
      BY <1>2 DEF FollowInv, FeaturesFollow, FeaturedFor
<1>4. FiltersFollow
      BY <1>2 DEF FollowInv, FiltersFollow, FilteredFor, Bit
<1>5. QED
      BY <1>3, <1>4 DEF OffloadsFollow

(* For any list, features and filters: after any sleeps and wakes the chip *)
(* has the features and the filters that are configured for the state it   *)
(* was last told of (arp_ol_pm, pf_ol_pm).                                 *)
THEOREM ChipFollows == Spec => []OffloadsFollow
<1>1. FollowInv /\ WalkInv /\ [Next]_vars => FollowInv'
      BY FollowOthers, FollowDriver DEF Next, netStep
<1>2. QED
      BY <1>1, FollowInit, WalkInit, WalkStep, FollowInvImplies, PTL DEF Spec
-----------------------------------------------------------------------------
(* Powers of two, of which the provers know that there are 2^n subsets of a*)
(* set of n members.                                                       *)
LEMMA PowerOfSubsets ==
  ASSUME NEW n \in Nat
  PROVE  /\ IsFiniteSet(SUBSET (1 .. n)) /\ Cardinality(SUBSET (1 .. n)) = 2^n
         /\ 2^n \in Nat /\ 2^n # 0
<1>1. IsFiniteSet(1 .. n) /\ Cardinality(1 .. n) = n
      BY FS_Interval
<1>2. IsFiniteSet(SUBSET (1 .. n)) /\ Cardinality(SUBSET (1 .. n)) = 2^n
      BY <1>1, FS_SUBSET
<1>3. SUBSET (1 .. n) # {}
      OBVIOUS
<1>4. QED
      BY <1>2, <1>3, FS_CardinalityType, FS_EmptySet

LEMMA PowerStep ==
  ASSUME NEW n \in Nat
  PROVE  2^0 = 1 /\ 2^(n + 1) = 2 * 2^n
<1> DEFINE A == SUBSET (1 .. n)
           B == {T \cup {n + 1} : T \in A}
           f == [T \in A |-> T \cup {n + 1}]
<1>1. 2^0 = 1
  <2>1. SUBSET (1 .. 0) = {{}}
        OBVIOUS
  <2>2. QED
        BY <2>1, PowerOfSubsets, FS_Singleton
<1>2. SUBSET (1 .. n + 1) = A \cup B
  <2>1. ASSUME NEW T \in SUBSET (1 .. n + 1)
        PROVE  T \in A \cup B
    <3>1. CASE n + 1 \in T
      <4>1. T \ {n + 1} \in A /\ T = (T \ {n + 1}) \cup {n + 1}
            BY <3>1
      <4>2. QED
            BY <4>1
    <3>2. CASE n + 1 \notin T
          BY <3>2
    <3>3. QED
          BY <3>1, <3>2
  <2>2. ASSUME NEW T \in A \cup B
        PROVE  T \in SUBSET (1 .. n + 1)
        OBVIOUS
  <2>3. QED
        BY <2>1, <2>2
<1>3. A \cap B = {}
      OBVIOUS
<1>4. f \in Bijection(A, B)
  <2>1. \A T \in A : n + 1 \notin T /\ f[T] = T \cup {n + 1} /\ f[T] \in B
        OBVIOUS
  <2>2. ASSUME NEW S \in A, NEW T \in A, f[S] = f[T]
        PROVE  S = T
    <3>1. S = f[S] \ {n + 1} /\ T = f[T] \ {n + 1}
          BY <2>1
    <3>2. QED
          BY <3>1, <2>2
  <2>3. \A b \in B : \E T \in A : f[T] = b
        OBVIOUS
  <2>4. f \in [A -> B]
        BY <2>1
  <2> HIDE DEF A, B, f
  <2>5. QED
        BY <2>2, <2>3, <2>4 DEF Bijection, Injection, Surjection, IsInjective
<1>5. IsFiniteSet(A) /\ Cardinality(A) = 2^n
      BY PowerOfSubsets
<1>6. IsFiniteSet(B) /\ Cardinality(B) = 2^n
      BY <1>4, <1>5, FS_Bijection DEF ExistsBijection
<1> HIDE DEF A, B
<1>7. Cardinality(A \cup B) = Cardinality(A) + Cardinality(B) - Cardinality(A \cap B)
      BY <1>5, <1>6, FS_Union
<1>8. Cardinality(A \cap B) = 0
      BY <1>3, FS_EmptySet
<1>9. 2^n \in Nat
      BY PowerOfSubsets
<1>10. n + 1 \in Nat
      OBVIOUS
<1>11. Cardinality(SUBSET (1 .. n + 1)) = 2^(n + 1)
      BY <1>10, PowerOfSubsets
<1>12. 2^(n + 1) = Cardinality(A) + Cardinality(B) - Cardinality(A \cap B)
      BY <1>2, <1>7, <1>11
<1>13. 2^(n + 1) = 2 * 2^n
      BY <1>5, <1>6, <1>8, <1>9, <1>12
<1>14. QED
      BY <1>1, <1>13

(* A set of naturals has a smallest member.                                *)
LEMMA Smallest ==
  ASSUME NEW T \in SUBSET Nat, T # {}
  PROVE  \E x \in T : \A y \in T : x <= y
<1>1. PICK x \in T : \A y \in T : ~(<<y, x>> \in OpToRel(<, Nat))
      BY NatLessThanWellFounded, WFMin
<1>2. ASSUME NEW y \in T
      PROVE  x <= y
  <2>1. x \in Nat /\ y \in Nat /\ ~(y < x)
        BY <1>1 DEF OpToRel
  <2>2. QED
        BY <2>1
<1>3. QED
      BY <1>2

LEMMA PowerSum ==
  ASSUME NEW a \in Nat, NEW b \in Nat
  PROVE  2^(a + b) = 2^a * 2^b
<1> DEFINE T == {j \in Nat : 2^(a + j) # 2^a * 2^j}
<1> SUFFICES ASSUME T # {} PROVE FALSE
    OBVIOUS
<1>1. PICK j \in T : \A y \in T : j <= y
      BY Smallest
<1>2. 2^a \in Nat
      BY PowerOfSubsets
<1>3. j # 0
  <2>1. 2^(a + 0) = 2^a * 2^0
        BY <1>2, PowerStep
  <2>2. QED
        BY <2>1
<1>4. j - 1 \in Nat /\ j - 1 \notin T
      BY <1>1, <1>3
<1>5. 2^(a + (j - 1)) = 2^a * 2^(j - 1)
      BY <1>4
<1>6. /\ 2^(a + (j - 1) + 1) = 2 * 2^(a + (j - 1))
      /\ 2^((j - 1) + 1) = 2 * 2^(j - 1)
      BY <1>4, PowerStep
<1>7. a + (j - 1) + 1 = a + j /\ (j - 1) + 1 = j
      BY <1>4
<1>8. 2^(j - 1) \in Nat
      BY <1>4, PowerOfSubsets
<1>9. 2 * (2^a * 2^(j - 1)) = 2^a * (2 * 2^(j - 1))
      BY <1>2, <1>8
<1>10. 2^(a + j) = 2^a * 2^j
      BY <1>5, <1>6, <1>7, <1>9
<1>11. QED
      BY <1>10

(* A quotient by a power, and quotients of quotients.                      *)
LEMMA Quotient ==
  ASSUME NEW n \in Nat, NEW w \in Nat \ {0}
  PROVE  /\ n \div w \in Nat
         /\ \A q \in Nat : (n \div w = q) <=> (q * w <= n /\ n < q * w + w)
OBVIOUS

LEMMA QuotientTwice ==
  ASSUME NEW n \in Nat, NEW u \in Nat \ {0}, NEW v \in Nat \ {0}
  PROVE  n \div (u * v) = (n \div u) \div v
<1> DEFINE q == n \div u
           p == q \div v
<1>1. q \in Nat /\ q * u <= n /\ n < q * u + u
      BY Quotient
<1>2. p \in Nat /\ p * v <= q /\ q < p * v + v
      BY <1>1, Quotient
<1> HIDE DEF q, p
<1>3. u * v \in Nat \ {0}
      OBVIOUS
<1>4. p * (u * v) <= n
  <2>1. (p * v) * u <= q * u
        BY <1>1, <1>2
  <2>2. (p * v) * u = p * (u * v)
        BY <1>2
  <2>3. QED
        BY <2>1, <2>2, <1>1, <1>2, <1>3
<1>5. n < p * (u * v) + u * v
  <2>1. q + 1 <= p * v + v
        BY <1>1, <1>2
  <2>2. (q + 1) * u <= (p * v + v) * u
        BY <2>1, <1>1, <1>2
  <2>3. (q + 1) * u = q * u + u /\ (p * v + v) * u = p * (u * v) + u * v
        BY <1>1, <1>2
  <2>4. QED
        BY <2>2, <2>3, <1>1, <1>2, <1>3
<1>6. n \div (u * v) = p
      BY <1>2, <1>3, <1>4, <1>5, Quotient
<1>7. QED
      BY <1>6 DEF p, q

LEMMA Shift ==
  ASSUME NEW n \in Nat, NEW b \in Nat
  PROVE  /\ n \div 2^b \in Nat /\ n \div 2^0 = n
         /\ n \div 2^(b + 1) = (n \div 2^b) \div 2
         /\ \A c \in Nat : n \div 2^(b + c) = (n \div 2^b) \div 2^c
<1>1. \A c \in Nat : 2^c \in Nat \ {0} /\ 2^(b + c) = 2^b * 2^c
      BY PowerOfSubsets, PowerSum
<1>2. n \div 2^b \in Nat
      BY <1>1, Quotient
<1>3. \A c \in Nat : n \div 2^(b + c) = (n \div 2^b) \div 2^c
      BY <1>1, QuotientTwice
<1>4. n \div 2^0 = n
      BY PowerStep
<1>5. n \div 2^(b + 1) = (n \div 2^b) \div 2
  <2>1. 2^(b + 1) = 2^b * 2
        BY <1>1, PowerStep
  <2>2. 2^b \in Nat \ {0} /\ 2 \in Nat \ {0}
        BY <1>1
  <2>3. n \div (2^b * 2) = (n \div 2^b) \div 2
        BY <2>2, QuotientTwice
  <2>4. QED
        BY <2>1, <2>3
<1>6. QED
      BY <1>2, <1>3, <1>4, <1>5

(* Two numbers whose digits agree from place r on have the same quotient.  *)
LEMMA SameDigits ==
  ASSUME NEW k \in Nat, NEW r \in 0 .. k, NEW n \in Nat, NEW m \in Nat, n < 2^k, m < 2^k,
         \A b \in r .. k - 1 : (n \div 2^b) % 2 = (m \div 2^b) % 2
  PROVE  n \div 2^r = m \div 2^r
<1> DEFINE T == {j \in 0 .. k - r : n \div 2^(k - j) # m \div 2^(k - j)}
<1>1. CASE T = {}
  <2>1. k - r \in 0 .. k - r /\ k - (k - r) = r
        OBVIOUS
  <2>2. QED
        BY <2>1, <1>1
<1>2. ASSUME T # {}
      PROVE  FALSE
  <2>0. T \in SUBSET Nat
        OBVIOUS
  <2>1. PICK j \in T : \A i \in T : j <= i
    <3> HIDE DEF T
    <3>1. QED
          BY <2>0, <1>2, Smallest
  <2>2. j \in 0 .. k - r /\ n \div 2^(k - j) # m \div 2^(k - j)
        OBVIOUS
  <2>3. j # 0
    <3>1. 2^k \in Nat \ {0}
          BY PowerOfSubsets
    <3>2. n \div 2^k = 0 /\ m \div 2^k = 0
          BY <3>1, Quotient
    <3>3. k - 0 = k
          OBVIOUS
    <3>4. QED
          BY <2>2, <3>2, <3>3
  <2> DEFINE b == k - j
  <2>4. b \in Nat /\ b \in r .. k - 1 /\ k - (j - 1) = b + 1
        BY <2>2, <2>3
  <2>5. j - 1 \in 0 .. k - r /\ j - 1 \notin T
    <3>1. j - 1 \in 0 .. k - r /\ ~(j <= j - 1)
          BY <2>2, <2>3
    <3>2. QED
          BY <3>1, <2>1
  <2>6. n \div 2^(k - (j - 1)) = m \div 2^(k - (j - 1))
        BY <2>5
  <2> HIDE DEF b
  <2>7. n \div 2^(b + 1) = m \div 2^(b + 1)
        BY <2>4, <2>6
  <2>8. (n \div 2^b) \div 2 = (m \div 2^b) \div 2
        BY <2>4, <2>7, Shift
  <2>9. n \div 2^b \in Nat /\ m \div 2^b \in Nat
        BY <2>4, Shift
  <2>10. (n \div 2^b) % 2 = (m \div 2^b) % 2
        BY <2>4
  <2>11. n \div 2^b = m \div 2^b
        BY <2>8, <2>9, <2>10
  <2>12. QED
        BY <2>2, <2>11 DEF b
<1>3. QED
      BY <1>1, <1>2

(* The digits of 2^p and of 2^p - 1.                                       *)
LEMMA PowerQuotients ==
  ASSUME NEW p \in Nat, NEW b \in Nat
  PROVE  /\ b <= p => /\ 2^p \div 2^b = 2^(p - b)
                     /\ (2^p - 1) \div 2^b = 2^(p - b) - 1
                     /\ 2^(p - b) \in Nat \ {0}
                     /\ IF b = p THEN 2^(p - b) = 1 ELSE 2^(p - b) % 2 = 0
         /\ b > p => 2^p \div 2^b = 0 /\ (2^p - 1) \div 2^b = 0 /\ 2^p < 2^b
<1>0. 2^p \in Nat \ {0} /\ 2^b \in Nat \ {0}
      BY PowerOfSubsets
<1>1. 2^p \in Nat \ {0} /\ 2^b \in Nat \ {0} /\ 2^p - 1 \in Nat
      BY <1>0
<1>2. CASE b <= p
  <2> DEFINE c == p - b
  <2>1. c \in Nat /\ b + c = p
        BY <1>2
  <2> HIDE DEF c
  <2>2. 2^c \in Nat \ {0} /\ 2^p = 2^b * 2^c
        BY <2>1, PowerOfSubsets, PowerSum
  <2>3. 2^c * 2^b <= 2^p /\ 2^p < 2^c * 2^b + 2^b
        BY <2>2, <1>1
  <2>4. 2^p \div 2^b = 2^c
        BY <2>2, <2>3, <1>1, Quotient
  <2>5. (2^c - 1) * 2^b + 2^b = 2^p
        BY <2>2, <1>1
  <2>6. 2^c - 1 \in Nat /\ (2^c - 1) * 2^b <= 2^p - 1 /\ 2^p - 1 < (2^c - 1) * 2^b + 2^b
        BY <2>2, <2>5, <1>1
  <2>7. (2^p - 1) \div 2^b = 2^c - 1
        BY <2>6, <1>1, Quotient
  <2>8. IF b = p THEN 2^c = 1 ELSE 2^c % 2 = 0
    <3>1. CASE b = p
      <4>1. c = 0
            BY <3>1, <2>1
      <4>2. QED
            BY <3>1, <4>1, PowerStep
    <3>2. CASE b # p
      <4>1. c - 1 \in Nat /\ (c - 1) + 1 = c
            BY <3>2, <2>1
      <4>2. 2^c = 2 * 2^(c - 1) /\ 2^(c - 1) \in Nat
            BY <4>1, PowerStep, PowerOfSubsets
      <4>3. QED
            BY <3>2, <4>2
    <3>3. QED
          BY <3>1, <3>2
  <2>9. QED
        BY <1>2, <2>2, <2>4, <2>7, <2>8 DEF c
<1>3. CASE b > p
  <2> DEFINE c == b - p - 1
  <2>1. c \in Nat /\ p + (c + 1) = b
        BY <1>3
  <2> HIDE DEF c
  <2>2. 2^c \in Nat \ {0} /\ 2^(c + 1) = 2 * 2^c
        BY <2>1, PowerOfSubsets, PowerStep
  <2>3. 2^b = 2^p * 2^(c + 1)
    <3>1. c + 1 \in Nat
          BY <2>1
    <3>2. QED
          BY <3>1, <2>1, PowerSum
  <2>4. 2^p < 2^b
        BY <2>2, <2>3, <1>1
  <2>5. 2^p \div 2^b = 0 /\ (2^p - 1) \div 2^b = 0
        BY <2>4, <1>1, Quotient
  <2>6. QED
        BY <1>3, <2>4, <2>5
<1>4. QED
      BY <1>2, <1>3

LEMMA PowerBits ==
  ASSUME NEW p \in 0 .. MaxBits
  PROVE  BitsOf(2^p) = {p} /\ BitsOf(2^p - 1) = 0 .. p - 1
<1>1. ASSUME NEW b \in 0 .. MaxBits
      PROVE  /\ b \in BitsOf(2^p) <=> b = p
             /\ b \in BitsOf(2^p - 1) <=> b < p
  <2>0. /\ b \in BitsOf(2^p) <=> (2^p \div 2^b) % 2 = 1
        /\ b \in BitsOf(2^p - 1) <=> ((2^p - 1) \div 2^b) % 2 = 1
        BY DEF BitsOf
  <2>1. p \in Nat /\ b \in Nat
        BY BitsAssumption
  <2>2. CASE b <= p
    <3> DEFINE d == 2^(p - b)
    <3>1. /\ 2^p \div 2^b = d /\ (2^p - 1) \div 2^b = d - 1 /\ d \in Nat \ {0}
          /\ IF b = p THEN d = 1 ELSE d % 2 = 0
          BY <2>1, <2>2, PowerQuotients
    <3> HIDE DEF d
    <3>2. (d % 2 = 1) <=> b = p
          BY <3>1
    <3>3. ((d - 1) % 2 = 1) <=> b # p
          BY <3>1
    <3>4. b \in BitsOf(2^p) <=> b = p
          BY <2>0, <3>1, <3>2
    <3>5. b \in BitsOf(2^p - 1) <=> b # p
          BY <2>0, <3>1, <3>3
    <3>6. QED
          BY <2>1, <2>2, <3>4, <3>5
  <2>3. CASE b > p
    <3>1. 2^p \div 2^b = 0 /\ (2^p - 1) \div 2^b = 0
          BY <2>1, <2>3, PowerQuotients
    <3>0. ASSUME NEW d \in Nat, d = 0
          PROVE  d % 2 # 1
          BY <3>0
    <3>2. b \notin BitsOf(2^p) /\ b \notin BitsOf(2^p - 1)
          BY <2>0, <3>1, <3>0
    <3>3. QED
          BY <2>1, <2>3, <3>2
  <2>4. QED
        BY <2>1, <2>2, <2>3
<1>2. BitsOf(2^p) = {p}
  <2>1. BitsOf(2^p) \subseteq 0 .. MaxBits
        BY DEF BitsOf
  <2>2. QED
        BY <1>1, <2>1
<1>3. BitsOf(2^p - 1) = 0 .. p - 1
  <2>1. BitsOf(2^p - 1) \subseteq 0 .. MaxBits
        BY DEF BitsOf
  <2>2. ASSUME NEW b \in 0 .. p - 1
        PROVE  b \in BitsOf(2^p - 1)
    <3>1. b \in 0 .. MaxBits /\ b < p
          BY BitsAssumption
    <3>2. QED
          BY <3>1, <1>1
  <2>3. ASSUME NEW b \in BitsOf(2^p - 1)
        PROVE  b \in 0 .. p - 1
    <3>1. b \in 0 .. MaxBits /\ b < p
          BY <1>1, <2>1
    <3>2. QED
          BY <3>1, BitsAssumption
  <2>4. QED
        BY <2>2, <2>3
<1>4. QED
      BY <1>2, <1>3

LEMMA Digit ==
  ASSUME NEW n \in Nat, NEW b \in Nat
  PROVE  (n \div 2^b) % 2 \in {0, 1}
<1>1. n \div 2^b \in Nat
      BY Shift
<1>2. QED
      BY <1>1

(* IS_POWER holds of powers of two only.                                   *)
LEMMA OnePower ==
  ASSUME NEW n \in 0 .. 2^MaxBits, IsPower(n)
  PROVE  \E p \in 0 .. MaxBits : n = 2^p
<1>0. MaxBits \in Nat /\ MaxBits + 1 \in Nat /\ n \in Nat
      BY BitsAssumption, PowerOfSubsets
<1>1. BitsOf(n) \subseteq 0 .. MaxBits
      BY DEF BitsOf
<1>2. IsFiniteSet(BitsOf(n))
  <2>1. IsFiniteSet(0 .. MaxBits)
        BY <1>0, FS_Interval
  <2>2. QED
        BY <1>1, <2>1, FS_Subset
<1>3. PICK p : BitsOf(n) = {p}
      BY <1>2, FS_Singleton DEF IsPower
<1>4. p \in 0 .. MaxBits /\ p \in Nat
      BY <1>1, <1>3
<1>5. 2^p \in Nat /\ 2^MaxBits \in Nat
      BY <1>0, <1>4, PowerOfSubsets
<1>6. 2^p < 2^(MaxBits + 1) /\ n < 2^(MaxBits + 1)
  <2>1. 2^p < 2^(MaxBits + 1) /\ 2^MaxBits < 2^(MaxBits + 1)
        BY <1>0, <1>4, PowerQuotients
  <2>2. 2^(MaxBits + 1) \in Nat
        BY <1>0, PowerOfSubsets
  <2>3. QED
        BY <1>0, <1>5, <2>1, <2>2
<1>7. \A b \in 0 .. (MaxBits + 1) - 1 : (n \div 2^b) % 2 = (2^p \div 2^b) % 2
  <2>1. SUFFICES ASSUME NEW b \in 0 .. (MaxBits + 1) - 1
                 PROVE  (n \div 2^b) % 2 = (2^p \div 2^b) % 2
        OBVIOUS
  <2>2. b \in 0 .. MaxBits /\ b \in Nat
        BY <1>0
  <2>3. b \in BitsOf(n) <=> b \in BitsOf(2^p)
        BY <1>3, <1>4, PowerBits
  <2>4. (n \div 2^b) % 2 = 1 <=> (2^p \div 2^b) % 2 = 1
        BY <2>2, <2>3 DEF BitsOf
  <2>5. (n \div 2^b) % 2 \in {0, 1} /\ (2^p \div 2^b) % 2 \in {0, 1}
        BY <1>0, <1>5, <2>2, Digit
  <2>6. QED
        BY <2>4, <2>5
<1>8. 0 \in 0 .. MaxBits + 1 /\ 0 \in Nat
      BY <1>0
<1>9. n \div 2^0 = 2^p \div 2^0
  <2> DEFINE k == MaxBits + 1
             m == 2^p
             r == 0
  <2>1. /\ k \in Nat /\ r \in 0 .. k /\ m \in Nat /\ n < 2^k /\ m < 2^k
        /\ \A b \in r .. k - 1 : (n \div 2^b) % 2 = (m \div 2^b) % 2
        BY <1>0, <1>5, <1>6, <1>7, <1>8
  <2> HIDE DEF k, m, r
  <2>2. n \div 2^r = m \div 2^r
        BY <1>0, <2>1, SameDigits
  <2>3. QED
        BY <2>2 DEF m, r
<1>10. n = 2^p
      BY <1>0, <1>5, <1>8, <1>9, Shift
<1>11. QED
      BY <1>4, <1>10

LEMMA NumberType == Numbers \subseteq Nat /\ \A n \in Numbers : n < 2^MaxBits
<1>1. 2^MaxBits \in Nat
      BY BitsAssumption, PowerOfSubsets
<1>2. QED
      BY <1>1 DEF Numbers

(* Two port numbers have the same digits from place r on when their        *)
(* quotients agree.                                                        *)
LEMMA SameFrom ==
  ASSUME NEW n \in Numbers, NEW m \in Numbers, NEW r \in 0 .. MaxBits
  PROVE  BitsOf(n) \cap (r .. MaxBits - 1) = BitsOf(m) \cap (r .. MaxBits - 1)
            <=> n \div 2^r = m \div 2^r
<1>0. /\ n \in Nat /\ m \in Nat /\ MaxBits \in Nat /\ r \in Nat
      /\ n < 2^MaxBits /\ m < 2^MaxBits
      BY NumberType, BitsAssumption
<1>1. ASSUME BitsOf(n) \cap (r .. MaxBits - 1) = BitsOf(m) \cap (r .. MaxBits - 1)
      PROVE  n \div 2^r = m \div 2^r
  <2>1. \A b \in r .. MaxBits - 1 : (n \div 2^b) % 2 = (m \div 2^b) % 2
    <3>1. SUFFICES ASSUME NEW b \in r .. MaxBits - 1
                   PROVE  (n \div 2^b) % 2 = (m \div 2^b) % 2
          OBVIOUS
    <3>2. b \in Nat /\ b \in 0 .. MaxBits
          BY <1>0
    <3>3. b \in BitsOf(n) <=> b \in BitsOf(m)
          BY <1>1
    <3>4. (n \div 2^b) % 2 = 1 <=> (m \div 2^b) % 2 = 1
          BY <3>2, <3>3 DEF BitsOf
    <3>5. (n \div 2^b) % 2 \in {0, 1} /\ (m \div 2^b) % 2 \in {0, 1}
          BY <1>0, <3>2, Digit
    <3>6. QED
          BY <3>4, <3>5
  <2>2. QED
        BY <1>0, <2>1, SameDigits
<1>2. ASSUME n \div 2^r = m \div 2^r
      PROVE  BitsOf(n) \cap (r .. MaxBits - 1) = BitsOf(m) \cap (r .. MaxBits - 1)
  <2>1. ASSUME NEW b \in r .. MaxBits - 1
        PROVE  b \in BitsOf(n) <=> b \in BitsOf(m)
    <3> DEFINE c == b - r
    <3>1. c \in Nat /\ r + c = b
          BY <1>0
    <3> HIDE DEF c
    <3>2. /\ n \div 2^(r + c) = (n \div 2^r) \div 2^c
          /\ m \div 2^(r + c) = (m \div 2^r) \div 2^c
      <4>1. n \div 2^(r + c) = (n \div 2^r) \div 2^c
            BY <1>0, <3>1, Shift
      <4>2. m \div 2^(r + c) = (m \div 2^r) \div 2^c
            BY <1>0, <3>1, Shift
      <4>3. QED
            BY <4>1, <4>2
    <3>3. n \div 2^b = m \div 2^b
          BY <1>2, <3>1, <3>2
    <3>4. QED
          BY <3>3 DEF BitsOf
  <2>2. QED
        BY <2>1
<1>3. QED
      BY <1>1, <1>2

LEMMA NumberBits ==
  ASSUME NEW n \in Numbers
  PROVE  BitsOf(n) \subseteq BitIndexes
<1>1. n \in Nat /\ n < 2^MaxBits /\ 2^MaxBits \in Nat \ {0} /\ MaxBits \in Nat
      BY NumberType, BitsAssumption, PowerOfSubsets
<1>2. n \div 2^MaxBits = 0
      BY <1>1, Quotient
<1>3. MaxBits \notin BitsOf(n)
      BY <1>2 DEF BitsOf
<1>4. QED
      BY <1>1, <1>3 DEF BitsOf, BitIndexes

(* create_single_portnum_mask: the port alone.                             *)
LEMMA SinglePort ==
  ASSUME NEW f, f.port \in Numbers, PortMask(f) = BitIndexes
  PROVE  \A n \in Numbers : n \in PortsKept(f) <=> n = f.port
<1> SUFFICES ASSUME NEW n \in Numbers PROVE n \in PortsKept(f) <=> n = f.port
    OBVIOUS
<1>1. BitsOf(f.port) \subseteq BitIndexes
      BY NumberBits
<1>2. n \in PortsKept(f) <=> BitsOf(n) \cap BitIndexes = BitsOf(f.port) \cap BitIndexes
      BY <1>1 DEF PortsKept
<1>0. 0 \in 0 .. MaxBits /\ 0 \in Nat
      BY BitsAssumption
<1>3. 0 \in 0 .. MaxBits /\ 0 \in Nat /\ n \in Nat /\ f.port \in Nat
      BY <1>0, NumberType
<1>4. n \in PortsKept(f) <=> n \div 2^0 = f.port \div 2^0
      BY <1>2, <1>3, SameFrom DEF BitIndexes
<1>5. QED
      BY <1>3, <1>4, Shift

(* create_portnum_range_mask: port to port + range.                        *)
LEMMA RangePorts ==
  ASSUME NEW f, f.port \in Numbers, f.range \in Numbers,
         IsRange(f.port, f.range), f.range < f.port
  PROVE  \A n \in Numbers : n \in PortsKept(f) <=> n \in f.port .. f.port + f.range
<1>0. /\ MaxBits \in Nat /\ 2^MaxBits \in Nat /\ f.port \in Nat /\ f.range \in Nat
      /\ f.port \in 0 .. 2^MaxBits /\ f.range + 1 \in 0 .. 2^MaxBits
      /\ f.port < 2^MaxBits /\ f.range # 0
  <2>1. MaxBits \in Nat /\ 2^MaxBits \in Nat
        BY BitsAssumption, PowerOfSubsets
  <2>2. QED
        BY <2>1 DEF Numbers, IsRange
<1>1. PICK p \in 0 .. MaxBits : f.port = 2^p
      BY <1>0, OnePower DEF IsRange
<1>2. PICK r \in 0 .. MaxBits : f.range + 1 = 2^r
      BY <1>0, OnePower DEF IsRange
<1>3. p \in Nat /\ r \in Nat /\ 2^p \in Nat \ {0} /\ 2^r \in Nat \ {0}
  <2>1. p \in Nat /\ r \in Nat
        BY <1>0
  <2>2. QED
        BY <2>1, PowerOfSubsets
<1>4. r <= p
  <2>1. SUFFICES ASSUME r > p PROVE FALSE
        BY <1>3
  <2>2. 2^p < 2^r
        BY <1>3, <2>1, PowerQuotients
  <2>3. QED
        BY <1>0, <1>1, <1>2, <1>3, <2>2
<1>5. p < MaxBits
  <2>1. SUFFICES ASSUME p = MaxBits PROVE FALSE
        BY <1>0
  <2>2. QED
        BY <1>0, <1>1, <2>1
<1>6. BitsOf(f.port) = {p} /\ BitsOf(f.port - 1) = 0 .. p - 1
      BY <1>1, PowerBits
<1>7. BitsOf(f.range) = 0 .. r - 1
  <2>1. f.range = 2^r - 1
        BY <1>0, <1>2, <1>3
  <2>2. QED
        BY <2>1, PowerBits
<1>8. PortMask(f) = r .. MaxBits - 1
  <2>1. Differ(BitsOf(f.port - 1), BitsOf(f.range)) \cup BitsOf(f.port) = r .. p
        BY <1>3, <1>4, <1>6, <1>7 DEF Differ
  <2>2. SignExtend(r .. p) = r .. MaxBits - 1
    <3>1. ASSUME NEW b \in SignExtend(r .. p)
          PROVE  b \in r .. MaxBits - 1
      <4>1. p \in r .. p
            BY <1>3, <1>4
      <4>2. QED
            BY <1>0, <1>3, <1>4, <1>5, <4>1 DEF SignExtend, BitIndexes
    <3>2. ASSUME NEW b \in r .. MaxBits - 1
          PROVE  b \in SignExtend(r .. p)
          BY <1>0, <1>3, <1>4, <1>5 DEF SignExtend, BitIndexes
    <3>3. QED
          BY <3>1, <3>2
  <2>3. QED
        BY <2>1, <2>2 DEF PortMask, RangeMask
<1>9. ASSUME NEW n \in Numbers
      PROVE  n \in PortsKept(f) <=> n \in f.port .. f.port + f.range
  <2>1. BitsOf(f.port) \cap (r .. MaxBits - 1) = BitsOf(f.port)
        BY <1>0, <1>3, <1>4, <1>5, <1>6
  <2>2. n \in PortsKept(f) <=> n \div 2^r = f.port \div 2^r
        BY <1>8, <2>1, SameFrom DEF PortsKept
  <2> DEFINE q == 2^(p - r)
  <2>3. f.port \div 2^r = q /\ q \in Nat
        BY <1>1, <1>3, <1>4, PowerQuotients
  <2>4. q * 2^r = f.port
    <3>1. p - r \in Nat /\ (p - r) + r = p
          BY <1>3, <1>4
    <3>2. QED
          BY <1>1, <1>3, <3>1, PowerSum
  <2> HIDE DEF q
  <2>5. n \in Nat
        BY NumberType
  <2>6. n \div 2^r = q <=> q * 2^r <= n /\ n < q * 2^r + 2^r
        BY <1>3, <2>3, <2>5, Quotient
  <2>7. n \div 2^r = q <=> f.port <= n /\ n < f.port + (f.range + 1)
        BY <1>2, <2>4, <2>6
  <2>8. n \in f.port .. f.port + f.range <=> f.port <= n /\ n < f.port + (f.range + 1)
        BY <1>0, <2>5
  <2>9. QED
        BY <2>2, <2>3, <2>7, <2>8
<1>10. QED
      BY <1>9

(* The frames a port filter lets through, once the ports it keeps are      *)
(* known.                                                                  *)
LEMMA PortFrames ==
  ASSUME setup \in Setups, NEW f \in setup.filters, f.feature = "PORTNUM", NEW last,
         \A n \in Numbers : n \in PortsKept(f) <=> n \in f.port .. last
  PROVE  FramesKept[f] = Documented(f, last)
<1>1. f \in Filters
      BY DEF Filters
<1>2. FramesKept[f] = {frame \in Frames : Keeps(f, frame) = (Rule(f) = "POSITIVE_MATCHING")}
      BY <1>1 DEF FramesKept
<1>3. (Rule(f) = "POSITIVE_MATCHING") = ("DISCARD" \notin f.bits)
      BY DEF Rule
<1>4. f.proto \in {"TCP", "UDP"}
      BY SetupsAssumption DEF IsSetup
<1>5. ASSUME NEW frame \in Frames
      PROVE  Keeps(f, frame) =
                (/\ frame.ethertype = "IP" /\ frame.protocol = f.proto
                 /\ (IF f.direction = "SOURCE" THEN frame.src ELSE frame.dst) \in f.port .. last)
  <2> DEFINE n == IF f.direction = "SOURCE" THEN frame.src ELSE frame.dst
  <2>1. Keeps(f, frame) = KeepsPort(f, frame)
        BY DEF Keeps
  <2>2. n \in Numbers
        BY DEF Frames
  <2>3. (IF f.proto = "UDP" THEN "UDP" ELSE "TCP") = f.proto
        BY <1>4
  <2>4. KeepsPort(f, frame) =
           (frame.ethertype = "IP" /\ frame.protocol = f.proto /\ n \in PortsKept(f))
        BY <2>3 DEF KeepsPort
  <2>5. (n \in PortsKept(f)) = (n \in f.port .. last)
    <3> HIDE DEF n
    <3>1. QED
          BY <2>2
  <2>6. QED
        BY <2>1, <2>4, <2>5
<1>6. QED
  <2> DEFINE D(frame) ==
          /\ frame.ethertype = "IP" /\ frame.protocol = f.proto
          /\ (IF f.direction = "SOURCE" THEN frame.src ELSE frame.dst) \in f.port .. last
  <2>1. FramesKept[f] = {frame \in Frames : D(frame) = ("DISCARD" \notin f.bits)}
        BY <1>2, <1>3, <1>5
  <2>2. Documented(f, last) = {frame \in Frames : ("DISCARD" \notin f.bits) = D(frame)}
        BY DEF Documented
  <2>3. \A frame \in Frames :
           (D(frame) = ("DISCARD" \notin f.bits)) = (("DISCARD" \notin f.bits) = D(frame))
        OBVIOUS
  <2> HIDE DEF D
  <2>4. QED
        BY <2>1, <2>2, <2>3

LEMMA SetupPorts == setup \in Setups => PortsMatch
<1> SUFFICES ASSUME setup \in Setups, NEW f \in setup.filters, f.feature = "PORTNUM",
                    ~(IsRange(f.port, f.range) /\ f.range >= f.port)
             PROVE  FramesKept[f] = IF Valid(f) THEN FramesOfRange[f] ELSE FramesOfPort[f]
    BY DEF PortsMatch
<1>1. f \in Filters /\ f.port \in Numbers /\ f.range \in Numbers
      BY SetupsAssumption DEF Filters, IsSetup
<1>2. f.port \in Nat /\ f.range \in Nat
      BY <1>1, NumberType
<1>3. CASE IsRange(f.port, f.range)
  <2>1. f.range < f.port
        BY <1>2, <1>3
  <2>2. \A n \in Numbers : n \in PortsKept(f) <=> n \in f.port .. f.port + f.range
        BY <1>1, <1>3, <2>1, RangePorts
  <2>3. FramesKept[f] = Documented(f, f.port + f.range)
        BY <2>2, PortFrames
  <2>4. FramesOfRange[f] = Documented(f, f.port + f.range) /\ Valid(f)
        BY <1>1, <1>3, <2>1 DEF FramesOfRange, Valid
  <2>5. QED
        BY <2>3, <2>4
<1>4. CASE ~IsRange(f.port, f.range)
  <2>1. PortMask(f) = BitIndexes
        BY <1>4 DEF PortMask
  <2>2. \A n \in Numbers : n \in PortsKept(f) <=> n \in f.port .. f.port
    <3>1. \A n \in Numbers : n \in PortsKept(f) <=> n = f.port
          BY <1>1, <2>1, SinglePort
    <3>2. QED
          BY <1>2, <3>1, NumberType
  <2>3. FramesKept[f] = Documented(f, f.port)
        BY <2>2, PortFrames
  <2>4. FramesOfPort[f] = Documented(f, f.port) /\ ~Valid(f)
        BY <1>1, <1>4 DEF FramesOfPort, Valid
  <2>5. QED
        BY <2>3, <2>4
<1>5. QED
      BY <1>3, <1>4

(* For ports of any width a port filter keeps, or discards, the ports from *)
(* portnum to portnum + range where the two are of the forms documented,   *)
(* and portnum alone where they are not: the mask create_portnum_range_mask*)
(* makes of the bits has no false hit and misses none.                     *)
THEOREM PortsAlwaysMatch == Spec => []PortsMatch
<1>1. HostInv => PortsMatch
      BY SetupPorts DEF HostInv
<1>2. QED
      BY <1>1, HostInit, HostStep, PTL DEF Spec
=============================================================================
