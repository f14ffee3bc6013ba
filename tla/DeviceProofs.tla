---------------------------- MODULE DeviceProofs ----------------------------
(***************************************************************************)
(* What TLAPS proves of Device: the locks of wait_net_suspend.             *)
(***************************************************************************)
EXTENDS Device, TLAPS

(* What wait_net_suspend relies on: the stack is suspended by itself alone,*)
(* between its suspend_ns and its resume_ns, and main has called it once,  *)
(* when the rest of the start-up was over.                                 *)
LockInv ==
    /\ suspended \in BOOLEAN /\ core \in {"none", "powersave"} /\ sleepLocks \in Nat
    /\ pc \in {"start", "wifi", "ntp", "aws", "sound"} => psPc = "none"
    /\ LocksBalanced

LEMMA LockInit == Init => LockInv
<1>1. Init => suspended \in BOOLEAN /\ ~suspended
      BY DEF Init, PsStart
<1>2. Init => psPc = "none" /\ core = "none" /\ sleepLocks = 0
      BY DEF Init, PsStart
<1>3. suspended \in BOOLEAN /\ ~suspended /\ psPc = "none" /\ core = "none" /\ sleepLocks = 0
      => LockInv
      BY DEF LockInv, LocksBalanced
<1>4. QED
      BY <1>1, <1>2, <1>3

(* A frame, or a sender with the core, changes the event's bits at most.   *)
LEMMA SendersLeaveLocks ==
  ASSUME NEW bit, UseCore(bit) \/ Receive
  PROVE  UNCHANGED <<psPc, suspended, core, sleepLocks>>
BY DEF UseCore, Receive

LEMMA LockMain == LockInv /\ Main => LockInv'
<1> SUFFICES ASSUME LockInv, Main PROVE LockInv'
    OBVIOUS
<1> USE DEF LockInv, LocksBalanced, psVars
<1>1. CASE Start
      BY <1>1 DEF Start
<1>2. CASE ConnectTry
      BY <1>2 DEF ConnectTry
<1>3. CASE NtpTry
      BY <1>3 DEF NtpTry
<1>4. CASE AwsConnect
      BY <1>4 DEF AwsConnect
<1>5. CASE SoundInit
      BY <1>5 DEF SoundInit
<1>6. CASE LoopPass
      BY <1>6 DEF LoopPass
<1>7. QED
      BY <1>1, <1>2, <1>3, <1>4, <1>5, <1>6 DEF Main

(* The AWS thread, the statistics and the network leave the locks alone,   *)
(* and main where it is.                                                   *)
LEMMA LockOthers == LockInv /\ (Aws \/ Statistics \/ Frame \/ LinkLost) => LockInv'
<1>1. Aws \/ Statistics \/ Frame \/ LinkLost
      => UNCHANGED <<pc, psPc, suspended, core, sleepLocks>>
  <2> USE DEF psVars, mainVars, AwsUnchanged
  <2>1. AwsWaits => UNCHANGED <<pc, psPc, suspended, core, sleepLocks>>
        BY SendersLeaveLocks DEF AwsWaits
  <2>2. AwsDrops \/ AwsNew => UNCHANGED <<pc, psPc, suspended, core, sleepLocks>>
        BY SendersLeaveLocks DEF AwsDrops, AwsNew
  <2>3. AwsConnects => UNCHANGED <<pc, psPc, suspended, core, sleepLocks>>
        BY SendersLeaveLocks DEF AwsConnects
  <2>4. AwsSubscribes => UNCHANGED <<pc, psPc, suspended, core, sleepLocks>>
        BY SendersLeaveLocks DEF AwsSubscribes
  <2>5. AwsCycle => UNCHANGED <<pc, psPc, suspended, core, sleepLocks>>
        BY SendersLeaveLocks DEF AwsCycle
  <2>6. Frame => UNCHANGED <<pc, psPc, suspended, core, sleepLocks>>
        BY SendersLeaveLocks DEF Frame, Others
  <2>7. LinkLost => UNCHANGED <<pc, psPc, suspended, core, sleepLocks>>
        BY DEF LinkLost, Others
  <2>8. Statistics => UNCHANGED <<pc, psPc, suspended, core, sleepLocks>>
        BY DEF Statistics
  <2>9. QED
        BY <2>1, <2>2, <2>3, <2>4, <2>5, <2>6, <2>7, <2>8 DEF Aws
<1>2. QED
      BY <1>1 DEF LockInv, LocksBalanced

LEMMA LockPowerSave == LockInv /\ PowerSave => LockInv'
<1> SUFFICES ASSUME LockInv, PowerSave PROVE LockInv'
    OBVIOUS
<1>1. UNCHANGED pc
      BY DEF PowerSave, Others, mainVars
<1> USE <1>1 DEF LockInv, LocksBalanced
<1>2. CASE UNCHANGED psVars
      BY <1>2 DEF psVars
<1>3. CASE PsEnter
      BY <1>3 DEF PsEnter
<1>4. CASE PsActive
      BY <1>4 DEF PsActive
<1>5. CASE PsIdle
      BY <1>5 DEF PsIdle
<1>6. CASE PsSuspend
      BY <1>6 DEF PsSuspend
<1>7. CASE PsUnlockSleep
      BY <1>7 DEF PsUnlockSleep
<1>8. CASE PsWakes
      BY <1>8 DEF PsWakes
<1>9. CASE PsLockSleep
      BY <1>9 DEF PsLockSleep
<1>10. CASE PsResume
      BY <1>10 DEF PsResume
<1>11. CASE PsLeave
      BY <1>11 DEF PsLeave
<1>12. QED
      BY <1>2, <1>3, <1>4, <1>5, <1>6, <1>7, <1>8, <1>9, <1>10, <1>11 DEF PowerSave, PsStep

LEMMA LockStep == LockInv /\ [Next]_vars => LockInv'
<1>1. LockInv /\ UNCHANGED vars => LockInv'
      BY DEF LockInv, LocksBalanced, vars, mainVars, psVars
<1>2. QED
      BY <1>1, LockMain, LockOthers, LockPowerSave DEF Next

(* For any arguments of wait_net_suspend, and however frames, senders and  *)
(* lost links come between its steps: the core is locked exactly while the *)
(* stack is suspended, and every way out gives back both locks             *)
(* (network_activity_handler.cpp).                                         *)
THEOREM LocksGivenBack == Spec => []LocksBalanced
<1>1. LockInv => LocksBalanced
      BY DEF LockInv
<1>2. QED
      BY <1>1, LockInit, LockStep, PTL DEF Spec
=============================================================================
