------------------------- MODULE WirelessRunProofs --------------------------
(***************************************************************************)
(* Proofs about the non-concurrent run loop, for every set of networks and *)
(* every number of windows.                                                *)
(***************************************************************************)
EXTENDS WirelessRun, CommWindowProofs

(* Nothing has been granted while the networks store may still be loaded   *)
(* over: a store is loaded only by an IM that found the flag down, and no  *)
(* command is served before.                                               *)
HydrationOrder ==
  /\ im = "loading" => hydrated /\ granted = {}
  /\ ~hydrated => granted = {} /\ im \in {"none", "new"}

(* A deferred connect is the last verdict, and is forgotten or replayed    *)
(* before the phases in which a new one may be given; any other verdict is *)
(* that of the network the device is connected to.                         *)
VerdictOrder ==
  /\ verdict # None => verdict \in {pending, joined}
  /\ pending # None => pending = verdict
  /\ phase = "ble_up" => verdict = None
  /\ phase = "oper" => pending = None
  /\ phase = "ble" /\ verdict # None => pending = verdict

(* The entry window of an operational phase is not a later one; while the  *)
(* phase waits for an own window, an open one has come after it.           *)
EntryOrder ==
  /\ entry <= opened
  /\ phase = "oper" /\ until = "own" /\ win = "own" => opened > entry

RunInv == /\ TypeOK
          /\ WaitInv
          /\ HydrationOrder
          /\ CredentialsKept
          /\ VerdictOrder
          /\ EntryOrder

-----------------------------------------------------------------------------
(* At power-up nothing is granted, deferred or waited for.                 *)
LEMMA InitRunInv == Init => RunInv
<1> SUFFICES ASSUME Init PROVE RunInv
  OBVIOUS
<1>1. WaitInv
  BY InitWaitInv DEF Init
<1>2. TypeOK
  BY <1>1, NetsAssumption, MaxWindowsAssumption, 0 \in 0..MaxWindows
  DEF Init, TypeOK, WaitInv, Phases, ImStates
<1>3. HydrationOrder /\ CredentialsKept
  BY DEF Init, HydrationOrder, CredentialsKept
<1>4. VerdictOrder
  BY DEF Init, VerdictOrder
<1>5. EntryOrder
  BY DEF Init, EntryOrder, WindowInit
<1> QED BY <1>1, <1>2, <1>3, <1>4, <1>5 DEF RunInv

(* The wait: every action leaves it alone, takes a step of its loop, lets  *)
(* the window change, starts it or ends it.                                *)
LEMMA NextWait == RunInv /\ [Next]_vars => WaitInv'
<1> SUFFICES ASSUME RunInv, [Next]_vars PROVE WaitInv'
  OBVIOUS
<1> USE DEF RunInv
<1>1. CASE Startup
  BY <1>1, OpenKeepsWaitInv, StutterKeepsWaitInv DEF Startup
<1>2. CASE Crash
  BY <1>2, StopKeepsWaitInv DEF Crash, WindowStates
<1>3. CASE BleUp \/ EntryWindowGone
  BY <1>3, StartKeepsWaitInv DEF BleUp, EntryWindowGone, Predicates
<1>4. CASE RunEnds \/ EndBle \/ EndOper
  BY <1>4, StopKeepsWaitInv
  DEF RunEnds, EndBle, EndOper, DropPhase, windowVars, WaitInv, WindowTypeOK
<1>5. CASE OperUp \/ ConnectOnce
  BY <1>5, StartKeepsWaitInv, StutterKeepsWaitInv
  DEF OperUp, ConnectOnce, EnterOper, Predicates
<1>6. CASE Polled
  BY <1>6, WaitStepKeepsWaitInv DEF Polled
<1>7. CASE WindowChanges
  BY <1>7, OpenKeepsWaitInv, CloseKeepsWaitInv DEF WindowChanges
<1>8. CASE CommissioningComplete
  BY <1>8, CloseKeepsWaitInv, StutterKeepsWaitInv DEF CommissioningComplete
<1>9. CASE \/ Run \/ CheckWindow \/ ImStart \/ ImLoaded \/ ProvReady \/ ArmFailSafe
           \/ RefuseRequest \/ FailSafeExpires
           \/ \E n \in Nets : \/ AddNetwork(n) \/ RemoveNetwork(n)
                              \/ DeferConnect(n) \/ ConnectOper(n)
  BY <1>9, StutterKeepsWaitInv
  DEF Run, CheckWindow, ImStart, ImLoaded, ProvReady, ArmFailSafe, RefuseRequest,
      FailSafeExpires, AddNetwork, RemoveNetwork, DeferConnect, ConnectOper
<1>10. CASE UNCHANGED vars
  BY <1>10, StutterKeepsWaitInv DEF vars
<1> QED
  BY <1>1, <1>2, <1>3, <1>4, <1>5, <1>6, <1>7, <1>8, <1>9, <1>10
  DEF Next, StackStep, Ending, Outside, HandOver, BleWindowGone, HandBack,
      BleTaskReturns, OperTaskReturns

(* Types, given that the wait keeps its own.                               *)
LEMMA NextType == RunInv /\ [Next]_vars => TypeOK'
<1> SUFFICES ASSUME RunInv, [Next]_vars PROVE TypeOK'
  OBVIOUS
<1>1. CASE Startup \/ Run \/ RunEnds \/ EndBle \/ EndOper \/ BleUp \/ ProvReady \/ EntryWindowGone
  BY <1>1, NextWait
  DEF RunInv, TypeOK, WaitInv, Phases, ImStates, Startup, Run, RunEnds, EndBle, EndOper,
      DropPhase, BleUp, ProvReady, EntryWindowGone, runVars, credVars, flagVars, verdictVars
<1>2. CASE Crash
  BY <1>2, NextWait, MaxWindowsAssumption, 0 \in 0..MaxWindows
  DEF RunInv, TypeOK, WaitInv, Phases, ImStates, Crash
<1>3. CASE CheckWindow \/ ImStart \/ ImLoaded
  BY <1>3, NextWait
  DEF RunInv, TypeOK, WaitInv, Phases, ImStates, CheckWindow, ImStart, ImLoaded,
      credVars, flagVars, verdictVars
<1>4. CASE OperUp \/ ConnectOnce
  BY <1>4, NextWait
  DEF RunInv, TypeOK, WaitInv, WindowTypeOK, Phases, ImStates, OperUp, ConnectOnce,
      EnterOper, credVars, flagVars, verdictVars
<1>5. CASE ArmFailSafe \/ RefuseRequest \/ CommissioningComplete \/ FailSafeExpires
  BY <1>5, NextWait
  DEF RunInv, TypeOK, WaitInv, ArmFailSafe, RefuseRequest, CommissioningComplete,
      FailSafeExpires, runVars, credVars, flagVars, verdictVars
<1>6. CASE \E n \in Nets : AddNetwork(n) \/ RemoveNetwork(n)
                  \/ DeferConnect(n) \/ ConnectOper(n)
  BY <1>6, NextWait
  DEF RunInv, TypeOK, WaitInv, AddNetwork, RemoveNetwork, DeferConnect, ConnectOper,
      runVars, credVars, flagVars, verdictVars
<1>7. CASE WindowChanges \/ Polled \/ UNCHANGED vars
  BY <1>7, NextWait
  DEF RunInv, TypeOK, WaitInv, WindowChanges, Polled, vars, runVars, credVars,
      flagVars, verdictVars
<1> QED
  BY <1>1, <1>2, <1>3, <1>4, <1>5, <1>6, <1>7
  DEF Next, StackStep, Ending, Outside, HandOver, BleWindowGone, HandBack,
      BleTaskReturns, OperTaskReturns

(* What has been granted stays in the networks store.                      *)
LEMMA NextCredentials == RunInv /\ [Next]_vars => HydrationOrder' /\ CredentialsKept'
<1> SUFFICES ASSUME RunInv, [Next]_vars PROVE HydrationOrder' /\ CredentialsKept'
  OBVIOUS
<1>1. CASE ImStart \/ ImLoaded
  BY <1>1
  DEF RunInv, HydrationOrder, CredentialsKept, ImStart, ImLoaded, credVars
<1>2. CASE Crash
  BY <1>2
  DEF RunInv, HydrationOrder, CredentialsKept, Crash
<1>3. CASE \E n \in Nets : AddNetwork(n) \/ RemoveNetwork(n)
  BY <1>3
  DEF RunInv, HydrationOrder, CredentialsKept, AddNetwork, RemoveNetwork, Served,
      runVars, flagVars
<1>4. CASE ArmFailSafe \/ CommissioningComplete \/ FailSafeExpires
  BY <1>4
  DEF RunInv, HydrationOrder, CredentialsKept, ArmFailSafe, CommissioningComplete,
      FailSafeExpires, Served, runVars, flagVars
<1>5. CASE BleUp \/ OperUp \/ ConnectOnce
  BY <1>5
  DEF RunInv, HydrationOrder, CredentialsKept, BleUp, OperUp, ConnectOnce, EnterOper,
      credVars, flagVars
<1>6. CASE RunEnds \/ EndBle \/ EndOper
  BY <1>6
  DEF RunInv, HydrationOrder, CredentialsKept, RunEnds, EndBle, EndOper, DropPhase,
      credVars, flagVars
<1>7. CASE \/ Startup \/ Run \/ CheckWindow \/ ProvReady \/ EntryWindowGone
           \/ RefuseRequest \/ WindowChanges \/ Polled \/ UNCHANGED vars
           \/ \E n \in Nets : DeferConnect(n) \/ ConnectOper(n)
  BY <1>7
  DEF RunInv, HydrationOrder, CredentialsKept, Startup, Run, CheckWindow, ProvReady,
      EntryWindowGone, RefuseRequest, WindowChanges, Polled, DeferConnect,
      ConnectOper, vars, runVars, credVars, flagVars
<1> QED
  BY <1>1, <1>2, <1>3, <1>4, <1>5, <1>6, <1>7
  DEF Next, StackStep, Ending, Outside, HandOver, BleWindowGone, HandBack,
      BleTaskReturns, OperTaskReturns

(* A deferred connect is replayed or forgotten before the next one.        *)
LEMMA NextVerdict == RunInv /\ [Next]_vars => VerdictOrder'
<1> SUFFICES ASSUME RunInv, [Next]_vars PROVE VerdictOrder'
  OBVIOUS
<1>1. CASE CheckWindow
  BY <1>1
  DEF RunInv, VerdictOrder, CheckWindow, verdictVars
<1>2. CASE BleUp \/ OperUp \/ ConnectOnce
  BY <1>2
  DEF RunInv, VerdictOrder, BleUp, OperUp, ConnectOnce, EnterOper, verdictVars
<1>3. CASE \E n \in Nets : DeferConnect(n) \/ ConnectOper(n)
  BY <1>3, NetsAssumption
  DEF RunInv, VerdictOrder, DeferConnect, ConnectOper, runVars
<1>4. CASE Crash \/ RefuseRequest
  BY <1>4
  DEF RunInv, VerdictOrder, Crash, RefuseRequest, runVars
<1>5. CASE Startup \/ Run \/ RunEnds \/ EndBle \/ EndOper \/ ProvReady \/ ImStart \/ ImLoaded
  BY <1>5
  DEF RunInv, VerdictOrder, Startup, Run, RunEnds, EndBle, EndOper, ProvReady,
      ImStart, ImLoaded, verdictVars
<1>6. CASE \/ EntryWindowGone \/ ArmFailSafe \/ CommissioningComplete \/ FailSafeExpires
           \/ WindowChanges \/ Polled \/ UNCHANGED vars
           \/ \E n \in Nets : AddNetwork(n) \/ RemoveNetwork(n)
  BY <1>6
  DEF RunInv, VerdictOrder, EntryWindowGone, ArmFailSafe, CommissioningComplete,
      FailSafeExpires, WindowChanges, Polled, AddNetwork, RemoveNetwork, vars,
      runVars, verdictVars
<1> QED
  BY <1>1, <1>2, <1>3, <1>4, <1>5, <1>6
  DEF Next, StackStep, Ending, Outside, HandOver, BleWindowGone, HandBack,
      BleTaskReturns, OperTaskReturns

(* A window that is opened is newer than any entry.                        *)
LEMMA NextEntry == RunInv /\ [Next]_vars => EntryOrder'
<1> SUFFICES ASSUME RunInv, [Next]_vars PROVE EntryOrder'
  OBVIOUS
<1>1. CASE Startup \/ WindowChanges \/ CommissioningComplete
  BY <1>1
  DEF RunInv, TypeOK, WaitInv, WindowTypeOK, EntryOrder, Startup, WindowChanges,
      CommissioningComplete, OpenWindow, CloseWindow, Open, Close, commVars, runVars
<1>2. CASE OperUp \/ ConnectOnce
  BY <1>2
  DEF RunInv, TypeOK, WaitInv, WindowTypeOK, EntryOrder, OperUp, ConnectOnce, EnterOper,
      StartWait, commVars, windowVars
<1>3. CASE BleUp \/ EntryWindowGone
  BY <1>3
  DEF RunInv, TypeOK, WaitInv, WindowTypeOK, EntryOrder, BleUp, EntryWindowGone, Accepted,
      Accepts, StartWait, windowVars, runVars
<1>4. CASE Crash \/ RunEnds \/ EndBle \/ EndOper
  BY <1>4
  DEF RunInv, TypeOK, WaitInv, WindowTypeOK, EntryOrder, Crash, RunEnds, EndBle, EndOper,
      windowVars
<1>5. CASE Polled
  BY <1>5
  DEF RunInv, TypeOK, WaitInv, WindowTypeOK, EntryOrder, Polled, WaitStep, Subscribe, Refuse,
      Park, Wake, runVars
<1>6. CASE \/ Run \/ CheckWindow \/ ProvReady \/ ImStart \/ ImLoaded \/ ArmFailSafe
           \/ RefuseRequest \/ FailSafeExpires \/ UNCHANGED vars
           \/ \E n \in Nets : \/ AddNetwork(n) \/ RemoveNetwork(n)
                              \/ DeferConnect(n) \/ ConnectOper(n)
  BY <1>6
  DEF RunInv, TypeOK, WaitInv, WindowTypeOK, EntryOrder, Run, CheckWindow, ProvReady, ImStart,
      ImLoaded, ArmFailSafe, RefuseRequest, FailSafeExpires, AddNetwork, RemoveNetwork,
      DeferConnect, ConnectOper, vars, commVars, runVars
<1> QED
  BY <1>1, <1>2, <1>3, <1>4, <1>5, <1>6
  DEF Next, StackStep, Ending, Outside, HandOver, BleWindowGone, HandBack,
      BleTaskReturns, OperTaskReturns

(* The parts of the invariant, each preserved with the help of the whole.  *)
LEMMA NextRunInv == RunInv /\ [Next]_vars => RunInv'
  BY NextWait, NextType, NextCredentials, NextVerdict, NextEntry DEF RunInv

(* The inductive invariant of the run loop (src/src/wireless/wifi.rs:      *)
(* 212-270 and src/src/wireless/thread.rs:213-282).                        *)
THEOREM RunInvHolds == Spec => []RunInv
  BY InitRunInv, NextRunInv, PTL DEF Spec

-----------------------------------------------------------------------------
(* No switch of phase, restart of the run or re-hydration loses            *)
(* credentials that were handed over and are not persisted yet.            *)
THEOREM CredentialsSurvive == Spec => []CredentialsKept
<1>1. RunInv => CredentialsKept
  BY DEF RunInv
<1> QED BY <1>1, RunInvHolds, PTL

(* No BLE phase acts on the verdict of an earlier commissioning            *)
(* (src/src/wireless.rs:861).                                              *)
THEOREM VerdictsInOrder == Spec => []VerdictOfThisAttempt
<1>1. RunInv => VerdictOfThisAttempt
  BY DEF RunInv, VerdictOrder, VerdictOfThisAttempt
<1> QED BY <1>1, RunInvHolds, PTL

(* No operational phase serves before the deferred connect is replayed     *)
(* (src/src/wireless/wifi.rs:557).                                         *)
THEOREM ConnectsFirst == Spec => []ReplayedFirst
<1>1. RunInv => ReplayedFirst
  BY DEF RunInv, VerdictOrder, ReplayedFirst
<1> QED BY <1>1, RunInvHolds, PTL

(* The radio goes back to BLE only for a window that is newer than the     *)
(* operational phase.                                                      *)
THEOREM NeverBounces == Spec => []NoBounce
<1>1. RunInv => NoBounce
  BY DEF RunInv, EntryOrder, NoBounce
<1> QED BY <1>1, RunInvHolds, PTL

-----------------------------------------------------------------------------
(* An Interaction Model exists only while a phase carries the radio.       *)
ImInPhase == im # "none" => phase \in {"ble", "oper"}

LEMMA NextImInPhase == ImInPhase /\ [Next]_vars => ImInPhase'
<1> SUFFICES ASSUME ImInPhase, [Next]_vars PROVE ImInPhase'
  OBVIOUS
<1> USE DEF ImInPhase
<1>1. CASE Startup \/ Crash \/ Run \/ RunEnds \/ CheckWindow
  BY <1>1 DEF Startup, Crash, Run, RunEnds, CheckWindow, DropPhase
<1>2. CASE BleUp \/ ProvReady \/ EndBle
  BY <1>2 DEF BleUp, ProvReady, EndBle, DropPhase
<1>3. CASE OperUp \/ ConnectOnce \/ EntryWindowGone \/ EndOper
  BY <1>3 DEF OperUp, ConnectOnce, EnterOper, EntryWindowGone, EndOper, DropPhase, runVars
<1>4. CASE ImStart \/ ImLoaded
  BY <1>4 DEF ImStart, ImLoaded
<1>5. CASE Outside \/ Polled \/ UNCHANGED vars
  BY <1>5
  DEF Outside, ArmFailSafe, CommissioningComplete, FailSafeExpires, RefuseRequest,
      WindowChanges, AddNetwork, RemoveNetwork, DeferConnect, ConnectOper, Polled,
      vars, runVars
<1> QED
  BY <1>1, <1>2, <1>3, <1>4, <1>5
  DEF Next, StackStep, Ending, HandOver, BleWindowGone, HandBack,
      BleTaskReturns, OperTaskReturns

(* The switches of phase are, to the commissioner, a hand-over of the      *)
(* radio: the credentials stay, and a deferred connect is performed when   *)
(* the operational network comes up, or given up with the run.  A verdict  *)
(* that nothing deferred replays the connect the device already has.       *)
LEMMA PhaseImplements ==
  ASSUME RunInv, ImInPhase, StackStep \/ Ending
  PROVE  [Abstract!Next]_(Abstract!vars)
<1> USE DEF RunInv, VerdictOrder, Radio
<1>1. CASE Startup \/ Run \/ ProvReady \/ ImStart \/ EntryWindowGone \/ Polled
  BY <1>1
  DEF Startup, Run, ProvReady, ImStart, EntryWindowGone, Polled, runVars, credVars,
      verdictVars, Abstract!vars
<1>2. CASE Crash
  BY <1>2 DEF Crash, Abstract!Next, Abstract!PowerLoss
<1>3. CASE RunEnds \/ EndBle \/ EndOper
  BY <1>3
  DEF RunEnds, EndBle, EndOper, credVars, verdictVars, Abstract!Next, Abstract!Release,
      Abstract!vars
<1>4. CASE CheckWindow
  BY <1>4
  DEF CheckWindow, credVars, verdictVars, Abstract!Next, Abstract!GiveUp, Abstract!vars
<1>5. CASE ImLoaded
  BY <1>5
  DEF ImLoaded, ImInPhase, HydrationOrder, verdictVars, Abstract!Next, Abstract!Recall
<1>6. CASE BleUp
  BY <1>6 DEF BleUp, credVars, verdictVars, Abstract!Next, Abstract!Advertise
<1>7. CASE OperUp
  BY <1>7
  DEF OperUp, EnterOper, credVars, verdictVars, Abstract!Next, Abstract!Join,
      Abstract!vars
<1>8. CASE ConnectOnce
  <2>1. CASE phase' = "oper"
    <3>1. verdict \in networks /\ verdict # None
      BY <1>8, <2>1, NetsAssumption DEF ConnectOnce, TypeOK
    <3>2. Abstract!Join
      BY <1>8, <2>1, <3>1 DEF ConnectOnce, EnterOper, credVars, Abstract!Join
    <3> QED BY <3>2 DEF Abstract!Next
  <2>2. CASE phase' = "ready"
    BY <1>8, <2>2
    DEF ConnectOnce, EnterOper, credVars, verdictVars, Abstract!Next, Abstract!GiveUp,
        Abstract!vars
  <2> QED BY <1>8, <2>1, <2>2 DEF ConnectOnce, EnterOper
<1> QED
  BY <1>1, <1>2, <1>3, <1>4, <1>5, <1>6, <1>7, <1>8
  DEF StackStep, Ending, HandOver, BleWindowGone, HandBack, BleTaskReturns,
      OperTaskReturns

(* What is served meanwhile is served over the radio of the phase.         *)
LEMMA OutsideImplements ==
  ASSUME RunInv, ImInPhase, Outside
  PROVE  [Abstract!Next]_(Abstract!vars)
<1> USE DEF RunInv, VerdictOrder, ImInPhase, Served, Radio, runVars, credVars, verdictVars
<1>1. CASE ArmFailSafe \/ WindowChanges
  BY <1>1 DEF ArmFailSafe, WindowChanges, Abstract!vars
<1>2. CASE CommissioningComplete
  BY <1>2 DEF CommissioningComplete, Abstract!Next, Abstract!Complete
<1>3. CASE FailSafeExpires
  BY <1>3 DEF FailSafeExpires, Abstract!Next, Abstract!Expire
<1>4. CASE RefuseRequest
  BY <1>4 DEF RefuseRequest, Abstract!Next, Abstract!TakeBack, Abstract!vars
<1>5. ASSUME NEW n \in Nets, AddNetwork(n) \/ RemoveNetwork(n)
      PROVE  [Abstract!Next]_(Abstract!vars)
  BY <1>5 DEF AddNetwork, RemoveNetwork, Abstract!Next, Abstract!Grant, Abstract!Revoke
<1>6. ASSUME NEW n \in Nets, DeferConnect(n)
      PROVE  [Abstract!Next]_(Abstract!vars)
  BY <1>6 DEF DeferConnect, Abstract!Next, Abstract!Ask
<1>7. ASSUME NEW n \in Nets, ConnectOper(n)
      PROVE  [Abstract!Next]_(Abstract!vars)
  BY <1>7 DEF ConnectOper, Abstract!Next, Abstract!Move
<1> QED
  BY <1>1, <1>2, <1>3, <1>4, <1>5, <1>6, <1>7 DEF Outside

(* The safety part of the refinement: up to fairness the run loop, with    *)
(* its drivers, tasks and Interaction Models (src/src/wireless/wifi.rs:    *)
(* 212-270), is a device that hands its one radio over.                    *)
THEOREM ImplementsHandOverSafety ==
  Spec => Abstract!Init /\ [][Abstract!Next]_(Abstract!vars)
<1>1. Init => Abstract!Init /\ ImInPhase
  BY DEF Init, ImInPhase, Radio, Abstract!Init
<1>2. RunInv /\ ImInPhase /\ [Next]_vars => [Abstract!Next]_(Abstract!vars)
  <2>1. CASE UNCHANGED vars
    BY <2>1 DEF vars, runVars, credVars, verdictVars, Radio, Abstract!vars
  <2> QED BY <2>1, PhaseImplements, OutsideImplements DEF Next
<1> QED BY <1>1, <1>2, NextImInPhase, RunInvHolds, PTL DEF Spec

-----------------------------------------------------------------------------
(* Liveness.                                                               *)

(* The step that RadioHandOver is fair to.                                 *)
Handing == pending # None /\ Radio = "ble" /\ Abstract!Release

(* The prover does not look into ENABLED: that a fair step can be taken    *)
(* when its guard holds is a hypothesis, and the only one.  It is true by  *)
(* the definitions of the actions, whose guards come first and are all     *)
(* that they demand of the state they start from.                          *)
GuardsEnable ==
  /\ Pollable => ENABLED <<Polled>>_vars
  /\ phase = "ble" /\ Accepted => ENABLED <<BleWindowGone>>_vars
  /\ phase = "oper" /\ until = "not_own" /\ Accepted => ENABLED <<EntryWindowGone>>_vars
  /\ phase = "oper" /\ until = "own" /\ Accepted => ENABLED <<HandBack>>_vars
  /\ prov = "poll" /\ verdict # None => ENABLED <<ProvReady>>_vars
  /\ phase = "ble" /\ prov = "delay" => ENABLED <<HandOver>>_vars
  /\ ENABLED <<Handing>>_(Abstract!vars) => phase = "ble" /\ pending # None

(* Which tasks a phase is made of, and what its wait is for.               *)
PhaseTasks ==
  /\ phase = "ble" => until = "not_own" /\ prov \in {"poll", "delay"}
  /\ phase = "oper" => until \in {"not_own", "own"}

(* The tasks of a phase start and end with it.                             *)
LEMMA NextPhaseTasks == PhaseTasks /\ [Next]_vars => PhaseTasks'
<1> SUFFICES ASSUME PhaseTasks, [Next]_vars PROVE PhaseTasks'
  OBVIOUS
<1> USE DEF PhaseTasks
<1>1. CASE Startup \/ Crash \/ Run \/ RunEnds \/ CheckWindow \/ EndBle \/ EndOper
  BY <1>1 DEF Startup, Crash, Run, RunEnds, CheckWindow, EndBle, EndOper
<1>2. CASE BleUp \/ ProvReady
  BY <1>2 DEF BleUp, ProvReady, StartWait, commVars
<1>3. CASE OperUp \/ ConnectOnce \/ EntryWindowGone
  BY <1>3 DEF OperUp, ConnectOnce, EnterOper, EntryWindowGone, StartWait, runVars
<1>4. CASE ImStart \/ ImLoaded \/ Polled
  BY <1>4 DEF ImStart, ImLoaded, Polled, WaitStep, Subscribe, Refuse, Park, Wake,
              commVars, runVars
<1>5. CASE CommissioningComplete \/ WindowChanges
  BY <1>5 DEF CommissioningComplete, WindowChanges, OpenWindow, CloseWindow, commVars, runVars
<1>6. CASE \/ ArmFailSafe \/ FailSafeExpires \/ RefuseRequest \/ UNCHANGED vars
           \/ \E n \in Nets : \/ AddNetwork(n) \/ RemoveNetwork(n)
                              \/ DeferConnect(n) \/ ConnectOper(n)
  BY <1>6
  DEF ArmFailSafe, FailSafeExpires, RefuseRequest, AddNetwork, RemoveNetwork,
      DeferConnect, ConnectOper, vars, commVars, runVars
<1> QED
  BY <1>1, <1>2, <1>3, <1>4, <1>5, <1>6
  DEF Next, StackStep, Ending, Outside, HandOver, BleWindowGone, HandBack,
      BleTaskReturns, OperTaskReturns

(* The two invariants together.                                            *)
LEMMA LiveInvHolds == Spec => [](RunInv /\ PhaseTasks)
<1>1. Init => PhaseTasks
  BY DEF Init, PhaseTasks
<1> QED BY <1>1, NextPhaseTasks, RunInvHolds, PTL DEF Spec

-----------------------------------------------------------------------------
(* The wait of a phase has a window to react to, and is at stage s.        *)
Owes(s) == phase \in {"ble", "oper"} /\ Due /\ wpc = s
OwesBle == Owes("read") /\ phase = "ble"
OwesEntry == Owes("read") /\ phase = "oper" /\ until = "not_own"
OwesBack == Owes("read") /\ phase = "oper" /\ until = "own"
Quiet == phase \notin {"ble", "oper"} \/ ~Due

(* A phase that goes on leaves its wait to itself, but for the change of   *)
(* the predicate in wait_next_comm_window.                                 *)
LEMMA PhaseGoesOn ==
  ASSUME [Next]_vars, phase \in {"ble", "oper"}, phase' \in {"ble", "oper"}
  PROVE  /\ UNCHANGED phase
         /\ EntryWindowGone \/ ((WaitStep \/ UNCHANGED wpc) /\ UNCHANGED until)
<1>1. CASE Startup \/ Crash \/ Run \/ RunEnds \/ CheckWindow \/ EndBle \/ EndOper
  BY <1>1 DEF Startup, Crash, Run, RunEnds, CheckWindow, EndBle, EndOper
<1>2. CASE BleUp \/ OperUp \/ ConnectOnce
  BY <1>2 DEF BleUp, OperUp, ConnectOnce
<1>3. CASE EntryWindowGone
  BY <1>3 DEF EntryWindowGone, runVars
<1>4. CASE ImStart \/ ImLoaded \/ ProvReady \/ Polled
  BY <1>4 DEF ImStart, ImLoaded, ProvReady, Polled, WaitStep, Subscribe, Refuse, Park, Wake,
              commVars, runVars
<1>5. CASE CommissioningComplete \/ WindowChanges
  BY <1>5 DEF CommissioningComplete, WindowChanges, OpenWindow, CloseWindow, commVars, runVars
<1>6. CASE \/ ArmFailSafe \/ FailSafeExpires \/ RefuseRequest \/ UNCHANGED vars
           \/ \E n \in Nets : \/ AddNetwork(n) \/ RemoveNetwork(n)
                              \/ DeferConnect(n) \/ ConnectOper(n)
  BY <1>6
  DEF ArmFailSafe, FailSafeExpires, RefuseRequest, AddNetwork, RemoveNetwork,
      DeferConnect, ConnectOper, vars, commVars, runVars
<1> QED
  BY <1>1, <1>2, <1>3, <1>4, <1>5, <1>6
  DEF Next, StackStep, Ending, Outside, HandOver, BleWindowGone, HandBack,
      BleTaskReturns, OperTaskReturns

(* The wait goes on, stage by stage, until the phase has reacted or there  *)
(* is nothing to react to any more.                                        *)
LEMMA WaitGoesOn ==
  ASSUME [Next]_vars, ~Quiet, ~Quiet'
  PROVE  Nearer /\ UNCHANGED <<phase, until>>
<1>1. ~EntryWindowGone
  BY DEF EntryWindowGone, Accepted, Accepts, StartWait, windowVars, Due, Quiet
<1> QED BY <1>1, PhaseGoesOn, DueNearer DEF Quiet

(* No phase sleeps while it has a window to react to: the wait that it is  *)
(* composed with returns, or there is nothing to react to any more         *)
(* (src/src/wireless.rs:753-763, 845-890).                                 *)
THEOREM PhaseCatchesUp == FairSpec /\ []GuardsEnable => (~Quiet ~> Quiet)
<1> DEFINE LiveInv == RunInv /\ PhaseTasks
<1>1. LiveInv /\ ~Quiet =>
        /\ wpc \in {"refused", "parked", "subscribe", "read"}
        /\ wpc # "read" => Pollable
        /\ wpc = "read" => Accepted
  BY DueIsPollable
  DEF RunInv, PhaseTasks, WaitInv, WindowTypeOK, Waiting, Quiet, Due, Accepted
<1>2. LiveInv /\ [Next]_vars =>
        /\ Owes("refused") => (Owes("refused") \/ Owes("parked") \/ Quiet)'
        /\ Owes("parked") => (Owes("parked") \/ Owes("subscribe") \/ Quiet)'
        /\ Owes("subscribe") => (Owes("subscribe") \/ Owes("read") \/ Quiet)'
        /\ OwesBle => (OwesBle \/ Quiet)'
        /\ OwesEntry => (OwesEntry \/ Quiet)'
        /\ OwesBack => (OwesBack \/ Quiet)'
  BY WaitGoesOn DEF Owes, OwesBle, OwesEntry, OwesBack, Quiet, Nearer
<1>3. <<Polled>>_vars =>
        /\ Owes("refused") => (Owes("parked") \/ Quiet)'
        /\ Owes("parked") => (Owes("subscribe") \/ Quiet)'
        /\ Owes("subscribe") => (Owes("read") \/ Quiet)'
  BY DueStepMoves DEF Owes, Quiet, Polled
<1>4. /\ <<BleWindowGone>>_vars => Quiet'
      /\ <<EntryWindowGone>>_vars => Quiet'
      /\ <<HandBack>>_vars => Quiet'
  BY DEF BleWindowGone, EndBle, EntryWindowGone, HandBack, EndOper, Accepted, StartWait,
         windowVars, Due, Accepts, Quiet
<1>5. LiveInv /\ GuardsEnable =>
        /\ Owes("refused") \/ Owes("parked") \/ Owes("subscribe") => ENABLED <<Polled>>_vars
        /\ OwesBle => ENABLED <<BleWindowGone>>_vars
        /\ OwesEntry => ENABLED <<EntryWindowGone>>_vars
        /\ OwesBack => ENABLED <<HandBack>>_vars
  BY <1>1 DEF Owes, OwesBle, OwesEntry, OwesBack, Quiet, GuardsEnable
<1>6. LiveInv /\ Owes("read") => OwesBle \/ OwesEntry \/ OwesBack
  BY DEF Owes, OwesBle, OwesEntry, OwesBack, PhaseTasks
<1>7. LiveInv /\ ~Quiet =>
        Owes("refused") \/ Owes("parked") \/ Owes("subscribe") \/ Owes("read")
  BY <1>1 DEF Owes, Quiet
<1> HIDE DEF LiveInv
<1>8. Spec => []LiveInv
  BY LiveInvHolds DEF LiveInv
<1> QED
  BY <1>2, <1>3, <1>4, <1>5, <1>6, <1>7, <1>8, PTL DEF FairSpec, Spec

(* BLE does not stay up for a window that is gone, for any number of       *)
(* windows (src/src/wireless.rs:753-763).                                  *)
THEOREM BleStops == FairSpec /\ []GuardsEnable => BleStopsWithoutWindow
<1>1. RunInv /\ PhaseTasks /\ phase = "ble" /\ win # "own" => ~Quiet
  BY DEF RunInv, TypeOK, WindowTypeOK, WindowStates, PhaseTasks, Accepts, Due, Quiet
<1>2. phase # "ble" \/ win = "own" <=> ~(phase = "ble" /\ win # "own")
  OBVIOUS
<1> QED
  BY <1>1, <1>2, PhaseCatchesUp, LiveInvHolds, PTL DEF FairSpec, BleStopsWithoutWindow

(* Once the operational phase has seen that no own window is open, the     *)
(* next one, if it stays open, brings the radio back to BLE                *)
(* (src/src/wireless.rs:848-849).                                          *)
THEOREM AwaitedWindowsHandBack == FairSpec /\ []GuardsEnable => AwaitedWindowHandsBack
<1> DEFINE Wanted == phase = "oper" /\ until = "own" /\ win = "own"
           Back == phase # "oper" \/ win # "own"
<1>1. Wanted => ~Quiet
  BY DEF Accepts, Due, Quiet
<1>2. Wanted /\ [Next]_vars => (Wanted \/ Back)'
  BY PhaseGoesOn DEF EntryWindowGone
<1> HIDE DEF Wanted, Back
<1>3. FairSpec /\ []GuardsEnable => (Wanted ~> Back)
  BY <1>1, <1>2, PhaseCatchesUp, LiveInvHolds, PTL DEF FairSpec, Spec
<1> QED BY <1>3 DEF AwaitedWindowHandsBack, Wanted, Back

(* While BLE is up, nothing but the verdict moves oper_net_act_task.       *)
LEMMA ProvGoesOn ==
  ASSUME [Next]_vars, phase = "ble", phase' = "ble"
  PROVE  ProvReady \/ UNCHANGED prov
<1>1. CASE StackStep \/ Ending
  BY <1>1
  DEF StackStep, Ending, Startup, Crash, Run, RunEnds, CheckWindow, BleUp, OperUp,
      ConnectOnce, EntryWindowGone, ImStart, ImLoaded, HandOver, BleWindowGone,
      BleTaskReturns, EndBle, HandBack, OperTaskReturns, EndOper, Polled, runVars
<1>2. CASE Outside
  BY <1>2
  DEF Outside, ArmFailSafe, CommissioningComplete, FailSafeExpires, RefuseRequest,
      WindowChanges, AddNetwork, RemoveNetwork, DeferConnect, ConnectOper, runVars
<1>3. CASE UNCHANGED vars
  BY <1>3 DEF vars, runVars
<1> QED BY <1>1, <1>2, <1>3 DEF Next

(* A connect that is deferred over BLE and not taken back ends the BLE     *)
(* phase, for any set of networks (src/src/wireless.rs:765-775).           *)
THEOREM HandsOver == FairSpec /\ []GuardsEnable => HandOverHappens
<1> DEFINE Asked == phase = "ble" /\ pending # None
           Over == phase # "ble" \/ pending = None
           Polling == Asked /\ prov = "poll"
           Delaying == Asked /\ prov = "delay"
<1>1. PhaseTasks /\ Asked => Polling \/ Delaying
  BY DEF PhaseTasks
<1>2. RunInv /\ PhaseTasks /\ [Next]_vars =>
        /\ Polling => (Polling \/ Delaying \/ Over)'
        /\ Delaying => (Delaying \/ Over)'
  BY ProvGoesOn, NextPhaseTasks DEF PhaseTasks, ProvReady
<1>3. Polling /\ <<ProvReady>>_vars => (Delaying \/ Over)'
  BY DEF ProvReady
<1>4. <<HandOver>>_vars => Over'
  BY DEF HandOver, EndBle
<1>5. RunInv /\ GuardsEnable =>
        /\ Polling => ENABLED <<ProvReady>>_vars
        /\ Delaying => ENABLED <<HandOver>>_vars
  BY DEF RunInv, VerdictOrder, GuardsEnable
<1> HIDE DEF Asked, Over, Polling, Delaying
<1>6. FairSpec /\ []GuardsEnable => (Asked ~> Over)
  BY <1>1, <1>2, <1>3, <1>4, <1>5, LiveInvHolds, PTL DEF FairSpec, Spec
<1> QED BY <1>6 DEF HandOverHappens, Asked, Over

(* The whole refinement, fairness included: the run loop is a device that  *)
(* hands its one radio over, and does hand it over once it is asked to     *)
(* connect (src/src/wireless.rs:744-775).                                  *)
THEOREM ImplementsTheHandOver == FairSpec /\ []GuardsEnable => ImplementsHandOver
<1> DEFINE Asked == phase = "ble" /\ pending # None
           Over == phase # "ble" \/ pending = None
<1>1. GuardsEnable /\ Over => ~ENABLED <<Handing>>_(Abstract!vars)
  BY DEF GuardsEnable
<1>2. ~Asked => Over
  OBVIOUS
<1> HIDE DEF Asked, Over
<1>3. FairSpec /\ []GuardsEnable => (Asked ~> Over)
  BY HandsOver DEF HandOverHappens, Asked, Over
<1>4. FairSpec /\ []GuardsEnable => WF_(Abstract!vars)(Handing)
  BY <1>1, <1>2, <1>3, PTL
<1>5. FairSpec => Abstract!Init /\ [][Abstract!Next]_(Abstract!vars)
  BY ImplementsHandOverSafety, PTL DEF FairSpec
<1> QED BY <1>4, <1>5, PTL DEF ImplementsHandOver, Abstract!Spec, Handing

(* None of the tasks of a phase sleeps for a notification that has been    *)
(* given already (src/src/wireless.rs:753-775, 845-890).                   *)
THEOREM NeverGetsStuck == Spec /\ []GuardsEnable => []NeverStuck
<1>1. RunInv /\ PhaseTasks /\ GuardsEnable => NeverStuck
  <2> SUFFICES ASSUME RunInv, PhaseTasks, GuardsEnable PROVE NeverStuck
    OBVIOUS
  <2>1. phase \in {"ble", "oper"} /\ Due => Accepted \/ Pollable
    BY DueIsPollable DEF RunInv
  <2>2. phase = "ble" /\ win # "own" => Due
    BY DEF RunInv, TypeOK, WindowTypeOK, WindowStates, PhaseTasks, Accepts, Due
  <2>3. phase = "ble" /\ pending # None => verdict # None
    BY DEF RunInv, VerdictOrder
  <2> QED BY <2>1, <2>2, <2>3 DEF PhaseTasks, GuardsEnable, NeverStuck, Due
<1> QED BY <1>1, LiveInvHolds, PTL
=============================================================================
