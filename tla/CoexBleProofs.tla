--------------------------- MODULE CoexBleProofs ----------------------------
(***************************************************************************)
(* Proofs about the BLE side of concurrent operation, for every number of  *)
(* windows.                                                                *)
(***************************************************************************)
EXTENDS CoexBle, CommWindowProofs

(* What the loop waits for goes with where it is.                          *)
WaitsForItsStage ==
  /\ pc = "off" <=> until = "none"
  /\ pc = "waiting" <=> until = "open"
  /\ pc \in {"admin", "up"} <=> until = "not_open"

(* The stage fits the window that the loop saw, as long as it is open and  *)
(* none has been opened since.                                             *)
StageFitsSeen ==
  /\ seen \in 0..opened
  /\ pc \in {"admin", "up"} /\ opened = seen /\ win # "closed" =>
       (pc = "up" <=> win = "own")

CoexInv == pc \in PCs /\ WaitInv /\ WaitsForItsStage /\ StageFitsSeen

(* Before a run nothing waits.                                             *)
LEMMA InitCoexInv == Init => CoexInv
  BY InitWaitInv, 0 \in 0..0 DEF Init, WindowInit, CoexInv, PCs, WaitsForItsStage, StageFitsSeen

(* A window opened since is a later one.                                   *)
LEMMA NextStageFits == CoexInv /\ [Next]_vars => StageFitsSeen'
<1> SUFFICES ASSUME CoexInv, [Next]_vars PROVE StageFitsSeen'
  OBVIOUS
<1> USE DEF CoexInv, StageFitsSeen, WaitInv, WindowTypeOK
<1>1. CASE WindowSeen
  BY <1>1 DEF WindowSeen, windowVars
<1>2. CASE Begin \/ WindowGone \/ PeripheralReturns \/ RunEnds
  BY <1>2 DEF Begin, WindowGone, PeripheralReturns, RunEnds, WaitForWindow, windowVars
<1>3. CASE Polled \/ UNCHANGED vars
  BY <1>3 DEF Polled, WaitStep, Subscribe, Refuse, Park, Wake, vars, commVars
<1>4. CASE WindowChanges
  BY <1>4 DEF WindowChanges, OpenWindow, Open, CloseWindow, Close
<1> QED BY <1>1, <1>2, <1>3, <1>4 DEF Next

(* Every transition of the loop restarts the wait with the predicate of    *)
(* the stage it enters.                                                    *)
LEMMA NextCoexInv == CoexInv /\ [Next]_vars => CoexInv'
<1> SUFFICES ASSUME CoexInv, [Next]_vars PROVE (pc \in PCs /\ WaitInv /\ WaitsForItsStage)'
  BY NextStageFits DEF CoexInv
<1> USE DEF CoexInv, PCs
<1>1. CASE Begin \/ WindowSeen \/ WindowGone \/ PeripheralReturns
  <2>1. WaitInv'
    BY <1>1, StartKeepsWaitInv
    DEF Begin, WindowSeen, WindowGone, PeripheralReturns, WaitForWindow, Predicates
  <2>2. (pc \in PCs /\ WaitsForItsStage)'
    BY <1>1 DEF Begin, WindowSeen, WindowGone, PeripheralReturns, WaitForWindow,
                StartWait, WaitsForItsStage
  <2> QED BY <2>1, <2>2
<1>2. CASE RunEnds
  <2>1. WaitInv'
    BY <1>2, StopKeepsWaitInv DEF RunEnds, windowVars, WaitInv, WindowTypeOK
  <2> QED BY <1>2, <2>1 DEF RunEnds, StopWait, WaitsForItsStage
<1>3. CASE Polled
  BY <1>3, WaitStepKeepsWaitInv
  DEF Polled, WaitStep, Subscribe, Refuse, Park, Wake, WaitsForItsStage
<1>4. CASE WindowChanges
  BY <1>4, OpenKeepsWaitInv, CloseKeepsWaitInv DEF WindowChanges, WaitsForItsStage
<1>5. CASE UNCHANGED vars
  BY <1>5, StutterKeepsWaitInv DEF vars, commVars, WaitsForItsStage
<1> QED BY <1>1, <1>2, <1>3, <1>4, <1>5 DEF Next

(* The loop always waits for what its stage has to react to                *)
(* (src/src/wireless.rs:787-833).                                          *)
THEOREM CoexInvHolds == Spec => []CoexInv
  BY InitCoexInv, NextCoexInv, PTL DEF Spec

(* Whenever nothing is left to react to, no open window is waited for, and *)
(* the peripheral runs, or a window is sat out, only with a window open:   *)
(* the kind of window that the stage is for, unless another has taken its  *)
(* place (src/src/wireless.rs:798-832).                                    *)
THEOREM CoexSettles == Spec => []SettledAgrees
<1>1. CoexInv => SettledAgrees
  BY DEF CoexInv, WaitInv, WindowTypeOK, WindowStates, NoMissedChange, Accepts,
         WaitsForItsStage, StageFitsSeen, SettledAgrees
<1> QED BY <1>1, CoexInvHolds, PTL

-----------------------------------------------------------------------------
(* Liveness.  The prover does not look into ENABLED: that a step of the    *)
(* loop can be taken when its guard holds is a hypothesis, and the only    *)
(* one.  It is true by the definitions of the three actions, whose guards  *)
(* are all that they demand of the state they start from.                  *)
GuardsEnable ==
  /\ Pollable => ENABLED <<Polled>>_vars
  /\ pc = "waiting" /\ Accepted => ENABLED <<WindowSeen>>_vars
  /\ pc \in {"admin", "up"} /\ Accepted => ENABLED <<WindowGone>>_vars

(* The loop has a window to react to, and its wait is at stage s.          *)
Owes(s) == pc # "off" /\ Due /\ wpc = s
OwesStart == Owes("read") /\ pc = "waiting"
OwesStop == Owes("read") /\ pc # "waiting"
Quiet == pc = "off" \/ ~Due

(* The wait goes on, stage by stage, until the loop has reacted or there   *)
(* is nothing to react to any more.                                        *)
LEMMA LoopGoesOn ==
  ASSUME CoexInv, [Next]_vars, ~Quiet, ~Quiet'
  PROVE  Nearer /\ UNCHANGED pc
<1>1. (WaitStep \/ UNCHANGED wpc) /\ UNCHANGED pc
  <2>1. CASE Begin \/ WindowSeen \/ WindowGone \/ PeripheralReturns \/ RunEnds
    BY <2>1
    DEF Begin, WindowSeen, WindowGone, PeripheralReturns, RunEnds, WaitForWindow,
        StartWait, CoexInv, WaitsForItsStage, WaitInv, WindowTypeOK, WindowStates,
        windowVars, Quiet, Due, Accepts, PCs
  <2> QED BY <2>1 DEF Next, Polled, WindowChanges, OpenWindow, CloseWindow, vars, commVars
<1> QED BY <1>1, DueNearer DEF Quiet

(* The loop does not stay in a wait that the window fulfils: the wait      *)
(* returns, or the window leaves the states waited for, however often it   *)
(* is opened and closed meanwhile (src/src/wireless.rs:787-833).           *)
THEOREM LoopCatchesUp == Spec /\ []GuardsEnable => (~Quiet ~> Quiet)
<1>1. CoexInv /\ ~Quiet =>
        /\ wpc \in {"refused", "parked", "subscribe", "read"}
        /\ wpc # "read" => Pollable
        /\ wpc = "read" => Accepted
  BY DueIsPollable
  DEF CoexInv, WaitsForItsStage, WaitInv, WindowTypeOK, Waiting, Quiet, Due, Accepted
<1>2. CoexInv /\ [Next]_vars =>
        /\ Owes("refused") => (Owes("refused") \/ Owes("parked") \/ Quiet)'
        /\ Owes("parked") => (Owes("parked") \/ Owes("subscribe") \/ Quiet)'
        /\ Owes("subscribe") => (Owes("subscribe") \/ Owes("read") \/ Quiet)'
        /\ OwesStart => (OwesStart \/ Quiet)'
        /\ OwesStop => (OwesStop \/ Quiet)'
  BY LoopGoesOn DEF Owes, OwesStart, OwesStop, Quiet, Nearer
<1>3. <<Polled>>_vars =>
        /\ Owes("refused") => (Owes("parked") \/ Quiet)'
        /\ Owes("parked") => (Owes("subscribe") \/ Quiet)'
        /\ Owes("subscribe") => (Owes("read") \/ Quiet)'
  BY DueStepMoves DEF Owes, Quiet, Polled
<1>4. CoexInv =>
        /\ OwesStart /\ <<WindowSeen>>_vars => Quiet'
        /\ OwesStop /\ <<WindowGone>>_vars => Quiet'
  BY DEF Owes, OwesStart, OwesStop, WindowSeen, WindowGone, WaitForWindow, StartWait,
         windowVars, CoexInv, WaitsForItsStage, WaitInv, WindowTypeOK, WindowStates,
         Due, Accepts, Quiet
<1>5. CoexInv /\ GuardsEnable =>
        /\ Owes("refused") \/ Owes("parked") \/ Owes("subscribe") => ENABLED <<Polled>>_vars
        /\ OwesStart => ENABLED <<WindowSeen>>_vars
        /\ OwesStop => ENABLED <<WindowGone>>_vars
  BY <1>1 DEF Owes, OwesStart, OwesStop, Quiet, GuardsEnable, CoexInv, PCs
<1>6. CoexInv /\ ~Quiet =>
        Owes("refused") \/ Owes("parked") \/ Owes("subscribe") \/ OwesStart \/ OwesStop
  BY <1>1 DEF Owes, OwesStart, OwesStop, Quiet
<1>7. Owes("read") => OwesStart \/ OwesStop
  BY DEF OwesStart, OwesStop
<1> QED BY <1>2, <1>3, <1>4, <1>5, <1>6, <1>7, CoexInvHolds, PTL DEF Spec

(* The peripheral stops when the window it advertises is gone              *)
(* (src/src/wireless.rs:821-829).                                          *)
THEOREM PeripheralStops == Spec /\ []GuardsEnable => StopsWithWindow
<1>1. CoexInv /\ pc = "up" /\ win = "closed" => ~Quiet
  BY DEF CoexInv, WaitsForItsStage, Accepts, Due, Quiet
<1>2. pc # "up" \/ win # "closed" <=> ~(pc = "up" /\ win = "closed")
  OBVIOUS
<1> QED BY <1>1, <1>2, LoopCatchesUp, CoexInvHolds, PTL DEF StopsWithWindow

(* A window that the device opens for itself while the loop waits for one, *)
(* and that stays open, is advertised over BLE.                            *)
THEOREM PeripheralStarts == Spec /\ []GuardsEnable => StartsForOwn
<1> DEFINE Wanted == pc = "waiting" /\ win = "own"
           Served == pc \in {"up", "off"} \/ win # "own"
<1>1. CoexInv /\ Wanted => ~Quiet
  BY DEF CoexInv, WaitsForItsStage, Accepts, Due, Quiet
<1>2. Wanted /\ [Next]_vars => (Wanted \/ Served)'
  BY DEF Next, Begin, WindowSeen, WindowGone, PeripheralReturns, RunEnds, WaitForWindow,
         Polled, WaitStep, Subscribe, Refuse, Park, Wake, WindowChanges, OpenWindow, Open,
         CloseWindow, Close, windowVars, vars, commVars
<1> HIDE DEF Wanted, Served
<1>3. Spec /\ []GuardsEnable => (Wanted ~> Served)
  BY <1>1, <1>2, LoopCatchesUp, CoexInvHolds, PTL DEF Spec
<1> QED BY <1>3 DEF StartsForOwn, Wanted, Served
=============================================================================
