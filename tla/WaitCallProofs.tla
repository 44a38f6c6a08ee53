--------------------------- MODULE WaitCallProofs ---------------------------
(***************************************************************************)
(* Proofs about `wait_comm_window` called by an arbitrary caller, for      *)
(* every number of windows.                                                *)
(***************************************************************************)
EXTENDS WaitCall, CommWindowProofs

CallInv == WaitInv /\ TypeOK

(* Every step of the wait with an arbitrary caller.                        *)
LEMMA NextCallInv == CallInv /\ [Next]_vars => CallInv'
<1> SUFFICES ASSUME CallInv, [Next]_vars PROVE CallInv'
  OBVIOUS
<1> USE DEF CallInv
<1>1. WaitInv'
  <2>1. CASE \E p \in Predicates \ {"none"} : Call(p)
    BY <2>1, StartKeepsWaitInv DEF Call
  <2>2. CASE Return \/ Drop
    <3>1. win' \in WindowStates /\ UNCHANGED opened /\ StopWait
      BY <2>2 DEF WaitInv, WindowTypeOK, Return, Drop, windowVars
    <3> QED BY <3>1, StopKeepsWaitInv
  <2>3. CASE Polled
    BY <2>3, WaitStepKeepsWaitInv DEF Polled
  <2>4. CASE WindowChanges
    BY <2>4, OpenKeepsWaitInv, CloseKeepsWaitInv DEF WindowChanges
  <2>5. CASE UNCHANGED vars
    BY <2>5, StutterKeepsWaitInv DEF vars
  <2> QED BY <2>1, <2>2, <2>3, <2>4, <2>5 DEF Next
<1>2. answer' \in WindowStates \union {"none"}
  BY DEF TypeOK, WindowTypeOK, Next, Call, Return, Drop, Polled, WindowChanges, vars
<1> QED BY <1>1, <1>2 DEF TypeOK, WaitInv

(* The invariant of the wait: it parks only on a refused window, unless a  *)
(* change was signalled since it subscribed (src/src/wireless.rs:871-890). *)
THEOREM CallInvHolds == Spec => []CallInv
<1>1. Init => CallInv
  BY InitWaitInv DEF Init, CallInv, TypeOK, WaitInv
<1> QED BY <1>1, NextCallInv, PTL DEF Spec

(* The waiter never sleeps through the change it waits for, however many   *)
(* windows are opened and closed around it.                                *)
THEOREM WaitMissesNothing == Spec => []NoMissedChange
<1>1. CallInv => NoMissedChange
  BY DEF CallInv, WaitInv
<1> QED BY <1>1, CallInvHolds, PTL

-----------------------------------------------------------------------------
(* Every step of the loop is, to its caller, a step of the atomic wait or  *)
(* a stutter: it answers only with a state that the predicate accepts.     *)
LEMMA StepImplements ==
  ASSUME CallInv, [Next]_vars
  PROVE  [Abstract!Next]_(Abstract!vars)
<1> USE DEF CallInv
<1>1. CASE \E p \in Predicates \ {"none"} : Call(p)
  BY <1>1 DEF Call, StartWait, windowVars, WaitInv, Waiting, Predicates,
              Abstract!Next, Abstract!Begin, Abstract!Predicates
<1>2. CASE Return
  BY <1>2 DEF Return, Accepted, Accepts, StopWait, windowVars, Abstract!Next,
              Abstract!Resolve, Abstract!Accepts
<1>3. CASE Drop
  BY <1>3 DEF Drop, StopWait, WaitInv, Waiting, Abstract!Next, Abstract!Drop
<1>4. CASE Polled
  BY <1>4 DEF Polled, WaitStep, Subscribe, Refuse, Park, Wake, Abstract!vars
<1>5. CASE WindowChanges
  BY <1>5 DEF WindowChanges, OpenWindow, Open, CloseWindow, Close, Abstract!Next,
              Abstract!Change, Abstract!WindowStates
<1>6. CASE UNCHANGED vars
  BY <1>6 DEF vars, commVars, Abstract!vars
<1> QED BY <1>1, <1>2, <1>3, <1>4, <1>5, <1>6 DEF Next

(* The safety part of the refinement: WaitCall implements WindowWait up to *)
(* fairness (src/src/wireless.rs:871-890).                                 *)
THEOREM ImplementsWaitSafety ==
  Spec => Abstract!Init /\ [][Abstract!Next]_(Abstract!vars)
<1>1. Init => Abstract!Init
  BY DEF Init, WindowInit, Abstract!Init
<1> QED BY <1>1, StepImplements, CallInvHolds, PTL DEF Spec

-----------------------------------------------------------------------------
(* Liveness.  The prover does not look into ENABLED: what it amounts to,   *)
(* for the steps of the wait and for the step that returns, is a           *)
(* hypothesis, and the only one.  It is true by the definitions of the     *)
(* actions, whose guards are all that they demand of the state they start  *)
(* from.                                                                   *)
GuardsEnable ==
  /\ Pollable => ENABLED <<Polled>>_vars
  /\ Accepted => ENABLED <<Return>>_vars
  /\ ENABLED <<Abstract!Resolve>>_(Abstract!vars) => Due

(* A call is due, and at stage s of its loop.                              *)
Owes(s) == Due /\ wpc = s

(* It goes on, stage by stage, until it has returned or been dropped, or   *)
(* the window has left the accepted states.                                *)
LEMMA CallGoesOn ==
  ASSUME CallInv, [Next]_vars, Due, Due'
  PROVE  Nearer
<1>1. WaitStep \/ UNCHANGED wpc
  <2>1. CASE \E p \in Predicates \ {"none"} : Call(p)
    BY <2>1 DEF Call, CallInv, WaitInv, Waiting, Due, Accepts
  <2>2. CASE Return \/ Drop
    BY <2>2 DEF Return, Drop, StopWait, Due, Accepts
  <2> QED BY <2>1, <2>2 DEF Next, Polled, WindowChanges, OpenWindow, CloseWindow, vars, commVars
<1> QED BY <1>1, DueNearer

(* A call whose predicate accepts the window returns, if the window stays  *)
(* so: the notification that it waits for has come, and every turn of the  *)
(* loop brings it nearer (src/src/wireless.rs:871-890).                    *)
THEOREM CallReturns == Spec /\ []GuardsEnable => (Due ~> ~Due)
<1>1. CallInv /\ Due =>
        /\ wpc \in {"refused", "parked", "subscribe", "read"}
        /\ wpc # "read" => Pollable
        /\ wpc = "read" => Accepted
  BY DueIsPollable DEF CallInv, WaitInv, WindowTypeOK, Waiting, Due, Accepts, Accepted
<1>2. CallInv /\ [Next]_vars =>
        /\ Owes("refused") => (Owes("refused") \/ Owes("parked") \/ ~Due)'
        /\ Owes("parked") => (Owes("parked") \/ Owes("subscribe") \/ ~Due)'
        /\ Owes("subscribe") => (Owes("subscribe") \/ Owes("read") \/ ~Due)'
        /\ Owes("read") => (Owes("read") \/ ~Due)'
  BY CallGoesOn DEF Owes, Nearer
<1>3. <<Polled>>_vars =>
        /\ Owes("refused") => (Owes("parked") \/ ~Due)'
        /\ Owes("parked") => (Owes("subscribe") \/ ~Due)'
        /\ Owes("subscribe") => (Owes("read") \/ ~Due)'
  BY DueStepMoves DEF Owes, Polled
<1>4. <<Return>>_vars => ~Due'
  BY DEF Return, StopWait, Due, Accepts
<1>5. CallInv /\ GuardsEnable =>
        /\ Owes("refused") \/ Owes("parked") \/ Owes("subscribe") => ENABLED <<Polled>>_vars
        /\ Owes("read") => ENABLED <<Return>>_vars
  BY <1>1 DEF Owes, GuardsEnable
<1>6. CallInv /\ Due =>
        Owes("refused") \/ Owes("parked") \/ Owes("subscribe") \/ Owes("read")
  BY <1>1 DEF Owes
<1> QED BY <1>2, <1>3, <1>4, <1>5, <1>6, CallInvHolds, PTL DEF Spec

(* The whole refinement, fairness included: the subscribing loop is the    *)
(* atomic wait of WindowWait (src/src/wireless.rs:871-890).                *)
THEOREM ImplementsTheWait == Spec /\ []GuardsEnable => ImplementsWait
<1>1. GuardsEnable /\ ~Due => ~ENABLED <<Abstract!Resolve>>_(Abstract!vars)
  BY DEF GuardsEnable
<1> QED
  BY <1>1, CallReturns, ImplementsWaitSafety, PTL DEF ImplementsWait, Abstract!Spec
=============================================================================
