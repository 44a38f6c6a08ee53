-------------------------- MODULE CommWindowProofs --------------------------
(***************************************************************************)
(* Proofs about the wait for a change of the commissioning window, for     *)
(* every number of windows.                                                *)
(***************************************************************************)
EXTENDS CommWindow, TLAPS

(* A future waits exactly when it has been given a predicate.              *)
Waiting == wpc = "off" <=> until = "none"

(* A refusal stands until a change is signalled.                           *)
RefusalStands == wpc = "refused" /\ ~dirty => win \notin Accepts[until]

WaitInv == WindowTypeOK /\ Waiting /\ RefusalStands /\ NoMissedChange

(* The steps of the loop, on their own or in a composed specification,     *)
(* preserve the invariant of the wait.                                     *)
LEMMA WaitStepKeepsWaitInv == WaitInv /\ WaitStep => WaitInv'
  BY DEF WaitInv, WindowTypeOK, Waiting, RefusalStands, NoMissedChange, WaitStep, Subscribe, Refuse, Park, Wake

(* So does a change of the window: it is signalled.                        *)
LEMMA OpenKeepsWaitInv ==
  ASSUME WaitInv, NEW w \in {"own", "admin"}, OpenWindow(w)
  PROVE  WaitInv' /\ UNCHANGED <<wpc, until>>
<1> USE MaxWindowsAssumption
<1>1. WindowTypeOK'
  BY DEF WaitInv, WindowTypeOK, WindowStates, OpenWindow, Open, Signal
<1>2. Waiting' /\ RefusalStands' /\ NoMissedChange'
  BY DEF WaitInv, WindowTypeOK, Waiting, RefusalStands, NoMissedChange, OpenWindow, Open, Signal
<1> QED BY <1>1, <1>2 DEF WaitInv, OpenWindow

(* And when it closes.                                                     *)
LEMMA CloseKeepsWaitInv ==
  ASSUME WaitInv, CloseWindow
  PROVE  WaitInv' /\ UNCHANGED <<opened, wpc, until>>
  BY DEF WaitInv, WindowTypeOK, WindowStates, Waiting, RefusalStands, NoMissedChange, CloseWindow,
         Close, Signal

(* A wait that begins or ends in a step leaves nothing to be missed.       *)
LEMMA StartKeepsWaitInv ==
  ASSUME WaitInv, NEW p \in Predicates \ {"none"}, StartWait(p), UNCHANGED windowVars
  PROVE  WaitInv'
  BY DEF WaitInv, WindowTypeOK, Waiting, RefusalStands, NoMissedChange, StartWait, windowVars

(* A wait that is dropped leaves nothing behind.                           *)
LEMMA StopKeepsWaitInv ==
  ASSUME WaitInv, StopWait, win' \in WindowStates, UNCHANGED opened
  PROVE  WaitInv'
  BY DEF WaitInv, WindowTypeOK, Predicates, Waiting, RefusalStands, NoMissedChange, StopWait

(* Steps of other parts of a composition leave the wait alone.             *)
LEMMA StutterKeepsWaitInv == WaitInv /\ UNCHANGED commVars => WaitInv'
  BY DEF WaitInv, WindowTypeOK, Waiting, RefusalStands, NoMissedChange, commVars

(* At boot nobody waits.                                                   *)
LEMMA InitWaitInv == WindowInit => WaitInv
<1> SUFFICES ASSUME WindowInit PROVE WaitInv
  OBVIOUS
<1>1. WindowTypeOK
  BY MaxWindowsAssumption, 0 \in 0..MaxWindows
  DEF WindowInit, WindowTypeOK, WindowStates, Predicates
<1>2. Waiting /\ RefusalStands /\ NoMissedChange
  BY DEF WindowInit, Waiting, RefusalStands, NoMissedChange
<1> QED BY <1>1, <1>2 DEF WaitInv

-----------------------------------------------------------------------------
(* Progress of the wait.                                                   *)

(* The window is in a state that the wait is for.                          *)
Due == win \in Accepts[until]

(* There is a step of the loop to take: the guard of WaitStep.             *)
Pollable == \/ wpc \in {"subscribe", "refused"}
            \/ wpc = "parked" /\ dirty
            \/ wpc = "read" /\ win \notin Accepts[until]

(* A wait that is due is about to return, or has a step to take: it is not *)
(* asleep without the notification that wakes it.                          *)
LEMMA DueIsPollable == WaitInv /\ Due => Accepted \/ Pollable
  BY DEF WaitInv, WindowTypeOK, Waiting, NoMissedChange, Due, Accepts, Accepted, Pollable

(* What a due wait does next, stage by stage: it is only ever nearer to    *)
(* the read at which it returns.                                           *)
Nearer ==
  /\ wpc = "refused" => wpc' \in {"refused", "parked"}
  /\ wpc = "parked" => wpc' \in {"parked", "subscribe"}
  /\ wpc = "subscribe" => wpc' \in {"subscribe", "read"}
  /\ wpc = "read" => wpc' = "read"

(* Steps of others, the window's included, do not move the wait; its own   *)
(* steps move it on, and cannot refuse what is due.                        *)
LEMMA DueNearer ==
  ASSUME Due, WaitStep \/ UNCHANGED wpc
  PROVE  Nearer
  BY DEF Due, WaitStep, Subscribe, Refuse, Park, Wake, Nearer

(* Each step of its own brings it to the next stage.                       *)
LEMMA DueStepMoves ==
  ASSUME Due, WaitStep
  PROVE  /\ wpc = "refused" => wpc' = "parked"
         /\ wpc = "parked" => wpc' = "subscribe"
         /\ wpc = "subscribe" => wpc' = "read"
         /\ wpc # "read"
  BY DEF Due, WaitStep, Subscribe, Refuse, Park, Wake
=============================================================================
