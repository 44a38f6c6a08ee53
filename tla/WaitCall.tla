------------------------------ MODULE WaitCall ------------------------------
(***************************************************************************)
(* `wait_comm_window` (src/src/wireless.rs:871-890) called on its own, by  *)
(* a caller that asks for any predicate and may drop the call at any time. *)
(***************************************************************************)
EXTENDS CommWindow

VARIABLE answer    \* the state that the last call returned, "none" before

vars == <<commVars, answer>>

TypeOK == WindowTypeOK /\ answer \in WindowStates \union {"none"}

Init == WindowInit /\ answer = "none"

-----------------------------------------------------------------------------
Call(p) == /\ wpc = "off"
           /\ StartWait(p)
           /\ answer' = "none"
           /\ UNCHANGED windowVars

(* break state                                                             *)
Return == /\ Accepted
          /\ StopWait
          /\ answer' = win
          /\ UNCHANGED windowVars

Drop == /\ wpc # "off"
        /\ StopWait
        /\ UNCHANGED <<win, opened, answer>>

Polled == WaitStep /\ UNCHANGED answer

WindowChanges == /\ \/ \E w \in {"own", "admin"} : OpenWindow(w)
                    \/ CloseWindow
                 /\ UNCHANGED answer

Next == \/ \E p \in Predicates \ {"none"} : Call(p)
        \/ Return \/ Drop \/ Polled \/ WindowChanges

(* The executor polls a woken future again, and a poll runs to its next    *)
(* await.                                                                  *)
Spec == Init /\ [][Next]_vars /\ WF_vars(Polled) /\ WF_vars(Return)

-----------------------------------------------------------------------------
(* The subscribing loop implements the atomic wait: it answers with a      *)
(* state that is accepted, at a moment when the window is in that state,   *)
(* and it does answer if an accepted state persists.                       *)
Abstract == INSTANCE WindowWait WITH win <- win, until <- until, answer <- answer
ImplementsWait == Abstract!Spec
=============================================================================
