----------------------------- MODULE WindowWait -----------------------------
(***************************************************************************)
(* What `MatterStack::wait_comm_window` promises its caller                *)
(* (src/src/wireless.rs:871-890), with the subscription to the change      *)
(* notification abstracted away: the call answers, in one step, with the   *)
(* state that the commissioning window is in, one its predicate accepts,   *)
(* and it does answer if such a state persists.  WaitCall implements this  *)
(* specification.                                                          *)
(***************************************************************************)
EXTENDS Windows

VARIABLES
  win,      \* the commissioning window of the Matter object
  until,    \* the predicate waited for, "none" when nobody waits
  answer    \* the state that the last call returned, "none" before

vars == <<win, until, answer>>

Init == win = "closed" /\ until = "none" /\ answer = "none"

(* The window is opened or closed: by the device, by an administrator, by  *)
(* its timer or by the end of the commissioning.                           *)
Change == /\ \E w \in WindowStates : w # win /\ win' = w
          /\ UNCHANGED <<until, answer>>

Begin(p) == /\ until = "none"
            /\ until' = p
            /\ answer' = "none"
            /\ UNCHANGED win

(* The wait returns, and it returns only now: in an accepted state.        *)
Resolve == /\ win \in Accepts[until]
           /\ until' = "none"
           /\ answer' = win
           /\ UNCHANGED win

(* The caller drops the future that waits.                                 *)
Drop == /\ until # "none"
        /\ until' = "none"
        /\ UNCHANGED <<win, answer>>

Next == \/ Change
        \/ \E p \in Predicates \ {"none"} : Begin(p)
        \/ Resolve
        \/ Drop

Spec == Init /\ [][Next]_vars /\ WF_vars(Resolve)
=============================================================================
