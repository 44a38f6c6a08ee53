----------------------------- MODULE CommWindow -----------------------------
(***************************************************************************)
(* The commissioning window and the one future that waits on it.           *)
(*                                                                         *)
(* `wait_comm_window` (src/src/wireless.rs:871-890) loops: subscribe to    *)
(* the change notification of the transport, read the window state, return *)
(* if the predicate accepts it, otherwise await the subscription.  The     *)
(* window itself lives in rs-matter and changes at any moment.             *)
(***************************************************************************)
EXTENDS Naturals, Windows

CONSTANT MaxWindows      \* bound: windows opened in a behaviour
ASSUME MaxWindowsAssumption == MaxWindows \in Nat

VARIABLES
  win,      \* Matter::comm_window_state: "closed", "own" or "admin"
  opened,   \* windows opened so far: the identity of the current one
  wpc,      \* where the waiting future is; "off" when there is none
  until,    \* the predicate it was given
  dirty     \* a change was signalled since it subscribed

windowVars == <<win, opened>>
waitVars == <<wpc, until, dirty>>
commVars == <<win, opened, wpc, until, dirty>>

WindowTypeOK ==
  /\ win \in WindowStates
  /\ opened \in 0..MaxWindows
  /\ wpc \in {"off", "subscribe", "read", "refused", "parked"}
  /\ until \in Predicates
  /\ dirty \in BOOLEAN

WindowInit ==
  /\ win = "closed"
  /\ opened = 0
  /\ wpc = "off"
  /\ until = "none"
  /\ dirty = FALSE

-----------------------------------------------------------------------------
(* The window.  Every change is signalled to whoever is subscribed.        *)

(* Mutant: the subscription is made only by the await.                     *)
SignalParkedOnly == dirty' = (wpc = "parked" \/ dirty)

Signal == dirty' = (wpc \in {"read", "refused", "parked"} \/ dirty)

Open(w) == /\ win = "closed"
           /\ opened < MaxWindows
           /\ win' = w
           /\ opened' = opened + 1

Close == win # "closed" /\ win' = "closed"

OpenWindow(w) == Open(w) /\ Signal /\ UNCHANGED <<wpc, until>>
CloseWindow == Close /\ Signal /\ UNCHANGED <<opened, wpc, until>>

-----------------------------------------------------------------------------
(* The wait, one action per step of the loop of `wait_comm_window`.        *)

(* The future is polled for the first time.                                *)
StartWait(p) == /\ wpc' = "subscribe"
                /\ until' = p
                /\ dirty' = FALSE

(* The future is dropped, or it returned.                                  *)
StopWait == wpc' = "off" /\ until' = "none" /\ dirty' = FALSE

(* let changed = transport.wait_comm_window_changed()                      *)
Subscribe == /\ wpc = "subscribe"
             /\ wpc' = "read"
             /\ dirty' = FALSE
             /\ UNCHANGED <<win, opened, until>>

(* Mutant: any change at all is taken for the awaited one.                 *)
AcceptedOnAnyChange == wpc = "read" /\ (win \in Accepts[until] \/ dirty)

(* The state is read and the predicate accepts it: the future returns.     *)
(* What the caller does next is part of the same step.                     *)
Accepted == wpc = "read" /\ win \in Accepts[until]

(* The predicate refuses it.                                               *)
Refuse == /\ wpc = "read"
          /\ win \notin Accepts[until]
          /\ wpc' = "refused"
          /\ UNCHANGED <<win, opened, until, dirty>>

(* Mutant: a second subscription, made after the read, replaces the first. *)
ParkResubscribed == /\ wpc = "refused"
                    /\ wpc' = "parked"
                    /\ dirty' = FALSE
                    /\ UNCHANGED <<win, opened, until>>

(* changed.await                                                           *)
Park == /\ wpc = "refused"
        /\ wpc' = "parked"
        /\ UNCHANGED <<win, opened, until, dirty>>

(* The subscription fires: once more around the loop.                      *)
Wake == /\ wpc = "parked"
        /\ dirty
        /\ wpc' = "subscribe"
        /\ UNCHANGED <<win, opened, until, dirty>>

WaitStep == Subscribe \/ Refuse \/ Park \/ Wake

-----------------------------------------------------------------------------
(* A future that has gone to sleep with no change signalled since it       *)
(* subscribed is one whose predicate really refuses the window as it is:   *)
(* the change it waits for cannot already have happened, not even between  *)
(* the read and the await.  This is what subscribing before reading buys   *)
(* (src/src/wireless.rs:879).                                              *)
NoMissedChange == wpc = "parked" /\ ~dirty => win \notin Accepts[until]
=============================================================================
