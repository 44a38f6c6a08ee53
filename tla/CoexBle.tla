------------------------------ MODULE CoexBle -------------------------------
(***************************************************************************)
(* The BLE side of concurrent operation: both radios are up, and the GATT  *)
(* peripheral runs only while the device can be commissioned over BLE.     *)
(*                                                                         *)
(* `run_gatt_while_ble_commissionable` (src/src/wireless.rs:787-833) waits *)
(* for a window, runs the peripheral for one the device opened itself, and *)
(* sits out one an administrator opened.  The window is only seen when the *)
(* future is polled, so changes in quick succession are seen as one.       *)
(***************************************************************************)
EXTENDS CommWindow

VARIABLES
  pc,      \* where the loop is
  seen     \* history: `opened` when the loop last saw a window open

vars == <<commVars, pc, seen>>

PCs == { "off",        \* no run in progress
         "waiting",    \* for a window to be open
         "admin",      \* sitting out a window opened over CASE
         "up" }        \* the peripheral runs

TypeOK == WindowTypeOK /\ pc \in PCs /\ seen \in 0..MaxWindows

Init == WindowInit /\ pc = "off" /\ seen = 0

-----------------------------------------------------------------------------
WaitForWindow == pc' = "waiting" /\ StartWait("open")

(* The future of the loop is polled for the first time.                    *)
Begin ==
  /\ pc = "off"
  /\ WaitForWindow
  /\ UNCHANGED <<windowVars, seen>>

(* Mutant: the predicate of closed_task is not negated.                    *)
WindowSeenInverted ==
  /\ pc = "waiting"
  /\ Accepted
  /\ pc' = IF win = "own" THEN "up" ELSE "admin"
  /\ seen' = opened
  /\ StartWait("open")
  /\ UNCHANGED windowVars

(* Mutant: the opener of the window is not looked at.                      *)
WindowSeenAnyOpener ==
  /\ pc = "waiting"
  /\ Accepted
  /\ pc' = "up"
  /\ seen' = opened
  /\ StartWait("not_open")
  /\ UNCHANGED windowVars

(* A window is open; the very state that ended the wait tells whose it is. *)
WindowSeen ==
  /\ pc = "waiting"
  /\ Accepted
  /\ pc' = IF win = "own" THEN "up" ELSE "admin"
  /\ seen' = opened
  /\ StartWait("not_open")
  /\ UNCHANGED windowVars

(* The window has gone: the peripheral, if it runs, is dropped.            *)
WindowGone ==
  /\ pc \in {"admin", "up"}
  /\ Accepted
  /\ WaitForWindow
  /\ UNCHANGED <<windowVars, seen>>

(* The peripheral returns without an error.                                *)
PeripheralReturns ==
  /\ pc = "up"
  /\ WaitForWindow
  /\ UNCHANGED <<windowVars, seen>>

(* It fails, another task of the run ends, or the run is dropped.          *)
RunEnds ==
  /\ pc # "off"
  /\ pc' = "off"
  /\ StopWait
  /\ UNCHANGED <<windowVars, seen>>

Polled == WaitStep /\ UNCHANGED <<pc, seen>>

WindowChanges ==
  /\ \/ \E w \in {"own", "admin"} : OpenWindow(w)
     \/ CloseWindow
  /\ UNCHANGED <<pc, seen>>

Next == \/ Begin \/ WindowSeen \/ WindowGone \/ Polled
        \/ PeripheralReturns \/ RunEnds \/ WindowChanges

Spec == /\ Init
        /\ [][Next]_vars
        /\ WF_vars(Polled)
        /\ WF_vars(WindowSeen)
        /\ WF_vars(WindowGone)

-----------------------------------------------------------------------------
(* Once nothing is left to react to, no open window is overlooked by the   *)
(* loop that waits for one, no window is advertised or sat out that has    *)
(* gone, and the peripheral runs for the window that the loop saw open if  *)
(* and only if it is the device's own.  A later window that took its place *)
(* unseen may be of the other kind, see PeripheralMatchesWindow            *)
(* (src/src/wireless.rs:798-832).                                          *)
SettledAgrees ==
  wpc = "parked" /\ ~dirty =>
    /\ pc = "waiting" => win = "closed"
    /\ pc \in {"up", "admin"} =>
         /\ win # "closed"
         /\ opened = seen => (pc = "up" <=> win = "own")

(* The peripheral stops when the window it advertises is gone.             *)
StopsWithWindow == (pc = "up" /\ win = "closed") ~> (pc # "up" \/ win # "closed")

(* A window the device opens for itself while the loop waits for one, and  *)
(* that stays open, is advertised over BLE.                                *)
StartsForOwn ==
  (pc = "waiting" /\ win = "own") ~> (pc \in {"up", "off"} \/ win # "own")

-----------------------------------------------------------------------------
=============================================================================
