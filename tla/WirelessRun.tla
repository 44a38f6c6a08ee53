---------------------------- MODULE WirelessRun -----------------------------
(***************************************************************************)
(* Non-concurrent wireless operation: one radio that carries either BLE or *)
(* the operational network.                                                *)
(*                                                                         *)
(* `run_wifi` (src/src/wireless/wifi.rs:212-270) and `run_thread`          *)
(* (src/src/wireless/thread.rs:213-282) alternate a BLE phase, entered     *)
(* when the device's own commissioning window is open, with an operational *)
(* phase.  The commissioner hands the network credentials over in the BLE  *)
(* phase; the connect it asks for is deferred and replayed when the        *)
(* operational phase comes up, and the commissioning completes there.      *)
(* Each phase builds its own Interaction Model (IM) over state that        *)
(* outlives it: the networks store, the verdict of the last connect and    *)
(* the `im_hydrated` flag.                                                 *)
(***************************************************************************)
EXTENDS CommWindow, FiniteSets

CONSTANT Nets            \* the wireless networks a commissioner may add
CONSTANT None            \* "no network"
ASSUME NetsAssumption == None \notin Nets

VARIABLES
  phase,     \* where the run loop is, see Phases
  im,        \* the IM of the current phase, see ImStates
  hydrated,  \* the flag MatterStack.im_hydrated
  prov,      \* oper_net_act_task of run_btp: "off", "poll" or "delay"
  verdict,   \* NetCtlState: the network the last connect succeeded for
  networks,  \* the networks store in memory
  stored,    \* the networks store in the KV store
  armed,     \* the failsafe is armed
  fabric,    \* the device is commissioned (persisted)
  loaded,    \* history: this boot's re-hydration really happened
  granted,   \* history: networks added under the armed failsafe
  pending,   \* history: the deferred connect not yet replayed
  joined,    \* history: the network that was last connected to
  entry      \* history: `opened` when the operational phase was entered

runVars == <<phase, im, prov, entry>>
credVars == <<networks, stored, armed, fabric, granted>>
flagVars == <<hydrated, loaded>>
verdictVars == <<verdict, pending, joined>>
vars == <<commVars, runVars, credVars, flagVars, verdictVars>>

Phases == { "boot",       \* powered up, MatterStack::startup not called
            "ready",      \* no run in progress
            "check",      \* head of the loop of run_wifi / run_thread
            "ble_up",     \* Gatt::run: the driver brings BLE up
            "ble",        \* GattTask::run
            "oper_up",    \* Wifi::run: the driver brings the network up
            "connect",    \* WifiTask::run: the deferred connect
            "oper" }      \* WifiTask::run: the operational phase

ImStates == { "none", "new", "loading", "running" }

TypeOK ==
  /\ WindowTypeOK
  /\ phase \in Phases
  /\ im \in ImStates
  /\ prov \in {"off", "poll", "delay"}
  /\ verdict \in Nets \union {None}
  /\ networks \in SUBSET Nets
  /\ stored \in SUBSET Nets
  /\ granted \in SUBSET Nets
  /\ pending \in Nets \union {None}
  /\ joined \in Nets \union {None}
  /\ entry \in 0..MaxWindows
  /\ <<hydrated, loaded, armed, fabric>> \in BOOLEAN \X BOOLEAN \X BOOLEAN \X BOOLEAN

Init ==
  /\ WindowInit
  /\ phase = "boot"
  /\ im = "none"
  /\ prov = "off"
  /\ verdict = None
  /\ networks = {}
  /\ stored \in SUBSET Nets
  /\ fabric = (stored # {})
  /\ armed = FALSE
  /\ hydrated = FALSE
  /\ loaded = FALSE
  /\ granted = {}
  /\ pending = None
  /\ joined = None
  /\ entry = 0

-----------------------------------------------------------------------------
(* Boot.                                                                   *)

(* MatterStack::startup: open the own window if there are no fabrics.      *)
Startup ==
  /\ phase = "boot"
  /\ phase' = "ready"
  /\ \/ ~fabric /\ OpenWindow("own")
     \/ (fabric \/ opened = MaxWindows) /\ UNCHANGED commVars
  /\ UNCHANGED <<im, prov, entry, credVars, flagVars, verdictVars>>

(* Power is lost: what is not in the KV store is gone.                     *)
Crash ==
  /\ phase # "boot"
  /\ phase' = "boot"
  /\ win' = "closed"
  /\ StopWait
  /\ im' = "none"
  /\ prov' = "off"
  /\ verdict' = None
  /\ networks' = {}
  /\ armed' = FALSE
  /\ hydrated' = FALSE
  /\ loaded' = FALSE
  /\ granted' = {}
  /\ pending' = None
  /\ joined' = None
  /\ entry' = 0
  /\ UNCHANGED <<opened, stored, fabric>>

(* Run is called; the lock is free and the transport is reset.             *)
Run ==
  /\ phase = "ready"
  /\ phase' = "check"
  /\ UNCHANGED <<commVars, im, prov, entry, credVars, flagVars, verdictVars>>

(* The futures of a phase are dropped when its select returns.             *)
DropPhase == StopWait /\ im' = "none" /\ prov' = "off"

(* A driver or a task of the phase fails and run returns the error, or the *)
(* application drops the future of run.                                    *)
RunEnds ==
  /\ phase \notin {"boot", "ready"}
  /\ phase' = "ready"
  /\ DropPhase
  /\ UNCHANGED <<windowVars, entry, credVars, flagVars, verdictVars>>

(* Mutant: the verdict of the previous commissioning is not forgotten.     *)
CheckWindowKeepsVerdict ==
  /\ phase = "check"
  /\ phase' = IF win = "own" THEN "ble_up" ELSE "oper_up"
  /\ pending' = IF win = "own" THEN None ELSE pending
  /\ UNCHANGED <<commVars, im, prov, entry, credVars, flagVars, verdict, joined>>

(* The loop looks at the window once per turn, and forgets the previous    *)
(* verdict before every BLE phase.                                         *)
CheckWindow ==
  /\ phase = "check"
  /\ \/ /\ win = "own"
        /\ phase' = "ble_up"
        /\ verdict' = None
        /\ pending' = None
        /\ UNCHANGED joined
     \/ /\ win # "own"
        /\ phase' = "oper_up"
        /\ UNCHANGED verdictVars
  /\ UNCHANGED <<commVars, im, prov, entry, credVars, flagVars>>

-----------------------------------------------------------------------------
(* The Interaction Model of a phase (lib.rs: run_im, startup_im).          *)

(* Mutant: every IM re-hydrates.                                           *)
ImStartAlwaysLoads ==
  /\ im = "new"
  /\ im' = "loading"
  /\ hydrated' = TRUE
  /\ UNCHANGED <<commVars, phase, prov, entry, credVars, loaded, verdictVars>>

(* Only the first IM that runs re-hydrates; the flag is set first.         *)
ImStart ==
  /\ im = "new"
  /\ im' = IF hydrated THEN "running" ELSE "loading"
  /\ hydrated' = TRUE
  /\ UNCHANGED <<commVars, phase, prov, entry, credVars, loaded, verdictVars>>

(* The handlers get the Startup op and load the networks store.  A failure *)
(* to load is RunEnds.                                                     *)
ImLoaded ==
  /\ im = "loading"
  /\ im' = "running"
  /\ networks' = stored
  /\ loaded' = TRUE
  /\ UNCHANGED <<commVars, phase, prov, entry, hydrated, stored, armed, fabric,
                 granted, verdictVars>>

-----------------------------------------------------------------------------
(* The BLE phase (wireless.rs: run_btp).                                   *)

BleUp ==
  /\ phase = "ble_up"
  /\ phase' = "ble"
  /\ im' = "new"
  /\ prov' = "poll"
  /\ StartWait("not_own")
  /\ UNCHANGED <<windowVars, entry, credVars, flagVars, verdictVars>>

EndBle ==
  /\ phase = "ble"
  /\ phase' = "oper_up"
  /\ DropPhase
  /\ UNCHANGED <<windowVars, entry, credVars, flagVars, verdictVars>>

(* Mutant: waits for credentials that are persisted, not just selected.    *)
ProvReadyWhenStored ==
  /\ prov = "poll"
  /\ verdict \in stored
  /\ prov' = "delay"
  /\ UNCHANGED <<commVars, phase, im, entry, credVars, flagVars, verdictVars>>

(* oper_net_act_task: wait_prov_ready returns, as the credentials have     *)
(* been handed over.  It is rs-matter's and is given the BTP too: what it  *)
(* asks of that is external, and assumed not to hold it up for ever ...    *)
ProvReady ==
  /\ prov = "poll"
  /\ verdict # None
  /\ prov' = "delay"
  /\ UNCHANGED <<commVars, phase, im, entry, credVars, flagVars, verdictVars>>

(* ... and two seconds later the BLE phase is over.                        *)
HandOver == prov = "delay" /\ EndBle

(* comm_window_task: the window this phase advertises is gone.             *)
BleWindowGone == Accepted /\ EndBle

(* One of the other tasks returns without an error.                        *)
BleTaskReturns == EndBle

-----------------------------------------------------------------------------
(* The operational phase (WifiTask::run, ThreadTask::run).                 *)

(* Mutant: the window of the commissioning in progress counts as new.      *)
EnterOperWaitsOwn ==
  /\ phase' = "oper"
  /\ im' = "new"
  /\ entry' = opened
  /\ StartWait("own")
  /\ UNCHANGED <<windowVars, prov>>

EnterOper ==
  /\ phase' = "oper"
  /\ im' = "new"
  /\ entry' = opened
  /\ StartWait("not_own")
  /\ UNCHANGED <<windowVars, prov>>

(* Mutant: the connection manager is trusted to connect.                   *)
OperUpSkipsConnect ==
  /\ phase = "oper_up"
  /\ EnterOper
  /\ UNCHANGED <<credVars, flagVars, verdictVars>>

(* The driver is up.  is_prov_ready tells whether a connect was deferred.  *)
OperUp ==
  /\ phase = "oper_up"
  /\ \/ /\ verdict # None
        /\ phase' = "connect"
        /\ UNCHANGED <<commVars, im, prov, entry>>
     \/ verdict = None /\ EnterOper
  /\ UNCHANGED <<credVars, flagVars, verdictVars>>

(* Mutant: connects to any network of the store, not to the selected one.  *)
ConnectOnceAny ==
  /\ phase = "connect"
  /\ \/ /\ EnterOper
        /\ pending' = None
        /\ joined' \in networks
        /\ UNCHANGED verdict
     \/ /\ phase' = "ready"
        /\ verdict' = None
        /\ pending' = None
        /\ UNCHANGED <<commVars, im, prov, entry, joined>>
  /\ UNCHANGED <<credVars, flagVars>>

(* connect_once.  If it fails run ends with the error, and the verdict is  *)
(* overwritten; if the network has been removed nothing is tried, run ends *)
(* as well, and the verdict stays.                                         *)
ConnectOnce ==
  /\ phase = "connect"
  /\ \/ /\ verdict \in networks
        /\ EnterOper
        /\ pending' = None
        /\ joined' = verdict
        /\ UNCHANGED verdict
     \/ /\ phase' = "ready"
        /\ \/ /\ verdict \in networks
              /\ verdict' = None
              /\ pending' = None
              /\ UNCHANGED joined
           \/ verdict \notin networks /\ UNCHANGED verdictVars
        /\ UNCHANGED <<commVars, im, prov, entry>>
  /\ UNCHANGED <<credVars, flagVars>>

(* wait_next_comm_window: the window of the commissioning this phase is    *)
(* finishing has gone; now wait for the next one.                          *)
EntryWindowGone ==
  /\ phase = "oper"
  /\ until = "not_own"
  /\ Accepted
  /\ StartWait("own")
  /\ UNCHANGED <<windowVars, runVars, credVars, flagVars, verdictVars>>

EndOper ==
  /\ phase = "oper"
  /\ phase' = "check"
  /\ DropPhase
  /\ UNCHANGED <<windowVars, entry, credVars, flagVars, verdictVars>>

(* A new window has to be advertised over BLE: the radio is handed back.   *)
HandBack == until = "own" /\ Accepted /\ EndOper

(* The user task, or another task of the phase, returns without an error.  *)
OperTaskReturns == EndOper

-----------------------------------------------------------------------------
(* What the commissioner, an administrator and rs-matter do meanwhile.     *)

Served == im = "running"

ArmFailSafe ==
  /\ Served
  /\ ~armed
  /\ armed' = TRUE
  /\ UNCHANGED <<commVars, runVars, networks, stored, fabric, granted, flagVars,
                 verdictVars>>

(* AddOrUpdateNetwork: in memory only while the failsafe is armed.         *)
AddNetwork(n) ==
  /\ Served
  /\ armed
  /\ networks' = networks \union {n}
  /\ granted' = granted \union {n}
  /\ UNCHANGED <<commVars, runVars, stored, armed, fabric, flagVars, verdictVars>>

RemoveNetwork(n) ==
  /\ Served
  /\ armed
  /\ n \in networks
  /\ networks' = networks \ {n}
  /\ granted' = granted \ {n}
  /\ UNCHANGED <<commVars, runVars, stored, armed, fabric, flagVars, verdictVars>>

(* ConnectNetwork in the BLE phase only checks that the credentials are of *)
(* the right kind; the connect itself is deferred.                         *)
DeferConnect(n) ==
  /\ Served
  /\ phase = "ble"
  /\ armed
  /\ n \in networks
  /\ verdict' = n
  /\ pending' = n
  /\ UNCHANGED <<commVars, runVars, credVars, flagVars, joined>>

(* A scan, or a connect that is refused: the verdict is overwritten.       *)
RefuseRequest ==
  /\ Served
  /\ verdict # None
  /\ verdict' = None
  /\ pending' = None
  /\ UNCHANGED <<commVars, runVars, credVars, flagVars, joined>>

(* A connect over the operational network: the commissioner's, or that of  *)
(* the connection manager, which is dormant until commissioned.            *)
ConnectOper(n) ==
  /\ Served
  /\ phase = "oper"
  /\ fabric \/ armed
  /\ n \in networks
  /\ verdict' = n
  /\ joined' = n
  /\ UNCHANGED <<commVars, runVars, credVars, flagVars, pending>>

(* CommissioningComplete arrives over the operational network: everything  *)
(* is persisted and the window closes.                                     *)
CommissioningComplete ==
  /\ Served
  /\ phase = "oper"
  /\ armed
  /\ armed' = FALSE
  /\ fabric' = TRUE
  /\ stored' = networks
  /\ granted' = {}
  /\ IF win = "closed" THEN UNCHANGED commVars ELSE CloseWindow
  /\ UNCHANGED <<runVars, networks, flagVars, verdictVars>>

(* The failsafe expires: what was not persisted is rolled back.            *)
FailSafeExpires ==
  /\ Served
  /\ armed
  /\ armed' = FALSE
  /\ networks' = stored
  /\ granted' = {}
  /\ UNCHANGED <<commVars, runVars, stored, fabric, flagVars, verdictVars>>

(* The application opens its own window at any time; an administrator      *)
(* opens one over CASE; a window expires or is revoked.                    *)
WindowChanges ==
  /\ phase # "boot"
  /\ \/ OpenWindow("own")
     \/ phase = "oper" /\ Served /\ fabric /\ OpenWindow("admin")
     \/ CloseWindow
  /\ UNCHANGED <<runVars, credVars, flagVars, verdictVars>>

-----------------------------------------------------------------------------
Polled == WaitStep /\ UNCHANGED <<runVars, credVars, flagVars, verdictVars>>

StackStep == \/ CheckWindow \/ BleUp \/ OperUp \/ ImStart \/ ImLoaded
             \/ ProvReady \/ HandOver \/ BleWindowGone \/ ConnectOnce
             \/ EntryWindowGone \/ HandBack \/ Polled

Ending == Startup \/ Crash \/ Run \/ RunEnds \/ BleTaskReturns \/ OperTaskReturns

Outside == \/ ArmFailSafe \/ CommissioningComplete \/ FailSafeExpires
           \/ RefuseRequest \/ WindowChanges
           \/ \E n \in Nets : \/ AddNetwork(n) \/ RemoveNetwork(n)
                              \/ DeferConnect(n) \/ ConnectOper(n)

Next == StackStep \/ Ending \/ Outside

(* The executor keeps polling the futures that are ready: the tasks of a   *)
(* phase each proceed on their own.  Nothing is assumed of the drivers,    *)
(* the application or the commissioner.                                    *)
Spec == Init /\ [][Next]_vars
FairSpec ==
  /\ Spec
  /\ WF_vars(Polled)
  /\ WF_vars(BleWindowGone)
  /\ WF_vars(ProvReady)
  /\ WF_vars(HandOver)
  /\ WF_vars(EntryWindowGone)
  /\ WF_vars(HandBack)

-----------------------------------------------------------------------------
(* Safety.                                                                 *)

(* Credentials that a commissioner has handed over, and that the armed     *)
(* failsafe keeps from being persisted, survive the switch from BLE to the *)
(* operational network: the second Interaction Model does not re-load the  *)
(* networks store over them (src/src/lib.rs:266-270).                      *)
CredentialsKept == granted \subseteq networks

(* In a BLE phase a positive verdict is that of a ConnectNetwork of this   *)
(* very phase.  One left over from an earlier commissioning would end the  *)
(* phase at once (src/src/wireless.rs:852-860).                            *)
VerdictOfThisAttempt == phase = "ble" /\ verdict # None => pending = verdict

(* A deferred connect has been replayed before the operational phase       *)
(* serves anything, so before CommissioningComplete                        *)
(* (src/src/wireless/wifi.rs:549-556).                                     *)
ReplayedFirst == phase = "oper" => pending = None

(* Only a window opened after the operational phase was entered takes the  *)
(* radio back to BLE; the one still open from the commissioning that this  *)
(* phase finishes does not (src/src/wireless.rs:835-844).                  *)
NoBounce == phase = "oper" /\ until = "own" /\ win = "own" => opened > entry

(* No task of a phase sleeps for a notification that has been given        *)
(* already: whenever the window has made the phase due for a change, or a  *)
(* connect has been deferred, one of the tasks that see to it can take its *)
(* next step now (src/src/wireless.rs:753-775, 845-890).                   *)
NeverStuck ==
  /\ phase = "ble" /\ win # "own" =>
       ENABLED <<Polled>>_vars \/ ENABLED <<BleWindowGone>>_vars
  /\ phase = "ble" /\ pending # None =>
       ENABLED <<ProvReady>>_vars \/ ENABLED <<HandOver>>_vars
  /\ phase = "oper" /\ win \in Accepts[until] =>
       \/ ENABLED <<Polled>>_vars
       \/ ENABLED <<EntryWindowGone>>_vars
       \/ ENABLED <<HandBack>>_vars

-----------------------------------------------------------------------------
(* Liveness, up to the end of the run.                                     *)

(* BLE does not stay up for a window that is gone (src/src/wireless.rs:    *)
(* 753-763).                                                               *)
BleStopsWithoutWindow ==
  (phase = "ble" /\ win # "own") ~> (phase # "ble" \/ win = "own")

(* Handed-over credentials take the radio to the operational network       *)
(* (src/src/wireless.rs:765-775).                                          *)
HandOverHappens ==
  (phase = "ble" /\ pending # None) ~> (phase # "ble" \/ pending = None)

(* Once the phase has seen that no own window is open, and waits for the   *)
(* next one, a window that opens and stays open brings the radio back to   *)
(* BLE (src/src/wireless.rs:848-849).  NewWindowHandsBack below is what    *)
(* the doc says, without that condition.                                   *)
AwaitedWindowHandsBack ==
  (phase = "oper" /\ until = "own" /\ win = "own")
     ~> (phase # "oper" \/ win # "own")

-----------------------------------------------------------------------------
(* The run loop, with its two Interaction Models, the drivers and tasks,   *)
(* the verdict and the hydration flag, is a device with one radio that     *)
(* hands itself over: no switch of phase loses what the commissioner has   *)
(* given, a connect asked for over BLE is performed, and for the network   *)
(* that was asked for, before anything is served on the operational        *)
(* network, or given up together with the run, and BLE is let go for it;   *)
(* without one no other network is joined (src/src/wireless.rs:744-775,    *)
(* src/src/wireless/wifi.rs:549-567).                                      *)
Radio == IF phase \in {"ble", "oper"} THEN phase ELSE "none"

Abstract == INSTANCE RadioHandOver WITH
              radio <- Radio, asked <- pending, known <- networks, kept <- stored,
              joined <- joined

ImplementsHandOver == Abstract!Spec

-----------------------------------------------------------------------------
(* What comments of the code say, and the code does not keep.              *)

(* "whether the Interaction Model state ... have already been re-hydrated" *)
(* (src/src/lib.rs:255-257): an IM that skips the re-hydration because the *)
(* flag is set runs over state that has been re-hydrated.                  *)
HydratedMeansLoaded == im = "running" => loaded

(* "Resolve once a commissioning window that has to be advertised on every *)
(* transport *appears*", and "let the current window go away first, and    *)
(* only then wait for the next one" (src/src/wireless.rs:835-843): an      *)
(* operational phase that waits for its entry window to go away is ended,  *)
(* or does not stay there while a newer own window stays open.             *)
NewWindowHandsBack ==
  [](phase = "oper" /\ wpc = "parked" /\ win = "own" /\ opened = entry
       => \/ <>(phase # "oper")
          \/ (win = "own" /\ opened > entry) ~> (win # "own"))

(* "`is_prov_ready()` is true only in this pending non-concurrent case"    *)
(* (src/src/wireless/thread.rs:575-577): the connect that is replayed is   *)
(* one that a BLE phase deferred and nothing has replayed yet.             *)
OnlyPendingReplayed == phase = "connect" => pending = verdict
=============================================================================
