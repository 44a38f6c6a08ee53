----------------------------- MODULE Lifecycle ------------------------------
(***************************************************************************)
(* The stack over boots, runs and factory resets, with a store that may    *)
(* fail and power that may be lost at any time.                            *)
(*                                                                         *)
(* `startup` loads the fabrics; the first Interaction Model (IM) that a    *)
(* run builds loads the rest; `reset` removes everything, one part after   *)
(* the other.  Both `startup` and `reset` take `&mut self`, so neither     *)
(* overlaps a run.  A run has one phase, with both radios up, or any       *)
(* number of them, each with an IM of its own; over Ethernet it is the     *)
(* same without the networks store.                                        *)
(***************************************************************************)
EXTENDS Naturals

CONSTANT MaxResets     \* bound: completed resets in a behaviour
ASSUME MaxResetsAssumption == MaxResets \in Nat

VARIABLES
  kv,        \* what the KV store holds of each part
  mem,       \* what the stack holds in memory
  started,   \* startup has succeeded since boot
  call,      \* "idle", "run", or the part that reset is about to remove
  im,        \* the IM of the run, as in startup_im
  hydrated,  \* the flag MatterStack.im_hydrated
  table,     \* the subscriptions table holds the persisted subscriptions
  window,    \* a commissioning window is open
  armed,     \* the failsafe is armed: what was provisioned is not persisted
  torn,      \* history: a load or a reset has failed since boot
  again,     \* history: an earlier IM of this boot has served or begun to
  epoch      \* 1 + the resets completed

vars == <<kv, mem, started, call, im, hydrated, table, window, armed, torn, again, epoch>>

(* The fabrics; the networks store; the state of the IM, that is, events   *)
(* watermark and subscriptions.                                            *)
Parts == {"fabrics", "networks", "im"}
None == 0
Epochs == 1..MaxResets + 1

(* A part holds nothing, or what was written in some epoch.                *)
Contents == [Parts -> Epochs \union {None}]
Empty == [p \in Parts |-> None]

TypeOK ==
  /\ kv \in Contents
  /\ mem \in Contents
  /\ call \in {"idle", "run", "reset_networks", "reset_im"}
  /\ im \in {"none", "new", "loading", "running"}
  /\ {started, hydrated, table, window, armed, torn, again} \subseteq BOOLEAN
  /\ epoch \in Epochs

(* A device that has been commissioned, and perhaps subscribed to, or not. *)
Init ==
  /\ kv \in { Empty, [Empty EXCEPT !["fabrics"] = 1, !["networks"] = 1],
              [p \in Parts |-> 1] }
  /\ mem = Empty
  /\ started = FALSE
  /\ call = "idle"
  /\ im = "none"
  /\ hydrated = FALSE
  /\ table = FALSE
  /\ window = FALSE
  /\ armed = FALSE
  /\ torn = FALSE
  /\ again = FALSE
  /\ epoch = 1

-----------------------------------------------------------------------------
(* Mutant: startup loads everything, through an IM of its own.             *)
StartupHydrates ==
  /\ call = "idle"
  /\ started' = TRUE
  /\ mem' = kv
  /\ hydrated' = TRUE
  /\ table' = (kv["im"] # None)
  /\ window' = (window \/ kv["fabrics"] = None)
  /\ UNCHANGED <<kv, call, im, armed, torn, again, epoch>>

(* MatterStack::startup: load the fabrics, open the window if there are    *)
(* none.                                                                   *)
Startup ==
  /\ call = "idle"
  /\ started' = TRUE
  /\ mem' = [mem EXCEPT !["fabrics"] = kv["fabrics"]]
  /\ window' = (window \/ kv["fabrics"] = None)
  /\ UNCHANGED <<kv, call, im, hydrated, table, armed, torn, again, epoch>>

(* It fails in the load, with any of the fabrics loaded or dropped, or     *)
(* after the load, when no window can be opened.                           *)
StartupFails ==
  /\ call = "idle"
  /\ \/ /\ \E loaded \in {mem["fabrics"], kv["fabrics"], None} :
             mem' = [mem EXCEPT !["fabrics"] = loaded]
        /\ torn' = TRUE
     \/ /\ kv["fabrics"] = None
        /\ mem' = [mem EXCEPT !["fabrics"] = None]
        /\ UNCHANGED torn
  /\ UNCHANGED <<kv, started, call, im, hydrated, table, window, armed, again, epoch>>

(* Power is lost.                                                          *)
Crash ==
  /\ mem' = Empty
  /\ started' = FALSE
  /\ call' = "idle"
  /\ im' = "none"
  /\ hydrated' = FALSE
  /\ table' = FALSE
  /\ window' = FALSE
  /\ armed' = FALSE
  /\ torn' = FALSE
  /\ again' = FALSE
  /\ UNCHANGED <<kv, epoch>>

(* A run builds its IM, which clears the subscriptions table.              *)
Run ==
  /\ call = "idle"
  /\ started
  /\ call' = "run"
  /\ im' = "new"
  /\ table' = FALSE
  /\ UNCHANGED <<kv, mem, started, hydrated, window, armed, torn, again, epoch>>

(* startup_im: only the first IM loads, and the flag is set before it has. *)
ImStart ==
  /\ im = "new"
  /\ im' = IF hydrated THEN "running" ELSE "loading"
  /\ hydrated' = TRUE
  /\ UNCHANGED <<kv, mem, started, call, table, window, armed, torn, again, epoch>>

(* Mutant: the Startup op does not reach the networks store.               *)
ImLoadedWithoutNetworks ==
  /\ im = "loading"
  /\ im' = "running"
  /\ mem' = [mem EXCEPT !["im"] = kv["im"]]
  /\ table' = (kv["im"] # None)
  /\ UNCHANGED <<kv, started, call, hydrated, window, armed, torn, again, epoch>>

(* The IM loads its own state, resumes the subscriptions, and has the      *)
(* handlers load the networks store.                                       *)
ImLoaded ==
  /\ im = "loading"
  /\ im' = "running"
  /\ mem' = [mem EXCEPT !["im"] = kv["im"], !["networks"] = kv["networks"]]
  /\ table' = (kv["im"] # None)
  /\ UNCHANGED <<kv, started, call, hydrated, window, armed, torn, again, epoch>>

(* An IM is dropped.  A load that this cuts short may have reached any of  *)
(* what it loads.                                                          *)
DropIm ==
  /\ \E loaded \in SUBSET {"networks", "im"} :
       /\ im # "loading" => loaded = {}
       /\ mem' = [p \in Parts |-> IF p \in loaded THEN kv[p] ELSE mem[p]]
  /\ torn' = (torn \/ im = "loading")
  /\ again' = (again \/ im \in {"loading", "running"})

(* A task of the run returns or fails, or the run is dropped.              *)
RunEnds ==
  /\ call = "run"
  /\ DropIm
  /\ call' = "idle"
  /\ im' = "none"
  /\ UNCHANGED <<kv, started, hydrated, table, window, armed, epoch>>

(* A run with one radio goes from one phase to the next, and builds the IM *)
(* of that phase.                                                          *)
SwitchPhase ==
  /\ call = "run"
  /\ DropIm
  /\ im' = "new"
  /\ table' = FALSE
  /\ UNCHANGED <<kv, started, call, hydrated, window, armed, epoch>>

-----------------------------------------------------------------------------
(* MatterStack::reset.                                                     *)

(* Mutant: what is in memory stays until the next boot.                    *)
RemoveStored(part) ==
  /\ mem' = mem
  /\ kv' = [kv EXCEPT ![part] = None]

Remove(part) ==
  /\ mem' = [mem EXCEPT ![part] = None]
  /\ kv' = [kv EXCEPT ![part] = None]

(* A step that fails may have done any of its work.                        *)
RemovePartly(part) ==
  /\ mem' \in {mem, [mem EXCEPT ![part] = None]}
  /\ kv' \in {kv, [kv EXCEPT ![part] = None]}

(* One part is removed, or the error ends the reset.                       *)
ResetStep(part, next) ==
  /\ \/ Remove(part) /\ call' = next /\ UNCHANGED torn
     \/ RemovePartly(part) /\ call' = "idle" /\ torn' = TRUE
  /\ UNCHANGED <<started, im, hydrated, table, window, again, epoch>>

(* Mutant: the networks go first.                                          *)
ResetNetworksFirst ==
  /\ call = "idle"
  /\ ResetStep("networks", "reset_networks")
  /\ armed' \in {armed, FALSE}

(* self.matter.factory_reset(&kv)?  Whether it disarms the failsafe is up  *)
(* to rs-matter.                                                           *)
ResetFabrics ==
  /\ call = "idle"
  /\ ResetStep("fabrics", "reset_networks")
  /\ armed' \in {armed, FALSE}

(* remove_networks(...)?                                                   *)
ResetNetworks ==
  /\ call = "reset_networks"
  /\ ResetStep("networks", "reset_im")
  /\ UNCHANGED armed

(* self.im(...).factory_reset().await: building the IM clears the table.   *)
ResetIm ==
  /\ call = "reset_im"
  /\ call' = "idle"
  /\ table' = FALSE
  /\ \/ Remove("im") /\ epoch <= MaxResets /\ epoch' = epoch + 1 /\ UNCHANGED torn
     \/ RemovePartly("im") /\ torn' = TRUE /\ UNCHANGED epoch
  /\ UNCHANGED <<started, im, hydrated, window, armed, again>>

-----------------------------------------------------------------------------
(* What happens to a device that serves.                                   *)

Served == im = "running"

(* A commissioner, through a window or as an administrator, has given the  *)
(* device a fabric and network credentials: in memory only, with the       *)
(* failsafe armed.                                                         *)
Provisioned ==
  /\ Served
  /\ window \/ mem["fabrics"] # None
  /\ mem' = [mem EXCEPT !["fabrics"] = epoch, !["networks"] = epoch]
  /\ armed' = TRUE
  /\ UNCHANGED <<kv, started, call, im, hydrated, table, window, torn, again, epoch>>

(* Both are persisted, and the window closes.                              *)
CommissioningComplete ==
  /\ Served
  /\ armed
  /\ mem["fabrics"] # None
  /\ armed' = FALSE
  /\ kv' = [kv EXCEPT !["fabrics"] = mem["fabrics"], !["networks"] = mem["networks"]]
  /\ window' = FALSE
  /\ UNCHANGED <<mem, started, call, im, hydrated, table, torn, again, epoch>>

(* The failsafe expires: what was not persisted is rolled back.            *)
FailSafeExpires ==
  /\ Served
  /\ armed
  /\ armed' = FALSE
  /\ mem' = [mem EXCEPT !["fabrics"] = kv["fabrics"], !["networks"] = kv["networks"]]
  /\ UNCHANGED <<kv, started, call, im, hydrated, table, window, torn, again, epoch>>

(* A controller subscribes; the subscription is persisted.                 *)
Subscribed ==
  /\ Served
  /\ mem["fabrics"] # None
  /\ kv' = [kv EXCEPT !["im"] = epoch]
  /\ mem' = [mem EXCEPT !["im"] = epoch]
  /\ table' = TRUE
  /\ UNCHANGED <<started, call, im, hydrated, window, armed, torn, again, epoch>>

(* The application or an administrator opens a window; it closes by its    *)
(* timer.                                                                  *)
WindowChanges ==
  /\ started
  /\ call \in {"idle", "run"}
  /\ window' = ~window
  /\ UNCHANGED <<kv, mem, started, call, im, hydrated, table, armed, torn, again, epoch>>

Next == \/ Startup \/ StartupFails \/ Crash
        \/ Run \/ ImStart \/ ImLoaded \/ SwitchPhase \/ RunEnds
        \/ ResetFabrics \/ ResetNetworks \/ ResetIm
        \/ Provisioned \/ CommissioningComplete \/ FailSafeExpires
        \/ Subscribed \/ WindowChanges

Spec == Init /\ [][Next]_vars

-----------------------------------------------------------------------------
(* Nothing from before a completed factory reset is left, in the store or  *)
(* in memory, whatever runs before and after it and however often an       *)
(* earlier attempt failed or lost power (wireless.rs, reset; the comment   *)
(* "so we don't carry a stale watermark across a factory reset").          *)
ResetForgets ==
  \A p \in Parts : mem[p] \in {None, epoch} /\ kv[p] \in {None, epoch}

(* A device never finds itself commissioned without the credentials of its *)
(* network: a reset that fails or loses power has removed the fabrics      *)
(* before it touches the networks store (wireless.rs, order in reset).     *)
NeverStranded == kv["fabrics"] # None => kv["networks"] # None

(* What an IM serves is what the store holds, although the store is read   *)
(* in two places and only once per boot, and although IMs come and go with *)
(* the phases; while the failsafe is armed memory may be ahead of it       *)
(* (src/src/lib.rs:265-269).  Not after a load or a reset that has failed  *)
(* since boot (lib.rs, startup_im; wireless.rs, startup and reset).        *)
Coherent == Served /\ ~armed /\ ~torn => mem = kv

(* The first IM that a boot runs resumes the persisted subscriptions into  *)
(* its own table: nothing builds another IM, which would clear the table,  *)
(* between the load and the serving (wireless.rs, doc of startup; lib.rs,  *)
(* startup_im).  IMs of later phases and runs of the boot do not: they     *)
(* start from an empty table, although subscriptions are persisted.        *)
SubscriptionsResumed == Served /\ ~torn /\ ~again /\ kv["im"] # None => table
=============================================================================
