-------------------------- MODULE LifecycleProofs ---------------------------
(***************************************************************************)
(* Proofs about Lifecycle, for every number of factory resets.             *)
(***************************************************************************)
EXTENDS Lifecycle, TLAPS

(* What memory is known to hold: the fabrics once startup has succeeded,   *)
(* the rest once the first IM has loaded it, and unless the failsafe keeps *)
(* back what was provisioned since.                                        *)
Loaded ==
  /\ im # "none" <=> call = "run"
  /\ call = "run" => started
  /\ im \in {"loading", "running"} => hydrated
  /\ ~torn /\ started /\ ~armed => mem["fabrics"] = kv["fabrics"]
  /\ ~torn /\ hydrated /\ im # "loading" => mem["im"] = kv["im"]
  /\ ~torn /\ hydrated /\ im # "loading" /\ ~armed /\ call # "reset_networks" =>
       mem["networks"] = kv["networks"]

(* The failsafe is armed by an IM that serves, so nothing is loaded over   *)
(* what was provisioned; only a reset removes it, after the fabrics.       *)
Provisions ==
  armed => /\ hydrated /\ im # "loading"
           /\ mem["networks"] = None => mem["fabrics"] = None /\ kv["fabrics"] = None

(* Until a run has ended with an IM that had begun to load, no IM but the  *)
(* one in use has been built since the load.                               *)
Resumed ==
  /\ hydrated /\ im \in {"none", "new"} => again
  /\ SubscriptionsResumed

(* What a reset has removed so far.                                        *)
Removed ==
  /\ call \in {"reset_networks", "reset_im"} =>
       mem["fabrics"] = None /\ kv["fabrics"] = None
  /\ call = "reset_im" => mem["networks"] = None /\ kv["networks"] = None

LifeInv == /\ TypeOK /\ ResetForgets /\ NeverStranded
           /\ Loaded /\ Provisions /\ Removed /\ Resumed

(* Initially memory is empty and whatever is stored is of the first epoch. *)
LEMMA LifeInit == Init => LifeInv
<1> SUFFICES ASSUME Init PROVE LifeInv
  OBVIOUS
<1> USE MaxResetsAssumption DEF Contents, Empty, Parts, Epochs, None
<1>1. mem \in Contents /\ \A p \in Parts : mem[p] = None
  BY DEF Init
<1>2. /\ kv \in Contents
      /\ \A p \in Parts : kv[p] \in {None, 1}
      /\ kv["fabrics"] # None => kv["networks"] # None
  <2>1. CASE kv = Empty
    BY <2>1
  <2>2. CASE kv = [Empty EXCEPT !["fabrics"] = 1, !["networks"] = 1]
    BY <2>2
  <2>3. CASE kv = [p \in Parts |-> 1]
    BY <2>3
  <2> QED
    BY <2>1, <2>2, <2>3 DEF Init
<1>3. TypeOK
  <2>1. epoch \in Epochs
    BY DEF Init
  <2>2. {started, hydrated, table, window, armed, torn, again} \subseteq BOOLEAN
    BY Zenon DEF Init
  <2> QED
    BY <1>1, <1>2, <2>1, <2>2 DEF Init, TypeOK
<1>4. ResetForgets /\ NeverStranded
  BY <1>1, <1>2 DEF Init, ResetForgets, NeverStranded
<1>5. Loaded /\ Provisions /\ Removed /\ Resumed
  BY <1>1 DEF Init, Loaded, Provisions, Removed, Resumed, SubscriptionsResumed, Served
<1> QED
  BY <1>3, <1>4, <1>5 DEF LifeInv

(* Every step of a boot, a run or a reset keeps the invariant.             *)
LEMMA LifeStep == LifeInv /\ [Next]_vars => LifeInv'
<1> SUFFICES ASSUME LifeInv, [Next]_vars PROVE LifeInv'
  OBVIOUS
<1> USE MaxResetsAssumption
    DEF LifeInv, TypeOK, ResetForgets, NeverStranded, Loaded, Provisions,
        Removed, Resumed, SubscriptionsResumed, Served, Contents, Parts, Epochs, None
<1>1. CASE Startup \/ StartupFails
  <2>1. CASE Startup
    BY <2>1 DEF Startup
  <2>2. CASE StartupFails
    <3>1. PICK loaded \in {mem["fabrics"], kv["fabrics"], None} :
            mem' = [mem EXCEPT !["fabrics"] = loaded]
      BY <2>2 DEF StartupFails
    <3>2. CASE torn' = TRUE
      BY <2>2, <3>1, <3>2 DEF StartupFails
    <3>3. CASE kv["fabrics"] = None /\ mem' = [mem EXCEPT !["fabrics"] = None]
                 /\ UNCHANGED torn
      BY <2>2, <3>3 DEF StartupFails
    <3> QED BY <2>2, <3>2, <3>3 DEF StartupFails
  <2> QED BY <1>1, <2>1, <2>2
<1>2. CASE Crash
  BY <1>2 DEF Crash, Empty
<1>3. CASE Run
  BY <1>3 DEF Run
<1>4. CASE ImStart
  BY <1>4 DEF ImStart
<1>5. CASE ImLoaded
  BY <1>5 DEF ImLoaded
<1>6. CASE RunEnds \/ SwitchPhase
  <2>1. CASE RunEnds
    BY <2>1 DEF RunEnds, DropIm
  <2>2. CASE SwitchPhase
    BY <2>2 DEF SwitchPhase, DropIm
  <2> QED BY <1>6, <2>1, <2>2
<1>7. CASE ResetFabrics
  <2>1. CASE Remove("fabrics") /\ call' = "reset_networks" /\ UNCHANGED torn
    <3>1. CASE armed' = armed
      BY <1>7, <2>1, <3>1 DEF ResetFabrics, ResetStep, Remove
    <3>2. CASE armed' = FALSE
      BY <1>7, <2>1, <3>2 DEF ResetFabrics, ResetStep, Remove
    <3> QED BY <1>7, <3>1, <3>2 DEF ResetFabrics
  <2>2. CASE RemovePartly("fabrics") /\ call' = "idle" /\ torn' = TRUE
    <3>1. CASE armed' = armed
      BY <1>7, <2>2, <3>1 DEF ResetFabrics, ResetStep, RemovePartly
    <3>2. CASE armed' = FALSE
      BY <1>7, <2>2, <3>2 DEF ResetFabrics, ResetStep, RemovePartly
    <3> QED BY <1>7, <3>1, <3>2 DEF ResetFabrics
  <2> QED BY <1>7, <2>1, <2>2 DEF ResetFabrics, ResetStep
<1>8. CASE ResetNetworks
  BY <1>8 DEF ResetNetworks, ResetStep, Remove, RemovePartly
<1>9. CASE ResetIm
  <2>1. CASE Remove("im") /\ epoch <= MaxResets /\ epoch' = epoch + 1
              /\ UNCHANGED torn
    <3>1. /\ kv' \in Contents /\ mem' \in Contents
          /\ \A p \in Parts : mem'[p] = None /\ kv'[p] = None
      BY <1>9, <2>1 DEF ResetIm, Remove
    <3>2. TypeOK'
      <4>1. epoch' \in Epochs
        BY <1>9, <2>1 DEF ResetIm
      <4>2. {started, hydrated, table, window, armed, torn, again}' \subseteq BOOLEAN
        BY <1>9, <2>1 DEF ResetIm
      <4> QED
        BY <1>9, <3>1, <4>1, <4>2 DEF ResetIm
    <3>3. ResetForgets' /\ NeverStranded'
      BY <3>1
    <3>4. Loaded' /\ Provisions' /\ Removed' /\ Resumed'
      BY <1>9, <2>1, <3>1 DEF ResetIm
    <3> QED
      BY <3>2, <3>3, <3>4
  <2>2. CASE RemovePartly("im") /\ torn' = TRUE /\ UNCHANGED epoch
    BY <1>9, <2>2 DEF ResetIm, RemovePartly
  <2> QED
    BY <1>9, <2>1, <2>2 DEF ResetIm
<1>10. CASE Provisioned \/ CommissioningComplete \/ FailSafeExpires
  BY <1>10 DEF Provisioned, CommissioningComplete, FailSafeExpires
<1>11. CASE Subscribed
  BY <1>11 DEF Subscribed
<1>12. CASE WindowChanges
  BY <1>12 DEF WindowChanges
<1>13. CASE UNCHANGED vars
  BY <1>13 DEF vars
<1> QED
  BY <1>1, <1>2, <1>3, <1>4, <1>5, <1>6, <1>7, <1>8, <1>9, <1>10, <1>11,
     <1>12, <1>13 DEF Next

(* The inductive invariant of boots, runs and resets.                      *)
THEOREM LifeInvHolds == Spec => []LifeInv
BY LifeInit, LifeStep, PTL DEF Spec

(* Nothing older than the last completed reset is left anywhere            *)
(* (wireless.rs, reset).                                                   *)
THEOREM ResetsForget == Spec => []ResetForgets
<1>1. LifeInv => ResetForgets
  BY DEF LifeInv
<1> QED
  BY <1>1, LifeInvHolds, PTL

(* No failure or loss of power leaves fabrics without network credentials  *)
(* (wireless.rs, order in reset).                                          *)
THEOREM NobodyStranded == Spec => []NeverStranded
<1>1. LifeInv => NeverStranded
  BY DEF LifeInv
<1> QED
  BY <1>1, LifeInvHolds, PTL

(* While no failsafe is armed a serving IM and the store agree, although   *)
(* the store is read only once per boot (lib.rs, startup_im).              *)
THEOREM MemoryCoherent == Spec => []Coherent
<1>1. LifeInv => Coherent
  <2> SUFFICES ASSUME LifeInv, Served, ~armed, ~torn PROVE mem = kv
    BY DEF Coherent
  <2>1. \A p \in Parts : mem[p] = kv[p]
    BY DEF LifeInv, Loaded, Served, Parts
  <2> QED
    BY <2>1 DEF LifeInv, TypeOK, Contents
<1> QED
  BY <1>1, LifeInvHolds, PTL

(* The first IM that a boot runs serves with the persisted subscriptions   *)
(* resumed (lib.rs, startup_im).                                           *)
THEOREM FirstRunResumes == Spec => []SubscriptionsResumed
<1>1. LifeInv => SubscriptionsResumed
  BY DEF LifeInv, Resumed
<1> QED
  BY <1>1, LifeInvHolds, PTL
=============================================================================
