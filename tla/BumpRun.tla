------------------------------ MODULE BumpRun -------------------------------
(***************************************************************************)
(* The allocator over the life of a run.                                   *)
(*                                                                         *)
(* Every `run*` method (src/src/wireless/wifi.rs:141-177, and the same in  *)
(* thread.rs and eth.rs) takes the run lock, sets up a guard that resets   *)
(* the allocator, allocates the future of the whole run and awaits it.     *)
(* While it runs, that future allocates others.  With one radio these are  *)
(* the BTP futures of its BLE phases; over Ethernet and with both radios   *)
(* up they are allocated once, and allocate others in turn: the            *)
(* Interaction Model its responder, the responder one future for each      *)
(* exchange handler.  A box is a local of the future that allocated it.    *)
(* Whatever ends the run - a result, an error, a dropped future - the      *)
(* locals are dropped in reverse order: the future, the guard, the lock.   *)
(***************************************************************************)
EXTENDS Bump

CONSTANTS
  Runs,      \* concurrent callers, each of one of the run methods
  Root,      \* the task that is the future of the whole run
  Uses,      \* Uses[r]: the other tasks that the method of r allocates
  Parent,    \* Parent[t]: the future that allocates t and holds its box
  Rephased,  \* Rephased[r]: those of Uses[r] that last for one phase only
  NoRun

ASSUME RunsAssumption ==
  /\ Root \in Tasks
  /\ Parent \in [Tasks \ {Root} -> Tasks]
  /\ Uses \in [Runs -> SUBSET (Tasks \ {Root})]
  /\ Rephased \in [Runs -> SUBSET (Tasks \ {Root})]
  /\ NoRun \notin Runs

VARIABLES
  holder,  \* who holds MatterStack.run_lock
  pc,      \* where each caller is
  seen     \* history: tasks allocated since the lock was taken

vars == <<bumpVars, holder, pc, seen>>

Inner == Tasks \ {Root}

PCs == { "idle", "waiting",
         "locked",     \* the run lock is held
         "guarded",    \* the guard that resets the allocator exists
         "building",   \* pin_alloc! of the root future
         "running",    \* net_task.await
         "unwind",     \* the root future is being dropped
         "reset",      \* ... then the guard
         "unlock" }    \* ... then the lock

TypeOK ==
  /\ BumpTypeOK
  /\ holder \in Runs \union {NoRun}
  /\ pc \in [Runs -> PCs]
  /\ seen \in SUBSET Tasks

Init ==
  /\ BumpInit
  /\ holder = NoRun
  /\ pc = [r \in Runs |-> "idle"]
  /\ seen = {}

Goto(r, from, to) == /\ ~panicked
                     /\ pc[r] = from
                     /\ pc' = [pc EXCEPT ![r] = to]

-----------------------------------------------------------------------------
Call(r) == Goto(r, "idle", "waiting") /\ UNCHANGED <<bumpVars, holder, seen>>

(* self.run_lock.lock().await                                              *)
Lock(r) ==
  /\ Goto(r, "waiting", "locked")
  /\ holder = NoRun
  /\ holder' = r
  /\ seen' = {}
  /\ UNCHANGED bumpVars

(* The networks store is locked and the guard created.                     *)
Guard(r) == Goto(r, "locked", "guarded") /\ UNCHANGED <<bumpVars, holder, seen>>

(* The caller drops the future of run before the guard exists.             *)
GiveUp(r) ==
  /\ \/ Goto(r, "waiting", "idle") /\ UNCHANGED holder
     \/ Goto(r, "locked", "idle") /\ holder' = NoRun
  /\ UNCHANGED <<bumpVars, seen>>

(* reset_transport()? fails before anything is allocated.                  *)
TransportFails(r) ==
  Goto(r, "guarded", "reset") /\ UNCHANGED <<bumpVars, holder, seen>>

(* pin_alloc!(self.bump, self.run_wifi(...))                               *)
BuildRoot(r) ==
  \/ /\ Goto(r, "guarded", "building")
     /\ Reserve(Root)
     /\ seen' = seen \union {Root}
     /\ UNCHANGED holder
  \/ /\ Goto(r, "building", "running")
     /\ Write(Root)
     /\ UNCHANGED <<holder, seen>>

(* The future that allocates t is being polled, so has been constructed.   *)
Working(r) == ~panicked /\ pc[r] = "running" /\ UNCHANGED <<holder, pc>>
Polled(t) == box[Parent[t]].stage = "live"

(* Everything that t had allocated has been dropped.                       *)
Emptied(t) == \A u \in Inner : Parent[u] = t => ~Used(u)

(* A running future allocates another one: run_im_with_bump its responder, *)
(* the responder its handlers.                                             *)
AllocInner(r, t) ==
  /\ Working(r)
  /\ Polled(t)
  /\ \/ Reserve(t) /\ seen' = seen \union {t}
     \/ Write(t) /\ UNCHANGED seen

(* Mutant: the memory of the phase is reclaimed by a reset.                *)
EndPhaseResets(r, t) ==
  /\ Working(r)
  /\ t \in Rephased[r]
  /\ box[t].stage = "live"
  /\ box' = [box EXCEPT ![t] = NoBox]
  /\ offset' = 0
  /\ UNCHANGED <<panicked, seen>>

(* A future that lasts for one phase is dropped.                           *)
EndPhase(r, t) ==
  /\ Working(r)
  /\ t \in Rephased[r]
  /\ Emptied(t)
  /\ Free(t)
  /\ UNCHANGED seen

(* No room is left: the program panics.                                    *)
Panic(r, t) ==
  /\ ~panicked
  /\ \/ t = Root /\ pc[r] = "guarded"
     \/ t # Root /\ pc[r] = "running" /\ Polled(t)
  /\ Exhausted(t)
  /\ UNCHANGED <<holder, pc, seen>>

(* Mutant: the guard was declared after the root future, so goes first.    *)
FinishResetsFirst(r) ==
  /\ Goto(r, "running", "unwind")
  /\ \A t \in Tasks : box[t].stage # "reserved"
  /\ Reset
  /\ UNCHANGED <<holder, seen>>

(* The root future returns, or is dropped at one of its awaits: never      *)
(* between the reservation of a slot and its construction.                 *)
Finish(r) ==
  /\ Goto(r, "running", "unwind")
  /\ \A t \in Tasks : box[t].stage # "reserved"
  /\ UNCHANGED <<bumpVars, holder, seen>>

(* Dropping the root future drops the boxes it contains, and these first   *)
(* the boxes they contain.                                                 *)
DropInner(r, t) ==
  /\ ~panicked
  /\ pc[r] = "unwind"
  /\ Emptied(t)
  /\ Free(t)
  /\ UNCHANGED <<holder, pc, seen>>

(* Mutant: there is no guard.                                              *)
DropRootUnguarded(r) ==
  /\ Goto(r, "unwind", "unlock")
  /\ \A t \in Inner : ~Used(t)
  /\ Free(Root)
  /\ UNCHANGED <<holder, seen>>

DropRoot(r) ==
  /\ Goto(r, "unwind", "reset")
  /\ \A t \in Inner : ~Used(t)
  /\ Free(Root)
  /\ UNCHANGED <<holder, seen>>

(* The guard is dropped, and then the lock.                                *)
ResetBump(r) == Goto(r, "reset", "unlock") /\ Reset /\ UNCHANGED <<holder, seen>>

Unlock(r) ==
  /\ Goto(r, "unlock", "idle")
  /\ holder' = NoRun
  /\ UNCHANGED <<bumpVars, seen>>

Next ==
  \E r \in Runs :
    \/ Call(r) \/ Lock(r) \/ Guard(r) \/ GiveUp(r) \/ TransportFails(r)
    \/ BuildRoot(r) \/ Finish(r) \/ DropRoot(r) \/ ResetBump(r) \/ Unlock(r)
    \/ Panic(r, Root)
    \/ \E t \in Uses[r] : \/ AllocInner(r, t) \/ EndPhase(r, t)
                          \/ DropInner(r, t) \/ Panic(r, t)

Spec == Init /\ [][Next]_vars

-----------------------------------------------------------------------------
(* The allocator is reset only when every box has been dropped, as the     *)
(* comment at the guard reasons (src/src/wireless/wifi.rs:163-167).        *)
ResetOnlyWhenUnused == [][offset' < offset => \A t \in Tasks : ~Used(t)]_vars

(* Boxes are in use, and bytes taken, only under the run lock: whoever     *)
(* takes the lock finds the whole arena free.                              *)
FreeWhenUnlocked ==
  holder = NoRun => offset = 0 /\ \A t \in Tasks : ~Used(t)

(* "increase [the size] until the program runs without panics during the   *)
(* stack initialization" (src/examples/light.rs:48-49): a size with which  *)
(* every future of a run could be allocated once is enough.                *)
EnoughOnceInitialized == panicked => seen # Uses[holder] \union {Root}

-----------------------------------------------------------------------------
(* The bytes of a future, from the reservation of its slot to its drop.    *)
Owned == [t \in Tasks |-> IF Used(t) THEN box[t].start..(End(t) - 1) ELSE {}]

Promise == INSTANCE Arena WITH
             owned <- Owned, run <- holder,
             Members <- [r \in Runs |-> Uses[r] \union {Root}]

(* The allocator, its lock and its guard together give every future memory *)
(* of its own for as long as it lives, across phases, runs and resets      *)
(* (src/src/bump.rs:141-147, src/src/wireless/wifi.rs:141-177).            *)
ImplementsArena == Promise!Spec
=============================================================================
