--------------------------- MODULE BumpRunProofs ----------------------------
(***************************************************************************)
(* Proofs about the allocator over the life of the runs, for every arena,  *)
(* every set of futures with their layouts and every number of callers.    *)
(***************************************************************************)
EXTENDS BumpRun, TLAPS

(* The caller past `run_lock.lock().await` is the one that holds the lock. *)
LockHeld ==
  \A r \in Runs : pc[r] \notin {"idle", "waiting"} <=> holder = r

(* Boxes are in use only while the root future exists.                     *)
BoxesInRun ==
  \A t \in Tasks : Used(t) =>
    \E r \in Runs : holder = r /\ pc[r] \in {"building", "running", "unwind"}

(* The arena is untouched before the first allocation of a run and after   *)
(* the reset.                                                              *)
FreeOutside ==
  /\ holder = NoRun => offset = 0
  /\ \A r \in Runs : pc[r] \in {"locked", "guarded", "unlock"} => offset = 0

Inv == TypeOK /\ WithinUsed /\ Disjoint /\ LockHeld /\ BoxesInRun /\ FreeOutside

-----------------------------------------------------------------------------
(* A layout has a size and a positive alignment.                           *)
LEMMA LayoutType ==
  ASSUME NEW t \in Tasks
  PROVE  Size(t) \in Nat /\ Layout[t].align \in Nat \ {0}
  BY ArenaAssumption DEF Size

(* The slot starts no earlier than the used prefix ends.                   *)
LEMMA StartsInTail ==
  ASSUME NEW t \in Tasks, offset \in Nat
  PROVE  StartAt(t) \in Nat /\ StartAt(t) >= offset
<1> DEFINE a == Layout[t].align
           x == 0 - (Base + offset)
<1>1. a \in Nat /\ a > 0 /\ x \in Int
  BY LayoutType, ArenaAssumption
<1> HIDE DEF a, x
<1>2. x % a \in Nat
  BY <1>1
<1>3. Padding(offset, Layout[t].align) \in Nat
  BY <1>2 DEF Padding, a, x
<1> QED BY <1>3 DEF StartAt

(* A reservation keeps the boxes apart and inside the used prefix.         *)
LEMMA ReserveKeepsApart ==
  ASSUME TypeOK, WithinUsed, Disjoint, NEW t \in Tasks, Reserve(t)
  PROVE  BumpTypeOK' /\ WithinUsed' /\ Disjoint' /\ offset' >= offset
<1> DEFINE s == StartAt(t)
<1>1. s \in Nat /\ s >= offset /\ Size(t) \in Nat /\ s + Size(t) <= N /\ s <= N
  BY StartsInTail, LayoutType, ArenaAssumption
  DEF TypeOK, BumpTypeOK, Reserve, Fits
<1>2. /\ offset' = s + Size(t)
      /\ box' = [box EXCEPT ![t] = [stage |-> "reserved", start |-> s]]
      /\ UNCHANGED panicked
  BY DEF Reserve
<1>3. \A u \in Tasks : box[u] \in Boxes /\ Size(u) \in Nat
  BY LayoutType DEF TypeOK, BumpTypeOK
<1> HIDE DEF s
<1>4. BumpTypeOK'
  BY <1>1, <1>2, ArenaAssumption DEF TypeOK, BumpTypeOK, Boxes, Stages
<1>5. /\ box'[t].start = s
      /\ \A u \in Tasks \ {t} : box'[u] = box[u]
  BY <1>2 DEF TypeOK, BumpTypeOK
<1>6. WithinUsed'
  BY <1>1, <1>2, <1>3, <1>5, ArenaAssumption
  DEF WithinUsed, Used, End, Size, TypeOK, BumpTypeOK, Boxes
<1>7. Disjoint'
  BY <1>1, <1>2, <1>3, <1>5, ArenaAssumption
  DEF Disjoint, WithinUsed, Used, End, Size, TypeOK, BumpTypeOK, Boxes
<1> QED BY <1>1, <1>2, <1>4, <1>6, <1>7 DEF TypeOK, BumpTypeOK

(* Writing or dropping a box moves none.                                   *)
LEMMA WriteKeepsApart ==
  ASSUME TypeOK, WithinUsed, Disjoint, NEW t \in Tasks, Write(t) \/ Free(t)
  PROVE  /\ BumpTypeOK' /\ WithinUsed' /\ Disjoint' /\ offset' = offset
         /\ \A u \in Tasks : Used(u)' => Used(u)
<1>1. BumpTypeOK'
  BY ArenaAssumption DEF TypeOK, BumpTypeOK, Boxes, Stages, NoBox, Write, Free
<1>2. \A u \in Tasks : Used(u)' => Used(u) /\ box'[u].start = box[u].start
  BY DEF TypeOK, BumpTypeOK, Boxes, NoBox, Write, Free, Used
<1>3. offset' = offset
  BY DEF Write, Free
<1> QED BY <1>1, <1>2, <1>3 DEF WithinUsed, Disjoint, End, Size

-----------------------------------------------------------------------------
(* At boot the arena is empty and nobody holds the lock.                   *)
LEMMA InitInv == Init => Inv
<1> SUFFICES ASSUME Init PROVE Inv
  OBVIOUS
<1>1. \A t \in Tasks : ~Used(t)
  BY DEF Init, BumpInit, NoBox, Used
<1>2. TypeOK
  <2>1. NoBox \in Boxes /\ 0 \in 0..N
    BY ArenaAssumption DEF NoBox, Boxes, Stages
  <2>2. BumpTypeOK
    BY <2>1 DEF Init, BumpInit, BumpTypeOK
  <2> QED BY <2>2 DEF Init, TypeOK, PCs
<1>3. LockHeld /\ FreeOutside
  BY RunsAssumption DEF Init, BumpInit, LockHeld, FreeOutside
<1> QED BY <1>1, <1>2, <1>3 DEF Inv, WithinUsed, Disjoint, BoxesInRun

(* Steps that touch no box: the calls, the lock and the guard.             *)
LEMMA ControlKeepsInv ==
  ASSUME Inv, NEW r \in Runs, UNCHANGED bumpVars,
         \/ Call(r) \/ Lock(r) \/ Guard(r) \/ GiveUp(r) \/ TransportFails(r)
         \/ Finish(r) \/ Unlock(r)
  PROVE  Inv'
<1> USE DEF Inv, Goto
<1>1. TypeOK'
  BY DEF TypeOK, BumpTypeOK, bumpVars, PCs, Call, Lock, Guard, GiveUp,
         TransportFails, Finish, Unlock
<1>2. LockHeld'
  BY RunsAssumption
  DEF TypeOK, LockHeld, Call, Lock, Guard, GiveUp, TransportFails, Finish, Unlock
<1>3. /\ WithinUsed' /\ Disjoint'
      /\ \A t \in Tasks : Used(t)' = Used(t)
  BY DEF WithinUsed, Disjoint, Used, End, Size, bumpVars
<1>4. BoxesInRun'
  <2> SUFFICES ASSUME NEW t \in Tasks, Used(t)
               PROVE  \E q \in Runs : /\ holder' = q
                                     /\ pc'[q] \in {"building", "running", "unwind"}
    BY <1>3 DEF BoxesInRun
  <2>1. PICK q \in Runs : holder = q /\ pc[q] \in {"building", "running", "unwind"}
    BY DEF BoxesInRun
  <2>2. holder' = q
    BY <2>1, RunsAssumption
    DEF TypeOK, LockHeld, Call, Lock, Guard, GiveUp, TransportFails, Finish, Unlock
  <2>3. pc'[q] \in {"building", "running", "unwind"}
    BY <2>1 DEF TypeOK, Call, Lock, Guard, GiveUp, TransportFails, Finish, Unlock
  <2> QED BY <2>2, <2>3
<1>5. FreeOutside'
  BY RunsAssumption
  DEF TypeOK, LockHeld, FreeOutside, bumpVars, Call, Lock, Guard, GiveUp,
      TransportFails, Finish, Unlock
<1> QED BY <1>1, <1>2, <1>3, <1>4, <1>5

(* Steps that allocate, write or drop a box, all by the holder of the      *)
(* lock, with the root future there or just being built.                   *)
LEMMA BoxStepKeepsInv ==
  ASSUME Inv, NEW r \in Runs, NEW t \in Tasks,
         Reserve(t) \/ Write(t) \/ Free(t),
         holder = r, UNCHANGED holder, seen' \in SUBSET Tasks,
         pc' \in [Runs -> PCs],
         \A q \in Runs \ {r} : pc'[q] = pc[q],
         pc[r] \in {"guarded", "building", "running", "unwind"},
         \/ pc'[r] \in {"building", "running", "unwind"}
         \/ pc'[r] = "reset" /\ \A u \in Tasks : ~Used(u)'
  PROVE  Inv'
<1>1. BumpTypeOK' /\ WithinUsed' /\ Disjoint'
  BY ReserveKeepsApart, WriteKeepsApart DEF Inv
<1>2. TypeOK'
  BY <1>1 DEF Inv, TypeOK
<1>3. LockHeld'
  BY DEF Inv, LockHeld
<1>4. BoxesInRun'
  BY DEF BoxesInRun
<1>5. FreeOutside'
  BY RunsAssumption DEF Inv, LockHeld, FreeOutside
<1> QED BY <1>1, <1>2, <1>3, <1>4, <1>5 DEF Inv

(* Such a step never gives memory back.                                    *)
LEMMA BoxStepGrows ==
  ASSUME Inv, NEW t \in Tasks, Reserve(t) \/ Write(t) \/ Free(t)
  PROVE  offset' >= offset
<1>1. offset \in Nat
  BY ArenaAssumption DEF Inv, TypeOK, BumpTypeOK
<1>2. CASE Reserve(t)
  BY <1>2, ReserveKeepsApart DEF Inv
<1>3. CASE Write(t) \/ Free(t)
  BY <1>1, <1>3 DEF Write, Free
<1> QED BY <1>2, <1>3

(* A panic changes no box: the program merely stops.                       *)
LEMMA PanicKeepsInv ==
  ASSUME Inv, NEW r \in Runs, NEW t \in Tasks, Panic(r, t)
  PROVE  Inv'
<1>1. UNCHANGED <<offset, box, holder, pc, seen>> /\ panicked' = TRUE
  BY DEF Panic, Exhausted
<1> QED
  BY <1>1 DEF Inv, TypeOK, BumpTypeOK, WithinUsed, Disjoint, Used, End, Size,
              LockHeld, BoxesInRun, FreeOutside

(* The reset finds no box in use.                                          *)
LEMMA ResetKeepsInv ==
  ASSUME Inv, NEW r \in Runs, ResetBump(r)
  PROVE  Inv' /\ \A t \in Tasks : ~Used(t)
<1>1. pc[r] = "reset" /\ holder = r
  BY DEF Inv, LockHeld, ResetBump, Goto
<1>2. \A t \in Tasks : ~Used(t)
  BY <1>1 DEF Inv, BoxesInRun
<1>3. \A t \in Tasks : ~Used(t)'
  BY <1>2 DEF ResetBump, Reset, Used
<1>4. TypeOK'
  BY ArenaAssumption DEF Inv, TypeOK, BumpTypeOK, PCs, ResetBump, Reset, Goto
<1>5. LockHeld' /\ FreeOutside'
  BY <1>1 DEF Inv, TypeOK, LockHeld, FreeOutside, ResetBump, Reset, Goto
<1> QED BY <1>2, <1>3, <1>4, <1>5 DEF Inv, WithinUsed, Disjoint, BoxesInRun

(* Every step of a run preserves the invariant.                            *)
LEMMA NextInv ==
  Inv /\ [Next]_vars =>
    Inv' /\ (offset' < offset => \A t \in Tasks : ~Used(t))
<1> SUFFICES ASSUME Inv, [Next]_vars
             PROVE  Inv' /\ (offset' < offset => \A t \in Tasks : ~Used(t))
  OBVIOUS
<1> DEFINE Grows == Inv' /\ offset' >= offset
<1>1. ASSUME NEW r \in Runs,
             \/ Call(r) \/ Lock(r) \/ Guard(r) \/ GiveUp(r) \/ TransportFails(r)
             \/ Finish(r) \/ Unlock(r)
      PROVE  Grows
  <2>1. UNCHANGED bumpVars
    BY <1>1 DEF Call, Lock, Guard, GiveUp, TransportFails, Finish, Unlock
  <2> QED BY <1>1, <2>1, ControlKeepsInv DEF bumpVars, Inv, TypeOK, BumpTypeOK
<1>2. ASSUME NEW r \in Runs, BuildRoot(r)
      PROVE  Grows
  <2>1. /\ Root \in Tasks
        /\ Reserve(Root) \/ Write(Root) \/ Free(Root)
        /\ holder = r /\ UNCHANGED holder /\ seen' \in SUBSET Tasks
        /\ pc' \in [Runs -> PCs] /\ \A q \in Runs \ {r} : pc'[q] = pc[q]
        /\ pc[r] \in {"guarded", "building"} /\ pc'[r] \in {"building", "running"}
    BY <1>2, RunsAssumption DEF BuildRoot, Goto, Inv, TypeOK, LockHeld, PCs
  <2>2. offset' >= offset
    BY <2>1, BoxStepGrows
  <2> QED BY <2>1, <2>2, BoxStepKeepsInv
<1>3. ASSUME NEW r \in Runs, NEW t \in Inner,
             AllocInner(r, t) \/ EndPhase(r, t) \/ DropInner(r, t)
      PROVE  Grows
  <2>1. /\ t \in Tasks
        /\ Reserve(t) \/ Write(t) \/ Free(t)
        /\ holder = r /\ UNCHANGED holder /\ pc' = pc /\ seen' \in SUBSET Tasks
        /\ pc[r] \in {"running", "unwind"}
    BY <1>3 DEF AllocInner, EndPhase, DropInner, Working, Inner, Inv, TypeOK, LockHeld
  <2>2. offset' >= offset
    BY <2>1, BoxStepGrows
  <2> QED BY <2>1, <2>2, BoxStepKeepsInv DEF Inv, TypeOK
<1>4. ASSUME NEW r \in Runs, DropRoot(r)
      PROVE  Grows
  <2>1. /\ Root \in Tasks /\ Free(Root)
        /\ holder = r /\ UNCHANGED <<holder, seen>>
        /\ pc' \in [Runs -> PCs] /\ \A q \in Runs \ {r} : pc'[q] = pc[q]
        /\ pc[r] = "unwind" /\ pc'[r] = "reset"
    BY <1>4, RunsAssumption DEF DropRoot, Goto, Inv, TypeOK, LockHeld, PCs
  <2>2. \A u \in Tasks : ~Used(u)'
    <3>1. ~Used(Root)'
      BY <2>1 DEF Free, NoBox, Used, Inv, TypeOK, BumpTypeOK
    <3>2. \A u \in Inner : ~Used(u)
      BY <1>4 DEF DropRoot
    <3> QED BY <2>1, <3>1, <3>2, WriteKeepsApart DEF Inner, Inv
  <2>3. offset' >= offset /\ seen' \in SUBSET Tasks
    BY <2>1, WriteKeepsApart DEF Inv, TypeOK, BumpTypeOK
  <2> QED BY <2>1, <2>2, <2>3, BoxStepKeepsInv
<1>5. ASSUME NEW r \in Runs, NEW t \in Tasks, Panic(r, t)
      PROVE  Grows
  <2>1. offset' = offset
    BY <1>5 DEF Panic, Exhausted
  <2> QED BY <1>5, <2>1, PanicKeepsInv DEF Inv, TypeOK, BumpTypeOK
<1>6. ASSUME NEW r \in Runs, ResetBump(r)
      PROVE  Inv' /\ \A t \in Tasks : ~Used(t)
  BY <1>6, ResetKeepsInv
<1>7. CASE UNCHANGED vars
  <2>1. Inv'
    BY <1>7
    DEF vars, bumpVars, Inv, TypeOK, BumpTypeOK, WithinUsed, Disjoint, Used, End, Size,
        LockHeld, BoxesInRun, FreeOutside
  <2> QED BY <1>7, <2>1 DEF vars, bumpVars, Inv, TypeOK, BumpTypeOK
<1>8. Grows => Inv' /\ ~(offset' < offset)
  BY DEF Inv, TypeOK, BumpTypeOK
<1> HIDE DEF Grows
<1> QED
  BY <1>1, <1>2, <1>3, <1>4, <1>5, <1>6, <1>7, <1>8, RunsAssumption DEF Next, Inner

(* The invariant holds: boxes are apart and in the used prefix, and both   *)
(* boxes and the lock follow the order in which a run builds and drops its *)
(* locals (src/src/wireless/wifi.rs:147-177).                              *)
THEOREM InvHolds == Spec => []Inv
<1>1. Inv /\ [Next]_vars => Inv'
  BY NextInv
<1> QED BY <1>1, InitInv, PTL DEF Spec

-----------------------------------------------------------------------------
(* Every variable keeps to its type; in particular the arena never         *)
(* overflows.                                                              *)
THEOREM TypeCorrect == Spec => []TypeOK
<1>1. Inv => TypeOK
  BY DEF Inv
<1> QED BY <1>1, InvHolds, PTL

(* Boxes in use never overlap (src/src/bump.rs:158-196).                   *)
THEOREM BoxesApart == Spec => []Disjoint
<1>1. Inv => Disjoint
  BY DEF Inv
<1> QED BY <1>1, InvHolds, PTL

(* Boxes in use stay out of what is left to hand out.                      *)
THEOREM BoxesWithinUsed == Spec => []WithinUsed
<1>1. Inv => WithinUsed
  BY DEF Inv
<1> QED BY <1>1, InvHolds, PTL

(* Padding an address to a multiple of the alignment.                      *)
LEMMA PaddedIsMultiple ==
  ASSUME NEW a \in Nat \ {0}, NEW y \in Nat
  PROVE  (y + ((0 - y) % a)) % a = 0
<1> DEFINE r == (0 - y) % a
           q == (0 - y) \div a
<1>1. r \in Nat /\ q \in Int /\ 0 - y = a * q + r
  BY SMTT(20)
<1> HIDE DEF r, q
<1>2. PICK k \in Int : y + r = a * k
  <2>1. 0 - q \in Int /\ y + r = a * (0 - q)
    BY <1>1, SMTT(20)
  <2> QED BY <2>1
<1>3. \A b \in Nat \ {0}, i \in Int : (b * i) % b = 0
  BY SMTT(20)
<1>4. (y + r) % a = 0
  BY <1>2, <1>3
<1> QED BY <1>4 DEF r

(* The slot that Reserve hands out is aligned.                             *)
LEMMA StartsAligned ==
  ASSUME NEW t \in Tasks, offset \in Nat, Size(t) > 0
  PROVE  (Base + StartAt(t)) % Layout[t].align = 0
<1> DEFINE a == Layout[t].align
           y == Base + offset
           p == (0 - y) % a
<1>1. a \in Nat \ {0} /\ y \in Nat /\ Size(t) \in Nat
  BY LayoutType, ArenaAssumption
<1>2. StartAt(t) = offset + p
  BY <1>1 DEF StartAt, Padding
<1> HIDE DEF a
<1>3. p \in Nat /\ (y + p) % a = 0
  BY <1>1, PaddedIsMultiple
<1> HIDE DEF p
<1>4. Base + StartAt(t) = y + p
  BY <1>2, <1>3, ArenaAssumption
<1> QED BY <1>3, <1>4 DEF a

(* No step moves a box or hands out an unaligned slot.                     *)
LEMMA NextAligned == Inv /\ Aligned /\ [Next]_vars => Aligned'
<1> SUFFICES ASSUME Inv, Aligned, [Next]_vars, NEW u \in Tasks, Used(u)', Size(u) > 0
             PROVE  (Base + box'[u].start) % Layout[u].align = 0
  BY DEF Aligned, Size
<1>1. /\ offset \in Nat
      /\ box \in [Tasks -> Boxes]
  BY ArenaAssumption DEF Inv, TypeOK, BumpTypeOK
<1>2. CASE \E t \in Tasks : Reserve(t)
  <2>1. PICK t \in Tasks : Reserve(t)
    BY <1>2
  <2>2. CASE u = t
    BY <1>1, <2>1, <2>2, StartsAligned DEF Reserve
  <2>3. CASE u # t
    BY <1>1, <2>1, <2>3 DEF Reserve, Aligned, Used
  <2> QED BY <2>2, <2>3
<1>3. CASE \E t \in Tasks : Write(t) \/ Free(t)
  <2>1. Used(u) /\ box'[u].start = box[u].start
    BY <1>1, <1>3 DEF Write, Free, Used, Boxes, NoBox
  <2> QED BY <2>1 DEF Aligned
<1>4. CASE UNCHANGED box
  BY <1>4 DEF Aligned, Used
<1>5. \/ \E t \in Tasks : Reserve(t) \/ Write(t) \/ Free(t)
      \/ UNCHANGED box
  BY RunsAssumption
  DEF Next, Call, Lock, Guard, GiveUp, TransportFails, BuildRoot, Finish, DropRoot,
      ResetBump, Reset, Unlock, Panic, Exhausted, AllocInner, EndPhase, DropInner,
      vars, bumpVars, Inner
<1> QED BY <1>2, <1>3, <1>4, <1>5

(* Every slot is aligned, wherever the arena lies (src/src/bump.rs:266).   *)
THEOREM BoxesAligned == Spec => []Aligned
<1>1. Init => Aligned
  BY DEF Init, BumpInit, NoBox, Used, Aligned
<1> QED BY <1>1, NextAligned, InvHolds, PTL DEF Spec

(* Without a run, the whole arena is free.                                 *)
THEOREM ArenaFreeWhenUnlocked == Spec => []FreeWhenUnlocked
<1>1. Inv => FreeWhenUnlocked
  BY RunsAssumption DEF Inv, FreeOutside, BoxesInRun, FreeWhenUnlocked
<1> QED BY <1>1, InvHolds, PTL

(* The unsafe reset meets its contract (src/src/bump.rs:60-65): nothing    *)
(* allocated earlier is still in use.                                      *)
THEOREM ResetIsSafe == Spec => ResetOnlyWhenUnused
<1>1. Inv /\ [Next]_vars => (offset' < offset => \A t \in Tasks : ~Used(t))
  BY NextInv
<1>2. Inv /\ [Next]_vars => [offset' < offset => \A t \in Tasks : ~Used(t)]_vars
  BY <1>1
<1> QED BY <1>2, InvHolds, PTL DEF Spec, ResetOnlyWhenUnused

-----------------------------------------------------------------------------
(* Every box in use has its bytes in the used prefix.                      *)
LEMMA OwnedInPrefix ==
  ASSUME Inv, NEW u \in Tasks
  PROVE  Owned[u] \subseteq 0..(offset - 1)
<1>1. /\ offset \in Nat /\ box[u].start \in Nat /\ End(u) \in Nat
      /\ Used(u) => End(u) <= offset
  BY LayoutType, ArenaAssumption DEF Inv, TypeOK, BumpTypeOK, Boxes, WithinUsed, End
<1> QED BY <1>1 DEF Owned

(* A step of one box changes the bytes of no other.                        *)
LEMMA OwnedByStep ==
  ASSUME Inv, NEW t \in Tasks, Reserve(t) \/ Write(t) \/ Free(t)
  PROVE  /\ Reserve(t) => Owned' = [Owned EXCEPT ![t] = StartAt(t)..(StartAt(t) + Size(t) - 1)]
         /\ Write(t) => UNCHANGED Owned
         /\ Free(t) => Owned' = [Owned EXCEPT ![t] = {}]
<1>1. box \in [Tasks -> Boxes]
  BY DEF Inv, TypeOK, BumpTypeOK
<1>2. CASE Reserve(t)
  <2> DEFINE bytes == StartAt(t)..(StartAt(t) + Size(t) - 1)
  <2>1. /\ Used(t)' /\ box'[t].start = StartAt(t)
        /\ \A u \in Tasks \ {t} : box'[u] = box[u]
    BY <1>1, <1>2 DEF Reserve, Used
  <2>2. StartAt(t) \in Nat /\ Size(t) \in Nat
    BY StartsInTail, LayoutType, ArenaAssumption DEF Inv, TypeOK, BumpTypeOK
  <2>3. /\ Owned'[t] = bytes
        /\ \A u \in Tasks \ {t} : Owned'[u] = Owned[u]
    BY <2>1, <2>2 DEF Owned, Used, End, Size
  <2> HIDE DEF bytes
  <2>4. Owned' = [Owned EXCEPT ![t] = bytes]
    <3>1. Owned' = [u \in Tasks |-> Owned'[u]]
      BY DEF Owned
    <3>2. Owned = [u \in Tasks |-> Owned[u]]
      BY DEF Owned
    <3> QED BY <2>3, <3>1, <3>2
  <2> QED BY <1>2, <2>4 DEF bytes, Reserve, Write, Free, Used
<1>3. CASE Write(t)
  BY <1>1, <1>3 DEF Write, Reserve, Free, Owned, Used, End, Size, Boxes
<1>4. CASE Free(t)
  BY <1>1, <1>4 DEF Write, Reserve, Free, NoBox, Owned, Used, End, Size, Boxes
<1> QED BY <1>2, <1>3, <1>4

(* A slot is taken behind all the bytes in use, aligned and in the arena.  *)
LEMMA ReserveTakes ==
  ASSUME Inv, holder \in Runs, UNCHANGED holder,
         NEW t \in Uses[holder] \union {Root}, t \in Tasks, Reserve(t)
  PROVE  StartAt(t) \in 0..N /\ Promise!Take(t, StartAt(t))
<1> DEFINE s == StartAt(t)
           bytes == s..(s + Size(t) - 1)
<1>1. /\ N \in Nat /\ offset \in Nat /\ s \in Nat /\ s >= offset
      /\ Size(t) \in Nat /\ s + Size(t) <= N
  BY StartsInTail, LayoutType, ArenaAssumption DEF Inv, TypeOK, BumpTypeOK, Reserve, Fits
<1>2. Size(t) > 0 => (Base + s) % Layout[t].align = 0
  BY <1>1, StartsAligned
<1>3. Owned[t] = {}
  BY DEF Reserve, Owned
<1>4. Owned' = [Owned EXCEPT ![t] = bytes]
  BY OwnedByStep
<1> HIDE DEF s
<1>5. s \in 0..N /\ bytes \subseteq 0..(N - 1)
  BY <1>1
<1>6. \A u \in Tasks : bytes \intersect Owned[u] = {}
  BY <1>1, OwnedInPrefix
<1>7. Promise!Take(t, s)
  BY <1>2, <1>3, <1>4, <1>5, <1>6, RunsAssumption DEF Promise!Take, Size
<1> QED BY <1>5, <1>7 DEF s

(* What a step does to the boxes of a run, the run takes or gives.         *)
LEMMA BoxStepImplements ==
  ASSUME Inv, holder \in Runs, UNCHANGED holder,
         NEW t \in Uses[holder] \union {Root}, Reserve(t) \/ Write(t) \/ Free(t)
  PROVE  [Promise!Next]_(Promise!vars)
<1>1. t \in Tasks /\ holder # NoRun
  BY RunsAssumption
<1>2. CASE Reserve(t)
  BY <1>1, <1>2, ReserveTakes DEF Promise!Next
<1>3. CASE Write(t)
  BY <1>1, <1>3, OwnedByStep DEF Promise!vars
<1>4. CASE Free(t)
  <2>1. Promise!Give(t)
    BY <1>1, <1>4, OwnedByStep DEF Promise!Give
  <2> QED BY <1>1, <2>1 DEF Promise!Next
<1> QED BY <1>2, <1>3, <1>4

(* Every step of the runs is one that the futures may expect.              *)
LEMMA StepImplements == Inv /\ [Next]_vars => [Promise!Next]_(Promise!vars)
<1> SUFFICES ASSUME Inv, [Next]_vars PROVE [Promise!Next]_(Promise!vars)
  OBVIOUS
<1>1. CASE UNCHANGED <<box, holder>>
  BY <1>1 DEF Owned, Used, End, Promise!vars
<1>2. ASSUME NEW r \in Runs, NEW t \in Uses[r] \union {Root},
             Reserve(t) \/ Write(t) \/ Free(t), holder = r, UNCHANGED holder
      PROVE  [Promise!Next]_(Promise!vars)
  BY <1>2, BoxStepImplements
<1>3. ASSUME NEW r \in Runs, Lock(r) \/ GiveUp(r) \/ Unlock(r), holder' # holder
      PROVE  Promise!Next
  <2>1. /\ \A t \in Tasks : ~Used(t)
        /\ UNCHANGED box
    BY <1>3, RunsAssumption
    DEF Lock, GiveUp, Unlock, Goto, bumpVars, Inv, TypeOK, LockHeld, BoxesInRun
  <2>2. UNCHANGED Owned /\ Promise!AllGiven
    BY <2>1 DEF Owned, Used, End, Promise!AllGiven
  <2>3. \/ holder = NoRun /\ holder' = r
        \/ holder # NoRun /\ holder' = NoRun
    BY <1>3 DEF Lock, GiveUp, Unlock, Goto, Inv, LockHeld
  <2> QED BY <2>2, <2>3 DEF Promise!Next, Promise!Begin, Promise!End
<1>4. \/ UNCHANGED <<box, holder>>
      \/ \E r \in Runs : /\ Lock(r) \/ GiveUp(r) \/ Unlock(r)
                         /\ holder' # holder
      \/ \E r \in Runs : \E t \in Uses[r] \union {Root} :
           (Reserve(t) \/ Write(t) \/ Free(t)) /\ holder = r /\ UNCHANGED holder
  <2>1. ASSUME NEW r \in Runs, pc[r] \notin {"idle", "waiting"}
        PROVE  holder = r
    BY <2>1 DEF Inv, LockHeld
  <2>2. ASSUME NEW r \in Runs,
               \/ Call(r) \/ Guard(r) \/ TransportFails(r) \/ Finish(r)
               \/ ResetBump(r) \/ \E t \in Tasks : Panic(r, t)
        PROVE  UNCHANGED <<box, holder>>
    BY <2>2
    DEF Call, Guard, TransportFails, Finish, ResetBump, Reset, Panic, Exhausted, bumpVars
  <2>3. ASSUME NEW r \in Runs, Lock(r) \/ GiveUp(r) \/ Unlock(r)
        PROVE  UNCHANGED box
    BY <2>3 DEF Lock, GiveUp, Unlock, bumpVars
  <2>4. ASSUME NEW r \in Runs, BuildRoot(r) \/ DropRoot(r)
        PROVE  /\ Reserve(Root) \/ Write(Root) \/ Free(Root)
               /\ holder = r /\ UNCHANGED holder
    BY <2>1, <2>4 DEF BuildRoot, DropRoot, Goto
  <2>5. ASSUME NEW r \in Runs, NEW t \in Uses[r],
               AllocInner(r, t) \/ EndPhase(r, t) \/ DropInner(r, t)
        PROVE  /\ Reserve(t) \/ Write(t) \/ Free(t)
               /\ holder = r /\ UNCHANGED holder
    BY <2>1, <2>5 DEF AllocInner, EndPhase, DropInner, Working
  <2> QED
    BY <2>2, <2>3, <2>4, <2>5, RunsAssumption DEF Next, vars, bumpVars
<1> QED BY <1>1, <1>2, <1>3, <1>4

(* The promise of the allocator, whole: every future has bytes of its own  *)
(* from its reservation to its drop, in the arena and aligned, and a run   *)
(* begins with nothing left of the one before (src/src/bump.rs:141-147,    *)
(* src/src/wireless/wifi.rs:147-177).                                      *)
THEOREM ImplementsTheArena == Spec => ImplementsArena
<1>1. Init => Promise!Init
  BY DEF Init, BumpInit, NoBox, Used, Owned, Promise!Init
<1> QED
  BY <1>1, StepImplements, InvHolds, PTL DEF Spec, ImplementsArena, Promise!Spec
=============================================================================
