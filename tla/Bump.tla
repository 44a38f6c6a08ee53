-------------------------------- MODULE Bump --------------------------------
(***************************************************************************)
(* The bump allocator of src/src/bump.rs: an arena of N bytes whose used   *)
(* prefix, `offset`, only ever grows until the arena is reset as a whole.  *)
(* A box is first reserved, under the lock, and then written, outside of   *)
(* it; dropping a box runs its destructor and frees nothing.               *)
(***************************************************************************)
EXTENDS Integers

CONSTANTS
  N,        \* bytes of the arena
  Base,     \* address of the arena, which is an array of bytes
  Tasks,    \* the futures that are allocated, each with one box at a time
  Layout    \* Layout[t]: size and alignment of the future

ASSUME ArenaAssumption ==
  /\ N \in Nat
  /\ Base \in Nat
  /\ Layout \in [Tasks -> [size : Nat, align : Nat \ {0}]]

VARIABLES
  offset,   \* bytes used, Inner.offset
  box,      \* box[t]: "none", "reserved" or "live", and where it starts
  panicked  \* "Out of bump memory"

bumpVars == <<offset, box, panicked>>

Stages == {"none", "reserved", "live"}
NoBox == [stage |-> "none", start |-> 0]
Boxes == [stage : Stages, start : 0..N]

BumpTypeOK ==
  /\ offset \in 0..N
  /\ box \in [Tasks -> Boxes]
  /\ panicked \in BOOLEAN

BumpInit ==
  /\ offset = 0
  /\ box = [t \in Tasks |-> NoBox]
  /\ panicked = FALSE

Used(t) == box[t].stage # "none"
Size(t) == Layout[t].size
End(t) == box[t].start + Size(t)

(* Mutant: aligns the offset instead of the address.                       *)
PaddingOfOffset(off, align) == (0 - off) % align

(* The leading bytes that `align_to_mut` skips at offset `off`.            *)
Padding(off, align) == (0 - (Base + off)) % align

(* Where align_min puts the box of t: at once for a ZST, which takes no    *)
(* memory, and at the next aligned address otherwise.                      *)
StartAt(t) == IF Size(t) = 0 THEN offset
                             ELSE offset + Padding(offset, Layout[t].align)

(* Mutant: the padding is not counted.                                     *)
FitsUnpadded(t) == offset + Size(t) <= N

Fits(t) == StartAt(t) + Size(t) <= N

-----------------------------------------------------------------------------
(* Mutant: the offset moves on by the size alone.                          *)
ReserveUnpadded(t) ==
  /\ ~Used(t)
  /\ Fits(t)
  /\ box' = [box EXCEPT ![t] = [stage |-> "reserved", start |-> StartAt(t)]]
  /\ offset' = offset + Size(t)
  /\ UNCHANGED panicked

(* Bump::reserve: hand out the slot, or panic.                             *)
Reserve(t) ==
  /\ ~Used(t)
  /\ Fits(t)
  /\ box' = [box EXCEPT ![t] = [stage |-> "reserved", start |-> StartAt(t)]]
  /\ offset' = StartAt(t) + Size(t)
  /\ UNCHANGED panicked

Exhausted(t) ==
  /\ ~Used(t)
  /\ ~Fits(t)
  /\ panicked' = TRUE
  /\ UNCHANGED <<offset, box>>

(* The object is constructed in its slot, and the BumpBox handed out.      *)
Write(t) ==
  /\ box[t].stage = "reserved"
  /\ box' = [box EXCEPT ![t].stage = "live"]
  /\ UNCHANGED <<offset, panicked>>

(* BumpBox::drop.                                                          *)
Free(t) ==
  /\ box[t].stage = "live"
  /\ box' = [box EXCEPT ![t] = NoBox]
  /\ UNCHANGED <<offset, panicked>>

(* Bump::reset, which is unsafe.                                           *)
Reset == offset' = 0 /\ UNCHANGED <<box, panicked>>

-----------------------------------------------------------------------------
(* No two boxes in use share a byte (src/src/bump.rs:147, "an exclusively  *)
(* owned slot"): also when one is written long after the other was         *)
(* reserved, and when the arena has been reset in between.                 *)
Disjoint ==
  \A t, u \in Tasks :
    t # u /\ Used(t) /\ Used(u) => End(t) <= box[u].start \/ End(u) <= box[t].start

(* A box in use lies in the used prefix of the arena, so that what is left *)
(* to hand out does not alias with it (src/src/bump.rs:176-177).           *)
WithinUsed == \A t \in Tasks : Used(t) => End(t) <= offset

(* The slot handed out is aligned (src/src/bump.rs:147).                   *)
Aligned ==
  \A t \in Tasks :
    Used(t) /\ Size(t) > 0 => (Base + box[t].start) % Layout[t].align = 0
=============================================================================
