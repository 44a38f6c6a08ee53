----------------------------- MODULE Reseeding ------------------------------
(***************************************************************************)
(* The reseeding CSPRNG handed to the crypto backends                      *)
(* (src/src/rand/reseeding.rs).  A generator counts the bytes it gives out *)
(* in an i64 and asks an entropy source for a new seed when the count runs *)
(* out; the source may fail, and then the generator goes on with the seed  *)
(* it has.  A clone starts with the state of its original and an exhausted *)
(* count.  The entropy source is external: it fails, or gives a seed that  *)
(* nobody has had before.                                                  *)
(***************************************************************************)
EXTENDS Integers

CONSTANTS
  Gens,        \* places for generators: originals and clones
  MaxI64,      \* i64::MAX
  Thresholds,  \* arguments of ReseedingRng::new, u64
  Requests,    \* numbers of bytes asked for at once, lengths of slices
  MaxSeeds     \* bound: seeds drawn from the entropy source

ASSUME WidthAssumption == MaxI64 \in Nat \ {0}
ASSUME ThresholdsAssumption == Thresholds \subseteq 0 .. 2 * MaxI64 + 1
ASSUME RequestsAssumption == Requests \subseteq 0 .. MaxI64 /\ Requests # {}
ASSUME SeedsAssumption == MaxSeeds \in Nat

VARIABLES
  alive,      \* the generators there are
  inner,      \* the seed that the inner PRNG runs from
  threshold,  \* bytes between two seedings
  left,       \* bytes_until_reseed
  drawn,      \* seeds drawn so far
  since,      \* history: bytes given out since it last asked for a seed
  fresh,      \* history: a clone that has given out nothing yet
  starved     \* history: the source failed when it last had to reseed

vars == <<alive, inner, threshold, left, drawn, since, fresh, starved>>

Init ==
  /\ alive = {}
  /\ inner = [g \in Gens |-> 0]
  /\ threshold = [g \in Gens |-> MaxI64]
  /\ left = [g \in Gens |-> 0]
  /\ drawn = 0
  /\ since = [g \in Gens |-> 0]
  /\ fresh = [g \in Gens |-> FALSE]
  /\ starved = [g \in Gens |-> FALSE]

(* The result of an i64 addition or subtraction.                           *)
Wrap(x) == CASE x > MaxI64      -> x - 2 * (MaxI64 + 1)
             [] x < -MaxI64 - 1 -> x + 2 * (MaxI64 + 1)
             [] OTHER           -> x

-----------------------------------------------------------------------------
(* Mutant: the u64 is cast as it is.                                       *)
ClampedByCast(t) == Wrap(t)

(* 0 stands for "never", and is as far away as an i64 can count.           *)
Clamped(t) == IF t = 0 \/ t > MaxI64 THEN MaxI64 ELSE t

(* R::try_from_rng, when the source does not fail.                         *)
Seed(g) ==
  /\ drawn < MaxSeeds
  /\ drawn' = drawn + 1
  /\ inner' = [inner EXCEPT ![g] = drawn + 1]
  /\ starved' = [starved EXCEPT ![g] = FALSE]

(* ReseedingRng::new.  If the source fails there is no generator.          *)
New(g, t) ==
  /\ g \notin alive
  /\ alive' = alive \union {g}
  /\ Seed(g)
  /\ threshold' = [threshold EXCEPT ![g] = Clamped(t)]
  /\ left' = [left EXCEPT ![g] = Clamped(t)]
  /\ UNCHANGED <<since, fresh>>

(* ReseedingRng::reseed called by the owner.  If the source fails it says  *)
(* so, and nothing has changed.                                            *)
Reseed(g) ==
  /\ g \in alive
  /\ Seed(g)
  /\ left' = [left EXCEPT ![g] = threshold[g]]
  /\ since' = [since EXCEPT ![g] = 0]
  /\ fresh' = [fresh EXCEPT ![g] = FALSE]
  /\ UNCHANGED <<alive, threshold>>

(* Mutant: the count may stand at zero for one request more.               *)
DueBelowZero(g) == left[g] < 0

Due(g) == left[g] <= 0

(* before_generate while bytes are left.                                   *)
Generate(g, n) ==
  /\ g \in alive
  /\ ~Due(g)
  /\ left' = [left EXCEPT ![g] = Wrap(left[g] - n)]
  /\ since' = [since EXCEPT ![g] = since[g] + n]
  /\ fresh' = [fresh EXCEPT ![g] = FALSE]
  /\ UNCHANGED <<alive, inner, threshold, drawn, starved>>

(* Mutant: after a failure the count is left where it was.                 *)
GenerateDueRetries(g, n) ==
  /\ g \in alive
  /\ Due(g)
  /\ \/ Seed(g) /\ left' = [left EXCEPT ![g] = Wrap(threshold[g] - n)]
     \/ /\ starved' = [starved EXCEPT ![g] = TRUE]
        /\ left' = [left EXCEPT ![g] = Wrap(left[g] - n)]
        /\ UNCHANGED <<inner, drawn>>
  /\ since' = [since EXCEPT ![g] = n]
  /\ fresh' = [fresh EXCEPT ![g] = FALSE]
  /\ UNCHANGED <<alive, threshold>>

(* before_generate with the count run out: reseed_at_threshold, which goes *)
(* on as it is when the source fails, and tries again a threshold later.   *)
GenerateDue(g, n) ==
  /\ g \in alive
  /\ Due(g)
  /\ \/ Seed(g)
     \/ starved' = [starved EXCEPT ![g] = TRUE] /\ UNCHANGED <<inner, drawn>>
  /\ left' = [left EXCEPT ![g] = Wrap(threshold[g] - n)]
  /\ since' = [since EXCEPT ![g] = n]
  /\ fresh' = [fresh EXCEPT ![g] = FALSE]
  /\ UNCHANGED <<alive, threshold>>

(* Mutant: a derived Clone, which copies the count too.                    *)
CloneOfCount(g) == left[g]

CloneCount(g) == 0

(* Clone::clone: h starts where g is.                                      *)
Clone(g, h) ==
  /\ g \in alive
  /\ h \notin alive
  /\ alive' = alive \union {h}
  /\ inner' = [inner EXCEPT ![h] = inner[g]]
  /\ threshold' = [threshold EXCEPT ![h] = threshold[g]]
  /\ left' = [left EXCEPT ![h] = CloneCount(g)]
  /\ fresh' = [fresh EXCEPT ![h] = TRUE]
  /\ UNCHANGED <<drawn, since, starved>>

Next == \E g \in Gens :
          \/ Reseed(g)
          \/ \E t \in Thresholds : New(g, t)
          \/ \E n \in Requests : Generate(g, n) \/ GenerateDue(g, n)
          \/ \E h \in Gens : Clone(g, h)

Spec == Init /\ [][Next]_vars

-----------------------------------------------------------------------------
(* The count never leaves the range of an i64, whatever the threshold and  *)
(* the length of a request: it is only ever lowered from above zero        *)
(* (src/src/rand/reseeding.rs:83-88).                                      *)
TypeOK ==
  /\ alive \in SUBSET Gens
  /\ inner \in [Gens -> 0..MaxSeeds]
  /\ threshold \in [Gens -> 1..MaxI64]
  /\ left \in [Gens -> 1 - MaxI64 .. MaxI64]
  /\ drawn \in 0..MaxSeeds
  /\ since \in [Gens -> Nat]
  /\ fresh \in [Gens -> BOOLEAN]
  /\ starved \in [Gens -> BOOLEAN]

(* The check comes before a request of any length is taken off the count,  *)
(* so a generator oversteps its threshold by no more than one request      *)
(* before it asks for a seed again (src/src/rand/reseeding.rs:83-88).      *)
ReseedDue == \A g \in alive : \E n \in Requests : since[g] < threshold[g] + n

(* No two generators give out bytes of the same seed, clones of clones and *)
(* reseeded originals included, unless the source failed one of them       *)
(* (src/src/rand/reseeding.rs:138-150).                                    *)
DistinctStreams ==
  \A g, h \in alive :
    (g # h /\ inner[g] = inner[h]) => \E k \in {g, h} : fresh[k] \/ starved[k]

(* A generator whose source failed asks it again only after a threshold's  *)
(* worth of bytes, not for every request (src/src/rand/reseeding.rs:98-103).*)
RetriesSpaced ==
  [][\A g \in alive : since'[g] < since[g] /\ inner'[g] = inner[g]
                        => since[g] >= threshold[g]]_vars
=============================================================================
