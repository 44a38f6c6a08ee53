-------------------------- MODULE ReseedingProofs ---------------------------
(***************************************************************************)
(* Proofs about the reseeding generator, for an i64 of any width, any      *)
(* thresholds and requests, and any number of generators and seeds.        *)
(***************************************************************************)
EXTENDS Reseeding, TLAPS

(* The count is what is left of the threshold, except in a clone that has  *)
(* not been used; a place without a generator has no history.              *)
Accounted ==
  \A g \in Gens :
    /\ g \in alive /\ ~fresh[g] => left[g] = threshold[g] - since[g]
    /\ g \in alive /\ fresh[g] => left[g] = 0
    /\ g \notin alive \/ fresh[g] => since[g] = 0
    /\ g \notin alive => ~fresh[g]

(* Every generator runs from a seed that has been drawn.                   *)
SeedsDrawn == \A g \in alive : inner[g] <= drawn

SeedInv == TypeOK /\ Accounted /\ ReseedDue /\ SeedsDrawn /\ DistinctStreams

(* Within twice the range of an i64 Wrap gives a number that fits; within  *)
(* the range it changes nothing.                                           *)
LEMMA WrapIsIdentity ==
  ASSUME NEW x \in Int, -MaxI64 - 1 <= x, x <= MaxI64
  PROVE  Wrap(x) = x
<1>1. ~(x > MaxI64) /\ ~(x < -MaxI64 - 1)
  BY WidthAssumption
<1> QED BY <1>1, Zenon DEF Wrap

(* A threshold is at least one byte and fits an i64.                       *)
LEMMA ClampedFits ==
  ASSUME NEW t \in Thresholds
  PROVE  Clamped(t) \in 1..MaxI64
  BY WidthAssumption, ThresholdsAssumption DEF Clamped

(* Nothing exists at first.                                                *)
LEMMA InitSeedInv == Init => SeedInv
  BY WidthAssumption, SeedsAssumption
  DEF Init, SeedInv, TypeOK, Accounted, ReseedDue, SeedsDrawn, DistinctStreams

(* Drawing a seed: it is one that no generator has.                        *)
LEMMA SeedIsNew ==
  ASSUME SeedInv, NEW g \in Gens, Seed(g)
  PROVE  /\ drawn' \in 0..MaxSeeds
         /\ inner' \in [Gens -> 0..MaxSeeds]
         /\ starved' \in [Gens -> BOOLEAN]
         /\ inner'[g] = drawn'
         /\ \A h \in Gens \ {g} : inner'[h] = inner[h] /\ starved'[h] = starved[h]
         /\ \A h \in alive : inner[h] < drawn'
  BY SeedsAssumption DEF SeedInv, TypeOK, SeedsDrawn, Seed

(* Whoever draws a seed is apart from everyone else.                       *)
LEMMA SeedApart ==
  ASSUME SeedInv, NEW g \in Gens, Seed(g), alive' = alive \union {g},
         \A h \in Gens \ {g} : fresh'[h] = fresh[h]
  PROVE  SeedsDrawn' /\ DistinctStreams'
<1>1. alive \subseteq Gens
  BY DEF SeedInv, TypeOK
<1>2. \A h \in alive : h # g => /\ inner'[h] = inner[h] /\ starved'[h] = starved[h]
                               /\ fresh'[h] = fresh[h]
                               /\ inner'[h] < drawn' /\ inner'[h] # inner'[g]
  BY <1>1, SeedIsNew, SeedsAssumption DEF SeedInv, TypeOK
<1>3. SeedsDrawn'
  BY <1>1, <1>2, SeedIsNew, SeedsAssumption DEF SeedsDrawn, SeedInv, TypeOK
<1>4. ASSUME NEW h \in alive', NEW k \in alive', h # k, inner'[h] = inner'[k]
      PROVE  \E x \in {h, k} : fresh'[x] \/ starved'[x]
  <2>1. h # g /\ k # g
    BY <1>2, <1>4
  <2> QED BY <1>2, <1>4, <2>1 DEF SeedInv, DistinctStreams
<1> QED BY <1>3, <1>4 DEF DistinctStreams

LEMMA NewKeeps ==
  ASSUME SeedInv, NEW g \in Gens, NEW t \in Thresholds, New(g, t)
  PROVE  SeedInv'
<1>1. TypeOK'
  BY SeedIsNew, ClampedFits, WidthAssumption DEF SeedInv, TypeOK, New
<1>2. Accounted'
  BY ClampedFits DEF SeedInv, TypeOK, Accounted, New
<1>3. ReseedDue'
  <2>1. since'[g] = 0 /\ threshold'[g] \in 1..MaxI64
    BY ClampedFits DEF SeedInv, TypeOK, Accounted, New
  <2>2. \A n \in Requests : since'[g] < threshold'[g] + n
    BY <2>1, RequestsAssumption, WidthAssumption
  <2>3. \A h \in alive : h # g /\ UNCHANGED <<since[h], threshold[h]>>
    BY DEF SeedInv, TypeOK, New
  <2> QED BY <2>2, <2>3, RequestsAssumption DEF SeedInv, ReseedDue, New
<1>4. alive' = alive \union {g} /\ UNCHANGED fresh /\ Seed(g)
  BY DEF New
<1>5. SeedsDrawn' /\ DistinctStreams'
  BY <1>4, SeedApart
<1> QED BY <1>1, <1>2, <1>3, <1>5 DEF SeedInv

LEMMA ReseedKeeps ==
  ASSUME SeedInv, NEW g \in Gens, Reseed(g)
  PROVE  SeedInv'
<1>1. TypeOK'
  BY SeedIsNew, WidthAssumption DEF SeedInv, TypeOK, Reseed
<1>2. Accounted'
  BY DEF SeedInv, TypeOK, Accounted, Reseed
<1>3. ReseedDue'
  BY RequestsAssumption DEF SeedInv, TypeOK, ReseedDue, Reseed
<1>4. /\ alive' = alive \union {g} /\ Seed(g)
      /\ \A h \in Gens \ {g} : fresh'[h] = fresh[h]
  BY DEF Reseed, SeedInv, TypeOK
<1>5. SeedsDrawn' /\ DistinctStreams'
  BY <1>4, SeedApart
<1> QED BY <1>1, <1>2, <1>3, <1>5 DEF SeedInv

LEMMA GenerateKeeps ==
  ASSUME SeedInv, NEW g \in Gens, NEW n \in Requests, Generate(g, n)
  PROVE  SeedInv'
<1>0. n \in 0..MaxI64 /\ left[g] \in 1..MaxI64 /\ MaxI64 \in Nat
  BY WidthAssumption, RequestsAssumption DEF SeedInv, TypeOK, Generate, Due
<1>1. left' = [left EXCEPT ![g] = left[g] - n]
  <2>1. left[g] - n \in Int /\ -MaxI64 - 1 <= left[g] - n /\ left[g] - n <= MaxI64
    BY <1>0
  <2> QED BY <2>1, WrapIsIdentity DEF Generate
<1>2. TypeOK'
  BY <1>0, <1>1 DEF SeedInv, TypeOK, Generate
<1>3. Accounted'
  BY <1>0, <1>1 DEF SeedInv, TypeOK, Accounted, Generate
<1>4. ReseedDue'
  BY <1>0, RequestsAssumption DEF SeedInv, TypeOK, Accounted, ReseedDue, Generate
<1>5. SeedsDrawn' /\ DistinctStreams'
  BY <1>0 DEF SeedInv, TypeOK, Accounted, SeedsDrawn, DistinctStreams, Generate
<1> QED BY <1>2, <1>3, <1>4, <1>5 DEF SeedInv

LEMMA GenerateDueKeeps ==
  ASSUME SeedInv, NEW g \in Gens, NEW n \in Requests, GenerateDue(g, n)
  PROVE  SeedInv'
<1>1. n \in 0..MaxI64 /\ threshold[g] \in 1..MaxI64 /\ MaxI64 \in Nat
  BY WidthAssumption, RequestsAssumption DEF SeedInv, TypeOK
<1>2. left' = [left EXCEPT ![g] = threshold[g] - n]
  <2>1. /\ threshold[g] - n \in Int
        /\ -MaxI64 - 1 <= threshold[g] - n /\ threshold[g] - n <= MaxI64
    BY <1>1
  <2> QED BY <2>1, WrapIsIdentity DEF GenerateDue
<1>3. Accounted'
  BY <1>1, <1>2 DEF SeedInv, TypeOK, Accounted, GenerateDue
<1>4. ReseedDue'
  <2>1. ASSUME NEW h \in alive'
        PROVE  \E m \in Requests : since'[h] < threshold'[h] + m
    <3>1. CASE h = g
      BY <1>1, <3>1 DEF SeedInv, TypeOK, GenerateDue
    <3>2. CASE h # g
      BY <3>2 DEF SeedInv, TypeOK, ReseedDue, GenerateDue
    <3> QED BY <3>1, <3>2
  <2> QED BY <2>1 DEF ReseedDue
<1>5. CASE Seed(g)
  <2>1. TypeOK'
    BY <1>1, <1>2, <1>5, SeedIsNew DEF SeedInv, TypeOK, GenerateDue
  <2>2. /\ alive' = alive \union {g}
        /\ \A h \in Gens \ {g} : fresh'[h] = fresh[h]
    BY DEF GenerateDue, SeedInv, TypeOK
  <2>3. SeedsDrawn' /\ DistinctStreams'
    BY <1>5, <2>2, SeedApart
  <2> QED BY <1>3, <1>4, <2>1, <2>3 DEF SeedInv
<1>6. CASE starved' = [starved EXCEPT ![g] = TRUE] /\ UNCHANGED <<inner, drawn>>
  <2>1. TypeOK'
    BY <1>1, <1>2, <1>6 DEF SeedInv, TypeOK, GenerateDue
  <2>2. SeedsDrawn'
    BY <1>6 DEF SeedInv, SeedsDrawn, GenerateDue
  <2>3. /\ alive \subseteq Gens /\ starved'[g]
        /\ \A h \in Gens \ {g} : fresh'[h] = fresh[h] /\ starved'[h] = starved[h]
    BY <1>6 DEF SeedInv, TypeOK, GenerateDue
  <2>4. DistinctStreams'
    BY <1>6, <2>3 DEF SeedInv, DistinctStreams, GenerateDue
  <2> QED BY <1>3, <1>4, <2>1, <2>2, <2>4 DEF SeedInv
<1> QED BY <1>5, <1>6 DEF GenerateDue

LEMMA CloneKeeps ==
  ASSUME SeedInv, NEW g \in Gens, NEW h \in Gens, Clone(g, h)
  PROVE  SeedInv'
<1>1. TypeOK'
  BY WidthAssumption DEF SeedInv, TypeOK, Clone, CloneCount
<1>2. Accounted'
  BY DEF SeedInv, TypeOK, Accounted, Clone, CloneCount
<1>3. ReseedDue'
  BY RequestsAssumption DEF SeedInv, TypeOK, Accounted, ReseedDue, Clone
<1>4. SeedsDrawn'
  BY DEF SeedInv, TypeOK, SeedsDrawn, Clone
<1>5. /\ alive \subseteq Gens /\ fresh'[h] /\ UNCHANGED starved
      /\ \A k \in Gens \ {h} : fresh'[k] = fresh[k] /\ inner'[k] = inner[k]
  BY DEF SeedInv, TypeOK, Clone
<1>6. DistinctStreams'
  BY <1>5 DEF SeedInv, DistinctStreams, Clone
<1> QED BY <1>1, <1>2, <1>3, <1>4, <1>6 DEF SeedInv

LEMMA NextSeedInv == SeedInv /\ [Next]_vars => SeedInv'
<1>1. SeedInv /\ UNCHANGED vars => SeedInv'
  BY DEF SeedInv, TypeOK, Accounted, ReseedDue, SeedsDrawn, DistinctStreams, vars
<1> QED
  BY <1>1, NewKeeps, ReseedKeeps, GenerateKeeps, GenerateDueKeeps, CloneKeeps DEF Next

(* The inductive invariant of the generators (src/src/rand/reseeding.rs:   *)
(* 83-105).                                                                *)
THEOREM SeedInvHolds == Spec => []SeedInv
  BY InitSeedInv, NextSeedInv, PTL DEF Spec

-----------------------------------------------------------------------------
(* The count stays in the range of an i64, whatever is asked for.          *)
THEOREM TypeCorrect == Spec => []TypeOK
<1>1. SeedInv => TypeOK
  BY DEF SeedInv
<1> QED BY <1>1, SeedInvHolds, PTL

(* The threshold is overstepped by less than one request.                  *)
THEOREM ReseedsInTime == Spec => []ReseedDue
<1>1. SeedInv => ReseedDue
  BY DEF SeedInv
<1> QED BY <1>1, SeedInvHolds, PTL

(* Generators share a seed only if the entropy source failed one of them,  *)
(* or one has not been used since it was cloned.                           *)
THEOREM StreamsApart == Spec => []DistinctStreams
<1>1. SeedInv => DistinctStreams
  BY DEF SeedInv
<1> QED BY <1>1, SeedInvHolds, PTL

(* A step that lowers the history without a new seed is an attempt that    *)
(* failed, and it is made when the count has run out.                      *)
LEMMA RetryStep ==
  ASSUME SeedInv, [Next]_vars, NEW g \in alive,
         since'[g] < since[g], inner'[g] = inner[g]
  PROVE  since[g] >= threshold[g]
<1> USE DEF SeedInv, TypeOK
<1>1. g \in Gens
  OBVIOUS
<1>2. ASSUME NEW h \in Gens, NEW n \in Requests, GenerateDue(h, n)
      PROVE  since[g] >= threshold[g]
  <2>1. CASE h = g
    <3>1. since'[g] = n /\ left[g] <= 0 /\ n \in 0..MaxI64
      BY <1>1, <1>2, <2>1, RequestsAssumption DEF GenerateDue, Due
    <3>2. left[g] = threshold[g] - since[g]
      BY <1>1, <3>1, WidthAssumption DEF Accounted
    <3> QED BY <1>1, <3>1, <3>2
  <2> QED BY <1>1, <1>2, <2>1 DEF GenerateDue
<1>3. ASSUME NEW h \in Gens, NEW n \in Requests, Generate(h, n)
      PROVE  FALSE
  BY <1>1, <1>3, RequestsAssumption, WidthAssumption DEF Generate
<1>4. ASSUME NEW h \in Gens, Reseed(h)
      PROVE  FALSE
  <2>1. h = g
    BY <1>1, <1>4 DEF Reseed
  <2>2. Seed(g)
    BY <1>4, <2>1 DEF Reseed
  <2> QED BY <1>1, <2>2, SeedIsNew, SeedsAssumption
<1>5. ASSUME UNCHANGED since
      PROVE  FALSE
  BY <1>1, <1>5
<1> QED
  BY <1>2, <1>3, <1>4, <1>5 DEF Next, New, Clone, vars

(* A starved generator waits a threshold's worth of bytes before it asks   *)
(* the entropy source again.                                               *)
THEOREM RetriesAreSpaced == Spec => RetriesSpaced
<1>1. SeedInv /\ [Next]_vars =>
        [\A g \in alive : since'[g] < since[g] /\ inner'[g] = inner[g]
                            => since[g] >= threshold[g]]_vars
  BY RetryStep
<1> QED BY <1>1, SeedInvHolds, PTL DEF Spec, RetriesSpaced
=============================================================================
