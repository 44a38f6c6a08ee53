--------------------------- MODULE NetifMdnsProofs ---------------------------
(***************************************************************************)
(* Proofs about the netif watch, for any number of interfaces in any       *)
(* conditions: first what load_netif_state computes, then that the right   *)
(* state is loaded in time.                                                *)
(***************************************************************************)
EXTENDS NetifMdns, FiniteSetTheorems, TLAPS

-----------------------------------------------------------------------------
(* The least and the last of a set of numbers, as induction needs them.    *)

(* The order of the natural numbers, as a relation.                        *)
Less == { p \in Nat \X Nat : p[1] < p[2] }

(* There is no descending sequence of natural numbers.                     *)
LEMMA LessWellFounded == IsWellFoundedOn(Less, Nat)
  BY NatLessThanWellFounded DEF Less, OpToRel

(* A set of natural numbers has a first one.                               *)
LEMMA FirstExists ==
  ASSUME NEW S \in SUBSET Nat, S # {}
  PROVE  \E m \in S : \A n \in S : m <= n
<1>1. PICK m \in S : \A n \in S : ~(<<n, m>> \in Less)
  BY LessWellFounded, WFMin
<1>2. m \in Nat /\ \A n \in S : n \in Nat /\ ~(n < m)
  BY <1>1 DEF Less
<1> QED BY <1>2

(* A set of interfaces has a last one: counted from the end, the least.    *)
LEMMA LastExists ==
  ASSUME NEW S \in SUBSET Ifs, S # {}
  PROVE  Max(S) \in S /\ \A i \in S : i <= Max(S)
<1> DEFINE T == { NetIfs - i : i \in S }
<1>1. NetIfs \in Nat /\ \A i \in S : i \in Nat /\ NetIfs - i \in Nat
  BY NetifAssumption DEF Ifs
<1>2. PICK m \in T : \A n \in T : m <= n
  <2>1. T \subseteq Nat /\ T # {}
    BY <1>1
  <2> QED BY <2>1, FirstExists
<1>3. PICK j \in S : m = NetIfs - j
  OBVIOUS
<1>4. \A i \in S : NetIfs - j <= NetIfs - i
  BY <1>2, <1>3
<1>5. \A i \in S : i <= j
  BY <1>1, <1>4
<1> QED BY <1>1, <1>5 DEF Max

-----------------------------------------------------------------------------
(* What is collected from a list of addresses.  A function defined by its  *)
(* own values exists because there is one for each length: the shortest    *)
(* length without one would have a predecessor with one.                   *)
CollectsTo(f, addrs, m) ==
  f = [n \in 0..m |-> IF n = 0 THEN <<>> ELSE Pushed(f[n - 1], addrs[n])]

(* There is such a function for every length.                              *)
LEMMA CollectingExists ==
  ASSUME NEW addrs
  PROVE  \A m \in Nat : \E f : CollectsTo(f, addrs, m)
<1> SUFFICES ASSUME NEW bad \in SUBSET Nat, bad # {},
                    bad = { m \in Nat : ~\E f : CollectsTo(f, addrs, m) }
             PROVE  FALSE
  OBVIOUS
<1>1. PICK m \in bad : \A n \in bad : m <= n
  BY FirstExists
<1>2. CASE m = 0
  <2> DEFINE f == [n \in 0..0 |-> <<>>]
  <2>1. CollectsTo(f, addrs, 0)
    BY DEF CollectsTo
  <2> QED BY <1>2, <2>1
<1>3. CASE m # 0
  <2>1. m \in Nat /\ m - 1 \in Nat /\ m - 1 \notin bad
    BY <1>1, <1>3
  <2>2. PICK g : CollectsTo(g, addrs, m - 1)
    BY <2>1
  <2> DEFINE f == [n \in 0..m |-> IF n = m THEN Pushed(g[m - 1], addrs[m]) ELSE g[n]]
  <2>3. \A n \in 0..(m - 1) :
          g[n] = IF n = 0 THEN <<>> ELSE Pushed(g[n - 1], addrs[n])
    BY <2>2 DEF CollectsTo
  <2>4. \A n \in 0..m : f[n] = IF n = 0 THEN <<>> ELSE Pushed(f[n - 1], addrs[n])
    BY <1>3, <2>1, <2>3
  <2>5. CollectsTo(f, addrs, m)
    BY <2>4 DEF CollectsTo
  <2> QED BY <2>5
<1> QED BY <1>2, <1>3

(* Collecting starts with nothing and pushes one address after the other.  *)
LEMMA CollectingStep ==
  ASSUME NEW addrs, Len(addrs) \in Nat
  PROVE  /\ Collecting(addrs)[0] = <<>>
         /\ \A n \in 1..Len(addrs) :
              Collecting(addrs)[n] = Pushed(Collecting(addrs)[n - 1], addrs[n])
<1> DEFINE c == Collecting(addrs)
<1>1. \E f : CollectsTo(f, addrs, Len(addrs))
  BY CollectingExists
<1>2. c = CHOOSE f : CollectsTo(f, addrs, Len(addrs))
  BY DEF Collecting, CollectsTo
<1>3. CollectsTo(c, addrs, Len(addrs))
  BY <1>1, <1>2
<1> HIDE DEF c
<1>4. \A n \in 0..Len(addrs) : c[n] = IF n = 0 THEN <<>> ELSE Pushed(c[n - 1], addrs[n])
  BY <1>3 DEF CollectsTo
<1>5. c[0] = <<>> /\ \A n \in 1..Len(addrs) : c[n] = Pushed(c[n - 1], addrs[n])
  BY <1>4
<1> QED BY <1>5 DEF c

(* What the sequence of addresses kept so far is, F being the set of those *)
(* seen so far that are worth keeping.                                     *)
Keeps(kept, F) ==
  /\ kept \in Seq(F)
  /\ Len(kept) <= MaxAddrs
  /\ IsInjective(kept)
  /\ Len(kept) = MaxAddrs \/ Range(kept) = F

(* Pushing one more address keeps to that.                                 *)
LEMMA PushedKeeps ==
  ASSUME NEW F, NEW kept, NEW a, Keeps(kept, F), Unspecified \notin F
  PROVE  Keeps(Pushed(kept, a), (F \union {a}) \ {Unspecified})
<1> DEFINE G == (F \union {a}) \ {Unspecified}
<1>1. F \subseteq G /\ kept \in Seq(G) /\ Len(kept) \in Nat
  BY DEF Keeps
<1>2. CASE a = Unspecified
  BY <1>1, <1>2 DEF Keeps, Pushed
<1>3. CASE a \in Range(kept)
  <2>1. a \in F
    BY <1>3 DEF Keeps, Range
  <2>2. G = F
    BY <2>1
  <2> QED BY <1>3, <2>2 DEF Keeps, Pushed
<1>4. CASE Len(kept) = MaxAddrs
  BY <1>1, <1>4 DEF Keeps, Pushed
<1>5. CASE a # Unspecified /\ a \notin Range(kept) /\ Len(kept) # MaxAddrs
  <2> DEFINE k == Append(kept, a)
  <2>1. Pushed(kept, a) = k
    BY <1>5 DEF Pushed
  <2>2. G = F \union {a} /\ Range(kept) = F /\ Len(kept) < MaxAddrs
    BY <1>1, <1>5, NetifAssumption DEF Keeps
  <2>3. /\ k \in Seq(G) /\ Len(k) = Len(kept) + 1
        /\ \A i \in 1..Len(kept) : k[i] = kept[i]
        /\ k[Len(kept) + 1] = a
    BY <1>1, <2>2
  <2>4. DOMAIN k = 1..(Len(kept) + 1) /\ DOMAIN kept = 1..Len(kept)
    BY <1>1, <2>3
  <2> HIDE DEF k
  <2>5. \A i \in 1..Len(kept) : kept[i] # a
    BY <1>5, <2>4 DEF Range
  <2>6. IsInjective(k)
    BY <1>1, <2>3, <2>4, <2>5 DEF Keeps, IsInjective
  <2>7. Range(k) = Range(kept) \union {a}
    BY <1>1, <2>3, <2>4 DEF Range
  <2> QED BY <1>1, <2>1, <2>2, <2>3, <2>6, <2>7, NetifAssumption DEF Keeps
<1> QED BY <1>2, <1>3, <1>4, <1>5

(* Those of the first n addresses that are worth keeping.                  *)
Worth(addrs, n) == { addrs[i] : i \in 1..n } \ {Unspecified}

(* So every prefix of the list is collected as it should.                  *)
LEMMA CollectingKeeps ==
  ASSUME NEW addrs, Len(addrs) \in Nat
  PROVE  \A n \in 0..Len(addrs) : Keeps(Collecting(addrs)[n], Worth(addrs, n))
<1> DEFINE c == Collecting(addrs)
           bad == { n \in 0..Len(addrs) : ~Keeps(c[n], Worth(addrs, n)) }
<1> SUFFICES ASSUME bad # {} PROVE FALSE
  OBVIOUS
<1>0. bad \in SUBSET Nat
  OBVIOUS
<1>1. PICK n \in bad : \A i \in bad : n <= i
  BY <1>0, FirstExists
<1>2. CASE n = 0
  <2>1. c[0] = <<>> /\ Worth(addrs, 0) = {}
    BY CollectingStep DEF Worth
  <2>2. Keeps(<<>>, {})
    BY NetifAssumption DEF Keeps, IsInjective, Range
  <2> QED BY <1>2, <2>1, <2>2
<1>3. CASE n # 0
  <2>1. n \in 1..Len(addrs) /\ n - 1 \in 0..Len(addrs) /\ n - 1 \notin bad
    BY <1>1, <1>3
  <2>2. Keeps(c[n - 1], Worth(addrs, n - 1))
    BY <2>1
  <2>3. Worth(addrs, n) = (Worth(addrs, n - 1) \union {addrs[n]}) \ {Unspecified}
    <3>1. 1..n = (1..(n - 1)) \union {n}
      BY <2>1
    <3> QED BY <3>1 DEF Worth
  <2>4. Unspecified \notin Worth(addrs, n - 1)
    BY DEF Worth
  <2>5. c[n] = Pushed(c[n - 1], addrs[n])
    BY <2>1, CollectingStep
  <2> HIDE DEF c
  <2>6. Keeps(c[n], Worth(addrs, n))
    BY <2>2, <2>3, <2>4, <2>5, PushedKeeps
  <2> QED BY <2>6
<1> QED BY <1>2, <1>3

(* Collected has MaxAddrs different addresses, or all there are.           *)
LEMMA CollectedIs ==
  ASSUME NEW addrs, addrs \in Seq(Range(addrs))
  PROVE  LET real == Range(addrs) \ {Unspecified}
         IN  /\ IsInjective(Collected(addrs))
             /\ Collected(addrs) \in Seq(real)
             /\ Len(Collected(addrs)) <= MaxAddrs
             /\ IsFiniteSet(real)
             /\ Len(Collected(addrs)) = Min({MaxAddrs, Cardinality(real)})
<1> DEFINE real == Range(addrs) \ {Unspecified}
           k == Collected(addrs)
<1>1. Len(addrs) \in Nat /\ DOMAIN addrs = 1..Len(addrs)
  OBVIOUS
<1>2. Worth(addrs, Len(addrs)) = real
  BY <1>1 DEF Worth, Range
<1>3. Keeps(k, real)
  <2>1. Keeps(Collecting(addrs)[Len(addrs)], Worth(addrs, Len(addrs)))
    BY <1>1, CollectingKeeps
  <2> QED BY <1>2, <2>1 DEF Collected
<1> HIDE DEF k
<1>4. IsFiniteSet(real)
  <2>1. IsFiniteSet(1..Len(addrs))
    BY <1>1, FS_Interval
  <2>2. addrs \in Surjection(1..Len(addrs), Range(addrs))
    BY <1>1 DEF Surjection, Range
  <2>3. IsFiniteSet(Range(addrs))
    BY <2>1, <2>2, FS_Surjection
  <2> QED BY <2>3, FS_Subset
<1> HIDE DEF real
<1>5. k \in Injection(1..Len(k), real) /\ Len(k) \in Nat
  BY <1>3 DEF Keeps, Injection, IsInjective
<1>6. Cardinality(1..Len(k)) = Len(k)
  <2>1. \A n \in Nat : Cardinality(1..n) = n
    BY FS_Interval
  <2> QED BY <1>5, <2>1
<1>7. /\ Len(k) <= Cardinality(real)
      /\ Len(k) = Cardinality(real) <=> k \in Surjection(1..Len(k), real)
  BY <1>4, <1>5, <1>6, FS_Injection
<1>8. Cardinality(real) \in Nat
  BY <1>4, FS_CardinalityType
<1>9. Range(k) = real => Len(k) = Cardinality(real)
  BY <1>5, <1>7 DEF Surjection, Range, Injection
<1>10. /\ Len(k) \in {MaxAddrs, Cardinality(real)}
       /\ \A n \in {MaxAddrs, Cardinality(real)} : Len(k) <= n
  BY <1>3, <1>7, <1>9 DEF Keeps
<1>11. Len(k) = Min({MaxAddrs, Cardinality(real)})
  BY <1>5, <1>8, <1>10, NetifAssumption DEF Min
<1> QED BY <1>3, <1>4, <1>11 DEF Keeps, k, real

-----------------------------------------------------------------------------
(* A state of the netif that is down holds nothing but the stale index.    *)
DownIsEmpty == ~cur.operational => cur = [EmptyState EXCEPT !.index = cur.index]

(* The watch sleeps on a state that a load would give again, unless it has *)
(* been notified since.                                                    *)
SettledIsCurrent == Settled => cur = Load(cur)

Watches == watch # "off" => pc = "on"

WatchInv == DownIsEmpty /\ SettledIsCurrent /\ Watches

(* A load gives a state that is up, or an empty one with the old index.    *)
LEMMA LoadGives ==
  ASSUME NEW prev
  PROVE  IF Load(prev).operational
           THEN \E i \in Ifs : Usable(i)
           ELSE /\ \A i \in Ifs : ~Usable(i)
                /\ Load(prev) = [EmptyState EXCEPT !.index = prev.index]
                /\ Load(prev).index = prev.index
<1> DEFINE usable == { i \in Ifs : Usable(i) }
<1>1. CASE usable = {}
  BY <1>1 DEF Load, EmptyState
<1>2. CASE usable # {}
  <2>1. Load(prev) = StateOf(Max(usable))
    BY <1>2 DEF Load
  <2> QED BY <1>2, <2>1 DEF StateOf
<1> QED BY <1>1, <1>2

(* Nothing is watched before a run.                                        *)
LEMMA InitWatchInv == Init => WatchInv
  BY DEF Init, WatchInv, DownIsEmpty, SettledIsCurrent, Settled, Watches, EmptyState

(* A turn of the loop starts with what has just been loaded.               *)
LEMMA TurnKeepsWatchInv ==
  ASSUME NEW prev, Turn(Load(prev)), pc' = "on"
  PROVE  WatchInv'
<1>1. cur' = Load(prev) /\ watch' = "load"
  BY DEF Turn
<1>2. DownIsEmpty'
  BY <1>1, LoadGives DEF DownIsEmpty
<1> QED BY <1>1, <1>2 DEF WatchInv, SettledIsCurrent, Settled, Watches

(* Every step of the watch, of mDNS and of the interfaces keeps to it.     *)
LEMMA NextWatchInv == WatchInv /\ [Next]_vars => WatchInv'
<1> SUFFICES ASSUME WatchInv, [Next]_vars PROVE WatchInv'
  OBVIOUS
<1> USE DEF WatchInv, DownIsEmpty, SettledIsCurrent, Settled, Watches
<1>1. CASE FirstLoad
  BY <1>1, TurnKeepsWatchInv DEF FirstLoad
<1>2. CASE Reload
  <2>1. CASE Turn(Load(cur))
    BY <1>2, <2>1, TurnKeepsWatchInv DEF Reload
  <2>2. CASE Load(cur) = cur /\ UNCHANGED <<cur, netifs, pc>>
    <3>1. Load(cur)' = Load(cur)
      BY <2>2 DEF Load, StateOf, Usable
    <3>2. watch = "load"
      BY <1>2 DEF Reload
    <3> QED BY <2>2, <3>1, <3>2
  <2> QED BY <1>2, <2>1, <2>2 DEF Reload
<1>3. CASE Start \/ Notified
  BY <1>3 DEF Start, Notified
<1>4. CASE MdnsFails \/ MdnsRetried
  BY <1>4 DEF MdnsFails, MdnsRetried, Load, StateOf, Usable
<1>5. CASE RunEnds
  BY <1>5 DEF RunEnds, EmptyState
<1>6. CASE \E i \in Ifs : NetifChanges(i)
  BY <1>6 DEF NetifChanges
<1>7. CASE UNCHANGED vars
  BY <1>7 DEF vars, Load, StateOf, Usable
<1> QED BY <1>1, <1>2, <1>3, <1>4, <1>5, <1>6, <1>7 DEF Next

(* The inductive invariant of the watch (src/src/lib.rs:592-655).          *)
THEOREM WatchInvHolds == Spec => []WatchInv
  BY InitWatchInv, NextWatchInv, PTL DEF Spec

-----------------------------------------------------------------------------
(* A state without addresses is of the right type.                         *)
LEMMA EmptyFits == <<>> \in BoundedSeq(Addrs, MaxAddrs)
<1>1. <<>> \in [1..0 -> Addrs]
  OBVIOUS
<1>2. 0 \in 0..MaxAddrs
  BY NetifAssumption
<1> QED BY <1>1, <1>2 DEF BoundedSeq, SeqOf

(* A load gives a state of the right type.                                 *)
LEMMA LoadType ==
  ASSUME TypeOK, NEW prev, prev.index \in 0..NetIfs
  PROVE  Load(prev) \in [ operational : BOOLEAN, ipv6 : BoundedSeq(Addrs, MaxAddrs),
                          index : 0..NetIfs ]
<1> DEFINE usable == { i \in Ifs : Usable(i) }
<1>1. CASE usable = {}
  BY <1>1, EmptyFits DEF Load, EmptyState
<1>2. CASE usable # {}
  <2>1. Load(prev) = StateOf(Max(usable)) /\ Max(usable) \in Ifs
    BY <1>2, LastExists DEF Load
  <2> DEFINE i == Max(usable)
             k == Collected(netifs[i].addrs)
  <2> HIDE DEF i
  <2>2. i \in Ifs /\ netifs[i] \in Conditions
    BY <2>1 DEF TypeOK, i
  <2>3. /\ netifs[i].addrs \in Seq(Range(netifs[i].addrs))
        /\ Range(netifs[i].addrs) \subseteq Addrs
    BY <2>2, NetifAssumption DEF Addrs
  <2> DEFINE addrs == netifs[i].addrs
  <2> HIDE DEF addrs
  <2>4. k \in Seq(Addrs) /\ Len(k) <= MaxAddrs
    <3>1. addrs \in Seq(Range(addrs)) /\ Range(addrs) \subseteq Addrs
      BY <2>3 DEF addrs
    <3>2. /\ Collected(addrs) \in Seq(Range(addrs) \ {Unspecified})
          /\ Len(Collected(addrs)) <= MaxAddrs
      BY <3>1, CollectedIs
    <3>3. Collected(addrs) \in Seq(Addrs)
      BY <3>1, <3>2
    <3> QED BY <3>2, <3>3 DEF addrs
  <2> HIDE DEF k
  <2>5. k \in BoundedSeq(Addrs, MaxAddrs)
    <3>1. k \in [1..Len(k) -> Addrs] /\ Len(k) \in 0..MaxAddrs
      BY <2>4, NetifAssumption
    <3> QED BY <3>1 DEF BoundedSeq, SeqOf
  <2>6. StateOf(i) = [operational |-> TRUE, ipv6 |-> k, index |-> i] /\ i \in 0..NetIfs
    BY <2>2, NetifAssumption DEF StateOf, k, Ifs
  <2> HIDE DEF k
  <2>7. Load(prev) = StateOf(i)
    BY <2>1 DEF i
  <2> QED BY <2>5, <2>6, <2>7
<1> QED BY <1>1, <1>2

(* No step leaves the types.                                               *)
LEMMA NextTypeOK == TypeOK /\ [Next]_vars => TypeOK'
<1> SUFFICES ASSUME TypeOK, [Next]_vars PROVE TypeOK'
  OBVIOUS
<1> DEFINE States == [ operational : BOOLEAN, ipv6 : BoundedSeq(Addrs, MaxAddrs),
                       index : 0..NetIfs ]
<1>1. EmptyState \in States
  BY EmptyFits, NetifAssumption DEF EmptyState
<1>2. Load(EmptyState) \in States /\ Load(cur) \in States
  BY LoadType, NetifAssumption DEF TypeOK, EmptyState
<1>3. cur' \in States
  BY <1>1, <1>2 DEF TypeOK, Next, Start, FirstLoad, Reload, Turn, Notified, MdnsFails,
                    MdnsRetried, RunEnds, NetifChanges, vars
<1>4. netifs' \in [Ifs -> Conditions]
  BY DEF TypeOK, Next, Start, FirstLoad, Reload, Notified, MdnsFails,
         MdnsRetried, RunEnds, NetifChanges, vars
<1>5. /\ pc' \in {"off", "first", "on"}
      /\ watch' \in {"off", "load", "wait"}
      /\ mdns' \in {"off", "running", "delay", "pending"}
      /\ notified' \in BOOLEAN
  BY DEF TypeOK, Next, Start, FirstLoad, Reload, Turn, Notified, MdnsFails,
         MdnsRetried, RunEnds, NetifChanges, vars
<1> QED BY <1>3, <1>4, <1>5 DEF TypeOK

(* Type correctness: no list of addresses overruns the room there is for   *)
(* it (src/src/lib.rs:565-578).                                            *)
THEOREM TypeCorrect == Spec => []TypeOK
<1>1. Init => TypeOK
  <2>1. EmptyState \in [ operational : BOOLEAN, ipv6 : BoundedSeq(Addrs, MaxAddrs),
                         index : 0..NetIfs ]
    BY EmptyFits, NetifAssumption DEF EmptyState
  <2> QED BY <2>1 DEF Init, TypeOK
<1> QED BY <1>1, NextTypeOK, PTL DEF Spec

-----------------------------------------------------------------------------
(* What is loaded from an interface is what it has.                        *)
LEMMA LastReflected ==
  ASSUME TypeOK, cur = Load(cur)
  PROVE  Reflects(cur)
<1> DEFINE usable == { i \in Ifs : Usable(i) }
<1>1. CASE ~cur.operational
  BY <1>1, LoadGives DEF Reflects
<1>2. CASE cur.operational
  <2>1. usable # {}
    BY <1>2, LoadGives
  <2>2. cur = StateOf(Max(usable))
    BY <2>1 DEF Load
  <2>3. Max(usable) \in usable /\ \A i \in usable : i <= Max(usable)
    BY <2>1, LastExists
  <2> DEFINE i == Max(usable)
             addrs == netifs[i].addrs
             real == Range(addrs) \ {Unspecified}
             k == Collected(addrs)
  <2> HIDE DEF i
  <2>4. cur.index = i /\ cur.ipv6 = k
    BY <2>2 DEF StateOf, i
  <2>5. i \in Ifs /\ Usable(i) /\ netifs[i] \in Conditions
    BY <2>3 DEF TypeOK, i
  <2>6. \A j \in Ifs : j > i => ~Usable(j)
    BY <2>3, <2>5, NetifAssumption DEF Ifs, i
  <2>7. addrs \in Seq(Range(addrs))
    BY <2>5, NetifAssumption
  <2> HIDE DEF addrs
  <2>8. IsInjective(k) /\ k \in Seq(real) /\ Len(k) = Min({MaxAddrs, Cardinality(real)})
    BY <2>7, CollectedIs
  <2> HIDE DEF k, real
  <2>9. Range(k) \subseteq real
    BY <2>8 DEF Range
  <2> QED BY <1>2, <2>4, <2>5, <2>6, <2>8, <2>9 DEF Reflects, real, addrs
<1> QED BY <1>1, <1>2

(* Once the watch sleeps with nothing signalled, mDNS is run with what the *)
(* interface has: no change between a load and the await that follows it   *)
(* is missed (src/src/lib.rs:600-613).                                     *)
THEOREM SettlesOnWhatIs == Spec => []SettledReflects
<1>1. WatchInv /\ TypeOK => SettledReflects
  BY LastReflected DEF WatchInv, SettledIsCurrent, SettledReflects
<1> QED BY <1>1, WatchInvHolds, TypeCorrect, PTL

(* mDNS is torn down only to be run with other arguments, or no more, or   *)
(* again: the stale index of a state that is down makes no turn            *)
(* (src/src/lib.rs:557-560, 603).                                          *)
THEOREM NoTurnIsIdle == Spec => NoIdleTurn
<1> DEFINE Idle == pc = "on" /\ pc' = "on" /\ cur' # cur => RunWith(cur') # RunWith(cur)
<1>1. WatchInv /\ TypeOK /\ TypeOK' /\ [Next]_vars => Idle
  <2> SUFFICES ASSUME WatchInv, TypeOK, TypeOK', [Next]_vars, pc = "on", pc' = "on",
                      cur' # cur
               PROVE  RunWith(cur') # RunWith(cur)
    OBVIOUS
  <2>1. cur' = Load(cur)
    BY DEF Next, Start, FirstLoad, Reload, Turn, Notified, MdnsFails, MdnsRetried,
           RunEnds, NetifChanges, vars
  <2>2. CASE ~cur.operational
    <3>1. cur'.operational
      BY <2>1, <2>2, LoadGives DEF WatchInv, DownIsEmpty
    <3> QED BY <2>2, <3>1 DEF RunWith
  <2>3. CASE cur.operational /\ ~cur'.operational
    BY <2>3 DEF RunWith
  <2>4. CASE cur.operational /\ cur'.operational
    <3>1. cur.ipv6 # cur'.ipv6 \/ cur.index # cur'.index
      BY <2>4 DEF TypeOK
    <3>2. <<cur.ipv6, cur.index>> # <<cur'.ipv6, cur'.index>>
      BY <3>1
    <3>3. /\ RunWith(cur) = {<<cur.ipv6, cur.index>>}
          /\ RunWith(cur') = {<<cur'.ipv6, cur'.index>>}
      BY <2>4 DEF RunWith
    <3> QED BY <3>2, <3>3
  <2> QED BY <2>2, <2>3, <2>4
<1>2. WatchInv /\ TypeOK /\ TypeOK' /\ [Next]_vars => [Idle]_vars
  BY <1>1
<1> QED BY <1>2, WatchInvHolds, TypeCorrect, PTL DEF Spec, NoIdleTurn

-----------------------------------------------------------------------------
(* Liveness.  The prover does not look into ENABLED: that a step of the    *)
(* loop can be taken when its guard holds is a hypothesis, and the only    *)
(* one.  It is true by the definitions of the three actions, whose guards  *)
(* are all that they demand of the state they start from.                  *)
GuardsEnable ==
  /\ watch = "load" => ENABLED <<Reload>>_vars
  /\ watch = "wait" /\ notified => ENABLED <<Notified>>_vars
  /\ mdns = "delay" => ENABLED <<MdnsRetried>>_vars

(* What mDNS does while the loop is on, cur being the state of the turn.   *)
MdnsOfTurn == IF cur.operational THEN {"running", "delay"} ELSE {"pending"}
TurnInv == pc = "on" => watch \in {"load", "wait"} /\ mdns \in MdnsOfTurn

(* Every turn makes both futures anew, and only its end drops them.        *)
LEMMA NextTurnInv == TurnInv /\ WatchInv /\ [Next]_vars => TurnInv'
  BY DEF TurnInv, MdnsOfTurn, WatchInv, Watches, Next, Start, FirstLoad, Reload, Turn,
         Notified, MdnsFails, MdnsRetried, RunEnds, NetifChanges, vars

(* All that the proof of liveness needs to know of a state.                *)
LiveInv == TypeOK /\ WatchInv /\ TurnInv

LEMMA LiveInvHolds == Spec => []LiveInv
<1>1. Init => TurnInv
  BY DEF Init, TurnInv
<1> QED BY <1>1, NextTurnInv, WatchInvHolds, TypeCorrect, PTL DEF Spec, LiveInv

(* A load of what has just been loaded gives the same again.               *)
LEMMA LoadTwice == \A prev : Load(Load(prev)) = Load(prev)
  BY DEF Load, EmptyState

-----------------------------------------------------------------------------
(* The state of the turn is what a load would give.                        *)
Fresh == cur = Load(cur)

Stale(w) == pc = "on" /\ ~Fresh /\ watch = w
Retrying == pc = "on" /\ Fresh /\ mdns = "delay"
Advertised == pc = "on" /\ Fresh /\ mdns = IF cur.operational THEN "running" ELSE "pending"

(* A step of a loop that stays on, with interfaces that stay as they are.  *)
Steady == [Next]_vars /\ [UNCHANGED netifs]_vars /\ pc = "on" /\ (pc = "on")'

(* With the interfaces as they are, a fresh state stays: no turn is begun. *)
LEMMA FreshStays ==
  ASSUME LiveInv, Steady, Fresh
  PROVE  Fresh' /\ UNCHANGED cur
<1>1. UNCHANGED netifs
  BY DEF Steady, vars
<1>2. UNCHANGED cur
  BY DEF Steady, Fresh, Next, Start, FirstLoad, Reload, Turn, Notified, MdnsFails,
         MdnsRetried, RunEnds, NetifChanges, vars
<1> QED BY <1>1, <1>2 DEF Fresh, Load, StateOf, Usable

(* A stale one is replaced only by a fresh one.                            *)
LEMMA StaleUntilFresh ==
  ASSUME LiveInv, Steady, ~Fresh
  PROVE  Fresh' \/ (UNCHANGED cur /\ (UNCHANGED watch \/ watch' = "load"))
<1>1. UNCHANGED netifs
  BY DEF Steady, vars
<1>2. CASE Reload
  <2>1. cur' = Load(cur)
    BY <1>2 DEF Reload, Fresh, Turn
  <2>2. Load(cur)' = Load(Load(cur))
    BY <1>1, <2>1 DEF Load, StateOf, Usable
  <2> QED BY <2>1, <2>2, LoadTwice DEF Fresh
<1>3. CASE ~Reload
  BY <1>3 DEF Steady, Next, Start, FirstLoad, Notified, MdnsFails, MdnsRetried, RunEnds,
              NetifChanges, vars
<1> QED BY <1>2, <1>3

(* What such a step does, stage by stage.                                  *)
LEMMA SteadyStep ==
  ASSUME LiveInv, Steady
  PROVE  /\ Stale("load") => (Stale("load") \/ Retrying \/ Advertised)'
         /\ Stale("wait") => (Stale("wait") \/ Stale("load") \/ Retrying \/ Advertised)'
         /\ Retrying \/ Advertised => (Retrying \/ Advertised)'
<1>1. TurnInv'
  BY NextTurnInv DEF LiveInv, Steady
<1>2. Fresh' => (Retrying \/ Advertised)'
  BY <1>1 DEF Steady, TurnInv, MdnsOfTurn, Retrying, Advertised
<1>3. ~Fresh /\ ~Fresh' => watch' \in {watch, "load"}
  BY StaleUntilFresh
<1> QED BY <1>2, <1>3, FreshStays DEF Steady, Stale, Retrying, Advertised

(* And what the steps that are fair do.                                    *)
LEMMA SteadyProgress ==
  ASSUME LiveInv, Steady
  PROVE  /\ Stale("load") /\ Reload => ~Stale("load")'
         /\ Stale("wait") /\ Notified => ~Stale("wait")'
         /\ Retrying /\ MdnsRetried => Advertised'
<1>1. Stale("load") /\ Reload => ~Stale("load")'
  <2> SUFFICES ASSUME Stale("load"), Reload, ~Fresh' PROVE FALSE
    BY DEF Stale
  <2>1. UNCHANGED cur
    BY StaleUntilFresh DEF Stale
  <2> QED BY <2>1 DEF Stale, Fresh, Reload, Turn
<1>2. Stale("wait") /\ Notified => ~Stale("wait")'
  BY DEF Stale, Notified
<1>3. Retrying /\ MdnsRetried => Advertised'
  <2> SUFFICES ASSUME Retrying, MdnsRetried PROVE Advertised'
    OBVIOUS
  <2>1. Fresh' /\ cur' = cur /\ pc' = pc /\ mdns' = "running"
    BY FreshStays DEF Retrying, MdnsRetried
  <2>2. cur.operational
    BY DEF Retrying, LiveInv, TurnInv, MdnsOfTurn
  <2> QED BY <2>1, <2>2 DEF Retrying, Advertised
<1> QED BY <1>1, <1>2, <1>3

(* When the interfaces stop changing, mDNS gets to run with what they      *)
(* have, again and again if it fails, or to rest if none is usable: for    *)
(* any number of interfaces, in any conditions (src/src/lib.rs:600-655).   *)
THEOREM MdnsGetsThere == Spec /\ []GuardsEnable => MdnsCatchesUp
<1> DEFINE Good == Reflects(cur) /\ mdns = IF cur.operational THEN "running" ELSE "pending"
           On == pc = "on"
<1>1. LiveInv /\ On => Stale("load") \/ Stale("wait") \/ Retrying \/ Advertised
  BY DEF LiveInv, TurnInv, MdnsOfTurn, Stale, Retrying, Advertised
<1>2. LiveInv /\ [Next]_vars /\ [UNCHANGED netifs]_vars /\ On /\ On' =>
        /\ Stale("load") => (Stale("load") \/ Retrying \/ Advertised)'
        /\ Stale("wait") => (Stale("wait") \/ Stale("load") \/ Retrying \/ Advertised)'
        /\ Retrying \/ Advertised => (Retrying \/ Advertised)'
  BY SteadyStep DEF Steady
<1>3. LiveInv /\ [Next]_vars /\ [UNCHANGED netifs]_vars /\ On /\ On' =>
        /\ Stale("load") /\ <<Reload>>_vars => ~Stale("load")'
        /\ Stale("wait") /\ <<Notified>>_vars => ~Stale("wait")'
        /\ Retrying /\ <<MdnsRetried>>_vars => Advertised'
  BY SteadyProgress DEF Steady
<1>4. LiveInv /\ GuardsEnable =>
        /\ Stale("load") => ENABLED <<Reload>>_vars
        /\ Stale("wait") => ENABLED <<Notified>>_vars
        /\ Retrying => ENABLED <<MdnsRetried>>_vars
  BY DEF LiveInv, WatchInv, SettledIsCurrent, Settled, Fresh, Stale, Retrying, GuardsEnable
<1>5. LiveInv /\ Advertised => Good
  BY LastReflected DEF LiveInv, Fresh, Advertised
<1> HIDE DEF Good, On
<1>6. Spec /\ []GuardsEnable /\ <>[]On /\ <>[][UNCHANGED netifs]_vars => []<>Good
  BY <1>1, <1>2, <1>3, <1>4, <1>5, LiveInvHolds, PTL DEF Spec
<1> QED BY <1>6, PTL DEF MdnsCatchesUp, Good, On
=============================================================================
