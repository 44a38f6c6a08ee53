----------------------------- MODULE NetifMdns ------------------------------
(***************************************************************************)
(* The operational network as the stack watches it: mDNS runs with the     *)
(* addresses of the network interface, and is restarted when they change.  *)
(*                                                                         *)
(* `run_oper_netif_mdns` (src/src/lib.rs:518-664) loads the state of the   *)
(* interfaces and then, turn by turn, runs mDNS with it until a re-load    *)
(* finds it changed.  mDNS that fails is retried after five seconds.       *)
(***************************************************************************)
EXTENDS Naturals, SequencesExt

CONSTANTS
  NetIfs,       \* how many interfaces there are; the driver lists them in order
  Conditions,   \* the conditions an interface may be in
  Unspecified,  \* the unspecified IPv6 address
  MaxAddrs      \* MAX_NETIF_IPV6_ADDRS

ASSUME NetifAssumption ==
  /\ NetIfs \in Nat
  /\ MaxAddrs \in Nat \ {0}
  /\ \A c \in Conditions : c.operational \in BOOLEAN /\ c.addrs \in Seq(Range(c.addrs))

VARIABLES
  netifs,    \* netifs[i]: whether interface i is operational, and its addresses
  notified,  \* a change has been signalled and not been consumed by an await
  pc,        \* "off", "first" (before the loop) or "on"
  cur,       \* the NetifState of the current turn
  watch,     \* wait_changed: about to "load", or in its "wait"
  mdns       \* "running" with cur, in the "delay" of a retry, or "pending"

vars == <<netifs, notified, pc, cur, watch, mdns>>

Ifs == 1..NetIfs
Addrs == UNION { Range(c.addrs) : c \in Conditions }

EmptyState == [operational |-> FALSE, ipv6 |-> <<>>, index |-> 0]

TypeOK ==
  /\ netifs \in [Ifs -> Conditions]
  /\ pc \in {"off", "first", "on"}
  /\ cur \in [operational : BOOLEAN, ipv6 : BoundedSeq(Addrs, MaxAddrs), index : 0..NetIfs]
  /\ watch \in {"off", "load", "wait"}
  /\ mdns \in {"off", "running", "delay", "pending"}
  /\ notified \in BOOLEAN

Init ==
  /\ netifs \in [Ifs -> Conditions]
  /\ notified = FALSE
  /\ pc = "off"
  /\ cur = EmptyState
  /\ watch = "off"
  /\ mdns = "off"

-----------------------------------------------------------------------------
(* load_netif_state.                                                       *)

Usable(i) == netifs[i].operational /\ netifs[i].addrs # <<>>

(* Mutant: more addresses than the state has room for.                     *)
PushedUncapped(kept, a) ==
  IF a = Unspecified \/ a \in Range(kept) THEN kept ELSE Append(kept, a)

(* state.ipv6.push, of an address that is worth it.                        *)
Pushed(kept, a) ==
  IF a = Unspecified \/ a \in Range(kept) \/ Len(kept) = MaxAddrs
    THEN kept ELSE Append(kept, a)

(* Collecting[n] is state.ipv6 after the first n addresses.                *)
Collecting(addrs) ==
  LET kept[n \in 0..Len(addrs)] ==
        IF n = 0 THEN <<>> ELSE Pushed(kept[n - 1], addrs[n])
  IN  kept

(* The first MaxAddrs different addresses, other than the unspecified one. *)
Collected(addrs) == Collecting(addrs)[Len(addrs)]

StateOf(i) == [operational |-> TRUE, ipv6 |-> Collected(netifs[i].addrs), index |-> i]

(* Mutant: the index is taken from interfaces that are down, too.          *)
LoadIndexOfAny(prev) ==
  LET usable == { i \in Ifs : Usable(i) }
      addressed == { i \in Ifs : netifs[i].addrs # <<>> }
  IN  CASE usable # {} -> StateOf(Max(usable))
        [] usable = {} /\ addressed # {} -> [EmptyState EXCEPT !.index = Max(addressed)]
        [] OTHER -> [EmptyState EXCEPT !.index = prev.index]

(* Each usable interface overwrites the one before; the index is the only  *)
(* field that is not cleared first.                                        *)
Load(prev) ==
  LET usable == { i \in Ifs : Usable(i) }
  IN  IF usable = {} THEN [EmptyState EXCEPT !.index = prev.index]
                     ELSE StateOf(Max(usable))

-----------------------------------------------------------------------------
(* The driver.  A notification lasts until it is awaited.                  *)
NetifChanges(i) ==
  /\ \E c \in Conditions \ {netifs[i]} : netifs' = [netifs EXCEPT ![i] = c]
  /\ notified' = TRUE
  /\ UNCHANGED <<pc, cur, watch, mdns>>

(* The operational phase begins: the loop is polled.                       *)
Start ==
  /\ pc = "off"
  /\ pc' = "first"
  /\ UNCHANGED <<netifs, notified, cur, watch, mdns>>

(* One turn of the loop: both futures are dropped, and made anew.          *)
Turn(s) ==
  /\ cur' = s
  /\ watch' = "load"
  /\ mdns' = IF s.operational THEN "running" ELSE "pending"

FirstLoad ==
  /\ pc = "first"
  /\ pc' = "on"
  /\ Turn(Load(EmptyState))
  /\ UNCHANGED <<netifs, notified>>

(* Mutant: only going up or down counts as a change.                       *)
ReloadComparesUpDown ==
  /\ watch = "load"
  /\ LET s == Load(cur)
     IN  \/ s.operational # cur.operational /\ Turn(s)
         \/ s.operational = cur.operational /\ watch' = "wait" /\ UNCHANGED <<cur, mdns>>
  /\ UNCHANGED <<netifs, notified, pc>>

(* wait_changed re-loads first, and awaits only if nothing has changed.    *)
Reload ==
  /\ watch = "load"
  /\ LET s == Load(cur)
     IN  \/ s # cur /\ Turn(s)
         \/ s = cur /\ watch' = "wait" /\ UNCHANGED <<cur, mdns>>
  /\ UNCHANGED <<netifs, notified, pc>>

Notified ==
  /\ watch = "wait"
  /\ notified
  /\ notified' = FALSE
  /\ watch' = "load"
  /\ UNCHANGED <<netifs, pc, cur, mdns>>

(* Mutant: mDNS that has failed is not run again.                          *)
MdnsFailsForGood ==
  /\ mdns = "running"
  /\ mdns' = "pending"
  /\ UNCHANGED <<netifs, notified, pc, cur, watch>>

(* mdns.run returns, with whatever result.                                 *)
MdnsFails ==
  /\ mdns = "running"
  /\ mdns' = "delay"
  /\ UNCHANGED <<netifs, notified, pc, cur, watch>>

MdnsRetried ==
  /\ mdns = "delay"
  /\ mdns' = "running"
  /\ UNCHANGED <<netifs, notified, pc, cur, watch>>

(* The state cannot be loaded, the user task returns, another task of the  *)
(* phase ends it, or it is dropped.                                        *)
RunEnds ==
  /\ pc # "off"
  /\ pc' = "off"
  /\ cur' = EmptyState
  /\ watch' = "off"
  /\ mdns' = "off"
  /\ UNCHANGED <<netifs, notified>>

Next == \/ Start \/ FirstLoad \/ Reload \/ Notified
        \/ MdnsFails \/ MdnsRetried \/ RunEnds
        \/ \E i \in Ifs : NetifChanges(i)

Spec == /\ Init
        /\ [][Next]_vars
        /\ WF_vars(FirstLoad)
        /\ WF_vars(Reload)
        /\ WF_vars(Notified)
        /\ WF_vars(MdnsRetried)

-----------------------------------------------------------------------------
(* What the last usable interface really has, MaxAddrs of it at most.      *)
Reflects(s) ==
  LET real(i) == Range(netifs[i].addrs) \ {Unspecified}
  IN  IF s.operational
        THEN /\ Usable(s.index)
             /\ \A i \in Ifs : i > s.index => ~Usable(i)
             /\ IsInjective(s.ipv6)
             /\ Range(s.ipv6) \subseteq real(s.index)
             /\ Len(s.ipv6) = Min({MaxAddrs, Cardinality(real(s.index))})
        ELSE \A i \in Ifs : ~Usable(i)

Settled == watch = "wait" /\ ~notified

(* Once the watch sleeps with nothing signalled, mDNS is run with what the *)
(* interface has now, or not at all if no interface is usable: no change   *)
(* between a load and the await that follows it is missed                  *)
(* (src/src/lib.rs:600-613).                                               *)
SettledReflects == Settled => Reflects(cur)

(* The arguments that mDNS is run with in a turn; none if it is not run.   *)
RunWith(s) == IF s.operational THEN {<<s.ipv6, s.index>>} ELSE {}

(* mDNS is not torn down to be run again with the same arguments: a new    *)
(* turn has another interface, or another list of addresses, in which the  *)
(* order counts too (src/src/lib.rs:603), or goes up or down.  The index   *)
(* that a load leaves uncleared (src/src/lib.rs:557-560) makes no turn of  *)
(* its own.                                                                *)
NoIdleTurn ==
  [][pc = "on" /\ pc' = "on" /\ cur' # cur => RunWith(cur') # RunWith(cur)]_vars

(* When the interfaces stop changing, mDNS gets to run with what they      *)
(* have, again and again if it fails, or to rest if none is usable.        *)
MdnsCatchesUp ==
  <>[](pc = "on") /\ <>[][UNCHANGED netifs]_vars =>
    []<>(Reflects(cur) /\ mdns = IF cur.operational THEN "running" ELSE "pending")
=============================================================================
