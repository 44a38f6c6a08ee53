------------------------------- MODULE Arena --------------------------------
(***************************************************************************)
(* What the futures of the stack may expect of the memory they are put in, *)
(* however it is handed out: bytes of their own, where their layout wants  *)
(* them, for as long as they live.  One run at a time takes memory, and    *)
(* has given back all of it when the next one begins.                      *)
(***************************************************************************)
EXTENDS Integers

CONSTANTS
  N,        \* bytes of the arena
  Base,     \* its address
  Tasks,    \* the futures
  Layout,   \* Layout[t]: size and alignment of t
  Members,  \* Members[r]: the futures of run r
  NoRun

VARIABLES
  owned,    \* owned[t]: the bytes that t lives in
  run       \* the run that takes memory, or NoRun

vars == <<owned, run>>

Init == owned = [t \in Tasks |-> {}] /\ run = NoRun

AllGiven == \A t \in Tasks : owned[t] = {}

Begin(r) == run = NoRun /\ AllGiven /\ run' = r /\ UNCHANGED owned
End == run # NoRun /\ AllGiven /\ run' = NoRun /\ UNCHANGED owned

(* t is put at s.  A type of no size needs no memory, aligned or not.      *)
Take(t, s) ==
  LET bytes == s..(s + Layout[t].size - 1)
  IN  /\ run # NoRun /\ t \in Members[run]
      /\ owned[t] = {}
      /\ bytes \subseteq 0..(N - 1)
      /\ Layout[t].size > 0 => (Base + s) % Layout[t].align = 0
      /\ \A u \in Tasks : bytes \intersect owned[u] = {}
      /\ owned' = [owned EXCEPT ![t] = bytes]
      /\ UNCHANGED run

Give(t) ==
  /\ run # NoRun /\ t \in Members[run]
  /\ owned' = [owned EXCEPT ![t] = {}]
  /\ UNCHANGED run

Next == \/ \E r \in DOMAIN Members : Begin(r)
        \/ End
        \/ \E t \in Tasks : Give(t) \/ \E s \in 0..N : Take(t, s)

Spec == Init /\ [][Next]_vars
=============================================================================
