------------------------------ MODULE MCBumpRun -----------------------------
(* The allocator and three concurrent callers, for TLC: one of `run`, and   *)
(* two of `run_coex`.                                                      *)
EXTENDS BumpRun, TLC

CONSTANTS root, btp, net, im, handler, unit, run, coex, late

(* The future of a run; the BTP future; the operational transport; that of *)
(* the Interaction Model; an exchange handler, of one byte; and a ZST.     *)
MCLayout == (root :> [size |-> 8, align |-> 4]) @@ (btp :> [size |-> 4, align |-> 2])
            @@ (net :> [size |-> 3, align |-> 4]) @@ (im :> [size |-> 2, align |-> 2])
            @@ (handler :> [size |-> 1, align |-> 1])
            @@ (unit :> [size |-> 0, align |-> 4])

MCParent == (btp :> root) @@ (net :> root) @@ (im :> root)
            @@ (handler :> im) @@ (unit :> handler)

Coex == {btp, net, im, handler, unit}
MCUses == (run :> {btp}) @@ (coex :> Coex) @@ (late :> Coex)
MCRephased == (run :> {btp}) @@ (coex :> {}) @@ (late :> {})
=============================================================================
