------------------------------ MODULE Windows -------------------------------
(***************************************************************************)
(* The states of the commissioning window as far as the stack tells them   *)
(* apart (src/src/wireless.rs:799-809), and the predicates over them that  *)
(* the stack waits for.                                                    *)
(***************************************************************************)

(* "own" was opened by the device itself (no opener) and is therefore open *)
(* on all transports; "admin" was opened by an administrator over CASE and *)
(* is advertised on the operational network alone.                         *)
WindowStates == {"closed", "own", "admin"}

(* The predicates passed to `wait_comm_window`, each as the set of states  *)
(* it accepts; "none" stands for no wait in progress.                      *)
Accepts ==
  [ none     |-> {},
    own      |-> {"own"},                \* is_open_on_all_transports
    not_own  |-> {"closed", "admin"},    \* !is_open_on_all_transports
    open     |-> {"own", "admin"},       \* is_open
    not_open |-> {"closed"} ]            \* !is_open

Predicates == {"none", "own", "not_own", "open", "not_open"}
=============================================================================
