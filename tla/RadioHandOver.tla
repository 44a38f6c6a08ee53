--------------------------- MODULE RadioHandOver ----------------------------
(***************************************************************************)
(* What a commissioner sees of a device with one radio: the radio carries  *)
(* BLE, or the operational network, or nothing; credentials are given over *)
(* either; a connect that is asked for over BLE is performed before the    *)
(* device serves on the operational network, for the network it was asked  *)
(* for; and nothing is persisted but over that network.  The state of the  *)
(* run loop, of its drivers, tasks and Interaction Models                  *)
(* (src/src/wireless/wifi.rs:212-270, 481-622) is abstracted away.         *)
(* WirelessRun implements this specification.                              *)
(***************************************************************************)
CONSTANTS Nets, None

VARIABLES
  radio,    \* "none", "ble" or "oper"
  asked,    \* the network of a connect that is still to be performed
  known,    \* the networks the device knows
  granted,  \* those it has been given and that are not persisted yet
  joined,   \* the network it has last connected to since power-up
  kept      \* the networks that survive a loss of power

vars == <<radio, asked, known, granted, joined, kept>>

Init ==
  /\ radio = "none"
  /\ asked = None
  /\ known = {}
  /\ granted = {}
  /\ joined = None
  /\ kept \in SUBSET Nets

-----------------------------------------------------------------------------
(* The radio.                                                              *)

Advertise ==
  /\ radio = "none"
  /\ asked = None
  /\ radio' = "ble"
  /\ UNCHANGED <<asked, known, granted, joined, kept>>

(* The operational network comes up; a connect that was asked for has been *)
(* performed, for that very network, which is still known.  If none was    *)
(* asked for the device stays with the network it had.                     *)
Join ==
  /\ radio = "none"
  /\ asked \in known \union {None}
  /\ radio' = "oper"
  /\ asked' = None
  /\ joined' = IF asked = None THEN joined ELSE asked
  /\ UNCHANGED <<known, granted, kept>>

(* On the operational network the device connects to one it knows.         *)
Move(n) ==
  /\ radio = "oper"
  /\ n \in known
  /\ joined' = n
  /\ UNCHANGED <<radio, asked, known, granted, kept>>

Release ==
  /\ radio # "none"
  /\ radio' = "none"
  /\ UNCHANGED <<asked, known, granted, joined, kept>>

(* The connect has failed, or a new attempt begins.                        *)
GiveUp ==
  /\ radio = "none"
  /\ asked' = None
  /\ UNCHANGED <<radio, known, granted, joined, kept>>

PowerLoss ==
  /\ radio' = "none"
  /\ asked' = None
  /\ known' = {}
  /\ granted' = {}
  /\ joined' = None
  /\ UNCHANGED kept

-----------------------------------------------------------------------------
(* The commissioner, over whatever the radio carries.                      *)

Grant(n) ==
  /\ radio # "none"
  /\ known' = known \union {n}
  /\ granted' = granted \union {n}
  /\ UNCHANGED <<radio, asked, joined, kept>>

Revoke(n) ==
  /\ radio # "none"
  /\ known' = known \ {n}
  /\ granted' = granted \ {n}
  /\ UNCHANGED <<radio, asked, joined, kept>>

Ask(n) ==
  /\ radio = "ble"
  /\ n \in known
  /\ asked' = n
  /\ UNCHANGED <<radio, known, granted, joined, kept>>

(* Another request is refused, and makes the device forget the connect.    *)
TakeBack ==
  /\ radio = "ble"
  /\ asked' = None
  /\ UNCHANGED <<radio, known, granted, joined, kept>>

Complete ==
  /\ radio = "oper"
  /\ kept' = known
  /\ granted' = {}
  /\ UNCHANGED <<radio, asked, known, joined>>

(* The attempt is rolled back.                                             *)
Expire ==
  /\ radio # "none"
  /\ known' = kept
  /\ granted' = {}
  /\ UNCHANGED <<radio, asked, joined, kept>>

(* The device recalls what it has persisted, never over what it was given. *)
Recall ==
  /\ radio # "none"
  /\ granted = {}
  /\ known' = kept
  /\ UNCHANGED <<radio, asked, granted, joined, kept>>

Next == \/ Advertise \/ Join \/ Release \/ GiveUp \/ PowerLoss
        \/ TakeBack \/ Complete \/ Expire \/ Recall
        \/ \E n \in Nets : Grant(n) \/ Revoke(n) \/ Ask(n) \/ Move(n)

(* BLE is let go once a connect has been asked for.                        *)
Spec == /\ Init
        /\ [][Next]_vars
        /\ WF_vars(asked # None /\ radio = "ble" /\ Release)
=============================================================================
