---------------------------- MODULE MCEventBus ----------------------------
(* Two event types; two listeners of the first and one of the second.      *)
EXTENDS EventBusProofs, TLC

CONSTANTS incoming, birth, l1, l2, m1

MCHears == (l1 :> incoming) @@ (l2 :> incoming) @@ (m1 :> birth)
===========================================================================
