---------------------------- MODULE MCSubscriptions ---------------------------
(* Instances of Subscriptions for TLC. *)
EXTENDS Subscriptions, TLC

CONSTANTS p, c   \* c below p

Tree == (p :> {}) @@ (c :> {p})
===============================================================================
