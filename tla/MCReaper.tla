------------------------------- MODULE MCReaper -------------------------------
(* Instances of Reaper for TLC. *)
EXTENDS Reaper, TLC

CONSTANTS h1, h2, h3, A, B

\* Two holds on one resource, one on another.
Homes == (h1 :> A) @@ (h2 :> A) @@ (h3 :> B)
===============================================================================
