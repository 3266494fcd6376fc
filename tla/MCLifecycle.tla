------------------------------ MODULE MCLifecycle ------------------------------
(***************************************************************************)
(* Two processes contend for the GPU, and three things go wrong.           *)
(***************************************************************************)
EXTENDS Lifecycle

CONSTANTS p1, p2
MCProcs == {p1, p2}
================================================================================
