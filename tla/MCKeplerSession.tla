---------------------------- MODULE MCKeplerSession ----------------------------
(* The Kepler session on small numbers: two windows of two launches. *)
EXTENDS KeplerSession
=============================================================================
