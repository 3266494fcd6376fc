-------------------------------- MODULE MCTlsf --------------------------------
(* A pool whose size is no power of two, with two classes in each power of *)
(* two.                                                                    *)
EXTENDS Tlsf
==============================================================================
