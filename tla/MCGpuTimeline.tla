---------------------------- MODULE MCGpuTimeline ----------------------------
(***************************************************************************)
(* Small instances of GpuTimeline.  A stream is two words for a bind, four *)
(* for the local memory setup and three for a launch; 300 stands for the   *)
(* bus address the socket server leaves in a fresh sysmem page.            *)
(***************************************************************************)
EXTENDS GpuTimeline

MCJobLen == [k \in Kinds |-> CASE k = "slm" -> 4 [] k = "launch" -> 3 [] OTHER -> 2]

ZeroPage  == {0}
DirtyPage == {0, 300}
==============================================================================
