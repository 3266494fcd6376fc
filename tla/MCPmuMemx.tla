------------------------------ MODULE MCPmuMemx ------------------------------
(* Small programs for the PMU path. *)
EXTENDS PmuMemx

Safe == [atomic |-> FALSE, block |-> "0", hostProg0 |-> FALSE, require |-> TRUE,
         preflight |-> TRUE, wait |-> FALSE, passes |-> 1, pramin |-> FALSE,
         late |-> TRUE]
Atomic == [Safe EXCEPT !.atomic = TRUE, !.block = "atomic"]

(* Settings under which a deadline that passed ends the program. *)
MCSettings ==
    {[Safe EXCEPT !.pramin = TRUE, !.passes = 2],
     [Safe EXCEPT !.hostProg0 = TRUE],
     [Safe EXCEPT !.require = FALSE, !.late = FALSE, !.passes = 2],
     [Safe EXCEPT !.require = FALSE, !.late = FALSE, !.hostProg0 = TRUE, !.pramin = TRUE],
     [Safe EXCEPT !.block = "enter", !.late = FALSE],
     [Atomic EXCEPT !.passes = 2],
     [Atomic EXCEPT !.require = FALSE, !.late = FALSE],
     [Atomic EXCEPT !.wait = TRUE, !.preflight = FALSE],
     [Safe EXCEPT !.wait = TRUE, !.preflight = FALSE, !.block = "atomic"],
     [Atomic EXCEPT !.wait = TRUE, !.preflight = FALSE, !.block = "0", !.late = FALSE],
     [Atomic EXCEPT !.wait = TRUE, !.preflight = FALSE, !.late = FALSE, !.pramin = TRUE]}

(* The same firmware, slow instead of dead, where the program goes on. *)
MCLateSettings ==
    {[Safe EXCEPT !.block = "enter"], [Safe EXCEPT !.require = FALSE, !.passes = 2]}

(* A pause the host asks for by itself while it builds an atomic script. *)
MCEnterSettings == {[Atomic EXCEPT !.block = "enter", !.late = FALSE]}

MCProg0s == {<<O("nvmask", "a", 1)>>}
MCBodies ==
    {<<O("mask", "a", x), O("write", "b", 1), Plain("delay"), O("mask", "b", y),
       O("write", "h", 1), O("write", "a", 0), O("write", "b", y)>> : x, y \in {0, 1}}
    \cup {<<O("write", "b", 1), Plain("wait"), O("mask", "b", 0), O("mask", "a", 1)>>}
MCTails == {<<O("write", "a", 0)>>}
MCStores == <<O("store", "b", 0), O("store", "a", 1)>>
=============================================================================
