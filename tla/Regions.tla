------------------------------- MODULE Regions -------------------------------
(***************************************************************************)
(* What an allocator promises: every region it gives out lies in the pool  *)
(* and overlaps no region that is still in use.                            *)
(***************************************************************************)
EXTENDS Integers

CONSTANT PoolSize

VARIABLE live  \* the regions in use: where each starts, and its length

InPool(r) == r.at >= 0 /\ r.len > 0 /\ r.at + r.len <= PoolSize

Apart(r, s) == r.at + r.len <= s.at \/ s.at + s.len <= r.at

Init == live = {}

Give == \E r \in live' \ live :
          /\ InPool(r) /\ \A s \in live : Apart(r, s)
          /\ live' = live \cup {r}

Return == \E r \in live : live' = live \ {r}

Spec == Init /\ [][Give \/ Return]_live
==============================================================================
