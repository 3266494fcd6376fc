------------------------------ MODULE MCGspRpc ------------------------------
(***************************************************************************)
(* Small instances of GspRpc.  A page is four units and a record at most   *)
(* two pages, so a control request of seven units is cut into a record of  *)
(* two pages and one of one page.  A reply fills one page; a log event of  *)
(* five units fills two.  A length of four units is one of those for which *)
(* the header in front of the message pushes it into one more page.        *)
(***************************************************************************)
EXTENDS GspRpc

MCPayload  == [k \in Kinds |-> IF k = "control" THEN 7 ELSE 1]
MCReplyLen == [k \in CallKinds \cup {"unload"} |-> 2]
MCEventLen == [k \in Events |-> IF k = "log" THEN 5 ELSE 2]
MCLongLen  == [k \in Events |-> IF k = "seq" THEN 4 ELSE 2]

(* Host memory has a page for each slot; the USB bridge has two pages for  *)
(* the four slots of the status ring.                                      *)
OwnPages     == [s \in 0 .. StatCount - 1 |-> s]
AliasedPages == [s \in 0 .. StatCount - 1 |-> s % 2]

NoHeader     == {-1}
LeftHeader   == {-1, 2}
=============================================================================
