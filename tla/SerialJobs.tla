------------------------------ MODULE SerialJobs ------------------------------
(***************************************************************************)
(* What the timeline promises its user: jobs are numbered in the order     *)
(* they are submitted, they finish one at a time in that order whatever    *)
(* channel runs them, and the host believes a job finished only when it    *)
(* has.                                                                    *)
(***************************************************************************)
EXTENDS Naturals

VARIABLES
  submitted,  \* jobs handed to the device
  completed,  \* jobs that finished
  observed    \* jobs the host knows to be finished

vars == <<submitted, completed, observed>>

Init == submitted = 0 /\ completed = 0 /\ observed = 0

Submit   == submitted' = submitted + 1 /\ UNCHANGED <<completed, observed>>
Complete == /\ completed < submitted
            /\ completed' = completed + 1
            /\ UNCHANGED <<submitted, observed>>
Observe  == /\ observed' \in observed .. completed
            /\ UNCHANGED <<submitted, completed>>

Next == Submit \/ Complete \/ Observe

Spec == Init /\ [][Next]_vars
==============================================================================
