------------------------- MODULE KeplerSessionProofs -------------------------
(* Proof that a run of the Kepler example holds one device at a time, for   *)
(* any number of windows, launches, polls and late answers.                 *)
EXTENDS KeplerSession, FiniteSetTheorems, SequenceTheorems, TLAPS

(* The device that is open is this window's, and none is open where the     *)
(* next one is about to be, or where the run ended.                         *)
OpenIsNow ==
    /\ open \subseteq {Now}
    /\ pc \in Ended \cup {"open"} => open = {}

(* The invariant is inductive: NextWindow and Unwind move Now on only after *)
(* they closed what it named.                                               *)
LEMMA OpenStep ==
    ASSUME OpenIsNow, [Next]_vars
    PROVE  OpenIsNow'
<1> USE DEF OpenIsNow, Now, Ended, Raise
<1>1. CASE Open
  BY <1>1 DEF Open
<1>2. ASSUME NEW kind, OpenFails(kind)
      PROVE  OpenIsNow'
  BY <1>2 DEF OpenFails
<1>3. ASSUME NEW kind, StepFails(kind)
      PROVE  OpenIsNow'
  BY <1>3 DEF StepFails
<1>4. CASE Stage
  BY <1>4 DEF Stage
<1>5. CASE Ring
  BY <1>5 DEF Ring
<1>6. CASE RingGivesUp
  BY <1>6 DEF RingGivesUp
<1>7. CASE Poll
  <2>1. pc' \in {"inspect", "unwind"}
    BY <1>7 DEF Poll
  <2>2. UNCHANGED <<open, pass, window>>
    BY <1>7 DEF Poll
  <2>. QED BY <2>1, <2>2
<1>8. CASE GiveUp
  BY <1>8 DEF GiveUp
<1>9. CASE Inspect
  <2>1. pc' \in {"poll", "read", "unwind"}
    BY <1>9 DEF Inspect, Conclude
  <2>2. UNCHANGED <<open, pass, window>>
    BY <1>9 DEF Inspect
  <2>. QED BY <2>1, <2>2
<1>10. CASE ReadOutput
  BY <1>10 DEF ReadOutput
<1>11. CASE NextWindow
  BY <1>11 DEF NextWindow, Closed
<1>12. CASE Unwind
  BY <1>12 DEF Unwind
<1>13. CASE Card
  BY <1>13 DEF Card
<1>14. CASE UNCHANGED vars
  BY <1>14 DEF vars
<1>15. QED
  BY <1>1, <1>2, <1>3, <1>4, <1>5, <1>6, <1>7, <1>8, <1>9, <1>10, <1>11, <1>12,
     <1>13, <1>14 DEF Next, Host, Finished

(* A set of at most one device has at most one element. *)
LEMMA AtMostOne ==
    ASSUME OpenIsNow
    PROVE  OneClient
<1>1. CASE open = {}
  BY <1>1, FS_EmptySet DEF OneClient
<1>2. CASE open = {Now}
  <2>1. Cardinality({Now}) = 1
    BY FS_Singleton
  <2>2. Cardinality(open) <= 1
    BY <1>2, <2>1
  <2>. QED BY <2>2 DEF OneClient, OpenIsNow
<1>3. QED
  BY <1>1, <1>2 DEF OpenIsNow

(* However a run goes through its windows and passes and whatever fails on  *)
(* the way, it opens a device only when the last one is closed and leaves   *)
(* none open: fini and the finally clauses around it.                       *)
THEOREM OneDevice == Spec => []OneClient
<1>1. Init => OpenIsNow
  BY DEF Init, OpenIsNow
<1>2. OpenIsNow /\ [Next]_vars => OpenIsNow'
  BY OpenStep
<1>3. OpenIsNow => OneClient
  BY AtMostOne
<1>4. QED
  BY <1>1, <1>2, <1>3, PTL DEF Spec

-----------------------------------------------------------------------------
(* What is accepted is real.                                                *)

PCs == Ended \cup {"open", "stage", "ring", "poll", "inspect", "read", "next", "unwind"}

(* Where the channel and the output are those of this window.               *)
Staged == pc \in {"ring", "poll", "inspect", "read"}

CardTypes ==
    /\ gpu \in [own : Nat \X Nat, put : Nat, get : Nat, at : Nat]
    /\ sem \in 0..Done /\ sked \in BOOLEAN /\ storing \subseteq 1..Chunks
    /\ vram \in [1..Chunks -> [holds : {"sum", "sentinel", "junk"} \X Nat, by : Nat \X Nat]]

SessionTypes ==
    /\ pass \in Nat /\ window \in Nat /\ pc \in PCs
    /\ late \in Seq(Nat) /\ lost \in BOOLEAN /\ val \in Nat
    /\ CardTypes

(* As long as no timeout was swallowed the answers are the reader's own, so *)
(* a final value in hand was the semaphore's.                               *)
AnswersOwn ==
    /\ ~lost => late = <<>>
    /\ pc = "inspect" /\ ~lost /\ val = Done => sem = Done

(* The channel is this window's, and what is not the sentinel any more was  *)
(* stored by it.                                                            *)
StoresOwn ==
    Staged => /\ gpu.own = Now
              /\ \A c \in 1..Chunks : vram[c].holds # Sentinel => vram[c].by = Now

SessionInv == SessionTypes /\ AnswersOwn /\ StoresOwn

LEMMA Constants ==
    /\ Chunks \in Nat /\ Done = 2 /\ Seed \in 0..Done
    /\ Now = <<pass, window>>
BY SessionAssumption DEF Done, Seed, Now

(* What is left of the answers is again a sequence of them, and nothing is  *)
(* left when each reader took its own.                                      *)
LEMMA UnreadLeft ==
    ASSUME late \in Seq(Nat), NEW regs \in Seq(Nat), NEW n \in 1..Len(regs), NEW m \in 0..n
    PROVE  /\ Answer(regs, n) \in Nat
           /\ Unread(regs, m) \in Seq(Nat)
           /\ late = <<>> => Answer(regs, n) = regs[n] /\ Unread(regs, Len(regs)) = <<>>
<1>1. late \o regs \in Seq(Nat) /\ Len(late \o regs) = Len(late) + Len(regs)
  BY ConcatProperties
<1>2. Len(late) \in Nat /\ Len(regs) \in Nat
  BY LenProperties
<1>3. n \in 1..Len(late \o regs)
  BY <1>1, <1>2
<1>4. Answer(regs, n) \in Nat
  BY <1>1, <1>3, ElementOfSeq DEF Answer
<1>5. Unread(regs, m) \in Seq(Nat)
  <2>1. PICK r \in Seq(Nat) : r = late \o regs /\ Len(r) = Len(late) + Len(regs)
    BY <1>1
  <2>2. PICK l \in Nat : l = Len(r)
    BY <1>2, <2>1
  <2>3. \A i \in m + 1..l : i \in 1..Len(r)
    BY <2>2
  <2>4. \A i \in m + 1..l : r[i] \in Nat
    BY <2>3, ElementOfSeq
  <2>5. SubSeq(r, m + 1, l) \in Seq(Nat)
    BY <2>4, SubSeqProperties
  <2>. QED BY <2>1, <2>2, <2>5 DEF Unread
<1>6. ASSUME late = <<>> PROVE Answer(regs, n) = regs[n] /\ Unread(regs, Len(regs)) = <<>>
  <2>1. late \o regs = regs
    BY <1>6, ConcatEmptySeq
  <2>2. SubSeq(regs, Len(regs) + 1, 0 + Len(regs)) = <<>>
    BY <1>2, SubSeqProperties
  <2>. QED BY <1>6, <2>1, <2>2 DEF Answer, Unread
<1>7. QED
  BY <1>4, <1>5, <1>6

(* What an inspection reads; with nothing unread it is the latched trap.    *)
LEMMA StatusRead ==
    ASSUME CardTypes, late \in Seq(Nat)
    PROVE  /\ Status \in Seq(Nat) /\ Len(Status) = 5
           /\ \A k \in 1..5 : Unread(SubSeq(Status, 1, k), k - 1) \in Seq(Nat)
           /\ Unread(Status, 5) \in Seq(Nat)
           /\ late = <<>> => /\ Unread(Status, 5) = <<>>
                             /\ sked => SkedFault
<1>1. PICK s \in Seq(Nat) : s = Status /\ Len(s) = 5 /\ (sked => s[5] = 1)
  <2>1. PICK g \in Nat, x \in Nat, y \in Nat, z \in Nat :
          Status = <<g, x, y, 0, z>> /\ (sked => z = 1)
    <3>1. gpu.get \in Nat
      BY DEF CardTypes
    <3>2. 2^21 \in Nat
      OBVIOUS
    <3>3. 2^8 \in Nat
      OBVIOUS
    <3>4. CASE sked
      BY <3>1, <3>2, <3>3, <3>4, Zenon DEF Status
    <3>5. CASE ~sked
      <4>1. Status = <<gpu.get, 0, 0, 0, 0>>
        BY <3>5 DEF Status
      <4>. QED BY <3>1, <3>5, <4>1
    <3>. QED BY <3>4, <3>5
  <2>2. LET t == <<g, x, y, 0, z>> IN t \in Seq(Nat) /\ Len(t) = 5 /\ t[5] = z
    OBVIOUS
  <2>. QED BY <2>1, <2>2
<1>2. /\ Unread(s, 5) \in Seq(Nat)
      /\ late = <<>> => Answer(s, 5) = s[5] /\ Unread(s, 5) = <<>>
  <2>1. 5 \in 1..Len(s) /\ 5 \in 0..5
    BY <1>1
  <2>. QED BY <1>1, <2>1, UnreadLeft
<1>3. ASSUME NEW k \in 1..5
      PROVE  Unread(SubSeq(s, 1, k), k - 1) \in Seq(Nat)
  <2>1. PICK t \in Seq(Nat) : t = SubSeq(s, 1, k) /\ Len(t) = k
    <3>1. \A i \in 1..k : i \in 1..Len(s)
      BY <1>1
    <3>2. \A i \in 1..k : s[i] \in Nat
      BY <3>1, ElementOfSeq
    <3>3. SubSeq(s, 1, k) \in Seq(Nat)
      BY <3>2, SubSeqProperties
    <3>4. Len(SubSeq(s, 1, k)) = k
      BY <3>2, SubSeqProperties
    <3>. QED BY <3>3, <3>4
  <2>2. k - 1 \in 0..k /\ k \in 1..Len(t)
    BY <2>1
  <2>. QED BY <2>1, <2>2, UnreadLeft
<1>4. late = <<>> /\ sked => SkedFault
  <2>1. 1 % 2^30 # 0
    OBVIOUS
  <2>. QED BY <1>1, <1>2, <2>1 DEF SkedFault
<1>5. QED
  BY <1>1, <1>2, <1>3, <1>4

(* A poll reads the semaphore if nothing is unread and no read timed out.   *)
LEMMA PollRead ==
    ASSUME late \in Seq(Nat), sem \in Nat, NEW fe \in FePwr
    PROVE  /\ Answer(<<fe, sem>>, 1) \in Nat /\ Answer(<<fe, sem>>, 2) \in Nat
           /\ Unread(<<fe, sem>>, 1) \in Seq(Nat) /\ Unread(<<fe, sem>>, 2) \in Seq(Nat)
           /\ late = <<>> => Answer(<<fe, sem>>, 2) = sem /\ Unread(<<fe, sem>>, 2) = <<>>
<1>1. PICK s \in Seq(Nat) : s = <<fe, sem>> /\ Len(s) = 2 /\ s[2] = sem
  <2>1. fe \in Nat
    BY DEF FePwr
  <2>2. PICK x \in Nat, y \in Nat : x = fe /\ y = sem
    BY <2>1
  <2>3. <<x, y>> \in Seq(Nat) /\ Len(<<x, y>>) = 2 /\ <<x, y>>[2] = y
    OBVIOUS
  <2>. QED BY <2>2, <2>3
<1>2. 1 \in 1..Len(s) /\ 2 \in 1..Len(s) /\ 1 \in 0..1 /\ 2 \in 0..2
  BY <1>1
<1>3. /\ Answer(s, 1) \in Nat /\ Answer(s, 2) \in Nat
      /\ Unread(s, 1) \in Seq(Nat) /\ Unread(s, 2) \in Seq(Nat)
      /\ late = <<>> => Answer(s, 2) = s[2] /\ Unread(s, 2) = <<>>
  BY <1>1, <1>2, UnreadLeft
<1>4. QED
  BY <1>1, <1>3

-----------------------------------------------------------------------------
(* The invariant, step by step.                                             *)

LEMMA SessionInit == Init => SessionInv
<1> SUFFICES ASSUME Init PROVE SessionInv
  OBVIOUS
<1>1. CardTypes
  <2>1. gpu \in [own : Nat \X Nat, put : Nat, get : Nat, at : Nat]
    BY DEF Init, Fresh, Now
  <2>2. vram \in [1..Chunks -> [holds : {"sum", "sentinel", "junk"} \X Nat, by : Nat \X Nat]]
    BY DEF Init
  <2>3. sem = 0 /\ sked = FALSE /\ storing = {}
    BY DEF Init
  <2>4. sem \in 0..Done
    BY <2>3 DEF Done
  <2>5. sked \in BOOLEAN /\ storing \subseteq 1..Chunks
    BY <2>3, Zenon
  <2>. QED BY <2>1, <2>2, <2>4, <2>5 DEF CardTypes
<1>2. SessionTypes
  <2>1. <<>> \in Seq(Nat)
    BY EmptySeq
  <2>. QED BY <1>1, <2>1 DEF Init, SessionTypes, PCs
<1>3. QED
  BY <1>2 DEF SessionInv, AnswersOwn, StoresOwn, Staged, Init

(* A step of the program that reads nothing and leaves the card alone, and  *)
(* moves nowhere the channel has to be this window's.                       *)
LEMMA HostMoves ==
    ASSUME SessionInv, UNCHANGED card, pc' \in PCs, pc' # "inspect",
           pass' \in Nat, window' \in Nat, val' \in Nat,
           late' \in Seq(Nat), lost' \in BOOLEAN, ~lost' => late' = <<>>,
           Staged' => Staged /\ UNCHANGED <<pass, window>>
    PROVE  SessionInv'
<1>1. SessionTypes'
  BY DEF SessionInv, SessionTypes, CardTypes, card
<1>2. AnswersOwn'
  BY DEF AnswersOwn
<1>3. StoresOwn'
  BY DEF SessionInv, StoresOwn, card, Now
<1>4. QED
  BY <1>1, <1>2, <1>3 DEF SessionInv

LEMMA SessionHost ==
    ASSUME SessionInv, Host
    PROVE  SessionInv'
<1> USE DEF PCs, Ended, Staged, Raise
<1>1. /\ pass \in Nat /\ window \in Nat /\ late \in Seq(Nat) /\ lost \in BOOLEAN /\ val \in Nat
      /\ pc \in PCs /\ CardTypes /\ (~lost => late = <<>>)
  BY DEF SessionInv, SessionTypes, AnswersOwn, Done
<1>2. CASE Open
  <2>1. <<>> \in Seq(Nat)
    BY EmptySeq
  <2>. QED BY <1>1, <1>2, <2>1, HostMoves DEF Open
<1>3. ASSUME NEW kind, OpenFails(kind) \/ StepFails(kind)
      PROVE  SessionInv'
  BY <1>1, <1>3, HostMoves DEF OpenFails, StepFails
<1>4. CASE RingGivesUp \/ GiveUp
  BY <1>1, <1>4, HostMoves DEF RingGivesUp, GiveUp
<1>5. CASE ReadOutput \/ NextWindow \/ Unwind
  BY <1>1, <1>5, HostMoves DEF ReadOutput, NextWindow, Unwind
<1>6. CASE Stage
  <2>1. /\ pc' = "ring" /\ gpu' = Fresh /\ storing' = {} /\ sem' = Seed /\ sked' = FALSE
        /\ vram' = Filled /\ UNCHANGED <<pass, window, val, late, lost>>
    BY <1>6 DEF Stage
  <2>2. CardTypes'
    BY <1>1, <2>1, Constants DEF CardTypes, Fresh, Filled, Sentinel
  <2>3. StoresOwn'
    BY <2>1 DEF StoresOwn, Fresh, Filled, Now
  <2>. QED BY <1>1, <2>1, <2>2, <2>3 DEF SessionInv, SessionTypes, AnswersOwn
<1>7. CASE Ring
  <2>1. /\ pc = "ring" /\ pc' \in {"ring", "poll"} /\ val' \in {val, Seed}
        /\ gpu' = [gpu EXCEPT !.put = 1]
        /\ UNCHANGED <<pass, window, late, lost, sem, sked, storing, vram>>
    BY <1>7 DEF Ring
  <2>2. CardTypes' /\ gpu'.own = gpu.own
    BY <1>1, <2>1 DEF CardTypes
  <2>3. StoresOwn'
    BY <2>1, <2>2 DEF SessionInv, StoresOwn, Now
  <2>4. val' \in Nat
    BY <1>1, <2>1, Constants
  <2>. QED BY <1>1, <2>1, <2>2, <2>3, <2>4 DEF SessionInv, SessionTypes, AnswersOwn
<1>8. CASE Poll
  <2>1. pc = "poll" /\ UNCHANGED <<pass, window, card>>
    BY <1>8 DEF Poll
  <2>2. PICK fe \in FePwr :
          \/ /\ val' = Answer(<<fe, sem>>, 2) /\ late' = Unread(<<fe, sem>>, 2)
             /\ pc' = "inspect" /\ UNCHANGED lost
          \/ /\ val' = Answer(<<fe, sem>>, 1) /\ late' = Unread(<<fe, sem>>, 1)
             /\ pc' = "inspect" /\ lost' = TRUE
          \/ pc' = "unwind" /\ UNCHANGED <<val, late, lost>>
    BY <1>8 DEF Poll, Swallow
  <2>3. sem \in Nat
    BY <1>1 DEF CardTypes, Done
  <2>4. /\ val' \in Nat /\ late' \in Seq(Nat) /\ lost' \in BOOLEAN /\ pc' \in {"inspect", "unwind"}
        /\ ~lost' => late' = <<>> /\ (pc' = "inspect" => val' = sem)
    BY <1>1, <2>2, <2>3, PollRead
  <2>5. SessionTypes' /\ AnswersOwn'
    BY <1>1, <2>1, <2>4 DEF SessionTypes, AnswersOwn, CardTypes, card
  <2>6. StoresOwn'
    BY <2>1, <2>4 DEF SessionInv, StoresOwn, Now, card
  <2>. QED BY <2>5, <2>6 DEF SessionInv
<1>9. CASE Inspect
  <2>1. /\ pc = "inspect" /\ UNCHANGED <<pass, window, val, card>>
        /\ pc' \in {"poll", "read", "unwind"}
    BY <1>9 DEF Inspect, Conclude
  <2>2. \/ late' = Unread(Status, 5) /\ UNCHANGED lost
        \/ \E k \in 1..5 : lost' = TRUE /\ late' = Unread(SubSeq(Status, 1, k), k - 1)
    BY <1>9 DEF Inspect, Swallow
  <2>3. late' \in Seq(Nat) /\ lost' \in BOOLEAN /\ (~lost' => late' = <<>>)
    BY <1>1, <2>2, StatusRead
  <2>. QED BY <1>1, <2>1, <2>3, HostMoves
<1>10. QED
  BY <1>2, <1>3, <1>4, <1>5, <1>6, <1>7, <1>8, <1>9 DEF Host

LEMMA SessionCard ==
    ASSUME SessionInv, Card
    PROVE  SessionInv'
<1>1. UNCHANGED <<pc, pass, window, val, late, lost>>
  BY DEF Card
<1>2. CardTypes /\ SessionTypes /\ StoresOwn /\ AnswersOwn
  BY DEF SessionInv, SessionTypes
<1>3. CASE Fetch
  <2>1. CardTypes' /\ gpu'.own = gpu.own /\ UNCHANGED <<sem, vram>>
    BY <1>2, <1>3 DEF Fetch, CardTypes
  <2>. QED BY <1>1, <1>2, <2>1 DEF SessionInv, SessionTypes, AnswersOwn, StoresOwn, Staged, Now
<1>4. CASE Launch
  <2>1. gpu' = [gpu EXCEPT !.at = @ + 1] /\ gpu.at \in 1..Chunks /\ UNCHANGED <<sem, vram>>
    BY <1>4, Constants DEF Launch, Launches
  <2>2. storing' \subseteq 1..Chunks /\ sked' \in BOOLEAN
    <3>1. storing \subseteq 1..Chunks /\ sked \in BOOLEAN
      BY <1>2 DEF CardTypes
    <3>2. \/ storing' = storing \cup {gpu.at} /\ sked' = sked
          \/ storing' = storing /\ sked' = TRUE
          \/ storing' = storing /\ sked' = sked
      BY <1>4 DEF Launch
    <3>3. storing' \subseteq 1..Chunks
      BY <2>1, <3>1, <3>2, Zenon
    <3>4. sked' \in BOOLEAN
      BY <3>1, <3>2
    <3>. QED BY <3>3, <3>4
  <2>3. gpu' \in [own : Nat \X Nat, put : Nat, get : Nat, at : Nat] /\ gpu'.own = gpu.own
    <3>1. gpu.at + 1 \in Nat
      BY <2>1, Constants
    <3>. QED BY <1>2, <2>1, <3>1 DEF CardTypes
  <2>4. CardTypes'
    BY <1>2, <2>1, <2>2, <2>3 DEF CardTypes
  <2>. QED BY <1>1, <1>2, <2>1, <2>3, <2>4 DEF SessionInv, SessionTypes, AnswersOwn, StoresOwn, Staged, Now
<1>5. ASSUME NEW c \in 1..Chunks, Store(c)
      PROVE  SessionInv'
  <2>1. /\ vram' = [vram EXCEPT ![c] = [holds |-> Sum(gpu.own[2]), by |-> gpu.own]]
        /\ storing' = storing \ {c} /\ UNCHANGED <<gpu, sem, sked>>
    BY <1>5 DEF Store
  <2>2. gpu.own \in Nat \X Nat /\ gpu.own[2] \in Nat
    BY <1>2 DEF CardTypes
  <2>3. CardTypes'
    BY <1>2, <2>1, <2>2 DEF CardTypes, Sum
  <2>4. StoresOwn'
    <3>1. vram'[c].by = gpu.own /\ \A d \in 1..Chunks \ {c} : vram'[d] = vram[d]
      BY <1>2, <2>1 DEF CardTypes
    <3>2. Staged' <=> Staged
      BY <1>1, <1>2 DEF Staged
    <3>. QED BY <1>1, <1>2, <2>1, <3>1, <3>2 DEF StoresOwn, Now
  <2>. QED BY <1>1, <1>2, <2>1, <2>3, <2>4 DEF SessionInv, SessionTypes, AnswersOwn
<1>6. CASE Release
  <2>1. CardTypes' /\ gpu'.own = gpu.own /\ sem' = Done /\ UNCHANGED vram
    BY <1>2, <1>6 DEF Release, CardTypes, Done
  <2>. QED BY <1>1, <1>2, <2>1 DEF SessionInv, SessionTypes, AnswersOwn, StoresOwn, Staged, Now
<1>7. QED
  BY <1>3, <1>4, <1>5, <1>6 DEF Card

LEMMA SessionNext == SessionInv /\ [Next]_vars => SessionInv'
<1>1. SessionInv /\ UNCHANGED vars => SessionInv'
  <2> SUFFICES ASSUME SessionInv, UNCHANGED vars PROVE SessionInv'
    OBVIOUS
  <2>1. SessionTypes'
    BY DEF SessionInv, SessionTypes, CardTypes, Staged, Now, vars, card
  <2>2. AnswersOwn'
    BY DEF SessionInv, AnswersOwn, Staged, Now, vars, card
  <2>3. StoresOwn'
    BY DEF SessionInv, StoresOwn, Staged, Now, vars, card
  <2>. QED BY <2>1, <2>2, <2>3 DEF SessionInv
<1>2. QED
  BY <1>1, SessionHost, SessionCard DEF Next, Finished

LEMMA Invariance == Spec => []SessionInv
BY SessionInit, SessionNext, PTL DEF Spec

-----------------------------------------------------------------------------
(* The semaphore is believed when the traps read after it were clear: for   *)
(* any number of launches and polls, a rejected launch passes for finished  *)
(* only if an answer was lost on this socket.                               *)
THEOREM NoFaultMasked == Spec => FaultNotMasked
<1>1. SessionInv /\ [Next]_vars => [Completes /\ ~lost' => sem = Done /\ ~sked]_vars
  <2> SUFFICES ASSUME SessionInv, Next, Completes, ~lost'
               PROVE  sem = Done /\ ~sked
    OBVIOUS
  <2>1. Inspect
    BY DEF Next, Host, Finished, Completes, Ended, Open, OpenFails, StepFails, Stage, Ring,
       RingGivesUp, Poll, GiveUp, ReadOutput, NextWindow, Unwind, Card, vars
  <2>2. UNCHANGED lost /\ ~SkedFault /\ Conclude
    BY <2>1 DEF Inspect, Swallow, Completes, Raise
  <2>3. val = Done
    BY <2>2 DEF Conclude, Completes
  <2>4. late = <<>> /\ sem = Done
    BY <2>2, <2>3 DEF SessionInv, AnswersOwn, Completes
  <2>5. ~sked
    BY <2>2, <2>4, StatusRead DEF SessionInv, SessionTypes
  <2>. QED BY <2>4, <2>5
<1>2. QED
  BY <1>1, Invariance, PTL DEF Spec, FaultNotMasked

(* An accepted result was stored by the launches of this window and pass,   *)
(* whatever the socket did and whatever the memory held before.             *)
THEOREM ResultsOwn == Spec => OnlyOwnResults
<1>1. SessionInv /\ [Next]_vars =>
        [pc = "read" /\ pc' \in {"next", "unwind"} /\ err' = "none" =>
           \A c \in 1..Chunks : vram[c].by = Now /\ vram[c].holds # Sentinel]_vars
  <2> SUFFICES ASSUME SessionInv, Next, pc = "read", pc' \in {"next", "unwind"}, err' = "none",
                      NEW c \in 1..Chunks
               PROVE  vram[c].by = Now /\ vram[c].holds # Sentinel
    OBVIOUS
  <2>1. ReadOutput
    BY DEF Next, Host, Finished, Ended, Open, OpenFails, StepFails, Raise, Stage, Ring,
       RingGivesUp, Poll, GiveUp, Inspect, NextWindow, Unwind, Card, vars
  <2>2. vram[c].holds = Sum(window)
    BY <2>1 DEF ReadOutput, Matches, Raise
  <2>3. vram[c].holds # Sentinel
    BY <2>2 DEF Sum, Sentinel
  <2>. QED BY <2>3 DEF SessionInv, StoresOwn, Staged
<1>2. QED
  BY <1>1, Invariance, PTL DEF Spec, OnlyOwnResults
=============================================================================
