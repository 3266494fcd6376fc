---------------------------- MODULE PmuMemxProofs ----------------------------
(***************************************************************************)
(* Proofs about the MEMX path, for every program and every size of rings,  *)
(* chunks and data segment.  First, host and PMU take turns at the data    *)
(* segment (TurnInv): it is not rewritten under a script that can still    *)
(* run, and no command gets another's reply.  Then, on top of that, what   *)
(* is queued, in the segment and executed are the next events of a         *)
(* straight run of the program, in its order (OrderInv), and a program     *)
(* that ends well has let go of the framebuffer (PauseInv).                *)
(***************************************************************************)
EXTENDS PmuMemx, TLAPS, WellFoundedInduction, SequenceTheorems

(* Where the program goes on after a deadline that passed, the firmware is *)
(* not one that may still be at work: a probe that must not fail stops the *)
(* program, and so does the end of a pause the host asked for by itself.   *)
DeadlinesEnd == \A s \in Settings : s.late => s.require /\ s.block # "enter"

-----------------------------------------------------------------------------
(* The inductive invariant.                                                *)

Shapes ==
    /\ mail = [seg |-> mail.seg, calls |-> mail.calls, replies |-> mail.replies,
               sent |-> mail.sent, ours |-> mail.ours]
    /\ exec = [stage |-> exec.stage, kind |-> exec.kind, script |-> exec.script,
               to |-> exec.to, id |-> exec.id]
    /\ pmu = [on |-> pmu.on, id |-> pmu.id, msg |-> pmu.msg, len |-> pmu.len,
              cmd |-> pmu.cmd, pair |-> pmu.pair, wedged |-> pmu.wedged]
    /\ set \in Setting /\ pmu.on \in BOOLEAN /\ pmu.wedged \in BOOLEAN

(* What the setting says of deadlines, and who may ask for a pause.        *)
Bound ==
    /\ set.late => set.require /\ set.block # "enter"
    /\ exec.kind = "block" => set.block = "enter"

NoCalls == mail.calls = <<>> /\ ~pmu.on
NoReply == mail.replies = <<>>

(* The command the host waits for is in one place: in the ring, with the   *)
(* firmware, answered, or given up on by a reply of the wrong kind.        *)
Asked1 ==
    \/ /\ mail.calls = <<Head(mail.calls)>> /\ Head(mail.calls).id = exec.id
       /\ ~pmu.on /\ NoReply
    \/ mail.calls = <<>> /\ pmu.on /\ pmu.id = exec.id /\ NoReply
    \/ NoCalls /\ mail.replies = <<Head(mail.replies)>> /\ Head(mail.replies).id = exec.id
    \/ NoCalls /\ NoReply

(* The host is at its own business, and goes on: a firmware that may be    *)
(* late is left at work only by a program that ends or reloads it.         *)
AtRest == exec.stage # "reply" /\ (set.late => pc = "run" \/ exec.stage # "idle")

Turns ==
    /\ pmu.wedged => NoReply
    /\ ~pmu.wedged /\ exec.stage = "reply" => Asked1
    /\ ~pmu.wedged /\ AtRest => NoCalls /\ NoReply

TurnInv == Shapes /\ Bound /\ Turns /\ ReplyIsOurs

-----------------------------------------------------------------------------
LEMMA Tails1 ==
    ASSUME NEW x
    PROVE  Tail(<<x>>) = <<>> /\ Head(<<x>>) = x /\ <<x>> # <<>> /\ Append(<<>>, x) = <<x>>
OBVIOUS

LEMMA TurnInit == DeadlinesEnd /\ Init => TurnInv
<1> SUFFICES ASSUME DeadlinesEnd, Init PROVE TurnInv
  OBVIOUS
<1>1. Shapes
  BY SettingAssumption DEF Init, Shapes, NoExec, NoRun
<1>2. Bound /\ Turns /\ ReplyIsOurs
  BY DEF Init, NoExec, NoRun, DeadlinesEnd, Bound, Turns, AtRest, NoCalls, NoReply, ReplyIsOurs
<1> QED
  BY <1>1, <1>2 DEF TurnInv

(* A step of the program between two commands, which may begin one.        *)
LEMMA HostMoves ==
    ASSUME TurnInv, pc = "run", exec.stage = "idle", UNCHANGED <<set, mail, pmu>>,
           \/ exec' = exec
           \/ exec' = NoExec
           \/ \E kind, script : Do(script, kind) /\ (kind = "block" => set.block = "enter")
    PROVE  TurnInv'
<1>1. Shapes'
  BY DEF TurnInv, Shapes, NoExec, Do
<1>2. exec'.stage \in {"idle", "seg"} /\ (exec'.kind = "block" => set.block = "enter")
  BY DEF TurnInv, Bound, NoExec, Do
<1>3. Bound'
  BY <1>2 DEF TurnInv, Bound
<1>4. Turns' /\ ReplyIsOurs'
  BY <1>2 DEF TurnInv, Turns, AtRest, NoCalls, NoReply, ReplyIsOurs
<1> QED
  BY <1>1, <1>3, <1>4 DEF TurnInv

LEMMA TurnRun ==
    ASSUME TurnInv, Flush \/ Access \/ Pause \/ Block \/ Start \/ Stop \/ Pramin \/ PassDone
    PROVE  TurnInv'
<1>1. pc = "run" /\ exec.stage = "idle" /\ UNCHANGED <<set, mail, pmu>>
  BY DEF Flush, Access, Pause, Block, Start, Stop, Pramin, PassDone, Ready
<1>2. CASE Block
  <2>1. \/ UNCHANGED exec
        \/ exec' = NoExec
        \/ set.block = "enter" /\ \E script : Do(script, "block")
    BY <1>2 DEF Block, Raise
  <2> QED
    BY <1>1, <2>1, HostMoves
<1>3. CASE Flush \/ Access \/ Pause \/ Start \/ Stop \/ Pramin \/ PassDone
  <2>1. \/ UNCHANGED exec
        \/ exec' = NoExec
        \/ \E script : \E kind \in {"flush", "pause", "smoke", "run", "ensure", "store"} :
             Do(script, kind)
    BY <1>3 DEF Flush, Access, Pause, HostPause, Start, CannotStart, Stop, Pramin, PassDone, Raise
  <2> QED
    BY <1>1, <2>1, HostMoves
<1> QED
  BY <1>2, <1>3

(* The script goes into the segment, and its announcement into the ring.   *)
LEMMA TurnFill == TurnInv /\ Fill => TurnInv'
<1> SUFFICES ASSUME TurnInv, Fill PROVE TurnInv'
  OBVIOUS
<1>1. PICK seg : mail' = [mail EXCEPT !.seg = seg]
  BY DEF Fill
<1>2. /\ exec'.stage \in {"seg", "push"} /\ exec'.kind = exec.kind
      /\ exec' = [stage |-> exec'.stage, kind |-> exec'.kind, script |-> exec'.script,
                  to |-> exec'.to, id |-> exec'.id]
  BY DEF Fill, TurnInv, Shapes
<1>3. UNCHANGED <<set, pmu>> /\ exec.stage = "seg"
  BY DEF Fill
<1>4. mail'.calls = mail.calls /\ mail'.replies = mail.replies /\ mail'.ours = mail.ours
  BY <1>1 DEF TurnInv, Shapes
<1>5. Shapes'
  BY <1>1, <1>2, <1>3 DEF TurnInv, Shapes
<1>6. Bound' /\ Turns' /\ ReplyIsOurs'
  BY <1>2, <1>3, <1>4 DEF TurnInv, Bound, Turns, AtRest, NoCalls, NoReply, ReplyIsOurs
<1> QED
  BY <1>5, <1>6 DEF TurnInv

LEMMA TurnPush == TurnInv /\ Push => TurnInv'
<1> SUFFICES ASSUME TurnInv, Push PROVE TurnInv'
  OBVIOUS
<1>0. PICK c : c = [id |-> mail.sent + 1, msg |-> Msg, len |-> Len(exec.script)]
  OBVIOUS
<1>1. /\ mail' = [mail EXCEPT !.sent = @ + 1, !.calls = Append(@, c)]
      /\ exec' = [exec EXCEPT !.stage = "reply", !.id = c.id]
  BY <1>0 DEF Push
<1>2. UNCHANGED <<set, pmu>> /\ exec.stage = "push"
  BY DEF Push
<1>3. /\ mail'.calls = Append(mail.calls, c) /\ mail'.replies = mail.replies
      /\ mail'.ours = mail.ours
      /\ exec'.stage = "reply" /\ exec'.id = c.id /\ exec'.kind = exec.kind
  BY <1>1 DEF TurnInv, Shapes
<1>4. Shapes' /\ Bound' /\ ReplyIsOurs'
  BY <1>1, <1>2, <1>3 DEF TurnInv, Shapes, Bound, ReplyIsOurs
<1>5. ~pmu.wedged => NoCalls /\ NoReply
  BY <1>2 DEF TurnInv, Turns, AtRest
<1>6. ~pmu.wedged => Asked1'
  BY <1>2, <1>3, <1>5, Tails1 DEF NoCalls, NoReply, Asked1
<1>7. Turns'
  BY <1>2, <1>3, <1>6 DEF TurnInv, Turns, AtRest, NoReply
<1> QED
  BY <1>4, <1>7 DEF TurnInv

(* What the caller does with its answer begins a script or none, and may    *)
(* change the setting to that of the retry.                                *)
LEMMA AcceptedNext ==
    Accepted => /\ \/ exec' = NoExec
                   \/ \E script : \E kind \in {"preflight", "ensure2"} : Do(script, kind)
                /\ \/ set' = set
                   \/ set' = [set EXCEPT !.wait = FALSE, !.atomic = TRUE, !.block = "atomic"]
<1> SUFFICES ASSUME Accepted
             PROVE  /\ \/ exec' = NoExec
                       \/ \E script : \E kind \in {"preflight", "ensure2"} : Do(script, kind)
                    /\ \/ set' = set
                       \/ set' = [set EXCEPT !.wait = FALSE, !.atomic = TRUE, !.block = "atomic"]
  OBVIOUS
<1>1. CASE exec.kind = "smoke"
  BY <1>1 DEF Accepted, Buffering
<1>2. CASE exec.kind \in {"preflight", "flush", "run", "info2"}
  BY <1>2 DEF Accepted, Buffering
<1>3. CASE exec.kind = "info"
  BY <1>3 DEF Accepted
<1>4. CASE exec.kind \notin {"smoke", "preflight", "flush", "run", "info2", "info"}
  BY <1>4 DEF Accepted
<1> QED
  BY <1>1, <1>2, <1>3, <1>4

(* The reply the host takes is the only one there is, and its own.         *)
LEMMA TurnReply == TurnInv /\ Reply => TurnInv'
<1> SUFFICES ASSUME TurnInv, Reply PROVE TurnInv'
  OBVIOUS
<1>1. exec.stage = "reply" /\ mail.replies # <<>> /\ UNCHANGED pmu
  BY DEF Reply
<1>2. ~pmu.wedged /\ Asked1
  BY <1>1 DEF TurnInv, Turns, NoReply
<1>3. NoCalls /\ mail.replies = <<Head(mail.replies)>> /\ Head(mail.replies).id = exec.id
  BY <1>1, <1>2 DEF Asked1, NoReply
<1>4. PICK a : a = Head(mail.replies)
  OBVIOUS
<1>5. Tail(mail.replies) = <<>>
  BY <1>3, <1>4, Tails1
<1>6. mail' = [mail EXCEPT !.replies = Tail(@), !.ours = @ /\ (a.msg = Msg => a.id = exec.id)]
  BY <1>4 DEF Reply
<1>7. /\ mail'.calls = mail.calls /\ mail'.replies = <<>>
      /\ mail'.ours = (mail.ours /\ (a.msg = Msg => a.id = exec.id))
  BY <1>5, <1>6 DEF TurnInv, Shapes
<1>8. ReplyIsOurs'
  BY <1>3, <1>4, <1>7 DEF TurnInv, ReplyIsOurs
<1>9. \/ exec' = exec
      \/ exec' = NoExec
      \/ \E script : \E kind \in {"preflight", "ensure2"} : Do(script, kind)
  <2>1. Accepted \/ exec' = exec
    BY DEF Reply
  <2> QED
    BY <2>1, AcceptedNext
<1>13. /\ set' \in Setting /\ set'.late = set.late /\ set'.require = set.require
       /\ set'.block \in {set.block, "atomic"}
  <2>1. \/ set' = set
        \/ set' = [set EXCEPT !.wait = FALSE, !.atomic = TRUE, !.block = "atomic"]
    BY AcceptedNext DEF Reply
  <2>2. set \in Setting
    BY DEF TurnInv, Shapes
  <2> QED
    BY <2>1, <2>2 DEF Setting
<1>10. Shapes' /\ Bound'
  <2>1. exec' = [stage |-> exec'.stage, kind |-> exec'.kind, script |-> exec'.script,
                 to |-> exec'.to, id |-> exec'.id]
    BY <1>9 DEF TurnInv, Shapes, NoExec, Do
  <2>2. mail' = [seg |-> mail'.seg, calls |-> mail'.calls, replies |-> mail'.replies,
                 sent |-> mail'.sent, ours |-> mail'.ours]
    BY <1>6 DEF TurnInv, Shapes
  <2>3. exec'.kind = "block" => set'.block = "enter"
    <3>1. CASE Accepted
      BY <3>1, AcceptedNext DEF NoExec, Do
    <3>2. CASE UNCHANGED <<set, exec>>
      BY <3>2 DEF TurnInv, Bound
    <3> QED
      BY <3>1, <3>2 DEF Reply
  <2> QED
    BY <1>1, <1>13, <2>1, <2>2, <2>3 DEF TurnInv, Shapes, Bound
<1>11. NoCalls' /\ NoReply'
  BY <1>1, <1>3, <1>7 DEF NoCalls, NoReply
<1>12. Turns'
  BY <1>11 DEF Turns, Asked1
<1> QED
  BY <1>8, <1>10, <1>12 DEF TurnInv

(* A reset takes the rings and the work of the firmware away.              *)
LEMMA TurnReset ==
    ASSUME TurnInv, Reset, NEW kind \in {"info", "info2"}, Asks(kind),
           UNCHANGED set
    PROVE  TurnInv'
<1>1. /\ mail' = [mail EXCEPT !.calls = <<>>, !.replies = <<>>]
      /\ pmu' = NoRun /\ exec' = [NoExec EXCEPT !.stage = "push", !.kind = kind]
  BY DEF Reset, Asks
<1>2. mail'.calls = <<>> /\ mail'.replies = <<>> /\ mail'.ours = mail.ours
  BY <1>1 DEF TurnInv, Shapes
<1>3. Shapes'
  BY <1>1 DEF TurnInv, Shapes, NoRun, NoExec
<1>4. exec'.stage = "push" /\ exec'.kind = kind /\ ~pmu'.on /\ ~pmu'.wedged
  BY <1>1 DEF NoRun, NoExec
<1>5. Bound'
  BY <1>4 DEF TurnInv, Bound
<1>6. Turns' /\ ReplyIsOurs'
  BY <1>2, <1>4 DEF TurnInv, Turns, NoCalls, NoReply, ReplyIsOurs
<1> QED
  BY <1>3, <1>5, <1>6 DEF TurnInv

(* A call that fails ends the program, or the firmware is dead, or it is   *)
(* reset: while the program goes on, nothing of the call is left.          *)
LEMMA FailedEnds ==
    ASSUME TurnInv, Failed, pmu.wedged \/ set.late
    PROVE  \/ exec' = NoExec /\ UNCHANGED <<mail, pmu>> /\ (pc' # "run" \/ pmu.wedged)
           \/ Reset /\ Asks("info2")
<1>1. Raise => exec' = NoExec /\ pc' # "run"
  BY DEF Raise
<1>2. CannotStart => exec' = NoExec /\ (pc' # "run" \/ pmu.wedged)
  BY <1>1 DEF CannotStart, TurnInv, Bound
<1>3. CASE exec.kind = "flush"
  BY <1>1, <1>3 DEF Failed
<1>4. CASE exec.kind = "smoke"
  BY <1>2, <1>4 DEF Failed
<1>5. CASE exec.kind = "block" /\ Op.k = "unblock"
  BY <1>5 DEF Failed, TurnInv, Bound
<1>6. CASE exec.kind = "ensure"
  BY <1>6 DEF Failed
<1>7. CASE exec.kind = "info"
  BY <1>7 DEF Failed
<1>8. CASE /\ exec.kind \notin {"flush", "smoke", "ensure", "info"}
           /\ ~(exec.kind = "block" /\ Op.k = "unblock")
  BY <1>1, <1>8 DEF Failed
<1> QED
  BY <1>3, <1>4, <1>5, <1>6, <1>7, <1>8

LEMMA TurnTimesOut == TurnInv /\ TimesOut => TurnInv'
<1> SUFFICES ASSUME TurnInv, TimesOut PROVE TurnInv'
  OBVIOUS
<1>1. Failed /\ UNCHANGED set
  BY DEF TimesOut
<1>2. pmu.wedged \/ set.late
  <2>1. ASSUME exec.stage = "push", Len(mail.calls) = Slots PROVE pmu.wedged
    <3>1. ~pmu.wedged => mail.calls = <<>>
      BY <2>1 DEF TurnInv, Turns, AtRest, NoCalls
    <3>2. Slots # 0 /\ Len(<<>>) = 0
      BY MemxAssumption
    <3> QED
      BY <2>1, <3>1, <3>2
  <2> QED
    BY <2>1 DEF TimesOut
<1>3. CASE exec' = NoExec /\ UNCHANGED <<mail, pmu>> /\ (pc' # "run" \/ pmu.wedged)
  <2>1. Shapes'
    BY <1>1, <1>3 DEF TurnInv, Shapes, NoExec
  <2>2. exec'.stage = "idle" /\ exec'.kind = "none"
    BY <1>3 DEF NoExec
  <2>3. Bound' /\ Turns' /\ ReplyIsOurs'
    BY <1>1, <1>2, <1>3, <2>2
       DEF TurnInv, Bound, Turns, AtRest, NoCalls, NoReply, ReplyIsOurs
  <2> QED
    BY <2>1, <2>3 DEF TurnInv
<1>4. CASE Reset /\ Asks("info2")
  BY <1>1, <1>4, TurnReset
<1> QED
  BY <1>1, <1>2, <1>3, <1>4, FailedEnds

LEMMA TurnReload == TurnInv /\ Reload => TurnInv'
BY TurnReset DEF Reload

(* The firmware takes the command, executes its script and answers it.     *)
LEMMA TurnTake == TurnInv /\ Take => TurnInv'
<1> SUFFICES ASSUME TurnInv, Take PROVE TurnInv'
  OBVIOUS
<1>1. PICK c : c = Head(mail.calls)
  OBVIOUS
<1>2. /\ pmu' = [pmu EXCEPT !.on = TRUE, !.id = c.id, !.msg = c.msg, !.len = c.len,
                   !.cmd = 1, !.pair = 1]
      /\ mail' = [mail EXCEPT !.calls = Tail(@)]
      /\ UNCHANGED <<set, pc, exec>>
      /\ ~pmu.on /\ ~pmu.wedged /\ mail.calls # <<>>
  BY <1>1 DEF Take
<1>3. /\ mail'.calls = Tail(mail.calls) /\ mail'.replies = mail.replies
      /\ mail'.ours = mail.ours /\ pmu'.on /\ pmu'.id = c.id /\ ~pmu'.wedged
  BY <1>2 DEF TurnInv, Shapes
<1>4. Shapes' /\ Bound' /\ ReplyIsOurs'
  BY <1>2, <1>3 DEF TurnInv, Shapes, Bound, ReplyIsOurs
<1>5. ASSUME exec.stage = "reply" PROVE Asked1'
  <2>1. mail.calls = <<c>> /\ c.id = exec.id /\ NoReply
    BY <1>1, <1>2, <1>5 DEF TurnInv, Turns, Asked1, NoCalls
  <2>2. Tail(mail.calls) = <<>>
    BY <2>1, Tails1
  <2> QED
    BY <1>2, <1>3, <2>1, <2>2 DEF Asked1, NoReply
<1>6. ~AtRest /\ AtRest' = AtRest
  BY <1>2 DEF TurnInv, Turns, AtRest, NoCalls
<1>7. Turns'
  BY <1>2, <1>3, <1>5, <1>6 DEF Turns
<1> QED
  BY <1>4, <1>7 DEF TurnInv

LEMMA TurnExecute == TurnInv /\ Execute => TurnInv'
<1> SUFFICES ASSUME TurnInv, Execute PROVE TurnInv'
  OBVIOUS
<1>1. /\ \/ pmu' = [pmu EXCEPT !.pair = @ + 1]
         \/ pmu' = [pmu EXCEPT !.cmd = @ + 1, !.pair = 1]
      /\ UNCHANGED <<set, pc, exec, mail>>
  BY DEF Execute
<1>2. /\ pmu' = [on |-> pmu'.on, id |-> pmu'.id, msg |-> pmu'.msg, len |-> pmu'.len,
                cmd |-> pmu'.cmd, pair |-> pmu'.pair, wedged |-> pmu'.wedged]
      /\ pmu'.on = pmu.on /\ pmu'.id = pmu.id /\ pmu'.wedged = pmu.wedged
  BY <1>1 DEF TurnInv, Shapes
<1>3. Shapes' /\ Bound' /\ ReplyIsOurs'
  BY <1>1, <1>2 DEF TurnInv, Shapes, Bound, ReplyIsOurs
<1>4. Turns'
  BY <1>1, <1>2 DEF TurnInv, Turns, Asked1, AtRest, NoCalls, NoReply
<1> QED
  BY <1>3, <1>4 DEF TurnInv

LEMMA TurnAnswer == TurnInv /\ Answer => TurnInv'
<1> SUFFICES ASSUME TurnInv, Answer PROVE TurnInv'
  OBVIOUS
<1>1. PICK a : a = [id |-> pmu.id, msg |-> pmu.msg]
  OBVIOUS
<1>2. /\ mail' = [mail EXCEPT !.replies = Append(@, a)] /\ pmu' = NoRun
      /\ UNCHANGED <<set, pc, exec>> /\ pmu.on /\ ~pmu.wedged
  BY <1>1 DEF Answer
<1>3. /\ mail'.calls = mail.calls /\ mail'.replies = Append(mail.replies, a)
      /\ mail'.ours = mail.ours /\ ~pmu'.on /\ ~pmu'.wedged
  BY <1>2 DEF TurnInv, Shapes, NoRun
<1>4. Shapes' /\ Bound' /\ ReplyIsOurs'
  BY <1>2, <1>3 DEF TurnInv, Shapes, Bound, ReplyIsOurs, NoRun
<1>5. ASSUME exec.stage = "reply" PROVE Asked1'
  <2>1. mail.calls = <<>> /\ pmu.id = exec.id /\ mail.replies = <<>>
    BY <1>2, <1>5 DEF TurnInv, Turns, Asked1, NoCalls, NoReply
  <2>2. mail'.replies = <<a>> /\ Head(mail'.replies) = a /\ a.id = exec.id
    BY <1>1, <1>3, <2>1, Tails1
  <2> QED
    BY <1>2, <1>3, <2>1, <2>2 DEF Asked1, NoCalls
<1>6. ~AtRest /\ AtRest' = AtRest
  BY <1>2 DEF TurnInv, Turns, AtRest, NoCalls
<1>7. Turns'
  BY <1>2, <1>3, <1>5, <1>6 DEF Turns
<1> QED
  BY <1>4, <1>7 DEF TurnInv

(* A firmware that hangs has not answered what it had.                     *)
LEMMA TurnWedge == TurnInv /\ Wedge => TurnInv'
<1> SUFFICES ASSUME TurnInv, Wedge PROVE TurnInv'
  OBVIOUS
<1>1. /\ pmu' = [pmu EXCEPT !.wedged = TRUE] /\ UNCHANGED <<set, pc, exec, mail>>
      /\ ~set.late /\ ~pmu.wedged /\ (pmu.on \/ mail.calls # <<>>)
  BY DEF Wedge
<1>2. NoReply
  BY <1>1 DEF TurnInv, Turns, AtRest, Asked1, NoCalls
<1>3. pmu'.wedged /\ Shapes' /\ Bound' /\ ReplyIsOurs'
  BY <1>1 DEF TurnInv, Shapes, Bound, ReplyIsOurs
<1>4. Turns'
  BY <1>1, <1>2, <1>3 DEF Turns, NoReply
<1> QED
  BY <1>3, <1>4 DEF TurnInv

LEMMA TurnNext == TurnInv /\ [Next]_vars => TurnInv'
<1> SUFFICES ASSUME TurnInv, [Next]_vars PROVE TurnInv'
  OBVIOUS
<1>1. CASE Flush \/ Access \/ Pause \/ Block \/ Start \/ Stop \/ Pramin \/ PassDone
  BY <1>1, TurnRun
<1>2. CASE Fill
  BY <1>2, TurnFill
<1>3. CASE Push
  BY <1>3, TurnPush
<1>4. CASE Reply
  BY <1>4, TurnReply
<1>5. CASE TimesOut
  BY <1>5, TurnTimesOut
<1>6. CASE Reload
  BY <1>6, TurnReload
<1>7. CASE Firmware
  BY <1>7, TurnTake, TurnExecute, TurnAnswer DEF Firmware
<1>8. CASE Wedge
  BY <1>8, TurnWedge
<1>9. CASE UNCHANGED vars
  BY <1>9 DEF vars, TurnInv, Shapes, Bound, Turns, Asked1, AtRest, NoCalls, NoReply,
              ReplyIsOurs
<1> QED
  BY <1>1, <1>2, <1>3, <1>4, <1>5, <1>6, <1>7, <1>8, <1>9 DEF Next, Host, Over

(* Only a step of pmu_memx_exec writes to the segment, and then the command *)
(* before is answered or the firmware is dead.                             *)
LEMMA SegmentStep ==
    TurnInv /\ [Next]_vars =>
        [mail'.seg # mail.seg => (mail.calls = <<>> /\ ~pmu.on) \/ pmu.wedged]_vars
<1> SUFFICES ASSUME TurnInv, [Next]_vars, mail'.seg # mail.seg
             PROVE  NoCalls \/ pmu.wedged
  BY DEF NoCalls
<1>1. CASE Fill
  <2>1. exec.stage = "seg"
    BY <1>1 DEF Fill
  <2> QED
    BY <2>1 DEF TurnInv, Turns, AtRest
<1>2. CASE UNCHANGED mail
  BY <1>2
<1>3. CASE Push
  BY <1>3 DEF Push, TurnInv, Shapes
<1>4. CASE Reply
  <2>1. PICK ours : mail' = [mail EXCEPT !.replies = Tail(@), !.ours = ours]
    BY <1>4 DEF Reply
  <2> QED
    BY <2>1 DEF TurnInv, Shapes
<1>5. CASE Reset
  BY <1>5 DEF Reset, TurnInv, Shapes
<1>6. CASE TimesOut
  BY <1>2, <1>5, <1>6 DEF TimesOut, Failed, CannotStart
<1>7. CASE Reload
  BY <1>5, <1>7 DEF Reload
<1>8. CASE Take \/ Answer
  BY <1>8 DEF Take, Answer, TurnInv, Shapes
<1>9. CASE Flush \/ Access \/ Pause \/ Block \/ Start \/ Stop \/ Pramin \/ PassDone
  BY <1>2, <1>9 DEF Flush, Access, Pause, Block, Start, Stop, Pramin, PassDone
<1>10. CASE Execute \/ Wedge \/ UNCHANGED vars
  BY <1>2, <1>10 DEF Execute, Wedge, vars
<1> QED
  BY <1>1, <1>3, <1>4, <1>6, <1>7, <1>8, <1>9, <1>10 DEF Next, Host, Firmware, Over

-----------------------------------------------------------------------------
(* pmu_memx_exec never writes into the data segment under a script that is *)
(* announced or running, unless the firmware is dead.                      *)
THEOREM SegmentKept == DeadlinesEnd => (Spec => SegmentStable)
<1> SUFFICES ASSUME DeadlinesEnd PROVE Spec => SegmentStable
  OBVIOUS
<1>1. Init => TurnInv
  BY TurnInit
<1>2. TurnInv /\ [Next]_vars => TurnInv'
  BY TurnNext
<1>3. TurnInv /\ [Next]_vars =>
        [mail'.seg # mail.seg => (mail.calls = <<>> /\ ~pmu.on) \/ pmu.wedged]_vars
  BY SegmentStep
<1> QED
  BY <1>1, <1>2, <1>3, PTL DEF Spec, SegmentStable

(* The reply pmu_send takes for its own is its own, although no reply says *)
(* which command it answers.                                               *)
THEOREM OwnReplies == DeadlinesEnd => (Spec => []ReplyIsOurs)
<1> SUFFICES ASSUME DeadlinesEnd PROVE Spec => []ReplyIsOurs
  OBVIOUS
<1>1. Init => TurnInv
  BY TurnInit
<1>2. TurnInv /\ [Next]_vars => TurnInv'
  BY TurnNext
<1>3. TurnInv => ReplyIsOurs
  BY DEF TurnInv
<1> QED
  BY <1>1, <1>2, <1>3, PTL DEF Spec

-----------------------------------------------------------------------------
(* A straight run, as a course R of registers and events through the N     *)
(* operations of a program: each adds one event or none.                   *)

Happening == [k : {"wr", "delay", "wait", "enter", "leave"}, reg : Regs, val : Values]

(* The registers after an event.                                           *)
Upd(regs, e) == IF e.k = "wr" THEN [regs EXCEPT ![e.reg] = e.val] ELSE regs

Course(R, N) ==
    /\ N \in Nat /\ R[0].log = <<>>
    /\ \A n \in 0 .. N : R[n].log \in Seq(Happening) /\ R[n].regs \in [Regs -> Values]
    /\ \A n \in 1 .. N :
         \/ R[n].log = R[n - 1].log /\ R[n].regs = R[n - 1].regs
         \/ \E e \in Happening : /\ R[n].log = Append(R[n - 1].log, e)
                                 /\ R[n].regs = Upd(R[n - 1].regs, e)

(* A set of numbers that is not empty has a least one.                     *)
LEMMA LeastOf ==
    ASSUME NEW X \in SUBSET Nat, X # {}
    PROVE  \E x \in X : x \in Nat /\ (x # 0 => x - 1 \in Nat \ X)
<1>1. PICK x \in X : \A y \in X : ~(<<y, x>> \in OpToRel(<, Nat))
  BY NatLessThanWellFounded, WFMin
<1>2. ASSUME NEW y \in X PROVE ~(y < x)
  <2>1. ~(<<y, x>> \in OpToRel(<, Nat)) /\ <<y, x>> \in Nat \X Nat
    BY <1>1
  <2>2. <<y, x>>[1] = y /\ <<y, x>>[2] = x
    OBVIOUS
  <2> QED
    BY <2>1, <2>2 DEF OpToRel
<1>3. x # 0 => x - 1 \in Nat /\ x - 1 < x
  OBVIOUS
<1> QED
  BY <1>2, <1>3

(* What an append leaves and adds.                                         *)
LEMMA Appended ==
    ASSUME NEW S, NEW s \in Seq(S), NEW e \in S
    PROVE  /\ Append(s, e) \in Seq(S) /\ Len(Append(s, e)) = Len(s) + 1 /\ Len(s) \in Nat
           /\ Append(s, e)[Len(s) + 1] = e
           /\ \A k \in 1 .. Len(s) : Append(s, e)[k] = s[k]
OBVIOUS

(* A later point of a course has the events of an earlier one, and the same *)
(* registers if it has no more of them.                                    *)
LEMMA CourseGrows ==
    ASSUME NEW R, NEW N, Course(R, N), NEW i \in 0 .. N, NEW j \in i .. N
    PROVE  /\ Len(R[i].log) \in Nat /\ Len(R[j].log) \in Nat /\ Len(R[i].log) <= Len(R[j].log)
           /\ \A k \in 1 .. Len(R[i].log) : R[j].log[k] = R[i].log[k]
           /\ Len(R[i].log) = Len(R[j].log) => R[i].log = R[j].log /\ R[i].regs = R[j].regs
<1> DEFINE Holds(m) ==
             /\ Len(R[i].log) <= Len(R[m].log)
             /\ \A k \in 1 .. Len(R[i].log) : R[m].log[k] = R[i].log[k]
             /\ Len(R[i].log) = Len(R[m].log) => R[i].log = R[m].log /\ R[i].regs = R[m].regs
           Bad == {d \in 0 .. N - i : ~Holds(i + d)}
<1>0. N \in Nat /\ i \in Nat /\ \A n \in 0 .. N : R[n].log \in Seq(Happening) /\ Len(R[n].log) \in Nat
  BY DEF Course
<1>1. Bad = {}
  <2>1. SUFFICES ASSUME Bad # {} PROVE FALSE
    OBVIOUS
  <2>2. Bad \in SUBSET Nat
    BY <1>0
  <2>3. PICK d \in Bad : d \in Nat /\ (d # 0 => d - 1 \in Nat \ Bad)
    BY <2>1, <2>2, LeastOf
  <2>4. d \in 0 .. N - i /\ ~Holds(i + d)
    OBVIOUS
  <2>5. d # 0
    BY <1>0, <2>4
  <2>6. Holds(i + d - 1)
    <3>1. d - 1 \in 0 .. N - i /\ i + (d - 1) = i + d - 1
      BY <1>0, <2>4, <2>5
    <3> QED
      BY <2>3, <2>5, <3>1
  <2> DEFINE n == i + d
  <2>7. n \in 1 .. N /\ n - 1 \in 0 .. N
    BY <1>0, <2>4, <2>5
  <2>8. R[n].log \in Seq(Happening) /\ R[n - 1].log \in Seq(Happening) /\ R[i].log \in Seq(Happening)
    BY <1>0, <2>7
  <2> HIDE DEF n
  <2>9. ASSUME R[n].log = R[n - 1].log, R[n].regs = R[n - 1].regs PROVE Holds(n)
    BY <2>6, <2>9 DEF n
  <2>10. ASSUME NEW e \in Happening, R[n].log = Append(R[n - 1].log, e) PROVE Holds(n)
    <3>1. PICK s \in Seq(Happening) : s = R[n - 1].log
      BY <2>8
    <3>2. /\ Len(R[n].log) = Len(s) + 1 /\ Len(s) \in Nat
          /\ \A k \in 1 .. Len(s) : R[n].log[k] = s[k]
      BY <2>10, <3>1, Appended
    <3>3. Len(R[i].log) <= Len(s) /\ \A k \in 1 .. Len(R[i].log) : s[k] = R[i].log[k]
      BY <2>6, <3>1 DEF n
    <3> QED
      BY <1>0, <2>8, <3>2, <3>3
  <2>11. Holds(n)
    BY <2>7, <2>9, <2>10 DEF Course
  <2> QED
    BY <2>4, <2>11 DEF n
<1>2. j - i \in 0 .. N - i /\ i + (j - i) = j
  BY <1>0
<1>3. Holds(j)
  <2>1. j - i \notin Bad
    BY <1>1, Zenon
  <2> QED
    BY <1>2, <2>1
<1> QED
  BY <1>0, <1>3

(* A controller that is at a point of the course, and sees the next event  *)
(* of it, is at a point of the course again.                               *)
LEMMA CourseStep ==
    ASSUME NEW R, NEW N, Course(R, N), NEW n \in 0 .. N,
           Len(R[n].log) < Len(R[N].log),
           NEW e, e = R[N].log[Len(R[n].log) + 1]
    PROVE  /\ e \in Happening
           /\ \E m \in 0 .. N : /\ R[m].log = Append(R[n].log, e)
                                /\ R[m].regs = Upd(R[n].regs, e)
<1>0. N \in Nat /\ \A m \in 0 .. N : R[m].log \in Seq(Happening) /\ Len(R[m].log) \in Nat
  BY DEF Course
<1>1. e \in Happening
  <2>1. Len(R[n].log) + 1 \in 1 .. Len(R[N].log) /\ R[N].log \in Seq(Happening)
    BY <1>0
  <2> QED
    BY <2>1, ElementOfSeq
<1> DEFINE X == {m \in 0 .. N : Len(R[n].log) < Len(R[m].log)}
<1>2. PICK m \in X : m \in Nat /\ (m # 0 => m - 1 \in Nat \ X)
  <2>1. X \in SUBSET Nat /\ N \in X
    BY <1>0
  <2> QED
    BY <2>1, LeastOf
<1>3. m \in 0 .. N /\ Len(R[n].log) < Len(R[m].log)
  OBVIOUS
<1>4. m > n
  <2>1. SUFFICES ASSUME m <= n PROVE FALSE
    BY <1>0, <1>2
  <2>2. n \in m .. N
    BY <1>0, <1>2, <2>1
  <2>3. Len(R[m].log) <= Len(R[n].log)
    BY <1>3, <2>2, CourseGrows
  <2> QED
    BY <1>0, <1>3, <2>3
<1>5. m - 1 \in n .. N /\ m - 1 \in 0 .. N /\ m \in 1 .. N
  BY <1>0, <1>3, <1>4
<1>6. ~(Len(R[n].log) < Len(R[m - 1].log))
  BY <1>2, <1>5
<1>7. R[m - 1].log = R[n].log /\ R[m - 1].regs = R[n].regs
  <2>1. Len(R[n].log) <= Len(R[m - 1].log)
    BY <1>5, CourseGrows
  <2>2. Len(R[n].log) = Len(R[m - 1].log)
    BY <1>0, <1>5, <1>6, <2>1
  <2> QED
    BY <1>5, <2>2, CourseGrows
<1>8. PICK g \in Happening : R[m].log = Append(R[n].log, g) /\ R[m].regs = Upd(R[n].regs, g)
  <2>1. R[m].log # R[m - 1].log
    BY <1>0, <1>3, <1>7
  <2> QED
    BY <1>5, <1>7, <2>1 DEF Course
<1>9. g = e
  <2>1. PICK s \in Seq(Happening) : s = R[n].log
    BY <1>0
  <2>2. R[m].log[Len(s) + 1] = g /\ Len(R[m].log) = Len(s) + 1 /\ Len(s) \in Nat
    BY <1>8, <2>1, Appended
  <2>3. N \in m .. N
    BY <1>0, <1>3
  <2>4. R[N].log[Len(s) + 1] = R[m].log[Len(s) + 1]
    BY <1>3, <2>2, <2>3, CourseGrows
  <2> QED
    BY <2>1, <2>2, <2>4
<1> QED
  BY <1>1, <1>3, <1>8, <1>9

-----------------------------------------------------------------------------
(* The straight run of a program is a course.                              *)

AnyOp == [k : {"check", "start", "restart", "block", "unblock", "start2", "stop", "ensure",
               "store", "mask", "nvmask", "write", "delay", "wait"},
          reg : Regs, val : Values]
Point == [regs : [Regs -> Values], log : Seq(Happening)]

(* What is assumed of the constants.                                       *)
LEMMA Constants ==
    /\ Hostile \in Regs /\ 0 \in Values /\ Nothing \notin Values
    /\ Chunk \in Nat \ {0} /\ Slots \in Nat \ {0} /\ Capacity \in Nat \ {0}
BY MemxAssumption, ProgramAssumption

(* A record for what has no register, and for an event of that kind.       *)
LEMMA PlainIs ==
    ASSUME NEW k
    PROVE  /\ Plain(k).k = k /\ Plain(k).reg \in Regs /\ Plain(k).val \in Values
           /\ k \in {"delay", "wait", "enter", "leave"} => Plain(k) \in Happening
BY Constants DEF Plain, O, Happening

(* A store and a pause are one event each.                                 *)
LEMMA EventIs ==
    ASSUME NEW d \in Point
    PROVE  /\ \A r \in Regs, v \in Values :
                /\ O("wr", r, v) \in Happening
                /\ Stored(d, r, v) \in Point
                /\ Stored(d, r, v).log = Append(d.log, O("wr", r, v))
                /\ Stored(d, r, v).regs = Upd(d.regs, O("wr", r, v))
           /\ \A k \in {"delay", "wait", "enter", "leave"} :
                /\ Plain(k) \in Happening
                /\ Logged(d, k) \in Point
                /\ Logged(d, k).log = Append(d.log, Plain(k))
                /\ Logged(d, k).regs = Upd(d.regs, Plain(k))
<1>1. d.log \in Seq(Happening) /\ d.regs \in [Regs -> Values] /\ d = [regs |-> d.regs, log |-> d.log]
  BY DEF Point
<1>2. ASSUME NEW r \in Regs, NEW v \in Values
      PROVE  /\ O("wr", r, v) \in Happening
             /\ Stored(d, r, v) \in Point
             /\ Stored(d, r, v).log = Append(d.log, O("wr", r, v))
             /\ Stored(d, r, v).regs = Upd(d.regs, O("wr", r, v))
  <2>1. O("wr", r, v) \in Happening
    BY DEF O, Happening
  <2>2. PICK e \in Happening : e = O("wr", r, v)
    BY <2>1
  <2>3. e.k = "wr" /\ e.reg = r /\ e.val = v
    BY <2>2 DEF O
  <2>4. Stored(d, r, v) = [regs |-> [d.regs EXCEPT ![r] = v], log |-> Append(d.log, e)]
    <3>1. PICK regs, log : d = [regs |-> regs, log |-> log]
      BY <1>1
    <3>2. Stored(d, r, v) = [d EXCEPT !.regs[r] = v, !.log = Append(@, e)]
      BY <2>2 DEF Stored
    <3> QED
      BY <3>1, <3>2
  <2>5. Append(d.log, e) \in Seq(Happening) /\ [d.regs EXCEPT ![r] = v] \in [Regs -> Values]
    BY <1>1, Appended
  <2> QED
    BY <2>1, <2>2, <2>3, <2>4, <2>5 DEF Point, Upd
<1>3. ASSUME NEW k \in {"delay", "wait", "enter", "leave"}
      PROVE  /\ Plain(k) \in Happening
             /\ Logged(d, k) \in Point
             /\ Logged(d, k).log = Append(d.log, Plain(k))
             /\ Logged(d, k).regs = Upd(d.regs, Plain(k))
  <2>1. PICK e \in Happening : e = Plain(k)
    BY PlainIs
  <2>2. e.k # "wr"
    BY <2>1, PlainIs
  <2>3. Logged(d, k) = [regs |-> d.regs, log |-> Append(d.log, e)]
    BY <1>1, <2>1, SMTT(30) DEF Logged
  <2>4. Append(d.log, e) \in Seq(Happening)
    BY <1>1, Appended
  <2> QED
    BY <1>1, <2>1, <2>2, <2>3, <2>4 DEF Point, Upd
<1> QED
  BY <1>2, <1>3

(* An operation leaves the controller as it is, or is one event.           *)
LEMMA ApplyIs ==
    ASSUME NEW d \in Point, NEW o \in AnyOp, NEW block
    PROVE  /\ Apply(d, o, block) \in Point
           /\ \/ Apply(d, o, block) = d
              \/ \E e \in Happening : /\ Apply(d, o, block).log = Append(d.log, e)
                                      /\ Apply(d, o, block).regs = Upd(d.regs, e)
<1>1. o.reg \in Regs /\ o.val \in Values
  BY DEF AnyOp
<1>2. \/ Apply(d, o, block) = d
      \/ Apply(d, o, block) = Stored(d, o.reg, o.val)
      \/ \E k \in {"delay", "wait", "enter", "leave"} : Apply(d, o, block) = Logged(d, k)
  <2>1. CASE o.k = "mask" /\ d.regs[o.reg] = o.val
    BY <2>1 DEF Apply
  <2>2. CASE o.k \in Accesses /\ o.reg = Hostile
    BY <2>2 DEF Apply, Accesses
  <2>3. CASE /\ o.k \in {"mask", "nvmask", "write", "store"}
             /\ ~(o.k = "mask" /\ d.regs[o.reg] = o.val)
             /\ ~(o.k \in Accesses /\ o.reg = Hostile)
    BY <2>3 DEF Apply, Accesses
  <2>4. CASE o.k \in {"delay", "wait", "block", "unblock"}
    BY <2>4 DEF Apply, Accesses
  <2>5. CASE o.k \notin {"mask", "nvmask", "write", "store", "delay", "wait", "block", "unblock"}
    BY <2>5 DEF Apply, Accesses
  <2> QED
    BY <2>1, <2>2, <2>3, <2>4, <2>5 DEF Accesses
<1>3. CASE Apply(d, o, block) = d
  BY <1>3
<1>4. CASE Apply(d, o, block) = Stored(d, o.reg, o.val)
  <2>1. PICK e \in Happening : e = O("wr", o.reg, o.val)
    BY <1>1, EventIs
  <2>2. /\ Stored(d, o.reg, o.val) \in Point
        /\ Stored(d, o.reg, o.val).log = Append(d.log, e)
        /\ Stored(d, o.reg, o.val).regs = Upd(d.regs, e)
    BY <1>1, <2>1, EventIs
  <2> QED
    BY <1>4, <2>2
<1>5. ASSUME NEW k \in {"delay", "wait", "enter", "leave"}, Apply(d, o, block) = Logged(d, k)
      PROVE  /\ Apply(d, o, block) \in Point
             /\ \E e \in Happening : /\ Apply(d, o, block).log = Append(d.log, e)
                                     /\ Apply(d, o, block).regs = Upd(d.regs, e)
  <2>1. PICK e \in Happening : e = Plain(k)
    BY EventIs
  <2>2. /\ Logged(d, k) \in Point /\ Logged(d, k).log = Append(d.log, e)
        /\ Logged(d, k).regs = Upd(d.regs, e)
    BY <2>1, EventIs
  <2> QED
    BY <1>5, <2>2
<1> QED
  BY <1>2, <1>3, <1>4, <1>5

(* The points of a straight run, one operation after the other.            *)
LEMMA StraightIs ==
    ASSUME NEW ops \in Seq(AnyOp), NEW base \in [Regs -> Values], NEW block
    PROVE  LET S == Straight(ops, base, block)
           IN  /\ S[0] = [regs |-> base, log |-> <<>>]
               /\ \A n \in 1 .. Len(ops) : S[n] = Apply(S[n - 1], ops[n], block)
               /\ \A n \in 0 .. Len(ops) : S[n] \in Point
<1> DEFINE N == Len(ops)
           Body(w, n) == IF n = 0 THEN [regs |-> base, log |-> <<>>]
                         ELSE Apply(w[n - 1], ops[n], block)
           Bad == {k \in 0 .. N : ~\E w : w = [n \in 0 .. k |-> Body(w, n)]}
<1>0. N \in Nat /\ \A n \in 1 .. N : ops[n] \in AnyOp
  BY ElementOfSeq
<1> HIDE DEF N
<1>1. Bad = {}
  <2>1. SUFFICES ASSUME Bad # {} PROVE FALSE
    OBVIOUS
  <2>2. Bad \in SUBSET Nat
    BY <1>0
  <2>3. PICK k \in Bad : k \in Nat /\ (k # 0 => k - 1 \in Nat \ Bad)
    BY <2>1, <2>2, LeastOf
  <2>4. k \in 0 .. N
    OBVIOUS
  <2>5. k # 0
    <3>1. SUFFICES ASSUME k = 0 PROVE FALSE
      OBVIOUS
    <3>2. PICK w : w = [n \in 0 .. k |-> [regs |-> base, log |-> <<>>]]
      OBVIOUS
    <3>3. \A n \in 0 .. k : Body(w, n) = [regs |-> base, log |-> <<>>]
      BY <3>1
    <3>4. w = [n \in 0 .. k |-> Body(w, n)]
      BY <3>2, <3>3
    <3> QED
      BY <3>4
  <2>6. k - 1 \in 0 .. N /\ k - 1 \notin Bad
    <3> HIDE DEF Bad
    <3>1. k - 1 \in Nat \ Bad
      BY <2>3, <2>5
    <3> QED
      BY <1>0, <2>4, <3>1
  <2>7. PICK w : w = [n \in 0 .. k - 1 |-> Body(w, n)]
    BY <2>6
  <2>8. PICK u : u = [n \in 0 .. k |-> IF n = k THEN Body(w, k) ELSE w[n]]
    OBVIOUS
  <2>9. \A n \in 0 .. k : u[n] = Body(u, n)
    <3>1. SUFFICES ASSUME NEW n \in 0 .. k PROVE u[n] = Body(u, n)
      OBVIOUS
    <3>2. ASSUME n # 0 PROVE u[n - 1] = w[n - 1]
      <4>1. n - 1 \in 0 .. k /\ n - 1 # k
        BY <2>4, <3>2
      <4> QED
        BY <2>8, <4>1
    <3>3. Body(u, n) = Body(w, n)
      BY <3>2
    <3>4. CASE n = k
      BY <2>8, <3>3, <3>4
    <3>5. CASE n # k
      <4>1. n \in 0 .. k - 1
        BY <2>4, <3>5
      <4>2. w[n] = Body(w, n)
        BY <2>7, <4>1
      <4> QED
        BY <2>8, <3>3, <3>5, <4>2
    <3> QED
      BY <3>4, <3>5
  <2>10. u = [n \in 0 .. k |-> Body(u, n)]
    <3>1. u = [n \in 0 .. k |-> u[n]]
      BY <2>8
    <3> QED
      BY <2>9, <3>1, Zenon
  <2> QED
    BY <2>10
<1>2. \E w : w = [n \in 0 .. N |-> Body(w, n)]
  <2>1. N \in 0 .. N
    BY <1>0
  <2>2. N \notin Bad
    BY <1>1, Zenon
  <2> QED
    BY <2>1, <2>2
<1>3. PICK s : s = Straight(ops, base, block)
  OBVIOUS
<1>4. s = [n \in 0 .. N |-> IF n = 0 THEN [regs |-> base, log |-> <<>>]
                            ELSE Apply(s[n - 1], ops[n], block)]
  BY <1>2, <1>3, Zenon DEF Straight, N
<1>5. \A n \in 0 .. N : s[n] = Body(s, n)
  BY <1>4, Zenon
<1>6. s[0] = [regs |-> base, log |-> <<>>]
  BY <1>0, <1>5
<1>7. \A n \in 1 .. N : s[n] = Apply(s[n - 1], ops[n], block)
  <2>1. ASSUME NEW n \in 1 .. N PROVE s[n] = Apply(s[n - 1], ops[n], block)
    <3>1. n \in 0 .. N /\ n # 0
      BY <1>0
    <3> QED
      BY <1>5, <3>1
  <2> QED
    BY <2>1
<1> DEFINE Odd == {n \in 0 .. N : s[n] \notin Point}
<1>8. Odd = {}
  <2>1. SUFFICES ASSUME Odd # {} PROVE FALSE
    OBVIOUS
  <2>2. Odd \in SUBSET Nat
    BY <1>0
  <2>3. PICK n \in Odd : n \in Nat /\ (n # 0 => n - 1 \in Nat \ Odd)
    BY <2>1, <2>2, LeastOf
  <2>4. n \in 0 .. N /\ s[n] \notin Point
    OBVIOUS
  <2>5. n # 0
    <3>1. <<>> \in Seq(Happening)
      BY EmptySeq
    <3>2. [regs |-> base, log |-> <<>>] \in Point
      BY <3>1 DEF Point
    <3> QED
      BY <1>6, <2>4, <3>2
  <2>6. s[n - 1] \in Point
    <3>1. n - 1 \in 0 .. N
      BY <1>0, <2>4, <2>5
    <3> QED
      BY <2>3, <2>5, <3>1
  <2>7. n \in 1 .. N
    BY <1>0, <2>4, <2>5
  <2> QED
    BY <1>0, <1>7, <2>4, <2>6, <2>7, ApplyIs
<1>9. \A n \in 0 .. N : s[n] \in Point
  BY <1>8, Zenon
<1> QED
  BY <1>3, <1>6, <1>7, <1>9 DEF N

(* Registers and events of a straight run are a course.                    *)
LEMMA StraightCourse ==
    ASSUME NEW ops \in Seq(AnyOp), NEW base \in [Regs -> Values], NEW block
    PROVE  Course(Straight(ops, base, block), Len(ops))
<1>1. PICK s : s = Straight(ops, base, block)
  OBVIOUS
<1>2. /\ s[0] = [regs |-> base, log |-> <<>>]
      /\ \A n \in 1 .. Len(ops) : s[n] = Apply(s[n - 1], ops[n], block)
      /\ \A n \in 0 .. Len(ops) : s[n] \in Point
  BY <1>1, StraightIs
<1>3. Len(ops) \in Nat /\ \A n \in 1 .. Len(ops) : ops[n] \in AnyOp
  BY ElementOfSeq
<1>4. ASSUME NEW n \in 1 .. Len(ops)
      PROVE  \/ s[n].log = s[n - 1].log /\ s[n].regs = s[n - 1].regs
             \/ \E e \in Happening : /\ s[n].log = Append(s[n - 1].log, e)
                                     /\ s[n].regs = Upd(s[n - 1].regs, e)
  <2>1. n - 1 \in 0 .. Len(ops)
    BY <1>3
  <2>2. s[n - 1] \in Point /\ s[n] = Apply(s[n - 1], ops[n], block) /\ ops[n] \in AnyOp
    BY <1>2, <1>3, <2>1
  <2> QED
    BY <2>2, ApplyIs, SMTT(30)
<1>5. \A n \in 0 .. Len(ops) : s[n].log \in Seq(Happening) /\ s[n].regs \in [Regs -> Values]
  BY <1>2 DEF Point
<1> QED
  BY <1>1, <1>2, <1>3, <1>4, <1>5 DEF Course

-----------------------------------------------------------------------------
(* The shape of a program: what stands where.                              *)

Plains == {"mask", "nvmask", "write", "delay", "wait"}

(* The host pauses the framebuffer at b and lets it go at u.               *)
Shape(p, b, u) ==
    /\ p \in Seq(AnyOp) /\ b \in 2 .. Len(p) /\ u \in b + 1 .. Len(p) - 1
    /\ \A i \in 1 .. Len(p) :
         /\ p[i].k \in {"check", "start"} <=> i = 1
         /\ p[i].k = "block" <=> i = b
         /\ p[i].k = "unblock" <=> i = u
         /\ p[i].k = "restart" => i = b - 1
         /\ p[i].k \in {"start2", "stop", "ensure", "store"} => i > u
         /\ p[i].k = "start2" => i > 1 /\ p[i - 1].k = "stop"
         /\ p[i].k \in {"ensure", "store"} => i > 1 /\ p[i - 1].k \in {"stop", "ensure", "store"}
    /\ p[b - 1].k = "restart" /\ p[u + 1].k = "write" /\ p[u + 1].reg # Hostile
    /\ p[Len(p)].k \in {"stop", "ensure", "store"}

(* The sequence r is s, of length n, with t, of length l, after it.         *)
Joins(r, s, t, n, l) ==
    /\ r \in Seq(AnyOp) /\ Len(r) = n + l /\ n \in Nat /\ l \in Nat
    /\ \A i \in 1 .. n : r[i] = s[i]
    /\ \A i \in 1 .. l : r[n + i] = t[i]

(* The elements of a concatenation.                                        *)
LEMMA Cat ==
    ASSUME NEW s \in Seq(AnyOp), NEW t \in Seq(AnyOp), NEW r, r = s \o t,
           NEW n, n = Len(s), NEW l, l = Len(t)
    PROVE  Joins(r, s, t, n, l)
<1> DEFINE S == AnyOp
<1> HIDE DEF S
<1>1. s \in Seq(S) /\ t \in Seq(S)
  BY DEF S
<1>2. /\ r \in Seq(S) /\ Len(r) = n + l /\ n \in Nat /\ l \in Nat
      /\ \A i \in 1 .. n : r[i] = s[i]
      /\ \A i \in 1 .. l : r[n + i] = t[i]
  BY <1>1
<1> QED
  BY <1>2 DEF Joins, S

(* The parts that a program is made of are operations.                     *)
LEMMA PartsTyped ==
    /\ \A part \in Prog0s \cup Bodies \cup Tails :
         /\ part \in Seq(AnyOp) /\ Len(part) \in Nat
         /\ \A i \in 1 .. Len(part) : part[i].k \in Plains
    /\ \A t \in Tails : Len(t) >= 1 /\ t[1].k = "write" /\ t[1].reg # Hostile
    /\ Stores \in Seq(AnyOp) /\ Len(Stores) \in Nat
    /\ \A i \in 1 .. Len(Stores) : Stores[i].k = "store"
<1>1. Operation \subseteq AnyOp /\ \A o \in Operation : o.k \in Plains
  BY DEF Operation, AnyOp, Plains
<1>2. ASSUME NEW part \in Prog0s \cup Bodies \cup Tails
      PROVE  /\ part \in Seq(AnyOp) /\ Len(part) \in Nat
             /\ \A i \in 1 .. Len(part) : part[i].k \in Plains
  <2>1. part \in Seq(Operation)
    BY ProgramAssumption
  <2> QED
    BY <1>1, <2>1, SeqMonotonic, ElementOfSeq, LenProperties
<1>3. ASSUME NEW t \in Tails PROVE Len(t) >= 1 /\ t[1].k = "write" /\ t[1].reg # Hostile
  <2>1. t \in Seq(Operation) /\ t # <<>> /\ t[1].k = "write" /\ t[1].reg # Hostile
    BY ProgramAssumption
  <2> QED
    BY <2>1, EmptySeq
<1>4. Stores \in Seq(AnyOp) /\ Len(Stores) \in Nat /\ \A i \in 1 .. Len(Stores) : Stores[i].k = "store"
  <2> DEFINE St == [k : {"store"}, reg : Regs, val : Values]
  <2>1. Stores \in Seq(St) /\ St \subseteq AnyOp /\ \A o \in St : o.k = "store"
    BY ProgramAssumption DEF AnyOp
  <2> QED
    BY <2>1, SeqMonotonic, ElementOfSeq, LenProperties
<1> QED
  BY <1>2, <1>3, <1>4

(* An operation of the program that names no register.                     *)
LEMMA PlainOp ==
    ASSUME NEW k \in {"check", "start", "restart", "block", "unblock", "start2", "stop", "ensure"}
    PROVE  Plain(k) \in AnyOp /\ Plain(k).k = k
BY Constants DEF Plain, O, AnyOp

(* Sequences of no, one and two operations.                                *)
LEMMA Few ==
    ASSUME NEW o \in AnyOp, NEW q \in AnyOp
    PROVE  /\ <<>> \in Seq(AnyOp) /\ Len(<<>>) = 0
           /\ <<o>> \in Seq(AnyOp) /\ Len(<<o>>) = 1 /\ <<o>>[1] = o
           /\ <<o, q>> \in Seq(AnyOp) /\ Len(<<o, q>>) = 2 /\ <<o, q>>[1] = o /\ <<o, q>>[2] = q
<1> DEFINE S == AnyOp
<1> HIDE DEF S
<1>1. o \in S /\ q \in S
  BY DEF S
<1>2. <<>> \in Seq(S) /\ <<o>> \in Seq(S) /\ <<o, q>> \in Seq(S)
  BY <1>1
<1> QED
  BY <1>2 DEF S

(* run_vbios_ram_program has the shape the proof relies on.                *)
LEMMA ProgramShape ==
    ASSUME NEW s, NEW last, NEW p \in Programs(s, last)
    PROVE  \E b, u : Shape(p, b, u)
<1>1. PICK p0 \in Prog0s, body \in Bodies, tail \in Tails : p = Program(s, p0, body, tail, last)
  BY DEF Programs
<1>2. PICK n0 \in Nat, nb \in Nat, nt \in Nat :
        /\ p0 \in Seq(AnyOp) /\ Len(p0) = n0 /\ \A i \in 1 .. n0 : p0[i].k \in Plains
        /\ body \in Seq(AnyOp) /\ Len(body) = nb /\ \A i \in 1 .. nb : body[i].k \in Plains
        /\ tail \in Seq(AnyOp) /\ Len(tail) = nt /\ \A i \in 1 .. nt : tail[i].k \in Plains
        /\ nt >= 1 /\ tail[1].k = "write" /\ tail[1].reg # Hostile
  BY PartsTyped
<1>0. PICK op : \A k \in {"check", "start", "restart", "block", "unblock", "start2", "stop", "ensure"} :
                  op[k] = Plain(k) /\ op[k] \in AnyOp /\ op[k].k = k
  <2>1. PICK op : op = [k \in {"check", "start", "restart", "block", "unblock", "start2", "stop",
                               "ensure"} |-> Plain(k)]
    OBVIOUS
  <2> QED
    BY <2>1, PlainOp
<1>3. PICK first : /\ first \in Seq(AnyOp) /\ Len(first) = 1 /\ first[1].k \in {"check", "start"}
                   /\ first = <<Plain(IF s.hostProg0 THEN "check" ELSE "start")>>
  <2>1. PICK k \in {"check", "start"} : k = IF s.hostProg0 THEN "check" ELSE "start"
    OBVIOUS
  <2>2. Plain(k) \in AnyOp /\ Plain(k).k = k
    BY PlainOp
  <2> QED
    BY <2>1, <2>2, Few
<1>4. PICK pause : /\ pause \in Seq(AnyOp) /\ Len(pause) = 2 /\ pause[1].k = "restart"
                   /\ pause[2].k = "block" /\ pause = <<Plain("restart"), Plain("block")>>
  <2>1. PICK o \in AnyOp, q \in AnyOp : /\ o = Plain("restart") /\ o.k = "restart"
                                        /\ q = Plain("block") /\ q.k = "block"
    BY PlainOp
  <2>2. PICK w : w = <<o, q>>
    OBVIOUS
  <2>3. w \in Seq(AnyOp) /\ Len(w) = 2 /\ w[1] = o /\ w[2] = q
    BY <2>2, Few
  <2> QED
    BY <2>1, <2>2, <2>3
<1>5. PICK go : go \in Seq(AnyOp) /\ Len(go) = 1 /\ go[1].k = "unblock" /\ go = <<Plain("unblock")>>
  <2>1. PICK o \in AnyOp : o = Plain("unblock") /\ o.k = "unblock"
    BY PlainOp
  <2> QED
    BY <2>1, Few
<1>60. PICK mid : mid = IF s.atomic THEN <<Plain("stop"), Plain("start2")>> ELSE <<>>
  OBVIOUS
<1>6. /\ mid \in Seq(AnyOp) /\ Len(mid) \in {0, 2}
      /\ Len(mid) = 2 => mid[1].k = "stop" /\ mid[2].k = "start2"
  <2>1. CASE mid = <<Plain("stop"), Plain("start2")>>
    BY <1>0, <2>1, Few
  <2>2. CASE mid = <<>>
    BY <1>0, <2>2, Few
  <2> QED
    BY <1>60, <2>1, <2>2
<1>7. PICK stop : stop \in Seq(AnyOp) /\ Len(stop) = 1 /\ stop[1].k = "stop" /\ stop = <<Plain("stop")>>
  <2>1. PICK o \in AnyOp : o = Plain("stop") /\ o.k = "stop"
    BY PlainOp
  <2> QED
    BY <2>1, Few
<1>80. PICK rest : rest = IF s.pramin /\ last THEN <<Plain("ensure")>> \o Stores ELSE <<>>
  OBVIOUS
<1>8. PICK nr \in Nat :
        /\ rest \in Seq(AnyOp) /\ Len(rest) = nr
        /\ \A i \in 1 .. nr : rest[i].k \in {"ensure", "store"}
  <2>1. CASE rest = <<Plain("ensure")>> \o Stores
    <3>1. PICK en \in Seq(AnyOp) : en = <<Plain("ensure")>> /\ Len(en) = 1 /\ en[1].k = "ensure"
      BY <1>0, Few
    <3>2. PICK ns \in Nat : ns = Len(Stores) /\ Stores \in Seq(AnyOp)
                            /\ \A i \in 1 .. ns : Stores[i].k = "store"
      BY PartsTyped
    <3>3. Joins(rest, en, Stores, 1, ns)
      BY <2>1, <3>1, <3>2, Cat
    <3>4. /\ rest \in Seq(AnyOp) /\ Len(rest) = 1 + ns /\ rest[1] = en[1]
          /\ \A i \in 1 .. ns : rest[1 + i] = Stores[i]
      BY <3>3 DEF Joins
    <3>5. ASSUME NEW i \in 1 .. 1 + ns PROVE rest[i].k \in {"ensure", "store"}
      <4>1. CASE i = 1
        BY <3>1, <3>4, <4>1
      <4>2. CASE i # 1
        <5>1. i - 1 \in 1 .. ns /\ 1 + (i - 1) = i
          BY <4>2
        <5>2. rest[1 + (i - 1)] = Stores[i - 1] /\ Stores[i - 1].k = "store"
          BY <3>2, <3>4, <5>1
        <5> QED
          BY <5>1, <5>2
      <4> QED
        BY <4>1, <4>2
    <3> QED
      BY <3>4, <3>5
  <2>2. CASE rest = <<>>
    <3>1. rest \in Seq(AnyOp) /\ Len(rest) = 0
      BY <1>0, <2>2, Few
    <3> QED
      BY <3>1
  <2> QED
    BY <1>80, <2>1, <2>2
<1>9. p = first \o p0 \o pause \o body \o go \o tail \o mid \o p0 \o stop \o rest
  BY <1>1, <1>3, <1>4, <1>5, <1>7, <1>60, <1>80 DEF Program
<1>10. PICK a1 : a1 = first \o p0
  OBVIOUS
<1>11. PICK a2 : a2 = a1 \o pause
  OBVIOUS
<1>12. PICK a3 : a3 = a2 \o body
  OBVIOUS
<1>13. PICK a4 : a4 = a3 \o go
  OBVIOUS
<1>14. PICK a5 : a5 = a4 \o tail
  OBVIOUS
<1>15. PICK a6 : a6 = a5 \o mid
  OBVIOUS
<1>16. PICK a7 : a7 = a6 \o p0
  OBVIOUS
<1>17. PICK a8 : a8 = a7 \o stop
  OBVIOUS
<1>18. p = a8 \o rest
  BY <1>9, <1>10, <1>11, <1>12, <1>13, <1>14, <1>15, <1>16, <1>17
<1>61. PICK nm \in Nat : nm = Len(mid) /\ nm \in {0, 2}
  BY <1>6
<1>28. PICK z \in Nat, b \in Nat, u \in Nat, t \in Nat, m \in Nat, e \in Nat :
         /\ z = 1 + n0 /\ b = z + 2 /\ u = b + nb + 1 /\ t = u + nt
         /\ m = t + nm /\ e = m + n0 + 1
  OBVIOUS
<1>19. /\ a1 \in Seq(AnyOp) /\ Len(a1) = z
       /\ a1[1] = first[1] /\ \A i \in 1 .. n0 : a1[1 + i] = p0[i]
  <2>1. Joins(a1, first, p0, 1, n0)
    BY <1>2, <1>3, <1>10, Cat
  <2> QED
    BY <2>1, <1>28, <1>2 DEF Joins
<1>20. /\ a2 \in Seq(AnyOp) /\ Len(a2) = b
       /\ \A i \in 1 .. z : a2[i] = a1[i]
       /\ a2[b - 1] = pause[1] /\ a2[b] = pause[2]
  <2>1. /\ a2 \in Seq(AnyOp) /\ Len(a2) = z + 2
        /\ \A i \in 1 .. z : a2[i] = a1[i]
        /\ \A i \in 1 .. 2 : a2[z + i] = pause[i]
    <3>1. Joins(a2, a1, pause, z, 2)
      BY <1>4, <1>11, <1>19, Cat
    <3> QED
      BY <3>1 DEF Joins
  <2>2. a2[z + 1] = pause[1] /\ a2[z + 2] = pause[2] /\ z + 1 = b - 1 /\ z + 2 = b
    BY <1>28, <2>1
  <2> QED
    BY <2>1, <2>2
<1>21. /\ a3 \in Seq(AnyOp) /\ Len(a3) = b + nb
       /\ \A i \in 1 .. b : a3[i] = a2[i]
       /\ \A i \in 1 .. nb : a3[b + i] = body[i]
  <2>1. Joins(a3, a2, body, b, nb)
    BY <1>2, <1>12, <1>20, Cat
  <2> QED
    BY <2>1 DEF Joins
<1>22. /\ a4 \in Seq(AnyOp) /\ Len(a4) = u
       /\ \A i \in 1 .. u - 1 : a4[i] = a3[i]
       /\ a4[u] = go[1]
  <2>1. /\ a4 \in Seq(AnyOp) /\ Len(a4) = b + nb + 1
        /\ \A i \in 1 .. b + nb : a4[i] = a3[i]
        /\ \A i \in 1 .. 1 : a4[b + nb + i] = go[i]
    <3>1. Joins(a4, a3, go, b + nb, 1)
      BY <1>5, <1>13, <1>21, Cat
    <3> QED
      BY <3>1 DEF Joins
  <2>2. a4[b + nb + 1] = go[1] /\ b + nb + 1 = u /\ b + nb = u - 1
    BY <1>28, <2>1
  <2> QED
    BY <2>1, <2>2
<1>23. /\ a5 \in Seq(AnyOp) /\ Len(a5) = t
       /\ \A i \in 1 .. u : a5[i] = a4[i]
       /\ \A i \in 1 .. nt : a5[u + i] = tail[i]
  <2>1. Joins(a5, a4, tail, u, nt)
    BY <1>2, <1>14, <1>22, Cat
  <2> QED
    BY <2>1, <1>28 DEF Joins
<1>24. /\ a6 \in Seq(AnyOp) /\ Len(a6) = m
       /\ \A i \in 1 .. t : a6[i] = a5[i]
       /\ \A i \in 1 .. nm : a6[t + i] = mid[i]
  <2>1. Joins(a6, a5, mid, t, nm)
    BY <1>6, <1>15, <1>23, <1>61, Cat
  <2> QED
    BY <2>1, <1>28 DEF Joins
<1>25. /\ a7 \in Seq(AnyOp) /\ Len(a7) = e - 1
       /\ \A i \in 1 .. m : a7[i] = a6[i]
       /\ \A i \in 1 .. n0 : a7[m + i] = p0[i]
  <2>1. /\ a7 \in Seq(AnyOp) /\ Len(a7) = m + n0
        /\ \A i \in 1 .. m : a7[i] = a6[i]
        /\ \A i \in 1 .. n0 : a7[m + i] = p0[i]
    <3>1. Joins(a7, a6, p0, m, n0)
      BY <1>2, <1>16, <1>24, Cat
    <3> QED
      BY <3>1 DEF Joins
  <2>2. m + n0 = e - 1
    BY <1>28
  <2> QED
    BY <2>1, <2>2
<1>26. /\ a8 \in Seq(AnyOp) /\ Len(a8) = e
       /\ \A i \in 1 .. e - 1 : a8[i] = a7[i]
       /\ a8[e] = stop[1]
  <2>1. /\ a8 \in Seq(AnyOp) /\ Len(a8) = e - 1 + 1
        /\ \A i \in 1 .. e - 1 : a8[i] = a7[i]
        /\ \A i \in 1 .. 1 : a8[e - 1 + i] = stop[i]
    <3>1. Joins(a8, a7, stop, e - 1, 1)
      BY <1>7, <1>17, <1>25, Cat
    <3> QED
      BY <3>1 DEF Joins
  <2>2. e - 1 + 1 = e /\ a8[e - 1 + 1] = stop[1]
    BY <2>1
  <2> QED
    BY <2>1, <2>2
<1>27. /\ p \in Seq(AnyOp) /\ Len(p) = e + nr
       /\ \A i \in 1 .. e : p[i] = a8[i]
       /\ \A i \in 1 .. nr : p[e + i] = rest[i]
  <2>1. Joins(p, a8, rest, e, nr)
    BY <1>8, <1>18, <1>26, Cat
  <2> QED
    BY <2>1 DEF Joins
(* Zone by zone.                                                           *)
<1>50. \A i \in 1 .. m : p[i] = a6[i]
  BY <1>25, <1>26, <1>27, <1>28
<1>51. \A i \in 1 .. t : p[i] = a5[i]
  BY <1>24, <1>28, <1>50
<1>52. \A i \in 1 .. u : p[i] = a4[i]
  BY <1>23, <1>28, <1>51
<1>53. \A i \in 1 .. u - 1 : p[i] = a3[i]
  BY <1>22, <1>28, <1>52
<1>54. \A i \in 1 .. b : p[i] = a2[i]
  BY <1>21, <1>28, <1>53
<1>55. \A i \in 1 .. z : p[i] = a1[i]
  BY <1>20, <1>28, <1>54
<1>29. p[1].k \in {"check", "start"}
  BY <1>3, <1>19, <1>28, <1>55
<1>30. ASSUME NEW i \in 2 .. z PROVE p[i].k \in Plains
  <2>1. i - 1 \in 1 .. n0 /\ 1 + (i - 1) = i /\ i \in 1 .. z
    BY <1>28
  <2>2. a1[1 + (i - 1)] = p0[i - 1] /\ p0[i - 1].k \in Plains
    BY <1>2, <1>19, <2>1
  <2> QED
    BY <1>55, <2>1, <2>2
<1>31. p[b - 1].k = "restart" /\ p[b].k = "block"
  <2>1. b - 1 \in 1 .. b /\ b \in 1 .. b
    BY <1>28
  <2> QED
    BY <1>4, <1>20, <1>54, <2>1
<1>32. ASSUME NEW i \in b + 1 .. u - 1 PROVE p[i].k \in Plains
  <2>1. i - b \in 1 .. nb /\ b + (i - b) = i /\ i \in 1 .. u - 1
    BY <1>28
  <2>2. a3[b + (i - b)] = body[i - b] /\ body[i - b].k \in Plains
    BY <1>2, <1>21, <2>1
  <2> QED
    BY <1>53, <2>1, <2>2
<1>33. p[u].k = "unblock"
  <2>1. u \in 1 .. u
    BY <1>28
  <2> QED
    BY <1>5, <1>22, <1>52, <2>1
<1>34. ASSUME NEW i \in u + 1 .. t PROVE p[i].k \in Plains /\ p[i] = tail[i - u]
  <2>1. i - u \in 1 .. nt /\ u + (i - u) = i /\ i \in 1 .. t
    BY <1>28
  <2>2. a5[u + (i - u)] = tail[i - u] /\ tail[i - u].k \in Plains
    BY <1>2, <1>23, <2>1
  <2> QED
    BY <1>51, <2>1, <2>2
<1>35. m = t \/ (m = t + 2 /\ p[t + 1].k = "stop" /\ p[t + 2].k = "start2")
  <2>1. CASE nm = 0
    BY <1>28, <2>1
  <2>2. CASE nm = 2
    <3>1. a6[t + 1].k = "stop" /\ a6[t + 2].k = "start2"
      BY <1>6, <1>24, <1>61, <2>2
    <3>2. t + 1 \in 1 .. m /\ t + 2 \in 1 .. m /\ m = t + 2
      BY <1>28, <2>2
    <3> QED
      BY <1>50, <3>1, <3>2
  <2> QED
    BY <1>61, <2>1, <2>2
<1>36. ASSUME NEW i \in m + 1 .. e - 1 PROVE p[i].k \in Plains
  <2>1. i - m \in 1 .. n0 /\ m + (i - m) = i /\ i \in 1 .. e - 1 /\ i \in 1 .. e
    BY <1>28
  <2>2. a7[m + (i - m)] = p0[i - m] /\ p0[i - m].k \in Plains
    BY <1>2, <1>25, <2>1
  <2> QED
    BY <1>26, <1>27, <2>1, <2>2
<1>37. p[e].k = "stop"
  <2>1. e \in 1 .. e
    BY <1>28
  <2> QED
    BY <1>7, <1>26, <1>27, <2>1
<1>38. ASSUME NEW i \in e + 1 .. Len(p) PROVE p[i].k \in {"ensure", "store"}
  <2>1. i - e \in 1 .. nr /\ e + (i - e) = i
    BY <1>27, <1>28
  <2>2. p[e + (i - e)] = rest[i - e] /\ rest[i - e].k \in {"ensure", "store"}
    BY <1>8, <1>27, <2>1
  <2> QED
    BY <2>1, <2>2
<1>39. ASSUME NEW i \in 1 .. Len(p)
       PROVE  \/ i = 1 /\ p[i].k \in {"check", "start"}
              \/ i # 1 /\ i # b /\ i # u /\ p[i].k \in Plains
              \/ i = b - 1 /\ i # 1 /\ p[i].k = "restart"
              \/ i = b /\ p[i].k = "block"
              \/ i = u /\ p[i].k = "unblock"
              \/ i > u /\ p[i].k = "stop"
              \/ i > u /\ p[i].k = "start2" /\ p[i - 1].k = "stop"
              \/ i > u /\ p[i].k \in {"ensure", "store"} /\ p[i - 1].k \in {"stop", "ensure", "store"}
  <2>0. i \in Nat /\ 1 <= i /\ i <= Len(p) /\ nr \in Nat /\ Len(p) \in Nat
    BY <1>8, <1>27, <1>28
  <2>1. CASE i <= z
    BY <1>28, <1>29, <1>30, <2>0, <2>1
  <2>2. CASE z < i /\ i <= b
    <3>1. i = b - 1 \/ i = b
      BY <1>28, <2>0, <2>2
    <3> QED
      BY <1>28, <1>31, <3>1, <2>0
  <2>3. CASE b < i /\ i <= u
    BY <1>28, <1>32, <1>33, <2>0, <2>3
  <2>4. CASE u < i /\ i <= t
    BY <1>28, <1>34, <2>0, <2>4
  <2>5. CASE t < i /\ i <= m
    <3>1. m = t + 2 /\ p[t + 1].k = "stop" /\ p[t + 2].k = "start2"
      BY <1>28, <1>35, <2>0, <2>5
    <3>2. i = t + 1 \/ (i = t + 2 /\ i - 1 = t + 1)
      BY <1>28, <2>0, <2>5, <3>1
    <3> QED
      BY <1>28, <3>1, <3>2
  <2>6. CASE m < i /\ i <= e
    BY <1>28, <1>36, <1>37, <2>0, <2>6
  <2>7. CASE e < i
    <3>1. p[i].k \in {"ensure", "store"} /\ i > u
      BY <1>28, <1>38, <2>0, <2>7
    <3>2. i - 1 = e \/ i - 1 \in e + 1 .. Len(p)
      BY <1>28, <2>0, <2>7
    <3> QED
      BY <1>37, <1>38, <3>1, <3>2
  <2> QED
    BY <1>28, <2>0, <2>1, <2>2, <2>3, <2>4, <2>5, <2>6, <2>7
<1>40. p[u + 1].k = "write" /\ p[u + 1].reg # Hostile
  <2>1. u + 1 \in u + 1 .. t /\ u + 1 - u = 1
    BY <1>2, <1>28
  <2> QED
    BY <1>2, <1>34, <2>1
<1>41. p[Len(p)].k \in {"stop", "ensure", "store"}
  <2>1. CASE Len(p) = e
    BY <1>37, <2>1
  <2>2. CASE Len(p) # e
    <3>1. Len(p) \in e + 1 .. Len(p)
      BY <1>27, <1>28, <2>2
    <3> QED
      BY <1>38, <3>1
  <2> QED
    BY <2>1, <2>2
<1>42. b \in 2 .. Len(p) /\ u \in b + 1 .. Len(p) - 1 /\ Len(p) \in Nat /\ b # 1 /\ u # 1 /\ b # u
  BY <1>8, <1>27, <1>28
<1>43. ASSUME NEW i \in 1 .. Len(p)
       PROVE  /\ p[i].k \in {"check", "start"} <=> i = 1
              /\ p[i].k = "block" <=> i = b
              /\ p[i].k = "unblock" <=> i = u
              /\ p[i].k = "restart" => i = b - 1
              /\ p[i].k \in {"start2", "stop", "ensure", "store"} => i > u
              /\ p[i].k = "start2" => i > 1 /\ p[i - 1].k = "stop"
              /\ p[i].k \in {"ensure", "store"} => i > 1 /\ p[i - 1].k \in {"stop", "ensure", "store"}
  <2>1. i \in Nat /\ i >= 1 /\ u > 1 /\ b > 1 /\ u > b
    BY <1>28, <1>42
  <2>2. PICK k : k = p[i].k
    OBVIOUS
  <2>3. \/ i = 1 /\ k \in {"check", "start"}
        \/ i # 1 /\ i # b /\ i # u /\ k \in Plains
        \/ i = b - 1 /\ i # 1 /\ k = "restart"
        \/ i = b /\ k = "block"
        \/ i = u /\ k = "unblock"
        \/ i > u /\ k = "stop"
        \/ i > u /\ k = "start2" /\ p[i - 1].k = "stop"
        \/ i > u /\ k \in {"ensure", "store"} /\ p[i - 1].k \in {"stop", "ensure", "store"}
    BY <1>39, <2>2
  <2> QED
    BY <2>1, <2>2, <2>3 DEF Plains
<1> QED
  <2>1. Shape(p, b, u)
    BY <1>27, <1>31, <1>40, <1>41, <1>42, <1>43 DEF Shape
  <2> QED
    BY <2>1

-----------------------------------------------------------------------------
(* The inductive invariant.                                                *)

(* The events of a command: how many, and which.                           *)
Size(c) == IF c.k = "wr" THEN Len(c.pairs)
           ELSE IF c.k \in {"delay", "wait", "enter", "leave"} THEN 1 ELSE 0
Nth(c, i) == IF c.k = "wr" THEN O("wr", c.pairs[i][1], c.pairs[i][2]) ELSE Plain(c.k)

(* They are the events a + 1 to b of the log L.                            *)
Holds(L, c, a, b) == /\ a \in Nat /\ b = a + Size(c) /\ b <= Len(L)
                     /\ \A i \in 1 .. Size(c) : L[a + i] = Nth(c, i)

(* The first n commands of cs are events of L: those of command j follow   *)
(* the first pos[j] of L.                                                  *)
Places(n) == [1 .. n + 1 -> Nat]
Tape(L, cs, n, pos) ==
    /\ \A j \in 1 .. n : Holds(L, cs[j], pos[j], pos[j + 1])
    /\ \A j \in 1 .. n + 1 : pos[j] <= pos[n + 1]
    /\ pos[n + 1] <= Len(L)

(* They are the events a + 1 to b.                                         *)
Covers(L, cs, n, a, b) ==
    \E pos \in Places(n) : Tape(L, cs, n, pos) /\ pos[1] = a /\ pos[n + 1] = b

(* So are the commands of cs and then the pairs of ps.                     *)
Queue(L, cs, ps, a, b) ==
    \E m \in 0 .. b : Covers(L, cs, Len(cs), a, m) /\ Holds(L, Cmd("wr", ps), m, b)

(* The straight run of the program, and its length up to an operation.     *)
Run == Straight(prog, dev.base, set.block)
Upto(n) == Len(Run[n].log)

Pairs == Regs \X Values
Cmds == [k : {"wr", "delay", "wait", "enter", "leave", "enterq", "leaveq", "probe"},
         pairs : Seq(Pairs)]
Calls == [id : Nat, msg : {"EXEC", "INFO"}, len : Nat]
Quiet == {"smoke", "preflight", "ensure", "info2", "ensure2"}
OfOp == {"pause", "block", "store"}

(* Types, and the settings and programs there are.                         *)
BusType == [on : BOOLEAN, can : BOOLEAN, req : BOOLEAN, pending : Seq(Pairs),
            commands : Seq(Cmds), shadow : [Regs -> Values \cup {Nothing}]]
DevType == [regs : [Regs -> Values], paused : BOOLEAN, log : Seq(Happening),
            base : [Regs -> Values]]
Typed ==
    /\ pc \in {"run", "reload", "done", "raised"}
    /\ set.block = "enter" => ~set.atomic /\ ~set.wait
    /\ (\E last : prog \in Programs(set, last)) /\ at \in 1 .. Len(prog) + 1
    /\ bus \in BusType /\ dev \in DevType
    /\ exec.stage \in {"idle", "seg", "push", "reply"} /\ exec.script \in Seq(Cmds)
    /\ exec.to \in Nat
    /\ mail.seg \in Seq(Cmds) /\ mail.calls \in Seq(Calls) /\ mail.sent \in Nat
    /\ pmu.len \in Nat /\ pmu.cmd \in Nat /\ pmu.pair \in Nat

(* The controller is at a point of the straight run.                       *)
Conforms == \E n \in 0 .. Len(prog) : dev.log = Run[n].log /\ dev.regs = Run[n].regs

(* The script the firmware has, or will take from the ring.                *)
Working == mail.calls # <<>> \/ pmu.on
Job == IF pmu.on THEN pmu ELSE [len |-> Head(mail.calls).len, cmd |-> 1, pair |-> 1]
OneCall == mail.calls = <<>> \/ (~pmu.on /\ Len(mail.calls) = 1)

(* Where the program will be when the command in flight is answered.       *)
End == Upto(IF exec.kind \in OfOp THEN at ELSE at - 1)

(* What the firmware still has to execute are the next events of the       *)
(* straight run, up to where the host believes to be.                      *)
Executes(len, cmd, pair, pos) ==
    /\ len <= Len(mail.seg) /\ Tape(Asked, mail.seg, len, pos)
    /\ cmd \in 1 .. len + 1 /\ pair >= 1
    /\ Len(dev.log) = pos[cmd] + pair - 1
    /\ pair # 1 => /\ cmd <= len /\ mail.seg[cmd].k = "wr"
                   /\ pair <= Len(mail.seg[cmd].pairs)
    /\ pc = "run" => pos[len + 1] = End
Machine ==
    ~pmu.wedged => /\ OneCall
                   /\ Working => \E pos \in Places(Job.len) :
                                    Executes(Job.len, Job.cmd, Job.pair, pos)

(* pmu_memx_exec fills the segment from its first word on.                 *)
Same(n) == n <= Len(mail.seg) /\ \A i \in 1 .. n : mail.seg[i] = exec.script[i]
Filling ==
    /\ exec.stage = "seg" => exec.to \in 1 .. Len(exec.script) /\ Same(exec.to - 1)
    /\ exec.stage = "push" => Same(Len(exec.script))

(* Where the bus is off, and what is then not queued.                      *)
BuffersAt(b, n) ==
    /\ ~b.on => b.pending = <<>> /\ b.commands = <<>>
    /\ ~set.atomic => b.commands = <<>>
    /\ n = 1 \/ prog[n - 1].k \in {"stop", "ensure", "store"} => ~b.on
Buffers == BuffersAt(bus, at)

(* Where the host pauses the framebuffer, at f, and until it lets it go, at *)
(* u, the bus is on, or nothing is left that could be paused.              *)
PausesAt(b, n, f, u) == /\ n = f /\ ~b.on => pmu.wedged
                        /\ n <= f /\ ~b.can => pmu.wedged
                        /\ n \in f + 1 .. u => b.on
PausingAt(b, n) == set.block = "enter" => \E f, u : Shape(prog, f, u) /\ PausesAt(b, n, f, u)
Pausing == PausingAt(bus, at)

(* Between two commands: queued are the events up to the next operation,   *)
(* and a shadow is what the straight run would read.                       *)
ShadowedAt(b, d, n) ==
    \A r \in Regs : IF b.shadow[r] = Nothing THEN d.regs[r] = Run[n - 1].regs[r]
                    ELSE b.shadow[r] = Run[n - 1].regs[r]
IdleAt(b, d, n) == /\ Queue(Asked, b.commands, b.pending, Len(d.log), Upto(n - 1))
                   /\ set.atomic /\ b.on => ShadowedAt(b, d, n)
Idle == exec.stage = "idle" => IdleAt(bus, dev, at)

(* Which operation a command belongs to.                                   *)
Fits ==
    \/ exec.kind \in {"smoke", "preflight"} /\ ~bus.on
         /\ Op.k \in {"check", "start", "restart", "start2"}
    \/ exec.kind = "flush" /\ bus.on /\ ~set.atomic
    \/ exec.kind = "pause" /\ Op.k \in {"delay", "wait"} /\ bus.on /\ ~set.atomic
    \/ exec.kind = "block" /\ Op.k \in {"block", "unblock"} /\ set.block = "enter"
    \/ exec.kind = "run" /\ Op.k = "stop" /\ bus.on /\ set.atomic
    \/ exec.kind \in {"ensure", "info2", "ensure2"} /\ Op.k = "ensure"
    \/ exec.kind = "store" /\ Op.k = "store"

(* In a command: its script are the events up to its end.                  *)
Busy ==
    exec.stage # "idle" =>
      /\ at <= Len(prog) /\ Fits
      /\ bus.pending = <<>>
      /\ bus.commands = IF exec.kind = "run" THEN exec.script ELSE <<>>
      /\ exec.stage # "reply" =>
           Covers(Asked, exec.script, Len(exec.script), Len(dev.log), End)
      /\ exec.kind \in Quiet => Len(dev.log) = Upto(at - 1)
      /\ exec.stage = "reply" /\ mail.replies # <<>> => Len(dev.log) = End

(* The framebuffer could not be let go: the firmware is dead, and the store *)
(* that follows will find out.                                             *)
LostAt(b, x, n, f, u) ==
    /\ Shape(prog, f, u) /\ set.block = "enter" /\ pmu.wedged /\ b.on
    /\ n \in u + 1 .. Len(prog) /\ \A j \in u + 1 .. n - 1 : prog[j].k \in Accesses
    /\ \/ n = u + 1 /\ x.stage = "idle" /\ b.pending = <<>>
       \/ n > u + 1 /\ x.stage = "idle" /\ b.pending # <<>>
       \/ x.stage # "idle" /\ x.kind = "flush"
Lost == \E f, u : LostAt(bus, exec, at, f, u)

Hosts ==
    /\ pc = "run" => Buffers /\ Pausing /\ (Lost \/ (Idle /\ Busy))
    /\ pc = "reload" /\ exec.stage # "idle" => exec.kind = "info" /\ exec.script = <<>>
    /\ pc \in {"done", "raised"} => exec.stage = "idle"
    /\ pc = "done" => dev.log = Asked

OrderInv == Typed /\ Conforms /\ Machine /\ Filling /\ Hosts

-----------------------------------------------------------------------------
(* Commands as pieces of the log.                                          *)

(* The commands of a script are commands.                                  *)
LEMMA CmdIs ==
    /\ \A ps \in Seq(Pairs) : Cmd("wr", ps) \in Cmds
    /\ \A k \in {"delay", "wait", "enter", "leave", "enterq", "leaveq", "probe"} :
         Cmd(k, <<>>) \in Cmds
<1>1. <<>> \in Seq(Pairs)
  OBVIOUS
<1> QED
  BY <1>1 DEF Cmd, Cmds

(* How many events a command has.                                          *)
LEMMA SizeIs ==
    ASSUME NEW c \in Cmds
    PROVE  /\ Size(c) \in Nat
           /\ c.k = "wr" => Size(c) = Len(c.pairs)
           /\ c.k \in {"delay", "wait", "enter", "leave"} => Size(c) = 1
           /\ c.k \in {"enterq", "leaveq", "probe"} => Size(c) = 0
BY DEF Size, Cmds

(* A command of no event.                                                  *)
LEMMA HoldsNone ==
    ASSUME NEW L, Len(L) \in Nat, NEW a \in Nat, a <= Len(L), NEW c, Size(c) = 0
    PROVE  Holds(L, c, a, a)
BY DEF Holds

(* A command of one event.                                                 *)
LEMMA HoldsOne ==
    ASSUME NEW L, Len(L) \in Nat, NEW a \in Nat, a + 1 <= Len(L),
           NEW c, Size(c) = 1, Nth(c, 1) = L[a + 1]
    PROVE  Holds(L, c, a, a + 1)
<1>1. \A i \in 1 .. 1 : i = 1
  OBVIOUS
<1> QED
  BY <1>1 DEF Holds

(* Writes that are buffered: none, and one more.                           *)
LEMMA WritesNone ==
    ASSUME NEW L, Len(L) \in Nat
    PROVE  /\ Cmd("wr", <<>>).pairs = <<>> /\ Size(Cmd("wr", <<>>)) = 0
           /\ \A a, b : Holds(L, Cmd("wr", <<>>), a, b) => b = a
           /\ \A a \in Nat : a <= Len(L) => Holds(L, Cmd("wr", <<>>), a, a)
<1>1. Cmd("wr", <<>>).pairs = <<>> /\ Cmd("wr", <<>>).k = "wr"
  BY DEF Cmd
<1>2. Size(Cmd("wr", <<>>)) = 0
  BY <1>1 DEF Size
<1> QED
  BY <1>1, <1>2 DEF Holds

(* A store alone is one event.                                             *)
LEMMA WritesOne ==
    ASSUME NEW r, NEW v
    PROVE  LET c == Cmd("wr", <<<<r, v>>>>)
           IN  Size(c) = 1 /\ Nth(c, 1) = O("wr", r, v)
BY DEF Cmd, Size, Nth

(* A store that joins the pending ones is the next event.                  *)
LEMMA WritesMore ==
    ASSUME NEW L, Len(L) \in Nat, NEW a, NEW b \in Nat, NEW ps \in Seq(Pairs),
           Holds(L, Cmd("wr", ps), a, b), b + 1 <= Len(L),
           NEW r \in Regs, NEW v \in Values, L[b + 1] = O("wr", r, v)
    PROVE  Holds(L, Cmd("wr", Append(ps, <<r, v>>)), a, b + 1)
<1> DEFINE qs == Append(ps, <<r, v>>)
<1>1. <<r, v>> \in Pairs
  BY DEF Pairs
<1>2. PICK n \in Nat : n = Len(ps)
  OBVIOUS
<1>3. /\ Len(qs) = n + 1 /\ qs[n + 1] = <<r, v>> /\ \A i \in 1 .. n : qs[i] = ps[i]
  BY <1>1, <1>2, Appended
<1>4. \A q : Cmd("wr", q).k = "wr" /\ Cmd("wr", q).pairs = q
  BY DEF Cmd
<1>5. /\ Size(Cmd("wr", ps)) = n /\ Size(Cmd("wr", qs)) = n + 1
      /\ \A i : Nth(Cmd("wr", ps), i) = O("wr", ps[i][1], ps[i][2])
      /\ \A i : Nth(Cmd("wr", qs), i) = O("wr", qs[i][1], qs[i][2])
  BY <1>2, <1>3, <1>4 DEF Size, Nth
<1>6. a \in Nat /\ b = a + n /\ \A i \in 1 .. n : L[a + i] = O("wr", ps[i][1], ps[i][2])
  BY <1>5 DEF Holds
<1> HIDE DEF qs
<1>7. ASSUME NEW i \in 1 .. n + 1 PROVE L[a + i] = O("wr", qs[i][1], qs[i][2])
  <2>1. CASE i = n + 1
    <3>1. a + i = b + 1 /\ qs[i] = <<r, v>>
      BY <1>3, <1>6, <2>1
    <3> QED
      BY <3>1
  <2>2. CASE i # n + 1
    <3>1. i \in 1 .. n
      BY <2>2
    <3> QED
      BY <1>3, <1>6, <3>1
  <2> QED
    BY <2>1, <2>2
<1>8. Holds(L, Cmd("wr", qs), a, b + 1)
  BY <1>5, <1>6, <1>7 DEF Holds
<1> QED
  BY <1>8 DEF qs

(* No commands, one, and one more.                                         *)
LEMMA CoversNone ==
    ASSUME NEW L, Len(L) \in Nat, NEW a \in Nat, a <= Len(L), NEW cs
    PROVE  Covers(L, cs, 0, a, a)
<1>1. PICK pos : pos = [i \in 1 .. 0 + 1 |-> a]
  OBVIOUS
<1>2. pos \in Places(0) /\ pos[1] = a /\ pos[0 + 1] = a
  BY <1>1 DEF Places
<1>3. Tape(L, cs, 0, pos)
  BY <1>1, <1>2 DEF Tape
<1> QED
  BY <1>2, <1>3 DEF Covers

(* An empty script has no event.                                           *)
LEMMA CoversEmpty ==
    ASSUME NEW L, NEW a, NEW b, NEW cs, Covers(L, cs, 0, a, b)
    PROVE  b = a
<1>1. 0 + 1 = 1
  OBVIOUS
<1> QED
  BY <1>1 DEF Covers

(* The events of a script lie in the log.                                  *)
LEMMA CoversBound ==
    ASSUME NEW L, NEW a, NEW b, NEW cs, NEW n \in Nat, Covers(L, cs, n, a, b)
    PROVE  a \in Nat /\ b \in Nat /\ a <= b /\ b <= Len(L)
<1>1. PICK pos \in Places(n) : Tape(L, cs, n, pos) /\ pos[1] = a /\ pos[n + 1] = b
  BY DEF Covers
<1>2. 1 \in 1 .. n + 1 /\ n + 1 \in 1 .. n + 1
  OBVIOUS
<1> QED
  BY <1>1, <1>2 DEF Tape, Places

(* A command behind a script has the next events.                          *)
LEMMA CoversMore ==
    ASSUME NEW L, NEW cs \in Seq(Cmds), NEW c \in Cmds, NEW a, NEW m, NEW b,
           Covers(L, cs, Len(cs), a, m), Holds(L, c, m, b)
    PROVE  Covers(L, Append(cs, c), Len(Append(cs, c)), a, b)
<1>1. PICK n \in Nat : n = Len(cs)
  OBVIOUS
<1>2. PICK ds : ds = Append(cs, c)
  OBVIOUS
<1>3. Len(ds) = n + 1 /\ ds[n + 1] = c /\ \A i \in 1 .. n : ds[i] = cs[i]
  BY <1>1, <1>2, Appended
<1>4. PICK pos \in Places(n) : Tape(L, cs, n, pos) /\ pos[1] = a /\ pos[n + 1] = m
  BY <1>1 DEF Covers
<1>5. m \in Nat /\ b = m + Size(c) /\ b <= Len(L) /\ Size(c) \in Nat /\ b \in Nat /\ m <= b
  BY SizeIs DEF Holds
<1>6. PICK qos : qos = [i \in 1 .. n + 1 + 1 |-> IF i <= n + 1 THEN pos[i] ELSE b]
  OBVIOUS
<1>7. /\ \A i \in 1 .. n + 1 : qos[i] = pos[i] /\ pos[i] \in Nat /\ pos[i] <= m
      /\ qos[n + 1 + 1] = b
  BY <1>4, <1>6 DEF Places, Tape
<1>8. qos \in Places(n + 1)
  BY <1>4, <1>5, <1>6 DEF Places
<1>9. Tape(L, ds, n + 1, qos)
  <2>1. ASSUME NEW j \in 1 .. n + 1 PROVE Holds(L, ds[j], qos[j], qos[j + 1])
    <3>1. CASE j = n + 1
      <4>1. ds[j] = c /\ qos[j] = m /\ qos[j + 1] = b
        BY <1>3, <1>4, <1>7, <3>1
      <4> QED
        BY <4>1
    <3>2. CASE j # n + 1
      <4>1. j \in 1 .. n /\ j \in 1 .. n + 1 /\ j + 1 \in 1 .. n + 1
        BY <3>2
      <4>2. Holds(L, cs[j], pos[j], pos[j + 1])
        BY <1>4, <4>1 DEF Tape
      <4> QED
        BY <1>3, <1>7, <4>1, <4>2
    <3> QED
      BY <3>1, <3>2
  <2>2. ASSUME NEW j \in 1 .. n + 1 + 1 PROVE qos[j] <= qos[n + 1 + 1]
    <3>1. j \in 1 .. n + 1 \/ j = n + 1 + 1
      OBVIOUS
    <3> QED
      BY <1>5, <1>7, <3>1
  <2> QED
    BY <1>5, <1>7, <2>1, <2>2 DEF Tape
<1>10. qos[1] = a
  BY <1>4, <1>7
<1> QED
  BY <1>2, <1>3, <1>7, <1>8, <1>9, <1>10 DEF Covers

(* A script of one command.                                                *)
LEMMA CoversOne ==
    ASSUME NEW L, Len(L) \in Nat, NEW c \in Cmds, NEW a \in Nat, NEW b, Holds(L, c, a, b)
    PROVE  Covers(L, <<c>>, Len(<<c>>), a, b)
<1>1. a <= Len(L)
  BY SizeIs DEF Holds
<1>2. <<>> \in Seq(Cmds) /\ Len(<<>>) = 0 /\ Append(<<>>, c) = <<c>>
  OBVIOUS
<1>3. Covers(L, <<>>, Len(<<>>), a, a)
  BY <1>1, <1>2, CoversNone
<1> QED
  BY <1>2, <1>3, CoversMore

(* The same commands in another place are the same events.                 *)
LEMMA TapeSame ==
    ASSUME NEW L, NEW cs, NEW ds, NEW n, NEW pos, Tape(L, cs, n, pos),
           \A i \in 1 .. n : ds[i] = cs[i]
    PROVE  Tape(L, ds, n, pos)
BY DEF Tape

(* What is queued: nothing, a write more, and a command more.              *)
LEMMA QueueNone ==
    ASSUME NEW L, Len(L) \in Nat, NEW a \in Nat, a <= Len(L)
    PROVE  Queue(L, <<>>, <<>>, a, a)
<1>1. Covers(L, <<>>, Len(<<>>), a, a)
  BY CoversNone
<1>2. Holds(L, Cmd("wr", <<>>), a, a) /\ a \in 0 .. a
  BY WritesNone
<1> QED
  BY <1>1, <1>2 DEF Queue

(* With nothing queued the host is where the controller is.                *)
LEMMA QueueEmpty ==
    ASSUME NEW L, Len(L) \in Nat, NEW a, NEW b, Queue(L, <<>>, <<>>, a, b)
    PROVE  b = a
<1>1. PICK m \in 0 .. b : Covers(L, <<>>, Len(<<>>), a, m) /\ Holds(L, Cmd("wr", <<>>), m, b)
  BY DEF Queue
<1>2. m = a
  BY <1>1, CoversEmpty
<1> QED
  BY <1>1, <1>2, WritesNone

(* A store is queued: the next event.                                      *)
LEMMA QueueWrite ==
    ASSUME NEW L, Len(L) \in Nat, NEW cs \in Seq(Cmds), NEW ps \in Seq(Pairs),
           NEW a, NEW b \in Nat, Queue(L, cs, ps, a, b), b + 1 <= Len(L),
           NEW r \in Regs, NEW v \in Values, L[b + 1] = O("wr", r, v)
    PROVE  Queue(L, cs, Append(ps, <<r, v>>), a, b + 1)
<1>1. PICK m \in 0 .. b : Covers(L, cs, Len(cs), a, m) /\ Holds(L, Cmd("wr", ps), m, b)
  BY DEF Queue
<1>2. Holds(L, Cmd("wr", Append(ps, <<r, v>>)), m, b + 1) /\ m \in 0 .. b + 1
  BY <1>1, WritesMore
<1> QED
  BY <1>1, <1>2 DEF Queue

(* With nothing pending the commands are all that is queued.               *)
LEMMA QueueCovers ==
    ASSUME NEW L, Len(L) \in Nat, NEW cs, NEW a, NEW b, Queue(L, cs, <<>>, a, b)
    PROVE  Covers(L, cs, Len(cs), a, b)
<1>1. PICK m \in 0 .. b : Covers(L, cs, Len(cs), a, m) /\ Holds(L, Cmd("wr", <<>>), m, b)
  BY DEF Queue
<1>2. m = b
  BY <1>1, WritesNone
<1> QED
  BY <1>1, <1>2

(* A command is queued behind the commands.                                *)
LEMMA QueueCommand ==
    ASSUME NEW L, Len(L) \in Nat, NEW cs \in Seq(Cmds), NEW c \in Cmds, NEW a, NEW m, NEW b,
           Covers(L, cs, Len(cs), a, m), Holds(L, c, m, b)
    PROVE  Queue(L, Append(cs, c), <<>>, a, b)
<1>1. Covers(L, Append(cs, c), Len(Append(cs, c)), a, b)
  BY CoversMore
<1>2. b \in Nat /\ b <= Len(L)
  BY SizeIs DEF Holds
<1>3. Holds(L, Cmd("wr", <<>>), b, b) /\ b \in 0 .. b
  BY <1>2, WritesNone
<1> QED
  BY <1>1, <1>3 DEF Queue

(* The pending stores become a command of their own.                       *)
LEMMA QueueFlush ==
    ASSUME NEW L, Len(L) \in Nat, NEW cs \in Seq(Cmds), NEW ps \in Seq(Pairs),
           NEW a, NEW b, Queue(L, cs, ps, a, b)
    PROVE  /\ Queue(L, Append(cs, Cmd("wr", ps)), <<>>, a, b)
           /\ cs = <<>> => Covers(L, <<Cmd("wr", ps)>>, Len(<<Cmd("wr", ps)>>), a, b)
<1>1. PICK m \in 0 .. b : Covers(L, cs, Len(cs), a, m) /\ Holds(L, Cmd("wr", ps), m, b)
  BY DEF Queue
<1>2. Cmd("wr", ps) \in Cmds
  BY CmdIs
<1>3. Queue(L, Append(cs, Cmd("wr", ps)), <<>>, a, b)
  BY <1>1, <1>2, QueueCommand
<1>4. ASSUME cs = <<>>
      PROVE  Covers(L, <<Cmd("wr", ps)>>, Len(<<Cmd("wr", ps)>>), a, b)
  <2>1. m = a
    BY <1>1, <1>4, CoversEmpty
  <2>2. a \in Nat
    BY <2>1
  <2> QED
    BY <1>1, <1>2, <2>1, <2>2, CoversOne
<1> QED
  BY <1>3, <1>4

-----------------------------------------------------------------------------
(* The straight run of the program that is under way.                      *)

(* The program of this pass.                                               *)
LEMMA ProgIs ==
    ASSUME Typed
    PROVE  /\ prog \in Seq(AnyOp) /\ Len(prog) \in Nat /\ \E b, u : Shape(prog, b, u)
           /\ \A i \in 1 .. Len(prog) : prog[i] \in AnyOp
<1>1. \E b, u : Shape(prog, b, u)
  BY ProgramShape DEF Typed
<1>2. prog \in Seq(AnyOp)
  BY <1>1 DEF Shape
<1> QED
  BY <1>1, <1>2, ElementOfSeq

(* Its straight run.                                                       *)
LEMMA RunIs ==
    ASSUME Typed
    PROVE  /\ Course(Run, Len(prog)) /\ Asked = Run[Len(prog)].log
           /\ Run[0] = [regs |-> dev.base, log |-> <<>>]
           /\ \A n \in 1 .. Len(prog) : Run[n] = Apply(Run[n - 1], prog[n], set.block)
           /\ \A n \in 0 .. Len(prog) : /\ Run[n] \in Point
                                        /\ Upto(n) \in Nat /\ Upto(n) <= Len(Asked)
           /\ Len(Asked) \in Nat
<1>1. prog \in Seq(AnyOp) /\ dev.base \in [Regs -> Values] /\ Len(prog) \in Nat
  BY ProgIs DEF Typed, DevType
<1>2. Course(Run, Len(prog)) /\ Asked = Run[Len(prog)].log
  BY <1>1, StraightCourse DEF Run, Asked
<1>3. /\ Run[0] = [regs |-> dev.base, log |-> <<>>]
      /\ \A n \in 1 .. Len(prog) : Run[n] = Apply(Run[n - 1], prog[n], set.block)
      /\ \A n \in 0 .. Len(prog) : Run[n] \in Point
  BY <1>1, StraightIs DEF Run
<1>4. ASSUME NEW n \in 0 .. Len(prog)
      PROVE  Upto(n) \in Nat /\ Upto(n) <= Len(Asked) /\ Len(Asked) \in Nat
  <2>1. Len(prog) \in n .. Len(prog)
    BY <1>1
  <2> QED
    BY <1>2, <2>1, CourseGrows DEF Upto
<1>5. 0 \in 0 .. Len(prog)
  BY <1>1
<1> QED
  BY <1>2, <1>3, <1>4, <1>5

(* A controller that has seen as many events as a point of the run is there.*)
LEMMA AtPoint ==
    ASSUME Typed, Conforms, NEW n \in 0 .. Len(prog), Len(dev.log) = Upto(n)
    PROVE  dev.log = Run[n].log /\ dev.regs = Run[n].regs
<1>1. PICK k \in 0 .. Len(prog) : dev.log = Run[k].log /\ dev.regs = Run[k].regs
  BY DEF Conforms
<1>2. Course(Run, Len(prog)) /\ Len(prog) \in Nat
  BY RunIs, ProgIs
<1>3. Len(Run[k].log) = Len(Run[n].log)
  BY <1>1 DEF Upto
<1>4. CASE k <= n
  <2>1. n \in k .. Len(prog)
    BY <1>2, <1>4
  <2> QED
    BY <1>1, <1>2, <1>3, <2>1, CourseGrows
<1>5. CASE n <= k
  <2>1. k \in n .. Len(prog)
    BY <1>2, <1>5
  <2> QED
    BY <1>1, <1>2, <1>3, <2>1, CourseGrows
<1> QED
  BY <1>2, <1>4, <1>5

(* What the controller has seen is a first part of what was asked.         *)
LEMMA Seen ==
    ASSUME Typed, Conforms
    PROVE  /\ dev.log \in Seq(Happening) /\ Len(dev.log) \in Nat /\ Len(dev.log) <= Len(Asked)
           /\ \A i \in 1 .. Len(dev.log) : Asked[i] = dev.log[i]
           /\ Len(dev.log) = Len(Asked) => dev.log = Asked
<1>1. PICK k \in 0 .. Len(prog) : dev.log = Run[k].log /\ dev.regs = Run[k].regs
  BY DEF Conforms
<1>2. /\ Course(Run, Len(prog)) /\ Len(prog) \in Nat /\ Asked = Run[Len(prog)].log
      /\ Run[k] \in Point
  BY RunIs, ProgIs
<1>3. Len(prog) \in k .. Len(prog)
  BY <1>2
<1>4. dev.log \in Seq(Happening)
  BY DEF Typed, DevType
<1> QED
  BY <1>1, <1>2, <1>3, <1>4, CourseGrows

(* The operation at hand: it asks for nothing, or for one event.           *)
Silent == Run[at] = Run[at - 1] /\ Upto(at) = Upto(at - 1)
Adds(e) == /\ e \in Happening
           /\ Run[at].log = Append(Run[at - 1].log, e)
           /\ Run[at].regs = Upd(Run[at - 1].regs, e)
           /\ Upto(at) = Upto(at - 1) + 1 /\ Upto(at) <= Len(Asked)
           /\ Asked[Upto(at - 1) + 1] = e

(* An operation that adds an event to the straight run.                    *)
LEMMA AddsIs ==
    ASSUME Typed, at <= Len(prog), NEW e \in Happening,
           Run[at].log = Append(Run[at - 1].log, e),
           Run[at].regs = Upd(Run[at - 1].regs, e)
    PROVE  Adds(e)
<1>1. at - 1 \in 0 .. Len(prog) /\ at \in 0 .. Len(prog) /\ Len(prog) \in at .. Len(prog)
  BY ProgIs DEF Typed
<1>2. Run[at - 1] \in Point /\ Upto(at) <= Len(Asked) /\ Asked = Run[Len(prog)].log
      /\ Course(Run, Len(prog))
  BY <1>1, RunIs
<1>3. PICK s \in Seq(Happening) : s = Run[at - 1].log
  BY <1>2 DEF Point
<1>4. Len(Run[at].log) = Len(s) + 1 /\ Run[at].log[Len(s) + 1] = e /\ Len(s) \in Nat
  BY <1>3, Appended
<1>5. Asked[Len(s) + 1] = Run[at].log[Len(s) + 1]
  <2>1. PICK R, N : R = Run /\ N = Len(prog)
    OBVIOUS
  <2>2. Len(s) + 1 \in 1 .. Len(R[at].log)
    BY <1>4, <2>1
  <2>3. Course(R, N) /\ at \in 0 .. N /\ N \in at .. N
    BY <1>1, <1>2, <2>1
  <2>4. R[N].log[Len(s) + 1] = R[at].log[Len(s) + 1]
    BY <2>2, <2>3, CourseGrows, SMTT(30)
  <2> QED
    BY <1>2, <2>1, <2>4
<1> QED
  BY <1>2, <1>3, <1>4, <1>5 DEF Adds, Upto

(* What each operation adds to it.                                         *)
LEMMA OpIs ==
    ASSUME Typed, at <= Len(prog)
    PROVE  /\ Op \in AnyOp /\ at \in 1 .. Len(prog)
           /\ Op.k \in {"check", "start", "restart", "start2", "stop", "ensure"} => Silent
           /\ Op.k \in {"delay", "wait"} => Adds(Plain(Op.k))
           /\ Op.k \in {"block", "unblock"} /\ set.block = "0" => Silent
           /\ Op.k = "block" /\ set.block # "0" => Adds(Plain("enter"))
           /\ Op.k = "unblock" /\ set.block # "0" => Adds(Plain("leave"))
           /\ Op.k = "store" => Adds(O("wr", Op.reg, Op.val))
           /\ Op.k = "mask" /\ Run[at - 1].regs[Op.reg] = Op.val => Silent
           /\ Op.k \in Accesses /\ Op.reg = Hostile => Silent
           /\ /\ Op.k \in Accesses /\ Op.reg # Hostile
              /\ ~(Op.k = "mask" /\ Run[at - 1].regs[Op.reg] = Op.val)
              => Adds(O("wr", Op.reg, Op.val))
<1>1. at \in 1 .. Len(prog) /\ at - 1 \in 0 .. Len(prog)
  BY ProgIs DEF Typed
<1>2. PICK d \in Point : d = Run[at - 1]
  BY <1>1, RunIs
<1>3. PICK o \in AnyOp : o = Op
  BY <1>1, ProgIs DEF Op
<1>4. Run[at] = Apply(d, o, set.block)
  BY <1>1, <1>2, <1>3, RunIs DEF Op
<1>5. ASSUME Apply(d, o, set.block) = d PROVE Silent
  BY <1>2, <1>4, <1>5 DEF Silent, Upto
<1>6. ASSUME NEW k \in {"delay", "wait", "enter", "leave"},
             Apply(d, o, set.block) = Logged(d, k)
      PROVE  Adds(Plain(k))
  <2>1. PICK e \in Happening : e = Plain(k)
    BY PlainIs
  <2>2. Run[at].log = Append(d.log, e) /\ Run[at].regs = Upd(d.regs, e)
    BY <1>4, <1>6, <2>1, EventIs
  <2> QED
    BY <1>2, <2>1, <2>2, AddsIs
<1>7. ASSUME Apply(d, o, set.block) = Stored(d, o.reg, o.val)
      PROVE  Adds(O("wr", o.reg, o.val))
  <2>1. o.reg \in Regs /\ o.val \in Values
    BY DEF AnyOp
  <2>2. PICK e \in Happening : e = O("wr", o.reg, o.val)
    BY <2>1, EventIs
  <2>3. Run[at].log = Append(d.log, e) /\ Run[at].regs = Upd(d.regs, e)
    BY <1>4, <1>7, <2>1, <2>2, EventIs, SMTT(30)
  <2> QED
    BY <1>2, <2>2, <2>3, AddsIs
<1>8. o.k \in {"check", "start", "restart", "start2", "stop", "ensure"} => Silent
  BY <1>5 DEF Apply, Accesses
<1>9. o.k \in {"delay", "wait"} => Adds(Plain(o.k))
  <2>1. ASSUME o.k \in {"delay", "wait"} PROVE Apply(d, o, set.block) = Logged(d, o.k)
    BY <2>1 DEF Apply, Accesses
  <2> QED
    BY <1>6, <2>1
<1>10. /\ o.k \in {"block", "unblock"} /\ set.block = "0" => Silent
       /\ o.k = "block" /\ set.block # "0" => Adds(Plain("enter"))
       /\ o.k = "unblock" /\ set.block # "0" => Adds(Plain("leave"))
  <2>1. /\ o.k \in {"block", "unblock"} /\ set.block = "0" => Apply(d, o, set.block) = d
        /\ o.k = "block" /\ set.block # "0" => Apply(d, o, set.block) = Logged(d, "enter")
        /\ o.k = "unblock" /\ set.block # "0" => Apply(d, o, set.block) = Logged(d, "leave")
    BY DEF Apply, Accesses
  <2> QED
    BY <1>5, <1>6, <2>1
<1>11. o.k = "store" => Adds(O("wr", o.reg, o.val))
  BY <1>7 DEF Apply, Accesses
<1>12. ASSUME o.k \in Accesses
       PROVE  /\ o.k = "mask" /\ d.regs[o.reg] = o.val => Silent
              /\ o.reg = Hostile => Silent
              /\ o.reg # Hostile /\ ~(o.k = "mask" /\ d.regs[o.reg] = o.val)
                 => Adds(O("wr", o.reg, o.val))
  <2>1. CASE o.k = "mask" /\ d.regs[o.reg] = o.val
    <3>1. Apply(d, o, set.block) = d
      BY <2>1 DEF Apply, Accesses
    <3> QED
      BY <1>5, <2>1, <3>1
  <2>2. CASE ~(o.k = "mask" /\ d.regs[o.reg] = o.val) /\ o.reg = Hostile
    <3>1. Apply(d, o, set.block) = d
      BY <1>12, <2>2 DEF Apply, Accesses
    <3> QED
      BY <1>5, <2>2, <3>1
  <2>3. CASE ~(o.k = "mask" /\ d.regs[o.reg] = o.val) /\ o.reg # Hostile
    <3>1. Apply(d, o, set.block) = Stored(d, o.reg, o.val)
      BY <1>12, <2>3 DEF Apply, Accesses
    <3> QED
      BY <1>7, <2>3, <3>1
  <2> QED
    BY <2>1, <2>2, <2>3
<1>13. "mask" \in Accesses
  BY DEF Accesses
<1> QED
  BY <1>1, <1>2, <1>3, <1>8, <1>9, <1>10, <1>11, <1>12, <1>13

(* The controller sees the next event that was asked for.                  *)
LEMMA EventHappens ==
    ASSUME Typed, Conforms, Len(dev.log) < Len(Asked),
           NEW e, e = Asked[Len(dev.log) + 1]
    PROVE  /\ e \in Happening
           /\ \E m \in 0 .. Len(prog) : /\ Run[m].log = Append(dev.log, e)
                                        /\ Run[m].regs = Upd(dev.regs, e)
<1>1. PICK k \in 0 .. Len(prog) : dev.log = Run[k].log /\ dev.regs = Run[k].regs
  BY DEF Conforms
<1>2. Course(Run, Len(prog)) /\ Asked = Run[Len(prog)].log
  BY RunIs
<1> QED
  BY <1>1, <1>2, CourseStep

-----------------------------------------------------------------------------
(* What a step leaves as it was.                                           *)

(* The straight run depends on the program, its registers and the setting. *)
LEMMA SameRun ==
    ASSUME prog' = prog, dev'.base = dev.base, set' = set
    PROVE  Run' = Run /\ Asked' = Asked /\ \A n : Upto(n)' = Upto(n)
BY DEF Run, Asked, Upto

(* So does what the controller conforms to.                                *)
LEMMA SameConforms ==
    ASSUME prog' = prog, dev' = dev, set' = set, Conforms
    PROVE  Conforms'
BY SameRun DEF Conforms

(* Between two commands nothing is with the firmware, if it is alive.      *)
LEMMA Resting ==
    ASSUME TurnInv, pc = "run", exec.stage = "idle"
    PROVE  ~pmu.wedged => ~Working /\ mail.calls = <<>> /\ ~pmu.on
BY DEF TurnInv, Turns, AtRest, NoCalls, Working

(* An idle firmware executes nothing.                                      *)
LEMMA RestingMachine ==
    ASSUME ~pmu.wedged => mail.calls = <<>> /\ ~pmu.on
    PROVE  Machine
BY DEF Machine, OneCall, Working

(* The program moves on: what is to be shown of it.                        *)
LEMMA Moves ==
    ASSUME TurnInv, OrderInv, pc = "run", exec.stage = "idle",
           UNCHANGED <<set, pc, prog, mail, pmu>>, exec' = exec \/ exec' = NoExec,
           bus' \in BusType, dev' \in DevType, dev'.base = dev.base,
           at' \in 1 .. Len(prog) + 1,
           \E n \in 0 .. Len(prog) : dev'.log = Run[n].log /\ dev'.regs = Run[n].regs,
           BuffersAt(bus', at'), PausingAt(bus', at'),
           \/ IdleAt(bus', dev', at')
           \/ \E f, u : LostAt(bus', exec', at', f, u)
    PROVE  OrderInv'
<1>1. Run' = Run /\ Asked' = Asked /\ \A n : Upto(n)' = Upto(n)
  BY SameRun
<1>2. exec'.stage = "idle" /\ exec'.script \in Seq(Cmds) /\ exec'.to \in Nat
  <2>1. NoExec.stage = "idle" /\ NoExec.script = <<>> /\ NoExec.to = 0 /\ <<>> \in Seq(Cmds)
    BY DEF NoExec
  <2>2. exec.script \in Seq(Cmds) /\ exec.to \in Nat
    BY DEF OrderInv, Typed
  <2>3. CASE exec' = NoExec
    <3>1. exec'.stage = "idle" /\ exec'.script = <<>> /\ exec'.to = 0
      BY <2>3 DEF NoExec
    <3> QED
      BY <3>1
  <2>4. CASE exec' = exec
    BY <2>2, <2>4
  <2> QED
    BY <2>3, <2>4
<1>3. Typed'
  BY <1>2 DEF OrderInv, Typed
<1>4. Conforms'
  BY <1>1 DEF Conforms
<1>5. ~pmu'.wedged => mail'.calls = <<>> /\ ~pmu'.on
  BY Resting
<1>6. Machine'
  BY <1>5 DEF Machine, OneCall, Working
<1>7. Filling'
  BY <1>2 DEF Filling
<1>8. Buffers' /\ Pausing'
  BY DEF Buffers, BuffersAt, Pausing, PausingAt, PausesAt
<1>9. Lost' \/ (Idle' /\ Busy')
  <2>1. ASSUME IdleAt(bus', dev', at') PROVE Idle' /\ Busy'
    BY <1>1, <1>2, <2>1 DEF Idle, Busy, IdleAt, ShadowedAt
  <2>2. ASSUME NEW f, NEW u, LostAt(bus', exec', at', f, u) PROVE Lost'
    BY <2>2 DEF Lost, LostAt
  <2> QED
    BY <2>1, <2>2
<1>10. Hosts'
  BY <1>2, <1>8, <1>9 DEF Hosts
<1> QED
  BY <1>3, <1>4, <1>6, <1>7, <1>10 DEF OrderInv

(* The program hands a script to the firmware.                             *)
LEMMA Begins ==
    ASSUME TurnInv, OrderInv, pc = "run", exec.stage = "idle", at <= Len(prog),
           UNCHANGED <<set, pc, prog, at, mail, pmu, dev>>,
           NEW script \in Seq(Cmds), script # <<>>, NEW kind, Do(script, kind),
           bus' \in BusType, BuffersAt(bus', at), PausingAt(bus', at),
           \/ /\ Fits' /\ bus'.pending = <<>>
              /\ bus'.commands = IF kind = "run" THEN script ELSE <<>>
              /\ kind \in Quiet => Len(dev.log) = Upto(at - 1)
              /\ Covers(Asked, script, Len(script), Len(dev.log),
                        Upto(IF kind \in OfOp THEN at ELSE at - 1))
           \/ \E f, u : LostAt(bus', exec', at, f, u)
    PROVE  OrderInv'
<1>1. Run' = Run /\ Asked' = Asked /\ \A n : Upto(n)' = Upto(n)
  BY SameRun
<1>2. exec'.stage = "seg" /\ exec'.script = script /\ exec'.to = 1 /\ exec'.kind = kind
  BY DEF Do
<1>3. Typed'
  BY <1>2 DEF OrderInv, Typed
<1>4. Conforms'
  BY SameConforms DEF OrderInv
<1>5. ~pmu'.wedged => mail'.calls = <<>> /\ ~pmu'.on
  BY Resting
<1>6. Machine'
  BY <1>5 DEF Machine, OneCall, Working
<1>7. Filling'
  <2>1. Len(script) \in Nat /\ Len(script) # 0 /\ 1 - 1 = 0
    OBVIOUS
  <2>2. Len(mail'.seg) \in Nat
    BY <1>3 DEF Typed
  <2> QED
    BY <1>2, <2>1, <2>2 DEF Filling, Same
<1>8. Buffers' /\ Pausing'
  BY DEF Buffers, BuffersAt, Pausing, PausingAt, PausesAt
<1>9. Lost' \/ (Idle' /\ Busy')
  <2>1. CASE \E f, u : LostAt(bus', exec', at, f, u)
    BY <2>1 DEF Lost, LostAt
  <2>2. CASE ~\E f, u : LostAt(bus', exec', at, f, u)
    <3>1. End' = Upto(IF kind \in OfOp THEN at ELSE at - 1)
      BY <1>1, <1>2 DEF End
    <3> QED
      BY <1>1, <1>2, <2>2, <3>1 DEF Idle, Busy
  <2> QED
    BY <2>1, <2>2
<1>10. Hosts'
  BY <1>2, <1>8, <1>9 DEF Hosts
<1> QED
  BY <1>3, <1>4, <1>6, <1>7, <1>10 DEF OrderInv

(* The program ends, with the firmware as it was left.                     *)
LEMMA Ends ==
    ASSUME OrderInv, pc' \in {"reload", "raised"}, exec' = NoExec,
           UNCHANGED <<set, prog, at, mail, pmu, dev>>, bus' \in BusType
    PROVE  OrderInv'
<1>1. Run' = Run /\ Asked' = Asked /\ \A n : Upto(n)' = Upto(n)
  BY SameRun
<1>2. exec'.stage = "idle" /\ exec'.script = <<>> /\ exec'.to = 0
  BY DEF NoExec
<1>3. Typed'
  BY <1>2 DEF OrderInv, Typed
<1>4. Conforms'
  BY SameConforms DEF OrderInv
<1>5. Machine'
  BY <1>1, <1>2 DEF OrderInv, Machine, OneCall, Working, Job, Executes
<1>6. Filling' /\ Hosts'
  BY <1>2 DEF Filling, Hosts
<1> QED
  BY <1>3, <1>4, <1>5, <1>6 DEF OrderInv

(* It does so with an exception.                                           *)
LEMMA Raises1 ==
    ASSUME OrderInv, Raise, UNCHANGED <<set, prog, mail, pmu, dev>>, bus' \in BusType
    PROVE  OrderInv'
BY Ends DEF Raise

(* The framebuffer's part of it, where it does not depend on the step.     *)
LEMMA PauseKept ==
    ASSUME Typed, at <= Len(prog), Pausing, bus'.on = bus.on, bus'.can = bus.can,
           NEW n, n = at \/ (n = at + 1 /\ Op.k \notin {"restart", "block"})
    PROVE  PausingAt(bus', n)
<1> SUFFICES ASSUME set.block = "enter"
             PROVE  \E f, u : Shape(prog, f, u) /\ PausesAt(bus', n, f, u)
  BY DEF PausingAt
<1>1. PICK f, u : Shape(prog, f, u) /\ PausesAt(bus, at, f, u)
  BY DEF Pausing, PausingAt
<1>2. at \in 1 .. Len(prog) /\ Len(prog) \in Nat
  BY OpIs, ProgIs
<1>3. /\ f \in 2 .. Len(prog) /\ u \in f + 1 .. Len(prog) - 1 /\ prog[f - 1].k = "restart"
      /\ prog[at].k = "block" <=> at = f
  BY <1>1, <1>2 DEF Shape
<1>4. CASE n = at
  BY <1>1, <1>4 DEF PausesAt
<1>5. CASE n = at + 1 /\ Op.k \notin {"restart", "block"}
  <2>1. at # f - 1 /\ at # f
    BY <1>3, <1>5 DEF Op
  <2>2. PausesAt(bus', n, f, u)
    BY <1>1, <1>2, <1>3, <1>5, <2>1 DEF PausesAt
  <2> QED
    BY <1>1, <2>2
<1> QED
  BY <1>4, <1>5

(* With nothing queued the controller is where the program is.             *)
LEMMA Drained ==
    ASSUME Typed, Conforms, at <= Len(prog), IdleAt(bus, dev, at),
           bus.pending = <<>>, bus.commands = <<>>
    PROVE  /\ Len(dev.log) = Upto(at - 1)
           /\ dev.log = Run[at - 1].log /\ dev.regs = Run[at - 1].regs
<1>1. at - 1 \in 0 .. Len(prog) /\ Len(Asked) \in Nat
  BY OpIs, ProgIs, RunIs
<1>2. Upto(at - 1) = Len(dev.log)
  BY <1>1, QueueEmpty DEF IdleAt
<1> QED
  BY <1>1, <1>2, AtPoint

-----------------------------------------------------------------------------
(* The host between two commands.                                          *)

(* What the invariant says there, where the program is not lost.           *)
Ahead == /\ Typed /\ Conforms /\ Buffers /\ Pausing /\ IdleAt(bus, dev, at)
         /\ at \in 1 .. Len(prog) /\ Len(prog) \in Nat
         /\ Len(Asked) \in Nat /\ Upto(at - 1) \in Nat /\ Upto(at) \in Nat
         /\ bus.pending \in Seq(Pairs) /\ bus.commands \in Seq(Cmds)
         /\ Len(bus.pending) \in Nat /\ dev.log \in Seq(Happening) /\ Len(dev.log) \in Nat

(* The invariant gives all of it.                                         *)
LEMMA AheadIs ==
    ASSUME OrderInv, pc = "run", exec.stage = "idle", at <= Len(prog), ~Lost
    PROVE  Ahead
<1>1. Typed /\ Conforms /\ Buffers /\ Pausing /\ IdleAt(bus, dev, at)
  BY DEF OrderInv, Hosts, Idle
<1>2. at \in 1 .. Len(prog) /\ Len(prog) \in Nat
  BY <1>1, OpIs, ProgIs
<1>3. at \in 0 .. Len(prog) /\ at - 1 \in 0 .. Len(prog)
  BY <1>2
<1>4. Len(Asked) \in Nat /\ Upto(at - 1) \in Nat /\ Upto(at) \in Nat
  BY <1>1, <1>3, RunIs
<1>5. bus.pending \in Seq(Pairs) /\ bus.commands \in Seq(Cmds) /\ dev.log \in Seq(Happening)
  BY <1>1 DEF Typed, BusType, DevType
<1>6. Len(bus.pending) \in Nat /\ Len(dev.log) \in Nat
  BY <1>5
<1> QED
  BY <1>1, <1>2, <1>4, <1>5, <1>6 DEF Ahead

(* Pending stores are flushed before what must not overtake them.          *)
LEMMA DueIs ==
    ASSUME Typed, ~Due, bus.pending # <<>>
    PROVE  /\ Op.k \notin {"delay", "wait", "stop"}
           /\ ~set.atomic => Op.k \notin {"mask", "nvmask"}
           /\ Pauses => Op.k \notin {"block", "unblock"}
BY DEF Due

(* Only pending stores are flushed.                                        *)
LEMMA DueSome == Due /\ Typed => bus.pending # <<>>
<1> SUFFICES ASSUME Due, Typed, bus.pending = <<>> PROVE FALSE
  OBVIOUS
<1>1. Len(bus.pending) = 0
  OBVIOUS
<1>2. Chunk \in Nat \ {0}
  BY Constants
<1> QED
  BY <1>1, <1>2 DEF Due

(* A program that is lost comes to a flush.                                *)
LEMMA LostWhere ==
    ASSUME Typed, NEW f, NEW u, LostAt(bus, exec, at, f, u), exec.stage = "idle"
    PROVE  /\ at \in 1 .. Len(prog) /\ at < Len(prog) + 1
           /\ Op.k \notin {"check", "start", "restart", "start2", "block", "unblock",
                           "ensure", "store"}
           /\ bus.pending = <<>> =>
                at = u + 1 /\ Op.k = "write" /\ Op.reg # Hostile
           /\ Op.k \in {"delay", "wait", "stop"} => Due
           /\ Op.k \in Accesses => at + 1 \in u + 1 .. Len(prog)
<1>1. /\ Shape(prog, f, u) /\ at \in u + 1 .. Len(prog) /\ u \in f + 1 .. Len(prog) - 1
      /\ f \in 2 .. Len(prog) /\ Len(prog) \in Nat
  BY ProgIs DEF LostAt, Shape
<1>2. at \in 1 .. Len(prog) /\ at # 1 /\ u \in 1 .. Len(prog) /\ Len(prog) \in 1 .. Len(prog)
      /\ at > u /\ at > f /\ u \in Nat
  BY <1>1
<1>3. prog[at - 1].k \in Accesses \cup {"unblock"}
  <2>1. CASE at = u + 1
    <3>1. at - 1 = u /\ prog[u].k = "unblock"
      BY <1>1, <1>2, <2>1 DEF Shape
    <3> QED
      BY <3>1
  <2>2. CASE at # u + 1
    <3>1. at - 1 \in u + 1 .. at - 1
      BY <1>1, <1>2, <2>2
    <3> QED
      BY <3>1 DEF LostAt
  <2> QED
    BY <2>1, <2>2
<1>4. Op.k \notin {"check", "start", "restart", "start2", "block", "unblock", "ensure", "store"}
  BY <1>1, <1>2, <1>3 DEF Shape, Op, Accesses
<1>5. bus.pending = <<>> => at = u + 1 /\ Op.k = "write" /\ Op.reg # Hostile
  BY <1>1 DEF LostAt, Shape, Op
<1>6. Op.k \in {"delay", "wait", "stop"} => Due
  BY <1>5, DueIs
<1>7. Op.k \in Accesses => at + 1 \in u + 1 .. Len(prog)
  <2>1. prog[Len(prog)].k \in {"stop", "ensure", "store"}
    BY <1>1 DEF Shape
  <2> QED
    BY <1>1, <1>2, <2>1 DEF Op, Accesses
<1> QED
  BY <1>2, <1>4, <1>5, <1>6, <1>7

(* The pending stores become a command, or a script that is run at once.   *)
LEMMA OrderFlush ==
    ASSUME TurnInv, OrderInv, Flush
    PROVE  OrderInv'
<1>1. /\ pc = "run" /\ exec.stage = "idle" /\ at <= Len(prog) /\ Due
      /\ UNCHANGED <<set, pc, pass, prog, at, mail, pmu, dev>>
  BY DEF Flush
<1>2. PICK c : c = Cmd("wr", bus.pending)
  OBVIOUS
<1>3. Typed /\ Conforms /\ Buffers /\ Pausing /\ bus \in BusType /\ dev \in DevType
      /\ at \in 1 .. Len(prog) + 1
  BY <1>1 DEF OrderInv, Hosts, Typed
<1>4. /\ bus.pending # <<>> /\ bus.on /\ bus.pending \in Seq(Pairs) /\ c \in Cmds
      /\ bus.commands \in Seq(Cmds)
  BY <1>2, <1>3, DueSome, <1>1, CmdIs DEF Buffers, BuffersAt, BusType
<1>5. CASE set.atomic
  <2>1. /\ bus' = [bus EXCEPT !.pending = <<>>, !.commands = Append(@, c)] /\ UNCHANGED exec
    BY <1>2, <1>5 DEF Flush
  <2>2. /\ bus'.pending = <<>> /\ bus'.commands = Append(bus.commands, c)
        /\ bus'.on = bus.on /\ bus'.can = bus.can /\ bus'.shadow = bus.shadow
        /\ bus' \in BusType
    <3>1. <<>> \in Seq(Pairs) /\ Append(bus.commands, c) \in Seq(Cmds)
      BY <1>4, Appended
    <3> QED
      BY <1>3, <2>1, <3>1 DEF BusType
  <2>3. ~Lost
    BY <1>3, <1>5 DEF Lost, LostAt, Typed
  <2>4. Ahead
    BY <1>1, <2>3, AheadIs
  <2>5. IdleAt(bus', dev', at')
    <3>1. Queue(Asked, bus'.commands, bus'.pending, Len(dev.log), Upto(at - 1))
      BY <1>2, <1>4, <2>2, <2>4, QueueFlush DEF Ahead, IdleAt
    <3>2. set.atomic /\ bus'.on => ShadowedAt(bus', dev, at)
      BY <2>2, <2>4 DEF Ahead, IdleAt, ShadowedAt
    <3> QED
      BY <1>1, <3>1, <3>2 DEF IdleAt
  <2>6. BuffersAt(bus', at') /\ PausingAt(bus', at')
    BY <1>1, <1>3, <1>4, <1>5, <2>2, PauseKept DEF Buffers, BuffersAt
  <2>7. \E n \in 0 .. Len(prog) : dev'.log = Run[n].log /\ dev'.regs = Run[n].regs
    BY <1>1, <1>3 DEF Conforms
  <2> QED
    BY <1>1, <1>3, <2>1, <2>2, <2>5, <2>6, <2>7, Moves
<1>6. CASE ~set.atomic
  <2>1. bus' = [bus EXCEPT !.pending = <<>>] /\ Do(<<c>>, "flush")
    BY <1>2, <1>6 DEF Flush
  <2>2. /\ bus'.pending = <<>> /\ bus'.commands = bus.commands
        /\ bus'.on = bus.on /\ bus'.can = bus.can /\ bus' \in BusType
    <3>1. <<>> \in Seq(Pairs)
      OBVIOUS
    <3> QED
      BY <1>3, <2>1, <3>1 DEF BusType
  <2>3. BuffersAt(bus', at) /\ PausingAt(bus', at) /\ bus.commands = <<>>
    BY <1>1, <1>3, <1>4, <1>6, <2>2, PauseKept DEF Buffers, BuffersAt
  <2>4. <<c>> \in Seq(Cmds) /\ <<c>> # <<>> /\ exec'.kind = "flush" /\ exec'.stage = "seg"
    BY <1>4, <2>1 DEF Do
  <2>5. CASE Lost
    <3>1. \E f, u : LostAt(bus', exec', at, f, u)
      BY <1>4, <2>2, <2>4, <2>5 DEF Lost, LostAt
    <3> QED
      BY <1>1, <2>1, <2>2, <2>3, <2>4, <3>1, Begins
  <2>6. CASE ~Lost
    <3>1. Ahead
      BY <1>1, <2>6, AheadIs
    <3>2. Covers(Asked, <<c>>, Len(<<c>>), Len(dev.log), Upto(at - 1))
      BY <1>2, <1>4, <2>3, <3>1, QueueFlush DEF Ahead, IdleAt
    <3>3. Fits'
      BY <1>1, <1>4, <1>6, <2>2, <2>4 DEF Fits
    <3> QED
      BY <1>1, <2>1, <2>2, <2>3, <2>4, <3>2, <3>3, Begins DEF OfOp, Quiet
  <2> QED
    BY <2>5, <2>6
<1> QED
  BY <1>5, <1>6

(* A step that goes past the operation at hand with nothing in the queue.  *)
LEMMA Passes ==
    ASSUME TurnInv, OrderInv, Ahead, pc = "run", exec.stage = "idle",
           UNCHANGED <<set, pc, prog, mail, pmu, dev>>, exec' = exec \/ exec' = NoExec,
           at' = at + 1, Silent, bus' \in BusType,
           bus.pending = <<>>, bus.commands = <<>>,
           bus'.pending = <<>>, bus'.commands = <<>>,
           set.atomic /\ bus'.on => \A r \in Regs : bus'.shadow[r] = Nothing,
           BuffersAt(bus', at + 1), PausingAt(bus', at + 1)
    PROVE  OrderInv'
<1>1. /\ Len(dev.log) = Upto(at - 1) /\ dev.log = Run[at - 1].log
      /\ dev.regs = Run[at - 1].regs
  BY Drained DEF Ahead
<1>2. Upto(at) = Len(dev.log) /\ Run[at].regs = dev.regs /\ at' - 1 = at
  BY <1>1 DEF Silent, Ahead
<1>3. Upto(at - 1) <= Len(Asked)
  <2>1. at - 1 \in 0 .. Len(prog)
    BY DEF Ahead
  <2> QED
    BY <2>1, RunIs DEF Ahead
<1>4. Queue(Asked, <<>>, <<>>, Len(dev.log), Upto(at))
  BY <1>1, <1>2, <1>3, QueueNone DEF Ahead
<1>5. IdleAt(bus', dev', at')
  BY <1>2, <1>4 DEF IdleAt, ShadowedAt
<1>6. \E n \in 0 .. Len(prog) : dev'.log = Run[n].log /\ dev'.regs = Run[n].regs
  BY DEF Ahead, Conforms
<1>7. dev' \in DevType /\ dev'.base = dev.base /\ at' \in 1 .. Len(prog) + 1
  BY DEF Ahead, Typed
<1> QED
  BY <1>5, <1>6, <1>7, Moves

(* A step that does at once what the operation asks for.                   *)
LEMMA Performs ==
    ASSUME TurnInv, OrderInv, Ahead, pc = "run", exec.stage = "idle",
           UNCHANGED <<set, pc, prog, mail, pmu, exec>>, at' = at + 1, bus' = bus, ~bus.on,
           NEW e, Adds(e), dev'.log = Append(dev.log, e), dev'.regs = Upd(dev.regs, e),
           dev' \in DevType, dev'.base = dev.base, Op.k \notin {"restart", "block"}
    PROVE  OrderInv'
<1>1. bus.pending = <<>> /\ bus.commands = <<>>
  BY DEF Ahead, Buffers, BuffersAt
<1>2. /\ Len(dev.log) = Upto(at - 1) /\ dev.log = Run[at - 1].log
      /\ dev.regs = Run[at - 1].regs
  BY <1>1, Drained DEF Ahead
<1>3. dev'.log = Run[at].log /\ dev'.regs = Run[at].regs
  BY <1>2 DEF Adds
<1>4. Len(dev'.log) = Upto(at) /\ Upto(at) <= Len(Asked) /\ at' - 1 = at
  BY <1>3 DEF Upto, Adds, Ahead
<1>5. Queue(Asked, <<>>, <<>>, Len(dev'.log), Upto(at))
  BY <1>4, QueueNone DEF Ahead
<1>6. IdleAt(bus', dev', at')
  BY <1>1, <1>4, <1>5 DEF IdleAt
<1>7. at \in 0 .. Len(prog) /\ at' \in 1 .. Len(prog) + 1
  BY DEF Ahead
<1>8. BuffersAt(bus', at') /\ PausingAt(bus', at')
  <2>1. PausingAt(bus', at')
    BY PauseKept DEF Ahead
  <2> QED
    BY <2>1 DEF Ahead, Buffers, BuffersAt
<1>9. bus' \in BusType
  BY DEF Ahead, Typed
<1> QED
  BY <1>3, <1>6, <1>7, <1>8, <1>9, Moves

(* A step that queues what the operation asks for.                         *)
LEMMA Queues ==
    ASSUME TurnInv, OrderInv, Ahead, pc = "run", exec.stage = "idle",
           UNCHANGED <<set, pc, prog, mail, pmu, exec, dev>>, at' = at + 1,
           bus.on, bus'.on = bus.on, bus'.can = bus.can, bus' \in BusType,
           Op.k \notin {"restart", "stop", "ensure", "store"},
           Op.k = "block" => set.atomic,
           ~set.atomic => bus'.commands = <<>>,
           Queue(Asked, bus'.commands, bus'.pending, Len(dev.log), Upto(at)),
           set.atomic => ShadowedAt(bus', dev, at + 1)
    PROVE  OrderInv'
<1>1. at + 1 - 1 = at /\ at \in 1 .. Len(prog) /\ at' \in 1 .. Len(prog) + 1 /\ at + 1 # 1
  BY DEF Ahead
<1>2. IdleAt(bus', dev', at')
  BY <1>1 DEF IdleAt
<1>3. PausingAt(bus', at')
  <2>1. CASE set.block = "enter"
    <3>1. Op.k # "block"
      BY <2>1 DEF Ahead, Typed
    <3> QED
      BY <1>1, <3>1, PauseKept DEF Ahead
  <2>2. CASE set.block # "enter"
    BY <2>2 DEF PausingAt
  <2> QED
    BY <2>1, <2>2
<1>4. BuffersAt(bus', at')
  BY <1>1 DEF BuffersAt, Op
<1>5. \E n \in 0 .. Len(prog) : dev'.log = Run[n].log /\ dev'.regs = Run[n].regs
  BY DEF Ahead, Conforms
<1>6. dev' \in DevType /\ dev'.base = dev.base
  BY DEF Ahead, Typed
<1> QED
  BY <1>1, <1>2, <1>3, <1>4, <1>5, <1>6, Moves

(* Events of the controller.                                               *)
LEMMA DevIs ==
    ASSUME NEW d \in DevType
    PROVE  /\ \A r \in Regs, v \in Values :
                /\ O("wr", r, v) \in Happening /\ Stored(d, r, v) \in DevType
                /\ Stored(d, r, v).log = Append(d.log, O("wr", r, v))
                /\ Stored(d, r, v).regs = Upd(d.regs, O("wr", r, v))
                /\ Stored(d, r, v).base = d.base /\ Stored(d, r, v).paused = d.paused
           /\ \A k \in {"delay", "wait", "enter", "leave"} :
                /\ Plain(k) \in Happening /\ Logged(d, k) \in DevType
                /\ Logged(d, k).log = Append(d.log, Plain(k))
                /\ Logged(d, k).regs = Upd(d.regs, Plain(k))
                /\ Logged(d, k).base = d.base /\ Logged(d, k).paused = d.paused
<1>1. d.log \in Seq(Happening) /\ d.regs \in [Regs -> Values] /\ d.base \in [Regs -> Values]
      /\ d.paused \in BOOLEAN
      /\ d = [regs |-> d.regs, paused |-> d.paused, log |-> d.log, base |-> d.base]
  BY DEF DevType
<1>2. ASSUME NEW r \in Regs, NEW v \in Values
      PROVE  /\ O("wr", r, v) \in Happening /\ Stored(d, r, v) \in DevType
             /\ Stored(d, r, v).log = Append(d.log, O("wr", r, v))
             /\ Stored(d, r, v).regs = Upd(d.regs, O("wr", r, v))
             /\ Stored(d, r, v).base = d.base /\ Stored(d, r, v).paused = d.paused
  <2>1. O("wr", r, v) \in Happening
    BY DEF O, Happening
  <2>2. PICK e \in Happening : e = O("wr", r, v)
    BY <2>1
  <2>3. Append(d.log, e) \in Seq(Happening)
    BY <1>1, Appended
  <2>4. Stored(d, r, v) = [regs |-> [d.regs EXCEPT ![r] = v], paused |-> d.paused,
                           log |-> Append(d.log, e), base |-> d.base]
    <3>1. PICK regs, paused, log, base :
            d = [regs |-> regs, paused |-> paused, log |-> log, base |-> base]
      BY <1>1
    <3>2. Stored(d, r, v) = [d EXCEPT !.regs[r] = v, !.log = Append(@, e)]
      BY <2>2 DEF Stored
    <3> QED
      BY <3>1, <3>2
  <2>5. Upd(d.regs, e) = [d.regs EXCEPT ![r] = v] /\ [d.regs EXCEPT ![r] = v] \in [Regs -> Values]
    BY <1>1, <2>2 DEF Upd, O
  <2> QED
    BY <1>1, <2>2, <2>3, <2>4, <2>5 DEF DevType
<1>3. ASSUME NEW k \in {"delay", "wait", "enter", "leave"}
      PROVE  /\ Plain(k) \in Happening /\ Logged(d, k) \in DevType
             /\ Logged(d, k).log = Append(d.log, Plain(k))
             /\ Logged(d, k).regs = Upd(d.regs, Plain(k))
             /\ Logged(d, k).base = d.base /\ Logged(d, k).paused = d.paused
  <2>1. PICK e \in Happening : e = Plain(k) /\ e.k = k
    BY PlainIs
  <2>2. Append(d.log, e) \in Seq(Happening)
    BY <1>1, Appended
  <2>3. Logged(d, k) = [regs |-> d.regs, paused |-> d.paused, log |-> Append(d.log, e),
                        base |-> d.base]
    BY <1>1, <2>1, SMTT(30) DEF Logged
  <2>4. Upd(d.regs, e) = d.regs
    BY <2>1 DEF Upd
  <2> QED
    BY <1>1, <2>1, <2>2, <2>3, <2>4 DEF DevType
<1> QED
  BY <1>2, <1>3

(* A write of a program that is lost is queued; the queue will be flushed.  *)
LEMMA AccessLost ==
    ASSUME TurnInv, OrderInv, Access, Lost
    PROVE  OrderInv'
<1>1. /\ pc = "run" /\ exec.stage = "idle" /\ at <= Len(prog) /\ Op.k \in Accesses
      /\ UNCHANGED <<set, pass, prog, mail, pmu>>
  BY DEF Access, Ready
<1>2. /\ Typed /\ Conforms /\ Buffers /\ Pausing /\ bus \in BusType /\ dev \in DevType
  BY <1>1 DEF OrderInv, Hosts, Typed
<1>3. PICK f, u : LostAt(bus, exec, at, f, u)
  BY DEF Lost
<1>4. ~set.atomic /\ bus.on /\ at >= u + 1 /\ at \in Nat /\ u \in Nat
  BY <1>2, <1>3, ProgIs DEF LostAt, Typed, Shape
<1>5. /\ bus.pending = <<>> => at = u + 1 /\ Op.k = "write" /\ Op.reg # Hostile
      /\ at + 1 \in u + 1 .. Len(prog)
  BY <1>1, <1>2, <1>3, LostWhere
<1>6. /\ UNCHANGED <<pc, exec, dev>> /\ at' = at + 1
      /\ \/ bus' = bus /\ bus.pending # <<>>
         \/ bus' = [bus EXCEPT !.pending = Append(@, <<Op.reg, Op.val>>),
                               !.shadow[Op.reg] = @]
  <2>1. CASE (Op.k = "mask" /\ dev.regs[Op.reg] = Op.val) \/ Op.reg = Hostile
    BY <1>4, <1>5, <2>1 DEF Access, Goes
  <2>2. CASE ~((Op.k = "mask" /\ dev.regs[Op.reg] = Op.val) \/ Op.reg = Hostile)
    BY <1>4, <1>5, <2>2 DEF Access, Goes
  <2> QED
    BY <2>1, <2>2
<1>7. /\ bus'.pending # <<>> /\ bus'.on = bus.on /\ bus'.can = bus.can
      /\ bus'.commands = bus.commands /\ bus' \in BusType
  <2>1. <<Op.reg, Op.val>> \in Pairs
    BY <1>1, <1>2, OpIs DEF AnyOp, Pairs
  <2>2. bus.pending \in Seq(Pairs) /\ [bus.shadow EXCEPT ![Op.reg] = @] = bus.shadow
    BY <1>2 DEF BusType
  <2>3. Append(bus.pending, <<Op.reg, Op.val>>) \in Seq(Pairs)
        /\ Append(bus.pending, <<Op.reg, Op.val>>) # <<>>
    <3>1. PICK q \in Pairs : q = <<Op.reg, Op.val>>
      BY <2>1
    <3>2. Append(bus.pending, q) \in Seq(Pairs) /\ Len(Append(bus.pending, q)) # 0
      BY <2>2, Appended
    <3> QED
      BY <3>1, <3>2
  <2> QED
    BY <1>2, <1>6, <2>2, <2>3 DEF BusType
<1>8. LostAt(bus', exec', at + 1, f, u)
  <2>1. ASSUME NEW j \in u + 1 .. at + 1 - 1 PROVE prog[j].k \in Accesses
    <3>1. j \in u + 1 .. at - 1 \/ j = at
      BY <1>4
    <3> QED
      BY <1>1, <1>3, <3>1 DEF LostAt, Op
  <2> QED
    BY <1>1, <1>3, <1>4, <1>5, <1>6, <1>7, <2>1 DEF LostAt
<1>9. PausingAt(bus', at + 1)
  BY <1>1, <1>2, <1>7, PauseKept DEF Accesses
<1>10. BuffersAt(bus', at + 1)
  <2>1. at + 1 - 1 = at /\ at + 1 # 1
    BY <1>4, <1>2, OpIs, <1>1
  <2> QED
    BY <1>1, <1>2, <1>4, <1>7, <2>1 DEF Buffers, BuffersAt, Accesses, Op
<1>11. \E n \in 0 .. Len(prog) : dev'.log = Run[n].log /\ dev'.regs = Run[n].regs
  BY <1>2, <1>6 DEF Conforms
<1>12. dev' \in DevType /\ dev'.base = dev.base /\ at' \in 1 .. Len(prog) + 1
  BY <1>1, <1>2, <1>6, OpIs
<1> QED
  BY <1>1, <1>6, <1>7, <1>8, <1>9, <1>10, <1>11, <1>12, Moves

(* What a read returns is what the straight run would read.                *)
LEMMA ReadsOf ==
    ASSUME Ahead, ~Due, Op.k \in {"mask", "nvmask"},
           NEW old, old = IF set.atomic /\ bus.on /\ bus.shadow[Op.reg] # Nothing
                          THEN bus.shadow[Op.reg] ELSE dev.regs[Op.reg]
    PROVE  old = Run[at - 1].regs[Op.reg]
<1>1. Op.reg \in Regs
  BY OpIs DEF Ahead, AnyOp
<1>2. CASE set.atomic /\ bus.on
  BY <1>1, <1>2 DEF Ahead, IdleAt, ShadowedAt
<1>3. CASE ~(set.atomic /\ bus.on)
  <2>1. bus.pending = <<>> /\ bus.commands = <<>>
    BY <1>3, DueIs DEF Ahead, Buffers, BuffersAt
  <2> QED
    BY <1>3, <2>1, Drained DEF Ahead
<1> QED
  BY <1>2, <1>3

(* read32 and write32 of a program that is not lost.                       *)
LEMMA AccessAhead ==
    ASSUME TurnInv, OrderInv, Access, ~Lost
    PROVE  OrderInv'
<1>1. /\ pc = "run" /\ exec.stage = "idle" /\ at <= Len(prog) /\ Op.k \in Accesses /\ ~Due
      /\ UNCHANGED <<set, pass, prog, mail, pmu>>
  BY DEF Access, Ready
<1>2. Ahead
  BY <1>1, AheadIs
<1>3. PICK r, v, old, b :
        /\ r = Op.reg /\ v = Op.val
        /\ old = IF set.atomic /\ bus.on /\ bus.shadow[r] # Nothing
                 THEN bus.shadow[r] ELSE dev.regs[r]
        /\ b = IF (set.atomic /\ bus.on) /\ Op.k # "write"
               THEN [bus EXCEPT !.shadow[r] = old] ELSE bus
  OBVIOUS
<1>4. IF (Op.k = "mask" /\ old = v) \/ r = Hostile
      THEN Goes(b, 1) /\ UNCHANGED <<pc, exec, dev>>
      ELSE IF bus.on
      THEN /\ Goes([b EXCEPT !.pending = Append(@, <<r, v>>),
                    !.shadow[r] = IF set.atomic THEN v ELSE @], 1)
           /\ UNCHANGED <<pc, exec, dev>>
      ELSE IF bus.req THEN Raise /\ UNCHANGED <<bus, dev>>
      ELSE Goes(b, 1) /\ dev' = Stored(dev, r, v) /\ UNCHANGED <<pc, exec>>
  BY <1>3 DEF Access
<1>5. r \in Regs /\ v \in Values /\ <<r, v>> \in Pairs
      /\ at - 1 \in 0 .. Len(prog) /\ at \in 1 .. Len(prog)
      /\ Op.k \notin {"restart", "block", "stop", "ensure", "store"}
  BY <1>1, <1>2, <1>3, OpIs DEF Ahead, AnyOp, Pairs, Accesses
<1>6. Op.k # "write" => old = Run[at - 1].regs[r]
  BY <1>1, <1>2, <1>3, ReadsOf DEF Accesses
<1>7. bus \in BusType /\ dev \in DevType /\ Run[at - 1].regs \in [Regs -> Values]
      /\ dev.regs \in [Regs -> Values]
  BY <1>2, <1>5, RunIs DEF Ahead, Typed, Point, DevType
<1>8. /\ b \in BusType /\ b.on = bus.on /\ b.can = bus.can /\ b.pending = bus.pending
      /\ b.commands = bus.commands
      /\ set.atomic /\ bus.on => ShadowedAt(b, dev, at)
  <2>1. CASE (set.atomic /\ bus.on) /\ Op.k # "write"
    <3>1. b = [bus EXCEPT !.shadow = [bus.shadow EXCEPT ![r] = old]]
      BY <1>3, <2>1
    <3>2. old \in Values /\ bus.shadow \in [Regs -> Values \cup {Nothing}]
      BY <1>5, <1>6, <1>7, <2>1 DEF BusType
    <3>3. /\ b \in BusType /\ b.on = bus.on /\ b.can = bus.can /\ b.pending = bus.pending
          /\ b.commands = bus.commands /\ b.shadow = [bus.shadow EXCEPT ![r] = old]
      BY <1>7, <3>1, <3>2 DEF BusType
    <3>4. ShadowedAt(b, dev, at)
      <4>1. old # Nothing /\ old = Run[at - 1].regs[r] /\ ShadowedAt(bus, dev, at)
        BY <1>2, <1>6, <2>1, <3>2, Constants DEF Ahead, IdleAt
      <4> QED
        BY <3>2, <3>3, <4>1 DEF ShadowedAt
    <3> QED
      BY <3>3, <3>4
  <2>2. CASE ~((set.atomic /\ bus.on) /\ Op.k # "write")
    BY <1>2, <1>3, <1>7, <2>2 DEF Ahead, IdleAt
  <2> QED
    BY <2>1, <2>2
<1>9. CASE (Op.k = "mask" /\ old = v) \/ r = Hostile
  <2>1. bus' = b /\ at' = at + 1 /\ UNCHANGED <<pc, exec, dev>>
    BY <1>4, <1>9 DEF Goes
  <2>2. Silent
    BY <1>1, <1>2, <1>3, <1>6, <1>9, OpIs DEF Ahead
  <2>3. at' - 1 = at /\ at' \in 1 .. Len(prog) + 1
    BY <1>2, <2>1 DEF Ahead
  <2>4. IdleAt(bus', dev', at')
    BY <1>2, <1>8, <2>1, <2>2, <2>3 DEF Ahead, IdleAt, ShadowedAt, Silent
  <2>5. BuffersAt(bus', at') /\ PausingAt(bus', at')
    <3>1. PausingAt(bus', at')
      BY <1>2, <1>5, <1>8, <2>1, PauseKept DEF Ahead
    <3> QED
      BY <1>2, <1>5, <1>8, <2>1, <2>3, <3>1 DEF Ahead, Buffers, BuffersAt, Op
  <2>6. \E n \in 0 .. Len(prog) : dev'.log = Run[n].log /\ dev'.regs = Run[n].regs
    BY <1>2, <2>1 DEF Ahead, Conforms
  <2> QED
    BY <1>1, <1>7, <1>8, <2>1, <2>3, <2>4, <2>5, <2>6, Moves
<1>10. ASSUME ~((Op.k = "mask" /\ old = v) \/ r = Hostile) PROVE Adds(O("wr", r, v))
  BY <1>1, <1>2, <1>3, <1>6, <1>10, OpIs DEF Ahead
<1>11. CASE ~((Op.k = "mask" /\ old = v) \/ r = Hostile) /\ bus.on
  <2>1. /\ bus' = [b EXCEPT !.pending = Append(@, <<r, v>>),
                            !.shadow[r] = IF set.atomic THEN v ELSE @]
        /\ at' = at + 1 /\ UNCHANGED <<pc, exec, dev>>
    BY <1>4, <1>11 DEF Goes
  <2>2. PICK sh : sh = IF set.atomic THEN [b.shadow EXCEPT ![r] = v] ELSE b.shadow
    OBVIOUS
  <2>3. PICK q \in Pairs : q = <<r, v>>
    BY <1>5
  <2>4. sh \in [Regs -> Values \cup {Nothing}] /\ Append(b.pending, q) \in Seq(Pairs)
    <3>1. b.shadow \in [Regs -> Values \cup {Nothing}] /\ b.pending \in Seq(Pairs)
      BY <1>8 DEF BusType
    <3>2. Append(b.pending, q) \in Seq(Pairs)
      BY <3>1, Appended
    <3> QED
      BY <1>5, <2>2, <3>1, <3>2
  <2>5. bus' = [b EXCEPT !.pending = Append(@, q), !.shadow = sh]
    <3>1. b.shadow \in [Regs -> Values \cup {Nothing}]
      BY <1>8 DEF BusType
    <3>2. CASE set.atomic
      BY <1>5, <1>8, <2>1, <2>2, <2>3, <3>1, <3>2 DEF BusType
    <3>3. CASE ~set.atomic
      <4>1. [b.shadow EXCEPT ![r] = @] = b.shadow
        BY <1>5, <3>1
      <4> QED
        BY <1>5, <1>8, <2>1, <2>2, <2>3, <3>1, <3>3, <4>1 DEF BusType
    <3> QED
      BY <3>2, <3>3
  <2>6. /\ bus' \in BusType /\ bus'.on = bus.on /\ bus'.can = bus.can
        /\ bus'.pending = Append(bus.pending, q) /\ bus'.commands = bus.commands
        /\ bus'.shadow = sh
    BY <1>8, <2>4, <2>5 DEF BusType
  <2>7. Queue(Asked, bus'.commands, bus'.pending, Len(dev.log), Upto(at))
    <3>1. /\ Upto(at) = Upto(at - 1) + 1 /\ Upto(at) <= Len(Asked)
          /\ Asked[Upto(at - 1) + 1] = O("wr", r, v)
      BY <1>10, <1>11 DEF Adds
    <3> QED
      BY <1>2, <1>5, <2>3, <2>6, <3>1, QueueWrite DEF Ahead, IdleAt
  <2>8. set.atomic => ShadowedAt(bus', dev, at + 1)
    <3> SUFFICES ASSUME set.atomic PROVE ShadowedAt(bus', dev, at + 1)
      OBVIOUS
    <3>1. ShadowedAt(b, dev, at) /\ at + 1 - 1 = at
      BY <1>2, <1>8, <1>11 DEF Ahead
    <3>2. Run[at].regs = [Run[at - 1].regs EXCEPT ![r] = v]
      BY <1>10, <1>11 DEF Adds, Upd, O
    <3>3. bus'.shadow = [b.shadow EXCEPT ![r] = v] /\ v # Nothing
          /\ b.shadow \in [Regs -> Values \cup {Nothing}]
      BY <1>5, <1>8, <2>2, <2>6, Constants DEF BusType
    <3> QED
      BY <1>5, <1>7, <3>1, <3>2, <3>3 DEF ShadowedAt
  <2>9. ~set.atomic => bus'.commands = <<>>
    BY <1>2, <2>6 DEF Ahead, Buffers, BuffersAt
  <2> QED
    BY <1>1, <1>2, <1>5, <1>11, <2>1, <2>6, <2>7, <2>8, <2>9, Queues
<1>12. CASE ~((Op.k = "mask" /\ old = v) \/ r = Hostile) /\ ~bus.on
  <2>1. \/ Raise /\ UNCHANGED <<bus, dev>>
        \/ bus' = bus /\ at' = at + 1 /\ dev' = Stored(dev, r, v) /\ UNCHANGED <<pc, exec>>
    BY <1>3, <1>4, <1>12 DEF Goes
  <2>2. CASE Raise /\ UNCHANGED <<bus, dev>>
    BY <1>1, <1>7, <2>2, Raises1
  <2>3. CASE bus' = bus /\ at' = at + 1 /\ dev' = Stored(dev, r, v) /\ UNCHANGED <<pc, exec>>
    <3>1. PICK e \in Happening : e = O("wr", r, v)
      BY <1>5, <1>7, DevIs
    <3>2. /\ dev'.log = Append(dev.log, e) /\ dev'.regs = Upd(dev.regs, e)
          /\ dev' \in DevType /\ dev'.base = dev.base
      BY <1>5, <1>7, <2>3, <3>1, DevIs
    <3>3. Adds(e)
      BY <1>10, <1>12, <3>1
    <3> QED
      BY <1>1, <1>2, <1>5, <1>12, <2>3, <3>2, <3>3, Performs
  <2> QED
    BY <2>1, <2>2, <2>3
<1> QED
  BY <1>9, <1>11, <1>12

(* A program that is lost is at no such operation.                         *)
LEMMA NotLost ==
    ASSUME OrderInv, pc = "run", exec.stage = "idle",
           \/ at > Len(prog)
           \/ Op.k \in {"check", "start", "restart", "start2", "block", "unblock",
                        "ensure", "store"}
           \/ Op.k \in {"delay", "wait", "stop"} /\ ~Due
    PROVE  ~Lost
<1> SUFFICES ASSUME Lost PROVE FALSE
  OBVIOUS
<1>1. PICK f, u : LostAt(bus, exec, at, f, u)
  BY DEF Lost
<1>2. Typed /\ Len(prog) \in Nat /\ at \in Nat
  BY ProgIs DEF OrderInv, Typed
<1> QED
  BY <1>1, <1>2, LostWhere

(* A script of one command, for one event.                                 *)
LEMMA OneEvent ==
    ASSUME Ahead, bus.pending = <<>>, bus.commands = <<>>, NEW e, Adds(e),
           NEW c \in Cmds, Size(c) = 1, Nth(c, 1) = e
    PROVE  Covers(Asked, <<c>>, Len(<<c>>), Len(dev.log), Upto(at))
<1>1. Len(dev.log) = Upto(at - 1)
  BY Drained DEF Ahead
<1>2. Holds(Asked, c, Upto(at - 1), Upto(at - 1) + 1)
  BY HoldsOne DEF Ahead, Adds
<1> QED
  BY <1>1, <1>2, CoversOne DEF Adds, Ahead

(* A script of no event: a probe.                                          *)
LEMMA ProbeIs ==
    ASSUME NEW L, Len(L) \in Nat, NEW a \in Nat, a <= Len(L)
    PROVE  Probe \in Seq(Cmds) /\ Probe # <<>> /\ Covers(L, Probe, Len(Probe), a, a)
<1>1. PICK c \in Cmds : c = Cmd("probe", <<>>) /\ c.k = "probe"
  BY CmdIs DEF Cmd
<1>2. Holds(L, c, a, a)
  BY <1>1, SizeIs, HoldsNone
<1>3. Covers(L, <<c>>, Len(<<c>>), a, a)
  BY <1>2, CoversOne
<1>4. Probe = <<c>>
  BY <1>1 DEF Probe
<1> QED
  BY <1>3, <1>4

(* delay_ns and the waits.                                                 *)
LEMMA OrderPause ==
    ASSUME TurnInv, OrderInv, Pause
    PROVE  OrderInv'
<1>1. /\ pc = "run" /\ exec.stage = "idle" /\ at <= Len(prog) /\ Op.k \in {"delay", "wait"}
      /\ ~Due /\ UNCHANGED <<set, pass, prog, mail, pmu>>
  BY DEF Pause, Ready
<1>2. Ahead
  BY <1>1, NotLost, AheadIs
<1>3. Adds(Plain(Op.k)) /\ bus.pending = <<>> /\ bus \in BusType /\ dev \in DevType
  BY <1>1, <1>2, OpIs, DueIs DEF Ahead, Typed
<1>4. PICK c \in Cmds : c = Cmd(Op.k, <<>>) /\ c.k = Op.k
  BY <1>1, CmdIs DEF Cmd
<1>5. Size(c) = 1 /\ Nth(c, 1) = Plain(Op.k)
  BY <1>1, <1>4, SizeIs DEF Nth
<1>0. CASE ~bus.on /\ Op.k = "wait" /\ Raise /\ UNCHANGED <<bus, dev>>
  BY <1>0, <1>1, <1>3, Raises1
<1>6. CASE ~bus.on /\ ~(Op.k = "wait" /\ Raise /\ UNCHANGED <<bus, dev>>)
  <2>1. /\ bus' = bus /\ at' = at + 1 /\ dev' = Logged(dev, Op.k)
        /\ UNCHANGED <<pc, exec>>
    BY <1>6 DEF Pause, HostPause, Goes
  <2>2. /\ dev'.log = Append(dev.log, Plain(Op.k)) /\ dev'.regs = Upd(dev.regs, Plain(Op.k))
        /\ dev' \in DevType /\ dev'.base = dev.base
    BY <1>1, <1>3, <2>1, DevIs
  <2> QED
    BY <1>1, <1>2, <1>3, <1>6, <2>1, <2>2, Performs
<1>7. CASE bus.on /\ set.atomic
  <2>1. /\ bus' = [bus EXCEPT !.commands = Append(@, c)] /\ at' = at + 1
        /\ UNCHANGED <<pc, exec, dev>>
    BY <1>4, <1>7 DEF Pause, Goes
  <2>2. /\ bus'.pending = <<>> /\ bus'.commands = Append(bus.commands, c)
        /\ bus'.on = bus.on /\ bus'.can = bus.can /\ bus'.shadow = bus.shadow
        /\ bus' \in BusType
    <3>1. Append(bus.commands, c) \in Seq(Cmds)
      BY <1>2, Appended DEF Ahead
    <3> QED
      BY <1>3, <2>1, <3>1 DEF BusType
  <2>3. Queue(Asked, bus'.commands, bus'.pending, Len(dev.log), Upto(at))
    <3>1. Covers(Asked, bus.commands, Len(bus.commands), Len(dev.log), Upto(at - 1))
      BY <1>2, <1>3, QueueCovers DEF Ahead, IdleAt
    <3>2. Holds(Asked, c, Upto(at - 1), Upto(at))
      BY <1>2, <1>3, <1>5, HoldsOne DEF Ahead, Adds
    <3> QED
      BY <1>2, <2>2, <3>1, <3>2, QueueCommand DEF Ahead
  <2>4. ShadowedAt(bus', dev, at + 1)
    <3>1. Run[at].regs = Run[at - 1].regs /\ at + 1 - 1 = at
      BY <1>1, <1>2, <1>3, PlainIs DEF Adds, Upd, Ahead
    <3> QED
      BY <1>2, <1>7, <2>2, <3>1, SMTT(30) DEF Ahead, IdleAt, ShadowedAt
  <2> QED
    BY <1>1, <1>2, <1>7, <2>1, <2>2, <2>3, <2>4, Queues
<1>8. CASE bus.on /\ ~set.atomic
  <2>1. Do(<<c>>, "pause") /\ UNCHANGED <<pc, bus, at, dev>>
    BY <1>4, <1>8 DEF Pause
  <2>2. bus.commands = <<>>
    BY <1>2, <1>8 DEF Ahead, Buffers, BuffersAt
  <2>3. Covers(Asked, <<c>>, Len(<<c>>), Len(dev.log), Upto(at))
    BY <1>2, <1>3, <1>5, <2>2, OneEvent
  <2>4. Fits'
    BY <1>1, <1>8, <2>1 DEF Fits, Do, Op
  <2>5. <<c>> \in Seq(Cmds) /\ <<c>> # <<>>
    OBVIOUS
  <2>6. BuffersAt(bus', at) /\ PausingAt(bus', at)
    BY <1>2, <2>1 DEF Ahead, Buffers, Pausing
  <2> QED
    BY <1>1, <1>3, <2>1, <2>2, <2>3, <2>4, <2>5, <2>6, Begins DEF OfOp, Quiet
<1> QED
  BY <1>0, <1>6, <1>7, <1>8

(* ram_block and ram_unblock.                                              *)
LEMMA OrderBlock ==
    ASSUME TurnInv, OrderInv, Block
    PROVE  OrderInv'
<1>1. /\ pc = "run" /\ exec.stage = "idle" /\ at <= Len(prog) /\ Op.k \in {"block", "unblock"}
      /\ ~Due /\ UNCHANGED <<set, pass, prog, mail, pmu, dev>>
  BY DEF Block, Ready
<1>2. Ahead /\ set \in Setting
  BY <1>1, NotLost, AheadIs DEF TurnInv, Shapes
<1>3. bus \in BusType /\ dev \in DevType /\ at \in 1 .. Len(prog)
  BY <1>2 DEF Ahead, Typed
<1>4. PICK k : k = IF Op.k = "block" THEN "enter" ELSE "leave"
  OBVIOUS
<1>5. PICK c \in Cmds : c = Cmd(k, <<>>) /\ c.k = k
  BY <1>4, CmdIs DEF Cmd
<1>6. Size(c) = 1 /\ Nth(c, 1) = Plain(k)
  BY <1>4, <1>5, SizeIs DEF Nth
<1>7. set.block # "0" => Adds(Plain(k))
  BY <1>1, <1>2, <1>4, OpIs DEF Ahead
<1>8. CASE set.block = "0"
  <2>1. bus' = bus /\ at' = at + 1 /\ UNCHANGED <<pc, exec>>
    BY <1>8 DEF Block, Goes
  <2>2. Silent
    BY <1>1, <1>2, <1>8, OpIs DEF Ahead
  <2>3. at' - 1 = at /\ at' \in 1 .. Len(prog) + 1
    BY <1>2, <2>1 DEF Ahead
  <2>4. IdleAt(bus', dev', at')
    BY <1>1, <1>2, <2>1, <2>2, <2>3 DEF Ahead, IdleAt, ShadowedAt, Silent
  <2>5. BuffersAt(bus', at') /\ PausingAt(bus', at')
    BY <1>1, <1>2, <1>8, <2>1, <2>3 DEF Ahead, Buffers, BuffersAt, PausingAt, Op
  <2>6. \E n \in 0 .. Len(prog) : dev'.log = Run[n].log /\ dev'.regs = Run[n].regs
    BY <1>1, <1>2 DEF Ahead, Conforms
  <2> QED
    BY <1>1, <1>3, <2>1, <2>3, <2>4, <2>5, <2>6, Moves
<1>9. CASE set.block = "enter"
  <2>1. Do(<<c>>, "block") /\ UNCHANGED <<pc, bus, at>>
    BY <1>4, <1>5, <1>9 DEF Block
  <2>2. bus.commands = <<>> /\ bus.pending = <<>>
    BY <1>1, <1>2, <1>9, DueIs DEF Ahead, Buffers, BuffersAt, Typed, Pauses
  <2>3. Covers(Asked, <<c>>, Len(<<c>>), Len(dev.log), Upto(at))
    BY <1>2, <1>6, <1>7, <1>9, <2>2, OneEvent
  <2>4. Fits'
    BY <1>1, <1>9, <2>1 DEF Fits, Do, Op
  <2>5. <<c>> \in Seq(Cmds) /\ <<c>> # <<>>
    OBVIOUS
  <2>6. BuffersAt(bus', at) /\ PausingAt(bus', at)
    BY <1>2, <2>1 DEF Ahead, Buffers, Pausing
  <2> QED
    BY <1>1, <1>3, <2>1, <2>2, <2>3, <2>4, <2>5, <2>6, Begins DEF OfOp, Quiet
<1>10. CASE set.block \notin {"0", "enter"} /\ ~(set.atomic /\ bus.on)
  <2>1. Raise /\ UNCHANGED bus
    BY <1>10 DEF Block
  <2> QED
    BY <1>1, <1>3, <2>1, Raises1
<1>11. CASE set.block \notin {"0", "enter"} /\ set.atomic /\ bus.on
  <2>0. set.block = "atomic" /\ bus.pending = <<>>
    <3>1. set.block = "atomic"
      BY <1>2, <1>11 DEF Setting
    <3> QED
      BY <1>1, <1>2, <1>11, <3>1, DueIs DEF Ahead, Pauses
  <2>1. /\ bus' = [bus EXCEPT !.commands = Append(@, c)] /\ at' = at + 1
        /\ UNCHANGED <<pc, exec>>
    BY <1>4, <1>5, <1>11 DEF Block, Goes
  <2>2. /\ bus'.pending = <<>> /\ bus'.commands = Append(bus.commands, c)
        /\ bus'.on = bus.on /\ bus'.can = bus.can /\ bus'.shadow = bus.shadow
        /\ bus' \in BusType
    <3>1. Append(bus.commands, c) \in Seq(Cmds)
      BY <1>2, Appended DEF Ahead
    <3> QED
      BY <1>3, <2>0, <2>1, <3>1 DEF BusType
  <2>3. Queue(Asked, bus'.commands, bus'.pending, Len(dev.log), Upto(at))
    <3>1. Covers(Asked, bus.commands, Len(bus.commands), Len(dev.log), Upto(at - 1))
      BY <1>2, <2>0, QueueCovers DEF Ahead, IdleAt
    <3>2. Holds(Asked, c, Upto(at - 1), Upto(at))
      BY <1>2, <1>6, <1>7, <1>11, HoldsOne DEF Ahead, Adds
    <3> QED
      BY <1>2, <2>2, <3>1, <3>2, QueueCommand DEF Ahead
  <2>4. ShadowedAt(bus', dev, at + 1)
    <3>1. Run[at].regs = Run[at - 1].regs /\ at + 1 - 1 = at
      BY <1>2, <1>4, <1>7, <1>11, PlainIs DEF Adds, Upd, Ahead
    <3> QED
      BY <1>2, <1>11, <2>2, <3>1, SMTT(30) DEF Ahead, IdleAt, ShadowedAt
  <2> QED
    BY <1>1, <1>2, <1>11, <2>1, <2>2, <2>3, <2>4, Queues
<1> QED
  BY <1>8, <1>9, <1>10, <1>11

-----------------------------------------------------------------------------
(* A program begins.                                                       *)
Fresh ==
    /\ pc = "run" /\ at = 1 /\ bus = FreshBus
    /\ exec.stage = "idle" /\ exec.script \in Seq(Cmds) /\ exec.to \in Nat
    /\ \E last : prog \in Programs(set, last)
    /\ set.block = "enter" => ~set.atomic /\ ~set.wait
    /\ dev \in DevType /\ dev.log = <<>> /\ dev.base = dev.regs
    /\ ~pmu.wedged => mail.calls = <<>> /\ ~pmu.on
    /\ mail.seg \in Seq(Cmds) /\ mail.calls \in Seq(Calls) /\ mail.sent \in Nat
    /\ pmu.len \in Nat /\ pmu.cmd \in Nat /\ pmu.pair \in Nat

(* A program that begins satisfies the invariant.                          *)
LEMMA FreshIs == Fresh => OrderInv
<1> SUFFICES ASSUME Fresh PROVE OrderInv
  OBVIOUS
<1>1. PICK last : prog \in Programs(set, last)
  BY DEF Fresh
<1>2. PICK f, u : Shape(prog, f, u)
  BY <1>1, ProgramShape
<1>3. Len(prog) \in Nat /\ f \in 2 .. Len(prog) /\ 1 \in 1 .. Len(prog) + 1
  BY <1>2 DEF Shape
<1>4. /\ bus.on = FALSE /\ bus.can = TRUE /\ bus.pending = <<>> /\ bus.commands = <<>>
      /\ bus \in BusType
  <2>1. <<>> \in Seq(Pairs) /\ <<>> \in Seq(Cmds)
    OBVIOUS
  <2> QED
    BY <2>1 DEF Fresh, FreshBus, BusType
<1>5. exec.stage = "idle" /\ exec.script \in Seq(Cmds) /\ exec.to \in Nat
  BY DEF Fresh
<1>6. Typed
  BY <1>1, <1>3, <1>4, <1>5 DEF Fresh, Typed
<1>7. Run[0] = [regs |-> dev.base, log |-> <<>>] /\ Len(Asked) \in Nat
  BY <1>6, RunIs
<1>8. Run[0].regs = dev.regs /\ Run[0].log = <<>> /\ 0 \in 0 .. Len(prog) /\ dev.log = <<>>
  BY <1>3, <1>7 DEF Fresh
<1>9. Conforms
  BY <1>8 DEF Conforms
<1>10. Machine
  BY DEF Fresh, Machine, OneCall, Working
<1>11. Filling
  BY <1>5 DEF Filling
<1>12. Buffers /\ Pausing
  <2>1. at = 1 /\ ~(1 = f) /\ ~(1 \in f + 1 .. u)
    BY <1>2, <1>3 DEF Fresh
  <2>2. PausesAt(bus, at, f, u)
    BY <1>4, <2>1 DEF PausesAt
  <2> QED
    BY <1>2, <1>4, <2>2 DEF Buffers, BuffersAt, Pausing, PausingAt
<1>13. IdleAt(bus, dev, at)
  <2>1. Len(dev.log) = 0 /\ Upto(at - 1) = 0
    BY <1>8 DEF Upto, Fresh
  <2>2. Queue(Asked, <<>>, <<>>, 0, 0)
    BY <1>7, QueueNone
  <2> QED
    BY <1>4, <2>1, <2>2 DEF IdleAt
<1>14. Hosts
  BY <1>5, <1>12, <1>13 DEF Fresh, Hosts, Idle, Busy
<1> QED
  BY <1>6, <1>9, <1>10, <1>11, <1>14 DEF OrderInv

(* The end of a program, or of its first pass.                             *)
LEMMA OrderPassDone ==
    ASSUME TurnInv, OrderInv, PassDone
    PROVE  OrderInv'
<1>1. /\ pc = "run" /\ exec.stage = "idle" /\ at > Len(prog)
      /\ UNCHANGED <<set, exec, mail, pmu>>
  BY DEF PassDone
<1>2. /\ Typed /\ Conforms /\ Buffers /\ IdleAt(bus, dev, at)
  BY <1>1, NotLost DEF OrderInv, Hosts, Idle
<1>3. Len(prog) \in Nat /\ at = Len(prog) + 1 /\ \E f, u : Shape(prog, f, u)
  BY <1>1, <1>2, ProgIs DEF Typed
<1>4. ~pmu.wedged => mail.calls = <<>> /\ ~pmu.on
  BY <1>1, Resting
<1>5. CASE pass = set.passes
  <2>1. pc' = "done" /\ UNCHANGED <<pass, prog, at, bus, dev>>
    BY <1>5 DEF PassDone
  <2>2. ~bus.on
    <3>1. prog[at - 1].k \in {"stop", "ensure", "store"}
      BY <1>3 DEF Shape
    <3> QED
      BY <1>2, <3>1 DEF Buffers, BuffersAt
  <2>3. Queue(Asked, <<>>, <<>>, Len(dev.log), Upto(at - 1))
    BY <1>2, <2>2 DEF Buffers, BuffersAt, IdleAt
  <2>4. Upto(at - 1) = Len(Asked) /\ Len(Asked) \in Nat
    BY <1>2, <1>3, RunIs DEF Upto
  <2>5. dev.log = Asked
    BY <1>2, <2>3, <2>4, QueueEmpty, Seen
  <2>6. Asked' = Asked
    BY <1>1, <2>1, SameRun
  <2>7. Typed'
    BY <1>1, <1>2, <2>1 DEF Typed
  <2>8. Conforms'
    BY <1>1, <1>2, <2>1, SameConforms
  <2>9. Machine' /\ Filling' /\ Hosts'
    BY <1>1, <1>4, <2>1, <2>5, <2>6 DEF Machine, OneCall, Working, Filling, Hosts
  <2> QED
    BY <2>7, <2>8, <2>9 DEF OrderInv
<1>6. CASE pass # set.passes
  <2>1. /\ at' = 1 /\ bus' = FreshBus /\ prog' \in Programs(set, TRUE) /\ UNCHANGED pc
        /\ dev' = [dev EXCEPT !.log = <<>>, !.base = dev.regs]
    BY <1>6 DEF PassDone
  <2>2. dev' \in DevType /\ dev'.log = <<>> /\ dev'.base = dev'.regs
    <3>1. <<>> \in Seq(Happening)
      OBVIOUS
    <3> QED
      BY <1>2, <2>1, <3>1 DEF Typed, DevType
  <2>3. exec' = exec
    BY <1>1
  <2>4. \E last : prog' \in Programs(set', last)
    BY <1>1, <2>1
  <2>5. Fresh'
    BY <1>1, <1>2, <1>4, <2>1, <2>2, <2>4 DEF Fresh, Typed
  <2> QED
    BY <2>5, FreshIs, PTL
<1> QED
  BY <1>5, <1>6

-----------------------------------------------------------------------------
(* start_memx_buffer, stop_memx_buffer and the words after the program.    *)

(* Where a program may begin to buffer.                                    *)
LEMMA StartWhere ==
    ASSUME Typed, Buffers, at <= Len(prog),
           Op.k \in {"check", "start", "restart", "start2"}
    PROVE  /\ Op.k # "restart" => ~bus.on
           /\ \A f, u : Shape(prog, f, u) /\ Op.k # "start2" => at + 1 <= f
           /\ at + 1 # 1 /\ at + 1 - 1 = at /\ at + 1 \in 1 .. Len(prog) + 1
           /\ Silent
<1>1. at \in 1 .. Len(prog) /\ Len(prog) \in Nat /\ Silent
  BY OpIs, ProgIs
<1>2. PICK f, u : Shape(prog, f, u)
  BY ProgIs
<1>3. Op.k \in {"check", "start"} => at = 1
  BY <1>1, <1>2 DEF Shape, Op
<1>4. Op.k = "start2" => prog[at - 1].k = "stop"
  BY <1>1, <1>2 DEF Shape, Op
<1>5. Op.k # "restart" => ~bus.on
  BY <1>3, <1>4 DEF Buffers, BuffersAt
<1>6. ASSUME NEW g, NEW h, Shape(prog, g, h), Op.k # "start2" PROVE at + 1 <= g
  <2>1. g \in 2 .. Len(prog)
    BY <1>6 DEF Shape
  <2>2. CASE Op.k \in {"check", "start"}
    BY <1>3, <2>1, <2>2
  <2>3. CASE Op.k = "restart"
    <3>1. at = g - 1
      BY <1>1, <1>6, <2>3 DEF Shape, Op
    <3> QED
      BY <1>1, <2>1, <3>1
  <2> QED
    BY <1>6, <2>2, <2>3
<1> QED
  BY <1>1, <1>5, <1>6

(* The program goes on unbuffered where the firmware is dead.              *)
LEMMA Unbuffered ==
    ASSUME Typed, Buffers, Pausing, at <= Len(prog), Op.k \in {"check", "start", "restart"},
           ~bus.on, bus' = [bus EXCEPT !.can = FALSE], ~bus.can \/ pmu.wedged
    PROVE  /\ bus' \in BusType /\ bus'.on = FALSE
           /\ bus'.pending = <<>> /\ bus'.commands = <<>>
           /\ BuffersAt(bus', at + 1) /\ PausingAt(bus', at + 1)
<1>1. /\ bus' \in BusType /\ bus'.on = FALSE /\ bus'.pending = <<>> /\ bus'.commands = <<>>
  BY DEF Typed, BusType, Buffers, BuffersAt
<1>2. BuffersAt(bus', at + 1)
  BY <1>1 DEF BuffersAt
<1>3. PausingAt(bus', at + 1)
  <2> SUFFICES ASSUME set.block = "enter"
               PROVE  \E f, u : Shape(prog, f, u) /\ PausesAt(bus', at + 1, f, u)
    BY DEF PausingAt
  <2>1. PICK f, u : Shape(prog, f, u) /\ PausesAt(bus, at, f, u)
    BY DEF Pausing, PausingAt
  <2>2. at + 1 <= f /\ f \in Nat /\ at \in Nat
    <3>1. f \in 2 .. Len(prog) /\ Len(prog) \in Nat /\ at \in Nat
      BY <2>1, ProgIs DEF Shape, Typed
    <3>2. at + 1 <= f
      BY <2>1, StartWhere
    <3> QED
      BY <3>1, <3>2
  <2>3. pmu.wedged
    BY <2>1, <2>2 DEF PausesAt
  <2>4. ~(at + 1 \in f + 1 .. u)
    BY <2>2
  <2>5. PausesAt(bus', at + 1, f, u)
    BY <2>3, <2>4 DEF PausesAt
  <2> QED
    BY <2>1, <2>5
<1> QED
  BY <1>1, <1>2, <1>3

(* start_memx_buffer.                                                      *)
LEMMA OrderStart ==
    ASSUME TurnInv, OrderInv, Start
    PROVE  OrderInv'
<1>1. /\ pc = "run" /\ exec.stage = "idle" /\ at <= Len(prog)
      /\ Op.k \in {"check", "start", "restart", "start2"}
      /\ UNCHANGED <<set, pass, prog, mail, pmu, dev>>
  BY DEF Start, Ready
<1>2. Ahead
  BY <1>1, NotLost, AheadIs
<1>3. bus \in BusType /\ dev \in DevType /\ Silent /\ at \in 1 .. Len(prog)
  BY <1>1, <1>2, OpIs DEF Ahead, Typed
<1>4. /\ Op.k # "restart" => ~bus.on
      /\ at + 1 # 1 /\ at + 1 - 1 = at /\ at + 1 \in 1 .. Len(prog) + 1
  BY <1>1, <1>2, StartWhere DEF Ahead
<1>5. \E n \in 0 .. Len(prog) : dev'.log = Run[n].log /\ dev'.regs = Run[n].regs
  BY <1>1, <1>2 DEF Ahead, Conforms
<1>6. CASE (Op.k = "check" /\ bus.can) \/ (Op.k = "restart" /\ bus.on)
  <2>1. bus' = bus /\ at' = at + 1 /\ UNCHANGED <<pc, exec>>
    BY <1>6 DEF Start, Goes
  <2>2. IdleAt(bus', dev', at')
    BY <1>1, <1>2, <1>3, <1>4, <2>1 DEF Ahead, IdleAt, ShadowedAt, Silent
  <2>3. BuffersAt(bus', at')
    BY <1>1, <1>2, <1>4, <2>1 DEF Ahead, Buffers, BuffersAt, Op
  <2>4. PausingAt(bus', at')
    <3>1. CASE Op.k = "check"
      BY <1>2, <2>1, <3>1, PauseKept DEF Ahead
    <3>2. CASE Op.k = "restart" /\ bus.on
      <4> SUFFICES ASSUME set.block = "enter"
                   PROVE  \E f, u : Shape(prog, f, u) /\ PausesAt(bus', at + 1, f, u)
        BY <2>1 DEF PausingAt
      <4>1. PICK f, u : Shape(prog, f, u) /\ PausesAt(bus, at, f, u)
        BY <1>2 DEF Ahead, Pausing, PausingAt
      <4>2. at + 1 <= f /\ at <= f
        <5>1. f \in 2 .. Len(prog) /\ Len(prog) \in Nat /\ at \in Nat
          BY <1>2, <4>1 DEF Shape, Ahead
        <5>2. at + 1 <= f
          BY <1>1, <1>2, <3>2, <4>1, StartWhere DEF Ahead
        <5> QED
          BY <5>1, <5>2
      <4>3. PausesAt(bus', at + 1, f, u)
        BY <2>1, <3>2, <4>1, <4>2 DEF PausesAt
      <4> QED
        BY <4>1, <4>3
    <3> QED
      BY <1>6, <3>1, <3>2
  <2> QED
    BY <1>1, <1>3, <1>4, <1>5, <2>1, <2>2, <2>3, <2>4, Moves
<1> DEFINE goes == (Op.k = "check" /\ bus.can) \/ (Op.k = "restart" /\ bus.on)
<1>7. ASSUME ~goes
      PROVE  /\ ~bus.on /\ bus.pending = <<>> /\ bus.commands = <<>>
             /\ Len(dev.log) = Upto(at - 1) /\ Upto(at - 1) <= Len(Asked)
  <2>1. ~bus.on /\ bus.pending = <<>> /\ bus.commands = <<>>
    BY <1>1, <1>2, <1>4, <1>7 DEF Ahead, Buffers, BuffersAt
  <2>2. at - 1 \in 0 .. Len(prog)
    BY <1>3
  <2> QED
    BY <1>2, <2>1, <2>2, Drained, RunIs DEF Ahead
<1>8. CASE ~goes /\ bus.can
  <2>1. Do(Probe, "smoke") /\ UNCHANGED <<pc, bus, at>>
    BY <1>8 DEF Start
  <2>2. /\ Probe \in Seq(Cmds) /\ Probe # <<>>
        /\ Covers(Asked, Probe, Len(Probe), Len(dev.log), Upto(at - 1))
    BY <1>2, <1>7, <1>8, ProbeIs DEF Ahead
  <2>3. Fits'
    BY <1>1, <1>7, <1>8, <2>1 DEF Fits, Do, Op
  <2>4. BuffersAt(bus', at) /\ PausingAt(bus', at)
    BY <1>2, <2>1 DEF Ahead, Buffers, Pausing
  <2> QED
    BY <1>1, <1>3, <1>7, <1>8, <2>1, <2>2, <2>3, <2>4, Begins DEF OfOp, Quiet
<1>9. CASE ~goes /\ ~bus.can
  <2>1. CannotStart
    BY <1>9 DEF Start
  <2>2. bus' = [bus EXCEPT !.can = FALSE]
    BY <2>1 DEF CannotStart, Goes
  <2>3. CASE set.require \/ Op.k = "start2"
    <3>1. Raise
      BY <2>1, <2>3 DEF CannotStart
    <3>2. bus' \in BusType
      BY <1>3, <2>2 DEF BusType
    <3> QED
      BY <1>1, <1>3, <3>1, <3>2, Raises1
  <2>4. CASE ~(set.require \/ Op.k = "start2")
    <3>1. at' = at + 1 /\ exec' = NoExec /\ UNCHANGED pc
      BY <2>1, <2>4 DEF CannotStart, Goes
    <3>2. /\ bus' \in BusType /\ bus'.on = FALSE
          /\ bus'.pending = <<>> /\ bus'.commands = <<>>
          /\ BuffersAt(bus', at + 1) /\ PausingAt(bus', at + 1)
      BY <1>1, <1>2, <1>7, <1>9, <2>2, <2>4, Unbuffered DEF Ahead
    <3> QED
      BY <1>1, <1>2, <1>3, <1>7, <1>9, <3>1, <3>2, Passes
  <2> QED
    BY <2>3, <2>4
<1> QED
  BY <1>6, <1>8, <1>9

(* The bus when buffering stops.                                           *)
LEMMA StoppedIs ==
    ASSUME bus \in BusType
    PROVE  /\ Stopped \in BusType /\ Stopped.on = FALSE /\ Stopped.commands = <<>>
           /\ Stopped.pending = bus.pending /\ Stopped.can = bus.can
<1>1. <<>> \in Seq(Cmds) /\ [r \in Regs |-> Nothing] \in [Regs -> Values \cup {Nothing}]
      /\ bus.shadow \in [Regs -> Values \cup {Nothing}]
  BY DEF BusType
<1>2. PICK sh \in [Regs -> Values \cup {Nothing}] :
        sh = IF bus.commands # <<>> THEN [r \in Regs |-> Nothing] ELSE bus.shadow
  BY <1>1
<1>3. Stopped = [bus EXCEPT !.on = FALSE, !.commands = <<>>, !.shadow = sh]
  BY <1>2 DEF Stopped
<1> QED
  BY <1>1, <1>3 DEF BusType

(* Past a stop the bus is off; the pause is over.                          *)
LEMMA PausedOver ==
    ASSUME Typed, at <= Len(prog), Op.k \in {"start2", "stop", "ensure", "store"}
    PROVE  /\ \A b : PausingAt(b, at + 1) /\ PausingAt(b, at)
           /\ at + 1 - 1 = at /\ at + 1 # 1 /\ at + 1 \in 1 .. Len(prog) + 1
<1>1. PICK f, u : Shape(prog, f, u)
  BY ProgIs
<1>2. at \in 1 .. Len(prog) /\ Len(prog) \in Nat
  BY OpIs, ProgIs
<1>3. at > u /\ u > f /\ u \in Nat /\ f \in Nat
  BY <1>1, <1>2 DEF Shape, Op
<1>4. ASSUME NEW b PROVE PausesAt(b, at + 1, f, u) /\ PausesAt(b, at, f, u)
  BY <1>2, <1>3 DEF PausesAt
<1> QED
  BY <1>1, <1>2, <1>4 DEF PausingAt

(* stop_memx_buffer.                                                       *)
LEMMA OrderStop ==
    ASSUME TurnInv, OrderInv, Stop
    PROVE  OrderInv'
<1>1. /\ pc = "run" /\ exec.stage = "idle" /\ at <= Len(prog) /\ Op.k = "stop" /\ ~Due
      /\ UNCHANGED <<set, pass, prog, mail, pmu, dev>>
  BY DEF Stop, Ready
<1>2. Ahead
  BY <1>1, NotLost, AheadIs
<1>3. bus \in BusType /\ dev \in DevType /\ Silent /\ bus.pending = <<>>
  BY <1>1, <1>2, OpIs, DueIs DEF Ahead, Typed
<1>4. /\ \A b : PausingAt(b, at + 1) /\ PausingAt(b, at)
      /\ at + 1 - 1 = at /\ at + 1 # 1
  BY <1>1, <1>2, PausedOver DEF Ahead
<1>5. CASE bus.commands = <<>>
  <2>1. bus' = Stopped /\ at' = at + 1 /\ UNCHANGED <<pc, exec>>
    BY <1>5 DEF Stop, Goes
  <2>2. /\ bus' \in BusType /\ bus'.on = FALSE /\ bus'.commands = <<>> /\ bus'.pending = <<>>
    BY <1>3, <2>1, StoppedIs
  <2>3. BuffersAt(bus', at + 1)
    BY <2>2 DEF BuffersAt
  <2> QED
    BY <1>1, <1>2, <1>3, <1>4, <1>5, <2>1, <2>2, <2>3, Passes
<1>6. CASE bus.commands # <<>> /\ Words(bus.commands) > Capacity
  <2>1. Raise /\ UNCHANGED bus
    BY <1>6 DEF Stop
  <2> QED
    BY <1>1, <1>3, <2>1, Raises1
<1>7. CASE bus.commands # <<>> /\ ~(Words(bus.commands) > Capacity)
  <2>1. Do(bus.commands, "run") /\ UNCHANGED <<pc, bus, at>>
    BY <1>7 DEF Stop
  <2>2. bus.on /\ set.atomic
    BY <1>2, <1>7 DEF Ahead, Buffers, BuffersAt
  <2>3. Fits'
    BY <1>1, <2>1, <2>2 DEF Fits, Do, Op
  <2>4. Covers(Asked, bus.commands, Len(bus.commands), Len(dev.log), Upto(at - 1))
    BY <1>2, <1>3, QueueCovers DEF Ahead, IdleAt
  <2>5. BuffersAt(bus', at) /\ PausingAt(bus', at)
    BY <1>2, <2>1 DEF Ahead, Buffers, Pausing
  <2>6. bus.commands \in Seq(Cmds)
    BY <1>2 DEF Ahead
  <2> QED
    BY <1>1, <1>3, <1>7, <2>1, <2>3, <2>4, <2>5, <2>6, Begins DEF OfOp, Quiet
<1> QED
  BY <1>5, <1>6, <1>7

(* _gk104_pramin_write_memx.                                               *)
LEMMA OrderPramin ==
    ASSUME TurnInv, OrderInv, Pramin
    PROVE  OrderInv'
<1>1. /\ pc = "run" /\ exec.stage = "idle" /\ at <= Len(prog) /\ Op.k \in {"ensure", "store"}
      /\ UNCHANGED <<set, pc, pass, prog, at, bus, mail, pmu, dev>>
  BY DEF Pramin, Ready
<1>2. Ahead
  BY <1>1, NotLost, AheadIs
<1>3. bus \in BusType /\ dev \in DevType /\ BuffersAt(bus', at) /\ PausingAt(bus', at)
  BY <1>1, <1>2 DEF Ahead, Typed, Buffers, Pausing
<1>4. ~bus.on /\ bus.pending = <<>> /\ bus.commands = <<>>
  <2>1. PICK f, u : Shape(prog, f, u)
    BY <1>2, ProgIs DEF Ahead
  <2>2. prog[at - 1].k \in {"stop", "ensure", "store"}
    BY <1>1, <1>2, <2>1 DEF Shape, Op, Ahead
  <2> QED
    BY <1>2, <2>2 DEF Ahead, Buffers, BuffersAt
<1>5. Len(dev.log) = Upto(at - 1) /\ Upto(at - 1) <= Len(Asked)
  <2>1. at - 1 \in 0 .. Len(prog)
    BY <1>2 DEF Ahead
  <2> QED
    BY <1>2, <1>4, <2>1, Drained, RunIs DEF Ahead
<1>6. CASE Op.k = "ensure"
  <2>1. Do(Probe, "ensure")
    BY <1>6 DEF Pramin
  <2>2. /\ Probe \in Seq(Cmds) /\ Probe # <<>>
        /\ Covers(Asked, Probe, Len(Probe), Len(dev.log), Upto(at - 1))
    BY <1>2, <1>5, ProbeIs DEF Ahead
  <2>3. Fits'
    BY <1>1, <1>6, <2>1 DEF Fits, Do, Op
  <2> QED
    BY <1>1, <1>3, <1>4, <1>5, <2>1, <2>2, <2>3, Begins DEF OfOp, Quiet
<1>7. CASE Op.k = "store"
  <2>1. Op.reg \in Regs /\ Op.val \in Values /\ Adds(O("wr", Op.reg, Op.val))
    BY <1>2, <1>7, OpIs DEF Ahead, AnyOp
  <2>2. PICK c : c = Cmd("wr", <<<<Op.reg, Op.val>>>>)
    OBVIOUS
  <2>3. c \in Cmds /\ Size(c) = 1 /\ Nth(c, 1) = O("wr", Op.reg, Op.val)
    <3>1. PICK q \in Pairs : q = <<Op.reg, Op.val>>
      BY <2>1 DEF Pairs
    <3>2. <<q>> \in Seq(Pairs)
      OBVIOUS
    <3> QED
      BY <2>2, <3>1, <3>2, CmdIs, WritesOne
  <2>4. Do(<<c>>, "store")
    BY <1>7, <2>2 DEF Pramin
  <2>5. Covers(Asked, <<c>>, Len(<<c>>), Len(dev.log), Upto(at))
    BY <1>2, <1>4, <2>1, <2>3, OneEvent
  <2>6. <<c>> \in Seq(Cmds) /\ <<c>> # <<>>
    BY <2>3
  <2>7. Fits'
    BY <1>1, <1>7, <2>4 DEF Fits, Do, Op
  <2> QED
    BY <1>1, <1>3, <1>4, <2>4, <2>5, <2>6, <2>7, Begins DEF OfOp, Quiet
<1> QED
  BY <1>1, <1>6, <1>7

-----------------------------------------------------------------------------
(* The command in flight.                                                  *)

(* A program that is lost, or in a command, keeps to where it is.          *)
LEMMA OrderFill ==
    ASSUME TurnInv, OrderInv, Fill
    PROVE  OrderInv'
<1>1. exec.stage = "seg" /\ UNCHANGED <<set, pc, pass, prog, at, bus, pmu, dev>>
  BY DEF Fill
<1>2. /\ Typed /\ Conforms /\ exec.to \in 1 .. Len(exec.script) /\ Same(exec.to - 1)
      /\ exec.script \in Seq(Cmds) /\ mail.seg \in Seq(Cmds)
      /\ mail.calls \in Seq(Calls) /\ mail.sent \in Nat
  BY <1>1 DEF OrderInv, Filling, Typed
<1>3. PICK i, n, s, t : i = exec.to /\ n = Len(exec.script) /\ s = mail.seg /\ t = exec.script
  OBVIOUS
<1>4. PICK c \in Cmds : c = t[i]
  BY <1>2, <1>3, ElementOfSeq
<1>5. /\ i \in 1 .. n /\ n \in Nat /\ s \in Seq(Cmds) /\ Len(s) \in Nat /\ i - 1 <= Len(s)
      /\ \A j \in 1 .. i - 1 : s[j] = t[j]
  BY <1>2, <1>3 DEF Same
<1>6. PICK seg : seg = IF i <= Len(s) THEN [s EXCEPT ![i] = c] ELSE Append(s, c)
  OBVIOUS
<1>7. seg \in Seq(Cmds) /\ i <= Len(seg) /\ \A j \in 1 .. i : seg[j] = t[j]
  <2>1. CASE i <= Len(s)
    <3>1. seg = [s EXCEPT ![i] = c] /\ Len(seg) = Len(s) /\ seg \in Seq(Cmds)
      BY <1>5, <1>6, <2>1
    <3> QED
      BY <1>4, <1>5, <2>1, <3>1
  <2>2. CASE ~(i <= Len(s))
    <3>1. seg = Append(s, c) /\ i = Len(s) + 1
      BY <1>5, <1>6, <2>2
    <3>2. /\ seg \in Seq(Cmds) /\ Len(seg) = Len(s) + 1 /\ seg[Len(s) + 1] = c
          /\ \A j \in 1 .. Len(s) : seg[j] = s[j]
      BY <1>5, <3>1, Appended
    <3> QED
      BY <1>4, <1>5, <3>1, <3>2
  <2> QED
    BY <2>1, <2>2
<1>8. mail' = [mail EXCEPT !.seg = seg]
  BY <1>3, <1>4, <1>6 DEF Fill
<1>9. /\ mail'.seg = seg /\ mail'.calls = mail.calls /\ mail'.sent = mail.sent
      /\ mail'.replies = mail.replies
  BY <1>8 DEF TurnInv, Shapes
<1>10. /\ exec'.kind = exec.kind /\ exec'.script = exec.script
       /\ \/ i = n /\ exec'.stage = "push" /\ exec'.to = i
          \/ i # n /\ exec'.stage = "seg" /\ exec'.to = i + 1
  BY <1>1, <1>3 DEF Fill, TurnInv, Shapes
<1>11. Run' = Run /\ Asked' = Asked /\ \A m : Upto(m)' = Upto(m)
  BY <1>1, SameRun
<1>12. Typed'
  BY <1>1, <1>2, <1>3, <1>5, <1>7, <1>9, <1>10 DEF Typed
<1>13. Conforms'
  BY <1>1, <1>2, SameConforms
<1>14. ~pmu.wedged => mail.calls = <<>> /\ ~pmu.on
  BY <1>1 DEF TurnInv, Turns, AtRest, NoCalls
<1>15. Machine'
  BY <1>1, <1>9, <1>14 DEF Machine, OneCall, Working
<1>16. Filling'
  <2>1. i + 1 - 1 = i
    BY <1>5
  <2> QED
    BY <1>3, <1>5, <1>7, <1>9, <1>10, <2>1 DEF Filling, Same
<1>17. Hosts'
  <2>1. End' = End
    BY <1>1, <1>10, <1>11 DEF End
  <2>2. exec'.stage \in {"seg", "push"}
    BY <1>10
  <2>3. Buffers' = Buffers /\ Pausing' = Pausing
    BY <1>1 DEF Buffers, BuffersAt, Pausing, PausingAt, PausesAt
  <2>4. Lost => Lost'
    BY <1>1, <1>10, <2>2 DEF Lost, LostAt
  <2>5. Busy => Busy'
    BY <1>1, <1>10, <1>11, <2>1, <2>2 DEF Busy, Fits, Op
  <2>6. Idle'
    BY <2>2 DEF Idle
  <2> QED
    BY <1>1, <1>10, <2>2, <2>3, <2>4, <2>5, <2>6 DEF OrderInv, Hosts
<1> QED
  BY <1>12, <1>13, <1>15, <1>16, <1>17 DEF OrderInv

(* The script is announced in the command ring.                            *)
LEMMA OrderPush ==
    ASSUME TurnInv, OrderInv, Push
    PROVE  OrderInv'
<1>1. exec.stage = "push" /\ UNCHANGED <<set, pc, pass, prog, at, bus, pmu, dev>>
  BY DEF Push
<1>2. /\ Typed /\ Conforms /\ Same(Len(exec.script))
      /\ exec.script \in Seq(Cmds) /\ mail.seg \in Seq(Cmds)
      /\ mail.calls \in Seq(Calls) /\ mail.sent \in Nat
  BY <1>1 DEF OrderInv, Filling, Typed
<1>3. PICK n \in Nat : n = Len(exec.script)
  BY <1>2
<1>4. PICK c \in Calls : c = [id |-> mail.sent + 1, msg |-> Msg, len |-> n]
  <2>1. PICK x, y : x = mail.sent + 1 /\ y = Msg
    OBVIOUS
  <2>2. x \in Nat /\ y \in {"EXEC", "INFO"}
    BY <1>2, <2>1 DEF Msg
  <2>3. [id |-> x, msg |-> y, len |-> n] \in Calls
    BY <1>3, <2>2 DEF Calls
  <2> QED
    BY <2>1, <2>3
<1>5. c.len = n
  BY <1>4
<1>6. /\ mail'.sent = mail.sent + 1 /\ mail'.calls = Append(mail.calls, c)
      /\ mail'.seg = mail.seg /\ mail'.replies = mail.replies
      /\ exec'.stage = "reply" /\ exec'.kind = exec.kind /\ exec'.script = exec.script
      /\ exec'.to = exec.to
  BY <1>3, <1>4 DEF Push, TurnInv, Shapes
<1>7. Append(mail.calls, c) \in Seq(Calls)
  BY <1>2, Appended
<1>8. Typed'
  BY <1>1, <1>2, <1>6, <1>7 DEF Typed
<1>9. Conforms'
  BY <1>1, <1>2, SameConforms
<1>10. Run' = Run /\ Asked' = Asked /\ \A m : Upto(m)' = Upto(m)
  BY <1>1, SameRun
<1>11. End' = End
  BY <1>1, <1>6, <1>10 DEF End
<1>12. pc \in {"run", "reload"} /\ (pc = "run" => at <= Len(prog))
  BY <1>1, ProgIs DEF OrderInv, Hosts, Typed, Busy, Lost, LostAt
<1>13. ~pmu.wedged => mail.calls = <<>> /\ ~pmu.on /\ mail.replies = <<>>
  BY <1>1 DEF TurnInv, Turns, AtRest, NoCalls, NoReply
<1>14. ASSUME ~pmu.wedged
       PROVE  \E pos \in Places(n) :
                /\ Tape(Asked, exec.script, n, pos) /\ pos[1] = Len(dev.log)
                /\ pc = "run" => pos[n + 1] = End
  <2>1. CASE pc = "run"
    <3>1. Covers(Asked, exec.script, n, Len(dev.log), End)
      <4>1. ~Lost
        BY <1>14 DEF Lost, LostAt
      <4> QED
        BY <1>1, <1>3, <2>1, <4>1 DEF OrderInv, Hosts, Busy
    <3> QED
      BY <3>1 DEF Covers
  <2>2. CASE pc = "reload"
    <3>1. n = 0
      BY <1>1, <1>3, <2>2 DEF OrderInv, Hosts
    <3>2. Covers(Asked, exec.script, n, Len(dev.log), Len(dev.log))
      BY <1>2, <3>1, Seen, RunIs, CoversNone
    <3> QED
      BY <2>2, <3>2 DEF Covers
  <2> QED
    BY <1>12, <2>1, <2>2
<1>15. Machine'
  <2> SUFFICES ASSUME ~pmu.wedged PROVE Machine'
    BY <1>1 DEF Machine
  <2>1. mail'.calls = <<c>> /\ Head(mail'.calls) = c /\ Len(mail'.calls) = 1 /\ ~pmu'.on
    <3>1. mail'.calls = Append(<<>>, c)
      BY <1>6, <1>13
    <3>2. Append(<<>>, c) = <<c>> /\ Head(<<c>>) = c /\ Len(<<c>>) = 1
      OBVIOUS
    <3> QED
      BY <1>1, <1>13, <3>1, <3>2
  <2>2. Job' = [len |-> n, cmd |-> 1, pair |-> 1]
    BY <1>5, <2>1 DEF Job
  <2>3. PICK pos \in Places(n) :
          /\ Tape(Asked, exec.script, n, pos) /\ pos[1] = Len(dev.log)
          /\ pc = "run" => pos[n + 1] = End
    BY <1>14
  <2>4. Tape(Asked, mail.seg, n, pos)
    BY <1>2, <1>3, <2>3, TapeSame DEF Same
  <2>5. 1 \in 1 .. n + 1 /\ Len(dev.log) = pos[1] + 1 - 1 /\ n <= Len(mail.seg)
    BY <1>2, <1>3, <2>3, Seen DEF Same
  <2>6. Executes(n, 1, 1, pos)'
    BY <1>1, <1>6, <1>10, <1>11, <2>3, <2>4, <2>5 DEF Executes
  <2> QED
    BY <1>1, <2>1, <2>2, <2>6 DEF Machine, OneCall
<1>16. Filling'
  BY <1>6 DEF Filling
<1>17. Hosts'
  <2>1. Buffers' = Buffers /\ Pausing' = Pausing
    BY <1>1 DEF Buffers, BuffersAt, Pausing, PausingAt, PausesAt
  <2>2. Lost => Lost'
    BY <1>1, <1>6 DEF Lost, LostAt
  <2>3. mail.replies = <<>>
    BY <1>1, <1>13 DEF TurnInv, Turns, NoReply
  <2>4. Busy => Busy'
    BY <1>1, <1>6, <1>10, <1>11, <2>3 DEF Busy, Fits, Op
  <2>5. Idle'
    BY <1>6 DEF Idle
  <2> QED
    BY <1>1, <1>6, <1>12, <2>1, <2>2, <2>4, <2>5 DEF OrderInv, Hosts
<1> QED
  BY <1>8, <1>9, <1>15, <1>16, <1>17 DEF OrderInv

-----------------------------------------------------------------------------
(* The firmware.                                                           *)

(* The firmware takes the announced script.                                *)
LEMMA OrderTake ==
    ASSUME TurnInv, OrderInv, Take
    PROVE  OrderInv'
<1>1. /\ ~pmu.on /\ ~pmu.wedged /\ mail.calls # <<>>
      /\ UNCHANGED <<set, pc, pass, prog, at, bus, exec, dev>>
  BY DEF Take
<1>2. Typed /\ Conforms /\ OneCall /\ mail.calls \in Seq(Calls) /\ Len(mail.calls) = 1
  BY <1>1 DEF OrderInv, Typed, Machine, OneCall
<1>3. PICK c \in Calls : c = Head(mail.calls) /\ c = mail.calls[1]
  <2>1. 1 \in 1 .. Len(mail.calls)
    BY <1>2
  <2> QED
    BY <1>2, <2>1, ElementOfSeq
<1>4. c.len \in Nat
  BY DEF Calls
<1>5. /\ pmu'.on = TRUE /\ pmu'.len = c.len /\ pmu'.cmd = 1 /\ pmu'.pair = 1
      /\ pmu'.wedged = FALSE
  BY <1>1, <1>3 DEF Take, TurnInv, Shapes
<1>6. /\ mail'.calls = <<>> /\ mail'.seg = mail.seg /\ mail'.sent = mail.sent
      /\ mail'.replies = mail.replies
  <2>1. mail' = [mail EXCEPT !.calls = Tail(@)]
    BY DEF Take
  <2>2. Tail(mail.calls) = <<>>
    <3>1. Tail(mail.calls) \in Seq(Calls) /\ Len(Tail(mail.calls)) = 0
      BY <1>1, <1>2, HeadTailProperties
    <3> QED
      BY <3>1, EmptySeq
  <2> QED
    BY <2>1, <2>2 DEF TurnInv, Shapes
<1>7. Run' = Run /\ Asked' = Asked /\ \A m : Upto(m)' = Upto(m)
  BY <1>1, SameRun
<1>8. Typed'
  <2>1. <<>> \in Seq(Calls)
    OBVIOUS
  <2> QED
    BY <1>1, <1>2, <1>4, <1>5, <1>6, <2>1 DEF Typed
<1>9. Conforms'
  BY <1>1, <1>2, SameConforms
<1>10. End' = End
  BY <1>1, <1>7 DEF End
<1>11. PICK pos \in Places(c.len) : Executes(c.len, 1, 1, pos)
  <2>1. Job = [len |-> c.len, cmd |-> 1, pair |-> 1]
    BY <1>1, <1>3 DEF Job
  <2> QED
    BY <1>1, <2>1 DEF OrderInv, Machine, Working
<1>12. Machine'
  <2>1. Executes(c.len, 1, 1, pos)'
    BY <1>1, <1>6, <1>7, <1>10, <1>11 DEF Executes
  <2>2. Job' = pmu'
    BY <1>5 DEF Job
  <2> QED
    BY <1>5, <1>6, <2>1, <2>2 DEF Machine, OneCall
<1>13. Filling'
  BY <1>1, <1>6 DEF OrderInv, Filling, Same
<1>14. Hosts'
  <2>1. pmu'.wedged = pmu.wedged
    BY <1>1, <1>5 DEF TurnInv, Shapes
  <2>2. Buffers' = Buffers /\ Pausing' = Pausing /\ Lost' = Lost
    BY <1>1, <2>1 DEF Buffers, BuffersAt, Pausing, PausingAt, PausesAt, Lost, LostAt
  <2>3. Busy' = Busy
    BY <1>1, <1>6, <1>7, <1>10 DEF Busy, Fits, Op
  <2>4. Idle' = Idle
    BY <1>1, <1>7 DEF Idle, IdleAt, ShadowedAt
  <2> QED
    BY <1>1, <1>7, <2>2, <2>3, <2>4 DEF OrderInv, Hosts
<1> QED
  BY <1>8, <1>9, <1>12, <1>13, <1>14 DEF OrderInv

(* The firmware answers: all events of the script have happened.           *)
LEMMA OrderAnswer ==
    ASSUME TurnInv, TurnInv', OrderInv, Answer
    PROVE  OrderInv'
<1>1. /\ pmu.on /\ ~pmu.wedged /\ pmu.cmd > pmu.len /\ pmu' = NoRun
      /\ UNCHANGED <<set, pc, pass, prog, at, bus, exec, dev>>
  BY DEF Answer
<1>2. /\ Typed /\ Conforms /\ mail.calls = <<>> /\ pmu.len \in Nat /\ pmu.cmd \in Nat
      /\ pmu.pair \in Nat
  BY <1>1 DEF OrderInv, Typed, Machine, OneCall
<1>3. mail'.calls = mail.calls /\ mail'.seg = mail.seg /\ mail'.sent = mail.sent
  BY DEF Answer, TurnInv, Shapes
<1>4. /\ pmu'.on = FALSE /\ pmu'.len = 0 /\ pmu'.cmd = 0 /\ pmu'.pair = 0
      /\ pmu'.wedged = FALSE
  BY <1>1 DEF NoRun
<1>5. Run' = Run /\ Asked' = Asked /\ \A m : Upto(m)' = Upto(m)
  BY <1>1, SameRun
<1>6. PICK pos \in Places(pmu.len) : Executes(pmu.len, pmu.cmd, pmu.pair, pos)
  BY <1>1 DEF OrderInv, Machine, Working, Job
<1>7. Len(dev.log) = pos[pmu.len + 1]
  <2>1. pmu.cmd = pmu.len + 1 /\ pmu.pair = 1 /\ pos[pmu.len + 1] \in Nat
    BY <1>1, <1>2, <1>6 DEF Executes, Places
  <2> QED
    BY <1>6, <2>1 DEF Executes
<1>8. Typed'
  BY <1>1, <1>2, <1>3, <1>4 DEF Typed
<1>9. Conforms'
  BY <1>1, <1>2, SameConforms
<1>10. End' = End
  BY <1>1, <1>5 DEF End
<1>11. Machine'
  BY <1>2, <1>3, <1>4 DEF Machine, OneCall, Working
<1>12. Filling'
  BY <1>1, <1>3 DEF OrderInv, Filling, Same
<1>13. Hosts'
  <2>1. pmu'.wedged = pmu.wedged
    BY <1>1, <1>4 DEF TurnInv, Shapes
  <2>2. Buffers' = Buffers /\ Pausing' = Pausing /\ Lost' = Lost
    BY <1>1, <2>1 DEF Buffers, BuffersAt, Pausing, PausingAt, PausesAt, Lost, LostAt
  <2>3. pc = "run" => Len(dev.log) = End
    BY <1>6, <1>7 DEF Executes
  <2>4. pc = "run" /\ Busy => Busy'
    BY <1>1, <1>3, <1>5, <1>10, <2>3 DEF Busy, Fits, Op
  <2>5. Idle' = Idle
    BY <1>1, <1>5 DEF Idle, IdleAt, ShadowedAt
  <2> QED
    BY <1>1, <1>5, <2>2, <2>4, <2>5 DEF OrderInv, Hosts
<1> QED
  BY <1>8, <1>9, <1>11, <1>12, <1>13 DEF OrderInv

(* The firmware hangs: nothing more happens.                               *)
LEMMA OrderWedge ==
    ASSUME TurnInv, OrderInv, Wedge
    PROVE  OrderInv'
<1>1. ~pmu.wedged /\ UNCHANGED <<set, pc, pass, prog, at, bus, exec, mail, dev>>
  BY DEF Wedge
<1>2. Typed /\ Conforms
  BY DEF OrderInv
<1>3. /\ pmu'.wedged = TRUE /\ pmu'.len = pmu.len /\ pmu'.cmd = pmu.cmd
      /\ pmu'.pair = pmu.pair
  BY DEF Wedge, TurnInv, Shapes
<1>4. Run' = Run /\ Asked' = Asked /\ \A m : Upto(m)' = Upto(m)
  BY <1>1, SameRun
<1>5. Typed'
  BY <1>1, <1>2, <1>3 DEF Typed
<1>6. Conforms'
  BY <1>1, <1>2, SameConforms
<1>7. Machine'
  BY <1>3 DEF Machine
<1>8. Filling'
  BY <1>1 DEF OrderInv, Filling, Same
<1>9. Hosts'
  <2>1. Buffers' = Buffers /\ ~Lost
    BY <1>1 DEF Buffers, BuffersAt, Lost, LostAt
  <2>2. Pausing => Pausing'
    BY <1>1, <1>3 DEF Pausing, PausingAt, PausesAt
  <2>3. End' = End
    BY <1>1, <1>4 DEF End
  <2>4. Busy' = Busy
    BY <1>1, <1>4, <2>3 DEF Busy, Fits, Op
  <2>5. Idle' = Idle
    BY <1>1, <1>4 DEF Idle, IdleAt, ShadowedAt
  <2> QED
    BY <1>1, <1>4, <2>1, <2>2, <2>4, <2>5 DEF OrderInv, Hosts
<1> QED
  BY <1>5, <1>6, <1>7, <1>8, <1>9 DEF OrderInv

(* A command, or a pair of one, is executed: the next event happens.       *)
LEMMA OrderExecute ==
    ASSUME TurnInv, OrderInv, Execute
    PROVE  OrderInv'
<1>1. /\ pmu.on /\ ~pmu.wedged /\ pmu.cmd <= pmu.len
      /\ UNCHANGED <<set, pc, pass, prog, at, bus, exec, mail>>
  BY DEF Execute
<1>2. /\ Typed /\ Conforms /\ mail.calls = <<>> /\ pmu.len \in Nat /\ pmu.cmd \in Nat
      /\ pmu.pair \in Nat /\ dev \in DevType /\ mail.seg \in Seq(Cmds)
  BY <1>1 DEF OrderInv, Typed, Machine, OneCall
<1>3. PICK pos \in Places(pmu.len) : Executes(pmu.len, pmu.cmd, pmu.pair, pos)
  BY <1>1 DEF OrderInv, Machine, Working, Job
<1>4. PICK n, j, k : n = pmu.len /\ j = pmu.cmd /\ k = pmu.pair
  OBVIOUS
<1>5. /\ n \in Nat /\ j \in 1 .. n /\ k \in Nat /\ k >= 1 /\ j + 1 \in 1 .. n + 1
      /\ n <= Len(mail.seg)
  BY <1>1, <1>2, <1>3, <1>4 DEF Executes
<1>6. PICK c \in Cmds : c = mail.seg[j]
  <2>1. j \in 1 .. Len(mail.seg)
    BY <1>2, <1>5
  <2> QED
    BY <1>2, <2>1, ElementOfSeq
<1>7. /\ pos[j] \in Nat /\ pos[j + 1] \in Nat /\ pos[n + 1] \in Nat
      /\ Holds(Asked, c, pos[j], pos[j + 1]) /\ pos[j + 1] <= pos[n + 1]
      /\ pos[n + 1] <= Len(Asked) /\ Len(dev.log) = pos[j] + k - 1
      /\ k # 1 => c.k = "wr" /\ k <= Len(c.pairs)
  <2>1. pos \in [1 .. n + 1 -> Nat] /\ n + 1 \in 1 .. n + 1 /\ j \in 1 .. n + 1
    BY <1>3, <1>4, <1>5 DEF Places
  <2>2. pos[j] \in Nat /\ pos[j + 1] \in Nat /\ pos[n + 1] \in Nat
    BY <1>5, <2>1
  <2>3. Tape(Asked, mail.seg, n, pos)
    BY <1>3, <1>4 DEF Executes
  <2>4. Holds(Asked, c, pos[j], pos[j + 1]) /\ pos[j + 1] <= pos[n + 1]
        /\ pos[n + 1] <= Len(Asked)
    BY <1>5, <1>6, <2>3 DEF Tape
  <2>5. /\ Len(dev.log) = pos[j] + k - 1
        /\ k # 1 => c.k = "wr" /\ k <= Len(c.pairs)
    BY <1>3, <1>4, <1>6 DEF Executes
  <2> QED
    BY <2>2, <2>4, <2>5
<1>8. /\ Size(c) \in Nat /\ pos[j + 1] = pos[j] + Size(c)
      /\ \A i \in 1 .. Size(c) : Asked[pos[j] + i] = Nth(c, i)
      /\ c.k = "wr" => Size(c) = Len(c.pairs)
      /\ c.k \in {"delay", "wait", "enter", "leave"} => Size(c) = 1
      /\ c.k \in {"enterq", "leaveq", "probe"} => Size(c) = 0
  BY <1>7, SizeIs DEF Holds
<1>9. PICK more : more = (c.k = "wr" /\ k < Len(c.pairs))
  OBVIOUS
<1>10. pmu' = IF more THEN [pmu EXCEPT !.pair = k + 1] ELSE [pmu EXCEPT !.cmd = j + 1, !.pair = 1]
  BY <1>4, <1>6, <1>9 DEF Execute
<1>11. /\ pmu'.on = TRUE /\ pmu'.wedged = pmu.wedged /\ pmu'.len = n
       /\ \/ more /\ pmu'.cmd = j /\ pmu'.pair = k + 1
          \/ ~more /\ pmu'.cmd = j + 1 /\ pmu'.pair = 1
  BY <1>1, <1>4, <1>10 DEF TurnInv, Shapes
(* Either the command has no event left, or the next one happens.          *)
<1> DEFINE Still == /\ Size(c) = 0 /\ ~more /\ k = 1
                    /\ dev'.log = dev.log /\ dev'.regs = dev.regs
           Happens == /\ k <= Size(c) /\ (k < Size(c) <=> more)
                      /\ dev'.log = Append(dev.log, Nth(c, k))
                      /\ dev'.regs = Upd(dev.regs, Nth(c, k))
<1>12. dev' \in DevType /\ dev'.base = dev.base /\ (Still \/ Happens)
  <2>1. dev' = CASE c.k = "wr" /\ k <= Len(c.pairs) ->
                       Stored(dev, c.pairs[k][1], c.pairs[k][2])
                 [] c.k \in {"delay", "wait"} -> Logged(dev, c.k)
                 [] c.k = "enter"  -> [Logged(dev, c.k) EXCEPT !.paused = TRUE]
                 [] c.k = "leave"  -> [Logged(dev, c.k) EXCEPT !.paused = FALSE]
                 [] c.k = "enterq" -> [dev EXCEPT !.paused = TRUE]
                 [] c.k = "leaveq" -> [dev EXCEPT !.paused = FALSE]
                 [] OTHER -> dev
    BY <1>4, <1>6 DEF Execute
  <2>2. c.k \in {"wr", "delay", "wait", "enter", "leave", "enterq", "leaveq", "probe"}
        /\ c.pairs \in Seq(Pairs) /\ Len(c.pairs) \in Nat
    BY DEF Cmds
  <2>3. CASE c.k = "wr" /\ k <= Len(c.pairs)
    <3>1. c.pairs[k] \in Pairs
      BY <1>5, <2>2, <2>3, ElementOfSeq
    <3>2. PICK r \in Regs, v \in Values : c.pairs[k][1] = r /\ c.pairs[k][2] = v
      BY <3>1 DEF Pairs
    <3>3. dev' = Stored(dev, r, v) /\ Nth(c, k) = O("wr", r, v)
      BY <2>1, <2>3, <3>2 DEF Nth
    <3>4. /\ dev' \in DevType /\ dev'.base = dev.base
          /\ dev'.log = Append(dev.log, Nth(c, k)) /\ dev'.regs = Upd(dev.regs, Nth(c, k))
      <4>1. /\ Stored(dev, r, v) \in DevType /\ Stored(dev, r, v).base = dev.base
            /\ Stored(dev, r, v).log = Append(dev.log, O("wr", r, v))
            /\ Stored(dev, r, v).regs = Upd(dev.regs, O("wr", r, v))
        BY <1>2, <3>2, DevIs, SMTT(30)
      <4>2. PICK d, e : d = Stored(dev, r, v) /\ e = O("wr", r, v)
        OBVIOUS
      <4>3. /\ d \in DevType /\ d.base = dev.base
            /\ d.log = Append(dev.log, e) /\ d.regs = Upd(dev.regs, e)
        BY <4>1, <4>2
      <4> QED
        BY <3>3, <4>2, <4>3
    <3>5. k <= Size(c) /\ (k < Size(c) <=> more)
      BY <1>8, <1>9, <2>3
    <3> QED
      BY <3>4, <3>5
  <2>4. CASE c.k = "wr" /\ ~(k <= Len(c.pairs))
    <3>1. dev' = dev
      BY <2>1, <2>4
    <3>2. k = 1
      BY <1>7, <2>4
    <3>3. Len(c.pairs) = 0
      BY <2>2, <2>4, <3>2
    <3>4. Size(c) = 0 /\ ~(k < Len(c.pairs))
      BY <1>8, <2>4, <3>2, <3>3
    <3>5. ~more
      BY <1>9, <3>4
    <3> QED
      BY <1>2, <3>1, <3>2, <3>4, <3>5
  <2>5. CASE c.k \in {"delay", "wait"}
    <3>1. dev' = Logged(dev, c.k)
      BY <2>1, <2>5
    <3>2. k = 1 /\ Size(c) = 1 /\ ~more /\ Nth(c, k) = Plain(c.k)
      BY <1>7, <1>8, <1>9, <2>5 DEF Nth
    <3>3. /\ dev' \in DevType /\ dev'.base = dev.base
          /\ dev'.log = Append(dev.log, Plain(c.k)) /\ dev'.regs = Upd(dev.regs, Plain(c.k))
      BY <1>2, <2>5, <3>1, DevIs
    <3> QED
      BY <3>2, <3>3
  <2>6. CASE c.k \in {"enter", "leave"}
    <3>1. PICK d : d = Logged(dev, c.k)
      OBVIOUS
    <3>2. PICK p \in BOOLEAN : dev' = [d EXCEPT !.paused = p]
      <4>1. CASE c.k = "enter"
        BY <2>1, <3>1, <4>1
      <4>2. CASE c.k = "leave"
        BY <2>1, <3>1, <4>2
      <4> QED
        BY <2>6, <4>1, <4>2
    <3>3. d \in DevType /\ d.log = Append(dev.log, Plain(c.k)) /\ d.base = dev.base
          /\ d.regs = Upd(dev.regs, Plain(c.k))
      BY <1>2, <2>6, <3>1, DevIs
    <3>4. dev' \in DevType /\ dev'.log = d.log /\ dev'.base = d.base /\ dev'.regs = d.regs
      BY <3>2, <3>3 DEF DevType
    <3>5. k = 1 /\ Size(c) = 1 /\ ~more /\ Nth(c, k) = Plain(c.k)
      BY <1>7, <1>8, <1>9, <2>6 DEF Nth
    <3> QED
      BY <3>3, <3>4, <3>5
  <2>7. CASE c.k \in {"enterq", "leaveq", "probe"}
    <3>1. \/ dev' = dev
          \/ \E p \in BOOLEAN : dev' = [dev EXCEPT !.paused = p]
      <4>1. CASE c.k = "enterq"
        BY <2>1, <4>1
      <4>2. CASE c.k = "leaveq"
        BY <2>1, <4>2
      <4>3. CASE c.k = "probe"
        BY <2>1, <4>3
      <4> QED
        BY <2>7, <4>1, <4>2, <4>3
    <3>2. dev' \in DevType /\ dev'.log = dev.log /\ dev'.base = dev.base /\ dev'.regs = dev.regs
      BY <1>2, <3>1 DEF DevType
    <3> QED
      BY <1>7, <1>8, <1>9, <2>7, <3>2
  <2> QED
    BY <2>2, <2>3, <2>4, <2>5, <2>6, <2>7
<1>13. dev' \in DevType /\ dev'.base = dev.base
  BY <1>12
<1> HIDE DEF Still, Happens
<1>14. Run' = Run /\ Asked' = Asked /\ \A m : Upto(m)' = Upto(m)
  BY <1>1, <1>13, SameRun
<1>15. Len(dev.log) \in Nat /\ dev.log \in Seq(Happening) /\ Len(Asked) \in Nat
  BY <1>2, Seen, RunIs
<1>16. ASSUME k <= Size(c)
       PROVE  /\ Len(dev.log) < Len(Asked) /\ Nth(c, k) = Asked[Len(dev.log) + 1]
              /\ Nth(c, k) \in Happening
  <2>1. pos[j] + k = Len(dev.log) + 1 /\ pos[j] + k <= Len(Asked) /\ k \in 1 .. Size(c)
    BY <1>5, <1>7, <1>8, <1>15, <1>16, SMTT(30)
  <2>2. Len(dev.log) < Len(Asked) /\ Nth(c, k) = Asked[Len(dev.log) + 1]
    BY <1>8, <1>15, <2>1
  <2> QED
    BY <1>2, <2>2, EventHappens
<1>17. Conforms'
  <2>1. CASE Still
    BY <1>1, <1>2, <1>14, <2>1 DEF Conforms, Still
  <2>2. CASE Happens
    <3>1. \E m \in 0 .. Len(prog) : /\ Run[m].log = Append(dev.log, Nth(c, k))
                                    /\ Run[m].regs = Upd(dev.regs, Nth(c, k))
      BY <1>2, <1>16, <2>2, EventHappens DEF Happens
    <3> QED
      BY <1>1, <1>14, <2>2, <3>1 DEF Conforms, Happens
  <2> QED
    BY <1>12, <2>1, <2>2
<1>18. ASSUME Happens
       PROVE  k <= Size(c) /\ Len(dev'.log) = Len(dev.log) + 1
  BY <1>15, <1>16, <1>18, Appended DEF Happens
<1>19. Len(dev'.log) = pos[pmu'.cmd] + pmu'.pair - 1
  <2>1. CASE Still
    <3>1. dev'.log = dev.log /\ pmu'.cmd = j + 1 /\ pmu'.pair = 1 /\ pos[j + 1] = pos[j] /\ k = 1
      BY <1>7, <1>8, <1>11, <2>1 DEF Still
    <3> QED
      BY <1>7, <3>1
  <2>2. CASE Happens /\ more
    <3>1. pmu'.cmd = j /\ pmu'.pair = k + 1 /\ Len(dev'.log) = Len(dev.log) + 1
      BY <1>11, <1>18, <2>2
    <3> QED
      BY <1>5, <1>7, <3>1
  <2>3. CASE Happens /\ ~more
    <3>1. pmu'.cmd = j + 1 /\ pmu'.pair = 1 /\ Len(dev'.log) = Len(dev.log) + 1
      BY <1>11, <1>18, <2>3
    <3>2. k = Size(c)
      BY <1>5, <1>8, <2>3 DEF Happens
    <3> QED
      BY <1>5, <1>7, <1>8, <3>1, <3>2
  <2> QED
    BY <1>12, <2>1, <2>2, <2>3
<1>20. Typed'
  <2>1. pmu'.len \in Nat /\ pmu'.cmd \in Nat /\ pmu'.pair \in Nat
    BY <1>5, <1>11
  <2> QED
    BY <1>1, <1>2, <1>13, <2>1 DEF Typed
<1>21. End' = End
  BY <1>1, <1>14 DEF End
<1>22. Machine'
  <2>1. /\ pmu'.cmd \in 1 .. n + 1 /\ pmu'.pair >= 1
        /\ pmu'.pair # 1 => /\ pmu'.cmd <= n /\ mail.seg[pmu'.cmd].k = "wr"
                            /\ pmu'.pair <= Len(mail.seg[pmu'.cmd].pairs)
    <3>1. more => c.k = "wr" /\ k + 1 <= Len(c.pairs) /\ k + 1 >= 1
      <4>1. c.pairs \in Seq(Pairs)
        BY DEF Cmds
      <4>2. Len(c.pairs) \in Nat
        BY <4>1
      <4>3. k < Len(c.pairs) => (k + 1 <= Len(c.pairs) /\ k + 1 >= 1)
        BY <1>5, <4>2
      <4> QED
        BY <1>9, <4>3
    <3>2. CASE more
      <4>1. pmu'.cmd = j /\ pmu'.pair = k + 1
        BY <1>11, <3>2
      <4> QED
        BY <1>5, <1>6, <3>1, <3>2, <4>1
    <3>3. CASE ~more
      <4>1. pmu'.cmd = j + 1 /\ pmu'.pair = 1
        BY <1>11, <3>3
      <4> QED
        BY <1>5, <4>1
    <3> QED
      BY <3>2, <3>3
  <2>2. PICK cmd, pair : cmd = pmu'.cmd /\ pair = pmu'.pair
    OBVIOUS
  <2>3. Executes(n, cmd, pair, pos)'
    BY <1>1, <1>3, <1>4, <1>14, <1>19, <1>21, <2>1, <2>2 DEF Executes
  <2>4. Job' = pmu'
    BY <1>11 DEF Job
  <2> QED
    BY <1>1, <1>2, <1>4, <1>11, <2>2, <2>3, <2>4 DEF Machine, OneCall
<1>23. Filling'
  BY <1>1 DEF OrderInv, Filling, Same
<1>24. exec.stage # "reply" => pc # "run"
  BY <1>1 DEF TurnInv, Turns, AtRest, NoCalls
<1>25. Hosts'
  <2>1. Buffers' = Buffers /\ Pausing' = Pausing
    BY <1>1, <1>11 DEF Buffers, BuffersAt, Pausing, PausingAt, PausesAt
  <2>2. ~Lost
    BY <1>1 DEF Lost, LostAt
  <2>3. ASSUME pc = "run" PROVE Idle' /\ Busy'
    <3>1. exec.stage = "reply" /\ Busy
      BY <1>24, <2>2, <2>3 DEF OrderInv, Hosts
    <3>2. mail.replies = <<>>
      BY <1>1, <3>1 DEF TurnInv, Turns, Asked1, NoCalls, NoReply
    <3>3. pos[n + 1] = End
      BY <1>3, <1>4, <2>3 DEF Executes
    <3>4. exec.kind \in Quiet => Len(dev'.log) = Upto(at - 1)
      <4> SUFFICES ASSUME exec.kind \in Quiet PROVE Len(dev'.log) = Upto(at - 1)
        OBVIOUS
      <4>1. End = Upto(at - 1) /\ Len(dev.log) = Upto(at - 1)
        BY <3>1 DEF End, Quiet, OfOp, Busy
      <4>2. ~(k <= Size(c))
        BY <1>5, <1>7, <1>8, <3>3, <4>1
      <4> QED
        BY <1>12, <1>18, <4>1, <4>2 DEF Still
    <3>5. Busy'
      BY <1>1, <1>14, <1>21, <3>1, <3>2, <3>4 DEF Busy, Fits, Op
    <3>6. Idle'
      BY <1>1, <3>1 DEF Idle
    <3> QED
      BY <3>5, <3>6
  <2>4. ASSUME pc = "done" PROVE dev'.log = Asked
    <3>1. dev.log = Asked
      BY <2>4 DEF OrderInv, Hosts
    <3>2. ~(k <= Size(c))
      BY <1>15, <1>16, <3>1
    <3> QED
      BY <1>12, <1>18, <3>1, <3>2 DEF Still
  <2> QED
    BY <1>1, <1>14, <2>1, <2>3, <2>4 DEF OrderInv, Hosts
<1> QED
  BY <1>17, <1>20, <1>22, <1>23, <1>25 DEF OrderInv

-----------------------------------------------------------------------------
(* The end of a call.                                                      *)

(* The program goes on behind a call.                                      *)
LEMMA Resumes ==
    ASSUME OrderInv, pc = "run", exec' = NoExec, UNCHANGED <<set, pc, prog, pmu, dev>>,
           mail'.seg = mail.seg, mail'.calls = mail.calls, mail'.sent = mail.sent,
           ~pmu.wedged => mail.calls = <<>> /\ ~pmu.on,
           bus' \in BusType, at' \in 1 .. Len(prog) + 1,
           BuffersAt(bus', at'), PausingAt(bus', at'),
           \/ IdleAt(bus', dev, at')
           \/ \E f, u : LostAt(bus', exec', at', f, u)
    PROVE  OrderInv'
<1>1. Run' = Run /\ Asked' = Asked /\ \A n : Upto(n)' = Upto(n)
  BY SameRun
<1>2. exec'.stage = "idle" /\ exec'.script = <<>> /\ exec'.to = 0
  BY DEF NoExec
<1>3. Typed'
  BY <1>2 DEF OrderInv, Typed
<1>4. Conforms'
  BY SameConforms DEF OrderInv
<1>5. Machine'
  BY DEF Machine, OneCall, Working
<1>6. Filling'
  BY <1>2 DEF Filling
<1>7. Buffers' /\ Pausing'
  BY DEF Buffers, BuffersAt, Pausing, PausingAt, PausesAt
<1>8. Lost' \/ (Idle' /\ Busy')
  <2>1. ASSUME IdleAt(bus', dev, at') PROVE Idle' /\ Busy'
    BY <1>1, <1>2, <2>1 DEF Idle, Busy, IdleAt, ShadowedAt
  <2>2. ASSUME NEW f, NEW u, LostAt(bus', exec', at', f, u) PROVE Lost'
    BY <2>2 DEF Lost, LostAt
  <2> QED
    BY <2>1, <2>2
<1>9. Hosts'
  BY <1>2, <1>7, <1>8 DEF Hosts
<1> QED
  BY <1>3, <1>4, <1>5, <1>6, <1>9 DEF OrderInv

(* A call is followed by another one for the same operation, which asks    *)
(* nothing of the controller.                                              *)
LEMMA Continues ==
    ASSUME OrderInv, pc = "run", UNCHANGED <<set, pc, prog, at, bus, dev>>,
           at <= Len(prog), exec'.kind \in Quiet, Fits',
           \/ exec'.stage = "seg" /\ exec'.to = 1 /\ exec'.script # <<>>
           \/ exec'.stage = "push" /\ exec'.to = 0 /\ exec'.script = <<>>,
           exec'.script \in Seq(Cmds),
           Covers(Asked, exec'.script, Len(exec'.script), Len(dev.log), Len(dev.log)),
           Len(dev.log) = Upto(at - 1), bus.pending = <<>>, bus.commands = <<>>,
           mail'.seg = mail.seg, mail'.sent = mail.sent,
           mail'.calls = <<>>, pmu'.on = FALSE,
           pmu'.len \in Nat, pmu'.cmd \in Nat, pmu'.pair \in Nat,
           Pausing'
    PROVE  OrderInv'
<1>1. Run' = Run /\ Asked' = Asked /\ \A n : Upto(n)' = Upto(n)
  BY SameRun
<1>2. <<>> \in Seq(Calls)
  OBVIOUS
<1>3. Typed'
  <2>1. exec'.stage \in {"idle", "seg", "push", "reply"} /\ exec'.to \in Nat
    OBVIOUS
  <2>2. mail'.calls \in Seq(Calls) /\ mail'.seg \in Seq(Cmds) /\ mail'.sent \in Nat
    BY <1>2 DEF OrderInv, Typed
  <2> QED
    BY <2>1, <2>2 DEF OrderInv, Typed
<1>4. Conforms'
  BY SameConforms DEF OrderInv
<1>5. Machine'
  BY DEF Machine, OneCall, Working
<1>6. Filling'
  <2>1. Len(exec'.script) \in Nat /\ (exec'.script # <<>> => Len(exec'.script) # 0)
        /\ (exec'.script = <<>> => Len(exec'.script) = 0) /\ 1 - 1 = 0
    <3>1. PICK s \in Seq(Cmds) : s = exec'.script
      OBVIOUS
    <3>2. Len(s) \in Nat /\ (s # <<>> => Len(s) # 0) /\ (s = <<>> => Len(s) = 0)
      BY EmptySeq
    <3> QED
      BY <3>1, <3>2
  <2>2. Len(mail'.seg) \in Nat
    BY <1>3 DEF Typed
  <2> QED
    BY <2>1, <2>2 DEF Filling, Same
<1>7. Buffers'
  BY DEF OrderInv, Hosts, Buffers, BuffersAt
<1>8. Idle' /\ Busy'
  <2>1. exec'.kind \notin OfOp /\ exec'.kind # "run" /\ exec'.stage # "idle"
        /\ exec'.stage # "reply"
    BY DEF OfOp, Quiet
  <2>2. End' = Upto(at - 1)
    BY <1>1, <2>1 DEF End
  <2>3. Idle'
    BY <2>1 DEF Idle
  <2>4. Busy'
    BY <1>1, <2>1, <2>2 DEF Busy
  <2> QED
    BY <2>3, <2>4
<1>9. exec'.stage # "idle" /\ pc' = "run"
  OBVIOUS
<1>10. Hosts'
  BY <1>7, <1>8, <1>9 DEF Hosts
<1> QED
  BY <1>3, <1>4, <1>5, <1>6, <1>10 DEF OrderInv

(* What the invariant says in a command of a program that is not lost.     *)
Waits == /\ Typed /\ Conforms /\ Buffers /\ Pausing /\ Fits
         /\ at \in 1 .. Len(prog) /\ Len(prog) \in Nat
         /\ bus \in BusType /\ bus.pending = <<>>
         /\ bus.commands = IF exec.kind = "run" THEN exec.script ELSE <<>>
         /\ exec.kind \in Quiet => Len(dev.log) = Upto(at - 1)
         /\ exec.stage = "reply" /\ mail.replies # <<>> => Len(dev.log) = End
         /\ Len(Asked) \in Nat /\ Upto(at - 1) \in Nat /\ Upto(at) \in Nat
         /\ Upto(at - 1) <= Len(Asked) /\ Upto(at) <= Len(Asked)
         /\ at + 1 \in 1 .. Len(prog) + 1 /\ at + 1 - 1 = at /\ at + 1 # 1

(* The invariant gives all of it.                                         *)
LEMMA WaitsIs ==
    ASSUME OrderInv, pc = "run", exec.stage # "idle", ~Lost
    PROVE  Waits
<1>1. /\ Typed /\ Conforms /\ Buffers /\ Pausing /\ Busy /\ at <= Len(prog)
  BY DEF OrderInv, Hosts, Busy
<1>2. at \in 1 .. Len(prog) /\ Len(prog) \in Nat
  BY <1>1, OpIs, ProgIs
<1>3. at - 1 \in 0 .. Len(prog) /\ at \in 0 .. Len(prog)
      /\ at + 1 \in 1 .. Len(prog) + 1 /\ at + 1 - 1 = at /\ at + 1 # 1
  BY <1>2
<1>4. /\ Len(Asked) \in Nat /\ Upto(at - 1) \in Nat /\ Upto(at) \in Nat
      /\ Upto(at - 1) <= Len(Asked) /\ Upto(at) <= Len(Asked)
  BY <1>1, <1>3, RunIs
<1>5. bus \in BusType
  BY <1>1 DEF Typed
<1> QED
  BY <1>1, <1>2, <1>3, <1>4, <1>5 DEF Waits, Busy

(* The host behind an operation all of whose events have happened.         *)
LEMMA Arrives ==
    ASSUME Waits, NEW b, NEW n, n = at \/ n = at + 1,
           b.pending = <<>>, b.commands = <<>>, Len(dev.log) = Upto(n - 1),
           set.atomic /\ b.on => \A r \in Regs : b.shadow[r] = Nothing
    PROVE  IdleAt(b, dev, n)
<1>1. n - 1 \in 0 .. Len(prog) /\ Upto(n - 1) \in Nat /\ Upto(n - 1) <= Len(Asked)
      /\ Len(Asked) \in Nat
  BY DEF Waits
<1>2. dev.regs = Run[n - 1].regs
  BY <1>1, AtPoint DEF Waits
<1>3. Queue(Asked, <<>>, <<>>, Upto(n - 1), Upto(n - 1))
  BY <1>1, QueueNone
<1> QED
  BY <1>2, <1>3 DEF IdleAt, ShadowedAt

(* What the host knows when it takes a reply.                              *)
LEMMA ReplyIs ==
    ASSUME TurnInv, OrderInv, Reply
    PROVE  /\ exec.stage = "reply" /\ mail.replies # <<>> /\ UNCHANGED pmu
           /\ ~pmu.wedged /\ ~Lost /\ mail.calls = <<>> /\ ~pmu.on /\ pmu.on = FALSE
           /\ mail'.seg = mail.seg /\ mail'.calls = mail.calls /\ mail'.sent = mail.sent
           /\ mail'.replies = <<>>
           /\ pc \in {"run", "reload"} /\ (pc = "reload" => exec.kind = "info")
<1>1. exec.stage = "reply" /\ mail.replies # <<>> /\ UNCHANGED pmu
  BY DEF Reply
<1>2. ~pmu.wedged /\ Asked1
  BY <1>1 DEF TurnInv, Turns, NoReply
<1>3. NoCalls /\ mail.replies = <<Head(mail.replies)>>
  BY <1>1, <1>2 DEF Asked1, NoReply
<1>4. Tail(mail.replies) = <<>>
  BY <1>3, Tails1
<1>5. /\ mail'.seg = mail.seg /\ mail'.calls = mail.calls /\ mail'.sent = mail.sent
      /\ mail'.replies = <<>>
  BY <1>4 DEF Reply, TurnInv, Shapes
<1>6. pc \in {"run", "reload"} /\ (pc = "reload" => exec.kind = "info")
  BY <1>1 DEF OrderInv, Hosts, Typed
<1>7. mail.calls = <<>> /\ ~pmu.on /\ pmu.on = FALSE
  BY <1>3 DEF NoCalls, TurnInv, Shapes
<1>8. ~Lost
  BY <1>2 DEF Lost, LostAt
<1> QED
  BY <1>1, <1>2, <1>5, <1>6, <1>7, <1>8

(* A reply of the other message is dropped.                                *)
LEMMA OrderDropped ==
    ASSUME TurnInv, OrderInv, Reply,
           UNCHANGED <<set, pc, pass, prog, at, bus, exec, dev>>
    PROVE  OrderInv'
<1>1. /\ exec.stage = "reply" /\ UNCHANGED pmu /\ mail.calls = <<>> /\ ~pmu.on
      /\ mail'.seg = mail.seg /\ mail'.calls = mail.calls /\ mail'.sent = mail.sent
      /\ mail'.replies = <<>>
  BY ReplyIs
<1>2. Typed /\ Conforms
  BY DEF OrderInv
<1>3. Run' = Run /\ Asked' = Asked /\ \A m : Upto(m)' = Upto(m)
  BY SameRun
<1>4. Typed'
  BY <1>1, <1>2 DEF Typed
<1>5. Conforms'
  BY <1>2, SameConforms
<1>6. Machine'
  BY <1>1 DEF Machine, OneCall, Working
<1>7. Filling'
  BY <1>1 DEF Filling
<1>8. Hosts'
  <2>1. Buffers' = Buffers /\ Pausing' = Pausing /\ Lost' = Lost
    BY <1>1 DEF Buffers, BuffersAt, Pausing, PausingAt, PausesAt, Lost, LostAt
  <2>2. Busy => Busy'
    BY <1>1, <1>3 DEF Busy, Fits, Op
  <2>3. Idle'
    BY <1>1 DEF Idle
  <2> QED
    BY <1>1, <1>3, <2>1, <2>2, <2>3 DEF OrderInv, Hosts
<1> QED
  BY <1>4, <1>5, <1>6, <1>7, <1>8 DEF OrderInv

(* The firmware is reloaded: the program runs once more.                   *)
LEMMA OrderReloaded ==
    ASSUME TurnInv, OrderInv, Reply, Accepted, exec.kind = "info"
    PROVE  OrderInv'
<1>1. /\ set' = [set EXCEPT !.wait = FALSE, !.atomic = TRUE, !.block = "atomic"]
      /\ pc' = "run" /\ pass' = 1 /\ at' = 1 /\ bus' = FreshBus
      /\ prog' \in Programs(set', set.passes = 1)
      /\ dev' = [dev EXCEPT !.log = <<>>, !.base = dev.regs]
      /\ exec' = NoExec
  BY DEF Accepted
<1>2. set'.block = "atomic"
  BY <1>1 DEF TurnInv, Shapes, Setting
<1>3. exec'.stage = "idle" /\ exec'.script \in Seq(Cmds) /\ exec'.to \in Nat
  BY <1>1 DEF NoExec
<1>4. dev' \in DevType /\ dev'.log = <<>> /\ dev'.base = dev'.regs
  <2>1. <<>> \in Seq(Happening) /\ dev \in DevType
    BY DEF OrderInv, Typed
  <2> QED
    BY <1>1, <2>1 DEF DevType
<1>5. Fresh'
  <2>1. UNCHANGED pmu /\ mail.calls = <<>> /\ ~pmu.on
        /\ mail'.seg = mail.seg /\ mail'.calls = mail.calls /\ mail'.sent = mail.sent
    BY ReplyIs
  <2>2. /\ mail.seg \in Seq(Cmds) /\ mail.calls \in Seq(Calls) /\ mail.sent \in Nat
        /\ pmu.len \in Nat /\ pmu.cmd \in Nat /\ pmu.pair \in Nat
    BY DEF OrderInv, Typed
  <2> QED
    BY <1>1, <1>2, <1>3, <1>4, <2>1, <2>2 DEF Fresh
<1> QED
  BY <1>5, FreshIs, PTL

(* The firmware will take a program: it is buffered from here on.          *)
LEMMA OrderBuffering ==
    ASSUME TurnInv, OrderInv, Reply, pc = "run", Waits, Buffering,
           exec.kind \in {"smoke", "preflight"}, UNCHANGED <<set, pc, pass, prog, dev>>
    PROVE  OrderInv'
<1>1. /\ UNCHANGED pmu /\ mail.calls = <<>> /\ ~pmu.on /\ ~pmu.wedged
      /\ mail'.seg = mail.seg /\ mail'.calls = mail.calls /\ mail'.sent = mail.sent
  BY ReplyIs
<1>2. /\ ~bus.on /\ Op.k \in {"check", "start", "restart", "start2"}
      /\ bus.pending = <<>> /\ bus.commands = <<>> /\ Len(dev.log) = Upto(at - 1)
  BY DEF Waits, Fits, Quiet
<1>3. at' = at + 1 /\ exec' = NoExec
      /\ bus' = [bus EXCEPT !.on = TRUE, !.req = TRUE, !.shadow = [r \in Regs |-> Nothing]]
  BY DEF Buffering, Goes
<1>4. /\ bus' \in BusType /\ bus'.on = TRUE /\ bus'.can = bus.can
      /\ bus'.pending = <<>> /\ bus'.commands = <<>>
      /\ \A r \in Regs : bus'.shadow[r] = Nothing
  BY <1>2, <1>3 DEF Waits, BusType
<1>5. Silent
  BY <1>2, OpIs DEF Waits
<1>6. BuffersAt(bus', at')
  <2>1. prog[at' - 1].k \notin {"stop", "ensure", "store"} /\ at' # 1
    BY <1>2, <1>3 DEF Waits, Op
  <2> QED
    BY <1>4, <2>1 DEF BuffersAt
<1>7. PausingAt(bus', at')
  <2> SUFFICES ASSUME set.block = "enter"
               PROVE  \E f, u : Shape(prog, f, u) /\ PausesAt(bus', at + 1, f, u)
    BY <1>3 DEF PausingAt
  <2>1. PICK f, u : Shape(prog, f, u) /\ PausesAt(bus, at, f, u)
    BY DEF Waits, Pausing, PausingAt
  <2>2. f \in 2 .. Len(prog) /\ at \in Nat /\ Len(prog) \in Nat
    BY <2>1 DEF Shape, Waits
  <2>3. at + 1 <= f => at <= f
    BY <2>2
  <2>4. PausesAt(bus', at + 1, f, u)
    BY <1>4, <2>1, <2>3 DEF PausesAt
  <2> QED
    BY <2>1, <2>4
<1>8. IdleAt(bus', dev, at')
  <2>1. Len(dev.log) = Upto(at + 1 - 1)
    BY <1>2, <1>5 DEF Waits, Silent
  <2>2. PICK b, n : b = bus' /\ n = at + 1
    OBVIOUS
  <2>3. IdleAt(b, dev, n)
    BY <1>4, <2>1, <2>2, Arrives DEF Waits
  <2> QED
    BY <1>3, <2>2, <2>3
<1> QED
  BY <1>1, <1>3, <1>4, <1>6, <1>7, <1>8, Resumes DEF Waits

(* The operation the command was for is done.                              *)
LEMMA OrderDone ==
    ASSUME TurnInv, OrderInv, Reply, pc = "run", Waits, Goes(bus, 1), exec' = NoExec,
           exec.kind \in {"pause", "block", "store", "ensure", "ensure2"},
           UNCHANGED <<set, pc, pass, prog, dev>>
    PROVE  OrderInv'
<1>1. /\ UNCHANGED pmu /\ mail.calls = <<>> /\ ~pmu.on /\ ~pmu.wedged
      /\ mail'.seg = mail.seg /\ mail'.calls = mail.calls /\ mail'.sent = mail.sent
      /\ exec.stage = "reply" /\ mail.replies # <<>>
  BY ReplyIs
<1>2. bus' = bus /\ at' = at + 1 /\ bus.pending = <<>> /\ bus.commands = <<>>
  BY DEF Goes, Waits
<1>3. set.atomic => ~bus.on \/ exec.kind \notin {"pause", "block"}
  BY DEF Waits, Fits, Typed
<1>4. CASE exec.kind \in {"store", "ensure", "ensure2"}
  <2>1. Op.k \in {"store", "ensure"} /\ (exec.kind = "store" <=> Op.k = "store")
    BY <1>4 DEF Waits, Fits
  <2>2. Len(dev.log) = Upto(at)
    <3>1. CASE Op.k = "store"
      BY <1>1, <2>1, <3>1 DEF Waits, End, OfOp
    <3>2. CASE Op.k = "ensure"
      <4>1. Silent /\ Len(dev.log) = Upto(at - 1)
        BY <1>4, <2>1, <3>2, OpIs DEF Waits, Quiet
      <4> QED
        BY <4>1 DEF Silent
    <3> QED
      BY <2>1, <3>1, <3>2
  <2>3. ~bus.on
    <3>1. PICK f, u : Shape(prog, f, u)
      BY ProgIs DEF Waits
    <3>2. prog[at - 1].k \in {"stop", "ensure", "store"}
      BY <2>1, <3>1 DEF Shape, Op, Waits
    <3> QED
      BY <3>2 DEF Waits, Buffers, BuffersAt
  <2>4. PausingAt(bus', at')
    BY <1>2, <2>1, PausedOver DEF Waits
  <2>5. BuffersAt(bus', at')
    BY <1>2, <2>3 DEF BuffersAt
  <2>6. IdleAt(bus', dev, at')
    BY <1>2, <2>2, <2>3, Arrives DEF Waits
  <2> QED
    BY <1>1, <1>2, <2>4, <2>5, <2>6, Resumes DEF Waits
<1>5. CASE exec.kind \in {"pause", "block"}
  <2>1. Len(dev.log) = Upto(at)
    BY <1>1, <1>5 DEF Waits, End, OfOp
  <2>2. Op.k \in {"delay", "wait", "block", "unblock"} /\ ~set.atomic
        /\ (exec.kind = "pause" => Op.k \in {"delay", "wait"})
        /\ (exec.kind = "block" => set.block = "enter")
    BY <1>5 DEF Waits, Fits, Typed
  <2>3. BuffersAt(bus', at')
    <3>1. prog[at' - 1].k \notin {"stop", "ensure", "store"} /\ at' # 1
      BY <1>2, <2>2 DEF Waits, Op
    <3> QED
      BY <1>2, <3>1 DEF BuffersAt
  <2>4. PausingAt(bus', at')
    <3>1. CASE Op.k # "block"
      BY <1>2, <2>2, <3>1, PauseKept DEF Waits
    <3>2. CASE Op.k = "block"
      <4> SUFFICES ASSUME set.block = "enter"
                   PROVE  \E f, u : Shape(prog, f, u) /\ PausesAt(bus', at + 1, f, u)
        BY <1>2 DEF PausingAt
      <4>1. PICK f, u : Shape(prog, f, u) /\ PausesAt(bus, at, f, u)
        BY DEF Waits, Pausing, PausingAt
      <4>2. at = f /\ f \in Nat
        BY <3>2, <4>1 DEF Shape, Waits, Op
      <4>3. bus.on
        BY <1>1, <4>1, <4>2 DEF PausesAt
      <4>4. ~(at + 1 <= f) /\ at + 1 # f
        BY <4>2
      <4>5. PausesAt(bus', at + 1, f, u)
        BY <1>2, <4>3, <4>4 DEF PausesAt
      <4> QED
        BY <4>1, <4>5
    <3> QED
      BY <3>1, <3>2
  <2>5. IdleAt(bus', dev, at')
    BY <1>2, <2>1, <2>2, Arrives DEF Waits
  <2> QED
    BY <1>1, <1>2, <2>3, <2>4, <2>5, Resumes DEF Waits
<1> QED
  BY <1>4, <1>5

(* The host takes a reply.                                                 *)
LEMMA OrderReply ==
    ASSUME TurnInv, OrderInv, Reply
    PROVE  OrderInv'
<1>1. /\ exec.stage = "reply" /\ mail.replies # <<>> /\ UNCHANGED pmu /\ ~Lost
      /\ mail.calls = <<>> /\ ~pmu.on /\ pmu.on = FALSE /\ ~pmu.wedged
      /\ mail'.seg = mail.seg /\ mail'.calls = mail.calls /\ mail'.sent = mail.sent
      /\ pc \in {"run", "reload"} /\ (pc = "reload" => exec.kind = "info")
  BY ReplyIs
<1>2. Accepted \/ UNCHANGED <<set, pc, pass, prog, at, bus, exec, dev>>
  BY DEF Reply
<1>3. CASE UNCHANGED <<set, pc, pass, prog, at, bus, exec, dev>>
  BY <1>3, OrderDropped
<1>4. CASE Accepted /\ exec.kind = "info"
  BY <1>4, OrderReloaded
<1>5. CASE Accepted /\ exec.kind # "info"
  <2>1. pc = "run" /\ Waits
    BY <1>1, <1>5, WaitsIs
  <2>2. CASE exec.kind \in {"smoke", "preflight"} /\ ~(exec.kind = "smoke" /\ Preflights)
    <3>1. Buffering /\ UNCHANGED <<set, pc, pass, prog, dev>>
      BY <1>5, <2>2 DEF Accepted
    <3> QED
      BY <2>1, <2>2, <3>1, OrderBuffering
  <2>3. CASE exec.kind = "flush"
    <3>1. exec' = NoExec /\ UNCHANGED <<set, pc, pass, prog, at, bus, dev>>
      BY <1>5, <2>3 DEF Accepted
    <3>2. Len(dev.log) = Upto(at - 1) /\ bus.pending = <<>> /\ bus.commands = <<>>
          /\ ~set.atomic
      BY <1>1, <2>1, <2>3 DEF Waits, Fits, End, OfOp
    <3>3. IdleAt(bus', dev, at')
      BY <2>1, <3>1, <3>2, Arrives
    <3>4. BuffersAt(bus', at') /\ PausingAt(bus', at')
      BY <2>1, <3>1 DEF Waits, Buffers, Pausing
    <3>5. at' \in 1 .. Len(prog) + 1 /\ bus' \in BusType
      BY <2>1, <3>1 DEF Waits
    <3> QED
      BY <1>1, <2>1, <3>1, <3>3, <3>4, <3>5, Resumes
  <2>4. CASE exec.kind = "run"
    <3>1. bus' = Stopped /\ at' = at + 1 /\ exec' = NoExec /\ UNCHANGED <<set, pc, pass, prog, dev>>
      BY <1>5, <2>4 DEF Accepted, Goes
    <3>2. Len(dev.log) = Upto(at - 1) /\ Op.k = "stop" /\ bus.pending = <<>>
      BY <1>1, <2>1, <2>4 DEF Waits, Fits, End, OfOp
    <3>3. Len(dev.log) = Upto(at)
      BY <2>1, <3>2, OpIs DEF Waits, Silent
    <3>4. /\ bus' \in BusType /\ bus'.on = FALSE /\ bus'.commands = <<>> /\ bus'.pending = <<>>
      BY <2>1, <3>1, <3>2, StoppedIs DEF Waits
    <3>5. IdleAt(bus', dev, at')
      BY <2>1, <3>1, <3>3, <3>4, Arrives DEF Waits
    <3>6. BuffersAt(bus', at') /\ PausingAt(bus', at')
      BY <2>1, <3>1, <3>2, <3>4, PausedOver DEF Waits, BuffersAt
    <3> QED
      BY <1>1, <2>1, <3>1, <3>4, <3>5, <3>6, Resumes DEF Waits
  <2>5. CASE exec.kind = "smoke" /\ Preflights
    <3>1. PICK c \in Cmds, d \in Cmds : c = Cmd("enterq", <<>>) /\ d = Cmd("leaveq", <<>>)
      BY CmdIs
    <3>2. Do(<<c, d>>, "preflight") /\ UNCHANGED <<set, pc, pass, prog, at, bus, dev>>
      BY <1>5, <2>5, <3>1 DEF Accepted
    <3>3. /\ exec'.kind = "preflight" /\ exec'.stage = "seg" /\ exec'.to = 1
          /\ exec'.script = <<c, d>>
      BY <3>2 DEF Do
    <3>4. <<c, d>> \in Seq(Cmds) /\ <<c, d>> # <<>> /\ <<c>> \in Seq(Cmds)
          /\ Append(<<c>>, d) = <<c, d>>
      <4>1. <<c>> \in Seq(Cmds) /\ <<c, d>> \in Seq(Cmds)
        OBVIOUS
      <4>2. Len(<<c, d>>) = 2 /\ <<c, d>>[1] = c /\ <<c, d>>[2] = d
            /\ Len(<<c>>) = 1 /\ <<c>>[1] = c
        OBVIOUS
      <4>3. PICK s \in Seq(Cmds), t \in Seq(Cmds) : s = Append(<<c>>, d) /\ t = <<c, d>>
        BY <4>1, Appended
      <4>4. Len(s) = 2 /\ s[1] = c /\ s[2] = d
        BY <4>1, <4>2, <4>3, Appended
      <4>5. s = t
        <5>1. Len(s) = Len(t) /\ \A i \in 1 .. Len(s) : s[i] = t[i]
          BY <4>2, <4>3, <4>4
        <5> QED
          BY <5>1, SeqEqual
      <4>6. <<c, d>> # <<>>
        BY <4>2
      <4> QED
        BY <4>1, <4>3, <4>5, <4>6
    <3>5. /\ Len(dev.log) = Upto(at - 1) /\ bus.pending = <<>> /\ bus.commands = <<>>
          /\ ~bus.on /\ Op.k \in {"check", "start", "restart", "start2"}
      BY <2>1, <2>5 DEF Waits, Fits, Quiet
    <3>6. Covers(Asked, <<c, d>>, Len(<<c, d>>), Len(dev.log), Len(dev.log))
      <4>1. Size(c) = 0 /\ Size(d) = 0
        BY <3>1, SizeIs DEF Cmd
      <4>2. Holds(Asked, c, Len(dev.log), Len(dev.log)) /\ Holds(Asked, d, Len(dev.log), Len(dev.log))
        BY <2>1, <3>5, <4>1, HoldsNone DEF Waits
      <4>3. Covers(Asked, <<c>>, Len(<<c>>), Len(dev.log), Len(dev.log))
        BY <2>1, <3>5, <4>2, CoversOne DEF Waits
      <4> QED
        BY <3>4, <4>2, <4>3, CoversMore
    <3>7. Fits'
      BY <3>2, <3>3, <3>5 DEF Fits, Op
    <3>8. Pausing'
      BY <1>1, <2>1, <3>2 DEF Waits, Pausing, PausingAt, PausesAt
    <3>9. pmu'.on = FALSE /\ pmu'.len \in Nat /\ pmu'.cmd \in Nat /\ pmu'.pair \in Nat
          /\ mail'.calls = <<>>
      BY <1>1 DEF OrderInv, Typed
    <3>10. /\ exec'.script \in Seq(Cmds) /\ exec'.script # <<>> /\ exec'.kind \in Quiet
           /\ Covers(Asked, exec'.script, Len(exec'.script), Len(dev.log), Len(dev.log))
      BY <3>3, <3>4, <3>6 DEF Quiet
    <3>11. at <= Len(prog)
      BY <2>1 DEF Waits
    <3> QED
      BY <1>1, <2>1, <3>2, <3>3, <3>5, <3>7, <3>8, <3>9, <3>10, <3>11, Continues
  <2>6. CASE exec.kind = "info2"
    <3>1. Do(Probe, "ensure2") /\ UNCHANGED <<set, pc, pass, prog, at, bus, dev>>
      BY <1>5, <2>6 DEF Accepted
    <3>2. /\ exec'.kind = "ensure2" /\ exec'.stage = "seg" /\ exec'.to = 1
          /\ exec'.script = Probe
      BY <3>1 DEF Do
    <3>3. /\ Len(dev.log) = Upto(at - 1) /\ bus.pending = <<>> /\ bus.commands = <<>>
          /\ Op.k = "ensure"
      BY <2>1, <2>6 DEF Waits, Fits, Quiet
    <3>4. /\ Probe \in Seq(Cmds) /\ Probe # <<>>
          /\ Covers(Asked, Probe, Len(Probe), Len(dev.log), Len(dev.log))
      BY <2>1, <3>3, ProbeIs DEF Waits
    <3>5. Fits'
      BY <3>1, <3>2, <3>3 DEF Fits, Op
    <3>6. Pausing'
      BY <1>1, <2>1, <3>1 DEF Waits, Pausing, PausingAt, PausesAt
    <3>7. pmu'.on = FALSE /\ pmu'.len \in Nat /\ pmu'.cmd \in Nat /\ pmu'.pair \in Nat
          /\ mail'.calls = <<>>
      BY <1>1 DEF OrderInv, Typed
    <3>8. /\ exec'.script \in Seq(Cmds) /\ exec'.script # <<>> /\ exec'.kind \in Quiet
          /\ Covers(Asked, exec'.script, Len(exec'.script), Len(dev.log), Len(dev.log))
      BY <3>2, <3>4 DEF Quiet
    <3>9. at <= Len(prog)
      BY <2>1 DEF Waits
    <3> QED
      BY <1>1, <2>1, <3>1, <3>2, <3>3, <3>5, <3>6, <3>7, <3>8, <3>9, Continues
  <2>7. CASE exec.kind \in {"pause", "block", "store", "ensure", "ensure2"}
    <3>1. Goes(bus, 1) /\ exec' = NoExec /\ UNCHANGED <<set, pc, pass, prog, dev>>
      BY <1>5, <2>7 DEF Accepted
    <3> QED
      BY <2>1, <2>7, <3>1, OrderDone
  <2>8. exec.kind \in {"smoke", "preflight", "flush", "run", "info2", "pause", "block",
                       "store", "ensure", "ensure2"}
    BY <2>1 DEF Waits, Fits
  <2> QED
    BY <2>2, <2>3, <2>4, <2>5, <2>6, <2>7, <2>8
<1> QED
  BY <1>2, <1>3, <1>4, <1>5

(* At a deadline: the firmware is dead, unless it may be late and a program *)
(* that goes on is not allowed.                                            *)
LEMMA TimesOutIs ==
    ASSUME TurnInv, OrderInv, TimesOut
    PROVE  /\ exec.stage # "idle" /\ Failed /\ UNCHANGED <<set, pass, prog, dev>>
           /\ pmu.wedged \/ (set.late /\ exec.stage = "reply")
           /\ pc \in {"run", "reload"} /\ (pc = "reload" => exec.kind = "info")
           /\ Lost => exec.kind = "flush"
<1>1. /\ exec.stage \in {"seg", "push", "reply"} /\ Failed
      /\ UNCHANGED <<set, pass, prog, dev>>
  BY DEF TimesOut
<1>2. pmu.wedged \/ (set.late /\ exec.stage = "reply")
  <2>1. ASSUME exec.stage = "push", Len(mail.calls) = Slots, ~pmu.wedged PROVE FALSE
    <3>1. mail.calls = <<>>
      BY <2>1 DEF TurnInv, Turns, AtRest, NoCalls
    <3>2. Len(mail.calls) = 0
      BY <3>1
    <3>3. Slots # 0
      BY Constants
    <3> QED
      BY <2>1, <3>2, <3>3
  <2> QED
    BY <2>1 DEF TimesOut
<1>3. pc \in {"run", "reload"} /\ (pc = "reload" => exec.kind = "info")
  BY <1>1 DEF OrderInv, Hosts, Typed
<1>4. Lost => exec.kind = "flush"
  BY <1>1 DEF Lost, LostAt
<1> QED
  BY <1>1, <1>2, <1>3, <1>4

(* Whether the firmware can take a program was asked, to no answer.        *)
LEMMA OrderCannot ==
    ASSUME TurnInv, OrderInv, pc = "run", Waits, exec.kind = "smoke", CannotStart,
           pmu.wedged \/ set.late, UNCHANGED <<set, pass, prog, dev, mail, pmu>>
    PROVE  OrderInv'
<1>1. /\ ~bus.on /\ Op.k \in {"check", "start", "restart", "start2"}
      /\ Len(dev.log) = Upto(at - 1)
  BY DEF Waits, Fits, Quiet
<1>2. bus' = [bus EXCEPT !.can = FALSE]
  BY DEF CannotStart, Goes
<1>3. CASE set.require \/ Op.k = "start2"
  <2>1. Raise
    BY <1>3 DEF CannotStart
  <2>2. bus' \in BusType
    BY <1>2 DEF Waits, BusType
  <2> QED
    BY <2>1, <2>2, Raises1
<1>4. CASE ~(set.require \/ Op.k = "start2")
  <2>1. at' = at + 1 /\ exec' = NoExec /\ UNCHANGED pc
    BY <1>4 DEF CannotStart, Goes
  <2>2. pmu.wedged
    BY <1>4 DEF TurnInv, Bound
  <2>3. /\ bus' \in BusType /\ bus'.on = FALSE
        /\ bus'.pending = <<>> /\ bus'.commands = <<>>
        /\ BuffersAt(bus', at + 1) /\ PausingAt(bus', at + 1)
    <3>1. /\ Op.k \in {"check", "start", "restart"} /\ ~bus.on
          /\ Typed /\ Buffers /\ Pausing /\ at <= Len(prog)
      BY <1>1, <1>4 DEF Waits
    <3> QED
      BY <1>2, <2>2, <3>1, Unbuffered
  <2>4. Len(dev.log) = Upto(at + 1 - 1)
    BY <1>1, OpIs DEF Waits, Silent
  <2>5. IdleAt(bus', dev, at + 1)
    <3>1. PICK b, n : b = bus' /\ n = at + 1
      OBVIOUS
    <3>2. IdleAt(b, dev, n)
      BY <2>3, <2>4, <3>1, Arrives DEF Waits
    <3> QED
      BY <3>1, <3>2
  <2>6. at' \in 1 .. Len(prog) + 1
    BY <2>1 DEF Waits
  <2> QED
    BY <2>1, <2>2, <2>3, <2>5, <2>6, Resumes
<1> QED
  BY <1>3, <1>4

(* The pause could not be ended: the program goes on, and is lost.         *)
LEMMA OrderUnpaused ==
    ASSUME TurnInv, OrderInv, pc = "run", Waits, exec.kind = "block", Op.k = "unblock",
           Goes(bus, 1), exec' = NoExec, pmu.wedged \/ set.late,
           UNCHANGED <<set, pc, pass, prog, dev, mail, pmu>>
    PROVE  OrderInv'
<1>1. /\ set.block = "enter" /\ bus.pending = <<>> /\ bus' = bus /\ at' = at + 1
  BY DEF Waits, Fits, Goes
<1>2. pmu.wedged
  BY <1>1 DEF TurnInv, Bound
<1>3. PICK f, u : Shape(prog, f, u) /\ PausesAt(bus, at, f, u)
  BY <1>1 DEF Waits, Pausing, PausingAt
<1>4. at = u /\ u \in f + 1 .. Len(prog) - 1 /\ f \in 2 .. Len(prog) /\ Len(prog) \in Nat
  BY <1>3 DEF Shape, Waits, Op
<1>5. bus.on
  BY <1>3, <1>4 DEF PausesAt
<1>6. LostAt(bus', exec', at', f, u)
  <2>1. at + 1 \in u + 1 .. Len(prog) /\ at + 1 = u + 1
    BY <1>4
  <2>2. \A j \in u + 1 .. at + 1 - 1 : prog[j].k \in Accesses
    BY <1>4
  <2>3. exec'.stage = "idle"
    BY DEF NoExec
  <2> QED
    BY <1>1, <1>2, <1>3, <1>5, <2>1, <2>2, <2>3 DEF LostAt
<1>7. BuffersAt(bus', at')
  <2>1. prog[at' - 1].k \notin {"stop", "ensure", "store"} /\ at' # 1
    BY <1>1 DEF Waits, Op
  <2>2. ~set.atomic => bus.commands = <<>>
    BY DEF Waits, Buffers, BuffersAt
  <2> QED
    BY <1>1, <1>5, <2>1, <2>2 DEF BuffersAt
<1>8. PausingAt(bus', at')
  <2>1. ~(at + 1 <= f) /\ at + 1 # f /\ ~(at + 1 \in f + 1 .. u)
    BY <1>4
  <2>2. PausesAt(bus', at + 1, f, u)
    BY <2>1 DEF PausesAt
  <2> QED
    BY <1>1, <1>3, <2>2 DEF PausingAt
<1>9. bus' \in BusType /\ at' \in 1 .. Len(prog) + 1
  BY <1>1 DEF Waits
<1> QED
  BY <1>2, <1>6, <1>7, <1>8, <1>9, Resumes

(* The probe before the words after the program found the firmware gone: it *)
(* is reset and asked again.                                               *)
LEMMA OrderEnsures ==
    ASSUME TurnInv, OrderInv, pc = "run", Waits, exec.kind = "ensure",
           Reset, Asks("info2"), UNCHANGED <<set, pc, pass, prog, at, bus, dev>>
    PROVE  OrderInv'
<1>1. /\ pmu'.on = FALSE /\ pmu'.len \in Nat /\ pmu'.cmd \in Nat /\ pmu'.pair \in Nat
      /\ mail'.calls = <<>> /\ mail'.seg = mail.seg /\ mail'.sent = mail.sent
  BY DEF Reset, NoRun, TurnInv, Shapes
<1>2. /\ exec'.kind = "info2" /\ exec'.stage = "push" /\ exec'.to = 0 /\ exec'.script = <<>>
  BY DEF Asks, NoExec
<1>3. /\ Len(dev.log) = Upto(at - 1) /\ bus.pending = <<>> /\ bus.commands = <<>>
      /\ Op.k = "ensure" /\ at <= Len(prog)
  BY DEF Waits, Fits, Quiet
<1>4. Fits'
  BY <1>2, <1>3 DEF Fits, Op
<1>5. Covers(Asked, exec'.script, Len(exec'.script), Len(dev.log), Len(dev.log))
  <2>1. Len(exec'.script) = 0
    BY <1>2
  <2> QED
    BY <1>3, <2>1, CoversNone DEF Waits
<1>6. Pausing'
  <2>1. PICK f, u : Shape(prog, f, u)
    BY ProgIs DEF Waits
  <2>2. at > u /\ u > f /\ u \in Nat /\ f \in Nat /\ at \in Nat
    BY <1>3, <2>1 DEF Shape, Op, Waits
  <2>3. PausesAt(bus, at, f, u)'
    BY <2>2 DEF PausesAt
  <2> QED
    BY <2>1, <2>3 DEF Pausing, PausingAt
<1>7. exec'.script \in Seq(Cmds) /\ exec'.kind \in Quiet
  BY <1>2 DEF Quiet
<1> QED
  BY <1>1, <1>2, <1>3, <1>4, <1>5, <1>6, <1>7, Continues

(* The host gives up.                                                      *)
LEMMA OrderTimesOut ==
    ASSUME TurnInv, OrderInv, TimesOut
    PROVE  OrderInv'
<1>1. /\ exec.stage # "idle" /\ Failed /\ UNCHANGED <<set, pass, prog, dev>>
      /\ pmu.wedged \/ set.late
      /\ pc \in {"run", "reload"} /\ (pc = "reload" => exec.kind = "info")
      /\ Lost => exec.kind = "flush"
  BY TimesOutIs
<1>2. bus \in BusType
  BY DEF OrderInv, Typed
<1>3. pc = "run" /\ exec.kind # "flush" => Waits
  BY <1>1, WaitsIs
<1>4. CASE exec.kind = "flush"
  <2>1. bus' = [bus EXCEPT !.on = FALSE, !.can = FALSE] /\ Raise /\ UNCHANGED <<mail, pmu>>
    BY <1>1, <1>4 DEF Failed
  <2>2. bus' \in BusType
    BY <1>2, <2>1 DEF BusType
  <2> QED
    BY <1>1, <2>1, <2>2, Raises1
<1>5. CASE exec.kind = "smoke"
  <2>1. CannotStart /\ UNCHANGED <<mail, pmu>>
    BY <1>1, <1>5 DEF Failed
  <2> QED
    BY <1>1, <1>3, <1>5, <2>1, OrderCannot
<1>6. CASE exec.kind = "block" /\ Op.k = "unblock"
  <2>1. Goes(bus, 1) /\ exec' = NoExec /\ UNCHANGED <<pc, mail, pmu>>
    BY <1>1, <1>6 DEF Failed
  <2> QED
    BY <1>1, <1>3, <1>6, <2>1, OrderUnpaused
<1>7. CASE exec.kind = "ensure"
  <2>1. Reset /\ Asks("info2") /\ UNCHANGED <<pc, at, bus>>
    BY <1>1, <1>7 DEF Failed
  <2> QED
    BY <1>1, <1>3, <1>7, <2>1, OrderEnsures
<1>8. CASE exec.kind = "info"
  <2>1. pc' = "raised" /\ exec' = NoExec /\ UNCHANGED <<at, bus, mail, pmu>>
    BY <1>1, <1>8 DEF Failed
  <2> QED
    BY <1>1, <1>2, <2>1, Ends
<1>9. CASE exec.kind \notin {"flush", "smoke", "ensure", "info"}
           /\ ~(exec.kind = "block" /\ Op.k = "unblock")
  <2>1. Raise /\ UNCHANGED <<bus, mail, pmu>>
    BY <1>1, <1>9 DEF Failed
  <2> QED
    BY <1>1, <1>2, <2>1, Raises1
<1> QED
  BY <1>4, <1>5, <1>6, <1>7, <1>8, <1>9

(* falcon_reset, before the firmware is loaded again.                      *)
LEMMA OrderReload ==
    ASSUME TurnInv, OrderInv, Reload
    PROVE  OrderInv'
<1>1. /\ pc = "reload" /\ Reset /\ Asks("info")
      /\ UNCHANGED <<set, pc, pass, prog, at, bus, dev>>
  BY DEF Reload
<1>2. /\ pmu'.on = FALSE /\ pmu'.len \in Nat /\ pmu'.cmd \in Nat /\ pmu'.pair \in Nat
      /\ mail'.calls = <<>> /\ mail'.seg = mail.seg /\ mail'.sent = mail.sent
  BY <1>1 DEF Reset, NoRun, TurnInv, Shapes
<1>3. /\ exec'.kind = "info" /\ exec'.stage = "push" /\ exec'.to = 0 /\ exec'.script = <<>>
  BY <1>1 DEF Asks, NoExec
<1>4. Typed'
  <2>1. <<>> \in Seq(Calls) /\ <<>> \in Seq(Cmds)
    OBVIOUS
  <2> QED
    BY <1>1, <1>2, <1>3, <2>1 DEF OrderInv, Typed
<1>5. Conforms'
  BY <1>1, SameConforms DEF OrderInv
<1>6. Machine'
  BY <1>2 DEF Machine, OneCall, Working
<1>7. Filling'
  <2>1. Len(exec'.script) = 0 /\ Len(mail'.seg) \in Nat
    BY <1>3, <1>4 DEF Typed
  <2> QED
    BY <1>3, <2>1 DEF Filling, Same
<1>8. Hosts'
  BY <1>1, <1>3 DEF Hosts
<1> QED
  BY <1>4, <1>5, <1>6, <1>7, <1>8 DEF OrderInv

-----------------------------------------------------------------------------
(* The theorem.                                                            *)

(* ENTER of a pause the host asks for by itself is run at once, not in the *)
(* place of a script that is still being built.                            *)
PausesApart == \A s \in Settings : s.block = "enter" => ~s.atomic

(* The invariant holds at first.                                           *)
LEMMA OrderInit ==
    ASSUME Init, PausesApart
    PROVE  OrderInv
<1>1. set \in Setting /\ (set.block = "enter" => ~set.atomic /\ ~set.wait)
  BY SettingAssumption DEF Init, PausesApart
<1>2. dev \in DevType /\ dev.log = <<>> /\ dev.base = dev.regs
  <2>1. PICK z \in [Regs -> Values] : z = [r \in Regs |-> 0]
    BY Constants
  <2>2. dev = [regs |-> z, paused |-> FALSE, log |-> <<>>, base |-> z]
    BY <2>1 DEF Init
  <2>3. <<>> \in Seq(Happening)
    OBVIOUS
  <2> QED
    BY <2>2, <2>3 DEF DevType
<1>3. Fresh
  BY <1>1, <1>2 DEF Init, Fresh, NoExec, NoRun
<1> QED
  BY <1>3, FreshIs

(* Every step keeps it.                                                    *)
LEMMA OrderNext ==
    ASSUME TurnInv, TurnInv', OrderInv, [Next]_vars
    PROVE  OrderInv'
<1>1. CASE Flush
  BY <1>1, OrderFlush
<1>2. CASE Access
  BY <1>2, AccessLost, AccessAhead
<1>3. CASE Pause \/ Block \/ Start
  BY <1>3, OrderPause, OrderBlock, OrderStart
<1>4. CASE Stop \/ Pramin \/ PassDone
  BY <1>4, OrderStop, OrderPramin, OrderPassDone
<1>5. CASE Fill \/ Push \/ Reply
  BY <1>5, OrderFill, OrderPush, OrderReply
<1>6. CASE TimesOut \/ Reload
  BY <1>6, OrderTimesOut, OrderReload
<1>7. CASE Firmware
  BY <1>7, OrderTake, OrderExecute, OrderAnswer DEF Firmware
<1>8. CASE Wedge
  BY <1>8, OrderWedge
<1>9. CASE UNCHANGED vars
  <2>1. Run' = Run /\ Asked' = Asked /\ \A m : Upto(m)' = Upto(m)
    BY <1>9, SameRun DEF vars
  <2>2. Typed' /\ Filling'
    BY <1>9 DEF vars, OrderInv, Typed, Filling, Same
  <2>3. Conforms'
    BY <1>9, SameConforms DEF vars, OrderInv
  <2>4. End' = End
    BY <1>9, <2>1 DEF vars, End
  <2>5. Machine'
    BY <1>9, <2>1, <2>4 DEF vars, OrderInv, Machine, OneCall, Working, Job, Executes
  <2>6. Buffers' = Buffers /\ Pausing' = Pausing /\ Lost' = Lost
    BY <1>9 DEF vars, Buffers, BuffersAt, Pausing, PausingAt, PausesAt, Lost, LostAt
  <2>7. Busy' = Busy /\ Idle' = Idle
    BY <1>9, <2>1, <2>4 DEF vars, Busy, Fits, Op, Idle, IdleAt, ShadowedAt
  <2>8. Hosts'
    BY <1>9, <2>1, <2>6, <2>7 DEF vars, OrderInv, Hosts
  <2> QED
    BY <2>2, <2>3, <2>5, <2>8 DEF OrderInv
<1> QED
  BY <1>1, <1>2, <1>3, <1>4, <1>5, <1>6, <1>7, <1>8, <1>9 DEF Next, Host, Over

(* What the invariant says of the property.                                *)
LEMMA OrderShows == OrderInv => InProgramOrder
<1> SUFFICES ASSUME OrderInv PROVE InProgramOrder
  OBVIOUS
<1>1. Typed /\ Conforms
  BY DEF OrderInv
<1>2. /\ dev.log \in Seq(Happening) /\ Len(dev.log) <= Len(Asked)
      /\ \A i \in 1 .. Len(dev.log) : Asked[i] = dev.log[i]
  BY <1>1, Seen
<1>3. IsPrefix(dev.log, Asked)
  <2>1. Asked \in Seq(Happening)
    BY <1>1, RunIs DEF Point
  <2> QED
    BY <1>2, <2>1 DEF IsPrefix
<1>4. pc = "done" => dev.log = Asked
  BY DEF OrderInv, Hosts
<1> QED
  BY <1>3, <1>4 DEF InProgramOrder

(* The controller sees the stores, delays and pauses of the program in the *)
(* program's order, none twice and none left out, each decided by the      *)
(* values a straight run would have read; all of them when the program     *)
(* reports success: for every program, ring, chunk and segment size, with  *)
(* a firmware that dies or is late where it likes (_MemxBus, pmu_send).    *)
THEOREM InProgramOrderHolds ==
    DeadlinesEnd /\ PausesApart => (Spec => []InProgramOrder)
<1> SUFFICES ASSUME DeadlinesEnd, PausesApart PROVE Spec => []InProgramOrder
  OBVIOUS
<1>1. Init => TurnInv /\ OrderInv
  BY TurnInit, OrderInit
<1>2. TurnInv /\ [Next]_vars => TurnInv'
  BY TurnNext
<1>3. TurnInv /\ TurnInv' /\ OrderInv /\ [Next]_vars => OrderInv'
  BY OrderNext
<1>4. OrderInv => InProgramOrder
  BY OrderShows
<1> QED
  BY <1>1, <1>2, <1>3, <1>4, PTL DEF Spec

-----------------------------------------------------------------------------
(* The framebuffer.                                                        *)

Stops == {"enter", "leave"}
Hush == {"enterq", "leaveq"}

(* Only ram_block and ram_unblock add such events to the straight run.     *)
LEMMA ApplyStops ==
    ASSUME NEW d \in Point, NEW o \in AnyOp, NEW block, NEW e \in Happening,
           Apply(d, o, block).log = Append(d.log, e), e.k \in Stops
    PROVE  /\ block # "0"
           /\ (o.k = "block" /\ e.k = "enter") \/ (o.k = "unblock" /\ e.k = "leave")
<1>1. d.log \in Seq(Happening) /\ o.reg \in Regs /\ o.val \in Values
  BY DEF Point, AnyOp
<1>2. ASSUME NEW x \in Happening, NEW y \in Happening, Append(d.log, x) = Append(d.log, y)
      PROVE  x = y
  <2>1. Append(d.log, x)[Len(d.log) + 1] = x /\ Append(d.log, y)[Len(d.log) + 1] = y
    BY <1>1, Appended
  <2> QED
    BY <1>2, <2>1
<1>3. Append(d.log, e) # d.log
  <2>1. Len(Append(d.log, e)) = Len(d.log) + 1 /\ Len(d.log) \in Nat
    BY <1>1, Appended
  <2> QED
    BY <2>1
<1>4. CASE o.k \in Accesses \cup {"store"}
  <2>1. Apply(d, o, block) = d \/ Apply(d, o, block) = Stored(d, o.reg, o.val)
    BY <1>4 DEF Apply, Accesses
  <2>2. PICK r \in Regs, v \in Values : r = o.reg /\ v = o.val
    BY <1>1
  <2>3. PICK x \in Happening : x = O("wr", r, v)
    BY EventIs
  <2>4. x.k = "wr"
    BY <2>3 DEF O
  <2>5. Stored(d, r, v).log = Append(d.log, x)
    BY <2>3, EventIs
  <2>6. Apply(d, o, block).log = d.log \/ Apply(d, o, block).log = Append(d.log, x)
    BY <2>1, <2>2, <2>5
  <2> QED
    BY <1>2, <1>3, <2>4, <2>6 DEF Stops
<1>5. CASE o.k \in {"delay", "wait"}
  <2>1. Apply(d, o, block) = Logged(d, o.k)
    BY <1>5 DEF Apply, Accesses
  <2>2. PICK x \in Happening : x = Plain(o.k) /\ x.k = o.k
    BY <1>5, PlainIs
  <2>3. Apply(d, o, block).log = Append(d.log, x)
    BY <1>5, <2>1, <2>2, EventIs
  <2> QED
    BY <1>2, <1>5, <2>2, <2>3 DEF Stops
<1>6. CASE o.k \in {"block", "unblock"} /\ block # "0"
  <2>1. PICK k \in Stops : k = IF o.k = "block" THEN "enter" ELSE "leave"
    BY DEF Stops
  <2>2. Apply(d, o, block) = Logged(d, k)
    BY <1>6, <2>1 DEF Apply, Accesses
  <2>3. PICK x \in Happening : x = Plain(k) /\ x.k = k
    BY <2>1, PlainIs DEF Stops
  <2>4. Apply(d, o, block).log = Append(d.log, x)
    BY <2>1, <2>2, <2>3, EventIs DEF Stops
  <2> QED
    BY <1>2, <1>6, <2>1, <2>3, <2>4
<1>7. CASE o.k \notin Accesses \cup {"store", "delay", "wait"}
           /\ ~(o.k \in {"block", "unblock"} /\ block # "0")
  <2>1. Apply(d, o, block) = d
    BY <1>7 DEF Apply, Accesses
  <2> QED
    BY <1>3, <2>1
<1> QED
  BY <1>4, <1>5, <1>6, <1>7

(* The operation an event of the straight run comes from.                  *)
LEMMA EventOf ==
    ASSUME Typed, NEW i \in 1 .. Len(Asked)
    PROVE  \E m \in 1 .. Len(prog) :
             /\ Upto(m) = i /\ Upto(m - 1) = i - 1
             /\ Asked[i].k \in Stops =>
                  /\ set.block # "0"
                  /\ \/ prog[m].k = "block" /\ Asked[i].k = "enter"
                     \/ prog[m].k = "unblock" /\ Asked[i].k = "leave"
<1>1. /\ Course(Run, Len(prog)) /\ Asked = Run[Len(prog)].log /\ Run[0].log = <<>>
      /\ \A n \in 1 .. Len(prog) : Run[n] = Apply(Run[n - 1], prog[n], set.block)
      /\ \A n \in 0 .. Len(prog) : Run[n] \in Point /\ Upto(n) \in Nat
      /\ Len(Asked) \in Nat /\ Len(prog) \in Nat
      /\ \A n \in 1 .. Len(prog) : prog[n] \in AnyOp
  BY RunIs, ProgIs DEF Course
<1>2. PICK m \in 1 .. Len(prog) : Upto(m) >= i /\ Upto(m - 1) < i /\ m - 1 \in 0 .. Len(prog)
  <2> DEFINE X == {n \in 0 .. Len(prog) : Upto(n) >= i}
  <2>1. Len(prog) \in X /\ X \in SUBSET Nat
    BY <1>1 DEF Upto
  <2>2. PICK m \in X : m \in Nat /\ (m # 0 => m - 1 \in Nat \ X)
    BY <2>1, LeastOf
  <2>3. m \in 0 .. Len(prog) /\ Upto(m) >= i /\ Upto(0) = 0
    BY <1>1, <2>2 DEF Upto
  <2>4. m # 0
    BY <2>3
  <2>5. m \in 1 .. Len(prog) /\ m - 1 \in 0 .. Len(prog) /\ m - 1 \notin X
    BY <1>1, <2>2, <2>3, <2>4
  <2>6. Upto(m - 1) \in Nat /\ ~(Upto(m - 1) >= i)
    BY <1>1, <2>5
  <2> QED
    BY <2>3, <2>5, <2>6
<1>3. PICK e \in Happening : Run[m].log = Append(Run[m - 1].log, e)
  <2>1. Run[m].log # Run[m - 1].log
    BY <1>1, <1>2 DEF Upto
  <2> QED
    BY <1>1, <1>2, <2>1 DEF Course
<1>4. Run[m - 1] \in Point /\ Run[m - 1].log \in Seq(Happening) /\ m \in 0 .. Len(prog)
  BY <1>1, <1>2 DEF Point
<1>5. Upto(m) = Upto(m - 1) + 1 /\ Run[m].log[Upto(m)] = e
  BY <1>3, <1>4, Appended DEF Upto
<1>6. Upto(m) = i /\ Upto(m - 1) = i - 1
  BY <1>1, <1>2, <1>4, <1>5, SMTT(30)
<1>7. Asked[i] = e
  <2>1. Len(prog) \in m .. Len(prog) /\ i \in 1 .. Len(Run[m].log)
    BY <1>1, <1>2, <1>6 DEF Upto
  <2>2. Run[Len(prog)].log[i] = Run[m].log[i]
    BY <1>1, <1>4, <2>1, CourseGrows
  <2> QED
    BY <1>1, <1>5, <1>6, <2>2
<1>8. e.k \in Stops =>
        /\ set.block # "0"
        /\ (prog[m].k = "block" /\ e.k = "enter") \/ (prog[m].k = "unblock" /\ e.k = "leave")
  <2>1. PICK d \in Point, o \in AnyOp : d = Run[m - 1] /\ o = prog[m]
    BY <1>1, <1>4
  <2>2. Apply(d, o, set.block).log = Append(d.log, e)
    BY <1>1, <1>3, <2>1
  <2>3. e.k \in Stops =>
          /\ set.block # "0"
          /\ (o.k = "block" /\ e.k = "enter") \/ (o.k = "unblock" /\ e.k = "leave")
    BY <2>2, ApplyStops
  <2> QED
    BY <2>1, <2>3
<1> QED
  BY <1>6, <1>7, <1>8

(* Before ram_block there is none, behind ram_unblock none follows.        *)
LEMMA StopsWhere ==
    ASSUME Typed, NEW f, NEW u, Shape(prog, f, u)
    PROVE  /\ \A n \in 0 .. f - 1 : \A i \in 1 .. Upto(n) : Asked[i].k \notin Stops
           /\ \A i \in Upto(u) + 1 .. Len(Asked) : Asked[i].k \notin Stops
           /\ set.block # "0" => Upto(u) \in 1 .. Len(Asked) /\ Asked[Upto(u)].k = "leave"
<1>1. /\ Course(Run, Len(prog)) /\ Len(prog) \in Nat /\ Len(Asked) \in Nat
      /\ \A n \in 0 .. Len(prog) : Upto(n) \in Nat /\ Upto(n) <= Len(Asked) /\ Run[n] \in Point
      /\ \A n \in 1 .. Len(prog) : Run[n] = Apply(Run[n - 1], prog[n], set.block)
      /\ Asked = Run[Len(prog)].log
  BY RunIs, ProgIs
<1>2. /\ f \in 2 .. Len(prog) /\ u \in f + 1 .. Len(prog) - 1
      /\ \A n \in 1 .. Len(prog) : (prog[n].k = "block" <=> n = f) /\ (prog[n].k = "unblock" <=> n = u)
  BY DEF Shape
<1>3. ASSUME NEW n \in 0 .. Len(prog), NEW m \in n .. Len(prog) PROVE Upto(n) <= Upto(m)
  BY <1>1, CourseGrows DEF Upto
<1>4. ASSUME NEW n \in 0 .. f - 1, NEW i \in 1 .. Upto(n) PROVE Asked[i].k \notin Stops
  <2>1. n \in 0 .. Len(prog) /\ Upto(n) \in Nat /\ Upto(n) <= Len(Asked)
    BY <1>1, <1>2
  <2>2. i \in 1 .. Len(Asked)
    BY <1>1, <2>1
  <2>3. PICK m \in 1 .. Len(prog) :
          /\ Upto(m) = i /\ Upto(m - 1) = i - 1
          /\ Asked[i].k \in Stops => prog[m].k \in {"block", "unblock"}
    BY <2>2, EventOf
  <2>4. m <= n
    <3>1. SUFFICES ASSUME n < m PROVE FALSE
      BY <2>1
    <3>2. m - 1 \in n .. Len(prog)
      BY <1>1, <2>1, <3>1
    <3>3. Upto(n) <= i - 1
      BY <1>3, <2>1, <2>3, <3>2
    <3> QED
      BY <2>1, <3>3
  <2> QED
    BY <1>2, <2>3, <2>4
<1>5. ASSUME NEW i \in Upto(u) + 1 .. Len(Asked) PROVE Asked[i].k \notin Stops
  <2>1. u \in 0 .. Len(prog) /\ Upto(u) \in Nat /\ f < u
    BY <1>1, <1>2
  <2>2. i \in 1 .. Len(Asked) /\ i > Upto(u)
    BY <1>1, <2>1
  <2>3. PICK m \in 1 .. Len(prog) :
          /\ Upto(m) = i /\ Upto(m - 1) = i - 1
          /\ Asked[i].k \in Stops => prog[m].k \in {"block", "unblock"}
    BY <2>2, EventOf
  <2>4. m > u
    <3>1. SUFFICES ASSUME m <= u PROVE FALSE
      BY <2>1
    <3>2. m \in 0 .. Len(prog) /\ u \in m .. Len(prog)
      BY <1>1, <2>1, <3>1
    <3>3. i <= Upto(u)
      BY <1>3, <2>3, <3>2
    <3> QED
      BY <2>1, <2>2, <3>3
  <2> QED
    BY <1>2, <2>1, <2>3, <2>4
<1>6. ASSUME set.block # "0" PROVE Upto(u) \in 1 .. Len(Asked) /\ Asked[Upto(u)].k = "leave"
  <2>1. u \in 1 .. Len(prog) /\ u - 1 \in 0 .. Len(prog) /\ u \in 0 .. Len(prog)
        /\ Len(prog) \in u .. Len(prog) /\ prog[u].k = "unblock"
    BY <1>1, <1>2
  <2>2. Run[u] = Logged(Run[u - 1], "leave")
    <3>1. Run[u] = Apply(Run[u - 1], prog[u], set.block)
      BY <1>1, <2>1
    <3>2. Apply(Run[u - 1], prog[u], set.block) = Logged(Run[u - 1], "leave")
      BY <1>6, <2>1 DEF Apply, Accesses
    <3> QED
      BY <3>1, <3>2
  <2>3. PICK e \in Happening : e = Plain("leave") /\ e.k = "leave"
    BY PlainIs
  <2>4. Run[u].log = Append(Run[u - 1].log, e) /\ Run[u - 1].log \in Seq(Happening)
    <3>1. Run[u - 1] \in Point
      BY <1>1, <2>1
    <3> QED
      BY <2>2, <2>3, <3>1, EventIs DEF Point
  <2>5. Upto(u) = Upto(u - 1) + 1 /\ Run[u].log[Upto(u)] = e /\ Upto(u - 1) \in Nat
    BY <1>1, <2>1, <2>4, Appended DEF Upto
  <2>6. Upto(u) \in 1 .. Len(Run[u].log) /\ Upto(u) \in 1 .. Len(Asked)
    BY <1>1, <2>1, <2>5 DEF Upto
  <2>7. Run[Len(prog)].log[Upto(u)] = Run[u].log[Upto(u)]
    <3>1. PICK k \in 1 .. Len(Run[u].log) : k = Upto(u)
      BY <2>6
    <3>2. Run[Len(prog)].log[k] = Run[u].log[k]
      BY <1>1, <2>1, <3>1, CourseGrows, SMTT(30)
    <3> QED
      BY <3>1, <3>2
  <2> QED
    BY <1>1, <2>3, <2>5, <2>6, <2>7
<1> QED
  BY <1>4, <1>5, <1>6

(* The last pause of the log says whether the framebuffer is paused.       *)
SettledAt(log, paused) ==
    \A i \in 1 .. Len(log) :
        log[i].k \in Stops /\ (\A j \in i + 1 .. Len(log) : log[j].k \notin Stops)
          => paused = (log[i].k = "enter")
Settled == SettledAt(dev.log, dev.paused)

(* Only the preflight pauses without an event, and before ram_block.       *)
Loud(cs) == \A i \in 1 .. Len(cs) : cs[i].k \notin Hush
Scripts ==
    /\ Loud(bus.commands)
    /\ exec.stage # "idle" /\ exec.kind # "preflight" => Loud(exec.script)
    /\ exec.stage # "idle" /\ exec.kind = "preflight" =>
         /\ Len(exec.script) = 2 /\ exec.script[1].k = "enterq" /\ exec.script[2].k = "leaveq"
         /\ Op.k \in {"check", "start", "restart"}

(* The firmware has the script of the command in flight.                   *)
Placed == exec.stage = "reply" /\ ~pmu.wedged /\ Working =>
            Job.len = Len(exec.script) /\ Same(Len(exec.script))

(* Without pauses of its own a program is paused by the preflight alone.   *)
Preflighting == exec.kind = "preflight" /\ exec.stage = "reply"
                /\ (pmu.wedged \/ (pmu.on /\ pmu.cmd = 2))

PauseInv ==
    /\ pc = "run" => /\ Settled /\ Scripts /\ Placed
                     /\ set.block = "0" /\ dev.paused => Preflighting
    /\ pc = "done" => /\ Settled /\ (set.block = "0" => ~dev.paused)
                      /\ ~pmu.wedged => ~pmu.on /\ mail.calls = <<>>

(* A script of one command more.                                           *)
LEMMA LoudIs ==
    /\ Loud(<<>>)
    /\ \A c \in Cmds : c.k \notin Hush => Loud(<<c>>)
    /\ \A cs \in Seq(Cmds) : \A c \in Cmds :
         Loud(cs) /\ c.k \notin Hush => Loud(Append(cs, c))
<1>1. Loud(<<>>)
  BY DEF Loud
<1>2. ASSUME NEW c \in Cmds, c.k \notin Hush PROVE Loud(<<c>>)
  <2>1. Len(<<c>>) = 1 /\ <<c>>[1] = c
    OBVIOUS
  <2> QED
    BY <1>2, <2>1 DEF Loud
<1>3. ASSUME NEW cs \in Seq(Cmds), NEW c \in Cmds, Loud(cs), c.k \notin Hush
      PROVE  Loud(Append(cs, c))
  <2>1. PICK t : t = Append(cs, c)
    OBVIOUS
  <2>2. Len(t) = Len(cs) + 1 /\ Len(cs) \in Nat /\ t[Len(cs) + 1] = c
        /\ \A i \in 1 .. Len(cs) : t[i] = cs[i]
    BY <2>1, Appended
  <2>3. Loud(t)
    BY <1>3, <2>2 DEF Loud
  <2> QED
    BY <2>1, <2>3
<1> QED
  BY <1>1, <1>2, <1>3

(* An event that is no pause leaves the framebuffer, and a pause sets it.  *)
LEMMA SettledMore ==
    ASSUME NEW log \in Seq(Happening), NEW e \in Happening, NEW p, NEW q,
           SettledAt(log, p),
           \/ e.k \notin Stops /\ q = p
           \/ e.k \in Stops /\ q = (e.k = "enter")
    PROVE  SettledAt(Append(log, e), q)
<1>1. PICK t, n : t = Append(log, e) /\ n = Len(log)
  OBVIOUS
<1>2. Len(t) = n + 1 /\ n \in Nat /\ t[n + 1] = e /\ \A i \in 1 .. n : t[i] = log[i]
  BY <1>1, Appended
<1>3. ASSUME NEW i \in 1 .. Len(t), t[i].k \in Stops,
             \A j \in i + 1 .. Len(t) : t[j].k \notin Stops
      PROVE  q = (t[i].k = "enter")
  <2>1. CASE i = n + 1
    BY <1>2, <1>3, <2>1
  <2>2. CASE i # n + 1
    <3>1. i \in 1 .. n /\ n + 1 \in i + 1 .. Len(t)
      BY <1>2, <2>2
    <3>2. e.k \notin Stops /\ q = p
      BY <1>2, <1>3, <3>1
    <3>3. log[i].k \in Stops /\ \A j \in i + 1 .. n : log[j].k \notin Stops
      BY <1>2, <1>3, <3>1
    <3> QED
      BY <1>1, <1>2, <3>1, <3>2, <3>3 DEF SettledAt
  <2> QED
    BY <2>1, <2>2
<1>4. SettledAt(t, q)
  BY <1>3 DEF SettledAt
<1> QED
  BY <1>1, <1>4

(* A step after which no script is announced.                              *)
LEMMA PauseSet ==
    ASSUME pc' = "run", exec'.stage # "reply", Settled', Scripts',
           set'.block = "0" => ~dev'.paused
    PROVE  PauseInv'
BY DEF PauseInv, Placed

(* The program ends, or waits for a reload.                                *)
LEMMA PauseEnds == ASSUME pc' \notin {"run", "done"} PROVE PauseInv'
BY DEF PauseInv

(* A step of the program between two commands, which queues a command at   *)
(* most, and begins a script that is no preflight.                         *)
LEMMA PauseRests ==
    ASSUME OrderInv, PauseInv, pc = "run", exec.stage = "idle", pc' = "run", set' = set,
           NEW c \in Cmds, c.k \notin Hush,
           bus'.commands \in {bus.commands, <<>>, Append(bus.commands, c)},
           \/ exec' = exec
           \/ exec' = NoExec
           \/ \E kind : /\ kind # "preflight"
                        /\ Do(<<c>>, kind) \/ Do(bus.commands, kind),
           \/ dev' = dev
           \/ \E e \in Happening : /\ e.k \notin Stops /\ dev'.paused = dev.paused
                                   /\ dev'.log = Append(dev.log, e)
    PROVE  PauseInv'
<1>1. /\ Settled /\ Loud(bus.commands) /\ bus.commands \in Seq(Cmds)
      /\ dev.log \in Seq(Happening) /\ (set.block = "0" => ~dev.paused)
  BY DEF PauseInv, Scripts, Preflighting, OrderInv, Typed, BusType, DevType
<1>2. dev'.paused = dev.paused
  OBVIOUS
<1>3. Settled'
  <2>1. CASE dev' = dev
    BY <1>1, <2>1 DEF Settled
  <2>2. CASE dev' # dev
    <3>1. PICK e \in Happening : e.k \notin Stops /\ dev'.log = Append(dev.log, e)
      BY <2>2
    <3> QED
      BY <1>1, <1>2, <3>1, SettledMore DEF Settled
  <2> QED
    BY <2>1, <2>2
<1>4. Loud(bus'.commands)
  BY <1>1, LoudIs
<1>5. exec'.stage # "reply"
      /\ (exec'.stage # "idle" => exec'.kind # "preflight" /\ Loud(exec'.script))
  <2>1. CASE exec' = exec \/ exec' = NoExec
    BY <2>1 DEF NoExec
  <2>2. CASE ~(exec' = exec \/ exec' = NoExec)
    <3>1. PICK kind : /\ kind # "preflight"
                      /\ Do(<<c>>, kind) \/ Do(bus.commands, kind)
      BY <2>2
    <3>2. Loud(<<c>>)
      BY LoudIs
    <3> QED
      BY <1>1, <3>1, <3>2, SMTT(30) DEF Do
  <2> QED
    BY <2>1, <2>2
<1>6. Scripts'
  BY <1>4, <1>5 DEF Scripts
<1> QED
  BY <1>1, <1>2, <1>3, <1>5, <1>6, PauseSet

(* Between two commands.                                                   *)
LEMMA PauseRun ==
    ASSUME OrderInv, PauseInv,
           Flush \/ Access \/ Pause \/ Block \/ Start \/ Stop \/ Pramin
    PROVE  PauseInv'
<1>1. /\ pc = "run" /\ exec.stage = "idle" /\ UNCHANGED <<set, pass, prog, mail, pmu>>
      /\ at <= Len(prog)
  BY DEF Flush, Access, Pause, Block, Start, Stop, Pramin, Ready
<1>2. /\ Typed /\ dev \in DevType /\ bus \in BusType /\ bus.pending \in Seq(Pairs)
      /\ bus.commands \in Seq(Cmds) /\ Op \in AnyOp /\ Op.reg \in Regs /\ Op.val \in Values
  BY <1>1, OpIs DEF OrderInv, Typed, BusType, AnyOp
<1>3. pc' = "run" \/ pc' \notin {"run", "done"}
  BY <1>1 DEF Flush, Access, Pause, HostPause, Block, Start, CannotStart, Stop, Pramin, Raise
<1>4. CASE pc' \notin {"run", "done"}
  BY <1>4, PauseEnds
<1>5. CASE pc' = "run" /\ Flush
  <2>1. PICK c \in Cmds : c = Cmd("wr", bus.pending) /\ c.k = "wr"
    BY <1>2, CmdIs DEF Cmd
  <2>2. CASE set.atomic
    <3>1. bus'.commands = Append(bus.commands, c) /\ UNCHANGED <<exec, dev>>
      BY <1>2, <1>5, <2>1, <2>2 DEF Flush, BusType
    <3> QED
      BY <1>1, <1>5, <2>1, <3>1, PauseRests DEF Hush
  <2>3. CASE ~set.atomic
    <3>1. bus'.commands = bus.commands /\ Do(<<c>>, "flush") /\ UNCHANGED dev
      BY <1>2, <1>5, <2>1, <2>3 DEF Flush, BusType
    <3> QED
      BY <1>1, <1>5, <2>1, <3>1, PauseRests DEF Hush
  <2> QED
    BY <2>2, <2>3
<1>6. PICK probe \in Cmds : probe = Cmd("probe", <<>>) /\ probe.k = "probe" /\ probe.k \notin Hush
  BY CmdIs DEF Cmd, Hush
<1>7. CASE pc' = "run" /\ Access
  <2>1. bus'.commands = bus.commands /\ exec' = exec
    BY <1>1, <1>2, <1>7 DEF Access, Goes, Raise, BusType
  <2>2. dev' = dev \/ dev' = Stored(dev, Op.reg, Op.val)
    BY <1>7 DEF Access
  <2>3. \/ dev' = dev
        \/ \E e \in Happening : /\ e.k \notin Stops /\ dev'.paused = dev.paused
                                /\ dev'.log = Append(dev.log, e)
    <3>1. PICK r \in Regs, v \in Values : r = Op.reg /\ v = Op.val
      BY <1>2
    <3>2. PICK e \in Happening : e = O("wr", r, v)
      BY <1>2, DevIs
    <3>3. e.k \notin Stops
      BY <3>2 DEF O, Stops
    <3>4. Stored(dev, r, v).log = Append(dev.log, e) /\ Stored(dev, r, v).paused = dev.paused
      BY <1>2, <3>2, DevIs
    <3> QED
      BY <2>2, <3>1, <3>3, <3>4
  <2> QED
    BY <1>1, <1>6, <1>7, <2>1, <2>3, PauseRests
<1>8. CASE pc' = "run" /\ Pause
  <2>1. Op.k \in {"delay", "wait"}
    BY <1>8 DEF Pause, Ready
  <2>2. PICK c \in Cmds : c = Cmd(Op.k, <<>>) /\ c.k = Op.k /\ c.k \notin Hush
    BY <2>1, CmdIs DEF Cmd, Hush
  <2>3. bus'.commands \in {bus.commands, Append(bus.commands, c)}
        /\ (exec' = exec \/ Do(<<c>>, "pause")) /\ (dev' = dev \/ dev' = Logged(dev, Op.k))
    BY <1>1, <1>2, <1>8, <2>2 DEF Pause, HostPause, Raise, Goes, BusType
  <2>4. \/ dev' = dev
        \/ \E e \in Happening : /\ e.k \notin Stops /\ dev'.paused = dev.paused
                                /\ dev'.log = Append(dev.log, e)
    <3>1. PICK e \in Happening : e = Plain(Op.k) /\ e.k = Op.k
      BY <2>1, PlainIs
    <3>2. Logged(dev, Op.k).log = Append(dev.log, e) /\ Logged(dev, Op.k).paused = dev.paused
      BY <1>2, <2>1, <3>1, DevIs
    <3> QED
      BY <2>1, <2>3, <3>1, <3>2 DEF Stops
  <2> QED
    BY <1>1, <1>8, <2>2, <2>3, <2>4, PauseRests
<1>9. CASE pc' = "run" /\ Block
  <2>1. PICK k \in Stops : k = IF Op.k = "block" THEN "enter" ELSE "leave"
    BY DEF Stops
  <2>2. PICK c \in Cmds : c = Cmd(k, <<>>) /\ c.k = k /\ c.k \notin Hush
    BY <2>1, CmdIs DEF Cmd, Hush, Stops
  <2>3. bus'.commands \in {bus.commands, Append(bus.commands, c)}
        /\ (exec' = exec \/ exec' = NoExec \/ Do(<<c>>, "block")) /\ dev' = dev
    BY <1>2, <1>9, <2>1, <2>2 DEF Block, Goes, Raise, BusType
  <2> QED
    BY <1>1, <1>9, <2>2, <2>3, PauseRests
<1>10. CASE pc' = "run" /\ Start
  <2>1. bus'.commands = bus.commands /\ dev' = dev
        /\ (exec' = exec \/ exec' = NoExec \/ Do(<<probe>>, "smoke"))
    BY <1>2, <1>6, <1>10 DEF Start, CannotStart, Goes, Raise, Probe, BusType
  <2> QED
    BY <1>1, <1>6, <1>10, <2>1, PauseRests
<1>11. CASE pc' = "run" /\ Stop
  <2>1. bus'.commands \in {bus.commands, <<>>} /\ dev' = dev
        /\ (exec' = exec \/ exec' = NoExec \/ Do(bus.commands, "run"))
    BY <1>2, <1>11, StoppedIs DEF Stop, Goes, Raise
  <2> QED
    BY <1>1, <1>6, <1>11, <2>1, PauseRests
<1>12. CASE pc' = "run" /\ Pramin
  <2>1. PICK q \in Pairs : q = <<Op.reg, Op.val>>
    BY <1>2 DEF Pairs
  <2>2. <<q>> \in Seq(Pairs)
    OBVIOUS
  <2>3. PICK c \in Cmds : c = Cmd("wr", <<q>>) /\ c.k = "wr" /\ c.k \notin Hush
    BY <2>2, CmdIs DEF Cmd, Hush
  <2>4. bus' = bus /\ dev' = dev /\ (Do(<<probe>>, "ensure") \/ Do(<<c>>, "store"))
    BY <1>6, <1>12, <2>1, <2>3 DEF Pramin, Probe
  <2>5. CASE Do(<<probe>>, "ensure")
    BY <1>1, <1>6, <1>12, <2>4, <2>5, PauseRests
  <2>6. CASE Do(<<c>>, "store")
    BY <1>1, <1>12, <2>3, <2>4, <2>6, PauseRests
  <2> QED
    BY <2>4, <2>5, <2>6
<1> QED
  BY <1>3, <1>4, <1>5, <1>7, <1>8, <1>9, <1>10, <1>11, <1>12

(* The end of a program, or of its first pass.                             *)
LEMMA PausePassDone ==
    ASSUME TurnInv, OrderInv, PauseInv, PassDone
    PROVE  PauseInv'
<1>1. /\ pc = "run" /\ exec.stage = "idle" /\ UNCHANGED <<set, exec, mail, pmu>>
      /\ ~pmu.wedged => mail.calls = <<>> /\ ~pmu.on
      /\ Settled /\ (set.block = "0" => ~dev.paused)
  BY Resting DEF PassDone, PauseInv, Preflighting
<1>2. CASE pass = set.passes
  <2>1. pc' = "done" /\ dev' = dev
    BY <1>2 DEF PassDone
  <2> QED
    BY <1>1, <2>1 DEF PauseInv, Settled
<1>3. CASE pass # set.passes
  <2>1. pc' = "run" /\ bus' = FreshBus /\ dev' = [dev EXCEPT !.log = <<>>, !.base = dev.regs]
    BY <1>1, <1>3 DEF PassDone
  <2>2. dev'.log = <<>> /\ dev'.paused = dev.paused /\ Len(<<>>) = 0
    BY <2>1 DEF OrderInv, Typed, DevType
  <2>3. Settled'
    BY <2>2 DEF Settled, SettledAt
  <2>4. Scripts'
    BY <1>1, <2>1, LoudIs DEF Scripts, FreshBus
  <2> QED
    BY <1>1, <2>1, <2>2, <2>3, <2>4, PauseSet
<1> QED
  BY <1>2, <1>3

(* The script is put into the segment and announced.                       *)
LEMMA PausePlaces ==
    ASSUME TurnInv, OrderInv, PauseInv, Fill \/ Push
    PROVE  PauseInv'
<1>1. /\ exec.stage \in {"seg", "push"} /\ UNCHANGED <<set, pc, pass, prog, at, bus, pmu, dev>>
      /\ exec'.kind = exec.kind /\ exec'.script = exec.script /\ exec'.stage # "idle"
      /\ (Fill => exec'.stage # "reply")
  BY DEF Fill, Push, TurnInv, Shapes
<1>2. pc \in {"run", "reload"}
  BY <1>1 DEF OrderInv, Hosts, Typed
<1>3. CASE pc = "reload"
  BY <1>1, <1>3, PauseEnds
<1>4. CASE pc = "run"
  <2>1. Settled' /\ (set.block = "0" => ~dev.paused)
    BY <1>1, <1>4 DEF PauseInv, Settled, Preflighting
  <2>2. Scripts'
    BY <1>1, <1>4 DEF PauseInv, Scripts, Op
  <2>3. CASE Fill
    BY <1>1, <1>4, <2>1, <2>2, <2>3, PauseSet
  <2>4. CASE Push
    <3>1. exec.stage = "push" /\ Same(Len(exec.script))
      BY <2>4 DEF Push, OrderInv, Filling
    <3>2. PICK c : c = [id |-> mail.sent + 1, msg |-> Msg, len |-> Len(exec.script)]
      OBVIOUS
    <3>3. mail'.seg = mail.seg /\ mail'.calls = Append(mail.calls, c) /\ c.len = Len(exec.script)
      BY <2>4, <3>2 DEF Push, TurnInv, Shapes
    <3>4. ~pmu.wedged => mail.calls = <<>> /\ ~pmu.on
      BY <3>1 DEF TurnInv, Turns, AtRest, NoCalls
    <3>5. Head(Append(<<>>, c)) = c
      OBVIOUS
    <3>6. ~pmu.wedged => Job'.len = Len(exec.script)
      BY <1>1, <3>3, <3>4, <3>5 DEF Job
    <3>7. Placed'
      BY <1>1, <3>1, <3>3, <3>6 DEF Placed, Same
    <3> QED
      BY <1>1, <1>4, <2>1, <2>2, <3>7 DEF PauseInv
  <2> QED
    BY <2>3, <2>4
<1> QED
  BY <1>2, <1>3, <1>4

(* The command that is executed is the script's, and a pause is one that   *)
(* the program asked for.                                                  *)
LEMMA PauseMeets ==
    ASSUME TurnInv, OrderInv, PauseInv, Execute, pc = "run"
    PROVE  /\ exec.stage = "reply" /\ Waits
           /\ pmu.cmd \in 1 .. Len(exec.script) /\ pmu.len = Len(exec.script)
           /\ mail.seg[pmu.cmd] \in Cmds /\ mail.seg[pmu.cmd] = exec.script[pmu.cmd]
           /\ mail.seg[pmu.cmd].k \in Stops => set.block # "0"
<1>1. pmu.on /\ ~pmu.wedged /\ pmu.cmd <= pmu.len
  BY DEF Execute
<1>2. exec.stage = "reply"
  BY <1>1 DEF TurnInv, Turns, AtRest, NoCalls
<1>3. Waits
  <2>1. ~Lost
    BY <1>1 DEF Lost, LostAt
  <2> QED
    BY <1>2, <2>1, WaitsIs
<1>4. pmu.len = Len(exec.script) /\ Same(Len(exec.script))
  BY <1>1, <1>2 DEF PauseInv, Placed, Working, Job
<1>5. PICK pos \in Places(pmu.len) : Executes(pmu.len, pmu.cmd, pmu.pair, pos)
  BY <1>1 DEF OrderInv, Machine, Working, Job
<1>6. PICK n, j, k : n = pmu.len /\ j = pmu.cmd /\ k = pmu.pair
  OBVIOUS
<1>7. n \in Nat /\ j \in 1 .. n /\ k \in Nat /\ n <= Len(mail.seg) /\ mail.seg \in Seq(Cmds)
  BY <1>1, <1>5, <1>6 DEF Executes, OrderInv, Typed
<1>8. mail.seg[j] = exec.script[j]
  BY <1>4, <1>6, <1>7 DEF Same
<1>9. PICK c \in Cmds : c = mail.seg[j]
  <2>1. j \in 1 .. Len(mail.seg)
    BY <1>7
  <2> QED
    BY <1>7, <2>1, ElementOfSeq
<1>10. ASSUME c.k \in Stops PROVE set.block # "0"
  <2>1. k = 1 /\ Size(c) = 1 /\ Nth(c, 1) = Plain(c.k)
    BY <1>5, <1>6, <1>9, <1>10 DEF Executes, Size, Nth, Stops
  <2>2. Holds(Asked, c, pos[j], pos[j + 1]) /\ Len(dev.log) = pos[j] + k - 1
    BY <1>5, <1>6, <1>7, <1>9 DEF Executes, Tape
  <2>3. PICK a : a = pos[j]
    OBVIOUS
  <2>4. a \in Nat /\ a + 1 <= Len(Asked) /\ Asked[a + 1] = Nth(c, 1)
    BY <2>1, <2>2, <2>3 DEF Holds
  <2>5. PICK i \in 1 .. Len(Asked) : i = a + 1
    BY <1>3, <2>4 DEF Waits
  <2>6. Asked[i].k = c.k
    BY <2>1, <2>4, <2>5, PlainIs
  <2> QED
    BY <1>3, <1>10, <2>6, EventOf DEF Waits
<1> QED
  BY <1>2, <1>3, <1>4, <1>6, <1>7, <1>8, <1>9, <1>10

(* What a command does to log and framebuffer.                             *)
LEMMA PauseDoes ==
    ASSUME Execute, dev \in DevType, NEW c \in Cmds, c = mail.seg[pmu.cmd],
           pmu.pair \in Nat, pmu.pair >= 1
    PROVE  /\ c.k \notin Stops \cup Hush =>
                \/ dev' = dev
                \/ \E e \in Happening : /\ e.k \notin Stops /\ dev'.paused = dev.paused
                                        /\ dev'.log = Append(dev.log, e)
           /\ c.k \in Stops =>
                \E e \in Happening : /\ e.k = c.k /\ dev'.paused = (c.k = "enter")
                                     /\ dev'.log = Append(dev.log, e)
           /\ c.k \in Hush => dev'.log = dev.log /\ dev'.paused = (c.k = "enterq")
<1>1. PICK k \in Nat : k = pmu.pair /\ k >= 1
  OBVIOUS
<1>2. dev' = CASE c.k = "wr" /\ k <= Len(c.pairs) ->
                     Stored(dev, c.pairs[k][1], c.pairs[k][2])
               [] c.k \in {"delay", "wait"} -> Logged(dev, c.k)
               [] c.k = "enter"  -> [Logged(dev, c.k) EXCEPT !.paused = TRUE]
               [] c.k = "leave"  -> [Logged(dev, c.k) EXCEPT !.paused = FALSE]
               [] c.k = "enterq" -> [dev EXCEPT !.paused = TRUE]
               [] c.k = "leaveq" -> [dev EXCEPT !.paused = FALSE]
               [] OTHER -> dev
  BY <1>1 DEF Execute
<1>3. c.k \in {"wr", "delay", "wait", "enter", "leave", "enterq", "leaveq", "probe"}
      /\ c.pairs \in Seq(Pairs) /\ Len(c.pairs) \in Nat
  BY DEF Cmds
<1>4. CASE c.k = "wr" /\ k <= Len(c.pairs)
  <2>1. c.pairs[k] \in Pairs
    BY <1>1, <1>3, <1>4, ElementOfSeq
  <2>2. PICK r \in Regs, v \in Values : c.pairs[k][1] = r /\ c.pairs[k][2] = v
    BY <2>1 DEF Pairs
  <2>3. dev' = Stored(dev, r, v)
    BY <1>2, <1>4, <2>2
  <2>4. PICK e \in Happening : e = O("wr", r, v)
    BY DevIs
  <2>5. e.k = "wr"
    BY <2>4 DEF O
  <2>6. dev'.log = Append(dev.log, e) /\ dev'.paused = dev.paused
    BY <2>3, <2>4, DevIs
  <2> QED
    BY <1>4, <2>5, <2>6 DEF Stops, Hush
<1>5. CASE (c.k = "wr" /\ ~(k <= Len(c.pairs))) \/ c.k = "probe"
  <2>1. dev' = dev
    <3>1. CASE c.k = "probe"
      BY <1>2, <3>1
    <3>2. CASE c.k = "wr" /\ ~(k <= Len(c.pairs))
      BY <1>2, <3>2
    <3> QED
      BY <1>5, <3>1, <3>2
  <2> QED
    BY <1>5, <2>1 DEF Stops, Hush
<1>6. CASE c.k \in {"delay", "wait"}
  <2>1. dev' = Logged(dev, c.k)
    BY <1>2, <1>6
  <2>2. PICK e \in Happening : e = Plain(c.k) /\ e.k = c.k
    BY <1>6, PlainIs
  <2>3. dev'.log = Append(dev.log, e) /\ dev'.paused = dev.paused
    <3>1. PICK kind \in {"delay", "wait"} : kind = c.k
      BY <1>6
    <3>2. /\ Logged(dev, kind).log = Append(dev.log, Plain(kind))
          /\ Logged(dev, kind).paused = dev.paused
      BY DevIs
    <3> QED
      BY <2>1, <2>2, <3>1, <3>2
  <2> QED
    BY <1>6, <2>2, <2>3 DEF Stops, Hush
<1>7. CASE c.k \in Stops
  <2>1. PICK d, p : d = Logged(dev, c.k) /\ p = (c.k = "enter")
    OBVIOUS
  <2>2. dev' = [d EXCEPT !.paused = p]
    <3>1. CASE c.k = "enter"
      BY <1>2, <2>1, <3>1
    <3>2. CASE c.k = "leave"
      BY <1>2, <2>1, <3>2
    <3> QED
      BY <1>7, <3>1, <3>2 DEF Stops
  <2>3. PICK e \in Happening : e = Plain(c.k) /\ e.k = c.k
    BY <1>7, PlainIs DEF Stops
  <2>4. d \in DevType /\ d.log = Append(dev.log, e)
    <3>1. PICK kind \in {"enter", "leave"} : kind = c.k
      BY <1>7 DEF Stops
    <3>2. Logged(dev, kind) \in DevType /\ Logged(dev, kind).log = Append(dev.log, Plain(kind))
      BY DevIs
    <3> QED
      BY <2>1, <2>3, <3>1, <3>2
  <2>5. dev'.log = d.log /\ dev'.paused = p
    BY <2>2, <2>4 DEF DevType
  <2> QED
    BY <1>7, <2>1, <2>3, <2>4, <2>5 DEF Stops, Hush
<1>8. CASE c.k \in Hush
  <2>1. CASE c.k = "enterq"
    BY <1>2, <2>1 DEF DevType, Stops, Hush
  <2>2. CASE c.k = "leaveq"
    BY <1>2, <2>2 DEF DevType, Stops, Hush
  <2> QED
    BY <1>8, <2>1, <2>2 DEF Hush
<1> QED
  BY <1>3, <1>4, <1>5, <1>6, <1>7, <1>8 DEF Stops, Hush

(* A program that has not come to its pause has logged none.               *)
LEMMA NoneYet ==
    ASSUME Waits, exec.kind = "preflight", Op.k \in {"check", "start", "restart"}
    PROVE  \A i \in 1 .. Len(dev.log) : dev.log[i].k \notin Stops
<1>1. Typed /\ Conforms /\ Len(dev.log) = Upto(at - 1) /\ at \in 1 .. Len(prog)
      /\ Buffers /\ Len(prog) \in Nat
  BY DEF Waits, Quiet
<1>2. PICK f, u : Shape(prog, f, u)
  BY <1>1, ProgIs
<1>3. at + 1 <= f /\ f \in Nat
  <2>1. at <= Len(prog) /\ Op.k \in {"check", "start", "restart", "start2"} /\ Op.k # "start2"
    BY <1>1
  <2>2. at + 1 <= f
    BY <1>1, <1>2, <2>1, StartWhere
  <2> QED
    BY <1>1, <1>2, <2>2 DEF Shape
<1>4. PICK n \in 0 .. f - 1 : n = at - 1
  BY <1>1, <1>3
<1>5. \A i \in 1 .. Upto(n) : Asked[i].k \notin Stops
  BY <1>1, <1>2, StopsWhere
<1> QED
  BY <1>1, <1>4, <1>5, Seen

(* A command, or a pair of one.                                            *)
LEMMA PauseExecute ==
    ASSUME TurnInv, OrderInv, PauseInv, Execute
    PROVE  PauseInv'
<1>1. /\ pmu.on /\ ~pmu.wedged /\ UNCHANGED <<set, pc, pass, prog, at, bus, exec, mail>>
  BY DEF Execute
<1>2. pc # "done"
  BY <1>1 DEF PauseInv
<1>3. CASE pc # "run"
  BY <1>1, <1>2, <1>3, PauseEnds
<1>4. CASE pc = "run"
  <2>1. /\ exec.stage = "reply" /\ Waits
        /\ pmu.cmd \in 1 .. Len(exec.script) /\ pmu.len = Len(exec.script)
        /\ mail.seg[pmu.cmd] \in Cmds /\ mail.seg[pmu.cmd] = exec.script[pmu.cmd]
        /\ mail.seg[pmu.cmd].k \in Stops => set.block # "0"
    BY <1>4, PauseMeets
  <2>2. PICK c \in Cmds : c = mail.seg[pmu.cmd]
    BY <2>1
  <2>3. /\ Settled /\ Scripts /\ Placed /\ (set.block = "0" /\ dev.paused => Preflighting)
    BY <1>4 DEF PauseInv
  <2>4. dev \in DevType /\ dev.log \in Seq(Happening) /\ pmu.pair \in Nat /\ pmu.pair >= 1
    <3>1. Working /\ Job = pmu
      BY <1>1 DEF Working, Job
    <3>2. PICK pos : Executes(pmu.len, pmu.cmd, pmu.pair, pos)
      BY <1>1, <3>1 DEF OrderInv, Machine
    <3> QED
      BY <3>2 DEF OrderInv, Typed, DevType, Executes
  <2>5. /\ c.k \notin Stops \cup Hush =>
             \/ dev' = dev
             \/ \E e \in Happening : /\ e.k \notin Stops /\ dev'.paused = dev.paused
                                     /\ dev'.log = Append(dev.log, e)
        /\ c.k \in Stops =>
             \E e \in Happening : /\ e.k = c.k /\ dev'.paused = (c.k = "enter")
                                  /\ dev'.log = Append(dev.log, e)
        /\ c.k \in Hush => dev'.log = dev.log /\ dev'.paused = (c.k = "enterq")
    BY <2>2, <2>4, PauseDoes
  <2>6. pmu'.on = pmu.on /\ pmu'.len = pmu.len /\ pmu'.wedged = pmu.wedged
    BY DEF Execute, TurnInv, Shapes
  <2>7. Scripts'
    BY <1>1, <2>3 DEF Scripts, Op
  <2>8. Placed'
    BY <1>1, <2>1, <2>3, <2>6 DEF Placed, Working, Job, Same
  <2>9. CASE exec.kind # "preflight"
    <3>1. c.k \notin Hush
      BY <2>1, <2>2, <2>3, <2>9 DEF Scripts, Loud
    <3>2. Settled'
      <4>1. CASE c.k \in Stops
        <5>1. PICK e \in Happening : /\ e.k = c.k /\ dev'.paused = (c.k = "enter")
                                     /\ dev'.log = Append(dev.log, e)
          BY <2>5, <4>1
        <5>2. SettledAt(Append(dev.log, e), dev'.paused)
          BY <2>3, <2>4, <4>1, <5>1, SettledMore DEF Settled
        <5> QED
          BY <5>1, <5>2 DEF Settled
      <4>2. CASE dev' = dev
        BY <2>3, <4>2 DEF Settled
      <4>3. CASE c.k \notin Stops /\ dev' # dev
        <5>1. PICK e \in Happening : /\ e.k \notin Stops /\ dev'.paused = dev.paused
                                     /\ dev'.log = Append(dev.log, e)
          BY <2>5, <3>1, <4>3
        <5>2. SettledAt(Append(dev.log, e), dev'.paused)
          BY <2>3, <2>4, <5>1, SettledMore DEF Settled
        <5> QED
          BY <5>1, <5>2 DEF Settled
      <4> QED
        BY <4>1, <4>2, <4>3
    <3>3. set.block = "0" => ~dev'.paused
      <4>1. ASSUME set.block = "0" PROVE dev'.paused = dev.paused
        BY <2>1, <2>2, <2>5, <3>1, <4>1
      <4> QED
        BY <2>3, <2>9, <4>1 DEF Preflighting
    <3> QED
      BY <1>1, <1>4, <2>7, <2>8, <3>2, <3>3 DEF PauseInv
  <2>10. CASE exec.kind = "preflight"
    <3>1. /\ Len(exec.script) = 2 /\ exec.script[1].k = "enterq" /\ exec.script[2].k = "leaveq"
          /\ Op.k \in {"check", "start", "restart"}
      BY <2>1, <2>3, <2>10 DEF Scripts
    <3>2. \A i \in 1 .. Len(dev.log) : dev.log[i].k \notin Stops
      BY <2>1, <2>10, <3>1, NoneYet
    <3>3. pmu.cmd \in {1, 2} /\ c.k \in Hush /\ (c.k = "enterq" <=> pmu.cmd = 1)
      BY <2>1, <2>2, <3>1 DEF Hush
    <3>4. dev'.log = dev.log /\ dev'.paused = (c.k = "enterq")
      BY <2>5, <3>3
    <3>5. Settled'
      BY <3>2, <3>4 DEF Settled, SettledAt
    <3>6. pmu.cmd = 1 => pmu'.cmd = 2
      <4>1. c.k # "wr"
        BY <3>3 DEF Hush
      <4>2. pmu' = [pmu EXCEPT !.cmd = @ + 1, !.pair = 1]
        BY <2>2, <4>1 DEF Execute
      <4> QED
        BY <4>2 DEF TurnInv, Shapes
    <3>7. dev'.paused => Preflighting'
      BY <1>1, <2>1, <2>6, <2>10, <3>3, <3>4, <3>6 DEF Preflighting
    <3> QED
      BY <1>1, <1>4, <2>7, <2>8, <3>5, <3>7 DEF PauseInv
  <2> QED
    BY <2>9, <2>10
<1> QED
  BY <1>3, <1>4

(* The firmware takes the announced script.                                *)
LEMMA PauseTake ==
    ASSUME TurnInv, OrderInv, PauseInv, Take
    PROVE  PauseInv'
<1>1. /\ ~pmu.on /\ ~pmu.wedged /\ mail.calls # <<>>
      /\ UNCHANGED <<set, pc, pass, prog, at, bus, exec, dev>>
      /\ pmu' = [pmu EXCEPT !.on = TRUE, !.id = Head(mail.calls).id, !.msg = Head(mail.calls).msg,
                   !.len = Head(mail.calls).len, !.cmd = 1, !.pair = 1]
      /\ mail' = [mail EXCEPT !.calls = Tail(@)]
  BY DEF Take
<1>2. pmu'.on /\ ~pmu'.wedged /\ pmu'.len = Head(mail.calls).len /\ mail'.seg = mail.seg
  BY <1>1 DEF TurnInv, Shapes
<1>3. pc # "done"
  BY <1>1 DEF PauseInv
<1>4. CASE pc # "run"
  BY <1>1, <1>3, <1>4, PauseEnds
<1>5. CASE pc = "run"
  <2>1. Settled' /\ Scripts' /\ (set'.block = "0" => ~dev'.paused)
    BY <1>1, <1>5 DEF PauseInv, Settled, Scripts, Op, Preflighting
  <2>2. Placed'
    <3>1. Job.len = pmu'.len /\ Job' = pmu' /\ Working
      BY <1>1, <1>2 DEF Job, Working
    <3> QED
      BY <1>1, <1>2, <1>5, <3>1 DEF PauseInv, Placed, Same
  <2> QED
    BY <1>1, <1>5, <2>1, <2>2 DEF PauseInv
<1> QED
  BY <1>4, <1>5

(* It answers: the preflight has let go of the framebuffer by then.        *)
LEMMA PauseAnswer ==
    ASSUME TurnInv, OrderInv, PauseInv, Answer
    PROVE  PauseInv'
<1>1. /\ pmu.on /\ ~pmu.wedged /\ pmu.cmd > pmu.len /\ pmu' = NoRun
      /\ UNCHANGED <<set, pc, pass, prog, at, bus, exec, dev>>
  BY DEF Answer
<1>2. mail.calls = <<>> /\ pmu.len \in Nat /\ pmu.cmd \in Nat /\ mail'.calls = mail.calls
  BY <1>1 DEF OrderInv, Typed, Machine, OneCall, Answer, TurnInv, Shapes
<1>3. ~pmu'.on
  BY <1>1 DEF NoRun
<1>4. pc # "done"
  BY <1>1 DEF PauseInv
<1>5. CASE pc # "run"
  BY <1>1, <1>4, <1>5, PauseEnds
<1>6. CASE pc = "run"
  <2>1. Settled' /\ Scripts'
    BY <1>1, <1>6 DEF PauseInv, Settled, Scripts, Op
  <2>2. Placed'
    BY <1>2, <1>3 DEF Placed, Working
  <2>3. set'.block = "0" => ~dev'.paused
    <3>1. SUFFICES ASSUME set.block = "0", dev.paused PROVE FALSE
      BY <1>1
    <3>2. exec.kind = "preflight" /\ exec.stage = "reply" /\ pmu.cmd = 2
      BY <1>1, <1>6, <3>1 DEF PauseInv, Preflighting
    <3>3. pmu.len = 2
      BY <1>1, <1>6, <3>2 DEF PauseInv, Placed, Scripts, Working, Job
    <3> QED
      BY <1>1, <3>2, <3>3
  <2> QED
    BY <1>1, <1>6, <2>1, <2>2, <2>3 DEF PauseInv
<1> QED
  BY <1>5, <1>6

(* The host takes a reply: nothing is left with the firmware.              *)
LEMMA PauseReply ==
    ASSUME TurnInv, OrderInv, PauseInv, Reply
    PROVE  PauseInv'
<1>1. /\ exec.stage = "reply" /\ UNCHANGED pmu /\ ~pmu.wedged /\ ~Lost
      /\ mail.calls = <<>> /\ ~pmu.on /\ mail'.calls = mail.calls
      /\ pc \in {"run", "reload"} /\ (pc = "reload" => exec.kind = "info")
  BY ReplyIs
<1>2. bus.commands \in Seq(Cmds) /\ bus \in BusType
  BY DEF OrderInv, Typed, BusType
<1>3. CASE UNCHANGED <<set, pc, pass, prog, at, bus, exec, dev>>
  <2>1. CASE pc = "reload"
    BY <1>3, <2>1, PauseEnds
  <2>2. CASE pc = "run"
    <3>1. Settled' /\ Scripts' /\ (set'.block = "0" => ~dev'.paused)
      BY <1>1, <1>3, <2>2 DEF PauseInv, Settled, Scripts, Op, Preflighting
    <3>2. Placed'
      BY <1>1 DEF Placed, Working
    <3> QED
      BY <1>3, <2>2, <3>1, <3>2 DEF PauseInv
  <2> QED
    BY <1>1, <2>1, <2>2
<1>4. CASE Accepted /\ exec.kind = "info"
  <2>1. /\ set' = [set EXCEPT !.wait = FALSE, !.atomic = TRUE, !.block = "atomic"]
        /\ pc' = "run" /\ bus' = FreshBus /\ exec' = NoExec
        /\ dev' = [dev EXCEPT !.log = <<>>, !.base = dev.regs]
    BY <1>4 DEF Accepted
  <2>2. set'.block = "atomic" /\ dev'.log = <<>> /\ Len(<<>>) = 0
    BY <2>1 DEF TurnInv, Shapes, Setting, OrderInv, Typed, DevType
  <2>3. Settled'
    BY <2>2 DEF Settled, SettledAt
  <2>4. Scripts' /\ exec'.stage # "reply"
    BY <2>1, LoudIs DEF Scripts, FreshBus, NoExec
  <2> QED
    BY <2>1, <2>2, <2>3, <2>4, PauseSet
<1>5. CASE Accepted /\ exec.kind # "info"
  <2>1. pc = "run" /\ Waits
    BY <1>1, <1>5, WaitsIs
  <2>2. Settled /\ Loud(bus.commands) /\ (set.block = "0" => ~dev.paused)
    BY <1>1, <2>1 DEF PauseInv, Scripts, Preflighting
  <2>3. UNCHANGED <<set, pc, pass, prog, dev>> /\ bus'.commands \in {bus.commands, <<>>}
        /\ \/ exec' = NoExec
           \/ Do(Probe, "ensure2")
           \/ /\ Do(<<Cmd("enterq", <<>>), Cmd("leaveq", <<>>)>>, "preflight")
              /\ exec.kind = "smoke" /\ Preflights /\ at' = at
    <3>1. CASE exec.kind = "smoke" /\ Preflights
      BY <1>5, <3>1 DEF Accepted
    <3>2. CASE (exec.kind = "smoke" /\ ~Preflights) \/ exec.kind = "preflight"
      BY <1>2, <1>5, <3>2 DEF Accepted, Buffering, Goes, BusType
    <3>3. CASE exec.kind = "flush"
      BY <1>5, <3>3 DEF Accepted
    <3>4. CASE exec.kind = "run"
      BY <1>2, <1>5, <3>4, StoppedIs DEF Accepted, Goes
    <3>5. CASE exec.kind = "info2"
      BY <1>5, <3>5 DEF Accepted
    <3>6. CASE exec.kind \notin {"smoke", "preflight", "flush", "run", "info2", "info"}
      BY <1>5, <3>6 DEF Accepted, Goes
    <3> QED
      BY <1>5, <3>1, <3>2, <3>3, <3>4, <3>5, <3>6
  <2>4. Loud(bus'.commands) /\ Settled' /\ (set'.block = "0" => ~dev'.paused)
    BY <2>2, <2>3, LoudIs DEF Settled
  <2>5. Scripts' /\ exec'.stage # "reply"
    <3>1. CASE exec' = NoExec
      BY <2>4, <3>1 DEF Scripts, NoExec
    <3>2. CASE Do(Probe, "ensure2")
      <4>1. PICK c \in Cmds : Probe = <<c>> /\ c.k \notin Hush
        BY CmdIs DEF Probe, Cmd, Hush
      <4>2. Loud(Probe)
        BY <4>1, LoudIs
      <4> QED
        BY <2>4, <3>2, <4>2 DEF Scripts, Do
    <3>3. CASE /\ Do(<<Cmd("enterq", <<>>), Cmd("leaveq", <<>>)>>, "preflight")
               /\ exec.kind = "smoke" /\ Preflights /\ at' = at
      <4>1. Op.k \in {"check", "start", "restart"} /\ Op' = Op
        BY <2>1, <2>3, <3>3 DEF Waits, Fits, Preflights, Op
      <4>2. /\ exec'.kind = "preflight" /\ exec'.stage = "seg" /\ Len(exec'.script) = 2
            /\ exec'.script[1].k = "enterq" /\ exec'.script[2].k = "leaveq"
        BY <3>3 DEF Do, Cmd
      <4> QED
        BY <2>4, <4>1, <4>2 DEF Scripts
    <3> QED
      BY <2>3, <3>1, <3>2, <3>3
  <2> QED
    BY <2>1, <2>3, <2>4, <2>5, PauseSet
<1> QED
  BY <1>3, <1>4, <1>5 DEF Reply

(* The host gives up: where the program goes on it was in no preflight.    *)
LEMMA PauseTimesOut ==
    ASSUME TurnInv, OrderInv, PauseInv, TimesOut
    PROVE  PauseInv'
<1>1. /\ Failed /\ UNCHANGED <<set, pass, prog, dev>>
      /\ pc \in {"run", "reload"} /\ (pc = "reload" => exec.kind = "info")
  BY TimesOutIs
<1>2. bus \in BusType
  BY DEF OrderInv, Typed
<1>3. CASE pc' # "run"
  <2>1. pc' # "done"
    BY <1>1, <1>3 DEF Failed, CannotStart, Raise
  <2> QED
    BY <1>3, <2>1, PauseEnds
<1>4. CASE pc' = "run"
  <2>1. /\ exec.kind \in {"smoke", "block", "ensure"} /\ pc = "run"
        /\ bus'.commands = bus.commands
        /\ exec' = NoExec \/ Asks("info2")
    <3>1. ~Raise
      BY <1>4 DEF Raise
    <3>2. CASE exec.kind = "smoke"
      <4>1. CannotStart
        BY <1>1, <3>2 DEF Failed
      <4> QED
        BY <1>1, <1>2, <3>1, <3>2, <4>1 DEF CannotStart, Goes, BusType
    <3>3. CASE exec.kind = "block" /\ Op.k = "unblock"
      BY <1>1, <3>3 DEF Failed, Goes
    <3>4. CASE exec.kind = "ensure"
      BY <1>1, <3>4 DEF Failed
    <3>5. exec.kind # "flush" /\ exec.kind # "info"
      BY <1>1, <1>4, <3>1 DEF Failed
    <3>6. CASE exec.kind \notin {"flush", "smoke", "ensure", "info"}
               /\ ~(exec.kind = "block" /\ Op.k = "unblock")
      BY <1>1, <3>1, <3>6 DEF Failed
    <3> QED
      BY <3>2, <3>3, <3>4, <3>5, <3>6
  <2>2. Settled' /\ Loud(bus'.commands) /\ (set'.block = "0" => ~dev'.paused)
    BY <1>1, <2>1 DEF PauseInv, Settled, Scripts, Preflighting
  <2>3. Scripts' /\ exec'.stage # "reply"
    <3>1. CASE exec' = NoExec
      BY <2>2, <3>1 DEF Scripts, NoExec
    <3>2. CASE Asks("info2")
      <4>1. exec'.kind = "info2" /\ exec'.stage = "push" /\ exec'.script = <<>>
        BY <3>2 DEF Asks, NoExec
      <4> QED
        BY <2>2, <4>1, LoudIs DEF Scripts
    <3> QED
      BY <2>1, <3>1, <3>2
  <2> QED
    BY <1>4, <2>2, <2>3, PauseSet
<1> QED
  BY <1>3, <1>4

(* The firmware hangs where it is.                                         *)
LEMMA PauseWedge ==
    ASSUME TurnInv, OrderInv, PauseInv, Wedge
    PROVE  PauseInv'
<1>1. pc \in {"run", "reload"} /\ UNCHANGED <<set, pc, pass, prog, at, bus, exec, mail, dev>>
      /\ pmu'.wedged /\ ~pmu.wedged
  BY DEF Wedge, TurnInv, Shapes
<1>2. CASE pc = "reload"
  BY <1>1, <1>2, PauseEnds
<1>3. CASE pc = "run"
  <2>1. Settled' /\ Scripts'
    BY <1>1, <1>3 DEF PauseInv, Settled, Scripts, Op
  <2>2. Placed'
    BY <1>1 DEF Placed
  <2>3. set'.block = "0" /\ dev'.paused => Preflighting'
    BY <1>1, <1>3 DEF PauseInv, Preflighting
  <2> QED
    BY <1>1, <1>3, <2>1, <2>2, <2>3 DEF PauseInv
<1> QED
  BY <1>1, <1>2, <1>3

(* At first nothing is logged and nothing paused.                          *)
LEMMA PauseInit == Init => PauseInv
<1> SUFFICES ASSUME Init PROVE PauseInv
  OBVIOUS
<1>1. pc = "run" /\ exec.stage = "idle" /\ bus.commands = <<>> /\ dev.log = <<>>
      /\ ~dev.paused /\ Len(<<>>) = 0
  BY DEF Init, NoExec, FreshBus
<1> QED
  BY <1>1, LoudIs DEF PauseInv, Settled, SettledAt, Scripts, Placed

(* Every step keeps it.                                                    *)
LEMMA PauseNext ==
    ASSUME TurnInv, OrderInv, PauseInv, [Next]_vars
    PROVE  PauseInv'
<1>1. CASE Flush \/ Access \/ Pause \/ Block \/ Start \/ Stop \/ Pramin
  BY <1>1, PauseRun
<1>2. CASE PassDone \/ Fill \/ Push \/ Reply
  BY <1>2, PausePassDone, PausePlaces, PauseReply
<1>3. CASE TimesOut
  BY <1>3, PauseTimesOut
<1>4. CASE Reload
  BY <1>4, PauseEnds DEF Reload
<1>5. CASE Firmware
  BY <1>5, PauseTake, PauseExecute, PauseAnswer DEF Firmware
<1>6. CASE Wedge
  BY <1>6, PauseWedge
<1>7. CASE UNCHANGED vars
  BY <1>7 DEF vars, PauseInv, Settled, Scripts, Op, Placed, Working, Job, Same, Preflighting
<1> QED
  BY <1>1, <1>2, <1>3, <1>4, <1>5, <1>6, <1>7 DEF Next, Host, Over

(* The last pause of a complete log is the one that ends.                  *)
LEMMA PauseShows == OrderInv /\ PauseInv => DoneUnpaused
<1> SUFFICES ASSUME OrderInv, PauseInv, pc = "done", dev.paused PROVE FALSE
  BY DEF DoneUnpaused
<1>1. Typed /\ dev.log = Asked /\ Settled /\ set.block # "0"
  BY DEF OrderInv, Hosts, PauseInv
<1>2. PICK f, u : Shape(prog, f, u)
  BY <1>1, ProgIs
<1>3. PICK i : i = Upto(u)
  OBVIOUS
<1>4. /\ i \in 1 .. Len(Asked) /\ Asked[i].k = "leave"
      /\ \A j \in i + 1 .. Len(Asked) : Asked[j].k \notin Stops
  BY <1>1, <1>2, <1>3, StopsWhere
<1>5. "leave" \in Stops
  BY DEF Stops
<1> QED
  BY <1>1, <1>4, <1>5 DEF Settled, SettledAt

(* A program that reports success leaves the framebuffer running: whether  *)
(* it pauses it by itself, in a script, or in the preflight alone, and     *)
(* wherever the firmware hung, was late or was loaded again.               *)
THEOREM DoneUnpausedHolds ==
    DeadlinesEnd /\ PausesApart => (Spec => []DoneUnpaused)
<1> SUFFICES ASSUME DeadlinesEnd, PausesApart PROVE Spec => []DoneUnpaused
  OBVIOUS
<1>1. Init => TurnInv /\ OrderInv /\ PauseInv
  BY TurnInit, OrderInit, PauseInit
<1>2. TurnInv /\ [Next]_vars => TurnInv'
  BY TurnNext
<1>3. TurnInv /\ TurnInv' /\ OrderInv /\ [Next]_vars => OrderInv'
  BY OrderNext
<1>4. TurnInv /\ OrderInv /\ PauseInv /\ [Next]_vars => PauseInv'
  BY PauseNext
<1>5. OrderInv /\ PauseInv => DoneUnpaused
  BY PauseShows
<1> QED
  BY <1>1, <1>2, <1>3, <1>4, <1>5, PTL DEF Spec
=============================================================================
