------------------------------- MODULE PmuMemx -------------------------------
(***************************************************************************)
(* Reprogramming the Kepler memory controller through the PMU.             *)
(*                                                                         *)
(* The host may not store to the controller itself (the eGPU link dies),   *)
(* so run_vbios_ram_program buffers its register writes, delays and waits   *)
(* and hands them, as MEMX scripts, to the firmware of the PMU.  A script   *)
(* is put into one data segment and announced in a command ring; the PMU    *)
(* executes the segment and answers in a reply ring; the host gives up at   *)
(* a deadline.  Host and PMU run concurrently, and an answer carries no     *)
(* number that says which request it belongs to.                            *)
(***************************************************************************)
EXTENDS Integers, Sequences, SequencesExt

CONSTANTS Regs,      \* controller registers the program touches
          Hostile,   \* 0x1620 and 0x26f0: a store to it kills the link
          Values,    \* what a register may hold
          Nothing,   \* no shadowed value
          Chunk,     \* pairs of one WR32 command, and the flush threshold (4)
          Slots,     \* slots of the command ring (8)
          Capacity,  \* words of the data segment
          Settings,  \* environment settings a run may have, see Setting
          Prog0s, Bodies, Tails,  \* operations of the parts of a program
          Stores     \* the page-table words written after it

ASSUME MemxAssumption == /\ Hostile \in Regs /\ Nothing \notin Values
                         /\ Chunk \in Nat \ {0} /\ Slots \in Nat \ {0}
                         /\ Capacity \in Nat \ {0}

VARIABLES set,   \* the setting of this run
          pc,    \* "run", "reload", "done" or "raised"
          pass,  \* 1, or 2 when a transition at the former clock came first
          prog, at,  \* the program of this pass and the operation it is at
          bus,   \* _MemxBus
          exec,  \* the EXEC (or INFO) the host is in the middle of
          mail,  \* the data segment, the command ring, the reply ring
          pmu,   \* what the firmware is doing
          dev    \* the controller: registers, framebuffer pause, event log

vars == <<set, pc, pass, prog, at, bus, exec, mail, pmu, dev>>

(***************************************************************************)
(* atomic, block, hostProg0, require, preflight: the KEPLER_RAM_ variables; *)
(* wait: the firmware is reloaded with Nouveau's pause wait for the         *)
(* program, and once more without it when the program fails; passes: 2 when *)
(* the clock goes up through the former configuration; pramin: page-table   *)
(* words follow by MEMX; late: a PMU that missed a deadline may still work. *)
(* The pause wait turns the preflight off; it is not modelled together with *)
(* the ENTER of block "enter", which a firmware that waits does not take.   *)
(***************************************************************************)
Setting == [atomic : BOOLEAN, block : {"0", "atomic", "enter"},
            hostProg0 : BOOLEAN, require : BOOLEAN, preflight : BOOLEAN,
            wait : BOOLEAN, passes : {1, 2}, pramin : BOOLEAN, late : BOOLEAN]

ASSUME SettingAssumption ==
    /\ Settings \subseteq Setting
    /\ \A s \in Settings : s.wait => ~s.preflight /\ s.block # "enter"

(* Operations of a program, and commands of a script, are such records. *)
O(k, reg, val) == [k |-> k, reg |-> reg, val |-> val]
Plain(k) == O(k, Hostile, 0)
Cmd(k, pairs) == [k |-> k, pairs |-> pairs]

FreshBus == [on |-> FALSE, can |-> TRUE, req |-> FALSE, pending |-> <<>>,
             commands |-> <<>>, shadow |-> [r \in Regs |-> Nothing]]

NoExec == [stage |-> "idle", kind |-> "none", script |-> <<>>, to |-> 0, id |-> 0]
NoRun  == [on |-> FALSE, id |-> 0, msg |-> "none", len |-> 0, cmd |-> 0,
           pair |-> 0, wedged |-> FALSE]

(* The parts of a program.  What follows the pause begins with a store: a    *)
(* framebuffer that could not be let go is not mistaken for a success.       *)
Operation == [k : {"mask", "nvmask", "write", "delay", "wait"}, reg : Regs, val : Values]

ASSUME ProgramAssumption ==
    /\ 0 \in Values
    /\ \A part \in Prog0s \cup Bodies \cup Tails : part \in Seq(Operation)
    /\ \A t \in Tails : t # <<>> /\ t[1].k = "write" /\ t[1].reg # Hostile
    /\ Stores \in Seq([k : {"store"}, reg : Regs, val : Values])

(* The order in which run_vbios_ram_program uses the bus. *)
Program(s, prog0, body, tail, last) ==
    <<Plain(IF s.hostProg0 THEN "check" ELSE "start")>> \o prog0
      \o <<Plain("restart"), Plain("block")>> \o body \o <<Plain("unblock")>> \o tail
      \o (IF s.atomic THEN <<Plain("stop"), Plain("start2")>> ELSE <<>>)
      \o prog0 \o <<Plain("stop")>>
      \o (IF s.pramin /\ last THEN <<Plain("ensure")>> \o Stores ELSE <<>>)

Programs(s, last) == {Program(s, p, b, t, last) :
                        p \in Prog0s, b \in Bodies, t \in Tails}

Init == /\ set \in Settings
        /\ pc = "run" /\ pass = 1 /\ at = 1
        /\ prog \in Programs(set, set.passes = 1)
        /\ bus = FreshBus /\ exec = NoExec /\ pmu = NoRun
        /\ mail = [seg |-> <<>>, calls |-> <<>>, replies |-> <<>>, sent |-> 0,
                   ours |-> TRUE]
        /\ dev = [regs |-> [r \in Regs |-> 0], paused |-> FALSE, log |-> <<>>,
                  base |-> [r \in Regs |-> 0]]

-----------------------------------------------------------------------------
(* How an operation of the host ends. *)
Op == prog[at]
Goes(b, n) == bus' = b /\ at' = at + n

Do(script, kind) ==
    exec' = [stage |-> "seg", kind |-> kind, script |-> script, to |-> 1, id |-> 0]
Asks(kind) == exec' = [NoExec EXCEPT !.stage = "push", !.kind = kind]

(* An exception leaves the program; with the pause wait the caller reloads   *)
(* the firmware without it and runs the program once more.                   *)
Raise == /\ pc' = IF set.wait /\ Op.k \notin {"ensure", "store"}
                  THEN "reload" ELSE "raised"
         /\ exec' = NoExec /\ UNCHANGED at

Ready(kinds) == /\ pc = "run" /\ exec.stage = "idle"
                /\ at <= Len(prog) /\ Op.k \in kinds

Accesses == {"mask", "nvmask", "write"}

(* ram_block pauses the framebuffer; in an atomic script only if there is    *)
(* one.                                                                      *)
Pauses == set.block = "enter" \/ (set.block = "atomic" /\ set.atomic)

(* Seeded fault: a register read does not flush the writes before it. *)
DueUnread == \/ Len(bus.pending) >= Chunk
             \/ bus.pending # <<>> /\ Op.k \in {"delay", "wait", "stop"}

(* What flushes the pending writes: the fourth of them, and each operation  *)
(* that must not overtake them.                                             *)
Due == \/ Len(bus.pending) >= Chunk
       \/ /\ bus.pending # <<>>
          /\ Op.k \in {"delay", "wait", "stop"}
                      \cup (IF set.atomic THEN {} ELSE {"mask", "nvmask"})
                      \cup (IF Pauses THEN {"block", "unblock"} ELSE {})

Flush == /\ pc = "run" /\ exec.stage = "idle" /\ at <= Len(prog) /\ Due
         /\ LET c == Cmd("wr", bus.pending)
                 b == [bus EXCEPT !.pending = <<>>]
            IN IF set.atomic
               THEN /\ bus' = [b EXCEPT !.commands = Append(@, c)]
                    /\ UNCHANGED exec
               ELSE bus' = b /\ Do(<<c>>, "flush")
         /\ UNCHANGED <<set, pc, pass, prog, at, mail, pmu, dev>>

Stored(d, r, v) == [d EXCEPT !.regs[r] = v, !.log = Append(@, O("wr", r, v))]
Logged(d, k) == [d EXCEPT !.log = Append(@, Plain(k))]

(* read32 and write32 below mask(), nvkm_mask() and plain stores.  An atomic *)
(* script is built from a shadow of the registers, because its writes have   *)
(* not happened yet.                                                         *)
Access ==
    /\ Ready(Accesses) /\ ~Due
    /\ LET r   == Op.reg
           v   == Op.val
           shadowed == set.atomic /\ bus.on
           old == IF shadowed /\ bus.shadow[r] # Nothing
                  THEN bus.shadow[r] ELSE dev.regs[r]
           b   == IF shadowed /\ Op.k # "write"
                  THEN [bus EXCEPT !.shadow[r] = old] ELSE bus
       IN IF (Op.k = "mask" /\ old = v) \/ r = Hostile
          THEN Goes(b, 1) /\ UNCHANGED <<pc, exec, dev>>
          ELSE IF bus.on
          THEN /\ Goes([b EXCEPT !.pending = Append(@, <<r, v>>),
                        !.shadow[r] = IF set.atomic THEN v ELSE @], 1)
               /\ UNCHANGED <<pc, exec, dev>>
          ELSE IF bus.req THEN Raise /\ UNCHANGED <<bus, dev>>
          ELSE Goes(b, 1) /\ dev' = Stored(dev, r, v) /\ UNCHANGED <<pc, exec>>
    /\ UNCHANGED <<set, pass, prog, mail, pmu>>

(* Without MEMX the host waits by itself.  What does not come true in time   *)
(* raises, or the program goes on: it depends on the wait and on             *)
(* KEPLER_RAM_STRICT_WAIT.                                                   *)
HostPause ==
    \/ Goes(bus, 1) /\ dev' = Logged(dev, Op.k) /\ UNCHANGED <<pc, exec>>
    \/ Op.k = "wait" /\ Raise /\ UNCHANGED <<bus, dev>>

(* delay_ns and the waits: queued, executed at once, or done by the host. *)
Pause ==
    /\ Ready({"delay", "wait"}) /\ ~Due
    /\ IF ~bus.on THEN HostPause
       ELSE IF set.atomic
       THEN /\ Goes([bus EXCEPT !.commands = Append(@, Cmd(Op.k, <<>>))], 1)
            /\ UNCHANGED <<pc, exec, dev>>
       ELSE Do(<<Cmd(Op.k, <<>>)>>, "pause") /\ UNCHANGED <<pc, bus, at, dev>>
    /\ UNCHANGED <<set, pass, prog, mail, pmu>>

(* ram_block and ram_unblock. *)
Block ==
    /\ Ready({"block", "unblock"}) /\ ~Due
    /\ LET c == Cmd(IF Op.k = "block" THEN "enter" ELSE "leave", <<>>)
       IN CASE set.block = "0" -> Goes(bus, 1) /\ UNCHANGED <<pc, exec>>
            [] set.block = "enter" -> /\ Do(<<c>>, "block")
                                      /\ UNCHANGED <<pc, bus, at>>
            [] OTHER ->
                 IF set.atomic /\ bus.on
                 THEN /\ Goes([bus EXCEPT !.commands = Append(@, c)], 1)
                      /\ UNCHANGED <<pc, exec>>
                 ELSE Raise /\ UNCHANGED bus
    /\ UNCHANGED <<set, pass, prog, mail, pmu, dev>>

Probe == <<Cmd("probe", <<>>)>>

(* start_memx_buffer proves that a script still executes before hundreds of  *)
(* writes are buffered.                                                      *)
CannotStart == IF set.require \/ Op.k = "start2"
               THEN Raise /\ bus' = [bus EXCEPT !.can = FALSE]
               ELSE /\ Goes([bus EXCEPT !.can = FALSE], 1)
                    /\ exec' = NoExec /\ UNCHANGED pc

Start ==
    /\ Ready({"check", "start", "restart", "start2"})
    /\ IF (Op.k = "check" /\ bus.can) \/ (Op.k = "restart" /\ bus.on)
       THEN Goes(bus, 1) /\ UNCHANGED <<pc, exec>>
       ELSE IF bus.can THEN Do(Probe, "smoke") /\ UNCHANGED <<pc, bus, at>>
       ELSE CannotStart
    /\ UNCHANGED <<set, pass, prog, mail, pmu, dev>>

Buffering == /\ Goes([bus EXCEPT !.on = TRUE, !.req = TRUE,
                          !.shadow = [r \in Regs |-> Nothing]], 1)
             /\ exec' = NoExec

Stopped == [bus EXCEPT !.on = FALSE, !.commands = <<>>,
               !.shadow = IF bus.commands # <<>> THEN [r \in Regs |-> Nothing] ELSE @]

Words(script) ==
    FoldLeft(LAMBDA n, c : n + (CASE c.k = "wr" -> 1 + 2 * Len(c.pairs)
                                  [] c.k = "delay" -> 2
                                  [] c.k = "wait" -> 5
                                  [] OTHER -> 1), 0, script)

(* stop_memx_buffer: an atomic program runs here, as one script. *)
Stop ==
    /\ Ready({"stop"}) /\ ~Due
    /\ IF bus.commands = <<>>
       THEN Goes(Stopped, 1) /\ UNCHANGED <<pc, exec>>
       ELSE IF Words(bus.commands) > Capacity THEN Raise /\ UNCHANGED bus
       ELSE Do(bus.commands, "run") /\ UNCHANGED <<pc, bus, at>>
    /\ UNCHANGED <<set, pass, prog, mail, pmu, dev>>

(* _gk104_pramin_write_memx: page-table words by MEMX, after a probe. *)
Pramin ==
    /\ Ready({"ensure", "store"})
    /\ IF Op.k = "ensure" THEN Do(Probe, "ensure")
       ELSE Do(<<Cmd("wr", <<<<Op.reg, Op.val>>>>)>>, "store")
    /\ UNCHANGED <<set, pc, pass, prog, at, bus, mail, pmu, dev>>

PassDone ==
    /\ pc = "run" /\ exec.stage = "idle" /\ at > Len(prog)
    /\ IF pass = set.passes
       THEN pc' = "done" /\ UNCHANGED <<pass, prog, at, bus, dev>>
       ELSE /\ pass' = pass + 1 /\ at' = 1 /\ bus' = FreshBus
            /\ prog' \in Programs(set, TRUE)
            /\ dev' = [dev EXCEPT !.log = <<>>, !.base = dev.regs]
            /\ UNCHANGED pc
    /\ UNCHANGED <<set, exec, mail, pmu>>

-----------------------------------------------------------------------------
(* pmu_memx_exec and pmu_send. *)
Fill == /\ exec.stage = "seg"
        /\ LET c == exec.script[exec.to]
           IN mail' = [mail EXCEPT !.seg = IF exec.to <= Len(@)
                                           THEN [@ EXCEPT ![exec.to] = c]
                                           ELSE Append(@, c)]
        /\ exec' = IF exec.to = Len(exec.script)
                   THEN [exec EXCEPT !.stage = "push"]
                   ELSE [exec EXCEPT !.to = @ + 1]
        /\ UNCHANGED <<set, pc, pass, prog, at, bus, pmu, dev>>

Msg == IF exec.kind \in {"info", "info2"} THEN "INFO" ELSE "EXEC"

Push == /\ exec.stage = "push" /\ Len(mail.calls) < Slots
        /\ mail' = [mail EXCEPT !.sent = @ + 1,
                       !.calls = Append(@, [id |-> mail.sent + 1, msg |-> Msg,
                                            len |-> Len(exec.script)])]
        /\ exec' = [exec EXCEPT !.stage = "reply", !.id = mail.sent + 1]
        /\ UNCHANGED <<set, pc, pass, prog, at, bus, pmu, dev>>

Preflights == set.atomic /\ set.preflight /\ Op.k # "start2"

(* What the caller does with the answer, by the call it was waiting in. *)
Accepted ==
    CASE exec.kind = "smoke" /\ Preflights ->
           /\ Do(<<Cmd("enterq", <<>>), Cmd("leaveq", <<>>)>>, "preflight")
           /\ UNCHANGED <<set, pc, pass, prog, at, bus, dev>>
      [] (exec.kind = "smoke" /\ ~Preflights) \/ exec.kind = "preflight" ->
           Buffering /\ UNCHANGED <<set, pc, pass, prog, dev>>
      [] exec.kind = "flush" ->
           exec' = NoExec /\ UNCHANGED <<set, pc, pass, prog, at, bus, dev>>
      [] exec.kind = "run" ->
           Goes(Stopped, 1) /\ exec' = NoExec /\ UNCHANGED <<set, pc, pass, prog, dev>>
      [] exec.kind = "info2" ->
           Do(Probe, "ensure2") /\ UNCHANGED <<set, pc, pass, prog, at, bus, dev>>
      [] exec.kind = "info" ->
           /\ set' = [set EXCEPT !.wait = FALSE, !.atomic = TRUE, !.block = "atomic"]
           /\ pc' = "run" /\ pass' = 1 /\ at' = 1 /\ bus' = FreshBus
           /\ prog' \in Programs(set', set.passes = 1)
           /\ dev' = [dev EXCEPT !.log = <<>>, !.base = dev.regs]
           /\ exec' = NoExec
      [] OTHER -> Goes(bus, 1) /\ exec' = NoExec /\ UNCHANGED <<set, pc, pass, prog, dev>>

(* A reply is taken for the awaited one when process and message agree. *)
Reply == /\ exec.stage = "reply" /\ mail.replies # <<>>
         /\ LET a == Head(mail.replies)
            IN /\ mail' = [mail EXCEPT !.replies = Tail(@),
                             !.ours = @ /\ (a.msg = Msg => a.id = exec.id)]
               /\ IF a.msg = Msg THEN Accepted
                  ELSE UNCHANGED <<set, pc, pass, prog, at, bus, exec, dev>>
         /\ UNCHANGED pmu

(* falcon_reset: the rings and what the firmware was doing are gone. *)
Reset == pmu' = NoRun /\ mail' = [mail EXCEPT !.calls = <<>>, !.replies = <<>>]

(* Seeded fault: the program goes on after its atomic script timed out. *)
FailedLightly == Goes(Stopped, 1) /\ exec' = NoExec /\ UNCHANGED <<pc, mail, pmu>>

(* What the caller does when the call raised. *)
Failed ==
    CASE exec.kind = "flush" ->
           /\ bus' = [bus EXCEPT !.on = FALSE, !.can = FALSE]
           /\ Raise /\ UNCHANGED <<mail, pmu>>
      [] exec.kind = "smoke" -> CannotStart /\ UNCHANGED <<mail, pmu>>
      [] exec.kind = "block" /\ Op.k = "unblock" ->
           Goes(bus, 1) /\ exec' = NoExec /\ UNCHANGED <<pc, mail, pmu>>
      [] exec.kind = "ensure" ->
           Reset /\ Asks("info2") /\ UNCHANGED <<pc, at, bus>>
      [] exec.kind = "info" ->
           pc' = "raised" /\ exec' = NoExec /\ UNCHANGED <<at, bus, mail, pmu>>
      [] OTHER -> Raise /\ UNCHANGED <<bus, mail, pmu>>

(* Seeded fault: the deadline starts again with every poll. *)
TimesOutNever == exec.stage = "reply" /\ mail.replies = <<>> /\ UNCHANGED vars

(* No answer by the deadline, the ring stays full, or the data segment       *)
(* cannot be acquired because the PMU is gone.                               *)
TimesOut == /\ \/ exec.stage \in {"seg", "push"} /\ pmu.wedged
               \/ exec.stage = "push" /\ Len(mail.calls) = Slots
               \/ /\ exec.stage = "reply" /\ mail.replies = <<>>
                  /\ set.late \/ pmu.wedged
            /\ Failed
            /\ UNCHANGED <<set, pass, prog, dev>>

Reload == /\ pc = "reload" /\ exec.stage = "idle"
          /\ Reset /\ Asks("info")
          /\ UNCHANGED <<set, pc, pass, prog, at, bus, dev>>

-----------------------------------------------------------------------------
(* The firmware (external; the falcon oracle states what its scripts do). *)
Take == /\ ~pmu.on /\ ~pmu.wedged /\ mail.calls # <<>>
        /\ LET c == Head(mail.calls)
           IN pmu' = [pmu EXCEPT !.on = TRUE, !.id = c.id, !.msg = c.msg,
                        !.len = c.len, !.cmd = 1, !.pair = 1]
        /\ mail' = [mail EXCEPT !.calls = Tail(@)]
        /\ UNCHANGED <<set, pc, pass, prog, at, bus, exec, dev>>

(* One command of the segment, or one pair of a WR32, as it is there now. *)
Execute ==
    /\ pmu.on /\ ~pmu.wedged /\ pmu.cmd <= pmu.len
    /\ LET c == mail.seg[pmu.cmd]
           more == c.k = "wr" /\ pmu.pair < Len(c.pairs)
       IN /\ dev' = CASE c.k = "wr" /\ pmu.pair <= Len(c.pairs) ->
                           Stored(dev, c.pairs[pmu.pair][1], c.pairs[pmu.pair][2])
                      [] c.k \in {"delay", "wait"} -> Logged(dev, c.k)
                      [] c.k = "enter"  -> [Logged(dev, c.k) EXCEPT !.paused = TRUE]
                      [] c.k = "leave"  -> [Logged(dev, c.k) EXCEPT !.paused = FALSE]
                      [] c.k = "enterq" -> [dev EXCEPT !.paused = TRUE]
                      [] c.k = "leaveq" -> [dev EXCEPT !.paused = FALSE]
                      [] OTHER -> dev
          /\ pmu' = IF more THEN [pmu EXCEPT !.pair = @ + 1]
                            ELSE [pmu EXCEPT !.cmd = @ + 1, !.pair = 1]
    /\ UNCHANGED <<set, pc, pass, prog, at, bus, exec, mail>>

Answer == /\ pmu.on /\ ~pmu.wedged /\ pmu.cmd > pmu.len
          /\ mail' = [mail EXCEPT !.replies = Append(@, [id |-> pmu.id, msg |-> pmu.msg])]
          /\ pmu' = NoRun
          /\ UNCHANGED <<set, pc, pass, prog, at, bus, exec, dev>>

(* The firmware hangs, in the pause wait of ENTER for example. *)
Wedge == /\ ~set.late /\ ~pmu.wedged /\ pc \in {"run", "reload"}
         /\ pmu.on \/ mail.calls # <<>>
         /\ pmu' = [pmu EXCEPT !.wedged = TRUE]
         /\ UNCHANGED <<set, pc, pass, prog, at, bus, exec, mail, dev>>

Host == \/ Flush \/ Access \/ Pause \/ Block \/ Start \/ Stop \/ Pramin
        \/ PassDone \/ Fill \/ Push \/ Reply \/ TimesOut \/ Reload
Firmware == Take \/ Execute \/ Answer
Over == pc \in {"done", "raised"} /\ UNCHANGED vars

Next == Host \/ Firmware \/ Wedge \/ Over

Spec == Init /\ [][Next]_vars /\ WF_vars(Host) /\ WF_vars(Firmware)

-----------------------------------------------------------------------------
(* What an operation asks of the controller, the refused stores left out.    *)
Apply(d, o, block) ==
    CASE o.k \in Accesses ->
           IF (o.k = "mask" /\ d.regs[o.reg] = o.val) \/ o.reg = Hostile
           THEN d ELSE Stored(d, o.reg, o.val)
      [] o.k = "store" -> Stored(d, o.reg, o.val)
      [] o.k \in {"delay", "wait"} -> Logged(d, o.k)
      [] o.k = "block" /\ block # "0" -> Logged(d, "enter")
      [] o.k = "unblock" /\ block # "0" -> Logged(d, "leave")
      [] OTHER -> d

(* A straight run of a program on the registers it starts from: registers    *)
(* and events after each of its operations.                                  *)
Straight(ops, base, block) ==
    LET run[n \in 0 .. Len(ops)] ==
          IF n = 0 THEN [regs |-> base, log |-> <<>>] ELSE Apply(run[n - 1], ops[n], block)
    IN run

Asked == Straight(prog, dev.base, set.block)[Len(prog)].log

(* The controller sees the stores, delays and pauses of the program in       *)
(* program order, none twice and none left out in between, each decided by   *)
(* the register values a straight run would have read, whatever was buffered,*)
(* shadowed, cut into scripts, failed or retried (_MemxBus, pmu_send).       *)
InProgramOrder == /\ IsPrefix(dev.log, Asked)
                  /\ pc = "done" => dev.log = Asked

(* The data segment is not rewritten while the firmware still has a script   *)
(* in it to execute (pmu_memx_exec fills it again after each reply).         *)
SegmentStable == [][mail'.seg # mail.seg =>
                      (mail.calls = <<>> /\ ~pmu.on) \/ pmu.wedged]_vars

(* "Send one synchronous GK104 PMU command and return its two-word reply":   *)
(* the reply pmu_send takes is the one to its own command.  Not so with a    *)
(* PMU that is late where the program goes on (MCLateSettings).              *)
ReplyIsOurs == mail.ours

(* A program that reports success leaves the framebuffer running.            *)
DoneUnpaused == pc = "done" => ~dev.paused

(* Every program comes to its end or raises, whatever the firmware does.     *)
SessionEnds == <>(pc \in {"done", "raised"})
=============================================================================
