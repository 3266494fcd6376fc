------------------------------ MODULE NvbiosInit ------------------------------
(***************************************************************************)
(* The interpreter of NVINIT scripts, examples_kepler/runtime/             *)
(* nvbios_init.py: run_vbios_init runs the scripts of a ROM that bring a   *)
(* board up, run_vbios_ram_init those that prepare its memory.             *)
(*                                                                         *)
(* One instruction occupies one offset; offset 0 ends a script.  Registers *)
(* and ports are named, their values have Width bits.  A handler passes a  *)
(* machine m through its accesses: the execute flags, the caches, the      *)
(* device and the log of what was done to it.  An access that fails raises *)
(* and the rest of the handler does nothing.                               *)
(*                                                                         *)
(* A definition marked "Seeded fault" is used by no specification: it is a *)
(* defect that a property of NvbiosMeaning is known to detect.             *)
(***************************************************************************)
EXTENDS Integers, Sequences, SequencesExt, Bitwise

CONSTANTS
  Cases,     \* a sequence of [image, board, fails]: the ROMs and boards there
             \* are, and which access may fail (bound; 0 for none)
  Width,     \* bits of a register (32)
  PollUnit,  \* condition_time: polls for each unit of its argument (50)
  MaxPolls   \* and at most so many (100)

ASSUME BoundAssumption == {Width, PollUnit, MaxPolls} \subseteq Nat \ {0}

VARIABLES
  phase,   \* "start", "scripts", then "done" or "raised"
  todo,    \* top-level scripts to run, with the value of their selector
  selected, \* the selector run_vbios_ram_init found
  offset,  \* self.offset
  frames,  \* the invocations of run_script; self.nested is their number
  repeat, repend,
  m        \* the machine

vars == <<phase, todo, selected, offset, frames, repeat, repend, m>>

Image(s) == s.image  \* the ROM: code, entries of the scripts, tables
Board(s) == s.board  \* the device, and KEPLER_RAMCFG_STRAP or -1

Ones   == 2^Width - 1
Compl(x) == Ones - (x & Ones)

(* A fresh execution state: what nvbios_init() starts every script with.   *)
Fresh(s) == [s EXCEPT !.skip = FALSE, !.force = FALSE, !.ram = -1]

-----------------------------------------------------------------------------
(* Accessors.  Each leaves what it read in val.                            *)

Exec(s) == ~s.skip \/ s.force

Access(s) ==
  IF s.raised THEN s
  ELSE [s EXCEPT !.n = @ + 1, !.raised = s.n + 1 = s.failAt]

Raises(s) == [s EXCEPT !.raised = TRUE]

Did(s, e) == IF s.raised THEN s ELSE [s EXCEPT !.log = Append(@, e)]

(* The register "busy" shows 1 once it has been read often enough.         *)
Rd(s, r) ==
  IF ~Exec(s) THEN [s EXCEPT !.val = 0]
  ELSE [Access(s) EXCEPT
          !.val = IF r # "busy" THEN s.regs[r]
                  ELSE IF s.polls >= Board(s).ready THEN 1 ELSE 0,
          !.polls = IF r = "busy" THEN @ + 1 ELSE @]

RegWrite(s, r, v) ==
  LET t == Access(s)
  IN IF t.raised THEN t ELSE [Did(t, <<"wr", r, v>>) EXCEPT !.regs[r] = v]

Wr(s, r, v) == IF Exec(s) THEN RegWrite(s, r, v) ELSE s

(* The value is not clipped to the mask.                                   *)
Mask(s, r, mask, v) ==
  IF ~Exec(s) THEN [s EXCEPT !.val = 0]
  ELSE LET t == Rd(s, r)
       IN RegWrite(t, r, (t.val & Compl(mask)) | (v & Ones))

PortRd(s, p) ==
  IF ~Exec(s) THEN [s EXCEPT !.val = 0]
  ELSE [Did(Access(s), <<"in", p>>) EXCEPT
          !.val = IF p = "3d5" THEN s.cr[s.ports["3d4"]] ELSE s.ports[p]]

PortWr(s, p, v) ==
  LET t == Access(s) IN
  IF ~Exec(s) THEN s ELSE IF t.raised THEN t
  ELSE IF p = "3d5" THEN [Did(t, <<"out", p, v>>) EXCEPT !.cr[t.ports["3d4"]] = v]
       ELSE [Did(t, <<"out", p, v>>) EXCEPT !.ports[p] = v]

VgaRd(s, i)    == IF Exec(s) THEN PortRd(PortWr(s, "3d4", i), "3d5")
                             ELSE [s EXCEPT !.val = 0]
VgaWr(s, i, v) == IF Exec(s) THEN PortWr(PortWr(s, "3d4", i), "3d5", v) ELSE s

(* A transfer on a bus looks at no execute flag.  What NVINIT sees of one  *)
(* that fails is its errno: no such bus (found in the ROM's tables, before *)
(* any access), or no answer.                                              *)
ENODEV == 19
EIO    == 5

I2cXfer(s, dev, e) ==
  IF Board(s).i2c[dev] = "absent" THEN [s EXCEPT !.err = ENODEV]
  ELSE LET t == Access(s)
           u == IF t.bus THEN t
                ELSE [RegWrite(t, "bus", 7) EXCEPT !.bus = TRUE]
           x == Did(u, <<"i2c", dev>> \o e)
       IN IF Board(s).i2c[dev] = "nack" THEN [x EXCEPT !.err = EIO]
          ELSE IF x.raised THEN x
          ELSE [x EXCEPT !.err = 0, !.val = x.slave[e[2]],
                         !.slave[e[2]] = IF e[1] = "put" THEN e[3] ELSE @]

I2cRd(s, dev, reg)    == I2cXfer(s, dev, <<"get", reg>>)
I2cWr(s, dev, reg, v) == I2cXfer(s, dev, <<"put", reg, v>>)

(* The group of the board's memory straps, cached by the first use.        *)
RamIndex(s) ==
  IF s.ram # -1 THEN [s EXCEPT !.val = s.ram]
  ELSE LET t == IF Board(s).override # -1
                THEN [s EXCEPT !.val = Board(s).override]
                ELSE LET r == Rd(s, "strap") IN [r EXCEPT !.val = @ \div 4]
           g == Image(s).groups[t.val]
       IN [t EXCEPT !.ram = g, !.val = g]

Skip(s, no) == IF no THEN [s EXCEPT !.skip = TRUE] ELSE s

Shift(x, k) == IF k >= 0 THEN x \div 2^k ELSE x * 2^(-k)

-----------------------------------------------------------------------------
(* Handlers that run on to the next instruction.                           *)

Resume(s) == [s EXCEPT !.skip = FALSE]
Invert(s) == [s EXCEPT !.skip = ~@]

ZmReg(s, i) ==
  Wr(s, i.reg, IF i.reg = "pmc" THEN i.data | 1 ELSE i.data)

NvReg(s, i) == Mask(s, i.reg, Compl(i.mask), i.data)

ZmRegGroup(s, i) == FoldLeft(LAMBDA t, d : Wr(t, i.reg, d), s, i.list)

ZmRegSequence(s, i) == FoldLeft(LAMBDA t, e : Wr(t, e[1], e[2]), s, i.list)

(* Python's integers do not wrap: the sum may be wider than the register.  *)
(* A transport that packs 32 bits refuses it, the others cut it off.       *)
ZmMaskAdd(s, i) ==
  LET t   == Rd(s, i.reg)
      sum == t.val + i.add
      v   == (t.val & i.mask) | (sum & Compl(i.mask))
  IN IF Exec(t) /\ sum > Ones /\ Board(s).packs
     THEN [t EXCEPT !.raised = TRUE] ELSE Wr(t, i.reg, v)

AndnReg(s, i) == Mask(s, i.reg, i.mask, 0)
OrReg(s, i)   == Mask(s, i.reg, 0, i.mask)

CopyZmReg(s, i) == LET t == Rd(s, i.reg) IN Wr(t, i.to, t.val)

CopyNvReg(s, i) ==
  LET t == Rd(s, i.reg)
  IN Mask(t, i.to, Compl(i.mask), (Shift(t.val, i.shift) & i.smask) ^^ i.xor)

(* One word of each group of the list: that of the board's straps.         *)
RamRestrict(s, i) ==
  LET t == RamIndex(s)
      k == t.val + 1
  IN IF t.val >= Image(s).ramCount THEN t
     ELSE FoldLeft(LAMBDA u, e : Wr(u, e[1], e[2][k]), t, i.list)

ZmI2c(s, i) == IF Exec(s) THEN I2cWr(s, i.dev, i.reg, i.data) ELSE s

ZmI2cByte(s, i) ==
  FoldLeft(LAMBDA t, e : IF Exec(t) THEN I2cWr(t, i.dev, e[1], e[2]) ELSE t,
           s, i.list)

(* A register that cannot be read is not written.                          *)
I2cByte(s, i) ==
  LET Modify(t, e) ==
        LET r == I2cRd(t, i.dev, e[1])
        IN IF ~Exec(t) THEN t ELSE IF r.err # 0 THEN r
           ELSE I2cWr(r, i.dev, e[1], (r.val & e[2]) | e[3])
  IN FoldLeft(Modify, s, i.list)

(* Done even where instructions are skipped.                               *)
I2cIf(s, i) ==
  LET t == I2cRd([s EXCEPT !.force = TRUE], i.dev, i.reg)
      v == IF t.err = 0 THEN t.val ELSE Compl(t.err) + 1
  IN [Skip(t, (v & i.mask) # i.data) EXCEPT !.force = FALSE]

I2cLongIf(s, i) ==
  LET t == I2cRd(s, i.dev, i.reg)
  IN Skip(t, t.err # 0 \/ (t.val & i.mask) # i.data)

Cr(s, i) ==
  LET t == VgaRd(s, i.reg) IN VgaWr(t, i.reg, (t.val & i.mask) | i.data)

ZmCr(s, i) == VgaWr(s, i.reg, i.data)

ZmCrGroup(s, i) == FoldLeft(LAMBDA t, e : VgaWr(t, e[1], e[2]), s, i.list)

(* The list goes to successive indices, through a second register.         *)
CrIdxAdrLatch(s, i) ==
  LET old == VgaRd(s, i.reg)
      Latch(t, k) ==
        VgaWr(VgaWr(t, i.reg, (i.base + k - 1) & Ones), i.to, i.list[k])
  IN VgaWr(FoldLeft(Latch, old, [k \in DOMAIN i.list |-> k]), i.reg, old.val)

(* Port 3c3, which enables VGA, first takes the display through a reset.   *)
Io(s, i) ==
  LET Step(t, e) == IF e[1] = "wr" THEN Wr(t, e[2], e[3])
                                   ELSE Mask(t, e[1], e[2], e[3])
      reset == << <<"head0", 12, 4>>, <<"e18c", 2, 2>>, <<"head1", 12, 4>>,
                  <<"pmc", 4, 0>>, <<"e18c", 2, 0>>, <<"pmc", 4, 4>>,
                  <<"wr", "head0", 6>>, <<"wr", "head1", 6>>,
                  <<"wr", "head0", 10>>, <<"wr", "head1", 10>> >>
      t == IF i.port = "3c3" /\ i.data = 1 THEN FoldLeft(Step, s, reset) ELSE s
      u == PortRd(t, i.port)
  IN PortWr(u, i.port, i.data | (u.val & i.mask))

(* A condition is a register and what it must hold.  One that the ROM's    *)
(* tables lack ("none") is never met.                                      *)
Met(s, i) ==
  IF i.reg = "none" THEN [s EXCEPT !.ok = FALSE]
  ELSE LET t == Rd(s, i.reg) IN [t EXCEPT !.ok = (t.val & i.mask) = i.data]

Condition(s, i) ==
  IF ~Exec(s) THEN s ELSE LET t == Met(s, i) IN Skip(t, ~t.ok)

IoCondition(s, i) ==
  LET t == VgaRd(s, i.reg)
  IN IF Exec(s) THEN Skip(t, (t.val & i.mask) # i.data) ELSE s

(* The bits read select an entry of a table, which is compared.            *)
IoFlagCondition(s, i) ==
  LET t == VgaRd(s, i.reg)
      d == i.table[Shift(t.val & i.mask, i.shift) + 1]
  IN IF Exec(s) THEN Skip(t, (d & i.dmask) # i.data) ELSE s

StrapCondition(s, i) == Condition(s, [i EXCEPT !.reg = "strap"])
RamCondition(s, i)   == Condition(s, [i EXCEPT !.reg = "ram"])

(* There is no display output: a generic condition is false.               *)
GenericCondition(s) == Skip(s, Exec(s))

RECURSIVE Poll(_, _, _)
Poll(s, i, wait) ==
  LET t == Met(s, i)
  IN IF wait = 0 THEN [s EXCEPT !.skip = TRUE]
     ELSE IF t.ok \/ t.raised THEN t ELSE Poll(t, i, wait - 1)

ConditionTime(s, i) ==
  IF ~Exec(s) THEN s
  ELSE Poll(s, i, IF i.retry * PollUnit < MaxPolls THEN i.retry * PollUnit
                                                   ELSE MaxPolls)

(* Done even where instructions are skipped.                               *)
Pulse(s, i) ==
  LET a == Mask([s EXCEPT !.force = TRUE], "pci", 12, 0)
      b == Wr(Wr(a, i.reg, i.data), i.reg, i.data2)
      c == Wr(b, "pci", a.val)
  IN [Mask(c, "pcirom", 1, 0) EXCEPT !.force = FALSE]

Macro(s, i) == IF i.reg = "none" THEN s ELSE Wr(s, i.reg, i.data)

IoRestrictProg(s, i) ==
  LET t    == VgaRd(s, i.index)
      conf == Shift(t.val & i.mask, i.shift)
  IN IF conf < Len(i.list) THEN Wr(t, i.reg, i.list[conf + 1]) ELSE t

(* PLLs are not programmed, but what selects their frequency is read.      *)
IoRestrictPll(s, i) ==
  LET t == VgaRd(s, i.index)
  IN IF i.flag # -1 /\ Shift(t.val & i.mask, i.shift) < i.count
     THEN VgaRd(t, i.flag) ELSE t

IoRestrictPll2(s, i) == VgaRd(s, i.index)
RamRestrictPll(s)    == RamIndex(s)

CopyToPort(s, i) ==
  LET t == VgaRd(s, i.index)
      u == Rd(t, i.reg)
  IN VgaWr(u, i.index, (t.val & i.mask) | (Shift(u.val, i.shift) & i.smask))

Xlat(s, i) ==
  LET t == Rd(s, i.reg)
      x == i.table[(Shift(t.val, i.shift) & i.smask) + 1]
  IN Mask(t, i.to, Compl(i.mask), Shift(x, -i.out))

(* Every GPIO of the tables that is not excluded, back to its default.     *)
GpioReset(s, excluded) ==
  LET Reset(t, g) ==
        LET a == Mask(t, g.reg, 12, g.level * 4)
            b == Mask(a, "gpiotrig", 1, 1)
            c == Mask(b, g.reg, 3, g.unk0)
        IN IF g.func \in excluded \cup {255} THEN t
           ELSE IF g.unk1 = "none" THEN c ELSE Mask(c, g.unk1, 3, g.line)
  IN FoldLeft(Reset, s, Image(s).gpios)

Gpio(s, i) == IF Exec(s) THEN GpioReset(s, i.excluded) ELSE s

(* _handlers.  The stubs (the other PLLs, TMDS, AUXCH, delays) do nothing. *)
Effect(s, i) ==
  CASE i.op = "resume"     -> Resume(s)
    [] i.op = "not"        -> Invert(s)
    [] i.op = "zm_reg"     -> ZmReg(s, i)
    [] i.op = "nv_reg"     -> NvReg(s, i)
    [] i.op = "zm_group"   -> ZmRegGroup(s, i)
    [] i.op = "zm_seq"     -> ZmRegSequence(s, i)
    [] i.op = "mask_add"   -> ZmMaskAdd(s, i)
    [] i.op = "andn"       -> AndnReg(s, i)
    [] i.op = "or"         -> OrReg(s, i)
    [] i.op = "copy_zm"    -> CopyZmReg(s, i)
    [] i.op = "copy_nv"    -> CopyNvReg(s, i)
    [] i.op = "ram"        -> RamRestrict(s, i)
    [] i.op = "zm_i2c"     -> ZmI2c(s, i)
    [] i.op = "zm_i2c_byte" -> ZmI2cByte(s, i)
    [] i.op = "i2c_byte"   -> I2cByte(s, i)
    [] i.op = "i2c_if"     -> I2cIf(s, i)
    [] i.op = "i2c_long_if" -> I2cLongIf(s, i)
    [] i.op = "cr"         -> Cr(s, i)
    [] i.op = "zm_cr"      -> ZmCr(s, i)
    [] i.op = "zm_cr_group" -> ZmCrGroup(s, i)
    [] i.op = "cr_latch"   -> CrIdxAdrLatch(s, i)
    [] i.op = "io"         -> Io(s, i)
    [] i.op = "cond"       -> Condition(s, i)
    [] i.op = "io_cond"    -> IoCondition(s, i)
    [] i.op = "io_flag"    -> IoFlagCondition(s, i)
    [] i.op = "strap_cond" -> StrapCondition(s, i)
    [] i.op = "ram_cond"   -> RamCondition(s, i)
    [] i.op = "generic"    -> GenericCondition(s)
    [] i.op = "cond_time"  -> ConditionTime(s, i)
    [] i.op = "reset"      -> Pulse(s, i)
    [] i.op = "macro"      -> Macro(s, i)
    [] i.op = "io_prog"    -> IoRestrictProg(s, i)
    [] i.op = "io_pll"     -> IoRestrictPll(s, i)
    [] i.op = "io_pll2"    -> IoRestrictPll2(s, i)
    [] i.op = "ram_pll"    -> RamRestrictPll(s)
    [] i.op = "copy"       -> CopyToPort(s, i)
    [] i.op = "xlat"       -> Xlat(s, i)
    [] i.op = "gpio"       -> Gpio(s, i)
    [] i.op = "stub"       -> s
    [] i.op = "unknown"    -> Raises(s)

Control == {"done", "repeat", "end_repeat", "sub", "sub_direct", "jump"}

-----------------------------------------------------------------------------
Machine(c, fail) ==
  [image |-> c.image, board |-> c.board, skip |-> FALSE, force |-> FALSE,
   ram |-> -1, bus |-> FALSE, val |-> 0, ok |-> FALSE, err |-> 0, n |-> 0,
   failAt |-> fail, raised |-> FALSE, polls |-> 0, log |-> <<>>,
   regs |-> c.board.regs, ports |-> c.board.ports, cr |-> c.board.cr,
   slave |-> c.board.slave]

Init ==
  /\ \E k \in DOMAIN Cases : \E c \in {Cases[k]} :
       \E fail \in c.fails : m = Machine(c, fail)
  /\ phase = "start" /\ todo = <<>> /\ selected = 0 /\ offset = 0
  /\ frames = <<>> /\ repeat = 0 /\ repend = 0

Op == IF offset \in DOMAIN Image(m).code THEN Image(m).code[offset]
                                         ELSE [op |-> "unknown"]

(* An exception leaves every invocation of run_script.                     *)
Becomes(s, next) ==
  /\ m' = s
  /\ phase' = IF s.raised THEN "raised" ELSE next

(* run_vbios_init: unlock the CRTC, and run the scripts one by one.        *)
BeginInit ==
  /\ phase = "start" /\ Image(m).kind = "init"
  /\ Becomes(VgaWr(m, 15, 5), "scripts")
  /\ todo' = [k \in DOMAIN Image(m).scripts |-> [script |-> Image(m).scripts[k], sel |-> -1]]
  /\ UNCHANGED <<selected, offset, frames, repeat, repend>>

(* The selector has the upper two bits of its register.                    *)
Select(s, sel) ==
  LET t == Access(s)
  IN RegWrite(t, "f65c", (t.regs["f65c"] & 3) | ((sel * 4) & 12))

(* rammap_scripts: without the null pointers.                              *)
RammapScripts(s) == SelectSeq(Image(s).scripts, LAMBDA a : a # 0)

(* A strap that reads 0 is refused: the board has not been powered up.     *)
Refused(s) ==
  Board(s).override = -1 /\ s.regs["strap"] = 0 /\ s.val = 0

(* run_vbios_ram_init: every script but the one selected.                  *)
BeginRam ==
  LET t    == RamIndex(m)
      u    == IF Refused(t) THEN Raises(t) ELSE Access(t)
      sel  == u.regs["f65c"] \div 4
      list == [k \in DOMAIN RammapScripts(m) |->
                 [script |-> RammapScripts(m)[k], sel |-> k - 1]]
  IN /\ phase = "start" /\ Image(m).kind = "ram"
     /\ Becomes(IF list = <<>> THEN Raises(m) ELSE u, "scripts")
     /\ todo' = SelectSeq(list, LAMBDA e : e.sel # sel)
     /\ selected' = sel
     /\ UNCHANGED <<offset, frames, repeat, repend>>

(* run_script at the top level.                                            *)
Start ==
  /\ phase = "scripts" /\ frames = <<>> /\ todo # <<>>
  /\ LET s == IF Head(todo).sel = -1 THEN m ELSE Select(m, Head(todo).sel)
     IN Becomes(Fresh(s), "scripts")
  /\ todo' = Tail(todo)
  /\ frames' = <<[kind |-> "top"]>> /\ repeat' = 0 /\ repend' = 0
  /\ offset' = Image(m).entry[Head(todo).script]
  /\ UNCHANGED selected

At(ops) == phase = "scripts" /\ frames # <<>> /\ offset # 0 /\ Op.op \in ops

Step ==
  /\ At({Op.op} \ Control)
  /\ Becomes(Effect(m, Op), "scripts")
  /\ offset' = offset + 1
  /\ UNCHANGED <<todo, selected, frames, repeat, repend>>

Done ==
  /\ At({"done"})
  /\ offset' = 0
  /\ UNCHANGED <<phase, todo, selected, frames, repeat, repend, m>>

(* The body is run by run_script, whether instructions are skipped or not. *)
Repeat ==
  /\ At({"repeat"})
  /\ offset' = offset + 1
  /\ IF Op.count = 0 THEN UNCHANGED <<frames, repeat, repend>>
     ELSE /\ frames' = Append(frames, [kind |-> "repeat", left |-> Op.count,
                                       repeat |-> repeat, repend |-> repend])
          /\ repeat' = offset + 1 /\ repend' = offset + 1
  /\ UNCHANGED <<phase, todo, selected, m>>

EndRepeat ==
  /\ At({"end_repeat"})
  /\ IF repeat = 0 THEN offset' = offset + 1 /\ UNCHANGED repend
                    ELSE offset' = 0 /\ repend' = offset + 1
  /\ UNCHANGED <<phase, todo, selected, frames, repeat, m>>

Call(to) ==
  IF Exec(m)
  THEN /\ frames' = Append(frames, [kind |-> "sub", back |-> offset + 1])
       /\ offset' = to
  ELSE offset' = offset + 1 /\ UNCHANGED frames

SubDirect ==
  /\ At({"sub_direct"})
  /\ Call(Image(m).entry[Op.to])
  /\ UNCHANGED <<phase, todo, selected, repeat, repend, m>>

(* Through the ROM's table of scripts, which may lack the one called.      *)
Sub ==
  /\ At({"sub"})
  /\ IF Op.to = 0 THEN offset' = offset + 1 /\ UNCHANGED frames
                       ELSE Call(Image(m).entry[Op.to])
  /\ UNCHANGED <<phase, todo, selected, repeat, repend, m>>

Jump ==
  /\ At({"jump"})
  /\ offset' = IF Exec(m) THEN Image(m).entry[Op.to] ELSE offset + 1
  /\ UNCHANGED <<phase, todo, selected, frames, repeat, repend, m>>

Returning(kind) ==
  phase = "scripts" /\ frames # <<>> /\ offset = 0 /\ Last(frames).kind = kind

(* run_script returns: at the top level, *)
ReturnTop ==
  /\ Returning("top")
  /\ frames' = Front(frames)
  /\ UNCHANGED <<phase, todo, selected, offset, repeat, repend, m>>

(* to the instruction after a call, *)
ReturnSub ==
  /\ Returning("sub")
  /\ frames' = Front(frames) /\ offset' = Last(frames).back
  /\ UNCHANGED <<phase, todo, selected, repeat, repend, m>>

(* Seeded fault: the start of the outer repeat is not put back. *)
ReturnPastInner ==
  /\ Returning("repeat") /\ Last(frames).left = 1
  /\ frames' = Front(frames) /\ offset' = repend
  /\ UNCHANGED <<phase, todo, selected, repeat, repend, m>>

(* Seeded fault: the turns of a repeat are not counted down. *)
ReturnUncounted ==
  /\ Returning("repeat") /\ Last(frames).left > 1
  /\ offset' = repeat
  /\ UNCHANGED <<phase, todo, selected, frames, repeat, repend, m>>

(* to the next turn of a repeat, *)
ReturnAgain ==
  /\ Returning("repeat") /\ Last(frames).left > 1
  /\ frames' = [frames EXCEPT ![Len(frames)].left = @ - 1]
  /\ offset' = repeat
  /\ UNCHANGED <<phase, todo, selected, repeat, repend, m>>

(* or past its end. *)
ReturnPast ==
  /\ Returning("repeat") /\ Last(frames).left = 1
  /\ frames' = Front(frames) /\ offset' = repend
  /\ repeat' = Last(frames).repeat /\ repend' = Last(frames).repend
  /\ UNCHANGED <<phase, todo, selected, m>>

(* What follows the last script: the selector is put back, the mode ends,  *)
(* and the training patterns are written, which the straps choose; the ROM *)
(* may lack some.                                                          *)
Change(s, r, keep, v) ==
  LET t == Access(s) IN RegWrite(t, r, (t.regs[r] & keep) | v)

Train(s) ==
  LET a == Change(Select(s, selected), "f584", 12, 0)
      b == Change(RegWrite(a, "ecc0", Ones), "f160", Ones, 1)
      c == RamIndex(b)
      patterns == Image(s).train[c.val]
  IN IF patterns = <<>> THEN Raises(c)
     ELSE FoldLeft(LAMBDA t, e : RegWrite(t, e[1], e[2]), c, patterns)

Finish ==
  /\ phase = "scripts" /\ frames = <<>> /\ todo = <<>>
  /\ Becomes(IF Image(m).kind = "ram" THEN Train(m) ELSE m, "done")
  /\ UNCHANGED <<todo, selected, offset, frames, repeat, repend>>

Ended == phase \in {"done", "raised"} /\ UNCHANGED vars

Act ==
  \/ BeginInit \/ BeginRam \/ Start \/ Step \/ Done
  \/ Repeat \/ EndRepeat \/ SubDirect \/ Sub \/ Jump
  \/ ReturnTop \/ ReturnSub \/ ReturnAgain \/ ReturnPast \/ Finish

Next == Act \/ Ended

Spec == Init /\ [][Next]_vars

(* The interpreter goes on: weak fairness of Act, which is enabled until   *)
(* the interpreter has ended.                                              *)
GoesOn   == []<>(phase \in {"done", "raised"}) \/ []<><<Act>>_vars
FairSpec == Spec /\ GoesOn

===============================================================================
