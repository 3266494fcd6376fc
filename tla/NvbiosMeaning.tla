----------------------------- MODULE NvbiosMeaning -----------------------------
(***************************************************************************)
(* What the scripts of a ROM mean: programs with blocks.                   *)
(*                                                                         *)
(* A program is a sequence of nodes: an instruction; [op "if", conds, then,*)
(* else], a block under conditions; or [op "rep", count, body], a block    *)
(* done count times.  Compile lays a program out as the ROM has it, where  *)
(* conditions only set a flag, NOT turns it round and RESUME clears it;    *)
(* and where a repeated block ends at END_REPEAT.  Meaning runs the blocks *)
(* themselves: it knows no offset, no flag that outlives its block, no     *)
(* invocation to return to and no cached strap.                            *)
(*                                                                         *)
(* Formed says which programs those are: blocks as NVINIT can express      *)
(* them.  FollowsScripts says of which ROMs it is claimed.                 *)
(***************************************************************************)
EXTENDS NvbiosInit

RECURSIVE Compile(_)
Compile(prog) ==
  LET Node(p) ==
        CASE p.op = "if" ->
               p.conds \o Compile(p.then)
                 \o (IF p.else = <<>> THEN <<>>
                     ELSE <<[op |-> "not"]>> \o Compile(p.else))
                 \o <<[op |-> "resume"]>>
          [] p.op = "rep" ->
               <<[op |-> "repeat", count |-> p.count]>> \o Compile(p.body)
                 \o <<[op |-> "end_repeat"]>>
          [] OTHER -> <<p>>
  IN FlattenSeq([k \in DOMAIN prog |-> Node(prog[k])])

(* The programs of a ROM, each ended by DONE, one after the other.         *)
Codes(progs) ==
  [k \in DOMAIN progs |-> Append(Compile(progs[k]), [op |-> "done"])]
Entries(progs) ==
  [k \in DOMAIN progs |-> Len(FlattenSeq(SubSeq(Codes(progs), 1, k - 1))) + 1]

(* The opcodes of a program, those inside its blocks included.             *)
RECURSIVE Ops(_)
Ops(prog) ==
  UNION {{prog[k].op} \cup CASE prog[k].op = "if"  -> Ops(prog[k].then \o prog[k].else)
                            [] prog[k].op = "rep" -> Ops(prog[k].body)
                            [] OTHER -> {} : k \in DOMAIN prog}

Conditions == {"cond", "io_cond", "io_flag", "strap_cond", "ram_cond", "generic",
               "cond_time", "i2c_if", "i2c_long_if"}
Marks == {"not", "resume", "repeat", "end_repeat", "done"}

(* A RESUME ends every block under conditions, so none is inside another.  *)
(* A repeated block is done at least once, and is not left by a jump: the  *)
(* invocation of run_script that does it would go on where the jump leads, *)
(* and then with its next turn.                                            *)
RECURSIVE Formed(_)
Formed(prog) ==
  \A k \in DOMAIN prog :
    LET p == prog[k] IN
    CASE p.op = "if"  -> /\ Ops(p.conds) \subseteq Conditions
                         /\ "if" \notin Ops(p.then \o p.else)
                         /\ Formed(p.then \o p.else)
      [] p.op = "rep" -> p.count > 0 /\ "jump" \notin Ops(p.body) /\ Formed(p.body)
      [] OTHER -> p.op \notin Conditions \cup Marks

ASSUME FormedAssumption ==
  LET cases == Cases IN
  \A k \in DOMAIN cases : LET progs == cases[k].image.progs
                         IN \A p \in DOMAIN progs : Formed(progs[p])

-----------------------------------------------------------------------------
TrueStrap(s) == IF Board(s).override # -1 THEN Board(s).override
                                          ELSE Board(s).regs["strap"] \div 4

(* One instruction, where instructions are executed or where they are not. *)
(* blind: a script looked at the straps first where they are not.          *)
Do(s, i, on) ==
  LET uses  == i.op \in {"ram", "ram_pll"}
      blind == uses /\ ~on /\ ~s.used /\ Board(s).override = -1
  IN Effect([s EXCEPT !.skip = ~on, !.used = @ \/ uses, !.blind = @ \/ blind,
                      !.ram = Image(s).groups[TrueStrap(s)]], i)

(* The conditions of a block, each tried only if those before it hold;     *)
(* whether all of them do is in skip.                                      *)
Try(s, conds, on) ==
  FoldLeft(LAMBDA t, c : Do(t, c, ~t.skip), [s EXCEPT !.skip = ~on], conds)

(* left: the script was left by a jump.                                    *)
RECURSIVE Run(_, _, _)
Run(s, prog, on) ==
  LET Else(t, p, holds) == IF t.left THEN t ELSE Run(t, p.else, ~holds)
      Block(t, p) == Else(Run(t, p.then, ~t.skip), p, ~t.skip)
      Node(t, p) ==
        CASE p.op = "if"  -> Block(Try(t, p.conds, on), p)
          [] p.op = "rep" ->
               FoldLeft(LAMBDA u, k : Run(u, p.body, on), t, [k \in 1..p.count |-> k])
          [] p.op \in {"sub", "sub_direct", "jump"} ->
               IF on /\ p.to # 0
               THEN [Run(t, Image(t).progs[p.to], TRUE) EXCEPT !.left = p.op = "jump"]
               ELSE t
          [] OTHER -> Do(t, p, on)
  IN FoldLeft(LAMBDA t, p : IF t.left THEN t ELSE Node(t, p), s, prog)

(* A script from a fresh state.                                            *)
RunScript(s, k) ==
  Run([Fresh(s) EXCEPT !.left = FALSE, !.used = FALSE], Image(s).progs[k], TRUE)

(* Memory: each script that is not selected is run while it is, and then   *)
(* the selection is what it was.                                           *)
RunRam(s) ==
  LET scripts == Image(s).scripts
      sel     == Board(s).regs["f65c"] \div 4
  IN FoldLeft(LAMBDA t, k : IF k - 1 = sel \/ scripts[k] = 0 THEN t
                            ELSE RunScript(Select(t, k - 1), scripts[k]),
              s, [k \in DOMAIN scripts |-> k])

After(s) ==
  LET sel == Board(s).regs["f65c"] \div 4
      a == Change(Select(s, sel), "f584", 12, 0)
      b == Change(RegWrite(a, "ecc0", Ones), "f160", Ones, 1)
      patterns == Image(s).train[Image(s).groups[TrueStrap(s)]]
  IN IF patterns = <<>> THEN Raises(b)
     ELSE FoldLeft(LAMBDA t, e : RegWrite(t, e[1], e[2]), b, patterns)

Meaning(s) ==
  IF Image(s).kind = "init" THEN FoldLeft(RunScript, VgaWr(s, 15, 5), Image(s).scripts)
  ELSE IF \/ Refused([s EXCEPT !.val = Image(s).groups[TrueStrap(s)]])
          \/ \A k \in DOMAIN Image(s).scripts : Image(s).scripts[k] = 0
  THEN Raises(s)
  ELSE After(RunRam(s))

Meant == Meaning([left |-> FALSE, used |-> FALSE, blind |-> FALSE]
                   @@ Machine([image |-> m.image, board |-> m.board], 0))

-----------------------------------------------------------------------------
Follows(meant) ==
  /\ phase = "done" => m.log = meant.log /\ ~meant.raised
  /\ phase = "raised" => /\ IsPrefix(m.log, meant.log)
                         /\ m.failAt \in 1..m.n \/ meant.raised

(* No null pointer in the table of scripts before one that is none.        *)
NullsLast == \A j, k \in DOMAIN Image(m).scripts :
               j < k /\ Image(m).scripts[j] = 0 => Image(m).scripts[k] = 0

(* The device has seen what the ROM's programs mean, in their order and    *)
(* nothing else: all of it when the interpreter is done, and a first part  *)
(* of it when an access failed, whichever it was.  It raises only then,    *)
(* where the ROM has an opcode it does not know, no memory script or not   *)
(* every training pattern, where the straps of the memory read 0, and      *)
(* where a sum is too wide for a transport that packs it                   *)
(* (_op_zm_mask_add).                                                      *)
(*                                                                         *)
(* Two kinds of ROMs are left out, of which it is not true.  One has a     *)
(* script whose first look at the straps is skipped: _reg_rd32 answers 0,  *)
(* which _ramcfg_index keeps for the instructions that are not skipped.    *)
(* The other has a null pointer before others in the table of its memory   *)
(* scripts: rammap_scripts drops it, and run_vbios_ram_init takes those    *)
(* behind it for scripts of lower selectors.                               *)
FollowsScripts == NullsLast => LET meant == Meant
                               IN Follows(meant) \/ meant.blind

(* Scripts end: every repeat, call and poll of them does, and a loop of    *)
(* jumps (_op_jump) does when the device ends it.                          *)
ScriptsEnd == <>(phase \in {"done", "raised"})

===============================================================================
