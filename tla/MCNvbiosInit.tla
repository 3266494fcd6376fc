------------------------------ MODULE MCNvbiosInit ------------------------------
(***************************************************************************)
(* Every instruction by itself and under a condition that holds or does    *)
(* not; every condition; blocks, repeats, calls and jumps in each other;   *)
(* loops of jumps; several scripts; and the memory scripts.                *)
(***************************************************************************)
EXTENDS NvbiosMeaning

Set(r, v) == [op |-> "zm_reg", reg |-> r, data |-> v]
If(c, a, b) == [op |-> "if", conds |-> c, then |-> a, else |-> b]
Rep(n, a) == [op |-> "rep", count |-> n, body |-> a]
Sub1(p) == [op |-> "sub_direct", to |-> p]

Leaves ==
  << [op |-> "zm_reg", reg |-> "pmc", data |-> 6],
    [op |-> "nv_reg", reg |-> "a", mask |-> 12, data |-> 3],
    [op |-> "zm_group", reg |-> "a", list |-> <<2, 7>>],
    [op |-> "zm_seq", list |-> << <<"a", 4>>, <<"b", 8>> >>],
    [op |-> "mask_add", reg |-> "a", mask |-> 12, add |-> 2],
    [op |-> "mask_add", reg |-> "a", mask |-> 12, add |-> 5],
    [op |-> "andn", reg |-> "b", mask |-> 1],
    [op |-> "or", reg |-> "b", mask |-> 6],
    [op |-> "copy_zm", reg |-> "a", to |-> "b"],
    [op |-> "copy_nv", reg |-> "b", shift |-> 2, smask |-> 3, xor |-> 1, to |-> "a", mask |-> 3],
    [op |-> "copy_nv", reg |-> "a", shift |-> -1, smask |-> 6, xor |-> 4, to |-> "b", mask |-> 14],
    [op |-> "zm_i2c", dev |-> "d", reg |-> 0, data |-> 3],
    [op |-> "zm_i2c_byte", dev |-> "d", list |-> << <<0, 1>>, <<1, 2>> >>],
    [op |-> "i2c_byte", dev |-> "d", list |-> << <<0, 3, 8>>, <<1, 12, 1>> >>],
    [op |-> "cr", reg |-> 1, mask |-> 5, data |-> 2],
    [op |-> "zm_cr", reg |-> 2, data |-> 9],
    [op |-> "zm_cr_group", list |-> << <<1, 3>>, <<2, 4>> >>],
    [op |-> "cr_latch", reg |-> 1, to |-> 2, base |-> 15, list |-> <<5, 6>>],
    [op |-> "io", port |-> "3c3", mask |-> 0, data |-> 1],
    [op |-> "io", port |-> "3c2", mask |-> 6, data |-> 8],
    [op |-> "reset", reg |-> "c", data |-> 3, data2 |-> 4],
    [op |-> "macro", reg |-> "c", data |-> 5],
    [op |-> "macro", reg |-> "none", data |-> 5],
    [op |-> "io_prog", index |-> 1, mask |-> 6, shift |-> 1, reg |-> "c", list |-> <<1, 2, 3, 4>>],
    [op |-> "io_pll", index |-> 1, mask |-> 6, shift |-> 1, count |-> 2, flag |-> 2],
    [op |-> "io_pll", index |-> 1, mask |-> 6, shift |-> 1, count |-> 3, flag |-> -1],
    [op |-> "io_pll2", index |-> 1],
    [op |-> "copy", index |-> 2, mask |-> 8, reg |-> "b", shift |-> 1, smask |-> 6],
    [op |-> "xlat", reg |-> "a", shift |-> 1, smask |-> 3, table |-> <<3, 1, 2, 0>>,
                    out |-> 2, to |-> "c", mask |-> 12],
    [op |-> "gpio", excluded |-> {}], [op |-> "gpio", excluded |-> {8}],
    [op |-> "stub"], [op |-> "unknown"] >>

Ram == [op |-> "ram", list |-> << <<"a", <<1, 2, 3>> >>, <<"b", <<4, 5, 6>> >> >>]
RamPll == [op |-> "ram_pll"]

(* Conditions that hold on the first board below, and that do not.         *)
Conds ==
  << [op |-> "cond", reg |-> "a", mask |-> 5, data |-> 5],
    [op |-> "cond", reg |-> "a", mask |-> 5, data |-> 4],
    [op |-> "cond", reg |-> "none", mask |-> 0, data |-> 0],
    [op |-> "io_cond", reg |-> 1, mask |-> 2, data |-> 2],
    [op |-> "io_cond", reg |-> 1, mask |-> 2, data |-> 0],
    [op |-> "io_flag", reg |-> 1, mask |-> 6, shift |-> 1, table |-> <<0, 8, 4, 2>>,
                       dmask |-> 15, data |-> 8],
    [op |-> "strap_cond", reg |-> "", mask |-> 2, data |-> 2],
    [op |-> "ram_cond", reg |-> "", mask |-> 1, data |-> 0],
    [op |-> "generic"],
    [op |-> "cond_time", reg |-> "busy", mask |-> 1, data |-> 1, retry |-> 1],
    [op |-> "cond_time", reg |-> "busy", mask |-> 1, data |-> 1, retry |-> 2],
    [op |-> "i2c_if", dev |-> "d", reg |-> 1, mask |-> 6, data |-> 2],
    [op |-> "i2c_if", dev |-> "d", reg |-> 1, mask |-> 15, data |-> 11],
    [op |-> "i2c_long_if", dev |-> "d", reg |-> 0, mask |-> 1, data |-> 1] >>
Yes == [op |-> "cond", reg |-> "c", mask |-> 15, data |-> 6]
No  == [op |-> "cond", reg |-> "c", mask |-> 15, data |-> 7]

-----------------------------------------------------------------------------
Board1 ==
  [regs |-> [r \in {"a", "b", "c", "pmc", "head0", "head1", "e18c", "strap",
                    "ram", "pci", "pcirom", "bus", "f65c", "f584", "ecc0",
                    "f160", "f968", "g1", "g2", "gpiotrig", "gpiosel"} |->
               CASE r = "a" -> 13 [] r = "b" -> 9 [] r = "strap" -> 6
                 [] r = "c" -> 6 [] r = "ram" -> 2 [] r = "pci" -> 11
                 [] r = "f65c" -> 6 [] OTHER -> 0],
   ports |-> [p \in {"3c2", "3c3", "3d4"} |-> 4], cr |-> [k \in 0..15 |-> 3],
   slave |-> <<7>> @@ (0 :> 6), i2c |-> [d \in {"d"} |-> "ok"],
   ready |-> 2, override |-> -1, packs |-> FALSE]

Board2 == [Board1 EXCEPT !.i2c["d"] = "nack", !.ready = 9, !.override = 2,
                         !.regs["strap"] = 0, !.packs = TRUE]
Board3 == [Board1 EXCEPT !.i2c["d"] = "absent", !.ready = 1]

Rom(kind, progs, scripts, train) ==
  [kind |-> kind, progs |-> progs, code |-> FlattenSeq(Codes(progs)),
   entry |-> Entries(progs), scripts |-> scripts, train |-> train,
   groups |-> <<2, 1, 3>> @@ (0 :> 0), ramCount |-> 3,
   gpios |-> << [reg |-> "g1", func |-> 7, level |-> 3, unk0 |-> 2, unk1 |-> "gpiosel", line |-> 1],
                [reg |-> "g2", func |-> 8, level |-> 2, unk0 |-> 1, unk1 |-> "none", line |-> 0],
                [reg |-> "g2", func |-> 255, level |-> 1, unk0 |-> 3, unk1 |-> "none", line |-> 0] >>]

Init1(progs, scripts) == Rom("init", progs, scripts, <<>>)
One(prog) == Init1(<<prog>>, <<1>>)
x == Set("a", 1)   y == Set("b", 2)   z == Set("a", 3)   u == Set("b", 4)

(* A sequence of the pairs of two sequences.                               *)
Pairs(s, t) == [k \in 1..(Len(s) * Len(t)) |->
                  <<s[((k - 1) \div Len(t)) + 1], t[((k - 1) % Len(t)) + 1]>>]
(* ROMs on boards, where any of the first n accesses may fail.             *)
On(boards, roms, n) ==
  LET P == Pairs(boards, roms)
  IN [k \in DOMAIN P |-> [board |-> P[k][1], image |-> P[k][2], fails |-> 0..n]]

Alone(leaves) == [k \in DOMAIN leaves |-> One(<<leaves[k], x>>)]

Under(c, leaves) ==
  [k \in DOMAIN leaves |->
     One(<<If(<<c>>, <<leaves[k], x>>, <<y, leaves[k]>>), u>>)]

Tried ==
  LET P == Pairs(Conds, Conds)
  IN [k \in DOMAIN P |-> One(<<If(P[k], <<x>>, IF k % 3 = 0 THEN <<>> ELSE <<y>>), u>>)]

Turns ==
  LET P == Pairs(<<1, 2, 3>>, Pairs(<<1, 2>>, <<Yes, No>>))
  IN [k \in DOMAIN P |->
        One(<<x, Rep(P[k][1], <<y, Rep(P[k][2][1], <<z>>),
                                If(<<P[k][2][2]>>, <<u>>, <<>>)>>), x>>)]

Within ==
  LET P == Pairs(<<Yes, No>>, <<z, [op |-> "reset", reg |-> "c", data |-> 6, data2 |-> 6]>>)
  IN [k \in DOMAIN P |->
        One(<<If(<<P[k][1]>>, <<Rep(2, <<x, P[k][2]>>)>>, <<y>>), u>>)]

(* The first program calls or jumps to the second, which may call the      *)
(* third or jump to it.                                                    *)
Goes == <<Sub1(2), [op |-> "sub", to |-> 2], [op |-> "jump", to |-> 2], Rep(2, <<Sub1(2)>>)>>
Inner == <<Sub1(3), [op |-> "sub", to |-> 0]>>
Tails == <<Sub1(3), If(<<Yes>>, <<[op |-> "jump", to |-> 3]>>, <<>>),
           If(<<No>>, <<[op |-> "jump", to |-> 3]>>, <<>>)>>
Calls ==
  LET P == Pairs(Pairs(<<Yes, No>>, Goes), Pairs(Pairs(<<Yes, No>>, Inner), Tails))
  IN [k \in DOMAIN P |->
        LET c == P[k][1][1]   go == P[k][1][2]   tail == P[k][2][2]
            d == P[k][2][1][1]   in == P[k][2][1][2]
        IN Init1(<< <<x, If(<<c>>, <<go>>, <<y>>), z>>,
                    <<Rep(2, <<u, If(<<d>>, <<in>>, <<>>)>>), tail, y>>,
                    <<x, Rep(2, <<z>>)>> >>, <<1, 2>>)]

(* A script that jumps back until the device is ready: in itself, through  *)
(* another, and below a call.                                              *)
Until(p) == If(<<[op |-> "cond", reg |-> "busy", mask |-> 1, data |-> 0]>>,
               <<[op |-> "jump", to |-> p]>>, <<>>)
Loops ==
  << One(<<x, Until(1), y>>),
     Init1(<< <<x, If(<<Yes>>, <<[op |-> "jump", to |-> 2]>>, <<>>)>>,
              <<y, Until(1), z>> >>, <<1>>),
     Init1(<< <<Rep(2, <<Sub1(2)>>), u>>, <<x, Until(2), y>> >>, <<1>>) >>

(* Scripts that use the straps, one in a script it calls.                  *)
Several ==
  LET S == << <<1, 2>>, <<2, 1>>, <<2, 1, 2>> >>
  IN [k \in DOMAIN S |->
        Init1(<< <<Sub1(3), x>>, <<Ram, y>>, <<RamPll, Ram, z>> >>, S[k])]

(* The ROM has no training patterns for the last of its groups.            *)
Patterns == [g \in 0..3 |-> IF g = 3 THEN <<>> ELSE << <<"f968", g>>, <<"f968", g + 4>> >>]

Memory ==
  LET S == << <<1, 2, 3>>, <<2, 3>>, <<3, 1, 2, 1>>, <<1, 2, 0>>, <<1, 0, 3>>,
            <<0, 0>>, <<1, 2, 3, 1, 2>> >>
      P == Pairs(Pairs(<<Yes, No>>, << <<y>>, <<RamPll, y>> >>), S)
  IN [k \in DOMAIN P |->
        Rom("ram", << <<Ram, x>>, <<If(<<P[k][1][1]>>, P[k][1][2], <<z>>)>>, <<Set("c", 1)>> >>,
            P[k][2], Patterns)]

All == Leaves \o <<Ram, RamPll>>

MCCases ==
  On(<<Board1, Board2, Board3>>, Alone(All) \o Tried \o Loops, 5)
    \o On(<<Board1, Board2>>, Under(Yes, All) \o Under(No, All) \o Several, 5)
    \o On(<<Board1>>, Turns \o Within \o Calls, 5)
    \o On(<<Board1, Board2, [Board1 EXCEPT !.regs["strap"] = 0],
             [Board1 EXCEPT !.override = 3]>>, Memory, 30)
================================================================================
