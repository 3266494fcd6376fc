------------------------------ MODULE PageTables ------------------------------
(***************************************************************************)
(* MemoryManager, PageTableTraverseContext and NVPageTableEntry of         *)
(* examples/add.py: valloc() and vfree() over page tables of several       *)
(* levels, in which the entries of the last three levels may be pages.     *)
(*                                                                         *)
(* One step is one turn of a loop of the walk, so the walk of the GPU may  *)
(* fall between any two writes.  Addresses and sizes count pages of 4 KiB. *)
(* Levels count from 1.  Page tables come from an allocator of their own   *)
(* (reserve_ptable), the rest from runs of free pages, as Tlsf hands them  *)
(* out.                                                                    *)
(*                                                                         *)
(* A definition marked "Seeded fault" is used by no specification: it is a *)
(* defect that a property below is known to detect.                        *)
(***************************************************************************)
EXTENDS Integers, Sequences, FiniteSets, SequencesExt

CONSTANTS
  Cnt,        \* the entries of a table of each level
  VaPool,     \* pages of the virtual pool, from 0
  PaPool,     \* pages of the physical pool, from 0
  Frames,     \* the pages of the page-table allocator
  Root,       \* the page of the root table, from the boot allocator
  Ranges,     \* palloc_ranges: sizes valloc tries, largest first
  Sizes,      \* sizes clients ask for
  Reserved    \* size of the range whose tables GSP-RM is given

Levels == Len(Cnt)

ASSUME LevelAssumption == Cnt \in Seq(Nat \ {0}) /\ Levels >= 3
ASSUME RangeAssumption == Ranges \in Seq(Nat \ {0}) /\ Ranges # <<>> /\ Ranges[Len(Ranges)] = 1
ASSUME SizeAssumption == Sizes \subseteq Nat \ {0} /\ Reserved \in Nat \ {0}
ASSUME FrameAssumption == Root \notin Frames

VARIABLES
  tab,     \* the page tables in use: level and entries
  spaces,  \* the virtual ranges allocated
  parts,   \* the physical ranges allocated
  maps,    \* the mappings clients hold
  given,   \* the tables GSP-RM was given
  stale,   \* virtual pages the GPU's TLB may translate as they were mapped once
  op       \* the call that runs: what is left of it, and its walk

vars == <<tab, spaces, parts, maps, given, stale, op>>

-----------------------------------------------------------------------------
None == [k |-> "none", at |-> 0]
Page(p) == [k |-> "page", at |-> p]
Table(f) == [k |-> "table", at |-> f]

(* pte_covers: the pages an entry of each level stands for.                *)
Covers[l \in 1 .. Levels] == IF l = Levels THEN 1 ELSE Cnt[l + 1] * Covers[l + 1]

(* _pt_pte_idx                                                             *)
Idx(l, va) == (va \div Covers[l]) % Cnt[l]

(* supports_huge_page                                                      *)
Huge(l, pa) == l >= Levels - 2 /\ pa % Covers[l] = 0

Smaller(a, b) == IF a <= b THEN a ELSE b
Larger(a, b) == IF a >= b THEN a ELSE b

Pages(r) == r.at .. r.at + r.len - 1

(* What an allocator may return: the first aligned page of a run of free   *)
(* pages that is longer than the request by the alignment.                 *)
Places(pool, used, len, align) ==
  LET taken == UNION {Pages(r) : r \in used}
      Start(s) == s \notin taken /\ (s = 0 \/ s - 1 \in taken)
  IN {((s + align - 1) \div align) * align :
        s \in {s \in 0 .. pool - len - align : Start(s) /\ (s .. s + len + align - 1) \cap taken = {}}}

(* The alignment of virtual ranges, 1 << (size.bit_length() - 1).          *)
AlignOf(size) == CHOOSE a \in {2 ^ b : b \in 0 .. size} : a <= size /\ size < 2 * a

ASSUME AlignAssumption == \A size \in Sizes : AlignOf(size) \in Nat \ {0}

(* The pool of virtual addresses ends before the last entry of the root:   *)
(* 2^36 + 2^44 bytes, where an entry of the root covers 2^47 or 2^56.      *)
ASSUME PoolAssumption ==
  VaPool \in Nat /\ PaPool \in Nat /\ VaPool <= (Cnt[1] - 1) * Covers[1]

-----------------------------------------------------------------------------
(* The walk.  Its stack holds the tables from the root down, each with the *)
(* index it has reached; at is the virtual page it has reached, and todo   *)
(* what is left of the range.  Before the walk todo is rem_size, what has  *)
(* no physical range yet.                                                  *)
Idle == [kind |-> "idle"]

Context(va) == <<[t |-> Root, i |-> Idx(1, va)]>>

Top == Last(op.stack)
Lv == tab[Top.t].lv
Entry == tab[Top.t].ent[Top.i]

Turn == op.todo > 0 /\ ~op.up
Entries == Smaller(op.todo \div Covers[Lv], Cnt[Lv] - Top.i)

Push(f) == Append(op.stack, [t |-> f, i |-> Idx(Lv + 1, op.at)])

Row == Top.i .. Top.i + Entries - 1

(* set_entry() of the entries new gives.                                   *)
Write(new) ==
  [tab EXCEPT ![Top.t].ent = [x \in DOMAIN @ |-> IF x \in DOMAIN new THEN new[x] ELSE @[x]]]

Advance(n) ==
  [op EXCEPT !.at = @ + n * Covers[Lv], !.todo = @ - n * Covers[Lv], !.off = @ + n * Covers[Lv],
             !.stack = Append(Front(@), [Top EXCEPT !.i = @ + n]), !.up = TRUE]

Fail(why) == op' = [op EXCEPT !.kind = "failed", !.left = <<why>>]

EmptyTable(l) == [lv |-> l, ent |-> [x \in 0 .. Cnt[l] - 1 |-> None]]

Clear(f) == \A x \in DOMAIN tab[f].ent : tab[f].ent[x] = None

(* Seeded fault: the walk does not move on in the table above.             *)
PopStays == Front(op.stack)

(* level_up(): while its table is used up, or is given back because it is  *)
(* empty, the walk goes back to the table above.                           *)
Pop ==
  LET rest == Front(op.stack)
  IN IF Top.i = Cnt[Lv] THEN Append(Front(rest), [Last(rest) EXCEPT !.i = @ + 1]) ELSE rest

(* Seeded fault: a table is given back with entries in it.                 *)
FreesAlways == op.kind = "unmap" /\ Top.t # Root

(* _try_free_pt                                                            *)
Frees == op.kind = "unmap" /\ Top.t # Root /\ Clear(Top.t)

GiveBack ==
  LET up == Last(Front(op.stack))
  IN [f \in DOMAIN tab \ {Top.t} |->
        IF f = up.t THEN [tab[f] EXCEPT !.ent[up.i] = None] ELSE tab[f]]

LevelUp ==
  /\ op.kind \in {"check", "map", "unmap"} /\ op.up
  /\ tab' = IF Frees THEN GiveBack ELSE tab
  /\ op' = IF Frees \/ Top.i = Cnt[Lv] THEN [op EXCEPT !.stack = Pop] ELSE [op EXCEPT !.up = FALSE]
  /\ UNCHANGED <<spaces, parts, maps, given, stale>>

-----------------------------------------------------------------------------
(* valloc(): a virtual range, then physical ranges for it, ...             *)
Init ==
  /\ tab = [f \in {Root} |-> EmptyTable(1)]
  /\ spaces = {} /\ parts = {} /\ maps = {} /\ given = {} /\ stale = {} /\ op = Idle

Call(kind, va, size) ==
  [kind |-> kind, va |-> va, size |-> size, got |-> <<>>, rng |-> 1, left |-> <<>>,
   stack |-> Context(va), at |-> va, todo |-> size, off |-> 0, up |-> FALSE]

Valloc(size) ==
  /\ op = Idle /\ given # {}
  /\ \E va \in Places(VaPool, spaces, size, AlignOf(size)) :
       /\ spaces' = spaces \cup {[at |-> va, len |-> size]}
       /\ op' = Call("alloc", va, size)
  /\ UNCHANGED <<tab, parts, maps, given, stale>>

(* The largest range that is not given up and not too large.               *)
Trying == CHOOSE x \in op.rng .. Len(Ranges) :
            Ranges[x] <= op.todo /\ \A y \in op.rng .. x - 1 : Ranges[y] > op.todo

PallocRange ==
  /\ op.kind = "alloc" /\ op.todo > 0
  /\ \E at \in Places(PaPool, parts, Ranges[Trying], Ranges[Trying]) :
       LET r == [at |-> at, len |-> Ranges[Trying]]
       IN /\ parts' = parts \cup {r}
          /\ op' = [op EXCEPT !.got = Append(@, r), !.rng = Trying, !.todo = @ - r.len]
  /\ UNCHANGED <<tab, spaces, maps, given, stale>>

(* ... or smaller ones, and in the end MemoryError.                        *)
PallocFails ==
  /\ op.kind = "alloc" /\ op.todo > 0
  /\ Places(PaPool, parts, Ranges[Trying], Ranges[Trying]) = {}
  /\ IF Trying = Len(Ranges)
     THEN parts' = parts \ ToSet(op.got) /\ op' = Idle
     ELSE op' = [op EXCEPT !.rng = Trying + 1] /\ UNCHANGED parts
  /\ UNCHANGED <<tab, spaces, maps, given, stale>>

(* valloc() of one contiguous range, which need not be aligned.            *)
VallocContiguous(size) ==
  /\ op = Idle /\ given # {}
  /\ \E va \in Places(VaPool, spaces, size, AlignOf(size)) :
       /\ spaces' = spaces \cup {[at |-> va, len |-> size]}
       /\ \/ \E at \in Places(PaPool, parts, size, 1) :
               LET r == [at |-> at, len |-> size]
               IN parts' = parts \cup {r} /\ op' = [Call("alloc", va, size) EXCEPT !.got = <<r>>, !.todo = 0]
          \/ Places(PaPool, parts, size, 1) = {} /\ UNCHANGED <<parts, op>>
  /\ UNCHANGED <<tab, maps, given, stale>>

-----------------------------------------------------------------------------
(* map_range() walks the range once to see that nothing is mapped ...      *)
StartCheck ==
  /\ op.kind = "alloc" /\ op.todo = 0
  /\ op' = [Call("check", op.va, op.size) EXCEPT !.got = op.got]
  /\ UNCHANGED <<tab, spaces, parts, maps, given, stale>>

Check ==
  /\ op.kind = "check" /\ Turn
  /\ IF Entry.k = "table"
     THEN op' = [op EXCEPT !.stack = Push(Entry.at)]
     ELSE LET n == Larger(Entries, 1)
          IN IF \E x \in Top.i .. Top.i + n - 1 : tab[Top.t].ent[x] # None
             THEN Fail("PTE already mapped") ELSE op' = Advance(n)
  /\ UNCHANGED <<tab, spaces, parts, maps, given, stale>>

(* ... and once, over one physical range after the other, to map it.       *)
StartMap ==
  /\ op.kind = "check" /\ op.todo <= 0 /\ ~op.up
  /\ op' = [Call("map", op.va, op.size) EXCEPT !.got = op.got, !.left = op.got, !.todo = 0]
  /\ UNCHANGED <<tab, spaces, parts, maps, given, stale>>

NextPart ==
  /\ op.kind = "map" /\ op.todo = 0 /\ ~op.up /\ op.left # <<>>
  /\ LET r == Head(op.left)
     IN op' = [op EXCEPT !.rng = r.at, !.todo = r.len, !.off = 0, !.left = Tail(@)]
  /\ UNCHANGED <<tab, spaces, parts, maps, given, stale>>

(* The entry is too large, or what it would map is not aligned.            *)
TooLarge(pa) == Covers[Lv] > op.todo \/ ~Huge(Lv, pa) \/ op.at % Covers[Lv] # 0

(* level_down(), with palloc() of a table where there is none.  A          *)
(* MemoryError leaves what was mapped.                                     *)
LevelDown ==
  IF Entry.k = "table"
  THEN op' = [op EXCEPT !.stack = Push(Entry.at)] /\ UNCHANGED tab
  ELSE IF Entry.k = "page" THEN Fail("Must be table") /\ UNCHANGED tab
  ELSE LET spare == Frames \ DOMAIN tab
       IN \/ \E f \in spare :
               /\ tab' = [x \in DOMAIN tab \cup {f} |->
                            IF x = f THEN EmptyTable(Lv + 1)
                            ELSE IF x = Top.t THEN [tab[x] EXCEPT !.ent[Top.i] = Table(f)] ELSE tab[x]]
               /\ op' = [op EXCEPT !.stack = Push(f)]
          \/ spare = {} /\ op' = Idle /\ UNCHANGED tab

(* Seeded fault: every row of a range starts with its first page.          *)
FilledFromStart == Write([x \in Row |-> Page(op.rng + (x - Top.i) * Covers[Lv])])

Filled == Write([x \in Row |-> Page(op.rng + op.off + (x - Top.i) * Covers[Lv])])

Map ==
  /\ op.kind = "map" /\ Turn
  /\ IF TooLarge(op.rng + op.off) THEN LevelDown ELSE tab' = Filled /\ op' = Advance(Entries)
  /\ UNCHANGED <<spaces, parts, maps, given, stale>>

(* Seeded fault: a mapping does not invalidate the TLB.                    *)
FinishMapUnflushed ==
  /\ op.kind = "map" /\ op.todo = 0 /\ ~op.up /\ op.left = <<>>
  /\ maps' = maps \cup {[va |-> op.va, size |-> op.size, paddrs |-> op.got, keep |-> maps = {}]}
  /\ op' = Idle
  /\ UNCHANGED <<tab, spaces, parts, given, stale>>

(* on_range_mapped() invalidates the TLB.                                  *)
FinishMap ==
  /\ op.kind = "map" /\ op.todo = 0 /\ ~op.up /\ op.left = <<>>
  /\ maps' = maps \cup {[va |-> op.va, size |-> op.size, paddrs |-> op.got, keep |-> maps = {}]}
  /\ stale' = {} /\ op' = Idle
  /\ UNCHANGED <<tab, spaces, parts, given>>

-----------------------------------------------------------------------------
(* page_tables(): the tables down to where one entry holds the range, as   *)
(* init_golden_image asks for them before it maps anything.                *)
Reserve ==
  /\ op = Idle /\ given = {}
  /\ \E va \in Places(VaPool, spaces, Reserved, Reserved) :
       spaces' = spaces \cup {[at |-> va, len |-> Reserved]} /\ op' = Call("reserve", va, Reserved)
  /\ UNCHANGED <<tab, parts, maps, given, stale>>

Descend ==
  /\ op.kind = "reserve"
  /\ IF TooLarge(0) THEN LevelDown /\ UNCHANGED given
     ELSE given' = {e.t : e \in ToSet(op.stack)} /\ op' = Idle /\ UNCHANGED tab
  /\ UNCHANGED <<spaces, parts, maps, stale>>

-----------------------------------------------------------------------------
(* Seeded fault: the pages are given back before they are unmapped.        *)
VfreeEarly(m) ==
  /\ op = Idle /\ ~m.keep
  /\ maps' = maps \ {m} /\ parts' = parts \ ToSet(m.paddrs)
  /\ op' = [Call("unmap", m.va, m.size) EXCEPT !.got = m.paddrs]
  /\ UNCHANGED <<tab, spaces, given, stale>>

(* vfree().  The first mapping, the ring of the golden image's channel, is *)
(* one nobody frees.                                                       *)
Vfree(m) ==
  /\ op = Idle /\ ~m.keep
  /\ maps' = maps \ {m}
  /\ op' = [Call("unmap", m.va, m.size) EXCEPT !.got = m.paddrs]
  /\ UNCHANGED <<tab, spaces, parts, given, stale>>

(* Seeded fault: of a row of entries only the first is cleared.            *)
ClearedFirst == Write([x \in {Top.i} |-> None])

Cleared == Write([x \in Row |-> None])

Unmap ==
  /\ op.kind = "unmap" /\ Turn
  /\ \/ /\ Lv < Levels /\ Entry.k = "table"
        /\ op' = [op EXCEPT !.stack = Push(Entry.at)] /\ UNCHANGED <<tab, stale>>
     \/ /\ Lv < Levels /\ Entry = None
        /\ Fail("Not allowed to create new page table") /\ UNCHANGED <<tab, stale>>
     \/ /\ Lv = Levels \/ Entry.k = "page"
        /\ IF Entries = 0 THEN Fail("Invalid entries") /\ UNCHANGED <<tab, stale>>
           ELSE IF \E x \in Row : tab[Top.t].ent[x] = None
           THEN Fail("PTE not mapped") /\ UNCHANGED <<tab, stale>>
           ELSE /\ tab' = Cleared /\ op' = Advance(Entries)
                /\ stale' = stale \cup (op.at .. op.at + Entries * Covers[Lv] - 1)
  /\ UNCHANGED <<spaces, parts, maps, given>>

FinishUnmap ==
  /\ op.kind = "unmap" /\ op.todo = 0 /\ ~op.up
  /\ spaces' = spaces \ {[at |-> op.va, len |-> op.size]}
  /\ parts' = parts \ ToSet(op.got)
  /\ op' = Idle
  /\ UNCHANGED <<tab, maps, given, stale>>

Next ==
  \/ \E size \in Sizes : Valloc(size) \/ VallocContiguous(size)
  \/ PallocRange \/ PallocFails \/ StartCheck \/ Check \/ StartMap \/ NextPart \/ Map \/ FinishMap
  \/ Reserve \/ Descend
  \/ \E m \in maps : Vfree(m)
  \/ Unmap \/ FinishUnmap \/ LevelUp

Spec == Init /\ [][Next]_vars

-----------------------------------------------------------------------------
(* The walk of the GPU: from the root, down to a page or nothing.          *)
Translate(va) ==
  LET Below(e, l) ==
        LET x == tab[e.at].ent[Idx(l, va)]
        IN IF e.k # "table" THEN e ELSE IF x.k = "page" THEN Page(x.at + (va % Covers[l])) ELSE x
      walk[l \in 0 .. Levels] == IF l = 0 THEN Table(Root) ELSE Below(walk[l - 1], l)
  IN walk[Levels]

Mapped == {va \in 0 .. VaPool - 1 : Translate(va).k = "page"}

(* Where in a mapping each of its physical ranges starts, and where the    *)
(* last one ends.                                                          *)
Starts(rs) ==
  LET start[j \in 1 .. Len(rs) + 1] == IF j = 1 THEN 0 ELSE start[j - 1] + rs[j - 1].len
  IN start

(* The physical page p is the one behind page x of the ranges rs.          *)
Behind(rs, x, p) ==
  \E j \in DOMAIN rs :
    /\ Starts(rs)[j] <= x /\ x < Starts(rs)[j] + rs[j].len
    /\ p = rs[j].at + x - Starts(rs)[j]

(* Types: entries are pages of the pool or tables; at the last level they  *)
(* are no tables.                                                          *)
TypeOK ==
  /\ Root \in DOMAIN tab /\ DOMAIN tab \subseteq Frames \cup {Root}
  /\ \A f \in DOMAIN tab :
       /\ tab[f].lv \in 1 .. Levels
       /\ \A x \in 0 .. Cnt[tab[f].lv] - 1 :
            LET e == tab[f].ent[x] IN
              \/ e = None
              \/ /\ e.k = "page" /\ e.at \in 0 .. PaPool - Covers[tab[f].lv]
                 /\ e.at % Covers[tab[f].lv] = 0
              \/ e.k = "table" /\ tab[f].lv < Levels

(* At every moment, whatever else is being mapped or unmapped, the GPU     *)
(* finds each page of a mapping where valloc put it.                       *)
MapsExact ==
  \A m \in maps : \A x \in 0 .. m.size - 1 :
    LET e == Translate(m.va + x) IN e.k = "page" /\ Behind(m.paddrs, x, e.at)

(* What the GPU can reach is memory that is allocated, and no page can be  *)
(* reached by two ways.                                                    *)
ReachesOwned ==
  /\ \A va \in Mapped : Translate(va).at \in UNION {Pages(r) : r \in parts}
  /\ \A v, w \in Mapped : Translate(v) = Translate(w) => v = w

(* The GPU may go on using what its TLB held when a range was unmapped;    *)
(* yet no page of a mapping is translated as it was in an earlier one.     *)
NeverStale == \A m \in maps : stale \cap (m.va .. m.va + m.size - 1) = {}

(* A virtual range that has been given back leads nowhere.                 *)
FreedUnmapped == Mapped \subseteq UNION {Pages(r) : r \in spaces}

(* The entries that name a table.                                          *)
Links == UNION {{<<f, x>> : x \in {y \in DOMAIN tab[f].ent : tab[f].ent[y].k = "table"}} : f \in DOMAIN tab}
Named(e) == tab[e[1]].ent[e[2]].at

(* No assertion of the walk fails.                                         *)
NeverRaises == op.kind # "failed"

(* GSP-RM's copies of the upper levels stay true: the tables it was given  *)
(* are never given back or taken out of the tree.                          *)
GivenKept == \A f \in given : f = Root \/ (f \in DOMAIN tab /\ \E e \in Links : Named(e) = f)

(* Table pages are given back with the last page below them: every table   *)
(* in use is in the tree.                                                  *)
NoOrphan == \A f \in DOMAIN tab \ {Root} : \E e \in Links : Named(e) = f
==============================================================================
