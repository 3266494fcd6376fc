--------------------------------- MODULE Tlsf ---------------------------------
(***************************************************************************)
(* TLSFAllocator of examples/add.py, which hands out VRAM, page tables and *)
(* virtual addresses: blocks that tile the pool, linked to the block       *)
(* before them, and free lists by size class.                              *)
(*                                                                         *)
(* Offsets are relative to the base of the pool; a free list is the set of *)
(* its blocks, and which of them comes first is left open.  The blocks of  *)
(* a list are looked up by the stored class, so a list and the blocks may  *)
(* in principle disagree.                                                  *)
(*                                                                         *)
(* A definition marked "Seeded fault" is used by no specification: it is a *)
(* defect that a property below is known to detect.                        *)
(***************************************************************************)
EXTENDS Integers, FiniteSets

CONSTANTS
  Size,       \* length of the pool
  BlockSize,  \* smallest block an allocation takes (16)
  L2,         \* l2_cnt, the log of the classes in a power of two (5)
  Lens,       \* the lengths clients ask for
  Aligns      \* the alignments they ask for

ASSUME PoolAssumption ==
  /\ Size \in Nat \ {0} /\ L2 \in Nat \ {0}
  /\ BlockSize \in Nat \ {0} /\ BlockSize >= 2 ^ (L2 - 1)
ASSUME RequestAssumption ==
  /\ Lens \subseteq Nat \ {0} /\ Aligns \subseteq 1 .. Size

VARIABLES
  heap,  \* blocks: size, link to the block before and state of each block;
         \* lists: the class and the start of each entry of a free list
  live,  \* the regions clients hold
  pc,    \* inside free(): which loop of _merge_block runs
  cur    \* and the block it is at

vars == <<heap, live, pc, cur>>

-----------------------------------------------------------------------------
None == -1

RoundUp(x, a) == ((x + a - 1) \div a) * a

Larger(a, b) == IF a >= b THEN a ELSE b

(* int.bit_length                                                          *)
BitLen(n) == CHOOSE b \in 0 .. n : n < 2 ^ b /\ (b = 0 \/ 2 ^ (b - 1) <= n)

Lv1(n) == BitLen(n)
Lv2(n) == (n - 2 ^ (BitLen(n) - 1)) \div 2 ^ Larger(0, BitLen(n) - L2)

Class(n) == <<Lv1(n), Lv2(n)>>

NotBefore(c, d) == c[1] > d[1] \/ (c[1] = d[1] /\ c[2] >= d[2])

Starts(h) == DOMAIN h.blocks
Next(h, s) == s + h.blocks[s].size

(* _insert_block and _remove_block with the link given; by default it is   *)
(* the one the block has.                                                  *)
Insert(h, s, size, prev) ==
  [blocks |-> [x \in Starts(h) \cup {s} |->
                 IF x = s THEN [size |-> size, prev |-> prev, free |-> TRUE] ELSE h.blocks[x]],
   lists  |-> h.lists \cup {<<Class(size), s>>}]

Remove(h, s, size) ==
  [blocks |-> [h.blocks EXCEPT ![s] = [size |-> size, prev |-> @.prev, free |-> FALSE]],
   lists  |-> h.lists \ {<<Class(size), s>>}]

Relink(h, n, prev) ==
  IF n \in Starts(h)
  THEN [blocks |-> [h.blocks EXCEPT ![n] = [size |-> @.size, prev |-> prev, free |-> @.free]],
        lists  |-> h.lists]
  ELSE h

Drop(h, n) == [blocks |-> [x \in Starts(h) \ {n} |-> h.blocks[x]], lists |-> h.lists]

(* Seeded fault: the block behind a split keeps its old link.              *)
SplitNoRelink(h, s, size, new) ==
  Insert(Insert(Remove(h, s, size), s, new, h.blocks[s].prev), s + new, size - new, s)

(* _split_block                                                            *)
Split(h, s, size, new) ==
  Relink(Insert(Insert(Remove(h, s, size), s, new, h.blocks[s].prev), s + new, size - new, s),
         Next(h, s), s + new)

(* Seeded fault: the block swallowed stays in the table.                   *)
MergeKeeping(h, s, n) ==
  Insert(Remove(Remove(h, s, h.blocks[s].size), n, h.blocks[n].size),
         s, h.blocks[s].size + h.blocks[n].size, h.blocks[s].prev)

(* Seeded fault: the block swallowed stays on its free list.               *)
MergeListed(h, s, n) ==
  Drop(Insert(Remove(h, s, h.blocks[s].size),
              s, h.blocks[s].size + h.blocks[n].size, h.blocks[s].prev), n)

(* One turn of the loop of _merge_right: block n is swallowed by s.        *)
Merge(h, s, n) ==
  Drop(Insert(Remove(Remove(h, s, h.blocks[s].size), n, h.blocks[n].size),
              s, h.blocks[s].size + h.blocks[n].size, h.blocks[s].prev), n)

Empty == [blocks |-> [x \in {0} |-> [size |-> Size, prev |-> None, free |-> FALSE]], lists |-> {}]

Init ==
  /\ heap = Insert(Empty, 0, Size, None)
  /\ live = {} /\ pc = "idle" /\ cur = 0

-----------------------------------------------------------------------------
(* alloc(): what a request is rounded to before the search, ...            *)
Need(len) == Larger(BlockSize, len)

Padded(len, align) == Larger(BlockSize, Need(len) + align - 1)

(* how far apart the sizes are at which classes begin, ...                 *)
Width(size) == 2 ^ (BitLen(size) - L2)

(* Seeded fault: the request is not rounded up to the next class.          *)
SearchUnrounded(len, align) == Padded(len, align)

SearchSize(len, align) == RoundUp(Padded(len, align), Width(Padded(len, align)))

(* ... and the free lists the two loops look at, of which the first one    *)
(* that is not empty is taken.                                             *)
Candidates(h, size) == {e \in h.lists : NotBefore(e[1], Class(size))}

Found(h, size) == {e \in Candidates(h, size) : \A f \in Candidates(h, size) : NotBefore(f[1], e[1])}

(* Block sizes reach l2_cnt bits: the shift of alloc() is never negative.  *)
ASSUME WidthAssumption ==
  \A len \in Lens, align \in Aligns : Width(Padded(len, align)) \in Nat \ {0}

(* Seeded fault: the block is cut one unit short.                          *)
CarveShort(h, s, len, align) ==
  LET new == RoundUp(s, align)
      h1  == IF new # s THEN Split(h, s, h.blocks[s].size, new - s) ELSE h
  IN Remove(Split(h1, new, h1.blocks[new].size, Need(len) - 1), new, Need(len) - 1)

(* The block found is cut at the alignment, then to the length.            *)
Carve(h, s, len, align) ==
  LET new == RoundUp(s, align)
      h1  == IF new # s THEN Split(h, s, h.blocks[s].size, new - s) ELSE h
      h2  == IF h1.blocks[new].size > Need(len)
             THEN Split(h1, new, h1.blocks[new].size, Need(len)) ELSE h1
  IN Remove(h2, new, Need(len))

(* An allocation that finds no block raises MemoryError, one that finds a  *)
(* block too small fails an assertion; neither changes anything.           *)
Alloc(len, align) ==
  /\ pc = "idle"
  /\ \E e \in Found(heap, SearchSize(len, align)) :
       /\ heap.blocks[e[2]].size >= SearchSize(len, align)
       /\ heap' = Carve(heap, e[2], len, align)
       /\ live' = live \cup {[at |-> RoundUp(e[2], align), len |-> len]}
  /\ UNCHANGED <<pc, cur>>

(* free() puts the block back on a list ...                                *)
Free(r) ==
  /\ pc = "idle"
  /\ heap' = Insert(heap, r.at, heap.blocks[r.at].size, heap.blocks[r.at].prev)
  /\ live' = live \ {r}
  /\ pc' = "left" /\ cur' = r.at

(* Seeded fault: blocks are merged with the ones behind them only.         *)
NoMergeLeft ==
  /\ pc = "left"
  /\ pc' = "right" /\ UNCHANGED <<cur, heap, live>>

(* ... _merge_block goes back over the free blocks in front of it ...      *)
MergeLeft ==
  /\ pc = "left"
  /\ LET prev == heap.blocks[cur].prev IN
     IF prev # None /\ heap.blocks[prev].free
     THEN cur' = prev /\ UNCHANGED pc
     ELSE pc' = "right" /\ UNCHANGED cur
  /\ UNCHANGED <<heap, live>>

(* ... and _merge_right swallows the free blocks behind.                   *)
MergeRight ==
  /\ pc = "right"
  /\ LET n == Next(heap, cur) IN
     IF n \in Starts(heap) /\ heap.blocks[n].free
     THEN heap' = Merge(heap, cur, n) /\ UNCHANGED pc
     ELSE heap' = Relink(heap, n, cur) /\ pc' = "idle"
  /\ UNCHANGED <<live, cur>>

Step ==
  \/ \E len \in Lens, align \in Aligns : Alloc(len, align)
  \/ \E r \in live : Free(r)
  \/ MergeLeft \/ MergeRight

Spec == Init /\ [][Step]_vars

-----------------------------------------------------------------------------
(* Types: starts, sizes and links stay inside the pool.                    *)
TypeOK ==
  /\ Starts(heap) \subseteq 0 .. Size - 1
  /\ \A s \in Starts(heap) :
       /\ heap.blocks[s].size \in 1 .. Size - s /\ heap.blocks[s].free \in BOOLEAN
       /\ heap.blocks[s].prev \in {None} \cup 0 .. Size - 1
  /\ \A r \in live : r \in [at : 0 .. Size - 1, len : Lens]
  /\ pc \in {"idle", "left", "right"} /\ cur \in Starts(heap)
  /\ pc # "idle" => heap.blocks[cur].free

(* The blocks tile the pool: the first starts at 0, each next one where    *)
(* the one before ends, and the last one ends with the pool.               *)
Tiled ==
  /\ 0 \in Starts(heap)
  /\ \A s \in Starts(heap) : Next(heap, s) = Size \/ Next(heap, s) \in Starts(heap)
  /\ \A s, t \in Starts(heap) : s < t => Next(heap, s) <= t

(* Each link names the block in front, but for the one behind a merge that *)
(* is still going on.  A stale link would make free() merge blocks that    *)
(* are in use.                                                             *)
LinksRight ==
  /\ heap.blocks[0].prev = None
  /\ \A s \in Starts(heap) \ {0} :
       \/ /\ heap.blocks[s].prev \in Starts(heap)
          /\ Next(heap, heap.blocks[s].prev) = s
       \/ pc = "right" /\ s = Next(heap, cur)

(* The free lists hold the free blocks, each in the class of its size:     *)
(* list.remove never misses and alloc never meets a block that is taken.   *)
Listed(h) == {<<Class(h.blocks[s].size), s>> : s \in {t \in Starts(h) : h.blocks[t].free}}
ListsExact == heap.lists = Listed(heap)

(* No two neighbours are free once free() has returned, so the whole pool  *)
(* is one block again when everything has been given back.                 *)
Coalesced ==
  pc = "idle" => \A s \in Starts(heap) :
    Next(heap, s) \in Starts(heap) => ~(heap.blocks[s].free /\ heap.blocks[Next(heap, s)].free)

(* The search over classes is exact: it offers the free blocks that are    *)
(* large enough and no other ("block must be larger").  MemoryError means  *)
(* that there is none.                                                     *)
SearchExact ==
  \A len \in Lens, align \in Aligns :
    LET size == SearchSize(len, align) IN
    {e[2] : e \in Candidates(heap, size)} =
      {s \in Starts(heap) : heap.blocks[s].free /\ heap.blocks[s].size >= size}

(* The regions in use are blocks that are taken, one block each.           *)
LiveTaken ==
  /\ \A r \in live : /\ r.at \in Starts(heap) /\ ~heap.blocks[r.at].free
                     /\ heap.blocks[r.at].size = Need(r.len)
  /\ \A s \in Starts(heap) : ~heap.blocks[s].free => \E r \in live : r.at = s
  /\ \A q, r \in live : q.at = r.at => q = r

Abstract == INSTANCE Regions WITH PoolSize <- Size
(* To its clients the allocator is Regions: no two regions overlap.        *)
ImplementsRegions == Abstract!Spec
==============================================================================
