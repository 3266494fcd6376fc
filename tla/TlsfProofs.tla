------------------------------ MODULE TlsfProofs ------------------------------
(***************************************************************************)
(* For every pool, block size and set of requests: the blocks of Tlsf tile *)
(* the pool and are linked right, the free lists hold exactly the free     *)
(* blocks, and the allocator implements Regions.                           *)
(***************************************************************************)
EXTENDS Tlsf, TLAPS, WellFoundedInduction

-----------------------------------------------------------------------------
(* The parts of the invariant, of a heap.                                  *)

Shape(h) ==
  /\ Starts(h) \subseteq 0 .. Size - 1 /\ 0 \in Starts(h)
  /\ \A s \in Starts(h) :
       /\ h.blocks[s].size \in 1 .. Size - s /\ h.blocks[s].free \in BOOLEAN
       /\ h.blocks[s].prev \in {None} \cup 0 .. Size - 1

Tiles(h) ==
  /\ \A s \in Starts(h) : Next(h, s) = Size \/ Next(h, s) \in Starts(h)
  /\ \A s, t \in Starts(h) : s < t => Next(h, s) <= t

LinkOK(h, s) == h.blocks[s].prev \in Starts(h) /\ Next(h, h.blocks[s].prev) = s

Linked(h) == h.blocks[0].prev = None /\ \A s \in Starts(h) \ {0} : LinkOK(h, s)

(* Every link but the one of block n.                                      *)
LinkedBut(h, n) ==
  h.blocks[0].prev = None /\ \A s \in Starts(h) \ {0} : s # n => LinkOK(h, s)

(* Two free neighbours: what _merge_block is there to prevent.             *)
Pair(h, s) ==
  Next(h, s) \in Starts(h) /\ h.blocks[s].free /\ h.blocks[Next(h, s)].free

Pairless(h) == \A s \in Starts(h) : ~Pair(h, s)

(* At most block b has free neighbours.                                    *)
PairsAt(h, b) == \A x \in Starts(h) : Pair(h, x) => x = b \/ Next(h, x) = b

Held(h, r) == r.at \in Starts(h) /\ ~h.blocks[r.at].free /\ h.blocks[r.at].size = Need(r.len)

-----------------------------------------------------------------------------
(* What the helpers do to the table of blocks.                             *)

LEMMA InsertBlocks ==
  ASSUME NEW h, NEW s, NEW size, NEW prev
  PROVE  /\ Starts(Insert(h, s, size, prev)) = Starts(h) \cup {s}
         /\ Insert(h, s, size, prev).blocks[s] = [size |-> size, prev |-> prev, free |-> TRUE]
         /\ \A x \in Starts(h) : x # s => Insert(h, s, size, prev).blocks[x] = h.blocks[x]
BY DEF Insert, Starts

LEMMA RemoveBlocks ==
  ASSUME NEW h, NEW s \in Starts(h), NEW size
  PROVE  /\ Starts(Remove(h, s, size)) = Starts(h)
         /\ Remove(h, s, size).blocks[s] = [size |-> size, prev |-> h.blocks[s].prev, free |-> FALSE]
         /\ \A x \in Starts(h) : x # s => Remove(h, s, size).blocks[x] = h.blocks[x]
BY DEF Remove, Starts

LEMMA RelinkBlocks ==
  ASSUME NEW h, NEW n, NEW prev
  PROVE  /\ Starts(Relink(h, n, prev)) = Starts(h)
         /\ n \in Starts(h) =>
              Relink(h, n, prev).blocks[n] =
                [size |-> h.blocks[n].size, prev |-> prev, free |-> h.blocks[n].free]
         /\ \A x \in Starts(h) : x # n => Relink(h, n, prev).blocks[x] = h.blocks[x]
BY DEF Relink, Starts

(* A split adds one block and touches the two neighbours of the cut.       *)
LEMMA SplitBlocks ==
  ASSUME NEW h, Shape(h), Tiles(h), NEW s \in Starts(h), NEW size, size = h.blocks[s].size,
         NEW new \in 1 .. size - 1, NEW n, n = Next(h, s), NEW k, k = Split(h, s, size, new)
  PROVE  /\ s + new \notin Starts(h) /\ Starts(k) = Starts(h) \cup {s + new}
         /\ n # s /\ n # s + new /\ n = s + size
         /\ k.blocks[s] = [size |-> new, prev |-> h.blocks[s].prev, free |-> TRUE]
         /\ k.blocks[s + new] = [size |-> size - new, prev |-> s, free |-> TRUE]
         /\ n \in Starts(h) =>
              k.blocks[n] = [size |-> h.blocks[n].size, prev |-> s + new, free |-> h.blocks[n].free]
         /\ \A x \in Starts(h) : x # s /\ x # n => k.blocks[x] = h.blocks[x]
<1> DEFINE h1 == Remove(h, s, size)
           h2 == Insert(h1, s, new, h.blocks[s].prev)
           h3 == Insert(h2, s + new, size - new, s)
<1>1. s \in Int /\ size \in Int /\ new \in Int /\ 0 < new /\ new < size /\ n = s + size
  BY DEF Shape, Next
<1>2. s + new \notin Starts(h) /\ n # s /\ n # s + new /\ s # s + new
  <2>1. ASSUME s + new \in Starts(h) PROVE FALSE
    <3>1. Next(h, s) <= s + new
      <4>1. s < s + new
        BY <1>1
      <4> QED
        BY <2>1, <4>1 DEF Tiles
    <3> QED
      BY <1>1, <3>1
  <2> QED
    BY <1>1, <2>1
<1>3. Starts(h1) = Starts(h) /\ \A x \in Starts(h) : x # s => h1.blocks[x] = h.blocks[x]
  BY RemoveBlocks
<1>4. /\ Starts(h2) = Starts(h) /\ h2.blocks[s] = [size |-> new, prev |-> h.blocks[s].prev, free |-> TRUE]
      /\ \A x \in Starts(h) : x # s => h2.blocks[x] = h.blocks[x]
  <2> HIDE DEF h1
  <2>1. /\ Starts(h2) = Starts(h1) \cup {s}
        /\ h2.blocks[s] = [size |-> new, prev |-> h.blocks[s].prev, free |-> TRUE]
        /\ \A x \in Starts(h1) : x # s => h2.blocks[x] = h1.blocks[x]
    BY InsertBlocks
  <2> HIDE DEF h2
  <2>2. Starts(h1) \cup {s} = Starts(h)
    BY <1>3
  <2> QED
    BY <1>3, <2>1, <2>2
<1>5. /\ Starts(h3) = Starts(h) \cup {s + new}
      /\ h3.blocks[s + new] = [size |-> size - new, prev |-> s, free |-> TRUE]
      /\ h3.blocks[s] = h2.blocks[s]
      /\ \A x \in Starts(h) : x # s => h3.blocks[x] = h.blocks[x]
  <2> HIDE DEF h2
  <2> QED
    BY <1>2, <1>4, InsertBlocks
<1>6. k = Relink(h3, n, s + new)
  BY DEF Split
<1> HIDE DEF h3
<1>7. /\ Starts(k) = Starts(h3)
      /\ n \in Starts(h3) =>
           k.blocks[n] = [size |-> h3.blocks[n].size, prev |-> s + new, free |-> h3.blocks[n].free]
      /\ \A x \in Starts(h3) : x # n => k.blocks[x] = h3.blocks[x]
  BY <1>6, RelinkBlocks
<1>8. k.blocks[s] = [size |-> new, prev |-> h.blocks[s].prev, free |-> TRUE]
  BY <1>2, <1>4, <1>5, <1>7
<1>9. k.blocks[s + new] = [size |-> size - new, prev |-> s, free |-> TRUE]
  BY <1>2, <1>5, <1>7
<1>10. n \in Starts(h) =>
         k.blocks[n] = [size |-> h.blocks[n].size, prev |-> s + new, free |-> h.blocks[n].free]
  BY <1>2, <1>5, <1>7
<1>11. \A x \in Starts(h) : x # s /\ x # n => k.blocks[x] = h.blocks[x]
  BY <1>5, <1>7
<1> QED
  BY <1>1, <1>2, <1>5, <1>7, <1>8, <1>9, <1>10, <1>11

(* So it keeps the shape, the tiling and the links.                        *)
LEMMA SplitKeeps ==
  ASSUME NEW h, Shape(h), Tiles(h), Linked(h), NEW s \in Starts(h),
         NEW new \in 1 .. h.blocks[s].size - 1,
         NEW k, k = Split(h, s, h.blocks[s].size, new)
  PROVE  /\ Shape(k) /\ Tiles(k) /\ Linked(k)
         /\ Starts(k) = Starts(h) \cup {s + new} /\ s + new \notin Starts(h)
         /\ k.blocks[s].size = new /\ k.blocks[s].free
         /\ k.blocks[s + new].size = h.blocks[s].size - new /\ k.blocks[s + new].free
         /\ \A x \in Starts(h) : x # s => /\ k.blocks[x].size = h.blocks[x].size
                                         /\ k.blocks[x].free = h.blocks[x].free
<1> DEFINE size == h.blocks[s].size
           n    == Next(h, s)
<1>1. /\ s + new \notin Starts(h) /\ Starts(k) = Starts(h) \cup {s + new}
      /\ n # s /\ n # s + new /\ n = s + size
      /\ k.blocks[s] = [size |-> new, prev |-> h.blocks[s].prev, free |-> TRUE]
      /\ k.blocks[s + new] = [size |-> size - new, prev |-> s, free |-> TRUE]
      /\ n \in Starts(h) =>
           k.blocks[n] = [size |-> h.blocks[n].size, prev |-> s + new, free |-> h.blocks[n].free]
      /\ \A x \in Starts(h) : x # s /\ x # n => k.blocks[x] = h.blocks[x]
  BY SplitBlocks
<1>2. s \in 0 .. Size - 1 /\ size \in 1 .. Size - s /\ new \in 1 .. size - 1 /\ Size \in Nat
  BY PoolAssumption DEF Shape
<1> HIDE DEF size, n
<1>3. \A x \in Starts(h) : x # s => /\ k.blocks[x].size = h.blocks[x].size
                                  /\ k.blocks[x].free = h.blocks[x].free
  BY <1>1
<1>4. Shape(k)
  <2>1. Starts(k) \subseteq 0 .. Size - 1 /\ 0 \in Starts(k)
    BY <1>1, <1>2 DEF Shape
  <2>2. ASSUME NEW x \in Starts(k)
        PROVE  /\ k.blocks[x].size \in 1 .. Size - x /\ k.blocks[x].free \in BOOLEAN
               /\ k.blocks[x].prev \in {None} \cup 0 .. Size - 1
    <3>1. CASE x = s
      <4>1. k.blocks[x].size = new /\ k.blocks[x].free = TRUE /\ k.blocks[x].prev = h.blocks[s].prev
        BY <1>1, <3>1
      <4>2. h.blocks[s].prev \in {None} \cup 0 .. Size - 1
        BY DEF Shape
      <4>3. new \in 1 .. Size - s
        BY <1>2
      <4> QED
        BY <3>1, <4>1, <4>2, <4>3
    <3>2. CASE x = s + new
      <4>1. k.blocks[x].size = size - new /\ k.blocks[x].free = TRUE /\ k.blocks[x].prev = s
        BY <1>1, <3>2
      <4>2. size - new \in 1 .. Size - (s + new)
        BY <1>2
      <4> QED
        BY <1>2, <3>2, <4>1, <4>2
    <3>3. CASE x # s /\ x # s + new
      <4>1. x \in Starts(h)
        BY <1>1, <3>3
      <4>2. k.blocks[x].prev = h.blocks[x].prev \/ k.blocks[x].prev = s + new
        BY <1>1, <3>3, <4>1
      <4>3. k.blocks[x].size = h.blocks[x].size /\ k.blocks[x].free = h.blocks[x].free
        BY <1>1, <3>3, <4>1
      <4>4. s + new \in 0 .. Size - 1
        BY <1>2, <1>3
      <4> QED
        BY <4>1, <4>2, <4>3, <4>4 DEF Shape
    <3> QED
      BY <3>1, <3>2, <3>3
  <2> QED
    BY <2>1, <2>2 DEF Shape
<1>5. /\ Next(k, s) = s + new /\ Next(k, s + new) = n
      /\ \A x \in Starts(h) : x # s => Next(k, x) = Next(h, x)
  BY <1>1, <1>2, <1>3 DEF Next
<1>6. Tiles(k)
  <2>1. ASSUME NEW x \in Starts(k) PROVE Next(k, x) = Size \/ Next(k, x) \in Starts(k)
    BY <1>1, <1>5, <2>1 DEF Tiles, n
  <2>2. ASSUME NEW x \in Starts(k), NEW t \in Starts(k), x < t PROVE Next(k, x) <= t
    <3>1. x \in Int /\ t \in Int
      BY <1>4 DEF Shape
    <3>2. CASE x = s
      <4>1. CASE t = s + new
        BY <1>5, <3>2, <4>1, <1>2
      <4>2. CASE t # s + new
        <5>1. t \in Starts(h) /\ n <= t
          BY <1>1, <2>2, <3>2, <4>2 DEF Tiles, n
        <5> QED
          BY <1>1, <1>2, <1>5, <3>1, <3>2, <5>1
      <4> QED
        BY <4>1, <4>2
    <3>3. CASE x = s + new
      <4>1. t \in Starts(h) /\ s < t
        BY <1>1, <1>2, <2>2, <3>1, <3>3
      <4> QED
        BY <1>5, <3>3, <4>1 DEF Tiles, n
    <3>4. CASE x # s /\ x # s + new
      <4>1. x \in Starts(h) /\ Next(k, x) = Next(h, x)
        BY <1>1, <1>5, <3>4
      <4>2. CASE t # s + new
        BY <1>1, <2>2, <4>1, <4>2 DEF Tiles
      <4>3. CASE t = s + new
        <5>1. x < s
          <6>1. ASSUME s < x PROVE FALSE
            <7>1. n <= x
              BY <4>1, <6>1 DEF Tiles, n
            <7> QED
              BY <1>1, <1>2, <2>2, <3>1, <4>3, <7>1
          <6> QED
            BY <1>2, <3>1, <3>4, <6>1
        <5>2. Next(h, x) <= s
          BY <4>1, <5>1 DEF Tiles
        <5>3. Next(h, x) \in Int
          BY <4>1, <3>1 DEF Shape, Next
        <5> QED
          BY <1>2, <4>1, <4>3, <5>2, <5>3
      <4> QED
        BY <4>2, <4>3
    <3> QED
      BY <3>2, <3>3, <3>4
  <2> QED
    BY <2>1, <2>2 DEF Tiles
<1>7. Linked(k)
  <2>1. k.blocks[0].prev = None
    <3>1. 0 # n
      BY <1>1, <1>2
    <3> QED
      BY <1>1, <1>2, <3>1 DEF Shape, Linked
  <2>2. ASSUME NEW x \in Starts(k) \ {0} PROVE LinkOK(k, x)
    <3>1. CASE x = s + new
      BY <1>1, <1>5, <3>1 DEF LinkOK
    <3>2. CASE x = n /\ x # s + new
      <4>1. x \in Starts(h)
        BY <1>1, <3>2
      <4> QED
        BY <1>1, <1>5, <3>2, <4>1 DEF LinkOK
    <3>3. CASE x # n /\ x # s + new
      <4>1. x \in Starts(h) /\ k.blocks[x].prev = h.blocks[x].prev
        BY <1>1, <3>3
      <4>2. h.blocks[x].prev \in Starts(h) /\ Next(h, h.blocks[x].prev) = x
        BY <4>1 DEF Linked, LinkOK
      <4>3. h.blocks[x].prev # s
        BY <3>3, <4>2 DEF n
      <4> QED
        BY <1>1, <1>5, <4>1, <4>2, <4>3 DEF LinkOK
    <3> QED
      BY <3>1, <3>2, <3>3
  <2> QED
    BY <2>1, <2>2 DEF Linked
<1>8. /\ k.blocks[s].size = new /\ k.blocks[s].free
      /\ k.blocks[s + new].size = size - new /\ k.blocks[s + new].free
  BY <1>1
<1>9. size - new = h.blocks[s].size - new
  BY DEF size
<1>10. Starts(k) = Starts(h) \cup {s + new} /\ s + new \notin Starts(h)
  BY <1>1
<1> QED
  BY <1>3, <1>4, <1>6, <1>7, <1>8, <1>9, <1>10

-----------------------------------------------------------------------------
(* What they do to the free lists.                                         *)

LEMMA InsertLists ==
  ASSUME NEW h, h.lists = Listed(h), NEW s, NEW size, NEW prev,
         s \in Starts(h) => h.blocks[s].free = FALSE
  PROVE  Insert(h, s, size, prev).lists = Listed(Insert(h, s, size, prev))
<1> DEFINE k == Insert(h, s, size, prev)
<1>1. /\ Starts(k) = Starts(h) \cup {s} /\ k.blocks[s].size = size /\ k.blocks[s].free = TRUE
      /\ \A x \in Starts(h) : x # s => k.blocks[x] = h.blocks[x]
  BY DEF Insert, Starts
<1>2. k.lists = h.lists \cup {<<Class(size), s>>}
  BY DEF Insert
<1> HIDE DEF k
<1>3. ASSUME NEW e \in k.lists PROVE e \in Listed(k)
  <2>1. CASE e \in Listed(h)
    <3>1. PICK t \in Starts(h) : h.blocks[t].free /\ e = <<Class(h.blocks[t].size), t>>
      BY <2>1 DEF Listed
    <3>2. t # s
      BY <3>1
    <3> QED
      BY <1>1, <3>1, <3>2 DEF Listed
  <2>2. CASE e = <<Class(size), s>>
    BY <1>1, <2>2 DEF Listed
  <2> QED
    BY <1>2, <1>3, <2>1, <2>2
<1>4. ASSUME NEW e \in Listed(k) PROVE e \in k.lists
  <2>1. PICK t \in Starts(k) : k.blocks[t].free /\ e = <<Class(k.blocks[t].size), t>>
    BY <1>4 DEF Listed
  <2>2. CASE t = s
    BY <1>1, <1>2, <2>1, <2>2
  <2>3. CASE t # s
    <3>1. t \in Starts(h) /\ k.blocks[t] = h.blocks[t]
      BY <1>1, <2>1, <2>3
    <3>2. e \in Listed(h)
      BY <2>1, <3>1 DEF Listed
    <3> QED
      BY <1>2, <3>2
  <2> QED
    BY <2>2, <2>3
<1> QED
  BY <1>3, <1>4 DEF k

LEMMA RemoveLists ==
  ASSUME NEW h, h.lists = Listed(h), NEW s \in Starts(h), NEW size, size = h.blocks[s].size
  PROVE  Remove(h, s, size).lists = Listed(Remove(h, s, size))
<1> DEFINE k == Remove(h, s, size)
<1>1. /\ Starts(k) = Starts(h) /\ k.blocks[s].free = FALSE
      /\ \A x \in Starts(h) : x # s => k.blocks[x] = h.blocks[x]
  BY DEF Remove, Starts
<1>2. k.lists = h.lists \ {<<Class(size), s>>}
  BY DEF Remove
<1> HIDE DEF k
<1>3. ASSUME NEW e \in k.lists PROVE e \in Listed(k)
  <2>1. PICK t \in Starts(h) : h.blocks[t].free /\ e = <<Class(h.blocks[t].size), t>>
    BY <1>2, <1>3 DEF Listed
  <2>2. t # s
    BY <1>2, <1>3, <2>1
  <2> QED
    BY <1>1, <2>1, <2>2 DEF Listed
<1>4. ASSUME NEW e \in Listed(k) PROVE e \in k.lists
  <2>1. PICK t \in Starts(k) : k.blocks[t].free /\ e = <<Class(k.blocks[t].size), t>>
    BY <1>4 DEF Listed
  <2>2. t # s /\ t \in Starts(h) /\ k.blocks[t] = h.blocks[t]
    BY <1>1, <2>1
  <2>3. e \in Listed(h)
    BY <2>1, <2>2 DEF Listed
  <2> QED
    BY <1>2, <2>1, <2>2, <2>3
<1> QED
  BY <1>3, <1>4 DEF k

LEMMA RelinkLists ==
  ASSUME NEW h, h.lists = Listed(h), NEW n, NEW prev
  PROVE  Relink(h, n, prev).lists = Listed(Relink(h, n, prev))
<1> DEFINE k == Relink(h, n, prev)
<1>1. /\ Starts(k) = Starts(h)
      /\ \A x \in Starts(h) : /\ k.blocks[x].size = h.blocks[x].size
                              /\ k.blocks[x].free = h.blocks[x].free
  BY DEF Relink, Starts
<1>2. k.lists = h.lists
  BY DEF Relink
<1> HIDE DEF k
<1>3. ASSUME NEW e \in Listed(h) PROVE e \in Listed(k)
  BY <1>1, <1>3 DEF Listed
<1>4. ASSUME NEW e \in Listed(k) PROVE e \in Listed(h)
  BY <1>1, <1>4 DEF Listed
<1> QED
  BY <1>2, <1>3, <1>4 DEF k

LEMMA DropLists ==
  ASSUME NEW h, h.lists = Listed(h), NEW n \in Starts(h), h.blocks[n].free = FALSE
  PROVE  Drop(h, n).lists = Listed(Drop(h, n))
<1> DEFINE k == Drop(h, n)
<1>1. Starts(k) = Starts(h) \ {n} /\ \A x \in Starts(k) : k.blocks[x] = h.blocks[x]
  BY DEF Drop, Starts
<1>2. k.lists = h.lists
  BY DEF Drop
<1> HIDE DEF k
<1>3. ASSUME NEW e \in Listed(h) PROVE e \in Listed(k)
  <2>1. PICK t \in Starts(h) : h.blocks[t].free /\ e = <<Class(h.blocks[t].size), t>>
    BY <1>3 DEF Listed
  <2>2. t # n
    BY <2>1
  <2> QED
    BY <1>1, <2>1, <2>2 DEF Listed
<1>4. ASSUME NEW e \in Listed(k) PROVE e \in Listed(h)
  BY <1>1, <1>4 DEF Listed
<1> QED
  BY <1>2, <1>3, <1>4 DEF k

LEMMA SplitLists ==
  ASSUME NEW h, Shape(h), Tiles(h), h.lists = Listed(h), NEW s \in Starts(h),
         NEW new \in 1 .. h.blocks[s].size - 1,
         NEW k, k = Split(h, s, h.blocks[s].size, new)
  PROVE  k.lists = Listed(k)
<1> DEFINE size == h.blocks[s].size
           n    == Next(h, s)
<1>1. s + new \notin Starts(h)
  <2>1. /\ s + new \notin Starts(h) /\ Starts(k) = Starts(h) \cup {s + new}
        /\ n # s /\ n # s + new /\ n = s + size
        /\ k.blocks[s] = [size |-> new, prev |-> h.blocks[s].prev, free |-> TRUE]
        /\ k.blocks[s + new] = [size |-> size - new, prev |-> s, free |-> TRUE]
        /\ n \in Starts(h) =>
             k.blocks[n] = [size |-> h.blocks[n].size, prev |-> s + new, free |-> h.blocks[n].free]
        /\ \A x \in Starts(h) : x # s /\ x # n => k.blocks[x] = h.blocks[x]
    BY SplitBlocks
  <2> QED
    BY <2>1
<1> DEFINE h1 == Remove(h, s, size)
           h2 == Insert(h1, s, new, h.blocks[s].prev)
           h3 == Insert(h2, s + new, size - new, s)
<1>2. k = Relink(h3, n, s + new) /\ size = h.blocks[s].size
  BY DEF Split
<1> HIDE DEF size, n
<1>3. h1.lists = Listed(h1)
  BY <1>2, RemoveLists
<1>4. Starts(h1) = Starts(h) /\ h1.blocks[s].free = FALSE
  BY DEF Remove, Starts
<1> HIDE DEF h1
<1>5. h2.lists = Listed(h2)
  <2> DEFINE p == h.blocks[s].prev
  <2> HIDE DEF p
  <2>1. Insert(h1, s, new, p).lists = Listed(Insert(h1, s, new, p))
    BY <1>3, <1>4, InsertLists
  <2> QED
    BY <2>1 DEF p
<1>6. Starts(h2) = Starts(h)
  BY <1>4 DEF Insert, Starts
<1> HIDE DEF h2
<1>7. h3.lists = Listed(h3)
  BY <1>1, <1>5, <1>6, InsertLists
<1> HIDE DEF h3
<1> QED
  BY <1>2, <1>7, RelinkLists

-----------------------------------------------------------------------------
(* A turn of _merge_right keeps everything but the link of the block that  *)
(* now follows.                                                            *)

Merged(h, s, n, k) ==
  /\ Starts(k) = Starts(h) \ {n}
  /\ k.blocks[s].size = h.blocks[s].size + h.blocks[n].size
  /\ k.blocks[s].prev = h.blocks[s].prev /\ k.blocks[s].free = TRUE
  /\ \A x \in Starts(h) : x # s /\ x # n => k.blocks[x] = h.blocks[x]

LEMMA MergeBlocks ==
  ASSUME NEW h, NEW s \in Starts(h), NEW n \in Starts(h), n # s, NEW k, k = Merge(h, s, n)
  PROVE  Merged(h, s, n, k)
<1> DEFINE a == h.blocks[s].size
           b == h.blocks[n].size
           p == h.blocks[s].prev
           h1 == Remove(h, s, a)
           h2 == Remove(h1, n, b)
           h3 == Insert(h2, s, a + b, p)
<1>1. k = Drop(h3, n)
  BY DEF Merge
<1> SUFFICES /\ Starts(k) = Starts(h) \ {n}
             /\ k.blocks[s].size = a + b /\ k.blocks[s].prev = p /\ k.blocks[s].free = TRUE
             /\ \A x \in Starts(h) : x # s /\ x # n => k.blocks[x] = h.blocks[x]
  BY DEF Merged
<1> HIDE DEF a, b, p
<1>2. Starts(h1) = Starts(h) /\ \A x \in Starts(h) : x # s => h1.blocks[x] = h.blocks[x]
  BY DEF Remove, Starts
<1> HIDE DEF h1
<1>3. Starts(h2) = Starts(h) /\ \A x \in Starts(h) : x # s /\ x # n => h2.blocks[x] = h.blocks[x]
  BY <1>2 DEF Remove, Starts
<1> HIDE DEF h2
<1>4. /\ Starts(h3) = Starts(h) /\ \A x \in Starts(h) : x # s /\ x # n => h3.blocks[x] = h.blocks[x]
      /\ h3.blocks[s] = [size |-> a + b, prev |-> p, free |-> TRUE]
  BY <1>3 DEF Insert, Starts
<1> HIDE DEF h3
<1>5. Starts(k) = Starts(h) \ {n} /\ \A x \in Starts(k) : k.blocks[x] = h3.blocks[x]
  BY <1>1, <1>4 DEF Drop, Starts
<1> QED
  BY <1>4, <1>5

LEMMA MergeLists ==
  ASSUME NEW h, h.lists = Listed(h), NEW s \in Starts(h), NEW n \in Starts(h), n # s,
         NEW k, k = Merge(h, s, n)
  PROVE  k.lists = Listed(k)
<1> DEFINE a == h.blocks[s].size
           b == h.blocks[n].size
           p == h.blocks[s].prev
           h1 == Remove(h, s, a)
           h2 == Remove(h1, n, b)
           h3 == Insert(h2, s, a + b, p)
<1>1. k = Drop(h3, n) /\ a = h.blocks[s].size /\ b = h.blocks[n].size
  BY DEF Merge
<1> HIDE DEF a, b, p
<1>2. h1.lists = Listed(h1)
  BY <1>1, RemoveLists
<1>3. Starts(h1) = Starts(h) /\ h1.blocks[s].free = FALSE /\ h1.blocks[n].size = b
  BY <1>1 DEF Remove, Starts
<1> HIDE DEF h1
<1>4. h2.lists = Listed(h2)
  BY <1>2, <1>3, RemoveLists
<1>5. Starts(h2) = Starts(h) /\ h2.blocks[s].free = FALSE /\ h2.blocks[n].free = FALSE
  BY <1>3 DEF Remove, Starts
<1> HIDE DEF h2
<1>6. h3.lists = Listed(h3)
  BY <1>4, <1>5, InsertLists
<1>7. Starts(h3) = Starts(h) /\ h3.blocks[n].free = FALSE
  BY <1>5 DEF Insert, Starts
<1> HIDE DEF h3
<1> QED
  BY <1>1, <1>6, <1>7, DropLists

Swallowed(h, s, n, k) ==
  /\ Shape(k) /\ Tiles(k) /\ Next(k, s) = Next(h, n) /\ LinkedBut(k, Next(k, s))
  /\ Starts(k) = Starts(h) \ {n} /\ n # s /\ k.blocks[s].free = TRUE
  /\ \A x \in Starts(h) : x # s /\ x # n => k.blocks[x] = h.blocks[x]

LEMMA MergeKeeps ==
  ASSUME NEW h, Shape(h), Tiles(h), NEW s \in Starts(h), NEW n \in Starts(h), n = Next(h, s),
         LinkedBut(h, n), NEW k, k = Merge(h, s, n)
  PROVE  Swallowed(h, s, n, k)
<1>1. /\ s \in 0 .. Size - 1 /\ n \in 0 .. Size - 1 /\ Size \in Nat
      /\ h.blocks[s].size \in 1 .. Size - s /\ h.blocks[n].size \in 1 .. Size - n
      /\ n = s + h.blocks[s].size
  BY PoolAssumption DEF Shape, Next
<1>2. s < n /\ n # s
  BY <1>1
<1>3. /\ Starts(k) = Starts(h) \ {n}
      /\ k.blocks[s].size = h.blocks[s].size + h.blocks[n].size
      /\ k.blocks[s].prev = h.blocks[s].prev /\ k.blocks[s].free = TRUE
      /\ \A x \in Starts(h) : x # s /\ x # n => k.blocks[x] = h.blocks[x]
  <2>1. Merged(h, s, n, k)
    BY <1>2, MergeBlocks
  <2> QED
    BY <2>1 DEF Merged
<1>4. /\ Next(k, s) = Next(h, n)
      /\ \A x \in Starts(k) : x # s => Next(k, x) = Next(h, x)
  <2>1. s + (h.blocks[s].size + h.blocks[n].size) = n + h.blocks[n].size
    BY <1>1
  <2>2. \A x \in Starts(k) : x # s => k.blocks[x].size = h.blocks[x].size
    BY <1>3
  <2> QED
    BY <1>3, <2>1, <2>2 DEF Next
<1>5. Shape(k)
  <2>1. Starts(k) \subseteq 0 .. Size - 1 /\ 0 \in Starts(k)
    BY <1>1, <1>2, <1>3 DEF Shape
  <2>2. ASSUME NEW x \in Starts(k)
        PROVE  /\ k.blocks[x].size \in 1 .. Size - x /\ k.blocks[x].free \in BOOLEAN
               /\ k.blocks[x].prev \in {None} \cup 0 .. Size - 1
    <3>1. CASE x = s
      <4>1. h.blocks[s].prev \in {None} \cup 0 .. Size - 1
        BY DEF Shape
      <4>2. h.blocks[s].size + h.blocks[n].size \in 1 .. Size - s
        BY <1>1
      <4> QED
        BY <1>3, <3>1, <4>1, <4>2
    <3>2. CASE x # s
      <4>1. x \in Starts(h) /\ k.blocks[x] = h.blocks[x]
        BY <1>3, <3>2
      <4> QED
        BY <4>1 DEF Shape
    <3> QED
      BY <3>1, <3>2
  <2> QED
    BY <2>1, <2>2 DEF Shape
<1>6. Tiles(k)
  <2>1. ASSUME NEW x \in Starts(k) PROVE Next(k, x) = Size \/ Next(k, x) \in Starts(k)
    <3>1. CASE x = s
      <4>1. Next(h, n) # n
        BY <1>1 DEF Next
      <4> QED
        BY <1>3, <1>4, <3>1, <4>1 DEF Tiles
    <3>2. CASE x # s
      <4>1. x \in Starts(h) /\ x # n /\ Next(k, x) = Next(h, x)
        BY <1>3, <1>4, <3>2
      <4>2. Next(h, x) # n
        <5>1. x \in Int /\ h.blocks[x].size \in Int /\ h.blocks[x].size >= 1 /\ Next(h, x) = x + h.blocks[x].size
          BY <4>1 DEF Shape, Next
        <5>2. CASE x < s
          <6>1. Next(h, x) <= s
            BY <4>1, <5>2 DEF Tiles
          <6> QED
            BY <1>1, <5>1, <6>1
        <5>3. CASE s < x
          <6>1. n <= x
            BY <4>1, <5>3 DEF Tiles
          <6> QED
            BY <1>1, <5>1, <6>1
        <5> QED
          BY <1>1, <3>2, <5>1, <5>2, <5>3
      <4> QED
        BY <1>3, <4>1, <4>2 DEF Tiles
    <3> QED
      BY <3>1, <3>2
  <2>2. ASSUME NEW x \in Starts(k), NEW t \in Starts(k), x < t PROVE Next(k, x) <= t
    <3>1. x \in Starts(h) /\ t \in Starts(h) /\ x # n /\ t # n
      BY <1>3
    <3>2. CASE x = s
      <4>1. n <= t
        BY <2>2, <3>1, <3>2 DEF Tiles
      <4>2. n < t
        BY <1>1, <3>1, <4>1 DEF Shape
      <4> QED
        BY <1>4, <3>1, <3>2, <4>2 DEF Tiles
    <3>3. CASE x # s
      BY <1>4, <2>2, <3>1, <3>3 DEF Tiles
    <3> QED
      BY <3>2, <3>3
  <2> QED
    BY <2>1, <2>2 DEF Tiles
<1>7. LinkedBut(k, Next(k, s))
  <2>1. k.blocks[0].prev = None
    <3>1. 0 \in Starts(h) /\ 0 # n /\ h.blocks[0].prev = None
      BY <1>1 DEF Shape, LinkedBut
    <3>2. CASE s = 0
      BY <1>3, <3>1, <3>2
    <3>3. CASE s # 0
      BY <1>3, <3>1, <3>3
    <3> QED
      BY <3>2, <3>3
  <2>2. ASSUME NEW x \in Starts(k) \ {0}, x # Next(k, s) PROVE LinkOK(k, x)
    <3>1. x \in Starts(h) \ {0} /\ x # n /\ k.blocks[x].prev = h.blocks[x].prev
      BY <1>3
    <3>2. h.blocks[x].prev \in Starts(h) /\ Next(h, h.blocks[x].prev) = x
      BY <3>1 DEF LinkedBut, LinkOK
    <3>3. h.blocks[x].prev # n /\ h.blocks[x].prev # s
      BY <1>4, <2>2, <3>1, <3>2
    <3> QED
      BY <1>3, <1>4, <3>1, <3>2, <3>3 DEF LinkOK
  <2> QED
    BY <2>1, <2>2 DEF LinkedBut
<1> QED
  BY <1>2, <1>3, <1>4, <1>5, <1>6, <1>7 DEF Swallowed

-----------------------------------------------------------------------------
(* Taking a block and giving one back change nothing but its state.        *)

Good(h) == Shape(h) /\ Tiles(h) /\ Linked(h) /\ h.lists = Listed(h)

LEMMA SameFrame ==
  ASSUME NEW h, Shape(h), Tiles(h), Linked(h), NEW k, Starts(k) = Starts(h),
         \A x \in Starts(h) : k.blocks[x].size = h.blocks[x].size,
         \A x \in Starts(h) : k.blocks[x].prev = h.blocks[x].prev,
         \A x \in Starts(h) : k.blocks[x].free \in BOOLEAN
  PROVE  Shape(k) /\ Tiles(k) /\ Linked(k)
<1>1. Shape(k)
  BY DEF Shape
<1>2. \A x \in Starts(h) : Next(k, x) = Next(h, x)
  BY DEF Next
<1>3. Tiles(k)
  BY <1>2 DEF Tiles
<1>4. 0 \in Starts(h)
  BY DEF Shape
<1>5. \A x \in Starts(h) \ {0} : LinkOK(k, x)
  BY <1>2 DEF Linked, LinkOK
<1>6. Linked(k)
  BY <1>4, <1>5 DEF Linked
<1> QED
  BY <1>1, <1>3, <1>6

Flipped(h, s, f, k) ==
  /\ Starts(k) = Starts(h) /\ k.blocks[s].free = f
  /\ \A x \in Starts(h) : k.blocks[x].size = h.blocks[x].size
  /\ \A x \in Starts(h) : x # s => k.blocks[x].free = h.blocks[x].free

LEMMA RemoveKeeps ==
  ASSUME NEW h, Good(h), NEW s \in Starts(h), NEW size, size = h.blocks[s].size,
         NEW k, k = Remove(h, s, size)
  PROVE  Good(k) /\ Flipped(h, s, FALSE, k)
<1>1. /\ Starts(k) = Starts(h)
      /\ \A x \in Starts(h) : k.blocks[x].size = h.blocks[x].size
      /\ \A x \in Starts(h) : k.blocks[x].prev = h.blocks[x].prev
      /\ \A x \in Starts(h) : x # s => k.blocks[x].free = h.blocks[x].free
      /\ k.blocks[s].free = FALSE
  BY DEF Remove, Starts
<1>2. \A x \in Starts(h) : k.blocks[x].free \in BOOLEAN
  BY <1>1 DEF Good, Shape
<1>3. Shape(k) /\ Tiles(k) /\ Linked(k)
  BY <1>1, <1>2, SameFrame DEF Good
<1>4. k.lists = Listed(k)
  BY RemoveLists DEF Good
<1> QED
  BY <1>1, <1>3, <1>4 DEF Good, Flipped

LEMMA InsertKeeps ==
  ASSUME NEW h, Good(h), NEW s \in Starts(h), h.blocks[s].free = FALSE,
         NEW size, size = h.blocks[s].size, NEW prev, prev = h.blocks[s].prev,
         NEW k, k = Insert(h, s, size, prev)
  PROVE  Good(k) /\ Flipped(h, s, TRUE, k)
<1>1. /\ Starts(k) = Starts(h)
      /\ \A x \in Starts(h) : k.blocks[x].size = h.blocks[x].size
      /\ \A x \in Starts(h) : k.blocks[x].prev = h.blocks[x].prev
      /\ \A x \in Starts(h) : x # s => k.blocks[x].free = h.blocks[x].free
      /\ k.blocks[s].free = TRUE
  BY DEF Insert, Starts
<1>2. \A x \in Starts(h) : k.blocks[x].free \in BOOLEAN
  BY <1>1 DEF Good, Shape
<1>3. Shape(k) /\ Tiles(k) /\ Linked(k)
  BY <1>1, <1>2, SameFrame DEF Good
<1>4. k.lists = Listed(k)
  <2>1. h.lists = Listed(h)
    BY DEF Good
  <2>2. \A z, p : Insert(h, s, z, p).lists = Listed(Insert(h, s, z, p))
    BY <2>1, InsertLists
  <2> QED
    BY <2>2
<1> QED
  BY <1>1, <1>3, <1>4 DEF Good, Flipped

-----------------------------------------------------------------------------
(* An allocation cuts its region out of the block found.                   *)

LEMMA RoundUpFacts ==
  ASSUME NEW x \in Nat, NEW a \in Nat \ {0}
  PROVE  RoundUp(x, a) \in Nat /\ x <= RoundUp(x, a) /\ RoundUp(x, a) <= x + a - 1
<1> DEFINE q == (x + a - 1) \div a
           m == (x + a - 1) % a
<1>1. q \in Nat /\ m \in 0 .. a - 1 /\ x + a - 1 = a * q + m
  OBVIOUS
<1> HIDE DEF q, m
<1>2. q * a = a * q /\ q * a \in Nat
  BY <1>1
<1>3. RoundUp(x, a) = q * a
  BY DEF RoundUp, q
<1> QED
  BY <1>1, <1>2, <1>3

(* What a cut of the free block s leaves: all the other blocks as they     *)
(* were.                                                                   *)
Cut(h, s, new, k) ==
  /\ Starts(k) = Starts(h) \cup {s + new} /\ s + new \notin Starts(h)
  /\ k.blocks[s].size = new /\ k.blocks[s].free
  /\ k.blocks[s + new].size = h.blocks[s].size - new /\ k.blocks[s + new].free
  /\ \A x \in Starts(h) : x # s => /\ k.blocks[x].size = h.blocks[x].size
                                  /\ k.blocks[x].free = h.blocks[x].free

LEMMA SplitGood ==
  ASSUME NEW h, Good(h), NEW s \in Starts(h), NEW size, size = h.blocks[s].size,
         NEW new \in 1 .. size - 1, NEW k, k = Split(h, s, size, new)
  PROVE  Good(k) /\ Cut(h, s, new, k)
<1>1. new \in 1 .. h.blocks[s].size - 1 /\ k = Split(h, s, h.blocks[s].size, new)
  OBVIOUS
<1>2. /\ Shape(k) /\ Tiles(k) /\ Linked(k)
      /\ Starts(k) = Starts(h) \cup {s + new} /\ s + new \notin Starts(h)
      /\ k.blocks[s].size = new /\ k.blocks[s].free
      /\ k.blocks[s + new].size = h.blocks[s].size - new /\ k.blocks[s + new].free
      /\ \A x \in Starts(h) : x # s => /\ k.blocks[x].size = h.blocks[x].size
                                      /\ k.blocks[x].free = h.blocks[x].free
  BY <1>1, SplitKeeps DEF Good
<1>3. k.lists = Listed(k)
  BY <1>1, SplitLists DEF Good
<1> QED
  BY <1>2, <1>3 DEF Good, Cut

(* The new pairs are the cut itself, and the part behind it with a pair    *)
(* there was.                                                              *)
LEMMA CutPairs ==
  ASSUME NEW h, Good(h), NEW s \in Starts(h), h.blocks[s].free,
         NEW new \in 1 .. h.blocks[s].size - 1, NEW k, Good(k), Cut(h, s, new, k),
         NEW x \in Starts(k), Pair(k, x)
  PROVE  \/ x = s /\ Next(k, x) = s + new
         \/ x = s + new /\ Pair(h, s)
         \/ x \in Starts(h) \ {s} /\ Pair(h, x) /\ Next(k, x) = Next(h, x)
<1>1. /\ Shape(h) /\ Tiles(h) /\ Shape(k) /\ Size \in Nat
      /\ s \in Nat /\ h.blocks[s].size \in Nat
  BY PoolAssumption DEF Good, Shape
<1>2. /\ Starts(k) = Starts(h) \cup {s + new} /\ s + new \notin Starts(h)
      /\ k.blocks[s].size = new /\ k.blocks[s + new].size = h.blocks[s].size - new
      /\ \A y \in Starts(h) : y # s => /\ k.blocks[y].size = h.blocks[y].size
                                      /\ k.blocks[y].free = h.blocks[y].free
  BY DEF Cut
<1>3. /\ Next(k, x) \in Starts(k) /\ Next(k, x) # Size
      /\ k.blocks[x].free /\ k.blocks[Next(k, x)].free
  BY <1>1 DEF Pair, Shape
<1>4. \A y \in Starts(h) : Next(h, y) \in Starts(k) =>
         Next(h, y) \in Starts(h) /\ (k.blocks[Next(h, y)].free => h.blocks[Next(h, y)].free)
  <2> SUFFICES ASSUME NEW y \in Starts(h), Next(h, y) \in Starts(k)
               PROVE  /\ Next(h, y) \in Starts(h)
                      /\ k.blocks[Next(h, y)].free => h.blocks[Next(h, y)].free
    OBVIOUS
  <2>1. Next(h, y) # Size
    BY <1>1 DEF Shape
  <2>2. Next(h, y) \in Starts(h)
    BY <1>1, <2>1 DEF Tiles
  <2> QED
    BY <1>2, <2>2
<1>5. CASE x = s
  BY <1>2, <1>5 DEF Next
<1>6. CASE x = s + new
  <2>1. Next(k, x) = Next(h, s)
    BY <1>1, <1>2, <1>6 DEF Next
  <2> QED
    BY <1>3, <1>4, <1>6, <2>1 DEF Pair
<1>7. CASE x \in Starts(h) \ {s}
  <2>1. Next(k, x) = Next(h, x) /\ h.blocks[x].free
    BY <1>2, <1>3, <1>7 DEF Next
  <2> QED
    BY <1>3, <1>4, <1>7, <2>1 DEF Pair
<1> QED
  BY <1>2, <1>5, <1>6, <1>7

(* Taking the only block with free neighbours leaves no pair.              *)
LEMMA TakePairs ==
  ASSUME NEW h, NEW b \in Starts(h), PairsAt(h, b), NEW k, Flipped(h, b, FALSE, k)
  PROVE  Pairless(k)
<1> SUFFICES ASSUME NEW x \in Starts(k), Pair(k, x) PROVE FALSE
  BY DEF Pairless
<1>1. x \in Starts(h) /\ Next(k, x) = Next(h, x) /\ Next(h, x) \in Starts(h)
  BY DEF Flipped, Next, Pair
<1>2. x # b /\ Next(h, x) # b
  BY <1>1 DEF Flipped, Pair
<1>3. Pair(h, x)
  BY <1>1, <1>2 DEF Flipped, Pair
<1> QED
  BY <1>1, <1>2, <1>3 DEF PairsAt

(* What is left of block s elsewhere than at b is free, and every other    *)
(* block is as it was.                                                     *)
Rest(h, s, k, b) ==
  /\ s \in Starts(k)
  /\ \A x \in Starts(h) \ {s} : /\ x \in Starts(k) /\ x # b
                                /\ k.blocks[x].size = h.blocks[x].size
                                /\ k.blocks[x].free = h.blocks[x].free
  /\ \A x \in Starts(k) \ {b} : x \in Starts(h) \ {s} \/ k.blocks[x].free

Carved(h, s, len, k, b) ==
  /\ Good(k) /\ b \in Starts(k)
  /\ k.blocks[b].free = FALSE /\ k.blocks[b].size = Need(len) /\ Rest(h, s, k, b)
  /\ Pairless(h) => Pairless(k)

LEMMA CarveKeeps ==
  ASSUME NEW h, Good(h), NEW s \in Starts(h), h.blocks[s].free,
         NEW len \in Lens, NEW align \in Aligns, h.blocks[s].size >= SearchSize(len, align),
         NEW k, k = Carve(h, s, len, align), NEW b, b = RoundUp(s, align)
  PROVE  Carved(h, s, len, k, b)
<1> DEFINE size == h.blocks[s].size
           need == Need(len)
           h1 == IF b # s THEN Split(h, s, size, b - s) ELSE h
           h2 == IF h1.blocks[b].size > need THEN Split(h1, b, h1.blocks[b].size, need) ELSE h1
<1>1. len \in Nat \ {0} /\ align \in Nat \ {0} /\ s \in Nat /\ size \in Nat /\ size = h.blocks[s].size
  BY RequestAssumption, PoolAssumption DEF Good, Shape
<1>2. need \in Nat \ {0}
  BY <1>1, PoolAssumption DEF Need, Larger
<1>3. SearchSize(len, align) \in Nat /\ SearchSize(len, align) >= need + align - 1
  <2> DEFINE x == Padded(len, align)
             w == Width(x)
  <2>1. x \in Nat /\ x >= need + align - 1
    BY <1>1, <1>2, PoolAssumption DEF Padded, Larger, need
  <2>2. w \in Nat \ {0}
    BY WidthAssumption
  <2>3. SearchSize(len, align) = RoundUp(x, w)
    BY DEF SearchSize
  <2> HIDE DEF x, w
  <2>4. RoundUp(x, w) \in Nat /\ RoundUp(x, w) >= x
    BY <2>1, <2>2, RoundUpFacts
  <2> HIDE DEF need
  <2> QED
    BY <1>1, <1>2, <2>1, <2>3, <2>4
<1>4. k = Remove(h2, b, need) /\ Need(len) = need
  BY DEF Carve
<1> HIDE DEF need
<1>5. b \in Nat /\ s <= b /\ b <= s + align - 1
  BY <1>1, RoundUpFacts
<1>6. size >= need + align - 1
  BY <1>1, <1>2, <1>3
<1>7. ASSUME b # s PROVE Good(h1) /\ Cut(h, s, b - s, h1)
  <2>1. b - s \in 1 .. size - 1
    BY <1>1, <1>2, <1>5, <1>6, <1>7
  <2>2. h1 = Split(h, s, size, b - s)
    BY <1>7
  <2> HIDE DEF h1, size
  <2> QED
    BY <1>1, <2>1, <2>2, SplitGood
<1> HIDE DEF h2
<1>7a. Pairless(h) => \A x \in Starts(h1) : Pair(h1, x) => x # b /\ Next(h1, x) = b
  <2> SUFFICES ASSUME Pairless(h), NEW x \in Starts(h1), Pair(h1, x)
               PROVE  x # b /\ Next(h1, x) = b
    OBVIOUS
  <2>1. b # s
    BY DEF Pairless
  <2>2. b - s \in 1 .. size - 1 /\ s + (b - s) = b
    BY <1>1, <1>2, <1>5, <1>6, <2>1
  <2> HIDE DEF h1
  <2>3. \/ x = s /\ Next(h1, x) = b
        \/ x = s + (b - s) /\ Pair(h, s)
        \/ x \in Starts(h) \ {s} /\ Pair(h, x) /\ Next(h1, x) = Next(h, x)
    BY <1>7, <2>1, <2>2, CutPairs
  <2> QED
    BY <2>1, <2>3 DEF Pairless
<1>8. /\ Good(h1) /\ b \in Starts(h1) /\ h1.blocks[b].free /\ h1.blocks[b].size >= need
      /\ h1.blocks[b].size \in Nat /\ Rest(h, s, h1, b)
  <2>1. CASE b = s
    <3>1. h1 = h
      BY <2>1
    <3> HIDE DEF h1
    <3> QED
      BY <1>1, <1>2, <1>6, <2>1, <3>1 DEF Rest
  <2>2. CASE b # s
    <3>1. s + (b - s) = b /\ size - (b - s) >= need /\ size - (b - s) \in Nat
      BY <1>1, <1>2, <1>5, <1>6
    <3> HIDE DEF h1
    <3>2. /\ Starts(h1) = Starts(h) \cup {b} /\ b \notin Starts(h) /\ h1.blocks[s].free
          /\ h1.blocks[b].size = size - (b - s) /\ h1.blocks[b].free
          /\ \A x \in Starts(h) : x # s => /\ h1.blocks[x].size = h.blocks[x].size
                                          /\ h1.blocks[x].free = h.blocks[x].free
      BY <1>7, <2>2, <3>1 DEF Cut
    <3>3. Rest(h, s, h1, b)
      BY <3>2 DEF Rest
    <3> QED
      BY <1>7, <2>2, <3>1, <3>2, <3>3
  <2> QED
    BY <2>1, <2>2
<1> DEFINE have == h1.blocks[b].size
<1>9. h2 = IF have > need THEN Split(h1, b, have, need) ELSE h1
  BY DEF h2
<1> HIDE DEF h1
<1>10. /\ Good(h2) /\ b \in Starts(h2) /\ h2.blocks[b].size = need /\ Rest(h, s, h2, b)
  <2>1. CASE have > need
    <3>1. need \in 1 .. have - 1 /\ h2 = Split(h1, b, have, need)
      BY <1>2, <1>8, <1>9, <2>1
    <3>2. Good(h2) /\ Cut(h1, b, need, h2)
      <4>1. have = h1.blocks[b].size
        OBVIOUS
      <4> HIDE DEF have
      <4> QED
        BY <1>8, <3>1, <4>1, SplitGood
    <3>3. Rest(h, s, h2, b)
      <4>1. \A x \in Starts(h) \ {s} : /\ x \in Starts(h2) /\ x # b
                                       /\ h2.blocks[x].size = h.blocks[x].size
                                       /\ h2.blocks[x].free = h.blocks[x].free
        BY <1>8, <3>2 DEF Rest, Cut
      <4>2. \A x \in Starts(h2) \ {b} : x \in Starts(h) \ {s} \/ h2.blocks[x].free
        BY <1>8, <3>2 DEF Rest, Cut
      <4> QED
        BY <1>8, <3>2, <4>1, <4>2 DEF Rest, Cut
    <3>4. b \in Starts(h2) /\ h2.blocks[b].size = need
      BY <1>8, <3>2 DEF Cut
    <3> QED
      BY <3>2, <3>3, <3>4
  <2>2. CASE ~(have > need)
    BY <1>2, <1>8, <1>9, <2>2
  <2> QED
    BY <2>1, <2>2
<1>11. Good(k) /\ Flipped(h2, b, FALSE, k)
  BY <1>4, <1>10, RemoveKeeps
<1>11a. Pairless(h) => PairsAt(h2, b)
  <2> SUFFICES ASSUME Pairless(h), NEW x \in Starts(h2), Pair(h2, x), x # b
               PROVE  Next(h2, x) = b
    BY DEF PairsAt
  <2>1. CASE have > need
    <3>1. need \in 1 .. have - 1 /\ h2 = Split(h1, b, have, need)
      BY <1>2, <1>8, <1>9, <2>1
    <3>2. have = h1.blocks[b].size
      OBVIOUS
    <3> HIDE DEF have
    <3>3. Cut(h1, b, need, h2)
      BY <1>8, <3>1, <3>2, SplitGood
    <3>4. \/ x = b + need /\ Pair(h1, b)
          \/ x \in Starts(h1) \ {b} /\ Pair(h1, x) /\ Next(h2, x) = Next(h1, x)
      BY <1>8, <1>10, <3>1, <3>2, <3>3, CutPairs
    <3> QED
      BY <1>8, <1>7a, <3>4
  <2>2. CASE ~(have > need)
    BY <1>9, <1>7a, <2>2
  <2> QED
    BY <2>1, <2>2
<1>11b. Pairless(h) => Pairless(k)
  BY <1>10, <1>11, <1>11a, TakePairs
<1>12. Rest(h, s, k, b)
  <2>1. \A x \in Starts(h) \ {s} : /\ x \in Starts(k) /\ x # b
                                   /\ k.blocks[x].size = h.blocks[x].size
                                   /\ k.blocks[x].free = h.blocks[x].free
    BY <1>10, <1>11 DEF Rest, Flipped
  <2>2. \A x \in Starts(k) \ {b} : x \in Starts(h) \ {s} \/ k.blocks[x].free
    BY <1>10, <1>11 DEF Rest, Flipped
  <2> QED
    BY <1>10, <1>11, <2>1, <2>2 DEF Rest, Flipped
<1> QED
  BY <1>4, <1>10, <1>11, <1>12, <1>11b DEF Flipped, Carved

-----------------------------------------------------------------------------
(* The invariant: between two calls the heap is good; while _merge_right   *)
(* runs, one link is still wrong.                                          *)

Sound(h) == Shape(h) /\ Tiles(h) /\ h.lists = Listed(h)

LiveOK(h, l) ==
  /\ \A r \in l : r \in [at : 0 .. Size - 1, len : Lens] /\ Held(h, r)
  /\ \A s \in Starts(h) : ~h.blocks[s].free => \E r \in l : r.at = s
  /\ \A q, r \in l : q.at = r.at => q = r

IInv ==
  /\ Sound(heap) /\ LiveOK(heap, live)
  /\ pc = "right" => LinkedBut(heap, Next(heap, cur))
  /\ pc # "right" => Linked(heap)
  /\ pc \in {"idle", "left", "right"} /\ cur \in Starts(heap)
  /\ pc # "idle" => heap.blocks[cur].free

LEMMA InitIInv == Init => IInv
<1> SUFFICES ASSUME Init PROVE IInv
  OBVIOUS
<1> DEFINE z == Insert(Empty, 0, Size, None)
<1>1. heap = z /\ live = {} /\ pc = "idle" /\ cur = 0
  BY DEF Init
<1>2. /\ Starts(Empty) = {0} /\ Empty.blocks[0].free = FALSE /\ Empty.lists = {}
  BY DEF Empty, Starts
<1>3. Empty.lists = Listed(Empty)
  BY <1>2 DEF Listed
<1>4. z.lists = Listed(z)
  <2> DEFINE e == Empty
  <2>1. e.lists = Listed(e) /\ e.blocks[0].free = FALSE
    BY <1>2, <1>3
  <2> HIDE DEF e
  <2>2. Insert(e, 0, Size, None).lists = Listed(Insert(e, 0, Size, None))
    BY <2>1, InsertLists
  <2> QED
    BY <2>2 DEF e
<1>5. Starts(z) = {0} /\ z.blocks[0] = [size |-> Size, prev |-> None, free |-> TRUE]
  BY <1>2 DEF Insert, Starts
<1> HIDE DEF z
<1>6. Shape(z) /\ Tiles(z) /\ Linked(z)
  <2>1. Next(z, 0) = Size
    BY <1>5, PoolAssumption DEF Next
  <2> QED
    <3>1. z.blocks[0].size = Size /\ z.blocks[0].prev = None /\ z.blocks[0].free = TRUE
      BY <1>5
    <3>2. Shape(z)
      <4>1. Size \in 1 .. Size - 0 /\ 0 \in 0 .. Size - 1
        BY PoolAssumption
      <4>2. \A x \in Starts(z) : x = 0
        BY <1>5
      <4> QED
        BY <1>5, <3>1, <4>1, <4>2 DEF Shape
    <3> QED
      BY <1>5, <2>1, <3>1, <3>2 DEF Tiles, Linked
<1> QED
  BY <1>1, <1>4, <1>5, <1>6 DEF IInv, Sound, LiveOK

(* An allocation keeps the invariant, and its region is a new one.         *)
LEMMA AllocKeeps ==
  ASSUME IInv, NEW len \in Lens, NEW align \in Aligns, Alloc(len, align)
  PROVE  IInv' /\ \E r \in live' \ live : live' = live \cup {r}
<1>1. PICK e \in Found(heap, SearchSize(len, align)) :
        /\ heap.blocks[e[2]].size >= SearchSize(len, align)
        /\ heap' = Carve(heap, e[2], len, align)
        /\ live' = live \cup {[at |-> RoundUp(e[2], align), len |-> len]}
  BY DEF Alloc
<1>2. pc = "idle" /\ pc' = pc /\ cur' = cur
  BY DEF Alloc
<1>3. Good(heap)
  BY <1>2 DEF IInv, Sound, Good
<1> DEFINE s == e[2]
           b == RoundUp(s, align)
           r == [at |-> b, len |-> len]
<1>4. s \in Starts(heap) /\ heap.blocks[s].free
  <2>1. e \in Listed(heap)
    BY <1>3 DEF Found, Candidates, Good
  <2> QED
    BY <2>1 DEF Listed
<1>5. /\ Good(heap') /\ b \in Starts(heap') /\ heap'.blocks[b].free = FALSE
      /\ heap'.blocks[b].size = Need(len) /\ Rest(heap, s, heap', b)
  <2> HIDE DEF s
  <2>1. heap.blocks[s].size >= SearchSize(len, align) /\ heap' = Carve(heap, s, len, align)
    BY <1>1 DEF s
  <2> DEFINE k == Carve(heap, s, len, align)
             c == RoundUp(s, align)
  <2> HIDE DEF c, k
  <2>2. k = Carve(heap, s, len, align) /\ c = RoundUp(s, align)
    BY DEF c, k
  <2>3. Carved(heap, s, len, k, c)
    BY <1>3, <1>4, <2>1, <2>2, CarveKeeps
  <2> QED
    BY <2>1, <2>2, <2>3 DEF Carved
<1>6. live' = live \cup {r}
  BY <1>1
<1>7. b \in 0 .. Size - 1
  BY <1>5 DEF Good, Shape
<1> HIDE DEF s, b
<1>8. \A q \in live : q.at \in Starts(heap) \ {s} /\ q.at # b /\ Held(heap', q)
  <2> SUFFICES ASSUME NEW q \in live PROVE q.at \in Starts(heap) \ {s} /\ q.at # b /\ Held(heap', q)
    OBVIOUS
  <2>1. Held(heap, q)
    BY DEF IInv, LiveOK
  <2>2. q.at \in Starts(heap) \ {s}
    BY <1>4, <2>1 DEF Held
  <2> QED
    BY <1>5, <2>1, <2>2 DEF Rest, Held
<1>9. r \notin live /\ r \in [at : 0 .. Size - 1, len : Lens] /\ Held(heap', r)
  BY <1>5, <1>7, <1>8 DEF Held
<1>10. LiveOK(heap', live')
  <2>1. \A q \in live' : q \in [at : 0 .. Size - 1, len : Lens] /\ Held(heap', q)
    BY <1>6, <1>8, <1>9 DEF IInv, LiveOK
  <2>2. ASSUME NEW t \in Starts(heap'), ~heap'.blocks[t].free PROVE \E q \in live' : q.at = t
    <3>1. CASE t = b
      <4>1. r \in live' /\ r.at = b
        BY <1>6
      <4> QED
        BY <3>1, <4>1
    <3>2. CASE t # b
      <4>1. t \in Starts(heap) \ {s} /\ ~heap.blocks[t].free
        BY <1>5, <2>2, <3>2 DEF Rest
      <4>2. \E q \in live : q.at = t
        BY <4>1 DEF IInv, LiveOK
      <4> QED
        BY <1>6, <4>2
    <3> QED
      BY <3>1, <3>2
  <2>3. \A p, q \in live' : p.at = q.at => p = q
    BY <1>6, <1>8 DEF IInv, LiveOK
  <2> QED
    BY <2>1, <2>2, <2>3 DEF LiveOK
<1>11. cur' \in Starts(heap')
  <2>1. CASE cur # s
    BY <1>2, <1>5, <2>1 DEF IInv, Rest
  <2>2. CASE cur = s
    BY <1>2, <1>5, <2>2 DEF Rest
  <2> QED
    BY <2>1, <2>2
<1>12. IInv'
  BY <1>2, <1>5, <1>10, <1>11 DEF IInv, Good, Sound
<1> QED
  BY <1>6, <1>9, <1>12

(* Giving a region back makes its block free; nobody else's block is       *)
(* touched.                                                                *)
LEMMA FreeKeeps ==
  ASSUME IInv, NEW r \in live, Free(r)
  PROVE  IInv'
<1>1. /\ pc = "idle" /\ live' = live \ {r} /\ pc' = "left" /\ cur' = r.at
      /\ heap' = Insert(heap, r.at, heap.blocks[r.at].size, heap.blocks[r.at].prev)
  BY DEF Free
<1> DEFINE s == r.at
<1>2. Good(heap) /\ s \in Starts(heap) /\ heap.blocks[s].free = FALSE
  BY <1>1 DEF IInv, Sound, Good, LiveOK, Held, Shape
<1>3. Good(heap') /\ Flipped(heap, s, TRUE, heap')
  <2> DEFINE z == heap.blocks[s].size
             p == heap.blocks[s].prev
  <2>1. z = heap.blocks[s].size /\ p = heap.blocks[s].prev /\ heap' = Insert(heap, s, z, p)
    BY <1>1
  <2> HIDE DEF s, z, p
  <2> QED
    BY <1>2, <2>1, InsertKeeps
<1>4. \A q \in live' : q \in live /\ q.at # s
  BY <1>1 DEF IInv, LiveOK
<1>5. LiveOK(heap', live')
  <2>1. \A q \in live' : q \in [at : 0 .. Size - 1, len : Lens] /\ Held(heap', q)
    BY <1>3, <1>4 DEF IInv, LiveOK, Held, Flipped
  <2>2. ASSUME NEW t \in Starts(heap'), ~heap'.blocks[t].free PROVE \E q \in live' : q.at = t
    <3>1. t \in Starts(heap) /\ t # s /\ ~heap.blocks[t].free
      BY <1>3, <2>2 DEF Flipped
    <3>2. PICK q \in live : q.at = t
      BY <3>1 DEF IInv, LiveOK
    <3> QED
      BY <1>1, <3>1, <3>2
  <2>3. \A p, q \in live' : p.at = q.at => p = q
    BY <1>4 DEF IInv, LiveOK
  <2> QED
    BY <2>1, <2>2, <2>3 DEF LiveOK
<1> QED
  BY <1>1, <1>2, <1>3, <1>5 DEF IInv, Good, Sound, Flipped

LEMMA MergeLeftKeeps ==
  ASSUME IInv, MergeLeft
  PROVE  IInv' /\ live' = live
<1>1. pc = "left" /\ heap' = heap /\ live' = live /\ Linked(heap) /\ cur \in Starts(heap)
  BY DEF MergeLeft, IInv
<1>2. CASE heap.blocks[cur].prev # None /\ heap.blocks[heap.blocks[cur].prev].free
  <2>1. cur' = heap.blocks[cur].prev /\ pc' = pc
    BY <1>2 DEF MergeLeft
  <2>2. cur # 0
    BY <1>1, <1>2 DEF Linked
  <2>3. heap.blocks[cur].prev \in Starts(heap)
    BY <1>1, <2>2 DEF Linked, LinkOK
  <2> QED
    BY <1>1, <1>2, <2>1, <2>3 DEF IInv
<1>3. CASE ~(heap.blocks[cur].prev # None /\ heap.blocks[heap.blocks[cur].prev].free)
  <2>1. cur' = cur /\ pc' = "right"
    BY <1>3 DEF MergeLeft
  <2>2. LinkedBut(heap, Next(heap, cur))
    BY <1>1 DEF Linked, LinkedBut
  <2> QED
    BY <1>1, <2>1, <2>2 DEF IInv
<1> QED
  BY <1>2, <1>3

LEMMA MergeRightKeeps ==
  ASSUME IInv, MergeRight
  PROVE  IInv' /\ live' = live
<1> DEFINE n == Next(heap, cur)
<1>1. /\ pc = "right" /\ live' = live /\ cur' = cur
      /\ cur \in Starts(heap) /\ heap.blocks[cur].free /\ LinkedBut(heap, n)
      /\ Shape(heap) /\ Tiles(heap) /\ heap.lists = Listed(heap) /\ LiveOK(heap, live)
  BY DEF MergeRight, IInv, Sound
<1>2. CASE n \in Starts(heap) /\ heap.blocks[n].free
  <2>1. heap' = Merge(heap, cur, n) /\ pc' = pc
    BY <1>2 DEF MergeRight
  <2>2. n = Next(heap, cur)
    OBVIOUS
  <2> HIDE DEF n
  <2>3. /\ Shape(heap') /\ Tiles(heap') /\ Next(heap', cur) = Next(heap, n)
        /\ LinkedBut(heap', Next(heap', cur))
        /\ Starts(heap') = Starts(heap) \ {n} /\ n # cur /\ heap'.blocks[cur].free = TRUE
        /\ \A x \in Starts(heap) : x # cur /\ x # n => heap'.blocks[x] = heap.blocks[x]
    <3>1. Swallowed(heap, cur, n, heap')
      BY <1>1, <1>2, <2>1, <2>2, MergeKeeps
    <3> QED
      BY <3>1 DEF Swallowed
  <2>4. heap'.lists = Listed(heap')
    BY <1>1, <1>2, <2>1, <2>3, MergeLists
  <2>5. LiveOK(heap', live')
    <3>1. \A r \in live : Held(heap', r)
      BY <1>1, <1>2, <2>3 DEF LiveOK, Held
    <3>2. ASSUME NEW t \in Starts(heap'), ~heap'.blocks[t].free PROVE \E q \in live : q.at = t
      <4>1. t \in Starts(heap) /\ ~heap.blocks[t].free
        BY <2>3, <3>2
      <4> QED
        BY <1>1, <4>1 DEF LiveOK
    <3> QED
      BY <1>1, <3>1, <3>2 DEF LiveOK
  <2> QED
    BY <1>1, <2>1, <2>3, <2>4, <2>5 DEF IInv, Sound
<1>3. CASE ~(n \in Starts(heap) /\ heap.blocks[n].free)
  <2>1. heap' = Relink(heap, n, cur) /\ pc' = "idle"
    BY <1>3 DEF MergeRight
  <2>2. n = Next(heap, cur) /\ n # 0
    BY <1>1 DEF Next, Shape
  <2>3. /\ Starts(heap') = Starts(heap)
        /\ \A x \in Starts(heap) : heap'.blocks[x].size = heap.blocks[x].size
        /\ \A x \in Starts(heap) : heap'.blocks[x].free = heap.blocks[x].free
        /\ \A x \in Starts(heap) : x # n => heap'.blocks[x].prev = heap.blocks[x].prev
        /\ n \in Starts(heap) => heap'.blocks[n].prev = cur
    <3> HIDE DEF n
    <3> QED
      BY <2>1 DEF Relink, Starts
  <2>4. heap'.lists = Listed(heap')
    <3> HIDE DEF n
    <3> QED
      BY <1>1, <2>1, RelinkLists
  <2> HIDE DEF n
  <2>5. \A x \in Starts(heap) : Next(heap', x) = Next(heap, x)
    BY <2>3 DEF Next
  <2>6. Shape(heap')
    <3>1. \A x \in Starts(heap) : heap'.blocks[x].prev \in {None} \cup 0 .. Size - 1
      BY <1>1, <2>3 DEF Shape
    <3> QED
      BY <1>1, <2>3, <3>1 DEF Shape
  <2>7. Tiles(heap')
    BY <1>1, <2>3, <2>5 DEF Tiles
  <2>8. Linked(heap')
    <3>1. heap'.blocks[0].prev = None
      BY <1>1, <2>2, <2>3 DEF LinkedBut, Shape
    <3>2. ASSUME NEW x \in Starts(heap') \ {0} PROVE LinkOK(heap', x)
      <4>1. CASE x = n
        BY <1>1, <2>2, <2>3, <2>5, <4>1 DEF LinkOK
      <4>2. CASE x # n
        <5>1. LinkOK(heap, x)
          BY <1>1, <2>3, <4>2 DEF LinkedBut
        <5> QED
          BY <2>3, <2>5, <4>2, <5>1 DEF LinkOK
      <4> QED
        BY <4>1, <4>2
    <3> QED
      BY <3>1, <3>2 DEF Linked
  <2>9. LiveOK(heap', live')
    <3>1. \A r \in live : Held(heap', r)
      BY <1>1, <2>3 DEF LiveOK, Held
    <3> QED
      BY <1>1, <2>3, <3>1 DEF LiveOK
  <2> QED
    BY <1>1, <2>1, <2>3, <2>4, <2>6, <2>7, <2>8, <2>9 DEF IInv, Sound
<1> QED
  BY <1>2, <1>3

LEMMA StepKeeps == IInv /\ [Step]_vars => IInv'
<1> SUFFICES ASSUME IInv, [Step]_vars PROVE IInv'
  OBVIOUS
<1>1. CASE \E len \in Lens, align \in Aligns : Alloc(len, align)
  BY <1>1, AllocKeeps
<1>2. CASE \E r \in live : Free(r)
  BY <1>2, FreeKeeps
<1>3. CASE MergeLeft
  BY <1>3, MergeLeftKeeps
<1>4. CASE MergeRight
  BY <1>4, MergeRightKeeps
<1>5. CASE UNCHANGED vars
  BY <1>5 DEF vars, IInv
<1> QED
  BY <1>1, <1>2, <1>3, <1>4, <1>5 DEF Step

(* The invariant holds of every run.                                       *)
THEOREM Invariance == Spec => []IInv
  BY InitIInv, StepKeeps, PTL DEF Spec

-----------------------------------------------------------------------------
(* What the invariant gives.                                               *)

LEMMA IInvGives == IInv => Tiled /\ LinksRight /\ ListsExact /\ LiveTaken /\ TypeOK
<1> SUFFICES ASSUME IInv PROVE Tiled /\ LinksRight /\ ListsExact /\ LiveTaken /\ TypeOK
  OBVIOUS
<1>1. Shape(heap) /\ Tiles(heap) /\ LiveOK(heap, live)
  BY DEF IInv, Sound
<1>2. Tiled
  BY <1>1 DEF Shape, Tiles, Tiled
<1>3. LinksRight
  BY DEF IInv, Linked, LinkedBut, LinkOK, LinksRight
<1>4. ListsExact
  BY DEF IInv, Sound, ListsExact
<1>5. LiveTaken
  BY <1>1 DEF LiveOK, Held, LiveTaken
<1>6. TypeOK
  BY <1>1 DEF IInv, Shape, LiveOK, TypeOK
<1> QED
  BY <1>2, <1>3, <1>4, <1>5, <1>6

(* Starts, sizes and links stay inside the pool.                           *)
THEOREM TypeCorrect == Spec => []TypeOK
  BY Invariance, IInvGives, PTL

(* alloc() and free() never leave a gap between two blocks, or an overlap. *)
THEOREM TilingKept == Spec => []Tiled
  BY Invariance, IInvGives, PTL

(* A link is wrong for the time _merge_right runs, and for no longer.      *)
THEOREM LinksKept == Spec => []LinksRight
  BY Invariance, IInvGives, PTL

(* list.remove() in _remove_block always finds its block.                  *)
THEOREM ListsKept == Spec => []ListsExact
  BY Invariance, IInvGives, PTL

(* Every region in use is a block of its own, of at least its length.      *)
THEOREM RegionsKept == Spec => []LiveTaken
  BY Invariance, IInvGives, PTL

LEMMA NeedFacts ==
  ASSUME NEW len \in Lens
  PROVE  len \in Nat \ {0} /\ Need(len) \in Nat /\ len <= Need(len)
<1>1. len \in Nat \ {0} /\ BlockSize \in Nat
  BY RequestAssumption, PoolAssumption
<1> QED
  BY <1>1 DEF Need, Larger

LEMMA LiveInPool ==
  ASSUME NEW h, Shape(h), NEW r, Held(h, r), r.len \in Lens
  PROVE  Abstract!InPool(r)
<1>1. r.len \in Nat \ {0} /\ Need(r.len) \in Nat /\ r.len <= Need(r.len)
  BY NeedFacts
<1>2. r.at \in 0 .. Size - 1 /\ Need(r.len) \in 1 .. Size - r.at
  BY DEF Shape, Held
<1> QED
  BY <1>1, <1>2, PoolAssumption DEF Abstract!InPool

LEMMA LiveApart ==
  ASSUME NEW h, Shape(h), Tiles(h), NEW q, NEW r, Held(h, q), Held(h, r), q.at # r.at,
         q.len \in Lens, r.len \in Lens
  PROVE  Abstract!Apart(q, r)
<1>1. /\ q.len \in Nat /\ Need(q.len) \in Nat /\ q.len <= Need(q.len)
      /\ r.len \in Nat /\ Need(r.len) \in Nat /\ r.len <= Need(r.len)
  BY NeedFacts
<1>2. /\ q.at \in Starts(h) /\ Next(h, q.at) = q.at + Need(q.len)
      /\ r.at \in Starts(h) /\ Next(h, r.at) = r.at + Need(r.len)
  BY DEF Held, Next
<1>3. q.at \in Int /\ r.at \in Int
  BY <1>2 DEF Shape
<1>4. q.at < r.at => q.at + Need(q.len) <= r.at
  BY <1>2 DEF Tiles
<1>5. r.at < q.at => r.at + Need(r.len) <= q.at
  BY <1>2 DEF Tiles
<1> QED
  BY <1>1, <1>3, <1>4, <1>5 DEF Abstract!Apart

(* Every step of the allocator is a step of Regions or leaves the regions  *)
(* in use alone.                                                           *)
LEMMA StepRefines == IInv /\ IInv' /\ [Step]_vars => [Abstract!Give \/ Abstract!Return]_live
<1> SUFFICES ASSUME IInv, IInv', [Step]_vars
             PROVE  Abstract!Give \/ Abstract!Return \/ live' = live
  OBVIOUS
<1>1. ASSUME NEW len \in Lens, NEW align \in Aligns, Alloc(len, align) PROVE Abstract!Give
  <2>1. PICK r \in live' \ live : live' = live \cup {r}
    BY <1>1, AllocKeeps
  <2>2. Shape(heap') /\ Tiles(heap') /\ LiveOK(heap', live')
    BY DEF IInv, Sound
  <2>3. r \in live' /\ Held(heap', r) /\ r.len \in Lens
    BY <2>1, <2>2 DEF LiveOK
  <2>4. ASSUME NEW q \in live PROVE Abstract!Apart(r, q)
    <3>1. q \in live' /\ q # r
      BY <2>1
    <3>2. q.at # r.at /\ Held(heap', q) /\ q.len \in Lens
      BY <2>1, <2>2, <3>1 DEF LiveOK
    <3>3. \A h : Shape(h) /\ Tiles(h) /\ Held(h, r) /\ Held(h, q) => Abstract!Apart(r, q)
      BY <2>3, <3>2, LiveApart
    <3> QED
      BY <2>2, <2>3, <3>2, <3>3
  <2>5. Abstract!InPool(r)
    <3>1. \A h : Shape(h) /\ Held(h, r) => Abstract!InPool(r)
      BY <2>3, LiveInPool
    <3> QED
      BY <2>2, <2>3, <3>1
  <2> QED
    BY <2>1, <2>4, <2>5 DEF Abstract!Give
<1>2. ASSUME NEW r \in live, Free(r) PROVE Abstract!Return
  BY <1>2 DEF Free, Abstract!Return
<1>3. CASE MergeLeft \/ MergeRight \/ UNCHANGED vars
  BY <1>3, MergeLeftKeeps, MergeRightKeeps DEF vars
<1> QED
  BY <1>1, <1>2, <1>3 DEF Step

(* No client is given memory that overlaps what another one holds.         *)
THEOREM Implements == Spec => ImplementsRegions
<1>1. Init => Abstract!Init
  BY DEF Init, Abstract!Init
<1>2. Spec => []IInv
  BY Invariance
<1> QED
  BY <1>1, <1>2, StepRefines, PTL DEF Spec, ImplementsRegions, Abstract!Spec

-----------------------------------------------------------------------------
(* Coalescing.  While free() runs, two free neighbours may only be the     *)
(* blocks _merge_block is at, or lie in the run of free blocks that begins *)
(* there and that _merge_right will swallow to its end.                    *)

RunsFrom(h, c, s) == c <= s /\ \A x \in Starts(h) : c <= x /\ x <= s => h.blocks[x].free

PairInv ==
  \A s \in Starts(heap) : Pair(heap, s) =>
    /\ pc # "idle"
    /\ RunsFrom(heap, cur, s) \/ (pc = "left" /\ Next(heap, s) = cur)

LEMMA PairInit == Init => PairInv
<1> SUFFICES ASSUME Init, NEW s \in Starts(heap), Pair(heap, s) PROVE FALSE
  BY DEF PairInv
<1>1. Starts(heap) = {0} /\ heap.blocks[0].size = Size
  <2>1. heap = Insert(Empty, 0, Size, None) /\ Starts(Empty) = {0}
    BY DEF Init, Empty, Starts
  <2> QED
    BY <2>1 DEF Insert, Starts
<1>2. Next(heap, s) = 0 /\ Next(heap, s) = Size
  BY <1>1, PoolAssumption DEF Pair, Next
<1> QED
  BY <1>2, PoolAssumption

LEMMA PairAlloc ==
  ASSUME IInv, PairInv, NEW len \in Lens, NEW align \in Aligns, Alloc(len, align)
  PROVE  PairInv'
<1>1. PICK e \in Found(heap, SearchSize(len, align)) :
        /\ heap.blocks[e[2]].size >= SearchSize(len, align)
        /\ heap' = Carve(heap, e[2], len, align)
  BY DEF Alloc
<1>2. Good(heap) /\ Pairless(heap)
  BY DEF Alloc, IInv, Sound, Good, PairInv, Pairless
<1>3. e \in Listed(heap)
  BY <1>2 DEF Found, Candidates, Good
<1>4. e[2] \in Starts(heap) /\ heap.blocks[e[2]].free
  BY <1>3 DEF Listed
<1>5. PICK s \in Starts(heap) : s = e[2]
  BY <1>4
<1>6. PICK b : b = RoundUp(s, align)
  OBVIOUS
<1>7. Carved(heap, s, len, Carve(heap, s, len, align), b)
  BY <1>1, <1>2, <1>4, <1>5, <1>6, CarveKeeps
<1>8. Pairless(heap')
  BY <1>1, <1>2, <1>5, <1>7 DEF Carved
<1> QED
  BY <1>8 DEF PairInv, Pairless

LEMMA PairFree ==
  ASSUME IInv, PairInv, NEW r \in live, Free(r)
  PROVE  PairInv'
<1>1. PICK s \in Starts(heap) : s = r.at /\ heap.blocks[s].free = FALSE
  <2>1. Held(heap, r)
    BY DEF IInv, LiveOK
  <2>2. r.at \in Starts(heap) /\ heap.blocks[r.at].free = FALSE
    BY <2>1 DEF Held, IInv, Sound, Shape
  <2> QED
    BY <2>2
<1>2. Good(heap) /\ Pairless(heap)
  BY DEF Free, IInv, Sound, Good, PairInv, Pairless
<1>3. PICK z, p : z = heap.blocks[s].size /\ p = heap.blocks[s].prev
  OBVIOUS
<1>4. heap' = Insert(heap, s, z, p) /\ pc' = "left" /\ cur' = s
  BY <1>1, <1>3 DEF Free
<1>5. Flipped(heap, s, TRUE, heap')
  BY <1>1, <1>2, <1>3, <1>4, InsertKeeps
<1>6. ASSUME NEW x \in Starts(heap'), Pair(heap', x), Next(heap', x) # s PROVE x = s
  <2>1. x \in Starts(heap) /\ Next(heap', x) = Next(heap, x) /\ Next(heap, x) \in Starts(heap)
    BY <1>5, <1>6 DEF Flipped, Next, Pair
  <2>2. x # s => Pair(heap, x)
    BY <1>5, <1>6, <2>1 DEF Flipped, Pair
  <2> QED
    BY <1>2, <2>1, <2>2 DEF Pairless
<1>7. RunsFrom(heap', s, s)
  <2>1. Starts(heap') = Starts(heap) /\ Starts(heap) \subseteq Int /\ heap'.blocks[s].free = TRUE
    BY <1>2, <1>5 DEF Good, Shape, Flipped
  <2> QED
    BY <2>1 DEF RunsFrom
<1> QED
  BY <1>4, <1>6, <1>7 DEF PairInv

(* A step back goes to the only free block in front.                       *)
LEMMA PairLeft ==
  ASSUME IInv, PairInv, MergeLeft
  PROVE  PairInv'
<1>1. /\ pc = "left" /\ heap' = heap /\ cur \in Starts(heap) /\ Linked(heap)
      /\ Shape(heap) /\ Tiles(heap) /\ heap.blocks[cur].free
  BY DEF MergeLeft, IInv, Sound
<1>2. ASSUME NEW s \in Starts(heap), Next(heap, s) = cur
      PROVE  s = heap.blocks[cur].prev /\ s # None
  <2>1. s < cur /\ s \in 0 .. Size - 1 /\ Size \in Nat
    BY <1>1, <1>2, PoolAssumption DEF Shape, Next
  <2>2. heap.blocks[cur].prev \in Starts(heap) /\ Next(heap, heap.blocks[cur].prev) = cur
    BY <1>1, <2>1 DEF Linked, LinkOK
  <2>3. \A t \in Starts(heap) : Next(heap, t) = cur => t < cur /\ t \in Int /\ cur \in Int
    BY <1>1 DEF Shape, Next
  <2>4. ~(s < heap.blocks[cur].prev) /\ ~(heap.blocks[cur].prev < s)
    BY <1>1, <1>2, <2>2, <2>3 DEF Tiles
  <2> QED
    BY <1>1, <2>1, <2>2, <2>4 DEF None, Shape
<1>3. CASE heap.blocks[cur].prev # None /\ heap.blocks[heap.blocks[cur].prev].free
  <2>1. PICK p : p = heap.blocks[cur].prev
    OBVIOUS
  <2>2. cur' = p /\ pc' = "left"
    BY <1>1, <1>3, <2>1 DEF MergeLeft
  <2>3. p \in Starts(heap) /\ Next(heap, p) = cur /\ heap.blocks[p].free
    BY <1>1, <1>3, <2>1 DEF Linked, LinkOK
  <2>4. Starts(heap) \subseteq Int /\ p < cur
    BY <1>1, <2>3 DEF Shape, Next
  <2>5. \A x \in Starts(heap) : p <= x /\ x # p => cur <= x
    BY <1>1, <2>3, <2>4 DEF Tiles
  <2>6. ASSUME NEW s \in Starts(heap), Pair(heap, s) PROVE RunsFrom(heap, p, s)
    <3>1. CASE RunsFrom(heap, cur, s)
      BY <1>1, <2>3, <2>4, <2>5, <3>1 DEF RunsFrom
    <3>2. CASE Next(heap, s) = cur
      <4>1. s = p
        BY <1>2, <2>1, <3>2
      <4> QED
        BY <2>3, <2>4, <4>1 DEF RunsFrom
    <3> QED
      BY <2>6, <3>1, <3>2 DEF PairInv
  <2> QED
    BY <1>1, <2>2, <2>6 DEF PairInv
<1>4. CASE ~(heap.blocks[cur].prev # None /\ heap.blocks[heap.blocks[cur].prev].free)
  <2>1. cur' = cur /\ pc' = "right"
    BY <1>1, <1>4 DEF MergeLeft
  <2>2. ASSUME NEW s \in Starts(heap), Pair(heap, s) PROVE Next(heap, s) # cur
    BY <1>2, <1>4, <2>2 DEF Pair
  <2> QED
    BY <1>1, <2>1, <2>2 DEF PairInv
<1> QED
  BY <1>3, <1>4

(* A block swallowed makes the run shorter; where the run ends, nothing    *)
(* with a free neighbour is left.                                          *)
LEMMA PairRight ==
  ASSUME IInv, PairInv, MergeRight
  PROVE  PairInv'
<1>1. PICK n : n = Next(heap, cur)
  OBVIOUS
<1>2. /\ pc = "right" /\ cur' = cur /\ cur \in Starts(heap) /\ heap.blocks[cur].free
      /\ LinkedBut(heap, n) /\ Shape(heap) /\ Tiles(heap)
  BY <1>1 DEF MergeRight, IInv, Sound
<1>3. Starts(heap) \subseteq Int /\ Size \notin Starts(heap)
  BY <1>2, PoolAssumption DEF Shape
<1>4. \A s \in Starts(heap) : Pair(heap, s) => RunsFrom(heap, cur, s)
  BY <1>2 DEF PairInv
<1>5. CASE n \in Starts(heap) /\ heap.blocks[n].free
  <2>1. heap' = Merge(heap, cur, n) /\ pc' = "right"
    BY <1>1, <1>2, <1>5 DEF MergeRight
  <2>2. /\ Starts(heap') = Starts(heap) \ {n} /\ heap'.blocks[cur].free = TRUE /\ n # cur
        /\ \A x \in Starts(heap) : x # cur /\ x # n => heap'.blocks[x] = heap.blocks[x]
    <3>1. Swallowed(heap, cur, n, heap')
      BY <1>1, <1>2, <1>5, <2>1, MergeKeeps
    <3> QED
      BY <3>1 DEF Swallowed
  <2>3. ASSUME NEW s \in Starts(heap'), Pair(heap', s), s # cur PROVE RunsFrom(heap', cur, s)
    <3>1. s \in Starts(heap) /\ s # n /\ Next(heap', s) = Next(heap, s)
      BY <2>2, <2>3 DEF Next
    <3>2. Next(heap, s) \in Starts(heap) /\ heap.blocks[s].free
      BY <2>2, <2>3, <3>1 DEF Pair
    <3>3. heap.blocks[Next(heap, s)].free
      BY <1>2, <2>2, <2>3, <3>1, <3>2 DEF Pair
    <3>4. RunsFrom(heap, cur, s)
      BY <1>4, <3>1, <3>2, <3>3 DEF Pair
    <3> QED
      BY <1>2, <2>2, <3>4 DEF RunsFrom
  <2>4. RunsFrom(heap', cur, cur)
    BY <1>2, <1>3, <2>2 DEF RunsFrom
  <2> QED
    BY <1>2, <2>1, <2>3, <2>4 DEF PairInv
<1>6. CASE ~(n \in Starts(heap) /\ heap.blocks[n].free)
  <2>1. heap' = Relink(heap, n, cur)
    BY <1>1, <1>6 DEF MergeRight
  <2>2. /\ Starts(heap') = Starts(heap)
        /\ \A x \in Starts(heap) : heap'.blocks[x].size = heap.blocks[x].size
        /\ \A x \in Starts(heap) : heap'.blocks[x].free = heap.blocks[x].free
    BY <2>1 DEF Relink, Starts
  <2>3. ASSUME NEW s \in Starts(heap'), Pair(heap', s) PROVE FALSE
    <3>1. s \in Starts(heap) /\ Next(heap', s) = Next(heap, s) /\ Pair(heap, s)
      BY <2>2, <2>3 DEF Next, Pair
    <3>2. RunsFrom(heap, cur, s)
      BY <1>4, <3>1
    <3>3. s # cur
      BY <1>1, <1>6, <3>1 DEF Pair
    <3>4. cur < s
      BY <1>2, <1>3, <3>1, <3>2, <3>3 DEF RunsFrom
    <3>5. n <= s
      BY <1>1, <1>2, <3>1, <3>4 DEF Tiles
    <3>6. n \in Starts(heap)
      <4>1. s < Size /\ Size \in Int
        BY <1>2, <3>1, PoolAssumption DEF Shape
      <4> QED
        BY <1>1, <1>2, <1>3, <3>1, <3>5, <4>1 DEF Tiles
    <3>7. cur <= n
      BY <1>1, <1>2, <3>6 DEF Shape, Next
    <3> QED
      BY <1>6, <3>2, <3>5, <3>6, <3>7 DEF RunsFrom
  <2> QED
    BY <2>3 DEF PairInv
<1> QED
  BY <1>5, <1>6

LEMMA PairStep == IInv /\ PairInv /\ [Step]_vars => PairInv'
<1> SUFFICES ASSUME IInv, PairInv, [Step]_vars PROVE PairInv'
  OBVIOUS
<1>1. CASE \E len \in Lens, align \in Aligns : Alloc(len, align)
  BY <1>1, PairAlloc
<1>2. CASE \E r \in live : Free(r)
  BY <1>2, PairFree
<1>3. CASE MergeLeft
  BY <1>3, PairLeft
<1>4. CASE MergeRight
  BY <1>4, PairRight
<1>5. CASE UNCHANGED vars
  BY <1>5 DEF vars, PairInv
<1> QED
  BY <1>1, <1>2, <1>3, <1>4, <1>5 DEF Step

(* No two neighbours are free once free() has returned.                    *)
THEOREM CoalescedKept == Spec => []Coalesced
<1>1. PairInv => Coalesced
  BY DEF PairInv, Pair, Coalesced
<1> QED
  BY <1>1, Invariance, PairInit, PairStep, PTL DEF Spec

-----------------------------------------------------------------------------
(* Size classes.  The provers know no powers: that each is twice the one   *)
(* before is a hypothesis, and what follows from it is proved of a table   *)
(* of powers, by least counterexample.                                     *)

Doubling == \A k \in Nat : 2 ^ (k + 1) = 2 * 2 ^ k

Powers(p) == p[0] = 1 /\ \A k \in Nat : p[k + 1] = 2 * p[k]

LEMMA Least ==
  ASSUME NEW X \in SUBSET Nat, X # {}
  PROVE  \E x \in X : x \in Nat /\ (x # 0 => x - 1 \in Nat \ X) /\ \A y \in X : x <= y
<1>1. PICK x \in X : \A y \in X : ~(<<y, x>> \in OpToRel(<, Nat))
  BY NatLessThanWellFounded, WFMin
<1>2. ASSUME NEW y \in X PROVE ~(y < x)
  <2>1. ~(<<y, x>> \in OpToRel(<, Nat)) /\ <<y, x>> \in Nat \X Nat
    BY <1>1
  <2>2. <<y, x>>[1] = y /\ <<y, x>>[2] = x
    OBVIOUS
  <2> QED
    BY <2>1, <2>2 DEF OpToRel
<1>3. x # 0 => x - 1 \in Nat /\ x - 1 < x
  OBVIOUS
<1> QED
  BY <1>2, <1>3

LEMMA PowerBound ==
  ASSUME NEW p, Powers(p)
  PROVE  \A k \in Nat : p[k] \in Nat /\ k < p[k]
<1> DEFINE X == {k \in Nat : ~(p[k] \in Nat /\ k < p[k])}
<1>1. ASSUME X # {} PROVE FALSE
  <2>1. PICK x \in X : x \in Nat /\ (x # 0 => x - 1 \in Nat \ X)
    BY <1>1, Least
  <2>2. x # 0
    BY <2>1 DEF Powers
  <2>3. x - 1 \in Nat /\ p[x - 1] \in Nat /\ x - 1 < p[x - 1]
    BY <2>1, <2>2
  <2>4. p[(x - 1) + 1] = 2 * p[x - 1] /\ (x - 1) + 1 = x
    BY <2>1, <2>3 DEF Powers
  <2> QED
    BY <2>1, <2>3, <2>4
<1> QED
  BY <1>1

LEMMA PowerTimes ==
  ASSUME NEW p, Powers(p), NEW k \in Nat
  PROVE  \A m \in Nat : p[k + m] = p[k] * p[m]
<1> DEFINE X == {m \in Nat : p[k + m] # p[k] * p[m]}
<1>1. ASSUME X # {} PROVE FALSE
  <2>1. PICK x \in X : x \in Nat /\ (x # 0 => x - 1 \in Nat \ X)
    BY <1>1, Least
  <2>2. x # 0
    BY <2>1, PowerBound DEF Powers
  <2>3. x - 1 \in Nat /\ p[k + (x - 1)] = p[k] * p[x - 1]
    BY <2>1, <2>2
  <2>4. p[(x - 1) + 1] = 2 * p[x - 1] /\ p[(k + (x - 1)) + 1] = 2 * p[k + (x - 1)]
    BY <2>3 DEF Powers
  <2>5. (x - 1) + 1 = x /\ (k + (x - 1)) + 1 = k + x
    BY <2>1
  <2>6. p[x] = 2 * p[x - 1] /\ p[k + x] = 2 * (p[k] * p[x - 1])
    BY <2>3, <2>4, <2>5
  <2>7. p[k] \in Nat /\ p[x - 1] \in Nat
    BY <2>3, PowerBound
  <2>8. 2 * (p[k] * p[x - 1]) = p[k] * (2 * p[x - 1])
    BY <2>7
  <2> QED
    BY <2>1, <2>6, <2>8
<1> QED
  BY <1>1

LEMMA PowerGrows ==
  ASSUME NEW p, Powers(p), NEW j \in Nat, NEW k \in Nat, j <= k
  PROVE  p[j] <= p[k]
<1>1. k - j \in Nat /\ j + (k - j) = k
  OBVIOUS
<1>2. p[k] = p[j] * p[k - j]
  BY <1>1, PowerTimes
<1>3. p[j] \in Nat /\ p[k - j] \in Nat \ {0}
  BY <1>1, PowerBound
<1>4. \A a \in Nat, b \in Nat \ {0} : a <= a * b
  OBVIOUS
<1> QED
  BY <1>2, <1>3, <1>4

(* The bit length of a positive number, against the table.                 *)
IsBitLen(p, n, b) == b \in Nat \ {0} /\ n < p[b] /\ p[b - 1] <= n

LEMMA BitLenOnly ==
  ASSUME NEW p, Powers(p), NEW n \in Nat, NEW b, NEW c, IsBitLen(p, n, b), IsBitLen(p, n, c)
  PROVE  b = c
<1>1. \A d, e \in Nat : d < e /\ IsBitLen(p, n, d) /\ IsBitLen(p, n, e) => FALSE
  <2> SUFFICES ASSUME NEW d \in Nat, NEW e \in Nat, d < e, IsBitLen(p, n, d), IsBitLen(p, n, e)
               PROVE  FALSE
    OBVIOUS
  <2>1. d <= e - 1 /\ e - 1 \in Nat
    OBVIOUS
  <2>2. p[d] <= p[e - 1] /\ p[d] \in Nat /\ p[e - 1] \in Nat
    BY <2>1, PowerGrows, PowerBound
  <2> QED
    BY <2>2 DEF IsBitLen
<1>2. b \in Nat /\ c \in Nat
  BY DEF IsBitLen
<1> QED
  BY <1>1, <1>2

LEMMA BitLenExists ==
  ASSUME NEW p, Powers(p), NEW n \in Nat \ {0}
  PROVE  ~(n < p[0]) /\ \E b \in 0 .. n : IsBitLen(p, n, b)
<1> DEFINE X == {b \in Nat : n < p[b]}
<1>1. n < p[n] /\ ~(n < p[0])
  BY PowerBound DEF Powers
<1>2. PICK b \in X : b \in Nat /\ (b # 0 => b - 1 \in Nat \ X) /\ b <= n
  <2>1. n \in X /\ X \in SUBSET Nat
    BY <1>1
  <2> HIDE DEF X
  <2> QED
    BY <2>1, Least
<1>3. b # 0 /\ n < p[b]
  BY <1>1, <1>2
<1>4. b - 1 \in Nat /\ ~(n < p[b - 1]) /\ p[b - 1] \in Nat
  BY <1>2, <1>3, PowerBound
<1> QED
  BY <1>1, <1>2, <1>3, <1>4 DEF IsBitLen

LEMMA BitLenIs ==
  ASSUME Doubling
  PROVE  LET p == [k \in Nat |-> 2 ^ k]
         IN  Powers(p) /\ \A n \in Nat \ {0} : IsBitLen(p, n, BitLen(n))
<1> DEFINE p == [k \in Nat |-> 2 ^ k]
<1>1. Powers(p)
  <2>1. 2 ^ 0 = 1
    OBVIOUS
  <2> QED
    BY <2>1 DEF Powers, Doubling
<1>2. \A k \in Nat : p[k] = 2 ^ k
  OBVIOUS
<1> HIDE DEF p
<1>3. ASSUME NEW n \in Nat \ {0} PROVE IsBitLen(p, n, BitLen(n))
  <2>1. PICK b \in 0 .. n : IsBitLen(p, n, b)
    BY <1>1, BitLenExists
  <2>2. n < 2 ^ b /\ (b = 0 \/ 2 ^ (b - 1) <= n)
    BY <1>2, <2>1 DEF IsBitLen
  <2>3. PICK c : c = BitLen(n)
    OBVIOUS
  <2>4. c \in 0 .. n /\ n < 2 ^ c /\ (c = 0 \/ 2 ^ (c - 1) <= n)
    BY <2>2, <2>3 DEF BitLen
  <2>5. c \in Nat /\ n < p[c] /\ (c # 0 => p[c - 1] <= n)
    BY <1>2, <2>4
  <2>6. c # 0
    BY <1>1, <2>5, BitLenExists
  <2> QED
    BY <2>3, <2>5, <2>6 DEF IsBitLen
<1> QED
  BY <1>1, <1>3 DEF p

LEMMA TimesGrows ==
  ASSUME NEW w \in Nat, NEW a \in Nat, NEW b \in Nat, a <= b
  PROVE  a * w \in Nat /\ b * w \in Nat /\ a * w <= b * w
<1>1. PICK d \in Nat : b = a + d
  <2>1. b - a \in Nat /\ b = a + (b - a)
    OBVIOUS
  <2> QED
    BY <2>1
<1>2. (a + d) * w = a * w + d * w /\ a * w \in Nat /\ d * w \in Nat
  OBVIOUS
<1> QED
  BY <1>1, <1>2

LEMMA DivAtLeast ==
  ASSUME NEW x \in Nat, NEW w \in Nat \ {0}, NEW k \in Nat
  PROVE  x \div w \in Nat /\ (x \div w >= k <=> x >= k * w)
<1>1. PICK d, m : d = x \div w /\ m = x % w
  OBVIOUS
<1>2. d \in Nat /\ m \in 0 .. w - 1 /\ x = w * d + m
  BY <1>1
<1>3. w * d = d * w /\ (d + 1) * w = d * w + w /\ d * w \in Nat
  BY <1>2
<1>4. d >= k => d * w >= k * w /\ k * w \in Nat
  BY <1>2, TimesGrows
<1>5. ASSUME ~(d >= k) PROVE (d + 1) * w <= k * w /\ k * w \in Nat
  <2>1. d + 1 \in Nat /\ d + 1 <= k
    BY <1>2, <1>5
  <2> QED
    BY <2>1, TimesGrows
<1> QED
  BY <1>1, <1>2, <1>3, <1>4, <1>5

(* The size searched for is a multiple of the width of the classes of the  *)
(* padded request, and no more than twice the power of two below it.       *)
SearchIs(p, size, b, w, h, q) ==
  /\ b \in Nat /\ b >= L2 /\ w = p[b - L2] /\ w \in Nat \ {0} /\ h \in Nat \ {0}
  /\ p[b - 1] = h * w /\ p[b] = (2 * h) * w
  /\ q \in h .. 2 * h /\ size = q * w

LEMMA SearchFacts ==
  ASSUME NEW p, Powers(p), \A k \in Nat : p[k] = 2 ^ k,
         \A n \in Nat \ {0} : IsBitLen(p, n, BitLen(n)),
         NEW len \in Lens, NEW align \in Aligns
  PROVE  \E b, w, h, q : SearchIs(p, SearchSize(len, align), b, w, h, q)
<1>1. PICK n : n = Padded(len, align)
  OBVIOUS
<1>2. n \in Nat \ {0} /\ n >= p[L2 - 1] /\ L2 \in Nat \ {0}
  <2>1. p[L2 - 1] = 2 ^ (L2 - 1)
    BY PoolAssumption
  <2>2. len \in Nat /\ align \in Nat \ {0} /\ BlockSize \in Nat \ {0}
    BY RequestAssumption, PoolAssumption
  <2>3. n \in Nat \ {0} /\ n >= BlockSize
    BY <1>1, <2>2 DEF Padded, Need, Larger
  <2>4. L2 - 1 \in Nat
    BY PoolAssumption
  <2>5. p[L2 - 1] \in Nat
    BY <2>4, PowerBound
  <2> QED
    BY <2>1, <2>2, <2>3, <2>5, PoolAssumption
<1>3. PICK b : b = BitLen(n) /\ b \in Nat \ {0} /\ n < p[b] /\ p[b - 1] <= n
  BY <1>2 DEF IsBitLen
<1>4. b >= L2
  <2> SUFFICES ASSUME b <= L2 - 1 PROVE FALSE
    BY <1>2, <1>3
  <2>1. L2 - 1 \in Nat /\ p[b] <= p[L2 - 1]
    BY <1>2, <1>3, PowerGrows
  <2> QED
    BY <1>2, <1>3, <2>1, PowerBound
<1>5. PICK w : w = p[b - L2] /\ w \in Nat \ {0} /\ w = Width(n)
  <2>1. b - L2 \in Nat
    BY <1>2, <1>3, <1>4
  <2>2. p[b - L2] \in Nat \ {0} /\ p[b - L2] = 2 ^ (b - L2)
    BY <2>1, PowerBound
  <2> QED
    BY <1>3, <2>2 DEF Width
<1>6. PICK h : h = p[L2 - 1] /\ h \in Nat \ {0} /\ p[b - 1] = h * w /\ p[b] = (2 * h) * w
  <2>1. L2 - 1 \in Nat /\ b - L2 \in Nat /\ (L2 - 1) + (b - L2) = b - 1 /\ b - 1 \in Nat
    BY <1>2, <1>3, <1>4
  <2>2. p[L2 - 1] \in Nat \ {0}
    BY <2>1, PowerBound
  <2>3. p[b - 1] = p[L2 - 1] * w
    <3>1. p[(L2 - 1) + (b - L2)] = p[L2 - 1] * p[b - L2]
      BY <2>1, PowerTimes
    <3> QED
      BY <1>5, <2>1, <3>1
  <2>4. p[b] = 2 * p[b - 1]
    <3>1. \A k \in Nat : p[k + 1] = 2 * p[k]
      BY DEF Powers
    <3>2. PICK k \in Nat : k = b - 1 /\ k + 1 = b
      BY <1>3, <2>1
    <3>3. p[k + 1] = 2 * p[k]
      BY <3>1
    <3> QED
      BY <3>2, <3>3
  <2>5. \A x \in Nat : 2 * (x * w) = (2 * x) * w
    BY <1>5
  <2> QED
    BY <2>2, <2>3, <2>4, <2>5
<1>7. PICK q, m : q = (n + w - 1) \div w /\ m = (n + w - 1) % w
  OBVIOUS
<1>8. q \in Nat /\ m \in 0 .. w - 1 /\ n + w - 1 = q * w + m /\ q * w \in Nat
  <2>1. n + w - 1 \in Nat
    BY <1>2, <1>5
  <2>2. PICK x \in Nat : x = n + w - 1
    BY <2>1
  <2>3. q = x \div w /\ m = x % w
    BY <1>7, <2>2
  <2>4. w \in Nat \ {0}
    BY <1>5
  <2>5. q \in Nat /\ m \in 0 .. w - 1 /\ x = w * q + m
    BY <2>3, <2>4
  <2>6. w * q = q * w /\ q * w \in Nat
    BY <2>4, <2>5
  <2> QED
    BY <2>2, <2>5, <2>6
<1>9. SearchSize(len, align) = q * w
  BY <1>1, <1>5, <1>7 DEF SearchSize, RoundUp
<1>10. q >= h
  <2> SUFFICES ASSUME q + 1 <= h PROVE FALSE
    BY <1>6, <1>8
  <2>1. (q + 1) * w <= h * w /\ h * w \in Nat /\ (q + 1) * w = q * w + w
    BY <1>5, <1>6, <1>8, TimesGrows
  <2> QED
    BY <1>2, <1>3, <1>5, <1>6, <1>8, <2>1
<1>11. q <= 2 * h
  <2> SUFFICES ASSUME 2 * h + 1 <= q PROVE FALSE
    BY <1>6, <1>8
  <2>1. 2 * h \in Nat /\ 2 * h + 1 \in Nat
    BY <1>6
  <2>2. (2 * h + 1) * w <= q * w
    BY <1>5, <1>8, <2>1, TimesGrows
  <2>3. (2 * h + 1) * w = (2 * h) * w + w /\ (2 * h) * w \in Nat
    BY <1>5, <2>1
  <2> QED
    BY <1>2, <1>3, <1>5, <1>6, <1>8, <2>2, <2>3
<1> QED
  <2>1. q \in h .. 2 * h
    BY <1>6, <1>8, <1>10, <1>11
  <2>2. SearchIs(p, SearchSize(len, align), b, w, h, q)
    BY <1>3, <1>4, <1>5, <1>6, <1>9, <2>1 DEF SearchIs
  <2> QED
    BY <2>2

(* A block is in a class the search looks at exactly when it is as large.  *)
LEMMA ClassOrder ==
  ASSUME Doubling, NEW len \in Lens, NEW align \in Aligns, NEW t \in Nat \ {0}
  PROVE  NotBefore(Class(t), Class(SearchSize(len, align))) <=> t >= SearchSize(len, align)
<1>1. PICK p : /\ Powers(p) /\ \A k \in Nat : p[k] = 2 ^ k
               /\ \A n \in Nat \ {0} : IsBitLen(p, n, BitLen(n))
  <2>1. \A k \in Nat : [j \in Nat |-> 2 ^ j][k] = 2 ^ k
    OBVIOUS
  <2> QED
    BY <2>1, BitLenIs
<1>2. PICK size : size = SearchSize(len, align)
  OBVIOUS
<1>3. PICK b, w, h, q : SearchIs(p, size, b, w, h, q)
  BY <1>1, <1>2, SearchFacts
<1>4. /\ b \in Nat \ {0} /\ b >= L2 /\ L2 \in Nat \ {0} /\ w = p[b - L2] /\ w \in Nat \ {0}
      /\ h \in Nat \ {0} /\ p[b - 1] = h * w /\ p[b] = (2 * h) * w
      /\ q \in Nat /\ h <= q /\ q <= 2 * h /\ size = q * w
  BY <1>3, PoolAssumption DEF SearchIs
<1>5. size \in Nat \ {0} /\ p[b - 1] <= size /\ size <= p[b] /\ p[b - 1] \in Nat /\ p[b] \in Nat
  <2>1. h * w <= q * w /\ q * w \in Nat /\ h * w \in Nat
    BY <1>4, TimesGrows
  <2>2. 2 * h \in Nat /\ q * w <= (2 * h) * w /\ (2 * h) * w \in Nat
    BY <1>4, TimesGrows
  <2>3. p[b - 1] > 0
    BY <1>1, <1>4, PowerBound
  <2> QED
    BY <1>4, <2>1, <2>2, <2>3
<1>6. PICK c : c = BitLen(t) /\ c \in Nat \ {0} /\ t < p[c] /\ p[c - 1] <= t
  BY <1>1 DEF IsBitLen
<1>7. \A j, k \in Nat : j <= k => p[j] <= p[k] /\ p[j] \in Nat /\ p[k] \in Nat
  BY <1>1, PowerGrows, PowerBound
<1>8. \A n \in Nat \ {0}, d \in Nat : BitLen(n) = d /\ d >= L2 => 
        Class(n) = <<d, (n - p[d - 1]) \div p[d - L2]>>
  <2> SUFFICES ASSUME NEW n \in Nat \ {0}, NEW d \in Nat, BitLen(n) = d, d >= L2
               PROVE  Class(n) = <<d, (n - p[d - 1]) \div p[d - L2]>>
    OBVIOUS
  <2>1. d - 1 \in Nat /\ d - L2 \in Nat /\ Larger(0, d - L2) = d - L2
    BY <1>4 DEF Larger
  <2> QED
    BY <1>1, <2>1 DEF Class, Lv1, Lv2
<1>9. CASE size < p[b]
  <2>1. BitLen(size) = b
    <3>1. IsBitLen(p, size, b) /\ IsBitLen(p, size, BitLen(size))
      BY <1>1, <1>4, <1>5, <1>9 DEF IsBitLen
    <3> QED
      BY <1>1, <1>5, <3>1, BitLenOnly
  <2>2. PICK z : z = q - h /\ z \in Nat /\ size - p[b - 1] = z * w
    <3>1. q - h \in Nat
      BY <1>4
    <3>2. PICK z \in Nat : z = q - h /\ q = h + z
      BY <1>4, <3>1
    <3>3. (h + z) * w = h * w + z * w /\ h * w \in Nat /\ z * w \in Nat
      BY <1>4
    <3> QED
      BY <1>4, <3>2, <3>3
  <2>3. Class(size) = <<b, z>>
    <3>1. z * w \in Nat /\ z * w >= z * w /\ ~(z * w >= (z + 1) * w)
      <4>1. z \in Nat /\ w \in Nat \ {0}
        BY <1>4, <2>2
      <4>2. (z + 1) * w = z * w + w /\ z * w \in Nat
        BY <4>1
      <4> QED
        BY <4>1, <4>2
    <3>2. (z * w) \div w \in Nat /\ (z * w) \div w >= z
      BY <1>4, <2>2, <3>1, DivAtLeast
    <3>3. ~((z * w) \div w >= z + 1)
      <4>1. z + 1 \in Nat
        BY <2>2
      <4> QED
        BY <1>4, <3>1, <4>1, DivAtLeast
    <3>4. (z * w) \div w = z
      BY <2>2, <3>2, <3>3
    <3> QED
      BY <1>4, <1>5, <1>8, <2>1, <2>2, <3>4
  <2>4. CASE c = b
    <3>1. Class(t) = <<b, (t - p[b - 1]) \div w>> /\ t - p[b - 1] \in Nat
      <4>1. p[b - 1] <= t /\ BitLen(t) = b
        BY <1>6, <2>4
      <4>2. t - p[b - 1] \in Nat
        BY <1>5, <4>1
      <4>3. b \in Nat /\ b >= L2
        BY <1>4
      <4>4. Class(t) = <<b, (t - p[b - 1]) \div p[b - L2]>>
        BY <1>8, <4>1, <4>3
      <4> QED
        BY <1>4, <4>2, <4>4
    <3>2. (t - p[b - 1]) \div w \in Nat /\ ((t - p[b - 1]) \div w >= z <=> t - p[b - 1] >= z * w)
      BY <1>4, <2>2, <3>1, DivAtLeast
    <3>3. t - p[b - 1] >= size - p[b - 1] <=> t >= size
      BY <1>5
    <3>4. NotBefore(Class(t), Class(size)) <=> (t - p[b - 1]) \div w >= z
      BY <1>4, <2>3, <3>1 DEF NotBefore
    <3> QED
      BY <1>2, <2>2, <3>2, <3>3, <3>4
  <2>5. CASE c # b
    <3>1. NotBefore(Class(t), Class(size)) <=> c > b
      BY <1>6, <2>3, <2>5 DEF NotBefore, Class, Lv1
    <3>2. c > b => t >= p[b]
      <4>1. c > b => c - 1 \in Nat /\ b <= c - 1
        BY <1>4, <1>6
      <4> QED
        BY <1>4, <1>6, <1>7, <4>1
    <3>3. ~(c > b) => t < p[b - 1]
      <4>1. ~(c > b) => c <= b - 1 /\ b - 1 \in Nat
        BY <1>4, <1>6, <2>5
      <4> QED
        BY <1>6, <1>7, <4>1
    <3> QED
      BY <1>2, <1>5, <1>9, <3>1, <3>2, <3>3
  <2> QED
    BY <2>4, <2>5
<1>10. CASE size = p[b]
  <2>1. b + 1 \in Nat /\ p[b + 1] = 2 * p[b] /\ p[b] > 0 /\ (b + 1) - 1 = b
    BY <1>1, <1>4, <1>5, <1>10 DEF Powers
  <2>2. BitLen(size) = b + 1
    <3>1. IsBitLen(p, size, b + 1)
      <4>1. b + 1 \in Nat \ {0} /\ size < p[b + 1] /\ p[(b + 1) - 1] <= size
        BY <1>4, <1>5, <1>10, <2>1
      <4> QED
        BY <4>1 DEF IsBitLen
    <3>2. IsBitLen(p, size, BitLen(size)) /\ size \in Nat
      BY <1>1, <1>5
    <3> QED
      BY <1>1, <3>1, <3>2, BitLenOnly
  <2>3. PICK v : v = p[(b + 1) - L2] /\ v \in Nat \ {0}
    <3>1. (b + 1) - L2 \in Nat
      BY <1>4
    <3> QED
      BY <1>1, <3>1, PowerBound
  <2>4. Class(size) = <<b + 1, 0>>
    <3>1. 0 \div v = 0
      BY <2>3
    <3>2. size - p[b] = 0
      BY <1>5, <1>10
    <3>3. Class(size) = <<b + 1, (size - p[(b + 1) - 1]) \div p[(b + 1) - L2]>>
      BY <1>4, <1>5, <1>8, <2>1, <2>2
    <3> QED
      BY <2>1, <2>3, <3>1, <3>2, <3>3
  <2>5. c >= b + 1 <=> t >= size
    <3>1. c >= b + 1 => t >= p[b]
      <4>1. c >= b + 1 => c - 1 \in Nat /\ b <= c - 1
        BY <1>4, <1>6
      <4> QED
        BY <1>4, <1>6, <1>7, <4>1
    <3>2. ~(c >= b + 1) => t < p[b]
      <4>1. ~(c >= b + 1) => c <= b
        BY <1>4, <1>6
      <4> QED
        BY <1>4, <1>6, <1>7, <4>1
    <3> QED
      BY <1>5, <1>6, <1>10, <3>1, <3>2
  <2>6. CASE c = b + 1
    <3>1. Class(t) = <<b + 1, (t - p[b]) \div v>> /\ t - p[b] \in Nat
      <4>1. p[b] <= t /\ BitLen(t) = b + 1 /\ b + 1 \in Nat /\ b + 1 >= L2
        BY <1>4, <1>6, <2>1, <2>6
      <4>2. t - p[b] \in Nat
        BY <1>5, <4>1
      <4>3. Class(t) = <<b + 1, (t - p[(b + 1) - 1]) \div p[(b + 1) - L2]>>
        BY <1>8, <4>1
      <4> QED
        BY <2>1, <2>3, <4>2, <4>3
    <3>2. (t - p[b]) \div v >= 0
      BY <2>3, <3>1, DivAtLeast
    <3> QED
      BY <1>2, <2>4, <2>5, <2>6, <3>1, <3>2 DEF NotBefore
  <2>7. CASE c # b + 1
    <3>1. NotBefore(Class(t), Class(size)) <=> c > b + 1
      BY <1>6, <2>4, <2>7 DEF NotBefore, Class, Lv1
    <3> QED
      BY <1>2, <1>4, <1>6, <2>5, <2>7, <3>1
  <2> QED
    BY <2>6, <2>7
<1> QED
  BY <1>5, <1>9, <1>10

LEMMA SearchGives == Doubling /\ IInv => SearchExact
<1> SUFFICES ASSUME Doubling, IInv, NEW len \in Lens, NEW align \in Aligns
             PROVE  {e[2] : e \in Candidates(heap, SearchSize(len, align))} =
                      {s \in Starts(heap) : heap.blocks[s].free
                                            /\ heap.blocks[s].size >= SearchSize(len, align)}
  BY DEF SearchExact
<1>1. PICK size : size = SearchSize(len, align)
  OBVIOUS
<1>2. heap.lists = Listed(heap) /\ Shape(heap)
  BY DEF IInv, Sound
<1>3. ASSUME NEW s \in Starts(heap)
      PROVE  NotBefore(Class(heap.blocks[s].size), Class(size)) <=> heap.blocks[s].size >= size
  <2>1. heap.blocks[s].size \in Nat \ {0}
    BY <1>2, PoolAssumption DEF Shape
  <2> QED
    BY <1>1, <2>1, ClassOrder
<1>4. ASSUME NEW e \in Candidates(heap, size)
      PROVE  e[2] \in Starts(heap) /\ heap.blocks[e[2]].free /\ heap.blocks[e[2]].size >= size
  <2>1. e \in Listed(heap) /\ NotBefore(e[1], Class(size))
    BY <1>2, <1>4 DEF Candidates
  <2>2. PICK s \in Starts(heap) : heap.blocks[s].free /\ e = <<Class(heap.blocks[s].size), s>>
    BY <2>1 DEF Listed
  <2>3. e[1] = Class(heap.blocks[s].size) /\ e[2] = s
    BY <2>2
  <2> QED
    BY <1>3, <2>1, <2>2, <2>3
<1>5. ASSUME NEW s \in Starts(heap), heap.blocks[s].free, heap.blocks[s].size >= size
      PROVE  \E e \in Candidates(heap, size) : e[2] = s
  <2>1. PICK e : e = <<Class(heap.blocks[s].size), s>>
    OBVIOUS
  <2>2. e \in Listed(heap) /\ e[1] = Class(heap.blocks[s].size) /\ e[2] = s
    BY <1>5, <2>1 DEF Listed
  <2>3. e \in Candidates(heap, size)
    BY <1>2, <1>3, <1>5, <2>2 DEF Candidates
  <2> QED
    BY <2>2, <2>3
<1> QED
  BY <1>1, <1>4, <1>5

(* The two loops over the size classes offer exactly the free blocks that  *)
(* are large enough: a MemoryError means that there is none, and the       *)
(* assertion "block must be larger" never fails.                           *)
THEOREM SearchKept == Doubling => (Spec => []SearchExact)
<1> SUFFICES ASSUME Doubling PROVE Spec => []SearchExact
  OBVIOUS
<1>1. IInv => SearchExact
  BY SearchGives
<1> QED
  BY <1>1, Invariance, PTL
=============================================================================
