----------------------------- MODULE GspRpcProofs -----------------------------
(***************************************************************************)
(* Proofs about the two message rings of GspRpc, for rings, records and    *)
(* messages of every size.  Receiving: the driver reads what GSP-RM        *)
(* posted, each message once and in order, and runs each sequencer script  *)
(* once.  Sending: GSP-RM finds every request whole, a call is answered by *)
(* its own reply, and the calls are the jobs of SerialJobs.                *)
(*                                                                         *)
(* What the code relies on without a check is a hypothesis by name: of the *)
(* status ring three (StatusRing), each with a run that fails without it,  *)
(* and of the command ring that a request fits (CommandsFit).              *)
(***************************************************************************)
EXTENDS GspRpc, TLAPS, SequenceTheorems

(* Each slot of the status ring has a page of its own: host memory, not    *)
(* the aliased pages of the USB bridge.                                    *)
PagesApart ==
  \A s, t \in 0 .. StatCount - 1 : StatPage[s] = StatPage[t] => s = t

(* No message has one of the lengths for which read_resp steps too short.  *)
StridesExact ==
  /\ \A k \in Events : Stride(EventLen[k]) = Elems(EventLen[k])
  /\ \A k \in CallKinds \cup {"unload"} : Stride(ReplyLen[k]) = Elems(ReplyLen[k])

(* The memory of the status header is zeroed before GSP-RM runs.           *)
HeaderClear == StaleHeaders \subseteq {-1}

StatusRing == PagesApart /\ StridesExact /\ HeaderClear

-----------------------------------------------------------------------------
(* The inductive invariant of the receiving side.                          *)

(* Where the driver may be in each phase, and the header with it.          *)
Control ==
  /\ phase = "sw" => at \in {"idle", "store", "publish", "bell"}
  /\ phase = "sw" <=> gsp = "off"
  /\ phase = "boot" => at \in {"header", "wait", "clock"}
  /\ at = "header" => phase = "boot"
  /\ at = "drain" => phase \in {"init", "main"}
  /\ at \in {"store", "publish", "bell"} => phase \in {"sw", "init", "fini"}
  /\ at \in {"store", "publish"} => rest # <<>>
  /\ phase = "exited" => at = "idle"
  /\ at \in {"wait", "drain", "clock"} => statWrite # -1
  /\ phase \in {"init", "main", "fini"} => statWrite # -1
  /\ gsp \in {"off", "start"} => statWrite = -1
  /\ Live => statWrite # -1
  /\ statWrite = -1 => posted = <<>> /\ rx = 0

Posted == Len(posted)
Seen   == Len(read)

(* What GSP-RM posted: answers to calls that were made, and events.        *)
Answers ==
  /\ owed # 0 => calls[owed] \in CallKinds \cup {"unload"}
  /\ \A i \in 1 .. Posted :
       /\ posted[i].n \in 0 .. Request
       /\ Stride(posted[i].len) = Elems(posted[i].len)

(* Message i begins pos[i] pages after the first one.  Those past the r    *)
(* that were read lie one behind the other up to the write pointer, whole. *)
LaidOut(pos, r, p) ==
  /\ r <= p
  /\ rx = pos[r + 1] % StatCount
  /\ statWrite # -1 => statWrite = pos[p + 1] % StatCount
  /\ pos[p + 1] - pos[r + 1] \in 0 .. StatCount - 1
  /\ \A i, k \in r + 1 .. p + 1 : i <= k => pos[i] <= pos[k]
  /\ \A i \in r + 1 .. p :
       /\ pos[i + 1] = pos[i] + Elems(posted[i].len)
       /\ \A j \in 1 .. Elems(posted[i].len) :
            page[StatPage[(pos[i] + j - 1) % StatCount]] = [msg |-> i, part |-> j]

Unread == \E pos \in [Nat -> Nat] : LaidOut(pos, Seen, Posted)

(* Each script that was read has run, and none is left behind INIT_DONE.   *)
Scripts ==
  /\ \A i, j \in DOMAIN ran : i # j => ran[i] # ran[j]
  /\ phase # "exited" => \A j \in DOMAIN ran : ran[j] <= Seen
  /\ \A i \in 1 .. Seen : posted[i].fn = "seq" => \E j \in DOMAIN ran : ran[j] = i
  /\ phase \in {"init", "main", "fini"} =>
       \E i \in 1 .. Seen : posted[i].fn = "initdone"
  /\ gsp \in {"off", "start", "boot"} => \A i \in 1 .. Posted : posted[i].fn # "initdone"
  /\ \A i, k \in 1 .. Posted :
       posted[i].fn = "initdone" /\ posted[k].fn = "seq" => k < i

RecvInv == TypeOK /\ Control /\ Answers /\ Unread /\ ReadsInOrder /\ Scripts

-----------------------------------------------------------------------------
(* Arithmetic of rings.                                                    *)

LEMMA ModUnique ==
  \A m \in Nat \ {0} : \A q \in Nat, r \in 0 .. m - 1 : (m * q + r) % m = r
BY SMTT(30)

LEMMA Quotient ==
  \A m \in Nat \ {0}, p \in Nat :
    p \div m \in Nat /\ m * (p \div m) <= p /\ p < m * (p \div m) + m
BY SMTT(30)

LEMMA DivMod ==
  ASSUME NEW m \in Nat \ {0}, NEW p \in Nat
  PROVE  \E q \in Nat, r \in 0 .. m - 1 : p = m * q + r /\ p % m = r
<1> DEFINE d == p \div m
<1>1. d \in Nat /\ m * d \in Nat /\ m * d <= p /\ p < m * d + m
  BY Quotient
<1> HIDE DEF d
<1>2. PICK q \in Nat : m * q \in Nat /\ m * q <= p /\ p < m * q + m
  BY <1>1
<1>3. PICK r \in 0 .. m - 1 : p = m * q + r
  <2>1. p - m * q \in 0 .. m - 1 /\ p = m * q + (p - m * q)
    BY <1>2
  <2> QED
    BY <2>1
<1>4. (m * q + r) % m = r
  BY ModUnique
<1> QED
  BY <1>3, <1>4

LEMMA ModSmall ==
  ASSUME NEW m \in Nat \ {0}, NEW r \in 0 .. m - 1
  PROVE  r % m = r /\ (r + m) % m = r
<1>1. (m * 0 + r) % m = r /\ (m * 1 + r) % m = r
  BY ModUnique
<1>2. m * 0 + r = r /\ m * 1 + r = r + m
  OBVIOUS
<1> QED
  BY <1>1, <1>2

(* Wrapping before or after an addition is the same.                       *)
LEMMA ModPlus ==
  ASSUME NEW m \in Nat \ {0}, NEW a \in Nat, NEW b \in Nat
  PROVE  a % m \in 0 .. m - 1 /\ ((a % m) + b) % m = (a + b) % m
<1>1. PICK q \in Nat, r \in 0 .. m - 1 : a = m * q + r /\ a % m = r
  BY DivMod
<1>2. r + b \in Nat
  OBVIOUS
<1>3. PICK u \in Nat, v \in 0 .. m - 1 : r + b = m * u + v /\ (r + b) % m = v
  BY <1>2, DivMod
<1>4. (m * (q + u) + v) % m = v
  <2>1. q + u \in Nat
    OBVIOUS
  <2> QED
    BY <2>1, ModUnique
<1>5. m * (q + u) = m * q + m * u
  OBVIOUS
<1>6. a + b = m * (q + u) + v
  <2>1. m * q \in Nat /\ m * u \in Nat
    OBVIOUS
  <2> QED
    BY <1>1, <1>3, <1>5, <2>1
<1> QED
  BY <1>1, <1>3, <1>4, <1>6

(* The distance between two places less than a turn apart.                 *)
LEMMA ModGap ==
  ASSUME NEW m \in Nat \ {0}, NEW a \in Nat, NEW b \in Nat, b - a \in 0 .. m - 1
  PROVE  ((b % m) + m - (a % m)) % m = b - a
<1>1. PICK r \in 0 .. m - 1 : r = a % m
  BY ModPlus, 0 \in Nat
<1>2. PICK d \in 0 .. m - 1 : d = b - a
  OBVIOUS
<1>3. b % m = (r + d) % m
  <2>1. d \in Nat /\ a + d = b
    BY <1>2
  <2> QED
    BY <1>1, <2>1, ModPlus
<1>4. CASE r + d <= m - 1
  <2>1. b % m = r + d
    BY <1>3, <1>4, ModSmall
  <2>2. (b % m) + m - (a % m) = d + m
    BY <1>1, <2>1
  <2>3. (d + m) % m = d
    BY ModSmall
  <2> QED
    BY <1>2, <2>2, <2>3
<1>5. CASE r + d >= m
  <2>1. r + d - m \in 0 .. m - 1 /\ (r + d - m) + m = r + d
    BY <1>5
  <2>2. b % m = r + d - m
    BY <1>3, <2>1, ModSmall
  <2>3. (b % m) + m - (a % m) = d
    BY <1>1, <2>2
  <2> QED
    BY <1>2, <2>3, ModSmall
<1> QED
  BY <1>4, <1>5

(* Places less than a turn apart share a slot only when they are the same. *)
LEMMA ModApart ==
  ASSUME NEW m \in Nat \ {0}, NEW a \in Nat, NEW b \in Nat, b - a \in 0 .. m - 1,
         a % m = b % m
  PROVE  a = b
<1>1. PICK r \in 0 .. m - 1 : r = a % m
  BY ModPlus, 0 \in Nat
<1>2. (r + m - r) % m = b - a
  <2>1. ((b % m) + m - (a % m)) % m = b - a
    BY ModGap
  <2> QED
    BY <1>1, <2>1
<1>3. r + m - r = 0 + m /\ 0 \in 0 .. m - 1
  BY <1>1
<1>4. (0 + m) % m = 0
  BY <1>3, ModSmall
<1> QED
  BY <1>2, <1>3, <1>4

-----------------------------------------------------------------------------
(* Pages of a message, records of a request.                               *)

LEMMA Sizes ==
  /\ PageLen \in Nat \ {0, 1} /\ MaxPayload \in Nat \ {0}
  /\ StatCount \in Nat \ {0, 1} /\ CmdCount \in Nat \ {0, 1}
  /\ MaxElems \in 1 .. CmdCount - 1 /\ MaxPayload + 2 = PageLen * MaxElems
<1>1. PageLen \in Nat \ {0, 1} /\ MaxElems \in 1 .. CmdCount - 1 /\ PageLen * MaxElems > 2
  BY RingAssumption
<1>2. PageLen * MaxElems \in Nat
  BY <1>1, RingAssumption
<1> QED
  BY <1>1, <1>2, RingAssumption DEF MaxPayload

LEMMA ElemsNat ==
  ASSUME NEW len \in Nat
  PROVE  Elems(len) \in Nat \ {0}
<1>1. PICK m \in Nat \ {0}, p \in Nat : m = PageLen /\ p = len + PageLen
  BY Sizes
<1>2. PICK q \in Nat : q = p \div m /\ p < m * q + m
  BY Quotient
<1>3. q # 0
  BY <1>1, <1>2
<1>4. (len + 1) + PageLen - 1 = p
  BY <1>1
<1> QED
  BY <1>1, <1>2, <1>3, <1>4 DEF Elems, CeilDiv

LEMMA ElemsMax ==
  ASSUME NEW len \in 0 .. MaxPayload
  PROVE  Elems(len + 1) \in 1 .. MaxElems
<1>1. PICK m \in Nat \ {0}, p \in Nat : m = PageLen /\ p = len + 1 + PageLen
  BY Sizes
<1>2. PICK q \in Nat : q = p \div m /\ m * q <= p
  BY Quotient
<1>3. len + 1 + 1 + PageLen - 1 = p
  BY <1>1, Sizes
<1>4. Elems(len + 1) = q
  BY <1>1, <1>2, <1>3 DEF Elems, CeilDiv
<1>5. q \in Nat \ {0}
  BY <1>4, ElemsNat, Sizes
<1>6. ASSUME q >= MaxElems + 1 PROVE FALSE
  <2>1. MaxElems \in Nat /\ m \in Nat
    BY Sizes
  <2>2. m * q >= m * (MaxElems + 1)
    BY <1>6, <2>1
  <2>3. m * (MaxElems + 1) = m * MaxElems + m
    BY <2>1
  <2>4. m * MaxElems = MaxPayload + 2
    BY <1>1, Sizes
  <2>5. m * q \in Nat
    BY <2>1
  <2> QED
    BY <1>1, <1>2, <2>1, <2>2, <2>3, <2>4, <2>5, Sizes
<1> QED
  BY <1>4, <1>5, <1>6, Sizes

LEMMA MinTwo ==
  ASSUME NEW a \in Int, NEW b \in Int
  PROVE  Min({a, b}) = IF a <= b THEN a ELSE b
<1>1. CASE a <= b
  <2>1. a \in {a, b} /\ \A y \in {a, b} : a <= y
    BY <1>1
  <2>2. \A x \in {a, b} : (\A y \in {a, b} : x <= y) => x = a
    BY <1>1
  <2> QED
    BY <1>1, <2>1, <2>2 DEF Min
<1>2. CASE ~(a <= b)
  <2>1. b \in {a, b} /\ \A y \in {a, b} : b <= y
    BY <1>2
  <2>2. \A x \in {a, b} : (\A y \in {a, b} : x <= y) => x = b
    BY <1>2
  <2> QED
    BY <1>2, <2>1, <2>2 DEF Min
<1> QED
  BY <1>1, <1>2

LEMMA MaxOne ==
  ASSUME NEW a \in Int
  PROVE  Max({a}) = a
BY DEF Max

(* A request has a record at least, and each record a payload that fits.   *)
LEMMA RecordLens ==
  ASSUME NEW len \in Nat \ {0}
  PROVE  /\ Records(len) \in Seq(1 .. MaxPayload)
         /\ Len(Records(len)) = CeilDiv(len, MaxPayload)
         /\ CeilDiv(len, MaxPayload) \in Nat \ {0}
<1>1. PICK m \in Nat \ {0} : m = MaxPayload
  BY Sizes
<1>2. PICK p \in Nat : p = len + m - 1
  BY <1>1
<1>3. PICK q \in Nat : q = p \div m /\ m * q <= p /\ p < m * q + m
  BY Quotient
<1>4. CeilDiv(len, MaxPayload) = q
  BY <1>1, <1>2, <1>3 DEF CeilDiv
<1>5. q # 0
  <2>1. q = 0 => m * q = 0
    OBVIOUS
  <2> QED
    BY <1>2, <1>3, <2>1
<1>6. ASSUME NEW i \in 1 .. q
      PROVE  Min({MaxPayload, len - (i - 1) * MaxPayload}) \in 1 .. MaxPayload
  <2>1. PICK d \in Nat : i + d = q
    BY <1>6
  <2>2. m * q = m * i + m * d
    BY <2>1
  <2>3. m * i \in Nat /\ m * d \in Nat /\ m * d >= 0
    OBVIOUS
  <2>4. (i - 1) * m = m * i - m
    OBVIOUS
  <2>5. len - (i - 1) * m >= 1 /\ len - (i - 1) * m \in Int
    BY <1>2, <1>3, <2>2, <2>3, <2>4
  <2>6. Min({m, len - (i - 1) * m}) \in 1 .. m
    BY <2>5, MinTwo
  <2> QED
    BY <1>1, <2>6
<1>7. Records(len) = [i \in 1 .. q |-> Min({MaxPayload, len - (i - 1) * MaxPayload})]
  BY <1>4 DEF Records
<1>8. Records(len) \in [1 .. q -> 1 .. MaxPayload]
  BY <1>6, <1>7
<1>9. ASSUME NEW S, NEW f \in [1 .. q -> S] PROVE f \in Seq(S) /\ Len(f) = q
  <2>1. f \in Seq(S)
    BY SeqDef
  <2>2. Len(f) \in Nat /\ DOMAIN f = 1 .. Len(f)
    BY <2>1, LenProperties
  <2> QED
    BY <2>1, <2>2
<1> QED
  BY <1>4, <1>5, <1>8, <1>9

-----------------------------------------------------------------------------
(* Types, in the three parts the steps leave alone in turn.                *)

Cells == [n : 0 .. Request, seq : Nat, len : 0 .. MaxPayload, part : 0 .. MaxElems]

SendTypes ==
  /\ calls \in Seq(Kinds) /\ rest \in Seq(1 .. MaxPayload) /\ seq \in Nat
  /\ cmd \in [0 .. CmdCount - 1 -> Cells] /\ cmdWrite \in 0 .. CmdCount - 1

RecvTypes ==
  /\ rx \in 0 .. StatCount - 1
  /\ read \in Seq(0 .. Len(posted)) /\ ran \in Seq(1 .. Len(posted))
  /\ got \in 0 .. Request /\ isErr \in BOOLEAN

ServeTypes ==
  /\ gsp \in {"off", "start", "boot", "up", "hung"}
  /\ cmdRead \in 0 .. CmdCount - 1 /\ expect \in Nat /\ gathered \in Nat
  /\ served \in 0 .. Request /\ owed \in 0 .. Request

PostTypes ==
  /\ statWrite \in -1 .. StatCount - 1
  /\ page \in [{StatPage[s] : s \in 0 .. StatCount - 1} -> [msg : 0 .. Len(posted), part : Nat]]
  /\ posted \in Seq(Messages)

Types ==
  /\ phase \in Phases /\ at \in Places /\ bell \in BOOLEAN
  /\ SendTypes /\ RecvTypes /\ ServeTypes /\ PostTypes

LEMMA TypeParts ==
  (TypeOK <=> Types) /\ (TypeOK' <=> Types')
BY DEF TypeOK, Types, SendTypes, RecvTypes, ServeTypes, PostTypes, Cells

LEMMA SeqWider ==
  ASSUME NEW S, NEW T, S \subseteq T, NEW s \in Seq(S)
  PROVE  s \in Seq(T)
BY SeqMonotonic

LEMMA InitTypes ==
  ASSUME Init
  PROVE  TypeOK
<1>1. calls = <<>> /\ rest = <<>> /\ read = <<>> /\ ran = <<>> /\ posted = <<>>
  BY DEF Init
<1>2. /\ <<>> \in Seq(Kinds) /\ <<>> \in Seq(1 .. MaxPayload) /\ <<>> \in Seq(0 .. 0)
      /\ <<>> \in Seq(1 .. 0) /\ <<>> \in Seq(Messages) /\ Len(<<>>) = 0
  BY EmptySeq
<1>3. cmd \in [0 .. CmdCount - 1 -> Cells]
  <2>1. Request = 0
    BY <1>1, <1>2 DEF Request
  <2>2. [n |-> 0, seq |-> 0, len |-> 0, part |-> 0] \in Cells
    BY <2>1, Sizes DEF Cells
  <2> QED
    BY <2>2 DEF Init
<1>4. SendTypes
  BY <1>1, <1>2, <1>3, Sizes DEF SendTypes, Init
<1>5. RecvTypes /\ ServeTypes
  <2>1. Request = 0
    BY <1>1, <1>2 DEF Request
  <2>2. read \in Seq(0 .. Len(posted)) /\ ran \in Seq(1 .. Len(posted))
    BY <1>1, EmptySeq
  <2>3. RecvTypes
    <3>1. rx = 0 /\ got = 0 /\ isErr = FALSE
      BY DEF Init
    <3>2. rx \in 0 .. StatCount - 1
      <4>1. StatCount \in Nat \ {0, 1}
        BY Sizes
      <4>2. 0 \in 0 .. StatCount - 1
        BY <4>1
      <4> QED
        BY <3>1, <4>2
    <3>3. got \in 0 .. Request
      BY <2>1, <3>1
    <3>4. isErr \in BOOLEAN
      BY <3>1
    <3> QED
      BY <2>2, <3>2, <3>3, <3>4 DEF RecvTypes
  <2>4. ServeTypes
    BY <2>1, Sizes DEF ServeTypes, Init
  <2> QED
    BY <2>3, <2>4
<1>6. PostTypes
  BY <1>1, <1>2, Sizes, BoundAssumption DEF PostTypes, Init, Empty
<1> QED
  BY <1>4, <1>5, <1>6, TypeParts DEF Init, Phases, Places, Types

(* A request more changes no bound for the worse.                          *)
LEMMA TypesGrow ==
  ASSUME TypeOK, Len(calls') \in Nat, Len(calls') >= Len(calls),
         Len(posted') \in Nat, Len(posted') >= Len(posted)
  PROVE  /\ UNCHANGED recvVars => RecvTypes'
         /\ UNCHANGED <<gsp, cmdRead, expect, gathered, served, owed>> => ServeTypes'
         /\ UNCHANGED <<statWrite, page, posted>> => PostTypes'
         /\ UNCHANGED sendVars => SendTypes'
<1>1. Len(calls) \in Nat /\ Len(posted) \in Nat
  BY LenProperties DEF TypeOK
<1>2. 0 .. Len(posted) \subseteq 0 .. Len(posted') /\ 1 .. Len(posted) \subseteq 1 .. Len(posted')
      /\ 0 .. Request \subseteq 0 .. Request'
  BY <1>1 DEF Request
<1>3. read \in Seq(0 .. Len(posted')) /\ ran \in Seq(1 .. Len(posted'))
  BY <1>2, SeqWider, TypeParts DEF RecvTypes, Types
<1>4. UNCHANGED recvVars => RecvTypes'
  BY <1>2, <1>3, TypeParts DEF RecvTypes, recvVars, Types
<1>5. UNCHANGED <<gsp, cmdRead, expect, gathered, served, owed>> => ServeTypes'
  BY <1>2, TypeParts DEF ServeTypes, Types
<1>6. UNCHANGED <<statWrite, page, posted>> => PostTypes'
  BY TypeParts DEF PostTypes, Types
<1>7. UNCHANGED sendVars => SendTypes'
  BY TypeParts DEF SendTypes, sendVars, Cells, Request, Types
<1> QED
  BY <1>4, <1>5, <1>6, <1>7

LEMMA SendTyped ==
  ASSUME TypeOK, Control, Send
  PROVE  TypeOK' /\ Len(calls') >= Len(calls)
<1>0. SendTypes /\ phase \in Phases /\ at \in Places /\ bell \in BOOLEAN
  BY TypeParts DEF Types
<1>1. Len(calls) \in Nat /\ calls \in Seq(Kinds) /\ Len(posted) \in Nat /\ UNCHANGED posted
  BY LenProperties DEF TypeOK, Send, Issue, StoreRecord, PublishRecord, Doorbell, gspVars
<1>2. ASSUME NEW k \in Kinds, Issue(k)
      PROVE  SendTypes' /\ Len(calls') \in Nat /\ Len(calls') >= Len(calls)
  <2>1. PICK c \in Seq(Kinds) : c = Append(calls, k) /\ Len(c) = Len(calls) + 1
    BY <1>1, AppendProperties
  <2>2. calls' = c /\ Len(c) \in Nat
    BY <1>1, <1>2, <2>1 DEF Issue
  <2>3. rest' \in Seq(1 .. MaxPayload)
    BY <1>2, RecordLens, LengthAssumption DEF Issue
  <2>4. cmd' \in [0 .. CmdCount - 1 -> Cells']
    <3>1. Cells \subseteq Cells'
      BY <1>1, <2>1, <2>2 DEF Cells, Request
    <3> QED
      BY <1>2, <3>1, TypeParts DEF SendTypes, Issue, Types
  <2> QED
    BY <1>1, <1>2, <2>1, <2>2, <2>3, <2>4, TypeParts DEF SendTypes, Issue, Types
<1>3. ASSUME StoreRecord PROVE SendTypes' /\ Len(calls') \in Nat /\ Len(calls') >= Len(calls)
  <2>1. rest # <<>> /\ rest \in Seq(1 .. MaxPayload)
    BY <1>3 DEF StoreRecord, Control, TypeOK
  <2>2. PICK len \in 1 .. MaxPayload : len = Head(rest)
    BY <2>1, HeadTailProperties
  <2>3. Elems(len + 1) \in 1 .. MaxElems
    BY ElemsMax, Sizes
  <2>4. ASSUME NEW s \in 0 .. CmdCount - 1, (s + CmdCount - cmdWrite) % CmdCount < Elems(len + 1)
        PROVE  [n |-> Request, seq |-> seq, len |-> len,
                part |-> ((s + CmdCount - cmdWrite) % CmdCount) + 1] \in Cells
    <3>1. s + CmdCount - cmdWrite \in Nat
      BY Sizes DEF TypeOK
    <3>2. (s + CmdCount - cmdWrite) % CmdCount \in 0 .. CmdCount - 1
      BY <3>1, Sizes, ModPlus, 0 \in Nat
    <3>3. ((s + CmdCount - cmdWrite) % CmdCount) + 1 \in 0 .. MaxElems
      BY <2>3, <2>4, <3>2, Sizes
    <3>4. Request \in 0 .. Request /\ seq \in Nat
      BY <1>1 DEF Request, TypeOK
    <3> QED
      BY <3>3, <3>4, Sizes DEF Cells
  <2>5. cmd \in [0 .. CmdCount - 1 -> Cells] /\ DOMAIN cmd = 0 .. CmdCount - 1
    BY DEF TypeOK, Cells
  <2>6. cmd' \in [0 .. CmdCount - 1 -> Cells]
    BY <1>3, <2>2, <2>4, <2>5 DEF StoreRecord
  <2>7. Cells' = Cells
    BY <1>3 DEF Cells, StoreRecord, Request
  <2> QED
    <3>1. calls' = calls /\ rest' = rest /\ seq' = seq /\ cmdWrite' = cmdWrite
      BY <1>3 DEF StoreRecord
    <3>2. SendTypes'
      BY <1>0, <2>6, <2>7, <3>1 DEF SendTypes
    <3> QED
      BY <1>1, <3>1, <3>2
<1>4. ASSUME PublishRecord PROVE SendTypes' /\ Len(calls') \in Nat /\ Len(calls') >= Len(calls)
  <2>1. rest # <<>> /\ rest \in Seq(1 .. MaxPayload)
    BY <1>4 DEF PublishRecord, Control, TypeOK
  <2>2. Tail(rest) \in Seq(1 .. MaxPayload)
    BY <2>1, HeadTailProperties
  <2>3. PICK len \in 1 .. MaxPayload : len = Head(rest)
    BY <2>1, HeadTailProperties
  <2>4. PICK e \in Nat : e = Elems(Head(rest) + 1)
    BY <2>3, ElemsMax, Sizes
  <2>5. (cmdWrite + e) % CmdCount \in 0 .. CmdCount - 1
    <3>1. cmdWrite \in Nat
      BY Sizes DEF TypeOK
    <3>2. cmdWrite + e \in Nat
      BY <3>1
    <3> QED
      BY <3>2, Sizes, ModPlus, 0 \in Nat
  <2>6. Cells' = Cells
    BY <1>4 DEF Cells, PublishRecord, Request
  <2>7. cmdWrite' = (cmdWrite + e) % CmdCount
    BY <1>4, <2>4 DEF PublishRecord
  <2> QED
    BY <1>0, <1>1, <1>4, <2>2, <2>5, <2>6, <2>7 DEF SendTypes, PublishRecord
<1>5. ASSUME Doorbell PROVE SendTypes' /\ Len(calls') \in Nat /\ Len(calls') >= Len(calls)
  <2>1. UNCHANGED sendVars
    BY <1>5 DEF Doorbell
  <2>2. calls' = calls /\ posted' = posted
    BY <1>1, <2>1 DEF sendVars
  <2> QED
    BY <1>1, <2>1, <2>2, TypesGrow
<1>6. SendTypes' /\ Len(calls') \in Nat /\ Len(calls') >= Len(calls)
  BY <1>2, <1>3, <1>4, <1>5 DEF Send
<1>7. /\ UNCHANGED recvVars /\ UNCHANGED <<gsp, cmdRead, expect, gathered, served, owed>>
      /\ UNCHANGED <<statWrite, page>>
  BY DEF Send, Issue, StoreRecord, PublishRecord, Doorbell, gspVars
<1>8. RecvTypes' /\ ServeTypes' /\ PostTypes'
  BY <1>1, <1>6, <1>7, TypesGrow
<1>9. phase' \in Phases /\ at' \in Places /\ bell' \in BOOLEAN
  <2>1. ASSUME NEW k \in Kinds, Issue(k) PROVE phase' = phase /\ bell' = bell /\ at' = "store"
    BY <2>1 DEF Issue
  <2>2. StoreRecord => phase' = phase /\ bell' = bell /\ at' = "publish"
    BY DEF StoreRecord
  <2>3. PublishRecord => phase' = phase /\ bell' = bell /\ at' = "bell"
    BY DEF PublishRecord
  <2>4. Doorbell => phase' = phase /\ bell' = TRUE /\ at' \in {"store", "idle", "wait"}
    BY DEF Doorbell
  <2>5. phase' = phase /\ at' \in Places
    BY <2>1, <2>2, <2>3, <2>4 DEF Send, Places
  <2>6. bell' = bell \/ bell' = TRUE
    BY <2>1, <2>2, <2>3, <2>4 DEF Send
  <2> QED
    BY <1>0, <2>5, <2>6
<1> QED
  BY <1>6, <1>8, <1>9, TypeParts DEF Types

-----------------------------------------------------------------------------
(* The status ring.                                                        *)

LEMMA Lengths ==
  ASSUME TypeOK
  PROVE  /\ Request \in Nat /\ Posted \in Nat /\ Seen \in Nat /\ Len(ran) \in Nat
         /\ DOMAIN read = 1 .. Seen /\ DOMAIN ran = 1 .. Len(ran) /\ DOMAIN posted = 1 .. Posted
         /\ \A i \in 1 .. Posted : posted[i] \in Messages
BY LenProperties, ElementOfSeq DEF TypeOK, Request, Posted, Seen

LEMMA PlacesApart ==
  ASSUME PagesApart, NEW x \in Nat, NEW y \in Nat, y - x \in 0 .. StatCount - 1,
         StatPage[x % StatCount] = StatPage[y % StatCount]
  PROVE  x = y
<1>1. x % StatCount \in 0 .. StatCount - 1 /\ y % StatCount \in 0 .. StatCount - 1
  BY Sizes, ModPlus, 0 \in Nat
<1>2. x % StatCount = y % StatCount
  BY <1>1 DEF PagesApart
<1> QED
  BY <1>2, Sizes, ModApart

LEMMA PlaceInRing ==
  ASSUME NEW x \in Nat
  PROVE  x % StatCount \in 0 .. StatCount - 1
BY Sizes, ModPlus, 0 \in Nat

(* Behind a read pointer short of the write pointer is the next message.   *)
LEMMA NextMessage ==
  ASSUME TypeOK, NEW pos \in [Nat -> Nat], NEW r \in Nat, NEW p \in Nat, p = Posted,
         LaidOut(pos, r, p), statWrite # -1, rx # statWrite
  PROVE  /\ r + 1 \in 1 .. p /\ posted[r + 1] \in Messages
         /\ Elems(posted[r + 1].len) \in Nat \ {0}
         /\ page[StatPage[rx]] = [msg |-> r + 1, part |-> 1]
<1>1. r # p
  BY DEF LaidOut
<1>2. r + 1 \in r + 1 .. p /\ r + 1 \in 1 .. p
  BY <1>1 DEF LaidOut
<1>3. posted[r + 1] \in Messages
  BY <1>2, Lengths
<1>4. posted[r + 1].len \in Nat
  BY <1>3 DEF Messages
<1>5. Elems(posted[r + 1].len) \in Nat \ {0}
  BY <1>4, ElemsNat
<1>6. 1 \in 1 .. Elems(posted[r + 1].len)
  BY <1>5
<1>7. page[StatPage[(pos[r + 1] + 1 - 1) % StatCount]] = [msg |-> r + 1, part |-> 1]
  BY <1>2, <1>6 DEF LaidOut
<1>8. pos[r + 1] \in Nat
  OBVIOUS
<1>9. pos[r + 1] + 1 - 1 = pos[r + 1]
  BY <1>8
<1>10. rx = pos[r + 1] % StatCount
  BY DEF LaidOut
<1> QED
  BY <1>2, <1>3, <1>5, <1>7, <1>9, <1>10

(* The step of read_resp over message i.                                   *)
StepsOver(i) ==
  /\ rx' = (rx + Stride(posted[i].len)) % StatCount
  /\ UNCHANGED <<statWrite, page, posted>>

LEMMA ReadLaid ==
  ASSUME TypeOK, Answers, NEW pos \in [Nat -> Nat], NEW r \in Nat, NEW p \in Nat,
         p = Posted, LaidOut(pos, r, p), statWrite # -1, rx # statWrite,
         StepsOver(r + 1)
  PROVE  LaidOut(pos, r + 1, p)'
<1>1. r + 1 \in 1 .. p /\ Elems(posted[r + 1].len) \in Nat \ {0}
  BY NextMessage
<1>2. PICK i \in 1 .. p : i = r + 1
  BY <1>1
<1>3. PICK e \in Nat \ {0} : e = Elems(posted[i].len)
  BY <1>1, <1>2
<1>4. Stride(posted[i].len) = e
  BY <1>3 DEF Answers
<1>5. pos[i] \in Nat /\ pos[i + 1] \in Nat /\ pos[p + 1] \in Nat
  OBVIOUS
<1>6. /\ i \in r + 1 .. p /\ i + 1 \in r + 1 .. p + 1 /\ p + 1 \in r + 1 .. p + 1
      /\ i <= p + 1 /\ i + 1 <= p + 1
  BY <1>2
<1>7. /\ rx = pos[i] % StatCount /\ pos[i + 1] = pos[i] + e
      /\ pos[p + 1] - pos[i] \in 0 .. StatCount - 1 /\ pos[i + 1] <= pos[p + 1]
  BY <1>2, <1>3, <1>6 DEF LaidOut
<1>8. rx' = pos[i + 1] % StatCount
  <2>1. rx' = ((pos[i] % StatCount) + e) % StatCount
    BY <1>2, <1>4, <1>7 DEF StepsOver
  <2>2. ((pos[i] % StatCount) + e) % StatCount = (pos[i] + e) % StatCount
    BY <1>5, Sizes, ModPlus
  <2> QED
    BY <1>7, <2>1, <2>2
<1>9. pos[p + 1] - pos[i + 1] \in 0 .. StatCount - 1
  BY <1>5, <1>7, Sizes
<1>10. \A j, k \in i + 1 .. p + 1 : j <= k => pos[j] <= pos[k]
  <2>1. \A j \in i + 1 .. p + 1 : j \in r + 1 .. p + 1
    BY <1>2
  <2> QED
    BY <2>1 DEF LaidOut
<1>11. \A j \in i + 1 .. p :
         /\ pos[j + 1] = pos[j] + Elems(posted[j].len)
         /\ \A d \in 1 .. Elems(posted[j].len) :
              page[StatPage[(pos[j] + d - 1) % StatCount]] = [msg |-> j, part |-> d]
  <2>1. \A j \in i + 1 .. p : j \in r + 1 .. p
    BY <1>2
  <2> QED
    BY <2>1 DEF LaidOut
<1>12. statWrite # -1 => statWrite = pos[p + 1] % StatCount
  BY DEF LaidOut
<1>13. LaidOut(pos, i, p)'
  BY <1>8, <1>9, <1>10, <1>11, <1>12 DEF LaidOut, StepsOver
<1> QED
  BY <1>2, <1>13

(* What a posted message adds, and the room it takes.                      *)
LEMMA PostFits ==
  ASSUME TypeOK, NEW pos \in [Nat -> Nat], NEW r \in Nat, NEW p \in Nat,
         LaidOut(pos, r, p), statWrite # -1, NEW m \in Messages, Post(m)
  PROVE  /\ Elems(m.len) \in Nat \ {0}
         /\ pos[p + 1] + Elems(m.len) - pos[r + 1] \in 0 .. StatCount - 1
         /\ statWrite' = (pos[p + 1] + Elems(m.len)) % StatCount
         /\ \A j \in 1 .. Elems(m.len) :
              (statWrite + j - 1) % StatCount = (pos[p + 1] + j - 1) % StatCount
<1>1. PICK a \in Nat, b \in Nat : a = pos[r + 1] /\ b = pos[p + 1]
  OBVIOUS
<1>2. b - a \in 0 .. StatCount - 1 /\ rx = a % StatCount /\ statWrite = b % StatCount
  BY <1>1 DEF LaidOut
<1>3. PICK e \in Nat \ {0} : e = Elems(m.len)
  BY ElemsNat DEF Messages
<1>4. ((statWrite + StatCount - rx) % StatCount) + e < StatCount /\ statWrite' = (statWrite + e) % StatCount
  BY <1>3 DEF Post
<1>5. (statWrite + StatCount - rx) % StatCount = b - a
  <2>1. ((b % StatCount) + StatCount - (a % StatCount)) % StatCount = b - a
    BY <1>2, Sizes, ModGap
  <2> QED
    BY <1>2, <2>1
<1>6. b + e - a \in 0 .. StatCount - 1
  <2>1. b - a + e < StatCount
    BY <1>4, <1>5
  <2> QED
    BY <1>2, <2>1, Sizes
<1>7. statWrite' = (b + e) % StatCount
  <2>1. ((b % StatCount) + e) % StatCount = (b + e) % StatCount
    BY Sizes, ModPlus
  <2> QED
    BY <1>2, <1>4, <2>1
<1>8. ASSUME NEW j \in 1 .. e
      PROVE  (statWrite + j - 1) % StatCount = (b + j - 1) % StatCount
  <2>1. PICK d \in Nat : d = j - 1
    OBVIOUS
  <2>2. ((b % StatCount) + d) % StatCount = (b + d) % StatCount
    BY Sizes, ModPlus
  <2>3. PICK w \in Nat : w = statWrite /\ w = b % StatCount
    <3>1. b % StatCount \in Nat
      BY PlaceInRing, Sizes
    <3> QED
      BY <1>2, <3>1
  <2>4. w + j - 1 = w + d /\ b + j - 1 = b + d
    BY <2>1
  <2> QED
    BY <2>2, <2>3, <2>4
<1> QED
  BY <1>1, <1>3, <1>6, <1>7, <1>8

(* The new message fills the pages behind the last one and no others.      *)
IsPosted(p) == p = Posted

(* The pages of the places from pos[r + 1] on keep what they hold; those   *)
(* behind the last message hold m, part by part.                           *)
PagesKept(pos, r, p) ==
  \A y \in Nat : pos[r + 1] <= y /\ y < pos[p + 1] =>
    page'[StatPage[y % StatCount]] = page[StatPage[y % StatCount]]

PagesFilled(pos, p, m) ==
  \A j \in 1 .. Elems(m.len) :
    page'[StatPage[(pos[p + 1] + j - 1) % StatCount]] = [msg |-> p + 1, part |-> j]

PagesTyped(p) ==
  page \in [{StatPage[s] : s \in 0 .. StatCount - 1} -> [msg : 0 .. p, part : Nat]]

LEMMA PostPages ==
  ASSUME TypeOK, PagesApart, NEW pos \in [Nat -> Nat], NEW r \in Nat, NEW p \in Nat,
         LaidOut(pos, r, p), statWrite # -1, IsPosted(p), NEW m \in Messages, Post(m)
  PROVE  PagesKept(pos, r, p) /\ PagesFilled(pos, p, m) /\ PagesTyped(p + 1)'
<1>1. PICK a \in Nat, b \in Nat : a = pos[r + 1] /\ b = pos[p + 1]
  OBVIOUS
<1>2. PICK e \in Nat \ {0} : e = Elems(m.len)
  BY PostFits
<1>3. /\ a <= b /\ b + e - a \in 0 .. StatCount - 1
      /\ \A j \in 1 .. e : (statWrite + j - 1) % StatCount = (b + j - 1) % StatCount
  <2>1. b - a \in 0 .. StatCount - 1
    BY <1>1 DEF LaidOut
  <2>2. b + e - a \in 0 .. StatCount - 1
    BY <1>1, <1>2, PostFits
  <2>3. \A j \in 1 .. e : (statWrite + j - 1) % StatCount = (b + j - 1) % StatCount
    BY <1>1, <1>2, PostFits
  <2> QED
    BY <2>1, <2>2, <2>3, Sizes
<1> DEFINE Parts(g) == {j \in 1 .. e : StatPage[(statWrite + j - 1) % StatCount] = g}
<1>4. /\ DOMAIN page = {StatPage[s] : s \in 0 .. StatCount - 1}
      /\ \A g \in DOMAIN page : page'[g] = IF Parts(g) = {} THEN page[g]
                                           ELSE [msg |-> p + 1, part |-> Max(Parts(g))]
      /\ DOMAIN page' = DOMAIN page
  BY <1>2 DEF Post, TypeOK, Posted, IsPosted
<1>5. ASSUME NEW x \in Nat PROVE StatPage[x % StatCount] \in DOMAIN page
  BY <1>4, PlaceInRing
<1>6. ASSUME NEW y \in Nat, a <= y, y < b, NEW j \in 1 .. e
      PROVE  j \notin Parts(StatPage[y % StatCount])
  <2>1. PICK x \in Nat : x = b + j - 1 /\ x - y \in 0 .. StatCount - 1 /\ x # y
    <3>1. b + j - 1 \in Nat /\ (b + j - 1) - y \in 0 .. StatCount - 1 /\ b + j - 1 # y
      BY <1>3, <1>6, Sizes
    <3> QED
      BY <3>1
  <2>2. StatPage[x % StatCount] # StatPage[y % StatCount]
    BY <1>6, <2>1, PlacesApart
  <2>3. (statWrite + j - 1) % StatCount = x % StatCount
    BY <1>3, <2>1
  <2> QED
    BY <2>2, <2>3
<1>7. ASSUME NEW j \in 1 .. e PROVE Parts(StatPage[(b + j - 1) % StatCount]) = {j}
  <2>1. j \in Parts(StatPage[(b + j - 1) % StatCount])
    BY <1>3
  <2>2. ASSUME NEW i \in Parts(StatPage[(b + j - 1) % StatCount]) PROVE i = j
    <3>1. i \in 1 .. e /\ StatPage[(b + i - 1) % StatCount] = StatPage[(b + j - 1) % StatCount]
      BY <1>3
    <3>2. PICK x \in Nat, y \in Nat : x = b + i - 1 /\ y = b + j - 1
      BY <3>1
    <3>3. x - y \in 0 .. StatCount - 1 \/ y - x \in 0 .. StatCount - 1
      BY <1>3, <3>1, <3>2, Sizes
    <3>4. StatPage[x % StatCount] = StatPage[y % StatCount]
      BY <3>1, <3>2
    <3>5. x = y
      BY <3>3, <3>4, PlacesApart
    <3> QED
      BY <3>1, <3>2, <3>5
  <2> QED
    BY <2>1, <2>2
<1>8. ASSUME NEW y \in Nat, a <= y, y < b
      PROVE  page'[StatPage[y % StatCount]] = page[StatPage[y % StatCount]]
  <2>1. Parts(StatPage[y % StatCount]) = {}
    BY <1>6, <1>8
  <2> HIDE DEF Parts
  <2> QED
    BY <1>4, <1>5, <2>1
<1>9. ASSUME NEW j \in 1 .. e
      PROVE  page'[StatPage[(b + j - 1) % StatCount]] = [msg |-> p + 1, part |-> j]
  <2>1. b + j - 1 \in Nat
    OBVIOUS
  <2>2. Parts(StatPage[(b + j - 1) % StatCount]) = {j}
    BY <1>7
  <2>3. Max({j}) = j
    BY MaxOne
  <2> HIDE DEF Parts
  <2> QED
    BY <1>4, <1>5, <2>1, <2>2, <2>3
<1>10. ASSUME NEW g \in DOMAIN page PROVE page'[g] \in [msg : 0 .. p + 1, part : Nat]
  <2>1. CASE Parts(g) = {}
    <3>1. page[g] \in [msg : 0 .. p, part : Nat]
      BY <1>10 DEF TypeOK, Posted, IsPosted
    <3>2. page[g] \in [msg : 0 .. p + 1, part : Nat]
      BY <3>1
    <3> HIDE DEF Parts
    <3> QED
      BY <1>4, <1>10, <2>1, <3>2
  <2>2. CASE Parts(g) # {}
    <3>1. PICK j \in 1 .. e : StatPage[(b + j - 1) % StatCount] = g
      BY <1>3, <2>2
    <3>2. page'[g] = [msg |-> p + 1, part |-> j]
      BY <1>9, <3>1
    <3> QED
      BY <3>2
  <2> QED
    BY <2>1, <2>2
<1>11. page' \in [{StatPage[s] : s \in 0 .. StatCount - 1} -> [msg : 0 .. p + 1, part : Nat]]
  <2>1. \E f : page' = [g \in DOMAIN page |-> f[g]]
    <3>1. page' = [g \in DOMAIN page |-> page'[g]]
      BY DEF Post
    <3> QED
      BY <3>1
  <2> QED
    BY <1>4, <1>10, <2>1
<1> QED
  BY <1>1, <1>2, <1>8, <1>9, <1>11 DEF PagesKept, PagesFilled, PagesTyped

LEMMA PostLast ==
  ASSUME TypeOK, NEW m \in Messages, Post(m)
  PROVE  /\ posted' \in Seq(Messages) /\ Posted' = Posted + 1
         /\ \A i \in 1 .. Posted : posted'[i] = posted[i]
         /\ posted'[Posted + 1] = m
BY AppendProperties DEF TypeOK, Post, Posted

LEMMA PostLaid ==
  ASSUME TypeOK, PagesApart, NEW pos \in [Nat -> Nat], NEW r \in Nat, NEW p \in Nat,
         LaidOut(pos, r, p), statWrite # -1, IsPosted(p), NEW m \in Messages, Post(m)
  PROVE  \E next \in [Nat -> Nat] : LaidOut(next, r, p + 1)'
<1>1. PICK e \in Nat \ {0} : e = Elems(m.len)
  BY PostFits
<1>2. /\ pos[p + 1] + e - pos[r + 1] \in 0 .. StatCount - 1
      /\ statWrite' = (pos[p + 1] + e) % StatCount
  BY <1>1, PostFits
<1>3. /\ \A y \in Nat : pos[r + 1] <= y /\ y < pos[p + 1] =>
            page'[StatPage[y % StatCount]] = page[StatPage[y % StatCount]]
      /\ \A j \in 1 .. e :
            page'[StatPage[(pos[p + 1] + j - 1) % StatCount]] = [msg |-> p + 1, part |-> j]
  <2>1. PagesKept(pos, r, p) /\ PagesFilled(pos, p, m)
    BY PostPages
  <2> QED
    BY <1>1, <2>1 DEF PagesKept, PagesFilled
<1>4. PICK next \in [Nat -> Nat] : next = [pos EXCEPT ![p + 2] = pos[p + 1] + e]
  <2>1. pos[p + 1] \in Nat /\ p + 2 \in Nat
    OBVIOUS
  <2>2. pos[p + 1] + e \in Nat
    BY <2>1
  <2> QED
    BY <2>2
<1>5. /\ \A i \in r + 1 .. p + 1 : next[i] = pos[i]
      /\ next[p + 2] = pos[p + 1] + e
  BY <1>4
<1>6. r <= p /\ r + 1 \in r + 1 .. p + 1 /\ p + 1 \in r + 1 .. p + 1
  BY DEF LaidOut
<1>7. rx' = next[r + 1] % StatCount
  BY <1>5, <1>6 DEF LaidOut, Post, recvVars
<1>8. statWrite' = next[p + 2] % StatCount /\ next[p + 2] - next[r + 1] \in 0 .. StatCount - 1
  <2>1. next[r + 1] = pos[r + 1]
    BY <1>5, <1>6
  <2> QED
    BY <1>5, <1>2, <2>1
<1>9. ASSUME NEW i \in r + 1 .. p + 2, NEW k \in r + 1 .. p + 2, i <= k
      PROVE  next[i] <= next[k]
  <2>1. CASE k <= p + 1
    <3>1. i \in r + 1 .. p + 1 /\ k \in r + 1 .. p + 1
      BY <1>9, <2>1
    <3>2. pos[i] <= pos[k]
      BY <1>9, <3>1 DEF LaidOut
    <3> QED
      BY <1>5, <3>1, <3>2
  <2>2. CASE k = p + 2 /\ i # k
    <3>1. i \in r + 1 .. p + 1 /\ i <= p + 1 /\ pos[i] \in Nat /\ pos[p + 1] \in Nat
      BY <1>9, <2>2
    <3>2. pos[i] <= pos[p + 1]
      BY <1>6, <3>1 DEF LaidOut
    <3>3. next[i] = pos[i] /\ next[k] = pos[p + 1] + e
      BY <1>5, <2>2, <3>1
    <3> QED
      BY <3>1, <3>2, <3>3
  <2>3. CASE i = k
    BY <2>3
  <2> QED
    BY <2>1, <2>2, <2>3
<1>10. ASSUME NEW i \in r + 1 .. p + 1
      PROVE  /\ next[i + 1] = next[i] + Elems(posted'[i].len)
             /\ \A j \in 1 .. Elems(posted'[i].len) :
                  page'[StatPage[(next[i] + j - 1) % StatCount]] = [msg |-> i, part |-> j]
  <2>1. CASE i = p + 1
    <3>1. next[i] = pos[p + 1] /\ next[i + 1] = pos[p + 1] + e
      BY <1>5, <1>6, <2>1
    <3>2. posted'[i] = m
      BY <2>1, PostLast DEF IsPosted
    <3> QED
      BY <1>1, <1>3, <2>1, <3>1, <3>2
  <2>2. CASE i # p + 1
    <3>1. i \in r + 1 .. p /\ i \in 1 .. p /\ i + 1 \in r + 1 .. p + 1 /\ i + 1 <= p + 1
      BY <2>2
    <3>2. PICK g \in Nat : g = Elems(posted[i].len)
      <4>1. posted[i] \in Messages
        BY <3>1, Lengths DEF IsPosted
      <4> QED
        BY <4>1, ElemsNat DEF Messages
    <3>3. /\ posted'[i] = posted[i] /\ next[i] = pos[i] /\ next[i + 1] = pos[i + 1]
          /\ pos[i + 1] = pos[i] + g
          /\ \A j \in 1 .. g : page[StatPage[(pos[i] + j - 1) % StatCount]] = [msg |-> i, part |-> j]
      BY <1>5, <3>1, <3>2, PostLast DEF LaidOut, IsPosted
    <3>4. pos[r + 1] <= pos[i] /\ pos[i] + g <= pos[p + 1]
      BY <1>6, <3>1, <3>3 DEF LaidOut
    <3>5. ASSUME NEW j \in 1 .. g
          PROVE  page'[StatPage[(pos[i] + j - 1) % StatCount]] = [msg |-> i, part |-> j]
      <4>1. PICK y \in Nat : y = pos[i] + j - 1 /\ pos[r + 1] <= y /\ y < pos[p + 1]
        <5>1. pos[i] \in Nat /\ pos[r + 1] \in Nat /\ pos[p + 1] \in Nat
          BY <3>1
        <5>2. pos[i] + j - 1 \in Nat /\ pos[r + 1] <= pos[i] + j - 1 /\ pos[i] + j - 1 < pos[p + 1]
          BY <3>4, <5>1
        <5> QED
          BY <5>2
      <4>2. page'[StatPage[y % StatCount]] = page[StatPage[y % StatCount]]
        BY <1>3, <4>1
      <4> QED
        BY <3>3, <4>1, <4>2
    <3> QED
      BY <3>2, <3>3, <3>5
  <2> QED
    BY <2>1, <2>2
<1>11. LaidOut(next, r, p + 1)'
  <2>1. (p + 1) + 1 = p + 2 /\ r <= p + 1
    BY <1>6
  <2> QED
    BY <1>7, <1>8, <1>9, <1>10, <2>1 DEF LaidOut
<1> QED
  BY <1>11

LEMMA PostTyped ==
  ASSUME TypeOK, PagesApart, NEW pos \in [Nat -> Nat], LaidOut(pos, Seen, Posted),
         statWrite # -1, NEW m \in Messages, Post(m)
  PROVE  PostTypes' /\ RecvTypes' /\ SendTypes'
<1>1. PICK p \in Nat, r \in Nat : p = Posted /\ r = Seen
  BY Lengths
<1>2. page' \in [{StatPage[s] : s \in 0 .. StatCount - 1} -> [msg : 0 .. p + 1, part : Nat]]
  <2>1. LaidOut(pos, r, p) /\ IsPosted(p)
    BY <1>1 DEF IsPosted
  <2>2. PagesTyped(p + 1)'
    BY <2>1, PostPages
  <2> QED
    BY <2>2 DEF PagesTyped
<1>3. Posted' = p + 1 /\ posted' \in Seq(Messages)
  BY <1>1, PostLast
<1>4. statWrite' \in 0 .. StatCount - 1
  <2>1. Elems(m.len) \in Nat /\ statWrite' = (pos[p + 1] + Elems(m.len)) % StatCount
    BY <1>1, PostFits
  <2> QED
    BY <2>1, PlaceInRing
<1>5. PostTypes'
  <2>1. Len(posted') = p + 1
    BY <1>3 DEF Posted
  <2>2. page' \in [{StatPage[s] : s \in 0 .. StatCount - 1} -> [msg : 0 .. Len(posted'), part : Nat]]
    BY <1>2, <2>1
  <2>3. \A x \in 0 .. StatCount - 1 : x \in -1 .. StatCount - 1
    BY Sizes
  <2> QED
    BY <1>3, <1>4, <2>2, <2>3 DEF PostTypes
<1>6. UNCHANGED sendVars /\ UNCHANGED recvVars
  BY DEF Post
<1>7. Len(calls') \in Nat /\ Len(calls') >= Len(calls) /\ Len(posted') \in Nat /\ Len(posted') >= Len(posted)
  BY <1>1, <1>3, <1>6, Lengths DEF sendVars, Posted, Request
<1> QED
  BY <1>5, <1>6, <1>7, TypesGrow

-----------------------------------------------------------------------------
(* The steps.                                                              *)

LEMMA RecvInit ==
  ASSUME StatusRing, Init
  PROVE  RecvInv
<1>1. /\ phase = "sw" /\ at = "idle" /\ gsp = "off" /\ owed = 0 /\ rx = 0
      /\ read = <<>> /\ ran = <<>> /\ posted = <<>> /\ statWrite = -1
  BY DEF Init, StatusRing, HeaderClear
<1>2. Posted = 0 /\ Seen = 0 /\ DOMAIN ran = {} /\ DOMAIN read = {}
  BY <1>1 DEF Posted, Seen
<1>3. Control
  BY <1>1 DEF Control, Live
<1>4. Answers /\ ReadsInOrder /\ Scripts
  BY <1>1, <1>2 DEF Answers, ReadsInOrder, Scripts
<1>5. Unread
  <2>1. PICK pos \in [Nat -> Nat] : pos = [i \in Nat |-> 0]
    OBVIOUS
  <2>2. pos[0 + 1] = 0 /\ 0 % StatCount = 0 /\ \A i \in 0 + 1 .. 0 + 1 : pos[i] = 0
    BY <2>1, Sizes, ModSmall
  <2>3. LaidOut(pos, 0, 0)
    BY <1>1, <2>2, Sizes DEF LaidOut
  <2> QED
    BY <1>2, <2>3 DEF Unread
<1> QED
  BY <1>3, <1>4, <1>5, InitTypes DEF RecvInv

LEMMA RingFrame ==
  ASSUME Unread, ReadsInOrder, UNCHANGED <<rx, read, posted, page, statWrite>>
  PROVE  Unread' /\ ReadsInOrder'
<1>1. PICK pos \in [Nat -> Nat] : LaidOut(pos, Seen, Posted)
  BY DEF Unread
<1>2. LaidOut(pos, Seen, Posted)'
  BY <1>1 DEF LaidOut, Seen, Posted
<1> QED
  BY <1>2 DEF Unread, ReadsInOrder

LEMMA ScriptsFrame ==
  ASSUME Scripts, UNCHANGED <<ran, read, posted>>,
         phase' # "exited" => phase # "exited",
         phase' \in {"init", "main", "fini"} => phase \in {"init", "main", "fini"},
         gsp' \in {"off", "start", "boot"} => gsp \in {"off", "start", "boot"}
  PROVE  Scripts'
BY DEF Scripts, Seen, Posted

LEMMA SendKeeps ==
  ASSUME RecvInv, Send
  PROVE  RecvInv'
<1>1. TypeOK /\ Control /\ Answers /\ Unread /\ ReadsInOrder /\ Scripts
  BY DEF RecvInv
<1>2. /\ UNCHANGED <<phase, rx, read, ran, posted, page, statWrite, gsp, owed>>
      /\ calls' = calls \/ \E k \in Kinds : calls' = Append(calls, k)
  BY DEF Send, Issue, StoreRecord, PublishRecord, Doorbell, sendVars, recvVars, gspVars
<1>3. TypeOK'
  BY <1>1, SendTyped
<1>4. Unread' /\ ReadsInOrder' /\ Scripts'
  BY <1>1, <1>2, RingFrame, ScriptsFrame
<1>5. Answers'
  <2>1. /\ Request' \in Nat /\ Request \in Nat /\ Request' >= Request
        /\ \A n \in 1 .. Request : calls'[n] = calls[n]
    <3>1. ASSUME NEW k \in Kinds, calls' = Append(calls, k)
          PROVE  Request' = Request + 1 /\ \A n \in 1 .. Request : calls'[n] = calls[n]
      BY <1>1, <3>1, AppendProperties DEF TypeOK, Request
    <3>2. calls' = calls => Request' = Request /\ \A n \in 1 .. Request : calls'[n] = calls[n]
      BY DEF Request
    <3>3. Request \in Nat
      BY <1>1, Lengths
    <3> QED
      BY <1>2, <3>1, <3>2, <3>3
  <2>2. owed \in 0 .. Request
    BY <1>1 DEF TypeOK
  <2> QED
    BY <1>1, <1>2, <2>1, <2>2 DEF Answers, Posted
<1>6. Control'
  <2>1. ASSUME NEW k \in Kinds, Issue(k) PROVE Control'
    <3>1. at' = "store" /\ phase \in {"sw", "init", "fini"}
      BY <2>1 DEF Issue, Issuable
    <3>2. rest' # <<>>
      <4>1. Len(rest') # 0 /\ Len(<<>>) = 0
        BY <2>1, RecordLens, LengthAssumption DEF Issue
      <4> QED
        BY <4>1
    <3> QED
      BY <1>1, <1>2, <3>1, <3>2 DEF Control, Live
  <2>2. ASSUME StoreRecord PROVE Control'
    BY <1>1, <1>2, <2>2 DEF StoreRecord, Control, Live
  <2>3. ASSUME PublishRecord PROVE Control'
    BY <1>1, <1>2, <2>3 DEF PublishRecord, Control, Live
  <2>4. ASSUME Doorbell PROVE Control'
    <3>1. at' \in {"store", "idle", "wait"} /\ rest' = rest
      BY <2>4 DEF Doorbell, sendVars
    <3>2. at' = "store" => rest # <<>>
      BY <2>4 DEF Doorbell
    <3>3. at' = "wait" => phase \in {"init", "fini"}
      BY <1>1, <2>4 DEF Doorbell, Control
    <3>4. phase \in {"sw", "init", "fini"} /\ (phase = "sw" => at' # "wait")
      BY <1>1, <2>4 DEF Doorbell, Control
    <3> QED
      BY <1>1, <1>2, <3>1, <3>2, <3>3, <3>4 DEF Control, Live
  <2> QED
    BY <2>1, <2>2, <2>3, <2>4 DEF Send
<1> QED
  BY <1>3, <1>4, <1>5, <1>6 DEF RecvInv

(* The steps of the program that touch neither ring.                       *)
Turns ==
  \/ StartGsp \/ StartDrain \/ EnterMain \/ LeaveMain
  \/ HeaderSeen \/ ReadEmpty \/ PollAgain \/ HeaderTimeout \/ Timeout

LEMMA TurnsLeave ==
  Turns => /\ UNCHANGED <<sendVars, recvVars, bell>>
           /\ UNCHANGED <<cmdRead, expect, gathered, served, owed, statWrite, page, posted>>
           /\ UNCHANGED gsp \/ (gsp' = "start" /\ phase = "sw" /\ phase' = "boot")
BY DEF Turns, StartGsp, StartDrain, EnterMain, LeaveMain, HeaderSeen, ReadEmpty, PollAgain,
       HeaderTimeout, Timeout, gspVars

LEMMA RaiseControl ==
  ASSUME Control, Raise, phase # "sw", phase # "exited",
         UNCHANGED <<gsp, statWrite, posted, rx>>
  PROVE  Control'
BY DEF Control, Raise, Live

LEMMA TurnsControl ==
  ASSUME Control, Turns, phase \in Phases
  PROVE  /\ Control' /\ phase # "exited"
         /\ phase' \in {"init", "main", "fini"} => phase \in {"init", "main", "fini"}
<1>1. UNCHANGED <<statWrite, posted, rx, rest>>
  BY TurnsLeave DEF recvVars, sendVars
<1>2. ASSUME StartGsp PROVE Control' /\ phase = "sw" /\ phase' = "boot"
  BY <1>1, <1>2 DEF StartGsp, Control, Live
<1>3. ASSUME StartDrain
      PROVE  Control' /\ phase' = phase /\ phase \in {"init", "main"}
  BY <1>1, <1>3 DEF StartDrain, Control, Live, gspVars
<1>4. ASSUME EnterMain \/ LeaveMain
      PROVE  Control' /\ phase \in {"init", "main"}
  BY <1>1, <1>4 DEF EnterMain, LeaveMain, Control, Live, gspVars
<1>5. ASSUME HeaderSeen PROVE Control' /\ phase' = phase /\ phase = "boot"
  BY <1>1, <1>5 DEF HeaderSeen, Control, Live, gspVars
<1>6. ASSUME PollAgain PROVE Control' /\ phase' = phase /\ phase # "exited"
  BY <1>1, <1>6 DEF PollAgain, Control, Live, gspVars
<1>7. ASSUME HeaderTimeout \/ Timeout
      PROVE  Control' /\ phase \in {"boot", "init", "main", "fini"} /\ Raise
  <2>1. Raise /\ at \in {"header", "clock"} /\ gsp' = gsp
    BY <1>7 DEF HeaderTimeout, Timeout, gspVars
  <2>2. phase # "sw" /\ phase # "exited" /\ phase \in {"boot", "init", "main", "fini"}
    BY <2>1 DEF Control, Phases
  <2> QED
    BY <1>1, <2>1, <2>2, RaiseControl
<1>8. ASSUME ReadEmpty
      PROVE  Control' /\ phase # "exited" /\ (phase' = phase \/ Raise)
  <2>1. at \in {"wait", "drain"} /\ gsp' = gsp
    BY <1>8 DEF ReadEmpty, gspVars
  <2>2. phase # "sw" /\ phase # "exited"
    BY <2>1 DEF Control
  <2>3. Raise \/ (at' = "clock" /\ at = "wait" /\ phase' = phase)
              \/ (at' = "idle" /\ at = "drain" /\ phase' = phase)
    BY <1>8 DEF ReadEmpty
  <2>4. at' = "clock" /\ at = "wait" /\ phase' = phase => Control'
    BY <1>1, <2>1, <2>2 DEF Control, Live
  <2>5. at' = "idle" /\ at = "drain" /\ phase' = phase => Control'
    BY <1>1, <2>1, <2>2 DEF Control, Live
  <2>6. Raise => Control'
    BY <1>1, <2>1, <2>2, RaiseControl
  <2> QED
    BY <2>2, <2>3, <2>4, <2>5, <2>6
<1>9. Raise => (phase' = "fini" => phase = "main") /\ phase' \in {"fini", "exited"}
  BY DEF Raise
<1> QED
  BY <1>2, <1>3, <1>4, <1>5, <1>6, <1>7, <1>8, <1>9 DEF Turns

LEMMA TurnsKeep ==
  ASSUME RecvInv, Turns
  PROVE  RecvInv'
<1>1. TypeOK /\ Control /\ Answers /\ Unread /\ ReadsInOrder /\ Scripts /\ phase \in Phases
  BY DEF RecvInv, TypeOK
<1>2. /\ Control' /\ phase # "exited"
      /\ phase' \in {"init", "main", "fini"} => phase \in {"init", "main", "fini"}
  BY <1>1, TurnsControl
<1>3. /\ UNCHANGED <<sendVars, recvVars, bell>>
      /\ UNCHANGED <<cmdRead, expect, gathered, served, owed, statWrite, page, posted>>
      /\ gsp' = gsp \/ (gsp' = "start" /\ gsp = "off")
  BY <1>1, TurnsLeave DEF Control
<1>4. UNCHANGED <<calls, rx, read, ran>>
  BY <1>3 DEF sendVars, recvVars
<1>5. Unread' /\ ReadsInOrder' /\ Scripts'
  BY <1>1, <1>2, <1>3, <1>4, RingFrame, ScriptsFrame
<1>6. Answers'
  BY <1>1, <1>3, <1>4 DEF Answers, Request, Posted
<1>7. TypeOK'
  <2>1. phase' \in Phases /\ at' \in Places
    BY <1>1 DEF Turns, StartGsp, StartDrain, EnterMain, LeaveMain, HeaderSeen, ReadEmpty, PollAgain,
                HeaderTimeout, Timeout, Raise, Phases, Places, TypeOK
  <2>2. SendTypes' /\ RecvTypes' /\ PostTypes'
    <3>1. Len(calls') = Len(calls) /\ Len(posted') = Len(posted)
      BY <1>3, <1>4
    <3> QED
      BY <1>1, <1>3, <3>1, Lengths, TypesGrow DEF Request, Posted
  <2>3. ServeTypes'
    BY <1>1, <1>3, <1>4, TypeParts DEF Types, ServeTypes, Request
  <2> QED
    BY <1>1, <1>3, <2>1, <2>2, <2>3, TypeParts DEF Types
<1> QED
  BY <1>2, <1>5, <1>6, <1>7 DEF RecvInv

(* What the driver finds at its read pointer.                              *)
Upcoming == Seen + 1

LEMMA AtPointer ==
  ASSUME RecvInv, Reading
  PROVE  /\ Upcoming \in 1 .. Posted /\ posted[Upcoming] \in Messages
         /\ page[StatPage[rx]] = [msg |-> Upcoming, part |-> 1]
         /\ Stride(posted[Upcoming].len) \in Nat
         /\ phase \in {"boot", "init", "main", "fini"}
<1>1. TypeOK /\ Control /\ Answers /\ Unread
  BY DEF RecvInv
<1>2. PICK pos \in [Nat -> Nat] : LaidOut(pos, Seen, Posted)
  BY <1>1 DEF Unread
<1>3. statWrite # -1 /\ rx # statWrite /\ phase \in {"boot", "init", "main", "fini"}
  BY <1>1 DEF Reading, Control, TypeOK, Phases
<1>4. PICK r \in Nat, p \in Nat : r = Seen /\ p = Posted
  BY <1>1, Lengths
<1>5. /\ r + 1 \in 1 .. p /\ posted[r + 1] \in Messages
      /\ Elems(posted[r + 1].len) \in Nat \ {0}
      /\ page[StatPage[rx]] = [msg |-> r + 1, part |-> 1]
  BY <1>1, <1>2, <1>3, <1>4, NextMessage
<1>6. Stride(posted[r + 1].len) = Elems(posted[r + 1].len)
  BY <1>1, <1>4, <1>5 DEF Answers
<1> QED
  BY <1>3, <1>4, <1>5, <1>6 DEF Upcoming

LEMMA NotGarbled == RecvInv => ~(ReadGarbled /\ page[StatPage[rx]].part # 1)
BY AtPointer DEF ReadGarbled

(* Reading the next message, whatever comes of it.                         *)
LEMMA ReadRing ==
  ASSUME RecvInv, Reading, StepsOver(Upcoming), read' = Append(read, Upcoming)
  PROVE  /\ Unread' /\ ReadsInOrder' /\ Seen' = Upcoming
         /\ rx' \in 0 .. StatCount - 1 /\ read' \in Seq(0 .. Posted)
<1>1. TypeOK /\ Control /\ Answers /\ Unread /\ ReadsInOrder
  BY DEF RecvInv
<1>2. PICK pos \in [Nat -> Nat] : LaidOut(pos, Seen, Posted)
  BY <1>1 DEF Unread
<1>3. statWrite # -1 /\ rx # statWrite
  BY <1>1 DEF Reading, Control
<1>4. PICK r \in Nat, p \in Nat : r = Seen /\ p = Posted
  BY <1>1, Lengths
<1>5. LaidOut(pos, r + 1, p)'
  BY <1>1, <1>2, <1>3, <1>4, ReadLaid DEF Upcoming
<1>6. Upcoming = r + 1 /\ r + 1 \in 1 .. p
  BY <1>4, AtPointer DEF Upcoming
<1>7. /\ Seen' = r + 1 /\ read' \in Seq(0 .. Posted)
      /\ DOMAIN read' = 1 .. r + 1 /\ read'[r + 1] = r + 1
      /\ \A i \in 1 .. r : read'[i] = read[i]
  <2>1. read \in Seq(0 .. p) /\ r + 1 \in 0 .. p
    BY <1>1, <1>4, <1>6 DEF TypeOK, Posted
  <2>2. /\ read' \in Seq(0 .. p) /\ Len(read') = Len(read) + 1
        /\ read'[Len(read) + 1] = r + 1 /\ \A i \in 1 .. Len(read) : read'[i] = read[i]
    BY <1>6, <2>1, AppendProperties
  <2>3. DOMAIN read' = 1 .. Len(read')
    BY <2>2, LenProperties
  <2> QED
    BY <1>4, <2>2, <2>3 DEF Seen
<1>8. Posted' = p
  BY <1>4 DEF StepsOver, Posted
<1>9. Unread'
  BY <1>5, <1>7, <1>8 DEF Unread
<1>10. ReadsInOrder'
  <2>1. DOMAIN read = 1 .. r
    BY <1>1, <1>4, Lengths
  <2>2. \A i \in 1 .. r : read[i] = i
    BY <1>1, <2>1 DEF ReadsInOrder
  <2>3. \A i \in 1 .. r + 1 : read'[i] = i
    <3>1. \A i \in 1 .. r + 1 : i \in 1 .. r \/ i = r + 1
      OBVIOUS
    <3> QED
      BY <1>7, <2>2, <3>1
  <2> QED
    BY <1>7, <2>3 DEF ReadsInOrder
<1>11. rx' \in 0 .. StatCount - 1
  <2>1. PICK e \in Nat : e = Stride(posted[Upcoming].len)
    BY AtPointer
  <2>2. rx' = (rx + e) % StatCount
    BY <2>1 DEF StepsOver
  <2>3. rx \in Nat
    BY <1>1, Sizes DEF TypeOK
  <2>4. rx + e \in Nat
    BY <2>3
  <2> QED
    BY <2>2, <2>4, PlaceInRing
<1> QED
  BY <1>4, <1>6, <1>7, <1>9, <1>10, <1>11

(* The scripts that ran: the next message is new, and none of the messages *)
(* behind INIT_DONE is a script.                                           *)
LEMMA RunNext ==
  ASSUME RecvInv, Reading,
         ran' = IF posted[Upcoming].fn = "seq" THEN Append(ran, Upcoming) ELSE ran
  PROVE  /\ ran' \in Seq(1 .. Posted)
         /\ \A i, j \in DOMAIN ran' : i # j => ran'[i] # ran'[j]
         /\ \A j \in DOMAIN ran' : ran'[j] <= Upcoming
         /\ posted[Upcoming].fn = "seq" => \E j \in DOMAIN ran' : ran'[j] = Upcoming
         /\ \A x : (\E j \in DOMAIN ran : ran[j] = x) => \E j \in DOMAIN ran' : ran'[j] = x
         /\ phase \in {"init", "main", "fini"} => ran' = ran
<1>1. TypeOK /\ Scripts
  BY DEF RecvInv
<1>2. PICK r \in Nat : r = Seen /\ Upcoming = r + 1
  BY <1>1, Lengths DEF Upcoming
<1>3. Upcoming \in 1 .. Posted /\ phase # "exited"
  BY AtPointer
<1>4. PICK n \in Nat : n = Len(ran) /\ DOMAIN ran = 1 .. n
  BY <1>1, Lengths
<1>5. \A j \in 1 .. n : ran[j] \in Nat /\ ran[j] <= r
  <2>1. \A j \in 1 .. n : ran[j] \in 1 .. Posted
    BY <1>1, <1>4, ElementOfSeq DEF TypeOK, Posted
  <2> QED
    BY <1>1, <1>2, <1>3, <1>4, <2>1 DEF Scripts
<1>6. ASSUME posted[Upcoming].fn = "seq"
      PROVE  /\ ran' \in Seq(1 .. Posted) /\ DOMAIN ran' = 1 .. n + 1 /\ ran'[n + 1] = r + 1
             /\ \A j \in 1 .. n : ran'[j] = ran[j]
  <2>1. PICK s : s = Append(ran, Upcoming)
    OBVIOUS
  <2>2. ran \in Seq(1 .. Posted)
    BY <1>1 DEF TypeOK, Posted
  <2>3. /\ s \in Seq(1 .. Posted) /\ Len(s) = Len(ran) + 1 /\ s[Len(ran) + 1] = Upcoming
        /\ \A j \in 1 .. Len(ran) : s[j] = ran[j]
    BY <1>3, <2>1, <2>2, AppendProperties
  <2>4. DOMAIN s = 1 .. Len(s)
    BY <2>3, LenProperties
  <2>5. ran' = s
    BY <1>6, <2>1
  <2> QED
    BY <1>2, <1>4, <2>3, <2>4, <2>5
<1>7. ASSUME phase \in {"init", "main", "fini"} PROVE posted[Upcoming].fn # "seq"
  <2>1. PICK i \in 1 .. Seen : posted[i].fn = "initdone"
    BY <1>1, <1>7 DEF Scripts
  <2>2. i \in 1 .. Posted
    BY <1>1, <1>2, <1>3, Lengths
  <2>3. ~(Upcoming < i)
    BY <1>2
  <2> QED
    BY <1>1, <1>3, <2>1, <2>2, <2>3 DEF Scripts
<1>8. CASE posted[Upcoming].fn = "seq"
  <2>1. \A i, j \in 1 .. n + 1 : i # j => ran'[i] # ran'[j]
    <3>1. \A i, j \in 1 .. n : i # j => ran[i] # ran[j]
      BY <1>1, <1>4 DEF Scripts
    <3>2. ran'[n + 1] = r + 1 /\ \A i \in 1 .. n : ran'[i] = ran[i] /\ ran'[i] # r + 1
      BY <1>5, <1>6, <1>8
    <3>3. \A i \in 1 .. n + 1 : i = n + 1 \/ i \in 1 .. n
      OBVIOUS
    <3> QED
      BY <3>1, <3>2, <3>3
  <2>2. \A j \in 1 .. n + 1 : ran'[j] <= r + 1
    BY <1>5, <1>6, <1>8
  <2>3. n + 1 \in 1 .. n + 1 /\ 1 .. n \subseteq 1 .. n + 1
    OBVIOUS
  <2> QED
    BY <1>2, <1>4, <1>6, <1>7, <1>8, <2>1, <2>2, <2>3
<1>9. CASE posted[Upcoming].fn # "seq"
  <2>1. ran' = ran
    BY <1>9
  <2>2. \A j \in DOMAIN ran : ran[j] <= Upcoming
    BY <1>2, <1>4, <1>5
  <2>3. ran \in Seq(1 .. Posted) /\ \A i, j \in DOMAIN ran : i # j => ran[i] # ran[j]
    BY <1>1 DEF Scripts, TypeOK, Posted
  <2> QED
    BY <1>9, <2>1, <2>2, <2>3
<1> QED
  BY <1>8, <1>9

(* What read_resp does with the next message, in the terms above.          *)
LEMMA ReadOneIs ==
  ASSUME RecvInv, ReadOne
  PROVE  /\ Reading /\ StepsOver(Upcoming) /\ read' = Append(read, Upcoming)
         /\ ran' = IF posted[Upcoming].fn = "seq" THEN Append(ran, Upcoming) ELSE ran
         /\ isErr' = (isErr \/ posted[Upcoming].fn \in {"log", "fault"})
         /\ UNCHANGED <<sendVars, gspVars, bell>>
         /\ \/ Raise /\ got' = got
            \/ /\ Return /\ at = "wait" /\ posted[Upcoming].fn = Want
               /\ got' = IF phase = "boot" THEN got ELSE posted[Upcoming].n
            \/ UNCHANGED <<phase, at, got>>
<1>1. Reading
  BY DEF ReadOne
<1>2. page[StatPage[rx]] = [msg |-> Upcoming, part |-> 1]
  BY <1>1, AtPointer
<1>3. page[StatPage[rx]].msg = Upcoming
  BY <1>2
<1>4. UNCHANGED gspVars => UNCHANGED <<statWrite, page, posted>>
  BY DEF gspVars
<1>5. /\ read' = Append(read, Upcoming)
      /\ ran' = IF posted[Upcoming].fn = "seq" THEN Append(ran, Upcoming) ELSE ran
      /\ isErr' = (isErr \/ posted[Upcoming].fn \in {"log", "fault"})
      /\ rx' = (rx + Stride(posted[Upcoming].len)) % StatCount
      /\ UNCHANGED <<sendVars, gspVars, bell>>
  BY <1>3 DEF ReadOne
<1>6. \/ Raise /\ got' = got
      \/ /\ Return /\ at = "wait" /\ posted[Upcoming].fn = Want
         /\ got' = IF phase = "boot" THEN got ELSE posted[Upcoming].n
      \/ UNCHANGED <<phase, at, got>>
  BY <1>3 DEF ReadOne
<1> QED
  BY <1>1, <1>4, <1>5, <1>6 DEF StepsOver

LEMMA RaisesIs ==
  ASSUME RecvInv, HandlerRaises
  PROVE  /\ Reading /\ Raise
         /\ ran' = IF posted[Upcoming].fn = "seq" THEN Append(ran, Upcoming) ELSE ran
         /\ UNCHANGED <<rx, read, got, isErr, sendVars, gspVars, bell>>
<1>1. Reading
  BY DEF HandlerRaises
<1>2. page[StatPage[rx]] = [msg |-> Upcoming, part |-> 1]
  BY <1>1, AtPointer
<1>3. page[StatPage[rx]].msg = Upcoming
  BY <1>2
<1> QED
  BY <1>1, <1>3 DEF HandlerRaises

LEMMA RecvControl ==
  ASSUME RecvInv, Reading, UNCHANGED gspVars, rest' = rest, rx' \in 0 .. StatCount - 1,
         Raise \/ (Return /\ at = "wait") \/ UNCHANGED <<phase, at>>
  PROVE  Control' /\ phase' \in Phases /\ at' \in Places
<1>1. TypeOK /\ Control /\ at \in {"wait", "drain"} /\ phase \in {"boot", "init", "main", "fini"}
  BY AtPointer DEF RecvInv, Reading
<1>2. statWrite # -1 /\ UNCHANGED <<gsp, statWrite, posted>>
  BY <1>1 DEF Control, gspVars
<1>3. ASSUME Raise PROVE Control' /\ phase' \in Phases /\ at' \in Places
  BY <1>1, <1>2, <1>3 DEF Raise, Control, Live, Phases, Places
<1>4. ASSUME Return PROVE Control' /\ phase' \in Phases /\ at' \in Places
  <2>1. at' = "idle" /\ phase' \in {phase, "init", "exited"} /\ phase' # "boot"
    BY <1>1, <1>4 DEF Return
  <2> QED
    BY <1>1, <1>2, <2>1 DEF Control, Live, Phases, Places
<1>5. ASSUME UNCHANGED <<phase, at>> PROVE Control' /\ phase' \in Phases /\ at' \in Places
  BY <1>1, <1>2, <1>5 DEF Control, Live, TypeOK
<1> QED
  BY <1>3, <1>4, <1>5

LEMMA ReadKeeps ==
  ASSUME RecvInv, ReadOne
  PROVE  RecvInv'
<1>1. TypeOK /\ Control /\ Answers /\ Scripts
  BY DEF RecvInv
<1>2. /\ Reading /\ StepsOver(Upcoming) /\ read' = Append(read, Upcoming)
      /\ ran' = IF posted[Upcoming].fn = "seq" THEN Append(ran, Upcoming) ELSE ran
      /\ isErr' = (isErr \/ posted[Upcoming].fn \in {"log", "fault"})
      /\ UNCHANGED <<sendVars, gspVars, bell>>
  BY ReadOneIs
<1>3. /\ Unread' /\ ReadsInOrder' /\ Seen' = Upcoming
      /\ rx' \in 0 .. StatCount - 1 /\ read' \in Seq(0 .. Posted)
  BY <1>2, ReadRing
<1>4. /\ ran' \in Seq(1 .. Posted)
      /\ \A i, j \in DOMAIN ran' : i # j => ran'[i] # ran'[j]
      /\ \A j \in DOMAIN ran' : ran'[j] <= Upcoming
      /\ posted[Upcoming].fn = "seq" => \E j \in DOMAIN ran' : ran'[j] = Upcoming
      /\ \A x : (\E j \in DOMAIN ran : ran[j] = x) => \E j \in DOMAIN ran' : ran'[j] = x
  BY <1>2, RunNext
<1>5. /\ Upcoming \in 1 .. Posted /\ posted[Upcoming] \in Messages
      /\ phase \in {"boot", "init", "main", "fini"}
  BY <1>2, AtPointer
<1>6. \/ Raise /\ got' = got
      \/ /\ Return /\ at = "wait" /\ posted[Upcoming].fn = Want
         /\ got' = IF phase = "boot" THEN got ELSE posted[Upcoming].n
      \/ UNCHANGED <<phase, at, got>>
  BY ReadOneIs
<1>7. UNCHANGED <<calls, rest, posted, gsp, owed, served, cmdRead, expect, gathered, statWrite, page>>
  BY <1>2 DEF sendVars, gspVars
<1>8. Control' /\ phase' \in Phases /\ at' \in Places
  <2>1. Raise \/ (Return /\ at = "wait") \/ UNCHANGED <<phase, at>>
    BY <1>6
  <2>2. UNCHANGED gspVars /\ rest' = rest
    BY <1>2, <1>7
  <2> QED
    BY <1>2, <1>3, <2>1, <2>2, RecvControl
<1>9. TypeOK'
  <2>1. got' \in 0 .. Request
    <3>1. got \in 0 .. Request /\ posted[Upcoming].n \in 0 .. Request
      BY <1>1, <1>5 DEF TypeOK, Answers
    <3> QED
      BY <1>6, <3>1
  <2>2. isErr' \in BOOLEAN
    BY <1>2
  <2>3. RecvTypes'
    BY <1>3, <1>4, <1>7, <2>1, <2>2 DEF RecvTypes, Posted, Request
  <2>4. SendTypes' /\ ServeTypes' /\ PostTypes'
    <3>1. UNCHANGED sendVars /\ Len(calls') = Len(calls) /\ Len(posted') = Len(posted)
      BY <1>2, <1>7
    <3> QED
      BY <1>1, <1>7, <3>1, Lengths, TypesGrow DEF Request, Posted
  <2>5. bell' \in BOOLEAN
    BY <1>1, <1>2 DEF TypeOK
  <2> QED
    BY <1>8, <2>3, <2>4, <2>5, TypeParts DEF Types
<1>10. Answers'
  BY <1>1, <1>7 DEF Answers, Request, Posted
<1>11. Scripts'
  <2>1. PICK r \in Nat : r = Seen /\ Upcoming = r + 1
    BY <1>1, Lengths DEF Upcoming
  <2>2. \A i \in 1 .. Upcoming : posted[i].fn = "seq" => \E j \in DOMAIN ran' : ran'[j] = i
    <3>1. \A i \in 1 .. r : posted[i].fn = "seq" => \E j \in DOMAIN ran' : ran'[j] = i
      BY <1>1, <1>4, <2>1 DEF Scripts
    <3>2. \A i \in 1 .. r + 1 : i \in 1 .. r \/ i = r + 1
      OBVIOUS
    <3> QED
      BY <1>4, <2>1, <3>1, <3>2
  <2>3. phase' \in {"init", "main", "fini"} =>
          \E i \in 1 .. Upcoming : posted[i].fn = "initdone"
    <3>1. Upcoming \in 1 .. Upcoming /\ 1 .. Seen \subseteq 1 .. Upcoming
      BY <2>1
    <3>2. phase \in {"init", "main", "fini"} => \E i \in 1 .. Upcoming : posted[i].fn = "initdone"
      BY <1>1, <3>1 DEF Scripts
    <3>3. phase = "boot" /\ phase' \in {"init", "main", "fini"} => posted[Upcoming].fn = "initdone"
      BY <1>6 DEF Raise, Want
    <3> QED
      BY <1>5, <3>1, <3>2, <3>3
  <2>4. Posted' = Posted
    BY <1>7 DEF Posted
  <2> QED
    BY <1>1, <1>3, <1>4, <1>7, <2>2, <2>3, <2>4 DEF Scripts
<1> QED
  BY <1>3, <1>8, <1>9, <1>10, <1>11 DEF RecvInv

LEMMA RaisesKeep ==
  ASSUME RecvInv, HandlerRaises
  PROVE  RecvInv'
<1>1. TypeOK /\ Control /\ Answers /\ Scripts /\ Unread /\ ReadsInOrder
  BY DEF RecvInv
<1>2. /\ Reading /\ Raise
      /\ ran' = IF posted[Upcoming].fn = "seq" THEN Append(ran, Upcoming) ELSE ran
      /\ UNCHANGED <<rx, read, got, isErr, sendVars, gspVars, bell>>
  BY RaisesIs
<1>3. /\ ran' \in Seq(1 .. Posted)
      /\ \A i, j \in DOMAIN ran' : i # j => ran'[i] # ran'[j]
      /\ \A x : (\E j \in DOMAIN ran : ran[j] = x) => \E j \in DOMAIN ran' : ran'[j] = x
      /\ phase \in {"init", "main", "fini"} => ran' = ran
  BY <1>2, RunNext
<1>4. UNCHANGED <<calls, rest, posted, gsp, owed, served, cmdRead, expect, gathered, statWrite, page>>
  BY <1>2 DEF sendVars, gspVars
<1>5. Control' /\ phase' \in Phases /\ at' \in Places
  <2>1. UNCHANGED gspVars /\ rest' = rest /\ rx' \in 0 .. StatCount - 1
    BY <1>1, <1>2, <1>4 DEF TypeOK
  <2> QED
    BY <1>2, <2>1, RecvControl
<1>6. TypeOK'
  <2>1. RecvTypes'
    BY <1>1, <1>2, <1>3, <1>4 DEF RecvTypes, Posted, Request, TypeOK
  <2>2. SendTypes' /\ ServeTypes' /\ PostTypes'
    <3>1. UNCHANGED sendVars /\ Len(calls') = Len(calls) /\ Len(posted') = Len(posted)
      BY <1>2, <1>4
    <3> QED
      BY <1>1, <1>4, <3>1, Lengths, TypesGrow DEF Request, Posted
  <2>3. bell' \in BOOLEAN
    BY <1>1, <1>2 DEF TypeOK
  <2> QED
    BY <1>5, <2>1, <2>2, <2>3, TypeParts DEF Types
<1>7. Answers'
  BY <1>1, <1>4 DEF Answers, Request, Posted
<1>8. Unread' /\ ReadsInOrder'
  BY <1>1, <1>2, <1>4, RingFrame
<1>9. Scripts'
  <2>1. Seen' = Seen /\ Posted' = Posted
    BY <1>2, <1>4 DEF Seen, Posted
  <2>2. phase' # "exited" => phase = "main"
    BY <1>2 DEF Raise
  <2>3. phase' \in {"init", "main", "fini"} => phase = "main"
    BY <1>2 DEF Raise
  <2>4. phase' # "exited" => \A j \in DOMAIN ran' : ran'[j] <= Seen
    BY <1>1, <1>3, <2>2 DEF Scripts
  <2>5. \A i \in 1 .. Seen : posted[i].fn = "seq" => \E j \in DOMAIN ran' : ran'[j] = i
    BY <1>1, <1>3 DEF Scripts
  <2> QED
    BY <1>1, <1>3, <1>4, <2>1, <2>3, <2>4, <2>5 DEF Scripts
<1> QED
  BY <1>5, <1>6, <1>7, <1>8, <1>9 DEF RecvInv

(* GSP-RM between its messages.                                            *)
LEMMA GspStartKeeps ==
  ASSUME RecvInv, GspStart
  PROVE  RecvInv'
<1>1. TypeOK /\ Control /\ Answers /\ Scripts /\ Unread /\ ReadsInOrder
  BY DEF RecvInv
<1>2. /\ UNCHANGED <<phase, at, calls, rest, rx, read, ran, got, posted, page, owed>>
      /\ UNCHANGED <<sendVars, recvVars, cmdRead, expect, gathered, served>>
      /\ gsp = "start" /\ gsp' = "boot" /\ statWrite' = 0 /\ bell' = TRUE
  BY DEF GspStart, sendVars, recvVars
<1>3. statWrite = -1 /\ posted = <<>> /\ rx = 0 /\ phase # "sw"
  BY <1>1, <1>2 DEF Control
<1>4. Unread'
  <2>1. PICK pos \in [Nat -> Nat] : LaidOut(pos, Seen, Posted)
    BY <1>1 DEF Unread
  <2>2. PICK r \in Nat, p \in Nat : r = Seen /\ p = Posted
    BY <1>1, Lengths
  <2>3. Posted = 0
    BY <1>3 DEF Posted
  <2>4. r = p
    BY <2>1, <2>2, <2>3 DEF LaidOut
  <2>5. LaidOut(pos, r, p) /\ rx' = rx /\ page' = page /\ posted' = posted
    BY <1>2, <2>1, <2>2
  <2>6. statWrite' = pos[p + 1] % StatCount
    BY <1>2, <1>3, <2>4, <2>5 DEF LaidOut
  <2>7. LaidOut(pos, r, p)'
    BY <2>5, <2>6 DEF LaidOut
  <2>8. Seen' = r /\ Posted' = p
    BY <1>2, <2>2 DEF Seen, Posted
  <2> QED
    BY <2>7, <2>8 DEF Unread
<1>5. Control' /\ Answers' /\ ReadsInOrder'
  BY <1>1, <1>2, <1>3 DEF Control, Answers, ReadsInOrder, Live, Request, Posted
<1>6. Scripts'
  BY <1>1, <1>2 DEF Scripts, Seen, Posted
<1>7. TypeOK'
  <2>1. SendTypes' /\ RecvTypes'
    <3>1. Len(calls') = Len(calls) /\ Len(posted') = Len(posted)
      BY <1>2
    <3> QED
      BY <1>1, <1>2, <3>1, Lengths, TypesGrow DEF Request, Posted
  <2>2. ServeTypes /\ PostTypes /\ Request' = Request
    BY <1>1, <1>2, TypeParts DEF Types, Request
  <2>3. ServeTypes' /\ PostTypes'
    <3>1. ServeTypes'
      BY <1>2, <2>2 DEF ServeTypes
    <3>2. PostTypes'
      BY <1>2, <2>2, Sizes DEF PostTypes
    <3> QED
      BY <3>1, <3>2
  <2>4. phase' \in Phases /\ at' \in Places /\ bell' \in BOOLEAN
    BY <1>1, <1>2 DEF TypeOK
  <2> QED
    BY <2>1, <2>3, <2>4, TypeParts DEF Types
<1> QED
  BY <1>4, <1>5, <1>6, <1>7 DEF RecvInv

LEMMA GspReadTypes ==
  ASSUME RecvInv, GspRead
  PROVE  /\ ServeTypes' /\ (owed' # 0 => calls[owed'] \in CallKinds \cup {"unload"})
<1>1. TypeOK
  BY DEF RecvInv
<1>2. PICK c \in Cells : c = cmd[cmdRead]
  BY <1>1 DEF TypeOK, Cells
<1>3. c.len \in 0 .. MaxPayload /\ c.n \in 0 .. Request
  BY DEF Cells
<1>4. PICK e \in Nat : e = Elems(c.len + 1)
  BY <1>3, ElemsMax, Sizes
<1>5. /\ cmdRead' = (cmdRead + e) % CmdCount /\ expect' = expect + 1
      /\ UNCHANGED <<gsp, calls>>
  BY <1>2, <1>4 DEF GspRead, sendVars
<1>6. \/ /\ gathered' = 0 /\ served' = c.n
         /\ owed' = IF calls[c.n] \in BootKinds THEN 0 ELSE c.n
      \/ gathered' = gathered + c.len /\ served' = served /\ owed' = 0
  BY <1>2 DEF GspRead
<1>7. cmdRead' \in 0 .. CmdCount - 1
  <2>1. cmdRead + e \in Nat
    <3>1. cmdRead \in Nat
      BY <1>1, Sizes DEF TypeOK
    <3> QED
      BY <3>1
  <2>2. (cmdRead + e) % CmdCount \in 0 .. CmdCount - 1
    BY <2>1, Sizes, ModPlus, 0 \in Nat
  <2> QED
    BY <1>5, <2>2
<1>8. gathered' \in Nat /\ expect' \in Nat
  <2>1. gathered \in Nat /\ expect \in Nat
    BY <1>1 DEF TypeOK
  <2>2. c.len \in Nat
    BY <1>3, Sizes
  <2>3. gathered + c.len \in Nat
    BY <2>1, <2>2
  <2>4. gathered' \in Nat
    BY <1>6, <2>1, <2>3
  <2> QED
    BY <1>5, <2>1, <2>4
<1>9. served' \in 0 .. Request /\ owed' \in 0 .. Request
  <2>1. 0 \in 0 .. Request /\ served \in 0 .. Request
    BY <1>1, Lengths DEF TypeOK
  <2> QED
    BY <1>3, <1>6, <2>1
<1>10. ServeTypes'
  BY <1>1, <1>5, <1>7, <1>8, <1>9 DEF ServeTypes, TypeOK, Request
<1>11. owed' # 0 => calls[owed'] \in CallKinds \cup {"unload"}
  <2>1. owed' # 0 => calls[owed'] \notin BootKinds
    BY <1>6
  <2>2. owed' # 0 => calls[owed'] \in Kinds
    <3>1. owed' # 0 => owed' \in 1 .. Len(calls)
      BY <1>1, <1>9, Lengths DEF Request
    <3> QED
      BY <1>1, <3>1, ElementOfSeq DEF TypeOK
  <2> QED
    BY <2>1, <2>2 DEF Kinds
<1> QED
  BY <1>10, <1>11

LEMMA GspQuietKeeps ==
  ASSUME RecvInv, GspRead \/ GspSleep \/ GspHangs
  PROVE  RecvInv'
<1>1. TypeOK /\ Control /\ Answers /\ Scripts /\ Unread /\ ReadsInOrder
  BY DEF RecvInv
<1>2. /\ UNCHANGED <<phase, at, sendVars, recvVars, statWrite, page, posted>>
      /\ gsp' = gsp \/ (gsp # "off" /\ gsp' = "hung")
      /\ bell' = bell \/ bell' = FALSE
  BY DEF GspRead, GspSleep, GspHangs, gspVars
<1>3. UNCHANGED <<calls, rest, rx, read, ran>>
  BY <1>2 DEF sendVars, recvVars
<1>4. ServeTypes' /\ (owed' # 0 => calls[owed'] \in CallKinds \cup {"unload"})
  <2>1. CASE GspRead
    BY <2>1, GspReadTypes
  <2>2. ASSUME GspSleep \/ GspHangs
        PROVE  UNCHANGED <<cmdRead, expect, gathered, served, owed>>
    BY <2>2 DEF GspSleep, GspHangs, gspVars
  <2>3. CASE GspSleep \/ GspHangs
    <3>1. UNCHANGED <<cmdRead, expect, gathered, served, owed>>
      BY <2>2, <2>3
    <3>2. ServeTypes'
      BY <1>1, <1>2, <1>3, <3>1, TypeParts DEF Types, ServeTypes, Request
    <3> QED
      BY <1>1, <3>1, <3>2 DEF Answers
  <2> QED
    BY <2>1, <2>3
<1>5. Control'
  BY <1>1, <1>2, <1>3 DEF Control, Live
<1>6. Answers'
  BY <1>1, <1>2, <1>3, <1>4 DEF Answers, Request, Posted
<1>7. Unread' /\ ReadsInOrder'
  BY <1>1, <1>2, <1>3, RingFrame
<1>8. Scripts'
  BY <1>1, <1>2, <1>3, ScriptsFrame
<1>9. TypeOK'
  <2>1. SendTypes' /\ RecvTypes' /\ PostTypes'
    <3>1. Len(calls') = Len(calls) /\ Len(posted') = Len(posted)
      BY <1>2, <1>3
    <3> QED
      BY <1>1, <1>2, <3>1, Lengths, TypesGrow DEF Request, Posted
  <2>2. phase' \in Phases /\ at' \in Places /\ bell' \in BOOLEAN
    BY <1>1, <1>2 DEF TypeOK
  <2> QED
    BY <1>4, <2>1, <2>2, TypeParts DEF Types
<1> QED
  BY <1>5, <1>6, <1>7, <1>8, <1>9 DEF RecvInv

(* The messages GSP-RM posts: INIT_DONE once and only after every script.  *)
LEMMA PostKeeps ==
  ASSUME StatusRing, RecvInv, Live, NEW m \in Messages, Post(m),
         m.n \in 0 .. Request, Stride(m.len) = Elems(m.len),
         owed' = owed \/ owed' = 0, gsp' = gsp \/ gsp' = "up",
         m.fn = "initdone" => gsp = "boot" /\ gsp' = "up",
         m.fn = "seq" => gsp = "boot"
  PROVE  RecvInv'
<1>1. TypeOK /\ Control /\ Answers /\ Scripts /\ Unread /\ ReadsInOrder
  BY DEF RecvInv
<1>2. statWrite # -1 /\ PagesApart
  BY <1>1 DEF Control, StatusRing
<1>3. PICK pos \in [Nat -> Nat] : LaidOut(pos, Seen, Posted)
  BY <1>1 DEF Unread
<1>4. UNCHANGED <<phase, at, bell, sendVars, recvVars, cmdRead, expect, gathered, served>>
  BY DEF Post
<1>5. UNCHANGED <<calls, rest, rx, read, ran>>
  BY <1>4 DEF sendVars, recvVars
<1>6. PICK r \in Nat, p \in Nat : r = Seen /\ p = Posted
  BY <1>1, Lengths
<1>7. /\ Seen' = r /\ Posted' = p + 1 /\ posted'[p + 1] = m
      /\ \A i \in 1 .. p : posted'[i] = posted[i]
  BY <1>1, <1>5, <1>6, PostLast DEF Seen
<1>8. Unread'
  <2>1. LaidOut(pos, r, p) /\ IsPosted(p)
    BY <1>3, <1>6 DEF IsPosted
  <2>2. PICK next \in [Nat -> Nat] : LaidOut(next, r, p + 1)'
    BY <1>1, <1>2, <2>1, PostLaid
  <2> QED
    BY <1>7, <2>2 DEF Unread
<1>9. PostTypes' /\ RecvTypes' /\ SendTypes' /\ statWrite' \in 0 .. StatCount - 1
  <2>1. PostTypes' /\ RecvTypes' /\ SendTypes'
    BY <1>1, <1>2, <1>3, PostTyped
  <2>2. PICK e \in Nat, b \in Nat : statWrite' = (b + e) % StatCount
    <3>1. pos[p + 1] \in Nat
      OBVIOUS
    <3> QED
      BY <1>1, <1>2, <1>3, <1>6, <3>1, PostFits
  <2> QED
    BY <2>1, <2>2, PlaceInRing
<1>10. \A i \in 1 .. p + 1 : i \in 1 .. p \/ i = p + 1
  OBVIOUS
<1>11. r <= p /\ 1 .. r \subseteq 1 .. p
  BY <1>3, <1>6 DEF LaidOut
<1>12. ReadsInOrder'
  BY <1>1, <1>5 DEF ReadsInOrder
<1>13. Answers'
  BY <1>1, <1>5, <1>6, <1>7, <1>10 DEF Answers, Request
<1>14. Control'
  <2>1. statWrite' # -1 /\ gsp \notin {"off", "start"} /\ gsp' \notin {"off", "start"}
    BY <1>9, Sizes DEF Live
  <2> QED
    BY <1>1, <1>4, <1>5, <2>1 DEF Control, Live
<1>15. Scripts'
  <2>1. \A i \in 1 .. p : posted'[i].fn = posted[i].fn
    BY <1>7
  <2>2. gsp' \in {"off", "start", "boot"} => \A i \in 1 .. p + 1 : posted'[i].fn # "initdone"
    <3>1. gsp' \in {"off", "start", "boot"} => gsp = gsp' /\ m.fn # "initdone"
      OBVIOUS
    <3> QED
      BY <1>1, <1>6, <1>7, <1>10, <2>1, <3>1 DEF Scripts
  <2>3. \A i, k \in 1 .. p + 1 :
          posted'[i].fn = "initdone" /\ posted'[k].fn = "seq" => k < i
    <3>1. ASSUME NEW i \in 1 .. p + 1, NEW k \in 1 .. p + 1,
                 posted'[i].fn = "initdone", posted'[k].fn = "seq"
          PROVE  k < i
      <4>1. CASE k = p + 1
        <5>1. gsp = "boot" /\ m.fn # "initdone"
          BY <1>7, <3>1, <4>1
        <5> QED
          BY <1>1, <1>6, <1>7, <1>10, <2>1, <3>1, <5>1 DEF Scripts
      <4>2. CASE i = p + 1 /\ k # p + 1
        BY <4>2
      <4>3. CASE i \in 1 .. p /\ k \in 1 .. p
        BY <1>1, <1>6, <2>1, <3>1, <4>3 DEF Scripts
      <4> QED
        BY <1>10, <4>1, <4>2, <4>3
    <3> QED
      BY <3>1
  <2>4. \A i \in 1 .. r : posted'[i].fn = posted[i].fn
    BY <1>11, <2>1
  <2> QED
    BY <1>1, <1>4, <1>5, <1>6, <1>7, <2>2, <2>3, <2>4 DEF Scripts
<1>16. TypeOK'
  <2>1. ServeTypes'
    <3>1. ServeTypes /\ Request' = Request
      BY <1>1, <1>5, TypeParts DEF Types, Request
    <3>2. owed' \in 0 .. Request
      <4>1. 0 \in 0 .. Request
        BY <1>1, Lengths
      <4> QED
        BY <3>1, <4>1 DEF ServeTypes
    <3>3. gsp' \in {"off", "start", "boot", "up", "hung"}
      BY <3>1 DEF ServeTypes
    <3> QED
      BY <1>4, <3>1, <3>2, <3>3 DEF ServeTypes
  <2> QED
    BY <1>1, <1>4, <1>9, <2>1, TypeParts DEF Types
<1> QED
  BY <1>8, <1>12, <1>13, <1>14, <1>15, <1>16 DEF RecvInv

LEMMA PostsKeep ==
  ASSUME StatusRing, RecvInv, GspInitDone \/ GspReply \/ GspEvent
  PROVE  RecvInv'
<1>1. TypeOK /\ Control /\ Answers
  BY DEF RecvInv
<1>2. 0 \in 0 .. Request /\ "initdone" \in Events
  BY <1>1, Lengths DEF Events
<1>3. ASSUME NEW k \in Events
      PROVE  /\ [fn |-> k, n |-> 0, len |-> EventLen[k], ok |-> TRUE] \in Messages
             /\ Stride(EventLen[k]) = Elems(EventLen[k])
  BY LengthAssumption DEF Messages, StatusRing, StridesExact
<1>4. ASSUME GspInitDone PROVE RecvInv'
  <2>1. PICK m : m = [fn |-> "initdone", n |-> 0, len |-> EventLen["initdone"], ok |-> TRUE]
    OBVIOUS
  <2>2. /\ m \in Messages /\ Stride(m.len) = Elems(m.len)
        /\ m.fn = "initdone" /\ m.n \in 0 .. Request
    BY <1>2, <1>3, <2>1
  <2>3. Post(m) /\ gsp = "boot" /\ gsp' = "up" /\ owed' = owed
    BY <1>4, <2>1 DEF GspInitDone
  <2> QED
    BY <2>2, <2>3, PostKeeps DEF Live
<1>5. ASSUME GspEvent PROVE RecvInv'
  <2>1. PICK k \in Events :
          /\ Post([fn |-> k, n |-> 0, len |-> EventLen[k], ok |-> TRUE])
          /\ k # "initdone" /\ (k = "seq" => gsp = "boot")
    BY <1>5 DEF GspEvent, Events
  <2>2. PICK m : m = [fn |-> k, n |-> 0, len |-> EventLen[k], ok |-> TRUE]
    OBVIOUS
  <2>3. /\ m \in Messages /\ Stride(m.len) = Elems(m.len)
        /\ m.fn = k /\ m.n \in 0 .. Request /\ Post(m)
    BY <1>2, <1>3, <2>1, <2>2
  <2>4. Live /\ gsp' = gsp /\ owed' = owed
    BY <1>5 DEF GspEvent
  <2> QED
    BY <2>1, <2>3, <2>4, PostKeeps
<1>6. ASSUME GspReply PROVE RecvInv'
  <2>1. PICK k \in CallKinds \cup {"unload"} : k = calls[owed]
    BY <1>1, <1>6 DEF GspReply, Answers
  <2>2. PICK ok \in BOOLEAN : Post([fn |-> k, n |-> owed, len |-> ReplyLen[k], ok |-> ok])
    BY <1>6, <2>1 DEF GspReply
  <2>3. PICK m : m = [fn |-> k, n |-> owed, len |-> ReplyLen[k], ok |-> ok]
    OBVIOUS
  <2>4. owed \in 0 .. Request /\ owed \in Nat
    BY <1>1, Lengths DEF TypeOK
  <2>5. m \in Messages /\ m.n \in 0 .. Request
    BY <2>3, <2>4, LengthAssumption DEF Messages, Kinds
  <2>6. Stride(m.len) = Elems(m.len)
    BY <2>3 DEF StatusRing, StridesExact
  <2>7. m.fn # "initdone" /\ m.fn # "seq" /\ Post(m)
    BY <2>2, <2>3 DEF CallKinds
  <2>8. Live /\ gsp' = gsp /\ owed' = 0
    BY <1>6 DEF GspReply
  <2> QED
    BY <2>5, <2>6, <2>7, <2>8, PostKeeps
<1> QED
  BY <1>4, <1>5, <1>6

LEMMA RecvStep ==
  ASSUME StatusRing, RecvInv, [Next]_vars
  PROVE  RecvInv'
<1>1. CASE Send
  BY <1>1, SendKeeps
<1>2. CASE Turns
  BY <1>2, TurnsKeep
<1>3. CASE Read
  BY <1>3, NotGarbled, ReadKeeps DEF Read
<1>4. CASE HandlerRaises
  BY <1>4, RaisesKeep
<1>5. CASE Serve \/ GspEvent \/ GspHangs
  BY <1>5, GspStartKeeps, GspQuietKeeps, PostsKeep DEF Serve
<1>6. CASE UNCHANGED vars
  <2>1. UNCHANGED <<rx, read, ran, posted, page, statWrite, gsp, phase>>
    BY <1>6 DEF vars, recvVars, gspVars
  <2>2. Unread' /\ ReadsInOrder' /\ Scripts'
    BY <2>1, RingFrame, ScriptsFrame DEF RecvInv
  <2>3. TypeOK'
    BY <1>6 DEF RecvInv, TypeOK, vars, sendVars, recvVars, gspVars, Request
  <2>4. Control' /\ Answers'
    BY <1>6 DEF RecvInv, Control, Answers, Live, vars, sendVars, recvVars, gspVars, Request, Posted
  <2> QED
    BY <2>2, <2>3, <2>4 DEF RecvInv
<1> QED
  BY <1>1, <1>2, <1>3, <1>4, <1>5, <1>6 DEF Next, Receive, Fail, Program, Turns

(* Every page and pointer of both rings, every message and every place of  *)
(* the program is as the types say.                                        *)
THEOREM TypeCorrect == StatusRing => (Spec => []TypeOK)
<1> SUFFICES ASSUME StatusRing PROVE Spec => []TypeOK
  OBVIOUS
<1>1. Init => RecvInv
  BY RecvInit
<1>2. RecvInv /\ [Next]_vars => RecvInv'
  BY RecvStep
<1>3. RecvInv => TypeOK
  BY DEF RecvInv
<1> QED
  BY <1>1, <1>2, <1>3, PTL DEF Spec

(* read_resp hands out the messages of GSP-RM, each once and in order, at  *)
(* every size of ring and message: with pages of their own behind the      *)
(* slots, strides that agree with the writer's, and a zeroed header.       *)
THEOREM ReadsKept == StatusRing => (Spec => []ReadsInOrder)
<1> SUFFICES ASSUME StatusRing PROVE Spec => []ReadsInOrder
  OBVIOUS
<1>1. Init => RecvInv
  BY RecvInit
<1>2. RecvInv /\ [Next]_vars => RecvInv'
  BY RecvStep
<1>3. RecvInv => ReadsInOrder
  BY DEF RecvInv
<1> QED
  BY <1>1, <1>2, <1>3, PTL DEF Spec

(* Under the same, each CPU sequencer script runs once at most, and every  *)
(* one of them before the driver goes on after INIT_DONE.                  *)
THEOREM SequencerKept == StatusRing => (Spec => []SequencerOnce)
<1> SUFFICES ASSUME StatusRing PROVE Spec => []SequencerOnce
  OBVIOUS
<1>1. Init => RecvInv
  BY RecvInit
<1>2. RecvInv /\ [Next]_vars => RecvInv'
  BY RecvStep
<1>3. RecvInv => SequencerOnce
  <2> SUFFICES ASSUME RecvInv PROVE SequencerOnce
    OBVIOUS
  <2>1. Scripts /\ TypeOK
    BY DEF RecvInv
  <2>2. ASSUME phase \in {"init", "main", "fini"}, NEW i \in 1 .. Posted, posted[i].fn = "seq"
        PROVE  \E j \in DOMAIN ran : ran[j] = i
    <3>1. PICK k \in 1 .. Seen : posted[k].fn = "initdone"
      BY <2>1, <2>2 DEF Scripts
    <3>2. Seen <= Posted /\ Seen \in Nat /\ Posted \in Nat
      BY <2>1, Lengths DEF RecvInv, Unread, LaidOut
    <3>3. k \in 1 .. Posted
      BY <3>2
    <3>4. i < k
      BY <2>1, <2>2, <3>1, <3>3 DEF Scripts
    <3>5. i \in 1 .. Seen
      BY <3>1, <3>2, <3>4
    <3> QED
      BY <2>1, <2>2, <3>5 DEF Scripts
  <2>3. DOMAIN posted = 1 .. Posted
    BY <2>1, Lengths
  <2> QED
    BY <2>1, <2>2, <2>3 DEF SequencerOnce, Scripts
<1> QED
  BY <1>1, <1>2, <1>3, PTL DEF Spec

-----------------------------------------------------------------------------
(* The order of requests and replies: but for the two boot requests there  *)
(* is one request at a time, and its reply is read before the next one.    *)
Replyable == CallKinds \cup {"unload"}

UnreadReply(i) == i \in Seen + 1 .. Posted /\ posted[i].n # 0

BootFirst ==
  /\ \A n \in 1 .. Request :
       /\ n = 1 => calls[n] = "sysinfo"
       /\ n = 2 => calls[n] = "registry"
       /\ n > 2 => calls[n] \in Replyable
  /\ phase = "sw" => Request <= 2
  /\ phase = "boot" => Request = 2
  /\ phase # "sw" => Request >= 2

OneByOne ==
  /\ gsp \in {"off", "start"} => served = 0
  /\ served <= Request /\ (Request <= 2 \/ Request <= served + 1)
  /\ owed # 0 => owed = served /\ served = Request
  /\ at \notin {"store", "publish", "bell"} => rest = <<>>
  /\ got <= served

RepliesRight ==
  /\ \A i \in 1 .. Posted :
       /\ posted[i].n = 0 => posted[i].fn \in Events
       /\ posted[i].n # 0 => posted[i].fn \in Replyable /\ posted[i].n > 2
       /\ posted[i].fn = "initdone" => served >= 2
  /\ \A i \in 1 .. Posted : UnreadReply(i) =>
       /\ posted[i].n = Request /\ served = Request /\ owed = 0
       /\ \A k \in 1 .. Posted : UnreadReply(k) => k = i

Quiet == served = Request /\ owed = 0 /\ \A i \in 1 .. Posted : ~UnreadReply(i)

Settled ==
  /\ phase \in {"init", "main", "fini"} /\ at \in {"idle", "drain"} => Quiet
  /\ phase = "main" => at \in {"idle", "drain"}

OrderInv == BootFirst /\ OneByOne /\ RepliesRight /\ Settled

(* The sending side.  A request of kind k is cut into NRec(k) records; the *)
(* first i of them fill Before(k, i) pages.                                *)
NRec(k)      == CeilDiv(Payload[k], MaxPayload)
RecLen(k, i) == Min({MaxPayload, Payload[k] - i * MaxPayload})

Before(k, i) ==
  IF i = NRec(k) THEN (NRec(k) - 1) * MaxElems + Elems(RecLen(k, NRec(k) - 1) + 1)
  ELSE i * MaxElems

Span(k) == Before(k, NRec(k))

(* Every request fits the command ring, and so do the two sent before      *)
(* GSP-RM runs: 63 pages, where a request of the driver has a few.         *)
CommandsFit ==
  /\ \A k \in Kinds : Span(k) < CmdCount
  /\ Span("sysinfo") + Span("registry") < CmdCount

(* Record q, the one with that sequence number, belongs to request own[q], *)
(* brings len[q] of its payload behind the done[q] of the records before   *)
(* it, and begins place[q] pages after the first record.  Those GSP-RM has *)
(* not read are the records from e on; s is the next one the driver        *)
(* publishes, and the current request is cut up to t.                      *)
Continues(place, own, done, len, q) ==
  /\ place[q + 1] = place[q] + Elems(len[q] + 1)
  /\ done[q] + len[q] = Payload[calls[own[q]]] =>
       own[q + 1] = own[q] + 1 /\ done[q + 1] = 0
  /\ done[q] + len[q] # Payload[calls[own[q]]] =>
       own[q + 1] = own[q] /\ done[q + 1] = done[q] + len[q]

Queued(place, own, done, len, e, s, t) ==
  /\ e <= s /\ s <= t
  /\ own[e] = served + 1 /\ done[e] = gathered
  /\ own[t] = Request + 1 /\ done[t] = 0
  /\ \A q \in e .. t - 1 :
       /\ own[q] \in 1 .. Request /\ len[q] \in 1 .. MaxPayload
       /\ Continues(place, own, done, len, q)
  /\ \A q \in s .. t - 1 : own[q] = Request /\ len[q] = rest[q - s + 1]

(* The records that are in the ring lie there whole, one behind the other. *)
Cell(own, len, q, j) == [n |-> own[q], seq |-> q, len |-> len[q], part |-> j]

Stored(place, own, len, q) ==
  \A j \in 1 .. Elems(len[q] + 1) : cmd[(place[q] + j - 1) % CmdCount] = Cell(own, len, q, j)

Ringed(place, own, len, e, s, t) ==
  /\ cmdRead = place[e] % CmdCount /\ cmdWrite = place[s] % CmdCount
  /\ place[t] - place[e] \in 0 .. CmdCount - 1
  /\ \A q, k \in e .. t : q <= k => place[q] <= place[k]
  /\ \A q \in e .. s - 1 : Stored(place, own, len, q)
  /\ at = "publish" => Stored(place, own, len, s)
  /\ Request = 0 => place[t] = place[e]
  /\ phase = "sw" /\ Request = 1 => place[t] - place[e] = Span("sysinfo")

Last == seq + Len(rest)

Unserved ==
  \E place, own, done, len \in [Nat -> Nat] :
    /\ Queued(place, own, done, len, expect, seq, Last)
    /\ Ringed(place, own, len, expect, seq, Last)

CallInv == RecvInv /\ OrderInv /\ Unserved

-----------------------------------------------------------------------------
(* How a request is cut.                                                   *)

LEMMA ElemsFull ==
  Elems(MaxPayload + 1) = MaxElems
<1>1. PICK m \in Nat \ {0}, x \in Nat : m = PageLen /\ x = MaxElems
  BY Sizes
<1>2. PICK y \in Nat : y = m * x
  OBVIOUS
<1>3. PICK p \in Nat : p = y + m - 1
  BY <1>1, <1>2
<1>4. MaxPayload + 1 + 1 + PageLen - 1 = p
  BY <1>1, <1>2, <1>3, Sizes
<1>5. p \div m = x
  <2>1. PICK d \in Nat : d = p \div m /\ m * d <= p /\ p < m * d + m
    BY Quotient
  <2>2. ASSUME d >= x + 1 PROVE FALSE
    <3>1. m * d >= m * (x + 1) /\ m * (x + 1) = m * x + m
      BY <2>2
    <3>2. m * d \in Nat
      OBVIOUS
    <3> QED
      BY <1>2, <1>3, <2>1, <3>1, <3>2
  <2>3. ASSUME x >= d + 1 PROVE FALSE
    <3>1. m * x >= m * (d + 1) /\ m * (d + 1) = m * d + m
      BY <2>3
    <3>2. m * d \in Nat
      OBVIOUS
    <3> QED
      BY <1>2, <1>3, <2>1, <3>1, <3>2
  <2> QED
    BY <2>1, <2>2, <2>3
<1> QED
  BY <1>1, <1>4, <1>5 DEF Elems, CeilDiv

LEMMA RecordNumber ==
  ASSUME NEW k \in Kinds
  PROVE  /\ NRec(k) \in Nat \ {0} /\ Payload[k] \in Nat \ {0}
         /\ MaxPayload * (NRec(k) - 1) < Payload[k]
         /\ Payload[k] <= MaxPayload * NRec(k)
<1>1. PICK m \in Nat \ {0} : m = MaxPayload
  BY Sizes
<1>2. PICK len \in Nat \ {0} : len = Payload[k]
  BY LengthAssumption
<1>3. PICK p \in Nat : p = len + m - 1
  BY <1>1
<1>4. PICK q \in Nat : q = p \div m /\ m * q <= p /\ p < m * q + m
  BY Quotient
<1>5. NRec(k) = q
  BY <1>1, <1>2, <1>3, <1>4 DEF NRec, CeilDiv
<1>6. q # 0
  <2>1. q = 0 => m * q = 0
    OBVIOUS
  <2> QED
    BY <1>3, <1>4, <2>1
<1>7. m * q \in Nat /\ m * (q - 1) = m * q - m
  BY <1>6
<1>8. m * (q - 1) < len /\ len <= m * q
  BY <1>3, <1>4, <1>7
<1> QED
  BY <1>1, <1>2, <1>5, <1>6, <1>8

(* The records of a request: full ones, and the rest of it in the last.    *)
LEMMA RecordsAre ==
  ASSUME NEW k \in Kinds, NEW i \in 0 .. NRec(k) - 1
  PROVE  /\ Len(Records(Payload[k])) = NRec(k)
         /\ Records(Payload[k])[i + 1] = RecLen(k, i)
         /\ RecLen(k, i) \in 1 .. MaxPayload
         /\ i < NRec(k) - 1 =>
              RecLen(k, i) = MaxPayload /\ i * MaxPayload + RecLen(k, i) < Payload[k]
         /\ i = NRec(k) - 1 => i * MaxPayload + RecLen(k, i) = Payload[k]
<1>1. PICK m \in Nat \ {0}, len \in Nat \ {0}, q \in Nat \ {0} :
        m = MaxPayload /\ len = Payload[k] /\ q = NRec(k)
  BY Sizes, RecordNumber
<1>2. m * (q - 1) < len /\ len <= m * q
  BY <1>1, RecordNumber
<1>3. PICK j \in Nat : j = i /\ j <= q - 1
  BY <1>1
<1>4. PICK a \in Nat : a = j * m
  OBVIOUS
<1>5. PICK r : r = RecLen(k, i)
  OBVIOUS
<1>6. r = IF m <= len - a THEN m ELSE len - a
  <2>1. r = Min({m, len - a})
    BY <1>1, <1>3, <1>4, <1>5 DEF RecLen
  <2> QED
    BY <2>1, MinTwo
<1>7. j = q - 1 => r = len - a /\ a < len
  <2>1. j = q - 1 => a = m * (q - 1) /\ a = m * q - m
    BY <1>4
  <2>2. m * q \in Nat
    OBVIOUS
  <2> QED
    BY <1>2, <1>6, <2>1, <2>2
<1>8. j < q - 1 => r = m /\ a + m < len
  <2>1. ASSUME j < q - 1 PROVE a + m <= m * (q - 1)
    <3>1. PICK d \in Nat : q - 1 = (j + 1) + d
      BY <2>1
    <3>2. m * (q - 1) = m * j + m + m * d
      BY <3>1
    <3>3. m * j \in Nat /\ m * d \in Nat /\ a = m * j
      BY <1>4
    <3> QED
      BY <3>2, <3>3
  <2>2. m * (q - 1) \in Int
    OBVIOUS
  <2> QED
    BY <1>2, <1>6, <2>1, <2>2
<1>9. r \in 1 .. m
  BY <1>3, <1>6, <1>7, <1>8
<1>10. Len(Records(Payload[k])) = q
  BY <1>1, RecordLens DEF NRec
<1>11. Records(Payload[k])[i + 1] = r
  <2>1. i + 1 \in 1 .. CeilDiv(len, m) /\ (i + 1) - 1 = i
    BY <1>1, <1>3 DEF NRec
  <2>2. Records(len)[i + 1] = Min({MaxPayload, len - ((i + 1) - 1) * MaxPayload})
    BY <1>1, <2>1 DEF Records
  <2> QED
    BY <1>1, <1>5, <2>1, <2>2 DEF RecLen
<1> QED
  BY <1>1, <1>3, <1>4, <1>5, <1>7, <1>8, <1>9, <1>10, <1>11

(* The places of its records.                                              *)
LEMMA BeforeNext ==
  ASSUME NEW k \in Kinds, NEW i \in 0 .. NRec(k) - 1
  PROVE  Before(k, i + 1) = Before(k, i) + Elems(RecLen(k, i) + 1)
<1>1. PICK q \in Nat \ {0}, x \in Nat : q = NRec(k) /\ x = MaxElems
  BY Sizes, RecordNumber
<1>2. Before(k, i) = i * x
  BY <1>1 DEF Before
<1>3. CASE i = q - 1
  BY <1>1, <1>2, <1>3 DEF Before
<1>4. CASE i < q - 1
  <2>1. Elems(RecLen(k, i) + 1) = x
    BY <1>1, <1>4, RecordsAre, ElemsFull
  <2>2. Before(k, i + 1) = (i + 1) * x
    BY <1>1, <1>4 DEF Before
  <2> QED
    BY <1>2, <2>1, <2>2
<1> QED
  BY <1>1, <1>3, <1>4

LEMMA BeforeGrows ==
  ASSUME NEW k \in Kinds, NEW i \in 0 .. NRec(k), NEW j \in 0 .. NRec(k), i <= j
  PROVE  /\ Before(k, i) \in Nat /\ Before(k, 0) = 0
         /\ Before(k, i) <= Before(k, j)
<1>1. PICK q \in Nat \ {0}, x \in Nat : q = NRec(k) /\ x = MaxElems
  BY Sizes, RecordNumber
<1>2. PICK e \in Nat : e = Elems(RecLen(k, q - 1) + 1)
  <2>1. RecLen(k, q - 1) \in 1 .. MaxPayload
    BY <1>1, RecordsAre
  <2> QED
    BY <2>1, ElemsMax, Sizes
<1>3. \A d \in 0 .. q : Before(k, d) = IF d = q THEN (q - 1) * x + e ELSE d * x
  BY <1>1, <1>2 DEF Before
<1>4. (q - 1) * x \in Nat /\ (\A d \in 0 .. q : d * x \in Nat) /\ 0 * x = 0
  OBVIOUS
<1>5. \A d \in 0 .. q : Before(k, d) \in Nat
  BY <1>2, <1>3, <1>4
<1>6. Before(k, 0) = 0
  BY <1>1, <1>3, <1>4
<1>7. \A c, d \in 0 .. q - 1 : c <= d => c * x <= d * x
  <2> SUFFICES ASSUME NEW c \in 0 .. q - 1, NEW d \in 0 .. q - 1, c <= d
               PROVE  c * x <= d * x
    OBVIOUS
  <2>1. PICK b \in Nat : d = c + b
    OBVIOUS
  <2>2. d * x = c * x + b * x /\ b * x \in Nat /\ c * x \in Nat
    BY <2>1
  <2> QED
    BY <2>2
<1>8. CASE j = q /\ i # q
  <2>1. Before(k, j) = (q - 1) * x + e /\ Before(k, i) = i * x
    BY <1>1, <1>3, <1>8
  <2>2. i * x <= (q - 1) * x /\ i * x \in Nat
    BY <1>1, <1>4, <1>7, <1>8
  <2> QED
    BY <1>1, <1>2, <1>4, <1>5, <1>6, <2>1, <2>2
<1>9. CASE j # q
  <2>1. Before(k, j) = j * x /\ Before(k, i) = i * x
    BY <1>1, <1>3, <1>9
  <2> QED
    BY <1>1, <1>5, <1>6, <1>7, <1>9, <2>1
<1>10. CASE i = q /\ j = q
  BY <1>1, <1>5, <1>6, <1>10
<1> QED
  BY <1>1, <1>8, <1>9, <1>10

-----------------------------------------------------------------------------
(* The steps on the command ring.                                          *)

IsRing(e, s, t) == e = expect /\ s = seq /\ t = Last

LEMMA RingBounds ==
  ASSUME TypeOK, Unserved
  PROVE  \E place, own, done, len \in [Nat -> Nat], e, s, t \in Nat :
           /\ IsRing(e, s, t) /\ e <= s /\ s <= t
           /\ Queued(place, own, done, len, e, s, t)
           /\ Ringed(place, own, len, e, s, t)
<1>1. PICK place, own, done, len \in [Nat -> Nat] :
        /\ Queued(place, own, done, len, expect, seq, Last)
        /\ Ringed(place, own, len, expect, seq, Last)
  BY DEF Unserved
<1>2. expect \in Nat /\ seq \in Nat /\ Last \in Nat
  BY LenProperties DEF TypeOK, Last
<1>3. expect <= seq /\ seq <= Last
  BY <1>1 DEF Queued
<1> QED
  BY <1>1, <1>2, <1>3 DEF IsRing

LEMMA QueueFrame ==
  ASSUME Unserved,
         UNCHANGED <<calls, rest, seq, cmd, cmdWrite, cmdRead, expect, gathered, served>>,
         at' = "publish" => at = "publish", phase' = "sw" => phase = "sw"
  PROVE  Unserved'
<1>1. PICK place, own, done, len \in [Nat -> Nat] :
        /\ Queued(place, own, done, len, expect, seq, Last)
        /\ Ringed(place, own, len, expect, seq, Last)
  BY DEF Unserved
<1>2. Last' = Last /\ Request' = Request
  BY DEF Last, Request
<1>3. Queued(place, own, done, len, expect, seq, Last)'
  BY <1>1, <1>2 DEF Queued, Continues
<1>4. Ringed(place, own, len, expect, seq, Last)'
  BY <1>1, <1>2 DEF Ringed, Stored
<1> QED
  BY <1>3, <1>4 DEF Unserved

LEMMA CmdPlace ==
  ASSUME NEW x \in Nat, NEW d \in Nat
  PROVE  x % CmdCount \in 0 .. CmdCount - 1 /\ ((x % CmdCount) + d) % CmdCount = (x + d) % CmdCount
BY Sizes, ModPlus

(* The next record is the current request's.                               *)
NextIs(place, own, len, s, t) ==
  /\ s < t /\ own[s] = Request /\ Head(rest) = len[s] /\ len[s] \in 1 .. MaxPayload
  /\ Elems(len[s] + 1) \in 1 .. MaxElems
  /\ place[s + 1] = place[s] + Elems(len[s] + 1)

LEMMA NextRecord ==
  ASSUME TypeOK, NEW place \in [Nat -> Nat], NEW own \in [Nat -> Nat], NEW done \in [Nat -> Nat],
         NEW len \in [Nat -> Nat], NEW e \in Nat, NEW s \in Nat, NEW t \in Nat,
         IsRing(e, s, t), Queued(place, own, done, len, e, s, t), rest # <<>>
  PROVE  NextIs(place, own, len, s, t)
<1>1. rest \in Seq(1 .. MaxPayload) /\ Len(rest) \in Nat \ {0} /\ Head(rest) = rest[1]
  BY LenProperties, EmptySeq DEF TypeOK
<1>2. s < t
  BY <1>1 DEF IsRing, Last
<1>3. s \in s .. t - 1 /\ s \in e .. t - 1 /\ s - s + 1 = 1
  BY <1>2 DEF Queued
<1>4. own[s] = Request /\ len[s] = rest[1] /\ len[s] \in 1 .. MaxPayload
      /\ place[s + 1] = place[s] + Elems(len[s] + 1)
  <2>1. len[s] \in 1 .. MaxPayload /\ Continues(place, own, done, len, s)
    BY <1>3 DEF Queued
  <2>2. own[s] = Request /\ len[s] = rest[s - s + 1]
    BY <1>3 DEF Queued
  <2>3. place[s + 1] = place[s] + Elems(len[s] + 1)
    BY <2>1 DEF Continues
  <2> QED
    BY <1>3, <2>1, <2>2, <2>3
<1>5. len[s] \in 1 .. MaxPayload /\ MaxPayload \in Nat
  BY <1>3, Sizes DEF Queued
<1>6. len[s] \in 0 .. MaxPayload
  BY <1>5
<1>7. Elems(len[s] + 1) \in 1 .. MaxElems
  BY <1>6, ElemsMax
<1> QED
  BY <1>1, <1>2, <1>4, <1>5, <1>7 DEF NextIs

LEMMA PublishRing ==
  ASSUME TypeOK, Control, Unserved, PublishRecord
  PROVE  Unserved'
<1>1. PICK place, own, done, len \in [Nat -> Nat], e, s, t \in Nat :
        /\ IsRing(e, s, t) /\ e <= s /\ s <= t
        /\ Queued(place, own, done, len, e, s, t)
        /\ Ringed(place, own, len, e, s, t)
  BY RingBounds
<1>2. rest # <<>> /\ at = "publish" /\ TypeOK
  BY DEF PublishRecord, Control
<1>3. /\ s < t /\ Head(rest) = len[s] /\ Elems(len[s] + 1) \in 1 .. MaxElems
      /\ place[s + 1] = place[s] + Elems(len[s] + 1)
  <2>1. NextIs(place, own, len, s, t)
    BY <1>1, <1>2, NextRecord
  <2> QED
    BY <2>1 DEF NextIs
<1>4. /\ at' = "bell" /\ seq' = seq + 1 /\ rest' = Tail(rest)
      /\ cmdWrite' = (cmdWrite + Elems(len[s] + 1)) % CmdCount
      /\ UNCHANGED <<phase, calls, cmd, cmdRead, expect, gathered, served>>
  BY <1>3 DEF PublishRecord, gspVars
<1>5. PICK tail \in Seq(1 .. MaxPayload) :
        tail = Tail(rest) /\ Len(tail) = Len(rest) - 1
        /\ \A i \in 1 .. Len(rest) - 1 : tail[i] = rest[i + 1]
  BY <1>2, HeadTailProperties DEF TypeOK
<1>6. Len(rest) = t - s /\ Len(rest) \in Nat
  BY <1>1, LenProperties DEF IsRing, Last, TypeOK
<1>7. IsRing(e, s + 1, t)'
  <2>1. e = expect' /\ s + 1 = seq'
    BY <1>1, <1>4 DEF IsRing
  <2>2. Len(rest') = t - s - 1
    BY <1>4, <1>5, <1>6
  <2>3. t = seq' + Len(rest')
    BY <2>1, <2>2
  <2> QED
    BY <2>1, <2>3 DEF IsRing, Last
<1>8. Queued(place, own, done, len, e, s + 1, t)'
  <2>1. \A q \in s + 1 .. t - 1 : own[q] = Request /\ len[q] = tail[q - (s + 1) + 1]
    <3> SUFFICES ASSUME NEW q \in s + 1 .. t - 1
                 PROVE  own[q] = Request /\ len[q] = tail[q - (s + 1) + 1]
      OBVIOUS
    <3>1. q \in s .. t - 1 /\ q - (s + 1) + 1 = q - s /\ q - s \in 1 .. Len(rest) - 1
      BY <1>6
    <3>2. own[q] = Request /\ len[q] = rest[q - s + 1]
      BY <1>1, <3>1 DEF Queued
    <3>3. tail[q - s] = rest[q - s + 1]
      BY <1>5, <3>1
    <3> QED
      BY <3>1, <3>2, <3>3
  <2>2. e <= s + 1 /\ s + 1 <= t
    BY <1>1, <1>3
  <2>3. Request' = Request /\ rest' = tail
    BY <1>4, <1>5 DEF Request
  <2>4. /\ own[e] = served' + 1 /\ done[e] = gathered'
        /\ own[t] = Request' + 1 /\ done[t] = 0
        /\ \A q \in e .. t - 1 :
             /\ own[q] \in 1 .. Request' /\ len[q] \in 1 .. MaxPayload
             /\ Continues(place, own, done, len, q)'
    BY <1>1, <1>4, <2>3 DEF Queued, Continues
  <2> QED
    BY <2>1, <2>2, <2>3, <2>4 DEF Queued
<1>9. Ringed(place, own, len, e, s + 1, t)'
  <2>1. cmdWrite' = place[s + 1] % CmdCount
    <3>1. place[s] \in Nat /\ Elems(len[s] + 1) \in Nat
      BY <1>3, Sizes
    <3>2. cmdWrite = place[s] % CmdCount
      BY <1>1 DEF Ringed
    <3>3. cmdWrite' = (place[s] + Elems(len[s] + 1)) % CmdCount
      BY <1>4, <3>1, <3>2, CmdPlace
    <3> QED
      BY <1>3, <3>3
  <2>2. \A q \in e .. s : Stored(place, own, len, q)
    <3>1. \A q \in e .. s : q \in e .. s - 1 \/ q = s
      OBVIOUS
    <3> QED
      BY <1>1, <1>2, <3>1 DEF Ringed
  <2>3. \A q \in e .. s : Stored(place, own, len, q)'
    BY <1>4, <2>2 DEF Stored
  <2>4. (s + 1) - 1 = s /\ Request' = Request
    BY <1>4 DEF Request
  <2> QED
    BY <1>1, <1>4, <2>1, <2>3, <2>4 DEF Ringed
<1> QED
  BY <1>7, <1>8, <1>9 DEF Unserved, IsRing

(* How far behind the write pointer a slot is.                             *)
SlotsBehind(z) == (z + CmdCount - cmdWrite) % CmdCount

LEMMA BehindIs ==
  ASSUME NEW w \in Nat, NEW y \in Nat, cmdWrite = w % CmdCount
  PROVE  /\ y - w \in 0 .. CmdCount - 1 => SlotsBehind(y % CmdCount) = y - w
         /\ y + CmdCount - w \in 0 .. CmdCount - 1 =>
              SlotsBehind(y % CmdCount) = y + CmdCount - w
<1>1. ASSUME NEW x \in Nat, x - w \in 0 .. CmdCount - 1
      PROVE  SlotsBehind(x % CmdCount) = x - w
  BY <1>1, Sizes, ModGap DEF SlotsBehind
<1>2. PICK c \in Nat \ {0} : c = CmdCount
  BY Sizes
<1>3. PICK r \in 0 .. c - 1 : r = y % c
  BY ModPlus, 0 \in Nat
<1>4. (y + c) % c = y % c
  <2>1. (r + c) % c = r
    BY ModSmall
  <2>2. ((y % c) + c) % c = (y + c) % c
    BY ModPlus
  <2> QED
    BY <1>3, <2>1, <2>2
<1>5. ASSUME y + CmdCount - w \in 0 .. CmdCount - 1
      PROVE  SlotsBehind(y % CmdCount) = y + CmdCount - w
  <2>1. PICK x \in Nat : x = y + c
    OBVIOUS
  <2>2. x - w \in 0 .. CmdCount - 1 /\ x - w = y + CmdCount - w
    BY <1>2, <1>5, <2>1
  <2>3. SlotsBehind(x % CmdCount) = x - w
    BY <1>1, <2>2
  <2>4. x % CmdCount = y % CmdCount
    BY <1>2, <1>4, <2>1
  <2> QED
    BY <2>2, <2>3, <2>4
<1> QED
  BY <1>1, <1>5

LEMMA StoreRing ==
  ASSUME TypeOK, Control, Unserved, StoreRecord
  PROVE  Unserved'
<1>1. PICK place, own, done, len \in [Nat -> Nat], e, s, t \in Nat :
        /\ IsRing(e, s, t) /\ e <= s /\ s <= t
        /\ Queued(place, own, done, len, e, s, t)
        /\ Ringed(place, own, len, e, s, t)
  BY RingBounds
<1>2. rest # <<>> /\ TypeOK
  BY DEF StoreRecord, Control
<1>3. NextIs(place, own, len, s, t)
  BY <1>1, <1>2, NextRecord
<1>4. PICK n \in Nat : n = Elems(len[s] + 1) /\ place[s + 1] = place[s] + n
  BY <1>3, Sizes DEF NextIs
<1>5. PICK c \in Nat \ {0} : c = CmdCount
  BY Sizes
<1>6. PICK w \in Nat, p \in Nat : w = place[s] /\ p = place[e]
  OBVIOUS
<1>7. w + n <= p + c - 1
  <2>1. s + 1 \in e .. t /\ t \in e .. t /\ s + 1 <= t
    BY <1>1, <1>3 DEF NextIs
  <2>2. place[s + 1] <= place[t] /\ place[t] - place[e] \in 0 .. CmdCount - 1
    BY <1>1, <2>1 DEF Ringed
  <2>3. place[t] \in Nat
    OBVIOUS
  <2> QED
    BY <1>4, <1>5, <1>6, <2>2, <2>3
<1>8. cmdWrite = w % c
  BY <1>1, <1>5, <1>6 DEF Ringed
<1>9. \A z \in 0 .. c - 1 :
        /\ SlotsBehind(z) < n =>
             cmd'[z] = [n |-> own[s], seq |-> s, len |-> len[s], part |-> SlotsBehind(z) + 1]
        /\ ~(SlotsBehind(z) < n) => cmd'[z] = cmd[z]
  <2>1. DOMAIN cmd = 0 .. c - 1
    BY <1>5 DEF TypeOK
  <2>2. Head(rest) = len[s] /\ own[s] = Request /\ s = seq
    BY <1>1, <1>3 DEF NextIs, IsRing
  <2> QED
    BY <1>4, <2>1, <2>2 DEF StoreRecord, SlotsBehind
<1>10. ASSUME NEW y \in Nat
       PROVE  y % c \in 0 .. c - 1
  BY <1>5, CmdPlace, 0 \in Nat
<1>11. ASSUME NEW q \in e .. s - 1, NEW j \in 1 .. Elems(len[q] + 1)
       PROVE  cmd'[(place[q] + j - 1) % CmdCount] = cmd[(place[q] + j - 1) % CmdCount]
  <2>1. q \in e .. t - 1 /\ q \in e .. t /\ q + 1 \in e .. t /\ s \in e .. t /\ e \in e .. t
        /\ e <= q /\ q + 1 <= s
    BY <1>1
  <2>2. len[q] \in 1 .. MaxPayload /\ place[q + 1] = place[q] + Elems(len[q] + 1)
    BY <1>1, <2>1 DEF Queued, Continues
  <2>3. place[e] <= place[q] /\ place[q + 1] <= place[s]
    BY <1>1, <2>1 DEF Ringed
  <2>4. PICK m \in Nat, x \in Nat : m = Elems(len[q] + 1) /\ x = place[q]
    <3>1. MaxPayload \in Nat /\ len[q] \in 0 .. MaxPayload
      BY <2>2, Sizes
    <3>2. Elems(len[q] + 1) \in Nat
      BY <3>1, ElemsMax, Sizes
    <3> QED
      BY <3>2
  <2>5. PICK y \in Nat : y = x + j - 1 /\ y >= p /\ y < w
    <3>1. j \in Nat /\ j >= 1 /\ j <= m
      BY <2>4
    <3>2. p <= x /\ x + m <= w
      BY <1>6, <2>2, <2>3, <2>4
    <3> QED
      BY <3>1, <3>2
  <2>6. y + c - w \in 0 .. c - 1 /\ ~(y + c - w < n)
    BY <1>7, <2>5
  <2>7. SlotsBehind(y % c) = y + c - w
    BY <1>5, <1>8, <2>6, BehindIs
  <2>8. cmd'[y % c] = cmd[y % c]
    BY <1>9, <1>10, <2>6, <2>7
  <2> QED
    BY <1>5, <2>4, <2>5, <2>8
<1>12. \A q \in e .. s - 1 : Stored(place, own, len, q)'
  <2> SUFFICES ASSUME NEW q \in e .. s - 1
               PROVE  Stored(place, own, len, q)'
    OBVIOUS
  <2>1. Stored(place, own, len, q)
    BY <1>1 DEF Ringed
  <2> QED
    BY <1>11, <2>1 DEF Stored
<1>13. Stored(place, own, len, s)'
  <2>1. ASSUME NEW j \in 1 .. n
        PROVE  cmd'[(place[s] + j - 1) % CmdCount] = Cell(own, len, s, j)
    <3>1. PICK y \in Nat : y = w + j - 1 /\ y - w = j - 1
      OBVIOUS
    <3>2. y - w \in 0 .. c - 1
      <4>1. w >= p
        <5>1. e \in e .. t /\ s \in e .. t
          BY <1>1
        <5> QED
          BY <1>1, <1>6, <5>1 DEF Ringed
      <4>2. n <= c
        <5>1. w + n <= p + c - 1 /\ w - p \in Int
          BY <1>7
        <5>2. p - w <= c - n
          BY <1>7, <4>1
        <5>3. n \in 1 .. MaxElems
          BY <1>3, <1>4 DEF NextIs
        <5> QED
          BY <1>5, <5>3, Sizes
      <4> QED
        BY <3>1, <4>2
    <3>3. SlotsBehind(y % c) = y - w
      BY <1>5, <1>8, <3>2, BehindIs
    <3>4. SlotsBehind(y % c) = j - 1 /\ j - 1 < n /\ (j - 1) + 1 = j
      BY <3>1, <3>3
    <3>5. cmd'[y % c] = [n |-> own[s], seq |-> s, len |-> len[s], part |-> SlotsBehind(y % c) + 1]
      BY <1>9, <1>10, <3>4
    <3>6. cmd'[y % c] = [n |-> own[s], seq |-> s, len |-> len[s], part |-> j]
      BY <3>4, <3>5
    <3> QED
      BY <1>5, <1>6, <3>1, <3>6 DEF Cell
  <2> QED
    BY <1>4, <2>1 DEF Stored
<1>14. UNCHANGED <<phase, calls, rest, seq, cmdWrite, cmdRead, expect, gathered, served>>
  BY DEF StoreRecord, gspVars
<1>15. IsRing(e, s, t)'
  BY <1>1, <1>14 DEF IsRing, Last
<1>16. Queued(place, own, done, len, e, s, t)'
  BY <1>1, <1>14 DEF Queued, Continues, Request
<1>17. Ringed(place, own, len, e, s, t)'
  BY <1>1, <1>12, <1>13, <1>14 DEF Ringed, Request
<1> QED
  BY <1>15, <1>16, <1>17 DEF Unserved, IsRing

(* A request is issued only when the ring has room for all of it.          *)
Fits(place, e, s, k) ==
  /\ place[s] + Span(k) - place[e] \in 0 .. CmdCount - 1
  /\ Request' # 0
  /\ phase' = "sw" /\ Request' = 1 => place[s] + Span(k) - place[e] = Span("sysinfo")

LEMMA IssueFits ==
  ASSUME CommandsFit, TypeOK, BootFirst, OneByOne, Settled, NEW k \in Kinds, Issue(k),
         NEW place \in [Nat -> Nat], NEW own \in [Nat -> Nat], NEW done \in [Nat -> Nat],
         NEW len \in [Nat -> Nat], NEW e \in Nat, NEW s \in Nat,
         Queued(place, own, done, len, e, s, s), Ringed(place, own, len, e, s, s)
  PROVE  Fits(place, e, s, k)
<1> USE DEF Fits
<1>1. PICK c \in Nat \ {0} : c = CmdCount
  BY Sizes
<1>2. \A d \in Kinds : Span(d) \in Nat /\ Span(d) < c
  BY <1>1, BeforeGrows, RecordNumber DEF Span, CommandsFit
<1>3. PICK x \in Nat, y \in Nat : x = place[e] /\ y = place[s]
  OBVIOUS
<1>4. PICK n \in Nat : n = Request /\ Request' = n + 1
  <2>1. calls \in Seq(Kinds) /\ calls' = Append(calls, k)
    BY DEF TypeOK, Issue
  <2>2. Len(calls') = Len(calls) + 1 /\ Len(calls) \in Nat
    BY <2>1, AppendProperties, LenProperties
  <2> QED
    BY <2>2 DEF Request
<1>5. at = "idle" /\ phase' = phase /\ k \in Issuable
  BY DEF Issue
<1>6. CASE phase \in {"init", "fini"}
  <2>1. served = Request
    BY <1>5, <1>6 DEF Settled, Quiet
  <2>2. own[e] = n + 1 /\ (\A q \in e .. s - 1 : own[q] <= n) /\ e <= s
    BY <1>4, <2>1 DEF Queued
  <2>3. e = s
    <3>1. e < s => e \in e .. s - 1
      OBVIOUS
    <3>2. ~(n + 1 <= n)
      OBVIOUS
    <3>3. ~(e < s)
      BY <2>2, <3>1, <3>2
    <3> QED
      BY <2>2, <3>3
  <2>4. y + Span(k) - x = Span(k)
    BY <1>2, <1>3, <2>3
  <2> QED
    BY <1>1, <1>2, <1>3, <1>4, <1>5, <1>6, <2>4
<1>7. CASE phase = "sw" /\ n = 0
  <2>1. k = "sysinfo"
    BY <1>4, <1>5, <1>7 DEF Issuable
  <2>2. y = x
    BY <1>3, <1>4, <1>7 DEF Ringed
  <2>3. y + Span(k) - x = Span(k)
    BY <1>2, <2>2
  <2> QED
    BY <1>1, <1>2, <1>3, <1>4, <2>1, <2>3
<1>8. CASE phase = "sw" /\ n = 1
  <2>1. k = "registry" /\ "sysinfo" \in Kinds
    BY <1>4, <1>5, <1>8 DEF Issuable, Kinds, BootKinds
  <2>2. y - x = Span("sysinfo")
    BY <1>3, <1>4, <1>8 DEF Ringed
  <2>3. y + Span(k) - x = Span("sysinfo") + Span("registry")
    BY <1>2, <2>1, <2>2
  <2>4. y + Span(k) - x \in 0 .. c - 1
    BY <1>1, <1>2, <2>1, <2>3 DEF CommandsFit
  <2> QED
    BY <1>1, <1>3, <1>4, <1>8, <2>4
<1>9. phase \in {"init", "fini"} \/ (phase = "sw" /\ (n = 0 \/ n = 1))
  BY <1>4, <1>5 DEF Issuable
<1> QED
  BY <1>6, <1>7, <1>8, <1>9

(* The records of request m, of kind k, from record s on.                  *)
CutUp(place, own, done, len, s, k, m) ==
  /\ \A i \in 0 .. NRec(k) - 1 :
       /\ own[s + i] = m /\ len[s + i] = RecLen(k, i)
       /\ place[s + i + 1] = place[s + i] + Elems(len[s + i] + 1)
       /\ done[s + i] + len[s + i] = Payload[k] =>
            own[s + i + 1] = m + 1 /\ done[s + i + 1] = 0
       /\ done[s + i] + len[s + i] # Payload[k] =>
            own[s + i + 1] = m /\ done[s + i + 1] = done[s + i] + len[s + i]
  /\ own[s + NRec(k)] = m + 1 /\ done[s + NRec(k)] = 0
  /\ place[s + NRec(k)] = place[s] + Span(k)
  /\ \A i, j \in 0 .. NRec(k) : i <= j => place[s + i] <= place[s + j]

SameTo(f, g, s) == \A q \in 0 .. s : f[q] = g[q]

LEMMA CutLaid ==
  ASSUME NEW k \in Kinds, NEW m \in Nat, NEW s \in Nat,
         NEW place \in [Nat -> Nat], NEW own \in [Nat -> Nat],
         NEW done \in [Nat -> Nat], NEW len \in [Nat -> Nat], own[s] = m, done[s] = 0
  PROVE  \E place2, own2, done2, len2 \in [Nat -> Nat] :
           /\ SameTo(place2, place, s) /\ SameTo(own2, own, s) /\ SameTo(done2, done, s)
           /\ SameTo(len2, len, s - 1)
           /\ CutUp(place2, own2, done2, len2, s, k, m)
<1>1. PICK n \in Nat \ {0}, pay \in Nat \ {0}, max \in Nat \ {0} :
        n = NRec(k) /\ pay = Payload[k] /\ max = MaxPayload
  BY RecordNumber, Sizes
<1>2. PICK base \in Nat : base = place[s]
  OBVIOUS
<1>3. \A i \in 0 .. n : Before(k, i) \in Nat
  BY <1>1, BeforeGrows
<1>4. \A i \in 0 .. n - 1 :
        /\ RecLen(k, i) \in 1 .. max
        /\ i < n - 1 => RecLen(k, i) = max /\ i * max + RecLen(k, i) < pay
        /\ i = n - 1 => i * max + RecLen(k, i) = pay
  BY <1>1, RecordsAre
<1> DEFINE P == [q \in Nat |-> IF q <= s THEN place[q]
                               ELSE IF q <= s + n THEN base + Before(k, q - s) ELSE 0]
           O == [q \in Nat |-> IF q <= s THEN own[q] ELSE IF q < s + n THEN m ELSE m + 1]
           D == [q \in Nat |-> IF q <= s THEN done[q] ELSE IF q < s + n THEN (q - s) * max ELSE 0]
           L == [q \in Nat |-> IF q < s THEN len[q]
                               ELSE IF q < s + n THEN RecLen(k, q - s) ELSE 1]
<1>5. P \in [Nat -> Nat]
  <2>1. ASSUME NEW q \in Nat, q > s, q <= s + n PROVE base + Before(k, q - s) \in Nat
    <3>1. q - s \in 0 .. n
      BY <2>1
    <3> QED
      BY <1>3, <3>1
  <2>2. ASSUME NEW q \in Nat
        PROVE  (IF q <= s THEN place[q]
                ELSE IF q <= s + n THEN base + Before(k, q - s) ELSE 0) \in Nat
    <3>1. CASE q <= s
      BY <3>1
    <3>2. CASE q > s /\ q <= s + n
      BY <2>1, <3>2
    <3>3. CASE q > s /\ ~(q <= s + n)
      BY <3>3
    <3> QED
      BY <3>1, <3>2, <3>3
  <2> QED
    BY <2>2
<1>6. O \in [Nat -> Nat]
  OBVIOUS
<1>7. D \in [Nat -> Nat]
  <2>1. ASSUME NEW q \in Nat, q > s PROVE (q - s) * max \in Nat
    <3>1. q - s \in Nat
      BY <2>1
    <3> QED
      BY <3>1
  <2> QED
    BY <2>1
<1>8. L \in [Nat -> Nat]
  <2>1. ASSUME NEW q \in Nat, q >= s, q < s + n PROVE RecLen(k, q - s) \in Nat
    <3>1. q - s \in 0 .. n - 1
      BY <2>1
    <3> QED
      BY <1>4, <3>1
  <2>2. ASSUME NEW q \in Nat
        PROVE  (IF q < s THEN len[q]
                ELSE IF q < s + n THEN RecLen(k, q - s) ELSE 1) \in Nat
    <3>1. CASE q < s
      BY <3>1
    <3>2. CASE q >= s /\ q < s + n
      BY <2>1, <3>2
    <3>3. CASE q >= s /\ ~(q < s + n)
      BY <3>3
    <3> QED
      BY <3>1, <3>2, <3>3
  <2> QED
    BY <2>2
<1>9. SameTo(P, place, s) /\ SameTo(O, own, s) /\ SameTo(D, done, s) /\ SameTo(L, len, s - 1)
  BY DEF SameTo
<1>10. ASSUME NEW i \in 0 .. n
       PROVE  P[s + i] = base + Before(k, i)
  <2>1. s + i \in Nat /\ s + i - s = i /\ s + i <= s + n
    OBVIOUS
  <2>2. CASE i = 0
    <3>1. Before(k, 0) = 0
      BY <1>1, BeforeGrows
    <3> QED
      BY <1>2, <2>2, <3>1
  <2>3. CASE i # 0
    BY <2>1, <2>3
  <2> QED
    BY <2>2, <2>3
<1>11. ASSUME NEW i \in 0 .. n - 1
       PROVE  O[s + i] = m
  <2>1. s + i \in Nat /\ s + i < s + n
    OBVIOUS
  <2>2. CASE i = 0
    <3>1. s + i = s
      BY <2>2
    <3> QED
      BY <3>1
  <2>3. CASE i # 0
    BY <2>1, <2>3
  <2> QED
    BY <2>2, <2>3
<1>12. O[s + n] = m + 1 /\ D[s + n] = 0
  BY <1>1
<1>13. ASSUME NEW i \in 0 .. n - 1
       PROVE  D[s + i] = i * max /\ L[s + i] = RecLen(k, i)
  <2>1. s + i \in Nat /\ s + i - s = i /\ s + i < s + n
    OBVIOUS
  <2>2. L[s + i] = RecLen(k, i)
    BY <2>1
  <2>3. CASE i = 0
    BY <1>1, <2>3
  <2>4. CASE i # 0
    BY <2>1, <2>4
  <2> QED
    BY <2>2, <2>3, <2>4
<1> HIDE DEF P, O, D, L
<1>14. ASSUME NEW i \in 0 .. n - 1
       PROVE  /\ O[s + i] = m /\ L[s + i] = RecLen(k, i)
              /\ P[s + i + 1] = P[s + i] + Elems(L[s + i] + 1)
              /\ D[s + i] + L[s + i] = pay => O[s + i + 1] = m + 1 /\ D[s + i + 1] = 0
              /\ D[s + i] + L[s + i] # pay =>
                   O[s + i + 1] = m /\ D[s + i + 1] = D[s + i] + L[s + i]
  <2>1. i \in 0 .. n /\ i + 1 \in 0 .. n /\ s + (i + 1) = s + i + 1
    OBVIOUS
  <2>2. O[s + i] = m /\ L[s + i] = RecLen(k, i) /\ D[s + i] = i * max
    BY <1>11, <1>13
  <2>3. P[s + i + 1] = P[s + i] + Elems(L[s + i] + 1)
    <3>1. P[s + i] = base + Before(k, i) /\ P[s + i + 1] = base + Before(k, i + 1)
      BY <1>10, <2>1
    <3>2. Before(k, i + 1) = Before(k, i) + Elems(RecLen(k, i) + 1)
      BY <1>1, BeforeNext
    <3>3. Before(k, i) \in Nat /\ Elems(RecLen(k, i) + 1) \in Nat
      <4>1. RecLen(k, i) \in 0 .. MaxPayload
        BY <1>1, <1>4
      <4> QED
        BY <1>3, <2>1, <4>1, ElemsMax, Sizes
    <3> QED
      BY <2>2, <3>1, <3>2, <3>3
  <2>4. CASE i = n - 1
    <3>1. D[s + i] + L[s + i] = pay
      BY <1>4, <2>2, <2>4
    <3>2. s + i + 1 = s + n
      BY <2>4
    <3> QED
      BY <1>12, <2>2, <2>3, <3>1, <3>2
  <2>5. CASE i < n - 1
    <3>1. RecLen(k, i) = max /\ i * max + RecLen(k, i) < pay
      BY <1>4, <2>5
    <3>2. i + 1 \in 0 .. n - 1
      BY <2>5
    <3>3. O[s + i + 1] = m /\ D[s + i + 1] = (i + 1) * max
      BY <1>11, <1>13, <2>1, <3>2
    <3>4. (i + 1) * max = i * max + max /\ i * max \in Nat
      OBVIOUS
    <3> QED
      BY <2>2, <2>3, <3>1, <3>3, <3>4
  <2> QED
    BY <2>4, <2>5
<1>15. P[s + n] = P[s] + Span(k)
  <2>1. P[s + n] = base + Before(k, n) /\ P[s + 0] = base + Before(k, 0) /\ s + 0 = s
    BY <1>10
  <2>2. Before(k, 0) = 0 /\ Before(k, n) = Span(k)
    BY <1>1, BeforeGrows DEF Span
  <2> QED
    BY <2>1, <2>2
<1>16. ASSUME NEW i \in 0 .. n, NEW j \in 0 .. n, i <= j
       PROVE  P[s + i] <= P[s + j]
  <2>1. Before(k, i) <= Before(k, j) /\ Before(k, i) \in Nat /\ Before(k, j) \in Nat
    BY <1>1, <1>3, <1>16, BeforeGrows
  <2> QED
    BY <1>10, <2>1
<1>17. CutUp(P, O, D, L, s, k, m)
  BY <1>1, <1>12, <1>14, <1>15, <1>16 DEF CutUp
<1> QED
  BY <1>5, <1>6, <1>7, <1>8, <1>9, <1>17

LEMMA IssueRing ==
  ASSUME CommandsFit, TypeOK, BootFirst, OneByOne, Settled, Unserved,
         NEW k \in Kinds, Issue(k)
  PROVE  Unserved'
<1>1. PICK place, own, done, len \in [Nat -> Nat], e, s, t \in Nat :
        /\ IsRing(e, s, t) /\ e <= s /\ s <= t
        /\ Queued(place, own, done, len, e, s, t)
        /\ Ringed(place, own, len, e, s, t)
  BY RingBounds
<1>2. t = s
  <2>1. rest = <<>>
    BY DEF Issue, OneByOne
  <2>2. Len(rest) = 0
    BY <2>1
  <2> QED
    BY <1>1, <2>2 DEF IsRing, Last
<1>3. Queued(place, own, done, len, e, s, s) /\ Ringed(place, own, len, e, s, s)
  BY <1>1, <1>2
<1>4. PICK m \in Nat : m = Request + 1 /\ m - 1 = Request /\ m \in 1 .. m
  <2>1. PICK n \in Nat : n = Request
    BY Lengths
  <2>2. n + 1 \in Nat /\ n + 1 - 1 = n /\ n + 1 \in 1 .. n + 1
    OBVIOUS
  <2> QED
    BY <2>1, <2>2
<1>5. own[s] = m /\ done[s] = 0
  BY <1>3, <1>4 DEF Queued
<1>6. PICK place2, own2, done2, len2 \in [Nat -> Nat] :
        /\ SameTo(place2, place, s) /\ SameTo(own2, own, s) /\ SameTo(done2, done, s)
        /\ SameTo(len2, len, s - 1)
        /\ CutUp(place2, own2, done2, len2, s, k, m)
  BY <1>5, CutLaid
<1>7. PICK n \in Nat \ {0} : n = NRec(k)
  BY RecordNumber
<1>8. /\ Request' = m /\ calls'[m] = k /\ \A i \in 1 .. m - 1 : calls'[i] = calls[i]
  <2>1. calls \in Seq(Kinds) /\ calls' = Append(calls, k) /\ Len(calls) \in Nat
    BY LenProperties DEF TypeOK, Issue
  <2>2. Len(calls') = Len(calls) + 1
    BY <2>1, AppendProperties
  <2> QED
    BY <1>4, <2>1, <2>2, AppendProperties DEF Request
<1>9. /\ at' = "store" /\ rest' = Records(Payload[k])
      /\ UNCHANGED <<phase, seq, cmd, cmdWrite, cmdRead, expect, gathered, served>>
  BY DEF Issue, gspVars
<1>10. Len(rest') = n /\ \A i \in 0 .. n - 1 : rest'[i + 1] = RecLen(k, i)
  <2>1. 0 \in 0 .. n - 1
    OBVIOUS
  <2> QED
    BY <1>7, <1>9, <2>1, RecordsAre
<1>11. IsRing(e, s, s + n)'
  BY <1>1, <1>9, <1>10 DEF IsRing, Last
<1>12. \A q \in e .. s + n : q \in e .. s \/ \E i \in 0 .. n : q = s + i
  <2> SUFFICES ASSUME NEW q \in e .. s + n, q > s
               PROVE  \E i \in 0 .. n : q = s + i
    OBVIOUS
  <2>1. q - s \in 0 .. n /\ q = s + (q - s)
    OBVIOUS
  <2> QED
    BY <2>1
<1>13. \A q \in e .. s + n - 1 : q \in e .. s - 1 \/ \E i \in 0 .. n - 1 : q = s + i
  <2> SUFFICES ASSUME NEW q \in e .. s + n - 1, q >= s
               PROVE  \E i \in 0 .. n - 1 : q = s + i
    OBVIOUS
  <2>1. q - s \in 0 .. n - 1 /\ q = s + (q - s)
    OBVIOUS
  <2> QED
    BY <2>1
<1>14. /\ \A q \in e .. s : place2[q] = place[q] /\ own2[q] = own[q] /\ done2[q] = done[q]
       /\ \A q \in e .. s - 1 : len2[q] = len[q]
  <2>1. e .. s \subseteq 0 .. s /\ e .. s - 1 \subseteq 0 .. s - 1
    OBVIOUS
  <2> QED
    BY <1>6, <2>1 DEF SameTo
<1>15. Queued(place2, own2, done2, len2, e, s, s + n)'
  <2>1. ASSUME NEW q \in e .. s - 1
        PROVE  /\ own2[q] \in 1 .. m /\ len2[q] \in 1 .. MaxPayload
               /\ Continues(place2, own2, done2, len2, q)'
    <3>1. q \in e .. s /\ q + 1 \in e .. s
      OBVIOUS
    <3>2. /\ own[q] \in 1 .. Request /\ len[q] \in 1 .. MaxPayload
          /\ Continues(place, own, done, len, q)
      BY <1>3 DEF Queued
    <3>3. own[q] \in 1 .. m - 1 /\ calls'[own[q]] = calls[own[q]]
      BY <1>4, <1>8, <3>2
    <3>4. /\ place2[q] = place[q] /\ own2[q] = own[q] /\ done2[q] = done[q] /\ len2[q] = len[q]
          /\ place2[q + 1] = place[q + 1] /\ own2[q + 1] = own[q + 1] /\ done2[q + 1] = done[q + 1]
      BY <1>14, <3>1
    <3>5. Continues(place2, own2, done2, len2, q)'
      BY <3>2, <3>3, <3>4 DEF Continues
    <3> QED
      BY <3>2, <3>3, <3>4, <3>5
  <2>2. ASSUME NEW q \in e .. s + n - 1, NEW i \in 0 .. n - 1, q = s + i
        PROVE  /\ own2[q] = m /\ len2[q] = rest'[q - s + 1] /\ len2[q] \in 1 .. MaxPayload
               /\ Continues(place2, own2, done2, len2, q)'
    <3>1. /\ own2[q] = m /\ len2[q] = RecLen(k, i)
          /\ place2[q + 1] = place2[q] + Elems(len2[q] + 1)
          /\ done2[q] + len2[q] = Payload[k] => own2[q + 1] = m + 1 /\ done2[q + 1] = 0
          /\ done2[q] + len2[q] # Payload[k] =>
               own2[q + 1] = m /\ done2[q + 1] = done2[q] + len2[q]
      BY <1>6, <1>7, <2>2 DEF CutUp
    <3>2. calls'[own2[q]] = k
      BY <1>8, <3>1
    <3>3. q - s + 1 = i + 1
      BY <2>2
    <3>4. RecLen(k, i) \in 1 .. MaxPayload
      BY <1>7, RecordsAre
    <3>5. Continues(place2, own2, done2, len2, q)'
      BY <3>1, <3>2 DEF Continues
    <3>6. len2[q] = rest'[q - s + 1]
      BY <1>10, <3>1, <3>3
    <3> QED
      BY <3>1, <3>4, <3>5, <3>6
  <2>3. \A q \in e .. s + n - 1 :
          /\ own2[q] \in 1 .. m /\ len2[q] \in 1 .. MaxPayload
          /\ Continues(place2, own2, done2, len2, q)'
    <3> SUFFICES ASSUME NEW q \in e .. s + n - 1
                 PROVE  /\ own2[q] \in 1 .. m /\ len2[q] \in 1 .. MaxPayload
                        /\ Continues(place2, own2, done2, len2, q)'
      OBVIOUS
    <3>1. CASE q \in e .. s - 1
      BY <2>1, <3>1
    <3>2. CASE \E i \in 0 .. n - 1 : q = s + i
      BY <1>4, <2>2, <3>2
    <3> QED
      BY <1>13, <3>1, <3>2
  <2>4. \A q \in s .. s + n - 1 : own2[q] = m /\ len2[q] = rest'[q - s + 1]
    <3> SUFFICES ASSUME NEW q \in s .. s + n - 1
                 PROVE  own2[q] = m /\ len2[q] = rest'[q - s + 1]
      OBVIOUS
    <3>1. q \in e .. s + n - 1
      BY <1>1
    <3>2. q - s \in 0 .. n - 1 /\ q = s + (q - s)
      OBVIOUS
    <3> QED
      BY <2>2, <3>1, <3>2
  <2>5. own2[e] = served' + 1 /\ done2[e] = gathered'
    <3>1. e \in e .. s
      BY <1>1
    <3> QED
      BY <1>3, <1>9, <1>14, <3>1 DEF Queued
  <2>6. own2[s + n] = m + 1 /\ done2[s + n] = 0
    BY <1>6, <1>7 DEF CutUp
  <2>7. e <= s /\ s <= s + n
    BY <1>1
  <2>8. own2[s + n] = Request' + 1
    BY <1>8, <2>6
  <2>9. \A q \in e .. s + n - 1 :
          /\ own2[q] \in 1 .. Request' /\ len2[q] \in 1 .. MaxPayload
          /\ Continues(place2, own2, done2, len2, q)'
    BY <1>8, <2>3
  <2>10. \A q \in s .. s + n - 1 : own2[q] = Request' /\ len2[q] = rest'[q - s + 1]
    BY <1>8, <2>4
  <2> QED
    BY <2>5, <2>6, <2>7, <2>8, <2>9, <2>10 DEF Queued
<1>16. Ringed(place2, own2, len2, e, s, s + n)'
  <2>1. place2[e] = place[e] /\ place2[s] = place[s]
    BY <1>1, <1>14
  <2>2. place2[s + n] = place[s] + Span(k)
    BY <1>6, <1>7, <2>1 DEF CutUp
  <2>3. /\ place[s] + Span(k) - place[e] \in 0 .. CmdCount - 1
        /\ Request' # 0
        /\ phase' = "sw" /\ Request' = 1 => place[s] + Span(k) - place[e] = Span("sysinfo")
    <3>1. Fits(place, e, s, k)
      BY <1>3, IssueFits
    <3> QED
      BY <3>1 DEF Fits
  <2>4. \A q \in e .. s - 1 : Stored(place2, own2, len2, q)'
    <3> SUFFICES ASSUME NEW q \in e .. s - 1
                 PROVE  Stored(place2, own2, len2, q)'
      OBVIOUS
    <3>1. Stored(place, own, len, q)
      BY <1>3 DEF Ringed
    <3>2. place2[q] = place[q] /\ own2[q] = own[q] /\ len2[q] = len[q]
      BY <1>14
    <3> QED
      BY <1>9, <3>1, <3>2 DEF Stored, Cell
  <2>5. \A q, r \in e .. s + n : q <= r => place2[q] <= place2[r]
    <3> SUFFICES ASSUME NEW q \in e .. s + n, NEW r \in e .. s + n, q <= r
                 PROVE  place2[q] <= place2[r]
      OBVIOUS
    <3>1. CASE q \in e .. s /\ r \in e .. s
      BY <1>3, <1>14, <3>1 DEF Ringed
    <3>2. ASSUME NEW i \in 0 .. n, NEW j \in 0 .. n, i <= j
          PROVE  place2[s + i] <= place2[s + j]
      BY <1>6, <1>7, <3>2 DEF CutUp
    <3>3. ASSUME NEW j \in 0 .. n, q \in e .. s
          PROVE  place2[q] <= place2[s + j]
      <4>1. s \in e .. s /\ q <= s /\ 0 \in 0 .. n /\ 0 <= j /\ s + 0 = s
        BY <1>1, <3>3
      <4>2. place2[q] <= place2[s]
        <5>1. place[q] <= place[s]
          BY <1>3, <3>3, <4>1 DEF Ringed
        <5> QED
          BY <1>14, <3>3, <4>1, <5>1
      <4>3. place2[s + 0] <= place2[s + j]
        BY <3>2, <4>1
      <4>4. place2[q] \in Nat /\ place2[s] \in Nat /\ place2[s + j] \in Nat
        <5>1. q \in Nat /\ s + j \in Nat
          BY <3>3
        <5> QED
          BY <5>1
      <4> QED
        BY <4>1, <4>2, <4>3, <4>4
    <3>4. ASSUME NEW j \in 0 .. n, r = s + j PROVE place2[q] <= place2[r]
      <4>1. CASE q \in e .. s
        BY <3>3, <3>4, <4>1
      <4>2. ASSUME NEW i \in 0 .. n, q = s + i PROVE place2[q] <= place2[r]
        <5>1. i <= j
          BY <3>4, <4>2
        <5> QED
          BY <3>2, <3>4, <4>2, <5>1
      <4> QED
        BY <1>12, <4>1, <4>2
    <3>5. CASE r \in e .. s
      <4>1. q \in e .. s
        BY <3>5
      <4> QED
        BY <3>1, <3>5, <4>1
    <3> QED
      BY <1>12, <3>4, <3>5
  <2>6. cmdRead = place[e] % CmdCount /\ cmdWrite = place[s] % CmdCount
    BY <1>3 DEF Ringed
  <2>7. place2[s + n] - place2[e] \in 0 .. CmdCount - 1
        /\ (phase' = "sw" /\ Request' = 1 => place2[s + n] - place2[e] = Span("sysinfo"))
    <3>1. PICK x \in Nat, y \in Nat, z \in Nat :
            x = place[s] /\ y = place[e] /\ z = Span(k)
      <4>1. NRec(k) \in 0 .. NRec(k)
        BY <1>7
      <4>2. Span(k) \in Nat
        BY <4>1, BeforeGrows DEF Span
      <4> QED
        BY <4>2
    <3>2. place2[s + n] = x + z /\ place2[e] = y
      BY <2>1, <2>2, <3>1
    <3>3. x + z - y \in 0 .. CmdCount - 1
      BY <2>3, <3>1
    <3>4. phase' = "sw" /\ Request' = 1 => x + z - y = Span("sysinfo")
      BY <2>3, <3>1
    <3> QED
      BY <3>2, <3>3, <3>4
  <2>8. cmdRead' = place2[e] % CmdCount /\ cmdWrite' = place2[s] % CmdCount
    BY <1>9, <2>1, <2>6
  <2> QED
    BY <1>9, <2>3, <2>4, <2>5, <2>7, <2>8 DEF Ringed
<1> QED
  BY <1>7, <1>11, <1>15, <1>16 DEF Unserved, IsRing

(* What GSP-RM finds at its read pointer: the next record, whole.          *)
Found(own, len, e, s) ==
  /\ e < s /\ own[e] = served + 1 /\ own[e] \in 1 .. Request
  /\ len[e] \in 1 .. MaxPayload /\ Elems(len[e] + 1) \in 1 .. MaxElems
  /\ cmd[cmdRead] = Cell(own, len, e, 1)

LEMMA AtCommand ==
  ASSUME NEW place \in [Nat -> Nat], NEW own \in [Nat -> Nat], NEW done \in [Nat -> Nat],
         NEW len \in [Nat -> Nat], NEW e \in Nat, NEW s \in Nat, NEW t \in Nat,
         Queued(place, own, done, len, e, s, t), Ringed(place, own, len, e, s, t),
         cmdRead # cmdWrite
  PROVE  Found(own, len, e, s)
<1>1. e <= s /\ s <= t /\ own[e] = served + 1
  BY DEF Queued
<1>2. cmdRead = place[e] % CmdCount /\ cmdWrite = place[s] % CmdCount
  BY DEF Ringed
<1>3. e # s
  BY <1>2
<1>4. e < s /\ e \in e .. s - 1 /\ e \in e .. t - 1
  BY <1>1, <1>3
<1>5. own[e] \in 1 .. Request /\ len[e] \in 1 .. MaxPayload
  BY <1>4 DEF Queued
<1>6. MaxPayload \in Nat
  BY Sizes
<1>7. len[e] \in 0 .. MaxPayload
  BY <1>5, <1>6
<1>8. Elems(len[e] + 1) \in 1 .. MaxElems
  BY <1>7, ElemsMax
<1>9. 1 \in 1 .. Elems(len[e] + 1)
  BY <1>8, Sizes
<1>10. cmd[(place[e] + 1 - 1) % CmdCount] = Cell(own, len, e, 1)
  BY <1>4, <1>9 DEF Ringed, Stored
<1>11. place[e] + 1 - 1 = place[e]
  OBVIOUS
<1> QED
  BY <1>1, <1>2, <1>4, <1>5, <1>8, <1>10, <1>11 DEF Found

(* What GSP-RM does with it.                                               *)
Carried(own, done, len, e) ==
  /\ cmdRead' = (cmdRead + Elems(len[e] + 1)) % CmdCount /\ expect' = e + 1
  /\ UNCHANGED <<phase, at, calls, rest, seq, cmd, cmdWrite, gsp, recvVars, posted, statWrite, page>>
  /\ done[e] = gathered /\ owed = 0 /\ Live
  /\ \/ /\ done[e] + len[e] = Payload[calls[own[e]]]
        /\ gathered' = 0 /\ served' = served + 1
        /\ owed' = IF calls[own[e]] \in BootKinds THEN 0 ELSE own[e]
     \/ /\ done[e] + len[e] # Payload[calls[own[e]]]
        /\ gathered' = done[e] + len[e] /\ served' = served /\ owed' = 0

LEMMA GspReadIs ==
  ASSUME GspRead,
         NEW place \in [Nat -> Nat], NEW own \in [Nat -> Nat], NEW done \in [Nat -> Nat],
         NEW len \in [Nat -> Nat], NEW e \in Nat, NEW s \in Nat, NEW t \in Nat,
         IsRing(e, s, t),
         Queued(place, own, done, len, e, s, t), Ringed(place, own, len, e, s, t)
  PROVE  Found(own, len, e, s) /\ Carried(own, done, len, e)
<1>1. cmdRead # cmdWrite
  BY DEF GspRead
<1>2. Found(own, len, e, s)
  BY <1>1, AtCommand
<1>3. PICK c : c = cmd[cmdRead]
  OBVIOUS
<1>4. c.n = own[e] /\ c.len = len[e]
  BY <1>2, <1>3 DEF Found, Cell
<1>5. done[e] = gathered /\ own[e] = served + 1 /\ expect = e
  BY DEF Queued, IsRing
<1>6. /\ cmdRead' = (cmdRead + Elems(c.len + 1)) % CmdCount /\ expect' = expect + 1
      /\ UNCHANGED <<phase, at, calls, rest, seq, cmd, cmdWrite, gsp, recvVars, posted, statWrite, page>>
      /\ owed = 0 /\ Live
  BY <1>3 DEF GspRead, sendVars
<1>7. \/ /\ gathered + c.len = Payload[calls[c.n]]
         /\ gathered' = 0 /\ served' = c.n
         /\ owed' = IF calls[c.n] \in BootKinds THEN 0 ELSE c.n
      \/ /\ gathered + c.len # Payload[calls[c.n]]
         /\ gathered' = gathered + c.len /\ served' = served /\ owed' = owed
  BY <1>3 DEF GspRead
<1> QED
  BY <1>2, <1>4, <1>5, <1>6, <1>7 DEF Carried

LEMMA ServeRing ==
  ASSUME TypeOK, Control, Unserved, GspRead
  PROVE  Unserved'
<1>1. PICK place, own, done, len \in [Nat -> Nat], e, s, t \in Nat :
        /\ IsRing(e, s, t) /\ e <= s /\ s <= t
        /\ Queued(place, own, done, len, e, s, t)
        /\ Ringed(place, own, len, e, s, t)
  BY RingBounds
<1>2. Found(own, len, e, s) /\ Carried(own, done, len, e)
  BY <1>1, GspReadIs
<1>3. e + 1 <= s /\ e \in e .. t - 1 /\ e + 1 \in e .. t /\ t \in e .. t /\ e \in e .. t
  BY <1>1, <1>2 DEF Found
<1>4. Continues(place, own, done, len, e)
  BY <1>1, <1>3 DEF Queued
<1>5. UNCHANGED <<phase, at, calls, rest, seq, cmd, cmdWrite>>
  BY <1>2 DEF Carried
<1>6. IsRing(e + 1, s, t)'
  BY <1>1, <1>2, <1>5 DEF Carried, IsRing, Last
<1>7. own[e + 1] = served' + 1 /\ done[e + 1] = gathered'
  <2>1. own[e] = served + 1 /\ done[e] = gathered
    BY <1>2 DEF Found, Carried
  <2>2. CASE done[e] + len[e] = Payload[calls[own[e]]]
    BY <1>2, <1>4, <2>1, <2>2 DEF Carried, Continues
  <2>3. CASE done[e] + len[e] # Payload[calls[own[e]]]
    BY <1>2, <1>4, <2>1, <2>3 DEF Carried, Continues
  <2> QED
    BY <2>2, <2>3
<1>8. Queued(place, own, done, len, e + 1, s, t)'
  <2>1. \A q \in e + 1 .. t - 1 : q \in e .. t - 1
    OBVIOUS
  <2>2. Request' = Request /\ UNCHANGED <<calls, rest>>
    BY <1>5 DEF Request
  <2>3. \A q \in e + 1 .. t - 1 :
          /\ own[q] \in 1 .. Request' /\ len[q] \in 1 .. MaxPayload
          /\ Continues(place, own, done, len, q)'
    BY <1>1, <2>1, <2>2 DEF Queued, Continues
  <2>4. /\ own[t] = Request' + 1 /\ done[t] = 0
        /\ \A q \in s .. t - 1 : own[q] = Request' /\ len[q] = rest'[q - s + 1]
    BY <1>1, <2>2 DEF Queued
  <2> QED
    BY <1>1, <1>3, <1>7, <2>3, <2>4 DEF Queued
<1>9. Ringed(place, own, len, e + 1, s, t)'
  <2>1. place[e + 1] = place[e] + Elems(len[e] + 1)
    BY <1>4 DEF Continues
  <2>2. PICK n \in Nat : n = Elems(len[e] + 1) /\ n >= 1
    BY <1>2, Sizes DEF Found
  <2>3. cmdRead' = place[e + 1] % CmdCount
    <3>1. cmdRead = place[e] % CmdCount
      BY <1>1 DEF Ringed
    <3>2. ((place[e] % CmdCount) + n) % CmdCount = (place[e] + n) % CmdCount
      BY CmdPlace
    <3>3. cmdRead' = (cmdRead + n) % CmdCount
      BY <1>2, <2>2 DEF Carried
    <3> QED
      BY <2>1, <2>2, <3>1, <3>2, <3>3
  <2>4. place[t] - place[e + 1] \in 0 .. CmdCount - 1
    <3>1. PICK x \in Nat, y \in Nat, z \in Nat, c \in Nat :
            x = place[e] /\ y = place[e + 1] /\ z = place[t] /\ c = CmdCount
      <4>1. CmdCount \in Nat /\ e + 1 \in Nat
        BY Sizes
      <4> QED
        BY <4>1
    <3>2. place[e + 1] <= place[t] /\ place[t] - place[e] \in 0 .. CmdCount - 1
      BY <1>1, <1>3 DEF Ringed
    <3>3. y = x + n /\ y <= z /\ z - x \in 0 .. c - 1
      BY <2>1, <2>2, <3>1, <3>2
    <3>4. z - y \in 0 .. c - 1
      BY <2>2, <3>3
    <3> QED
      BY <3>1, <3>4
  <2>5. \A q, k \in e + 1 .. t : q <= k => place[q] <= place[k]
    <3>1. \A q \in e + 1 .. t : q \in e .. t
      OBVIOUS
    <3> QED
      BY <1>1, <3>1 DEF Ringed
  <2>6. \A q \in e + 1 .. s - 1 : Stored(place, own, len, q)'
    <3>1. \A q \in e + 1 .. s - 1 : q \in e .. s - 1
      OBVIOUS
    <3> QED
      BY <1>1, <1>5, <3>1 DEF Ringed, Stored
  <2>7. at' = "publish" => Stored(place, own, len, s)'
    BY <1>1, <1>5 DEF Ringed, Stored
  <2>8. Request' # 0 /\ phase' # "sw"
    <3>1. Request' # 0
      BY <1>2, <1>5 DEF Found, Request
    <3>2. phase # "sw"
      BY <1>2 DEF Carried, Control, Live
    <3> QED
      BY <1>5, <3>1, <3>2
  <2>9. cmdWrite' = place[s] % CmdCount
    BY <1>1, <1>5 DEF Ringed
  <2> QED
    BY <2>3, <2>4, <2>5, <2>6, <2>7, <2>8, <2>9 DEF Ringed
<1> QED
  BY <1>3, <1>6, <1>8, <1>9 DEF Unserved, IsRing

RingStill ==
  /\ UNCHANGED <<calls, rest, seq, cmd, cmdWrite, cmdRead, expect, gathered, served>>
  /\ at' = "publish" => at = "publish"
  /\ phase' = "sw" => phase = "sw"

(* The steps that leave the command ring alone.                            *)
LEMMA ElsewhereStill ==
  ASSUME RecvInv,
         \/ Doorbell \/ Turns \/ ReadOne \/ HandlerRaises \/ GspStart \/ GspSleep \/ GspHangs
         \/ GspInitDone \/ GspReply \/ GspEvent \/ UNCHANGED vars
  PROVE  RingStill
<1>1. Doorbell => RingStill
  BY DEF Doorbell, RingStill, sendVars, gspVars
<1>2. ASSUME Turns PROVE RingStill
  <2>1. UNCHANGED sendVars /\ UNCHANGED <<cmdRead, expect, gathered, served>>
    BY <1>2, TurnsLeave
  <2>2. (at' = "publish" => at = "publish") /\ (phase' = "sw" => phase = "sw")
    BY <1>2 DEF Turns, StartGsp, StartDrain, EnterMain, LeaveMain, HeaderSeen, ReadEmpty, PollAgain,
                HeaderTimeout, Timeout, Raise
  <2> QED
    BY <2>1, <2>2 DEF RingStill, sendVars
<1>3. ASSUME ReadOne PROVE RingStill
  <2>1. UNCHANGED sendVars /\ UNCHANGED gspVars
    BY <1>3, ReadOneIs
  <2>2. Raise \/ Return \/ UNCHANGED <<phase, at>>
    BY <1>3, ReadOneIs
  <2>3. (at' = "publish" => at = "publish") /\ (phase' = "sw" => phase = "sw")
    BY <2>2 DEF Raise, Return
  <2> QED
    BY <2>1, <2>3 DEF RingStill, sendVars, gspVars
<1>4. HandlerRaises => RingStill
  BY DEF HandlerRaises, Raise, RingStill, sendVars, gspVars
<1>5. GspStart \/ GspSleep \/ GspHangs => RingStill
  BY DEF GspStart, GspSleep, GspHangs, RingStill, sendVars, gspVars
<1>6. GspInitDone \/ GspReply \/ GspEvent => RingStill
  BY DEF GspInitDone, GspReply, GspEvent, Post, RingStill, sendVars
<1>7. UNCHANGED vars => RingStill
  BY DEF vars, RingStill, sendVars, gspVars
<1> QED
  BY <1>1, <1>2, <1>3, <1>4, <1>5, <1>6, <1>7

LEMMA UnservedStep ==
  ASSUME CommandsFit, CallInv, [Next]_vars
  PROVE  Unserved'
<1>1. RecvInv /\ TypeOK /\ Control /\ BootFirst /\ OneByOne /\ Settled /\ Unserved
  BY DEF CallInv, RecvInv, OrderInv
<1>2. ASSUME NEW k \in Kinds, Issue(k) PROVE Unserved'
  BY <1>1, <1>2, IssueRing
<1>3. StoreRecord \/ PublishRecord => Unserved'
  BY <1>1, StoreRing, PublishRing
<1>4. GspRead => Unserved'
  BY <1>1, ServeRing
<1>5. RingStill => Unserved'
  BY <1>1, QueueFrame DEF RingStill
<1>6. Read => ReadOne
  BY <1>1, NotGarbled DEF Read
<1>7. \/ \E k \in Kinds : Issue(k)
      \/ StoreRecord \/ PublishRecord \/ GspRead \/ RingStill
  <2>1. \/ \E k \in Kinds : Issue(k)
        \/ StoreRecord \/ PublishRecord \/ GspRead \/ Doorbell \/ Turns \/ Read
        \/ HandlerRaises \/ GspStart \/ GspSleep \/ GspHangs \/ GspInitDone \/ GspReply
        \/ GspEvent \/ UNCHANGED vars
    BY DEF Next, Send, Receive, Fail, Program, Serve, Turns
  <2> QED
    BY <1>1, <1>6, <2>1, ElsewhereStill
<1> QED
  BY <1>2, <1>3, <1>4, <1>5, <1>7

-----------------------------------------------------------------------------
(* The order of requests and replies is kept.                              *)

LEMMA OrderFrame ==
  ASSUME UNCHANGED <<calls, posted, read, served, owed>>
  PROVE  /\ RepliesRight => RepliesRight'
         /\ Quiet => Quiet'
         /\ \A n : calls'[n] = calls[n]
         /\ Request' = Request
BY DEF RepliesRight, Quiet, UnreadReply, Seen, Posted, Request

LEMMA IssueOrder ==
  ASSUME CallInv, NEW k \in Kinds, Issue(k)
  PROVE  OrderInv'
<1>1. TypeOK /\ Control /\ BootFirst /\ OneByOne /\ RepliesRight /\ Settled
  BY DEF CallInv, RecvInv, OrderInv
<1>2. /\ at' = "store" /\ at = "idle" /\ k \in Issuable
      /\ UNCHANGED <<phase, posted, read, served, owed, gsp, got>>
  BY DEF Issue, recvVars, gspVars
<1>3. PICK n \in Nat : n = Request
  BY <1>1, Lengths
<1>4. Request' = n + 1 /\ calls'[n + 1] = k /\ \A i \in 1 .. n : calls'[i] = calls[i]
  <2>1. calls \in Seq(Kinds) /\ calls' = Append(calls, k) /\ Len(calls) \in Nat
    BY <1>1, LenProperties DEF TypeOK, Issue
  <2>2. Len(calls') = Len(calls) + 1
    BY <2>1, AppendProperties
  <2> QED
    BY <1>3, <2>1, <2>2, AppendProperties DEF Request
<1>5. \/ phase = "sw" /\ n = 0 /\ k = "sysinfo"
      \/ phase = "sw" /\ n = 1 /\ k = "registry"
      \/ phase \in {"init", "fini"} /\ k \in Replyable
  BY <1>2, <1>3 DEF Issuable, Replyable
<1>6. phase \in {"init", "fini"} => n >= 2 /\ Quiet
  BY <1>1, <1>2, <1>3 DEF BootFirst, Settled
<1>7. BootFirst'
  <2>1. \A i \in 1 .. n + 1 : i \in 1 .. n \/ i = n + 1
    OBVIOUS
  <2>2. ASSUME NEW i \in 1 .. n + 1
        PROVE  /\ i = 1 => calls'[i] = "sysinfo"
               /\ i = 2 => calls'[i] = "registry"
               /\ i > 2 => calls'[i] \in Replyable
    <3>1. CASE i \in 1 .. n
      BY <1>1, <1>3, <1>4, <3>1 DEF BootFirst
    <3>2. CASE i = n + 1
      BY <1>4, <1>5, <1>6, <3>2
    <3> QED
      BY <2>1, <3>1, <3>2
  <2>3. /\ phase' = "sw" => n + 1 <= 2
        /\ phase' # "boot"
        /\ phase' # "sw" => n + 1 >= 2
    BY <1>2, <1>5, <1>6
  <2> QED
    BY <1>4, <2>2, <2>3 DEF BootFirst
<1>8. phase = "sw" => gsp = "off" /\ served = 0 /\ posted = <<>> /\ owed = 0
  <2>1. phase = "sw" => gsp = "off" /\ statWrite = -1
    BY <1>1 DEF Control
  <2>2. phase = "sw" => served = 0 /\ posted = <<>>
    BY <1>1, <2>1 DEF Control, OneByOne
  <2>3. phase = "sw" /\ owed # 0 => FALSE
    BY <1>1, <2>2 DEF OneByOne
  <2> QED
    BY <2>1, <2>2, <2>3
<1>9. OneByOne'
  <2>1. served \in 0 .. n /\ got <= served
    BY <1>1, <1>3 DEF OneByOne, TypeOK
  <2>2. n + 1 <= 2 \/ n + 1 <= served + 1
    BY <1>3, <1>5, <1>6 DEF Quiet
  <2>3. owed = 0
    BY <1>5, <1>6, <1>8 DEF Quiet
  <2> QED
    BY <1>1, <1>2, <1>4, <2>1, <2>2, <2>3 DEF OneByOne
<1>10. RepliesRight'
  <2>1. \A i \in 1 .. Posted : ~UnreadReply(i)
    <3>1. posted = <<>> => Posted = 0
      BY DEF Posted
    <3> QED
      BY <1>5, <1>6, <1>8, <3>1 DEF Quiet
  <2>2. Posted' = Posted /\ \A i : UnreadReply(i)' = UnreadReply(i)
    BY <1>2 DEF Posted, Seen, UnreadReply
  <2> QED
    BY <1>1, <1>2, <2>1, <2>2 DEF RepliesRight
<1>11. Settled'
  BY <1>1, <1>2, <1>5 DEF Settled
<1> QED
  BY <1>7, <1>9, <1>10, <1>11 DEF OrderInv

LEMMA SendOrder ==
  ASSUME CallInv, StoreRecord \/ PublishRecord \/ Doorbell
  PROVE  OrderInv'
<1>1. TypeOK /\ Control /\ BootFirst /\ OneByOne /\ RepliesRight /\ Settled
  BY DEF CallInv, RecvInv, OrderInv
<1>2. UNCHANGED <<phase, calls, posted, read, served, owed, gsp, got>>
  BY DEF StoreRecord, PublishRecord, Doorbell, recvVars, gspVars, sendVars
<1>3. at \in {"store", "publish", "bell"} /\ phase \in {"sw", "init", "fini"}
  BY <1>1 DEF StoreRecord, PublishRecord, Doorbell, Control
<1>4. /\ at' \in {"store", "publish", "bell", "wait", "idle"}
      /\ at' = "idle" => phase = "sw"
      /\ at' \notin {"store", "publish", "bell"} => rest' = <<>>
  BY DEF StoreRecord, PublishRecord, Doorbell, sendVars
<1>5. BootFirst' /\ RepliesRight'
  BY <1>1, <1>2, OrderFrame DEF BootFirst
<1>6. OneByOne'
  BY <1>1, <1>2, <1>4, OrderFrame DEF OneByOne
<1>7. Settled'
  BY <1>2, <1>3, <1>4 DEF Settled
<1> QED
  BY <1>5, <1>6, <1>7 DEF OrderInv

LEMMA TurnsOrder ==
  ASSUME CallInv, Turns
  PROVE  OrderInv'
<1>1. TypeOK /\ Control /\ BootFirst /\ OneByOne /\ RepliesRight /\ Settled
  BY DEF CallInv, RecvInv, OrderInv
<1>2. /\ UNCHANGED <<calls, rest, posted, read, served, owed, got>>
      /\ gsp' = gsp \/ (gsp' = "start" /\ phase = "sw" /\ phase' = "boot")
  BY TurnsLeave DEF sendVars, recvVars
<1>3. at \in {"idle", "header", "wait", "drain", "clock"}
  BY DEF Turns, StartGsp, StartDrain, EnterMain, LeaveMain, HeaderSeen, ReadEmpty, PollAgain,
         HeaderTimeout, Timeout
<1>4. /\ phase' = "sw" => phase = "sw"
      /\ phase' = "boot" => phase = "boot" \/ Request = 2
      /\ phase' # "sw" => phase # "sw" \/ Request = 2
  <2>1. \/ StartGsp /\ phase = "sw" /\ Request = 2 /\ phase' = "boot"
        \/ phase # "sw" /\ phase' # "sw" /\ (phase' = "boot" => phase = "boot")
        \/ phase' = phase
    BY <1>1 DEF Control, Turns, StartGsp, StartDrain, EnterMain, LeaveMain, HeaderSeen,
                ReadEmpty, PollAgain, HeaderTimeout, Timeout, Raise
  <2> QED
    BY <2>1
<1>5. BootFirst' /\ RepliesRight'
  <2>1. Request' = Request /\ calls' = calls /\ RepliesRight'
    BY <1>1, <1>2, OrderFrame
  <2> QED
    BY <1>1, <1>4, <2>1 DEF BootFirst
<1>6. OneByOne'
  <2>1. gsp' \in {"off", "start"} => gsp \in {"off", "start"}
    BY <1>1, <1>2 DEF Control
  <2> QED
    BY <1>1, <1>2, <1>3, <2>1, OrderFrame DEF OneByOne
<1>7. /\ phase' \in {"init", "main", "fini"} /\ at' \in {"idle", "drain"} =>
           phase \in {"init", "main", "fini"} /\ at \in {"idle", "drain"}
      /\ phase' = "main" => at' \in {"idle", "drain"}
  <2>1. phase = "main" => at \in {"idle", "drain"}
    BY <1>1 DEF Settled
  <2>2. at = "header" => phase = "boot"
    BY <1>1 DEF Control
  <2>3. StartGsp \/ HeaderSeen => phase' = "boot"
    BY <2>2 DEF StartGsp, HeaderSeen
  <2>4. StartDrain \/ EnterMain \/ LeaveMain =>
          phase \in {"init", "main", "fini"} /\ at \in {"idle", "drain"} /\ at' \in {"idle", "drain"}
    BY DEF StartDrain, EnterMain, LeaveMain
  <2>5. PollAgain => at' = "wait" /\ phase' = phase /\ phase # "main"
    BY <2>1 DEF PollAgain
  <2>6. HeaderTimeout \/ Timeout => phase' = "exited"
    BY <2>1, <2>2 DEF HeaderTimeout, Timeout, Raise
  <2>7. ASSUME ReadEmpty
        PROVE  \/ at' = "clock" /\ phase' = phase /\ phase # "main"
               \/ phase \in {"init", "main"} /\ at = "drain" /\ at' = "idle"
    BY <1>1, <2>1, <2>7 DEF ReadEmpty, Control, Raise
  <2> QED
    BY <2>3, <2>4, <2>5, <2>6, <2>7 DEF Turns
<1>8. Settled'
  BY <1>1, <1>2, <1>7, OrderFrame DEF Settled
<1> QED
  BY <1>5, <1>6, <1>8 DEF OrderInv

(* The message wait_resp was looking for answers the current request, and  *)
(* GSP-RM owes nothing more.                                               *)
Answered ==
  /\ posted[Upcoming].n = Request /\ served = Request /\ owed = 0
  /\ \A i \in 1 .. Posted : UnreadReply(i) => i = Upcoming

LEMMA WantedIs ==
  ASSUME CallInv, Reading, at = "wait", posted[Upcoming].fn = Want, phase # "boot"
  PROVE  Answered
<1>1. TypeOK /\ BootFirst /\ OneByOne /\ RepliesRight /\ Settled /\ RecvInv
  BY DEF CallInv, RecvInv, OrderInv
<1>2. Upcoming \in 1 .. Posted /\ phase # "sw"
  BY <1>1, AtPointer
<1>3. Request \in 1 .. Request
  BY <1>1, <1>2, Lengths DEF BootFirst
<1>4. posted[Upcoming].fn = calls[Request] /\ calls[Request] \in Kinds
  <2>1. calls[Request] \in Kinds
    BY <1>1, <1>3, ElementOfSeq DEF TypeOK, Request
  <2> QED
    BY <2>1 DEF Want
<1>5. posted[Upcoming].n # 0
  BY <1>1, <1>2, <1>4 DEF RepliesRight, Kinds, BootKinds, CallKinds, Events
<1>6. Upcoming \in Seen + 1 .. Posted
  BY <1>1, <1>2, Lengths DEF Upcoming
<1>7. UnreadReply(Upcoming)
  BY <1>5, <1>6 DEF UnreadReply
<1> QED
  BY <1>1, <1>2, <1>7 DEF RepliesRight, Answered

LEMMA BootIs ==
  ASSUME CallInv, Reading, posted[Upcoming].fn = Want, phase = "boot"
  PROVE  Quiet
<1>1. TypeOK /\ BootFirst /\ OneByOne /\ RepliesRight /\ Answers /\ RecvInv
  BY DEF CallInv, RecvInv, OrderInv
<1>2. Upcoming \in 1 .. Posted
  BY <1>1, AtPointer
<1>3. Request = 2 /\ served = 2
  <2>1. Request = 2 /\ served >= 2 /\ served <= Request /\ served \in 0 .. Request
    BY <1>1, <1>2 DEF BootFirst, RepliesRight, Want, OneByOne, TypeOK
  <2> QED
    BY <2>1
<1>4. calls[2] = "registry" /\ "registry" \notin CallKinds \cup {"unload"}
  <2>1. 2 \in 1 .. Request
    BY <1>3
  <2> QED
    BY <1>1, <2>1 DEF BootFirst, CallKinds
<1>5. owed = 0
  BY <1>1, <1>3, <1>4 DEF OneByOne, Answers
<1>6. ASSUME NEW i \in 1 .. Posted, UnreadReply(i) PROVE FALSE
  <2>1. posted[i].n = 2 /\ posted[i].n > 2
    BY <1>1, <1>3, <1>6 DEF RepliesRight, UnreadReply
  <2> QED
    BY <2>1
<1> QED
  BY <1>3, <1>5, <1>6 DEF Quiet

LEMMA ReadOrder ==
  ASSUME CallInv, ReadOne
  PROVE  OrderInv'
<1>1. TypeOK /\ Control /\ BootFirst /\ OneByOne /\ RepliesRight /\ Settled /\ RecvInv
  BY DEF CallInv, RecvInv, OrderInv
<1>2. /\ Reading /\ StepsOver(Upcoming) /\ read' = Append(read, Upcoming)
      /\ UNCHANGED <<sendVars, gspVars, bell>>
      /\ \/ Raise /\ got' = got
         \/ /\ Return /\ at = "wait" /\ posted[Upcoming].fn = Want
            /\ got' = IF phase = "boot" THEN got ELSE posted[Upcoming].n
         \/ UNCHANGED <<phase, at, got>>
  BY <1>1, ReadOneIs
<1>3. UNCHANGED <<calls, rest, posted, served, owed, gsp>> /\ Posted' = Posted /\ Request' = Request
  BY <1>2 DEF sendVars, gspVars, Posted, Request
<1>4. /\ Upcoming \in 1 .. Posted /\ phase \in {"boot", "init", "main", "fini"}
      /\ at \in {"wait", "drain"}
  BY <1>1, <1>2, AtPointer DEF Reading
<1>5. Seen' = Upcoming /\ Upcoming = Seen + 1 /\ Seen \in Nat /\ Posted \in Nat
  <2>1. read \in Seq(0 .. Len(posted)) /\ Upcoming \in 0 .. Len(posted)
    BY <1>1, <1>4, Lengths DEF TypeOK, Posted
  <2>2. Len(read') = Len(read) + 1
    BY <1>2, <2>1, AppendProperties
  <2> QED
    BY <1>1, <2>2, Lengths DEF Seen, Upcoming
<1>6. \A i \in 1 .. Posted : UnreadReply(i)' => UnreadReply(i) /\ i # Upcoming
  BY <1>3, <1>5 DEF UnreadReply
<1>7. RepliesRight'
  BY <1>1, <1>3, <1>6 DEF RepliesRight
<1>8. Quiet => Quiet'
  BY <1>3, <1>6 DEF Quiet
<1>9. ASSUME Return, at = "wait", posted[Upcoming].fn = Want, phase # "boot"
      PROVE  Quiet' /\ posted[Upcoming].n = served
  <2>1. Answered
    BY <1>2, <1>9, WantedIs
  <2> QED
    BY <1>3, <1>6, <2>1 DEF Quiet, Answered
<1>10. ASSUME Return, posted[Upcoming].fn = Want, phase = "boot"
       PROVE  Quiet'
  BY <1>2, <1>8, <1>10, BootIs
<1>11. phase' \in {"boot", "init", "main", "fini", "exited"} /\ (phase' = "boot" => phase = "boot")
  BY <1>2, <1>4 DEF Raise, Return
<1>12. BootFirst'
  BY <1>1, <1>3, <1>4, <1>11 DEF BootFirst
<1>13. OneByOne'
  <2>1. got' = got \/ got' = served
    BY <1>2, <1>9
  <2>2. served \in 0 .. Request /\ Request \in Nat
    BY <1>1, Lengths DEF TypeOK
  <2>3. got' <= served
    BY <1>1, <2>1, <2>2 DEF OneByOne
  <2>4. rest = <<>>
    BY <1>1, <1>4 DEF OneByOne
  <2> QED
    BY <1>1, <1>3, <2>3, <2>4 DEF OneByOne
<1>14. Settled'
  <2>1. CASE Raise
    <3>1. phase' = "exited" \/ (phase' = "fini" /\ phase = "main")
      BY <2>1 DEF Raise
    <3>2. phase = "main" => Quiet
      BY <1>1 DEF Settled
    <3> QED
      BY <1>8, <3>1, <3>2 DEF Settled
  <2>2. CASE Return /\ at = "wait" /\ posted[Upcoming].fn = Want
    <3>1. at' = "idle"
      BY <2>2 DEF Return
    <3> QED
      BY <1>9, <1>10, <2>2, <3>1 DEF Settled
  <2>3. CASE UNCHANGED <<phase, at>>
    BY <1>1, <1>8, <2>3 DEF Settled
  <2> QED
    BY <1>2, <2>1, <2>2, <2>3
<1> QED
  BY <1>7, <1>12, <1>13, <1>14 DEF OrderInv

LEMMA RaisesOrder ==
  ASSUME CallInv, HandlerRaises
  PROVE  OrderInv'
<1>1. TypeOK /\ Control /\ BootFirst /\ OneByOne /\ RepliesRight /\ Settled /\ RecvInv
  BY DEF CallInv, RecvInv, OrderInv
<1>2. Reading /\ Raise /\ UNCHANGED <<read, got, sendVars, gspVars>>
  BY <1>1, RaisesIs
<1>3. UNCHANGED <<calls, rest, posted, read, served, owed, gsp, got>>
  BY <1>2 DEF sendVars, gspVars
<1>4. /\ phase \in {"boot", "init", "main", "fini"} /\ at \in {"wait", "drain"} /\ at' = "idle"
      /\ phase' = "exited" \/ (phase' = "fini" /\ phase = "main")
  BY <1>1, <1>2, AtPointer DEF Reading, Raise
<1>5. BootFirst' /\ RepliesRight'
  BY <1>1, <1>3, <1>4, OrderFrame DEF BootFirst
<1>6. OneByOne'
  BY <1>1, <1>3, <1>4, OrderFrame DEF OneByOne
<1>7. Settled'
  BY <1>1, <1>3, <1>4, OrderFrame DEF Settled
<1> QED
  BY <1>5, <1>6, <1>7 DEF OrderInv

(* GSP-RM carries out the next request, one that is not answered yet.      *)
CarryOn ==
  /\ served + 1 \in 1 .. Request /\ owed = 0 /\ Live
  /\ served' = served \/ served' = served + 1
  /\ owed' = 0 \/ (owed' = served' /\ served' = served + 1 /\ calls[owed'] \notin BootKinds)
  /\ rest # <<>> /\ served' = served + 1 => served + 1 <= Request - 1
  /\ UNCHANGED <<phase, at, calls, rest, posted, read, gsp, got>>

LEMMA CarriesOn ==
  ASSUME CallInv, GspRead
  PROVE  CarryOn
<1>1. TypeOK /\ Unserved
  BY DEF CallInv, RecvInv
<1>2. PICK place, own, done, len \in [Nat -> Nat], e, s, t \in Nat :
        /\ IsRing(e, s, t) /\ e <= s /\ s <= t
        /\ Queued(place, own, done, len, e, s, t)
        /\ Ringed(place, own, len, e, s, t)
  BY <1>1, RingBounds
<1>3. Found(own, len, e, s) /\ Carried(own, done, len, e)
  BY <1>2, GspReadIs
<1>4. UNCHANGED <<phase, at, calls, rest, posted, read, gsp, got>> /\ owed = 0 /\ Live
  BY <1>3 DEF Carried, recvVars
<1>5. served + 1 \in 1 .. Request /\ own[e] = served + 1
  BY <1>3 DEF Found
<1>6. \/ served' = served /\ owed' = 0
      \/ served' = served + 1 /\ (owed' = 0 \/ (owed' = served + 1 /\ calls[served + 1] \notin BootKinds))
  BY <1>3, <1>5 DEF Carried
<1>7. ASSUME rest # <<>>, served' = served + 1 PROVE served + 1 <= Request - 1
  <2>1. e \in e .. t - 1 /\ s < t
    <3>1. s < t
      <4>1. NextIs(place, own, len, s, t)
        BY <1>1, <1>2, <1>7, NextRecord
      <4> QED
        BY <4>1 DEF NextIs
    <3> QED
      BY <1>2, <3>1
  <2>2. Continues(place, own, done, len, e)
    BY <1>2, <2>1 DEF Queued
  <2>3. served \in Nat /\ Request \in Nat
    <3>1. served \in 0 .. Request
      BY <1>1 DEF TypeOK
    <3>2. Request \in Nat
      BY <1>1, Lengths
    <3> QED
      BY <3>1, <3>2
  <2>4. own[e + 1] = served + 2
    <3>1. served' # served
      BY <1>7, <2>3
    <3>2. done[e] + len[e] = Payload[calls[own[e]]]
      BY <1>3, <3>1 DEF Carried
    <3>3. own[e + 1] = own[e] + 1
      BY <2>2, <3>2 DEF Continues
    <3> QED
      BY <1>5, <2>3, <3>3
  <2>5. e + 1 \in e .. t - 1
    BY <1>2, <1>3, <2>1 DEF Found
  <2>6. own[e + 1] <= Request
    <3>1. own[e + 1] \in 1 .. Request
      BY <1>2, <2>5 DEF Queued
    <3> QED
      BY <2>3, <3>1
  <2> QED
    BY <2>3, <2>4, <2>6
<1> QED
  BY <1>4, <1>5, <1>6, <1>7 DEF CarryOn

LEMMA CarryOrder ==
  ASSUME CallInv, GspRead
  PROVE  OrderInv'
<1>1. TypeOK /\ BootFirst /\ OneByOne /\ RepliesRight /\ Settled
  BY DEF CallInv, RecvInv, OrderInv
<1>2. CarryOn
  BY CarriesOn
<1>3. UNCHANGED <<phase, at, calls, rest, posted, read, gsp, got>> /\ Request' = Request
  BY <1>2 DEF CarryOn, Request
<1>4. /\ served \in Nat /\ Request \in Nat /\ served + 1 <= Request
      /\ served' = served \/ served' = served + 1
  BY <1>1, <1>2, Lengths DEF TypeOK, CarryOn
<1>5. ~Quiet /\ \A i \in 1 .. Posted : ~UnreadReply(i)
  BY <1>1, <1>4 DEF Quiet, RepliesRight
<1>6. BootFirst'
  BY <1>1, <1>3 DEF BootFirst
<1>7. RepliesRight'
  <2>1. Posted' = Posted /\ \A i : UnreadReply(i)' = UnreadReply(i)
    BY <1>3 DEF Posted, Seen, UnreadReply
  <2>2. served >= 2 => served' >= 2
    BY <1>4
  <2> QED
    BY <1>1, <1>3, <1>5, <2>1, <2>2 DEF RepliesRight
<1>8. owed' # 0 => owed' = served' /\ served' = Request
  <2> SUFFICES ASSUME owed' # 0 PROVE owed' = served' /\ served' = Request
    OBVIOUS
  <2>1. owed' = served' /\ served' = served + 1 /\ calls[served + 1] \notin BootKinds
    BY <1>2 DEF CarryOn
  <2>2. served + 1 > 2
    <3>1. served + 1 \in 1 .. Request
      BY <1>4
    <3>2. served + 1 # 1 /\ served + 1 # 2
      BY <1>1, <2>1, <3>1 DEF BootFirst, BootKinds
    <3> QED
      BY <1>4, <3>2
  <2>3. Request <= served + 1
    BY <1>1, <1>4, <2>2 DEF OneByOne
  <2> QED
    BY <1>4, <2>1, <2>3
<1>9. OneByOne'
  <2>1. gsp \notin {"off", "start"}
    BY <1>2 DEF CarryOn, Live
  <2>2. Request <= 2 \/ Request <= served + 1
    BY <1>1 DEF OneByOne
  <2>3. served' <= Request /\ (Request <= 2 \/ Request <= served' + 1)
    BY <1>4, <2>2
  <2>4. got <= served'
    <3>1. got \in 0 .. Request /\ got <= served
      BY <1>1 DEF OneByOne, TypeOK
    <3> QED
      BY <1>4, <3>1
  <2> QED
    BY <1>1, <1>3, <1>8, <2>1, <2>3, <2>4 DEF OneByOne
<1>10. Settled'
  BY <1>1, <1>3, <1>5 DEF Settled
<1> QED
  BY <1>6, <1>7, <1>9, <1>10 DEF OrderInv

(* A message behind the others: an event, or the answer that is owed.      *)
LEMMA PostOrder ==
  ASSUME CallInv, NEW m \in Messages, Post(m), gsp \notin {"off", "start"},
         gsp' \notin {"off", "start"},
         \/ m.n = 0 /\ m.fn \in Events /\ owed' = owed /\ (m.fn = "initdone" => served >= 2)
         \/ m.n = owed /\ owed # 0 /\ m.fn \in Replyable /\ owed' = 0
  PROVE  OrderInv'
<1>1. TypeOK /\ BootFirst /\ OneByOne /\ RepliesRight /\ Settled /\ Answers
  BY DEF CallInv, RecvInv, OrderInv
<1>2. UNCHANGED <<phase, at, calls, rest, read, served, got>> /\ Request' = Request /\ Seen' = Seen
  BY DEF Post, sendVars, recvVars, Request, Seen
<1>3. PICK p \in Nat : p = Posted
  BY <1>1, Lengths
<1>4. /\ Posted' = p + 1 /\ posted'[p + 1] = m
      /\ \A i \in 1 .. p : posted'[i] = posted[i]
  BY <1>1, <1>3, PostLast
<1>5. \A i \in 1 .. p + 1 : i \in 1 .. p \/ i = p + 1
  OBVIOUS
<1>6. \A i \in 1 .. p : UnreadReply(i)' = UnreadReply(i)
  <2> SUFFICES ASSUME NEW i \in 1 .. p PROVE UnreadReply(i)' = UnreadReply(i)
    OBVIOUS
  <2>1. i \in Seen + 1 .. p <=> i \in Seen + 1 .. p + 1
    BY <1>1, Lengths
  <2>2. posted'[i] = posted[i]
    BY <1>4
  <2> QED
    BY <1>2, <1>3, <1>4, <2>1, <2>2 DEF UnreadReply
<1>7. UnreadReply(p + 1)' => m.n # 0
  BY <1>4 DEF UnreadReply
<1>8. m.n # 0 => /\ m.n = Request /\ served = Request /\ owed # 0 /\ owed' = 0 /\ m.n > 2
                 /\ m.fn \in Replyable
                 /\ \A i \in 1 .. p : ~UnreadReply(i)
  <2> SUFFICES ASSUME m.n # 0
               PROVE  /\ m.n = Request /\ served = Request /\ owed # 0 /\ owed' = 0 /\ m.n > 2
                      /\ m.fn \in Replyable
                      /\ \A i \in 1 .. p : ~UnreadReply(i)
    OBVIOUS
  <2>1. m.n = owed /\ owed # 0 /\ owed' = 0 /\ m.fn \in Replyable
    OBVIOUS
  <2>2. owed = served /\ served = Request
    BY <1>1, <2>1 DEF OneByOne
  <2>3. owed > 2
    <3>1. calls[owed] \in Replyable
      BY <1>1, <2>1 DEF Answers, Replyable
    <3>2. owed \in 1 .. Request
      BY <1>1, <2>1, Lengths DEF TypeOK
    <3>3. owed # 1 /\ owed # 2
      BY <1>1, <3>1, <3>2 DEF BootFirst, Replyable, CallKinds
    <3> QED
      BY <1>1, <3>2, <3>3, Lengths
  <2>4. \A i \in 1 .. p : ~UnreadReply(i)
    BY <1>1, <1>3, <2>1 DEF RepliesRight
  <2> QED
    BY <2>1, <2>2, <2>3, <2>4
<1>9. RepliesRight'
  <2>1. ASSUME NEW i \in 1 .. p + 1
        PROVE  /\ posted'[i].n = 0 => posted'[i].fn \in Events
               /\ posted'[i].n # 0 => posted'[i].fn \in Replyable /\ posted'[i].n > 2
               /\ posted'[i].fn = "initdone" => served >= 2
    <3>1. CASE i \in 1 .. p
      BY <1>1, <1>3, <1>4, <3>1 DEF RepliesRight
    <3>2. CASE i = p + 1
      <4>1. m.n = 0 => m.fn \in Events
        BY <1>8
      <4>2. m.fn = "initdone" => served >= 2
        BY DEF Replyable, CallKinds
      <4> QED
        BY <1>4, <1>8, <3>2, <4>1, <4>2
    <3> QED
      BY <1>5, <3>1, <3>2
  <2>2. ASSUME NEW i \in 1 .. p + 1, UnreadReply(i)'
        PROVE  /\ posted'[i].n = Request /\ served = Request /\ owed' = 0
               /\ \A k \in 1 .. p + 1 : UnreadReply(k)' => k = i
    <3>1. CASE i = p + 1
      BY <1>4, <1>5, <1>6, <1>7, <1>8, <2>2, <3>1
    <3>2. CASE i \in 1 .. p
      <4>1. UnreadReply(i) /\ m.n = 0
        BY <1>6, <1>8, <2>2, <3>2
      <4>2. /\ posted[i].n = Request /\ served = Request /\ owed = 0
            /\ \A k \in 1 .. p : UnreadReply(k) => k = i
        BY <1>1, <1>3, <3>2, <4>1 DEF RepliesRight
      <4>3. \A k \in 1 .. p + 1 : UnreadReply(k)' => k \in 1 .. p
        BY <1>5, <1>7, <4>1
      <4> QED
        BY <1>4, <1>6, <3>2, <4>2, <4>3
    <3> QED
      BY <1>5, <3>1, <3>2
  <2> QED
    BY <1>2, <1>4, <2>1, <2>2 DEF RepliesRight
<1>10. Quiet => Quiet'
  <2> SUFFICES ASSUME Quiet PROVE Quiet'
    OBVIOUS
  <2>1. owed = 0 /\ m.n = 0 /\ owed' = 0
    BY <1>8 DEF Quiet
  <2>2. \A i \in 1 .. p + 1 : ~UnreadReply(i)'
    BY <1>3, <1>5, <1>6, <1>7, <2>1 DEF Quiet
  <2> QED
    BY <1>2, <1>4, <2>1, <2>2 DEF Quiet
<1>11. BootFirst' /\ Settled'
  BY <1>1, <1>2, <1>10 DEF BootFirst, Settled
<1>12. OneByOne'
  BY <1>1, <1>2 DEF OneByOne
<1> QED
  BY <1>9, <1>11, <1>12 DEF OrderInv

LEMMA QuietOrder ==
  ASSUME CallInv, GspStart \/ GspSleep \/ GspHangs \/ UNCHANGED vars
  PROVE  OrderInv'
<1>1. BootFirst /\ OneByOne /\ RepliesRight /\ Settled
  BY DEF CallInv, OrderInv
<1>2. /\ UNCHANGED <<phase, at, calls, rest, posted, read, served, owed, got>>
      /\ gsp' \in {"off", "start"} => gsp \in {"off", "start"}
  BY DEF GspStart, GspSleep, GspHangs, vars, gspVars, sendVars, recvVars
<1>3. RepliesRight' /\ (Quiet => Quiet') /\ Request' = Request
  BY <1>1, <1>2, OrderFrame
<1>4. BootFirst' /\ OneByOne' /\ Settled'
  BY <1>1, <1>2, <1>3 DEF BootFirst, OneByOne, Settled
<1> QED
  BY <1>3, <1>4 DEF OrderInv

LEMMA PostsOrder ==
  ASSUME CallInv, GspInitDone \/ GspReply \/ GspEvent
  PROVE  OrderInv'
<1>1. TypeOK /\ Answers
  BY DEF CallInv, RecvInv
<1>2. ASSUME NEW k \in Events
      PROVE  [fn |-> k, n |-> 0, len |-> EventLen[k], ok |-> TRUE] \in Messages
  BY LengthAssumption DEF Messages
<1>3. ASSUME GspInitDone PROVE OrderInv'
  <2>1. PICK m : m = [fn |-> "initdone", n |-> 0, len |-> EventLen["initdone"], ok |-> TRUE]
    OBVIOUS
  <2>2. m \in Messages /\ m.fn \in Events /\ m.n = 0
    BY <1>2, <2>1 DEF Events
  <2>3. Post(m) /\ gsp = "boot" /\ gsp' = "up" /\ owed' = owed /\ served >= 2
    BY <1>3, <2>1 DEF GspInitDone
  <2> QED
    BY <2>2, <2>3, PostOrder
<1>4. ASSUME GspEvent PROVE OrderInv'
  <2>1. PICK k \in Events :
          /\ Post([fn |-> k, n |-> 0, len |-> EventLen[k], ok |-> TRUE])
          /\ k # "initdone"
    BY <1>4 DEF GspEvent, Events
  <2>2. PICK m : m = [fn |-> k, n |-> 0, len |-> EventLen[k], ok |-> TRUE]
    OBVIOUS
  <2>3. m \in Messages /\ m.fn \in Events /\ m.fn # "initdone" /\ m.n = 0 /\ Post(m)
    BY <1>2, <2>1, <2>2
  <2>4. gsp \notin {"off", "start"} /\ gsp' = gsp /\ owed' = owed
    BY <1>4 DEF GspEvent, Live
  <2> QED
    BY <2>3, <2>4, PostOrder
<1>5. ASSUME GspReply PROVE OrderInv'
  <2>1. PICK k \in Replyable : k = calls[owed]
    BY <1>1, <1>5 DEF GspReply, Answers, Replyable
  <2>2. PICK ok \in BOOLEAN : Post([fn |-> k, n |-> owed, len |-> ReplyLen[k], ok |-> ok])
    BY <1>5, <2>1 DEF GspReply
  <2>3. PICK m : m = [fn |-> k, n |-> owed, len |-> ReplyLen[k], ok |-> ok]
    OBVIOUS
  <2>4. owed \in Nat
    <3>1. owed \in 0 .. Request
      BY <1>1 DEF TypeOK
    <3> QED
      BY <1>1, <3>1, Lengths
  <2>5. m \in Messages /\ m.n = owed /\ m.fn \in Replyable /\ Post(m)
    BY <2>2, <2>3, <2>4, LengthAssumption DEF Messages, Kinds, Replyable
  <2>6. gsp \notin {"off", "start"} /\ gsp' = gsp /\ owed # 0 /\ owed' = 0
    BY <1>5 DEF GspReply, Live
  <2> QED
    BY <2>5, <2>6, PostOrder
<1> QED
  BY <1>3, <1>4, <1>5

(* Every step is one of these.                                             *)
LEMMA StepsAre ==
  ASSUME RecvInv, [Next]_vars
  PROVE  \/ \E k \in Kinds : Issue(k)
         \/ StoreRecord \/ PublishRecord \/ Doorbell
         \/ Turns \/ ReadOne \/ HandlerRaises
         \/ GspStart \/ GspSleep \/ GspHangs \/ UNCHANGED vars
         \/ GspRead \/ GspInitDone \/ GspReply \/ GspEvent
<1>1. Read => ReadOne
  BY NotGarbled DEF Read
<1> QED
  BY <1>1 DEF Next, Send, Receive, Fail, Program, Serve, Turns

LEMMA CallStep ==
  ASSUME StatusRing, CommandsFit, CallInv, [Next]_vars
  PROVE  CallInv'
<1>1. RecvInv
  BY DEF CallInv
<1>2. RecvInv' /\ Unserved'
  BY <1>1, RecvStep, UnservedStep
<1>3. ASSUME NEW k \in Kinds, Issue(k) PROVE OrderInv'
  BY <1>3, IssueOrder
<1>4. OrderInv'
  BY <1>1, <1>3, StepsAre, SendOrder, TurnsOrder, ReadOrder, RaisesOrder, QuietOrder, CarryOrder,
     PostsOrder
<1> QED
  BY <1>2, <1>4 DEF CallInv

LEMMA CallInit ==
  ASSUME StatusRing, Init
  PROVE  CallInv
<1>1. /\ phase = "sw" /\ at = "idle" /\ gsp = "off" /\ owed = 0 /\ served = 0 /\ got = 0
      /\ calls = <<>> /\ rest = <<>> /\ read = <<>> /\ posted = <<>>
      /\ seq = 0 /\ expect = 0 /\ gathered = 0 /\ cmdRead = 0 /\ cmdWrite = 0
  BY DEF Init
<1>2. Request = 0 /\ Posted = 0 /\ Seen = 0 /\ Last = 0
  BY <1>1 DEF Request, Posted, Seen, Last
<1>3. OrderInv
  <2>1. BootFirst /\ OneByOne
    BY <1>1, <1>2 DEF BootFirst, OneByOne
  <2>2. RepliesRight /\ Settled
    BY <1>1, <1>2 DEF RepliesRight, Settled
  <2> QED
    BY <2>1, <2>2 DEF OrderInv
<1>4. Unserved
  <2>1. PICK zero \in [Nat -> Nat] : zero[0] = 0
    <3>1. [q \in Nat |-> 0] \in [Nat -> Nat] /\ [q \in Nat |-> 0][0] = 0
      OBVIOUS
    <3> QED
      BY <3>1
  <2>2. PICK one \in [Nat -> Nat] : one[0] = 1
    <3>1. [q \in Nat |-> 1] \in [Nat -> Nat] /\ [q \in Nat |-> 1][0] = 1
      OBVIOUS
    <3> QED
      BY <3>1
  <2>3. Queued(zero, one, zero, one, 0, 0, 0)
    BY <1>1, <1>2, <2>1, <2>2 DEF Queued
  <2>4. Ringed(zero, one, one, 0, 0, 0)
    <3>1. 0 % CmdCount = 0 /\ 0 \in 0 .. CmdCount - 1
      BY Sizes, ModSmall
    <3>2. \A q \in 0 .. 0 : q = 0
      OBVIOUS
    <3> QED
      BY <1>1, <1>2, <2>1, <3>1, <3>2 DEF Ringed
  <2> QED
    BY <1>1, <1>2, <2>3, <2>4 DEF Unserved
<1> QED
  BY <1>3, <1>4, RecvInit DEF CallInv

-----------------------------------------------------------------------------
(* What the three properties say of a step.                                *)

(* A call that returns says so of the current request, which GSP-RM has    *)
(* carried out.                                                            *)
LEMMA GotStep ==
  ASSUME CallInv, [Next]_vars, got' # got
  PROVE  /\ got' = Request /\ served = Request
         /\ UNCHANGED <<calls, rest, served>>
<1>1. RecvInv
  BY DEF CallInv
<1>2. ReadOne
  <2>1. ASSUME NEW k \in Kinds, Issue(k) PROVE got' = got
    BY <2>1 DEF Issue, recvVars
  <2>2. StoreRecord \/ PublishRecord \/ Doorbell => got' = got
    BY DEF StoreRecord, PublishRecord, Doorbell, recvVars
  <2>3. Turns => got' = got
    BY TurnsLeave DEF recvVars
  <2>4. HandlerRaises => got' = got
    BY DEF HandlerRaises
  <2>5. GspStart \/ GspSleep \/ GspHangs \/ GspRead => got' = got
    BY DEF GspStart, GspSleep, GspHangs, GspRead, recvVars
  <2>6. GspInitDone \/ GspReply \/ GspEvent => got' = got
    BY DEF GspInitDone, GspReply, GspEvent, Post, recvVars
  <2>7. UNCHANGED vars => got' = got
    BY DEF vars, recvVars
  <2> QED
    BY <1>1, <2>1, <2>2, <2>3, <2>4, <2>5, <2>6, <2>7, StepsAre
<1>3. /\ Reading /\ UNCHANGED <<sendVars, gspVars>>
      /\ at = "wait" /\ posted[Upcoming].fn = Want /\ phase # "boot"
      /\ got' = posted[Upcoming].n
  BY <1>1, <1>2, ReadOneIs
<1>4. Answered
  BY <1>3, WantedIs
<1> QED
  BY <1>3, <1>4 DEF Answered, sendVars, gspVars

LEMMA CommandsWhole ==
  ASSUME CallInv
  PROVE  RequestsReadable
<1>1. PICK place, own, done, len \in [Nat -> Nat], e, s, t \in Nat :
        /\ IsRing(e, s, t) /\ e <= s /\ s <= t
        /\ Queued(place, own, done, len, e, s, t)
        /\ Ringed(place, own, len, e, s, t)
  BY RingBounds DEF CallInv, RecvInv
<1>2. ASSUME cmdRead # cmdWrite PROVE cmd[cmdRead] = Cell(own, len, e, 1) /\ e = expect
  <2>1. Found(own, len, e, s)
    BY <1>1, <1>2, AtCommand
  <2> QED
    BY <1>1, <2>1 DEF Found, IsRing
<1> QED
  BY <1>2 DEF RequestsReadable, Cell

LEMMA SerialStart ==
  ASSUME Init
  PROVE  Serial!Init
<1>1. calls = <<>> /\ rest = <<>> /\ served = 0 /\ got = 0
  BY DEF Init
<1>2. Published = 0
  BY <1>1 DEF Published, Request
<1> QED
  BY <1>1, <1>2 DEF Serial!Init

LEMMA SerialStep ==
  ASSUME CallInv, [Next]_vars
  PROVE  [Serial!Next]_(Serial!vars)
<1>1. RecvInv /\ TypeOK /\ Control /\ BootFirst /\ OneByOne
  BY DEF CallInv, RecvInv, OrderInv
<1>2. PICK n \in Nat : n = Request
  BY <1>1, Lengths
<1>3. served \in 0 .. n /\ got \in 0 .. n /\ got <= served
  BY <1>1, <1>2 DEF TypeOK, OneByOne
<1>4. CASE got' # got
  <2>1. got' = served /\ UNCHANGED <<calls, rest, served>>
    BY <1>4, GotStep
  <2>2. Published' = Published
    BY <2>1 DEF Published, Request
  <2>3. got' \in got .. served
    BY <1>3, <2>1
  <2> QED
    BY <2>1, <2>2, <2>3 DEF Serial!Next, Serial!Observe
<1>5. ASSUME UNCHANGED <<Published, served, got>> PROVE UNCHANGED Serial!vars
  BY <1>5 DEF Serial!vars
<1>6. ASSUME NEW k \in Kinds, Issue(k), got' = got PROVE UNCHANGED Serial!vars
  <2>1. calls' = Append(calls, k) /\ rest' = Records(Payload[k]) /\ served' = served /\ at = "idle"
    BY <1>6 DEF Issue, gspVars
  <2>2. rest = <<>>
    BY <1>1, <2>1 DEF OneByOne
  <2>3. rest' # <<>>
    <3>1. Len(rest') # 0 /\ Len(<<>>) = 0
      BY <2>1, RecordLens, LengthAssumption
    <3> QED
      BY <3>1
  <2>4. Request' = n + 1
    BY <1>1, <1>2, <2>1, AppendProperties DEF TypeOK, Request
  <2>5. Published' = n + 1 - 1 /\ Published = n
    BY <1>2, <2>2, <2>3, <2>4 DEF Published
  <2> QED
    BY <1>5, <1>6, <2>1, <2>5
<1>7. ASSUME PublishRecord, got' = got PROVE [Serial!Next]_(Serial!vars)
  <2>1. rest # <<>> /\ rest' = Tail(rest) /\ UNCHANGED <<calls, served>>
    BY <1>1, <1>7 DEF PublishRecord, Control, gspVars
  <2>2. Request' = n /\ Published = n - 1
    BY <1>2, <2>1 DEF Request, Published
  <2>3. CASE rest' = <<>>
    <3>1. Published' = n /\ n = (n - 1) + 1
      BY <2>2, <2>3 DEF Published
    <3>2. Published' = Published + 1
      BY <2>2, <3>1
    <3> QED
      BY <1>7, <2>1, <3>2 DEF Serial!Next, Serial!Submit
  <2>4. CASE rest' # <<>>
    <3>1. Published' = Published
      BY <2>2, <2>4 DEF Published
    <3> QED
      BY <1>5, <1>7, <2>1, <3>1
  <2> QED
    BY <2>3, <2>4
<1>8. ASSUME GspRead, got' = got PROVE [Serial!Next]_(Serial!vars)
  <2>1. CarryOn
    BY <1>8, CarriesOn
  <2>2. Published' = Published
    BY <2>1 DEF CarryOn, Published, Request
  <2>3. CASE served' = served
    BY <1>5, <1>8, <2>2, <2>3
  <2>4. CASE served' = served + 1
    <3>1. served + 1 <= n /\ (rest # <<>> => served + 1 <= n - 1)
      BY <1>2, <1>3, <2>1, <2>4 DEF CarryOn
    <3>2. Published = n \/ (rest # <<>> /\ Published = n - 1)
      BY <1>2 DEF Published
    <3>3. served < Published
      BY <1>3, <3>1, <3>2
    <3> QED
      BY <1>8, <2>2, <2>4, <3>3 DEF Serial!Next, Serial!Complete
  <2> QED
    BY <2>1, <2>3, <2>4 DEF CarryOn
<1>9. ASSUME StoreRecord, got' = got PROVE UNCHANGED Serial!vars
  <2>1. UNCHANGED <<calls, rest, served>>
    BY <1>9 DEF StoreRecord, gspVars
  <2> QED
    BY <1>5, <1>9, <2>1 DEF Published, Request
<1>10. ASSUME RingStill, got' = got PROVE UNCHANGED Serial!vars
  <2>1. UNCHANGED <<calls, rest, served>>
    BY <1>10 DEF RingStill
  <2> QED
    BY <1>5, <1>10, <2>1 DEF Published, Request
<1>11. \/ \E k \in Kinds : Issue(k)
       \/ StoreRecord \/ PublishRecord \/ GspRead \/ RingStill
  BY <1>1, StepsAre, ElsewhereStill
<1> QED
  BY <1>4, <1>6, <1>7, <1>8, <1>9, <1>10, <1>11

(* GSP-RM never finds a command torn, missing or out of sequence, though   *)
(* send_rpc writes without a look at its read pointer: a driver that       *)
(* waits for each reply, with a ring that holds its largest request and    *)
(* the first two, cannot run over what is unread.                          *)
THEOREM CommandsKept == StatusRing /\ CommandsFit => (Spec => []RequestsReadable)
<1> SUFFICES ASSUME StatusRing, CommandsFit PROVE Spec => []RequestsReadable
  OBVIOUS
<1>1. Init => CallInv
  BY CallInit
<1>2. CallInv /\ [Next]_vars => CallInv'
  BY CallStep
<1>3. CallInv => RequestsReadable
  BY CommandsWhole
<1> QED
  BY <1>1, <1>2, <1>3, PTL DEF Spec

(* A call returns the reply to itself, though wait_resp compares nothing   *)
(* but the function: no reply of an earlier call is ever left unread.      *)
THEOREM RepliesKept == StatusRing /\ CommandsFit => (Spec => ReplyIsOurs)
<1> SUFFICES ASSUME StatusRing, CommandsFit PROVE Spec => ReplyIsOurs
  OBVIOUS
<1>1. Init => CallInv
  BY CallInit
<1>2. CallInv /\ [Next]_vars => CallInv'
  BY CallStep
<1>3. CallInv /\ [Next]_vars => [got' # got => got' = Request]_vars
  BY GotStep
<1> QED
  BY <1>1, <1>2, <1>3, PTL DEF Spec, ReplyIsOurs

(* The requests are carried out in order and one by one, none before its   *)
(* last record is published, and a call returns only when its request has  *)
(* been: every behaviour is one of SerialJobs.                             *)
THEOREM CallsSerial == StatusRing /\ CommandsFit => (Spec => ImplementsSerialJobs)
<1> SUFFICES ASSUME StatusRing, CommandsFit PROVE Spec => ImplementsSerialJobs
  OBVIOUS
<1>1. Init => CallInv
  BY CallInit
<1>2. CallInv /\ [Next]_vars => CallInv'
  BY CallStep
<1>3. Init => Serial!Init
  BY SerialStart
<1>4. CallInv /\ [Next]_vars => [Serial!Next]_(Serial!vars)
  BY SerialStep
<1> QED
  BY <1>1, <1>2, <1>3, <1>4, PTL DEF Spec, ImplementsSerialJobs, Serial!Spec
=============================================================================
