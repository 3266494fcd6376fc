-------------------------- MODULE GpuTimelineSafety --------------------------
(***************************************************************************)
(* Proof that GpuTimeline keeps what it promises as long as no wait gives  *)
(* up and the signal page is handed out zeroed: the buffers wrap over      *)
(* nothing the GPU still needs, whatever their sizes, and the timeline is  *)
(* the one of SerialJobs.                                                  *)
(***************************************************************************)
EXTENDS GpuTimelineProofs

-----------------------------------------------------------------------------
(* The inductive invariant.  At most one job of a channel is owed, and it  *)
(* is in exactly one place: in front of GPPUT, in the ring, in the         *)
(* channel, or a kernel that runs.                                         *)

Unpublished == pc \in {"stream", "entry", "gpput"}

(* Jobs finished in order, and at most the last one is owed, or the two    *)
(* bind jobs.                                                              *)
Counted ==
  /\ done = 1 .. sig /\ sig <= Job /\ (Job <= sig + 1 \/ Job = 2)
  /\ \A n \in 1 .. Job : /\ (jobs[n].kind = "bindc") <=> (n = 1)
                         /\ (jobs[n].kind = "bindx") <=> (n = 2)

(* Where the host is tells how far the timeline has come.                  *)
Awaited ==
  /\ pc = "idle" => Job = 1 \/ sig = Job
  /\ pc \in {"sync", "copyout"} => Job >= 2 /\ sig = Job
  /\ pc = "copyout" => jobs[Job].kind = "launch"
  /\ pc = "wait" => Job >= 2
  /\ Unpublished => sig < Job

(* The arguments and the result of the last launch.                        *)
Computed ==
  Job > 0 /\ jobs[Job].kind = "launch" =>
    /\ kargs[jobs[Job].slot] = Job
    /\ sig = Job => out = Job
    /\ pc \in {"idle", "sync"} => result = Job

(* The words of job n lie at a, those of the first job at the start.       *)
Placed(n, a) ==
  /\ \A w \in Segment(a, JobLen[jobs[n].kind]) : cmdq[w] = n
  /\ n = 1 => a = 0

EntryOf(n, a) == [addr |-> a, len |-> JobLen[jobs[n].kind]]

(* What the host has stored of the job it submits.                         *)
Written ==
  /\ Job = 0 \/ (Job = 1 /\ pc = "stream") => cmdPtr = 0
  /\ (Job = 1 /\ pc # "stream") \/ (Job = 2 /\ pc = "stream") => cmdPtr = JobLen["bindc"]
  /\ pc \in {"entry", "gpput"} => Placed(Job, addr)
  /\ pc = "gpput" => ring[ChannelOf(Job)][gpput[ChannelOf(Job)]] = EntryOf(Job, addr)

PutRight ==
  \A c \in Channels :
    gpput[c] = (IF pc = "bell" /\ c = ChannelOf(Job)
                THEN putValue[c] + 1 ELSE putValue[c]) % RingSize

(* The places of a published job n that is owed.                           *)
InRing(c, n) ==
  /\ gpput[c] = (get[c] + 1) % RingSize /\ methods[c] = <<>>
  /\ c = "compute" => running = {}
  /\ \E a \in 0 .. CmdqSize - 1 : ring[c][get[c]] = EntryOf(n, a) /\ Placed(n, a)

Fetched(n) ==
  {Stream(n)} \cup IF sig # n - 1 THEN {}
                   ELSE IF jobs[n].kind = "launch" THEN {<<Method("launch", n)>>}
                   ELSE {<<Method("setup", n), Method("release", n)>>, <<Method("release", n)>>}

InChannel(c, n) ==
  /\ get[c] = gpput[c] /\ methods[c] \in Fetched(n)
  /\ c = "compute" => running = {}

Runs(c, n) ==
  /\ get[c] = gpput[c] /\ methods[c] = <<>>
  /\ c = "compute" /\ running = {n} /\ jobs[n].kind = "launch" /\ sig = n - 1

Quiet(c) ==
  /\ get[c] = gpput[c] /\ methods[c] = <<>>
  /\ c = "compute" => running = {}

(* The published jobs of a channel that have not finished.                 *)
Owed(c) == {n \in 1 .. Job : sig < n /\ ChannelOf(n) = c /\ (n = Job => ~Unpublished)}

Located(c) ==
  \/ Owed(c) = {} /\ Quiet(c)
  \/ \E n \in Owed(c) : InRing(c, n) \/ InChannel(c, n) \/ Runs(c, n)

Settled == Counted /\ Awaited /\ Computed /\ Written /\ PutRight
             /\ \A c \in Channels : Located(c)

SafeInv == TypeOK /\ (~gaveUp => Settled)

-----------------------------------------------------------------------------
(* Arithmetic of the ring and of the pushbuffer.                           *)

LEMMA ModUnique ==
  \A m \in Nat \ {0} : \A q \in Nat, r \in 0 .. m - 1 : (m * q + r) % m = r
BY SMTT(30)

LEMMA Quotient ==
  \A m \in Nat \ {0}, p \in Nat :
    p \div m \in Nat /\ m * (p \div m) <= p /\ p < m * (p \div m) + m
BY SMTT(30)

LEMMA DivMod ==
  ASSUME NEW m \in Nat \ {0}, NEW p \in Nat
  PROVE  \E q \in Nat, r \in 0 .. m - 1 : p = m * q + r /\ p % m = r
<1> DEFINE d == p \div m
<1>1. d \in Nat /\ m * d \in Nat /\ m * d <= p /\ p < m * d + m
  BY Quotient
<1> HIDE DEF d
<1>2. PICK q \in Nat : m * q \in Nat /\ m * q <= p /\ p < m * q + m
  BY <1>1
<1>3. PICK r \in 0 .. m - 1 : p = m * q + r
  <2>1. p - m * q \in 0 .. m - 1 /\ p = m * q + (p - m * q)
    BY <1>2
  <2> QED
    BY <2>1
<1>4. (m * q + r) % m = r
  BY ModUnique
<1> QED
  BY <1>3, <1>4

(* Wrapping before or after the increment is the same.                     *)
LEMMA ModNext ==
  ASSUME NEW m \in Nat \ {0}, NEW p \in Nat
  PROVE  (p + 1) % m = ((p % m) + 1) % m
<1>1. PICK q \in Nat, r \in 0 .. m - 1 : p = m * q + r /\ p % m = r
  BY DivMod
<1>2. CASE r = m - 1
  <2>1. q + 1 \in Nat /\ 0 \in 0 .. m - 1
    BY <1>1
  <2>2. (m * (q + 1) + 0) % m = 0 /\ (m * 1 + 0) % m = 0
    BY <2>1, ModUnique
  <2>3. m * (q + 1) + 0 = p + 1 /\ m * 1 + 0 = r + 1
    BY <1>1, <1>2
  <2> QED
    BY <1>1, <2>2, <2>3
<1>3. CASE r # m - 1
  <2>1. r + 1 \in 0 .. m - 1
    BY <1>3
  <2>2. (m * q + (r + 1)) % m = r + 1
    BY <2>1, ModUnique
  <2>3. m * q + (r + 1) = p + 1 /\ (r + 1) % m = r + 1
    BY <1>1, <2>1
  <2> QED
    BY <1>1, <2>2, <2>3
<1> QED
  BY <1>2, <1>3

LEMMA RoundUpAbove ==
  ASSUME NEW x \in Nat, NEW a \in Nat \ {0}
  PROVE  RoundUp(x, a) \in Nat /\ RoundUp(x, a) >= x /\ (x = 0 => RoundUp(x, a) = 0)
<1>1. ((x + a - 1) \div a) * a >= x
  OBVIOUS
<1>2. x = 0 => ((x + a - 1) \div a) * a = 0
  OBVIOUS
<1> QED
  BY <1>1, <1>2, RoundUpNat DEF RoundUp

-----------------------------------------------------------------------------
(* What the invariant says of a channel.                                   *)

LEMMA Numbers ==
  ASSUME TypeOK
  PROVE  /\ Job \in Nat /\ sig \in Nat /\ running \subseteq 1 .. Job
         /\ pc # "idle" => Job >= 1
         /\ \A n \in 1 .. Job : /\ jobs[n].kind \in Kinds /\ ChannelOf(n) \in Channels
                                /\ jobs[n].slot \in 0 .. KargSlots - 1
                                /\ JobLen[jobs[n].kind] \in Nat \ {0}
<1>1. Job \in Nat
  BY JobType DEF TypeOK
<1>2. \A n \in 1 .. Job : /\ jobs[n].kind \in Kinds /\ ChannelOf(n) \in Channels
                           /\ jobs[n].slot \in 0 .. KargSlots - 1
  BY JobType DEF TypeOK
<1>3. sig \in Nat /\ running \subseteq 1 .. Job /\ (pc # "idle" => Job # 0)
  BY DEF TypeOK, HostTypes, GpuTypes
<1>4. \A n \in 1 .. Job : JobLen[jobs[n].kind] \in Nat \ {0}
  BY <1>2, JobLenAssumption
<1> QED
  BY <1>1, <1>2, <1>3, <1>4

(* A channel owes one job at most.                                         *)
LEMMA OwedOnly ==
  ASSUME TypeOK, Counted, NEW c \in Channels, NEW n \in Owed(c)
  PROVE  /\ n \in 1 .. Job /\ sig < n /\ ChannelOf(n) = c
         /\ n = sig + 1 \/ (n = 2 /\ sig = 0 /\ Job = 2 /\ c = "dma")
         /\ \A m \in Owed(c) : m = n
<1>1. Job \in Nat /\ sig \in Nat
  BY Numbers
<1> QED
  BY <1>1 DEF Counted, Owed, ChannelOf

(* While a job is submitted its channel owes none, and the other one only  *)
(* the first bind while the second is submitted.                           *)
LEMMA OwedBefore ==
  ASSUME TypeOK, Counted, Awaited, Unpublished, NEW c \in Channels, NEW n \in Owed(c)
  PROVE  n = 1 /\ Job = 2 /\ c # ChannelOf(Job) /\ sig = 0
<1>1. Job \in Nat /\ sig \in Nat
  BY Numbers
<1> QED
  BY <1>1 DEF Counted, Awaited, Owed, ChannelOf

(* A job stays where it is in a step that leaves its channel alone.        *)
LEMMA LocatedFrame ==
  ASSUME TypeOK, NEW c \in Channels, Located(c), sig' = sig, Owed(c)' = Owed(c),
         gpput'[c] = gpput[c], get'[c] = get[c], methods'[c] = methods[c],
         c = "compute" => running' = running,
         Owed(c) # {} => ring'[c][get[c]] = ring[c][get[c]],
         \A n \in Owed(c) : jobs'[n] = jobs[n],
         \A n \in Owed(c), a \in 0 .. CmdqSize - 1 : Placed(n, a) => Placed(n, a)'
  PROVE  Located(c)'
<1>1. CASE Owed(c) = {}
  BY <1>1 DEF Located, Quiet
<1>2. ASSUME NEW n \in Owed(c), InRing(c, n)
      PROVE  InRing(c, n)'
  BY <1>2 DEF InRing, EntryOf
<1>3. ASSUME NEW n \in Owed(c), InChannel(c, n)
      PROVE  InChannel(c, n)'
  <2>1. Stream(n)' = Stream(n)
    BY DEF Stream
  <2>2. Fetched(n)' = Fetched(n)
    BY <2>1 DEF Fetched
  <2> QED
    BY <1>3, <2>2 DEF InChannel
<1>4. ASSUME NEW n \in Owed(c), Runs(c, n)
      PROVE  Runs(c, n)'
  BY <1>4 DEF Runs
<1> QED
  BY <1>1, <1>2, <1>3, <1>4 DEF Located

-----------------------------------------------------------------------------
LEMMA SafeInit ==
  ASSUME Init, sig = 0
  PROVE  Settled
<1>1. jobs = <<>> /\ Job = 0 /\ sig = 0 /\ pc = "idle" /\ done = {} /\ cmdPtr = 0
  BY DEF Init, Job
<1>2. Counted /\ Awaited /\ Computed /\ Written
  BY <1>1 DEF Counted, Awaited, Computed, Written, Unpublished
<1>3. PutRight
  BY <1>1, RingAssumption DEF Init, PutRight
<1>4. ASSUME NEW c \in Channels PROVE Located(c)
  <2>1. Owed(c) = {}
    BY <1>1 DEF Owed
  <2> QED
    BY <2>1 DEF Init, Located, Quiet
<1> QED
  BY <1>2, <1>3, <1>4 DEF Settled

(* Host: the steps between the doorbell and the next job touch neither the *)
(* buffers nor the channels.                                               *)
LEMMA WaitFrame ==
  ASSUME TypeOK, Settled, UNCHANGED <<jobs, cmdPtr, addr, putValue, memVars, gpuVars>>,
         ~Unpublished, ~Unpublished', pc # "bell", pc' # "bell"
  PROVE  Counted' /\ Written' /\ PutRight' /\ \A c \in Channels : Located(c)'
<1>1. Job' = Job /\ UNCHANGED <<jobs, cmdPtr, addr, putValue, cmdq, kargs, ring, gpput, bell,
                                get, methods, running, sig, done, out, fault>>
  BY DEF Job, memVars, gpuVars
<1>2. Counted'
  BY <1>1 DEF Settled, Counted
<1>3. Written'
  BY <1>1 DEF Settled, Written, Unpublished
<1>4. PutRight'
  BY <1>1 DEF Settled, PutRight
<1>5. ASSUME NEW c \in Channels PROVE Located(c)'
  <2>1. Owed(c)' = Owed(c)
    BY <1>1 DEF Owed, ChannelOf
  <2>2. \A n \in Owed(c), a \in 0 .. CmdqSize - 1 : Placed(n, a) => Placed(n, a)'
    BY <1>1 DEF Placed
  <2> QED
    BY <1>1, <2>1, <2>2, LocatedFrame DEF Settled
<1> QED
  BY <1>2, <1>3, <1>4, <1>5

LEMMA SafeWait ==
  ASSUME TypeOK, Settled, Drain \/ Synchronize \/ WaitDone \/ WaitRaises \/ Copyout
  PROVE  Settled'
<1>1. UNCHANGED <<jobs, cmdPtr, addr, putValue, memVars, gpuVars>>
  BY DEF Drain, Synchronize, WaitDone, WaitRaises, Copyout
<1>2. Job' = Job /\ UNCHANGED <<jobs, kargs, sig, out>>
  BY <1>1 DEF Job, memVars, gpuVars
<1>3. ~Unpublished /\ ~Unpublished' /\ pc # "bell" /\ pc' # "bell"
  BY DEF Drain, Synchronize, WaitDone, WaitRaises, Copyout, Unpublished, AfterSubmit, AfterWait
<1>4. Counted' /\ Written' /\ PutRight' /\ \A c \in Channels : Located(c)'
  BY <1>1, <1>3, WaitFrame
<1>5. Counted /\ Awaited /\ Computed /\ Job \in Nat /\ sig \in Nat /\ (pc # "idle" => Job >= 1)
  BY Numbers DEF Settled
<1>6. Awaited' /\ Computed'
  <2>1. CASE Drain
    BY <1>2, <1>3, <1>5, <2>1 DEF Drain, AfterSubmit, Counted, Awaited, Computed
  <2>2. CASE Synchronize
    BY <1>2, <1>3, <1>5, <2>2 DEF Synchronize, Counted, Awaited, Computed
  <2>3. CASE WaitDone
    BY <1>2, <1>3, <1>5, <2>3 DEF WaitDone, AfterWait, Counted, Awaited, Computed
  <2>4. CASE WaitRaises
    BY <1>2, <1>3, <1>5, <2>4 DEF WaitRaises, Counted, Awaited, Computed
  <2>5. CASE Copyout
    BY <1>2, <1>3, <1>5, <2>5 DEF Copyout, Counted, Awaited, Computed
  <2> QED
    BY <2>1, <2>2, <2>3, <2>4, <2>5
<1> QED
  BY <1>4, <1>6 DEF Settled

(* Host: a job is begun when nothing is owed, or only the first bind.      *)
LEMMA SafeBegin ==
  ASSUME TypeOK, Settled, NEW k \in Kinds, Begin(k)
  PROVE  Settled'
<1> DEFINE slot == BumpAlloc(kargPtr, 1, 1, KargSlots)
           job  == [kind |-> k, slot |-> IF k = "launch" THEN slot ELSE 0]
<1>1. slot \in 0 .. KargSlots - 1
  <2>1. kargPtr \in Nat /\ KargSlots \in Nat /\ 1 <= KargSlots
    BY KargAssumption DEF TypeOK, HostTypes
  <2>2. slot \in Nat /\ slot + 1 <= KargSlots
    BY <2>1, BumpAllocFits
  <2> QED
    BY <2>1, <2>2
<1>2. /\ pc = "idle" /\ pc' = "stream" /\ k \in NextKinds
      /\ jobs' = Append(jobs, job)
      /\ k = "launch" => kargs' = [kargs EXCEPT ![slot] = Job + 1]
      /\ UNCHANGED <<cmdq, cmdPtr, addr, ring, putValue, gpput, bell, get, methods, running, sig, done, out>>
  BY DEF Begin, gpuVars
<1>3. job.kind = k /\ (k = "launch" => job.slot = slot)
  OBVIOUS
<1>4. /\ Job \in Nat /\ Job' = Job + 1 /\ jobs'[Job + 1] = job
      /\ \A n \in 1 .. Job : jobs'[n] = jobs[n]
  <2> HIDE DEF job, slot
  <2>1. jobs \in Seq(JobRecords)
    BY DEF TypeOK, HostTypes
  <2> QED
    BY <1>2, <2>1 DEF Job
<1> HIDE DEF job, slot
<1>5. Counted /\ Awaited /\ Written /\ PutRight /\ sig \in Nat
  BY Numbers DEF Settled
<1>6. k = (IF Job = 0 THEN "bindc" ELSE IF Job = 1 THEN "bindx" ELSE k)
        /\ (Job > 1 => k \in {"slm", "launch"})
  BY <1>2, <1>4 DEF NextKinds
<1>7. Counted'
  <2>1. sig' = sig /\ done' = 1 .. sig /\ sig <= Job' /\ (Job' <= sig + 1 \/ Job' = 2)
    BY <1>2, <1>4, <1>5 DEF Counted, Awaited
  <2>2. ASSUME NEW n \in 1 .. Job'
        PROVE  (jobs'[n].kind = "bindc" <=> n = 1) /\ (jobs'[n].kind = "bindx" <=> n = 2)
    <3>1. CASE n = Job + 1
      BY <1>3, <1>4, <1>6, <3>1
    <3>2. CASE n # Job + 1
      <4>1. n \in 1 .. Job
        BY <1>4, <3>2
      <4> QED
        BY <1>4, <1>5, <4>1 DEF Counted
    <3> QED
      BY <3>1, <3>2
  <2> QED
    BY <2>1, <2>2 DEF Counted
<1>8. Awaited'
  BY <1>2, <1>4, <1>5 DEF Awaited, Counted, Unpublished
<1>9. Computed'
  <2>1. kargs \in [0 .. KargSlots - 1 -> 0 .. Job]
    BY DEF TypeOK, MemTypes
  <2>2. jobs'[Job'].kind = k /\ (k = "launch" => jobs'[Job'].slot = slot)
    BY <1>3, <1>4
  <2>3. k = "launch" => kargs'[slot] = Job'
    BY <1>1, <1>2, <1>4, <2>1
  <2>4. sig' # Job' /\ pc' \notin {"idle", "sync"}
    BY <1>2, <1>4, <1>5 DEF Counted
  <2> QED
    BY <2>2, <2>3, <2>4 DEF Computed
<1>10. Written' /\ PutRight'
  BY <1>2, <1>4, <1>5 DEF Written, PutRight, Unpublished, Awaited
<1>11. ASSUME NEW c \in Channels PROVE Located(c)'
  <2>1. \A n \in 1 .. Job : ChannelOf(n)' = ChannelOf(n)
    BY <1>4 DEF ChannelOf
  <2>2. Owed(c)' = {n \in 1 .. Job : sig < n /\ ChannelOf(n) = c}
    BY <1>2, <1>4, <2>1 DEF Owed, Unpublished
  <2>3. Owed(c) = {n \in 1 .. Job : sig < n /\ ChannelOf(n) = c}
    BY <1>2 DEF Owed, Unpublished
  <2>4. Owed(c)' = Owed(c) /\ \A n \in Owed(c) : n \in 1 .. Job
    BY <2>2, <2>3
  <2>5. \A n \in Owed(c), a \in 0 .. CmdqSize - 1 : Placed(n, a) => Placed(n, a)'
    BY <1>2, <1>4, <2>4 DEF Placed
  <2> QED
    BY <1>2, <1>4, <2>4, <2>5, LocatedFrame DEF Settled
<1> QED
  BY <1>7, <1>8, <1>9, <1>10, <1>11 DEF Settled

(* Host: the stream of a job is written over words no owed job needs.      *)
LEMMA SafeWriteStream ==
  ASSUME TypeOK, Settled, WriteStream
  PROVE  Settled'
<1> DEFINE len == JobLen[jobs[Job].kind]
           a   == BumpAlloc(cmdPtr, len, Align, CmdqSize)
<1>1. Job \in 1 .. Job /\ len \in Nat \ {0} /\ len <= CmdqSize /\ CmdqSize \in Nat
      /\ cmdPtr \in Nat /\ sig \in Nat /\ Job \in Nat
  BY Numbers, JobLenAssumption, CmdqAssumption DEF WriteStream, TypeOK, HostTypes
<1>2. a \in Nat /\ a + len <= CmdqSize
  <2> HIDE DEF len
  <2> QED
    BY <1>1, BumpAllocFits, CmdqAssumption
<1>3. /\ pc = "stream" /\ pc' = "entry" /\ addr' = a /\ cmdPtr' = a + len
      /\ cmdq' = [w \in DOMAIN cmdq |-> IF w \in Segment(a, len) THEN Job ELSE cmdq[w]]
      /\ UNCHANGED <<jobs, kargs, ring, putValue, gpput, get, methods, running, sig, done, out>>
      /\ Job' = Job
  BY DEF WriteStream, gpuVars, Job
<1>4. Unpublished /\ Unpublished' /\ Counted /\ Awaited /\ Computed /\ Written /\ PutRight
  BY <1>3 DEF Unpublished, Settled
<1>5. Job = 1 => a = 0 /\ len = JobLen["bindc"]
  BY <1>1, <1>3, <1>4, RoundUpAbove, CmdqAssumption DEF Written, Counted, BumpAlloc
<1>6. Job = 2 => a >= JobLen["bindc"]
  <2> SUFFICES ASSUME Job = 2 PROVE a >= JobLen["bindc"]
    OBVIOUS
  <2>1. cmdPtr = JobLen["bindc"] /\ len = JobLen["bindx"]
    BY <1>1, <1>3, <1>4 DEF Written, Counted
  <2>2. JobLen["bindc"] \in Nat /\ JobLen["bindx"] \in Nat
    BY JobLenAssumption DEF Kinds
  <2>3. RoundUp(JobLen["bindc"], Align) \in Nat /\ RoundUp(JobLen["bindc"], Align) >= JobLen["bindc"]
    BY <2>2, RoundUpAbove, CmdqAssumption
  <2>4. a = RoundUp(JobLen["bindc"], Align)
    BY <1>1, <2>1, <2>2, <2>3, BindAssumption DEF BumpAlloc
  <2> QED
    BY <2>3, <2>4
<1> HIDE DEF a
<1>7. \A w \in Segment(a, len) : w \in DOMAIN cmdq
  BY <1>1, <1>2 DEF Segment, TypeOK, MemTypes
<1>8. Counted' /\ Awaited' /\ Computed' /\ PutRight'
  <2>1. Counted' /\ Awaited'
    BY <1>3, <1>4 DEF Counted, Awaited, Unpublished
  <2>2. Computed'
    BY <1>3, <1>4 DEF Computed
  <2>3. PutRight'
    BY <1>3, <1>4 DEF PutRight, ChannelOf
  <2> QED
    BY <2>1, <2>2, <2>3
<1>9. Written'
  <2>1. Placed(Job, addr)'
    BY <1>3, <1>5, <1>7 DEF Placed
  <2>2. Job = 1 => cmdPtr' = JobLen["bindc"]
    BY <1>1, <1>3, <1>5
  <2> QED
    BY <1>1, <1>3, <2>1, <2>2 DEF Written
<1>10. ASSUME NEW c \in Channels PROVE Located(c)'
  <2>1. Owed(c)' = Owed(c)
    BY <1>3, <1>4 DEF Owed, ChannelOf
  <2>2. ASSUME NEW n \in Owed(c), NEW b \in 0 .. CmdqSize - 1, Placed(n, b)
        PROVE  Placed(n, b)'
    <3>1. n = 1 /\ Job = 2
      BY <1>4, OwedBefore
    <3>2. jobs[1].kind = "bindc" /\ b = 0 /\ JobLen["bindc"] \in Nat
      BY <1>4, <2>2, <3>1, JobLenAssumption DEF Counted, Placed, Kinds
    <3>3. \A w \in Segment(0, JobLen["bindc"]) : w \notin Segment(a, len)
      BY <1>1, <1>2, <1>6, <3>1, <3>2 DEF Segment
    <3>4. \A w \in Segment(0, JobLen["bindc"]) : w \in DOMAIN cmdq
      BY <1>1, <1>2, <1>6, <3>1, <3>2 DEF Segment, TypeOK, MemTypes
    <3> QED
      BY <1>3, <2>2, <3>1, <3>2, <3>3, <3>4 DEF Placed
  <2> QED
    BY <1>3, <2>1, <2>2, LocatedFrame DEF Settled
<1> QED
  BY <1>8, <1>9, <1>10 DEF Settled

(* Host: the entry is stored where GPPUT points, in a ring its channel has *)
(* emptied.                                                                *)
LEMMA SafeWriteEntry ==
  ASSUME TypeOK, Settled, WriteEntry
  PROVE  Settled'
<1> DEFINE c == ChannelOf(Job)
<1>1. Job \in 1 .. Job /\ Job \in Nat /\ c \in Channels /\ putValue[c] % RingSize \in 0 .. RingSize - 1
  <2>1. Job \in 1 .. Job /\ Job \in Nat /\ c \in Channels
    BY Numbers DEF WriteEntry
  <2>2. putValue[c] \in Nat
    BY <2>1 DEF TypeOK, HostTypes
  <2> QED
    BY <2>1, <2>2, RingAssumption
<1>2. /\ pc = "entry" /\ pc' = "gpput"
      /\ ring' = [ring EXCEPT ![c][putValue[c] % RingSize] = EntryOf(Job, addr)]
      /\ UNCHANGED <<jobs, cmdq, cmdPtr, addr, kargs, putValue, gpput, bell,
                     get, methods, running, sig, done, out>>
      /\ Job' = Job
  BY DEF WriteEntry, gpuVars, Job, EntryOf
<1>3. Unpublished /\ Unpublished' /\ Counted /\ Awaited /\ Computed /\ Written /\ PutRight
  BY <1>2 DEF Unpublished, Settled
<1>4. Counted' /\ Awaited' /\ Computed' /\ PutRight'
  BY <1>2, <1>3 DEF Counted, Awaited, Computed, PutRight, Unpublished
<1>5. ChannelOf(Job)' = c /\ (Placed(Job, addr) => Placed(Job, addr)')
      /\ EntryOf(Job, addr)' = EntryOf(Job, addr)
  BY <1>2 DEF ChannelOf, Placed, EntryOf
<1> HIDE DEF c
<1>6. Written'
  <2>1. ring'[c][putValue[c] % RingSize] = EntryOf(Job, addr)
    BY <1>1, <1>2 DEF TypeOK, MemTypes
  <2>2. gpput'[c] = putValue[c] % RingSize
    BY <1>1, <1>2, <1>3 DEF PutRight
  <2> QED
    BY <1>1, <1>2, <1>3, <1>5, <2>1, <2>2 DEF Written
<1>7. ASSUME NEW d \in Channels PROVE Located(d)'
  <2>1. Owed(d)' = Owed(d)
    BY <1>2, <1>3 DEF Owed, ChannelOf
  <2>2. \A n \in Owed(d), a \in 0 .. CmdqSize - 1 : Placed(n, a) => Placed(n, a)'
    BY <1>2 DEF Placed
  <2>3. Owed(d) # {} => d # c
    BY <1>3, OwedBefore DEF c
  <2>4. Owed(d) # {} => ring'[d] = ring[d]
    BY <1>1, <1>2, <2>3 DEF TypeOK, MemTypes
  <2> QED
    BY <1>2, <2>1, <2>2, <2>4, LocatedFrame DEF Settled
<1> QED
  BY <1>4, <1>6, <1>7 DEF Settled

(* Host: with GPPUT the job is in the ring of its channel.                 *)
LEMMA SafeWriteGpput ==
  ASSUME TypeOK, Settled, WriteGpput
  PROVE  Settled'
<1>0. PICK c \in Channels : c = ChannelOf(Job)
  BY Numbers DEF WriteGpput
<1>1. Job \in 1 .. Job /\ Job \in Nat /\ c \in Channels /\ putValue[c] \in Nat
      /\ gpput[c] \in 0 .. RingSize - 1
  BY <1>0, Numbers DEF WriteGpput, TypeOK, HostTypes, MemTypes
<1>2. /\ pc = "gpput" /\ pc' = "bell"
      /\ gpput' = [gpput EXCEPT ![c] = (putValue[c] + 1) % RingSize]
      /\ UNCHANGED <<jobs, cmdq, cmdPtr, addr, kargs, putValue, ring, bell,
                     get, methods, running, sig, done, out>>
      /\ Job' = Job
  BY <1>0 DEF WriteGpput, gpuVars, Job
<1>3. Unpublished /\ ~Unpublished' /\ Counted /\ Awaited /\ Computed /\ Written /\ PutRight
  BY <1>2 DEF Unpublished, Settled
<1>4. Counted' /\ Awaited' /\ Computed'
  BY <1>2, <1>3 DEF Counted, Awaited, Computed, Unpublished
<1>5. \A n \in 1 .. Job : ChannelOf(n)' = ChannelOf(n) /\ \A a : Placed(n, a)' = Placed(n, a)
                          /\ EntryOf(n, a)' = EntryOf(n, a)
  BY <1>2 DEF ChannelOf, Placed, EntryOf
<1>6. Written'
  BY <1>2, <1>3 DEF Written
<1>7. gpput'[c] = (putValue[c] + 1) % RingSize /\ \A d \in Channels : d # c => gpput'[d] = gpput[d]
  BY <1>1, <1>2 DEF TypeOK, MemTypes
<1>8. PutRight'
  <2>1. ChannelOf(Job)' = c
    BY <1>0, <1>2 DEF ChannelOf
  <2> QED
    BY <1>2, <1>3, <1>7, <2>1 DEF PutRight
<1>9. gpput[c] = putValue[c] % RingSize /\ gpput'[c] = (gpput[c] + 1) % RingSize
  <2>1. gpput[c] = putValue[c] % RingSize
    BY <1>0, <1>1, <1>2, <1>3 DEF PutRight
  <2>2. RingSize \in Nat \ {0}
    BY RingAssumption
  <2> QED
    BY <1>1, <1>7, <2>1, <2>2, ModNext
<1>10. Owed(c) = {}
  BY <1>0, <1>1, <1>3, OwedBefore
<1>11. Quiet(c)
  BY <1>1, <1>10 DEF Settled, Located
<1>12. Located(c)'
  <2>1. PICK n \in 1 .. Job : n = Job /\ n \in Owed(c)'
    BY <1>0, <1>1, <1>2, <1>3, <1>5 DEF Owed, Awaited
  <2>2. addr \in 0 .. CmdqSize - 1 /\ Placed(Job, addr) /\ ring[c][gpput[c]] = EntryOf(Job, addr)
    BY <1>0, <1>2, <1>3 DEF Written, TypeOK, HostTypes
  <2>3. InRing(c, n)'
    <3>1. /\ gpput'[c] = (get'[c] + 1) % RingSize /\ methods'[c] = <<>>
          /\ c = "compute" => running' = {}
      BY <1>2, <1>9, <1>11 DEF Quiet
    <3>2. PICK a \in 0 .. CmdqSize - 1 : a = addr
      BY <2>2
    <3>3. ring'[c][get'[c]] = EntryOf(n, a)' /\ Placed(n, a)'
      BY <1>2, <1>11, <2>1, <2>2, <3>2 DEF Quiet, EntryOf, Placed
    <3> QED
      BY <3>1, <3>3 DEF InRing
  <2> QED
    BY <1>2, <2>1, <2>3 DEF Located
<1>13. ASSUME NEW d \in Channels, d # c PROVE Located(d)'
  <2>1. Owed(d)' = Owed(d)
    <3>1. \A n \in 1 .. Job : ChannelOf(n) = d => n # Job
      BY <1>0, <1>13
    <3> QED
      BY <1>2, <1>5, <3>1 DEF Owed
  <2>2. \A n \in Owed(d), a \in 0 .. CmdqSize - 1 : Placed(n, a) => Placed(n, a)'
    BY <1>2 DEF Placed
  <2>3. gpput'[d] = gpput[d] /\ Located(d)
    BY <1>7, <1>13 DEF Settled
  <2> QED
    BY <1>2, <2>1, <2>2, <2>3, LocatedFrame
<1> QED
  BY <1>1, <1>4, <1>6, <1>8, <1>12, <1>13 DEF Settled

LEMMA SafeRingDoorbell ==
  ASSUME TypeOK, Settled, RingDoorbell
  PROVE  Settled'
<1> DEFINE c == ChannelOf(Job)
<1>1. Job \in 1 .. Job /\ Job \in Nat /\ sig \in Nat /\ c \in Channels
  BY Numbers DEF RingDoorbell
<1>2. /\ pc = "bell" /\ pc' = (IF IsRemote THEN "drain" ELSE AfterSubmit)
      /\ putValue' = [putValue EXCEPT ![c] = @ + 1]
      /\ UNCHANGED <<jobs, cmdq, cmdPtr, addr, kargs, ring, gpput,
                     get, methods, running, sig, done, out>>
      /\ Job' = Job
  BY DEF RingDoorbell, gpuVars, Job
<1>3. pc' \in {"drain", "wait"} \/ (pc' = "idle" /\ Job = 1)
  BY <1>2 DEF AfterSubmit
<1>4. ~Unpublished /\ ~Unpublished' /\ Counted /\ Awaited /\ Computed /\ Written /\ PutRight
  BY <1>2, <1>3 DEF Unpublished, Settled
<1>5. Counted' /\ Written'
  BY <1>2, <1>3, <1>4 DEF Counted, Written
<1>6. Awaited'
  <2>1. pc' = "wait" => Job # 1
    BY <1>2 DEF AfterSubmit
  <2> QED
    BY <1>1, <1>2, <1>3, <1>4, <2>1 DEF Awaited
<1>7. Computed'
  BY <1>1, <1>2, <1>3, <1>4 DEF Computed, Counted
<1>8. PutRight'
  <2> HIDE DEF c
  <2> QED
    BY <1>1, <1>2, <1>3, <1>4 DEF PutRight, TypeOK, HostTypes, c
<1>9. ASSUME NEW d \in Channels PROVE Located(d)'
  <2>1. Owed(d)' = Owed(d)
    BY <1>2, <1>4 DEF Owed, ChannelOf
  <2>2. \A n \in Owed(d), a \in 0 .. CmdqSize - 1 : Placed(n, a) => Placed(n, a)'
    BY <1>2 DEF Placed
  <2> QED
    BY <1>2, <2>1, <2>2, LocatedFrame DEF Settled
<1> QED
  BY <1>5, <1>6, <1>7, <1>8, <1>9 DEF Settled

(* GPU: a step that finishes no job moves one on in its channel.           *)
LEMMA GpuMoves ==
  ASSUME TypeOK, Settled, UNCHANGED <<hostVars, cmdq, kargs, ring, gpput, sig, done, out>>,
         NEW c \in Channels, c # "compute" => running' = running,
         \A d \in Channels : d # c => get'[d] = get[d] /\ methods'[d] = methods[d],
         Owed(c)' = Owed(c) => Located(c)'
  PROVE  Settled'
<1>1. Job' = Job /\ UNCHANGED <<pc, jobs, cmdPtr, addr, putValue, result>>
  BY DEF hostVars, Job
<1>2. Counted' /\ Awaited' /\ Computed' /\ Written' /\ PutRight'
  BY <1>1 DEF Settled, Counted, Awaited, Computed, Written, PutRight, Unpublished,
     ChannelOf, EntryOf, Placed
<1>3. \A d \in Channels : Owed(d)' = Owed(d)
  BY <1>1 DEF Owed, ChannelOf, Unpublished
<1>4. ASSUME NEW d \in Channels, d # c PROVE Located(d)'
  <2>1. \A n \in Owed(d), a \in 0 .. CmdqSize - 1 : Placed(n, a) => Placed(n, a)'
    BY <1>1 DEF Placed
  <2>2. Located(d) /\ (d = "compute" => running' = running)
    BY <1>4 DEF Settled, Channels
  <2> QED
    BY <1>1, <1>3, <1>4, <2>1, <2>2, LocatedFrame
<1> QED
  BY <1>2, <1>3, <1>4 DEF Settled

(* GPU: a step that finishes a job finishes the next one, and leaves its   *)
(* channel without work.                                                   *)
LEMMA GpuFinishes ==
  ASSUME TypeOK, Settled, UNCHANGED <<hostVars, cmdq, kargs, ring, gpput>>,
         NEW c \in Channels, NEW n \in Owed(c), c # "compute" => running' = running,
         sig = n - 1, sig' = n, done' = done \cup {n},
         jobs[n].kind = "launch" => out' = n,
         \A d \in Channels : d # c => get'[d] = get[d] /\ methods'[d] = methods[d],
         Quiet(c)'
  PROVE  Settled'
<1>1. Job' = Job /\ UNCHANGED <<pc, jobs, cmdPtr, addr, putValue, result>>
  BY DEF hostVars, Job
<1>2. /\ Job \in Nat /\ sig \in Nat /\ n \in 1 .. Job /\ ChannelOf(n) = c
      /\ n = Job => ~Unpublished
      /\ Counted /\ Awaited /\ Computed /\ Written /\ PutRight
  BY Numbers DEF Owed, Settled
<1>3. Counted'
  <2>1. done' = 1 .. n
    BY <1>2 DEF Counted
  <2> QED
    BY <1>1, <1>2, <2>1 DEF Counted
<1>4. Awaited'
  BY <1>1, <1>2 DEF Awaited, Counted, Unpublished
<1>5. Computed'
  <2>1. sig' = Job' => n = Job
    BY <1>1, <1>2
  <2>2. pc \in {"idle", "sync"} /\ jobs[Job].kind = "launch" /\ Job > 0 => FALSE
    BY <1>2 DEF Awaited, Counted
  <2> QED
    BY <1>1, <1>2, <2>1, <2>2 DEF Computed
<1>6. Written' /\ PutRight'
  BY <1>1, <1>2 DEF Written, PutRight, ChannelOf, EntryOf, Placed
<1>7. \A d \in Channels : Owed(d)' = Owed(d) \ {n}
  BY <1>1, <1>2 DEF Owed, ChannelOf, Unpublished, Counted
<1>8. Located(c)'
  <2>1. Owed(c)' = {}
    BY <1>2, <1>7, OwedOnly
  <2> QED
    BY <2>1 DEF Located
<1>9. ASSUME NEW d \in Channels, d # c PROVE Located(d)'
  <2>1. n \notin Owed(d)
    BY <1>2, <1>9 DEF Owed
  <2>2. Owed(d)' = Owed(d) /\ Located(d) /\ (d = "compute" => running' = running)
    <3>1. Owed(d)' = Owed(d)
      BY <1>7, <2>1
    <3> QED
      BY <1>9, <3>1 DEF Settled
  <2>3. ASSUME NEW m \in Owed(d)
        PROVE  m \in 1 .. Job /\ sig # m - 1 /\ sig' <= m - 1 /\ Stream(m)' = Stream(m)
    <3>1. m \in 1 .. Job /\ m > sig /\ m # n
      BY <2>1 DEF Owed
    <3>2. Stream(m)' = Stream(m)
      BY <1>1 DEF Stream
    <3> QED
      BY <1>2, <3>1, <3>2
  <2>4. CASE Owed(d) = {}
    BY <1>9, <2>2, <2>4 DEF Located, Quiet
  <2>5. ASSUME NEW m \in Owed(d), InRing(d, m) PROVE InRing(d, m)'
    <3>1. \A a \in 0 .. CmdqSize - 1 : /\ EntryOf(m, a)' = EntryOf(m, a)
                                       /\ Placed(m, a)' = Placed(m, a)
      BY <1>1 DEF EntryOf, Placed
    <3> QED
      BY <1>9, <2>2, <2>5, <3>1 DEF InRing
  <2>6. ASSUME NEW m \in Owed(d), InChannel(d, m) PROVE InChannel(d, m)'
    <3>1. methods[d] = Stream(m)
      BY <2>3, <2>6 DEF InChannel, Fetched
    <3>2. methods'[d] \in Fetched(m)'
      BY <1>9, <2>3, <3>1 DEF Fetched
    <3> QED
      BY <1>9, <2>2, <2>6, <3>2 DEF InChannel
  <2>7. ASSUME NEW m \in Owed(d), Runs(d, m) PROVE FALSE
    BY <2>3, <2>7 DEF Runs
  <2> QED
    BY <2>2, <2>4, <2>5, <2>6, <2>7 DEF Located
<1> QED
  BY <1>3, <1>4, <1>5, <1>6, <1>8, <1>9 DEF Settled

LEMMA SafeFetch ==
  ASSUME TypeOK, Settled, NEW c \in Channels, Fetch(c)
  PROVE  Settled'
<1> DEFINE words == Segment(ring[c][get[c]].addr, ring[c][get[c]].len)
           Whole(n) == /\ words # {} /\ \A w \in words : cmdq[w] = n
                       /\ ring[c][get[c]].len = JobLen[jobs[n].kind]
<1>1. /\ get[c] # gpput[c] /\ get' = [get EXCEPT ![c] = (@ + 1) % RingSize]
      /\ \/ \E n \in 1 .. Job :
              Whole(n) /\ methods' = [methods EXCEPT ![c] = @ \o Stream(n)]
         \/ ~\E n \in 1 .. Job : Whole(n)
      /\ UNCHANGED <<running, sig, done, out, cmdq, kargs, ring, gpput, hostVars>>
  BY DEF Fetch
<1>2. PICK n \in Owed(c) : InRing(c, n)
  BY <1>1 DEF Settled, Located, Quiet, InChannel, Runs
<1>3. PICK a \in 0 .. CmdqSize - 1 : ring[c][get[c]] = EntryOf(n, a) /\ Placed(n, a)
  BY <1>2 DEF InRing
<1>4. n \in 1 .. Job /\ JobLen[jobs[n].kind] \in Nat \ {0} /\ CmdqSize \in Nat
  BY Numbers, CmdqAssumption DEF Owed
<1>5. words = Segment(a, JobLen[jobs[n].kind]) /\ ring[c][get[c]].len = JobLen[jobs[n].kind]
  BY <1>3 DEF EntryOf
<1>6. a \in words /\ \A w \in words : cmdq[w] = n
  <2> HIDE DEF words
  <2> QED
    BY <1>3, <1>4, <1>5 DEF Placed, Segment
<1>7. Whole(n) /\ \A m \in 1 .. Job : Whole(m) => m = n
  BY <1>5, <1>6
<1> HIDE DEF Whole, words
<1>8. methods' = [methods EXCEPT ![c] = @ \o Stream(n)]
  BY <1>1, <1>4, <1>7
<1>9. methods'[c] = Stream(n)
  <2>1. methods[c] = <<>> /\ methods \in [Channels -> Seq(Methods(Job))]
    BY <1>2 DEF InRing, TypeOK, GpuTypes
  <2>2. Stream(n) \in Seq(Methods(Job))
    BY <1>4, Numbers, StreamType
  <2>3. <<>> \o Stream(n) = Stream(n)
    BY <2>2, ConcatEmptySeq
  <2> QED
    BY <1>8, <2>1, <2>3
<1>10. get'[c] = gpput[c] /\ (c = "compute" => running' = {})
  BY <1>1, <1>2 DEF InRing, TypeOK, GpuTypes
<1>11. InChannel(c, n)'
  <2>1. Stream(n)' = Stream(n)
    BY <1>1 DEF Stream, hostVars
  <2>2. methods'[c] \in Fetched(n)'
    BY <1>9, <2>1 DEF Fetched
  <2> QED
    BY <1>1, <1>10, <2>2 DEF InChannel
<1>12. \A d \in Channels : d # c => get'[d] = get[d] /\ methods'[d] = methods[d]
  BY <1>1, <1>8 DEF TypeOK, GpuTypes
<1>13. Owed(c)' = Owed(c) => Located(c)'
  BY <1>2, <1>11 DEF Located
<1> QED
  BY <1>1, <1>12, <1>13, GpuMoves

LEMMA HeadsAndTails ==
  ASSUME NEW x, NEW y, NEW z
  PROVE  /\ Head(<<x>>) = x /\ Tail(<<x>>) = <<>>
         /\ Head(<<x, y>>) = x /\ Tail(<<x, y>>) = <<y>>
         /\ Head(<<x, y, z>>) = x /\ Tail(<<x, y, z>>) = <<y, z>>
OBVIOUS

LEMMA MethodFields ==
  ASSUME NEW op, NEW n
  PROVE  Method(op, n).op = op /\ Method(op, n).n = n
BY DEF Method

(* What a channel with methods to execute is working on.                   *)
LEMMA Working ==
  ASSUME TypeOK, Settled, NEW c \in Channels, methods[c] # <<>>
  PROVE  \E n \in Owed(c) :
           /\ n \in 1 .. Job /\ InChannel(c, n)
           /\ \/ /\ Head(methods[c]) = Method("acquire", n - 1) /\ sig <= n - 1
                 /\ \/ /\ jobs[n].kind # "launch"
                       /\ Tail(methods[c]) = <<Method("setup", n), Method("release", n)>>
                    \/ jobs[n].kind = "launch" /\ Tail(methods[c]) = <<Method("launch", n)>>
              \/ /\ Head(methods[c]) = Method("setup", n)
                 /\ jobs[n].kind # "launch" /\ sig = n - 1
                 /\ Tail(methods[c]) = <<Method("release", n)>>
              \/ /\ Head(methods[c]) = Method("release", n)
                 /\ jobs[n].kind # "launch" /\ sig = n - 1
                 /\ Tail(methods[c]) = <<>>
              \/ /\ Head(methods[c]) = Method("launch", n)
                 /\ jobs[n].kind = "launch" /\ sig = n - 1
                 /\ Tail(methods[c]) = <<>>
<1>1. PICK n \in Owed(c) : InChannel(c, n)
  BY DEF Settled, Located, Quiet, InRing, Runs
<1>2. n \in 1 .. Job /\ sig <= n - 1 /\ jobs[n].kind \in Kinds
      /\ (jobs[n].kind = "bindc" => sig = n - 1)
  BY Numbers DEF Owed, Settled, Counted
<1>3. /\ jobs[n].kind = "bindc" =>
           Stream(n) = <<Method("setup", n), Method("release", n)>>
      /\ jobs[n].kind = "launch" =>
           Stream(n) = <<Method("acquire", n - 1), Method("launch", n)>>
      /\ jobs[n].kind \in {"bindx", "slm"} =>
           Stream(n) = <<Method("acquire", n - 1), Method("setup", n), Method("release", n)>>
  BY DEF Stream
<1>4. \/ methods[c] = Stream(n)
      \/ /\ sig = n - 1 /\ jobs[n].kind = "launch"
         /\ methods[c] = <<Method("launch", n)>>
      \/ /\ sig = n - 1 /\ jobs[n].kind # "launch"
         /\ \/ methods[c] = <<Method("setup", n), Method("release", n)>>
            \/ methods[c] = <<Method("release", n)>>
  BY <1>1 DEF InChannel, Fetched
<1>5. \/ /\ jobs[n].kind # "launch" /\ sig <= n - 1
         /\ methods[c] = <<Method("acquire", n - 1), Method("setup", n), Method("release", n)>>
      \/ /\ jobs[n].kind = "launch" /\ sig <= n - 1
         /\ methods[c] = <<Method("acquire", n - 1), Method("launch", n)>>
      \/ /\ jobs[n].kind # "launch" /\ sig = n - 1
         /\ methods[c] = <<Method("setup", n), Method("release", n)>>
      \/ /\ jobs[n].kind # "launch" /\ sig = n - 1
         /\ methods[c] = <<Method("release", n)>>
      \/ /\ jobs[n].kind = "launch" /\ sig = n - 1
         /\ methods[c] = <<Method("launch", n)>>
  BY <1>2, <1>3, <1>4 DEF Kinds
<1>6. CASE jobs[n].kind # "launch" /\ sig <= n - 1
             /\ methods[c] = <<Method("acquire", n - 1), Method("setup", n), Method("release", n)>>
  <2>1. /\ Head(methods[c]) = Method("acquire", n - 1)
        /\ Tail(methods[c]) = <<Method("setup", n), Method("release", n)>>
    BY <1>6, HeadsAndTails
  <2> QED
    BY <1>1, <1>2, <1>6, <2>1
<1>7. CASE jobs[n].kind = "launch" /\ sig <= n - 1
             /\ methods[c] = <<Method("acquire", n - 1), Method("launch", n)>>
  <2>1. Head(methods[c]) = Method("acquire", n - 1) /\ Tail(methods[c]) = <<Method("launch", n)>>
    BY <1>7, HeadsAndTails
  <2> QED
    BY <1>1, <1>2, <1>7, <2>1
<1>8. CASE jobs[n].kind # "launch" /\ sig = n - 1
             /\ methods[c] = <<Method("setup", n), Method("release", n)>>
  <2>1. Head(methods[c]) = Method("setup", n) /\ Tail(methods[c]) = <<Method("release", n)>>
    BY <1>8, HeadsAndTails
  <2> QED
    BY <1>1, <1>2, <1>8, <2>1
<1>9. CASE jobs[n].kind # "launch" /\ sig = n - 1 /\ methods[c] = <<Method("release", n)>>
  <2>1. Head(methods[c]) = Method("release", n) /\ Tail(methods[c]) = <<>>
    BY <1>9, HeadsAndTails
  <2> QED
    BY <1>1, <1>2, <1>9, <2>1
<1>10. CASE jobs[n].kind = "launch" /\ sig = n - 1 /\ methods[c] = <<Method("launch", n)>>
  <2>1. Head(methods[c]) = Method("launch", n) /\ Tail(methods[c]) = <<>>
    BY <1>10, HeadsAndTails
  <2> QED
    BY <1>1, <1>2, <1>10, <2>1
<1> QED
  BY <1>5, <1>6, <1>7, <1>8, <1>9, <1>10

LEMMA FetchedLater ==
  ASSUME NEW n, sig = n - 1, UNCHANGED <<jobs, sig>>
  PROVE  /\ jobs[n].kind = "launch" => <<Method("launch", n)>> \in Fetched(n)'
         /\ jobs[n].kind # "launch" => /\ <<Method("setup", n), Method("release", n)>> \in Fetched(n)'
                                       /\ <<Method("release", n)>> \in Fetched(n)'
<1>1. Stream(n)' = Stream(n)
  BY DEF Stream
<1>2. Fetched(n)' = Fetched(n)
  BY <1>1 DEF Fetched
<1>3. CASE jobs[n].kind = "launch"
  <2>1. Fetched(n) = {Stream(n)} \cup {<<Method("launch", n)>>}
    BY <1>3, Zenon DEF Fetched
  <2> QED
    BY <1>2, <1>3, <2>1, Zenon
<1>4. CASE jobs[n].kind # "launch"
  <2>1. Fetched(n) = {Stream(n)} \cup {<<Method("setup", n), Method("release", n)>>,
                                       <<Method("release", n)>>}
    BY <1>4, Zenon DEF Fetched
  <2> QED
    BY <1>2, <1>4, <2>1, Zenon
<1> QED
  BY <1>3, <1>4

LEMMA SafeAcquire ==
  ASSUME TypeOK, Settled, NEW c \in Channels, Acquire(c)
  PROVE  Settled'
<1>1. /\ methods[c] # <<>> /\ Head(methods[c]).op = "acquire" /\ sig >= Head(methods[c]).n
      /\ methods' = [methods EXCEPT ![c] = Tail(@)]
      /\ UNCHANGED <<get, running, sig, done, out, cmdq, kargs, ring, gpput, hostVars, jobs>>
  BY DEF Acquire, At, Pop, memVars, hostVars
<1>2. PICK n \in Owed(c) :
        /\ n \in 1 .. Job /\ InChannel(c, n)
        /\ Head(methods[c]) = Method("acquire", n - 1) /\ sig <= n - 1
        /\ \/ /\ jobs[n].kind # "launch"
              /\ Tail(methods[c]) = <<Method("setup", n), Method("release", n)>>
           \/ jobs[n].kind = "launch" /\ Tail(methods[c]) = <<Method("launch", n)>>
  BY <1>1, Working, MethodFields
<1>3. sig = n - 1
  BY <1>1, <1>2, MethodFields, Numbers
<1>4. methods'[c] = Tail(methods[c]) /\ \A d \in Channels : d # c => methods'[d] = methods[d]
  BY <1>1 DEF TypeOK, GpuTypes
<1>5. methods'[c] \in Fetched(n)'
  BY <1>1, <1>2, <1>3, <1>4, FetchedLater
<1>6. InChannel(c, n)'
  BY <1>1, <1>2, <1>5 DEF InChannel
<1>7. Owed(c)' = Owed(c) => Located(c)'
  BY <1>6 DEF Located
<1> QED
  BY <1>1, <1>4, <1>7, GpuMoves

LEMMA SafeSetup ==
  ASSUME TypeOK, Settled, NEW c \in Channels, Setup(c)
  PROVE  Settled'
<1>1. /\ methods[c] # <<>> /\ Head(methods[c]).op = "setup"
      /\ methods' = [methods EXCEPT ![c] = Tail(@)]
      /\ UNCHANGED <<get, running, sig, done, out, cmdq, kargs, ring, gpput, hostVars, jobs>>
  BY DEF Setup, At, Pop, memVars, hostVars
<1>2. PICK n \in Owed(c) :
        /\ InChannel(c, n) /\ jobs[n].kind # "launch" /\ sig = n - 1
        /\ Tail(methods[c]) = <<Method("release", n)>>
  BY <1>1, Working, MethodFields
<1>3. methods'[c] = <<Method("release", n)>> /\ \A d \in Channels : d # c => methods'[d] = methods[d]
  BY <1>1, <1>2 DEF TypeOK, GpuTypes
<1>4. methods'[c] \in Fetched(n)'
  BY <1>1, <1>2, <1>3, FetchedLater
<1>5. InChannel(c, n)'
  BY <1>1, <1>2, <1>4 DEF InChannel
<1>6. Owed(c)' = Owed(c) => Located(c)'
  BY <1>5 DEF Located
<1> QED
  BY <1>1, <1>3, <1>6, GpuMoves

LEMMA SafeLaunch ==
  ASSUME TypeOK, Settled, NEW c \in Channels, Launch(c)
  PROVE  Settled'
<1>1. /\ methods[c] # <<>> /\ Head(methods[c]).op = "launch"
      /\ methods' = [methods EXCEPT ![c] = Tail(@)]
      /\ running' = running \cup {Head(methods[c]).n}
      /\ UNCHANGED <<get, sig, done, out, cmdq, kargs, ring, gpput, hostVars, jobs>>
  BY DEF Launch, At, Pop, memVars, hostVars
<1>2. PICK n \in Owed(c) :
        /\ InChannel(c, n) /\ jobs[n].kind = "launch" /\ sig = n - 1
        /\ Head(methods[c]) = Method("launch", n) /\ Tail(methods[c]) = <<>>
  BY <1>1, Working, MethodFields
<1>3. c = "compute" /\ running = {} /\ get[c] = gpput[c]
  BY <1>2 DEF Owed, ChannelOf, InChannel
<1>4. running' = {n}
  BY <1>1, <1>2, <1>3, MethodFields
<1>5. methods'[c] = <<>> /\ \A d \in Channels : d # c => methods'[d] = methods[d]
  BY <1>1, <1>2 DEF TypeOK, GpuTypes
<1>6. Runs(c, n)'
  BY <1>1, <1>2, <1>3, <1>4, <1>5 DEF Runs
<1>7. Owed(c)' = Owed(c) => Located(c)'
  BY <1>6 DEF Located
<1> QED
  BY <1>1, <1>3, <1>5, <1>7, GpuMoves

LEMMA SafeRelease ==
  ASSUME TypeOK, Settled, NEW c \in Channels, Release(c)
  PROVE  Settled' /\ sig' = sig + 1
<1>1. /\ methods[c] # <<>> /\ Head(methods[c]).op = "release"
      /\ methods' = [methods EXCEPT ![c] = Tail(@)]
      /\ sig' = Head(methods[c]).n /\ done' = done \cup {sig'}
      /\ UNCHANGED <<get, running, out, cmdq, kargs, ring, gpput, hostVars>>
  BY DEF Release, At, Pop, memVars
<1>2. PICK n \in Owed(c) :
        /\ n \in 1 .. Job /\ InChannel(c, n) /\ jobs[n].kind # "launch" /\ sig = n - 1
        /\ Head(methods[c]) = Method("release", n) /\ Tail(methods[c]) = <<>>
  BY <1>1, Working, MethodFields
<1>3. sig' = n
  BY <1>1, <1>2, MethodFields
<1>4. methods'[c] = <<>> /\ \A d \in Channels : d # c => methods'[d] = methods[d]
  BY <1>1, <1>2 DEF TypeOK, GpuTypes
<1>5. Quiet(c)'
  BY <1>1, <1>2, <1>4 DEF InChannel, Quiet
<1>6. Settled'
  BY <1>1, <1>2, <1>3, <1>4, <1>5, GpuFinishes
<1> QED
  BY <1>2, <1>3, <1>6, Numbers

(* The kernel that ends is the job waited for: its slot still holds its    *)
(* own arguments.                                                          *)
LEMMA SafeKernelDone ==
  ASSUME TypeOK, Settled, NEW n \in running, KernelDone(n)
  PROVE  Settled' /\ sig' = sig + 1
<1>1. /\ running' = running \ {n} /\ out' = kargs[jobs[n].slot] /\ sig' = kargs[jobs[n].slot]
      /\ done' = done \cup {kargs[jobs[n].slot]}
      /\ UNCHANGED <<get, methods, cmdq, kargs, ring, gpput, hostVars>>
  BY DEF KernelDone, memVars
<1>2. "compute" \in Channels
  BY DEF Channels
<1>3. PICK m \in Owed("compute") : Runs("compute", m)
  BY <1>2 DEF Settled, Located, Quiet, InRing, InChannel
<1>4. n = m /\ running = {n} /\ jobs[n].kind = "launch" /\ sig = n - 1
  BY <1>3 DEF Runs
<1>5. n \in 1 .. Job /\ Job \in Nat /\ sig \in Nat
  BY Numbers
<1>6. n = Job
  BY <1>4, <1>5 DEF Settled, Counted
<1>7. kargs[jobs[n].slot] = n
  BY <1>4, <1>5, <1>6 DEF Settled, Computed
<1>8. Quiet("compute")'
  BY <1>1, <1>3, <1>4 DEF Runs, Quiet
<1>9. Settled'
  BY <1>1, <1>2, <1>3, <1>4, <1>7, <1>8, GpuFinishes
<1> QED
  BY <1>1, <1>4, <1>5, <1>7, <1>9

LEMMA SafeKernelFault ==
  ASSUME TypeOK, Settled, NEW n \in running, KernelFault(n)
  PROVE  Settled'
<1>1. UNCHANGED <<get, methods, running, sig, done, out, cmdq, kargs, ring, gpput, jobs, hostVars>>
  BY DEF KernelFault, memVars, hostVars
<1>2. "compute" \in Channels /\ Located("compute")
  BY DEF Channels, Settled
<1>3. Owed("compute")' = Owed("compute") => Located("compute")'
  <2>1. \A m \in Owed("compute"), a \in 0 .. CmdqSize - 1 : Placed(m, a) => Placed(m, a)'
    BY <1>1 DEF Placed
  <2> QED
    BY <1>1, <1>2, <2>1, LocatedFrame
<1> QED
  BY <1>1, <1>2, <1>3, GpuMoves

-----------------------------------------------------------------------------
(* The invariant of every behaviour that starts with a zeroed signal page. *)

LEMMA SafeStart == Init /\ sig = 0 => SafeInv
BY TypeInit, SafeInit DEF SafeInv

LEMMA SafeNext == SafeInv /\ [Next]_vars => SafeInv'
<1> SUFFICES ASSUME SafeInv, [Next]_vars PROVE SafeInv'
  OBVIOUS
<1>1. TypeOK /\ TypeOK'
  BY TypeNext DEF SafeInv
<1> SUFFICES ASSUME ~gaveUp' PROVE Settled'
  BY <1>1 DEF SafeInv
<1>2. \/ \E k \in Kinds : Begin(k)
      \/ WriteStream \/ WriteEntry \/ WriteGpput \/ RingDoorbell
      \/ Drain \/ Synchronize \/ WaitDone \/ WaitRaises \/ Copyout
      \/ \E c \in Channels : Fetch(c) \/ Acquire(c) \/ Setup(c) \/ Release(c) \/ Launch(c)
      \/ \E n \in running : KernelDone(n) \/ KernelFault(n)
      \/ UNCHANGED vars
  BY DEF Next, HostSubmit, HostWait, GpuStep, WaitTimeout
<1>3. ~gaveUp
  BY <1>2 DEF Begin, WriteStream, WriteEntry, WriteGpput, RingDoorbell, Drain, Synchronize,
     WaitDone, WaitRaises, Copyout, Fetch, Acquire, Setup, Release, Launch, KernelDone,
     KernelFault, hostVars, vars
<1>4. Settled
  BY <1>3 DEF SafeInv
<1>5. CASE \E k \in Kinds : Begin(k)
  BY <1>1, <1>4, <1>5, SafeBegin
<1>6. CASE WriteStream \/ WriteEntry \/ WriteGpput \/ RingDoorbell
  BY <1>1, <1>4, <1>6, SafeWriteStream, SafeWriteEntry, SafeWriteGpput, SafeRingDoorbell
<1>7. CASE Drain \/ Synchronize \/ WaitDone \/ WaitRaises \/ Copyout
  BY <1>1, <1>4, <1>7, SafeWait
<1>8. CASE \E c \in Channels : Fetch(c) \/ Acquire(c) \/ Setup(c) \/ Release(c) \/ Launch(c)
  BY <1>1, <1>4, <1>8, SafeFetch, SafeAcquire, SafeSetup, SafeRelease, SafeLaunch
<1>9. CASE \E n \in running : KernelDone(n) \/ KernelFault(n)
  BY <1>1, <1>4, <1>9, SafeKernelDone, SafeKernelFault
<1>10. CASE UNCHANGED vars
  <2>1. UNCHANGED <<hostVars, cmdq, kargs, ring, gpput, bell, get, methods, running, sig, done, out, jobs>>
    BY <1>10 DEF vars, hostVars, memVars, gpuVars
  <2>2. "compute" \in Channels /\ Located("compute")
    BY <1>4 DEF Channels, Settled
  <2>3. \A m \in Owed("compute"), a \in 0 .. CmdqSize - 1 : Placed(m, a) => Placed(m, a)'
    BY <2>1 DEF Placed
  <2>4. Owed("compute")' = Owed("compute") => Located("compute")'
    BY <1>1, <2>1, <2>2, <2>3, LocatedFrame
  <2> QED
    BY <1>1, <1>4, <2>1, <2>2, <2>4, GpuMoves
<1> QED
  BY <1>2, <1>5, <1>6, <1>7, <1>8, <1>9, <1>10

(* One job at most is owed on each channel, and it is in one place: for    *)
(* every size of the buffers, as long as no wait gave up.                  *)
THEOREM SafetyInvariant == Spec /\ sig = 0 => []SafeInv
BY SafeStart, SafeNext, PTL DEF Spec

-----------------------------------------------------------------------------
(* What follows from it.                                                   *)

(* What a channel has yet to fetch is one entry at most.                   *)
LEMMA PendingOne ==
  ASSUME TypeOK, NEW c \in Channels, NEW i \in Pending(c)
  PROVE  /\ get[c] # gpput[c]
         /\ gpput[c] = (get[c] + 1) % RingSize => i = get[c]
<1> SUFFICES ASSUME NEW g \in 0 .. RingSize - 1, NEW p \in 0 .. RingSize - 1,
                    i \in 0 .. RingSize - 1,
                    (i + RingSize - g) % RingSize < (p + RingSize - g) % RingSize
             PROVE  g # p /\ (p = (g + 1) % RingSize => i = g)
  <2>1. get[c] \in 0 .. RingSize - 1 /\ gpput[c] \in 0 .. RingSize - 1
    BY DEF TypeOK, MemTypes, GpuTypes
  <2> QED
    BY <2>1 DEF Pending
<1>1. RingSize \in Nat /\ RingSize > 1
  BY RingAssumption
<1>2. \A x \in 0 .. RingSize - 1 : x % RingSize = x /\ (x + RingSize) % RingSize = x
  <2> TAKE x \in 0 .. RingSize - 1
  <2>1. (RingSize * 0 + x) % RingSize = x /\ (RingSize * 1 + x) % RingSize = x
    BY <1>1, ModUnique
  <2> QED
    BY <1>1, <2>1
<1>3. ASSUME NEW x \in 0 .. RingSize - 1
      PROVE  /\ x >= g => (x + RingSize - g) % RingSize = x - g
             /\ x < g => (x + RingSize - g) % RingSize = x + RingSize - g
  <2>1. CASE x >= g
    <3>1. x - g \in 0 .. RingSize - 1 /\ x + RingSize - g = (x - g) + RingSize
      BY <1>1, <2>1
    <3> QED
      BY <1>2, <2>1, <3>1
  <2>2. CASE x < g
    <3>1. x + RingSize - g \in 0 .. RingSize - 1
      BY <1>1, <2>2
    <3> QED
      BY <1>2, <2>2, <3>1
  <2> QED
    BY <2>1, <2>2
<1>4. g # p
  BY <1>1, <1>3
<1>5. ASSUME p = (g + 1) % RingSize PROVE i = g
  <2>1. CASE g + 1 < RingSize
    <3>1. p = g + 1
      BY <1>1, <1>2, <1>5, <2>1
    <3> QED
      BY <1>1, <1>3, <3>1
  <2>2. CASE g + 1 = RingSize
    <3>1. p = 0
      BY <1>1, <1>2, <1>5, <2>2
    <3> QED
      BY <1>1, <1>3, <2>2, <3>1
  <2> QED
    BY <1>1, <2>1, <2>2
<1> QED
  BY <1>4, <1>5

LEMMA SafeIntact ==
  SafeInv => PendingStreamsIntact /\ KernargsIntact /\ ResultFresh
<1> SUFFICES ASSUME SafeInv, ~gaveUp
             PROVE  /\ \A c \in Channels : \A i \in Pending(c) : \E n \in 1 .. Job :
                         /\ n \notin done /\ ChannelOf(n) = c
                         /\ ring[c][i].len = JobLen[jobs[n].kind]
                         /\ \A w \in Segment(ring[c][i].addr, ring[c][i].len) : cmdq[w] = n
                    /\ KernargsIntact /\ ResultFresh
  BY DEF PendingStreamsIntact, KernargsIntact, ResultFresh
<1>1. TypeOK /\ Settled /\ Job \in Nat /\ sig \in Nat
  BY Numbers DEF SafeInv
<1>2. ASSUME NEW c \in Channels, NEW i \in Pending(c)
      PROVE  \E n \in 1 .. Job :
               /\ n \notin done /\ ChannelOf(n) = c
               /\ ring[c][i].len = JobLen[jobs[n].kind]
               /\ \A w \in Segment(ring[c][i].addr, ring[c][i].len) : cmdq[w] = n
  <2>1. get[c] # gpput[c]
    BY <1>1, PendingOne
  <2>2. PICK n \in Owed(c) : InRing(c, n)
    BY <1>1, <2>1 DEF Settled, Located, Quiet, InChannel, Runs
  <2>3. i = get[c]
    BY <1>1, <2>2, PendingOne DEF InRing
  <2>4. PICK a \in 0 .. CmdqSize - 1 : ring[c][i] = EntryOf(n, a) /\ Placed(n, a)
    BY <2>2, <2>3 DEF InRing
  <2>5. n \in 1 .. Job /\ n \notin done /\ ChannelOf(n) = c
    BY <1>1 DEF Owed, Settled, Counted
  <2> QED
    BY <2>4, <2>5 DEF EntryOf, Placed
<1>3. KernargsIntact
  BY <1>1 DEF KernargsIntact, Settled, Counted, Computed
<1>4. ResultFresh
  BY <1>1 DEF ResultFresh, Settled, Computed
<1> QED
  BY <1>2, <1>3, <1>4

(* However small the ring and the pushbuffer: an entry still to be fetched *)
(* points at the untouched stream of one job.                              *)
THEOREM StreamsKept == Spec /\ sig = 0 => []PendingStreamsIntact
BY SafetyInvariant, SafeIntact, PTL

(* However small the kernargs buffer: a launch that has not finished finds *)
(* its own arguments.                                                      *)
THEOREM KernargsKept == Spec /\ sig = 0 => []KernargsIntact
BY SafetyInvariant, SafeIntact, PTL

(* What the copy-out reads after a launch is what that launch wrote.       *)
THEOREM ResultsFresh == Spec /\ sig = 0 => []ResultFresh
BY SafetyInvariant, SafeIntact, PTL

-----------------------------------------------------------------------------
(* The timeline is the one of SerialJobs.                                  *)

LEMMA SerialStart == Init /\ sig = 0 => Serial!Init
BY DEF Init, Job, Serial!Init

LEMMA SerialStep ==
  SafeInv /\ ~gaveUp /\ [Next]_vars => [Serial!Next]_(Serial!vars)
<1> SUFFICES ASSUME SafeInv, ~gaveUp, [Next]_vars
             PROVE  [Serial!Next]_(Serial!vars)
  OBVIOUS
<1>1. /\ TypeOK /\ Settled /\ Job \in Nat /\ sig \in Nat
      /\ sig <= Job /\ seen \in 0 .. Job
  BY Numbers DEF SafeInv, Settled, Counted, TypeOK, HostTypes
<1>2. CASE \E k \in Kinds : Begin(k)
  <2>1. Job' = Job + 1 /\ UNCHANGED <<sig, seen>>
    BY <1>2 DEF Begin, Job, gpuVars, TypeOK, HostTypes
  <2> QED
    BY <2>1 DEF Serial!Next, Serial!Submit
<1>3. CASE WaitDone
  <2>1. Job' = Job /\ sig' = sig /\ seen' = Job /\ sig = Job
    BY <1>1, <1>3 DEF WaitDone, Job, gpuVars
  <2> QED
    BY <1>1, <2>1 DEF Serial!Next, Serial!Observe
<1>4. CASE \/ \E c \in Channels : Release(c)
           \/ \E n \in running : KernelDone(n)
  <2>1. Job' = Job /\ seen' = seen
    BY <1>4 DEF Release, KernelDone, Job, hostVars
  <2>2. Settled' /\ sig' = sig + 1
    BY <1>1, <1>4, SafeRelease, SafeKernelDone
  <2>3. sig < Job
    BY <1>1, <2>1, <2>2 DEF Settled, Counted
  <2> QED
    BY <2>1, <2>2, <2>3 DEF Serial!Next, Serial!Complete
<1>5. CASE \/ WriteStream \/ WriteEntry \/ WriteGpput \/ RingDoorbell
           \/ Drain \/ Synchronize \/ WaitTimeout \/ WaitRaises \/ Copyout
           \/ \E c \in Channels : Fetch(c) \/ Acquire(c) \/ Setup(c) \/ Launch(c)
           \/ \E n \in running : KernelFault(n)
           \/ UNCHANGED vars
  <2>1. UNCHANGED <<jobs, sig, seen>>
    BY <1>5 DEF WriteStream, WriteEntry, WriteGpput, RingDoorbell, Drain, Synchronize,
       WaitTimeout, WaitRaises, Copyout, Fetch, Acquire, Setup, Launch, KernelFault,
       hostVars, gpuVars, vars
  <2> QED
    BY <2>1 DEF Serial!vars, Job
<1> QED
  BY <1>2, <1>3, <1>4, <1>5 DEF Next, HostSubmit, HostWait, GpuStep

(* As long as no wait gives up, however small the buffers: jobs finish in  *)
(* the order they were submitted, on whichever channel, and the host       *)
(* believes one finished only when it has.                                 *)
THEOREM TimelineSerial == Spec /\ sig = 0 /\ []~gaveUp => ImplementsSerialJobs
BY SerialStart, SafetyInvariant, SerialStep, PTL DEF Spec, ImplementsSerialJobs, Serial!Spec
=============================================================================
