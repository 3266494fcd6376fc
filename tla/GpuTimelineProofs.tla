-------------------------- MODULE GpuTimelineProofs --------------------------
(***************************************************************************)
(* Theorems about GpuTimeline, for every size of the rings and buffers.    *)
(***************************************************************************)
EXTENDS GpuTimeline, SequenceTheorems, TLAPS

-----------------------------------------------------------------------------
(* BumpAllocator: an allocation that fits in the buffer at all is placed   *)
(* inside it, before or after the wrap.                                    *)
LEMMA RoundUpNat ==
  ASSUME NEW x \in Nat, NEW a \in Nat \ {0}
  PROVE  RoundUp(x, a) \in Nat
<1>1. x + a - 1 \in Nat
  OBVIOUS
<1>2. (x + a - 1) \div a \in Nat
  BY <1>1
<1> QED
  BY <1>2 DEF RoundUp

LEMMA BumpAllocFits ==
  ASSUME NEW ptr \in Nat, NEW n \in Nat, NEW a \in Nat \ {0}, NEW size \in Nat,
         n <= size
  PROVE  BumpAlloc(ptr, n, a, size) \in Nat /\ BumpAlloc(ptr, n, a, size) + n <= size
BY RoundUpNat DEF BumpAlloc

(* The stream of a job acquires an earlier value of the timeline and acts  *)
(* for that job alone.                                                     *)
LEMMA StreamType ==
  ASSUME Job \in Nat, NEW n \in 1 .. Job, jobs[n].kind \in Kinds
  PROVE  Stream(n) \in Seq(Methods(Job))
<1> DEFINE M == Methods(Job)
<1>1. /\ Method("acquire", n - 1) \in M
      /\ Method("setup", n) \in M
      /\ Method("release", n) \in M
      /\ Method("launch", n) \in M
  BY DEF Method, Methods
<1>2. /\ <<Method("setup", n), Method("release", n)>> \in Seq(M)
      /\ <<Method("acquire", n - 1), Method("launch", n)>> \in Seq(M)
      /\ <<Method("acquire", n - 1), Method("setup", n), Method("release", n)>> \in Seq(M)
  <2> HIDE DEF M
  <2> QED
    BY <1>1
<1>3. \/ Stream(n) = <<Method("setup", n), Method("release", n)>>
      \/ Stream(n) = <<Method("acquire", n - 1), Method("launch", n)>>
      \/ Stream(n) = <<Method("acquire", n - 1), Method("setup", n), Method("release", n)>>
  BY DEF Stream, Kinds
<1> QED
  BY <1>2, <1>3

LEMMA MethodsMonotonic ==
  ASSUME NEW i \in Nat, NEW j \in Nat, i <= j, NEW s \in Seq(Methods(i))
  PROVE  s \in Seq(Methods(j))
<1>1. Methods(i) \subseteq Methods(j)
  BY DEF Methods
<1> QED
  BY <1>1, SeqMonotonic

-----------------------------------------------------------------------------
(* Types.                                                                  *)

LEMMA CmdqNonempty == CmdqSize \in Nat \ {0}
<1>1. JobLen["slm"] \in Nat \ {0} /\ JobLen["slm"] <= CmdqSize
  BY JobLenAssumption DEF Kinds
<1> QED
  BY <1>1, CmdqAssumption

LEMMA TypeInit == Init => TypeOK
<1> SUFFICES ASSUME Init PROVE TypeOK
  OBVIOUS
<1>1. jobs = <<>> /\ Job = 0
  BY DEF Init, Job
<1>2. HostTypes
  <2>1. jobs \in Seq(JobRecords) /\ Job <= MaxJobs
    BY <1>1, RingAssumption
  <2>2. cmdPtr \in 0 .. CmdqSize /\ addr \in 0 .. CmdqSize - 1 /\ kargPtr \in 0 .. KargSlots
    BY CmdqNonempty, KargAssumption DEF Init
  <2>3. putValue \in [Channels -> Nat]
    BY DEF Init
  <2>4. seen \in 0 .. Job /\ result \in 0 .. Job
    BY <1>1 DEF Init
  <2> QED
    BY <2>1, <2>2, <2>3, <2>4 DEF Init, HostTypes, PCs
<1>3. MemTypes
  <2>1. cmdq \in [0 .. CmdqSize - 1 -> 0 .. Job] /\ kargs \in [0 .. KargSlots - 1 -> 0 .. Job]
    BY <1>1 DEF Init
  <2>2. [addr |-> 0, len |-> 0] \in Entries
    BY CmdqNonempty DEF Entries
  <2>3. ring \in [Channels -> [0 .. RingSize - 1 -> Entries]]
    BY <2>2 DEF Init
  <2>4. gpput \in [Channels -> 0 .. RingSize - 1]
    BY RingAssumption DEF Init
  <2>5. bell \in [Channels -> BOOLEAN]
    BY DEF Init
  <2> QED
    BY <2>1, <2>3, <2>4, <2>5 DEF MemTypes
<1>4. GpuTypes
  <2>1. get \in [Channels -> 0 .. RingSize - 1]
    BY RingAssumption DEF Init
  <2>2. methods \in [Channels -> Seq(Methods(Job))]
    BY DEF Init
  <2>3. /\ running \subseteq 1 .. Job /\ done \subseteq 0 .. Job
        /\ sig \in Nat /\ out \in 0 .. Job
    BY <1>1, SigAssumption DEF Init
  <2> QED
    BY <2>1, <2>2, <2>3 DEF Init, GpuTypes
<1> QED
  BY <1>2, <1>3, <1>4 DEF TypeOK

LEMMA JobType ==
  ASSUME HostTypes
  PROVE  /\ Job \in Nat
         /\ \A n \in 1 .. Job : /\ jobs[n].kind \in Kinds
                                /\ jobs[n].slot \in 0 .. KargSlots - 1
                                /\ ChannelOf(n) \in Channels
<1>1. Job \in Nat /\ jobs \in Seq(JobRecords)
  BY DEF HostTypes, Job
<1> SUFFICES ASSUME NEW n \in 1 .. Job
             PROVE  /\ jobs[n].kind \in Kinds
                    /\ jobs[n].slot \in 0 .. KargSlots - 1
                    /\ ChannelOf(n) \in Channels
  BY <1>1
<1>2. jobs[n] \in JobRecords
  BY <1>1, ElementOfSeq DEF Job
<1> QED
  BY <1>2 DEF ChannelOf, Channels, JobRecords

(* What a step may leave alone keeps its type.                             *)
LEMMA TypeFrame ==
  ASSUME TypeOK
  PROVE  /\ UNCHANGED hostVars => HostTypes'
         /\ UNCHANGED <<jobs, memVars>> => MemTypes'
         /\ UNCHANGED <<jobs, gpuVars>> => GpuTypes'
BY DEF TypeOK, HostTypes, MemTypes, GpuTypes, hostVars, memVars, gpuVars, Job

LEMMA TypeBegin ==
  ASSUME TypeOK, NEW k \in Kinds, Begin(k)
  PROVE  TypeOK'
<1> DEFINE slot == BumpAlloc(kargPtr, 1, 1, KargSlots)
           job  == [kind |-> k, slot |-> IF k = "launch" THEN slot ELSE 0]
<1>1. slot \in 0 .. KargSlots - 1 /\ slot + 1 \in 0 .. KargSlots
  <2>1. kargPtr \in Nat /\ KargSlots \in Nat /\ 1 <= KargSlots
    BY KargAssumption DEF TypeOK, HostTypes
  <2>2. slot \in Nat /\ slot + 1 <= KargSlots
    BY <2>1, BumpAllocFits
  <2> QED
    BY <2>1, <2>2
<1>2. /\ pc' = "stream" /\ Job < MaxJobs
      /\ jobs' = Append(jobs, job)
      /\ (kargs' = [kargs EXCEPT ![slot] = Job + 1] /\ kargPtr' = slot + 1)
           \/ UNCHANGED <<kargs, kargPtr>>
      /\ UNCHANGED <<cmdq, cmdPtr, addr, ring, putValue, gpput, bell, seen, result, gaveUp, gpuVars>>
  BY DEF Begin
<1>3. job \in JobRecords
  <2> HIDE DEF slot
  <2> QED
    BY <1>1, KargAssumption DEF JobRecords
<1> HIDE DEF slot, job
<1>4. jobs' \in Seq(JobRecords) /\ Job' = Job + 1 /\ Job \in Nat
  BY <1>2, <1>3, AppendProperties DEF TypeOK, HostTypes, Job
<1>5. HostTypes'
  BY <1>1, <1>2, <1>4, RingAssumption DEF TypeOK, HostTypes, PCs
<1>6. MemTypes'
  <2>1. cmdq' \in [0 .. CmdqSize - 1 -> 0 .. Job']
    BY <1>2, <1>4 DEF TypeOK, MemTypes
  <2>2. kargs' \in [0 .. KargSlots - 1 -> 0 .. Job']
    <3>1. kargs \in [0 .. KargSlots - 1 -> 0 .. Job']
      BY <1>4 DEF TypeOK, MemTypes
    <3> QED
      BY <1>1, <1>2, <1>4, <3>1
  <2> QED
    BY <1>2, <2>1, <2>2 DEF TypeOK, MemTypes
<1>7. GpuTypes'
  <2>1. methods' \in [Channels -> Seq(Methods(Job'))]
    <3> SUFFICES ASSUME NEW c \in Channels PROVE methods[c] \in Seq(Methods(Job'))
      BY <1>2 DEF gpuVars, TypeOK, GpuTypes
    <3>1. methods[c] \in Seq(Methods(Job))
      BY DEF TypeOK, GpuTypes
    <3> QED
      BY <1>4, <3>1, MethodsMonotonic
  <2>2. /\ running' \subseteq 1 .. Job' /\ done' \subseteq 0 .. Job'
        /\ sig' \in Nat /\ out' \in 0 .. Job'
    BY <1>2, <1>4 DEF gpuVars, TypeOK, GpuTypes
  <2> QED
    BY <1>2, <2>1, <2>2 DEF gpuVars, TypeOK, GpuTypes
<1> QED
  BY <1>5, <1>6, <1>7 DEF TypeOK

LEMMA TypeWriteStream ==
  ASSUME TypeOK, WriteStream
  PROVE  TypeOK'
<1> DEFINE len == JobLen[jobs[Job].kind]
           a   == BumpAlloc(cmdPtr, len, Align, CmdqSize)
<1>1. Job \in Nat /\ Job # 0 /\ jobs[Job].kind \in Kinds
  BY JobType DEF TypeOK, HostTypes, WriteStream
<1>2. len \in Nat \ {0} /\ len <= CmdqSize /\ CmdqSize \in Nat
  BY <1>1, JobLenAssumption, CmdqAssumption
<1>3. a \in Nat /\ a + len <= CmdqSize
  <2> HIDE DEF len
  <2>1. cmdPtr \in Nat
    BY CmdqAssumption DEF TypeOK, HostTypes
  <2> QED
    BY <1>2, <2>1, BumpAllocFits, CmdqAssumption
<1> HIDE DEF len, a
<1>4. a \in 0 .. CmdqSize - 1 /\ a + len \in 0 .. CmdqSize
  BY <1>2, <1>3
<1>5. /\ addr' = a /\ cmdPtr' = a + len /\ pc' = "entry"
      /\ cmdq' = [w \in DOMAIN cmdq |-> IF w \in Segment(a, len) THEN Job ELSE cmdq[w]]
      /\ UNCHANGED <<jobs, kargs, kargPtr, ring, putValue, gpput, bell, seen, result, gaveUp, gpuVars>>
  BY DEF WriteStream, len, a
<1>6. Job' = Job
  BY <1>5 DEF Job
<1>7. HostTypes'
  BY <1>1, <1>4, <1>5, <1>6 DEF TypeOK, HostTypes, PCs
<1>8. MemTypes'
  <2>1. cmdq' \in [0 .. CmdqSize - 1 -> 0 .. Job]
    BY <1>1, <1>5 DEF TypeOK, MemTypes
  <2> QED
    BY <1>5, <1>6, <2>1 DEF TypeOK, MemTypes
<1> QED
  BY <1>5, <1>7, <1>8, TypeFrame DEF TypeOK

LEMMA TypeWriteEntry ==
  ASSUME TypeOK, WriteEntry
  PROVE  TypeOK'
<1> DEFINE c == ChannelOf(Job)
           entry == [addr |-> addr, len |-> JobLen[jobs[Job].kind]]
<1>1. Job \in 1 .. Job /\ c \in Channels /\ jobs[Job].kind \in Kinds
  BY JobType DEF TypeOK, HostTypes, WriteEntry
<1>2. entry \in Entries
  <2>1. JobLen[jobs[Job].kind] \in 0 .. CmdqSize
    BY <1>1, JobLenAssumption, CmdqAssumption
  <2> QED
    BY <2>1 DEF TypeOK, HostTypes, Entries
<1>3. putValue[c] % RingSize \in 0 .. RingSize - 1
  <2>1. putValue[c] \in Nat
    BY <1>1 DEF TypeOK, HostTypes
  <2> QED
    BY <2>1, RingAssumption
<1>4. /\ ring' = [ring EXCEPT ![c][putValue[c] % RingSize] = entry] /\ pc' = "gpput"
      /\ UNCHANGED <<jobs, cmdq, cmdPtr, addr, kargs, kargPtr, putValue, gpput, bell,
                     seen, result, gaveUp, gpuVars>>
  BY DEF WriteEntry
<1> HIDE DEF c, entry
<1>5. HostTypes'
  BY <1>1, <1>4 DEF TypeOK, HostTypes, PCs, Job
<1>6. MemTypes'
  <2>1. ring' \in [Channels -> [0 .. RingSize - 1 -> Entries]]
    BY <1>1, <1>2, <1>3, <1>4 DEF TypeOK, MemTypes
  <2> QED
    BY <1>4, <2>1 DEF TypeOK, MemTypes, Job
<1> QED
  BY <1>4, <1>5, <1>6, TypeFrame DEF TypeOK

LEMMA TypeWriteGpput ==
  ASSUME TypeOK, WriteGpput
  PROVE  TypeOK'
<1> DEFINE c == ChannelOf(Job)
<1>1. Job \in 1 .. Job /\ c \in Channels
  BY JobType DEF TypeOK, HostTypes, WriteGpput
<1>2. (putValue[c] + 1) % RingSize \in 0 .. RingSize - 1
  <2>1. putValue[c] + 1 \in Nat
    BY <1>1 DEF TypeOK, HostTypes
  <2> QED
    BY <2>1, RingAssumption
<1>3. /\ gpput' = [gpput EXCEPT ![c] = (putValue[c] + 1) % RingSize] /\ pc' = "bell"
      /\ UNCHANGED <<jobs, cmdq, cmdPtr, addr, kargs, kargPtr, ring, putValue, bell,
                     seen, result, gaveUp, gpuVars>>
  BY DEF WriteGpput
<1> HIDE DEF c
<1>4. HostTypes'
  BY <1>1, <1>3 DEF TypeOK, HostTypes, PCs, Job
<1>5. MemTypes'
  <2>1. gpput' \in [Channels -> 0 .. RingSize - 1]
    BY <1>1, <1>2, <1>3 DEF TypeOK, MemTypes
  <2> QED
    BY <1>3, <2>1 DEF TypeOK, MemTypes, Job
<1> QED
  BY <1>3, <1>4, <1>5, TypeFrame DEF TypeOK

LEMMA TypeRingDoorbell ==
  ASSUME TypeOK, RingDoorbell
  PROVE  TypeOK'
<1> DEFINE c == ChannelOf(Job)
<1>1. Job \in 1 .. Job /\ c \in Channels
  BY JobType DEF TypeOK, HostTypes, RingDoorbell
<1>2. /\ bell' = [bell EXCEPT ![c] = TRUE]
      /\ putValue' = [putValue EXCEPT ![c] = @ + 1]
      /\ pc' \in PCs
      /\ UNCHANGED <<jobs, cmdq, cmdPtr, addr, kargs, kargPtr, ring, gpput,
                     seen, result, gaveUp, gpuVars>>
  BY DEF RingDoorbell, AfterSubmit, PCs
<1> HIDE DEF c
<1>3. HostTypes'
  <2>1. putValue' \in [Channels -> Nat]
    BY <1>1, <1>2 DEF TypeOK, HostTypes
  <2> QED
    BY <1>1, <1>2, <2>1 DEF TypeOK, HostTypes, Job
<1>4. MemTypes'
  <2>1. bell' \in [Channels -> BOOLEAN]
    BY <1>1, <1>2 DEF TypeOK, MemTypes
  <2> QED
    BY <1>2, <2>1 DEF TypeOK, MemTypes, Job
<1> QED
  BY <1>2, <1>3, <1>4, TypeFrame DEF TypeOK

LEMMA TypeHostWait ==
  ASSUME TypeOK, Drain \/ HostWait
  PROVE  TypeOK'
<1>1. UNCHANGED <<jobs, memVars, gpuVars>>
  BY DEF Drain, HostWait, Synchronize, WaitDone, WaitTimeout, WaitRaises, Copyout
<1>2. HostTypes'
  <2>1. Job \in Nat /\ Job' = Job
    BY <1>1, JobType DEF TypeOK, Job
  <2>2. UNCHANGED <<cmdPtr, addr, kargPtr, putValue>>
    BY DEF Drain, HostWait, Synchronize, WaitDone, WaitTimeout, WaitRaises, Copyout
  <2>3. pc' \in PCs /\ (pc' # "idle" => Job # 0)
    BY <2>1 DEF Drain, HostWait, Synchronize, WaitDone, WaitTimeout, WaitRaises, Copyout,
       AfterSubmit, AfterWait, PCs, TypeOK, HostTypes
  <2>4. gaveUp' \in BOOLEAN
    BY DEF Drain, HostWait, Synchronize, WaitDone, WaitTimeout, WaitRaises, Copyout,
       TypeOK, HostTypes
  <2>5. seen' \in 0 .. Job /\ result' \in 0 .. Job
    BY <2>1 DEF Drain, HostWait, Synchronize, WaitDone, WaitTimeout, WaitRaises, Copyout,
       TypeOK, HostTypes, GpuTypes
  <2> QED
    BY <1>1, <2>1, <2>2, <2>3, <2>4, <2>5 DEF TypeOK, HostTypes
<1> QED
  BY <1>1, <1>2, TypeFrame DEF TypeOK

LEMMA TypeFetch ==
  ASSUME TypeOK, NEW c \in Channels, Fetch(c)
  PROVE  TypeOK'
<1>1. Job \in Nat /\ Job' = Job /\ UNCHANGED hostVars
  BY JobType DEF Fetch, hostVars, TypeOK, Job
<1>2. get' \in [Channels -> 0 .. RingSize - 1]
  <2>1. get[c] + 1 \in Nat
    BY DEF TypeOK, GpuTypes
  <2>2. (get[c] + 1) % RingSize \in 0 .. RingSize - 1
    BY <2>1, RingAssumption
  <2> QED
    BY <2>2 DEF Fetch, TypeOK, GpuTypes
<1>3. bell' \in [Channels -> BOOLEAN]
  <2>1. bell' = [bell EXCEPT ![c] = get'[c] # gpput[c]]
    BY DEF Fetch
  <2> QED
    BY <2>1 DEF TypeOK, MemTypes
<1>4. methods' \in [Channels -> Seq(Methods(Job))]
  <2>1. CASE UNCHANGED methods
    BY <2>1 DEF TypeOK, GpuTypes
  <2>2. ASSUME NEW n \in 1 .. Job, methods' = [methods EXCEPT ![c] = @ \o Stream(n)]
        PROVE  methods' \in [Channels -> Seq(Methods(Job))]
    <3>1. Stream(n) \in Seq(Methods(Job)) /\ methods[c] \in Seq(Methods(Job))
      BY <1>1, StreamType, JobType DEF TypeOK, GpuTypes
    <3>2. methods[c] \o Stream(n) \in Seq(Methods(Job))
      BY <3>1, ConcatProperties
    <3> QED
      BY <2>2, <3>2 DEF TypeOK, GpuTypes
  <2> QED
    BY <2>1, <2>2 DEF Fetch
<1>5. MemTypes'
  BY <1>1, <1>3 DEF Fetch, TypeOK, MemTypes
<1>6. GpuTypes'
  <2>1. fault' \in BOOLEAN
    BY DEF Fetch, TypeOK, GpuTypes
  <2> QED
    BY <1>1, <1>2, <1>4, <2>1 DEF Fetch, TypeOK, GpuTypes
<1> QED
  BY <1>1, <1>5, <1>6, TypeFrame DEF TypeOK

LEMMA TypePop ==
  ASSUME TypeOK, NEW c \in Channels, NEW op, At(c, op), Pop(c)
  PROVE  /\ Head(methods[c]) \in Methods(Job) /\ Head(methods[c]).op = op
         /\ methods' \in [Channels -> Seq(Methods(Job))]
<1>1. methods[c] \in Seq(Methods(Job)) /\ methods[c] # <<>>
  BY DEF At, TypeOK, GpuTypes
<1>2. Head(methods[c]) \in Methods(Job) /\ Tail(methods[c]) \in Seq(Methods(Job))
  BY <1>1, HeadTailProperties
<1> QED
  BY <1>2 DEF At, Pop, TypeOK, GpuTypes

LEMMA TypeMethod ==
  ASSUME TypeOK, NEW c \in Channels, Acquire(c) \/ Setup(c) \/ Release(c) \/ Launch(c)
  PROVE  TypeOK'
<1>1. Job \in Nat /\ Job' = Job /\ UNCHANGED <<hostVars, memVars, jobs>>
  BY JobType DEF Acquire, Setup, Release, Launch, hostVars, TypeOK, Job
<1>2. methods' \in [Channels -> Seq(Methods(Job))]
  BY TypePop DEF Acquire, Setup, Release, Launch
<1>3. CASE Acquire(c) \/ Setup(c)
  <2>1. GpuTypes'
    BY <1>1, <1>2, <1>3 DEF Acquire, Setup, TypeOK, GpuTypes
  <2> QED
    BY <1>1, <2>1, TypeFrame DEF TypeOK
<1>4. CASE Release(c)
  <2>1. Head(methods[c]) \in Methods(Job)
    BY <1>4, TypePop DEF Release
  <2>2. Head(methods[c]).n \in 0 .. Job
    BY <1>1, <2>1 DEF Methods
  <2>3. sig' \in Nat /\ done' \subseteq 0 .. Job
    <3>1. sig' = Head(methods[c]).n /\ done' = done \cup {Head(methods[c]).n}
      BY <1>4 DEF Release
    <3>2. done \subseteq 0 .. Job
      BY DEF TypeOK, GpuTypes
    <3>3. sig' \in Nat
      BY <1>1, <2>2, <3>1
    <3>4. done' \subseteq 0 .. Job
      BY <2>2, <3>1, <3>2, Zenon
    <3> QED
      BY <3>3, <3>4
  <2>4. GpuTypes'
    BY <1>1, <1>2, <1>4, <2>3 DEF Release, TypeOK, GpuTypes
  <2> QED
    BY <1>1, <2>4, TypeFrame DEF TypeOK
<1>5. CASE Launch(c)
  <2>1. Head(methods[c]) \in Methods(Job) /\ Head(methods[c]).op = "launch"
    BY <1>5, TypePop DEF Launch
  <2>2. Head(methods[c]).n \in 1 .. Job
    BY <1>1, <2>1 DEF Methods
  <2>3. running' \subseteq 1 .. Job
    BY <1>5, <2>2 DEF Launch, TypeOK, GpuTypes
  <2>4. GpuTypes'
    BY <1>1, <1>2, <1>5, <2>3 DEF Launch, TypeOK, GpuTypes
  <2> QED
    BY <1>1, <2>4, TypeFrame DEF TypeOK
<1> QED
  BY <1>3, <1>4, <1>5

LEMMA TypeKernel ==
  ASSUME TypeOK, NEW n \in running, KernelDone(n) \/ KernelFault(n)
  PROVE  TypeOK'
<1>1. Job \in Nat /\ Job' = Job /\ UNCHANGED <<hostVars, memVars, jobs>>
  BY JobType DEF KernelDone, KernelFault, hostVars, TypeOK, Job
<1>2. kargs[jobs[n].slot] \in 0 .. Job
  BY <1>1, JobType DEF TypeOK, MemTypes, GpuTypes
<1>3. GpuTypes'
  <2>1. fault' \in BOOLEAN
    BY DEF KernelDone, KernelFault, TypeOK, GpuTypes
  <2>2. /\ running' \subseteq 1 .. Job /\ done' \subseteq 0 .. Job
        /\ sig' \in Nat /\ out' \in 0 .. Job
    <3>1. /\ running \subseteq 1 .. Job /\ done \subseteq 0 .. Job
          /\ sig \in Nat /\ out \in 0 .. Job
      BY DEF TypeOK, GpuTypes
    <3>2. CASE KernelDone(n)
      <4>1. /\ running' = running \ {n} /\ out' = kargs[jobs[n].slot]
            /\ sig' = kargs[jobs[n].slot] /\ done' = done \cup {kargs[jobs[n].slot]}
        BY <3>2 DEF KernelDone
      <4>2. sig' \in Nat /\ out' \in 0 .. Job
        BY <1>1, <1>2, <4>1
      <4>3. running' \subseteq 1 .. Job /\ done' \subseteq 0 .. Job
        BY <1>2, <3>1, <4>1, Zenon
      <4> QED
        BY <4>2, <4>3
    <3>3. CASE KernelFault(n)
      BY <3>1, <3>3 DEF KernelFault
    <3> QED
      BY <3>2, <3>3
  <2> QED
    BY <1>1, <2>1, <2>2 DEF KernelDone, KernelFault, TypeOK, GpuTypes
<1> QED
  BY <1>1, <1>3, TypeFrame DEF TypeOK

LEMMA TypeNext == TypeOK /\ [Next]_vars => TypeOK'
<1> SUFFICES ASSUME TypeOK, [Next]_vars PROVE TypeOK'
  OBVIOUS
<1>1. CASE HostSubmit
  BY <1>1, TypeBegin, TypeWriteStream, TypeWriteEntry, TypeWriteGpput, TypeRingDoorbell,
     TypeHostWait DEF HostSubmit
<1>2. CASE HostWait
  BY <1>2, TypeHostWait
<1>3. CASE GpuStep
  BY <1>3, TypeFetch, TypeMethod, TypeKernel DEF GpuStep
<1>4. CASE \E n \in running : KernelFault(n)
  BY <1>4, TypeKernel
<1>5. CASE UNCHANGED vars
  BY <1>5, TypeFrame DEF TypeOK, vars, hostVars
<1> QED
  BY <1>1, <1>2, <1>3, <1>4, <1>5 DEF Next

(* Every pointer stays inside its buffer, whatever their sizes and however *)
(* many times the host wraps around them.                                  *)
THEOREM TypeCorrect == Spec => []TypeOK
BY TypeInit, TypeNext, PTL DEF Spec
=============================================================================
