----------------------------- MODULE GpuTimeline -----------------------------
(***************************************************************************)
(* The timeline of examples/add.py: NVDevice submits jobs to a compute and *)
(* a copy channel, every job releases its own number into one semaphore    *)
(* word (the signal page), and the host learns from that word alone what   *)
(* the GPU has finished.                                                   *)
(*                                                                         *)
(* Job n is the n-th value next_timeline() handed out: job 1 binds the     *)
(* compute channel, job 2 the copy channel, every later job programs the   *)
(* shader local memory ("slm") or launches a kernel ("launch").            *)
(*                                                                         *)
(* A definition marked "Seeded fault" is used by no specification: it is a *)
(* defect that a property below is known to detect.                        *)
(***************************************************************************)
EXTENDS Naturals, Sequences

CONSTANTS
  MaxJobs,    \* bound on the jobs the host submits
  RingSize,   \* GPFIFO entries of one channel (0x10000 in the code)
  CmdqSize,   \* words of the pushbuffer page both channels share
  Align,      \* words the pushbuffer allocator aligns to
  JobLen,     \* words of the method stream of each kind of job
  KargSlots,  \* launches that fit in the kernargs buffer before it wraps
  SigInit,    \* what the signal page may hold when it is handed out
  IsRemote    \* TRUE on the socket transport, FALSE over USB

Channels == {"compute", "dma"}
Kinds    == {"bindc", "bindx", "slm", "launch"}

ASSUME RingAssumption == MaxJobs \in Nat /\ RingSize \in Nat /\ RingSize > 1
ASSUME CmdqAssumption == CmdqSize \in Nat /\ Align \in Nat \ {0}
ASSUME JobLenAssumption ==
  /\ JobLen \in [Kinds -> Nat \ {0}]
  /\ \A k \in Kinds : JobLen[k] <= CmdqSize
ASSUME KargAssumption == KargSlots \in Nat \ {0}
ASSUME SigAssumption == SigInit \subseteq Nat /\ IsRemote \in BOOLEAN

VARIABLES
  pc,        \* where the host is in the submit-and-wait sequence
  jobs,      \* job n is jobs[n], its kind and (a launch) its kernargs slot
  cmdq,      \* pushbuffer: which job's method stream each word belongs to
  cmdPtr,    \* BumpAllocator.ptr of the pushbuffer
  addr,      \* where the job being submitted was placed
  kargs,     \* kernargs buffer: which launch wrote each slot
  kargPtr,   \* BumpAllocator.ptr of the kernargs buffer, in slots
  ring,      \* GPFIFO entries of each channel
  putValue,  \* GPFifo.put_value
  gpput,     \* GPPUT word in the channel's USERD
  bell,      \* the doorbell was rung and the channel has not drained since
  get,       \* the channel's own read index
  methods,   \* fetched, not yet executed methods of each channel
  running,   \* the launches whose kernels have not finished
  sig,       \* the semaphore word in the signal page
  done,      \* jobs all of whose effects have happened
  out,       \* the launch that last wrote the output buffer
  seen,      \* the last target a wait returned True for
  result,    \* the value of out the last copyout read
  fault,     \* the compute channel faulted
  gaveUp     \* some wait ran into its timeout (its False is ignored)

hostVars == <<pc, jobs, cmdPtr, addr, kargPtr, putValue, seen, result, gaveUp>>
memVars  == <<cmdq, kargs, ring, gpput, bell>>
gpuVars  == <<get, methods, running, sig, done, out, fault>>
vars     == <<hostVars, memVars, gpuVars>>

-----------------------------------------------------------------------------
(* The job being submitted or waited for: timeline_value - 1.              *)
Job == Len(jobs)

ChannelOf(n) == IF jobs[n].kind = "bindx" THEN "dma" ELSE "compute"

RoundUp(x, a) == ((x + a - 1) \div a) * a

(* The two bind jobs are submitted one after the other, without a wait:    *)
(* the pushbuffer (2 MiB) has room for both streams.                       *)
ASSUME BindAssumption == RoundUp(JobLen["bindc"], Align) + JobLen["bindx"] <= CmdqSize

(* BumpAllocator.alloc with wrap=True: the offset of an allocation of n.   *)
BumpAlloc(ptr, n, a, size) ==
  IF RoundUp(ptr, a) + n > size THEN 0 ELSE RoundUp(ptr, a)

Segment(a, n) == a .. a + n - 1

(***************************************************************************)
(* The method stream of job n.  A launch carries no release of its own:    *)
(* the stream is cut after SEND_SIGNALING_PCAS2 and the QMD's release0     *)
(* signals when the kernel finishes.                                       *)
(***************************************************************************)
Method(op, n) == [op |-> op, n |-> n]

(* The methods the streams of the first j jobs are made of.                *)
Methods(j) == [op : {"acquire"}, n : 0 .. j] \cup [op : {"setup", "release", "launch"}, n : 1 .. j]

(* Seeded fault: the wait() in front of a submission is forgotten.         *)
StreamUnordered(n) ==
  CASE jobs[n].kind = "launch" -> <<Method("launch", n)>>
    [] OTHER                   -> <<Method("setup", n), Method("release", n)>>

(* Seeded fault: wait() evaluated after next_timeline().                   *)
StreamAwaitingItself(n) ==
  <<Method("acquire", n), Method("setup", n), Method("release", n)>>

Stream(n) ==
  CASE jobs[n].kind = "bindc" ->
         <<Method("setup", n), Method("release", n)>>
    [] jobs[n].kind = "launch" ->
         <<Method("acquire", n - 1), Method("launch", n)>>
    [] jobs[n].kind \in {"bindx", "slm"} ->
         <<Method("acquire", n - 1), Method("setup", n), Method("release", n)>>

Init ==
  /\ pc = "idle" /\ jobs = <<>>
  /\ cmdq = [w \in 0 .. CmdqSize - 1 |-> 0] /\ cmdPtr = 0 /\ addr = 0
  /\ kargs = [s \in 0 .. KargSlots - 1 |-> 0] /\ kargPtr = 0
  /\ ring = [c \in Channels |-> [i \in 0 .. RingSize - 1 |-> [addr |-> 0, len |-> 0]]]
  /\ putValue = [c \in Channels |-> 0]
  /\ gpput = [c \in Channels |-> 0]
  /\ bell = [c \in Channels |-> FALSE]
  /\ get = [c \in Channels |-> 0]
  /\ methods = [c \in Channels |-> <<>>]
  /\ running = {}
  /\ sig \in SigInit
  /\ done = {} /\ out = 0 /\ seen = 0 /\ result = 0
  /\ fault = FALSE /\ gaveUp = FALSE

-----------------------------------------------------------------------------
(* Host: _setup_gpfifos, then any sequence of _ensure_has_local_memory,    *)
(* manual_launch and synchronize.                                          *)

(* Which kind of job may come next.                                        *)
NextKinds ==
  CASE Job = 0 -> {"bindc"}
    [] Job = 1 -> {"bindx"}
    [] OTHER   -> {"slm", "launch"}

(* next_timeline() for a job, and for a launch the kernargs and QMD        *)
(* written into the next slot of the kernargs buffer.                      *)
Begin(k) ==
  LET slot == BumpAlloc(kargPtr, 1, 1, KargSlots) IN
  /\ pc = "idle" /\ Job < MaxJobs
  /\ k \in NextKinds
  /\ pc' = "stream"
  /\ jobs' = Append(jobs, [kind |-> k, slot |-> IF k = "launch" THEN slot ELSE 0])
  /\ IF k = "launch"
     THEN kargs' = [kargs EXCEPT ![slot] = Job + 1] /\ kargPtr' = slot + 1
     ELSE UNCHANGED <<kargs, kargPtr>>
  /\ UNCHANGED <<cmdq, cmdPtr, addr, ring, putValue, gpput, bell, seen, result, gaveUp, gpuVars>>

(* _submit_to_gpfifo, first store: the method stream into the pushbuffer.  *)
WriteStream ==
  LET len == JobLen[jobs[Job].kind]
      a   == BumpAlloc(cmdPtr, len, Align, CmdqSize) IN
  /\ pc = "stream"
  /\ pc' = "entry"
  /\ addr' = a /\ cmdPtr' = a + len
  /\ cmdq' = [w \in DOMAIN cmdq |-> IF w \in Segment(a, len) THEN Job ELSE cmdq[w]]
  /\ UNCHANGED <<jobs, kargs, kargPtr, ring, putValue, gpput, bell, seen, result, gaveUp, gpuVars>>

(* Second store: the GPFIFO entry.                                         *)
WriteEntry ==
  LET c == ChannelOf(Job) IN
  /\ pc = "entry"
  /\ pc' = "gpput"
  /\ ring' = [ring EXCEPT ![c][putValue[c] % RingSize] =
                [addr |-> addr, len |-> JobLen[jobs[Job].kind]]]
  /\ UNCHANGED <<jobs, cmdq, cmdPtr, addr, kargs, kargPtr, putValue, gpput, bell,
                 seen, result, gaveUp, gpuVars>>

(* Seeded fault: GPPUT counts on past the end of the ring.                 *)
WriteGpputUnwrapped ==
  LET c == ChannelOf(Job) IN
  /\ pc = "gpput"
  /\ pc' = "bell"
  /\ gpput' = [gpput EXCEPT ![c] = putValue[c] + 1]
  /\ UNCHANGED <<jobs, cmdq, cmdPtr, addr, kargs, kargPtr, ring, putValue, bell,
                 seen, result, gaveUp, gpuVars>>

(* Third store: GPPUT.                                                     *)
WriteGpput ==
  LET c == ChannelOf(Job) IN
  /\ pc = "gpput"
  /\ pc' = "bell"
  /\ gpput' = [gpput EXCEPT ![c] = (putValue[c] + 1) % RingSize]
  /\ UNCHANGED <<jobs, cmdq, cmdPtr, addr, kargs, kargPtr, ring, putValue, bell,
                 seen, result, gaveUp, gpuVars>>

(* Seeded fault: submissions are not waited for.                           *)
AfterSubmitAsync == "idle"

(* The doorbell.  On the socket transport every submission then drains     *)
(* stat_q once; the first bind job is followed by the second without a     *)
(* wait.                                                                   *)
AfterSubmit == IF Job = 1 THEN "idle" ELSE "wait"

RingDoorbell ==
  LET c == ChannelOf(Job) IN
  /\ pc = "bell"
  /\ pc' = IF IsRemote THEN "drain" ELSE AfterSubmit
  /\ bell' = [bell EXCEPT ![c] = TRUE]
  /\ putValue' = [putValue EXCEPT ![c] = @ + 1]
  /\ UNCHANGED <<jobs, cmdq, cmdPtr, addr, kargs, kargPtr, ring, gpput, seen, result, gaveUp, gpuVars>>

(* PCIIface.sleep: drain stat_q and raise if the fault event is in it; the *)
(* event of a fault may arrive any time later.                             *)
Drain ==
  /\ pc = "drain"
  /\ \/ pc' = AfterSubmit
     \/ fault /\ pc' = "raised"
  /\ UNCHANGED <<jobs, cmdPtr, addr, kargPtr, putValue, seen, result, gaveUp, memVars, gpuVars>>

(* synchronize() called without a new job (NVProgram.__init__).            *)
Synchronize ==
  /\ pc = "idle" /\ Job >= 2
  /\ pc' = "sync"
  /\ UNCHANGED <<jobs, cmdPtr, addr, kargPtr, putValue, seen, result, gaveUp, memVars, gpuVars>>

AfterWait == IF pc = "wait" /\ jobs[Job].kind = "launch" THEN "copyout" ELSE "idle"

(* Seeded fault: a wait is satisfied one job early.                        *)
WaitDoneEarly ==
  /\ pc \in {"wait", "sync"}
  /\ sig + 1 >= Job
  /\ pc' = AfterWait
  /\ seen' = Job
  /\ UNCHANGED <<jobs, cmdPtr, addr, kargPtr, putValue, result, gaveUp, memVars, gpuVars>>

(* synchronize() and wait_signal(): the semaphore word reached the target. *)
WaitDone ==
  /\ pc \in {"wait", "sync"}
  /\ sig >= Job
  /\ pc' = AfterWait
  /\ seen' = Job
  /\ UNCHANGED <<jobs, cmdPtr, addr, kargPtr, putValue, result, gaveUp, memVars, gpuVars>>

(* The timeout expired: False is returned and every caller goes on.        *)
WaitTimeout ==
  /\ pc \in {"wait", "sync"}
  /\ sig < Job
  /\ pc' = AfterWait
  /\ gaveUp' = TRUE
  /\ UNCHANGED <<jobs, cmdPtr, addr, kargPtr, putValue, seen, result, memVars, gpuVars>>

(* synchronize polls through iface.sleep on the socket transport, which    *)
(* raises on a fault; wait_signal (a launch) only reads the semaphore.     *)
WaitRaises ==
  /\ IsRemote /\ fault
  /\ pc = "sync" \/ (pc = "wait" /\ jobs[Job].kind # "launch")
  /\ sig < Job
  /\ pc' = "raised"
  /\ UNCHANGED <<jobs, cmdPtr, addr, kargPtr, putValue, seen, result, gaveUp, memVars, gpuVars>>

(* main: _copyout of the output buffer after manual_launch returned.       *)
Copyout ==
  /\ pc = "copyout"
  /\ pc' = "idle"
  /\ result' = out
  /\ UNCHANGED <<jobs, cmdPtr, addr, kargPtr, putValue, seen, gaveUp, memVars, gpuVars>>

-----------------------------------------------------------------------------
(* The GPU, modelled from how the host drives it.                          *)

(* A channel whose doorbell was rung fetches the entry at its read index   *)
(* and the words it points to.  Words of several jobs, or of none, are no  *)
(* method stream: the channel faults.                                      *)
Fetch(c) ==
  LET entry == ring[c][get[c]]
      words == Segment(entry.addr, entry.len)
  IN
  /\ ~fault /\ bell[c] /\ get[c] # gpput[c]
  /\ get' = [get EXCEPT ![c] = (@ + 1) % RingSize]
  /\ bell' = [bell EXCEPT ![c] = get'[c] # gpput[c]]
  /\ \/ \E n \in 1 .. Job :
          /\ words # {} /\ \A w \in words : cmdq[w] = n
          /\ entry.len = JobLen[jobs[n].kind]
          /\ methods' = [methods EXCEPT ![c] = @ \o Stream(n)]
          /\ UNCHANGED fault
     \/ /\ ~\E n \in 1 .. Job :
             /\ words # {} /\ \A w \in words : cmdq[w] = n
             /\ entry.len = JobLen[jobs[n].kind]
        /\ fault' = TRUE
        /\ UNCHANGED methods
  /\ UNCHANGED <<running, sig, done, out, cmdq, kargs, ring, gpput, hostVars>>

Pop(c) == methods' = [methods EXCEPT ![c] = Tail(@)]

At(c, op) == ~fault /\ methods[c] # <<>> /\ Head(methods[c]).op = op

(* SEM_EXECUTE acq_circ_geq: the channel waits for the timeline.           *)
Acquire(c) ==
  /\ At(c, "acquire")
  /\ sig >= Head(methods[c]).n
  /\ Pop(c)
  /\ UNCHANGED <<get, running, sig, done, out, fault, memVars, hostVars>>

(* SET_OBJECT, memory windows, shader local memory.                        *)
Setup(c) ==
  /\ At(c, "setup")
  /\ Pop(c)
  /\ UNCHANGED <<get, running, sig, done, out, fault, memVars, hostVars>>

(* SEM_EXECUTE release with release_wfi=en on the compute channel, the     *)
(* copy engine's semaphore release on the other.                           *)
Release(c) ==
  /\ At(c, "release")
  /\ c = "compute" => running = {}
  /\ sig' = Head(methods[c]).n
  /\ done' = done \cup {sig'}
  /\ Pop(c)
  /\ UNCHANGED <<get, running, out, fault, memVars, hostVars>>

(* SEND_PCAS_A / SEND_SIGNALING_PCAS2: the kernel starts and the channel   *)
(* goes on.                                                                *)
Launch(c) ==
  /\ At(c, "launch")
  /\ running' = running \cup {Head(methods[c]).n}
  /\ Pop(c)
  /\ UNCHANGED <<get, sig, done, out, fault, memVars, hostVars>>

(* A kernel ends: it wrote the output its kernargs slot describes, then    *)
(* the QMD in that slot releases its own job number.                       *)
KernelDone(n) ==
  LET args == kargs[jobs[n].slot] IN
  /\ ~fault /\ n \in running
  /\ running' = running \ {n}
  /\ out' = args
  /\ sig' = args
  /\ done' = done \cup {args}
  /\ UNCHANGED <<get, methods, fault, memVars, hostVars>>

(* A kernel faults (MMU_FAULT_QUEUED / OS_ERROR_LOG): no release follows.  *)
KernelFault(n) ==
  /\ ~fault /\ n \in running
  /\ fault' = TRUE
  /\ UNCHANGED <<get, methods, running, sig, done, out, memVars, hostVars>>

-----------------------------------------------------------------------------
HostSubmit ==
  \/ \E k \in Kinds : Begin(k)
  \/ WriteStream \/ WriteEntry \/ WriteGpput \/ RingDoorbell \/ Drain
HostWait ==
  Synchronize \/ WaitDone \/ WaitTimeout \/ WaitRaises \/ Copyout
GpuStep ==
  \/ \E c \in Channels : Fetch(c) \/ Acquire(c) \/ Setup(c) \/ Release(c) \/ Launch(c)
  \/ \E n \in running : KernelDone(n)
Next == HostSubmit \/ HostWait \/ GpuStep \/ \E n \in running : KernelFault(n)

Spec == Init /\ [][Next]_vars

(***************************************************************************)
(* The host runs its straight-line code; each GPU engine makes progress on *)
(* work it can do.  New jobs, timeouts and faults are never owed.          *)
(***************************************************************************)
Fairness ==
  /\ WF_vars(WriteStream) /\ WF_vars(WriteEntry) /\ WF_vars(WriteGpput)
  /\ WF_vars(RingDoorbell) /\ WF_vars(Drain) /\ WF_vars(Begin("bindx"))
  /\ \A c \in Channels :
       WF_vars(Fetch(c) \/ Acquire(c) \/ Setup(c) \/ Release(c) \/ Launch(c))
  /\ WF_vars(\E n \in running : KernelDone(n))

FairSpec == Spec /\ Fairness

-----------------------------------------------------------------------------
PCs == {"idle", "stream", "entry", "gpput", "bell", "drain", "wait", "sync",
        "copyout", "raised"}

JobRecords == [kind : Kinds, slot : 0 .. KargSlots - 1]
Entries    == [addr : 0 .. CmdqSize - 1, len : 0 .. CmdqSize]

HostTypes ==
  /\ pc \in PCs /\ (pc # "idle" => Job # 0)
  /\ jobs \in Seq(JobRecords) /\ Job <= MaxJobs
  /\ cmdPtr \in 0 .. CmdqSize /\ addr \in 0 .. CmdqSize - 1
  /\ kargPtr \in 0 .. KargSlots
  /\ putValue \in [Channels -> Nat]
  /\ seen \in 0 .. Job /\ result \in 0 .. Job /\ gaveUp \in BOOLEAN

MemTypes ==
  /\ cmdq \in [0 .. CmdqSize - 1 -> 0 .. Job]
  /\ kargs \in [0 .. KargSlots - 1 -> 0 .. Job]
  /\ ring \in [Channels -> [0 .. RingSize - 1 -> Entries]]
  /\ gpput \in [Channels -> 0 .. RingSize - 1]
  /\ bell \in [Channels -> BOOLEAN]

GpuTypes ==
  /\ get \in [Channels -> 0 .. RingSize - 1]
  /\ methods \in [Channels -> Seq(Methods(Job))]
  /\ running \subseteq 1 .. Job /\ done \subseteq 0 .. Job
  /\ sig \in Nat /\ out \in 0 .. Job /\ fault \in BOOLEAN

(* Types: every pointer stays inside the buffer it points into, although   *)
(* put_value and the bump pointers only ever grow or wrap.                 *)
TypeOK == HostTypes /\ MemTypes /\ GpuTypes

(* The entries a channel has yet to fetch.                                 *)
Pending(c) == {i \in 0 .. RingSize - 1 :
                 (i + RingSize - get[c]) % RingSize < (gpput[c] + RingSize - get[c]) % RingSize}

(* The pushbuffer page and the GPFIFO wrap around with no look at what the *)
(* channel has consumed.  As long as every wait was satisfied, an entry    *)
(* still to be fetched points at the untouched stream of one job.          *)
PendingStreamsIntact ==
  ~gaveUp => \A c \in Channels : \A i \in Pending(c) :
    \E n \in 1 .. Job :
      /\ n \notin done /\ ChannelOf(n) = c
      /\ ring[c][i].len = JobLen[jobs[n].kind]
      /\ \A w \in Segment(ring[c][i].addr, ring[c][i].len) : cmdq[w] = n

(* The kernargs buffer wraps around too: the QMD and the arguments of a    *)
(* launch that has not finished are its own, if every wait was satisfied.  *)
KernargsIntact ==
  ~gaveUp => \A n \in 1 .. Job :
    jobs[n].kind = "launch" /\ n \notin done => kargs[jobs[n].slot] = n

(* main copies the output out after manual_launch: if every wait was       *)
(* satisfied, what it reads is what this launch wrote.                     *)
ResultFresh ==
  ~gaveUp /\ pc \in {"idle", "sync"} /\ Job > 0 =>
    (jobs[Job].kind = "launch" => result = Job)

(* The jobs as the user of NVDevice sees them: SerialJobs, the semaphore   *)
(* word being the number of finished jobs.  The timeline never goes back,  *)
(* never skips a job and never runs ahead of what was submitted.           *)
Serial == INSTANCE SerialJobs
            WITH submitted <- Job, completed <- sig, observed <- seen
ImplementsSerialJobs == Serial!Spec

(* Every submitted job finishes, on whichever channel, unless a kernel     *)
(* faults: the acquires never wait for each other and no doorbell is lost. *)
EveryJobFinishes ==
  \A n \in 1 .. MaxJobs : (Job >= n) ~> (n \in done \/ fault \/ pc = "raised")

-----------------------------------------------------------------------------
(* What the code says and does not keep: the README tells with which       *)
(* constants TLC finds each of the two false.                              *)

(* The comment where the signal page is allocated says its first release   *)
(* is what the first wait waits for: a wait for target n is satisfied by   *)
(* the release of job n, and never by what the page held before.           *)
FirstReleaseIsAwaited == seen > 0 => done # {}

(* manual_launch reports "EXECUTION complete" with the timeline at its     *)
(* done value once wait_signal returned: the launch has then finished.     *)
LaunchCompleteReported == pc = "copyout" => Job \in done
==============================================================================
