# A verification project for nvgpu

`src/examples/add.py` is a complete user-space driver: it takes an Ampere GPU behind a USB bridge or a socket server
through a reset if it must, boots GSP-RM on it, allocates channels through GSP-RM's message queues, and runs one
kernel.  There is one host thread; the concurrency is between that thread, GSP-RM, the boot falcons and the GPU's
engines, over memory all of them see, and between processes that start the program at the same time or after one
another.  `src/examples_kepler/add_660ti.py` does the same on a Kepler GPU, without a firmware that owns the chip: it
runs the VBIOS's init scripts itself, reprograms the memory controller through the PMU, and launches in windows, each on
a device of its own.  This directory holds TLA+ models of both, the TLC runs that check them and TLAPS proofs about
them.

Contents: [the system](#the-system), [modules](#modules-and-code), [runs](#the-runs), [fairness](#fairness),
[proofs](#what-is-proved), [findings](#where-the-code-and-its-words-disagree), [observations](#observations),
[left out](#what-is-not-modelled), [plan](#plan).

## The system

| component | state it keeps | operations | talks to |
|---|---|---|---|
| user-mode device, channels, timeline | timeline value, pushbuffer and kernargs pointers, GPFIFO put values; in shared memory the GPFIFO, GPPUT, the semaphore word | set up channels, submit a job, synchronize, launch, copy out | the GPU (stores and a doorbell), the fault drain of the message queues |
| message queues and RM calls | ring pointers, sequence number, error state | send a request in records, read messages, wait for a reply, drain, unload | GSP-RM (two rings and a doorbell), the CPU sequencer (a callback inside a read) |
| TLSF allocator | blocks, free lists | alloc, free with merging | none: virtual addresses, VRAM and table pages come from three instances of it |
| page tables, memory manager | tables in VRAM; the GPU's TLB | valloc, vfree, map, unmap, invalidate | three allocators, the GPU's MMU |
| device life cycle | what survives a run: WPR2, GSP-RM, SEC2, PCI configuration; a lock file | lock, open, recover, boot, unload, close | everything above |
| falcon boot, CPU sequencer | registers of the falcons | reset, DMA, start, wait halted | GPU registers |
| USB transport | SRAM mirror, argument pages, primed F0 address | config and memory requests, SRAM upload, boot stream | the bridge firmware |
| socket transport | none | one request, one reply | the socket server |
| RM objects, golden image | handles | a fixed sequence of RM calls | message queues |
| programs, QMD, cubin | buffers | encoding | device memory |
| VBIOS init interpreter (`nvbios_init.py`) | offset, execute flags, nesting, saved repeat, caches | one handler per opcode; select, run and restore the memory scripts | GPU registers, ports, I2C |
| PMU MEMX path (`nvbios_init.py`, `add_660ti.py`) | buffered writes, shadow registers, fail-closed flags | start, buffer, flush, stop a script; send, retry, reload | the PMU firmware (data segment, two rings) |
| Kepler run and socket client | pass, window, open device, unread answers | open, fill, ring, poll, inspect, read back, close, repeat | the card, over a socket whose reads time out |
| EN210 and native PCIe examples | as above on an older chip, or over the kernel's driver | | |
| falcon oracle, x86 option ROM | an emulator's registers and memory | decode and execute | |

What makes each correct, and what is hard about it:

- *Timeline.*  Jobs finish in the order they were submitted, on whichever channel; a wait returns True only when the
  job finished; wrapping buffers never overwrite what was not consumed; every job finishes.  Hard: host and GPU
  interleave at every store; waits time out and are ignored; a fault comes at any time.
- *Message queues.*  GSP-RM finds whole records in order; the driver reads every message once and in order; a call
  returns its own reply; no sequencer script runs twice; nothing blocks for ever unless GSP-RM hung.  Hard: events in
  between, lengths at page boundaries, handlers that raise, rings in aliased memory, a header left from last time.
- *Device memory.*  Allocations are disjoint, free space is coalesced, an address translates to what was mapped and to
  nothing after an unmap, as the tables say and as the TLB remembers.  Hard: any order of frees; a walk whose stack
  moves as tables fill up and empty; the GPU walks the same tables between any two writes.
- *Life cycle.*  Whatever happened before, the next start finds or makes a GPU without WPR2, or says so; one process
  at a time.  Hard: exceptions and kills at every stage, a booter that outlives the process that started it.
- *VBIOS scripts.*  The flat interpreter does what the block structure of a script means, also where an access fails.
  Hard: conditions, repeats, calls and jumps in each other; flags that a handler forces for a while; cached reads.
- *PMU MEMX.*  The controller sees a program's stores whole, once and in order.  Hard: a store is decided by reads of
  what has not been written yet; scripts are cut, announced, answered late, retried, and the firmware may die paused.
- *Kepler run.*  An accepted result is this window's own.  Hard: the same memory and inputs on the second pass, answers
  after their timeout, traps latched after the semaphore was read.

`PROJECT.json` lists every component, the hazards at their lines with the properties that cover them, and for each
definition the lines it stands for.  Line numbers below are of `src/examples/add.py` unless a file is named.

## Modules and code

In every module one action is one operation, handler or step of the code, with its guards from the code's conditions;
what the driver does not implement (GSP-RM, the booter, the GPU's engines, the kernel) is modelled from how the driver
uses it and marked external in the map.  Definitions marked "Seeded fault" belong to no specification: each is a
plausible defect that one of the properties detects.  An `MC` module gives the constants of its component small values.

### GpuTimeline (implements SerialJobs)

The host is a program counter over `next_timeline`, `_submit_to_gpfifo` and `synchronize`; the GPU is two channels
that fetch entries, execute methods and run kernels.

| model | code |
|---|---|
| `jobs`, `Job` | `timeline_value - 1` and what was submitted (4004) |
| `cmdq`, `cmdPtr`, `BumpAlloc` | the pushbuffer and its `BumpAllocator` (1196, 3483) |
| `ring`, `putValue`, `gpput`, `bell` | GPFIFO, `GPFifo.put_value`, GPPUT, doorbell (3486 to 3491) |
| `kargs`, `kargPtr` | the kernargs buffer, QMD included (4337) |
| `sig` | the semaphore word in the signal page (3910) |
| `Begin`, `WriteStream`, `WriteEntry`, `WriteGpput`, `RingDoorbell` | one submission: each store to memory the GPU sees is a step |
| `Drain`, `WaitRaises` | `PCIIface.sleep`: drains the status queue, raises on a fault (3797) |
| `WaitDone`, `WaitTimeout` | `synchronize`, `wait_signal` (3729): False on a timeout, which no caller looks at |
| `Copyout` | `main` reads the output (4481) |
| `Fetch` to `KernelFault` | the GPU: external |

`SerialJobs` is the promise: jobs are numbered in order, finish one at a time in that order, and the host believes one
finished only when it has.  The refinement maps the semaphore word to the number of finished jobs.

### GspRpc (implements SerialJobs)

`send_rpc` cuts a request into records (2554); each record is stored (`StoreRecord`), published by moving `writePtr`
(`PublishRecord`) and followed by the `Doorbell` (2534 to 2539).  `Read` is one turn of `read_resp` (2559): take the
message, run its handler, move the read pointer, in this order, so that `HandlerRaises` leaves the pointer where it was.
`StartDrain` is `iface.sleep`; `Timeout` is `wait_resp` giving up (2623); `Raise` says where an exception leads (before
`main`'s try nothing catches it, inside it the unload request follows).  `phase` is how far the program has come.
GSP-RM is external: it boots, reads records, replies in order, posts events, or hangs. Lengths are in units so that
records of several pages, replies at a page boundary and the two headers keep their role while contents are abstracted.
`StatPage` says which memory page backs each slot: host memory has one for each, the USB bridge has two for four slots.

### Tlsf (implements Regions)

`heap.blocks` are `self.blocks` (start to size, link back, free), `heap.lists` the free lists by class.  `Alloc` is
`alloc` with its search over classes, the split in front of an aligned start and behind the request; `Free` starts
`_merge_block`, whose loops run one turn per step (`MergeLeft`, `MergeRight`).  Which block of a list comes first is
left open, so what holds does not depend on the order in which a list grew.  `Regions` is the promise: what is handed
out lies in the pool and overlaps nothing in use.

### PageTables

One step is one turn of a loop of the walk, so the GPU's own walk (`Translate`) may fall between any two writes. `op`
holds the call that runs and its walk: `stack` of tables and indices as in `PageTableTraverseContext` (1280 to 1323).
`Valloc` takes a virtual range, `PallocRange` collects physical ranges from large to small (`op.todo` is `rem_size`
meanwhile) with `PallocFails` on exhaustion (which loses the virtual range, as 1387 does), `StartCheck` and `Check` are the assertion pass of
`map_range`, `Map` fills entries, `LevelDown` and `LevelUp` move the stack, allocate tables and give empty ones back;
`Vfree` and `Unmap` undo it. `Reserve` and `Descend` create the upper tables that GSP-RM is given a copy of at boot
(3099).  The allocators are taken as runs of free pages that return the first aligned fit, which is what the Tlsf
theorems justify.

`stale` is the GPU's TLB at its worst: every page an `Unmap` clears stays translatable until the invalidation, which
the code does only where a mapping ends (1395), `FinishMap`.  A range may be handed out and mapped again in between.

The constants are what the code's are in general: at least three levels of any sizes, a last size of one page among
those that `valloc` tries, and a virtual pool that ends before the last entry of the root (`PoolAssumption`; the code's
pool has 2^44 bytes, an entry of its root covers at least 2^47), so that a walk never leaves the root table.

### Lifecycle

Each process has a stage (`pc`), the GPU keeps what outlives a process, marked with the process that put it there or
`Gone`.

| model | code |
|---|---|
| `lock`, `Lock` | `flock_acquire` (1633), before the USB transport is opened; over the socket the connection is made before it, but nothing is sent |
| `open`, `Open`, `SetupBars` | `USBPCIDevice.__init__` (1932), `pci_setup_usb_bars` (1586) |
| `Probe`, `Quiet`, `Reset`, `Chip` | `_early_ip_init` (2397): look at WPR2, socket reset, bus mastering, chip id |
| `FlrQuiet` to `Recheck` | `function_level_reset` (1959) and `_recover_stale_wpr` (2353) |
| `InitSw`, `StageBoot`, `Fwsec`, `StartBooter`, `Stream`, `BooterHalted` | `init_sw`, `NV_FLCN.init_hw` (2756), `stream_gsp_boot` (2000) |
| `Construct`, `LeaveMain` | what GspRpc and GpuTimeline model in detail |
| `Fini`, `Unload`, `UnloadHalted` | `fini` (2362), `shutdown_booter` (2785) |
| `Close`, `Exit` | `close` at exit (2028): the transport, then the lock |
| `Raise`, `Handler` | an exception at any stage: only `main`'s try has a finally clause (4464) |
| `Kill`, `Ends`, `LoadEnds`, `UnloadEnds`, `Cleared` | the kernel and the hardware: external |

What it takes from the hardware: WPR2 stays as it is set until a reset or `booter_unload`; the socket server's PCI
reset clears it, the function-level reset may fail to (a fault); FWSEC and the wait for it are one step; the 270 ms
after the start of the booter outlast its reading of the image; the kernel drops lock and transport of a process that
is killed.

### NvbiosInit and NvbiosMeaning

`NvbiosInit` is `examples_kepler/runtime/nvbios_init.py` up to the GDDR5 code: `run_script` is a frame of `frames`, an
opcode's handler an operator that passes the machine `m` (flags, caches, device, log) through its accesses, `offset`,
`repeat` and `repend` are the fields of the same names, and the actions `Repeat` to `ReturnPast` are how handlers and
returns move the offset.  `BeginInit`, `BeginRam`, `Start` and `Finish` are `run_vbios_init` and `run_vbios_ram_init`.
Registers have `Width` bits with the real operations on them.  The access numbered `failAt` raises, which ends
everything.

`NvbiosMeaning` has programs as trees (instruction, conditional block, repeat, call, jump), `Compile` to the flat
image, and `Run`, the effect of a tree by recursion over its structure, without offsets, flags or saved state.
`Formed` says which trees are meant, and is an assumption on the constant, checked at the start of a run.
`FollowsScripts` compares the log of what was done to the device with that of the tree: the same when the interpreter
is done, a first part of it when an access failed.  It is claimed of every ROM but two kinds, which the property itself
names and of which it is false (see the observations): one with a script that first looks at the straps where
instructions are skipped (`blind`), and one with a null pointer between its memory scripts (`NullsLast`).  The cases of
the run have ROMs of both kinds, on boards where that matters and on boards where it does not.
Both share the operators of straight-line handlers: what is compared is control, and the flags in every handler.

### PmuMemx

`bus` is `_MemxBus` (buffered pairs, commands of an atomic script, shadow registers, `can`, `req`), `prog` the calls
`run_vbios_ram_program` makes in order, `exec` the `pmu_memx_exec` and `pmu_send` under way.

| model | code (`runtime/nvbios_init.py` if not said) |
|---|---|
| `Access`, `Flush`, `Pause`, `HostPause`, `Block` | mask, read32, write32, delay and wait of the bus or of the host alone, `ram_block` and `ram_unblock` |
| `Start`, `CannotStart`, `Stop` | `start_memx_buffer` with its probe and preflight, the stop that runs an atomic script |
| `Fill`, `Push`, `Reply`, `TimesOut` | the data segment, the command ring, the wait (`add_660ti.py` 4390 to 4440) |
| `Failed`, `Reload`, `Pramin` | what each caller does with an exception: pass it on, fall back, reload the firmware and repeat |
| `Take`, `Execute`, `Answer`, `Wedge` | the firmware: external, scripts as `misc/falcon_oracle/memx_script.py` reads them |

`Settings` are the `KEPLER_RAM_` variables a run may have.  The repetition without the pause wait sets the block mode
and the atomic script itself (`Accepted`, `add_660ti.py` 3066 to 3073); an atomic pause outside an atomic script raises
(`nvbios_init.py` 2346).

### KeplerSession

| model | code (`add_660ti.py`) |
|---|---|
| `plan`, `pass`, `window` | the stage asked for, the warm repetition (16670 on), the windows of an input (15140 on) |
| `open`, `Open`, `OpenFails`, `NextWindow`, `Unwind` | the device's constructor and `fini`, and the finally clauses around them |
| `Stage` | preemption of the previous owner, cleared traps, semaphore seed, sentinel in the output |
| `Ring`, `Poll`, `Inspect`, `GiveUp` | `submit_launch` (11226) and its poll loop, with FE_PWR refreshed in it |
| `late`, `lost`, `Answer`, `Unread`, `Swallow` | the socket client (1009): a read that timed out leaves its answer for the next |
| `ReadOutput` | the comparison of the output |
| `Fetch`, `Launch`, `Store`, `Release` | the card: external; it may reject a launch, store late, or hang |

### How the modules fit together

`Lifecycle` abstracts a whole run to its stages; `GspRpc` refines the stages from `init_sw` to `fini` on the message
queues, `GpuTimeline` the part inside `main` on the channels.  Both implement the same `SerialJobs`, one with RM calls
as jobs and one with submissions.  A fault event read by `GspRpc`'s drain is `Drain` and `WaitRaises` of
`GpuTimeline`.  `PageTables` stands on what `Tlsf` promises through `Regions`.  On Kepler, `NvbiosInit` runs the ROM's
scripts, `PmuMemx` the memory program between them, and `KeplerSession` everything after the card is up.

## The runs

| run | bounds | what it shows |
|---|---|---|
| `timeline_stall` | 5 jobs, rings larger than the jobs, waits may give up at any time | refinement of `SerialJobs`, `EveryJobFinishes` |
| `timeline_wrap` | 6 jobs, GPFIFO of 2, pushbuffer of 5 words, 2 kernargs slots, socket (faults raise) | `TypeOK`; as long as no wait gave up nothing unread is overwritten and the result is the launch's own |
| `rpc_calls` | 4 requests besides boot, 3 events, rings of 5 and 4, own pages | records, order of reads, own replies, sequencer once, refinement, every call ends unless GSP-RM hung |
| `rpc_stride` | 2 requests, 2 events, one kind of event of four units | violated, see below |
| `tlsf_pool` | pool of 13, blocks of at least 2, two classes per power of two, four lengths, two alignments | tiling, links, lists, search, merging, refinement of `Regions` |
| `pt_maps` | four levels of 2, 4, 2, 2 entries, 16 virtual and 10 physical pages, four tables besides the root, requests of 2, 3, 4 pages | both walks agree at every write; nothing freed is reachable; no mapping is translated as an earlier one was |
| `pt_orphan` | the same with 9 physical pages | violated: a table is lost |
| `lifecycle` | two processes, three faults, USB and socket | no run boots over remains, runs go on to end cleanly |
| `nvbios` | 4-bit registers; each instruction alone and in both branches of a block; each pair of conditions; repeats, blocks, calls and jumps in each other; loops of jumps; several scripts; memory scripts with training; any of the first 5 accesses (memory: 30) may fail | `FollowsScripts`, `ScriptsEnd` |
| `memx_session` | eleven settings, programs of some ten operations on three registers, a firmware that dies or is late | stores in program order, the framebuffer running at the end, no script overwritten, every session ends |
| `kepler_session` | one window or three of two launches, 3 polls, 4 doorbells, 2 late answers at a time | one device, no rejected launch passes, own results only, every run ends |
| `kepler_late` | one or two windows, 2 polls | violated: a late answer is taken for the semaphore |

Why the bounds are enough: every ring wraps several times and is full at least once; a request is cut into two
records; TLSF meets splits on both sides, merges on both sides and classes that are searched past; walks go through
pages of each size, emptied tables and failed allocations; in the life cycle three faults allow a failure of a run, of
its recovery and of the next run, while another process waits; VBIOS programs nest each construct in each other as far as `Formed` lets them; a MEMX
program fills the buffer more than once, and every place an answer is awaited is met by a dead and, where the program
then ends, by a late firmware; a Kepler run has three windows and two passes, so that a window follows one that was
repeated.  Jobs, calls, events, faults, failing accesses and late answers are bounded by `MaxJobs`, `MaxCalls`,
`MaxEvents`, `MaxFaults`, `fails` and `MaxLate`; polls and doorbells by the code's own limits, made small.  In
`pt_maps` and `pt_orphan` the table pages are symmetric, which is sound because no definition tells them apart and no
liveness is checked there.

`CHECK_DEADLOCK FALSE` stands where the system really stops: a program that ended or raised (GspRpc), a raised fault on
the socket (GpuTimeline), a failed call (PageTables).  The three Kepler modules have a step that does nothing at the end
of a run instead.

## Fairness

Only progress that the code or the hardware owes is assumed.  `GpuTimeline`: the host's straight-line stores and the
two channels and the kernels that can go on; never a new job (but the second bind job, which follows the first in
straight-line code), a timeout or a fault.  `GspRpc`: the sender and the polling reader, and GSP-RM's work; `GspHangs`
is always possible and `CallsEnd` allows for it.  `Lifecycle`: each process runs its straight-line code and starts
again, a booter ends; never a fault.  `Recovers` therefore says that once nothing fails any more, runs end cleanly.
`NvbiosInit`: the interpreter goes on until it has ended (`GoesOn`, weak fairness of `Act` written out, since `Act` is
enabled exactly until then).  `PmuMemx`: the host, whose deadlines make it go on alone, and a firmware that is not
wedged; wedging is never owed.  `KeplerSession`: the host only; the card may hang, so `RunEnds` rests on the code's
limits alone.

## What is proved

All proofs are for every value of the constants that the named assumptions allow.  Where a theorem needs more than the
module assumes, that is a hypothesis with a name in its statement.  Each hypothesis holds of the constants of the run
that checks the property.

*GpuTimelineProofs* and *GpuTimelineSafety* (the module's assumptions on sizes; `BindAssumption`: the pushbuffer holds
both bind jobs, which are submitted without a wait between them).  `TypeCorrect`: every pointer stays in its buffer
however often it wraps.  The second module proves `StreamsKept`, `KernargsKept`, `ResultsFresh` and the refinement of
`SerialJobs` (`TimelineSerial`), for a signal page that starts at zero and until a wait gives up.  A dirty page
satisfies the first waits (see the observations), and after a wait that gave up each of the three properties of
`timeline_wrap` can fail.  None of the properties is inductive.  `SafeInv` says that the finished jobs are `1 .. sig`,
that one job is owed at most (or the two bind jobs), and that the job a channel owes is in exactly one place: its stream
is written, its entry is in the ring, its methods are fetched, or its kernel runs, in each case with its words where
that place points.  A wrapped buffer is then rewritten only when nothing is owed.  `timeline_stall` checks the
refinement also with waits that give up, in rings larger than the jobs; there is no proof for that.

*GspRpcProofs*, receiving (`StatusRing`, for rings and messages of every size): `ReadsKept`, `SequencerKept`,
`TypeCorrect`.  `StatusRing` is what the code relies on without a check, and what fails without each part is known:
`PagesApart` (`ReadsInOrder` fails with `AliasedPages`), `StridesExact` (`rpc_stride`), `HeaderClear` (`HeaderIsFresh`
fails with `LeftHeader`).  `RecvInv` says that the messages posted and not read lie whole, one behind the other, from
the read pointer to the write pointer; that the scripts that ran are those among the messages read; and that none is
posted behind INIT_DONE.

*GspRpcProofs*, sending (also `CommandsFit`: a request fits the command ring, and so do the two that are sent before
GSP-RM runs; the ring has 63 pages): `CommandsKept`, `RepliesKept`, and the refinement of `SerialJobs` (`CallsSerial`).
The sender never looks at GSP-RM's read pointer, so nothing but the protocol keeps it from overwriting.  `CallInv` adds
to `RecvInv` that past the boot one request is under way at a time (`OneByOne`), that its reply is read before the next
is sent (`Settled`), which is why a reply without a number is the right one, and that the records GSP-RM has not read
lie whole behind one another and belong to requests in order (`Unserved`).  The refinement holds whatever times out,
raises or hangs.

*TlsfProofs* (`PoolAssumption`, `RequestAssumption`, and `WidthAssumption`: the widths of classes, powers of two, are
positive, a fact of arithmetic the provers have no theory for).  `Invariance` establishes the inductive invariant:
blocks have shape, tile the pool, are linked right except for the one block behind a merge that is going on, lists match
the blocks, and each live region is a taken block of its own.  None of these is inductive alone: a merge keeps tiling
only if the link it follows is right, links stay right only under tiling.  The helper lemmas say what `Insert`, `Split`
and `Merge` do to the blocks and to the lists; each action is then a few of them.  `Implements` is the step simulation
of `Regions`; `TilingKept`, `LinksKept`, `ListsKept`, `RegionsKept` and `TypeCorrect` follow. `CoalescedKept` needs
`PairInv` besides: two free neighbours lie in the run of free blocks that begins at the block being merged, which
`_merge_right` swallows to its end, or are that block and its left neighbour.  `SearchKept` says that the two loops over
the classes offer exactly the free blocks that are large enough.  Its hypothesis `Doubling` is the defining equation of
the powers of two; that the class of a size is unique and grows with the size follows by a least counterexample.

*LifecycleProofs* (`ProcAssumption`): for any number of processes and failures `OneClient`, `BootsClean`, `RunsReady`,
`UnloadAfterStop`, `CleanEnd` and `TypeOK`.  The strengthening gives for each stage what the GPU holds; the two facts it
rests on are that WPR2 is set before anything runs under it and goes no earlier than that (`WprFirst`: the one register
a start looks at tells of everything left over), and that the lock leaves every process but one where it touches
nothing.

*PmuMemxProofs*, for every program and every size of chunks, rings and segment: `SegmentKept` and `OwnReplies` under
`DeadlinesEnd`, `InProgramOrderHolds` and `DoneUnpausedHolds` under `PausesApart` besides. Host and firmware take turns
at the data segment (`TurnInv`): the one command that is awaited is in the ring, with the firmware, or answered, and
between two commands nothing is under way, unless the firmware is dead. `DeadlinesEnd` says that a firmware may miss a
deadline and live only in a setting where the program then ends; elsewhere `ReplyIsOurs` is false, see the observations.
`PausesApart` leaves out `KEPLER_RAM_BLOCK=enter` together with an atomic script, where `InProgramOrder` is false, see
there too.

`InProgramOrder` rests on `OrderInv`.  The straight run is a function on the operations of the program (`Run`), each of
which adds one event to its log or none (`Course`); a program has the shape of `run_vbios_ram_program` (`Shape`).  The
parts of `OrderInv`:

- the controller, log and registers, is at a point of the straight run (`Conforms`);
- what the firmware still has to execute, found by its place in the script, are the next events of that run up to the
  operation the host waits in (`Machine`), because the segment holds the script (`Filling`);
- in a command the script covers the events from the log to the end of the operation (`Busy`); between two commands the
  queued commands and then the pending pairs do, up to the operation at hand (`Idle`), and every shadowed register is
  what the straight run reads there (`ShadowedAt`), so that a masked write is decided alike;
- a bus that is off has nothing queued, and it is off behind a stop (`Buffers`);
- a LEAVE that the host could not send leaves the program with a dead firmware and a store to flush, which ends it
  (`Lost`): the one place where the host is ahead of a straight run it will never finish.

`DoneUnpaused` rests on `PauseInv`: the last pause of the log says whether the framebuffer is paused; the preflight
pauses it without an event, before any pause of the program, and lets go before it is answered, so a program that asks
for no pause finds it paused only while the preflight is under way.  A complete log ends its pauses with a LEAVE.

*KeplerSessionProofs*, for any number of windows, launches, polls and late answers.  `OneDevice`: `OneClient` is not
inductive, since it does not say which device is open; `OpenIsNow` says it is this window's, and that none is open where
the next one is about to be.  `NoFaultMasked` and `ResultsOwn` rest on `SessionInv`: no answer is left unread unless one
was lost, the value read last is the semaphore's where the code takes it for that, and every chunk of the output is the
sentinel or was stored by this window.

*PageTablesProofs*, for every geometry of the tables, every pool and every list of sizes: `MappingsExact`,
`OwnedReached`, `FreedIsUnmapped`, `WalkNeverRaises`, `MappingsFresh` and `TypesKept` follow from one inductive invariant
(`PageTablesInvariant`), none of them from itself.  `Inv` has these parts, each needed by the next:

- the tables are a tree (`Tree`): each table in it but the root is named by one entry and holds a run of virtual pages
  by which it is numbered, so the GPU's walk to a page and the code's walk to it meet in the same entry;
- ranges of a pool are apart (`PoolOK`), and each is held by one mapping or by the call that runs (`HeldOK`, `MapsOK`);
- a page the GPU finds is the one behind it in the range it was mapped for (`Exact`, `Complete`), and an entry that is a
  page lies in one virtual range as a whole (`Leaves`), so that `unmap_range` never clears half of one;
- the call that runs has come as far as it says (`OpOK`): what is behind it is mapped, or unmapped, what is before it is
  not yet, and its physical range and offset are those of the page it is at;
- its stack leads from the root to that page (`Walking`);
- a table that no walk is busy with has a page below it, or one of a range that a failed call lost (`Anchored`): this is
  why `map_range` meets no table where it puts a large page, which would be lost;
- no stale page is in a mapping (`Fresh`).

The tables that `pt_orphan` loses stay allocated, so the tree is a part of `tab`, named by the invariant's `T`.

`GivenTablesKept` proves `GivenKept` under a hypothesis, `RingNear`: the first mapping, the ring of the golden image's
channel that nobody frees, lies under the same tables as the range they were reserved for (v is its first page,
`GivesFor`).  The code's allocator makes it so, since it hands out the first fit and the ring follows the reservation
at once (3099 to 3107); the model lets it hand out any place.  The hypothesis is needed: with the ring under another
entry of the root, the first small mapping that is freed below a table given empties it, and `_try_free_pt` gives it
back.  It holds in every state of `pt_maps`, whose virtual pool lies under one entry of the root.

The types of `Tlsf`, `Lifecycle`, `GspRpc` and `PageTables`, and `RegionsKept`, are proved and have no run of their own.

Only model-checked: liveness and everything with fairness, and `FollowsScripts`.  `NvbiosInit` computes with bits and
`NvbiosMeaning` by recursion over trees: both are out of the provers' reach.

## Where the code and its words disagree

- `rpc_stride` (2569): the read pointer leaves the element header out, the writer counts it (2529).
- `pt_orphan` (1361): unmapping clears a row of entries as if all were pages; a table among them is lost.
- `kepler_late` (`add_660ti.py` 11214): the read that keeps the front end powered swallows its timeout; the answer
  comes later, the next read is the semaphore's, and FE_PWR normally reads 2, which is the value awaited.  The run with
  the sentinel catches it by the output; the one with the semaphore alone reports success.

## Observations

Properties that fail under other constants than the runs', kept so that each can be repeated:

- The signal page is not zeroed (3910), and over the socket starts with a bus address: with `SigInit <- DirtyPage`,
  `FirstReleaseIsAwaited` fails, and the first waits are satisfied by what the page held.
- The result of `wait_signal` is dropped (4373): `LaunchCompleteReported` fails, a launch that timed out is followed by
  "EXECUTION complete".  The copy-out that follows compares the result, so the program does not pass wrongly.
- Four status slots on two pages of the bridge (1876): with `StatPage <- AliasedPages`, `ReadsInOrder` fails when
  GSP-RM keeps three messages unread.
- A queue header left in the bridge's memory (2511): with `StaleHeaders <- LeftHeader`, `HeaderIsFresh` fails.
- `pmu_send` takes the first reply of the right process and message (`add_660ti.py` 4432), though its docstring speaks
  of a synchronous command: with `Settings <- MCLateSettings`, `ReplyIsOurs` fails for a PMU that missed a deadline where
  the program goes on.
- `ram_unblock` swallows a failed LEAVE and leaves the framebuffer paused (`nvbios_init.py` 2407).  That the program
  does not report success then rests on the store right behind it (3037): its flush meets the dead firmware.  With
  programs that store nothing after it (`Tails` and `Prog0s` of empty sequences), `DoneUnpaused` fails.
- "Flush any buffered WR32s before ENTER so pause applies first" (`nvbios_init.py` 2375): in an atomic program that
  flush only queues them, and ENTER and LEAVE run at once, before the script they are to enclose.  With
  `Settings <- MCEnterSettings`, `InProgramOrder` fails.

- The straps are looked at where an instruction is skipped: `_op_ram_restrict_zm_reg_group` and `_op_ram_restrict_pll`
  ask for the index whatever the flag (`nvbios_init.py` 1323, 1336), `_reg_rd32` answers 0 while instructions are
  skipped (338), and `_ramcfg_index` keeps the group of that answer (655 to 688).  The next one that is executed in the
  same script, or the training after it (1076), takes the words of a board whose straps are 0.  Without
  `\/ meant.blind`, `FollowsScripts` fails for such a block on `Board1`; with `KEPLER_RAMCFG_STRAP` set (`Board2`) no
  strap is read and it holds.
- `rammap_scripts` drops the null pointers of its table (707), and `run_vbios_ram_init` numbers what is left (2017): a
  null before other scripts moves each of them to a lower selector, and another one is taken for the selected script.
  Without `NullsLast`, `FollowsScripts` fails for the table `<<1, 0, 3>>`.
- `_op_zm_mask_add` does not cut its sum to 32 bits (1278): a transport that packs the value raises where another one
  wraps.  `FollowsScripts` takes that as one of the reasons to raise.

And from reading, without a model:

- "No automatic probe/retry was made" (`add_660ti.py` 16685) is printed also when the warm pass was made and failed in
  its initialisation; `hardware_demo=ok` (15747) is printed for each window, before the run is over.
- Later windows and the warm pass set `KEPLER_ALLOW_DIRTY` themselves (15154, 16677); the comment at 2679 leaves that
  to the operator.
- EN210's `_recvall` (`examples_en210/add.py` 2019) does not tell a closed socket from no progress and goes on.

## What is not modelled

- Encodings: method words, QMD, cubin, RM parameters, PTE attribute bits.
- The identity map (`GMMU=0`) and the CPU-visible pool (a second pool the caller picks).
- Aligned starts are aligned to the offset in the pool, not to the address (1263), and the model's pools begin at 0.
  The base of the code's virtual pool (2^36, 2315) is a multiple of what is asked of it.  That of the physical pool
  (1334) is a multiple of 1 MB only, so its ranges of 512 MB (2457) need not lie at multiples of their size; the walk
  then maps them with smaller entries (1313), as the model does for ranges that are not aligned (`TooLarge`).  No
  property rests on where a range lies.
- `execute_dma` and the register writes of the falcon start: their effects are in hardware.  `run_cpu_seq` counts only
  as having run.
- The walk past the last entry of the root table: addresses stay inside the virtual pool.
- Of the USB transport: request formats, enumeration, retries of a config access (1767; the retried access is the same
  and harmless to repeat), the page layout of the SRAM mirror, and the pace of the boot stream (2008), which only the
  hardware decides.
- The socket transport of `add.py`: one blocking request at a time, no state.
- Of `nvbios_init.py`: parsing of the ROM's tables, the bits of an I2C transfer, `stop_before`.  Programs have no repeat
  of zero turns, no end or jump out of a repeat's body and no block within a block: the flat interpreter would do
  something, but a tree has no meaning for it to be compared with, and ROMs have none.
- Of the PMU path: word-by-word filling of the data segment, the values of the GDDR5 calculation, the block modes `bit0`
  and `direct` (host stores after the session), and a start under a firmware that was not patched, which raises at once.
- Of the Kepler run: the register-level bring-up of GK104 with its tables, the golden context, submissions of several
  GPFIFO entries, the keep-alive thread around the context switch (its one store repeats a value), diagnostics;
  `add_770.py`, a sibling of the same flow; the run over a directly attached card.
- The EN210 and native PCIe examples: one straight line of register writes or ioctls, one launch, one wait.
- The falcon oracle and the x86 option ROM emulator: they decode and execute instructions one by one; an instruction
  set has no invariant of its own short of repeating it.
- `src/autogen` (some 40000 lines) and tables of register values elsewhere (initialisation lists, contexts) are data.
  They are most of the repository's lines, so the lines the map names are a small share of it.

## Plan

Done: GpuTimeline, SerialJobs, GspRpc, Tlsf, Regions, PageTables with its TLB, Lifecycle, NvbiosInit with its meaning,
PmuMemx, KeplerSession; proofs of the safety of GpuTimeline, GspRpc, Tlsf, PageTables, Lifecycle and KeplerSession, with the
refinements of SerialJobs and Regions, and of PmuMemx.

Next, in this order:

1. *UsbTransport*: the write-through mirror of the queues in SRAM (1874 to 1928) composed with GspRpc's rings.
2. *CpuSequencer*: `run_cpu_seq` as an interpreter over falcon states, its effect on Lifecycle's SEC2 and GSP.

A run or a module that a deeper one subsumes goes when that one arrives.
