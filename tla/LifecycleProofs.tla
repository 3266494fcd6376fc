---------------------------- MODULE LifecycleProofs ----------------------------
(***************************************************************************)
(* For any number of processes and any number of exceptions, kills and     *)
(* hardware failures, the safety properties of Lifecycle are invariants of *)
(* its specification.                                                      *)
(*                                                                         *)
(* None of them is inductive.  The strengthening says of every stage of a  *)
(* run what the GPU holds at that stage; it rests on two facts that no     *)
(* line of the code states.  WPR2 is set before anything runs under it and *)
(* goes last or together with it (WprFirst), so the one register a run     *)
(* reads at its start tells of a booter or a GSP-RM an earlier run left.   *)
(* And the lock leaves all but one process where it touches nothing.       *)
(***************************************************************************)
EXTENDS Lifecycle, TLAPS

WprFirst == gsp # Off \/ sec2 # Idle => wpr # NoOne

Loading(p)   == sec2 = [run |-> "load", by |-> p]
Unloading(p) == sec2 = [run |-> "unload", by |-> p]
Up(p)        == gsp = [st |-> "up", by |-> p]
Queued(p)    == mem = [holds |-> "queues", by |-> p]
Staged(p)    == mem = [holds |-> "image", by |-> p]

(* Who set WPR2 up, at each stage of a run.                                *)
WprAt(p) ==
  /\ pc[p] = "chip" /\ ~(stale[p] /\ usb) => wpr = NoOne
  /\ pc[p] \in {"sw", "hw", "fwsec"} => wpr = NoOne
  /\ pc[p] \in {"booter", "stream", "halt", "construct", "main", "fini", "unload"} => wpr = p

(* What SEC2 and GSP-RM do.                                                *)
EnginesAt(p) ==
  /\ pc[p] \in {"booter", "construct", "main", "fini", "unload"} => sec2 = Idle
  /\ pc[p] \in {"stream", "halt"} => Loading(p) \/ (sec2 = Idle /\ (mailbox => Up(p)))
  /\ pc[p] \in {"construct", "main"} => Up(p)
  /\ pc[p] = "unload" => gsp.st # "up"
  /\ pc[p] = "unhalt" => Unloading(p) \/ (sec2 = Idle /\ (mailbox => wpr = NoOne))

(* What the memory of the queues holds.                                    *)
MemAt(p) ==
  /\ pc[p] \in {"hw", "halt", "construct", "main"} => Queued(p)
  /\ pc[p] \in {"fwsec", "booter", "stream"} => IF usb THEN Staged(p) ELSE Queued(p)

(* Whether the GPU is reached and reaches memory.                          *)
PciAt(p) ==
  /\ pc[p] \in {"flr", "flrgo"} => usb
  /\ pc[p] \in {"probe", "quiet", "reset", "chip", "flrcmd"} => bars
  /\ pc[p] \in {"flr", "recheck", "sw", "hw", "fwsec", "booter", "stream", "halt", "construct", "main"}
       => bars /\ master
  /\ pc[p] \in {"construct", "main", "fini", "unload", "unhalt"} => link = 3

StageOK(p) == WprAt(p) /\ EnginesAt(p) /\ MemAt(p) /\ PciAt(p)

OpenHeld == \A p \in open : pc[p] # "out"
Socket   == ~usb => bars /\ link = 3

Cleaned ==
  lastEnd = "clean" =>
    /\ \A p \in Procs : pc[p] \in {"out", "close", "unlock"}
    /\ sec2 = Idle /\ gsp.st # "up"
    /\ usb => wpr = NoOne /\ link = 3

(* The inductive invariant.                                                *)
IInv ==
  /\ TypeOK /\ OpenHeld /\ Socket /\ WprFirst /\ UnloadAfterStop /\ Cleaned
  /\ \A p \in Procs : StageOK(p)

-----------------------------------------------------------------------------
(* Before the boot: nothing in the GPU changes hands but by a PCI reset.   *)
LEMMA StartKeeps ==
  ASSUME IInv, NEW p \in Procs, Start(p)
  PROVE  IInv'
<1> USE ProcAssumption DEF Go, Places, Off, Idle, vars, procVars, pciVars, gpuVars
<1>1. \A q \in Procs \ {p} : pc[p] # "out" => pc[q] = "out"
  BY DEF IInv, TypeOK
<1>2. CASE Lock(p)
  <2> USE <1>2 DEF Lock
  <2>1. TypeOK' /\ OpenHeld' /\ Socket'
    BY DEF IInv, TypeOK, OpenHeld, Socket, StageOK, PciAt
  <2>2. WprFirst' /\ UnloadAfterStop' /\ Cleaned'
    BY <1>1 DEF IInv, TypeOK, Socket, WprFirst, UnloadAfterStop, Cleaned, StageOK, WprAt, EnginesAt, PciAt,
              Loading, Unloading, Up
  <2>3. ASSUME NEW q \in Procs PROVE StageOK(q)'
    BY <1>1 DEF IInv, TypeOK, Socket, WprFirst, StageOK, WprAt, EnginesAt, MemAt, PciAt,
              Loading, Unloading, Up, Queued, Staged
  <2> QED
    BY <2>1, <2>2, <2>3 DEF IInv
<1>3. CASE Open(p)
  <2> USE <1>3 DEF Open
  <2>1. TypeOK' /\ OpenHeld' /\ Socket'
    BY DEF IInv, TypeOK, OpenHeld, Socket, StageOK, PciAt
  <2>2. WprFirst' /\ UnloadAfterStop' /\ Cleaned'
    BY <1>1 DEF IInv, TypeOK, Socket, WprFirst, UnloadAfterStop, Cleaned, StageOK, WprAt, EnginesAt, PciAt,
              Loading, Unloading, Up
  <2>3. ASSUME NEW q \in Procs PROVE StageOK(q)'
    BY <1>1 DEF IInv, TypeOK, Socket, WprFirst, StageOK, WprAt, EnginesAt, MemAt, PciAt,
              Loading, Unloading, Up, Queued, Staged
  <2> QED
    BY <2>1, <2>2, <2>3 DEF IInv
<1>4. CASE SetupBars(p)
  <2> USE <1>4 DEF SetupBars
  <2>1. TypeOK' /\ OpenHeld' /\ Socket'
    BY DEF IInv, TypeOK, OpenHeld, Socket, StageOK, PciAt
  <2>2. WprFirst' /\ UnloadAfterStop' /\ Cleaned'
    BY <1>1 DEF IInv, TypeOK, Socket, WprFirst, UnloadAfterStop, Cleaned, StageOK, WprAt, EnginesAt, PciAt,
              Loading, Unloading, Up
  <2>3. ASSUME NEW q \in Procs PROVE StageOK(q)'
    BY <1>1 DEF IInv, TypeOK, Socket, WprFirst, StageOK, WprAt, EnginesAt, MemAt, PciAt,
              Loading, Unloading, Up, Queued, Staged
  <2> QED
    BY <2>1, <2>2, <2>3 DEF IInv
<1>5. CASE Probe(p)
  <2> USE <1>5 DEF Probe
  <2>1. TypeOK' /\ OpenHeld' /\ Socket'
    BY DEF IInv, TypeOK, OpenHeld, Socket, StageOK, PciAt
  <2>2. WprFirst' /\ UnloadAfterStop' /\ Cleaned'
    BY <1>1 DEF IInv, TypeOK, Socket, WprFirst, UnloadAfterStop, Cleaned, StageOK, WprAt, EnginesAt, PciAt,
              Loading, Unloading, Up
  <2>3. ASSUME NEW q \in Procs PROVE StageOK(q)'
    BY <1>1 DEF IInv, TypeOK, Socket, WprFirst, StageOK, WprAt, EnginesAt, MemAt, PciAt,
              Loading, Unloading, Up, Queued, Staged
  <2> QED
    BY <2>1, <2>2, <2>3 DEF IInv
<1>6. CASE Quiet(p)
  <2> USE <1>6 DEF Quiet
  <2>1. master' \in BOOLEAN
    OBVIOUS
  <2>2. TypeOK' /\ OpenHeld' /\ Socket'
    BY <2>1 DEF IInv, TypeOK, OpenHeld, Socket, StageOK, PciAt
  <2>3. WprFirst' /\ UnloadAfterStop' /\ Cleaned'
    BY <1>1 DEF IInv, TypeOK, Socket, WprFirst, UnloadAfterStop, Cleaned, StageOK, WprAt, EnginesAt, PciAt,
              Loading, Unloading, Up
  <2>4. ASSUME NEW q \in Procs PROVE StageOK(q)'
    BY <1>1 DEF IInv, TypeOK, Socket, WprFirst, StageOK, WprAt, EnginesAt, MemAt, PciAt,
              Loading, Unloading, Up, Queued, Staged
  <2> QED
    BY <2>2, <2>3, <2>4 DEF IInv
<1>7. CASE Reset(p)
  <2> USE <1>7 DEF Reset, Cleared
  <2>1. TypeOK' /\ OpenHeld' /\ Socket'
    BY DEF IInv, TypeOK, OpenHeld, Socket, StageOK, PciAt
  <2>2. WprFirst' /\ UnloadAfterStop' /\ Cleaned'
    BY <1>1 DEF IInv, TypeOK, Socket, WprFirst, UnloadAfterStop, Cleaned, StageOK, WprAt, EnginesAt, PciAt,
              Loading, Unloading, Up
  <2>3. ASSUME NEW q \in Procs PROVE StageOK(q)'
    BY <1>1 DEF IInv, TypeOK, Socket, WprFirst, StageOK, WprAt, EnginesAt, MemAt, PciAt,
              Loading, Unloading, Up, Queued, Staged
  <2> QED
    BY <2>1, <2>2, <2>3 DEF IInv
<1>8. CASE Chip(p)
  <2> USE <1>8 DEF Chip
  <2>1. TypeOK' /\ OpenHeld' /\ Socket'
    BY DEF IInv, TypeOK, OpenHeld, Socket, StageOK, PciAt
  <2>2. WprFirst' /\ UnloadAfterStop' /\ Cleaned'
    BY <1>1 DEF IInv, TypeOK, Socket, WprFirst, UnloadAfterStop, Cleaned, StageOK, WprAt, EnginesAt, PciAt,
              Loading, Unloading, Up
  <2>3. ASSUME NEW q \in Procs PROVE StageOK(q)'
    BY <1>1 DEF IInv, TypeOK, Socket, WprFirst, StageOK, WprAt, EnginesAt, MemAt, PciAt,
              Loading, Unloading, Up, Queued, Staged
  <2> QED
    BY <2>1, <2>2, <2>3 DEF IInv
<1> QED
  BY <1>2, <1>3, <1>4, <1>5, <1>6, <1>7, <1>8 DEF Start

(* The function-level reset: the run goes on only with WPR2 clear.         *)
LEMMA RecoverKeeps ==
  ASSUME IInv, NEW p \in Procs, Recover(p)
  PROVE  IInv'
<1> USE ProcAssumption DEF Go, Places, Off, Idle, vars, procVars, pciVars, gpuVars
<1>1. \A q \in Procs \ {p} : pc[p] # "out" => pc[q] = "out"
  BY DEF IInv, TypeOK
<1>2. CASE FlrQuiet(p)
  <2> USE <1>2 DEF FlrQuiet
  <2>1. master' \in BOOLEAN
    OBVIOUS
  <2>2. TypeOK' /\ OpenHeld' /\ Socket'
    BY <2>1 DEF IInv, TypeOK, OpenHeld, Socket, StageOK, PciAt
  <2>3. WprFirst' /\ UnloadAfterStop' /\ Cleaned'
    BY <1>1 DEF IInv, TypeOK, Socket, WprFirst, UnloadAfterStop, Cleaned, StageOK, WprAt, EnginesAt, PciAt,
              Loading, Unloading, Up
  <2>4. ASSUME NEW q \in Procs PROVE StageOK(q)'
    BY <1>1 DEF IInv, TypeOK, Socket, WprFirst, StageOK, WprAt, EnginesAt, MemAt, PciAt,
              Loading, Unloading, Up, Queued, Staged
  <2> QED
    BY <2>2, <2>3, <2>4 DEF IInv
<1>3. CASE Flr(p)
  <2> USE <1>3 DEF Flr, Cleared, Fault
  <2>1. bars' \in BOOLEAN
    OBVIOUS
  <2>2. TypeOK' /\ OpenHeld' /\ Socket'
    BY <2>1 DEF IInv, TypeOK, OpenHeld, Socket, StageOK, PciAt
  <2>3. WprFirst' /\ UnloadAfterStop' /\ Cleaned'
    BY <1>1 DEF IInv, TypeOK, Socket, WprFirst, UnloadAfterStop, Cleaned, StageOK, WprAt, EnginesAt, PciAt,
              Loading, Unloading, Up
  <2>4. ASSUME NEW q \in Procs PROVE StageOK(q)'
    BY <1>1 DEF IInv, TypeOK, Socket, WprFirst, StageOK, WprAt, EnginesAt, MemAt, PciAt,
              Loading, Unloading, Up, Queued, Staged
  <2> QED
    BY <2>2, <2>3, <2>4 DEF IInv
<1>4. CASE FlrBars(p)
  <2> USE <1>4 DEF FlrBars
  <2>1. TypeOK' /\ OpenHeld' /\ Socket'
    BY DEF IInv, TypeOK, OpenHeld, Socket, StageOK, PciAt
  <2>2. WprFirst' /\ UnloadAfterStop' /\ Cleaned'
    BY <1>1 DEF IInv, TypeOK, Socket, WprFirst, UnloadAfterStop, Cleaned, StageOK, WprAt, EnginesAt, PciAt,
              Loading, Unloading, Up
  <2>3. ASSUME NEW q \in Procs PROVE StageOK(q)'
    BY <1>1 DEF IInv, TypeOK, Socket, WprFirst, StageOK, WprAt, EnginesAt, MemAt, PciAt,
              Loading, Unloading, Up, Queued, Staged
  <2> QED
    BY <2>1, <2>2, <2>3 DEF IInv
<1>5. CASE FlrCommand(p)
  <2> USE <1>5 DEF FlrCommand
  <2>1. TypeOK' /\ OpenHeld' /\ Socket'
    BY DEF IInv, TypeOK, OpenHeld, Socket, StageOK, PciAt
  <2>2. WprFirst' /\ UnloadAfterStop' /\ Cleaned'
    BY <1>1 DEF IInv, TypeOK, Socket, WprFirst, UnloadAfterStop, Cleaned, StageOK, WprAt, EnginesAt, PciAt,
              Loading, Unloading, Up
  <2>3. ASSUME NEW q \in Procs PROVE StageOK(q)'
    BY <1>1 DEF IInv, TypeOK, Socket, WprFirst, StageOK, WprAt, EnginesAt, MemAt, PciAt,
              Loading, Unloading, Up, Queued, Staged
  <2> QED
    BY <2>1, <2>2, <2>3 DEF IInv
<1>6. CASE Recheck(p)
  <2> USE <1>6 DEF Recheck
  <2>1. TypeOK' /\ OpenHeld' /\ Socket'
    BY DEF IInv, TypeOK, OpenHeld, Socket, StageOK, PciAt
  <2>2. WprFirst' /\ UnloadAfterStop' /\ Cleaned'
    BY <1>1 DEF IInv, TypeOK, Socket, WprFirst, UnloadAfterStop, Cleaned, StageOK, WprAt, EnginesAt, PciAt,
              Loading, Unloading, Up
  <2>3. ASSUME NEW q \in Procs PROVE StageOK(q)'
    BY <1>1 DEF IInv, TypeOK, Socket, WprFirst, StageOK, WprAt, EnginesAt, MemAt, PciAt,
              Loading, Unloading, Up, Queued, Staged
  <2> QED
    BY <2>1, <2>2, <2>3 DEF IInv
<1> QED
  BY <1>2, <1>3, <1>4, <1>5, <1>6 DEF Recover

(* The boot: WPR2, the booter and the memory are this run's.               *)
LEMMA BootKeeps ==
  ASSUME IInv, NEW p \in Procs, Boot(p)
  PROVE  IInv'
<1> USE ProcAssumption DEF Go, Places, Off, Idle, vars, procVars, pciVars, gpuVars
<1>1. \A q \in Procs \ {p} : pc[p] # "out" => pc[q] = "out"
  BY DEF IInv, TypeOK
<1>2. CASE InitSw(p)
  <2> USE <1>2 DEF InitSw
  <2>1. TypeOK' /\ OpenHeld' /\ Socket'
    BY DEF IInv, TypeOK, OpenHeld, Socket, StageOK, PciAt
  <2>2. WprFirst' /\ UnloadAfterStop' /\ Cleaned'
    BY <1>1 DEF IInv, TypeOK, Socket, WprFirst, UnloadAfterStop, Cleaned, StageOK, WprAt, EnginesAt, PciAt,
              Loading, Unloading, Up
  <2>3. ASSUME NEW q \in Procs PROVE StageOK(q)'
    BY <1>1 DEF IInv, TypeOK, Socket, WprFirst, StageOK, WprAt, EnginesAt, MemAt, PciAt,
              Loading, Unloading, Up, Queued, Staged
  <2> QED
    BY <2>1, <2>2, <2>3 DEF IInv
<1>3. CASE StageBoot(p)
  <2> USE <1>3 DEF StageBoot
  <2>1. TypeOK' /\ OpenHeld' /\ Socket'
    BY DEF IInv, TypeOK, OpenHeld, Socket, StageOK, PciAt
  <2>2. WprFirst' /\ UnloadAfterStop' /\ Cleaned'
    BY <1>1 DEF IInv, TypeOK, Socket, WprFirst, UnloadAfterStop, Cleaned, StageOK, WprAt, EnginesAt, PciAt,
              Loading, Unloading, Up
  <2>3. ASSUME NEW q \in Procs PROVE StageOK(q)'
    BY <1>1 DEF IInv, TypeOK, Socket, WprFirst, StageOK, WprAt, EnginesAt, MemAt, PciAt,
              Loading, Unloading, Up, Queued, Staged
  <2> QED
    BY <2>1, <2>2, <2>3 DEF IInv
<1>4. CASE Fwsec(p)
  <2> USE <1>4 DEF Fwsec, Fault
  <2>1. TypeOK' /\ OpenHeld' /\ Socket'
    BY DEF IInv, TypeOK, OpenHeld, Socket, StageOK, PciAt
  <2>2. WprFirst' /\ UnloadAfterStop' /\ Cleaned'
    BY <1>1 DEF IInv, TypeOK, Socket, WprFirst, UnloadAfterStop, Cleaned, StageOK, WprAt, EnginesAt, PciAt,
              Loading, Unloading, Up
  <2>3. ASSUME NEW q \in Procs PROVE StageOK(q)'
    BY <1>1 DEF IInv, TypeOK, Socket, WprFirst, StageOK, WprAt, EnginesAt, MemAt, PciAt,
              Loading, Unloading, Up, Queued, Staged
  <2> QED
    BY <2>1, <2>2, <2>3 DEF IInv
<1>5. CASE StartBooter(p)
  <2> USE <1>5 DEF StartBooter
  <2>1. TypeOK' /\ OpenHeld' /\ Socket'
    BY DEF IInv, TypeOK, OpenHeld, Socket, StageOK, PciAt
  <2>2. WprFirst' /\ UnloadAfterStop' /\ Cleaned'
    BY <1>1 DEF IInv, TypeOK, Socket, WprFirst, UnloadAfterStop, Cleaned, StageOK, WprAt, EnginesAt, PciAt,
              Loading, Unloading, Up
  <2>3. ASSUME NEW q \in Procs PROVE StageOK(q)'
    BY <1>1 DEF IInv, TypeOK, Socket, WprFirst, StageOK, WprAt, EnginesAt, MemAt, PciAt,
              Loading, Unloading, Up, Queued, Staged
  <2> QED
    BY <2>1, <2>2, <2>3 DEF IInv
<1>6. CASE Stream(p)
  <2> USE <1>6 DEF Stream
  <2>1. TypeOK' /\ OpenHeld' /\ Socket'
    BY DEF IInv, TypeOK, OpenHeld, Socket, StageOK, PciAt
  <2>2. WprFirst' /\ UnloadAfterStop' /\ Cleaned'
    BY <1>1 DEF IInv, TypeOK, Socket, WprFirst, UnloadAfterStop, Cleaned, StageOK, WprAt, EnginesAt, PciAt,
              Loading, Unloading, Up
  <2>3. ASSUME NEW q \in Procs PROVE StageOK(q)'
    BY <1>1 DEF IInv, TypeOK, Socket, WprFirst, StageOK, WprAt, EnginesAt, MemAt, PciAt,
              Loading, Unloading, Up, Queued, Staged
  <2> QED
    BY <2>1, <2>2, <2>3 DEF IInv
<1>7. CASE BooterHalted(p)
  <2> USE <1>7 DEF BooterHalted
  <2>1. TypeOK' /\ OpenHeld' /\ Socket'
    BY DEF IInv, TypeOK, OpenHeld, Socket, StageOK, PciAt
  <2>2. WprFirst' /\ UnloadAfterStop' /\ Cleaned'
    BY <1>1 DEF IInv, TypeOK, Socket, WprFirst, UnloadAfterStop, Cleaned, StageOK, WprAt, EnginesAt, PciAt,
              Loading, Unloading, Up
  <2>3. ASSUME NEW q \in Procs PROVE StageOK(q)'
    BY <1>1 DEF IInv, TypeOK, Socket, WprFirst, StageOK, WprAt, EnginesAt, MemAt, PciAt,
              Loading, Unloading, Up, Queued, Staged
  <2> QED
    BY <2>1, <2>2, <2>3 DEF IInv
<1>8. CASE Construct(p)
  <2> USE <1>8 DEF Construct
  <2>1. TypeOK' /\ OpenHeld' /\ Socket'
    BY DEF IInv, TypeOK, OpenHeld, Socket, StageOK, PciAt
  <2>2. WprFirst' /\ UnloadAfterStop' /\ Cleaned'
    BY <1>1 DEF IInv, TypeOK, Socket, WprFirst, UnloadAfterStop, Cleaned, StageOK, WprAt, EnginesAt, PciAt,
              Loading, Unloading, Up
  <2>3. ASSUME NEW q \in Procs PROVE StageOK(q)'
    BY <1>1 DEF IInv, TypeOK, Socket, WprFirst, StageOK, WprAt, EnginesAt, MemAt, PciAt,
              Loading, Unloading, Up, Queued, Staged
  <2> QED
    BY <2>1, <2>2, <2>3 DEF IInv
<1> QED
  BY <1>2, <1>3, <1>4, <1>5, <1>6, <1>7, <1>8 DEF Boot

(* The end of a run.                                                       *)
LEMMA EndKeeps ==
  ASSUME IInv, NEW p \in Procs, End(p)
  PROVE  IInv'
<1> USE ProcAssumption DEF Go, Places, Off, Idle, vars, procVars, pciVars, gpuVars
<1>1. \A q \in Procs \ {p} : pc[p] # "out" => pc[q] = "out"
  BY DEF IInv, TypeOK
<1>2. CASE LeaveMain(p)
  <2> USE <1>2 DEF LeaveMain
  <2>1. TypeOK' /\ OpenHeld' /\ Socket'
    BY DEF IInv, TypeOK, OpenHeld, Socket, StageOK, PciAt
  <2>2. WprFirst' /\ UnloadAfterStop' /\ Cleaned'
    BY <1>1 DEF IInv, TypeOK, Socket, WprFirst, UnloadAfterStop, Cleaned, StageOK, WprAt, EnginesAt, PciAt,
              Loading, Unloading, Up
  <2>3. ASSUME NEW q \in Procs PROVE StageOK(q)'
    BY <1>1 DEF IInv, TypeOK, Socket, WprFirst, StageOK, WprAt, EnginesAt, MemAt, PciAt,
              Loading, Unloading, Up, Queued, Staged
  <2> QED
    BY <2>1, <2>2, <2>3 DEF IInv
<1>3. CASE Fini(p)
  <2> USE <1>3 DEF Fini
  <2>1. TypeOK' /\ OpenHeld' /\ Socket'
    BY DEF IInv, TypeOK, OpenHeld, Socket, StageOK, PciAt
  <2>2. WprFirst' /\ UnloadAfterStop' /\ Cleaned'
    BY <1>1 DEF IInv, TypeOK, Socket, WprFirst, UnloadAfterStop, Cleaned, StageOK, WprAt, EnginesAt, PciAt,
              Loading, Unloading, Up
  <2>3. ASSUME NEW q \in Procs PROVE StageOK(q)'
    BY <1>1 DEF IInv, TypeOK, Socket, WprFirst, StageOK, WprAt, EnginesAt, MemAt, PciAt,
              Loading, Unloading, Up, Queued, Staged
  <2> QED
    BY <2>1, <2>2, <2>3 DEF IInv
<1>4. CASE Unload(p)
  <2> USE <1>4 DEF Unload
  <2>1. TypeOK' /\ OpenHeld' /\ Socket'
    BY DEF IInv, TypeOK, OpenHeld, Socket, StageOK, PciAt
  <2>2. WprFirst' /\ UnloadAfterStop' /\ Cleaned'
    BY <1>1 DEF IInv, TypeOK, Socket, WprFirst, UnloadAfterStop, Cleaned, StageOK, WprAt, EnginesAt, PciAt,
              Loading, Unloading, Up
  <2>3. ASSUME NEW q \in Procs PROVE StageOK(q)'
    BY <1>1 DEF IInv, TypeOK, Socket, WprFirst, StageOK, WprAt, EnginesAt, MemAt, PciAt,
              Loading, Unloading, Up, Queued, Staged
  <2> QED
    BY <2>1, <2>2, <2>3 DEF IInv
<1>5. CASE UnloadHalted(p)
  <2> USE <1>5 DEF UnloadHalted
  <2>1. TypeOK' /\ OpenHeld' /\ Socket'
    BY DEF IInv, TypeOK, OpenHeld, Socket, StageOK, PciAt
  <2>2. WprFirst' /\ UnloadAfterStop' /\ Cleaned'
    BY <1>1 DEF IInv, TypeOK, Socket, WprFirst, UnloadAfterStop, Cleaned, StageOK, WprAt, EnginesAt, PciAt,
              Loading, Unloading, Up
  <2>3. ASSUME NEW q \in Procs PROVE StageOK(q)'
    BY <1>1 DEF IInv, TypeOK, Socket, WprFirst, StageOK, WprAt, EnginesAt, MemAt, PciAt,
              Loading, Unloading, Up, Queued, Staged
  <2> QED
    BY <2>1, <2>2, <2>3 DEF IInv
<1>6. CASE Close(p)
  <2> USE <1>6 DEF Close
  <2>1. TypeOK' /\ OpenHeld' /\ Socket'
    BY DEF IInv, TypeOK, OpenHeld, Socket, StageOK, PciAt
  <2>2. WprFirst' /\ UnloadAfterStop' /\ Cleaned'
    BY <1>1 DEF IInv, TypeOK, Socket, WprFirst, UnloadAfterStop, Cleaned, StageOK, WprAt, EnginesAt, PciAt,
              Loading, Unloading, Up
  <2>3. ASSUME NEW q \in Procs PROVE StageOK(q)'
    BY <1>1 DEF IInv, TypeOK, Socket, WprFirst, StageOK, WprAt, EnginesAt, MemAt, PciAt,
              Loading, Unloading, Up, Queued, Staged
  <2> QED
    BY <2>1, <2>2, <2>3 DEF IInv
<1>7. CASE Exit(p)
  <2> USE <1>7 DEF Exit, Ends
  <2>1. TypeOK' /\ OpenHeld' /\ Socket'
    BY DEF IInv, TypeOK, OpenHeld, Socket, StageOK, PciAt
  <2>2. WprFirst' /\ UnloadAfterStop' /\ Cleaned'
    BY <1>1 DEF IInv, TypeOK, Socket, WprFirst, UnloadAfterStop, Cleaned, StageOK, WprAt, EnginesAt, PciAt,
              Loading, Unloading, Up
  <2>3. ASSUME NEW q \in Procs PROVE StageOK(q)'
    BY <1>1 DEF IInv, TypeOK, Socket, WprFirst, StageOK, WprAt, EnginesAt, MemAt, PciAt,
              Loading, Unloading, Up, Queued, Staged
  <2> QED
    BY <2>1, <2>2, <2>3 DEF IInv
<1> QED
  BY <1>2, <1>3, <1>4, <1>5, <1>6, <1>7 DEF End

(* An exception or a kill at any stage: what the run put into the GPU stays.*)
LEMMA FailureKeeps ==
  ASSUME IInv, NEW p \in Procs, Raise(p) \/ Kill(p)
  PROVE  IInv'
<1> USE ProcAssumption DEF Go, Places, Off, Idle, vars, procVars, pciVars, gpuVars
<1>1. \A q \in Procs \ {p} : pc[p] # "out" => pc[q] = "out"
  BY DEF IInv, TypeOK
<1>2. CASE Raise(p)
  <2> USE <1>2 DEF Raise, Handler, Fault
  <2>1. TypeOK' /\ OpenHeld' /\ Socket'
    BY DEF IInv, TypeOK, OpenHeld, Socket, StageOK, PciAt
  <2>2. WprFirst' /\ UnloadAfterStop' /\ Cleaned'
    BY <1>1 DEF IInv, TypeOK, Socket, WprFirst, UnloadAfterStop, Cleaned, StageOK, WprAt, EnginesAt, PciAt,
              Loading, Unloading, Up
  <2>3. ASSUME NEW q \in Procs PROVE StageOK(q)'
    BY <1>1 DEF IInv, TypeOK, Socket, WprFirst, StageOK, WprAt, EnginesAt, MemAt, PciAt,
              Loading, Unloading, Up, Queued, Staged
  <2> QED
    BY <2>1, <2>2, <2>3 DEF IInv
<1>3. CASE Kill(p)
  <2> USE <1>3 DEF Kill, Ends, Fault
  <2>1. TypeOK' /\ OpenHeld' /\ Socket'
    BY DEF IInv, TypeOK, OpenHeld, Socket, StageOK, PciAt
  <2>2. WprFirst' /\ UnloadAfterStop' /\ Cleaned'
    BY <1>1 DEF IInv, TypeOK, Socket, WprFirst, UnloadAfterStop, Cleaned, StageOK, WprAt, EnginesAt, PciAt,
              Loading, Unloading, Up
  <2>3. ASSUME NEW q \in Procs PROVE StageOK(q)'
    BY <1>1 DEF IInv, TypeOK, Socket, WprFirst, StageOK, WprAt, EnginesAt, MemAt, PciAt,
              Loading, Unloading, Up, Queued, Staged
  <2> QED
    BY <2>1, <2>2, <2>3 DEF IInv
<1> QED
  BY <1>2, <1>3

(* The booter ends, for the run that waits for it or for one long gone.    *)
LEMMA BooterKeeps ==
  ASSUME IInv, Booter
  PROVE  IInv'
<1> USE ProcAssumption DEF Go, Places, Off, Idle, vars, procVars, pciVars, gpuVars
<1>1. CASE LoadEnds
  <2> USE <1>1 DEF LoadEnds, Fault
  <2>1. mailbox' \in BOOLEAN
    OBVIOUS
  <2>2. TypeOK' /\ OpenHeld' /\ Socket'
    BY <2>1 DEF IInv, TypeOK, OpenHeld, Socket, StageOK, PciAt
  <2>3. WprFirst' /\ UnloadAfterStop' /\ Cleaned'
    BY DEF IInv, TypeOK, Socket, WprFirst, UnloadAfterStop, Cleaned, StageOK, WprAt, EnginesAt, PciAt,
              Loading, Unloading, Up
  <2>4. ASSUME NEW q \in Procs PROVE StageOK(q)'
    BY DEF IInv, TypeOK, Socket, WprFirst, StageOK, WprAt, EnginesAt, MemAt, PciAt,
              Loading, Unloading, Up, Queued, Staged
  <2> QED
    BY <2>2, <2>3, <2>4 DEF IInv
<1>2. CASE UnloadEnds
  <2> USE <1>2 DEF UnloadEnds, Fault
  <2>1. mailbox' \in BOOLEAN
    OBVIOUS
  <2>2. TypeOK' /\ OpenHeld' /\ Socket'
    BY <2>1 DEF IInv, TypeOK, OpenHeld, Socket, StageOK, PciAt
  <2>3. WprFirst' /\ UnloadAfterStop' /\ Cleaned'
    BY DEF IInv, TypeOK, Socket, WprFirst, UnloadAfterStop, Cleaned, StageOK, WprAt, EnginesAt, PciAt,
              Loading, Unloading, Up
  <2>4. ASSUME NEW q \in Procs PROVE StageOK(q)'
    BY DEF IInv, TypeOK, Socket, WprFirst, StageOK, WprAt, EnginesAt, MemAt, PciAt,
              Loading, Unloading, Up, Queued, Staged
  <2> QED
    BY <2>2, <2>3, <2>4 DEF IInv
<1> QED
  BY <1>1, <1>2 DEF Booter

-----------------------------------------------------------------------------
LEMMA Initially == Init => IInv
<1> SUFFICES ASSUME Init PROVE IInv
  OBVIOUS
<1> USE ProcAssumption DEF Init, Off, Idle
<1>1. bars \in BOOLEAN /\ mailbox \in BOOLEAN
  OBVIOUS
<1>2. TypeOK
  BY <1>1 DEF TypeOK, Nothing, Places
<1>3. OpenHeld /\ Socket /\ WprFirst /\ UnloadAfterStop /\ Cleaned
  BY DEF OpenHeld, Socket, WprFirst, UnloadAfterStop, Cleaned
<1>4. \A p \in Procs : StageOK(p)
  BY DEF StageOK, WprAt, EnginesAt, MemAt, PciAt
<1> QED
  BY <1>2, <1>3, <1>4 DEF IInv

LEMMA Inductive == IInv /\ [Next]_vars => IInv'
<1> SUFFICES ASSUME IInv, [Next]_vars PROVE IInv'
  OBVIOUS
<1>1. ASSUME NEW p \in Procs, Start(p) \/ Recover(p) \/ Boot(p) \/ End(p) \/ Raise(p) \/ Kill(p)
      PROVE  IInv'
  BY <1>1, StartKeeps, RecoverKeeps, BootKeeps, EndKeeps, FailureKeeps
<1>2. CASE UNCHANGED vars
  BY <1>2 DEF vars, procVars, pciVars, gpuVars, IInv, TypeOK, OpenHeld, Socket, WprFirst, UnloadAfterStop,
     Cleaned, StageOK, WprAt, EnginesAt, MemAt, PciAt, Loading, Unloading, Up, Queued, Staged
<1> QED
  BY <1>1, <1>2, BooterKeeps DEF Next

(* The strengthening holds in every state of every behaviour.              *)
THEOREM Invariance == Spec => []IInv
BY Initially, Inductive, PTL DEF Spec

(* Whatever is in the GPU belongs to a process or to one that has ended,   *)
(* and whoever is past flock_acquire holds the lock.                       *)
THEOREM TypeCorrect == Spec => []TypeOK
BY Invariance, PTL DEF IInv

(* However many processes start the program, and however they end, one at  *)
(* a time uses the transport.                                              *)
THEOREM OneClientAtATime == Spec => []OneClient
<1>1. IInv => OneClient
  BY DEF IInv, TypeOK, OpenHeld, OneClient
<1> QED
  BY <1>1, Invariance, PTL

(* After any number of failures a run boots only a GPU that has no WPR2,   *)
(* no GSP-RM and no booter at work, and that can be reached.               *)
THEOREM BootsCleanGpu == Spec => []BootsClean
<1>1. IInv => BootsClean
  BY DEF IInv, WprFirst, StageOK, WprAt, PciAt, BootsClean, Idle
<1> QED
  BY <1>1, Invariance, PTL

(* A run that is through its boot computes under a GSP-RM of its own, with *)
(* its queues in memory.                                                   *)
THEOREM RunsOnItsOwn == Spec => []RunsReady
<1>1. IInv => RunsReady
  BY DEF IInv, StageOK, WprAt, EnginesAt, MemAt, PciAt, Up, Queued, RunsReady
<1> QED
  BY <1>1, Invariance, PTL

(* booter_unload runs under no GSP-RM that is at work, also when it is     *)
(* left over from a run that gave up waiting for it.                       *)
THEOREM UnloadsStopped == Spec => []UnloadAfterStop
BY Invariance, PTL DEF IInv

(* "clean shutdown complete" is true of what the GPU holds, until the next *)
(* run.                                                                    *)
THEOREM CleanIsClean == Spec => []CleanEnd
<1>1. IInv => CleanEnd
  BY DEF IInv, WprFirst, Cleaned, CleanEnd
<1> QED
  BY <1>1, Invariance, PTL
================================================================================
