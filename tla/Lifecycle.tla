------------------------------- MODULE Lifecycle -------------------------------
(***************************************************************************)
(* Runs of examples/add.py against one GPU: what a run finds in the GPU,   *)
(* sets up and leaves behind, with exceptions and kills at every step and  *)
(* several processes trying at once.                                       *)
(*                                                                         *)
(* The GPU outlives the runs.  What it holds (the WPR2 region, a running   *)
(* GSP-RM, a falcon at work, queue memory) is marked with the process that *)
(* put it there, or with Gone once that process has ended.                 *)
(*                                                                         *)
(* A definition marked "Seeded fault" is used by no specification: it is a *)
(* defect that a property below is known to detect.                        *)
(***************************************************************************)
EXTENDS Naturals

CONSTANTS
  Procs,     \* processes that run the program, again and again
  NoOne,     \* nobody holds it
  Gone,      \* a process that has ended
  MaxFaults  \* bound on exceptions, kills and failures of the hardware

ASSUME ProcAssumption ==
  NoOne \notin Procs /\ Gone \notin Procs /\ NoOne # Gone /\ MaxFaults \in Nat

VARIABLES
  usb,      \* NVDev.is_usb: the Chestnut bridge, or else the socket server
  pc,       \* how far each process has come
  stale,    \* needs_reset, as each process read it
  lock,     \* the holder of the lock file
  open,     \* the processes that may send requests over the transport
  lastEnd,  \* how the last run ended: "none" while one is going on
  bars,     \* the BARs and bridge windows are programmed
  master,   \* PCI_COMMAND_MASTER: the GPU may do DMA
  link,     \* PCIe generation of the bridge's link
  wpr,      \* who set WPR2 up, NoOne when it is clear
  gsp,      \* GSP-RM
  sec2,     \* the booter on the SEC2 falcon
  mailbox,  \* the booter's result is 0
  mem,      \* what the memory of the message queues holds
  faults    \* failures so far

procVars == <<pc, stale, lock, open, lastEnd>>
pciVars  == <<bars, master, link>>
gpuVars  == <<wpr, gsp, sec2, mailbox, mem>>
vars     == <<usb, procVars, pciVars, gpuVars, faults>>

Off     == [st |-> "off", by |-> NoOne]
Idle    == [run |-> "idle", by |-> NoOne]
Nothing == [holds |-> "junk", by |-> NoOne]

Init ==
  /\ usb \in BOOLEAN
  /\ pc = [p \in Procs |-> "out"] /\ stale = [p \in Procs |-> FALSE]
  /\ lock = NoOne /\ open = {} /\ lastEnd = "none"
  /\ bars = ~usb /\ master \in BOOLEAN /\ link = 3
  /\ wpr = NoOne /\ gsp = Off /\ sec2 = Idle /\ mailbox = TRUE /\ mem = Nothing
  /\ faults = 0

Go(p, from, to) == pc[p] = from /\ pc' = [pc EXCEPT ![p] = to]

Fault == faults < MaxFaults /\ faults' = faults + 1

(* The process ends: the kernel drops its lock and its transport, and what *)
(* it put into the GPU stays.                                              *)
Ends(p) ==
  LET Orphan(x) == IF x.by = p THEN [x EXCEPT !.by = Gone] ELSE x IN
  /\ pc' = [pc EXCEPT ![p] = "out"]
  /\ lock' = IF lock = p THEN NoOne ELSE lock
  /\ open' = open \ {p}
  /\ wpr' = IF wpr = p THEN Gone ELSE wpr
  /\ gsp' = Orphan(gsp) /\ sec2' = Orphan(sec2) /\ mem' = Orphan(mem)
  /\ UNCHANGED <<usb, stale, pciVars, mailbox>>

-----------------------------------------------------------------------------
(* Start: one client at a time, then the transport and the BARs.           *)

(* flock_acquire, LOCK_EX | LOCK_NB; when another process holds the file   *)
(* the run ends before it has touched anything.                            *)
Lock(p) ==
  /\ lock = NoOne
  /\ Go(p, "out", "locked")
  /\ lock' = p /\ lastEnd' = "none"
  /\ UNCHANGED <<usb, stale, open, pciVars, gpuVars, faults>>

(* USB3 claims the interface.  The socket was connected before the lock    *)
(* was taken, but nothing was sent over it.                                *)
Open(p) ==
  /\ Go(p, "locked", "bars")
  /\ open' = open \cup {p}
  /\ UNCHANGED <<usb, stale, lock, lastEnd, pciVars, gpuVars, faults>>

(* _setup_usb_bars numbers the bridges, places the BARs and switches bus   *)
(* mastering on; the socket server owns them otherwise.                    *)
SetupBars(p) ==
  /\ Go(p, "bars", "probe")
  /\ bars' = TRUE /\ master' = (master \/ usb)
  /\ UNCHANGED <<usb, stale, lock, open, lastEnd, link, gpuVars, faults>>

-----------------------------------------------------------------------------
(* _early_ip_init: a WPR2 left by an earlier run asks for a reset.         *)

(* Seeded fault: the left-over WPR2 is not looked for.                     *)
ProbeBlind(p) ==
  /\ Go(p, "probe", "chip")
  /\ stale' = [stale EXCEPT ![p] = FALSE]
  /\ UNCHANGED <<usb, lock, open, lastEnd, pciVars, gpuVars, faults>>

Probe(p) ==
  /\ Go(p, "probe", IF wpr # NoOne /\ ~usb THEN "quiet" ELSE "chip")
  /\ stale' = [stale EXCEPT ![p] = wpr # NoOne]
  /\ UNCHANGED <<usb, lock, open, lastEnd, pciVars, gpuVars, faults>>

(* Over the socket: bus mastering off, then the server resets the device.  *)
Quiet(p) ==
  /\ Go(p, "quiet", "reset")
  /\ master' = FALSE
  /\ UNCHANGED <<usb, stale, lock, open, lastEnd, bars, link, gpuVars, faults>>

Cleared == wpr' = NoOne /\ gsp' = Off /\ sec2' = Idle /\ UNCHANGED <<mailbox, mem>>

Reset(p) ==
  /\ Go(p, "reset", "chip")
  /\ Cleared
  /\ UNCHANGED <<usb, stale, lock, open, lastEnd, pciVars, faults>>

(* Bus mastering on, chip id; then the function-level reset on USB.        *)
Chip(p) ==
  /\ Go(p, "chip", IF stale[p] /\ usb THEN "flr" ELSE "sw")
  /\ master' = TRUE
  /\ UNCHANGED <<usb, stale, lock, open, lastEnd, bars, link, gpuVars, faults>>

(* function_level_reset: bus mastering off, the reset, which also clears   *)
(* the configuration, then the saved BARs and the saved command come back. *)
FlrQuiet(p) ==
  /\ Go(p, "flr", "flrgo")
  /\ master' = FALSE
  /\ UNCHANGED <<usb, stale, lock, open, lastEnd, bars, link, gpuVars, faults>>

Flr(p) ==
  /\ Go(p, "flrgo", "flrbars")
  /\ bars' = FALSE
  /\ \/ Cleared /\ UNCHANGED faults
     \/ Fault /\ gsp' = Off /\ sec2' = Idle /\ UNCHANGED <<wpr, mailbox, mem>>
  /\ UNCHANGED <<usb, stale, lock, open, lastEnd, master, link>>

FlrBars(p) ==
  /\ Go(p, "flrbars", "flrcmd")
  /\ bars' = TRUE
  /\ UNCHANGED <<usb, stale, lock, open, lastEnd, master, link, gpuVars, faults>>

(* Seeded fault: the command register keeps its value from before the reset.*)
FlrCommandOff(p) ==
  /\ Go(p, "flrcmd", "recheck")
  /\ UNCHANGED <<usb, stale, lock, open, lastEnd, pciVars, gpuVars, faults>>

FlrCommand(p) ==
  /\ Go(p, "flrcmd", "recheck")
  /\ master' = TRUE
  /\ UNCHANGED <<usb, stale, lock, open, lastEnd, bars, link, gpuVars, faults>>

(* Seeded fault: the reset is taken to have worked.                        *)
RecheckSkipped(p) ==
  /\ Go(p, "recheck", "sw")
  /\ UNCHANGED <<usb, stale, lock, open, lastEnd, pciVars, gpuVars, faults>>

(* _recover_stale_wpr: WPR2 must be gone, or "Need replug".                *)
Recheck(p) ==
  /\ Go(p, "recheck", IF wpr = NoOne THEN "sw" ELSE "close")
  /\ UNCHANGED <<usb, stale, lock, open, lastEnd, pciVars, gpuVars, faults>>

-----------------------------------------------------------------------------
(* Boot.                                                                   *)

(* NV_GSP.init_sw: the queues and the first two requests.                  *)
InitSw(p) ==
  /\ Go(p, "sw", "hw")
  /\ mem' = [holds |-> "queues", by |-> p]
  /\ UNCHANGED <<usb, stale, lock, open, lastEnd, pciVars, wpr, gsp, sec2, mailbox, faults>>

(* On USB the link goes to Gen1 and the whole SRAM, with the queues in it, *)
(* to the boot image.                                                      *)
StageBoot(p) ==
  /\ Go(p, "hw", "fwsec")
  /\ IF usb THEN link' = 1 /\ mem' = [holds |-> "image", by |-> p]
            ELSE UNCHANGED <<link, mem>>
  /\ UNCHANGED <<usb, stale, lock, open, lastEnd, bars, master, wpr, gsp, sec2, mailbox, faults>>

(* Reset of the GSP falcon, then FWSEC, which sets WPR2 up unless it is    *)
(* already there; the assertion only looks for some WPR2.                  *)
Fwsec(p) ==
  /\ gsp' = Off
  /\ \/ Go(p, "fwsec", "booter") /\ wpr' = (IF wpr = NoOne THEN p ELSE wpr) /\ UNCHANGED faults
     \/ Fault /\ Go(p, "fwsec", IF wpr = NoOne THEN "close" ELSE "booter") /\ UNCHANGED wpr
  /\ UNCHANGED <<usb, stale, lock, open, lastEnd, pciVars, sec2, mailbox, mem>>

(* The boot arguments, the reset of SEC2 and the start of the booter.      *)
StartBooter(p) ==
  /\ Go(p, "booter", IF usb THEN "stream" ELSE "halt")
  /\ sec2' = [run |-> "load", by |-> p]
  /\ UNCHANGED <<usb, stale, lock, open, lastEnd, pciVars, wpr, gsp, mailbox, mem, faults>>

(* stream_gsp_boot: the rest of the image goes through the SRAM; 270 ms    *)
(* after the start, taken to outlast the booter's reading, the mirror of   *)
(* the queues is written back.                                             *)
Stream(p) ==
  /\ sec2.run # "load"
  /\ Go(p, "stream", "halt")
  /\ mem' = [holds |-> "queues", by |-> p]
  /\ UNCHANGED <<usb, stale, lock, open, lastEnd, pciVars, wpr, gsp, sec2, mailbox, faults>>

(* wait_cpu_halted, the mailbox, the assertion on it and, on USB, Gen3.    *)
BooterHalted(p) ==
  /\ sec2.run # "load"
  /\ Go(p, "halt", IF mailbox THEN "construct" ELSE "close")
  /\ link' = IF mailbox /\ usb THEN 3 ELSE link
  /\ UNCHANGED <<usb, stale, lock, open, lastEnd, bars, master, gpuVars, faults>>

(* The wait for INIT_DONE, the golden image and the channels: GspRpc and   *)
(* GpuTimeline.                                                            *)
Construct(p) ==
  /\ Go(p, "construct", "main")
  /\ UNCHANGED <<usb, stale, lock, open, lastEnd, pciVars, gpuVars, faults>>

-----------------------------------------------------------------------------
(* The end of a run.                                                       *)

(* main's try block ends and the finally clause calls device_fini.         *)
LeaveMain(p) ==
  /\ Go(p, "main", "fini")
  /\ UNCHANGED <<usb, stale, lock, open, lastEnd, pciVars, gpuVars, faults>>

(* fini: the unload request stops GSP-RM; on USB the booter follows.       *)
Fini(p) ==
  /\ IF usb /\ wpr = NoOne
     THEN Go(p, "fini", "close") /\ UNCHANGED gsp
     ELSE Go(p, "fini", IF usb THEN "unload" ELSE "close") /\ gsp' = [gsp EXCEPT !.st = "stopped"]
  /\ lastEnd' = IF usb THEN lastEnd ELSE "clean"
  /\ UNCHANGED <<usb, stale, lock, open, pciVars, wpr, sec2, mailbox, mem, faults>>

(* shutdown_booter: SEC2 runs booter_unload.                               *)
Unload(p) ==
  /\ Go(p, "unload", "unhalt")
  /\ sec2' = [run |-> "unload", by |-> p]
  /\ UNCHANGED <<usb, stale, lock, open, lastEnd, pciVars, wpr, gsp, mailbox, mem, faults>>

(* Seeded fault: the result in the mailbox is not looked at.               *)
UnloadUnchecked(p) ==
  /\ sec2.run # "unload"
  /\ Go(p, "unhalt", "close")
  /\ lastEnd' = "clean"
  /\ UNCHANGED <<usb, stale, lock, open, pciVars, gpuVars, faults>>

UnloadHalted(p) ==
  /\ sec2.run # "unload"
  /\ Go(p, "unhalt", "close")
  /\ lastEnd' = IF mailbox THEN "clean" ELSE lastEnd
  /\ UNCHANGED <<usb, stale, lock, open, pciVars, gpuVars, faults>>

(* Seeded fault: the lock goes before the transport.                       *)
CloseLockFirst(p) ==
  /\ Go(p, "close", "unlock")
  /\ lock' = NoOne
  /\ UNCHANGED <<usb, stale, open, lastEnd, pciVars, gpuVars, faults>>

(* USBPCIDevice.close, at exit, and the handler in its constructor: the    *)
(* transport first, then the lock.  Socket and lock go with the process.   *)
Close(p) ==
  /\ Go(p, "close", "unlock")
  /\ open' = IF usb THEN open \ {p} ELSE open
  /\ UNCHANGED <<usb, stale, lock, lastEnd, pciVars, gpuVars, faults>>

Exit(p) ==
  /\ pc[p] = "unlock"
  /\ lastEnd' = IF lastEnd = "clean" THEN "clean" ELSE "failed"
  /\ Ends(p) /\ UNCHANGED faults

(* Seeded fault: the failure of the unload request is passed over.         *)
CatchesAll(p) == CASE pc[p] = "main" -> "fini" [] pc[p] = "fini" -> "unload" [] OTHER -> "close"

(* Where an exception leads: only main's try block has a finally clause;   *)
(* everywhere else the run goes straight to its exit handlers.             *)
Handler(p) == IF pc[p] = "main" THEN "fini" ELSE "close"

Raise(p) ==
  /\ Fault
  /\ pc[p] \notin {"out", "close", "unlock"}
  /\ pc' = [pc EXCEPT ![p] = Handler(p)]
  /\ UNCHANGED <<usb, stale, lock, open, lastEnd, pciVars, gpuVars>>

Kill(p) ==
  /\ Fault
  /\ pc[p] # "out"
  /\ lastEnd' = "failed"
  /\ Ends(p)

-----------------------------------------------------------------------------
(* The booter, modelled from what the driver relies on.                    *)

(* It loads GSP-RM when FWSEC made WPR2 for this run and, on USB, all of   *)
(* the image came through the SRAM; if the process ended while it streamed *)
(* the image may be cut short.                                             *)
LoadEnds ==
  LET able == wpr = sec2.by /\ (usb => mem.holds = "image") IN
  /\ sec2.run = "load"
  /\ sec2' = Idle
  /\ \/ /\ able /\ UNCHANGED faults
        /\ mailbox' = TRUE /\ gsp' = [st |-> "up", by |-> sec2.by]
     \/ /\ IF able /\ sec2.by # Gone THEN Fault ELSE UNCHANGED faults
        /\ mailbox' = FALSE /\ UNCHANGED gsp
  /\ UNCHANGED <<usb, procVars, pciVars, wpr, mem>>

(* booter_unload takes GSP-RM and WPR2 away.                               *)
UnloadEnds ==
  /\ sec2.run = "unload"
  /\ sec2' = Idle
  /\ \/ wpr' = NoOne /\ gsp' = Off /\ mailbox' = TRUE /\ UNCHANGED faults
     \/ Fault /\ mailbox' = FALSE /\ UNCHANGED <<wpr, gsp>>
  /\ UNCHANGED <<usb, procVars, pciVars, mem>>

-----------------------------------------------------------------------------
Start(p) == Lock(p) \/ Open(p) \/ SetupBars(p) \/ Probe(p) \/ Quiet(p) \/ Reset(p) \/ Chip(p)
Recover(p) == FlrQuiet(p) \/ Flr(p) \/ FlrBars(p) \/ FlrCommand(p) \/ Recheck(p)
Boot(p) == InitSw(p) \/ StageBoot(p) \/ Fwsec(p) \/ StartBooter(p) \/ Stream(p) \/ BooterHalted(p) \/ Construct(p)
End(p) == LeaveMain(p) \/ Fini(p) \/ Unload(p) \/ UnloadHalted(p) \/ Close(p) \/ Exit(p)
Booter == LoadEnds \/ UnloadEnds

Next ==
  \/ \E p \in Procs : Start(p) \/ Recover(p) \/ Boot(p) \/ End(p) \/ Raise(p) \/ Kill(p)
  \/ Booter

Spec == Init /\ [][Next]_vars

(* A process runs its straight-line code, the program is started again and *)
(* again, and a booter ends.  Faults are never owed.                       *)
FairSpec ==
  /\ Spec
  /\ \A p \in Procs : WF_vars(Start(p) \/ Recover(p) \/ Boot(p) \/ End(p))
  /\ WF_vars(Booter)

-----------------------------------------------------------------------------
Places ==
  {"out", "locked", "bars", "probe", "quiet", "reset", "chip", "flr", "flrgo", "flrbars", "flrcmd", "recheck",
   "sw", "hw", "fwsec", "booter", "stream", "halt", "construct", "main", "fini", "unload", "unhalt",
   "close", "unlock"}

(* Types: whatever is in the GPU belongs to a process or to one that has   *)
(* ended, and nobody is past the lock without it.                          *)
TypeOK ==
  /\ usb \in BOOLEAN
  /\ pc \in [Procs -> Places] /\ stale \in [Procs -> BOOLEAN]
  /\ lock \in Procs \cup {NoOne} /\ open \subseteq Procs
  /\ lastEnd \in {"none", "clean", "failed"}
  /\ bars \in BOOLEAN /\ master \in BOOLEAN /\ link \in {1, 3}
  /\ wpr \in Procs \cup {NoOne, Gone}
  /\ gsp \in [st : {"off", "up", "stopped"}, by : Procs \cup {NoOne, Gone}]
  /\ sec2 \in [run : {"idle", "load", "unload"}, by : Procs \cup {NoOne, Gone}]
  /\ mem \in [holds : {"junk", "queues", "image"}, by : Procs \cup {NoOne, Gone}]
  /\ mailbox \in BOOLEAN /\ faults \in 0 .. MaxFaults
  /\ \A p \in Procs : pc[p] # "out" => lock = p

(* "Only one eGPU client may run at a time": no two processes have the     *)
(* transport open, also while one of them is giving up or being killed.    *)
OneClient == \A p, q \in open : p = q

(* No run puts up its queues or starts FWSEC over the remains of an        *)
(* earlier one: WPR2 is clear, no GSP-RM is alive to do DMA into the       *)
(* memory, and the GPU can be reached and can do DMA itself.               *)
BootsClean ==
  \A p \in Procs : pc[p] \in {"sw", "hw", "fwsec"} =>
    wpr = NoOne /\ gsp = Off /\ sec2.run = "idle" /\ bars /\ master

(* A run that waits for INIT_DONE or computes has a GSP-RM of its own,     *)
(* under its own WPR2, with the queues back in the SRAM that the boot      *)
(* image went through, and the link back at Gen3.                          *)
RunsReady ==
  \A p \in Procs : pc[p] \in {"construct", "main"} =>
    /\ wpr = p /\ gsp = [st |-> "up", by |-> p]
    /\ mem = [holds |-> "queues", by |-> p]
    /\ bars /\ master /\ link = 3

(* booter_unload is never started under a GSP-RM that has not answered the *)
(* unload request.                                                         *)
UnloadAfterStop == sec2.run = "unload" => gsp.st # "up"

(* After a "clean shutdown complete" over USB the GPU holds neither WPR2   *)
(* nor a GSP-RM until the next run puts them there; over the socket GSP-RM *)
(* has at least stopped.                                                   *)
CleanEnd ==
  lastEnd = "clean" /\ (\A p \in Procs : pc[p] = "out") =>
    /\ gsp.st # "up"
    /\ usb => wpr = NoOne /\ gsp = Off /\ link = 3

(* Wherever earlier runs were cut off, the GPU can be brought up again     *)
(* without unplugging it: once nothing fails any more, run after run ends  *)
(* cleanly.                                                                *)
Recovers == []<>(lastEnd = "clean")
================================================================================
