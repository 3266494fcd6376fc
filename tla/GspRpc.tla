-------------------------------- MODULE GspRpc --------------------------------
(***************************************************************************)
(* NVRpcQueue and NV_GSP of examples/add.py: the two message rings between *)
(* the driver and GSP-RM, the calls made over them one at a time, and the  *)
(* events GSP-RM posts in between.                                         *)
(*                                                                         *)
(* Lengths are in units: a ring page (msgSize, 0x1000 bytes) is PageLen    *)
(* units; the element header in front of every record (0x30) and the RPC   *)
(* header (0x20, counted in every RPC length) are one unit each.           *)
(*                                                                         *)
(* A definition marked "Seeded fault" is used by no specification: it is a *)
(* defect that a property below is known to detect.                        *)
(***************************************************************************)
EXTENDS Integers, Sequences, FiniteSetsExt

CONSTANTS
  CmdCount,     \* msgCount of the command ring
  StatCount,    \* msgCount of the status ring
  StatPage,     \* the memory page behind each slot of the status ring
  PageLen,      \* units in a page
  MaxElems,     \* pages in the largest record (16)
  Payload,      \* payload length of each kind of request
  ReplyLen,     \* RPC length of the reply to each kind of call
  EventLen,     \* RPC length of each kind of event
  MaxCalls,     \* bound on the requests issued before the shutdown
  MaxEvents,    \* bound on the events GSP-RM posts before it stops posting others
  StaleHeaders, \* writePtr the status header may hold before GSP-RM runs,
                \* -1 when entryOff does not say the header is initialised
  IsRemote      \* TRUE on the socket transport, FALSE over USB

BootKinds == {"sysinfo", "registry"}             \* sent, never waited for
CallKinds == {"alloc", "control"}
Kinds     == BootKinds \cup CallKinds \cup {"unload"}
Events    == {"initdone", "seq", "log", "fault", "misc"}

ASSUME RingAssumption ==
  /\ CmdCount \in Nat \ {0, 1} /\ StatCount \in Nat \ {0, 1}
  /\ DOMAIN StatPage = 0 .. StatCount - 1
  /\ PageLen \in Nat \ {0, 1} /\ MaxElems \in 1 .. CmdCount - 1
  /\ PageLen * MaxElems > 2
ASSUME LengthAssumption ==
  /\ Payload \in [Kinds -> Nat \ {0}]
  /\ ReplyLen \in [CallKinds \cup {"unload"} -> Nat \ {0}]
  /\ EventLen \in [Events -> Nat \ {0}]
ASSUME BoundAssumption ==
  /\ MaxCalls \in Nat /\ MaxEvents \in Nat /\ IsRemote \in BOOLEAN
  /\ StaleHeaders \subseteq {-1} \cup (0 .. StatCount - 1)

VARIABLES
  phase,     \* how far the program has come
  at,        \* where it is inside send_rpc, wait_resp or read_resp
  calls,     \* kinds of the requests issued so far; request n is calls[n]
  rest,      \* payload lengths of the current request's records not yet sent
  seq,       \* NVRpcQueue.seq
  cmd,       \* slots of the command ring
  cmdWrite,  \* writePtr of the command ring
  bell,      \* NV_PGSP_QUEUE_HEAD was written since GSP-RM last looked
  rx,        \* the driver's read pointer into the status ring
  read,      \* the messages consumed so far (0: not the head of a message)
  ran,       \* the CPU sequencer messages executed so far
  got,       \* the request whose reply a call last returned
  isErr,     \* is_err_state
  gsp,       \* GSP-RM: "off", "start", "boot", "up" or "hung"
  cmdRead,   \* GSP-RM's read pointer into the command ring
  expect,    \* the element sequence number GSP-RM expects next
  gathered,  \* payload of the current request received so far
  served,    \* the last request GSP-RM carried out
  owed,      \* the request GSP-RM has yet to answer, or 0
  statWrite, \* writePtr in the status header
  page,      \* contents of the pages behind the status ring
  posted     \* every message GSP-RM posted, in order

sendVars == <<calls, rest, seq, cmd, cmdWrite>>
recvVars == <<rx, read, ran, got, isErr>>
gspVars  == <<gsp, cmdRead, expect, gathered, served, owed, statWrite, page, posted>>
vars     == <<phase, at, sendVars, recvVars, gspVars, bell>>

-----------------------------------------------------------------------------
CeilDiv(a, b) == (a + b - 1) \div b

(* Pages a record of RPC length len fills: the element header counts.      *)
Elems(len) == CeilDiv(len + 1, PageLen)

(* Seeded fault: every message is taken to fill one page.                  *)
StrideOfOne(len) == 1

(* What read_resp steps over for an RPC length.                            *)
Stride(len) == CeilDiv(len, PageLen)

(* send_rpc: the payload that fits in a record of MaxElems pages, and the  *)
(* payloads of the records a request is cut into.                          *)
MaxPayload == PageLen * MaxElems - 2

Records(len) ==
  [i \in 1 .. CeilDiv(len, MaxPayload) |-> Min({MaxPayload, len - (i - 1) * MaxPayload})]

Request == Len(calls)

Empty == [msg |-> 0, part |-> 0]

Init ==
  /\ phase = "sw" /\ at = "idle"
  /\ calls = <<>> /\ rest = <<>> /\ seq = 0
  /\ cmd = [s \in 0 .. CmdCount - 1 |-> [n |-> 0, seq |-> 0, len |-> 0, part |-> 0]]
  /\ cmdWrite = 0 /\ bell = FALSE
  /\ rx = 0 /\ read = <<>> /\ ran = <<>> /\ got = 0 /\ isErr = FALSE
  /\ gsp = "off" /\ cmdRead = 0 /\ expect = 0 /\ gathered = 0
  /\ served = 0 /\ owed = 0
  /\ statWrite \in StaleHeaders
  /\ page = [p \in {StatPage[s] : s \in 0 .. StatCount - 1} |-> Empty]
  /\ posted = <<>>

(* Seeded fault: the caller catches the exception and tries again.         *)
RaiseRetried == at' = "idle" /\ UNCHANGED phase

(* An exception: until NVDevice() returned nothing catches it; inside      *)
(* main's try the finally clause sends the unload request; the failure of  *)
(* that one ends the program.                                              *)
Raise ==
  /\ phase' = IF phase = "main" THEN "fini" ELSE "exited"
  /\ at' = "idle"

-----------------------------------------------------------------------------
(* The driver sends.                                                       *)

(* The requests the code may issue next: the two that are sent before      *)
(* GSP-RM runs, RM calls while the device is being constructed, and the    *)
(* unload request last.                                                    *)
Issuable ==
  CASE phase = "sw"   -> IF Request = 0 THEN {"sysinfo"}
                         ELSE IF Request = 1 THEN {"registry"} ELSE {}
    [] phase = "init" -> IF Request < MaxCalls THEN CallKinds ELSE {}
    [] phase = "fini" -> {"unload"}
    [] OTHER          -> {}

Issue(k) ==
  /\ at = "idle" /\ k \in Issuable
  /\ at' = "store"
  /\ calls' = Append(calls, k)
  /\ rest' = Records(Payload[k])
  /\ UNCHANGED <<phase, seq, cmd, cmdWrite, recvVars, gspVars, bell>>

(* _send_rpc_record: the element goes into the slots at writePtr, whatever *)
(* GSP-RM has read.                                                        *)
StoreRecord ==
  LET Offset(s) == (s + CmdCount - cmdWrite) % CmdCount IN
  /\ at = "store"
  /\ at' = "publish"
  /\ cmd' = [s \in DOMAIN cmd |->
               IF Offset(s) < Elems(Head(rest) + 1)
               THEN [n |-> Request, seq |-> seq, len |-> Head(rest), part |-> Offset(s) + 1]
               ELSE cmd[s]]
  /\ UNCHANGED <<phase, calls, rest, seq, cmdWrite, recvVars, gspVars, bell>>

(* Seeded fault: one sequence number for all the records of a request.     *)
PublishSameSeq ==
  /\ at = "publish"
  /\ at' = "bell"
  /\ cmdWrite' = (cmdWrite + Elems(Head(rest) + 1)) % CmdCount
  /\ seq' = IF Len(rest) = 1 THEN seq + 1 ELSE seq
  /\ rest' = Tail(rest)
  /\ UNCHANGED <<phase, calls, cmd, recvVars, gspVars, bell>>

PublishRecord ==
  /\ at = "publish"
  /\ at' = "bell"
  /\ cmdWrite' = (cmdWrite + Elems(Head(rest) + 1)) % CmdCount
  /\ seq' = seq + 1
  /\ rest' = Tail(rest)
  /\ UNCHANGED <<phase, calls, cmd, recvVars, gspVars, bell>>

(* Seeded fault: the doorbell is not rung.                                 *)
DoorbellSkipped ==
  /\ at = "bell"
  /\ at' = IF rest # <<>> THEN "store" ELSE IF phase = "sw" THEN "idle" ELSE "wait"
  /\ UNCHANGED <<phase, sendVars, recvVars, gspVars, bell>>

(* The doorbell, then the next record of the request, wait_resp, or the    *)
(* return of a boot request nobody waits for.                              *)
Doorbell ==
  /\ at = "bell"
  /\ bell' = TRUE
  /\ at' = IF rest # <<>> THEN "store" ELSE IF phase = "sw" THEN "idle" ELSE "wait"
  /\ UNCHANGED <<phase, sendVars, recvVars, gspVars>>

(* NV_FLCN.init_hw has started the GSP core; NV_GSP.init_hw follows.       *)
StartGsp ==
  /\ phase = "sw" /\ at = "idle" /\ Request = 2
  /\ phase' = "boot" /\ at' = "header"
  /\ gsp' = "start"
  /\ UNCHANGED <<sendVars, recvVars, bell, cmdRead, expect, gathered, served, owed,
                 statWrite, page, posted>>

(* NVRpcQueue.__init__ waits for entryOff, init_hw then for INIT_DONE.     *)
HeaderSeen ==
  /\ at = "header" /\ statWrite # -1
  /\ at' = "wait"
  /\ UNCHANGED <<phase, sendVars, recvVars, gspVars, bell>>

HeaderTimeout ==
  /\ at = "header" /\ statWrite = -1
  /\ Raise
  /\ UNCHANGED <<sendVars, recvVars, gspVars, bell>>

-----------------------------------------------------------------------------
(* The driver receives.                                                    *)

(* The function wait_resp looks for.                                       *)
Want == IF phase = "boot" THEN "initdone" ELSE calls[Request]

(* wait_resp returned: INIT_DONE lets the construction go on, the answer   *)
(* to the unload request ends the program.                                 *)
Return ==
  /\ at' = "idle"
  /\ phase' = CASE phase = "boot" -> "init" [] phase = "fini" -> "exited" [] OTHER -> phase

(* PCIIface.sleep, and on USB the poll of synchronize: drain stat_q.       *)
StartDrain ==
  /\ phase \in {"init", "main"} /\ at = "idle"
  /\ at' = "drain"
  /\ UNCHANGED <<phase, sendVars, recvVars, gspVars, bell>>

Reading == at \in {"wait", "drain"} /\ rx # statWrite

(* One turn of read_resp.  The handler of the message runs before the read *)
(* pointer moves on, a failed rpc_result raises after it; messages other   *)
(* than the one waited for are dropped.                                    *)
ReadOne ==
  LET cell == page[StatPage[rx]]
      m    == posted[cell.msg]
  IN
  /\ Reading
  /\ ran' = IF m.fn = "seq" THEN Append(ran, cell.msg) ELSE ran
  /\ read' = Append(read, cell.msg)
  /\ isErr' = (isErr \/ m.fn \in {"log", "fault"})
  /\ rx' = (rx + Stride(m.len)) % StatCount
  /\ CASE ~m.ok -> Raise /\ UNCHANGED got
       [] m.ok /\ at = "wait" /\ m.fn = Want ->
            Return /\ got' = IF phase = "boot" THEN got ELSE m.n
       [] OTHER -> UNCHANGED <<phase, at, got>>
  /\ UNCHANGED <<sendVars, gspVars, bell>>

(* Seeded fault: the exception of a handler is swallowed by the poll loop. *)
HandlerSwallowed ==
  LET cell == page[StatPage[rx]]
      m    == posted[cell.msg]
  IN
  /\ Reading /\ cell.part = 1 /\ m.fn \in {"seq", "log"} /\ Len(ran) < 4
  /\ ran' = IF m.fn = "seq" THEN Append(ran, cell.msg) ELSE ran
  /\ UNCHANGED <<phase, at, rx, read, got, isErr, sendVars, gspVars, bell>>

(* The handler itself raised: a poll of the CPU sequencer timed out, or    *)
(* the text of a log event does not decode.  The read pointer stays.       *)
HandlerRaises ==
  LET cell == page[StatPage[rx]]
      m    == posted[cell.msg]
  IN
  /\ Reading /\ cell.part = 1 /\ m.fn \in {"seq", "log"}
  /\ ran' = IF m.fn = "seq" THEN Append(ran, cell.msg) ELSE ran
  /\ Raise
  /\ UNCHANGED <<rx, read, got, isErr, sendVars, gspVars, bell>>

(* The page at the read pointer is not the head of a message: whatever its *)
(* bytes say is taken for a header, whose length may say anything.  Bounds:*)
(* one such read is followed, and it is not what wait_resp waits for.      *)
ReadGarbled ==
  /\ Reading
  /\ \A i \in DOMAIN read : read[i] # 0
  /\ read' = Append(read, 0)
  /\ rx' \in 0 .. StatCount - 1
  /\ UNCHANGED <<phase, at, ran, got, isErr, sendVars, gspVars, bell>>

Read == IF page[StatPage[rx]].part = 1 THEN ReadOne ELSE ReadGarbled

(* The generator is exhausted.  wait_resp looks at the clock; sleep raises *)
(* if a fault was seen.                                                    *)
ReadEmpty ==
  /\ at \in {"wait", "drain"} /\ rx = statWrite
  /\ CASE at = "wait" -> at' = "clock" /\ UNCHANGED phase
       [] at = "drain" /\ IsRemote /\ isErr -> Raise
       [] OTHER -> at' = "idle" /\ UNCHANGED phase
  /\ UNCHANGED <<sendVars, recvVars, gspVars, bell>>

PollAgain ==
  /\ at = "clock"
  /\ at' = "wait"
  /\ UNCHANGED <<phase, sendVars, recvVars, gspVars, bell>>

(* Seeded fault: a timeout is reported as an answer.                       *)
TimeoutIgnored ==
  /\ at = "clock" /\ phase = "init"
  /\ at' = "idle" /\ got' = Request
  /\ UNCHANGED <<phase, rx, read, ran, isErr, sendVars, gspVars, bell>>

Timeout ==
  /\ at = "clock"
  /\ Raise
  /\ UNCHANGED <<sendVars, recvVars, gspVars, bell>>

(* NVDevice() returned; main's try block begins, and ends.                 *)
EnterMain ==
  /\ phase = "init" /\ at = "idle" /\ phase' = "main"
  /\ UNCHANGED <<at, sendVars, recvVars, gspVars, bell>>
LeaveMain ==
  /\ phase = "main" /\ at = "idle" /\ phase' = "fini"
  /\ UNCHANGED <<at, sendVars, recvVars, gspVars, bell>>

-----------------------------------------------------------------------------
(* GSP-RM, modelled from what the driver relies on.                        *)

Live == gsp \in {"boot", "up"}

(* It initialises the status header, then looks at the command ring.       *)
GspStart ==
  /\ gsp = "start"
  /\ gsp' = "boot" /\ statWrite' = 0 /\ bell' = TRUE
  /\ UNCHANGED <<cmdRead, expect, gathered, served, owed, page, posted,
                 phase, at, sendVars, recvVars>>

(* It reads one record, whose sequence number must be the next one, and    *)
(* carries the request out when all of its payload is there.               *)
GspRead ==
  LET c == cmd[cmdRead] IN
  /\ Live /\ bell /\ owed = 0 /\ cmdRead # cmdWrite
  /\ c.part = 1 /\ c.seq = expect
  /\ cmdRead' = (cmdRead + Elems(c.len + 1)) % CmdCount
  /\ expect' = expect + 1
  /\ IF gathered + c.len = Payload[calls[c.n]]
     THEN /\ gathered' = 0 /\ served' = c.n
          /\ owed' = IF calls[c.n] \in BootKinds THEN 0 ELSE c.n
     ELSE gathered' = gathered + c.len /\ UNCHANGED <<served, owed>>
  /\ UNCHANGED <<gsp, statWrite, page, posted, phase, at, sendVars, recvVars, bell>>

(* The command ring is empty: it waits for the doorbell.                   *)
GspSleep ==
  /\ Live /\ bell /\ cmdRead = cmdWrite
  /\ bell' = FALSE
  /\ UNCHANGED <<gspVars, phase, at, sendVars, recvVars>>

(* It posts a message when the status ring has room for it, as far as the  *)
(* driver's read pointer says.                                             *)
Post(m) ==
  LET used == (statWrite + StatCount - rx) % StatCount
      e    == Elems(m.len)
      Parts(p) == {j \in 1 .. e : StatPage[(statWrite + j - 1) % StatCount] = p}
  IN
  /\ used + e < StatCount
  /\ posted' = Append(posted, m)
  /\ page' = [p \in DOMAIN page |->
                IF Parts(p) = {} THEN page[p]
                ELSE [msg |-> Len(posted) + 1, part |-> Max(Parts(p))]]
  /\ statWrite' = (statWrite + e) % StatCount
  /\ UNCHANGED <<cmdRead, expect, gathered, served, phase, at, sendVars, recvVars, bell>>

GspInitDone ==
  /\ gsp = "boot" /\ served = 2
  /\ Post([fn |-> "initdone", n |-> 0, len |-> EventLen["initdone"], ok |-> TRUE])
  /\ gsp' = "up" /\ UNCHANGED owed

(* The answer to a call; rpc_result may say that the call failed.          *)
GspReply ==
  /\ Live /\ owed # 0
  /\ \E ok \in BOOLEAN :
       Post([fn |-> calls[owed], n |-> owed, len |-> ReplyLen[calls[owed]], ok |-> ok])
  /\ owed' = 0 /\ UNCHANGED gsp

(* It asks for the CPU sequencer only while it boots.                      *)
GspEvent ==
  /\ Live
  /\ Cardinality({i \in DOMAIN posted : posted[i].n = 0}) < MaxEvents
  /\ \E k \in IF gsp = "boot" THEN {"seq", "misc"} ELSE {"log", "fault", "misc"} :
       Post([fn |-> k, n |-> 0, len |-> EventLen[k], ok |-> TRUE])
  /\ UNCHANGED <<gsp, owed>>

GspHangs ==
  /\ gsp \in {"start", "boot", "up"}
  /\ gsp' = "hung"
  /\ UNCHANGED <<cmdRead, expect, gathered, served, owed, statWrite, page, posted,
                 phase, at, sendVars, recvVars, bell>>

-----------------------------------------------------------------------------
Send    == (\E k \in Kinds : Issue(k)) \/ StoreRecord \/ PublishRecord \/ Doorbell
Receive == HeaderSeen \/ Read \/ ReadEmpty \/ PollAgain
Fail    == HeaderTimeout \/ HandlerRaises \/ Timeout
Program == StartGsp \/ StartDrain \/ EnterMain \/ LeaveMain
Serve   == GspStart \/ GspRead \/ GspSleep \/ GspInitDone \/ GspReply

Next == Send \/ Receive \/ Fail \/ Program \/ Serve \/ GspEvent \/ GspHangs

Spec == Init /\ [][Next]_vars

(* The driver runs straight on and polls for ever; GSP-RM serves unless it *)
(* hangs.  Events, failures and new calls are never owed.                  *)
FairSpec ==
  /\ Spec
  /\ WF_vars(StoreRecord \/ PublishRecord \/ Doorbell) /\ WF_vars(Receive)
  /\ WF_vars(GspStart) /\ WF_vars(GspRead) /\ WF_vars(GspInitDone) /\ WF_vars(GspReply)

-----------------------------------------------------------------------------
Phases == {"sw", "boot", "init", "main", "fini", "exited"}
Places == {"idle", "store", "publish", "bell", "header", "wait", "drain", "clock"}
Messages == [fn : Events \cup Kinds, n : Nat, len : Nat, ok : BOOLEAN]

(* Types: pointers stay inside their rings, messages and cells are well    *)
(* formed, and the program is somewhere in its sequence of phases.         *)
TypeOK ==
  /\ phase \in Phases /\ at \in Places
  /\ calls \in Seq(Kinds) /\ rest \in Seq(1 .. MaxPayload) /\ seq \in Nat
  /\ cmd \in [0 .. CmdCount - 1 -> [n : 0 .. Request, seq : Nat, len : 0 .. MaxPayload, part : 0 .. MaxElems]]
  /\ cmdWrite \in 0 .. CmdCount - 1 /\ cmdRead \in 0 .. CmdCount - 1
  /\ rx \in 0 .. StatCount - 1 /\ statWrite \in -1 .. StatCount - 1
  /\ read \in Seq(0 .. Len(posted)) /\ ran \in Seq(1 .. Len(posted))
  /\ got \in 0 .. Request /\ served \in 0 .. Request /\ owed \in 0 .. Request
  /\ expect \in Nat /\ gathered \in Nat
  /\ isErr \in BOOLEAN /\ bell \in BOOLEAN
  /\ gsp \in {"off", "start", "boot", "up", "hung"}
  /\ page \in [{StatPage[s] : s \in 0 .. StatCount - 1} -> [msg : 0 .. Len(posted), part : Nat]]
  /\ posted \in Seq(Messages)

(* send_rpc writes slots without a look at GSP-RM's read pointer, several  *)
(* of them for a request that is cut into records.  GSP-RM nevertheless    *)
(* never finds a record torn, missing or out of sequence.                  *)
RequestsReadable ==
  Live /\ cmdRead # cmdWrite => cmd[cmdRead].part = 1 /\ cmd[cmdRead].seq = expect

(* "read response events": read_resp hands out the messages GSP-RM posted, *)
(* each one once and in the order of posting.                              *)
ReadsInOrder == \A i \in DOMAIN read : read[i] = i

(* A call returns the reply to itself, never one left over from an earlier *)
(* call of the same function.                                              *)
ReplyIsOurs == [][got' # got => got' = Request]_vars

(* The CPU sequencer scripts reset falcons and write registers: each runs  *)
(* at most once, and all of them before the driver goes on after INIT_DONE.*)
SequencerOnce ==
  /\ \A i, j \in DOMAIN ran : i # j => ran[i] # ran[j]
  /\ phase \in {"init", "main", "fini"} =>
       \A i \in DOMAIN posted : posted[i].fn = "seq" => \E j \in DOMAIN ran : ran[j] = i

(* The requests handed to GSP-RM are carried out in order, one by one, and *)
(* a call returns only when its request has been: SerialJobs.  A request   *)
(* counts as handed over when its last record is published.                *)
Published == IF rest = <<>> THEN Request ELSE Request - 1
Serial == INSTANCE SerialJobs
            WITH submitted <- Published, completed <- served, observed <- got
ImplementsSerialJobs == Serial!Spec

(* Whatever the driver is doing on the rings comes to an end, unless       *)
(* GSP-RM has hung: a status ring full of events and a driver waiting for  *)
(* its reply never block each other, and no doorbell is lost.              *)
CallsEnd ==
  (at # "idle") ~> (at = "idle" \/ phase = "exited" \/ gsp = "hung")

(* With memory that outlives the program (LeftHeader) this one is false:   *)
(* the driver waits until the status queue header is "initialized" before  *)
(* it trusts writePtr: past that wait, GSP-RM has set the header up.       *)
HeaderIsFresh == phase = "boot" /\ at = "wait" => gsp \notin {"off", "start"}
==============================================================================
