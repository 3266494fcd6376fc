---------------------------- MODULE KeplerSession ----------------------------
(***************************************************************************)
(* A whole run of the Kepler example: the device is opened through the     *)
(* socket server, the output is filled with a sentinel, a channel with the *)
(* launches of one window is rung, the semaphore is polled, the output is  *)
(* read and compared, the device is closed, and so on with the next window *)
(* on a fresh device; a failed pass is repeated once, on a warm card.      *)
(*                                                                         *)
(* A read over the socket that times out raises, but its answer may still  *)
(* come, and the next read takes it for its own: two places of the poll    *)
(* loop swallow that exception and go on reading.                          *)
(***************************************************************************)
EXTENDS Naturals, Sequences, FiniteSets

CONSTANTS Windows,    \* windows an input may be split into
          Chunks,     \* launches of one window
          PollLimit,  \* polls of the semaphore (KEPLER_SEM_POLL_LIMIT)
          Rings,      \* writes of the doorbell (4)
          MaxLate     \* bound: answers that arrive after their timeout

ASSUME SessionAssumption == /\ Windows \subseteq Nat \ {0} /\ Chunks \in Nat \ {0}
                            /\ PollLimit \in Nat \ {0} /\ Rings \in Nat \ {0}
                            /\ MaxLate \in Nat

VARIABLES plan,    \* what is asked: the test stage and the number of windows
          pc,      \* where the program is
          err,     \* the exception on its way up: "none", "bar1" or "other"
          pass,    \* 1, or 2 on the warm card
          window,  \* the window this channel works on
          open,    \* devices the program holds open, each a <<pass, window>>
          rung,    \* writes of the doorbell
          polls,   \* polls of the semaphore
          val,     \* what the last poll read
          late,    \* answers in the socket whose reader gave up
          lost,    \* a timeout on this socket was swallowed
          gpu,     \* the channel: whose it is, put, get and the next method
          sem,     \* the semaphore in video memory
          sked,    \* a launch was rejected and the trap is latched
          storing, \* chunks computed that have not reached video memory
          vram     \* the output: what each chunk holds, and who stored it

card == <<gpu, sem, sked, storing, vram>>
vars == <<plan, pc, err, pass, window, open, rung, polls, val, late, lost, card>>

Now == <<pass, window>>
Seed == IF plan.stage = "sem" THEN 0 ELSE 1
Done == 2

(* A chunk holds the sums of a window (the inputs of a pass are those of the *)
(* other: the seed is fixed), or a value no sum has.                        *)
Sum(w) == <<"sum", w>>
Sentinel == <<"sentinel", 0>>

Ended == {"ok", "failed", "refused"}
Fresh == [own |-> Now, put |-> 0, get |-> 0, at |-> 0]

Init ==
    /\ plan \in [stage : {"full-add"}, windows : Windows]
                \cup [stage : {"sem"}, windows : {1}]
    /\ pc = "open" /\ err = "none" /\ pass = 1 /\ window = 0 /\ open = {}
    /\ rung = 0 /\ polls = 0 /\ val = 0 /\ late = <<>> /\ lost = FALSE
    /\ gpu = Fresh /\ sem = 0 /\ sked = FALSE /\ storing = {}
    /\ vram = [c \in 1..Chunks |-> [holds |-> <<"junk", 0>>, by |-> <<0, 0>>]]

(***************************************************************************)
(* The socket.  The server answers in order, so a reader that sends the    *)
(* requests regs gets the head of what is unread, then answers of its own. *)
(***************************************************************************)

Answer(regs, i) == (late \o regs)[i]
Unread(regs, n) == SubSeq(late \o regs, n + 1, Len(late) + Len(regs))

(* One of the requests times out, and the program goes on. *)
Swallow == Len(late) < MaxLate /\ lost' = TRUE

Raise(kind) == pc' = "unwind" /\ err' = kind

(***************************************************************************)
(* Opening, and filling the card.                                          *)
(***************************************************************************)

(* A new client has a new socket. *)
Open ==
    /\ pc = "open" /\ pc' = "stage"
    /\ open' = open \cup {Now} /\ late' = <<>> /\ lost' = FALSE
    /\ UNCHANGED <<plan, err, pass, window, rung, polls, val, card>>

(* The constructor closes what it could not set up; only the first device  *)
(* of a pass is opened outside the run, whose failure is repeated.         *)
OpenFails(kind) ==
    /\ pc = "open"
    /\ IF window = 0 THEN pc' = "refused" /\ UNCHANGED err ELSE Raise(kind)
    /\ UNCHANGED <<plan, pass, window, open, rung, polls, val, late, lost, card>>

Unfilled == vram
Filled == [c \in 1..Chunks |-> [holds |-> Sentinel, by |-> Now]]

(* The channel's previous owner is preempted and L2 written back, latched   *)
(* traps are cleared, the semaphore gets its seed and the output is filled, *)
(* each read back until it holds.                                           *)
Stage ==
    /\ pc = "stage" /\ pc' = "ring"
    /\ gpu' = Fresh /\ storing' = {} /\ sem' = Seed /\ sked' = FALSE
    /\ vram' = Filled /\ rung' = 0
    /\ UNCHANGED <<plan, err, pass, window, open, polls, val, late, lost>>

(* Any access of these steps may fail, and the framebuffer be found dead. *)
StepFails(kind) ==
    /\ pc \in {"stage", "ring", "read"} /\ (kind = "bar1" => pc = "stage")
    /\ Raise(kind)
    /\ UNCHANGED <<plan, pass, window, open, rung, polls, val, late, lost, card>>

(***************************************************************************)
(* Launch and completion.                                                  *)
(***************************************************************************)

(* GP_PUT is written until both apertures show it; GP_GET, which belongs to *)
(* the card, is 0 or 1 and left alone.  An answer that comes late here is   *)
(* taken to keep the two from agreeing: it shifts the reads of the check.   *)
Ring ==
    /\ pc = "ring" /\ rung < Rings /\ rung' = rung + 1
    /\ gpu' = [gpu EXCEPT !.put = 1]
    /\ \/ pc' = "poll" /\ polls' = 0 /\ val' = Seed
       \/ UNCHANGED <<pc, polls, val>>
    /\ UNCHANGED <<plan, err, pass, window, open, late, lost, sem, sked, storing, vram>>

RingGivesUp ==
    /\ pc = "ring" /\ rung = Rings /\ Raise("other")
    /\ UNCHANGED <<plan, pass, window, open, rung, polls, val, late, lost, card>>

(* FE_PWR while the front end is kept on. *)
FePwr == {2, 18}

Uncounted(n) == n
Counted(n) == n + 1

(* A poll refreshes FE_PWR, whatever comes of that read, and reads the      *)
(* semaphore.                                                              *)
Poll ==
    /\ pc = "poll" /\ polls < PollLimit /\ polls' = Counted(polls)
    /\ \E fe \in FePwr :
         LET regs == <<fe, sem>> IN
         \/ /\ val' = Answer(regs, 2) /\ late' = Unread(regs, 2) /\ pc' = "inspect"
            /\ UNCHANGED <<err, lost>>
         \/ /\ Swallow                       \* FE_PWR is late
            /\ val' = Answer(regs, 1) /\ late' = Unread(regs, 1) /\ pc' = "inspect"
            /\ UNCHANGED err
         \/ Raise("other") /\ UNCHANGED <<val, late, lost>>
    /\ UNCHANGED <<plan, pass, window, open, rung, card>>

GiveUp ==
    /\ pc = "poll" /\ polls = PollLimit /\ Raise("other")
    /\ UNCHANGED <<plan, pass, window, open, rung, polls, val, late, lost, card>>

(* The registers of one inspection: GP_GET, INTR, TRAP, GPC trap, SKED. *)
Status == LET latched(x) == IF sked THEN x ELSE 0 IN
          <<gpu.get, latched(2^21), latched(2^8), 0, latched(1)>>
SkedFault == Answer(Status, 5) % 2^30 # 0 \/ (Answer(Status, 3) \div 2^8) % 2 = 1

(* The semaphore follows the launches in the channel, and is believed only *)
(* after the traps have been looked at.                                    *)
Conclude ==
    /\ pc' = IF val # Done THEN "poll"
             ELSE IF plan.stage = "sem" THEN "unwind" ELSE "read"
    /\ UNCHANGED err

AcceptFirst ==
    /\ pc = "inspect"
    /\ IF val = Done \/ ~SkedFault THEN Conclude ELSE Raise("other")
    /\ late' = Unread(Status, 5)
    /\ UNCHANGED <<plan, pass, window, open, rung, polls, val, lost, card>>

(* A read that times out ends the inspection, not the poll. *)
Inspect ==
    /\ pc = "inspect"
    /\ \/ /\ late' = Unread(Status, 5) /\ UNCHANGED lost
          /\ IF SkedFault THEN Raise("other") ELSE Conclude
       \/ \E k \in 1..5 :
            /\ Swallow /\ late' = Unread(SubSeq(Status, 1, k), k - 1)
            /\ Conclude
    /\ UNCHANGED <<plan, pass, window, open, rung, polls, val, card>>

(***************************************************************************)
(* The card runs the launches of the channel, then its semaphore release,  *)
(* which does not wait for the results to reach video memory.              *)
(***************************************************************************)

Launches == IF plan.stage = "sem" THEN 0 ELSE Chunks

Fetch ==
    /\ gpu.get < gpu.put /\ gpu.at = 0
    /\ gpu' = [gpu EXCEPT !.get = 1, !.at = 1]
    /\ UNCHANGED <<sem, sked, storing, vram>>

(* A launch runs, is rejected, or leaves no trace (past the ceiling of      *)
(* launches a channel retires).                                             *)
Launch ==
    /\ gpu.at \in 1..Launches /\ gpu' = [gpu EXCEPT !.at = @ + 1]
    /\ \/ storing' = storing \cup {gpu.at} /\ UNCHANGED sked
       \/ sked' = TRUE /\ UNCHANGED storing
       \/ UNCHANGED <<sked, storing>>
    /\ UNCHANGED <<sem, vram>>

Store(c) ==
    /\ c \in storing /\ storing' = storing \ {c}
    /\ vram' = [vram EXCEPT ![c] = [holds |-> Sum(gpu.own[2]), by |-> gpu.own]]
    /\ UNCHANGED <<gpu, sem, sked>>

Release ==
    /\ gpu.at = Launches + 1 /\ gpu' = [gpu EXCEPT !.at = 0] /\ sem' = Done
    /\ UNCHANGED <<sked, storing, vram>>

Card ==
    /\ (Fetch \/ Launch \/ (\E c \in 1..Chunks : Store(c)) \/ Release)
    /\ UNCHANGED <<plan, pc, err, pass, window, open, rung, polls, val, late, lost>>

(***************************************************************************)
(* The result, the next window and the end.                                *)
(***************************************************************************)

Matches == late = <<>> /\ \A c \in 1..Chunks : vram[c].holds = Sum(window)

(* One snapshot of the output, compared with the sums; then the client      *)
(* takes no further request.                                                *)
ReadOutput ==
    /\ pc = "read"
    /\ IF Matches
         THEN /\ pc' = IF window + 1 < plan.windows THEN "next" ELSE "unwind"
              /\ UNCHANGED err
         ELSE Raise("other")
    /\ UNCHANGED <<plan, pass, window, open, rung, polls, val, late, lost, card>>

KeptOpen == open
Closed == open \ {Now}

NextWindow ==
    /\ pc = "next" /\ pc' = "open" /\ window' = window + 1 /\ open' = Closed
    /\ UNCHANGED <<plan, err, pass, rung, polls, val, late, lost, card>>

(* Devices of this window and of the pass are closed on every way out; a    *)
(* failed first pass is repeated unless the framebuffer is dead.            *)
Unwind ==
    /\ pc = "unwind" /\ open' = open \ {Now, <<pass, 0>>}
    /\ IF err # "none" /\ err # "bar1" /\ pass = 1
         THEN pc' = "open" /\ err' = "none" /\ pass' = 2 /\ window' = 0
         ELSE /\ pc' = IF err = "none" THEN "ok" ELSE "failed"
              /\ UNCHANGED <<err, pass, window>>
    /\ UNCHANGED <<plan, rung, polls, val, late, lost, card>>

Host ==
    \/ Open \/ (\E kind \in {"bar1", "other"} : OpenFails(kind) \/ StepFails(kind))
    \/ Stage \/ Ring \/ RingGivesUp \/ Poll \/ GiveUp \/ Inspect
    \/ ReadOutput \/ NextWindow \/ Unwind

Finished == pc \in Ended /\ UNCHANGED vars
Next == Host \/ Card \/ Finished

(* The program runs on; the card may hang. *)
Spec == Init /\ [][Next]_vars /\ WF_vars(Host)

(***************************************************************************)
(* Properties.                                                             *)
(***************************************************************************)

(* Each device a run opens is closed before the next one is opened, and    *)
(* none is left when the run ends, however it ends (the comment before     *)
(* fini: windows that leaked their mappings crashed the machine).          *)
OneClient ==
    /\ Cardinality(open) <= 1
    /\ pc \in Ended => open = {}

Completes == pc = "inspect" /\ pc' \in {"read", "unwind"} /\ err' = "none"

(* A launch that was rejected is never taken for a finished one, unless an *)
(* answer was lost on the way: the trap is read after the semaphore was.   *)
FaultNotMasked == [][Completes /\ ~lost' => sem = Done /\ ~sked]_vars

(* A result that is accepted was stored by the launches of this very        *)
(* window and pass: neither what the failed pass left in the same memory,   *)
(* with the same inputs, nor a semaphore read wrongly passes for it.        *)
OnlyOwnResults ==
    [][pc = "read" /\ pc' \in {"next", "unwind"} /\ err' = "none" =>
           \A c \in 1..Chunks : vram[c].by = Now /\ vram[c].holds # Sentinel]_vars

(* The run ends, whatever the card and the socket do: the polls, the        *)
(* doorbell and the passes are all bounded.                                 *)
RunEnds == <>(pc \in Ended)

(* submit_launch says it polls the semaphore until it reaches its value.    *)
CompletionIsReal == [][Completes => sem = Done]_vars
=============================================================================
