------------------------- MODULE ProcessScheduling --------------------------
(***************************************************************************)
(* The scheduler simulator of process_scheduling.c: what it reads, then    *)
(* ticks that consume kill events, advance the waiting queue and run the   *)
(* head of the ready queue.                                                *)
(***************************************************************************)
EXTENDS Integers, Sequences, FiniteSets, SequencesExt

CONSTANTS
  Pids,        \* process identifiers a user may type
  Bursts, IoStarts, IoDurations,   \* the three times of a process
  KillTimes,
  MaxEntries,  \* bound on the number of processes typed
  MaxKills     \* bound on the number of kills typed

Jobs == [burst : Bursts, ioStart : IoStarts, ioDuration : IoDurations]

ASSUME JobAssumption ==
  /\ Bursts \subseteq Nat \ {0} /\ IoStarts \subseteq Nat /\ IoDurations \subseteq Nat
  /\ KillTimes \subseteq Nat /\ MaxEntries \in Nat /\ MaxKills \in Nat

VARIABLES
  pc,          \* where the program is
  left,        \* lines of input still to read
  job,         \* the hash map: what was read of each known process
  status, used, ioLeft, completion,   \* the rest of each PCB
  ready, waiting, terminated,         \* the three queues
  kills,       \* the kill list, sorted by time
  clock,
  cursor       \* position in the waiting queue

pcb    == <<job, status, used, ioLeft, completion>>
queues == <<ready, waiting, terminated>>
vars   == <<pc, left, job, status, used, ioLeft, completion,
            ready, waiting, terminated, kills, clock, cursor>>

Known == DOMAIN job

Init ==
  /\ pc = "processes" /\ left \in 0 .. MaxEntries
  /\ job = <<>> /\ status = <<>> /\ used = <<>> /\ ioLeft = <<>> /\ completion = <<>>
  /\ ready = <<>> /\ waiting = <<>> /\ terminated = <<>> /\ kills = <<>>
  /\ clock = 0 /\ cursor = 1

-----------------------------------------------------------------------------
(* Input. *)

With(f, p, v) == [q \in DOMAIN f \union {p} |-> IF q = p THEN v ELSE f[q]]

(* One line of input; a second process with the same PID is skipped. *)
AddProcess(p, j) ==
  /\ pc = "processes" /\ left > 0 /\ left' = left - 1
  /\ IF p \in Known
     THEN UNCHANGED <<pcb, ready>>
     ELSE /\ job' = With(job, p, j) /\ status' = With(status, p, "READY")
          /\ used' = With(used, p, 0) /\ ioLeft' = With(ioLeft, p, j.ioDuration)
          /\ completion' = With(completion, p, 0)
          /\ ready' = Append(ready, p)
  /\ UNCHANGED <<pc, waiting, terminated, kills, clock, cursor>>

ProcessesRead ==
  /\ pc = "processes" /\ left = 0
  /\ pc' = "kills" /\ left' \in 0 .. MaxKills
  /\ UNCHANGED <<pcb, queues, kills, clock, cursor>>

(* Slip: kills are kept in the order they were typed. *)
PlaceSlip(t, n) == n = Len(kills)

(* The place of a kill: after every earlier one, before those of its time. *)
Place(t, n) == /\ \A i \in 1 .. n : kills[i].time < t
               /\ n < Len(kills) => kills[n + 1].time >= t

AddKill(p, t) ==
  /\ pc = "kills" /\ left > 0 /\ left' = left - 1
  /\ p \in Known
  /\ \E n \in 0 .. Len(kills) :
       /\ Place(t, n)
       /\ kills' = SubSeq(kills, 1, n) \o <<[pid |-> p, time |-> t]>>
                     \o SubSeq(kills, n + 1, Len(kills))
  /\ UNCHANGED <<pc, pcb, queues, clock, cursor>>

(* The last line, or one that is refused: what was read so far is run. *)
InputEnds ==
  /\ pc \in {"processes", "kills"}
  /\ pc' = "tick"
  /\ UNCHANGED <<left, pcb, queues, kills, clock, cursor>>

-----------------------------------------------------------------------------
(* One tick. *)

(* Slip: the loop forgets that processes may be waiting. *)
TickStartsSlip ==
  /\ pc = "tick"
  /\ pc' = CASE ready = <<>> -> "done" [] kills = <<>> -> "waiting" [] OTHER -> "kill"
  /\ cursor' = 1
  /\ UNCHANGED <<left, pcb, queues, kills, clock>>

(* The loop's condition and its break: pending kills alone keep nothing on. *)
TickStarts ==
  /\ pc = "tick"
  /\ pc' = CASE ready = <<>> /\ waiting = <<>> -> "done"
             [] kills = <<>> -> "waiting"
             [] OTHER -> "kill"
  /\ cursor' = 1
  /\ UNCHANGED <<left, pcb, queues, kills, clock>>

(* removeProcessFromQueue: the first node that holds p, if there is one. *)
Removed(q, p) ==
  IF \E i \in DOMAIN q : q[i] = p
  THEN RemoveAt(q, CHOOSE i \in DOMAIN q : q[i] = p /\ \A k \in 1 .. i - 1 : q[k] # p)
  ELSE q

(* Slip: a process on I/O is killed without leaving the waiting queue. *)
KillSlip ==
  /\ pc = "kill" /\ kills # <<>> /\ Head(kills).time = clock
  /\ LET p == Head(kills).pid IN
       /\ status' = [status EXCEPT ![p] = "TERMINATED"]
       /\ ready' = Removed(ready, p)
       /\ terminated' = Append(terminated, p)
       /\ completion' = [completion EXCEPT ![p] = clock]
  /\ kills' = Tail(kills)
  /\ UNCHANGED <<pc, left, job, used, ioLeft, waiting, clock, cursor>>

(* A process is killed wherever it is, even when it is done already. *)
Kill ==
  /\ pc = "kill" /\ kills # <<>> /\ Head(kills).time = clock
  /\ LET p == Head(kills).pid IN
       /\ status' = [status EXCEPT ![p] = "TERMINATED"]
       /\ ready' = Removed(ready, p)
       /\ waiting' = Removed(waiting, p)
       /\ terminated' = Append(terminated, p)
       /\ completion' = [completion EXCEPT ![p] = clock]
  /\ kills' = Tail(kills)
  /\ UNCHANGED <<pc, left, job, used, ioLeft, clock, cursor>>

KillsOver ==
  /\ pc = "kill" /\ kills # <<>> /\ Head(kills).time # clock
  /\ pc' = "waiting"
  /\ UNCHANGED <<left, pcb, queues, kills, clock, cursor>>

(* The loop looks at the head again after the last kill is consumed. *)
KillCrash ==
  /\ pc = "kill" /\ kills = <<>>
  /\ pc' = "crashed"
  /\ UNCHANGED <<left, pcb, queues, kills, clock, cursor>>

(* Slip: the next node is taken after the removal, so one is skipped. *)
WaitSkips ==
  /\ pc = "waiting" /\ cursor <= Len(waiting)
  /\ LET p == waiting[cursor] IN
       /\ ioLeft' = [ioLeft EXCEPT ![p] = @ - 1]
       /\ cursor' = cursor + 1
       /\ IF ioLeft[p] <= 1
          THEN /\ waiting' = RemoveAt(waiting, cursor)
               /\ ready' = Append(ready, p)
               /\ status' = [status EXCEPT ![p] = "READY"]
          ELSE UNCHANGED <<waiting, ready, status>>
  /\ UNCHANGED <<pc, left, job, used, completion, terminated, kills, clock>>

(* Slip: a process back from I/O keeps its state. *)
WaitSlip ==
  /\ pc = "waiting" /\ cursor <= Len(waiting)
  /\ LET p == waiting[cursor] IN
       /\ ioLeft' = [ioLeft EXCEPT ![p] = @ - 1]
       /\ IF ioLeft[p] <= 1
          THEN /\ waiting' = RemoveAt(waiting, cursor) /\ ready' = Append(ready, p)
               /\ UNCHANGED cursor
          ELSE cursor' = cursor + 1 /\ UNCHANGED <<waiting, ready>>
  /\ UNCHANGED <<pc, left, job, used, status, completion, terminated, kills, clock>>

(* One node of the waiting queue. *)
Wait ==
  /\ pc = "waiting" /\ cursor <= Len(waiting)
  /\ LET p == waiting[cursor] IN
       /\ ioLeft' = [ioLeft EXCEPT ![p] = @ - 1]
       /\ IF ioLeft[p] <= 1
          THEN /\ waiting' = RemoveAt(waiting, cursor)
               /\ ready' = Append(ready, p)
               /\ status' = [status EXCEPT ![p] = "READY"]
               /\ UNCHANGED cursor
          ELSE cursor' = cursor + 1 /\ UNCHANGED <<waiting, ready, status>>
  /\ UNCHANGED <<pc, left, job, used, completion, terminated, kills, clock>>

WaitingOver ==
  /\ pc = "waiting" /\ cursor > Len(waiting)
  /\ pc' = "ready"
  /\ UNCHANGED <<left, pcb, queues, kills, clock, cursor>>

(* Slip: the tick that completes a process is not counted. *)
FinishSlip(p) ==
  /\ used[p] + 1 >= job[p].burst
  /\ ready' = Tail(ready) /\ terminated' = Append(terminated, p)
  /\ status' = [status EXCEPT ![p] = "TERMINATED"]
  /\ completion' = [completion EXCEPT ![p] = clock]
  /\ UNCHANGED <<waiting, ioLeft>>

(* The head of the ready queue uses the CPU for this tick. *)
Finish(p) ==
  /\ used[p] + 1 >= job[p].burst
  /\ ready' = Tail(ready) /\ terminated' = Append(terminated, p)
  /\ status' = [status EXCEPT ![p] = "TERMINATED"]
  /\ completion' = [completion EXCEPT ![p] = clock + 1]
  /\ UNCHANGED <<waiting, ioLeft>>

(* Slip: the tick of the move to the waiting queue is not allowed for. *)
StartIoSlip(p) ==
  /\ used[p] + 1 < job[p].burst /\ used[p] + 1 = job[p].ioStart
  /\ ioLeft' = [ioLeft EXCEPT ![p] = job[p].ioDuration]
  /\ status' = [status EXCEPT ![p] = "WAITING"]
  /\ ready' = Tail(ready) /\ waiting' = Append(waiting, p)
  /\ UNCHANGED <<terminated, completion>>

StartIo(p) ==
  /\ used[p] + 1 < job[p].burst /\ used[p] + 1 = job[p].ioStart
  /\ ioLeft' = [ioLeft EXCEPT ![p] = job[p].ioDuration + 1]
  /\ status' = [status EXCEPT ![p] = "WAITING"]
  /\ ready' = Tail(ready) /\ waiting' = Append(waiting, p)
  /\ UNCHANGED <<terminated, completion>>

(* Slip: the process goes to the back of the queue after each tick. *)
ContinueSlip(p) ==
  /\ used[p] + 1 < job[p].burst /\ used[p] + 1 # job[p].ioStart
  /\ status' = [status EXCEPT ![p] = "RUNNING"]
  /\ ready' = Append(Tail(ready), p)
  /\ UNCHANGED <<waiting, terminated, ioLeft, completion>>

Continue(p) ==
  /\ used[p] + 1 < job[p].burst /\ used[p] + 1 # job[p].ioStart
  /\ status' = [status EXCEPT ![p] = "RUNNING"]
  /\ UNCHANGED <<queues, ioLeft, completion>>

Run ==
  /\ pc = "ready" /\ ready # <<>>
  /\ LET p == Head(ready) IN
       /\ used' = [used EXCEPT ![p] = @ + 1]
       /\ Finish(p) \/ StartIo(p) \/ Continue(p)
  /\ clock' = clock + 1 /\ pc' = "tick"
  /\ UNCHANGED <<left, job, kills, cursor>>

Idle ==
  /\ pc = "ready" /\ ready = <<>>
  /\ clock' = clock + 1 /\ pc' = "tick"
  /\ UNCHANGED <<left, pcb, queues, kills, cursor>>

-----------------------------------------------------------------------------
Simulate == \/ TickStarts \/ Kill \/ KillsOver \/ KillCrash \/ Wait \/ WaitingOver
            \/ Run \/ Idle

Next == \/ \E p \in Pids, j \in Jobs : AddProcess(p, j)
        \/ ProcessesRead
        \/ \E p \in Pids, t \in KillTimes : AddKill(p, t)
        \/ InputEnds
        \/ Simulate

Spec == Init /\ [][Next]_vars

(* Nothing stops the simulation once it has its input. *)
FairSpec == Spec /\ WF_vars(Simulate)

-----------------------------------------------------------------------------
(* Every variable has its type. *)
TypeOK ==
  /\ pc \in {"processes", "kills", "tick", "kill", "waiting", "ready", "done", "crashed"}
  /\ left \in Nat /\ clock \in Nat /\ cursor \in Nat \ {0}
  /\ Known \subseteq Pids /\ job \in [Known -> Jobs]
  /\ status \in [Known -> {"READY", "RUNNING", "WAITING", "TERMINATED"}]
  /\ used \in [Known -> Nat] /\ ioLeft \in [Known -> Nat] /\ completion \in [Known -> Nat]
  /\ ready \in Seq(Known) /\ waiting \in Seq(Known) /\ terminated \in Seq(Known)
  /\ kills \in Seq([pid : Known, time : Nat])

(* No process is lost and none is scheduled twice: each is in one place of *)
(* one of the ready and waiting queues, or only in the terminated queue,   *)
(* whatever kills and I/O completions do (lines 193-212, 339-432).         *)
OnePlace ==
  /\ IsInjective(ready) /\ IsInjective(waiting)
  /\ ToSet(ready) \intersect ToSet(waiting) = {}
  /\ ToSet(terminated) = Known \ (ToSet(ready) \union ToSet(waiting))

(* A process's state names its queue, and only the head of the ready queue *)
(* is RUNNING (lines 348-376, 396-397, 422-427).                           *)
StatusTells ==
  \A p \in Known :
    /\ status[p] = "WAITING" <=> p \in ToSet(waiting)
    /\ status[p] = "TERMINATED" <=> p \in ToSet(terminated)
    /\ status[p] = "RUNNING" => ready # <<>> /\ Head(ready) = p

(* No kill is missed: one whose time had passed would never match the      *)
(* clock again and would keep every later one from being looked at         *)
(* (lines 292-324, 412).                                                   *)
KillsAhead ==
  /\ \A i, k \in DOMAIN kills : i < k => kills[i].time <= kills[k].time
  /\ \A i \in DOMAIN kills : /\ kills[i].time >= clock
                             /\ pc \in {"waiting", "ready"} => kills[i].time > clock

(* What printStats derives is sensible: the waiting time of a process that *)
(* ran to its end is not negative, and the I/O done is at most the I/O     *)
(* asked for (lines 450, 468-469). It is -1 for a process killed in the    *)
(* tick after it went waiting.                                             *)
IoDone(p) == job[p].ioDuration - ioLeft[p]
WaitingTime(p) == completion[p] - job[p].burst

StatsSensible ==
  \A p \in ToSet(terminated) :
    /\ IoDone(p) \in -1 .. job[p].ioDuration
    /\ used[p] <= job[p].burst
    /\ used[p] = job[p].burst => WaitingTime(p) >= 0

(* The CPU changes hands only when the process that had it left the ready  *)
(* queue: the schedule is first come first served, without preemption.     *)
NonPreemptive ==
  [][ready # <<>> => \/ Head(ready) \notin ToSet(ready')
                     \/ Head(ready') = Head(ready)]_vars

(* Once the input is read, the simulation ends, and with every process     *)
(* terminated unless the kill list brought it down (lines 488-494).        *)
Ends == pc = "tick" ~> \/ pc = "done" /\ ToSet(terminated) = Known
                       \/ pc = "crashed"

(* Lines 452-462: a process that was killed before its end is reported,    *)
(* so the simulation gets as far as printStats.                            *)
KilledIsReported == pc # "crashed"
=============================================================================
