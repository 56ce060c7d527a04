-------------------------- MODULE SchedulingProofs --------------------------
(***************************************************************************)
(* What holds of ProcessScheduling for any processes, times and kills.     *)
(***************************************************************************)
EXTENDS MCScheduling, QueueLemmas, TLAPS

-----------------------------------------------------------------------------
(* removeProcessFromQueue (lines 193-212). *)
LEMMA RemoveProcess ==
  ASSUME NEW S, NEW q \in Seq(S), NEW p, IsInjective(q)
  PROVE  /\ Removed(q, p) \in Seq(S) /\ IsInjective(Removed(q, p))
         /\ ToSet(Removed(q, p)) = ToSet(q) \ {p}
         /\ q # <<>> /\ Head(q) # p => Removed(q, p) # <<>> /\ Head(Removed(q, p)) = Head(q)
<1>1. CASE \E i \in DOMAIN q : q[i] = p
  <2> DEFINE First(i) == q[i] = p /\ \A k \in 1 .. i - 1 : q[k] # p
             n == CHOOSE i \in DOMAIN q : First(i)
  <2>1. PICK i \in DOMAIN q : q[i] = p
    BY <1>1
  <2>2. DOMAIN q = 1 .. Len(q) /\ Len(q) \in Nat
    BY LenProperties
  <2>3. First(i)
    BY <2>1, <2>2 DEF IsInjective
  <2>4. n \in DOMAIN q /\ First(n)
    BY <2>1, <2>3
  <2>5. Removed(q, p) = RemoveAt(q, n)
    BY <1>1 DEF Removed
  <2> HIDE DEF n
  <2>6. Head(q) # p => n # 1
    BY <2>2, <2>4
  <2>7. /\ RemoveAt(q, n) \in Seq(S) /\ IsInjective(RemoveAt(q, n))
        /\ ToSet(RemoveAt(q, n)) = ToSet(q) \ {p}
        /\ n # 1 => RemoveAt(q, n) # <<>> /\ Head(RemoveAt(q, n)) = Head(q)
    <3>1. n \in DOMAIN q /\ q[n] = p
      BY <2>4
    <3> HIDE DEF First
    <3> QED BY <3>1, RemoveNode
  <2> QED BY <2>5, <2>6, <2>7
<1>2. CASE ~\E i \in DOMAIN q : q[i] = p
  BY <1>2 DEF Removed, ToSet
<1> QED BY <1>1, <1>2

-----------------------------------------------------------------------------
(* The inductive invariant: a waiting process still owes I/O, the clock    *)
(* does not move before the input is read, and no process has used more    *)
(* ticks than have passed or than its burst.                               *)
WaitingOwes == \A p \in ToSet(waiting) : ioLeft[p] >= 1
InputAtZero == pc \in {"processes", "kills"} => clock = 0
Accounting ==
  \A p \in Known :
    /\ used[p] <= clock /\ used[p] <= job[p].burst
    /\ ioLeft[p] <= job[p].ioDuration + 1
    /\ p \notin ToSet(terminated) => used[p] < job[p].burst
    /\ p \in ToSet(terminated) /\ used[p] = job[p].burst => completion[p] >= used[p]

Places == OnePlace /\ StatusTells
IInv == TypeOK /\ Places /\ KillsAhead /\ WaitingOwes /\ InputAtZero /\ Accounting

(* The queues hold known processes, the kill list kills of known ones. *)
LEMMA QueueSets ==
  ASSUME TypeOK
  PROVE  /\ ToSet(ready) \subseteq Known /\ ToSet(waiting) \subseteq Known
         /\ ToSet(terminated) \subseteq Known
         /\ kills # <<>> => /\ Head(kills).pid \in Known /\ Head(kills).time \in Nat
                            /\ Tail(kills) \in Seq([pid : Known, time : Nat])
  <1>1. kills # <<>> => Head(kills) \in [pid : Known, time : Nat]
                        /\ Tail(kills) \in Seq([pid : Known, time : Nat])
    BY HeadTailProperties DEF TypeOK
  <1> QED BY <1>1, SetOfQueue DEF TypeOK

(* What is known of a process's record. *)
LEMMA JobTypes ==
  ASSUME TypeOK, NEW p \in Known
  PROVE  job[p].burst \in Nat \ {0} /\ job[p].ioDuration \in Nat
  BY JobAssumption DEF TypeOK, Jobs

LEMMA InitInv == Init => IInv
<1> SUFFICES ASSUME Init PROVE IInv
  OBVIOUS
<1>1. Known = {} /\ ToSet(<<>>) = {}
  BY DEF Init, Known, ToSet
<1>2. TypeOK
  BY <1>1, JobAssumption DEF Init, TypeOK
<1>3. Places /\ KillsAhead /\ WaitingOwes /\ InputAtZero /\ Accounting
  BY <1>1 DEF Init, Places, OnePlace, StatusTells, KillsAhead, WaitingOwes, InputAtZero,
              Accounting, IsInjective
<1> QED BY <1>2, <1>3 DEF IInv

(* A step that moves no process and no kill. *)
LEMMA ControlInv ==
  ASSUME IInv, UNCHANGED <<pcb, queues, kills>>,
         pc' \in {"processes", "kills", "tick", "kill", "waiting", "ready", "done", "crashed"},
         left' \in Nat, clock' \in Nat, clock' >= clock, cursor' \in Nat \ {0},
         KillsAhead', InputAtZero'
  PROVE  IInv'
<1>1. UNCHANGED <<job, status, used, ioLeft, completion, ready, waiting, terminated, kills>>
      /\ Known' = Known
  BY DEF pcb, queues, Known
<1>2. TypeOK'
  BY <1>1 DEF IInv, TypeOK
<1>3. Places' /\ WaitingOwes'
  BY <1>1 DEF IInv, Places, OnePlace, StatusTells, WaitingOwes, IsInjective
<1>4. Accounting'
  BY <1>1 DEF IInv, Accounting, TypeOK
<1> QED BY <1>2, <1>3, <1>4 DEF IInv

LEMMA AddProcessInv ==
  ASSUME IInv, NEW p \in Pids, NEW j \in Jobs, AddProcess(p, j) PROVE IInv'
<1>1. CASE p \in Known
  <2>1. UNCHANGED <<pcb, queues, kills, clock, cursor, pc>> /\ left' \in Nat
    BY <1>1 DEF AddProcess, queues, IInv, TypeOK
  <2>2. KillsAhead' /\ InputAtZero'
    BY <2>1 DEF IInv, KillsAhead, InputAtZero
  <2> QED BY <2>1, <2>2, ControlInv DEF IInv, TypeOK
<1>2. CASE p \notin Known
  <2>1. /\ job' = With(job, p, j) /\ status' = With(status, p, "READY")
        /\ used' = With(used, p, 0) /\ ioLeft' = With(ioLeft, p, j.ioDuration)
        /\ completion' = With(completion, p, 0) /\ ready' = Append(ready, p)
        /\ UNCHANGED <<pc, waiting, terminated, kills, clock, cursor>> /\ left' \in Nat
    BY <1>2 DEF AddProcess, IInv, TypeOK
  <2>2. Known' = Known \union {p} /\ j.ioDuration \in Nat /\ j.burst \in Nat \ {0}
    BY <2>1, JobAssumption DEF Known, With, Jobs
  <2>3. /\ ready \in Seq(Known') /\ waiting \in Seq(Known') /\ terminated \in Seq(Known')
        /\ kills \in Seq([pid : Known', time : Nat])
    <3>1. Known \subseteq Known' /\ [pid : Known, time : Nat] \subseteq [pid : Known', time : Nat]
      BY <2>2
    <3>2. /\ ready \in Seq(Known) /\ waiting \in Seq(Known) /\ terminated \in Seq(Known)
          /\ kills \in Seq([pid : Known, time : Nat])
      BY DEF IInv, TypeOK
    <3>3. ready \in Seq(Known')
      BY <3>1, <3>2, SeqWider
    <3>4. waiting \in Seq(Known')
      BY <3>1, <3>2, SeqWider
    <3>5. terminated \in Seq(Known')
      BY <3>1, <3>2, SeqWider
    <3>6. kills \in Seq([pid : Known', time : Nat])
      BY <3>1, <3>2, SeqWider
    <3> QED BY <3>3, <3>4, <3>5, <3>6
  <2>4. /\ ready' \in Seq(Known') /\ ToSet(ready') = ToSet(ready) \union {p}
        /\ IsInjective(ready') /\ (ready # <<>> => Head(ready') = Head(ready)) /\ ready' # <<>>
    <3>1. p \notin ToSet(ready)
      BY <1>2, QueueSets DEF IInv
    <3>2. ready' # <<>>
      BY <2>1, <2>2, <2>3, AppendProperties
    <3>3. IsInjective(ready) /\ ready \in Seq(Known') /\ p \in Known'
      BY <2>2, <2>3 DEF IInv, Places, OnePlace
    <3> QED BY <2>1, <3>1, <3>2, <3>3, EnQueue
  <2>5. ASSUME NEW q \in Known
        PROVE  /\ job'[q] = job[q] /\ status'[q] = status[q] /\ used'[q] = used[q]
               /\ ioLeft'[q] = ioLeft[q] /\ completion'[q] = completion[q]
    BY <1>2, <2>1, <2>5 DEF With, IInv, TypeOK
  <2>6. /\ job'[p] = j /\ status'[p] = "READY" /\ used'[p] = 0
        /\ ioLeft'[p] = j.ioDuration /\ completion'[p] = 0
    BY <2>1 DEF With
  <2>7. TypeOK'
    <3>1. job' \in [Known' -> Jobs]
      BY <2>1, <2>2 DEF With, Known, IInv, TypeOK
    <3>2. status' \in [Known' -> {"READY", "RUNNING", "WAITING", "TERMINATED"}]
      BY <2>1, <2>2 DEF With, IInv, TypeOK
    <3>3. used' \in [Known' -> Nat] /\ ioLeft' \in [Known' -> Nat] /\ completion' \in [Known' -> Nat]
      BY <2>1, <2>2 DEF With, IInv, TypeOK
    <3> QED BY <2>1, <2>2, <2>3, <2>4, <3>1, <3>2, <3>3 DEF IInv, TypeOK
  <2>8. OnePlace'
    BY <1>2, <2>1, <2>2, <2>4, QueueSets DEF IInv, Places, OnePlace
  <2>9. StatusTells'
    <3> SUFFICES ASSUME NEW q \in Known'
                 PROVE  /\ status'[q] = "WAITING" <=> q \in ToSet(waiting)
                        /\ status'[q] = "TERMINATED" <=> q \in ToSet(terminated)
                        /\ status'[q] = "RUNNING" => ready' # <<>> /\ Head(ready') = q
      BY <2>1 DEF StatusTells
    <3>1. CASE q = p
      BY <1>2, <2>6, <3>1, QueueSets DEF IInv
    <3>2. CASE q # p
      BY <2>2, <2>4, <2>5, <3>2 DEF IInv, Places, StatusTells
    <3> QED BY <3>1, <3>2
  <2>10. KillsAhead' /\ WaitingOwes' /\ InputAtZero'
    <3>1. \A q \in ToSet(waiting) : ioLeft'[q] = ioLeft[q]
      BY <2>5, QueueSets DEF IInv
    <3> QED BY <2>1, <3>1 DEF IInv, KillsAhead, WaitingOwes, InputAtZero
  <2>11. Accounting'
    <3>1. p \notin ToSet(terminated) /\ clock \in Nat
      BY <1>2, QueueSets DEF IInv, TypeOK
    <3> QED BY <2>1, <2>2, <2>5, <2>6, <3>1 DEF IInv, Accounting
  <2> QED BY <2>7, <2>8, <2>9, <2>10, <2>11 DEF IInv, Places
<1> QED BY <1>1, <1>2

LEMMA ControlSteps ==
  ASSUME IInv, \/ ProcessesRead \/ InputEnds \/ TickStarts \/ KillsOver \/ KillCrash
               \/ WaitingOver \/ Idle
  PROVE  IInv'
<1>0. left \in Nat /\ cursor \in Nat \ {0} /\ MaxKills \in Nat
  BY JobAssumption DEF IInv, TypeOK
<1>1. /\ UNCHANGED <<pcb, queues, kills>> /\ cursor' \in Nat \ {0} /\ left' \in Nat
      /\ pc' \in {"processes", "kills", "tick", "kill", "waiting", "ready", "done", "crashed"}
  <2>1. UNCHANGED <<pcb, queues, kills>>
    BY DEF ProcessesRead, InputEnds, TickStarts, KillsOver, KillCrash, WaitingOver, Idle
  <2>2. left' \in Nat /\ cursor' \in Nat \ {0}
    BY <1>0 DEF ProcessesRead, InputEnds, TickStarts, KillsOver, KillCrash, WaitingOver, Idle
  <2>3. pc' \in {"processes", "kills", "tick", "kill", "waiting", "ready", "done", "crashed"}
    BY DEF ProcessesRead, InputEnds, TickStarts, KillsOver, KillCrash, WaitingOver, Idle
  <2> QED BY <2>1, <2>2, <2>3
<1>2. clock' \in Nat /\ clock' >= clock /\ InputAtZero'
  <2>1. clock \in Nat /\ (pc \in {"processes", "kills"} => clock = 0)
    BY DEF IInv, TypeOK, InputAtZero
  <2>2. clock' \in Nat /\ clock' >= clock
    BY <2>1 DEF ProcessesRead, InputEnds, TickStarts, KillsOver, KillCrash, WaitingOver, Idle
  <2>3. pc' \in {"processes", "kills"} => pc \in {"processes", "kills"} /\ clock' = clock
    BY DEF ProcessesRead, InputEnds, TickStarts, KillsOver, KillCrash, WaitingOver, Idle
  <2> QED BY <2>1, <2>2, <2>3 DEF InputAtZero
<1>3. KillsAhead'
  <2>1. kills' = kills /\ DOMAIN kills = 1 .. Len(kills) /\ Len(kills) \in Nat /\ clock \in Nat
        /\ \A i \in DOMAIN kills : kills[i].time \in Nat
    <3>1. \A i \in 1 .. Len(kills) : kills[i] \in [pid : Known, time : Nat]
      BY ElementOfSeq DEF IInv, TypeOK
    <3> QED BY <1>1, <3>1, LenProperties DEF IInv, TypeOK
  <2>2. CASE ProcessesRead \/ InputEnds \/ WaitingOver
    BY <2>1, <2>2 DEF ProcessesRead, InputEnds, WaitingOver, IInv, KillsAhead
  <2>3. CASE TickStarts
    <3>1. kills = <<>> => DOMAIN kills = {}
      OBVIOUS
    <3> QED BY <2>1, <2>3, <3>1 DEF TickStarts, IInv, KillsAhead
  <2>4. CASE KillsOver
    <3>1. 1 \in DOMAIN kills /\ Head(kills) = kills[1]
      BY <2>1, <2>4, HeadTailProperties, EmptySeq DEF KillsOver, IInv, TypeOK
    <3>2. kills[1].time > clock
      BY <2>1, <2>4, <3>1 DEF KillsOver, IInv, KillsAhead
    <3>3. \A i \in DOMAIN kills : kills[i].time >= kills[1].time
      BY <2>1, <3>1 DEF IInv, KillsAhead
    <3>4. \A i \in DOMAIN kills : kills[i].time > clock
      BY <2>1, <3>1, <3>2, <3>3
    <3> QED BY <2>1, <2>4, <3>4 DEF KillsOver, IInv, KillsAhead
  <2>5. CASE KillCrash
    BY <2>1, <2>5 DEF KillCrash, IInv, KillsAhead
  <2>6. CASE Idle
    BY <2>1, <2>6 DEF Idle, IInv, KillsAhead
  <2> QED BY <2>2, <2>3, <2>4, <2>5, <2>6
<1> QED BY <1>1, <1>2, <1>3, ControlInv

(* The list with one kill more after its first n (lines 308-323). *)
Inserted(q, n, e) == SubSeq(q, 1, n) \o <<e>> \o SubSeq(q, n + 1, Len(q))

LEMMA Insertion ==
  ASSUME NEW S, NEW q \in Seq(S), NEW n \in 0 .. Len(q), NEW e \in S
  PROVE  /\ Inserted(q, n, e) \in Seq(S) /\ Len(Inserted(q, n, e)) = Len(q) + 1
         /\ Inserted(q, n, e)[n + 1] = e
         /\ \A i \in 1 .. n : Inserted(q, n, e)[i] = q[i]
         /\ \A i \in n + 2 .. Len(q) + 1 : Inserted(q, n, e)[i] = q[i - 1]
<1> DEFINE a == SubSeq(q, 1, n)
           b == SubSeq(q, n + 1, Len(q))
           c == a \o <<e>>
           r == c \o b
<1>1. Len(q) \in Nat /\ n \in Nat /\ \A i \in 1 .. Len(q) : q[i] \in S
  BY LenProperties, ElementOfSeq
<1>2. a \in Seq(S) /\ Len(a) = n /\ \A i \in 1 .. n : a[i] = q[i]
  BY <1>1, SubSeqProperties
<1>3. b \in Seq(S) /\ Len(b) = Len(q) - n /\ \A i \in 1 .. Len(q) - n : b[i] = q[n + i]
  BY <1>1, SubSeqProperties
<1> HIDE DEF a, b
<1>4. c \in Seq(S) /\ Len(c) = n + 1 /\ c[n + 1] = e /\ \A i \in 1 .. n : c[i] = q[i]
  <2>1. c = Append(a, e)
    BY <1>2, AppendIsConcat
  <2> QED BY <1>2, <2>1, AppendProperties
<1> HIDE DEF c
<1>5. /\ r \in Seq(S) /\ Len(r) = Len(q) + 1
      /\ \A i \in 1 .. Len(q) + 1 : r[i] = IF i <= n + 1 THEN c[i] ELSE b[i - (n + 1)]
  <2>1. /\ r \in Seq(S) /\ Len(r) = Len(c) + Len(b)
        /\ \A i \in 1 .. Len(c) + Len(b) : r[i] = IF i <= Len(c) THEN c[i] ELSE b[i - Len(c)]
    BY <1>3, <1>4, ConcatProperties
  <2>2. Len(c) + Len(b) = Len(q) + 1
    BY <1>1, <1>3, <1>4
  <2> QED BY <1>4, <2>1, <2>2
<1> HIDE DEF r
<1>6. r[n + 1] = e
  <2>1. n + 1 \in 1 .. Len(q) + 1 /\ n + 1 <= n + 1
    BY <1>1
  <2> QED BY <1>4, <1>5, <2>1
<1>7. ASSUME NEW i \in 1 .. n PROVE r[i] = q[i]
  <2>1. i \in 1 .. Len(q) + 1 /\ i <= n + 1
    BY <1>1
  <2>2. r[i] = c[i]
    BY <1>5, <2>1
  <2> QED BY <1>4, <2>2
<1>8. ASSUME NEW i \in n + 2 .. Len(q) + 1 PROVE r[i] = q[i - 1]
  <2>1. i \in 1 .. Len(q) + 1 /\ ~(i <= n + 1) /\ i - (n + 1) \in 1 .. Len(q) - n
        /\ n + (i - (n + 1)) = i - 1
    BY <1>1
  <2>2. r[i] = b[i - (n + 1)]
    BY <1>5, <2>1
  <2>3. b[i - (n + 1)] = q[n + (i - (n + 1))]
    BY <1>3, <2>1
  <2> QED BY <2>1, <2>2, <2>3
<1>9. r = Inserted(q, n, e)
  BY DEF r, c, a, b, Inserted
<1> QED BY <1>5, <1>6, <1>7, <1>8, <1>9

LEMMA AddKillInv ==
  ASSUME IInv, NEW p \in Pids, NEW t \in KillTimes, AddKill(p, t) PROVE IInv'
<1>0. PICK Record, e : Record = [pid : Known, time : Nat] /\ e = [pid |-> p, time |-> t]
  OBVIOUS
<1>1. PICK n \in 0 .. Len(kills) :
        /\ Place(t, n)
        /\ kills' = Inserted(kills, n, e)
  BY <1>0 DEF AddKill, Inserted
<1>2. /\ pc = "kills" /\ p \in Known /\ t \in Nat /\ clock = 0 /\ left' \in Nat
      /\ UNCHANGED <<pc, pcb, queues, clock, cursor>>
  BY JobAssumption DEF AddKill, IInv, TypeOK, InputAtZero
<1>3. /\ kills \in Seq(Record) /\ e \in Record /\ Len(kills) \in Nat
      /\ DOMAIN kills = 1 .. Len(kills)
      /\ \A i \in 1 .. Len(kills) : kills[i].time \in Nat
  <2>1. kills \in Seq(Record) /\ e \in Record
    BY <1>0, <1>2 DEF IInv, TypeOK
  <2>2. \A i \in 1 .. Len(kills) : kills[i] \in Record
    BY <2>1, ElementOfSeq
  <2> QED BY <1>0, <2>1, <2>2, LenProperties
<1>4. /\ kills' \in Seq(Record) /\ Len(kills') = Len(kills) + 1 /\ kills'[n + 1] = e
      /\ \A i \in 1 .. n : kills'[i] = kills[i]
      /\ \A i \in n + 2 .. Len(kills) + 1 : kills'[i] = kills[i - 1]
  <2>1. kills \in Seq(Record) /\ e \in Record
    BY <1>3
  <2> DEFINE r == Inserted(kills, n, e)
  <2>2. /\ r \in Seq(Record) /\ Len(r) = Len(kills) + 1 /\ r[n + 1] = e
        /\ \A i \in 1 .. n : r[i] = kills[i]
        /\ \A i \in n + 2 .. Len(kills) + 1 : r[i] = kills[i - 1]
    <3>1. r \in Seq(Record) /\ Len(r) = Len(kills) + 1 /\ r[n + 1] = e
      BY <2>1, Insertion
    <3>2. \A i \in 1 .. n : r[i] = kills[i]
      BY <2>1, Insertion
    <3>3. \A i \in n + 2 .. Len(kills) + 1 : r[i] = kills[i - 1]
      BY <2>1, Insertion
    <3> QED BY <3>1, <3>2, <3>3
  <2> HIDE DEF r
  <2>3. kills' = r
    BY <1>1 DEF r
  <2> QED BY <2>2, <2>3
<1>5. DOMAIN kills' = 1 .. Len(kills) + 1
  BY <1>4, LenProperties
<1>6. /\ UNCHANGED <<job, status, used, ioLeft, completion, ready, waiting, terminated>>
      /\ Known' = Known
  BY <1>2 DEF pcb, queues, Known
<1>7. TypeOK'
  BY <1>0, <1>2, <1>4, <1>6 DEF IInv, TypeOK
<1>8. Places' /\ WaitingOwes' /\ InputAtZero' /\ Accounting'
  BY <1>2, <1>6 DEF IInv, Places, OnePlace, StatusTells, WaitingOwes, IsInjective, InputAtZero,
                    Accounting
<1>9. KillsAhead'
  <2>1. \A i \in 1 .. n : kills[i].time < t
    BY <1>1 DEF Place
  <2>2. \A i \in n + 1 .. Len(kills) : kills[i].time >= t
    <3>1. ASSUME NEW i \in n + 1 .. Len(kills) PROVE kills[i].time >= t
      <4>1. n < Len(kills) /\ n + 1 \in 1 .. Len(kills) /\ i \in 1 .. Len(kills)
        BY <1>3
      <4>2. kills[n + 1].time >= t
        BY <1>1, <4>1 DEF Place
      <4>3. kills[n + 1].time <= kills[i].time
        BY <1>3, <4>1 DEF IInv, KillsAhead
      <4> QED BY <1>2, <1>3, <4>1, <4>2, <4>3
    <3> QED BY <3>1
  <2>3. /\ kills'[n + 1].time = t
        /\ \A i \in 1 .. n : kills'[i].time = kills[i].time
        /\ \A i \in n + 2 .. Len(kills) + 1 :
             i - 1 \in n + 1 .. Len(kills) /\ kills'[i].time = kills[i - 1].time
    <3>1. \A i \in n + 2 .. Len(kills) + 1 : i - 1 \in n + 1 .. Len(kills)
      BY <1>3
    <3>2. \A i \in n + 2 .. Len(kills) + 1 : kills'[i].time = kills[i - 1].time
      BY <1>4
    <3>3. kills'[n + 1].time = t /\ \A i \in 1 .. n : kills'[i].time = kills[i].time
      BY <1>0, <1>4
    <3> QED BY <3>1, <3>2, <3>3
  <2>4. \A i, k \in 1 .. Len(kills) : i < k => kills[i].time <= kills[k].time
    BY <1>3 DEF IInv, KillsAhead
  <2> DEFINE old(i) == kills[i].time
             new(i) == kills'[i].time
  <2>5. /\ new(n + 1) = t
        /\ \A i \in 1 .. n : new(i) = old(i) /\ old(i) < t
        /\ \A i \in n + 2 .. Len(kills) + 1 :
             i - 1 \in n + 1 .. Len(kills) /\ new(i) = old(i - 1) /\ old(i - 1) >= t
        /\ \A i, k \in 1 .. Len(kills) : i < k => old(i) <= old(k)
        /\ \A i \in 1 .. Len(kills) : old(i) \in Nat
    BY <1>3, <2>1, <2>2, <2>3, <2>4
  <2> HIDE DEF old, new
  <2>6. ASSUME NEW i \in 1 .. Len(kills) + 1, NEW k \in 1 .. Len(kills) + 1, i < k
        PROVE  new(i) <= new(k)
    <3>1. CASE k <= n
      BY <1>3, <2>5, <2>6, <3>1
    <3>2. CASE k = n + 1
      <4>1. i \in 1 .. n /\ i \in 1 .. Len(kills)
        BY <1>3, <2>6, <3>2
      <4>2. new(i) = old(i) /\ old(i) < t /\ old(i) \in Nat /\ new(k) = t
        BY <2>5, <3>2, <4>1
      <4> QED BY <1>2, <4>2
    <3>3. CASE k > n + 1
      <4>1. k - 1 \in n + 1 .. Len(kills) /\ new(k) = old(k - 1) /\ old(k - 1) >= t
            /\ k - 1 \in 1 .. Len(kills)
        BY <1>3, <2>5, <3>3
      <4>2. CASE i <= n
        <5>1. i \in 1 .. n /\ i \in 1 .. Len(kills) /\ i < k - 1
          BY <1>3, <4>1, <4>2
        <5>2. new(i) = old(i) /\ old(i) <= old(k - 1)
          BY <2>5, <4>1, <5>1
        <5> QED BY <4>1, <5>2
      <4>3. CASE i = n + 1
        BY <1>2, <1>3, <2>5, <4>1, <4>3
      <4>4. CASE i > n + 1
        <5>1. i - 1 \in 1 .. Len(kills) /\ new(i) = old(i - 1) /\ i - 1 < k - 1
          BY <1>3, <2>5, <2>6, <4>4
        <5> QED BY <2>5, <4>1, <5>1
      <4> QED BY <1>3, <4>2, <4>3, <4>4
    <3> QED BY <1>3, <3>1, <3>2, <3>3
  <2>7. ASSUME NEW i \in 1 .. Len(kills) + 1 PROVE new(i) \in Nat
    <3>1. CASE i <= n
      BY <1>3, <2>5, <3>1
    <3>2. CASE i = n + 1
      BY <1>2, <2>5, <3>2
    <3>3. CASE i > n + 1
      <4>1. i - 1 \in 1 .. Len(kills) /\ new(i) = old(i - 1)
        BY <1>3, <2>5, <3>3
      <4> QED BY <2>5, <4>1
    <3> QED BY <1>3, <3>1, <3>2, <3>3
  <2> QED BY <1>2, <1>5, <2>6, <2>7 DEF KillsAhead, new
<1> QED BY <1>7, <1>8, <1>9 DEF IInv

(* Where the processes are before a step, in the form the steps use it. *)
LEMMA PlacesFacts ==
  ASSUME IInv
  PROVE  /\ ready \in Seq(Known) /\ waiting \in Seq(Known) /\ terminated \in Seq(Known)
         /\ IsInjective(ready) /\ IsInjective(waiting)
         /\ ToSet(ready) \subseteq Known /\ ToSet(waiting) \subseteq Known
         /\ ToSet(ready) \intersect ToSet(waiting) = {}
         /\ ToSet(terminated) = Known \ (ToSet(ready) \union ToSet(waiting))
         /\ clock \in Nat
  BY QueueSets DEF IInv, TypeOK, Places, OnePlace

LEMMA KillInv == ASSUME IInv, Kill PROVE IInv'
<1> DEFINE p == Head(kills).pid
<1>1. /\ status' = [status EXCEPT ![p] = "TERMINATED"]
      /\ ready' = Removed(ready, p) /\ waiting' = Removed(waiting, p)
      /\ terminated' = Append(terminated, p) /\ completion' = [completion EXCEPT ![p] = clock]
      /\ kills' = Tail(kills) /\ kills # <<>> /\ pc = "kill"
      /\ UNCHANGED <<pc, left, job, used, ioLeft, clock, cursor>>
  BY DEF Kill
<1>2. p \in Known /\ kills' \in Seq([pid : Known, time : Nat])
  BY <1>1, QueueSets DEF IInv
<1> HIDE DEF p
<1>3. Known' = Known
  BY <1>1 DEF Known
<1>4. /\ ready' \in Seq(Known) /\ IsInjective(ready') /\ ToSet(ready') = ToSet(ready) \ {p}
      /\ ready # <<>> /\ Head(ready) # p => ready' # <<>> /\ Head(ready') = Head(ready)
  BY <1>1, PlacesFacts, RemoveProcess
<1>5. /\ waiting' \in Seq(Known) /\ IsInjective(waiting') /\ ToSet(waiting') = ToSet(waiting) \ {p}
  BY <1>1, PlacesFacts, RemoveProcess
<1>6. terminated' \in Seq(Known) /\ ToSet(terminated') = ToSet(terminated) \union {p}
  BY <1>1, <1>2, PlacesFacts, EnQueue
<1>7. TypeOK'
  <2>1. status' \in [Known -> {"READY", "RUNNING", "WAITING", "TERMINATED"}]
        /\ completion' \in [Known -> Nat]
    BY <1>1 DEF IInv, TypeOK
  <2> QED BY <1>1, <1>2, <1>3, <1>4, <1>5, <1>6, <2>1 DEF IInv, TypeOK
<1>8. OnePlace'
  BY <1>2, <1>3, <1>4, <1>5, <1>6, PlacesFacts DEF OnePlace
<1>9. StatusTells'
  <2> SUFFICES ASSUME NEW q \in Known
               PROVE  /\ status'[q] = "WAITING" <=> q \in ToSet(waiting')
                      /\ status'[q] = "TERMINATED" <=> q \in ToSet(terminated')
                      /\ status'[q] = "RUNNING" => ready' # <<>> /\ Head(ready') = q
    BY <1>3 DEF StatusTells
  <2>1. status'[q] = IF q = p THEN "TERMINATED" ELSE status[q]
    BY <1>1 DEF IInv, TypeOK
  <2>2. CASE q = p
    BY <1>5, <1>6, <2>1, <2>2
  <2>3. CASE q # p
    BY <1>4, <1>5, <1>6, <2>1, <2>3 DEF IInv, Places, StatusTells
  <2> QED BY <2>2, <2>3
<1>10. KillsAhead'
  <2>1. /\ Len(kills') = Len(kills) - 1 /\ Len(kills) \in Nat /\ DOMAIN kills = 1 .. Len(kills)
        /\ DOMAIN kills' = 1 .. Len(kills) - 1
        /\ \A i \in DOMAIN kills' : kills'[i] = kills[i + 1]
    <3>1. kills \in Seq([pid : Known, time : Nat])
      BY DEF IInv, TypeOK
    <3> QED BY <1>1, <1>2, <3>1, HeadTailProperties, LenProperties
  <2>2. \A i \in DOMAIN kills' : i + 1 \in DOMAIN kills
    BY <2>1
  <2> QED BY <1>1, <2>1, <2>2 DEF IInv, KillsAhead
<1>11. WaitingOwes' /\ InputAtZero'
  BY <1>1, <1>5 DEF IInv, WaitingOwes, InputAtZero
<1>12. Accounting'
  <2> SUFFICES ASSUME NEW q \in Known
               PROVE  /\ used[q] <= clock /\ used[q] <= job[q].burst
                      /\ ioLeft[q] <= job[q].ioDuration + 1
                      /\ q \notin ToSet(terminated') => used[q] < job[q].burst
                      /\ q \in ToSet(terminated') /\ used[q] = job[q].burst
                           => completion'[q] >= used[q]
    BY <1>1, <1>3 DEF Accounting
  <2>1. completion'[q] = IF q = p THEN clock ELSE completion[q]
    BY <1>1 DEF IInv, TypeOK
  <2>2. used[q] \in Nat /\ clock \in Nat
    BY DEF IInv, TypeOK
  <2> QED BY <1>6, <2>1, <2>2 DEF IInv, Accounting
<1> QED BY <1>7, <1>8, <1>9, <1>10, <1>11, <1>12 DEF IInv, Places

(* One field of one PCB is assigned. *)
LEMMA Assigned ==
  ASSUME NEW D, NEW R, NEW f \in [D -> R], NEW p \in D, NEW v \in R
  PROVE  /\ [f EXCEPT ![p] = v] \in [D -> R]
         /\ \A q \in D : [f EXCEPT ![p] = v][q] = IF q = p THEN v ELSE f[q]
  OBVIOUS

LEMMA PcbTypes ==
  ASSUME IInv
  PROVE  /\ status \in [Known -> {"READY", "RUNNING", "WAITING", "TERMINATED"}]
         /\ used \in [Known -> Nat] /\ ioLeft \in [Known -> Nat] /\ completion \in [Known -> Nat]
         /\ clock \in Nat
  BY DEF IInv, TypeOK

LEMMA WaitInv == ASSUME IInv, Wait PROVE IInv'
<1> DEFINE p == waiting[cursor]
<1>1. /\ pc = "waiting" /\ cursor <= Len(waiting) /\ ioLeft' = [ioLeft EXCEPT ![p] = @ - 1]
      /\ UNCHANGED <<pc, left, job, used, completion, terminated, kills, clock>>
      /\ \/ /\ ioLeft[p] <= 1 /\ waiting' = RemoveAt(waiting, cursor)
            /\ ready' = Append(ready, p) /\ status' = [status EXCEPT ![p] = "READY"]
            /\ cursor' = cursor
         \/ /\ ~(ioLeft[p] <= 1) /\ cursor' = cursor + 1 /\ UNCHANGED <<waiting, ready, status>>
  BY DEF Wait
<1>2. cursor \in DOMAIN waiting /\ cursor \in Nat \ {0} /\ cursor' \in Nat \ {0}
  <2>1. cursor \in Nat \ {0} /\ waiting \in Seq(Known)
    BY DEF IInv, TypeOK
  <2> QED BY <1>1, <2>1, LenProperties
<1>3. /\ p \in ToSet(waiting) /\ p \in Known /\ p \notin ToSet(ready) /\ p \notin ToSet(terminated)
      /\ ioLeft[p] \in Nat \ {0}
  <2>1. p \in ToSet(waiting)
    BY <1>2 DEF ToSet
  <2>2. p \in Known
    BY <2>1, PlacesFacts
  <2>3. ioLeft[p] \in Nat /\ ioLeft[p] >= 1
    BY <2>1, <2>2 DEF IInv, TypeOK, WaitingOwes
  <2> QED BY <2>1, <2>2, <2>3, PlacesFacts
<1> HIDE DEF p
<1>4. /\ Known' = Known /\ ioLeft' \in [Known -> Nat]
      /\ \A q \in Known : ioLeft'[q] = IF q = p THEN ioLeft[q] - 1 ELSE ioLeft[q]
  <2>1. Known' = Known
    BY <1>1 DEF Known
  <2>2. ioLeft[p] - 1 \in Nat /\ ioLeft \in [Known -> Nat]
    BY <1>3, PcbTypes
  <2>3. ioLeft' = [ioLeft EXCEPT ![p] = ioLeft[p] - 1]
    BY <1>1
  <2> QED BY <1>3, <2>1, <2>2, <2>3, Assigned
<1>5. KillsAhead' /\ InputAtZero'
  BY <1>1 DEF IInv, KillsAhead, InputAtZero
<1>6. Accounting'
  <2>1. \A q \in Known : ioLeft[q] \in Nat /\ job[q].ioDuration \in Nat
    BY JobTypes DEF IInv, TypeOK
  <2> QED BY <1>1, <1>3, <1>4, <2>1 DEF IInv, Accounting
<1>7. CASE ioLeft[p] <= 1
  <2>1. /\ waiting' = RemoveAt(waiting, cursor) /\ ready' = Append(ready, p)
        /\ status' = [status EXCEPT ![p] = "READY"]
    BY <1>1, <1>7
  <2>2. /\ waiting' \in Seq(Known) /\ IsInjective(waiting') /\ ToSet(waiting') = ToSet(waiting) \ {p}
    BY <1>2, <2>1, PlacesFacts, RemoveNode DEF p
  <2>3. /\ ready' \in Seq(Known) /\ IsInjective(ready') /\ ToSet(ready') = ToSet(ready) \union {p}
        /\ ready # <<>> => ready' # <<>> /\ Head(ready') = Head(ready)
    BY <1>3, <2>1, PlacesFacts, EnQueue, AppendProperties
  <2>4. TypeOK'
    <3>1. status' \in [Known -> {"READY", "RUNNING", "WAITING", "TERMINATED"}]
      BY <2>1 DEF IInv, TypeOK
    <3> QED BY <1>1, <1>2, <1>4, <2>2, <2>3, <3>1 DEF IInv, TypeOK
  <2>5. OnePlace'
    BY <1>1, <1>3, <1>4, <2>2, <2>3, PlacesFacts DEF OnePlace
  <2>6. StatusTells'
    <3> SUFFICES ASSUME NEW q \in Known
                 PROVE  /\ status'[q] = "WAITING" <=> q \in ToSet(waiting')
                        /\ status'[q] = "TERMINATED" <=> q \in ToSet(terminated)
                        /\ status'[q] = "RUNNING" => ready' # <<>> /\ Head(ready') = q
      BY <1>1, <1>4 DEF StatusTells
    <3>1. status'[q] = IF q = p THEN "READY" ELSE status[q]
      BY <2>1 DEF IInv, TypeOK
    <3>2. CASE q = p
      BY <1>3, <2>2, <3>1, <3>2
    <3>3. CASE q # p
      BY <2>2, <2>3, <3>1, <3>3 DEF IInv, Places, StatusTells
    <3> QED BY <3>2, <3>3
  <2>7. WaitingOwes'
    BY <1>4, <2>2, PlacesFacts DEF IInv, WaitingOwes
  <2> QED BY <1>5, <1>6, <2>4, <2>5, <2>6, <2>7 DEF IInv, Places
<1>8. CASE ~(ioLeft[p] <= 1)
  <2>1. UNCHANGED <<waiting, ready, status, terminated>>
    BY <1>1, <1>8
  <2>2. TypeOK'
    BY <1>1, <1>2, <1>4, <2>1 DEF IInv, TypeOK
  <2>3. Places'
    BY <1>4, <2>1 DEF IInv, Places, OnePlace, StatusTells, IsInjective
  <2>4. WaitingOwes'
    <3>1. ASSUME NEW q \in ToSet(waiting) PROVE ioLeft'[q] >= 1
      <4>1. q \in Known /\ ioLeft[q] >= 1
        BY <3>1, PlacesFacts DEF IInv, WaitingOwes
      <4> QED BY <1>3, <1>4, <1>8, <4>1
    <3> QED BY <2>1, <3>1 DEF WaitingOwes
  <2> QED BY <1>5, <1>6, <2>2, <2>3, <2>4 DEF IInv
<1> QED BY <1>7, <1>8

LEMMA RunInv == ASSUME IInv, Run PROVE IInv'
<1> DEFINE p == Head(ready)
<1>1. /\ pc = "ready" /\ ready # <<>> /\ used' = [used EXCEPT ![p] = @ + 1]
      /\ Finish(p) \/ StartIo(p) \/ Continue(p)
      /\ clock' = clock + 1 /\ pc' = "tick" /\ UNCHANGED <<left, job, kills, cursor>>
  BY DEF Run
<1>2. /\ p \in Known /\ p \in ToSet(ready) /\ p \notin ToSet(waiting) /\ p \notin ToSet(terminated)
      /\ Tail(ready) \in Seq(Known) /\ IsInjective(Tail(ready))
      /\ ToSet(Tail(ready)) = ToSet(ready) \ {p}
  BY <1>1, PlacesFacts, DeQueue
<1> HIDE DEF p
<1>3. /\ Known' = Known /\ used' \in [Known -> Nat] /\ clock' \in Nat
      /\ \A q \in Known : used'[q] = IF q = p THEN used[q] + 1 ELSE used[q]
  <2>1. Known' = Known
    BY <1>1 DEF Known
  <2>2. used[p] + 1 \in Nat /\ used \in [Known -> Nat] /\ clock + 1 \in Nat
    BY <1>2, PcbTypes
  <2>3. used' = [used EXCEPT ![p] = used[p] + 1]
    BY <1>1
  <2> QED BY <1>1, <1>2, <2>1, <2>2, <2>3, Assigned
<1>4. KillsAhead' /\ InputAtZero'
  <2>1. \A i \in DOMAIN kills : kills[i].time > clock /\ kills[i].time \in Nat /\ clock \in Nat
    <3>1. kills \in Seq([pid : Known, time : Nat])
      BY DEF IInv, TypeOK
    <3>2. \A i \in DOMAIN kills : kills[i] \in [pid : Known, time : Nat]
      BY <3>1, LenProperties, ElementOfSeq
    <3> QED BY <1>1, <3>2 DEF IInv, TypeOK, KillsAhead
  <2>2. \A i \in DOMAIN kills : kills[i].time >= clock + 1
    BY <2>1
  <2> QED BY <1>1, <2>2 DEF IInv, KillsAhead, InputAtZero
<1>5. /\ \A q \in Known : /\ used[q] \in Nat /\ ioLeft[q] \in Nat /\ clock \in Nat
                           /\ job[q].ioDuration \in Nat /\ job[q].burst \in Nat \ {0}
      /\ used[p] < job[p].burst
  BY <1>2, JobTypes DEF IInv, TypeOK, Accounting
<1>6. \A q \in Known : q # p => status[q] # "RUNNING"
  BY <1>1 DEF IInv, Places, StatusTells, p
<1>7. TypeOK' /\ Places'
  <2>1. CASE Finish(p)
    <3>1. /\ ready' = Tail(ready) /\ terminated' = Append(terminated, p)
          /\ status' = [status EXCEPT ![p] = "TERMINATED"]
          /\ completion' = [completion EXCEPT ![p] = clock + 1] /\ UNCHANGED <<waiting, ioLeft>>
      BY <2>1 DEF Finish
    <3>2. terminated' \in Seq(Known) /\ ToSet(terminated') = ToSet(terminated) \union {p}
      BY <1>2, <3>1, PlacesFacts, EnQueue
    <3>3. TypeOK'
      <4>1. status' \in [Known -> {"READY", "RUNNING", "WAITING", "TERMINATED"}]
        BY <1>2, <3>1, PcbTypes, Assigned
      <4>2. completion' \in [Known -> Nat]
        <5>1. clock + 1 \in Nat
          BY PcbTypes
        <5> QED BY <1>2, <3>1, <5>1, PcbTypes, Assigned
      <4> QED BY <1>1, <1>2, <1>3, <3>1, <3>2, <4>1, <4>2 DEF IInv, TypeOK
    <3>4. OnePlace'
      BY <1>2, <1>3, <3>1, <3>2, PlacesFacts DEF OnePlace
    <3>5. \A q \in Known : status'[q] = IF q = p THEN "TERMINATED" ELSE status[q]
      BY <3>1 DEF IInv, TypeOK
    <3>6. StatusTells'
      BY <1>2, <1>3, <1>6, <3>1, <3>2, <3>5 DEF IInv, Places, StatusTells
    <3> QED BY <3>3, <3>4, <3>6 DEF Places
  <2>2. CASE StartIo(p)
    <3>1. /\ ready' = Tail(ready) /\ waiting' = Append(waiting, p)
          /\ status' = [status EXCEPT ![p] = "WAITING"]
          /\ ioLeft' = [ioLeft EXCEPT ![p] = job[p].ioDuration + 1]
          /\ UNCHANGED <<terminated, completion>>
      BY <2>2 DEF StartIo
    <3>2. /\ waiting' \in Seq(Known) /\ IsInjective(waiting')
          /\ ToSet(waiting') = ToSet(waiting) \union {p}
      BY <1>2, <3>1, PlacesFacts, EnQueue
    <3>3. TypeOK'
      <4>1. status' \in [Known -> {"READY", "RUNNING", "WAITING", "TERMINATED"}]
        BY <3>1 DEF IInv, TypeOK
      <4>2. ioLeft' \in [Known -> Nat]
        <5>1. job[p].ioDuration + 1 \in Nat
          BY <1>2, <1>5
        <5> QED BY <1>2, <3>1, <5>1, PcbTypes, Assigned
      <4> QED BY <1>1, <1>2, <1>3, <3>1, <3>2, <4>1, <4>2 DEF IInv, TypeOK
    <3>4. OnePlace'
      BY <1>2, <1>3, <3>1, <3>2, PlacesFacts DEF OnePlace
    <3>5. \A q \in Known : status'[q] = IF q = p THEN "WAITING" ELSE status[q]
      BY <3>1 DEF IInv, TypeOK
    <3>6. StatusTells'
      BY <1>2, <1>3, <1>6, <3>1, <3>2, <3>5 DEF IInv, Places, StatusTells
    <3> QED BY <3>3, <3>4, <3>6 DEF Places
  <2>3. CASE Continue(p)
    <3>1. /\ status' = [status EXCEPT ![p] = "RUNNING"]
          /\ UNCHANGED <<ready, waiting, terminated, ioLeft, completion>>
      BY <2>3 DEF Continue, queues
    <3>2. TypeOK'
      <4>1. status' \in [Known -> {"READY", "RUNNING", "WAITING", "TERMINATED"}]
        BY <3>1 DEF IInv, TypeOK
      <4> QED BY <1>1, <1>3, <3>1, <4>1 DEF IInv, TypeOK
    <3>3. OnePlace'
      BY <1>3, <3>1, PlacesFacts DEF OnePlace
    <3>4. \A q \in Known : status'[q] = IF q = p THEN "RUNNING" ELSE status[q]
      BY <3>1 DEF IInv, TypeOK
    <3>5. Head(ready) = p
      BY DEF p
    <3>6. StatusTells'
      BY <1>1, <1>2, <1>3, <1>6, <3>1, <3>4, <3>5 DEF IInv, Places, StatusTells
    <3> QED BY <3>2, <3>3, <3>6 DEF Places
  <2> QED BY <1>1, <2>1, <2>2, <2>3
<1>8. WaitingOwes'
  <2>1. CASE Finish(p) \/ Continue(p)
    BY <2>1 DEF Finish, Continue, queues, IInv, WaitingOwes
  <2>2. CASE StartIo(p)
    <3>1. ToSet(waiting') = ToSet(waiting) \union {p}
      BY <1>2, <2>2, PlacesFacts, EnQueue DEF StartIo
    <3>2. \A q \in Known : ioLeft'[q] = IF q = p THEN job[p].ioDuration + 1 ELSE ioLeft[q]
      BY <2>2 DEF StartIo, IInv, TypeOK
    <3>3. job[p].ioDuration + 1 >= 1
      BY <1>2, <1>5
    <3> QED BY <1>2, <3>1, <3>2, <3>3, PlacesFacts DEF IInv, WaitingOwes
  <2> QED BY <1>1, <2>1, <2>2
<1>9. Accounting'
  <2> SUFFICES ASSUME NEW q \in Known
               PROVE  /\ used'[q] <= clock + 1 /\ used'[q] <= job[q].burst
                      /\ ioLeft'[q] <= job[q].ioDuration + 1
                      /\ q \notin ToSet(terminated') => used'[q] < job[q].burst
                      /\ q \in ToSet(terminated') /\ used'[q] = job[q].burst
                           => completion'[q] >= used'[q]
    BY <1>1, <1>3 DEF Accounting
  <2>1. /\ used[q] <= clock /\ used[q] <= job[q].burst /\ ioLeft[q] <= job[q].ioDuration + 1
        /\ q \notin ToSet(terminated) => used[q] < job[q].burst
        /\ q \in ToSet(terminated) /\ used[q] = job[q].burst => completion[q] >= used[q]
    BY DEF IInv, Accounting
  <2>2. used'[q] <= clock + 1 /\ used'[q] <= job[q].burst
    BY <1>3, <1>5, <2>1
  <2>3. ioLeft'[q] <= job[q].ioDuration + 1
    <3>1. CASE Finish(p) \/ Continue(p)
      BY <2>1, <3>1 DEF Finish, Continue
    <3>2. CASE StartIo(p)
      <4>1. ioLeft'[q] = IF q = p THEN job[p].ioDuration + 1 ELSE ioLeft[q]
        BY <3>2 DEF StartIo, IInv, TypeOK
      <4> QED BY <1>2, <1>5, <2>1, <4>1
    <3> QED BY <1>1, <3>1, <3>2
  <2>4. /\ q \notin ToSet(terminated') => used'[q] < job[q].burst
        /\ q \in ToSet(terminated') /\ used'[q] = job[q].burst => completion'[q] >= used'[q]
    <3>1. CASE Finish(p)
      <4>1. ToSet(terminated') = ToSet(terminated) \union {p}
        BY <1>2, <3>1, PlacesFacts, EnQueue DEF Finish
      <4>2. completion'[q] = IF q = p THEN clock + 1 ELSE completion[q]
        BY <3>1 DEF Finish, IInv, TypeOK
      <4> QED BY <1>3, <1>5, <2>1, <2>2, <4>1, <4>2
    <3>2. CASE StartIo(p) \/ Continue(p)
      <4>1. terminated' = terminated /\ completion' = completion /\ used[p] + 1 < job[p].burst
        BY <3>2 DEF StartIo, Continue, queues
      <4> QED BY <1>2, <1>3, <1>5, <2>1, <4>1
    <3> QED BY <1>1, <3>1, <3>2
  <2> QED BY <2>2, <2>3, <2>4
<1> QED BY <1>4, <1>7, <1>8, <1>9 DEF IInv

LEMMA NextInv == IInv /\ [Next]_vars => IInv'
<1> SUFFICES ASSUME IInv, [Next]_vars PROVE IInv'
  OBVIOUS
<1>1. CASE \E p \in Pids, j \in Jobs : AddProcess(p, j)
  BY <1>1, AddProcessInv
<1>2. CASE \E p \in Pids, t \in KillTimes : AddKill(p, t)
  BY <1>2, AddKillInv
<1>3. CASE Kill
  BY <1>3, KillInv
<1>4. CASE Wait
  BY <1>4, WaitInv
<1>5. CASE Run
  BY <1>5, RunInv
<1>6. CASE \/ ProcessesRead \/ InputEnds \/ TickStarts \/ KillsOver \/ KillCrash
           \/ WaitingOver \/ Idle
  BY <1>6, ControlSteps
<1>7. CASE UNCHANGED vars
  <2>1. UNCHANGED <<pcb, queues, kills, pc, left, clock, cursor>>
    BY <1>7 DEF vars, pcb, queues
  <2>2. KillsAhead' /\ InputAtZero'
    BY <2>1 DEF IInv, KillsAhead, InputAtZero
  <2>3. pc \in {"processes", "kills", "tick", "kill", "waiting", "ready", "done", "crashed"}
        /\ left \in Nat /\ clock \in Nat /\ cursor \in Nat \ {0}
    BY DEF IInv, TypeOK
  <2>4. clock' >= clock
    BY <2>1, <2>3
  <2> QED BY <2>1, <2>2, <2>3, <2>4, ControlInv
<1> QED BY <1>1, <1>2, <1>3, <1>4, <1>5, <1>6, <1>7 DEF Next, Simulate

-----------------------------------------------------------------------------
(* The invariants, for any PIDs, times, number of processes and kills.     *)

(* The inductive invariant holds in every reachable state.                 *)
THEOREM Invariance == Spec => []IInv
  BY InitInv, NextInv, PTL DEF Spec

(* Every variable has its type: in particular an I/O time that is counted  *)
(* down in the waiting queue never goes below zero (lines 388-401).        *)
THEOREM Typing == Spec => []TypeOK
<1>1. IInv => TypeOK
  BY DEF IInv
<1> QED BY <1>1, Invariance, PTL

(* A process is never lost, nor in two queues, nor twice in one, whichever *)
(* of I/O, completion and kill moves it (lines 193-212, 339-432).          *)
THEOREM OnePlaceAlways == Spec => []OnePlace
<1>1. IInv => OnePlace
  BY DEF IInv, Places
<1> QED BY <1>1, Invariance, PTL

(* The state of a PCB always names the queue that holds it, and only the   *)
(* head of the ready queue is RUNNING (lines 348-376, 396-397, 422-427).   *)
THEOREM StatusTellsAlways == Spec => []StatusTells
<1>1. IInv => StatusTells
  BY DEF IInv, Places
<1> QED BY <1>1, Invariance, PTL

(* The kill list stays sorted and ahead of the clock, so that comparing    *)
(* its head with the clock misses no kill (lines 292-324, 412).            *)
THEOREM KillsAheadAlways == Spec => []KillsAhead
<1>1. IInv => KillsAhead
  BY DEF IInv
<1> QED BY <1>1, Invariance, PTL

(* No process uses more than its burst, the I/O shown is within -1 and     *)
(* what was asked for, and the waiting time of a process that ran to its   *)
(* end is not negative (lines 450-469).                                    *)
THEOREM StatsSensibleAlways == Spec => []StatsSensible
<1>1. IInv => StatsSensible
  <2> SUFFICES ASSUME IInv, NEW p \in ToSet(terminated)
               PROVE  /\ IoDone(p) \in -1 .. job[p].ioDuration
                      /\ used[p] <= job[p].burst
                      /\ used[p] = job[p].burst => WaitingTime(p) >= 0
    BY DEF StatsSensible
  <2>1. p \in Known
    BY QueueSets DEF IInv
  <2>2. /\ job[p].burst \in Nat /\ job[p].ioDuration \in Nat
        /\ used[p] \in Nat /\ ioLeft[p] \in Nat /\ completion[p] \in Nat
    BY <2>1, JobTypes, PcbTypes DEF IInv
  <2>3. /\ used[p] <= job[p].burst /\ ioLeft[p] <= job[p].ioDuration + 1
        /\ used[p] = job[p].burst => completion[p] >= used[p]
    BY <2>1 DEF IInv, Accounting
  <2> QED BY <2>2, <2>3 DEF IoDone, WaitingTime
<1> QED BY <1>1, Invariance, PTL

(* Only a process that leaves the ready queue gives up its head: the       *)
(* schedule has no preemption (lines 339-377, 424).                        *)
THEOREM Unpreempted == Spec => NonPreemptive
<1> DEFINE Keeps == ready # <<>> => \/ Head(ready) \notin ToSet(ready')
                                   \/ Head(ready') = Head(ready)
<1>1. ASSUME IInv, Next PROVE Keeps
  <2> SUFFICES ASSUME ready # <<>>
               PROVE  Head(ready) \notin ToSet(ready') \/ Head(ready') = Head(ready)
    OBVIOUS
  <2>1. ASSUME NEW p \in Pids, NEW j \in Jobs, AddProcess(p, j) PROVE Keeps
    <3>1. CASE p \in Known
      BY <2>1, <3>1 DEF AddProcess
    <3>2. CASE p \notin Known
      <4>1. ready' = Append(ready, p)
        BY <2>1, <3>2 DEF AddProcess
      <4>2. Known \subseteq Known \union {p}
        OBVIOUS
      <4>3. ready \in Seq(Known \union {p}) /\ p \in Known \union {p}
        BY <1>1, <4>2, PlacesFacts, SeqWider
      <4> QED BY <4>1, <4>3, EnQueue
    <3> QED BY <3>1, <3>2
  <2>2. CASE Kill
    <3>1. ready' = Removed(ready, Head(kills).pid)
      BY <2>2 DEF Kill
    <3>2. ToSet(ready') = ToSet(ready) \ {Head(kills).pid}
          /\ (Head(ready) # Head(kills).pid => Head(ready') = Head(ready))
      BY <1>1, <3>1, PlacesFacts, RemoveProcess
    <3> QED BY <3>2
  <2>3. CASE Wait
    <3>1. \/ ready' = ready
          \/ ready' = Append(ready, waiting[cursor]) /\ cursor <= Len(waiting)
      BY <2>3 DEF Wait
    <3>2. cursor \in Nat \ {0} /\ waiting \in Seq(Known) /\ ready \in Seq(Known)
      BY <1>1 DEF IInv, TypeOK
    <3>3. cursor <= Len(waiting) => waiting[cursor] \in Known
      BY <3>2, LenProperties, ElementOfSeq
    <3> QED BY <3>1, <3>2, <3>3, EnQueue
  <2>4. CASE Run
    <3>1. ready' = ready \/ ready' = Tail(ready)
      BY <2>4 DEF Run, Finish, StartIo, Continue, queues
    <3>2. ToSet(Tail(ready)) = ToSet(ready) \ {Head(ready)}
      BY <1>1, PlacesFacts, DeQueue
    <3> QED BY <3>1, <3>2
  <2>5. CASE \/ \E p \in Pids, t \in KillTimes : AddKill(p, t)
             \/ ProcessesRead \/ InputEnds \/ TickStarts \/ KillsOver \/ KillCrash
             \/ WaitingOver \/ Idle
    <3>1. ready' = ready
      BY <2>5 DEF AddKill, ProcessesRead, InputEnds, TickStarts, KillsOver, KillCrash,
                  WaitingOver, Idle, queues
    <3> QED BY <3>1
  <2> QED BY <1>1, <2>1, <2>2, <2>3, <2>4, <2>5 DEF Next, Simulate
<1>2. IInv /\ [Next]_vars => [Keeps]_vars
  BY <1>1
<1> QED BY <1>2, Invariance, PTL DEF Spec, NonPreemptive

-----------------------------------------------------------------------------
(* How long I/O takes, with the tick at which it began in "since".         *)

(* The waiting phase of this tick has been at position i of the queue.     *)
Passed(i) == pc = "ready" \/ (pc = "waiting" /\ i < cursor)

(* The clock and what a waiting process still owes add up to the tick at   *)
(* which it is due, and one more until this tick has counted it down.      *)
Due(p) == since[p] + job[p].ioDuration + 1
IoClock ==
  \A i \in DOMAIN waiting :
    clock + ioLeft[waiting[i]] = Due(waiting[i]) + (IF Passed(i) THEN 0 ELSE 1)

(* The waiting phase begins at the front of the queue.                     *)
FromFront == pc = "kill" => cursor = 1

IoInv == since \in [Known -> Nat] /\ IoClock /\ FromFront

(* The history adds nothing to the steps of the program.                   *)
LEMMA SinceRefines == SinceSpec => Spec
<1>1. SinceInit => Init
  BY DEF SinceInit
<1>2. [SinceNext]_<<vars, since>> => [Next]_vars
  BY DEF SinceNext
<1> QED BY <1>1, <1>2, PTL DEF SinceSpec, Spec

(* Who is known stays known, with the same times.                          *)
LEMMA JobsKept ==
  ASSUME IInv, Next
  PROVE  Known \subseteq Known' /\ \A p \in Known : job'[p] = job[p]
<1>1. ASSUME NEW p \in Pids, NEW j \in Jobs, AddProcess(p, j)
      PROVE  Known \subseteq Known' /\ \A q \in Known : job'[q] = job[q]
  <2>1. CASE p \in Known
    BY <1>1, <2>1 DEF AddProcess, pcb, Known
  <2>2. CASE p \notin Known
    <3>1. job' = With(job, p, j)
      BY <1>1, <2>2 DEF AddProcess
    <3> QED BY <2>2, <3>1 DEF With, Known
  <2> QED BY <2>1, <2>2
<1>2. CASE \/ \E p \in Pids, t \in KillTimes : AddKill(p, t)
           \/ ProcessesRead \/ InputEnds \/ TickStarts \/ Kill \/ KillsOver \/ KillCrash
           \/ Wait \/ WaitingOver \/ Run \/ Idle
  <2>1. job' = job
    BY <1>2 DEF AddKill, ProcessesRead, InputEnds, TickStarts, Kill, KillsOver, KillCrash,
                Wait, WaitingOver, Run, Idle, pcb
  <2> QED BY <2>1 DEF Known
<1> QED BY <1>1, <1>2 DEF Next, Simulate

(* What a step records: the clock for who goes waiting, nothing new for    *)
(* who waits already.                                                      *)
LEMMA Recorded ==
  ASSUME IInv, IoInv, SinceNext
  PROVE  /\ since' \in [Known' -> Nat]
         /\ \A p \in Known : status[p] = "WAITING" => since'[p] = since[p]
         /\ \A p \in Known : status[p] # "WAITING" /\ status'[p] = "WAITING" => since'[p] = clock
<1>1. since' = [p \in Known' |->
                 IF p \in Known
                 THEN IF status[p] # "WAITING" /\ status'[p] = "WAITING" THEN clock ELSE since[p]
                 ELSE 0]
  BY DEF SinceNext, Known
<1>2. Known \subseteq Known' /\ since \in [Known -> Nat] /\ clock \in Nat
  BY JobsKept DEF SinceNext, IoInv, IInv, TypeOK
<1> QED BY <1>1, <1>2

(* Nothing of what IoClock is about has changed for those that wait.       *)
LEMMA StillDue ==
  ASSUME IInv, IoInv, SinceNext, waiting' = waiting, ioLeft' = ioLeft, clock' = clock,
         \A i \in DOMAIN waiting : Passed(i)' <=> Passed(i)
  PROVE  IoClock'
<1> SUFFICES ASSUME NEW i \in DOMAIN waiting, NEW p, p = waiting[i]
             PROVE  clock + ioLeft[p] = since'[p] + job'[p].ioDuration + 1
                                        + (IF Passed(i) THEN 0 ELSE 1)
  BY DEF IoClock, Due
<1>1. p \in ToSet(waiting) /\ p \in Known
  BY PlacesFacts DEF ToSet
<1>2. status[p] = "WAITING"
  BY <1>1 DEF IInv, Places, StatusTells
<1>3. since'[p] = since[p] /\ job'[p] = job[p]
  BY <1>1, <1>2, Recorded, JobsKept DEF SinceNext
<1> QED BY <1>3 DEF IoInv, IoClock, Due
(* Kills come before the waiting phase: nobody has been counted down yet.  *)
LEMMA KillIo == ASSUME IInv, IoInv, SinceNext, Kill PROVE IoClock'
<1> DEFINE p == Head(kills).pid
<1>1. /\ waiting' = Removed(waiting, p) /\ pc = "kill"
      /\ UNCHANGED <<pc, ioLeft, clock, job>>
  BY DEF Kill
<1>2. /\ waiting' \in Seq(Known) /\ ToSet(waiting') \subseteq ToSet(waiting)
  BY <1>1, PlacesFacts, RemoveProcess
<1> SUFFICES ASSUME NEW i \in DOMAIN waiting', NEW a, a = waiting'[i]
             PROVE  clock + ioLeft[a] = since'[a] + job[a].ioDuration + 1 + 1
  BY <1>1 DEF IoClock, Due, Passed
<1>3. a \in ToSet(waiting) /\ a \in Known
  BY <1>2, PlacesFacts DEF ToSet
<1>4. since'[a] = since[a]
  BY <1>3, Recorded DEF IInv, Places, StatusTells
<1>5. PICK k \in DOMAIN waiting : waiting[k] = a
  BY <1>3 DEF ToSet
<1>6. clock + ioLeft[a] = Due(a) + 1
  BY <1>1, <1>5 DEF IoInv, IoClock, Passed
<1> QED BY <1>4, <1>6 DEF Due

(* The waiting phase counts down one process, or moves it when it is due.  *)
LEMMA WaitIo ==
  ASSUME IInv, IoInv, SinceNext, Wait
  PROVE  /\ IoClock'
         /\ \A a \in Known : status[a] = "WAITING" /\ status'[a] = "READY" => clock = Due(a)
<1>0. cursor \in DOMAIN waiting /\ DOMAIN waiting = 1 .. Len(waiting) /\ Len(waiting) \in Nat
      /\ cursor \in Nat \ {0}
  BY PlacesFacts, LenProperties DEF Wait, IInv, TypeOK
<1>1. PICK p : p = waiting[cursor]
  OBVIOUS
<1>2. p \in Known /\ p \in ToSet(waiting) /\ \A i \in DOMAIN waiting : waiting[i] \in Known
  BY <1>0, <1>1, PlacesFacts DEF ToSet
<1>3. /\ \A a \in Known : clock \in Nat /\ ioLeft[a] \in Nat /\ since[a] \in Nat
                          /\ job[a].ioDuration \in Nat
      /\ ioLeft[p] >= 1
  BY <1>2, JobTypes DEF IInv, TypeOK, IoInv, WaitingOwes
<1>4. \A a \in Known : ioLeft'[a] = IF a = p THEN ioLeft[a] - 1 ELSE ioLeft[a]
  <2>1. ioLeft' = [ioLeft EXCEPT ![p] = ioLeft[p] - 1] /\ ioLeft \in [Known -> Nat]
    BY <1>1 DEF Wait, IInv, TypeOK
  <2> QED BY <2>1
<1>5. /\ pc = "waiting" /\ pc' = pc /\ clock' = clock /\ job' = job
      /\ \A i : Passed(i) <=> i < cursor
      /\ \A i : Passed(i)' <=> i < cursor'
  BY DEF Wait, Passed
<1>6. \A i \in DOMAIN waiting : since'[waiting[i]] = since[waiting[i]]
  BY <1>2, Recorded, SetOfQueue, PlacesFacts DEF IInv, Places, StatusTells, ToSet
<1>7. ASSUME NEW i \in DOMAIN waiting, NEW a, a = waiting[i]
      PROVE  clock + ioLeft[a] = Due(a) + (IF i < cursor THEN 0 ELSE 1)
  BY <1>5, <1>7 DEF IoInv, IoClock
<1>8. \A i \in DOMAIN waiting : waiting[i] = p => i = cursor
  BY <1>0, <1>1, PlacesFacts DEF IsInjective
<1>9. CASE ioLeft[p] <= 1
  <2>1. /\ waiting' = RemoveAt(waiting, cursor) /\ cursor' = cursor
        /\ status' = [status EXCEPT ![p] = "READY"]
    BY <1>1, <1>9 DEF Wait
  <2>2. /\ DOMAIN waiting' = 1 .. Len(waiting) - 1
        /\ \A i \in DOMAIN waiting' : waiting'[i] = IF i < cursor THEN waiting[i] ELSE waiting[i + 1]
    BY <1>0, <2>1, PlacesFacts, RemoveNode
  <2>3. ASSUME NEW i \in DOMAIN waiting', NEW a, a = waiting'[i]
        PROVE  clock + ioLeft'[a] = since'[a] + job[a].ioDuration + 1
                                    + (IF i < cursor THEN 0 ELSE 1)
    <3>1. PICK k \in DOMAIN waiting :
            a = waiting[k] /\ k # cursor /\ (k < cursor <=> i < cursor)
      <4>1. CASE i < cursor
        BY <1>0, <2>2, <2>3, <4>1
      <4>2. CASE ~(i < cursor)
        <5>1. i + 1 \in DOMAIN waiting /\ a = waiting[i + 1] /\ i + 1 # cursor /\ ~(i + 1 < cursor)
          BY <1>0, <2>2, <2>3, <4>2
        <5> QED BY <4>2, <5>1
      <4> QED BY <4>1, <4>2
    <3>2. clock + ioLeft[a] = Due(a) + (IF k < cursor THEN 0 ELSE 1)
      BY <1>7, <3>1
    <3>3. a # p /\ a \in Known
      BY <1>2, <1>8, <3>1
    <3>4. ioLeft'[a] = ioLeft[a] /\ since'[a] = since[a]
      BY <1>4, <1>6, <3>1, <3>3
    <3> QED BY <3>1, <3>2, <3>4 DEF Due
  <2>4. IoClock'
    BY <1>5, <2>1, <2>3 DEF IoClock, Due
  <2>5. clock = Due(p)
    <3>1. clock + ioLeft[p] = Due(p) + 1 /\ ioLeft[p] = 1 /\ Due(p) \in Nat
      BY <1>0, <1>1, <1>2, <1>3, <1>7, <1>9 DEF Due
    <3> QED BY <1>2, <1>3, <3>1
  <2>6. \A a \in Known : status[a] = "WAITING" /\ status'[a] = "READY" => a = p
    BY <2>1 DEF IInv, TypeOK
  <2> QED BY <2>4, <2>5, <2>6
<1>10. CASE ~(ioLeft[p] <= 1)
  <2>1. /\ waiting' = waiting /\ cursor' = cursor + 1 /\ status' = status
    BY <1>1, <1>10 DEF Wait
  <2>2. ASSUME NEW i \in DOMAIN waiting, NEW a, a = waiting[i]
        PROVE  clock + ioLeft'[a] = since'[a] + job[a].ioDuration + 1
                                    + (IF i < cursor + 1 THEN 0 ELSE 1)
    <3>1. /\ clock + ioLeft[a] = Due(a) + (IF i < cursor THEN 0 ELSE 1)
          /\ since'[a] = since[a] /\ a \in Known /\ ioLeft[a] \in Nat /\ clock \in Nat
          /\ Due(a) \in Nat
      BY <1>2, <1>3, <1>6, <1>7, <2>2 DEF Due
    <3>2. (i < cursor + 1) <=> (i < cursor \/ i = cursor)
      BY <1>0
    <3>3. i = cursor <=> a = p
      BY <1>1, <1>8, <2>2
    <3>4. ioLeft'[a] = IF i = cursor THEN ioLeft[a] - 1 ELSE ioLeft[a]
      BY <1>4, <3>1, <3>3
    <3>5. CASE i < cursor
      BY <1>0, <3>1, <3>2, <3>4, <3>5 DEF Due
    <3>6. CASE i = cursor
      BY <1>0, <3>1, <3>2, <3>4, <3>6 DEF Due
    <3>7. CASE i > cursor
      BY <1>0, <3>1, <3>2, <3>4, <3>7 DEF Due
    <3> QED BY <1>0, <3>5, <3>6, <3>7
  <2>3. IoClock'
    BY <1>5, <2>1, <2>2 DEF IoClock, Due
  <2> QED BY <2>1, <2>3
<1> QED BY <1>9, <1>10

(* The last phase counts the clock, and may send the head waiting.         *)
LEMMA RunIo == ASSUME IInv, IoInv, SinceNext, Run PROVE IoClock'
<1>1. PICK p : p = Head(ready)
  OBVIOUS
<1>2. /\ pc = "ready" /\ pc' = "tick" /\ clock' = clock + 1 /\ job' = job
      /\ p \in Known /\ p \notin ToSet(waiting)
      /\ Finish(p) \/ StartIo(p) \/ Continue(p)
  BY <1>1, PlacesFacts, DeQueue DEF Run
<1>3. \A i \in DOMAIN waiting : waiting[i] \in Known /\ waiting[i] \in ToSet(waiting)
  BY PlacesFacts DEF ToSet
<1>4. \A a \in Known : clock \in Nat /\ ioLeft[a] \in Nat /\ since[a] \in Nat
                       /\ job[a].ioDuration \in Nat
  BY JobTypes DEF IInv, TypeOK, IoInv
<1>5. ASSUME NEW i \in DOMAIN waiting, NEW a, a = waiting[i], ioLeft'[a] = ioLeft[a]
      PROVE  clock + 1 + ioLeft'[a] = since'[a] + job[a].ioDuration + 1 + 1
  <2>1. a \in Known /\ since'[a] = since[a]
    BY <1>3, <1>5, Recorded DEF IInv, Places, StatusTells
  <2>2. clock + ioLeft[a] = Due(a)
    <3>1. clock + ioLeft[waiting[i]] = Due(waiting[i]) + 0 /\ Due(a) \in Nat
      BY <1>2, <1>4, <1>5, <2>1 DEF IoInv, IoClock, Passed, Due
    <3> QED BY <1>5, <3>1
  <2> QED BY <1>4, <1>5, <2>1, <2>2 DEF Due
<1>6. CASE Finish(p) \/ Continue(p)
  <2>1. waiting' = waiting /\ ioLeft' = ioLeft
    BY <1>6 DEF Finish, Continue, queues
  <2> QED BY <1>2, <1>5, <2>1 DEF IoClock, Due, Passed
<1>7. CASE StartIo(p)
  <2>1. /\ waiting' = Append(waiting, p) /\ status' = [status EXCEPT ![p] = "WAITING"]
        /\ ioLeft' = [ioLeft EXCEPT ![p] = job[p].ioDuration + 1]
    BY <1>7 DEF StartIo
  <2>2. DOMAIN waiting' = 1 .. Len(waiting) + 1 /\ waiting'[Len(waiting) + 1] = p
        /\ DOMAIN waiting = 1 .. Len(waiting) /\ Len(waiting) \in Nat
        /\ \A i \in 1 .. Len(waiting) : waiting'[i] = waiting[i]
    BY <1>2, <2>1, PlacesFacts, AppendProperties, LenProperties
  <2>3. /\ ioLeft'[p] = job[p].ioDuration + 1
        /\ \A a \in Known : a # p => ioLeft'[a] = ioLeft[a]
    <3>1. ioLeft \in [Known -> Nat]
      BY DEF IInv, TypeOK
    <3> QED BY <1>2, <2>1, <3>1
  <2>4. since'[p] = clock
    <3>1. status'[p] = "WAITING"
      BY <1>2, <2>1 DEF IInv, TypeOK
    <3>2. status[p] # "WAITING"
      BY <1>2 DEF IInv, Places, StatusTells
    <3> QED BY <1>2, <3>1, <3>2, Recorded
  <2>5. ASSUME NEW i \in DOMAIN waiting', NEW a, a = waiting'[i]
        PROVE  clock + 1 + ioLeft'[a] = since'[a] + job[a].ioDuration + 1 + 1
    <3>1. CASE i = Len(waiting) + 1
      <4>1. a = p /\ clock \in Nat /\ job[p].ioDuration \in Nat
        BY <1>2, <1>4, <2>2, <2>5, <3>1
      <4> QED BY <2>3, <2>4, <4>1
    <3>2. CASE i # Len(waiting) + 1
      <4>1. i \in DOMAIN waiting /\ a = waiting[i]
        BY <2>2, <2>5, <3>2
      <4>2. a # p /\ a \in Known
        BY <1>2, <1>3, <4>1
      <4>3. ioLeft'[a] = ioLeft[a]
        BY <2>3, <4>2
      <4> QED BY <1>5, <4>1, <4>3
    <3> QED BY <3>1, <3>2
  <2> QED BY <1>2, <2>5 DEF IoClock, Due, Passed
<1> QED BY <1>2, <1>6, <1>7

(* The other steps, the start of a tick and its end without a process.     *)
LEMMA OtherIo ==
  ASSUME IInv, IoInv, SinceNext,
         \/ \E p \in Pids, j \in Jobs : AddProcess(p, j)
         \/ \E p \in Pids, t \in KillTimes : AddKill(p, t)
         \/ ProcessesRead \/ InputEnds \/ TickStarts \/ KillsOver \/ KillCrash
         \/ WaitingOver \/ Idle
  PROVE  IoClock'
<1>0. /\ \A a \in Known : clock \in Nat /\ ioLeft[a] \in Nat /\ since[a] \in Nat
                          /\ job[a].ioDuration \in Nat
      /\ \A i \in DOMAIN waiting : waiting[i] \in Known /\ waiting[i] \in ToSet(waiting)
      /\ DOMAIN waiting = 1 .. Len(waiting) /\ Len(waiting) \in Nat /\ cursor \in Nat
  BY PlacesFacts, LenProperties, JobTypes DEF IInv, TypeOK, IoInv, ToSet
<1>1. CASE \E p \in Pids, j \in Jobs : AddProcess(p, j)
  <2>1. PICK p \in Pids, j \in Jobs : AddProcess(p, j)
    BY <1>1
  <2>2. pc = "processes" /\ UNCHANGED <<pc, waiting, clock, cursor>>
        /\ \A a \in Known : ioLeft'[a] = ioLeft[a]
    BY <2>1 DEF AddProcess, pcb, With, IInv, TypeOK
  <2>3. \A i \in DOMAIN waiting : /\ since'[waiting[i]] = since[waiting[i]]
                                  /\ job'[waiting[i]] = job[waiting[i]]
                                  /\ ioLeft'[waiting[i]] = ioLeft[waiting[i]]
    BY <1>0, <2>2, Recorded, JobsKept DEF SinceNext, IInv, Places, StatusTells
  <2> QED BY <2>2, <2>3 DEF IoInv, IoClock, Due, Passed
<1>2. CASE \/ \E p \in Pids, t \in KillTimes : AddKill(p, t)
           \/ ProcessesRead \/ InputEnds \/ TickStarts \/ KillsOver \/ KillCrash \/ WaitingOver
  <2>1. UNCHANGED <<waiting, ioLeft, clock>>
    BY <1>2 DEF AddKill, ProcessesRead, InputEnds, TickStarts, KillsOver, KillCrash,
                WaitingOver, pcb, queues
  <2>2. \A i \in DOMAIN waiting : Passed(i)' <=> Passed(i)
    <3>1. CASE \/ \E p \in Pids, t \in KillTimes : AddKill(p, t)
               \/ ProcessesRead \/ InputEnds \/ KillCrash
      BY <3>1 DEF AddKill, ProcessesRead, InputEnds, KillCrash, Passed
    <3>2. CASE TickStarts \/ KillsOver
      <4>1. pc \in {"tick", "kill"} /\ pc' # "ready" /\ cursor' = 1
        <5>1. CASE TickStarts
          BY <5>1, Zenon DEF TickStarts
        <5>2. CASE KillsOver
          BY <5>2 DEF KillsOver, IoInv, FromFront
        <5> QED BY <3>2, <5>1, <5>2
      <4> QED BY <1>0, <4>1 DEF Passed
    <3>3. CASE WaitingOver
      BY <1>0, <3>3 DEF WaitingOver, Passed
    <3> QED BY <1>2, <3>1, <3>2, <3>3
  <2> QED BY <2>1, <2>2, StillDue
<1>3. CASE Idle
  <2>1. /\ UNCHANGED <<waiting, ioLeft, job>> /\ clock' = clock + 1 /\ pc = "ready" /\ pc' = "tick"
    BY <1>3 DEF Idle, pcb, queues
  <2>2. ASSUME NEW i \in DOMAIN waiting, NEW a, a = waiting[i]
        PROVE  clock + 1 + ioLeft[a] = since'[a] + job[a].ioDuration + 1 + 1
    <3>1. a \in Known /\ since'[a] = since[a]
      BY <1>0, <2>2, Recorded DEF IInv, Places, StatusTells
    <3>2. clock + ioLeft[a] = since[a] + job[a].ioDuration + 1 + 0
      BY <2>1, <2>2 DEF IoInv, IoClock, Passed, Due
    <3>3. PICK x, y, z : x = ioLeft[a] /\ y = since[a] /\ z = job[a].ioDuration
      OBVIOUS
    <3>4. clock \in Nat /\ x \in Nat /\ y \in Nat /\ z \in Nat /\ clock + x = y + z + 1 + 0
      BY <1>0, <3>1, <3>2, <3>3
    <3>5. clock + 1 + x = y + z + 1 + 1
      BY ONLY <3>4
    <3> QED BY <3>1, <3>3, <3>5, Zenon
  <2> QED BY <2>1, <2>2 DEF IoClock, Due, Passed
<1> QED BY <1>1, <1>2, <1>3

LEMMA IoNext == IInv /\ IoInv /\ [SinceNext]_<<vars, since>> => IoInv'
<1> SUFFICES ASSUME IInv, IoInv, [SinceNext]_<<vars, since>> PROVE IoInv'
  OBVIOUS
<1>1. CASE SinceNext
  <2>1. since' \in [Known' -> Nat]
    BY <1>1, Recorded
  <2>2. IoClock'
    BY <1>1, KillIo, WaitIo, RunIo, OtherIo DEF SinceNext, Next, Simulate
  <2>3. FromFront'
    <3>1. pc' # "kill" \/ cursor' = 1 \/ (pc' = pc /\ cursor' = cursor)
      <4>1. CASE TickStarts
        BY <4>1 DEF TickStarts
      <4>2. CASE Wait
        BY <4>2 DEF Wait
      <4>3. CASE \/ \E p \in Pids, j \in Jobs : AddProcess(p, j)
                 \/ \E p \in Pids, t \in KillTimes : AddKill(p, t)
                 \/ ProcessesRead \/ InputEnds \/ Kill \/ KillsOver \/ KillCrash
                 \/ WaitingOver \/ Run \/ Idle
        BY <4>3 DEF AddProcess, AddKill, ProcessesRead, InputEnds, Kill, KillsOver, KillCrash,
                    WaitingOver, Run, Idle
      <4> QED BY <1>1, <4>1, <4>2, <4>3 DEF SinceNext, Next, Simulate
    <3> QED BY <3>1 DEF IoInv, FromFront
  <2> QED BY <2>1, <2>2, <2>3 DEF IoInv
<1>2. CASE UNCHANGED <<vars, since>>
  BY <1>2 DEF vars, IoInv, IoClock, FromFront, Due, Passed, Known
<1> QED BY <1>1, <1>2

(* In every reachable state the clock and what each process on I/O still   *)
(* owes add up to the tick at which it is due (lines 385-401).             *)
THEOREM IoOnTime == SinceSpec => []IoClock
<1>1. SinceInit => IoInv
  BY DEF SinceInit, Init, IoInv, IoClock, FromFront, Known
<1>2. IoInv => IoClock
  BY DEF IoInv
<1>3. SinceSpec => []IInv
  BY SinceRefines, Invariance, PTL
<1> QED BY <1>1, <1>2, <1>3, IoNext, PTL DEF SinceSpec

(* I/O takes the ticks asked for and the one of the move, whatever kills,  *)
(* completions and other I/O do to the queue meanwhile (lines 370-371,     *)
(* 385-401).                                                               *)
THEOREM IoExactAlways == SinceSpec => IoExact
<1> DEFINE Exact == \A p \in Known : status[p] = "WAITING" /\ status'[p] = "READY"
                                       => clock = since[p] + job[p].ioDuration + 1
<1>1. ASSUME IInv, IoInv, SinceNext PROVE Exact
  <2>1. CASE Wait
    BY <1>1, <2>1, WaitIo DEF Due
  <2>2. CASE \E p \in Pids, j \in Jobs : AddProcess(p, j)
    BY <1>1, <2>2 DEF AddProcess, pcb, With, IInv, TypeOK
  <2>3. CASE Kill
    BY <1>1, <2>3 DEF Kill, IInv, TypeOK
  <2>4. CASE Run
    <3>1. PICK p : p = Head(ready)
      OBVIOUS
    <3>2. \/ status' = [status EXCEPT ![p] = "TERMINATED"]
          \/ status' = [status EXCEPT ![p] = "WAITING"]
          \/ status' = [status EXCEPT ![p] = "RUNNING"]
      BY <2>4, <3>1 DEF Run, Finish, StartIo, Continue
    <3> QED BY <1>1, <3>2 DEF IInv, TypeOK
  <2>5. CASE \/ \E p \in Pids, t \in KillTimes : AddKill(p, t)
             \/ ProcessesRead \/ InputEnds \/ TickStarts \/ KillsOver \/ KillCrash
             \/ WaitingOver \/ Idle
    <3>1. status' = status
      BY <2>5 DEF AddKill, ProcessesRead, InputEnds, TickStarts, KillsOver, KillCrash,
                  WaitingOver, Idle, pcb
    <3> QED BY <3>1
  <2> QED BY <1>1, <2>1, <2>2, <2>3, <2>4, <2>5 DEF SinceNext, Next, Simulate
<1>2. IInv /\ IoInv /\ [SinceNext]_<<vars, since>> => [Exact]_<<vars, since>>
  BY <1>1
<1>3. SinceInit => IoInv
  BY DEF SinceInit, Init, IoInv, IoClock, FromFront, Known
<1>4. SinceSpec => []IInv
  BY SinceRefines, Invariance, PTL
<1> QED BY <1>2, <1>3, <1>4, IoNext, PTL DEF SinceSpec, IoExact
=============================================================================
