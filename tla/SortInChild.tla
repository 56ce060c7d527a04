----------------------------- MODULE SortInChild -----------------------------
(***************************************************************************)
(* The four programs of IPC_Sockets_assignment in which a parent hands an  *)
(* array to its child, which sorts it and hands it back: by a file, two    *)
(* pipes, a message queue or shared memory.  A program may be run again    *)
(* when its parent has ended; its processes may be killed at any moment.   *)
(***************************************************************************)
EXTENDS Naturals, Sequences, FiniteSets, SequencesExt

CONSTANTS
  MaxRuns,     \* bound on the runs of the program
  Media,       \* which of the programs: "file", "pipe", "queue", "memory"
  Initial,     \* the array
  Absent       \* no such file, queue or shared memory

ASSUME IpcAssumption ==
  /\ MaxRuns \in Nat \ {0} /\ Absent \notin Nat
  /\ Media \subseteq {"file", "pipe", "queue", "memory"} /\ Initial \in Seq(Nat \ {0})
  /\ Len(Initial) >= 2

Runs == 1 .. MaxRuns
ARRAY_LENGTH == Len(Initial)

VARIABLES
  medium,      \* the program that is run
  ppc, cpc,    \* where the parent and the child of each run are
  array,       \* the parent's array
  copy,        \* the child's
  at,          \* shared memory: elements the parent has copied, the pair the child is at
  file,        \* data.txt
  key,         \* the queue or memory that the key stands for
  held,        \* the one that a run works with
  object,      \* its messages, or its elements
  pipe,        \* what is in the two pipes of a run
  ends,        \* the ends of them that each process has open
  late,        \* the child woke before the parent had written
  alone        \* nothing of an earlier run was in the way when a run started

files   == <<file>>
objects == <<key, held, object>>
pipes   == <<pipe, ends>>
history == <<late, alone>>
vars    == <<medium, ppc, cpc, array, copy, at, files, objects, pipes, history>>

Ended == {"off", "done", "failed", "killed"}
Zeros == [i \in 1 .. ARRAY_LENGTH |-> 0]
AllEnds == {"downRead", "downWrite", "upRead", "upWrite"}
NoEnds == [parent |-> {}, child |-> {}]

Init ==
  /\ medium \in Media
  /\ ppc = [r \in Runs |-> "off"] /\ cpc = [r \in Runs |-> "off"]
  /\ array = [r \in Runs |-> Zeros] /\ copy = [r \in Runs |-> Zeros]
  /\ at = [r \in Runs |-> [parent |-> 0, child |-> <<1, 2>>]]
  /\ file = Absent
  /\ key = Absent /\ held = [r \in Runs |-> Absent] /\ object = <<>>
  /\ pipe = [r \in Runs |-> [down |-> <<>>, up |-> <<>>]] /\ ends = [r \in Runs |-> NoEnds]
  /\ late = [r \in Runs |-> FALSE] /\ alone = [r \in Runs |-> FALSE]

-----------------------------------------------------------------------------
(* The pair of indices that is compared after pair x. *)
After(x) == IF x[2] < ARRAY_LENGTH THEN <<x[1], x[2] + 1>> ELSE <<x[1] + 1, x[1] + 2>>

(* Slip: the larger one goes first. *)
ExchangeSlip(a, x) ==
  IF a[x[1]] < a[x[2]] THEN [a EXCEPT ![x[1]] = a[x[2]], ![x[2]] = a[x[1]]] ELSE a
Exchange(a, x) ==
  IF a[x[1]] > a[x[2]] THEN [a EXCEPT ![x[1]] = a[x[2]], ![x[2]] = a[x[1]]] ELSE a

(* The inner loop, and the outer one. *)
Passed(a, i) ==
  LET upTo[k \in i .. ARRAY_LENGTH] == IF k = i THEN a ELSE Exchange(upTo[k - 1], <<i, k>>)
  IN  upTo[ARRAY_LENGTH]

sortIntegerArray(a) ==
  LET upTo[i \in 0 .. ARRAY_LENGTH - 1] == IF i = 0 THEN a ELSE Passed(upTo[i - 1], i)
  IN  upTo[ARRAY_LENGTH - 1]

ParentGoes(r, to) == ppc' = [ppc EXCEPT ![r] = to] /\ UNCHANGED <<medium, cpc, copy, history>>
ChildGoes(r, to)  == cpc' = [cpc EXCEPT ![r] = to] /\ UNCHANGED <<medium, ppc, array, alone>>

(* A process that ends closes its ends of the pipes. *)
Closed(r, who, s) == ends' = [ends EXCEPT ![r][who] = @ \ s]
HasEnd(r, e) == \E who \in {"parent", "child"} : e \in ends[r][who]

-----------------------------------------------------------------------------
(* main, up to the fork. *)
FirstStep == CASE medium \in {"file", "queue"} -> "write"
               [] medium = "pipe" -> "close"
               [] medium = "memory" -> "copy"
ChildsFirst == CASE medium \in {"file", "memory"} -> "sleep"
                 [] medium = "pipe" -> "close"
                 [] medium = "queue" -> "read"

(* The key of a file stands for one queue or memory until that is removed. *)
Open(r) ==
  IF medium \notin {"queue", "memory"} THEN UNCHANGED objects
  ELSE LET k == IF key = Absent THEN r ELSE key
           new == IF medium = "queue" THEN <<>> ELSE Zeros
       IN  /\ key' = k /\ held' = [held EXCEPT ![r] = k]
           /\ object' = IF key = Absent
                        THEN [h \in DOMAIN object \union {r} |-> IF h = r THEN new ELSE object[h]]
                        ELSE object

Start(r) ==
  /\ ppc[r] = "off" /\ \A h \in 1 .. r - 1 : ppc[h] \in Ended \ {"off"}
  /\ Open(r)
  /\ ppc' = [ppc EXCEPT ![r] = FirstStep] /\ cpc' = [cpc EXCEPT ![r] = ChildsFirst]
  /\ array' = [array EXCEPT ![r] = Initial] /\ copy' = [copy EXCEPT ![r] = Initial]
  /\ ends' = IF medium = "pipe"
             THEN [ends EXCEPT ![r] = [parent |-> AllEnds, child |-> AllEnds]] ELSE ends
  /\ alone' = [alone EXCEPT ![r] = /\ \A h \in 1 .. r - 1 : cpc[h] \in Ended
                                   /\ medium = "queue" /\ key # Absent => object[key] = <<>>]
  /\ UNCHANGED <<medium, at, files, pipe, late>>

(* The parent has left its child to it. *)
Wait(r) ==
  /\ ppc[r] = "wait" /\ cpc[r] \in Ended
  /\ ParentGoes(r, "read") /\ UNCHANGED <<array, at, files, objects, pipes>>

-----------------------------------------------------------------------------
(* A file.  fopen empties it, fclose writes the array. *)
ParentTruncates(r) ==
  /\ medium = "file" /\ ppc[r] = "write" /\ file' = <<>>
  /\ ParentGoes(r, "flush") /\ UNCHANGED <<array, at, objects, pipes>>
ParentFlushes(r) ==
  /\ medium = "file" /\ ppc[r] = "flush" /\ file' = array[r]
  /\ ParentGoes(r, "wait") /\ UNCHANGED <<array, at, objects, pipes>>

(* What fread makes of array a: a file too short leaves its end alone. *)
readArrayFromFile(a) == [i \in DOMAIN a |-> IF i \in DOMAIN file THEN file[i] ELSE a[i]]

ParentReadsFile(r) ==
  /\ medium = "file" /\ ppc[r] = "read"
  /\ array' = [array EXCEPT ![r] = readArrayFromFile(@)] /\ ParentGoes(r, "done")
  /\ UNCHANGED <<at, files, objects, pipes>>

ChildReadsFile(r) ==
  /\ medium = "file" /\ cpc[r] = "read"
  /\ \/ file = Absent /\ ChildGoes(r, "failed") /\ UNCHANGED copy
     \/ /\ file # Absent /\ ChildGoes(r, "write")
        /\ copy' = [copy EXCEPT ![r] = sortIntegerArray(readArrayFromFile(@))]
  /\ UNCHANGED <<at, files, objects, pipes, late>>
ChildTruncates(r) ==
  /\ medium = "file" /\ cpc[r] = "write" /\ file' = <<>>
  /\ ChildGoes(r, "flush") /\ UNCHANGED <<copy, at, objects, pipes, late>>
ChildFlushes(r) ==
  /\ medium = "file" /\ cpc[r] = "flush" /\ file' = copy[r]
  /\ ChildGoes(r, "done") /\ UNCHANGED <<copy, at, objects, pipes, late>>

(* sleep(1), in the programs with a file and with shared memory: whatever  *)
(* the parent has done meanwhile.                                          *)
Wake(r) ==
  /\ cpc[r] = "sleep" /\ ChildGoes(r, IF medium = "file" THEN "read" ELSE "sort")
  /\ late' = [late EXCEPT ![r] = ppc[r] \notin {"wait", "read", "done"}]
  /\ UNCHANGED <<copy, at, files, objects, pipes>>

-----------------------------------------------------------------------------
(* Pipes. *)
SlipParentCloses(r) ==                    \* slip: only the end that is not read
  /\ medium = "pipe" /\ ppc[r] = "close" /\ Closed(r, "parent", {"downRead"})
  /\ ParentGoes(r, "write") /\ UNCHANGED <<array, at, files, objects, pipe>>
ParentCloses(r) ==
  /\ medium = "pipe" /\ ppc[r] = "close" /\ Closed(r, "parent", {"downRead", "upWrite"})
  /\ ParentGoes(r, "write") /\ UNCHANGED <<array, at, files, objects, pipe>>
ChildCloses(r) ==
  /\ medium = "pipe" /\ cpc[r] = "close" /\ Closed(r, "child", {"downWrite", "upRead"})
  /\ ChildGoes(r, "read") /\ UNCHANGED <<copy, at, files, objects, pipe, late>>

(* Without a reader, SIGPIPE. *)
ParentWritesPipe(r) ==
  /\ medium = "pipe" /\ ppc[r] = "write"
  /\ \/ /\ HasEnd(r, "downRead") /\ ParentGoes(r, "wait") /\ UNCHANGED ends
        /\ pipe' = [pipe EXCEPT ![r].down = Append(@, array[r])]
     \/ /\ ~HasEnd(r, "downRead") /\ ParentGoes(r, "killed") /\ Closed(r, "parent", AllEnds)
        /\ UNCHANGED pipe
  /\ UNCHANGED <<array, at, files, objects>>

(* An empty pipe makes its reader wait as long as there is a writer. *)
ParentReadsPipe(r) ==
  /\ medium = "pipe" /\ ppc[r] = "read"
  /\ \/ /\ pipe[r].up # <<>> /\ ParentGoes(r, "done")
        /\ array' = [array EXCEPT ![r] = Head(pipe[r].up)]
        /\ pipe' = [pipe EXCEPT ![r].up = Tail(@)]
     \/ /\ pipe[r].up = <<>> /\ ~HasEnd(r, "upWrite") /\ ParentGoes(r, "failed")
        /\ UNCHANGED <<array, pipe>>
  /\ Closed(r, "parent", AllEnds) /\ UNCHANGED <<at, files, objects>>

ChildReadsPipe(r) ==
  /\ medium = "pipe" /\ cpc[r] = "read"
  /\ \/ /\ pipe[r].down # <<>> /\ ChildGoes(r, "write") /\ UNCHANGED ends
        /\ copy' = [copy EXCEPT ![r] = sortIntegerArray(Head(pipe[r].down))]
        /\ pipe' = [pipe EXCEPT ![r].down = Tail(@)]
     \/ /\ pipe[r].down = <<>> /\ ~HasEnd(r, "downWrite") /\ ChildGoes(r, "failed")
        /\ Closed(r, "child", AllEnds) /\ UNCHANGED <<copy, pipe>>
  /\ UNCHANGED <<at, files, objects, late>>
ChildWritesPipe(r) ==
  /\ medium = "pipe" /\ cpc[r] = "write"
  /\ \/ /\ HasEnd(r, "upRead") /\ ChildGoes(r, "done")
        /\ pipe' = [pipe EXCEPT ![r].up = Append(@, copy[r])]
     \/ ~HasEnd(r, "upRead") /\ ChildGoes(r, "killed") /\ UNCHANGED pipe
  /\ Closed(r, "child", AllEnds) /\ UNCHANGED <<copy, at, files, objects, late>>

-----------------------------------------------------------------------------
(* A message queue.  Only parents remove it, one after the other; a child  *)
(* that outlives its parent may find it removed, and fails.                *)
IsThere(r) == held[r] = key
Sent(r, a) == object' = [object EXCEPT ![held[r]] = Append(@, a)] /\ UNCHANGED <<key, held>>
Received(r) == object' = [object EXCEPT ![held[r]] = Tail(@)] /\ UNCHANGED <<key, held>>

ParentSends(r) ==
  /\ medium = "queue" /\ ppc[r] = "write"
  /\ Sent(r, array[r]) /\ ParentGoes(r, "wait")
  /\ UNCHANGED <<array, at, files, pipes>>
ParentReceives(r) ==
  /\ medium = "queue" /\ ppc[r] = "read"
  /\ object[key] # <<>> /\ ParentGoes(r, "remove")
  /\ Received(r) /\ array' = [array EXCEPT ![r] = Head(object[key])]
  /\ UNCHANGED <<at, files, pipes>>

ChildReceives(r) ==
  /\ medium = "queue" /\ cpc[r] = "read"
  /\ \/ /\ IsThere(r) /\ object[key] # <<>> /\ ChildGoes(r, "write")
        /\ Received(r) /\ copy' = [copy EXCEPT ![r] = sortIntegerArray(Head(object[key]))]
     \/ ~IsThere(r) /\ ChildGoes(r, "failed") /\ UNCHANGED <<copy, objects>>
  /\ UNCHANGED <<at, files, pipes, late>>
ChildSends(r) ==
  /\ medium = "queue" /\ cpc[r] = "write"
  /\ \/ IsThere(r) /\ Sent(r, copy[r]) /\ ChildGoes(r, "done")
     \/ ~IsThere(r) /\ ChildGoes(r, "failed") /\ UNCHANGED objects
  /\ UNCHANGED <<copy, at, files, pipes, late>>

-----------------------------------------------------------------------------
(* Shared memory, one element or one comparison at a time. *)
ParentCopies(r) ==
  LET i == at[r].parent + 1 IN
  /\ medium = "memory" /\ ppc[r] = "copy"
  /\ object' = [object EXCEPT ![held[r]][i] = Initial[i]]
  /\ at' = [at EXCEPT ![r].parent = i]
  /\ ParentGoes(r, IF i = ARRAY_LENGTH THEN "wait" ELSE "copy")
  /\ UNCHANGED <<array, files, key, held, pipes>>
ParentShows(r) ==
  /\ medium = "memory" /\ ppc[r] = "read"
  /\ array' = [array EXCEPT ![r] = object[held[r]]]
  /\ ParentGoes(r, "remove") /\ UNCHANGED <<at, files, objects, pipes>>

ChildCompares(r) ==
  LET x == at[r].child IN
  /\ medium = "memory" /\ cpc[r] = "sort"
  /\ object' = [object EXCEPT ![held[r]] = Exchange(@, x)]
  /\ at' = [at EXCEPT ![r].child = After(x)]
  /\ ChildGoes(r, IF x = <<ARRAY_LENGTH - 1, ARRAY_LENGTH>> THEN "done" ELSE "sort")
  /\ UNCHANGED <<copy, files, key, held, pipes, late>>

(* The parent of either program removes what it worked with. *)
ParentRemoves(r) ==
  /\ ppc[r] = "remove" /\ key' = Absent
  /\ ParentGoes(r, "done") /\ UNCHANGED <<array, at, files, held, object, pipes>>

-----------------------------------------------------------------------------
KillParent(r) ==
  /\ ppc[r] \notin Ended /\ ParentGoes(r, "killed") /\ Closed(r, "parent", AllEnds)
  /\ UNCHANGED <<array, at, files, objects, pipe>>
KillChild(r) ==
  /\ cpc[r] \notin Ended /\ ChildGoes(r, "killed") /\ Closed(r, "child", AllEnds)
  /\ UNCHANGED <<copy, at, files, objects, pipe, late>>

Parent(r) == \/ ParentTruncates(r) \/ ParentFlushes(r) \/ ParentReadsFile(r)
             \/ ParentCloses(r) \/ ParentWritesPipe(r) \/ ParentReadsPipe(r)
             \/ ParentSends(r) \/ ParentReceives(r)
             \/ ParentCopies(r) \/ ParentShows(r) \/ ParentRemoves(r) \/ Wait(r)
Child(r) == \/ Wake(r) \/ ChildReadsFile(r) \/ ChildTruncates(r) \/ ChildFlushes(r)
            \/ ChildCloses(r) \/ ChildReadsPipe(r) \/ ChildWritesPipe(r)
            \/ ChildReceives(r) \/ ChildSends(r) \/ ChildCompares(r)

Next == \E r \in Runs : Start(r) \/ Parent(r) \/ Child(r) \/ KillParent(r) \/ KillChild(r)

Spec == Init /\ [][Next]_vars

(* The kernel runs every process. *)
FairSpec == Spec /\ \A r \in Runs : WF_vars(Parent(r)) /\ WF_vars(Child(r))

-----------------------------------------------------------------------------
IsSorting(a) == /\ \A i, k \in DOMAIN a : i <= k => a[i] <= a[k]
                /\ \A v \in ToSet(Initial) \union ToSet(a) :
                     Cardinality({i \in DOMAIN a : a[i] = v})
                       = Cardinality({i \in DOMAIN Initial : Initial[i] = v})

(* What a parent shows as "After Sorting" is the array, sorted.  The pipes *)
(* need nothing for that: whoever is killed, whatever runs before.  The    *)
(* others ignore how their child ended, and so need it to have finished;   *)
(* shared memory and the file need the child not to have woken early, and  *)
(* the queue needs a start without messages or processes of another run    *)
(* (file_ipc.c:62, shared_memory_ipc.c:100, message_queue_ipc.c:124).      *)
Undisturbed(r) == CASE medium = "pipe"  -> TRUE
                    [] medium = "queue" -> alone[r] /\ cpc[r] = "done"
                    [] OTHER            -> alone[r] /\ cpc[r] = "done" /\ ~late[r]

ShownSorted == \A r \in Runs : ppc[r] = "done" /\ Undisturbed(r) => IsSorting(array[r])

(* A parent ends: closing the ends it does not use turns a child's death   *)
(* into an end of file (pipe_ipc.c:56-57, 71-72).  Only a queue whose      *)
(* reply is lost, with a child killed or a run disturbed, makes it wait    *)
(* for ever (message_queue_ipc.c:126).                                     *)
ReplyMayBeLost(r) == medium = "queue" /\ (cpc[r] \in {"killed", "failed"} \/ ~alone[r])

ParentsEnd ==
  \A r \in Runs : ppc[r] \notin Ended ~> ppc[r] \in Ended \/ ReplyMayBeLost(r)
=============================================================================
