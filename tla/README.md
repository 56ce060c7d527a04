# Models and proofs for the Kalpvriksha assignments

The repository is a collection of independent C programs: no program calls
another, there is no build file and no test, and `readme.md` only names the
collection. What the code promises is therefore read from the code itself, its
comments and the messages it prints. Each program is a component here; the ones
with state, concurrency or failures come first.

## Inventory

| component | source | state | hard to get right | status |
|---|---|---|---|---|
| ATM server and client | `IPC_Sockets_assignment/socketIPCMechanism` | connections, one thread each, the account file, its mutex | interleaved threads, hangups between two writes, kills between truncation and flush, int overflow | modelled, proved |
| Process scheduler | `process_scheduling.c` | PCBs in a hash map, ready, waiting and terminated queues, sorted kill list, clock | removal while a queue is walked, off-by-one ticks, kills of processes in any state | modelled, proved |
| LRU cache | `LRU_cache.c` | linked queue in the heap, chained hash map | pointer surgery, stale hash entries, mallocs that fail half way | modelled, proved |
| Virtual file system | `virtual_file_system.c`, `virtual file system/` | tree of FileNodes, free list, disk blocks, current directory | block ownership, lists that empty and refill, removal of the current directory, cut names | modelled, proved |
| User file | `CRUD_operations.c` | `users.dat`, reloaded for each command | only 1000 records loaded, a rewrite that is not atomic and may be cut within a record | modelled, proved |
| File, pipe, message queue, shared memory | `IPC_Sockets_assignment/*` | two processes and a medium | sleeps that stand for synchronisation, pipe ends left open, a queue that outlives a run | modelled, proved |
| Inventory | `inventory_management_system.c` | array of products, size and capacity | growth, deletion by moving the last product, IDs reported as invalid and used | modelled, proved |
| ICC analyzer | `ICC Player Performance Analyzer` | teams, three ranked lists each, counts, averages; a heap | counts updated twice, an array sorted by a display, memory used after it is freed | modelled, proved |
| Calculator | `calculator.c` | two stacks | malformed lines, precedence | modelled, proved |
| Sonar image, spiral matrix | `sonar_image_processing.c`, `spiral_matrix.c` | a matrix changed in place | old values needed after they are overwritten, edges of loops | modelled, proved |
| Student grades | `student_performance_analyzer.c` | none | nothing over several steps | not modelled |

`PROJECT.json` lists the operations' lines (`map`), and every hazard at the line
where it bites with the properties that would catch it.

What makes each modelled component correct, and where it is stated:

* ATM: the account is changed by one request at a time and only a kill can lose
  it (`ImplementsAccount`); a thread serves what its client typed
  (`ServedAsAsked`); nobody is stuck or brings the server down (`NoMutualWait`,
  `NoSigpipe`, `SomeoneServed`).
* Scheduler: no process is lost or in two queues (`OnePlace`, `StatusTells`), no
  kill is missed (`KillsAhead`), ticks add up (`IoExact`, `StatsSensible`), the
  schedule is first come first served (`NonPreemptive`), and it ends (`Ends`).
* LRU cache: it is a recency-ordered map (`KeepsPromise`), on a well-formed queue
  and index (`WellLinked`, `Indexed`), also when memory runs out half way
  (`NoDangling`, `NeverStale`).
* File system: files hold what was written (`KeepsContents`), blocks have one
  owner and none is lost (`NoSharing`, `NoLeak`), directories are a tree
  (`TreeShaped`), and the pointers implement all this (`ImplementsVfs`,
  `WellLinked`, `FreesAll`).
* User file: as long as the file has no more users than a command loads, a command
  changes the whole of it as it says, and only a kill during a rewrite loses other
  users, all from some place on (`KeepsTable`). In a longer file the same holds of
  the users that are loaded (`KeepsLoaded`), but not of the rest: the next update or
  delete loses them without any kill, against the comment at line 175
  (`RemainingKept`, violated). An id has one user among those that are loaded
  (`OneUserPerId`).
* The four two-process programs: what the parent shows as sorted is the array,
  sorted, under conditions that differ from medium to medium (`ShownSorted`), and
  the parent ends (`ParentsEnd`).
* Inventory: the array is a catalogue of distinct products
  (`ImplementsCatalogue`, which rests on `UniqueIDs`) that is never written past
  its end (`StockTypeOK`).
* ICC analyzer: the heap merges the ranked lists of all teams, whatever was
  inserted and however the teams were sorted before (`MergedInOrder`).
* Calculator: an expression gets its meaning and a line with too few numbers gets
  no result (`Evaluates`, of the two parts `GetsMeaning` and `RefusesMissing`).
  Matrices: `Smooths` and `Spirals` compare what the loops leave with a definition
  of each place, for the image after its rotation.

## Modules

| module | models | relation |
|---|---|---|
| `AtmAccount` | what the ATM promises of the account | abstract |
| `AtmServer` | clients, accept loop, threads, file, mutex, kills | implements `AtmAccount` |
| `MCAtm` | constants for TLC | extends `AtmServer` |
| `AtmProofs` | theorems about `AtmServer` | extends it |
| `ProcessScheduling` | input, kill list, queues, tick loop | |
| `MCScheduling` | history variable `since` and `IoExact` | extends it |
| `QueueLemmas` | lemmas on sequences without repetitions, loops and chains of pointers | used by the modules of proofs |
| `SchedulingProofs` | theorems about `ProcessScheduling` and `since` | extends `MCScheduling` |
| `RecencyCache` | what the cache promises | abstract |
| `LRU_cache` | queue nodes, hash map, commands | implements `RecencyCache` |
| `MCLru`, `MCLruPuts` | constants; history variable `latest` and `NeverStale` | extend `LRU_cache` |
| `LRUProofs` | theorems about `LRU_cache` and `latest` | extends `MCLruPuts` |
| `FileStore` | content of the files, free room | abstract |
| `VirtualFileSystem` | commands of `virtual_file_system.c` on sequences | implements `FileStore` |
| `FreeBlockList`, `SiblingList` | `free_block.c` and `file_node.c` as operators on pointer structures, `freeFileNode` as a recursive function | used by `VfsHeap` |
| `VfsHeap` | commands of the directory `virtual file system` on pointers | implements `VirtualFileSystem` |
| `MCVfs`, `MCVfsHeap` | constants for TLC | extend these |
| `VfsProofs` | theorems about `VirtualFileSystem` | extends it |
| `VfsHeapProofs` | theorems about `VfsHeap` and its lists | extends it |
| `UserTable` | what the program promises of its users | abstract |
| `UserFile` | `users.dat`, the commands, the writes of a rewrite, kills | implements `UserTable`, with the whole file as the table while it is not too long, and with what is loaded as the table always |
| `MCUserFile` | constants for TLC | extends it |
| `SortInChild` | parent and child of the four two-process programs, over several runs | |
| `MCIpc` | constants for TLC | extends it |
| `IpcProofs` | theorems about `SortInChild` and its sort | extends it |
| `Catalogue` | what the inventory promises | abstract |
| `Inventory` | the array of products | implements `Catalogue` |
| `Teams` | the ICC analyzer, its search, lists, averages and heap | |
| `Calculator`, `Sonar`, `Spiral` | one program each, with the reference definition it is compared with | |
| `MCPrograms` | picks one of the last five programs and runs it | extends `Inventory`, `Teams`, `Calculator`, `Sonar` and `Spiral` |
| `ProgramProofs` | theorems about `UserFile`, `Inventory`, `Teams`, `Calculator`, `Sonar` and `Spiral` | extends them |

A definition whose name begins or ends with `Slip` (or is `WaitSkips`) is not part
of a specification: it is the definition after it with a plausible mistake, kept
to see that a property notices.

### ATM server

A client slot stands for one client process at a time and for the thread that
serves its connection; the slot is used again after the client is gone and its
thread has closed. One action is one system call or one step between two of them
(`Choose`, `EnterAmount`, `Receive` in the client; `ReadChoice`, `ReadAmount`,
`Lock`, `Fetch`, `Truncate`, `Store`, `Unlock`, `Respond` in the thread), because
kills and other threads come between these. `read` and `write` results are
ignored by the code; so in the model a hangup leaves the local where the answer
should be as it was, and an uninitialised local may hold any int. A `write` to a
client that is gone works once and then raises SIGPIPE. `fopen("w")` empties the
file at `Truncate`, the number arrives at `Store`; `KillServer` may fall between.
Ints wrap at `IntMax`.

### Process scheduler

`AddProcess` and `AddKill` are iterations of the input loops, with their early
returns; `TickStarts`, `Kill`, `KillsOver`, `KillCrash`, `Wait`, `WaitingOver`,
`Run` and `Idle` are the iterations of the simulation and of its inner loops.
`cursor` is the pointer that walks the waiting queue while nodes are removed.
The hash map is the function `job` with the other PCB fields: `insertInHash`
refuses a pid that is there, and so does the model.

### LRU cache

`node` maps the addresses that are allocated to queue nodes; `malloc` picks any
other address, so a freed address is used again. Commands read the pointers the
code reads; `mode` becomes "undefined" where C defines nothing (a division by a
capacity of 0, a negative bucket, a hash map that was never allocated).

### Virtual file system

`VirtualFileSystem` is the monolithic program on sequences: children of a
directory, blocks of a file, the free list. A command that the code refuses
changes nothing and is a stutter. A text is a number of blocks (`k`), its i-th
piece a value; `Cut` is the 49-character `strncpy`. A name of 50 or more
characters has its last stored byte uninitialised: the model reads it as zero,
one of the things it can be. `VfsHeap` is the modular program, with FileNodes and
FreeBlocks in the heap; a multi-block write or delete folds the list operation
over the blocks, as the loop does.

### User file

Every command loads the file first, so the state is the file and, during a
rewrite, the array that is being written. `records` is the file as `fread` sees
it: whole records from its start; `rest` is what follows and is too short for one.
A record has 1008 bytes and a `FILE` a buffer of 4096, so a rewrite of more than
four records goes to the file in two writes, whole blocks first and what is left
at `fclose`, and the first of them ends within a record, at least 16 bytes into it
and so after its id, or, when 63 buffers have taken 256 records, with one. `BLOCK`
is the number of records that the buffer holds. After a kill between the two, the
next record that is appended may follow a piece of another, and is read from both
(`Mixed`), with the id of the piece or, one append later, with the bytes of a name
for an id, which may be any.
An append is one write. `UserTable` knows no limit: a table there loses a user by a
delete of that user or by a kill while it is saved. It is instantiated twice, as
`Table` with the users of the file and as `LoadedTable` with those that are loaded;
the first is promised only for steps from a file of at most `SIZE_LIMIT` users.

### The four two-process programs

They share their skeleton (fork, the parent hands over, waits, takes back), so one
module has the actions of all, and `medium` says which program runs. A run is one
execution; a run may start when the parent of the one before has ended, while the
child of that may still be there. One action is one operation on the medium: the
truncation by `fopen`, the write at `fclose`, a `read` or `write` of a pipe, a
message, one element or one comparison in shared memory. Only there can a run see a
half-sorted array, so only there is the sort one pair at a time (`Exchange`,
`After`); elsewhere it is `sortIntegerArray`, the two loops as one function. The
array has at least two elements (the code's has 5). `ends` are the open ends
of the pipes of each process, from which end of file and SIGPIPE follow; `key`,
`held` and `object` are the queue or memory that the key stands for, the one a run
has an identifier of, and what they hold. `late` and `alone` are history
variables.

### Inventory, ICC analyzer, calculator, matrices

`Inventory` (its `StockInit`, `StockNext` and `StockTypeOK` are named so that a module
can extend it beside another) has the array with indices from 0 and its slots
beyond `listSize`, which hold what `calloc` or a deletion left or, after `realloc`,
junk. A capacity
that is reported to be out of range is used all the same, as in the code, and an
ID of 0 that is reported as invalid is looked for all the same.

`Teams` has a team's three lists as sequences. An average is a fraction, since the
code's floats would only add their rounding. `Recalculated` uses the counts as the
code does, the new player twice in one of them. The heap is a sequence with the
loops of `max_heap.c` as recursive functions. `UsesFreed` is the menu after its
choice "Exit".

`Calculator` has one action for each thing the loop does next; a number is read in
one action. Its properties compare with `Meaning`, which knows no stack: of every
place of the line it says what the product and the sum that are read up to there
come to, from the operator before it. Ints are unbounded. `Sonar` and `Spiral` go
through their loops one element at a time.

## Runs

| run | instance | shows |
|---|---|---|
| `atm_account` | 2 clients, 2-bit ints, amount 1, file 0 or absent | type, mutual exclusion, framing, no standoff, no SIGPIPE, refinement of `AtmAccount`; with fairness, a waiting thread leads to an answer |
| `scheduler_safety` | 3 pids, 3 entries, 2 kills, small times | all safety and action properties, I/O exact; with fairness, the simulation ends |
| `scheduler_killed_reported` | 2 pids | finding, below |
| `lru_keeps_promise` | keys and capacities -1 to 4, 3 addresses, 2 values | queue, index and refinement of `RecencyCache` |
| `lru_out_of_memory` | keys -1 to 3, capacities 0, 1, 3, any malloc fails | no dangling pointer and no stale value, whichever mallocs fail |
| `vfs_keeps_contents` | 3 nodes, 3 blocks, 3 names, 2 texts, writes of 1 or 2 blocks | tree, ownership of blocks, refinement of `FileStore` |
| `vfs_heap` | the same on pointers, cut names, failing mallocs | the two linked structures, exit, refinement of `VirtualFileSystem` |
| `user_file` | 4 ids, 2 data, files of 5 records, 3 of them loaded, blocks of 1 | one user per id, refinement of `UserTable` by the whole file up to the limit, and by the users that are loaded beyond it |
| `user_file_tail` | the same | finding, below |
| `sort_in_child` | 2 runs of each program, 3 elements | what is shown is sorted; parents end |
| `programs` | inventory of 4 places and 4 IDs; 4 teams of at most 2 counted players, 4 player IDs; lines of up to 5 characters; images to 3 by 3, spirals to 6 by 6 | refinement of `Catalogue`, merging, evaluation, smoothing of the turned image, spiral |
| `teams_total_players` | the same, ICC analyzer only | finding, below |

Why these bounds are enough to be interesting. Two ATM clients give every pair of
thread steps around the mutex, a third thread adds no new pair, and with two-bit
ints a deposit overflows (it wraps, in the code and in `AtmAccount` alike). Three processes let one be removed from the
waiting queue between two others, and two kills let the loop go on from one to
the next and run off the end. A queue of three nodes has a front, a middle and a
rear, a capacity of 1 has them in one, and three addresses with a capacity of 4
run out of memory before the cache is full; keys -1 to 4 give collisions in one
bucket. Three nodes besides the root make three siblings as well as a path of
depth three; three blocks let the free list empty, refill in another order and
have a middle.

Five records with a limit of three make the tail that is not loaded longer than
what a delete frees, and blocks of one record let a rewrite of three be cut after
the first or the second, so that two appends can run into pieces. A second run of
a two-process program meets what the first left: a message, a child, an old file.
An inventory that starts with at most three places fills, doubles to four, empties
and starts from none. Four teams make the heap three levels deep, with nodes that
have one and two children; two players loaded and two added reach the limit of a
team by the double count as well as by players. Lines of five characters have
three numbers and two operators, all pairs of precedences, and a missing operand on
either side; 255 beside 3 makes sums that need more than a byte. Spirals of odd
and even size end in a cell of their own and in a row.

`CHECK_DEADLOCK FALSE` is set where the program ends (exit, end of simulation,
crash); the ATM and the user file never stop, and their deadlock check is on.
Symmetry is used only in runs without liveness, on addresses, clients, players,
ids and values that the specifications never compare otherwise than for equality.

### Fairness

`AtmServer!FairSpec` has weak fairness of the accept loop, of each thread and of
a client's `read`: the kernel schedules runnable threads and delivers what was
sent. It asks nothing of users (`Choose`, `EnterAmount`), and weak fairness of
`Lock` promises no turn, as a pthread mutex does not: so `SomeoneServed` says
that some thread is served, not which. `ProcessScheduling!FairSpec` says the
simulation, a sequential loop, keeps running once it has its input.
`SortInChild!FairSpec` has weak fairness of each process: the kernel runs what can
run, and nothing obliges anyone to start another run or to kill.

### Findings

* The kill loop of the scheduler reads `(*killHead)->killTime` after the last
  kill is consumed: any run in which every kill comes due dies there, before the
  statistics are printed (`process_scheduling.c:412`).
* `deleteUser` and `updateUser` write back the users that were loaded, so those
  after the first 1000 are lost, although the code speaks of "remaining users"
  (`CRUD_operations.c:23`, `:175`).
* `addPlayer` counts a player that `insertPlayerIntoTeam` has counted, so the
  "Total players" of a team and its average are off
  (`ICC_Player_Performance_Analyzer.c:144`, `:192`).

Seen while modelling, part of the models, and without a run of their own, because
nothing in the repository says otherwise or because it takes one step:

* A kill of a process that has finished overwrites its completion time and
  queues it again as terminated (`process_scheduling.c:429`).
* A name of 50 characters or more is stored cut and looked for whole, so it can
  be created twice (`virtual_file_system.c:194`); `SiblingsDistinct` is
  proved for whole names.
* In the monolithic file system `cd` dereferences NULL after reporting that there
  is no such directory (`virtual_file_system.c:544`); the modular one returns.
* The ICC analyzer's menu goes on with freed teams after "Exit"
  (`ICC_Player_Performance_Analyzer.c:401`, `UsesFreed`).
* The calculator counts operands and not their places, so `1 2 +` gets a result
  (`calculator.c:109`); `RefusesMissing` says which lines get none.
* The inventory uses a capacity that it has reported as out of range
  (`inventory_management_system.c:338`).
* With a message queue, a parent whose child was killed may receive its own
  message and show it as sorted, and after a lost reply it waits for ever; with a
  file or shared memory a child that wakes early sorts what is not there yet.
  `Undisturbed` and `ReplyMayBeLost` say exactly when.

## Proofs

Proved for every value of the constants, under the assumptions named in the
modules (`AtmAssumption`, `JobAssumption`, `CacheAssumption`, `VfsAssumption`,
`HeapAssumption`, `UserAssumption`, `InventoryAssumption`, `TeamsAssumption`,
`ImageAssumption`, `SpiralAssumption`, `LineAssumption`, `IpcAssumption`). None of
them bounds a queue, an array, the memory or the number of clients, processes or
runs:

* `AtmProofs`: `Typing`, `Exclusion`, `Framing`, `NoStandoff`, `HangupHarmless`
  and `Refinement` (`Spec => Acc!Spec`), all from `Invariance`, that
  `IInv == TypeOK /\ MutualExclusion /\ Computed /\ Protocol` is inductive.
  `MutualExclusion` is inductive alone; framing is not. `Protocol` says for each
  connection where its two ends can be and what can be in transit between them
  (a menu, a choice without its amount, a request with both, an answer), and from
  it the last three safety properties follow. `Computed` says that a thread past
  `Fetch` holds an int. The refinement maps `Truncate` to the abstract `Serve`.
* `SchedulingProofs`: `Typing`, `OnePlaceAlways`, `StatusTellsAlways`,
  `KillsAheadAlways`, `StatsSensibleAlways` and the action property
  `Unpreempted`, from `IInv == TypeOK /\ Places /\ KillsAhead /\ WaitingOwes /\
  InputAtZero /\ Accounting`. `WaitingOwes` (a waiting process has a tick of I/O
  left) keeps the countdown from going below zero, `InputAtZero` makes new kills
  lie ahead of the clock, and `Accounting` bounds used time by the clock and
  relates it to the burst, which is what makes waiting times non-negative.
  `Places` goes with the lemmas about queues without repetitions: what appending,
  taking the head and removing a node do to the set of a queue's elements.
  `IoOnTime` and `IoExactAlways` are about `MCScheduling!SinceSpec`, which adds the
  tick `since` at which a process began to wait. `IoClock` says that for a waiting
  process the clock and its remaining ticks add up to when it is due, one more
  while the walk of this tick has yet to come to it; so `cursor` has to tell
  which nodes the walk has passed even as others leave the queue. From it a process
  becomes ready exactly when its I/O is over, for any number of processes.
* `LRUProofs`: `Typing`, `QueueLinked`, `LookupsSafe`, `AllIndexed` and `PromiseKept`
  (`Spec => KeepsPromise`). The invariant `IInv` says that there is a sequence `q` of
  addresses which the pointers spell (`Linked`: it goes through every allocated node
  once, and `previous` and `next` of each are its neighbours), that every hash entry
  points to an allocated node of its key in that key's bucket (`Hashed`), and, while
  no malloc of an entry fails, that every node has an entry (`Complete`). Each
  operation on the pointers is an operation on `q`: `Moves` (the node at a place goes
  to the front), `Shortens` (the last goes), `Lengthens` (one comes in front); each
  operation on the hash map adds or removes one key (`InsertIs`, `DeleteIs`). `Walk`
  shows that following `next` from the front spells `q`, so what `WellLinked` and the
  refinement say of the walk they say of `q`. `QueueLinked` and `LookupsSafe` hold
  whatever mallocs fail; `AllIndexed` and `PromiseKept` assume
  `"entry" \notin NoMemory`, since a node without an entry is lost to lookups (the
  hazard at line 53). `NeverStaleAlways` is about `MCLruPuts!PutSpec`, which adds
  the value last put for each key, and again holds whatever mallocs fail: what a
  lookup finds for a key is the value last put (`Fresh`). A failed malloc may leave
  a node without an entry and its key with two nodes, but a key never has two
  entries (`OneEntry`), and an update writes the node its entry points to
  (`UpdateFresh`).
* `VfsProofs`: `Typing`, `TreeAlways`, `NoSharingAlways`, `SiblingsDistinctAlways`,
  `NoLeakAlways` and `ContentsKept` (`Spec => Store!Spec`), from
  `IInv == TypeOK /\ TreeShaped /\ RootIsSlash /\ NoSharing`. `TreeShaped` alone is
  not inductive: that the node a command removes has no children, and that the
  parent of the current directory is a directory, need the types and that the root
  is only itself's ancestor. `NoSharing` says that the free list and the blocks of
  each file are sequences without repetitions and disjoint from each other, so that
  writing moves a prefix of the first to a file and deleting moves a file's blocks
  back; the lemmas `Joined` and `Parted` of `QueueLemmas`, on appending and
  splitting such sequences, carry this. It holds whatever mallocs
  fail; `NoLeakAlways` and `ContentsKept` assume `NoMemory = {}`, because a
  FreeBlock that cannot be allocated loses its block (the hazard at line 269), and
  `SiblingsDistinctAlways` assumes `NamesAreWhole`.
* `VfsHeapProofs`: `WellLinkedAlways`, `HeapImplements` (`Spec => Vfs!Spec`) and
  `FreesAllAlways`, for
  names that are cut as well as whole and wherever malloc puts or refuses a
  FreeBlock. The invariant `HInv` says that the pointers of the free list spell a
  sequence of nodes and one of blocks (`Spelled`: head, tail and both links of each
  node follow from its place) and that those of the tree spell the children of each
  directory (`Shaped`: the list of each is a circle whose first is `child`, and every
  node but the root is in the circle of its parent). The proof has three layers. What
  a loop over pointers returns: `Chain` of `QueueLemmas` is where following a pointer
  leads, `ChainSpells` that it goes through a sequence the pointers spell; so `WalkIs`
  and `ChildrenAre` turn the walks of the code into those sequences, and `SearchIs` the
  search of a directory into the node with that name. What an operation does to the
  sequence: `HeadGoes`, `TailComes` and `ListMade` for the free list, `GrownShaped` and
  `ShrunkShaped` for a circle that gains or loses a node, with the lists of one node
  and the removal of the first as cases of their own; `RefilledIs` and `WrittenIs` go
  over the blocks of a file by `Upwards`. What a command does: `CreateStep`,
  `RemoveStep`, `DeleteStep`, `ChangeStep` and `WriteStep` each give `HInv'` and the
  step of `VirtualFileSystem`. With `VfsProofs` it follows that the tree, the
  ownership of blocks and the contents of files hold of the pointers too.
  `FreesAll`, that exit frees every node once, needs more than `Shaped`, under which
  a directory might still be its own grandchild: `Depths` gives every node a number
  of directories between it and the root, one more than its parent's. It is kept
  because a new node is a leaf and only leaves go (`DepthsAlways`). From it
  `AllBelow` shows that descending from the root reaches every node, and `FreedIs`,
  going up from the deepest level, that `freeFileNode` passes through what is below a
  node without meeting anything twice: nodes of one level have nothing in common
  below them.
* `ProgramProofs`, of `UserFile`: `Typing`, `OneUserPerIdAlways`, `TableKept`
  (`Spec => KeepsTable`) and `LoadedKept` (`Spec => KeepsLoaded`), from
  `IInv == TypeOK /\ OneUserPerId /\ Written /\ Fits`.
  `Written` says that the records in the file during a rewrite are a prefix of the
  array that is being written; a kill at any point therefore leaves a prefix, which
  keeps `OneUserPerId` and maps to the abstract `Killed`. `Fits` says that the array
  is no longer than the limit, so that what a rewrite or a kill leaves is loaded
  whole (`AllLoaded`). In `TableKept` the file is what is loaded, up to the limit; in
  `LoadedKept` an add beyond it is a stutter (`BehindLimit`). Neither says anything
  of the users beyond the limit when a longer file is updated: those are lost, which
  is the finding of `user_file_tail`. `TypeOK` is proved here and left out of the run.
* `ProgramProofs`, of `Inventory`: `StockTyping`, `UniqueIDsAlways` and `CatalogueKept`
  (`StockSpec => Promise!Spec`), from `StockInv == StockTypeOK /\ UniqueIDs`.
  `UniqueIDs` is proved and not among the run's properties, since two products with
  one ID would not be a catalogue. With distinct IDs
  `findProductIndexByID` finds the only product there is (`TheOnlyOne`), and the
  catalogue is a function of the used part of the array, so that closing a hole and
  growing do not change it.
* `ProgramProofs`, of `Teams`: `TeamsInvariance` and `MergedInOrderAlways`
  (`TeamsSpec => []MergedInOrder`), for any number of teams, players and careers.
  `TeamsInv` is inductive: each list is ranked and of its role, no ID is there twice,
  and every team is somewhere in the array, so that a search by ID finds it; it says
  nothing of averages, by which the array is sorted, and `SortedTeams` shows that
  sorting only moves teams. The rest is about the algorithm of `max_heap.c` alone.
  A node on its way up is out of order with its parent only (`Rising`), one on its way
  down with its children only (`Sinking`); both say too that its children are not
  above its parent, without which one exchange could break what was in order.
  `InsertIs` and `DeleteIs` follow: the heap stays one and gains or loses one node,
  since the node in hand at least halves or doubles its place in each turn, and
  `RootIsGreatest`. `Merging` is the invariant of the display: the heap has the next
  player of each list that has one left, the players shown are those before, and none
  of them is below one that is to come. It ends because each player is shown once, and
  then `MergedIs` says of any ranked lists that they are merged.
* `ProgramProofs`, of `Sonar`: `SmoothsAlways` (`ImageSpec => []Smooths`), for images of
  every size. `ImageInv` says of each place what it holds in each of the four loops,
  by whether the loop has come to it: while rows are exchanged, the transposed image
  on one side of the row in hand and the turned one on the other; while the mean is
  written, the sum of a place and its neighbours divided by how many there are.
* `ProgramProofs`, of `Spiral`: `SpiralsAlways` (`SpiralSpec => []Spirals`). `SpiralInv`
  says where the loop of each side is, how many cells it has printed for that, and
  that every cell printed so far has the place that `Spirals` gives it; the sides
  meet in the ring whose number the four bounds agree on.
* `ProgramProofs`, of `Calculator`: `EvaluatesAlways` (`LineSpec => []Evaluates`), for
  lines of any length. `LineInv` has two parts. `Counted` holds of every line: on the
  stacks are as many more operands than operators as numbers than operators have been
  read, and neither stack is longer than what has been read, so that `push` never drops
  anything. `Meant` holds of a line that is an expression. By `Form` the stacks then
  hold at most the sum and its operator, the product and its operator, and a factor, in
  this order and each of them only if there is one, and each operand is what the
  reference gives for its place. `HoldsRead`, `HoldsApply` and `HoldsPush` go from
  one form to another: an operator of the same class or a weaker one takes the factor
  into the product, and a weak one or the end the product into the sum. `Spoils`
  shows that a divisor of zero anywhere leaves the whole line without a meaning, so
  that the error is right. `Chained` gives the equations of the reference, which is
  a recursive function, at every place.
* `IpcProofs`: `Sorts`, `IpcSound` and `ShownSortedAlways`. `Sorts` is about the
  algorithm alone: for an array of any length, `sortIntegerArray` gives a
  rearrangement of it in which no element is above a later one. `Partly(a, b, i, j)`
  is the invariant of both loops (`b` is a rearrangement of `a`, the places before
  `i` are final, place `i` is the least of those before `j`); `Loop` and `Upwards`
  turn the loops, written as recursive functions, into facts about all indices.
  The invariant `IInv` of the processes has three parts for each run that hold in
  every medium: `InTurn` (a parent starts after the one before has ended, and
  goes on from `wait` when its child has ended), `Holding` (the object a run
  works with exists, and is the key's as long as its parent is there) and
  `AtWork` (indices stay within the array). Four more, one for each medium, say
  where the array is and how far it is sorted: `PipeInv`, `QueueInv`, `FileInv`,
  `MemoryInv`. Pipes belong to one run, so `PipeInv` needs no condition. The other
  media are shared with earlier and later runs: `OnlyOne` shows that while the
  parent of a run that began `alone` is there, no process of another run can take
  a step, and `Others` that a step of another run then leaves it as it is.

Only model-checked: liveness (`SomeoneServed`, `Ends`, `ParentsEnd`), which is out of
this prover's reach. The theorem about the calculator is about its ints as unbounded
ones.

## Plan

What is left: a failing disk in `UserFile`, and the width of the calculator's ints.

## Not modelled

Wording, formatting and splitting of input lines, bytes within a disk block, the
names of processes and players, floats beyond the fractions they stand for, system
calls that fail for reasons of the machine, a full disk, and two sessions of one
program on the same file. `read` in the file system prints a full block without a
terminator, which runs past its buffer: what is printed then is undefined, and no
state depends on it. The client of the ATM prints its last balance again when the
server is gone. That deposits overflow the ATM's int and that negative amounts turn a
deposit into a withdrawal and back is in the model, and permitted by `AtmAccount`:
nothing in the repository refuses either, so no property judges it. Likewise
`ImplementsVfs` permits a block to be lost when there is no memory for its FreeBlock;
`NoLeak` is about runs in which there is. The exchange of two elements in shared
memory is one step, so a kill between its two stores is not seen; `ShownSorted` is
about runs whose child finished. The careers of the ICC analyzer are naturals: `nan`,
which `%f` accepts and which passes the checks, has no place in an order and is left
out, and so is the overrun of `playerName` by a longer name (`addPlayer`, line 50). Overflow of the calculator's ints needs numbers longer than the
lines that are checked. The programs that exchange an array over a file, a pipe, a
queue or shared memory do not compile as they are, since `ARRAY_LENGTH` is defined
in `utils.c` only; they are modelled as they are written. The student performance
analyzer reads marks until they are in range and compares an average with four
limits: a model of it would repeat those comparisons.
