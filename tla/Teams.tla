------------------------------- MODULE Teams --------------------------------
(***************************************************************************)
(* The ICC player performance analyzer: an array of teams, each with three *)
(* lists of players in descending order of their performance index, a      *)
(* count of them and the average strike rate of those who bat.  The data   *)
(* of Players_data.h is loaded player by player; then the menu runs, which *)
(* goes on after its choice "Exit".                                        *)
(***************************************************************************)
EXTENDS Integers, Sequences, FiniteSets, SequencesExt

CONSTANTS
  teamCount,             \* the teams of the data, whose names are sorted: name i is i
  PlayerIDs,
  Careers,               \* the roles of players and what they have achieved
  MaxLoads,              \* bound on the players in the data
  MAX_PLAYERS_PER_TEAM

VARIABLES
  phase,                 \* "loading", "menu", "freed" or "undefined"
  teamsArray

teamsVars == <<phase, teamsArray>>

Roles == {"Batsman", "Bowler", "All-rounder"}
Bats  == {"Batsman", "All-rounder"}

ASSUME TeamsAssumption ==
  /\ teamCount \in Nat
  /\ Careers \subseteq [role : Roles, battingAverage : Nat, strikeRate : Nat,
                       wickets : Nat, economyRate : Nat]
  /\ MAX_PLAYERS_PER_TEAM \in Nat /\ MaxLoads \in Nat

(* An average is a fraction: a numerator and a denominator. *)
Zero == <<0, 1>>
Less(x, y) == x[1] * y[2] < y[1] * x[2]

TeamsInit ==
  /\ phase = "loading"
  /\ teamsArray = [i \in 1 .. teamCount |->
                     [teamID |-> i, name |-> i, totalPlayers |-> 0, average |-> Zero,
                      players |-> [r \in Roles |-> <<>>]]]

-----------------------------------------------------------------------------
(* A hundred times the index. *)
calculatePerformanceIndex(s) ==
  CASE s.role = "Batsman"     -> s.battingAverage * s.strikeRate
    [] s.role = "Bowler"      -> 200 * s.wickets + 100 * (100 - s.economyRate)
    [] s.role = "All-rounder" -> s.battingAverage * s.strikeRate + 200 * s.wickets

Player(id, name, s) ==
  [playerID |-> id, teamName |-> name, role |-> s.role, strikeRate |-> s.strikeRate,
   index |-> calculatePerformanceIndex(s)]

(* A new player goes before the first one whose index is smaller. *)
insertPlayerByPerformanceIndex(q, p) ==
  LET i == CHOOSE i \in 1 .. Len(q) + 1 :
             /\ \A k \in 1 .. i - 1 : q[k].index >= p.index
             /\ i \in DOMAIN q => p.index > q[i].index
  IN  InsertAt(q, i, p)

insertPlayerIntoTeam(team, p) ==
  [team EXCEPT !.players[p.role] = insertPlayerByPerformanceIndex(@, p),
               !.totalPlayers = @ + 1]

(* Where the name still may be, and one turn of the search. *)
Middle(part) == (part.high - part.low) \div 2 + part.low
Narrowed(part, name) ==
  LET mid == Middle(part) IN
  IF part.low > part.high \/ teamsArray[mid].name = name THEN part
  ELSE IF teamsArray[mid].name < name THEN [part EXCEPT !.low = mid + 1]
  ELSE [part EXCEPT !.high = mid - 1]

(* The position of a name among the teams, or 0. *)
binarySearchTeamsName(name) ==
  LET n == Len(teamsArray)
      part[k \in 0 .. n] ==
        IF k = 0 THEN [low |-> 1, high |-> n] ELSE Narrowed(part[k - 1], name)
  IN  IF part[n].low > part[n].high THEN 0 ELSE Middle(part[n])

ListsOf(team) == [r \in Roles |-> ToSet(team.players[r])]
PlayersOf(team) == UNION {ListsOf(team)[r] : r \in Roles}
NumberOf(team) == Len(team.players["Batsman"]) + Len(team.players["Bowler"])
                    + Len(team.players["All-rounder"])
AllPlayers == UNION {PlayersOf(teamsArray[i]) : i \in DOMAIN teamsArray}

findPlayerByID(id) == \E p \in AllPlayers : p.playerID = id

(* A player of the data, in which no ID is there twice. *)
Load(id, name, s) ==
  LET i == binarySearchTeamsName(name) IN
  /\ phase = "loading" /\ Cardinality(AllPlayers) < MaxLoads /\ ~findPlayerByID(id)
  /\ i # 0
  /\ teamsArray' = [teamsArray EXCEPT ![i] = insertPlayerIntoTeam(@, Player(id, name, s))]
  /\ UNCHANGED phase

RateOf(q) == FoldLeft(LAMBDA sum, p : sum + p.strikeRate, 0, q)
BattingAverage(team) ==
  LET n == Len(team.players["Batsman"]) + Len(team.players["All-rounder"]) IN
  IF n = 0 THEN Zero
  ELSE <<RateOf(team.players["Batsman"]) + RateOf(team.players["All-rounder"]), n>>

setTeamsStrikeRate ==
  /\ phase = "loading" /\ phase' = "menu"
  /\ teamsArray' = [i \in DOMAIN teamsArray |->
                      [teamsArray[i] EXCEPT !.average = BattingAverage(teamsArray[i])]]

-----------------------------------------------------------------------------
(* The position of a team that is asked for by its ID, wherever it is now. *)
searchTeamByID(teamID) == CHOOSE i \in DOMAIN teamsArray : teamsArray[i].teamID = teamID

(* The average weighs the old one by the count of all players, the new one *)
(* included, and the count has the new player twice.                       *)
Recalculated(team, rate) ==
  LET old == team.average IN
  <<old[1] * team.totalPlayers + rate * old[2], old[2] * (team.totalPlayers + 1)>>

HasRoom(team) == team.totalPlayers < MAX_PLAYERS_PER_TEAM

addPlayer(teamID, id, s) ==
  LET i == searchTeamByID(teamID)
      team == insertPlayerIntoTeam(teamsArray[i], Player(id, teamsArray[i].name, s)) IN
  /\ phase = "menu" /\ HasRoom(teamsArray[i]) /\ ~findPlayerByID(id)
  /\ teamsArray' = [teamsArray EXCEPT ![i] =
       [team EXCEPT !.totalPlayers = @ + 1,
                    !.average = IF s.role \in Bats THEN Recalculated(team, s.strikeRate) ELSE @]]
  /\ UNCHANGED phase

(* Selection sort: to each place in turn the first of the greatest left. *)
Swap(q, i, k) == [q EXCEPT ![i] = q[k], ![k] = q[i]]
Greatest(q, i) ==
  LET of[k \in i .. Len(q)] ==
        IF k = i THEN i
        ELSE IF Less(q[of[k - 1]].average, q[k].average) THEN k ELSE of[k - 1]
  IN  of[Len(q)]
SelectionSort(q) ==
  LET upTo[i \in 0 .. Len(q)] ==
        IF i = 0 THEN q ELSE Swap(upTo[i - 1], i, Greatest(upTo[i - 1], i))
  IN  upTo[Len(q)]

displayTeamsByStrikeRate ==
  phase = "menu" /\ teamsArray' = SelectionSort(teamsArray) /\ UNCHANGED phase

(* The other displays change nothing. *)
freeMemoryAndExit == phase = "menu" /\ phase' = "freed" /\ UNCHANGED teamsArray

(* The menu is still there, with teams that are not. *)
UsesFreed == phase = "freed" /\ phase' = "undefined" /\ UNCHANGED teamsArray

TeamsNext ==
  \/ \E id \in PlayerIDs, s \in Careers :
       \/ \E name \in 0 .. teamCount : Load(id, name, s)      \* 0: no team has it
       \/ \E teamID \in 1 .. teamCount : addPlayer(teamID, id, s)
  \/ setTeamsStrikeRate \/ displayTeamsByStrikeRate \/ freeMemoryAndExit \/ UsesFreed

TeamsSpec == TeamsInit /\ [][TeamsNext]_teamsVars

-----------------------------------------------------------------------------
(* The display of all players of a role merges the lists of the teams with *)
(* a heap of the lists' next players, counted from 1.  A node of it that   *)
(* is greater than its parent, or less than a child, is moved; the loop    *)
(* has fewer turns than the heap has nodes.                                *)
swapNodes(heap, i, k) == Swap(heap, i, k)

Up(at) ==
  LET parent == at.node \div 2 IN
  IF parent > 0 /\ at.heap[at.node].data.index > at.heap[parent].data.index
  THEN [heap |-> swapNodes(at.heap, at.node, parent), node |-> parent] ELSE at

insertInMaxHeap(heap, capacity, node) ==
  LET size == Len(heap) + 1
      at[k \in 0 .. size] ==
        IF k = 0 THEN [heap |-> Append(heap, node), node |-> size] ELSE Up(at[k - 1])
  IN  IF Len(heap) >= capacity THEN heap ELSE at[size].heap

Larger(heap, i, k) ==
  IF k <= Len(heap) /\ heap[i].data.index < heap[k].data.index THEN k ELSE i
DownSlip(at) ==                              \* slip: the right child is forgotten
  LET largest == Larger(at.heap, at.node, 2 * at.node) IN
  IF largest = at.node THEN at
  ELSE [heap |-> swapNodes(at.heap, at.node, largest), node |-> largest]
Down(at) ==
  LET largest == Larger(at.heap, Larger(at.heap, at.node, 2 * at.node), 2 * at.node + 1) IN
  IF largest = at.node THEN at
  ELSE [heap |-> swapNodes(at.heap, at.node, largest), node |-> largest]

deleteFromMaxHeap(heap) ==
  LET size == Len(heap) - 1
      rest == [i \in 1 .. size |-> IF i = 1 THEN heap[size + 1] ELSE heap[i]]
      at[k \in 0 .. size] == IF k = 0 THEN [heap |-> rest, node |-> 1] ELSE Down(at[k - 1])
  IN  at[size].heap

(* Player i of list a comes into the heap, if there is one. *)
Element(lists, a, i) == [data |-> lists[a][i], array |-> a, index |-> i]
WithNext(lists, heap, a, i) ==
  IF i > Len(lists[a]) THEN heap ELSE insertInMaxHeap(heap, Len(lists), Element(lists, a, i))
Firsts(lists) ==
  LET heap[a \in 0 .. Len(lists)] ==
        IF a = 0 THEN <<>> ELSE WithNext(lists, heap[a - 1], a, 1)
  IN  heap[Len(lists)]

(* One turn of the display, of which there are as many as players.         *)
Extracted(lists, so) ==
  LET top == so.heap[1] IN
  IF so.heap = <<>> THEN so
  ELSE [heap  |-> WithNext(lists, deleteFromMaxHeap(so.heap), top.array, top.index + 1),
        shown |-> Append(so.shown, top)]
Entries(lists) == UNION {{a} \X DOMAIN lists[a] : a \in DOMAIN lists}

printMergedSortedPlayers(lists) ==
  LET size == Cardinality(Entries(lists))
      so[k \in 0 .. size] ==
        IF k = 0 THEN [heap |-> Firsts(lists), shown |-> <<>>] ELSE Extracted(lists, so[k - 1])
      shown == so[size].shown
  IN  [k \in DOMAIN shown |-> shown[k].data]

displayAllPlayersOfRole(role) ==
  printMergedSortedPlayers([i \in DOMAIN teamsArray |-> teamsArray[i].players[role]])

-----------------------------------------------------------------------------
Descending(q) == \A i, k \in DOMAIN q : i < k => q[i].index >= q[k].index
Once(q) == Cardinality({q[i].playerID : i \in DOMAIN q}) = Len(q)

(* What displayAllPlayersOfRole shows is ranked, and has each player of    *)
(* that role of all teams once, wherever players were inserted and however *)
(* the teams were sorted meanwhile (max_heap.c:79-127): so the list of a   *)
(* team is ranked too.                                                     *)
MergedInOrder ==
  \A r \in Roles : LET q == displayAllPlayersOfRole(r) IN
    Descending(q) /\ Once(q) /\ ToSet(q) = {p \in AllPlayers : p.role = r}

(* Line 192 shows totalPlayers as the "Total players" of the team. *)
TotalPlayers == \A i \in DOMAIN teamsArray : teamsArray[i].totalPlayers = NumberOf(teamsArray[i])
=============================================================================
