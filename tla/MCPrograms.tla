----------------------------- MODULE MCPrograms -----------------------------
(***************************************************************************)
(* The programs without concurrency or failures, on small instances.  One  *)
(* of them runs, the others stay as they are: it is picked at the start.   *)
(***************************************************************************)
EXTENDS Inventory, Teams, Calculator, Sonar, Spiral

CONSTANT Programs          \* those that may be picked

VARIABLE program

(* A career as in Players_data.h: role, average, strike rate, wickets and  *)
(* economy rate.                                                           *)
Career(r, a, s, w, e) ==
  [role |-> r, battingAverage |-> a, strikeRate |-> s, wickets |-> w, economyRate |-> e]

SomeCareers == {Career("Batsman", 1, 1, 0, 100), Career("Batsman", 2, 2, 0, 100),
                Career("Bowler", 1, 1, 1, 6), Career("All-rounder", 1, 3, 1, 6)}

AllInit ==
  /\ program \in Programs
  /\ StockInit /\ TeamsInit
  /\ IF program = "calculator" THEN LineInit ELSE expression = <<>> /\ Ready
  /\ IF program = "sonar" THEN ImageInit
     ELSE imageSize = 1 /\ original = [p \in Places |-> 3] /\ ImageReady
  /\ IF program = "spiral" THEN SpiralInit ELSE spiralSize = 1 /\ SpiralReady

AllNext ==
  /\ UNCHANGED program
  /\ IF program = "inventory"  THEN StockNext   ELSE UNCHANGED stockVars
  /\ IF program = "icc"        THEN TeamsNext   ELSE UNCHANGED teamsVars
  /\ IF program = "calculator" THEN LineNext    ELSE UNCHANGED lineVars
  /\ IF program = "sonar"      THEN ImageNext   ELSE UNCHANGED imageVars
  /\ IF program = "spiral"     THEN SpiralNext  ELSE UNCHANGED spiralVars

AllSpec == AllInit /\ [][AllNext]_<<program, stockVars, teamsVars, lineVars, imageVars, spiralVars>>

Symmetric == Permutations(PlayerIDs)

=============================================================================
