------------------------------- MODULE Spiral -------------------------------
(***************************************************************************)
(* The spiral matrix: the numbers from 1 are written along the four sides  *)
(* of ever smaller squares, and the last one after the loop.               *)
(***************************************************************************)
EXTENDS Integers, FiniteSetsExt

CONSTANTS
  SpiralSizes,    \* sizes that are asked for
  Unset           \* what malloc leaves in the matrix

ASSUME SpiralAssumption == SpiralSizes \subseteq Nat \ {0}   \* main refuses the others

VARIABLES
  spiralSize,
  spiral,         \* the matrix: the cells by their offset
  row, column, padding, currentValue,
  side            \* 1 to 4: the loop that runs, 5: none any more

spiralVars == <<spiralSize, spiral, row, column, padding, currentValue, side>>

Cells == 0 .. spiralSize * spiralSize - 1

SpiralReady ==
  /\ spiral = [c \in Cells |-> Unset]
  /\ row = 0 /\ column = 0 /\ padding = 1 /\ currentValue = 1
  /\ side = 1

SpiralInit == spiralSize \in SpiralSizes /\ SpiralReady

-----------------------------------------------------------------------------
InPadding == padding < spiralSize
Store == spiral' = [spiral EXCEPT ![row * spiralSize + column] = currentValue]

(* Whether the loop on a side has another turn. *)
GoesOnSlip(s) == CASE s = 1 -> column < spiralSize - padding
                   [] s = 2 -> row < spiralSize - padding
                   [] s = 3 -> column >= padding
                   [] s = 4 -> row >= padding              \* slip: onto the first row
GoesOn(s) == CASE s = 1 -> column < spiralSize - padding
               [] s = 2 -> row < spiralSize - padding
               [] s = 3 -> column >= padding
               [] s = 4 -> row >= padding + 1

Walk ==
  /\ side \in 1 .. 4 /\ InPadding /\ GoesOn(side)
  /\ Store /\ currentValue' = currentValue + 1
  /\ column' = column + CASE side = 1 -> 1 [] side = 3 -> -1 [] OTHER -> 0
  /\ row' = row + CASE side = 2 -> 1 [] side = 4 -> -1 [] OTHER -> 0
  /\ UNCHANGED <<spiralSize, padding, side>>

Turn ==
  /\ side \in 1 .. 4 /\ InPadding /\ ~GoesOn(side)
  /\ side' = IF side = 4 THEN 1 ELSE side + 1
  /\ padding' = IF side = 4 THEN padding + 1 ELSE padding
  /\ UNCHANGED <<spiralSize, spiral, row, column, currentValue>>

LastCell ==
  /\ side = 1 /\ ~InPadding /\ Store /\ side' = 5
  /\ UNCHANGED <<spiralSize, row, column, padding, currentValue>>

SpiralNext == Walk \/ Turn \/ LastCell

SpiralSpec == SpiralInit /\ [][SpiralNext]_spiralVars

-----------------------------------------------------------------------------
(* The place of a cell, counted along the spiral: the rings around its own *)
(* are full, and it lies on one of the four sides of that.                 *)
PlaceOf(r, c) ==
  LET ring == Min({r, c, spiralSize - 1 - r, spiralSize - 1 - c})
      edge == spiralSize - 1 - 2 * ring
      before == 4 * ring * (spiralSize - ring)
  IN  before + 1 + IF r = ring THEN c - ring
                   ELSE IF c = spiralSize - 1 - ring THEN edge + r - ring
                   ELSE IF r = spiralSize - 1 - ring THEN 2 * edge + spiralSize - 1 - ring - c
                   ELSE 3 * edge + spiralSize - 1 - ring - r

(* In the end every cell has its place in the spiral, the middle and the   *)
(* only cell of a matrix of one too (lines 13-40).                         *)
Spirals ==
  side = 5 => \A r, c \in 0 .. spiralSize - 1 : spiral[r * spiralSize + c] = PlaceOf(r, c)
=============================================================================
