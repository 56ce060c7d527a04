------------------------------- MODULE Sonar --------------------------------
(***************************************************************************)
(* The sonar image: a square matrix of bytes that is turned clockwise and  *)
(* then smoothed, in place.  A smoothed element waits in the upper byte of *)
(* its place, because its neighbours still need the lower one.             *)
(***************************************************************************)
EXTENDS Integers

CONSTANTS
  ImageSizes,      \* sizes that are asked for
  Bytes            \* values that rand gives

ASSUME ImageAssumption == ImageSizes \subseteq Nat \ {0} /\ Bytes \subseteq 0 .. 255

VARIABLES
  imageSize,
  original,        \* the matrix that was generated
  image,           \* the matrix
  doing,           \* "transposing", "reversing", "smoothing", "unpacking" or "done"
  place            \* the row and the column of this loop

imageVars == <<imageSize, original, image, doing, place>>

Rows   == 0 .. imageSize - 1
Places == Rows \X Rows

ImageReady == image = original /\ doing = "transposing" /\ place = <<0, 0>>

ImageInit ==
  imageSize \in ImageSizes /\ original \in [Places -> Bytes] /\ ImageReady

-----------------------------------------------------------------------------
BYTE_MASK == 255
INPUT_UPPER_LIMIT == 255
packTo16Bits(left, right) ==
  IF {left, right} \subseteq 0 .. INPUT_UPPER_LIMIT THEN left * 256 + right ELSE -1
unpackHigherByte(x) == x \div 256 % (BYTE_MASK + 1)
LowerSlip(x) == x                            \* slip: without the mask
unpackLowerByte(x) == x % (BYTE_MASK + 1)

Swapped(p, q) == [image EXCEPT ![p] = image[q], ![q] = image[p]]

(* To the next place, or the next loop. *)
Goes(next) ==
  LET r == place[1]
      c == place[2] IN
  /\ UNCHANGED <<imageSize, original>>
  /\ \/ c + 1 < imageSize /\ place' = <<r, c + 1>> /\ UNCHANGED doing
     \/ /\ c + 1 = imageSize /\ r + 1 < imageSize
        /\ place' = <<r + 1, 0>> /\ UNCHANGED doing
     \/ /\ c + 1 = imageSize /\ r + 1 = imageSize
        /\ place' = <<0, 0>> /\ doing' = next

Flipped(p)  == <<p[2], p[1]>>
Mirrored(p) == <<p[1], imageSize - 1 - p[2]>>

transposeMatrix ==
  /\ doing = "transposing"
  /\ image' = IF place[1] < place[2] THEN Swapped(place, Flipped(place)) ELSE image
  /\ Goes("reversing")

(* The two ends of a row move towards each other. *)
reverseMatrixRows ==
  /\ doing = "reversing"
  /\ image' = IF 2 * place[2] < imageSize - 1 THEN Swapped(place, Mirrored(place)) ELSE image
  /\ Goes("smoothing")

(* The sum of what v has in the window around a place, and the average.    *)
At(v, r, c) == IF <<r, c>> \in Places THEN v[<<r, c>>] ELSE 0
InRow(v, r, c) == At(v, r, c - 1) + At(v, r, c) + At(v, r, c + 1)
WindowSum(v, p) == InRow(v, p[1] - 1, p[2]) + InRow(v, p[1], p[2]) + InRow(v, p[1] + 1, p[2])
Average(v, p) == WindowSum(v, p) \div WindowSum([q \in Places |-> 1], p)

applySmoothingFilter ==
  LET lower == [q \in Places |-> unpackLowerByte(image[q])]
      packed == packTo16Bits(Average(lower, place), image[place]) IN
  /\ doing = "smoothing"
  /\ image' = IF packed # -1 THEN [image EXCEPT ![place] = packed] ELSE image
  /\ Goes("unpacking")

unpackMatrixValues ==
  /\ doing = "unpacking"
  /\ image' = [image EXCEPT ![place] = unpackHigherByte(@)]
  /\ Goes("done")

ImageNext ==
  transposeMatrix \/ reverseMatrixRows \/ applySmoothingFilter \/ unpackMatrixValues

ImageSpec == ImageInit /\ [][ImageNext]_imageVars

-----------------------------------------------------------------------------
(* What was at row r and column c is after the rotation at row c of the    *)
(* last column but r (lines 55-90).                                        *)
Turned == [p \in Places |-> original[Flipped(Mirrored(p))]]

(* Each element becomes the average of the turned matrix around it, though *)
(* its neighbours were smoothed before it: packing keeps what a neighbour  *)
(* still has to read, the average fits into a byte, and none is kept from  *)
(* being packed (sonar_image_processing.c:103-135).                        *)
Smooths ==
  doing = "done" => image = [p \in Places |-> Average(Turned, p)]
=============================================================================
