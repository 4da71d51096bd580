------------------------------- MODULE Screens -------------------------------
(***************************************************************************)
(* The ordered screens of src/halftone/halftone.c: m2022_halftoner_init    *)
(* ranks the positions of a square cell, by doubling a Bayer matrix or by  *)
(* growing two dots, scales the ranks to thresholds, and a pixel is black  *)
(* where its ink exceeds the threshold of its position.  One action is one *)
(* turn of the outer loop of bayer or clustered.                           *)
(***************************************************************************)
EXTENDS Integers, FiniteSets

VARIABLES
  stage,    \* "none", "bayer", "clustered", "scale", "ready"
  cell,     \* the side of the cell
  done,     \* bayer: the side s that is ranked; clustered: the next rank
  taken,    \* clustered: the positions that have a rank
  matrix    \* ranks, then thresholds, by position y * cell + x

svars == <<stage, cell, done, taken, matrix>>

NoMatrix == [p \in {} |-> 0]

ScreensInit ==
  /\ stage = "none" /\ cell = 0 /\ done = 0 /\ taken = {}
  /\ matrix = NoMatrix

Positions == 0 .. (cell * cell - 1)

(* The ordered part of m2022_halftoner_init; memset cleared the matrix.    *)
StartScreen(kind, n) ==
  /\ stage' = kind /\ cell' = n
  /\ done' = IF kind = "bayer" THEN 1 ELSE 0
  /\ taken' = {} /\ matrix' = [p \in 0 .. (n * n - 1) |-> 0]

(* A method without a matrix.                                              *)
NoScreen ==
  /\ stage' = "ready" /\ cell' = 0 /\ done' = 0 /\ taken' = {}
  /\ matrix' = NoMatrix

-----------------------------------------------------------------------------
(* What each rank becomes in the four quadrants of the doubled matrix.     *)
Quadrant(r, right, below) ==
  4 * r + CASE ~below /\ ~right -> 0
            [] ~below /\ right  -> 2
            [] below  /\ ~right -> 3
            [] below  /\ right  -> 1

(* bayer, one doubling: the ranked square of side s spreads to 2s.         *)
Double ==
  LET s == done
      At(px, py) == matrix[((py % s) * cell) + (px % s)]
  IN  /\ stage = "bayer" /\ s < cell
      /\ matrix' = [p \in Positions |->
           LET px == p % cell
               py == p \div cell
           IN  IF px < 2 * s /\ py < 2 * s
               THEN Quadrant(At(px, py), px >= s, py >= s) % 256
               ELSE matrix[p]]
      /\ done' = 2 * s
      /\ UNCHANGED <<stage, cell, taken>>

(* The distance from a dot's centre along one axis, in quarters of a       *)
(* pixel, the short way round the cell.                                    *)
Toroidal(at, dot) ==
  LET d == 4 * at + 2 - cell * IF dot = 0 THEN 1 ELSE 3
  IN  IF d > 2 * cell THEN d - 4 * cell
      ELSE IF d < -2 * cell THEN d + 4 * cell ELSE d

(* What clustered compares, 400 times as large: the squared distance       *)
(* weighted by 1000, and the tie-break.                                    *)
Key(p, dot) ==
  LET dx == Toroidal(p % cell, dot)
      dy == Toroidal(p \div cell, dot)
  IN  25000 * (dx * dx + dy * dy) + 37 * dx + 11 * dy

(* Mutant: positions that have a rank can be taken again.                  *)
Free_all == Positions

Free == Positions \ taken

(* clustered, one rank: the nearest free position to the dot whose turn it *)
(* is, the first one on ties.                                              *)
Rank ==
  LET key == [p \in Free |-> Key(p, done % 2)]
      best == CHOOSE p \in Free :
                \A q \in Free : key[p] < key[q] \/ (key[p] = key[q] /\ p <= q)
  IN  /\ stage = "clustered" /\ done < cell * cell
      /\ matrix' = [matrix EXCEPT ![best] = done]
      /\ taken' = taken \union {best}
      /\ done' = done + 1
      /\ UNCHANGED <<stage, cell>>

Ranked ==
  \/ stage = "bayer" /\ done = cell
  \/ stage = "clustered" /\ done = cell * cell

(* scale_matrix for one rank.                                              *)
Scaled(r, levels) == (((2 * r + 1) * 256) \div (2 * levels)) % 256

Scale ==
  /\ Ranked
  /\ matrix' = [p \in Positions |-> Scaled(matrix[p], cell * cell)]
  /\ stage' = "ready"
  /\ UNCHANGED <<cell, done, taken>>

(* The threshold of a pixel of the page.                                   *)
Threshold(x, line) == matrix[((line % cell) * cell) + (x % cell)]

-----------------------------------------------------------------------------
(***************************************************************************)
(* "Ranks are scaled to 2..254 so that solid black and pure white are      *)
(* exact for every method" (docs/halftone.md): full ink exceeds every      *)
(* threshold.                                                              *)
(***************************************************************************)
ScreenSolid ==
  stage = "ready" => \A p \in DOMAIN matrix : 255 > matrix[p]

(***************************************************************************)
(* "A constant patch produces exactly the expected number of dots": for    *)
(* every ink, a cell has as many dots as its share of the cell, to the     *)
(* nearest.  So every rank was given once, and none of them was cut off.   *)
(***************************************************************************)
ExactDots ==
  stage = "ready" /\ cell > 0 =>
    \A v \in 0 .. 255 :
      Cardinality({p \in Positions : v > matrix[p]})
        = (v * cell * cell + 127) \div 256
=============================================================================
