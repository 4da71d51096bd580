------------------------------ MODULE Diffusion ------------------------------
(***************************************************************************)
(* Error diffusion (floyd_steinberg in src/halftone/halftone.c): each      *)
(* pixel of a line becomes a black dot or none, and the difference to the  *)
(* ink that was asked for is handed on to the pixels not yet drawn, in     *)
(* sixteenths, along a serpentine scan.  One action is one pixel.          *)
(*                                                                         *)
(* The two rows of errors have an unused cell at either end, so that a row *)
(* of w pixels has the cells 0 .. w + 1 and pixel x has cell x + 1.        *)
(***************************************************************************)
EXTENDS Integers, FiniteSetsExt

CONSTANTS
  Garbage    \* what an int16_t of freshly allocated memory may hold

(* What an int16_t can hold.                                               *)
Int16s == -32768 .. 32767

ASSUME DiffusionAssumption == Garbage \subseteq Int16s

VARIABLES
  w,         \* the width of the page, 0 before m2022_halftoner_init
  y,         \* lines drawn on this page
  drawing,   \* m2022_halftone_line is at work
  i,         \* pixels drawn of this line
  ink,       \* the ink of this line, 0 .. 255
  bits,      \* the dots of this line
  cur,       \* err_cur: errors for this line
  nxt,       \* err_next: errors for the line below
  drift      \* history: ink asked for less ink printed, on this page

dvars == <<w, y, drawing, i, ink, bits, cur, nxt, drift>>

Px == 0 .. (w - 1)
Cells == 0 .. (w + 1)

NoLine == [x \in {} |-> 0]

DiffusionInit ==
  /\ w = 0 /\ y = 0 /\ drawing = FALSE /\ i = 0
  /\ ink = NoLine /\ bits = NoLine
  /\ cur = NoLine /\ nxt = NoLine /\ drift = 0

(* Mutant: the memory is used as malloc returned it.                       *)
Reset_forgotten(width, g) == [c \in 0 .. (width + 1) |-> g]

(* m2022_halftoner_reset: both rows are cleared, whatever they held.       *)
Reset(width, g) == [c \in 0 .. (width + 1) |-> 0]

(* m2022_halftoner_init for a page of the given width, in memory that      *)
(* holds g.                                                                *)
StartDiffusion(width, g) ==
  /\ ~drawing
  /\ w' = width /\ y' = 0 /\ i' = 0 /\ drift' = 0 /\ UNCHANGED drawing
  /\ ink' = NoLine /\ bits' = NoLine
  /\ cur' = Reset(width, g) /\ nxt' = Reset(width, g)

(* The next line begins: the row below starts without errors.              *)
StartLine(line) ==
  /\ w > 0 /\ ~drawing
  /\ drawing' = TRUE /\ i' = 0 /\ ink' = line /\ bits' = [x \in Px |-> FALSE]
  /\ nxt' = [c \in Cells |-> 0]
  /\ UNCHANGED <<w, y, cur, drift>>

-----------------------------------------------------------------------------
(* The quotient of C, rounded towards zero.                                *)
Quot(a, b) == IF a >= 0 THEN a \div b ELSE -((-a) \div b)

(* The conversion to int16_t.                                              *)
Int16(v) == ((v + 32768) % 65536) - 32768

(* Mutant: odd lines are scanned from the right, but still push the error  *)
(* to the right.                                                           *)
Dir_rightward == 1

(* Odd lines are scanned from right to left.                               *)
Reverse == y % 2 = 1
Dir == IF Reverse THEN -1 ELSE 1

(* The pixel that is drawn next.                                           *)
X == IF Reverse THEN w - 1 - i ELSE i

(* Mutant: a dot needs more than half of the ink.                          *)
Black_rarely(v) == v > 254

Black(v) == v >= 128

(* n sixteenths of the error.                                              *)
Share(err, n) == Quot(err * n, 16)

Add(row, c, e) == [row EXCEPT ![c] = Int16(@ + e)]

(* One pixel: seven sixteenths go to the pixel ahead, the others to the    *)
(* three pixels below.                                                     *)
DrawPixel ==
  LET v == ink[X] + cur[X + 1]
      black == Black(v)
      err == v - IF black THEN 255 ELSE 0
  IN  /\ drawing /\ i < w
      /\ bits' = [bits EXCEPT ![X] = black]
      /\ cur' = Add(cur, X + 1 + Dir, Share(err, 7))
      /\ nxt' = Add(Add(Add(nxt, X + 1 - Dir, Share(err, 3)),
                        X + 1, Share(err, 5)),
                    X + 1 + Dir, Share(err, 1))
      /\ drift' = drift + ink[X] - IF black THEN 255 ELSE 0
      /\ i' = i + 1
      /\ UNCHANGED <<w, y, drawing, ink>>

(* The line is done: the rows change places.                               *)
EndLine ==
  /\ drawing /\ i = w
  /\ drawing' = FALSE
  /\ cur' = nxt /\ nxt' = cur /\ y' = y + 1
  /\ UNCHANGED <<w, i, ink, bits, drift>>

(* Pages of any width, with lines of any ink.                              *)
DiffusionNext ==
  \/ w' \in Nat \ {0} /\ \E g \in Garbage : StartDiffusion(w', g)
  \/ ink' \in [Px -> 0 .. 255] /\ StartLine(ink')
  \/ DrawPixel
  \/ EndLine

DiffusionSpec == DiffusionInit /\ [][DiffusionNext]_dvars

-----------------------------------------------------------------------------
(* The type invariant.                                                     *)
DiffusionTypeOK ==
  /\ w \in Nat /\ y \in Nat /\ drawing \in BOOLEAN /\ i \in 0 .. w /\ drift \in Int
  /\ w > 0 => /\ cur \in [Cells -> Int16s]
              /\ nxt \in [Cells -> Int16s]

(* The pixels of this line that have been drawn, and the cells of those    *)
(* that have not.                                                          *)
Drawn == IF Reverse THEN (w - i) .. (w - 1) ELSE 0 .. (i - 1)
ToDraw == IF drawing THEN {x + 1 : x \in Px \ Drawn} ELSE {}
Below == IF drawing THEN nxt ELSE cur

(***************************************************************************)
(* "Solid black and pure white are exact for every method"                 *)
(* (docs/halftone.md): whatever errors the pixels before it left behind,   *)
(* full ink is always drawn and no ink never is.  It rests on the error of *)
(* a cell staying within half of the ink, which the rounding of every      *)
(* share towards zero keeps from creeping over.                            *)
(***************************************************************************)
SolidExact ==
  ink # NoLine => \A x \in Drawn : /\ ink[x] = 255 => bits[x]
                                   /\ ink[x] = 0 => ~bits[x]

(***************************************************************************)
(* The tone is kept: the ink the page asked for and the ink it got differ  *)
(* by the errors still waiting to be spent, up to the rounding of the      *)
(* shares, less than four a pixel, and what leaves the page at its sides,  *)
(* eleven sixteenths of an error a line.                                   *)
(***************************************************************************)
ToneKept ==
  LET waiting == MapThenSumSet(LAMBDA c : cur[c], ToDraw)
                   + MapThenSumSet(LAMBDA c : Below[c], {x + 1 : x \in Px})
      lines == IF drawing THEN y + 1 ELSE y
      lost == drift - waiting
      most == 3 * w * lines + 87 * lines
  IN  w > 0 => lost \in -most .. most

(***************************************************************************)
(* No sum of errors leaves -127 .. 127, so that the conversion to int16_t  *)
(* never wraps and 7 * err never overflows, on any page.                   *)
(***************************************************************************)
ErrorsSmall ==
  \A c \in Cells : w > 0 => cur[c] \in -127 .. 127 /\ nxt[c] \in -127 .. 127
=============================================================================
