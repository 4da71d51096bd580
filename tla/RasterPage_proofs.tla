-------------------------- MODULE RasterPage_proofs -------------------------
(***************************************************************************)
(* The pixels of a page, for every width, length and ink, every imageable  *)
(* area, margin and raster, and every method of the presets.               *)
(*                                                                         *)
(* Error diffusion: no sum of errors leaves -127 .. 127.  It is not        *)
(* inductive.  A cell that may hold 127 before its pixel is reached        *)
(* overflows when the pixel behind adds its seven sixteenths, so the       *)
(* invariant (Rows) counts the sixteenths a cell has received: one, then   *)
(* five, then three of the line above, in the order of the scan, and seven *)
(* from the pixel behind.  Every share is at most its sixteenths of 127    *)
(* rounded towards zero: 7, 39, 23 and 55.                                 *)
(*                                                                         *)
(* The tone: every pixel hands on its error but for the rounding of its    *)
(* four shares, at most three, and but for the shares that leave the page  *)
(* at its sides, so the invariant (Tone) bounds what was lost after each   *)
(* pixel of a line.  It needs that a sum over a finite set changes by what *)
(* one of its terms does, in whatever order MapThenSumSet takes them.      *)
(*                                                                         *)
(* Screens: the invariant (ScreenOK) is that no rank is given twice, in    *)
(* the square of bayer that is doubled and among the positions clustered   *)
(* has taken, so that a finished cell has every rank once.                 *)
(*                                                                         *)
(* Pages: the geometry was taken from the raster (PageOK), and the ink of  *)
(* the last line is that of the raster's own pixels (LineOK).              *)
(***************************************************************************)
EXTENDS RasterPage, FiniteSetTheorems, FunctionTheorems, TLAPS

Within(e, b) == e \in -b .. b

(* With the scan at cell k going in direction dir: the cells it has not    *)
(* reached, and what a cell of this line's row and of the row below holds. *)
Ahead(c, k, dir) == IF dir = 1 THEN c > k ELSE c < k
CurBound(c, k, dir) == IF Ahead(c, k, dir) THEN 69 ELSE 124
NxtBound(c, k, dir) ==
  IF Ahead(c, k, dir) THEN 0 ELSE IF c = k THEN 7 ELSE IF c = k - dir THEN 46 ELSE 69

(* A row of the cells S: this line's, and the one below.                   *)
CurOK(S, errs, k, dir) ==
  errs \in [S -> Int] /\ \A c \in S : Within(errs[c], CurBound(c, k, dir))
NxtOK(S, errs, k, dir) ==
  errs \in [S -> Int] /\ \A c \in S : Within(errs[c], NxtBound(c, k, dir))

Counters ==
  /\ w \in Nat /\ y \in Nat /\ drawing \in BOOLEAN /\ i \in 0 .. w /\ drift \in Int
  /\ drawing => w > 0

(* The rows, by what each cell has received.                               *)
Received ==
  w > 0 =>
    /\ cur \in [Cells -> Int] /\ nxt \in [Cells -> Int]
    /\ ~drawing => \A c \in Cells : Within(cur[c], 69) /\ Within(nxt[c], 124)
    /\ drawing => CurOK(Cells, cur, X + 1, Dir) /\ NxtOK(Cells, nxt, X + 1, Dir)

(* The line that is drawn, or was drawn last.                              *)
Line ==
  /\ drawing => ink # NoLine
  /\ drawing => bits \in [Px -> BOOLEAN]
  /\ ink # NoLine => ink \in [Px -> 0 .. 255] /\ (~drawing => i = w)

Rows == Counters /\ Received /\ Line

-----------------------------------------------------------------------------
LEMMA SmallModulus ==
  ASSUME NEW n \in Int, NEW k \in Int, 0 <= n, n < k
  PROVE  n % k = n
  OBVIOUS

(* The conversion to int16_t keeps what an int16_t holds.                  *)
LEMMA Int16Keeps ==
  ASSUME NEW v \in Int, -32768 <= v, v <= 32767
  PROVE  Int16(v) = v
<1>1. (v + 32768) % 65536 = v + 32768
  BY SmallModulus
<1> QED
  BY <1>1 DEF Int16

(* A share is rounded towards zero, so the bounds of the shares do not add *)
(* up to more than the error itself.                                       *)
LEMMA ShareBound ==
  ASSUME NEW err \in -127 .. 127
  PROVE  /\ Within(Share(err, 7), 55) /\ Within(Share(err, 5), 39)
         /\ Within(Share(err, 3), 23) /\ Within(Share(err, 1), 7)
  BY DEF Within, Share, Quot

(* The error of a pixel is at most half of the ink.                        *)
LEMMA ErrorBound ==
  ASSUME NEW g \in 0 .. 255, NEW e \in -124 .. 124
  PROVE  /\ (g + e) - (IF Black(g + e) THEN 255 ELSE 0) \in -127 .. 127
         /\ g = 255 => Black(g + e)
         /\ g = 0 => ~Black(g + e)
  BY DEF Black

(* The cells in front of the scan are those beside it or further on.       *)
LEMMA AheadOf ==
  ASSUME NEW k \in Int, NEW dir \in {-1, 1}, NEW c \in Int
  PROVE  /\ Ahead(k + dir, k, dir) /\ ~Ahead(k, k, dir) /\ ~Ahead(k - dir, k, dir)
         /\ k + dir # k /\ k - dir # k /\ k + dir # k - dir
         /\ Ahead(c, k + dir, dir) <=> Ahead(c, k, dir) /\ c # k + dir
  BY DEF Ahead

(* This line's row after a pixel: the cell ahead has all it will receive.  *)
LEMMA CurRow ==
  ASSUME NEW S \in SUBSET Int, NEW errs, NEW k \in Int, NEW dir \in {-1, 1}, k + dir \in S,
         CurOK(S, errs, k, dir), NEW err \in -127 .. 127
  PROVE  CurOK(S, Add(errs, k + dir, Share(err, 7)), k + dir, dir)
<1> DEFINE new == Add(errs, k + dir, Share(err, 7))
<1> HIDE DEF new
<1>0. errs \in [S -> Int] /\ \A c \in S : Within(errs[c], CurBound(c, k, dir))
  BY DEF CurOK
<1>1. Share(err, 7) \in -55 .. 55
  BY ShareBound DEF Within
<1>2. errs[k + dir] \in -69 .. 69
  <2>1. CurBound(k + dir, k, dir) = 69
    BY AheadOf DEF CurBound
  <2> QED
    BY <1>0, <2>1 DEF Within
<1>3. /\ new \in [S -> Int] /\ new[k + dir] = errs[k + dir] + Share(err, 7)
      /\ \A d \in S \ {k + dir} : new[d] = errs[d]
  <2>1. Int16(errs[k + dir] + Share(err, 7)) = errs[k + dir] + Share(err, 7)
    BY <1>0, <1>1, <1>2, Int16Keeps
  <2>2. new = [errs EXCEPT ![k + dir] = errs[k + dir] + Share(err, 7)]
    BY <2>1 DEF new, Add
  <2> QED
    BY <1>0, <1>1, <1>2, <2>2
<1>4. ASSUME NEW c \in S PROVE Within(new[c], CurBound(c, k + dir, dir))
  <2>1. CASE c = k + dir
    <3>1. CurBound(c, k + dir, dir) = 124
      BY <2>1, AheadOf DEF CurBound
    <3>2. new[c] = errs[k + dir] + Share(err, 7)
      BY <1>3, <2>1
    <3>3. \A a \in -69 .. 69, b \in -55 .. 55 : a + b \in -124 .. 124
      OBVIOUS
    <3>4. errs[k + dir] + Share(err, 7) \in -124 .. 124
      BY <1>1, <1>2, <3>3, Zenon
    <3> QED
      BY <3>1, <3>2, <3>4, Zenon DEF Within
  <2>2. CASE c # k + dir
    <3>1. CurBound(c, k + dir, dir) = CurBound(c, k, dir)
      BY <2>2, AheadOf DEF CurBound
    <3> QED
      BY <1>0, <1>3, <2>2, <3>1
  <2> QED
    BY <2>1, <2>2
<1> QED
  BY <1>3, <1>4 DEF new, CurOK

(* The row below after a pixel: one, five and three sixteenths more.       *)
LEMMA NxtRow ==
  ASSUME NEW S \in SUBSET Int, NEW errs, NEW k \in S, NEW dir \in {-1, 1},
         k + dir \in S, k - dir \in S, NxtOK(S, errs, k, dir), NEW err \in -127 .. 127
  PROVE  NxtOK(S, Add(Add(Add(errs, k - dir, Share(err, 3)), k, Share(err, 5)),
                      k + dir, Share(err, 1)), k + dir, dir)
<1> DEFINE n1 == Add(errs, k - dir, Share(err, 3))
           n2 == Add(n1, k, Share(err, 5))
           new == Add(n2, k + dir, Share(err, 1))
<1> HIDE DEF n1, n2, new
<1>0. errs \in [S -> Int] /\ \A c \in S : Within(errs[c], NxtBound(c, k, dir))
  BY DEF NxtOK
<1>1. /\ Share(err, 5) \in -39 .. 39 /\ Share(err, 3) \in -23 .. 23
      /\ Share(err, 1) \in -7 .. 7
  BY ShareBound DEF Within
<1>2. k + dir # k /\ k - dir # k /\ k + dir # k - dir
  BY AheadOf
<1>3. errs[k - dir] \in -46 .. 46 /\ errs[k] \in -7 .. 7 /\ errs[k + dir] = 0
  <2>1. NxtBound(k - dir, k, dir) = 46
    BY AheadOf DEF NxtBound
  <2>2. NxtBound(k, k, dir) = 7
    BY AheadOf DEF NxtBound
  <2>3. NxtBound(k + dir, k, dir) = 0
    BY AheadOf DEF NxtBound
  <2> QED
    BY <1>0, <2>1, <2>2, <2>3 DEF Within
<1>4. /\ n1 \in [S -> Int] /\ n1[k - dir] = errs[k - dir] + Share(err, 3)
      /\ \A d \in S \ {k - dir} : n1[d] = errs[d]
  <2>1. Int16(errs[k - dir] + Share(err, 3)) = errs[k - dir] + Share(err, 3)
    BY <1>0, <1>1, <1>3, Int16Keeps
  <2>2. n1 = [errs EXCEPT ![k - dir] = errs[k - dir] + Share(err, 3)]
    BY <2>1 DEF n1, Add
  <2> QED
    BY <1>0, <1>1, <1>3, <2>2
<1>5. /\ n2 \in [S -> Int] /\ n2[k] = errs[k] + Share(err, 5)
      /\ \A d \in S \ {k} : n2[d] = n1[d]
  <2>1. n1[k] = errs[k]
    BY <1>2, <1>4
  <2>2. Int16(n1[k] + Share(err, 5)) = n1[k] + Share(err, 5)
    BY <1>1, <1>3, <1>4, <2>1, Int16Keeps
  <2>3. n2 = [n1 EXCEPT ![k] = n1[k] + Share(err, 5)]
    BY <2>2 DEF n2, Add
  <2> QED
    BY <1>1, <1>3, <1>4, <2>1, <2>3
<1>7. /\ new \in [S -> Int] /\ new[k + dir] = Share(err, 1)
      /\ \A d \in S \ {k + dir} : new[d] = n2[d]
  <2>1. n2[k + dir] = 0
    BY <1>2, <1>3, <1>4, <1>5
  <2>2. Int16(n2[k + dir] + Share(err, 1)) = n2[k + dir] + Share(err, 1)
    BY <1>1, <1>5, <2>1, Int16Keeps
  <2>3. new = [n2 EXCEPT ![k + dir] = n2[k + dir] + Share(err, 1)]
    BY <2>2 DEF new, Add
  <2> QED
    BY <1>1, <1>5, <2>1, <2>3
<1>8. ASSUME NEW c \in S PROVE Within(new[c], NxtBound(c, k + dir, dir))
  <2>0. (k + dir) - dir = k
    OBVIOUS
  <2>1. CASE c = k + dir
    <3>1. NxtBound(c, k + dir, dir) = 7
      BY <2>1, AheadOf DEF NxtBound
    <3> QED
      BY <1>1, <1>7, <2>1, <3>1 DEF Within
  <2>2. CASE c = k
    <3>1. NxtBound(c, k + dir, dir) = 46
      BY <1>2, <2>0, <2>2, AheadOf DEF NxtBound
    <3>2. new[c] = errs[k] + Share(err, 5)
      BY <1>2, <1>5, <1>7, <2>2
    <3>3. new[c] \in -46 .. 46
      BY <1>1, <1>3, <3>2
    <3> QED
      BY <3>1, <3>3 DEF Within
  <2>3. CASE c = k - dir
    <3>1. NxtBound(c, k + dir, dir) = 69
      BY <1>2, <2>0, <2>3, AheadOf DEF NxtBound
    <3>2. new[c] = errs[k - dir] + Share(err, 3)
      BY <1>2, <1>4, <1>5, <1>7, <2>3
    <3>3. new[c] \in -69 .. 69
      BY <1>1, <1>3, <3>2
    <3> QED
      BY <3>1, <3>3 DEF Within
  <2>4. CASE c # k /\ c # k + dir /\ c # k - dir
    <3>1. new[c] = errs[c]
      BY <1>4, <1>5, <1>7, <2>4
    <3>2. NxtBound(c, k + dir, dir) = NxtBound(c, k, dir)
      BY <2>0, <2>4, AheadOf DEF NxtBound
    <3> QED
      BY <1>0, <3>1, <3>2
  <2> QED
    BY <2>1, <2>2, <2>3, <2>4
<1> QED
  BY <1>7, <1>8 DEF n1, n2, new, NxtOK

-----------------------------------------------------------------------------
LEMMA InitRows == DiffusionInit => Rows /\ SolidExact
<1> SUFFICES ASSUME DiffusionInit PROVE Rows /\ SolidExact
  OBVIOUS
<1>1. Counters
  <2>1. drawing \in BOOLEAN /\ ~drawing
    BY Zenon DEF DiffusionInit
  <2> QED
    BY <2>1 DEF DiffusionInit, Counters
<1>2. Received /\ Line /\ SolidExact
  BY DEF DiffusionInit, Received, Line, SolidExact
<1> QED
  BY <1>1, <1>2 DEF Rows

(* A page begins without errors, whatever the memory held.                 *)
LEMMA StartDiffusionKeeps ==
  ASSUME Rows, NEW width \in Nat \ {0}, NEW g, StartDiffusion(width, g)
  PROVE  Rows' /\ (SolidExact => SolidExact')
<1>1. Counters' /\ Line' /\ SolidExact'
  BY DEF StartDiffusion, Rows, Counters, Line, SolidExact
<1>2. Received'
  <2>1. cur' = [c \in 0 .. (w' + 1) |-> 0] /\ nxt' = [c \in 0 .. (w' + 1) |-> 0]
    BY DEF StartDiffusion, Reset
  <2>2. drawing' = FALSE
    BY DEF StartDiffusion, Rows, Counters
  <2> QED
    BY <2>1, <2>2 DEF Received, Within, Cells
<1> QED
  BY <1>1, <1>2 DEF Rows

(* The row below is cleared; the other one has its nine sixteenths.        *)
LEMMA StartLineKeeps ==
  ASSUME Rows, NEW inks \in [Px -> 0 .. 255], StartLine(inks)
  PROVE  Rows' /\ (SolidExact => SolidExact')
<1>1. Counters'
  BY DEF StartLine, Rows, Counters
<1>2. w \in Nat /\ w > 0 /\ w' = w /\ y' = y /\ i' = 0 /\ drawing' /\ ~drawing
  BY DEF StartLine, Rows, Counters
<1>3. Received'
  <2>1. cur' = cur /\ nxt' = [c \in Cells |-> 0] /\ cur \in [Cells -> Int]
    BY <1>2 DEF StartLine, Rows, Received
  <2>2. \A c \in Cells : Within(cur[c], 69)
    BY <1>2 DEF Rows, Received
  <2>3. Cells' = Cells
    BY <1>2 DEF Cells
  <2>4. \A c \in Cells : /\ CurBound(c, X' + 1, Dir') \in {69, 124}
                         /\ NxtBound(c, X' + 1, Dir') \in {0, 7, 46, 69}
    BY DEF CurBound, NxtBound
  <2>5. CurOK(Cells, cur', X' + 1, Dir') /\ NxtOK(Cells, nxt', X' + 1, Dir')
    BY <2>1, <2>2, <2>4 DEF Within, CurOK, NxtOK
  <2> QED
    BY <1>2, <2>1, <2>3, <2>5 DEF Received
<1>4. Line'
  <2>1. ink' = inks /\ bits' = [x \in Px |-> FALSE] /\ Px' = Px
    BY <1>2 DEF StartLine, Px
  <2>2. inks # NoLine
    <3>1. 0 \in DOMAIN inks
      BY <1>2 DEF Px
    <3>2. DOMAIN NoLine = {}
      BY DEF NoLine
    <3> QED
      BY <3>1, <3>2
  <2> QED
    BY <1>2, <2>1, <2>2 DEF Line
<1>5. SolidExact'
  <2>1. Drawn' = {}
    BY <1>2 DEF Drawn
  <2> QED
    BY <2>1 DEF SolidExact
<1> QED
  BY <1>1, <1>3, <1>4, <1>5 DEF Rows

(* The rows change places: what was complete becomes the line to draw.     *)
LEMMA EndLineKeeps ==
  ASSUME Rows, EndLine
  PROVE  Rows' /\ (SolidExact => SolidExact')
<1>1. /\ w \in Nat /\ w > 0 /\ w' = w /\ i = w /\ i' = w /\ y \in Nat /\ y' = y + 1
      /\ drawing /\ ~drawing' /\ ink' = ink /\ bits' = bits
      /\ cur' = nxt /\ nxt' = cur
  BY DEF EndLine, Rows, Counters
<1>2. Counters'
  <2>1. drift' = drift /\ drift \in Int
    BY DEF EndLine, Rows, Counters
  <2>2. drawing' \in BOOLEAN
    BY Zenon DEF EndLine
  <2> QED
    BY <1>1, <2>1, <2>2 DEF Counters
<1>3. Received'
  <2>1. cur \in [Cells -> Int] /\ nxt \in [Cells -> Int] /\ Cells' = Cells
    BY <1>1 DEF Rows, Received, Cells
  <2>2. \A c \in Cells : /\ CurBound(c, X + 1, Dir) \in {69, 124}
                         /\ NxtBound(c, X + 1, Dir) \in {0, 7, 46, 69}
    BY DEF CurBound, NxtBound
  <2>3. \A c \in Cells : /\ Within(cur[c], CurBound(c, X + 1, Dir))
                         /\ Within(nxt[c], NxtBound(c, X + 1, Dir))
    BY <1>1 DEF Rows, Received, CurOK, NxtOK
  <2>4. \A c \in Cells : Within(nxt[c], 69) /\ Within(cur[c], 124)
    BY <2>2, <2>3 DEF Within
  <2> QED
    BY <1>1, <2>1, <2>4 DEF Received
<1>4. Line'
  BY <1>1 DEF Rows, Line, Px
<1>5. SolidExact => SolidExact'
  <2>1. Drawn = Px /\ Drawn' = Px
    BY <1>1 DEF Drawn, Px
  <2> QED
    BY <1>1, <2>1 DEF SolidExact
<1> QED
  BY <1>2, <1>3, <1>4, <1>5 DEF Rows

(* Where the scan is, and that a pixel moves it by Dir.                    *)
LEMMA Scan ==
  ASSUME Counters, drawing, i < w
  PROVE  /\ X \in Px /\ X \in Int /\ Dir \in {-1, 1} /\ Cells \subseteq Int
         /\ X + 1 \in Cells /\ X + 1 + Dir \in Cells /\ X + 1 - Dir \in Cells
  BY DEF Counters, X, Px, Dir, Cells, Reverse

LEMMA ScanMoves ==
  ASSUME Counters, drawing, i < w, i' = i + 1, w' = w, y' = y
  PROVE  /\ X' + 1 = X + 1 + Dir /\ Dir' = Dir /\ Cells' = Cells /\ Px' = Px
         /\ Drawn' = Drawn \union {X}
<1>1. X' + 1 = X + 1 + Dir /\ Dir' = Dir /\ Cells' = Cells /\ Px' = Px
  BY DEF Counters, X, Px, Dir, Cells, Reverse
<1>2. Drawn' = Drawn \union {X}
  BY DEF Counters, X, Drawn, Reverse
<1> QED
  BY <1>1, <1>2

LEMMA DrawPixelKeeps ==
  ASSUME Rows, DrawPixel
  PROVE  Rows' /\ (SolidExact => SolidExact')
<1> DEFINE v == ink[X] + cur[X + 1]
           err == v - IF Black(v) THEN 255 ELSE 0
<1>1. /\ drawing /\ i < w
      /\ bits' = [bits EXCEPT ![X] = Black(v)]
      /\ cur' = Add(cur, X + 1 + Dir, Share(err, 7))
      /\ nxt' = Add(Add(Add(nxt, X + 1 - Dir, Share(err, 3)), X + 1, Share(err, 5)),
                    X + 1 + Dir, Share(err, 1))
      /\ drift' = drift + ink[X] - IF Black(v) THEN 255 ELSE 0
      /\ i' = i + 1
      /\ UNCHANGED <<w, y, drawing, ink>>
  BY DEF DrawPixel
<1> HIDE DEF v, err
<1>2. w' = w /\ y' = y /\ drawing' = drawing /\ ink' = ink
  BY <1>1
<1>3. /\ Counters /\ w \in Nat /\ w > 0 /\ i \in 0 .. w /\ drift \in Int
      /\ cur \in [Cells -> Int] /\ nxt \in [Cells -> Int]
      /\ ink \in [Px -> 0 .. 255] /\ bits \in [Px -> BOOLEAN] /\ ink # NoLine
  BY <1>1 DEF Rows, Counters, Received, Line
<1>4. CurOK(Cells, cur, X + 1, Dir) /\ NxtOK(Cells, nxt, X + 1, Dir)
  BY <1>1, <1>3 DEF Rows, Received
<1>5. /\ X \in Px /\ X \in Int /\ Dir \in {-1, 1} /\ Cells \subseteq Int
      /\ X + 1 \in Cells /\ X + 1 + Dir \in Cells /\ X + 1 - Dir \in Cells
  BY <1>1, <1>3, Scan
<1>6. /\ X' + 1 = X + 1 + Dir /\ Dir' = Dir /\ Cells' = Cells /\ Px' = Px
      /\ Drawn' = Drawn \union {X}
  BY <1>1, <1>2, <1>3, ScanMoves
<1>7. cur[X + 1] \in -124 .. 124 /\ ink[X] \in 0 .. 255
  <2>1. /\ CurBound(X + 1, X + 1, Dir) \in {69, 124}
        /\ Within(cur[X + 1], CurBound(X + 1, X + 1, Dir))
    BY <1>4, <1>5 DEF CurBound, CurOK
  <2>2. cur[X + 1] \in -124 .. 124
    BY <2>1 DEF Within
  <2> QED
    BY <1>3, <1>5, <2>2
<1>8. /\ err \in -127 .. 127
      /\ ink[X] = 255 => Black(v)
      /\ ink[X] = 0 => ~Black(v)
  BY <1>7, ErrorBound DEF v, err
<1>9. Counters'
  <2>1. drift' \in Int
    BY <1>1, <1>3, <1>7
  <2> QED
    BY <1>1, <1>2, <1>3, <2>1 DEF Counters
<1>10. Received'
  <2>1. CurOK(Cells, cur', X + 1 + Dir, Dir)
    BY <1>1, <1>4, <1>5, <1>8, CurRow
  <2>2. NxtOK(Cells, nxt', X + 1 + Dir, Dir)
    <3>0. nxt' = Add(Add(Add(nxt, X + 1 - Dir, Share(err, 3)), X + 1, Share(err, 5)),
                     X + 1 + Dir, Share(err, 1))
      BY <1>1
    <3>1. PICK k : k = X + 1
      OBVIOUS
    <3>2. /\ Cells \in SUBSET Int /\ k \in Cells /\ Dir \in {-1, 1} /\ k + Dir \in Cells
          /\ k - Dir \in Cells /\ NxtOK(Cells, nxt, k, Dir) /\ err \in -127 .. 127
      BY <1>4, <1>5, <1>8, <3>1
    <3>3. nxt' = Add(Add(Add(nxt, k - Dir, Share(err, 3)), k, Share(err, 5)),
                     k + Dir, Share(err, 1))
      BY <1>5, <3>0, <3>1
    <3>4. NxtOK(Cells, nxt', k + Dir, Dir)
      BY <3>2, <3>3, NxtRow
    <3> QED
      BY <3>1, <3>4
  <2> QED
    BY <1>1, <1>2, <1>6, <2>1, <2>2 DEF Received, CurOK, NxtOK
<1>11. Line'
  <2>1. bits' \in [Px -> BOOLEAN]
    <3>1. Black(v) \in BOOLEAN
      BY DEF Black
    <3> QED
      BY <1>1, <1>3, <1>5, <3>1
  <2> QED
    BY <1>1, <1>2, <1>3, <1>6, <2>1 DEF Line
<1>12. SolidExact => SolidExact'
  <2>1. ASSUME SolidExact, NEW x \in Drawn'
        PROVE  (ink[x] = 255 => bits'[x]) /\ (ink[x] = 0 => ~bits'[x])
    <3>1. CASE x = X
      <4>1. bits'[x] = Black(v)
        BY <1>1, <1>3, <1>5, <3>1
      <4> QED
        BY <1>8, <3>1, <4>1
    <3>2. CASE x # X
      <4>1. x \in Drawn
        BY <1>6, <3>2
      <4>2. Drawn \subseteq Px
        BY <1>3 DEF Drawn, Px
      <4>3. bits'[x] = bits[x]
        BY <1>1, <1>3, <3>2, <4>1, <4>2
      <4> QED
        BY <1>3, <2>1, <4>1, <4>3 DEF SolidExact
    <3> QED
      BY <3>1, <3>2
  <2> QED
    BY <1>2, <2>1 DEF SolidExact
<1> QED
  BY <1>9, <1>10, <1>11, <1>12 DEF Rows

-----------------------------------------------------------------------------
(* Every step of floyd_steinberg and of the calls around it.               *)
LEMMA StepKeeps ==
  ASSUME Rows, SolidExact, [DiffusionNext]_dvars
  PROVE  Rows' /\ SolidExact'
<1> SUFFICES Rows' /\ (SolidExact => SolidExact')
  OBVIOUS
<1>1. ASSUME w' \in Nat \ {0}, NEW g \in Garbage, StartDiffusion(w', g)
      PROVE  Rows' /\ (SolidExact => SolidExact')
  <2>1. PICK width : width = w'
    OBVIOUS
  <2> QED
    BY <1>1, <2>1, StartDiffusionKeeps
<1>2. ASSUME ink' \in [Px -> 0 .. 255], StartLine(ink')
      PROVE  Rows' /\ (SolidExact => SolidExact')
  <2>1. PICK inks : inks = ink'
    OBVIOUS
  <2> QED
    BY <1>2, <2>1, StartLineKeeps
<1>3. CASE UNCHANGED dvars
  BY <1>3 DEF dvars, Rows, Counters, Received, Line, SolidExact, Cells, Px, X, Dir,
              Reverse, Drawn
<1> QED
  BY <1>1, <1>2, <1>3, DrawPixelKeeps, EndLineKeeps DEF DiffusionNext

LEMMA RowsAreEnough == Rows => ErrorsSmall
<1> SUFFICES ASSUME Rows, w > 0, NEW c \in Cells
             PROVE  cur[c] \in -127 .. 127 /\ nxt[c] \in -127 .. 127
  BY DEF ErrorsSmall
<1>1. cur[c] \in Int /\ nxt[c] \in Int /\ drawing \in BOOLEAN
  BY DEF Rows, Received, Counters
<1>2. /\ CurBound(c, X + 1, Dir) \in {69, 124}
      /\ NxtBound(c, X + 1, Dir) \in {0, 7, 46, 69}
  BY DEF CurBound, NxtBound
<1>3. CASE drawing
  BY <1>1, <1>2, <1>3 DEF Rows, Received, Within, CurOK, NxtOK
<1>4. CASE ~drawing
  BY <1>1, <1>4 DEF Rows, Received, Within
<1> QED
  BY <1>3, <1>4

(***************************************************************************)
(* floyd_steinberg, for every width, number of lines and ink: no sum of    *)
(* errors in err_cur or err_next leaves -127 .. 127, so the casts to       *)
(* int16_t lose nothing.                                                   *)
(***************************************************************************)
THEOREM ErrorsSmallHolds == DiffusionSpec => []ErrorsSmall
<1>1. DiffusionSpec => [](Rows /\ SolidExact)
  BY InitRows, StepKeeps, PTL DEF DiffusionSpec
<1> QED
  BY <1>1, RowsAreEnough, PTL

(***************************************************************************)
(* floyd_steinberg, for every width, number of lines and ink: a pixel with *)
(* all of the ink is black and one without ink is white, whatever errors   *)
(* its neighbours have handed on.                                          *)
(***************************************************************************)
THEOREM SolidExactHolds == DiffusionSpec => []SolidExact
<1>1. DiffusionSpec => [](Rows /\ SolidExact)
  BY InitRows, StepKeeps, PTL DEF DiffusionSpec
<1> QED
  BY <1>1, RowsAreEnough, PTL

-----------------------------------------------------------------------------
(* The page: where it is cut, and how many of its lines were passed on.    *)
Shown ==
  IF row < geo.y0 THEN 0
  ELSE IF row <= geo.y0 + geo.height THEN row - geo.y0 ELSE geo.height

PageOK ==
  /\ at \in {"job", "page"} /\ method \in Methods /\ pages \in 0 .. MaxPages
  /\ fmt \in Formats /\ raster \in [w : Nat \ {0}, h : Nat \ {0}]
  /\ row \in 0 .. raster.h
  /\ geo \in [x0 : Nat, y0 : Nat, width : Nat, height : Nat]
  /\ geo.x0 + geo.width <= raster.w /\ geo.y0 + geo.height <= raster.h
  /\ geo.height <= Printable.h
  /\ w = geo.width
  /\ rows \in Nat /\ rows + (IF drawing THEN 1 ELSE 0) = Shown
  /\ drawing => at = "page"
  /\ at = "page" => /\ geo.width > 0
                    /\ geo.x0 = Offset(raster.w, Printable.w, Margin.left)

(* What is known of the last line that was halftoned.                      *)
LineOK ==
  at = "page" /\ LineShows =>
    /\ line \in [0 .. (raster.w - 1) -> Pixels(fmt)]
    /\ ink # NoLine /\ ink = InkOf(line)

(* The matrix while it is ranked: no rank is given twice.                  *)
OneToOne(f, S) == \A p, q \in S : f[p] = f[q] => p = q

Square(s) == {p \in Positions : p % cell < s /\ p \div cell < s}

Doubling ==
  /\ cell \in {4, 8} /\ done \in {1, 2, 4, 8} /\ done <= cell
  /\ matrix \in [Positions -> 0 .. (done * done - 1)]
  /\ OneToOne(matrix, Square(done))

Growing ==
  /\ cell \in 4 .. 11 /\ done \in Nat /\ done <= cell * cell
  /\ taken \subseteq Positions /\ Cardinality(taken) = done
  /\ matrix \in [Positions -> 0 .. (cell * cell - 1)]
  /\ \A p \in taken : matrix[p] < done
  /\ OneToOne(matrix, taken)

(* And when its ranks, one for each position, have become thresholds.      *)
Ranks == [Positions -> 0 .. (cell * cell - 1)]

Thresholds ==
  /\ cell \in 4 .. 11
  /\ \E rank \in Ranks :
       /\ OneToOne(rank, Positions)
       /\ matrix = [p \in Positions |-> Scaled(rank[p], cell * cell)]

ScreenOK ==
  /\ stage = "bayer" => Doubling
  /\ stage = "clustered" => Growing
  /\ stage = "ready" /\ cell # 0 => Thresholds
  /\ stage = "ready" /\ cell = 0 => matrix = NoMatrix

ScreenUsed ==
  at = "page" => /\ stage \in {"bayer", "clustered", "ready"}
                 /\ method.kind \in {"bayer", "clustered"} => cell # 0

-----------------------------------------------------------------------------
(* The parameters for which black and white are exact: all that a preset   *)
(* sets.  A threshold of 255, which --threshold 255 gives, leaves full ink *)
(* white, and so does a cell of more than eleven (ScreenSolid).            *)
Exact ==
  \A m \in Methods :
    /\ m.kind \in {"floyd-steinberg", "threshold", "bluenoise", "bayer", "clustered"}
    /\ m.kind = "threshold" => m.n \in 0 .. 254
    /\ m.kind = "bayer" => m.n \in {4, 8}
    /\ m.kind = "clustered" => m.n \in 4 .. 11

(* The geometry of an axis: what is read lies in the raster, and it begins *)
(* where the imageable area does.                                          *)
LEMMA GeometryCuts ==
  ASSUME NEW r \in Nat \ {0}, NEW area \in Nat \ {0}, NEW margin \in Nat,
         NEW g, g = geometry(r, area, margin)
  PROVE  /\ g.start \in Nat /\ g.size \in Nat \ {0}
         /\ g.start + g.size <= r /\ g.size <= area
         /\ g.start = Offset(r, area, margin)
<1>1. g.start = Offset(r, area, margin)
  BY DEF geometry, Offset
<1>2. g.size = IF r - g.start < area THEN r - g.start ELSE area
  BY DEF geometry
<1>3. g.start \in Nat /\ (g.start = 0 \/ g.start + area <= r)
  BY <1>1 DEF Offset
<1> QED
  BY <1>1, <1>2, <1>3

(* The gray of a pixel is a gray level.                                    *)
LEMMA GrayLevel ==
  ASSUME NEW f \in Formats, NEW pixel \in Pixels(f)
  PROVE  line_to_gray(f, pixel) \in Gray
<1>1. Gray \subseteq 0 .. 255 /\ 0 \in Gray /\ 255 \in Gray
  BY RasterPageAssumption
<1>2. CASE f = "SGRAY_8"
  BY <1>2 DEF Pixels, line_to_gray
<1>3. CASE f = "BLACK_8"
  <2>1. PICK g \in Gray : pixel = 255 - g
    BY <1>3 DEF Pixels
  <2>2. 255 - pixel = g
    BY <1>1, <2>1
  <2> QED
    BY <1>3, <2>2 DEF line_to_gray
<1>4. CASE f = "BLACK_1"
  BY <1>1, <1>4 DEF Pixels, line_to_gray
<1> QED
  BY <1>2, <1>3, <1>4 DEF Formats

(* The ink of a line is that of its own pixels: none is read past its end. *)
LEMMA InkTyped ==
  ASSUME PageOK, NEW pixels \in [0 .. (raster.w - 1) -> Pixels(fmt)]
  PROVE  /\ InkOf(pixels) \in [Px -> 0 .. 255]
         /\ \A x \in Px : /\ geo.x0 + x \in 0 .. (raster.w - 1)
                          /\ InkOf(pixels)[x] = Lut[line_to_gray(fmt, pixels[geo.x0 + x])]
<1> DEFINE gray == [x \in DOMAIN pixels |-> line_to_gray(fmt, pixels[x])]
           fitted == fit_line(gray, geo.x0, geo.width)
<1>1. /\ fmt \in Formats /\ w = geo.width /\ raster.w \in Nat
      /\ geo.x0 \in Nat /\ geo.width \in Nat /\ geo.x0 + geo.width <= raster.w
  BY DEF PageOK
<1>2. DOMAIN gray = 0 .. (raster.w - 1) /\ \A x \in DOMAIN gray : gray[x] \in Gray
  BY <1>1, GrayLevel
<1>3. \A x \in Px : geo.x0 + x \in 0 .. (raster.w - 1)
  BY <1>1 DEF Px
<1>4. DOMAIN fitted = Px /\ \A x \in Px : fitted[x] = gray[geo.x0 + x]
  BY <1>1, <1>2, <1>3 DEF fit_line, Px
<1>5. InkOf(pixels) = [x \in Px |-> Lut[fitted[x]]]
  BY <1>4 DEF InkOf
<1>6. Lut \in [Gray -> 0 .. 255]
  BY RasterPageAssumption
<1>7. \A x \in Px : fitted[x] \in Gray /\ fitted[x] = line_to_gray(fmt, pixels[geo.x0 + x])
  BY <1>2, <1>3, <1>4
<1> HIDE DEF fitted
<1> QED
  BY <1>3, <1>5, <1>6, <1>7

-----------------------------------------------------------------------------
(* A call that touches neither halftoner nor page.                         *)
LEMMA RowsStay ==
  ASSUME Rows, UNCHANGED dvars
  PROVE  Rows' /\ (SolidExact => SolidExact')
<1>1. /\ w' = w /\ y' = y /\ drawing' = drawing /\ i' = i /\ ink' = ink /\ bits' = bits
      /\ cur' = cur /\ nxt' = nxt /\ drift' = drift
  BY DEF dvars
<1> QED
  BY <1>1 DEF Rows, Counters, Received, Line, SolidExact, Cells, Px, X, Dir, Reverse, Drawn

LEMMA InitPage == Init => PageOK /\ LineOK
<1> SUFFICES ASSUME Init PROVE PageOK /\ LineOK
  OBVIOUS
<1>1. /\ at = "job" /\ method \in Methods /\ pages = 0 /\ fmt = "SGRAY_8"
      /\ raster = [w |-> 1, h |-> 1] /\ geo = NoGeo /\ row = 0 /\ rows = 0
      /\ w = 0 /\ drawing = FALSE
  BY DEF Init, DiffusionInit
<1>2. Printable \in [w : Nat \ {0}, h : Nat \ {0}] /\ MaxPages \in Nat
  BY RasterPageAssumption
<1> QED
  BY <1>1, <1>2 DEF PageOK, LineOK, Formats, NoGeo, Shown

(* cb_rstartpage                                                           *)
LEMMA StartPageKeeps ==
  ASSUME Rows, PageOK, NEW f \in Formats, NEW r \in Rasters, NEW g, cb_rstartpage(f, r, g)
  PROVE  /\ Rows' /\ (SolidExact => SolidExact')
         /\ PageOK' /\ LineOK'
<1> DEFINE gx == geometry(r.w, Printable.w, Margin.left)
           gy == geometry(r.h, Printable.h, Margin.top)
<1>1. /\ at = "job" /\ pages < MaxPages
      /\ at' = "page" /\ pages' = pages + 1 /\ fmt' = f /\ raster' = r
      /\ geo' = [x0 |-> gx.start, y0 |-> gy.start,
                 width |-> gx.size, height |-> gy.size]
      /\ row' = 0 /\ rows' = 0 /\ method' = method
      /\ StartDiffusion(gx.size, g)
  BY DEF cb_rstartpage
<1>2. /\ Printable.w \in Nat \ {0} /\ Printable.h \in Nat \ {0}
      /\ Margin.left \in Nat /\ Margin.top \in Nat /\ MaxPages \in Nat
      /\ r \in [w : Nat \ {0}, h : Nat \ {0}] /\ r.w \in Nat \ {0} /\ r.h \in Nat \ {0}
  BY RasterPageAssumption
<1>3. /\ gx.start \in Nat /\ gx.size \in Nat \ {0} /\ gx.start + gx.size <= r.w
      /\ gx.start = Offset(r.w, Printable.w, Margin.left)
  BY <1>2, GeometryCuts
<1>4. /\ gy.start \in Nat /\ gy.size \in Nat \ {0} /\ gy.start + gy.size <= r.h
      /\ gy.size <= Printable.h
  BY <1>2, GeometryCuts
<1> HIDE DEF gx, gy
<1>5. Rows' /\ (SolidExact => SolidExact')
  BY <1>1, <1>3, StartDiffusionKeeps
<1>6. w' = gx.size /\ drawing' = FALSE
  BY <1>1 DEF StartDiffusion, Rows, Counters
<1>7. /\ geo'.x0 = gx.start /\ geo'.y0 = gy.start
      /\ geo'.width = gx.size /\ geo'.height = gy.size
  BY <1>1
<1>8. PageOK'
  <2>1. pages \in Nat /\ pages' \in 0 .. MaxPages /\ method \in Methods
    BY <1>1, <1>2 DEF PageOK
  <2>2. Shown' = 0
    BY <1>1, <1>4, <1>7 DEF Shown
  <2>3. geo' \in [x0 : Nat, y0 : Nat, width : Nat, height : Nat]
    BY <1>1, <1>3, <1>4
  <2>4. row' \in 0 .. raster'.h
    BY <1>1, <1>2
  <2> QED
    BY <1>1, <1>2, <1>3, <1>4, <1>6, <1>7, <2>1, <2>2, <2>3, <2>4 DEF PageOK
<1>9. LineOK'
  BY <1>1, <1>4, <1>7 DEF LineOK, LineShows
<1> QED
  BY <1>5, <1>8, <1>9

(* The page stays where it is while its lines are taken.                   *)
LEMMA PageStays ==
  ASSUME PageOK, UNCHANGED <<at, method, pages, fmt, raster, geo, w>>,
         row' \in 0 .. raster.h, rows' \in Nat,
         rows' + (IF drawing' THEN 1 ELSE 0) = Shown', drawing' => at = "page"
  PROVE  PageOK'
  BY DEF PageOK

LEMMA MakeScreenKeeps ==
  ASSUME Rows, PageOK, LineOK, UNCHANGED <<dvars, pvars>>
  PROVE  /\ Rows' /\ (SolidExact => SolidExact')
         /\ PageOK' /\ LineOK'
<1>1. UNCHANGED dvars
  OBVIOUS
<1>2. /\ at' = at /\ method' = method /\ pages' = pages /\ fmt' = fmt /\ raster' = raster
      /\ geo' = geo /\ line' = line /\ row' = row /\ rows' = rows
      /\ w' = w /\ drawing' = drawing /\ ink' = ink
  BY DEF dvars, pvars
<1> QED
  BY <1>1, <1>2, RowsStay DEF PageOK, LineOK, LineShows, InkOf, Shown

(* A line in the margin.                                                   *)
LEMMA SkipLineKeeps ==
  ASSUME Rows, PageOK, LineOK, SkipLine
  PROVE  /\ Rows' /\ (SolidExact => SolidExact')
         /\ PageOK' /\ LineOK'
<1>1. /\ at = "page" /\ ~drawing /\ row < raster.h /\ InMargin
      /\ row' = row + 1 /\ rows' = rows
      /\ UNCHANGED <<at, method, pages, fmt, raster, geo>> /\ UNCHANGED dvars
  BY DEF SkipLine, TakeLine
<1>2. drawing' = drawing /\ w' = w
  BY <1>1 DEF dvars
<1>3. /\ row \in 0 .. raster.h /\ raster.h \in Nat /\ geo.y0 \in Nat /\ geo.height \in Nat
      /\ rows \in Nat /\ rows + (IF drawing THEN 1 ELSE 0) = Shown
  BY DEF PageOK
<1>4. Shown' = Shown
  BY <1>1, <1>3 DEF Shown, InMargin
<1>5. PageOK'
  <2>1. row' \in 0 .. raster.h /\ rows' \in Nat
    BY <1>1, <1>3
  <2>2. rows' + (IF drawing' THEN 1 ELSE 0) = Shown'
    BY <1>1, <1>2, <1>3, <1>4
  <2> QED
    BY <1>1, <1>2, <2>1, <2>2, PageStays
<1>6. ~LineShows'
  BY <1>1, <1>3 DEF LineShows, InMargin
<1> QED
  BY <1>1, <1>5, <1>6, RowsStay DEF LineOK

(* What holds of a line that is halftoned.                                 *)
LEMMA LineTaken ==
  ASSUME PageOK, ~InMargin, row < raster.h, ~drawing
  PROVE  /\ row \in Nat /\ geo.y0 \in Nat /\ geo.height \in Nat /\ rows \in Nat
         /\ row + 1 \in 0 .. raster.h
         /\ rows = row - geo.y0 /\ row + 1 > geo.y0 /\ row + 1 <= geo.y0 + geo.height
<1>1. /\ row \in 0 .. raster.h /\ raster.h \in Nat /\ geo.y0 \in Nat /\ geo.height \in Nat
      /\ rows \in Nat /\ rows + (IF drawing THEN 1 ELSE 0) = Shown
  BY DEF PageOK
<1> QED
  BY <1>1 DEF InMargin, Shown

(* The line that is kept belongs to the page.                              *)
LEMMA LineKept ==
  ASSUME PageOK, NEW pixels \in [0 .. (raster.w - 1) -> Pixels(fmt)],
         UNCHANGED <<fmt, raster, geo>>, line' = pixels, ink' = InkOf(pixels), w > 0
  PROVE  LineOK'
<1>1. fmt' = fmt /\ raster' = raster /\ geo' = geo
  OBVIOUS
<1>2. InkOf(pixels) # NoLine
  <2>1. DOMAIN InkOf(pixels) = Px /\ 0 \in Px
    <3>1. w \in Nat
      BY DEF PageOK
    <3> QED
      BY <3>1, InkTyped DEF Px
  <2>2. DOMAIN NoLine = {}
    BY DEF NoLine
  <2> QED
    BY <2>1, <2>2
<1>3. (InkOf(line))' = InkOf(pixels)
  BY <1>1 DEF InkOf
<1> QED
  BY <1>1, <1>2, <1>3 DEF LineOK

(* Where a line of another method than error diffusion has its dots.       *)
DotsExact(inks, dots) ==
  \A x \in Px : /\ inks[x] = 255 => dots[x]
                /\ inks[x] = 0 => ~dots[x]

LEMMA CompareLineKeeps ==
  ASSUME Rows, PageOK, NEW pixels \in [0 .. (raster.w - 1) -> Pixels(fmt)],
         CompareLine(pixels)
  PROVE  /\ Rows' /\ (DotsExact(ink', bits') => SolidExact')
         /\ PageOK' /\ LineOK'
<1>1. /\ at = "page" /\ ~drawing /\ row < raster.h /\ ~InMargin
      /\ row' = row + 1 /\ rows' = rows + 1 /\ line' = pixels
      /\ UNCHANGED <<at, method, pages, fmt, raster, geo>>
      /\ ink' = InkOf(pixels) /\ i' = w
      /\ w' = w /\ y' = y /\ drawing' = drawing /\ cur' = cur /\ nxt' = nxt /\ drift' = drift
  BY DEF CompareLine, TakeLine
<1>2. /\ row \in Nat /\ geo.y0 \in Nat /\ geo.height \in Nat /\ rows \in Nat
      /\ row + 1 \in 0 .. raster.h
      /\ rows = row - geo.y0 /\ row + 1 > geo.y0 /\ row + 1 <= geo.y0 + geo.height
  BY <1>1, LineTaken
<1>3. w \in Nat /\ w > 0 /\ InkOf(pixels) \in [Px -> 0 .. 255]
  BY <1>1, InkTyped DEF PageOK
<1>4. PageOK'
  <2>1. Shown' = row + 1 - geo.y0
    BY <1>1, <1>2 DEF Shown
  <2>2. rows' + (IF drawing' THEN 1 ELSE 0) = Shown'
    BY <1>1, <1>2, <2>1
  <2> QED
    BY <1>1, <1>2, <2>2, PageStays
<1>5. LineOK'
  BY <1>1, <1>3, LineKept
<1>6. Px' = Px /\ Cells' = Cells /\ Drawn' = Px
  BY <1>1, <1>3 DEF Px, Cells, Drawn
<1>7. Counters' /\ Received' /\ Line'
  <2>1. Counters'
    BY <1>1, <1>3 DEF Rows, Counters
  <2>2. Received'
    BY <1>1, <1>6 DEF Rows, Received
  <2> QED
    BY <1>1, <1>3, <1>6, <2>1, <2>2 DEF Line
<1>8. DotsExact(ink', bits') => SolidExact'
  BY <1>6 DEF DotsExact, SolidExact
<1> QED
  BY <1>4, <1>5, <1>7, <1>8 DEF Rows

LEMMA DiffuseLineKeeps ==
  ASSUME Rows, PageOK, NEW pixels \in [0 .. (raster.w - 1) -> Pixels(fmt)],
         DiffuseLine(pixels)
  PROVE  /\ Rows' /\ (SolidExact => SolidExact')
         /\ PageOK' /\ LineOK'
<1>1. /\ at = "page" /\ ~drawing /\ row < raster.h /\ ~InMargin
      /\ row' = row + 1 /\ rows' = rows /\ line' = pixels
      /\ UNCHANGED <<at, method, pages, fmt, raster, geo>>
      /\ StartLine(InkOf(pixels))
      /\ ink' = InkOf(pixels) /\ w' = w /\ drawing' = TRUE
  BY DEF DiffuseLine, TakeLine, StartLine
<1>2. /\ row \in Nat /\ geo.y0 \in Nat /\ geo.height \in Nat /\ rows \in Nat
      /\ row + 1 \in 0 .. raster.h
      /\ rows = row - geo.y0 /\ row + 1 > geo.y0 /\ row + 1 <= geo.y0 + geo.height
  BY <1>1, LineTaken
<1>3. w \in Nat /\ w > 0 /\ InkOf(pixels) \in [Px -> 0 .. 255]
  BY <1>1, InkTyped DEF PageOK
<1>4. PageOK'
  <2>1. Shown' = row + 1 - geo.y0
    BY <1>1, <1>2 DEF Shown
  <2>2. rows' + (IF drawing' THEN 1 ELSE 0) = Shown'
    BY <1>1, <1>2, <2>1
  <2> QED
    BY <1>1, <1>2, <2>2, PageStays
<1>5. LineOK'
  BY <1>1, <1>3, LineKept
<1>6. Rows' /\ (SolidExact => SolidExact')
  BY <1>1, <1>3, StartLineKeeps
<1> QED
  BY <1>4, <1>5, <1>6

LEMMA LineStays ==
  ASSUME LineOK, UNCHANGED <<at, fmt, raster, geo, line, row, ink>>
  PROVE  LineOK'
<1>1. /\ at' = at /\ fmt' = fmt /\ raster' = raster /\ geo' = geo /\ line' = line
      /\ row' = row /\ ink' = ink
  OBVIOUS
<1> QED
  BY <1>1 DEF LineOK, LineShows, InkOf

LEMMA DiffuseKeeps ==
  ASSUME Rows, PageOK, LineOK, Diffuse
  PROVE  /\ Rows' /\ (SolidExact => SolidExact')
         /\ PageOK' /\ LineOK'
<1>0. /\ row \in 0 .. raster.h /\ rows \in Nat /\ rows + (IF drawing THEN 1 ELSE 0) = Shown
      /\ drawing => at = "page"
  BY DEF PageOK
<1>1. ASSUME DrawPixel, UNCHANGED <<svars, pvars>>
      PROVE  Rows' /\ (SolidExact => SolidExact') /\ PageOK' /\ LineOK'
  <2>1. /\ at' = at /\ method' = method /\ pages' = pages /\ fmt' = fmt /\ raster' = raster
        /\ geo' = geo /\ line' = line /\ row' = row /\ rows' = rows
        /\ w' = w /\ drawing' = drawing /\ ink' = ink
    BY <1>1 DEF pvars, DrawPixel
  <2>2. Rows' /\ (SolidExact => SolidExact')
    BY <1>1, DrawPixelKeeps
  <2>3. PageOK'
    BY <2>1 DEF PageOK, Shown
  <2> QED
    BY <2>1, <2>2, <2>3, LineStays
<1>2. ASSUME EndLine, rows' = rows + 1,
             UNCHANGED <<svars, at, method, pages, fmt, raster, geo, line, row>>
      PROVE  Rows' /\ (SolidExact => SolidExact') /\ PageOK' /\ LineOK'
  <2>1. w' = w /\ drawing /\ drawing' = FALSE /\ ink' = ink
    BY <1>2 DEF EndLine
  <2>2. Rows' /\ (SolidExact => SolidExact')
    BY <1>2, EndLineKeeps
  <2>3. PageOK'
    <3>1. Shown' = Shown
      BY <1>2 DEF Shown
    <3>2. rows' \in Nat /\ rows' + (IF drawing' THEN 1 ELSE 0) = Shown'
      BY <1>0, <1>2, <2>1, <3>1
    <3> QED
      BY <1>0, <1>2, <2>1, <3>2, PageStays
  <2> QED
    BY <1>2, <2>1, <2>2, <2>3, LineStays
<1> QED
  BY <1>1, <1>2 DEF Diffuse

LEMMA EndPageKeeps ==
  ASSUME Rows, PageOK, cb_rendpage
  PROVE  /\ Rows' /\ (SolidExact => SolidExact')
         /\ PageOK' /\ LineOK'
<1>1. /\ at' = "job" /\ ~drawing /\ UNCHANGED dvars
      /\ UNCHANGED <<method, pages, fmt, raster, geo, line, row, rows>>
  BY DEF cb_rendpage
<1>2. w' = w /\ drawing' = drawing
  BY <1>1 DEF dvars
<1>3. PageOK'
  BY <1>1, <1>2 DEF PageOK, Shown
<1> QED
  BY <1>1, <1>3, RowsStay DEF LineOK

-----------------------------------------------------------------------------
(* Where the page is and what its rows hold, whatever the method.          *)
Pages == Rows /\ PageOK /\ LineOK

LEMMA InitPages == Init => Pages
  BY InitRows, InitPage DEF Init, Pages

LEMMA StepPages == Pages /\ [Next]_vars => Pages'
<1> SUFFICES ASSUME Pages, [Next]_vars PROVE Pages'
  OBVIOUS
<1>0. Rows /\ PageOK /\ LineOK
  BY DEF Pages
<1>1. ASSUME NEW f \in Formats, NEW r \in Rasters, NEW g \in Garbage, cb_rstartpage(f, r, g)
      PROVE  Pages'
  BY <1>0, <1>1, StartPageKeeps DEF Pages
<1>2. ASSUME MakeScreen PROVE Pages'
  <2>1. UNCHANGED <<dvars, pvars>>
    BY <1>2 DEF MakeScreen
  <2> QED
    BY <1>0, <2>1, MakeScreenKeeps DEF Pages
<1>3. ASSUME SkipLine PROVE Pages'
  BY <1>0, <1>3, SkipLineKeeps DEF Pages
<1>4. ASSUME NEW pixels \in [0 .. (raster.w - 1) -> Pixels(fmt)], CompareLine(pixels)
      PROVE  Pages'
  BY <1>0, <1>4, CompareLineKeeps DEF Pages
<1>5. ASSUME NEW pixels \in [0 .. (raster.w - 1) -> Pixels(fmt)], DiffuseLine(pixels)
      PROVE  Pages'
  BY <1>0, <1>5, DiffuseLineKeeps DEF Pages
<1>6. ASSUME Diffuse PROVE Pages'
  BY <1>0, <1>6, DiffuseKeeps DEF Pages
<1>7. ASSUME cb_rendpage PROVE Pages'
  BY <1>0, <1>7, EndPageKeeps DEF Pages
<1>8. ASSUME UNCHANGED vars PROVE Pages'
  <2>1. UNCHANGED <<dvars, pvars>>
    BY <1>8 DEF vars
  <2> QED
    BY <1>0, <2>1, MakeScreenKeeps DEF Pages
<1> QED
  BY <1>1, <1>2, <1>3, <1>4, <1>5, <1>6, <1>7, <1>8 DEF Next

LEMMA FitsInt16 == ASSUME NEW e \in -127 .. 127 PROVE e \in Int16s
  BY DEF Int16s

LEMMA PagesAreEnough == Pages => TypeOK
<1> SUFFICES ASSUME Pages PROVE TypeOK
  OBVIOUS
<1>1. rows \in 0 .. Printable.h
  <2>1. /\ rows \in Nat /\ rows + (IF drawing THEN 1 ELSE 0) = Shown
        /\ geo.height <= Printable.h /\ geo.height \in Nat /\ geo.y0 \in Nat
        /\ row \in 0 .. raster.h /\ raster.h \in Nat /\ Printable.h \in Nat
    BY RasterPageAssumption DEF Pages, PageOK
  <2>2. Shown <= geo.height /\ Shown \in Nat
    BY <2>1 DEF Shown
  <2> QED
    BY <2>1, <2>2
<1>2. DiffusionTypeOK
  <2>1. w > 0 => ErrorsSmall /\ cur \in [Cells -> Int] /\ nxt \in [Cells -> Int]
    BY RowsAreEnough DEF Pages, Rows, Received
  <2>2. ASSUME w > 0 PROVE cur \in [Cells -> Int16s] /\ nxt \in [Cells -> Int16s]
    <3>1. ASSUME NEW c \in Cells PROVE cur[c] \in Int16s /\ nxt[c] \in Int16s
      <4>1. cur[c] \in -127 .. 127 /\ nxt[c] \in -127 .. 127
        BY <2>1, <2>2 DEF ErrorsSmall
      <4> QED
        BY <4>1, FitsInt16
    <3> QED
      BY <2>1, <2>2, <3>1
  <2>3. Counters
    BY DEF Pages, Rows
  <2> QED
    BY <2>2, <2>3 DEF Counters, DiffusionTypeOK
<1> QED
  BY <1>1, <1>2 DEF Pages, PageOK, TypeOK

(***************************************************************************)
(* cb_rstartpage and cb_rwriteline, for every imageable area, margin,      *)
(* raster size, format, ink table and method: no line or pixel outside the *)
(* raster is read, no more lines are passed on than the area has, and      *)
(* err_cur and err_next stay within their type.                            *)
(***************************************************************************)
THEOREM RasterTypeCorrect == Spec => []TypeOK
<1>1. Spec => []Pages
  BY InitPages, StepPages, PTL DEF Spec
<1> QED
  BY <1>1, PagesAreEnough, PTL

-----------------------------------------------------------------------------
(* Positions and their coordinates in a cell.                              *)
LEMMA Coordinates ==
  ASSUME NEW c \in 4 .. 11, NEW p \in 0 .. (c * c - 1)
  PROVE  /\ p % c \in 0 .. (c - 1) /\ p \div c \in 0 .. (c - 1)
         /\ p = ((p \div c) * c) + (p % c)
<1>1. c \in {4, 5, 6, 7, 8, 9, 10, 11}
  OBVIOUS
<1>2. CASE c = 4
  BY <1>2
<1>3. CASE c = 5
  BY <1>3
<1>4. CASE c = 6
  BY <1>4
<1>5. CASE c = 7
  BY <1>5
<1>6. CASE c = 8
  BY <1>6
<1>7. CASE c = 9
  BY <1>7
<1>8. CASE c = 10
  BY <1>8
<1>9. CASE c = 11
  BY <1>9
<1> QED
  BY <1>1, <1>2, <1>3, <1>4, <1>5, <1>6, <1>7, <1>8, <1>9

LEMMA PositionAt ==
  ASSUME NEW c \in 4 .. 11, NEW a \in 0 .. (c - 1), NEW b \in 0 .. (c - 1)
  PROVE  /\ a * c + b \in 0 .. (c * c - 1)
         /\ (a * c + b) % c = b /\ (a * c + b) \div c = a
<1>1. c \in {4, 5, 6, 7, 8, 9, 10, 11}
  OBVIOUS
<1>2. CASE c = 4
  BY <1>2
<1>3. CASE c = 5
  BY <1>3
<1>4. CASE c = 6
  BY <1>4
<1>5. CASE c = 7
  BY <1>5
<1>6. CASE c = 8
  BY <1>6
<1>7. CASE c = 9
  BY <1>7
<1>8. CASE c = 10
  BY <1>8
<1>9. CASE c = 11
  BY <1>9
<1> QED
  BY <1>1, <1>2, <1>3, <1>4, <1>5, <1>6, <1>7, <1>8, <1>9

(* A coordinate of the doubled square, folded onto the square.             *)
Upper(x, s) == IF x >= s THEN s ELSE 0

LEMMA Folded ==
  ASSUME NEW s \in {1, 2, 4}, NEW a \in 0 .. (2 * s - 1)
  PROVE  /\ a % s \in 0 .. (s - 1)
         /\ a = (a % s) + Upper(a, s)
<1>1. CASE s = 1
  BY <1>1 DEF Upper
<1>2. CASE s = 2
  BY <1>2 DEF Upper
<1>3. CASE s = 4
  BY <1>3 DEF Upper
<1> QED
  BY <1>1, <1>2, <1>3

(* A quadrant gives four ranks where there was one, and tells them apart.  *)
LEMMA Quadrants ==
  ASSUME NEW r \in Nat, NEW right \in BOOLEAN, NEW below \in BOOLEAN
  PROVE  Quadrant(r, right, below) \in (4 * r) .. (4 * r + 3)
  BY DEF Quadrant

RankAt(r, x, py, s) == Quadrant(r, x >= s, py >= s)

LEMMA QuadrantsDiffer ==
  ASSUME NEW r, NEW x, NEW py, NEW r2, NEW x2, NEW py2, NEW s,
         r \in Nat, r2 \in Nat, {x, py, x2, py2, s} \subseteq Int,
         RankAt(r, x, py, s) = RankAt(r2, x2, py2, s)
  PROVE  r = r2 /\ Upper(x, s) = Upper(x2, s) /\ Upper(py, s) = Upper(py2, s)
<1>1. r = r2
  <2>1. /\ RankAt(r, x, py, s) \in (4 * r) .. (4 * r + 3)
        /\ RankAt(r2, x2, py2, s) \in (4 * r2) .. (4 * r2 + 3)
    BY DEF RankAt, Quadrant
  <2> QED
    BY <2>1
<1>2. (x >= s <=> x2 >= s) /\ (py >= s <=> py2 >= s)
  BY <1>1 DEF RankAt, Quadrant
<1>3. Upper(x, s) = Upper(x2, s) /\ Upper(py, s) = Upper(py2, s)
  BY <1>2 DEF Upper
<1> QED
  BY <1>1, <1>3

-----------------------------------------------------------------------------
(* A doubling: what the position folds onto.                               *)
Onto(p) == (((p \div cell) % done) * cell) + ((p % cell) % done)

LEMMA OntoSquare ==
  ASSUME Doubling, done < cell, NEW p \in Square(2 * done)
  PROVE  /\ Onto(p) \in Square(done)
         /\ Onto(p) % cell = (p % cell) % done
         /\ Onto(p) \div cell = (p \div cell) % done
<1>1. /\ cell \in {4, 8} /\ cell \in 4 .. 11 /\ done \in {1, 2, 4} /\ 2 * done <= cell
  BY DEF Doubling
<1>2. p \in 0 .. (cell * cell - 1) /\ p % cell < 2 * done /\ p \div cell < 2 * done
  BY DEF Square, Positions
<1>3. p % cell \in 0 .. (2 * done - 1) /\ p \div cell \in 0 .. (2 * done - 1)
  <2>1. p % cell \in 0 .. (cell - 1) /\ p \div cell \in 0 .. (cell - 1)
    BY <1>1, <1>2, Coordinates
  <2> DEFINE a == p % cell
             b == p \div cell
  <2>2. a \in Nat /\ b \in Nat /\ a < 2 * done /\ b < 2 * done
    BY <1>1, <1>2, <2>1
  <2> HIDE DEF a, b
  <2>3. a \in 0 .. (2 * done - 1) /\ b \in 0 .. (2 * done - 1)
    BY <1>1, <2>2
  <2> QED
    BY <2>3 DEF a, b
<1>4. (p % cell) % done \in 0 .. (done - 1) /\ (p \div cell) % done \in 0 .. (done - 1)
  BY <1>1, <1>3, Folded
<1> DEFINE a == (p \div cell) % done
           b == (p % cell) % done
<1> HIDE DEF a, b
<1>5. a \in 0 .. (cell - 1) /\ b \in 0 .. (cell - 1) /\ a < done /\ b < done
  BY <1>1, <1>4 DEF a, b
<1>6. /\ a * cell + b \in 0 .. (cell * cell - 1)
      /\ (a * cell + b) % cell = b /\ (a * cell + b) \div cell = a
  BY <1>1, <1>5, PositionAt
<1>7. Onto(p) = a * cell + b
  BY DEF Onto, a, b
<1> QED
  BY <1>5, <1>6, <1>7 DEF Square, Positions, a, b

LEMMA DoubleKeeps ==
  ASSUME Doubling, Double
  PROVE  Doubling'
<1> DEFINE s == done
           New(p) == Quadrant(matrix[Onto(p)], p % cell >= s, p \div cell >= s)
<1>1. /\ cell \in {4, 8} /\ cell \in 4 .. 11 /\ done \in {1, 2, 4} /\ done < cell
      /\ done' = 2 * done /\ cell' = cell /\ Positions' = Positions
      /\ matrix \in [Positions -> 0 .. (done * done - 1)]
      /\ OneToOne(matrix, Square(done))
  BY DEF Double, Doubling, Positions
<1>2. matrix' = [p \in Positions |->
        IF p % cell < 2 * s /\ p \div cell < 2 * s THEN New(p) % 256 ELSE matrix[p]]
  BY DEF Double, Onto
<1>3. ASSUME NEW p \in Square(2 * s)
      PROVE  /\ Onto(p) \in Square(done) /\ matrix[Onto(p)] \in 0 .. (s * s - 1)
             /\ New(p) \in 0 .. (done' * done' - 1) /\ New(p) \in Nat
             /\ matrix'[p] = New(p)
  <2>1. Onto(p) \in Square(done) /\ Onto(p) \in Positions /\ p \in Positions
    BY <1>1, OntoSquare DEF Square
  <2>2. matrix[Onto(p)] \in 0 .. (s * s - 1)
    BY <1>1, <2>1
  <2> DEFINE r == matrix[Onto(p)]
  <2>3. New(p) \in (4 * r) .. (4 * r + 3) /\ r \in Nat
    <3>1. r \in Nat
      BY <1>1, <2>2
    <3>2. (p % cell >= s) \in BOOLEAN /\ (p \div cell >= s) \in BOOLEAN
      OBVIOUS
    <3> HIDE DEF r
    <3>3. Quadrant(r, p % cell >= s, p \div cell >= s) \in (4 * r) .. (4 * r + 3)
      BY <3>1, <3>2, Quadrants
    <3> QED
      BY <3>1, <3>3 DEF r
  <2> DEFINE n == New(p)
  <2>4. n \in (4 * r) .. (4 * r + 3) /\ r \in 0 .. (s * s - 1)
    BY <2>2, <2>3
  <2> HIDE DEF n, r
  <2>5. n \in 0 .. (done' * done' - 1) /\ n \in 0 .. 255 /\ n % 256 = n
    <3>1. CASE s = 1
      BY <1>1, <2>4, <3>1
    <3>2. CASE s = 2
      BY <1>1, <2>4, <3>2
    <3>3. CASE s = 4
      BY <1>1, <2>4, <3>3
    <3> QED
      BY <1>1, <3>1, <3>2, <3>3
  <2>6. matrix'[p] = n % 256
    BY <1>2, <2>1 DEF Square, n
  <2>7. n \in Nat
    BY <2>5
  <2> QED
    BY <2>1, <2>2, <2>5, <2>6, <2>7 DEF n
<1> HIDE DEF New
<1>4. matrix' \in [Positions -> 0 .. (done' * done' - 1)]
  <2>1. ASSUME NEW p \in Positions PROVE matrix'[p] \in 0 .. (done' * done' - 1)
    <3>1. CASE p \in Square(2 * s)
      BY <1>3, <3>1
    <3>2. CASE p \notin Square(2 * s)
      <4>1. matrix'[p] = matrix[p] /\ matrix[p] \in 0 .. (done * done - 1)
        BY <1>1, <1>2, <3>2 DEF Square
      <4> DEFINE m == matrix[p]
      <4> HIDE DEF m
      <4>2. m \in 0 .. (done * done - 1)
        BY <4>1 DEF m
      <4>3. m \in 0 .. (done' * done' - 1)
        BY <1>1, <4>2
      <4> QED
        BY <4>1, <4>3 DEF m
    <3> QED
      BY <3>1, <3>2
  <2> QED
    BY <1>2, <2>1
<1>5. OneToOne(matrix', Square(2 * s))
  <2> SUFFICES ASSUME NEW p \in Square(2 * s), NEW q \in Square(2 * s),
                      matrix'[p] = matrix'[q]
               PROVE  p = q
    BY DEF OneToOne
  <2>1. /\ Onto(p) \in Square(done) /\ matrix[Onto(p)] \in Nat
        /\ Onto(q) \in Square(done) /\ matrix[Onto(q)] \in Nat
        /\ New(p) = New(q)
    <3>1. s * s - 1 \in Nat
      BY <1>1
    <3> QED
      BY <1>3, <3>1
  <2>2. /\ matrix[Onto(p)] = matrix[Onto(q)]
        /\ Upper(p % cell, s) = Upper(q % cell, s)
        /\ Upper(p \div cell, s) = Upper(q \div cell, s)
    <3>1. {p % cell, p \div cell, q % cell, q \div cell, s} \subseteq Int
      BY <1>1, Coordinates DEF Square, Positions
    <3>2. RankAt(matrix[Onto(p)], p % cell, p \div cell, s)
            = RankAt(matrix[Onto(q)], q % cell, q \div cell, s)
      BY <2>1 DEF New, RankAt
    <3> QED
      BY <2>1, <3>1, <3>2, QuadrantsDiffer
  <2>3. Onto(p) = Onto(q)
    BY <1>1, <2>1, <2>2 DEF OneToOne
  <2>4. (p % cell) % s = (q % cell) % s /\ (p \div cell) % s = (q \div cell) % s
    BY <1>1, <2>3, OntoSquare
  <2>5. ASSUME NEW x \in Square(2 * s)
        PROVE  /\ x % cell \in 0 .. (2 * s - 1) /\ x \div cell \in 0 .. (2 * s - 1)
               /\ x = ((x \div cell) * cell) + (x % cell)
    <3>1. x \in 0 .. (cell * cell - 1) /\ x % cell < 2 * s /\ x \div cell < 2 * s
      BY DEF Square, Positions
    <3>2. /\ x % cell \in 0 .. (cell - 1) /\ x \div cell \in 0 .. (cell - 1)
          /\ x = ((x \div cell) * cell) + (x % cell)
      BY <1>1, <3>1, Coordinates
    <3> DEFINE a == x % cell
               b == x \div cell
    <3>3. /\ a \in 0 .. (cell - 1) /\ b \in 0 .. (cell - 1) /\ a < 2 * s /\ b < 2 * s
      BY <3>1, <3>2
    <3> HIDE DEF a, b
    <3>4. a \in 0 .. (2 * s - 1) /\ b \in 0 .. (2 * s - 1)
      BY <1>1, <3>3
    <3> QED
      BY <3>2, <3>4 DEF a, b
  <2>6. p % cell = q % cell
    <3>1. /\ p % cell = ((p % cell) % s) + Upper(p % cell, s)
          /\ q % cell = ((q % cell) % s) + Upper(q % cell, s)
      BY <1>1, <2>5, Folded
    <3> QED
      BY <2>2, <2>4, <3>1
  <2>7. p \div cell = q \div cell
    <3>1. /\ p \div cell = ((p \div cell) % s) + Upper(p \div cell, s)
          /\ q \div cell = ((q \div cell) % s) + Upper(q \div cell, s)
      BY <1>1, <2>5, Folded
    <3> QED
      BY <2>2, <2>4, <3>1
  <2> QED
    BY <2>5, <2>6, <2>7
<1>6. Square(2 * s) = (Square(done))'
  BY <1>1 DEF Square
<1>7. done' \in {1, 2, 4, 8} /\ done' <= cell'
  BY <1>1
<1>8. (OneToOne(matrix, Square(done)))'
  BY <1>5, <1>6 DEF OneToOne
<1> QED
  BY <1>1, <1>4, <1>7, <1>8 DEF Doubling

-----------------------------------------------------------------------------
(* A set of numbers has a least one.                                       *)
LEMMA LeastNumber ==
  ASSUME NEW S \in SUBSET Nat, S # {}
  PROVE  \E x \in S : \A z \in S : x <= z
<1> DEFINE R == OpToRel(<, Nat)
<1>1. IsWellFoundedOn(R, Nat)
  BY NatLessThanWellFounded
<1>2. \A x, z \in Nat : z < x => <<z, x>> \in R
  BY DEF OpToRel
<1> HIDE DEF R
<1>3. PICK x \in S : \A z \in S : ~(<<z, x>> \in R)
  BY <1>1, WFMin
<1>4. ASSUME NEW z \in S PROVE x <= z
  <2>1. x \in Nat /\ z \in Nat /\ ~(z < x)
    BY <1>2, <1>3
  <2> QED
    BY <2>1
<1> QED
  BY <1>4

(* What clustered compares is a whole number that is not negative.         *)
LEMMA SquareOf ==
  ASSUME NEW d \in Int
  PROVE  d * d \in Int /\ d * d >= d /\ d * d >= -d
  OBVIOUS

LEMMA KeyIsNat ==
  ASSUME cell \in 4 .. 11, NEW p \in Positions, NEW dot \in {0, 1}
  PROVE  Key(p, dot) \in Nat
<1> DEFINE dx == Toroidal(p % cell, dot)
           dy == Toroidal(p \div cell, dot)
<1>1. dx \in Int /\ dy \in Int
  <2>1. p % cell \in 0 .. (cell - 1) /\ p \div cell \in 0 .. (cell - 1)
    BY Coordinates DEF Positions
  <2> DEFINE a == p % cell
             b == p \div cell
  <2>2. a \in Int /\ b \in Int
    BY <2>1
  <2> HIDE DEF a, b
  <2>3. Toroidal(a, dot) \in Int /\ Toroidal(b, dot) \in Int
    BY <2>2 DEF Toroidal
  <2> QED
    BY <2>3 DEF a, b
<1> HIDE DEF dx, dy
<1> DEFINE sx == dx * dx
           sy == dy * dy
<1>2. /\ sx \in Int /\ sx >= dx /\ sx >= -dx
      /\ sy \in Int /\ sy >= dy /\ sy >= -dy
  BY <1>1, SquareOf
<1>3. Key(p, dot) = 25000 * (sx + sy) + 37 * dx + 11 * dy
  BY DEF Key, dx, dy
<1> HIDE DEF sx, sy
<1> QED
  BY <1>1, <1>2, <1>3

(* clustered finds the nearest position as long as one is free.            *)
LEMMA Nearest ==
  ASSUME cell \in 4 .. 11, NEW F \in SUBSET Positions, F # {}, NEW key,
         key \in [F -> Nat]
  PROVE  \E p \in F : \A q \in F : key[p] < key[q] \/ (key[p] = key[q] /\ p <= q)
<1> DEFINE K == {key[p] : p \in F}
<1>1. PICK k \in K : \A z \in K : k <= z
  <2>1. K \in SUBSET Nat /\ K # {}
    OBVIOUS
  <2> HIDE DEF K
  <2> QED
    BY <2>1, LeastNumber
<1> DEFINE P == {p \in F : key[p] = k}
<1>2. PICK best \in P : \A z \in P : best <= z
  <2>1. P # {}
    BY <1>1
  <2>2. P \in SUBSET Nat
    <3>1. \A p \in Positions : p \in Nat
      BY DEF Positions
    <3> QED
      BY <3>1
  <2> HIDE DEF P
  <2> QED
    BY <2>1, <2>2, LeastNumber
<1>3. ASSUME NEW q \in F PROVE key[best] < key[q] \/ (key[best] = key[q] /\ best <= q)
  <2>1. key[best] = k /\ k <= key[q] /\ key[q] \in Nat /\ k \in Nat
    BY <1>1, <1>2
  <2>2. CASE key[q] = k
    BY <1>2, <2>1, <2>2
  <2>3. CASE key[q] # k
    BY <2>1, <2>3
  <2> QED
    BY <2>2, <2>3
<1> QED
  BY <1>2, <1>3

(* The positions of a cell.                                                *)
LEMMA PositionsCount ==
  ASSUME cell \in 4 .. 11
  PROVE  IsFiniteSet(Positions) /\ Cardinality(Positions) = cell * cell
<1>1. cell * cell - 1 \in Int /\ cell * cell - 1 >= 0 /\ (cell * cell - 1) - 0 + 1 = cell * cell
  <2>1. cell * cell \in Int /\ cell * cell >= cell
    BY SquareOf
  <2> DEFINE l == cell * cell
  <2>2. l \in Int /\ l >= 4
    BY <2>1
  <2> HIDE DEF l
  <2>3. l - 1 \in Int /\ l - 1 >= 0 /\ (l - 1) - 0 + 1 = l
    BY <2>2
  <2> QED
    BY <2>3 DEF l
<1>2. /\ IsFiniteSet(0 .. (cell * cell - 1))
      /\ Cardinality(0 .. (cell * cell - 1))
           = IF 0 > cell * cell - 1 THEN 0 ELSE (cell * cell - 1) - 0 + 1
  BY <1>1, FS_Interval
<1> QED
  BY <1>1, <1>2 DEF Positions

LEMMA RankKeeps ==
  ASSUME Growing, Rank
  PROVE  Growing'
<1> DEFINE key == [p \in Free |-> Key(p, done % 2)]
           best == CHOOSE p \in Free :
                     \A q \in Free : key[p] < key[q] \/ (key[p] = key[q] /\ p <= q)
<1>1. /\ done < cell * cell /\ matrix' = [matrix EXCEPT ![best] = done]
      /\ taken' = taken \union {best} /\ done' = done + 1
      /\ cell' = cell /\ Positions' = Positions
  BY DEF Rank, Positions
<1>2. /\ cell \in 4 .. 11 /\ done \in Nat /\ cell * cell \in Int
      /\ taken \subseteq Positions /\ Cardinality(taken) = done
      /\ matrix \in [Positions -> 0 .. (cell * cell - 1)]
      /\ \A p \in taken : matrix[p] < done
      /\ OneToOne(matrix, taken)
  BY SquareOf DEF Growing
<1>3. IsFiniteSet(Positions) /\ Cardinality(Positions) = cell * cell
  BY <1>2, PositionsCount
<1>4. best \in Positions /\ best \notin taken
  <2>1. Free \in SUBSET Positions /\ Free # {}
    BY <1>1, <1>2, <1>3 DEF Free
  <2>2. key \in [Free -> Nat]
    <3>1. done % 2 \in {0, 1}
      BY <1>2
    <3> QED
      BY <1>2, <2>1, <3>1, KeyIsNat
  <2> HIDE DEF key
  <2>3. \E p \in Free : \A q \in Free : key[p] < key[q] \/ (key[p] = key[q] /\ p <= q)
    BY <1>2, <2>1, <2>2, Nearest
  <2>4. best \in Free
    BY <2>3
  <2> QED
    BY <2>4 DEF Free
<1> HIDE DEF best
<1>5. taken' \subseteq Positions /\ Cardinality(taken') = done'
  <2>1. IsFiniteSet(taken)
    BY <1>2, <1>3, FS_Subset
  <2> QED
    BY <1>1, <1>2, <1>4, <2>1, FS_AddElement
<1>6. done' \in Nat /\ done' <= cell * cell /\ done \in 0 .. (cell * cell - 1)
  BY <1>1, <1>2
<1>7. matrix' \in [Positions -> 0 .. (cell * cell - 1)]
  BY <1>1, <1>2, <1>6
<1>8. matrix'[best] = done /\ \A p \in taken : matrix'[p] = matrix[p]
  BY <1>1, <1>2, <1>4
<1>9. \A p \in taken' : matrix'[p] < done'
  <2>1. \A p \in taken : matrix[p] \in Int
    BY <1>2
  <2> QED
    BY <1>1, <1>2, <1>8, <2>1
<1>10. OneToOne(matrix', taken')
  <2>1. \A p \in taken : matrix[p] # done
    <3>1. \A p \in taken : matrix[p] \in Int
      BY <1>2
    <3> QED
      BY <1>2, <3>1
  <2> QED
    BY <1>1, <1>2, <1>8, <2>1 DEF OneToOne
<1>11. (OneToOne(matrix, taken))'
  BY <1>10 DEF OneToOne
<1> QED
  BY <1>1, <1>2, <1>5, <1>6, <1>7, <1>9, <1>11 DEF Growing

-----------------------------------------------------------------------------
(* When the ranking ends, every position has a rank of its own.            *)
LEMMA RankedAll ==
  ASSUME ScreenOK, Ranked
  PROVE  cell \in 4 .. 11 /\ matrix \in Ranks /\ OneToOne(matrix, Positions)
<1>1. ASSUME stage = "bayer", done = cell
      PROVE  cell \in 4 .. 11 /\ matrix \in Ranks /\ OneToOne(matrix, Positions)
  <2>1. Doubling /\ cell \in 4 .. 11
    BY <1>1 DEF ScreenOK, Doubling
  <2>2. Square(done) = Positions
    <3>1. ASSUME NEW p \in Positions PROVE p % cell < cell /\ p \div cell < cell
      <4>1. p % cell \in 0 .. (cell - 1) /\ p \div cell \in 0 .. (cell - 1)
        BY <2>1, Coordinates DEF Positions
      <4> DEFINE a == p % cell
                 b == p \div cell
      <4>2. a \in 0 .. (cell - 1) /\ b \in 0 .. (cell - 1)
        BY <4>1
      <4> HIDE DEF a, b
      <4>3. a < cell /\ b < cell
        BY <2>1, <4>2
      <4> QED
        BY <4>3 DEF a, b
    <3> QED
      BY <1>1, <3>1 DEF Square
  <2> QED
    BY <1>1, <2>1, <2>2 DEF Doubling, Ranks
<1>2. ASSUME stage = "clustered", done = cell * cell
      PROVE  cell \in 4 .. 11 /\ matrix \in Ranks /\ OneToOne(matrix, Positions)
  <2>1. Growing
    BY <1>2 DEF ScreenOK
  <2>2. taken = Positions
    BY <1>2, <2>1, PositionsCount, FS_Subset DEF Growing
  <2> QED
    BY <2>1, <2>2 DEF Growing, Ranks
<1> QED
  BY <1>1, <1>2 DEF Ranked

(* scale_matrix                                                            *)
LEMMA ScaleKeeps ==
  ASSUME ScreenOK, Scale
  PROVE  Thresholds' /\ stage' = "ready"
<1>1. cell \in 4 .. 11 /\ matrix \in Ranks /\ OneToOne(matrix, Positions)
  BY RankedAll DEF Scale
<1>2. /\ matrix' = [p \in Positions |-> Scaled(matrix[p], cell * cell)]
      /\ stage' = "ready" /\ cell' = cell /\ Positions' = Positions /\ Ranks' = Ranks
  BY DEF Scale, Positions, Ranks
<1>3. \E rank \in Ranks' :
        /\ OneToOne(rank, Positions')
        /\ matrix' = [p \in Positions' |-> Scaled(rank[p], cell' * cell')]
  BY <1>1, <1>2
<1> QED
  BY <1>1, <1>2, <1>3 DEF Thresholds, OneToOne

-----------------------------------------------------------------------------
(* Thresholds end at 254, and ink v exceeds as many of them as the nearest *)
(* share of the cell: for every cell but the large ones.                   *)
LEMMA ScaledBound ==
  ASSUME NEW c \in 4 .. 11, NEW r \in 0 .. (c * c - 1)
  PROVE  Scaled(r, c * c) \in 0 .. 254
<1>1. c \in {4, 5, 6, 7, 8, 9, 10, 11}
  OBVIOUS
<1>2. CASE c = 4
  BY <1>2 DEF Scaled
<1>3. CASE c = 5
  BY <1>3 DEF Scaled
<1>4. CASE c = 6
  BY <1>4 DEF Scaled
<1>5. CASE c = 7
  BY <1>5 DEF Scaled
<1>6. CASE c = 8
  BY <1>6 DEF Scaled
<1>7. CASE c = 9
  BY <1>7 DEF Scaled
<1>8. CASE c = 10
  BY <1>8 DEF Scaled
<1>9. CASE c = 11
  BY <1>9 DEF Scaled
<1> QED
  BY <1>1, <1>2, <1>3, <1>4, <1>5, <1>6, <1>7, <1>8, <1>9

Dotted(v, c) == (v * c * c + 127) \div 256

LEMMA ScaledOrder ==
  ASSUME NEW c \in 4 .. 11, NEW r \in 0 .. (c * c - 1), NEW v \in 0 .. 255
  PROVE  /\ v > Scaled(r, c * c) => r < Dotted(v, c)
         /\ r < Dotted(v, c) => v > Scaled(r, c * c)
         /\ Dotted(v, c) \in 0 .. (c * c)
<1>1. c \in {4, 5, 6, 7, 8, 9, 10, 11}
  OBVIOUS
<1>2. CASE c = 4
  BY <1>2 DEF Scaled, Dotted
<1>3. CASE c = 5
  BY <1>3 DEF Scaled, Dotted
<1>4. CASE c = 6
  BY <1>4 DEF Scaled, Dotted
<1>5. CASE c = 7
  BY <1>5 DEF Scaled, Dotted
<1>6. CASE c = 8
  BY <1>6 DEF Scaled, Dotted
<1>7. CASE c = 9
  BY <1>7 DEF Scaled, Dotted
<1>8. CASE c = 10
  BY <1>8 DEF Scaled, Dotted
<1>9. CASE c = 11
  BY <1>9 DEF Scaled, Dotted
<1> QED
  BY <1>1, <1>2, <1>3, <1>4, <1>5, <1>6, <1>7, <1>8, <1>9

(* Ranks that are given once each: as many are below k as k.               *)
LEMMA CountBelow ==
  ASSUME NEW S, NEW n \in Nat, IsFiniteSet(S), Cardinality(S) = n,
         NEW f \in [S -> 0 .. (n - 1)], OneToOne(f, S), NEW k \in 0 .. n
  PROVE  Cardinality({p \in S : f[p] < k}) = k
<1>1. \A m \in 0 .. n : IsFiniteSet(0 .. (m - 1)) /\ Cardinality(0 .. (m - 1)) = m
  <2>1. ASSUME NEW m \in 0 .. n
        PROVE  IsFiniteSet(0 .. (m - 1)) /\ Cardinality(0 .. (m - 1)) = m
    <3>1. /\ IsFiniteSet(0 .. (m - 1))
          /\ Cardinality(0 .. (m - 1)) = IF 0 > m - 1 THEN 0 ELSE (m - 1) - 0 + 1
      BY FS_Interval
    <3> QED
      BY <3>1
  <2> QED
    BY <2>1
<1>2. f \in Surjection(S, 0 .. (n - 1))
  <2>1. f \in Injection(S, 0 .. (n - 1))
    BY Fun_IsInj DEF OneToOne
  <2>2. IsFiniteSet(0 .. (n - 1)) /\ Cardinality(0 .. (n - 1)) = n
    BY <1>1
  <2> QED
    BY <2>1, <2>2, FS_Injection
<1>3. \A t \in 0 .. (n - 1) : \E p \in S : f[p] = t
  BY <1>2 DEF Surjection
<1> DEFINE B == {p \in S : f[p] < k}
           g == [p \in B |-> f[p]]
<1>4. g \in Bijection(B, 0 .. (k - 1))
  <2>1. g \in [B -> 0 .. (k - 1)]
    <3>1. \A p \in B : f[p] \in 0 .. (k - 1)
      OBVIOUS
    <3> HIDE DEF B
    <3> QED
      BY <3>1
  <2>2. \A p, q \in B : g[p] = g[q] => p = q
    BY DEF OneToOne
  <2>3. \A t \in 0 .. (k - 1) : \E p \in B : g[p] = t
    <3>1. ASSUME NEW t \in 0 .. (k - 1) PROVE \E p \in B : g[p] = t
      <4>1. t \in 0 .. (n - 1) /\ t < k
        OBVIOUS
      <4>2. PICK p \in S : f[p] = t
        BY <1>3, <4>1
      <4>3. p \in B
        BY <4>1, <4>2
      <4> QED
        BY <4>2, <4>3
    <3> QED
      BY <3>1
  <2> HIDE DEF B, g
  <2> QED
    BY <2>1, <2>2, <2>3, Fun_IsBij
<1>5. IsFiniteSet(B) /\ ExistsBijection(B, 0 .. (k - 1))
  <2>1. IsFiniteSet(B)
    BY FS_Subset
  <2> HIDE DEF B, g
  <2> QED
    BY <1>4, <2>1, Fun_ExistsBij
<1>6. Cardinality(0 .. (k - 1)) = Cardinality(B)
  <2> HIDE DEF B, g
  <2> QED
    BY <1>5, FS_Bijection
<1> QED
  BY <1>1, <1>6

-----------------------------------------------------------------------------
(* The screen of a page.                                                   *)
LEMMA StartScreenKeeps ==
  ASSUME Exact, method \in Methods, method.kind \in {"bayer", "clustered"},
         StartScreen(method.kind, method.n)
  PROVE  ScreenOK' /\ stage' = method.kind /\ cell' # 0
<1>1. /\ stage' = method.kind /\ cell' = method.n
      /\ done' = IF method.kind = "bayer" THEN 1 ELSE 0
      /\ taken' = {} /\ matrix' = [p \in 0 .. (method.n * method.n - 1) |-> 0]
  BY DEF StartScreen
<1>2. /\ method.kind = "bayer" => method.n \in {4, 8}
      /\ method.kind = "clustered" => method.n \in 4 .. 11
  BY DEF Exact
<1>3. Positions' = 0 .. (method.n * method.n - 1)
  BY <1>1 DEF Positions
<1>4. ASSUME method.kind = "bayer" PROVE Doubling'
  <2>1. cell' \in {4, 8} /\ done' = 1
    BY <1>1, <1>2, <1>4
  <2>2. matrix' \in [Positions' -> 0 .. (done' * done' - 1)]
    BY <1>1, <1>3, <2>1
  <2>3. (OneToOne(matrix, Square(done)))'
    <3> SUFFICES ASSUME NEW p \in (Square(done))', NEW q \in (Square(done))'
                 PROVE  p = q
      BY DEF OneToOne
    <3>1. ASSUME NEW x \in (Square(done))' PROVE x = 0
      <4>1. x \in 0 .. (cell' * cell' - 1) /\ x % cell' < 1 /\ x \div cell' < 1
        BY <2>1 DEF Square, Positions
      <4>2. CASE cell' = 4
        BY <4>1, <4>2
      <4>3. CASE cell' = 8
        BY <4>1, <4>3
      <4> QED
        BY <2>1, <4>2, <4>3
    <3> QED
      BY <3>1
  <2> QED
    BY <2>1, <2>2, <2>3 DEF Doubling
<1>5. ASSUME method.kind = "clustered" PROVE Growing'
  <2>1. cell' \in 4 .. 11 /\ done' = 0 /\ taken' = {}
    BY <1>1, <1>2, <1>5
  <2>2. cell' * cell' \in Int /\ cell' * cell' >= 4
    <3>1. \A c \in 4 .. 11 : c * c \in Int /\ c * c >= 4
      <4>1. ASSUME NEW c \in 4 .. 11 PROVE c * c \in Int /\ c * c >= c
        BY SquareOf
      <4> QED
        BY <4>1
    <3> QED
      BY <2>1, <3>1
  <2>3. matrix' \in [Positions' -> 0 .. (cell' * cell' - 1)]
    <3> DEFINE l == cell' * cell'
    <3>1. l \in Int /\ l >= 4
      BY <2>1, <2>2
    <3> HIDE DEF l
    <3>2. 0 \in 0 .. (l - 1)
      BY <3>1
    <3> QED
      BY <1>1, <1>3, <3>2 DEF l
  <2>4. Cardinality({}) = 0
    BY FS_EmptySet
  <2>5. done' <= cell' * cell' /\ done' \in Nat
    <3> DEFINE l == cell' * cell'
    <3>1. l \in Int /\ l >= 4
      BY <2>2
    <3> HIDE DEF l
    <3>2. 0 <= l
      BY <3>1
    <3> QED
      BY <2>1, <3>2 DEF l
  <2> QED
    BY <2>1, <2>3, <2>4, <2>5 DEF Growing, OneToOne
<1>6. cell' # 0
  BY <1>1, <1>2
<1> QED
  BY <1>1, <1>4, <1>5, <1>6 DEF ScreenOK

LEMMA ScreenStays ==
  ASSUME ScreenOK, UNCHANGED svars
  PROVE  ScreenOK'
<1>1. stage' = stage /\ cell' = cell /\ done' = done /\ taken' = taken /\ matrix' = matrix
  BY DEF svars
<1> QED
  BY <1>1 DEF ScreenOK, Doubling, Growing, Thresholds, Ranks, OneToOne, Square, Positions

LEMMA ScreenInit == Init => ScreenOK /\ ScreenUsed
  BY DEF Init, ScreensInit, ScreenOK, ScreenUsed

LEMMA ScreenStep ==
  ASSUME Exact, PageOK, ScreenOK, ScreenUsed, [Next]_vars
  PROVE  ScreenOK' /\ ScreenUsed'
<1>1. ASSUME NEW f \in Formats, NEW r \in Rasters, NEW g \in Garbage, cb_rstartpage(f, r, g)
      PROVE  ScreenOK' /\ ScreenUsed'
  <2>1. method' = method /\ method \in Methods
    BY <1>1 DEF cb_rstartpage, PageOK
  <2>2. CASE method.kind \in {"bayer", "clustered"}
    <3>1. StartScreen(method.kind, method.n)
      BY <1>1, <2>2 DEF cb_rstartpage
    <3> QED
      BY <2>1, <2>2, <3>1, StartScreenKeeps DEF ScreenUsed
  <2>3. CASE method.kind \notin {"bayer", "clustered"}
    <3>1. stage' = "ready" /\ cell' = 0 /\ matrix' = NoMatrix
      BY <1>1, <2>3 DEF cb_rstartpage, NoScreen
    <3> QED
      BY <2>1, <2>3, <3>1 DEF ScreenOK, ScreenUsed
  <2> QED
    BY <2>2, <2>3
<1>2. ASSUME MakeScreen PROVE ScreenOK' /\ ScreenUsed'
  <2>1. at' = at /\ method' = method
    BY <1>2 DEF MakeScreen, pvars
  <2>2. CASE Double
    <3>1. stage = "bayer" /\ stage' = stage /\ cell' = cell
      BY <2>2 DEF Double
    <3>2. Doubling'
      BY <2>2, <3>1, DoubleKeeps DEF ScreenOK
    <3> QED
      BY <2>1, <3>1, <3>2 DEF ScreenOK, ScreenUsed
  <2>3. CASE Rank
    <3>1. stage = "clustered" /\ stage' = stage /\ cell' = cell
      BY <2>3 DEF Rank
    <3>2. Growing'
      BY <2>3, <3>1, RankKeeps DEF ScreenOK
    <3> QED
      BY <2>1, <3>1, <3>2 DEF ScreenOK, ScreenUsed
  <2>4. CASE Scale
    <3>1. cell' = cell /\ Thresholds' /\ stage' = "ready"
      BY <2>4, ScaleKeeps DEF Scale
    <3>2. cell' # 0
      BY <3>1 DEF Thresholds
    <3> QED
      BY <2>1, <3>1, <3>2 DEF ScreenOK, ScreenUsed
  <2> QED
    BY <1>2, <2>2, <2>3, <2>4 DEF MakeScreen
<1>3. ASSUME UNCHANGED svars, at' = at \/ at' = "job", method' = method
      PROVE  ScreenOK' /\ ScreenUsed'
  <2>1. stage' = stage /\ cell' = cell
    BY <1>3 DEF svars
  <2> QED
    BY <1>3, <2>1, ScreenStays DEF ScreenUsed
<1>4. ASSUME SkipLine PROVE ScreenOK' /\ ScreenUsed'
  BY <1>3, <1>4 DEF SkipLine, TakeLine
<1>5. ASSUME NEW pixels, CompareLine(pixels) \/ DiffuseLine(pixels)
      PROVE  ScreenOK' /\ ScreenUsed'
  BY <1>3, <1>5 DEF CompareLine, DiffuseLine, TakeLine
<1>6. ASSUME Diffuse PROVE ScreenOK' /\ ScreenUsed'
  <2>1. UNCHANGED svars /\ at' = at /\ method' = method
    BY <1>6 DEF Diffuse, pvars
  <2> QED
    BY <1>3, <2>1
<1>7. ASSUME cb_rendpage PROVE ScreenOK' /\ ScreenUsed'
  BY <1>3, <1>7 DEF cb_rendpage
<1>8. ASSUME UNCHANGED vars PROVE ScreenOK' /\ ScreenUsed'
  BY <1>3, <1>8 DEF vars, pvars
<1> QED
  BY <1>1, <1>2, <1>4, <1>5, <1>6, <1>7, <1>8 DEF Next

-----------------------------------------------------------------------------
(* A screen that is ready, position by position.                           *)
LEMMA Screened ==
  ASSUME ScreenOK, stage = "ready", cell # 0
  PROVE  cell \in 4 .. 11 /\ matrix \in [Positions -> 0 .. 254]
<1>1. /\ cell \in 4 .. 11
      /\ \E rank \in Ranks : matrix = [p \in Positions |-> Scaled(rank[p], cell * cell)]
  BY DEF ScreenOK, Thresholds
<1>2. PICK rank \in Ranks : matrix = [p \in Positions |-> Scaled(rank[p], cell * cell)]
  BY <1>1
<1>3. \A p \in Positions : rank[p] \in 0 .. (cell * cell - 1)
  BY DEF Ranks
<1>4. \A p \in Positions : Scaled(rank[p], cell * cell) \in 0 .. 254
  BY <1>1, <1>3, ScaledBound
<1> QED
  BY <1>1, <1>2, <1>4

(* Every threshold a pixel is compared with is less than 255.              *)
Limit(x, n) ==
  CASE method.kind = "threshold" -> method.n
    [] method.kind = "bluenoise" -> Mask[<<n % MaskSide, x % MaskSide>>]
    [] OTHER -> Threshold(x, n)

LEMMA LimitBound ==
  ASSUME Exact, PageOK, ScreenOK, ScreenUsed, at = "page", stage = "ready", Ordered,
         NEW x \in Nat, NEW n \in Nat
  PROVE  Limit(x, n) \in 0 .. 254
<1>1. /\ method.kind \in {"threshold", "bluenoise", "bayer", "clustered"}
      /\ method.kind = "threshold" => method.n \in 0 .. 254
  BY DEF PageOK, Exact, Ordered
<1>2. CASE method.kind = "threshold"
  BY <1>1, <1>2 DEF Limit
<1>3. CASE method.kind = "bluenoise"
  <2>1. /\ MaskSide \in Nat \ {0}
        /\ Mask \in [(0 .. (MaskSide - 1)) \X (0 .. (MaskSide - 1)) -> 0 .. 254]
    BY RasterPageAssumption
  <2>2. n % MaskSide \in 0 .. (MaskSide - 1) /\ x % MaskSide \in 0 .. (MaskSide - 1)
    BY <2>1
  <2>3. Mask[<<n % MaskSide, x % MaskSide>>] \in 0 .. 254
    BY <2>1, <2>2
  <2> QED
    BY <1>3, <2>3 DEF Limit
<1>4. CASE method.kind \in {"bayer", "clustered"}
  <2>1. cell \in 4 .. 11 /\ matrix \in [Positions -> 0 .. 254]
    BY <1>4, Screened DEF ScreenUsed
  <2>2. n % cell \in 0 .. (cell - 1) /\ x % cell \in 0 .. (cell - 1)
    BY <2>1
  <2>3. ((n % cell) * cell) + (x % cell) \in 0 .. (cell * cell - 1)
    BY <2>1, <2>2, PositionAt
  <2>4. Threshold(x, n) \in 0 .. 254
    BY <2>1, <2>3 DEF Threshold, Positions
  <2> QED
    BY <1>4, <2>4 DEF Limit
<1> QED
  BY <1>1, <1>2, <1>3, <1>4

LEMMA CompareExact ==
  ASSUME Exact, PageOK, ScreenOK, ScreenUsed, NEW pixels, CompareLine(pixels),
         pixels \in [0 .. (raster.w - 1) -> Pixels(fmt)]
  PROVE  DotsExact(ink', bits')
<1> DEFINE inks == InkOf(pixels)
           n == row - geo.y0
<1>1. /\ at = "page" /\ stage = "ready" /\ Ordered /\ ~drawing /\ row < raster.h /\ ~InMargin
      /\ ink' = inks /\ bits' = Dots(inks, n)
  BY DEF CompareLine, TakeLine
<1>2. n \in Nat
  <2>1. row \in Nat /\ geo.y0 \in Nat /\ row + 1 > geo.y0
    BY <1>1, LineTaken
  <2> QED
    BY <2>1
<1>3. inks \in [Px -> 0 .. 255]
  BY InkTyped
<1> HIDE DEF inks, n
<1>4. Dots(inks, n) = [x \in Px |-> inks[x] > Limit(x, n)]
  BY <1>3 DEF Dots, Limit
<1>5. ASSUME NEW x \in Px
      PROVE  /\ inks[x] = 255 => bits'[x]
             /\ inks[x] = 0 => ~bits'[x]
  <2>1. x \in Nat
    BY DEF Px
  <2>2. Limit(x, n) \in 0 .. 254
    BY <1>1, <1>2, <2>1, LimitBound
  <2>3. bits'[x] = (inks[x] > Limit(x, n))
    BY <1>1, <1>4
  <2>4. inks[x] \in 0 .. 255
    BY <1>3
  <2>5. /\ inks[x] = 255 => inks[x] > Limit(x, n)
        /\ inks[x] = 0 => ~(inks[x] > Limit(x, n))
    <3>1. \A g \in 0 .. 255, l \in 0 .. 254 : (g = 255 => g > l) /\ (g = 0 => ~(g > l))
      OBVIOUS
    <3> QED
      BY <2>2, <2>4, <3>1, Zenon
  <2> QED
    BY <2>3, <2>5, Zenon
<1> QED
  BY <1>1, <1>5 DEF DotsExact

-----------------------------------------------------------------------------
(* With the parameters of the presets, black and white stay exact.         *)
ExactPages == Pages /\ ScreenOK /\ ScreenUsed /\ SolidExact

LEMMA InitExact == Init => ExactPages
<1> SUFFICES ASSUME Init PROVE ExactPages
  OBVIOUS
<1>1. SolidExact
  BY InitRows DEF Init
<1> QED
  BY <1>1, InitPages, ScreenInit DEF ExactPages

LEMMA StepExact == Exact /\ ExactPages /\ [Next]_vars => ExactPages'
<1> SUFFICES ASSUME Exact, ExactPages, [Next]_vars PROVE ExactPages'
  OBVIOUS
<1>0. Rows /\ PageOK /\ LineOK /\ Pages /\ ScreenOK /\ ScreenUsed /\ SolidExact
  BY DEF ExactPages, Pages
<1>1. Pages' /\ ScreenOK' /\ ScreenUsed'
  BY <1>0, StepPages, ScreenStep
<1>2. ASSUME NEW f \in Formats, NEW r \in Rasters, NEW g \in Garbage, cb_rstartpage(f, r, g)
      PROVE  SolidExact'
  BY <1>0, <1>2, StartPageKeeps
<1>3. ASSUME MakeScreen PROVE SolidExact'
  BY <1>0, <1>3, MakeScreenKeeps DEF MakeScreen
<1>4. ASSUME SkipLine PROVE SolidExact'
  BY <1>0, <1>4, SkipLineKeeps
<1>5. ASSUME NEW pixels \in [0 .. (raster.w - 1) -> Pixels(fmt)], CompareLine(pixels)
      PROVE  SolidExact'
  BY <1>0, <1>5, CompareExact, CompareLineKeeps
<1>6. ASSUME NEW pixels \in [0 .. (raster.w - 1) -> Pixels(fmt)], DiffuseLine(pixels)
      PROVE  SolidExact'
  BY <1>0, <1>6, DiffuseLineKeeps
<1>7. ASSUME Diffuse PROVE SolidExact'
  BY <1>0, <1>7, DiffuseKeeps
<1>8. ASSUME cb_rendpage PROVE SolidExact'
  BY <1>0, <1>8, EndPageKeeps
<1>9. ASSUME UNCHANGED vars PROVE SolidExact'
  BY <1>0, <1>9, RowsStay DEF vars
<1>10. SolidExact'
  BY <1>2, <1>3, <1>4, <1>5, <1>6, <1>7, <1>8, <1>9 DEF Next
<1> QED
  BY <1>1, <1>10 DEF ExactPages

(* A dot of the line is a pixel of the page.                               *)
LEMMA ExactIsInPlace == ExactPages => SolidInPlace
<1> SUFFICES ASSUME ExactPages, at = "page", LineShows, NEW x \in Drawn
             PROVE  LET pixel == line[Offset(raster.w, Printable.w, Margin.left) + x]
                        gray == line_to_gray(fmt, pixel)
                    IN  /\ gray = 0 => bits[x]
                        /\ gray = 255 => ~bits[x]
  BY DEF SolidInPlace
<1>1. /\ line \in [0 .. (raster.w - 1) -> Pixels(fmt)] /\ ink # NoLine /\ ink = InkOf(line)
      /\ PageOK /\ Counters /\ SolidExact
      /\ geo.x0 = Offset(raster.w, Printable.w, Margin.left)
  BY DEF ExactPages, Pages, LineOK, PageOK, Rows
<1>2. x \in Px
  BY <1>1 DEF Counters, Drawn, Px
<1> DEFINE gray == line_to_gray(fmt, line[geo.x0 + x])
<1>3. ink[x] = Lut[gray]
  BY <1>1, <1>2, InkTyped
<1>4. Lut[0] = 255 /\ Lut[255] = 0
  BY RasterPageAssumption
<1>5. /\ ink[x] = 255 => bits[x]
      /\ ink[x] = 0 => ~bits[x]
  BY <1>1 DEF SolidExact
<1> QED
  BY <1>1, <1>3, <1>4, <1>5

(* As many thresholds are below an ink as its share of the cell.           *)
LEMMA ExactIsCounted == ScreenOK => ExactDots
<1> SUFFICES ASSUME ScreenOK, stage = "ready", cell > 0, NEW v \in 0 .. 255
             PROVE  Cardinality({p \in Positions : v > matrix[p]}) = Dotted(v, cell)
  BY DEF ExactDots, Dotted
<1>0. cell # 0
  OBVIOUS
<1>1. Thresholds
  BY <1>0 DEF ScreenOK
<1>2. cell \in 4 .. 11
  BY <1>1 DEF Thresholds
<1>3. PICK rank \in Ranks : /\ OneToOne(rank, Positions)
                            /\ matrix = [p \in Positions |-> Scaled(rank[p], cell * cell)]
  BY <1>1 DEF Thresholds
<1>4. rank \in [Positions -> 0 .. (cell * cell - 1)]
  BY DEF Ranks
<1>5. {p \in Positions : v > matrix[p]} = {p \in Positions : rank[p] < Dotted(v, cell)}
  <2>1. ASSUME NEW p \in Positions
        PROVE  /\ v > matrix[p] => rank[p] < Dotted(v, cell)
               /\ rank[p] < Dotted(v, cell) => v > matrix[p]
    <3>1. rank[p] \in 0 .. (cell * cell - 1) /\ matrix[p] = Scaled(rank[p], cell * cell)
      BY <1>3, <1>4
    <3> QED
      BY <1>2, <3>1, ScaledOrder
  <2> QED
    BY <2>1
<1>6. cell * cell \in Nat /\ Dotted(v, cell) \in 0 .. (cell * cell)
  <2>1. cell * cell \in Int /\ cell * cell >= cell
    BY <1>2, SquareOf
  <2>2. 0 \in 0 .. (cell * cell - 1)
    <3>1. 0 \in 0 .. (cell - 1)
      BY <1>2
    <3>2. 0 * cell + 0 \in 0 .. (cell * cell - 1)
      BY <1>2, <3>1, PositionAt
    <3> QED
      BY <1>2, <3>2
  <2>3. Dotted(v, cell) \in 0 .. (cell * cell)
    BY <1>2, <2>2, ScaledOrder
  <2> DEFINE l == cell * cell
  <2>4. l \in Int /\ l >= cell
    BY <2>1
  <2> HIDE DEF l
  <2>5. l \in Nat
    BY <1>2, <2>4
  <2> QED
    BY <2>3, <2>5 DEF l
<1>7. IsFiniteSet(Positions) /\ Cardinality(Positions) = cell * cell
  BY <1>2, PositionsCount
<1>8. Cardinality({p \in Positions : rank[p] < Dotted(v, cell)}) = Dotted(v, cell)
  BY <1>3, <1>4, <1>6, <1>7, CountBelow
<1> QED
  BY <1>5, <1>8

(***************************************************************************)
(* m2022_halftone_line, for every page and every method of the presets: a  *)
(* pixel with all of the ink is black and one without ink is white.        *)
(***************************************************************************)
THEOREM EveryMethodExact == Exact => (Spec => []SolidExact)
<1> SUFFICES ASSUME Exact PROVE Spec => []SolidExact
  OBVIOUS
<1>1. Spec => []ExactPages
  BY InitExact, StepExact, PTL DEF Spec
<1>2. ExactPages => SolidExact
  BY DEF ExactPages
<1> QED
  BY <1>1, <1>2, PTL

(***************************************************************************)
(* cb_rwriteline, for every raster, imageable area, margin, format and     *)
(* method of the presets: black and white pixels of the client's page are  *)
(* dots and blanks at their place.                                         *)
(***************************************************************************)
THEOREM SolidInPlaceHolds == Exact => (Spec => []SolidInPlace)
<1> SUFFICES ASSUME Exact PROVE Spec => []SolidInPlace
  OBVIOUS
<1>1. Spec => []ExactPages
  BY InitExact, StepExact, PTL DEF Spec
<1> QED
  BY <1>1, ExactIsInPlace, PTL

(***************************************************************************)
(* bayer, clustered and scale_matrix: a cell has for every ink the number  *)
(* of dots nearest to its share, for both Bayer sizes and every clustered  *)
(* cell up to eleven.                                                      *)
(***************************************************************************)
THEOREM ExactDotsHolds == Exact => (Spec => []ExactDots)
<1> SUFFICES ASSUME Exact PROVE Spec => []ExactDots
  OBVIOUS
<1>1. Spec => []ExactPages
  BY InitExact, StepExact, PTL DEF Spec
<1>2. ExactPages => ExactDots
  BY ExactIsCounted DEF ExactPages
<1> QED
  BY <1>1, <1>2, PTL

(***************************************************************************)
(* scale_matrix: with cells of up to eleven, full ink exceeds every        *)
(* threshold.  The run with a cell of twelve shows that this is the limit. *)
(***************************************************************************)
THEOREM ScreenSolidHolds == Exact => (Spec => []ScreenSolid)
<1> SUFFICES ASSUME Exact PROVE Spec => []ScreenSolid
  OBVIOUS
<1>1. Spec => []ExactPages
  BY InitExact, StepExact, PTL DEF Spec
<1>2. ExactPages => ScreenSolid
  <2> SUFFICES ASSUME ScreenOK, stage = "ready", NEW p \in DOMAIN matrix PROVE 255 > matrix[p]
    BY DEF ExactPages, ScreenSolid
  <2>1. CASE cell = 0
    BY <2>1 DEF ScreenOK, NoMatrix
  <2>2. CASE cell # 0
    <3>1. matrix[p] \in 0 .. 254
      BY <2>2, Screened
    <3> QED
      BY <3>1
  <2> QED
    BY <2>1, <2>2
<1> QED
  BY <1>1, <1>2, PTL

(***************************************************************************)
(* floyd_steinberg on the pages of a job: whatever pages came before and   *)
(* whatever methods they used, no sum of errors leaves -127 .. 127.        *)
(***************************************************************************)
THEOREM PageErrorsSmall == Spec => []ErrorsSmall
<1>1. Spec => []Pages
  BY InitPages, StepPages, PTL DEF Spec
<1>2. Pages => ErrorsSmall
  BY RowsAreEnough DEF Pages
<1> QED
  BY <1>1, <1>2, PTL

-----------------------------------------------------------------------------
(* The sum of the values of f over S, as ToneKept takes it, and the        *)
(* function that recursion defines it with: Any(s) is added next.          *)
Total(f, S) == MapThenSumSet(LAMBDA c : f[c], S)

Any(s) == CHOOSE x \in s : TRUE

AddsUp(g, f, D) ==
  g = [s \in D |-> IF s = {} THEN 0 ELSE f[Any(s)] + g[s \ {Any(s)}]]

LEMMA TotalIs ==
  ASSUME NEW f, NEW S
  PROVE  Total(f, S) = (CHOOSE g : AddsUp(g, f, SUBSET S))[S]
  BY DEF Total, MapThenSumSet, MapThenFoldSet, AddsUp, Any

(* A set of subsets of a finite set has a smallest one.                    *)
LEMMA SmallestSet ==
  ASSUME NEW S, IsFiniteSet(S), NEW Q \in SUBSET (SUBSET S), Q # {}
  PROVE  \E T \in Q : \A x \in T : T \ {x} \notin Q
<1> DEFINE N == {Cardinality(T) : T \in Q}
<1>1. ASSUME NEW T \in Q PROVE Cardinality(T) \in Nat /\ IsFiniteSet(T)
  BY FS_Subset, FS_CardinalityType
<1>2. N \in SUBSET Nat /\ N # {}
  BY <1>1
<1>3. PICK n \in N : \A m \in N : n <= m
  <2> HIDE DEF N
  <2> QED
    BY <1>2, LeastNumber
<1>4. PICK T \in Q : n = Cardinality(T)
  BY <1>3
<1>5. ASSUME NEW x \in T, T \ {x} \in Q PROVE FALSE
  <2>1. Cardinality(T \ {x}) = Cardinality(T) - 1
    BY <1>1, FS_RemoveElement
  <2>2. Cardinality(T) <= Cardinality(T \ {x})
    BY <1>3, <1>4, <1>5
  <2> QED
    BY <1>1, <2>1, <2>2
<1> QED
  BY <1>5

LEMMA AnyOf ==
  ASSUME NEW s, s # {}
  PROVE  Any(s) \in s
  BY DEF Any

(* Such a function exists: its values for the sets of at most n elements   *)
(* give those for one more.                                                *)
LEMMA AddsUpExists ==
  ASSUME NEW f, NEW S, IsFiniteSet(S)
  PROVE  \E g : AddsUp(g, f, SUBSET S)
<1> DEFINE D(n) == {s \in SUBSET S : Cardinality(s) <= n}
           G == {n \in Nat : \E g : AddsUp(g, f, D(n))}
<1>1. ASSUME NEW s \in SUBSET S
      PROVE  /\ IsFiniteSet(s) /\ Cardinality(s) \in Nat /\ Cardinality(s) <= Cardinality(S)
             /\ s # {} => s \ {Any(s)} \in SUBSET S
                          /\ Cardinality(s \ {Any(s)}) = Cardinality(s) - 1
             /\ Cardinality(s) = 0 => s = {}
  <2>1. IsFiniteSet(s) /\ Cardinality(s) \in Nat /\ Cardinality(s) <= Cardinality(S)
    BY FS_Subset, FS_CardinalityType
  <2>2. ASSUME s # {}
        PROVE  s \ {Any(s)} \in SUBSET S /\ Cardinality(s \ {Any(s)}) = Cardinality(s) - 1
    BY <2>1, <2>2, AnyOf, FS_RemoveElement
  <2>3. Cardinality(s) = 0 => s = {}
    BY <2>1, FS_EmptySet
  <2> QED
    BY <2>1, <2>2, <2>3
<1>2. 0 \in G
  <2> DEFINE g == [s \in D(0) |-> 0]
  <2>1. ASSUME NEW s \in D(0) PROVE s = {}
    <3>1. s \in SUBSET S /\ Cardinality(s) <= 0
      OBVIOUS
    <3>2. Cardinality(s) = 0
      <4>1. Cardinality(s) \in Nat
        BY <1>1, <3>1
      <4> QED
        BY <3>1, <4>1
    <3> QED
      BY <1>1, <3>1, <3>2
  <2>2. AddsUp(g, f, D(0))
    BY <2>1 DEF AddsUp
  <2> QED
    BY <2>2
<1>3. ASSUME NEW n \in Nat, n \in G PROVE n + 1 \in G
  <2>1. PICK g : AddsUp(g, f, D(n))
    BY <1>3
  <2> DEFINE h == [s \in D(n + 1) |-> IF s = {} THEN 0 ELSE f[Any(s)] + g[s \ {Any(s)}]]
  <2>2. ASSUME NEW s \in D(n + 1), s # {} PROVE h[s \ {Any(s)}] = g[s \ {Any(s)}]
    <3>1. PICK r : r = s \ {Any(s)}
      OBVIOUS
    <3>2. r \in SUBSET S /\ Cardinality(r) = Cardinality(s) - 1 /\ Cardinality(s) \in Nat
          /\ Cardinality(r) \in Nat
      BY <1>1, <2>2, <3>1
    <3>3. Cardinality(r) <= n /\ Cardinality(r) <= n + 1
      BY <3>2
    <3>4. r \in D(n) /\ r \in D(n + 1)
      BY <3>2, <3>3
    <3> HIDE DEF D
    <3>5. h[r] = IF r = {} THEN 0 ELSE f[Any(r)] + g[r \ {Any(r)}]
      BY <3>4
    <3>6. g[r] = IF r = {} THEN 0 ELSE f[Any(r)] + g[r \ {Any(r)}]
      BY <2>1, <3>4 DEF AddsUp
    <3> QED
      BY <3>1, <3>5, <3>6
  <2>3. AddsUp(h, f, D(n + 1))
    <3> HIDE DEF D
    <3>1. \A s \in D(n + 1) :
            (IF s = {} THEN 0 ELSE f[Any(s)] + g[s \ {Any(s)}])
              = (IF s = {} THEN 0 ELSE f[Any(s)] + h[s \ {Any(s)}])
      <4> HIDE DEF h
      <4> QED
        BY <2>2
    <3>2. h = [s \in D(n + 1) |-> IF s = {} THEN 0 ELSE f[Any(s)] + h[s \ {Any(s)}]]
      BY <3>1
    <3> QED
      BY <3>2 DEF AddsUp
  <2> QED
    BY <2>3
<1>4. ASSUME Cardinality(S) \notin G PROVE FALSE
  <2> DEFINE B == {n \in Nat : n \notin G}
  <2>1. B \in SUBSET Nat /\ B # {}
    BY <1>1, <1>4, FS_CardinalityType
  <2>2. PICK b \in B : \A m \in B : b <= m
    <3> HIDE DEF B
    <3> QED
      BY <2>1, LeastNumber
  <2> HIDE DEF G
  <2>3. b # 0 /\ b \in Nat /\ b \notin G
    BY <1>2
  <2>4. b - 1 \in Nat /\ ~(b <= b - 1) /\ (b - 1) + 1 = b
    BY <2>3
  <2>5. b - 1 \in G
    BY <2>2, <2>4
  <2>6. (b - 1) + 1 \in G
    BY <1>3, <2>4, <2>5
  <2> QED
    BY <2>3, <2>4, <2>6
<1>5. D(Cardinality(S)) = SUBSET S
  BY <1>1
<1> HIDE DEF D
<1>6. PICK g : AddsUp(g, f, D(Cardinality(S)))
  BY <1>4
<1> QED
  BY <1>5, <1>6

Agree(f, e, S) == \A c \in S : f[c] = e[c]

(* Two of them agree where the values they add do.                         *)
LEMMA AddsUpUnique ==
  ASSUME NEW R, NEW S \in SUBSET R, IsFiniteSet(S), NEW f, NEW e, Agree(f, e, S),
         NEW g, AddsUp(g, f, SUBSET S), NEW h, AddsUp(h, e, SUBSET R)
  PROVE  g[S] = h[S]
<1> DEFINE Q == {T \in SUBSET S : g[T] # h[T]}
<1>1. SUFFICES ASSUME Q # {} PROVE FALSE
  <2>1. S \in SUBSET S
    OBVIOUS
  <2> QED
    BY <2>1
<1>2. PICK T \in Q : \A x \in T : T \ {x} \notin Q
  <2>1. Q \in SUBSET (SUBSET S)
    OBVIOUS
  <2> HIDE DEF Q
  <2> QED
    BY <1>1, <2>1, SmallestSet
<1>3. T \in SUBSET S /\ T \in SUBSET R /\ g[T] # h[T]
  BY <1>2
<1>4. /\ g[T] = IF T = {} THEN 0 ELSE f[Any(T)] + g[T \ {Any(T)}]
      /\ h[T] = IF T = {} THEN 0 ELSE e[Any(T)] + h[T \ {Any(T)}]
  BY <1>3 DEF AddsUp
<1>5. T # {}
  BY <1>3, <1>4
<1>6. Any(T) \in T /\ Any(T) \in S
  BY <1>3, <1>5, AnyOf
<1>7. g[T \ {Any(T)}] = h[T \ {Any(T)}]
  <2>1. T \ {Any(T)} \in SUBSET S
    BY <1>3
  <2> QED
    BY <1>2, <1>6, <2>1
<1> QED
  BY <1>3, <1>4, <1>6, <1>7 DEF Agree

LEMMA SameTotal ==
  ASSUME NEW S, IsFiniteSet(S), NEW f, NEW e, Agree(f, e, S)
  PROVE  Total(f, S) = Total(e, S)
<1> DEFINE g == CHOOSE q : AddsUp(q, f, SUBSET S)
           h == CHOOSE q : AddsUp(q, e, SUBSET S)
<1>1. AddsUp(g, f, SUBSET S) /\ AddsUp(h, e, SUBSET S)
  <2>1. (\E q : AddsUp(q, f, SUBSET S)) /\ (\E q : AddsUp(q, e, SUBSET S))
    BY AddsUpExists
  <2> QED
    BY <2>1
<1>2. Total(f, S) = g[S] /\ Total(e, S) = h[S]
  BY TotalIs
<1> HIDE DEF g, h
<1>3. g[S] = h[S]
  <2>1. S \in SUBSET S
    OBVIOUS
  <2> QED
    BY <1>1, <2>1, AddsUpUnique
<1> QED
  BY <1>2, <1>3

LEMMA NextTotal ==
  ASSUME NEW S, IsFiniteSet(S), NEW f
  PROVE  /\ S = {} => Total(f, S) = 0
         /\ S # {} => Total(f, S) = f[Any(S)] + Total(f, S \ {Any(S)})
<1> DEFINE g == CHOOSE q : AddsUp(q, f, SUBSET S)
<1>1. AddsUp(g, f, SUBSET S)
  <2>1. \E q : AddsUp(q, f, SUBSET S)
    BY AddsUpExists
  <2> QED
    BY <2>1
<1>2. Total(f, S) = g[S]
  BY TotalIs
<1> HIDE DEF g
<1>3. g[S] = IF S = {} THEN 0 ELSE f[Any(S)] + g[S \ {Any(S)}]
  <2>1. S \in SUBSET S
    OBVIOUS
  <2> QED
    BY <1>1, <2>1 DEF AddsUp
<1>4. ASSUME S # {} PROVE Total(f, S) = f[Any(S)] + Total(f, S \ {Any(S)})
  <2> DEFINE R == S \ {Any(S)}
             h == CHOOSE q : AddsUp(q, f, SUBSET R)
  <2>1. IsFiniteSet(R) /\ R \subseteq S
    BY FS_RemoveElement
  <2>2. AddsUp(h, f, SUBSET R)
    <3>1. \E q : AddsUp(q, f, SUBSET R)
      BY <2>1, AddsUpExists
    <3> QED
      BY <3>1
  <2>3. Total(f, R) = h[R]
    BY TotalIs
  <2> HIDE DEF h
  <2>4. h[R] = g[R]
    <3> HIDE DEF R
    <3>1. Agree(f, f, R)
      BY DEF Agree
    <3>2. R \in SUBSET S
      BY <2>1
    <3> QED
      BY <1>1, <2>1, <2>2, <3>1, <3>2, AddsUpUnique
  <2> QED
    BY <1>2, <1>3, <1>4, <2>3, <2>4
<1> QED
  BY <1>2, <1>3, <1>4

LEMMA TotalTyped ==
  ASSUME NEW S, IsFiniteSet(S), NEW f, \A c \in S : f[c] \in Int
  PROVE  Total(f, S) \in Int
<1> DEFINE Q == {T \in SUBSET S : Total(f, T) \notin Int}
<1>1. SUFFICES ASSUME Q # {} PROVE FALSE
  <2>1. S \in SUBSET S
    OBVIOUS
  <2> QED
    BY <2>1
<1>2. PICK T \in Q : \A x \in T : T \ {x} \notin Q
  <2>1. Q \in SUBSET (SUBSET S)
    OBVIOUS
  <2> HIDE DEF Q
  <2> QED
    BY <1>1, <2>1, SmallestSet
<1>3. T \in SUBSET S /\ IsFiniteSet(T) /\ Total(f, T) \notin Int
  BY <1>2, FS_Subset
<1>4. T # {} /\ Total(f, T) = f[Any(T)] + Total(f, T \ {Any(T)})
  <2>1. /\ T = {} => Total(f, T) = 0
        /\ T # {} => Total(f, T) = f[Any(T)] + Total(f, T \ {Any(T)})
    BY <1>3, NextTotal, Zenon
  <2>2. 0 \in Int
    OBVIOUS
  <2> QED
    BY <1>3, <2>1, <2>2
<1>5. Any(T) \in T
  BY <1>4, AnyOf
<1>6. Total(f, T \ {Any(T)}) \in Int /\ f[Any(T)] \in Int
  BY <1>2, <1>3, <1>5
<1> QED
  BY <1>3, <1>4, <1>6

(* The order does not matter.                                              *)
LEMMA TotalWithout ==
  ASSUME NEW S, IsFiniteSet(S), NEW f, \A c \in S : f[c] \in Int, NEW x \in S
  PROVE  Total(f, S) = f[x] + Total(f, S \ {x})
<1> DEFINE Q == {T \in SUBSET S : \E z \in T : Total(f, T) # f[z] + Total(f, T \ {z})}
<1>1. SUFFICES ASSUME Q # {} PROVE FALSE
  <2>1. S \in SUBSET S
    OBVIOUS
  <2> QED
    BY <2>1
<1>2. PICK T \in Q : \A z \in T : T \ {z} \notin Q
  <2>1. Q \in SUBSET (SUBSET S)
    OBVIOUS
  <2> HIDE DEF Q
  <2> QED
    BY <1>1, <2>1, SmallestSet
<1>3. PICK z \in T : Total(f, T) # f[z] + Total(f, T \ {z})
  BY <1>2
<1>4. T \in SUBSET S /\ IsFiniteSet(T) /\ T # {}
  BY <1>2, <1>3, FS_Subset
<1> DEFINE a == Any(T)
<1>5. a \in T /\ Total(f, T) = f[a] + Total(f, T \ {a})
  BY <1>4, AnyOf, NextTotal
<1> HIDE DEF a
<1>6. a # z
  BY <1>3, <1>5
<1> DEFINE U == (T \ {a}) \ {z}
<1>7. U = (T \ {z}) \ {a}
  OBVIOUS
<1>8. Total(f, T \ {a}) = f[z] + Total(f, U)
  BY <1>2, <1>3, <1>4, <1>5, <1>6
<1>9. Total(f, T \ {z}) = f[a] + Total(f, U)
  BY <1>2, <1>3, <1>4, <1>5, <1>6, <1>7
<1>10. f[a] \in Int /\ f[z] \in Int
  BY <1>3, <1>4, <1>5
<1>11. Total(f, U) \in Int
  <2>1. IsFiniteSet(U) /\ U \subseteq S
    BY <1>4, FS_RemoveElement
  <2> HIDE DEF U
  <2> QED
    BY <2>1, TotalTyped
<1> HIDE DEF U
<1> QED
  BY <1>3, <1>5, <1>8, <1>9, <1>10, <1>11

(* What a cell that receives e adds to the sum over S.                     *)
PartIn(c, S, e) == IF c \in S THEN e ELSE 0

(* f with e added at c.                                                    *)
IntsOn(f, D) == f \in [D -> Int]
Raised(f, c, e) == [f EXCEPT ![c] = f[c] + e]

LEMMA TotalOf ==
  ASSUME NEW D, NEW f, IntsOn(f, D), NEW S, S \subseteq D, IsFiniteSet(S),
         NEW c, c \in D, NEW e, e \in Int
  PROVE  Total(Raised(f, c, e), S) = Total(f, S) + PartIn(c, S, e)
<1> DEFINE h == Raised(f, c, e)
<1>0. f \in [D -> Int]
  BY DEF IntsOn
<1>1. h \in [D -> Int] /\ h[c] = f[c] + e /\ \A d \in D : d # c => h[d] = f[d]
  BY <1>0 DEF Raised
<1> HIDE DEF h
<1>2. ASSUME c \notin S PROVE Total(h, S) = Total(f, S)
  <2>1. \A d \in S : h[d] = f[d]
    BY <1>1, <1>2
  <2> QED
    BY <2>1, SameTotal DEF Agree
<1>3. ASSUME c \in S PROVE Total(h, S) = Total(f, S) + e
  <2> DEFINE R == S \ {c}
  <2>1. IsFiniteSet(R) /\ \A d \in R : h[d] = f[d]
    BY <1>1, FS_RemoveElement
  <2>2. (\A d \in S : f[d] \in Int) /\ (\A d \in S : h[d] \in Int)
    BY <1>0, <1>1
  <2>3. Total(f, S) = f[c] + Total(f, R) /\ Total(h, S) = h[c] + Total(h, R)
    BY <1>3, <2>2, TotalWithout
  <2>4. Total(h, R) = Total(f, R) /\ Total(f, R) \in Int
    <3>1. \A d \in R : f[d] \in Int
      BY <2>2
    <3> HIDE DEF R
    <3> QED
      BY <2>1, <3>1, SameTotal, TotalTyped DEF Agree
  <2> HIDE DEF R
  <2> QED
    BY <1>0, <1>1, <2>3, <2>4
<1>4. Total(f, S) \in Int
  <2>1. \A d \in S : f[d] \in Int
    BY <1>0
  <2> QED
    BY <2>1, TotalTyped
<1>5. Total(h, S) = Total(f, S) + PartIn(c, S, e)
  BY <1>2, <1>3, <1>4 DEF PartIn
<1> QED
  BY <1>5 DEF h

LEMMA TotalOfNone ==
  ASSUME NEW S, IsFiniteSet(S), NEW f, \A c \in S : f[c] = 0
  PROVE  Total(f, S) = 0
<1> DEFINE Q == {T \in SUBSET S : Total(f, T) # 0}
<1>1. SUFFICES ASSUME Q # {} PROVE FALSE
  <2>1. S \in SUBSET S
    OBVIOUS
  <2> QED
    BY <2>1
<1>2. PICK T \in Q : \A x \in T : T \ {x} \notin Q
  <2>1. Q \in SUBSET (SUBSET S)
    OBVIOUS
  <2> HIDE DEF Q
  <2> QED
    BY <1>1, <2>1, SmallestSet
<1>3. T \in SUBSET S /\ IsFiniteSet(T) /\ Total(f, T) # 0
  BY <1>2, FS_Subset
<1>4. T # {} /\ Total(f, T) = f[Any(T)] + Total(f, T \ {Any(T)})
  BY <1>3, NextTotal
<1>5. Any(T) \in T
  BY <1>4, AnyOf
<1>6. Total(f, T \ {Any(T)}) = 0 /\ f[Any(T)] = 0
  BY <1>2, <1>3, <1>5
<1> QED
  BY <1>3, <1>4, <1>6

-----------------------------------------------------------------------------
(* Adding to a cell, within int16_t.                                       *)
FiniteIn(T, S) == T \subseteq S /\ IsFiniteSet(T)

LEMMA AddRaises ==
  ASSUME NEW errs, NEW c, NEW e, errs[c] + e \in -127 .. 127
  PROVE  Add(errs, c, e) = Raised(errs, c, e)
<1>1. PICK v : v = errs[c] + e
  OBVIOUS
<1>2. v \in Int /\ -32768 <= v /\ v <= 32767
  BY <1>1
<1>3. Int16(errs[c] + e) = errs[c] + e
  BY <1>1, <1>2, Int16Keeps
<1> QED
  BY <1>3 DEF Add, Raised

LEMMA RaisedIs ==
  ASSUME NEW D, NEW f, IntsOn(f, D), NEW c, c \in D, NEW e, e \in Int
  PROVE  IntsOn(Raised(f, c, e), D) /\ \A d \in D : d # c => Raised(f, c, e)[d] = f[d]
  BY DEF IntsOn, Raised

LEMMA OneAdded ==
  ASSUME NEW S, NEW errs, IntsOn(errs, S), NEW T, FiniteIn(T, S),
         NEW c, c \in S, NEW e, e \in -55 .. 55, errs[c] \in -69 .. 69
  PROVE  /\ Total(Add(errs, c, e), T) = Total(errs, T) + PartIn(c, T, e)
         /\ IntsOn(Add(errs, c, e), S) /\ \A d \in S : d # c => Add(errs, c, e)[d] = errs[d]
<1>1. e \in Int /\ errs[c] + e \in -127 .. 127
  <2>1. \A a \in -69 .. 69, b \in -55 .. 55 : b \in Int /\ a + b \in -127 .. 127
    OBVIOUS
  <2> QED
    BY <2>1, Zenon
<1>2. Add(errs, c, e) = Raised(errs, c, e)
  BY <1>1, AddRaises
<1>3. Total(Raised(errs, c, e), T) = Total(errs, T) + PartIn(c, T, e)
  BY <1>1, TotalOf DEF FiniteIn
<1>4. IntsOn(Raised(errs, c, e), S) /\ \A d \in S : d # c => Raised(errs, c, e)[d] = errs[d]
  BY <1>1, RaisedIs
<1> QED
  BY <1>2, <1>3, <1>4, Zenon

LEMMA CurTotal ==
  ASSUME NEW S \in SUBSET Int, NEW errs, NEW k \in Int, NEW dir \in {-1, 1}, k + dir \in S,
         CurOK(S, errs, k, dir), NEW err \in -127 .. 127, NEW T, FiniteIn(T, S)
  PROVE  Total(Add(errs, k + dir, Share(err, 7)), T)
           = Total(errs, T) + PartIn(k + dir, T, Share(err, 7))
<1>1. IntsOn(errs, S) /\ \A c \in S : Within(errs[c], CurBound(c, k, dir))
  BY DEF CurOK, IntsOn
<1>2. CurBound(k + dir, k, dir) = 69
  BY AheadOf DEF CurBound
<1>3. PICK c : c = k + dir
  OBVIOUS
<1>4. PICK e : e = Share(err, 7)
  OBVIOUS
<1>5. c \in S /\ e \in -55 .. 55 /\ errs[c] \in -69 .. 69
  BY <1>1, <1>2, <1>3, <1>4, ShareBound DEF Within
<1>6. Total(Add(errs, c, e), T) = Total(errs, T) + PartIn(c, T, e)
  BY <1>1, <1>5, OneAdded
<1> QED
  BY <1>3, <1>4, <1>6

LEMMA ThreeAdded ==
  ASSUME NEW S, NEW errs, IntsOn(errs, S), NEW T, FiniteIn(T, S),
         NEW a, NEW k, NEW b, a \in S, k \in S, b \in S, a # k, b # k, b # a,
         errs[a] \in -46 .. 46, errs[k] \in -7 .. 7, errs[b] = 0,
         NEW s3, NEW s5, NEW s1, s3 \in -23 .. 23, s5 \in -39 .. 39, s1 \in -7 .. 7
  PROVE  Total(Add(Add(Add(errs, a, s3), k, s5), b, s1), T)
           = Total(errs, T) + PartIn(a, T, s3) + PartIn(k, T, s5) + PartIn(b, T, s1)
<1>1. PICK n1 : n1 = Add(errs, a, s3)
  OBVIOUS
<1>2. PICK n2 : n2 = Add(n1, k, s5)
  OBVIOUS
<1>3. /\ s3 \in -55 .. 55 /\ s5 \in -55 .. 55 /\ s1 \in -55 .. 55
      /\ errs[a] \in -69 .. 69 /\ errs[k] \in -69 .. 69 /\ errs[b] \in -69 .. 69
  OBVIOUS
<1>4. /\ Total(n1, T) = Total(errs, T) + PartIn(a, T, s3)
      /\ IntsOn(n1, S) /\ \A d \in S : d # a => n1[d] = errs[d]
  BY <1>1, <1>3, OneAdded
<1>5. n1[k] \in -69 .. 69
  BY <1>3, <1>4
<1>6. /\ Total(n2, T) = Total(n1, T) + PartIn(k, T, s5)
      /\ IntsOn(n2, S) /\ \A d \in S : d # k => n2[d] = n1[d]
  BY <1>2, <1>3, <1>4, <1>5, OneAdded
<1>7. n2[b] \in -69 .. 69
  BY <1>3, <1>4, <1>6
<1>8. Total(Add(n2, b, s1), T) = Total(n2, T) + PartIn(b, T, s1)
  BY <1>3, <1>6, <1>7, OneAdded
<1> QED
  BY <1>1, <1>2, <1>4, <1>6, <1>8

LEMMA NxtTotal ==
  ASSUME NEW S \in SUBSET Int, NEW errs, NEW k \in S, NEW dir \in {-1, 1},
         k + dir \in S, k - dir \in S, NxtOK(S, errs, k, dir), NEW err \in -127 .. 127,
         NEW T, FiniteIn(T, S)
  PROVE  Total(Add(Add(Add(errs, k - dir, Share(err, 3)), k, Share(err, 5)),
                   k + dir, Share(err, 1)), T)
           = Total(errs, T) + PartIn(k - dir, T, Share(err, 3)) + PartIn(k, T, Share(err, 5))
               + PartIn(k + dir, T, Share(err, 1))
<1>1. IntsOn(errs, S) /\ \A c \in S : Within(errs[c], NxtBound(c, k, dir))
  BY DEF NxtOK, IntsOn
<1>2. /\ NxtBound(k - dir, k, dir) = 46 /\ NxtBound(k, k, dir) = 7
      /\ NxtBound(k + dir, k, dir) = 0
  <2>1. NxtBound(k - dir, k, dir) = 46
    BY AheadOf DEF NxtBound
  <2>2. NxtBound(k, k, dir) = 7
    BY AheadOf DEF NxtBound
  <2>3. NxtBound(k + dir, k, dir) = 0
    BY AheadOf DEF NxtBound
  <2> QED
    BY <2>1, <2>2, <2>3
<1>3. PICK a : a = k - dir
  OBVIOUS
<1>4. PICK b : b = k + dir
  OBVIOUS
<1>5. a # k /\ b # k /\ b # a /\ a \in S /\ b \in S
  BY <1>3, <1>4
<1>6. errs[a] \in -46 .. 46 /\ errs[k] \in -7 .. 7 /\ errs[b] = 0
  BY <1>1, <1>2, <1>3, <1>4 DEF Within
<1>7. PICK s3 : s3 = Share(err, 3)
  OBVIOUS
<1>8. PICK s5 : s5 = Share(err, 5)
  OBVIOUS
<1>9. PICK s1 : s1 = Share(err, 1)
  OBVIOUS
<1>10. s3 \in -23 .. 23 /\ s5 \in -39 .. 39 /\ s1 \in -7 .. 7
  BY <1>7, <1>8, <1>9, ShareBound DEF Within
<1>11. Total(Add(Add(Add(errs, a, s3), k, s5), b, s1), T)
         = Total(errs, T) + PartIn(a, T, s3) + PartIn(k, T, s5) + PartIn(b, T, s1)
  BY <1>1, <1>5, <1>6, <1>10, ThreeAdded
<1> QED
  BY <1>3, <1>4, <1>7, <1>8, <1>9, <1>11

(* The rounding of a pixel's four shares, all towards zero.                *)
LEMMA ShareLoss ==
  ASSUME NEW err \in -127 .. 127
  PROVE  err - (Share(err, 7) + Share(err, 5) + Share(err, 3) + Share(err, 1)) \in -3 .. 3
  BY DEF Share, Quot

-----------------------------------------------------------------------------
(* The errors still to be spent, and what was lost of the tone.            *)
Inner == {x + 1 : x \in Px}
Waiting == Total(cur, ToDraw) + Total(Below, Inner)
Lost == drift - Waiting

(* A pixel loses at most three by rounding, the first of a line at most 23 *)
(* and the last at most 55 and 7 past the sides of the page.               *)
OfLine ==
  3 * i + (IF i > 0 THEN 23 ELSE 0) + (IF i = w THEN 62 ELSE 0)
Most == (3 * w + 85) * y + IF drawing THEN OfLine ELSE 0

Tone == w > 0 => Within(Lost, Most)

LEMMA WhereToDraw ==
  ASSUME Counters
  PROVE  /\ Inner = 1 .. w /\ Inner \subseteq Cells /\ IsFiniteSet(Inner)
         /\ ToDraw \subseteq Inner /\ IsFiniteSet(ToDraw)
         /\ ~drawing => ToDraw = {}
         /\ drawing /\ Reverse => ToDraw = 1 .. (w - i)
         /\ drawing /\ ~Reverse => ToDraw = (i + 1) .. w
<1>1. w \in Nat /\ i \in 0 .. w
  BY DEF Counters
<1>2. Inner = 1 .. w
  <2>1. ASSUME NEW c \in 1 .. w PROVE c - 1 \in 0 .. (w - 1) /\ c = (c - 1) + 1
    BY <1>1
  <2> QED
    BY <1>1, <2>1 DEF Inner, Px
<1>3. ToDraw \subseteq Inner /\ (~drawing => ToDraw = {})
  BY DEF ToDraw, Inner
<1>4. ASSUME drawing, Reverse PROVE ToDraw = 1 .. (w - i)
  <2>1. ToDraw = {x + 1 : x \in (0 .. (w - 1)) \ ((w - i) .. (w - 1))}
    BY <1>4 DEF ToDraw, Drawn, Px
  <2>2. ASSUME NEW c \in 1 .. (w - i)
        PROVE  c - 1 \in (0 .. (w - 1)) \ ((w - i) .. (w - 1)) /\ c = (c - 1) + 1
    BY <1>1
  <2> QED
    BY <1>1, <2>1, <2>2
<1>5. ASSUME drawing, ~Reverse PROVE ToDraw = (i + 1) .. w
  <2>1. ToDraw = {x + 1 : x \in (0 .. (w - 1)) \ (0 .. (i - 1))}
    BY <1>5 DEF ToDraw, Drawn, Px
  <2>2. ASSUME NEW c \in (i + 1) .. w
        PROVE  c - 1 \in (0 .. (w - 1)) \ (0 .. (i - 1)) /\ c = (c - 1) + 1
    BY <1>1
  <2> QED
    BY <1>1, <2>1, <2>2
<1>6. IsFiniteSet(Inner) /\ IsFiniteSet(ToDraw)
  <2>1. IsFiniteSet(Inner)
    BY <1>1, <1>2, FS_Interval
  <2> QED
    BY <1>3, <2>1, FS_Subset
<1>7. Inner \subseteq Cells
  BY <1>1, <1>2 DEF Cells
<1> QED
  BY <1>2, <1>3, <1>4, <1>5, <1>6, <1>7

(* Where the shares of the pixel that is drawn go.                         *)
LEMMA WhereSharesGo ==
  ASSUME Counters, drawing, i < w, i' = i + 1, w' = w, y' = y, drawing' = drawing,
         NEW k, k = X + 1
  PROVE  /\ k \in ToDraw /\ ToDraw' = ToDraw \ {k} /\ k \in Inner
         /\ i > 0 => k - Dir \in Inner
         /\ i = 0 => k - Dir \notin Inner
         /\ i + 1 < w => k + Dir \in Inner /\ k + Dir \in ToDraw'
         /\ i + 1 = w => k + Dir \notin Inner /\ k + Dir \notin ToDraw'
<1>1. w \in Nat /\ i \in 0 .. w
  BY DEF Counters
<1>2. Counters => Counters
  OBVIOUS
<1>3. Inner = 1 .. w
  BY WhereToDraw
<1>4. Reverse' = Reverse
  BY DEF Reverse
<1>5. CASE Reverse
  <2>1. X = w - 1 - i /\ Dir = -1 /\ ToDraw = 1 .. (w - i)
    BY <1>5, WhereToDraw DEF X, Dir
  <2>2. ToDraw' = 1 .. (w - (i + 1))
    <3>1. ToDraw' = {x + 1 : x \in (0 .. (w - 1)) \ ((w - (i + 1)) .. (w - 1))}
      BY <1>4, <1>5 DEF ToDraw, Drawn, Px
    <3>2. ASSUME NEW c \in 1 .. (w - (i + 1))
          PROVE  c - 1 \in (0 .. (w - 1)) \ ((w - (i + 1)) .. (w - 1)) /\ c = (c - 1) + 1
      BY <1>1
    <3> QED
      BY <1>1, <3>1, <3>2
  <2> QED
    BY <1>1, <1>3, <2>1, <2>2
<1>6. CASE ~Reverse
  <2>1. X = i /\ Dir = 1 /\ ToDraw = (i + 1) .. w
    BY <1>6, WhereToDraw DEF X, Dir
  <2>2. ToDraw' = (i + 2) .. w
    <3>1. ToDraw' = {x + 1 : x \in (0 .. (w - 1)) \ (0 .. ((i + 1) - 1))}
      BY <1>4, <1>6 DEF ToDraw, Drawn, Px
    <3>2. ASSUME NEW c \in (i + 2) .. w
          PROVE  c - 1 \in (0 .. (w - 1)) \ (0 .. ((i + 1) - 1)) /\ c = (c - 1) + 1
      BY <1>1
    <3> QED
      BY <1>1, <3>1, <3>2
  <2> QED
    BY <1>1, <1>3, <2>1, <2>2
<1> QED
  BY <1>5, <1>6

-----------------------------------------------------------------------------
LEMMA Distributes ==
  ASSUME NEW a \in Int, NEW b \in Int
  PROVE  a * (b + 1) = a * b + a
  OBVIOUS

LEMMA WaitingTyped ==
  ASSUME Counters, cur \in [Cells -> Int], nxt \in [Cells -> Int]
  PROVE  /\ Total(cur, ToDraw) \in Int /\ Total(cur, Inner) \in Int
         /\ Total(nxt, Inner) \in Int
<1>1. /\ \A c \in ToDraw : cur[c] \in Int
      /\ \A c \in Inner : cur[c] \in Int
      /\ \A c \in Inner : nxt[c] \in Int
  BY WhereToDraw
<1> QED
  BY <1>1, WhereToDraw, TotalTyped

LEMMA InitTone == DiffusionInit => Tone
  BY DEF DiffusionInit, Tone

(* A page begins with nothing asked for and nothing waiting.               *)
LEMMA StartDiffusionTone ==
  ASSUME Rows, NEW width \in Nat \ {0}, NEW g, StartDiffusion(width, g)
  PROVE  Tone'
<1>1. /\ w' = width /\ y' = 0 /\ drift' = 0 /\ drawing' = FALSE /\ i' = 0
      /\ cur' = [c \in 0 .. (width + 1) |-> 0]
  BY DEF StartDiffusion, Reset, Rows, Counters
<1>2. Inner' = 1 .. width /\ IsFiniteSet(Inner') /\ ToDraw' = {}
  <2>1. Inner' = {x + 1 : x \in 0 .. (width - 1)}
    BY <1>1 DEF Inner, Px
  <2>2. ASSUME NEW c \in 1 .. width PROVE c - 1 \in 0 .. (width - 1) /\ c = (c - 1) + 1
    OBVIOUS
  <2>3. Inner' = 1 .. width
    BY <2>1, <2>2
  <2>4. IsFiniteSet(1 .. width)
    BY FS_Interval
  <2> QED
    BY <1>1, <2>3, <2>4 DEF ToDraw
<1>3. Total(cur', ToDraw') = 0 /\ Total(cur', Inner') = 0
  <2>1. Total(cur', {}) = 0
    BY FS_EmptySet, NextTotal
  <2>2. \A c \in Inner' : cur'[c] = 0
    BY <1>1, <1>2
  <2> QED
    BY <1>2, <2>1, <2>2, TotalOfNone
<1>4. Lost' = 0
  BY <1>1, <1>3 DEF Lost, Waiting, Below
<1>5. Most' = 0
  BY <1>1 DEF Most
<1> QED
  BY <1>4, <1>5 DEF Tone, Within

(* Without a line being drawn the errors of the next one wait in err_cur.  *)
LEMMA StartLineTone ==
  ASSUME Rows, Tone, NEW inks, StartLine(inks)
  PROVE  Tone'
<1>1. /\ w > 0 /\ ~drawing /\ drawing' /\ i' = 0
      /\ nxt' = [c \in Cells |-> 0]
      /\ w' = w /\ y' = y /\ cur' = cur /\ drift' = drift
      /\ Counters /\ cur \in [Cells -> Int] /\ nxt \in [Cells -> Int]
      /\ w \in Nat /\ y \in Nat /\ drift \in Int
  BY DEF StartLine, Rows, Counters, Received
<1>2. Inner' = Inner /\ ToDraw' = Inner
  <2>1. Drawn' = {} /\ Px' = Px
    BY <1>1 DEF Drawn, Px
  <2> QED
    BY <1>1, <2>1 DEF Inner, ToDraw
<1>3. Total(nxt', Inner) = 0
  <2>1. \A c \in Inner : nxt'[c] = 0
    BY <1>1, WhereToDraw
  <2> QED
    BY <1>1, <2>1, WhereToDraw, TotalOfNone
<1>4. Total(cur, ToDraw) = 0
  BY <1>1, WhereToDraw, FS_EmptySet, NextTotal
<1>5. Total(cur, Inner) \in Int
  BY <1>1, WaitingTyped
<1>6. Waiting = Total(cur, Inner) /\ Waiting' = Total(cur, Inner)
  <2>1. Waiting = Total(cur, ToDraw) + Total(cur, Inner)
    BY <1>1 DEF Waiting, Below
  <2>2. Waiting' = Total(cur, Inner) + Total(nxt', Inner)
    BY <1>1, <1>2 DEF Waiting, Below
  <2> QED
    BY <1>3, <1>4, <1>5, <2>1, <2>2
<1>7. Lost' = Lost
  BY <1>1, <1>6 DEF Lost
<1>8. Most' = Most
  <2>1. OfLine' = 0
    BY <1>1 DEF OfLine
  <2>2. Most = (3 * w + 85) * y + 0 /\ Most' = (3 * w + 85) * y + 0
    BY <1>1, <2>1 DEF Most
  <2> QED
    BY <2>2
<1> QED
  BY <1>1, <1>7, <1>8 DEF Tone

LEMMA EndLineTone ==
  ASSUME Rows, Tone, EndLine
  PROVE  Tone'
<1>1. /\ w > 0 /\ drawing /\ drawing' = FALSE /\ i = w
      /\ w' = w /\ y' = y + 1 /\ cur' = nxt /\ drift' = drift
      /\ Counters /\ cur \in [Cells -> Int] /\ nxt \in [Cells -> Int]
      /\ w \in Nat /\ y \in Nat /\ drift \in Int
  BY DEF EndLine, Rows, Counters, Received
<1>2. Inner' = Inner /\ ToDraw' = {} /\ ToDraw = {}
  <2>1. Drawn = Px /\ Px' = Px
    BY <1>1 DEF Drawn, Px
  <2> QED
    BY <1>1, <2>1 DEF Inner, ToDraw
<1>3. Total(cur, ToDraw) = 0 /\ Total(cur', ToDraw') = 0
  BY <1>2, FS_EmptySet, NextTotal
<1>4. Waiting = 0 + Total(nxt, Inner) /\ Waiting' = 0 + Total(nxt, Inner)
  BY <1>1, <1>2, <1>3 DEF Waiting, Below
<1>5. Lost' = Lost
  BY <1>1, <1>4 DEF Lost
<1>6. Most' = Most
  <2>1. OfLine = 3 * w + 85
    BY <1>1 DEF OfLine
  <2>2. Most = (3 * w + 85) * y + (3 * w + 85)
    BY <1>1, <2>1 DEF Most
  <2>3. Most' = (3 * w + 85) * (y + 1) + 0
    BY <1>1 DEF Most
  <2> DEFINE a == 3 * w + 85
  <2>4. a \in Int /\ a * y \in Int
    BY <1>1
  <2>5. a * (y + 1) = a * y + a
    <3> HIDE DEF a
    <3> QED
      BY <1>1, <2>4, Distributes
  <2> HIDE DEF a
  <2> QED
    BY <2>2, <2>3, <2>4, <2>5 DEF a
<1> QED
  BY <1>1, <1>5, <1>6 DEF Tone

(* A pixel spends the error of its cell and hands on all but the rounding, *)
(* except at the sides of the page.                                        *)
LEMMA DrawPixelTone ==
  ASSUME Rows, Tone, DrawPixel
  PROVE  Tone'
<1> DEFINE v == ink[X] + cur[X + 1]
           ink1 == IF Black(v) THEN 255 ELSE 0
           err == v - ink1
<1>1. /\ drawing /\ i < w
      /\ cur' = Add(cur, X + 1 + Dir, Share(err, 7))
      /\ nxt' = Add(Add(Add(nxt, X + 1 - Dir, Share(err, 3)), X + 1, Share(err, 5)),
                    X + 1 + Dir, Share(err, 1))
      /\ drift' = drift + ink[X] - ink1
      /\ i' = i + 1
      /\ w' = w /\ y' = y /\ drawing' = drawing
  BY DEF DrawPixel
<1>2. /\ Counters /\ w \in Nat /\ w > 0 /\ i \in 0 .. w /\ y \in Nat /\ drift \in Int
      /\ cur \in [Cells -> Int] /\ nxt \in [Cells -> Int]
      /\ ink \in [Px -> 0 .. 255]
  BY <1>1 DEF Rows, Counters, Received, Line
<1>3. CurOK(Cells, cur, X + 1, Dir) /\ NxtOK(Cells, nxt, X + 1, Dir)
  BY <1>1, <1>2 DEF Rows, Received
<1>4. /\ X \in Px /\ X \in Int /\ Dir \in {-1, 1} /\ Cells \subseteq Int
      /\ X + 1 \in Cells /\ X + 1 + Dir \in Cells /\ X + 1 - Dir \in Cells
  BY <1>1, <1>2, Scan
<1>5. cur[X + 1] \in -124 .. 124 /\ ink[X] \in 0 .. 255 /\ ink1 \in {0, 255}
  <2>1. /\ CurBound(X + 1, X + 1, Dir) \in {69, 124}
        /\ Within(cur[X + 1], CurBound(X + 1, X + 1, Dir))
    BY <1>3, <1>4 DEF CurBound, CurOK
  <2>2. cur[X + 1] \in -124 .. 124
    BY <2>1 DEF Within
  <2> QED
    BY <1>2, <1>4, <2>2
<1>6. err \in -127 .. 127
  <2>1. cur[X + 1] \in -124 .. 124 /\ ink[X] \in 0 .. 255
    BY <1>5
  <2>2. err = v - (IF Black(v) THEN 255 ELSE 0)
    OBVIOUS
  <2> HIDE DEF err
  <2>3. v - (IF Black(v) THEN 255 ELSE 0) \in -127 .. 127
    BY <2>1, ErrorBound
  <2> QED
    BY <2>2, <2>3, Zenon
<1>7. err = ink[X] + cur[X + 1] - ink1
  <2>1. err = v - ink1 /\ v = ink[X] + cur[X + 1]
    OBVIOUS
  <2>2. ink1 \in Int /\ ink[X] \in Int /\ cur[X + 1] \in Int
    BY <1>5
  <2> HIDE DEF v, ink1, err
  <2> QED
    BY <2>1, <2>2
<1> HIDE DEF v, ink1, err
<1>8. PICK k : k = X + 1
  OBVIOUS
<1>9. /\ k \in ToDraw /\ ToDraw' = ToDraw \ {k} /\ k \in Inner
      /\ i > 0 => k - Dir \in Inner
      /\ i = 0 => k - Dir \notin Inner
      /\ i + 1 < w => k + Dir \in Inner /\ k + Dir \in ToDraw'
      /\ i + 1 = w => k + Dir \notin Inner /\ k + Dir \notin ToDraw'
  BY <1>1, <1>2, <1>8, WhereSharesGo
<1>10. /\ Cells \in SUBSET Int /\ k \in Cells /\ k \in Int /\ k + Dir \in Cells
       /\ k - Dir \in Cells /\ CurOK(Cells, cur, k, Dir) /\ NxtOK(Cells, nxt, k, Dir)
       /\ k \in ToDraw /\ ToDraw' = ToDraw \ {k} /\ k \in Inner
       /\ cur[k] \in -124 .. 124 /\ err = ink[X] + cur[k] - ink1
  BY <1>3, <1>4, <1>5, <1>8, <1>7, <1>9
<1>11. Inner \subseteq Cells /\ FiniteIn(Inner, Cells) /\ FiniteIn(ToDraw', Cells)
  BY <1>2, <1>10, WhereToDraw, FS_RemoveElement DEF FiniteIn
<1>12. Total(cur, ToDraw) = cur[k] + Total(cur, ToDraw') /\ Total(cur, ToDraw') \in Int
  <2>1. \A c \in ToDraw : cur[c] \in Int
    BY <1>2, WhereToDraw
  <2>2. Total(cur, ToDraw) = cur[k] + Total(cur, ToDraw \ {k})
    BY <1>2, <1>10, <2>1, WhereToDraw, TotalWithout
  <2>3. IsFiniteSet(ToDraw \ {k}) /\ \A c \in ToDraw \ {k} : cur[c] \in Int
    BY <1>2, <2>1, WhereToDraw, FS_RemoveElement
  <2>4. Total(cur, ToDraw \ {k}) \in Int
    BY <2>3, TotalTyped
  <2> QED
    BY <1>10, <2>2, <2>4
<1>13. Total(cur', ToDraw') = Total(cur, ToDraw') + PartIn(k + Dir, ToDraw', Share(err, 7))
  <2>1. cur' = Add(cur, k + Dir, Share(err, 7))
    BY <1>1, <1>8
  <2> QED
    BY <1>4, <1>6, <1>10, <1>11, <2>1, CurTotal
<1>14. Total(nxt', Inner)
         = Total(nxt, Inner) + PartIn(k - Dir, Inner, Share(err, 3))
             + PartIn(k, Inner, Share(err, 5)) + PartIn(k + Dir, Inner, Share(err, 1))
  <2>1. nxt' = Add(Add(Add(nxt, k - Dir, Share(err, 3)), k, Share(err, 5)),
                   k + Dir, Share(err, 1))
    <3>1. nxt' = Add(Add(Add(nxt, X + 1 - Dir, Share(err, 3)), X + 1, Share(err, 5)),
                     X + 1 + Dir, Share(err, 1))
      BY <1>1
    <3> QED
      BY <1>4, <1>8, <3>1
  <2> QED
    BY <1>4, <1>6, <1>10, <1>11, <2>1, NxtTotal
<1>15. Inner' = Inner
  BY <1>1 DEF Inner, Px
<1>16. /\ Waiting = Total(cur, ToDraw) + Total(nxt, Inner)
       /\ Waiting' = Total(cur', ToDraw') + Total(nxt', Inner)
  BY <1>1, <1>15 DEF Waiting, Below
<1>17. Total(nxt, Inner) \in Int
  BY <1>2, WaitingTyped
<1>18. PICK s7, s5, s3, s1 : /\ s7 = Share(err, 7) /\ s5 = Share(err, 5)
                             /\ s3 = Share(err, 3) /\ s1 = Share(err, 1)
  OBVIOUS
<1>19. /\ s7 \in -55 .. 55 /\ s5 \in -39 .. 39 /\ s3 \in -23 .. 23 /\ s1 \in -7 .. 7
       /\ err - (s7 + s5 + s3 + s1) \in -3 .. 3
  BY <1>6, <1>18, ShareBound, ShareLoss DEF Within
<1>20. /\ PartIn(k, Inner, s5) = s5
       /\ PartIn(k - Dir, Inner, s3) = IF i > 0 THEN s3 ELSE 0
       /\ PartIn(k + Dir, Inner, s1) = IF i + 1 = w THEN 0 ELSE s1
       /\ PartIn(k + Dir, ToDraw', s7) = IF i + 1 = w THEN 0 ELSE s7
  <2>1. /\ i > 0 \/ i = 0
        /\ i + 1 < w \/ i + 1 = w
        /\ ~(i > 0 /\ i = 0) /\ ~(i + 1 < w /\ i + 1 = w)
    BY <1>1, <1>2
  <2> QED
    BY <1>9, <2>1 DEF PartIn
<1>21. Lost' - Lost = (err - (s7 + s5 + s3 + s1)) + (IF i > 0 THEN 0 ELSE s3)
                        + (IF i + 1 = w THEN s7 + s1 ELSE 0)
  <2>1. PICK t, d, u, n : /\ t = Total(cur, ToDraw') /\ d = drift
                          /\ u = ink[X] - ink1 /\ n = Total(nxt, Inner)
    OBVIOUS
  <2>2. PICK c : c = cur[k]
    OBVIOUS
  <2>3. t \in Int /\ d \in Int /\ u \in Int /\ n \in Int /\ c \in Int /\ err = u + c
    BY <1>2, <1>5, <1>10, <1>12, <1>17, <2>1, <2>2
  <2>4. PICK p7, p5, p3, p1 : /\ p7 = PartIn(k + Dir, ToDraw', s7) /\ p5 = PartIn(k, Inner, s5)
                              /\ p3 = PartIn(k - Dir, Inner, s3) /\ p1 = PartIn(k + Dir, Inner, s1)
    OBVIOUS
  <2>5. Total(cur', ToDraw') = t + p7 /\ Total(nxt', Inner) = n + p3 + p5 + p1
    BY <1>13, <1>14, <1>18, <2>1, <2>4, Zenon
  <2>6. Lost = d - ((c + t) + n)
    BY <1>12, <1>16, <2>1, <2>2, Zenon DEF Lost
  <2>7. drift' = d + u
    BY <1>1, <1>2, <1>5, <2>1
  <2>8. Lost' = (d + u) - ((t + p7) + (n + p3 + p5 + p1))
    BY <1>16, <2>5, <2>7, Zenon DEF Lost
  <2>9. /\ p5 = s5 /\ p3 = IF i > 0 THEN s3 ELSE 0
        /\ p1 = IF i + 1 = w THEN 0 ELSE s1
        /\ p7 = IF i + 1 = w THEN 0 ELSE s7
    BY <1>20, <2>4, Zenon
  <2> QED
    BY <1>19, <2>3, <2>6, <2>8, <2>9
<1>22. Lost \in Int
  BY <1>2, <1>10, <1>12, <1>16, <1>17 DEF Lost
<1>23. /\ Most = (3 * w + 85) * y + 3 * i + (IF i > 0 THEN 23 ELSE 0)
       /\ Most' = (3 * w + 85) * y + 3 * (i + 1) + 23 + (IF i + 1 = w THEN 62 ELSE 0)
  <2>1. OfLine = 3 * i + (IF i > 0 THEN 23 ELSE 0)
    BY <1>1, <1>2 DEF OfLine
  <2>2. OfLine' = 3 * (i + 1) + 23 + (IF i + 1 = w THEN 62 ELSE 0)
    BY <1>1, <1>2 DEF OfLine
  <2>3. Most = (3 * w + 85) * y + OfLine /\ Most' = (3 * w + 85) * y + OfLine'
    BY <1>1 DEF Most
  <2> DEFINE m == (3 * w + 85) * y
  <2>4. m \in Int
    BY <1>2
  <2> HIDE DEF m
  <2>5. /\ m + OfLine = m + 3 * i + (IF i > 0 THEN 23 ELSE 0)
        /\ m + OfLine' = m + 3 * (i + 1) + 23 + (IF i + 1 = w THEN 62 ELSE 0)
    BY <1>2, <2>1, <2>2, <2>4
  <2> QED
    BY <2>3, <2>5 DEF m
<1>24. Within(Lost', Most')
  <2> DEFINE m == (3 * w + 85) * y
  <2>1. m \in Int
    BY <1>2
  <2>2. /\ Most = m + 3 * i + (IF i > 0 THEN 23 ELSE 0)
        /\ Most' = m + 3 * (i + 1) + 23 + (IF i + 1 = w THEN 62 ELSE 0)
    BY <1>23
  <2> HIDE DEF m
  <2>3. Lost \in -Most .. Most
    BY <1>2 DEF Tone, Within
  <2>4. Lost' \in Int
    BY <1>1, <1>2, <1>5, <1>12, <1>13, <1>14, <1>16, <1>17, <1>18, <1>19, <1>20 DEF Lost
  <2>5. PICK a, b : a = Lost /\ b = Lost'
    OBVIOUS
  <2>6. b = a + ((err - (s7 + s5 + s3 + s1)) + (IF i > 0 THEN 0 ELSE s3)
                   + (IF i + 1 = w THEN s7 + s1 ELSE 0))
    <3>1. PICK r : r = (err - (s7 + s5 + s3 + s1)) + (IF i > 0 THEN 0 ELSE s3)
                         + (IF i + 1 = w THEN s7 + s1 ELSE 0)
      OBVIOUS
    <3>2. b - a = r
      BY <1>21, <2>5, <3>1, Zenon
    <3>3. r \in Int
      BY <1>19, <3>1
    <3>4. a \in Int /\ b \in Int
      BY <1>22, <2>4, <2>5, Zenon
    <3>5. b = a + r
      BY <3>2, <3>3, <3>4
    <3> QED
      BY <3>1, <3>5, Zenon
  <2>7. PICK f : f = err - (s7 + s5 + s3 + s1)
    OBVIOUS
  <2>8. /\ f \in -3 .. 3 /\ a \in Int
        /\ a <= m + 3 * i + (IF i > 0 THEN 23 ELSE 0)
        /\ a >= -(m + 3 * i + (IF i > 0 THEN 23 ELSE 0))
        /\ b = a + (f + (IF i > 0 THEN 0 ELSE s3) + (IF i + 1 = w THEN s7 + s1 ELSE 0))
    BY <1>2, <1>19, <1>22, <2>1, <2>2, <2>3, <2>5, <2>6, <2>7
  <2>9. /\ b \in Int /\ b <= m + 3 * (i + 1) + 23 + (IF i + 1 = w THEN 62 ELSE 0)
        /\ b >= -(m + 3 * (i + 1) + 23 + (IF i + 1 = w THEN 62 ELSE 0))
    BY <1>2, <1>19, <2>1, <2>8
  <2> QED
    BY <1>2, <2>1, <2>2, <2>5, <2>9 DEF Within
<1> QED
  BY <1>24 DEF Tone

-----------------------------------------------------------------------------
(* Calls that leave the halftoner alone, or only its last line.            *)
LEMMA ToneStays ==
  ASSUME Tone, UNCHANGED dvars
  PROVE  Tone'
<1>1. /\ w' = w /\ y' = y /\ drawing' = drawing /\ i' = i /\ ink' = ink /\ bits' = bits
      /\ cur' = cur /\ nxt' = nxt /\ drift' = drift
  BY DEF dvars
<1>2. Lost' = Lost
  BY <1>1 DEF Lost, Waiting, Below, ToDraw, Drawn, Reverse, Inner, Px
<1>3. Most' = Most
  BY <1>1 DEF Most, OfLine
<1> QED
  BY <1>1, <1>2, <1>3 DEF Tone

LEMMA CompareLineTone ==
  ASSUME Tone, NEW pixels, CompareLine(pixels)
  PROVE  Tone'
<1>1. /\ ~drawing /\ w' = w /\ y' = y /\ drawing' = drawing
      /\ cur' = cur /\ nxt' = nxt /\ drift' = drift
  BY DEF CompareLine, TakeLine
<1>2. ToDraw' = {} /\ ToDraw = {} /\ Inner' = Inner
  BY <1>1 DEF ToDraw, Inner, Px
<1>3. Lost' = Lost
  BY <1>1, <1>2 DEF Lost, Waiting, Below
<1>4. Most' = Most
  BY <1>1 DEF Most
<1> QED
  BY <1>1, <1>3, <1>4 DEF Tone

LEMMA StepTone ==
  ASSUME Rows, Tone, [DiffusionNext]_dvars
  PROVE  Tone'
<1>1. ASSUME w' \in Nat \ {0}, NEW g \in Garbage, StartDiffusion(w', g)
      PROVE  Tone'
  <2>1. PICK width : width = w'
    OBVIOUS
  <2> QED
    BY <1>1, <2>1, StartDiffusionTone
<1>2. ASSUME StartLine(ink') PROVE Tone'
  <2>1. PICK inks : inks = ink'
    OBVIOUS
  <2> QED
    BY <1>2, <2>1, StartLineTone
<1>3. CASE UNCHANGED dvars
  BY <1>3, ToneStays
<1> QED
  BY <1>1, <1>2, <1>3, DrawPixelTone, EndLineTone DEF DiffusionNext

LEMMA StepPagesTone ==
  ASSUME Pages, Tone, [Next]_vars
  PROVE  Tone'
<1>0. Rows /\ PageOK
  BY DEF Pages
<1>1. ASSUME NEW f \in Formats, NEW r \in Rasters, NEW g \in Garbage, cb_rstartpage(f, r, g)
      PROVE  Tone'
  <2>1. PICK gx : gx = geometry(r.w, Printable.w, Margin.left)
    OBVIOUS
  <2>2. StartDiffusion(gx.size, g)
    BY <1>1, <2>1 DEF cb_rstartpage
  <2>3. gx.size \in Nat \ {0}
    <3>1. /\ r.w \in Nat \ {0} /\ Printable.w \in Nat \ {0} /\ Margin.left \in Nat
      BY RasterPageAssumption
    <3> QED
      BY <2>1, <3>1, GeometryCuts
  <2>4. PICK width : width = gx.size
    OBVIOUS
  <2> QED
    BY <1>0, <2>2, <2>3, <2>4, StartDiffusionTone
<1>2. ASSUME UNCHANGED dvars PROVE Tone'
  BY <1>2, ToneStays
<1>3. ASSUME MakeScreen \/ SkipLine \/ cb_rendpage \/ UNCHANGED vars PROVE UNCHANGED dvars
  <2>1. MakeScreen => UNCHANGED dvars
    BY DEF MakeScreen
  <2>2. SkipLine => UNCHANGED dvars
    BY DEF SkipLine
  <2>3. cb_rendpage => UNCHANGED dvars
    BY DEF cb_rendpage
  <2>4. UNCHANGED vars => UNCHANGED dvars
    BY DEF vars
  <2> QED
    BY <1>3, <2>1, <2>2, <2>3, <2>4
<1>4. ASSUME NEW pixels, CompareLine(pixels) PROVE Tone'
  BY <1>4, CompareLineTone
<1>5. ASSUME NEW pixels, DiffuseLine(pixels) PROVE Tone'
  <2>1. StartLine(InkOf(pixels))
    BY <1>5 DEF DiffuseLine
  <2>2. PICK inks : inks = InkOf(pixels)
    OBVIOUS
  <2> QED
    BY <1>0, <2>1, <2>2, StartLineTone
<1>6. ASSUME Diffuse PROVE Tone'
  BY <1>0, <1>6, DrawPixelTone, EndLineTone DEF Diffuse
<1> QED
  BY <1>1, <1>2, <1>3, <1>4, <1>5, <1>6 DEF Next

LEMMA ToneIsEnough == Rows /\ Tone => ToneKept
<1> SUFFICES ASSUME Rows, Tone, w > 0 PROVE ToneKept
  BY DEF ToneKept
<1> DEFINE lines == IF drawing THEN y + 1 ELSE y
           most == 3 * w * lines + 87 * lines
<1>1. w \in Nat /\ y \in Nat /\ i \in 0 .. w /\ drawing \in BOOLEAN
  BY DEF Rows, Counters
<1>2. Lost \in Int
  <2>1. Counters /\ cur \in [Cells -> Int] /\ nxt \in [Cells -> Int] /\ drift \in Int
    BY DEF Rows, Received, Counters
  <2>2. Total(cur, ToDraw) \in Int /\ Total(cur, Inner) \in Int /\ Total(nxt, Inner) \in Int
    BY <2>1, WaitingTyped
  <2>3. Total(Below, Inner) \in Int
    BY <1>1, <2>2 DEF Below
  <2> QED
    BY <2>1, <2>2, <2>3 DEF Lost, Waiting
<1>3. lines \in Nat /\ most \in Int /\ Most \in Int /\ Most <= most
  <2> DEFINE a == 3 * w
             p == a * y
  <2>1. a \in Nat /\ p \in Int
    BY <1>1
  <2>2. (a + 85) * y = p + 85 * y /\ a * (y + 1) = p + a
    <3> HIDE DEF a
    <3> QED
      BY <1>1, <2>1
  <2>3. OfLine \in Int /\ OfLine <= a + 85
    BY <1>1 DEF OfLine
  <2>4. CASE drawing
    <3>1. lines = y + 1 /\ most = a * (y + 1) + 87 * (y + 1) /\ Most = (a + 85) * y + OfLine
      BY <2>4 DEF Most
    <3> HIDE DEF a, p, lines, most
    <3> QED
      BY <1>1, <2>1, <2>2, <2>3, <3>1
  <2>5. CASE ~drawing
    <3>1. lines = y /\ most = p + 87 * y /\ Most = (a + 85) * y + 0
      BY <2>5 DEF Most
    <3> HIDE DEF a, p, lines, most
    <3> QED
      BY <1>1, <2>1, <2>2, <3>1
  <2> QED
    BY <1>1, <2>4, <2>5
<1>4. Lost \in -Most .. Most
  BY DEF Tone, Within
<1>5. Lost \in -most .. most
  <2> HIDE DEF most
  <2> QED
    BY <1>2, <1>3, <1>4
<1>6. Lost = drift - (MapThenSumSet(LAMBDA c : cur[c], ToDraw)
                        + MapThenSumSet(LAMBDA c : Below[c], {x + 1 : x \in Px}))
  BY DEF Lost, Waiting, Total, Inner
<1> QED
  BY <1>5, <1>6, Zenon DEF ToneKept

(***************************************************************************)
(* floyd_steinberg, for every width, number of lines and ink: the ink that *)
(* was asked for and the ink that was printed differ by what the rows of   *)
(* errors still hold, up to the rounding of the shares and what leaves the *)
(* page at its sides.                                                      *)
(***************************************************************************)
THEOREM ToneKeptHolds == DiffusionSpec => []ToneKept
<1>1. DiffusionSpec => [](Rows /\ SolidExact /\ Tone)
  BY InitRows, InitTone, StepKeeps, StepTone, PTL DEF DiffusionSpec
<1> QED
  BY <1>1, ToneIsEnough, PTL

(***************************************************************************)
(* The same on the pages of a job, whatever pages came before and whatever *)
(* methods they used.                                                      *)
(***************************************************************************)
THEOREM PageToneKept == Spec => []ToneKept
<1>1. Init => Pages /\ Tone
  BY InitPages, InitTone DEF Init
<1>2. Spec => [](Pages /\ Tone)
  BY <1>1, StepPages, StepPagesTone, PTL DEF Spec
<1>3. Pages /\ Tone => ToneKept
  BY ToneIsEnough DEF Pages
<1> QED
  BY <1>2, <1>3, PTL
=============================================================================
