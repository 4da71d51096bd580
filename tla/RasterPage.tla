----------------------------- MODULE RasterPage ------------------------------
(***************************************************************************)
(* A page of pixels on its way to the encoder: cb_rstartpage and           *)
(* cb_rwriteline of src/app/app.c with the conversions they call.  The     *)
(* client's raster is cut to the imageable area, turned into gray          *)
(* (src/raster/convert.c), into ink (src/raster/tone.c) and into dots      *)
(* (src/halftone/halftone.c).  What the encoder does with the dots is      *)
(* PrintJob's.                                                             *)
(***************************************************************************)
EXTENDS Diffusion, Screens, JobMap

CONSTANTS
  Printable,  \* w, h: pixels of the imageable area
  Margin,     \* left, top: pixels the engine cannot reach
  Gray,       \* bound: the gray levels of the rasters
  Lut,        \* m2022_tone_build: the ink of a gray level
  Mask,       \* m2022_bluenoise64, by <<y, x>>
  MaskSide,   \* the side of the mask, 64
  Methods,    \* bound: the halftone parameters of the jobs
  Rasters,    \* bound: the sizes of the rasters
  MaxPages    \* bound: pages of a job

ASSUME RasterPageAssumption ==
  /\ {0, 255} \subseteq Gray /\ Gray \subseteq 0 .. 255
  /\ Lut \in [Gray -> 0 .. 255] /\ Lut[0] = 255 /\ Lut[255] = 0
  /\ Mask \in [(0 .. (MaskSide - 1)) \X (0 .. (MaskSide - 1)) -> 0 .. 254]
  /\ Rasters \subseteq [w : Nat \ {0}, h : Nat \ {0}]
  /\ Printable \in [w : Nat \ {0}, h : Nat \ {0}] /\ Margin \in [left : Nat, top : Nat]
  /\ MaskSide \in Nat \ {0} /\ MaxPages \in Nat

VARIABLES
  at,       \* "job" between pages, "page"
  method,   \* j->hp: the halftone method and its parameter
  pages,    \* pages started
  fmt,      \* j->fmt
  raster,   \* the size of the client's raster
  geo,      \* j->geo
  line,     \* history: the line of the raster handed over last
  row,      \* lines handed over
  rows      \* lines passed on to the encoder

pvars == <<at, method, pages, fmt, raster, geo, line, row, rows>>
vars == <<dvars, svars, pvars>>

Formats == {"SGRAY_8", "BLACK_8", "BLACK_1"}

NoGeo == [x0 |-> 0, y0 |-> 0, width |-> 0, height |-> 0]

(* A job's preset or options have chosen the method.                       *)
Init ==
  /\ DiffusionInit /\ ScreensInit
  /\ at = "job" /\ method \in Methods /\ pages = 0 /\ fmt = "SGRAY_8"
  /\ raster = [w |-> 1, h |-> 1] /\ geo = NoGeo /\ line = NoLine /\ row = 0
  /\ rows = 0

(* The pixels of a raster as its format writes the gray levels: black ink  *)
(* counts the other way, and one bit per pixel is black or white.          *)
Pixels(f) ==
  CASE f = "SGRAY_8" -> Gray
    [] f = "BLACK_8" -> {255 - g : g \in Gray}
    [] f = "BLACK_1" -> {0, 1}

(* m2022_raster_line_to_gray for one pixel.                                *)
line_to_gray(f, pixel) ==
  CASE f = "SGRAY_8" -> pixel
    [] f = "BLACK_8" -> 255 - pixel
    [] f = "BLACK_1" -> IF pixel = 1 THEN 0 ELSE 255

(* Mutant: the line is not cropped.                                        *)
fit_line_uncropped(gray, x0, width) == [x \in 0 .. (width - 1) |-> gray[x]]

(* m2022_raster_fit_line: the line from x0 on; past its end, white.        *)
fit_line(gray, x0, width) ==
  [x \in 0 .. (width - 1) |->
     IF x0 + x \in DOMAIN gray THEN gray[x0 + x] ELSE 255]

(* The ink of a line of the raster.                                        *)
InkOf(pixels) ==
  LET gray == [x \in DOMAIN pixels |-> line_to_gray(fmt, pixels[x])]
      fitted == fit_line(gray, geo.x0, geo.width)
  IN  [x \in DOMAIN fitted |-> Lut[fitted[x]]]

(* cb_rstartpage: the geometry, and the halftoner for its width, in memory *)
(* that holds g.                                                           *)
cb_rstartpage(f, r, g) ==
  LET gx == geometry(r.w, Printable.w, Margin.left)
      gy == geometry(r.h, Printable.h, Margin.top)
  IN  /\ at = "job" /\ pages < MaxPages
      /\ at' = "page" /\ pages' = pages + 1 /\ fmt' = f /\ raster' = r
      /\ geo' = [x0 |-> gx.start, y0 |-> gy.start,
                 width |-> gx.size, height |-> gy.size]
      /\ line' = NoLine /\ row' = 0 /\ rows' = 0
      /\ StartDiffusion(gx.size, g)
      /\ IF method.kind \in {"bayer", "clustered"}
         THEN StartScreen(method.kind, method.n) ELSE NoScreen
      /\ UNCHANGED method

(* The matrix is made before cb_rstartpage returns.                        *)
MakeScreen ==
  /\ Double \/ Rank \/ Scale
  /\ UNCHANGED <<dvars, pvars>>

(* Dots of a line by comparison with a threshold.                          *)
Dots(inks, n) ==
  [x \in DOMAIN inks |->
     inks[x] > CASE method.kind = "threshold" -> method.n
                 [] method.kind = "bluenoise" ->
                      Mask[<<n % MaskSide, x % MaskSide>>]
                 [] OTHER -> Threshold(x, n)]

Ordered == method.kind # "floyd-steinberg"

(* A line above or below the imageable area.                               *)
InMargin == row < geo.y0 \/ row >= geo.y0 + geo.height

(* The page takes its next line; of one that is skipped nothing is kept.   *)
TakeLine(kept) ==
  /\ at = "page" /\ stage = "ready" /\ ~drawing /\ row < raster.h
  /\ line' = kept /\ row' = row + 1
  /\ UNCHANGED <<at, method, pages, fmt, raster, geo, svars>>

(* cb_rwriteline for a line the printer cannot reach, for a line whose     *)
(* pixels are compared one by one, and for one whose errors are diffused.  *)
SkipLine ==
  /\ InMargin
  /\ TakeLine(NoLine)
  /\ UNCHANGED <<dvars, rows>>

CompareLine(pixels) ==
  /\ ~InMargin /\ Ordered
  /\ TakeLine(pixels)
  /\ ink' = InkOf(pixels) /\ bits' = Dots(ink', row - geo.y0)
  /\ i' = w /\ rows' = rows + 1
  /\ UNCHANGED <<w, y, drawing, cur, nxt, drift>>

DiffuseLine(pixels) ==
  /\ ~InMargin /\ ~Ordered
  /\ TakeLine(pixels)
  /\ StartLine(InkOf(pixels))
  /\ UNCHANGED rows

(* The rest of the line, up to the call of m2022_qpdl_write_line.          *)
Diffuse ==
  \/ DrawPixel /\ UNCHANGED <<svars, pvars>>
  \/ /\ EndLine /\ rows' = rows + 1
     /\ UNCHANGED <<svars, at, method, pages, fmt, raster, geo, line, row>>

(* cb_rendpage                                                             *)
cb_rendpage ==
  /\ at = "page" /\ row = raster.h /\ ~drawing
  /\ at' = "job"
  /\ UNCHANGED <<dvars, svars, method, pages, fmt, raster, geo, line, row, rows>>

Next ==
  \/ \E f \in Formats, r \in Rasters, g \in Garbage : cb_rstartpage(f, r, g)
  \/ MakeScreen
  \/ SkipLine
  \/ \E pixels \in [0 .. (raster.w - 1) -> Pixels(fmt)] :
       CompareLine(pixels) \/ DiffuseLine(pixels)
  \/ Diffuse
  \/ cb_rendpage

Spec == Init /\ [][Next]_vars

-----------------------------------------------------------------------------
(* The type invariant.  Every pixel that is read lies in the raster.       *)
TypeOK ==
  /\ at \in {"job", "page"} /\ pages \in 0 .. MaxPages /\ fmt \in Formats
  /\ row \in 0 .. raster.h /\ rows \in 0 .. Printable.h
  /\ geo.x0 + geo.width <= raster.w /\ geo.y0 + geo.height <= raster.h
  /\ DiffusionTypeOK

(* The lines that were halftoned: the last one is line.                    *)
LineShows == row > geo.y0 /\ row <= geo.y0 + geo.height

(* Where the imageable area begins in a raster of this size, told without  *)
(* the code's formula: a raster that does not reach past the margin and    *)
(* the area begins at the area.                                            *)
Offset(size, area, margin) == IF size < margin + area THEN 0 ELSE margin

(***************************************************************************)
(* Black and white pixels of the client's page land on their place: the    *)
(* dot at x of the line is the pixel Offset + x of the raster, whatever    *)
(* the format, the method, the size of the raster and the grays around it. *)
(***************************************************************************)
SolidInPlace ==
  at = "page" /\ LineShows =>
    \A x \in Drawn :
      LET pixel == line[Offset(raster.w, Printable.w, Margin.left) + x]
          gray == line_to_gray(fmt, pixel)
      IN  /\ gray = 0 => bits[x]
          /\ gray = 255 => ~bits[x]
=============================================================================
