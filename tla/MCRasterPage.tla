---------------------------- MODULE MCRasterPage -----------------------------
(* An imageable area of three by three pixels behind margins of one: a     *)
(* raster of four has just room for area and margin, five has a line       *)
(* below, two is smaller than the area.  The gray levels ask for half of   *)
(* the ink, as the default tone curve does for 159 and 160: the largest    *)
(* errors.                                                                 *)
EXTENDS RasterPage

Area == [w |-> 3, h |-> 3]
Edge == [left |-> 1, top |-> 1]
Tone == [g \in {0, 159, 160, 255} |->
           CASE g = 0 -> 255 [] g = 159 -> 128 [] g = 160 -> 127 [] g = 255 -> 0]
SmallMask == [p \in (0 .. 1) \X (0 .. 1) |-> <<254, 0, 127, 64>>[2 * p[1] + p[2] + 1]]

Sizes == {[w |-> 2, h |-> 5], [w |-> 4, h |-> 2], [w |-> 3, h |-> 4]}

Method(kind, n) == [kind |-> kind, n |-> n]
AllMethods ==
  {Method("floyd-steinberg", 0), Method("threshold", 96),
   Method("bluenoise", 0), Method("bayer", 4), Method("bayer", 8)}
    \union {Method("clustered", n) : n \in 4 .. 11}
LargeCell == {Method("clustered", 12)}
OneSize == {[w |-> 3, h |-> 4]}
=============================================================================
