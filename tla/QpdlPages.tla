------------------------------ MODULE QpdlPages ------------------------------
(***************************************************************************)
(* The encoder and the reader together: what a page that a reader shows,   *)
(* or is still assembling, has to do with the lines the encoder was given. *)
(***************************************************************************)
EXTENDS QpdlEncoder, QpdlWalk

(* Line n of a picture; a page is white below its last line.               *)
LineOf(p, n) == IF n < Len(p) THEN p[n + 1] ELSE White

(* Line n of a decoded page.                                               *)
ShownLine(page, n) == page[n \div BandLines][n % BandLines]

PageLines == 0 .. ((MaxBand + 1) * BandLines - 1)

(* The decoded page shows the picture, line for line, and no ink past the  *)
(* raster width.                                                           *)
Shows(page, p) ==
  \A n \in PageLines :
    ShownLine(page, n) = [px |-> LineOf(p, n), spill |-> FALSE]

(* It shows the first m lines of the picture and nothing below.            *)
Painted(page, p, m) ==
  \A n \in PageLines :
    ShownLine(page, n) = [px |-> IF n < m THEN p[n + 1] ELSE White,
                          spill |-> FALSE]

(* The lines of a page that are in the workspace, and those before them.   *)
Filled(s) == s.lines % BandLines
Base(s) == s.lines - Filled(s)

(***************************************************************************)
(* While the encoder s draws the picture p, its first lines are in the     *)
(* bands already flushed and assembled by the reader q, and the others in  *)
(* the workspace, white below them.                                        *)
(***************************************************************************)
Drawing(s, q, p) ==
  /\ s.in_job
  /\ s.lines = Len(p)
  /\ s.band_number = s.lines \div BandLines
  /\ s.band_number <= MaxBand + 1
  /\ \A i \in Slots :
       s.rows[i] = [px |-> IF i < Filled(s) THEN p[Base(s) + i + 1] ELSE White,
                    spill |-> FALSE]
  /\ Painted(q.page_rows, p, Base(s))
  /\ \A b \in Bands : b >= s.band_number \/ b > q.max_band
                        => q.page_rows[b] = BlankRows
=============================================================================
