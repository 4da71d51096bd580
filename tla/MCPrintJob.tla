----------------------------- MODULE MCPrintJob ------------------------------
(* Bands of two lines, an imageable area of three under a margin of one: a *)
(* raster of less than three lines is shorter than the imageable area, one *)
(* of four has just room for the margin, a taller one has lines below the  *)
(* area that are skipped as well; the last band of a page is partial.      *)
EXTENDS PrintJob

(* Bound: in a job of two pages the rasters of the pages that were begun   *)
(* are one shorter than the imageable area and one that just holds it; a   *)
(* job of one page has any.                                                *)
Bounded ==
  \/ pages < 2
  \/ /\ at = "page" => Len(sheet) + left \in {2, 4}
     /\ \A k \in DOMAIN book : book[k].h \in {2, 4}
=============================================================================
