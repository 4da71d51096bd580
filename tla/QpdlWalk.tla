------------------------------- MODULE QpdlWalk ------------------------------
(***************************************************************************)
(* The reading side: the job walker of src/qpdl/walk.c driving the page    *)
(* assembly of `m2022-airbridge decode --pbm` (src/cli/cmd_decode.c).      *)
(***************************************************************************)
EXTENDS Qpdl

(* decode_ctx_t: the rows of the page being assembled (missing bands are   *)
(* white), the highest band seen on it, and the pages written out; and     *)
(* whether the walk goes on, came to the end of the job, or failed.        *)
BlankPage == [b \in Bands |-> BlankRows]

DecoderStates ==
  [page_rows : [Bands -> [Slots -> Line]], max_band : -1 .. MaxBand,
   shown : Seq([Bands -> [Slots -> Line]]),
   walk : {"pjl", "records", "done", "error"}]

ClearedDecoder ==
  [page_rows |-> BlankPage, max_band |-> -1, shown |-> << >>, walk |-> "pjl"]

(* on_page does not touch page_rows: write_pbm left it white.              *)
on_page(d) == [d EXCEPT !.max_band = -1]

(* on_band: the decoded rows go to the place of their number.              *)
on_band(d, r) ==
  [d EXCEPT !.page_rows[r.number] = r.rows,
            !.max_band = IF r.number > @ THEN r.number ELSE @]

(* on_end_page: write_pbm writes the bands up to max_band, which shows the *)
(* whole page because no band above it was stored, and clears the rows.  A *)
(* page without bands writes no file; it shows a blank page.               *)
on_end_page(d) ==
  IF d.max_band < 0 THEN [d EXCEPT !.shown = Append(@, BlankPage)]
  ELSE [d EXCEPT !.shown = Append(@, [b \in Bands |->
                     IF b <= d.max_band THEN d.page_rows[b] ELSE BlankRows]),
                 !.page_rows = BlankPage]

(* One turn of the loop of m2022_qpdl_walk: nothing is read before the     *)
(* envelope, a torn record ends the walk, nothing may follow the end of    *)
(* the job.                                                                *)
visit(d, r) ==
  CASE d.walk = "pjl" ->
         [d EXCEPT !.walk = IF r.t = "envelope" THEN "records" ELSE "error"]
    [] d.walk = "records" /\ r.t = "page" -> on_page(d)
    [] d.walk = "records" /\ r.t = "band" -> on_band(d, r)
    [] d.walk = "records" /\ r.t = "end_page" -> on_end_page(d)
    [] d.walk = "records" /\ r.t = "end_job" -> [d EXCEPT !.walk = "done"]
    [] OTHER -> [d EXCEPT !.walk = "error"]

(* The walk over what one encoder call writes: at most two records.        *)
walk(d, recs) ==
  CASE Len(recs) = 0 -> d
    [] Len(recs) = 1 -> visit(d, recs[1])
    [] OTHER -> visit(visit(d, recs[1]), recs[2])
=============================================================================
