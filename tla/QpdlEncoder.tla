----------------------------- MODULE QpdlEncoder -----------------------------
(***************************************************************************)
(* The job encoder, src/qpdl/encode.c: m2022_qpdl_encoder_t and the five   *)
(* calls on it, as operators from an encoder state to what the call        *)
(* leaves, returns and writes.                                             *)
(*                                                                         *)
(* The encoder writes through a sink that can fail.  How the sink treats   *)
(* one call is the parameter f: it takes f.acc records whole and fails on  *)
(* the next one, of which it may have taken a strict prefix (f.torn).      *)
(***************************************************************************)
EXTENDS Qpdl

RecordsPerCall == 2                 \* end_page: the last band, the end record

SinkFates == [acc : 0 .. RecordsPerCall, torn : BOOLEAN]

ReturnCodes == {"OK", "EIO", "EINVAL", "ERANGE", "ESTATE"}

(* The fields of m2022_qpdl_encoder_t that steer the calls.  The others    *)
(* (job parameters, width and the layout derived from it, bytes_out) are   *)
(* data the records carry or the log prints.                               *)
EncoderStates ==
  [in_job : BOOLEAN, in_page : BOOLEAN, lines : Nat, band_number : Nat,
   rows : [Slots -> Line], pages : Nat, bands_written : Nat,
   bands_blank : Nat]

(* memset(e, 0, sizeof *e)                                                 *)
ClearedEncoder ==
  [in_job |-> FALSE, in_page |-> FALSE, lines |-> 0, band_number |-> 0,
   rows |-> BlankRows, pages |-> 0, bands_written |-> 0, bands_blank |-> 0]

(* A call that returns rc without having written anything.                 *)
Return(s, rc, f) == [e |-> s, rc |-> rc, sent |-> << >>, f |-> f]

(* emit(): the sink takes the record, or fails and ends the call.          *)
emit(s, rec, f) ==
  IF f.acc > 0
  THEN [e |-> s, rc |-> "OK", sent |-> <<rec>>,
        f |-> [acc |-> f.acc - 1, torn |-> f.torn]]
  ELSE [e |-> s, rc |-> "EIO", sent |-> IF f.torn THEN <<Torn>> ELSE << >>,
        f |-> f]

(* Mutant: the bits past the width are not masked.                         *)
StoredRow_unmasked(line) == line

(* memcpy of the used bytes, and the mask over the bits past the width.    *)
StoredRow(line) == [px |-> line.px, spill |-> FALSE]

-----------------------------------------------------------------------------
(* m2022_qpdl_begin_job: `valid` is the verdict of the checks on the job.  *)
(* in_job is set before the envelope is written.                           *)
begin_job(s, valid, f) ==
  IF ~valid THEN Return(s, "EINVAL", f)
  ELSE emit([ClearedEncoder EXCEPT !.in_job = TRUE], Envelope, f)

(* Mutant: a page goes on counting where the last one stopped.             *)
begin_page_keeps_count(s, width, room, f) ==
  IF ~s.in_job \/ s.in_page THEN Return(s, "ESTATE", f)
  ELSE IF width = "out" THEN Return(s, "ERANGE", f)
  ELSE IF ~room THEN Return(s, "EINVAL", f)
  ELSE emit([s EXCEPT !.rows = BlankRows, !.in_page = TRUE], PageHeader, f)

(* m2022_qpdl_begin_page: `width` is "ok" or "out" of 1..65280, `room`     *)
(* whether the workspace is large enough.  in_page is set before the page  *)
(* header is written.                                                      *)
begin_page(s, width, room, f) ==
  IF ~s.in_job \/ s.in_page THEN Return(s, "ESTATE", f)
  ELSE IF width = "out" THEN Return(s, "ERANGE", f)
  ELSE IF ~room THEN Return(s, "EINVAL", f)
  ELSE emit([s EXCEPT !.rows = BlankRows, !.lines = 0, !.band_number = 0,
                      !.in_page = TRUE], PageHeader, f)

(* Mutants: the check of the band number is missing; bands count from one; *)
(* the rows are not cleared once the band was written.                     *)
TooTall_unchecked(s) == FALSE
BandByte_from_one(n) == n + 1
Flushed_stale(s) ==
  [s EXCEPT !.bands_written = @ + 1, !.band_number = @ + 1]

(* The band number is one byte: flush_band refuses a band it does not fit, *)
(* and casts it for the record.                                            *)
TooTall(s) == s.band_number > MaxBand
BandByte(n) == n % (MaxBand + 1)

(* What flush_band leaves once the record was written.                     *)
Flushed(s) ==
  [s EXCEPT !.rows = BlankRows, !.bands_written = @ + 1, !.band_number = @ + 1]

(* flush_band: nothing for a white band, otherwise the band record; the    *)
(* rows are cleared and the number advanced only when it was written.      *)
flush_band(s, f) ==
  IF TooTall(s) THEN Return(s, "ERANGE", f)
  ELSE IF s.rows = BlankRows
  THEN Return([s EXCEPT !.bands_blank = @ + 1, !.band_number = @ + 1], "OK", f)
  ELSE LET r == emit(s, BandRecord(BandByte(s.band_number), s.rows), f)
       IN  IF r.rc # "OK" THEN r ELSE [r EXCEPT !.e = Flushed(s)]

(* m2022_qpdl_write_line: the line is stored and counted, and a full band  *)
(* is flushed.                                                             *)
write_line(s, line, f) ==
  IF ~s.in_page THEN Return(s, "ESTATE", f)
  ELSE LET t == [s EXCEPT !.rows[s.lines % BandLines] = StoredRow(line),
                          !.lines = @ + 1]
       IN  IF t.lines % BandLines = 0 THEN flush_band(t, f)
           ELSE Return(t, "OK", f)

(* Mutant: the partial last band is forgotten.                             *)
end_page_drops_partial(s, f) ==
  IF ~s.in_page THEN Return(s, "ESTATE", f)
  ELSE emit([s EXCEPT !.in_page = FALSE, !.pages = @ + 1], EndPage, f)

(* m2022_qpdl_end_page: the partial last band, then the end record.  The   *)
(* page stays open when the band cannot be written.                        *)
end_page(s, f) ==
  IF ~s.in_page THEN Return(s, "ESTATE", f)
  ELSE LET b == IF s.lines % BandLines # 0 THEN flush_band(s, f)
                ELSE Return(s, "OK", f)
           r == emit([b.e EXCEPT !.in_page = FALSE, !.pages = @ + 1],
                     EndPage, b.f)
       IN  IF b.rc # "OK" THEN b
           ELSE [r EXCEPT !.sent = b.sent \o r.sent]

(* Mutant: a job may end while a page is open.                             *)
end_job_in_page(s, f) ==
  IF ~s.in_job THEN Return(s, "ESTATE", f)
  ELSE emit([s EXCEPT !.in_job = FALSE], EndJob, f)

(* m2022_qpdl_end_job                                                      *)
end_job(s, f) ==
  IF ~s.in_job \/ s.in_page THEN Return(s, "ESTATE", f)
  ELSE emit([s EXCEPT !.in_job = FALSE], EndJob, f)
=============================================================================
