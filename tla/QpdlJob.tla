------------------------------- MODULE QpdlJob -------------------------------
(***************************************************************************)
(* A client of the encoder, a sink that may fail at any record, and a      *)
(* reader of what the sink took.  The client calls the encoder in any      *)
(* order it likes and goes on calling it after errors: the encoder's own   *)
(* guards are all that keeps the stream legal.                             *)
(***************************************************************************)
EXTENDS QpdlPages

CONSTANTS
  MaxLines,   \* bound: lines a client writes on one page
  MaxPages,   \* bound: pages a client starts in one job
  MaxDrops    \* bound: sink failures in one job

ASSUME QpdlJobAssumption ==
  MaxLines \in Nat /\ MaxPages \in Nat /\ MaxDrops \in Nat

VARIABLES
  e,       \* the encoder
  wire,    \* the records of the current job that the sink took
  mark,    \* history: how long the wire was when the current page began
  d,       \* the reader of the wire
  pic,     \* history: the lines the client wrote on the current page
  book,    \* history: the lines of each page the client ended
  drops,   \* history: the calls of this job that returned EIO
  faulty   \* history: a call of this job returned EIO, or ERANGE for a band

vars == <<e, wire, mark, d, pic, book, drops, faulty>>

Init ==
  /\ e = ClearedEncoder
  /\ wire = << >>
  /\ mark = 0
  /\ d = ClearedDecoder
  /\ pic = << >>
  /\ book = << >>
  /\ drops = 0
  /\ faulty = FALSE

(* What every call leaves behind: its state, its records on the wire, the    *)
(* reader that follows the wire, and the note that it reported a loss.     *)
Complete(r) ==
  /\ e' = r.e
  /\ wire' = wire \o r.sent
  /\ d' = walk(d, r.sent)
  /\ drops' = IF r.rc = "EIO" THEN drops + 1 ELSE drops
  /\ drops' <= MaxDrops
  /\ faulty' = (faulty \/ r.rc = "EIO" \/ (r.rc = "ERANGE" /\ e.in_page))

(* A job may begin at any time, after a job that was never ended too.  The *)
(* wire and the reader are those of the new job.                           *)
BeginJob(valid, f) ==
  LET r == begin_job(e, valid, f)
  IN  \/ /\ r.rc = "EINVAL"
         /\ Complete(r)
         /\ UNCHANGED <<pic, book, mark>>
      \/ /\ r.rc # "EINVAL"
         /\ e' = r.e
         /\ wire' = r.sent
         /\ d' = walk(ClearedDecoder, r.sent)
         /\ drops' = IF r.rc = "EIO" THEN 1 ELSE 0
         /\ drops' <= MaxDrops
         /\ faulty' = (r.rc = "EIO")
         /\ pic' = << >>
         /\ book' = << >>
         /\ mark' = 0

BeginPage(width, room, f) ==
  LET r == begin_page(e, width, room, f)
  IN  /\ e.pages < MaxPages
      /\ Complete(r)
      /\ IF r.rc \in {"OK", "EIO"}
         THEN pic' = << >> /\ mark' = Len(wire)
         ELSE UNCHANGED <<pic, mark>>
      /\ UNCHANGED book

WriteLine(line, f) ==
  LET r == write_line(e, line, f)
  IN  /\ Len(pic) < MaxLines
      /\ Complete(r)
      /\ pic' = IF r.rc = "ESTATE" THEN pic ELSE Append(pic, line.px)
      /\ UNCHANGED <<book, mark>>

EndThePage(f) ==
  LET r == end_page(e, f)
  IN  /\ Complete(r)
      /\ book' = IF r.rc = "OK" THEN Append(book, pic) ELSE book
      /\ UNCHANGED <<pic, mark>>

EndTheJob(f) ==
  /\ Complete(end_job(e, f))
  /\ UNCHANGED <<pic, book, mark>>

Next ==
  \E f \in SinkFates :
    \/ \E valid \in BOOLEAN : BeginJob(valid, f)
    \/ \E width \in {"ok", "out"}, room \in BOOLEAN : BeginPage(width, room, f)
    \/ \E line \in Line : WriteLine(line, f)
    \/ EndThePage(f)
    \/ EndTheJob(f)

Spec == Init /\ [][Next]_vars

-----------------------------------------------------------------------------
(* The type invariant.  Its one demanding part: the band number that       *)
(* flush_band casts to a byte is a number the record can carry.            *)
TypeOK ==
  /\ e \in EncoderStates
  /\ wire \in Seq(Records)
  /\ mark \in 0 .. Len(wire)
  /\ d \in DecoderStates
  /\ pic \in Seq(Ink)
  /\ book \in Seq(Seq(Ink))
  /\ drops \in 0 .. MaxDrops
  /\ faulty \in BOOLEAN

(***************************************************************************)
(* Every page ends up as the client drew it, unless a call said otherwise: *)
(* as long as no call of the job returned EIO, or ERANGE for a band,       *)
(* decoding what is on the wire gives, page by page, exactly the lines the *)
(* client wrote, white below them, whatever bands were skipped as blank,   *)
(* however the last band was filled, and in whatever order the calls came. *)
(***************************************************************************)
RoundTrip ==
  ~faulty =>
    /\ Len(d.shown) = Len(book)
    /\ \A k \in 1 .. Len(book) : Shows(d.shown[k], book[k])

(***************************************************************************)
(* ... and the stream is legal: a prefix of a job at all times, a whole    *)
(* job once end_job closed it.  Calls out of order must not get anything   *)
(* onto the wire.                                                          *)
(***************************************************************************)
StreamLegal ==
  ~faulty =>
    /\ JobPrefix(wire)
    /\ wire # << >> /\ ~e.in_job => CompleteJob(wire)

(***************************************************************************)
(* Even when the sink fails and the client carries on, the bands that      *)
(* reach the wire whole within one page keep strictly increasing numbers:  *)
(* a band is never sent twice under one number, and the one-byte number of *)
(* the record never wraps.                                                 *)
(***************************************************************************)
BandNumbersIncrease ==
  \A i, j \in (mark + 1) .. Len(wire) :
    i < j /\ IsBand(wire[i]) /\ IsBand(wire[j])
      => wire[i].number < wire[j].number

(***************************************************************************)
(* A band that is all white is never sent, whatever padding bits the lines *)
(* carried: the printer's blank bands cost no bytes (encode.c flush_band). *)
(***************************************************************************)
NoBlankBandSent ==
  \A i \in 1 .. Len(wire) :
    IsBand(wire[i]) => \E n \in Slots : wire[i].rows[n].px # White

-----------------------------------------------------------------------------
(***************************************************************************)
(* Why RoundTrip holds.  The reader is where the encoder is: a page that   *)
(* is being drawn is half assembled, half in the workspace (Drawing), and  *)
(* between pages the reader's page is white.                               *)
(***************************************************************************)
Following ==
  /\ wire = << >> => ~e.in_job /\ d.walk = "pjl"
  /\ wire # << >> => d.walk = IF e.in_job THEN "records" ELSE "done"
  /\ ~e.in_page => d.page_rows = BlankPage

(* The inductive invariant behind RoundTrip: encoder, wire and reader are  *)
(* in step.                                                                *)
InStep ==
  ~faulty => /\ Following
             /\ e.in_page => Drawing(e, d, pic)
             /\ Len(d.shown) = Len(book)
             /\ \A k \in 1 .. Len(book) : Shows(d.shown[k], book[k])

-----------------------------------------------------------------------------
(***************************************************************************)
(* The encoder implements PagePrinter: the printed pages are those that    *)
(* decoding the wire shows, and the job is lost from the first call that   *)
(* returned EIO, or ERANGE for a band, on.                                 *)
(***************************************************************************)
JobPhase ==
  CASE faulty -> "lost"
    [] ~faulty /\ e.in_page -> "page"
    [] ~faulty /\ ~e.in_page /\ e.in_job -> "open"
    [] ~faulty /\ ~e.in_job /\ wire # << >> -> "closed"
    [] OTHER -> "none"

DecodedPages ==
  [k \in 1 .. Len(d.shown) |->
     [n \in PageLines |-> ShownLine(d.shown[k], n).px]]

Promise == INSTANCE PagePrinter
             WITH Height  <- (MaxBand + 1) * BandLines,
                  job     <- JobPhase,
                  pic     <- IF faulty THEN << >> ELSE pic,
                  printed <- IF faulty THEN << >> ELSE DecodedPages

(* Every step of the encoder, with its reader, is a step of the promise.   *)
KeepsPromise == Promise!Spec
=============================================================================
