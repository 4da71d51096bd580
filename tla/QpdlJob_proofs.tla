--------------------------- MODULE QpdlJob_proofs ---------------------------
(***************************************************************************)
(* Proofs about the encoder and its reader, for every band height, every   *)
(* number of bands, every set of line contents and every bound.            *)
(***************************************************************************)
EXTENDS QpdlJob, QpdlLemmas

USE QpdlAssumption, QpdlJobAssumption

-----------------------------------------------------------------------------
(* One step of the job keeps every variable in its type.                   *)
LEMMA TypeStep == TypeOK /\ [Next]_vars => TypeOK'
<1> SUFFICES ASSUME TypeOK, [Next]_vars PROVE TypeOK'
  OBVIOUS
<1> USE DEF TypeOK
<1>1. ASSUME NEW r \in Results, Complete(r)
      PROVE  /\ e' \in EncoderStates /\ wire' \in Seq(Records)
             /\ Len(wire') >= Len(wire) /\ d' \in DecoderStates
             /\ drops' \in 0 .. MaxDrops /\ faulty' \in BOOLEAN
  <2>1. r.e \in EncoderStates /\ r.sent \in Seq(Records)
    BY DEF Results
  <2>2. /\ wire \o r.sent \in Seq(Records)
        /\ Len(wire \o r.sent) = Len(wire) + Len(r.sent)
        /\ Len(r.sent) \in Nat /\ Len(wire) \in Nat
    BY <2>1, ConcatProperties, LenProperties
  <2>3. walk(d, r.sent) \in DecoderStates
    BY <2>1, WalkType
  <2> QED
    BY <1>1, <2>1, <2>2, <2>3 DEF Complete
<1>2. ASSUME NEW valid \in BOOLEAN, NEW f \in SinkFates, BeginJob(valid, f)
      PROVE  TypeOK'
  <2> DEFINE r == begin_job(e, valid, f)
  <2>1. r \in Results
    BY CallTypes
  <2>2. CASE r.rc = "EINVAL" /\ Complete(r) /\ UNCHANGED <<pic, book, mark>>
    BY <1>1, <2>1, <2>2
  <2>3. CASE /\ r.rc # "EINVAL"
             /\ e' = r.e /\ wire' = r.sent
             /\ d' = walk(ClearedDecoder, r.sent)
             /\ drops' = (IF r.rc = "EIO" THEN 1 ELSE 0)
             /\ drops' <= MaxDrops
             /\ faulty' = (r.rc = "EIO")
             /\ pic' = << >> /\ book' = << >> /\ mark' = 0
    <3>1. r.e \in EncoderStates /\ r.sent \in Seq(Records)
      BY <2>1 DEF Results
    <3>2. walk(ClearedDecoder, r.sent) \in DecoderStates
      BY <3>1, BlankTypes, WalkType
    <3> QED
      BY <2>3, <3>1, <3>2
  <2> QED
    BY <1>2, <2>2, <2>3 DEF BeginJob
<1>3. ASSUME NEW width \in {"ok", "out"}, NEW room \in BOOLEAN,
             NEW f \in SinkFates, BeginPage(width, room, f)
      PROVE  TypeOK'
  <2>1. begin_page(e, width, room, f) \in Results
    BY CallTypes
  <2>2. Complete(begin_page(e, width, room, f))
    BY <1>3 DEF BeginPage
  <2>3. pic' \in Seq(Ink) /\ book' \in Seq(Seq(Ink)) /\ mark' \in 0 .. Len(wire)
    <3>1. Len(wire) \in 0 .. Len(wire) /\ << >> \in Seq(Ink)
      OBVIOUS
    <3>2. /\ book' = book
          /\ \/ pic' = << >> /\ mark' = Len(wire)
             \/ pic' = pic /\ mark' = mark
      BY <1>3 DEF BeginPage
    <3> QED
      BY <3>1, <3>2
  <2>4. mark' \in 0 .. Len(wire')
    BY <1>1, <2>1, <2>2, <2>3
  <2> QED
    BY <1>1, <2>1, <2>2, <2>3, <2>4
<1>4. ASSUME NEW line \in Line, NEW f \in SinkFates, WriteLine(line, f)
      PROVE  TypeOK'
  <2>1. write_line(e, line, f) \in Results
    BY CallTypes
  <2>2. Append(pic, line.px) \in Seq(Ink)
    BY DEF Line
  <2> QED
    BY <1>1, <1>4, <2>1, <2>2 DEF WriteLine
<1>5. ASSUME NEW f \in SinkFates, EndThePage(f)
      PROVE  TypeOK'
  <2>1. end_page(e, f) \in Results
    BY CallTypes
  <2>2. Append(book, pic) \in Seq(Seq(Ink))
    OBVIOUS
  <2> QED
    BY <1>1, <1>5, <2>1, <2>2 DEF EndThePage
<1>6. ASSUME NEW f \in SinkFates, EndTheJob(f)
      PROVE  TypeOK'
  <2>1. end_job(e, f) \in Results
    BY CallTypes
  <2> QED
    BY <1>1, <1>6, <2>1 DEF EndTheJob
<1>7. CASE UNCHANGED vars
  BY <1>7 DEF vars
<1> QED
  BY <1>2, <1>3, <1>4, <1>5, <1>6, <1>7 DEF Next

(***************************************************************************)
(* The encoder, its reader and the history keep their types: in particular *)
(* no record leaves with a band number that does not fit its byte, and the *)
(* reader never stores a band outside the page.                            *)
(***************************************************************************)
THEOREM TypeCorrect == Spec => []TypeOK
<1>1. Init => TypeOK
  <2>1. /\ << >> \in Seq(Records) /\ << >> \in Seq(Ink)
        /\ << >> \in Seq(Seq(Ink)) /\ 0 \in 0 .. Len(<< >>)
        /\ 0 \in 0 .. MaxDrops
    OBVIOUS
  <2>2. ClearedEncoder \in EncoderStates /\ ClearedDecoder \in DecoderStates
    BY BlankTypes
  <2> QED
    BY <2>1, <2>2 DEF Init, TypeOK
<1> QED
  BY <1>1, TypeStep, PTL DEF Spec


-----------------------------------------------------------------------------
(***************************************************************************)
(* InStep is inductive: one lemma per action, then the theorem.            *)
(***************************************************************************)

(* A call that returns an error before it does anything changes nothing.   *)
LEMMA RefusedInStep ==
  ASSUME TypeOK, InStep, NEW rc, NEW f, Complete(Return(e, rc, f)),
         pic' = pic, book' = book
  PROVE  InStep'
<1>1. e' = e /\ d' = d
  BY WalkShort DEF Complete, Return
<1>2. wire' = wire
  BY ConcatEmptySeq DEF Complete, Return, TypeOK
<1>3. ~faulty' => ~faulty
  BY DEF Complete
<1> QED
  BY <1>1, <1>2, <1>3
     DEF InStep, Following

LEMMA BeginJobInStep ==
  ASSUME TypeOK, InStep, NEW valid \in BOOLEAN, NEW f \in SinkFates,
         BeginJob(valid, f)
  PROVE  InStep'
<1> DEFINE r == begin_job(e, valid, f)
<1>1. CASE ~valid
  <2>1. r = Return(e, "EINVAL", f)
    BY <1>1 DEF begin_job
  <2>2. r.rc = "EINVAL"
    BY <2>1 DEF Return
  <2>3. Complete(Return(e, "EINVAL", f)) /\ pic' = pic /\ book' = book
    BY <2>1, <2>2 DEF BeginJob
  <2> QED
    BY <2>3, RefusedInStep
<1>2. CASE valid
  <2> DEFINE opened == [ClearedEncoder EXCEPT !.in_job = TRUE]
  <2>1. r = emit(opened, Envelope, f)
    BY <1>2 DEF begin_job
  <2>2. r.rc # "EINVAL" /\ r.e = opened
    BY <2>1 DEF emit
  <2>3. /\ e' = opened /\ wire' = r.sent /\ d' = walk(ClearedDecoder, r.sent)
        /\ faulty' = (r.rc = "EIO") /\ book' = << >>
    BY <2>2 DEF BeginJob
  <2>4. SUFFICES ASSUME ~faulty' PROVE InStep'
    BY DEF InStep
  <2>5. r.rc = "OK"
    <3>1. r.rc # "EIO"
      BY <2>3, <2>4
    <3> QED
      BY <2>1, <3>1 DEF emit
  <2>6. /\ d'.walk = "records" /\ d'.page_rows = BlankPage /\ d'.shown = << >>
    <3> HIDE DEF r
    <3>1. r = begin_job(e, valid, f)
      BY DEF r
    <3> QED
      BY <2>3, <2>5, <3>1, BeginJobFollowed
  <2>7. e'.in_job /\ ~e'.in_page
    BY <2>3 DEF ClearedEncoder
  <2>8. wire' # << >>
    <3>1. r.sent = <<Envelope>>
      BY <2>1, <2>5 DEF emit
    <3> QED
      BY <2>3, <3>1
  <2> QED
    BY <2>3, <2>6, <2>7, <2>8 DEF InStep, Following
<1> QED
  BY <1>1, <1>2

LEMMA BeginPageInStep ==
  ASSUME TypeOK, InStep, NEW width \in {"ok", "out"}, NEW room \in BOOLEAN,
         NEW f \in SinkFates, BeginPage(width, room, f)
  PROVE  InStep'
<1> DEFINE r == begin_page(e, width, room, f)
           refused == ~e.in_job \/ e.in_page \/ width = "out" \/ ~room
<1>1. CASE refused
  <2>1. PICK rc \in {"ESTATE", "ERANGE", "EINVAL"} : r = Return(e, rc, f)
    BY <1>1 DEF begin_page
  <2>2. r.rc \notin {"OK", "EIO"}
    BY <2>1 DEF Return
  <2>3. Complete(Return(e, rc, f)) /\ pic' = pic /\ book' = book
    BY <2>1, <2>2 DEF BeginPage
  <2> QED
    BY <2>3, RefusedInStep
<1>2. CASE ~refused
  <2> DEFINE opened == [e EXCEPT !.rows = BlankRows, !.lines = 0,
                                 !.band_number = 0, !.in_page = TRUE]
  <2>1. r = emit(opened, PageHeader, f)
    BY <1>2 DEF begin_page
  <2>2. SUFFICES ASSUME ~faulty' PROVE InStep'
    BY DEF InStep
  <2>3. ~faulty /\ r.rc # "EIO"
    BY <2>2 DEF BeginPage, Complete
  <2>4. r.rc = "OK" /\ r.e = opened /\ r.sent = <<PageHeader>>
    BY <2>1, <2>3 DEF emit
  <2>5. /\ e' = opened /\ wire' = wire \o <<PageHeader>>
        /\ d' = walk(d, <<PageHeader>>) /\ pic' = << >> /\ book' = book
    BY <2>4 DEF BeginPage, Complete
  <2>6. /\ d.walk = "records" /\ d.page_rows = BlankPage
    BY <1>2, <2>3 DEF InStep, Following
  <2>7. /\ d'.walk = "records" /\ d'.shown = d.shown /\ Drawing(e', d', pic')
    <3>1. d' = walk(d, r.sent) /\ e' = r.e
      BY <2>4, <2>5
    <3> HIDE DEF r
    <3>2. r = begin_page(e, width, room, f) /\ e \in EncoderStates /\ d \in DecoderStates
      BY DEF r, TypeOK
    <3>3. r.rc = "OK" /\ pic' = << >>
      BY <2>4, <2>5
    <3>4. LET c == walk(d, r.sent)
          IN  c.walk = "records" /\ c.shown = d.shown /\ Drawing(r.e, c, << >>)
      BY <2>6, <3>2, <3>3, BeginPageFollowed
    <3> QED
      BY <3>1, <3>3, <3>4
  <2>8. e'.in_job /\ e'.in_page
    BY <1>2, <2>5 DEF TypeOK, EncoderStates
  <2>9. wire' # << >>
    <3>1. PageHeader \in Records
      BY DEF Records, PlainRecords
    <3> QED
      BY <2>5, <3>1 DEF TypeOK
  <2> QED
    BY <2>3, <2>5, <2>7, <2>8, <2>9 DEF InStep, Following
<1> QED
  BY <1>1, <1>2

LEMMA EndTheJobInStep ==
  ASSUME TypeOK, InStep, NEW f \in SinkFates, EndTheJob(f)
  PROVE  InStep'
<1> DEFINE r == end_job(e, f)
           refused == ~e.in_job \/ e.in_page
<1>1. CASE refused
  <2>1. r = Return(e, "ESTATE", f)
    BY <1>1 DEF end_job
  <2>2. Complete(Return(e, "ESTATE", f)) /\ pic' = pic /\ book' = book
    BY <2>1 DEF EndTheJob
  <2> QED
    BY <2>2, RefusedInStep
<1>2. CASE ~refused
  <2> DEFINE closed == [e EXCEPT !.in_job = FALSE]
  <2>1. r = emit(closed, EndJob, f)
    BY <1>2 DEF end_job
  <2>2. SUFFICES ASSUME ~faulty' PROVE InStep'
    BY DEF InStep
  <2>3. ~faulty /\ r.rc # "EIO"
    BY <2>2 DEF EndTheJob, Complete
  <2>4. r.e = closed /\ r.sent = <<EndJob>>
    BY <2>1, <2>3 DEF emit
  <2>5. /\ e' = closed /\ wire' = wire \o <<EndJob>>
        /\ d' = walk(d, <<EndJob>>) /\ book' = book
    BY <2>4 DEF EndTheJob, Complete
  <2>6. /\ d.walk = "records" /\ d.page_rows = BlankPage
    BY <1>2, <2>3 DEF InStep, Following
  <2>7. /\ d'.walk = "done" /\ d'.page_rows = BlankPage /\ d'.shown = d.shown
    <3>1. d' = walk(d, r.sent) /\ r.rc = "OK"
      BY <2>1, <2>3, <2>4, <2>5 DEF emit
    <3> QED
      BY <2>6, <3>1, EndJobFollowed DEF TypeOK
  <2>8. ~e'.in_job /\ ~e'.in_page
    BY <1>2, <2>5 DEF TypeOK, EncoderStates
  <2>9. wire' # << >>
    <3>1. EndJob \in Records
      BY DEF Records, PlainRecords
    <3> QED
      BY <2>5, <3>1 DEF TypeOK
  <2> QED
    BY <2>3, <2>5, <2>7, <2>8, <2>9 DEF InStep, Following
<1> QED
  BY <1>1, <1>2

LEMMA WriteLineInStep ==
  ASSUME TypeOK, InStep, NEW line \in Line, NEW f \in SinkFates,
         WriteLine(line, f)
  PROVE  InStep'
<1> DEFINE r == write_line(e, line, f)
<1>1. CASE ~e.in_page
  <2>1. r = Return(e, "ESTATE", f)
    BY <1>1 DEF write_line
  <2>2. r.rc = "ESTATE"
    BY <2>1 DEF Return
  <2>3. Complete(Return(e, "ESTATE", f)) /\ pic' = pic /\ book' = book
    BY <2>1, <2>2 DEF WriteLine
  <2> QED
    BY <2>3, RefusedInStep
<1>2. CASE e.in_page
  <2>1. SUFFICES ASSUME ~faulty' PROVE InStep'
    BY DEF InStep
  <2>2. ~faulty /\ r.rc # "EIO" /\ r.rc # "ERANGE"
    BY <1>2, <2>1 DEF WriteLine, Complete
  <2>3. Drawing(e, d, pic) /\ Following
    BY <1>2, <2>2 DEF InStep
  <2>4. e.in_job /\ d.walk = "records" /\ wire # << >>
    BY <2>3 DEF Drawing, Following
  <2>5. r.rc = "OK"
    BY <1>2, <2>2 DEF write_line, flush_band, Return, emit
  <2>6. /\ pic' = Append(pic, line.px) /\ book' = book /\ e' = r.e /\ d' = walk(d, r.sent)
        /\ wire' = wire \o r.sent
    BY <2>5 DEF WriteLine, Complete
  <2>7. /\ d'.walk = "records" /\ d'.shown = d.shown /\ Drawing(e', d', pic')
        /\ e'.in_page
    <3> HIDE DEF r
    <3>1. r = write_line(e, line, f)
      BY DEF r
    <3> QED
      BY <1>2, <2>3, <2>4, <2>5, <2>6, <3>1, WriteLineFollowed DEF TypeOK
  <2>8. wire' # << >>
    <3>1. r \in Results
      BY CallTypes DEF TypeOK
    <3>2. r.sent \in Seq(Records)
      BY <3>1 DEF Results
    <3> QED
      BY <2>4, <2>6, <3>2 DEF TypeOK
  <2>9. e'.in_job
    BY <2>7 DEF Drawing
  <2> QED
    BY <2>2, <2>6, <2>7, <2>8, <2>9 DEF InStep, Following
<1> QED
  BY <1>1, <1>2

LEMMA EndThePageInStep ==
  ASSUME TypeOK, InStep, NEW f \in SinkFates, EndThePage(f)
  PROVE  InStep'
<1> DEFINE r == end_page(e, f)
<1>1. CASE ~e.in_page
  <2>1. r = Return(e, "ESTATE", f)
    BY <1>1 DEF end_page
  <2>2. r.rc = "ESTATE"
    BY <2>1 DEF Return
  <2>3. Complete(Return(e, "ESTATE", f)) /\ pic' = pic /\ book' = book
    BY <2>1, <2>2 DEF EndThePage
  <2> QED
    BY <2>3, RefusedInStep
<1>2. CASE e.in_page
  <2>1. SUFFICES ASSUME ~faulty' PROVE InStep'
    BY DEF InStep
  <2>2. ~faulty /\ r.rc # "EIO" /\ r.rc # "ERANGE"
    BY <1>2, <2>1 DEF EndThePage, Complete
  <2>3. Drawing(e, d, pic) /\ Following
    BY <1>2, <2>2 DEF InStep
  <2>4. d.walk = "records" /\ wire # << >>
    BY <2>3 DEF Drawing, Following
  <2>5. r.rc = "OK"
    <3> DEFINE b == IF e.lines % BandLines # 0 THEN flush_band(e, f)
                    ELSE Return(e, "OK", f)
               m == emit([b.e EXCEPT !.in_page = FALSE, !.pages = @ + 1], EndPage, b.f)
    <3>1. r = IF b.rc # "OK" THEN b ELSE [m EXCEPT !.sent = b.sent \o m.sent]
      BY <1>2 DEF end_page
    <3>2. b.rc \in {"OK", "EIO", "ERANGE"}
      BY DEF flush_band, TooTall, BandByte, Flushed, Return, emit
    <3> HIDE DEF b
    <3>3. b.rc = "OK"
      BY <2>2, <3>1, <3>2
    <3>4. r.rc = m.rc
      BY <3>1, <3>3 DEF emit
    <3> QED
      BY <2>2, <3>4 DEF emit
  <2>6. /\ e' = r.e /\ d' = walk(d, r.sent) /\ wire' = wire \o r.sent
        /\ book' = Append(book, pic) /\ pic' = pic
    BY <2>5 DEF EndThePage, Complete
  <2>7. PICK page \in [Bands -> [Slots -> Line]] :
          /\ Shows(page, pic) /\ d'.shown = Append(d.shown, page)
          /\ d'.page_rows = BlankPage /\ d'.walk = "records"
          /\ e'.in_job /\ ~e'.in_page
    <3> HIDE DEF r
    <3>1. r = end_page(e, f) /\ e \in EncoderStates /\ d \in DecoderStates /\ pic \in Seq(Ink)
      BY DEF r, TypeOK
    <3>2. LET c == walk(d, r.sent)
          IN  /\ c.walk = "records" /\ c.page_rows = BlankPage
              /\ \E page \in [Bands -> [Slots -> Line]] :
                   Shows(page, pic) /\ c.shown = Append(d.shown, page)
              /\ r.e.in_job /\ ~r.e.in_page
      BY <2>3, <2>4, <2>5, <3>1, EndPageFollowed
    <3> QED
      BY <2>6, <3>2
  <2>8. wire' # << >>
    <3>1. r \in Results
      BY CallTypes DEF TypeOK
    <3>2. r.sent \in Seq(Records)
      BY <3>1 DEF Results
    <3> QED
      BY <2>4, <2>6, <3>2 DEF TypeOK
  <2>9. /\ Len(d'.shown) = Len(book')
        /\ \A k \in 1 .. Len(book') : Shows(d'.shown[k], book'[k])
    <3>1. /\ Len(d.shown) = Len(book)
          /\ \A k \in 1 .. Len(book) : Shows(d.shown[k], book[k])
      BY <2>2 DEF InStep
    <3>2. /\ book \in Seq(Seq(Ink)) /\ pic \in Seq(Ink)
          /\ d.shown \in Seq([Bands -> [Slots -> Line]])
      BY DEF TypeOK, DecoderStates
    <3>3. /\ Len(book') = Len(book) + 1 /\ Len(d'.shown) = Len(d.shown) + 1
          /\ book'[Len(book) + 1] = pic
          /\ d'.shown[Len(book) + 1] = page
      BY <2>6, <2>7, <3>1, <3>2
    <3>4. \A k \in 1 .. Len(book) : book'[k] = book[k] /\ d'.shown[k] = d.shown[k]
      BY <2>6, <2>7, <3>1, <3>2
    <3>5. \A k \in 1 .. Len(book') : k \in 1 .. Len(book) \/ k = Len(book) + 1
      BY <3>2, <3>3
    <3> QED
      BY <2>7, <3>1, <3>3, <3>4, <3>5
  <2> QED
    BY <2>7, <2>8, <2>9 DEF InStep, Following
<1> QED
  BY <1>1, <1>2

LEMMA InStepStep == TypeOK /\ InStep /\ [Next]_vars => InStep'
<1> SUFFICES ASSUME TypeOK, InStep, [Next]_vars PROVE InStep'
  OBVIOUS
<1>1. CASE UNCHANGED vars
  BY <1>1 DEF vars, InStep, Following
<1>2. CASE Next
  <2>1. PICK f \in SinkFates :
          \/ \E valid \in BOOLEAN : BeginJob(valid, f)
          \/ \E width \in {"ok", "out"}, room \in BOOLEAN :
               BeginPage(width, room, f)
          \/ \E line \in Line : WriteLine(line, f)
          \/ EndThePage(f)
          \/ EndTheJob(f)
    BY <1>2 DEF Next
  <2> QED
    BY <2>1, BeginJobInStep, BeginPageInStep, WriteLineInStep,
       EndThePageInStep, EndTheJobInStep
<1> QED
  BY <1>1, <1>2

(***************************************************************************)
(* Encoder, wire and reader stay in step, for every band height, page      *)
(* height and number of pages, lines and sink failures.                    *)
(***************************************************************************)
THEOREM InStepHolds == Spec => []InStep
<1>1. Init => InStep
  <2> SUFFICES ASSUME Init PROVE InStep
    OBVIOUS
  <2>1. /\ ~e.in_job /\ ~e.in_page /\ d.walk = "pjl"
        /\ d.page_rows = BlankPage /\ d.shown = << >>
    BY DEF Init, ClearedEncoder, ClearedDecoder
  <2> QED
    BY <2>1 DEF Init, InStep, Following
<1> QED
  BY <1>1, InStepStep, TypeCorrect, PTL DEF Spec

(***************************************************************************)
(* As long as no call of a job reported a loss, decoding the wire gives    *)
(* back, page by page, the lines the client wrote (RoundTrip): encode.c    *)
(* and walk.c with the page assembly of cmd_decode.c are inverse, whatever *)
(* order the calls come in.                                                *)
(***************************************************************************)
THEOREM RoundTripHolds == Spec => []RoundTrip
<1>1. InStep => RoundTrip
  BY DEF InStep, RoundTrip
<1> QED
  BY <1>1, InStepHolds, PTL

-----------------------------------------------------------------------------
(***************************************************************************)
(* The stream the encoder leaves on the wire, for every band height, every *)
(* number of bands, every set of line contents and every bound: it is      *)
(* legal unless a call said otherwise and, also when the sink failed in    *)
(* between, no band is blank and no band number comes back.                *)
(*                                                                         *)
(* The properties speak of the wire alone.  The induction ties the wire to *)
(* the encoder: which records may be last in which state, and that the     *)
(* next band number is above all those of the page.                        *)
(***************************************************************************)

(* A band record has ink.                                                  *)
Inked(rec) == IsBand(rec) => \E n \in Slots : rec.rows[n].px # White

(* The rows of the workspace carry no bits past the width.                 *)
Masked(s) == \A n \in Slots : s.rows[n].spill = FALSE

(* What holds whatever the sink does: rows carry no bits past the width,   *)
(* bands have ink, and those after place m go up to the encoder's number.  *)
Sound(w, m, s) ==
  /\ Masked(s)
  /\ \A i \in 1 .. Len(w) : Inked(w[i])
  /\ \A i \in (m + 1) .. Len(w) : IsBand(w[i]) => w[i].number < s.band_number
  /\ \A i, j \in (m + 1) .. Len(w) :
       i < j /\ IsBand(w[i]) /\ IsBand(w[j]) => w[i].number < w[j].number

StreamInv == Sound(wire, mark, e) /\ (~faulty => Legal(wire, e))

-----------------------------------------------------------------------------
(* One more record                                                         *)

(* A record that is not a band has nothing to be white.                    *)
LEMMA PlainInked ==
  \A x \in PlainRecords : x \in Records /\ ~IsBand(x) /\ Inked(x)
  BY PlainRecordsFacts DEF Inked

LEMMA SoundMore ==
  ASSUME NEW w \in Seq(Records), NEW m \in 0 .. Len(w), NEW x \in Records,
         NEW s \in EncoderStates, NEW t \in EncoderStates, Sound(w, m, s),
         Masked(t),
         t.band_number >= s.band_number, Inked(x),
         IsBand(x) => x.number = s.band_number /\ t.band_number = s.band_number + 1
  PROVE  Sound(w \o <<x>>, m, t)
<1> DEFINE v == w \o <<x>>
<1>1. /\ Len(v) = Len(w) + 1 /\ v[Len(w) + 1] = x /\ Len(w) \in Nat
      /\ \A i \in 1 .. Len(w) : v[i] = w[i]
  BY OneMore
<1> HIDE DEF v
<1>2. s.band_number \in Nat /\ t.band_number \in Nat
  BY DEF EncoderStates
<1>3. \A i \in 1 .. Len(w) : IsBand(w[i]) => w[i].number \in Nat
  <2>1. \A r \in Records : IsBand(r) => r.number \in Nat
    BY DEF Records, PlainRecords, BandRecords, IsBand, Envelope, PageHeader, EndPage,
           EndJob, Torn, Bands
  <2> QED
    BY <2>1
<1>4. \A i \in 1 .. Len(v) : Inked(v[i])
  BY <1>1 DEF Sound
<1>5. ASSUME NEW i \in (m + 1) .. Len(v), IsBand(v[i]) PROVE v[i].number < t.band_number
  <2>1. CASE i = Len(w) + 1
    BY <1>1, <1>2, <1>5, <2>1
  <2>2. CASE i # Len(w) + 1
    <3>1. i \in (m + 1) .. Len(w) /\ i \in 1 .. Len(w)
      BY <1>1, <2>2
    <3>2. v[i] = w[i] /\ w[i].number < s.band_number /\ w[i].number \in Nat
      BY <1>1, <1>3, <1>5, <3>1 DEF Sound
    <3> QED
      BY <1>2, <3>2
  <2> QED
    BY <2>1, <2>2
<1>6. ASSUME NEW i \in (m + 1) .. Len(v), NEW j \in (m + 1) .. Len(v), i < j,
             IsBand(v[i]), IsBand(v[j])
      PROVE  v[i].number < v[j].number
  <2>1. i \in (m + 1) .. Len(w) /\ i \in 1 .. Len(w) /\ v[i] = w[i]
    BY <1>1, <1>6
  <2>2. CASE j = Len(w) + 1
    BY <1>1, <1>6, <2>1, <2>2 DEF Sound
  <2>3. CASE j # Len(w) + 1
    <3>1. j \in (m + 1) .. Len(w) /\ j \in 1 .. Len(w) /\ v[j] = w[j]
      BY <1>1, <2>3
    <3> QED
      BY <1>6, <2>1, <3>1 DEF Sound
  <2> QED
    BY <2>2, <2>3
<1> QED
  BY <1>4, <1>5, <1>6 DEF Sound, v

(* The encoder goes on, and nothing is sent.                               *)
LEMMA SoundSame ==
  ASSUME NEW w \in Seq(Records), NEW m \in 0 .. Len(w), NEW s \in EncoderStates,
         NEW t \in EncoderStates, Sound(w, m, s),
         Masked(t), t.band_number >= s.band_number
  PROVE  Sound(w, m, t)
<1>1. s.band_number \in Nat /\ t.band_number \in Nat
  BY DEF EncoderStates
<1>2. \A r \in Records : IsBand(r) => r.number \in Nat
  BY DEF Records, PlainRecords, BandRecords, IsBand, Envelope, PageHeader, EndPage,
         EndJob, Torn, Bands
<1>3. ASSUME NEW i \in (m + 1) .. Len(w), IsBand(w[i]) PROVE w[i].number < t.band_number
  <2>1. i \in 1 .. Len(w)
    OBVIOUS
  <2>2. w[i] \in Records
    BY <2>1
  <2>3. w[i].number \in Nat /\ w[i].number < s.band_number
    BY <1>2, <1>3, <2>2 DEF Sound
  <2> QED
    BY <1>1, <2>3
<1> QED
  BY <1>3 DEF Sound

(* emit of a record that is not a band, as far as the sink takes it.       *)
LEMMA EmitSound ==
  ASSUME NEW w \in Seq(Records), NEW m \in 0 .. Len(w), NEW x \in PlainRecords,
         NEW s \in EncoderStates, NEW t \in EncoderStates, NEW f \in SinkFates,
         Sound(w, m, s), Masked(t),
         t.band_number >= s.band_number, NEW r, r = emit(t, x, f)
  PROVE  /\ r.e = t /\ r.rc \in {"OK", "EIO"}
         /\ r.rc = "OK" => r.sent = <<x>>
         /\ Sound(w \o r.sent, m, t)
<1>1. /\ r.e = t /\ r.rc \in {"OK", "EIO"}
      /\ r.rc = "OK" => r.sent = <<x>>
      /\ r.sent = <<x>> \/ r.sent = <<Torn>> \/ r.sent = << >>
  BY DEF emit
<1>2. /\ x \in Records /\ ~IsBand(x) /\ Inked(x)
      /\ Torn \in Records /\ ~IsBand(Torn) /\ Inked(Torn)
  BY PlainRecordsFacts, PlainInked
<1>3. Sound(w \o <<x>>, m, t)
  BY <1>2, SoundMore
<1>4. Sound(w \o <<Torn>>, m, t)
  BY <1>2, SoundMore
<1>5. Sound(w \o << >>, m, t)
  <2>1. w \o << >> = w
    BY ConcatEmptySeq
  <2> QED
    BY <2>1, SoundSame
<1> QED
  BY <1>1, <1>3, <1>4, <1>5

(* flush_band sends a band only when there is ink in it, under the next    *)
(* number, whether the sink takes it or not.                               *)
LEMMA FlushSound ==
  ASSUME NEW w \in Seq(Records), NEW m \in 0 .. Len(w), NEW s \in EncoderStates,
         NEW f \in SinkFates, Sound(w, m, s)
  PROVE  LET r == flush_band(s, f)
         IN  /\ Sound(w \o r.sent, m, r.e)
             /\ r.rc \in {"OK", "EIO", "ERANGE"}
<1> DEFINE r == flush_band(s, f)
           rec == BandRecord(s.band_number, s.rows)
           tried == emit(s, rec, f)
<1>1. /\ s.band_number \in Nat /\ s.rows \in [Slots -> Line]
      /\ Masked(s)
  BY DEF EncoderStates, Sound
<1>2. r \in Results
  BY FlushType
<1>3. CASE r.rc = "OK"
  <2>1. /\ s.band_number <= MaxBand
        /\ r.sent = IF s.rows = BlankRows THEN << >> ELSE <<rec>>
        /\ r.e.band_number = s.band_number + 1
        /\ r.e.rows = BlankRows
    BY <1>3, FlushOK
  <2>2. /\ r.e \in EncoderStates /\ Masked(r.e)
    BY <1>2, <2>1 DEF Results, BlankRows, WhiteRow, Masked
  <2>3. r.e.band_number >= s.band_number
    BY <1>1, <2>1
  <2>4. CASE s.rows = BlankRows
    <3>1. w \o r.sent = w
      BY <2>1, <2>4, ConcatEmptySeq
    <3> HIDE DEF r
    <3> QED
      BY <1>3, <2>2, <2>3, <3>1, SoundSame DEF r
  <2>5. CASE s.rows # BlankRows
    <3>1. rec \in Records /\ rec.number = s.band_number /\ rec.rows = s.rows
      BY <1>1, <2>1 DEF BandRecord, Records, BandRecords, Bands
    <3>2. \E n \in Slots : s.rows[n].px # White
      <4>1. PICK n \in Slots : s.rows[n] # BlankRows[n]
        <5>1. BlankRows \in [Slots -> Line]
          BY BlankTypes
        <5> QED
          BY <1>1, <2>5, <5>1
      <4>2. s.rows[n] \in Line /\ s.rows[n].spill = FALSE
        BY <1>1 DEF Masked
      <4>3. s.rows[n].px = White => s.rows[n] = WhiteRow
        BY <4>2 DEF Line, WhiteRow
      <4> QED
        BY <4>1, <4>3 DEF BlankRows
    <3>3. Inked(rec)
      BY <3>1, <3>2 DEF Inked
    <3>4. r.sent = <<rec>>
      BY <2>1, <2>5
    <3> HIDE DEF r, rec
    <3>5. Sound(w \o <<rec>>, m, r.e)
      BY <2>1, <2>2, <2>3, <3>1, <3>3, SoundMore
    <3> QED
      BY <1>3, <3>4, <3>5 DEF r
  <2> QED
    BY <2>4, <2>5
<1>4. CASE r.rc # "OK"
  <2>1. /\ r.e = s /\ r.rc \in {"EIO", "ERANGE"}
        /\ r.sent = << >> \/ r.sent = <<Torn>>
    BY <1>4 DEF flush_band, Return, emit
  <2>2. Sound(w \o << >>, m, s)
    BY ConcatEmptySeq
  <2>3. Sound(w \o <<Torn>>, m, s)
    <3>1. Torn \in Records /\ ~IsBand(Torn) /\ Inked(Torn)
      BY PlainRecordsFacts, PlainInked
    <3>2. s.band_number >= s.band_number
      BY <1>1
    <3> QED
      BY <1>1, <3>1, <3>2, SoundMore
  <2> HIDE DEF r
  <2> QED
    BY <2>1, <2>2, <2>3 DEF r
<1> QED
  BY <1>3, <1>4

-----------------------------------------------------------------------------
(* One step of the job                                                     *)

LEMMA RefusedStream ==
  ASSUME TypeOK, StreamInv, NEW rc, NEW f, Complete(Return(e, rc, f)), mark' = mark
  PROVE  StreamInv'
<1>1. e' = e /\ wire' = wire \o << >>
  BY DEF Complete, Return
<1>2. wire' = wire
  BY <1>1, ConcatEmptySeq DEF TypeOK
<1>3. ~faulty' => ~faulty
  BY DEF Complete
<1> QED
  BY <1>1, <1>2, <1>3 DEF StreamInv

LEMMA BeginJobStream ==
  ASSUME TypeOK, StreamInv, NEW valid \in BOOLEAN, NEW f \in SinkFates,
         BeginJob(valid, f)
  PROVE  StreamInv'
<1> DEFINE r == begin_job(e, valid, f)
<1>1. CASE ~valid
  <2>1. r = Return(e, "EINVAL", f)
    BY <1>1 DEF begin_job
  <2>2. r.rc = "EINVAL"
    BY <2>1 DEF Return
  <2>3. Complete(Return(e, "EINVAL", f)) /\ mark' = mark
    BY <2>1, <2>2 DEF BeginJob
  <2> QED
    BY <2>3, RefusedStream
<1>2. CASE valid
  <2> DEFINE opened == [ClearedEncoder EXCEPT !.in_job = TRUE]
  <2>1. r = emit(opened, Envelope, f)
    BY <1>2 DEF begin_job
  <2>2. r.rc # "EINVAL"
    BY <2>1 DEF emit
  <2>3. e' = r.e /\ wire' = r.sent /\ mark' = 0 /\ faulty' = (r.rc = "EIO")
    BY <2>2 DEF BeginJob
  <2>4. /\ opened \in EncoderStates /\ opened.in_job /\ ~opened.in_page
        /\ opened.band_number = 0 /\ opened.rows = BlankRows
    BY BlankTypes DEF EncoderStates, ClearedEncoder
  <2>5. /\ Masked(opened)
        /\ opened.band_number >= opened.band_number
    BY <2>4 DEF BlankRows, WhiteRow, Masked
  <2> HIDE DEF opened
  <2>6. << >> \in Seq(Records) /\ 0 \in 0 .. Len(<< >>) /\ Sound(<< >>, 0, opened)
    BY <2>5 DEF Sound
  <2>7. Envelope \in PlainRecords
    BY DEF PlainRecords
  <2> HIDE DEF r
  <2>8. /\ r.e = opened /\ r.rc \in {"OK", "EIO"} /\ (r.rc = "OK" => r.sent = <<Envelope>>)
        /\ Sound(<< >> \o r.sent, 0, opened)
    <3> DEFINE nil == << >>
    <3>1. nil \in Seq(Records) /\ 0 \in 0 .. Len(nil) /\ Sound(nil, 0, opened)
      BY <2>6
    <3> HIDE DEF nil
    <3>2. /\ r.e = opened /\ r.rc \in {"OK", "EIO"} /\ (r.rc = "OK" => r.sent = <<Envelope>>)
          /\ Sound(nil \o r.sent, 0, opened)
      BY <2>1, <2>4, <2>5, <2>7, <3>1, EmitSound
    <3> QED
      BY <3>2 DEF nil
  <2>9. << >> \o r.sent = r.sent
    <3>1. r \in Results
      BY CallTypes DEF TypeOK, r
    <3>2. r.sent \in Seq(Records)
      BY <3>1 DEF Results
    <3> QED
      BY <3>2, ConcatEmptySeq
  <2>10. ~faulty' => Legal(<<Envelope>>, opened)
    BY <2>4 DEF Legal, JobPrefix, LastOf, IsBand, Envelope
  <2> QED
    BY <2>3, <2>8, <2>9, <2>10 DEF StreamInv
<1> QED
  BY <1>1, <1>2

LEMMA BeginPageStream ==
  ASSUME TypeOK, StreamInv, NEW width \in {"ok", "out"}, NEW room \in BOOLEAN,
         NEW f \in SinkFates, BeginPage(width, room, f)
  PROVE  StreamInv'
<1> DEFINE r == begin_page(e, width, room, f)
           refused == ~e.in_job \/ e.in_page \/ width = "out" \/ ~room
<1>1. CASE refused
  <2>1. PICK rc \in {"ESTATE", "ERANGE", "EINVAL"} : r = Return(e, rc, f)
    BY <1>1 DEF begin_page
  <2>2. r.rc \notin {"OK", "EIO"}
    BY <2>1 DEF Return
  <2>3. Complete(Return(e, rc, f)) /\ mark' = mark
    BY <2>1, <2>2 DEF BeginPage
  <2> QED
    BY <2>3, RefusedStream
<1>2. CASE ~refused
  <2> DEFINE opened == [e EXCEPT !.rows = BlankRows, !.lines = 0, !.band_number = 0,
                                 !.in_page = TRUE]
  <2>1. r = emit(opened, PageHeader, f)
    BY <1>2 DEF begin_page
  <2>2. /\ opened \in EncoderStates /\ opened.in_job = e.in_job /\ opened.in_page
        /\ opened.band_number = 0 /\ opened.rows = BlankRows
    <3>1. e \in EncoderStates
      BY DEF TypeOK
    <3> QED
      BY <3>1, BlankTypes DEF EncoderStates
  <2>3. /\ Masked(opened)
        /\ opened.band_number >= opened.band_number
    BY <2>2 DEF BlankRows, WhiteRow, Masked
  <2> HIDE DEF opened
  <2>4. wire \in Seq(Records) /\ Len(wire) \in 0 .. Len(wire) /\ e \in EncoderStates
    BY DEF TypeOK
  <2>5. Sound(wire, Len(wire), opened)
    <3>1. (Len(wire) + 1) .. Len(wire) = {}
      BY <2>4
    <3> QED
      BY <2>3, <3>1 DEF Sound, StreamInv
  <2>6. PageHeader \in PlainRecords
    BY DEF PlainRecords
  <2> HIDE DEF r
  <2>7. /\ r.e = opened /\ r.rc \in {"OK", "EIO"} /\ (r.rc = "OK" => r.sent = <<PageHeader>>)
        /\ Sound(wire \o r.sent, Len(wire), opened)
    BY <2>1, <2>2, <2>3, <2>4, <2>5, <2>6, EmitSound
  <2>8. /\ e' = opened /\ wire' = wire \o r.sent /\ mark' = Len(wire)
        /\ ~faulty' => ~faulty /\ r.rc # "EIO"
    BY <2>7 DEF BeginPage, Complete, r
  <2>9. ASSUME ~faulty' PROVE Legal(wire \o <<PageHeader>>, opened)
    <3>1. Legal(wire, e) /\ e.in_job /\ ~e.in_page
      BY <1>2, <2>8, <2>9 DEF StreamInv
    <3>2. PageHeader \in Records /\ ~IsBand(PageHeader) /\ wire # << >>
      BY <2>6, <3>1, PlainRecordsFacts DEF Legal
    <3>3. /\ PageHeader.t \in LastOf(opened) /\ (opened.in_page => opened.in_job)
          /\ \A y \in LastOf(e) : <<y, PageHeader.t>> \in Follows
      BY <2>2, <3>1 DEF LastOf, Follows, PageHeader
    <3> QED
      BY <2>2, <2>4, <3>1, <3>2, <3>3, LegalMore
  <2> QED
    BY <2>7, <2>8, <2>9 DEF StreamInv
<1> QED
  BY <1>1, <1>2

LEMMA WriteLineStream ==
  ASSUME TypeOK, StreamInv, NEW line \in Line, NEW f \in SinkFates,
         WriteLine(line, f)
  PROVE  StreamInv'
<1> DEFINE r == write_line(e, line, f)
<1>1. CASE ~e.in_page
  <2>1. r = Return(e, "ESTATE", f)
    BY <1>1 DEF write_line
  <2>2. Complete(Return(e, "ESTATE", f)) /\ mark' = mark
    BY <2>1 DEF WriteLine
  <2> QED
    BY <2>2, RefusedStream
<1>2. CASE e.in_page
  <2> DEFINE t == [e EXCEPT !.rows[e.lines % BandLines] = StoredRow(line),
                            !.lines = @ + 1]
  <2>1. e \in EncoderStates /\ wire \in Seq(Records) /\ mark \in 0 .. Len(wire)
    BY DEF TypeOK
  <2>2. /\ t.in_job = e.in_job /\ t.in_page = e.in_page /\ t.band_number = e.band_number
        /\ \A i \in Slots : t.rows[i] = StoredRow(line) \/ t.rows[i] = e.rows[i]
    BY <2>1 DEF EncoderStates
  <2>3. t \in EncoderStates
    <3>1. e.lines + 1 \in Nat /\ StoredRow(line) \in Line
      BY <2>1, StoredRowType DEF EncoderStates
    <3>2. [e.rows EXCEPT ![e.lines % BandLines] = StoredRow(line)] \in [Slots -> Line]
      BY <2>1, <3>1 DEF EncoderStates
    <3> QED
      BY <2>1, <3>1, <3>2 DEF EncoderStates
  <2>4. r = IF t.lines % BandLines = 0 THEN flush_band(t, f) ELSE Return(t, "OK", f)
    BY <1>2 DEF write_line
  <2> HIDE DEF t
  <2>5. Sound(wire, mark, t)
    <3>1. Masked(t)
      BY <2>2 DEF StreamInv, Sound, StoredRow, Masked
    <3>2. t.band_number >= e.band_number
      BY <2>1, <2>2 DEF EncoderStates
    <3> QED
      BY <2>1, <2>3, <3>1, <3>2, SoundSame DEF StreamInv
  <2>6. ~faulty => Legal(wire, t) /\ t.in_page
    BY <1>2, <2>2 DEF StreamInv, Legal, LastOf
  <2>7. /\ e' = r.e /\ wire' = wire \o r.sent /\ mark' = mark
        /\ ~faulty' => ~faulty /\ r.rc # "EIO" /\ r.rc # "ERANGE"
    BY <1>2 DEF WriteLine, Complete
  <2>8. CASE r = Return(t, "OK", f)
    <3>1. e' = t /\ wire' = wire
      <4>1. r.e = t /\ r.sent = << >>
        BY <2>8 DEF Return
      <4> QED
        BY <2>1, <2>7, <4>1, ConcatEmptySeq
    <3> QED
      BY <2>5, <2>6, <2>7, <3>1 DEF StreamInv
  <2>9. CASE r = flush_band(t, f)
    <3>1. Sound(wire \o r.sent, mark, r.e) /\ r.rc \in {"OK", "EIO", "ERANGE"}
      BY <2>1, <2>3, <2>5, <2>9, FlushSound
    <3>2. ASSUME ~faulty' PROVE Legal(wire \o r.sent, r.e)
      <4>1. r.rc = "OK" /\ Legal(wire, t) /\ t.in_page
        BY <2>6, <2>7, <3>1, <3>2
      <4> QED
        BY <2>1, <2>3, <2>9, <4>1, FlushLegal
    <3> QED
      BY <2>7, <3>1, <3>2 DEF StreamInv
  <2> QED
    BY <2>4, <2>8, <2>9
<1> QED
  BY <1>1, <1>2

LEMMA EndThePageStream ==
  ASSUME TypeOK, StreamInv, NEW f \in SinkFates, EndThePage(f)
  PROVE  StreamInv'
<1> DEFINE r == end_page(e, f)
<1>1. CASE ~e.in_page
  <2>1. r = Return(e, "ESTATE", f)
    BY <1>1 DEF end_page
  <2>2. Complete(Return(e, "ESTATE", f)) /\ mark' = mark
    BY <2>1 DEF EndThePage
  <2> QED
    BY <2>2, RefusedStream
<1>2. CASE e.in_page
  <2> DEFINE b == IF e.lines % BandLines # 0 THEN flush_band(e, f)
                  ELSE Return(e, "OK", f)
             closed == [b.e EXCEPT !.in_page = FALSE, !.pages = @ + 1]
             x == emit(closed, EndPage, b.f)
             w == wire \o b.sent
  <2>1. e \in EncoderStates /\ wire \in Seq(Records) /\ mark \in 0 .. Len(wire)
    BY DEF TypeOK
  <2>2. r = IF b.rc # "OK" THEN b ELSE [x EXCEPT !.sent = b.sent \o x.sent]
    BY <1>2 DEF end_page
  <2>3. /\ e' = r.e /\ wire' = wire \o r.sent /\ mark' = mark
        /\ ~faulty' => ~faulty /\ r.rc # "EIO" /\ r.rc # "ERANGE"
    BY <1>2 DEF EndThePage, Complete
  <2>4. b \in Results
    BY <2>1, FlushType, ReturnType DEF ReturnCodes
  <2>5. b.e \in EncoderStates /\ b.f \in SinkFates /\ b.sent \in Seq(Records)
    BY <2>4 DEF Results
  <2>6. /\ Sound(w, mark, b.e) /\ b.rc \in {"OK", "EIO", "ERANGE"}
        /\ ~faulty /\ b.rc = "OK" => Legal(w, b.e) /\ b.e.in_page /\ b.e.in_job
    <3>1. CASE e.lines % BandLines # 0
      <4>1. b = flush_band(e, f)
        BY <3>1
      <4> HIDE DEF b
      <4>2. Sound(w, mark, b.e) /\ b.rc \in {"OK", "EIO", "ERANGE"}
        BY <2>1, <4>1, FlushSound DEF StreamInv
      <4>3. ~faulty /\ b.rc = "OK" => Legal(w, b.e) /\ b.e.in_page /\ b.e.in_job
        BY <1>2, <2>1, <4>1, FlushLegal DEF StreamInv
      <4> QED
        BY <4>2, <4>3
    <3>2. CASE e.lines % BandLines = 0
      <4>1. b.e = e /\ b.rc = "OK" /\ b.sent = << >>
        BY <3>2 DEF Return
      <4>2. w = wire
        BY <2>1, <4>1, ConcatEmptySeq
      <4> HIDE DEF b, w
      <4> QED
        BY <1>2, <4>1, <4>2 DEF StreamInv, Legal
    <3> QED
      BY <3>1, <3>2
  <2>7. w \in Seq(Records) /\ mark \in 0 .. Len(w)
    <3>1. w \in Seq(Records) /\ Len(w) = Len(wire) + Len(b.sent) /\ Len(b.sent) \in Nat
          /\ Len(wire) \in Nat
      <4> HIDE DEF b
      <4> QED
        BY <2>1, <2>5, ConcatProperties, LenProperties
    <3> HIDE DEF b, w
    <3> QED
      BY <2>1, <3>1
  <2> HIDE DEF b
  <2>8. /\ closed \in EncoderStates /\ ~closed.in_page /\ closed.in_job = b.e.in_job
        /\ closed.band_number = b.e.band_number /\ closed.rows = b.e.rows
    <3>1. b.e.pages + 1 \in Nat
      BY <2>5 DEF EncoderStates
    <3> QED
      BY <2>5, <3>1 DEF EncoderStates
  <2> HIDE DEF closed, w
  <2>9. /\ Masked(closed)
        /\ closed.band_number >= b.e.band_number
    BY <2>5, <2>6, <2>8 DEF Sound, EncoderStates, Masked
  <2>10. EndPage \in PlainRecords
    BY DEF PlainRecords
  <2>14. x = emit(closed, EndPage, b.f)
    OBVIOUS
  <2> HIDE DEF x
  <2>11. /\ x.e = closed /\ x.rc \in {"OK", "EIO"} /\ (x.rc = "OK" => x.sent = <<EndPage>>)
         /\ Sound(w \o x.sent, mark, closed)
    BY <2>5, <2>6, <2>7, <2>8, <2>9, <2>10, <2>14, EmitSound
  <2>12. CASE b.rc # "OK"
    <3>1. r = b
      BY <2>2, <2>12
    <3>2. faulty' /\ e' = b.e /\ wire' = w
      BY <2>3, <2>6, <2>12, <3>1 DEF w
    <3> QED
      BY <2>3, <2>6, <3>2 DEF StreamInv
  <2>13. CASE b.rc = "OK"
    <3>1. x \in Results
      BY <2>5, <2>8, <2>10, <2>14, PlainRecordsFacts, EmitType
    <3>2. r.e = x.e /\ r.rc = x.rc /\ r.sent = b.sent \o x.sent /\ x.sent \in Seq(Records)
      <4>1. r = [x EXCEPT !.sent = b.sent \o x.sent]
        BY <2>2, <2>13
      <4> QED
        BY <3>1, <4>1 DEF Results
    <3> HIDE DEF r, x
    <3>3. wire' = w \o x.sent
      <4> DEFINE p == b.sent
                 q == x.sent
      <4>1. p \in Seq(Records) /\ q \in Seq(Records) /\ wire' = wire \o (p \o q)
        BY <2>3, <2>5, <3>2
      <4> HIDE DEF p, q
      <4>2. wire \o (p \o q) = (wire \o p) \o q
        <5>1. wire \in Seq(Records) /\ p \in Seq(Records) /\ q \in Seq(Records)
          BY <2>1, <4>1
        <5> QED
          BY <5>1, ConcatAssociative
      <4> QED
        BY <4>1, <4>2 DEF w, p, q
    <3>4. ASSUME ~faulty' PROVE Legal(w \o x.sent, closed)
      <4>1. Legal(w, b.e) /\ b.e.in_page /\ b.e.in_job /\ x.sent = <<EndPage>>
        BY <2>3, <2>6, <2>11, <2>13, <3>2, <3>4
      <4>2. EndPage \in Records /\ ~IsBand(EndPage) /\ w # << >>
        BY <2>10, <4>1, PlainRecordsFacts DEF Legal
      <4>3. /\ EndPage.t \in LastOf(closed) /\ (closed.in_page => closed.in_job)
            /\ \A y \in LastOf(b.e) : <<y, EndPage.t>> \in Follows
        BY <2>8, <4>1 DEF LastOf, Follows, EndPage
      <4>4. Legal(w \o <<EndPage>>, closed)
        BY <2>5, <2>7, <2>8, <4>1, <4>2, <4>3, LegalMore
      <4> QED
        BY <4>1, <4>4
    <3> QED
      BY <2>3, <2>11, <3>2, <3>3, <3>4 DEF StreamInv
  <2> QED
    BY <2>12, <2>13
<1> QED
  BY <1>1, <1>2

LEMMA EndTheJobStream ==
  ASSUME TypeOK, StreamInv, NEW f \in SinkFates, EndTheJob(f)
  PROVE  StreamInv'
<1> DEFINE r == end_job(e, f)
<1>1. CASE ~e.in_job \/ e.in_page
  <2>1. r = Return(e, "ESTATE", f)
    BY <1>1 DEF end_job
  <2>2. Complete(Return(e, "ESTATE", f)) /\ mark' = mark
    BY <2>1 DEF EndTheJob
  <2> QED
    BY <2>2, RefusedStream
<1>2. CASE e.in_job /\ ~e.in_page
  <2> DEFINE closed == [e EXCEPT !.in_job = FALSE]
  <2>1. r = emit(closed, EndJob, f)
    BY <1>2 DEF end_job
  <2>2. e \in EncoderStates /\ wire \in Seq(Records) /\ mark \in 0 .. Len(wire)
    BY DEF TypeOK
  <2>3. /\ closed \in EncoderStates /\ ~closed.in_job /\ ~closed.in_page
        /\ closed.band_number = e.band_number /\ closed.rows = e.rows
    BY <1>2, <2>2 DEF EncoderStates
  <2> HIDE DEF closed
  <2>4. /\ Masked(closed)
        /\ closed.band_number >= e.band_number
    BY <2>2, <2>3 DEF Sound, StreamInv, EncoderStates, Masked
  <2>5. EndJob \in PlainRecords
    BY DEF PlainRecords
  <2> HIDE DEF r
  <2>6. /\ r.e = closed /\ r.rc \in {"OK", "EIO"} /\ (r.rc = "OK" => r.sent = <<EndJob>>)
        /\ Sound(wire \o r.sent, mark, closed)
    BY <2>1, <2>2, <2>3, <2>4, <2>5, EmitSound DEF StreamInv
  <2>7. /\ e' = closed /\ wire' = wire \o r.sent /\ mark' = mark
        /\ ~faulty' => ~faulty /\ r.rc # "EIO"
    BY <2>6 DEF EndTheJob, Complete, r
  <2>8. ASSUME ~faulty' PROVE Legal(wire \o <<EndJob>>, closed)
    <3>1. Legal(wire, e)
      BY <2>7, <2>8 DEF StreamInv
    <3>2. EndJob \in Records /\ ~IsBand(EndJob) /\ wire # << >>
      BY <1>2, <2>5, <3>1, PlainRecordsFacts DEF Legal
    <3>3. /\ EndJob.t \in LastOf(closed) /\ (closed.in_page => closed.in_job)
          /\ \A y \in LastOf(e) : <<y, EndJob.t>> \in Follows
      BY <1>2, <2>3 DEF LastOf, Follows, EndJob
    <3> QED
      BY <2>2, <2>3, <3>1, <3>2, <3>3, LegalMore
  <2> QED
    BY <2>6, <2>7, <2>8 DEF StreamInv
<1> QED
  BY <1>1, <1>2

LEMMA StreamStep == TypeOK /\ StreamInv /\ [Next]_vars => StreamInv'
<1> SUFFICES ASSUME TypeOK, StreamInv, [Next]_vars PROVE StreamInv'
  OBVIOUS
<1>1. CASE UNCHANGED vars
  BY <1>1 DEF vars, StreamInv
<1>2. CASE Next
  <2>1. PICK f \in SinkFates :
          \/ \E valid \in BOOLEAN : BeginJob(valid, f)
          \/ \E width \in {"ok", "out"}, room \in BOOLEAN :
               BeginPage(width, room, f)
          \/ \E line \in Line : WriteLine(line, f)
          \/ EndThePage(f)
          \/ EndTheJob(f)
    BY <1>2 DEF Next
  <2> QED
    BY <2>1, BeginJobStream, BeginPageStream, WriteLineStream, EndThePageStream,
       EndTheJobStream
<1> QED
  BY <1>1, <1>2

LEMMA StreamInvHolds == Spec => []StreamInv
<1>1. Init => StreamInv
  <2> SUFFICES ASSUME Init PROVE StreamInv
    OBVIOUS
  <2>1. /\ ~e.in_job /\ ~e.in_page /\ e.rows = BlankRows
    BY DEF Init, ClearedEncoder
  <2>2. Sound(wire, mark, e)
    BY <2>1 DEF Init, Sound, BlankRows, WhiteRow, Masked
  <2>3. Legal(wire, e)
    BY <2>1 DEF Init, Legal, JobPrefix
  <2> QED
    BY <2>2, <2>3 DEF StreamInv
<1> QED
  BY <1>1, StreamStep, TypeCorrect, PTL DEF Spec

(***************************************************************************)
(* As long as no call of a job reported a loss, what encode.c has written  *)
(* is the beginning of a legal job, and all of one once end_job closed it, *)
(* whatever calls the client makes in whatever order.                      *)
(***************************************************************************)
THEOREM StreamLegalHolds == Spec => []StreamLegal
<1>1. StreamInv => StreamLegal
  <2> SUFFICES ASSUME StreamInv, ~faulty
               PROVE  JobPrefix(wire) /\ (wire # << >> /\ ~e.in_job => CompleteJob(wire))
    BY DEF StreamLegal
  <2>1. Legal(wire, e)
    BY DEF StreamInv
  <2>2. wire # << >> /\ ~e.in_job => wire[Len(wire)].t = "end_job"
    BY <2>1 DEF Legal, LastOf
  <2> QED
    BY <2>1, <2>2 DEF Legal, CompleteJob
<1> QED
  BY <1>1, StreamInvHolds, PTL

(***************************************************************************)
(* Also when the sink fails and the client carries on, the bands that      *)
(* reach the wire whole within a page go up in number, for any number of   *)
(* bands: the byte flush_band casts the number to never wraps.             *)
(***************************************************************************)
THEOREM BandNumbersIncreaseHolds == Spec => []BandNumbersIncrease
<1>1. StreamInv => BandNumbersIncrease
  BY DEF StreamInv, Sound, BandNumbersIncrease
<1> QED
  BY <1>1, StreamInvHolds, PTL

(***************************************************************************)
(* A band record always has ink, whatever bits past the width the lines    *)
(* had: the mask of m2022_qpdl_write_line is what flush_band's test of a   *)
(* blank band rests on.                                                    *)
(***************************************************************************)
THEOREM NoBlankBandSentHolds == Spec => []NoBlankBandSent
<1>1. StreamInv => NoBlankBandSent
  BY DEF StreamInv, Sound, Inked, NoBlankBandSent
<1> QED
  BY <1>1, StreamInvHolds, PTL

-----------------------------------------------------------------------------
(* The encoder implements PagePrinter.                                     *)

(* What the client drew, as sheets.                                        *)
Sheets(b) == [k \in 1 .. Len(b) |-> Promise!Sheet(b[k])]

(* Pages that show what was drawn are its sheets.                          *)
LEMMA ShownAreSheets ==
  ASSUME NEW shown, NEW b, Len(shown) = Len(b),
         \A k \in 1 .. Len(b) : Shows(shown[k], b[k])
  PROVE  [k \in 1 .. Len(shown) |-> [n \in PageLines |-> ShownLine(shown[k], n).px]]
           = Sheets(b)
<1>1. ASSUME NEW k \in 1 .. Len(b)
      PROVE  [n \in PageLines |-> ShownLine(shown[k], n).px] = Promise!Sheet(b[k])
  <2>1. ASSUME NEW n \in PageLines PROVE ShownLine(shown[k], n).px = LineOf(b[k], n)
    <3>1. ShownLine(shown[k], n) = [px |-> LineOf(b[k], n), spill |-> FALSE]
      BY DEF Shows
    <3> QED
      BY <3>1
  <2> QED
    BY <2>1 DEF Promise!Sheet, LineOf, PageLines
<1> QED
  BY <1>1 DEF Sheets

(* The pages on the wire are the sheets of the pages that were ended.      *)
LEMMA DecodedAreSheets ==
  /\ InStep /\ ~faulty => DecodedPages = Sheets(book)
  /\ InStep' /\ ~faulty' => DecodedPages' = Sheets(book')
<1>1. InStep /\ ~faulty => DecodedPages = Sheets(book)
  BY ShownAreSheets DEF InStep, DecodedPages
<1>2. InStep' /\ ~faulty' => DecodedPages' = Sheets(book')
  BY ShownAreSheets DEF InStep, DecodedPages
<1> QED
  BY <1>1, <1>2

(* One more page.                                                          *)
LEMMA SheetsMore ==
  ASSUME NEW b \in Seq(Seq(Ink)), NEW p \in Seq(Ink)
  PROVE  Sheets(Append(b, p)) = Append(Sheets(b), Promise!Sheet(p))
<1> DEFINE All == {Promise!Sheet(x) : x \in Seq(Ink)}
           c == Append(b, p)
           sheet(x) == Promise!Sheet(x)
<1>1. /\ c \in Seq(Seq(Ink)) /\ Len(c) = Len(b) + 1 /\ c[Len(b) + 1] = p
      /\ Len(b) \in Nat /\ \A k \in 1 .. Len(b) : c[k] = b[k]
  OBVIOUS
<1> HIDE DEF c
<1>2. \A x \in Seq(Ink) : sheet(x) \in All
  OBVIOUS
<1> HIDE DEF All, sheet
<1>3. Sheets(b) = [k \in 1 .. Len(b) |-> sheet(b[k])]
  BY DEF Sheets, sheet
<1>4. Sheets(c) = [k \in 1 .. Len(c) |-> sheet(c[k])]
  BY DEF Sheets, sheet
<1>5. Sheets(b) \in Seq(All) /\ Len(Sheets(b)) = Len(b)
  <2>1. \A k \in 1 .. Len(b) : sheet(b[k]) \in All
    BY <1>2
  <2>2. [k \in 1 .. Len(b) |-> sheet(b[k])] \in Seq(All)
    BY <1>1, <2>1, IsASeq
  <2>3. DOMAIN Sheets(b) = 1 .. Len(b)
    BY <1>3
  <2> QED
    BY <1>1, <1>3, <2>2, <2>3, LenProperties
<1>6. Sheets(c) \in Seq(All) /\ Len(Sheets(c)) = Len(b) + 1
  <2>1. \A k \in 1 .. Len(c) : sheet(c[k]) \in All
    BY <1>1, <1>2
  <2>2. [k \in 1 .. Len(c) |-> sheet(c[k])] \in Seq(All)
    BY <1>1, <2>1, IsASeq
  <2>3. DOMAIN Sheets(c) = 1 .. Len(c)
    BY <1>4
  <2> QED
    BY <1>1, <1>4, <2>2, <2>3, LenProperties
<1> DEFINE more == Append(Sheets(b), sheet(p))
<1>7. /\ more \in Seq(All) /\ Len(more) = Len(b) + 1 /\ more[Len(b) + 1] = sheet(p)
      /\ \A k \in 1 .. Len(b) : more[k] = Sheets(b)[k]
  BY <1>1, <1>2, <1>5, AppendProperties
<1> HIDE DEF more
<1>8. ASSUME NEW k \in 1 .. (Len(b) + 1) PROVE Sheets(c)[k] = more[k]
  <2>1. Sheets(c)[k] = sheet(c[k])
    BY <1>1, <1>4
  <2>2. CASE k = Len(b) + 1
    BY <1>1, <1>7, <2>1, <2>2
  <2>3. CASE k # Len(b) + 1
    <3>1. k \in 1 .. Len(b)
      BY <1>1, <2>3
    <3>2. c[k] = b[k] /\ more[k] = Sheets(b)[k] /\ Sheets(b)[k] = sheet(b[k])
      BY <1>1, <1>3, <1>7, <3>1
    <3> QED
      BY <2>1, <3>2
  <2> QED
    BY <2>2, <2>3
<1>9. Sheets(c) = more
  BY <1>1, <1>6, <1>7, <1>8, SeqEqual
<1> QED
  BY <1>9 DEF more, c, sheet

(* The phase of a job that is not lost.                                    *)
LEMMA PhaseIs ==
  /\ StreamInv /\ ~faulty =>
       /\ e.in_page => JobPhase = "page"
       /\ e.in_job /\ ~e.in_page => JobPhase = "open"
       /\ ~e.in_job /\ wire # << >> => JobPhase = "closed"
  /\ StreamInv' /\ ~faulty' =>
       /\ e'.in_page => JobPhase' = "page"
       /\ e'.in_job /\ ~e'.in_page => JobPhase' = "open"
       /\ ~e'.in_job /\ wire' # << >> => JobPhase' = "closed"
<1>1. /\ StreamInv /\ ~faulty => (e.in_page => e.in_job)
      /\ StreamInv' /\ ~faulty' => (e'.in_page => e'.in_job)
  BY DEF StreamInv, Legal
<1>2. /\ ~faulty /\ e.in_page /\ e.in_job => JobPhase = "page"
      /\ ~faulty /\ e.in_job /\ ~e.in_page => JobPhase = "open"
      /\ ~faulty /\ ~e.in_job /\ ~e.in_page /\ wire # << >> => JobPhase = "closed"
  BY DEF JobPhase
<1>3. /\ ~faulty' /\ e'.in_page /\ e'.in_job => JobPhase' = "page"
      /\ ~faulty' /\ e'.in_job /\ ~e'.in_page => JobPhase' = "open"
      /\ ~faulty' /\ ~e'.in_job /\ ~e'.in_page /\ wire' # << >> => JobPhase' = "closed"
  BY DEF JobPhase
<1> QED
  BY <1>1, <1>2, <1>3

(* A call that is refused, or that loses the job.                          *)
LEMMA RefusedStutters ==
  ASSUME TypeOK, InStep, InStep', TypeOK', NEW rc \in {"ESTATE", "ERANGE", "EINVAL"}, NEW f,
         Complete(Return(e, rc, f)), pic' = pic, book' = book, ~faulty'
  PROVE  UNCHANGED Promise!vars
<1>1. e' = e /\ wire' = wire \o << >> /\ d' = d
  BY WalkShort DEF Complete, Return
<1>2. wire' = wire
  BY <1>1, ConcatEmptySeq DEF TypeOK
<1>3. ~faulty
  BY DEF Complete
<1>4. JobPhase' = JobPhase
  BY <1>1, <1>2, <1>3 DEF JobPhase
<1>5. DecodedPages' = DecodedPages
  BY <1>1 DEF DecodedPages
<1> QED
  BY <1>3, <1>4, <1>5 DEF Promise!vars

LEMMA BeginJobPromise ==
  ASSUME TypeOK, InStep, StreamInv, TypeOK', InStep', StreamInv', ~faulty',
         NEW valid \in BOOLEAN, NEW f \in SinkFates, BeginJob(valid, f)
  PROVE  [Promise!Next]_(Promise!vars)
<1> DEFINE r == begin_job(e, valid, f)
<1>1. CASE ~valid
  <2>1. r = Return(e, "EINVAL", f)
    BY <1>1 DEF begin_job
  <2>2. r.rc = "EINVAL"
    BY <2>1 DEF Return
  <2>3. Complete(Return(e, "EINVAL", f)) /\ pic' = pic /\ book' = book
    BY <2>1, <2>2 DEF BeginJob
  <2> QED
    BY <2>3, RefusedStutters
<1>2. CASE valid
  <2> DEFINE opened == [ClearedEncoder EXCEPT !.in_job = TRUE]
  <2>1. r = emit(opened, Envelope, f)
    BY <1>2 DEF begin_job
  <2>2. r.rc # "EINVAL" /\ r.e = opened
    BY <2>1 DEF emit
  <2>3. e' = opened /\ pic' = << >> /\ book' = << >>
    BY <2>2 DEF BeginJob
  <2>4. e'.in_job /\ ~e'.in_page
    BY <2>3 DEF ClearedEncoder
  <2>5. JobPhase' = "open"
    BY <2>4, PhaseIs
  <2>6. DecodedPages' = << >>
    <3>1. Len(d'.shown) = 0
      BY <2>3 DEF InStep
    <3> QED
      BY <3>1 DEF DecodedPages
  <2>7. Promise!Start
    BY <2>3, <2>5, <2>6 DEF Promise!Start
  <2> QED
    BY <2>7 DEF Promise!Next
<1> QED
  BY <1>1, <1>2

LEMMA BeginPagePromise ==
  ASSUME TypeOK, InStep, StreamInv, TypeOK', InStep', StreamInv', ~faulty',
         NEW width \in {"ok", "out"}, NEW room \in BOOLEAN, NEW f \in SinkFates,
         BeginPage(width, room, f)
  PROVE  [Promise!Next]_(Promise!vars)
<1> DEFINE r == begin_page(e, width, room, f)
           refused == ~e.in_job \/ e.in_page \/ width = "out" \/ ~room
<1>1. CASE refused
  <2>1. PICK rc \in {"ESTATE", "ERANGE", "EINVAL"} : r = Return(e, rc, f)
    BY <1>1 DEF begin_page
  <2>2. r.rc \notin {"OK", "EIO"}
    BY <2>1 DEF Return
  <2>3. Complete(Return(e, rc, f)) /\ pic' = pic /\ book' = book
    BY <2>1, <2>2 DEF BeginPage
  <2> QED
    BY <2>3, RefusedStutters
<1>2. CASE ~refused
  <2> DEFINE opened == [e EXCEPT !.rows = BlankRows, !.lines = 0, !.band_number = 0,
                                 !.in_page = TRUE]
  <2>1. r = emit(opened, PageHeader, f)
    BY <1>2 DEF begin_page
  <2>2. r.e = opened /\ r.rc \in {"OK", "EIO"}
    BY <2>1 DEF emit
  <2>3. e' = opened /\ pic' = << >> /\ book' = book /\ ~faulty
    BY <2>2 DEF BeginPage, Complete
  <2>4. e'.in_page
    BY <2>3 DEF TypeOK, EncoderStates
  <2>5. JobPhase = "open" /\ JobPhase' = "page"
    BY <1>2, <2>3, <2>4, PhaseIs
  <2>6. DecodedPages' = DecodedPages
    <3>1. DecodedPages = Sheets(book)
      BY <2>3, DecodedAreSheets
    <3>2. DecodedPages' = Sheets(book')
      BY DecodedAreSheets
    <3> QED
      BY <2>3, <3>1, <3>2
  <2>7. Promise!StartPage
    BY <2>3, <2>5, <2>6 DEF Promise!StartPage
  <2> QED
    BY <2>7 DEF Promise!Next
<1> QED
  BY <1>1, <1>2

LEMMA WriteLinePromise ==
  ASSUME TypeOK, InStep, StreamInv, TypeOK', InStep', StreamInv', ~faulty',
         NEW line \in Line, NEW f \in SinkFates, WriteLine(line, f)
  PROVE  [Promise!Next]_(Promise!vars)
<1> DEFINE r == write_line(e, line, f)
<1>1. CASE ~e.in_page
  <2>1. r = Return(e, "ESTATE", f)
    BY <1>1 DEF write_line
  <2>2. r.rc = "ESTATE"
    BY <2>1 DEF Return
  <2>3. Complete(Return(e, "ESTATE", f)) /\ pic' = pic /\ book' = book
    BY <2>1, <2>2 DEF WriteLine
  <2> QED
    BY <2>3, RefusedStutters
<1>2. CASE e.in_page
  <2> DEFINE t == [e EXCEPT !.rows[e.lines % BandLines] = StoredRow(line),
                            !.lines = @ + 1]
  <2>1. e \in EncoderStates
    BY DEF TypeOK
  <2>2. t.in_page = e.in_page
    BY <2>1 DEF EncoderStates
  <2>3. t \in EncoderStates
    <3>1. e.lines + 1 \in Nat /\ StoredRow(line) \in Line
      BY <2>1, StoredRowType DEF EncoderStates
    <3>2. [e.rows EXCEPT ![e.lines % BandLines] = StoredRow(line)] \in [Slots -> Line]
      BY <2>1, <3>1 DEF EncoderStates
    <3> QED
      BY <2>1, <3>1, <3>2 DEF EncoderStates
  <2>4. r = IF t.lines % BandLines = 0 THEN flush_band(t, f) ELSE Return(t, "OK", f)
    BY <1>2 DEF write_line
  <2> HIDE DEF t
  <2>5. r.rc # "ESTATE"
    BY <2>4 DEF flush_band, Return, emit
  <2>6. /\ ~faulty /\ r.rc # "EIO" /\ r.rc # "ERANGE" /\ e' = r.e
        /\ pic' = Append(pic, line.px) /\ book' = book
    BY <1>2, <2>5 DEF WriteLine, Complete
  <2> HIDE DEF r
  <2>7. e'.in_page
    <3>1. CASE r = Return(t, "OK", f)
      BY <1>2, <2>2, <2>6, <3>1 DEF Return
    <3>2. CASE r = flush_band(t, f)
      <4>1. r.rc = "OK"
        BY <2>6, <3>2 DEF flush_band, Return, emit
      <4>2. r.e.in_page = t.in_page
        BY <2>3, <3>2, <4>1, FlushOK
      <4> QED
        BY <1>2, <2>2, <2>6, <4>2
    <3> QED
      BY <2>4, <3>1, <3>2
  <2>8. JobPhase = "page" /\ JobPhase' = "page"
    BY <1>2, <2>6, <2>7, PhaseIs
  <2>9. DecodedPages' = DecodedPages
    BY <2>6, DecodedAreSheets
  <2>10. line.px \in Ink
    BY DEF Line
  <2>11. Promise!Draw
    BY <2>6, <2>8, <2>9, <2>10 DEF Promise!Draw
  <2> QED
    BY <2>11 DEF Promise!Next
<1> QED
  BY <1>1, <1>2

(* k lines after q bands of L lines.                                       *)
LEMMA Heights ==
  ASSUME NEW L \in Nat \ {0}, NEW M \in Nat, NEW q \in Nat, NEW k \in 0 .. (L - 1),
         q <= M + 1, k # 0 => q <= M
  PROVE  L * q + k <= (M + 1) * L
<1>1. \A b, c \in Nat : b < c => L * b + L <= L * c
  OBVIOUS
<1>2. L * q \in Nat /\ L * (M + 1) \in Nat /\ (M + 1) * L = L * (M + 1)
  OBVIOUS
<1>3. CASE q <= M
  BY <1>1, <1>2, <1>3
<1>4. CASE ~(q <= M)
  <2>1. q = M + 1 /\ k = 0
    BY <1>4
  <2>2. L * q = L * (M + 1)
    BY <2>1
  <2> QED
    BY <1>2, <2>1, <2>2
<1> QED
  BY <1>3, <1>4

(* A page whose last band found a number is not too tall.                  *)
LEMMA NotTooTall ==
  ASSUME TypeOK, Drawing(e, d, pic), e.lines % BandLines # 0 => e.band_number <= MaxBand
  PROVE  Len(pic) <= (MaxBand + 1) * BandLines
<1>1. /\ e.band_number \in Nat /\ Filled(e) \in 0 .. (BandLines - 1)
      /\ Len(pic) = Base(e) + Filled(e) /\ Base(e) = BandLines * e.band_number
      /\ e.band_number <= MaxBand + 1
  BY DrawingFacts DEF Drawing, Slots, TypeOK
<1>2. Filled(e) # 0 => e.band_number <= MaxBand
  BY DEF Filled
<1>3. BandLines * e.band_number + Filled(e) <= (MaxBand + 1) * BandLines
  <2> DEFINE q == e.band_number
             k == Filled(e)
  <2>1. /\ q \in Nat /\ k \in 0 .. (BandLines - 1) /\ q <= MaxBand + 1
        /\ k # 0 => q <= MaxBand
    BY <1>1, <1>2
  <2> HIDE DEF q, k
  <2>2. BandLines \in Nat \ {0} /\ MaxBand \in Nat
    BY QpdlAssumption
  <2>3. BandLines * q + k <= (MaxBand + 1) * BandLines
    BY <2>1, <2>2, Heights
  <2> QED
    BY <2>3 DEF q, k
<1> QED
  BY <1>1, <1>3

LEMMA EndThePagePromise ==
  ASSUME TypeOK, InStep, StreamInv, TypeOK', InStep', StreamInv', ~faulty',
         NEW f \in SinkFates, EndThePage(f)
  PROVE  [Promise!Next]_(Promise!vars)
<1> DEFINE r == end_page(e, f)
<1>1. CASE ~e.in_page
  <2>1. r = Return(e, "ESTATE", f)
    BY <1>1 DEF end_page
  <2>2. r.rc = "ESTATE"
    BY <2>1 DEF Return
  <2>3. Complete(Return(e, "ESTATE", f)) /\ pic' = pic /\ book' = book
    BY <2>1, <2>2 DEF EndThePage
  <2> QED
    BY <2>3, RefusedStutters
<1>2. CASE e.in_page
  <2> DEFINE b == IF e.lines % BandLines # 0 THEN flush_band(e, f)
                  ELSE Return(e, "OK", f)
             closed == [b.e EXCEPT !.in_page = FALSE, !.pages = @ + 1]
             x == emit(closed, EndPage, b.f)
  <2>1. e \in EncoderStates /\ pic \in Seq(Ink) /\ book \in Seq(Seq(Ink))
    BY DEF TypeOK
  <2>2. r = IF b.rc # "OK" THEN b ELSE [x EXCEPT !.sent = b.sent \o x.sent]
    BY <1>2 DEF end_page
  <2>3. ~faulty /\ r.rc # "EIO" /\ r.rc # "ERANGE"
    BY <1>2 DEF EndThePage, Complete
  <2>4. b.rc \in {"OK", "EIO", "ERANGE"}
    BY DEF flush_band, Return, emit
  <2>5. b.rc = "OK"
    BY <2>2, <2>3, <2>4
  <2>6. b \in Results
    BY <2>1, FlushType, ReturnType DEF ReturnCodes
  <2>7. b.e \in EncoderStates /\ b.e.in_job = e.in_job
    <3>1. CASE e.lines % BandLines # 0
      BY <2>1, <2>5, <2>6, <3>1, FlushOK DEF Results
    <3>2. CASE e.lines % BandLines = 0
      BY <2>1, <3>2 DEF Return
    <3> QED
      BY <3>1, <3>2
  <2>8. e.lines % BandLines # 0 => e.band_number <= MaxBand
    BY <2>1, <2>5, FlushOK
  <2> HIDE DEF b
  <2>9. x.e = closed /\ x.rc \in {"OK", "EIO"} /\ DOMAIN x = {"e", "rc", "sent", "f"}
    BY DEF emit
  <2>10. r.e = closed /\ r.rc = x.rc
    <3>1. r = [x EXCEPT !.sent = b.sent \o x.sent]
      BY <2>2, <2>5
    <3> QED
      BY <2>9, <3>1
  <2>11. e' = closed /\ book' = Append(book, pic) /\ pic' = pic
    BY <2>3, <2>9, <2>10 DEF EndThePage, Complete
  <2>12. Drawing(e, d, pic) /\ e.in_job
    BY <1>2, <2>3 DEF InStep, Drawing
  <2>13. ~e'.in_page /\ e'.in_job
    BY <2>7, <2>11, <2>12 DEF EncoderStates
  <2>14. JobPhase = "page" /\ JobPhase' = "open"
    BY <1>2, <2>3, <2>13, PhaseIs
  <2>15. DecodedPages' = Append(DecodedPages, Promise!Sheet(pic))
    <3>1. DecodedPages = Sheets(book) /\ DecodedPages' = Sheets(book')
      BY <2>3, DecodedAreSheets
    <3> QED
      BY <2>1, <2>11, <3>1, SheetsMore
  <2>16. Len(pic) <= (MaxBand + 1) * BandLines
    BY <2>8, <2>12, NotTooTall
  <2>17. Promise!FinishPage
    BY <2>3, <2>11, <2>14, <2>15, <2>16 DEF Promise!FinishPage
  <2> QED
    BY <2>17 DEF Promise!Next
<1> QED
  BY <1>1, <1>2

LEMMA EndTheJobPromise ==
  ASSUME TypeOK, InStep, StreamInv, TypeOK', InStep', StreamInv', ~faulty',
         NEW f \in SinkFates, EndTheJob(f)
  PROVE  [Promise!Next]_(Promise!vars)
<1> DEFINE r == end_job(e, f)
<1>1. CASE ~e.in_job \/ e.in_page
  <2>1. r = Return(e, "ESTATE", f)
    BY <1>1 DEF end_job
  <2>2. Complete(Return(e, "ESTATE", f)) /\ pic' = pic /\ book' = book
    BY <2>1 DEF EndTheJob
  <2> QED
    BY <2>2, RefusedStutters
<1>2. CASE e.in_job /\ ~e.in_page
  <2> DEFINE closed == [e EXCEPT !.in_job = FALSE]
  <2>1. r = emit(closed, EndJob, f)
    BY <1>2 DEF end_job
  <2>2. r.e = closed /\ r.rc \in {"OK", "EIO"}
    BY <2>1 DEF emit
  <2>3. /\ ~faulty /\ r.rc # "EIO" /\ e' = closed /\ pic' = pic /\ book' = book
        /\ wire' = wire \o r.sent
    BY <2>2 DEF EndTheJob, Complete
  <2>4. wire' # << >>
    <3>1. wire # << >>
      BY <1>2, <2>3 DEF StreamInv, Legal
    <3>2. r.sent = <<EndJob>>
      BY <2>1, <2>3 DEF emit
    <3>3. EndJob \in Records
      BY DEF Records, PlainRecords
    <3> HIDE DEF r
    <3> QED
      BY <2>3, <3>2, <3>3, OneMore DEF TypeOK
  <2>5. ~e'.in_job /\ ~e'.in_page
    BY <1>2, <2>3 DEF TypeOK, EncoderStates
  <2>6. JobPhase = "open" /\ JobPhase' = "closed"
    BY <1>2, <2>3, <2>4, <2>5, PhaseIs
  <2>7. DecodedPages' = DecodedPages
    BY <2>3, DecodedAreSheets
  <2>8. Promise!Finish
    BY <2>3, <2>6, <2>7 DEF Promise!Finish
  <2> QED
    BY <2>8 DEF Promise!Next
<1> QED
  BY <1>1, <1>2

(* Every step is a step of the promise, or leaves it as it is.             *)
LEMMA PromiseStep ==
  /\ TypeOK /\ InStep /\ StreamInv
  /\ TypeOK' /\ InStep' /\ StreamInv'
  /\ [Next]_vars
  => [Promise!Next]_(Promise!vars)
<1> SUFFICES ASSUME TypeOK, InStep, StreamInv, TypeOK', InStep', StreamInv', [Next]_vars
             PROVE  [Promise!Next]_(Promise!vars)
  OBVIOUS
<1>1. CASE UNCHANGED vars
  BY <1>1 DEF vars, Promise!vars, JobPhase, DecodedPages
<1>2. CASE faulty'
  <2>1. JobPhase' = "lost"
    BY <1>2 DEF JobPhase
  <2>2. Promise!Lose
    BY <1>2, <2>1 DEF Promise!Lose
  <2> QED
    BY <2>2 DEF Promise!Next
<1>3. CASE Next /\ ~faulty'
  <2>1. PICK f \in SinkFates :
          \/ \E valid \in BOOLEAN : BeginJob(valid, f)
          \/ \E width \in {"ok", "out"}, room \in BOOLEAN :
               BeginPage(width, room, f)
          \/ \E line \in Line : WriteLine(line, f)
          \/ EndThePage(f)
          \/ EndTheJob(f)
    BY <1>3 DEF Next
  <2> QED
    BY <1>3, <2>1, BeginJobPromise, BeginPagePromise, WriteLinePromise,
       EndThePagePromise, EndTheJobPromise
<1> QED
  BY <1>1, <1>2, <1>3

(***************************************************************************)
(* encode.c keeps what PagePrinter promises, for every band height, page   *)
(* height, set of line contents and order of calls: read with walk.c, the  *)
(* wire shows the pages of the job as they were drawn, page after page,    *)
(* until a call reports that the job is lost.                              *)
(***************************************************************************)
THEOREM KeepsPromiseHolds == Spec => KeepsPromise
<1>1. Init => Promise!Init
  <2> SUFFICES ASSUME Init PROVE Promise!Init
    OBVIOUS
  <2>1. ~e.in_job /\ ~e.in_page /\ d.shown = << >> /\ wire = << >>
    BY DEF Init, ClearedEncoder, ClearedDecoder
  <2>2. JobPhase = "none"
    BY <2>1 DEF Init, JobPhase
  <2>3. DecodedPages = << >>
    BY <2>1 DEF DecodedPages
  <2> QED
    BY <2>2, <2>3 DEF Init, Promise!Init
<1> QED
  BY <1>1, PromiseStep, TypeCorrect, InStepHolds, StreamInvHolds, PTL
  DEF Spec, KeepsPromise, Promise!Spec
=============================================================================
