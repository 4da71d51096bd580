----------------------------- MODULE QpdlLemmas ------------------------------
(***************************************************************************)
(* Lemmas about the encoder's calls and the reader's steps as operators:   *)
(* their types, what a flush does, and that a call keeps a legal stream    *)
(* legal.  The proofs about the modules that use the encoder cite them.    *)
(***************************************************************************)
EXTENDS QpdlPages, SequenceTheorems, TLAPS

(* What a call gives back: see Return and emit.                            *)
Results == [e : EncoderStates, rc : ReturnCodes, sent : Seq(Records),
            f : SinkFates]

(* The records a stream may end with.                                      *)
LastOf(s) ==
  IF s.in_page THEN {"page", "band"}
  ELSE IF s.in_job THEN {"envelope", "end_page"} ELSE {"end_job"}

(* The stream w is legal so far and ends where the encoder s is: with a    *)
(* record that fits, and with band numbers below the next one.             *)
Legal(w, s) ==
  /\ JobPrefix(w)
  /\ s.in_page => s.in_job
  /\ w = << >> => ~s.in_job
  /\ w # << >> => /\ w[Len(w)].t \in LastOf(s)
                  /\ IsBand(w[Len(w)]) => w[Len(w)].number < s.band_number

(* The number of the band in the workspace follows from the line count.    *)
Numbered(s) == s.band_number = s.lines \div BandLines

USE QpdlAssumption

-----------------------------------------------------------------------------
(* Types                                                                   *)

(* The constants of the stream have their types.                           *)
LEMMA BlankTypes ==
  /\ WhiteRow \in Line
  /\ BlankRows \in [Slots -> Line]
  /\ BlankPage \in [Bands -> [Slots -> Line]]
  /\ ClearedEncoder \in EncoderStates
  /\ ClearedDecoder \in DecoderStates
<1>1. WhiteRow \in Line
  BY DEF WhiteRow, Line
<1>2. BlankRows \in [Slots -> Line]
  BY <1>1 DEF BlankRows
<1>3. BlankPage \in [Bands -> [Slots -> Line]]
  BY <1>2 DEF BlankPage
<1>4. ClearedEncoder \in EncoderStates
  BY <1>2 DEF ClearedEncoder, EncoderStates
<1>5. ClearedDecoder \in DecoderStates
  BY <1>3 DEF ClearedDecoder, DecoderStates
<1> QED
  BY <1>1, <1>2, <1>3, <1>4, <1>5

(* A call that writes nothing returns a result.                            *)
LEMMA ReturnType ==
  ASSUME NEW s \in EncoderStates, NEW rc \in ReturnCodes, NEW f \in SinkFates
  PROVE  Return(s, rc, f) \in Results
  BY EmptySeq DEF Return, Results

(* So does emit, which hands the state it was given back.                  *)
LEMMA EmitType ==
  ASSUME NEW s \in EncoderStates, NEW rec \in Records, NEW f \in SinkFates
  PROVE  emit(s, rec, f) \in Results
<1>1. Torn \in Records
  BY DEF Records, PlainRecords
<1>2. /\ <<rec>> \in Seq(Records)
      /\ <<Torn>> \in Seq(Records)
      /\ << >> \in Seq(Records)
  BY <1>1
<1>3. f.acc > 0 => [acc |-> f.acc - 1, torn |-> f.torn] \in SinkFates
  BY DEF SinkFates, RecordsPerCall
<1> QED
  BY <1>2, <1>3 DEF emit, Results, ReturnCodes

(* A line that is stored is a row.                                         *)
LEMMA StoredRowType ==
  ASSUME NEW line \in Line
  PROVE  StoredRow(line) \in Line
  BY DEF StoredRow, Line

(* So does a flush.                                                        *)
LEMMA FlushType ==
  ASSUME NEW s \in EncoderStates, NEW f \in SinkFates
  PROVE  flush_band(s, f) \in Results
<1> DEFINE rec == BandRecord(s.band_number % (MaxBand + 1), s.rows)
           blank == [s EXCEPT !.bands_blank = @ + 1, !.band_number = @ + 1]
           done == [s EXCEPT !.rows = BlankRows, !.bands_written = @ + 1,
                             !.band_number = @ + 1]
<1>1. s.band_number % (MaxBand + 1) \in Bands
  BY DEF Bands, EncoderStates
<1>2. rec \in Records
  BY <1>1 DEF BandRecord, Records, BandRecords, EncoderStates
<1>3. blank \in EncoderStates /\ done \in EncoderStates
  <2>1. /\ s.bands_blank + 1 \in Nat /\ s.bands_written + 1 \in Nat
        /\ s.band_number + 1 \in Nat
    BY DEF EncoderStates
  <2>2. blank \in EncoderStates
    BY <2>1 DEF EncoderStates
  <2>3. BlankRows \in [Slots -> Line]
    BY BlankTypes
  <2>4. done \in EncoderStates
    BY <2>1, <2>3 DEF EncoderStates
  <2> QED
    BY <2>2, <2>4
<1>4. emit(s, rec, f) \in Results
  BY <1>2, EmitType
<1>5. [emit(s, rec, f) EXCEPT !.e = done] \in Results
  BY <1>3, <1>4 DEF Results
<1>6. Return(blank, "OK", f) \in Results /\ Return(s, "ERANGE", f) \in Results
  BY <1>3, ReturnType DEF ReturnCodes
<1> QED
  BY <1>4, <1>5, <1>6 DEF flush_band, TooTall, BandByte, Flushed

(* Every call takes an encoder state to a result.                          *)
LEMMA CallTypes ==
  ASSUME NEW s \in EncoderStates, NEW f \in SinkFates
  PROVE  /\ \A valid \in BOOLEAN : begin_job(s, valid, f) \in Results
         /\ \A width \in {"ok", "out"}, room \in BOOLEAN :
              begin_page(s, width, room, f) \in Results
         /\ \A line \in Line : write_line(s, line, f) \in Results
         /\ end_page(s, f) \in Results
         /\ end_job(s, f) \in Results
<1>1. /\ Envelope \in Records /\ PageHeader \in Records
      /\ EndPage \in Records /\ EndJob \in Records
  BY DEF Records, PlainRecords
<1>2. \A rc \in ReturnCodes : Return(s, rc, f) \in Results
  BY ReturnType
<1>3. \A valid \in BOOLEAN : begin_job(s, valid, f) \in Results
  <2>1. [ClearedEncoder EXCEPT !.in_job = TRUE] \in EncoderStates
    BY BlankTypes DEF EncoderStates
  <2> QED
    BY <1>1, <1>2, <2>1, EmitType DEF begin_job, ReturnCodes
<1>4. \A width \in {"ok", "out"}, room \in BOOLEAN :
        begin_page(s, width, room, f) \in Results
  <2>1. [s EXCEPT !.rows = BlankRows, !.lines = 0, !.band_number = 0,
                  !.in_page = TRUE] \in EncoderStates
    BY BlankTypes DEF EncoderStates
  <2> QED
    BY <1>1, <1>2, <2>1, EmitType DEF begin_page, ReturnCodes
<1>5. ASSUME NEW line \in Line PROVE write_line(s, line, f) \in Results
  <2> DEFINE t == [s EXCEPT !.rows[s.lines % BandLines] = StoredRow(line),
                            !.lines = @ + 1]
  <2>1. t \in EncoderStates
    <3>1. /\ s.lines + 1 \in Nat
          /\ [s.rows EXCEPT ![s.lines % BandLines] = StoredRow(line)]
               \in [Slots -> Line]
      BY StoredRowType DEF EncoderStates, Slots
    <3>2. \A x \in Nat, y \in [Slots -> Line] :
            [s EXCEPT !.rows = y, !.lines = x] \in EncoderStates
      BY DEF EncoderStates
    <3> QED
      BY <3>1, <3>2
  <2> QED
    BY <1>2, <2>1, FlushType, ReturnType DEF write_line, ReturnCodes
<1>6. end_page(s, f) \in Results
  <2> DEFINE b == IF s.lines % BandLines # 0 THEN flush_band(s, f)
                  ELSE Return(s, "OK", f)
             c == [b.e EXCEPT !.in_page = FALSE, !.pages = @ + 1]
             r == emit(c, EndPage, b.f)
  <2>1. b \in Results
    BY <1>2, FlushType DEF ReturnCodes
  <2>2. c \in EncoderStates
    <3>1. b.e \in EncoderStates
      BY <2>1 DEF Results
    <3>2. b.e.pages + 1 \in Nat
      BY <3>1 DEF EncoderStates
    <3> QED
      BY <3>1, <3>2 DEF EncoderStates
  <2>3. r \in Results
    BY <1>1, <2>1, <2>2, EmitType DEF Results
  <2>4. b.sent \o r.sent \in Seq(Records)
    BY <2>1, <2>3 DEF Results
  <2>5. [r EXCEPT !.sent = b.sent \o r.sent] \in Results
    BY <2>3, <2>4 DEF Results
  <2> QED
    BY <1>2, <2>1, <2>5 DEF end_page, ReturnCodes
<1>7. end_job(s, f) \in Results
  <2>1. [s EXCEPT !.in_job = FALSE] \in EncoderStates
    BY DEF EncoderStates
  <2> QED
    BY <1>1, <1>2, <2>1, EmitType DEF end_job, ReturnCodes
<1> QED
  BY <1>3, <1>4, <1>5, <1>6, <1>7

(* The reader stays a reader whatever is on the wire.                      *)
LEMMA VisitType ==
  ASSUME NEW q \in DecoderStates, NEW r \in Records
  PROVE  visit(q, r) \in DecoderStates
<1>1. on_page(q) \in DecoderStates
  <2>1. -1 \in -1 .. MaxBand
    OBVIOUS
  <2> QED
    BY <2>1 DEF on_page, DecoderStates
<1>2. r.t = "band" => r \in BandRecords
  BY DEF Records, PlainRecords, BandRecords, Envelope, PageHeader, EndPage,
         EndJob, Torn
<1>3. ASSUME r \in BandRecords PROVE on_band(q, r) \in DecoderStates
  <2> DEFINE m == IF r.number > q.max_band THEN r.number ELSE q.max_band
             rows == [q.page_rows EXCEPT ![r.number] = r.rows]
  <2>1. m \in -1 .. MaxBand
    BY <1>3 DEF DecoderStates, BandRecords, Bands
  <2>2. rows \in [Bands -> [Slots -> Line]]
    BY <1>3 DEF DecoderStates, BandRecords
  <2>3. \A x \in -1 .. MaxBand, y \in [Bands -> [Slots -> Line]] :
          [q EXCEPT !.page_rows = y, !.max_band = x] \in DecoderStates
    BY DEF DecoderStates
  <2> QED
    BY <2>1, <2>2, <2>3 DEF on_band
<1>4. on_end_page(q) \in DecoderStates
  <2> DEFINE cut == [b \in Bands |->
                       IF b <= q.max_band THEN q.page_rows[b] ELSE BlankRows]
  <2>1. cut \in [Bands -> [Slots -> Line]]
    BY BlankTypes DEF DecoderStates
  <2>2. /\ Append(q.shown, cut) \in Seq([Bands -> [Slots -> Line]])
        /\ Append(q.shown, BlankPage) \in Seq([Bands -> [Slots -> Line]])
    BY <2>1, BlankTypes DEF DecoderStates
  <2> QED
    BY <2>2, BlankTypes DEF on_end_page, DecoderStates
<1>5. \A w \in {"pjl", "records", "done", "error"} :
        [q EXCEPT !.walk = w] \in DecoderStates
  BY DEF DecoderStates
<1> QED
  BY <1>1, <1>2, <1>3, <1>4, <1>5 DEF visit

(* The walk over what a call wrote is a reader too.                        *)
LEMMA WalkType ==
  ASSUME NEW q \in DecoderStates, NEW recs \in Seq(Records)
  PROVE  walk(q, recs) \in DecoderStates
<1>1. \A i \in 1 .. Len(recs) : recs[i] \in Records
  OBVIOUS
<1>2. Len(recs) # 0 => visit(q, recs[1]) \in DecoderStates
  BY <1>1, VisitType
<1>3. ASSUME Len(recs) # 0, Len(recs) # 1
      PROVE  visit(visit(q, recs[1]), recs[2]) \in DecoderStates
  <2>1. recs[2] \in Records
    <3> DEFINE n == Len(recs)
    <3>1. n \in Nat /\ n # 0 /\ n # 1
      BY <1>3, LenProperties
    <3> HIDE DEF n
    <3>2. 2 \in 1 .. n
      BY <3>1
    <3> QED
      BY <1>1, <3>2 DEF n
  <2> QED
    BY <1>2, <1>3, <2>1, VisitType
<1> QED
  BY <1>2, <1>3 DEF walk

(* Where line n lies among bands of L lines.                               *)
LEMMA DivFacts ==
  ASSUME NEW L \in Nat \ {0}, NEW n \in Nat, NEW q \in Nat
  PROVE  /\ n \div L \in Nat /\ n % L \in 0 .. (L - 1)
         /\ n = L * (n \div L) + (n % L)
         /\ n \div L = q => n = L * q + (n % L)
         /\ n \div L < q => n < L * q
         /\ n \div L > q => n >= L * q + L
<1>1. /\ n \div L \in Nat /\ n % L \in 0 .. (L - 1)
      /\ n = L * (n \div L) + (n % L)
  OBVIOUS
<1>2. \A b \in Nat : b < q => L * b + L <= L * q
  OBVIOUS
<1>3. \A b \in Nat : b > q => L * b >= L * q + L
  OBVIOUS
<1> QED
  BY <1>1, <1>2, <1>3

(* What a flush that returns OK has done.                                  *)
LEMMA FlushOK ==
  ASSUME NEW s \in EncoderStates, NEW f \in SinkFates,
         flush_band(s, f).rc = "OK"
  PROVE  LET r == flush_band(s, f)
         IN  /\ s.band_number <= MaxBand
             /\ r.sent = IF s.rows = BlankRows THEN << >>
                         ELSE <<BandRecord(s.band_number, s.rows)>>
             /\ r.e.in_job = s.in_job /\ r.e.in_page = s.in_page
             /\ r.e.lines = s.lines /\ r.e.pages = s.pages
             /\ r.e.band_number = s.band_number + 1
             /\ r.e.rows = BlankRows
<1> DEFINE r == flush_band(s, f)
<1>1. s.band_number \in Nat
  BY DEF EncoderStates
<1>2. s.band_number <= MaxBand
  BY <1>1 DEF flush_band, TooTall, BandByte, Flushed, Return
<1>3. s.band_number % (MaxBand + 1) = s.band_number
  BY <1>1, <1>2
<1>4. CASE s.rows = BlankRows
  <2> DEFINE done == [s EXCEPT !.bands_blank = @ + 1, !.band_number = @ + 1]
  <2>1. r = Return(done, "OK", f)
    BY <1>1, <1>2, <1>4 DEF flush_band, TooTall, BandByte, Flushed
  <2>2. /\ done.in_job = s.in_job /\ done.in_page = s.in_page
        /\ done.lines = s.lines /\ done.pages = s.pages
        /\ done.band_number = s.band_number + 1 /\ done.rows = s.rows
    BY DEF EncoderStates
  <2>3. r.e = done /\ r.sent = << >>
    BY <2>1 DEF Return
  <2> QED
    BY <1>2, <1>4, <2>2, <2>3
<1>5. CASE s.rows # BlankRows
  <2> DEFINE m == emit(s, BandRecord(s.band_number, s.rows), f)
             done == [s EXCEPT !.rows = BlankRows, !.bands_written = @ + 1,
                               !.band_number = @ + 1]
  <2>1. r = IF m.rc # "OK" THEN m ELSE [m EXCEPT !.e = done]
    BY <1>1, <1>2, <1>3, <1>5 DEF flush_band, TooTall, BandByte, Flushed
  <2>2. m.rc = "OK"
    BY <2>1
  <2>3. m.sent = <<BandRecord(s.band_number, s.rows)>>
    BY <2>2 DEF emit
  <2>4. r.sent = m.sent /\ r.e = done
    BY <2>1, <2>2 DEF emit
  <2>5. /\ done.in_job = s.in_job /\ done.in_page = s.in_page
        /\ done.lines = s.lines /\ done.pages = s.pages
        /\ done.band_number = s.band_number + 1 /\ done.rows = BlankRows
    BY DEF EncoderStates
  <2> QED
    BY <1>2, <1>5, <2>3, <2>4, <2>5
<1> QED
  BY <1>4, <1>5

(* The walk over no record, one record, and one call's two records.        *)
LEMMA WalkShort ==
  ASSUME NEW q, NEW a, NEW b
  PROVE  /\ walk(q, << >>) = q
         /\ walk(q, <<a>>) = visit(q, a)
         /\ walk(q, <<a>> \o <<b>>) = visit(visit(q, a), b)
         /\ walk(q, << >> \o <<b>>) = visit(q, b)
<1>1. /\ Len(<< >>) = 0 /\ Len(<<a>>) = 1 /\ <<a>>[1] = a
  OBVIOUS
<1>2. /\ Len(<<a>> \o <<b>>) = 2
      /\ (<<a>> \o <<b>>)[1] = a /\ (<<a>> \o <<b>>)[2] = b
  <2> DEFINE S == {a, b}
  <2>1. <<a>> \in Seq(S) /\ <<b>> \in Seq(S)
    OBVIOUS
  <2> QED
    BY <2>1, ConcatProperties
<1>3. /\ Len(<< >> \o <<b>>) = 1 /\ (<< >> \o <<b>>)[1] = b
  <2> DEFINE S == {a, b}
  <2>1. << >> \in Seq(S) /\ <<b>> \in Seq(S)
    OBVIOUS
  <2> QED
    BY <2>1, ConcatProperties
<1>4. walk(q, <<a>> \o <<b>>) = visit(visit(q, a), b)
  BY <1>2 DEF walk
<1>5. walk(q, << >> \o <<b>>) = visit(q, b)
  BY <1>3 DEF walk
<1> QED
  BY <1>1, <1>4, <1>5 DEF walk

(* One more line: the same band, or the first line of the next one.        *)
LEMMA NextLine ==
  ASSUME NEW n \in Nat
  PROVE  /\ (n + 1) % BandLines # 0 =>
              /\ (n + 1) % BandLines = (n % BandLines) + 1
              /\ (n + 1) \div BandLines = n \div BandLines
         /\ (n + 1) % BandLines = 0 =>
              /\ n % BandLines = BandLines - 1
              /\ (n + 1) \div BandLines = (n \div BandLines) + 1
  BY QpdlAssumption

-----------------------------------------------------------------------------
(* The stream as the calls go on writing it                                *)

(* What a stream is once a record was added.                               *)
LEMMA OneMore ==
  ASSUME NEW w \in Seq(Records), NEW x \in Records
  PROVE  /\ w \o <<x>> \in Seq(Records) /\ Len(w \o <<x>>) = Len(w) + 1
         /\ (w \o <<x>>)[Len(w) + 1] = x /\ w \o <<x>> # << >>
         /\ \A i \in 1 .. Len(w) : (w \o <<x>>)[i] = w[i]
         /\ Len(w) \in Nat
  OBVIOUS

(* A record that may follow keeps the stream legal.                        *)
LEMMA LegalMore ==
  ASSUME NEW w \in Seq(Records), NEW x \in Records, w # << >>,
         NEW s \in EncoderStates, NEW t \in EncoderStates, Legal(w, s),
         t.in_page => t.in_job, x.t \in LastOf(t),
         \A y \in LastOf(s) : <<y, x.t>> \in Follows,
         IsBand(x) => x.number = s.band_number /\ t.band_number = s.band_number + 1
  PROVE  Legal(w \o <<x>>, t)
<1> DEFINE v == w \o <<x>>
<1>1. /\ Len(v) = Len(w) + 1 /\ v[Len(w) + 1] = x /\ Len(w) \in Nat
      /\ \A i \in 1 .. Len(w) : v[i] = w[i]
      /\ v # << >>
  BY OneMore
<1> HIDE DEF v
<1>2. Len(w) > 0 /\ w[Len(w)].t \in LastOf(s) /\ w[1].t = "envelope"
  BY <1>1 DEF Legal, JobPrefix
<1>3. v[1].t = "envelope"
  BY <1>1, <1>2
<1>4. ASSUME NEW i \in 1 .. (Len(v) - 1)
      PROVE  /\ <<v[i].t, v[i+1].t>> \in Follows
             /\ IsBand(v[i]) /\ IsBand(v[i+1]) => v[i].number < v[i+1].number
  <2>1. CASE i = Len(w)
    BY <1>1, <1>2, <2>1 DEF Legal
  <2>2. CASE i # Len(w)
    <3>1. i \in 1 .. (Len(w) - 1) /\ v[i] = w[i] /\ v[i+1] = w[i+1]
      BY <1>1, <2>2
    <3> QED
      BY <3>1 DEF Legal, JobPrefix
  <2> QED
    BY <2>1, <2>2
<1>5. JobPrefix(v)
  BY <1>3, <1>4 DEF JobPrefix
<1>6. s.band_number \in Nat
  BY DEF EncoderStates
<1> QED
  BY <1>1, <1>5, <1>6 DEF Legal, v

(* Records other than bands.                                               *)
LEMMA PlainRecordsFacts ==
  /\ \A x \in PlainRecords : x \in Records /\ ~IsBand(x)
  /\ Torn \in PlainRecords
  BY DEF Records, PlainRecords, IsBand, Envelope, PageHeader, EndPage, EndJob, Torn

(* A flush on an open page keeps the stream legal and the page open.       *)
LEMMA FlushLegal ==
  ASSUME NEW w \in Seq(Records), NEW s \in EncoderStates, NEW f \in SinkFates,
         Legal(w, s), s.in_page, flush_band(s, f).rc = "OK"
  PROVE  LET r == flush_band(s, f)
         IN  Legal(w \o r.sent, r.e) /\ r.e.in_page /\ r.e.in_job
<1> DEFINE r == flush_band(s, f)
           rec == BandRecord(s.band_number, s.rows)
<1>1. /\ s.band_number <= MaxBand
      /\ r.sent = IF s.rows = BlankRows THEN << >> ELSE <<rec>>
      /\ r.e.in_job = s.in_job /\ r.e.in_page = s.in_page
      /\ r.e.band_number = s.band_number + 1
  BY FlushOK
<1>2. r \in Results
  BY FlushType
<1>3. /\ r.e \in EncoderStates /\ s.band_number \in Nat /\ s.rows \in [Slots -> Line]
      /\ s.in_job /\ w # << >>
  BY <1>2 DEF Results, EncoderStates, Legal
<1> HIDE DEF r
<1>4. CASE s.rows = BlankRows
  <2>1. w \o r.sent = w
    BY <1>1, <1>4, ConcatEmptySeq
  <2>2. IsBand(w[Len(w)]) => w[Len(w)].number < r.e.band_number
    <3>1. w[Len(w)] \in Records
      BY <1>3
    <3>2. IsBand(w[Len(w)]) => w[Len(w)].number \in Nat
      BY <3>1 DEF Records, PlainRecords, BandRecords, IsBand, Envelope, PageHeader,
             EndPage, EndJob, Torn, Bands
    <3>3. IsBand(w[Len(w)]) => w[Len(w)].number < s.band_number
      BY <1>3 DEF Legal
    <3> QED
      BY <1>1, <1>3, <3>2, <3>3
  <2>3. LastOf(r.e) = LastOf(s)
    BY <1>1 DEF LastOf
  <2>4. Legal(w, r.e)
    BY <1>1, <1>3, <2>2, <2>3 DEF Legal
  <2> QED
    BY <1>1, <1>3, <2>1, <2>4 DEF r
<1>5. CASE s.rows # BlankRows
  <2>1. rec \in Records /\ rec.number = s.band_number /\ rec.t = "band"
    BY <1>1, <1>3 DEF BandRecord, Records, BandRecords, Bands
  <2>2. /\ LastOf(s) = {"page", "band"} /\ LastOf(r.e) = {"page", "band"}
        /\ \A y \in LastOf(s) : <<y, rec.t>> \in Follows
    BY <1>1, <2>1 DEF LastOf, Follows
  <2>3. r.sent = <<rec>>
    BY <1>1, <1>5
  <2> HIDE DEF rec
  <2>4. Legal(w \o <<rec>>, r.e)
    BY <1>1, <1>3, <2>1, <2>2, LegalMore
  <2> QED
    BY <1>1, <1>3, <2>3, <2>4 DEF r
<1> QED
  BY <1>4, <1>5

(* A page of whole bands ends at the end of a band.                        *)
LEMMA MultipleMod ==
  \A q \in Nat : (q * BandLines) % BandLines = 0
  OBVIOUS

(* Lines on a page of MaxBand + 1 bands find a number for their band.      *)
LEMMA BandFits ==
  ASSUME NEW L \in Nat \ {0}, NEW M \in Nat, NEW n \in Nat, n < (M + 1) * L
  PROVE  n \div L <= M
<1>1. /\ n \div L \in Nat /\ (n \div L > M => n >= L * M + L)
  BY DivFacts
<1>2. (M + 1) * L = L * M + L
  OBVIOUS
<1>3. L * M \in Nat
  OBVIOUS
<1> QED
  BY <1>1, <1>2, <1>3

(* A band whose number fits is flushed, unless the sink fails.             *)
LEMMA FlushFits ==
  ASSUME NEW s \in EncoderStates, NEW f \in SinkFates, s.band_number <= MaxBand
  PROVE  flush_band(s, f).rc \in {"OK", "EIO"}
<1>1. ~TooTall(s)
  BY DEF TooTall, EncoderStates
<1>2. CASE s.rows = BlankRows
  BY <1>1, <1>2 DEF flush_band, Return
<1>3. CASE s.rows # BlankRows
  <2> DEFINE m == emit(s, BandRecord(BandByte(s.band_number), s.rows), f)
  <2>1. m.rc \in {"OK", "EIO"} /\ (m.rc = "OK" => [m EXCEPT !.e = Flushed(s)].rc = "OK")
    BY DEF emit
  <2>2. flush_band(s, f) = IF m.rc # "OK" THEN m ELSE [m EXCEPT !.e = Flushed(s)]
    BY <1>1, <1>3 DEF flush_band
  <2> HIDE DEF m
  <2> QED
    BY <2>1, <2>2
<1> QED
  BY <1>2, <1>3

(* The records that are not bands, one by one.                             *)
LEMMA PlainTypes ==
  /\ Envelope \in Records /\ ~IsBand(Envelope)
  /\ PageHeader \in Records /\ ~IsBand(PageHeader)
  /\ EndPage \in Records /\ ~IsBand(EndPage)
  /\ EndJob \in Records /\ ~IsBand(EndJob)
  BY DEF Records, PlainRecords, IsBand, Envelope, PageHeader, EndPage, EndJob

(* emit of a record that is not a band, when the sink takes it.            *)
LEMMA EmitFacts ==
  ASSUME NEW s \in EncoderStates, NEW x \in Records, NEW f \in SinkFates,
         NEW r, r = emit(s, x, f)
  PROVE  /\ r.e = s /\ r.rc \in {"OK", "EIO"}
         /\ r.rc = "OK" => r.sent = <<x>>
  BY DEF emit

(* m2022_qpdl_begin_job on a valid job opens the stream.                   *)
LEMMA BeginJobLegal ==
  ASSUME NEW s \in EncoderStates, NEW f \in SinkFates,
         NEW valid \in BOOLEAN, valid, NEW r, r = begin_job(s, valid, f)
  PROVE  /\ r.rc \in {"OK", "EIO"} /\ r.e.in_job /\ ~r.e.in_page
         /\ r.rc = "OK" => r.sent = <<Envelope>> /\ Legal(<<Envelope>>, r.e)
<1> DEFINE opened == [ClearedEncoder EXCEPT !.in_job = TRUE]
<1>1. opened \in EncoderStates /\ opened.in_job /\ ~opened.in_page
  BY BlankTypes DEF ClearedEncoder, EncoderStates
<1>2. r = emit(opened, Envelope, f)
  BY DEF begin_job
<1> HIDE DEF opened
<1>3. r.e = opened /\ r.rc \in {"OK", "EIO"} /\ (r.rc = "OK" => r.sent = <<Envelope>>)
  BY <1>1, <1>2, PlainTypes, EmitFacts
<1>4. Legal(<<Envelope>>, opened)
  BY <1>1 DEF Legal, JobPrefix, LastOf, IsBand, Envelope
<1> QED
  BY <1>1, <1>3, <1>4

(* m2022_qpdl_begin_page between pages opens a page.                       *)
LEMMA BeginPageLegal ==
  ASSUME NEW w \in Seq(Records), NEW s \in EncoderStates, NEW f \in SinkFates,
         Legal(w, s), s.in_job, ~s.in_page,
         NEW r, r = begin_page(s, "ok", TRUE, f)
  PROVE  /\ r.rc \in {"OK", "EIO"}
         /\ r.rc = "OK" => /\ Legal(w \o r.sent, r.e) /\ r.e.in_job /\ r.e.in_page
                           /\ r.e.lines = 0 /\ Numbered(r.e)
<1> DEFINE t == [s EXCEPT !.rows = BlankRows, !.lines = 0, !.band_number = 0,
                          !.in_page = TRUE]
<1>1. /\ t \in EncoderStates /\ t.in_job /\ t.in_page
      /\ t.band_number = 0 /\ t.lines = 0
  BY BlankTypes DEF EncoderStates
<1>2. r = emit(t, PageHeader, f)
  BY DEF begin_page
<1> HIDE DEF t
<1>3. r.e = t /\ r.rc \in {"OK", "EIO"} /\ (r.rc = "OK" => r.sent = <<PageHeader>>)
  BY <1>1, <1>2, PlainTypes, EmitFacts
<1>4. PageHeader \in Records /\ ~IsBand(PageHeader) /\ w # << >>
  BY PlainTypes DEF Legal
<1>5. /\ PageHeader.t \in LastOf(t)
      /\ \A y \in LastOf(s) : <<y, PageHeader.t>> \in Follows
  BY <1>1 DEF LastOf, Follows, PageHeader
<1>6. Legal(w \o <<PageHeader>>, t)
  BY <1>1, <1>4, <1>5, LegalMore
<1>7. Numbered(t)
  BY <1>1 DEF Numbered
<1> QED
  BY <1>1, <1>3, <1>6, <1>7

(* m2022_qpdl_write_line on an open page that has room for the line.       *)
LEMMA WriteLineLegal ==
  ASSUME NEW w \in Seq(Records), NEW s \in EncoderStates, NEW f \in SinkFates,
         NEW line \in Line, Legal(w, s), s.in_page, Numbered(s),
         s.lines < (MaxBand + 1) * BandLines,
         NEW r, r = write_line(s, line, f)
  PROVE  /\ r.rc \in {"OK", "EIO"}
         /\ r.rc = "OK" => /\ Legal(w \o r.sent, r.e) /\ r.e.in_job /\ r.e.in_page
                           /\ r.e.lines = s.lines + 1 /\ Numbered(r.e)
<1> DEFINE t == [s EXCEPT !.rows[s.lines % BandLines] = StoredRow(line),
                          !.lines = @ + 1]
<1>1. s.lines \in Nat /\ s.lines + 1 \in Nat
  BY DEF EncoderStates
<1>2. t \in EncoderStates
  <2>1. [s.rows EXCEPT ![s.lines % BandLines] = StoredRow(line)] \in [Slots -> Line]
    BY StoredRowType DEF EncoderStates
  <2> QED
    BY <1>1, <2>1 DEF EncoderStates
<1>3. /\ t.in_job = s.in_job /\ t.in_page = s.in_page /\ t.lines = s.lines + 1
      /\ t.band_number = s.band_number
  BY DEF EncoderStates
<1>4. r = IF t.lines % BandLines = 0 THEN flush_band(t, f) ELSE Return(t, "OK", f)
  BY DEF write_line
<1> HIDE DEF t
<1>5. Legal(w, t) /\ t.in_job
  BY <1>3 DEF Legal, LastOf
<1>6. CASE t.lines % BandLines # 0
  <2>1. r.e = t /\ r.rc = "OK" /\ r.sent = << >>
    BY <1>4, <1>6 DEF Return
  <2>2. w \o r.sent = w
    BY <2>1, ConcatEmptySeq
  <2>3. Numbered(t)
    <3>1. (s.lines + 1) \div BandLines = s.lines \div BandLines
      BY <1>1, <1>3, <1>6, NextLine
    <3> QED
      BY <1>3, <3>1 DEF Numbered
  <2> QED
    BY <1>3, <1>5, <2>1, <2>2, <2>3
<1>7. CASE t.lines % BandLines = 0
  <2>1. r = flush_band(t, f)
    BY <1>4, <1>7
  <2>2. t.band_number <= MaxBand
    BY <1>1, <1>3, BandFits DEF Numbered
  <2>3. r.rc \in {"OK", "EIO"}
    BY <1>2, <2>1, <2>2, FlushFits
  <2>4. ASSUME r.rc = "OK"
        PROVE  /\ Legal(w \o r.sent, r.e) /\ r.e.in_job /\ r.e.in_page
               /\ r.e.lines = t.lines /\ r.e.band_number = t.band_number + 1
    <3>1. flush_band(t, f).rc = "OK"
      BY <2>1, <2>4
    <3>2. LET x == flush_band(t, f)
          IN  x.e.lines = t.lines /\ x.e.band_number = t.band_number + 1
      BY <1>2, <3>1, FlushOK
    <3>3. Legal(w \o r.sent, r.e) /\ r.e.in_job /\ r.e.in_page
      BY <1>2, <1>3, <1>5, <2>1, <3>1, FlushLegal
    <3> QED
      BY <2>1, <3>2, <3>3
  <2>5. (s.lines + 1) \div BandLines = (s.lines \div BandLines) + 1
    BY <1>1, <1>3, <1>7, NextLine
  <2> QED
    BY <1>3, <2>3, <2>4, <2>5 DEF Numbered
<1> QED
  BY <1>6, <1>7

(* m2022_qpdl_end_page on an open page of at most MaxBand + 1 bands.       *)
LEMMA EndPageLegal ==
  ASSUME NEW w \in Seq(Records), NEW s \in EncoderStates, NEW f \in SinkFates,
         Legal(w, s), s.in_page, Numbered(s),
         s.lines <= (MaxBand + 1) * BandLines,
         NEW r, r = end_page(s, f)
  PROVE  /\ r.rc \in {"OK", "EIO"}
         /\ r.rc = "OK" => Legal(w \o r.sent, r.e) /\ r.e.in_job /\ ~r.e.in_page
<1> DEFINE b == IF s.lines % BandLines # 0 THEN flush_band(s, f)
                ELSE Return(s, "OK", f)
           t == [b.e EXCEPT !.in_page = FALSE, !.pages = @ + 1]
           x == emit(t, EndPage, b.f)
           v == w \o b.sent
<1>1. r = IF b.rc # "OK" THEN b ELSE [x EXCEPT !.sent = b.sent \o x.sent]
  BY DEF end_page
<1>2. b \in Results
  BY FlushType, ReturnType DEF ReturnCodes
<1>3. b.e \in EncoderStates /\ b.f \in SinkFates /\ b.sent \in Seq(Records)
  BY <1>2 DEF Results
<1>4. /\ b.rc \in {"OK", "EIO"}
      /\ b.rc = "OK" => Legal(v, b.e) /\ b.e.in_page /\ b.e.in_job
  <2>1. CASE s.lines % BandLines # 0
    <3>1. b = flush_band(s, f)
      BY <2>1
    <3> HIDE DEF b
    <3>2. s.lines < (MaxBand + 1) * BandLines
      <4>1. ((MaxBand + 1) * BandLines) % BandLines = 0
        BY MultipleMod
      <4>2. s.lines \in Nat /\ (MaxBand + 1) * BandLines \in Nat
        BY DEF EncoderStates
      <4> QED
        BY <2>1, <4>1, <4>2
    <3>3. s.band_number <= MaxBand
      BY <3>2, BandFits DEF EncoderStates, Numbered
    <3>4. b.rc \in {"OK", "EIO"}
      BY <3>1, <3>3, FlushFits
    <3>5. b.rc = "OK" => Legal(w \o b.sent, b.e) /\ b.e.in_page /\ b.e.in_job
      BY <3>1, FlushLegal
    <3> QED
      BY <3>4, <3>5
  <2>2. CASE s.lines % BandLines = 0
    <3>1. b.e = s /\ b.rc = "OK" /\ b.sent = << >>
      BY <2>2 DEF Return
    <3>2. v = w
      BY <3>1, ConcatEmptySeq
    <3> HIDE DEF b, v
    <3> QED
      BY <3>1, <3>2 DEF Legal
  <2> QED
    BY <2>1, <2>2
<1>5. v \in Seq(Records)
  <2> HIDE DEF b
  <2> QED
    BY <1>3, ConcatProperties
<1>9. x = emit(t, EndPage, b.f)
  OBVIOUS
<1> HIDE DEF b
<1>6. /\ t \in EncoderStates /\ ~t.in_page /\ t.in_job = b.e.in_job
      /\ t.band_number = b.e.band_number
  <2>1. b.e.pages + 1 \in Nat
    BY <1>3 DEF EncoderStates
  <2> QED
    BY <1>3, <2>1 DEF EncoderStates
<1> HIDE DEF t, x
<1>7. x.e = t /\ x.rc \in {"OK", "EIO"} /\ (x.rc = "OK" => x.sent = <<EndPage>>)
  BY <1>3, <1>6, <1>9, PlainTypes, EmitFacts
<1>8. CASE b.rc # "OK"
  BY <1>1, <1>4, <1>8
<1>10. CASE b.rc = "OK"
  <2>1. EndPage \in Records /\ ~IsBand(EndPage)
    BY PlainTypes
  <2>2. x \in Results
    BY <1>3, <1>6, <1>9, <2>1, EmitType
  <2>3. r.e = t /\ r.rc = x.rc /\ r.sent = b.sent \o x.sent /\ x.sent \in Seq(Records)
    <3>1. r = [x EXCEPT !.sent = b.sent \o x.sent]
      BY <1>1, <1>10
    <3> QED
      BY <1>7, <2>2, <3>1 DEF Results
  <2>4. w \o r.sent = v \o x.sent
    <3> DEFINE p == b.sent
               q == x.sent
    <3>1. p \in Seq(Records) /\ q \in Seq(Records)
      BY <1>3, <2>3
    <3> HIDE DEF p, q
    <3>2. (w \o p) \o q = w \o (p \o q)
      BY <3>1, ConcatAssociative
    <3> QED
      BY <2>3, <3>2 DEF v, p, q
  <2> HIDE DEF v
  <2>5. Legal(v, b.e) /\ b.e.in_page /\ b.e.in_job
    BY <1>4, <1>10
  <2>6. /\ EndPage.t \in LastOf(t) /\ v # << >>
        /\ \A y \in LastOf(b.e) : <<y, EndPage.t>> \in Follows
    BY <1>6, <2>5 DEF LastOf, Follows, EndPage, Legal
  <2>7. Legal(v \o <<EndPage>>, t)
    BY <1>3, <1>5, <1>6, <2>1, <2>5, <2>6, LegalMore
  <2> QED
    BY <1>6, <1>7, <2>3, <2>4, <2>5, <2>7
<1> QED
  BY <1>8, <1>10

(* m2022_qpdl_end_job between pages completes the job.                     *)
LEMMA EndJobLegal ==
  ASSUME NEW w \in Seq(Records), NEW s \in EncoderStates, NEW f \in SinkFates,
         Legal(w, s), s.in_job, ~s.in_page,
         NEW r, r = end_job(s, f)
  PROVE  /\ r.rc \in {"OK", "EIO"}
         /\ r.rc = "OK" => CompleteJob(w \o r.sent)
<1> DEFINE t == [s EXCEPT !.in_job = FALSE]
<1>1. t \in EncoderStates /\ ~t.in_job /\ ~t.in_page
  BY DEF EncoderStates
<1>2. r = emit(t, EndJob, f)
  BY DEF end_job
<1> HIDE DEF t
<1>3. r.e = t /\ r.rc \in {"OK", "EIO"} /\ (r.rc = "OK" => r.sent = <<EndJob>>)
  BY <1>1, <1>2, PlainTypes, EmitFacts
<1>4. EndJob \in Records /\ ~IsBand(EndJob) /\ w # << >>
  BY PlainTypes DEF Legal
<1>5. /\ EndJob.t \in LastOf(t)
      /\ \A y \in LastOf(s) : <<y, EndJob.t>> \in Follows
  BY <1>1 DEF LastOf, Follows, EndJob
<1>6. Legal(w \o <<EndJob>>, t)
  BY <1>1, <1>4, <1>5, LegalMore
<1>7. /\ Len(w \o <<EndJob>>) = Len(w) + 1 /\ Len(w) \in Nat
      /\ (w \o <<EndJob>>)[Len(w) + 1] = EndJob
  BY <1>4, OneMore
<1>8. CompleteJob(w \o <<EndJob>>)
  BY <1>6, <1>7 DEF Legal, CompleteJob, EndJob
<1> QED
  BY <1>3, <1>8
-----------------------------------------------------------------------------
(* A reader that follows the encoder                                       *)

(* Every line of a page lies in a slot of one of its bands.                *)
LEMMA PageLinesFacts ==
  ASSUME NEW n \in PageLines
  PROVE n \in Nat /\ n \div BandLines \in Bands /\ n % BandLines \in Slots
<1>1. n \in Nat /\ n < BandLines * MaxBand + BandLines
  BY DEF PageLines
<1>2. /\ n \div BandLines \in Nat /\ n % BandLines \in 0 .. (BandLines - 1)
      /\ n \div BandLines > MaxBand => n >= BandLines * MaxBand + BandLines
  BY <1>1, DivFacts
<1>3. BandLines * MaxBand \in Nat
  OBVIOUS
<1>4. ~ (n \div BandLines > MaxBand)
  BY <1>1, <1>2, <1>3
<1> QED
  BY <1>1, <1>2, <1>4 DEF Bands, Slots

(* Putting rows into band q of a page that shows the lines above it makes  *)
(* the page show those rows as well.                                       *)
LEMMA FlushPaints ==
  ASSUME NEW q \in Bands, NEW k \in 0 .. BandLines, NEW p \in Seq(Ink),
         NEW page \in [Bands -> [Slots -> Line]], NEW rows \in [Slots -> Line],
         Painted(page, p, BandLines * q),
         \A i \in Slots :
           rows[i] = [px |-> IF i < k THEN p[BandLines * q + i + 1] ELSE White,
                      spill |-> FALSE]
  PROVE  Painted([page EXCEPT ![q] = rows], p, BandLines * q + k)
<1> DEFINE after == [page EXCEPT ![q] = rows]
           base == BandLines * q
<1> SUFFICES ASSUME NEW n \in PageLines
             PROVE  ShownLine(after, n) =
                      [px |-> IF n < base + k THEN p[n + 1] ELSE White,
                       spill |-> FALSE]
  BY DEF Painted
<1> DEFINE b == n \div BandLines
           i == n % BandLines
<1>1. /\ n \in Nat /\ b \in Bands /\ i \in Slots
  BY PageLinesFacts
<1>2. base \in Nat /\ q \in Nat
  BY DEF Bands
<1>3. /\ b = q => n = base + i
      /\ b < q => n < base
      /\ b > q => n >= base + BandLines
  BY <1>1, <1>2, DivFacts
<1>4. ShownLine(after, n) = IF b = q THEN rows[i] ELSE page[b][i]
  BY <1>1 DEF ShownLine
<1>5. page[b][i] = [px |-> IF n < base THEN p[n + 1] ELSE White,
                    spill |-> FALSE]
  BY DEF Painted, ShownLine
<1> HIDE DEF b, i, base, after
<1>6. CASE b = q
  <2>1. n = base + i /\ (i < k <=> n < base + k)
    BY <1>1, <1>2, <1>3, <1>6 DEF Slots
  <2>2. rows[i] = [px |-> IF i < k THEN p[base + i + 1] ELSE White,
                   spill |-> FALSE]
    BY <1>1 DEF base
  <2> QED
    BY <1>4, <1>6, <2>1, <2>2
<1>7. CASE b # q
  <2>1. b \in Int /\ q \in Int
    BY <1>1 DEF Bands
  <2>2. n < base \/ n >= base + BandLines
    BY <1>3, <1>7, <2>1
  <2>3. n < base <=> n < base + k
    BY <1>1, <1>2, <2>2
  <2> QED
    BY <1>4, <1>5, <1>7, <2>3
<1> QED
  BY <1>6, <1>7

(* A reader that holds the lines above band s.band_number holds those of   *)
(* the band too once the flush is on the wire, whether a record was sent   *)
(* or the band was skipped as blank.                                       *)
LEMMA FlushFollowed ==
  ASSUME NEW s \in EncoderStates, NEW f \in SinkFates, NEW q \in DecoderStates,
         NEW p \in Seq(Ink), NEW k \in 0 .. BandLines,
         flush_band(s, f).rc = "OK", q.walk = "records",
         Painted(q.page_rows, p, BandLines * s.band_number),
         \A i \in Slots :
           s.rows[i] = [px |-> IF i < k THEN p[BandLines * s.band_number + i + 1]
                               ELSE White,
                        spill |-> FALSE],
         \A b \in Bands : b >= s.band_number \/ b > q.max_band
                            => q.page_rows[b] = BlankRows
  PROVE  LET c == walk(q, flush_band(s, f).sent)
         IN  /\ c.walk = "records" /\ c.shown = q.shown
             /\ Painted(c.page_rows, p, BandLines * s.band_number + k)
             /\ \A b \in Bands : b >= s.band_number + 1 \/ b > c.max_band
                                => c.page_rows[b] = BlankRows
<1> DEFINE n == s.band_number
           r == flush_band(s, f)
           c == walk(q, r.sent)
           rec == BandRecord(n, s.rows)
<1>1. /\ n \in Bands /\ s.rows \in [Slots -> Line]
      /\ r.sent = IF s.rows = BlankRows THEN << >> ELSE <<rec>>
  BY FlushOK DEF EncoderStates, Bands
<1>2. q.page_rows \in [Bands -> [Slots -> Line]] /\ q.max_band \in -1 .. MaxBand
  BY DEF DecoderStates
<1>3. Painted([q.page_rows EXCEPT ![n] = s.rows], p, BandLines * n + k)
  BY <1>1, <1>2, FlushPaints
<1>4. CASE s.rows = BlankRows
  <2>1. c = q
    BY <1>1, <1>4, WalkShort
  <2>2. q.page_rows[n] = s.rows
    BY <1>1, <1>4 DEF Bands
  <2>3. [q.page_rows EXCEPT ![n] = s.rows] = q.page_rows
    BY <1>2, <2>2
  <2>4. \A b \in Bands : b >= n + 1 => b >= n
    BY <1>1 DEF Bands
  <2> QED
    BY <1>3, <2>1, <2>3, <2>4
<1>5. CASE s.rows # BlankRows
  <2>1. c = visit(q, rec)
    BY <1>1, <1>5, WalkShort
  <2>2. rec.t = "band" /\ rec.number = n /\ rec.rows = s.rows
    BY DEF BandRecord
  <2>3. c = on_band(q, rec)
    BY <2>1, <2>2 DEF visit
  <2>4. /\ c.page_rows = [q.page_rows EXCEPT ![n] = s.rows]
        /\ c.max_band = IF n > q.max_band THEN n ELSE q.max_band
        /\ c.walk = "records" /\ c.shown = q.shown
    BY <2>2, <2>3 DEF on_band, DecoderStates
  <2>5. ASSUME NEW b \in Bands, b >= n + 1 \/ b > c.max_band
        PROVE  c.page_rows[b] = BlankRows
    <3>1. b # n /\ (b >= n \/ b > q.max_band)
      BY <1>1, <1>2, <2>4, <2>5 DEF Bands
    <3>2. c.page_rows[b] = q.page_rows[b]
      BY <1>2, <2>4, <3>1
    <3> QED
      BY <3>1, <3>2
  <2> QED
    BY <1>3, <2>4, <2>5
<1> QED
  BY <1>4, <1>5

(* At the end of a page the reader shows all it assembled and starts the   *)
(* next page white.                                                        *)
LEMMA EndPageShown ==
  ASSUME NEW q \in DecoderStates, q.walk = "records",
         \A b \in Bands : b > q.max_band => q.page_rows[b] = BlankRows
  PROVE  /\ visit(q, EndPage).shown = Append(q.shown, q.page_rows)
         /\ visit(q, EndPage).page_rows = BlankPage
         /\ visit(q, EndPage).walk = "records"
<1>1. visit(q, EndPage) = on_end_page(q)
  BY DEF visit, EndPage
<1>2. q.page_rows \in [Bands -> [Slots -> Line]] /\ q.max_band \in -1 .. MaxBand
  BY DEF DecoderStates
<1>3. CASE q.max_band < 0
  <2>1. \A b \in Bands : q.page_rows[b] = BlankRows
    BY <1>2, <1>3 DEF Bands
  <2>2. q.page_rows = BlankPage
    BY <1>2, <2>1 DEF BlankPage
  <2> QED
    BY <1>1, <1>3, <2>2 DEF on_end_page, DecoderStates
<1>4. CASE ~ (q.max_band < 0)
  <2> DEFINE cut == [b \in Bands |->
                       IF b <= q.max_band THEN q.page_rows[b] ELSE BlankRows]
  <2>1. \A b \in Bands : cut[b] = q.page_rows[b]
    BY <1>2 DEF Bands
  <2>2. cut = q.page_rows
    BY <1>2, <2>1
  <2>3. on_end_page(q) = [q EXCEPT !.shown = Append(@, cut),
                                   !.page_rows = BlankPage]
    BY <1>4 DEF on_end_page
  <2> HIDE DEF cut
  <2> QED
    BY <1>1, <2>2, <2>3 DEF DecoderStates
<1> QED
  BY <1>3, <1>4

(* A longer picture with the same first lines paints the same.             *)
LEMMA PaintedLonger ==
  ASSUME NEW page, NEW p \in Seq(Ink), NEW ink \in Ink, NEW m \in 0 .. Len(p),
         Painted(page, p, m)
  PROVE  Painted(page, Append(p, ink), m)
<1> SUFFICES ASSUME NEW n \in PageLines
             PROVE  n < m => Append(p, ink)[n + 1] = p[n + 1]
  BY DEF Painted
<1>1. n \in Nat
  BY PageLinesFacts
<1> QED
  BY <1>1

(* Where the lines of a page being drawn are.                              *)
LEMMA DrawingFacts ==
  ASSUME NEW s \in EncoderStates, NEW q, NEW p \in Seq(Ink), Drawing(s, q, p)
  PROVE  /\ s.lines \in Nat /\ s.band_number \in Nat
         /\ Filled(s) \in Slots /\ Base(s) = BandLines * s.band_number
         /\ s.lines = Base(s) + Filled(s) /\ Base(s) \in 0 .. Len(p)
<1>1. s.lines \in Nat /\ s.band_number \in Nat
  BY DEF EncoderStates
<1>2. /\ s.lines % BandLines \in Slots
      /\ s.lines = BandLines * (s.lines \div BandLines) + (s.lines % BandLines)
  BY <1>1, DivFacts DEF Slots
<1>3. BandLines * s.band_number \in Nat
  BY <1>1
<1>4. Filled(s) \in Nat /\ Base(s) \in Int
  BY <1>1, <1>2 DEF Filled, Base, Slots
<1>5. Base(s) = BandLines * s.band_number
  BY <1>1, <1>2, <1>3 DEF Filled, Base, Drawing, Slots
<1>6. s.lines = Base(s) + Filled(s)
  BY <1>1, <1>4 DEF Base
<1>7. Base(s) \in 0 .. Len(p)
  BY <1>1, <1>3, <1>4, <1>5, <1>6 DEF Drawing
<1> QED
  BY <1>1, <1>2, <1>5, <1>6, <1>7 DEF Filled

(* A page painted with the whole picture shows it.                         *)
LEMMA PaintedShows ==
  ASSUME NEW page, NEW p, Painted(page, p, Len(p))
  PROVE  Shows(page, p)
  BY DEF Painted, Shows, LineOf

(* The last band of a page, and the reader after it: all lines assembled.  *)
LEMMA LastBandFollowed ==
  ASSUME NEW s \in EncoderStates, NEW q \in DecoderStates, NEW p \in Seq(Ink),
         Drawing(s, q, p), q.walk = "records", NEW f \in SinkFates,
         NEW b, b = IF s.lines % BandLines # 0 THEN flush_band(s, f)
                    ELSE Return(s, "OK", f),
         b.rc = "OK"
  PROVE  /\ walk(q, b.sent).walk = "records"
         /\ walk(q, b.sent).shown = q.shown
         /\ Painted(walk(q, b.sent).page_rows, p, Len(p))
         /\ \A n \in Bands : n > walk(q, b.sent).max_band
                               => walk(q, b.sent).page_rows[n] = BlankRows
         /\ walk(q, b.sent) \in DecoderStates
         /\ b.e.in_job /\ b.e \in EncoderStates /\ b.f \in SinkFates
         /\ \A x : walk(q, b.sent \o <<x>>) = visit(walk(q, b.sent), x)
         /\ Len(b.sent) <= 1
<1>1. /\ s.lines \in Nat /\ s.band_number \in Nat /\ Filled(s) \in Slots
      /\ Base(s) = BandLines * s.band_number /\ s.lines = Base(s) + Filled(s)
      /\ Len(p) = s.lines
  BY DrawingFacts DEF Drawing
<1>2. Filled(s) \in Nat /\ Base(s) \in Nat /\ Filled(s) \in 0 .. BandLines
  BY <1>1 DEF Slots
<1>3. s \in EncoderStates /\ q \in DecoderStates /\ p \in Seq(Ink)
  OBVIOUS
<1>4. b \in Results
  BY <1>3, FlushType, ReturnType DEF ReturnCodes
<1>5. b.e \in EncoderStates /\ b.f \in SinkFates /\ b.sent \in Seq(Records)
  BY <1>4 DEF Results
<1>6. walk(q, b.sent) \in DecoderStates
  BY <1>3, <1>5, WalkType
<1>7. CASE s.lines % BandLines # 0
  <2>1. b = flush_band(s, f)
    BY <1>7
  <2>2. \A i \in Slots :
          s.rows[i] = [px |-> IF i < Filled(s)
                              THEN p[BandLines * s.band_number + i + 1]
                              ELSE White,
                       spill |-> FALSE]
    BY <1>1 DEF Drawing
  <2>3. /\ Painted(q.page_rows, p, BandLines * s.band_number)
        /\ \A n \in Bands : n >= s.band_number \/ n > q.max_band
                              => q.page_rows[n] = BlankRows
    BY <1>1 DEF Drawing
  <2>4. LET c == walk(q, flush_band(s, f).sent)
        IN  /\ c.walk = "records" /\ c.shown = q.shown
            /\ Painted(c.page_rows, p, BandLines * s.band_number + Filled(s))
            /\ \A n \in Bands : n >= s.band_number + 1 \/ n > c.max_band
                               => c.page_rows[n] = BlankRows
    BY <1>2, <1>3, <2>1, <2>2, <2>3, FlushFollowed
  <2>5. BandLines * s.band_number + Filled(s) = Len(p)
    BY <1>1
  <2>6. /\ b.sent = IF s.rows = BlankRows THEN << >>
                    ELSE <<BandRecord(s.band_number, s.rows)>>
        /\ b.e.in_job = s.in_job
    BY <1>3, <2>1, FlushOK
  <2>7. \A x : walk(q, b.sent \o <<x>>) = visit(walk(q, b.sent), x)
    <3> DEFINE rec == BandRecord(s.band_number, s.rows)
    <3> HIDE DEF rec
    <3>1. ASSUME NEW x
          PROVE  /\ walk(q, << >> \o <<x>>) = visit(q, x)
                 /\ walk(q, <<rec>> \o <<x>>) = visit(visit(q, rec), x)
      <4>1. walk(q, << >> \o <<x>>) = visit(q, x)
        BY WalkShort
      <4>2. walk(q, <<rec>> \o <<x>>) = visit(visit(q, rec), x)
        BY WalkShort
      <4> QED
        BY <4>1, <4>2
    <3>2. walk(q, << >>) = q /\ walk(q, <<rec>>) = visit(q, rec)
      BY WalkShort
    <3>3. b.sent = << >> \/ b.sent = <<rec>>
      BY <2>6 DEF rec
    <3> QED
      BY <3>1, <3>2, <3>3
  <2>8. Len(b.sent) <= 1
    <3> DEFINE one == <<BandRecord(s.band_number, s.rows)>>
    <3>1. Len(one) <= 1 /\ Len(<< >>) <= 1
      OBVIOUS
    <3>2. b.sent = << >> \/ b.sent = one
      BY <2>6
    <3> HIDE DEF one
    <3> QED
      BY <3>1, <3>2, Zenon
  <2> QED
    BY <1>5, <1>6, <2>1, <2>4, <2>5, <2>6, <2>7, <2>8 DEF Drawing
<1>8. CASE s.lines % BandLines = 0
  <2>1. b = Return(s, "OK", f)
    BY <1>8
  <2>2. b.sent = << >> /\ b.e = s
    BY <2>1 DEF Return
  <2>3. walk(q, b.sent) = q
    BY <2>2, WalkShort
  <2>4. ASSUME NEW x
        PROVE  walk(q, b.sent \o <<x>>) = visit(q, x)
    <3>1. walk(q, << >> \o <<x>>) = visit(q, x)
      BY WalkShort
    <3>2. b.sent = << >>
      BY <2>2
    <3> QED
      BY <3>1, <3>2
  <2>5. Base(s) = Len(p)
    BY <1>1, <1>2, <1>8 DEF Filled
  <2>6. Len(b.sent) <= 1
    BY <2>2
  <2> QED
    BY <1>5, <1>6, <2>2, <2>3, <2>4, <2>5, <2>6 DEF Drawing
<1> QED
  BY <1>7, <1>8
-----------------------------------------------------------------------------
(* The calls that return OK, and the reader after what they wrote: it is   *)
(* where the encoder is.                                                   *)

LEMMA BeginJobFollowed ==
  ASSUME NEW s, NEW valid, NEW f \in SinkFates,
         NEW r, r = begin_job(s, valid, f), r.rc = "OK"
  PROVE  LET c == walk(ClearedDecoder, r.sent)
         IN  /\ c.walk = "records" /\ c.page_rows = BlankPage /\ c.shown = << >>
             /\ Len(r.sent) <= 2
<1> DEFINE opened == [ClearedEncoder EXCEPT !.in_job = TRUE]
<1>1. r = emit(opened, Envelope, f)
  BY DEF begin_job, Return
<1> DEFINE m == emit(opened, Envelope, f)
           one == <<Envelope>>
<1> HIDE DEF one
<1>2. r.sent = one
  <2>1. m.rc = "OK"
    BY <1>1
  <2>2. m.sent = <<Envelope>>
    BY <2>1 DEF emit
  <2> QED
    BY <1>1, <2>2 DEF one
<1>3. walk(ClearedDecoder, r.sent) = [ClearedDecoder EXCEPT !.walk = "records"]
  <2>1. walk(ClearedDecoder, r.sent) = visit(ClearedDecoder, Envelope)
    BY <1>2, WalkShort DEF one
  <2>2. ClearedDecoder.walk = "pjl" /\ Envelope.t = "envelope"
    BY DEF ClearedDecoder, Envelope
  <2> QED
    BY <2>1, <2>2 DEF visit
<1>4. Len(r.sent) <= 2
  <2>1. Len(one) <= 2
    BY DEF one
  <2> QED
    BY <1>2, <2>1, Zenon
<1>5. /\ walk(ClearedDecoder, r.sent).walk = "records"
      /\ walk(ClearedDecoder, r.sent).page_rows = BlankPage
      /\ walk(ClearedDecoder, r.sent).shown = << >>
  BY <1>3 DEF ClearedDecoder
<1> QED
  BY <1>4, <1>5

LEMMA BeginPageFollowed ==
  ASSUME NEW s \in EncoderStates, NEW f \in SinkFates, NEW q \in DecoderStates,
         NEW width, NEW room, NEW r, r = begin_page(s, width, room, f), r.rc = "OK",
         q.walk = "records", q.page_rows = BlankPage
  PROVE  LET c == walk(q, r.sent)
         IN  /\ c.walk = "records" /\ c.shown = q.shown
             /\ Drawing(r.e, c, << >>)
             /\ Len(r.sent) <= 2
<1> DEFINE opened == [s EXCEPT !.rows = BlankRows, !.lines = 0, !.band_number = 0,
                               !.in_page = TRUE]
           c == walk(q, r.sent)
<1>1. s.in_job /\ r = emit(opened, PageHeader, f)
  BY DEF begin_page, Return
<1>2. r.e = opened /\ r.sent = <<PageHeader>>
  BY <1>1 DEF emit
<1>3. c = on_page(q)
  <2>1. c = visit(q, PageHeader)
    BY <1>2, WalkShort
  <2>2. PageHeader.t = "page"
    BY DEF PageHeader
  <2> QED
    BY <2>1, <2>2 DEF visit
<1>4. c.walk = "records" /\ c.page_rows = BlankPage /\ c.shown = q.shown
  BY <1>3 DEF on_page, DecoderStates
<1>5. /\ r.e.in_job /\ r.e.lines = 0 /\ r.e.band_number = 0 /\ r.e.rows = BlankRows
  BY <1>1, <1>2 DEF EncoderStates
<1> HIDE DEF c
<1>6. Drawing(r.e, c, << >>)
  <2>1. 0 % BandLines = 0 /\ 0 \div BandLines = 0 /\ 0 <= MaxBand + 1
    OBVIOUS
  <2>2. Filled(r.e) = 0 /\ Base(r.e) = 0
    BY <1>5, <2>1 DEF Filled, Base
  <2>3. \A i \in Slots : BlankRows[i] = [px |-> White, spill |-> FALSE] /\ ~(i < 0)
    BY DEF BlankRows, WhiteRow, Slots
  <2>4. \A b \in Bands : BlankPage[b] = BlankRows
    BY DEF BlankPage
  <2>5. ASSUME NEW n \in PageLines
        PROVE  ShownLine(BlankPage, n) = [px |-> White, spill |-> FALSE] /\ ~(n < 0)
    <3>1. n \in Nat /\ n \div BandLines \in Bands /\ n % BandLines \in Slots
      BY PageLinesFacts
    <3>2. BlankPage[n \div BandLines][n % BandLines] = [px |-> White, spill |-> FALSE]
      BY <2>3, <2>4, <3>1
    <3> QED
      BY <3>1, <3>2 DEF ShownLine
  <2>6. Len(<< >>) = 0
    OBVIOUS
  <2> QED
    BY <1>4, <1>5, <2>1, <2>2, <2>3, <2>4, <2>5, <2>6 DEF Drawing, Painted
<1> QED
  BY <1>2, <1>4, <1>6 DEF c

LEMMA WriteLineFollowed ==
  ASSUME NEW s \in EncoderStates, NEW f \in SinkFates, NEW q \in DecoderStates,
         NEW p \in Seq(Ink), NEW line \in Line,
         NEW r, r = write_line(s, line, f), r.rc = "OK",
         q.walk = "records", Drawing(s, q, p)
  PROVE  LET c == walk(q, r.sent)
         IN  /\ c.walk = "records" /\ c.shown = q.shown
             /\ Drawing(r.e, c, Append(p, line.px))
             /\ r.e.in_page = s.in_page
             /\ Len(r.sent) <= 2
<1> DEFINE n == s.lines
           m == s.band_number
           k == Filled(s)
           base == Base(s)
           new == Append(p, line.px)
           t == [s EXCEPT !.rows[n % BandLines] = StoredRow(line), !.lines = @ + 1]
           c == walk(q, r.sent)
<1>1. /\ n \in Nat /\ m \in Nat /\ k \in Slots /\ base = BandLines * m
      /\ n = base + k /\ base \in 0 .. Len(p) /\ n = Len(p)
  BY DrawingFacts DEF Drawing
<1>2. k \in Nat /\ base \in Nat /\ n = base + k
  BY <1>1 DEF Slots
<1>3. /\ t.in_job = s.in_job /\ t.in_page = s.in_page /\ t.lines = n + 1
      /\ t.band_number = m
      /\ \A i \in Slots : t.rows[i] = IF i = k THEN StoredRow(line) ELSE s.rows[i]
  BY <1>1 DEF EncoderStates, Filled
<1>4. /\ new \in Seq(Ink) /\ Len(new) = n + 1 /\ new[n + 1] = line.px
      /\ \A i \in 1 .. n : new[i] = p[i]
  BY <1>1 DEF Line
<1>5. r = IF t.lines % BandLines = 0 THEN flush_band(t, f) ELSE Return(t, "OK", f)
  BY DEF write_line, Return
<1>6. t \in EncoderStates
  <2>1. n + 1 \in Nat /\ StoredRow(line) \in Line
    BY <1>1, StoredRowType
  <2>2. [s.rows EXCEPT ![n % BandLines] = StoredRow(line)] \in [Slots -> Line]
    BY <2>1 DEF EncoderStates
  <2> QED
    BY <2>1, <2>2 DEF EncoderStates
<1>7. \A i \in Slots :
        t.rows[i] = [px |-> IF i < k + 1 THEN new[BandLines * m + i + 1] ELSE White,
                     spill |-> FALSE]
  <2> SUFFICES ASSUME NEW i \in Slots
               PROVE  t.rows[i] = [px |-> IF i < k + 1 THEN new[base + i + 1] ELSE White,
                                   spill |-> FALSE]
    BY <1>1
  <2>1. i \in Nat
    BY DEF Slots
  <2>2. CASE i = k
    <3>1. base + i + 1 = n + 1 /\ i < k + 1
      BY <1>2, <2>1, <2>2
    <3> QED
      BY <1>3, <1>4, <2>2, <3>1 DEF StoredRow
  <2>3. CASE i # k
    <3>1. (i < k + 1 <=> i < k) /\ (i < k => base + i + 1 \in 1 .. n)
      BY <1>2, <2>1, <2>3
    <3>2. s.rows[i] = [px |-> IF i < k THEN p[base + i + 1] ELSE White, spill |-> FALSE]
      BY DEF Drawing
    <3> QED
      BY <1>3, <1>4, <2>3, <3>1, <3>2
  <2> QED
    BY <2>2, <2>3
<1>8. Painted(q.page_rows, new, BandLines * m)
  <2>1. line.px \in Ink
    BY DEF Line
  <2>2. Painted(q.page_rows, p, base)
    BY DEF Drawing
  <2> QED
    BY <1>1, <2>1, <2>2, PaintedLonger
<1>9. s.in_job /\ \A b \in Bands : b >= m \/ b > q.max_band => q.page_rows[b] = BlankRows
  BY DEF Drawing
<1>10. n \div BandLines = m /\ n % BandLines = k
  BY DEF Drawing, Filled
<1> HIDE DEF new, t
<1>11. CASE (n + 1) % BandLines # 0
  <2>1. r = Return(t, "OK", f)
    BY <1>3, <1>5, <1>11
  <2>2. r.e = t /\ r.sent = << >> /\ c = q
    <3>1. r.e = t /\ r.sent = << >>
      BY <2>1 DEF Return
    <3> QED
      BY <3>1, WalkShort
  <2>3. (n + 1) % BandLines = k + 1 /\ (n + 1) \div BandLines = m
    BY <1>1, <1>10, <1>11, NextLine
  <2>4. Filled(t) = k + 1 /\ Base(t) = BandLines * m
    <3>1. Filled(t) = k + 1
      BY <1>3, <2>3 DEF Filled
    <3>2. Base(t) = (n + 1) - Filled(t)
      BY <1>3 DEF Base
    <3>3. Base(t) = base
      <4> HIDE DEF base, n, k
      <4> QED
        BY <1>2, <3>1, <3>2
    <3> QED
      BY <1>1, <3>1, <3>3
  <2>5. Drawing(t, q, new)
    <3>1. /\ t.in_job /\ t.lines = Len(new) /\ t.band_number = t.lines \div BandLines
          /\ t.band_number <= MaxBand + 1
      BY <1>3, <1>4, <1>9, <2>3 DEF Drawing
    <3> QED
      BY <1>3, <1>7, <1>8, <1>9, <2>4, <3>1 DEF Drawing
  <2>6. r.e.in_page = s.in_page /\ Len(r.sent) <= 2
    BY <1>3, <2>2
  <2> QED
    BY <2>2, <2>5, <2>6 DEF new
<1>12. CASE (n + 1) % BandLines = 0
  <2>1. r = flush_band(t, f)
    BY <1>3, <1>5, <1>12
  <2>2. k + 1 = BandLines /\ (n + 1) \div BandLines = m + 1
    <3>1. n % BandLines = BandLines - 1 /\ (n + 1) \div BandLines = (n \div BandLines) + 1
      BY <1>1, <1>12, NextLine
    <3>2. BandLines - 1 + 1 = BandLines
      OBVIOUS
    <3> QED
      BY <1>10, <3>1, <3>2
  <2>3. /\ m <= MaxBand
        /\ r.e.in_job = t.in_job /\ r.e.in_page = t.in_page
        /\ r.e.lines = n + 1 /\ r.e.band_number = m + 1 /\ r.e.rows = BlankRows
        /\ Len(r.sent) <= 2
    <3>1. /\ t.band_number <= MaxBand
          /\ r.sent = IF t.rows = BlankRows THEN << >> ELSE <<BandRecord(t.band_number, t.rows)>>
          /\ r.e.in_job = t.in_job /\ r.e.in_page = t.in_page
          /\ r.e.lines = t.lines /\ r.e.band_number = t.band_number + 1
          /\ r.e.rows = BlankRows
      BY <1>6, <2>1, FlushOK
    <3> QED
      BY <1>3, <3>1
  <2>4. /\ c.walk = "records" /\ c.shown = q.shown
        /\ Painted(c.page_rows, new, BandLines * m + BandLines)
        /\ \A b \in Bands : b >= m + 1 \/ b > c.max_band => c.page_rows[b] = BlankRows
    <3>1. \A i \in Slots :
            t.rows[i] = [px |-> IF i < BandLines
                                THEN new[BandLines * t.band_number + i + 1] ELSE White,
                         spill |-> FALSE]
      BY <1>3, <1>7, <2>2
    <3>2. /\ Painted(q.page_rows, new, BandLines * t.band_number)
          /\ \A b \in Bands : b >= t.band_number \/ b > q.max_band
                                => q.page_rows[b] = BlankRows
      BY <1>3, <1>8, <1>9
    <3>3. BandLines \in 0 .. BandLines /\ flush_band(t, f).rc = "OK"
      BY <2>1
    <3>4. LET u == walk(q, flush_band(t, f).sent)
          IN  /\ u.walk = "records" /\ u.shown = q.shown
              /\ Painted(u.page_rows, new, BandLines * t.band_number + BandLines)
              /\ \A b \in Bands : b >= t.band_number + 1 \/ b > u.max_band
                                 => u.page_rows[b] = BlankRows
      BY <1>4, <1>6, <3>1, <3>2, <3>3, FlushFollowed
    <3> QED
      BY <1>3, <2>1, <3>4
  <2> HIDE DEF c
  <2>5. Filled(r.e) = 0 /\ Base(r.e) = BandLines * m + BandLines
    <3>1. Filled(r.e) = 0
      BY <1>12, <2>3 DEF Filled
    <3>2. Base(r.e) = n + 1
      BY <1>1, <2>3, <3>1 DEF Base
    <3>3. Base(r.e) = base + BandLines
      <4> HIDE DEF base, n, k
      <4> QED
        BY <1>2, <2>2, <3>2
    <3> QED
      BY <1>1, <3>1, <3>3
  <2>6. Drawing(r.e, c, new)
    <3>1. /\ r.e.in_job /\ r.e.lines = Len(new)
          /\ r.e.band_number = r.e.lines \div BandLines /\ r.e.band_number <= MaxBand + 1
      BY <1>1, <1>3, <1>4, <1>9, <2>2, <2>3
    <3>2. \A i \in Slots : ~(i < 0) /\ BlankRows[i] = [px |-> White, spill |-> FALSE]
      BY DEF Slots, BlankRows, WhiteRow
    <3> QED
      BY <2>3, <2>4, <2>5, <3>1, <3>2 DEF Drawing
  <2> QED
    BY <1>3, <2>3, <2>4, <2>6 DEF c, new
<1> QED
  BY <1>11, <1>12

LEMMA EndPageFollowed ==
  ASSUME NEW s \in EncoderStates, NEW f \in SinkFates, NEW q \in DecoderStates,
         NEW p \in Seq(Ink), NEW r, r = end_page(s, f), r.rc = "OK",
         q.walk = "records", Drawing(s, q, p)
  PROVE  LET c == walk(q, r.sent)
         IN  /\ c.walk = "records" /\ c.page_rows = BlankPage
             /\ \E page \in [Bands -> [Slots -> Line]] :
                  Shows(page, p) /\ c.shown = Append(q.shown, page)
             /\ r.e.in_job /\ ~r.e.in_page
             /\ Len(r.sent) <= 2
<1> DEFINE b == IF s.lines % BandLines # 0 THEN flush_band(s, f) ELSE Return(s, "OK", f)
           closed == [b.e EXCEPT !.in_page = FALSE, !.pages = @ + 1]
           m == emit(closed, EndPage, b.f)
           c == walk(q, b.sent)
<1>1. r = IF b.rc # "OK" THEN b ELSE [m EXCEPT !.sent = b.sent \o m.sent]
  BY DEF end_page, Return
<1>2. b.rc = "OK"
  BY <1>1
<1>3. /\ c.walk = "records" /\ c.shown = q.shown
      /\ Painted(c.page_rows, p, Len(p))
      /\ \A n \in Bands : n > c.max_band => c.page_rows[n] = BlankRows
      /\ c \in DecoderStates
      /\ b.e.in_job /\ b.e \in EncoderStates /\ b.f \in SinkFates
      /\ \A x : walk(q, b.sent \o <<x>>) = visit(c, x)
      /\ Len(b.sent) <= 1
  BY <1>2, LastBandFollowed
<1>4. b.sent \in Seq(Records)
  <2>1. b \in Results
    BY FlushType, ReturnType DEF ReturnCodes
  <2> QED
    BY <2>1 DEF Results
<1> HIDE DEF b
<1>5. r = [m EXCEPT !.sent = b.sent \o m.sent]
  BY <1>1, <1>2
<1>6. m.rc = "OK"
  BY <1>5 DEF emit
<1>7. m.e = closed /\ m.sent = <<EndPage>>
  BY <1>6 DEF emit
<1>8. r.e = closed /\ r.sent = b.sent \o <<EndPage>>
  BY <1>5, <1>7 DEF emit
<1>9. r.e.in_job /\ ~r.e.in_page
  BY <1>3, <1>8 DEF EncoderStates
<1>10. Len(r.sent) <= 2
  <2> DEFINE a == b.sent
             x == EndPage
  <2>1. a \in Seq(Records) /\ x \in Records /\ Len(a) <= 1
    BY <1>3, <1>4 DEF Records, PlainRecords
  <2> HIDE DEF a, x
  <2>2. Len(a \o <<x>>) = Len(a) + 1 /\ Len(a) \in Nat
    BY <2>1, OneMore
  <2>3. Len(a \o <<x>>) <= 2
    BY <2>1, <2>2
  <2> QED
    BY <1>8, <2>3 DEF a, x
<1>11. walk(q, r.sent) = visit(c, EndPage)
  BY <1>3, <1>8
<1> HIDE DEF c
<1>12. /\ visit(c, EndPage).shown = Append(q.shown, c.page_rows)
       /\ visit(c, EndPage).page_rows = BlankPage /\ visit(c, EndPage).walk = "records"
  BY <1>3, EndPageShown
<1>13. Shows(c.page_rows, p) /\ c.page_rows \in [Bands -> [Slots -> Line]]
  BY <1>3, PaintedShows DEF DecoderStates
<1> QED
  BY <1>9, <1>10, <1>11, <1>12, <1>13

LEMMA EndJobFollowed ==
  ASSUME NEW s \in EncoderStates, NEW f \in SinkFates, NEW q \in DecoderStates,
         NEW r, r = end_job(s, f), r.rc = "OK", q.walk = "records"
  PROVE  LET c == walk(q, r.sent)
         IN  /\ c.walk = "done" /\ c.shown = q.shown /\ c.page_rows = q.page_rows
             /\ Len(r.sent) <= 2
<1> DEFINE closed == [s EXCEPT !.in_job = FALSE]
<1>1. r = emit(closed, EndJob, f)
  BY DEF end_job, Return
<1>2. r.sent = <<EndJob>>
  BY <1>1 DEF emit
<1>3. walk(q, r.sent) = [q EXCEPT !.walk = "done"]
  <2>1. walk(q, r.sent) = visit(q, EndJob)
    BY <1>2, WalkShort
  <2>2. EndJob.t = "end_job"
    BY DEF EndJob
  <2> QED
    BY <2>1, <2>2 DEF visit
<1> QED
  BY <1>2, <1>3 DEF DecoderStates
=============================================================================
