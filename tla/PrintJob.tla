------------------------------- MODULE PrintJob ------------------------------
(***************************************************************************)
(* A raster job in the server: the callbacks of src/app/app.c between      *)
(* PAPPL, which drives them, and the encoder, which writes to PAPPL's      *)
(* device.                                                                 *)
(*                                                                         *)
(* PAPPL is not part of the repository.  It is modelled by what app.c      *)
(* relies on: the callbacks come in the order start job, pages of lines,   *)
(* end job; a job can be cancelled between any two of them, in the middle  *)
(* of a page too; PAPPL may stop or go on after a callback returned false. *)
(* papplDeviceWrite may buffer, papplDeviceFlush writes out the buffer and *)
(* cannot report a failure.                                                *)
(***************************************************************************)
EXTENDS QpdlEncoder, QpdlWalk, JobMap, SequencesExt

CONSTANTS
  Printable,   \* lines of the imageable area of the job's medium
  Margin,      \* lines above it that the engine cannot print
  Rasters,     \* bound: the heights of the rasters clients send
  MaxPages     \* bound: pages PAPPL starts in one job

ASSUME PrintJobAssumption ==
  /\ Printable \in 1 .. ((MaxBand + 1) * BandLines)
  /\ Margin \in Nat /\ Rasters \subseteq Nat \ {0} /\ MaxPages \in Nat

VARIABLES
  at,       \* PAPPL: "idle", "job" between pages, "page", "ended"
  pages,    \* PAPPL: pages started in this job
  sheet,    \* PAPPL: the lines of the current page handed over so far
  left,     \* PAPPL: lines of the current page still to hand over
  j,        \* job_t: allocated, job_open, page_open, the page's geometry
  enc,      \* job_t: the encoder
  buf,      \* the device: records it buffers
  usb,      \* the device: records of this job that the printer received
  book,     \* history: the pages of the job that an end record was sent for
  told,     \* history: a callback of this job returned false
  failed,   \* history: a write to the device failed
  unflushed \* history: the flush at the end of the job failed

vars == <<at, pages, sheet, left, j, enc, buf, usb, book, told, failed,
          unflushed>>

NoJob == [set |-> FALSE, job_open |-> FALSE, page_open |-> FALSE,
          geo |-> geometry(1, Printable, Margin)]

Init ==
  /\ at = "idle" /\ pages = 0 /\ sheet = << >> /\ left = 0
  /\ j = NoJob /\ enc = ClearedEncoder
  /\ buf = << >> /\ usb = << >> /\ book = << >>
  /\ told = FALSE /\ failed = FALSE /\ unflushed = FALSE

(* The page PAPPL is at: the height it announced, the lines it sent.       *)
Page == [h |-> Len(sheet) + left, lines |-> sheet]

(* The device takes the records a call wrote: it keeps them in its buffer, *)
(* or writes the buffer out.  A call that failed did so because the buffer *)
(* could not be written, and what was in it is lost.                       *)
DeviceTakes(rc, sent) ==
  \/ /\ rc # "EIO"
     /\ \/ buf' = buf \o sent /\ UNCHANGED usb
        \/ usb' = usb \o buf \o sent /\ buf' = << >>
     /\ UNCHANGED failed
  \/ /\ rc = "EIO"
     /\ usb' = usb \o sent
     /\ buf' = << >>
     /\ failed' = TRUE

(* cb_rstartjob: the job's data is allocated, the medium is looked up and  *)
(* the encoder's job begun.                                                *)
cb_rstartjob(allocated, known, f) ==
  LET r == IF allocated /\ known THEN begin_job(ClearedEncoder, TRUE, f)
           ELSE Return(ClearedEncoder, "EINVAL", f)
  IN  /\ at = "idle"
      /\ at' = "job" /\ pages' = 0 /\ sheet' = << >> /\ left' = 0
      /\ j' = [NoJob EXCEPT !.set = allocated, !.job_open = (r.rc = "OK")]
      /\ enc' = r.e
      /\ DeviceTakes(r.rc, r.sent)
      /\ told' = (r.rc # "OK")
      /\ UNCHANGED <<book, unflushed>>

(* cb_rstartpage: `usable` is the verdict on pixel format, resolution and  *)
(* memory, h the height of the raster.                                     *)
cb_rstartpage(usable, h, f) ==
  LET refused == ~j.set \/ ~j.job_open \/ ~usable
      r == IF refused THEN Return(enc, "EINVAL", f)
           ELSE begin_page(enc, "ok", TRUE, f)
      ok == r.rc = "OK"
  IN  /\ at = "job" /\ pages < MaxPages
      /\ pages' = pages + 1
      /\ at' = IF ok THEN "page" ELSE "job"
      /\ sheet' = << >> /\ left' = IF ok THEN h ELSE 0
      /\ j' = IF refused THEN j
              ELSE [j EXCEPT !.page_open = ok,
                             !.geo = geometry(h, Printable, Margin)]
      /\ enc' = r.e
      /\ DeviceTakes(r.rc, r.sent)
      /\ told' = (told \/ ~ok)
      /\ UNCHANGED <<book, unflushed>>

(* cb_rwriteline for line y: margins are skipped, the other lines become   *)
(* ink and go to the encoder.                                              *)
cb_rwriteline(ink, f) ==
  LET y == Len(sheet)
      skip == y < j.geo.start \/ y >= j.geo.start + j.geo.size
      r == IF ~j.page_open THEN Return(enc, "ESTATE", f)
           ELSE IF skip THEN Return(enc, "OK", f)
           ELSE write_line(enc, [px |-> ink, spill |-> FALSE], f)
  IN  /\ at = "page" /\ left > 0
      /\ sheet' = Append(sheet, ink) /\ left' = left - 1
      /\ enc' = r.e
      /\ DeviceTakes(r.rc, r.sent)
      /\ told' = (told \/ r.rc # "OK")
      /\ UNCHANGED <<at, pages, j, book, unflushed>>

(* Mutant: cb_rendpage returns true whatever became of the page.           *)
cb_rendpage_hopeful(f) ==
  LET r == IF ~j.page_open THEN Return(enc, "ESTATE", f) ELSE end_page(enc, f)
  IN  /\ at = "page" /\ at' = "job"
      /\ j' = [j EXCEPT !.page_open = FALSE]
      /\ enc' = r.e
      /\ DeviceTakes(r.rc, r.sent)
      /\ book' = IF r.rc = "OK" THEN Append(book, Page) ELSE book
      /\ UNCHANGED <<pages, sheet, left, unflushed, told>>

(* cb_rendpage: PAPPL calls it after the last line, or earlier when it     *)
(* stops a page.  page_open is cleared whether or not the page ends well.  *)
cb_rendpage(f) ==
  LET r == IF ~j.page_open THEN Return(enc, "ESTATE", f) ELSE end_page(enc, f)
  IN  /\ at = "page"
      /\ at' = "job"
      /\ j' = [j EXCEPT !.page_open = FALSE]
      /\ enc' = r.e
      /\ DeviceTakes(r.rc, r.sent)
      /\ book' = IF r.rc = "OK" THEN Append(book, Page) ELSE book
      /\ told' = (told \/ r.rc # "OK")
      /\ UNCHANGED <<pages, sheet, left, unflushed>>

(* Mutant: cb_rendjob forgets the open page.                               *)
CloseOpenPage_forgotten(f) == Return(enc, "OK", f)

(* The first half of cb_rendjob: a page that is open is ended.             *)
CloseOpenPage(f) == IF j.page_open THEN end_page(enc, f)
                    ELSE Return(enc, "OK", f)

(* cb_rendjob: an open page is ended, an open job is ended, the device is  *)
(* flushed whatever came of them, and the job's data is freed.             *)
cb_rendjob(f, g, flushes) ==
  LET p == CloseOpenPage(f)
      r == IF j.job_open THEN end_job(p.e, g) ELSE Return(p.e, "OK", g)
      worst == IF p.rc = "EIO" \/ r.rc = "EIO" THEN "EIO" ELSE "OK"
      out == buf \o p.sent \o r.sent
  IN  /\ j.set
      /\ at \in {"job", "page"}
      /\ at' = "ended" /\ j' = NoJob /\ enc' = ClearedEncoder
      /\ book' = IF j.page_open /\ p.rc = "OK" THEN Append(book, Page)
                 ELSE book
      /\ usb' = IF flushes THEN usb \o out ELSE usb
      /\ buf' = << >>
      /\ failed' = (failed \/ worst = "EIO")
      /\ unflushed' = ~flushes
      /\ told' = (told \/ p.rc # "OK" \/ r.rc # "OK")
      /\ UNCHANGED <<pages, sheet, left>>

(* PAPPL drops a job that could not be started, without cb_rendjob, which  *)
(* would do nothing for a job that has no data.                            *)
Abandon ==
  /\ at = "job" /\ ~j.job_open
  /\ at' = "ended" /\ j' = NoJob /\ enc' = ClearedEncoder /\ buf' = << >>
  /\ UNCHANGED <<pages, sheet, left, usb, book, told, failed, unflushed>>

(* The device is closed, and the next job may come.                        *)
CloseDevice ==
  /\ at = "ended"
  /\ at' = "idle" /\ pages' = 0 /\ sheet' = << >> /\ left' = 0
  /\ usb' = << >> /\ book' = << >>
  /\ told' = FALSE /\ failed' = FALSE /\ unflushed' = FALSE
  /\ UNCHANGED <<j, enc, buf>>

(* The fates that differ for a call that writes at most n records.         *)
Fates(n) == {f \in SinkFates : f.acc < n \/ (f.acc = n /\ ~f.torn)}

Callback ==
  \/ \E usable \in BOOLEAN, h \in Rasters, f \in Fates(1) :
       cb_rstartpage(usable, h, f)
  \/ \E ink \in Ink, f \in Fates(1) : cb_rwriteline(ink, f)
  \/ \E f \in Fates(2) : cb_rendpage(f)

(* The end of a job: PAPPL always gets there, cancelled or not.            *)
Finish ==
  \/ \E f \in Fates(2), g \in Fates(1), flushes \in BOOLEAN :
       cb_rendjob(f, g, flushes)
  \/ Abandon
  \/ CloseDevice

Next ==
  \/ \E allocated, known \in BOOLEAN, f \in Fates(1) :
       cb_rstartjob(allocated, known, f)
  \/ Callback
  \/ Finish

Spec == Init /\ [][Next]_vars

-----------------------------------------------------------------------------
(***************************************************************************)
(* "cancelled mid-page: keep the stream well-formed" (cb_rendjob): as long *)
(* as the device takes what it is given, the printer receives a whole job, *)
(* or nothing of a job that never started, at whatever moment PAPPL stops, *)
(* whatever pages were refused, and however tall the rasters are.          *)
(***************************************************************************)
WellFormedAtEnd ==
  at = "ended" /\ ~failed /\ ~unflushed => usb = << >> \/ CompleteJob(usb)

(* What the printer prints of the records it received.                     *)
Printed == FoldLeft(visit, ClearedDecoder, usb)

(* Line n of the printable area of a page: a raster with room for the      *)
(* margin has the area below it.  A page that is short, or was stopped     *)
(* early, is white below its last line.                                    *)
PrintableLine(page, n) ==
  LET y == IF page.h >= Printable + Margin THEN Margin + n ELSE n
  IN  IF y < Len(page.lines) THEN page.lines[y + 1] ELSE White

(***************************************************************************)
(* A job that PAPPL was told nothing bad about, and whose last bytes were  *)
(* flushed, is printed: every page in order, its printable area line for   *)
(* line, margins cut off, a cancelled page as far as it came.              *)
(***************************************************************************)
PrintedAsSent ==
  at = "ended" /\ ~told /\ ~unflushed =>
    /\ Printed.walk = "done"
    /\ Len(Printed.shown) = pages /\ Len(book) = pages
    /\ \A k \in 1 .. pages, n \in 0 .. (Printable - 1) :
         Printed.shown[k][n \div BandLines][n % BandLines].px
           = PrintableLine(book[k], n)

(***************************************************************************)
(* No write failure is kept from PAPPL: if the device failed, some         *)
(* callback of the job returned false, whatever was tried afterwards.      *)
(***************************************************************************)
FailureTold == failed => told
=============================================================================
