# m2022-airbridge: a TLA+ verification project

m2022-airbridge is an AirPrint service for the Samsung M2022 on macOS: a PAPPL Printer
Application takes rasters over IPP, halftones them, encodes them as SPL/QPDL with the vendor's
0x11 compression and writes them to the printer over USB; a service adapter installs it as a
launchd daemon in place of Samsung's own CUPS queue. This directory models the parts of it
that carry state or non-trivial algorithms, checks them with TLC on small instances and proves
the central results with TLAPS for every value of the constants.

Paths below are relative to the repository; `PROJECT.json` names, for every definition, the
lines it models.

## Inventory

| component | state | operations | talks to | what makes it correct |
|---|---|---|---|---|
| job encoder, `src/qpdl/encode.c` | `m2022_qpdl_encoder_t`: in_job, in_page, lines, band number, band workspace, counters | begin_job, begin_page, write_line, end_page, end_job | a sink callback that can fail | the stream is legal and decodes to the lines written; a failure is reported; band numbers never repeat or wrap |
| walker and `decode`, `src/qpdl/walk.c`, `src/cli/cmd_decode.c` | position, page being assembled | walk, on_page, on_band, on_end_page | visitor callbacks | shows exactly the page of the stream, nothing of the page before |
| 0x11 codec, `src/qpdl/codec11.c` | cursors of its loops | encode, decode | called by encoder and decoder | decode inverts encode, the bound suffices, nothing is written past a buffer, both end |
| table choice, `src/qpdl/codec11.c` | hash buckets, credits, table | choose_table | called for every band | a full table without zero or duplicate, made of the best distances |
| records and band layout, `records.c`, `band.c` | none | pack, parse, transpose | | inverse of each other |
| raster callbacks, `src/app/app.c` | `job_t`: job_open, page_open, geometry, buffers, encoder | rstartjob, rstartpage, rwriteline, rendpage, rendjob, printfile | PAPPL calls them; the encoder; PAPPL's device | every page printed as sent; a cancelled job leaves a whole stream; failures reach PAPPL |
| geometry, `src/app/jobmap.c` | none | geometry, option mapping | called by rstartpage | the right lines are cut off |
| USB writes, `src/usb/usb.c`, `src/app/usbdev.c`, `src/cli/cmd_send.c` | cursors of two nested loops | write | libusb; PAPPL's device callbacks | bytes go out once and in order, the result is true, the call returns |
| USB sharing, the same and `cb_status` of `src/app/app.c`, `src/cli/cmd_probe.c` | per caller: context, handles, claim, the list being walked; PAPPL's device; printer-state-reasons | list, open, close, status poll, send, probe | libusb, the bus, other programs; a job, a poll and commands run side by side | nothing is left open or claimed, the right printer or none, a true status, a waiting job gets its printer |
| service adapter, `src/service/service.c`, `src/cli/cmd_service.c`, `src/cli/cmd_doctor.c` | none of its own: the Mac (user, files, launchd, CUPS queues) | inspect, three plans, execute, start/stop/restart, status, doctor | dscl, launchctl, lpadmin, tar, the file system | any sequence of failing and killed commands can be repaired by running them again; one owner of the USB device; nothing of the vendor's is lost |
| halftone, `src/halftone/halftone.c` | two rows of errors, swapped at every line; the threshold matrix | init, reset, line | rstartpage, rwriteline | solid black and white are exact, the tone is kept, no sum overflows |
| tone, raster, media | none | pure | | the curve and the tables are compared with the vendor's by the tests |
| CLI, DNS-SD, IPP query, JSON, files | none | | | reports |

What is hard here: the sink, a transfer or a step of a plan failing between two state changes
with the caller going on; jobs cancelled inside a page; counters at the limit of a byte; the
worst-case band for a buffer bound; commands killed half-way and run again on what they left;
printers that come and go while several callers look for one; rounding that adds up.
The list with lines is under `hazards` in `PROJECT.json`.

## Modules

| module | models |
|---|---|
| `Qpdl` | lines, rows, records, the grammar of a job |
| `QpdlEncoder` | the five encoder calls as operators: state, sink fate -> state, return code, records written |
| `QpdlWalk` | the walker and the page assembly of `decode --pbm` |
| `QpdlPages` | what a page the reader shows, or still assembles, has to do with the lines the encoder was given |
| `QpdlJob` | a client calling the encoder in any order, a failing sink, a reader of the wire |
| `PagePrinter` | abstract: a page that ended is printed as drawn, or the job is lost and the client told |
| `Codec11` | operators of the codec: match search, tokens, bound |
| `Codec11Stream` | encode and decode, one action per loop turn |
| `Codec11Table` | choose_table, one action per loop turn |
| `JobMap` | the geometry of one axis |
| `PrintJob` | the PAPPL callbacks over encoder and device |
| `Diffusion` | floyd_steinberg, one action per pixel |
| `Screens` | the Bayer and clustered matrices, one action per turn of their outer loops |
| `RasterPage` | a page's lines on their way to dots: geometry, gray, ink, every halftone method |
| `UsbWrite` | m2022_usb_write inside usbdev_write or cmd_send |
| `UsbDevice` | list, open, close and status as job, poll, send and probe call them at the same time |
| `Service` | the Mac, the commands, their plans and the execution, what doctor and status find |
| `MC*` | the instances for TLC |
| `QpdlLemmas` | lemmas about the encoder's calls and the reader's steps, for the next two |
| `QpdlJob_proofs` | theorems about `QpdlJob`: reading back, the stream, the refinement |
| `PrintJob_proofs` | theorems about the callbacks |
| `Codec11Stream_proofs`, `Codec11Table_proofs` | theorems about the codec and its table |
| `RasterPage_proofs` | theorems about pages, error diffusion and screens |
| `Usb_proofs` | theorems about sharing the printer and about writing to it |
| `Service_proofs` | theorems about the commands |

`PrintJob` composes the encoder, the walker (as the printer) and the geometry; `RasterPage`
composes the geometry, `Diffusion` and `Screens`. The two meet at m2022_qpdl_write_line: what
`RasterPage` calls the dots of a line is `PrintJob`'s ink. `QpdlJob` instantiates `PagePrinter`
with a refinement mapping.

### How state and actions correspond

*Encoder.* The record `e` holds the fields of `m2022_qpdl_encoder_t` that steer the calls. A
line is its pixels inside the width (`px`) and whether bits are set past it (`spill`), which is
what the mask in write_line is about. A band record carries its number and rows; that the
payload decodes to them is what `Codec11Stream` checks. A call emits one or two records; the
fate `f` says how many the sink takes whole and whether it took part of the next (`Torn`).
PJL text and header fields are not modelled. NULL arguments are not modelled.

*Reader.* `visit` is one turn of the walk; `d.page_rows`, `d.max_band` are decode_ctx_t's. All
bands of a job have one width, so the buffers are not reallocated between bands; files that
cannot be opened are left out.

*Codec.* The bit fields are parameters (128, 4 and 64 in the code; 2, 2 and 2 in the run), the
packing is the code's. Header bytes and checksum are counted, not spelled out; the checksum is
the encoder's own, or any verdict for another payload.

*Table choice.* The hash is a parameter, so collisions can be chosen; an empty slot is a
shorter sequence instead of a 0.

*Callbacks.* One action per callback. PAPPL is external: callbacks in the order start job,
pages of lines, end job; a job may be cancelled between any two; it may go on after a `false`.
The device buffers records and writes them out at any time. The conversion of a line to dots
is left out here: a line is its ink, and the raster has lines only. `RasterPage` has both axes.
A job whose data cannot be allocated (app.c:195) has none (`set`): every callback returns false.

*A page's pixels.* `cb_rstartpage`, `SkipLine`, `CompareLine`, `DiffuseLine` and `cb_rendpage` are
the callbacks without the encoder; unsupported formats, other resolutions and failing
allocations are `PrintJob`'s refusals. The blue-noise mask (a table) and the tone curve (floating
point) are parameters: m2022_tone_build is not modelled, m2022_tone_apply with any table is
(`InkOf`). The assumption asks of them only what m2022_tone_build guarantees at its
two ends and the largest entry of the mask. The rows of errors have the code's spare cell at
either side, divisions round towards zero, and sums are cut to 16 bits. What fresh memory holds
is the constant `Garbage`. `Screens` compares the squared distances of clustered times 400, which
makes the code's doubles integers.

*USB.* The printer's bytes are positions in the buffer. A transfer takes any part of what it
was given, none included, and succeeds or fails.

*USB sharing.* `u[c]` is the call of usb.c that client c is in: which devices of its list it has
still to visit, what it has counted and kept, how many contexts and handles it has. A printer is
its model (vid and pid) and its serial number; a serial number that cannot be read is empty. An
unplugged printer is `gone` for the calls that hold it, also when it comes back. Two printers with
one model and one serial number are not modelled. PAPPL is external: one user of its device at a
time, a job opens it again until it gets it, a status poll comes between jobs. A printer's class
and endpoints (describe) decide what is in `Printers`; a printer whose descriptors cannot be read,
because it is gone or because the bus fails, is left out of the call's list (`Skip`). What a job or send writes in its session
is `UsbWrite`'s: here a session is over at its close, and send succeeds if the printer stayed.

*Service.* The Mac is one record `m`. A command is its plan; `StepDone`, `StepFails`, `Killed`
are one turn of m2022_service_execute. The steps that it does itself, on files (`FileSteps`), are
translated from its cases: `file_effect` is what they do, `file_half` what a failed or killed one
may leave (a file written in place is empty or cut short; copies go through a temporary name). The
others are commands that it runs: `command_can`, `command_effect` and `command_half` say what
launchctl, dscl, lpadmin, sh, rm and tar need, do and leave (tar has overwritten the archive, rm
-rf has removed some files), from the arguments in the plans and docs/macos-service.md. Steps in a
row that no property tells apart are one.

The job that launchd has loaded (`m.loaded`) and the process it runs (`serving`, the port it answers
on) are two things: launchd starts the process some time after bootstrap and again after it died
(`ServiceStarts`, `ServiceDies`; KeepAlive and ThrottleInterval of the plist), and it cannot listen
while another program, which is no printer, holds the port (`other`, `OtherListens`; app.c:693 takes
no notice of a listener that cannot be added). wait-ipp is ipp_port_open, a TCP connection that
either of them accepts; lpadmin -m everywhere and the IPP query of doctor and status get an answer
from the service only. `run.upset` notes that the service or the other program ended after the wait
of install, `run.replug` that macOS put the vendor's queue back during install.

`doctor` and `status` are what the two commands find on the Mac, check by check, with the answer of
the IPP query as a parameter (the state, whether the reasons say offline); `InstallWorks` is stated
with them. Left out are --dry-run, --test-page, pick_uid, the texts of the files, a server started by
hand that is an IPP printer itself, and of doctor the version of the binary (a warning), the log
(check_log) and --no-service.

## Runs

| run | question | bounds | result |
|---|---|---|---|
| `qpdl` | is what the wire decodes to what was drawn, in any call order, over a failing sink? does the encoder implement `PagePrinter`? | bands of 2 lines, 2 bands a page; a first page of 6 lines with 2 failures, a second of 5 lines after at most 1 | holds |
| `codec` | decode after encode, bound, buffers, match search, termination | every band of 0..9 bytes over two values, every table of two distances from 0, 1, 2, 5, every payload of 4 bytes | holds |
| `codec_table` | is the table full, distinct, the best? are the buckets right? | every band of 0..12 bytes over two values | holds |
| `print` | are the right lines printed for every raster height, in cancelled, refused and failing jobs too? | an area of 3 lines under a margin of 1; one page of height 1..6, two pages of heights 2 and 4, each of which may be refused, cancelled or fail | holds |
| `raster_page` | do black and white arrive exactly and in their place? is the tone kept? can a sum overflow? | an area of 3 by 3 behind margins of 1; rasters of 2x5, 4x2 and 3x4; 4 grays; 3 formats; every method, clustered cells 4..11 | holds |
| `halftone_cell` | is full ink black for a larger cell? | clustered cell 12 | violated |
| `usb_write` | order, truth of the result, termination | 7 bytes, chunks of 2 | holds |
| `usb_device` | leaks, wrong printer, status, exit status of probe, progress of jobs | 2 printers alike, none, one or both on the bus at first, 3 events (commands, jobs, plugging, failures, conditions, claims of another driver) | holds |
| `service_safe` | any sequence of commands with failures, kills, replugs, a process that dies, another program on the port | default port, vendor or not, with a queue of the user's own | holds |
| `service_port`, `service_own`, `service_archive` | sentences of the docs | smallest that show it | violated |

Why the bounds are enough. Two-line bands and two bands let a page end inside and at the end of
each band, be blank in either and overflow by one band; 6 lines is one band more than fits. Two
failures let the client go on after one and meet another. In `codec`, 9 bytes exceed the longest
match (6), the longest literal run (2) and the largest raw prefix (2), so each limit is crossed,
and with the distances 1 and 5 a later slot can beat an earlier match (8 bytes and distances up to
3 do not let it); the encoder also gets a buffer one byte short of the bound. In `codec_table`, 12
bytes is the smallest length at which more distances earn credit than the table has entries. In
`print` the heights are below the imageable area, equal to it, equal to it with its margin, and
above both. In `raster_page` the inks 127 and 128 leave the largest errors; three pixels are one
with both neighbours and two at the sides, and three lines are scanned right, left and right
again, so that errors are handed on twice. The widths and heights lie below, at and above area and
margin. In `usb_write` the first, an inner and the short last transfer can each be cut, fail and
be retried. In `usb_device` three events make the cases of two clients and one disturbance: a
job, a command and an unplug inside either; an unplug and a plug inside one call; a claim by the
vendor between list and claim. `Service` has no counters: its runs are exhaustive for the options
given.

`codec`, `codec_table` and `raster_page` set `CHECK_DEADLOCK FALSE` because they model one call, or
one page, which ends. All other systems must never deadlock.

Every property has a mutant, an operator beside the one it replaces that a slip in the code
could have produced, under which TLC finds the property violated.

### Properties

`RoundTrip` (decoded pages are the drawn ones unless a call reported EIO or the ERANGE of a
band), `StreamLegal` (grammar), `BandNumbersIncrease` (even when the client goes on after
failures), `NoBlankBandSent`, `KeepsPromise` (refinement). `DecodesToBand`,
`BoundIsEnough`, `InBuffer`, `PassFindsLongest` (the search with its cheap rejection against its
definition), `CodecReturns`. `TableSound`, `MostCredited`, `SlotsAreLatest`, `TableIsChosen`. `WellFormedAtEnd`, `PrintedAsSent`, `FailureTold`. `TakenInOrder`,
`ReportIsTrue`, `WriteReturns`. `SingleOwner`, `InstallWorks`, `UninstallClears`,
`VendorQueueRestored`, `VendorQueueIsBackedUp`. `InstallWorks` says what a successful install means
although its wait accepts any listener: the service answers unless a process ended during the
command or another program has the port, and doctor finds nothing wrong that this does not explain.

Halftoning: `SolidExact` (full ink is a dot and no ink is none, whatever errors lie around),
`ErrorsSmall` (no sum leaves -127..127), `ToneKept` (ink asked for less ink printed is the errors
still waiting, up to rounding and what leaves at the sides), `ExactDots` (a cell of any ink has its
share of dots to the nearest, which for a cell of up to 11 includes that full ink is solid;
`ScreenSolid` says the latter alone), `SolidInPlace` (the client's black and white pixels, through
crop, format, tone and method).

USB sharing: `NothingLeaks`, `RightPrinter` (the only printer with the model and serial number
asked for), `ProbeSound` (the exit statuses 1 and 2 of probe have a cause), `StatusTrue` (what a
poll sets was true at a moment of the poll), `StatusCatchesUp` and `JobGetsThrough` (liveness).

No run checks the type invariants of `Service`, which is a theorem, and of `UsbDevice`, whose types
the proofs state anew as the first part of their inductive invariant.

### Fairness

`WriteReturns`, `CodecReturns` and `TableIsChosen` hold under weak fairness of the loop's own steps. `usb_write`: every
libusb transfer has a timeout (60 s in usbdev_write, the option's in cmd_send), so a step always
ends. m2022_usb_write does not check that a transfer which succeeds took a byte (usb.c:252), so a
printer that answered so for ever would keep it there for ever: that step changes nothing in the
model, and the fairness assumes that it is not the only one that is ever taken. Of a printer that
fails or times out nothing is assumed. `codec`, `codec_table`: the loops never wait.

`StatusCatchesUp` and `JobGetsThrough` assume that each client's call goes on (libusb's requests
have timeouts), that PAPPL opens the device of a waiting job again ("PAPPL retries the device
every 5 s", docs/macos-service.md) and asks for the status between jobs (the comment at
cb_status), that a command which runs ends, and that another driver lets go of the printer some
time. The bound on events makes the surroundings quiet in the end, as the properties ask; without
it `StatusCatchesUp` would have to say so. No fairness is assumed of users, of plugging, of
failures and of the encoder's clients.

## Findings

1. A clustered screen with a cell of 12 to 16 has a position with the threshold 255: solid black
   has white dots there, though comment and docs/halftone.md say it is exact (`halftone_cell`).
   The presets use a cell of 8 and are not concerned.
2. With `--port`, inspect still looks for port 8000: a second install on another port leaves the
   Mac's queue on the old one (`service_port`).
3. Uninstall removes the user's own queue when CUPS lists it after the installer's
   (`service_own`).
4. remove-vendor-driver run again after a partial deletion overwrites the whole archive
   (`service_archive`).

The model also shows, without a run of its own: docs/macos-service.md:40 says install waits "until
IPP answers", and it waits for a TCP connection (service.c:752): with another program on the port,
and a queue from before, it reports success and the service does not answer; without the queue
lpadmin fails and tells, and `InstallWorks` says what holds nevertheless. The queue of an install
with `--port`, or one whose marker could not be written, is not removed by uninstall
(service.c:519); a user created only as far as its UniqueID is taken for complete by the next
install and stays without shell, home and hidden flag (service.c:403), which is why `InstallWorks`
asks only for a user that getpwnam finds; a vendor queue without a PPD is removed and not restored
(service.c:527), which is why the runs start from vendor queues that have one. A page of 256 bands
is accepted, where the header (qpdl.h:51), the error text and docs/spl-qpdl.md:299 say 255:
`TooTall` compares with the largest number, not with the number of bands.

Seen while reading and outside the models: page_buffers (app.c:261) keeps the sizes of a page whose
buffers it has freed when an allocation fails; usbdev_list (usbdev.c:66) and inspect
(service.c:236) loop over a count that may exceed their arrays; m2022_halftoner_reset
(halftone.c:154) clears both rows from err_cur on, which is right only before the rows have
changed places an odd number of times - init is the only caller in the repository; probe exits 1
("none") also when the bus could not be listed.

## Proofs

Every theorem is for every value of the constants that satisfies the named assumptions of the
modules (`QpdlAssumption`, `Codec11Assumption`, `RasterPageAssumption` and so on); where one needs more,
the hypothesis is part of its statement. None of the properties is inductive as it stands; what is added to each, and why, is said
below.

`QpdlLemmas` has what the encoder's calls do, as facts about operators: the types of what they
return, what a flush does (`FlushOK`), and that each call that returns OK takes a stream that is legal
and ends where the encoder is (`Legal`) to another (`BeginPageLegal`, `WriteLineLegal`, ...). A page of
at most MaxBand + 1 bands meets no error but the sink's. A second group says where a reader is that
reads what the call wrote (`BeginPageFollowed`, `WriteLineFollowed`, `EndPageFollowed`, ...): it goes on
assembling the same picture (`Drawing`, of `QpdlPages`), or shows it.

`QpdlJob_proofs`:

- `TypeCorrect`: Spec => []TypeOK.
- `InStepHolds`: Spec => []InStep. `RoundTrip` alone is not inductive: it speaks of pages that
  ended, and what an end will show depends on the page half drawn. `InStep` adds that the reader
  is where the encoder is, and for an open page `Drawing`: the first `Base` lines are in the bands the
  reader has assembled, the other `Filled` lines in the workspace, white below, and all bands from
  the current number on are white in the reader.
- `RoundTripHolds`: from `InStep`.
- `StreamLegalHolds`, `BandNumbersIncreaseHolds`, `NoBlankBandSentHolds`. The invariant has two parts.
  `Sound` holds whatever the sink does: the rows in the workspace have no bits past the width (else
  a band could be non-blank and all white), bands have ink, and those since the last page header go
  up to below the encoder's next number. `Legal` holds until a call reports a loss.
- `KeepsPromiseHolds`: Spec => KeepsPromise, the refinement to `PagePrinter`. The initial state maps
  to the initial state; each call is a step of the abstract printer or a stutter, by `InStep` (what the
  reader has shown is what the sheets are) and, for a page that ends, by the count of lines, which
  is not too tall exactly when the last band found a number.

`PrintJob_proofs`:

- `WellFormedAtEndHolds`: Spec => []WellFormedAtEnd. What the printer has of a job that goes on says
  nothing of its end, because the device holds records back and cb_rendjob adds what job_t and the
  encoder call for. The induction is over the records written (`usb \o buf`): until a write fails they
  are `Legal`, job_open and page_open say what the encoder's flags say, and the lines in the encoder
  never outnumber the geometry's. The last is why no band is refused for its number: such a refusal
  would leave the encoder's page open with page_open cleared, and the job without an end.
  `GeometryFits` is the lemma about m2022_jobmap_geometry: the area lies inside the raster and is no
  larger than the imageable area.
- `FailureToldHolds`: from the same invariant.
- `PrintedAsSentHolds`: Spec => []PrintedAsSent, the whole way from PAPPL's lines to the printer's
  pages. `Printed` folds the walk over all records at once, while a callback adds one or two; the
  lemmas on `Decoded` open FoldLeft up and show that a stream one record longer is one step of the walk
  further, for streams of any length. The invariant (`Faithful`) is about the reader of all records
  written, wherever they are: while no callback returned false, the pages it shows are the printable
  parts of those in book (`Cuts`: neither a line of the margin nor one below the area), and the
  picture it assembles with the encoder is the printable part of the sheet so far.

`Codec11Stream_proofs`, for every band, table of distances, buffer size and width of a token's fields:

- `DecodesToBandHolds`: Spec => []DecodesToBand. The encoder's half of the invariant (`Written`) says
  that the payload so far is the raw prefix and then tokens that lead to the band's position `lit`; the
  decoder's half (`Decoding`) that the output is the band so far and the tokens not read lead to the
  ends of both. `Tokens` says "tokens lead from here to there" as the existence of a set of places
  closed under one token.
- `BoundIsEnoughHolds`: Spec => []BoundIsEnough. That the payload is at most n + n/128 longer than n
  bytes is not inductive: a literal run cut short by a match costs its header before the match saves
  it. `Thrifty` allows one byte more exactly there.
- `InBufferHolds`, from the same; `PassFindsLongestHolds`, by induction over the distances tried: what
  longest_match keeps is the longest so far, and its cheap rejection only passes over what is no longer.

`Codec11Table_proofs`, for every band, hash, bucket size, table size and default table:

- `SlotsAreLatestHolds`: Spec => []SlotsAreLatest. The bucket is described by counting (`Holds`: the k-th
  entry has k - 1 later ones), which an insertion keeps.
- `TableSoundHolds`, `MostCreditedHolds`. While entries are selected, credit is what was earned but for
  the entries, which have none left (`Selecting`); after that, what is left out was left out for a full
  table (`Filling`). That a table short of entries finds enough in the default table is a count:
  distinct entries among which all default ones are.

`RasterPage_proofs`, for every width, number of lines, ink, imageable area, margin and raster:

- `ErrorsSmallHolds`, `SolidExactHolds` (of `DiffusionSpec`), `PageErrorsSmall`. A bound of 127 on every cell is not
  inductive: a cell that holds 127 overflows it when the pixel behind adds its share. The invariant
  (`Rows`) bounds a cell by the sixteenths it has received (7, then 46, then 69 of the line above; 124
  with the pixel behind's).
- `ToneKeptHolds` (of `DiffusionSpec`), `PageToneKept`. The property bounds what is lost of the tone after
  whole lines; `Tone` bounds it after every pixel: three for the rounding of a pixel's shares, 23 at
  the first and 62 at the last pixel of a line, whose shares fall off the page. Its lemmas say that a
  sum over a set does not depend on the order in which the folds of the community modules take it.
- `RasterTypeCorrect`: Spec => []TypeOK. The invariant adds that the geometry is the raster's (`PageOK`:
  no pixel or line outside the raster is read) and counts the lines passed on (`Shown`).
- `ExactDotsHolds`, `ScreenSolidHolds`, `EveryMethodExact`, `SolidInPlaceHolds`, with the hypothesis `Exact`: a method is
  one of the five with parameters that a preset or option sets and that are exact. It excludes
  --threshold 255, which leaves full ink white, and cells of 12 to 16 (finding 1). `ScreenOK` says that
  no rank is given twice, in the square that the Bayer construction doubles and among the positions
  the clustered one has taken; a finished matrix then has every rank once, which gives the number of
  thresholds under an ink.

`Usb_proofs`, for any set of printers, matches and number of events:

- `NothingLeaksHolds`: Spec => []NothingLeaks. The invariant says what a call holds at each of its
  places (`CallOK`) and that a command makes no call inside another (`CommandOK`).
- `RightPrinterHolds`: SerialsDiffer => (Spec => []RightPrinter). `SearchOK` adds what the turns of
  enumerate have found so far: with no serial number asked for, a count of one means that no other
  printer of the model that is still there was passed over. The hypothesis, that no two printers
  share a serial number, is needed: of two printers with the number asked for, one whose number
  cannot be read at the moment is passed over, and the other is taken for the only one.
- `ProbeSoundHolds`: ToldApart => (Spec => []ProbeSound). `Probing` ties what probe has listed and opened
  to the printers that were not free meanwhile. The hypothesis, that no printer's identity matches
  another's, is needed: two free printers of one model without serial numbers are listed, and
  m2022_usb_open refuses both as ambiguous.
- `StatusTrueHolds`: Spec => StatusTrue, an action property. `Polling` says that each result a poll may
  still come back with was true at a moment since it began.
- `AccountedHolds`: WriteSpec => []Accounted, for every chunk size and buffer length, which ties p and left
  of the outer loop and done of the inner one to the number of bytes taken; with that the next
  transfer starts where the last one stopped. `TakenInOrderHolds`, `ReportIsTrueHolds`: from it.

`Service_proofs`, for every set of ports, of vendor installations and of ports that other programs
take, and every sequence of commands, failures, kills, replugs and ends of processes:

- `ServiceTypeCorrect`, `SingleOwnerHolds`, `UninstallClearsHolds`.
- `InstallWorksHolds` and `QueueReachesServiceHolds`, with the hypothesis `OnePort` (only the default
  port is used). The second is the sentence that the run `service_port` shows to be false with
  `--port`: without that option no sequence of commands, failures and kills breaks it.
- `VendorQueueRestoredHolds` and the action property `VendorQueueIsBackedUpHolds`, with the hypothesis
  `QueueHasPpd`: a vendor queue without a PPD is removed without a backup (see Findings).
- The invariant is about the plan that is left: each thing the command must bring about is so
  already, or a remaining step brings it about (`Has`); steps that undo something (bootout, create
  user, removal of the vendor's queue) come before or after those that make up for it (`Preceded`,
  `Followed`). It holds of every plan a command builds from whatever it finds, and passes to the rest
  of the plan when a step is done or its failure is ignored.

Every invariant and every action property that a passing run checks is the subject of a theorem, and
so is the refinement. Only model-checked is liveness (`WriteReturns`, `CodecReturns`, `TableIsChosen`,
`StatusCatchesUp`, `JobGetsThrough`): it needs ENABLED and fairness, which are out of the prover's reach.

The library's induction theorems have an operator as parameter, which the provers cannot
instantiate. Where a proof needs induction over data (longest_match is a recursive function, the
sums of `ToneKept` and the reader of `PrintedAsSent` are folds), the module states it of sets, from the principle that a set of numbers
has a least one (`LeastNumber`) or a set of sets a smallest (`SmallestSet`).

## Not modelled

The tone curve and the sRGB tables (floating point, compared with the vendor's output by the
tests); the doubling of 300 dpi rasters and the reader over libcups; media table; points to pixels;
the transposition of a band; parsing of IEEE 1284 strings and names of status bits; DNS-SD and
IPP queries; the CLI's arguments, files and reports (encode and render run the modelled pipeline
over a file, in one thread); byte layouts of record headers and of PJL; PAPPL itself.

