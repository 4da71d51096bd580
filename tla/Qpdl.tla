-------------------------------- MODULE Qpdl --------------------------------
(***************************************************************************)
(* The SPL/QPDL job stream: the records that src/qpdl/encode.c writes and  *)
(* src/qpdl/walk.c reads, in the order docs/spl-qpdl.md gives them.        *)
(*                                                                         *)
(* A job is the PJL envelope, then for every page a page header, one band  *)
(* record per band that is not all white, and an end-of-page record, then  *)
(* the end-of-job byte with the closing UEL.  The bytes inside a record    *)
(* are abstracted: a band record carries its number and the rows it        *)
(* encodes (row layout, 1 = black), that is, what the 0x11 payload decodes *)
(* to.                                                                     *)
(***************************************************************************)
EXTENDS Integers, Sequences

CONSTANTS
  Ink,        \* what the pixels of one line inside the raster width can be
  White,      \* the line without any black pixel
  BandLines,  \* M2022_QPDL_BAND_LINES, 128 in the code
  MaxBand     \* the largest band number that fits its byte, 255 in the code

ASSUME QpdlAssumption ==
  /\ White \in Ink
  /\ BandLines \in Nat \ {0}
  /\ MaxBand \in Nat

(***************************************************************************)
(* A packed line as a caller hands it over: the pixels up to the raster    *)
(* width, and whether bits are set in its last byte past the width.  A row *)
(* of the band workspace has the same form.                                *)
(***************************************************************************)
Line == [px : Ink, spill : BOOLEAN]

WhiteRow == [px |-> White, spill |-> FALSE]

Slots == 0 .. (BandLines - 1)       \* the rows of one band
Bands == 0 .. MaxBand               \* the numbers a band record can carry

BlankRows == [i \in Slots |-> WhiteRow]

-----------------------------------------------------------------------------
(***************************************************************************)
(* Records.  "torn" stands for the strict, non-empty prefix of a record    *)
(* that is on the wire when the sink fails in the middle of it.            *)
(***************************************************************************)
Envelope == [t |-> "envelope"]
PageHeader == [t |-> "page"]
BandRecord(n, rows) == [t |-> "band", number |-> n, rows |-> rows]
EndPage == [t |-> "end_page"]
EndJob == [t |-> "end_job"]
Torn == [t |-> "torn"]

BandRecords == [t : {"band"}, number : Bands, rows : [Slots -> Line]]
PlainRecords == {Envelope, PageHeader, EndPage, EndJob, Torn}
Records == PlainRecords \cup BandRecords

IsBand(r) == r.t = "band"

(***************************************************************************)
(* The grammar of a job, as the pairs of records that may follow each      *)
(* other.                                                                  *)
(***************************************************************************)
Follows ==
  { <<"envelope", "page">>, <<"envelope", "end_job">>,
    <<"page", "band">>, <<"page", "end_page">>,
    <<"band", "band">>, <<"band", "end_page">>,
    <<"end_page", "page">>, <<"end_page", "end_job">> }

(* w is a prefix of a legal job: it opens with the envelope, every record  *)
(* may follow the one before it, and the bands of a page are in order.     *)
JobPrefix(w) ==
  /\ Len(w) > 0 => w[1].t = "envelope"
  /\ \A i \in 1 .. (Len(w) - 1) :
       /\ <<w[i].t, w[i+1].t>> \in Follows
       /\ IsBand(w[i]) /\ IsBand(w[i+1]) => w[i].number < w[i+1].number

(* w is a whole legal job.                                                 *)
CompleteJob(w) == /\ JobPrefix(w)
                  /\ Len(w) > 0
                  /\ w[Len(w)].t = "end_job"
=============================================================================
