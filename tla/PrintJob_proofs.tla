--------------------------- MODULE PrintJob_proofs ---------------------------
(***************************************************************************)
(* Proofs about the raster callbacks, for every medium, every raster, any  *)
(* number of pages and every moment a job is cancelled at.                 *)
(*                                                                         *)
(* What the printer has of a job that goes on says nothing of its end: the *)
(* device holds records back, and what cb_rendjob adds depends on job_t    *)
(* and on the encoder inside it.  The induction is over usb \o buf, the    *)
(* records written so far: they are legal and end where the encoder is,    *)
(* job_open and page_open tell what the encoder's own flags say, and the   *)
(* lines on a page never outnumber the geometry's, so that no band is      *)
(* refused for its number.                                                 *)
(*                                                                         *)
(* What the printer makes of them is FoldLeft over the whole stream.  The  *)
(* lemmas on Decoded turn that into one step of the walk per record; the   *)
(* second induction then follows the reader of all records written so far  *)
(* from callback to callback.                                              *)
(***************************************************************************)
EXTENDS PrintJob, QpdlLemmas, WellFoundedInduction

JobStates ==
  [set : BOOLEAN, job_open : BOOLEAN, page_open : BOOLEAN,
   geo : [start : Nat, size : 0 .. Printable]]

Types ==
  /\ at \in {"idle", "job", "page", "ended"}
  /\ sheet \in Seq(Ink) /\ left \in Nat
  /\ j \in JobStates /\ enc \in EncoderStates
  /\ buf \in Seq(Records) /\ usb \in Seq(Records)
  /\ told \in BOOLEAN /\ failed \in BOOLEAN

(* Before a job nothing of it is anywhere.                                 *)
Fresh == at = "idle" => ~failed /\ usb = << >> /\ buf = << >>

(* The device has nothing left of a job that ended.                        *)
Emptied == at = "ended" => buf = << >>

(* The records the callbacks have written in this job.                     *)
Written == usb \o buf

(* A job that could not be started has written nothing.                    *)
NotBegun == ~j.job_open => Written = << >> /\ at = "job" /\ ~j.page_open

(* A job that was has written a legal stream as far as it came.            *)
Begun ==
  j.job_open =>
    /\ Legal(Written, enc) /\ enc.in_job
    /\ enc.in_page <=> at = "page"
    /\ j.page_open <=> at = "page"

(* The lines of the page that are in the encoder.                          *)
OnPage ==
  at = "page" =>
    /\ Numbered(enc) /\ enc.lines <= j.geo.size
    /\ enc.lines = 0 \/ enc.lines <= Len(sheet) - j.geo.start

Going == at \in {"job", "page"} /\ ~failed => NotBegun /\ Begun /\ OnPage

IInv == Types /\ Fresh /\ Emptied /\ Going /\ WellFormedAtEnd /\ FailureTold

-----------------------------------------------------------------------------
(* The reader of a stream that grows: FoldLeft as a recursion over places. *)

(* What a reader of the records w has: Printed is Decoded(usb).            *)
Decoded(w) == FoldLeft(visit, ClearedDecoder, w)

(* The last of a set of places, the one FoldLeft takes off a set.          *)
Top(s) == CHOOSE x \in s : \A y \in s : x >= y

(* g gives for every set of places in w the reader of the records there.   *)
Walks(g, w, S) ==
  g = [s \in SUBSET S |-> IF s = {} THEN ClearedDecoder
                          ELSE visit(g[s \ {Top(s)}], w[Top(s)])]

(* FoldLeft chooses such a function and takes it at all places.            *)
LEMMA DecodedIs ==
  ASSUME NEW w
  PROVE  Decoded(w) = (CHOOSE g : Walks(g, w, DOMAIN w))[DOMAIN w]
  BY DEF Decoded, FoldLeft, MapThenFoldSet, Max, Top, Walks

(* A set of numbers has a least one.                                       *)
LEMMA LeastNumber ==
  ASSUME NEW S \in SUBSET Nat, S # {}
  PROVE  \E x \in S : \A z \in S : x <= z
<1> DEFINE R == OpToRel(<, Nat)
<1>1. IsWellFoundedOn(R, Nat)
  BY NatLessThanWellFounded
<1>2. \A x, z \in Nat : z < x => <<z, x>> \in R
  BY DEF OpToRel
<1> HIDE DEF R
<1>3. PICK x \in S : \A z \in S : ~(<<z, x>> \in R)
  BY <1>1, WFMin
<1>4. ASSUME NEW z \in S PROVE x <= z
  <2>1. x \in Nat /\ z \in Nat /\ ~(z < x)
    BY <1>2, <1>3
  <2> QED
    BY <2>1
<1> QED
  BY <1>4

(* A set of places in a stream has a last one.                             *)
LEMMA TopIs ==
  ASSUME NEW n \in Nat, NEW s \in SUBSET (1 .. n), s # {}
  PROVE  Top(s) \in s /\ \A y \in s : Top(s) >= y
<1> DEFINE gaps == {n - x : x \in s}
<1>1. gaps \in SUBSET Nat /\ gaps # {}
  <2>1. \A x \in 1 .. n : n - x \in Nat
    OBVIOUS
  <2> QED
    BY <2>1
<1>2. PICK a \in gaps : \A z \in gaps : a <= z
  <2> HIDE DEF gaps
  <2> QED
    BY <1>1, LeastNumber
<1>3. PICK x \in s : a = n - x
  BY <1>2
<1>4. ASSUME NEW y \in s PROVE x >= y
  <2>1. n - x <= n - y
    BY <1>2, <1>3
  <2>2. x \in 1 .. n /\ y \in 1 .. n
    OBVIOUS
  <2> QED
    BY <2>1, <2>2
<1> QED
  BY <1>3, <1>4 DEF Top

(* The last of the first k places is k.                                    *)
LEMMA TopOfFirst ==
  ASSUME NEW k \in Nat, k # 0
  PROVE  Top(1 .. k) = k /\ (1 .. k) \ {k} = 1 .. (k - 1) /\ 1 .. k # {}
<1>1. k \in 1 .. k /\ \A y \in 1 .. k : k >= y
  OBVIOUS
<1>2. Top(1 .. k) \in 1 .. k /\ \A y \in 1 .. k : Top(1 .. k) >= y
  BY <1>1, TopIs
<1> QED
  BY <1>1, <1>2

(* One more record: the function that folds the stream exists, if it did.  *)
LEMMA WalksLonger ==
  ASSUME NEW w, NEW n \in Nat, NEW g, Walks(g, w, 1 .. n)
  PROVE  \E h : Walks(h, w, 1 .. (n + 1))
<1> DEFINE S == 1 .. n
           T == 1 .. (n + 1)
           h == [s \in SUBSET T |-> IF s = {} THEN ClearedDecoder
                                    ELSE visit(g[s \ {Top(s)}], w[Top(s)])]
<1>1. \A s \in SUBSET S : s \in SUBSET T
  OBVIOUS
<1>2. \A s \in SUBSET T : s # {} => s \ {Top(s)} \in SUBSET S
  <2> SUFFICES ASSUME NEW s \in SUBSET T, s # {} PROVE s \ {Top(s)} \in SUBSET S
    OBVIOUS
  <2>1. PICK m \in Nat : m = n + 1
    OBVIOUS
  <2>2. Top(s) \in s /\ \A y \in s : Top(s) >= y
    BY <2>1, TopIs
  <2> DEFINE top == Top(s)
  <2> HIDE DEF top
  <2>3. top \in 1 .. (n + 1) /\ \A y \in s : y \in 1 .. (n + 1) /\ top >= y
    BY <2>2 DEF top
  <2>4. \A y \in s : y # top => y \in 1 .. n
    BY <2>3
  <2> QED
    BY <2>4 DEF top
<1>3. \A s \in SUBSET S : g[s] = IF s = {} THEN ClearedDecoder
                                 ELSE visit(g[s \ {Top(s)}], w[Top(s)])
  BY DEF Walks
<1> HIDE DEF S, T
<1>4. \A s \in SUBSET S : h[s] = g[s]
  BY <1>1, <1>3
<1>5. \A s \in SUBSET T :
        (IF s = {} THEN ClearedDecoder ELSE visit(g[s \ {Top(s)}], w[Top(s)]))
          = (IF s = {} THEN ClearedDecoder ELSE visit(h[s \ {Top(s)}], w[Top(s)]))
  BY <1>2, <1>4
<1>6. h = [s \in SUBSET T |-> IF s = {} THEN ClearedDecoder
                              ELSE visit(h[s \ {Top(s)}], w[Top(s)])]
  BY <1>5
<1>7. Walks(h, w, T)
  BY <1>6 DEF Walks
<1> QED
  BY <1>7 DEF T

(* So it does for a stream of any length.                                  *)
LEMMA WalksExist ==
  ASSUME NEW w, NEW n \in Nat
  PROVE  \E g : Walks(g, w, 1 .. n)
<1> DEFINE without == {m \in Nat : ~ \E g : Walks(g, w, 1 .. m)}
<1> SUFFICES ASSUME n \in without PROVE FALSE
  OBVIOUS
<1>1. PICK m \in without : \A z \in without : m <= z
  <2>1. without \in SUBSET Nat /\ without # {}
    OBVIOUS
  <2> HIDE DEF without
  <2> QED
    BY <2>1, LeastNumber
<1>2. m \in Nat /\ ~ \E g : Walks(g, w, 1 .. m)
  OBVIOUS
<1>3. m # 0
  <2>1. SUBSET {} = {{}}
    OBVIOUS
  <2> DEFINE g == [s \in SUBSET {} |-> ClearedDecoder]
  <2>2. g = [s \in SUBSET {} |-> IF s = {} THEN ClearedDecoder
                                 ELSE visit(g[s \ {Top(s)}], w[Top(s)])]
    BY <2>1
  <2>3. Walks(g, w, {})
    BY <2>2 DEF Walks
  <2>4. 1 .. 0 = {}
    OBVIOUS
  <2> QED
    BY <1>2, <2>3, <2>4
<1>4. PICK l \in Nat : m = l + 1
  <2>1. m - 1 \in Nat /\ m = (m - 1) + 1
    BY <1>2, <1>3
  <2> QED
    BY <2>1
<1>5. ~(l \in without)
  BY <1>1, <1>2, <1>4
<1>6. PICK g : Walks(g, w, 1 .. l)
  BY <1>5
<1> QED
  BY <1>2, <1>4, <1>6, WalksLonger

(* Two streams that begin with the same records fold to the same there.    *)
LEMMA WalksAgree ==
  ASSUME NEW w, NEW v, NEW n \in Nat, NEW m \in Nat, n <= m,
         \A i \in 1 .. n : w[i] = v[i],
         NEW g, Walks(g, w, 1 .. n), NEW h, Walks(h, v, 1 .. m)
  PROVE  g[1 .. n] = h[1 .. n]
<1> DEFINE differ == {k \in 0 .. n : g[1 .. k] # h[1 .. k]}
<1> SUFFICES ASSUME n \in differ PROVE FALSE
  OBVIOUS
<1>1. PICK k \in differ : \A z \in differ : k <= z
  <2>1. differ \in SUBSET Nat /\ differ # {}
    OBVIOUS
  <2> HIDE DEF differ
  <2> QED
    BY <2>1, LeastNumber
<1>2. k \in 0 .. n /\ g[1 .. k] # h[1 .. k]
  OBVIOUS
<1>3. \A x \in 0 .. n : 1 .. x \in SUBSET (1 .. n) /\ 1 .. x \in SUBSET (1 .. m)
  OBVIOUS
<1>4. /\ \A s \in SUBSET (1 .. n) : g[s] = IF s = {} THEN ClearedDecoder
                                    ELSE visit(g[s \ {Top(s)}], w[Top(s)])
      /\ \A s \in SUBSET (1 .. m) : h[s] = IF s = {} THEN ClearedDecoder
                                    ELSE visit(h[s \ {Top(s)}], v[Top(s)])
  BY DEF Walks
<1>5. CASE k = 0
  <2>1. 1 .. k = {}
    BY <1>5
  <2> QED
    BY <1>2, <1>3, <1>4, <2>1
<1>6. CASE k # 0
  <2>1. PICK l \in Nat : l = k - 1 /\ l \in 0 .. n /\ k \in 1 .. n /\ k \in Nat
    BY <1>2, <1>6
  <2>2. g[1 .. l] = h[1 .. l]
    BY <1>1, <2>1
  <2>3. Top(1 .. k) = k /\ (1 .. k) \ {k} = 1 .. l /\ 1 .. k # {}
    BY <1>6, <2>1, TopOfFirst
  <2>4. g[1 .. k] = visit(g[1 .. l], w[k]) /\ h[1 .. k] = visit(h[1 .. l], v[k])
    BY <1>2, <1>3, <1>4, <2>3
  <2>5. w[k] = v[k]
    BY <2>1
  <2> QED
    BY <1>2, <2>2, <2>4, <2>5
<1> QED
  BY <1>5, <1>6

(* The reader of a stream as the value of any function that folds it.      *)
LEMMA DecodedBy ==
  ASSUME NEW w \in Seq(Records)
  PROVE  \E g : Walks(g, w, 1 .. Len(w)) /\ Decoded(w) = g[1 .. Len(w)]
<1>1. DOMAIN w = 1 .. Len(w) /\ Len(w) \in Nat
  BY LenProperties
<1>2. \E g : Walks(g, w, 1 .. Len(w))
  BY <1>1, WalksExist
<1>3. Walks(CHOOSE g : Walks(g, w, 1 .. Len(w)), w, 1 .. Len(w))
  BY <1>2
<1> QED
  BY <1>1, <1>3, DecodedIs

(* Before the first record.                                                *)
LEMMA DecodedEmpty == Decoded(<< >>) = ClearedDecoder
<1>1. << >> \in Seq(Records) /\ Len(<< >>) = 0 /\ 1 .. 0 = {}
  OBVIOUS
<1>2. PICK g : Walks(g, << >>, 1 .. Len(<< >>)) /\ Decoded(<< >>) = g[1 .. Len(<< >>)]
  BY <1>1, DecodedBy
<1>3. Walks(g, << >>, {}) /\ Decoded(<< >>) = g[{}]
  BY <1>1, <1>2
<1> QED
  BY <1>3 DEF Walks

(* One more record is one more step of the walk.                           *)
LEMMA DecodedAppend ==
  ASSUME NEW w \in Seq(Records), NEW x \in Records
  PROVE  Decoded(Append(w, x)) = visit(Decoded(w), x)
<1> DEFINE v == Append(w, x)
           n == Len(w)
           m == Len(v)
<1>1. /\ v \in Seq(Records) /\ n \in Nat /\ m = n + 1 /\ m \in Nat /\ v[m] = x
      /\ \A i \in 1 .. n : w[i] = v[i]
  BY AppendProperties, LenProperties
<1>2. PICK g : Walks(g, w, 1 .. n) /\ Decoded(w) = g[1 .. n]
  BY DecodedBy
<1>3. PICK h : Walks(h, v, 1 .. m) /\ Decoded(v) = h[1 .. m]
  BY <1>1, DecodedBy
<1> HIDE DEF v, n, m
<1>4. g[1 .. n] = h[1 .. n]
  <2>1. n <= m
    BY <1>1
  <2> QED
    BY <1>1, <1>2, <1>3, <2>1, WalksAgree
<1>5. h[1 .. m] = visit(h[1 .. n], x)
  <2>1. /\ \A s \in SUBSET (1 .. m) : h[s] = IF s = {} THEN ClearedDecoder
                                    ELSE visit(h[s \ {Top(s)}], v[Top(s)])
    BY <1>3 DEF Walks
  <2>2. m # 0 /\ m - 1 = n
    BY <1>1
  <2>3. Top(1 .. m) = m /\ (1 .. m) \ {m} = 1 .. n /\ 1 .. m # {}
    BY <1>1, <2>2, TopOfFirst
  <2> QED
    BY <1>1, <2>1, <2>3
<1> QED
  BY <1>2, <1>3, <1>4, <1>5 DEF v

(* The records of one call.                                                *)
LEMMA DecodedMore ==
  ASSUME NEW w \in Seq(Records), NEW sent \in Seq(Records), Len(sent) <= 2
  PROVE  Decoded(w \o sent) = walk(Decoded(w), sent)
<1>1. Len(sent) \in Nat /\ \A i \in 1 .. Len(sent) : sent[i] \in Records
  BY LenProperties
<1>2. CASE Len(sent) = 0
  <2>1. sent = << >>
    BY <1>2, EmptySeq
  <2>2. w \o << >> = w
    BY ConcatEmptySeq
  <2> QED
    BY <1>2, <2>1, <2>2 DEF walk
<1>3. CASE Len(sent) = 1
  <2>1. sent[1] \in Records
    BY <1>1, <1>3
  <2>2. w \o sent = Append(w, sent[1])
    <3> DEFINE x == sent[1]
               one == <<x>>
    <3>1. sent = one
      BY <1>3
    <3>2. w \o one = Append(w, x)
      BY <2>1
    <3> QED
      BY <3>1, <3>2
  <2>3. walk(Decoded(w), sent) = visit(Decoded(w), sent[1])
    BY <1>3 DEF walk
  <2> QED
    BY <2>1, <2>2, <2>3, DecodedAppend
<1>4. CASE Len(sent) = 2
  <2> DEFINE x == sent[1]
             y == sent[2]
  <2>1. x \in Records /\ y \in Records
    BY <1>1, <1>4
  <2>2. w \o sent = Append(Append(w, x), y)
    <3>1. sent = <<x, y>>
      BY <1>4
    <3> HIDE DEF x, y
    <3>2. w \o <<x, y>> = Append(Append(w, x), y)
      BY <2>1
    <3> QED
      BY <3>1, <3>2
  <2>3. walk(Decoded(w), sent) = visit(visit(Decoded(w), x), y)
    BY <1>4 DEF walk
  <2> HIDE DEF x, y
  <2>4. Append(w, x) \in Seq(Records)
    BY <2>1, AppendProperties
  <2>5. Decoded(Append(Append(w, x), y)) = visit(Decoded(Append(w, x)), y)
    <3> DEFINE v == Append(w, x)
    <3> HIDE DEF v
    <3> QED
      BY <2>1, <2>4, DecodedAppend DEF v
  <2>6. Decoded(Append(w, x)) = visit(Decoded(w), x)
    BY <2>1, DecodedAppend
  <2> QED
    BY <2>2, <2>3, <2>5, <2>6
<1>5. \A l \in Nat : l <= 2 => l = 0 \/ l = 1 \/ l = 2
  OBVIOUS
<1>6. Len(sent) = 0 \/ Len(sent) = 1 \/ Len(sent) = 2
  <2> DEFINE l == Len(sent)
  <2>1. l \in Nat /\ l <= 2
    BY <1>1
  <2> HIDE DEF l
  <2>2. l = 0 \/ l = 1 \/ l = 2
    BY <1>5, <2>1
  <2> QED
    BY <2>2 DEF l
<1> QED
  BY <1>2, <1>3, <1>4, <1>6

-----------------------------------------------------------------------------
(* The parts of a callback                                                 *)

USE QpdlAssumption, PrintJobAssumption

(* The printable part of a raster lies inside it and inside the imageable  *)
(* area (m2022_jobmap_geometry).                                           *)
LEMMA GeometryFits ==
  ASSUME NEW h \in Nat
  PROVE  LET g == geometry(h, Printable, Margin)
         IN  /\ g \in [start : Nat, size : 0 .. Printable]
             /\ g.start + g.size <= h
<1> DEFINE start == IF h >= Printable + Margin THEN Margin ELSE 0
           size == IF h - start < Printable THEN h - start ELSE Printable
<1>1. /\ start \in Nat /\ size \in 0 .. Printable /\ start + size <= h
  OBVIOUS
<1>2. geometry(h, Printable, Margin) = [start |-> start, size |-> size]
  BY DEF geometry
<1> HIDE DEF start, size
<1> QED
  BY <1>1, <1>2

LEMMA NoJobType ==
  /\ NoJob \in JobStates
  /\ NoJob.set = FALSE /\ NoJob.job_open = FALSE /\ NoJob.page_open = FALSE
<1>1. geometry(1, Printable, Margin) \in [start : Nat, size : 0 .. Printable]
  BY GeometryFits
<1> QED
  BY <1>1 DEF NoJob, JobStates

LEMMA FatesType == \A n \in Nat : Fates(n) \subseteq SinkFates
  BY DEF Fates

(* What the device does with the records of one call.                      *)
LEMMA DeviceStep ==
  ASSUME Types, NEW rc, NEW sent \in Seq(Records), DeviceTakes(rc, sent)
  PROVE  /\ buf' \in Seq(Records) /\ usb' \in Seq(Records) /\ failed' \in BOOLEAN
         /\ failed' => failed \/ rc = "EIO"
         /\ ~failed' => ~failed /\ rc # "EIO" /\ Written' = Written \o sent
<1>1. /\ usb \in Seq(Records) /\ buf \in Seq(Records) /\ failed \in BOOLEAN
  BY DEF Types
<1>2. /\ usb \o buf \in Seq(Records) /\ buf \o sent \in Seq(Records)
      /\ usb \o sent \in Seq(Records) /\ (usb \o buf) \o sent \in Seq(Records)
      /\ << >> \in Seq(Records)
  BY <1>1, ConcatProperties, EmptySeq
<1>3. usb \o (buf \o sent) = (usb \o buf) \o sent
  BY <1>1, ConcatAssociative
<1>4. ((usb \o buf) \o sent) \o << >> = (usb \o buf) \o sent
  BY <1>2, ConcatEmptySeq
<1>5. CASE rc # "EIO" /\ buf' = buf \o sent /\ usb' = usb /\ failed' = failed
  <2>1. Written' = Written \o sent
    BY <1>3, <1>5 DEF Written
  <2> QED
    BY <1>1, <1>2, <1>5, <2>1
<1>6. CASE rc # "EIO" /\ usb' = usb \o buf \o sent /\ buf' = << >> /\ failed' = failed
  <2>1. Written' = Written \o sent
    BY <1>4, <1>6 DEF Written
  <2> QED
    BY <1>1, <1>2, <1>6, <2>1
<1>7. CASE rc = "EIO" /\ usb' = usb \o sent /\ buf' = << >> /\ failed' = TRUE
  BY <1>2, <1>7
<1> QED
  BY <1>5, <1>6, <1>7 DEF DeviceTakes

(* A call that wrote nothing leaves the stream as it is.                   *)
LEMMA NothingMore == ASSUME Types PROVE Written \in Seq(Records) /\ Written \o << >> = Written
  BY ConcatProperties, ConcatEmptySeq DEF Types, Written

(* A stream that is empty before a record is that record.                  *)
LEMMA FirstRecord == ASSUME NEW x \in Records PROVE << >> \o <<x>> = <<x>>
  OBVIOUS

-----------------------------------------------------------------------------
(* The callbacks                                                           *)

LEMMA StartJobStep ==
  ASSUME IInv, NEW allocated \in BOOLEAN, NEW known \in BOOLEAN, NEW f \in SinkFates,
         cb_rstartjob(allocated, known, f)
  PROVE  IInv'
<1> DEFINE begun == allocated /\ known
           r == IF begun THEN begin_job(ClearedEncoder, TRUE, f)
                ELSE Return(ClearedEncoder, "EINVAL", f)
<1>1. /\ at = "idle" /\ at' = "job" /\ sheet' = << >> /\ left' = 0
      /\ j' = [NoJob EXCEPT !.set = allocated, !.job_open = (r.rc = "OK")]
      /\ enc' = r.e /\ DeviceTakes(r.rc, r.sent) /\ told' = (r.rc # "OK")
  BY DEF cb_rstartjob
<1>2. r \in Results
  BY BlankTypes, CallTypes, ReturnType DEF ReturnCodes
<1>3. r.e \in EncoderStates /\ r.sent \in Seq(Records)
  BY <1>2 DEF Results
<1>4. /\ begun => /\ r.rc \in {"OK", "EIO"} /\ r.e.in_job /\ ~r.e.in_page
                  /\ r.rc = "OK" => r.sent = <<Envelope>> /\ Legal(<<Envelope>>, r.e)
      /\ ~begun => r.rc = "EINVAL" /\ r.sent = << >>
  <2>1. CASE begun
    <3>1. r = begin_job(ClearedEncoder, TRUE, f)
      BY <2>1
    <3>2. ClearedEncoder \in EncoderStates
      BY BlankTypes
    <3> HIDE DEF r
    <3> QED
      BY <2>1, <3>1, <3>2, BeginJobLegal
  <2>2. CASE ~begun
    BY <2>2 DEF Return
  <2> QED
    BY <2>1, <2>2
<1> HIDE DEF r
<1>5. /\ j' \in JobStates /\ (j'.job_open <=> r.rc = "OK") /\ ~j'.page_open
  BY <1>1, NoJobType DEF JobStates
<1>6. Types /\ ~failed /\ Written = << >>
  BY <1>1, ConcatEmptySeq DEF IInv, Fresh, Types, Written
<1>7. /\ buf' \in Seq(Records) /\ usb' \in Seq(Records) /\ failed' \in BOOLEAN
      /\ failed' => r.rc = "EIO"
      /\ ~failed' => r.rc # "EIO" /\ Written' = Written \o r.sent
  BY <1>1, <1>3, <1>6, DeviceStep
<1>8. Types'
  BY <1>1, <1>3, <1>5, <1>7, EmptySeq DEF Types
<1>9. Fresh' /\ Emptied' /\ WellFormedAtEnd'
  BY <1>1 DEF Fresh, Emptied, WellFormedAtEnd
<1>10. FailureTold'
  BY <1>1, <1>7 DEF FailureTold
<1>11. ASSUME ~failed' PROVE NotBegun' /\ Begun' /\ OnPage'
  <2>1. CASE begun
    <3>1. r.rc = "OK" /\ j'.job_open
      BY <1>4, <1>5, <1>7, <1>11, <2>1
    <3>2. Written' = <<Envelope>>
      BY <1>4, <1>6, <1>7, <1>11, <2>1, <3>1, FirstRecord, PlainTypes
    <3> QED
      BY <1>1, <1>4, <1>5, <2>1, <3>1, <3>2 DEF NotBegun, Begun, OnPage
  <2>2. CASE ~begun
    <3>1. Written' = << >>
      BY <1>4, <1>6, <1>7, <1>11, <2>2, ConcatEmptySeq
    <3> QED
      BY <1>1, <1>4, <1>5, <2>2, <3>1 DEF NotBegun, Begun, OnPage
  <2> QED
    BY <2>1, <2>2
<1> QED
  BY <1>8, <1>9, <1>10, <1>11 DEF IInv, Going

LEMMA StartPageStep ==
  ASSUME IInv, NEW usable \in BOOLEAN, NEW h \in Rasters, NEW f \in SinkFates,
         cb_rstartpage(usable, h, f)
  PROVE  IInv'
<1> DEFINE refused == ~j.set \/ ~j.job_open \/ ~usable
           r == IF refused THEN Return(enc, "EINVAL", f)
                ELSE begin_page(enc, "ok", TRUE, f)
           ok == r.rc = "OK"
<1>1. /\ at = "job" /\ at' = (IF ok THEN "page" ELSE "job")
      /\ sheet' = << >> /\ left' = (IF ok THEN h ELSE 0)
      /\ j' = IF refused THEN j
              ELSE [j EXCEPT !.page_open = ok,
                             !.geo = geometry(h, Printable, Margin)]
      /\ enc' = r.e /\ DeviceTakes(r.rc, r.sent)
      /\ told' = (told \/ ~ok)
  BY DEF cb_rstartpage
<1>2. Types /\ enc \in EncoderStates /\ j \in JobStates /\ told \in BOOLEAN
  BY DEF IInv, Types
<1>3. r \in Results
  BY <1>2, CallTypes, ReturnType DEF ReturnCodes
<1>4. r.e \in EncoderStates /\ r.sent \in Seq(Records)
  BY <1>3 DEF Results
<1>5. refused => r.rc = "EINVAL" /\ r.e = enc /\ r.sent = << >>
  BY DEF Return
<1>6. ~refused => r = begin_page(enc, "ok", TRUE, f)
  OBVIOUS
<1> HIDE DEF r
<1>7. h \in Nat /\ geometry(h, Printable, Margin) \in [start : Nat, size : 0 .. Printable]
  BY GeometryFits
<1>8. /\ j' \in JobStates /\ j'.job_open = j.job_open
      /\ ~refused => (j'.page_open <=> ok)
  BY <1>1, <1>2, <1>7 DEF JobStates
<1>9. /\ buf' \in Seq(Records) /\ usb' \in Seq(Records) /\ failed' \in BOOLEAN
      /\ failed' => failed \/ r.rc = "EIO"
      /\ ~failed' => ~failed /\ r.rc # "EIO" /\ Written' = Written \o r.sent
  BY <1>1, <1>2, <1>4, DeviceStep
<1>10. Types'
  BY <1>1, <1>2, <1>4, <1>7, <1>8, <1>9, EmptySeq DEF Types
<1>11. Fresh' /\ Emptied' /\ WellFormedAtEnd'
  BY <1>1 DEF Fresh, Emptied, WellFormedAtEnd
<1>12. FailureTold'
  BY <1>1, <1>2, <1>9 DEF FailureTold, IInv
<1>13. ASSUME ~failed' PROVE NotBegun' /\ Begun' /\ OnPage'
  <2>1. NotBegun /\ Begun /\ Written \in Seq(Records) /\ Written \o << >> = Written
    BY <1>1, <1>2, <1>9, <1>13, NothingMore DEF IInv, Going
  <2>2. CASE refused
    <3>1. at' = "job" /\ j' = j /\ enc' = enc /\ Written' = Written
      BY <1>1, <1>5, <1>9, <1>13, <2>1, <2>2
    <3> QED
      BY <1>1, <2>1, <3>1 DEF NotBegun, Begun, OnPage
  <2>3. CASE ~refused
    <3>1. Legal(Written, enc) /\ enc.in_job /\ ~enc.in_page
      BY <1>1, <2>1, <2>3 DEF Begun
    <3>2. /\ r.rc \in {"OK", "EIO"}
          /\ r.rc = "OK" => /\ Legal(Written \o r.sent, r.e) /\ r.e.in_job /\ r.e.in_page
                            /\ r.e.lines = 0 /\ Numbered(r.e)
      <4> DEFINE w == Written
      <4>1. w \in Seq(Records) /\ Legal(w, enc)
        BY <2>1, <3>1
      <4> HIDE DEF w
      <4>2. /\ r.rc \in {"OK", "EIO"}
            /\ r.rc = "OK" => /\ Legal(w \o r.sent, r.e) /\ r.e.in_job /\ r.e.in_page
                              /\ r.e.lines = 0 /\ Numbered(r.e)
        BY <1>2, <1>6, <2>3, <3>1, <4>1, BeginPageLegal
      <4> QED
        BY <4>2 DEF w
    <3>3. r.rc = "OK" /\ at' = "page" /\ Written' = Written \o r.sent
      BY <1>1, <1>9, <1>13, <3>2
    <3>4. j'.geo.size \in 0 .. Printable
      BY <1>8 DEF JobStates
    <3>5. j.job_open
      BY <2>3
    <3>6. OnPage'
      BY <1>1, <3>2, <3>3, <3>4 DEF OnPage, Numbered
    <3>7. Begun' /\ NotBegun'
      BY <1>1, <1>8, <2>3, <3>2, <3>3, <3>5 DEF NotBegun, Begun
    <3> QED
      BY <3>6, <3>7
  <2> QED
    BY <2>2, <2>3
<1> QED
  BY <1>10, <1>11, <1>12, <1>13 DEF IInv, Going

(* A page has room for the line that is not skipped.                       *)
LEMMA RoomForLine ==
  ASSUME Types, OnPage, at = "page",
         ~(Len(sheet) < j.geo.start \/ Len(sheet) >= j.geo.start + j.geo.size)
  PROVE  /\ enc.lines < (MaxBand + 1) * BandLines
         /\ enc.lines + 1 <= j.geo.size
         /\ enc.lines + 1 <= Len(sheet) + 1 - j.geo.start
<1> DEFINE l == enc.lines
           y == Len(sheet)
           start == j.geo.start
           size == j.geo.size
           top == (MaxBand + 1) * BandLines
<1>1. l \in Nat /\ y \in Nat /\ start \in Nat /\ size \in 0 .. Printable
  BY LenProperties DEF Types, EncoderStates, JobStates
<1>2. l <= size /\ (l = 0 \/ l <= y - start) /\ ~(y < start \/ y >= start + size)
  BY DEF OnPage
<1>3. top \in Nat /\ Printable \in 1 .. top
  OBVIOUS
<1> HIDE DEF l, y, start, size, top
<1>4. l < top /\ l + 1 <= size /\ l + 1 <= y + 1 - start
  BY <1>1, <1>2, <1>3
<1> QED
  BY <1>4 DEF l, y, start, size, top

LEMMA WriteLineStep ==
  ASSUME IInv, NEW ink \in Ink, NEW f \in SinkFates, cb_rwriteline(ink, f)
  PROVE  IInv'
<1> DEFINE line == [px |-> ink, spill |-> FALSE]
           skip == Len(sheet) < j.geo.start \/ Len(sheet) >= j.geo.start + j.geo.size
           r == IF ~j.page_open THEN Return(enc, "ESTATE", f)
                ELSE IF skip THEN Return(enc, "OK", f)
                ELSE write_line(enc, line, f)
<1>1. /\ at = "page" /\ at' = at /\ left > 0 /\ j' = j
      /\ sheet' = Append(sheet, ink) /\ left' = left - 1
      /\ enc' = r.e /\ DeviceTakes(r.rc, r.sent)
      /\ told' = (told \/ r.rc # "OK")
  BY DEF cb_rwriteline
<1>2. Types /\ enc \in EncoderStates /\ j \in JobStates /\ told \in BOOLEAN
  BY DEF IInv, Types
<1>3. line \in Line
  BY DEF Line
<1>4. r \in Results
  BY <1>2, <1>3, CallTypes, ReturnType DEF ReturnCodes
<1>5. r.e \in EncoderStates /\ r.sent \in Seq(Records)
  BY <1>4 DEF Results
<1>6. /\ j.page_open /\ skip => r.rc = "OK" /\ r.e = enc /\ r.sent = << >>
      /\ j.page_open /\ ~skip => r = write_line(enc, line, f)
  BY DEF Return
<1> HIDE DEF r, line
<1>7. /\ buf' \in Seq(Records) /\ usb' \in Seq(Records) /\ failed' \in BOOLEAN
      /\ failed' => failed \/ r.rc = "EIO"
      /\ ~failed' => ~failed /\ r.rc # "EIO" /\ Written' = Written \o r.sent
  BY <1>1, <1>2, <1>5, DeviceStep
<1>8. /\ sheet' \in Seq(Ink) /\ Len(sheet') = Len(sheet) + 1 /\ Len(sheet) \in Nat
      /\ left' \in Nat
  BY <1>1, <1>2, AppendProperties, LenProperties DEF Types
<1>9. Types'
  BY <1>1, <1>2, <1>5, <1>7, <1>8 DEF Types
<1>10. Fresh' /\ Emptied' /\ WellFormedAtEnd'
  BY <1>1 DEF Fresh, Emptied, WellFormedAtEnd
<1>11. FailureTold'
  BY <1>1, <1>2, <1>7 DEF FailureTold, IInv
<1>12. ASSUME ~failed' PROVE NotBegun' /\ Begun' /\ OnPage'
  <2>1. /\ NotBegun /\ Begun /\ OnPage
        /\ Written \in Seq(Records) /\ Written \o << >> = Written
    BY <1>1, <1>2, <1>7, <1>12, NothingMore DEF IInv, Going
  <2>2. /\ j.job_open /\ j.page_open /\ Legal(Written, enc)
        /\ enc.in_job /\ enc.in_page /\ Numbered(enc)
    BY <1>1, <2>1 DEF NotBegun, Begun, OnPage
  <2>3. CASE skip
    <3>1. enc' = enc /\ Written' = Written
      BY <1>1, <1>6, <1>7, <1>12, <2>1, <2>2, <2>3
    <3>2. OnPage'
      <4> DEFINE l == enc.lines
                 y == Len(sheet)
                 start == j.geo.start
      <4>1. l \in Nat /\ y \in Nat /\ start \in Nat /\ (l = 0 \/ l <= y - start)
        BY <1>1, <1>2, <1>8, <2>1 DEF OnPage, EncoderStates, JobStates
      <4> HIDE DEF l, y, start
      <4>2. l = 0 \/ l <= y + 1 - start
        BY <4>1
      <4>3. /\ enc'.band_number = enc'.lines \div BandLines /\ enc'.lines <= j'.geo.size
            /\ enc'.lines = 0 \/ enc'.lines <= Len(sheet') - j'.geo.start
        <5>1. enc'.band_number = enc'.lines \div BandLines /\ enc'.lines <= j'.geo.size
          BY <1>1, <2>1, <3>1 DEF OnPage, Numbered
        <5>2. enc'.lines = 0 \/ enc'.lines <= Len(sheet') - j'.geo.start
          <6> DEFINE z == Len(sheet')
          <6>1. z = y + 1 /\ enc'.lines = l /\ j'.geo.start = start
            BY <1>1, <1>8, <3>1 DEF l, y, start
          <6> HIDE DEF z
          <6>2. l = 0 \/ l <= z - start
            BY <4>1, <4>2, <6>1
          <6> QED
            BY <6>1, <6>2 DEF z
        <5> QED
          BY <5>1, <5>2
      <4> QED
        BY <4>3 DEF OnPage, Numbered
    <3> QED
      BY <1>1, <2>1, <3>1, <3>2 DEF NotBegun, Begun
  <2>4. CASE ~skip
    <3>1. /\ enc.lines < (MaxBand + 1) * BandLines /\ enc.lines + 1 <= j.geo.size
          /\ enc.lines + 1 <= Len(sheet) + 1 - j.geo.start
      BY <1>1, <1>2, <2>1, <2>4, RoomForLine
    <3>2. /\ r.rc \in {"OK", "EIO"}
          /\ r.rc = "OK" => /\ Legal(Written \o r.sent, r.e) /\ r.e.in_job /\ r.e.in_page
                            /\ r.e.lines = enc.lines + 1 /\ Numbered(r.e)
      <4> DEFINE w == Written
      <4>1. w \in Seq(Records) /\ Legal(w, enc) /\ r = write_line(enc, line, f)
        BY <1>6, <2>1, <2>2, <2>4
      <4> HIDE DEF w
      <4>2. /\ r.rc \in {"OK", "EIO"}
            /\ r.rc = "OK" => /\ Legal(w \o r.sent, r.e) /\ r.e.in_job /\ r.e.in_page
                              /\ r.e.lines = enc.lines + 1 /\ Numbered(r.e)
        BY <1>2, <1>3, <2>2, <3>1, <4>1, WriteLineLegal
      <4> QED
        BY <4>2 DEF w
    <3>3. r.rc = "OK" /\ Written' = Written \o r.sent
      BY <1>7, <1>12, <3>2
    <3>4. OnPage'
      <4>1. enc'.band_number = enc'.lines \div BandLines /\ enc'.lines = enc.lines + 1
        BY <1>1, <3>2, <3>3 DEF Numbered
      <4>2. enc'.lines <= j'.geo.size /\ enc'.lines <= Len(sheet') - j'.geo.start
        <5> DEFINE y == Len(sheet)
                   z == Len(sheet')
                   l == enc.lines
                   m == enc'.lines
                   g == j.geo
        <5>1. z = y + 1 /\ j'.geo = g /\ m = l + 1
          BY <1>1, <1>8, <4>1
        <5>2. /\ l + 1 <= g.size /\ l + 1 <= y + 1 - g.start
              /\ l \in Nat /\ y \in Nat /\ g.size \in Nat /\ g.start \in Nat
          BY <1>2, <1>8, <3>1 DEF EncoderStates, JobStates
        <5> HIDE DEF y, z, l, m, g
        <5>3. m <= g.size /\ m <= z - g.start
          BY <5>1, <5>2
        <5> QED
          BY <5>1, <5>3 DEF z, m
      <4> QED
        BY <4>1, <4>2 DEF OnPage, Numbered
    <3>5. NotBegun' /\ Begun'
      BY <1>1, <2>2, <3>2, <3>3 DEF NotBegun, Begun
    <3> QED
      BY <3>4, <3>5
  <2> QED
    BY <2>3, <2>4
<1> QED
  BY <1>1, <1>9, <1>10, <1>11, <1>12 DEF IInv, Going

(* Ending the page of a job that had no failure.                           *)
LEMMA OpenPageEnds ==
  ASSUME Types, NotBegun, Begun, OnPage, at = "page", NEW f \in SinkFates,
         NEW r, r = end_page(enc, f)
  PROVE  /\ r.rc \in {"OK", "EIO"}
         /\ r.rc = "OK" => Legal(Written \o r.sent, r.e) /\ r.e.in_job /\ ~r.e.in_page
<1>1. /\ Legal(Written, enc) /\ enc.in_page /\ Numbered(enc) /\ enc \in EncoderStates
      /\ Written \in Seq(Records)
  BY NothingMore DEF Types, NotBegun, Begun, OnPage
<1>2. enc.lines <= (MaxBand + 1) * BandLines
  <2> DEFINE l == enc.lines
             size == j.geo.size
             top == (MaxBand + 1) * BandLines
  <2>1. l \in Nat /\ size \in 0 .. Printable /\ l <= size
    BY DEF Types, OnPage, EncoderStates, JobStates
  <2>2. top \in Nat /\ Printable \in 1 .. top
    OBVIOUS
  <2> HIDE DEF l, size, top
  <2>3. l <= top
    BY <2>1, <2>2
  <2> QED
    BY <2>3 DEF l, top
<1> DEFINE w == Written
<1>3. w \in Seq(Records) /\ Legal(w, enc)
  BY <1>1
<1> HIDE DEF w
<1>4. /\ r.rc \in {"OK", "EIO"}
      /\ r.rc = "OK" => Legal(w \o r.sent, r.e) /\ r.e.in_job /\ ~r.e.in_page
  BY <1>1, <1>2, <1>3, EndPageLegal
<1> QED
  BY <1>4 DEF w

LEMMA EndPageStep ==
  ASSUME IInv, NEW f \in SinkFates, cb_rendpage(f)
  PROVE  IInv'
<1> DEFINE r == IF ~j.page_open THEN Return(enc, "ESTATE", f) ELSE end_page(enc, f)
<1>1. /\ at = "page" /\ at' = "job" /\ j' = [j EXCEPT !.page_open = FALSE]
      /\ sheet' = sheet /\ left' = left
      /\ enc' = r.e /\ DeviceTakes(r.rc, r.sent)
      /\ told' = (told \/ r.rc # "OK")
  BY DEF cb_rendpage
<1>2. Types /\ enc \in EncoderStates /\ j \in JobStates /\ told \in BOOLEAN
  BY DEF IInv, Types
<1>3. r \in Results
  BY <1>2, CallTypes, ReturnType DEF ReturnCodes
<1>4. r.e \in EncoderStates /\ r.sent \in Seq(Records)
  BY <1>3 DEF Results
<1>5. j.page_open => r = end_page(enc, f)
  OBVIOUS
<1> HIDE DEF r
<1>6. j' \in JobStates /\ j'.job_open = j.job_open /\ ~j'.page_open
  BY <1>1, <1>2 DEF JobStates
<1>7. /\ buf' \in Seq(Records) /\ usb' \in Seq(Records) /\ failed' \in BOOLEAN
      /\ failed' => failed \/ r.rc = "EIO"
      /\ ~failed' => ~failed /\ r.rc # "EIO" /\ Written' = Written \o r.sent
  BY <1>1, <1>2, <1>4, DeviceStep
<1>8. Types'
  BY <1>1, <1>2, <1>4, <1>6, <1>7 DEF Types
<1>9. Fresh' /\ Emptied' /\ WellFormedAtEnd'
  BY <1>1 DEF Fresh, Emptied, WellFormedAtEnd
<1>10. FailureTold'
  BY <1>1, <1>2, <1>7 DEF FailureTold, IInv
<1>11. ASSUME ~failed' PROVE NotBegun' /\ Begun' /\ OnPage'
  <2>1. NotBegun /\ Begun /\ OnPage
    BY <1>1, <1>7, <1>11 DEF IInv, Going
  <2>2. j.job_open /\ j.page_open
    BY <1>1, <2>1 DEF NotBegun, Begun
  <2>3. /\ r.rc \in {"OK", "EIO"}
        /\ r.rc = "OK" => Legal(Written \o r.sent, r.e) /\ r.e.in_job /\ ~r.e.in_page
    BY <1>1, <1>2, <1>5, <2>1, <2>2, OpenPageEnds
  <2>4. r.rc = "OK" /\ Written' = Written \o r.sent
    BY <1>7, <1>11, <2>3
  <2> QED
    BY <1>1, <1>6, <2>2, <2>3, <2>4 DEF NotBegun, Begun, OnPage
<1> QED
  BY <1>8, <1>9, <1>10, <1>11 DEF IInv, Going

(* What cb_rendjob hands to the device completes the job, or there was no  *)
(* job and it hands over nothing.                                          *)
LEMMA EndJobCompletes ==
  ASSUME Types, NotBegun, Begun, OnPage, at \in {"job", "page"},
         NEW f \in SinkFates, NEW g \in SinkFates,
         NEW p \in Results, p = CloseOpenPage(f), p.rc # "EIO",
         NEW r \in Results,
         r = IF j.job_open THEN end_job(p.e, g) ELSE Return(p.e, "OK", g),
         r.rc # "EIO"
  PROVE  LET w == (Written \o p.sent) \o r.sent IN w = << >> \/ CompleteJob(w)
<1>1. Written \in Seq(Records) /\ Written \o << >> = Written
  BY NothingMore
<1>2. /\ p.e \in EncoderStates /\ p.sent \in Seq(Records)
      /\ enc \in EncoderStates
  BY DEF Results, Types
<1>3. CASE j.job_open
  <2>1. Legal(Written \o p.sent, p.e) /\ p.e.in_job /\ ~p.e.in_page
    <3>1. CASE at = "page"
      <4>1. p = end_page(enc, f)
        BY <1>3, <3>1 DEF Begun, CloseOpenPage
      <4>2. /\ p.rc \in {"OK", "EIO"}
            /\ p.rc = "OK" => Legal(Written \o p.sent, p.e) /\ p.e.in_job /\ ~p.e.in_page
        BY <3>1, <4>1, OpenPageEnds
      <4> QED
        BY <4>2
    <3>2. CASE at # "page"
      <4>1. p.e = enc /\ p.sent = << >>
        BY <1>3, <3>2 DEF Begun, CloseOpenPage, Return
      <4> QED
        BY <1>1, <1>3, <3>2, <4>1 DEF Begun
    <3> QED
      BY <3>1, <3>2
  <2> DEFINE w == Written \o p.sent
             s == p.e
  <2>2. /\ w \in Seq(Records) /\ Legal(w, s) /\ s.in_job /\ ~s.in_page
        /\ s \in EncoderStates /\ r = end_job(s, g)
    BY <1>1, <1>2, <1>3, <2>1, ConcatProperties
  <2> HIDE DEF w, s
  <2>3. r.rc \in {"OK", "EIO"} /\ (r.rc = "OK" => CompleteJob(w \o r.sent))
    BY <2>2, EndJobLegal
  <2> QED
    BY <2>3 DEF w
<1>4. CASE ~j.job_open
  <2>1. Written = << >> /\ ~j.page_open
    BY <1>4 DEF NotBegun
  <2>2. p.sent = << >> /\ r.sent = << >>
    BY <1>4, <2>1 DEF CloseOpenPage, Return
  <2> QED
    BY <1>1, <2>1, <2>2
<1> QED
  BY <1>3, <1>4

(* What the device writes out at the end of a job.                         *)
LEMMA LastRecords ==
  ASSUME Types, NEW a \in Seq(Records), NEW b \in Seq(Records)
  PROVE  /\ usb \o (buf \o a \o b) \in Seq(Records)
         /\ usb \o (buf \o a \o b) = (Written \o a) \o b
<1>1. usb \in Seq(Records) /\ buf \in Seq(Records)
  BY DEF Types
<1>2. buf \o a \in Seq(Records) /\ (buf \o a) \o b \in Seq(Records)
  BY <1>1, ConcatProperties
<1>3. usb \o ((buf \o a) \o b) \in Seq(Records)
  BY <1>1, <1>2, ConcatProperties
<1>4. usb \o ((buf \o a) \o b) = (usb \o (buf \o a)) \o b
  <2> DEFINE u == buf \o a
             S == Records
             x == usb
  <2>1. x \in Seq(S) /\ u \in Seq(S) /\ b \in Seq(S)
    BY <1>1, <1>2
  <2> HIDE DEF u, S, x
  <2>2. (x \o u) \o b = x \o (u \o b)
    BY <2>1, ConcatAssociative
  <2> QED
    BY <2>2 DEF u, x
<1>5. usb \o (buf \o a) = (usb \o buf) \o a
  BY <1>1, ConcatAssociative
<1> QED
  BY <1>3, <1>4, <1>5 DEF Written

LEMMA EndJobStep ==
  ASSUME IInv, NEW f \in SinkFates, NEW g \in SinkFates, NEW flushes \in BOOLEAN,
         cb_rendjob(f, g, flushes)
  PROVE  IInv'
<1> DEFINE p == CloseOpenPage(f)
           r == IF j.job_open THEN end_job(p.e, g) ELSE Return(p.e, "OK", g)
           out == buf \o p.sent \o r.sent
<1>1. /\ at \in {"job", "page"} /\ at' = "ended" /\ j' = NoJob
      /\ enc' = ClearedEncoder /\ sheet' = sheet /\ left' = left
      /\ usb' = (IF flushes THEN usb \o out ELSE usb) /\ buf' = << >>
      /\ failed' = (failed \/ p.rc = "EIO" \/ r.rc = "EIO")
      /\ unflushed' = ~flushes
      /\ told' = (told \/ p.rc # "OK" \/ r.rc # "OK")
  BY DEF cb_rendjob
<1>2. Types /\ enc \in EncoderStates /\ usb \in Seq(Records) /\ buf \in Seq(Records)
  BY DEF IInv, Types
<1>3. p \in Results
  BY <1>2, CallTypes, ReturnType DEF CloseOpenPage, ReturnCodes
<1>4. p.e \in EncoderStates /\ p.sent \in Seq(Records)
  BY <1>3 DEF Results
<1>5. p = CloseOpenPage(f)
  OBVIOUS
<1> HIDE DEF p
<1>6. r \in Results
  BY <1>4, CallTypes, ReturnType DEF ReturnCodes
<1>7. r.sent \in Seq(Records)
  BY <1>6 DEF Results
<1>8. r = IF j.job_open THEN end_job(p.e, g) ELSE Return(p.e, "OK", g)
  OBVIOUS
<1> HIDE DEF r
<1>9. /\ usb \o out \in Seq(Records)
      /\ usb \o out = (Written \o p.sent) \o r.sent
  <2> DEFINE a == p.sent
             b == r.sent
  <2>1. a \in Seq(Records) /\ b \in Seq(Records)
    BY <1>4, <1>7
  <2> HIDE DEF a, b
  <2> QED
    BY <1>2, <2>1, LastRecords DEF a, b
<1> HIDE DEF out
<1>10. Types'
  <2>1. usb' \in Seq(Records) /\ buf' \in Seq(Records)
    BY <1>1, <1>2, <1>9, EmptySeq
  <2>2. told' \in BOOLEAN /\ failed' \in BOOLEAN
    BY <1>1, <1>2 DEF Types
  <2> QED
    BY <1>1, <1>2, <2>1, <2>2, NoJobType, BlankTypes DEF Types
<1>11. Fresh' /\ Emptied' /\ Going'
  BY <1>1 DEF Fresh, Emptied, Going
<1>12. FailureTold'
  BY <1>1, <1>2 DEF FailureTold, IInv, Types
<1>13. ASSUME ~failed', ~unflushed' PROVE usb' = << >> \/ CompleteJob(usb')
  <2>1. ~failed /\ p.rc # "EIO" /\ r.rc # "EIO" /\ flushes
    BY <1>1, <1>13
  <2>2. NotBegun /\ Begun /\ OnPage
    BY <1>1, <2>1 DEF IInv, Going
  <2>3. LET w == (Written \o p.sent) \o r.sent IN w = << >> \/ CompleteJob(w)
    BY <1>1, <1>2, <1>3, <1>5, <1>6, <1>8, <2>1, <2>2, EndJobCompletes
  <2>4. usb' = (Written \o p.sent) \o r.sent
    BY <1>1, <1>9, <2>1
  <2> QED
    BY <2>3, <2>4
<1>14. WellFormedAtEnd'
  BY <1>13 DEF WellFormedAtEnd
<1> QED
  BY <1>10, <1>11, <1>12, <1>14 DEF IInv

LEMMA AbandonStep ==
  ASSUME IInv, Abandon PROVE IInv'
<1>1. /\ at = "job" /\ ~j.job_open /\ at' = "ended" /\ j' = NoJob
      /\ enc' = ClearedEncoder /\ buf' = << >>
      /\ UNCHANGED <<sheet, left, usb, told, failed, unflushed>>
  BY DEF Abandon
<1>2. Types
  BY DEF IInv
<1>3. Types'
  BY <1>1, <1>2, NoJobType, BlankTypes, EmptySeq DEF Types
<1>4. Fresh' /\ Emptied' /\ Going' /\ FailureTold'
  BY <1>1 DEF Fresh, Emptied, Going, FailureTold, IInv
<1>5. ~failed => usb = << >>
  <2>1. ASSUME ~failed PROVE usb = << >>
    <3>1. usb \o buf = << >> /\ usb \in Seq(Records) /\ buf \in Seq(Records)
      BY <1>1, <1>2, <2>1 DEF IInv, Going, NotBegun, Written, Types
    <3>2. Len(usb) + Len(buf) = 0 /\ Len(usb) \in Nat /\ Len(buf) \in Nat
      BY <3>1, ConcatProperties, LenProperties, EmptySeq
    <3> QED
      BY <3>1, <3>2, EmptySeq
  <2> QED
    BY <2>1
<1> QED
  BY <1>1, <1>3, <1>4, <1>5 DEF IInv, WellFormedAtEnd

LEMMA CloseDeviceStep ==
  ASSUME IInv, CloseDevice PROVE IInv'
<1>1. /\ at = "ended" /\ at' = "idle" /\ sheet' = << >> /\ left' = 0 /\ usb' = << >>
      /\ told' = FALSE /\ failed' = FALSE
      /\ UNCHANGED <<j, enc, buf>>
  BY DEF CloseDevice
<1>2. Types'
  BY <1>1, EmptySeq DEF IInv, Types
<1> QED
  BY <1>1, <1>2 DEF IInv, Fresh, Emptied, Going, WellFormedAtEnd, FailureTold

-----------------------------------------------------------------------------
(* The induction                                                           *)

LEMMA IInvInit == Init => IInv
<1> SUFFICES ASSUME Init PROVE IInv
  OBVIOUS
<1>1. Types
  BY NoJobType, BlankTypes, EmptySeq DEF Init, Types
<1> QED
  BY <1>1 DEF Init, IInv, Fresh, Emptied, Going, WellFormedAtEnd, FailureTold

LEMMA IInvStep == IInv /\ [Next]_vars => IInv'
<1> SUFFICES ASSUME IInv, [Next]_vars PROVE IInv'
  OBVIOUS
<1>1. Fates(1) \subseteq SinkFates /\ Fates(2) \subseteq SinkFates
  BY FatesType
<1>2. CASE UNCHANGED vars
  BY <1>2 DEF vars, IInv, Types, Fresh, Emptied, Going, NotBegun, Begun, OnPage,
         Numbered, Legal, LastOf, Written, WellFormedAtEnd, FailureTold
<1>3. ASSUME NEW allocated \in BOOLEAN, NEW known \in BOOLEAN, NEW f \in Fates(1),
             cb_rstartjob(allocated, known, f)
      PROVE  IInv'
  BY <1>1, <1>3, StartJobStep
<1>4. ASSUME NEW usable \in BOOLEAN, NEW h \in Rasters, NEW f \in Fates(1),
             cb_rstartpage(usable, h, f)
      PROVE  IInv'
  BY <1>1, <1>4, StartPageStep
<1>5. ASSUME NEW ink \in Ink, NEW f \in Fates(1), cb_rwriteline(ink, f)
      PROVE  IInv'
  BY <1>1, <1>5, WriteLineStep
<1>6. ASSUME NEW f \in Fates(2), cb_rendpage(f) PROVE IInv'
  BY <1>1, <1>6, EndPageStep
<1>7. ASSUME NEW f \in Fates(2), NEW g \in Fates(1), NEW flushes \in BOOLEAN,
             cb_rendjob(f, g, flushes)
      PROVE  IInv'
  BY <1>1, <1>7, EndJobStep
<1> QED
  BY <1>2, <1>3, <1>4, <1>5, <1>6, <1>7, AbandonStep, CloseDeviceStep
     DEF Next, Callback, Finish

LEMMA IInvHolds == Spec => []IInv
  BY IInvInit, IInvStep, PTL DEF Spec

(***************************************************************************)
(* cb_rendjob closes what is open: for every imageable area of at most     *)
(* MaxBand + 1 bands, every raster and every order of callbacks, a job     *)
(* that no write failed in has left the printer a whole job, or nothing,   *)
(* at whatever moment PAPPL stopped it.                                    *)
(***************************************************************************)
THEOREM WellFormedAtEndHolds == Spec => []WellFormedAtEnd
<1>1. IInv => WellFormedAtEnd
  BY DEF IInv
<1> QED
  BY <1>1, IInvHolds, PTL

(***************************************************************************)
(* A write that fails in any callback makes a callback of the job return   *)
(* false, whatever was called afterwards.                                  *)
(***************************************************************************)
THEOREM FailureToldHolds == Spec => []FailureTold
<1>1. IInv => FailureTold
  BY DEF IInv
<1> QED
  BY <1>1, IInvHolds, PTL

-----------------------------------------------------------------------------
(***************************************************************************)
(* What is printed.  The invariant above knows that the stream is legal;   *)
(* that it shows the pages needs the reader: Reader is the reader of all   *)
(* records written so far, in the printer or still in the device.  As long *)
(* as no callback returned false, the pages it shows are copies of those   *)
(* in book, and the page it assembles is the part of the sheet that        *)
(* cb_rwriteline did not skip.                                             *)
(***************************************************************************)
Reader == Decoded(Written)

Sheets == {page \in [h : Nat, lines : Seq(Ink)] : Len(page.lines) <= page.h}

(* The picture p is the printable part of the page, as far as it came.     *)
Cuts(p, page) ==
  LET g == geometry(page.h, Printable, Margin)
  IN  /\ Len(p) <= g.size
      /\ Len(p) = 0 \/ g.start + Len(p) <= Len(page.lines)
      /\ Len(p) = g.size \/ Len(page.lines) <= g.start + Len(p)
      /\ \A n \in 1 .. Len(p) : p[n] = page.lines[g.start + n]

(* The pages shown are the printable parts of these pages, in order.       *)
Copied(shown, sheets) ==
  /\ Len(shown) = Len(sheets)
  /\ \A k \in 1 .. Len(sheets) :
       \E p \in Seq(Ink) : Shows(shown[k], p) /\ Cuts(p, sheets[k])

InJob == /\ j.job_open
         /\ Reader \in DecoderStates /\ Reader.walk = "records"
         /\ Copied(Reader.shown, book)

BetweenPages == Reader.page_rows = BlankPage /\ pages = Len(book)

OnSheet ==
  /\ pages = Len(book) + 1
  /\ j.geo = geometry(Page.h, Printable, Margin)
  /\ \E p \in Seq(Ink) : Drawing(enc, Reader, p) /\ Cuts(p, Page)

Faithful ==
  ~told => /\ at \in {"job", "page"} => InJob
           /\ at = "job" => BetweenPages
           /\ at = "page" => OnSheet

Booked == /\ book \in Seq(Sheets) /\ pages \in Nat
          /\ at = "idle" => book = << >>

PInv == IInv /\ Booked /\ Faithful /\ PrintedAsSent

(* What the device is given, the reader follows.                           *)
LEMMA ReaderStep ==
  ASSUME Types, NEW rc, NEW sent \in Seq(Records), DeviceTakes(rc, sent),
         ~failed', Len(sent) <= 2
  PROVE  /\ Reader' = walk(Reader, sent)
         /\ Reader \in DecoderStates => Reader' \in DecoderStates
<1>1. Written \in Seq(Records)
  BY NothingMore
<1>2. Written' = Written \o sent
  BY DeviceStep
<1>3. Decoded(Written \o sent) = walk(Decoded(Written), sent)
  <2> DEFINE w == Written
  <2>1. w \in Seq(Records)
    BY <1>1
  <2> HIDE DEF w
  <2>2. Decoded(w \o sent) = walk(Decoded(w), sent)
    BY <2>1, DecodedMore
  <2> QED
    BY <2>2 DEF w
<1>4. Reader' = walk(Reader, sent)
  BY <1>2, <1>3 DEF Reader
<1>5. ASSUME Reader \in DecoderStates PROVE walk(Reader, sent) \in DecoderStates
  <2> DEFINE q == Reader
  <2>1. q \in DecoderStates
    BY <1>5
  <2> HIDE DEF q
  <2>2. walk(q, sent) \in DecoderStates
    BY <2>1, WalkType
  <2> QED
    BY <2>2 DEF q
<1> QED
  BY <1>4, <1>5

(* Where the printable part of a raster starts and how tall it is.         *)
LEMMA GeometryIs ==
  ASSUME NEW h \in Nat
  PROVE  /\ geometry(h, Printable, Margin).start
              = IF h >= Printable + Margin THEN Margin ELSE 0
         /\ geometry(h, Printable, Margin).size
              = IF h - geometry(h, Printable, Margin).start < Printable
                THEN h - geometry(h, Printable, Margin).start ELSE Printable
  BY DEF geometry

(* A page of which nothing came yet.                                       *)
LEMMA CutsNone ==
  ASSUME NEW h \in Nat
  PROVE  Cuts(<< >>, [h |-> h, lines |-> << >>])
<1>1. /\ geometry(h, Printable, Margin).start \in Nat
      /\ geometry(h, Printable, Margin).size \in 0 .. Printable
  BY GeometryFits
<1>2. Len(<< >>) = 0 /\ 1 .. 0 = {}
  OBVIOUS
<1> QED
  BY <1>1, <1>2 DEF Cuts

(* A line that is skipped leaves the picture as it is.                     *)
LEMMA CutsSkipped ==
  ASSUME NEW h \in Nat, NEW lines \in Seq(Ink), NEW ink \in Ink,
         NEW p \in Seq(Ink), Cuts(p, [h |-> h, lines |-> lines]),
         NEW g, g = geometry(h, Printable, Margin),
         Len(lines) < g.start \/ Len(lines) >= g.start + g.size
  PROVE  Cuts(p, [h |-> h, lines |-> Append(lines, ink)])
<1> DEFINE m == Len(lines)
           l == Len(p)
           a == g.start
           s == g.size
           more == Append(lines, ink)
<1>1. a \in Nat /\ s \in Nat /\ m \in Nat /\ l \in Nat
  BY GeometryFits, LenProperties
<1>2. Len(more) = m + 1 /\ \A i \in 1 .. m : more[i] = lines[i]
  BY AppendProperties
<1>3. /\ l <= s /\ (l = 0 \/ a + l <= m) /\ (l = s \/ m <= a + l)
      /\ \A n \in 1 .. l : p[n] = lines[a + n]
  BY DEF Cuts
<1>4. m < a \/ m >= a + s
  OBVIOUS
<1> HIDE DEF m, l, a, s, more
<1>5. /\ l <= s /\ (l = 0 \/ a + l <= m + 1) /\ (l = s \/ m + 1 <= a + l)
  BY <1>1, <1>3, <1>4
<1>6. \A n \in 1 .. l : a + n \in 1 .. m
  BY <1>1, <1>3
<1>7. \A n \in 1 .. l : p[n] = more[a + n]
  BY <1>2, <1>3, <1>6
<1> QED
  BY <1>2, <1>5, <1>7 DEF Cuts, m, l, a, s, more

(* A line that is not is added to it.                                      *)
LEMMA CutsLonger ==
  ASSUME NEW h \in Nat, NEW lines \in Seq(Ink), NEW ink \in Ink,
         NEW p \in Seq(Ink), Cuts(p, [h |-> h, lines |-> lines]),
         NEW g, g = geometry(h, Printable, Margin),
         ~(Len(lines) < g.start \/ Len(lines) >= g.start + g.size)
  PROVE  Cuts(Append(p, ink), [h |-> h, lines |-> Append(lines, ink)])
<1> DEFINE m == Len(lines)
           l == Len(p)
           a == g.start
           s == g.size
           more == Append(lines, ink)
           q == Append(p, ink)
<1>1. a \in Nat /\ s \in Nat /\ m \in Nat /\ l \in Nat
  BY GeometryFits, LenProperties
<1>2. /\ Len(more) = m + 1 /\ more[m + 1] = ink /\ \A i \in 1 .. m : more[i] = lines[i]
      /\ Len(q) = l + 1 /\ q[l + 1] = ink /\ \A i \in 1 .. l : q[i] = p[i]
  BY AppendProperties
<1>3. /\ l <= s /\ (l = 0 \/ a + l <= m) /\ (l = s \/ m <= a + l)
      /\ \A n \in 1 .. l : p[n] = lines[a + n]
  BY DEF Cuts
<1>4. ~(m < a \/ m >= a + s)
  OBVIOUS
<1> HIDE DEF m, l, a, s, more, q
<1>5. m = a + l /\ l < s
  BY <1>1, <1>3, <1>4
<1>6. /\ l + 1 <= s /\ a + (l + 1) <= m + 1 /\ m + 1 <= a + (l + 1)
  BY <1>1, <1>5
<1>7. \A n \in 1 .. (l + 1) : q[n] = more[a + n]
  <2>1. ASSUME NEW n \in 1 .. (l + 1) PROVE q[n] = more[a + n]
    <3>1. CASE n = l + 1
      <4>1. a + n = m + 1
        BY <1>1, <1>5, <3>1
      <4> QED
        BY <1>2, <3>1, <4>1
    <3>2. CASE n # l + 1
      <4>1. n \in 1 .. l /\ a + n \in 1 .. m
        BY <1>1, <1>5, <3>2
      <4> QED
        BY <1>2, <1>3, <4>1
    <3> QED
      BY <3>1, <3>2
  <2> QED
    BY <2>1
<1> QED
  BY <1>2, <1>6, <1>7 DEF Cuts, m, l, a, s, more, q

(* A page that shows the printable part of a raster shows what             *)
(* PrintableLine says, on every line of the imageable area.                *)
LEMMA CutsPrinted ==
  ASSUME NEW page, NEW p \in Seq(Ink), NEW sheeted \in Sheets,
         Shows(page, p), Cuts(p, sheeted), NEW n \in 0 .. (Printable - 1)
  PROVE  page[n \div BandLines][n % BandLines].px = PrintableLine(sheeted, n)
<1> DEFINE h == sheeted.h
           m == Len(sheeted.lines)
           l == Len(p)
           g == geometry(h, Printable, Margin)
           a == g.start
           s == g.size
<1>1. h \in Nat /\ m \in Nat /\ l \in Nat /\ m <= h
  BY LenProperties DEF Sheets
<1>2. /\ a \in Nat /\ s \in Nat /\ a + s <= h
      /\ a = IF h >= Printable + Margin THEN Margin ELSE 0
      /\ s = IF h - a < Printable THEN h - a ELSE Printable
  <2>1. h \in Nat
    BY <1>1
  <2> HIDE DEF h
  <2>2. a \in Nat /\ s \in 0 .. Printable /\ a + s <= h
    BY <2>1, GeometryFits
  <2>3. a = IF h >= Printable + Margin THEN Margin ELSE 0
    BY <2>1, GeometryIs
  <2>4. s = IF h - a < Printable THEN h - a ELSE Printable
    BY <2>1, GeometryIs
  <2> QED
    BY <2>2, <2>3, <2>4
<1>3. /\ l <= s /\ (l = 0 \/ a + l <= m) /\ (l = s \/ m <= a + l)
      /\ \A i \in 1 .. l : p[i] = sheeted.lines[a + i]
  BY DEF Cuts
<1>4. page[n \div BandLines][n % BandLines].px = LineOf(p, n)
  <2>1. n \in PageLines
    <3> DEFINE top == (MaxBand + 1) * BandLines
    <3>1. top \in Nat /\ Printable \in 1 .. top
      OBVIOUS
    <3> HIDE DEF top
    <3>2. n \in 0 .. (top - 1)
      BY <3>1
    <3> QED
      BY <3>2 DEF top, PageLines
  <2>2. page[n \div BandLines][n % BandLines] = [px |-> LineOf(p, n), spill |-> FALSE]
    BY <2>1 DEF Shows, ShownLine
  <2> QED
    BY <2>2
<1>5. PrintableLine(sheeted, n) = IF a + n < m THEN sheeted.lines[a + n + 1] ELSE White
  <2>1. a + n = IF h >= Printable + Margin THEN Margin + n ELSE n
    BY <1>2
  <2> HIDE DEF a
  <2> QED
    BY <2>1 DEF PrintableLine
<1> HIDE DEF h, m, l, a, s, g
<1>6. CASE n < l
  <2>1. n + 1 \in 1 .. l /\ a + n < m /\ a + (n + 1) = a + n + 1
    BY <1>1, <1>2, <1>3, <1>6
  <2>2. LineOf(p, n) = p[n + 1]
    BY <1>6 DEF LineOf, l
  <2>3. p[n + 1] = sheeted.lines[a + (n + 1)]
    BY <1>3, <2>1
  <2> QED
    BY <1>4, <1>5, <2>1, <2>2, <2>3
<1>7. CASE ~(n < l)
  <2>1. ~(a + n < m)
    BY <1>1, <1>2, <1>3, <1>7
  <2>2. LineOf(p, n) = White
    BY <1>7 DEF LineOf, l
  <2> QED
    BY <1>4, <1>5, <2>1, <2>2
<1> QED
  BY <1>6, <1>7

(* One more page on both sides.                                            *)
LEMMA CopiedMore ==
  ASSUME NEW shown \in Seq([Bands -> [Slots -> Line]]), NEW sheets \in Seq(Sheets),
         Copied(shown, sheets), NEW page \in [Bands -> [Slots -> Line]],
         NEW sheeted \in Sheets, NEW p \in Seq(Ink), Shows(page, p), Cuts(p, sheeted)
  PROVE  Copied(Append(shown, page), Append(sheets, sheeted))
<1> DEFINE n == Len(shown)
           more == Append(shown, page)
           given == Append(sheets, sheeted)
<1>1. n \in Nat /\ n = Len(sheets)
  BY LenProperties DEF Copied
<1>2. /\ Len(more) = n + 1 /\ more[n + 1] = page /\ \A k \in 1 .. n : more[k] = shown[k]
      /\ Len(given) = n + 1 /\ given[n + 1] = sheeted /\ \A k \in 1 .. n : given[k] = sheets[k]
  BY <1>1, AppendProperties
<1>3. \A k \in 1 .. n : \E o \in Seq(Ink) : Shows(shown[k], o) /\ Cuts(o, sheets[k])
  BY <1>1 DEF Copied
<1> HIDE DEF n, more, given
<1>4. ASSUME NEW k \in 1 .. (n + 1)
      PROVE  \E o \in Seq(Ink) : Shows(more[k], o) /\ Cuts(o, given[k])
  <2>1. CASE k = n + 1
    BY <1>2, <2>1
  <2>2. CASE k # n + 1
    <3>1. n \in Nat /\ k \in 1 .. (n + 1) /\ k # n + 1
      BY <1>1, <2>2
    <3>2. k \in 1 .. n
      BY <3>1
    <3> QED
      BY <1>2, <1>3, <3>2
  <2> QED
    BY <2>1, <2>2
<1> QED
  BY <1>2, <1>4 DEF Copied, more, given

-----------------------------------------------------------------------------
(* The callbacks once more, now for what is printed                        *)

LEMMA StartJobPrints ==
  ASSUME PInv, IInv', NEW allocated \in BOOLEAN, NEW known \in BOOLEAN,
         NEW f \in SinkFates, cb_rstartjob(allocated, known, f)
  PROVE  PInv'
<1> DEFINE begun == allocated /\ known
           r == IF begun THEN begin_job(ClearedEncoder, TRUE, f)
                ELSE Return(ClearedEncoder, "EINVAL", f)
<1>1. /\ at = "idle" /\ at' = "job" /\ pages' = 0 /\ book' = book
      /\ j' = [NoJob EXCEPT !.set = allocated, !.job_open = (r.rc = "OK")]
      /\ DeviceTakes(r.rc, r.sent) /\ told' = (r.rc # "OK")
  BY DEF cb_rstartjob
<1>2. r \in Results
  BY BlankTypes, CallTypes, ReturnType DEF ReturnCodes
<1>3. r.sent \in Seq(Records)
  BY <1>2 DEF Results
<1>4. r.rc = "OK" => r = begin_job(ClearedEncoder, TRUE, f)
  BY DEF Return
<1> HIDE DEF r
<1>5. Types /\ book = << >> /\ Written = << >>
  BY <1>1, ConcatEmptySeq DEF PInv, Booked, IInv, Fresh, Types, Written
<1>6. Booked' /\ PrintedAsSent'
  BY <1>1, <1>5, EmptySeq DEF Booked, PrintedAsSent
<1>7. ASSUME ~told' PROVE InJob' /\ BetweenPages'
  <2>1. r.rc = "OK" /\ ~failed' /\ j'.job_open
    BY <1>1, <1>7, NoJobType DEF IInv, FailureTold, JobStates
  <2>2. LET c == walk(ClearedDecoder, r.sent)
        IN  /\ c.walk = "records" /\ c.page_rows = BlankPage /\ c.shown = << >>
            /\ Len(r.sent) <= 2
    BY <1>4, <2>1, BeginJobFollowed
  <2>3. Reader = ClearedDecoder /\ Reader \in DecoderStates
    BY <1>5, DecodedEmpty, BlankTypes DEF Reader
  <2>4. Reader' = walk(ClearedDecoder, r.sent) /\ Reader' \in DecoderStates
    BY <1>1, <1>3, <1>5, <2>1, <2>2, <2>3, ReaderStep
  <2>5. Copied(<< >>, << >>)
    BY DEF Copied
  <2> QED
    BY <1>1, <1>5, <2>1, <2>2, <2>4, <2>5 DEF InJob, BetweenPages
<1> QED
  BY <1>1, <1>6, <1>7 DEF PInv, Faithful

LEMMA StartPagePrints ==
  ASSUME PInv, IInv', NEW usable \in BOOLEAN, NEW h \in Rasters, NEW f \in SinkFates,
         cb_rstartpage(usable, h, f)
  PROVE  PInv'
<1> DEFINE refused == ~j.set \/ ~j.job_open \/ ~usable
           r == IF refused THEN Return(enc, "EINVAL", f)
                ELSE begin_page(enc, "ok", TRUE, f)
           ok == r.rc = "OK"
<1>1. /\ at = "job" /\ at' = (IF ok THEN "page" ELSE "job")
      /\ pages' = pages + 1 /\ book' = book
      /\ sheet' = << >> /\ left' = (IF ok THEN h ELSE 0)
      /\ j' = IF refused THEN j
              ELSE [j EXCEPT !.page_open = ok,
                             !.geo = geometry(h, Printable, Margin)]
      /\ enc' = r.e /\ DeviceTakes(r.rc, r.sent)
      /\ told' = (told \/ ~ok)
  BY DEF cb_rstartpage
<1>2. Types /\ enc \in EncoderStates /\ j \in JobStates /\ book \in Seq(Sheets) /\ pages \in Nat
  BY DEF PInv, Booked, IInv, Types
<1>3. r \in Results
  BY <1>2, CallTypes, ReturnType DEF ReturnCodes
<1>4. r.sent \in Seq(Records)
  BY <1>3 DEF Results
<1>5. r.rc = "OK" => ~refused /\ r = begin_page(enc, "ok", TRUE, f)
  BY DEF Return
<1> HIDE DEF r
<1>6. Booked' /\ PrintedAsSent'
  BY <1>1, <1>2 DEF Booked, PrintedAsSent
<1>7. ASSUME ~told' PROVE InJob' /\ OnSheet' /\ at' = "page"
  <2>1. r.rc = "OK" /\ ~failed' /\ ~told /\ InJob /\ BetweenPages
    BY <1>1, <1>7 DEF IInv, FailureTold, PInv, Faithful
  <2>2. ~refused /\ j'.job_open = j.job_open /\ j'.geo = geometry(h, Printable, Margin)
    BY <1>1, <1>2, <1>5, <2>1 DEF JobStates
  <2>3. /\ Reader \in DecoderStates /\ Reader.walk = "records" /\ Reader.page_rows = BlankPage
        /\ Copied(Reader.shown, book) /\ j.job_open /\ pages = Len(book)
    BY <2>1 DEF InJob, BetweenPages
  <2> DEFINE q == Reader
             c == walk(q, r.sent)
  <2>4. /\ c.walk = "records" /\ c.shown = q.shown /\ Drawing(r.e, c, << >>)
        /\ Len(r.sent) <= 2
    <3>1. q \in DecoderStates /\ q.walk = "records" /\ q.page_rows = BlankPage
      BY <2>3
    <3> DEFINE room == TRUE
    <3>2. r = begin_page(enc, "ok", room, f) /\ r.rc = "OK" /\ enc \in EncoderStates
      BY <1>2, <1>5, <2>1
    <3> HIDE DEF q, room
    <3>3. LET d == walk(q, r.sent)
          IN  /\ d.walk = "records" /\ d.shown = q.shown
              /\ Drawing(r.e, d, << >>)
              /\ Len(r.sent) <= 2
      BY <3>1, <3>2, BeginPageFollowed
    <3> QED
      BY <3>3
  <2>5. Reader' = c /\ Reader' \in DecoderStates
    BY <1>1, <1>2, <1>4, <2>1, <2>3, <2>4, ReaderStep
  <2>6. Page' = [h |-> h, lines |-> << >>]
    <3>1. h \in Nat /\ Len(<< >>) + h = h
      OBVIOUS
    <3>2. Page' = [h |-> Len(sheet') + left', lines |-> sheet']
      BY DEF Page
    <3> QED
      BY <1>1, <2>1, <3>1, <3>2
  <2>7. Page'.h = h
    BY <2>6
  <2> HIDE DEF c, q
  <2>8. Drawing(enc', Reader', << >>) /\ Cuts(<< >>, Page')
    <3>1. h \in Nat
      OBVIOUS
    <3> QED
      BY <1>1, <2>4, <2>5, <2>6, <3>1, CutsNone
  <2>9. InJob'
    BY <1>1, <2>2, <2>3, <2>4, <2>5 DEF InJob, q
  <2>10. \E p \in Seq(Ink) : Drawing(enc', Reader', p) /\ Cuts(p, Page')
    BY <2>8, EmptySeq
  <2>11. j'.geo = geometry(Page'.h, Printable, Margin) /\ pages' = Len(book') + 1
    BY <1>1, <2>2, <2>3, <2>7
  <2>12. OnSheet'
    BY <2>10, <2>11 DEF OnSheet
  <2> QED
    BY <1>1, <2>1, <2>9, <2>12
<1> QED
  BY <1>1, <1>6, <1>7 DEF PInv, Faithful

LEMMA WriteLinePrints ==
  ASSUME PInv, IInv', NEW ink \in Ink, NEW f \in SinkFates, cb_rwriteline(ink, f)
  PROVE  PInv'
<1> DEFINE line == [px |-> ink, spill |-> FALSE]
           skip == Len(sheet) < j.geo.start \/ Len(sheet) >= j.geo.start + j.geo.size
           r == IF ~j.page_open THEN Return(enc, "ESTATE", f)
                ELSE IF skip THEN Return(enc, "OK", f)
                ELSE write_line(enc, line, f)
<1>1. /\ at = "page" /\ at' = at /\ left > 0 /\ j' = j
      /\ sheet' = Append(sheet, ink) /\ left' = left - 1
      /\ pages' = pages /\ book' = book
      /\ enc' = r.e /\ DeviceTakes(r.rc, r.sent)
      /\ told' = (told \/ r.rc # "OK")
  BY DEF cb_rwriteline
<1>2. /\ Types /\ enc \in EncoderStates /\ j \in JobStates /\ sheet \in Seq(Ink)
      /\ left \in Nat /\ book \in Seq(Sheets) /\ pages \in Nat
  BY DEF PInv, Booked, IInv, Types
<1>3. line \in Line /\ line.px = ink
  BY DEF Line
<1>4. r \in Results
  BY <1>2, <1>3, CallTypes, ReturnType DEF ReturnCodes
<1>5. r.sent \in Seq(Records)
  BY <1>4 DEF Results
<1>6. /\ r.rc = "OK" /\ skip => r.e = enc /\ r.sent = << >>
      /\ r.rc = "OK" /\ ~skip => r = write_line(enc, line, f)
  BY DEF Return
<1> HIDE DEF r, line
<1>7. Booked' /\ PrintedAsSent'
  BY <1>1, <1>2 DEF Booked, PrintedAsSent
<1>8. ASSUME ~told' PROVE InJob' /\ OnSheet'
  <2>1. r.rc = "OK" /\ ~failed' /\ ~told /\ InJob /\ OnSheet
    BY <1>1, <1>8 DEF IInv, FailureTold, PInv, Faithful
  <2>2. /\ Reader \in DecoderStates /\ Reader.walk = "records"
        /\ Copied(Reader.shown, book) /\ j.job_open /\ pages = Len(book) + 1
    BY <2>1 DEF InJob, OnSheet
  <2>3. PICK h \in Nat : h = Len(sheet) + left
    BY <1>2, LenProperties
  <2>4. Page = [h |-> h, lines |-> sheet] /\ Page.h = h
    BY <2>3 DEF Page
  <2>5. Page' = [h |-> h, lines |-> Append(sheet, ink)] /\ Page'.h = h
    <3> DEFINE m == Len(sheet)
               n == Len(sheet')
    <3>1. m \in Nat /\ n = m + 1
      BY <1>1, <1>2, AppendProperties, LenProperties
    <3> HIDE DEF m, n
    <3>2. n + left' = m + left
      BY <1>1, <1>2, <3>1
    <3>3. Len(sheet') + left' = h
      BY <2>3, <3>2 DEF m, n
    <3>4. Page' = [h |-> Len(sheet') + left', lines |-> sheet']
      BY DEF Page
    <3> QED
      BY <1>1, <3>3, <3>4
  <2>6. j.geo = geometry(h, Printable, Margin)
    BY <2>1, <2>4 DEF OnSheet
  <2>7. PICK p \in Seq(Ink) : Drawing(enc, Reader, p) /\ Cuts(p, Page)
    BY <2>1 DEF OnSheet
  <2> DEFINE q == Reader
             c == walk(q, r.sent)
             more == IF skip THEN p ELSE Append(p, ink)
  <2>8. /\ c.walk = "records" /\ c.shown = q.shown /\ Drawing(r.e, c, more)
        /\ Len(r.sent) <= 2
    <3>1. q \in DecoderStates /\ q.walk = "records" /\ Drawing(enc, q, p)
      BY <2>2, <2>7
    <3>2. CASE skip
      <4>1. r.e = enc /\ r.sent = << >> /\ more = p /\ Len(r.sent) = 0
        BY <1>6, <2>1, <3>2
      <4>2. c = q
        BY <4>1, WalkShort
      <4> HIDE DEF q, c, more
      <4> QED
        BY <3>1, <4>1, <4>2
    <3>3. CASE ~skip
      <4>1. r = write_line(enc, line, f) /\ more = Append(p, line.px)
        BY <1>3, <1>6, <2>1, <3>3
      <4> HIDE DEF q, more
      <4>2. LET d == walk(q, r.sent)
            IN  /\ d.walk = "records" /\ d.shown = q.shown
                /\ Drawing(r.e, d, Append(p, line.px))
                /\ r.e.in_page = enc.in_page
                /\ Len(r.sent) <= 2
        BY <1>2, <1>3, <2>1, <3>1, <4>1, WriteLineFollowed
      <4> QED
        BY <4>1, <4>2
    <3> QED
      BY <3>2, <3>3
  <2>9. Reader' = c /\ Reader' \in DecoderStates
    BY <1>1, <1>2, <1>5, <2>1, <2>2, <2>8, ReaderStep
  <2>10. more \in Seq(Ink)
    BY AppendProperties
  <2>11. Cuts(more, Page')
    <3> DEFINE g == j.geo
    <3>1. g = geometry(h, Printable, Margin) /\ Cuts(p, [h |-> h, lines |-> sheet])
      BY <2>4, <2>6, <2>7
    <3>2. CASE skip
      <4>1. Len(sheet) < g.start \/ Len(sheet) >= g.start + g.size
        BY <3>2
      <4> HIDE DEF g
      <4>2. Cuts(p, [h |-> h, lines |-> Append(sheet, ink)])
        BY <1>2, <3>1, <4>1, CutsSkipped
      <4> QED
        BY <2>5, <3>2, <4>2
    <3>3. CASE ~skip
      <4>1. ~(Len(sheet) < g.start \/ Len(sheet) >= g.start + g.size)
        BY <3>3
      <4> HIDE DEF g
      <4>2. Cuts(Append(p, ink), [h |-> h, lines |-> Append(sheet, ink)])
        BY <1>2, <3>1, <4>1, CutsLonger
      <4> QED
        BY <2>5, <3>3, <4>2
    <3> QED
      BY <3>2, <3>3
  <2> HIDE DEF more, c, q
  <2>12. InJob'
    BY <1>1, <2>2, <2>8, <2>9 DEF InJob, q
  <2>13. \E o \in Seq(Ink) : Drawing(enc', Reader', o) /\ Cuts(o, Page')
    BY <1>1, <2>8, <2>9, <2>10, <2>11
  <2>14. j'.geo = geometry(Page'.h, Printable, Margin) /\ pages' = Len(book') + 1
    BY <1>1, <2>2, <2>5, <2>6
  <2>15. OnSheet'
    BY <2>13, <2>14 DEF OnSheet
  <2> QED
    BY <2>12, <2>15
<1> QED
  BY <1>1, <1>7, <1>8 DEF PInv, Faithful

(* Ending the page PAPPL is at shows its printable part.                   *)
LEMMA PageShown ==
  ASSUME Types, Booked, InJob, OnSheet, NEW f \in SinkFates,
         NEW r, r = end_page(enc, f), r.rc = "OK"
  PROVE  LET c == walk(Reader, r.sent)
         IN  /\ c.walk = "records" /\ c.page_rows = BlankPage
             /\ Copied(c.shown, Append(book, Page)) /\ Len(r.sent) <= 2
             /\ Append(book, Page) \in Seq(Sheets)
             /\ Len(Append(book, Page)) = pages
<1> DEFINE q == Reader
           w == walk(q, r.sent)
           sheeted == Page
<1>1. /\ q \in DecoderStates /\ q.walk = "records" /\ Copied(q.shown, book)
      /\ enc \in EncoderStates /\ pages = Len(book) + 1 /\ book \in Seq(Sheets)
      /\ q.shown \in Seq([Bands -> [Slots -> Line]])
  BY DEF InJob, OnSheet, Types, Booked, DecoderStates
<1>2. PICK p \in Seq(Ink) : Drawing(enc, q, p) /\ Cuts(p, sheeted)
  BY DEF OnSheet
<1>3. sheeted \in Sheets
  <2>1. sheet \in Seq(Ink) /\ left \in Nat /\ Len(sheet) \in Nat
    BY LenProperties DEF Types
  <2>2. Len(sheet) + left \in Nat /\ Len(sheet) <= Len(sheet) + left
    BY <2>1
  <2> QED
    BY <2>1, <2>2 DEF Page, Sheets
<1> HIDE DEF q, sheeted
<1>4. LET c == walk(q, r.sent)
      IN  /\ c.walk = "records" /\ c.page_rows = BlankPage
          /\ \E page \in [Bands -> [Slots -> Line]] :
               Shows(page, p) /\ c.shown = Append(q.shown, page)
          /\ r.e.in_job /\ ~r.e.in_page
          /\ Len(r.sent) <= 2
  <2>1. /\ enc \in EncoderStates /\ q \in DecoderStates /\ q.walk = "records"
        /\ Drawing(enc, q, p) /\ r = end_page(enc, f) /\ r.rc = "OK"
    BY <1>1, <1>2
  <2> QED
    BY <2>1, EndPageFollowed
<1>5. /\ w.walk = "records" /\ w.page_rows = BlankPage /\ Len(r.sent) <= 2
  BY <1>4
<1>6. PICK page \in [Bands -> [Slots -> Line]] :
        Shows(page, p) /\ w.shown = Append(q.shown, page)
  BY <1>4
<1>7. Copied(w.shown, Append(book, sheeted))
  <2>1. Copied(Append(q.shown, page), Append(book, sheeted))
    BY <1>1, <1>2, <1>3, <1>6, CopiedMore
  <2> QED
    BY <1>6, <2>1
<1>8. Append(book, sheeted) \in Seq(Sheets) /\ Len(Append(book, sheeted)) = pages
  BY <1>1, <1>3, AppendProperties
<1> QED
  BY <1>5, <1>7, <1>8 DEF q, sheeted

LEMMA EndPagePrints ==
  ASSUME PInv, IInv', NEW f \in SinkFates, cb_rendpage(f)
  PROVE  PInv'
<1> DEFINE r == IF ~j.page_open THEN Return(enc, "ESTATE", f) ELSE end_page(enc, f)
<1>1. /\ at = "page" /\ at' = "job" /\ j' = [j EXCEPT !.page_open = FALSE]
      /\ pages' = pages
      /\ book' = IF r.rc = "OK" THEN Append(book, Page) ELSE book
      /\ DeviceTakes(r.rc, r.sent) /\ told' = (told \/ r.rc # "OK")
  BY DEF cb_rendpage
<1>2. /\ Types /\ Booked /\ enc \in EncoderStates /\ j \in JobStates
      /\ sheet \in Seq(Ink) /\ left \in Nat /\ book \in Seq(Sheets) /\ pages \in Nat
  BY DEF PInv, Booked, IInv, Types
<1>3. r \in Results
  BY <1>2, CallTypes, ReturnType DEF ReturnCodes
<1>4. r.sent \in Seq(Records)
  BY <1>3 DEF Results
<1>5. r.rc = "OK" => r = end_page(enc, f)
  BY DEF Return
<1> HIDE DEF r
<1>6. Page \in Sheets
  <2>1. Len(sheet) \in Nat /\ Len(sheet) + left \in Nat /\ Len(sheet) <= Len(sheet) + left
    BY <1>2, LenProperties
  <2> QED
    BY <1>2, <2>1 DEF Page, Sheets
<1>7. Booked' /\ PrintedAsSent'
  <2>1. book' \in Seq(Sheets)
    BY <1>1, <1>2, <1>6, AppendProperties
  <2> QED
    BY <1>1, <1>2, <2>1 DEF Booked, PrintedAsSent
<1>8. ASSUME ~told' PROVE InJob' /\ BetweenPages'
  <2>1. r.rc = "OK" /\ ~failed' /\ ~told /\ InJob /\ OnSheet
    BY <1>1, <1>8 DEF IInv, FailureTold, PInv, Faithful
  <2>2. Reader \in DecoderStates /\ j'.job_open
    BY <1>1, <1>2, <2>1 DEF InJob, JobStates
  <2>3. LET c == walk(Reader, r.sent)
        IN  /\ c.walk = "records" /\ c.page_rows = BlankPage
            /\ Copied(c.shown, Append(book, Page)) /\ Len(r.sent) <= 2
            /\ Append(book, Page) \in Seq(Sheets)
            /\ Len(Append(book, Page)) = pages
    BY <1>2, <1>5, <2>1, PageShown
  <2>4. Reader' = walk(Reader, r.sent) /\ Reader' \in DecoderStates
    BY <1>1, <1>2, <1>4, <2>1, <2>2, <2>3, ReaderStep
  <2>5. book' = Append(book, Page)
    BY <1>1, <2>1
  <2> QED
    BY <1>1, <2>2, <2>3, <2>4, <2>5 DEF InJob, BetweenPages
<1> QED
  BY <1>1, <1>7, <1>8 DEF PInv, Faithful

LEMMA EndJobPrints ==
  ASSUME PInv, IInv', NEW f \in SinkFates, NEW g \in SinkFates, NEW flushes \in BOOLEAN,
         cb_rendjob(f, g, flushes)
  PROVE  PInv'
<1> DEFINE p == CloseOpenPage(f)
           r == IF j.job_open THEN end_job(p.e, g) ELSE Return(p.e, "OK", g)
           out == buf \o p.sent \o r.sent
<1>1. /\ at \in {"job", "page"} /\ at' = "ended" /\ pages' = pages
      /\ book' = (IF j.page_open /\ p.rc = "OK" THEN Append(book, Page) ELSE book)
      /\ usb' = (IF flushes THEN usb \o out ELSE usb)
      /\ unflushed' = ~flushes
      /\ told' = (told \/ p.rc # "OK" \/ r.rc # "OK")
  BY DEF cb_rendjob
<1>2. /\ Types /\ Booked /\ enc \in EncoderStates /\ j \in JobStates
      /\ sheet \in Seq(Ink) /\ left \in Nat /\ book \in Seq(Sheets) /\ pages \in Nat
  BY DEF PInv, Booked, IInv, Types
<1>3. p \in Results
  BY <1>2, CallTypes, ReturnType DEF CloseOpenPage, ReturnCodes
<1>4. p.e \in EncoderStates /\ p.sent \in Seq(Records)
  BY <1>3 DEF Results
<1>5. /\ ~j.page_open => p.sent = << >> /\ p.rc = "OK"
      /\ j.page_open => p = end_page(enc, f)
  BY DEF CloseOpenPage, Return
<1> HIDE DEF p
<1>6. r \in Results
  BY <1>4, CallTypes, ReturnType DEF ReturnCodes
<1>7. r.sent \in Seq(Records)
  BY <1>6 DEF Results
<1>8. j.job_open => r = end_job(p.e, g)
  OBVIOUS
<1> HIDE DEF r
<1>9. usb \o out = (Written \o p.sent) \o r.sent
  <2> DEFINE a == p.sent
             b == r.sent
  <2>1. a \in Seq(Records) /\ b \in Seq(Records)
    BY <1>4, <1>7
  <2> HIDE DEF a, b
  <2> QED
    BY <1>2, <2>1, LastRecords DEF a, b
<1> HIDE DEF out
<1>10. Booked'
  <2>1. Page \in Sheets
    <3>1. Len(sheet) \in Nat /\ Len(sheet) + left \in Nat /\ Len(sheet) <= Len(sheet) + left
      BY <1>2, LenProperties
    <3> QED
      BY <1>2, <3>1 DEF Page, Sheets
  <2>2. book' \in Seq(Sheets)
    BY <1>1, <1>2, <2>1, AppendProperties
  <2> QED
    BY <1>1, <1>2, <2>2 DEF Booked
<1>11. ASSUME ~told', ~unflushed'
       PROVE  /\ Decoded(usb').walk = "done" /\ Copied(Decoded(usb').shown, book')
              /\ Len(book') = pages'
  <2>1. p.rc = "OK" /\ r.rc = "OK" /\ flushes /\ ~told /\ ~failed /\ InJob
    BY <1>1, <1>11 DEF IInv, FailureTold, PInv, Faithful
  <2>2. NotBegun /\ Begun /\ j.job_open
    BY <1>1, <2>1 DEF PInv, IInv, Going, InJob
  <2>3. /\ Reader \in DecoderStates /\ Reader.walk = "records"
        /\ Copied(Reader.shown, book)
    BY <2>1 DEF InJob
  <2> DEFINE q == Reader
             c == walk(q, p.sent)
             d == walk(c, r.sent)
  <2>4. /\ c.walk = "records" /\ Copied(c.shown, book') /\ Len(book') = pages
        /\ Len(p.sent) <= 2
    <3>1. CASE at = "page"
      <4>1. OnSheet /\ p = end_page(enc, f) /\ book' = Append(book, Page)
        BY <1>1, <1>5, <2>1, <2>2, <3>1 DEF PInv, Faithful, Begun
      <4>2. /\ walk(Reader, p.sent).walk = "records"
            /\ Copied(walk(Reader, p.sent).shown, Append(book, Page)) /\ Len(p.sent) <= 2
            /\ Len(Append(book, Page)) = pages
        <5>1. LET x == walk(Reader, p.sent)
              IN  /\ x.walk = "records" /\ x.page_rows = BlankPage
                  /\ Copied(x.shown, Append(book, Page)) /\ Len(p.sent) <= 2
                  /\ Append(book, Page) \in Seq(Sheets)
                  /\ Len(Append(book, Page)) = pages
          BY <1>2, <2>1, <4>1, PageShown
        <5> QED
          BY <5>1
      <4> QED
        BY <4>1, <4>2
    <3>2. CASE at = "job"
      <4>1. p.sent = << >> /\ book' = book /\ BetweenPages /\ Len(p.sent) = 0
        BY <1>1, <1>5, <2>1, <2>2, <3>2 DEF PInv, Faithful, Begun
      <4>2. c = q
        BY <4>1, WalkShort
      <4> HIDE DEF c
      <4> QED
        BY <2>3, <4>1, <4>2 DEF BetweenPages
    <3> QED
      BY <1>1, <3>1, <3>2
  <2>5. c \in DecoderStates
    <3> HIDE DEF q
    <3>1. q \in DecoderStates
      BY <2>3 DEF q
    <3> QED
      BY <1>4, <3>1, WalkType
  <2>6. d.walk = "done" /\ d.shown = c.shown /\ Len(r.sent) <= 2
    <3> DEFINE s == p.e
    <3>1. r = end_job(s, g) /\ r.rc = "OK" /\ s \in EncoderStates
          /\ c.walk = "records" /\ c \in DecoderStates
      BY <1>4, <1>8, <2>1, <2>2, <2>4, <2>5
    <3> HIDE DEF c, s
    <3>2. LET x == walk(c, r.sent)
          IN  /\ x.walk = "done" /\ x.shown = c.shown /\ x.page_rows = c.page_rows
              /\ Len(r.sent) <= 2
      BY <3>1, EndJobFollowed
    <3> QED
      BY <3>2
  <2>7. Decoded(usb') = d
    <3> DEFINE w == Written
               a == p.sent
               b == r.sent
    <3>1. w \in Seq(Records) /\ a \in Seq(Records) /\ b \in Seq(Records)
          /\ Len(a) <= 2 /\ Len(b) <= 2
      BY <1>2, <1>4, <1>7, <2>4, <2>6, NothingMore
    <3>2. usb' = (w \o a) \o b
      BY <1>1, <1>9, <2>1
    <3>3. d = walk(walk(Decoded(w), a), b)
      BY DEF Reader
    <3> HIDE DEF w, a, b, d
    <3> DEFINE v == w \o a
    <3>4. v \in Seq(Records) /\ Decoded(v) = walk(Decoded(w), a)
      BY <3>1, ConcatProperties, DecodedMore
    <3> HIDE DEF v
    <3>5. Decoded(v \o b) = walk(Decoded(v), b)
      BY <3>1, <3>4, DecodedMore
    <3> QED
      BY <3>2, <3>3, <3>4, <3>5 DEF v
  <2> HIDE DEF c, d
  <2> QED
    BY <1>1, <2>4, <2>6, <2>7
<1>12. PrintedAsSent'
  <2> SUFFICES ASSUME ~told', ~unflushed'
               PROVE  /\ Printed'.walk = "done"
                      /\ Len(Printed'.shown) = pages' /\ Len(book') = pages'
                      /\ \A k \in 1 .. pages', n \in 0 .. (Printable - 1) :
                           Printed'.shown[k][n \div BandLines][n % BandLines].px
                             = PrintableLine(book'[k], n)
    BY DEF PrintedAsSent
  <2>1. Printed' = Decoded(usb')
    BY DEF Printed, Decoded
  <2> DEFINE shown == Printed'.shown
             sheets == book'
  <2>2. Printed'.walk = "done" /\ Copied(shown, sheets) /\ Len(sheets) = pages'
    BY <1>11, <2>1
  <2>3. sheets \in Seq(Sheets) /\ pages' \in Nat
    BY <1>10 DEF Booked
  <2> HIDE DEF shown, sheets
  <2>4. Len(shown) = pages'
    BY <2>2 DEF Copied
  <2>5. ASSUME NEW k \in 1 .. pages', NEW n \in 0 .. (Printable - 1)
        PROVE  shown[k][n \div BandLines][n % BandLines].px = PrintableLine(sheets[k], n)
    <3>1. k \in 1 .. Len(sheets)
      BY <2>2
    <3>2. PICK o \in Seq(Ink) : Shows(shown[k], o) /\ Cuts(o, sheets[k])
      BY <2>2, <3>1 DEF Copied
    <3> DEFINE page == shown[k]
               sheeted == sheets[k]
    <3>3. sheeted \in Sheets
      BY <2>3, <3>1
    <3>4. Shows(page, o) /\ Cuts(o, sheeted)
      BY <3>2
    <3> HIDE DEF page, sheeted
    <3>5. page[n \div BandLines][n % BandLines].px = PrintableLine(sheeted, n)
      BY <3>3, <3>4, CutsPrinted
    <3> QED
      BY <3>5 DEF page, sheeted
  <2> QED
    BY <2>2, <2>4, <2>5 DEF shown, sheets
<1> QED
  BY <1>1, <1>10, <1>12 DEF PInv, Faithful

LEMMA PInvInit == Init => PInv
<1> SUFFICES ASSUME Init PROVE PInv
  OBVIOUS
<1>1. IInv
  BY IInvInit
<1> QED
  BY <1>1, EmptySeq DEF Init, PInv, Booked, Faithful, PrintedAsSent

LEMMA PInvStep == PInv /\ [Next]_vars => PInv'
<1> SUFFICES ASSUME PInv, [Next]_vars PROVE PInv'
  OBVIOUS
<1>1. Fates(1) \subseteq SinkFates /\ Fates(2) \subseteq SinkFates
  BY FatesType
<1>2. IInv'
  BY IInvStep DEF PInv
<1>3. CASE UNCHANGED vars
  <2>1. Booked' /\ PrintedAsSent'
    BY <1>3 DEF vars, PInv, Booked, PrintedAsSent, Printed
  <2>2. Faithful'
    BY <1>3 DEF vars, PInv, Faithful, InJob, BetweenPages, OnSheet, Reader, Written, Page
  <2> QED
    BY <1>2, <2>1, <2>2 DEF PInv
<1>4. ASSUME NEW allocated \in BOOLEAN, NEW known \in BOOLEAN, NEW f \in Fates(1),
             cb_rstartjob(allocated, known, f)
      PROVE  PInv'
  BY <1>1, <1>2, <1>4, StartJobPrints
<1>5. ASSUME NEW usable \in BOOLEAN, NEW h \in Rasters, NEW f \in Fates(1),
             cb_rstartpage(usable, h, f)
      PROVE  PInv'
  BY <1>1, <1>2, <1>5, StartPagePrints
<1>6. ASSUME NEW ink \in Ink, NEW f \in Fates(1), cb_rwriteline(ink, f)
      PROVE  PInv'
  BY <1>1, <1>2, <1>6, WriteLinePrints
<1>7. ASSUME NEW f \in Fates(2), cb_rendpage(f) PROVE PInv'
  BY <1>1, <1>2, <1>7, EndPagePrints
<1>8. ASSUME NEW f \in Fates(2), NEW g \in Fates(1), NEW flushes \in BOOLEAN,
             cb_rendjob(f, g, flushes)
      PROVE  PInv'
  BY <1>1, <1>2, <1>8, EndJobPrints
<1>9. CASE Abandon
  <2>1. /\ at = "job" /\ ~j.job_open /\ at' = "ended"
        /\ pages' = pages /\ book' = book /\ told' = told
    BY <1>9 DEF Abandon
  <2>2. told'
    BY <2>1 DEF PInv, Faithful, InJob
  <2> QED
    BY <1>2, <2>1, <2>2 DEF PInv, Booked, Faithful, PrintedAsSent
<1>10. CASE CloseDevice
  <2>1. at' = "idle" /\ pages' = 0 /\ book' = << >>
    BY <1>10 DEF CloseDevice
  <2> QED
    BY <1>2, <2>1, EmptySeq DEF PInv, Booked, Faithful, PrintedAsSent
<1> QED
  BY <1>3, <1>4, <1>5, <1>6, <1>7, <1>8, <1>9, <1>10 DEF Next, Callback, Finish

LEMMA PInvHolds == Spec => []PInv
  BY PInvInit, PInvStep, PTL DEF Spec

(***************************************************************************)
(* A job that no callback returned false for, and whose last bytes were    *)
(* flushed, is printed: for every medium and margin, every raster, every   *)
(* number of pages and every way the device buffers, all its pages come    *)
(* out in order, each the printable area of its raster line for line, and  *)
(* a page that was stopped early as far as it came.                        *)
(***************************************************************************)
THEOREM PrintedAsSentHolds == Spec => []PrintedAsSent
<1>1. PInv => PrintedAsSent
  BY DEF PInv
<1> QED
  BY <1>1, PInvHolds, PTL
=============================================================================
