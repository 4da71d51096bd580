----------------------------- MODULE Usb_proofs -----------------------------
(***************************************************************************)
(* The printer on the bus.  Sharing it (UsbDevice), for any number of      *)
(* printers, matches and events: no way through usb.c leaks a context, a   *)
(* handle or a claim, a session is with the printer that was asked for,    *)
(* probe's exit status is justified and a status poll tells the truth.     *)
(* Writing to it in a session (UsbWrite): the bytes arrive in order, each  *)
(* once, and the report of the write is true.                              *)
(*                                                                         *)
(* The induction about sharing needs, of every call, what it holds at each *)
(* place of its way (CallOK), what the turns of enumerate have found out   *)
(* so far (SearchOK), and that the command does not begin a call inside    *)
(* another one (CommandOK).  On top of it, what a command (Probing) and a  *)
(* poll (Polling) have come to know is tied to what happened meanwhile.    *)
(***************************************************************************)
EXTENDS UsbDevice, UsbWrite, FiniteSetTheorems, SequenceTheorems, TLAPS

(* No two printers have the same serial number.                            *)
SerialsDiffer ==
  \A d, e \in Printers :
    Ident[d].serial # Any /\ Ident[d].serial = Ident[e].serial => d = e

Quiet == {"rest", "asked", "closed", "failed", "listed"}
Session == {"claimed", "open", "read"}

(* A printer's model and serial number as enumerate knows them.            *)
Ids == [model : STRING \union {Any}, serial : STRING \union {Any}]

Call ==
  [pc : Quiet \union {"visit"} \union Session, match : Ids, keeps : BOOLEAN,
   snap : SUBSET Printers, gone : SUBSET Printers, todo : SUBSET Printers, count : Nat,
   infos : SUBSET (Printers \X Ids), h : Printers \union {None}, ctx : Int,
   handles : Int]
Owners == Clients \union {None, "vendor"}

Types ==
  /\ attached \in SUBSET Printers
  /\ u \in [Clients -> Call] /\ claim \in [Printers -> Owners]

(* What a call holds: nothing before and after, one handle of the printer  *)
(* it keeps while it looks for more, and one of each in a session.         *)
CallOK(c, r, owner) ==
  /\ r.pc \in Quiet =>
       r.ctx = 0 /\ r.handles = 0 /\ r.h = None /\ \A d \in Printers : owner[d] # c
  /\ r.pc = "visit" =>
       /\ r.ctx = 1 /\ r.handles = (IF r.h = None THEN 0 ELSE 1)
       /\ ~r.keeps => r.h = None
       /\ \A d \in Printers : owner[d] # c
  /\ r.pc \in Session =>
       /\ r.ctx = 1 /\ r.handles = 1 /\ r.h # None
       /\ \A d \in Printers : owner[d] = c => d = r.h

(* What enumerate has found out: the printer it keeps is one that was      *)
(* asked for and, when the serial number does not matter, it has counted   *)
(* every other one that was still there.                                   *)
SearchOK(r) ==
  LET visited == r.snap \ r.todo
  IN  /\ r.pc \in {"visit", "claimed", "open"} /\ r.keeps =>
           /\ r.todo \subseteq r.snap
           /\ r.h # None => r.h \in Named(r.match) \intersect visited /\ r.count >= 1
           /\ r.match.serial = Any /\ r.count = 0 =>
                Named(r.match) \intersect (visited \ r.gone) = {}
           /\ r.match.serial = Any /\ r.count = 1 /\ r.h # None =>
                Named(r.match) \intersect (visited \ r.gone) \subseteq {r.h}
      /\ r.pc \in {"claimed", "open"} => r.keeps /\ r.todo = {} /\ r.count = 1

Calls == \A c \in Clients : CallOK(c, u[c], claim) /\ SearchOK(u[c])

(* PAPPL's device is in use by a poll only while the poll is in its call.  *)
PapplOK ==
  /\ inuse \in {None, "job", "status"}
  /\ inuse = "status" => u["status"].pc \notin {"rest", "asked", "closed"}

Sizes == {Cardinality(S) : S \in SUBSET (Printers \X Ids)} \union {0}
Commands ==
  [cmd : {"none", "send", "list", "query", "exit"}, snap : SUBSET Printers,
   listed : SUBSET Printers, np : Sizes, rows : SUBSET (Printers \X Ids),
   opened : Nat, exit : 0 .. 4]

(* A command that is not at work is not in a call.                         *)
CommandOK ==
  cli \in Commands /\ (cli.cmd \in {"none", "exit"} => u["cli"].pc = "rest")

IInv == Types /\ Calls /\ PapplOK /\ CommandOK

-----------------------------------------------------------------------------
(* A step of one call leaves the others alone as long as it takes no claim *)
(* for them.                                                               *)
LEMMA OneCall ==
  ASSUME Types, Calls, NEW c \in Clients, NEW r \in Call, u' = [u EXCEPT ![c] = r],
         attached' \in SUBSET Printers, claim' \in [Printers -> Owners],
         CallOK(c, r, claim'), SearchOK(r),
         \A e \in Clients, d \in Printers : e # c /\ claim'[d] = e => claim[d] = e
  PROVE  Types' /\ Calls' /\ u'[c] = r /\ \A e \in Clients : e # c => u'[e] = u[e]
<1>1. /\ u' \in [Clients -> Call] /\ u'[c] = r
      /\ \A e \in Clients : e # c => u'[e] = u[e]
  BY DEF Types
<1>2. ASSUME NEW e \in Clients, e # c PROVE CallOK(e, u'[e], claim') /\ SearchOK(u'[e])
  <2>1. u'[e] = u[e] /\ CallOK(e, u[e], claim) /\ SearchOK(u[e])
    BY <1>1, <1>2 DEF Calls
  <2>2. \A d \in Printers : claim'[d] = e => claim[d] = e
    BY <1>2
  <2> QED
    BY <2>1, <2>2 DEF CallOK
<1>3. \A e \in Clients : CallOK(e, u'[e], claim') /\ SearchOK(u'[e])
  BY <1>1, <1>2
<1> QED
  BY <1>1, <1>3 DEF Types, Calls

LEMMA NoClient == None \notin Clients /\ "vendor" \notin Clients /\ None \notin Printers
  BY UsbDeviceAssumption DEF None, Clients

LEMMA KnownIds ==
  /\ \A d \in Printers : Ident[d] \in Ids
  /\ Uri \in Ids /\ SendMatches \subseteq Ids /\ [model |-> Any, serial |-> Any] \in Ids
<1>1. Idents \subseteq Ids
  BY DEF Idents, Ids
<1>2. [model |-> Any, serial |-> Any] \in Ids
  BY DEF Ids
<1> QED
  BY <1>1, <1>2, UsbDeviceAssumption

LEMMA RestIsCall == Rest \in Call
  BY KnownIds DEF Rest, Call, Quiet

(* Giving the claims of a client back.                                     *)
LEMMA ReleasedClaims ==
  ASSUME Types, NEW c \in Clients
  PROVE  /\ Released(c) \in [Printers -> Owners]
         /\ \A d \in Printers : Released(c)[d] # c
         /\ \A e \in Clients, d \in Printers : Released(c)[d] = e => claim[d] = e
  BY NoClient DEF Types, Released, Owners

(* Setting one field of a call.                                            *)
LEMMA SetPlace ==
  ASSUME NEW r \in Call, NEW at \in Quiet \union {"visit"} \union Session
  PROVE  [r EXCEPT !.pc = at] \in Call
  BY DEF Call

LEMMA SetPrinters ==
  ASSUME NEW r \in Call, NEW S \in SUBSET Printers
  PROVE  /\ [r EXCEPT !.snap = S] \in Call /\ [r EXCEPT !.gone = S] \in Call
         /\ [r EXCEPT !.todo = S] \in Call
<1>1. [r EXCEPT !.snap = S] \in Call
  BY DEF Call
<1>2. [r EXCEPT !.gone = S] \in Call
  BY DEF Call
<1>3. [r EXCEPT !.todo = S] \in Call
  BY DEF Call
<1> QED
  BY <1>1, <1>2, <1>3

LEMMA CalledOK ==
  ASSUME Types, NEW c \in Clients, NEW mt \in Ids, NEW keeps \in BOOLEAN,
         \A d \in Printers : claim[d] # c
  PROVE  /\ Called(mt, keeps) \in Call /\ Called(mt, keeps).pc = "visit"
         /\ CallOK(c, Called(mt, keeps), claim) /\ SearchOK(Called(mt, keeps))
<1> DEFINE r == Called(mt, keeps)
<1>1. r \in Call
  <2>1. Rest \in Call /\ attached \in SUBSET Printers
    BY RestIsCall DEF Types
  <2> DEFINE r1 == [Rest EXCEPT !.pc = "visit", !.match = mt, !.keeps = keeps]
  <2>2. r1 \in Call
    BY <2>1 DEF Call
  <2> DEFINE r2 == [r1 EXCEPT !.snap = attached]
             r3 == [r2 EXCEPT !.todo = attached]
  <2>3. r = [r3 EXCEPT !.ctx = 1]
    BY DEF Called
  <2> HIDE DEF r, r1
  <2>4. r2 \in Call
    BY <2>1, <2>2, SetPrinters
  <2> HIDE DEF r2
  <2>5. r3 \in Call
    BY <2>1, <2>4, SetPrinters
  <2> HIDE DEF r3
  <2> QED
    BY <2>3, <2>5 DEF Call
<1>2. /\ r.pc = "visit" /\ r.match = mt /\ r.snap = attached /\ r.todo = attached
      /\ r.gone = {} /\ r.count = 0 /\ r.h = None /\ r.ctx = 1 /\ r.handles = 0
  BY DEF Called, Rest
<1> HIDE DEF r
<1>3. CallOK(c, r, claim)
  BY <1>2 DEF CallOK, Quiet, Session
<1>4. SearchOK(r)
  BY <1>2 DEF SearchOK
<1> QED
  BY <1>1, <1>2, <1>3, <1>4 DEF r

(* A call that is over, with the place it leaves its client at.            *)
LEMMA QuietOK ==
  ASSUME NEW c \in Clients, NEW r \in Call, r.pc \in Quiet, r.ctx = 0, r.handles = 0,
         r.h = None, NEW owner, \A d \in Printers : owner[d] # c
  PROVE  CallOK(c, r, owner) /\ SearchOK(r)
  BY DEF CallOK, SearchOK, Quiet, Session

-----------------------------------------------------------------------------
(* One step of a call of usb.c                                             *)

(* The client was in its call before the step, and still is.               *)
Moved(c) ==
  /\ u[c].pc \in {"visit", "claimed"} /\ u'[c].pc \notin {"rest", "asked", "closed"}
  /\ \A e \in Clients : e # c => u'[e] = u[e]

(* The serial number as enumerate knows it: only a printer that was asked  *)
(* for matches and, unless the serial number is asked for, all of them do. *)
LEMMA MatchIsNamed ==
  ASSUME NEW mt \in Ids, NEW d \in Printers, NEW read \in BOOLEAN, NEW info,
         info = [Ident[d] EXCEPT !.serial = IF read THEN @ ELSE Any]
  PROVE  /\ info \in Ids
         /\ matches(mt, info) \in BOOLEAN
         /\ matches(mt, info) => d \in Named(mt)
         /\ mt.serial = Any /\ d \in Named(mt) => matches(mt, info)
<1>1. Ident[d] \in Ids
  BY KnownIds
<1>2. /\ info \in Ids /\ info.model = Ident[d].model
      /\ info.serial = IF read THEN Ident[d].serial ELSE Any
  <2>1. PICK serial \in STRING \union {Any} : serial = IF read THEN Ident[d].serial ELSE Any
    BY <1>1 DEF Ids
  <2>2. info = [Ident[d] EXCEPT !.serial = serial]
    BY <2>1
  <2>3. info \in Ids /\ info.model = Ident[d].model /\ info.serial = serial
    BY <1>1, <2>2 DEF Ids
  <2> QED
    BY <2>1, <2>3
<1>3. d \in Named(mt) <=> /\ mt.model # Any => mt.model = Ident[d].model
                          /\ mt.serial # Any => mt.serial = Ident[d].serial
  BY DEF Named
<1>4. matches(mt, info) <=> /\ mt.model = Any \/ mt.model = info.model
                            /\ mt.serial = Any \/ mt.serial = info.serial
  BY DEF matches
<1>5. matches(mt, info) \in BOOLEAN
  BY DEF matches
<1> QED
  BY <1>2, <1>3, <1>4, <1>5

LEMMA VisitKeeps ==
  ASSUME Types, Calls, NEW c \in Clients, NEW d \in Printers, NEW opened \in BOOLEAN,
         NEW read \in BOOLEAN, Visit(c, d, opened, read), attached' = attached
  PROVE  Types' /\ Calls' /\ Moved(c)
<1> DEFINE r == u[c]
           info == [Ident[d] EXCEPT !.serial = IF read THEN @ ELSE Any]
           match == matches(r.match, info)
           keep == match /\ opened /\ r.keeps /\ r.h = None
           add == IF match THEN 1 ELSE 0
           more == IF match /\ ~r.keeps /\ r.count < MaxDevices
                   THEN r.infos \union {<<d, info>>} ELSE r.infos
           n1 == [r EXCEPT !.todo = r.todo \ {d}]
           n2 == [n1 EXCEPT !.count = r.count + add]
           n3 == [n2 EXCEPT !.infos = more]
           n4 == [n3 EXCEPT !.h = IF keep THEN d ELSE r.h]
           new == [n4 EXCEPT !.handles = r.handles + Kept(match, opened, keep)]
<1>1. /\ u' = [u EXCEPT ![c] = new] /\ claim' = claim
      /\ r.pc = "visit" /\ d \in r.todo
  BY DEF Visit
<1>2. r \in Call /\ CallOK(c, r, claim) /\ SearchOK(r)
  BY DEF Types, Calls
<1> HIDE DEF r
<1>3. /\ info \in Ids /\ match \in BOOLEAN
      /\ match => d \in Named(r.match)
      /\ r.match.serial = Any /\ d \in Named(r.match) => match
  <2>1. r.match \in Ids
    BY <1>2 DEF Call
  <2> QED
    BY <2>1, MatchIsNamed
<1> HIDE DEF info, match
<1>4. /\ r.todo \in SUBSET Printers /\ r.count \in Nat /\ r.handles \in Int
      /\ r.infos \in SUBSET (Printers \X Ids) /\ r.h \in Printers \union {None}
      /\ r.keeps \in BOOLEAN
  BY <1>2 DEF Call
<1>5. /\ add \in {0, 1} /\ r.count + add \in Nat
      /\ more \in SUBSET (Printers \X Ids) /\ keep \in BOOLEAN
      /\ (IF keep THEN d ELSE r.h) \in Printers \union {None}
      /\ r.handles + Kept(match, opened, keep) \in Int
  <2>1. add \in {0, 1} /\ r.count + add \in Nat
    BY <1>4
  <2>2. more \in SUBSET (Printers \X Ids)
    <3>1. <<d, info>> \in Printers \X Ids
      BY <1>3
    <3>2. r.infos \union {<<d, info>>} \in SUBSET (Printers \X Ids)
      BY <1>4, <3>1
    <3> QED
      BY <1>4, <3>2
  <2>3. keep \in BOOLEAN /\ (IF keep THEN d ELSE r.h) \in Printers \union {None}
    BY <1>3, <1>4
  <2>4. r.handles + Kept(match, opened, keep) \in Int
    BY <1>4 DEF Kept
  <2> QED
    BY <2>1, <2>2, <2>3, <2>4
<1>6. /\ new.pc = "visit" /\ new.match = r.match /\ new.keeps = r.keeps
      /\ new.snap = r.snap /\ new.gone = r.gone /\ new.ctx = r.ctx
      /\ new.todo = r.todo \ {d} /\ new.count = r.count + add
      /\ new.h = (IF keep THEN d ELSE r.h)
      /\ new.handles = r.handles + Kept(match, opened, keep)
  BY <1>1, <1>2 DEF Call
<1>7. new \in Call
  <2> HIDE DEF add, more, keep
  <2>1. n1 \in Call
    BY <1>2, <1>4, SetPrinters
  <2> HIDE DEF n1
  <2>2. n2 \in Call
    BY <1>5, <2>1 DEF Call
  <2> HIDE DEF n2
  <2>3. n3 \in Call
    BY <1>5, <2>2 DEF Call
  <2> HIDE DEF n3
  <2>4. n4 \in Call
    BY <1>5, <2>3 DEF Call
  <2> HIDE DEF n4
  <2> QED
    BY <1>5, <2>4 DEF Call
<1> HIDE DEF n1, n2, n3, n4, new, more
<1>8. CallOK(c, new, claim')
  <2>1. /\ r.ctx = 1 /\ r.handles = (IF r.h = None THEN 0 ELSE 1)
        /\ ~r.keeps => r.h = None
        /\ \A e \in Printers : claim[e] # c
    BY <1>1, <1>2 DEF CallOK
  <2>2. new.handles = IF new.h = None THEN 0 ELSE 1
    BY <1>4, <1>5, <1>6, <2>1, NoClient DEF Kept
  <2>3. ~new.keeps => new.h = None
    BY <1>6, <2>1
  <2> QED
    BY <1>1, <1>6, <2>1, <2>2, <2>3 DEF CallOK, Quiet, Session
<1>9. SearchOK(new)
  <2>1. CASE ~r.keeps
    BY <1>6, <2>1 DEF SearchOK
  <2>2. CASE r.keeps
    <3>1. /\ r.todo \subseteq r.snap
          /\ r.h # None => r.h \in Named(r.match) \intersect (r.snap \ r.todo) /\ r.count >= 1
          /\ r.match.serial = Any /\ r.count = 0 =>
               Named(r.match) \intersect ((r.snap \ r.todo) \ r.gone) = {}
          /\ r.match.serial = Any /\ r.count = 1 /\ r.h # None =>
               Named(r.match) \intersect ((r.snap \ r.todo) \ r.gone) \subseteq {r.h}
      BY <1>1, <1>2, <2>2 DEF SearchOK
    <3> DEFINE before == (r.snap \ r.todo) \ r.gone
               after == (r.snap \ new.todo) \ r.gone
    <3>2. after \subseteq before \union {d} /\ d \notin (r.snap \ r.todo)
      BY <1>1, <1>6
    <3>3. new.todo \subseteq r.snap
      BY <1>6, <3>1
    <3>4. new.h # None => new.h \in Named(r.match) \intersect (r.snap \ new.todo) /\ new.count >= 1
      <4>1. CASE keep
        <5>1. new.h = d /\ match /\ new.count = r.count + 1
          BY <1>6, <4>1
        <5>2. d \in Named(r.match) /\ d \in r.snap \ new.todo
          BY <1>1, <1>3, <1>6, <3>1, <5>1
        <5> QED
          BY <1>4, <5>1, <5>2
      <4>2. CASE ~keep
        BY <1>1, <1>3, <1>4, <1>5, <1>6, <3>1, <4>2
      <4> QED
        BY <4>1, <4>2
    <3>5. r.match.serial = Any /\ new.count = 0 => Named(r.match) \intersect after = {}
      <4> SUFFICES ASSUME r.match.serial = Any, new.count = 0
                   PROVE  Named(r.match) \intersect after = {}
        OBVIOUS
      <4>1. ~match /\ r.count = 0
        BY <1>3, <1>4, <1>6
      <4> QED
        BY <1>3, <3>1, <3>2, <4>1
    <3>6. r.match.serial = Any /\ new.count = 1 /\ new.h # None =>
            Named(r.match) \intersect after \subseteq {new.h}
      <4> SUFFICES ASSUME r.match.serial = Any, new.count = 1, new.h # None
                   PROVE  Named(r.match) \intersect after \subseteq {new.h}
        OBVIOUS
      <4>1. CASE match
        <5>1. r.count = 0
          BY <1>4, <1>6, <4>1
        <5>2. r.h = None
          BY <3>1, <5>1
        <5>3. new.h = d
          BY <1>6, <5>2
        <5> QED
          BY <3>1, <3>2, <5>1, <5>3
      <4>2. CASE ~match
        <5>1. r.count = 1 /\ new.h = r.h
          BY <1>3, <1>4, <1>6, <4>2
        <5> QED
          BY <1>3, <3>1, <3>2, <4>2, <5>1
      <4> QED
        BY <1>3, <4>1, <4>2
    <3> HIDE DEF before, keep, add
    <3> QED
      BY <1>6, <3>3, <3>4, <3>5, <3>6 DEF SearchOK
  <2> QED
    BY <1>4, <2>1, <2>2
<1>10. Types' /\ Calls' /\ u'[c] = new /\ \A e \in Clients : e # c => u'[e] = u[e]
  <2>1. claim' \in [Printers -> Owners] /\ attached' \in SUBSET Printers
    BY <1>1 DEF Types
  <2> QED
    BY <1>1, <1>7, <1>8, <1>9, <2>1, OneCall
<1> QED
  BY <1>1, <1>6, <1>10 DEF Moved, r

(* A call that leaves a printer out, field by field.                       *)
LEMMA SkipDoes ==
  ASSUME Types, NEW c \in Clients, NEW d, Skip(c, d)
  PROVE  /\ u[c] \in Call /\ u'[c] \in Call /\ u' = [u EXCEPT ![c] = u'[c]]
         /\ claim' = claim /\ u[c].pc = "visit" /\ d \in u[c].todo
         /\ d \in u[c].gone \/ events' = events + 1
         /\ u'[c].pc = "visit" /\ u'[c].match = u[c].match
         /\ u'[c].keeps = u[c].keeps /\ u'[c].todo = u[c].todo \ {d}
         /\ u'[c].snap = u[c].snap \ {d} /\ u'[c].gone = u[c].gone \ {d}
         /\ u'[c].count = u[c].count /\ u'[c].infos = u[c].infos
         /\ u'[c].h = u[c].h /\ u'[c].ctx = u[c].ctx
         /\ u'[c].handles = u[c].handles
<1> DEFINE r == u[c]
           new == [r EXCEPT !.todo = r.todo \ {d}, !.snap = r.snap \ {d},
                            !.gone = r.gone \ {d}]
<1>1. r \in Call /\ u \in [Clients -> Call]
  BY DEF Types
<1>2. /\ u' = [u EXCEPT ![c] = new]
      /\ claim' = claim /\ r.pc = "visit" /\ d \in r.todo
      /\ d \in r.gone \/ events' = events + 1
  BY DEF Skip, Happens
<1> HIDE DEF r
<1>6. /\ new \in Call /\ new.pc = r.pc /\ new.match = r.match /\ new.keeps = r.keeps
      /\ new.todo = r.todo \ {d} /\ new.snap = r.snap \ {d} /\ new.gone = r.gone \ {d}
      /\ new.count = r.count /\ new.infos = r.infos /\ new.h = r.h /\ new.ctx = r.ctx
      /\ new.handles = r.handles
  BY <1>1 DEF Call
<1> HIDE DEF new
<1>8. u'[c] = new
  BY <1>1, <1>2
<1> QED
  BY <1>1, <1>2, <1>6, <1>8 DEF r

LEMMA SkipKeeps ==
  ASSUME Types, Calls, NEW c \in Clients, NEW d, Skip(c, d), attached' = attached
  PROVE  Types' /\ Calls' /\ Moved(c)
<1> DEFINE r == u[c]
           new == u'[c]
<1>1. /\ r \in Call /\ new \in Call /\ u' = [u EXCEPT ![c] = new] /\ claim' = claim
      /\ r.pc = "visit" /\ d \in r.todo
      /\ new.pc = "visit" /\ new.match = r.match /\ new.keeps = r.keeps
      /\ new.todo = r.todo \ {d} /\ new.snap = r.snap \ {d} /\ new.gone = r.gone \ {d}
      /\ new.count = r.count /\ new.h = r.h /\ new.ctx = r.ctx
      /\ new.handles = r.handles
  BY SkipDoes
<1>2. CallOK(c, r, claim) /\ SearchOK(r)
  BY DEF Calls
<1> HIDE DEF r, new
<1>3. CallOK(c, new, claim')
  BY <1>1, <1>2 DEF CallOK, Quiet, Session
<1>4. SearchOK(new)
  <2>1. new.snap \ new.todo = r.snap \ r.todo
    BY <1>1
  <2>2. (new.snap \ new.todo) \ new.gone = (r.snap \ r.todo) \ r.gone
    BY <1>1
  <2>3. r.todo \subseteq r.snap => new.todo \subseteq new.snap
    BY <1>1
  <2> QED
    BY <1>1, <1>2, <2>1, <2>2, <2>3 DEF SearchOK
<1>5. Types' /\ Calls' /\ u'[c] = new /\ \A e \in Clients : e # c => u'[e] = u[e]
  <2>1. claim' \in [Printers -> Owners] /\ attached' \in SUBSET Printers
    BY <1>1 DEF Types
  <2> QED
    BY <1>1, <1>3, <1>4, <2>1, OneCall
<1> QED
  BY <1>1, <1>5 DEF Moved, r

(* Undoing an open: nothing is left of it.                                 *)
LEMMA FailedIsQuiet ==
  ASSUME Types, NEW c \in Clients, NEW r \in Call, r.pc \in {"visit", "claimed"},
         CallOK(c, r, claim), NEW owner, \A d \in Printers : owner[d] # c
  PROVE  /\ Failed(r) \in Call /\ Failed(r).pc = "failed"
         /\ CallOK(c, Failed(r), owner) /\ SearchOK(Failed(r))
<1> DEFINE held == IF r.h = None THEN 0 ELSE 1
           n1 == [r EXCEPT !.pc = "failed"]
           n2 == [n1 EXCEPT !.ctx = r.ctx - 1]
           n3 == [n2 EXCEPT !.handles = r.handles - held]
           new == [n3 EXCEPT !.h = None]
<1>1. Failed(r) = new
  BY DEF Failed
<1>2. r.ctx = 1 /\ r.handles = held
  BY DEF CallOK, Session
<1>3. new.pc = "failed" /\ new.ctx = 0 /\ new.handles = 0 /\ new.h = None
  BY <1>2 DEF Call
<1>4. new \in Call
  <2>1. n1 \in Call
    BY SetPlace DEF Quiet
  <2> HIDE DEF n1
  <2>2. n2 \in Call
    BY <1>2, <2>1 DEF Call
  <2> HIDE DEF n2
  <2>3. n3 \in Call
    BY <1>2, <2>2 DEF Call
  <2> HIDE DEF n3
  <2> QED
    BY <2>3 DEF Call
<1> HIDE DEF n1, n2, n3, new
<1>5. new.pc \in Quiet
  BY <1>3 DEF Quiet
<1>6. CallOK(c, new, owner) /\ SearchOK(new)
  BY <1>3, <1>4, <1>5, QuietOK
<1> QED
  BY <1>1, <1>3, <1>4, <1>6

LEMMA ClaimKeeps ==
  ASSUME Types, Calls, NEW c \in Clients, Claim(c), attached' = attached
  PROVE  Types' /\ Calls' /\ Moved(c)
<1> DEFINE r == u[c]
           free == r.h \notin r.gone /\ claim[r.h] = None
<1>1. r.pc = "visit" /\ r.todo = {} /\ r.keeps
  BY DEF Claim
<1>2. r \in Call /\ CallOK(c, r, claim) /\ SearchOK(r)
  BY DEF Types, Calls
<1>3. CASE Ready(r) /\ free
  <2> DEFINE new == [r EXCEPT !.pc = "claimed"]
  <2>1. claim' = [claim EXCEPT ![r.h] = c] /\ u' = [u EXCEPT ![c] = new]
    BY <1>3 DEF Claim
  <2> HIDE DEF r
  <2>2. r.count = 1 /\ r.h # None /\ r.h \in Printers
    BY <1>2, <1>3 DEF Ready, Call
  <2>3. new \in Call
    BY <1>2, SetPlace DEF Session
  <2>4. /\ new.pc = "claimed" /\ new.match = r.match /\ new.keeps = r.keeps
        /\ new.snap = r.snap /\ new.gone = r.gone /\ new.ctx = r.ctx
        /\ new.todo = r.todo /\ new.count = r.count
        /\ new.h = r.h /\ new.handles = r.handles
    BY <1>2 DEF Call
  <2> HIDE DEF new
  <2>5. /\ claim' \in [Printers -> Owners]
        /\ \A d \in Printers : d # r.h => claim'[d] = claim[d]
        /\ claim'[r.h] = c
    BY <2>1, <2>2 DEF Types, Owners
  <2>6. CallOK(c, new, claim')
    <3>1. /\ r.ctx = 1 /\ r.handles = 1
          /\ \A d \in Printers : claim[d] # c
      BY <1>1, <1>2, <2>2 DEF CallOK
    <3>2. \A d \in Printers : claim'[d] = c => d = new.h
      BY <2>4, <2>5, <3>1
    <3> QED
      BY <2>2, <2>4, <3>1, <3>2 DEF CallOK, Quiet
  <2>7. SearchOK(new)
    BY <1>1, <1>2, <2>2, <2>4 DEF SearchOK
  <2>8. \A e \in Clients, d \in Printers : e # c /\ claim'[d] = e => claim[d] = e
    BY <2>5
  <2>9. Types' /\ Calls' /\ u'[c] = new /\ \A e \in Clients : e # c => u'[e] = u[e]
    <3>1. attached' \in SUBSET Printers
      BY DEF Types
    <3> QED
      BY <2>1, <2>3, <2>5, <2>6, <2>7, <2>8, <3>1, OneCall
  <2> QED
    BY <1>1, <2>4, <2>9 DEF Moved, r
<1>4. CASE ~(Ready(r) /\ free)
  <2>1. claim' = claim /\ u' = [u EXCEPT ![c] = Failed(r)]
    BY <1>4 DEF Claim
  <2>2. \A d \in Printers : claim'[d] # c
    BY <1>1, <1>2, <2>1 DEF CallOK
  <2>3. /\ Failed(r) \in Call /\ Failed(r).pc = "failed"
        /\ CallOK(c, Failed(r), claim') /\ SearchOK(Failed(r))
    BY <1>1, <1>2, <2>2, FailedIsQuiet
  <2>4. /\ Types' /\ Calls' /\ u'[c] = Failed(r)
        /\ \A e \in Clients : e # c => u'[e] = u[e]
    <3>1. claim' \in [Printers -> Owners] /\ attached' \in SUBSET Printers
      BY <2>1 DEF Types
    <3> QED
      BY <2>1, <2>3, <3>1, OneCall
  <2> QED
    BY <1>1, <2>3, <2>4 DEF Moved
<1> QED
  BY <1>3, <1>4

LEMMA FinishKeeps ==
  ASSUME Types, Calls, NEW c \in Clients, Finish(c), attached' = attached
  PROVE  Types' /\ Calls' /\ Moved(c)
<1> DEFINE r == u[c]
<1>1. r.pc = "claimed"
  BY DEF Finish
<1>2. r \in Call /\ CallOK(c, r, claim) /\ SearchOK(r)
  BY DEF Types, Calls
<1>3. CASE u' = [u EXCEPT ![c].pc = "open"] /\ claim' = claim
  <2> DEFINE new == [r EXCEPT !.pc = "open"]
  <2>1. u' = [u EXCEPT ![c] = new]
    BY <1>3
  <2> HIDE DEF r
  <2>2. new \in Call
    BY <1>2, SetPlace DEF Session
  <2>3. /\ new.pc = "open" /\ new.match = r.match /\ new.keeps = r.keeps
        /\ new.snap = r.snap /\ new.gone = r.gone /\ new.ctx = r.ctx
        /\ new.todo = r.todo /\ new.count = r.count
        /\ new.h = r.h /\ new.handles = r.handles
    BY <1>2 DEF Call
  <2> HIDE DEF new
  <2>4. CallOK(c, new, claim')
    BY <1>1, <1>2, <1>3, <2>3 DEF CallOK, Quiet, Session
  <2>5. SearchOK(new)
    BY <1>1, <1>2, <2>3 DEF SearchOK
  <2>6. Types' /\ Calls' /\ u'[c] = new /\ \A e \in Clients : e # c => u'[e] = u[e]
    <3>1. claim' \in [Printers -> Owners] /\ attached' \in SUBSET Printers
      BY <1>3 DEF Types
    <3> QED
      BY <1>3, <2>1, <2>2, <2>4, <2>5, <3>1, OneCall
  <2> QED
    BY <1>1, <2>3, <2>6 DEF Moved, r
<1>4. CASE u' = [u EXCEPT ![c] = Failed(r)] /\ claim' = Released(c)
  <2> DEFINE new == Failed(r)
  <2>0. u' = [u EXCEPT ![c] = new]
    BY <1>4
  <2>1. /\ claim' \in [Printers -> Owners]
        /\ \A d \in Printers : claim'[d] # c
        /\ \A e \in Clients, d \in Printers : claim'[d] = e => claim[d] = e
    BY <1>4, ReleasedClaims
  <2>2. /\ new \in Call /\ new.pc = "failed"
        /\ CallOK(c, new, claim') /\ SearchOK(new)
    BY <1>1, <1>2, <2>1, FailedIsQuiet
  <2>3. /\ attached' \in SUBSET Printers
        /\ \A e \in Clients, d \in Printers : e # c /\ claim'[d] = e => claim[d] = e
    BY <2>1 DEF Types
  <2> HIDE DEF r, new
  <2>4. Types' /\ Calls' /\ u'[c] = new /\ \A e \in Clients : e # c => u'[e] = u[e]
    BY <2>0, <2>1, <2>2, <2>3, OneCall
  <2> QED
    BY <1>1, <2>2, <2>4 DEF Moved, r
<1> QED
  BY <1>3, <1>4 DEF Finish

LEMMA EndListKeeps ==
  ASSUME Types, Calls, NEW c \in Clients, EndList(c), attached' = attached
  PROVE  Types' /\ Calls' /\ Moved(c)
<1> DEFINE r == u[c]
           n1 == [r EXCEPT !.pc = "listed"]
           new == [n1 EXCEPT !.ctx = r.ctx - 1]
<1>1. /\ r.pc = "visit" /\ ~r.keeps /\ claim' = claim
      /\ u' = [u EXCEPT ![c] = new]
  BY DEF EndList
<1>2. r \in Call /\ CallOK(c, r, claim)
  BY DEF Types, Calls
<1> HIDE DEF r
<1>3. /\ r.ctx = 1 /\ r.handles = 0 /\ r.h = None
      /\ \A d \in Printers : claim'[d] # c
  BY <1>1, <1>2 DEF CallOK
<1>4. new.pc = "listed" /\ new.ctx = 0 /\ new.handles = 0 /\ new.h = None
  BY <1>2, <1>3 DEF Call
<1>5. new \in Call
  <2>1. n1 \in Call
    BY <1>2, SetPlace DEF Quiet
  <2> HIDE DEF n1
  <2> QED
    BY <1>3, <2>1 DEF Call
<1> HIDE DEF n1, new
<1>6. CallOK(c, new, claim') /\ SearchOK(new)
  <2>1. new.pc \in Quiet
    BY <1>4 DEF Quiet
  <2> QED
    BY <1>3, <1>4, <1>5, <2>1, QuietOK
<1>7. Types' /\ Calls' /\ u'[c] = new /\ \A e \in Clients : e # c => u'[e] = u[e]
  <2>1. claim' \in [Printers -> Owners] /\ attached' \in SUBSET Printers
    BY <1>1 DEF Types
  <2> QED
    BY <1>1, <1>5, <1>6, <2>1, OneCall
<1> QED
  BY <1>1, <1>4, <1>7 DEF Moved, r

(* Every step of a call, whichever client makes it.                        *)
LEMMA StepKeeps ==
  ASSUME IInv, NEW c \in Clients, Step(c)
  PROVE  IInv'
<1>1. Types /\ Calls /\ PapplOK /\ CommandOK
  BY DEF IInv
<1>2. attached' = attached /\ inuse' = inuse /\ cli' = cli
  BY DEF Step, env, pappl
<1>3. u[c].todo \subseteq Printers
  BY <1>1 DEF Types, Call
<1>4. Types' /\ Calls' /\ Moved(c)
  BY <1>1, <1>2, <1>3, VisitKeeps, SkipKeeps, ClaimKeeps, FinishKeeps, EndListKeeps
  DEF Step
<1>5. PapplOK'
  BY <1>1, <1>2, <1>4 DEF PapplOK, Moved, Clients
<1>6. CommandOK'
  BY <1>1, <1>2, <1>4 DEF CommandOK, Moved, Clients
<1> QED
  BY <1>4, <1>5, <1>6 DEF IInv

-----------------------------------------------------------------------------
(* The server and the commands begin and end calls.                        *)

(* A client that is in no call begins one, or is refused.                  *)
LEMMA BeginKeeps ==
  ASSUME Types, Calls, NEW c \in Clients, u[c].pc \in {"rest", "asked"},
         NEW mt \in Ids, NEW keeps \in BOOLEAN, attached' = attached, claim' = claim,
         u' = [u EXCEPT ![c] = Called(mt, keeps)] \/ u' = [u EXCEPT ![c] = Refused]
  PROVE  /\ Types' /\ Calls' /\ u'[c].pc \in {"visit", "failed"}
         /\ \A e \in Clients : e # c => u'[e] = u[e]
<1>1. \A d \in Printers : claim[d] # c
  BY DEF Calls, CallOK, Quiet
<1>2. /\ claim' \in [Printers -> Owners] /\ attached' \in SUBSET Printers
      /\ \A e \in Clients, d \in Printers : e # c /\ claim'[d] = e => claim[d] = e
  BY DEF Types
<1>3. CASE u' = [u EXCEPT ![c] = Called(mt, keeps)]
  <2> DEFINE new == Called(mt, keeps)
  <2>1. new \in Call /\ new.pc = "visit" /\ CallOK(c, new, claim') /\ SearchOK(new)
    BY <1>1, CalledOK
  <2>2. u' = [u EXCEPT ![c] = new]
    BY <1>3
  <2> HIDE DEF new
  <2> QED
    BY <1>2, <2>1, <2>2, OneCall
<1>4. CASE u' = [u EXCEPT ![c] = Refused]
  <2> DEFINE new == Refused
  <2>1. new \in Call
    BY RestIsCall, SetPlace DEF Refused, Quiet
  <2>2. new.pc = "failed" /\ new.ctx = 0 /\ new.handles = 0 /\ new.h = None
    BY DEF Refused, Rest
  <2>3. u' = [u EXCEPT ![c] = new]
    BY <1>4
  <2> HIDE DEF new
  <2>4. new.pc \in Quiet
    BY <2>2 DEF Quiet
  <2>5. CallOK(c, new, claim') /\ SearchOK(new)
    BY <1>1, <2>1, <2>2, <2>4, QuietOK
  <2> QED
    BY <1>2, <2>1, <2>2, <2>3, <2>5, OneCall
<1> QED
  BY <1>3, <1>4

(* A client leaves its call with nothing in its hands.                     *)
LEMMA GiveUpKeeps ==
  ASSUME Types, Calls, NEW c \in Clients, u[c].pc \in Quiet, GiveUp(c),
         attached' = attached, claim' = claim
  PROVE  /\ Types' /\ Calls' /\ u'[c].pc = "rest"
         /\ \A e \in Clients : e # c => u'[e] = u[e]
<1> DEFINE n1 == [Rest EXCEPT !.ctx = u[c].ctx]
           new == [n1 EXCEPT !.handles = u[c].handles]
<1>1. /\ u[c].ctx = 0 /\ u[c].handles = 0 /\ \A d \in Printers : claim'[d] # c
  BY DEF Calls, CallOK
<1>2. new \in Call
  <2>1. n1 \in Call
    BY <1>1, RestIsCall DEF Call
  <2> HIDE DEF n1
  <2> QED
    BY <1>1, <2>1 DEF Call
<1>3. new.pc = "rest" /\ new.ctx = 0 /\ new.handles = 0 /\ new.h = None
  BY <1>1 DEF Rest
<1>4. u' = [u EXCEPT ![c] = new]
  BY DEF GiveUp
<1> HIDE DEF n1, new
<1>5. CallOK(c, new, claim') /\ SearchOK(new)
  <2>1. new.pc \in Quiet
    BY <1>3 DEF Quiet
  <2> QED
    BY <1>1, <1>2, <1>3, <2>1, QuietOK
<1>6. /\ claim' \in [Printers -> Owners] /\ attached' \in SUBSET Printers
      /\ \A e \in Clients, d \in Printers : e # c /\ claim'[d] = e => claim[d] = e
  BY DEF Types
<1> QED
  BY <1>2, <1>3, <1>4, <1>5, <1>6, OneCall

(* m2022_usb_close ends a session.                                         *)
LEMMA CloseKeeps ==
  ASSUME Types, Calls, NEW c \in Clients, u[c].pc \in Session,
         NEW at \in {"rest", "closed"}, Close(c, at), attached' = attached
  PROVE  /\ Types' /\ Calls' /\ u'[c].pc = at
         /\ \A e \in Clients : e # c => u'[e] = u[e]
<1> DEFINE n1 == [Rest EXCEPT !.pc = at]
           n2 == [n1 EXCEPT !.ctx = u[c].ctx - 1]
           new == [n2 EXCEPT !.handles = u[c].handles - 1]
<1>1. u[c].ctx = 1 /\ u[c].handles = 1
  BY DEF Calls, CallOK
<1>2. new \in Call
  <2>1. n1 \in Call
    BY RestIsCall, SetPlace DEF Quiet
  <2> HIDE DEF n1
  <2>2. n2 \in Call
    BY <1>1, <2>1 DEF Call
  <2> HIDE DEF n2
  <2> QED
    BY <1>1, <2>2 DEF Call
<1>3. new.pc = at /\ new.ctx = 0 /\ new.handles = 0 /\ new.h = None
  BY <1>1 DEF Rest
<1>4. u' = [u EXCEPT ![c] = new] /\ claim' = Released(c)
  BY DEF Close
<1> HIDE DEF n1, n2, new
<1>5. /\ claim' \in [Printers -> Owners] /\ \A d \in Printers : claim'[d] # c
      /\ attached' \in SUBSET Printers
      /\ \A e \in Clients, d \in Printers : e # c /\ claim'[d] = e => claim[d] = e
  BY <1>4, ReleasedClaims DEF Types
<1>6. CallOK(c, new, claim') /\ SearchOK(new)
  <2>1. new.pc \in Quiet
    BY <1>3 DEF Quiet
  <2> QED
    BY <1>2, <1>3, <1>5, <2>1, QuietOK
<1> QED
  BY <1>2, <1>3, <1>4, <1>5, <1>6, OneCall

LEMMA JobKeeps ==
  ASSUME IInv, JobStart \/ JobOpen \/ JobRetry \/ JobEnd
  PROVE  IInv'
<1>1. Types /\ Calls /\ PapplOK /\ CommandOK /\ "job" \in Clients
  BY DEF IInv, Clients
<1>2. attached' = attached /\ cli' = cli
  BY DEF JobStart, JobOpen, JobRetry, JobEnd, env
<1>3. CASE JobStart
  BY <1>1, <1>3 DEF JobStart, env, IInv, Types, Calls, PapplOK, CommandOK
<1>4. CASE ~JobStart
  <2>1. /\ Types' /\ Calls' /\ \A e \in Clients : e # "job" => u'[e] = u[e]
        /\ inuse' \in {inuse, None, "job"}
    <3>1. CASE JobOpen
      <4>1. /\ u["job"].pc \in {"rest", "asked"} /\ claim' = claim /\ inuse' = "job"
            /\ \/ u' = [u EXCEPT !["job"] = Called(Uri, TRUE)]
               \/ u' = [u EXCEPT !["job"] = Refused]
        BY <3>1 DEF JobOpen, Begin
      <4> QED
        BY <1>1, <1>2, <4>1, KnownIds, BeginKeeps
    <3>2. CASE JobRetry
      <4>1. u["job"].pc \in Quiet /\ GiveUp("job") /\ claim' = claim /\ inuse' = inuse
        BY <3>2 DEF JobRetry, pappl, Quiet
      <4> QED
        BY <1>1, <1>2, <4>1, GiveUpKeeps
    <3>3. CASE JobEnd
      <4>1. u["job"].pc \in Session /\ Close("job", "rest") /\ inuse' = None
        BY <3>3 DEF JobEnd, Session
      <4> QED
        BY <1>1, <1>2, <4>1, CloseKeeps
    <3> QED
      BY <1>4, <3>1, <3>2, <3>3
  <2>2. u'["status"] = u["status"] /\ u'["cli"] = u["cli"]
    BY <2>1 DEF Clients
  <2>3. PapplOK' /\ CommandOK'
    BY <1>1, <1>2, <2>1, <2>2 DEF PapplOK, CommandOK, None
  <2> QED
    BY <2>1, <2>3 DEF IInv
<1> QED
  BY <1>3, <1>4

LEMMA StatusKeeps ==
  ASSUME IInv, StatusPoll
  PROVE  IInv'
<1>1. Types /\ Calls /\ PapplOK /\ CommandOK /\ "status" \in Clients
  BY DEF IInv, Clients
<1>2. attached' = attached /\ cli' = cli
  BY DEF StatusPoll, StatusAsk, StatusOpen, StatusOffline, StatusRead, StatusClose,
         StatusSet, env
<1> DEFINE r == u["status"]
<1>3. r \in Call /\ CallOK("status", r, claim)
  BY <1>1 DEF Types, Calls
<1>4. /\ Types' /\ Calls' /\ \A e \in Clients : e # "status" => u'[e] = u[e]
      /\ PapplOK'
  <2>1. CASE StatusAsk
    <3> DEFINE new == [r EXCEPT !.pc = "asked"]
    <3>1. /\ r.pc = "rest" /\ inuse = None /\ inuse' = None /\ claim' = claim
          /\ u' = [u EXCEPT !["status"] = new]
      BY <2>1 DEF StatusAsk, pappl
    <3>2. new \in Call
      BY <1>3, SetPlace DEF Quiet
    <3>3. /\ r.ctx = 0 /\ r.handles = 0 /\ r.h = None
          /\ \A d \in Printers : claim'[d] # "status"
      BY <1>3, <3>1 DEF CallOK, Quiet
    <3>4. new.pc = "asked" /\ new.ctx = 0 /\ new.handles = 0 /\ new.h = None
      BY <1>3, <3>3 DEF Call
    <3> HIDE DEF r, new
    <3>5. CallOK("status", new, claim') /\ SearchOK(new)
      <4>1. new.pc \in Quiet
        BY <3>4 DEF Quiet
      <4> QED
        BY <1>1, <3>2, <3>3, <3>4, <4>1, QuietOK
    <3>6. /\ claim' \in [Printers -> Owners] /\ attached' \in SUBSET Printers
          /\ \A e \in Clients, d \in Printers :
               e # "status" /\ claim'[d] = e => claim[d] = e
      BY <1>1, <1>2, <3>1 DEF Types
    <3>7. Types' /\ Calls' /\ \A e \in Clients : e # "status" => u'[e] = u[e]
      BY <1>1, <3>1, <3>2, <3>5, <3>6, OneCall
    <3> QED
      BY <3>1, <3>7 DEF PapplOK, None
  <2>2. CASE StatusOpen
    <3>1. /\ r.pc \in {"rest", "asked"} /\ claim' = claim /\ inuse' = "status"
          /\ \/ u' = [u EXCEPT !["status"] = Called(Uri, TRUE)]
             \/ u' = [u EXCEPT !["status"] = Refused]
      BY <2>2 DEF StatusOpen, Begin
    <3>2. /\ Types' /\ Calls' /\ u'["status"].pc \in {"visit", "failed"}
          /\ \A e \in Clients : e # "status" => u'[e] = u[e]
      BY <1>1, <1>2, <3>1, KnownIds, BeginKeeps
    <3> QED
      BY <3>1, <3>2 DEF PapplOK
  <2>3. CASE StatusOffline
    <3>1. r.pc \in Quiet /\ GiveUp("status") /\ claim' = claim
      BY <2>3 DEF StatusOffline, Quiet
    <3>2. /\ Types' /\ Calls' /\ u'["status"].pc = "rest"
          /\ \A e \in Clients : e # "status" => u'[e] = u[e]
      BY <1>1, <1>2, <3>1, GiveUpKeeps
    <3>3. inuse' # "status" /\ inuse' \in {None, "job", "status"}
      BY <1>1, <2>3 DEF StatusOffline, PapplOK, None
    <3> QED
      BY <3>2, <3>3 DEF PapplOK
  <2>4. CASE StatusRead
    <3> DEFINE new == [r EXCEPT !.pc = "read"]
    <3>1. /\ r.pc = "open" /\ inuse' = inuse /\ claim' = claim
          /\ u' = [u EXCEPT !["status"] = new]
      BY <2>4 DEF StatusRead
    <3>2. new \in Call
      BY <1>3, SetPlace DEF Session
    <3>3. /\ new.pc = "read" /\ new.ctx = r.ctx /\ new.handles = r.handles
          /\ new.h = r.h
      BY <1>3 DEF Call
    <3> HIDE DEF r, new
    <3>4. CallOK("status", new, claim') /\ SearchOK(new)
      BY <1>3, <3>1, <3>3 DEF CallOK, SearchOK, Quiet, Session
    <3>5. /\ claim' \in [Printers -> Owners] /\ attached' \in SUBSET Printers
          /\ \A e \in Clients, d \in Printers :
               e # "status" /\ claim'[d] = e => claim[d] = e
      BY <1>1, <1>2, <3>1 DEF Types
    <3>6. /\ Types' /\ Calls' /\ u'["status"] = new
          /\ \A e \in Clients : e # "status" => u'[e] = u[e]
      BY <1>1, <3>1, <3>2, <3>4, <3>5, OneCall
    <3> QED
      BY <1>1, <3>1, <3>3, <3>6 DEF PapplOK
  <2>5. CASE StatusClose
    <3>1. r.pc \in Session /\ Close("status", "closed") /\ inuse' = None
      BY <2>5 DEF StatusClose, Session
    <3>2. Types' /\ Calls' /\ \A e \in Clients : e # "status" => u'[e] = u[e]
      BY <1>1, <1>2, <3>1, CloseKeeps
    <3> QED
      BY <3>1, <3>2 DEF PapplOK, None
  <2>6. CASE StatusSet
    <3> DEFINE new == [r EXCEPT !.pc = "rest"]
    <3>1. /\ r.pc = "closed" /\ inuse' = inuse /\ claim' = claim
          /\ u' = [u EXCEPT !["status"] = new]
      BY <2>6 DEF StatusSet
    <3>2. new \in Call
      BY <1>3, SetPlace DEF Quiet
    <3>3. /\ r.ctx = 0 /\ r.handles = 0 /\ r.h = None
          /\ \A d \in Printers : claim'[d] # "status"
      BY <1>3, <3>1 DEF CallOK, Quiet
    <3>4. new.pc = "rest" /\ new.ctx = 0 /\ new.handles = 0 /\ new.h = None
      BY <1>3, <3>3 DEF Call
    <3>5. inuse' # "status" /\ inuse' \in {None, "job", "status"}
      BY <1>1, <3>1 DEF PapplOK
    <3> HIDE DEF r, new
    <3>6. CallOK("status", new, claim') /\ SearchOK(new)
      <4>1. new.pc \in Quiet
        BY <3>4 DEF Quiet
      <4> QED
        BY <1>1, <3>2, <3>3, <3>4, <4>1, QuietOK
    <3>7. /\ claim' \in [Printers -> Owners] /\ attached' \in SUBSET Printers
          /\ \A e \in Clients, d \in Printers :
               e # "status" /\ claim'[d] = e => claim[d] = e
      BY <1>1, <1>2, <3>1 DEF Types
    <3>8. Types' /\ Calls' /\ \A e \in Clients : e # "status" => u'[e] = u[e]
      BY <1>1, <3>1, <3>2, <3>6, <3>7, OneCall
    <3> QED
      BY <3>5, <3>8 DEF PapplOK
  <2> QED
    BY <2>1, <2>2, <2>3, <2>4, <2>5, <2>6 DEF StatusPoll
<1>5. CommandOK'
  <2>1. u'["cli"] = u["cli"]
    BY <1>4 DEF Clients
  <2> QED
    BY <1>1, <1>2, <2>1 DEF CommandOK
<1> QED
  BY <1>4, <1>5 DEF IInv

(* What a command does to its own state.                                   *)
LEMMA NoCommandIsOne == NoCommand \in Commands
<1>1. 0 \in Sizes
  BY DEF Sizes
<1> QED
  BY <1>1 DEF NoCommand, Commands

(* The exit status of a command that ends.                                 *)
LEMMA ExitKeeps ==
  ASSUME cli \in Commands, NEW e \in 0 .. 4, Exit(e)
  PROVE  cli' \in Commands /\ cli'.cmd = "exit"
<1> DEFINE n1 == [cli EXCEPT !.cmd = "exit"]
           n2 == [n1 EXCEPT !.exit = e]
<1>1. cli' = n2
  BY DEF Exit
<1>2. n1 \in Commands /\ n1.cmd = "exit"
  BY DEF Commands
<1> HIDE DEF n1
<1>3. n2 \in Commands /\ n2.cmd = "exit"
  BY <1>2 DEF Commands
<1> QED
  BY <1>1, <1>3

(* A command starts with nothing of the last one.                          *)
LEMMA StartKeeps ==
  ASSUME IInv, cmd_probe \/ \E m \in SendMatches : cmd_send(m)
  PROVE  IInv'
<1>1. Types /\ Calls /\ PapplOK /\ CommandOK /\ "cli" \in Clients
  BY DEF IInv, Clients
<1>2. /\ attached' = attached /\ claim' = claim /\ inuse' = inuse
      /\ cli.cmd = "none"
  BY DEF cmd_probe, cmd_send, env, pappl
<1>3. u["cli"].pc \in {"rest", "asked"}
  BY <1>1, <1>2 DEF CommandOK
<1>4. \E cmd \in {"send", "list"} : cli' = [NoCommand EXCEPT !.cmd = cmd]
  BY DEF cmd_probe, cmd_send
<1>5. \E mt \in Ids, keeps \in BOOLEAN :
        u' = [u EXCEPT !["cli"] = Called(mt, keeps)] \/ u' = [u EXCEPT !["cli"] = Refused]
  BY KnownIds DEF cmd_probe, cmd_send
<1>6. /\ Types' /\ Calls' /\ \A e \in Clients : e # "cli" => u'[e] = u[e]
  BY <1>1, <1>2, <1>3, <1>5, BeginKeeps
<1>7. PapplOK'
  BY <1>1, <1>2, <1>6 DEF PapplOK, Clients
<1>8. CommandOK'
  <2>1. PICK cmd \in {"send", "list"} : cli' = [NoCommand EXCEPT !.cmd = cmd]
    BY <1>4
  <2>2. cli' \in Commands /\ cli'.cmd = cmd
    BY <2>1, NoCommandIsOne DEF Commands
  <2> QED
    BY <2>2 DEF CommandOK
<1> QED
  BY <1>6, <1>7, <1>8 DEF IInv

LEMMA CommandKeeps ==
  ASSUME IInv, Command
  PROVE  IInv'
<1>1. Types /\ Calls /\ PapplOK /\ CommandOK /\ "cli" \in Clients
  BY DEF IInv, Clients
<1>2. cli \in Commands
  BY <1>1 DEF CommandOK
<1>3. attached' = attached /\ inuse' = inuse
  BY DEF Command, SendEnd, ProbeListed, query, Queried, ProbeEnd, Leave, env, pappl
<1>4. /\ Types' /\ Calls' /\ CommandOK'
      /\ \A e \in Clients : e # "cli" => u'[e] = u[e]
  <2>1. CASE SendEnd
    <3>1. CASE u["cli"].pc = "failed" /\ GiveUp("cli") /\ Exit(3) /\ claim' = claim
      <4>1. /\ Types' /\ Calls' /\ u'["cli"].pc = "rest"
            /\ \A e \in Clients : e # "cli" => u'[e] = u[e]
        BY <1>1, <1>3, <3>1, GiveUpKeeps DEF Quiet
      <4>2. cli' \in Commands /\ cli'.cmd = "exit"
        BY <1>2, <3>1, ExitKeeps
      <4> QED
        BY <4>1, <4>2 DEF CommandOK
    <3>2. CASE /\ u["cli"].pc = "open" /\ Close("cli", "rest")
               /\ Exit(IF Live("cli") THEN 0 ELSE 4)
      <4>1. /\ Types' /\ Calls' /\ u'["cli"].pc = "rest"
            /\ \A e \in Clients : e # "cli" => u'[e] = u[e]
        BY <1>1, <1>3, <3>2, CloseKeeps DEF Session
      <4>2. cli' \in Commands /\ cli'.cmd = "exit"
        BY <1>2, <3>2, ExitKeeps
      <4> QED
        BY <4>1, <4>2 DEF CommandOK
    <3> QED
      BY <2>1, <3>1, <3>2 DEF SendEnd
  <2>2. CASE ProbeListed
    <3> DEFINE infos == u["cli"].infos
               listed == {row[1] : row \in infos}
               n1 == [cli EXCEPT !.cmd = "query"]
               n2 == [n1 EXCEPT !.snap = u["cli"].snap]
               n3 == [n2 EXCEPT !.listed = listed]
               n4 == [n3 EXCEPT !.np = Cardinality(infos)]
               new == [n4 EXCEPT !.rows = infos]
    <3>1. cli' = new
      BY <2>2 DEF ProbeListed
    <3>2. /\ u["cli"].snap \in SUBSET Printers /\ infos \in SUBSET (Printers \X Ids)
      BY <1>1 DEF Types, Call
    <3>3. listed \in SUBSET Printers /\ Cardinality(infos) \in Sizes
      BY <3>2 DEF Sizes
    <3> HIDE DEF infos, listed
    <3>4. new.cmd = "query"
      BY <1>2 DEF Commands
    <3>5. new \in Commands
      <4>1. n1 \in Commands
        BY <1>2 DEF Commands
      <4> HIDE DEF n1
      <4>2. n2 \in Commands
        BY <3>2, <4>1 DEF Commands
      <4> HIDE DEF n2
      <4>3. n3 \in Commands
        BY <3>3, <4>2 DEF Commands
      <4> HIDE DEF n3
      <4>4. n4 \in Commands
        BY <3>3, <4>3 DEF Commands
      <4> HIDE DEF n4
      <4> QED
        BY <3>2, <4>4 DEF Commands
    <3> HIDE DEF new
    <3>6. u["cli"].pc \in Quiet /\ GiveUp("cli") /\ claim' = claim
      BY <2>2 DEF ProbeListed, Quiet
    <3>7. Types' /\ Calls' /\ \A e \in Clients : e # "cli" => u'[e] = u[e]
      BY <1>1, <1>3, <3>6, GiveUpKeeps
    <3> QED
      BY <3>1, <3>4, <3>5, <3>7 DEF CommandOK
  <2>3. CASE query
    <3>1. PICK row \in cli.rows :
            cli' = [cli EXCEPT !.rows = @ \ {row}] /\ Begin("cli", row[2], TRUE)
      BY <2>3 DEF query
    <3>2. cli.rows \in SUBSET (Printers \X Ids) /\ cli.cmd = "query"
      BY <1>2, <2>3 DEF Commands, query
    <3>3. row[2] \in Ids
      BY <3>1, <3>2
    <3>4. /\ u["cli"].pc \in {"rest", "asked"} /\ claim' = claim
          /\ \/ u' = [u EXCEPT !["cli"] = Called(row[2], TRUE)]
             \/ u' = [u EXCEPT !["cli"] = Refused]
      BY <2>3, <3>1 DEF query, Begin
    <3>5. Types' /\ Calls' /\ \A e \in Clients : e # "cli" => u'[e] = u[e]
      BY <1>1, <1>3, <3>3, <3>4, BeginKeeps
    <3>6. cli' \in Commands /\ cli'.cmd = "query"
      BY <1>2, <3>1, <3>2 DEF Commands
    <3> QED
      BY <3>5, <3>6 DEF CommandOK
  <2>4. CASE Queried
    <3>1. cli.cmd = "query"
      BY <2>4 DEF Queried
    <3>2. CASE u["cli"].pc = "failed" /\ GiveUp("cli") /\ UNCHANGED <<cli, claim>>
      <4>1. Types' /\ Calls' /\ \A e \in Clients : e # "cli" => u'[e] = u[e]
        BY <1>1, <1>3, <3>2, GiveUpKeeps DEF Quiet
      <4> QED
        BY <1>2, <3>1, <3>2, <4>1 DEF CommandOK
    <3>3. CASE /\ u["cli"].pc = "open" /\ Close("cli", "rest")
               /\ cli' = [cli EXCEPT !.opened = @ + 1]
      <4>1. Types' /\ Calls' /\ \A e \in Clients : e # "cli" => u'[e] = u[e]
        BY <1>1, <1>3, <3>3, CloseKeeps DEF Session
      <4>2. cli' \in Commands /\ cli'.cmd = "query"
        BY <1>2, <3>1, <3>3 DEF Commands
      <4> QED
        BY <4>1, <4>2 DEF CommandOK
    <3> QED
      BY <2>4, <3>2, <3>3 DEF Queried
  <2>5. CASE ProbeEnd \/ Leave
    <3>1. UNCHANGED <<attached, claim, u>> /\ u["cli"].pc = "rest"
      BY <1>1, <2>5 DEF ProbeEnd, Leave, env, CommandOK
    <3>2. cli' \in Commands
      <4>1. CASE ProbeEnd
        <5>1. ProbeStatus \in 0 .. 4
          BY DEF ProbeStatus
        <5> QED
          BY <1>2, <4>1, <5>1, ExitKeeps DEF ProbeEnd
      <4>2. CASE Leave
        BY <4>2, NoCommandIsOne DEF Leave
      <4> QED
        BY <2>5, <4>1, <4>2
    <3> QED
      BY <1>1, <3>1, <3>2 DEF Types, Calls, CommandOK
  <2> QED
    BY <2>1, <2>2, <2>3, <2>4, <2>5 DEF Command
<1>5. PapplOK'
  BY <1>1, <1>3, <1>4 DEF PapplOK, Clients
<1> QED
  BY <1>4, <1>5 DEF IInv

-----------------------------------------------------------------------------
(* The bus and the vendor's driver                                         *)

(* A printer that goes takes its claim with it, and a call that knew it    *)
(* may no longer count on it.                                              *)
LEMMA UnplugKeeps ==
  ASSUME IInv, NEW d \in Printers, Unplug(d)
  PROVE  IInv'
<1>1. Types /\ Calls /\ PapplOK /\ CommandOK
  BY DEF IInv
<1>2. /\ attached' \in SUBSET Printers
      /\ claim' = [claim EXCEPT ![d] = None] /\ inuse' = inuse /\ cli' = cli
  BY <1>1 DEF Types, Unplug, pappl
<1>3. claim' \in [Printers -> Owners]
      /\ \A c \in Clients, e \in Printers : claim'[e] = c => claim[e] = c
  BY <1>1, <1>2, NoClient DEF Types, Owners
<1>4. ASSUME NEW c \in Clients
      PROVE  /\ u'[c] \in Call /\ u'[c].pc = u[c].pc
             /\ CallOK(c, u'[c], claim') /\ SearchOK(u'[c])
  <2> DEFINE r == u[c]
             new == [r EXCEPT !.gone = r.gone \union {d}]
  <2>1. r \in Call /\ CallOK(c, r, claim) /\ SearchOK(r)
    BY <1>1 DEF Types, Calls
  <2>2. u'[c] = new \/ u'[c] = r
    BY DEF Unplug
  <2>3. CallOK(c, r, claim')
    BY <1>3, <2>1 DEF CallOK
  <2> HIDE DEF r
  <2>4. r.gone \union {d} \in SUBSET Printers
    BY <2>1 DEF Call
  <2>5. new \in Call
    BY <2>1, <2>4, SetPrinters
  <2>6. /\ new.pc = r.pc /\ new.match = r.match /\ new.keeps = r.keeps
        /\ new.snap = r.snap /\ new.todo = r.todo /\ new.count = r.count
        /\ new.h = r.h /\ new.ctx = r.ctx /\ new.handles = r.handles
        /\ new.gone = r.gone \union {d}
    BY <2>1 DEF Call
  <2> HIDE DEF new
  <2>7. CallOK(c, new, claim')
    BY <2>3, <2>6 DEF CallOK
  <2>8. SearchOK(new)
    BY <2>1, <2>6 DEF SearchOK
  <2> QED
    BY <2>1, <2>2, <2>3, <2>5, <2>6, <2>7, <2>8 DEF r
<1>5. u' \in [Clients -> Call]
  <2>1. DOMAIN u' = Clients /\ u' = [c \in Clients |-> u'[c]]
    BY DEF Unplug
  <2> QED
    BY <1>4, <2>1
<1>6. Types' /\ Calls'
  BY <1>2, <1>3, <1>4, <1>5 DEF Types, Calls
<1>7. u'["status"].pc = u["status"].pc /\ u'["cli"].pc = u["cli"].pc
  BY <1>4 DEF Clients
<1>8. PapplOK' /\ CommandOK'
  BY <1>1, <1>2, <1>7 DEF PapplOK, CommandOK
<1> QED
  BY <1>6, <1>8 DEF IInv

LEMMA BusKeeps ==
  ASSUME IInv, NEW d \in Printers,
         \/ Plug(d) \/ VendorClaim(d) \/ VendorRelease(d)
         \/ \E b \in Bytes : Condition(d, b)
  PROVE  IInv'
<1>1. Types /\ Calls /\ PapplOK /\ CommandOK
  BY DEF IInv
<1>2. u' = u /\ inuse' = inuse /\ cli' = cli
  BY DEF Plug, VendorClaim, VendorRelease, Condition, pappl, env
<1>3. attached' \in SUBSET Printers
  BY <1>1 DEF Types, Plug, VendorClaim, VendorRelease, Condition, env
<1>4. /\ claim' \in [Printers -> Owners]
      /\ \A c \in Clients, e \in Printers : claim'[e] = c => claim[e] = c
  BY <1>1, NoClient DEF Types, Owners, Plug, VendorClaim, VendorRelease, Condition, env
<1>5. \A c \in Clients : CallOK(c, u[c], claim') /\ SearchOK(u[c])
  BY <1>1, <1>4 DEF Calls, CallOK
<1> QED
  BY <1>1, <1>2, <1>3, <1>4, <1>5 DEF IInv, Types, Calls, PapplOK, CommandOK

-----------------------------------------------------------------------------
LEMMA InitHolds == Init => IInv
<1> SUFFICES ASSUME Init PROVE IInv
  OBVIOUS
<1>1. \A c \in Clients : u[c] = Rest
  BY DEF Init
<1>2. Types
  BY RestIsCall, UsbDeviceAssumption DEF Init, Types, Owners
<1>3. Calls
  <2> SUFFICES ASSUME NEW c \in Clients PROVE CallOK(c, Rest, claim) /\ SearchOK(Rest)
    BY <1>1 DEF Calls
  <2>1. /\ Rest.pc \in Quiet /\ Rest.ctx = 0 /\ Rest.handles = 0 /\ Rest.h = None
    BY DEF Rest, Quiet
  <2>2. \A d \in Printers : claim[d] # c
    BY NoClient DEF Init
  <2> QED
    BY <2>1, <2>2, RestIsCall, QuietOK
<1>4. PapplOK
  BY DEF Init, PapplOK, None
<1>5. CommandOK
  <2>1. u["cli"].pc = "rest"
    BY <1>1 DEF Clients, Rest
  <2> QED
    BY <2>1, NoCommandIsOne DEF Init, CommandOK
<1> QED
  BY <1>2, <1>3, <1>4, <1>5 DEF IInv

LEMMA NextHolds == IInv /\ [Next]_vars => IInv'
<1> SUFFICES ASSUME IInv, [Next]_vars PROVE IInv'
  OBVIOUS
<1>1. CASE Steps
  <2>1. CASE \E c \in Clients : Step(c)
    BY <2>1, StepKeeps
  <2>2. CASE JobStart \/ JobOpen \/ JobRetry \/ JobEnd
    BY <2>2, JobKeeps
  <2>3. CASE StatusPoll
    BY <2>3, StatusKeeps
  <2>4. CASE cmd_probe \/ \E m \in SendMatches : cmd_send(m)
    BY <2>4, StartKeeps
  <2>5. CASE Command
    BY <2>5, CommandKeeps
  <2>6. CASE \E d \in Printers : \/ Plug(d) \/ Unplug(d) \/ VendorClaim(d) \/ VendorRelease(d)
                                 \/ \E b \in Bytes : Condition(d, b)
    BY <2>6, UnplugKeeps, BusKeeps
  <2> QED
    BY <1>1, <2>1, <2>2, <2>3, <2>4, <2>5, <2>6 DEF Steps
<1>2. CASE UNCHANGED vars
  BY <1>2 DEF vars, IInv, Types, Calls, PapplOK, CommandOK
<1> QED
  BY <1>1, <1>2 DEF Next

(***************************************************************************)
(* Whatever the printers, the matches and the order of events: when a call *)
(* of m2022_usb_open, m2022_usb_list or m2022_usb_close has come back, by  *)
(* whichever of its exits, no libusb context, handle or claim is left, a   *)
(* session has exactly one of each, and a poll gives PAPPL's device back.  *)
(***************************************************************************)
THEOREM NothingLeaksHolds == Spec => []NothingLeaks
<1>1. IInv => NothingLeaks
  <2> SUFFICES ASSUME IInv PROVE NothingLeaks
    OBVIOUS
  <2>1. Types /\ Calls /\ PapplOK
    BY DEF IInv
  <2>2. ASSUME NEW c \in Clients
        PROVE  /\ u[c].handles = IF u[c].h = None THEN 0 ELSE 1
               /\ u[c].pc \in {"rest", "failed", "listed"} =>
                    u[c].ctx = 0 /\ u[c].h = None /\ \A d \in Printers : claim[d] # c
               /\ \A d \in Printers : claim[d] = c => u[c].h = d
    <3>1. u[c].pc \in Quiet \union {"visit"} \union Session
      BY <2>1 DEF Types, Call
    <3>2. CallOK(c, u[c], claim)
      BY <2>1 DEF Calls
    <3> QED
      BY <3>1, <3>2 DEF CallOK, Quiet, Session
  <2>3. \A d \in Printers : claim[d] \in Clients => u[claim[d]].h = d
    BY <2>2
  <2> QED
    BY <2>1, <2>2, <2>3 DEF NothingLeaks, PapplOK
<1> QED
  BY <1>1, InitHolds, NextHolds, PTL DEF Spec

(***************************************************************************)
(* "The device is identified by VID/PID/serial, never by enumeration       *)
(* order", for any printers of which no two have the same serial number: a *)
(* session of m2022_usb_open is with a printer that was asked for, and     *)
(* there was no other.  Without the hypothesis the order would matter: of  *)
(* two printers with the number that is asked for, one whose number cannot *)
(* be read is passed over and the other one taken.                         *)
(***************************************************************************)
THEOREM RightPrinterHolds == SerialsDiffer => (Spec => []RightPrinter)
<1> SUFFICES ASSUME SerialsDiffer PROVE Spec => []RightPrinter
  OBVIOUS
<1>1. IInv => RightPrinter
  <2> SUFFICES ASSUME IInv, NEW c \in Clients, u[c].pc \in {"claimed", "open"}
               PROVE  Named(u[c].match) \intersect ((u[c].snap \ u[c].gone) \union {u[c].h})
                        = {u[c].h}
    BY DEF RightPrinter
  <2> DEFINE r == u[c]
  <2>1. r \in Call /\ CallOK(c, r, claim) /\ SearchOK(r)
    BY DEF IInv, Types, Calls
  <2>2. r.h # None /\ r.h \in Printers
    BY <2>1 DEF CallOK, Session, Call
  <2>3. /\ r.todo = {} /\ r.count = 1 /\ r.h \in Named(r.match) /\ r.snap \in SUBSET Printers
        /\ r.match.serial = Any =>
             Named(r.match) \intersect (r.snap \ r.gone) \subseteq {r.h}
    BY <2>1, <2>2 DEF SearchOK, Call
  <2>4. r.match.serial # Any => Named(r.match) \subseteq {r.h}
    BY <2>3 DEF Named, SerialsDiffer
  <2> HIDE DEF r
  <2> QED
    BY <2>3, <2>4 DEF r
<1> QED
  BY <1>1, InitHolds, NextHolds, PTL DEF Spec

-----------------------------------------------------------------------------
(***************************************************************************)
(* What probe and the status poll tell.  Both are judged by what happened  *)
(* meanwhile, which the history variables blocked and seen remember.       *)
(***************************************************************************)
ToldApart == \A d, e \in Printers : matches(Ident[d], Ident[e]) => d = e

Watched == {"list", "query", "exit"}
NotFree == {d \in Printers : d \notin attached \/ claim[d] \notin {None, "cli"}}

(* The list of probe: a printer that is listed as something else than it   *)
(* is could not be read, and one that is passed over is left out.          *)
ListOK(r, b) ==
  /\ r.pc \in {"visit", "listed", "failed"} /\ ~r.keeps
  /\ r.pc = "visit" => r.match = [model |-> Any, serial |-> Any]
  /\ r.pc = "listed" => r.todo = {}
  /\ r.pc = "failed" => r.todo = {} /\ r.infos = {}
  /\ r.gone \subseteq b
  /\ IsFiniteSet(r.infos)
  /\ \A row \in r.infos : row[1] \in b \/ row[2] = Ident[row[1]]
  /\ r.infos = {} => r.count = 0 /\ r.snap \subseteq r.todo \union b

(* A call that will open d unless something happens to it.                 *)
Trying(r, d) ==
  \/ r.pc \in {"claimed", "open"}
  \/ /\ r.pc = "visit" /\ r.match = Ident[d]
     /\ IF d \in r.todo THEN r.count = 0 /\ r.h = None ELSE r.count = 1 /\ r.h = d

(* Until a printer was opened, each of the list was blocked, is being      *)
(* tried or will be.                                                       *)
QueryOK(r, q, b) ==
  /\ r.pc \in {"rest", "visit", "claimed", "open", "failed"}
  /\ r.pc = "visit" => r.keeps
  /\ r.gone \subseteq b
  /\ q.np = 0 => q.snap \subseteq b
  /\ q.opened = 0 => \A d \in q.listed : d \in b \/ <<d, Ident[d]>> \in q.rows \/ Trying(r, d)

ExitOK(q, b) == /\ q.exit = 2 => q.listed \subseteq b
                /\ q.exit = 1 => q.snap \subseteq b

ProbeOK(r, q, b) ==
  /\ q.cmd = "list" => ListOK(r, b)
  /\ q.cmd = "query" => QueryOK(r, q, b)
  /\ q.cmd = "send" => q.exit = 0
  /\ q.cmd \in {"list", "query"} => q.exit = 0 /\ q.opened \in Nat
  /\ q.cmd = "exit" => ExitOK(q, b)

Probing ==
  /\ events \in Nat
  /\ cli.cmd \in Watched => NotFree \subseteq blocked
  /\ ProbeOK(u["cli"], cli, blocked)

-----------------------------------------------------------------------------
LEMMA Watching ==
  ASSUME History, cli'.cmd \in Watched
  PROVE  /\ blocked \subseteq blocked'
         /\ \A d \in Printers : d \notin attached' \/ claim'[d] \notin {None, "cli"} => d \in blocked'
         /\ Fault("cli") => Printers \subseteq blocked'
<1>1. blocked' = blocked
        \union {d \in Printers : d \notin attached' \/ claim'[d] \notin {None, "cli"}}
        \union (IF Fault("cli") THEN Printers ELSE {})
  BY DEF History, Watched
<1> QED
  BY <1>1

LEMMA FaultIs ==
  ASSUME NEW c \in Clients, events \in Nat, events' = events + 1, u'[c] # u[c],
         attached' = attached, cli'.cmd = "none" <=> cli.cmd = "none"
  PROVE  Fault(c)
<1>1. events' # events
  OBVIOUS
<1>2. (cli'.cmd = "none") = (cli.cmd = "none")
  OBVIOUS
<1>3. <<attached, cli.cmd = "none">>' = <<attached, cli.cmd = "none">>
  BY <1>2
<1> QED
  BY <1>1, <1>3 DEF Fault

LEMMA EventsCount ==
  ASSUME events \in Nat, Steps PROVE events' \in Nat
<1>1. events' = events \/ Happens
  <2>1. ASSUME NEW c \in Clients, Step(c) PROVE events' = events \/ Happens
    BY <2>1 DEF Step, Visit, Skip, Claim, Finish, EndList
  <2>2. CASE JobStart \/ JobOpen \/ JobRetry \/ JobEnd
    BY <2>2 DEF JobStart, JobOpen, JobRetry, JobEnd, Begin
  <2>3. CASE StatusPoll
    BY <2>3 DEF StatusPoll, StatusAsk, StatusOpen, StatusOffline, StatusRead, StatusClose,
       StatusSet, Begin
  <2>4. CASE cmd_probe \/ \E m \in SendMatches : cmd_send(m)
    BY <2>4 DEF cmd_probe, cmd_send
  <2>5. CASE Command
    BY <2>5 DEF Command, SendEnd, ProbeListed, query, Queried, ProbeEnd, Leave, Begin
  <2>6. ASSUME NEW d \in Printers,
               \/ Plug(d) \/ Unplug(d) \/ VendorClaim(d) \/ VendorRelease(d)
               \/ \E b \in Bytes : Condition(d, b)
        PROVE  events' = events \/ Happens
    BY <2>6 DEF Plug, Unplug, VendorClaim, VendorRelease, Condition
  <2> QED
    BY <2>1, <2>2, <2>3, <2>4, <2>5, <2>6 DEF Steps
<1> QED
  BY <1>1 DEF Happens

(* What is blocked stays so.                                               *)
LEMMA BlockedGrows ==
  ASSUME NEW r, NEW q, NEW b, NEW b2, b \subseteq b2, ProbeOK(r, q, b)
  PROVE  ProbeOK(r, q, b2)
<1>1. q.cmd = "list" => ListOK(r, b2)
  <2> SUFFICES ASSUME q.cmd = "list" PROVE ListOK(r, b2)
    OBVIOUS
  <2>1. ListOK(r, b)
    BY DEF ProbeOK
  <2> QED
    BY <2>1 DEF ListOK
<1>2. q.cmd = "query" => QueryOK(r, q, b2)
  BY DEF ProbeOK, QueryOK
<1>3. q.cmd = "exit" => ExitOK(q, b2)
  BY DEF ProbeOK, ExitOK
<1> QED
  BY <1>1, <1>2, <1>3 DEF ProbeOK

(* The model and serial number of a printer as enumerate gets them.        *)
Read(d, read) == [Ident[d] EXCEPT !.serial = IF read THEN @ ELSE Any]

(* One turn of enumerate, field by field.                                  *)
LEMMA VisitDoes ==
  ASSUME Types, NEW c \in Clients, NEW d \in Printers, NEW opened \in BOOLEAN,
         NEW read \in BOOLEAN, Visit(c, d, opened, read)
  PROVE  /\ u[c].pc = "visit" /\ d \in u[c].todo
         /\ (d \in u[c].gone => ~opened) /\ (read => opened)
         /\ read \/ d \in u[c].gone \/ events' = events + 1
         /\ claim' = claim
         /\ u'[c].pc = "visit" /\ u'[c].match = u[c].match /\ u'[c].keeps = u[c].keeps
         /\ u'[c].snap = u[c].snap /\ u'[c].gone = u[c].gone /\ u'[c].todo = u[c].todo \ {d}
         /\ u'[c].count = u[c].count + (IF matches(u[c].match, Read(d, read)) THEN 1 ELSE 0)
         /\ u'[c].h = (IF matches(u[c].match, Read(d, read)) /\ opened /\ u[c].keeps
                          /\ u[c].h = None THEN d ELSE u[c].h)
         /\ u'[c].infos = (IF matches(u[c].match, Read(d, read)) /\ ~u[c].keeps
                             /\ u[c].count < MaxDevices
                           THEN u[c].infos \union {<<d, Read(d, read)>>} ELSE u[c].infos)
<1> DEFINE r == u[c]
           info == Read(d, read)
           match == matches(r.match, info)
           keep == match /\ opened /\ r.keeps /\ r.h = None
           more == IF match /\ ~r.keeps /\ r.count < MaxDevices
                   THEN r.infos \union {<<d, info>>} ELSE r.infos
           one == IF match THEN 1 ELSE 0
           kept == IF keep THEN d ELSE r.h
           hs == r.handles + Kept(match, opened, keep)
           n1 == [r EXCEPT !.todo = r.todo \ {d}]
           n2 == [n1 EXCEPT !.count = r.count + one]
           n3 == [n2 EXCEPT !.infos = more]
           n4 == [n3 EXCEPT !.h = kept]
           new == [n4 EXCEPT !.handles = hs]
<1>1. /\ u' = [u EXCEPT ![c] = new] /\ claim' = claim
      /\ r.pc = "visit" /\ d \in r.todo /\ (d \in r.gone => ~opened) /\ (read => opened)
      /\ read \/ d \in r.gone \/ events' = events + 1
  BY DEF Visit, Happens, Read
<1>2. r \in Call /\ u'[c] = new
  BY <1>1 DEF Types
<1>3. /\ new.pc = "visit" /\ new.match = r.match /\ new.keeps = r.keeps
      /\ new.snap = r.snap /\ new.gone = r.gone
      /\ new.todo = r.todo \ {d} /\ new.count = r.count + one
      /\ new.h = kept /\ new.infos = more
  <2> HIDE DEF one, kept, hs, more, keep
  <2> QED
    BY <1>1, <1>2 DEF Call
<1> HIDE DEF n1, n2, n3, n4, new
<1> QED
  BY <1>1, <1>2, <1>3

LEMMA StepOther ==
  ASSUME Types, NEW c \in Clients, NEW e \in Clients, e # c, Step(c)
  PROVE  u'[e] = u[e] /\ attached' = attached /\ cli' = cli /\ byte' = byte /\ UNCHANGED pappl
<1>1. u'[e] = u[e]
  <2>1. ASSUME NEW d, NEW opened, NEW read, Visit(c, d, opened, read) PROVE u'[e] = u[e]
    BY <2>1 DEF Visit, Types
  <2>2. ASSUME NEW d, Skip(c, d) PROVE u'[e] = u[e]
    BY <2>2 DEF Skip, Types
  <2>3. CASE Claim(c) \/ Finish(c) \/ EndList(c)
    BY <2>3 DEF Claim, Finish, EndList, Types
  <2> QED
    BY <2>1, <2>2, <2>3 DEF Step
<1> QED
  BY <1>1 DEF Step, env

(* Nobody but the command, its call and the cable touches the command.     *)
LEMMA CliAlone ==
  ASSUME IInv, Steps
  PROVE  \/ u'["cli"] = u["cli"] /\ cli' = cli
         \/ Step("cli") \/ cmd_probe \/ (\E m \in SendMatches : cmd_send(m)) \/ Command
         \/ \E d \in Printers : Unplug(d)
<1>1. Types /\ "cli" \in Clients /\ "job" \in Clients /\ "status" \in Clients
  BY DEF IInv, Clients
<1>2. ASSUME NEW c \in Clients, c # "cli", Step(c) PROVE u'["cli"] = u["cli"] /\ cli' = cli
  BY <1>1, <1>2, StepOther
<1>3. CASE JobStart \/ JobOpen \/ JobRetry \/ JobEnd
  BY <1>1, <1>3 DEF JobStart, JobOpen, JobRetry, JobEnd, Begin, GiveUp, Close, pappl, Types
<1>4. CASE StatusPoll
  BY <1>1, <1>4 DEF StatusPoll, StatusAsk, StatusOpen, StatusOffline, StatusRead, StatusClose,
     StatusSet, Begin, GiveUp, Close, pappl, Types
<1>5. ASSUME NEW d \in Printers,
             \/ Plug(d) \/ VendorClaim(d) \/ VendorRelease(d)
             \/ \E b \in Bytes : Condition(d, b)
      PROVE  u'["cli"] = u["cli"] /\ cli' = cli
  BY <1>5 DEF Plug, VendorClaim, VendorRelease, Condition
<1> QED
  BY <1>2, <1>3, <1>4, <1>5 DEF Steps

-----------------------------------------------------------------------------
(* Probe, step by step                                                     *)

LEMMA AloneProbes ==
  ASSUME Probing, History, events' \in Nat, u'["cli"] = u["cli"], cli' = cli
  PROVE  Probing'
<1>1. CASE cli'.cmd \in Watched
  <2>1. blocked \subseteq blocked' /\ NotFree' \subseteq blocked'
    BY <1>1, Watching DEF NotFree
  <2>2. ProbeOK(u["cli"], cli, blocked')
    BY <2>1, BlockedGrows DEF Probing
  <2> QED
    BY <2>1, <2>2 DEF Probing
<1>2. CASE cli'.cmd \notin Watched
  BY <1>2 DEF Probing, ProbeOK, Watched
<1> QED
  BY <1>1, <1>2

LEMMA UnplugProbes ==
  ASSUME IInv, Probing, History, events' \in Nat, NEW d \in Printers, Unplug(d)
  PROVE  Probing'
<1> DEFINE r == u["cli"]
           new == [r EXCEPT !.gone = r.gone \union {d}]
<1>1. cli' = cli /\ (u'["cli"] = r \/ u'["cli"] = new) /\ d \notin attached' /\ r \in Call
  BY DEF Unplug, IInv, Types, Clients
<1>2. CASE u'["cli"] = r
  BY <1>1, <1>2, AloneProbes
<1>3. CASE u'["cli"] = new
  <2>1. /\ new.pc = r.pc /\ new.match = r.match /\ new.keeps = r.keeps
        /\ new.snap = r.snap /\ new.todo = r.todo /\ new.count = r.count
        /\ new.infos = r.infos /\ new.h = r.h /\ new.gone = r.gone \union {d}
    BY <1>1 DEF Call
  <2>2. CASE cli'.cmd \in Watched
    <3>1. blocked \subseteq blocked' /\ NotFree' \subseteq blocked' /\ d \in blocked'
      BY <1>1, <2>2, Watching DEF NotFree
    <3>2. ProbeOK(r, cli, blocked')
      BY <3>1, BlockedGrows DEF Probing
    <3> HIDE DEF r, new
    <3>3. ListOK(r, blocked') => ListOK(new, blocked')
      BY <2>1, <3>1 DEF ListOK
    <3>4. QueryOK(r, cli, blocked') => QueryOK(new, cli, blocked')
      BY <2>1, <3>1 DEF QueryOK, Trying
    <3>5. ProbeOK(new, cli, blocked')
      BY <3>2, <3>3, <3>4 DEF ProbeOK
    <3> QED
      BY <1>1, <1>3, <3>1, <3>5 DEF Probing
  <2>3. CASE cli'.cmd \notin Watched
    BY <1>1, <2>3 DEF Probing, ProbeOK, Watched
  <2> QED
    BY <2>2, <2>3
<1> QED
  BY <1>1, <1>2, <1>3

(* What enumerate reads of a printer is its name, and it takes no printer  *)
(* for another one.                                                        *)
LEMMA ReadIsIdent ==
  ASSUME NEW d \in Printers, NEW read \in BOOLEAN
  PROVE  /\ read => Read(d, read) = Ident[d]
         /\ matches([model |-> Any, serial |-> Any], Read(d, read))
         /\ ToldApart => \A e \in Printers : matches(Ident[e], Read(d, read)) => e = d
         /\ read => matches(Ident[d], Read(d, read))
<1> DEFINE info == Read(d, read)
<1>1. Ident[d] \in Ids
  BY KnownIds
<1>2. read => info = Ident[d]
  <2> SUFFICES ASSUME read PROVE info = Ident[d]
    OBVIOUS
  <2>1. info = [Ident[d] EXCEPT !.serial = Ident[d].serial]
    BY DEF Read
  <2> QED
    BY <1>1, <2>1 DEF Ids
<1>3. info.model = Ident[d].model /\ (~read => info.serial = Any)
  <2>1. CASE read
    BY <1>2, <2>1
  <2>2. CASE ~read
    <3>1. info = [Ident[d] EXCEPT !.serial = Any]
      BY <2>2 DEF Read
    <3> QED
      BY <1>1, <3>1 DEF Ids
  <2> QED
    BY <2>1, <2>2
<1>4. matches([model |-> Any, serial |-> Any], info)
  BY DEF matches
<1>5. read => matches(Ident[d], info)
  BY <1>2 DEF matches
<1>6. ASSUME ToldApart, NEW e \in Printers, matches(Ident[e], info) PROVE e = d
  <2>1. matches(Ident[e], Ident[d])
    BY <1>2, <1>3, <1>6 DEF matches
  <2> QED
    BY <1>6, <2>1 DEF ToldApart
<1> QED
  BY <1>2, <1>4, <1>5, <1>6

(* A turn that does not read the serial number is a fault or the printer   *)
(* is gone.                                                                *)
LEMMA VisitBlocks ==
  ASSUME Types, History, events \in Nat, cli.cmd \in {"list", "query"}, cli' = cli,
         attached' = attached, u["cli"].gone \subseteq blocked, NEW d \in Printers,
         NEW opened \in BOOLEAN, NEW read \in BOOLEAN, Visit("cli", d, opened, read)
  PROVE  blocked \subseteq blocked' /\ (~read => d \in blocked')
<1>1. "cli" \in Clients /\ cli'.cmd \in Watched
  BY DEF Clients, Watched
<1>2. blocked \subseteq blocked' /\ (Fault("cli") => Printers \subseteq blocked')
  BY <1>1, Watching
<1>3. /\ u["cli"].pc = "visit" /\ d \in u["cli"].todo /\ u'["cli"].todo = u["cli"].todo \ {d}
      /\ read \/ d \in u["cli"].gone \/ events' = events + 1
  BY <1>1, VisitDoes
<1>4. u'["cli"] # u["cli"]
  BY <1>3
<1>5. events' = events + 1 => Fault("cli")
  BY <1>1, <1>4, FaultIs
<1>6. CASE d \in u["cli"].gone
  BY <1>2, <1>6
<1>7. CASE events' = events + 1
  BY <1>2, <1>5, <1>7
<1> QED
  BY <1>2, <1>3, <1>6, <1>7

LEMMA VisitList ==
  ASSUME Types, History, events \in Nat, cli.cmd = "list", cli' = cli, attached' = attached,
         ListOK(u["cli"], blocked), NEW d \in Printers,
         NEW opened \in BOOLEAN, NEW read \in BOOLEAN, Visit("cli", d, opened, read)
  PROVE  ListOK(u'["cli"], blocked')
<1> DEFINE r == u["cli"]
           n == u'["cli"]
           info == Read(d, read)
<1>1. r.gone \subseteq blocked /\ r \in Call
  BY DEF ListOK, Types, Clients
<1>2. blocked \subseteq blocked' /\ (~read => d \in blocked')
  BY <1>1, VisitBlocks
<1>3. /\ r.pc = "visit" /\ d \in r.todo /\ n.pc = "visit" /\ n.match = r.match
      /\ n.keeps = r.keeps /\ n.snap = r.snap /\ n.gone = r.gone /\ n.todo = r.todo \ {d}
      /\ n.count = r.count + (IF matches(r.match, info) THEN 1 ELSE 0)
      /\ n.infos = (IF matches(r.match, info) /\ ~r.keeps /\ r.count < MaxDevices
                    THEN r.infos \union {<<d, info>>} ELSE r.infos)
  BY VisitDoes DEF Clients
<1>4. (read => info = Ident[d]) /\ matches([model |-> Any, serial |-> Any], info)
  BY ReadIsIdent
<1>5. r.match = [model |-> Any, serial |-> Any] /\ ~r.keeps /\ IsFiniteSet(r.infos)
      /\ (\A row \in r.infos : row[1] \in blocked \/ row[2] = Ident[row[1]])
      /\ (r.infos = {} => r.count = 0)
  BY <1>3 DEF ListOK
<1> DEFINE row0 == <<d, info>>
<1>6. row0[1] = d /\ row0[2] = info
  OBVIOUS
<1> HIDE DEF info, r, n, row0
<1>7. n.infos = IF r.count < MaxDevices THEN r.infos \union {row0} ELSE r.infos
  BY <1>3, <1>4, <1>5 DEF row0
<1>8. IsFiniteSet(n.infos)
  BY <1>5, <1>7, FS_AddElement
<1>9. \A row \in n.infos : row[1] \in blocked' \/ row[2] = Ident[row[1]]
  <2>1. row0[1] \in blocked' \/ row0[2] = Ident[row0[1]]
    BY <1>2, <1>4, <1>6
  <2> QED
    BY <1>2, <1>5, <1>7, <2>1
<1>10. n.infos # {}
  <2>1. CASE r.infos = {}
    <3>1. r.count = 0 /\ 0 < MaxDevices
      BY <1>5, <2>1, UsbDeviceAssumption
    <3> QED
      BY <1>7, <3>1
  <2>2. CASE r.infos # {}
    BY <1>7, <2>2
  <2> QED
    BY <2>1, <2>2
<1>11. n.gone \subseteq blocked'
  BY <1>1, <1>2, <1>3
<1> QED
  BY <1>3, <1>5, <1>8, <1>9, <1>10, <1>11 DEF ListOK, n

LEMMA VisitQuery ==
  ASSUME ToldApart, Types, History, events \in Nat, cli.cmd = "query", cli' = cli,
         attached' = attached, cli \in Commands,
         QueryOK(u["cli"], cli, blocked), NEW d \in Printers,
         NEW opened \in BOOLEAN, NEW read \in BOOLEAN, Visit("cli", d, opened, read)
  PROVE  QueryOK(u'["cli"], cli, blocked')
<1> DEFINE r == u["cli"]
           n == u'["cli"]
           info == Read(d, read)
<1>1. r.gone \subseteq blocked /\ r \in Call
  BY DEF QueryOK, Types, Clients
<1>2. blocked \subseteq blocked' /\ (~read => d \in blocked')
  BY <1>1, VisitBlocks
<1> DEFINE match == matches(r.match, info)
<1>3. /\ r.pc = "visit" /\ d \in r.todo /\ n.pc = "visit" /\ n.match = r.match
      /\ n.keeps = r.keeps /\ n.snap = r.snap /\ n.gone = r.gone /\ n.todo = r.todo \ {d}
      /\ n.count = r.count + (IF match THEN 1 ELSE 0) /\ (read => opened)
      /\ n.h = (IF match /\ opened /\ r.keeps /\ r.h = None THEN d ELSE r.h)
  BY VisitDoes DEF Clients
<1>4. /\ \A e \in Printers : matches(Ident[e], info) => e = d
      /\ read => matches(Ident[d], info)
  BY ReadIsIdent
<1>5. /\ r.keeps /\ (cli.np = 0 => cli.snap \subseteq blocked)
      /\ cli.opened = 0 =>
           \A e \in cli.listed : e \in blocked \/ <<e, Ident[e]>> \in cli.rows \/ Trying(r, e)
  BY <1>3 DEF QueryOK
<1>6. cli.listed \subseteq Printers /\ r.count \in Nat
  BY <1>1 DEF Commands, Call
<1>7. ASSUME NEW e \in cli.listed, Trying(r, e), e \notin blocked' PROVE Trying(n, e)
  <2>1. /\ r.match = Ident[e]
        /\ IF e \in r.todo THEN r.count = 0 /\ r.h = None ELSE r.count = 1 /\ r.h = e
    BY <1>3, <1>7 DEF Trying
  <2>2. match = matches(Ident[e], info)
    BY <2>1
  <2> HIDE DEF match, info, r, n
  <2>3. CASE e = d
    <3>1. read /\ match /\ opened
      BY <1>2, <1>3, <1>4, <1>7, <2>2, <2>3
    <3>2. n.count = 1 /\ n.h = e /\ e \notin n.todo
      BY <1>3, <1>5, <2>1, <2>3, <3>1
    <3> QED
      BY <1>3, <2>1, <3>2 DEF Trying
  <2>4. CASE e # d
    <3>1. ~match
      BY <1>4, <1>6, <2>2, <2>4
    <3>2. n.count = r.count /\ n.h = r.h /\ (e \in n.todo <=> e \in r.todo)
      BY <1>3, <1>6, <2>4, <3>1
    <3> QED
      BY <1>3, <2>1, <3>2 DEF Trying
  <2> QED
    BY <2>3, <2>4
<1> HIDE DEF r, n
<1> QED
  BY <1>1, <1>2, <1>3, <1>5, <1>7 DEF QueryOK, n

(* A call that failed, field by field.                                     *)
LEMMA FailedDoes ==
  ASSUME NEW r \in Call
  PROVE  /\ Failed(r).pc = "failed" /\ Failed(r).gone = r.gone /\ Failed(r).snap = r.snap
         /\ Failed(r).match = r.match /\ Failed(r).keeps = r.keeps
<1> DEFINE held == IF r.h = None THEN 0 ELSE 1
           n1 == [r EXCEPT !.pc = "failed"]
           n2 == [n1 EXCEPT !.ctx = r.ctx - 1]
           n3 == [n2 EXCEPT !.handles = r.handles - held]
           new == [n3 EXCEPT !.h = None]
<1>1. Failed(r) = new
  BY DEF Failed, Call
<1> HIDE DEF held
<1>2. new.pc = "failed" /\ new.gone = r.gone /\ new.snap = r.snap /\ new.match = r.match
      /\ new.keeps = r.keeps
  BY DEF Call
<1> QED
  BY <1>1, <1>2

LEMMA SkipProbes ==
  ASSUME Types, History, events \in Nat, cli.cmd \in {"list", "query"}, cli' = cli,
         attached' = attached, ProbeOK(u["cli"], cli, blocked), NEW d, Skip("cli", d)
  PROVE  ProbeOK(u'["cli"], cli, blocked')
<1> DEFINE r == u["cli"]
           n == u'["cli"]
<1>1. /\ r \in Call /\ d \in r.todo /\ r.pc = "visit"
      /\ d \in r.gone \/ events' = events + 1
      /\ n.pc = "visit" /\ n.match = r.match /\ n.keeps = r.keeps
      /\ n.todo = r.todo \ {d} /\ n.snap = r.snap \ {d} /\ n.gone = r.gone \ {d}
      /\ n.count = r.count /\ n.infos = r.infos /\ n.h = r.h
  BY SkipDoes DEF Clients
<1>2. blocked \subseteq blocked' /\ (Fault("cli") => Printers \subseteq blocked')
  BY Watching DEF Watched
<1>3. ProbeOK(r, cli, blocked')
  BY <1>2, BlockedGrows
<1>4. n # r
  BY <1>1
<1>5. events' = events + 1 => Fault("cli")
  BY <1>4, FaultIs DEF Clients
<1> HIDE DEF r, n
<1>6. ASSUME ListOK(r, blocked') PROVE ListOK(n, blocked')
  BY <1>1, <1>6 DEF ListOK
<1>7. ASSUME QueryOK(r, cli, blocked') PROVE QueryOK(n, cli, blocked')
  <2>1. d \in blocked'
    <3>1. CASE d \in r.gone
      BY <1>7, <3>1 DEF QueryOK
    <3>2. CASE events' = events + 1
      BY <1>1, <1>2, <1>5, <3>2 DEF Call
    <3> QED
      BY <1>1, <3>1, <3>2
  <2>2. \A e : e # d /\ Trying(r, e) => Trying(n, e)
    BY <1>1 DEF Trying
  <2> QED
    BY <1>1, <1>7, <2>1, <2>2 DEF QueryOK
<1> QED
  BY <1>1, <1>3, <1>6, <1>7 DEF ProbeOK, n

LEMMA ClaimProbes ==
  ASSUME IInv, History, cli.cmd \in {"list", "query"}, cli' = cli, attached' = attached,
         ProbeOK(u["cli"], cli, blocked), cli \in Commands, Claim("cli")
  PROVE  ProbeOK(u'["cli"], cli, blocked')
<1> DEFINE r == u["cli"]
           free == r.h \notin r.gone /\ claim[r.h] = None
<1>1. "cli" \in Clients /\ r \in Call /\ CallOK("cli", r, claim)
  BY DEF IInv, Types, Calls, Clients
<1>2. r.pc = "visit" /\ r.todo = {} /\ r.keeps
  BY DEF Claim
<1>3. cli.cmd = "query" /\ QueryOK(r, cli, blocked)
  BY <1>2 DEF ProbeOK, ListOK
<1>4. /\ blocked \subseteq blocked'
      /\ \A d \in Printers : d \notin attached' \/ claim'[d] \notin {None, "cli"} => d \in blocked'
  BY Watching DEF Watched
<1>5. ProbeOK(r, cli, blocked')
  BY <1>4, BlockedGrows
<1>6. QueryOK(r, cli, blocked') /\ cli.listed \subseteq Printers
  BY <1>3, <1>5 DEF ProbeOK, Commands
<1>7. CASE Ready(r) /\ free
  <2> DEFINE n == [r EXCEPT !.pc = "claimed"]
  <2>1. u'["cli"] = n
    BY <1>1, <1>7 DEF Claim, IInv, Types
  <2>2. n.pc = "claimed" /\ n.gone = r.gone
    BY <1>1 DEF Call
  <2> HIDE DEF n, r
  <2>3. QueryOK(n, cli, blocked')
    BY <1>6, <2>2 DEF QueryOK, Trying
  <2> QED
    BY <1>3, <1>5, <2>1, <2>3 DEF ProbeOK
<1>8. CASE ~(Ready(r) /\ free)
  <2> DEFINE n == Failed(r)
  <2>1. u'["cli"] = n /\ claim' = claim
    BY <1>1, <1>8 DEF Claim, IInv, Types
  <2>2. n.pc = "failed" /\ n.gone = r.gone
    BY <1>1, FailedDoes
  <2>3. ASSUME NEW e \in cli.listed, Trying(r, e) PROVE e \in blocked'
    <3>1. e \in Printers /\ r.count = 1 /\ r.h = e
      BY <1>2, <1>6, <2>3 DEF Trying
    <3>2. Ready(r)
      BY <3>1, NoClient DEF Ready
    <3>3. e \in r.gone \/ claim[e] # None
      BY <1>8, <3>1, <3>2
    <3>4. claim[e] # "cli"
      BY <1>1, <1>2, <3>1 DEF CallOK
    <3>5. r.gone \subseteq blocked'
      BY <1>6 DEF QueryOK
    <3> QED
      BY <1>4, <2>1, <3>1, <3>3, <3>4, <3>5
  <2> HIDE DEF n, r
  <2>4. QueryOK(n, cli, blocked')
    BY <1>6, <2>2, <2>3 DEF QueryOK
  <2> QED
    BY <1>3, <1>5, <2>1, <2>4 DEF ProbeOK
<1> QED
  BY <1>7, <1>8

LEMMA FinishProbes ==
  ASSUME IInv, History, events \in Nat, cli.cmd \in {"list", "query"}, cli' = cli,
         attached' = attached,
         ProbeOK(u["cli"], cli, blocked), cli \in Commands, Finish("cli")
  PROVE  ProbeOK(u'["cli"], cli, blocked')
<1> DEFINE r == u["cli"]
<1>1. "cli" \in Clients /\ r \in Call /\ u \in [Clients -> Call]
  BY DEF IInv, Types, Clients
<1>2. r.pc = "claimed"
  BY DEF Finish
<1>3. cli.cmd = "query"
  BY <1>2 DEF ProbeOK, ListOK
<1>4. blocked \subseteq blocked' /\ (Fault("cli") => Printers \subseteq blocked')
  BY Watching DEF Watched
<1>5. ProbeOK(r, cli, blocked')
  BY <1>4, BlockedGrows
<1>6. QueryOK(r, cli, blocked') /\ cli.listed \subseteq Printers
  BY <1>3, <1>5 DEF ProbeOK, Commands
<1>7. CASE u' = [u EXCEPT !["cli"].pc = "open"]
  <2> DEFINE n == [r EXCEPT !.pc = "open"]
  <2>1. u'["cli"] = n
    BY <1>1, <1>7
  <2>2. n.pc = "open" /\ n.gone = r.gone
    BY <1>1 DEF Call
  <2> HIDE DEF n, r
  <2>3. QueryOK(n, cli, blocked')
    BY <1>6, <2>2 DEF QueryOK, Trying
  <2> QED
    BY <1>3, <1>5, <2>1, <2>3 DEF ProbeOK
<1>8. CASE u' = [u EXCEPT !["cli"] = Failed(@)] /\ Happens
  <2> DEFINE n == Failed(r)
  <2>1. u'["cli"] = n
    BY <1>1, <1>8
  <2>2. n.pc = "failed" /\ n.gone = r.gone
    BY <1>1, FailedDoes
  <2> HIDE DEF n
  <2>3. u'["cli"] # u["cli"]
    BY <1>2, <2>1, <2>2
  <2>4. Fault("cli")
    BY <1>1, <1>8, <2>3, FaultIs DEF Happens
  <2>5. cli.listed \subseteq blocked'
    BY <1>4, <1>6, <2>4
  <2> HIDE DEF r
  <2>6. QueryOK(n, cli, blocked')
    BY <1>6, <2>2, <2>5 DEF QueryOK
  <2> QED
    BY <1>3, <1>5, <2>1, <2>6 DEF ProbeOK
<1> QED
  BY <1>7, <1>8 DEF Finish

LEMMA EndListProbes ==
  ASSUME IInv, History, cli.cmd \in {"list", "query"}, cli' = cli,
         ProbeOK(u["cli"], cli, blocked), EndList("cli")
  PROVE  ProbeOK(u'["cli"], cli, blocked')
<1> DEFINE r == u["cli"]
           n1 == [r EXCEPT !.pc = "listed"]
           n == [n1 EXCEPT !.ctx = r.ctx - 1]
<1>1. "cli" \in Clients /\ r \in Call /\ u \in [Clients -> Call]
  BY DEF IInv, Types, Clients
<1>2. r.pc = "visit" /\ ~r.keeps /\ r.todo = {} /\ u' = [u EXCEPT !["cli"] = n]
  BY <1>1 DEF EndList
<1>3. cli.cmd = "list"
  BY <1>2 DEF ProbeOK, QueryOK
<1>4. blocked \subseteq blocked'
  BY Watching DEF Watched
<1>5. ProbeOK(r, cli, blocked')
  BY <1>4, BlockedGrows
<1>6. /\ n.pc = "listed" /\ n.match = r.match /\ n.keeps = r.keeps /\ n.snap = r.snap
      /\ n.todo = r.todo /\ n.count = r.count /\ n.infos = r.infos /\ n.gone = r.gone
  BY <1>1 DEF Call
<1>7. u'["cli"] = n
  BY <1>1, <1>2
<1> HIDE DEF n1, n, r
<1>8. ListOK(n, blocked')
  BY <1>2, <1>3, <1>5, <1>6 DEF ProbeOK, ListOK
<1> QED
  BY <1>3, <1>5, <1>7, <1>8 DEF ProbeOK

LEMMA StepProbes ==
  ASSUME ToldApart, IInv, Probing, History, events' \in Nat, Step("cli")
  PROVE  Probing'
<1>1. cli' = cli /\ attached' = attached /\ events \in Nat /\ cli \in Commands
  BY DEF Step, env, Probing, IInv, CommandOK
<1>2. Types /\ u["cli"] \in Call
  BY DEF IInv, Types, Clients
<1>3. ProbeOK(u["cli"], cli, blocked)
  BY DEF Probing
<1>4. CASE cli.cmd \in {"list", "query"}
  <2>1. ASSUME NEW d \in u["cli"].todo, NEW opened \in BOOLEAN, NEW read \in BOOLEAN,
               Visit("cli", d, opened, read)
        PROVE  ProbeOK(u'["cli"], cli, blocked')
    <3>1. d \in Printers
      BY <1>2 DEF Call
    <3>2. blocked \subseteq blocked'
      BY <1>1, <1>4, Watching DEF Watched
    <3>3. ProbeOK(u["cli"], cli, blocked')
      BY <1>3, <3>2, BlockedGrows
    <3>4. CASE cli.cmd = "list"
      BY <1>1, <1>2, <1>3, <2>1, <3>1, <3>3, <3>4, VisitList DEF ProbeOK
    <3>5. CASE cli.cmd = "query"
      BY <1>1, <1>2, <1>3, <2>1, <3>1, <3>3, <3>5, VisitQuery DEF ProbeOK
    <3> QED
      BY <1>4, <3>4, <3>5
  <2>2. ASSUME NEW d, Skip("cli", d) PROVE ProbeOK(u'["cli"], cli, blocked')
    BY <1>1, <1>2, <1>3, <1>4, <2>2, SkipProbes
  <2>3. ASSUME Claim("cli") PROVE ProbeOK(u'["cli"], cli, blocked')
    BY <1>1, <1>3, <1>4, <2>3, ClaimProbes
  <2>4. ASSUME Finish("cli") PROVE ProbeOK(u'["cli"], cli, blocked')
    BY <1>1, <1>3, <1>4, <2>4, FinishProbes
  <2>5. ASSUME EndList("cli") PROVE ProbeOK(u'["cli"], cli, blocked')
    BY <1>1, <1>3, <1>4, <2>5, EndListProbes
  <2>6. ProbeOK(u'["cli"], cli, blocked')
    BY <2>1, <2>2, <2>3, <2>4, <2>5 DEF Step
  <2>7. NotFree' \subseteq blocked'
    BY <1>1, <1>4, Watching DEF NotFree, Watched
  <2> QED
    BY <1>1, <2>6, <2>7 DEF Probing
<1>5. CASE cli.cmd \notin {"list", "query"}
  <2>1. cli'.cmd \in Watched => blocked \subseteq blocked' /\ NotFree' \subseteq blocked'
    BY Watching DEF NotFree
  <2>2. ProbeOK(u'["cli"], cli, blocked')
    BY <1>1, <1>3, <1>5, <2>1 DEF ProbeOK, ExitOK, Watched
  <2> QED
    BY <1>1, <2>1, <2>2 DEF Probing
<1> QED
  BY <1>4, <1>5

LEMMA RefusedDoes ==
  /\ Refused.pc = "failed" /\ ~Refused.keeps /\ Refused.snap = {} /\ Refused.gone = {}
  /\ Refused.todo = {} /\ Refused.count = 0 /\ Refused.infos = {}
  BY DEF Refused, Rest

(* A client that left its call is at rest and knows nothing of it.         *)
LEMMA AtRest ==
  ASSUME NEW x, NEW y
  PROVE  /\ [Rest EXCEPT !.ctx = x, !.handles = y].pc = "rest"
         /\ [Rest EXCEPT !.ctx = x, !.handles = y].gone = {}
         /\ [Rest EXCEPT !.pc = "rest", !.ctx = x, !.handles = y].pc = "rest"
         /\ [Rest EXCEPT !.pc = "rest", !.ctx = x, !.handles = y].gone = {}
  BY DEF Rest

LEMMA StartProbes ==
  ASSUME IInv, Probing, History, events' \in Nat,
         cmd_probe \/ \E m \in SendMatches : cmd_send(m)
  PROVE  Probing'
<1>1. u \in [Clients -> Call] /\ "cli" \in Clients
  BY DEF IInv, Types, Clients
<1>2. CASE cmd_probe
  <2> DEFINE mt == [model |-> Any, serial |-> Any]
  <2>1. /\ cli' = [NoCommand EXCEPT !.cmd = "list"]
        /\ \E call \in {Called(mt, FALSE), Refused} : u' = [u EXCEPT !["cli"] = call]
    BY <1>2 DEF cmd_probe
  <2>2. cli'.cmd = "list" /\ cli'.exit = 0 /\ cli'.opened = 0
    BY <2>1 DEF NoCommand
  <2>3. u'["cli"] = Called(mt, FALSE) \/ u'["cli"] = Refused
    BY <1>1, <2>1
  <2>4. IsFiniteSet({})
    BY FS_EmptySet
  <2>5. ListOK(u'["cli"], blocked')
    <3>1. CASE u'["cli"] = Called(mt, FALSE)
      <4> DEFINE n == u'["cli"]
      <4>1. /\ n.pc = "visit" /\ n.match = mt /\ ~n.keeps /\ n.snap = attached
            /\ n.todo = attached /\ n.gone = {} /\ n.count = 0 /\ n.infos = {}
        BY <3>1 DEF Called, Rest
      <4> HIDE DEF n
      <4> QED
        BY <2>4, <4>1 DEF ListOK, n
    <3>2. CASE u'["cli"] = Refused
      <4> DEFINE n == u'["cli"]
      <4>1. /\ n.pc = "failed" /\ ~n.keeps /\ n.snap = {}
            /\ n.todo = {} /\ n.gone = {} /\ n.count = 0 /\ n.infos = {}
        BY <3>2, RefusedDoes
      <4> HIDE DEF n
      <4> QED
        BY <2>4, <4>1 DEF ListOK, n
    <3> QED
      BY <2>3, <3>1, <3>2
  <2>6. NotFree' \subseteq blocked'
    BY <2>2, Watching DEF NotFree, Watched
  <2> QED
    BY <2>2, <2>5, <2>6 DEF Probing, ProbeOK
<1>3. CASE \E m \in SendMatches : cmd_send(m)
  <2>1. cli' = [NoCommand EXCEPT !.cmd = "send"]
    BY <1>3 DEF cmd_send
  <2>2. cli'.cmd = "send" /\ cli'.exit = 0
    BY <2>1 DEF NoCommand
  <2> QED
    BY <2>2 DEF Probing, ProbeOK, Watched
<1> QED
  BY <1>2, <1>3

LEMMA SendEndProbes ==
  ASSUME IInv, Probing, History, events' \in Nat, SendEnd
  PROVE  Probing'
<1>1. cli \in Commands
  BY DEF IInv, CommandOK
<1>2. PICK e \in {0, 3, 4} : Exit(e)
  BY DEF SendEnd
<1>3. cli'.cmd = "exit" /\ cli'.exit = e
  BY <1>1, <1>2 DEF Exit, Commands
<1>4. ExitOK(cli', blocked')
  BY <1>3 DEF ExitOK
<1>5. NotFree' \subseteq blocked'
  BY <1>3, Watching DEF NotFree, Watched
<1> QED
  BY <1>3, <1>4, <1>5 DEF Probing, ProbeOK

LEMMA ListedProbes ==
  ASSUME IInv, Probing, History, events' \in Nat, ProbeListed
  PROVE  Probing'
<1> DEFINE r == u["cli"]
<1>1. cli \in Commands /\ u \in [Clients -> Call] /\ "cli" \in Clients /\ r \in Call
  BY DEF IInv, CommandOK, Types, Clients
<1>2. cli.cmd = "list" /\ r.pc \in {"listed", "failed"} /\ GiveUp("cli")
  BY DEF ProbeListed
<1>3. ListOK(r, blocked) /\ cli.exit = 0 /\ cli.opened \in Nat
  BY <1>2 DEF Probing, ProbeOK
<1> DEFINE listed == {row[1] : row \in r.infos}
           n1 == [cli EXCEPT !.cmd = "query"]
           n2 == [n1 EXCEPT !.snap = r.snap]
           n3 == [n2 EXCEPT !.listed = listed]
           n4 == [n3 EXCEPT !.np = Cardinality(r.infos)]
           q == [n4 EXCEPT !.rows = r.infos]
<1>4. cli' = q
  BY DEF ProbeListed
<1>5. /\ q.cmd = "query" /\ q.snap = r.snap /\ q.listed = listed /\ q.np = Cardinality(r.infos)
      /\ q.rows = r.infos /\ q.opened = cli.opened /\ q.exit = cli.exit
  <2> HIDE DEF listed, r
  <2> QED
    BY <1>1 DEF Commands
<1>6. u'["cli"].pc = "rest" /\ u'["cli"].gone = {}
  BY <1>1, <1>2, AtRest DEF GiveUp
<1>7. blocked \subseteq blocked' /\ NotFree' \subseteq blocked'
  BY <1>4, <1>5, Watching DEF NotFree, Watched
<1>8. q.np = 0 => q.snap \subseteq blocked'
  <2> SUFFICES ASSUME q.np = 0 PROVE q.snap \subseteq blocked'
    OBVIOUS
  <2>1. r.infos = {}
    BY <1>3, <1>5, FS_EmptySet DEF ListOK
  <2>2. r.todo = {} /\ r.snap \subseteq r.todo \union blocked
    BY <1>2, <1>3, <2>1 DEF ListOK
  <2> QED
    BY <1>5, <1>7, <2>2
<1>9. ASSUME NEW d \in q.listed, d \notin blocked' PROVE <<d, Ident[d]>> \in q.rows
  <2>1. PICK row \in r.infos : d = row[1]
    BY <1>5
  <2>2. row \in Printers \X Ids
    BY <1>1, <2>1 DEF Call
  <2>3. row = <<row[1], row[2]>>
    BY <2>2
  <2>4. row[2] = Ident[d]
    BY <1>3, <1>7, <1>9, <2>1 DEF ListOK
  <2> QED
    BY <1>5, <2>1, <2>3, <2>4
<1> HIDE DEF q
<1>10. QueryOK(u'["cli"], q, blocked')
  BY <1>6, <1>8, <1>9 DEF QueryOK
<1> QED
  BY <1>3, <1>4, <1>5, <1>7, <1>10 DEF Probing, ProbeOK

LEMMA QueryProbes ==
  ASSUME IInv, Probing, History, events' \in Nat, query
  PROVE  Probing'
<1> DEFINE r == u["cli"]
<1>1. cli \in Commands /\ u \in [Clients -> Call] /\ "cli" \in Clients /\ r \in Call
  BY DEF IInv, CommandOK, Types, Clients
<1>2. cli.cmd = "query" /\ r.pc = "rest" /\ claim' = claim /\ attached' = attached
  BY DEF query, env
<1>3. PICK row \in cli.rows :
        cli' = [cli EXCEPT !.rows = @ \ {row}] /\ Begin("cli", row[2], TRUE)
  BY DEF query
<1>4. /\ cli'.cmd = "query" /\ cli'.snap = cli.snap /\ cli'.listed = cli.listed
      /\ cli'.np = cli.np /\ cli'.rows = cli.rows \ {row} /\ cli'.opened = cli.opened
      /\ cli'.exit = cli.exit
  BY <1>1, <1>2, <1>3 DEF Commands
<1>5. /\ blocked \subseteq blocked' /\ NotFree' \subseteq blocked'
      /\ (Fault("cli") => Printers \subseteq blocked')
  BY <1>4, Watching DEF NotFree, Watched
<1>6. /\ QueryOK(r, cli, blocked) /\ cli.exit = 0 /\ cli.opened \in Nat /\ events \in Nat
      /\ cli.listed \subseteq Printers
  BY <1>1, <1>2 DEF Probing, ProbeOK, Commands
<1> HIDE DEF r
<1>7. cli.np = 0 => cli.snap \subseteq blocked'
  BY <1>5, <1>6 DEF QueryOK
<1>8. cli.opened = 0 => \A d \in cli.listed : d \in blocked' \/ <<d, Ident[d]>> \in cli.rows
  BY <1>2, <1>5, <1>6 DEF QueryOK, Trying
<1>9. CASE u' = [u EXCEPT !["cli"] = Called(row[2], TRUE)]
  <2> DEFINE n == u'["cli"]
  <2>1. /\ n.pc = "visit" /\ n.match = row[2] /\ n.keeps /\ n.todo = attached
        /\ n.gone = {} /\ n.count = 0 /\ n.h = None
    <3>1. n = Called(row[2], TRUE)
      BY <1>1, <1>9
    <3> QED
      BY <3>1 DEF Called, Rest
  <2> HIDE DEF n
  <2>2. ASSUME NEW d \in cli.listed, d \notin blocked', row = <<d, Ident[d]>> PROVE Trying(n, d)
    <3>1. row[2] = Ident[d]
      BY <2>2
    <3>2. d \in attached
      BY <1>2, <1>5, <1>6, <2>2 DEF NotFree
    <3> QED
      BY <2>1, <3>1, <3>2 DEF Trying
  <2>3. cli.opened = 0 =>
          \A d \in cli.listed : d \in blocked' \/ <<d, Ident[d]>> \in cli.rows \ {row} \/ Trying(n, d)
    BY <1>8, <2>2
  <2>4. QueryOK(n, cli', blocked')
    BY <1>4, <1>7, <2>1, <2>3 DEF QueryOK
  <2> QED
    BY <1>4, <1>5, <1>6, <2>4 DEF Probing, ProbeOK, n
<1>10. CASE u' = [u EXCEPT !["cli"] = Refused] /\ Happens
  <2> DEFINE n == u'["cli"]
  <2>1. n.pc = "failed" /\ n.gone = {}
    BY <1>1, <1>10, RefusedDoes
  <2>2. n # u["cli"]
    BY <1>2, <2>1 DEF r
  <2>3. Fault("cli")
    BY <1>1, <1>2, <1>4, <1>6, <1>10, <2>2, FaultIs DEF Happens
  <2> HIDE DEF n
  <2>4. QueryOK(n, cli', blocked')
    BY <1>4, <1>5, <1>6, <1>7, <2>1, <2>3 DEF QueryOK
  <2> QED
    BY <1>4, <1>5, <1>6, <2>4 DEF Probing, ProbeOK, n
<1> QED
  BY <1>3, <1>9, <1>10 DEF Begin

LEMMA QueriedProbes ==
  ASSUME IInv, Probing, History, events' \in Nat, Queried
  PROVE  Probing'
<1> DEFINE r == u["cli"]
<1>1. cli \in Commands /\ u \in [Clients -> Call] /\ "cli" \in Clients /\ r \in Call
  BY DEF IInv, CommandOK, Types, Clients
<1>2. cli.cmd = "query"
  BY DEF Queried
<1>3. /\ QueryOK(r, cli, blocked) /\ cli.exit = 0 /\ cli.opened \in Nat /\ events \in Nat
  BY <1>2 DEF Probing, ProbeOK
<1>4. CASE r.pc = "failed" /\ GiveUp("cli") /\ cli' = cli
  <2>1. blocked \subseteq blocked' /\ NotFree' \subseteq blocked'
    BY <1>2, <1>4, Watching DEF NotFree, Watched
  <2>2. u'["cli"].pc = "rest" /\ u'["cli"].gone = {}
    BY <1>1, <1>4, AtRest DEF GiveUp
  <2> HIDE DEF r
  <2>3. QueryOK(u'["cli"], cli, blocked')
    BY <1>3, <1>4, <2>1, <2>2 DEF QueryOK, Trying
  <2> QED
    BY <1>2, <1>3, <1>4, <2>1, <2>3 DEF Probing, ProbeOK
<1>5. CASE r.pc = "open" /\ Close("cli", "rest") /\ cli' = [cli EXCEPT !.opened = @ + 1]
  <2>1. /\ cli'.cmd = "query" /\ cli'.snap = cli.snap /\ cli'.np = cli.np
        /\ cli'.opened = cli.opened + 1 /\ cli'.exit = cli.exit
    BY <1>1, <1>2, <1>5 DEF Commands
  <2>2. blocked \subseteq blocked' /\ NotFree' \subseteq blocked'
    BY <2>1, Watching DEF NotFree, Watched
  <2>3. u'["cli"].pc = "rest" /\ u'["cli"].gone = {}
    BY <1>1, <1>5, AtRest DEF Close
  <2>4. cli'.opened \in Nat /\ cli'.opened # 0
    BY <1>3, <2>1
  <2> HIDE DEF r
  <2>5. QueryOK(u'["cli"], cli', blocked')
    BY <1>3, <2>1, <2>2, <2>3, <2>4 DEF QueryOK
  <2> QED
    BY <1>3, <2>1, <2>2, <2>4, <2>5 DEF Probing, ProbeOK
<1> QED
  BY <1>4, <1>5 DEF Queried

LEMMA EndProbes ==
  ASSUME IInv, Probing, History, events' \in Nat, ProbeEnd
  PROVE  Probing'
<1> DEFINE r == u["cli"]
<1>1. cli \in Commands
  BY DEF IInv, CommandOK
<1>2. cli.cmd = "query" /\ r.pc = "rest" /\ cli.rows = {} /\ Exit(ProbeStatus)
  BY DEF ProbeEnd
<1>3. QueryOK(r, cli, blocked) /\ cli.opened \in Nat
  BY <1>2 DEF Probing, ProbeOK
<1>4. /\ cli'.cmd = "exit" /\ cli'.exit = ProbeStatus /\ cli'.listed = cli.listed
      /\ cli'.snap = cli.snap
  <2> DEFINE n1 == [cli EXCEPT !.cmd = "exit"]
             e == ProbeStatus
  <2>1. cli' = [n1 EXCEPT !.exit = e]
    BY <1>2 DEF Exit
  <2> HIDE DEF e
  <2>2. n1.cmd = "exit" /\ n1.listed = cli.listed /\ n1.snap = cli.snap /\ n1 \in Commands
    BY <1>1 DEF Commands
  <2> HIDE DEF n1
  <2>3. cli'.cmd = n1.cmd /\ cli'.exit = e /\ cli'.listed = n1.listed /\ cli'.snap = n1.snap
    BY <2>1, <2>2 DEF Commands
  <2> QED
    BY <2>2, <2>3 DEF e
<1>5. blocked \subseteq blocked' /\ NotFree' \subseteq blocked'
  BY <1>4, Watching DEF NotFree, Watched
<1>6. ProbeStatus = 1 => cli.np = 0
  BY DEF ProbeStatus
<1>7. ProbeStatus = 2 => cli.opened = 0
  BY <1>3 DEF ProbeStatus
<1> HIDE DEF r
<1>8. cli.opened = 0 => cli.listed \subseteq blocked'
  BY <1>2, <1>3, <1>5 DEF QueryOK, Trying
<1>9. cli.np = 0 => cli.snap \subseteq blocked'
  BY <1>3, <1>5 DEF QueryOK
<1>10. ExitOK(cli', blocked')
  BY <1>4, <1>6, <1>7, <1>8, <1>9 DEF ExitOK
<1> QED
  BY <1>4, <1>5, <1>10 DEF Probing, ProbeOK

LEMMA ProbingInit == Init => Probing
  BY DEF Init, Probing, ProbeOK, NoCommand, Watched

LEMMA ProbingNext == ToldApart => (IInv /\ Probing /\ [Next]_vars => Probing')
<1> SUFFICES ASSUME ToldApart, IInv, Probing, [Next]_vars PROVE Probing'
  OBVIOUS
<1>1. CASE Next
  <2>1. Steps /\ History
    BY <1>1 DEF Next
  <2>2. events' \in Nat
    BY <2>1, EventsCount DEF Probing
  <2>3. CASE u'["cli"] = u["cli"] /\ cli' = cli
    BY <2>1, <2>2, <2>3, AloneProbes
  <2>4. CASE Step("cli")
    BY <2>1, <2>2, <2>4, StepProbes
  <2>5. CASE cmd_probe \/ \E m \in SendMatches : cmd_send(m)
    BY <2>1, <2>2, <2>5, StartProbes
  <2>6. CASE Command
    <3>1. CASE Leave
      <4>1. cli'.cmd = "none"
        BY <3>1 DEF Leave, NoCommand
      <4> QED
        BY <2>2, <4>1 DEF Probing, ProbeOK, Watched
    <3> QED
      BY <2>1, <2>2, <2>6, <3>1, SendEndProbes, ListedProbes, QueryProbes, QueriedProbes,
         EndProbes DEF Command
  <2>7. ASSUME NEW d \in Printers, Unplug(d) PROVE Probing'
    BY <2>1, <2>2, <2>7, UnplugProbes
  <2> QED
    BY <2>1, <2>3, <2>4, <2>5, <2>6, <2>7, CliAlone
<1>2. CASE UNCHANGED vars
  BY <1>2 DEF vars, Probing, NotFree
<1> QED
  BY <1>1, <1>2

(***************************************************************************)
(* The exit status of probe (cmd_probe.c), for any printers that can be    *)
(* told apart: 2 means that every printer it found was gone, taken or      *)
(* failing at some moment of the probe, 1 that every printer on the bus    *)
(* was.  Without the hypothesis 2 would also mean that two free printers   *)
(* without serial numbers are ambiguous to m2022_usb_open.                 *)
(***************************************************************************)
THEOREM ProbeSoundHolds == ToldApart => (Spec => []ProbeSound)
<1> SUFFICES ASSUME ToldApart PROVE Spec => []ProbeSound
  OBVIOUS
<1>1. Probing => ProbeSound
  BY DEF Probing, ProbeOK, ExitOK, ProbeSound
<1>2. IInv /\ Probing /\ [Next]_vars => (IInv /\ Probing)'
  BY NextHolds, ProbingNext
<1>3. Init => IInv /\ Probing
  BY InitHolds, ProbingInit
<1> QED
  BY <1>1, <1>2, <1>3, PTL DEF Spec

-----------------------------------------------------------------------------
(* The status poll                                                         *)

(* While nothing has kept the poll from the printer, M, the printers the   *)
(* URI names, is what the search finds.                                    *)
Finding(r, M) ==
  /\ r.snap \intersect Named(Uri) = M /\ M \intersect r.gone = {}
  /\ \A d \in M : IF d \in r.todo THEN r.count = 0 /\ r.h = None ELSE r.count = 1 /\ r.h = d

(* What the poll holds is on the bus unless it knows better, and what it   *)
(* is going to say has been true since PAPPL asked.                        *)
PollOK(r, bus, M, s, reply) ==
  /\ r.pc \in {"visit", "claimed", "open", "read"} => r.match = Uri /\ r.keeps
  /\ r.pc \in {"visit", "claimed", "open"} =>
       \A d \in Printers : (d \in r.todo \/ d = r.h) /\ d \notin r.gone => d \in bus
  /\ r.pc # "rest" /\ r.gone # {} => {"other"} \in s
  /\ r.pc \in {"read", "closed"} => reply \in s
  /\ r.pc = "failed" => {"offline"} \in s
  /\ r.pc = "visit" /\ {"offline"} \notin s => Finding(r, M)

Polling ==
  /\ events \in Nat
  /\ u["status"].pc # "rest" => Truths \subseteq seen
  /\ PollOK(u["status"], attached, Meant, seen, got)

LEMMA Seeing ==
  ASSUME History, u'["status"].pc # "rest"
  PROVE  /\ seen \subseteq seen' /\ Truths' \subseteq seen'
         /\ (Fault("status") => {"offline"} \in seen' /\ {"other"} \in seen')
         /\ (u'["status"].gone # {} => {"other"} \in seen')
<1>1. seen' = seen \union Truths'
               \union (IF Fault("status") THEN {{"offline"}, {"other"}} ELSE {})
               \union (IF u'["status"].gone = {} THEN {} ELSE {{"other"}})
  BY DEF History
<1> QED
  BY <1>1

(* A poll that could open the printer has exactly one to open.             *)
LEMMA OneMeant ==
  ASSUME {"offline"} \notin Truths
  PROVE  \E m \in Printers : Meant = {m} /\ claim[m] \in {None, "status"}
<1>1. Openable({None, "status"})
  BY DEF Truths
<1> QED
  BY <1>1 DEF Openable, Meant, Named

LEMMA OneMeantNext ==
  ASSUME {"offline"} \notin Truths'
  PROVE  \E m \in Printers : Meant' = {m}
<1>1. Openable({None, "status"})'
  BY DEF Truths
<1> QED
  BY <1>1 DEF Openable, Meant, Named

LEMMA BusMoves ==
  ASSUME Steps
  PROVE  \/ attached' = attached
         \/ \E d \in Printers : attached' = attached \union {d} \/ attached' = attached \ {d}
<1>1. ASSUME NEW c \in Clients, Step(c) PROVE attached' = attached
  BY <1>1 DEF Step, env
<1>2. CASE JobStart \/ JobOpen \/ JobRetry \/ JobEnd
  BY <1>2 DEF JobStart, JobOpen, JobRetry, JobEnd, env
<1>3. CASE StatusPoll
  BY <1>3 DEF StatusPoll, StatusAsk, StatusOpen, StatusOffline, StatusRead, StatusClose,
     StatusSet, env
<1>4. CASE cmd_probe \/ \E m \in SendMatches : cmd_send(m)
  BY <1>4 DEF cmd_probe, cmd_send, env
<1>5. CASE Command
  BY <1>5 DEF Command, SendEnd, ProbeListed, query, Queried, ProbeEnd, Leave, env
<1>6. ASSUME NEW d \in Printers,
             \/ Plug(d) \/ Unplug(d) \/ VendorClaim(d) \/ VendorRelease(d)
             \/ \E b \in Bytes : Condition(d, b)
      PROVE  attached' = attached \/ attached' = attached \union {d} \/ attached' = attached \ {d}
  BY <1>6 DEF Plug, Unplug, VendorClaim, VendorRelease, Condition, env
<1> QED
  BY <1>1, <1>2, <1>3, <1>4, <1>5, <1>6 DEF Steps

(* It stays the same one: one step plugs or unplugs one printer, so        *)
(* between two single printers there is a moment with none or two.         *)
LEMMA MeantStays ==
  ASSUME Steps, Truths \subseteq seen, seen \subseteq seen', Truths' \subseteq seen',
         {"offline"} \notin seen'
  PROVE  Meant' = Meant
<1>1. PICK m \in Printers : Meant = {m}
  BY OneMeant
<1>2. PICK n \in Printers : Meant' = {n}
  BY OneMeantNext
<1>3. Meant = attached \intersect Named(Uri) /\ Meant' = attached' \intersect Named(Uri)
  BY DEF Meant
<1>4. m = n
  BY <1>1, <1>2, <1>3, BusMoves
<1> QED
  BY <1>1, <1>2, <1>4

(* Nobody but the poll, its call and the cable touches the poll.           *)
LEMMA StatusAlone ==
  ASSUME IInv, Steps
  PROVE  \/ u'["status"] = u["status"] /\ got' = got /\ attached \subseteq attached'
         \/ Step("status") \/ StatusPoll \/ \E d \in Printers : Unplug(d)
<1>1. Types /\ "cli" \in Clients /\ "job" \in Clients /\ "status" \in Clients
  BY DEF IInv, Clients
<1>2. ASSUME NEW c \in Clients, c # "status", Step(c)
      PROVE  u'["status"] = u["status"] /\ got' = got /\ attached' = attached
  BY <1>1, <1>2, StepOther DEF pappl
<1>3. CASE JobStart \/ JobOpen \/ JobRetry \/ JobEnd
  BY <1>1, <1>3 DEF JobStart, JobOpen, JobRetry, JobEnd, Begin, GiveUp, Close, pappl, Types, env
<1>4. CASE cmd_probe \/ \E m \in SendMatches : cmd_send(m)
  BY <1>1, <1>4 DEF cmd_probe, cmd_send, env, pappl, Types
<1>5. CASE Command
  BY <1>1, <1>5 DEF Command, SendEnd, ProbeListed, query, Queried, ProbeEnd, Leave, env, pappl,
     Begin, GiveUp, Close, Types
<1>6. ASSUME NEW d \in Printers,
             \/ Plug(d) \/ VendorClaim(d) \/ VendorRelease(d)
             \/ \E b \in Bytes : Condition(d, b)
      PROVE  u'["status"] = u["status"] /\ got' = got /\ attached \subseteq attached'
  BY <1>6 DEF Plug, VendorClaim, VendorRelease, Condition, env, pappl
<1> QED
  BY <1>2, <1>3, <1>4, <1>5, <1>6 DEF Steps

(* What every step of a poll that goes on has to show.                     *)
LEMMA Meanwhile ==
  ASSUME Polling, Steps, History, u["status"].pc # "rest", u'["status"].pc # "rest"
  PROVE  /\ seen \subseteq seen' /\ (Fault("status") => {"offline"} \in seen' /\ {"other"} \in seen')
         /\ (u'["status"].gone # {} => {"other"} \in seen')
         /\ ({"offline"} \notin seen' =>
               /\ {"offline"} \notin seen /\ Meant' = Meant
               /\ \E m \in Printers : Meant = {m} /\ claim[m] \in {None, "status"})
<1>1. /\ seen \subseteq seen' /\ Truths' \subseteq seen' /\ Truths \subseteq seen
      /\ (Fault("status") => {"offline"} \in seen' /\ {"other"} \in seen')
      /\ (u'["status"].gone # {} => {"other"} \in seen')
  BY Seeing DEF Polling
<1>2. ASSUME {"offline"} \notin seen'
      PROVE  /\ {"offline"} \notin seen /\ Meant' = Meant
             /\ \E m \in Printers : Meant = {m} /\ claim[m] \in {None, "status"}
  BY <1>1, <1>2, MeantStays, OneMeant
<1> QED
  BY <1>1, <1>2

LEMMA AlonePolls ==
  ASSUME Polling, Steps, History,
         u'["status"] = u["status"], got' = got, attached \subseteq attached'
  PROVE  PollOK(u'["status"], attached', Meant', seen', got')
<1> DEFINE r == u["status"]
<1>1. PollOK(r, attached, Meant, seen, got)
  BY DEF Polling
<1>2. CASE r.pc = "rest"
  BY <1>2 DEF PollOK
<1>3. CASE r.pc # "rest"
  <2>1. /\ seen \subseteq seen'
        /\ {"offline"} \notin seen' => {"offline"} \notin seen /\ Meant' = Meant
    BY <1>3, Meanwhile
  <2> HIDE DEF r
  <2>2. PollOK(r, attached', Meant', seen', got)
    BY <1>1, <2>1 DEF PollOK
  <2> QED
    BY <2>2 DEF r
<1> QED
  BY <1>2, <1>3

LEMMA UnplugPolls ==
  ASSUME IInv, Polling, Steps, History, NEW d \in Printers, Unplug(d)
  PROVE  PollOK(u'["status"], attached', Meant', seen', got')
<1> DEFINE r == u["status"]
           n == [r EXCEPT !.gone = r.gone \union {d}]
           after == u'["status"]
<1>1. /\ r \in Call /\ attached' = attached \ {d} /\ got' = got
      /\ after = IF d \in r.todo \union {r.h} THEN n ELSE r
  BY DEF Unplug, IInv, Types, Clients, pappl
<1>2. /\ n.pc = r.pc /\ n.match = r.match /\ n.keeps = r.keeps /\ n.snap = r.snap
      /\ n.todo = r.todo /\ n.count = r.count /\ n.h = r.h /\ n.gone = r.gone \union {d}
  BY <1>1 DEF Call
<1>3. PollOK(r, attached, Meant, seen, got)
  BY DEF Polling
<1> HIDE DEF n
<1>4. /\ after.pc = r.pc /\ after.match = r.match /\ after.keeps = r.keeps
      /\ after.snap = r.snap /\ after.todo = r.todo /\ after.count = r.count /\ after.h = r.h
      /\ after.gone \subseteq r.gone \union {d} /\ r.gone \subseteq after.gone
      /\ d \in r.todo \union {r.h} => d \in after.gone
  BY <1>1, <1>2
<1>5. CASE r.pc = "rest"
  BY <1>4, <1>5 DEF PollOK, after
<1>6. CASE r.pc # "rest"
  <2>1. /\ seen \subseteq seen' /\ (after.gone # {} => {"other"} \in seen')
        /\ {"offline"} \notin seen' => {"offline"} \notin seen /\ Meant' = Meant
    BY <1>4, <1>6, Meanwhile
  <2>2. d \notin Meant'
    BY <1>1 DEF Meant
  <2> HIDE DEF r, after
  <2>3. ASSUME NEW e \in Printers, e \in after.todo \/ e = after.h, e \notin after.gone,
               r.pc \in {"visit", "claimed", "open"}
        PROVE  e \in attached'
    <3>1. e \in attached /\ e # d
      BY <1>3, <1>4, <2>3 DEF PollOK
    <3> QED
      BY <1>1, <3>1
  <2>4. ASSUME r.pc = "visit", {"offline"} \notin seen' PROVE Finding(after, Meant')
    <3>1. Finding(r, Meant) /\ Meant' = Meant
      BY <1>3, <2>1, <2>4 DEF PollOK
    <3> QED
      BY <1>4, <2>2, <3>1 DEF Finding
  <2>5. PollOK(after, attached', Meant', seen', got)
    BY <1>3, <1>4, <2>1, <2>3, <2>4 DEF PollOK
  <2> QED
    BY <1>1, <2>5 DEF after
<1> QED
  BY <1>5, <1>6

LEMMA VisitPolls ==
  ASSUME IInv, Polling, Steps, History, attached' = attached, got' = got, cli' = cli,
         NEW d \in Printers, NEW opened \in BOOLEAN, NEW read \in BOOLEAN,
         Visit("status", d, opened, read)
  PROVE  PollOK(u'["status"], attached', Meant', seen', got')
<1> DEFINE r == u["status"]
           n == u'["status"]
           match == matches(r.match, Read(d, read))
<1>1. Types /\ "status" \in Clients /\ r \in Call /\ SearchOK(r) /\ events \in Nat
  BY DEF IInv, Types, Calls, Clients, Polling
<1>2. /\ r.pc = "visit" /\ d \in r.todo /\ (d \in r.gone => ~opened) /\ (read => opened)
      /\ read \/ d \in r.gone \/ events' = events + 1
      /\ n.pc = "visit" /\ n.match = r.match /\ n.keeps = r.keeps
      /\ n.snap = r.snap /\ n.gone = r.gone /\ n.todo = r.todo \ {d}
      /\ n.count = r.count + (IF match THEN 1 ELSE 0)
      /\ n.h = (IF match /\ opened /\ r.keeps /\ r.h = None THEN d ELSE r.h)
  BY <1>1, VisitDoes
<1>3. PollOK(r, attached, Meant, seen, got) /\ r.match = Uri /\ r.keeps
  BY <1>2 DEF Polling, PollOK
<1>4. /\ seen \subseteq seen' /\ (Fault("status") => {"offline"} \in seen')
      /\ (n.gone # {} => {"other"} \in seen')
      /\ {"offline"} \notin seen' => {"offline"} \notin seen /\ Meant' = Meant
  BY <1>2, Meanwhile
<1>5. r.todo \subseteq r.snap /\ r.snap \subseteq Printers /\ r.count \in Nat
  BY <1>1, <1>2, <1>3 DEF SearchOK, Call
<1>6. n # r
  BY <1>2
<1>7. events' = events + 1 => Fault("status")
  BY <1>1, <1>6, FaultIs
<1>8. match => d \in Named(Uri)
  BY <1>1, <1>3, MatchIsNamed DEF Read, Call
<1>9. read /\ d \in Named(Uri) => match
  <2> SUFFICES ASSUME read, d \in Named(Uri) PROVE match
    OBVIOUS
  <2>1. Read(d, read) = Ident[d]
    BY ReadIsIdent
  <2>2. matches(Uri, Ident[d])
    BY DEF matches, Named
  <2> QED
    BY <1>3, <2>1, <2>2
<1> HIDE DEF r, n, match
<1>10. ASSUME {"offline"} \notin seen' PROVE Finding(n, Meant')
  <2>1. Finding(r, Meant) /\ Meant' = Meant
    BY <1>2, <1>3, <1>4, <1>10 DEF PollOK
  <2>2. ASSUME NEW e \in Meant
        PROVE  IF e \in n.todo THEN n.count = 0 /\ n.h = None ELSE n.count = 1 /\ n.h = e
    <3>1. e \in Named(Uri) /\ e \in r.snap /\ e \notin r.gone
      BY <2>1, <2>2 DEF Finding
    <3>2. IF e \in r.todo THEN r.count = 0 /\ r.h = None ELSE r.count = 1 /\ r.h = e
      BY <2>1, <2>2 DEF Finding
    <3>3. CASE e = d
      <4>1. read
        BY <1>2, <1>4, <1>7, <1>10, <3>1, <3>3
      <4>2. match /\ opened
        BY <1>2, <1>9, <3>1, <3>3, <4>1
      <4>3. n.count = 1 /\ n.h = d
        BY <1>2, <1>3, <3>2, <3>3, <4>2
      <4> QED
        BY <1>2, <3>3, <4>3
    <3>4. CASE e # d
      <4>1. ~match
        <5> SUFFICES ASSUME match PROVE FALSE
          OBVIOUS
        <5>1. d \in Meant
          BY <1>2, <1>5, <1>8, <2>1 DEF Finding
        <5>2. PICK m \in Printers : Meant = {m}
          BY <1>2, <1>10, Meanwhile DEF r, n
        <5> QED
          BY <2>2, <3>4, <5>1, <5>2
      <4>2. n.count = r.count /\ n.h = r.h /\ (e \in n.todo <=> e \in r.todo)
        BY <1>2, <1>5, <3>4, <4>1
      <4> QED
        BY <3>2, <4>2
    <3> QED
      BY <3>3, <3>4
  <2> QED
    BY <1>2, <2>1, <2>2 DEF Finding
<1>11. ASSUME NEW e \in Printers, e \in n.todo \/ e = n.h, e \notin n.gone PROVE e \in attached
  <2>1. e \in r.todo \/ e = r.h
    BY <1>2, <1>11
  <2> QED
    BY <1>2, <1>3, <1>11, <2>1 DEF PollOK
<1>12. PollOK(n, attached, Meant', seen', got)
  BY <1>2, <1>3, <1>4, <1>10, <1>11 DEF PollOK
<1> QED
  BY <1>12 DEF n

LEMMA SkipPolls ==
  ASSUME IInv, Polling, Steps, History, attached' = attached, got' = got,
         cli' = cli, NEW d \in Printers, Skip("status", d)
  PROVE  PollOK(u'["status"], attached', Meant', seen', got')
<1> DEFINE r == u["status"]
           n == u'["status"]
<1>1. /\ r \in Call /\ d \in r.todo /\ r.pc = "visit"
      /\ d \in r.gone \/ events' = events + 1
      /\ n.pc = "visit" /\ n.match = r.match /\ n.keeps = r.keeps
      /\ n.todo = r.todo \ {d} /\ n.snap = r.snap \ {d} /\ n.gone = r.gone \ {d}
      /\ n.count = r.count /\ n.h = r.h
  BY SkipDoes DEF IInv, Clients
<1>2. PollOK(r, attached, Meant, seen, got) /\ events \in Nat
  BY DEF Polling
<1>3. /\ seen \subseteq seen' /\ (Fault("status") => {"offline"} \in seen')
      /\ (n.gone # {} => {"other"} \in seen')
      /\ {"offline"} \notin seen' => {"offline"} \notin seen /\ Meant' = Meant
  BY <1>1, Meanwhile
<1>4. n # r
  BY <1>1
<1>5. events' = events + 1 => Fault("status")
  BY <1>2, <1>4, FaultIs DEF Clients
<1> HIDE DEF r, n
<1>6. ASSUME {"offline"} \notin seen' PROVE Finding(n, Meant')
  <2>1. Finding(r, Meant) /\ Meant' = Meant /\ d \in r.gone
    BY <1>1, <1>2, <1>3, <1>5, <1>6 DEF PollOK
  <2>2. d \notin Meant
    BY <2>1 DEF Finding
  <2>3. n.snap \intersect Named(Uri) = r.snap \intersect Named(Uri)
    BY <1>1, <2>1, <2>2 DEF Finding
  <2>4. Meant \intersect n.gone = {}
    BY <1>1, <2>1 DEF Finding
  <2> QED
    BY <1>1, <2>1, <2>2, <2>3, <2>4 DEF Finding
<1>7. ASSUME NEW e \in Printers, e \in n.todo \/ e = n.h, e \notin n.gone
      PROVE  e \in attached
  <2>1. SearchOK(r) /\ r.keeps
    BY <1>1, <1>2 DEF IInv, Calls, Clients, PollOK, r
  <2>2. e # d
    BY <1>1, <1>7, <2>1, UsbDeviceAssumption DEF SearchOK
  <2>3. (e \in r.todo \/ e = r.h) /\ e \notin r.gone
    BY <1>1, <1>7, <2>2
  <2> QED
    BY <1>1, <1>2, <2>3 DEF PollOK
<1>8. PollOK(n, attached, Meant', seen', got)
  BY <1>1, <1>2, <1>3, <1>6, <1>7 DEF PollOK
<1> QED
  BY <1>8 DEF n

LEMMA ClaimPolls ==
  ASSUME IInv, Polling, Steps, History, attached' = attached, got' = got, Claim("status")
  PROVE  PollOK(u'["status"], attached', Meant', seen', got')
<1> DEFINE r == u["status"]
           free == r.h \notin r.gone /\ claim[r.h] = None
           n == u'["status"]
<1>1. /\ "status" \in Clients /\ r \in Call /\ CallOK("status", r, claim)
      /\ u \in [Clients -> Call]
  BY DEF IInv, Types, Calls, Clients
<1>2. r.pc = "visit" /\ r.todo = {} /\ r.keeps
  BY DEF Claim
<1>3. PollOK(r, attached, Meant, seen, got)
  BY DEF Polling
<1>4. CASE Ready(r) /\ free
  <2> DEFINE c == [r EXCEPT !.pc = "claimed"]
  <2>1. n = c
    BY <1>1, <1>4 DEF Claim
  <2>2. /\ c.pc = "claimed" /\ c.match = r.match /\ c.keeps = r.keeps
        /\ c.todo = r.todo /\ c.h = r.h /\ c.gone = r.gone
    BY <1>1 DEF Call
  <2>3. n.pc # "rest"
    BY <2>1, <2>2
  <2>4. n.gone # {} => {"other"} \in seen'
    BY <1>2, <2>3, Meanwhile
  <2> HIDE DEF r, c, n
  <2>5. PollOK(n, attached, Meant', seen', got)
    BY <1>2, <1>3, <2>1, <2>2, <2>4 DEF PollOK
  <2> QED
    BY <2>5 DEF n
<1>5. CASE ~(Ready(r) /\ free)
  <2> DEFINE c == Failed(r)
  <2>1. n = c
    BY <1>1, <1>5 DEF Claim
  <2>2. c.pc = "failed" /\ c.gone = r.gone
    BY <1>1, FailedDoes
  <2>3. n.pc # "rest"
    BY <2>1, <2>2
  <2>4. n.gone # {} => {"other"} \in seen'
    BY <1>2, <2>3, Meanwhile
  <2>5. {"offline"} \in seen'
    <3> SUFFICES ASSUME {"offline"} \notin seen' PROVE FALSE
      OBVIOUS
    <3>1. /\ {"offline"} \notin seen
          /\ \E m \in Printers : Meant = {m} /\ claim[m] \in {None, "status"}
      BY <1>2, <2>3, Meanwhile
    <3>2. PICK m \in Printers : Meant = {m} /\ claim[m] \in {None, "status"}
      BY <3>1
    <3>3. Finding(r, Meant)
      BY <1>2, <1>3, <3>1 DEF PollOK
    <3>4. r.count = 1 /\ r.h = m /\ m \notin r.gone
      BY <1>2, <3>2, <3>3 DEF Finding
    <3>5. Ready(r)
      BY <3>4, NoClient DEF Ready
    <3>6. claim[m] # "status"
      BY <1>1, <1>2 DEF CallOK
    <3> QED
      BY <1>5, <3>2, <3>4, <3>5, <3>6
  <2> HIDE DEF r, c, n
  <2>6. PollOK(n, attached, Meant', seen', got)
    BY <2>1, <2>2, <2>4, <2>5 DEF PollOK
  <2> QED
    BY <2>6 DEF n
<1> QED
  BY <1>4, <1>5

LEMMA FinishPolls ==
  ASSUME IInv, Polling, Steps, History, attached' = attached, got' = got, cli' = cli,
         Finish("status")
  PROVE  PollOK(u'["status"], attached', Meant', seen', got')
<1> DEFINE r == u["status"]
           n == u'["status"]
<1>1. /\ "status" \in Clients /\ r \in Call /\ u \in [Clients -> Call] /\ events \in Nat
  BY DEF IInv, Types, Clients, Polling
<1>2. r.pc = "claimed"
  BY DEF Finish
<1>3. PollOK(r, attached, Meant, seen, got)
  BY DEF Polling
<1>4. CASE u' = [u EXCEPT !["status"].pc = "open"]
  <2> DEFINE c == [r EXCEPT !.pc = "open"]
  <2>1. n = c
    BY <1>1, <1>4
  <2>2. /\ c.pc = "open" /\ c.match = r.match /\ c.keeps = r.keeps
        /\ c.todo = r.todo /\ c.h = r.h /\ c.gone = r.gone
    BY <1>1 DEF Call
  <2>3. n.pc # "rest"
    BY <2>1, <2>2
  <2>4. n.gone # {} => {"other"} \in seen'
    BY <1>2, <2>3, Meanwhile
  <2> HIDE DEF r, c, n
  <2>5. PollOK(n, attached, Meant', seen', got)
    BY <1>2, <1>3, <2>1, <2>2, <2>4 DEF PollOK
  <2> QED
    BY <2>5 DEF n
<1>5. CASE u' = [u EXCEPT !["status"] = Failed(@)] /\ Happens
  <2> DEFINE c == Failed(r)
  <2>1. n = c
    BY <1>1, <1>5
  <2>2. c.pc = "failed" /\ c.gone = r.gone
    BY <1>1, FailedDoes
  <2>3. n.pc # "rest" /\ n # r
    BY <1>2, <2>1, <2>2
  <2>4. Fault("status")
    BY <1>1, <1>5, <2>3, FaultIs DEF Happens
  <2>5. (n.gone # {} => {"other"} \in seen') /\ {"offline"} \in seen'
    BY <1>2, <2>3, <2>4, Meanwhile
  <2> HIDE DEF r, c, n
  <2>6. PollOK(n, attached, Meant', seen', got)
    BY <2>1, <2>2, <2>5 DEF PollOK
  <2> QED
    BY <2>6 DEF n
<1> QED
  BY <1>4, <1>5 DEF Finish

LEMMA StepPolls ==
  ASSUME IInv, Polling, Steps, History, Step("status")
  PROVE  PollOK(u'["status"], attached', Meant', seen', got')
<1>1. attached' = attached /\ got' = got /\ cli' = cli
  BY DEF Step, env, pappl
<1>2. u["status"] \in Call
  BY DEF IInv, Types, Clients
<1>3. ASSUME NEW d \in u["status"].todo, NEW opened \in BOOLEAN, NEW read \in BOOLEAN,
             Visit("status", d, opened, read)
      PROVE  PollOK(u'["status"], attached', Meant', seen', got')
  <2>1. d \in Printers
    BY <1>2 DEF Call
  <2> QED
    BY <1>1, <1>3, <2>1, VisitPolls
<1>4. ASSUME NEW d \in u["status"].todo, Skip("status", d)
      PROVE  PollOK(u'["status"], attached', Meant', seen', got')
  <2>1. d \in Printers
    BY <1>2 DEF Call
  <2> QED
    BY <1>1, <1>4, <2>1, SkipPolls
<1>5. ~EndList("status")
  BY DEF EndList, Polling, PollOK
<1> QED
  BY <1>1, <1>3, <1>4, <1>5, ClaimPolls, FinishPolls DEF Step

(* A step of a call does not end it.                                       *)
LEMMA StepMoves ==
  ASSUME Types, Calls, NEW c \in Clients, Step(c)
  PROVE  u'[c].pc # "rest"
<1>1. attached' = attached /\ u[c].todo \subseteq Printers
  BY DEF Step, env, Types, Call
<1>2. Moved(c)
  BY <1>1, VisitKeeps, SkipKeeps, ClaimKeeps, FinishKeeps, EndListKeeps DEF Step
<1> QED
  BY <1>2 DEF Moved

-----------------------------------------------------------------------------
LEMMA AskPolls ==
  ASSUME IInv, Polling, Steps, History, StatusAsk
  PROVE  PollOK(u'["status"], attached', Meant', seen', got')
<1> DEFINE n == u'["status"]
<1>1. n.pc = "asked"
  BY DEF StatusAsk, IInv, Types, Clients, Call
<1>2. n.gone # {} => {"other"} \in seen'
  BY <1>1, Seeing
<1> HIDE DEF n
<1> QED
  BY <1>1, <1>2 DEF PollOK, n

LEMMA OpenPolls ==
  ASSUME IInv, Polling, Steps, History, StatusOpen
  PROVE  PollOK(u'["status"], attached', Meant', seen', got')
<1> DEFINE n == u'["status"]
<1>1. /\ u \in [Clients -> Call] /\ "status" \in Clients /\ events \in Nat
      /\ attached' = attached /\ u["status"].pc = "asked" /\ cli' = cli
  BY DEF StatusOpen, env, IInv, Types, Clients, Polling
<1>2. CASE u' = [u EXCEPT !["status"] = Called(Uri, TRUE)]
  <2>1. n = Called(Uri, TRUE)
    BY <1>1, <1>2
  <2>2. /\ n.pc = "visit" /\ n.match = Uri /\ n.keeps /\ n.snap = attached
        /\ n.todo = attached /\ n.gone = {} /\ n.count = 0 /\ n.h = None
    BY <2>1 DEF Called, Rest
  <2> HIDE DEF n
  <2>3. Meant' = attached \intersect Named(Uri)
    BY <1>1 DEF Meant
  <2>4. Finding(n, Meant')
    BY <2>2, <2>3 DEF Finding
  <2> QED
    BY <1>1, <2>2, <2>4, NoClient DEF PollOK, n
<1>3. CASE u' = [u EXCEPT !["status"] = Refused] /\ Happens
  <2>1. n.pc = "failed" /\ n.gone = {}
    BY <1>1, <1>3, RefusedDoes
  <2>2. u'["status"] # u["status"]
    BY <1>1, <2>1
  <2>3. Fault("status")
    BY <1>1, <1>3, <2>2, FaultIs DEF Happens
  <2>4. {"offline"} \in seen'
    BY <2>1, <2>3, Seeing
  <2> HIDE DEF n
  <2> QED
    BY <2>1, <2>4 DEF PollOK, n
<1> QED
  BY <1>2, <1>3 DEF StatusOpen, Begin

(* The reply of the printer, or of a request that failed.                  *)
LEMMA ReadPolls ==
  ASSUME IInv, Polling, Steps, History, StatusRead
  PROVE  PollOK(u'["status"], attached', Meant', seen', got')
<1> DEFINE r == u["status"]
           n == u'["status"]
           c == [r EXCEPT !.pc = "read"]
<1>1. /\ "status" \in Clients /\ r \in Call /\ CallOK("status", r, claim) /\ SearchOK(r)
      /\ events \in Nat
  BY DEF IInv, Types, Calls, Clients, Polling
<1>2. /\ r.pc = "open" /\ n = c /\ attached' = attached /\ byte' = byte /\ cli' = cli
  BY DEF StatusRead, env, IInv, Types, Clients
<1>3. /\ c.pc = "read" /\ c.match = r.match /\ c.keeps = r.keeps /\ c.gone = r.gone
      /\ c.h = r.h
  BY <1>1 DEF Call
<1>4. PollOK(r, attached, Meant, seen, got)
  BY DEF Polling
<1>5. /\ seen \subseteq seen' /\ Truths' \subseteq seen' /\ (Fault("status") => {"other"} \in seen')
      /\ (n.gone # {} => {"other"} \in seen')
  BY <1>2, <1>3, Seeing
<1>6. got' \in seen'
  <2>1. r.h \in Printers /\ r.h \in Named(Uri)
    <3>1. r.h # None /\ r.h \in Printers
      BY <1>1, <1>2 DEF CallOK, Session, Call
    <3>2. r.h \in Named(r.match) /\ r.match = Uri
      BY <1>1, <1>2, <1>4, <3>1 DEF SearchOK, PollOK
    <3> QED
      BY <3>1, <3>2
  <2>2. CASE Live("status") /\ got' = Status(byte[r.h])
    <3>1. r.h \in attached
      BY <1>2, <1>4, <2>1, <2>2 DEF Live, PollOK
    <3>2. r.h \in Meant'
      BY <1>2, <2>1, <3>1 DEF Meant
    <3>3. Status(byte[r.h]) \in Truths'
      BY <1>2, <3>2 DEF Truths, Status
    <3> QED
      BY <1>5, <2>2, <3>3
  <2>3. CASE ~Live("status") /\ got' = {"other"}
    BY <1>2, <1>3, <1>5, <2>3 DEF Live
  <2>4. CASE got' = {"other"} /\ Happens
    <3>1. u'["status"] # u["status"]
      BY <1>2, <1>3
    <3>2. Fault("status")
      BY <1>1, <1>2, <2>4, <3>1, FaultIs DEF Happens
    <3> QED
      BY <1>5, <2>4, <3>2
  <2> QED
    BY <2>2, <2>3, <2>4 DEF StatusRead
<1> HIDE DEF r, c, n
<1>7. PollOK(n, attached', Meant', seen', got')
  BY <1>2, <1>3, <1>4, <1>5, <1>6 DEF PollOK
<1> QED
  BY <1>7 DEF n

LEMMA ClosePolls ==
  ASSUME IInv, Polling, Steps, History, StatusClose
  PROVE  PollOK(u'["status"], attached', Meant', seen', got')
<1> DEFINE n == u'["status"]
<1>1. u \in [Clients -> Call] /\ "status" \in Clients /\ u["status"].pc = "read" /\ got' = got
  BY DEF IInv, Types, Clients, StatusClose
<1>2. n.pc = "closed" /\ n.gone = {}
  BY <1>1 DEF StatusClose, Close, Rest
<1>3. seen \subseteq seen' /\ got \in seen
  BY <1>1, <1>2, Seeing DEF Polling, PollOK
<1> HIDE DEF n
<1> QED
  BY <1>1, <1>2, <1>3 DEF PollOK, n

(* A poll that says something says what it has seen.                       *)
LEMMA OfflineTells ==
  ASSUME IInv, Polling, StatusOffline
  PROVE  u'["status"].pc = "rest" /\ reasons' \in seen
<1>1. u \in [Clients -> Call] /\ "status" \in Clients /\ PapplOK
  BY DEF IInv, Types, Clients
<1>2. u'["status"].pc = "rest"
  BY <1>1, AtRest DEF StatusOffline, GiveUp
<1>3. reasons' = {"offline"}
  BY DEF StatusOffline, Offline, SetReasons
<1>4. CASE u["status"].pc = "asked" /\ inuse # None
  <2>1. inuse \notin {None, "status"}
    BY <1>1, <1>4 DEF PapplOK
  <2>2. {"offline"} \in Truths
    BY <2>1 DEF Truths
  <2> QED
    BY <1>2, <1>3, <1>4, <2>2 DEF Polling
<1>5. CASE u["status"].pc = "failed"
  BY <1>2, <1>3, <1>5 DEF Polling, PollOK
<1> QED
  BY <1>4, <1>5 DEF StatusOffline

LEMMA SetTells ==
  ASSUME IInv, Polling, StatusSet
  PROVE  u'["status"].pc = "rest" /\ reasons' \in seen
<1>1. u \in [Clients -> Call] /\ "status" \in Clients /\ u["status"].pc = "closed"
  BY DEF IInv, Types, Clients, StatusSet
<1>2. u'["status"].pc = "rest"
  BY <1>1 DEF StatusSet, Call
<1>3. reasons' = got /\ got \in seen
  BY <1>1 DEF StatusSet, SetReasons, Polling, PollOK
<1> QED
  BY <1>2, <1>3

LEMMA RestPolls ==
  ASSUME u'["status"].pc = "rest"
  PROVE  PollOK(u'["status"], attached', Meant', seen', got')
  BY DEF PollOK

LEMMA PollingInit == Init => Polling
<1> SUFFICES ASSUME Init PROVE Polling
  OBVIOUS
<1>1. u["status"].pc = "rest"
  BY DEF Init, Rest, Clients
<1> QED
  BY <1>1 DEF Init, Polling, PollOK

LEMMA PollingNext == IInv /\ Polling /\ [Next]_vars => Polling'
<1> SUFFICES ASSUME IInv, Polling, [Next]_vars PROVE Polling'
  OBVIOUS
<1>1. CASE Next
  <2>1. Steps /\ History
    BY <1>1 DEF Next
  <2>2. events' \in Nat
    BY <2>1, EventsCount DEF Polling
  <2>3. u'["status"].pc # "rest" => Truths' \subseteq seen'
    BY <2>1, Seeing
  <2>4. PollOK(u'["status"], attached', Meant', seen', got')
    <3>1. CASE u'["status"] = u["status"] /\ got' = got /\ attached \subseteq attached'
      BY <2>1, <3>1, AlonePolls
    <3>2. CASE StatusPoll
      BY <2>1, <3>2, AskPolls, OpenPolls, ReadPolls, ClosePolls, OfflineTells, SetTells,
         RestPolls DEF StatusPoll
    <3> QED
      BY <2>1, <3>1, <3>2, StepPolls, UnplugPolls, StatusAlone
  <2> QED
    BY <2>2, <2>3, <2>4 DEF Polling
<1>2. CASE UNCHANGED vars
  BY <1>2 DEF vars, Polling, Truths, Openable, Meant, Status
<1> QED
  BY <1>1, <1>2

(***************************************************************************)
(* A status poll (cb_status of app.c, usbdev_status of usbdev.c) reports   *)
(* one moment, for any printers, URI, status bytes and number of events:   *)
(* the reasons it sets were true of the printer at some moment since PAPPL *)
(* asked, whatever jobs, commands, cables and the vendor's driver did.     *)
(***************************************************************************)
THEOREM StatusTrueHolds == Spec => StatusTrue
<1>1. IInv /\ Polling /\ [Next]_vars =>
        [u["status"].pc # "rest" /\ u'["status"].pc = "rest" => reasons' \in seen]_vars
  <2> SUFFICES ASSUME IInv, Polling, Next, u["status"].pc # "rest", u'["status"].pc = "rest"
               PROVE  reasons' \in seen
    OBVIOUS
  <2>1. Steps /\ Types /\ Calls /\ "status" \in Clients
    BY DEF Next, IInv, Clients
  <2>2. ~(u'["status"] = u["status"])
    OBVIOUS
  <2>3. ~Step("status")
    BY <2>1, StepMoves
  <2>4. ASSUME NEW d \in Printers, Unplug(d) PROVE FALSE
    BY <2>1, <2>4 DEF Unplug, Types, Call
  <2>5. StatusPoll
    BY <2>1, <2>2, <2>3, <2>4, StatusAlone
  <2>6. ~StatusAsk
    BY <2>1 DEF StatusAsk
  <2>7. ~StatusOpen
    <3> SUFFICES ASSUME StatusOpen PROVE FALSE
      OBVIOUS
    <3>1. CASE u' = [u EXCEPT !["status"] = Called(Uri, TRUE)]
      <4>1. u'["status"] = Called(Uri, TRUE)
        BY <2>1, <3>1 DEF Types
      <4>2. u'["status"].pc = "visit"
        BY <4>1 DEF Called, Rest
      <4> QED
        BY <4>2
    <3>2. CASE u' = [u EXCEPT !["status"] = Refused]
      <4>1. u'["status"] = Refused
        BY <2>1, <3>2 DEF Types
      <4> QED
        BY <4>1, RefusedDoes
    <3> QED
      BY <3>1, <3>2 DEF StatusOpen, Begin
  <2>8. ~StatusRead /\ ~StatusClose
    BY <2>1 DEF StatusRead, StatusClose, Close, Rest, Types, Call
  <2> QED
    BY <2>5, <2>6, <2>7, <2>8, OfflineTells, SetTells DEF StatusPoll
<1>2. IInv /\ Polling /\ [Next]_vars => (IInv /\ Polling)'
  BY NextHolds, PollingNext
<1>3. Init => IInv /\ Polling
  BY InitHolds, PollingInit
<1> QED
  BY <1>1, <1>2, <1>3, PTL DEF Spec, StatusTrue

-----------------------------------------------------------------------------
(***************************************************************************)
(* Writing in a session, for every chunk size and every buffer length,     *)
(* whatever the transfers do: the printer takes the bytes in order, each   *)
(* once, and the report of the write is true.  The induction needs         *)
(* Accounted: the printer has exactly the p + done bytes the two loops     *)
(* have advanced over.                                                     *)
(***************************************************************************)
WriteInv == WriteTypeOK /\ Accounted

LEMMA WriteInitHolds == WriteInit => WriteInv
  BY DEF WriteInit, WriteInv, WriteTypeOK, Accounted, TakenInOrder, ReportIsTrue, Callers

(* What a transfer of t bytes leaves with the printer.                     *)
LEMMA TransferAppends ==
  ASSUME WriteInv, NEW t \in Nat, NEW code \in {0, -1}, BulkTransfer(t, code)
  PROVE  /\ taken' \in Seq(Nat \ {0})
         /\ Len(taken') = Len(taken) + t
         /\ \A i \in 1 .. Len(taken') : taken'[i] = i
<1> DEFINE part == [i \in 1 .. t |-> p + done + i]
<1>1. taken \in Seq(Nat \ {0}) /\ p \in Nat /\ done \in Nat
  BY DEF WriteInv, WriteTypeOK
<1>2. part \in Seq(Nat \ {0}) /\ Len(part) = t
  <2>1. \A i \in 1 .. t : p + done + i \in Nat \ {0}
    BY <1>1
  <2> QED
    BY <2>1
<1>3. taken' = taken \o part
  BY DEF BulkTransfer
<1>4. \A i \in 1 .. t : part[i] = p + done + i
  OBVIOUS
<1> HIDE DEF part
<1>5. /\ taken' \in Seq(Nat \ {0})
      /\ Len(taken') = Len(taken) + t
      /\ \A i \in 1 .. (Len(taken) + t) :
           taken'[i] = IF i <= Len(taken) THEN taken[i] ELSE part[i - Len(taken)]
  <2>1. /\ taken \o part \in Seq(Nat \ {0})
        /\ Len(taken \o part) = Len(taken) + Len(part)
        /\ \A i \in 1 .. Len(taken) + Len(part) : (taken \o part)[i] =
              IF i <= Len(taken) THEN taken[i] ELSE part[i - Len(taken)]
    BY <1>1, <1>2, ConcatProperties
  <2> QED
    BY <1>2, <1>3, <2>1
<1>6. Len(taken) = p + done /\ \A i \in 1 .. Len(taken) : taken[i] = i
  BY DEF WriteInv, Accounted, TakenInOrder
<1>7. Len(taken) \in Nat
  BY <1>1
<1>8. ASSUME NEW i \in 1 .. (Len(taken) + t) PROVE taken'[i] = i
  <2>1. CASE i <= Len(taken)
    BY <1>5, <1>6, <1>7, <2>1
  <2>2. CASE ~ (i <= Len(taken))
    <3>1. i - Len(taken) \in 1 .. t
      BY <1>7, <2>2
    <3>2. taken'[i] = part[i - Len(taken)]
      BY <1>5, <2>2
    <3>3. part[i - Len(taken)] = p + done + (i - Len(taken))
      BY <1>4, <3>1
    <3>4. p + done + (i - Len(taken)) = i
      BY <1>1, <1>6, <1>7
    <3> QED
      BY <3>2, <3>3, <3>4
  <2> QED
    BY <2>1, <2>2
<1> QED
  BY <1>5, <1>8

LEMMA WriteNextHolds ==
  WriteInv /\ [WriteNext]_writeVars => WriteInv'
<1> SUFFICES ASSUME WriteInv, [WriteNext]_writeVars PROVE WriteInv'
  OBVIOUS
<1> USE UsbWriteAssumption
<1>1. ASSUME NEW who \in Callers, NEW n \in 0 .. MaxBytes, BeginWrite(who, n)
      PROVE  WriteInv'
  BY <1>1 DEF BeginWrite, WriteInv, WriteTypeOK, Accounted, TakenInOrder, ReportIsTrue
<1>2. CASE CallUsbWrite
  BY <1>2 DEF CallUsbWrite, WriteInv, WriteTypeOK, Accounted, TakenInOrder, ReportIsTrue
<1>3. CASE ReturnBytes
  BY <1>3 DEF ReturnBytes, WriteInv, WriteTypeOK, Accounted, TakenInOrder, ReportIsTrue
<1>4. ASSUME NEW t \in 0 .. CHUNK_BYTES, NEW code \in {0, -1},
             BulkTransfer(t, code)
      PROVE  WriteInv'
  <2>1. /\ taken' \in Seq(Nat \ {0}) /\ Len(taken') = Len(taken) + t
        /\ \A i \in 1 .. Len(taken') : taken'[i] = i
    BY <1>4, TransferAppends
  <2>2. t \in 0 .. (left - done)
    BY <1>4 DEF BulkTransfer, Want, WriteInv, WriteTypeOK
  <2>3. WriteTypeOK'
    BY <1>4, <2>1 DEF BulkTransfer, WriteInv, WriteTypeOK
  <2>4. Accounted'
    BY <1>4, <2>1, <2>2
       DEF BulkTransfer, WriteInv, WriteTypeOK, Accounted, TakenInOrder, ReportIsTrue
  <2> QED
    BY <2>3, <2>4 DEF WriteInv
<1>5. CASE UsbWriteReturns
  <2>1. WriteTypeOK'
    BY <1>5 DEF UsbWriteReturns, GivesUp, WriteInv, WriteTypeOK, Accounted
  <2>2. TakenInOrder' /\ Len(taken') = p' + done' /\ p' + left' = bytes'
        /\ done' <= left' /\ (pc' # "usb" => done' = 0) /\ pc' # "usb"
    BY <1>5 DEF UsbWriteReturns, GivesUp, WriteInv, WriteTypeOK, Accounted, TakenInOrder
  <2>3. ret' = "ok" => Len(taken') = bytes'
    BY <1>5 DEF UsbWriteReturns, GivesUp, WriteInv, WriteTypeOK, Accounted, Callers
  <2>4. ret' = "failed" /\ caller' = "usbdev_write" => Len(taken') < bytes'
    <3>1. SUFFICES ASSUME ret' = "failed", caller' = "usbdev_write"
                   PROVE  Len(taken') < bytes'
      OBVIOUS
    <3>2. caller = "usbdev_write" /\ ret = "none" /\ taken' = taken /\ bytes' = bytes
      BY <1>5, <3>1 DEF UsbWriteReturns, GivesUp, WriteInv, Accounted
    <3>3. done = 0 /\ rc # 0
      BY <1>5, <3>1, <3>2 DEF UsbWriteReturns, GivesUp
    <3> QED
      BY <1>5, <3>2, <3>3 DEF UsbWriteReturns, GivesUp, WriteInv, WriteTypeOK, Accounted
  <2>5. pc' # "idle" => ret' = "none"
    BY <1>5 DEF UsbWriteReturns, GivesUp, WriteInv, WriteTypeOK, Accounted, Callers
  <2> QED
    BY <2>1, <2>2, <2>3, <2>4, <2>5 DEF WriteInv, Accounted, ReportIsTrue
<1>6. CASE UNCHANGED writeVars
  BY <1>6 DEF writeVars, WriteInv, WriteTypeOK, Accounted, TakenInOrder, ReportIsTrue
<1> QED
  BY <1>1, <1>2, <1>3, <1>4, <1>5, <1>6 DEF WriteNext, WriteStep

(* The pointers of both loops account for every byte the printer took.     *)
THEOREM AccountedHolds ==
  WriteSpec => [](WriteTypeOK /\ Accounted)
<1>1. WriteInv => WriteTypeOK /\ Accounted
  BY DEF WriteInv
<1> QED
  BY <1>1, WriteInitHolds, WriteNextHolds, PTL DEF WriteSpec

(***************************************************************************)
(* The printer takes the bytes of a buffer in order, each once (usb.c and  *)
(* usbdev.c: the retry starts at the first byte not taken).                *)
(***************************************************************************)
THEOREM TakenInOrderHolds ==
  WriteSpec => []TakenInOrder
<1>1. WriteTypeOK /\ Accounted => TakenInOrder
  BY DEF Accounted
<1> QED
  BY <1>1, AccountedHolds, PTL

(***************************************************************************)
(* A write that reports success delivered all, and usbdev_write reports a  *)
(* failure only when it did not.                                           *)
(***************************************************************************)
THEOREM ReportIsTrueHolds ==
  WriteSpec => []ReportIsTrue
<1>1. WriteTypeOK /\ Accounted => ReportIsTrue
  BY DEF Accounted
<1> QED
  BY <1>1, AccountedHolds, PTL
=============================================================================
