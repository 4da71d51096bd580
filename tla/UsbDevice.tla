------------------------------ MODULE UsbDevice ------------------------------
(***************************************************************************)
(* Who gets the printer: the open and close of src/usb/usb.c as the        *)
(* server's jobs, PAPPL's status polls (src/app/usbdev.c, cb_status of     *)
(* src/app/app.c) and the commands send and probe use them side by side,   *)
(* while printers are plugged in and out and the vendor's driver claims    *)
(* one now and then.  What a session writes is UsbWrite's and PrintJob's.  *)
(***************************************************************************)
EXTENDS Integers, FiniteSets

CONSTANTS
  Printers,    \* the USB printers there are
  Ident,       \* the model and the serial number of each
  Uri,         \* the match of the server's device URI
  SendMatches, \* bound: the matches of the send command
  Bytes,       \* bound: the status bytes, as sets of bits
  Starts,      \* bound: the printers on the bus at the start
  MaxDevices,  \* MAX_DEVICES of cmd_probe.c
  MaxEvents    \* bound: things that happen to the programs

(* A printer without a serial number, and a match that asks for none.      *)
Any == ""
Idents == [model : STRING, serial : STRING]
None == "none"
Clients == {"job", "status", "cli"}

ASSUME UsbDeviceAssumption ==
  /\ None \notin Printers /\ MaxDevices \in Nat \ {0} /\ MaxEvents \in Nat
  /\ \A d \in Printers : Ident[d] \in Idents /\ Ident[d].model # Any
  /\ {Uri} \union SendMatches \subseteq Idents
  /\ Starts \subseteq SUBSET Printers

VARIABLES
  attached,  \* the printers on the bus
  byte,      \* GET_PORT_STATUS of each
  claim,     \* who has claimed the interface of each
  u,         \* each client's call of usb.c
  job,       \* PAPPL's job: "none", or "waiting" until it is over
  inuse,     \* PAPPL's device of the printer: None, or who has it
  got,       \* the reasons cb_status is about to set
  reasons,   \* printer-state-reasons of the device
  cli,       \* the command that runs
  events,    \* events so far
  seen,      \* history: what a status poll may report
  blocked    \* history: printers that were not free since probe started

vars == <<attached, byte, claim, u, job, inuse, got, reasons, cli, events, seen,
          blocked>>
env == <<attached, byte>>
pappl == <<job, inuse, got, reasons>>

(* A client that is not in usb.c.                                          *)
Rest == [pc |-> "rest", match |-> Uri, keeps |-> FALSE, snap |-> {}, gone |-> {},
         todo |-> {}, count |-> 0, infos |-> {}, h |-> None, ctx |-> 0,
         handles |-> 0]
NoCommand == [cmd |-> "none", snap |-> {}, listed |-> {}, np |-> 0, rows |-> {},
              opened |-> 0, exit |-> 0]

Init ==
  /\ attached \in Starts
  /\ byte = [d \in Printers |-> {"selected", "no-error"}]
  /\ claim = [d \in Printers |-> None]
  /\ u = [c \in Clients |-> Rest]
  /\ job = "none" /\ inuse = None /\ got = {} /\ reasons = {}
  /\ cli = NoCommand /\ events = 0 /\ seen = {} /\ blocked = {}

Happens == events < MaxEvents /\ events' = events + 1

-----------------------------------------------------------------------------
(* m2022_usb_open and m2022_usb_list                                       *)

matches(m, info) ==
  m.model \in {Any, info.model} /\ m.serial \in {Any, info.serial}

(* libusb_init and libusb_get_device_list: the call begins with the        *)
(* printers that are on the bus now.  The list is what enumerate walks,    *)
(* whatever is plugged in or out meanwhile.  Either may fail.              *)
Called(m, keeps) ==
  [Rest EXCEPT !.pc = "visit", !.match = m, !.keeps = keeps, !.snap = attached,
               !.todo = attached, !.ctx = 1]

Refused == [Rest EXCEPT !.pc = "failed"]

Begin(c, m, keeps) ==
  \/ u' = [u EXCEPT ![c] = Called(m, keeps)] /\ UNCHANGED events
  \/ u' = [u EXCEPT ![c] = Refused] /\ Happens

(* Mutant: of the printers that match, none is closed again.               *)
Kept_every_match(match, opened, keep) == IF match /\ opened THEN 1 ELSE 0

(* enumerate closes every handle but the one it keeps.                     *)
Kept(match, opened, keep) == IF keep THEN 1 ELSE 0

(* One turn of enumerate.  A printer that is gone cannot be opened; one    *)
(* that is there opens and tells its serial number, or the bus fails.      *)
Visit(c, d, opened, read) ==
  LET r == u[c]
      info == [Ident[d] EXCEPT !.serial = IF read THEN @ ELSE Any]
      match == matches(r.match, info)
      keep == match /\ opened /\ r.keeps /\ r.h = None
  IN  /\ r.pc = "visit" /\ d \in r.todo
      /\ d \in r.gone => ~opened
      /\ read => opened
      /\ IF read \/ d \in r.gone THEN UNCHANGED events ELSE Happens
      /\ u' = [u EXCEPT ![c] =
           [r EXCEPT !.todo = @ \ {d},
                     !.count = @ + IF match THEN 1 ELSE 0,
                     !.infos = IF match /\ ~r.keeps /\ r.count < MaxDevices
                               THEN @ \union {<<d, info>>} ELSE @,
                     !.h = IF keep THEN d ELSE @,
                     !.handles = @ + Kept(match, opened, keep)]]
      /\ UNCHANGED claim

(* One whose descriptors cannot be read is left out, as if it was not on   *)
(* the bus: it is gone, or the bus fails.                                  *)
Skip(c, d) ==
  LET r == u[c]
  IN  /\ r.pc = "visit" /\ d \in r.todo
      /\ IF d \in r.gone THEN UNCHANGED events ELSE Happens
      /\ u' = [u EXCEPT ![c] = [r EXCEPT !.todo = @ \ {d}, !.snap = @ \ {d},
                                         !.gone = @ \ {d}]]
      /\ UNCHANGED claim

(* Mutant: the interface stays claimed.                                    *)
Released_never(c) == claim

(* libusb_release_interface, or libusb_close of a claimed printer.         *)
Released(c) == [d \in Printers |-> IF claim[d] = c THEN None ELSE claim[d]]

(* A failed open closes the handle it may have and ends the context.       *)
Failed(r) ==
  [r EXCEPT !.pc = "failed", !.ctx = @ - 1,
            !.handles = @ - IF r.h = None THEN 0 ELSE 1, !.h = None]

(* Mutant: the first of several printers is taken.                         *)
Ready_first(r) == r.count > 0 /\ r.h # None

(* The checks between enumerate and the claim: ENOTFOUND, EAMBIGUOUS and   *)
(* LIBUSB_ERROR_ACCESS.                                                    *)
Ready(r) == r.count > 0 /\ ~(r.count > 1) /\ r.h # None

(* The claim is refused for a printer that is gone or has another owner.   *)
Claim(c) ==
  LET r == u[c]
      free == r.h \notin r.gone /\ claim[r.h] = None
  IN  /\ r.pc = "visit" /\ r.todo = {} /\ r.keeps
      /\ IF Ready(r) /\ free
         THEN /\ claim' = [claim EXCEPT ![r.h] = c]
              /\ u' = [u EXCEPT ![c].pc = "claimed"]
         ELSE /\ u' = [u EXCEPT ![c] = Failed(r)]
              /\ UNCHANGED claim
      /\ UNCHANGED events

(* The alternate setting and the buffers; when one fails, all is undone.   *)
Finish(c) ==
  /\ u[c].pc = "claimed"
  /\ \/ u' = [u EXCEPT ![c].pc = "open"] /\ UNCHANGED <<claim, events>>
     \/ u' = [u EXCEPT ![c] = Failed(@)] /\ claim' = Released(c) /\ Happens

(* m2022_usb_list is done.                                                 *)
EndList(c) ==
  /\ u[c].pc = "visit" /\ u[c].todo = {} /\ ~u[c].keeps
  /\ u' = [u EXCEPT ![c].pc = "listed", ![c].ctx = @ - 1]
  /\ UNCHANGED <<claim, events>>

Step(c) ==
  /\ \/ \E d \in u[c].todo, opened, read \in BOOLEAN : Visit(c, d, opened, read)
     \/ \E d \in u[c].todo : Skip(c, d)
     \/ Claim(c) \/ Finish(c) \/ EndList(c)
  /\ UNCHANGED <<env, pappl, cli>>

(* m2022_usb_close                                                         *)
Close(c, pc) ==
  /\ claim' = Released(c)
  /\ u' = [u EXCEPT ![c] = [Rest EXCEPT !.pc = pc, !.ctx = u[c].ctx - 1,
                                        !.handles = u[c].handles - 1]]

(* The call has come back without a device.                                *)
GiveUp(c) ==
  u' = [u EXCEPT ![c] = [Rest EXCEPT !.ctx = u[c].ctx, !.handles = u[c].handles]]

Live(c) == u[c].h \notin u[c].gone

-----------------------------------------------------------------------------
(* The server's jobs.  PAPPL holds the device for the whole job and opens  *)
(* it again every five seconds until it gets it.                           *)

JobStart ==
  /\ job = "none" /\ job' = "waiting" /\ Happens
  /\ UNCHANGED <<env, claim, u, inuse, got, reasons, cli>>

(* papplDeviceOpen, which calls usbdev_open.                               *)
JobOpen ==
  /\ job = "waiting" /\ inuse \in {None, "job"} /\ u["job"].pc = "rest"
  /\ inuse' = "job" /\ Begin("job", Uri, TRUE)
  /\ UNCHANGED <<env, claim, job, got, reasons, cli>>

JobRetry ==
  /\ u["job"].pc = "failed" /\ GiveUp("job")
  /\ UNCHANGED <<env, claim, pappl, cli, events>>

(* The callbacks of the job, whatever comes of them, and usbdev_close.     *)
JobEnd ==
  /\ job = "waiting" /\ u["job"].pc = "open"
  /\ job' = "none" /\ inuse' = None /\ Close("job", "rest")
  /\ UNCHANGED <<env, got, reasons, cli, events>>

-----------------------------------------------------------------------------
(* The status poll.  PAPPL asks between jobs.                              *)

StatusAsk ==
  /\ u["status"].pc = "rest" /\ job # "waiting" /\ inuse = None
  /\ u' = [u EXCEPT !["status"].pc = "asked"]
  /\ UNCHANGED <<env, claim, pappl, cli, events>>

(* papplPrinterOpenDevice: no device while a job has it.                   *)
StatusOpen ==
  /\ u["status"].pc = "asked" /\ inuse = None
  /\ inuse' = "status" /\ Begin("status", Uri, TRUE)
  /\ UNCHANGED <<env, claim, job, got, reasons, cli>>

(* Mutant: only the reasons that are new are set, none is taken back.      *)
SetReasons_added(add) == reasons \union add

(* papplPrinterSetReasons with the mask of the callback: the device's      *)
(* reasons that are not set are cleared.                                   *)
SetReasons(add) == add

(* Mutant: a poll that cannot open the printer says nothing.               *)
Offline_silent == reasons

Offline == SetReasons({"offline"})

StatusOffline ==
  /\ \/ u["status"].pc = "asked" /\ inuse # None /\ UNCHANGED inuse
     \/ u["status"].pc = "failed" /\ inuse' = None
  /\ GiveUp("status") /\ reasons' = Offline
  /\ UNCHANGED <<env, claim, job, got, cli, events>>

(* usbdev_status: the reasons of a status byte.                            *)
Status(b) ==
  {"media-empty" : s \in {"paper-empty"} \intersect b}
    \union {"offline" : s \in {"selected"} \ b}
    \union {"other" : s \in {"no-error"} \ b}

(* papplDeviceGetStatus; a request that fails is an error of its own.      *)
StatusRead ==
  /\ u["status"].pc = "open"
  /\ u' = [u EXCEPT !["status"].pc = "read"]
  /\ \/ Live("status") /\ got' = Status(byte[u["status"].h]) /\ UNCHANGED events
     \/ ~Live("status") /\ got' = {"other"} /\ UNCHANGED events
     \/ Live("status") /\ got' = {"other"} /\ Happens
  /\ UNCHANGED <<env, claim, job, inuse, reasons, cli>>

StatusClose ==
  /\ u["status"].pc = "read" /\ inuse' = None /\ Close("status", "closed")
  /\ UNCHANGED <<env, job, got, reasons, cli, events>>

StatusSet ==
  /\ u["status"].pc = "closed"
  /\ u' = [u EXCEPT !["status"] = [@ EXCEPT !.pc = "rest"]]
  /\ reasons' = SetReasons(got) /\ got' = {}
  /\ UNCHANGED <<env, claim, job, inuse, cli, events>>

StatusPoll ==
  StatusAsk \/ StatusOpen \/ StatusOffline \/ StatusRead \/ StatusClose \/ StatusSet

-----------------------------------------------------------------------------
(* The commands                                                            *)

(* cmd_send opens the printer and writes the file.                         *)
cmd_send(m) ==
  /\ cli.cmd = "none" /\ Happens
  /\ cli' = [NoCommand EXCEPT !.cmd = "send"]
  /\ \E call \in {Called(m, TRUE), Refused} : u' = [u EXCEPT !["cli"] = call]
  /\ UNCHANGED <<env, claim, pappl>>

Exit(status) == cli' = [cli EXCEPT !.cmd = "exit", !.exit = status]

SendEnd ==
  /\ cli.cmd = "send"
  /\ \/ u["cli"].pc = "failed" /\ GiveUp("cli") /\ Exit(3) /\ UNCHANGED claim
     \/ /\ u["cli"].pc = "open" /\ Close("cli", "rest")
        /\ Exit(IF Live("cli") THEN 0 ELSE 4)
  /\ UNCHANGED <<env, pappl, events>>

(* cmd_probe lists the printers, ...                                       *)
cmd_probe ==
  /\ cli.cmd = "none" /\ Happens
  /\ cli' = [NoCommand EXCEPT !.cmd = "list"]
  /\ \E call \in {Called([model |-> Any, serial |-> Any], FALSE), Refused} :
       u' = [u EXCEPT !["cli"] = call]
  /\ UNCHANGED <<env, claim, pappl>>

(* ... takes a list that failed for an empty one, ...                      *)
ProbeListed ==
  /\ cli.cmd = "list" /\ u["cli"].pc \in {"listed", "failed"}
  /\ cli' = [cli EXCEPT !.cmd = "query", !.snap = u["cli"].snap,
                        !.listed = {row[1] : row \in u["cli"].infos},
                        !.np = Cardinality(u["cli"].infos), !.rows = u["cli"].infos]
  /\ GiveUp("cli")
  /\ UNCHANGED <<env, claim, pappl, events>>

(* ... opens each printer as what it was listed, ...                       *)
query ==
  /\ cli.cmd = "query" /\ u["cli"].pc = "rest"
  /\ \E row \in cli.rows : /\ cli' = [cli EXCEPT !.rows = @ \ {row}]
                           /\ Begin("cli", row[2], TRUE)
  /\ UNCHANGED <<env, claim, pappl>>

Queried ==
  /\ cli.cmd = "query"
  /\ \/ u["cli"].pc = "failed" /\ GiveUp("cli") /\ UNCHANGED <<cli, claim>>
     \/ /\ u["cli"].pc = "open" /\ Close("cli", "rest")
        /\ cli' = [cli EXCEPT !.opened = @ + 1]
  /\ UNCHANGED <<env, pappl, events>>

(* Mutant: success takes every printer to open.                            *)
ProbeStatus_all ==
  IF cli.np = 0 THEN 1 ELSE IF cli.opened = cli.np THEN 0 ELSE 2

(* ... and tells by its exit status whether there is one that opens.       *)
ProbeStatus == IF cli.np = 0 THEN 1 ELSE IF cli.opened > 0 THEN 0 ELSE 2

ProbeEnd ==
  /\ cli.cmd = "query" /\ u["cli"].pc = "rest" /\ cli.rows = {}
  /\ Exit(ProbeStatus)
  /\ UNCHANGED <<env, claim, u, pappl, events>>

Leave ==
  /\ cli.cmd = "exit" /\ cli' = NoCommand
  /\ UNCHANGED <<env, claim, u, pappl, events>>

Command == SendEnd \/ ProbeListed \/ query \/ Queried \/ ProbeEnd \/ Leave

-----------------------------------------------------------------------------
(* The bus, the printers and the vendor's driver                           *)

Plug(d) ==
  /\ d \notin attached /\ attached' = attached \union {d} /\ Happens
  /\ UNCHANGED <<byte, claim, u, pappl, cli>>

(* What was opened or listed before stays dead when the printer comes back. *)
Unplug(d) ==
  /\ d \in attached /\ attached' = attached \ {d} /\ Happens
  /\ claim' = [claim EXCEPT ![d] = None]
  /\ u' = [c \in Clients |->
            IF d \in u[c].todo \union {u[c].h}
            THEN [u[c] EXCEPT !.gone = @ \union {d}] ELSE u[c]]
  /\ UNCHANGED <<byte, pappl, cli>>

Condition(d, b) ==
  /\ byte[d] # b /\ byte' = [byte EXCEPT ![d] = b] /\ Happens
  /\ UNCHANGED <<attached, claim, u, pappl, cli>>

VendorClaim(d) ==
  /\ d \in attached /\ claim[d] = None
  /\ claim' = [claim EXCEPT ![d] = "vendor"] /\ Happens
  /\ UNCHANGED <<env, u, pappl, cli>>

VendorRelease(d) ==
  /\ claim[d] = "vendor" /\ claim' = [claim EXCEPT ![d] = None]
  /\ UNCHANGED <<env, u, pappl, cli, events>>

-----------------------------------------------------------------------------
(* The printers a match names.                                             *)
Named(m) ==
  {d \in Printers : /\ m.model # Any => m.model = Ident[d].model
                    /\ m.serial # Any => m.serial = Ident[d].serial}

(* The printer the server's URI names, when it is there and free.          *)
Meant == attached \intersect Named(Uri)
Openable(owners) == \E d \in Meant : Meant = {d} /\ claim[d] \in owners

(* What a poll may report at this moment: the condition of the printer, or *)
(* that it cannot be opened.                                               *)
Truths ==
  {Status(byte[d]) : d \in Meant}
    \union IF Openable({None, "status"}) /\ inuse \in {None, "status"}
           THEN {} ELSE {{"offline"}}

(* A call of c failed although nothing was wrong with the printers.        *)
Fault(c) ==
  events' # events /\ u'[c] # u[c] /\ <<attached, cli.cmd = "none">>' = <<attached, cli.cmd = "none">>

History ==
  /\ seen' = IF u'["status"].pc = "rest" THEN {}
             ELSE seen \union Truths'
                    \union (IF Fault("status") THEN {{"offline"}, {"other"}} ELSE {})
                    \union (IF u'["status"].gone = {} THEN {} ELSE {{"other"}})
  /\ blocked' = IF cli'.cmd \notin {"list", "query", "exit"} THEN {}
                ELSE blocked
                  \union {d \in Printers : d \notin attached' \/ claim'[d] \notin {None, "cli"}}
                  \union (IF Fault("cli") THEN Printers ELSE {})

Steps ==
  \/ \E c \in Clients : Step(c)
  \/ JobStart \/ JobOpen \/ JobRetry \/ JobEnd
  \/ StatusPoll
  \/ cmd_probe \/ (\E m \in SendMatches : cmd_send(m)) \/ Command
  \/ \E d \in Printers : \/ Plug(d) \/ Unplug(d) \/ VendorClaim(d) \/ VendorRelease(d)
                         \/ \E b \in Bytes : Condition(d, b)

Next == Steps /\ History

(* The threads and processes run, PAPPL polls and retries, and the         *)
(* vendor's driver lets go of a printer.                                   *)
Spec ==
  /\ Init /\ [][Next]_vars
  /\ \A c \in Clients : WF_vars(Step(c) /\ History)
  /\ WF_vars((JobOpen \/ JobRetry \/ JobEnd) /\ History)
  /\ WF_vars(StatusPoll /\ History)
  /\ WF_vars(Command /\ History)
  /\ \A d \in Printers : WF_vars(VendorRelease(d) /\ History)

-----------------------------------------------------------------------------
(* The type invariant.                                                     *)
TypeOK ==
  /\ attached \subseteq Printers
  /\ claim \in [Printers -> Clients \union {None, "vendor"}]
  /\ \A c \in Clients : /\ u[c].ctx \in {0, 1} /\ u[c].count \in 0 .. Cardinality(Printers)
                        /\ u[c].gone \union u[c].todo \subseteq u[c].snap
  /\ inuse \in {None, "job", "status"} /\ reasons \subseteq {"media-empty", "offline", "other"}
  /\ cli.np \in 0 .. MaxDevices /\ cli.exit \in 0 .. 4

(***************************************************************************)
(* Every way out of usb.c gives everything back: a client that is not in a *)
(* call has no context, no handle and no claim, whatever failed, and one   *)
(* with a session has one of each.  PAPPL's device is given back too.      *)
(***************************************************************************)
NothingLeaks ==
  /\ \A c \in Clients :
       LET held == IF u[c].h = None THEN 0 ELSE 1
       IN  /\ u[c].handles = held
           /\ u[c].pc \in {"rest", "failed", "listed"} =>
                u[c].ctx = 0 /\ held = 0 /\ \A d \in Printers : claim[d] # c
  /\ \A d \in Printers : claim[d] \in Clients => u[claim[d]].h = d
  /\ inuse = "status" => u["status"].pc \notin {"rest", "asked", "closed"}

(***************************************************************************)
(* "The device is identified by VID/PID/serial, never by enumeration       *)
(* order": a session is with a printer that has the model and the serial   *)
(* number that were asked for, and no other printer on the bus at the time *)
(* of the call had them, unless the bus did not tell its descriptors.      *)
(***************************************************************************)
RightPrinter ==
  \A c \in Clients :
    u[c].pc \in {"claimed", "open"} =>
      Named(u[c].match) \intersect ((u[c].snap \ u[c].gone) \union {u[c].h}) = {u[c].h}

(***************************************************************************)
(* A status poll reports one moment of its printer, not a mixture: what it *)
(* sets is what the status byte said, or that the printer could not be     *)
(* opened, at some moment since PAPPL asked, also when a job, another      *)
(* program or the cable came in between.                                   *)
(***************************************************************************)
StatusTrue ==
  [][u["status"].pc # "rest" /\ u'["status"].pc = "rest" => reasons' \in seen]_vars

(***************************************************************************)
(* The exit status of probe: 2 only when every printer it had found was    *)
(* not there or not free at some moment of the probe, 1 only when the bus  *)
(* had none, unless the bus itself failed.                                 *)
(***************************************************************************)
ProbeSound ==
  cli.cmd = "exit" => /\ cli.exit = 2 => cli.listed \subseteq blocked
                      /\ cli.exit = 1 => cli.snap \subseteq blocked

(***************************************************************************)
(* The reasons catch up with the printer: once the bus is quiet and no job *)
(* waits, they say what its status byte says, or that it cannot be opened. *)
(***************************************************************************)
StatusCatchesUp ==
  <>[](job = "waiting" \/ reasons = IF Openable(Clients \union {None})
                                   THEN Status(byte[CHOOSE d \in Meant : TRUE])
                                   ELSE {"offline"})

(***************************************************************************)
(* A job that waits for the printer gets it, without a restart, when the   *)
(* printer stays on the bus: no poll and no failed open keeps it away.     *)
(***************************************************************************)
JobGetsThrough ==
  <>[]Openable(Clients \union {None}) => []<>(job # "waiting")
=============================================================================
