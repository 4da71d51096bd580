------------------------------- MODULE Service -------------------------------
(***************************************************************************)
(* The macOS service adapter, src/service/service.c with the commands of   *)
(* src/cli/cmd_service.c: install, uninstall, remove-vendor-driver, start, *)
(* stop and restart.                                                       *)
(*                                                                         *)
(* A command inspects the Mac, builds a plan from what it found and runs   *)
(* the plan step by step; a step that fails ends the command unless its    *)
(* failure is ignored.  The command can also be killed (a reboot, control  *)
(* C), between two steps or inside one, and be run again later.  Meanwhile *)
(* the printer is unplugged and plugged in, at which macOS re-creates the  *)
(* vendor's queue as long as the vendor's driver is installed, and the     *)
(* process of the service dies and is started again by launchd, unless     *)
(* another program has taken its port.                                     *)
(***************************************************************************)
EXTENDS Integers, Sequences

CONSTANTS
  DefaultPort,   \* M2022_SERVICE_PORT
  Ports,         \* the ports given to install
  Others,        \* the ports another program, which is no printer, takes
  Purges,        \* the values of --purge that are used
  Kills,         \* whether commands are killed
  OwnQueues,     \* whether the user adds a queue through System Settings
  VendorStarts   \* what the vendor left on the Mac before the first command

ASSUME ServiceAssumption ==
  /\ DefaultPort \in Nat \ {0} /\ Ports \subseteq Nat \ {0}
  /\ Others \subseteq Nat \ {0}
  /\ Purges \subseteq BOOLEAN /\ Kills \in BOOLEAN /\ OwnQueues \in BOOLEAN
  /\ VendorStarts \subseteq [queue : BOOLEAN, ppd : BOOLEAN,
                             driver : {"whole", "none"}]

VARIABLES
  m,      \* the Mac: what the commands create, remove and look at
  usb,    \* the printer is on the bus
  serving,  \* the port the service's process answers on, 0 if it does not
  other,    \* the port the other program listens on, 0 if it does not
  run,    \* the command that is running and the rest of its plan
  owed    \* history: install removed the vendor's queue, it is not back yet

vars == <<m, usb, serving, other, run, owed>>

(***************************************************************************)
(* The Mac.  `user` counts the dscl calls: the record, its UniqueID (from  *)
(* then on getpwnam finds it), and the five other attributes.  `plist`,    *)
(* `loaded` and `queue` hold the port they name, 0 when there is none:     *)
(* the launchd job on disk, the one launchd has loaded, the queue the      *)
(* installer adds; a job file that was cut short while it was written is   *)
(* Broken.                                                                 *)
(* `own` is a queue the user added.  `driver` and `tar` are the vendor's   *)
(* driver directory and the archive of it.                                 *)
(***************************************************************************)
Broken == -1

Machines ==
  [group : BOOLEAN, user : {"none", "record", "uid", "full"},
   support : BOOLEAN, binary : BOOLEAN, plist : Nat \cup {Broken},
   newsyslog : BOOLEAN, loaded : Nat, queue : Nat, own : BOOLEAN,
   marker : BOOLEAN, vendor_queue : BOOLEAN, vendor_ppd : BOOLEAN,
   driver : {"whole", "part", "none"}, backup_ppd : BOOLEAN,
   backup_uri : BOOLEAN, tar : {"whole", "part", "none"}]

Fresh(v) ==
  [group |-> FALSE, user |-> "none", support |-> FALSE, binary |-> FALSE,
   plist |-> 0, newsyslog |-> FALSE, loaded |-> 0, queue |-> 0, own |-> FALSE,
   marker |-> FALSE, vendor_queue |-> v.queue, vendor_ppd |-> v.ppd,
   driver |-> v.driver, backup_ppd |-> FALSE, backup_uri |-> FALSE,
   tar |-> "none"]

(* A command: its options, the steps it has left, and what happened during *)
(* it so far: the probe succeeded, a failure was ignored; and for install, *)
(* macOS put the vendor's queue back, and since the wait for the service   *)
(* its process or the other program ended.                                 *)
Idle == [cmd |-> "none", port |-> 0, keep_vendor |-> FALSE, purge |-> FALSE,
         plan |-> << >>, probed |-> FALSE, lax |-> FALSE, replug |-> FALSE,
         upset |-> FALSE]

Init ==
  /\ \E v \in VendorStarts : m = Fresh(v)
  /\ usb = TRUE /\ serving = 0 /\ other = 0 /\ run = Idle /\ owed = FALSE

-----------------------------------------------------------------------------
(***************************************************************************)
(* m2022_service_inspect.  A queue is ours when its URI names the service  *)
(* on the default port or the DNS-SD name; of several, the one that CUPS   *)
(* lists last is taken, which is the parameter `last`.                     *)
(***************************************************************************)
OurQueues(s) == (IF s.queue = DefaultPort THEN {"installer"} ELSE {}) \cup
                (IF s.own THEN {"own"} ELSE {})

inspect(s, last) ==
  [user_exists |-> s.user \in {"uid", "full"}, binary_installed |-> s.binary,
   plist_exists |-> s.plist # 0,
   loaded |-> s.loaded # 0, running |-> serving # 0,
   vendor_queue |-> s.vendor_queue, vendor_ppd |-> s.vendor_ppd,
   vendor_driver |-> s.driver # "none", our_queue |-> OurQueues(s) # {},
   our_queue_name |-> last, backup_exists |-> s.backup_ppd,
   queue_marker |-> s.marker, usb_printer |-> usb]

(* Steps: what is run, on which object, and whether a failure is ignored.  *)
Do(what) == [do |-> what, on |-> "none", ignore_failure |-> FALSE]
Try(what, on) == [do |-> what, on |-> on, ignore_failure |-> TRUE]
When(c, steps) == IF c THEN steps ELSE << >>

(* Mutants of the parts of the plans: the service is not stopped first;    *)
(* the PPD is not backed up; the option is taken the wrong way round; the  *)
(* marker stands for the queue; only an install that added a queue is      *)
(* undone.                                                                 *)
stop_omitted(info) == << >>
take_over_unbacked(info, keep_vendor) ==
  When(info.vendor_queue /\ ~keep_vendor,
       <<Try("back-up-uri", "none"), Do("remove-vendor-queue")>>)
take_over_reversed(info, keep_vendor) ==
  When(info.vendor_queue /\ keep_vendor,
       When(info.vendor_ppd, <<Do("back-up-ppd")>>)
       \o <<Try("back-up-uri", "none"), Do("remove-vendor-queue")>>)
add_queue_by_marker(info) ==
  When(~info.queue_marker, <<Do("add-queue"), Do("write-marker")>>)
restore_by_marker(info) ==
  When(info.queue_marker /\ info.backup_exists /\ ~info.vendor_queue,
       <<Try("restore-vendor-queue", "none")>>)

(* Both plans begin by stopping a service that runs.                       *)
stop(info) == When(info.loaded, <<Try("bootout", "none")>>)

(* install takes the printer over from the vendor's queue ...              *)
take_over(info, keep_vendor) ==
  When(info.vendor_queue /\ ~keep_vendor,
       When(info.vendor_ppd, <<Do("back-up-ppd")>>)
       \o <<Try("back-up-uri", "none"), Do("remove-vendor-queue")>>)

(* ... and adds a queue of its own unless there is one.                    *)
add_queue(info) ==
  When(~info.our_queue, <<Do("add-queue"), Do("write-marker")>>)

(* uninstall gives the vendor its queue back.                              *)
restore(info) ==
  When(info.backup_exists /\ ~info.vendor_queue,
       <<Try("restore-vendor-queue", "none")>>)

(* m2022_service_install_plan; calls in a row that no property tells apart *)
(* are one step (the group's attributes, the directories and the log, the  *)
(* URI and the options of the queue).                                      *)
install_plan(info, keep_vendor) ==
  stop(info)
  \o When(~info.user_exists, <<Do("create-group"), Do("create-user"),
                               Do("user-id"), Do("user-attributes")>>)
  \o <<Do("make-directories"), Do("copy-binary"), Do("probe")>>
  \o take_over(info, keep_vendor)
  \o <<Do("write-plist"), Do("write-newsyslog"), Do("bootstrap"),
       Do("wait-ipp")>>
  \o add_queue(info)

(* m2022_service_uninstall_plan                                            *)
uninstall_plan(info, purge) ==
  stop(info)
  \o <<Do("remove-plist"), Do("remove-newsyslog")>>
  \o When(info.queue_marker /\ info.our_queue,
          <<Try("remove-queue", info.our_queue_name), Do("remove-marker")>>)
  \o restore(info)
  \o <<Do("remove-binary")>>
  \o When(purge,
          <<Do("remove-support")>>
          \o When(info.user_exists, <<Do("delete-user"),
                                      Try("delete-group", "none")>>))

(* m2022_service_remove_vendor_plan                                        *)
remove_vendor_plan(info) ==
  <<Do("make-directories"), Do("archive-driver")>>
  \o When(info.vendor_queue, <<Try("remove-vendor-queue", "none")>>)
  \o <<Do("delete-driver")>>

-----------------------------------------------------------------------------
(* The steps that m2022_service_execute does itself, on files; the others  *)
(* are commands that it runs.                                              *)
FileSteps ==
  {"make-directories", "copy-binary", "back-up-ppd", "write-plist",
   "write-newsyslog", "write-marker", "remove-plist", "remove-newsyslog",
   "remove-marker", "remove-binary"}

(* ipp_port_open: whoever listens on the port takes the connection.        *)
ipp_port_open(port) == serving = port \/ other = port

(* What a command needs to succeed.  With -m everywhere lpadmin asks the   *)
(* printer what it can do.                                                 *)
command_can(s, port, step) ==
  CASE step.do = "probe" -> usb /\ s.binary /\ s.user \in {"uid", "full"}
    [] step.do = "remove-vendor-queue" -> s.vendor_queue
    [] step.do = "restore-vendor-queue" ->
         s.backup_ppd /\ s.backup_uri /\ s.driver = "whole"
    [] step.do = "bootstrap" -> s.plist \notin {0, Broken} /\ s.loaded = 0
    [] step.do = "add-queue" -> serving = port
    [] step.do = "bootout" -> s.loaded # 0
    [] step.do = "archive-driver" -> s.driver # "none"
    [] OTHER -> TRUE

(* What a step needs to succeed: a copy its source, the wait a listener.   *)
can(s, port, step) ==
  CASE step.do = "back-up-ppd" -> s.vendor_ppd
    [] step.do = "wait-ipp" -> ipp_port_open(port)
    [] OTHER -> command_can(s, port, step)

(* What the steps on files do to the Mac.                                  *)
file_effect(s, port, step) ==
  CASE step.do = "make-directories" -> [s EXCEPT !.support = TRUE]
    [] step.do = "copy-binary" -> [s EXCEPT !.binary = TRUE]
    [] step.do = "back-up-ppd" -> [s EXCEPT !.backup_ppd = TRUE]
    [] step.do = "write-plist" -> [s EXCEPT !.plist = port]
    [] step.do = "write-newsyslog" -> [s EXCEPT !.newsyslog = TRUE]
    [] step.do = "write-marker" -> [s EXCEPT !.marker = TRUE]
    [] step.do = "remove-plist" -> [s EXCEPT !.plist = 0]
    [] step.do = "remove-newsyslog" -> [s EXCEPT !.newsyslog = FALSE]
    [] step.do = "remove-marker" -> [s EXCEPT !.marker = FALSE]
    [] step.do = "remove-binary" -> [s EXCEPT !.binary = FALSE]

(* What the commands do (launchctl, dscl, lpadmin, sh, rm and tar, run     *)
(* with the arguments in the plans).  The pipe that saves the URI succeeds *)
(* even when lpstat finds no queue, and leaves an empty file.              *)
command_effect(s, port, step) ==
  CASE step.do = "bootout" -> [s EXCEPT !.loaded = 0]
    [] step.do = "create-group" -> [s EXCEPT !.group = TRUE]
    [] step.do = "create-user" -> [s EXCEPT !.user = "record"]
    [] step.do = "user-id" -> [s EXCEPT !.user = "uid"]
    [] step.do = "user-attributes" -> [s EXCEPT !.user = "full"]
    [] step.do = "back-up-uri" -> [s EXCEPT !.backup_uri = s.vendor_queue]
    [] step.do = "remove-vendor-queue" ->
         [s EXCEPT !.vendor_queue = FALSE, !.vendor_ppd = FALSE]
    [] step.do = "bootstrap" -> [s EXCEPT !.loaded = s.plist]
    [] step.do = "add-queue" -> [s EXCEPT !.queue = port]
    [] step.do = "remove-queue" /\ step.on = "installer" ->
         [s EXCEPT !.queue = 0]
    [] step.do = "remove-queue" /\ step.on = "own" -> [s EXCEPT !.own = FALSE]
    [] step.do = "restore-vendor-queue" ->
         [s EXCEPT !.vendor_queue = TRUE, !.vendor_ppd = TRUE]
    [] step.do = "remove-support" ->
         [s EXCEPT !.support = FALSE, !.marker = FALSE, !.backup_ppd = FALSE,
                   !.backup_uri = FALSE, !.tar = "none"]
    [] step.do = "delete-user" -> [s EXCEPT !.user = "none"]
    [] step.do = "delete-group" -> [s EXCEPT !.group = FALSE]
    [] step.do = "archive-driver" -> [s EXCEPT !.tar = s.driver]
    [] step.do = "delete-driver" -> [s EXCEPT !.driver = "none"]
    [] OTHER -> s

effect(s, port, step) ==
  IF step.do \in FileSteps THEN file_effect(s, port, step)
                           ELSE command_effect(s, port, step)

(* What a step that fails or is killed half-way may leave.  Of the steps   *)
(* on files: the copies go through a temporary name and a rename, and a    *)
(* file that is written is opened first, which empties it.                 *)
file_half(s, step) ==
  CASE step.do = "make-directories" -> {[s EXCEPT !.support = TRUE]}
    [] step.do = "write-plist" -> {[s EXCEPT !.plist = Broken]}
    [] step.do = "write-newsyslog" -> {[s EXCEPT !.newsyslog = TRUE]}
    [] step.do = "write-marker" -> {[s EXCEPT !.marker = TRUE]}
    [] OTHER -> {}

(* Of the commands: the redirection of the URI has emptied its file, tar   *)
(* has overwritten the archive, rm -rf has removed some of the files.      *)
command_half(s, step) ==
  CASE step.do = "back-up-uri" -> {[s EXCEPT !.backup_uri = FALSE]}
    [] step.do = "remove-support" ->
         {[s EXCEPT !.marker = @ /\ "marker" \in kept,
                    !.backup_ppd = @ /\ "ppd" \in kept,
                    !.backup_uri = @ /\ "uri" \in kept,
                    !.tar = IF "tar" \in kept THEN @ ELSE "none"] :
            kept \in SUBSET {"marker", "ppd", "uri", "tar"}}
    [] step.do = "archive-driver" /\ s.driver # "none" ->
         {[s EXCEPT !.tar = "part"]}
    [] step.do = "delete-driver" /\ s.driver # "none" ->
         {[s EXCEPT !.driver = "part"]}
    [] OTHER -> {}

half(s, step) == {s} \cup file_half(s, step) \cup command_half(s, step)

(* The vendor's queue is owed once install took it away, until it is back  *)
(* or the user has the backups deleted.                                    *)
Owes(step, s, t) ==
  IF s.vendor_queue /\ ~t.vendor_queue THEN run.cmd = "install"
  ELSE owed /\ ~t.vendor_queue /\ step.do # "remove-support"

-----------------------------------------------------------------------------
(* The commands: refused, or a plan to run.                                *)
Begin(command) ==
  /\ run.cmd = "none"
  /\ run' = command
  /\ UNCHANGED <<m, usb, serving, other, owed>>

Looks == {inspect(m, q) : q \in IF OurQueues(m) = {} THEN {"none"}
                                ELSE OurQueues(m)}

cmd_install(port, keep_vendor) ==
  /\ usb
  /\ \E info \in Looks :
       Begin([Idle EXCEPT !.cmd = "install", !.port = port,
                          !.keep_vendor = keep_vendor,
                          !.plan = install_plan(info, keep_vendor)])

cmd_uninstall(purge) ==
  \E info \in Looks :
    /\ info.plist_exists \/ info.binary_installed \/ info.user_exists
    /\ Begin([Idle EXCEPT !.cmd = "uninstall", !.purge = purge,
                          !.plan = uninstall_plan(info, purge)])

cmd_remove_vendor ==
  \E info \in Looks :
    /\ info.vendor_driver
    /\ Begin([Idle EXCEPT !.cmd = "remove-vendor-driver",
                          !.plan = remove_vendor_plan(info)])

(* The process ends with the job that launchd has loaded.                  *)
ProcessFollows == serving' = IF m'.loaded = 0 THEN 0 ELSE serving

(* start and restart load the job that is on disk unless it is loaded (one *)
(* that is cut short cannot be); a loaded one is kicked, with the port it  *)
(* was loaded with, and restart has its process killed first.              *)
cmd_service(verb) ==
  /\ run.cmd = "none"
  /\ m.plist # 0
  /\ m' = [m EXCEPT !.loaded = IF verb = "stop" THEN 0
                               ELSE IF m.loaded # 0 \/ m.plist = Broken
                               THEN @ ELSE m.plist]
  /\ serving' = IF verb = "start" THEN serving ELSE 0
  /\ UNCHANGED <<usb, other, run, owed>>

(* m2022_service_execute, one turn: the step is done ...                   *)
StepDone ==
  LET step == Head(run.plan)
      t == effect(m, run.port, step)
  IN  /\ run.plan # << >>
      /\ can(m, run.port, step)
      /\ m' = t /\ ProcessFollows
      /\ owed' = Owes(step, m, t)
      /\ run' = [run EXCEPT !.plan = Tail(@),
                            !.probed = @ \/ step.do = "probe"]
      /\ UNCHANGED <<usb, other>>

(* ... or it fails, which ends the command or is ignored ...               *)
StepFails ==
  LET step == Head(run.plan)
  IN  /\ run.plan # << >>
      /\ m' \in half(m, step)
      /\ owed' = Owes(step, m, m')
      /\ run' = IF step.ignore_failure
                THEN [run EXCEPT !.plan = Tail(@), !.lax = TRUE]
                ELSE Idle
      /\ UNCHANGED <<usb, serving, other>>

(* ... or the plan is finished.                                            *)
Finish ==
  /\ run.cmd # "none" /\ run.plan = << >>
  /\ run' = Idle
  /\ UNCHANGED <<m, usb, serving, other, owed>>

(* The command is killed, before a step or inside it.                      *)
Killed ==
  /\ Kills /\ run.plan # << >>
  /\ m' \in half(m, Head(run.plan))
  /\ owed' = Owes(Head(run.plan), m, m')
  /\ run' = Idle
  /\ UNCHANGED <<usb, serving, other>>

(* launchd starts the process of the job that it has loaded, and again     *)
(* five seconds after it ended (RunAtLoad and KeepAlive, m2022_service_    *)
(* plist): it answers unless there is nothing to run, nobody to run it as, *)
(* or another program has the port, when it ends at once.                  *)
ServiceStarts ==
  /\ m.loaded # 0 /\ serving = 0
  /\ m.binary /\ m.user \in {"uid", "full"} /\ m.loaded # other
  /\ serving' = m.loaded
  /\ UNCHANGED <<m, usb, other, run, owed>>

(* What ends once install has waited for the service is noted.             *)
Waited ==
  /\ run.cmd = "install"
  /\ \A i \in 1..Len(run.plan) : run.plan[i].do # "wait-ipp"

Upset == run' = IF Waited THEN [run EXCEPT !.upset = TRUE] ELSE run

ServiceDies ==
  /\ serving # 0 /\ serving' = 0
  /\ Upset
  /\ UNCHANGED <<m, usb, other, owed>>

(* The other program takes a port that is free, and ends.                  *)
OtherListens ==
  /\ other = 0 /\ other' \in Others \ {serving}
  /\ UNCHANGED <<m, usb, serving, run, owed>>

OtherEnds ==
  /\ other # 0 /\ other' = 0
  /\ Upset
  /\ UNCHANGED <<m, usb, serving, owed>>

Unplug == usb /\ usb' = FALSE /\ UNCHANGED <<m, serving, other, run, owed>>

(* macOS adds the vendor's queue when the printer appears.                 *)
Plug ==
  /\ ~usb
  /\ usb' = TRUE
  /\ m' = IF m.driver = "whole"
          THEN [m EXCEPT !.vendor_queue = TRUE, !.vendor_ppd = TRUE] ELSE m
  /\ owed' = (owed /\ ~m'.vendor_queue)
  /\ run' = IF run.cmd = "install" /\ ~m.vendor_queue /\ m'.vendor_queue
            THEN [run EXCEPT !.replug = TRUE] ELSE run
  /\ UNCHANGED <<serving, other>>

(* The user adds a queue for the printer that the running service shows.   *)
AddOwnQueue ==
  /\ OwnQueues /\ run.cmd = "none" /\ serving # 0 /\ ~m.own
  /\ m' = [m EXCEPT !.own = TRUE]
  /\ UNCHANGED <<usb, serving, other, run, owed>>

(***************************************************************************)
(* What IPP says on a port: the service answers with the state of the      *)
(* printer (3 idle, 4 processing, 5 stopped) and with its reasons, which   *)
(* may say that the printer is offline; a program that is no printer, or   *)
(* nobody, does not answer.                                                *)
(***************************************************************************)
NoReply == [answers |-> FALSE, state |-> 0, offline |-> FALSE]
Replies(port) ==
  IF serving = port THEN [answers : {TRUE}, state : 3..5, offline : BOOLEAN]
                    ELSE {NoReply}

(***************************************************************************)
(* cmd_doctor: the checks that fail and those that warn.  Bonjour shows    *)
(* the port of the process that runs.                                      *)
(***************************************************************************)
doctor(info, port, ipp) ==
  [fails |->
     {c \in {"binary", "service-user", "launchd-job", "usb-printer",
             "bonjour", "ipp"} :
        CASE c = "binary" -> ~info.binary_installed
          [] c = "service-user" -> ~info.user_exists
          [] c = "launchd-job" ->
               ~info.plist_exists \/ ~info.loaded \/ ~info.running
          [] c = "usb-printer" -> ~info.usb_printer
          [] c = "bonjour" -> serving = 0
          [] c = "ipp" -> ~ipp.answers},
   warns |->
     {c \in {"bonjour", "ipp", "cups-queue", "vendor-queue"} :
        CASE c = "bonjour" -> serving \notin {0, port}
          [] c = "ipp" -> ipp.answers /\ ipp.offline
          [] c = "cups-queue" -> ~info.our_queue
          [] c = "vendor-queue" -> info.vendor_queue}]

(* cmd_status exits 0 when the service runs, answers on the port and the   *)
(* printer is not stopped.                                                 *)
status(info, ipp) == info.running /\ ipp.answers /\ ipp.state # 5

Next ==
  \/ \E port \in Ports, keep_vendor \in BOOLEAN : cmd_install(port, keep_vendor)
  \/ \E purge \in Purges : cmd_uninstall(purge)
  \/ cmd_remove_vendor
  \/ \E verb \in {"start", "stop", "restart"} : cmd_service(verb)
  \/ StepDone \/ StepFails \/ Finish \/ Killed
  \/ ServiceStarts \/ ServiceDies \/ OtherListens \/ OtherEnds
  \/ Unplug \/ Plug \/ AddOwnQueue

Spec == Init /\ [][Next]_vars

-----------------------------------------------------------------------------
(* The type invariant.  What launchd runs is never a job file that was cut *)
(* short, and the process is that of the job that is loaded.               *)
TypeOK ==
  /\ m \in Machines /\ usb \in BOOLEAN /\ owed \in BOOLEAN
  /\ serving \in {0, m.loaded}
  /\ other \in Others \cup {0}
  /\ run.cmd \in {"none", "install", "uninstall", "remove-vendor-driver"}
  /\ run.port \in Ports \cup {0}
  /\ run.keep_vendor \in BOOLEAN /\ run.purge \in BOOLEAN
  /\ run.probed \in BOOLEAN /\ run.lax \in BOOLEAN
  /\ run.replug \in BOOLEAN /\ run.upset \in BOOLEAN

(* A command that got to the end of its plan.                              *)
Done(cmd) == run.cmd = cmd /\ run.plan = << >>

(***************************************************************************)
(* "the installer proves it before touching anything else by running probe *)
(* as the service user" (docs/macos-service.md) and backs the queue up:    *)
(* install removes the vendor's queue only after the service user opened   *)
(* the printer in the same run and, when the queue has a PPD, with its     *)
(* backup on disk, whatever earlier runs left behind.                      *)
(***************************************************************************)
VendorQueueIsBackedUp ==
  [][run.cmd = "install" /\ m.vendor_queue /\ ~m'.vendor_queue
       => run.probed /\ (m.vendor_ppd => m.backup_ppd)]_vars

(***************************************************************************)
(* One owner of the USB device (ADR-006): an install that ends well has    *)
(* removed the vendor's queue, unless it was asked to keep it or macOS put *)
(* it back because the printer was plugged in again meanwhile.             *)
(***************************************************************************)
SingleOwner ==
  Done("install") /\ ~run.keep_vendor /\ ~run.replug => ~m.vendor_queue

(***************************************************************************)
(* "wait until IPP answers on localhost:8000" (docs/macos-service.md):     *)
(* when install ends well the service answers, unless its process, or a    *)
(* program that had the port, ended after that wait.                       *)
(***************************************************************************)
ServiceAnswers == Done("install") => serving = run.port \/ run.upset

(***************************************************************************)
(* "plan runs through, `doctor` clean" (docs/macos-service.md): after an   *)
(* install that ends well the service answers, unless its process ended    *)
(* after the wait or another program had the port; doctor finds nothing    *)
(* wrong but that, or that the printer was unplugged, status exits 0 while *)
(* the process lives and the printer is not stopped, and launchd runs the  *)
(* job that is on disk, whatever earlier failed or killed commands left.   *)
(***************************************************************************)
InstallWorks ==
  /\ other = 0 => ServiceAnswers
  /\ Done("install") =>
       \A info \in Looks, ipp \in Replies(run.port) :
         LET found == doctor(info, run.port, ipp)
             gone == (IF usb THEN {} ELSE {"usb-printer"})
                     \cup IF serving # 0 THEN {}
                          ELSE {"launchd-job", "bonjour", "ipp"}
         IN  /\ found.fails \subseteq gone
             /\ found.warns \subseteq {"ipp", "vendor-queue"}
             /\ serving # 0 /\ ipp.state # 5 => status(info, ipp)
             /\ m.plist = m.loaded /\ m.support

(***************************************************************************)
(* An uninstall none of whose steps failed leaves no job, no binary and    *)
(* nothing running, whatever it started from; with --purge, no service     *)
(* user that getpwnam finds and no support directory either.               *)
(***************************************************************************)
UninstallClears ==
  Done("uninstall") /\ ~run.lax =>
    /\ m.plist = 0 /\ m.loaded = 0 /\ serving = 0
    /\ ~m.binary /\ ~m.newsyslog
    /\ run.purge => ~m.support /\ m.user \notin {"uid", "full"}

(***************************************************************************)
(* "Uninstall restores it" (SPEC.md, One owner of the USB device): after   *)
(* an uninstall none of whose steps failed, the vendor's queue that        *)
(* install removed is back, as long as its driver is installed.            *)
(***************************************************************************)
VendorQueueRestored ==
  Done("uninstall") /\ ~run.lax /\ m.driver = "whole" => ~owed

(***************************************************************************)
(* "a queue you added yourself is left alone" (docs/macos-service.md): no  *)
(* step of any command removes it.                                         *)
(***************************************************************************)
OwnQueueLeftAlone == [][m.own => m'.own]_vars

(***************************************************************************)
(* "add a driverless CUPS queue unless a queue already points at the       *)
(* printer": after install, a queue of this Mac reaches the service.       *)
(***************************************************************************)
QueueReachesService ==
  Done("install") => m.own \/ m.queue = m.loaded

(***************************************************************************)
(* "tar xzf backup/vendor-driver.tar.gz puts the driver back": once some   *)
(* of the driver's files are gone, the archive has them all.               *)
(***************************************************************************)
DriverCanBePutBack == m.driver # "whole" => m.tar = "whole"
=============================================================================
