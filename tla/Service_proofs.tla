--------------------------- MODULE Service_proofs ---------------------------
(***************************************************************************)
(* Proofs about the service adapter, for every port, every Mac to start    *)
(* from and every sequence of commands, failures, kills and replugs.       *)
(*                                                                         *)
(* A command is correct because of what its plan still holds: each thing   *)
(* that it has to bring about is so already or a step that is left brings  *)
(* it about, and the steps that undo something (bootout, create user, the  *)
(* removal of the vendor's queue) come before or after the steps that make *)
(* up for it.  That is the inductive invariant; it holds of the plan that  *)
(* a command builds, and every step that is done, fails or is ignored      *)
(* passes it on to the rest of the plan.                                   *)
(***************************************************************************)
EXTENDS Service, SequenceTheorems, TLAPS
(***************************************************************************)
(* What a plan is made of: the steps whose failure ends the command and    *)
(* those whose failure is ignored.                                         *)
(***************************************************************************)
Steps(names, tried) ==
  [do : names, on : {"none"}, ignore_failure : {FALSE}]
  \cup [do : tried, on : {"none", "installer", "own"}, ignore_failure : {TRUE}]

InstallNames ==
  {"create-group", "create-user", "user-id", "user-attributes",
   "make-directories", "copy-binary", "probe", "back-up-ppd",
   "remove-vendor-queue", "write-plist", "write-newsyslog", "bootstrap",
   "wait-ipp", "add-queue", "write-marker"}
InstallTried == {"bootout", "back-up-uri"}
InstallSteps == Steps(InstallNames, InstallTried)

UninstallNames ==
  {"remove-plist", "remove-newsyslog", "remove-marker", "remove-binary",
   "remove-support", "delete-user"}
UninstallTried ==
  {"bootout", "remove-queue", "restore-vendor-queue", "delete-group"}
UninstallSteps == Steps(UninstallNames, UninstallTried)

RemoveNames == {"make-directories", "archive-driver", "delete-driver"}
RemoveTried == {"remove-vendor-queue"}
RemoveSteps == Steps(RemoveNames, RemoveTried)

AnySteps == InstallSteps \cup UninstallSteps \cup RemoveSteps

(***************************************************************************)
(* What is known of the steps that are left: that one of them is x; that   *)
(* an a comes before every b; that a b comes after every a; that they are  *)
(* among those named.                                                      *)
(***************************************************************************)
Has(plan, x) == \E i \in 1..Len(plan) : plan[i].do = x
Preceded(plan, a, b) ==
  \A i \in 1..Len(plan) :
    plan[i].do = b => \E j \in 1..Len(plan) : j < i /\ plan[j].do = a
Followed(plan, a, b) ==
  \A i \in 1..Len(plan) :
    plan[i].do = a => \E j \in 1..Len(plan) : i < j /\ plan[j].do = b
Only(plan, names) == \A i \in 1..Len(plan) : plan[i].do \in names

(***************************************************************************)
(* Two facts about the Mac and the commands that theorems take as          *)
(* hypotheses: a queue that the vendor's driver has made has a PPD, and    *)
(* install is not given another port.                                      *)
(***************************************************************************)
QueueHasPpd == \A v \in VendorStarts : v.queue => v.ppd
OnePort == Ports \subseteq {DefaultPort}

(***************************************************************************)
(* The inductive invariant.                                                *)
(***************************************************************************)
Runs ==
  [cmd : {"none", "install", "uninstall", "remove-vendor-driver"},
   port : Nat, keep_vendor : BOOLEAN, purge : BOOLEAN,
   plan : Seq(AnySteps),
   probed : BOOLEAN, lax : BOOLEAN, replug : BOOLEAN, upset : BOOLEAN]

(* A command's plan is made of its own steps.                              *)
Types ==
  /\ m \in Machines /\ usb \in BOOLEAN /\ owed \in BOOLEAN
  /\ serving \in {0, m.loaded} /\ other \in Others \cup {0}
  /\ run \in Runs
  /\ run.cmd = "none" => run.plan = << >>
  /\ run.cmd # "install" => run.port = 0
  /\ run.cmd = "install" =>
       run.port \in Ports /\ run.plan \in Seq(InstallSteps)
  /\ run.cmd = "uninstall" => run.plan \in Seq(UninstallSteps)
  /\ run.cmd = "remove-vendor-driver" => run.plan \in Seq(RemoveSteps)

(* What install takes away is backed up, before it is taken away and as    *)
(* long as it is owed.                                                     *)
Backed ==
  QueueHasPpd =>
    /\ m.vendor_queue => m.vendor_ppd
    /\ owed => m.backup_ppd /\ ~m.vendor_queue
    /\ run.cmd = "install" =>
         \/ m.backup_ppd
         \/ Preceded(run.plan, "back-up-ppd", "remove-vendor-queue")

(* The probe comes before the vendor's queue is taken, and it is taken.    *)
Takes ==
  run.cmd = "install" =>
    /\ run.probed \/ Preceded(run.plan, "probe", "remove-vendor-queue")
    /\ ~run.keep_vendor /\ ~run.replug /\ m.vendor_queue =>
         Has(run.plan, "remove-vendor-queue")

(* What doctor looks for is there or is still to be made.  The service may *)
(* be stopped, and the user's record made anew, only before the step that  *)
(* completes it; the job is written before it is loaded, and loaded before *)
(* the wait.                                                               *)
Builds ==
  run.cmd = "install" =>
    /\ m.binary \/ Has(run.plan, "copy-binary")
    /\ m.support \/ Has(run.plan, "make-directories")
    /\ m.plist = run.port \/ Has(run.plan, "write-plist")
    /\ m.plist = run.port \/ Preceded(run.plan, "write-plist", "bootstrap")
    /\ m.user \in {"uid", "full"} \/ Has(run.plan, "user-attributes")
    /\ Followed(run.plan, "create-user", "user-attributes")
    /\ m.loaded = run.port \/ Has(run.plan, "bootstrap")
    /\ Followed(run.plan, "bootout", "bootstrap")
    /\ \/ serving = run.port \/ run.upset \/ other # 0
       \/ Has(run.plan, "wait-ipp")
    /\ Followed(run.plan, "bootout", "wait-ipp")
    /\ Followed(run.plan, "bootstrap", "wait-ipp")
    /\ OnePort => m.queue = DefaultPort \/ m.own \/ Has(run.plan, "add-queue")

(* What uninstall removes is gone or is still to be removed.               *)
Clears ==
  run.cmd = "uninstall" /\ ~run.lax =>
    /\ m.plist = 0 \/ Has(run.plan, "remove-plist")
    /\ m.loaded = 0 \/ Has(run.plan, "bootout")
    /\ m.binary => Has(run.plan, "remove-binary")
    /\ m.newsyslog => Has(run.plan, "remove-newsyslog")
    /\ run.purge /\ m.support => Has(run.plan, "remove-support")
    /\ run.purge /\ m.user \in {"uid", "full"} => Has(run.plan, "delete-user")
    /\ QueueHasPpd /\ owed => Has(run.plan, "restore-vendor-queue")

IInv == Types /\ Backed /\ Takes /\ Builds /\ Clears

-----------------------------------------------------------------------------
(* Plans that are joined and plans whose first step is taken.              *)
LEMMA HasConcat ==
  ASSUME NEW S, NEW p \in Seq(S), NEW q \in Seq(S), NEW x
  PROVE  Has(p \o q, x) <=> Has(p, x) \/ Has(q, x)
<1>1. Has(p, x) => Has(p \o q, x)
  BY DEF Has
<1>2. ASSUME Has(q, x) PROVE Has(p \o q, x)
  <2>1. PICK i \in 1..Len(q) : q[i].do = x
    BY <1>2 DEF Has
  <2>2. Len(p) + i \in 1..Len(p \o q) /\ (p \o q)[Len(p) + i] = q[i]
    OBVIOUS
  <2> QED BY <2>1, <2>2 DEF Has
<1>3. ASSUME Has(p \o q, x), ~Has(p, x) PROVE Has(q, x)
  <2>1. PICK i \in 1..Len(p \o q) : (p \o q)[i].do = x
    BY <1>3 DEF Has
  <2>2. i \notin 1..Len(p)
    BY <1>3, <2>1 DEF Has
  <2>3. i - Len(p) \in 1..Len(q) /\ (p \o q)[i] = q[i - Len(p)]
    BY <2>2
  <2> QED BY <2>1, <2>3 DEF Has
<1> QED BY <1>1, <1>2, <1>3

LEMMA HasTail ==
  ASSUME NEW S, NEW p \in Seq(S), p # << >>, NEW x, Has(p, x), Head(p).do # x
  PROVE  Has(Tail(p), x)
<1>1. PICK i \in 1..Len(p) : p[i].do = x
  BY DEF Has
<1>2. i - 1 \in 1..Len(Tail(p)) /\ Tail(p)[i - 1] = p[i]
  BY <1>1
<1> QED BY <1>1, <1>2 DEF Has

LEMMA PrecededConcat ==
  ASSUME NEW S, NEW p \in Seq(S), NEW q \in Seq(S), NEW a, NEW b,
         Preceded(p, a, b), Has(p, a) \/ ~Has(q, b) \/ Preceded(q, a, b)
  PROVE  Preceded(p \o q, a, b)
<1> SUFFICES ASSUME NEW i \in 1..Len(p \o q), (p \o q)[i].do = b
             PROVE  \E j \in 1..Len(p \o q) : j < i /\ (p \o q)[j].do = a
  BY DEF Preceded
<1>1. CASE i \in 1..Len(p)
  <2>1. PICK j \in 1..Len(p) : j < i /\ p[j].do = a
    BY <1>1 DEF Preceded
  <2> QED BY <2>1, <1>1
<1>2. CASE i \notin 1..Len(p)
  <2> DEFINE k == i - Len(p)
  <2>1. k \in 1..Len(q) /\ q[k].do = b /\ i = Len(p) + k
    BY <1>2
  <2>2. CASE Has(p, a)
    BY <2>2, <2>1 DEF Has
  <2>3. CASE Preceded(q, a, b)
    <3>1. PICK j \in 1..Len(q) : j < k /\ q[j].do = a
      BY <2>1, <2>3 DEF Preceded
    <3>2. Len(p) + j \in 1..Len(p \o q) /\ Len(p) + j < i
          /\ (p \o q)[Len(p) + j] = q[j]
      BY <3>1, <2>1
    <3> QED BY <3>1, <3>2
  <2> QED BY <2>1, <2>2, <2>3 DEF Has
<1> QED BY <1>1, <1>2

LEMMA PrecededTail ==
  ASSUME NEW S, NEW p \in Seq(S), p # << >>, NEW a, NEW b,
         Preceded(p, a, b), Head(p).do # a
  PROVE  Preceded(Tail(p), a, b) /\ Head(p).do # b
<1>1. ASSUME NEW i \in 1..Len(Tail(p)), Tail(p)[i].do = b
      PROVE  \E j \in 1..Len(Tail(p)) : j < i /\ Tail(p)[j].do = a
  <2>1. i + 1 \in 1..Len(p) /\ p[i + 1] = Tail(p)[i]
    OBVIOUS
  <2>2. PICK j \in 1..Len(p) : j < i + 1 /\ p[j].do = a
    BY <1>1, <2>1 DEF Preceded
  <2>3. j # 1
    BY <2>2
  <2>4. j - 1 \in 1..Len(Tail(p)) /\ j - 1 < i /\ Tail(p)[j - 1] = p[j]
    BY <2>2, <2>3
  <2> QED BY <2>2, <2>4
<1>2. Head(p).do # b
  <2>1. 1 \in 1..Len(p) /\ p[1] = Head(p)
    OBVIOUS
  <2> QED BY <2>1 DEF Preceded
<1> QED BY <1>1, <1>2 DEF Preceded

LEMMA FollowedConcat ==
  ASSUME NEW S, NEW p \in Seq(S), NEW q \in Seq(S), NEW a, NEW b,
         Followed(q, a, b), Has(q, b) \/ ~Has(p, a) \/ Followed(p, a, b)
  PROVE  Followed(p \o q, a, b)
<1> SUFFICES ASSUME NEW i \in 1..Len(p \o q), (p \o q)[i].do = a
             PROVE  \E j \in 1..Len(p \o q) : i < j /\ (p \o q)[j].do = b
  BY DEF Followed
<1>1. CASE i \in 1..Len(p)
  <2>1. p[i].do = a
    BY <1>1
  <2>2. CASE Has(q, b)
    <3>1. PICK j \in 1..Len(q) : q[j].do = b
      BY <2>2 DEF Has
    <3>2. Len(p) + j \in 1..Len(p \o q) /\ i < Len(p) + j
          /\ (p \o q)[Len(p) + j] = q[j]
      BY <3>1, <1>1
    <3> QED BY <3>1, <3>2
  <2>3. CASE Followed(p, a, b)
    <3>1. PICK j \in 1..Len(p) : i < j /\ p[j].do = b
      BY <2>3, <2>1, <1>1 DEF Followed
    <3> QED BY <3>1
  <2> QED BY <2>1, <2>2, <2>3, <1>1 DEF Has
<1>2. CASE i \notin 1..Len(p)
  <2> DEFINE k == i - Len(p)
  <2>1. k \in 1..Len(q) /\ q[k].do = a /\ i = Len(p) + k
    BY <1>2
  <2>2. PICK j \in 1..Len(q) : k < j /\ q[j].do = b
    BY <2>1 DEF Followed
  <2>3. Len(p) + j \in 1..Len(p \o q) /\ i < Len(p) + j
        /\ (p \o q)[Len(p) + j] = q[j]
    BY <2>2, <2>1
  <2> QED BY <2>2, <2>3
<1> QED BY <1>1, <1>2

LEMMA FollowedTail ==
  ASSUME NEW S, NEW p \in Seq(S), p # << >>, NEW a, NEW b, Followed(p, a, b)
  PROVE  Followed(Tail(p), a, b) /\ (Head(p).do = a => Has(Tail(p), b))
<1>0. \A i \in 1..Len(Tail(p)) : i + 1 \in 1..Len(p) /\ p[i + 1] = Tail(p)[i]
  OBVIOUS
<1>1. ASSUME NEW i \in 1..Len(Tail(p)), Tail(p)[i].do = a
      PROVE  \E j \in 1..Len(Tail(p)) : i < j /\ Tail(p)[j].do = b
  <2>1. PICK j \in 1..Len(p) : i + 1 < j /\ p[j].do = b
    BY <1>0, <1>1 DEF Followed
  <2>2. j - 1 \in 1..Len(Tail(p)) /\ i < j - 1 /\ Tail(p)[j - 1] = p[j]
    BY <2>1
  <2> QED BY <2>1, <2>2
<1>2. ASSUME Head(p).do = a PROVE Has(Tail(p), b)
  <2>1. 1 \in 1..Len(p) /\ p[1] = Head(p)
    OBVIOUS
  <2>2. PICK j \in 1..Len(p) : 1 < j /\ p[j].do = b
    BY <1>2, <2>1 DEF Followed
  <2>3. j - 1 \in 1..Len(Tail(p)) /\ Tail(p)[j - 1] = p[j]
    BY <2>2
  <2> QED BY <2>2, <2>3 DEF Has
<1> QED BY <1>1, <1>2 DEF Followed

LEMMA Absent ==
  ASSUME NEW p, NEW a, NEW b
  PROVE  /\ ~Has(p, b) => Preceded(p, a, b)
         /\ ~Has(p, a) => Followed(p, a, b)
BY DEF Has, Preceded, Followed

(* What is known of a plan that two parts are joined to.                   *)
Joined(p, q, r) ==
  /\ \A x : Has(r, x) <=> Has(p, x) \/ Has(q, x)
  /\ \A a, b :
       (~Has(p, b) \/ Preceded(p, a, b))
       /\ (~Has(q, b) \/ Has(p, a) \/ Preceded(q, a, b)) => Preceded(r, a, b)
  /\ \A a, b :
       (~Has(q, a) \/ Followed(q, a, b))
       /\ (~Has(p, a) \/ Has(q, b) \/ Followed(p, a, b)) => Followed(r, a, b)

LEMMA Join ==
  ASSUME NEW S, NEW p \in Seq(S), NEW q \in Seq(S), NEW r, r = p \o q
  PROVE  r \in Seq(S) /\ Joined(p, q, r)
<1>1. r \in Seq(S)
  OBVIOUS
<1>2. \A x : Has(r, x) <=> Has(p, x) \/ Has(q, x)
  BY HasConcat
<1>3. ASSUME NEW a, NEW b, ~Has(p, b) \/ Preceded(p, a, b),
             ~Has(q, b) \/ Has(p, a) \/ Preceded(q, a, b)
      PROVE  Preceded(r, a, b)
  <2>1. Preceded(p, a, b)
    BY <1>3, Absent
  <2> QED BY <2>1, <1>3, PrecededConcat
<1>4. ASSUME NEW a, NEW b, ~Has(q, a) \/ Followed(q, a, b),
             ~Has(p, a) \/ Has(q, b) \/ Followed(p, a, b)
      PROVE  Followed(r, a, b)
  <2>1. Followed(q, a, b)
    BY <1>4, Absent
  <2> QED BY <2>1, <1>4, FollowedConcat
<1> QED BY <1>1, <1>2, <1>3, <1>4 DEF Joined

LEMMA OnlyConcat ==
  ASSUME NEW S, NEW p \in Seq(S), NEW q \in Seq(S), NEW N,
         Only(p, N), Only(q, N)
  PROVE  Only(p \o q, N)
<1> SUFFICES ASSUME NEW i \in 1..Len(p \o q)
             PROVE  (p \o q)[i].do \in N
  BY DEF Only
<1>1. CASE i \in 1..Len(p)
  BY <1>1 DEF Only
<1>2. CASE i \notin 1..Len(p)
  <2>1. i - Len(p) \in 1..Len(q) /\ (p \o q)[i] = q[i - Len(p)]
    BY <1>2
  <2> QED BY <2>1 DEF Only
<1> QED BY <1>1, <1>2

(***************************************************************************)
(* The plans, whatever inspect found: what is in them and in which order.  *)
(***************************************************************************)
LEMMA InstallPlan ==
  ASSUME NEW s \in Machines, NEW last, NEW info, info = inspect(s, last),
         NEW keep \in BOOLEAN, NEW p, p = install_plan(info, keep)
  PROVE  /\ p \in Seq(InstallSteps)
         /\ \A x \in {"copy-binary", "make-directories", "write-plist",
                      "bootstrap", "wait-ipp"} : Has(p, x)
         /\ info.user_exists \/ Has(p, "user-attributes")
         /\ info.our_queue \/ Has(p, "add-queue")
         /\ info.vendor_queue /\ ~keep => Has(p, "remove-vendor-queue")
         /\ Preceded(p, "probe", "remove-vendor-queue")
         /\ (info.vendor_queue => info.vendor_ppd) =>
              Preceded(p, "back-up-ppd", "remove-vendor-queue")
         /\ Preceded(p, "write-plist", "bootstrap")
         /\ Followed(p, "bootout", "bootstrap")
         /\ Followed(p, "bootout", "wait-ipp")
         /\ Followed(p, "bootstrap", "wait-ipp")
         /\ Followed(p, "create-user", "user-attributes")
<1> DEFINE A == stop(info)
           B == When(~info.user_exists,
                     <<Do("create-group"), Do("create-user"), Do("user-id"),
                       Do("user-attributes")>>)
           C == <<Do("make-directories"), Do("copy-binary"), Do("probe")>>
           D == take_over(info, keep)
           E == <<Do("write-plist"), Do("write-newsyslog"), Do("bootstrap"),
                  Do("wait-ipp")>>
           F == add_queue(info)
<1>0. info \in [user_exists : BOOLEAN, binary_installed : BOOLEAN,
        plist_exists : BOOLEAN, loaded : BOOLEAN, running : BOOLEAN,
        vendor_queue : BOOLEAN, vendor_ppd : BOOLEAN,
        vendor_driver : BOOLEAN, our_queue : BOOLEAN,
        our_queue_name : {last}, backup_exists : BOOLEAN,
        queue_marker : BOOLEAN, usb_printer : {usb}]
  BY DEF inspect, Machines
<1> DEFINE n == << >>
<1>n. n \in Seq(InstallSteps) /\ Len(n) = 0
  OBVIOUS
<1>m. /\ Only(n, {}) /\ \A x : ~Has(n, x)
      /\ \A x, y : Preceded(n, x, y) /\ Followed(n, x, y)
  BY DEF Only, Has, Preceded, Followed
<1>a. A \in Seq(InstallSteps) /\ Only(A, {"bootout"})
  <2> DEFINE a == <<Try("bootout", "none")>>
  <2>1. a \in Seq(InstallSteps)
    BY DEF InstallSteps, InstallNames, InstallTried, Steps, Try
  <2>2. Len(a) = 1 /\ a[1].do = "bootout"
    BY DEF Try
  <2>3. A = n \/ A = a
    BY DEF stop, When
  <2> HIDE DEF A, a, n
  <2>4. Only(a, {"bootout"}) /\ Only(n, {"bootout"})
    BY <2>2, <1>m DEF Only
  <2> QED BY <2>1, <2>3, <2>4, <1>n
<1>b. /\ B \in Seq(InstallSteps)
      /\ Only(B, {"create-group", "create-user", "user-id", "user-attributes"})
      /\ info.user_exists \/ Has(B, "user-attributes")
      /\ Followed(B, "create-user", "user-attributes")
  <2> DEFINE b == <<Do("create-group"), Do("create-user"), Do("user-id"),
                    Do("user-attributes")>>
             N == {"create-group", "create-user", "user-id", "user-attributes"}
  <2>1. b \in Seq(InstallSteps)
    BY DEF InstallSteps, InstallNames, InstallTried, Steps, Do
  <2>2. /\ Len(b) = 4 /\ b[1].do = "create-group" /\ b[2].do = "create-user"
        /\ b[3].do = "user-id" /\ b[4].do = "user-attributes"
    BY DEF Do
  <2>3. (info.user_exists /\ B = n) \/ B = b
    BY <1>0 DEF When
  <2> HIDE DEF B, b, n
  <2>4. Only(b, N) /\ Only(n, N)
    BY <2>2, <1>m DEF Only
  <2>5. /\ Has(b, "user-attributes")
        /\ Followed(b, "create-user", "user-attributes")
    BY <2>2 DEF Has, Followed
  <2> QED BY <2>1, <2>3, <2>4, <2>5, <1>n, <1>m
<1>c. /\ C \in Seq(InstallSteps)
      /\ Only(C, {"make-directories", "copy-binary", "probe"})
      /\ Has(C, "make-directories") /\ Has(C, "copy-binary") /\ Has(C, "probe")
  <2>1. C \in Seq(InstallSteps)
    BY DEF InstallSteps, InstallNames, InstallTried, Steps, Do
  <2>2. /\ Len(C) = 3 /\ C[1].do = "make-directories"
        /\ C[2].do = "copy-binary" /\ C[3].do = "probe"
    BY DEF Do
  <2> HIDE DEF C
  <2>3. Only(C, {"make-directories", "copy-binary", "probe"})
    BY <2>2 DEF Only
  <2>4. Has(C, "make-directories") /\ Has(C, "copy-binary") /\ Has(C, "probe")
    BY <2>2 DEF Has
  <2> QED BY <2>1, <2>3, <2>4
<1>d. /\ D \in Seq(InstallSteps)
      /\ Only(D, {"back-up-ppd", "back-up-uri", "remove-vendor-queue"})
      /\ info.vendor_queue /\ ~keep => Has(D, "remove-vendor-queue")
      /\ (info.vendor_queue => info.vendor_ppd) =>
           Preceded(D, "back-up-ppd", "remove-vendor-queue")
  <2> DEFINE b == <<Do("back-up-ppd")>>
             u == <<Try("back-up-uri", "none"), Do("remove-vendor-queue")>>
             N == {"back-up-ppd", "back-up-uri", "remove-vendor-queue"}
  <2>1. b \in Seq(InstallSteps) /\ u \in Seq(InstallSteps)
    BY DEF InstallSteps, InstallNames, InstallTried, Steps, Do, Try
  <2>2. /\ Len(b) = 1 /\ b[1].do = "back-up-ppd"
        /\ Len(u) = 2 /\ u[1].do = "back-up-uri"
        /\ u[2].do = "remove-vendor-queue"
    BY DEF Do, Try
  <2>3. n \o u = u
    OBVIOUS
  <2>4. \/ info.vendor_queue /\ ~keep /\ info.vendor_ppd /\ D = b \o u
        \/ info.vendor_queue /\ ~keep /\ ~info.vendor_ppd /\ D = u
        \/ ~(info.vendor_queue /\ ~keep) /\ D = n
    BY <1>0, <2>3 DEF take_over, When
  <2> HIDE DEF D, b, u, n
  <2>5. /\ Only(b, N) /\ Only(u, N) /\ Only(n, N)
    BY <2>2, <1>m DEF Only
  <2>6. Has(u, "remove-vendor-queue") /\ Has(b, "back-up-ppd")
    BY <2>2 DEF Has
  <2>7. ~Has(b, "remove-vendor-queue")
    BY <2>2 DEF Has
  <2>8. CASE D = b \o u
    <3>1. D \in Seq(InstallSteps) /\ Joined(b, u, D)
      BY <2>1, <2>8, Join, Zenon
    <3>2. Only(D, N)
      BY <2>1, <2>5, <2>8, OnlyConcat, Zenon
    <3> QED BY <3>1, <3>2, <2>6, <2>7 DEF Joined
  <2> QED BY <2>1, <2>4, <2>5, <2>6, <2>8, <1>n, <1>m
<1>e. /\ E \in Seq(InstallSteps)
      /\ Only(E, {"write-plist", "write-newsyslog", "bootstrap", "wait-ipp"})
      /\ Has(E, "write-plist") /\ Has(E, "bootstrap") /\ Has(E, "wait-ipp")
      /\ Preceded(E, "write-plist", "bootstrap")
      /\ Followed(E, "bootstrap", "wait-ipp")
  <2>1. /\ Len(E) = 4 /\ E[1].do = "write-plist" /\ E[2].do = "write-newsyslog"
        /\ E[3].do = "bootstrap" /\ E[4].do = "wait-ipp"
    BY DEF Do
  <2>2. E \in Seq(InstallSteps)
    BY DEF InstallSteps, InstallNames, InstallTried, Steps, Do
  <2> HIDE DEF E
  <2>3. Only(E, {"write-plist", "write-newsyslog", "bootstrap", "wait-ipp"})
    BY <2>1 DEF Only
  <2>4. Has(E, "write-plist") /\ Has(E, "bootstrap") /\ Has(E, "wait-ipp")
    BY <2>1 DEF Has
  <2>5. /\ Followed(E, "bootstrap", "wait-ipp")
        /\ Preceded(E, "write-plist", "bootstrap")
    BY <2>1 DEF Followed, Preceded
  <2> QED BY <2>2, <2>3, <2>4, <2>5
<1>f. /\ F \in Seq(InstallSteps)
      /\ Only(F, {"add-queue", "write-marker"})
      /\ info.our_queue \/ Has(F, "add-queue")
  <2> DEFINE a == <<Do("add-queue"), Do("write-marker")>>
  <2>1. a \in Seq(InstallSteps)
    BY DEF InstallSteps, InstallNames, InstallTried, Steps, Do
  <2>2. Len(a) = 2 /\ a[1].do = "add-queue" /\ a[2].do = "write-marker"
    BY DEF Do
  <2>3. (info.our_queue /\ F = n) \/ F = a
    BY <1>0 DEF add_queue, When
  <2> HIDE DEF F, a, n
  <2>4. /\ Only(a, {"add-queue", "write-marker"})
        /\ Only(n, {"add-queue", "write-marker"})
    BY <2>2, <1>m DEF Only
  <2>5. Has(a, "add-queue")
    BY <2>2 DEF Has
  <2> QED BY <2>1, <2>3, <2>4, <2>5, <1>n
<1> HIDE DEF A, B, C, D, E, F, n
<1>g. /\ ~Has(A, "create-user") /\ ~Has(C, "create-user")
      /\ ~Has(D, "create-user") /\ ~Has(E, "create-user")
      /\ ~Has(F, "create-user")
  BY <1>a, <1>c, <1>d, <1>e, <1>f DEF Only, Has
<1>h. /\ ~Has(E, "bootout") /\ ~Has(F, "bootout") /\ ~Has(F, "bootstrap")
  BY <1>e, <1>f DEF Only, Has
<1>i. /\ ~Has(A, "remove-vendor-queue") /\ ~Has(B, "remove-vendor-queue")
      /\ ~Has(C, "remove-vendor-queue") /\ ~Has(E, "remove-vendor-queue")
      /\ ~Has(F, "remove-vendor-queue")
  BY <1>a, <1>b, <1>c, <1>e, <1>f DEF Only, Has
<1> DEFINE P1 == A \o B
           P2 == P1 \o C
           P3 == P2 \o D
           P4 == P3 \o E
           P5 == P4 \o F
<1>p. p = P5
  BY DEF install_plan, A, B, C, D, E, F
<1>1. P1 \in Seq(InstallSteps) /\ Joined(A, B, P1)
  BY <1>a, <1>b, Join, Zenon
<1> HIDE DEF P1
<1>2. P2 \in Seq(InstallSteps) /\ Joined(P1, C, P2)
  BY <1>1, <1>c, Join, Zenon
<1> HIDE DEF P2
<1>3. P3 \in Seq(InstallSteps) /\ Joined(P2, D, P3)
  BY <1>2, <1>d, Join, Zenon
<1> HIDE DEF P3
<1>4. P4 \in Seq(InstallSteps) /\ Joined(P3, E, P4)
  BY <1>3, <1>e, Join, Zenon
<1> HIDE DEF P4
<1>5. P5 \in Seq(InstallSteps) /\ Joined(P4, F, P5)
  BY <1>4, <1>f, Join, Zenon
<1> HIDE DEF P5
<1>6. \A x : \/ Has(A, x) \/ Has(B, x) \/ Has(C, x) \/ Has(D, x) \/ Has(E, x)
            \/ Has(F, x)
            <=> Has(P5, x)
  BY <1>1, <1>2, <1>3, <1>4, <1>5 DEF Joined
<1>7. Followed(P5, "create-user", "user-attributes")
  <2>1. Followed(P1, "create-user", "user-attributes")
    BY <1>b, <1>g, <1>1 DEF Joined
  <2>2. Followed(P2, "create-user", "user-attributes")
    BY <2>1, <1>g, <1>2 DEF Joined
  <2>3. Followed(P3, "create-user", "user-attributes")
    BY <2>2, <1>g, <1>3 DEF Joined
  <2>4. Followed(P4, "create-user", "user-attributes")
    BY <2>3, <1>g, <1>4 DEF Joined
  <2> QED BY <2>4, <1>g, <1>5 DEF Joined
<1>8. /\ Followed(P5, "bootout", "bootstrap")
      /\ Followed(P5, "bootout", "wait-ipp")
      /\ Followed(P5, "bootstrap", "wait-ipp")
  <2>1. /\ Followed(P4, "bootout", "bootstrap")
        /\ Followed(P4, "bootout", "wait-ipp")
        /\ Followed(P4, "bootstrap", "wait-ipp")
    BY <1>e, <1>h, <1>4 DEF Joined
  <2> QED BY <2>1, <1>h, <1>5 DEF Joined
<1>9. /\ Has(P2, "probe") /\ ~Has(P2, "remove-vendor-queue")
      /\ ~Has(E, "remove-vendor-queue") /\ ~Has(F, "remove-vendor-queue")
  BY <1>c, <1>i, <1>1, <1>2 DEF Joined
<1>10. Preceded(P5, "probe", "remove-vendor-queue")
  <2>1. Preceded(P3, "probe", "remove-vendor-queue")
    BY <1>9, <1>3 DEF Joined
  <2>2. Preceded(P4, "probe", "remove-vendor-queue")
    BY <2>1, <1>9, <1>4 DEF Joined
  <2> QED BY <2>2, <1>9, <1>5 DEF Joined
<1>11. ASSUME info.vendor_queue => info.vendor_ppd
       PROVE  Preceded(P5, "back-up-ppd", "remove-vendor-queue")
  <2>1. Preceded(P3, "back-up-ppd", "remove-vendor-queue")
    BY <1>11, <1>d, <1>9, <1>3 DEF Joined
  <2>2. Preceded(P4, "back-up-ppd", "remove-vendor-queue")
    BY <2>1, <1>9, <1>4 DEF Joined
  <2> QED BY <2>2, <1>9, <1>5 DEF Joined
<1>12. \A x \in {"copy-binary", "make-directories", "write-plist",
                 "bootstrap", "wait-ipp"} :
         Has(P5, x)
  BY <1>6, <1>c, <1>e
<1>14. Preceded(P5, "write-plist", "bootstrap")
  <2>1. /\ ~Has(A, "bootstrap") /\ ~Has(B, "bootstrap")
        /\ ~Has(C, "bootstrap") /\ ~Has(D, "bootstrap")
    BY <1>a, <1>b, <1>c, <1>d DEF Only, Has
  <2>2. ~Has(P3, "bootstrap")
    BY <2>1, <1>1, <1>2, <1>3 DEF Joined
  <2>3. Preceded(P4, "write-plist", "bootstrap")
    BY <2>2, <1>e, <1>4 DEF Joined
  <2> QED BY <2>3, <1>h, <1>5 DEF Joined
<1>13. /\ info.user_exists \/ Has(P5, "user-attributes")
       /\ info.our_queue \/ Has(P5, "add-queue")
       /\ info.vendor_queue /\ ~keep => Has(P5, "remove-vendor-queue")
  BY <1>6, <1>b, <1>d, <1>f
<1> QED
  BY <1>p, <1>5, <1>7, <1>8, <1>10, <1>11, <1>12, <1>13, <1>14

LEMMA UninstallPlan ==
  ASSUME NEW s \in Machines, NEW last \in {"none", "installer", "own"},
         NEW info, info = inspect(s, last),
         NEW purge \in BOOLEAN, NEW p, p = uninstall_plan(info, purge)
  PROVE  /\ p \in Seq(UninstallSteps)
         /\ \A x \in {"remove-plist", "remove-newsyslog", "remove-binary"} :
              Has(p, x)
         /\ info.loaded => Has(p, "bootout")
         /\ info.backup_exists /\ ~info.vendor_queue =>
              Has(p, "restore-vendor-queue")
         /\ purge => Has(p, "remove-support")
         /\ purge /\ info.user_exists => Has(p, "delete-user")
<1> DEFINE n == << >>
           A == stop(info)
           B == <<Do("remove-plist"), Do("remove-newsyslog")>>
           C == When(info.queue_marker /\ info.our_queue,
                     <<Try("remove-queue", info.our_queue_name),
                       Do("remove-marker")>>)
           D == restore(info)
           E == <<Do("remove-binary")>>
           F == When(purge,
                     <<Do("remove-support")>>
                     \o When(info.user_exists,
                             <<Do("delete-user"),
                               Try("delete-group", "none")>>))
<1>0. info \in [user_exists : BOOLEAN, binary_installed : BOOLEAN,
        plist_exists : BOOLEAN, loaded : BOOLEAN, running : BOOLEAN,
        vendor_queue : BOOLEAN, vendor_ppd : BOOLEAN,
        vendor_driver : BOOLEAN, our_queue : BOOLEAN,
        our_queue_name : {last}, backup_exists : BOOLEAN,
        queue_marker : BOOLEAN, usb_printer : {usb}]
  BY DEF inspect, Machines
<1>n. n \in Seq(UninstallSteps)
  OBVIOUS
<1>a. A \in Seq(UninstallSteps) /\ (info.loaded => Has(A, "bootout"))
  <2> DEFINE a == <<Try("bootout", "none")>>
  <2>1. a \in Seq(UninstallSteps)
    BY DEF UninstallSteps, UninstallNames, UninstallTried, Steps, Try
  <2>2. Len(a) = 1 /\ a[1].do = "bootout"
    BY DEF Try
  <2>3. (~info.loaded /\ A = n) \/ A = a
    BY <1>0 DEF stop, When
  <2> HIDE DEF A, a, n
  <2>4. Has(a, "bootout")
    BY <2>2 DEF Has
  <2> QED BY <2>1, <2>3, <2>4, <1>n
<1>b. B \in Seq(UninstallSteps) /\ Has(B, "remove-plist")
      /\ Has(B, "remove-newsyslog")
  <2>1. B \in Seq(UninstallSteps)
    BY DEF UninstallSteps, UninstallNames, UninstallTried, Steps, Do
  <2>2. Len(B) = 2 /\ B[1].do = "remove-plist" /\ B[2].do = "remove-newsyslog"
    BY DEF Do
  <2> HIDE DEF B
  <2> QED BY <2>1, <2>2 DEF Has
<1>c. C \in Seq(UninstallSteps)
  <2> DEFINE c == <<Try("remove-queue", info.our_queue_name),
                    Do("remove-marker")>>
  <2>1. c \in Seq(UninstallSteps)
    BY <1>0 DEF UninstallSteps, UninstallNames, UninstallTried, Steps, Do, Try
  <2>2. C = n \/ C = c
    BY DEF When
  <2> HIDE DEF C, c, n
  <2> QED BY <2>1, <2>2, <1>n
<1>d. /\ D \in Seq(UninstallSteps)
      /\ info.backup_exists /\ ~info.vendor_queue =>
           Has(D, "restore-vendor-queue")
  <2> DEFINE d == <<Try("restore-vendor-queue", "none")>>
  <2>1. d \in Seq(UninstallSteps)
    BY DEF UninstallSteps, UninstallNames, UninstallTried, Steps, Try
  <2>2. Len(d) = 1 /\ d[1].do = "restore-vendor-queue"
    BY DEF Try
  <2>3. (~(info.backup_exists /\ ~info.vendor_queue) /\ D = n) \/ D = d
    BY <1>0 DEF restore, When
  <2> HIDE DEF D, d, n
  <2>4. Has(d, "restore-vendor-queue")
    BY <2>2 DEF Has
  <2> QED BY <2>1, <2>3, <2>4, <1>n
<1>e. E \in Seq(UninstallSteps) /\ Has(E, "remove-binary")
  <2>1. E \in Seq(UninstallSteps)
    BY DEF UninstallSteps, UninstallNames, UninstallTried, Steps, Do
  <2>2. Len(E) = 1 /\ E[1].do = "remove-binary"
    BY DEF Do
  <2> HIDE DEF E
  <2> QED BY <2>1, <2>2 DEF Has
<1>f. /\ F \in Seq(UninstallSteps)
      /\ purge => Has(F, "remove-support")
      /\ purge /\ info.user_exists => Has(F, "delete-user")
  <2> DEFINE f == <<Do("remove-support")>>
             g == <<Do("delete-user"), Try("delete-group", "none")>>
             G == When(info.user_exists, g)
  <2>1. f \in Seq(UninstallSteps) /\ g \in Seq(UninstallSteps)
    BY DEF UninstallSteps, UninstallNames, UninstallTried, Steps, Do, Try
  <2>2. Len(f) = 1 /\ f[1].do = "remove-support"
        /\ Len(g) = 2 /\ g[1].do = "delete-user"
    BY DEF Do
  <2>3. (~info.user_exists /\ G = n) \/ G = g
    BY <1>0 DEF When
  <2>4. (~purge /\ F = n) \/ F = f \o G
    BY DEF When
  <2> HIDE DEF F, G, f, g, n
  <2>5. Has(f, "remove-support") /\ Has(g, "delete-user")
    BY <2>2 DEF Has
  <2>6. /\ G \in Seq(UninstallSteps)
        /\ info.user_exists => Has(G, "delete-user")
    BY <2>1, <2>3, <2>5, <1>n
  <2>7. CASE F = f \o G
    <3>1. F \in Seq(UninstallSteps) /\ Joined(f, G, F)
      BY <2>1, <2>6, <2>7, Join, Zenon
    <3> QED BY <3>1, <2>5, <2>6 DEF Joined
  <2> QED BY <2>4, <2>7, <1>n
<1> DEFINE P1 == A \o B
           P2 == P1 \o C
           P3 == P2 \o D
           P4 == P3 \o E
           P5 == P4 \o F
<1>p. p = P5
  BY DEF uninstall_plan
<1> HIDE DEF A, B, C, D, E, F, n
<1>1. P1 \in Seq(UninstallSteps) /\ Joined(A, B, P1)
  BY <1>a, <1>b, Join, Zenon
<1> HIDE DEF P1
<1>2. P2 \in Seq(UninstallSteps) /\ Joined(P1, C, P2)
  BY <1>1, <1>c, Join, Zenon
<1> HIDE DEF P2
<1>3. P3 \in Seq(UninstallSteps) /\ Joined(P2, D, P3)
  BY <1>2, <1>d, Join, Zenon
<1> HIDE DEF P3
<1>4. P4 \in Seq(UninstallSteps) /\ Joined(P3, E, P4)
  BY <1>3, <1>e, Join, Zenon
<1> HIDE DEF P4
<1>5. P5 \in Seq(UninstallSteps) /\ Joined(P4, F, P5)
  BY <1>4, <1>f, Join, Zenon
<1> HIDE DEF P5
<1>6. \A x : \/ Has(A, x) \/ Has(B, x) \/ Has(C, x) \/ Has(D, x) \/ Has(E, x)
             \/ Has(F, x)
             <=> Has(P5, x)
  BY <1>1, <1>2, <1>3, <1>4, <1>5 DEF Joined
<1>7. \A x \in {"remove-plist", "remove-newsyslog", "remove-binary"} :
        Has(P5, x)
  BY <1>6, <1>b, <1>e
<1>8. /\ info.loaded => Has(P5, "bootout")
      /\ info.backup_exists /\ ~info.vendor_queue =>
           Has(P5, "restore-vendor-queue")
      /\ purge => Has(P5, "remove-support")
      /\ purge /\ info.user_exists => Has(P5, "delete-user")
  BY <1>6, <1>a, <1>d, <1>f
<1> QED BY <1>p, <1>5, <1>7, <1>8

LEMMA RemovePlan ==
  ASSUME NEW s \in Machines, NEW last, NEW info, info = inspect(s, last),
         NEW p, p = remove_vendor_plan(info)
  PROVE  p \in Seq(RemoveSteps)
<1> DEFINE n == << >>
           A == <<Do("make-directories"), Do("archive-driver")>>
           b == <<Try("remove-vendor-queue", "none")>>
           B == When(info.vendor_queue, b)
           C == <<Do("delete-driver")>>
<1>1. /\ n \in Seq(RemoveSteps) /\ A \in Seq(RemoveSteps)
      /\ b \in Seq(RemoveSteps) /\ C \in Seq(RemoveSteps)
  BY DEF RemoveSteps, RemoveNames, RemoveTried, Steps, Do, Try
<1>2. B = n \/ B = b
  BY DEF When
<1>3. p = (A \o B) \o C
  BY DEF remove_vendor_plan
<1> HIDE DEF n, A, b, B, C
<1> QED BY <1>1, <1>2, <1>3

(***************************************************************************)
(* The steps: what they leave well formed, what they leave alone, what     *)
(* they bring about.                                                       *)
(***************************************************************************)
LEMMA FieldSet ==
  ASSUME NEW s \in Machines
  PROVE  /\ \A v \in BOOLEAN :
              /\ [s EXCEPT !.group = v] \in Machines
              /\ [s EXCEPT !.support = v] \in Machines
              /\ [s EXCEPT !.binary = v] \in Machines
              /\ [s EXCEPT !.newsyslog = v] \in Machines
              /\ [s EXCEPT !.own = v] \in Machines
              /\ [s EXCEPT !.marker = v] \in Machines
              /\ [s EXCEPT !.backup_ppd = v] \in Machines
              /\ [s EXCEPT !.backup_uri = v] \in Machines
              /\ [s EXCEPT !.vendor_queue = v, !.vendor_ppd = v] \in Machines
         /\ \A v \in {"none", "record", "uid", "full"} :
              [s EXCEPT !.user = v] \in Machines
         /\ \A v \in Nat : /\ [s EXCEPT !.loaded = v] \in Machines
                           /\ [s EXCEPT !.queue = v] \in Machines
         /\ \A v \in Nat \cup {Broken} : [s EXCEPT !.plist = v] \in Machines
         /\ \A v \in {"whole", "part", "none"} :
              /\ [s EXCEPT !.driver = v] \in Machines
              /\ [s EXCEPT !.tar = v] \in Machines
<1>1. ASSUME NEW v \in BOOLEAN
      PROVE  /\ [s EXCEPT !.group = v] \in Machines
             /\ [s EXCEPT !.support = v] \in Machines
             /\ [s EXCEPT !.binary = v] \in Machines
             /\ [s EXCEPT !.newsyslog = v] \in Machines
             /\ [s EXCEPT !.own = v] \in Machines
             /\ [s EXCEPT !.marker = v] \in Machines
             /\ [s EXCEPT !.backup_ppd = v] \in Machines
             /\ [s EXCEPT !.backup_uri = v] \in Machines
             /\ [s EXCEPT !.vendor_queue = v, !.vendor_ppd = v] \in Machines
  <2>1. [s EXCEPT !.group = v] \in Machines
    BY DEF Machines
  <2>2. [s EXCEPT !.support = v] \in Machines
    BY DEF Machines
  <2>3. [s EXCEPT !.binary = v] \in Machines
    BY DEF Machines
  <2>4. [s EXCEPT !.newsyslog = v] \in Machines
    BY DEF Machines
  <2>5. [s EXCEPT !.own = v] \in Machines
    BY DEF Machines
  <2>6. [s EXCEPT !.marker = v] \in Machines
    BY DEF Machines
  <2>7. [s EXCEPT !.backup_ppd = v] \in Machines
    BY DEF Machines
  <2>8. [s EXCEPT !.backup_uri = v] \in Machines
    BY DEF Machines
  <2>9. [s EXCEPT !.vendor_queue = v, !.vendor_ppd = v] \in Machines
    BY DEF Machines
  <2> QED BY <2>1, <2>2, <2>3, <2>4, <2>5, <2>6, <2>7, <2>8, <2>9, Zenon
<1>2. \A v \in {"none", "record", "uid", "full"} :
        [s EXCEPT !.user = v] \in Machines
  BY DEF Machines
<1>3. \A v \in Nat : [s EXCEPT !.loaded = v] \in Machines
  BY DEF Machines
<1>4. \A v \in Nat : [s EXCEPT !.queue = v] \in Machines
  BY DEF Machines
<1>5. \A v \in Nat \cup {Broken} : [s EXCEPT !.plist = v] \in Machines
  BY DEF Machines
<1>6. \A v \in {"whole", "part", "none"} : [s EXCEPT !.driver = v] \in Machines
  BY DEF Machines
<1>7. \A v \in {"whole", "part", "none"} : [s EXCEPT !.tar = v] \in Machines
  BY DEF Machines
<1> QED BY <1>1, <1>2, <1>3, <1>4, <1>5, <1>6, <1>7, Zenon

LEMMA SupportSet ==
  ASSUME NEW s \in Machines, NEW a \in BOOLEAN, NEW b \in BOOLEAN,
         NEW c \in BOOLEAN, NEW d \in BOOLEAN,
         NEW e \in {"whole", "part", "none"}, NEW t,
         t = [s EXCEPT !.support = a, !.marker = b, !.backup_ppd = c,
                       !.backup_uri = d, !.tar = e]
  PROVE  t \in Machines
<1> DEFINE s1 == [s EXCEPT !.support = a]
           s2 == [s1 EXCEPT !.marker = b]
           s3 == [s2 EXCEPT !.backup_ppd = c]
           s4 == [s3 EXCEPT !.backup_uri = d]
           s5 == [s4 EXCEPT !.tar = e]
<1>1. s1 \in Machines
  BY FieldSet, Zenon
<1> HIDE DEF s1
<1>2. s2 \in Machines
  BY <1>1, FieldSet, Zenon
<1> HIDE DEF s2
<1>3. s3 \in Machines
  BY <1>2, FieldSet, Zenon
<1> HIDE DEF s3
<1>4. s4 \in Machines
  BY <1>3, FieldSet, Zenon
<1> HIDE DEF s4
<1>5. s5 \in Machines
  BY <1>4, FieldSet, Zenon
<1> QED BY <1>5 DEF s5, s4, s3, s2, s1

LEMMA EffectType ==
  ASSUME NEW s \in Machines, NEW port \in Nat, NEW step, can(s, port, step)
  PROVE effect(s, port, step) \in Machines
<1> USE DEF FileSteps
<1>1. CASE step.do = "bootstrap"
  BY <1>1 DEF effect, command_effect, Machines, can, command_can, Broken
<1>2. CASE step.do = "remove-support"
  <2>1. s.support \in BOOLEAN BY DEF Machines
  <2> QED BY <1>2, <2>1, SupportSet DEF effect, command_effect
<1>3. CASE step.do \notin {"bootstrap", "remove-support"}
  <2>1. /\ s.vendor_queue \in BOOLEAN /\ s.driver \in {"whole", "part", "none"}
        /\ 0 \in Nat /\ 0 \in Nat \cup {Broken} /\ port \in Nat \cup {Broken}
    BY DEF Machines
  <2>2. CASE step.do \in FileSteps
    BY <1>3, <2>1, <2>2, FieldSet DEF effect, file_effect
  <2>3. CASE step.do \notin FileSteps
    BY <1>3, <2>1, <2>3, FieldSet DEF effect, command_effect
  <2> QED BY <2>2, <2>3
<1> QED BY <1>1, <1>2, <1>3

LEMMA EffectKeeps ==
  ASSUME NEW s \in Machines, NEW port \in Nat, NEW step, NEW t,
         t = effect(s, port, step)
  PROVE  /\ step.do \notin {"create-user", "user-id", "user-attributes",
                            "delete-user"} => t.user = s.user
         /\ step.do \notin {"make-directories", "remove-support"} =>
              t.support = s.support
         /\ step.do \notin {"copy-binary", "remove-binary"} =>
              t.binary = s.binary
         /\ step.do \notin {"write-plist", "remove-plist"} => t.plist = s.plist
         /\ step.do \notin {"write-newsyslog", "remove-newsyslog"} =>
              t.newsyslog = s.newsyslog
         /\ step.do \notin {"bootout", "bootstrap"} => t.loaded = s.loaded
         /\ step.do \notin {"add-queue", "remove-queue"} => t.queue = s.queue
         /\ step.do # "remove-queue" => t.own = s.own
         /\ step.do \notin {"remove-vendor-queue", "restore-vendor-queue"} =>
              t.vendor_queue = s.vendor_queue /\ t.vendor_ppd = s.vendor_ppd
         /\ step.do \notin {"back-up-ppd", "remove-support"} =>
              t.backup_ppd = s.backup_ppd
<1> USE DEF effect, FileSteps
<1>1. CASE step.do \in FileSteps
  BY <1>1 DEF file_effect, Machines
<1>2. CASE step.do \notin FileSteps
  BY <1>2 DEF command_effect, Machines
<1> QED BY <1>1, <1>2

LEMMA EffectDoes ==
  ASSUME NEW s \in Machines, NEW port \in Nat, NEW step, NEW t,
         t = effect(s, port, step)
  PROVE  /\ step.do = "user-id" => t.user = "uid"
         /\ step.do = "user-attributes" => t.user = "full"
         /\ step.do = "make-directories" => t.support
         /\ step.do = "copy-binary" => t.binary
         /\ step.do = "write-plist" => t.plist = port
         /\ step.do = "add-queue" => t.queue = port
         /\ step.do = "back-up-ppd" => t.backup_ppd
         /\ step.do = "remove-vendor-queue" => ~t.vendor_queue
         /\ step.do = "bootout" => t.loaded = 0
         /\ step.do = "remove-plist" => t.plist = 0
         /\ step.do = "remove-newsyslog" => ~t.newsyslog
         /\ step.do = "remove-binary" => ~t.binary
         /\ step.do = "remove-support" => ~t.support
         /\ step.do = "delete-user" => t.user = "none"
         /\ step.do = "restore-vendor-queue" => t.vendor_queue /\ t.vendor_ppd
<1> USE DEF effect, FileSteps
<1>1. CASE step.do \in FileSteps
  BY <1>1 DEF file_effect, Machines
<1>2. CASE step.do \notin FileSteps
  BY <1>2 DEF command_effect, Machines
<1> QED BY <1>1, <1>2

LEMMA HalfKeeps ==
  ASSUME NEW s \in Machines, NEW step, NEW t \in half(s, step)
  PROVE  /\ t \in Machines
         /\ t.user = s.user /\ t.binary = s.binary /\ t.loaded = s.loaded
         /\ t.queue = s.queue /\ t.own = s.own
         /\ t.vendor_queue = s.vendor_queue /\ t.vendor_ppd = s.vendor_ppd
         /\ step.do # "remove-support" => t.backup_ppd = s.backup_ppd
         /\ step.do # "write-plist" => t.plist = s.plist
         /\ step.do # "make-directories" => t.support = s.support
<1>0. CASE t = s
  BY <1>0
<1>1. CASE step.do = "remove-support" /\ t # s
  <2>1. PICK kept \in SUBSET {"marker", "ppd", "uri", "tar"} :
          t = [s EXCEPT !.marker = @ /\ "marker" \in kept,
                        !.backup_ppd = @ /\ "ppd" \in kept,
                        !.backup_uri = @ /\ "uri" \in kept,
                        !.tar = IF "tar" \in kept THEN @ ELSE "none"]
    BY <1>1 DEF half, file_half, command_half
  <2> DEFINE b == s.marker /\ "marker" \in kept
             c == s.backup_ppd /\ "ppd" \in kept
             d == s.backup_uri /\ "uri" \in kept
             e == IF "tar" \in kept THEN s.tar ELSE "none"
             s1 == [s EXCEPT !.marker = b]
             s2 == [s1 EXCEPT !.backup_ppd = c]
             s3 == [s2 EXCEPT !.backup_uri = d]
             s4 == [s3 EXCEPT !.tar = e]
  <2>2. /\ b \in BOOLEAN /\ c \in BOOLEAN /\ d \in BOOLEAN
        /\ e \in {"whole", "part", "none"}
    BY DEF Machines
  <2>3. t = s4
    BY <2>1 DEF Machines
  <2>4. s4 \in Machines
    <3> HIDE DEF b, c, d, e
    <3>1. s1 \in Machines
      BY <2>2, FieldSet, Zenon
    <3> HIDE DEF s1
    <3>2. s2 \in Machines
      BY <2>2, <3>1, FieldSet, Zenon
    <3> HIDE DEF s2
    <3>3. s3 \in Machines
      BY <2>2, <3>2, FieldSet, Zenon
    <3> HIDE DEF s3
    <3> QED BY <2>2, <3>3, FieldSet, Zenon
  <2>5. /\ t.user = s.user /\ t.binary = s.binary /\ t.loaded = s.loaded
        /\ t.queue = s.queue /\ t.own = s.own
        /\ t.vendor_queue = s.vendor_queue /\ t.vendor_ppd = s.vendor_ppd
        /\ t.plist = s.plist /\ t.support = s.support
    BY <2>1 DEF Machines
  <2> QED BY <2>3, <2>4, <2>5, <1>1
<1>2. CASE step.do # "remove-support" /\ t # s
  <2>1. \/ step.do = "make-directories" /\ t = [s EXCEPT !.support = TRUE]
        \/ step.do = "back-up-uri" /\ t = [s EXCEPT !.backup_uri = FALSE]
        \/ step.do = "write-plist" /\ t = [s EXCEPT !.plist = Broken]
        \/ step.do = "write-newsyslog" /\ t = [s EXCEPT !.newsyslog = TRUE]
        \/ step.do = "write-marker" /\ t = [s EXCEPT !.marker = TRUE]
        \/ step.do = "archive-driver" /\ t = [s EXCEPT !.tar = "part"]
        \/ step.do = "delete-driver" /\ t = [s EXCEPT !.driver = "part"]
    BY <1>2 DEF half, file_half, command_half
  <2>2. t \in Machines
    BY <2>1, FieldSet
  <2>3. /\ t.user = s.user /\ t.binary = s.binary /\ t.loaded = s.loaded
        /\ t.queue = s.queue /\ t.own = s.own
        /\ t.vendor_queue = s.vendor_queue /\ t.vendor_ppd = s.vendor_ppd
        /\ t.backup_ppd = s.backup_ppd
        /\ step.do # "write-plist" => t.plist = s.plist
        /\ step.do # "make-directories" => t.support = s.support
    BY <2>1 DEF Machines
  <2> QED BY <2>2, <2>3
<1> QED BY <1>0, <1>1, <1>2

-----------------------------------------------------------------------------
(* What is left of a plan once its first step is taken.                    *)
Unfolds(plan, step, rest) ==
  /\ \A x : Has(plan, x) => step.do = x \/ Has(rest, x)
  /\ \A a, b : Preceded(plan, a, b) =>
                 step.do = a \/ (Preceded(rest, a, b) /\ step.do # b)
  /\ \A a, b : Followed(plan, a, b) =>
                 Followed(rest, a, b) /\ (step.do = a => Has(rest, b))

LEMMA Unfold ==
  ASSUME NEW S, NEW p \in Seq(S), p # << >>
  PROVE  Unfolds(p, Head(p), Tail(p)) /\ Head(p) \in S /\ Tail(p) \in Seq(S)
<1>1. \A x : Has(p, x) => Head(p).do = x \/ Has(Tail(p), x)
  BY HasTail
<1>2. \A a, b : Preceded(p, a, b) =>
        Head(p).do = a \/ (Preceded(Tail(p), a, b) /\ Head(p).do # b)
  BY PrecededTail
<1>3. \A a, b : Followed(p, a, b) =>
        Followed(Tail(p), a, b) /\ (Head(p).do = a => Has(Tail(p), b))
  BY FollowedTail
<1>4. Head(p) \in S /\ Tail(p) \in Seq(S)
  OBVIOUS
<1> QED BY <1>1, <1>2, <1>3, <1>4 DEF Unfolds

LEMMA IdleType ==
  /\ Idle \in Runs
  /\ Idle.cmd = "none" /\ Idle.port = 0 /\ Idle.plan = << >>
<1>1. /\ Idle.cmd = "none" /\ Idle.port = 0 /\ Idle.plan = << >>
  BY DEF Idle
<1>2. << >> \in Seq(AnySteps)
  OBVIOUS
<1> QED BY <1>1, <1>2 DEF Idle, Runs

LEMMA Initially == Init => IInv
<1> SUFFICES ASSUME Init PROVE IInv
  OBVIOUS
<1>1. PICK v \in VendorStarts : m = Fresh(v)
  BY DEF Init
<1>2. v \in [queue : BOOLEAN, ppd : BOOLEAN, driver : {"whole", "none"}]
  BY ServiceAssumption
<1>3. m \in Machines /\ m.vendor_queue = v.queue /\ m.vendor_ppd = v.ppd
  BY <1>1, <1>2 DEF Fresh, Machines
<1>4. run \in Runs /\ run.cmd = "none" /\ run.port = 0 /\ run.plan = << >>
  BY IdleType DEF Init
<1>5. Types
  BY <1>3, <1>4 DEF Types, Init
<1>6. Backed
  BY <1>3, <1>4 DEF Backed, QueueHasPpd, Init
<1> QED BY <1>4, <1>5, <1>6 DEF IInv, Takes, Builds, Clears

(* A command that ends or is not running promises nothing.                 *)
LEMMA Rest ==
  ASSUME run'.cmd = "none"
  PROVE  Takes' /\ Builds' /\ Clears'
BY DEF Takes, Builds, Clears

(* The commands begin with the invariant true of their plans.              *)
LEMMA InstallStep ==
  ASSUME IInv, NEW port \in Ports, NEW keep \in BOOLEAN,
         cmd_install(port, keep)
  PROVE  IInv'
<1>1. PICK q \in {"none", "installer", "own"} :
        LET info == inspect(m, q)
        IN  Begin([Idle EXCEPT !.cmd = "install", !.port = port,
                               !.keep_vendor = keep,
                               !.plan = install_plan(info, keep)])
  BY DEF cmd_install, Looks, OurQueues
<1> DEFINE info == inspect(m, q)
           p == install_plan(info, keep)
<1>0. m \in Machines /\ port \in Nat
  BY ServiceAssumption DEF IInv, Types
<1>2. /\ p \in Seq(InstallSteps)
      /\ \A x \in {"copy-binary", "make-directories", "write-plist",
                   "bootstrap", "wait-ipp"} : Has(p, x)
      /\ info.user_exists \/ Has(p, "user-attributes")
      /\ info.our_queue \/ Has(p, "add-queue")
      /\ info.vendor_queue /\ ~keep => Has(p, "remove-vendor-queue")
      /\ Preceded(p, "probe", "remove-vendor-queue")
      /\ (info.vendor_queue => info.vendor_ppd) =>
           Preceded(p, "back-up-ppd", "remove-vendor-queue")
      /\ Preceded(p, "write-plist", "bootstrap")
      /\ Followed(p, "bootout", "bootstrap")
      /\ Followed(p, "bootout", "wait-ipp")
      /\ Followed(p, "bootstrap", "wait-ipp")
      /\ Followed(p, "create-user", "user-attributes")
  <2> HIDE DEF info, p
  <2>1. info = inspect(m, q) /\ p = install_plan(info, keep)
    BY DEF info, p
  <2> QED BY <1>0, <2>1, InstallPlan, Zenon
<1>3. /\ info.vendor_queue = m.vendor_queue /\ info.vendor_ppd = m.vendor_ppd
      /\ info.user_exists <=> m.user \in {"uid", "full"}
      /\ info.our_queue => m.queue = DefaultPort \/ m.own
  BY DEF inspect, OurQueues
<1>4. UNCHANGED <<m, usb, serving, other, owed>>
      /\ run' = [Idle EXCEPT !.cmd = "install", !.port = port,
                             !.keep_vendor = keep, !.plan = p]
  BY <1>1 DEF Begin
<1> HIDE DEF info, p
<1>5. p \in Seq(AnySteps)
  BY <1>2 DEF AnySteps
<1>6. /\ run'.cmd = "install" /\ run'.port = port /\ run'.keep_vendor = keep
      /\ run'.plan = p /\ run'.probed = FALSE /\ run'.replug = FALSE
      /\ run' \in Runs
  BY <1>0, <1>4, <1>5 DEF Idle, Runs
<1>7. Types'
  BY <1>2, <1>4, <1>6 DEF IInv, Types
<1>8. Backed'
  BY <1>2, <1>3, <1>4, <1>6 DEF IInv, Backed
<1>9. Takes'
  BY <1>2, <1>3, <1>4, <1>6 DEF Takes
<1>10. Builds'
  BY <1>2, <1>3, <1>4, <1>6 DEF Builds
<1>11. Clears'
  BY <1>6 DEF Clears
<1> QED BY <1>7, <1>8, <1>9, <1>10, <1>11 DEF IInv

LEMMA UninstallStep ==
  ASSUME IInv, NEW purge \in BOOLEAN, cmd_uninstall(purge)
  PROVE  IInv'
<1>1. PICK q \in {"none", "installer", "own"} :
        LET info == inspect(m, q)
        IN  Begin([Idle EXCEPT !.cmd = "uninstall", !.purge = purge,
                               !.plan = uninstall_plan(info, purge)])
  BY DEF cmd_uninstall, Looks, OurQueues
<1> DEFINE info == inspect(m, q)
           p == uninstall_plan(info, purge)
<1>0. m \in Machines
  BY DEF IInv, Types
<1>2. /\ p \in Seq(UninstallSteps)
      /\ \A x \in {"remove-plist", "remove-newsyslog", "remove-binary"} :
           Has(p, x)
      /\ info.loaded => Has(p, "bootout")
      /\ info.backup_exists /\ ~info.vendor_queue =>
           Has(p, "restore-vendor-queue")
      /\ purge => Has(p, "remove-support")
      /\ purge /\ info.user_exists => Has(p, "delete-user")
  <2> HIDE DEF info, p
  <2>1. info = inspect(m, q) /\ p = uninstall_plan(info, purge)
    BY DEF info, p
  <2> QED BY <1>0, <2>1, UninstallPlan, Zenon
<1>3. /\ info.vendor_queue = m.vendor_queue
      /\ info.backup_exists = m.backup_ppd
      /\ info.user_exists <=> m.user \in {"uid", "full"}
      /\ info.loaded <=> m.loaded # 0
  BY DEF inspect
<1>4. UNCHANGED <<m, usb, serving, other, owed>>
      /\ run' = [Idle EXCEPT !.cmd = "uninstall", !.purge = purge, !.plan = p]
  BY <1>1 DEF Begin
<1> HIDE DEF info, p
<1>5. p \in Seq(AnySteps)
  BY <1>2 DEF AnySteps
<1>6. /\ run'.cmd = "uninstall" /\ run'.purge = purge /\ run'.plan = p
      /\ run'.port = 0
      /\ run' \in Runs
  BY <1>0, <1>4, <1>5 DEF Idle, Runs
<1>7. Types'
  BY <1>2, <1>4, <1>6 DEF IInv, Types
<1>8. Backed'
  BY <1>4, <1>6 DEF IInv, Backed
<1>9. Takes' /\ Builds'
  BY <1>6 DEF Takes, Builds
<1>10. Clears'
  BY <1>2, <1>3, <1>4, <1>6 DEF IInv, Backed, Clears
<1> QED BY <1>7, <1>8, <1>9, <1>10 DEF IInv

LEMMA RemoveStep ==
  ASSUME IInv, cmd_remove_vendor
  PROVE  IInv'
<1>1. PICK q \in {"none", "installer", "own"} :
        LET info == inspect(m, q)
        IN  Begin([Idle EXCEPT !.cmd = "remove-vendor-driver",
                               !.plan = remove_vendor_plan(info)])
  BY DEF cmd_remove_vendor, Looks, OurQueues
<1> DEFINE info == inspect(m, q)
           p == remove_vendor_plan(info)
<1>0. m \in Machines
  BY DEF IInv, Types
<1>2. p \in Seq(RemoveSteps)
  <2> HIDE DEF info, p
  <2>1. info = inspect(m, q) /\ p = remove_vendor_plan(info)
    BY DEF info, p
  <2> QED BY <1>0, <2>1, RemovePlan, Zenon
<1>4. UNCHANGED <<m, usb, serving, other, owed>>
      /\ run' = [Idle EXCEPT !.cmd = "remove-vendor-driver", !.plan = p]
  BY <1>1 DEF Begin
<1> HIDE DEF info, p
<1>5. p \in Seq(AnySteps)
  BY <1>2 DEF AnySteps
<1>6. /\ run'.cmd = "remove-vendor-driver" /\ run'.plan = p /\ run'.port = 0
      /\ run' \in Runs
  BY <1>0, <1>4, <1>5 DEF Idle, Runs
<1>7. Types'
  BY <1>2, <1>4, <1>6 DEF IInv, Types
<1>8. Backed'
  BY <1>4, <1>6 DEF IInv, Backed
<1> QED BY <1>6, <1>7, <1>8 DEF IInv, Takes, Builds, Clears

(* The names of the steps that a command may have in its plan.             *)
LEMMA StepNames ==
  ASSUME IInv, run.plan # << >>, NEW step, step = Head(run.plan)
  PROVE  /\ run.cmd \in {"install", "uninstall", "remove-vendor-driver"}
         /\ Unfolds(run.plan, step, Tail(run.plan))
         /\ Tail(run.plan) \in Seq(AnySteps)
         /\ run.cmd = "install" =>
              /\ Tail(run.plan) \in Seq(InstallSteps)
              /\ step.do \in InstallNames \cup InstallTried
              /\ step.ignore_failure => step.do \in InstallTried
         /\ run.cmd = "uninstall" =>
              /\ Tail(run.plan) \in Seq(UninstallSteps)
              /\ step.do \in UninstallNames \cup UninstallTried
         /\ run.cmd = "remove-vendor-driver" =>
              /\ Tail(run.plan) \in Seq(RemoveSteps)
              /\ step.do \in RemoveNames \cup RemoveTried
         /\ step.ignore_failure \in BOOLEAN
<1>1. /\ run.plan \in Seq(AnySteps)
      /\ run.cmd \in {"install", "uninstall", "remove-vendor-driver"}
  BY DEF IInv, Types, Runs
<1>2. /\ Unfolds(run.plan, step, Tail(run.plan))
      /\ step \in AnySteps
      /\ Tail(run.plan) \in Seq(AnySteps)
  BY <1>1, Unfold, Zenon
<1>3. step.ignore_failure \in BOOLEAN
  BY <1>2 DEF AnySteps, InstallSteps, UninstallSteps, RemoveSteps, Steps
<1>4. ASSUME run.cmd = "install"
      PROVE  step \in InstallSteps /\ Tail(run.plan) \in Seq(InstallSteps)
  BY <1>4, Unfold, Zenon DEF IInv, Types
<1>5. ASSUME run.cmd = "uninstall"
      PROVE  step \in UninstallSteps /\ Tail(run.plan) \in Seq(UninstallSteps)
  BY <1>5, Unfold, Zenon DEF IInv, Types
<1>6. ASSUME run.cmd = "remove-vendor-driver"
      PROVE  step \in RemoveSteps /\ Tail(run.plan) \in Seq(RemoveSteps)
  BY <1>6, Unfold, Zenon DEF IInv, Types
<1>7. CASE run.cmd = "install"
  <2>1. /\ step.do \in InstallNames \cup InstallTried
        /\ step.ignore_failure => step.do \in InstallTried
    BY <1>4, <1>7 DEF InstallSteps, Steps
  <2> QED BY <1>1, <1>2, <1>3, <1>4, <1>7, <2>1
<1>8. CASE run.cmd = "uninstall"
  <2>1. step.do \in UninstallNames \cup UninstallTried
    BY <1>5, <1>8 DEF UninstallSteps, Steps
  <2> QED BY <1>1, <1>2, <1>3, <1>5, <1>8, <2>1
<1>9. CASE run.cmd = "remove-vendor-driver"
  <2>1. step.do \in RemoveNames \cup RemoveTried
    BY <1>6, <1>9 DEF RemoveSteps, Steps
  <2> QED BY <1>1, <1>2, <1>3, <1>6, <1>9, <2>1
<1> QED BY <1>1, <1>7, <1>8, <1>9

(* A step that is done passes the invariant on to the rest of the plan.    *)
LEMMA DoneStep ==
  ASSUME IInv, StepDone
  PROVE  IInv'
<1> DEFINE step == Head(run.plan)
           rest == Tail(run.plan)
<1>1. /\ run.plan # << >> /\ can(m, run.port, step)
      /\ m' = effect(m, run.port, step)
      /\ owed' = Owes(step, m, m')
      /\ run' = [run EXCEPT !.plan = rest,
                            !.probed = @ \/ step.do = "probe"]
      /\ usb' = usb /\ other' = other
      /\ serving' = IF m'.loaded = 0 THEN 0 ELSE serving
  BY DEF StepDone, ProcessFollows
<1>2. /\ m \in Machines /\ run \in Runs /\ run.port \in Nat
      /\ usb \in BOOLEAN /\ owed \in BOOLEAN /\ run.probed \in BOOLEAN
      /\ serving \in {0, m.loaded} /\ other \in Others \cup {0}
  BY DEF IInv, Types, Runs
<1>3. m' \in Machines
  BY <1>1, <1>2, EffectType
<1>4. /\ run.cmd \in {"install", "uninstall", "remove-vendor-driver"}
      /\ Unfolds(run.plan, step, rest)
      /\ rest \in Seq(AnySteps)
      /\ run.cmd = "install" => /\ rest \in Seq(InstallSteps)
                                /\ step.do \in InstallNames \cup InstallTried
      /\ run.cmd = "uninstall" =>
           /\ rest \in Seq(UninstallSteps)
           /\ step.do \in UninstallNames \cup UninstallTried
      /\ run.cmd = "remove-vendor-driver" =>
           /\ rest \in Seq(RemoveSteps)
           /\ step.do \in RemoveNames \cup RemoveTried
  BY <1>1, StepNames
<1> USE DEF InstallNames, InstallTried, UninstallNames, UninstallTried,
            RemoveNames, RemoveTried
<1> HIDE DEF step, rest
<1>5. /\ run'.cmd = run.cmd /\ run'.port = run.port
      /\ run'.keep_vendor = run.keep_vendor /\ run'.purge = run.purge
      /\ run'.lax = run.lax /\ run'.replug = run.replug
      /\ run'.upset = run.upset
      /\ run'.plan = rest /\ run' \in Runs
      /\ run'.probed = (run.probed \/ step.do = "probe")
  BY <1>1, <1>2, <1>4 DEF Runs
<1>6. /\ step.do \notin {"create-user", "user-id", "user-attributes",
                         "delete-user"} => m'.user = m.user
      /\ step.do \notin {"make-directories", "remove-support"} =>
           m'.support = m.support
      /\ step.do \notin {"copy-binary", "remove-binary"} =>
           m'.binary = m.binary
      /\ step.do \notin {"write-plist", "remove-plist"} => m'.plist = m.plist
      /\ step.do \notin {"write-newsyslog", "remove-newsyslog"} =>
           m'.newsyslog = m.newsyslog
      /\ step.do \notin {"bootout", "bootstrap"} => m'.loaded = m.loaded
      /\ step.do \notin {"add-queue", "remove-queue"} => m'.queue = m.queue
      /\ step.do # "remove-queue" => m'.own = m.own
  BY <1>1, <1>2, EffectKeeps
<1>7. /\ step.do \notin {"remove-vendor-queue", "restore-vendor-queue"} =>
           m'.vendor_queue = m.vendor_queue /\ m'.vendor_ppd = m.vendor_ppd
      /\ step.do \notin {"back-up-ppd", "remove-support"} =>
           m'.backup_ppd = m.backup_ppd
  BY <1>1, <1>2, EffectKeeps
<1>8. /\ step.do = "user-id" => m'.user = "uid"
      /\ step.do = "user-attributes" => m'.user = "full"
      /\ step.do = "make-directories" => m'.support
      /\ step.do = "copy-binary" => m'.binary
      /\ step.do = "write-plist" => m'.plist = run.port
      /\ step.do = "add-queue" => m'.queue = run.port
      /\ step.do = "back-up-ppd" => m'.backup_ppd
      /\ step.do = "remove-vendor-queue" => ~m'.vendor_queue
      /\ step.do = "bootout" => m'.loaded = 0
      /\ step.do = "remove-plist" => m'.plist = 0
      /\ step.do = "remove-newsyslog" => ~m'.newsyslog
      /\ step.do = "remove-binary" => ~m'.binary
      /\ step.do = "remove-support" => ~m'.support
      /\ step.do = "delete-user" => m'.user = "none"
      /\ step.do = "restore-vendor-queue" => m'.vendor_queue /\ m'.vendor_ppd
  BY <1>1, <1>2, EffectDoes
<1>9. /\ step.do = "wait-ipp" => serving = run.port \/ other = run.port
      /\ step.do = "bootstrap" => m.loaded = 0 /\ m'.loaded = m.plist
  BY <1>1, <1>2 DEF can, command_can, ipp_port_open, effect, command_effect,
                    FileSteps, Machines
<1>17. serving' \in {0, m'.loaded} /\ other' \in Others \cup {0}
  <2>1. serving' = IF m'.loaded = 0 THEN 0 ELSE serving
    BY <1>1 DEF ProcessFollows
  <2>2. serving \in {0, m.loaded} /\ other \in Others \cup {0} /\ other' = other
    BY <1>1 DEF IInv, Types
  <2>3. CASE step.do = "bootstrap"
    BY <2>1, <2>2, <2>3, <1>9
  <2>4. CASE step.do = "bootout"
    BY <2>1, <2>2, <2>4, <1>8
  <2>5. CASE step.do \notin {"bootout", "bootstrap"}
    BY <2>1, <2>2, <2>5, <1>6
  <2>6. QED
    BY <2>3, <2>4, <2>5
<1>10. owed' = (IF m.vendor_queue /\ ~m'.vendor_queue
                THEN run.cmd = "install"
                ELSE owed /\ ~m'.vendor_queue /\ step.do # "remove-support")
  BY <1>1 DEF Owes
<1>11. Types'
  BY <1>1, <1>2, <1>3, <1>4, <1>5, <1>10, <1>17 DEF IInv, Types
<1>12. ASSUME QueueHasPpd
       PROVE  /\ m'.vendor_queue => m'.vendor_ppd
              /\ owed' => m'.backup_ppd /\ ~m'.vendor_queue
              /\ run'.cmd = "install" =>
                   \/ m'.backup_ppd
                   \/ Preceded(run'.plan, "back-up-ppd", "remove-vendor-queue")
  <2>1. /\ m.vendor_queue => m.vendor_ppd
        /\ owed => m.backup_ppd /\ ~m.vendor_queue
        /\ run.cmd = "install" =>
             \/ m.backup_ppd
             \/ Preceded(run.plan, "back-up-ppd", "remove-vendor-queue")
    BY <1>12 DEF IInv, Backed
  <2>2. m'.vendor_queue => m'.vendor_ppd
    BY <1>7, <1>8, <2>1
  <2>3. ASSUME run.cmd = "install"
        PROVE  /\ \/ m'.backup_ppd
                  \/ Preceded(rest, "back-up-ppd", "remove-vendor-queue")
               /\ step.do = "remove-vendor-queue" => m'.backup_ppd
               /\ m.backup_ppd => m'.backup_ppd
    BY <2>1, <2>3, <1>4, <1>7, <1>8 DEF Unfolds
  <2>4. ASSUME owed' PROVE m'.backup_ppd /\ ~m'.vendor_queue
    <3>1. CASE m.vendor_queue /\ ~m'.vendor_queue
      BY <3>1, <2>3, <2>4, <1>4, <1>7, <1>10
    <3>2. CASE ~(m.vendor_queue /\ ~m'.vendor_queue)
      <4>1. owed /\ ~m'.vendor_queue /\ step.do # "remove-support"
        BY <3>2, <2>4, <1>10
      <4> QED BY <4>1, <2>1, <1>7, <1>8
    <3> QED BY <3>1, <3>2
  <2> QED BY <2>2, <2>3, <2>4, <1>5
<1>13. Backed'
  BY <1>12 DEF Backed, QueueHasPpd
<1>14. Takes'
  <2> SUFFICES ASSUME run'.cmd = "install"
               PROVE  /\ \/ run'.probed
                         \/ Preceded(run'.plan, "probe", "remove-vendor-queue")
                      /\ (~run'.keep_vendor /\ ~run'.replug
                          /\ m'.vendor_queue) =>
                           Has(run'.plan, "remove-vendor-queue")
    BY DEF Takes
  <2>1. /\ run.probed \/ Preceded(run.plan, "probe", "remove-vendor-queue")
        /\ ~run.keep_vendor /\ ~run.replug /\ m.vendor_queue =>
             Has(run.plan, "remove-vendor-queue")
    BY <1>5 DEF IInv, Takes
  <2>2. run'.probed \/ Preceded(run'.plan, "probe", "remove-vendor-queue")
    BY <2>1, <1>4, <1>5 DEF Unfolds
  <2>3. ASSUME ~run'.keep_vendor, ~run'.replug, m'.vendor_queue
        PROVE  Has(run'.plan, "remove-vendor-queue")
    <3>1. m.vendor_queue /\ step.do # "remove-vendor-queue"
      BY <2>3, <1>4, <1>5, <1>7, <1>8
    <3> QED BY <2>1, <2>3, <3>1, <1>4, <1>5 DEF Unfolds
  <2> QED BY <2>2, <2>3
<1>15. Builds'
  <2> SUFFICES ASSUME run.cmd = "install"
               PROVE  /\ m'.binary \/ Has(rest, "copy-binary")
                      /\ m'.support \/ Has(rest, "make-directories")
                      /\ m'.plist = run.port \/ Has(rest, "write-plist")
                      /\ \/ m'.plist = run.port
                         \/ Preceded(rest, "write-plist", "bootstrap")
                      /\ \/ m'.user \in {"uid", "full"}
                         \/ Has(rest, "user-attributes")
                      /\ Followed(rest, "create-user", "user-attributes")
                      /\ m'.loaded = run.port \/ Has(rest, "bootstrap")
                      /\ Followed(rest, "bootout", "bootstrap")
                      /\ \/ serving' = run.port \/ run.upset \/ other' # 0
                         \/ Has(rest, "wait-ipp")
                      /\ Followed(rest, "bootout", "wait-ipp")
                      /\ Followed(rest, "bootstrap", "wait-ipp")
                      /\ OnePort => \/ m'.queue = DefaultPort \/ m'.own
                                    \/ Has(rest, "add-queue")
    BY <1>5 DEF Builds, OnePort
  <2>1. /\ m.binary \/ Has(run.plan, "copy-binary")
        /\ m.support \/ Has(run.plan, "make-directories")
        /\ m.plist = run.port \/ Has(run.plan, "write-plist")
        /\ m.plist = run.port \/ Preceded(run.plan, "write-plist", "bootstrap")
        /\ m.user \in {"uid", "full"} \/ Has(run.plan, "user-attributes")
        /\ Followed(run.plan, "create-user", "user-attributes")
        /\ m.loaded = run.port \/ Has(run.plan, "bootstrap")
        /\ Followed(run.plan, "bootout", "bootstrap")
        /\ \/ serving = run.port \/ run.upset \/ other # 0
           \/ Has(run.plan, "wait-ipp")
        /\ Followed(run.plan, "bootout", "wait-ipp")
        /\ Followed(run.plan, "bootstrap", "wait-ipp")
        /\ OnePort => \/ m.queue = DefaultPort \/ m.own
                      \/ Has(run.plan, "add-queue")
    BY DEF IInv, Builds
  <2>2. /\ Followed(rest, "create-user", "user-attributes")
        /\ Followed(rest, "bootout", "bootstrap")
        /\ Followed(rest, "bootout", "wait-ipp")
        /\ Followed(rest, "bootstrap", "wait-ipp")
        /\ step.do = "create-user" => Has(rest, "user-attributes")
        /\ step.do = "bootout" => Has(rest, "bootstrap")
        /\ step.do = "bootout" => Has(rest, "wait-ipp")
        /\ step.do = "bootstrap" => Has(rest, "wait-ipp")
    BY <2>1, <1>4 DEF Unfolds
  <2>3. m'.binary \/ Has(rest, "copy-binary")
    BY <2>1, <1>4, <1>6, <1>8 DEF Unfolds
  <2>4. m'.support \/ Has(rest, "make-directories")
    BY <2>1, <1>4, <1>6, <1>8 DEF Unfolds
  <2>5. m'.plist = run.port \/ Has(rest, "write-plist")
    BY <2>1, <1>4, <1>6, <1>8 DEF Unfolds
  <2>6. m'.user \in {"uid", "full"} \/ Has(rest, "user-attributes")
    BY <2>1, <2>2, <1>4, <1>6, <1>8 DEF Unfolds
  <2>9. /\ run.port # 0
        /\ step.do \notin {"remove-plist", "restore-vendor-queue"}
    BY <1>4, ServiceAssumption DEF IInv, Types
  <2>10. \/ m'.plist = run.port
         \/ Preceded(rest, "write-plist", "bootstrap")
    BY <2>1, <2>9, <1>4, <1>6, <1>8 DEF Unfolds
  <2>7. m'.loaded = run.port \/ Has(rest, "bootstrap")
    <3>1. CASE step.do = "bootstrap"
      <4>1. m.plist = run.port
        BY <3>1, <2>1, <1>4 DEF Unfolds
      <4> QED BY <4>1, <3>1, <1>9
    <3>2. CASE step.do = "bootout"
      BY <3>2, <2>2
    <3>3. CASE step.do \notin {"bootstrap", "bootout"}
      BY <3>3, <2>1, <1>4, <1>6 DEF Unfolds
    <3> QED BY <3>1, <3>2, <3>3
  <2>11. \/ serving' = run.port \/ run.upset \/ other' # 0
         \/ Has(rest, "wait-ipp")
    <3>1. CASE step.do = "wait-ipp"
      <4>1. other' # 0 \/ serving = run.port
        BY <3>1, <2>9, <1>1, <1>9
      <4>2. ASSUME serving = run.port PROVE serving' = run.port
        BY <4>2, <3>1, <2>9, <1>1, <1>2, <1>6
      <4> QED BY <4>1, <4>2
    <3>2. CASE step.do \in {"bootout", "bootstrap"}
      BY <3>2, <2>2
    <3>3. CASE step.do \notin {"wait-ipp", "bootout", "bootstrap"}
      <4>1. serving = run.port => serving' = run.port
        BY <3>3, <2>9, <1>1, <1>2, <1>6
      <4> QED BY <4>1, <3>3, <2>1, <1>1, <1>4 DEF Unfolds
    <3> QED BY <3>1, <3>2, <3>3
  <2>8. ASSUME OnePort
        PROVE  m'.queue = DefaultPort \/ m'.own \/ Has(rest, "add-queue")
    <3>1. run.port = DefaultPort
      BY <2>8 DEF IInv, Types, OnePort
    <3> QED BY <3>1, <2>1, <2>8, <1>4, <1>6, <1>8 DEF Unfolds
  <2> QED BY <2>2, <2>3, <2>4, <2>5, <2>6, <2>7, <2>8, <2>10, <2>11
<1>16. Clears'
  <2> SUFFICES ASSUME run.cmd = "uninstall", ~run.lax
               PROVE  /\ m'.plist = 0 \/ Has(rest, "remove-plist")
                      /\ m'.loaded = 0 \/ Has(rest, "bootout")
                      /\ m'.binary => Has(rest, "remove-binary")
                      /\ m'.newsyslog => Has(rest, "remove-newsyslog")
                      /\ run.purge /\ m'.support => Has(rest, "remove-support")
                      /\ run.purge /\ m'.user \in {"uid", "full"} =>
                           Has(rest, "delete-user")
                      /\ QueueHasPpd /\ owed' =>
                           Has(rest, "restore-vendor-queue")
    BY <1>5 DEF Clears, QueueHasPpd
  <2>1. /\ m.plist = 0 \/ Has(run.plan, "remove-plist")
        /\ m.loaded = 0 \/ Has(run.plan, "bootout")
        /\ m.binary => Has(run.plan, "remove-binary")
        /\ m.newsyslog => Has(run.plan, "remove-newsyslog")
        /\ run.purge /\ m.support => Has(run.plan, "remove-support")
        /\ run.purge /\ m.user \in {"uid", "full"} =>
             Has(run.plan, "delete-user")
        /\ QueueHasPpd /\ owed => Has(run.plan, "restore-vendor-queue")
    BY DEF IInv, Clears
  <2>2. m'.plist = 0 \/ Has(rest, "remove-plist")
    BY <2>1, <1>4, <1>6, <1>8 DEF Unfolds
  <2>3. m'.loaded = 0 \/ Has(rest, "bootout")
    BY <2>1, <1>4, <1>6, <1>8 DEF Unfolds
  <2>4. m'.binary => Has(rest, "remove-binary")
    BY <2>1, <1>4, <1>6, <1>8 DEF Unfolds
  <2>5. m'.newsyslog => Has(rest, "remove-newsyslog")
    BY <2>1, <1>4, <1>6, <1>8 DEF Unfolds
  <2>6. run.purge /\ m'.support => Has(rest, "remove-support")
    BY <2>1, <1>4, <1>6, <1>8 DEF Unfolds
  <2>7. run.purge /\ m'.user \in {"uid", "full"} => Has(rest, "delete-user")
    BY <2>1, <1>4, <1>6, <1>8 DEF Unfolds
  <2>8. ASSUME QueueHasPpd, owed' PROVE Has(rest, "restore-vendor-queue")
    <3>1. ~(m.vendor_queue /\ ~m'.vendor_queue)
      BY <1>4, <1>7, <1>8
    <3>2. owed /\ ~m'.vendor_queue
      BY <3>1, <2>8, <1>10
    <3> QED BY <3>2, <2>1, <2>8, <1>4, <1>8 DEF Unfolds
  <2> QED BY <2>2, <2>3, <2>4, <2>5, <2>6, <2>7, <2>8
<1> QED BY <1>11, <1>13, <1>14, <1>15, <1>16 DEF IInv

(* A step that fails or is cut short owes what was owed before it, unless  *)
(* the user has the backups deleted.                                       *)
LEMMA Cut ==
  ASSUME IInv, run.plan # << >>, NEW step, step = Head(run.plan),
         m' \in half(m, step), owed' = Owes(step, m, m')
  PROVE  /\ m' \in Machines /\ owed' \in BOOLEAN
         /\ owed' => owed
         /\ QueueHasPpd => /\ m'.vendor_queue => m'.vendor_ppd
                           /\ owed' => m'.backup_ppd /\ ~m'.vendor_queue
         /\ step.do # "remove-support" => m'.backup_ppd = m.backup_ppd
         /\ m'.user = m.user /\ m'.binary = m.binary /\ m'.loaded = m.loaded
         /\ m'.queue = m.queue /\ m'.own = m.own
         /\ m'.vendor_queue = m.vendor_queue
         /\ step.do # "write-plist" => m'.plist = m.plist
         /\ step.do # "make-directories" => m'.support = m.support
<1>1. m \in Machines /\ owed \in BOOLEAN
  BY DEF IInv, Types
<1>2. /\ m' \in Machines
      /\ m'.user = m.user /\ m'.binary = m.binary /\ m'.loaded = m.loaded
      /\ m'.queue = m.queue /\ m'.own = m.own
      /\ m'.vendor_queue = m.vendor_queue /\ m'.vendor_ppd = m.vendor_ppd
      /\ step.do # "remove-support" => m'.backup_ppd = m.backup_ppd
      /\ step.do # "write-plist" => m'.plist = m.plist
      /\ step.do # "make-directories" => m'.support = m.support
  BY <1>1, HalfKeeps
<1>3. owed' = (owed /\ ~m'.vendor_queue /\ step.do # "remove-support")
  BY <1>2 DEF Owes
<1>4. QueueHasPpd => /\ m'.vendor_queue => m'.vendor_ppd
                     /\ owed' => m'.backup_ppd /\ ~m'.vendor_queue
  BY <1>2, <1>3 DEF IInv, Backed
<1> QED BY <1>1, <1>2, <1>3, <1>4

LEMMA StopStep ==
  ASSUME IInv, run.plan # << >>, NEW step, step = Head(run.plan),
         m' \in half(m, step), owed' = Owes(step, m, m'),
         run' = Idle, usb' = usb, serving' = serving, other' = other
  PROVE  IInv'
<1>1. /\ m' \in Machines /\ owed' \in BOOLEAN
      /\ QueueHasPpd => /\ m'.vendor_queue => m'.vendor_ppd
                        /\ owed' => m'.backup_ppd /\ ~m'.vendor_queue
      /\ m'.loaded = m.loaded
  BY Cut
<1>2. /\ run' \in Runs /\ run'.cmd = "none" /\ run'.port = 0
      /\ run'.plan = << >>
  BY IdleType
<1>3. /\ usb' \in BOOLEAN
      /\ serving' \in {0, m'.loaded} /\ other' \in Others \cup {0}
  BY <1>1 DEF IInv, Types
<1>4. Types'
  BY <1>1, <1>2, <1>3 DEF Types
<1>5. Backed'
  BY <1>1, <1>2 DEF Backed, QueueHasPpd
<1> QED BY <1>2, <1>4, <1>5, Rest DEF IInv

(* So does one whose failure is ignored.                                   *)
LEMMA FailsStep ==
  ASSUME IInv, StepFails
  PROVE  IInv'
<1> DEFINE step == Head(run.plan)
           rest == Tail(run.plan)
<1>1. /\ run.plan # << >> /\ m' \in half(m, step)
      /\ owed' = Owes(step, m, m') /\ usb' = usb
      /\ serving' = serving /\ other' = other
      /\ run' = IF step.ignore_failure
                THEN [run EXCEPT !.plan = rest, !.lax = TRUE] ELSE Idle
  BY DEF StepFails
<1>2. CASE ~step.ignore_failure
  BY <1>1, <1>2, StopStep
<1>3. CASE step.ignore_failure
  <2>1. /\ m' \in Machines /\ owed' \in BOOLEAN
        /\ QueueHasPpd => /\ m'.vendor_queue => m'.vendor_ppd
                          /\ owed' => m'.backup_ppd /\ ~m'.vendor_queue
        /\ step.do # "remove-support" => m'.backup_ppd = m.backup_ppd
        /\ m'.user = m.user /\ m'.binary = m.binary /\ m'.loaded = m.loaded
        /\ m'.queue = m.queue /\ m'.own = m.own
        /\ m'.vendor_queue = m.vendor_queue
        /\ step.do # "write-plist" => m'.plist = m.plist
        /\ step.do # "make-directories" => m'.support = m.support
    BY <1>1, Cut
  <2>2. /\ Unfolds(run.plan, step, rest)
        /\ rest \in Seq(AnySteps)
        /\ run.cmd # "none"
        /\ run.cmd = "install" =>
             /\ rest \in Seq(InstallSteps)
             /\ step.do \in {"bootout", "back-up-uri"}
        /\ run.cmd = "uninstall" => rest \in Seq(UninstallSteps)
        /\ run.cmd = "remove-vendor-driver" => rest \in Seq(RemoveSteps)
    BY <1>1, <1>3, StepNames DEF InstallTried
  <2>3. /\ run \in Runs /\ usb' \in BOOLEAN
        /\ serving' \in {0, m'.loaded} /\ other' \in Others \cup {0}
    BY <1>1, <2>1 DEF IInv, Types
  <2> HIDE DEF step, rest
  <2>4. /\ run'.cmd = run.cmd /\ run'.port = run.port
        /\ run'.keep_vendor = run.keep_vendor /\ run'.probed = run.probed
        /\ run'.replug = run.replug /\ run'.upset = run.upset
        /\ run'.lax = TRUE /\ run'.plan = rest
        /\ run' \in Runs
    BY <1>1, <1>3, <2>2, <2>3 DEF Runs
  <2>5. Types'
    BY <2>1, <2>2, <2>3, <2>4 DEF IInv, Types
  <2>6. ASSUME run.cmd = "install"
        PROVE  /\ m'.plist = m.plist /\ m'.support = m.support
               /\ m'.backup_ppd = m.backup_ppd
               /\ step.do \in {"bootout", "back-up-uri"}
    BY <2>1, <2>2, <2>6
  <2>7. Backed'
    <3>1. ASSUME run.cmd = "install", QueueHasPpd
          PROVE  \/ m'.backup_ppd
                 \/ Preceded(rest, "back-up-ppd", "remove-vendor-queue")
      BY <3>1, <2>2, <2>6 DEF IInv, Backed, Unfolds
    <3> QED BY <3>1, <2>1, <2>4 DEF Backed, QueueHasPpd
  <2>8. Takes'
    <3>1. ASSUME run.cmd = "install"
          PROVE  /\ \/ run.probed
                    \/ Preceded(rest, "probe", "remove-vendor-queue")
                 /\ ~run.keep_vendor /\ ~run.replug /\ m'.vendor_queue =>
                      Has(rest, "remove-vendor-queue")
      BY <3>1, <2>1, <2>2, <2>6 DEF IInv, Takes, Unfolds
    <3> QED BY <3>1, <2>4 DEF Takes
  <2>9. Builds'
    <3>1. ASSUME run.cmd = "install"
          PROVE  /\ m'.binary \/ Has(rest, "copy-binary")
                 /\ m'.support \/ Has(rest, "make-directories")
                 /\ m'.plist = run.port \/ Has(rest, "write-plist")
                 /\ \/ m'.plist = run.port
                    \/ Preceded(rest, "write-plist", "bootstrap")
                 /\ m'.user \in {"uid", "full"} \/ Has(rest, "user-attributes")
                 /\ Followed(rest, "create-user", "user-attributes")
                 /\ m'.loaded = run.port \/ Has(rest, "bootstrap")
                 /\ Followed(rest, "bootout", "bootstrap")
                 /\ \/ serving' = run.port \/ run.upset \/ other' # 0
                    \/ Has(rest, "wait-ipp")
                 /\ Followed(rest, "bootout", "wait-ipp")
                 /\ Followed(rest, "bootstrap", "wait-ipp")
                 /\ OnePort => \/ m'.queue = DefaultPort \/ m'.own
                               \/ Has(rest, "add-queue")
      BY <3>1, <1>1, <2>1, <2>2, <2>6 DEF IInv, Builds, Unfolds
    <3> QED BY <3>1, <2>4 DEF Builds, OnePort
  <2>10. Clears'
    BY <2>4 DEF Clears
  <2> QED BY <2>5, <2>7, <2>8, <2>9, <2>10 DEF IInv
<1> QED BY <1>2, <1>3

LEMMA KilledStep ==
  ASSUME IInv, Killed
  PROVE  IInv'
BY StopStep DEF Killed

LEMMA FinishStep ==
  ASSUME IInv, Finish
  PROVE  IInv'
<1>1. /\ m' = m /\ usb' = usb /\ owed' = owed
      /\ serving' = serving /\ other' = other
      /\ run' \in Runs /\ run'.cmd = "none" /\ run'.port = 0
      /\ run'.plan = << >>
  BY IdleType DEF Finish
<1>2. Types' /\ Backed'
  BY <1>1 DEF IInv, Types, Backed, QueueHasPpd
<1> QED BY <1>1, <1>2, Rest DEF IInv

(* macOS makes the vendor's queue anew, which is what `replug` records.    *)
LEMMA PlugStep ==
  ASSUME IInv, Plug
  PROVE  IInv'
<1>1. /\ usb' = TRUE /\ owed' = (owed /\ ~m'.vendor_queue)
      /\ m' = IF m.driver = "whole"
              THEN [m EXCEPT !.vendor_queue = TRUE, !.vendor_ppd = TRUE] ELSE m
      /\ run' = IF run.cmd = "install" /\ ~m.vendor_queue /\ m'.vendor_queue
                THEN [run EXCEPT !.replug = TRUE] ELSE run
      /\ serving' = serving /\ other' = other
  BY DEF Plug
<1>2. m \in Machines /\ run \in Runs /\ owed \in BOOLEAN
  BY DEF IInv, Types
<1>3. m' \in Machines
  BY <1>1, <1>2, FieldSet
<1>4. /\ m'.user = m.user /\ m'.binary = m.binary /\ m'.loaded = m.loaded
      /\ m'.queue = m.queue /\ m'.own = m.own /\ m'.plist = m.plist
      /\ m'.support = m.support /\ m'.newsyslog = m.newsyslog
      /\ m'.backup_ppd = m.backup_ppd
      /\ \/ m'.vendor_queue /\ m'.vendor_ppd
         \/ m'.vendor_queue = m.vendor_queue /\ m'.vendor_ppd = m.vendor_ppd
  BY <1>1, <1>2 DEF Machines
<1>5. /\ run'.cmd = run.cmd /\ run'.port = run.port /\ run'.plan = run.plan
      /\ run'.keep_vendor = run.keep_vendor /\ run'.purge = run.purge
      /\ run'.probed = run.probed /\ run'.lax = run.lax /\ run' \in Runs
      /\ run'.upset = run.upset
      /\ run.replug => run'.replug
      /\ run.cmd = "install" /\ m'.vendor_queue => run'.replug \/ m.vendor_queue
  BY <1>1, <1>2 DEF Runs
<1>6. Types'
  BY <1>1, <1>2, <1>3, <1>4, <1>5 DEF IInv, Types
<1>7. Backed'
  BY <1>1, <1>4, <1>5 DEF IInv, Backed, QueueHasPpd
<1>8. Takes'
  BY <1>5 DEF IInv, Takes
<1>9. Builds'
  BY <1>1, <1>4, <1>5 DEF IInv, Builds, OnePort
<1>10. Clears'
  BY <1>1, <1>4, <1>5 DEF IInv, Clears, QueueHasPpd
<1> QED BY <1>6, <1>7, <1>8, <1>9, <1>10 DEF IInv

(* start, stop, restart and the user's own queue leave the rest alone.     *)
LEMMA ServiceStep ==
  ASSUME IInv, NEW verb \in {"start", "stop", "restart"}, cmd_service(verb)
  PROVE  IInv'
<1>1. /\ run.cmd = "none" /\ usb' = usb /\ run' = run /\ owed' = owed
      /\ m' = [m EXCEPT !.loaded = IF verb = "stop" THEN 0
                               ELSE IF m.loaded # 0 \/ m.plist = Broken
                               THEN m.loaded ELSE m.plist]
      /\ serving' = (IF verb = "start" THEN serving ELSE 0) /\ other' = other
  BY DEF cmd_service
<1>2. m \in Machines
  BY DEF IInv, Types
<1>3. m' \in Machines /\ m'.vendor_queue = m.vendor_queue
      /\ m'.vendor_ppd = m.vendor_ppd /\ m'.backup_ppd = m.backup_ppd
      /\ serving' \in {0, m'.loaded}
  BY <1>1, <1>2 DEF Machines, IInv, Types
<1>4. Types' /\ Backed'
  BY <1>1, <1>3 DEF IInv, Types, Backed, QueueHasPpd
<1> QED BY <1>1, <1>4, Rest DEF IInv

LEMMA OwnStep ==
  ASSUME IInv, AddOwnQueue
  PROVE  IInv'
<1>1. /\ run.cmd = "none" /\ usb' = usb /\ run' = run /\ owed' = owed
      /\ serving' = serving /\ other' = other
      /\ m' = [m EXCEPT !.own = TRUE]
  BY DEF AddOwnQueue
<1>2. m \in Machines
  BY DEF IInv, Types
<1>3. m' \in Machines /\ m'.vendor_queue = m.vendor_queue
      /\ m'.vendor_ppd = m.vendor_ppd /\ m'.backup_ppd = m.backup_ppd
      /\ m'.loaded = m.loaded
  BY <1>1, <1>2 DEF Machines
<1>4. Types' /\ Backed'
  BY <1>1, <1>3 DEF IInv, Types, Backed, QueueHasPpd
<1> QED BY <1>1, <1>4, Rest DEF IInv

LEMMA Unmoved ==
  ASSUME IInv, m' = m, run' = run, owed' = owed, usb' \in BOOLEAN,
         serving' = serving, other' = other
  PROVE  IInv'
BY DEF IInv, Types, Backed, Takes, Builds, Clears, QueueHasPpd, OnePort

(* The process and the other program come and go; when one of them goes    *)
(* after the wait of an install, `upset` records it.                       *)
LEMMA ListenStep ==
  ASSUME IInv, ServiceStarts \/ OtherListens
  PROVE  IInv'
<1>1. /\ m' = m /\ usb' = usb /\ run' = run /\ owed' = owed
      /\ serving' \in {0, m.loaded} /\ other' \in Others \cup {0}
      /\ serving' = serving \/ serving = 0
      /\ other # 0 => other' # 0
  BY ServiceAssumption DEF ServiceStarts, OtherListens, IInv, Types
<1>2. Types' /\ Backed' /\ Takes' /\ Clears'
  BY <1>1 DEF IInv, Types, Backed, Takes, Clears, QueueHasPpd
<1>3. ASSUME run.cmd = "install", serving = run.port
      PROVE  serving' = run.port
  <2>1. run.port # 0
    BY <1>3, ServiceAssumption DEF IInv, Types
  <2> QED BY <1>1, <1>3, <2>1
<1>4. Builds'
  BY <1>1, <1>3 DEF IInv, Builds, OnePort
<1> QED BY <1>2, <1>4 DEF IInv

LEMMA EndStep ==
  ASSUME IInv, ServiceDies \/ OtherEnds
  PROVE  IInv'
<1>1. /\ m' = m /\ usb' = usb /\ owed' = owed
      /\ serving' \in {0, m.loaded} /\ other' \in Others \cup {0}
      /\ run' = IF Waited THEN [run EXCEPT !.upset = TRUE] ELSE run
  BY DEF ServiceDies, OtherEnds, Upset, IInv, Types
<1>2. run \in Runs
  BY DEF IInv, Types
<1>3. /\ run'.cmd = run.cmd /\ run'.port = run.port /\ run'.plan = run.plan
      /\ run'.keep_vendor = run.keep_vendor /\ run'.purge = run.purge
      /\ run'.probed = run.probed /\ run'.lax = run.lax
      /\ run'.replug = run.replug /\ run' \in Runs
      /\ Waited => run'.upset
  BY <1>1, <1>2 DEF Runs
<1>4. Types' /\ Backed'
  BY <1>1, <1>3 DEF IInv, Types, Backed, QueueHasPpd
<1>5. Takes' /\ Clears'
  BY <1>1, <1>3 DEF IInv, Takes, Clears, QueueHasPpd
<1>6. run.cmd = "install" => run'.upset \/ Has(run.plan, "wait-ipp")
  BY <1>3 DEF Waited, Has
<1>7. Builds'
  BY <1>1, <1>3, <1>6 DEF IInv, Builds, OnePort
<1> QED BY <1>4, <1>5, <1>7 DEF IInv

LEMMA Inductive == IInv /\ [Next]_vars => IInv'
<1> SUFFICES ASSUME IInv, [Next]_vars PROVE IInv'
  OBVIOUS
<1>1. CASE \E port \in Ports, keep_vendor \in BOOLEAN :
             cmd_install(port, keep_vendor)
  BY <1>1, InstallStep
<1>2. CASE \E purge \in Purges : cmd_uninstall(purge)
  BY <1>2, UninstallStep, ServiceAssumption
<1>3. CASE cmd_remove_vendor
  BY <1>3, RemoveStep
<1>4. CASE \E verb \in {"start", "stop", "restart"} : cmd_service(verb)
  BY <1>4, ServiceStep
<1>5. CASE StepDone
  BY <1>5, DoneStep
<1>6. CASE StepFails
  BY <1>6, FailsStep
<1>7. CASE Finish
  BY <1>7, FinishStep
<1>8. CASE Killed
  BY <1>8, KilledStep
<1>9. CASE Unplug
  BY <1>9, Unmoved DEF Unplug
<1>10. CASE Plug
  BY <1>10, PlugStep
<1>11. CASE AddOwnQueue
  BY <1>11, OwnStep
<1>12. CASE UNCHANGED vars
  <2>1. usb' \in BOOLEAN
    BY <1>12 DEF vars, IInv, Types
  <2> QED BY <2>1, <1>12, Unmoved DEF vars
<1>13. CASE ServiceStarts \/ OtherListens
  BY <1>13, ListenStep
<1>14. CASE ServiceDies \/ OtherEnds
  BY <1>14, EndStep
<1> QED BY <1>1, <1>2, <1>3, <1>4, <1>5, <1>6, <1>7, <1>8, <1>9, <1>10,
           <1>11, <1>12, <1>13, <1>14 DEF Next

LEMMA Invariant == Spec => []IInv
BY Initially, Inductive, PTL DEF Spec

-----------------------------------------------------------------------------
LEMMA NothingLeft ==
  ASSUME NEW x
  PROVE  ~Has(<< >>, x)
BY DEF Has

(***************************************************************************)
(* The Mac and the command stay well formed; in particular what launchd    *)
(* runs is never a job file that was cut short.                            *)
(***************************************************************************)
THEOREM ServiceTypeCorrect == Spec => []TypeOK
<1>1. IInv => TypeOK
  BY DEF IInv, Types, Runs, TypeOK
<1> QED BY <1>1, Invariant, PTL

(***************************************************************************)
(* An install that ends well and was not told to keep the vendor's queue   *)
(* has removed it, unless the printer was plugged in again meanwhile       *)
(* (m2022_service_install_plan, m2022_service_execute).                    *)
(***************************************************************************)
THEOREM SingleOwnerHolds == Spec => []SingleOwner
<1>1. IInv => SingleOwner
  BY NothingLeft DEF IInv, Takes, SingleOwner, Done
<1> QED BY <1>1, Invariant, PTL

(***************************************************************************)
(* An uninstall none of whose steps failed leaves nothing installed and    *)
(* nothing running, whatever it started from                               *)
(* (m2022_service_uninstall_plan).                                         *)
(***************************************************************************)
THEOREM UninstallClearsHolds == Spec => []UninstallClears
<1>1. IInv => UninstallClears
  BY NothingLeft DEF IInv, Types, Clears, UninstallClears, Done
<1> QED BY <1>1, Invariant, PTL

(***************************************************************************)
(* The vendor's queue that an install removed is back after an uninstall   *)
(* none of whose steps failed.  The hypothesis is needed: a queue without  *)
(* a PPD is removed without a backup, and uninstall restores from the      *)
(* backup.                                                                 *)
(***************************************************************************)
THEOREM VendorQueueRestoredHolds ==
  QueueHasPpd => (Spec => []VendorQueueRestored)
<1>1. QueueHasPpd /\ IInv => VendorQueueRestored
  BY NothingLeft DEF IInv, Clears, VendorQueueRestored, Done
<1>2. ASSUME QueueHasPpd PROVE Spec => []VendorQueueRestored
  <2>1. IInv => VendorQueueRestored
    BY <1>1, <1>2
  <2> QED BY <2>1, Invariant, PTL
<1> QED BY <1>2

(***************************************************************************)
(* After an install that ends well the service answers and doctor and      *)
(* status find nothing wrong, as far as processes did not end, another     *)
(* program did not take the port and the printer is there, whatever        *)
(* earlier commands left.  The hypothesis is needed: inspect knows a queue *)
(* of ours only by the default port, see QueueReachesService.              *)
(***************************************************************************)
THEOREM InstallWorksHolds == OnePort => (Spec => []InstallWorks)
<1>1. ASSUME IInv, other = 0
      PROVE  ServiceAnswers
  BY <1>1, NothingLeft DEF IInv, Builds, ServiceAnswers, Done
<1>2. ASSUME OnePort, IInv, Done("install"), NEW info \in Looks,
             NEW ipp \in Replies(run.port)
      PROVE  LET found == doctor(info, run.port, ipp)
                 gone == (IF usb THEN {} ELSE {"usb-printer"})
                         \cup IF serving # 0 THEN {}
                              ELSE {"launchd-job", "bonjour", "ipp"}
             IN  /\ found.fails \subseteq gone
                 /\ found.warns \subseteq {"ipp", "vendor-queue"}
                 /\ serving # 0 /\ ipp.state # 5 => status(info, ipp)
                 /\ m.plist = m.loaded /\ m.support
  <2>1. /\ m.binary /\ m.support /\ m.plist = run.port
        /\ m.user \in {"uid", "full"} /\ m.loaded = run.port
        /\ m.queue = DefaultPort \/ m.own
    BY <1>2, NothingLeft DEF IInv, Builds, Done
  <2>2. run.port # 0
    BY <1>2, ServiceAssumption DEF IInv, Types, Done
  <2>3. serving = 0 \/ serving = run.port
    BY <1>2, <2>1 DEF IInv, Types
  <2>4. PICK q : info = inspect(m, q)
    BY <1>2 DEF Looks
  <2>5. /\ info.binary_installed /\ info.user_exists /\ info.plist_exists
        /\ info.loaded /\ info.our_queue /\ info.usb_printer = usb
        /\ info.running <=> serving # 0
    BY <2>1, <2>2, <2>4 DEF inspect, OurQueues
  <2>6. usb \in BOOLEAN
    BY <1>2 DEF IInv, Types
  <2>7. serving = run.port => ipp.answers
    BY DEF Replies
  <2>8. serving # 0 /\ ipp.state # 5 => status(info, ipp)
    BY <2>3, <2>5, <2>7 DEF status
  <2>9. doctor(info, run.port, ipp).fails \subseteq
          (IF usb THEN {} ELSE {"usb-printer"})
          \cup IF serving # 0 THEN {} ELSE {"launchd-job", "bonjour", "ipp"}
    BY <2>3, <2>5, <2>6, <2>7 DEF doctor
  <2>10. doctor(info, run.port, ipp).warns \subseteq {"ipp", "vendor-queue"}
    BY <2>3, <2>5 DEF doctor
  <2> QED BY <2>1, <2>8, <2>9, <2>10
<1>3. ASSUME OnePort PROVE Spec => []InstallWorks
  <2>1. IInv => InstallWorks
    BY <1>1, <1>2, <1>3 DEF InstallWorks
  <2> QED BY <2>1, Invariant, PTL
<1> QED BY <1>3

(***************************************************************************)
(* As long as install is only given the default port, a queue of this Mac  *)
(* reaches the service after it.                                           *)
(***************************************************************************)
THEOREM QueueReachesServiceHolds == OnePort => (Spec => []QueueReachesService)
<1>1. ASSUME OnePort, IInv, Done("install")
      PROVE  m.own \/ m.queue = m.loaded
  <2>1. m.loaded = run.port /\ (m.queue = DefaultPort \/ m.own)
    BY <1>1, NothingLeft DEF IInv, Builds, Done
  <2>2. run.port = DefaultPort
    BY <1>1 DEF IInv, Types, Done, OnePort
  <2> QED BY <2>1, <2>2
<1>2. ASSUME OnePort PROVE Spec => []QueueReachesService
  <2>1. IInv => QueueReachesService
    BY <1>1, <1>2 DEF QueueReachesService
  <2> QED BY <2>1, Invariant, PTL
<1> QED BY <1>2

(***************************************************************************)
(* Install takes the vendor's queue away only after the probe of the same  *)
(* run succeeded and with the PPD backed up, also when an earlier run was  *)
(* killed between the two or macOS made the queue anew in between.         *)
(***************************************************************************)
THEOREM VendorQueueIsBackedUpHolds ==
  QueueHasPpd => (Spec => VendorQueueIsBackedUp)
<1>1. ASSUME QueueHasPpd, IInv, [Next]_vars, run.cmd = "install",
             m.vendor_queue, ~m'.vendor_queue
      PROVE  run.probed /\ m.backup_ppd
  <2>0. m \in Machines /\ run.port \in Nat
    BY <1>1 DEF IInv, Types, Runs
  <2>1. StepDone
    <3>1. CASE \/ \E port \in Ports, keep_vendor \in BOOLEAN :
                    cmd_install(port, keep_vendor)
               \/ \E purge \in Purges : cmd_uninstall(purge)
               \/ cmd_remove_vendor
               \/ \E verb \in {"start", "stop", "restart"} : cmd_service(verb)
               \/ AddOwnQueue \/ UNCHANGED vars
      BY <3>1, <1>1 DEF cmd_install, cmd_uninstall, cmd_remove_vendor,
           cmd_service, Begin, AddOwnQueue, vars
    <3>2. CASE \/ Finish \/ Unplug
               \/ ServiceStarts \/ ServiceDies \/ OtherListens \/ OtherEnds
      BY <3>2, <1>1 DEF Finish, Unplug, ServiceStarts, ServiceDies,
           OtherListens, OtherEnds
    <3>3. CASE Plug
      BY <3>3, <1>1, <2>0 DEF Plug, Machines
    <3>4. CASE StepFails \/ Killed
      <4>1. m' \in half(m, Head(run.plan))
        BY <3>4 DEF StepFails, Killed
      <4> QED BY <4>1, <2>0, <1>1, HalfKeeps
    <3> QED BY <1>1, <3>1, <3>2, <3>3, <3>4 DEF Next
  <2> DEFINE step == Head(run.plan)
  <2>2. /\ m' = effect(m, run.port, step) /\ run.plan # << >>
    BY <2>1 DEF StepDone
  <2>3. /\ Unfolds(run.plan, step, Tail(run.plan))
        /\ step.do # "restore-vendor-queue"
    BY <1>1, <2>2, StepNames DEF InstallNames, InstallTried
  <2> HIDE DEF step
  <2>4. step.do = "remove-vendor-queue"
    BY <1>1, <2>0, <2>2, <2>3, EffectKeeps
  <2>5. /\ run.probed \/ Preceded(run.plan, "probe", "remove-vendor-queue")
        /\ \/ m.backup_ppd
           \/ Preceded(run.plan, "back-up-ppd", "remove-vendor-queue")
    BY <1>1 DEF IInv, Takes, Backed
  <2> QED BY <2>3, <2>4, <2>5 DEF Unfolds
<1>2. ASSUME QueueHasPpd PROVE Spec => VendorQueueIsBackedUp
  <2>1. IInv /\ [Next]_vars =>
          [run.cmd = "install" /\ m.vendor_queue /\ ~m'.vendor_queue
             => run.probed /\ (m.vendor_ppd => m.backup_ppd)]_vars
    BY <1>1, <1>2
  <2> QED BY <2>1, Invariant, PTL DEF Spec, VendorQueueIsBackedUp
<1> QED BY <1>2
=============================================================================
