------------------------------- MODULE UsbWrite ------------------------------
(***************************************************************************)
(* Writing to the printer: m2022_usb_write (src/usb/usb.c), which cuts a   *)
(* buffer into bulk transfers, and its two callers: usbdev_write           *)
(* (src/app/usbdev.c), the server's, which calls it again after an error   *)
(* that moved some bytes, and cmd_send (src/cli/cmd_send.c), which does    *)
(* not.  A bulk transfer may take any part of what it was given and may    *)
(* report an error or a timeout after it took some.                        *)
(***************************************************************************)
EXTENDS Integers, Sequences

CONSTANTS
  CHUNK_BYTES,   \* the most one transfer is given
  MaxBytes       \* bound: the longest buffer a caller writes

ASSUME UsbWriteAssumption == CHUNK_BYTES \in Nat \ {0} /\ MaxBytes \in Nat

Callers == {"usbdev_write", "cmd_send"}

VARIABLES
  pc,       \* "idle", "caller" at the caller's loop, "usb" in m2022_usb_write
  caller,   \* who is writing
  bytes,    \* how many bytes the caller was asked to write
  p,        \* caller: how far the buffer pointer has advanced
  left,     \* caller: bytes it still has to write
  done,     \* m2022_usb_write: bytes taken by the transfers of this call
  rc,       \* m2022_usb_write: what the last transfer returned, 0 or an error
  ret,      \* what the caller returned: "none" yet, "ok" or "failed"
  taken       \* the printer: the bytes it took, as positions in the buffer

writeVars == <<pc, caller, bytes, p, left, done, rc, ret, taken>>

WriteInit ==
  /\ pc = "idle" /\ ret = "none"
  /\ caller = "usbdev_write" /\ bytes = 0
  /\ p = 0 /\ left = 0 /\ done = 0 /\ rc = 0
  /\ taken = << >>

(* A caller is given a buffer.                                             *)
BeginWrite(who, n) ==
  /\ pc = "idle"
  /\ pc' = "caller"
  /\ caller' = who /\ bytes' = n
  /\ p' = 0 /\ left' = n /\ done' = 0 /\ rc' = 0
  /\ ret' = "none" /\ taken' = << >>

(* The caller calls m2022_usb_write on what is left.  cmd_send does so     *)
(* once, for an empty file too.                                            *)
CallUsbWrite ==
  /\ pc = "caller"
  /\ caller = "usbdev_write" => left > 0
  /\ pc' = "usb" /\ done' = 0 /\ rc' = 0
  /\ UNCHANGED <<caller, bytes, p, left, ret, taken>>

(* while (left > 0) is over: usbdev_write returns `bytes`.                 *)
ReturnBytes ==
  /\ pc = "caller" /\ caller = "usbdev_write" /\ left = 0
  /\ pc' = "idle" /\ ret' = "ok"
  /\ UNCHANGED <<caller, bytes, p, left, done, rc, taken>>

(* Mutant: the bytes of a transfer that failed are not counted.            *)
BulkTransfer_uncounted(t, code) ==
  /\ pc = "usb" /\ rc = 0 /\ done < left
  /\ t \in 0 .. (IF left - done > CHUNK_BYTES THEN CHUNK_BYTES ELSE left - done)
  /\ taken' = taken \o [i \in 1 .. t |-> p + done + i]
  /\ done' = IF code = 0 THEN done + t ELSE done
  /\ rc' = code
  /\ UNCHANGED <<pc, caller, bytes, p, left, ret>>

(* What m2022_usb_write asks of one transfer.                              *)
Want == IF left - done > CHUNK_BYTES THEN CHUNK_BYTES ELSE left - done

(* libusb_bulk_transfer of Want bytes from p + done: t of them are taken.  *)
(* Whether it succeeds or fails, any number may be taken, none included.   *)
BulkTransfer(t, code) ==
  /\ pc = "usb" /\ rc = 0 /\ done < left
  /\ t \in 0 .. Want
  /\ taken' = taken \o [i \in 1 .. t |-> p + done + i]
  /\ done' = done + t
  /\ rc' = code
  /\ UNCHANGED <<pc, caller, bytes, p, left, ret>>

(* Mutants: usbdev_write gives up on any error, or never.                  *)
GivesUp_on_error == rc # 0
GivesUp_never == FALSE

(* usbdev_write fails when a call ended in an error and moved nothing.     *)
GivesUp == rc # 0 /\ done = 0

(* m2022_usb_write returns rc and *written.  usbdev_write advances and     *)
(* goes on unless nothing was written; cmd_send reports.                   *)
UsbWriteReturns ==
  /\ pc = "usb" /\ (rc # 0 \/ done = left)
  /\ p' = p + done /\ left' = left - done
  /\ \/ /\ caller = "usbdev_write" /\ ~ GivesUp
        /\ pc' = "caller" /\ UNCHANGED ret
     \/ /\ caller = "usbdev_write" /\ GivesUp
        /\ pc' = "idle" /\ ret' = "failed"
     \/ /\ caller = "cmd_send"
        /\ pc' = "idle" /\ ret' = IF rc = 0 THEN "ok" ELSE "failed"
  /\ done' = 0
  /\ UNCHANGED <<caller, bytes, rc, taken>>

WriteStep ==
  \/ CallUsbWrite
  \/ ReturnBytes
  \/ \E t \in 0 .. CHUNK_BYTES, code \in {0, -1} : BulkTransfer(t, code)
  \/ UsbWriteReturns

WriteNext ==
  \/ \E who \in Callers, n \in 0 .. MaxBytes : BeginWrite(who, n)
  \/ WriteStep

(* Every transfer ends: it is given a timeout (60 s by usbdev_write).  One *)
(* that succeeds and takes no byte changes nothing and is asked for again, *)
(* so what the fairness assumes of the printer is that it does not answer  *)
(* so for ever; m2022_usb_write has no check of its own.                   *)
WriteSpec == WriteInit /\ [][WriteNext]_writeVars /\ WF_writeVars(WriteStep)

-----------------------------------------------------------------------------
(* The type invariant.  `left` is a size_t in usbdev_write: it must never  *)
(* be counted below zero.                                                  *)
WriteTypeOK ==
  /\ pc \in {"idle", "caller", "usb"}
  /\ caller \in Callers
  /\ bytes \in Nat /\ p \in Nat /\ left \in Nat /\ done \in Nat
  /\ rc \in {0, -1}
  /\ ret \in {"none", "ok", "failed"}
  /\ taken \in Seq(Nat \ {0})

(***************************************************************************)
(* The printer takes the bytes of the buffer in order, each once, however  *)
(* the transfers are cut and wherever one of them fails: a retry starts    *)
(* exactly at the first byte that was not taken.                           *)
(***************************************************************************)
TakenInOrder == \A i \in 1 .. Len(taken) : taken[i] = i

(***************************************************************************)
(* A caller that reports success has delivered the whole buffer; and the   *)
(* server's write never reports a failure when the whole buffer was taken, *)
(* which would make a spooler print a job again.                           *)
(***************************************************************************)
ReportIsTrue ==
  /\ ret = "ok" => Len(taken) = bytes
  /\ ret = "failed" /\ caller = "usbdev_write" => Len(taken) < bytes

(* A write returns: the retry loop of usbdev_write cannot go on for ever,  *)
(* even when every transfer times out, as long as the printer does not     *)
(* report success for ever without taking a byte.                          *)
WriteReturns == pc # "idle" ~> pc = "idle"

-----------------------------------------------------------------------------
(* What ties the pointers of the two loops (p and left in usbdev_write,    *)
(* done in m2022_usb_write) to what the printer took: the inductive        *)
(* invariant behind TakenInOrder and ReportIsTrue.                         *)
Accounted ==
  /\ TakenInOrder
  /\ Len(taken) = p + done
  /\ p + left = bytes /\ done <= left
  /\ pc # "usb" => done = 0
  /\ pc = "usb" /\ caller = "usbdev_write" => left > 0
  /\ pc # "idle" => ret = "none"
  /\ ReportIsTrue
=============================================================================
