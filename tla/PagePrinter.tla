----------------------------- MODULE PagePrinter -----------------------------
(***************************************************************************)
(* What the encoder promises its client: a job is a series of pages, and   *)
(* a page that ended is printed as it was drawn, white below its last      *)
(* line.  A job can be lost, which the client is told; nothing is promised *)
(* of it then, and the next job starts afresh.                             *)
(***************************************************************************)
EXTENDS Integers, Sequences

CONSTANTS
  Ink,      \* what one line can show
  White,    \* a line without ink
  Height    \* the lines of the tallest page

VARIABLES
  job,      \* "none", "open", "page" while a page is drawn, "closed", "lost"
  pic,      \* the lines drawn on the current page
  printed   \* the pages of the job that came out

vars == <<job, pic, printed>>

Sheet(p) == [n \in 0 .. (Height - 1) |->
               IF n < Len(p) THEN p[n + 1] ELSE White]

Init == job = "none" /\ pic = << >> /\ printed = << >>

Start ==
  /\ job' = "open" /\ pic' = << >> /\ printed' = << >>

StartPage ==
  /\ job = "open"
  /\ job' = "page" /\ pic' = << >>
  /\ UNCHANGED printed

Draw ==
  /\ job = "page"
  /\ \E ink \in Ink : pic' = Append(pic, ink)
  /\ UNCHANGED <<job, printed>>

(* A page that is too tall cannot be finished: its job can only be lost.   *)
FinishPage ==
  /\ job = "page"
  /\ Len(pic) <= Height
  /\ job' = "open"
  /\ printed' = Append(printed, Sheet(pic))
  /\ UNCHANGED pic

Finish ==
  /\ job = "open"
  /\ job' = "closed"
  /\ UNCHANGED <<pic, printed>>

Lose == job' = "lost" /\ pic' = << >> /\ printed' = << >>

Next == Start \/ StartPage \/ Draw \/ FinishPage \/ Finish \/ Lose

Spec == Init /\ [][Next]_vars
=============================================================================
