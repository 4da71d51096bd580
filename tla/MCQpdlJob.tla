------------------------------ MODULE MCQpdlJob ------------------------------
(* Bands of two lines and a page of two bands: a third band is one too     *)
(* many, a page can end inside any band.                                   *)
EXTENDS QpdlJob

(* Bound: up to two sink failures and a whole band too many on the first   *)
(* page of a job; a second page comes after at most one failure, and has   *)
(* one line too many.                                                      *)
Bounded ==
  e.pages > 0 => drops < 2 /\ (e.in_page => Len(pic) < 6)
=============================================================================
