-------------------------------- MODULE JobMap -------------------------------
(***************************************************************************)
(* Where the printable area lies in a client's raster: one axis of         *)
(* m2022_jobmap_geometry (src/app/jobmap.c), which uses the same formula   *)
(* for both.                                                               *)
(***************************************************************************)
EXTENDS Integers

(* Mutants: the comparison is off by one; the size is not clipped.         *)
geometry_off_by_one(raster, area, margin) ==
  LET start == IF raster > area + margin THEN margin ELSE 0
  IN  [start |-> start,
       size |-> IF raster - start < area THEN raster - start ELSE area]

geometry_unclipped(raster, area, margin) ==
  LET start == IF raster >= area + margin THEN margin ELSE 0
  IN  [start |-> start, size |-> raster - start]

(* `area` is the extent of the imageable area and `margin` what lies       *)
(* before it, in pixels.  A raster large enough to hold both is a whole    *)
(* page, and the margin is cut off; a smaller one starts at the imageable  *)
(* area.                                                                   *)
geometry(raster, area, margin) ==
  LET start == IF raster >= area + margin THEN margin ELSE 0
  IN  [start |-> start,
       size |-> IF raster - start < area THEN raster - start ELSE area]
=============================================================================
