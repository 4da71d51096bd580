----------------------------- MODULE Codec11Table ----------------------------
(***************************************************************************)
(* The choice of the distance table, m2022_codec11_choose_table in         *)
(* codec11.c, which flush_band runs on every band: a cheap parse credits   *)
(* the distances its matches would use, the best-credited ones become the  *)
(* table, and the default table fills it up.  One action is one turn of    *)
(* one of the three loops.                                                 *)
(***************************************************************************)
EXTENDS Codec11, FiniteSetsExt

CONSTANTS
  Hash,      \* hash3: the bucket of three bytes in a row
  SLOTS,     \* CHOOSE_SLOTS, 4: the positions a bucket remembers
  MAX_DIST,  \* CHOOSE_MAX_DIST, 4096: the farthest distance that is credited
  Columns,   \* choose_columns: distances that are tried at every position
  Default,   \* m2022_codec11_default_table
  Pixels,    \* bound: the bytes of the bands
  MaxLen     \* bound: their length

ASSUME Codec11TableAssumption ==
  /\ DOMAIN Hash = Byte \X Byte \X Byte
  /\ SLOTS \in Nat \ {0} /\ MAX_DIST \in Nat
  /\ Columns \in Seq(1 .. MAX_DIST)
  /\ \A k, l \in DOMAIN Columns : k < l => Columns[k] < Columns[l]
  /\ Default \in [1 .. ENTRIES -> Nat \ {0}]
  /\ \A k, l \in 1 .. ENTRIES : Default[k] = Default[l] => k = l
  /\ Pixels \subseteq Byte /\ MaxLen \in Nat

VARIABLES
  phase,   \* "idle", "parse", "select", "fill", "done"
  band,    \* the band
  pos,     \* the parse is here
  slots,   \* per bucket the last positions with that hash, latest first
  credit,  \* per distance the bytes its matches cover, 0 once selected
  table,   \* the entries chosen so far
  next,    \* the entry of the default table that is looked at
  earned   \* history: the credit when the parse ended

vars == <<phase, band, pos, slots, credit, table, next, earned>>

Buckets == {Hash[t] : t \in DOMAIN Hash}
Distances == 1 .. MAX_DIST

NoSlots == [h \in Buckets |-> << >>]
NoCredit == [d \in Distances |-> 0]

Init ==
  /\ phase = "idle" /\ band = << >> /\ pos = 0 /\ slots = NoSlots
  /\ credit = NoCredit /\ table = << >> /\ next = 1 /\ earned = NoCredit

choose_table(b) ==
  /\ phase = "idle"
  /\ phase' = "parse" /\ band' = b
  /\ UNCHANGED <<pos, slots, credit, table, next, earned>>

-----------------------------------------------------------------------------
(* The bucket of the three bytes at q.                                     *)
hash3(q) == Hash[<<At(band, q), At(band, q + 1), At(band, q + 2)>>]

(* slot_insert: the bucket's positions move down, the oldest is dropped.   *)
slot_insert(sl, q) ==
  [sl EXCEPT ![hash3(q)] = SubSeq(<<q>> \o @, 1, Least(Len(@) + 1, SLOTS))]

(* Mutant: the positions inside a match are not remembered.                *)
InsertMatch_first(n) == slot_insert(slots, pos)

(* The position, and those inside the match of n bytes that have three     *)
(* bytes left, are remembered.                                             *)
InsertMatch(n) ==
  LET last == Least(pos + n - 1, Len(band) - 3)
      ins[q \in pos .. Len(band)] ==
        IF q = pos THEN slot_insert(slots, q) ELSE slot_insert(ins[q - 1], q)
  IN  IF last <= pos THEN slot_insert(slots, pos) ELSE ins[last]

(* The distances of the two loops at pos, in order: those of the           *)
(* remembered positions with the same hash, then the columns.              *)
Tried ==
  LET near == slots[hash3(pos)]
  IN  [k \in DOMAIN near |-> pos - near[k]] \o Columns

(* The first loop passes over those that are too far, the second ends at   *)
(* the first one, of ascending ones, that is not in the band.              *)
Reached(d) == d <= MAX_DIST /\ d <= pos

(* The longest match of at least three bytes, the first one on ties.       *)
Best ==
  LET tried == Tried
      max == Least(Len(band) - pos, MAX_MATCH)
      n == [k \in {k \in DOMAIN tried : Reached(tried[k])} |->
              match_len(band, pos, tried[k], max)]
      good == {k \in DOMAIN n : n[k] >= 3}
      k0 == CHOOSE k \in good :
              \A l \in good : n[l] < n[k] \/ (n[l] = n[k] /\ k <= l)
  IN  IF good = {} THEN [n |-> 0, d |-> 0] ELSE [n |-> n[k0], d |-> tried[k0]]

(* How far a turn moves: over the match, or over one byte.                 *)
Advance(n) == IF n = 0 THEN 1 ELSE n

Parse ==
  /\ phase = "parse" /\ pos + 3 <= Len(band)
  /\ \E b \in {Best} :
       /\ slots' = InsertMatch(b.n)
       /\ credit' = IF b.n = 0 THEN credit
                    ELSE [credit EXCEPT ![b.d] = @ + b.n]
       /\ pos' = pos + Advance(b.n)
  /\ UNCHANGED <<phase, band, table, next, earned>>

EndParse ==
  /\ phase = "parse" /\ pos + 3 > Len(band)
  /\ phase' = "select" /\ earned' = credit
  /\ UNCHANGED <<band, pos, slots, credit, table, next>>

-----------------------------------------------------------------------------
Credited == {d \in Distances : credit[d] > 0}

(* Mutant: the nearest distance that has any credit is taken.              *)
Richest_nearest ==
  CHOOSE d \in Credited : \A x \in Credited : d <= x

(* The distance with the most credit, the nearest one on ties.             *)
Richest ==
  CHOOSE d \in Credited :
    \A x \in Credited : credit[x] < credit[d] \/ (credit[x] = credit[d] /\ d <= x)

Select ==
  /\ phase = "select" /\ Len(table) < ENTRIES /\ Credited # {}
  /\ table' = Append(table, Richest)
  /\ credit' = [credit EXCEPT ![Richest] = 0]
  /\ UNCHANGED <<phase, band, pos, slots, next, earned>>

EndSelect ==
  /\ phase = "select" /\ (Len(table) = ENTRIES \/ Credited = {})
  /\ phase' = "fill"
  /\ UNCHANGED <<band, pos, slots, credit, table, next, earned>>

(* Mutant: duplicates are not looked for.                                  *)
Present_unchecked(d) == FALSE

(* The table has the entry already.                                        *)
Present(d) == \E k \in 1 .. Len(table) : table[k] = d

(* Mutant: only an entry that is taken moves on to the next one.           *)
Fill_stuck ==
  /\ phase = "fill" /\ next <= ENTRIES /\ Len(table) < ENTRIES
  /\ ~Present(Default[next])
  /\ table' = Append(table, Default[next])
  /\ next' = next + 1
  /\ UNCHANGED <<phase, band, pos, slots, credit, earned>>

(* An entry of the default table is taken unless it is there already.      *)
Fill ==
  /\ phase = "fill" /\ next <= ENTRIES /\ Len(table) < ENTRIES
  /\ table' = IF Present(Default[next]) THEN table
              ELSE Append(table, Default[next])
  /\ next' = next + 1
  /\ UNCHANGED <<phase, band, pos, slots, credit, earned>>

EndFill ==
  /\ phase = "fill" /\ (next > ENTRIES \/ Len(table) = ENTRIES)
  /\ phase' = "done"
  /\ UNCHANGED <<band, pos, slots, credit, table, next, earned>>

Step == Parse \/ EndParse \/ Select \/ EndSelect \/ Fill \/ EndFill

Next ==
  \/ \E b \in UNION {[1 .. k -> Pixels] : k \in 0 .. MaxLen} : choose_table(b)
  \/ Step

(* The loops run: nothing they do waits.                                   *)
Spec == Init /\ [][Next]_vars /\ WF_vars(Step)

-----------------------------------------------------------------------------
(***************************************************************************)
(* "The result has no zero and no duplicate entries" (qpdl.h), at no time, *)
(* and all of its entries are set when the call returns: the caller's      *)
(* array is not initialised, and each part of the table, credited and      *)
(* default, could repeat the other or leave the table short.               *)
(***************************************************************************)
TableSound ==
  /\ Len(table) <= ENTRIES
  /\ \A k, l \in 1 .. Len(table) : table[k] = table[l] => k = l
  /\ \A k \in 1 .. Len(table) : table[k] # 0
  /\ phase = "done" => Len(table) = ENTRIES

(***************************************************************************)
(* "The 64 distances that cover the most bytes of this band", most credit  *)
(* first: no credited distance is left out for one that earned less.       *)
(***************************************************************************)
MostCredited ==
  phase = "done" =>
    /\ \A k, l \in 1 .. ENTRIES :
         k < l /\ table[l] \in Distances /\ earned[table[l]] > 0
           => table[k] \in Distances /\ earned[table[k]] >= earned[table[l]]
    /\ \A d \in Distances : earned[d] > 0 =>
         \/ \E k \in 1 .. ENTRIES : table[k] = d
         \/ \A k \in 1 .. ENTRIES : earned[table[k]] >= earned[d]

(***************************************************************************)
(* A bucket holds the latest positions before pos with its hash, none      *)
(* skipped, wherever matches began and ended: the second insert loop takes *)
(* over exactly where the first insert stopped.                            *)
(***************************************************************************)
SlotsAreLatest ==
  \A h \in Buckets :
    LET all == {q \in 0 .. Least(pos - 1, Len(band) - 3) : hash3(q) = h}
    IN  /\ Len(slots[h]) = Least(Cardinality(all), SLOTS)
        /\ \A k \in 1 .. Len(slots[h]) :
             /\ slots[h][k] \in all
             /\ Cardinality({q \in all : q > slots[h][k]}) = k - 1

(* The call returns: every turn of the three loops makes progress.         *)
TableIsChosen == phase # "idle" ~> phase = "done"
=============================================================================
