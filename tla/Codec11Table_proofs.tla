------------------------- MODULE Codec11Table_proofs -------------------------
(***************************************************************************)
(* The choice of the distance table, for every band, every hash, every     *)
(* size of the buckets and of the table: the table is complete and without *)
(* duplicates, ranked by credit, and the buckets hold the latest positions.*)
(*                                                                         *)
(* The induction needs, while entries are selected, that credit is what    *)
(* was earned but for the entries, which have none left (Selecting), and   *)
(* after it, that a distance left out has been left out for a full table   *)
(* and that the default entries looked at are there (Filling): distinct as *)
(* they are, all of them fill the table.  Of the buckets it needs what     *)
(* SlotsAreLatest says, through the turns of the second insert loop.       *)
(*                                                                         *)
(* The first lemmas, on numbers and on match_len, are also those of        *)
(* Codec11Stream_proofs, which cannot be extended here: the encoder's      *)
(* state has the same names.                                               *)
(***************************************************************************)
EXTENDS Codec11Table, FiniteSetTheorems, SequenceTheorems, TLAPS

(* A set of numbers has a least one.                                       *)
LEMMA LeastNumber ==
  ASSUME NEW S \in SUBSET Nat, S # {}
  PROVE  \E x \in S : \A y \in S : x <= y
<1> DEFINE R == OpToRel(<, Nat)
<1>1. IsWellFoundedOn(R, Nat)
  BY NatLessThanWellFounded
<1>2. \A x, y \in Nat : y < x => <<y, x>> \in R
  BY DEF OpToRel
<1> HIDE DEF R
<1>3. PICK x \in S : \A y \in S : ~(<<y, x>> \in R)
  BY <1>1, WFMin
<1>4. ASSUME NEW y \in S PROVE x <= y
  <2>1. x \in Nat /\ y \in Nat /\ ~(y < x)
    BY <1>2, <1>3
  <2> QED
    BY <2>1
<1> QED
  BY <1>4

(* A set that has 0 and with each number below N the next has 0 .. N.      *)
LEMMA Induction ==
  ASSUME NEW S, 0 \in S, NEW N \in Nat, \A n \in 0 .. (N - 1) : n \in S => n + 1 \in S
  PROVE  0 .. N \subseteq S
<1> SUFFICES ASSUME NEW n \in 0 .. N, n \notin S PROVE FALSE
  OBVIOUS
<1> DEFINE T == {k \in 0 .. N : k \notin S}
<1>1. T \in SUBSET Nat /\ T # {}
  OBVIOUS
<1>2. PICK x \in T : \A y \in T : x <= y
  <2> HIDE DEF T
  <2> QED
    BY <1>1, LeastNumber
<1>3. x # 0 /\ x \in 1 .. N
  BY <1>2
<1>4. x - 1 \in 0 .. (N - 1) /\ x - 1 \in S
  <2>1. x - 1 \in 0 .. N /\ ~(x <= x - 1)
    BY <1>3
  <2> QED
    BY <1>2, <1>3, <2>1
<1>5. (x - 1) + 1 \in S
  BY <1>4
<1>6. (x - 1) + 1 = x
  BY <1>3
<1> QED
  BY <1>2, <1>5, <1>6

(* g starts with c and goes on with F.                                     *)
Recurses(g, N, T, c, F) ==
  g \in [0 .. N -> T] /\ g[0] = c /\ \A i \in 1 .. N : g[i] = F[<<g[i - 1], i>>]

(* A function defined by recursion over an interval exists.                *)
LEMMA Recursion ==
  ASSUME NEW N \in Nat, NEW T, NEW c \in T, NEW F \in [T \X (1 .. N) -> T]
  PROVE  \E g : Recurses(g, N, T, c, F)
<1> DEFINE Good(n, g) == /\ g \in [0 .. n -> T] /\ g[0] = c
                         /\ \A i \in 1 .. n : g[i] = F[<<g[i - 1], i>>]
           S == {n \in 0 .. N : \E g : Good(n, g)}
<1>1. 0 \in S
  <2>1. Good(0, [i \in 0 .. 0 |-> c])
    OBVIOUS
  <2>2. 0 \in 0 .. N
    OBVIOUS
  <2> HIDE DEF Good
  <2> QED
    BY <2>1, <2>2
<1>2. ASSUME NEW n \in 0 .. (N - 1), n \in S PROVE n + 1 \in S
  <2>1. PICK g : Good(n, g)
    BY <1>2
  <2> DEFINE h == [i \in 0 .. (n + 1) |-> IF i = n + 1 THEN F[<<g[n], n + 1>>] ELSE g[i]]
  <2>2. n \in 0 .. n /\ n + 1 \in 1 .. N /\ g[n] \in T
    BY <2>1
  <2>3. F[<<g[n], n + 1>>] \in T
    BY <2>2
  <2>4. h \in [0 .. (n + 1) -> T]
    BY <2>1, <2>3
  <2>5. h[0] = c /\ h[n + 1] = F[<<g[n], n + 1>>] /\ h[n] = g[n]
    BY <2>1
  <2>6. ASSUME NEW i \in 1 .. (n + 1) PROVE h[i] = F[<<h[i - 1], i>>]
    <3>1. CASE i = n + 1
      <4>1. i - 1 = n
        BY <3>1
      <4> QED
        BY <2>5, <3>1, <4>1
    <3>2. CASE i # n + 1
      <4>1. i \in 1 .. n /\ i - 1 \in 0 .. n /\ i - 1 # n + 1
        BY <3>2
      <4>2. h[i] = g[i] /\ h[i - 1] = g[i - 1]
        BY <4>1
      <4> QED
        BY <2>1, <4>1, <4>2
    <3> QED
      BY <3>1, <3>2
  <2>7. Good(n + 1, h)
    BY <2>4, <2>5, <2>6
  <2> HIDE DEF Good
  <2> QED
    BY <2>7
<1>3. N \in S
  <2>1. N \in 0 .. N
    OBVIOUS
  <2> HIDE DEF S
  <2> QED
    BY <1>1, <1>2, <2>1, Induction
<1>4. PICK g : Good(N, g)
  BY <1>3
<1> QED
  BY <1>4 DEF Recurses

-----------------------------------------------------------------------------
(* The stretch of n bytes at p is the one at distance d before it.         *)
Same(b, p, d, n) == \A k \in 0 .. (n - 1) : At(b, p + k) = At(b, p + k - d)

(* match_len finds the longest stretch.                                    *)
LEMMA MatchLenIs ==
  ASSUME NEW b, NEW p \in Nat, NEW d \in Int, NEW max \in Nat
  PROVE  LET n == match_len(b, p, d, max)
         IN  /\ n \in 0 .. max /\ Same(b, p, d, n)
             /\ n < max => At(b, p + n) # At(b, p + n - d)
             /\ \A m \in 0 .. max : Same(b, p, d, m) => m <= n
<1> DEFINE E(k) == At(b, p + k) = At(b, p + k - d)
           Stop(n) == n \in 0 .. max /\ (\A k \in 0 .. (n - 1) : E(k)) /\ (n < max => ~E(n))
           S == {k \in 0 .. max : k = max \/ ~E(k)}
           n0 == match_len(b, p, d, max)
<1>1. n0 = CHOOSE n \in 0 .. max : /\ \A k \in 0 .. (n - 1) : E(k)
                                   /\ n < max => ~E(n)
  BY DEF match_len
<1>2. S \in SUBSET Nat /\ max \in S
  OBVIOUS
<1> HIDE DEF n0, E
<1>3. PICK x \in S : \A y \in S : x <= y
  <2> HIDE DEF S
  <2> QED
    BY <1>2, LeastNumber
<1>4. Stop(x)
  <2>1. x \in 0 .. max
    BY <1>3
  <2>2. x < max => ~E(x)
    BY <1>3
  <2>3. ASSUME NEW k \in 0 .. (x - 1) PROVE E(k)
    <3>1. k \in 0 .. max /\ ~(x <= k)
      BY <2>1
    <3> QED
      BY <1>3, <3>1
  <2> QED
    BY <2>1, <2>2, <2>3
<1>5. Stop(n0)
  BY <1>1, <1>4
<1>6. ASSUME NEW m \in 0 .. max, \A k \in 0 .. (m - 1) : E(k) PROVE m <= n0
  <2> SUFFICES ASSUME n0 < m PROVE FALSE
    BY <1>5
  <2>1. n0 \in 0 .. (m - 1) /\ n0 < max
    BY <1>5
  <2> QED
    BY <1>5, <1>6, <2>1
<1>7. \A m : Same(b, p, d, m) <=> \A k \in 0 .. (m - 1) : E(k)
  BY DEF Same, E
<1>8. ~E(n0) => At(b, p + n0) # At(b, p + n0 - d)
  BY DEF E
<1> HIDE DEF Stop
<1>9. /\ n0 \in 0 .. max /\ Same(b, p, d, n0)
      /\ n0 < max => At(b, p + n0) # At(b, p + n0 - d)
  BY <1>5, <1>7, <1>8 DEF Stop
<1>10. \A m \in 0 .. max : Same(b, p, d, m) => m <= n0
  BY <1>6, <1>7
<1> QED
  BY <1>9, <1>10 DEF n0

-----------------------------------------------------------------------------
(* Of bounded scores one is the best, and the first on ties.               *)
LEMMA Champion ==
  ASSUME NEW D \in SUBSET Nat, D # {}, NEW f, NEW B \in Nat, \A d \in D : f[d] \in 0 .. B
  PROVE  \E d \in D : \A x \in D : f[x] < f[d] \/ (f[x] = f[d] /\ d <= x)
<1> DEFINE V == {v \in 0 .. B : \E d \in D : f[d] = B - v}
<1>1. V \in SUBSET Nat /\ V # {}
  <2>1. PICK d \in D : TRUE
    OBVIOUS
  <2>2. B - f[d] \in 0 .. B /\ f[d] = B - (B - f[d])
    BY <2>1
  <2> QED
    BY <2>2
<1>2. PICK v \in V : \A w \in V : v <= w
  <2> HIDE DEF V
  <2> QED
    BY <1>1, LeastNumber
<1> DEFINE c == B - v
           E == {d \in D : f[d] = c}
<1>3. c \in 0 .. B /\ \A x \in D : f[x] <= c
  <2>1. v \in 0 .. B
    BY <1>2
  <2>2. ASSUME NEW x \in D PROVE f[x] <= c
    <3>1. B - f[x] \in 0 .. B /\ f[x] = B - (B - f[x])
      OBVIOUS
    <3>2. B - f[x] \in V
      BY <3>1
    <3> QED
      BY <1>2, <2>1, <3>1, <3>2
  <2> QED
    BY <2>1, <2>2
<1>4. E \in SUBSET Nat /\ E # {}
  BY <1>2
<1>5. PICK d \in E : \A x \in E : d <= x
  <2> HIDE DEF E
  <2> QED
    BY <1>4, LeastNumber
<1>6. d \in D /\ f[d] = c
  BY <1>5
<1>7. ASSUME NEW x \in D PROVE f[x] < f[d] \/ (f[x] = f[d] /\ d <= x)
  <2> HIDE DEF c
  <2>1. CASE f[x] = c
    <3>1. x \in E
      BY <2>1
    <3> QED
      BY <1>5, <1>6, <2>1, <3>1
  <2>2. CASE f[x] # c
    BY <1>3, <1>6, <2>2
  <2> QED
    BY <2>1, <2>2
<1> QED
  BY <1>6, <1>7

(* The values of a function on 1 .. n have a bound.                        *)
LEMMA Bounded ==
  ASSUME NEW n \in Nat, NEW f \in [1 .. n -> Nat]
  PROVE  \E B \in Nat : \A d \in 1 .. n : f[d] <= B
<1> DEFINE S == {m \in 0 .. n : \E B \in Nat : \A d \in 1 .. m : f[d] <= B}
<1>1. 0 \in S
  OBVIOUS
<1>2. ASSUME NEW m \in 0 .. (n - 1), m \in S PROVE m + 1 \in S
  <2>1. PICK B \in Nat : \A d \in 1 .. m : f[d] <= B
    BY <1>2
  <2>2. m + 1 \in 1 .. n /\ f[m + 1] \in Nat /\ B + f[m + 1] \in Nat
    OBVIOUS
  <2>3. ASSUME NEW d \in 1 .. (m + 1) PROVE f[d] <= B + f[m + 1]
    <3>1. CASE d = m + 1
      BY <2>2, <3>1
    <3>2. CASE d # m + 1
      <4>1. d \in 1 .. m /\ f[d] \in Nat
        BY <3>2
      <4> QED
        BY <2>1, <2>2, <4>1
    <3> QED
      BY <3>1, <3>2
  <2> QED
    BY <2>2, <2>3
<1>3. n \in S
  <2>1. n \in 0 .. n
    OBVIOUS
  <2> HIDE DEF S
  <2> QED
    BY <1>1, <1>2, <2>1, Induction
<1> QED
  BY <1>3

(* The distance the selection takes has the most credit.                   *)
LEMMA RichestIs ==
  ASSUME credit \in [Distances -> Nat], Credited # {}
  PROVE  Richest \in Credited /\ \A x \in Credited : credit[x] <= credit[Richest]
<1>1. MAX_DIST \in Nat
  BY Codec11TableAssumption
<1>2. PICK B \in Nat : \A d \in 1 .. MAX_DIST : credit[d] <= B
  BY <1>1, Bounded DEF Distances
<1>3. Credited \in SUBSET Nat /\ \A d \in Credited : credit[d] \in 0 .. B
  BY <1>2 DEF Credited, Distances
<1>4. \E d \in Credited :
        \A x \in Credited : credit[x] < credit[d] \/ (credit[x] = credit[d] /\ d <= x)
  BY <1>3, Champion
<1>5. /\ Richest \in Credited
      /\ \A x \in Credited :
           credit[x] < credit[Richest] \/ (credit[x] = credit[Richest] /\ Richest <= x)
  BY <1>4 DEF Richest
<1> QED
  BY <1>3, <1>5

-----------------------------------------------------------------------------
(* What the buckets are.                                                   *)
SlotTypes == [Buckets -> Seq(Nat)]

(* The positions up to m with hash h, and what a bucket has to hold.       *)
All(h, m) == {q \in 0 .. m : hash3(q) = h}
Holds(list, A) ==
  /\ Len(list) = Least(Cardinality(A), SLOTS)
  /\ \A k \in 1 .. Len(list) :
       list[k] \in A /\ Cardinality({q \in A : q > list[k]}) = k - 1
Latest(sl, m) == \A h \in Buckets : Holds(sl[h], All(h, m))

(* A position is inserted into a list.                                     *)
Inserted(list, q) == SubSeq(<<q>> \o list, 1, Least(Len(list) + 1, SLOTS))

(* The list with the position before it, cut at SLOTS.                     *)
LEMMA InsertedIs ==
  ASSUME NEW list \in Seq(Nat), NEW q \in Nat
  PROVE  /\ Inserted(list, q) \in Seq(Nat)
         /\ Len(Inserted(list, q)) = Least(Len(list) + 1, SLOTS)
         /\ Inserted(list, q)[1] = q
         /\ \A k \in 2 .. Len(Inserted(list, q)) : /\ Inserted(list, q)[k] = list[k - 1]
                                                   /\ k - 1 \in 1 .. Len(list)
<1> DEFINE w == <<q>> \o list
           n == Len(list)
           m == Least(n + 1, SLOTS)
           v == SubSeq(w, 1, m)
<1>1. n \in Nat /\ SLOTS \in Nat \ {0}
  BY Codec11TableAssumption
<1>2. w \in Seq(Nat) /\ Len(w) = n + 1 /\ w[1] = q /\ \A k \in 2 .. (n + 1) : w[k] = list[k - 1]
  <2>1. <<q>> \in Seq(Nat) /\ Len(<<q>>) = 1 /\ <<q>>[1] = q
    OBVIOUS
  <2> DEFINE u == <<q>>
  <2> HIDE DEF u
  <2>2. /\ u \o list \in Seq(Nat) /\ Len(u \o list) = Len(u) + Len(list)
        /\ \A i \in 1 .. Len(u) + Len(list) :
             (u \o list)[i] = IF i <= Len(u) THEN u[i] ELSE list[i - Len(u)]
    BY <2>1, ConcatProperties DEF u
  <2>3. Len(u) = 1 /\ u[1] = q
    BY <2>1 DEF u
  <2>4. /\ w \in Seq(Nat) /\ Len(w) = 1 + n
        /\ \A i \in 1 .. 1 + n : w[i] = IF i <= 1 THEN u[i] ELSE list[i - 1]
    BY <2>2, <2>3 DEF u
  <2> HIDE DEF w, n
  <2> QED
    BY <1>1, <2>3, <2>4
<1>3. m \in 1 .. (n + 1)
  BY <1>1 DEF Least
<1> HIDE DEF w, n, m
<1>4. v \in Seq(Nat) /\ Len(v) = m /\ \A k \in 1 .. m : v[k] = w[k]
  <2>1. 1 <= m /\ m <= Len(w) /\ m \in Nat
    BY <1>1, <1>2, <1>3
  <2> QED
    BY <1>2, <2>1
<1>5. v = Inserted(list, q) /\ m = Least(Len(list) + 1, SLOTS)
  BY DEF Inserted, w, n, m
<1> HIDE DEF v
<1>6. v[1] = q
  BY <1>1, <1>2, <1>3, <1>4
<1>7. \A k \in 2 .. m : v[k] = list[k - 1] /\ k - 1 \in 1 .. n
  BY <1>1, <1>2, <1>3, <1>4
<1> QED
  BY <1>4, <1>5, <1>6, <1>7 DEF n

(* The types of the buckets are kept.                                      *)
LEMMA InsertType ==
  ASSUME NEW sl \in SlotTypes, NEW q \in Nat
  PROVE  slot_insert(sl, q) \in SlotTypes
<1> DEFINE h == hash3(q)
<1>1. slot_insert(sl, q) = [sl EXCEPT ![h] = Inserted(sl[h], q)]
  BY DEF slot_insert, Inserted
<1> HIDE DEF h
<1>2. CASE h \in Buckets
  <2>1. sl[h] \in Seq(Nat)
    BY <1>2 DEF SlotTypes
  <2>2. Inserted(sl[h], q) \in Seq(Nat)
    BY <2>1, InsertedIs
  <2> QED
    BY <1>1, <2>2 DEF SlotTypes
<1>3. CASE h \notin Buckets
  BY <1>1, <1>3 DEF SlotTypes
<1> QED
  BY <1>2, <1>3

(* A bucket that gets the next position.                                   *)
LEMMA HoldsMore ==
  ASSUME NEW list \in Seq(Nat), NEW A \in SUBSET Nat, IsFiniteSet(A), Holds(list, A),
         NEW q \in Nat, \A x \in A : x < q
  PROVE  Holds(Inserted(list, q), A \union {q})
<1> DEFINE v == Inserted(list, q)
           n == Len(list)
           c == Cardinality(A)
           A1 == A \union {q}
           After(z) == {x \in A : x > z}
           After1(z) == {x \in A1 : x > z}
<1>1. /\ v \in Seq(Nat) /\ Len(v) = Least(n + 1, SLOTS) /\ v[1] = q
      /\ \A k \in 2 .. Len(v) : v[k] = list[k - 1] /\ k - 1 \in 1 .. n
  BY InsertedIs
<1> HIDE DEF v
<1>2. /\ n \in Nat /\ SLOTS \in Nat \ {0} /\ c \in Nat /\ n = Least(c, SLOTS)
      /\ Len(v) \in Nat
  BY <1>1, Codec11TableAssumption, FS_CardinalityType DEF Holds
<1>3. q \notin A
  <2>1. ~(q < q)
    OBVIOUS
  <2> QED
    BY <2>1
<1>4. Cardinality(A1) = c + 1
  BY <1>3, FS_AddElement
<1>5. Len(v) = Least(c + 1, SLOTS)
  BY <1>1, <1>2 DEF Least
<1>6. ASSUME NEW k \in 1 .. Len(v)
      PROVE  v[k] \in A1 /\ Cardinality(After1(v[k])) = k - 1
  <2>1. CASE k = 1
    <3>1. \A x \in A1 : ~(x > q)
      OBVIOUS
    <3>2. After1(q) = {}
      BY <3>1
    <3>3. q \in A1
      OBVIOUS
    <3>4. Cardinality({}) = 0 /\ v[k] = q /\ k - 1 = 0
      BY <1>1, <2>1, FS_EmptySet
    <3> HIDE DEF A1, After1
    <3> QED
      BY <3>2, <3>3, <3>4
  <2>2. CASE k # 1
    <3>1. k \in 2 .. Len(v) /\ v[k] = list[k - 1] /\ k - 1 \in 1 .. n
      BY <1>1, <1>2, <2>2
    <3> DEFINE z == list[k - 1]
    <3>2. z \in A /\ Cardinality(After(z)) = (k - 1) - 1
      BY <3>1 DEF Holds
    <3> HIDE DEF z
    <3>3. After1(z) = After(z) \union {q}
      BY <3>2
    <3>4. After(z) \in SUBSET A /\ q \notin After(z)
      BY <1>3
    <3> HIDE DEF After, After1
    <3>5. IsFiniteSet(After(z))
      BY <3>4, FS_Subset
    <3>6. Cardinality(After(z) \union {q}) = Cardinality(After(z)) + 1
      BY <3>4, <3>5, FS_AddElement
    <3>7. Cardinality(After1(z)) = k - 1
      BY <3>1, <3>2, <3>3, <3>6
    <3> QED
      BY <3>1, <3>2, <3>7 DEF z
  <2> QED
    BY <2>1, <2>2
<1> QED
  BY <1>4, <1>5, <1>6 DEF Holds, v

(* The bucket of a position that has three bytes left.                     *)
LEMMA HashIs ==
  ASSUME band \in Seq(Byte), NEW q \in Nat, q + 3 <= Len(band)
  PROVE  hash3(q) \in Buckets
<1> DEFINE t == <<At(band, q), At(band, q + 1), At(band, q + 2)>>
<1>1. Len(band) \in Nat
  OBVIOUS
<1>2. q + 1 \in 1 .. Len(band) /\ q + 1 + 1 \in 1 .. Len(band) /\ q + 2 + 1 \in 1 .. Len(band)
  BY <1>1
<1>3. At(band, q) \in Byte /\ At(band, q + 1) \in Byte /\ At(band, q + 2) \in Byte
  BY <1>2 DEF At
<1>4. t \in Byte \X Byte \X Byte
  BY <1>3
<1>5. t \in DOMAIN Hash
  BY <1>4, Codec11TableAssumption
<1> HIDE DEF t
<1>6. Hash[t] \in Buckets
  BY <1>5 DEF Buckets
<1> QED
  BY <1>6 DEF hash3, t

(* The next position is inserted: every bucket holds the latest ones.      *)
LEMMA InsertLatest ==
  ASSUME band \in Seq(Byte), NEW sl \in SlotTypes, NEW q \in Nat, q + 3 <= Len(band),
         Latest(sl, q - 1)
  PROVE  Latest(slot_insert(sl, q), q)
<1> DEFINE h == hash3(q)
           new == slot_insert(sl, q)
<1>1. h \in Buckets
  BY HashIs
<1>2. new = [sl EXCEPT ![h] = Inserted(sl[h], q)]
  BY DEF slot_insert, Inserted
<1> HIDE DEF new
<1> SUFFICES ASSUME NEW g \in Buckets PROVE Holds(new[g], All(g, q))
  BY DEF Latest, new
<1>3. sl[g] \in Seq(Nat) /\ Holds(sl[g], All(g, q - 1))
  BY DEF SlotTypes, Latest
<1>4. All(g, q - 1) \in SUBSET Nat /\ \A x \in All(g, q - 1) : x < q
  BY DEF All
<1>5. CASE g = h
  <2>1. new[g] = Inserted(sl[g], q)
    BY <1>1, <1>2, <1>5 DEF SlotTypes
  <2>2. All(g, q) = All(g, q - 1) \union {q}
    <3>1. \A x : x \in 0 .. q <=> x \in 0 .. (q - 1) \/ x = q
      OBVIOUS
    <3> QED
      BY <1>5, <3>1 DEF All
  <2>3. IsFiniteSet(All(g, q - 1))
    <3>1. All(g, q - 1) \in SUBSET (0 .. (q - 1)) /\ IsFiniteSet(0 .. (q - 1))
      BY FS_Interval DEF All
    <3> QED
      BY <3>1, FS_Subset
  <2> HIDE DEF h
  <2> QED
    BY <1>3, <1>4, <2>1, <2>2, <2>3, HoldsMore
<1>6. CASE g # h
  <2>1. new[g] = sl[g]
    BY <1>2, <1>6 DEF SlotTypes
  <2>2. All(g, q) = All(g, q - 1)
    <3>1. \A x : x \in 0 .. q <=> x \in 0 .. (q - 1) \/ x = q
      OBVIOUS
    <3> QED
      BY <1>6, <3>1 DEF All
  <2> QED
    BY <1>3, <2>1, <2>2
<1> QED
  BY <1>5, <1>6

(* The turns of the second insert loop.                                    *)
Turns(g) ==
  g = [q \in pos .. Len(band) |->
         IF q = pos THEN slot_insert(slots, q) ELSE slot_insert(g[q - 1], q)]

(* They are a function of the position.                                    *)
LEMMA TurnsExist ==
  ASSUME band \in Seq(Byte), pos \in Nat, pos <= Len(band), slots \in SlotTypes
  PROVE  \E g : Turns(g)
<1> DEFINE N == Len(band) - pos
           c == slot_insert(slots, pos)
           F == [x \in SlotTypes \X (1 .. N) |-> slot_insert(x[1], pos + x[2])]
<1>1. N \in Nat /\ Len(band) \in Nat
  OBVIOUS
<1>2. c \in SlotTypes
  BY InsertType
<1> HIDE DEF N
<1>3. F \in [SlotTypes \X (1 .. N) -> SlotTypes]
  <2>1. ASSUME NEW x \in SlotTypes \X (1 .. N)
        PROVE  slot_insert(x[1], pos + x[2]) \in SlotTypes
    <3>1. x[1] \in SlotTypes /\ pos + x[2] \in Nat
      BY <1>1
    <3> QED
      BY <3>1, InsertType
  <2> QED
    BY <2>1
<1>4. PICK f : Recurses(f, N, SlotTypes, c, F)
  <2> HIDE DEF F, c
  <2> QED
    BY <1>1, <1>2, <1>3, Recursion
<1>5. \A i \in 1 .. N : f[i] = slot_insert(f[i - 1], pos + i)
  <2> SUFFICES ASSUME NEW i \in 1 .. N PROVE f[i] = slot_insert(f[i - 1], pos + i)
    OBVIOUS
  <2>1. f[i - 1] \in SlotTypes
    BY <1>1, <1>4 DEF Recurses
  <2>2. <<f[i - 1], i>> \in SlotTypes \X (1 .. N)
    BY <2>1
  <2>3. F[<<f[i - 1], i>>] = slot_insert(f[i - 1], pos + i)
    BY <2>2
  <2> HIDE DEF F, c
  <2> QED
    BY <1>4, <2>3 DEF Recurses
<1>6. f[0] = c
  BY <1>4 DEF Recurses
<1> DEFINE g == [q \in pos .. Len(band) |-> f[q - pos]]
<1>7. ASSUME NEW q \in pos .. Len(band)
      PROVE  g[q] = IF q = pos THEN slot_insert(slots, q) ELSE slot_insert(g[q - 1], q)
  <2>1. g[q] = f[q - pos]
    OBVIOUS
  <2>2. CASE q = pos
    <3>1. q - pos = 0
      BY <2>2
    <3> QED
      BY <1>6, <2>1, <2>2, <3>1
  <2>3. CASE q # pos
    <3>1. /\ q - pos \in 1 .. N /\ q - 1 \in pos .. Len(band) /\ pos + (q - pos) = q
          /\ (q - pos) - 1 = (q - 1) - pos
      BY <1>1, <2>3 DEF N
    <3>2. f[q - pos] = slot_insert(f[(q - 1) - pos], q)
      BY <1>5, <3>1
    <3>3. g[q - 1] = f[(q - 1) - pos]
      BY <3>1
    <3> HIDE DEF g
    <3> QED
      BY <2>1, <2>3, <3>2, <3>3
  <2> QED
    BY <2>2, <2>3
<1>8. g = [q \in pos .. Len(band) |-> g[q]]
  OBVIOUS
<1> HIDE DEF g
<1>9. Turns(g)
  BY <1>7, <1>8 DEF Turns
<1> QED
  BY <1>9

(* After a turn of the parse that moves over n bytes, or over one.         *)
LEMMA InsertMatchIs ==
  ASSUME band \in Seq(Byte), pos \in Nat, pos + 3 <= Len(band), slots \in SlotTypes,
         Latest(slots, pos - 1), NEW n \in Nat
  PROVE  /\ InsertMatch(n) \in SlotTypes
         /\ Latest(InsertMatch(n), Least(pos + Advance(n) - 1, Len(band) - 3))
<1> DEFINE L == Len(band)
           last == Least(pos + n - 1, L - 3)
           ins == CHOOSE g : Turns(g)
<1>1. L \in Nat
  OBVIOUS
<1>2. InsertMatch(n) = IF last <= pos THEN slot_insert(slots, pos) ELSE ins[last]
  BY DEF InsertMatch, Turns
<1>3. slot_insert(slots, pos) \in SlotTypes /\ Latest(slot_insert(slots, pos), pos)
  BY InsertType, InsertLatest
<1>4. CASE last <= pos
  <2>1. Least(pos + Advance(n) - 1, L - 3) = pos
    <3> HIDE DEF L
    <3> QED
      BY <1>1, <1>4 DEF Advance, Least, L
  <2> QED
    BY <1>2, <1>3, <1>4, <2>1
<1>5. CASE ~(last <= pos)
  <2>1. /\ last \in Nat /\ pos < last /\ last <= L - 3
        /\ Least(pos + Advance(n) - 1, L - 3) = last
    BY <1>1, <1>5 DEF Advance, Least
  <2>2. Turns(ins)
    <3>1. pos <= Len(band)
      BY <1>1
    <3> QED
      BY <3>1, TurnsExist
  <2> HIDE DEF ins, L, last
  <2>3. /\ ins[pos] = slot_insert(slots, pos)
        /\ \A q \in (pos + 1) .. L : ins[q] = slot_insert(ins[q - 1], q)
    <3>1. pos \in pos .. L /\ \A q \in (pos + 1) .. L : q \in pos .. L /\ q # pos
      BY <1>1, <2>1
    <3> QED
      BY <2>2, <3>1 DEF Turns, L
  <2> DEFINE M == last - pos
             S == {k \in 0 .. M : ins[pos + k] \in SlotTypes /\ Latest(ins[pos + k], pos + k)}
  <2>4. M \in Nat /\ pos + M = last
    BY <2>1
  <2>5. 0 \in S
    <3>1. pos + 0 = pos /\ 0 \in 0 .. M
      BY <2>4
    <3> QED
      BY <1>3, <2>3, <3>1
  <2>6. ASSUME NEW k \in 0 .. (M - 1), k \in S PROVE k + 1 \in S
    <3> DEFINE q == pos + (k + 1)
    <3>1. /\ q \in (pos + 1) .. L /\ q \in Nat /\ q + 3 <= L /\ q - 1 = pos + k
          /\ k + 1 \in 0 .. M
      BY <1>1, <2>1, <2>4
    <3>2. ins[q - 1] \in SlotTypes /\ Latest(ins[q - 1], q - 1)
      BY <2>6, <3>1
    <3>3. ins[q] = slot_insert(ins[q - 1], q)
      BY <2>3, <3>1
    <3>4. ins[q] \in SlotTypes /\ Latest(ins[q], q)
      <4> HIDE DEF q
      <4> QED
        BY <3>1, <3>2, <3>3, InsertType, InsertLatest DEF L
    <3> QED
      BY <3>1, <3>4
  <2>7. M \in S
    <3>1. M \in 0 .. M
      BY <2>4
    <3> HIDE DEF S, M
    <3> QED
      BY <2>4, <2>5, <2>6, <3>1, Induction
  <2>8. ins[last] \in SlotTypes /\ Latest(ins[last], last)
    BY <2>4, <2>7
  <2> QED
    BY <1>2, <1>5, <2>1, <2>8 DEF L
<1> QED
  BY <1>4, <1>5

(* The length the parse finds, none or at least three bytes.               *)
LEMMA BestIs ==
  ASSUME band \in Seq(Byte), pos \in Nat, pos + 3 <= Len(band), slots \in SlotTypes
  PROVE  Best.n \in Nat
<1> DEFINE tried == Tried
           max == Least(Len(band) - pos, MAX_MATCH)
           D == {k \in DOMAIN tried : Reached(tried[k])}
           n == [k \in D |-> match_len(band, pos, tried[k], max)]
           good == {k \in DOMAIN n : n[k] >= 3}
           First(k) == \A l \in good : n[l] < n[k] \/ (n[l] = n[k] /\ k <= l)
           k0 == CHOOSE k \in good : First(k)
<1>1. Best = IF good = {} THEN [n |-> 0, d |-> 0] ELSE [n |-> n[k0], d |-> tried[k0]]
  BY DEF Best
<1>2. max \in Nat
  BY Codec11Assumption DEF Least, MAX_MATCH
<1>3. DOMAIN tried \in SUBSET Nat /\ \A k \in DOMAIN tried : tried[k] \in Int
  <2> DEFINE near == slots[hash3(pos)]
             back == [k \in DOMAIN near |-> pos - near[k]]
  <2>1. near \in Seq(Nat)
    BY HashIs DEF SlotTypes
  <2>2. back \in Seq(Int)
    <3> HIDE DEF near
    <3>1. Len(near) \in Nat /\ DOMAIN near = 1 .. Len(near) /\ \A k \in DOMAIN near : near[k] \in Nat
      BY <2>1
    <3>2. back \in [1 .. Len(near) -> Int]
      BY <3>1
    <3> QED
      BY <3>1, <3>2
  <2>3. Columns \in Seq(Int)
    BY Codec11TableAssumption
  <2>4. tried = back \o Columns
    BY DEF Tried
  <2> HIDE DEF back, tried
  <2>5. tried \in Seq(Int)
    BY <2>2, <2>3, <2>4
  <2> QED
    BY <2>5
<1> HIDE DEF tried, max
<1>4. ASSUME NEW k \in D PROVE n[k] \in 0 .. max
  <2>1. tried[k] \in Int /\ n[k] = match_len(band, pos, tried[k], max)
    BY <1>3
  <2> HIDE DEF n
  <2> QED
    BY <1>2, <2>1, MatchLenIs
<1>5. DOMAIN n = D /\ good \in SUBSET Nat /\ \A k \in good : n[k] \in 0 .. max
  BY <1>3, <1>4
<1> HIDE DEF n, D
<1>6. CASE good = {}
  BY <1>1, <1>6
<1>7. CASE good # {}
  <2> HIDE DEF good
  <2>1. \E k \in good : First(k)
    BY <1>2, <1>5, <1>7, Champion
  <2>2. k0 \in good
    <3> HIDE DEF First
    <3> QED
      BY <2>1
  <2> HIDE DEF k0
  <2>3. n[k0] \in Nat
    <3>1. n[k0] \in 0 .. max
      BY <1>5, <2>2
    <3> QED
      BY <1>2, <3>1
  <2> QED
    BY <1>1, <1>7, <2>3
<1> QED
  BY <1>6, <1>7

-----------------------------------------------------------------------------
(* The inductive invariant                                                 *)

(* The types of the state.                                                 *)
Typed ==
  /\ phase \in {"idle", "parse", "select", "fill", "done"}
  /\ band \in Seq(Byte) /\ pos \in Nat /\ slots \in SlotTypes
  /\ credit \in [Distances -> Nat] /\ earned \in [Distances -> Nat]
  /\ table \in Seq(Nat \ {0}) /\ next \in Nat \ {0}

(* The buckets hold the latest positions before pos.                       *)
Remembered ==
  /\ Latest(slots, Least(pos - 1, Len(band) - 3))
  /\ phase = "idle" => pos = 0 /\ slots = NoSlots

(* An entry t[l] that earned credit comes after ones that earned as much.  *)
Ranked(t, paid) ==
  \A k, l \in 1 .. Len(t) :
    k < l /\ t[l] \in Distances /\ paid[t[l]] > 0
      => t[k] \in Distances /\ paid[t[k]] >= paid[t[l]]

(* No entry twice, and an entry of a table.                                *)
Distinct(t) == \A k, l \in 1 .. Len(t) : t[k] = t[l] => k = l
In(d, t) == \E k \in 1 .. Len(t) : t[k] = d

(* While it is selected: the entries had credit and have none now, what    *)
(* has credit has it untouched, and no entry earned less.                  *)
Selecting(t) ==
  /\ \A k \in 1 .. Len(t) :
       /\ t[k] \in Distances /\ earned[t[k]] > 0 /\ credit[t[k]] = 0
       /\ \A d \in Distances : credit[d] <= earned[t[k]]
  /\ \A d \in Distances : In(d, t) \/ credit[d] = earned[d]

(* Then: a distance that earned credit is there or the table is full of    *)
(* ones that earned as much, and the default entries so far are there.     *)
Filling(t) ==
  /\ \A d \in Distances : earned[d] > 0 =>
       \/ In(d, t)
       \/ /\ Len(t) = ENTRIES
          /\ \A k \in 1 .. Len(t) : t[k] \in Distances /\ earned[t[k]] >= earned[d]
  /\ \A k \in 1 .. (next - 1) : k <= ENTRIES => In(Default[k], t)

(* The table, phase by phase.                                              *)
Chosen ==
  /\ Len(table) <= ENTRIES /\ Distinct(table) /\ Ranked(table, earned)
  /\ phase \in {"idle", "parse"} => Len(table) = 0
  /\ phase \in {"idle", "parse", "select"} => next = 1
  /\ phase = "select" => Selecting(table)
  /\ phase \in {"fill", "done"} => Filling(table)
  /\ phase = "done" => Len(table) = ENTRIES

(* The inductive invariant.                                                *)
IInv == Typed /\ Remembered /\ Chosen

-----------------------------------------------------------------------------
(* Before any position nothing is to be remembered.                        *)
LEMMA NoneRemembered ==
  ASSUME NEW m \in Int, m < 0
  PROVE  NoSlots \in SlotTypes /\ Latest(NoSlots, m)
<1>1. << >> \in Seq(Nat) /\ Len(<< >>) = 0
  OBVIOUS
<1>2. NoSlots \in SlotTypes
  BY <1>1 DEF NoSlots, SlotTypes
<1>3. ASSUME NEW h \in Buckets PROVE Holds(NoSlots[h], All(h, m))
  <2>1. All(h, m) = {} /\ NoSlots[h] = << >>
    BY DEF All, NoSlots
  <2>2. Cardinality({}) = 0
    BY FS_EmptySet
  <2>3. Least(0, SLOTS) = 0
    BY Codec11TableAssumption DEF Least
  <2>4. \A k \in 1 .. Len(<< >>) : FALSE
    BY <1>1
  <2> QED
    BY <1>1, <2>1, <2>2, <2>3, <2>4 DEF Holds
<1> QED
  BY <1>2, <1>3 DEF Latest

(* The invariant holds before the call.                                    *)
LEMMA InitHolds == Init => IInv
<1> SUFFICES ASSUME Init PROVE IInv
  OBVIOUS
<1>1. /\ phase = "idle" /\ band = << >> /\ pos = 0 /\ slots = NoSlots
      /\ credit = NoCredit /\ table = << >> /\ next = 1 /\ earned = NoCredit
  BY DEF Init
<1>2. /\ << >> \in Seq(Byte) /\ << >> \in Seq(Nat \ {0}) /\ Len(<< >>) = 0
      /\ Len(band) = 0 /\ Len(table) = 0
  BY <1>1
<1>3. NoCredit \in [Distances -> Nat]
  BY DEF NoCredit
<1>4. Least(pos - 1, Len(band) - 3) \in Int /\ Least(pos - 1, Len(band) - 3) < 0
  BY <1>1, <1>2 DEF Least
<1>5. Typed
  BY <1>1, <1>2, <1>3, <1>4, NoneRemembered DEF Typed
<1>6. Remembered
  BY <1>1, <1>4, NoneRemembered DEF Remembered
<1>7. Chosen
  <2>1. Distinct(table) /\ Ranked(table, earned)
    BY <1>2 DEF Distinct, Ranked
  <2> QED
    BY <1>1, <1>2, <2>1, Codec11Assumption DEF Chosen
<1> QED
  BY <1>5, <1>6, <1>7 DEF IInv

(* A step that leaves the parse alone leaves the buckets as they were.     *)
LEMMA RememberedKeeps ==
  ASSUME Remembered, band' = band, pos' = pos, slots' = slots, phase' # "idle"
  PROVE  Remembered'
<1>1. Latest(slots, Least(pos - 1, Len(band) - 3))'
  BY DEF Remembered, Latest, All, hash3
<1> QED
  BY <1>1 DEF Remembered

(* The call begins.                                                        *)
LEMMA ChooseKeeps ==
  ASSUME IInv, NEW b \in UNION {[1 .. k -> Pixels] : k \in 0 .. MaxLen}, choose_table(b)
  PROVE  IInv'
<1>1. /\ phase = "idle" /\ phase' = "parse" /\ band' = b /\ pos' = pos /\ slots' = slots
      /\ credit' = credit /\ table' = table /\ next' = next /\ earned' = earned
  BY DEF choose_table
<1>2. b \in Seq(Byte) /\ Len(b) \in Nat
  <2>1. PICK k \in 0 .. MaxLen : b \in [1 .. k -> Pixels]
    OBVIOUS
  <2>2. b \in [1 .. k -> Byte] /\ k \in Nat
    BY <2>1, Codec11TableAssumption
  <2> QED
    BY <2>2
<1>3. Typed /\ Remembered /\ Chosen
  BY DEF IInv
<1>4. Typed'
  BY <1>1, <1>2, <1>3 DEF Typed
<1>5. Remembered'
  <2>1. pos = 0 /\ slots = NoSlots
    BY <1>1, <1>3 DEF Remembered
  <2> DEFINE m == Least(0 - 1, Len(b) - 3)
  <2>2. m \in Int /\ m < 0
    BY <1>2 DEF Least
  <2> HIDE DEF m
  <2>3. \A h \in Buckets : NoSlots[h] = << >> /\ Len(<< >>) = 0
    BY DEF NoSlots
  <2>4. Latest(NoSlots, m)'
    <3>1. ASSUME NEW h \in Buckets PROVE Holds(NoSlots[h], All(h, m)')
      <4>1. All(h, m)' = {} /\ All(h, m) = {}
        BY <2>2 DEF All
      <4> QED
        BY <2>2, <4>1, NoneRemembered DEF Latest
    <3> QED
      BY <3>1 DEF Latest, Holds
  <2>5. Least(pos - 1, Len(band) - 3)' = m
    BY <1>1, <2>1 DEF m
  <2> QED
    BY <1>1, <2>1, <2>4, <2>5 DEF Remembered
<1>6. Chosen'
  BY <1>1, <1>3 DEF Chosen, Distinct, Ranked
<1> QED
  BY <1>4, <1>5, <1>6 DEF IInv

(* A turn of the parse.                                                    *)
LEMMA ParseKeeps ==
  ASSUME IInv, Parse
  PROVE  IInv'
<1> DEFINE n == Best.n
           dist == Best.d
<1>1. /\ phase = "parse" /\ pos + 3 <= Len(band) /\ phase' = "parse" /\ band' = band
      /\ table' = table /\ next' = next /\ earned' = earned
      /\ slots' = InsertMatch(n) /\ pos' = pos + Advance(n)
      /\ credit' = IF n = 0 THEN credit ELSE [credit EXCEPT ![dist] = @ + n]
  BY DEF Parse
<1>2. Typed /\ Remembered /\ Chosen
  BY DEF IInv
<1>3. /\ band \in Seq(Byte) /\ pos \in Nat /\ slots \in SlotTypes /\ Len(band) \in Nat
      /\ credit \in [Distances -> Nat]
  BY <1>2 DEF Typed
<1>4. n \in Nat
  BY <1>1, <1>3, BestIs
<1> HIDE DEF n, dist
<1>5. Latest(slots, pos - 1)
  <2>1. Least(pos - 1, Len(band) - 3) = pos - 1
    BY <1>1, <1>3 DEF Least
  <2> QED
    BY <1>2, <2>1 DEF Remembered
<1> DEFINE m == Least(pos + Advance(n) - 1, Len(band) - 3)
           new == InsertMatch(n)
<1>6. new \in SlotTypes /\ Latest(new, m)
  BY <1>1, <1>3, <1>4, <1>5, InsertMatchIs
<1>7. credit' \in [Distances -> Nat]
  <2>1. \A d \in Distances : credit[d] + n \in Nat
    BY <1>3, <1>4
  <2>2. CASE n = 0
    BY <1>1, <1>3, <2>2
  <2>3. CASE n # 0
    <3>1. credit' = [credit EXCEPT ![dist] = credit[dist] + n]
      BY <1>1, <2>3
    <3> QED
      BY <1>3, <2>1, <3>1
  <2> QED
    BY <2>2, <2>3
<1>8. pos' \in Nat
  BY <1>1, <1>3, <1>4 DEF Advance
<1>9. Typed'
  <2> HIDE DEF new
  <2>1. slots' \in SlotTypes
    BY <1>1, <1>6 DEF new
  <2> QED
    BY <1>1, <1>2, <1>7, <1>8, <2>1 DEF Typed
<1>10. Remembered'
  <2>1. slots' = new /\ Least(pos - 1, Len(band) - 3)' = m
    <3>1. Least(pos - 1, Len(band) - 3)' = Least(pos' - 1, Len(band') - 3)
      BY DEF Least
    <3>2. pos' = pos + Advance(n) /\ band' = band
      BY <1>1
    <3>3. pos' \in Nat /\ pos \in Nat /\ Advance(n) \in Nat /\ Len(band) \in Nat
      BY <1>3, <1>4, <1>8 DEF Advance
    <3>4. Least(pos' - 1, Len(band') - 3) = m
      BY <3>2, <3>3 DEF Least
    <3> QED
      BY <1>1, <3>1, <3>4
  <2> HIDE DEF new, m
  <2>2. Latest(slots, Least(pos - 1, Len(band) - 3))'
    BY <1>1, <1>6, <2>1 DEF Latest, All, hash3
  <2> QED
    BY <1>1, <2>2 DEF Remembered
<1>11. Chosen'
  BY <1>1, <1>2 DEF Chosen, Distinct, Ranked
<1> QED
  BY <1>9, <1>10, <1>11 DEF IInv

(* The credit is what was earned; no entry is selected yet.                *)
LEMMA EndParseKeeps ==
  ASSUME IInv, EndParse
  PROVE  IInv'
<1>1. /\ phase = "parse" /\ phase' = "select" /\ band' = band /\ pos' = pos /\ slots' = slots
      /\ credit' = credit /\ table' = table /\ next' = next /\ earned' = credit
  BY DEF EndParse
<1>2. Typed /\ Remembered /\ Chosen
  BY DEF IInv
<1>3. Typed'
  BY <1>1, <1>2 DEF Typed
<1>4. Remembered'
  BY <1>1, <1>2, RememberedKeeps
<1>5. Len(table) = 0 /\ Len(table') = 0 /\ next' = 1
  BY <1>1, <1>2 DEF Chosen
<1>6. Selecting(table)'
  BY <1>1, <1>5 DEF Selecting
<1>7. Ranked(table, earned)' /\ Distinct(table)'
  BY <1>5 DEF Ranked, Distinct
<1>8. Len(table)' <= ENTRIES
  BY <1>5, Codec11Assumption
<1> QED
  BY <1>1, <1>3, <1>4, <1>5, <1>6, <1>7, <1>8 DEF IInv, Chosen

(* A longer table.                                                         *)
LEMMA Appended ==
  ASSUME NEW t \in Seq(Nat \ {0}), NEW d \in Nat \ {0}
  PROVE  /\ Append(t, d) \in Seq(Nat \ {0}) /\ Len(Append(t, d)) = Len(t) + 1
         /\ Len(t) \in Nat
         /\ \A k \in 1 .. Len(t) : Append(t, d)[k] = t[k]
         /\ Append(t, d)[Len(t) + 1] = d
  OBVIOUS

(* It stays without duplicates when the new entry is not one.              *)
LEMMA DistinctMore ==
  ASSUME NEW t \in Seq(Nat \ {0}), NEW d \in Nat \ {0}, Distinct(t), ~In(d, t)
  PROVE  Distinct(Append(t, d))
<1> DEFINE w == Append(t, d)
           n == Len(t)
<1>1. /\ n \in Nat /\ Len(w) = n + 1 /\ w[n + 1] = d /\ \A k \in 1 .. n : w[k] = t[k]
  BY Appended
<1> HIDE DEF w, n
<1>2. ASSUME NEW k \in 1 .. (n + 1), NEW l \in 1 .. (n + 1), w[k] = w[l] PROVE k = l
  <2>1. \A i \in 1 .. (n + 1) : i \in 1 .. n \/ i = n + 1
    BY <1>1
  <2>2. \A i \in 1 .. n : w[i] = t[i] /\ t[i] # d
    BY <1>1 DEF In, n
  <2>3. \A i, j \in 1 .. n : t[i] = t[j] => i = j
    BY DEF Distinct, n
  <2> QED
    BY <1>1, <1>2, <2>1, <2>2, <2>3
<1> QED
  BY <1>1, <1>2 DEF Distinct, w

(* It stays ranked when the new entry earned no more than the others.      *)
LEMMA RankedMore ==
  ASSUME NEW t \in Seq(Nat \ {0}), NEW d \in Nat \ {0}, Ranked(t, earned),
         d \in Distances /\ earned[d] > 0 =>
           \A k \in 1 .. Len(t) : t[k] \in Distances /\ earned[t[k]] >= earned[d]
  PROVE  Ranked(Append(t, d), earned)
<1> DEFINE w == Append(t, d)
           n == Len(t)
<1>1. /\ n \in Nat /\ Len(w) = n + 1 /\ w[n + 1] = d /\ \A k \in 1 .. n : w[k] = t[k]
  BY Appended
<1> HIDE DEF w, n
<1>2. ASSUME NEW k \in 1 .. (n + 1), NEW l \in 1 .. (n + 1), k < l, w[l] \in Distances,
             earned[w[l]] > 0
      PROVE  w[k] \in Distances /\ earned[w[k]] >= earned[w[l]]
  <2>1. k \in 1 .. n /\ w[k] = t[k]
    BY <1>1, <1>2
  <2>2. CASE l = n + 1
    BY <1>1, <1>2, <2>1, <2>2 DEF n
  <2>3. CASE l # n + 1
    <3>1. l \in 1 .. n /\ w[l] = t[l]
      BY <1>1, <2>3
    <3> QED
      BY <1>2, <2>1, <3>1 DEF Ranked, n
  <2> QED
    BY <2>2, <2>3
<1> QED
  BY <1>1, <1>2 DEF Ranked, w

(* What is in a table is in the longer one.                                *)
LEMMA InMore ==
  ASSUME NEW t \in Seq(Nat \ {0}), NEW d \in Nat \ {0}
  PROVE  /\ \A x : In(x, t) => In(x, Append(t, d))
         /\ In(d, Append(t, d))
<1> DEFINE w == Append(t, d)
           n == Len(t)
<1>1. /\ n \in Nat /\ Len(w) = n + 1 /\ w[n + 1] = d /\ \A k \in 1 .. n : w[k] = t[k]
  BY Appended
<1> HIDE DEF w, n
<1>2. n + 1 \in 1 .. (n + 1) /\ \A k \in 1 .. n : k \in 1 .. (n + 1)
  BY <1>1
<1> QED
  BY <1>1, <1>2 DEF In, w, n

(* The distance with the most credit becomes the next entry.               *)
LEMMA SelectKeeps ==
  ASSUME IInv, Select
  PROVE  IInv'
<1> DEFINE r == Richest
           t == table
           w == Append(table, r)
           n == Len(table)
<1>1. /\ phase = "select" /\ phase' = "select" /\ band' = band /\ pos' = pos
      /\ slots' = slots /\ next' = next /\ earned' = earned /\ n < ENTRIES
      /\ Credited # {} /\ table' = w /\ credit' = [credit EXCEPT ![r] = 0]
  BY DEF Select
<1>2. Typed /\ Remembered /\ Chosen
  BY DEF IInv
<1>3. /\ credit \in [Distances -> Nat] /\ earned \in [Distances -> Nat]
      /\ t \in Seq(Nat \ {0}) /\ Distinct(t) /\ Ranked(t, earned) /\ Selecting(t)
      /\ next = 1 /\ ENTRIES \in Nat
  BY <1>1, <1>2, Codec11Assumption DEF Typed, Chosen
<1>4. r \in Credited /\ \A x \in Credited : credit[x] <= credit[r]
  BY <1>1, <1>3, RichestIs
<1>5. r \in Distances /\ r \in Nat \ {0} /\ credit[r] > 0 /\ credit[r] \in Nat
  BY <1>3, <1>4 DEF Credited, Distances
<1> HIDE DEF r, t
<1>6. \A d \in Distances : credit[d] <= credit[r]
  <2> SUFFICES ASSUME NEW d \in Distances PROVE credit[d] <= credit[r]
    OBVIOUS
  <2>1. CASE d \in Credited
    BY <1>4, <2>1
  <2>2. CASE d \notin Credited
    <3>1. credit[d] \in Nat /\ ~(credit[d] > 0)
      BY <1>3, <2>2 DEF Credited
    <3> QED
      BY <1>5, <3>1
  <2> QED
    BY <2>1, <2>2
<1>7. /\ n \in Nat /\ w \in Seq(Nat \ {0}) /\ Len(w) = n + 1 /\ w[n + 1] = r
      /\ \A k \in 1 .. n : w[k] = t[k]
  BY <1>3, <1>5, Appended DEF t
<1>8. ~In(r, t) /\ credit[r] = earned[r]
  <2>1. ~In(r, t)
    BY <1>3, <1>5 DEF Selecting, In
  <2> QED
    BY <1>3, <1>5, <2>1 DEF Selecting
<1>9. Distinct(w)
  BY <1>3, <1>5, <1>8, DistinctMore DEF t
<1>10. Ranked(w, earned)
  <2>1. \A k \in 1 .. Len(t) : t[k] \in Distances /\ earned[t[k]] >= earned[r]
    <3> SUFFICES ASSUME NEW k \in 1 .. Len(t)
                 PROVE  t[k] \in Distances /\ earned[t[k]] >= earned[r]
      OBVIOUS
    <3>1. t[k] \in Distances /\ credit[r] <= earned[t[k]] /\ earned[t[k]] \in Nat
      BY <1>3, <1>5 DEF Selecting
    <3> QED
      BY <1>5, <1>8, <3>1
  <2> QED
    BY <1>3, <1>5, <2>1, RankedMore DEF t
<1>11. \A x : In(x, t) => In(x, w)
  BY <1>3, <1>5, InMore DEF t
<1>12. In(r, w)
  BY <1>3, <1>5, InMore DEF t
<1> HIDE DEF w
<1>13. credit' \in [Distances -> Nat] /\ \A d \in Distances : credit'[d] <= credit[d]
  <2>1. \A d \in Distances : credit'[d] = IF d = r THEN 0 ELSE credit[d]
    BY <1>1, <1>3
  <2>2. credit' \in [Distances -> Nat]
    BY <1>1, <1>3
  <2>3. \A d \in Distances : credit[d] \in Nat
    BY <1>3
  <2> QED
    BY <2>1, <2>2, <2>3
<1>14. ASSUME NEW k \in 1 .. (n + 1)
       PROVE  /\ w[k] \in Distances /\ earned[w[k]] > 0 /\ credit'[w[k]] = 0
              /\ \A d \in Distances : credit'[d] <= earned[w[k]]
  <2>1. CASE k = n + 1
    <3>1. w[k] = r /\ earned[r] = credit[r] /\ credit'[r] = 0
      BY <1>1, <1>3, <1>5, <1>7, <1>8, <2>1
    <3>2. ASSUME NEW d \in Distances PROVE credit'[d] <= credit[r]
      <4>1. credit'[d] \in Nat /\ credit[d] \in Nat /\ credit'[d] <= credit[d]
        BY <1>3, <1>13
      <4> QED
        BY <1>5, <1>6, <4>1
    <3> QED
      BY <1>5, <3>1, <3>2
  <2>2. CASE k # n + 1
    <3>1. k \in 1 .. n /\ w[k] = t[k] /\ k \in 1 .. Len(t)
      BY <1>7, <2>2 DEF t
    <3>2. t[k] # r
      BY <1>8, <3>1 DEF In
    <3>3. /\ t[k] \in Distances /\ earned[t[k]] > 0 /\ credit[t[k]] = 0
          /\ earned[t[k]] \in Nat
      BY <1>3, <3>1 DEF Selecting
    <3>4. credit'[t[k]] = 0
      BY <1>1, <1>3, <3>2, <3>3
    <3>5. ASSUME NEW d \in Distances PROVE credit'[d] <= earned[t[k]]
      <4>1. /\ credit'[d] \in Nat /\ credit[d] \in Nat /\ credit'[d] <= credit[d]
            /\ credit[d] <= earned[t[k]]
        BY <1>3, <1>13, <3>1 DEF Selecting
      <4> QED
        BY <3>3, <4>1
    <3> QED
      BY <3>1, <3>3, <3>4, <3>5
  <2> QED
    BY <2>1, <2>2
<1>15. \A d \in Distances : In(d, w) \/ credit'[d] = earned[d]
  <2> SUFFICES ASSUME NEW d \in Distances, d # r, ~In(d, w) PROVE credit'[d] = earned[d]
    BY <1>12
  <2>1. credit[d] = earned[d]
    BY <1>3, <1>11 DEF Selecting
  <2> QED
    BY <1>1, <1>3, <2>1
<1>16. Selecting(table)'
  <2>1. /\ \A k \in 1 .. Len(w) :
             /\ w[k] \in Distances /\ earned[w[k]] > 0 /\ credit'[w[k]] = 0
             /\ \A d \in Distances : credit'[d] <= earned[w[k]]
        /\ \A d \in Distances : In(d, w) \/ credit'[d] = earned[d]
    BY <1>7, <1>14, <1>15
  <2> QED
    BY <1>1, <2>1 DEF Selecting, In
<1>17. Distinct(table)' /\ Ranked(table, earned)'
  BY <1>1, <1>9, <1>10 DEF Distinct, Ranked
<1>18. Len(table)' <= ENTRIES
  <2>1. Len(table') = n + 1
    BY <1>1, <1>7
  <2> HIDE DEF n
  <2> QED
    BY <1>1, <1>3, <1>7, <2>1
<1>19. Chosen'
  BY <1>1, <1>3, <1>16, <1>17, <1>18 DEF Chosen
<1>20. Typed'
  BY <1>1, <1>2, <1>7, <1>13 DEF Typed
<1>21. Remembered'
  BY <1>1, <1>2, RememberedKeeps
<1> QED
  BY <1>19, <1>20, <1>21 DEF IInv

(* The table is full, or nothing that earned credit is left.               *)
LEMMA EndSelectKeeps ==
  ASSUME IInv, EndSelect
  PROVE  IInv'
<1>1. /\ phase = "select" /\ phase' = "fill" /\ band' = band /\ pos' = pos /\ slots' = slots
      /\ credit' = credit /\ table' = table /\ next' = next /\ earned' = earned
      /\ (Len(table) = ENTRIES \/ Credited = {})
  BY DEF EndSelect
<1>2. Typed /\ Remembered /\ Chosen
  BY DEF IInv
<1>3. Typed'
  BY <1>1, <1>2 DEF Typed
<1>4. Remembered'
  BY <1>1, <1>2, RememberedKeeps
<1>5. Selecting(table) /\ next = 1
  BY <1>1, <1>2 DEF Chosen
<1>6. ASSUME NEW d \in Distances, earned[d] > 0, ~In(d, table)
      PROVE  /\ Len(table) = ENTRIES
             /\ \A k \in 1 .. Len(table) :
                  table[k] \in Distances /\ earned[table[k]] >= earned[d]
  <2>1. credit[d] = earned[d] /\ d \in Credited
    BY <1>5, <1>6 DEF Selecting, Credited
  <2>2. ASSUME NEW k \in 1 .. Len(table)
        PROVE  table[k] \in Distances /\ earned[table[k]] >= earned[d]
    <3>1. table[k] \in Distances /\ credit[d] <= earned[table[k]]
      BY <1>5 DEF Selecting
    <3>2. earned[d] \in Nat /\ earned[table[k]] \in Nat
      BY <1>2, <3>1 DEF Typed
    <3> QED
      BY <2>1, <3>1, <3>2
  <2> QED
    BY <1>1, <2>1, <2>2
<1>7. Filling(table)
  BY <1>5, <1>6 DEF Filling
<1>8. Filling(table)'
  BY <1>1, <1>7 DEF Filling, In
<1>9. Chosen'
  BY <1>1, <1>2, <1>8 DEF Chosen, Distinct, Ranked
<1> QED
  BY <1>3, <1>4, <1>9 DEF IInv

(* An entry of the default table is looked at: what is not there earned    *)
(* nothing, since there is room.                                           *)
LEMMA FillKeeps ==
  ASSUME IInv, Fill
  PROVE  IInv'
<1> DEFINE d0 == Default[next]
           w == IF Present(d0) THEN table ELSE Append(table, d0)
<1>1. /\ phase = "fill" /\ phase' = "fill" /\ band' = band /\ pos' = pos /\ slots' = slots
      /\ credit' = credit /\ earned' = earned /\ next <= ENTRIES /\ Len(table) < ENTRIES
      /\ table' = w /\ next' = next + 1
  BY DEF Fill
<1>2. Typed /\ Remembered /\ Chosen
  BY DEF IInv
<1>3. /\ table \in Seq(Nat \ {0}) /\ Distinct(table) /\ Ranked(table, earned)
      /\ Filling(table) /\ next \in 1 .. ENTRIES /\ ENTRIES \in Nat
      /\ earned \in [Distances -> Nat] /\ Len(table) \in Nat /\ next \in Nat
  BY <1>1, <1>2, Codec11Assumption DEF Typed, Chosen
<1>4. d0 \in Nat \ {0}
  BY <1>3, Codec11TableAssumption
<1> HIDE DEF d0
<1>5. Present(d0) <=> In(d0, table)
  BY DEF Present, In
<1>6. \A d \in Distances : earned[d] > 0 => In(d, table)
  BY <1>1, <1>3 DEF Filling
<1>7. /\ w \in Seq(Nat \ {0}) /\ Len(w) \in Nat /\ Len(w) <= ENTRIES /\ Distinct(w)
      /\ Ranked(w, earned) /\ In(d0, w) /\ \A x : In(x, table) => In(x, w)
  <2>1. CASE Present(d0)
    BY <1>1, <1>3, <1>5, <2>1
  <2>2. CASE ~Present(d0)
    <3> DEFINE v == Append(table, d0)
    <3>1. ~In(d0, table)
      BY <1>5, <2>2
    <3>2. v \in Seq(Nat \ {0}) /\ Len(v) = Len(table) + 1
      BY <1>3, <1>4, Appended
    <3>3. Distinct(v)
      BY <1>3, <1>4, <3>1, DistinctMore
    <3>4. Ranked(v, earned)
      <4>1. ~(d0 \in Distances /\ earned[d0] > 0)
        BY <1>6, <3>1
      <4> QED
        BY <1>3, <1>4, <4>1, RankedMore
    <3>5. In(d0, v) /\ \A x : In(x, table) => In(x, v)
      BY <1>3, <1>4, InMore
    <3>6. w = v
      BY <2>2
    <3> HIDE DEF v, w
    <3>7. Len(v) \in Nat /\ Len(v) <= ENTRIES
      BY <1>1, <1>3, <3>2
    <3> QED
      BY <3>2, <3>3, <3>4, <3>5, <3>6, <3>7
  <2> QED
    BY <2>1, <2>2
<1> HIDE DEF w
<1>8. ASSUME NEW k \in 1 .. next, k <= ENTRIES PROVE In(Default[k], w)
  <2>1. CASE k = next
    BY <1>7, <2>1 DEF d0
  <2>2. CASE k # next
    <3>1. k \in 1 .. (next - 1)
      BY <1>3, <2>2
    <3>2. In(Default[k], table)
      BY <1>3, <1>8, <3>1 DEF Filling
    <3> QED
      BY <1>7, <3>2
  <2> QED
    BY <2>1, <2>2
<1>9. Filling(table)'
  <2>1. next' - 1 = next
    BY <1>1, <1>3
  <2>2. \A d \in Distances : earned[d] > 0 => In(d, w)
    BY <1>6, <1>7
  <2>3. (\A k \in 1 .. (next - 1) : k <= ENTRIES => In(Default[k], table))'
    BY <1>1, <1>8, <2>1 DEF In
  <2>4. \A d \in Distances : earned'[d] > 0 => In(d, table)'
    BY <1>1, <2>2 DEF In
  <2> QED
    BY <2>3, <2>4 DEF Filling
<1>10. Chosen'
  <2>1. Distinct(table)' /\ Ranked(table, earned)' /\ Len(table)' <= ENTRIES
    BY <1>1, <1>7 DEF Distinct, Ranked
  <2> QED
    BY <1>1, <1>9, <2>1 DEF Chosen
<1>11. Typed'
  <2>1. next + 1 \in Nat \ {0}
    BY <1>3
  <2> QED
    BY <1>1, <1>2, <1>7, <2>1 DEF Typed
<1>12. Remembered'
  BY <1>1, <1>2, RememberedKeeps
<1> QED
  BY <1>10, <1>11, <1>12 DEF IInv

(* A table that has all the default entries is full: they are distinct.    *)
LEMMA DefaultFills ==
  ASSUME NEW t \in Seq(Nat \ {0}), \A k \in 1 .. ENTRIES : In(Default[k], t)
  PROVE  ENTRIES <= Len(t)
<1> DEFINE n == Len(t)
           f == [k \in 1 .. ENTRIES |-> CHOOSE i \in 1 .. n : t[i] = Default[k]]
<1>1. n \in Nat /\ ENTRIES \in Nat
  BY Codec11Assumption
<1>2. ASSUME NEW k \in 1 .. ENTRIES PROVE f[k] \in 1 .. n /\ t[f[k]] = Default[k]
  BY DEF In
<1> HIDE DEF f
<1>3. f \in Injection(1 .. ENTRIES, 1 .. n)
  <2>1. f \in [1 .. ENTRIES -> 1 .. n]
    BY <1>2 DEF f
  <2>2. \A k, l \in 1 .. ENTRIES : f[k] = f[l] => k = l
    BY <1>2, Codec11TableAssumption
  <2> QED
    BY <2>1, <2>2 DEF Injection, IsInjective
<1> HIDE DEF n
<1>4. /\ IsFiniteSet(1 .. n) /\ Cardinality(1 .. n) = n
      /\ Cardinality(1 .. ENTRIES) = ENTRIES
  <2>1. ASSUME NEW m \in Nat PROVE IsFiniteSet(1 .. m) /\ Cardinality(1 .. m) = m
    <3>1. IsFiniteSet(1 .. m) /\ Cardinality(1 .. m) = IF 1 > m THEN 0 ELSE m - 1 + 1
      BY FS_Interval
    <3> QED
      BY <3>1
  <2> QED
    BY <1>1, <2>1
<1>5. Cardinality(1 .. ENTRIES) <= Cardinality(1 .. n)
  BY <1>3, <1>4, FS_Injection
<1> QED
  BY <1>4, <1>5 DEF n

(* The table is full when the call returns.                                *)
LEMMA EndFillKeeps ==
  ASSUME IInv, EndFill
  PROVE  IInv'
<1>1. /\ phase = "fill" /\ phase' = "done" /\ band' = band /\ pos' = pos /\ slots' = slots
      /\ credit' = credit /\ table' = table /\ next' = next /\ earned' = earned
      /\ (next > ENTRIES \/ Len(table) = ENTRIES)
  BY DEF EndFill
<1>2. Typed /\ Remembered /\ Chosen
  BY DEF IInv
<1>3. Typed'
  BY <1>1, <1>2 DEF Typed
<1>4. Remembered'
  BY <1>1, <1>2, RememberedKeeps
<1>5. Len(table) = ENTRIES
  <2> SUFFICES ASSUME next > ENTRIES PROVE Len(table) = ENTRIES
    BY <1>1
  <2>1. /\ next \in Nat /\ ENTRIES \in Nat /\ table \in Seq(Nat \ {0})
        /\ Len(table) \in Nat /\ Len(table) <= ENTRIES /\ Filling(table)
    BY <1>1, <1>2, Codec11Assumption DEF Typed, Chosen
  <2>2. \A k \in 1 .. ENTRIES : k \in 1 .. (next - 1) /\ k <= ENTRIES
    BY <2>1
  <2>3. \A k \in 1 .. ENTRIES : In(Default[k], table)
    BY <2>1, <2>2 DEF Filling
  <2>4. ENTRIES <= Len(table)
    BY <2>1, <2>3, DefaultFills
  <2> QED
    BY <2>1, <2>4
<1>6. Filling(table)'
  BY <1>1, <1>2 DEF Chosen, Filling, In
<1>7. Chosen'
  BY <1>1, <1>2, <1>5, <1>6 DEF Chosen, Distinct, Ranked
<1> QED
  BY <1>3, <1>4, <1>7 DEF IInv

(* A step that changes nothing keeps the invariant.                        *)
LEMMA StutterKeeps == IInv /\ UNCHANGED vars => IInv'
<1> SUFFICES ASSUME IInv, UNCHANGED vars PROVE IInv'
  OBVIOUS
<1>1. /\ phase' = phase /\ band' = band /\ pos' = pos /\ slots' = slots
      /\ credit' = credit /\ table' = table /\ next' = next /\ earned' = earned
  BY DEF vars
<1>2. Typed /\ Remembered /\ Chosen
  BY DEF IInv
<1>3. Typed'
  BY <1>1, <1>2 DEF Typed
<1>4. Remembered'
  BY <1>1, <1>2 DEF Remembered, Latest, All, hash3
<1>5. Chosen'
  BY <1>1, <1>2 DEF Chosen, Distinct, Ranked, Selecting, Filling, In
<1> QED
  BY <1>3, <1>4, <1>5 DEF IInv

(* Every step keeps it.                                                    *)
LEMMA NextHolds == IInv /\ [Next]_vars => IInv'
<1> SUFFICES ASSUME IInv, [Next]_vars PROVE IInv'
  OBVIOUS
<1>1. ASSUME NEW b \in UNION {[1 .. k -> Pixels] : k \in 0 .. MaxLen}, choose_table(b)
      PROVE  IInv'
  BY <1>1, ChooseKeeps
<1>2. CASE Step
  BY <1>2, ParseKeeps, EndParseKeeps, SelectKeeps, EndSelectKeeps, FillKeeps, EndFillKeeps
     DEF Step
<1>3. CASE UNCHANGED vars
  BY <1>3, StutterKeeps
<1> QED
  BY <1>1, <1>2, <1>3 DEF Next

(* It holds at all times.                                                  *)
LEMMA Inductive == Spec => []IInv
  BY InitHolds, NextHolds, PTL DEF Spec

(***************************************************************************)
(* For every band, every hash, every bucket size and every default table   *)
(* without zeros and duplicates: the table m2022_codec11_choose_table      *)
(* gives back has no zero and no duplicate at any time, and every entry of *)
(* the caller's uninitialised array is set when it returns.                *)
(***************************************************************************)
THEOREM TableSoundHolds == Spec => []TableSound
<1>1. IInv => TableSound
  <2> SUFFICES ASSUME IInv PROVE TableSound
    OBVIOUS
  <2>1. Typed /\ Chosen
    BY DEF IInv
  <2>2. \A k \in 1 .. Len(table) : table[k] # 0
    BY <2>1 DEF Typed
  <2> QED
    BY <2>1, <2>2 DEF Chosen, Distinct, TableSound
<1> QED
  BY <1>1, Inductive, PTL

(***************************************************************************)
(* The table is ranked by what the distances earned in the parse, and a    *)
(* distance that earned credit is left out only for ones that earned as    *)
(* much: filling up with the default table displaces none.                 *)
(***************************************************************************)
THEOREM MostCreditedHolds == Spec => []MostCredited
<1>1. IInv => MostCredited
  <2> SUFFICES ASSUME IInv, phase = "done" PROVE MostCredited
    BY DEF MostCredited
  <2>1. Len(table) = ENTRIES /\ Ranked(table, earned) /\ Filling(table)
    BY DEF IInv, Chosen
  <2>2. \A k, l \in 1 .. ENTRIES :
          k < l /\ table[l] \in Distances /\ earned[table[l]] > 0
            => table[k] \in Distances /\ earned[table[k]] >= earned[table[l]]
    BY <2>1 DEF Ranked
  <2>3. \A d \in Distances : earned[d] > 0 =>
          \/ \E k \in 1 .. ENTRIES : table[k] = d
          \/ \A k \in 1 .. ENTRIES : earned[table[k]] >= earned[d]
    BY <2>1 DEF Filling, In
  <2> QED
    BY <2>2, <2>3 DEF MostCredited
<1> QED
  BY <1>1, Inductive, PTL

(***************************************************************************)
(* After every turn of the parse each bucket holds the latest positions    *)
(* with its hash, none skipped and none twice, wherever matches began and  *)
(* ended: the two calls of slot_insert together cover every position once. *)
(***************************************************************************)
THEOREM SlotsAreLatestHolds == Spec => []SlotsAreLatest
<1>1. IInv => SlotsAreLatest
  <2> SUFFICES ASSUME IInv, NEW h \in Buckets
               PROVE  LET all == {q \in 0 .. Least(pos - 1, Len(band) - 3) : hash3(q) = h}
                      IN  /\ Len(slots[h]) = Least(Cardinality(all), SLOTS)
                          /\ \A k \in 1 .. Len(slots[h]) :
                               /\ slots[h][k] \in all
                               /\ Cardinality({q \in all : q > slots[h][k]}) = k - 1
    BY DEF SlotsAreLatest
  <2>1. Holds(slots[h], All(h, Least(pos - 1, Len(band) - 3)))
    BY DEF IInv, Remembered, Latest
  <2> QED
    BY <2>1 DEF Holds, All
<1> QED
  BY <1>1, Inductive, PTL
=============================================================================
