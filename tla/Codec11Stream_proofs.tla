------------------------- MODULE Codec11Stream_proofs -------------------------
(***************************************************************************)
(* Compression 0x11, for every band, every distance table, every size of   *)
(* the buffers and every width of the token's bit fields: the decoder      *)
(* turns the encoder's payload back into the band, the bound the encoder's *)
(* caller allocates is enough, neither loop leaves its buffer, and         *)
(* longest_match finds the longest match.                                  *)
(*                                                                         *)
(* The induction of the round trip needs, of the payload written so far,   *)
(* that tokens lead from its raw prefix to the band's position lit         *)
(* (Written), and of the payload that is read, that tokens lead from the   *)
(* place of the decoder to the ends of both (Decoding).  Tokens says so    *)
(* without recursion: a set of places closed under "a token, or the end".  *)
(* The bound needs Thrifty: what the payload has grown beyond the band is  *)
(* at most one byte for every MAX_LITERAL bytes, but for one byte that the *)
(* match which cut a literal run short is about to give back.              *)
(*                                                                         *)
(* longest_match is a recursive function and match_len a CHOOSE: the first *)
(* part derives induction and recursion over 0 .. N from the least-number  *)
(* principle, as facts about sets, which the provers can instantiate.      *)
(***************************************************************************)
EXTENDS Codec11Stream, SequenceTheorems, WellFoundedInduction, TLAPS

(* A set of numbers has a least one.                                       *)
LEMMA LeastNumber ==
  ASSUME NEW S \in SUBSET Nat, S # {}
  PROVE  \E x \in S : \A y \in S : x <= y
<1> DEFINE R == OpToRel(<, Nat)
<1>1. IsWellFoundedOn(R, Nat)
  BY NatLessThanWellFounded
<1>2. \A x, y \in Nat : y < x => <<y, x>> \in R
  BY DEF OpToRel
<1> HIDE DEF R
<1>3. PICK x \in S : \A y \in S : ~(<<y, x>> \in R)
  BY <1>1, WFMin
<1>4. ASSUME NEW y \in S PROVE x <= y
  <2>1. x \in Nat /\ y \in Nat /\ ~(y < x)
    BY <1>2, <1>3
  <2> QED
    BY <2>1
<1> QED
  BY <1>4

(* A set that has 0 and with each number below N the next has 0 .. N.      *)
LEMMA Induction ==
  ASSUME NEW S, 0 \in S, NEW N \in Nat, \A n \in 0 .. (N - 1) : n \in S => n + 1 \in S
  PROVE  0 .. N \subseteq S
<1> SUFFICES ASSUME NEW n \in 0 .. N, n \notin S PROVE FALSE
  OBVIOUS
<1> DEFINE T == {k \in 0 .. N : k \notin S}
<1>1. T \in SUBSET Nat /\ T # {}
  OBVIOUS
<1>2. PICK x \in T : \A y \in T : x <= y
  <2> HIDE DEF T
  <2> QED
    BY <1>1, LeastNumber
<1>3. x # 0 /\ x \in 1 .. N
  BY <1>2
<1>4. x - 1 \in 0 .. (N - 1) /\ x - 1 \in S
  <2>1. x - 1 \in 0 .. N /\ ~(x <= x - 1)
    BY <1>3
  <2> QED
    BY <1>2, <1>3, <2>1
<1>5. (x - 1) + 1 \in S
  BY <1>4
<1>6. (x - 1) + 1 = x
  BY <1>3
<1> QED
  BY <1>2, <1>5, <1>6

(* g starts with c and goes on with F.                                     *)
Recurses(g, N, T, c, F) ==
  g \in [0 .. N -> T] /\ g[0] = c /\ \A i \in 1 .. N : g[i] = F[<<g[i - 1], i>>]

(* A function defined by recursion over an interval exists.                *)
LEMMA Recursion ==
  ASSUME NEW N \in Nat, NEW T, NEW c \in T, NEW F \in [T \X (1 .. N) -> T]
  PROVE  \E g : Recurses(g, N, T, c, F)
<1> DEFINE Good(n, g) == /\ g \in [0 .. n -> T] /\ g[0] = c
                         /\ \A i \in 1 .. n : g[i] = F[<<g[i - 1], i>>]
           S == {n \in 0 .. N : \E g : Good(n, g)}
<1>1. 0 \in S
  <2>1. Good(0, [i \in 0 .. 0 |-> c])
    OBVIOUS
  <2>2. 0 \in 0 .. N
    OBVIOUS
  <2> HIDE DEF Good
  <2> QED
    BY <2>1, <2>2
<1>2. ASSUME NEW n \in 0 .. (N - 1), n \in S PROVE n + 1 \in S
  <2>1. PICK g : Good(n, g)
    BY <1>2
  <2> DEFINE h == [i \in 0 .. (n + 1) |-> IF i = n + 1 THEN F[<<g[n], n + 1>>] ELSE g[i]]
  <2>2. n \in 0 .. n /\ n + 1 \in 1 .. N /\ g[n] \in T
    BY <2>1
  <2>3. F[<<g[n], n + 1>>] \in T
    BY <2>2
  <2>4. h \in [0 .. (n + 1) -> T]
    BY <2>1, <2>3
  <2>5. h[0] = c /\ h[n + 1] = F[<<g[n], n + 1>>] /\ h[n] = g[n]
    BY <2>1
  <2>6. ASSUME NEW i \in 1 .. (n + 1) PROVE h[i] = F[<<h[i - 1], i>>]
    <3>1. CASE i = n + 1
      <4>1. i - 1 = n
        BY <3>1
      <4> QED
        BY <2>5, <3>1, <4>1
    <3>2. CASE i # n + 1
      <4>1. i \in 1 .. n /\ i - 1 \in 0 .. n /\ i - 1 # n + 1
        BY <3>2
      <4>2. h[i] = g[i] /\ h[i - 1] = g[i - 1]
        BY <4>1
      <4> QED
        BY <2>1, <4>1, <4>2
    <3> QED
      BY <3>1, <3>2
  <2>7. Good(n + 1, h)
    BY <2>4, <2>5, <2>6
  <2> HIDE DEF Good
  <2> QED
    BY <2>7
<1>3. N \in S
  <2>1. N \in 0 .. N
    OBVIOUS
  <2> HIDE DEF S
  <2> QED
    BY <1>1, <1>2, <2>1, Induction
<1>4. PICK g : Good(N, g)
  BY <1>3
<1> QED
  BY <1>4 DEF Recurses

-----------------------------------------------------------------------------
(* Quotient and remainder.                                                 *)
LEMMA DivMod ==
  ASSUME NEW a \in Nat, NEW n \in Nat \ {0}
  PROVE  /\ a \div n \in Nat /\ a % n \in 0 .. (n - 1)
         /\ a = (a \div n) * n + (a % n)
  OBVIOUS

(* They are determined by what they add up to.                             *)
LEMMA Quotient ==
  ASSUME NEW n \in Nat \ {0}, NEW q \in Nat, NEW r \in 0 .. (n - 1)
  PROVE  (q * n + r) \div n = q /\ (q * n + r) % n = r
<1> DEFINE a == q * n + r
           p == a \div n
           z == a % n
<1>1. a \in Nat
  OBVIOUS
<1>2. p \in Nat /\ z \in 0 .. (n - 1) /\ a = p * n + z
  BY <1>1, DivMod
<1>3. q * n + r = p * n + z
  BY <1>2
<1> HIDE DEF p, z, a
<1>4. ~(p < q)
  <2> SUFFICES ASSUME p < q PROVE FALSE
    OBVIOUS
  <2>1. PICK e \in Nat : q = p + 1 + e
    <3>1. q - p - 1 \in Nat /\ q = p + 1 + (q - p - 1)
      BY <1>2
    <3> QED
      BY <3>1
  <2>2. q * n = p * n + n + e * n /\ e * n \in Nat
    BY <1>2, <2>1
  <2> QED
    BY <1>2, <1>3, <2>2
<1>5. ~(q < p)
  <2> SUFFICES ASSUME q < p PROVE FALSE
    OBVIOUS
  <2>1. PICK e \in Nat : p = q + 1 + e
    <3>1. p - q - 1 \in Nat /\ p = q + 1 + (p - q - 1)
      BY <1>2
    <3> QED
      BY <3>1
  <2>2. p * n = q * n + n + e * n /\ e * n \in Nat
    BY <1>2, <2>1
  <2> QED
    BY <1>2, <1>3, <2>2
<1>6. p = q /\ z = r
  BY <1>2, <1>3, <1>4, <1>5
<1> QED
  BY <1>6 DEF p, z, a

(* The remainder does not change when the divisor is added.                *)
LEMMA ModShift ==
  ASSUME NEW k \in Nat, NEW n \in Nat \ {0}
  PROVE  (k + n) % n = k % n /\ (k < n => k % n = k)
<1>1. PICK q \in Nat, r \in 0 .. (n - 1) : k = q * n + r
  BY DivMod
<1>2. k + n = (q + 1) * n + r /\ q + 1 \in Nat
  BY <1>1
<1>3. k % n = r /\ (k + n) % n = r
  BY <1>1, <1>2, Quotient
<1>4. k < n => k % n = k
  <2>1. k < n => (0 * n + k) % n = k
    BY Quotient
  <2> QED
    BY <2>1
<1> QED
  BY <1>3, <1>4

-----------------------------------------------------------------------------
(* The stretch of n bytes at p is the one at distance d before it.         *)
Same(b, p, d, n) == \A k \in 0 .. (n - 1) : At(b, p + k) = At(b, p + k - d)

(* match_len finds the longest stretch.                                    *)
LEMMA MatchLenIs ==
  ASSUME NEW b, NEW p \in Nat, NEW d \in Nat, NEW max \in Nat
  PROVE  LET n == match_len(b, p, d, max)
         IN  /\ n \in 0 .. max /\ Same(b, p, d, n)
             /\ n < max => At(b, p + n) # At(b, p + n - d)
             /\ \A m \in 0 .. max : Same(b, p, d, m) => m <= n
<1> DEFINE E(k) == At(b, p + k) = At(b, p + k - d)
           Stop(n) == n \in 0 .. max /\ (\A k \in 0 .. (n - 1) : E(k)) /\ (n < max => ~E(n))
           S == {k \in 0 .. max : k = max \/ ~E(k)}
           n0 == match_len(b, p, d, max)
<1>1. n0 = CHOOSE n \in 0 .. max : /\ \A k \in 0 .. (n - 1) : E(k)
                                   /\ n < max => ~E(n)
  BY DEF match_len
<1>2. S \in SUBSET Nat /\ max \in S
  OBVIOUS
<1> HIDE DEF n0, E
<1>3. PICK x \in S : \A y \in S : x <= y
  <2> HIDE DEF S
  <2> QED
    BY <1>2, LeastNumber
<1>4. Stop(x)
  <2>1. x \in 0 .. max
    BY <1>3
  <2>2. x < max => ~E(x)
    BY <1>3
  <2>3. ASSUME NEW k \in 0 .. (x - 1) PROVE E(k)
    <3>1. k \in 0 .. max /\ ~(x <= k)
      BY <2>1
    <3> QED
      BY <1>3, <3>1
  <2> QED
    BY <2>1, <2>2, <2>3
<1>5. Stop(n0)
  BY <1>1, <1>4
<1>6. ASSUME NEW m \in 0 .. max, \A k \in 0 .. (m - 1) : E(k) PROVE m <= n0
  <2> SUFFICES ASSUME n0 < m PROVE FALSE
    BY <1>5
  <2>1. n0 \in 0 .. (m - 1) /\ n0 < max
    BY <1>5
  <2> QED
    BY <1>5, <1>6, <2>1
<1>7. \A m : Same(b, p, d, m) <=> \A k \in 0 .. (m - 1) : E(k)
  BY DEF Same, E
<1>8. ~E(n0) => At(b, p + n0) # At(b, p + n0 - d)
  BY DEF E
<1> HIDE DEF Stop
<1>9. /\ n0 \in 0 .. max /\ Same(b, p, d, n0)
      /\ n0 < max => At(b, p + n0) # At(b, p + n0 - d)
  BY <1>5, <1>7, <1>8 DEF Stop
<1>10. \A m \in 0 .. max : Same(b, p, d, m) => m <= n0
  BY <1>6, <1>7
<1> QED
  BY <1>9, <1>10 DEF n0

-----------------------------------------------------------------------------
(* No match, and the results of longest_match.                             *)
Nothing == [n |-> 0, index |-> 0]
Matches == [n : Nat, index : Nat]

(* A turn of the loop of longest_match.                                    *)
Turn(b, p, t, max, c, i) ==
  LET d == t[i - 1]
      n == match_len(b, p, d, max)
  IN  IF d = 0 \/ d > p \/ c.n = max THEN c
      ELSE IF Rejected(b, p, d, c.n) THEN c
      ELSE IF n > c.n THEN [n |-> n, index |-> i - 1] ELSE c

(* The result of the first i turns: the longest match among the first i    *)
(* slots, the first one on ties, when there is one of three bytes.         *)
LengthAt(b, p, t, max, j) == match_len(b, p, t[j], max)
Usable(t, p, j) == t[j] # 0 /\ t[j] <= p
Found(b, p, t, max, i, c) ==
  /\ c \in Matches /\ c.n <= max
  /\ \/ /\ c = Nothing
        /\ \A j \in 0 .. (i - 1) : Usable(t, p, j) => LengthAt(b, p, t, max, j) < 3
     \/ /\ c.n >= 3 /\ c.index \in 0 .. (i - 1) /\ Usable(t, p, c.index)
        /\ c.n = LengthAt(b, p, t, max, c.index)
        /\ \A j \in 0 .. (i - 1) : Usable(t, p, j) =>
             /\ LengthAt(b, p, t, max, j) <= c.n
             /\ j < c.index => LengthAt(b, p, t, max, j) < c.n

(* A turn takes the result to the next slot: what the cheap rejection skips*)
(* could not have won.                                                     *)
LEMMA TurnFinds ==
  ASSUME NEW b, NEW p \in Nat, NEW t \in [Slot -> Nat], NEW max \in Nat, max >= 3,
         NEW i \in 1 .. ENTRIES, NEW c, Found(b, p, t, max, i - 1, c)
  PROVE  Found(b, p, t, max, i, Turn(b, p, t, max, c, i))
<1> DEFINE d == t[i - 1]
           L(j) == LengthAt(b, p, t, max, j)
           U(j) == Usable(t, p, j)
           n == L(i - 1)
           new == Turn(b, p, t, max, c, i)
           m == c.n
<1>1. i - 1 \in Slot /\ d \in Nat /\ ENTRIES \in Nat
  BY Codec11Assumption DEF Slot
<1>2. /\ n \in 0 .. max /\ Same(b, p, d, n)
      /\ n < max => At(b, p + n) # At(b, p + n - d)
      /\ \A k \in 0 .. max : Same(b, p, d, k) => k <= n
  BY <1>1, MatchLenIs DEF LengthAt
<1>3. c \in Matches /\ m \in Nat /\ m <= max
  BY DEF Found, Matches
<1>4. /\ new = (IF d = 0 \/ d > p \/ m = max THEN c
                ELSE IF Rejected(b, p, d, m) THEN c
                ELSE IF n > m THEN [n |-> n, index |-> i - 1] ELSE c)
      /\ U(i - 1) <=> d # 0 /\ d <= p
  BY DEF Turn, LengthAt, Usable
<1>5. \A j \in 0 .. (i - 1) : j = i - 1 \/ j \in 0 .. (i - 2)
  OBVIOUS
<1>6. Rejected(b, p, d, m) => (m = 0 /\ n < 3) \/ (m > 0 /\ n <= m)
  <2> SUFFICES ASSUME Rejected(b, p, d, m)
               PROVE  (m = 0 /\ n < 3) \/ (m > 0 /\ n <= m)
    OBVIOUS
  <2>1. CASE m > 0
    <3>1. At(b, p + m - d) # At(b, p + m)
      BY <2>1 DEF Rejected
    <3>2. CASE n > m
      <4>1. m \in 0 .. (n - 1)
        BY <1>2, <1>3, <3>2
      <4> QED
        BY <1>2, <3>1, <4>1 DEF Same
    <3> QED
      BY <1>2, <1>3, <2>1, <3>2
  <2>2. CASE m = 0
    <3>1. PICK k \in 0 .. 2 : At(b, p + k - d) # At(b, p + k)
      BY <2>2 DEF Rejected
    <3>2. CASE n >= 3
      <4>1. k \in 0 .. (n - 1)
        BY <1>2, <3>2
      <4> QED
        BY <1>2, <3>1, <4>1 DEF Same
    <3> QED
      BY <1>2, <2>2, <3>2
  <2> QED
    BY <1>3, <2>1, <2>2
<1>7. ~Rejected(b, p, d, m) /\ m = 0 => n >= 3
  <2> SUFFICES ASSUME ~Rejected(b, p, d, m), m = 0 PROVE n >= 3
    OBVIOUS
  <2>1. \A k \in 0 .. 2 : At(b, p + k - d) = At(b, p + k)
    BY DEF Rejected
  <2>2. Same(b, p, d, 3)
    BY <2>1 DEF Same
  <2> QED
    BY <1>2, <2>2
<1>8. \/ /\ c = Nothing /\ m = 0
         /\ \A j \in 0 .. (i - 2) : U(j) => L(j) < 3
      \/ /\ m >= 3 /\ c.index \in 0 .. (i - 2) /\ U(c.index) /\ m = L(c.index)
         /\ \A j \in 0 .. (i - 2) : U(j) => L(j) <= m /\ (j < c.index => L(j) < m)
  <2>1. Nothing.n = 0 /\ (i - 1) - 1 = i - 2
    BY DEF Nothing
  <2> QED
    BY <2>1 DEF Found
<1> DEFINE x == c.index
<1>9. x \in Nat
  BY <1>3 DEF Matches
<1>10. \A j \in 0 .. (i - 1) : L(j) \in Nat
  <2> SUFFICES ASSUME NEW j \in 0 .. (i - 1) PROVE L(j) \in Nat
    OBVIOUS
  <2>1. j \in Slot /\ t[j] \in Nat
    BY Codec11Assumption DEF Slot
  <2>2. match_len(b, p, t[j], max) \in 0 .. max
    BY <2>1, MatchLenIs
  <2> QED
    BY <2>2 DEF LengthAt
<1> DEFINE better == U(i - 1) /\ m # max /\ ~Rejected(b, p, d, m) /\ n > m
<1>11. /\ better => new = [n |-> n, index |-> i - 1]
       /\ ~better => new = c
  BY <1>1, <1>2, <1>3, <1>4
<1>12. /\ better => n >= 3
       /\ ~better /\ U(i - 1) => (m = 0 /\ n < 3) \/ (m >= 3 /\ n <= m)
  BY <1>2, <1>3, <1>6, <1>7, <1>8
<1>13. n = L(i - 1)
  OBVIOUS
<1> HIDE DEF L, U, n, d, m, x, new, better
<1>14. CASE ~better
  <2>1. CASE c = Nothing /\ m = 0 /\ \A j \in 0 .. (i - 2) : U(j) => L(j) < 3
    <3>1. \A j \in 0 .. (i - 1) : U(j) => L(j) < 3
      BY <1>5, <1>12, <1>13, <1>14, <2>1
    <3> QED
      BY <1>3, <1>11, <1>14, <2>1, <3>1 DEF Found, L, U, m, new
  <2>2. CASE /\ m >= 3 /\ x \in 0 .. (i - 2) /\ U(x) /\ m = L(x)
             /\ \A j \in 0 .. (i - 2) : U(j) => L(j) <= m /\ (j < x => L(j) < m)
    <3>1. ASSUME NEW j \in 0 .. (i - 1), U(j) PROVE L(j) <= m /\ (j < x => L(j) < m)
      BY <1>5, <1>9, <1>12, <1>13, <1>14, <2>2, <3>1
    <3>2. x \in 0 .. (i - 1)
      BY <2>2
    <3> QED
      BY <1>3, <1>11, <1>14, <2>2, <3>1, <3>2 DEF Found, L, U, m, x, new
  <2> QED
    BY <1>8, <2>1, <2>2 DEF x
<1>15. CASE better
  <2>1. n > m /\ U(i - 1) /\ n >= 3
    BY <1>12, <1>15 DEF better
  <2>2. ASSUME NEW j \in 0 .. (i - 2), U(j) PROVE L(j) < n
    <3>1. j \in 0 .. (i - 1)
      OBVIOUS
    <3> QED
      BY <1>2, <1>3, <1>8, <1>10, <2>1, <2>2, <3>1
  <2>3. new.n = n /\ new.index = i - 1 /\ i - 1 \in Nat /\ n \in Nat /\ n <= max
    BY <1>2, <1>11, <1>15
  <2>4. new \in Matches
    BY <1>11, <1>15, <2>3 DEF Matches
  <2>5. ASSUME NEW j \in 0 .. (i - 1), U(j) PROVE L(j) <= n /\ (j < i - 1 => L(j) < n)
    <3>1. CASE j = i - 1
      BY <1>13, <2>3, <3>1
    <3>2. CASE j \in 0 .. (i - 2)
      <4>1. L(j) < n /\ L(j) \in Nat
        BY <1>10, <2>2, <2>5, <3>2
      <4> QED
        BY <2>3, <4>1
    <3> QED
      BY <1>5, <3>1, <3>2
  <2>6. i - 1 \in 0 .. (i - 1)
    OBVIOUS
  <2>7. new.n = L(new.index) /\ U(new.index)
    BY <1>13, <2>1, <2>3
  <2>8. new.n >= 3 /\ new.n <= max /\ new.index \in 0 .. (i - 1)
    BY <2>1, <2>3, <2>6
  <2>9. \A j \in 0 .. (i - 1) : U(j) => L(j) <= new.n /\ (j < new.index => L(j) < new.n)
    BY <2>3, <2>5
  <2> HIDE DEF new
  <2> QED
    BY <2>4, <2>7, <2>8, <2>9 DEF Found, L, U, new
<1> QED
  BY <1>14, <1>15

(* The room for a match at p.                                              *)
Room(b, p) == Least(Len(b) - p, MAX_MATCH)

(* It ends with the band.                                                  *)
LEMMA RoomIs ==
  ASSUME NEW b \in Seq(Byte), NEW p \in 0 .. Len(b)
  PROVE  Room(b, p) \in Nat /\ Room(b, p) <= Len(b) - p /\ Room(b, p) <= MAX_MATCH
<1>1. MAX_MATCH \in Nat
  BY Codec11Assumption DEF MAX_MATCH
<1> QED
  BY <1>1 DEF Room, Least

(* longest_match in terms of its turns.                                    *)
LEMMA LongestFinds ==
  ASSUME NEW b \in Seq(Byte), NEW p \in 0 .. Len(b), NEW t \in [Slot -> Nat]
  PROVE  \/ longest_match(b, p, t) = Nothing /\ Room(b, p) < 3
         \/ Found(b, p, t, Room(b, p), ENTRIES, longest_match(b, p, t))
<1> DEFINE max == Room(b, p)
           T(c, i) == Turn(b, p, t, max, c, i)
           Rec(g) == g = [i \in 0 .. ENTRIES |-> IF i = 0 THEN Nothing ELSE T(g[i - 1], i)]
           best == CHOOSE g : Rec(g)
           F(c, i) == Found(b, p, t, max, i, c)
<1>1. max \in Nat /\ p \in Nat /\ ENTRIES \in Nat
  BY RoomIs, Codec11Assumption
<1>2. longest_match(b, p, t) =
        IF max < 3 \/ best[ENTRIES].n < 3 THEN Nothing ELSE best[ENTRIES]
  BY DEF longest_match, Room, Turn, Nothing
<1> HIDE DEF max
<1>3. CASE max < 3
  BY <1>2, <1>3 DEF max
<1>4. CASE max >= 3
  <2> DEFINE C == {c \in Matches : c.n <= max}
             G == [x \in C \X (1 .. ENTRIES) |-> T(x[1], x[2])]
  <2>1. Nothing \in C
    BY <1>1 DEF Nothing, Matches
  <2>2. ASSUME NEW c \in C, NEW i \in 1 .. ENTRIES PROVE T(c, i) \in C
    <3>1. t[i - 1] \in Nat
      BY <1>1 DEF Slot
    <3>2. match_len(b, p, t[i - 1], max) \in 0 .. max
      BY <1>1, <3>1, MatchLenIs
    <3>3. i - 1 \in Nat
      OBVIOUS
    <3> QED
      BY <1>1, <3>2, <3>3 DEF Turn, Matches
  <2>3. G \in [C \X (1 .. ENTRIES) -> C]
    <3> HIDE DEF C, T
    <3>1. ASSUME NEW x \in C \X (1 .. ENTRIES) PROVE T(x[1], x[2]) \in C
      BY <2>2
    <3> QED
      BY <3>1
  <2>4. PICK g : Recurses(g, ENTRIES, C, Nothing, G)
    <3> HIDE DEF C, G
    <3> QED
      BY <1>1, <2>1, <2>3, Recursion
  <2>5. Rec(g)
    <3> HIDE DEF C, T
    <3>1. ASSUME NEW i \in 1 .. ENTRIES PROVE G[<<g[i - 1], i>>] = T(g[i - 1], i)
      <4>1. g[i - 1] \in C
        BY <1>1, <2>4 DEF Recurses
      <4> QED
        BY <4>1
    <3>2. ASSUME NEW i \in 0 .. ENTRIES
          PROVE  g[i] = IF i = 0 THEN Nothing ELSE T(g[i - 1], i)
      <4> HIDE DEF G
      <4>1. i # 0 => i \in 1 .. ENTRIES
        BY <1>1
      <4> QED
        BY <2>4, <3>1, <4>1 DEF Recurses
    <3>3. g = [i \in 0 .. ENTRIES |-> g[i]]
      BY <2>4 DEF Recurses
    <3> QED
      BY <3>2, <3>3
  <2> HIDE DEF Rec
  <2>6. Rec(best)
    BY <2>5
  <2> HIDE DEF best, T, C
  <2>7. /\ best[0] = Nothing
        /\ \A i \in 1 .. ENTRIES : best[i] = T(best[i - 1], i)
    BY <1>1, <2>6 DEF Rec
  <2> DEFINE S == {i \in 0 .. ENTRIES : F(best[i], i)}
  <2>8. 0 \in S
    <3>1. F(Nothing, 0)
      BY <1>1 DEF Found, Nothing, Matches
    <3> QED
      BY <1>1, <2>7, <3>1
  <2>9. ASSUME NEW n \in 0 .. (ENTRIES - 1), n \in S PROVE n + 1 \in S
    <3>1. n + 1 \in 1 .. ENTRIES /\ (n + 1) - 1 = n
      BY <1>1
    <3>2. Found(b, p, t, max, (n + 1) - 1, best[n])
      BY <2>9, <3>1
    <3>3. F(T(best[n], n + 1), n + 1)
      BY <1>1, <1>4, <3>1, <3>2, TurnFinds DEF T
    <3>4. best[n + 1] = T(best[n], n + 1)
      BY <2>7, <3>1
    <3> QED
      BY <1>1, <3>1, <3>3, <3>4
  <2>10. ENTRIES \in S
    <3>1. ENTRIES \in 0 .. ENTRIES
      BY <1>1
    <3> HIDE DEF S
    <3> QED
      BY <1>1, <2>8, <2>9, <3>1, Induction
  <2>11. Found(b, p, t, max, ENTRIES, best[ENTRIES])
    BY <2>10
  <2>12. longest_match(b, p, t) = best[ENTRIES]
    <3>1. best[ENTRIES].n < 3 => best[ENTRIES] = Nothing
      <4> DEFINE c == best[ENTRIES]
      <4>1. c.n \in Nat /\ (c = Nothing \/ c.n >= 3)
        BY <2>11 DEF Found, Matches
      <4> QED
        BY <4>1
    <3> QED
      BY <1>1, <1>2, <1>4, <3>1
  <2> QED
    BY <2>11, <2>12 DEF max
<1> QED
  BY <1>1, <1>3, <1>4

-----------------------------------------------------------------------------
(* A token of the payload str at a, and the bytes of the band at x that it *)
(* stands for: a literal run of c bytes or a match of m.                   *)
LiteralAt(str, b, a, x, c) ==
  /\ c \in 1 .. MAX_LITERAL /\ a + 1 + c <= Len(str) /\ x + c <= Len(b)
  /\ At(str, a) = c - 1
  /\ \A k \in 0 .. (c - 1) : At(str, a + 1 + k) = At(b, x + k)

MatchAt(str, b, t, a, x, m, i) ==
  /\ i \in Slot /\ m \in 3 .. MAX_MATCH /\ a + 2 <= Len(str) /\ x + m <= Len(b)
  /\ At(str, a) = LOW + ((m - 3) % LOW)
  /\ At(str, a + 1) = ((m - 3) \div LOW) * ENTRIES + i
  /\ t[i] \in 1 .. x /\ Same(b, x, t[i], m)

(* A token leads from one place, of the payload and the band, to another.  *)
Goes(str, b, t, y, z) ==
  \/ \E c \in Nat : LiteralAt(str, b, y[1], y[2], c) /\ z = <<y[1] + 1 + c, y[2] + c>>
  \/ \E m, i \in Nat : MatchAt(str, b, t, y[1], y[2], m, i) /\ z = <<y[1] + 2, y[2] + m>>

(* Tokens lead from a and x to the end of the payload and to e.            *)
Tokens(str, b, t, a, x, e) ==
  \E M \in SUBSET (Nat \X Nat) :
    /\ <<a, x>> \in M
    /\ \A y \in M : y = <<Len(str), e>> \/ \E z \in M : Goes(str, b, t, y, z)

(* From the end to the end no token is needed.                             *)
LEMMA TokensNone ==
  ASSUME NEW str \in Seq(Byte), NEW b, NEW t, NEW e \in Nat
  PROVE  Tokens(str, b, t, Len(str), e, e)
<1> DEFINE M == {<<Len(str), e>>}
<1>1. Len(str) \in Nat
  OBVIOUS
<1>2. M \in SUBSET (Nat \X Nat) /\ <<Len(str), e>> \in M
  BY <1>1
<1>3. \A y \in M : y = <<Len(str), e>>
  OBVIOUS
<1> HIDE DEF M
<1> QED
  BY <1>2, <1>3 DEF Tokens

(* What is appended to the payload leaves the tokens before it alone.      *)
LEMMA GoesOn ==
  ASSUME NEW str \in Seq(Byte), NEW tok \in Seq(Byte), NEW b, NEW t,
         NEW y \in Nat \X Nat, NEW z \in Nat \X Nat, Goes(str, b, t, y, z)
  PROVE  Goes(str \o tok, b, t, y, z)
<1> DEFINE new == str \o tok
           a == y[1]
           x == y[2]
<1>1. /\ Len(str) \in Nat /\ Len(tok) \in Nat /\ Len(new) = Len(str) + Len(tok)
      /\ a \in Nat /\ x \in Nat
  OBVIOUS
<1>2. \A k \in Nat : k < Len(str) => At(new, k) = At(str, k)
  BY <1>1 DEF At
<1> HIDE DEF new, a, x
<1>3. ASSUME NEW c \in Nat, LiteralAt(str, b, a, x, c) PROVE LiteralAt(new, b, a, x, c)
  <2>1. c \in 1 .. MAX_LITERAL /\ a + 1 + c <= Len(str)
    BY <1>3 DEF LiteralAt
  <2>2. At(new, a) = At(str, a) /\ a + 1 + c <= Len(new)
    BY <1>1, <1>2, <2>1
  <2>3. ASSUME NEW k \in 0 .. (c - 1) PROVE At(new, a + 1 + k) = At(str, a + 1 + k)
    <3>1. a + 1 + k \in Nat /\ a + 1 + k < Len(str)
      BY <1>1, <2>1
    <3> QED
      BY <1>2, <3>1
  <2> QED
    BY <1>3, <2>2, <2>3 DEF LiteralAt
<1>4. ASSUME NEW m \in Nat, NEW i \in Nat, MatchAt(str, b, t, a, x, m, i)
      PROVE  MatchAt(new, b, t, a, x, m, i)
  <2>1. a + 2 <= Len(str)
    BY <1>4 DEF MatchAt
  <2>2. At(new, a) = At(str, a) /\ At(new, a + 1) = At(str, a + 1) /\ a + 2 <= Len(new)
    BY <1>1, <1>2, <2>1
  <2> QED
    BY <1>4, <2>2 DEF MatchAt
<1> QED
  BY <1>3, <1>4 DEF Goes, a, x, new

(* Tokens to the end of the payload, and one that is appended.             *)
LEMMA TokensMore ==
  ASSUME NEW str \in Seq(Byte), NEW tok \in Seq(Byte), NEW b, NEW t, NEW a \in Nat,
         NEW x \in Nat, NEW e \in Nat, NEW f \in Nat, Tokens(str, b, t, a, x, e),
         Goes(str \o tok, b, t, <<Len(str), e>>, <<Len(str \o tok), f>>)
  PROVE  Tokens(str \o tok, b, t, a, x, f)
<1> DEFINE new == str \o tok
           end == <<Len(new), f>>
<1>1. end \in Nat \X Nat /\ new \in Seq(Byte)
  OBVIOUS
<1>2. PICK M \in SUBSET (Nat \X Nat) :
        /\ <<a, x>> \in M
        /\ \A y \in M : y = <<Len(str), e>> \/ \E z \in M : Goes(str, b, t, y, z)
  BY DEF Tokens
<1> DEFINE K == M \union {end}
<1>3. K \in SUBSET (Nat \X Nat) /\ <<a, x>> \in K
  BY <1>1, <1>2
<1>4. ASSUME NEW y \in K PROVE y = end \/ \E z \in K : Goes(new, b, t, y, z)
  <2>1. CASE y \in M
    <3>1. CASE y = <<Len(str), e>>
      BY <3>1
    <3>2. CASE y # <<Len(str), e>>
      <4>1. PICK z \in M : Goes(str, b, t, y, z)
        BY <1>2, <2>1, <3>2
      <4>2. Goes(new, b, t, y, z)
        BY <1>2, <2>1, <4>1, GoesOn
      <4> QED
        BY <4>1, <4>2
    <3> QED
      BY <3>1, <3>2
  <2> QED
    BY <2>1
<1> HIDE DEF K
<1> QED
  BY <1>3, <1>4 DEF Tokens

(* The decoder, at a place where the payload goes on, finds a token there; *)
(* at the end of the payload the band is complete.                         *)
LEMMA TokensNext ==
  ASSUME NEW str \in Seq(Byte), NEW b, NEW t, NEW a \in Nat, NEW x \in Nat, NEW e \in Nat,
         Tokens(str, b, t, a, x, e)
  PROVE  \/ a = Len(str) /\ x = e
         \/ \E z \in Nat \X Nat : /\ Goes(str, b, t, <<a, x>>, z)
                                  /\ Tokens(str, b, t, z[1], z[2], e)
<1>1. PICK M \in SUBSET (Nat \X Nat) :
        /\ <<a, x>> \in M
        /\ \A y \in M : y = <<Len(str), e>> \/ \E z \in M : Goes(str, b, t, y, z)
  BY DEF Tokens
<1>2. CASE <<a, x>> = <<Len(str), e>>
  BY <1>2
<1>3. CASE \E z \in M : Goes(str, b, t, <<a, x>>, z)
  <2>1. PICK z \in M : Goes(str, b, t, <<a, x>>, z)
    BY <1>3
  <2>2. z \in Nat \X Nat /\ <<z[1], z[2]>> = z
    BY <1>1
  <2>3. Tokens(str, b, t, z[1], z[2], e)
    BY <1>1, <2>1, <2>2 DEF Tokens
  <2> QED
    BY <2>1, <2>2, <2>3
<1> QED
  BY <1>1, <1>2, <1>3

-----------------------------------------------------------------------------
(* The widths of the token's fields.                                       *)
LEMMA Bytes ==
  /\ LOW \in Nat /\ HIGH \in Nat /\ ENTRIES \in Nat /\ MAX_LITERAL \in Nat
  /\ 1 <= MAX_LITERAL /\ MAX_LITERAL <= LOW /\ LOW > 0 /\ ENTRIES > 0 /\ HIGH > 0
  /\ MAX_MATCH \in Nat /\ MAX_MATCH = LOW * HIGH + 2
  /\ Byte \subseteq Nat
  BY Codec11Assumption DEF MAX_MATCH, Byte

(* What q followed by r is.                                                *)
Joins(w, q, r) ==
  /\ Len(w) = Len(q) + Len(r)
  /\ \A k \in 1 .. Len(q) : w[k] = q[k]
  /\ \A k \in 1 .. Len(r) : w[Len(q) + k] = r[k]

(* q \o r is q followed by r.                                              *)
LEMMA Concat ==
  ASSUME NEW S, NEW q \in Seq(S), NEW r \in Seq(S)
  PROVE  q \o r \in Seq(S) /\ Joins(q \o r, q, r)
<1>1. q \o r \in Seq(S) /\ Len(q \o r) = Len(q) + Len(r)
  OBVIOUS
<1>2. \A k \in 1 .. Len(q) : (q \o r)[k] = q[k]
  OBVIOUS
<1>3. ASSUME NEW k \in 1 .. Len(r) PROVE (q \o r)[Len(q) + k] = r[k]
  <2>1. Len(q) \in Nat /\ Len(r) \in Nat
    OBVIOUS
  <2>2. Len(q) + k \in 1 .. (Len(q) + Len(r)) /\ ~(Len(q) + k <= Len(q))
        /\ Len(q) + k - Len(q) = k
    BY <2>1
  <2> QED
    BY <2>2
<1> QED
  BY <1>1, <1>2, <1>3 DEF Joins

(* A literal token as it is written.                                       *)
LEMMA LiteralWritten ==
  ASSUME NEW str \in Seq(Byte), NEW b \in Seq(Byte), NEW x \in Nat,
         NEW c \in 1 .. MAX_LITERAL, x + c <= Len(b)
  PROVE  LET tok == LiteralToken(SubSeq(b, x + 1, x + c))
         IN  /\ tok \in Seq(Byte) /\ Len(tok) = 1 + c
             /\ \A t : Goes(str \o tok, b, t, <<Len(str), x>>, <<Len(str \o tok), x + c>>)
<1> DEFINE run == SubSeq(b, x + 1, x + c)
           tok == LiteralToken(run)
           new == str \o tok
<1>1. run \in Seq(Byte) /\ Len(run) = c /\ \A k \in 1 .. c : run[k] = b[x + k]
  <2>1. x + 1 \in Nat /\ x + c \in Nat /\ Len(b) \in Nat /\ c \in Nat
    BY Bytes
  <2>2. run \in Seq(Byte)
    BY <2>1
  <2>3. Len(run) = c
    BY <2>1
  <2>4. ASSUME NEW k \in 1 .. c PROVE run[k] = b[x + k]
    <3>1. k \in 1 .. (x + c - (x + 1) + 1) /\ x + 1 + k - 1 = x + k
      BY <2>1
    <3> QED
      BY <2>1, <3>1
  <2> QED
    BY <2>2, <2>3, <2>4
<1> HIDE DEF run
<1>2. c - 1 \in Byte /\ c \in Nat
  BY Bytes DEF Byte
<1>3. tok = <<c - 1>> \o run
  BY <1>1 DEF LiteralToken
<1> HIDE DEF tok
<1>4. /\ tok \in Seq(Byte) /\ Len(tok) = 1 + c /\ tok[1] = c - 1
      /\ \A k \in 1 .. c : tok[1 + k] = run[k]
  <2> DEFINE h == <<c - 1>>
  <2>1. h \in Seq(Byte) /\ Len(h) = 1 /\ h[1] = c - 1
    BY <1>2
  <2> HIDE DEF h
  <2>2. tok = h \o run
    BY <1>3 DEF h
  <2>3. /\ tok \in Seq(Byte) /\ Len(tok) = Len(h) + Len(run)
        /\ \A k \in 1 .. Len(h) : tok[k] = h[k]
        /\ \A k \in 1 .. Len(run) : tok[Len(h) + k] = run[k]
    <3>1. h \o run \in Seq(Byte) /\ Joins(h \o run, h, run)
      BY <1>1, <2>1, Concat
    <3> QED
      BY <2>2, <3>1 DEF Joins
  <2> QED
    BY <1>1, <1>2, <2>1, <2>3
<1> DEFINE n == Len(str)
<1>5. /\ n \in Nat /\ Len(new) = n + 1 + c
      /\ \A k \in 1 .. (1 + c) : new[n + k] = tok[k]
  <2>1. Len(new) = n + Len(tok) /\ \A k \in 1 .. Len(tok) : new[n + k] = tok[k]
    <3>1. Joins(str \o tok, str, tok)
      BY <1>4, Concat
    <3> QED
      BY <3>1 DEF Joins
  <2>2. n \in Nat
    OBVIOUS
  <2> HIDE DEF n, new
  <2> QED
    BY <1>2, <1>4, <2>1, <2>2
<1>6. \A k \in 1 .. (1 + c) : new[n + k] = tok[k]
  BY <1>5
<1> HIDE DEF new, n
<1>7. LiteralAt(new, b, n, x, c)
  <2>1. At(new, n) = c - 1
    BY <1>2, <1>4, <1>6 DEF At
  <2>2. ASSUME NEW k \in 0 .. (c - 1) PROVE At(new, n + 1 + k) = At(b, x + k)
    <3>1. k + 1 \in 1 .. c /\ 1 + (k + 1) \in 1 .. (1 + c)
      BY <1>2
    <3>2. /\ new[n + (1 + (k + 1))] = tok[1 + (k + 1)]
          /\ tok[1 + (k + 1)] = run[k + 1] /\ run[k + 1] = b[x + (k + 1)]
      BY <1>1, <1>4, <1>6, <3>1
    <3>3. n + 1 + k + 1 = n + (1 + (k + 1)) /\ x + k + 1 = x + (k + 1)
      BY <1>5, <3>1
    <3> QED
      BY <3>2, <3>3 DEF At
  <2> QED
    BY <1>2, <1>5, <2>1, <2>2 DEF LiteralAt
<1>8. ASSUME NEW t PROVE Goes(new, b, t, <<n, x>>, <<Len(new), x + c>>)
  <2>1. <<n, x>>[1] = n /\ <<n, x>>[2] = x
    OBVIOUS
  <2> QED
    BY <1>2, <1>5, <1>7, <2>1 DEF Goes
<1> QED
  BY <1>4, <1>8 DEF tok, run, new, n

(* The two bytes of a match: they are bytes, and the decoder takes them    *)
(* apart again.                                                            *)
LEMMA MatchBytes ==
  ASSUME NEW m \in 3 .. MAX_MATCH, NEW i \in Slot
  PROVE  LET b1 == LOW + ((m - 3) % LOW)
             b2 == ((m - 3) \div LOW) * ENTRIES + i
         IN  /\ b1 \in Byte /\ b2 \in Byte
             /\ IsMatch(b1) /\ MatchLength(b1, b2) = m /\ MatchIndex(b2) = i
<1> DEFINE a == m - 3
           q == a \div LOW
           r == a % LOW
           b1 == LOW + r
           b2 == q * ENTRIES + i
<1>1. a \in Nat /\ a < LOW * HIGH /\ i \in Nat /\ i < ENTRIES /\ m \in Nat
  BY Bytes DEF Slot
<1>2. q \in Nat /\ r \in 0 .. (LOW - 1) /\ a = q * LOW + r
  BY <1>1, Bytes, DivMod
<1> HIDE DEF q, r
<1>3. q < HIGH
  <2> SUFFICES ASSUME q >= HIGH PROVE FALSE
    BY <1>2, Bytes
  <2>1. PICK e \in Nat : q = HIGH + e
    <3>1. q - HIGH \in Nat /\ q = HIGH + (q - HIGH)
      BY <1>2, Bytes
    <3> QED
      BY <3>1
  <2>2. q * LOW = HIGH * LOW + e * LOW /\ e * LOW \in Nat
    BY <2>1, Bytes
  <2> QED
    BY <1>1, <1>2, <2>2, Bytes
<1>4. b1 \in Byte
  BY <1>2, Bytes DEF Byte
<1>5. b2 \in Byte
  <2>1. PICK e \in Nat : HIGH = q + 1 + e
    <3>1. HIGH - q - 1 \in Nat /\ HIGH = q + 1 + (HIGH - q - 1)
      BY <1>2, <1>3, Bytes
    <3> QED
      BY <3>1
  <2>2. HIGH * ENTRIES = q * ENTRIES + ENTRIES + e * ENTRIES /\ e * ENTRIES \in Nat
        /\ q * ENTRIES \in Nat
    BY <1>2, <2>1, Bytes
  <2>3. HIGH * ENTRIES = 2 * LOW
    BY Codec11Assumption
  <2> QED
    BY <1>1, <2>2, <2>3, Bytes DEF Byte
<1>6. b1 % LOW = r
  <2>1. (1 * LOW + r) % LOW = r
    BY <1>2, Bytes, Quotient
  <2>2. b1 = 1 * LOW + r
    BY Bytes
  <2> QED
    BY <2>1, <2>2
<1>7. b2 \div ENTRIES = q /\ b2 % ENTRIES = i
  BY <1>1, <1>2, Bytes, Quotient
<1>8. IsMatch(b1)
  BY <1>2, Bytes DEF IsMatch
<1> HIDE DEF b1, b2
<1>9. MatchLength(b1, b2) = r + q * LOW + 3
  BY <1>6, <1>7 DEF MatchLength
<1>10. r + q * LOW + 3 = m
  BY <1>1, <1>2, Bytes
<1>11. MatchIndex(b2) = i
  BY <1>7 DEF MatchIndex
<1> QED
  BY <1>4, <1>5, <1>8, <1>9, <1>10, <1>11 DEF b1, b2, q, r

(* A match token as it is written.                                         *)
LEMMA MatchWritten ==
  ASSUME NEW str \in Seq(Byte), NEW b \in Seq(Byte), NEW t, NEW x \in Nat,
         NEW m \in 3 .. MAX_MATCH, NEW i \in Slot, x + m <= Len(b), t[i] \in 1 .. x,
         Same(b, x, t[i], m)
  PROVE  LET tok == MatchToken(m, i)
         IN  /\ tok \in Seq(Byte) /\ Len(tok) = 2
             /\ Goes(str \o tok, b, t, <<Len(str), x>>, <<Len(str \o tok), x + m>>)
<1> DEFINE b1 == LOW + ((m - 3) % LOW)
           b2 == ((m - 3) \div LOW) * ENTRIES + i
           tok == MatchToken(m, i)
           new == str \o tok
           n == Len(str)
<1>1. b1 \in Byte /\ b2 \in Byte
  BY MatchBytes
<1>2. tok = <<b1, b2>>
  BY DEF MatchToken
<1> HIDE DEF b1, b2, tok
<1>3. tok \in Seq(Byte) /\ Len(tok) = 2 /\ tok[1] = b1 /\ tok[2] = b2
  BY <1>1, <1>2
<1>4. Len(new) = n + Len(tok) /\ \A k \in 1 .. Len(tok) : new[n + k] = tok[k]
  <2>1. Joins(str \o tok, str, tok)
    BY <1>3, Concat
  <2> QED
    BY <2>1 DEF Joins
<1>5. n \in Nat /\ Len(new) = n + 2 /\ new[n + 1] = b1 /\ new[n + 2] = b2
  <2>1. n \in Nat
    OBVIOUS
  <2> HIDE DEF new, n
  <2> QED
    BY <1>3, <1>4, <2>1
<1> HIDE DEF new, n
<1>6. At(new, n) = b1 /\ At(new, n + 1) = b2
  <2>1. n + 1 + 1 = n + 2
    BY <1>5
  <2> QED
    BY <1>5, <2>1 DEF At
<1>7. MatchAt(new, b, t, n, x, m, i)
  BY <1>5, <1>6 DEF MatchAt, b1, b2
<1>8. m \in Nat /\ i \in Nat
  BY Bytes DEF Slot
<1>9. Goes(new, b, t, <<n, x>>, <<Len(new), x + m>>)
  <2>1. <<n, x>>[1] = n /\ <<n, x>>[2] = x
    OBVIOUS
  <2> QED
    BY <1>5, <1>7, <1>8, <2>1 DEF Goes
<1> QED
  BY <1>3, <1>9 DEF tok, new, n

-----------------------------------------------------------------------------
(* q is the first x bytes of b.                                            *)
Heads(q, b, x) == q = SubSeq(b, 1, x)

(* A prefix of the band and the bytes after it are a longer prefix.        *)
LEMMA PrefixGrows ==
  ASSUME NEW b \in Seq(Byte), NEW x \in Nat, NEW n \in Nat, x + n <= Len(b),
         NEW more \in Seq(Byte), Len(more) = n, \A k \in 1 .. n : more[k] = b[x + k],
         NEW q, Heads(q, b, x), NEW v \in Seq(Byte), Joins(v, q, more)
  PROVE  Heads(v, b, x + n)
<1> DEFINE w == SubSeq(b, 1, x + n)
<1>1. Len(b) \in Nat
  OBVIOUS
<1>2. q \in Seq(Byte) /\ Len(q) = x /\ \A k \in 1 .. x : q[k] = b[k]
  BY <1>1 DEF Heads
<1>3. w \in Seq(Byte) /\ Len(w) = x + n /\ \A k \in 1 .. (x + n) : w[k] = b[k]
  <2>1. x + n \in Nat
    OBVIOUS
  <2> QED
    BY <1>1, <2>1
<1> HIDE DEF w
<1>4. /\ Len(v) = x + n /\ \A k \in 1 .. x : v[k] = q[k]
      /\ \A k \in 1 .. n : v[x + k] = more[k]
  BY <1>2 DEF Joins
<1>5. ASSUME NEW k \in 1 .. (x + n) PROVE v[k] = w[k]
  <2>1. CASE k <= x
    <3>1. k \in 1 .. x
      BY <2>1
    <3> QED
      BY <1>2, <1>3, <1>4, <3>1
  <2>2. CASE ~(k <= x)
    <3>1. k - x \in 1 .. n /\ x + (k - x) = k
      BY <2>2
    <3>2. v[x + (k - x)] = more[k - x] /\ more[k - x] = b[x + (k - x)]
      BY <1>4, <3>1
    <3> QED
      BY <1>3, <3>1, <3>2
  <2> QED
    BY <2>1, <2>2
<1>6. v = w
  BY <1>3, <1>4, <1>5, SeqEqual
<1> QED
  BY <1>6 DEF w, Heads

(* A stretch that is the same as the one at distance d before it, though   *)
(* they may overlap, repeats the d bytes before it.                        *)
LEMMA Repeats ==
  ASSUME NEW b, NEW x \in Nat, NEW d \in 1 .. x, NEW m \in Nat, Same(b, x, d, m),
         NEW k \in 0 .. (m - 1)
  PROVE  At(b, x + k) = At(b, x - d + (k % d))
<1> DEFINE P(j) == At(b, x + j) = At(b, x - d + (j % d))
           S == {j \in 0 .. (m - 1) : ~P(j)}
<1> SUFFICES ASSUME ~P(k) PROVE FALSE
  OBVIOUS
<1>1. S \in SUBSET Nat /\ S # {}
  <2> HIDE DEF P
  <2>1. k \in S
    OBVIOUS
  <2> QED
    BY <2>1
<1>2. PICK j \in S : \A y \in S : j <= y
  <2> HIDE DEF S
  <2> QED
    BY <1>1, LeastNumber
<1>3. j \in 0 .. (m - 1) /\ ~P(j) /\ d \in Nat \ {0}
  BY <1>2
<1>4. At(b, x + j) = At(b, x + j - d)
  BY <1>3 DEF Same
<1>5. CASE j < d
  <2>1. j % d = j
    <3>1. j \in Nat
      BY <1>3
    <3> QED
      BY <1>3, <1>5, <3>1, ModShift
  <2>2. x - d + j = x + j - d
    BY <1>3
  <2> QED
    BY <1>3, <1>4, <2>1, <2>2
<1>6. CASE ~(j < d)
  <2>1. j - d \in 0 .. (m - 1) /\ ~(j <= j - d) /\ j - d \in Nat /\ (j - d) + d = j
    BY <1>3, <1>6
  <2>2. P(j - d)
    <3> HIDE DEF P
    <3> QED
      BY <1>2, <2>1
  <2>3. (j - d) % d = j % d
    <3>1. ((j - d) + d) % d = (j - d) % d
      BY <1>3, <2>1, ModShift
    <3> QED
      BY <2>1, <3>1
  <2>4. x + (j - d) = x + j - d
    BY <1>3
  <2> QED
    BY <1>3, <1>4, <2>2, <2>3, <2>4
<1> QED
  BY <1>5, <1>6

(* w is the m bytes of b at x.                                             *)
Follows(w, b, x, m) ==
  w \in Seq(Byte) /\ Len(w) = m /\ \A k \in 1 .. m : w[k] = b[x + k]

(* The decoder's copy of a match is the stretch the encoder found.         *)
LEMMA CopiedIs ==
  ASSUME NEW b \in Seq(Byte), NEW x \in Nat, NEW d \in 1 .. x, NEW m \in Nat,
         x + m <= Len(b), Same(b, x, d, m), NEW buf, Heads(buf, b, x)
  PROVE  Follows(Copied(buf, d, m), b, x, m)
<1> DEFINE w == Copied(buf, d, m)
<1>1. Len(b) \in Nat /\ d \in Nat \ {0}
  OBVIOUS
<1>2. Len(buf) = x /\ \A k \in 1 .. x : buf[k] = b[k]
  BY <1>1 DEF Heads
<1>3. /\ w = [k \in 1 .. m |-> w[k]]
      /\ \A k \in 1 .. m : w[k] = At(buf, x - d + ((k - 1) % d))
  BY <1>2 DEF Copied
<1> HIDE DEF w
<1>4. ASSUME NEW k \in 1 .. m PROVE w[k] = b[x + k] /\ b[x + k] \in Byte
  <2>1. k - 1 \in 0 .. (m - 1) /\ k - 1 \in Nat /\ x + (k - 1) + 1 = x + k
    OBVIOUS
  <2>2. (k - 1) % d \in 0 .. (d - 1)
    BY <1>1, <2>1, DivMod
  <2>3. x - d + ((k - 1) % d) + 1 \in 1 .. x
    BY <1>1, <2>2
  <2>4. At(buf, x - d + ((k - 1) % d)) = At(b, x - d + ((k - 1) % d))
    BY <1>2, <2>3 DEF At
  <2>5. At(b, x + (k - 1)) = At(b, x - d + ((k - 1) % d))
    <3> DEFINE j == k - 1
    <3>1. j \in 0 .. (m - 1)
      BY <2>1
    <3> HIDE DEF j
    <3>2. At(b, x + j) = At(b, x - d + (j % d))
      BY <3>1, Repeats
    <3> QED
      BY <3>2 DEF j
  <2>6. At(b, x + (k - 1)) = b[x + k]
    BY <2>1 DEF At
  <2>7. x + k \in 1 .. Len(b)
    BY <1>1
  <2> QED
    BY <1>3, <2>4, <2>5, <2>6, <2>7
<1>5. w \in [1 .. m -> Byte]
  BY <1>3, <1>4
<1>6. w \in Seq(Byte) /\ Len(w) = m
  BY <1>5
<1> QED
  BY <1>4, <1>6 DEF w, Follows

-----------------------------------------------------------------------------
(* What an encoder that has spent e bytes beyond the band's x may still    *)
(* spend: one for every literal run that is full, and one for the last.    *)
LEMMA BoundHasRoom ==
  ASSUME NEW n \in Nat, NEW e \in Int, e * MAX_LITERAL <= n - 1
  PROVE  e + 1 <= (n + MAX_LITERAL - 1) \div MAX_LITERAL
<1> DEFINE L == MAX_LITERAL
           a == n + L - 1
           q == a \div L
           r == a % L
<1>1. L \in Nat \ {0} /\ a \in Nat
  BY Bytes
<1>2. q \in Nat /\ r \in 0 .. (L - 1) /\ a = q * L + r
  BY <1>1, DivMod
<1> HIDE DEF q, r, L
<1>3. e * L <= n - 1
  BY DEF L
<1> SUFFICES ASSUME q <= e PROVE FALSE
  BY <1>2 DEF q, L
<1>4. PICK f \in Nat : e = q + f
  <2>1. e - q \in Nat /\ e = q + (e - q)
    BY <1>2
  <2> QED
    BY <2>1
<1>5. e * L = q * L + f * L /\ f * L \in Nat /\ q * L \in Nat
  BY <1>1, <1>2, <1>4
<1> QED
  BY <1>1, <1>2, <1>3, <1>5

(* The bound, with the count bytes named.                                  *)
LEMMA BoundIs ==
  ASSUME NEW n \in Nat
  PROVE  /\ (n + MAX_LITERAL - 1) \div MAX_LITERAL \in Nat
         /\ encode_bound(n) \in Nat
         /\ encode_bound(n) =
              HEADER_LEN + n + (n + MAX_LITERAL - 1) \div MAX_LITERAL + CHECKSUM_LEN
<1>1. n + MAX_LITERAL - 1 \in Nat /\ MAX_LITERAL \in Nat \ {0}
  BY Bytes
<1>2. (n + MAX_LITERAL - 1) \div MAX_LITERAL \in Nat
  BY <1>1, DivMod
<1> QED
  BY <1>2, Codec11Assumption DEF encode_bound

-----------------------------------------------------------------------------
(* The inductive invariant                                                 *)

(* The types of the state.                                                 *)
Typed ==
  /\ phase \in {"idle", "raw", "tokens", "encoded", "decode", "done"}
  /\ band \in Seq(Byte) /\ table \in [Slot -> Nat] /\ cap \in Int /\ raw \in Nat
  /\ pos \in Nat /\ lit \in Nat /\ stream \in Seq(Byte) /\ own \in BOOLEAN
  /\ s \in Nat /\ out \in Seq(Byte) /\ out_cap \in Nat

(* The bytes the payload has more than the band it stands for: one for     *)
(* every MAX_LITERAL bytes and, after a literal run that was not full, one *)
(* that the match after it gives back, unless the band ends.               *)
Spent == Len(stream) - lit
Thrifty ==
  \/ Spent * MAX_LITERAL <= lit
  \/ /\ lit = pos /\ (pos < Len(band) => Longest.n > 0)
     /\ (Spent - 1) * MAX_LITERAL <= lit - 1

(* The payload so far stands for the band up to lit.                       *)
Written ==
  /\ lit <= pos /\ pos <= Len(band) /\ raw <= Len(stream) /\ Used <= cap
  /\ SubSeq(stream, 1, raw) = SubSeq(band, 1, raw)
  /\ Tokens(stream, band, table, raw, raw, lit)

(* The encoder, phase by phase.                                            *)
Encoding ==
  /\ phase = "idle" => ~own
  /\ phase \in {"raw", "tokens", "encoded"} =>
       own /\ rc = "OK" /\ raw <= Len(band) /\ raw <= MAX_RAW
  /\ phase = "raw" => Len(stream) = 0
  /\ phase \in {"tokens", "encoded"} => Written
  /\ phase = "tokens" => Thrifty
  /\ phase = "encoded" => lit = Len(band) /\ Used + CHECKSUM_LEN <= cap

(* The output is the band as far as the payload was read, and the rest of  *)
(* the payload stands for the rest of the band.                            *)
Decoding ==
  /\ Len(out) <= out_cap
  /\ phase = "decode" => s <= Len(stream)
  /\ phase = "decode" /\ own =>
       /\ rc = "OK" /\ out_cap = Len(band) /\ Len(out) <= Len(band)
       /\ out = SubSeq(band, 1, Len(out))
       /\ Tokens(stream, band, table, s, Len(out), Len(band))
  /\ phase = "done" /\ own =>
       /\ rc = "OK" => out = band
       /\ cap >= encode_bound(Len(band)) => rc = "OK"

(* The inductive invariant.                                                *)
IInv == Typed /\ Encoding /\ Decoding

-----------------------------------------------------------------------------
(* The bands and the payloads are sequences.                               *)
LEMMA UptoIsSeq ==
  ASSUME NEW S, NEW n \in Nat, NEW q \in Upto(S, n)
  PROVE  q \in Seq(S)
<1>1. PICK k \in 0 .. n : q \in [1 .. k -> S]
  BY DEF Upto
<1> QED
  BY <1>1

(* Lengths and sizes are numbers.                                          *)
LEMMA Lengths ==
  ASSUME Typed
  PROVE  /\ Len(band) \in Nat /\ Len(stream) \in Nat /\ Len(out) \in Nat
         /\ Used \in Nat /\ Used = HEADER_LEN + Len(stream) /\ HEADER_LEN \in Nat
         /\ CHECKSUM_LEN \in Nat
  BY Codec11Assumption DEF Typed, Used

(* A match the encoder is about to write.                                  *)
LEMMA LongestIsMatch ==
  ASSUME Typed, pos <= Len(band), Longest.n > 0
  PROVE  /\ Longest.n \in 3 .. MAX_MATCH /\ pos + Longest.n <= Len(band)
         /\ Longest.index \in Slot /\ table[Longest.index] \in 1 .. pos
         /\ Same(band, pos, table[Longest.index], Longest.n)
<1> DEFINE c == Longest
           max == Room(band, pos)
           n == c.n
           i == c.index
<1>1. Len(band) \in Nat /\ pos \in 0 .. Len(band) /\ band \in Seq(Byte)
      /\ table \in [Slot -> Nat]
  BY Lengths DEF Typed
<1>2. c = Nothing \/ Found(band, pos, table, max, ENTRIES, c)
  BY <1>1, LongestFinds DEF Longest
<1>3. c # Nothing
  BY DEF Nothing
<1>4. /\ n \in Nat /\ n <= max /\ n >= 3 /\ i \in 0 .. (ENTRIES - 1)
      /\ Usable(table, pos, i) /\ n = LengthAt(band, pos, table, max, i)
  BY <1>2, <1>3 DEF Found, Matches
<1>5. max \in Nat /\ max <= Len(band) - pos /\ max <= MAX_MATCH /\ MAX_MATCH \in Nat
  BY <1>1, RoomIs, Bytes
<1> HIDE DEF c, n, i, max
<1>6. i \in Slot /\ table[i] \in Nat
  BY <1>1, <1>4 DEF Slot
<1>7. table[i] \in 1 .. pos
  BY <1>1, <1>4, <1>6 DEF Usable
<1>8. Same(band, pos, table[i], n)
  BY <1>1, <1>4, <1>5, <1>6, MatchLenIs DEF LengthAt
<1>9. n \in 3 .. MAX_MATCH /\ pos + n <= Len(band)
  BY <1>1, <1>4, <1>5
<1> QED
  BY <1>6, <1>7, <1>8, <1>9 DEF c, n, i

(* A buffer of encode_bound bytes has room for what comes next.            *)
LEMMA AlwaysRoom ==
  ASSUME Typed, Written, Thrifty, cap >= encode_bound(Len(band))
  PROVE  /\ lit < pos => Need(1 + (pos - lit))
         /\ lit = pos /\ pos < Len(band) /\ Longest.n > 0 => Need(2)
         /\ lit = pos /\ pos = Len(band) => Need(CHECKSUM_LEN)
<1> DEFINE n == Len(band)
           z == Len(stream)
           q == (n + MAX_LITERAL - 1) \div MAX_LITERAL
           e == z - lit
           L == MAX_LITERAL
<1>1. /\ n \in Nat /\ z \in Nat /\ lit \in Nat /\ pos \in Nat /\ cap \in Int
      /\ HEADER_LEN \in Nat /\ CHECKSUM_LEN \in Nat /\ L \in Nat
  BY Lengths, Bytes DEF Typed
<1>2. /\ q \in Nat /\ cap >= HEADER_LEN + n + q + CHECKSUM_LEN
      /\ lit <= pos /\ pos <= n
  BY <1>1, BoundIs DEF Written
<1>3. \A k \in Nat : Need(k) <=> cap - (HEADER_LEN + z) >= k
  BY DEF Need, Used
<1>4. /\ \/ e * L <= lit
         \/ lit = pos /\ (pos < n => Longest.n > 0) /\ (e - 1) * L <= lit - 1
      /\ e \in Int /\ e - 1 \in Int /\ z = lit + e
  BY <1>1 DEF Thrifty, Spent
<1>5. \A f \in Int : f * L <= n - 1 => f + 1 <= q
  BY <1>1, BoundHasRoom
<1>6. Longest.n > 0 => pos + 3 <= n
  <2> SUFFICES ASSUME Longest.n > 0 PROVE pos + 3 <= n
    OBVIOUS
  <2>1. Longest.n \in 3 .. MAX_MATCH /\ pos + Longest.n <= n
    BY <1>2, LongestIsMatch
  <2> QED
    BY <1>1, <2>1, Bytes
<1> HIDE DEF n, z, q, e, L
<1>7. ASSUME lit < pos PROVE Need(1 + (pos - lit))
  <2>1. e * L <= lit
    BY <1>1, <1>4, <1>7
  <2>2. e + 1 <= q
    <3>1. e * L <= n - 1
      <4> DEFINE f == e * L
      <4>1. f \in Int /\ f <= lit
        BY <1>1, <1>4, <2>1
      <4> HIDE DEF f
      <4>2. f <= n - 1
        BY <1>1, <1>2, <1>7, <4>1
      <4> QED
        BY <4>2 DEF f
    <3> QED
      BY <1>4, <1>5, <3>1
  <2>3. cap - (HEADER_LEN + z) >= 1 + (pos - lit) /\ 1 + (pos - lit) \in Nat
    BY <1>1, <1>2, <1>4, <1>7, <2>2
  <2> QED
    BY <1>3, <2>3
<1>8. n >= 1 /\ lit = pos => e <= q
  <2> SUFFICES ASSUME n >= 1, lit = pos PROVE e <= q
    OBVIOUS
  <2>1. CASE (e - 1) * L <= lit - 1
    <3> DEFINE f == (e - 1) * L
    <3>1. f \in Int /\ f <= lit - 1
      BY <1>1, <1>4, <2>1
    <3> HIDE DEF f
    <3>2. f <= n - 1
      BY <1>1, <1>2, <3>1
    <3>3. (e - 1) + 1 <= q
      BY <1>4, <1>5, <3>2 DEF f
    <3> QED
      BY <1>4, <3>3
  <2>2. CASE e * L <= lit
    <3>1. (e - 1) * L <= n - 1
      <4> DEFINE f == e * L
      <4>1. (e - 1) * L = f - L /\ f \in Int /\ f <= lit
        BY <1>1, <1>4, <2>2
      <4>2. L >= 1
        BY Bytes DEF L
      <4> HIDE DEF f
      <4> QED
        BY <1>1, <1>2, <4>1, <4>2
    <3>2. (e - 1) + 1 <= q
      BY <1>4, <1>5, <3>1
    <3> QED
      BY <1>4, <3>2
  <2> QED
    BY <1>4, <2>1, <2>2
<1>9. ASSUME lit = pos, pos < n, Longest.n > 0 PROVE Need(2)
  <2>1. cap - (HEADER_LEN + z) >= 2
    BY <1>1, <1>2, <1>4, <1>6, <1>8, <1>9
  <2> QED
    BY <1>3, <2>1
<1>10. ASSUME lit = pos, pos = n PROVE Need(CHECKSUM_LEN)
  <2>1. e <= q
    <3>1. CASE n >= 1
      BY <1>8, <1>10, <3>1
    <3>2. CASE n = 0
      <4>1. e * L <= 0
        <5>1. (e - 1) * L = e * L - L /\ e * L \in Int /\ L >= 1
          BY <1>1, <1>4, Bytes DEF L
        <5>2. (e - 1) * L <= 0 - 1 => e - 1 < 0
          BY <1>1, <1>4
        <5>3. e <= 0 => e * L <= 0
          BY <1>1, <1>4
        <5> QED
          BY <1>1, <1>4, <1>10, <3>2, <5>1, <5>2, <5>3
      <4>2. e <= 0
        <5>1. e > 0 => e * L >= 1
          BY <1>1, <1>4, Bytes DEF L
        <5>2. e * L \in Int
          BY <1>1, <1>4
        <5> QED
          BY <1>4, <4>1, <5>1, <5>2
      <4> QED
        BY <1>2, <1>4, <4>2
    <3> QED
      BY <1>1, <3>1, <3>2
  <2>2. cap - (HEADER_LEN + z) >= CHECKSUM_LEN
    BY <1>1, <1>2, <1>4, <1>10, <2>1
  <2> QED
    BY <1>1, <1>3, <2>2
<1> QED
  BY <1>7, <1>9, <1>10 DEF n

-----------------------------------------------------------------------------
(* The encoder                                                             *)

(* The encoder is called.                                                  *)
LEMMA EncodeKeeps ==
  ASSUME IInv, NEW b \in Upto(Pixels, MaxLen), NEW t \in Tables, NEW short \in {0, 1},
         encode(b, t, short)
  PROVE  IInv'
<1>1. b \in Seq(Byte) /\ t \in [Slot -> Nat] /\ Len(b) \in Nat
  <2>1. b \in Seq(Pixels)
    BY UptoIsSeq, Codec11StreamAssumption
  <2> QED
    BY <2>1, Codec11StreamAssumption
<1>2. encode_bound(Len(b)) \in Nat
  BY <1>1, BoundIs
<1>3. /\ Least(Len(b), MIN_RAW) \in Nat /\ Least(Len(b), MIN_RAW) <= Len(b)
      /\ Least(Len(b), MIN_RAW) <= MAX_RAW
  BY <1>1, Codec11Assumption DEF Least
<1>4. /\ phase' = "raw" /\ band' = b /\ table' = t /\ cap' = encode_bound(Len(b)) - short
      /\ raw' = Least(Len(b), MIN_RAW) /\ pos' = 0 /\ lit' = 0 /\ stream' = << >>
      /\ own' = TRUE /\ s' = 0 /\ out' = << >> /\ out_cap' = 0 /\ rc' = "OK"
  BY DEF encode
<1>5. << >> \in Seq(Byte) /\ Len(<< >>) = 0
  OBVIOUS
<1>6. Typed'
  BY <1>1, <1>2, <1>3, <1>4, <1>5 DEF Typed
<1>7. Encoding'
  BY <1>3, <1>4, <1>5 DEF Encoding
<1>8. Decoding'
  BY <1>4, <1>5 DEF Decoding
<1> QED
  BY <1>6, <1>7, <1>8 DEF IInv

(* The raw prefix grows.                                                   *)
LEMMA GrowRawKeeps ==
  ASSUME IInv, GrowRaw
  PROVE  IInv'
<1>1. /\ phase = "raw" /\ phase' = "raw" /\ raw < Least(Len(band), MAX_RAW)
      /\ raw' = raw + 1 /\ band' = band /\ table' = table /\ cap' = cap /\ pos' = pos
      /\ lit' = lit /\ stream' = stream /\ own' = own /\ s' = s /\ out' = out
      /\ out_cap' = out_cap /\ rc' = rc
  BY DEF GrowRaw, RawGoesOn
<1>2. Typed /\ Encoding /\ Decoding
  BY DEF IInv
<1>3. Len(band) \in Nat /\ raw \in Nat
  BY <1>2, Lengths DEF Typed
<1>4. raw + 1 \in Nat /\ raw + 1 <= Len(band) /\ raw + 1 <= MAX_RAW
  BY <1>1, <1>3, Codec11Assumption DEF Least
<1>5. Typed'
  BY <1>1, <1>2, <1>4 DEF Typed
<1>6. Encoding'
  BY <1>1, <1>2, <1>4 DEF Encoding
<1>7. Decoding'
  BY <1>1, <1>2 DEF Decoding
<1> QED
  BY <1>5, <1>6, <1>7 DEF IInv

(* EOVERFLOW, with a buffer shorter than encode_bound.                     *)
LEMMA OverflowKeeps ==
  ASSUME IInv, phase \in {"raw", "tokens"}, Overflow, Rest,
         ~(cap >= encode_bound(Len(band)))
  PROVE  IInv'
<1>1. /\ phase' = "done" /\ rc' = "EOVERFLOW" /\ stream' = stream /\ pos' = pos
      /\ lit' = lit /\ band' = band /\ table' = table /\ cap' = cap /\ raw' = raw
      /\ own' = own /\ s' = s /\ out' = out /\ out_cap' = out_cap
  BY DEF Overflow, Rest
<1>2. Typed /\ Decoding
  BY DEF IInv
<1>3. Typed'
  BY <1>1, <1>2 DEF Typed
<1>4. Encoding'
  BY <1>1 DEF Encoding
<1>5. Decoding'
  BY <1>1, <1>2 DEF Decoding
<1> QED
  BY <1>3, <1>4, <1>5 DEF IInv

(* The raw prefix stands for itself, and tokens are still to come.         *)
LEMMA WriteHeaderKeeps ==
  ASSUME IInv, WriteHeader
  PROVE  IInv'
<1>1. phase = "raw" /\ Rest /\ Typed /\ Encoding /\ Decoding
  BY DEF WriteHeader, IInv
<1>2. /\ own /\ rc = "OK" /\ raw <= Len(band) /\ raw <= MAX_RAW /\ Len(stream) = 0
  BY <1>1 DEF Encoding
<1>3. /\ Len(band) \in Nat /\ raw \in Nat /\ cap \in Int /\ band \in Seq(Byte)
      /\ Used = HEADER_LEN /\ HEADER_LEN \in Nat /\ CHECKSUM_LEN \in Nat
  BY <1>1, <1>2, Lengths DEF Typed
<1>4. CASE ~Need(raw) /\ Overflow
  <2>1. cap < HEADER_LEN + raw
    BY <1>3, <1>4 DEF Need
  <2>2. encode_bound(Len(band)) \in Nat /\ encode_bound(Len(band)) >= HEADER_LEN + Len(band)
    <3> DEFINE n == Len(band)
               q == (n + MAX_LITERAL - 1) \div MAX_LITERAL
    <3>1. q \in Nat /\ encode_bound(n) = HEADER_LEN + n + q + CHECKSUM_LEN /\ n \in Nat
      BY <1>3, BoundIs
    <3> HIDE DEF q, n
    <3>2. encode_bound(n) \in Nat /\ encode_bound(n) >= HEADER_LEN + n
      BY <1>3, <3>1
    <3> QED
      BY <3>2 DEF n
  <2> QED
    BY <1>1, <1>2, <1>3, <1>4, <2>1, <2>2, OverflowKeeps
<1>5. CASE /\ Need(raw) /\ stream' = SubSeq(band, 1, raw) /\ phase' = "tokens"
           /\ pos' = raw /\ lit' = raw /\ UNCHANGED rc
  <2> DEFINE str == SubSeq(band, 1, raw)
  <2>1. str \in Seq(Byte) /\ Len(str) = raw /\ SubSeq(str, 1, raw) = str
    BY <1>2, <1>3
  <2>2. /\ stream' = str /\ phase' = "tokens" /\ pos' = raw /\ lit' = raw /\ rc' = rc
        /\ band' = band /\ table' = table /\ cap' = cap /\ raw' = raw /\ own' = own
        /\ s' = s /\ out' = out /\ out_cap' = out_cap
    BY <1>1, <1>5 DEF Rest
  <2>3. Tokens(str, band, table, raw, raw, raw)
    BY <1>3, <2>1, TokensNone
  <2> HIDE DEF str
  <2>4. Typed'
    BY <1>1, <2>1, <2>2 DEF Typed
  <2>5. HEADER_LEN + Len(str) <= cap
    BY <1>3, <1>5, <2>1 DEF Need
  <2>6. Written'
    <3>1. Used' = HEADER_LEN + Len(str)
      BY <2>2 DEF Used
    <3>2. Tokens(stream', band', table', raw', raw', lit')
      BY <2>2, <2>3
    <3>3. SubSeq(stream', 1, raw') = SubSeq(band', 1, raw')
      BY <2>1, <2>2 DEF str
    <3> QED
      BY <1>2, <1>3, <2>1, <2>2, <2>5, <3>1, <3>2, <3>3 DEF Written
  <2>7. Thrifty'
    <3>1. Spent' = 0 /\ 0 * MAX_LITERAL <= raw
      BY <1>3, <2>1, <2>2, Bytes DEF Spent
    <3> QED
      BY <2>2, <3>1 DEF Thrifty
  <2>8. Encoding'
    BY <1>2, <2>2, <2>6, <2>7 DEF Encoding
  <2>9. Decoding'
    BY <1>1, <2>2 DEF Decoding
  <2> QED
    BY <2>4, <2>8, <2>9 DEF IInv
<1> QED
  BY <1>4, <1>5 DEF WriteHeader

(* A byte joins the literal run: the byte owed by a match is not owed here,*)
(* where there is no match.                                                *)
LEMMA ScanKeeps ==
  ASSUME IInv, Scan
  PROVE  IInv'
<1>1. /\ phase = "tokens" /\ pos < Len(band) /\ Longest.n = 0
      /\ Typed /\ Encoding /\ Decoding
  BY DEF Scan, IInv
<1>2. /\ phase' = phase /\ pos' = pos + 1 /\ lit' = lit /\ stream' = stream /\ rc' = rc
      /\ band' = band /\ table' = table /\ cap' = cap /\ raw' = raw /\ own' = own
      /\ s' = s /\ out' = out /\ out_cap' = out_cap
  BY DEF Scan, Rest
<1>3. Written /\ Thrifty
  BY <1>1 DEF Encoding
<1>4. pos \in Nat /\ lit \in Nat /\ Len(band) \in Nat
  BY <1>1, Lengths DEF Typed
<1>5. Typed'
  BY <1>1, <1>2, <1>4 DEF Typed
<1>6. Written'
  <2>1. lit <= pos + 1 /\ pos + 1 <= Len(band)
    BY <1>1, <1>3, <1>4 DEF Written
  <2>2. Used' = Used
    BY <1>2 DEF Used
  <2> QED
    BY <1>2, <1>3, <2>1, <2>2 DEF Written
<1>7. Thrifty'
  <2>1. Spent * MAX_LITERAL <= lit
    BY <1>1, <1>3 DEF Thrifty
  <2>2. Spent' = Spent
    BY <1>2 DEF Spent
  <2> QED
    BY <1>2, <2>1, <2>2 DEF Thrifty
<1>8. Encoding'
  BY <1>1, <1>2, <1>6, <1>7 DEF Encoding
<1>9. Decoding'
  BY <1>1, <1>2 DEF Decoding
<1> QED
  BY <1>5, <1>8, <1>9 DEF IInv

(* The first n bytes of q.                                                 *)
LEMMA PrefixIs ==
  ASSUME NEW q \in Seq(Byte), NEW n \in Nat, n <= Len(q)
  PROVE  /\ SubSeq(q, 1, n) \in Seq(Byte) /\ Len(SubSeq(q, 1, n)) = n
         /\ \A j \in 1 .. n : SubSeq(q, 1, n)[j] = q[j]
<1>1. Len(q) \in Nat
  OBVIOUS
<1> QED
  BY <1>1

(* A token that fits is appended.                                          *)
LEMMA TokenKeeps ==
  ASSUME IInv, phase = "tokens", phase' = phase, rc' = rc, Rest,
         NEW tok \in Seq(Byte), Need(Len(tok)), stream' = stream \o tok,
         lit' \in Nat, pos' \in Nat, lit' <= pos', pos' <= Len(band),
         Goes(stream \o tok, band, table, <<Len(stream), lit>>,
              <<Len(stream \o tok), lit'>>),
         Thrifty'
  PROVE  IInv'
<1>1. Typed /\ Encoding /\ Decoding /\ Written
  BY DEF IInv, Encoding
<1>2. /\ band' = band /\ table' = table /\ cap' = cap /\ raw' = raw /\ own' = own
      /\ s' = s /\ out' = out /\ out_cap' = out_cap
  BY DEF Rest
<1> DEFINE str == stream \o tok
           n == Len(stream)
           k == Len(tok)
<1>3. /\ stream \in Seq(Byte) /\ raw \in Nat /\ lit \in Nat /\ cap \in Int
      /\ n \in Nat /\ k \in Nat /\ HEADER_LEN \in Nat /\ Used = HEADER_LEN + n
  BY <1>1, Lengths DEF Typed
<1>4. str \in Seq(Byte) /\ Joins(str, stream, tok)
  BY <1>3, Concat
<1>5. Tokens(str, band, table, raw, raw, lit')
  BY <1>1, <1>3, TokensMore DEF Written
<1> HIDE DEF str
<1>6. Len(str) = n + k /\ \A j \in 1 .. n : str[j] = stream[j]
  BY <1>4 DEF Joins
<1>7. stream' = str
  BY DEF str
<1>8. Typed'
  BY <1>1, <1>2, <1>4, <1>7 DEF Typed
<1>9. SubSeq(str, 1, raw) = SubSeq(stream, 1, raw) /\ raw <= n
  <2>1. raw <= n
    BY <1>1 DEF Written
  <2> DEFINE x == SubSeq(str, 1, raw)
             y == SubSeq(stream, 1, raw)
  <2>2. x \in Seq(Byte) /\ Len(x) = raw /\ \A j \in 1 .. raw : x[j] = str[j]
    <3>1. raw <= Len(str)
      BY <1>3, <1>6, <2>1
    <3> QED
      BY <1>3, <1>4, <3>1, PrefixIs
  <2>3. y \in Seq(Byte) /\ Len(y) = raw /\ \A j \in 1 .. raw : y[j] = stream[j]
    BY <1>3, <2>1, PrefixIs
  <2>4. \A j \in 1 .. raw : j \in 1 .. n
    BY <1>3, <2>1
  <2> HIDE DEF x, y
  <2>5. \A j \in 1 .. raw : x[j] = y[j]
    BY <1>6, <2>2, <2>3, <2>4
  <2>6. x = y
    BY <2>2, <2>3, <2>5, SeqEqual
  <2> QED
    BY <2>1, <2>6 DEF x, y
<1>10. Written'
  <2>1. Used' = HEADER_LEN + Len(str)
    BY <1>7 DEF Used
  <2>2. Used' <= cap
    <3>1. cap - (HEADER_LEN + n) >= k
      BY <1>3 DEF Need
    <3> HIDE DEF n, k
    <3> QED
      BY <1>3, <1>6, <2>1, <3>1
  <2>3. raw <= Len(str)
    <3> HIDE DEF n, k
    <3> QED
      BY <1>3, <1>6, <1>9
  <2>4. SubSeq(stream', 1, raw') = SubSeq(band', 1, raw')
    BY <1>1, <1>2, <1>7, <1>9 DEF Written
  <2>5. Tokens(stream', band', table', raw', raw', lit')
    BY <1>2, <1>5, <1>7
  <2> QED
    BY <1>2, <1>7, <2>2, <2>3, <2>4, <2>5 DEF Written
<1>11. Encoding'
  BY <1>1, <1>2, <1>10 DEF Encoding
<1>12. Decoding'
  BY <1>1, <1>2 DEF Decoding
<1> QED
  BY <1>8, <1>11, <1>12 DEF IInv

(* A literal token: a full one costs its byte per MAX_LITERAL, a shorter   *)
(* one is the last before a match or before the end.                       *)
LEMMA WriteLiteralKeeps ==
  ASSUME IInv, WriteLiteral
  PROVE  IInv'
<1> DEFINE count == Least(pos - lit, MAX_LITERAL)
           tok == LiteralToken(SubSeq(band, lit + 1, lit + count))
<1>1. /\ phase = "tokens" /\ lit < pos /\ (pos < Len(band) => Longest.n > 0) /\ Rest
      /\ Typed /\ Encoding /\ Written /\ Thrifty
  BY DEF WriteLiteral, IInv, Encoding
<1>2. /\ pos \in Nat /\ lit \in Nat /\ Len(band) \in Nat /\ Len(stream) \in Nat
      /\ band \in Seq(Byte) /\ stream \in Seq(Byte) /\ cap \in Int /\ Used \in Nat
      /\ lit <= pos /\ pos <= Len(band)
  BY <1>1, Lengths DEF Typed, Written
<1>3. /\ count \in 1 .. MAX_LITERAL /\ count \in Nat /\ count <= pos - lit
      /\ count = pos - lit \/ count = MAX_LITERAL
  BY <1>1, <1>2, Bytes DEF Least
<1>4. \/ ~Need(1 + count) /\ Overflow
      \/ /\ Need(1 + count) /\ stream' = stream \o tok /\ lit' = lit + count
         /\ phase' = phase /\ pos' = pos /\ rc' = rc
  BY DEF WriteLiteral
<1>5. lit + count <= Len(band)
  <2> HIDE DEF count
  <2> QED
    BY <1>2, <1>3
<1>6. /\ tok \in Seq(Byte) /\ Len(tok) = 1 + count
      /\ Goes(stream \o tok, band, table, <<Len(stream), lit>>,
              <<Len(stream \o tok), lit + count>>)
  <2> HIDE DEF count
  <2> QED
    BY <1>2, <1>3, <1>5, LiteralWritten
<1> HIDE DEF count, tok
<1>7. CASE ~Need(1 + count) /\ Overflow
  <2>1. ~(cap >= encode_bound(Len(band)))
    <3> SUFFICES ASSUME cap >= encode_bound(Len(band)) PROVE FALSE
      OBVIOUS
    <3>1. Need(1 + (pos - lit))
      BY <1>1, AlwaysRoom
    <3>2. Need(1 + count)
      BY <1>2, <1>3, <3>1 DEF Need
    <3> QED
      BY <1>7, <3>2
  <2> QED
    BY <1>1, <1>7, <2>1, OverflowKeeps
<1>8. CASE /\ Need(1 + count) /\ stream' = stream \o tok /\ lit' = lit + count
           /\ phase' = phase /\ pos' = pos /\ rc' = rc
  <2>1. lit' \in Nat /\ pos' \in Nat /\ lit' <= pos' /\ pos' <= Len(band)
    BY <1>2, <1>3, <1>8
  <2>2. Thrifty'
    <3> DEFINE e == Len(stream) - lit
               L == MAX_LITERAL
    <3>1. e \in Int /\ L \in Nat
      BY <1>2, Bytes
    <3>2. e * L <= lit
      BY <1>1, <1>2 DEF Thrifty, Spent
    <3>3. Len(stream') = Len(stream) + (1 + count)
      <4>1. Joins(stream \o tok, stream, tok)
        BY <1>2, <1>6, Concat
      <4> QED
        BY <1>6, <1>8, <4>1 DEF Joins
    <3>4. Spent' = e + 1
      <4> DEFINE z == Len(stream)
      <4>1. z \in Nat /\ Len(stream') = z + (1 + count)
        BY <1>2, <3>3
      <4>2. Spent' = Len(stream') - lit'
        BY DEF Spent
      <4> HIDE DEF z
      <4>3. Spent' = (z - lit) + 1
        BY <1>2, <1>3, <1>8, <4>1, <4>2
      <4> QED
        BY <4>3 DEF z
    <3> HIDE DEF e, L
    <3> DEFINE f == e * L
    <3>5. (e + 1) * L = f + L /\ (e + 1 - 1) * L = f /\ f \in Int /\ f <= lit
      BY <3>1, <3>2
    <3> HIDE DEF f
    <3>6. CASE count = L
      <4>1. (e + 1) * L <= lit + count
        BY <1>2, <1>3, <3>1, <3>5, <3>6
      <4> QED
        BY <1>8, <3>4, <4>1 DEF Thrifty, L
    <3>7. CASE count = pos - lit
      <4>1. lit' = pos /\ (e + 1 - 1) * L <= pos - 1
        BY <1>1, <1>2, <1>3, <1>8, <3>5, <3>7
      <4>2. Longest' = Longest /\ Len(band') = Len(band)
        BY <1>1, <1>8 DEF Longest, Rest
      <4>3. (Spent' - 1) * MAX_LITERAL <= lit' - 1
        <5>1. Spent' - 1 = e /\ e + 1 - 1 = e
          BY <3>1, <3>4
        <5>2. e * L <= pos - 1
          BY <4>1, <5>1
        <5> QED
          BY <4>1, <5>1, <5>2 DEF L
      <4>4. lit' = pos' /\ (pos' < Len(band') => Longest'.n > 0)
        BY <1>1, <1>8, <4>1, <4>2
      <4> QED
        BY <4>3, <4>4 DEF Thrifty
    <3> QED
      BY <1>3, <3>6, <3>7 DEF L
  <2> QED
    BY <1>1, <1>6, <1>8, <2>1, <2>2, TokenKeeps
<1> QED
  BY <1>4, <1>7, <1>8

(* A match token has two bytes and stands for three or more.               *)
LEMMA WriteMatchKeeps ==
  ASSUME IInv, WriteMatch
  PROVE  IInv'
<1> DEFINE m == Longest.n
           i == Longest.index
           tok == MatchToken(m, i)
<1>1. /\ phase = "tokens" /\ lit = pos /\ pos < Len(band) /\ m > 0 /\ Rest
      /\ Typed /\ Encoding /\ Written /\ Thrifty
  BY DEF WriteMatch, IInv, Encoding
<1>2. /\ pos \in Nat /\ lit \in Nat /\ Len(band) \in Nat /\ Len(stream) \in Nat
      /\ band \in Seq(Byte) /\ stream \in Seq(Byte) /\ cap \in Int /\ Used \in Nat
      /\ pos <= Len(band)
  BY <1>1, Lengths DEF Typed, Written
<1>3. \/ ~Need(2) /\ Overflow
      \/ /\ Need(2) /\ stream' = stream \o tok /\ pos' = pos + m /\ lit' = pos'
         /\ phase' = phase /\ rc' = rc
  BY DEF WriteMatch
<1>4. /\ m \in 3 .. MAX_MATCH /\ pos + m <= Len(band) /\ i \in Slot
      /\ table[i] \in 1 .. pos /\ Same(band, pos, table[i], m)
  BY <1>1, <1>2, LongestIsMatch
<1> HIDE DEF m, i
<1>5. /\ tok \in Seq(Byte) /\ Len(tok) = 2
      /\ Goes(stream \o tok, band, table, <<Len(stream), pos>>,
              <<Len(stream \o tok), pos + m>>)
  BY <1>2, <1>4, MatchWritten
<1> HIDE DEF tok
<1>6. CASE ~Need(2) /\ Overflow
  <2>1. cap >= encode_bound(Len(band)) => Need(2)
    BY <1>1, AlwaysRoom DEF m
  <2> QED
    BY <1>1, <1>6, <2>1, OverflowKeeps
<1>7. CASE /\ Need(2) /\ stream' = stream \o tok /\ pos' = pos + m /\ lit' = pos'
           /\ phase' = phase /\ rc' = rc
  <2>1. m \in Nat /\ m >= 3
    BY <1>4, Bytes
  <2>2. lit' \in Nat /\ pos' \in Nat /\ lit' <= pos' /\ pos' <= Len(band)
        /\ lit' = pos + m
    BY <1>2, <1>4, <1>7, <2>1
  <2>3. Thrifty'
    <3> DEFINE e == Len(stream) - lit
               L == MAX_LITERAL
               g == Spent'
    <3>1. e \in Int /\ L \in Nat /\ L >= 1
      BY <1>2, Bytes
    <3>2. e * L <= lit \/ (e - 1) * L <= lit - 1
      BY <1>1, <1>2 DEF Thrifty, Spent
    <3>3. Len(stream') = Len(stream) + 2
      <4>1. Joins(stream \o tok, stream, tok)
        BY <1>2, <1>5, Concat
      <4> QED
        BY <1>5, <1>7, <4>1 DEF Joins
    <3>4. g \in Int /\ g <= e - 1
      <4> DEFINE z == Len(stream)
      <4>1. z \in Nat /\ Len(stream') = z + 2
        BY <1>2, <3>3
      <4>2. g = Len(stream') - lit'
        BY DEF Spent
      <4> HIDE DEF z, g
      <4>3. g \in Int /\ g <= (z - lit) - 1
        BY <1>1, <1>2, <2>1, <2>2, <4>1, <4>2
      <4> QED
        BY <4>3 DEF z
    <3> HIDE DEF e, L, g
    <3>5. PICK d \in Nat : e - 1 = g + d
      <4>1. e - 1 - g \in Nat /\ e - 1 = g + (e - 1 - g)
        BY <3>1, <3>4
      <4> QED
        BY <4>1
    <3>6. (e - 1) * L = g * L + d * L /\ d * L \in Nat /\ g * L \in Int
          /\ (e - 1) * L = e * L - L /\ e * L \in Int
      BY <3>1, <3>4, <3>5
    <3>7. g * L <= lit
      BY <1>2, <3>1, <3>2, <3>6
    <3>8. g * L <= lit'
      BY <1>1, <1>2, <2>1, <2>2, <3>6, <3>7
    <3> QED
      BY <3>8 DEF Thrifty, g, L
  <2> QED
    BY <1>1, <1>5, <1>7, <2>2, <2>3, TokenKeeps
<1> QED
  BY <1>3, <1>6, <1>7

(* The payload is complete and stands for the band.                        *)
LEMMA WriteChecksumKeeps ==
  ASSUME IInv, WriteChecksum
  PROVE  IInv'
<1>1. /\ phase = "tokens" /\ pos = Len(band) /\ lit = pos /\ Rest
      /\ Typed /\ Encoding /\ Decoding /\ Written /\ Thrifty
  BY DEF WriteChecksum, IInv, Encoding
<1>2. CASE ~Need(CHECKSUM_LEN) /\ Overflow
  <2>1. cap >= encode_bound(Len(band)) => Need(CHECKSUM_LEN)
    BY <1>1, AlwaysRoom
  <2> QED
    BY <1>1, <1>2, <2>1, OverflowKeeps
<1>3. CASE /\ Need(CHECKSUM_LEN) /\ phase' = "encoded"
           /\ UNCHANGED <<stream, pos, lit, rc>>
  <2>1. /\ stream' = stream /\ pos' = pos /\ lit' = lit /\ rc' = rc
        /\ band' = band /\ table' = table /\ cap' = cap /\ raw' = raw /\ own' = own
        /\ s' = s /\ out' = out /\ out_cap' = out_cap
    BY <1>1, <1>3 DEF Rest
  <2>2. Used' = Used /\ Used + CHECKSUM_LEN <= cap
    <3>1. Used \in Nat /\ CHECKSUM_LEN \in Nat /\ cap \in Int
      BY <1>1, Lengths DEF Typed
    <3> QED
      BY <1>3, <2>1, <3>1 DEF Need, Used
  <2>3. Written'
    BY <1>1, <2>1, <2>2 DEF Written
  <2>4. Typed'
    BY <1>1, <1>3, <2>1 DEF Typed
  <2>5. Encoding'
    BY <1>1, <1>3, <2>1, <2>2, <2>3 DEF Encoding
  <2>6. Decoding'
    BY <1>1, <1>3, <2>1 DEF Decoding
  <2> QED
    BY <2>4, <2>5, <2>6 DEF IInv
<1> QED
  BY <1>2, <1>3 DEF WriteChecksum

-----------------------------------------------------------------------------
(* The decoder                                                             *)

(* The decoder begins with what the encoder wrote: the raw prefix is the   *)
(* band's.                                                                 *)
LEMMA DecodeOwnKeeps ==
  ASSUME IInv, DecodeOwn
  PROVE  IInv'
<1>1. /\ phase = "encoded" /\ decode(raw, stream, Len(band))
      /\ Typed /\ Encoding /\ Written /\ lit = Len(band)
      /\ own /\ rc = "OK" /\ raw <= Len(band) /\ raw <= MAX_RAW
  BY DEF DecodeOwn, IInv, Encoding
<1>2. /\ Len(band) \in Nat /\ Len(stream) \in Nat /\ raw \in Nat /\ band \in Seq(Byte)
      /\ MAX_RAW \in Nat /\ raw <= Len(stream)
      /\ SubSeq(stream, 1, raw) = SubSeq(band, 1, raw)
      /\ Tokens(stream, band, table, raw, raw, Len(band))
  BY <1>1, Lengths, Codec11Assumption DEF Typed, Written
<1>3. ~(raw > MAX_RAW) /\ ~(Len(stream) < raw) /\ ~(raw > Len(band))
  BY <1>1, <1>2
<1>4. /\ raw' = raw /\ stream' = stream /\ out_cap' = Len(band) /\ rc' = "OK"
      /\ phase' = "decode" /\ s' = raw /\ out' = SubSeq(band, 1, raw)
      /\ band' = band /\ table' = table /\ cap' = cap /\ pos' = pos /\ lit' = lit
      /\ own' = own
  BY <1>1, <1>2, <1>3 DEF decode, DecodeOwn
<1>5. out' \in Seq(Byte) /\ Len(out') = raw
  BY <1>1, <1>2, <1>4, PrefixIs
<1>6. Typed'
  BY <1>1, <1>2, <1>4, <1>5 DEF Typed
<1>7. Encoding'
  BY <1>4 DEF Encoding
<1>8. Decoding'
  <2>1. out' = SubSeq(band', 1, Len(out')) /\ Len(out') <= Len(band') /\ s' <= Len(stream')
        /\ Len(out') <= out_cap' /\ out_cap' = Len(band')
    BY <1>1, <1>2, <1>4, <1>5
  <2>2. Tokens(stream', band', table', s', Len(out'), Len(band'))
    BY <1>2, <1>4, <1>5
  <2> QED
    BY <1>4, <2>1, <2>2 DEF Decoding
<1> QED
  BY <1>6, <1>7, <1>8 DEF IInv

(* It begins with any other payload.                                       *)
LEMMA DecodeOtherKeeps ==
  ASSUME IInv, NEW n \in 0 .. (MAX_RAW + 1), NEW str \in Upto(Byte, MaxStream),
         NEW c \in 0 .. (MaxStream + 2), NEW t \in Tables, DecodeOther(n, str, c, t)
  PROVE  IInv'
<1>1. /\ decode(n, str, c) /\ table' = t /\ own' = FALSE /\ band' = band /\ cap' = cap
      /\ pos' = pos /\ lit' = lit /\ Typed
  BY DEF DecodeOther, IInv
<1>2. /\ str \in Seq(Byte) /\ n \in Nat /\ c \in Nat /\ t \in [Slot -> Nat]
      /\ Len(str) \in Nat
  <2>1. str \in Seq(Byte)
    BY UptoIsSeq, Codec11StreamAssumption
  <2> QED
    BY <2>1, Codec11Assumption, Codec11StreamAssumption
<1>3. raw' = n /\ stream' = str /\ out_cap' = c
  BY <1>1 DEF decode
<1>4. \/ /\ phase' = "decode" /\ s' = n /\ out' = SubSeq(str, 1, n)
         /\ ~(Len(str) < n) /\ ~(n > c)
      \/ phase' = "done" /\ s' = 0 /\ out' = << >>
  BY <1>1 DEF decode
<1>5. /\ out' \in Seq(Byte) /\ Len(out') <= c /\ s' \in Nat /\ phase' \in {"decode", "done"}
      /\ phase' = "decode" => s' <= Len(str)
  <2>1. CASE /\ phase' = "decode" /\ s' = n /\ out' = SubSeq(str, 1, n)
             /\ ~(Len(str) < n) /\ ~(n > c)
    <3>1. n <= Len(str) /\ n <= c
      BY <1>2, <2>1
    <3>2. out' \in Seq(Byte) /\ Len(out') = n
      BY <1>2, <2>1, <3>1, PrefixIs
    <3> QED
      BY <1>2, <2>1, <3>1, <3>2
  <2>2. CASE phase' = "done" /\ s' = 0 /\ out' = << >>
    BY <1>2, <2>2
  <2> QED
    BY <1>4, <2>1, <2>2
<1>6. Typed'
  BY <1>1, <1>2, <1>3, <1>5 DEF Typed
<1>7. Encoding'
  BY <1>5 DEF Encoding
<1>8. Decoding'
  BY <1>1, <1>3, <1>5 DEF Decoding
<1> QED
  BY <1>6, <1>7, <1>8 DEF IInv

(* It refuses one unread.                                                  *)
LEMMA RefuseOtherKeeps ==
  ASSUME IInv, NEW code \in {"ETRUNCATED", "EMAGIC"}, RefuseOther(code)
  PROVE  IInv'
<1>1. /\ phase' = "done" /\ own' = FALSE /\ band' = band /\ table' = table /\ cap' = cap
      /\ raw' = raw /\ pos' = pos /\ lit' = lit /\ stream' = stream /\ s' = s
      /\ out' = out /\ out_cap' = out_cap
  BY DEF RefuseOther
<1>2. Typed /\ Decoding
  BY DEF IInv
<1>3. Typed'
  BY <1>1, <1>2 DEF Typed
<1>4. Encoding'
  BY <1>1 DEF Encoding
<1>5. Decoding'
  BY <1>1, <1>2 DEF Decoding
<1> QED
  BY <1>3, <1>4, <1>5 DEF IInv

(* A copy within the output, whatever the payload asks for.                *)
LEMMA CopiedType ==
  ASSUME NEW buf \in Seq(Byte), NEW d \in 1 .. Len(buf), NEW m \in Nat
  PROVE  Copied(buf, d, m) \in Seq(Byte) /\ Len(Copied(buf, d, m)) = m
<1> DEFINE w == Copied(buf, d, m)
           n == Len(buf)
<1>1. n \in Nat /\ d \in Nat \ {0} /\ buf \in [1 .. n -> Byte]
  OBVIOUS
<1>2. ASSUME NEW k \in 1 .. m PROVE At(buf, n - d + ((k - 1) % d)) \in Byte
  <2>1. k - 1 \in Nat
    OBVIOUS
  <2>2. (k - 1) % d \in 0 .. (d - 1)
    BY <1>1, <2>1, DivMod
  <2> DEFINE j == (k - 1) % d
  <2> HIDE DEF j, n
  <2>3. n - d + j + 1 \in 1 .. n
    BY <1>1, <2>2 DEF j, n
  <2> QED
    BY <1>1, <2>3 DEF At, j
<1>3. w \in [1 .. m -> Byte]
  BY <1>2 DEF Copied
<1> HIDE DEF w
<1>4. w \in Seq(Byte) /\ Len(w) = m
  BY <1>3
<1> QED
  BY <1>4 DEF w

(* The decoder returns with an error.  For the encoder's own payload it    *)
(* never does.                                                             *)
LEMMA FailKeeps ==
  ASSUME IInv, phase = "decode", ~own, NEW code, Fail(code),
         UNCHANGED <<band, table, cap, raw, pos, lit, stream, own, out_cap>>
  PROVE  IInv'
<1>1. /\ phase' = "done" /\ own' = own /\ band' = band /\ table' = table /\ cap' = cap
      /\ raw' = raw /\ pos' = pos /\ lit' = lit /\ stream' = stream /\ s' = s
      /\ out' = out /\ out_cap' = out_cap
  BY DEF Fail
<1>2. Typed /\ Decoding
  BY DEF IInv
<1>3. Typed'
  BY <1>1, <1>2 DEF Typed
<1>4. Encoding'
  BY <1>1 DEF Encoding
<1>5. Decoding'
  BY <1>1, <1>2 DEF Decoding
<1> QED
  BY <1>3, <1>4, <1>5 DEF IInv

(* The decoder goes on.                                                    *)
LEMMA TakeKeeps ==
  ASSUME IInv, phase = "decode", NEW more \in Seq(Byte), NEW n \in Nat, Take(more, n),
         UNCHANGED <<band, table, cap, raw, pos, lit, stream, own, out_cap>>,
         s + n <= Len(stream), ~NoRoom(Len(more)),
         own => /\ Len(out) + Len(more) <= Len(band)
                /\ \A k \in 1 .. Len(more) : more[k] = band[Len(out) + k]
                /\ Tokens(stream, band, table, s + n, Len(out) + Len(more), Len(band))
  PROVE  IInv'
<1>1. /\ phase' = "decode" /\ own' = own /\ band' = band /\ table' = table /\ cap' = cap
      /\ raw' = raw /\ pos' = pos /\ lit' = lit /\ stream' = stream /\ s' = s + n
      /\ out' = out \o more /\ out_cap' = out_cap /\ rc' = rc
  BY DEF Take
<1>2. Typed /\ Decoding
  BY DEF IInv
<1> DEFINE x == Len(out)
           m == Len(more)
<1>3. /\ out \in Seq(Byte) /\ s \in Nat /\ x \in Nat /\ m \in Nat /\ out_cap \in Nat
      /\ band \in Seq(Byte)
  BY <1>2 DEF Typed
<1>4. out' \in Seq(Byte) /\ Len(out') = x + m
  <2>1. out \o more \in Seq(Byte) /\ Joins(out \o more, out, more)
    BY <1>3, Concat
  <2> QED
    BY <1>1, <2>1 DEF Joins
<1>5. x + m <= out_cap
  <2>1. ~(out_cap - x < m)
    BY DEF NoRoom
  <2> HIDE DEF x, m
  <2> QED
    BY <1>3, <2>1
<1>6. s + n \in Nat
  BY <1>3
<1>7. Typed'
  BY <1>1, <1>2, <1>4, <1>6 DEF Typed
<1>8. Encoding'
  BY <1>1 DEF Encoding
<1>9. ASSUME own PROVE out' = SubSeq(band, 1, x + m)
  <2>1. out = SubSeq(band, 1, x)
    BY <1>2, <1>9 DEF Decoding
  <2>2. x + m <= Len(band) /\ Len(more) = m /\ \A k \in 1 .. m : more[k] = band[x + k]
    BY <1>9
  <2>3. Heads(out, band, x) /\ Joins(out', out, more)
    BY <1>1, <1>3, <2>1, Concat DEF Heads
  <2> HIDE DEF x, m
  <2>4. Heads(out', band, x + m)
    BY <1>3, <1>4, <2>2, <2>3, PrefixGrows
  <2> QED
    BY <2>4 DEF Heads
<1> HIDE DEF x, m
<1>10. Decoding'
  <2>1. own => rc = "OK" /\ out_cap = Len(band)
    BY <1>2 DEF Decoding
  <2>2. own => Tokens(stream, band, table, s + n, x + m, Len(band)) /\ x + m <= Len(band)
    BY DEF x, m
  <2> QED
    BY <1>1, <1>4, <1>5, <1>9, <2>1, <2>2 DEF Decoding
<1> QED
  BY <1>7, <1>8, <1>10 DEF IInv

(* What the decoder of the encoder's own payload finds at s.               *)
LEMMA OwnToken ==
  ASSUME IInv, phase = "decode", own, s < Len(stream)
  PROVE  LET x == Len(out)
         IN  \/ \E c \in Nat : /\ LiteralAt(stream, band, s, x, c)
                               /\ Tokens(stream, band, table, s + 1 + c, x + c, Len(band))
             \/ \E m, i \in Nat : /\ MatchAt(stream, band, table, s, x, m, i)
                                  /\ Tokens(stream, band, table, s + 2, x + m, Len(band))
<1> DEFINE x == Len(out)
<1>1. /\ stream \in Seq(Byte) /\ s \in Nat /\ x \in Nat /\ Len(band) \in Nat
      /\ Len(stream) \in Nat /\ Tokens(stream, band, table, s, x, Len(band))
  <2>1. Typed
    BY DEF IInv
  <2> QED
    BY <2>1, Lengths DEF IInv, Typed, Decoding
<1> HIDE DEF x
<1>2. PICK z \in Nat \X Nat : /\ Goes(stream, band, table, <<s, x>>, z)
                              /\ Tokens(stream, band, table, z[1], z[2], Len(band))
  BY <1>1, TokensNext
<1>3. <<s, x>>[1] = s /\ <<s, x>>[2] = x
  OBVIOUS
<1>4. CASE \E c \in Nat : LiteralAt(stream, band, s, x, c) /\ z = <<s + 1 + c, x + c>>
  BY <1>2, <1>4 DEF x
<1>5. CASE \E m, i \in Nat : MatchAt(stream, band, table, s, x, m, i) /\ z = <<s + 2, x + m>>
  <2>1. PICK m \in Nat, i \in Nat :
          MatchAt(stream, band, table, s, x, m, i) /\ z = <<s + 2, x + m>>
    BY <1>5
  <2>2. Tokens(stream, band, table, s + 2, x + m, Len(band))
    BY <1>2, <2>1
  <2> QED
    BY <2>1, <2>2 DEF x
<1> QED
  BY <1>2, <1>3, <1>4, <1>5 DEF Goes

(* A literal token is read.                                                *)
LEMMA DecodeLiteralKeeps ==
  ASSUME IInv, DecodeLiteral
  PROVE  IInv'
<1> DEFINE b1 == At(stream, s)
           count == b1 + 1
           run == SubSeq(stream, s + 2, s + 1 + count)
           x == Len(out)
<1>1. /\ phase = "decode" /\ s < Len(stream) /\ ~IsMatch(b1)
      /\ UNCHANGED <<band, table, cap, raw, pos, lit, stream, own, out_cap>>
  BY DEF DecodeLiteral
<1>2. IF Left < count THEN Fail("ETRUNCATED")
      ELSE IF NoRoom(count) THEN Fail("EOVERFLOW")
      ELSE Take(run, 1 + count)
  BY DEF DecodeLiteral
<1>3. /\ Typed /\ Decoding /\ stream \in Seq(Byte) /\ s \in Nat /\ Len(stream) \in Nat
      /\ x \in Nat /\ Len(band) \in Nat /\ out_cap \in Nat
  <2>1. Typed /\ Decoding
    BY DEF IInv
  <2> QED
    BY <2>1, Lengths DEF Typed
<1>4. b1 \in Nat /\ count \in Nat /\ b1 < LOW
  <2>1. stream[s + 1] \in Byte
    BY <1>1, <1>3
  <2>2. b1 \in Nat
    BY <2>1, Bytes DEF At
  <2> QED
    BY <1>1, <2>2, Bytes DEF IsMatch
<1>5. Left = Len(stream) - s - 1 /\ Left \in Int
  BY <1>3 DEF Left
<1>6. ASSUME own
      PROVE  /\ ~(Left < count) /\ ~NoRoom(count) /\ x + count <= Len(band)
             /\ \A k \in 0 .. (count - 1) : At(stream, s + 1 + k) = At(band, x + k)
             /\ Tokens(stream, band, table, s + 1 + count, x + count, Len(band))
  <2>1. \A m, i \in Nat : ~MatchAt(stream, band, table, s, x, m, i)
    <3> SUFFICES ASSUME NEW m \in Nat, NEW i \in Nat, MatchAt(stream, band, table, s, x, m, i)
                 PROVE  FALSE
      OBVIOUS
    <3>1. m \in 3 .. MAX_MATCH /\ i \in Slot /\ b1 = LOW + ((m - 3) % LOW)
      BY DEF MatchAt
    <3>2. IsMatch(b1)
      <4> HIDE DEF b1
      <4> QED
        BY <3>1, MatchBytes
    <3> QED
      BY <1>1, <3>2
  <2>2. PICK c \in Nat : /\ LiteralAt(stream, band, s, x, c)
                         /\ Tokens(stream, band, table, s + 1 + c, x + c, Len(band))
    BY <1>1, <1>6, <2>1, OwnToken
  <2>3. /\ c \in 1 .. MAX_LITERAL /\ s + 1 + c <= Len(stream) /\ x + c <= Len(band)
        /\ b1 = c - 1
        /\ \A k \in 0 .. (c - 1) : At(stream, s + 1 + k) = At(band, x + k)
    BY <2>2 DEF LiteralAt
  <2> HIDE DEF b1
  <2>4. count = c
    BY <2>2, <2>3
  <2>5. out_cap = Len(band)
    BY <1>1, <1>3, <1>6 DEF Decoding
  <2> HIDE DEF count, x
  <2>6. ~(Left < count)
    BY <1>3, <1>5, <2>2, <2>3, <2>4
  <2>7. ~NoRoom(count)
    <3>1. ~(out_cap - x < count)
      BY <1>3, <2>2, <2>3, <2>4, <2>5
    <3> QED
      BY <3>1 DEF NoRoom, x
  <2> QED
    BY <2>2, <2>3, <2>4, <2>6, <2>7
<1>7. CASE Left < count
  BY <1>1, <1>2, <1>6, <1>7, FailKeeps
<1>8. CASE ~(Left < count) /\ NoRoom(count)
  BY <1>1, <1>2, <1>6, <1>8, FailKeeps
<1>9. CASE ~(Left < count) /\ ~NoRoom(count)
  <2>1. Take(run, 1 + count)
    BY <1>2, <1>9
  <2> HIDE DEF count, b1
  <2>2. s + (1 + count) <= Len(stream) /\ 1 + count \in Nat
    BY <1>3, <1>4, <1>5, <1>9
  <2>3. run \in Seq(Byte) /\ Len(run) = count /\ \A k \in 1 .. count : run[k] = stream[s + 1 + k]
    <3> DEFINE lo == s + 2
               hi == s + 1 + count
    <3>1. lo \in Nat /\ hi \in Nat /\ lo >= 1 /\ hi <= Len(stream) /\ hi - lo + 1 = count
      BY <1>3, <1>4, <2>2
    <3>2. ASSUME NEW k \in 1 .. count PROVE lo + k - 1 = s + 1 + k /\ k \in 1 .. (hi - lo + 1)
      BY <1>3, <1>4, <3>1
    <3> HIDE DEF lo, hi
    <3>3. SubSeq(stream, lo, hi) \in Seq(Byte) /\ Len(SubSeq(stream, lo, hi)) = hi - lo + 1
      BY <1>3, <1>4, <3>1
    <3>4. \A k \in 1 .. (hi - lo + 1) : SubSeq(stream, lo, hi)[k] = stream[lo + k - 1]
      BY <1>3, <1>4, <3>1
    <3> QED
      BY <3>1, <3>2, <3>3, <3>4 DEF lo, hi
  <2> HIDE DEF run, x
  <2>4. own => /\ x + count <= Len(band)
               /\ \A k \in 1 .. count : run[k] = band[x + k]
               /\ Tokens(stream, band, table, s + (1 + count), x + count, Len(band))
    <3> SUFFICES ASSUME own
                 PROVE  /\ x + count <= Len(band)
                        /\ \A k \in 1 .. count : run[k] = band[x + k]
                        /\ Tokens(stream, band, table, s + (1 + count), x + count, Len(band))
      OBVIOUS
    <3>1. ASSUME NEW k \in 1 .. count PROVE run[k] = band[x + k]
      <4>1. k - 1 \in 0 .. (count - 1) /\ s + 1 + (k - 1) + 1 = s + 1 + k
            /\ x + (k - 1) + 1 = x + k
        BY <1>3, <1>4
      <4>2. At(stream, s + 1 + (k - 1)) = At(band, x + (k - 1))
        BY <1>6, <4>1
      <4>3. stream[s + 1 + k] = band[x + k]
        BY <4>1, <4>2 DEF At
      <4> QED
        BY <2>3, <4>3
    <3>2. s + (1 + count) = s + 1 + count
      BY <1>3, <1>4
    <3> QED
      BY <1>6, <3>1, <3>2
  <2>5. ~NoRoom(Len(run))
    BY <1>9, <2>3
  <2>6. own => /\ Len(out) + Len(run) <= Len(band)
               /\ \A k \in 1 .. Len(run) : run[k] = band[Len(out) + k]
               /\ Tokens(stream, band, table, s + (1 + count), Len(out) + Len(run), Len(band))
    BY <2>3, <2>4 DEF x
  <2> DEFINE n == 1 + count
  <2> HIDE DEF n
  <2>7. /\ n \in Nat /\ Take(run, n) /\ s + n <= Len(stream)
        /\ own => /\ Len(out) + Len(run) <= Len(band)
                  /\ \A k \in 1 .. Len(run) : run[k] = band[Len(out) + k]
                  /\ Tokens(stream, band, table, s + n, Len(out) + Len(run), Len(band))
    BY <2>1, <2>2, <2>6 DEF n
  <2> QED
    BY <1>1, <2>3, <2>5, <2>7, TakeKeeps
<1> QED
  BY <1>7, <1>8, <1>9

(* A match token is read: its bytes, copied one after the other, are the   *)
(* band's.                                                                 *)
LEMMA DecodeMatchKeeps ==
  ASSUME IInv, DecodeMatch
  PROVE  IInv'
<1> DEFINE b1 == At(stream, s)
           b2 == At(stream, s + 1)
           offset == table[MatchIndex(b2)]
           length == MatchLength(b1, b2)
           x == Len(out)
<1>1. /\ phase = "decode" /\ s < Len(stream) /\ IsMatch(b1)
      /\ UNCHANGED <<band, table, cap, raw, pos, lit, stream, own, out_cap>>
  BY DEF DecodeMatch
<1>2. IF Left < 1 THEN Fail("ETRUNCATED")
      ELSE IF offset = 0 \/ offset > Len(out) THEN Fail("EOFFSET")
      ELSE IF NoRoom(length) THEN Fail("EOVERFLOW")
      ELSE Take(Copied(out, offset, length), 2)
  BY DEF DecodeMatch
<1>3. /\ Typed /\ Decoding /\ stream \in Seq(Byte) /\ s \in Nat /\ Len(stream) \in Nat
      /\ x \in Nat /\ Len(band) \in Nat /\ out_cap \in Nat /\ out \in Seq(Byte)
      /\ band \in Seq(Byte) /\ table \in [Slot -> Nat]
  <2>1. Typed /\ Decoding
    BY DEF IInv
  <2> QED
    BY <2>1, Lengths DEF Typed
<1>4. Left = Len(stream) - s - 1 /\ Left \in Int
  BY <1>3 DEF Left
<1>5. ~(Left < 1) => /\ s + 2 <= Len(stream) /\ offset \in Nat /\ length \in Nat
  <2> SUFFICES ASSUME ~(Left < 1) PROVE s + 2 <= Len(stream) /\ offset \in Nat /\ length \in Nat
    OBVIOUS
  <2>1. s + 2 <= Len(stream)
    BY <1>3, <1>4
  <2>2. s + 1 \in 1 .. Len(stream) /\ s + 1 + 1 \in 1 .. Len(stream)
    BY <1>3, <2>1
  <2>3. b1 \in Nat /\ b2 \in Nat
    <3>1. stream[s + 1] \in Byte /\ stream[s + 1 + 1] \in Byte
      BY <1>3, <2>2
    <3>2. \A v \in Byte : v \in Nat
      BY Bytes
    <3>3. b1 \in Byte /\ b2 \in Byte
      BY <3>1 DEF At
    <3> QED
      BY <3>2, <3>3
  <2> HIDE DEF b1, b2
  <2>4. /\ b2 % ENTRIES \in 0 .. (ENTRIES - 1) /\ b2 \div ENTRIES \in Nat
        /\ b1 % LOW \in Nat
    <3>1. ENTRIES \in Nat \ {0} /\ LOW \in Nat \ {0}
      BY Bytes
    <3>2. b1 % LOW \in 0 .. (LOW - 1)
      BY <2>3, <3>1, DivMod
    <3>3. b2 % ENTRIES \in 0 .. (ENTRIES - 1) /\ b2 \div ENTRIES \in Nat
      BY <2>3, <3>1, DivMod
    <3>4. \A v \in 0 .. (LOW - 1) : v \in Nat
      BY <3>1
    <3> QED
      BY <3>2, <3>3, <3>4
  <2>5. MatchIndex(b2) \in Slot
    BY <2>4 DEF MatchIndex, Slot
  <2>6. length \in Nat
    BY <2>4, Bytes DEF MatchLength
  <2> QED
    BY <1>3, <2>1, <2>5, <2>6
<1>6. ASSUME own
      PROVE  /\ ~(Left < 1) /\ offset \in 1 .. x /\ ~NoRoom(length)
             /\ x + length <= Len(band) /\ length \in Nat /\ Same(band, x, offset, length)
             /\ Tokens(stream, band, table, s + 2, x + length, Len(band))
  <2>1. \A c \in Nat : ~LiteralAt(stream, band, s, x, c)
    <3> SUFFICES ASSUME NEW c \in Nat, LiteralAt(stream, band, s, x, c) PROVE FALSE
      OBVIOUS
    <3>1. c \in 1 .. MAX_LITERAL /\ b1 = c - 1
      BY DEF LiteralAt
    <3> HIDE DEF b1
    <3> QED
      BY <1>1, <3>1, Bytes DEF IsMatch
  <2>2. PICK m \in Nat, i \in Nat :
          /\ MatchAt(stream, band, table, s, x, m, i)
          /\ Tokens(stream, band, table, s + 2, x + m, Len(band))
    BY <1>1, <1>6, <2>1, OwnToken
  <2>3. /\ i \in Slot /\ m \in 3 .. MAX_MATCH /\ s + 2 <= Len(stream)
        /\ x + m <= Len(band) /\ table[i] \in 1 .. x /\ Same(band, x, table[i], m)
        /\ b1 = LOW + ((m - 3) % LOW) /\ b2 = ((m - 3) \div LOW) * ENTRIES + i
    BY <2>2 DEF MatchAt
  <2> HIDE DEF b1, b2
  <2>4. length = m /\ MatchIndex(b2) = i
    BY <2>3, MatchBytes
  <2>5. offset = table[i]
    BY <2>4
  <2> HIDE DEF length, offset
  <2>6. out_cap = Len(band)
    BY <1>1, <1>3, <1>6 DEF Decoding
  <2> HIDE DEF x
  <2>7. ~NoRoom(length)
    <3>1. ~(out_cap - x < length)
      BY <1>3, <2>2, <2>3, <2>4, <2>6
    <3> QED
      BY <3>1 DEF NoRoom, x
  <2>8. ~(Left < 1)
    BY <1>3, <1>4, <2>3
  <2> QED
    BY <2>2, <2>3, <2>4, <2>5, <2>7, <2>8
<1> HIDE DEF b1, b2, offset, length
<1>7. CASE Left < 1
  BY <1>1, <1>2, <1>6, <1>7, FailKeeps
<1>8. CASE ~(Left < 1) /\ (offset = 0 \/ offset > Len(out))
  <2>1. ~own
    BY <1>3, <1>6, <1>8
  <2> QED
    BY <1>1, <1>2, <1>8, <2>1, FailKeeps
<1>9. CASE ~(Left < 1) /\ ~(offset = 0 \/ offset > Len(out)) /\ NoRoom(length)
  BY <1>1, <1>2, <1>6, <1>9, FailKeeps
<1>10. CASE ~(Left < 1) /\ ~(offset = 0 \/ offset > Len(out)) /\ ~NoRoom(length)
  <2> DEFINE more == Copied(out, offset, length)
  <2>1. Take(more, 2)
    BY <1>2, <1>10
  <2>2. offset \in 1 .. x /\ length \in Nat /\ s + 2 <= Len(stream)
    BY <1>3, <1>5, <1>10
  <2>3. more \in Seq(Byte) /\ Len(more) = length
    BY <1>3, <2>2, CopiedType
  <2>4. ASSUME own PROVE \A k \in 1 .. length : more[k] = band[x + k]
    <3>1. Heads(out, band, x)
      BY <1>1, <1>3, <2>4 DEF Decoding, Heads
    <3>2. x + length <= Len(band) /\ Same(band, x, offset, length) /\ offset \in 1 .. x
      BY <1>6, <2>4
    <3> HIDE DEF x
    <3>3. Follows(Copied(out, offset, length), band, x, length)
      BY <1>3, <2>2, <3>1, <3>2, CopiedIs
    <3> QED
      BY <3>3 DEF Follows
  <2> HIDE DEF more
  <2>5. own => /\ Len(out) + Len(more) <= Len(band)
               /\ \A k \in 1 .. Len(more) : more[k] = band[Len(out) + k]
               /\ Tokens(stream, band, table, s + 2, Len(out) + Len(more), Len(band))
    BY <1>6, <2>3, <2>4
  <2>6. ~NoRoom(Len(more))
    BY <1>10, <2>3
  <2> QED
    BY <1>1, <2>1, <2>2, <2>3, <2>5, <2>6, TakeKeeps
<1> QED
  BY <1>7, <1>8, <1>9, <1>10

(* The payload is read: no token is left, so that the output is the band.  *)
LEMMA DecodeReturnsKeeps ==
  ASSUME IInv, DecodeReturns
  PROVE  IInv'
<1>1. /\ phase = "decode" /\ s = Len(stream) /\ phase' = "done"
      /\ (rc' = "OK" \/ ~own) /\ own' = own /\ band' = band /\ table' = table /\ cap' = cap
      /\ raw' = raw /\ pos' = pos /\ lit' = lit /\ stream' = stream /\ s' = s
      /\ out' = out /\ out_cap' = out_cap
  BY DEF DecodeReturns
<1>2. Typed /\ Decoding
  BY DEF IInv
<1>3. Typed'
  BY <1>1, <1>2 DEF Typed
<1>4. Encoding'
  BY <1>1 DEF Encoding
<1>5. own => out = band
  <2> SUFFICES ASSUME own PROVE out = band
    OBVIOUS
  <2> DEFINE x == Len(out)
             n == Len(band)
  <2>1. /\ out = SubSeq(band, 1, x) /\ x \in Nat /\ n \in Nat /\ band \in Seq(Byte)
        /\ stream \in Seq(Byte) /\ s \in Nat /\ Tokens(stream, band, table, s, x, n)
    BY <1>1, <1>2, Lengths DEF Decoding, Typed
  <2>2. \A c \in Nat : ~LiteralAt(stream, band, s, x, c)
    <3> HIDE DEF x
    <3> QED
      BY <1>1, <2>1, Bytes DEF LiteralAt
  <2>3. \A m, i \in Nat : ~MatchAt(stream, band, table, s, x, m, i)
    <3> HIDE DEF x
    <3> QED
      BY <1>1, <2>1 DEF MatchAt
  <2>4. \A z \in Nat \X Nat : ~Goes(stream, band, table, <<s, x>>, z)
    <3>1. <<s, x>>[1] = s /\ <<s, x>>[2] = x
      OBVIOUS
    <3> HIDE DEF x
    <3> QED
      BY <2>2, <2>3, <3>1 DEF Goes
  <2>5. x = n
    <3> HIDE DEF x, n
    <3> QED
      BY <2>1, <2>4, TokensNext
  <2>6. SubSeq(band, 1, n) = band
    BY <2>1
  <2> QED
    BY <2>1, <2>5, <2>6
<1>6. Decoding'
  BY <1>1, <1>2, <1>5 DEF Decoding
<1> QED
  BY <1>3, <1>4, <1>6 DEF IInv

-----------------------------------------------------------------------------
(* The invariant holds before the first call.                              *)
LEMMA InitHolds == Init => IInv
<1> SUFFICES ASSUME Init PROVE IInv
  OBVIOUS
<1>1. /\ phase = "idle" /\ band = << >> /\ table = [i \in Slot |-> 0] /\ cap = 0
      /\ raw = 0 /\ pos = 0 /\ lit = 0 /\ stream = << >> /\ own = FALSE
      /\ s = 0 /\ out = << >> /\ out_cap = 0
  BY DEF Init
<1>2. << >> \in Seq(Byte) /\ Len(<< >>) = 0
  OBVIOUS
<1>3. Typed
  <2>1. table \in [Slot -> Nat]
    BY <1>1
  <2>2. band \in Seq(Byte) /\ stream \in Seq(Byte) /\ out \in Seq(Byte)
    BY <1>1, <1>2
  <2>3. /\ cap \in Int /\ raw \in Nat /\ pos \in Nat /\ lit \in Nat /\ s \in Nat
        /\ out_cap \in Nat
    BY <1>1
  <2>4. own \in BOOLEAN /\ phase \in {"idle", "raw", "tokens", "encoded", "decode", "done"}
    BY <1>1
  <2> QED
    BY <2>1, <2>2, <2>3, <2>4 DEF Typed
<1>4. Encoding
  BY <1>1 DEF Encoding
<1>5. Decoding
  BY <1>1, <1>2 DEF Decoding
<1> QED
  BY <1>3, <1>4, <1>5 DEF IInv

(* A step that changes nothing keeps it.                                   *)
LEMMA StutterKeeps == IInv /\ UNCHANGED vars => IInv'
<1> SUFFICES ASSUME IInv, UNCHANGED vars PROVE IInv'
  OBVIOUS
<1>1. /\ phase' = phase /\ band' = band /\ table' = table /\ cap' = cap /\ raw' = raw
      /\ pos' = pos /\ lit' = lit /\ stream' = stream /\ own' = own /\ s' = s /\ out' = out
      /\ out_cap' = out_cap /\ rc' = rc
  BY DEF vars
<1>2. Typed /\ Encoding /\ Decoding
  BY DEF IInv
<1>3. Typed'
  BY <1>1, <1>2 DEF Typed
<1>4. Written' <=> Written
  BY <1>1 DEF Written, Used
<1>5. Thrifty' <=> Thrifty
  BY <1>1 DEF Thrifty, Spent, Longest
<1>6. Used' = Used
  BY <1>1 DEF Used
<1>7. Encoding'
  BY <1>1, <1>2, <1>4, <1>5, <1>6 DEF Encoding
<1>8. Decoding'
  BY <1>1, <1>2 DEF Decoding
<1> QED
  BY <1>3, <1>7, <1>8 DEF IInv

(* Every step keeps it.                                                    *)
LEMMA NextHolds == IInv /\ [Next]_vars => IInv'
<1> SUFFICES ASSUME IInv, [Next]_vars PROVE IInv'
  OBVIOUS
<1>1. CASE Call
  <2>1. \/ \E b \in Upto(Pixels, MaxLen), t \in Tables, short \in {0, 1} :
             encode(b, t, short)
        \/ \E n \in 0 .. (MAX_RAW + 1), str \in Upto(Byte, MaxStream),
              c \in 0 .. (MaxStream + 2), t \in Tables : DecodeOther(n, str, c, t)
        \/ \E code \in {"ETRUNCATED", "EMAGIC"} : RefuseOther(code)
    BY <1>1 DEF Call
  <2> QED
    BY <2>1, EncodeKeeps, DecodeOtherKeeps, RefuseOtherKeeps
<1>2. CASE Step
  BY <1>2, GrowRawKeeps, WriteHeaderKeeps, ScanKeeps, WriteLiteralKeeps, WriteMatchKeeps,
     WriteChecksumKeeps, DecodeOwnKeeps, DecodeMatchKeeps, DecodeLiteralKeeps,
     DecodeReturnsKeeps DEF Step
<1>3. CASE UNCHANGED vars
  BY <1>3, StutterKeeps
<1> QED
  BY <1>1, <1>2, <1>3 DEF Next

(* It holds at all times.                                                  *)
LEMMA Inductive == Spec => []IInv
  BY InitHolds, NextHolds, PTL DEF Spec

(***************************************************************************)
(* For every band, every table and every width of the bit fields: what     *)
(* m2022_codec11_encode wrote, m2022_codec11_decode turns back into the    *)
(* band byte for byte, and its output is a prefix of the band at every     *)
(* turn of its loop.                                                       *)
(***************************************************************************)
THEOREM DecodesToBandHolds == Spec => []DecodesToBand
<1>1. IInv => DecodesToBand
  <2> SUFFICES ASSUME IInv PROVE DecodesToBand
    OBVIOUS
  <2>1. Typed /\ Decoding
    BY DEF IInv
  <2>2. CASE phase = "decode"
    BY <2>1, <2>2 DEF Decoding, DecodesToBand
  <2>3. CASE phase = "done" /\ own /\ rc = "OK"
    <3>1. out = band
      BY <2>1, <2>3 DEF Decoding
    <3>2. SubSeq(band, 1, Len(band)) = band /\ Len(band) <= Len(band)
      BY <2>1 DEF Typed
    <3> QED
      BY <2>3, <3>1, <3>2 DEF DecodesToBand
  <2> QED
    BY <2>2, <2>3 DEF DecodesToBand
<1> QED
  BY <1>1, Inductive, PTL

(***************************************************************************)
(* m2022_codec11_encode_bound bytes are enough for every band and every    *)
(* table: the encoder that flush_band gives such a buffer never returns    *)
(* EOVERFLOW, and the decoder refuses no payload the encoder wrote.        *)
(***************************************************************************)
THEOREM BoundIsEnoughHolds == Spec => []BoundIsEnough
<1>1. IInv => BoundIsEnough
  <2> SUFFICES ASSUME IInv, own, cap >= encode_bound(Len(band)) PROVE rc = "OK"
    BY DEF BoundIsEnough
  <2>1. Typed /\ Encoding /\ Decoding
    BY DEF IInv
  <2>2. phase \in {"idle", "raw", "tokens", "encoded", "decode", "done"}
    BY <2>1 DEF Typed
  <2> QED
    BY <2>1, <2>2 DEF Encoding, Decoding
<1> QED
  BY <1>1, Inductive, PTL

(***************************************************************************)
(* The encoder writes no byte past its buffer, however short that is, and  *)
(* the decoder none past its own, whatever the payload says.               *)
(***************************************************************************)
THEOREM InBufferHolds == Spec => []InBuffer
<1>1. IInv => InBuffer
  BY DEF IInv, Encoding, Decoding, Written, InBuffer
<1> QED
  BY <1>1, Inductive, PTL

(***************************************************************************)
(* At every position the encoder asks about, longest_match, with its cheap *)
(* rejection and its early end, returns the longest match of three bytes   *)
(* or more among all the distances of the table, the first slot on ties,   *)
(* and none only if there is none.                                         *)
(***************************************************************************)
THEOREM PassFindsLongestHolds == Spec => []PassFindsLongest
<1>1. IInv => PassFindsLongest
  <2> SUFFICES ASSUME IInv, phase = "tokens", pos < Len(band)
               PROVE  IF \E i \in Candidates : Length(i) >= 3
                      THEN /\ Longest.index \in Candidates
                           /\ Longest.n = Length(Longest.index)
                           /\ \A i \in Candidates :
                                /\ Length(i) <= Longest.n
                                /\ i < Longest.index => Length(i) < Longest.n
                      ELSE Longest.n = 0
    BY DEF PassFindsLongest
  <2> DEFINE c == Longest
             max == Room(band, pos)
  <2>1. /\ Len(band) \in Nat /\ pos \in 0 .. Len(band) /\ pos \in Nat /\ band \in Seq(Byte)
        /\ table \in [Slot -> Nat]
    BY Lengths DEF IInv, Typed
  <2>2. (c = Nothing /\ max < 3) \/ Found(band, pos, table, max, ENTRIES, c)
    BY <2>1, LongestFinds DEF Longest
  <2>3. max \in Nat
    BY <2>1, RoomIs
  <2>4. \A i \in Slot : /\ Length(i) = LengthAt(band, pos, table, max, i)
                        /\ Length(i) \in Nat /\ Length(i) <= max
    <3> SUFFICES ASSUME NEW i \in Slot
                 PROVE  /\ Length(i) = LengthAt(band, pos, table, max, i)
                        /\ Length(i) \in Nat /\ Length(i) <= max
      OBVIOUS
    <3>1. Length(i) = match_len(band, pos, table[i], max)
      BY DEF Length, Room
    <3>2. table[i] \in Nat
      BY <2>1
    <3> HIDE DEF max
    <3>3. match_len(band, pos, table[i], max) \in 0 .. max
      BY <2>1, <2>3, <3>2, MatchLenIs
    <3> QED
      BY <2>3, <3>1, <3>3 DEF LengthAt
  <2>5. \A i \in Slot : i \in Candidates <=> Usable(table, pos, i)
    BY <2>1 DEF Candidates, Usable
  <2>6. Slot = 0 .. (ENTRIES - 1) /\ Candidates \subseteq Slot
    BY DEF Slot, Candidates
  <2>7. Nothing.n = 0
    BY DEF Nothing
  <2> HIDE DEF c, max, Length, Candidates, Nothing
  <2>8. CASE c = Nothing /\ \A i \in Candidates : Length(i) < 3
    <3>1. ~ \E i \in Candidates : Length(i) >= 3
      BY <2>4, <2>6, <2>8
    <3>2. c.n = 0
      BY <2>7, <2>8
    <3> QED
      BY <3>1, <3>2 DEF c
  <2>9. CASE /\ c.n >= 3 /\ c.index \in 0 .. (ENTRIES - 1) /\ Usable(table, pos, c.index)
             /\ c.n = LengthAt(band, pos, table, max, c.index)
             /\ \A j \in 0 .. (ENTRIES - 1) : Usable(table, pos, j) =>
                  /\ LengthAt(band, pos, table, max, j) <= c.n
                  /\ j < c.index => LengthAt(band, pos, table, max, j) < c.n
    <3>1. c.index \in Candidates /\ c.n = Length(c.index) /\ Length(c.index) >= 3
      BY <2>4, <2>5, <2>6, <2>9
    <3>2. \A i \in Candidates : /\ Length(i) <= c.n
                                /\ i < c.index => Length(i) < c.n
      BY <2>4, <2>5, <2>6, <2>9
    <3> QED
      BY <3>1, <3>2 DEF c
  <2>10. (c = Nothing /\ max < 3) => \A i \in Candidates : Length(i) < 3
    BY <2>3, <2>4, <2>6
  <2>11. (\A j \in 0 .. (ENTRIES - 1) :
            Usable(table, pos, j) => LengthAt(band, pos, table, max, j) < 3)
          => \A i \in Candidates : Length(i) < 3
    BY <2>4, <2>5, <2>6
  <2> QED
    BY <2>2, <2>8, <2>9, <2>10, <2>11 DEF Found
<1> QED
  BY <1>1, Inductive, PTL
=============================================================================
