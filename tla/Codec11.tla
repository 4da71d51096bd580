------------------------------- MODULE Codec11 -------------------------------
(***************************************************************************)
(* Band compression 0x11 (src/qpdl/codec11.c): the operators the encoder,  *)
(* the decoder and the choice of the distance table are made of.           *)
(*                                                                         *)
(* A payload is a header (magic, raw length, table of distances), a raw    *)
(* prefix of the band, tokens, and a checksum.  The widths of the token's  *)
(* bit fields are parameters: a match token has a flag, a low part and a   *)
(* high part of the length and an index into the table, packed into two    *)
(* bytes as b1 = flag, low and b2 = high, index.                           *)
(***************************************************************************)
EXTENDS Integers, Sequences

CONSTANTS
  LOW,          \* 128: values of the low part of a length; also the flag
  HIGH,         \* 4: values of the high part
  ENTRIES,      \* M2022_CODEC11_TABLE_ENTRIES, 64
  MIN_RAW,      \* M2022_CODEC11_MIN_RAW, 64
  MAX_RAW,      \* M2022_CODEC11_MAX_RAW, 128
  MAX_LITERAL,  \* M2022_CODEC11_MAX_LITERAL, 128
  HEADER_LEN,   \* M2022_CODEC11_HEADER_LEN, 136
  CHECKSUM_LEN  \* M2022_CODEC11_CHECKSUM_LEN, 4

ASSUME Codec11Assumption ==
  /\ LOW \in Nat \ {0} /\ HIGH \in Nat \ {0} /\ ENTRIES \in Nat \ {0}
  /\ MIN_RAW \in Nat /\ MAX_RAW \in Nat /\ MIN_RAW <= MAX_RAW
  /\ MAX_LITERAL \in 1 .. LOW
  /\ HEADER_LEN \in Nat /\ CHECKSUM_LEN \in Nat
  /\ HIGH * ENTRIES = 2 * LOW                  \* b1 and b2 are equally wide

MAX_MATCH == 3 + LOW * HIGH - 1               \* M2022_CODEC11_MAX_MATCH, 514

Byte == 0 .. (2 * LOW - 1)

Slot == 0 .. (ENTRIES - 1)

Least(a, b) == IF a < b THEN a ELSE b

(* Byte k of a band or a buffer, counted from 0 as in the code.            *)
At(b, k) == b[k + 1]

(* Mutant: the count bytes of the literal runs are forgotten.              *)
encode_bound_uncounted(len) == HEADER_LEN + len + CHECKSUM_LEN

(* m2022_codec11_encode_bound                                              *)
encode_bound(len) ==
  HEADER_LEN + len + (len + MAX_LITERAL - 1) \div MAX_LITERAL + CHECKSUM_LEN

-----------------------------------------------------------------------------
(* match_len: how many bytes, at most max, are the same at pos and at      *)
(* distance d before it.  The two stretches may overlap.                   *)
match_len(b, pos, d, max) ==
  CHOOSE n \in 0 .. max :
    /\ \A k \in 0 .. (n - 1) : At(b, pos + k) = At(b, pos + k - d)
    /\ n < max => At(b, pos + n) # At(b, pos + n - d)

(* Mutant: every candidate after the first match is rejected.              *)
Rejected_eagerly(b, pos, d, best) ==
  IF best > 0 THEN TRUE
  ELSE \E k \in 0 .. 2 : At(b, pos + k - d) # At(b, pos + k)

(* The cheap rejection of longest_match: a distance can only win if it     *)
(* matches where the best one so far stopped.                              *)
Rejected(b, pos, d, best) ==
  IF best > 0 THEN At(b, pos + best - d) # At(b, pos + best)
  ELSE \E k \in 0 .. 2 : At(b, pos + k - d) # At(b, pos + k)

(* longest_match: a pass over the slots of the table that keeps the best   *)
(* match so far and ends when there can be no better one.                  *)
longest_match(b, pos, table) ==
  LET max == Least(Len(b) - pos, MAX_MATCH)
      None == [n |-> 0, index |-> 0]
      best[i \in 0 .. ENTRIES] ==
        IF i = 0 THEN None
        ELSE LET c == best[i - 1]
                 d == table[i - 1]
                 n == match_len(b, pos, d, max)
             IN  IF d = 0 \/ d > pos \/ c.n = max THEN c
                 ELSE IF Rejected(b, pos, d, c.n) THEN c
                 ELSE IF n > c.n THEN [n |-> n, index |-> i - 1] ELSE c
  IN  IF max < 3 \/ best[ENTRIES].n < 3 THEN None ELSE best[ENTRIES]

-----------------------------------------------------------------------------
(* Mutant: the high part of the length is lost.                            *)
MatchToken_short(m, index) == <<LOW + ((m - 3) % LOW), index>>

(* The two bytes of a match, and of a literal run the count and the bytes. *)
MatchToken(m, index) ==
  <<LOW + ((m - 3) % LOW), ((m - 3) \div LOW) * ENTRIES + index>>

LiteralToken(bytes) == <<Len(bytes) - 1>> \o bytes

(* How the decoder takes a match token apart.                              *)
IsMatch(b1) == b1 >= LOW
MatchLength(b1, b2) == (b1 % LOW) + (b2 \div ENTRIES) * LOW + 3
MatchIndex(b2) == b2 % ENTRIES

(* length bytes copied from offset bytes back, one after the other: where  *)
(* they overlap, the last offset bytes repeat.                             *)
Copied(buf, offset, length) ==
  [k \in 1 .. length |-> At(buf, Len(buf) - offset + ((k - 1) % offset))]
=============================================================================
