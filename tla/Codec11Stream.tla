---------------------------- MODULE Codec11Stream ----------------------------
(***************************************************************************)
(* m2022_codec11_encode and m2022_codec11_decode, loop turn by loop turn.  *)
(* A band is encoded and its payload decoded, or the decoder is given a    *)
(* payload from elsewhere, as `m2022-airbridge decode` gives it any file.  *)
(*                                                                         *)
(* The header's bytes and the checksum are not spelled out: they are       *)
(* counted for the size of the payload, and the raw length and the table   *)
(* are state of their own.                                                 *)
(***************************************************************************)
EXTENDS Codec11

CONSTANTS
  Pixels,    \* bound: the bytes of the bands that are encoded
  MaxLen,    \* bound: their length
  Tables,    \* bound: the tables given to the encoder or found in a payload
  MaxStream  \* bound: the length of a payload from elsewhere

ASSUME Codec11StreamAssumption ==
  /\ Pixels \subseteq Byte /\ MaxLen \in Nat /\ MaxStream \in Nat
  /\ Tables \subseteq [Slot -> Nat]

VARIABLES
  phase,   \* "idle", "raw", "tokens", "encoded", "decode", "done"
  band,    \* the band that is encoded
  table,   \* the 64 distances
  cap,     \* encoder: the size of the payload's buffer
  raw,     \* the length of the raw prefix
  pos,     \* encoder: the band up to here is scanned
  lit,     \* encoder: lit_start, the band up to here is written
  stream,  \* the payload after its header: raw prefix and tokens
  own,     \* the payload is the one the encoder wrote
  s,       \* decoder: the stream up to here is read
  out,     \* decoder: the output
  out_cap, \* decoder: the size of the output buffer
  rc       \* what the call returned

vars == <<phase, band, table, cap, raw, pos, lit, stream, own, s, out,
          out_cap, rc>>

Init ==
  /\ phase = "idle" /\ band = << >> /\ table = [i \in Slot |-> 0] /\ cap = 0
  /\ raw = 0 /\ pos = 0 /\ lit = 0 /\ stream = << >> /\ own = FALSE
  /\ s = 0 /\ out = << >> /\ out_cap = 0 /\ rc = "OK"

-----------------------------------------------------------------------------
(* The encoder is called, with a buffer that is `short` bytes shorter than *)
(* encode_bound.                                                           *)
encode(b, t, short) ==
  /\ phase = "idle"
  /\ phase' = "raw" /\ band' = b /\ table' = t
  /\ cap' = encode_bound(Len(b)) - short
  /\ raw' = Least(Len(b), MIN_RAW)
  /\ pos' = 0 /\ lit' = 0 /\ stream' = << >> /\ own' = TRUE
  /\ s' = 0 /\ out' = << >> /\ out_cap' = 0 /\ rc' = "OK"

Longest == longest_match(band, pos, table)

(* The raw prefix grows until a match starts after it.                     *)
RawGoesOn == /\ raw < Least(Len(band), MAX_RAW)
             /\ longest_match(band, raw, table).n = 0

GrowRaw ==
  /\ phase = "raw" /\ RawGoesOn
  /\ raw' = raw + 1
  /\ UNCHANGED <<phase, band, table, cap, pos, lit, stream, own, s, out,
                 out_cap, rc>>

(* NEED(k): k bytes more, or the call returns EOVERFLOW.                   *)
Used == HEADER_LEN + Len(stream)
Need(k) == cap - Used >= k
Overflow == /\ rc' = "EOVERFLOW" /\ phase' = "done"
            /\ UNCHANGED <<stream, pos, lit>>

Rest == UNCHANGED <<band, table, cap, raw, own, s, out, out_cap>>

WriteHeader ==
  /\ phase = "raw" /\ ~RawGoesOn
  /\ \/ ~Need(raw) /\ Overflow
     \/ /\ Need(raw)
        /\ stream' = SubSeq(band, 1, raw)
        /\ phase' = "tokens" /\ pos' = raw /\ lit' = raw /\ UNCHANGED rc
  /\ Rest

(* Mutant: the position is not advanced.                                   *)
Scan_stuck ==
  /\ phase = "tokens" /\ pos < Len(band) /\ Longest.n = 0
  /\ UNCHANGED vars

(* No match here: the byte joins the literal run.                          *)
Scan ==
  /\ phase = "tokens" /\ pos < Len(band) /\ Longest.n = 0
  /\ pos' = pos + 1
  /\ UNCHANGED <<phase, lit, stream, rc>> /\ Rest

(* The literal run before a match, or at the end, is cut into tokens.      *)
WriteLiteral ==
  LET count == Least(pos - lit, MAX_LITERAL)
  IN  /\ phase = "tokens" /\ lit < pos
      /\ pos < Len(band) => Longest.n > 0
      /\ \/ ~Need(1 + count) /\ Overflow
         \/ /\ Need(1 + count)
            /\ stream' = stream
                 \o LiteralToken(SubSeq(band, lit + 1, lit + count))
            /\ lit' = lit + count /\ UNCHANGED <<phase, pos, rc>>
      /\ Rest

WriteMatch ==
  /\ phase = "tokens" /\ lit = pos /\ pos < Len(band) /\ Longest.n > 0
  /\ \/ ~Need(2) /\ Overflow
     \/ /\ Need(2)
        /\ stream' = stream \o MatchToken(Longest.n, Longest.index)
        /\ pos' = pos + Longest.n /\ lit' = pos' /\ UNCHANGED <<phase, rc>>
  /\ Rest

WriteChecksum ==
  /\ phase = "tokens" /\ pos = Len(band) /\ lit = pos
  /\ \/ ~Need(CHECKSUM_LEN) /\ Overflow
     \/ /\ Need(CHECKSUM_LEN)
        /\ phase' = "encoded" /\ UNCHANGED <<stream, pos, lit, rc>>
  /\ Rest

-----------------------------------------------------------------------------
(* The decoder is called: the checks of the header and the raw prefix.     *)
decode(n, str, cap_) ==
  LET code == IF n > MAX_RAW THEN "ERAWLEN"
              ELSE IF Len(str) < n THEN "ETRUNCATED"
              ELSE IF n > cap_ THEN "EOVERFLOW" ELSE "OK"
  IN  /\ raw' = n /\ stream' = str /\ out_cap' = cap_ /\ rc' = code
      /\ phase' = IF code = "OK" THEN "decode" ELSE "done"
      /\ s' = IF code = "OK" THEN n ELSE 0
      /\ out' = IF code = "OK" THEN SubSeq(str, 1, n) ELSE << >>

(* The payload just encoded, into a buffer of the band's size.             *)
DecodeOwn ==
  /\ phase = "encoded"
  /\ decode(raw, stream, Len(band))
  /\ UNCHANGED <<band, table, cap, pos, lit, own>>

(* Any payload.                                                            *)
DecodeOther(n, str, cap_, t) ==
  /\ phase = "idle"
  /\ decode(n, str, cap_)
  /\ table' = t /\ own' = FALSE
  /\ UNCHANGED <<band, cap, pos, lit>>

(* A payload that is shorter than header and checksum, or does not begin   *)
(* with the magic number in either byte order, is refused unread.          *)
RefuseOther(code) ==
  /\ phase = "idle" /\ code \in {"ETRUNCATED", "EMAGIC"}
  /\ phase' = "done" /\ rc' = code /\ own' = FALSE
  /\ UNCHANGED <<band, table, cap, raw, pos, lit, stream, s, out, out_cap>>

(* Mutant: the room that is left is counted one too large.                 *)
NoRoom_off_by_one(k) == out_cap - Len(out) + 1 < k

(* The output buffer cannot take k bytes more.                             *)
NoRoom(k) == out_cap - Len(out) < k

(* The rest of the stream after the first byte of the token.               *)
Left == Len(stream) - s - 1

(* The decoder returns with what it has so far, or goes on.                *)
Fail(code) == rc' = code /\ phase' = "done" /\ UNCHANGED <<s, out>>
Take(bytes, n) == out' = out \o bytes /\ s' = s + n /\ UNCHANGED <<rc, phase>>

DecodeMatch ==
  LET b1 == At(stream, s)
      b2 == At(stream, s + 1)
      offset == table[MatchIndex(b2)]
      length == MatchLength(b1, b2)
  IN  /\ phase = "decode" /\ s < Len(stream) /\ IsMatch(b1)
      /\ IF Left < 1 THEN Fail("ETRUNCATED")
         ELSE IF offset = 0 \/ offset > Len(out) THEN Fail("EOFFSET")
         ELSE IF NoRoom(length) THEN Fail("EOVERFLOW")
         ELSE Take(Copied(out, offset, length), 2)
      /\ UNCHANGED <<band, table, cap, raw, pos, lit, stream, own, out_cap>>

DecodeLiteral ==
  LET b1 == At(stream, s)
      count == b1 + 1
  IN  /\ phase = "decode" /\ s < Len(stream) /\ ~IsMatch(b1)
      /\ IF Left < count THEN Fail("ETRUNCATED")
         ELSE IF NoRoom(count) THEN Fail("EOVERFLOW")
         ELSE Take(SubSeq(stream, s + 2, s + 1 + count), 1 + count)
      /\ UNCHANGED <<band, table, cap, raw, pos, lit, stream, own, out_cap>>

(* At the end the checksum is compared; the encoder wrote the right one.   *)
DecodeReturns ==
  /\ phase = "decode" /\ s = Len(stream)
  /\ phase' = "done"
  /\ \/ rc' = "OK"
     \/ ~own /\ rc' = "ECHECKSUM"
  /\ UNCHANGED <<band, table, cap, raw, pos, lit, stream, own, s, out, out_cap>>

Step ==
  \/ GrowRaw \/ WriteHeader \/ Scan \/ WriteLiteral \/ WriteMatch
  \/ WriteChecksum \/ DecodeOwn \/ DecodeMatch \/ DecodeLiteral
  \/ DecodeReturns

(* The sequences over S of at most n elements.                             *)
Upto(S, n) == UNION {[1 .. k -> S] : k \in 0 .. n}

Call ==
  /\ phase = "idle"
  /\ \/ \E b \in Upto(Pixels, MaxLen), t \in Tables, short \in {0, 1} :
          encode(b, t, short)
     \/ \E n \in 0 .. (MAX_RAW + 1), str \in Upto(Byte, MaxStream),
           c \in 0 .. (MaxStream + 2), t \in Tables : DecodeOther(n, str, c, t)
     \/ \E code \in {"ETRUNCATED", "EMAGIC"} : RefuseOther(code)

Next == Call \/ Step

(* The loops run: nothing they do waits.                                   *)
Spec == Init /\ [][Next]_vars /\ WF_vars(Step)

-----------------------------------------------------------------------------
(***************************************************************************)
(* The decoder turns the encoder's payload back into the band, whatever    *)
(* the table is: duplicate, useless and zero distances, matches that       *)
(* overlap themselves or are cut at the longest length, literal runs that  *)
(* fill several tokens.  The output is a prefix of the band at all times.  *)
(***************************************************************************)
DecodesToBand ==
  own /\ phase \in {"decode", "done"} /\ rc = "OK" =>
    /\ Len(out) <= Len(band) /\ out = SubSeq(band, 1, Len(out))
    /\ phase = "done" => out = band

(***************************************************************************)
(* A buffer of encode_bound bytes is always enough, so that flush_band,    *)
(* which sizes its buffer with it, never loses a band to EOVERFLOW; and    *)
(* the decoder never refuses what the encoder wrote.                       *)
(***************************************************************************)
BoundIsEnough ==
  own /\ cap >= encode_bound(Len(band)) => rc = "OK"

(***************************************************************************)
(* Neither writes past its buffer: the encoder however short the buffer    *)
(* is, the decoder whatever the payload says.                              *)
(***************************************************************************)
InBuffer ==
  /\ own /\ phase \in {"tokens", "encoded"} => Used <= cap
  /\ phase = "encoded" => Used + CHECKSUM_LEN <= cap
  /\ Len(out) <= out_cap

(***************************************************************************)
(* "Longest match at pos among the table's distances ... the first slot on *)
(* ties": the pass with its cheap rejection finds what comparing all the   *)
(* distances in full would find.                                           *)
(***************************************************************************)
Candidates ==
  {i \in Slot : table[i] \in 1 .. pos}

Length(i) == match_len(band, pos, table[i], Least(Len(band) - pos, MAX_MATCH))

PassFindsLongest ==
  phase = "tokens" /\ pos < Len(band) =>
    IF \E i \in Candidates : Length(i) >= 3
    THEN /\ Longest.index \in Candidates
         /\ Longest.n = Length(Longest.index)
         /\ \A i \in Candidates :
              /\ Length(i) <= Longest.n
              /\ i < Longest.index => Length(i) < Longest.n
    ELSE Longest.n = 0

(* Both calls return, the decoder for any payload: every turn of their     *)
(* loops makes progress.                                                   *)
CodecReturns == phase # "idle" ~> phase = "done"
=============================================================================
