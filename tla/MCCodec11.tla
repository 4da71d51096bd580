------------------------------ MODULE MCCodec11 ------------------------------
(* Tokens of two bits a byte: a flag and one low bit, one high bit and an  *)
(* index into two distances.  The longest match is 6 bytes, the longest    *)
(* literal run 2, and a band of 9 exceeds both; the farther distance can   *)
(* match beyond where the nearer one stops.                                *)
EXTENDS Codec11Stream

AllTables == [0 .. 1 -> {0, 1, 2, 5}]
=============================================================================
