--------------------------- MODULE MCCodec11Table ----------------------------
(* A table of two entries, buckets of two positions and a hash with        *)
(* collisions; a band of 12 bytes can credit more distances than the table *)
(* has entries.                                                            *)
EXTENDS Codec11Table

SmallHash == [t \in Byte \X Byte \X Byte |-> (t[1] + t[2] + t[3]) % 2]
TwoColumns == <<2, 4>>
SmallDefault == <<2, 1>>
=============================================================================
