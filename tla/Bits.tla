-------------------------------- MODULE Bits -------------------------------
(* Integers and bytes as the sets of their 1 bits, bit 0 the least, and the *)
(* fields that lie across bytes.                                           *)
EXTENDS Integers

CONSTANT BYTE       \* bits of a byte

(* The w bits from bit f of memory on, most significant first, or, little  *)
(* endian, least significant first.                                        *)
FieldOf(byteAt(_), little, f, w) ==
  LET one(p) == (IF little THEN p % BYTE ELSE BYTE - 1 - (p % BYTE)) \in byteAt(p \div BYTE)
  IN {k \in 0..(w - 1) : one(IF little THEN f + k ELSE f + w - 1 - k)}
=============================================================================
