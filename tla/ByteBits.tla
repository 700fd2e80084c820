------------------------------- MODULE ByteBits -------------------------------
(* Bytes and their bits, numbered from 0, as shifts, masks and ^ see them. *)
EXTENDS Naturals, Sequences, FiniteSets

Weight == <<1, 2, 4, 8, 16, 32, 64, 128>>
Bit(b, i) == (b \div Weight[i + 1]) % 2
FromBits(bits) ==
    bits[0] + 2 * bits[1] + 4 * bits[2] + 8 * bits[3]
      + 16 * bits[4] + 32 * bits[5] + 64 * bits[6] + 128 * bits[7]

\* The byte whose bits are set for those members of fn, in order, that are in F.
ByteOf(F, fn) == FromBits([i \in 0 .. 7 |-> IF i < Len(fn) /\ fn[i + 1] \in F THEN 1 ELSE 0])

\* The bytes of a message, one ^ after the other: a bit is set in the result if
\* an odd number of the bytes have it.
Having(s, i) == {k \in DOMAIN s : Bit(s[k], i) = 1}
XorOf(s) == FromBits([i \in 0 .. 7 |-> Cardinality(Having(s, i)) % 2])
=============================================================================
