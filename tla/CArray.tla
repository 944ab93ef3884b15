------------------------------- MODULE CArray -------------------------------
(***************************************************************************)
(* Byte arrays (common/types.h) and the shifts and masks by which the      *)
(* protocol data units of libserver/ put numbers into them.  A CArray is a *)
(* sequence of 0 .. 255; c[i] of the code is c[i + 1] here.  A left shift  *)
(* is a product, a right shift a \div and a mask of the low bits a %.      *)
(***************************************************************************)
EXTENDS Integers, Sequences

Byte == 0 .. 255

\* (c[i] << 8) | c[i+1]
U16(c, i) == 256 * c[i] + c[i + 1]

\* (w >> 8) & 0xff, w & 0xff
B16(w) == <<(w \div 256) % 256, w % 256>>

\* The value of a 16 bit pattern in an int16_t.
S16(w) == IF w >= 32768 THEN w - 65536 ELSE w

\* One bit of a byte: c & m for m a power of two.
Bit(b, m) == (b \div m) % 2 = 1

\* cond ? m : 0
Flag(cond, m) == IF cond THEN m ELSE 0

\* set (c.data() + i - 1, c.size() - i + 1): the rest of the array.
From(c, i) == SubSeq(c, i, Len(c))

\* resize (n): a new array of n bytes, all zero.
Zeros(n) == [i \in 1 .. n |-> 0]
=============================================================================
