------------------------------- MODULE BigInts -------------------------------
(***************************************************************************)
(* Integers whose type has a number of bits (hmpc/ints/bigint.hpp and      *)
(* hmpc/ints/numeric.hpp).  The type of a result has more bits than those  *)
(* of the operands, so that it should have room for every value.           *)
(***************************************************************************)
EXTENDS Integers

CONSTANT limb_bit_size

limb_size_for(bits) == (bits + limb_bit_size - 1) \div limb_bit_size

\* The least b with n < 2^b
bit_width(n) == CHOOSE b \in 0..n : n < 2^b /\ (b > 0 => 2^(b - 1) <= n)

Greater(x, y) == IF x > y THEN x ELSE y

\* What write leaves of a number in an object with that many bits.  In an unsigned one the last
\* limb is masked.  In a signed one it is extended if the sign's bit is set; if not, bits above
\* it stay in the limb, and the object is not normal.
Stored(n, bits, signed) ==
  IF bits = 0 THEN 0
  ELSE LET low == n % 2^(limb_size_for(bits) * limb_bit_size)
       IN  IF ~signed THEN low % 2^bits
           ELSE IF (low \div 2^(bits - 1)) % 2 = 1 THEN (low % 2^bits) - 2^bits ELSE low

Big(bits, signed, n) == [bits |-> bits, signed |-> signed, value |-> Stored(n, bits, signed)]

\* The values that a type is for
Values(bits, signed) ==
  IF bits = 0 THEN {0}
  ELSE IF signed THEN -2^(bits - 1) .. 2^(bits - 1) - 1 ELSE 0 .. 2^bits - 1

zero == Big(0, FALSE, 0)
one  == Big(1, FALSE, 1)

------------------------------------------------------------------------------

\* Mutant: no bit for the carry.
plus_bits_NoCarry(l, r) == Greater(l.bits, r.bits)

plus_bits(l, r) ==
  IF l.bits = 0 THEN r.bits ELSE IF r.bits = 0 THEN l.bits ELSE Greater(l.bits, r.bits) + 1

Plus(l, r) == Big(plus_bits(l, r), l.signed \/ r.signed, l.value + r.value)

minus_bits(l, r) == IF r.bits = 0 THEN l.bits ELSE Greater(l.bits, r.bits) + 1

Minus(l, r) == Big(minus_bits(l, r), TRUE, l.value - r.value)

times_bits(l, r) ==
  CASE l.bits = 0 \/ r.bits = 0 -> 0
    [] l.bits = 1 /\ r.bits > 0 -> r.bits
    [] l.bits > 1 /\ r.bits = 1 -> l.bits
    [] OTHER                    -> l.bits + r.bits

\* multiply is for unsigned integers only.
Times(l, r) == Big(times_bits(l, r), FALSE, l.value * r.value)

ShiftLeft(x, shift) ==
  Big(IF x.bits = 0 THEN 0 ELSE x.bits + shift, x.signed, x.value * 2^shift)

ShiftRight(x, shift) ==
  Big(IF x.bits > shift THEN x.bits - shift ELSE 0, x.signed, x.value \div 2^shift)

Negation(x) == Big(IF x.signed THEN x.bits ELSE x.bits + 1, TRUE, -x.value)

Complement(x) == Big(x.bits, x.signed, -x.value - 1)

Quotient(l, r) == Big(l.bits, FALSE, l.value \div r.value)
Modulo(l, r)   == Big(r.bits, FALSE, l.value % r.value)

\* The value's or its negation's bits, as an unsigned integer
Absolute(x) ==
  IF x.signed THEN Big(x.bits, FALSE, IF x.value < 0 THEN Negation(x).value ELSE x.value) ELSE x

\* The explicit conversion, bit_copy
Cast(x, bits, signed) == Big(bits, signed, x.value)

\* bit_width of numeric.hpp, see BitFunctions
Width(x) == IF x.value < 0 THEN bit_width(-x.value - 1) + 1 ELSE bit_width(x.value)
==============================================================================
