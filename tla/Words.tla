-------------------------------- MODULE Words --------------------------------
(***************************************************************************)
(* Limbs (hmpc/core/uint.hpp) and what the functions of hmpc/core do with  *)
(* one or two of them: sums, differences and products with the carry that  *)
(* goes to the next limb.                                                  *)
(*                                                                         *)
(* A limb is a number below B.  A span of n limbs (hmpc/core/bit_span.hpp, *)
(* limb_span.hpp) is the number that its limbs form, below B^n, and a      *)
(* signed one the number that it means, so that a limb beyond its end is   *)
(* zero or, below zero, all ones, as extended_read has it.                 *)
(***************************************************************************)
EXTENDS Integers

CONSTANTS
  B,      \* 2^bit_size of the type of limbs
  Limbs,  \* no span has more limbs than this
  Numbers \* what operands, and memory that is not initialized, may hold

ASSUME WordAssumption == B \in Nat /\ B >= 2 /\ Limbs \in Nat \ {0}

ASSUME NumberAssumption == Numbers \subseteq Int

\* The laws of exponents, for the exponents that occur.
ASSUME PowerAssumption ==
  /\ B^0 = 1 /\ B^1 = B
  /\ \A k \in 0..Limbs : B^k \in Nat \ {0}
  /\ \A j, k \in 0..Limbs : j + k <= Limbs => B^(j + k) = B^j * B^k

Word == 0 .. B-1
Bit  == {0, 1}

IfBit(b) == IF b THEN 1 ELSE 0

------------------------------------------------------------------------------
\* Spans

Limb(x, k) == (x \div B^k) % B

\* write: only limb k of x changes
Store(x, k, word) == x + (word - Limb(x, k)) * B^k

\* subspan(k), first_limbs(n)
Subspan(x, k)    == x \div B^k
FirstLimbs(x, n) == x % B^n

\* mask: a span that is zero unless its bit is set
Masked(x, bit) == IF bit = 1 THEN x ELSE 0

------------------------------------------------------------------------------
\* Limbs

Plus(l, r)  == (l + r) % B
Minus(l, r) == (l - r) % B
Times(l, r) == (l * r) % B

\* An overflow shows in a sum that is less than its summand.
ExtendedAdd(l, r) ==
  [sum |-> Plus(l, r), carry |-> IfBit(l > Plus(l, r))]

\* Mutant: the overflow that the carry alone brings about is not seen.
ExtendedAddCarry_LastOnly(l, r, carry) ==
  LET left  == Plus(l, carry)
      right == Plus(r, left)
  IN  [sum |-> right, carry |-> IfBit(r > right)]

ExtendedAddCarry(l, r, carry) ==
  LET left  == Plus(l, carry)
      right == Plus(r, left)
  IN  [sum |-> right, carry |-> IfBit(l > left \/ r > right)]

SubtractBorrow(l, r, borrow) ==
  LET right == Plus(r, borrow)
      left  == Minus(l, right)
  IN  [difference |-> left, borrow |-> IfBit(l < left \/ r > right)]

ExtendedMultiply(l, r) == [lower |-> Times(l, r), upper |-> (l * r) \div B]

ExtendedMultiplyAdd(l, r, summand, other) ==
  LET product == ExtendedMultiply(l, r)
      first   == ExtendedAdd(product.lower, summand)
      second  == ExtendedAdd(first.sum, other)
  IN  [lower |-> second.sum,
       upper |-> Plus(Plus(product.upper, first.carry), second.carry)]

MultiplyAdd(l, r, summand, other) == Plus(Times(l, r), Plus(summand, other))

==============================================================================
