------------------------------ MODULE Arithmetic ------------------------------
(***************************************************************************)
(* Expressions of integers with types (hmpc/ints/bigint.hpp): operators    *)
(* are applied one after the other, and every intermediate result has the  *)
(* type that its operator gives it.                                        *)
(***************************************************************************)
EXTENDS BigInts

CONSTANT
  MaxBits   \* no result of an expression has more bits

VARIABLES
  x,      \* the intermediate result
  exact   \* what it would be without types

vars == <<x, exact>>

\* Operands of all small types.  There are no signed objects without bits.
Operands ==
  (UNION {{Big(bits, signed, n) : n \in Values(bits, signed)}
          : bits \in 0..3, signed \in BOOLEAN}) \ {Big(0, TRUE, 0)}

Init ==
  /\ x \in Operands
  /\ exact = x.value

\* Of a type with a sign and one without, the signed one has more bits.  Otherwise the result's
\* type lacks a bit, since the unsigned one needs one more to be signed.
HasRoom(y) ==
  \/ x.signed = y.signed
  \/ x.signed /\ y.bits < x.bits
  \/ y.signed /\ x.bits < y.bits

Apply(result, n) ==
  /\ result.bits <= MaxBits
  /\ result.signed => result.bits > 0
  /\ x' = result
  /\ exact' = n

Add(y)      == HasRoom(y) /\ Apply(Plus(x, y), exact + y.value)

\* An unsigned integer without bits is subtracted from signed ones only.
Subtract(y) == HasRoom(y) /\ (y.bits = 0 => x.signed) /\ Apply(Minus(x, y), exact - y.value)
Multiply(y) == ~x.signed /\ ~y.signed /\ Apply(Times(x, y), exact * y.value)
Divide(y)   == ~x.signed /\ ~y.signed /\ y.value # 0 /\ Apply(Quotient(x, y), exact \div y.value)
Reduce(y)   == ~x.signed /\ ~y.signed /\ y.value # 0 /\ Apply(Modulo(x, y), exact % y.value)

Left(shift)  == Apply(ShiftLeft(x, shift), exact * 2^shift)
Right(shift) == Apply(ShiftRight(x, shift), exact \div 2^shift)

\* The least signed number has no negation of its own type.
Negate == (x.signed => x.value # -2^(x.bits - 1)) /\ Apply(Negation(x), -exact)
Invert == x.signed /\ Apply(Complement(x), -exact - 1)
Abs    == Apply(Absolute(x), IF exact < 0 THEN -exact ELSE exact)

\* Conversions to types that have the value.
Convert(bits, signed) ==
  /\ bits > 0 /\ x.value \in Values(bits, signed)
  /\ Apply(Cast(x, bits, signed), exact)

Next ==
  \/ \E y \in Operands : Add(y) \/ Subtract(y) \/ Multiply(y) \/ Divide(y) \/ Reduce(y)
  \/ \E shift \in 0..3 : Left(shift) \/ Right(shift)
  \/ Negate \/ Invert \/ Abs
  \/ \E bits \in 1..MaxBits, signed \in BOOLEAN : Convert(bits, signed)

Spec == Init /\ [][Next]_vars

------------------------------------------------------------------------------

TypeOK == x.bits \in 0..MaxBits /\ x.signed \in BOOLEAN /\ x.value \in Values(x.bits, x.signed)

\* Expressions have the value that they have for integers, and objects are normal.
Exact == x.value = exact
==============================================================================
