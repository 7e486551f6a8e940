-------------------------------- MODULE Euclid --------------------------------
(***************************************************************************)
(* The greatest common divisor and the extended Euclidean algorithm of     *)
(* hmpc/core/num/greatest_common_divisor.hpp, with which inverses modulo a *)
(* number are computed (hmpc/ints/numeric.hpp, hmpc/ints/mod.hpp).         *)
(*                                                                         *)
(* Both run while compiling, on numbers without signs that all have the    *)
(* width of the larger operand.  What an operation writes to them loses    *)
(* the bits of its last limb that the width has no room for, or the limbs. *)
(***************************************************************************)
EXTENDS Integers

CONSTANTS
  Greatest,  \* operands are at most that
  MaxBits    \* and their types have at most that many bits

VARIABLES
  call,              \* what is asked for
  pc,
  old_r, r,          \* remainders; u and v in greatest_common_divisor
  old_s, s,          \* coefficients of the left operand, but for their signs
  old_t, t,          \* coefficients of the right operand
  iteration          \* odd or even

vars == <<call, pc, old_r, r, old_s, s, old_t, t, iteration>>

Larger(m, n) == IF m > n THEN m ELSE n

width == Larger(call.left_bits, call.right_bits)

Fit(n) == n % 2^width

\* countr_zero of a number that is not zero
countr_zero(n) == CHOOSE b \in 0..width : n % 2^b = 0 /\ n % 2^(b + 1) # 0

CommonPower ==
  LET left  == countr_zero(call.left)
      right == countr_zero(call.right)
  IN  IF left < right THEN left ELSE right

Init ==
  /\ \E op \in {"greatest_common_divisor", "extended_euclidean"}, left, right \in 0..Greatest,
        left_bits, right_bits \in 0..MaxBits :
       /\ left < 2^left_bits /\ right < 2^right_bits
       /\ call = [op |-> op, left |-> left, right |-> right, left_bits |-> left_bits,
                  right_bits |-> right_bits]
  /\ pc = "call"
  /\ old_r = 0 /\ r = 0 /\ old_s = 0 /\ s = 0 /\ old_t = 0 /\ t = 0
  /\ iteration = FALSE

coefficients == <<old_s, s, old_t, t, iteration>>

------------------------------------------------------------------------------
\* greatest_common_divisor

\* One operand is zero, so the other one is the result.
GcdZero ==
  /\ pc = "call" /\ call.op = "greatest_common_divisor" /\ (call.left = 0 \/ call.right = 0)
  /\ old_r' = IF call.left = 0 THEN call.right ELSE call.left
  /\ pc' = "done"
  /\ UNCHANGED <<call, r, coefficients>>

\* Powers of two are left out.
GcdBegin ==
  /\ pc = "call" /\ call.op = "greatest_common_divisor" /\ call.left # 0 /\ call.right # 0
  /\ old_r' = call.left \div 2^countr_zero(call.left)
  /\ r' = call.right \div 2^countr_zero(call.right)
  /\ pc' = "loop"
  /\ UNCHANGED <<call, coefficients>>

\* The smaller one is subtracted from the larger one, and the difference of two odd numbers is even.
GcdIterate ==
  /\ pc = "loop" /\ call.op = "greatest_common_divisor" /\ old_r # r
  /\ LET u == Larger(old_r, r)
         v == IF old_r < r THEN old_r ELSE r
         difference == Fit(u - v)
     IN  old_r' = difference \div 2^countr_zero(difference) /\ r' = v
  /\ UNCHANGED <<call, pc, coefficients>>

GcdEnd ==
  /\ pc = "loop" /\ call.op = "greatest_common_divisor" /\ old_r = r
  /\ old_r' = Fit(old_r * 2^CommonPower)
  /\ pc' = "done"
  /\ UNCHANGED <<call, r, coefficients>>

------------------------------------------------------------------------------
\* extended_euclidean

Begin ==
  /\ pc = "call" /\ call.op = "extended_euclidean"
  /\ old_r' = call.left /\ r' = call.right
  /\ old_s' = Fit(1) /\ s' = 0
  /\ old_t' = 0 /\ t' = Fit(1)
  /\ pc' = "loop"
  /\ UNCHANGED <<call, iteration>>

Coefficient(old, q, new) == Fit(old + Fit(q * new))

\* divide gives the quotient and leaves the remainder in old_r.  The new coefficients are
\* differences of numbers with different signs, so without signs they are sums.
Iterate ==
  /\ pc = "loop" /\ call.op = "extended_euclidean" /\ r # 0
  /\ LET q == old_r \div r
     IN  /\ old_r' = r /\ r' = old_r % r
         /\ old_s' = s /\ s' = Coefficient(old_s, q, s)
         /\ old_t' = t /\ t' = Coefficient(old_t, q, t)
  /\ iteration' = ~iteration
  /\ UNCHANGED <<call, pc>>

\* Mutant: the signs are mistaken.
IsBelowZero_Swapped(coefficient) == IF iteration THEN coefficient = "t" ELSE coefficient = "s"

\* The coefficient that is below zero
IsBelowZero(coefficient) == IF iteration THEN coefficient = "s" ELSE coefficient = "t"

\* The other operand is added to the coefficient that is below zero.
End ==
  /\ pc = "loop" /\ call.op = "extended_euclidean" /\ r = 0
  /\ old_s' = IF IsBelowZero("s") THEN Fit(call.right - old_s) ELSE old_s
  /\ old_t' = IF IsBelowZero("t") THEN Fit(call.left - old_t) ELSE old_t
  /\ pc' = "done"
  /\ UNCHANGED <<call, old_r, r, s, t, iteration>>

Next == GcdZero \/ GcdBegin \/ GcdIterate \/ GcdEnd \/ Begin \/ Iterate \/ End

Spec == Init /\ [][Next]_vars

------------------------------------------------------------------------------

TypeOK ==
  /\ call.left \in 0..Greatest /\ call.right \in 0..Greatest
  /\ pc \in {"call", "loop", "done"}
  /\ {old_r, r, old_s, s, old_t, t} \subseteq 0 .. 2^width - 1
  /\ iteration \in BOOLEAN

Divides(d, n) == n = 0 \/ (d > 0 /\ n % d = 0)

\* The result divides both operands, and every common divisor divides it.
IsGcd(d) ==
  /\ Divides(d, call.left) /\ Divides(d, call.right)
  /\ \A c \in 1..Greatest : (Divides(c, call.left) /\ Divides(c, call.right)) => Divides(c, d)

GreatestDivisor == pc = "done" => IsGcd(old_r)

\* Signs alternate from one iteration to the next.
Signed(n, negative) == IF negative THEN -n ELSE n

\* Bezout's identity for both remainders in every iteration, with the signs that the loop does
\* not keep: no coefficient has ever been too large for the width.
\* It needs types that have room for one.
Bezout ==
  (pc = "loop" /\ call.op = "extended_euclidean" /\ width > 0) =>
    /\ old_r = Signed(old_s, iteration) * call.left + Signed(old_t, ~iteration) * call.right
    /\ r     = Signed(s, ~iteration) * call.left + Signed(t, iteration) * call.right

\* If both operands are not zero, the coefficients are ones of the greatest common divisor modulo
\* the other operand; so an inverse is one, and it is below the modulus unless that is one.
Coefficients ==
  (pc = "done" /\ call.op = "extended_euclidean" /\ call.left # 0 /\ call.right # 0) =>
    /\ (old_s * call.left - old_r) % call.right = 0
    /\ (old_t * call.right - old_r) % call.left = 0
    /\ (old_r = 1 /\ call.right > 1) => old_s < call.right
==============================================================================
