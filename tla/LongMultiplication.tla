-------------------------- MODULE LongMultiplication --------------------------
(***************************************************************************)
(* multiply of hmpc/core/num/multiply.hpp: one row for every limb of the   *)
(* right operand, added to an intermediate that is not initialized.        *)
(*                                                                         *)
(* The intermediate is as long as the result, or shorter if the operands   *)
(* have fewer bits: then the product fits into it.  A result that is too   *)
(* short for the product gets its lowest limbs.                            *)
(***************************************************************************)
EXTENDS Words

VARIABLES
  call,           \* what is asked for
  pc,             \* where the function is
  intermediate,
  i,              \* the row, a limb of the right operand
  k,              \* the limb that is written next
  carry,          \* what goes to it
  result

vars == <<call, pc, intermediate, i, k, carry, result>>

Least(x, y) == IF x < y THEN x ELSE y

\* The sizes are numbers of limbs.
Allowed(c) ==
  /\ c.left < B^c.left_size /\ c.right < B^c.right_size
  /\ c.size <= c.result_size /\ c.size <= c.left_size + c.right_size
  /\ c.size = c.result_size \/ c.left * c.right < B^c.size

Calls == [left : Nat, right : Nat, left_size : 0..Limbs, right_size : 0..Limbs,
          size : 0..Limbs, result_size : 0..Limbs]

right_overlap == Least(call.size, call.right_size)

left_overlap == Least(call.size - i, call.left_size)

TypeOK ==
  /\ call \in Calls
  /\ pc \in {"row", "column", "done"}
  /\ intermediate \in 0 .. B^call.size - 1
  /\ i \in 0..right_overlap
  /\ k \in 0..call.size
  /\ carry \in Word
  /\ result \in 0 .. B^call.result_size - 1

------------------------------------------------------------------------------

\* A right operand without limbs leaves the intermediate as it is.  At run time there
\* is no room in the result then (bigint), or no such operand (mod).  At compile time
\* a digit of a quotient may be such an operand, and the intermediate starts as zero.
Init ==
  /\ \E left, right \in Numbers \cap Nat, n, r, size, result_size \in 0..Limbs :
       /\ call = [left |-> left, right |-> right, left_size |-> n, right_size |-> r,
                  size |-> size, result_size |-> result_size]
       /\ Allowed(call)
  /\ \E garbage \in Numbers : intermediate = FirstLimbs(garbage, call.size)
  /\ right_overlap = 0 => intermediate = 0
  /\ pc = "row" /\ i = 0 /\ k = 0 /\ carry = 0 /\ result = 0

Row ==
  /\ pc = "row" /\ i < right_overlap
  /\ k' = i
  /\ carry' = 0
  /\ pc' = "column"
  /\ UNCHANGED <<call, intermediate, i, result>>

\* Mutant: the first row, too, reads the intermediate.
Current_Memory == Limb(intermediate, k)

\* The first row takes the intermediate as zero.
Current == IF i = 0 THEN 0 ELSE Limb(intermediate, k)

\* The result's last limb has no next one to carry to.
Column ==
  /\ pc = "column" /\ k < i + left_overlap
  /\ LET left  == Limb(call.left, k - i)
         right == Limb(call.right, i)
     IN  IF k + 1 < call.result_size
         THEN LET r == ExtendedMultiplyAdd(left, right, Current, carry)
              IN  intermediate' = Store(intermediate, k, r.lower) /\ carry' = r.upper
         ELSE /\ intermediate' =
                   Store(intermediate, k, MultiplyAdd(left, right, Current, carry))
              /\ carry' = 0
  /\ k' = k + 1
  /\ UNCHANGED <<call, pc, i, result>>

\* The carry goes to the first limb that earlier rows have not written.
EndRow ==
  /\ pc = "column" /\ k = i + left_overlap
  /\ intermediate' = IF call.size > call.left_size + i
                     THEN Store(intermediate, call.left_size + i, carry)
                     ELSE intermediate
  /\ i' = i + 1
  /\ pc' = "row"
  /\ UNCHANGED <<call, k, carry, result>>

\* Copied only now, as the result's memory may be an operand's; limbs that the
\* intermediate does not have are zero.
Copy ==
  /\ pc = "row" /\ i = right_overlap
  /\ result' = intermediate
  /\ pc' = "done"
  /\ UNCHANGED <<call, intermediate, i, k, carry>>

Next == Row \/ Column \/ EndRow \/ Copy

Spec == Init /\ [][Next]_vars

------------------------------------------------------------------------------

\* The result has the product's limbs, as many as there is room for: nothing of the
\* intermediate's memory shows, and no carry that the result has room for is lost.
Product ==
  pc = "done" => result = FirstLimbs(call.left * call.right, call.result_size)

\* The limbs of the intermediate that the rows before row i have written
Written == Least(call.size, call.left_size + i)

\* Equal in the limbs that the intermediate has
Congruent(x, y) == (y - x) % B^call.size = 0

\* What the rows up to this one have come to, and what this row's part of it is:
\* in the first row, only the limbs written so far count.
Sum  == FirstLimbs(intermediate, IF i = 0 THEN k ELSE Written)
Part == FirstLimbs(call.left, k - i) * Limb(call.right, i)

\* The loops' invariant: what is written is the product of the left operand and the
\* right one's lower limbs; during a row, those of the left operand's limbs that it
\* has come to have been multiplied by one limb more.
LoopInv ==
  /\ TypeOK /\ Allowed(call)
  /\ right_overlap = 0 => intermediate = 0
  /\ (pc = "row" /\ i > 0) =>
       Congruent(FirstLimbs(intermediate, Written), call.left * FirstLimbs(call.right, i))
  /\ pc = "column" =>
       /\ i < right_overlap /\ i <= k /\ k <= Written
       /\ Congruent(Sum + carry * B^k,
                    call.left * FirstLimbs(call.right, i) + Part * B^i)

==============================================================================
