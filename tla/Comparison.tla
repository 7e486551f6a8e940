------------------------------ MODULE Comparison ------------------------------
(***************************************************************************)
(* Comparisons of long integers (hmpc/core/num/compare.hpp).  At run time  *)
(* they look at all limbs, whatever those are: at the higher ones first    *)
(* for an order, while the result is not determined.  At compile time,     *)
(* where numbers have no sign, they return at the first limbs that differ. *)
(***************************************************************************)
EXTENDS Words

CONSTANT limb_bit_size

VARIABLES
  call,        \* what is compared
  pc,
  i,           \* how many limbs are left
  determined,
  result

vars == <<call, pc, i, determined, result>>

limb_size_for(bits) == (bits + limb_bit_size - 1) \div limb_bit_size

Equalities == {"equal_to", "not_equal_to"}
Orders     == {"greater", "less", "greater_equal", "less_equal"}

\* The functions of the same names on limbs and bits
Compare(op, x, y) ==
  CASE op = "equal_to"      -> x = y
    [] op = "not_equal_to"  -> x # y
    [] op = "greater"       -> x > y
    [] op = "less"          -> x < y
    [] op = "greater_equal" -> x >= y
    [] op = "less_equal"    -> x <= y

Negative(op) ==
  CASE op = "greater"       -> "less"
    [] op = "less"          -> "greater"
    [] op = "greater_equal" -> "less_equal"
    [] op = "less_equal"    -> "greater_equal"

\* What is returned for no limbs.
Default(op) == op \in {"equal_to", "greater_equal", "less_equal"}

\* The numbers of a type, which has a number of bits and may have a sign.  They fit in its limbs.
Operand(x, t) ==
  /\ t.bits \in Nat /\ limb_size_for(t.bits) \in 0..Limbs
  /\ 2^t.bits \in 1 .. B^limb_size_for(t.bits)
  /\ x \in Int
  /\ IF t.signed THEN t.bits > 0 /\ -2^t.bits <= 2 * x /\ 2 * x < 2^t.bits
                 ELSE 0 <= x /\ x < 2^t.bits

Allowed(c) ==
  /\ Operand(c.left, c.left_type) /\ Operand(c.right, c.right_type)
  /\ c.compiletime => ~c.left_type.signed /\ ~c.right_type.signed

Calls ==
  [op : Equalities \cup Orders, left : Int, right : Int, compiletime : BOOLEAN,
   left_type : [bits : Nat, signed : BOOLEAN], right_type : [bits : Nat, signed : BOOLEAN]]

LimbsOf(c) ==
  LET left  == limb_size_for(c.left_type.bits)
      right == limb_size_for(c.right_type.bits)
  IN  IF left < right THEN right ELSE left

Sign(x) == IF x < 0 THEN 1 ELSE 0

SameFullLimbs(c) ==
  c.left_type.bits = c.right_type.bits /\ c.left_type.bits % limb_bit_size = 0

\* Mutant: the sign is not looked at.
initial_result_Unsigned(c) == Default(c.op)

\* The limbs show no sign beyond the last one, so an order begins with that; for equality it
\* matters if the same limbs are possible with a sign and without.
initial_result(c) ==
  CASE /\ c.op \in Equalities /\ ~c.compiletime
       /\ c.left_type.signed # c.right_type.signed /\ SameFullLimbs(c)
         -> Compare(c.op, Sign(c.left), Sign(c.right))
    [] c.op \in Orders /\ (c.left_type.signed \/ c.right_type.signed)
         -> Compare(Negative(c.op), Sign(c.left), Sign(c.right))
    [] OTHER -> Default(c.op)

initial_determined(c) ==
  /\ c.left_type.signed \/ c.right_type.signed
  /\ Sign(c.left) # Sign(c.right)

Init ==
  /\ \E op \in Equalities \cup Orders, compiletime, left_signed, right_signed \in BOOLEAN,
        left_bits, right_bits \in 0 .. Limbs * limb_bit_size, left, right \in Numbers :
       call = [op |-> op, left |-> left, right |-> right, compiletime |-> compiletime,
               left_type  |-> [bits |-> left_bits, signed |-> left_signed],
               right_type |-> [bits |-> right_bits, signed |-> right_signed]]
  /\ Allowed(call)
  /\ pc = "scan"
  /\ i = LimbsOf(call)
  /\ determined = initial_determined(call)
  /\ result = initial_result(call)

Return(b) ==
  /\ result' = b
  /\ pc' = "done"
  /\ UNCHANGED <<call, i, determined>>

\* An order at run time
ScanOrder ==
  /\ pc = "scan" /\ i > 0 /\ call.op \in Orders /\ ~call.compiletime
  /\ LET x == Limb(call.left, i - 1)
         y == Limb(call.right, i - 1)
     IN  /\ result' = IF ~determined /\ x # y THEN Compare(call.op, x, y) ELSE result
         /\ determined' = (determined \/ x # y)
  /\ i' = i - 1
  /\ UNCHANGED <<call, pc>>

\* Equality at run time, from the lowest limb
ScanEquality ==
  /\ pc = "scan" /\ i > 0 /\ call.op \in Equalities /\ ~call.compiletime
  /\ LET k   == LimbsOf(call) - i
         now == Compare(call.op, Limb(call.left, k), Limb(call.right, k))
     IN  result' = IF call.op = "equal_to" THEN result /\ now ELSE result \/ now
  /\ i' = i - 1
  /\ UNCHANGED <<call, pc, determined>>

\* One limb at compile time, from the lowest or, for an order, from the highest one
CompiletimeLimb ==
  /\ pc = "scan" /\ i > 0 /\ call.compiletime
  /\ LET k == IF call.op \in Orders THEN i - 1 ELSE LimbsOf(call) - i
         x == Limb(call.left, k)
         y == Limb(call.right, k)
     IN  IF x # y
         THEN Return(IF call.op \in Orders THEN Compare(call.op, x, y) ELSE ~Default(call.op))
         ELSE i' = i - 1 /\ UNCHANGED <<call, pc, determined, result>>

End ==
  /\ pc = "scan" /\ i = 0
  /\ Return(result)

Next == ScanOrder \/ ScanEquality \/ CompiletimeLimb \/ End

Spec == Init /\ [][Next]_vars

------------------------------------------------------------------------------

TypeOK ==
  /\ call \in Calls
  /\ pc \in {"scan", "done"}
  /\ i \in 0..Limbs
  /\ determined \in BOOLEAN /\ result \in BOOLEAN

\* Limbs show whether numbers are equal, unless just one of them is below zero and the other
\* one, of a type without sign and of another size, has the same limbs.
Distinguishable(c) ==
  \/ c.left_type.signed = c.right_type.signed
  \/ c.left >= 0 /\ c.right >= 0
  \/ SameFullLimbs(c)

\* Comparisons of long integers are those of the numbers (core/num/compare.hpp), whatever their
\* sizes and signs; an equality, where the limbs that it looks at tell the numbers apart.
Ordered ==
  pc = "done" =>
    \/ call.op \in Equalities /\ ~Distinguishable(call)
    \/ result = Compare(call.op, call.left, call.right)

\* The limbs that an equality has looked at are the same.
Alike == LET k == LimbsOf(call) - i
         IN  FirstLimbs(call.left, k) = FirstLimbs(call.right, k)

\* The loops' invariant.  The result of an order is that of the limbs from i on, and whether it
\* is determined; that of an equality is about the limbs below.  At compile time a loop goes on
\* only as long as limbs are the same.
LoopInv ==
  /\ TypeOK /\ Allowed(call)
  /\ pc = "scan" =>
       /\ i <= LimbsOf(call)
       /\ call.op \in Orders =>
            /\ result = Compare(call.op, Subspan(call.left, i), Subspan(call.right, i))
            /\ determined <=> Subspan(call.left, i) # Subspan(call.right, i)
            /\ call.compiletime => ~determined
       /\ call.op \in Equalities =>
            /\ result <=> IF call.op = "equal_to" THEN initial_result(call) /\ Alike
                                                  ELSE initial_result(call) \/ ~Alike
            /\ call.compiletime => Alike
  /\ Ordered
==============================================================================
