----------------------------- MODULE LongAddition -----------------------------
(***************************************************************************)
(* add and subtract of hmpc/core/num/: a loop over the limbs of the        *)
(* result, from the lowest to the highest, that hands a carry on.          *)
(*                                                                         *)
(* Callers give the result's memory as an operand, too (the nonce of       *)
(* comp/queue.hpp, mod::operator+ of ints/mod.hpp), so spans are names of  *)
(* places in a memory, and a limb is written before the next ones are      *)
(* read.                                                                   *)
(***************************************************************************)
EXTENDS Words

\* Places in memory: the result's, and those of two operands that are elsewhere
Result == "result"
Places == {Result, "left", "right"}

VARIABLES
  memory,   \* the number at each place
  call,     \* what is asked for
  i,        \* the limb that comes next
  carry     \* the carry or borrow that goes to it

vars == <<memory, call, i, carry>>

\* "left" and "right" are the places of the operands; "operands" keeps what was
\* there at first and is not part of the code.
Calls == [function : {"add", "subtract"}, left : Places, right : Places,
          limb_size : 0..Limbs, carry : Bit, operands : Int \X Int]

TypeOK ==
  /\ memory \in [Places -> Int]
  /\ call \in Calls
  /\ i \in 0..call.limb_size
  /\ carry \in Bit

------------------------------------------------------------------------------

Init ==
  /\ memory \in [Places -> Numbers]
  /\ \E left, right \in Places, function \in {"add", "subtract"},
        size \in 0..Limbs, bit \in Bit :
       /\ memory[Result] \in 0 .. B^size - 1
       /\ call = [function |-> function, left |-> left, right |-> right,
                  limb_size |-> size, carry |-> bit,
                  operands |-> <<memory[left], memory[right]>>]
  /\ i = 0
  /\ carry = call.carry

Left  == Limb(memory[call.left], i)
Right == Limb(memory[call.right], i)

\* Mutant: one limb too many.
Add_OneMore ==
  /\ call.function = "add"
  /\ i <= call.limb_size
  /\ LET r == ExtendedAddCarry(Left, Right, carry)
     IN  /\ memory' = [memory EXCEPT ![Result] = Store(@, i, r.sum)]
         /\ carry' = r.carry
  /\ i' = i + 1
  /\ UNCHANGED call

Add ==
  /\ call.function = "add"
  /\ i < call.limb_size
  /\ LET r == ExtendedAddCarry(Left, Right, carry)
     IN  /\ memory' = [memory EXCEPT ![Result] = Store(@, i, r.sum)]
         /\ carry' = r.carry
  /\ i' = i + 1
  /\ UNCHANGED call

Subtract ==
  /\ call.function = "subtract"
  /\ i < call.limb_size
  /\ LET r == SubtractBorrow(Left, Right, carry)
     IN  /\ memory' = [memory EXCEPT ![Result] = Store(@, i, r.difference)]
         /\ carry' = r.borrow
  /\ i' = i + 1
  /\ UNCHANGED call

Next == Add \/ Subtract

Spec == Init /\ [][Next]_vars

------------------------------------------------------------------------------

\* At the end the result and the carry are the sum of the operands' limbs, or
\* the result and the borrow their difference, also when the result took the
\* place of an operand.
Sums ==
  i = call.limb_size =>
    LET left  == FirstLimbs(call.operands[1], i)
        right == FirstLimbs(call.operands[2], i)
    IN  IF call.function = "add"
        THEN memory[Result] + carry * B^i = left + right + call.carry
        ELSE memory[Result] - carry * B^i = left - right - call.carry

\* The loop's invariant: below limb i there is the sum so far, from there on the
\* operands are still what they were.
LoopInv ==
  /\ TypeOK
  /\ memory[Result] \in 0 .. B^call.limb_size - 1
  /\ Subspan(memory[call.left], i) = Subspan(call.operands[1], i)
  /\ Subspan(memory[call.right], i) = Subspan(call.operands[2], i)
  /\ LET left  == FirstLimbs(call.operands[1], i)
         right == FirstLimbs(call.operands[2], i)
         done  == FirstLimbs(memory[Result], i)
     IN  IF call.function = "add"
         THEN done + carry * B^i = left + right + call.carry
         ELSE done - carry * B^i = left - right - call.carry

==============================================================================
