------------------------------ MODULE Montgomery ------------------------------
(***************************************************************************)
(* montgomery_reduce of hmpc/core/num/modulo.hpp: the value divided by a   *)
(* power of B, modulo the modulus, without a division.  Every product of   *)
(* two residues, and every conversion of an integer to a residue and back, *)
(* goes through it (hmpc/ints/mod.hpp).                                    *)
(***************************************************************************)
EXTENDS Words

Moduli == Numbers \cap (Nat \ {0})

VARIABLES
  call,     \* what is asked for
  pc,       \* where the function is
  T,        \* the value, and what is added to it so that it becomes divisible
  i,        \* the limb that becomes zero next
  k,        \* the limb that is written next
  m,        \* the multiple of the modulus that makes limb i zero
  carry,    \* what goes to limb k
  result

vars == <<call, pc, T, i, k, m, carry, result>>

TLimbs(c) == c.auxiliary_power + c.limb_size + 1

\* The precondition in the function's comment, and its assertion that the modulus
\* has no leading zero limbs.  "limb_size" is the modulus's.
Allowed(c) ==
  /\ TLimbs(c) <= Limbs
  /\ c.modulus \in B^(c.limb_size - 1) .. B^c.limb_size - 1
  /\ (c.modulus * c.inverse_modulus + 1) % B = 0
  /\ c.value < B^c.auxiliary_power * c.modulus

Calls == [modulus : Moduli, limb_size : 1..Limbs, inverse_modulus : Word,
          auxiliary_power : 1..Limbs, value : Nat]

TypeOK ==
  /\ call \in Calls
  /\ pc \in {"row", "multiply", "done"}
  /\ T \in 0 .. B^TLimbs(call) - 1
  /\ i \in 0..call.auxiliary_power
  /\ k \in 0..TLimbs(call)
  /\ m \in Word
  /\ carry \in Word
  /\ result \in Int

------------------------------------------------------------------------------

Init ==
  /\ \E modulus \in Moduli, size, power \in 1..Limbs, inverse \in Word :
       /\ power + size < Limbs
       /\ \E value \in 0 .. B^power * modulus - 1 :
            /\ call = [modulus |-> modulus, limb_size |-> size, inverse_modulus |-> inverse,
                       auxiliary_power |-> power, value |-> value]
            /\ Allowed(call)
  /\ pc = "row"
  /\ T = call.value
  /\ i = 0 /\ k = 0 /\ m = 0 /\ carry = 0 /\ result = 0

\* The multiple for limb i
Row ==
  /\ pc = "row" /\ i < call.auxiliary_power
  /\ m' = Times(Limb(T, i), call.inverse_modulus)
  /\ k' = i
  /\ carry' = 0
  /\ pc' = "multiply"
  /\ UNCHANGED <<call, T, i, result>>

\* A limb of the modulus, times the multiple, goes into T.
Multiply ==
  /\ pc = "multiply" /\ k < i + call.limb_size
  /\ LET r == ExtendedMultiplyAdd(m, Limb(call.modulus, k - i), Limb(T, k), carry)
     IN  T' = Store(T, k, r.lower) /\ carry' = r.upper
  /\ k' = k + 1
  /\ UNCHANGED <<call, pc, i, m, result>>

\* The carry goes up to T's last limb.
Propagate ==
  /\ pc = "multiply" /\ i + call.limb_size <= k /\ k < TLimbs(call)
  /\ LET r == ExtendedAdd(Limb(T, k), carry)
     IN  T' = Store(T, k, r.sum) /\ carry' = r.carry
  /\ k' = k + 1
  /\ UNCHANGED <<call, pc, i, m, result>>

EndRow ==
  /\ pc = "multiply" /\ k = TLimbs(call)
  /\ i' = i + 1
  /\ pc' = "row"
  /\ UNCHANGED <<call, T, k, m, carry, result>>

\* Mutant: a sum equal to the modulus is not reduced.
Reduce_Greater ==
  /\ pc = "row" /\ i = call.auxiliary_power
  /\ LET S == Subspan(T, call.auxiliary_power)
     IN  result' = FirstLimbs(S - Masked(call.modulus, IfBit(S > call.modulus)),
                              call.limb_size)
  /\ pc' = "done"
  /\ UNCHANGED <<call, T, i, k, m, carry>>

\* The modulus is subtracted at most once; see LongAddition for subtract.
Reduce ==
  /\ pc = "row" /\ i = call.auxiliary_power
  /\ LET S == Subspan(T, call.auxiliary_power)
     IN  result' = FirstLimbs(S - Masked(call.modulus, IfBit(S >= call.modulus)),
                              call.limb_size)
  /\ pc' = "done"
  /\ UNCHANGED <<call, T, i, k, m, carry>>

Next == Row \/ Multiply \/ Propagate \/ EndRow \/ Reduce

Spec == Init /\ [][Next]_vars

------------------------------------------------------------------------------

\* The result is the residue below the modulus, and times R it is congruent to
\* the value: the postcondition in the function's comment, and what mod needs,
\* whose equality compares representations.
Postcondition ==
  pc = "done" =>
    /\ result \in 0 .. call.modulus - 1
    /\ (result * B^call.auxiliary_power - call.value) % call.modulus = 0

\* No carry gets lost at T's last limb, which is there for that purpose.
NoOverflow == (pc = "multiply" /\ k = TLimbs(call)) => carry = 0

\* The loops' invariant.  T is the value plus a multiple of the modulus that makes
\* its i lowest limbs zero; during a row the part of the next multiple's limbs that
\* is not in T is the carry's.
LoopInv ==
  /\ TypeOK /\ Allowed(call)
  /\ pc # "done" =>
       \E multiple \in 0 .. B^i - 1 :
         LET base == call.value + multiple * call.modulus
         IN  /\ base % B^i = 0
             /\ pc = "row" => T = base
             /\ pc = "multiply" =>
                  /\ i < call.auxiliary_power /\ i <= k
                  /\ m = Times(Limb(base, i), call.inverse_modulus)
                  /\ T + carry * B^k = base + (m * B^i) * FirstLimbs(call.modulus, k - i)

==============================================================================
