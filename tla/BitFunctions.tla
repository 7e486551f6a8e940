----------------------------- MODULE BitFunctions -----------------------------
(***************************************************************************)
(* Functions on the bits of long integers: shifts, copies to other sizes,  *)
(* negation, the width of a number and its trailing zeros (shift_left.hpp, *)
(* shift_right.hpp, bit_copy.hpp, negate.hpp, bit_width.hpp and            *)
(* countr_zero.hpp of hmpc/core/num).  They go from limb to limb; shifts   *)
(* and copies may write the span that they read.                           *)
(***************************************************************************)
EXTENDS Words

CONSTANT limb_bit_size   \* B is 2^limb_bit_size

VARIABLES
  call,    \* what is asked for
  pc,
  i,       \* how many limbs are done
  memory,  \* the span that is written, a number
  result   \* a count

vars == <<call, pc, i, memory, result>>

Writers == {"shift_left", "shift_right", "bit_copy", "negate"}
Scans   == {"bit_width", "countr_zero"}

\* The bits of the limb type, and of what it is made of
core_bit_width(limb)   == CHOOSE b \in 0..limb_bit_size : limb < 2^b /\ (b > 0 => 2^(b - 1) <= limb)
core_countr_zero(limb) ==
  IF limb = 0 THEN limb_bit_size
  ELSE CHOOSE b \in 0..limb_bit_size : limb % 2^b = 0 /\ limb % 2^(b + 1) # 0

combined_shift_left(lower, upper, shift) ==
  ((upper * 2^shift) % B) + (lower \div 2^(limb_bit_size - shift))

combined_shift_right(lower, upper, shift) ==
  ((upper * 2^(limb_bit_size - shift)) % B) + (lower \div 2^shift)

------------------------------------------------------------------------------

\* The loops at compile time are those at run time, but the scans return when they know.
Allowed(c) ==
  /\ c.bits <= c.value_limbs * limb_bit_size
  /\ IF c.signed THEN c.bits > 0 /\ c.value \in -2^(c.bits - 1) .. 2^(c.bits - 1) - 1
                 ELSE c.value \in 0 .. 2^c.bits - 1
  /\ c.op = "countr_zero" => ~c.signed
  /\ c.op \notin {"shift_left", "shift_right"} => c.shift = 0
  /\ c.op \in Scans => c.limbs = c.value_limbs /\ ~c.in_place
  /\ c.op = "negate" => ~c.in_place
  /\ c.in_place => c.limbs = c.value_limbs

Init ==
  /\ \E op \in Writers \cup Scans, value \in Numbers, signed, in_place \in BOOLEAN,
        value_limbs, limbs \in 0..Limbs, bits \in 0 .. Limbs * limb_bit_size,
        shift \in 0 .. Limbs * limb_bit_size :
       /\ (bits + limb_bit_size - 1) \div limb_bit_size = value_limbs
       /\ call = [op |-> op, value |-> value, bits |-> bits, value_limbs |-> value_limbs,
                  signed |-> signed, shift |-> shift, limbs |-> limbs,
                  in_place |-> in_place]
  /\ Allowed(call)
  /\ pc = "scan"
  /\ i = 0
  /\ memory = IF call.in_place THEN call.value ELSE 0
  /\ result = 0

\* What limbs are read from; the sign was read before.
Value == IF call.in_place THEN memory ELSE call.value

limb_shift == call.shift \div limb_bit_size
bit_shift  == call.shift % limb_bit_size

\* Mutant: all functions that write begin at the lowest limb.
Index_Ascending == IF call.op = "bit_width" THEN call.limbs - 1 - i ELSE i

\* The number of the limb that is next
Index == IF call.op \in {"shift_left", "bit_width"} THEN call.limbs - 1 - i ELSE i

Written(word) ==
  /\ memory' = Store(memory, Index, word)
  /\ i' = i + 1
  /\ UNCHANGED <<call, pc, result>>

Scanning(op) == pc = "scan" /\ call.op = op /\ i < call.limbs

ShiftLeft ==
  /\ Scanning("shift_left")
  /\ LET current  == Limb(Value, Index - limb_shift)
         previous == IF Index > limb_shift THEN Limb(Value, Index - limb_shift - 1) ELSE 0
     IN  Written(IF Index < limb_shift THEN 0
                 ELSE IF bit_shift = 0 THEN current
                 ELSE combined_shift_left(previous, current, bit_shift))

ShiftRight ==
  /\ Scanning("shift_right")
  /\ LET current == Limb(Value, Index + limb_shift)
         next    == Limb(Value, Index + limb_shift + 1)
     IN  Written(IF bit_shift = 0 THEN current ELSE combined_shift_right(current, next, bit_shift))

BitCopy ==
  /\ Scanning("bit_copy")
  /\ Written(Limb(Value, Index))

\* bit_not; add with a carry follows, see LongAddition.
BitNot ==
  /\ Scanning("negate")
  /\ Written(B - 1 - Limb(Value, Index))

EndNegate ==
  /\ pc = "scan" /\ call.op = "negate" /\ i = call.limbs
  /\ memory' = FirstLimbs(memory + 1, call.limbs)
  /\ pc' = "done"
  /\ UNCHANGED <<call, i, result>>

\* The highest limb that is not the sign's determines the width.
BitWidth ==
  /\ Scanning("bit_width")
  /\ LET limb  == Limb(Value, Index)
         width == core_bit_width(IF Value < 0 THEN B - 1 - limb ELSE limb)
     IN  result' = IF result = 0 /\ width # 0 THEN width + Index * limb_bit_size ELSE result
  /\ i' = i + 1
  /\ UNCHANGED <<call, pc, memory>>

\* Limbs count as long as all limbs before are zero.
CountrZero ==
  /\ Scanning("countr_zero")
  /\ result' = IF result = Index * limb_bit_size
               THEN result + core_countr_zero(Limb(Value, Index)) ELSE result
  /\ i' = i + 1
  /\ UNCHANGED <<call, pc, memory>>

\* A number below zero has one bit more, and no count is above the number of bits.
End ==
  /\ pc = "scan" /\ call.op # "negate" /\ i = call.limbs
  /\ result' = CASE call.op = "bit_width"   -> IF call.value < 0 THEN result + 1 ELSE result
                 [] call.op = "countr_zero" -> IF result > call.bits THEN call.bits ELSE result
                 [] OTHER -> result
  /\ pc' = "done"
  /\ UNCHANGED <<call, i, memory>>

Next == ShiftLeft \/ ShiftRight \/ BitCopy \/ BitNot \/ EndNegate \/ BitWidth \/ CountrZero \/ End

Spec == Init /\ [][Next]_vars

------------------------------------------------------------------------------

TypeOK ==
  /\ Allowed(call)
  /\ pc \in {"scan", "done"} /\ i \in 0..call.limbs
  /\ memory \in Int /\ result \in Nat

\* The lowest limbs of the number times or divided by a power of two, also in place of it,
\* and of its negation
BitsWritten ==
  (pc = "done" /\ call.op \in Writers) =>
    FirstLimbs(memory, call.limbs) =
      FirstLimbs(CASE call.op = "shift_left"  -> call.value * 2^call.shift
                   [] call.op = "shift_right" -> call.value \div 2^call.shift
                   [] call.op = "bit_copy"    -> call.value
                   [] call.op = "negate"      -> -call.value, call.limbs)

HasWidth(n, bits) == IF n < 0 THEN 2 * n >= -2^bits ELSE n < 2^bits

\* The least size in which a number keeps its value, without a bit for the sign of what is not
\* below zero; and the number of times that two divides it.
Counted ==
  pc = "done" =>
    /\ call.op = "bit_width" =>
         result = CHOOSE b \in 0..call.bits :
                    /\ HasWidth(call.value, b)
                    /\ \A c \in 0 .. b-1 : ~HasWidth(call.value, c)
    /\ call.op = "countr_zero" =>
         \A b \in 0..call.bits : (call.value % 2^b = 0) = (b <= result)
==============================================================================
