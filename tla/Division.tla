------------------------------- MODULE Division -------------------------------
(***************************************************************************)
(* divide of hmpc/core/num/divide.hpp, with divide_normalized and          *)
(* divide_similar_sized: long division, limb by limb.                      *)
(*                                                                         *)
(* The denominator is shifted until its highest bit is the highest bit of  *)
(* a limb.  Then a digit of the quotient that is estimated from the upper  *)
(* two limbs is too large by at most two.                                  *)
(*                                                                         *)
(* divide_normalized calls itself last, with what is left of the           *)
(* numerator: here that is the next round.  The memory of the remainder    *)
(* may be the numerator's; it is written when the numerator has been read. *)
(***************************************************************************)
EXTENDS Words

\* bit_size of the type of limbs
Bits == CHOOSE n \in 1..B : 2^n = B

VARIABLES
  call,          \* what is asked for
  pc,            \* where the functions are
  numerator,     \* what is left of the shifted numerator
  window,        \* the quotient's limbs that are not there yet are those below
  offset,        \* limb of the quotient that is looked for
  part,          \* numerator of divide_similar_sized
  over,          \* how many calls of it, each with B for the quotient, are open
  q,             \* the estimate
  corrections,   \* how often it has been corrected
  intermediate,  \* its product with the denominator
  quotient,
  remainder

vars == <<call, pc, numerator, window, offset, part, over, q, corrections, intermediate,
          quotient, remainder>>

------------------------------------------------------------------------------
\* Sizes

bit_width(x) == CHOOSE n \in 0 .. Bits*Limbs : x < 2^n /\ (n > 0 => 2^(n-1) <= x)

limb_size_for(n) == (n + Bits - 1) \div Bits

Size(x) == limb_size_for(bit_width(x))

\* How far the denominator is from filling its last limb
Shift(d) == (Bits - (bit_width(d) % Bits)) % Bits

Scale       == 2^Shift(call.denominator)
denominator == call.denominator * Scale

\* The span of x's limbs from `from` on, below `to`, gets a value.
Put(x, from, to, value) ==
  IF from < to
  THEN FirstLimbs(x, from) + FirstLimbs(value, to - from) * B^from + Subspan(x, to) * B^to
  ELSE x

Least(x, y) == IF x < y THEN x ELSE y

\* A quotient has the numerator's type, or is the null span.  There must be a limb for
\* what is shifted out of the numerator, and one for the estimate's product.
Allowed(c) ==
  /\ c.denominator # 0
  /\ c.numerator < B^(Limbs-1) /\ c.denominator < B^(Limbs-1)
  /\ c.quotient_size > 0 => c.numerator < B^c.quotient_size

Calls == [numerator : Numbers \cap Nat, denominator : Numbers \cap Nat,
          quotient_size : 0..Limbs-1]

TypeOK ==
  /\ call \in Calls
  /\ pc \in {"start", "normalized", "similar", "correct", "shift", "done", "failed"}
  /\ {numerator, part, intermediate, remainder} \subseteq 0 .. B^Limbs - 1
  /\ window \in 0..Limbs /\ offset \in 0..Limbs /\ over \in Nat
  /\ q \in Word /\ corrections \in 0..2
  /\ quotient \in 0 .. B^call.quotient_size - 1

------------------------------------------------------------------------------

Init ==
  /\ call \in Calls /\ Allowed(call)
  /\ \E garbage \in {0, -1} : quotient = FirstLimbs(garbage, call.quotient_size)
  /\ pc = "start"
  /\ numerator = 0 /\ window = 0 /\ offset = 0 /\ part = 0 /\ over = 0 /\ q = 0
  /\ corrections = 0 /\ intermediate = 0 /\ remainder = 0

Normalize ==
  /\ pc = "start"
  /\ numerator' = call.numerator * Scale
  /\ window' = call.quotient_size
  /\ pc' = "normalized"
  /\ UNCHANGED <<call, offset, part, over, q, corrections, intermediate, quotient, remainder>>

\* The rest of the quotient is zero or one.
Short(digit) ==
  /\ quotient' = Put(quotient, 0, window, digit)
  /\ remainder' = numerator - digit * denominator
  /\ pc' = "shift"
  /\ UNCHANGED <<call, numerator, window, offset, part, over, q, corrections, intermediate>>

Zero ==
  /\ pc = "normalized" /\ Size(numerator) <= Size(denominator)
  /\ numerator < denominator
  /\ Short(0)

One ==
  /\ pc = "normalized" /\ Size(numerator) <= Size(denominator)
  /\ numerator >= denominator
  /\ Short(1)

\* The upper limbs, one more than the denominator has, are divided first.
Upper ==
  /\ pc = "normalized" /\ Size(numerator) > Size(denominator)
  /\ offset' = Size(numerator) - Size(denominator) - 1
  /\ part' = Subspan(numerator, offset')
  /\ pc' = "similar"
  /\ UNCHANGED <<call, numerator, window, over, q, corrections, intermediate, quotient,
                 remainder>>

\* The quotient has two limbs, and the upper is one.
Over ==
  /\ pc = "similar" /\ part >= denominator * B
  /\ part' = part - denominator * B
  /\ over' = over + 1
  /\ UNCHANGED <<call, pc, numerator, window, offset, q, corrections, intermediate, quotient,
                 remainder>>

clamped_divide(lower, upper, limb) == Least(B - 1, (lower + upper * B) \div limb)

Estimate ==
  LET n == Size(denominator)
  IN  /\ pc = "similar" /\ part < denominator * B
      /\ q' = clamped_divide(Limb(part, n - 1), Limb(part, n), Limb(denominator, n - 1))
      /\ intermediate' = FirstLimbs(denominator * q', n + 1)
      /\ corrections' = 0
      /\ pc' = "correct"
      /\ UNCHANGED <<call, numerator, window, offset, part, over, quotient, remainder>>

Estimated == intermediate <= part \/ corrections = 2

Correct ==
  /\ pc = "correct" /\ ~Estimated
  /\ q' = Minus(q, 1)
  /\ intermediate' = intermediate - denominator
  /\ corrections' = corrections + 1
  /\ UNCHANGED <<call, pc, numerator, window, offset, part, over, quotient, remainder>>

\* What is left of the part
Left == FirstLimbs(part - intermediate, Size(denominator) + 1)

\* Mutant: the lower limbs of the quotient are not told from those that are there.
NextWindow_Whole == window

NextWindow == Least(window, offset)

\* divide_similar_sized returns, and so do the calls of it that wait for this one:
\* they write the quotient's lowest limb, which the null span does not have.
Digit ==
  /\ pc = "correct" /\ Estimated
  /\ over = 0 \/ offset < window
  /\ quotient' = Put(quotient, offset, window, q + over * B)
  /\ over' = 0
  /\ IF offset = 0
     THEN /\ remainder' = Left
          /\ pc' = "shift"
          /\ UNCHANGED <<numerator, window>>
     ELSE /\ numerator' = Left * B^offset + FirstLimbs(numerator, offset)
          /\ window' = NextWindow
          /\ pc' = "normalized"
          /\ UNCHANGED remainder
  /\ UNCHANGED <<call, offset, part, q, corrections, intermediate>>

\* HMPC_COMPILETIME_ASSERT of write: the program is not compiled.
Fail ==
  /\ pc = "correct" /\ Estimated
  /\ over > 0 /\ offset >= window
  /\ pc' = "failed"
  /\ UNCHANGED <<call, numerator, window, offset, part, over, q, corrections, intermediate,
                 quotient, remainder>>

ShiftBack ==
  /\ pc = "shift"
  /\ remainder' = remainder \div Scale
  /\ pc' = "done"
  /\ UNCHANGED <<call, numerator, window, offset, part, over, q, corrections, intermediate,
                 quotient>>

Next == \/ Normalize \/ Zero \/ One \/ Upper \/ Over \/ Estimate \/ Correct \/ Digit \/ Fail
        \/ ShiftBack

Spec == Init /\ [][Next]_vars

------------------------------------------------------------------------------

\* divide gives the quotient and the remainder: every limb of the quotient's memory has
\* been written, none twice by different rounds, and no carry is lost.  A quotient that
\* holds the numerator is never too short for a limb that is written.
QuotientRemainder ==
  /\ pc = "done" =>
       /\ remainder = call.numerator % call.denominator
       /\ call.quotient_size > 0 => quotient = call.numerator \div call.denominator
  /\ pc = "failed" => call.quotient_size = 0

\* divide_similar_sized needs no third correction, and none that the code leaves out: its
\* digit is the greatest one.  A quotient of two limbs begins with one.
TwoCorrections ==
  /\ pc = "correct" /\ Estimated =>
       intermediate <= part /\ part - intermediate < denominator
  /\ over <= 1
==============================================================================
