------------------------------ MODULE MCLibrary ------------------------------
(***************************************************************************)
(* Library for TLC.                                                        *)
(*                                                                         *)
(* The numbers for addition are below zero, too, and its limbs are zero,   *)
(* all ones and neither.  Multiplication has all sizes of operands, result *)
(* and intermediate up to four limbs.  Montgomery takes small odd moduli,  *)
(* the least and the greatest of each number of limbs among them, and all  *)
(* values.  Division has denominators with each distance to the end of a   *)
(* limb.  Comparison and the functions on bits have the numbers next to    *)
(* the ends of limbs and of their signed halves, in all sizes.  Residues   *)
(* have moduli of one and of two limbs, the least and the greatest ones    *)
(* among them, and all integers of up to eight bits; divisors, all pairs   *)
(* of numbers up to 34.  The transforms have vectors of 4, 8 and 16        *)
(* elements, one or two in a tensor, and moduli for them.                  *)
(***************************************************************************)
EXTENDS Library, MCPrograms

MCNumbers == {-512, -147, -1, 0, 5, 73, 340, 511}

MCFactors == {0, 1, 7, 10, 56, 63, 4095}

MCReduced == {1, 5, 7, 9, 63}

MCDividends ==
  (0..65) \cup {95, 100, 127, 128, 191, 192, 224, 255, 256, 257}
    \cup (305..320) \cup (440..450) \cup (505..511)

EdgeNumbers == {-32, -31, -9, -8, -4, -2, -1, 0, 1, 3, 4, 7, 8, 10, 31, 32, 55, 56, 63}

MCBitNumbers == EdgeNumbers \cup {-256, -147, 64, 219, 256}

\* Types and programs for Transform.  3 and 5 generate the units modulo 17 and 97, and 6 those
\* modulo 41.
Polynomials(modulus, vector_size, x) ==
  [modulus |-> modulus, vector_size |-> vector_size, x |-> x]

Forward(type, from)  == [type |-> type, inverse |-> FALSE, from |-> from]
Backward(type, from) == [type |-> type, inverse |-> TRUE, from |-> from]

MCTransforms ==
  LET four  == Polynomials(17, 4, 3)
      other == Polynomials(41, 4, 6)
      eight == Polynomials(17, 8, 3)
      large == Polynomials(97, 16, 5)
  IN  {[element_size |-> 2,
        executions |-> <<Forward(four, 0), Backward(four, 1), Forward(other, 0), Backward(other, 0)>>],
       [element_size |-> 1, executions |-> <<Forward(eight, 0), Backward(eight, 1)>>],
       [element_size |-> 1, executions |-> <<Backward(large, 0), Forward(large, 1)>>]}
==============================================================================
