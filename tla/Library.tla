-------------------------------- MODULE Library --------------------------------
(***************************************************************************)
(* The functions on long integers, the types of numbers that are made of   *)
(* them, the number theoretic transform and the computation queue: a       *)
(* behaviour is one call of one of the functions, one expression or one    *)
(* program, and the variables of the others are Idle.                      *)
(*                                                                         *)
(* Each function has sizes and numbers of its own.  Limbs of all of them   *)
(* are of one type.                                                        *)
(***************************************************************************)
EXTENDS Words, Expressions

CONSTANTS
  Idle,
  limb_bit_size,                   \* B is 2^limb_bit_size where functions look at bits
  SumLimbs,                        \* add and subtract, of Numbers
  ProductLimbs, Factors,           \* multiply
  Reduced,                         \* montgomery_reduce, of Limbs limbs
  QuotientLimbs, Dividends,        \* divide
  CompareLimbs, Compared,          \* comparisons
  BitLimbs, BitNumbers,            \* functions on bits
  DivisorGreatest, DivisorBits,    \* divisors
  ArithmeticBits,                  \* operators of bigint
  ResidueBits, ResidueModuli,      \* operators of mod
  Transforms                       \* the transform

ASSUME LibraryAssumption ==
  /\ {SumLimbs, ProductLimbs, QuotientLimbs, CompareLimbs, BitLimbs} \subseteq 1..Limbs
  /\ Factors \cup Reduced \cup Dividends \cup Compared \cup BitNumbers \subseteq Int
  /\ limb_bit_size \in Nat \ {0} /\ ArithmeticBits \in Nat /\ ArithmeticBits >= 3
  /\ DivisorBits \in Nat /\ DivisorGreatest \in Nat
  /\ B = 2^limb_bit_size

\* The laws of exponents of two, for the numbers of bits that occur: in the types of bigint, a
\* shift of which is by at most three bits, in spans, and in a search for the number of a limb's.
\* A shift looks at limbs up to twice as far as spans go.
ASSUME TwoAssumption ==
  LET counts == (0 .. ArithmeticBits + DivisorBits + limb_bit_size + 3)
                  \cup (0 .. limb_bit_size * QuotientLimbs)
                  \cup (0 .. limb_bit_size * (2 * BitLimbs)) \cup (0 .. B)
  IN  /\ 2^0 = 1 /\ 2^1 = 2
      /\ \A n \in counts : 2^n \in Nat \ {0}
      /\ \A l, n \in counts : l + n \in counts => 2^(l + n) = 2^l * 2^n
      /\ \A n \in 0 .. 2 * BitLimbs : B^n = 2^(limb_bit_size * n)

VARIABLES
  function,                                   \* whose call it is
  memory, call, pc, i, k, carry, result,
  intermediate, T, m,
  numerator, window, offset, part, over, q, corrections, quotient, remainder,
  program, plan, nonce, kernels, done, tensors

Addition == INSTANCE LongAddition WITH Limbs <- SumLimbs

Multiplication == INSTANCE LongMultiplication WITH Limbs <- ProductLimbs, Numbers <- Factors

Reduction == INSTANCE Montgomery WITH Numbers <- Reduced

Quotients == INSTANCE Division WITH Limbs <- QuotientLimbs, Numbers <- Dividends

Comparisons == INSTANCE Comparison WITH
  Limbs <- CompareLimbs, Numbers <- Compared, determined <- carry

Bits == INSTANCE BitFunctions WITH Limbs <- BitLimbs, Numbers <- BitNumbers

Divisors == INSTANCE Euclid WITH
  Greatest <- DivisorGreatest, MaxBits <- DivisorBits,
  old_r <- numerator, r <- remainder,
  old_s <- window, s <- part, old_t <- offset, t <- over, iteration <- carry

Bigints == INSTANCE Arithmetic WITH MaxBits <- ArithmeticBits, x <- result, exact <- m

Residues == INSTANCE Residue WITH
  Moduli <- ResidueModuli, MaxBits <- ResidueBits, value <- m

Transforming == INSTANCE Transform

Queue == INSTANCE Execution

------------------------------------------------------------------------------

sumVars      == <<memory, carry, k>>
productVars  == <<intermediate, T, m>>
divisorVars  == <<numerator, window, offset, part, over, remainder>>
quotientVars == <<q, corrections, quotient>>
programVars  == <<program, done, tensors>>
planVars     == <<plan, nonce, kernels>>

ProductIdle  == intermediate = Idle /\ T = Idle /\ m = Idle
DivisorIdle  ==
  /\ numerator = Idle /\ window = Idle /\ offset = Idle /\ part = Idle /\ over = Idle
  /\ remainder = Idle
QuotientIdle == q = Idle /\ corrections = Idle /\ quotient = Idle
DivisionIdle == DivisorIdle /\ QuotientIdle
ProgramIdle  == program = Idle /\ done = Idle /\ tensors = Idle
PlanIdle     == plan = Idle /\ nonce = Idle /\ kernels = Idle
QueueIdle    == ProgramIdle /\ PlanIdle

divisionVars == <<divisorVars, quotientVars>>
queueVars    == <<programVars, planVars>>

vars == <<function, sumVars, call, pc, i, result, productVars, divisionVars, queueVars>>

InitAddition ==
  /\ function = "add" /\ Addition!Init /\ QueueIdle /\ DivisionIdle /\ ProductIdle
  /\ pc = Idle /\ k = Idle /\ result = Idle

NextAddition ==
  /\ function = "add" /\ Addition!Next
  /\ UNCHANGED <<function, pc, k, result, productVars, divisionVars, queueVars>>

InitMultiplication ==
  /\ function = "multiply" /\ Multiplication!Init /\ QueueIdle /\ DivisionIdle
  /\ memory = Idle /\ T = Idle /\ m = Idle

NextMultiplication ==
  /\ function = "multiply" /\ Multiplication!Next
  /\ UNCHANGED <<function, memory, T, m, divisionVars, queueVars>>

InitReduction ==
  /\ function = "montgomery_reduce" /\ Reduction!Init /\ QueueIdle /\ DivisionIdle
  /\ memory = Idle /\ intermediate = Idle

NextReduction ==
  /\ function = "montgomery_reduce" /\ Reduction!Next
  /\ UNCHANGED <<function, memory, intermediate, divisionVars, queueVars>>

InitQuotients ==
  /\ function = "divide" /\ Quotients!Init /\ QueueIdle
  /\ memory = Idle /\ i = Idle /\ k = Idle /\ carry = Idle /\ result = Idle
  /\ T = Idle /\ m = Idle

NextQuotients ==
  /\ function = "divide" /\ Quotients!Next
  /\ UNCHANGED <<function, sumVars, i, result, T, m, queueVars>>

InitComparisons ==
  /\ function = "compare" /\ Comparisons!Init /\ QueueIdle /\ DivisionIdle /\ ProductIdle
  /\ memory = Idle /\ k = Idle

NextComparisons ==
  /\ function = "compare" /\ Comparisons!Next
  /\ UNCHANGED <<function, memory, k, productVars, divisionVars, queueVars>>

InitBits ==
  /\ function = "bits" /\ Bits!Init /\ QueueIdle /\ DivisionIdle /\ ProductIdle
  /\ k = Idle /\ carry = Idle

NextBits ==
  /\ function = "bits" /\ Bits!Next
  /\ UNCHANGED <<function, k, carry, productVars, divisionVars, queueVars>>

InitDivisors ==
  /\ function = "divisor" /\ Divisors!Init /\ QueueIdle /\ QuotientIdle /\ ProductIdle
  /\ memory = Idle /\ i = Idle /\ k = Idle /\ result = Idle

NextDivisors ==
  /\ function = "divisor" /\ Divisors!Next
  /\ UNCHANGED <<function, memory, i, k, result, productVars, quotientVars, queueVars>>

InitIntegers ==
  /\ function = "bigint" /\ Bigints!Init /\ QueueIdle /\ DivisionIdle
  /\ memory = Idle /\ call = Idle /\ pc = Idle /\ i = Idle /\ k = Idle /\ carry = Idle
  /\ intermediate = Idle /\ T = Idle

NextIntegers ==
  /\ function = "bigint" /\ Bigints!Next
  /\ UNCHANGED <<function, sumVars, call, pc, i, intermediate, T, divisionVars, queueVars>>

InitResidues ==
  /\ function = "mod" /\ Residues!Init /\ QueueIdle /\ DivisionIdle
  /\ memory = Idle /\ k = Idle /\ carry = Idle /\ T = Idle

NextResidues ==
  /\ function = "mod" /\ Residues!Next
  /\ UNCHANGED <<function, sumVars, T, divisionVars, queueVars>>

InitTransforming ==
  /\ function = "transform" /\ Transforming!Init /\ PlanIdle /\ DivisionIdle /\ ProductIdle
  /\ pc = Idle /\ i = Idle /\ carry = Idle

NextTransforming ==
  /\ function = "transform" /\ Transforming!Next
  /\ UNCHANGED <<function, pc, i, carry, productVars, divisionVars, planVars>>

InitQueue ==
  /\ function = "queue" /\ Queue!Init /\ DivisionIdle /\ ProductIdle
  /\ memory = Idle /\ pc = Idle /\ i = Idle /\ k = Idle /\ carry = Idle /\ result = Idle

NextQueue ==
  /\ function = "queue" /\ Queue!Next
  /\ UNCHANGED <<function, sumVars, pc, i, result, productVars, divisionVars>>

Init ==
  \/ InitAddition \/ InitMultiplication \/ InitReduction \/ InitQuotients
  \/ InitComparisons \/ InitBits \/ InitDivisors
  \/ InitIntegers \/ InitResidues
  \/ InitTransforming \/ InitQueue

Next ==
  \/ NextAddition \/ NextMultiplication \/ NextReduction \/ NextQuotients
  \/ NextComparisons \/ NextBits \/ NextDivisors
  \/ NextIntegers \/ NextResidues
  \/ NextTransforming \/ NextQueue

Spec == Init /\ [][Next]_vars

------------------------------------------------------------------------------

\* The types of all of them: add and subtract, multiply, montgomery_reduce, divide, comparisons
\* and functions on bits, greatest common divisors, numbers, transforms and the queue
TypeOK ==
  /\ function = "add" => Addition!TypeOK
  /\ function = "multiply" => Multiplication!TypeOK
  /\ function = "montgomery_reduce" => Reduction!TypeOK
  /\ function = "divide" => Quotients!TypeOK
  /\ function = "compare" => Comparisons!TypeOK
  /\ function = "bits" => Bits!TypeOK
  /\ function = "divisor" => Divisors!TypeOK
  /\ function = "bigint" => Bigints!TypeOK
  /\ function = "mod" => Residues!TypeOK
  /\ function = "transform" => Transforming!TypeOK
  /\ function = "queue" => Queue!TypeOK

\* add and subtract give the sum and the difference, also in place of an operand.
Sums == function = "add" => Addition!Sums

\* multiply gives the product's lowest limbs, whatever its intermediate held.
Product == function = "multiply" => Multiplication!Product

\* montgomery_reduce divides by R modulo the modulus, and loses no carry at the last limb of T.
Postcondition ==
  function = "montgomery_reduce" => Reduction!Postcondition /\ Reduction!NoOverflow

\* divide gives the quotient and the remainder, and writes every limb of them; the estimates of
\* divide_similar_sized are too large by at most two.
QuotientRemainder ==
  function = "divide" => Quotients!QuotientRemainder /\ Quotients!TwoCorrections

\* Comparisons of long integers are those of the numbers, whatever their sizes and signs;
\* equalities, where limbs tell the numbers apart.
Ordered == function = "compare" => Comparisons!Ordered

\* Shifts, copies and negation write the bits that they should, also in place; bit_width and
\* countr_zero count the bits that a number needs and its trailing zeros.
BitsMeant == function = "bits" => Bits!BitsWritten /\ Bits!Counted

\* greatest_common_divisor and extended_euclidean find the greatest common divisor, and what
\* extended_euclidean returns in addition are its coefficients modulo the other operand; on the
\* way, the coefficients without signs never leave the width of the operands.
Coefficients ==
  function = "divisor" => Divisors!GreatestDivisor /\ Divisors!Coefficients /\ Divisors!Bezout

\* Operators of bigint have results whose types have room for them.
Exact == function = "bigint" => Bigints!Exact

\* Operators and conversions of mod give the residue that the caller means, and objects of mod
\* are reduced, so that comparing them compares residues; montgomery_reduce is called with values
\* below the modulus times R.
Meaning ==
  function = "mod" => Residues!Canonical /\ Residues!Meaning /\ Residues!Precondition

\* The transform gives the values of polynomials, and its inverse their coefficients; the work
\* items of a kernel write elements that no other one uses.
Transformed == function = "transform" => Transforming!Transformed /\ Transforming!NoRace

\* Whatever the execution cache makes of a call, elements of its results are computed from
\* the elements that its expressions say.
Meant == function = "queue" => Queue!Meant

\* A random expression that a call uses several times has one value in it.
OneValue == function = "queue" => Queue!OneValue

\* No two random elements or encrypted limbs have the same limb of the random engine, and kernels
\* that draw random elements have nonces of their own.
OwnLimbs == function = "queue" => Queue!OwnLimbs /\ Queue!DistinctNonces
==============================================================================
