------------------------------- MODULE Residue -------------------------------
(***************************************************************************)
(* Residues of integers modulo a number (hmpc/ints/mod.hpp).  An object    *)
(* has the integer times R, reduced, where R is the power of two after the *)
(* modulus's last limb: the Montgomery form.                               *)
(*                                                                         *)
(* A call is an operator, a conversion to an object or from it, or a       *)
(* power.  Its steps are what it does between two calls of                 *)
(* montgomery_reduce, which Montgomery has limb by limb: here it is one    *)
(* step, that of numbers.  Whatever is written to a number with a size     *)
(* loses the bits that the size has no room for.                           *)
(***************************************************************************)
EXTENDS BigInts

CONSTANTS
  Moduli,
  MaxBits    \* converted integers have at most that many bits

VARIABLES
  call,          \* what is asked for
  pc,            \* what comes next
  intermediate,  \* the integer that is converted or reduced next
  result,        \* the object that is written
  value,         \* for powers, the base to 2^i
  i

vars == <<call, pc, intermediate, result, value, i>>

Fit(n, bits) == n % 2^bits

------------------------------------------------------------------------------
\* The constants of mod<Modulus>

bit_size(N)     == bit_width(N - 1)
limb_size(N)    == limb_size_for(bit_size(N))
half_modulus(N) == N \div 2
Power(limbs)    == 2^(limbs * limb_bit_size)

auxiliary_modulus(N)                == Power(limb_size(N))
reduced_auxiliary_modulus(N)        == auxiliary_modulus(N) % N
reduced_square_auxiliary_modulus(N) ==
  (reduced_auxiliary_modulus(N) * reduced_auxiliary_modulus(N)) % N

reduced_other_auxiliary_modulus_times_square(N, limbs) ==
  (Power(limbs) * reduced_square_auxiliary_modulus(N)) % N

\* These constants are objects of types, too.
modulus(N) == Big(bit_width(N), FALSE, N)

offset_to(N, other) ==
  LET reduced_other_modulus == Modulo(other, modulus(N))
  IN  IF reduced_other_modulus.value = 0 THEN zero ELSE Minus(modulus(N), reduced_other_modulus)

\* The assertion that R and the modulus have no common divisor; one that is not 1 would be even.
Compiles(N) == N > 1 /\ N % 2 = 1

\* What montgomery_reduce makes of numbers: the multiple of the modulus that makes all limbs of
\* R zero is added, and the rest, for which T has one limb more, is reduced once.
montgomery_reduce(n, N, limbs) ==
  LET R == Power(limbs)
      q == CHOOSE x \in 0 .. R-1 : (n + x * N) % R = 0
      S == ((n + q * N) \div R) % (2 * auxiliary_modulus(N))
  IN  Fit(IF S >= N THEN S - N ELSE S, bit_size(N))

reduced_cubed_auxiliary_modulus(N) ==
  LET square == reduced_square_auxiliary_modulus(N)
  IN  montgomery_reduce(square * square, N, limb_size(N))

------------------------------------------------------------------------------
\* Calls

Operators   == {"add", "subtract", "multiply"}
Conversions == {"from_unsigned", "from_signed", "from_mod"}

\* Objects of mod<N>.  Equality compares what they have, so they must be reduced.
Objects(N) == 0 .. N-1

Call(op, N, left, right, bits, other) ==
  [op |-> op, modulus |-> N, left |-> left, right |-> right, bits |-> bits, other |-> other]

Calls(N) ==
  {Call(op, N, left, right, 0, 0) : op \in Operators, left, right \in Objects(N)}
  \cup {Call(op, N, left, 0, 0, 0)
        : op \in {"negate", "invert", "to_unsigned", "to_signed"}, left \in Objects(N)}
  \cup {Call("pow_constant", N, left, e, 0, 0) : left \in Objects(N), e \in 0..7}
  \cup {Call("pow", N, left, e, 3, 0) : left \in Objects(N), e \in 0..7}
  \cup UNION {{Call(op, N, n, 0, bits, 0)
               : op \in {"from_unsigned", "from_uniformly_random"}, n \in Values(bits, FALSE)}
              : bits \in 1..MaxBits}
  \cup UNION {{Call("from_signed", N, n, 0, bits, 0) : n \in Values(bits, TRUE)} : bits \in 1..MaxBits}
  \cup UNION {{Call("from_mod", N, left, 0, 0, other) : left \in Objects(other)}
              : other \in {O \in Moduli \ {N} : Compiles(O)}}

M == call.modulus

\* invert asserts that there is an inverse.  Euclid has the algorithm.
Invertible(x) == \E y \in 0 .. M-1 : (x * y) % M = 1
inverse(x)    == CHOOSE y \in 0 .. M-1 : (x * y) % M = 1

Init ==
  /\ \E N \in Moduli : Compiles(N) /\ call \in Calls(N)
  /\ call.op = "invert" => Invertible(call.left)
  /\ pc = "call"
  /\ intermediate = 0 /\ result = 0 /\ value = 0 /\ i = 0

Return(object) ==
  /\ result' = object
  /\ pc' = "done"
  /\ UNCHANGED <<call, intermediate, value, i>>

\* multiply to an array of the given size, and to montgomery_reduce with it
Product(left, right, bits) ==
  /\ intermediate' = Fit(left * right, bits)
  /\ pc' = "reduce"
  /\ UNCHANGED <<call, result, value, i>>

\* The sum has one more bit.  If that is in a limb of its own, the difference has that limb,
\* too; otherwise it goes to the result at once.  Which of the two is selected depends on the
\* underflow.
Add ==
  /\ pc = "call" /\ call.op = "add"
  /\ LET sum == Fit(call.left + call.right, bit_size(M) + 1)
     IN  Return(Fit(IF sum < M THEN sum ELSE sum - M, bit_size(M)))

Subtract ==
  /\ pc = "call" /\ call.op = "subtract"
  /\ LET difference == Fit(call.left - call.right, bit_size(M))
         underflow  == call.left < call.right
     IN  Return(Fit(difference + (IF underflow THEN M ELSE 0), bit_size(M)))

Negate ==
  /\ pc = "call" /\ call.op = "negate"
  /\ Return(Fit((IF call.left # 0 THEN M ELSE 0) - call.left, bit_size(M)))

Multiply ==
  /\ pc = "call" /\ call.op = "multiply"
  /\ Product(call.left, call.right, 2 * bit_size(M))

Invert ==
  /\ pc = "call" /\ call.op = "invert"
  /\ Product(inverse(call.left), reduced_cubed_auxiliary_modulus(M), 2 * bit_size(M))

\* The object itself, or the integer from the random engine, is reduced.
ReduceGiven ==
  /\ pc = "call" /\ call.op \in {"to_unsigned", "to_signed", "from_uniformly_random"}
  /\ intermediate' = call.left
  /\ pc' = "reduce"
  /\ UNCHANGED <<call, result, value, i>>

------------------------------------------------------------------------------
\* Conversions

\* The next multiple of the modulus, and for objects of greater moduli their modulus plus
\* what is missing to a multiple of this one
largest_absolute_value == ShiftLeft(one, call.bits - 1)
next_modulus_multiple  == Plus(largest_absolute_value, offset_to(M, largest_absolute_value))
other_modulus_multiple == Plus(modulus(call.other), offset_to(M, modulus(call.other)))

\* The bits of what from_unsigned_integer is called for
normalized_integer_bit_size ==
  CASE call.op = "from_unsigned"                         -> call.bits
    [] call.op = "from_signed" /\ call.bits < bit_size(M)  -> bit_size(M)
    [] call.op = "from_signed" /\ call.bits >= bit_size(M) -> Width(Minus(next_modulus_multiple, one))
    [] call.op = "from_mod" /\ M > call.other            -> bit_size(M)
    [] call.op = "from_mod" /\ M < call.other            -> Width(Minus(other_modulus_multiple, one))

\* What is added to an integer that is or stands for one below zero
Offset ==
  CASE call.op = "from_signed" /\ call.bits < bit_size(M)  -> modulus(M)
    [] call.op = "from_signed" /\ call.bits >= bit_size(M) -> next_modulus_multiple
    [] call.op = "from_mod" /\ M > call.other            -> Minus(modulus(M), modulus(call.other))
    [] call.op = "from_mod" /\ M < call.other            -> offset_to(M, modulus(call.other))

Normalized(n, below) ==
  /\ intermediate' = Fit(IF below THEN n + Offset.value ELSE n, normalized_integer_bit_size)
  /\ pc' = "convert"
  /\ UNCHANGED <<call, result, value, i>>

FromUnsigned == pc = "call" /\ call.op = "from_unsigned" /\ Normalized(call.left, FALSE)
FromSigned   == pc = "call" /\ call.op = "from_signed"   /\ Normalized(call.left, call.left < 0)

\* Mutant: the integer for one half of the modulus counts as below zero.
FromMod_Half ==
  /\ pc = "call" /\ call.op = "from_mod"
  /\ LET integer == montgomery_reduce(call.left, call.other, limb_size(call.other))
     IN  Normalized(integer, integer >= half_modulus(call.other))

\* The other object's integer; if it is greater than half of its modulus it stands for one
\* below zero.
FromMod ==
  /\ pc = "call" /\ call.op = "from_mod"
  /\ LET integer == montgomery_reduce(call.left, call.other, limb_size(call.other))
     IN  Normalized(integer, integer > half_modulus(call.other))

Small == normalized_integer_bit_size <= limb_size(M) * limb_bit_size

\* A small integer times R^2 may be reduced.
Convert ==
  /\ pc = "convert" /\ Small
  /\ Product(intermediate, reduced_square_auxiliary_modulus(M),
             normalized_integer_bit_size + bit_size(M))

\* A large one is reduced first, with a power for its own limbs.
ConvertLarge ==
  /\ pc = "convert" /\ ~Small
  /\ pc' = "reduce_large"
  /\ UNCHANGED <<call, intermediate, result, value, i>>

ReduceLarge ==
  /\ pc = "reduce_large"
  /\ result' = montgomery_reduce(intermediate, M, limb_size_for(normalized_integer_bit_size))
  /\ pc' = "adjust"
  /\ UNCHANGED <<call, intermediate, value, i>>

Adjust ==
  /\ pc = "adjust"
  /\ LET limbs == limb_size_for(normalized_integer_bit_size)
     IN  Product(result, reduced_other_auxiliary_modulus_times_square(M, limbs), 2 * bit_size(M))

auxiliary_power ==
  LET limbs == limb_size_for(call.bits)
  IN  IF call.op = "from_uniformly_random" /\ limbs > limb_size(M) THEN limbs ELSE limb_size(M)

Reduce ==
  /\ pc = "reduce" /\ call.op # "to_signed"
  /\ Return(montgomery_reduce(intermediate, M, auxiliary_power))

\* The modulus is subtracted from what is greater than its half; a signed result.
ReduceToSigned ==
  /\ pc = "reduce" /\ call.op = "to_signed"
  /\ LET unsigned_result == montgomery_reduce(intermediate, M, auxiliary_power)
     IN  Return(IF unsigned_result > half_modulus(M) THEN unsigned_result - M ELSE unsigned_result)

------------------------------------------------------------------------------
\* Powers

\* operator*
Mul(left, right) == montgomery_reduce(left * right, M, limb_size(M))

mod_one == montgomery_reduce(reduced_square_auxiliary_modulus(M), M, limb_size(M))

\* The constant exponent's highest bit is not in the loop.
Iterations == IF call.op = "pow" THEN call.bits ELSE bit_width(call.right) - 1

PowZero ==
  /\ pc = "call" /\ call.op \in {"pow", "pow_constant"} /\ call.right = 0
  /\ Return(mod_one)

PowBegin ==
  /\ pc = "call" /\ call.op \in {"pow", "pow_constant"} /\ call.right # 0
  /\ result' = mod_one
  /\ value' = call.left
  /\ i' = 0
  /\ pc' = "pow"
  /\ UNCHANGED <<call, intermediate>>

PowIterate ==
  /\ pc = "pow" /\ i < Iterations
  /\ result' = IF (call.right \div 2^i) % 2 = 1 THEN Mul(result, value) ELSE result
  /\ value' = Mul(value, value)
  /\ i' = i + 1
  /\ UNCHANGED <<call, pc, intermediate>>

PowEnd ==
  /\ pc = "pow" /\ i = Iterations
  /\ Return(IF call.op = "pow" THEN result ELSE Mul(value, result))

Next ==
  \/ Add \/ Subtract \/ Negate \/ Multiply \/ Invert \/ ReduceGiven
  \/ FromUnsigned \/ FromSigned \/ FromMod
  \/ Convert \/ ConvertLarge \/ ReduceLarge \/ Adjust \/ Reduce \/ ReduceToSigned
  \/ PowZero \/ PowBegin \/ PowIterate \/ PowEnd

Spec == Init /\ [][Next]_vars

------------------------------------------------------------------------------

TypeOK ==
  /\ M \in Moduli /\ Compiles(M)
  /\ call.op \in Operators => call.left \in Objects(M) /\ call.right \in Objects(M)
  /\ pc \in {"call", "convert", "reduce_large", "adjust", "reduce", "pow", "done"}
  /\ intermediate \in Nat /\ result \in Int
  /\ value \in Objects(M) /\ i \in 0..MaxBits

\* Whatever is asked for, montgomery_reduce gets a value that its precondition allows.
\* The comment before from_unsigned_integer argues for the small integers only.
Precondition ==
  /\ pc = "reduce"       => intermediate < Power(auxiliary_power) * M
  /\ pc = "reduce_large" => intermediate < Power(limb_size_for(normalized_integer_bit_size)) * M

\* Objects are reduced, also those that a constructor has not completed.
Canonical == call.op \in {"to_unsigned", "to_signed"} \/ result \in Objects(M)

\* The integer that an object of mod<N> stands for
Integer(x, N) == CHOOSE n \in 0 .. N-1 : (n * auxiliary_modulus(N) - x) % N = 0

Raised(n, exponent) ==
  LET power[e \in 0..exponent] == IF e = 0 THEN 1 ELSE (power[e - 1] * n) % M
  IN  power[exponent]

Centered(n, N) == IF n > half_modulus(N) THEN n - N ELSE n

\* What the caller means
Meant ==
  LET left  == Integer(call.left, M)
      right == Integer(call.right, M)
  IN  CASE call.op = "add"           -> left + right
        [] call.op = "subtract"      -> left - right
        [] call.op = "multiply"      -> left * right
        [] call.op = "negate"        -> -left
        [] call.op \in {"pow", "pow_constant"} -> Raised(left, call.right)
        [] call.op \in {"from_unsigned", "from_signed"} -> call.left
        [] call.op = "from_mod"      -> Centered(Integer(call.left, call.other), call.other)

\* The result stands for what is meant.  Integers from the random engine keep their class,
\* divided by a constant, so that they are uniform still.
Meaning ==
  pc = "done" =>
    CASE call.op = "invert" -> (Integer(call.left, M) * Integer(result, M)) % M = 1
      [] call.op = "to_unsigned" -> result = Integer(call.left, M)
      [] call.op = "to_signed"   -> result = Centered(Integer(call.left, M), M)
      [] call.op = "from_uniformly_random" -> (result * Power(auxiliary_power) - call.left) % M = 0
      [] OTHER -> Integer(result, M) = Meant % M
==============================================================================
