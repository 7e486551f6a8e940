------------------------------ MODULE Transform ------------------------------
(***************************************************************************)
(* The number theoretic transform of a tensor of polynomials and its       *)
(* inverse (hmpc/expr/number_theoretic_transform.hpp).  An execution takes *)
(* the powers of a root of unity from the tensors that the queue keeps in  *)
(* addition (extra_tensors of hmpc/comp/queue.hpp), or computes them, and  *)
(* submits a kernel for each iteration.  The first kernel reads the tensor *)
(* of the inner expression and writes a scratch buffer, the last one reads *)
(* that and writes the result, and those in between work in place.         *)
(*                                                                         *)
(* The work items of a kernel run in any order.  Each is one step, as they *)
(* have no element in common (NoRace).  A kernel begins when the one       *)
(* before it is done, since they share the scratch buffer.                 *)
(*                                                                         *)
(* An element is a linear form: its coefficient for each element of the    *)
(* input, modulo the modulus.  So one behaviour stands for all inputs.     *)
(***************************************************************************)
EXTENDS Integers, Sequences, FiniteSets, FiniteSetsExt, Functions, TLC

CONSTANT
  Transforms   \* programs: [element_size, executions], how many polynomials their tensors have,
               \* and a sequence of records [type, inverse, from]; "from" is the execution whose
               \* result is transformed, or 0 for the input

VARIABLES
  program,   \* the program that runs
  call,      \* how many executions have begun
  k,         \* the iteration whose kernel runs
  done,      \* the work items of this kernel that are done
  memory,    \* scratch_buffer
  tensors,   \* the input and the results, as functions on linear indices
  result     \* extra_tensors: from keys to the powers of roots

vars == <<program, call, k, done, memory, tensors, result>>

\* log2 of a power of two, countr_zero
Log2(n) == CHOOSE b \in 0..n : 2^b = n

Power(x, exponent, modulus) ==
  LET power[e \in 0..exponent] == IF e = 0 THEN 1 ELSE (power[e - 1] * x) % modulus
  IN  power[exponent]

Inverted(x, modulus) == CHOOSE y \in 1 .. modulus-1 : (x * y) % modulus = 1

\* A type has a modulus, a vector_size, and the random number that root_of_unity takes in the end.
is_root_of_unity(g, degree, modulus) ==
  Power(g, degree \div 2, modulus) # 1 /\ Power(g, degree, modulus) = 1

root_of_unity(type) ==
  Power(type.x, (type.modulus - 1) \div (2 * type.vector_size), type.modulus)

Type(t) ==
  /\ t.vector_size \in {2^b : b \in 2..30}
  /\ (t.modulus - 1) % (2 * t.vector_size) = 0
  /\ is_root_of_unity(root_of_unity(t), 2 * t.vector_size, t.modulus)

\* Callers transform what has the other representation and the same modulus and size.
Compiles(p) ==
  /\ p.element_size \in Nat \ {0}
  /\ \A c \in DOMAIN p.executions :
       LET e == p.executions[c]
       IN  /\ Type(e.type)
           /\ e.from \in 0 .. c-1
           /\ e.from # 0 => /\ p.executions[e.from].type = e.type
                            /\ p.executions[e.from].inverse # e.inverse

------------------------------------------------------------------------------
\* Linear forms

element_size    == program.element_size
Execution       == program.executions[call]
Modulus         == Execution.type.modulus
vector_size     == Execution.type.vector_size
iteration_count == Log2(vector_size)
Size(c)         == program.executions[c].type.vector_size * element_size

\* The greatest size that a tensor has in the program; forms are on all its elements, and on
\* memory that was not written.
Greatest == Max({Size(c) : c \in DOMAIN program.executions})
Places   == -1 .. Greatest-1

Form(place) == [p \in Places |-> IF p = place THEN 1 ELSE 0]
Unwritten   == Form(-1)

Sum(f, g)        == [p \in Places |-> (f[p] + g[p]) % Modulus]
Difference(f, g) == [p \in Places |-> (f[p] - g[p]) % Modulus]
Times(f, psi)    == [p \in Places |-> (f[p] * psi) % Modulus]

------------------------------------------------------------------------------
\* get_roots

bit_reverse(value, bits) ==
  FoldFunction(+, 0, [b \in 0 .. bits-1 |-> ((value \div 2^b) % 2) * 2^(bits - 1 - b)])

\* The powers in bit-reversed order.  The inverse has the normalization in the two powers that
\* its last kernel uses: power 0, and power vector_size / 2.
Roots(type, inverse) ==
  LET m    == type.modulus
      phi  == root_of_unity(type)
      root == IF inverse THEN Inverted(phi, m) ELSE phi
      normalization == IF inverse THEN Inverted(type.vector_size, m) ELSE 1
      power(j) == Power(root, bit_reverse(j, Log2(type.vector_size)), m)
  IN  [j \in 0 .. type.vector_size - 1 |->
         IF j \in {0, 1} THEN (power(j) * normalization) % m ELSE power(j)]

\* Mutant: the type is not in the key, only sizes.
Key_Sizes(type, inverse) ==
  [type_id |-> 0, limb_size |-> 1, size |-> type.vector_size, tag |-> inverse]

\* tensor_lookup_key_view.  The value's type has the representation in it, the tag the direction;
\* limb sizes are the same for all moduli here.
Key(type, inverse) ==
  [type_id |-> <<type, inverse>>, limb_size |-> 1, size |-> type.vector_size, tag |-> inverse]

roots == result[Key(Execution.type, Execution.inverse)]

------------------------------------------------------------------------------
\* Kernels

Items == 0 .. (vector_size \div 2) * element_size - 1

\* The element of the tensor, i, and of the vector, tid, that a work item is for.
ItemOf(id) ==
  IF k = 0 THEN [i |-> id \div (vector_size \div 2), tid |-> id % (vector_size \div 2)]
           ELSE [i |-> id % element_size, tid |-> id \div element_size]

length == IF Execution.inverse THEN vector_size \div 2^(k + 1) ELSE 2^k
step   == (vector_size \div length) \div 2

target_idx(tid)  == (tid \div step) * step * 2 + (tid % step)
step_group(tid)  == length + (tid \div step)

\* Tensors have the vectors one after the other; the scratch buffer has the elements of all
\* vectors next to each other.
InTensor(i, t)  == t + i * vector_size
InScratch(i, t) == i + t * element_size

Source == IF k = 0 THEN "inner" ELSE "scratch"
Target == IF k = iteration_count - 1 THEN "result" ELSE "scratch"

\* The two elements of a work item in a buffer
Pair(buffer, id) ==
  LET item == ItemOf(id)
      t    == target_idx(item.tid)
      at(u) == IF buffer = "scratch" THEN InScratch(item.i, u) ELSE InTensor(item.i, u)
  IN  <<at(t), at(t + step)>>

Buffer(name) == IF name = "scratch" THEN memory ELSE tensors[Execution.from]

Butterfly(u, v, psi) ==
  IF ~Execution.inverse THEN <<Sum(u, Times(v, psi)), Difference(u, Times(v, psi))>>
  ELSE IF k < iteration_count - 1 THEN <<Sum(u, v), Times(Difference(u, v), psi)>>
  ELSE <<Times(Sum(u, v), roots[0]), Times(Difference(u, v), psi)>>

------------------------------------------------------------------------------

Init ==
  /\ program \in Transforms /\ Compiles(program)
  /\ call = 0 /\ k = 0
  /\ done = {}
  /\ memory = <<>>
  /\ tensors = (0 :> [at \in 0 .. Greatest-1 |-> Form(at)])
  /\ result = <<>>

\* All kernels of the last execution are done.
Finished == call > 0 => k = iteration_count - 1 /\ done = Items

\* operator(): the powers of the root, a scratch buffer, and the first kernel
Execute ==
  /\ Finished /\ call < Len(program.executions)
  /\ call' = call + 1
  /\ LET next == program.executions[call + 1]
         key  == Key(next.type, next.inverse)
     IN  result' = IF key \in DOMAIN result THEN result
                   ELSE result @@ (key :> Roots(next.type, next.inverse))
  /\ memory'  = [at \in 0 .. Size(call + 1) - 1 |-> Unwritten]
  /\ tensors' = tensors @@ (call + 1 :> [at \in 0 .. Size(call + 1) - 1 |-> Unwritten])
  /\ k' = 0 /\ done' = {}
  /\ UNCHANGED program

WorkItem(id) ==
  /\ id \in Items \ done
  /\ LET read  == Pair(Source, id)
         write == Pair(Target, id)
         out   == Butterfly(Buffer(Source)[read[1]], Buffer(Source)[read[2]],
                            roots[step_group(ItemOf(id).tid)])
     IN  IF Target = "scratch"
         THEN /\ memory' = [memory EXCEPT ![write[1]] = out[1], ![write[2]] = out[2]]
              /\ UNCHANGED tensors
         ELSE /\ tensors' = [tensors EXCEPT ![call][write[1]] = out[1], ![call][write[2]] = out[2]]
              /\ UNCHANGED memory
  /\ done' = done \cup {id}
  /\ UNCHANGED <<program, call, k, result>>

NextKernel ==
  /\ call > 0 /\ done = Items /\ k < iteration_count - 1
  /\ k' = k + 1
  /\ done' = {}
  /\ UNCHANGED <<program, call, memory, tensors, result>>

Next == Execute \/ NextKernel \/ (call > 0 /\ \E id \in Items \ done : WorkItem(id))

Spec == Init /\ [][Next]_vars

------------------------------------------------------------------------------

TypeOK ==
  /\ program \in Transforms
  /\ call \in 0 .. Len(program.executions)
  /\ DOMAIN tensors = 0..call
  /\ call > 0 => k \in 0 .. iteration_count - 1 /\ done \subseteq Items

\* Work items of one kernel have no element in common that one of them writes, and stay within
\* the buffers: the index arithmetic of all kernels, in place and between the two layouts.
NoRace ==
  call > 0 =>
    \A id \in Items :
      /\ Range(Pair(Source, id)) \cup Range(Pair(Target, id)) \subseteq 0 .. Size(call) - 1
      /\ \A other \in Items \ {id} :
           /\ Range(Pair(Target, id)) \cap Range(Pair(Target, other)) = {}
           /\ Source = Target => Range(Pair(Source, id)) \cap Range(Pair(Target, other)) = {}

\* The element t of polynomial i in a tensor
At(c, i, t) == tensors[c][InTensor(i, t)]

\* When an execution is done, one of its two tensors has the coefficients of polynomials, and
\* the other one their values at the odd powers of the root of unity, in bit-reversed order.
\* For the transform that is the result; for the inverse it says that it gives back the
\* coefficients.  So products of values are products of polynomials modulo X^n + 1.
Transformed ==
  (call > 0 /\ Finished) =>
    LET coefficients == IF Execution.inverse THEN call ELSE Execution.from
        values       == IF Execution.inverse THEN Execution.from ELSE call
        phi          == root_of_unity(Execution.type)
        odd(j)       == 2 * bit_reverse(j, iteration_count) + 1
        at(t, j)     == Power(phi, (odd(j) * t) % (2 * vector_size), Modulus)
    IN  \A i \in 0 .. element_size-1, j \in 0 .. vector_size-1 :
          \A p \in Places :
            At(values, i, j)[p] =
              FoldFunction(+, 0, [t \in 0 .. vector_size-1 |->
                                    At(coefficients, i, t)[p] * at(t, j)]) % Modulus
==============================================================================
