------------------------------ MODULE Execution ------------------------------
(***************************************************************************)
(* The computation queue (hmpc/comp/queue.hpp).  A call determines the     *)
(* execution cache of its expressions, makes a tensor for each of them and *)
(* submits a kernel to fill it; it returns the tensors while the kernels   *)
(* run.  SYCL runs a kernel when the kernels before it that it shares a    *)
(* buffer with are done, so kernels of several calls may run in any order  *)
(* that respects this.  A kernel reads no tensor that it writes, and no    *)
(* other kernel runs that writes what it reads: it is one step.            *)
(*                                                                         *)
(* An element's value is the set of facts that it was computed from:       *)
(* elements of the program's input, random elements with the limbs drawn   *)
(* for them, and limbs that were encrypted.  Limbs come from the random    *)
(* engine (hmpc/crypto/chacha.hpp), which gives a block for each key,      *)
(* nonce and counter.  Nonces and counters do not wrap around: they have   *)
(* 96 and 32 bits.                                                         *)
(***************************************************************************)
EXTENDS Expressions, TLC

VARIABLES
  program,   \* the program that runs
  call,      \* how many calls it has made
  plan,      \* the expressions of the last call that are still to be submitted
  nonce,     \* random_number_generator_state.nonce
  kernels,   \* what has been submitted, in this order
  done,      \* the kernels that have run
  tensors    \* for each call and expression of its cache, the elements

vars == <<program, call, plan, nonce, kernels, done, tensors>>

Graph == WithCaches(program.graph)
Shape(n) == Shapes(Graph)[n]
KernelSize(n) == Size(ElementShape(program, n))

\* Kernels have the key of the queue; the other keys are the program's own.
QueueKey == 0

------------------------------------------------------------------------------
\* Values

Fact(kind, source, at, data) == [kind |-> kind, source |-> source, at |-> at, data |-> data]

\* Memory that nothing was written to.
Unwritten == {Fact("unwritten", <<>>, <<>>, {})}

\* Limbs pos .. pos+count-1 of a number_generator whose counter was given.
Draw(key, nonceOf, counter, pos, count) ==
  {[key |-> key, nonce |-> nonceOf, block |-> counter + p \div BlockSize, limb |-> p % BlockSize] :
     p \in pos .. pos+count-1}

\* An element of a tensor, by its linear index.
Element(tensor, linear) ==
  IF linear \in DOMAIN tensors[tensor] THEN tensors[tensor][linear] ELSE Unwritten

\* An element of what a program draws from a number_generator_storage, which starts at a nonce
\* of its own.
Generated(n, index) ==
  LET e      == Graph[n]
      linear == ToLinear(index, e.shape)
  IN  {Fact("random", <<0, n>>, Within(index, e.shape),
            Draw(e.key, linear + Size(e.shape) * e.stream, 0, 0, e.limbs))}

\* Which elements of which parts the operator() of an expression evaluates, in this order
\* (C++ leaves the order of two operands open).
Operands(n, index) ==
  LET e     == Graph[n]
      l     == e.parts[1]
      r     == e.parts[2]
      rank  == Len(index)
      extent == Last(Shape(l))              \* sum_extent
  IN  CASE e.op \in {"cast", "cache"} -> <<<<l, index>>>>
        [] e.op = "unsqueeze"     -> <<<<l, UnsqueezeIndex(index, e.dim)>>>>
        [] e.op = "add"           -> <<<<l, index>>, <<r, index>>>>
        [] e.op = "matrix_vector" ->
             FlattenSeq([k \in 1..extent |->
               <<<<l, Append(index, k - 1)>>, <<r, Append(Front(index), k - 1)>>>>])
        [] e.op = "matrix"        ->
             FlattenSeq([k \in 1..extent |->
               <<<<l, Append(Front(index), k - 1)>>,
                 <<r, SubSeq(index, 1, rank - 2) \o <<k - 1, index[rank]>>>>>>])

\* An element of expression n in kernel k, in a work item whose generator starts with this
\* counter.  Expressions in the cache are read from their tensors.
Evaluate(k, n, index, counter) ==
  LET cached == ToSet(ExecutionCache(program, k.call)) \ {k.node}
      value[m \in DOMAIN Graph, at \in Seq(Nat), pos \in Nat] ==
        LET e == Graph[m]
        IN  CASE m \in cached ->
                   [from |-> Element(<<k.call, m>>, ToLinear(at, Shape(m))), pos |-> pos]
              [] m \notin cached /\ e.op = "tensor" ->
                   [from |-> Element(e.source, ToLinear(at, e.shape)), pos |-> pos]
              [] m \notin cached /\ e.op = "value" ->
                   [from |-> {Fact("input", <<0, m>>, <<>>, {})}, pos |-> pos]
              [] m \notin cached /\ e.op = "generator" ->
                   [from |-> Generated(m, at), pos |-> pos]
              [] m \notin cached /\ e.op = "uniform" ->
                   [from |-> {Fact("random", <<k.call, m>>, Within(at, e.shape),
                                   Draw(QueueKey, k.nonce, counter, pos, e.limbs))},
                    pos  |-> pos + e.limbs]
              [] OTHER ->
                   FoldLeft(LAMBDA v, operand :
                              LET w == value[operand[1], operand[2], v.pos]
                              IN  [from |-> v.from \cup w.from, pos |-> w.pos],
                            [from |-> {}, pos |-> pos],
                            Operands(m, at))
  IN  value[n, index, 0].from

\* capability_type: the generator of a work item has its element's linear index as counter.
Counter(linear) == linear

\* The element that work item i of a kernel evaluates of expression n.
Item(k, n, i) == Evaluate(k, n, FromLinear(i, Shape(n)), Counter(i))

------------------------------------------------------------------------------
\* Ciphers (hmpc/expr/crypto/cipher.hpp).  A work item takes a batch, the least number of
\* elements whose limbs fill blocks.

lcm(a, b) == CHOOSE m \in 1 .. a*b :
  m % a = 0 /\ m % b = 0 /\ \A j \in 1 .. m-1 : j % a # 0 \/ j % b # 0

BatchSize(limbs)        == lcm(BlockSize, limbs)
ElementsPerBatch(limbs) == BatchSize(limbs) \div limbs
BlocksPerBatch(limbs)   == BatchSize(limbs) \div BlockSize
BatchCount(count, limbs) == (count + BatchSize(limbs) - 1) \div BatchSize(limbs)

\* Mutant: batches are told apart by their numbers.
Mask_Batches(e, i, j) ==
  LET batch == i \div ElementsPerBatch(e.limbs)
      item  == i % ElementsPerBatch(e.limbs)
  IN  Draw(e.key, e.stream, batch, item * e.limbs + j, 1)

\* The limb of the key stream for limb j of element i.
Mask(e, i, j) ==
  LET batch == i \div ElementsPerBatch(e.limbs)
      item  == i % ElementsPerBatch(e.limbs)
  IN  Draw(e.key, e.stream, batch * BlocksPerBatch(e.limbs), item * e.limbs + j, 1)

Masked(data, e, i, j) == SymDiff(data, {Fact("mask", <<>>, <<>>, Mask(e, i, j))})

\* Limb j of an element, and the element that limbs belong to, if they are those of one.
LimbOf(data, j) == {Fact("limb", <<j>>, <<>>, data)}

Joined(limbs) ==
  IF \E data \in {fact.data : fact \in UNION {limbs[j] : j \in DOMAIN limbs}} :
       \A j \in DOMAIN limbs : limbs[j] = LimbOf(data, j)
  THEN (CHOOSE fact \in limbs[0] : TRUE).data
  ELSE Unwritten

Encrypt(k, i) ==
  LET e == Graph[k.node]
      j == i % e.limbs
  IN  Masked(LimbOf(Item(k, e.parts[1], i \div e.limbs), j), e, i \div e.limbs, j)

Decrypt(k, i) ==
  LET e == Graph[k.node]
  IN  Joined([j \in 0 .. e.limbs-1 |-> Masked(Item(k, e.parts[1], i * e.limbs + j), e, i, j)])

------------------------------------------------------------------------------
\* Kernels

\* The elements that the kernel of expression n writes.  The batches of dec may be too big.
Written(n) ==
  LET e     == Graph[n]
      count == Size(Shape(e.parts[1]))
  IN  IF e.op = "dec"
      THEN 0 .. BatchCount(count, e.limbs) * ElementsPerBatch(e.limbs) - 1
      ELSE 0 .. Size(Shape(n)) - 1

Value(k, i) ==
  LET e == Graph[k.node]
  IN  CASE e.op = "reduce" ->
             UNION {Item(k, e.parts[1], j) : j \in 0 .. Size(Shape(e.parts[1])) - 1}
        [] e.op = "enc" -> Encrypt(k, i)
        [] e.op = "dec" -> Decrypt(k, i)
        [] OTHER        -> Item(k, k.node, i)

\* The expressions that the kernel of expression n in call c evaluates, and those it reads from
\* the tensors of the call instead.
Evaluated(c, n) ==
  LET cached == ToSet(ExecutionCache(program, c)) \ {n}
      inside[m \in DOMAIN Graph] ==
        IF m \in cached THEN {} ELSE {m} \cup UNION {inside[p] : p \in ToSet(Graph[m].parts)}
  IN  inside[n]

Read(c, n) ==
  (ToSet(ExecutionCache(program, c)) \ {n}) \cap UNION {ToSet(Graph[m].parts) : m \in Evaluated(c, n)}

\* state: the tensors that this kernel has accessors of, to read them.
Accessed(c, n) ==
  ({c} \X Read(c, n)) \cup
    {Graph[m].source : m \in {l \in Evaluated(c, n) : Graph[l].op = "tensor"}}

\* collect_capabilities: whether random elements are drawn in this kernel.
IsRandom(c, n) == \E m \in Evaluated(c, n) : Graph[m].op = "uniform"

Kernel == [call : Nat, node : Nodes(program), nonce : Nat, random : BOOLEAN]

\* The SYCL runtime: kernels that have a buffer in common, and one of them writes it.
Conflict(k, l) ==
  \/ <<k.call, k.node>> \in {<<l.call, l.node>>} \cup Accessed(l.call, l.node)
  \/ <<l.call, l.node>> \in Accessed(k.call, k.node)

------------------------------------------------------------------------------

Inputs(p) == {p.graph[n].source : n \in {m \in DOMAIN p.graph : p.graph[m].op = "tensor"}}

Init ==
  /\ program \in Programs
  /\ call = 0
  /\ plan = <<>>
  /\ nonce = 0
  /\ kernels = <<>>
  /\ done = {}
  /\ tensors = [input \in {t \in Inputs(program) : t[1] = 0} |->
                  LET shape == program.graph[input[2]].shape
                  IN  [i \in 0 .. Size(shape) - 1 |->
                         {Fact("input", input, CHOOSE at \in Indices(shape) : Rank(at, shape) = i, {})}]]

\* queue::operator(): the execution cache and its tensors.
Call ==
  /\ plan = <<>>
  /\ call < Len(program.calls)
  /\ call' = call + 1
  /\ plan' = ExecutionCache(program, call + 1)
  /\ tensors' = tensors @@ [t \in {call + 1} \X ToSet(ExecutionCache(program, call + 1)) |->
                              [i \in 0 .. Size(Shape(t[2])) - 1 |-> Unwritten]]
  /\ UNCHANGED <<program, nonce, kernels, done>>

\* add_capability_data: the nonce that the next kernel gets.
Advance(random, size) == IF random THEN nonce + size ELSE nonce

\* execute_single
Submit ==
  /\ plan # <<>>
  /\ LET n      == Head(plan)
         random == IsRandom(call, n)
     IN  /\ kernels' = Append(kernels, [call |-> call, node |-> n, nonce |-> nonce, random |-> random])
         /\ nonce' = Advance(random, KernelSize(n))
  /\ plan' = Tail(plan)
  /\ UNCHANGED <<program, call, done, tensors>>

Run(k) ==
  /\ k \notin done
  /\ \A j \in 1 .. k-1 : Conflict(kernels[j], kernels[k]) => j \in done
  /\ tensors' = [tensors EXCEPT ![<<kernels[k].call, kernels[k].node>>] =
                   [i \in DOMAIN @ |-> IF i \in Written(kernels[k].node)
                                       THEN Value(kernels[k], i)
                                       ELSE @[i]]]
  /\ done' = done \cup {k}
  /\ UNCHANGED <<program, call, plan, nonce, kernels>>

Next == Call \/ Submit \/ \E k \in DOMAIN kernels : Run(k)

Spec == Init /\ [][Next]_vars
------------------------------------------------------------------------------
\* Properties

\* What a call leaves to later ones keeps its types, in every order of calls and kernels.
TypeOK ==
  /\ program \in Programs
  /\ call \in 0 .. Len(program.calls)
  /\ plan \in Seq(Nodes(program))
  /\ nonce \in Nat
  /\ kernels \in Seq(Kernel)
  /\ done \subseteq DOMAIN kernels

\* What expression n of call c means: the elements of the program's input and the random
\* elements that an element depends on.  Nothing of caches, kernels or linear indices is in it.
Meaning ==
  LET meaning[c \in Nat, n \in DOMAIN Graph, index \in Seq(Nat)] ==
        LET e    == Graph[n]
            l    == e.parts[1]
            r    == e.parts[2]
            rank == Len(index)
            sum  == 0 .. Last(Shape(l)) - 1
            at   == Within(index, e.shape)
            new  == Position(e.dim, rank)
        IN  CASE e.op = "tensor" ->
                   IF e.source[1] = 0
                   THEN {Fact("input", e.source, at, {})}
                   ELSE meaning[e.source[1], e.source[2], index]
              [] e.op = "value"     -> {Fact("input", <<0, n>>, at, {})}
              [] e.op = "uniform"   -> {Fact("random", <<c, n>>, at, {})}
              [] e.op = "generator" -> {Fact("random", <<0, n>>, at, {})}
              [] e.op \in {"cast", "cache"} -> meaning[c, l, index]
              [] e.op = "add"       -> meaning[c, l, index] \cup meaning[c, r, index]
              [] e.op = "unsqueeze" ->
                   meaning[c, l, [d \in 1 .. rank-1 |-> IF d < new THEN index[d] ELSE index[d + 1]]]
              [] e.op = "matrix_vector" ->
                   UNION {meaning[c, l, Append(index, k)] \cup meaning[c, r, [index EXCEPT ![rank] = k]] :
                            k \in sum}
              [] e.op = "matrix"    ->
                   UNION {meaning[c, l, [index EXCEPT ![rank] = k]]
                            \cup meaning[c, r, [index EXCEPT ![rank - 1] = k]] : k \in sum}
              [] e.op = "reduce"    -> UNION {meaning[c, l, at2] : at2 \in Indices(Shape(l))}
              [] e.op = "enc"       -> meaning[c, l, Front(index)]
              [] e.op = "dec"       -> meaning[c, l, Append(index, 0)]
  IN  meaning

\* The facts that are in an element, also in one that is encrypted.
Facts(element) == element \cup UNION {fact.data : fact \in {f \in element : f.kind = "limb"}}

Plain(element) ==
  {[fact EXCEPT !.data = {}] : fact \in {f \in Facts(element) : f.kind \notin {"limb", "mask"}}}

\* When a kernel of the queue is done, each element of its tensor has been computed from those
\* elements that its expression says, whatever is cached or inlined, in whatever order kernels
\* ran: the index arithmetic of shape.hpp and index.hpp, the execution cache and the
\* dependencies between kernels fit together.
Meant ==
  \A k \in done :
    LET c     == kernels[k].call
        n     == kernels[k].node
        shape == Shape(n)
    IN  \A index \in Indices(shape) :
          Plain(tensors[<<c, n>>][Rank(index, shape)]) = Meaning[c, n, index]

RandomFacts ==
  {fact \in UNION {UNION {Facts(tensors[t][i]) : i \in DOMAIN tensors[t]} : t \in DOMAIN tensors} :
     fact.kind = "random"}

\* A random expression that a call uses several times has one value there: what the execution
\* cache computes where it is used is drawn only once.
OneValue ==
  \A f, g \in RandomFacts : f.source = g.source /\ f.at = g.at => f = g

\* The limbs of the random engine, with who uses them: a random element, or an encrypted limb.
Uses ==
  LET encrypted == {t \in DOMAIN tensors : t[1] # 0 /\ Graph[t[2]].op = "enc"}
      masks(t)  == {<<<<t, <<i>>>>, UNION {f.data : f \in {f \in tensors[t][i] : f.kind = "mask"}}>> :
                      i \in DOMAIN tensors[t]}
  IN  {<<<<f.source, f.at>>, f.data>> : f \in RandomFacts} \cup UNION {masks(t) : t \in encrypted}

\* Nobody else draws the limbs of a random element or of the key stream for an encrypted one,
\* in the same kernel or another one, as long as a work item needs no more than a block.
OwnLimbs ==
  \A u, v \in Uses : u[1] # v[1] => u[2] \cap v[2] = {}

\* Kernels that draw random elements have nonces of their own, for the lifetime of the queue.
DistinctNonces ==
  \A j, k \in DOMAIN kernels :
    j # k /\ kernels[j].random /\ kernels[k].random => kernels[j].nonce # kernels[k].nonce

\* No result depends on memory that was not written: an expression that is in the cache is
\* computed before those that read it.
Computed ==
  \A k \in done :
    LET tensor == tensors[<<kernels[k].call, kernels[k].node>>]
    IN  \A i \in DOMAIN tensor : Unwritten \cap Facts(tensor[i]) = {}
==============================================================================
