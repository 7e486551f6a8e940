----------------------------- MODULE Expressions -----------------------------
(***************************************************************************)
(* Expressions (hmpc/expr), which a program builds and gives to a          *)
(* computation queue, and the execution cache (hmpc/expr/cache.hpp), which *)
(* decides what the queue computes in kernels of their own.                *)
(*                                                                         *)
(* The expressions of a program are a graph, a sequence of nodes whose     *)
(* parts come before them.  The cache tells expressions apart by their     *)
(* types, and every use of a node has the node's type: so a type is the    *)
(* number of a node.  A node is a record with                              *)
(*   op      what it is                                                    *)
(*   parts   the expressions it is made of, get                            *)
(*   shape   its shape, if it has no parts                                 *)
(*   dim     of unsqueeze, the new dimension                               *)
(*   limbs   how many limbs an element has, as far as it matters           *)
(*   key     of random elements and ciphers, which key they use            *)
(*   stream  of a generator, its offset; of a cipher, its nonce            *)
(*   source  of a tensor, <<call, node>> whose result it is; call 0 stands *)
(*           for the program's input                                       *)
(*                                                                         *)
(* One op stands for all that differ in the function on elements only:     *)
(* "add" is any binary expression, "uniform" also drown_uniform, binomial  *)
(* and centered_binomial, "reduce" any reduction.                          *)
(***************************************************************************)
EXTENDS Indices

CONSTANTS
  Programs,  \* records [graph, calls]; a call is a sequence of expressions, those of one call
  BlockSize  \* limbs in a block of the random engine, engine_type::block_size

Leaf == {"tensor", "value", "uniform", "generator"}

\* enable_caching, and is_complex: expressions that submit kernels themselves.
IsCacheable(e) == e.op \in {"uniform", "reduce", "enc", "dec", "cache"}
IsComplex(e)   == e.op \in {"reduce", "enc", "dec"}

\* The graph with a cache_expression for every node.
WithCaches(graph) == graph \o [n \in DOMAIN graph |-> [graph[n] EXCEPT !.op = "cache", !.parts = <<n>>]]

\* cache: the expression that is computed for expression n of a call
cache(graph, n) == IF IsCacheable(graph[n]) THEN n ELSE Len(graph) + n

------------------------------------------------------------------------------
\* Shapes

MatrixVectorShape(matrix, vector) ==
  [i \in DOMAIN vector |-> IF i < Len(vector) THEN CommonExtent(matrix[i], vector[i]) ELSE matrix[i]]

MatrixShape(left, right) ==
  [i \in DOMAIN left |-> IF i < Len(left) - 1 THEN CommonExtent(left[i], right[i])
                         ELSE IF i = Len(left) - 1 THEN left[i] ELSE right[i]]

\* shape() of all expressions.  A vector's elements count as elements of their own.
Shapes(g) ==
  LET shape[n \in DOMAIN g] ==
        LET e       == g[n]
            part(i) == shape[e.parts[i]]
        IN  CASE e.op \in Leaf            -> e.shape
              [] e.op \in {"cast", "cache"} -> part(1)
              [] e.op = "add"             -> CommonShape(part(1), part(2))
              [] e.op = "unsqueeze"       -> Unsqueeze(part(1), e.dim)
              [] e.op = "matrix_vector"   -> MatrixVectorShape(part(1), part(2))
              [] e.op = "matrix"          -> MatrixShape(part(1), part(2))
              [] e.op = "reduce"          -> <<>>
              [] e.op = "enc"             -> Append(part(1), e.limbs)
              [] e.op = "dec"             -> Front(part(1))
  IN  shape

\* access of part i: whether an element of the part may be evaluated for several elements of
\* the expression
Repeats(g, shape, n, i) ==
  LET e     == g[n]
      own   == shape[e.parts[i]]
      other == shape[e.parts[3 - i]]
  IN  CASE e.op = "add"           -> \/ Len(own) # Len(other)
                                     \/ \E d \in DOMAIN own : own[d] = Placeholder /\ other[d] # Placeholder
        [] e.op = "unsqueeze"     -> TRUE
        [] e.op = "matrix_vector" -> i = 2
        [] e.op = "matrix"        -> TRUE
        [] OTHER                  -> FALSE

------------------------------------------------------------------------------
\* The execution cache

\* All nodes that the expressions of a call are made of.
Reachable(g, tops) ==
  LET reach[n \in DOMAIN g] == {n} \cup UNION {reach[p] : p \in ToSet(g[n].parts)}
  IN  UNION {reach[n] : n \in ToSet(tops)}

\* trace_expression: the ways from n down to the first cacheable expressions.
Ways(g) ==
  LET ways[n \in DOMAIN g] ==
        IF IsCacheable(g[n])
        THEN {[to |-> n, trace |-> <<>>]}
        ELSE UNION {{[way EXCEPT !.trace = <<<<n, i>>>> \o @] : way \in ways[g[n].parts[i]]} :
                      i \in DOMAIN g[n].parts}
  IN  ways

\* trace_expressions: the traces of n, the ways from the parts of cacheable expressions.
Traces(g, tops, n) ==
  LET from(f, i) == {<<<<f, i>>>> \o way.trace : way \in {w \in Ways(g)[g[f].parts[i]] : w.to = n}}
  IN  UNION {UNION {from(f, i) : i \in DOMAIN g[f].parts} :
               f \in {f \in Reachable(g, tops) : IsCacheable(g[f])}}

\* Mutant: whether it is evaluated several times in one place does not matter.
IsInlined_Repeated(g, tops, n) == ~IsComplex(g[n]) /\ Cardinality(Traces(g, tops, n)) = 1

\* Whether n is computed where it is used: that is one place, and it is evaluated once there.
IsInlined(g, tops, n) ==
  /\ ~IsComplex(g[n])
  /\ Cardinality(Traces(g, tops, n)) = 1
  /\ \A trace \in Traces(g, tops, n) :
       \A s \in DOMAIN trace : ~Repeats(g, Shapes(g), trace[s][1], trace[s][2])

\* insert of a type_set
Insert(set, n) == IF n \in ToSet(set) THEN set ELSE Append(set, n)

\* cache_expressions: parts before what they are in; the expressions of the call always.
Cached(g, tops) ==
  LET visit[n \in DOMAIN g] ==
        FlattenSeq([i \in DOMAIN g[n].parts |-> visit[g[n].parts[i]]])
          \o (IF IsCacheable(g[n]) /\ ~IsInlined(g, tops, n) THEN <<n>> ELSE <<>>)
      top(n) == FlattenSeq([i \in DOMAIN g[n].parts |-> visit[g[n].parts[i]]]) \o <<n>>
  IN  FoldLeft(Insert, <<>>, FlattenSeq([t \in DOMAIN tops |-> top(tops[t])]))

\* generate_execution_cache of a call
ExecutionCache(program, call) ==
  LET graph == program.graph
      tops  == program.calls[call]
  IN  Cached(WithCaches(graph), [t \in DOMAIN tops |-> cache(graph, tops[t])])

\* What the kernel of n goes over: a complex expression goes over what it is made of.
ElementShape(program, n) ==
  LET g == WithCaches(program.graph)
  IN  Shapes(g)[IF IsComplex(g[n]) THEN g[n].parts[1] ELSE n]

Nodes(program) == DOMAIN WithCaches(program.graph)

\* The extents of shapes are positive (shape::size asserts it of those that are not in the
\* type), and a call without expressions does not compile.
ASSUME ProgramAssumption ==
  /\ BlockSize \in Nat \ {0}
  /\ \A program \in Programs :
       /\ program.calls \in Seq(Seq(DOMAIN program.graph))
       /\ \A n \in Nodes(program) : Size(ElementShape(program, n)) \in Nat \ {0}
       /\ \A call \in 1..Len(program.calls) : ExecutionCache(program, call) \in Seq(Nodes(program))
==============================================================================
