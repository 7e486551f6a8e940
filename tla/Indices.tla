------------------------------- MODULE Indices -------------------------------
(***************************************************************************)
(* Shapes of tensors (hmpc/shape.hpp) and indices into them                *)
(* (hmpc/index.hpp).  A shape is a sequence of extents, an index one of    *)
(* coordinates.  A placeholder is an extent that takes any coordinate: the *)
(* shape it is in can be combined with one that has an extent there.       *)
(***************************************************************************)
EXTENDS Integers, Sequences, SequencesExt, FiniteSets

Placeholder == 0

\* shape::size
Size(shape) ==
  FoldLeft(LAMBDA size, extent : IF extent = Placeholder THEN size ELSE size * extent, 1, shape)

CommonExtent(left, right) == IF left = Placeholder THEN right ELSE left

\* A shape of rank 0 goes with every shape, and any other with shapes of its rank.
CommonShape(left, right) ==
  IF left = <<>> THEN right
  ELSE IF right = <<>> THEN left
  ELSE [i \in DOMAIN left |-> CommonExtent(left[i], right[i])]

\* Where dimension dim is among rank dimensions; negative ones count from the end.
Position(dim, rank) == (IF dim < 0 THEN rank + dim ELSE dim) + 1

\* unsqueeze of a shape, which gets one more dimension, and of an index for the new shape,
\* from which it makes one for the old shape.
Unsqueeze(shape, dim) == InsertAt(shape, Position(dim, Len(shape) + 1), Placeholder)
UnsqueezeIndex(index, dim) == RemoveAt(index, Position(dim, Len(index)))

\* Mutant: the extents are taken in the wrong order.
ToLinear_Columns(index, shape) ==
  FoldRightDomain(LAMBDA i, linear : IF shape[i] = Placeholder
                                     THEN linear
                                     ELSE linear * shape[i] + index[i],
                  shape, 0)

\* to_linear_index
ToLinear(index, shape) ==
  FoldLeftDomain(LAMBDA linear, i : IF shape[i] = Placeholder
                                    THEN linear
                                    ELSE linear * shape[i] + index[i],
                 0, shape)

\* from_linear_index; nobody looks at the coordinate of a placeholder.
FromLinear(linear, shape) ==
  [i \in DOMAIN shape |->
     IF shape[i] = Placeholder
     THEN 0
     ELSE (linear \div Size(SubSeq(shape, i + 1, Len(shape)))) % shape[i]]

------------------------------------------------------------------------------

\* What the functions above should do: the elements of a tensor are in the order of their
\* indices, and there is one element for each index.
Indices(shape) ==
  {index \in [DOMAIN shape -> 0..9] :
     \A i \in DOMAIN shape : index[i] < (IF shape[i] = Placeholder THEN 1 ELSE shape[i])}

Before(one, other) ==
  \E i \in DOMAIN one : one[i] < other[i] /\ \A j \in 1..(i-1) : one[j] = other[j]

\* The coordinates that count, in a tensor of this shape.
Within(index, shape) == [i \in DOMAIN shape |-> IF shape[i] = Placeholder THEN 0 ELSE index[i]]

Rank(index, shape) ==
  Cardinality({other \in Indices(shape) : Before(other, Within(index, shape))})
==============================================================================
