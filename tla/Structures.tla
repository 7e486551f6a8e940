------------------------------ MODULE Structures ------------------------------
(***************************************************************************)
(* Structures (hmpc/typing/structure.hpp) and how a collective call finds  *)
(* the tensors in them.  A share, a ciphertext or the randomness of one is *)
(* a structure; its parts are tensors or structures.                       *)
(*                                                                         *)
(* A call numbers the tensors of all its values, the fields.  It describes *)
(* them with iter::collect and gets pointers to them with                  *)
(* make_multi_accessors, which count separately.                           *)
(***************************************************************************)
EXTENDS Naturals, Sequences, SequencesExt

Tensor(name, datatype, size) ==
  [structure |-> FALSE, name |-> name, datatype |-> datatype, size |-> size]

Structure(parts) == [structure |-> TRUE, parts |-> parts]

\* structure_fields_v: how many tensors there are in a value.
RECURSIVE structure_fields(_)
structure_fields(value) ==
  IF value.structure
  THEN FoldLeft(LAMBDA n, part : n + structure_fields(part), 0, value.parts)
  ELSE 1

Fields(values) == FoldLeft(LAMBDA n, value : n + structure_fields(value), 0, values)

\* iter::at of one structure, with the index of the part that it has come to.
RECURSIVE AtPart(_, _, _)
AtPart(value, i, index) ==
  LET part   == value.parts[index]
      fields == structure_fields(part)
  IN  IF i < fields
      THEN IF part.structure THEN AtPart(part, i, 1) ELSE part
      ELSE AtPart(value, i - fields, index + 1)

\* iter::at of several values.
RECURSIVE at(_, _)
at(i, values) ==
  LET fields == structure_fields(Head(values))
  IN  IF i < fields
      THEN IF Head(values).structure THEN AtPart(Head(values), i, 1) ELSE Head(values)
      ELSE at(i - fields, Tail(values))

\* structure_field_t, the type that collect takes field i to have.
RECURSIVE structure_field(_, _, _)
structure_field(i, index, values) ==
  LET value == Head(values)
      part  == value.parts[index]
  IN  IF structure_fields(value) <= i
      THEN structure_field(i - structure_fields(value), 1, Tail(values))
      ELSE IF ~value.structure
      THEN value
      ELSE IF structure_fields(part) <= i
      THEN structure_field(i - structure_fields(part), index + 1, <<value>>)
      ELSE IF part.structure THEN structure_field(i, 1, <<part>>) ELSE part

\* make_multi_accessors: the tensor that accessor i is for.
RECURSIVE StructureAccessor(_, _)
StructureAccessor(i, values) ==
  LET first == Head(values)
  IN  IF first.structure
      THEN IF structure_fields(first) <= i
           THEN StructureAccessor(i - structure_fields(first), Tail(values))
           ELSE AtPart(first, i, 1)
      ELSE IF i = 0 THEN first ELSE StructureAccessor(i - 1, Tail(values))

\* Mutant: the first value decides whether there are structures.
Accessor_First(i, values) ==
  IF values[1].structure THEN StructureAccessor(i, values) ELSE values[i + 1]

Accessor(i, values) ==
  IF \E v \in DOMAIN values : values[v].structure
  THEN StructureAccessor(i, values)
  ELSE values[i + 1]

------------------------------------------------------------------------------

\* The tensors of a value from left to right.
RECURSIVE Tensors(_)
Tensors(value) ==
  IF value.structure
  THEN FlattenSeq([p \in DOMAIN value.parts |-> Tensors(value.parts[p])])
  ELSE <<value>>

AllTensors(values) == FlattenSeq([v \in DOMAIN values |-> Tensors(values[v])])

==============================================================================
