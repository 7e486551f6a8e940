---------------------------- MODULE MCConsistency ----------------------------
(***************************************************************************)
(* Instances of Consistency for TLC.                                       *)
(***************************************************************************)
EXTENDS Consistency, TLC

CONSTANTS p1, p2, p3, k1

\* One message for three receivers.
One == k1 :> {p1, p2, p3}

\* The receivers of a message are alike.
Symmetry == Permutations(Party)
=============================================================================
