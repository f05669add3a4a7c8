----------------------------- MODULE MCPipeline -----------------------------
(***************************************************************************)
(* Small instances of Pipeline for TLC.                                    *)
(***************************************************************************)
EXTENDS Pipeline, TLC

CONSTANTS a, b, c

\* every item weighs one byte
UnitSize == [i \in Items |-> 1]

\* a file of two bytes, one of one byte, an empty one
MixedSize == [i \in Items |-> IF i = a THEN 2 ELSE IF i = b THEN 1 ELSE 0]

Symmetry == Permutations(Items)
=============================================================================
