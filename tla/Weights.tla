------------------------------- MODULE Weights -------------------------------
(***************************************************************************)
(* The media items of a run and what they weigh.  A set of items weighs as *)
(* many bytes as it has (item, byte) pairs, so the weight of a set is a    *)
(* cardinality and the facts about it are facts about finite sets.         *)
(***************************************************************************)
EXTENDS Integers, FiniteSets

CONSTANTS
    Items,   \* the media items of the todo list handed to Run
    Size     \* Size[i]: the bytes Telegram reports for item i

ASSUME ItemsAssumption == IsFiniteSet(Items)

ASSUME SizeAssumption == Size \in [Items -> Nat]

ItemBytes(i) == {i} \X (1 .. Size[i])

BytesOf(S) == UNION {ItemBytes(i) : i \in S}

Bytes(S) == Cardinality(BytesOf(S))
=============================================================================
