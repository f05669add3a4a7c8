------------------------------- MODULE Staging -------------------------------
(***************************************************************************)
(* The staging directory as the run accounts for it: the media items, the  *)
(* bytes each one occupies, and the byte budget of                         *)
(* internal/pipeline/pipeline.go (the -m flag).                            *)
(***************************************************************************)
EXTENDS Weights

CONSTANT
    Budget   \* bytes allowed in staging at once; 0 means unbounded

(* validateBudget (cmd/tgexport/sync.go) refuses a cap below the largest   *)
(* file before Run is ever called.                                         *)
ASSUME BudgetAssumption ==
    /\ Budget \in Nat
    /\ Budget # 0 => \A i \in Items : Size[i] <= Budget
=============================================================================
