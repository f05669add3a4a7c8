---------------------------- MODULE StagingBudget ----------------------------
(***************************************************************************)
(* What the -m flag promises, with no goroutine in sight: a set of items   *)
(* holds reservations in staging, one item joins it only if its bytes fit  *)
(* under the cap, one item leaves it at a time.  Pipeline implements this  *)
(* with a weighted semaphore that is acquired in one place and released in *)
(* six.                                                                    *)
(***************************************************************************)
EXTENDS Staging

VARIABLE held   \* the items whose bytes are reserved

Fits(S) == Budget # 0 => Bytes(S) <= Budget

Init == held = {}

Admit(i) ==
    /\ i \notin held
    /\ Fits(held \cup {i})
    /\ held' = held \cup {i}

Return(i) ==
    /\ i \in held
    /\ held' = held \ {i}

Next == \E i \in Items : Admit(i) \/ Return(i)

Spec == Init /\ [][Next]_held
=============================================================================
