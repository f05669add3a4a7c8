------------------------------ MODULE MCCommand -----------------------------
(* Command and the pure functions next to it, for TLC.                      *)
EXTENDS Command

CONSTANTS p1, p2, w1, w2

MCRuns == (p1 :> {"sync"}) @@ (p2 :> {"sync", "verify", "list", "doctor"})
MCDialogs == {1, -1, 12}
MCNameChars == {0, 1, 2, Sep, Minus, 12}
=============================================================================
