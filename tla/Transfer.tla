------------------------------ MODULE Transfer ------------------------------
(***************************************************************************)
(* One file on local disk: the parts core's downloader fetches into        *)
(* <name>.part, what finish makes of them, the passes of a run, and a      *)
(* process that may die at any point and be started again.                 *)
(*                                                                         *)
(* core fetches a file over Threads connections.  Each one claims the next *)
(* part, in order, and writes it at its own offset, so with more than one  *)
(* of them the parts land out of order.  A part that cannot be fetched     *)
(* ends the transfer; core logs that error and returns nil.                *)
(***************************************************************************)
EXTENDS Integers, FiniteSets

CONSTANTS
    Parts,     \* how many parts the file has; 0 is an empty file
    Threads,   \* connections per file
    Attempts,  \* passes a run makes over a failed item
    Restarts,  \* how often the process may die (a bound of the model)
    Faults     \* what the environment may do wrong

ASSUME TransferAssumption ==
    /\ Parts \in Nat
    /\ Threads \in Nat \ {0}
    /\ Attempts \in Nat \ {0}
    /\ Restarts \in Nat
    /\ Faults \subseteq {"fetch", "cancel", "remove", "rename"}

VARIABLES
    stage,     \* where the item is in its pass
    partFile,  \* <name>.part exists
    written,   \* the parts of the file that are in it; the rest are holes
    next,      \* the next part to claim
    flying,    \* the parts claimed and not yet written
    broken,    \* a part failed: the transfer is ending
    cause,     \* elem.cause: the error core logged
    returned,  \* the error core returned: only ever a cancellation
    final,     \* what is under <name>: nothing, the whole file, or a file with holes
    stuck,     \* a .part file could not be removed
    attempt,
    restarts

transfer == <<next, flying, broken, cause, returned>>
vars == <<stage, partFile, written, transfer, final, stuck, attempt, restarts>>

Init ==
    /\ stage = "todo"
    /\ partFile = FALSE /\ written = {}
    /\ next = 1 /\ flying = {}
    /\ broken = FALSE /\ cause = FALSE /\ returned = FALSE
    /\ final = "absent" /\ stuck = FALSE
    /\ attempt = 1 /\ restarts = 0

(* elemIter.Next opens with O_CREATE and without O_TRUNC: what an earlier  *)
(* pass could not remove is still in the file.                             *)
OpenPart ==
    /\ stage = "todo"
    /\ stage' = "fetching"
    /\ partFile' = TRUE
    /\ next' = 1 /\ flying' = {}
    /\ broken' = FALSE /\ cause' = FALSE /\ returned' = FALSE
    /\ stuck' = FALSE
    /\ UNCHANGED <<written, final, attempt, restarts>>

Claim ==
    /\ stage = "fetching" /\ ~broken
    /\ next <= Parts /\ Cardinality(flying) < Threads
    /\ next' = next + 1
    /\ flying' = flying \cup {next}
    /\ UNCHANGED <<stage, partFile, written, broken, cause, returned, final, stuck,
                   attempt, restarts>>

(* A part in flight when the transfer ends may still land.                 *)
Land(p) ==
    /\ p \in flying
    /\ flying' = flying \ {p}
    /\ written' = written \cup {p}
    /\ UNCHANGED <<stage, partFile, next, broken, cause, returned, final, stuck,
                   attempt, restarts>>

FetchFails(p) ==
    /\ p \in flying /\ ~broken /\ "fetch" \in Faults
    /\ flying' = flying \ {p}
    /\ broken' = TRUE /\ cause' = TRUE
    /\ UNCHANGED <<stage, partFile, written, next, returned, final, stuck,
                   attempt, restarts>>

CancelTransfer ==
    /\ stage = "fetching" /\ ~broken /\ "cancel" \in Faults
    /\ broken' = TRUE /\ returned' = TRUE
    /\ UNCHANGED <<stage, partFile, written, next, flying, cause, final, stuck,
                   attempt, restarts>>

Abandon(p) ==
    /\ p \in flying /\ broken
    /\ flying' = flying \ {p}
    /\ UNCHANGED <<stage, partFile, written, next, broken, cause, returned, final, stuck,
                   attempt, restarts>>

TransferEnds ==
    /\ stage = "fetching" /\ flying = {}
    /\ broken \/ next > Parts
    /\ stage' = "finishing"
    /\ UNCHANGED <<partFile, written, transfer, final, stuck, attempt, restarts>>

-----------------------------------------------------------------------------
(* checkSize.  Parts are written at their offsets, so a file is as long as *)
(* the last part it has, holes included.                                   *)
SizeMatches == Parts = 0 \/ Parts \in written

\* a regression: the error core returned is not looked at either
AcceptedAnyway == SizeMatches

(* downloadErr stays nil: cause is consulted only to explain a wrong size. *)
Accepted == ~returned /\ SizeMatches

Content == IF written = 1 .. Parts THEN "whole" ELSE "holed"

Promote ==
    /\ stage = "finishing" /\ Accepted
    /\ final' = Content
    /\ partFile' = FALSE /\ written' = {}
    /\ stage' = "fetched"
    /\ UNCHANGED <<transfer, stuck, attempt, restarts>>

\* a regression: finish leaves the .part file of a failed transfer in place
RejectKeeping ==
    /\ stage = "finishing"
    /\ ~Accepted \/ "rename" \in Faults
    /\ stage' = "failed"
    /\ UNCHANGED <<partFile, written, stuck, transfer, final, attempt, restarts>>

(* The transfer failed, or its rename did: the .part file is removed.      *)
Reject ==
    /\ stage = "finishing"
    /\ ~Accepted \/ "rename" \in Faults
    /\ \/ partFile' = FALSE /\ written' = {} /\ UNCHANGED stuck
       \/ "remove" \in Faults /\ stuck' = TRUE /\ UNCHANGED <<partFile, written>>
    /\ stage' = "failed"
    /\ UNCHANGED <<transfer, final, attempt, restarts>>

\* a regression: the passes are not counted
RetryUncounted ==
    /\ stage = "failed" /\ attempt < Attempts /\ ~returned
    /\ stage' = "todo"
    /\ UNCHANGED <<partFile, written, transfer, final, stuck, attempt, restarts>>

\* a regression: one pass too many
RetryBeyond ==
    /\ stage = "failed" /\ attempt <= Attempts /\ ~returned
    /\ attempt' = attempt + 1
    /\ stage' = "todo"
    /\ UNCHANGED <<partFile, written, transfer, final, stuck, restarts>>

(* Run's next pass; a cancelled run makes none.                            *)
RetryPass ==
    /\ stage = "failed" /\ attempt < Attempts /\ ~returned
    /\ attempt' = attempt + 1
    /\ stage' = "todo"
    /\ UNCHANGED <<partFile, written, transfer, final, stuck, restarts>>

Crash ==
    /\ stage # "down" /\ restarts < Restarts
    /\ restarts' = restarts + 1
    /\ stage' = "down"
    /\ flying' = {}
    /\ UNCHANGED <<partFile, written, next, broken, cause, returned, final, stuck, attempt>>

(* The next sync: SweepPartials, which must succeed for it to go on, and   *)
(* the item is still outstanding.                                          *)
Restart ==
    /\ stage = "down"
    /\ partFile' = FALSE /\ written' = {} /\ stuck' = FALSE
    /\ stage' = "todo" /\ attempt' = 1
    /\ UNCHANGED <<transfer, final, restarts>>

Over ==
    /\ stage = "fetched" \/ (stage = "failed" /\ (attempt = Attempts \/ returned))
    /\ UNCHANGED vars

Steps ==
    \/ OpenPart \/ Claim \/ TransferEnds \/ Promote \/ Reject \/ RetryPass \/ Restart
    \/ \E p \in 1 .. Parts : Land(p) \/ FetchFails(p) \/ Abandon(p)

Next == Steps \/ CancelTransfer \/ Crash \/ Over

Spec == Init /\ [][Next]_vars

(* Every part that is claimed lands, fails or is abandoned, and the run's  *)
(* own steps are taken; nobody has to cancel or crash.                     *)
FairSpec == Spec /\ WF_vars(Steps)
-----------------------------------------------------------------------------
(* Every variable stays in its type.                                       *)
TypeOK ==
    /\ stage \in {"todo", "fetching", "finishing", "fetched", "failed", "down"}
    /\ partFile \in BOOLEAN
    /\ written \subseteq 1 .. Parts
    /\ next \in 1 .. (Parts + 1)
    /\ flying \subseteq 1 .. Parts
    /\ broken \in BOOLEAN /\ cause \in BOOLEAN /\ returned \in BOOLEAN
    /\ final \in {"absent", "whole", "holed"}
    /\ stuck \in BOOLEAN
    /\ attempt \in 1 .. Attempts
    /\ restarts \in 0 .. Restarts

(* download.go: a name without the suffix is always a whole file.          *)
FinalIsWhole == final # "holed"

(* It is, but for one case: core had logged why a part failed, finish had  *)
(* the reason in hand, and the file was nonetheless of the right length.   *)
HolesAreLogged == final = "holed" /\ stage = "fetched" => cause

(* Between transfers no .part file is left, unless it could not be         *)
(* removed: neither a failed transfer nor a dead process leaves one behind.*)
PartialsSwept == stage \in {"todo", "fetched", "failed"} => ~partFile \/ stuck

(* An item is either fetched or failed in the end, in a run that follows   *)
(* the last crash.                                                         *)
Settles == <>[](stage \in {"fetched", "failed"})
=============================================================================
