------------------------------ MODULE Uploader ------------------------------
(***************************************************************************)
(* uploader.upload for one finished file: the move to the remote, the      *)
(* confirmation that the object has the right size, and the retries, each  *)
(* of which first settles what the last attempt left behind.               *)
(*                                                                         *)
(* The remote, as the code's comments describe pikpak: it commits an       *)
(* upload as a task of its own that may land long after rclone gave up on  *)
(* it, it keeps what a died-halfway upload wrote under the final name, and *)
(* it allows several objects of one name, of which a lookup returns one.   *)
(***************************************************************************)
EXTENDS Integers

CONSTANTS
    UploadAttempts,  \* moves offered to the remote before giving up
    Faults           \* what the environment may do wrong

ASSUME UploaderAssumption ==
    /\ UploadAttempts \in Nat \ {0}
    /\ Faults \subseteq {"halfway", "short", "pending", "unmoved", "lookup",
                         "delete", "unstage", "cancel"}

VARIABLES
    stage,      \* what upload does next for the file, or how it returned
    attempt,    \* the attempt it is in
    staged,     \* the file is in staging
    whole,      \* objects of its name on the remote, of its size
    fragments,  \* objects of its name on the remote, of a wrong size
    pending,    \* uploads the remote has accepted and may yet commit
    late,       \* how many of those it has committed
    replacing,  \* 1 while a move overwrites a fragment
    looked,     \* every lookup of settle and of confirm got an answer
    dirty,      \* a fragment could not be deleted, and an error says so
    confirm,    \* -confirm: the operator wants each uploaded object re-stated
    cancelled   \* the run's context is done

remote == <<whole, fragments, pending, late>>
run == <<confirm, cancelled>>
vars == <<stage, attempt, staged, remote, replacing, looked, dirty, run>>

Init ==
    /\ stage = "move" /\ attempt = 1 /\ staged = TRUE
    /\ whole = 0 /\ fragments = 0 /\ pending = 0 /\ late = 0
    /\ replacing = 0 /\ looked = TRUE /\ dirty = FALSE
    /\ confirm \in BOOLEAN /\ cancelled = FALSE

Absent == whole = 0 /\ fragments = 0

-----------------------------------------------------------------------------
(***************************************************************************)
(* operations.MoveFile (rclone): looks both names up, uploads unless the   *)
(* remote already has the file, and removes the source.                    *)
(***************************************************************************)
(* A move that failed before it wrote anything.                            *)
MoveFails ==
    /\ stage = "move"
    /\ stage' = "failed"
    /\ UNCHANGED <<attempt, staged, remote, looked, dirty, run, replacing>>

(* The remote has the file: only the source has to go.                     *)
MoveFindsWhole ==
    /\ stage = "move" /\ staged /\ whole > 0
    /\ \/ staged' = FALSE /\ stage' = "confirm"
       \/ "unmoved" \in Faults /\ stage' = "failed" /\ UNCHANGED staged
    /\ UNCHANGED <<attempt, remote, looked, dirty, run, replacing>>

\* a regression: the moves no longer look at the destination first
MoveStartsUnchecked ==
    /\ stage = "move" /\ staged
    /\ replacing' = 0
    /\ stage' = "sending"
    /\ UNCHANGED <<attempt, staged, remote, looked, dirty, run>>

(* Otherwise it uploads, over the fragment if the lookup found one.        *)
MoveStarts ==
    /\ stage = "move" /\ staged
    /\ \/ Absent /\ replacing' = 0
       \/ fragments > 0 /\ replacing' = 1
    /\ stage' = "sending"
    /\ UNCHANGED <<attempt, staged, remote, looked, dirty, run>>

(* An object is written, whole or as a fragment; what it replaces is gone. *)
Writes(wholes, frags) ==
    /\ whole' = whole + wholes
    /\ fragments' = fragments + frags - replacing
    /\ UNCHANGED <<attempt, pending, replacing, late, looked, dirty, run>>

MoveArrives ==
    /\ stage = "sending"
    /\ Writes(1, 0)
    /\ \/ staged' = FALSE /\ stage' = "confirm"
       \/ "unmoved" \in Faults /\ stage' = "failed" /\ UNCHANGED staged

(* The move reports success for an object that arrived short.              *)
MoveArrivesShort ==
    /\ stage = "sending" /\ "short" \in Faults
    /\ Writes(0, 1)
    /\ staged' = FALSE
    /\ stage' = "confirm"

MoveDiesHalfway ==
    /\ stage = "sending" /\ "halfway" \in Faults
    /\ Writes(0, 1)
    /\ stage' = "failed"
    /\ UNCHANGED staged

(* rclone gives up on a task that is still pending.                        *)
MoveStaysPending ==
    /\ stage = "sending" /\ "pending" \in Faults
    /\ pending' = pending + 1
    /\ stage' = "failed"
    /\ UNCHANGED <<attempt, staged, whole, fragments, replacing, late, looked, dirty,
                   run>>

(* The remote commits such a task after all, or it never does.             *)
CommitLate ==
    /\ pending > 0
    /\ pending' = pending - 1
    /\ whole' = whole + 1
    /\ late' = late + 1
    /\ UNCHANGED <<stage, attempt, staged, fragments, replacing, looked, dirty, run>>

-----------------------------------------------------------------------------
(***************************************************************************)
(* attempt: the confirmation.                                              *)
(***************************************************************************)
ConfirmSkipped ==
    /\ stage = "confirm" /\ ~confirm
    /\ stage' = "ok"
    /\ UNCHANGED <<attempt, staged, remote, looked, dirty, run, replacing>>

\* a regression: the object is found and its size not compared
ConfirmAny ==
    /\ stage = "confirm" /\ confirm /\ ~Absent
    /\ stage' = "ok"
    /\ UNCHANGED <<attempt, staged, remote, looked, dirty, run, replacing>>

ConfirmWhole ==
    /\ stage = "confirm" /\ confirm /\ whole > 0
    /\ stage' = "ok"
    /\ UNCHANGED <<attempt, staged, remote, looked, dirty, run, replacing>>

ConfirmNothing ==
    /\ stage = "confirm" /\ confirm
    /\ Absent \/ "lookup" \in Faults
    /\ stage' = "failed"
    /\ looked' = (looked /\ Absent)
    /\ UNCHANGED <<attempt, staged, remote, dirty, run, replacing>>

\* a regression: the first object of the name is deleted, whatever its size
DeleteFirst ==
    \/ IF whole > 0
         THEN whole' = whole - 1 /\ UNCHANGED <<fragments, dirty>>
         ELSE fragments' = fragments - 1 /\ UNCHANGED <<whole, dirty>>
    \/ "delete" \in Faults /\ dirty' = TRUE /\ UNCHANGED <<whole, fragments>>

(* remove, on a context of its own.                                        *)
DeleteFragment ==
    \/ fragments' = fragments - 1 /\ UNCHANGED <<whole, dirty>>
    \/ "delete" \in Faults /\ dirty' = TRUE /\ UNCHANGED <<whole, fragments>>

ConfirmFragment ==
    /\ stage = "confirm" /\ confirm /\ fragments > 0
    /\ DeleteFragment
    /\ stage' = "failed"
    /\ UNCHANGED <<attempt, staged, pending, late, looked, run, replacing>>

-----------------------------------------------------------------------------
(***************************************************************************)
(* The retry loop.                                                         *)
(***************************************************************************)
GiveUp ==
    /\ stage = "failed"
    /\ attempt >= UploadAttempts \/ cancelled
    /\ stage' = "err"
    /\ UNCHANGED <<attempt, staged, remote, looked, dirty, run, replacing>>

\* a regression: one attempt too many
BackOffBeyond ==
    /\ stage = "failed" /\ attempt <= UploadAttempts /\ ~cancelled
    /\ attempt' = attempt + 1
    /\ stage' = "backoff"
    /\ UNCHANGED <<staged, remote, looked, dirty, run, replacing>>

\* a regression: the attempts are not counted
BackOffUncounted ==
    /\ stage = "failed" /\ attempt < UploadAttempts /\ ~cancelled
    /\ stage' = "backoff"
    /\ UNCHANGED <<attempt, staged, remote, looked, dirty, run, replacing>>

BackOff ==
    /\ stage = "failed" /\ attempt < UploadAttempts /\ ~cancelled
    /\ attempt' = attempt + 1
    /\ stage' = "backoff"
    /\ UNCHANGED <<staged, remote, looked, dirty, run, replacing>>

BackedOff ==
    /\ stage = "backoff"
    /\ stage' \in IF cancelled THEN {"settle", "err"} ELSE {"settle"}
    /\ UNCHANGED <<attempt, staged, remote, looked, dirty, run, replacing>>

SettleNothing ==
    /\ stage = "settle"
    /\ Absent \/ "lookup" \in Faults
    /\ stage' = "move"
    /\ looked' = (looked /\ Absent)
    /\ UNCHANGED <<attempt, staged, remote, dirty, run, replacing>>

(* The upload landed after all.  The staged copy is removed here; when     *)
(* that fails upload drops the error and returns nil: the copy is kept.    *)
SettleLanded ==
    /\ stage = "settle" /\ whole > 0
    /\ \/ staged' = FALSE /\ stage' = "ok"
       \/ "unstage" \in Faults /\ staged /\ stage' = "kept" /\ UNCHANGED staged
    /\ UNCHANGED <<attempt, remote, looked, dirty, run, replacing>>

\* a regression: settle sees the fragment and leaves it
SettleFragmentKeeping ==
    /\ stage = "settle" /\ fragments > 0
    /\ stage' = "move"
    /\ UNCHANGED <<attempt, staged, remote, looked, dirty, run, replacing>>

SettleFragment ==
    /\ stage = "settle" /\ fragments > 0
    /\ DeleteFragment
    /\ stage' = "move"
    /\ UNCHANGED <<attempt, staged, pending, late, looked, run, replacing>>

Cancel ==
    /\ "cancel" \in Faults /\ ~cancelled
    /\ cancelled' = TRUE
    /\ UNCHANGED <<stage, attempt, staged, remote, looked, dirty, replacing, confirm>>

Returned == stage \in {"ok", "kept", "err"} /\ UNCHANGED vars

Steps ==
    \/ MoveFails \/ MoveFindsWhole
    \/ MoveStarts \/ MoveArrives \/ MoveArrivesShort \/ MoveDiesHalfway
    \/ MoveStaysPending
    \/ ConfirmSkipped \/ ConfirmWhole \/ ConfirmNothing \/ ConfirmFragment
    \/ GiveUp \/ BackOff \/ BackedOff
    \/ SettleNothing \/ SettleLanded \/ SettleFragment

Next == Steps \/ CommitLate \/ Cancel \/ Returned

Spec == Init /\ [][Next]_vars

(* Moves, lookups and deletions return, and the backoff timer fires; the   *)
(* remote need not commit anything.                                        *)
FairSpec == Spec /\ WF_vars(Steps)
-----------------------------------------------------------------------------
(* Every variable stays in its type.                                       *)
TypeOK ==
    /\ stage \in {"move", "sending", "confirm", "failed", "backoff", "settle", "ok",
                  "kept", "err"}
    /\ attempt \in 1 .. UploadAttempts
    /\ staged \in BOOLEAN
    /\ whole \in Nat /\ fragments \in Nat /\ pending \in Nat
    /\ late \in Nat /\ replacing \in {0, 1}
    /\ looked \in BOOLEAN /\ dirty \in BOOLEAN
    /\ confirm \in BOOLEAN /\ cancelled \in BOOLEAN

(* An upload that returns nil has put the file on the remote, whichever of *)
(* its attempts did it: the whole file when it was confirmed; without the  *)
(* confirmation, the whole file unless the move called a short object a    *)
(* success.  And it has taken the file off local disk, so that releasing   *)
(* its bytes is right, unless settle could not remove it and said nothing. *)
OkIsArchived ==
    /\ stage \in {"ok", "kept"} => whole > 0 \/ (~confirm /\ fragments > 0)
    /\ stage = "ok" => ~staged

(* No step of the uploader takes a whole object off the remote, even when  *)
(* it shares its name with a fragment.                                     *)
WholeKept == [][whole' >= whole]_vars

(* One file becomes several objects of its size only by commits that came  *)
(* after rclone gave up on them: no retry uploads what has landed.         *)
OneUploadLands == whole <= 1 + late

(* A retry starts from a clean name: what the last attempt left under it   *)
(* is gone, unless a lookup or a deletion failed.                          *)
RetryIsClean ==
    stage = "move" /\ attempt > 1 => fragments = 0 \/ dirty \/ ~looked

(* upload returns.                                                         *)
Ends == <>(stage \in {"ok", "kept", "err"})
=============================================================================
