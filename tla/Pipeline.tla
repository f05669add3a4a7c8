------------------------------ MODULE Pipeline ------------------------------
(***************************************************************************)
(* One call of pipeline.Run: the dispatch loop that pulls items through    *)
(* elemIter.Next, the download workers of Download, the upload workers,    *)
(* the byte budget they share, the two circuit breakers, and the passes    *)
(* Run makes over the items that failed.                                   *)
(*                                                                         *)
(* An item has a download stage dl[i] (where the download leg of the       *)
(* current pass has it) and an upload stage ul[i] (where the upload leg    *)
(* has it).  The two overlap: once a worker has sent an item on the        *)
(* channel, the upload leg may finish with it before the download worker   *)
(* has counted it.                                                         *)
(*                                                                         *)
(*   dl: idle -> todo -> pulled -> reserved -> opened -> running           *)
(*         running -> promoted -> sent -> ended               (a success)  *)
(*         running -> failing -> released (-> tripping) -> ended           *)
(*         reserved -> (refused ->) ended | skipped | dropped              *)
(*   ul: none -> queued -> checking -> moving (-> clearing)                *)
(*         -> releasing -> counting -> ended                               *)
(*                                                                         *)
(* The order in which a pass visits its items is any order.                *)
(***************************************************************************)
EXTENDS Staging

CONSTANTS
    Limit,        \* files downloading at once
    Uploads,      \* files uploading at once, and the capacity of the channel
    MaxFailures,  \* consecutive failures that trip a leg
    Attempts,     \* downloadAttempts: passes over the failed items
    Confirm,      \* -confirm: an upload is checked before it counts as one
    Faults        \* what the environment may do wrong in a run

FaultKinds == {"transfer", "upload", "late", "short", "full", "remove", "gone",
               "refresh", "unsafe", "open", "walk", "cancel"}

ASSUME OptionsAssumption ==
    /\ Limit \in Nat \ {0}
    /\ Uploads \in Nat \ {0}
    /\ MaxFailures \in Nat \ {0}
    /\ Attempts \in Nat \ {0}
    /\ Confirm \in BOOLEAN
    /\ Faults \subseteq FaultKinds

VARIABLES
    \* the download leg of the current pass
    dl,         \* dl[i]: the download stage of item i
    iterOver,   \* elemIter.Next has returned false
    passErr,    \* the pass ends with an error: elemIter.failure, or a worker's cancellation
    dlStreak,   \* progress.streak
    dlTripped,  \* progress.tripped
    passOut,    \* the Outcome list of the pass, by item
    \* the upload leg
    ul,         \* ul[i]: the upload stage of item i
    upErr,      \* why the upload of item i failed
    upStreak,   \* streak
    upTripped,  \* tripped
    guardFailed,\* spaceGuard.failed is set
    \* shared by both legs
    used,       \* bytes acquired from the budget's semaphore
    stop,       \* stopDownloads
    part,       \* items with a .part file in staging
    final,      \* items with a finished file in staging
    stuck,      \* items whose file in staging could not be removed
    archived,   \* items whole on the remote
    short,      \* items whose object is short of what its upload reported moved
    \* Run itself
    phase,      \* a pass, the wait before the next one, the drain, or done
    attempt,    \* the number of the current pass
    outcome,    \* dlOutcomes, by item
    stats,      \* Stats: Started, Done, Failed
    dlErr,      \* dlErrs holds an error of a pass
    srcErr,     \* dlErrs holds ErrSourceFailing
    cancelled   \* the run's context is done

iterVars == <<iterOver, passErr>>
dlBreaker == <<dlStreak, dlTripped>>
upBreaker == <<upStreak, upTripped>>
disk == <<part, final, stuck>>
runVars == <<phase, attempt, outcome, dlErr, srcErr>>
vars == <<dl, ul, iterVars, dlBreaker, passOut, upErr, upBreaker, guardFailed,
          used, stop, disk, archived, short, runVars, stats, cancelled>>

InHand == {"pulled", "reserved", "opened", "refused"}
InWorker == {"running", "promoted", "failing", "sent", "released", "tripping"}
AtRest == {"idle", "ended", "skipped", "dropped"}
DlStages == InHand \cup InWorker \cup AtRest \cup {"todo"}

InUploader == {"checking", "moving", "clearing", "releasing", "counting"}
UlStages == InUploader \cup {"none", "queued", "ended"}

\* where an item stands when its bytes are charged to the budget
DlHolds == {"reserved", "opened", "running", "promoted", "failing"}
UlHolds == {"queued", "checking", "moving", "clearing", "releasing"}

Dispatching == {i \in Items : dl[i] \in InHand}
Workers == {i \in Items : dl[i] \in InWorker}
Queued == {i \in Items : ul[i] = "queued"}
Uploading == {i \in Items : ul[i] \in InUploader}
Holders == {i \in Items : dl[i] \in DlHolds \/ ul[i] \in UlHolds}
Skipped == {i \in Items : dl[i] = "skipped"}
FailedItems == {i \in Items : passOut[i] = "failed"}
LostUploads == {i \in Items : ul[i] = "ended" /\ upErr[i] # "none"}

Init ==
    /\ dl = [i \in Items |-> "todo"]
    /\ ul = [i \in Items |-> "none"]
    /\ iterOver = FALSE /\ passErr = FALSE
    /\ dlStreak = 0 /\ dlTripped = FALSE
    /\ passOut = [i \in Items |-> "none"]
    /\ upErr = [i \in Items |-> "none"]
    /\ upStreak = 0 /\ upTripped = FALSE /\ guardFailed = FALSE
    /\ used = 0 /\ stop = FALSE
    /\ part = {} /\ final = {} /\ stuck = {} /\ archived = {} /\ short = {}
    /\ phase = "pass" /\ attempt = 1
    /\ outcome = [i \in Items |-> "none"]
    /\ stats = [started |-> 0, done |-> 0, failed |-> 0]
    /\ dlErr = FALSE /\ srcErr = FALSE /\ cancelled = FALSE

Download(i, stage) == dl' = [dl EXCEPT ![i] = stage]
Upload(i, stage) == ul' = [ul EXCEPT ![i] = stage]

-----------------------------------------------------------------------------
(***************************************************************************)
(* elemIter.Next, called by the dispatch loop.  It holds one item at a     *)
(* time and is called again once the item has a worker.                    *)
(***************************************************************************)
InNext == phase = "pass" /\ ~iterOver /\ Dispatching = {}

IterEnds(err) ==
    /\ iterOver' = TRUE
    /\ passErr' = (passErr \/ err)

NextStopped ==
    /\ InNext /\ stop
    /\ IterEnds(FALSE)
    /\ UNCHANGED <<dl, ul, dlBreaker, passOut, upErr, upBreaker, guardFailed,
                   used, stop, disk, archived, short, runVars, stats, cancelled>>

NextCancelled ==
    /\ InNext /\ ~stop /\ cancelled
    /\ IterEnds(TRUE)
    /\ UNCHANGED <<dl, ul, dlBreaker, passOut, upErr, upBreaker, guardFailed,
                   used, stop, disk, archived, short, runVars, stats, cancelled>>

NextExhausted ==
    /\ InNext /\ ~stop /\ ~cancelled
    /\ \A i \in Items : dl[i] # "todo"
    /\ IterEnds(FALSE)
    /\ UNCHANGED <<dl, ul, dlBreaker, passOut, upErr, upBreaker, guardFailed,
                   used, stop, disk, archived, short, runVars, stats, cancelled>>

(* Only the first pass draws from the caller's sequence; a retry pass      *)
(* draws from itemsSeq, which cannot fail.                                 *)
NextWalkFails ==
    /\ InNext /\ ~stop /\ ~cancelled
    /\ "walk" \in Faults /\ attempt = 1
    /\ IterEnds(TRUE)
    /\ UNCHANGED <<dl, ul, dlBreaker, passOut, upErr, upBreaker, guardFailed,
                   used, stop, disk, archived, short, runVars, stats, cancelled>>

(* An unsafe name is skipped before anything is reserved for it.  A name   *)
(* does not change, so one that got past the first pass is safe.           *)
NextUnsafe(i) ==
    /\ InNext /\ ~stop /\ ~cancelled
    /\ dl[i] = "todo" /\ "unsafe" \in Faults /\ attempt = 1
    /\ Download(i, "skipped")
    /\ UNCHANGED <<ul, iterVars, dlBreaker, passOut, upErr, upBreaker, guardFailed,
                   used, stop, disk, archived, short, runVars, stats, cancelled>>

NextPulls(i) ==
    /\ InNext /\ ~stop /\ ~cancelled
    /\ dl[i] = "todo"
    /\ Download(i, "pulled")
    /\ UNCHANGED <<ul, iterVars, dlBreaker, passOut, upErr, upBreaker, guardFailed,
                   used, stop, disk, archived, short, runVars, stats, cancelled>>

\* a regression: the acquire admits an item while any byte is left
AcquireOvershooting(i) ==
    /\ dl[i] = "pulled"
    /\ Budget # 0 => used < Budget
    /\ used' = used + Size[i]
    /\ Download(i, "reserved")
    /\ UNCHANGED <<ul, iterVars, dlBreaker, passOut, upErr, upBreaker, guardFailed,
                   stop, disk, archived, short, runVars, stats, cancelled>>

(* budget.acquire: blocks until the semaphore can admit the whole item.    *)
(* The dispatch loop is the only one that acquires, so nothing queues.     *)
Acquire(i) ==
    /\ dl[i] = "pulled"
    /\ Budget # 0 => used + Size[i] <= Budget
    /\ used' = used + Size[i]
    /\ Download(i, "reserved")
    /\ UNCHANGED <<ul, iterVars, dlBreaker, passOut, upErr, upBreaker, guardFailed,
                   stop, disk, archived, short, runVars, stats, cancelled>>

AcquireCancelled(i) ==
    /\ dl[i] = "pulled"
    /\ Budget # 0 /\ cancelled
    /\ Download(i, "dropped")
    /\ IterEnds(TRUE)
    /\ UNCHANGED <<ul, dlBreaker, passOut, upErr, upBreaker, guardFailed,
                   used, stop, disk, archived, short, runVars, stats, cancelled>>

(* The file reference is re-minted and the part file opened.  A part file  *)
(* an earlier pass could not remove is opened again, so it is no longer    *)
(* left over.                                                              *)
Open(i) ==
    /\ dl[i] = "reserved"
    /\ Download(i, "opened")
    /\ part' = part \cup {i}
    /\ stuck' = stuck \ {i}
    /\ UNCHANGED <<ul, iterVars, dlBreaker, passOut, upErr, upBreaker, guardFailed,
                   used, stop, final, archived, short, runVars, stats, cancelled>>

GiveBack(i) == used' = used - Size[i]

OpenFails(i) ==
    /\ dl[i] = "reserved" /\ "open" \in Faults
    /\ GiveBack(i)
    /\ Download(i, "dropped")
    /\ IterEnds(TRUE)
    /\ UNCHANGED <<ul, dlBreaker, passOut, upErr, upBreaker, guardFailed,
                   stop, disk, archived, short, runVars, stats, cancelled>>

RefreshCancelled(i) ==
    /\ dl[i] = "reserved" /\ cancelled
    /\ GiveBack(i)
    /\ Download(i, "dropped")
    /\ IterEnds(TRUE)
    /\ UNCHANGED <<ul, dlBreaker, passOut, upErr, upBreaker, guardFailed,
                   stop, disk, archived, short, runVars, stats, cancelled>>

(* ErrGone: the message is skipped, which no counter sees.                 *)
RefreshGone(i) ==
    /\ dl[i] = "reserved" /\ "gone" \in Faults /\ ~cancelled
    /\ GiveBack(i)
    /\ Download(i, "skipped")
    /\ UNCHANGED <<ul, iterVars, dlBreaker, passOut, upErr, upBreaker, guardFailed,
                   stop, disk, archived, short, runVars, stats, cancelled>>

-----------------------------------------------------------------------------
(***************************************************************************)
(* progress: what OnDone and refused count under progress.mu.  The breaker *)
(* is decided under the lock and sets the stop flag outside it.            *)
(***************************************************************************)
DlTrips == dlStreak + 1 >= MaxFailures /\ ~dlTripped

RecordFailure(i) ==
    /\ passOut' = [passOut EXCEPT ![i] = "failed"]
    /\ dlStreak' = dlStreak + 1
    /\ dlTripped' = (dlTripped \/ DlTrips)

\* a regression: a refused item is counted as failed but never as started
RefreshFailsUnstarted(i) ==
    /\ dl[i] = "reserved" /\ "refresh" \in Faults /\ ~cancelled
    /\ GiveBack(i)
    /\ RecordFailure(i)
    /\ stats' = [stats EXCEPT !.failed = @ + 1]
    /\ Download(i, IF DlTrips THEN "refused" ELSE "ended")
    /\ UNCHANGED <<ul, iterVars, upErr, upBreaker, guardFailed,
                   stop, disk, archived, short, runVars, cancelled>>

(* A re-read that failed for any other reason goes through refused, on the *)
(* dispatch loop's goroutine.                                              *)
RefreshFails(i) ==
    /\ dl[i] = "reserved" /\ "refresh" \in Faults /\ ~cancelled
    /\ GiveBack(i)
    /\ RecordFailure(i)
    /\ stats' = [started |-> stats.started + 1, done |-> stats.done,
                  failed |-> stats.failed + 1]
    /\ Download(i, IF DlTrips THEN "refused" ELSE "ended")
    /\ UNCHANGED <<ul, iterVars, upErr, upBreaker, guardFailed,
                   stop, disk, archived, short, runVars, cancelled>>

(* onTrip, called by whichever goroutine counted the last failure.         *)
Trip(i) ==
    /\ dl[i] \in {"refused", "tripping"}
    /\ stop' = TRUE
    /\ Download(i, "ended")
    /\ UNCHANGED <<ul, iterVars, dlBreaker, passOut, upErr, upBreaker, guardFailed,
                   used, disk, archived, short, runVars, stats, cancelled>>

CountDone(i) ==
    /\ dl[i] = "sent"
    /\ Download(i, "ended")
    /\ passOut' = [passOut EXCEPT ![i] = "ok"]
    /\ dlStreak' = 0
    /\ stats' = [stats EXCEPT !.done = @ + 1]
    /\ UNCHANGED <<ul, iterVars, dlTripped, upErr, upBreaker, guardFailed,
                   used, stop, disk, archived, short, runVars, cancelled>>

CountFailed(i) ==
    /\ dl[i] = "released"
    /\ RecordFailure(i)
    /\ Download(i, IF DlTrips THEN "tripping" ELSE "ended")
    /\ stats' = [stats EXCEPT !.failed = @ + 1]
    /\ UNCHANGED <<ul, iterVars, upErr, upBreaker, guardFailed,
                   used, stop, disk, archived, short, runVars, cancelled>>

-----------------------------------------------------------------------------
(***************************************************************************)
(* A download worker.  core's errgroup runs at most Limit of them; an      *)
(* opened item waits for a free one in the dispatch loop, reservation and  *)
(* part file in hand.                                                      *)
(***************************************************************************)
StartTransfer(i) ==
    /\ dl[i] = "opened"
    /\ Cardinality(Workers) < Limit
    /\ Download(i, "running")
    /\ stats' = [stats EXCEPT !.started = @ + 1]
    /\ UNCHANGED <<ul, iterVars, dlBreaker, passOut, upErr, upBreaker, guardFailed,
                   used, stop, disk, archived, short, runVars, cancelled>>

(* finish promotes the file: closed, the right size, renamed.              *)
Promote(i) ==
    /\ dl[i] = "running"
    /\ Download(i, "promoted")
    /\ part' = part \ {i}
    /\ final' = final \cup {i}
    /\ UNCHANGED <<ul, iterVars, dlBreaker, passOut, upErr, upBreaker, guardFailed,
                   used, stop, stuck, archived, short, runVars, stats, cancelled>>

(* A file that is about to be given up on is removed, or stays because     *)
(* os.Remove failed, which the error reports.                              *)
RemovePart(i) ==
    \/ part' = part \ {i} /\ UNCHANGED stuck
    \/ "remove" \in Faults /\ stuck' = stuck \cup {i} /\ UNCHANGED part

TransferFails(i) ==
    /\ dl[i] = "running" /\ "transfer" \in Faults
    /\ RemovePart(i)
    /\ Download(i, "failing")
    /\ UNCHANGED <<ul, iterVars, dlBreaker, passOut, upErr, upBreaker, guardFailed,
                   used, stop, final, archived, short, runVars, stats, cancelled>>

(* A cancellation is the one error core's Download returns.                *)
TransferCancelled(i) ==
    /\ dl[i] = "running" /\ cancelled
    /\ RemovePart(i)
    /\ Download(i, "failing")
    /\ passErr' = TRUE
    /\ UNCHANGED <<ul, iterOver, dlBreaker, passOut, upErr, upBreaker, guardFailed,
                   used, stop, final, archived, short, runVars, stats, cancelled>>

\* a regression: onFailed leaves the reservation where it is
OnFailedKeeping(i) ==
    /\ dl[i] = "failing"
    /\ Download(i, "released")
    /\ UNCHANGED <<ul, iterVars, dlBreaker, passOut, upErr, upBreaker, guardFailed,
                   used, stop, disk, archived, short, runVars, stats, cancelled>>

OnFailed(i) ==
    /\ dl[i] = "failing"
    /\ GiveBack(i)
    /\ Download(i, "released")
    /\ UNCHANGED <<ul, iterVars, dlBreaker, passOut, upErr, upBreaker, guardFailed,
                   stop, disk, archived, short, runVars, stats, cancelled>>

(* onReady: the send blocks while the channel is full.                     *)
Send(i) ==
    /\ dl[i] = "promoted"
    /\ Cardinality(Queued) < Uploads
    /\ Download(i, "sent")
    /\ Upload(i, "queued")
    /\ UNCHANGED <<iterVars, dlBreaker, passOut, upErr, upBreaker, guardFailed,
                   used, stop, disk, archived, short, runVars, stats, cancelled>>

-----------------------------------------------------------------------------
(***************************************************************************)
(* An upload worker.                                                       *)
(***************************************************************************)
Receive(i) ==
    /\ ul[i] = "queued"
    /\ Cardinality(Uploading) < Uploads
    /\ Upload(i, "checking")
    /\ UNCHANGED <<dl, iterVars, dlBreaker, passOut, upErr, upBreaker, guardFailed,
                   used, stop, disk, archived, short, runVars, stats, cancelled>>

SpaceOk(i) ==
    /\ ul[i] = "checking" /\ ~guardFailed
    /\ Upload(i, "moving")
    /\ UNCHANGED <<dl, iterVars, dlBreaker, passOut, upErr, upBreaker, guardFailed,
                   used, stop, disk, archived, short, runVars, stats, cancelled>>

\* a regression: the refused file's bytes are given back here and again later
SpaceGoneReleasing(i) ==
    /\ ul[i] = "checking"
    /\ guardFailed \/ "full" \in Faults
    /\ guardFailed' = TRUE
    /\ upErr' = [upErr EXCEPT ![i] = "full"]
    /\ GiveBack(i)
    /\ Upload(i, "clearing")
    /\ UNCHANGED <<dl, iterVars, dlBreaker, passOut, upBreaker,
                   stop, disk, archived, short, runVars, stats, cancelled>>

(* spaceGuard.check: once below the floor, always below it.                *)
SpaceGone(i) ==
    /\ ul[i] = "checking"
    /\ guardFailed \/ "full" \in Faults
    /\ guardFailed' = TRUE
    /\ upErr' = [upErr EXCEPT ![i] = "full"]
    /\ Upload(i, "clearing")
    /\ UNCHANGED <<dl, iterVars, dlBreaker, passOut, upBreaker,
                   used, stop, disk, archived, short, runVars, stats, cancelled>>

(* uploader.upload returned nil and the file is on the remote.  Its staged *)
(* copy is gone too, unless settle found it landed and could not delete it *)
(* (see module Uploader).                                                  *)
UploadOk(i) ==
    /\ ul[i] = "moving"
    /\ archived' = archived \cup {i}
    /\ \/ final' = final \ {i} /\ UNCHANGED stuck
       \/ "remove" \in Faults /\ stuck' = stuck \cup {i} /\ UNCHANGED final
    /\ Upload(i, "releasing")
    /\ UNCHANGED <<dl, iterVars, dlBreaker, passOut, upErr, upBreaker, guardFailed,
                   used, stop, part, short, runVars, stats, cancelled>>

(* It returned nil of a move that ended short: with -confirm=false attempt *)
(* takes MoveFile at its word, and the staged copy went with the move.     *)
UploadShort(i) ==
    /\ ul[i] = "moving"
    /\ ~Confirm /\ "short" \in Faults
    /\ short' = short \cup {i}
    /\ final' = final \ {i}
    /\ Upload(i, "releasing")
    /\ UNCHANGED <<dl, iterVars, dlBreaker, passOut, upErr, upBreaker, guardFailed,
                   used, stop, part, stuck, archived, runVars, stats, cancelled>>

(* uploader.upload gave up.  A failed move leaves the staged copy in       *)
(* place, a failed confirmation finds it moved already, and the object may *)
(* have reached the remote all the same.                                   *)
UploadFails(i) ==
    /\ ul[i] = "moving"
    /\ "upload" \in Faults \/ cancelled
    /\ upErr' = [upErr EXCEPT ![i] = "err"]
    /\ final' \in {final, final \ {i}}
    /\ \/ UNCHANGED archived
       \/ "late" \in Faults /\ archived' = archived \cup {i}
    /\ Upload(i, "clearing")
    /\ UNCHANGED <<dl, iterVars, dlBreaker, passOut, upBreaker, guardFailed,
                   used, stop, part, stuck, short, runVars, stats, cancelled>>

\* a regression: the failed upload's staged copy is not removed
ClearNothing(i) ==
    /\ ul[i] = "clearing"
    /\ Upload(i, "releasing")
    /\ UNCHANGED <<dl, iterVars, dlBreaker, passOut, upErr, upBreaker, guardFailed,
                   used, stop, disk, archived, short, runVars, stats, cancelled>>

(* os.Remove of the staged copy, before its bytes are released.            *)
Clear(i) ==
    /\ ul[i] = "clearing"
    /\ \/ final' = final \ {i} /\ UNCHANGED stuck
       \/ "remove" \in Faults /\ i \in final
          /\ stuck' = stuck \cup {i} /\ UNCHANGED final
    /\ Upload(i, "releasing")
    /\ UNCHANGED <<dl, iterVars, dlBreaker, passOut, upErr, upBreaker, guardFailed,
                   used, stop, part, archived, short, runVars, stats, cancelled>>

Release(i) ==
    /\ ul[i] = "releasing"
    /\ GiveBack(i)
    /\ Upload(i, "counting")
    /\ UNCHANGED <<dl, iterVars, dlBreaker, passOut, upErr, upBreaker, guardFailed,
                   stop, disk, archived, short, runVars, stats, cancelled>>

(* The accounting under mu: a full destination trips at once, any other    *)
(* failure by its streak.                                                  *)
UpTrips(i) == ~upTripped /\ (upStreak + 1 >= MaxFailures \/ upErr[i] = "full")

CountUpload(i) ==
    /\ ul[i] = "counting"
    /\ IF upErr[i] = "none"
         THEN upStreak' = 0 /\ UNCHANGED <<upTripped, stop>>
         ELSE /\ upStreak' = upStreak + 1
              /\ upTripped' = (upTripped \/ UpTrips(i))
              /\ stop' = (stop \/ UpTrips(i))
    /\ Upload(i, "ended")
    /\ UNCHANGED <<dl, iterVars, dlBreaker, passOut, upErr, guardFailed,
                   used, disk, archived, short, runVars, stats, cancelled>>

-----------------------------------------------------------------------------
(***************************************************************************)
(* Run's pass loop.  A pass is over when the iterator is and every worker  *)
(* has been joined.                                                        *)
(***************************************************************************)
PassOver ==
    /\ phase = "pass" /\ iterOver
    /\ Dispatching = {} /\ Workers = {}

(* A later attempt replaces the earlier verdict.                           *)
MergeOutcomes ==
    outcome' = [i \in Items |-> IF passOut[i] = "none" THEN outcome[i] ELSE passOut[i]]

\* a regression: the skipped items are not joined into the error
PassFailedUnskipped == passErr

PassFailed == passErr \/ Skipped # {}

\* a regression: the last of the passes is never made
WorthRetryingShort ==
    /\ FailedItems # {}
    /\ attempt < Attempts - 1
    /\ ~PassFailed /\ ~upTripped /\ ~cancelled

WorthRetrying ==
    /\ FailedItems # {}
    /\ attempt < Attempts
    /\ ~PassFailed /\ ~upTripped /\ ~cancelled

(* Under the upload leg's lock: the flag is cleared for a retry unless the *)
(* destination is down.                                                    *)
ClearStop == stop' = (stop /\ upTripped)

\* a regression: the failures to be retried stay in the totals
RollbackNothing == stats

(* rollback: what is fetched again is counted again.                       *)
Rollback ==
    [started |-> stats.started - Cardinality(FailedItems),
     done |-> stats.done,
     failed |-> stats.failed - Cardinality(FailedItems)]

Retry ==
    /\ PassOver /\ WorthRetrying
    /\ MergeOutcomes /\ ClearStop
    /\ stats' = Rollback
    /\ phase' = "wait"
    /\ UNCHANGED <<dl, ul, iterVars, dlBreaker, passOut, upErr, upBreaker, guardFailed,
                   used, disk, archived, short, attempt, dlErr, srcErr, cancelled>>

(* The channel is closed next, so the upload workers drain and leave.      *)
Stop ==
    /\ PassOver /\ ~WorthRetrying
    /\ MergeOutcomes /\ ClearStop
    /\ dlErr' = (dlErr \/ PassFailed)
    /\ srcErr' = dlTripped
    /\ phase' = "drain"
    /\ UNCHANGED <<dl, ul, iterVars, dlBreaker, passOut, upErr, upBreaker, guardFailed,
                   used, disk, archived, short, attempt, stats, cancelled>>

NewPass(todo) ==
    /\ phase = "wait" /\ phase' = "pass"
    /\ dl' = [i \in Items |-> IF i \in todo THEN "todo" ELSE "idle"]
    /\ passOut' = [i \in Items |-> "none"]
    /\ iterOver' = FALSE /\ passErr' = FALSE
    /\ UNCHANGED <<ul, upErr, upBreaker, guardFailed, used, disk, archived, short,
                   outcome, stats, dlErr, srcErr, cancelled>>

FreshBreaker == dlStreak' = 0 /\ dlTripped' = FALSE

\* a regression: the retry pass is handed the whole list again
WaitOverRefetching ==
    /\ NewPass(Items) /\ FreshBreaker
    /\ attempt' = attempt + 1 /\ UNCHANGED stop

\* a regression: the stop flag is cleared when the wait is over
WaitOverClearing ==
    /\ NewPass(FailedItems) /\ FreshBreaker
    /\ attempt' = attempt + 1 /\ stop' = FALSE

\* a regression: what the breaker of the last pass saw carries over
WaitOverTripped ==
    /\ NewPass(FailedItems) /\ UNCHANGED dlBreaker
    /\ attempt' = attempt + 1 /\ UNCHANGED stop

\* a regression: the retry passes are not counted
WaitOverUncounted ==
    /\ NewPass(FailedItems) /\ FreshBreaker
    /\ UNCHANGED <<attempt, stop>>

(* itemsSeq(again), with a progress and an iterator of its own.            *)
WaitOver ==
    /\ NewPass(FailedItems) /\ FreshBreaker
    /\ attempt' = attempt + 1 /\ UNCHANGED stop

WaitCancelled ==
    /\ phase = "wait" /\ cancelled
    /\ dlErr' = TRUE
    /\ srcErr' = dlTripped
    /\ phase' = "drain"
    /\ UNCHANGED <<dl, ul, iterVars, dlBreaker, passOut, upErr, upBreaker, guardFailed,
                   used, stop, disk, archived, short, attempt, outcome, stats, cancelled>>

\* a regression: Run returns without waiting for the upload workers
FinishEarly ==
    /\ phase = "drain"
    /\ phase' = "done"
    /\ UNCHANGED <<dl, ul, iterVars, dlBreaker, passOut, upErr, upBreaker, guardFailed,
                   used, stop, disk, archived, short, attempt, outcome, stats, dlErr, srcErr,
                   cancelled>>

(* wg.Wait returned.                                                       *)
Finish ==
    /\ phase = "drain"
    /\ \A i \in Items : ul[i] \in {"none", "ended"}
    /\ phase' = "done"
    /\ UNCHANGED <<dl, ul, iterVars, dlBreaker, passOut, upErr, upBreaker, guardFailed,
                   used, stop, disk, archived, short, attempt, outcome, stats, dlErr, srcErr,
                   cancelled>>

Cancel ==
    /\ "cancel" \in Faults /\ ~cancelled /\ phase # "done"
    /\ cancelled' = TRUE
    /\ UNCHANGED <<dl, ul, iterVars, dlBreaker, passOut, upErr, upBreaker, guardFailed,
                   used, stop, disk, archived, short, runVars, stats>>

(* Run has returned.                                                       *)
Returned == phase = "done" /\ UNCHANGED vars

-----------------------------------------------------------------------------
Dispatch ==
    \/ NextStopped \/ NextCancelled \/ NextExhausted \/ NextWalkFails
    \/ \E i \in Items :
         \/ NextUnsafe(i) \/ NextPulls(i) \/ Acquire(i) \/ AcquireCancelled(i)
         \/ Open(i) \/ OpenFails(i) \/ RefreshCancelled(i) \/ RefreshGone(i)
         \/ RefreshFails(i)

DownloadWorker(i) ==
    \/ StartTransfer(i) \/ Promote(i) \/ TransferFails(i) \/ TransferCancelled(i)
    \/ OnFailed(i) \/ Send(i) \/ CountDone(i) \/ CountFailed(i) \/ Trip(i)

UploadWorker(i) ==
    \/ Receive(i) \/ SpaceOk(i) \/ SpaceGone(i) \/ UploadOk(i) \/ UploadShort(i)
    \/ UploadFails(i) \/ Clear(i) \/ Release(i) \/ CountUpload(i)

Passes == Retry \/ Stop \/ WaitOver \/ WaitCancelled \/ Finish

Next ==
    \/ Dispatch
    \/ \E i \in Items : DownloadWorker(i) \/ UploadWorker(i)
    \/ Passes
    \/ Cancel
    \/ Returned

Spec == Init /\ [][Next]_vars

(* The Go scheduler runs every goroutine that can run; the timer fires; a  *)
(* transfer, a re-read and an upload return, because each is bounded by    *)
(* the client's reconnect timeout or by rclone's low-level retries.        *)
(* Nothing obliges the operator to cancel.                                 *)
Fairness ==
    /\ WF_vars(Dispatch)
    /\ \A i \in Items : WF_vars(DownloadWorker(i)) /\ WF_vars(UploadWorker(i))
    /\ WF_vars(Passes)

FairSpec == Spec /\ Fairness

-----------------------------------------------------------------------------
Verdicts == {"none", "ok", "failed"}

(* Every variable stays in its type.  Neither the budget, whose semaphore  *)
(* panics when it is released beyond zero, nor a counter rollback has      *)
(* taken back goes below zero.                                             *)
TypeOK ==
    /\ dl \in [Items -> DlStages]
    /\ ul \in [Items -> UlStages]
    /\ iterOver \in BOOLEAN /\ passErr \in BOOLEAN
    /\ dlStreak \in Nat /\ dlTripped \in BOOLEAN
    /\ passOut \in [Items -> Verdicts]
    /\ upErr \in [Items -> {"none", "err", "full"}]
    /\ upStreak \in Nat /\ upTripped \in BOOLEAN /\ guardFailed \in BOOLEAN
    /\ used \in Nat /\ stop \in BOOLEAN
    /\ part \subseteq Items /\ final \subseteq Items /\ stuck \subseteq Items
    /\ archived \subseteq Items /\ short \subseteq Items
    /\ phase \in {"pass", "wait", "drain", "done"}
    /\ attempt \in 1 .. Attempts
    /\ outcome \in [Items -> Verdicts]
    /\ stats \in [started : Nat, done : Nat, failed : Nat]
    /\ dlErr \in BOOLEAN /\ srcErr \in BOOLEAN /\ cancelled \in BOOLEAN

(* The bytes acquired from the semaphore are exactly those of the items    *)
(* whose reservation has not come back: nothing is released twice and      *)
(* nothing is leaked, whichever goroutine, error path or pass the item     *)
(* went through.                                                           *)
BudgetBalanced == used = Bytes(Holders)

(* The -m cap: what is on local disk never exceeds the budget, the files   *)
(* the operating system refused to remove apart.                           *)
CapHonoured == Budget # 0 => Bytes((part \cup final) \ stuck) <= Budget

(* A run that has returned leaves nothing in staging but the files it      *)
(* could not remove.                                                       *)
StagingEmptied == phase = "done" => part \cup final \subseteq stuck

(* An item that reached the upload leg is never fetched again by a later   *)
(* pass, while or after its upload runs.                                   *)
FetchedOnce ==
    \A i \in Items : ul[i] # "none" => dl[i] \notin {"pulled", "reserved", "opened", "running"}

(* ErrSourceFailing is about the last pass: a pass that tripped and then   *)
(* recovered on a retry reports nothing, so when the error is there at     *)
(* least MaxFailures items still stand as failed.                          *)
SourceErrorIsCurrent ==
    srcErr => Cardinality({i \in Items : outcome[i] = "failed"}) >= MaxFailures

(* What the reporter sees as in flight, started and neither done nor       *)
(* failed, is what the workers have and have not counted yet; rolling a    *)
(* pass back keeps the balance.                                            *)
InFlightBalanced ==
    stats.started - stats.done - stats.failed
        = Cardinality({i \in Items : dl[i] \in InWorker \ {"tripping"}})

(* Where an item the run speaks well of is: whole on the remote.  With     *)
(* -confirm=false nothing looks, and the object may be short of its file.  *)
Arrived(i) == i \in archived \/ (~Confirm /\ i \in short)

(* A run that reports no upload failure has everything it fetched on the   *)
(* remote, or was told not to look.                                        *)
FetchedIsArchived ==
    phase = "done" /\ LostUploads = {} =>
        \A i \in Items : outcome[i] = "ok" => Arrived(i)

CleanResult ==
    /\ phase = "done" /\ ~dlErr /\ ~srcErr /\ LostUploads = {}
    /\ \A i \in Items : outcome[i] # "failed"

(* A run that returns no error and lists no failure has archived its whole *)
(* todo list.  The one that may not have is named here: a retry pass the   *)
(* download breaker cuts short, of a list longer than the breaker counts.  *)
CleanMeansArchived ==
    CleanResult /\ (attempt = 1 \/ MaxFailures >= Cardinality(Items)) =>
        \A i \in Items : Arrived(i)

(* Once the destination has refused too much, the iterator pulls nothing   *)
(* more, in this pass or in a later one.                                   *)
NoPullAfterTrip ==
    [][upTripped => \A i \in Items : dl'[i] = "pulled" => dl[i] = "pulled"]_vars

Promise == INSTANCE StagingBudget WITH held <- Holders

(* The semaphore's arithmetic implements the abstract cap: every step of   *)
(* the run reserves one item that fits, returns one, or does neither.      *)
ReservesStaging == Promise!Spec

(* Run returns, whatever fails and whether or not it is cancelled.         *)
Terminates == <>(phase = "done")

(* With a list the breaker cannot cut short, a run that lists a failed     *)
(* download has tried it in every pass there is, or its last pass failed,  *)
(* met a message to skip, was cancelled or found the destination down.     *)
FailedForAReason ==
    /\ phase = "done" /\ MaxFailures >= Cardinality(Items)
    /\ \E i \in Items : outcome[i] = "failed"
    => attempt = Attempts \/ passErr \/ Skipped # {} \/ cancelled \/ upTripped

(* README: a failed download is retried inside the run, and a message that *)
(* is gone must not strand the rest: a run gives up on failed items before *)
(* its last pass only if the iterator failed, it was cancelled or the      *)
(* destination is down.                                                    *)
FailedIsRetried ==
    [][phase = "pass" /\ phase' = "drain" /\ FailedItems # {} =>
           attempt = Attempts \/ passErr \/ cancelled \/ upTripped]_vars

(* rollback: an item that failed is counted once, not twice, and the       *)
(* totals of a finished run count as many failures as it lists.  Only a    *)
(* run that was cut short, and returns an error that says so, may have     *)
(* rolled back failures no later pass reached - if its list is too short   *)
(* for a retry pass to trip with an item left, and recover (see above).    *)
FailuresCounted ==
    phase = "done" =>
        LET listed == Cardinality({i \in Items : outcome[i] = "failed"})
        IN  /\ stats.failed <= listed
            /\ MaxFailures >= Cardinality(Items) /\ stats.failed < listed =>
                 dlErr \/ srcErr \/ upTripped
=============================================================================
