----------------------------- MODULE Reporting -----------------------------
(***************************************************************************)
(* What a run shows of itself.  progress counts every callback of the      *)
(* downloader under its lock and hands a snapshot of the counters, and the *)
(* event itself, to the renderer after it has let go of the lock; so does  *)
(* the upload leg.  The renderer is Live on a terminal, with one bar per   *)
(* leg and one per file that is moving, and Reporter elsewhere, whose      *)
(* lines are printed from legs alone.                                      *)
(*                                                                         *)
(* A goroutine that has reported holds in say what it has still to tell    *)
(* the renderer: the callbacks of several goroutines interleave there.     *)
(* mpb is external: a bar of a positive total ends when its counter gets   *)
(* there, a bar of total 0 only when it is aborted, and Wait returns once  *)
(* every bar has ended.                                                    *)
(***************************************************************************)
EXTENDS Weights, Sequences

CONSTANTS
    Threads,   \* connections fetching one file
    Attempts   \* passes of the download leg

ASSUME ReportingAssumption ==
    /\ Threads \cap {"main", "uploader"} = {}
    /\ Attempts \in Nat \ {0}

VARIABLES
    phase,     \* "pass", "draining", "waiting" for the bars, "summary"
    attempt,   \* the pass
    fetch,     \* what the download leg does with an item
    got,       \* bytes of its current transfer that have landed
    arrived,   \* bytes that have landed, over all transfers
    upload,    \* what the upload leg does with it
    stats,     \* Stats: done, failed, bytes
    inFlight,  \* the bytes of an item's transfer that stats counts
    say,       \* what a goroutine has still to tell the renderer
    terminal,  \* the renderer is Live
    legs,      \* legTotals
    listed,    \* Live.down and Live.up: the bars it can find by message
    live,      \* the bars mpb waits for
    shown      \* what the bars of the two legs stand at

leg == <<phase, attempt>>
download == <<fetch, got, arrived, stats, inFlight>>
view == <<legs, listed, live, shown>>
vars == <<leg, download, upload, say, terminal, view>>

Goroutines == Items \X (Threads \cup {"main", "uploader"})

Bar(which, i) == <<which, i>>
Total(which) == <<which, "total">>
Totals == {Total("down"), Total("up")}

(* A bar that mpb ends by itself: a total of 0 disables that.              *)
Full(total, current) == total > 0 /\ current >= total

Quiet(g) == say[g] = <<>>

(* The transfer of an item has no callback under way.                      *)
Calm(i) == \A t \in Threads \cup {"main"} : Quiet(<<i, t>>)

Init ==
    /\ phase = "pass" /\ attempt = 1
    /\ fetch = [i \in Items |-> "queued"]
    /\ got = [i \in Items |-> 0] /\ arrived = 0
    /\ upload = [i \in Items |-> "none"]
    /\ stats = [done |-> 0, failed |-> 0, bytes |-> 0]
    /\ inFlight = [i \in Items |-> 0]
    /\ say = [g \in Goroutines |-> <<>>]
    /\ terminal \in BOOLEAN
    /\ legs = [dlFiles |-> 0, dlBytes |-> 0, upFiles |-> 0, upBytes |-> 0]
    /\ listed = {}
    /\ live = IF terminal THEN Totals ELSE {}
    /\ shown = [down |-> 0, up |-> 0]

-----------------------------------------------------------------------------
(***************************************************************************)
(* The calls of the renderer's methods, in the order a goroutine makes     *)
(* them.  Stats writes the counters and then moves the bar: two calls.     *)
(* Reporter has no bars: what opens or moves one does nothing there.       *)
(***************************************************************************)
Event(kind, i, bytes, ok) == [kind |-> kind, item |-> i, bytes |-> bytes, ok |-> ok]

Snapshot(i, s) ==
    <<[kind |-> "legs", item |-> i, bytes |-> s.bytes, files |-> s.done + s.failed],
      Event("total", i, s.bytes, TRUE)>>

Tells(g, events) == say' = [say EXCEPT ![g] = events]

-----------------------------------------------------------------------------
(***************************************************************************)
(* The download leg's side: progress.                                      *)
(***************************************************************************)
OnAdd(i) ==
    /\ phase = "pass" /\ fetch[i] = "queued"
    /\ fetch' = [fetch EXCEPT ![i] = "moving"]
    /\ got' = [got EXCEPT ![i] = 0]
    /\ Tells(<<i, "main">>, <<Event("start", i, 0, TRUE)>> \o Snapshot(i, stats))
    /\ UNCHANGED <<leg, arrived, stats, inFlight, upload, terminal, view>>

(* core adds a chunk to the running total and calls OnDownload with it;    *)
(* another connection may do both in between.                              *)
Land(i, t) ==
    /\ fetch[i] = "moving" /\ got[i] < Size[i]
    /\ Quiet(<<i, "main">>) /\ Quiet(<<i, t>>)
    /\ got' = [got EXCEPT ![i] = @ + 1]
    /\ arrived' = arrived + 1
    /\ Tells(<<i, t>>, <<Event("landed", i, got[i] + 1, TRUE)>>)
    /\ UNCHANGED <<leg, fetch, stats, inFlight, upload, terminal, view>>

\* a regression: the running total is added as if it were a delta
OnDownloadAdding(i, t) ==
    /\ ~Quiet(<<i, t>>) /\ Head(say[<<i, t>>]).kind = "landed"
    /\ LET running == Head(say[<<i, t>>]).bytes
       IN  /\ inFlight' = [inFlight EXCEPT ![i] = running]
           /\ stats' = [stats EXCEPT !.bytes = @ + running]
           /\ Tells(<<i, t>>, <<Event("bytes", i, running, TRUE)>> \o Snapshot(i, stats'))
    /\ UNCHANGED <<leg, fetch, got, arrived, upload, terminal, view>>

OnDownload(i, t) ==
    /\ ~Quiet(<<i, t>>) /\ Head(say[<<i, t>>]).kind = "landed"
    /\ LET running == Head(say[<<i, t>>]).bytes
       IN  /\ inFlight' = [inFlight EXCEPT ![i] = running]
           /\ stats' = [stats EXCEPT !.bytes = @ + running - inFlight[i]]
           /\ Tells(<<i, t>>, <<Event("bytes", i, running, TRUE)>> \o Snapshot(i, stats'))
    /\ UNCHANGED <<leg, fetch, got, arrived, upload, terminal, view>>

(* OnDone's first half: finish promotes the file and hands it to the       *)
(* upload leg, which may report on it before the download is reported done,*)
(* or finds that there is nothing to promote.                              *)
Finish(i) ==
    /\ fetch[i] = "moving" /\ Calm(i)
    /\ \/ /\ got[i] = Size[i]
          /\ fetch' = [fetch EXCEPT ![i] = "promoted"]
          /\ upload' = [upload EXCEPT ![i] = "ready"]
       \/ fetch' = [fetch EXCEPT ![i] = "spoilt"] /\ UNCHANGED upload
    /\ UNCHANGED <<leg, got, arrived, stats, inFlight, say, terminal, view>>

(* Its second half, under the lock and after it.                           *)
OnDone(i) ==
    /\ fetch[i] \in {"promoted", "spoilt"}
    /\ LET ok == fetch[i] = "promoted"
       IN  /\ fetch' = [fetch EXCEPT ![i] = IF ok THEN "done" ELSE "failed"]
           /\ stats' = IF ok THEN [stats EXCEPT !.done = @ + 1]
                             ELSE [stats EXCEPT !.failed = @ + 1]
           /\ Tells(<<i, "main">>, <<Event("done", i, Size[i], ok)>> \o Snapshot(i, stats'))
    /\ inFlight' = [inFlight EXCEPT ![i] = 0]
    /\ UNCHANGED <<leg, got, arrived, upload, terminal, view>>

(* An item whose message could not be re-read: a start and an end at once. *)
Refused(i) ==
    /\ phase = "pass" /\ fetch[i] = "queued"
    /\ fetch' = [fetch EXCEPT ![i] = "failed"]
    /\ stats' = [stats EXCEPT !.failed = @ + 1]
    /\ Tells(<<i, "main">>,
             <<Event("start", i, 0, TRUE), Event("done", i, Size[i], FALSE)>>
                 \o Snapshot(i, stats'))
    /\ UNCHANGED <<leg, got, arrived, inFlight, upload, terminal, view>>

Failed == {i \in Items : fetch[i] = "failed"}

\* a regression: every item of the pass is taken back out of the totals
RollbackAll(s) == [s EXCEPT !.failed = @ - Cardinality(Items)]

(* rollback: what is fetched again counts once.  The bytes stay counted.   *)
Rollback(s) == [s EXCEPT !.failed = @ - Cardinality(Failed)]

(* The pass has joined its workers.  A breaker or a signal may have ended  *)
(* it early: the items it did not reach are lost to this run.              *)
PassOver ==
    /\ phase = "pass"
    /\ \A i \in Items : Calm(i) /\ fetch[i] \in {"queued", "lost", "failed", "done"}
    /\ \/ /\ attempt < Attempts /\ Failed # {}
          /\ attempt' = attempt + 1
          /\ stats' = Rollback(stats)
          /\ fetch' = [i \in Items |-> CASE fetch[i] = "queued" -> "lost"
                                         [] fetch[i] = "failed" -> "queued"
                                         [] OTHER -> fetch[i]]
          /\ UNCHANGED phase
       \/ phase' = "draining" /\ UNCHANGED <<attempt, stats, fetch>>
    /\ UNCHANGED <<got, arrived, inFlight, upload, say, terminal, view>>

-----------------------------------------------------------------------------
(***************************************************************************)
(* The upload leg's side.                                                  *)
(***************************************************************************)
StartUpload(i) ==
    /\ upload[i] = "ready"
    /\ \/ /\ upload' = [upload EXCEPT ![i] = "moving"]
          /\ Tells(<<i, "uploader">>, <<Event("upstart", i, 0, TRUE)>>)
       \/ upload' = [upload EXCEPT ![i] = "failed"] /\ UNCHANGED say
    /\ UNCHANGED <<leg, download, terminal, view>>

EndUpload(i) ==
    /\ upload[i] = "moving" /\ Quiet(<<i, "uploader">>)
    /\ \E ok \in BOOLEAN :
           /\ upload' = [upload EXCEPT ![i] = IF ok THEN "archived" ELSE "failed"]
           /\ Tells(<<i, "uploader">>, <<Event("updone", i, Size[i], ok)>>)
    /\ UNCHANGED <<leg, download, terminal, view>>

-----------------------------------------------------------------------------
(***************************************************************************)
(* The renderer's side.  A goroutine is inside one method at a time.       *)
(***************************************************************************)
Hears(g, kind) ==
    /\ ~Quiet(g) /\ Head(say[g]).kind = kind
    /\ UNCHANGED <<leg, download, upload, terminal>>

Told(g) == Tells(g, Tail(say[g]))

(* Live.next, DownloadStart, UploadStart: a new bar, found by its message. *)
Opens(g, kind, which) ==
    /\ Hears(g, kind) /\ Told(g)
    /\ LET bars == {b \in {Bar(which, Head(say[g]).item)} : terminal}
       IN  listed' = listed \cup bars /\ live' = live \cup bars
    /\ UNCHANGED <<legs, shown>>

DownloadStart(g) == Opens(g, "start", "down")
UploadStart(g) == Opens(g, "upstart", "up")

DownloadBytes(g) ==
    /\ Hears(g, "bytes") /\ Told(g)
    /\ LET i == Head(say[g]).item
       IN  live' = live \ {b \in {Bar("down", i)} \cap listed :
                               Full(Size[i], Head(say[g]).bytes)}
    /\ UNCHANGED <<legs, listed, shown>>

\* a regression: a failed download leaves its bar running
DownloadDoneLeaving(g) ==
    /\ Hears(g, "done") /\ Told(g)
    /\ LET e == Head(say[g])
           found == {Bar("down", e.item)} \cap listed
       IN  /\ listed' = listed \ found
           /\ live' = live \ {b \in found : e.ok /\ Full(Size[e.item], e.bytes)}
    /\ UNCHANGED <<legs, shown>>

(* A failed download's bar is aborted, a finished one's set to its size.   *)
DownloadDone(g) ==
    /\ Hears(g, "done") /\ Told(g)
    /\ LET e == Head(say[g])
           found == {Bar("down", e.item)} \cap listed
       IN  /\ listed' = listed \ found
           /\ live' = live \ {b \in found : ~e.ok \/ Full(Size[e.item], e.bytes)}
    /\ UNCHANGED <<legs, shown>>

SetDownload(g) ==
    /\ Hears(g, "legs") /\ Told(g)
    /\ legs' = [legs EXCEPT !.dlFiles = Head(say[g]).files, !.dlBytes = Head(say[g]).bytes]
    /\ UNCHANGED <<listed, live, shown>>

(* SetCurrent on the bar of a leg; one that has ended does not move.       *)
Moves(which, to) ==
    /\ IF Total(which) \in live
         THEN shown' = [shown EXCEPT ![which] = IF to < Bytes(Items) THEN to ELSE Bytes(Items)]
         ELSE UNCHANGED shown
    /\ live' = live \ {b \in {Total(which)} : Full(Bytes(Items), to)}
    /\ UNCHANGED <<legs, listed>>

ShowDownload(g) == Hears(g, "total") /\ Told(g) /\ Moves("down", Head(say[g]).bytes)

(* UploadDone: the spinner goes; what reached the remote is added, and the *)
(* new total shown after the lock of legs is released.                     *)
UploadDone(g) ==
    /\ Hears(g, "updone")
    /\ LET e == Head(say[g])
           found == {Bar("up", e.item)} \cap listed
           sum == legs.upBytes + e.bytes
       IN  /\ listed' = listed \ found /\ live' = live \ found
           /\ IF e.ok
                THEN /\ legs' = [legs EXCEPT !.upFiles = @ + 1, !.upBytes = sum]
                     /\ Tells(g, <<Event("uptotal", e.item, sum, TRUE)>>)
                ELSE Told(g) /\ UNCHANGED legs
    /\ UNCHANGED shown

ShowUpload(g) == Hears(g, "uptotal") /\ Told(g) /\ Moves("up", Head(say[g]).bytes)

-----------------------------------------------------------------------------
(***************************************************************************)
(* Run returns once the upload workers have drained the channel, and       *)
(* syncCmd calls Finish: every bar that is listed is aborted, and the two  *)
(* totals; then mpb is waited for and the summary printed.                 *)
(***************************************************************************)
Drain ==
    /\ phase = "draining"
    /\ \A i \in Items : upload[i] \in {"none", "archived", "failed"}
    /\ \A g \in Goroutines : Quiet(g)
    /\ phase' = "waiting"
    /\ live' = live \ (listed \cup Totals)
    /\ listed' = {}
    /\ UNCHANGED <<attempt, download, upload, say, terminal, legs, shown>>

Summarise ==
    /\ phase = "waiting" /\ live = {}
    /\ phase' = "summary"
    /\ UNCHANGED <<attempt, download, upload, say, terminal, view>>

Over == phase = "summary" /\ UNCHANGED vars

Renders(g) ==
    \/ DownloadStart(g) \/ DownloadBytes(g) \/ DownloadDone(g)
    \/ SetDownload(g) \/ ShowDownload(g)
    \/ UploadStart(g) \/ UploadDone(g) \/ ShowUpload(g)

Works ==
    \/ \E i \in Items :
           \/ OnAdd(i) \/ Finish(i) \/ OnDone(i) \/ Refused(i)
           \/ StartUpload(i) \/ EndUpload(i)
    \/ \E i \in Items, t \in Threads : Land(i, t) \/ OnDownload(i, t)
    \/ \E g \in Goroutines : Renders(g)
    \/ PassOver \/ Drain \/ Summarise

Next == Works \/ Over

Spec == Init /\ [][Next]_vars

(* A transfer goes on or fails, an upload returns, and the goroutines run. *)
FairSpec == Spec /\ WF_vars(Works)
-----------------------------------------------------------------------------
(* Every variable stays in its type: no count goes below zero.             *)
TypeOK ==
    /\ phase \in {"pass", "draining", "waiting", "summary"}
    /\ attempt \in 1 .. Attempts
    /\ fetch \in [Items -> {"queued", "moving", "promoted", "spoilt", "done",
                            "failed", "lost"}]
    /\ upload \in [Items -> {"none", "ready", "moving", "archived", "failed"}]
    /\ got \in [Items -> Nat] /\ arrived \in Nat
    /\ stats \in [done : Nat, failed : Nat, bytes : Nat]
    /\ inFlight \in [Items -> Nat]
    /\ DOMAIN say = Goroutines
    /\ terminal \in BOOLEAN
    /\ legs \in [dlFiles : Nat, dlBytes : Nat, upFiles : Nat, upBytes : Nat]
    /\ listed \subseteq ({"down", "up"} \X Items)
    /\ live \subseteq ({"down", "up"} \X Items) \cup Totals
    /\ shown \in [down : Nat, up : Nat]

Archived == {i \in Items : upload[i] = "archived"}

(* Whatever order the snapshots arrive in and however often files are      *)
(* fetched again, the lines and the bars promise nothing that has not      *)
(* happened: no more files than the run has, no more bytes down than have  *)
(* landed, no more bytes up than were archived; and an upload bar that is  *)
(* full means that every file with anything in it is on the remote.        *)
HonestTotals ==
    /\ legs.dlFiles <= Cardinality(Items)
    /\ legs.dlBytes <= arrived /\ shown.down <= arrived
    /\ legs.upFiles <= Cardinality(Archived) /\ legs.upBytes <= Bytes(Archived)
    /\ shown.up <= legs.upBytes
    /\ shown.up = Bytes(Items) => \A i \in Items \ Archived : Size[i] = 0

(* Finish returns and the summary is printed: mpb waits for no bar that    *)
(* nothing will end.                                                       *)
SummaryComes == <>(phase = "summary")

(* live.go: Finish drains the bars.  It aborts those it finds by message,  *)
(* and no other bar may be left once the run is over.                      *)
FinishDrains == phase = "waiting" => live = {}
=============================================================================
