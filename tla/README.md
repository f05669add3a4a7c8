# A verification of telegram-exporter in TLA+

`tgexport` archives the media of one Telegram chat on an rclone remote, moving
each file through a local staging directory that may hold only a fraction of
what is moved.  The program is small; what makes it hard is that nothing it
talks to is reliable, that every retry runs beside work that is still under way,
and that other processes, the operator and a driver act on the same state.  This
directory holds models of that part of it, the TLC runs that check them and the
TLAPS proofs about them.  Paths are relative to the repository
(`internal/pipeline/pipeline.go`, ...); a file name with a line number is
source, a name in `code font` with a capital is usually a TLA+ definition.

    tlc -config pipeline_accounts.cfg MCPipeline     # one run
    tlapm PipelineProofs.tla                         # one proof module

`PROJECT.json` names, for every definition that models code, the lines it
models; for every run, what it is expected to show; for every checked property,
a mutation of the model it catches; and every hazard this work was planned from.


## 1. The system

                 walk                 todo                     items
    Telegram ----------> cmd sync ----------> pipeline.Run ----------> elemIter
        ^                |  ^   exit code         |  |                    |
        | re-read        |  | report              |  | breaker, passes    | reserve,
        |                v  |                     |  v                    v open .part
        |          internal/verify                | Download <----- staging dir, -m budget
        |                ^                        |  |   promote         ^
        |                | listing                |  | channel           | remove, release
        |                |                        v  v                   |
        +------------- remote (rclone) <------- upload workers ----------+

    operator --signals--> main (notifyContext) --context--> every call above
    session store (one lock) <-- every command        both legs --events--> report

| component | state it keeps | operations | how it meets the others |
|---|---|---|---|
| `pipeline.Run` (pipeline.go) | the stop flag, two lists of errors, `Stats`, the attempt number, the channel of finished files | the pass loop, `Retry`/`rollback`, the wait, closing the channel, draining | starts `Download` once a pass, owns the upload workers for the whole run |
| `elemIter` (elem.go) | the item in hand, `failure` | `Next`: stop and context checks, the name check, reserve, re-read, open | called by core's dispatch loop; acquires the budget |
| `Download` and `progress` (download.go, progress.go) | streak and trip of the download breaker, the outcomes of a pass, counters | `OnAdd`, `OnDownload`, `OnDone`, `refused`, `finish`, `SweepPartials` | run by core's errgroup, hands a finished file to the channel, trips the stop flag |
| upload workers (pipeline.go, upload.go, space.go) | streak and trip of the upload breaker, the space guard's verdict, the file being moved | receive, check space, `upload` (`attempt`, `settle`, `remove`), clear, release, count | release the budget; trip the same stop flag |
| byte budget | one weighted semaphore | acquire in one place, release in six | shared by both legs |
| sync, verify (cmd/tgexport) | the walk, the listing, the report | arguments, preparation, `selectTodo`, `validateBudget`, `Check`, `deleteMisnamed`, the exit code | a driver runs them until the exit code is not 1 |
| main | the context, the signal it got | `notifyContext`, `exitCode` | cancels whatever the command is doing |
| verify (internal/verify) | a report | `Check`, `Todo`, `Fetchable`, `Complete`, `Stalled`, `Misnamed` | consulted before and after `Run` |
| remote index, naming | name -> size, name rules | `BuildIndex`, `For`, `Safe`, `SplitStored` | the only link between a message and an object |
| tgsource | a client, a takeout session | `Run`, `ResolveChat`, the walk, the re-read, `takeout` | reads; nothing of it is persisted but the session |
| session store (tdlkv) | a bolt file under a lock | open, get, set, close | one process at a time |
| report | bars, totals, snapshots | the callbacks of both legs, `Finish` | reads counters from both legs |

What is hard in it:

* **Two legs that overlap.** A retry pass runs while uploads of the pass before
  are still moving.  A worker sends a file on the channel before it counts it,
  so the upload may be over before the download is counted as done.
* **One stop flag, two breakers.** The download breaker sets it and a retry
  clears it; the upload breaker sets it and nothing may clear it.
* **One budget, many paths.** Reserved by the iterator, returned by the iterator
  (open failed, message gone, re-read failed, cancelled), by the download
  worker's failure path or by the upload worker.
* **A source that lies by omission.** core logs a failed part and returns nil, so
  `finish` must decide from the file; gotd drops an error that wraps a
  cancellation, so a command must decide from what it did.
* **A remote that commits late.** An upload rclone gave up on may land at any
  later moment; one that died halfway leaves a fragment under the final name.
* **Death at any point**, a driver that re-runs on exit code 1, and a second
  process started while the first is at work.
* **Callbacks outside the lock.** What the display is told may be older than
  what it was told before.

What makes each component correct:

| component | property (and where it is checked) |
|---|---|
| budget | every reservation comes back exactly once (`BudgetBalanced`); the cap bounds what is on disk (`CapHonoured`); it is a semaphore on a set of items (`ReservesStaging`) |
| pass loop | returns (`Terminates`); every failed item is retried or there is a reason (`FailedForAReason`); nothing fetched twice (`FetchedOnce`); no pull after the destination tripped (`NoPullAfterTrip`) |
| accounting | counters balance (`InFlightBalanced`) and agree with the list of outcomes (`FailuresCounted`); `ErrSourceFailing` speaks of the last pass (`SourceErrorIsCurrent`); a silent run lost nothing (`FetchedIsArchived`, `CleanMeansArchived`) |
| staging | empty when `Run` returns (`StagingEmptied`); no `.part` outlives its transfer or its process (`PartialsSwept`) |
| one file | a promoted file is whole (`FinalIsWhole`: it is not, see section 5; `HolesAreLogged` is what does hold) |
| one upload | nil means archived (`OkIsArchived`); a retry starts clean (`RetryIsClean`), does not double (`OneUploadLands`), never deletes a whole object (`WholeKept`); returns (`Ends`) |
| commands, again and again | exit 0, 4 and 1 mean what they say (`OkIsComplete`, `StalledIsFinal`, `OneHasACause`); a driver stops (`DriverStops`) |
| one process beside another | the lock is the session (`LockIsSession`); the exit code is what happened (`ExitIsEarned`); one takeout session (`OneTakeout`); every process ends (`Ends` of `Command`) |
| command line, names | no size wraps (`SizeIsExact`); the chat is the one meant (`ChatIsMeant`); a stored name is read as it was written (`NamesReadBack`) |
| display | it promises nothing that has not happened (`HonestTotals`); the summary comes (`SummaryComes`) |


## 2. The modules

| module | lines up with | composed from |
|---|---|---|
| `Weights` | the items, their sizes, what a set of items weighs | - |
| `Staging` | the byte budget and what it is validated against | `Weights` |
| `StagingBudget` | what `-m` promises, as an abstract specification | `Staging` |
| `Pipeline` | one call of `pipeline.Run`, all goroutines | `Staging`; implements `StagingBudget` |
| `Transfer` | one file on local disk: core's connections, `finish`, `SweepPartials`, crashes | - |
| `Uploader` | `uploader.upload` for one file against an unreliable remote | - |
| `Archive` | `sync` and `verify` run again and again by a driver | - |
| `Arguments` | `parseSize`, `NormalizeChat`: pure functions, with the meaning each must have | - |
| `Naming` | `For`, `SplitStored`: the same | - |
| `Command` | processes from their arguments to their exit code, over one session store and one staging directory | `Arguments`, `Naming` |
| `Reporting` | what both legs tell the display, and in which order it hears it | `Weights` |
| `MCPipeline`, `MCCommand`, `MCReporting` | small instances for TLC | the module each is named after |
| `PipelineProofs`, `OutcomeProofs` | theorems about `Pipeline`; the second goes on from the first | `Pipeline` |
| `TransferProofs`, `UploaderProofs`, `ArchiveProofs`, `ReportingProofs` | theorems | each extends its module |
| `TextProofs` | theorems about the pure functions | `Arguments`, `Naming` |
| `CommandProofs` | theorems about processes, and about the places where they use the pure functions | `Command`, `TextProofs` |

The state machines are one system at several magnifications.  `Command` sees a
command from outside: what it opens, in which order, and what its error becomes;
its callback is one step (`WorkEnds`).  `Archive` opens the callback and sees
`Run` as what it may do to each item (`Archives`, `SkipsGone`, `Fails`,
`RunReturns`); `Pipeline` opens `Run` and sees an upload as three steps
(`UploadOk`, `UploadShort`, `UploadFails`) and a transfer as two (`Promote`, `TransferFails`);
`Uploader` and `Transfer` open those.  `Reporting` looks at the same two legs
from the side of the display.  Where a finer module can do something
surprising, the coarser one has it as an outcome: an upload that returned nil
with its staged copy still there (`Uploader`'s stage `kept`) is the second
disjunct of `Pipeline`'s `UploadOk`; one that returned nil for a short object because
`--confirm=false` kept it from looking (`MoveArrivesShort`, `ConfirmSkipped`) is
`UploadShort`; a fragment or a late commit (`MoveDiesHalfway`,
`CommitLate`) is in `Archive`'s `Fails`, `Kill` and `LateCommit`; an error gotd
dropped (`FromRun` in `Command`) is `Archive`'s `Swallowed`.  That correspondence
is by construction of the models, not yet a checked refinement (section 9).

### Pipeline

An item carries two stages, `dl[i]` and `ul[i]`, for the two legs; both are
needed because a worker counts a file only after it has sent it.  A stage
changes where the code takes a lock, blocks, or touches the disk.

| state | code |
|---|---|
| `dl`, `iterOver`, `passErr` | where each item is in `elemIter.Next`, core's errgroup, `OnDone`; the iterator's `stopped`/`failure` |
| `dlStreak`, `dlTripped`, `passOut` | `progress.streak`, `.tripped`, the outcome list of the pass |
| `ul`, `upErr`, `upStreak`, `upTripped`, `guardFailed` | the upload workers, `streak`, `tripped`, `spaceGuard.failed` |
| `used` | the weight acquired from `semaphore.Weighted` |
| `stop` | `stopDownloads` |
| `part`, `final`, `stuck` | the staging directory, and what `os.Remove` would not take |
| `outcome`, `stats`, `dlErr`, `srcErr` | `dlOutcomes`, `Stats`, `dlErrs` |

`archived` are the items whole on the remote, `short` those a nil upload left there
short, which only `Confirm = FALSE` (the flag `--confirm=false`) allows.  What a run
says of its uploads is therefore `Arrived(i)`: whole, or short and told not to look.

A set of items weighs as many bytes as it has (item, byte) pairs
(`Weights`' `Bytes`), so a sum over a set is a cardinality and lemmas about sums
are lemmas about finite sets.

What is not distinguished: error texts, `maxRecordedErrors`, descriptors,
the one-minute interval of the space guard (a reading may come at any check),
the order of a pass (any order), the bytes counted for throughput (`Reporting`
has them).

### Transfer

core's downloader is modelled from how it is configured and what
`internal/pipeline` relies on: several connections claim parts in order and
write each at its offset; a failed part is logged, ends the transfer and is not
returned; a cancellation is.  `written` is the set of parts in the `.part` file;
the file's length is right as soon as its last part is there, which is what
`checkSize` compares.  `Crash` is the death of the process, `Restart` the next
`sync`, whose `SweepPartials` must succeed for it to go on.

### Uploader

The remote is the one the comments of upload.go describe: several objects may
share a name (counted as `whole` and `fragments`), a lookup returns any of them,
an upload that was given up may be committed at any later time (`pending`,
`late`).  `operations.MoveFile` and the backend are external; `settle`, the
confirmation, the deletions, the backoff and their error paths are translated.
Stage `ok` is a nil return with the local copy gone, `kept` the nil return of a
`settle` that found the upload landed and could not remove the copy.

### Archive

`remote[i]` is one of absent, empty, short, whole: what `Check` tells apart.
An earlier layout may have left an object in a directory (`nested`) or under a
superseded name (`stale`), and a message may hold a file of zero bytes
(`hollow`): uploads go to the root, the listing covers every directory and knows an
object by its basename, the first listed of one name wins.  `items`, `idx` and
`copies` are what the running command saw of the chat and of the remote, and
stay readable after its exit, so that an exit code can be held against them.
The command `clean` is `verify --delete-misnamed` with the operator agreeing.
A driver (`Start`) runs any of the commands after exit 1 or a kill and stops on
anything else.  A signal may arrive in any phase and outranks what the command
was about to say; a cancellation of gotd's own may be swallowed (`Swallowed`).
A file above the cap (`tooBig`) is refused by `Plan`, and would keep a run that took it
waiting for ever (`Done` needs room); a breaker may end a run at any point (`LegTrips`).
`disturbed` is a history variable no guard reads: a fault, or `--limit-items`, got in
the way of this command.

### Command, Arguments, Naming

`at[p]` is where process `p` is on the way through its command; the order of
places is that of the code (`Following`), per command.  What it ends with is a usage
error, a call for help (exit 0), the error of a call, or what follows its report
(`Verdicts`): incomplete, stalled, the breaker of a sync's run, or a verify that could
not write its report or delete a stale copy.  A sync sweeps the
staging directory before it opens the session store; a doctor looks at the
remote after it has closed it.  The lock is bolt's file lock: a process that
finds it taken waits three seconds and fails, so in the model it fails, or
opens if the lock comes free (`Open`, `OpenFails`).  `once`, `asked` and `client` are
`safeTakeout`'s `sync.Once` and what each transfer was handed.  `inbox`,
`trapping`, `watcher`, `got` are the channel of capacity one, `signal.Notify`, the
goroutine of `notifyContext` and the signal its accessor returns; a second
signal kills because the first one ended the trapping.

`Arguments` and `Naming` have no state.  Characters are numbers, words of a link
are told apart by what the code asks of them, and integers wrap at `Word`.

### Reporting

`progress` counts under its lock and calls the renderer after it let go of it,
so every goroutine has a queue of calls it still has to make (`say`), and the
queues interleave.  The renderer is `Live` (bars, two totals) or `Reporter`
(lines), chosen by `terminal`.  mpb is external: a bar ends by itself when a positive total
is reached, and `Wait` returns when every bar has ended.


## 3. The runs

Distinct states are TLC's count on the configuration given.

| run | instance | distinct states | shows |
|---|---|---|---|
| `pipeline_accounts` | items of 2, 1 and 0 bytes under a cap of 2, 2 downloads, 2 uploads, breaker at 2, 2 passes, `--confirm=false`, every fault but the late commit | 4 214 784 | the budget, the files, the counters and the flags on every path; a silent run lost nothing between the legs, a clean first pass nothing at all; the semaphore implements `StagingBudget` |
| `pipeline_returns` | 2 items, 2 downloads, 2 uploads, 3 passes, `--confirm`, all faults, fair | 120 130 | `Run` returns; failed items are retried or there is a reason; the totals agree with the list |
| `transfer` | 3 parts, 2 connections, 3 passes, 1 crash, fair | 3 222 | holes are logged, no `.part` is left, an item settles |
| `uploader` | 3 attempts, all eight faults, with and without `--confirm`, fair | 2 397 | nil means archived, clean retries, no doubles, no whole object deleted, it returns |
| `archive` | 3 items (one with an unsafe name; one that may be above the cap or lie in a directory; one that may be empty or under a superseded name), one file per run, 2 faults, sync and `verify --delete-misnamed`, fair | 2 617 762 | what exits 0 and 4 say is true, exit 1 has a cause, a driver stops |
| `command` | 2 processes, the first a sync under signals, hangs and kills, the second any command; 2 transfers; all faults; fair.  Sizes of up to 4 digits against a width of 127 and a factor of 2, names of up to 5 characters, ids up to 21 | 586 248 | lock, takeout, signal and exit code; every process ends; the pure functions |
| `reporting` | a file of 2 bytes over 2 connections and one of 1 byte, 2 passes, bars or lines, fair | 1 285 751 | totals never promise too much, the summary comes |

Five further runs are expected to be violated; they are section 5.

**Why the bounds are enough.** Three items are one failing, one succeeding and
one waiting, the least that shows a breaker with an item left after it.  Two
workers on a leg and a breaker at two let another worker's success fall between
the two failures.  Three passes are the code's own constant
(`downloadAttempts`), and three attempts at an upload are `uploadAttempts`;
`pipeline_accounts` makes do with two passes because it has the larger set of
items; its invariants are proved for any number.  With three items and a breaker at two
`CleanMeansArchived` speaks of runs of one pass; its other half, several passes over a
list no longer than the breaker, is covered by the proof.  A cap of two with items of two, one and
zero bytes has the file that fits exactly, the one that must wait for another
and the one that reserves nothing.  Three parts and two connections are the
least with which the last part lands before an earlier one fails.  One crash is
enough because what `Restart` leaves does not depend on how often it has run.
In `Archive`, `MaxFaults` bounds only faults a retry repairs (a failed upload, a
short walk, a swallowed error, a deleted message, a kill): without a bound on
them no driver can be expected to stop.  Late commits, a tripped leg, an
unreachable service and a signal are not counted against it.  In `Command` two
processes are a holder of the lock and a loser of it, and only the first is
pressed because the processes meet in the lock and the directory alone; two transfers are the first
to ask and one that waits.  A width of 127 with a factor of two puts every unit
on both sides of the limit with sizes of at most four digits, and has products
that wrap to negative, to zero and back to positive numbers; for the real
width there are proofs.  Five characters hold a dialog, a separator, an id with a
leading zero or of two digits, a separator and one more; the dialogs 1, -1 and 12
have one digit, a sign, two digits, and one of them begins another; `MaxId` 21 lies
inside the ids of two digits.  In `Reporting` two connections are what lets two
callbacks of one file overtake each other.

The pure functions are checked in the run `command` as invariants of the places
where their answers are used: sizes once the arguments were read, chats while a
command works, names once a comparison was made.

No run uses symmetry together with a liveness property; the one that uses it at
all is `pipeline_skip_strands`.  Deadlock is checked in every run but
`report_empty_file`, whose point is that the code stops; the final states
stutter by an explicit action (`Returned`, `Over`, `DriverStopped`, `AllGone`).

**Fairness.**  `Pipeline`: weak fairness of the dispatch loop, of each worker and
of the pass loop.  Each is a goroutine, and Go runs what can run; a transfer, a
re-read and an upload return because the client's reconnect timeout and
rclone's low-level retries bound them.  Nothing obliges the operator to cancel.
`Transfer` and `Uploader`: weak fairness of the program's own steps; no fairness
of `Crash`, `Cancel` or `CommitLate`, since a remote need not commit.
`Archive`: weak fairness of a command's steps (that `Run` returns is what
`pipeline_returns` shows), strong fairness of each `Start(c)`, because a driver that runs
two commands in turn runs each of them again and again.  `Command`: weak fairness of
each process's steps and of its watching goroutine; a call may hang (`Hang`),
and then the operator of that process keeps pressing Ctrl-C, which is what
main.go's second signal is for.  `Reporting`: weak fairness of the steps taken
together; every one of them brings the run closer to its end.


## 4. The properties, and the mutations they catch

`PROJECT.json` pairs every property of a passing run with a mutated definition:
an acquire that admits while any byte is left, a stop flag cleared after the
wait, a breaker that carries over into the next pass, a pass that ends with
a pass that forgets what it skipped, a settle that deletes the first object it finds, a
listing compared without sizes, a store that is closed only when it was read, a
takeout that is asked for again, a product looked at after it wrapped, a
running total added as if it were a delta, and so on.  The mutants stand in the
modules beside the definition they replace, under "a regression:".


## 5. Where the code and its documentation disagree

Each of these is a run that TLC must find violated.

1. **A skipped message turns retries off** (`pipeline_skip_strands`,
   `FailedIsRetried`).  `Download` joins skipped messages into its error
   (download.go:149), and `Run` retries only when that error is nil
   (pipeline.go:295-296).  One deleted message leaves the failed items of that
   pass without a retry.  README.md:212 promises up to three passes, README.md:203
   that such a message "must not strand the rest of the chat".
2. **A file with a hole is promoted** (`transfer_holes`, `FinalIsWhole`).  With
   `--threads` above one the last part may land while an earlier one fails; the
   length is right, and `finish` consults the logged cause only to explain a length that is
   not.  `HolesAreLogged` shows that this is the only way it happens, and that the
   reason was in hand; `SequentialIsWhole` (proved) that one connection is safe.
3. **Re-running does not repair every mismatch** (`archive_reruns`,
   `RerunRepairs`).  An object of the wrong size in a directory stays where it is
   when the file is uploaded to the root, and the listing, which goes by
   basename, may keep finding it; a file of zero bytes is listed as outstanding
   although its object is what Telegram has (verify.go:177).  Every run then
   transfers the file again and exits 1.  verify.go:99-100 and README.md:245-246
   say that fetching again repairs both.
4. **A second sync sweeps the first one's files** (`process_sweep`,
   `SweptAreStale`).  sync clears `.part` files (sync.go:74) before it opens the
   session store (sync.go:88), whose lock is what keeps two syncs apart.  The
   files it announces as "from an earlier run" are those of the run next to it.
5. **An empty file keeps the display from ending** (`report_empty_file`,
   `FinishDrains`).  The bar of a downloaded file of zero bytes leaves the map
   (live.go:162-173) and never ends, because mpb does not complete a total of
   zero; `Finish` aborts what the maps hold and waits for it (live.go:235).

Noticed and not made runs of:

* *The outcome of a run.*  Items a tripped pass never reached are in no outcome
  list, and a retry that then succeeds ends the run without an error
  (README.md:223-224 documents the silence).  An item a second, tripped pass
  never reached is in the list as failed, but was rolled back from the totals
  before, and a third pass that fetches the others ends the run with no error:
  three items, a breaker at two and three passes are enough.  The second half of
  `FailuresCounted` and `FailedForAReason` are stated for lists too short for this,
  `CleanMeansArchived` for those and for runs of one pass.  With `--confirm=false` a
  clean run may leave short objects (upload.go:82-84); the next listing sees their size.  A run cancelled while it waits for a retry counts fewer failures than
  it lists, and says it was cancelled.  `Result` lists failed downloads only.
* *Uploads.*  `MoveFile` removes the local copy, so the confirmation comes after
  it is gone (README.md:180-181 has the other order).  When `settle` finds the
  upload landed and cannot remove the copy, its error is dropped and the bytes
  are released with the file in staging (upload.go:110-112).  The last attempt
  is followed by no `settle`; its fragment stays until a later listing sees its size.
* *Commands.*  verify exits 1 where sync exits 4.  README.md:146 says each item is
  checked "immediately before download", the listing is made once per run.  The
  copies under a superseded name are listed only while the wanted name is absent,
  so `--delete-misnamed` after the re-download does not find them
  (index.go:158-163 says they are still there, which is true).  list and doctor exit
  0 when gotd drops a cancellation of its own, because `Run` puts back only
  main's (client.go:139-150).  A link to a message is refused with exit code 3,
  not 2.
* *The display.*  The download total is complete early when retries transfer
  bytes twice (pipeline.go:298-300 says they stay counted).  The snapshot shown
  last need not be the last one taken, and `OnDownload` calls of one file may
  arrive out of order.  live.go:46-48 says the leg counters share the maps' lock;
  they have their own.


## 6. The proofs

6 536 obligations, all proved, for every value of the constants that satisfies
the named assumptions (`ItemsAssumption`, `SizeAssumption`, `BudgetAssumption`,
`OptionsAssumption`, `TransferAssumption`, `UploaderAssumption`,
`ArchiveAssumption`, `ArgumentsAssumption`, `NamingAssumption`,
`CommandAssumption`, `ReportingAssumption`): finite sets of items and of transfers,
sizes that are natural numbers, at least one worker, attempt and failure, and a cap
that is no smaller than the largest file, which `validateBudget` refuses to start
without.  The few theorems that assume more say so in their statement.
Every inductive invariant was model-checked as an invariant before it was proved.

**Pipeline** (`PipelineProofs`, invariant `IInv`).  Four conjuncts, each needed
because none of the checked properties is inductive:

* `Control`: types, and how the two legs of one item fit together (`Legs`: an
  item in the upload leg is at most waiting to be counted in the other, and not
  marked failed; an item yet to be counted has no outcome), that the download
  leg is at rest outside a pass (`Quiet`), who may have a file on disk (`Files`),
  and that a tripped destination keeps the stop flag set (`TripStops`).
* `Balance`: `used = Bytes(Holders)`, and under the cap.  Every step is one of
  three budget steps: one item joins `Holders` and its bytes are added, one
  leaves and they are subtracted, or neither.  The lemmas `BytesAdd` and
  `BytesRemove` turn that into arithmetic.  That a release never goes below zero
  is a consequence.
* `Tally`: started minus done minus failed is the number in flight, and failures
  cover the items a rollback will subtract.  Without the second part a rollback
  could make the counter negative.
* `Flags`: the Boolean variables.

From it: `TypesHold`, `BudgetIsBalanced`, `CapIsHonoured`, `CountersBalance`,
`ItemsAreFetchedOnce`, `TripStopsPulls` (an action property, from
`TripStops`), and `ImplementsTheCap`: `Spec => StagingBudget!Spec` under
`held <- Holders`.

**What a run leaves and reports** (`OutcomeProofs`, on top of `IInv`).

* `Fate`: an item that was handed over is in the upload leg, and leaves it
  with an object on the remote or with an error; `Drained`: a finished run has no
  item left there.
  With `Files` this gives `StagingIsEmptied`, and by itself
  `FetchedItemsArrive`.
* `Ends`: what the places of items, the stop flag and the end of the iterator
  imply of one another; in particular an iterator that ended without an error
  and without the stop flag has nothing left.
* `Streak`: the breaker counts different items that failed in this pass, so a
  tripped pass has `MaxFailures` of them, and the outcomes keep them
  (`SourceErrorsAreCurrent`).
* `Covered`: with a list no longer than the breaker, a pass that reports no
  error has seen every item, since a breaker that tripped has counted them all.
  `FirstPass`: so has the only pass of a run that stops without an error and without a
  failed item, whatever the list.  From both and `Fate`, `CleanRunsArchive`.
* `Counted`, `Retried`: the failures in the totals are those of the pass that is
  running or of the last one, or none after a cancelled wait; and the items
  listed as failed are among those the pass was given.  From both and `Streak`,
  `FailuresAreCounted`.  It was the proof that showed the second half needs the
  bound on the list: without it `Retried` is not inductive, and the case where it
  breaks is the one in section 5.
* `Reasons`: while a run retries and after it, a failed item that gets no further pass
  has one of five reasons behind it (`FailuresHaveReasons`).  That too needs `Retried`:
  the failed items of the last pass are all there are.

**Transfer**.  `Fetched`: an unbroken transfer has every part below `next` written
or in flight; a broken one has said so.  From it `HolesAreAlwaysLogged`,
`PartialsAreSwept`; and, assuming `Threads = 1`, `SequentialIsWhole`, by an
invariant that the parts in the file are a prefix.

**Uploader**.  `Landed`: late commits apart there is at most one object, and a move
only starts while no whole one is there; `Settled`: a fragment outlives its
attempt only if a lookup or deletion failed.  From them `SuccessIsArchived`,
`RetriesAreClean`, `RetriesDoNotDouble`, `WholeObjectsStay`.

**Archive**.  `Sizes`: no object of an empty file is ever of Telegram's size and
not empty; `Listing`: what the last listing saw whole is whole (nothing removes a
whole object); `Verdict`: an exit code agrees with the comparison, which
nothing changes before the next command; `Handed`: only `Run` and the deletion
have a list.  From them `OkIsTheTruth` and `StalledIsTheEnd`.

`OneIsCaused` needs the run itself: `Undisturbed` says of a command nothing got in the
way of that every item the walk saw is unsafe, still on the list, or whole on the
remote; so the listing after the run finds all of it, and the verdict cannot be `incomplete`.
What it leaves out (`Plain`) are the files of finding 3.

**Command**.  `Locked`: a process holds the lock exactly between `Open` and
`Close`, because an error inside goes through `Close` and none outside leads back
in.  `Sharing`: who is asking Telegram is alone with it, and `once` holds the answer
every transfer has.  `Earning`: a context is cancelled before the end of a
command only after its signal was noted; work given up leaves that signal; an
error `incomplete` follows a report, and a nil one of sync and verify a
comparison.  Exit 0 without one is a call for help.  From them
`TheLockIsTheSession`, `TheTakeoutIsOne`, `TheExitIsEarned`, for any number of processes and transfers.

On a part file `Writing` says that only a sync at work, hence under the lock of its
session store, has one open; from it `OnlySweepsTakeParts`.  That is for processes over
one store.  Syncs with another `-n` or `-storage` do not share the lock, and nothing in
the code keeps them from sharing a staging directory.

**Texts** (`TextProofs`).  A text is read digit by digit, so what is read of a whole
one is an induction over its length.  The library's induction theorems take an
operator, which the provers cannot instantiate; `NatInductionOnSets` does without:
the claim is made a set of naturals, and the library's fact that `<` on `Nat` is
well founded, which takes a set, shows that it has no least exception.

* Sizes.  `DigitIsExact` and `UnitIsExact`: for integers of any width, `Fits` admits a
  digit exactly when the number it makes fits, and the quotient test admits a
  number of units exactly when the product fits; `Wrap` is the identity on what they
  let through (`WrapIsIdentity`, `QuotientIsExact`).  `DigitsAreExact` carries the
  first over the text, and `SizesParse` is the reference reading of the module.
* Chats.  `ChatsParse`, by cases over the table.
* Names.  `Itoa` and `Number` are inverse (`ItoaIsText`, `NumberIsInjective`); a dialog
  followed by the separator is found at one place only (`PrefixByCharacter`,
  `FirstSeparator`), whichever sign and digits it has; so `SplitStored` reads exactly the messages
  `For` could have written the name for (`NamesParse`).

In `CommandProofs` these become `SizesAreExact`, `ChatsAreMeant` and `NamesAreReadBack`:
the invariants of the run `command`, for texts of any length.

**Reporting** (`ReportingProofs`, invariant `IInv`).  The counters of `progress` are
sums over transfers that several goroutines change at once, and the display hears
of them late.  A sum of natural numbers is taken as the cardinality of a set of
(item, unit) pairs, as `Weights` does with bytes, so a callback that touches one
transfer changes one summand (`Sum`).

* `Fetching`: what is counted as in flight is part of what is counted, and what
  is counted together with what has landed and is not counted yet (`owed`) is no more
  than what arrived.  The second half is what makes a late `OnDownload` harmless: it
  moves bytes from one summand to the other.  The first keeps a rollback above zero.
* `Counting`: files counted are files whose transfer is over.
* `Handing`: a file in the upload leg was promoted and is not fetched again.
* `Saying`: every call a goroutine still has to make is true whenever it is made.
  This is the heart of it: snapshots may overtake each other because each is a
  lower bound of counts that only grow, and an upload's result stands once it is there.
* `Telling`, `Showing`: what the renderer added up is what it was told, each file once.

From it `TypesHold` and `TotalsAreHonest`, for files of any size, empty ones too.

**How far the findings reach.**  Section 5 shows that something happens; these
theorems bound what it takes.

* Finding 1.  `FailuresHaveReasons`: for lists no longer than the breaker, a failed item
  is left only after the last pass, an iterator error, a cancellation, a destination that
  tripped, or a skip.  In longer lists there is another reason: a pass that trips before
  it reaches the item.
* Finding 2.  `HolesAreAlwaysLogged`, and `SequentialIsWhole` for one connection.
* Finding 3.  `OneIsCaused`: with something in every file and nothing in directories, a
  sync nothing gets in the way of does not exit 1.
* Finding 4.  `OnlySweepsTakeParts`: no step but the sweep of another sync that has
  not asked for the lock takes a part file from its writer.  `AloneTheSweepIsSafe`:
  where at most one process may be a sync, `SweptAreStale` holds.
* Finding 5.  `OnlyEmptyFilesHang`: whatever order the callbacks come in, `Finish` waits
  for no bar but those of empty files (invariant `Ending`).  `FinishDrainsFiles`: with something
  in every file `FinishDrains` holds.

**Only model-checked**: liveness (`Terminates`, `Settles`, both `Ends`,
`DriverStops`, `SummaryComes`), which under fairness is beyond the prover.  Every
invariant and every other action property of a passing run is a theorem.  No module
here declares a recursive operator.


## 7. Hazards

`PROJECT.json` lists what in this code a test would hardly reach, each at its
line, with the property that watches it or the reason none does.  One is
without a property: finished files a crash leaves in staging between the rename and the
upload (download.go:67); nothing in the code counts or removes them.


## 8. Not modelled

* `uidemo`, `internal/backends`: a demonstration and import lists.
* The rendering of reports and bars, the ticker, the capture of rclone's log,
  the wording of errors: layout.
* `naming.Safe`: a list of conditions on characters and paths; only which names
  are unsafe is modelled (`Unsafe`).
* The arithmetic of a remote's quota: `checkFree` is a step that passes or fails.
* The paging of a walk and of the re-read: a walk returns all of the chat, or a
  truncated history, or fails.
* Several session stores: the processes of `Command` share one, and one staging
  directory.
* gotd, tdl's core downloader, mpb, bolt, rclone and its backends: external, by
  what this code relies on.  In the run `reporting` sizes are positive, without
  which `SummaryComes` does not hold; `report_empty_file` is the other case, and
  `HonestTotals` is proved for both.


## 9. The plan

Done: the run (`Pipeline`), the file (`Transfer`), the upload (`Uploader`), the
commands (`Archive`, `Command`), the command line and the names (`Arguments`,
`Naming`), the display (`Reporting`), and the safety proofs above.  What is left:

1. Refinement between the magnifications: `Uploader` implements `Pipeline`'s view
   of an upload, `Transfer` its view of a transfer, `Pipeline` the contract of
   `Run` that `Archive` uses, and `Archive` the callback of `Command`, each with a
   mapping.  The reuse of constants is arranged for the first two.
2. Finished files a crash leaves in staging, as part of a `Transfer` of several
   files and of what `-m` promises across restarts.
