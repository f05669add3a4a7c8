------------------------------ MODULE Archive -------------------------------
(***************************************************************************)
(* The life of an archive: the sync and verify commands of tgexport, run   *)
(* again and again by a driver that retries on exit 1 and stops on         *)
(* anything else.  A command walks the chat, lists the remote, compares    *)
(* the two (internal/verify) and, for sync, hands what is missing to       *)
(* pipeline.Run, lists the remote again and turns the comparison into an   *)
(* exit code; verify --delete-misnamed deletes what it found under a       *)
(* superseded name.  Run is seen from outside, by what it may do to each   *)
(* item (module Pipeline opens it).                                        *)
(*                                                                         *)
(* Uploads go to the root of the remote.  The listing is recursive and     *)
(* knows an object by its basename alone, so an object in a directory      *)
(* stands for the one in the root, and of two the first listed counts.     *)
(*                                                                         *)
(* The remote changes on its own: an upload a backend accepted may be      *)
(* committed after the run that made it gave it up.  Messages are deleted  *)
(* from the chat, the operator interrupts, the process is killed.          *)
(***************************************************************************)
EXTENDS Integers, FiniteSets

CONSTANTS
    Items,       \* the media messages of the chat
    Unsafe,      \* the ones whose name naming.Safe refuses
    Large,       \* the ones an -m cap may be too small for
    Hollow,      \* the ones that may be files of zero bytes
    Nested,      \* the ones an earlier layout may have put in a directory
    Renamed,     \* the ones an earlier naming scheme may have stored
    LimitItems,  \* --limit-items; 0 means no limit
    Commands,    \* the commands the driver runs
    Faults,      \* what the environment may do wrong
    MaxFaults    \* how often it does what it may not do for ever (a bound of the model)

ASSUME ArchiveAssumption ==
    /\ IsFiniteSet(Items)
    /\ Unsafe \subseteq Items /\ Large \subseteq Items
    /\ Hollow \subseteq Items /\ Nested \subseteq Items /\ Renamed \subseteq Items
    /\ LimitItems \in Nat /\ MaxFaults \in Nat
    /\ Commands \subseteq {"sync", "verify", "clean"}
    /\ Faults \subseteq {"upload", "late", "trip", "network", "short walk",
                         "swallow", "delete", "signal", "kill"}

VARIABLES
    tooBig,      \* the items larger than the -m cap
    hollow,      \* the items of zero bytes
    nested,      \* nested[i]: the object under the name of item i in a directory
    chat,        \* the messages that are in the chat now
    remote,      \* remote[i]: the object under the name of item i in the root
    stale,       \* the items with a copy under a superseded name
    pending,     \* items with an upload the backend has yet to commit
    phase,       \* where the running command is
    command,
    items,       \* what the walk of this command saw
    idx,         \* what its last listing saw under the names of the items
    copies,      \* the items it saw a copy of under another name
    checked,     \* Check has run
    todo,        \* the items Run, or the deletion, has not dealt with yet
    failing,     \* Run gave up on a leg, or a deletion failed
    signalled,
    exit,        \* the exit code of the last command
    faults,
    disturbed    \* a history variable: a fault, or --limit-items, got in the way
                 \* of the command; no guard reads it

sizes == <<tooBig, hollow, nested>>
world == <<sizes, chat, remote, stale, pending>>
seen == <<items, idx, copies, checked>>
process == <<phase, command, seen, todo, failing, signalled, exit>>
mishaps == <<faults, disturbed>>
vars == <<world, process, mishaps>>

\* what Check can tell apart: nothing, zero bytes, another size, Telegram's size
Objects == {"absent", "empty", "short", "whole"}

Init ==
    /\ tooBig \in SUBSET Large /\ hollow \in SUBSET Hollow
    /\ chat = Items
    /\ remote \in [Items -> Objects] /\ nested \in [Items -> Objects]
    /\ \A i \in Unsafe : remote[i] = "absent"
    /\ \A i \in Items : i \in Unsafe \/ i \notin Nested => nested[i] = "absent"
    /\ stale \in SUBSET Renamed /\ pending = {}
    /\ \A i \in hollow : remote[i] # "whole" /\ nested[i] # "whole"
    /\ phase = "idle" /\ command \in Commands
    /\ items = {} /\ idx = [i \in Items |-> "absent"] /\ copies = {}
    /\ checked = FALSE /\ todo = {}
    /\ failing = FALSE /\ signalled = FALSE
    /\ exit = "none" /\ faults = 0 /\ disturbed = FALSE

Fault(kind) ==
    /\ kind \in Faults /\ faults < MaxFaults
    /\ faults' = faults + 1 /\ disturbed' = TRUE

-----------------------------------------------------------------------------
(***************************************************************************)
(* internal/verify: the report of the last walk and the last listing.      *)
(***************************************************************************)
(* Check: absent, zero bytes or the wrong size; an unsafe name is never    *)
(* present.                                                                *)
Outstanding(i) == i \in Unsafe \/ idx[i] # "whole"

(* A report no Check has filled is empty.                                  *)
Todo == {i \in items : checked /\ Outstanding(i)}

Fetchable == Todo \ Unsafe

\* a regression: the report of a Check that never ran counts
CompleteUnchecked == Todo = {}

Complete == checked /\ Todo = {}

\* a regression: one unsafe name is enough to call the archive stalled
StalledAny == Todo \cap Unsafe # {}

Stalled == Todo # {} /\ Fetchable = {}

(* The copies a report lists are those of files that are not there under   *)
(* their own name.                                                         *)
Misnamed == {i \in Todo \ Unsafe : idx[i] = "absent" /\ i \in copies}

\* a regression: unsafe names are queued with the rest
SelectionsUnsafe ==
    IF LimitItems = 0 \/ Cardinality(Todo) <= LimitItems
      THEN {Todo}
      ELSE {S \in SUBSET Todo : Cardinality(S) = LimitItems}

(* selectTodo: no unsafe name, and no more than --limit-items of them.     *)
Selections ==
    IF LimitItems = 0 \/ Cardinality(Todo \ Unsafe) <= LimitItems
      THEN {Todo \ Unsafe}
      ELSE {S \in SUBSET (Todo \ Unsafe) : Cardinality(S) = LimitItems}

-----------------------------------------------------------------------------
(* A signal outranks whatever the command was about to say.                *)
Exit(code) ==
    /\ exit' = IF signalled THEN "signal" ELSE code
    /\ phase' = "idle"
    /\ UNCHANGED <<command, seen, signalled>>

(* The driver starts a command, after one that said files remain or after  *)
(* one that was killed.                                                    *)
Start(c) ==
    /\ phase = "idle" /\ exit \in {"none", "incomplete", "killed"}
    /\ phase' = "walking" /\ command' = c
    /\ items' = {} /\ idx' = [i \in Items |-> "absent"] /\ copies' = {}
    /\ checked' = FALSE /\ todo' = {}
    /\ failing' = FALSE /\ signalled' = FALSE /\ exit' = "none"
    /\ disturbed' = FALSE
    /\ UNCHANGED <<world, faults>>

(* The chat is read in full, or the history ends early with no error.      *)
WalkChat ==
    /\ phase = "walking" /\ ~signalled
    /\ \/ items' = chat /\ UNCHANGED mishaps
       \/ Fault("short walk") /\ items' \in SUBSET chat
    /\ phase' = "indexing"
    /\ UNCHANGED <<world, command, idx, copies, checked, todo, failing, signalled, exit>>

(* BuildIndex: of two objects with one basename the first listed is kept,  *)
(* and no order is promised.                                               *)
List ==
    /\ idx' \in [Items -> Objects]
    /\ \A i \in Items :
         \/ idx'[i] = remote[i] /\ (remote[i] = "absent" => nested[i] = "absent")
         \/ idx'[i] = nested[i] /\ nested[i] # "absent"
    /\ copies' = stale
    /\ UNCHANGED items

(* The chat is walked before the remote is listed.                         *)
IndexRemote ==
    /\ phase = "indexing" /\ ~signalled
    /\ List /\ checked' = TRUE
    /\ phase' = IF command = "sync" THEN "planning" ELSE "reporting"
    /\ UNCHANGED <<world, command, todo, failing, signalled, exit, mishaps>>

\* a regression: the cap is not compared with the files to fetch
PlanUnvalidated ==
    /\ phase = "planning"
    /\ \E S \in Selections :
         /\ disturbed' = (disturbed \/ S # Todo \ Unsafe)
         /\ \/ /\ S = {}
               /\ phase' = "reporting"
               /\ UNCHANGED <<todo, command, seen, signalled, exit>>
            \/ /\ S # {}
               /\ phase' = "running" /\ todo' = S /\ checked' = FALSE
               /\ UNCHANGED <<command, items, idx, copies, signalled, exit>>
    /\ UNCHANGED <<world, failing, faults>>

(* With nothing to fetch the first report is the final one; a cap below    *)
(* the largest file to fetch is a usage error.  Otherwise no final report  *)
(* is there until the remote has been listed again.                        *)
Plan ==
    /\ phase = "planning"
    /\ \E S \in Selections :
         /\ disturbed' = (disturbed \/ S # Todo \ Unsafe)
         /\ \/ /\ S = {}
               /\ phase' = "reporting"
               /\ UNCHANGED <<todo, command, seen, signalled, exit>>
            \/ /\ S \cap tooBig # {}
               /\ Exit("usage") /\ UNCHANGED todo
            \/ /\ S # {} /\ S \cap tooBig = {}
               /\ phase' = "running" /\ todo' = S /\ checked' = FALSE
               /\ UNCHANGED <<command, items, idx, copies, signalled, exit>>
    /\ UNCHANGED <<world, failing, faults>>

-----------------------------------------------------------------------------
(***************************************************************************)
(* pipeline.Run, one item at a time.  The budget never admits an item      *)
(* larger than the cap: acquire would wait for it until the run is cut     *)
(* short.                                                                  *)
(***************************************************************************)
Done(i) ==
    /\ phase = "running" /\ i \in todo \ tooBig
    /\ todo' = todo \ {i}
    /\ UNCHANGED <<phase, command, seen, failing, signalled, exit>>

(* the object a finished upload makes: of a file of zero bytes, an empty   *)
(* one                                                                     *)
Whole(i) == IF i \in hollow THEN "empty" ELSE "whole"

(* rclone replaces an object of another size and leaves one of the same    *)
(* size alone.                                                             *)
Stores(i, object) ==
    remote' = [remote EXCEPT ![i] = IF @ = Whole(i) THEN @ ELSE object]

Archives(i) ==
    /\ Done(i)
    /\ Stores(i, Whole(i))
    /\ UNCHANGED <<sizes, chat, stale, pending, mishaps>>

\* the message was deleted after the walk: ErrGone, and it is skipped
SkipsGone(i) ==
    /\ Done(i) /\ i \notin chat
    /\ UNCHANGED <<world, mishaps>>

(* The item cannot be fetched, or its upload is given up: nothing of it is *)
(* on the remote, or a fragment is, or the backend commits it later.       *)
Fails(i) ==
    /\ Done(i) /\ Fault("upload")
    /\ \E object \in {remote[i], "absent", "empty", "short"} : Stores(i, object)
    /\ \/ UNCHANGED pending
       \/ "late" \in Faults /\ pending' = pending \cup {i}
    /\ UNCHANGED <<sizes, chat, stale>>

(* Every item was dealt with, or the run was interrupted.                  *)
RunReturns ==
    /\ phase = "running"
    /\ todo = {} \/ signalled
    /\ phase' = "reindexing" /\ todo' = {}
    /\ UNCHANGED <<world, command, seen, failing, signalled, exit, mishaps>>

(* A leg refused one transfer after another and its breaker ended the run. *)
LegTrips ==
    /\ phase = "running" /\ "trip" \in Faults
    /\ failing' = TRUE
    /\ phase' = "reindexing" /\ todo' = {}
    /\ UNCHANGED <<world, command, seen, signalled, exit, mishaps>>

(* The run's own view of what it uploaded is not what the verdict is made  *)
(* of.                                                                     *)
Reindex ==
    /\ phase = "reindexing" /\ ~signalled
    /\ List /\ checked' = TRUE
    /\ phase' = "reporting"
    /\ UNCHANGED <<world, command, todo, failing, signalled, exit, mishaps>>

-----------------------------------------------------------------------------
\* a regression: what can never be fetched is retried with the rest
SyncExitHopeful ==
    IF failing THEN "remote" ELSE IF ~Complete THEN "incomplete" ELSE "ok"

(* A leg that refuses everything is not worth another pass, whatever the   *)
(* report says.                                                            *)
SyncExit ==
    IF failing THEN "remote"
    ELSE IF Stalled THEN "stalled"
    ELSE IF ~Complete THEN "incomplete"
    ELSE "ok"

VerifyExit == IF Complete THEN "ok" ELSE "incomplete"

Report ==
    /\ phase = "reporting"
    /\ \/ command = "sync" /\ Exit(SyncExit)
       \/ command # "sync" /\ (command = "clean" => Misnamed = {}) /\ Exit(VerifyExit)
    /\ UNCHANGED <<world, todo, failing, mishaps>>

(* verify --delete-misnamed, once the operator has agreed.                 *)
StartDeleting ==
    /\ phase = "reporting" /\ command = "clean" /\ Misnamed # {}
    /\ phase' = "deleting" /\ todo' = Misnamed
    /\ UNCHANGED <<world, command, seen, failing, signalled, exit, mishaps>>

(* Every copy of the list is tried, whatever became of the one before it.  *)
DeleteCopy(i) ==
    /\ phase = "deleting" /\ i \in todo
    /\ todo' = todo \ {i}
    /\ \/ ~signalled /\ stale' = stale \ {i} /\ UNCHANGED failing
       \/ /\ "network" \in Faults \/ signalled
          /\ failing' = TRUE /\ UNCHANGED stale
    /\ UNCHANGED <<sizes, chat, remote, pending, phase, command, seen, signalled, exit, mishaps>>

DeletingEnds ==
    /\ phase = "deleting" /\ todo = {}
    /\ Exit(IF failing THEN "remote" ELSE VerifyExit)
    /\ UNCHANGED <<world, todo, failing, mishaps>>

(* Whatever reaches Telegram or the remote may fail, and fails once the    *)
(* context is cancelled.                                                   *)
Unreachable ==
    /\ phase \in {"walking", "indexing", "reindexing"}
    /\ "network" \in Faults \/ signalled
    /\ Exit("remote")
    /\ UNCHANGED <<world, todo, failing, mishaps>>

(* gotd drops whatever error the callback returned if it wraps a           *)
(* cancellation, its own or one of a connection: the command goes on as if *)
(* the callback had done its work, with a report no Check has filled.      *)
Swallowed ==
    /\ phase \in {"walking", "indexing", "reindexing"} /\ ~signalled
    /\ Fault("swallow")
    /\ phase' = "reporting"
    /\ UNCHANGED <<world, command, seen, todo, failing, signalled, exit>>

Signal ==
    /\ "signal" \in Faults /\ phase # "idle" /\ ~signalled
    /\ signalled' = TRUE
    /\ UNCHANGED <<world, phase, command, seen, todo, failing, exit, mishaps>>

(* The process dies on the spot.  An upload it was making is left as a     *)
(* fragment, or is committed later.                                        *)
Kill ==
    /\ phase # "idle" /\ Fault("kill")
    /\ phase' = "idle" /\ exit' = "killed" /\ todo' = {}
    /\ \/ UNCHANGED <<remote, pending>>
       \/ phase = "running" /\ UNCHANGED pending
          /\ \E i \in todo : Stores(i, "short")
       \/ phase = "running" /\ "late" \in Faults /\ UNCHANGED remote
          /\ \E i \in todo : pending' = pending \cup {i}
    /\ UNCHANGED <<sizes, chat, stale, command, seen, failing, signalled>>

LateCommit(i) ==
    /\ i \in pending
    /\ pending' = pending \ {i}
    /\ Stores(i, Whole(i))
    /\ UNCHANGED <<sizes, chat, stale, process, mishaps>>

DeleteMessage(i) ==
    /\ Fault("delete") /\ i \in chat
    /\ chat' = chat \ {i}
    /\ UNCHANGED <<sizes, remote, stale, pending, process>>

Stopped ==
    phase = "idle" /\ exit \in {"ok", "usage", "remote", "stalled", "signal"}

\* the driver stops on anything but exit 1
DriverStopped == Stopped /\ UNCHANGED vars

-----------------------------------------------------------------------------
Steps ==
    \/ WalkChat \/ IndexRemote \/ Plan \/ RunReturns \/ Reindex \/ Report
    \/ StartDeleting \/ DeletingEnds \/ Unreachable
    \/ \E i \in Items : Archives(i) \/ SkipsGone(i) \/ Fails(i) \/ DeleteCopy(i)

Environment ==
    \/ LegTrips \/ Signal \/ Kill \/ Swallowed
    \/ \E i \in Items : LateCommit(i) \/ DeleteMessage(i)

Next == Steps \/ Environment \/ DriverStopped \/ \E c \in Commands : Start(c)

Spec == Init /\ [][Next]_vars

(* A command that can take a step takes one (module Pipeline: Terminates), *)
(* and the driver keeps running the commands it is made of.                *)
Fairness ==
    /\ WF_vars(Steps)
    /\ \A c \in Commands : SF_vars(Start(c))

FairSpec == Spec /\ Fairness

-----------------------------------------------------------------------------
(* Every variable stays in its type.                                       *)
TypeOK ==
    /\ tooBig \subseteq Large /\ hollow \subseteq Hollow
    /\ nested \in [Items -> Objects]
    /\ chat \subseteq Items
    /\ remote \in [Items -> Objects]
    /\ stale \subseteq Renamed
    /\ pending \subseteq Items
    /\ phase \in {"idle", "walking", "indexing", "planning", "running",
                  "reindexing", "reporting", "deleting"}
    /\ command \in Commands
    /\ items \subseteq Items
    /\ idx \in [Items -> Objects]
    /\ copies \subseteq Renamed
    /\ checked \in BOOLEAN
    /\ todo \subseteq items \ Unsafe
    /\ failing \in BOOLEAN /\ signalled \in BOOLEAN
    /\ exit \in {"none", "ok", "incomplete", "usage", "remote", "stalled",
                 "signal", "killed"}
    /\ faults \in 0 .. MaxFaults /\ disturbed \in BOOLEAN

Archived(i) == "whole" \in {remote[i], nested[i]}

(* Exit 0 means complete: every message the walk saw is on the remote at   *)
(* Telegram's size, whatever earlier runs, kills and late commits left     *)
(* there, wherever on the remote it lies and whatever error was swallowed  *)
(* on the way.                                                             *)
OkIsComplete == exit = "ok" => \A i \in items : Archived(i)

(* Exit 4 means that this is as far as it goes: every file a run could     *)
(* fetch is archived and some name cannot be.                              *)
StalledIsFinal ==
    exit = "stalled" =>
        /\ \A i \in items \ Unsafe : Archived(i)
        /\ items \cap Unsafe # {}

\* a file with something in it and one place on the remote
Plain(i) == i \notin hollow /\ nested[i] = "absent"

(* Exit 1 asks for another run, and is never said for nothing: a sync in   *)
(* whose way no fault and no limit got ends with 0, or with 4 if a name is *)
(* unsafe.  Its verdict must come from the chat it walked and from what    *)
(* the remote holds after the run.                                         *)
OneHasACause ==
    exit = "incomplete" /\ command = "sync" => disturbed \/ \E i \in items : ~Plain(i)

\* what no upload to the root makes good: an object of the wrong size in a
\* directory, and a file of zero bytes
Lasting(i) == i \in hollow \/ nested[i] \in {"empty", "short"}

(* A driver looping on exit 1 does not loop for ever: a fault is made good *)
(* by a retry, a name nothing can write and a leg that keeps refusing are  *)
(* told apart from it, and so is a file no cap has room for.  Lasting      *)
(* mismatches apart (RerunRepairs).                                        *)
DriverStops == (\A i \in Items : ~Lasting(i)) => <>[]Stopped

(* README, on objects of the wrong size and on empty ones: re-running      *)
(* repairs them.                                                           *)
RerunRepairs ==
    \A i \in Items : idx[i] \in {"empty", "short"} ~> (idx[i] = "whole" \/ Stopped)
=============================================================================
