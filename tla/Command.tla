------------------------------- MODULE Command ------------------------------
(***************************************************************************)
(* The processes of tgexport: what a command does before and after the     *)
(* work it is for, when the session store, the staging directory and the   *)
(* operator's signals are shared with others.                              *)
(*                                                                         *)
(* A process runs one command.  It reads its arguments, prepares the       *)
(* remote (internal/remote), opens the session store, whose file lock one  *)
(* process holds at a time (internal/tdlkv), runs a callback inside gotd's *)
(* client (internal/tgsource) and releases everything on the way out.  A   *)
(* goroutine of main waits for a signal and cancels the context.           *)
(***************************************************************************)
EXTENDS Arguments, Naming, FiniteSets

CONSTANTS
    Procs,       \* the processes
    Runs,        \* Runs[p]: the commands process p may have been started with
    Pressed,     \* the processes the operator interrupts or kills
    Signals,     \* the signals he sends
    Workers,     \* the transfers of a sync that ask for a client
    Faults,      \* what the environment may do wrong
    None         \* no process

ASSUME CommandAssumption ==
    /\ Runs \in [Procs -> SUBSET {"sync", "verify", "list", "doctor"}]
    /\ Pressed \subseteq Procs /\ Signals \subseteq {"INT", "TERM"} /\ None \notin Procs
    /\ IsFiniteSet(Workers)
    /\ Faults \subseteq {"config", "disk", "remote", "telegram", "session", "stray",
                         "takeout", "hang", "kill"}

VARIABLES
    command,     \* command[p]: what process p was started with
    at,          \* at[p]: where it is
    err,         \* err[p]: the error its command holds
    checked,     \* checked[p]: its callback got as far as verify.Check
    reported,    \* reported[p]: its report is written
    abandoned,   \* abandoned[p]: it gave up work because it was cancelled
    lock,        \* the process that holds the file lock of the session store
    parts,       \* the processes with a part file in the staging directory
    file,        \* file[p]: the file its transfers write: "none", "open", "done"
    once,        \* once[p]: the takeout session: "unused", "asking", "on", "off"
    asked,       \* asked[p]: how often Telegram was asked for one
    client,      \* client[p][w]: the client transfer w has from the pool
    cancelled,   \* cancelled[p]: the context of main
    inbox,       \* inbox[p]: the signal in the channel, of capacity one
    trapping,    \* the processes whose signals go to the channel
    watcher,     \* watcher[p]: the goroutine of notifyContext
    got,         \* got[p]: the signal it reports
    exit         \* exit[p]: the exit code

pool == <<once, asked, client>>
work == <<checked, reported, abandoned, parts, file, pool>>
signals == <<cancelled, inbox, trapping, watcher, got>>
vars == <<command, at, err, work, lock, signals, exit>>

Init ==
    /\ command \in [Procs -> {"sync", "verify", "list", "doctor"}]
    /\ \A p \in Procs : command[p] \in Runs[p]
    /\ at = [p \in Procs |-> "arguments"] /\ err = [p \in Procs |-> "nil"]
    /\ checked = [p \in Procs |-> FALSE] /\ reported = [p \in Procs |-> FALSE]
    /\ abandoned = [p \in Procs |-> FALSE]
    /\ lock = None /\ parts = {} /\ file = [p \in Procs |-> "none"]
    /\ once = [p \in Procs |-> "unused"] /\ asked = [p \in Procs |-> 0]
    /\ client = [p \in Procs |-> [w \in Workers |-> "none"]]
    /\ cancelled = [p \in Procs |-> FALSE] /\ inbox = [p \in Procs |-> "none"]
    /\ trapping = Procs /\ watcher = [p \in Procs |-> "waiting"]
    /\ got = [p \in Procs |-> "none"] /\ exit = [p \in Procs |-> "none"]

-----------------------------------------------------------------------------
(***************************************************************************)
(* The way through a command                                               *)
(***************************************************************************)
\* while the session store is open
Session == {"bucket", "app", "connecting", "resolving chat", "working", "hung",
            "report", "closing"}

(* Each command, in the order its code calls things; what follows the work *)
(* is PastRun and Report.                                                  *)
Following(p) ==
    LET c == command[p] IN
    CASE at[p] = "arguments" -> IF c \in {"sync", "verify"} THEN "config" ELSE "open"
      [] at[p] = "config" -> "destination"
      [] at[p] = "destination" -> IF c = "sync" THEN "sweep"
                                  ELSE IF c = "verify" THEN "open" ELSE "ending"
      [] at[p] = "sweep" -> "mkdir"
      [] at[p] = "mkdir" -> "quota"
      [] at[p] = "quota" -> "open"
      [] at[p] = "open" -> "bucket"
      [] at[p] = "bucket" -> "app"
      [] at[p] = "app" -> "connecting"
      [] at[p] = "connecting" -> IF c = "doctor" THEN "working" ELSE "resolving chat"
      [] at[p] = "resolving chat" -> "working"
      [] at[p] = "closing" -> IF c = "doctor" THEN "config" ELSE "ending"

\* where an error sends a command: the deferred Close, if there is one; a
\* doctor whose Telegram half failed goes on to the other
Bail(p) ==
    IF at[p] \in Session THEN "closing"
    ELSE IF command[p] = "doctor" /\ at[p] = "open" THEN "config"
    ELSE "ending"

(* errors.Join: a cancellation shows through.                              *)
Joined(p, e) == IF "canceled" \in {e, err[p]} THEN "canceled" ELSE e

Goes(p, place) == at' = [at EXCEPT ![p] = place]

Continues(p) ==
    /\ Goes(p, Following(p))
    /\ UNCHANGED err

Fails(p, e) ==
    /\ Goes(p, Bail(p))
    /\ err' = [err EXCEPT ![p] = Joined(p, e)]

(* How a call that takes the context may fail.  A cancelled call does not  *)
(* always say so, and a cancellation is not always main's.                 *)
Failures(p, kind) ==
    {e \in {"remote", "canceled"} :
        \/ cancelled[p]
        \/ e = "remote" /\ kind \in Faults
        \/ e = "canceled" /\ "stray" \in Faults}

GivesUp(p) == abandoned' = [abandoned EXCEPT ![p] = @ \/ cancelled[p]]

\* all of the work, but what was given up of it
effects == <<checked, reported, parts, file, pool>>

(* A flag that is unknown, a chat or a remote that is missing, for a sync  *)
(* a size parseSize refuses, or a call for help.                           *)
ReadArguments(p) ==
    /\ at[p] = "arguments"
    /\ \/ \E size \in {<<>>, <<1>>, <<Other>>} :
            IF ParseSize(size, "none").ok
              THEN Continues(p)
              ELSE command[p] = "sync" /\ Fails(p, "usage")
       \/ Fails(p, "usage") \/ Fails(p, "help")
    /\ UNCHANGED <<command, work, lock, signals, exit>>

(* remote.Init loads the configuration before rclone can do it its way,    *)
(* which ends the process with exit code 1.  A doctor may have no remote   *)
(* to look at.                                                             *)
LoadConfig(p) ==
    /\ at[p] = "config"
    /\ \/ Continues(p)
       \/ command[p] = "doctor" /\ Goes(p, "ending") /\ UNCHANGED err
       \/ "config" \in Faults /\ Fails(p, "remote")
    /\ UNCHANGED <<command, work, lock, signals, exit>>

(* remote.Resolve, EnsureDir and checkFree.  A quota that cannot be read   *)
(* does not stop a command, one that is too low does.                      *)
AskRemote(p) ==
    /\ at[p] \in {"destination", "mkdir", "quota"}
    /\ \/ Continues(p) /\ UNCHANGED abandoned
       \/ at[p] = "quota" /\ "remote" \in Faults /\ Fails(p, "remote") /\ UNCHANGED abandoned
       \/ /\ at[p] # "quota"
          /\ \E e \in Failures(p, "remote") : Fails(p, e)
          /\ GivesUp(p)
    /\ UNCHANGED <<command, effects, lock, signals, exit>>

(* SweepPartials: every part file in the directory, or as far as it gets.  *)
Sweep(p) ==
    /\ at[p] = "sweep"
    /\ \/ parts' = {} /\ Continues(p)
       \/ "disk" \in Faults /\ parts' \in SUBSET parts /\ Fails(p, "remote")
    /\ UNCHANGED <<command, checked, reported, abandoned, file, pool, lock, signals, exit>>

-----------------------------------------------------------------------------
(***************************************************************************)
(* The session store                                                       *)
(***************************************************************************)
\* there is a session and nobody has it open
Open(p) ==
    /\ at[p] = "open" /\ lock = None
    /\ lock' = p
    /\ Continues(p)
    /\ UNCHANGED <<command, work, signals, exit>>

(* No session, or three seconds without the lock: a command never waits    *)
(* for another to end.                                                     *)
OpenFails(p) ==
    /\ at[p] = "open"
    /\ lock # None \/ "session" \in Faults
    /\ Fails(p, "remote")
    /\ UNCHANGED <<command, work, lock, signals, exit>>

\* the namespace's bucket, then the app the session was made for
ReadStore(p) ==
    /\ at[p] \in {"bucket", "app"}
    /\ \/ Continues(p)
       \/ "session" \in Faults /\ Fails(p, "remote")
    /\ UNCHANGED <<command, work, lock, signals, exit>>

\* a regression: only a store that was read through is closed
CloseRead(p) ==
    /\ at[p] = "closing"
    /\ lock' = IF err[p] = "nil" THEN None ELSE lock
    /\ Continues(p)
    /\ UNCHANGED <<command, work, signals, exit>>

(* Open's own cleanup, or the deferred Close.                              *)
Close(p) ==
    /\ at[p] = "closing"
    /\ lock' = None
    /\ Continues(p)
    /\ UNCHANGED <<command, work, signals, exit>>

-----------------------------------------------------------------------------
(***************************************************************************)
(* Session.Run: gotd drops an error that wraps a cancellation, and Run     *)
(* puts back the one that was main's.                                      *)
(***************************************************************************)
FromRun(p, e) ==
    IF e \in {"nil", "canceled"} THEN IF cancelled[p] THEN "canceled" ELSE "nil" ELSE e

\* past the callback, when its error was dropped as when there was none
PastRun(p) == IF command[p] \in {"sync", "verify"} THEN "report" ELSE "closing"

\* the pool is closed before Run returns
ClosesPool(p) ==
    /\ once' = [once EXCEPT ![p] = "unused"] /\ asked' = [asked EXCEPT ![p] = 0]
    /\ client' = [client EXCEPT ![p] = [w \in Workers |-> "none"]]

LeavesRun(p, e) ==
    LET r == FromRun(p, e) IN
    /\ at' = [at EXCEPT ![p] = IF r = "nil" THEN PastRun(p) ELSE "closing"]
    /\ err' = [err EXCEPT ![p] = r]
    /\ ClosesPool(p)

(* Dialling and asking whether the session is authorised, then the chat    *)
(* the argument names: a link to a message is refused here.                *)
EnterChat(p) ==
    /\ at[p] \in {"connecting", "resolving chat"}
    /\ \/ Continues(p) /\ UNCHANGED <<abandoned, pool>>
       \/ /\ \E e \in Failures(p, "telegram") : LeavesRun(p, e)
          /\ GivesUp(p)
       \/ /\ at[p] = "resolving chat"
          /\ \E path \in {<<"name">>, <<"name", "message">>} :
               NormalizeLink(path) = "refused" /\ LeavesRun(p, "remote")
          /\ UNCHANGED abandoned
    /\ UNCHANGED <<command, checked, reported, parts, file, lock, signals, exit>>

Idle(p) ==
    /\ file[p] # "open"
    /\ \A w \in Workers : client[p][w] \notin {"asking", "waiting"}

Compares(p) == checked' = [checked EXCEPT ![p] = command[p] \in {"sync", "verify"}]

(* The callback does what the command is for, or as much of it as a        *)
(* cancelled run does before its report; or a walk, a listing or a query   *)
(* fails, or a sync is asked for a file larger than its cap.               *)
WorkEnds(p) ==
    /\ at[p] = "working" /\ Idle(p)
    /\ \/ Compares(p) /\ LeavesRun(p, "nil") /\ UNCHANGED abandoned
       \/ Compares(p) /\ cancelled[p] /\ LeavesRun(p, "nil") /\ GivesUp(p)
       \/ /\ \E e \in Failures(p, "telegram") : LeavesRun(p, e)
          /\ GivesUp(p) /\ UNCHANGED checked
       \/ /\ command[p] = "sync" /\ LeavesRun(p, "usage")
          /\ UNCHANGED <<abandoned, checked>>
    /\ UNCHANGED <<command, reported, parts, file, lock, signals, exit>>

(* A call that does not come back: rclone waiting for a slow commit.       *)
Hang(p) ==
    /\ at[p] = "working" /\ "hang" \in Faults /\ p \in Pressed
    /\ Goes(p, "hung")
    /\ UNCHANGED <<command, err, work, lock, signals, exit>>

(* What follows the report.  Nothing a Check has not filled is complete or *)
(* stalled; a sync gives up with the breaker of its run, whatever the      *)
(* report says, and a verify when it cannot write the report or cannot     *)
(* delete a stale copy.                                                    *)
Verdicts(p) ==
    {"incomplete", "remote"}
      \cup {e \in {"nil"} : checked[p]}
      \cup {e \in {"stalled"} : checked[p] /\ command[p] = "sync"}
      \cup {e \in {"canceled"} : cancelled[p] \/ "stray" \in Faults}

Report(p) ==
    /\ at[p] = "report"
    /\ \E e \in Verdicts(p) :
         /\ err' = [err EXCEPT ![p] = e]
         /\ \/ reported' = [reported EXCEPT ![p] = TRUE]
            \/ e = "remote" /\ command[p] = "verify" /\ UNCHANGED reported
         /\ IF e \in {"remote", "canceled"} THEN GivesUp(p) ELSE UNCHANGED abandoned
    /\ Goes(p, "closing")
    /\ UNCHANGED <<command, checked, parts, file, pool, lock, signals, exit>>

-----------------------------------------------------------------------------
(***************************************************************************)
(* safeTakeout: the transfers of a sync share one takeout session, which   *)
(* the first to ask establishes.                                           *)
(***************************************************************************)
Syncing(p) == at[p] = "working" /\ command[p] = "sync"

taking == <<command, at, err, checked, reported, abandoned, parts, file,
            lock, signals, exit>>

Plain(p) == IF once[p] = "on" THEN "takeout" ELSE "plain"

\* a regression: an initialisation that failed is tried again
TakeoutRetrying(p, w) ==
    /\ Syncing(p) /\ client[p][w] = "none"
    /\ IF once[p] \in {"unused", "off"}
         THEN /\ once' = [once EXCEPT ![p] = "asking"]
              /\ asked' = [asked EXCEPT ![p] = @ + 1]
              /\ client' = [client EXCEPT ![p][w] = "asking"]
         ELSE /\ client' = [client EXCEPT ![p][w] = IF once[p] = "asking" THEN "waiting"
                                                    ELSE Plain(p)]
              /\ UNCHANGED <<once, asked>>
    /\ UNCHANGED taking

(* once.Do: the first asks, the others wait for it, whatever becomes of    *)
(* their own context.                                                      *)
Takeout(p, w) ==
    /\ Syncing(p) /\ client[p][w] = "none"
    /\ IF once[p] = "unused"
         THEN /\ once' = [once EXCEPT ![p] = "asking"]
              /\ asked' = [asked EXCEPT ![p] = @ + 1]
              /\ client' = [client EXCEPT ![p][w] = "asking"]
         ELSE /\ client' = [client EXCEPT ![p][w] = IF once[p] = "asking" THEN "waiting"
                                                    ELSE Plain(p)]
              /\ UNCHANGED <<once, asked>>
    /\ UNCHANGED taking

\* a regression: who is refused asks the pool, behind the lock it holds
InitTakeoutLocking(p, w) ==
    /\ Syncing(p) /\ client[p][w] = "asking"
    /\ \/ once' = [once EXCEPT ![p] = "on"] /\ client' = [client EXCEPT ![p][w] = "takeout"]
       \/ /\ "takeout" \in Faults \/ cancelled[p]
          /\ client' = [client EXCEPT ![p][w] = "waiting"] /\ UNCHANGED once
    /\ UNCHANGED <<asked, taking>>

(* Telegram grants it, or the first caller goes on without, as everyone    *)
(* after it.                                                               *)
InitTakeout(p, w) ==
    /\ Syncing(p) /\ client[p][w] = "asking"
    /\ \/ once' = [once EXCEPT ![p] = "on"] /\ client' = [client EXCEPT ![p][w] = "takeout"]
       \/ /\ "takeout" \in Faults \/ cancelled[p]
          /\ once' = [once EXCEPT ![p] = "off"] /\ client' = [client EXCEPT ![p][w] = "plain"]
    /\ UNCHANGED <<asked, taking>>

TakeoutDone(p, w) ==
    /\ Syncing(p) /\ client[p][w] = "waiting" /\ once[p] \in {"on", "off"}
    /\ client' = [client EXCEPT ![p][w] = Plain(p)]
    /\ UNCHANGED <<once, asked, taking>>

(* A transfer writes its part file, and renames or removes it.             *)
StartPart(p) ==
    /\ Syncing(p) /\ file[p] = "none"
    /\ \E w \in Workers : client[p][w] \in {"plain", "takeout"}
    /\ file' = [file EXCEPT ![p] = "open"] /\ parts' = parts \cup {p}
    /\ UNCHANGED <<command, at, err, checked, reported, abandoned, pool, lock, signals, exit>>

EndPart(p) ==
    /\ Syncing(p) /\ file[p] = "open"
    /\ file' = [file EXCEPT ![p] = "done"] /\ parts' = parts \ {p}
    /\ UNCHANGED <<command, at, err, checked, reported, abandoned, pool, lock, signals, exit>>

-----------------------------------------------------------------------------
(***************************************************************************)
(* notifyContext and the end of the process                                *)
(***************************************************************************)
\* a process that is no more has no lock and no open file; its part file stays
Dies(p) ==
    /\ Goes(p, "gone") /\ exit' = [exit EXCEPT ![p] = "killed"]
    /\ lock' = IF lock = p THEN None ELSE lock
    /\ file' = [file EXCEPT ![p] = IF @ = "open" THEN "done" ELSE @]
    /\ ClosesPool(p)
    /\ UNCHANGED <<command, err, checked, reported, abandoned, parts>>

(* A signal goes to the channel, or kills once nothing traps it; one that  *)
(* finds the channel full is dropped.                                      *)
Press(p, s) ==
    /\ p \in Pressed /\ at[p] # "gone"
    /\ IF p \in trapping
         THEN /\ inbox' = [inbox EXCEPT ![p] = IF @ = "none" THEN s ELSE @]
              /\ UNCHANGED <<command, at, err, work, lock, exit>>
         ELSE Dies(p) /\ UNCHANGED inbox
    /\ UNCHANGED <<cancelled, trapping, watcher, got>>

Kill(p) ==
    /\ p \in Pressed /\ at[p] # "gone" /\ "kill" \in Faults
    /\ Dies(p)
    /\ UNCHANGED signals

Receive(p) ==
    /\ watcher[p] = "waiting" /\ inbox[p] # "none" /\ at[p] # "gone"
    /\ got' = [got EXCEPT ![p] = inbox[p]]
    /\ inbox' = [inbox EXCEPT ![p] = "none"]
    /\ watcher' = [watcher EXCEPT ![p] = "received"]
    /\ UNCHANGED <<command, at, err, work, lock, cancelled, trapping, exit>>

\* signal.Stop and cancel
Cancel(p) ==
    /\ watcher[p] = "received" /\ at[p] # "gone"
    /\ trapping' = trapping \ {p}
    /\ cancelled' = [cancelled EXCEPT ![p] = TRUE]
    /\ watcher' = [watcher EXCEPT ![p] = "finished"]
    /\ UNCHANGED <<command, at, err, work, lock, inbox, got, exit>>

(* The command has returned.  With a signal in the channel as well, the    *)
(* select may take either.                                                 *)
Dismiss(p) ==
    /\ watcher[p] = "waiting" /\ at[p] = "ending"
    /\ trapping' = trapping \ {p}
    /\ cancelled' = [cancelled EXCEPT ![p] = TRUE]
    /\ watcher' = [watcher EXCEPT ![p] = "finished"]
    /\ UNCHANGED <<command, at, err, work, lock, inbox, got, exit>>

\* a regression: an error outranks the signal that caused it
ExitCodeOfError(e, sig) ==
    CASE e = "remote" -> "3"
      [] e \in {"nil", "help"} -> IF sig = "none" THEN "0" ELSE "130"
      [] e = "usage" -> "2"
      [] e = "incomplete" -> "1"
      [] e = "stalled" -> "4"
      [] OTHER -> "130"

\* a regression: an error that is none of ours has no code
ExitCodeUnmapped(e, sig) ==
    CASE sig = "TERM" -> "143"
      [] sig = "INT" -> "130"
      [] sig = "none" /\ e \in {"nil", "help"} -> "0"
      [] OTHER -> e

(* A signal outranks whatever error the interruption produced.             *)
ExitCode(e, sig) ==
    CASE sig = "TERM" -> "143"
      [] sig = "INT" -> "130"
      [] sig = "none" /\ e \in {"nil", "help"} -> "0"
      [] sig = "none" /\ e = "canceled" -> "130"
      [] sig = "none" /\ e = "usage" -> "2"
      [] sig = "none" /\ e = "stalled" -> "4"
      [] sig = "none" /\ e = "incomplete" -> "1"
      [] OTHER -> "3"

\* the accessor has waited for the goroutine before it reads got
Exits(p) ==
    /\ at[p] = "ending" /\ watcher[p] = "finished"
    /\ Goes(p, "gone") /\ exit' = [exit EXCEPT ![p] = ExitCode(err[p], got[p])]
    /\ UNCHANGED <<command, err, work, lock, signals>>

-----------------------------------------------------------------------------
Steps(p) ==
    \/ ReadArguments(p) \/ LoadConfig(p) \/ AskRemote(p) \/ Sweep(p)
    \/ Open(p) \/ OpenFails(p) \/ ReadStore(p) \/ Close(p)
    \/ EnterChat(p) \/ WorkEnds(p) \/ Report(p)
    \/ EndPart(p) \/ Exits(p)
    \/ \E w \in Workers : InitTakeout(p, w) \/ TakeoutDone(p, w)

Watching(p) == Receive(p) \/ Cancel(p) \/ Dismiss(p)

Environment(p) ==
    \/ Hang(p) \/ Kill(p) \/ StartPart(p)
    \/ \E s \in Signals : Press(p, s)
    \/ \E w \in Workers : Takeout(p, w)

AllGone == (\A p \in Procs : at[p] = "gone") /\ UNCHANGED vars

Next == AllGone \/ \E p \in Procs : Steps(p) \/ Watching(p) \/ Environment(p)

Spec == Init /\ [][Next]_vars

(* The scheduler runs every goroutine, calls come back unless they hang,   *)
(* and the operator of a process that hangs keeps pressing Ctrl-C.         *)
Fairness ==
    \A p \in Procs :
        /\ WF_vars(Steps(p)) /\ WF_vars(Watching(p))
        /\ WF_vars(at[p] = "hung" /\ \E s \in Signals : Press(p, s))

FairSpec == Spec /\ Fairness

-----------------------------------------------------------------------------
Places == {"arguments", "config", "destination", "sweep", "mkdir", "quota", "open",
           "ending", "gone"} \cup Session

(* Every variable stays in its type.                                       *)
TypeOK ==
    /\ command \in [Procs -> {"sync", "verify", "list", "doctor"}]
    /\ at \in [Procs -> Places]
    /\ err \in [Procs -> {"nil", "help", "canceled", "usage", "stalled", "incomplete",
                         "remote"}]
    /\ checked \in [Procs -> BOOLEAN] /\ reported \in [Procs -> BOOLEAN]
    /\ abandoned \in [Procs -> BOOLEAN]
    /\ lock \in Procs \cup {None}
    /\ parts \subseteq Procs /\ file \in [Procs -> {"none", "open", "done"}]
    /\ once \in [Procs -> {"unused", "asking", "on", "off"}]
    /\ asked \in [Procs -> Nat]
    /\ client \in [Procs -> [Workers -> {"none", "asking", "waiting", "plain", "takeout"}]]
    /\ cancelled \in [Procs -> BOOLEAN]
    /\ inbox \in [Procs -> Signals \cup {"none"}]
    /\ trapping \subseteq Procs
    /\ watcher \in [Procs -> {"waiting", "received", "finished"}]
    /\ got \in [Procs -> Signals \cup {"none"}]
    /\ exit \in [Procs -> {"none", "0", "1", "2", "3", "4", "130", "143", "killed"}]

(* The lock is held by the one process between Open and Close and by       *)
(* nobody else: two never write the session, and no path out of a command, *)
(* an error, a signal or its death, leaves the lock behind.                *)
LockIsSession == \A p \in Procs : lock = p <=> at[p] \in Session

(* The exit code is what happened.  Work given up because of a signal is   *)
(* reported as that signal and nothing else, though gotd may drop the      *)
(* error and the end of the command may race with the signal; a driver     *)
(* reads 0 from sync and verify only when the chat and the remote were     *)
(* compared, or help was all that was asked for, and 1, which it retries   *)
(* on, only from a command that has reported.                              *)
ExitIsEarned ==
    \A p \in Procs :
        /\ abandoned[p] => exit[p] \in {"none", "killed", "130", "143"}
        /\ exit[p] = "0" /\ command[p] \in {"sync", "verify"} =>
             checked[p] \/ err[p] = "help"
        /\ exit[p] = "1" => reported[p]

(* The takeout session is asked for once in a run, and either every        *)
(* transfer has it or none does.                                           *)
OneTakeout ==
    \A p \in Procs :
        /\ asked[p] <= 1
        /\ \A v, w \in Workers : ~ (client[p][v] = "plain" /\ client[p][w] = "takeout")

(* Every process ends: the loser of the lock, the transfers behind a       *)
(* takeout that was refused, and, if the operator insists, the one whose   *)
(* shutdown hangs.                                                         *)
Ends == \A p \in Procs : <>(at[p] = "gone")

(* -m: no process goes on with another size than the one that was written. *)
(* Every text is that size or is refused; no size wraps into something     *)
(* else, none that fits is refused, and only the empty text is no cap.     *)
SizeIsExact == \A p \in Procs : at[p] = "config" => ExactSizes

(* -c: no process works on another chat than the one that was meant.  A    *)
(* link to a chat is that chat and never the marker in front of it, and a  *)
(* link to one message, in a topic or not, is refused rather than taken    *)
(* for the chat it is in.                                                  *)
ChatIsMeant == \A p \in Procs : at[p] = "working" => MeantChats

(* No list of stale copies, which --delete-misnamed acts on, takes one     *)
(* message's object for another's: SplitStored reads a name exactly when   *)
(* For wrote it for that dialog, and as the message it was written for,    *)
(* whatever digits and separators the sender put into the file name.       *)
NamesReadBack == \A p \in Procs : checked[p] => ReadBack

(* sync, of the sweep: the part files it clears are from an earlier run.   *)
SweptAreStale == \A p \in Procs : file[p] = "open" => p \in parts
=============================================================================
