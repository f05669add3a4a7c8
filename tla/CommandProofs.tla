---------------------------- MODULE CommandProofs ---------------------------
(***************************************************************************)
(* Proofs about module Command, for any number of processes and transfers, *)
(* any commands and any faults: who holds the lock of the session store,   *)
(* how often a takeout session is asked for, what an exit code is worth.   *)
(*                                                                         *)
(* The argument: a process is between Open and Close exactly while the     *)
(* lock is its own, because an error inside goes through Close and none    *)
(* outside leads back in (Locked); a transfer that asks for a takeout      *)
(* session is the only one to (Sharing); a context is cancelled while a    *)
(* command works only after its signal was noted, and an error a command   *)
(* holds at its end is what the report, or the lack of one, made it        *)
(* (Earning).  Of the staging directory, which no lock guards: only a sync *)
(* under the lock writes there (Writing), so only the sweep of another one *)
(* can be in its way.  What a command read from its arguments is what      *)
(* TextProofs shows of the pure functions.                                 *)
(***************************************************************************)
EXTENDS Command, TextProofs

Errors == {"nil", "help", "canceled", "usage", "stalled", "incomplete", "remote"}

Locked == LockIsSession

(* The first to ask is alone until it is answered, and what it is told     *)
(* is what everyone gets.                                                  *)
Sharing ==
    \A p \in Procs :
        /\ asked[p] <= 1
        /\ once[p] = "unused" => asked[p] = 0
        /\ \A w \in Workers :
             /\ client[p][w] = "asking" => once[p] = "asking"
             /\ client[p][w] = "plain" => once[p] = "off"
             /\ client[p][w] = "takeout" => once[p] = "on"
        /\ \A v, w \in Workers :
             client[p][v] = "asking" /\ client[p][w] = "asking" => v = w

(* What a signal and an error leave behind, up to the exit code.           *)
Earning ==
    \A p \in Procs :
        /\ at[p] # "gone" => exit[p] = "none"
        /\ watcher[p] = "received" => got[p] \in Signals
        /\ cancelled[p] /\ at[p] \notin {"ending", "gone"} => got[p] \in Signals
        /\ abandoned[p] => got[p] \in Signals
        /\ err[p] = "incomplete" => reported[p]
        /\ /\ at[p] \in {"closing", "ending"} /\ command[p] \in {"sync", "verify"}
           /\ err[p] = "nil"
           => checked[p]

IInv == TypeOK /\ Locked /\ Sharing /\ Earning /\ ExitIsEarned

LEMMA Constants == Signals \subseteq {"INT", "TERM"} /\ None \notin Procs
BY CommandAssumption

-----------------------------------------------------------------------------
(***************************************************************************)
(* The steps on the way through a command                                  *)
(***************************************************************************)
Outside == {"arguments", "config", "destination", "sweep", "mkdir", "quota", "open"}

\* where a command continues from each place
LEMMA Onward ==
    ASSUME NEW p \in Procs
    PROVE  /\ at[p] \in Outside \ {"open"} =>
                Following(p) \in (Outside \ {"arguments"}) \cup {"ending"}
           /\ at[p] = "open" => Following(p) = "bucket"
           /\ at[p] \in {"bucket", "app", "connecting", "resolving chat"} =>
                Following(p) \in {"app", "connecting", "resolving chat", "working"}
           /\ at[p] = "closing" => Following(p) \in {"config", "ending"}
           /\ /\ at[p] \in Outside /\ Following(p) = "ending"
              => command[p] \notin {"sync", "verify"}
<1>1. CASE at[p] \in {"arguments", "config"}
  BY <1>1 DEF Following, Outside
<1>2. CASE at[p] = "destination"
  BY <1>2 DEF Following, Outside
<1>3. CASE at[p] \in {"sweep", "mkdir", "quota"}
  BY <1>3 DEF Following, Outside
<1>4. CASE at[p] \in {"open", "bucket", "app"}
  BY <1>4 DEF Following, Outside
<1>5. CASE at[p] \in {"connecting", "resolving chat", "closing"}
  BY <1>5 DEF Following, Outside
<1> QED
  BY <1>1, <1>2, <1>3, <1>4, <1>5 DEF Outside

(* A step of process p from one place to another, on the same side of the  *)
(* lock, with the error it then holds.                                     *)
Advance(p) ==
    /\ at[p] \in Outside \cup (Session \ {"closing"})
    /\ \E place \in Places \ {"gone"}, e \in Errors :
         /\ Goes(p, place) /\ err' = [err EXCEPT ![p] = e]
         /\ place \in Session <=> at[p] \in Session
         /\ e = "incomplete" => err[p] = "incomplete" \/ reported'[p]
         /\ place \in {"closing", "ending"} /\ command[p] \in {"sync", "verify"} /\ e = "nil"
            => checked'[p]

LEMMA ContinuesAdvances ==
    ASSUME TypeOK, NEW p \in Procs, Continues(p), UNCHANGED command,
           at[p] \in (Outside \ {"open"})
                       \cup {"bucket", "app", "connecting", "resolving chat"}
    PROVE  Advance(p)
<1>1. err[p] \in Errors /\ err' = [err EXCEPT ![p] = err[p]]
  BY DEF TypeOK, Errors, Continues
<1>2. at[p] \in Outside => Following(p) \in Places \ (Session \cup {"gone"})
  BY Onward DEF Places, Outside, Session
<1>3. at[p] \notin Outside => Following(p) \in Session \ {"closing"}
  BY Onward DEF Places, Outside, Session
<1>4. at[p] \in Outside => Following(p) # "closing"
  BY Onward DEF Outside
<1> QED
  <2> DEFINE place == Following(p)
  <2>1. Goes(p, place) /\ place \in Places \ {"gone"}
    BY <1>2, <1>3 DEF Continues, Places, Session
  <2>2. place \in Session <=> at[p] \in Session
    BY <1>2, <1>3 DEF Outside, Session
  <2>3. place \in {"closing", "ending"} => command[p] \notin {"sync", "verify"}
    BY <1>3, <1>4, Onward DEF Outside, Session
  <2>4. at[p] \in Outside \cup (Session \ {"closing"})
    BY DEF Session
  <2> QED
    BY <1>1, <2>1, <2>2, <2>3, <2>4 DEF Advance

LEMMA FailsAdvances ==
    ASSUME TypeOK, NEW p \in Procs, NEW e \in {"help", "canceled", "usage", "remote"}, Fails(p, e),
           at[p] \in Outside \cup (Session \ {"closing"})
    PROVE  Advance(p)
<1>1. Bail(p) \in Places \ {"gone"} /\ (Bail(p) \in Session <=> at[p] \in Session)
  BY DEF Bail, Places, Outside, Session
<1>2. Joined(p, e) \in {"help", "canceled", "usage", "remote"}
  BY DEF Joined
<1> QED
  BY <1>1, <1>2 DEF Advance, Fails, Goes, Errors

LEMMA LeavesRunAdvances ==
    ASSUME TypeOK, NEW p \in Procs, NEW e \in {"nil", "canceled", "usage", "remote"},
           LeavesRun(p, e),
           at[p] \in {"connecting", "resolving chat", "working"}
    PROVE  Advance(p)
<1> DEFINE r == FromRun(p, e)
           place == IF r = "nil" THEN PastRun(p) ELSE "closing"
<1>1. r \in {"nil", "canceled", "usage", "remote"}
  BY DEF FromRun
<1>2. place \in {"report", "closing"}
  BY DEF PastRun
<1>3. place = "closing" /\ command[p] \in {"sync", "verify"} => r # "nil"
  BY DEF PastRun
<1>4. Goes(p, place) /\ err' = [err EXCEPT ![p] = r]
  BY DEF LeavesRun, Goes
<1>5. /\ place \in Places \ {"gone"} /\ place # "ending"
      /\ place \in Session /\ at[p] \in Session \ {"closing"}
  BY <1>2 DEF Places, Session
<1> HIDE DEF r, place
<1> QED
  BY <1>1, <1>3, <1>4, <1>5 DEF Advance, Errors

Way(p) ==
    \/ ReadArguments(p) \/ LoadConfig(p) \/ AskRemote(p) \/ Sweep(p) \/ OpenFails(p)
    \/ ReadStore(p) \/ EnterChat(p) \/ WorkEnds(p) \/ Hang(p) \/ Report(p)

LEMMA WayAdvances ==
    ASSUME TypeOK, NEW p \in Procs, Way(p)
    PROVE  Advance(p)
<1>1. CASE ReadArguments(p)
  BY <1>1, ContinuesAdvances, FailsAdvances DEF ReadArguments, Outside
<1>2. CASE LoadConfig(p)
  <2>1. CASE Continues(p)
    BY <1>2, <2>1, ContinuesAdvances DEF LoadConfig, Outside
  <2>2. CASE command[p] = "doctor" /\ Goes(p, "ending") /\ UNCHANGED err
    <3>1. err[p] \in Errors /\ err' = [err EXCEPT ![p] = err[p]]
      BY <2>2 DEF TypeOK, Errors
    <3> QED
      BY <1>2, <2>2, <3>1 DEF LoadConfig, Advance, Outside, Session, Places
  <2>3. CASE Fails(p, "remote")
    BY <1>2, <2>3, FailsAdvances DEF LoadConfig, Outside
  <2> QED
    BY <1>2, <2>1, <2>2, <2>3 DEF LoadConfig
<1>3. CASE AskRemote(p)
  BY <1>3, ContinuesAdvances, FailsAdvances DEF AskRemote, Outside, Failures
<1>4. CASE Sweep(p)
  BY <1>4, ContinuesAdvances, FailsAdvances DEF Sweep, Outside
<1>5. CASE OpenFails(p)
  BY <1>5, FailsAdvances DEF OpenFails, Outside
<1>6. CASE ReadStore(p)
  BY <1>6, ContinuesAdvances, FailsAdvances DEF ReadStore, Outside, Session
<1>7. CASE EnterChat(p)
  BY <1>7, ContinuesAdvances, LeavesRunAdvances DEF EnterChat, Outside, Failures
<1>8. CASE WorkEnds(p)
  BY <1>8, LeavesRunAdvances DEF WorkEnds, Failures
<1>9. CASE Hang(p)
  <2>1. err[p] \in Errors /\ err' = [err EXCEPT ![p] = err[p]]
    BY <1>9 DEF TypeOK, Errors, Hang
  <2>2. /\ "hung" \in Places \ {"gone"} /\ "hung" \in Session
        /\ at[p] \in Session \ {"closing"} /\ Goes(p, "hung")
    BY <1>9 DEF Hang, Session, Places
  <2> QED
    BY <2>1, <2>2 DEF Advance
<1>10. CASE Report(p)
  <2>1. PICK e \in Verdicts(p) :
          /\ err' = [err EXCEPT ![p] = e]
          /\ \/ reported' = [reported EXCEPT ![p] = TRUE]
             \/ e = "remote" /\ command[p] = "verify" /\ UNCHANGED reported
    BY <1>10 DEF Report
  <2>2. e \in Errors /\ (e = "nil" => checked[p])
    BY DEF Verdicts, Errors
  <2>3. (e = "incomplete" => reported'[p]) /\ checked' = checked
    BY <1>10, <2>1 DEF Report, TypeOK
  <2> QED
    BY <1>10, <2>1, <2>2, <2>3 DEF Report, Advance, Session, Places
<1> QED
  BY <1>1, <1>2, <1>3, <1>4, <1>5, <1>6, <1>7, <1>8, <1>9, <1>10 DEF Way

\* what else changes on the way
LEMMA WayEffects ==
    ASSUME TypeOK, NEW p \in Procs, Way(p)
    PROVE  /\ UNCHANGED <<command, lock, signals, exit>>
           /\ UNCHANGED pool \/ ClosesPool(p)
           /\ parts' \subseteq parts /\ UNCHANGED file
           /\ checked' \in [Procs -> BOOLEAN]
           /\ \A q \in Procs \ {p} : checked'[q] = checked[q]
           /\ \/ UNCHANGED reported
              \/ reported' = [reported EXCEPT ![p] = TRUE]
           /\ UNCHANGED abandoned \/ GivesUp(p)
<1> USE DEF work, effects, pool
<1>1. CASE ReadArguments(p) \/ LoadConfig(p) \/ OpenFails(p) \/ ReadStore(p) \/ Hang(p)
  <2>1. UNCHANGED <<command, work, lock, signals, exit>>
    BY <1>1 DEF ReadArguments, LoadConfig, OpenFails, ReadStore, Hang
  <2> QED
    BY <2>1 DEF TypeOK
<1>2. CASE AskRemote(p)
  BY <1>2 DEF AskRemote, TypeOK
<1>3. CASE Sweep(p)
  BY <1>3 DEF Sweep, TypeOK
<1>4. CASE EnterChat(p)
  BY <1>4 DEF EnterChat, LeavesRun, TypeOK
<1>5. CASE WorkEnds(p)
  <2>1. /\ UNCHANGED <<command, reported, parts, file, lock, signals, exit>>
        /\ ClosesPool(p)
        /\ UNCHANGED abandoned \/ GivesUp(p)
    BY <1>5 DEF WorkEnds, LeavesRun
  <2>2. Compares(p) \/ UNCHANGED checked
    BY <1>5 DEF WorkEnds
  <2>3. CASE Compares(p)
    <3> DEFINE c == command[p] \in {"sync", "verify"}
    <3>1. c \in BOOLEAN /\ checked' = [checked EXCEPT ![p] = c]
      BY <2>3 DEF Compares
    <3> HIDE DEF c
    <3> QED
      BY <2>1, <3>1 DEF TypeOK
  <2>4. CASE UNCHANGED checked
    BY <2>1, <2>4 DEF TypeOK
  <2> QED
    BY <2>2, <2>3, <2>4
<1>6. CASE Report(p)
  BY <1>6 DEF Report, TypeOK
<1> QED
  BY <1>1, <1>2, <1>3, <1>4, <1>5, <1>6 DEF Way

-----------------------------------------------------------------------------
(***************************************************************************)
(* Types                                                                   *)
(***************************************************************************)
\* the three variables of the takeout session
PoolOK ==
    /\ once \in [Procs -> {"unused", "asking", "on", "off"}]
    /\ asked \in [Procs -> Nat]
    /\ client \in [Procs -> [Workers -> {"none", "asking", "waiting", "plain", "takeout"}]]

LEMMA PoolStaysTyped ==
    ASSUME PoolOK, NEW p \in Procs,
           \/ UNCHANGED pool \/ ClosesPool(p)
           \/ \E w \in Workers : Takeout(p, w) \/ InitTakeout(p, w) \/ TakeoutDone(p, w)
    PROVE  PoolOK'
<1>1. CASE UNCHANGED pool
  BY <1>1 DEF PoolOK, pool
<1>2. CASE ClosesPool(p)
  BY <1>2 DEF PoolOK, ClosesPool
<1>3. CASE \E w \in Workers : Takeout(p, w)
  <2>1. PICK w \in Workers : Takeout(p, w)
    BY <1>3
  <2>2. CASE once[p] = "unused"
    BY <2>1, <2>2 DEF PoolOK, Takeout
  <2>3. CASE once[p] # "unused"
    <3> DEFINE c == IF once[p] = "asking" THEN "waiting" ELSE Plain(p)
    <3>1. c \in {"waiting", "plain", "takeout"}
      BY DEF Plain
    <3>2. client' = [client EXCEPT ![p][w] = c] /\ UNCHANGED <<once, asked>>
      BY <2>1, <2>3 DEF Takeout
    <3> HIDE DEF c
    <3> QED
      BY <3>1, <3>2 DEF PoolOK
  <2> QED
    BY <2>2, <2>3
<1>4. CASE \E w \in Workers : InitTakeout(p, w)
  <2>1. PICK w \in Workers : InitTakeout(p, w)
    BY <1>4
  <2>2. PICK o \in {"on", "off"}, c \in {"plain", "takeout"} :
          once' = [once EXCEPT ![p] = o] /\ client' = [client EXCEPT ![p][w] = c]
    BY <2>1 DEF InitTakeout
  <2>3. UNCHANGED asked
    BY <2>1 DEF InitTakeout
  <2> QED
    BY <2>2, <2>3 DEF PoolOK
<1>5. CASE \E w \in Workers : TakeoutDone(p, w)
  BY <1>5 DEF PoolOK, TakeoutDone, Plain
<1> QED
  BY <1>1, <1>2, <1>3, <1>4, <1>5

LEMMA ExitCodeTyped ==
    ASSUME NEW e, NEW sig
    PROVE  ExitCode(e, sig) \in {"0", "1", "2", "3", "4", "130", "143"}
BY DEF ExitCode

\* every step of a process is one of these
LEMMA StepKinds ==
    ASSUME NEW p \in Procs, Steps(p) \/ Watching(p) \/ Environment(p)
    PROVE  \/ Way(p) \/ Open(p) \/ Close(p) \/ EndPart(p) \/ StartPart(p) \/ Exits(p)
           \/ \E w \in Workers : Takeout(p, w) \/ InitTakeout(p, w) \/ TakeoutDone(p, w)
           \/ Receive(p) \/ Cancel(p) \/ Dismiss(p)
           \/ Kill(p) \/ \E s \in Signals : Press(p, s)
BY DEF Steps, Watching, Environment, Way

LEMMA TypesStay ==
    ASSUME TypeOK, NEW p \in Procs, Steps(p) \/ Watching(p) \/ Environment(p)
    PROVE  TypeOK'
<1> USE DEF work, pool
<1>0. PoolOK
  BY DEF TypeOK, PoolOK
<1>1. CASE Way(p)
  <2>1. at' \in [Procs -> Places] /\ err' \in [Procs -> Errors]
    <3>1. Advance(p)
      BY <1>1, WayAdvances
    <3>2. PICK place \in Places, e \in Errors :
            at' = [at EXCEPT ![p] = place] /\ err' = [err EXCEPT ![p] = e]
      BY <3>1 DEF Advance, Goes
    <3> QED
      BY <3>2 DEF TypeOK, Errors
  <2>2. PoolOK'
    BY <1>0, <1>1, WayEffects, PoolStaysTyped
  <2>3. reported' \in [Procs -> BOOLEAN] /\ abandoned' \in [Procs -> BOOLEAN]
    <3>1. abandoned \in [Procs -> BOOLEAN] /\ reported \in [Procs -> BOOLEAN]
      BY DEF TypeOK
    <3>2. CASE GivesUp(p)
      <4> DEFINE c == abandoned[p] \/ cancelled[p]
      <4>1. c \in BOOLEAN /\ abandoned' = [abandoned EXCEPT ![p] = c]
        BY <3>2 DEF GivesUp
      <4> HIDE DEF c
      <4>2. abandoned' \in [Procs -> BOOLEAN]
        BY <3>1, <4>1
      <4> QED
        BY <1>1, <3>1, <4>2, WayEffects
    <3> QED
      BY <1>1, <3>1, <3>2, WayEffects
  <2> QED
    BY <1>1, <2>1, <2>2, <2>3, WayEffects DEF TypeOK, PoolOK, signals, Errors
<1>2. CASE Open(p)
  BY <1>2, Onward DEF Open, Continues, Goes, TypeOK, signals, Places, Session
<1>3. CASE Close(p)
  BY <1>3, Onward DEF Close, Continues, Goes, TypeOK, signals, Places
<1>4. CASE EndPart(p) \/ StartPart(p)
  BY <1>4 DEF EndPart, StartPart, TypeOK, signals
<1>5. CASE Exits(p)
  BY <1>5, ExitCodeTyped DEF Exits, Goes, TypeOK, signals, Places
<1>6. CASE \E w \in Workers : Takeout(p, w) \/ InitTakeout(p, w) \/ TakeoutDone(p, w)
  <2>1. UNCHANGED taking
    BY <1>6 DEF Takeout, InitTakeout, TakeoutDone
  <2>2. PoolOK'
    BY <1>0, <1>6, PoolStaysTyped
  <2> QED
    BY <2>1, <2>2 DEF TypeOK, PoolOK, taking, signals
<1>7. CASE Receive(p) \/ Cancel(p) \/ Dismiss(p)
  <2>1. UNCHANGED <<command, at, err, work, lock, exit>>
    BY <1>7 DEF Receive, Cancel, Dismiss
  <2>2. CASE Receive(p)
    BY <2>1, <2>2 DEF Receive, TypeOK
  <2>3. CASE Cancel(p) \/ Dismiss(p)
    <3>1. /\ trapping' \subseteq Procs /\ cancelled' = [cancelled EXCEPT ![p] = TRUE]
          /\ watcher' = [watcher EXCEPT ![p] = "finished"] /\ UNCHANGED <<inbox, got>>
      BY <2>3 DEF Cancel, Dismiss, TypeOK
    <3> QED
      BY <2>1, <3>1 DEF TypeOK
  <2> QED
    BY <1>7, <2>2, <2>3
<1>8. ASSUME Dies(p)
      PROVE  /\ at' \in [Procs -> Places]
             /\ exit' \in [Procs -> {"none", "0", "1", "2", "3", "4", "130", "143", "killed"}]
             /\ lock' \in Procs \cup {None} /\ file' \in [Procs -> {"none", "open", "done"}]
             /\ PoolOK'
             /\ UNCHANGED <<command, err, checked, reported, abandoned, parts>>
  <2>1. PoolOK'
    BY <1>0, <1>8, PoolStaysTyped DEF Dies
  <2> QED
    BY <1>8, <2>1 DEF Dies, Goes, TypeOK, Places
<1>9. CASE Kill(p)
  BY <1>8, <1>9 DEF Kill, TypeOK, PoolOK, signals
<1>10. CASE \E s \in Signals : Press(p, s)
  <2>1. PICK s \in Signals : Press(p, s)
    BY <1>10
  <2>2. CASE p \in trapping
    BY <2>1, <2>2 DEF Press, TypeOK
  <2>3. CASE p \notin trapping
    BY <1>8, <2>1, <2>3 DEF Press, TypeOK, PoolOK
  <2> QED
    BY <2>2, <2>3
<1> QED
  BY <1>1, <1>2, <1>3, <1>4, <1>5, <1>6, <1>7, <1>9, <1>10, StepKinds

-----------------------------------------------------------------------------
(***************************************************************************)
(* The lock                                                                *)
(***************************************************************************)
LEMMA LockStays ==
    ASSUME TypeOK, Locked, NEW p \in Procs, Steps(p) \/ Watching(p) \/ Environment(p)
    PROVE  Locked'
<1> USE DEF Locked, LockIsSession
<1>1. CASE Way(p)
  <2>1. Advance(p) /\ UNCHANGED lock
    BY <1>1, WayAdvances, WayEffects
  <2>2. PICK place \in Places :
          at' = [at EXCEPT ![p] = place] /\ (place \in Session <=> at[p] \in Session)
    BY <2>1 DEF Advance, Goes
  <2> QED
    BY <2>1, <2>2 DEF TypeOK
<1>2. CASE Open(p)
  <2>1. at' = [at EXCEPT ![p] = "bucket"] /\ lock = None /\ lock' = p
    BY <1>2, Onward DEF Open, Continues, Goes
  <2>2. "bucket" \in Session
    BY DEF Session
  <2> QED
    BY <2>1, <2>2, Constants DEF TypeOK
<1>3. CASE Close(p)
  <2>1. PICK place \in {"config", "ending"} : at' = [at EXCEPT ![p] = place]
    BY <1>3, Onward DEF Close, Continues, Goes
  <2>2. place \notin Session /\ at[p] \in Session /\ lock' = None
    BY <1>3, <2>1 DEF Close, Session
  <2> QED
    BY <2>1, <2>2, Constants DEF TypeOK
<1>4. CASE UNCHANGED <<at, lock>>
  BY <1>4
<1>5. CASE Exits(p)
  <2>1. at' = [at EXCEPT ![p] = "gone"] /\ UNCHANGED lock
    BY <1>5 DEF Exits, Goes
  <2>2. "gone" \notin Session /\ at[p] \notin Session
    BY <1>5 DEF Exits, Session
  <2> QED
    BY <2>1, <2>2 DEF TypeOK
<1>6. CASE Dies(p)
  <2>1. at' = [at EXCEPT ![p] = "gone"] /\ lock' = IF lock = p THEN None ELSE lock
    BY <1>6 DEF Dies, Goes
  <2>2. "gone" \notin Session
    BY DEF Session
  <2> QED
    BY <2>1, <2>2, Constants DEF TypeOK
<1>7. CASE EndPart(p) \/ StartPart(p) \/ Receive(p) \/ Cancel(p) \/ Dismiss(p)
  BY <1>4, <1>7 DEF EndPart, StartPart, Receive, Cancel, Dismiss
<1>8. CASE \E w \in Workers : Takeout(p, w) \/ InitTakeout(p, w) \/ TakeoutDone(p, w)
  BY <1>4, <1>8 DEF Takeout, InitTakeout, TakeoutDone, taking
<1>9. CASE Kill(p) \/ \E s \in Signals : Press(p, s)
  BY <1>4, <1>6, <1>9 DEF Kill, Press
<1> QED
  BY <1>1, <1>2, <1>3, <1>5, <1>7, <1>8, <1>9, StepKinds

-----------------------------------------------------------------------------
(***************************************************************************)
(* The takeout session                                                     *)
(***************************************************************************)
\* what a step may do to it
LEMMA PoolSteps ==
    ASSUME TypeOK, NEW p \in Procs, Steps(p) \/ Watching(p) \/ Environment(p)
    PROVE  \/ UNCHANGED pool \/ ClosesPool(p)
           \/ \E w \in Workers : Takeout(p, w) \/ InitTakeout(p, w) \/ TakeoutDone(p, w)
<1>1. CASE Way(p)
  BY <1>1, WayEffects
<1>2. CASE Open(p) \/ Close(p) \/ EndPart(p) \/ StartPart(p) \/ Exits(p)
  BY <1>2 DEF Open, Close, EndPart, StartPart, Exits, work
<1>3. CASE Receive(p) \/ Cancel(p) \/ Dismiss(p)
  BY <1>3 DEF Receive, Cancel, Dismiss, work
<1>4. CASE Kill(p) \/ \E s \in Signals : Press(p, s)
  BY <1>4 DEF Kill, Press, Dies, work
<1> QED
  BY <1>1, <1>2, <1>3, <1>4, StepKinds

LEMMA SharingStays ==
    ASSUME TypeOK, Sharing, NEW p \in Procs, Steps(p) \/ Watching(p) \/ Environment(p)
    PROVE  Sharing'
<1> USE DEF Sharing
<1>0. PoolOK
  BY DEF TypeOK, PoolOK
<1>1. CASE UNCHANGED pool
  BY <1>1 DEF pool
<1>2. CASE ClosesPool(p)
  BY <1>0, <1>2 DEF ClosesPool, PoolOK
<1>3. ASSUME NEW w \in Workers, Takeout(p, w), once[p] = "unused"
      PROVE  Sharing'
  <2>1. /\ once' = [once EXCEPT ![p] = "asking"]
        /\ asked' = [asked EXCEPT ![p] = @ + 1]
        /\ client' = [client EXCEPT ![p][w] = "asking"]
    BY <1>3 DEF Takeout
  <2>2. asked'[p] = 1 /\ once'[p] = "asking"
    BY <1>0, <1>3, <2>1 DEF PoolOK
  <2>3. \A v \in Workers : client'[p][v] = (IF v = w THEN "asking" ELSE client[p][v])
    BY <1>0, <2>1 DEF PoolOK
  <2>4. \A q \in Procs \ {p} :
          asked'[q] = asked[q] /\ once'[q] = once[q] /\ client'[q] = client[q]
    BY <1>0, <2>1 DEF PoolOK
  <2> QED
    BY <1>3, <2>2, <2>3, <2>4
<1>4. ASSUME NEW w \in Workers, client[p][w] \in {"none", "waiting"},
             NEW c \in {"waiting", "plain", "takeout"},
             c = "plain" => once[p] = "off", c = "takeout" => once[p] = "on",
             client' = [client EXCEPT ![p][w] = c], UNCHANGED <<once, asked>>
      PROVE  Sharing'
  <2>1. \A v \in Workers : client'[p][v] = (IF v = w THEN c ELSE client[p][v])
    BY <1>0, <1>4 DEF PoolOK
  <2>2. \A q \in Procs \ {p} : client'[q] = client[q]
    BY <1>0, <1>4 DEF PoolOK
  <2> QED
    BY <1>4, <2>1, <2>2
<1>5. ASSUME NEW w \in Workers, Takeout(p, w), once[p] # "unused"
      PROVE  Sharing'
  <2> DEFINE c == IF once[p] = "asking" THEN "waiting" ELSE Plain(p)
  <2>1. /\ c \in {"waiting", "plain", "takeout"}
        /\ c = "plain" => once[p] = "off"
        /\ c = "takeout" => once[p] = "on"
    BY <1>0, <1>5 DEF Plain, PoolOK
  <2>2. client' = [client EXCEPT ![p][w] = c] /\ UNCHANGED <<once, asked>>
    BY <1>5 DEF Takeout
  <2> HIDE DEF c
  <2> QED
    BY <1>4, <1>5, <2>1, <2>2 DEF Takeout
<1>6. ASSUME NEW w \in Workers, InitTakeout(p, w)
      PROVE  Sharing'
  <2>1. PICK o \in {"on", "off"}, c \in {"plain", "takeout"} :
          /\ o = "on" <=> c = "takeout"
          /\ once' = [once EXCEPT ![p] = o] /\ client' = [client EXCEPT ![p][w] = c]
    BY <1>6 DEF InitTakeout
  <2>2. client[p][w] = "asking" /\ once[p] = "asking" /\ UNCHANGED asked
    BY <1>6 DEF InitTakeout
  <2>3. \A v \in Workers : client'[p][v] = (IF v = w THEN c ELSE client[p][v])
    BY <1>0, <2>1 DEF PoolOK
  <2>4. \A v \in Workers \ {w} : client[p][v] \notin {"asking", "plain", "takeout"}
    BY <2>2
  <2>5. /\ once'[p] = o
        /\ \A q \in Procs \ {p} : once'[q] = once[q] /\ client'[q] = client[q]
    BY <1>0, <2>1 DEF PoolOK
  <2> QED
    BY <2>1, <2>2, <2>3, <2>4, <2>5
<1>7. ASSUME NEW w \in Workers, TakeoutDone(p, w)
      PROVE  Sharing'
  BY <1>4, <1>7 DEF TakeoutDone, Plain
<1> QED
  BY <1>1, <1>2, <1>3, <1>5, <1>6, <1>7, PoolSteps

-----------------------------------------------------------------------------
(***************************************************************************)
(* The exit code                                                           *)
(***************************************************************************)
LEMMA CodesAreTrue ==
    ASSUME NEW e \in Errors, NEW sig \in Signals \cup {"none"}
    PROVE  /\ sig \in Signals => ExitCode(e, sig) \in {"130", "143"}
           /\ ExitCode(e, sig) = "0" => e \in {"nil", "help"}
           /\ ExitCode(e, sig) = "1" => e = "incomplete"
<1>1. sig \in {"INT", "TERM", "none"} /\ (sig \in Signals => sig # "none")
  BY Constants
<1> QED
  BY <1>1 DEF ExitCode, Errors

\* no step but a signal's touches what the verdict rests on
LEMMA EarningOfOthers ==
    ASSUME TypeOK, Earning, ExitIsEarned,
           UNCHANGED <<command, at, err, checked, reported, abandoned, exit, signals>>
    PROVE  Earning' /\ ExitIsEarned'
BY DEF Earning, ExitIsEarned, signals

LEMMA EarningOfAdvance ==
    ASSUME TypeOK, Earning, ExitIsEarned, NEW p \in Procs, Way(p)
    PROVE  Earning' /\ ExitIsEarned'
<1>1. PICK place \in Places \ {"gone"}, e \in Errors :
        /\ at' = [at EXCEPT ![p] = place] /\ err' = [err EXCEPT ![p] = e]
        /\ e = "incomplete" => err[p] = "incomplete" \/ reported'[p]
        /\ place \in {"closing", "ending"} /\ command[p] \in {"sync", "verify"} /\ e = "nil"
           => checked'[p]
  BY WayAdvances DEF Advance, Goes
<1>2. at[p] \notin {"ending", "gone"}
  BY WayAdvances DEF Advance, Outside, Session
<1>3. /\ UNCHANGED <<command, signals, exit>>
      /\ \A q \in Procs \ {p} : checked'[q] = checked[q]
  BY WayEffects
<1>4. /\ \A q \in Procs \ {p} : reported'[q] = reported[q]
      /\ reported[p] => reported'[p]
  BY WayEffects DEF TypeOK
<1>5. /\ \A q \in Procs \ {p} : abandoned'[q] = abandoned[q]
      /\ abandoned'[p] => abandoned[p] \/ cancelled[p]
  <2>1. CASE UNCHANGED abandoned
    BY <2>1
  <2>2. CASE GivesUp(p)
    <3> DEFINE c == abandoned[p] \/ cancelled[p]
    <3>1. abandoned' = [abandoned EXCEPT ![p] = c]
      BY <2>2 DEF GivesUp
    <3> HIDE DEF c
    <3>2. abandoned'[p] = c /\ \A q \in Procs \ {p} : abandoned'[q] = abandoned[q]
      BY <3>1 DEF TypeOK
    <3> QED
      BY <3>2 DEF c
  <2> QED
    BY <2>1, <2>2, WayEffects
<1>6. /\ at'[p] = place /\ err'[p] = e
      /\ \A q \in Procs \ {p} : at'[q] = at[q] /\ err'[q] = err[q]
  BY <1>1 DEF TypeOK
<1>7. exit[p] = "none"
  BY <1>2 DEF Earning
<1>8. abandoned'[p] => got[p] \in Signals
  BY <1>2, <1>5 DEF Earning
<1>9. e = "incomplete" => reported'[p]
  BY <1>1, <1>4 DEF Earning
<1>10. Earning'
  <2> SUFFICES ASSUME NEW q \in Procs
               PROVE  /\ at'[q] # "gone" => exit'[q] = "none"
                      /\ watcher'[q] = "received" => got'[q] \in Signals
                      /\ cancelled'[q] /\ at'[q] \notin {"ending", "gone"} => got'[q] \in Signals
                      /\ abandoned'[q] => got'[q] \in Signals
                      /\ err'[q] = "incomplete" => reported'[q]
                      /\ /\ at'[q] \in {"closing", "ending"}
                         /\ command'[q] \in {"sync", "verify"} /\ err'[q] = "nil"
                         => checked'[q]
    BY DEF Earning
  <2>1. CASE q = p
    BY <1>1, <1>2, <1>3, <1>6, <1>7, <1>8, <1>9, <2>1 DEF Earning, signals
  <2>2. CASE q # p
    BY <1>3, <1>4, <1>5, <1>6, <2>2 DEF Earning, signals
  <2> QED
    BY <2>1, <2>2
<1>11. ExitIsEarned'
  BY <1>3, <1>4, <1>5, <1>6, <1>7 DEF ExitIsEarned
<1> QED
  BY <1>10, <1>11

LEMMA EarningStays ==
    ASSUME TypeOK, Earning, ExitIsEarned, NEW p \in Procs,
           Steps(p) \/ Watching(p) \/ Environment(p)
    PROVE  Earning' /\ ExitIsEarned'
<1>1. CASE Way(p)
  BY <1>1, EarningOfAdvance
<1>2. CASE Open(p)
  <2>1. at' = [at EXCEPT ![p] = "bucket"] /\ at[p] = "open"
    BY <1>2, Onward DEF Open, Continues, Goes
  <2>2. UNCHANGED <<command, err, checked, reported, abandoned, exit, signals>>
    BY <1>2 DEF Open, Continues, work
  <2> QED
    BY <2>1, <2>2 DEF Earning, ExitIsEarned, TypeOK, signals
<1>3. CASE Close(p)
  <2>1. PICK place \in {"config", "ending"} : at' = [at EXCEPT ![p] = place]
    BY <1>3, Onward DEF Close, Continues, Goes
  <2>2. /\ at[p] = "closing"
        /\ UNCHANGED <<command, err, checked, reported, abandoned, exit, signals>>
    BY <1>3 DEF Close, Continues, work
  <2> QED
    BY <2>1, <2>2 DEF Earning, ExitIsEarned, TypeOK, signals
<1>4. CASE EndPart(p) \/ StartPart(p)
  BY <1>4, EarningOfOthers DEF EndPart, StartPart
<1>5. CASE \E w \in Workers : Takeout(p, w) \/ InitTakeout(p, w) \/ TakeoutDone(p, w)
  BY <1>5, EarningOfOthers DEF Takeout, InitTakeout, TakeoutDone, taking
<1>6. CASE Exits(p)
  <2> DEFINE code == ExitCode(err[p], got[p])
  <2>1. /\ at' = [at EXCEPT ![p] = "gone"] /\ exit' = [exit EXCEPT ![p] = code]
        /\ at[p] = "ending"
        /\ UNCHANGED <<command, err, checked, reported, abandoned, signals>>
    BY <1>6 DEF Exits, Goes, work
  <2>2. /\ got[p] \in Signals => code \in {"130", "143"}
        /\ code = "0" => err[p] \in {"nil", "help"}
        /\ code = "1" => err[p] = "incomplete"
    <3>1. err[p] \in Errors /\ got[p] \in Signals \cup {"none"}
      BY DEF TypeOK, Errors
    <3> QED
      BY <3>1, CodesAreTrue
  <2> HIDE DEF code
  <2>3. Earning'
    BY <2>1 DEF Earning, TypeOK, signals
  <2>4. /\ abandoned[p] => code \in {"130", "143"}
        /\ code = "0" /\ command[p] \in {"sync", "verify"} =>
             checked[p] \/ err[p] = "help"
        /\ code = "1" => reported[p]
    BY <2>1, <2>2 DEF Earning
  <2>5. exit'[p] = code /\ \A q \in Procs \ {p} : exit'[q] = exit[q]
    BY <2>1 DEF TypeOK
  <2>6. ExitIsEarned'
    BY <2>1, <2>4, <2>5 DEF ExitIsEarned
  <2> QED
    BY <2>3, <2>6
<1>7. CASE Receive(p)
  <2>1. /\ UNCHANGED <<command, at, err, checked, reported, abandoned, exit, cancelled>>
        /\ watcher[p] = "waiting" /\ inbox[p] # "none"
        /\ got' = [got EXCEPT ![p] = inbox[p]]
        /\ watcher' = [watcher EXCEPT ![p] = "received"]
    BY <1>7 DEF Receive, work
  <2>2. got'[p] \in Signals /\ \A q \in Procs \ {p} : got'[q] = got[q] /\ watcher'[q] = watcher[q]
    BY <2>1 DEF TypeOK
  <2> QED
    BY <2>1, <2>2 DEF Earning, ExitIsEarned
<1>8. CASE Cancel(p) \/ Dismiss(p)
  <2>1. /\ UNCHANGED <<command, at, err, checked, reported, abandoned, exit, got>>
        /\ watcher[p] = "received" \/ at[p] = "ending"
        /\ cancelled' = [cancelled EXCEPT ![p] = TRUE]
        /\ watcher' = [watcher EXCEPT ![p] = "finished"]
    BY <1>8 DEF Cancel, Dismiss, work
  <2>2. /\ watcher'[p] = "finished"
        /\ \A q \in Procs \ {p} : cancelled'[q] = cancelled[q] /\ watcher'[q] = watcher[q]
    BY <2>1 DEF TypeOK
  <2> QED
    BY <2>1, <2>2 DEF Earning, ExitIsEarned
<1>9. CASE Kill(p) \/ \E s \in Signals : Press(p, s)
  <2>1. UNCHANGED <<cancelled, watcher, got>>
    BY <1>9 DEF Kill, Press, signals
  <2>2. CASE Dies(p)
    <3>1. /\ at' = [at EXCEPT ![p] = "gone"] /\ exit' = [exit EXCEPT ![p] = "killed"]
          /\ UNCHANGED <<command, err, checked, reported, abandoned>>
      BY <2>2 DEF Dies, Goes
    <3> QED
      BY <2>1, <3>1 DEF Earning, ExitIsEarned, TypeOK
  <2>3. CASE UNCHANGED <<command, at, err, work, lock, exit>>
    BY <2>1, <2>3 DEF Earning, ExitIsEarned, work
  <2> QED
    BY <1>9, <2>2, <2>3 DEF Kill, Press
<1> QED
  BY <1>1, <1>2, <1>3, <1>4, <1>5, <1>6, <1>7, <1>8, <1>9, StepKinds

-----------------------------------------------------------------------------
(***************************************************************************)
(* The specification                                                       *)
(***************************************************************************)
(* Nobody has started, nobody holds anything, nothing has been earned.     *)
LEMMA Starts == Init => IInv
<1> SUFFICES ASSUME Init PROVE IInv
  OBVIOUS
<1>1. TypeOK
  BY DEF Init, TypeOK, Places
<1>2. Locked
  BY Constants DEF Init, Locked, LockIsSession, Session
<1>3. Sharing
  BY DEF Init, Sharing
<1>4. Earning
  BY DEF Init, Earning
<1>5. ExitIsEarned
  BY DEF Init, ExitIsEarned
<1> QED
  BY <1>1, <1>2, <1>3, <1>4, <1>5 DEF IInv

LEMMA Stays == IInv /\ [Next]_vars => IInv'
<1> SUFFICES ASSUME IInv, [Next]_vars PROVE IInv'
  OBVIOUS
<1>1. ASSUME NEW p \in Procs, Steps(p) \/ Watching(p) \/ Environment(p)
      PROVE  IInv'
  BY <1>1, TypesStay, LockStays, SharingStays, EarningStays DEF IInv
<1>2. CASE UNCHANGED vars
  <2>1. TypeOK' /\ Locked' /\ Sharing'
    BY <1>2 DEF IInv, TypeOK, Locked, LockIsSession, Sharing, vars, work, pool, signals
  <2>2. Earning' /\ ExitIsEarned'
    BY <1>2, EarningOfOthers DEF IInv, vars, work
  <2> QED
    BY <2>1, <2>2 DEF IInv
<1> QED
  BY <1>1, <1>2 DEF Next, AllGone

(* The invariant everything below rests on.                                *)
THEOREM Inductive == Spec => []IInv
BY Starts, Stays, PTL DEF Spec

(* Every variable stays in its type, for any number of processes.          *)
THEOREM TypesHold == Spec => []TypeOK
<1>1. IInv => TypeOK
  BY DEF IInv
<1> QED
  BY <1>1, Inductive, PTL

(* The lock of the session store (tdlkv.Open, Close) is held by exactly    *)
(* the process that is between the two, whatever ended the others.         *)
THEOREM TheLockIsTheSession == Spec => []LockIsSession
<1>1. IInv => LockIsSession
  BY DEF IInv, Locked
<1> QED
  BY <1>1, Inductive, PTL

(* safeTakeout asks once in a run, and what it is told is what every       *)
(* transfer gets.                                                          *)
THEOREM TheTakeoutIsOne == Spec => []OneTakeout
<1>1. IInv => OneTakeout
  BY DEF IInv, Sharing, OneTakeout
<1> QED
  BY <1>1, Inductive, PTL

(* The exit code (exitCode, after notifyContext) is what happened: of work *)
(* given up the signal, of 0 a comparison or a call for help, of 1 a       *)
(* report.                                                                 *)
THEOREM TheExitIsEarned == Spec => []ExitIsEarned
<1>1. IInv => ExitIsEarned
  BY DEF IInv
<1> QED
  BY <1>1, Inductive, PTL

(* No process goes on with another size than the one that was written      *)
(* (parseSize), for texts of every length and a word of any width.         *)
THEOREM SizesAreExact == Spec => []SizeIsExact
<1>1. SizeIsExact
  BY SizesParse DEF SizeIsExact
<1> QED
  BY <1>1, PTL

(* No process works on another chat than the one meant (NormalizeChat).    *)
THEOREM ChatsAreMeant == Spec => []ChatIsMeant
<1>1. ChatIsMeant
  BY ChatsParse DEF ChatIsMeant
<1> QED
  BY <1>1, PTL

(* No list of stale copies takes one message's object for another's (For   *)
(* and SplitStored), whatever the dialog, the id and the name.             *)
THEOREM NamesAreReadBack == Spec => []NamesReadBack
<1>1. NamesReadBack
  BY NamesParse DEF NamesReadBack
<1> QED
  BY <1>1, PTL

-----------------------------------------------------------------------------
(***************************************************************************)
(* The staging directory                                                   *)
(***************************************************************************)
(* Only a sync sweeps, and only a sync at work, which therefore holds the  *)
(* lock of the session store, writes a part file.                          *)
Writing ==
    \A p \in Procs :
        /\ command[p] \in Runs[p]
        /\ at[p] = "sweep" => command[p] = "sync"
        /\ file[p] = "open" => command[p] = "sync" /\ at[p] \in {"working", "hung"}

\* what a process does before its work and after it
Preparing(p) ==
    \/ ReadArguments(p) \/ LoadConfig(p) \/ AskRemote(p) \/ Sweep(p) \/ OpenFails(p)
    \/ ReadStore(p) \/ EnterChat(p) \/ Report(p) \/ Open(p) \/ Close(p)

\* where a command goes on from without an error
Passing == {"arguments", "config", "destination", "sweep", "mkdir", "quota", "open", "bucket",
            "app", "connecting", "resolving chat", "closing"}

\* none of it leads to the sweep but the way of a sync
LEMMA Leads ==
    ASSUME TypeOK, NEW p \in Procs, Preparing(p)
    PROVE  \E place :
             /\ at' = [at EXCEPT ![p] = place]
             /\ place = "sweep" => command[p] = "sync"
<1>1. ASSUME at[p] \in Passing, Following(p) = "sweep"
      PROVE  command[p] = "sync"
  <2>1. CASE at[p] \in {"arguments", "config", "destination"}
    BY <1>1, <2>1 DEF Following
  <2>2. CASE at[p] \in {"sweep", "mkdir", "quota", "open"}
    BY <1>1, <2>2 DEF Following
  <2>3. CASE at[p] \in {"bucket", "app", "connecting"}
    BY <1>1, <2>3 DEF Following
  <2>4. CASE at[p] \in {"resolving chat", "closing"}
    BY <1>1, <2>4 DEF Following
  <2> QED
    BY <1>1, <2>1, <2>2, <2>3, <2>4 DEF Passing
<1>2. Bail(p) # "sweep" /\ PastRun(p) # "sweep"
  BY DEF Bail, PastRun
<1>3. CASE Continues(p) /\ at[p] \in Passing
  BY <1>1, <1>3 DEF Continues, Goes
<1>4. CASE Goes(p, Bail(p))
  BY <1>2, <1>4 DEF Goes
<1>5. CASE Goes(p, PastRun(p))
  BY <1>2, <1>5 DEF Goes
<1>6. CASE Goes(p, "ending") \/ Goes(p, "closing")
  BY <1>6 DEF Goes
<1>7. ReadArguments(p) => \/ Continues(p) /\ at[p] = "arguments"
                          \/ Goes(p, Bail(p))
  BY DEF ReadArguments, Fails
<1>8. LoadConfig(p) => \/ Continues(p) /\ at[p] = "config"
                       \/ Goes(p, "ending") \/ Goes(p, Bail(p))
  BY DEF LoadConfig, Fails
<1>9. AskRemote(p) => \/ Continues(p) /\ at[p] \in {"destination", "mkdir", "quota"}
                      \/ Goes(p, Bail(p))
  BY DEF AskRemote, Fails
<1>10. Sweep(p) \/ Open(p) \/ Close(p) =>
         \/ Continues(p) /\ at[p] \in {"sweep", "open", "closing"}
         \/ Goes(p, Bail(p))
  BY DEF Sweep, Open, Close, Fails
<1>11. OpenFails(p) \/ ReadStore(p) =>
         \/ Continues(p) /\ at[p] \in {"bucket", "app"}
         \/ Goes(p, Bail(p))
  BY DEF OpenFails, ReadStore, Fails
<1>12. EnterChat(p) => \/ Continues(p) /\ at[p] \in {"connecting", "resolving chat"}
                       \/ Goes(p, PastRun(p)) \/ Goes(p, "closing")
  BY DEF EnterChat, LeavesRun, Goes
<1>13. Report(p) => Goes(p, "closing")
  BY DEF Report
<1>14. CASE Report(p)
  BY <1>6, <1>13, <1>14
<1>15. CASE ReadArguments(p) \/ LoadConfig(p) \/ AskRemote(p)
  BY <1>3, <1>4, <1>6, <1>7, <1>8, <1>9, <1>15 DEF Passing
<1>16. CASE Sweep(p) \/ Open(p) \/ Close(p) \/ OpenFails(p) \/ ReadStore(p) \/ EnterChat(p)
  BY <1>3, <1>4, <1>5, <1>6, <1>10, <1>11, <1>12, <1>16 DEF Passing
<1> QED
  BY <1>14, <1>15, <1>16 DEF Preparing

LEMMA PreparingIsIdle ==
    ASSUME TypeOK, NEW p \in Procs, Preparing(p)
    PROVE  /\ UNCHANGED <<command, file>>
           /\ at[p] \notin {"working", "hung"}
           /\ UNCHANGED parts \/ Sweep(p)
<1>1. CASE Open(p) \/ Close(p)
  BY <1>1 DEF Open, Close, work
<1>2. Way(p) => UNCHANGED <<command, file>>
  BY WayEffects
<1>3. CASE Sweep(p)
  <2>1. at[p] = "sweep"
    BY <1>3 DEF Sweep
  <2> QED
    BY <1>2, <1>3, <2>1 DEF Way
<1>4. CASE ReadArguments(p) \/ LoadConfig(p) \/ OpenFails(p) \/ ReadStore(p)
  BY <1>4 DEF ReadArguments, LoadConfig, OpenFails, ReadStore, work
<1>5. CASE AskRemote(p) \/ EnterChat(p) \/ Report(p)
  BY <1>5 DEF AskRemote, EnterChat, Report, effects
<1> QED
  BY <1>1, <1>3, <1>4, <1>5 DEF Preparing

LEMMA WritingStays ==
    ASSUME TypeOK, Writing, NEW p \in Procs, Steps(p) \/ Watching(p) \/ Environment(p)
    PROVE  Writing' /\ (SweptAreStale => SweptAreStale' \/ Sweep(p))
<1> USE DEF Writing, SweptAreStale
<1>1. CASE Preparing(p)
  BY <1>1, Leads, PreparingIsIdle DEF TypeOK
<1>2. CASE WorkEnds(p) \/ Hang(p)
  <2>1. UNCHANGED <<command, file, parts>>
    BY <1>2 DEF WorkEnds, Hang, work
  <2>2. at[p] = "working"
    BY <1>2 DEF WorkEnds, Hang
  <2>3. WorkEnds(p) => file[p] # "open"
    BY DEF WorkEnds, Idle
  <2>4. \E place : at' = [at EXCEPT ![p] = place] /\ place # "sweep"
                   /\ (Hang(p) => place = "hung")
    BY <1>2, <2>2 DEF WorkEnds, Hang, LeavesRun, PastRun, Goes
  <2> QED
    BY <1>2, <2>1, <2>2, <2>3, <2>4 DEF TypeOK
<1>3. CASE StartPart(p) \/ EndPart(p)
  <2>1. Syncing(p) /\ UNCHANGED <<command, at>>
    BY <1>3 DEF StartPart, EndPart
  <2>2. \/ file' = [file EXCEPT ![p] = "open"] /\ parts' = parts \cup {p}
        \/ file' = [file EXCEPT ![p] = "done"] /\ parts' = parts \ {p}
    BY <1>3 DEF StartPart, EndPart
  <2> QED
    BY <2>1, <2>2 DEF Syncing, TypeOK
<1>4. CASE UNCHANGED <<command, at, file, parts>>
  BY <1>4
<1>5. CASE Exits(p) \/ Dies(p)
  <2>1. at' = [at EXCEPT ![p] = "gone"] /\ UNCHANGED <<command, parts>>
    BY <1>5 DEF Exits, Dies, Goes, work
  <2>2. \/ UNCHANGED file /\ at[p] = "ending"
        \/ file' = [file EXCEPT ![p] = IF @ = "open" THEN "done" ELSE @]
    BY <1>5 DEF Exits, Dies, work
  <2>3. \A q \in Procs : file'[q] = "open" => q # p /\ file[q] = "open"
    <3>1. file \in [Procs -> {"none", "open", "done"}]
      BY DEF TypeOK
    <3>2. CASE UNCHANGED file /\ at[p] = "ending"
      BY <3>2
    <3>3. CASE file' = [file EXCEPT ![p] = IF @ = "open" THEN "done" ELSE @]
      BY <3>1, <3>3
    <3> QED
      BY <2>2, <3>2, <3>3
  <2> QED
    BY <2>1, <2>3 DEF TypeOK
<1>6. CASE Receive(p) \/ Cancel(p) \/ Dismiss(p)
  BY <1>4, <1>6 DEF Receive, Cancel, Dismiss, work
<1>7. CASE \E w \in Workers : Takeout(p, w) \/ InitTakeout(p, w) \/ TakeoutDone(p, w)
  BY <1>4, <1>7 DEF Takeout, InitTakeout, TakeoutDone, taking
<1>8. CASE Kill(p) \/ \E s \in Signals : Press(p, s)
  BY <1>4, <1>5, <1>8 DEF Kill, Press, work
<1> QED
  BY <1>1, <1>2, <1>3, <1>5, <1>6, <1>7, <1>8, StepKinds DEF Way, Preparing

LEMMA OnlySyncsWrite == Spec => []Writing
<1>1. Init => Writing
  BY DEF Init, Writing
<1>2. TypeOK /\ Writing /\ [Next]_vars => Writing'
  <2>1. CASE UNCHANGED vars
    BY <2>1 DEF Writing, vars, work
  <2> QED
    BY <2>1, WritingStays DEF Next, AllGone
<1> QED
  BY <1>1, <1>2, TypesHold, PTL DEF Spec

(* The sweep (syncCmd, SweepPartials) is the only step that can take a     *)
(* part file from the transfer that is writing it, and then the sweeper is *)
(* another sync that has not asked for the lock yet.                       *)
THEOREM OnlySweepsTakeParts ==
    Spec => [][\A p \in Procs :
                 /\ file[p] = "open" /\ p \in parts
                 /\ file'[p] = "open" /\ p \notin parts'
                 => \E q \in Procs \ {p} : command[q] = "sync" /\ at[q] = "sweep" /\ lock # q]_vars
<1> DEFINE Took == \A p \in Procs :
                     /\ file[p] = "open" /\ p \in parts
                     /\ file'[p] = "open" /\ p \notin parts'
                     => \E q \in Procs \ {p} :
                          command[q] = "sync" /\ at[q] = "sweep" /\ lock # q
<1>1. ASSUME TypeOK, Writing, LockIsSession,
             NEW q \in Procs, Steps(q) \/ Watching(q) \/ Environment(q)
      PROVE  Took
  <2>1. Sweep(q) \/ UNCHANGED parts \/ StartPart(q) \/ EndPart(q)
    BY <1>1, PreparingIsIdle, StepKinds
    DEF Way, Preparing, WorkEnds, Hang, Exits, Dies, Kill, Press, Receive, Cancel, Dismiss,
        Takeout, InitTakeout, TakeoutDone, taking, work
  <2>2. Sweep(q) => at[q] = "sweep" /\ command[q] = "sync" /\ lock # q
    BY <1>1 DEF Sweep, Writing, LockIsSession, Session
  <2>3. Sweep(q) => \A p \in Procs : file[p] = "open" => p # q
    BY <1>1 DEF Sweep, Writing
  <2>4. StartPart(q) => parts \subseteq parts'
    BY DEF StartPart
  <2>5. EndPart(q) => \A p \in Procs : p \in parts /\ p \notin parts' => file'[p] = "done"
    BY <1>1 DEF EndPart, TypeOK
  <2> QED
    BY <2>1, <2>2, <2>3, <2>4, <2>5
<1>2. UNCHANGED vars => Took
  BY DEF vars, work
<1>3. TypeOK /\ Writing /\ LockIsSession /\ [Next]_vars => [Took]_vars
  BY <1>1, <1>2 DEF Next, AllGone
<1> QED
  BY <1>3, TypesHold, OnlySyncsWrite, TheLockIsTheSession, PTL DEF Spec

(* Where at most one process may be a sync, its sweep only clears what an  *)
(* earlier run left (syncCmd): a second sync is all it takes, and nothing  *)
(* less does it.                                                           *)
THEOREM AloneTheSweepIsSafe ==
    ASSUME \A p, q \in Procs : "sync" \in Runs[p] \cap Runs[q] => p = q
    PROVE  Spec => []SweptAreStale
<1>1. Init => SweptAreStale
  BY DEF Init, SweptAreStale
<1>2. ASSUME TypeOK, Writing, SweptAreStale,
             NEW p \in Procs, Steps(p) \/ Watching(p) \/ Environment(p)
      PROVE  SweptAreStale'
  <2>1. CASE Sweep(p)
    <3>1. command[p] = "sync" /\ at[p] = "sweep" /\ UNCHANGED file
      BY <1>2, <2>1 DEF Sweep, Writing
    <3>2. \A q \in Procs : file[q] # "open"
      BY <1>2, <3>1 DEF Writing
    <3> QED
      BY <3>1, <3>2 DEF SweptAreStale
  <2> QED
    BY <1>2, <2>1, WritingStays
<1>3. TypeOK /\ Writing /\ SweptAreStale /\ [Next]_vars => SweptAreStale'
  <2>1. CASE UNCHANGED vars
    BY <2>1 DEF SweptAreStale, vars, work
  <2> QED
    BY <2>1, <1>2 DEF Next, AllGone
<1> QED
  BY <1>1, <1>3, TypesHold, OnlySyncsWrite, PTL DEF Spec
=============================================================================
