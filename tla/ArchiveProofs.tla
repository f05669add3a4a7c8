--------------------------- MODULE ArchiveProofs ----------------------------
(***************************************************************************)
(* Proofs about module Archive, for any chat, any cap, any limit and any   *)
(* number of faults: what an exit code of the command says of the remote.  *)
(*                                                                         *)
(* The argument: no step takes a whole object away from the remote - a     *)
(* file of zero bytes has none to take (Sizes) - so what a listing saw     *)
(* whole is whole for as long as the listing is consulted (Listing); and   *)
(* an exit code is only ever set from the comparison of the walk with that *)
(* listing, neither of which changes before the next command starts        *)
(* (Verdict).  Where nothing gets in the way of a sync its list shrinks to *)
(* nothing, one file on the remote at a time (Undisturbed).                *)
(***************************************************************************)
EXTENDS Archive, TLAPS

\* outside Run and the deletion there is no list of items to deal with
Handed ==
    /\ phase \notin {"running", "deleting"} => todo = {}
    /\ phase = "deleting" => command = "clean"

\* an object of a file of zero bytes is never of another size and whole
Sizes == \A i \in hollow : remote[i] # "whole" /\ nested[i] # "whole"

Listing == \A i \in Items : idx[i] = "whole" => Archived(i)

Verdict ==
    /\ phase # "idle" => exit = "none"
    /\ exit = "ok" => Complete
    /\ exit = "stalled" => Stalled
    /\ exit = "incomplete" /\ command = "sync" => ~Complete /\ ~Stalled

IInv == TypeOK /\ Handed /\ Sizes /\ Listing /\ Verdict

LEMMA Constants ==
    /\ MaxFaults \in Nat /\ Unsafe \subseteq Items
    /\ Hollow \subseteq Items /\ Renamed \subseteq Items
BY ArchiveAssumption

USE DEF mishaps

LEMMA FaultsStayBounded ==
    ASSUME faults \in 0 .. MaxFaults, disturbed \in BOOLEAN, NEW kind, Fault(kind)
    PROVE  faults' \in 0 .. MaxFaults /\ disturbed' \in BOOLEAN
BY Constants DEF Fault

(* Whatever --limit-items picks is missing and has a safe name.            *)
LEMMA SelectionsAreFetchable ==
    ASSUME NEW S \in Selections
    PROVE  S \subseteq items \ Unsafe
BY DEF Selections, Todo

(* A listing takes what it says of a name from an object of that name.     *)
LEMMA ListIsTrue ==
    ASSUME TypeOK, List
    PROVE  /\ idx' \in [Items -> Objects] /\ copies' \subseteq Renamed /\ items' = items
           /\ \A i \in Items : idx'[i] = "whole" => Archived(i)
BY DEF TypeOK, List, Archived

(* An upload, failed or not, never takes the place of a whole object, and  *)
(* never makes one of a file of zero bytes.                                *)
LEMMA StoresKeepsWhole ==
    ASSUME TypeOK, Sizes, NEW i \in Items, NEW object \in Objects, Stores(i, object),
           i \in hollow => object # "whole"
    PROVE  /\ remote' \in [Items -> Objects]
           /\ \A j \in Items : remote[j] = "whole" => remote'[j] = "whole"
           /\ \A j \in hollow : remote'[j] # "whole"
<1>1. remote' \in [Items -> Objects]
  BY DEF TypeOK, Stores
<1>2. \A j \in Items : j # i => remote'[j] = remote[j]
  BY DEF TypeOK, Stores
<1>3. remote'[i] = IF remote[i] = Whole(i) THEN remote[i] ELSE object
  BY DEF TypeOK, Stores
<1>4. hollow \subseteq Items
  BY Constants DEF TypeOK
<1> QED
  BY <1>1, <1>2, <1>3, <1>4 DEF Sizes, Whole

(* What the listing saw whole is still there, as long as no whole object   *)
(* went away and the listing has not changed.                              *)
LEMMA ListingLasts ==
    ASSUME Listing, UNCHANGED <<idx, nested>>,
           \A j \in Items : remote[j] = "whole" => remote'[j] = "whole"
    PROVE  Listing'
BY DEF Listing, Archived

LEMMA InitHolds == Init => IInv
<1> SUFFICES ASSUME Init PROVE IInv
  OBVIOUS
<1>1. /\ remote \in [Items -> Objects] /\ nested \in [Items -> Objects]
      /\ idx \in [Items -> Objects]
  BY DEF Init, Objects
<1>2. faults \in 0 .. MaxFaults
  BY Constants DEF Init
<1>3. TypeOK
  BY <1>1, <1>2 DEF Init, TypeOK
<1>4. Handed /\ Sizes /\ Listing /\ Verdict
  BY DEF Init, Handed, Sizes, Listing, Verdict
<1> QED
  BY <1>3, <1>4 DEF IInv

(* A step that leaves the world and the report alone and ends the command  *)
(* keeps the invariant when the code it ends with is the right one.        *)
LEMMA ExitHolds ==
    ASSUME IInv, NEW code, Exit(code), UNCHANGED <<world, failing, faults>>,
           disturbed' \in BOOLEAN,
           todo' \subseteq todo, todo' = {},
           code \in {"ok", "incomplete", "usage", "remote", "stalled"},
           code = "ok" => Complete,
           code = "stalled" => Stalled,
           code = "incomplete" /\ command = "sync" => ~Complete /\ ~Stalled
    PROVE  IInv'
<1>1. phase' = "idle" /\ exit' = (IF signalled THEN "signal" ELSE code)
      /\ UNCHANGED <<command, items, idx, copies, checked, signalled>>
  BY DEF Exit, seen
<1>2. UNCHANGED <<tooBig, hollow, nested, chat, remote, stale, pending>>
  BY DEF world, sizes
<1>3. TypeOK'
  BY <1>1, <1>2 DEF IInv, TypeOK
<1>4. Sizes' /\ Listing' /\ Handed'
  BY <1>1, <1>2 DEF IInv, Sizes, Listing, Archived, Handed
<1>5. UNCHANGED <<Complete, Stalled>>
  BY <1>1 DEF Complete, Stalled, Fetchable, Todo, Outstanding
<1>6. Verdict'
  BY <1>1, <1>5 DEF Verdict
<1> QED
  BY <1>3, <1>4, <1>6 DEF IInv

(* Inside a command nothing has been said yet.                             *)
LEMMA NothingSaid ==
    ASSUME IInv, phase # "idle", exit' = exit
    PROVE  Verdict'
BY DEF IInv, Verdict

LEMMA NextHolds == IInv /\ [Next]_vars => IInv'
<1> SUFFICES ASSUME IInv, [Next]_vars PROVE IInv'
  OBVIOUS
<1> USE Constants
<1>1. ASSUME NEW c \in Commands, Start(c) PROVE IInv'
  <2>1. TypeOK'
    BY <1>1 DEF Start, world, sizes, IInv, TypeOK, Objects
  <2>2. Handed' /\ Sizes' /\ Listing'
    BY <1>1 DEF Start, world, sizes, IInv, Handed, Sizes, Listing, TypeOK
  <2>3. Verdict'
    BY <1>1 DEF Start, Verdict
  <2> QED
    BY <2>1, <2>2, <2>3 DEF IInv
<1>2. CASE WalkChat
  <2>1. items' \subseteq Items
    BY <1>2 DEF WalkChat, IInv, TypeOK
  <2>2. faults' \in 0 .. MaxFaults /\ disturbed' \in BOOLEAN
    <3>1. CASE UNCHANGED mishaps
      BY <3>1 DEF IInv, TypeOK
    <3>2. CASE Fault("short walk")
      BY <3>2, FaultsStayBounded DEF IInv, TypeOK
    <3> QED
      BY <1>2, <3>1, <3>2 DEF WalkChat
  <2>3. /\ phase = "walking" /\ phase' = "indexing"
        /\ UNCHANGED <<world, command, idx, copies, checked, todo, failing, signalled, exit>>
    BY <1>2 DEF WalkChat
  <2>4. todo = {}
    BY <2>3 DEF IInv, Handed
  <2>5. TypeOK'
    BY <2>1, <2>2, <2>3, <2>4 DEF world, sizes, IInv, TypeOK
  <2>6. Handed' /\ Sizes' /\ Listing'
    BY <2>3, <2>4 DEF world, sizes, IInv, Handed, Sizes, Listing, Archived
  <2> QED
    BY <2>3, <2>5, <2>6, NothingSaid DEF IInv
<1>3. ASSUME List, phase \in {"indexing", "reindexing"}, checked' = TRUE,
             phase' \in {"planning", "reporting"},
             UNCHANGED <<world, command, todo, failing, signalled, exit, mishaps>>
      PROVE  IInv'
  <2>1. todo = {}
    BY <1>3 DEF IInv, Handed
  <2>2. /\ idx' \in [Items -> Objects] /\ copies' \subseteq Renamed /\ items' = items
        /\ \A i \in Items : idx'[i] = "whole" => Archived(i)
    BY <1>3, ListIsTrue DEF IInv
  <2>3. TypeOK'
    BY <1>3, <2>2 DEF world, sizes, IInv, TypeOK
  <2>4. Handed' /\ Sizes' /\ Listing'
    BY <1>3, <2>1, <2>2 DEF world, sizes, IInv, Handed, Sizes, Listing, Archived
  <2> QED
    BY <1>3, <2>3, <2>4, NothingSaid DEF IInv
<1>4. CASE Plan
  <2>1. PICK S \in Selections :
          \/ S = {} /\ phase' = "reporting"
               /\ UNCHANGED <<todo, command, seen, signalled, exit>>
          \/ Exit("usage") /\ UNCHANGED todo
          \/ phase' = "running" /\ todo' = S /\ checked' = FALSE
               /\ UNCHANGED <<command, items, idx, copies, signalled, exit>>
    BY <1>4 DEF Plan
  <2>2. S \subseteq items \ Unsafe
    BY SelectionsAreFetchable
  <2>3. phase = "planning" /\ UNCHANGED <<world, failing, faults>>
    BY <1>4 DEF Plan
  <2>8. disturbed' \in BOOLEAN
    BY <1>4 DEF Plan
  <2>4. todo = {}
    BY <2>3 DEF IInv, Handed
  <2>5. CASE Exit("usage") /\ UNCHANGED todo
    BY <2>3, <2>4, <2>5, <2>8, ExitHolds
  <2>6. ASSUME phase' \in {"reporting", "running"}, todo' \subseteq items \ Unsafe,
               phase' = "reporting" => todo' = {}, checked' \in BOOLEAN,
               UNCHANGED <<command, items, idx, copies, signalled, exit>>
        PROVE  IInv'
    <3>1. TypeOK'
      BY <2>3, <2>6, <2>8 DEF world, sizes, IInv, TypeOK
    <3>2. Handed' /\ Sizes' /\ Listing'
      BY <2>3, <2>6 DEF world, sizes, IInv, Handed, Sizes, Listing, Archived
    <3> QED
      BY <2>3, <2>6, <3>1, <3>2, NothingSaid DEF IInv
  <2>7. checked \in BOOLEAN
    BY DEF IInv, TypeOK
  <2> QED
    BY <2>1, <2>2, <2>4, <2>5, <2>6, <2>7 DEF seen
<1>5. CASE RunReturns
  <2>1. /\ phase = "running" /\ phase' = "reindexing" /\ todo' = {}
        /\ failing' \in BOOLEAN
        /\ UNCHANGED <<world, command, items, idx, copies, checked, signalled, exit, mishaps>>
    BY <1>5 DEF RunReturns, seen, IInv, TypeOK
  <2>2. TypeOK'
    BY <2>1 DEF world, sizes, IInv, TypeOK
  <2>3. Handed' /\ Sizes' /\ Listing'
    BY <2>1 DEF world, sizes, IInv, Handed, Sizes, Listing, Archived
  <2> QED
    BY <2>1, <2>2, <2>3, NothingSaid DEF IInv
<1>25. CASE LegTrips
  <2>1. /\ phase = "running" /\ phase' = "reindexing" /\ todo' = {} /\ failing' = TRUE
        /\ UNCHANGED <<world, command, items, idx, copies, checked, signalled, exit, mishaps>>
    BY <1>25 DEF LegTrips, seen
  <2>2. TypeOK'
    BY <2>1 DEF world, sizes, IInv, TypeOK
  <2>3. Handed' /\ Sizes' /\ Listing'
    BY <2>1 DEF world, sizes, IInv, Handed, Sizes, Listing, Archived
  <2> QED
    BY <2>1, <2>2, <2>3, NothingSaid DEF IInv
<1>6. CASE IndexRemote
  BY <1>3, <1>6 DEF IndexRemote
<1>7. CASE Reindex
  BY <1>3, <1>7 DEF Reindex
<1>8. CASE Report
  <2>1. phase = "reporting" /\ UNCHANGED <<world, todo, failing, mishaps>>
    BY <1>8 DEF Report
  <2>2. todo = {}
    BY <2>1 DEF IInv, Handed
  <2>3. CASE command = "sync" /\ Exit(SyncExit)
    BY <2>1, <2>2, <2>3, ExitHolds DEF SyncExit, IInv, TypeOK
  <2>4. CASE command # "sync" /\ Exit(VerifyExit)
    BY <2>1, <2>2, <2>4, ExitHolds DEF VerifyExit, IInv, TypeOK
  <2> QED
    BY <1>8, <2>3, <2>4 DEF Report
<1>9. CASE Unreachable
  BY <1>9, ExitHolds DEF Unreachable, IInv, Handed, TypeOK
<1>10. ASSUME NEW i \in Items, Done(i), faults' \in 0 .. MaxFaults /\ disturbed' \in BOOLEAN,
              pending' \subseteq Items, UNCHANGED <<sizes, chat, stale>>,
              \/ UNCHANGED remote
              \/ \E object \in Objects : object # "whole" /\ Stores(i, object)
              \/ Stores(i, Whole(i))
       PROVE  IInv'
  <2>1. /\ remote' \in [Items -> Objects]
        /\ \A j \in Items : remote[j] = "whole" => remote'[j] = "whole"
        /\ \A j \in hollow : remote'[j] # "whole"
    <3>1. CASE UNCHANGED remote
      BY <3>1 DEF IInv, TypeOK, Sizes
    <3>2. CASE \E object \in Objects : object # "whole" /\ Stores(i, object)
      BY <3>2, StoresKeepsWhole DEF IInv
    <3>3. CASE Stores(i, Whole(i))
      BY <3>3, StoresKeepsWhole DEF IInv, Whole, Objects
    <3> QED
      BY <1>10, <3>1, <3>2, <3>3
  <2>2. /\ phase = "running" /\ todo' \subseteq todo
        /\ UNCHANGED <<phase, command, items, idx, copies, checked, failing, signalled, exit>>
    BY <1>10 DEF Done, seen
  <2>3. UNCHANGED <<tooBig, hollow, nested, chat, stale>>
    BY <1>10 DEF sizes
  <2>4. TypeOK'
    BY <1>10, <2>1, <2>2, <2>3 DEF IInv, TypeOK
  <2>5. Handed' /\ Sizes'
    BY <2>1, <2>2, <2>3 DEF IInv, Handed, Sizes
  <2>6. Listing'
    BY <2>1, <2>2, <2>3, ListingLasts DEF IInv
  <2> QED
    BY <2>2, <2>4, <2>5, <2>6, NothingSaid DEF IInv
<1>11. ASSUME NEW i \in Items, Archives(i) PROVE IInv'
  BY <1>10, <1>11 DEF Archives, IInv, TypeOK
<1>12. ASSUME NEW i \in Items, SkipsGone(i) PROVE IInv'
  BY <1>10, <1>12 DEF SkipsGone, world, IInv, TypeOK
<1>13. ASSUME NEW i \in Items, Fails(i) PROVE IInv'
  <2>1. faults' \in 0 .. MaxFaults /\ disturbed' \in BOOLEAN
    BY <1>13, FaultsStayBounded DEF Fails, IInv, TypeOK
  <2>2. pending' \subseteq Items
    BY <1>13 DEF Fails, IInv, TypeOK
  <2>3. PICK object \in {remote[i], "absent", "empty", "short"} : Stores(i, object)
    BY <1>13 DEF Fails
  <2>4. UNCHANGED remote \/ \E o \in Objects : o # "whole" /\ Stores(i, o)
    <3>1. CASE object = remote[i]
      BY <2>3, <3>1 DEF Stores, IInv, TypeOK
    <3>2. CASE object \in {"absent", "empty", "short"}
      BY <2>3, <3>2 DEF Objects
    <3> QED
      BY <3>1, <3>2
  <2> QED
    BY <1>10, <1>13, <2>1, <2>2, <2>4 DEF Fails
<1>14. ASSUME NEW T, T \subseteq items \ Unsafe, todo' = T, stale' \subseteq stale,
              phase \in {"reporting", "deleting"}, phase' = "deleting", command = "clean",
              failing' \in BOOLEAN,
              UNCHANGED <<sizes, chat, remote, pending, command, seen, signalled, exit, mishaps>>
       PROVE  IInv'
  <2>1. TypeOK'
    BY <1>14 DEF sizes, seen, IInv, TypeOK
  <2>2. Handed' /\ Sizes' /\ Listing'
    BY <1>14 DEF sizes, seen, IInv, Handed, Sizes, Listing, Archived
  <2> QED
    BY <1>14, <2>1, <2>2, NothingSaid DEF IInv
<1>15. CASE StartDeleting
  BY <1>14, <1>15 DEF StartDeleting, Misnamed, Todo, world, IInv, TypeOK
<1>16. ASSUME NEW i \in Items, DeleteCopy(i) PROVE IInv'
  BY <1>14, <1>16 DEF DeleteCopy, IInv, TypeOK, Handed
<1>17. CASE DeletingEnds
  <2>1. phase = "deleting" /\ todo = {} /\ UNCHANGED <<world, todo, failing, mishaps>>
        /\ Exit(IF failing THEN "remote" ELSE VerifyExit)
    BY <1>17 DEF DeletingEnds
  <2>2. command = "clean"
    BY <2>1 DEF IInv, Handed
  <2>3. CASE failing
    BY <2>1, <2>3, ExitHolds DEF IInv, TypeOK
  <2>4. CASE ~failing
    BY <2>1, <2>2, <2>4, ExitHolds DEF VerifyExit, IInv, TypeOK
  <2> QED
    BY <2>3, <2>4
<1>18. CASE Signal \/ Swallowed
  <2>1. /\ phase # "idle" /\ phase' \in {phase, "reporting"}
        /\ phase' = "reporting" => todo = {}
        /\ signalled' \in BOOLEAN /\ faults' \in 0 .. MaxFaults /\ disturbed' \in BOOLEAN
        /\ UNCHANGED <<world, command, seen, todo, failing, exit>>
    BY <1>18, FaultsStayBounded DEF Signal, Swallowed, IInv, TypeOK, Handed
  <2>2. TypeOK'
    BY <2>1 DEF world, sizes, seen, IInv, TypeOK
  <2>3. Handed' /\ Sizes' /\ Listing'
    BY <2>1 DEF world, sizes, seen, IInv, Handed, Sizes, Listing, Archived
  <2> QED
    BY <2>1, <2>2, <2>3, NothingSaid DEF IInv
<1>19. CASE Kill
  <2>1. /\ remote' \in [Items -> Objects]
        /\ \A j \in Items : remote[j] = "whole" => remote'[j] = "whole"
        /\ \A j \in hollow : remote'[j] # "whole"
    <3>1. CASE remote' = remote
      BY <3>1 DEF IInv, TypeOK, Sizes
    <3>2. CASE \E i \in todo : Stores(i, "short")
      BY <3>2, StoresKeepsWhole DEF IInv, TypeOK, Objects
    <3> QED
      BY <1>19, <3>1, <3>2 DEF Kill
  <2>2. /\ phase' = "idle" /\ exit' = "killed" /\ todo' = {}
        /\ pending' \subseteq Items
        /\ faults' \in 0 .. MaxFaults /\ disturbed' \in BOOLEAN
    BY <1>19 DEF Kill, Fault, IInv, TypeOK
  <2>3. UNCHANGED <<tooBig, hollow, nested, chat, stale, command, items, idx, copies,
                    checked, failing, signalled>>
    BY <1>19 DEF Kill, sizes, seen
  <2>4. TypeOK'
    BY <2>1, <2>2, <2>3 DEF IInv, TypeOK
  <2>5. Handed' /\ Sizes' /\ Verdict'
    BY <2>1, <2>2, <2>3 DEF IInv, Handed, Sizes, Verdict
  <2>6. Listing'
    BY <2>1, <2>3, ListingLasts DEF IInv
  <2> QED
    BY <2>4, <2>5, <2>6 DEF IInv
<1>20. ASSUME NEW i \in Items, LateCommit(i) PROVE IInv'
  <2>1. /\ remote' \in [Items -> Objects]
        /\ \A j \in Items : remote[j] = "whole" => remote'[j] = "whole"
        /\ \A j \in hollow : remote'[j] # "whole"
    BY <1>20, StoresKeepsWhole DEF LateCommit, IInv, Whole, Objects
  <2>2. pending' \subseteq Items /\ UNCHANGED <<sizes, chat, stale, process, mishaps>>
    BY <1>20 DEF LateCommit, IInv, TypeOK
  <2>3. TypeOK'
    BY <2>1, <2>2 DEF sizes, process, seen, IInv, TypeOK
  <2>4. Handed' /\ Sizes' /\ Verdict'
    BY <2>1, <2>2
    DEF sizes, process, seen, IInv, Handed, Sizes, Verdict, Complete, Stalled,
        Fetchable, Todo, Outstanding
  <2>5. Listing'
    BY <2>1, <2>2, ListingLasts DEF sizes, process, seen, IInv
  <2> QED
    BY <2>3, <2>4, <2>5 DEF IInv
<1>21. ASSUME NEW i \in Items, DeleteMessage(i) PROVE IInv'
  <2>1. /\ chat' \subseteq Items /\ faults' \in 0 .. MaxFaults /\ disturbed' \in BOOLEAN
        /\ UNCHANGED <<sizes, remote, stale, pending, process>>
    BY <1>21, FaultsStayBounded DEF DeleteMessage, IInv, TypeOK
  <2>2. TypeOK'
    BY <2>1 DEF sizes, process, seen, IInv, TypeOK
  <2>3. Handed' /\ Sizes' /\ Listing' /\ Verdict'
    BY <2>1
    DEF sizes, process, seen, IInv, Handed, Sizes, Listing, Archived, Verdict,
        Complete, Stalled, Fetchable, Todo, Outstanding
  <2> QED
    BY <2>2, <2>3 DEF IInv
<1>22. CASE UNCHANGED vars
  <2>1. TypeOK'
    BY <1>22 DEF vars, world, sizes, process, seen, IInv, TypeOK
  <2>2. Handed' /\ Sizes' /\ Listing' /\ Verdict'
    BY <1>22
    DEF vars, world, sizes, process, seen, IInv, Handed, Sizes, Listing, Archived,
        Verdict, Complete, Stalled, Fetchable, Todo, Outstanding
  <2> QED
    BY <2>1, <2>2 DEF IInv
<1>23. CASE Steps
  BY <1>2, <1>4, <1>5, <1>6, <1>7, <1>8, <1>9, <1>11, <1>12, <1>13, <1>15, <1>16, <1>17, <1>23
  DEF Steps
<1>24. CASE Environment
  BY <1>18, <1>19, <1>20, <1>21, <1>24, <1>25 DEF Environment
<1> QED
  BY <1>1, <1>22, <1>23, <1>24 DEF Next, DriverStopped

(* The strengthened invariant holds of every behaviour.                    *)
THEOREM Inductive == Spec => []IInv
<1>1. Init => IInv
  BY InitHolds
<1>2. IInv /\ [Next]_vars => IInv'
  BY NextHolds
<1> QED
  BY <1>1, <1>2, PTL DEF Spec

(* Every variable of Archive stays in its type.                            *)
THEOREM TypesHold == Spec => []TypeOK
<1>1. IInv => TypeOK
  BY DEF IInv
<1> QED
  BY <1>1, Inductive, PTL

(* Exit 0 means that everything the walk saw is whole on the remote.       *)
THEOREM OkIsTheTruth == Spec => []OkIsComplete
<1>1. IInv => OkIsComplete
  BY DEF IInv, TypeOK, Listing, Verdict, OkIsComplete, Complete, Todo, Outstanding
<1> QED
  BY <1>1, Inductive, PTL

(* Exit 4 means that no later run could archive anything more.             *)
THEOREM StalledIsTheEnd == Spec => []StalledIsFinal
<1>1. IInv => StalledIsFinal
  BY DEF IInv, TypeOK, Listing, Verdict, StalledIsFinal, Stalled, Fetchable, Todo, Outstanding
<1> QED
  BY <1>1, Inductive, PTL

-----------------------------------------------------------------------------
(***************************************************************************)
(* A sync nothing gets in the way of                                       *)
(***************************************************************************)
Calm == ~disturbed /\ \A i \in items : Plain(i)

(* The files its comparison found missing are on its list, the others on   *)
(* the remote; when the list is empty the remote is listed again, and what *)
(* it reports is that all is there.                                        *)
Undisturbed ==
    Calm =>
      /\ items \subseteq chat
      /\ phase = "planning" =>
           checked /\ \A i \in items \ Unsafe : idx[i] = "whole" => remote[i] = "whole"
      /\ phase = "running" =>
           \A i \in items \ Unsafe : i \in todo \/ remote[i] = "whole"
      /\ phase = "reindexing" /\ ~failing /\ ~signalled =>
           \A i \in items \ Unsafe : remote[i] = "whole"
      /\ phase = "reporting" /\ command = "sync" /\ ~failing /\ ~signalled =>
           checked /\ \A i \in items \ Unsafe : idx[i] = "whole"
      /\ exit = "incomplete" => command # "sync"

\* after a fault there is nothing to show
LEMMA DisturbedHolds ==
    ASSUME disturbed' = TRUE
    PROVE  Undisturbed'
BY DEF Undisturbed, Calm

(* A step beside the command, which at most adds to the remote.            *)
LEMMA BesideHolds ==
    ASSUME IInv, Undisturbed, UNCHANGED <<sizes, phase, command, seen, todo, failing, exit>>,
           chat' = chat, disturbed' = disturbed, signalled => signalled',
           \A j \in Items : remote[j] = "whole" => remote'[j] = "whole"
    PROVE  Undisturbed'
<1>1. UNCHANGED <<hollow, nested, items, idx, checked>>
  BY DEF sizes, seen
<1>2. Calm' => Calm
  BY <1>1 DEF Calm, Plain
<1> QED
  BY <1>1, <1>2 DEF Undisturbed, IInv, TypeOK

(* A command that ends, with another code than a sync's 1.                 *)
LEMMA EndHolds ==
    ASSUME IInv, Undisturbed, NEW code, Exit(code), UNCHANGED world,
           Calm' => Calm /\ (code = "incomplete" /\ ~signalled => command # "sync")
    PROVE  Undisturbed'
<1>1. phase' = "idle" /\ exit' = (IF signalled THEN "signal" ELSE code)
      /\ UNCHANGED <<command, items, chat>>
  BY DEF Exit, seen, world
<1> QED
  BY <1>1 DEF Undisturbed

(* An archived file has left the list and is on the remote.                *)
LEMMA ArchivingHolds ==
    ASSUME IInv, Undisturbed, NEW i \in Items, Archives(i)
    PROVE  Undisturbed'
<1>1. /\ phase = "running" /\ todo' = todo \ {i} /\ Stores(i, Whole(i))
      /\ UNCHANGED <<phase, hollow, nested, items, idx, chat, exit, disturbed>>
  BY DEF Archives, Done, seen, sizes
<1>2. \A j \in Items : remote[j] = "whole" => remote'[j] = "whole"
  BY <1>1, StoresKeepsWhole DEF IInv, Whole, Objects
<1>3. i \notin hollow => remote'[i] = "whole"
  BY <1>1 DEF Stores, Whole, IInv, TypeOK
<1>4. Calm' => Calm
  BY <1>1 DEF Calm, Plain
<1>5. exit = "none"
  BY <1>1 DEF IInv, Verdict
<1> QED
  BY <1>1, <1>2, <1>3, <1>4, <1>5 DEF Undisturbed, Calm, Plain, IInv, TypeOK

(* A listing of files that lie in the root alone shows what is there.      *)
LEMMA ListingHolds ==
    ASSUME IInv, Undisturbed, IndexRemote \/ Reindex
    PROVE  Undisturbed'
<1>1. /\ List /\ checked' = TRUE /\ phase # "idle" /\ phase' \in {"planning", "reporting"}
      /\ phase' = "reporting" /\ command = "sync" => phase = "reindexing"
      /\ UNCHANGED <<hollow, nested, chat, remote, command, items, failing, signalled, exit,
                     disturbed>>
  BY DEF IndexRemote, Reindex, List, world, sizes
<1>2. Calm' => Calm
  BY <1>1 DEF Calm, Plain
<1>3. Calm => \A i \in items : idx'[i] = remote[i]
  BY <1>1 DEF Calm, Plain, List, IInv, TypeOK
<1>4. exit = "none"
  BY <1>1 DEF IInv, Verdict
<1> QED
  BY <1>1, <1>2, <1>3, <1>4 DEF Undisturbed

(* All of what is missing is on the list, or the command is disturbed.     *)
LEMMA PlanHolds ==
    ASSUME IInv, Undisturbed, Plan
    PROVE  Undisturbed'
<1>1. PICK S \in Selections :
        /\ disturbed' = (disturbed \/ S # Todo \ Unsafe)
        /\ \/ /\ S = {}
              /\ phase' = "reporting"
              /\ UNCHANGED <<todo, command, seen, signalled, exit>>
           \/ /\ S \cap tooBig # {}
              /\ Exit("usage") /\ UNCHANGED todo
           \/ /\ S # {} /\ S \cap tooBig = {}
              /\ phase' = "running" /\ todo' = S /\ checked' = FALSE
              /\ UNCHANGED <<command, items, idx, copies, signalled, exit>>
  BY DEF Plan
<1>2. phase = "planning" /\ UNCHANGED <<world, failing>> /\ exit = "none"
  BY DEF Plan, IInv, Verdict
<1>3. UNCHANGED <<hollow, nested, chat, remote>>
  BY <1>2 DEF world, sizes
<1>4. UNCHANGED <<items, idx>>
  BY <1>1 DEF Exit, seen
<1>5. Calm' => Calm /\ S = Todo \ Unsafe
  BY <1>1, <1>3, <1>4 DEF Calm, Plain
<1>6. CASE Exit("usage")
  BY <1>2, <1>5, <1>6, EndHolds
<1>7. Calm => checked /\ \A i \in items \ Unsafe :
                idx[i] = "whole" \/ i \in Todo \ Unsafe
  BY <1>2 DEF Undisturbed, Todo, Outstanding
<1>8. CASE /\ S = {} /\ phase' = "reporting"
           /\ UNCHANGED <<todo, command, seen, signalled, exit>>
  BY <1>2, <1>3, <1>4, <1>5, <1>7, <1>8 DEF Undisturbed, seen
<1>9. CASE /\ phase' = "running" /\ todo' = S
           /\ UNCHANGED <<command, items, idx, copies, signalled, exit>>
  BY <1>2, <1>3, <1>4, <1>5, <1>7, <1>9 DEF Undisturbed
<1> QED
  BY <1>1, <1>6, <1>8, <1>9

LEMMA UndisturbedStays == IInv /\ Undisturbed /\ [Next]_vars => Undisturbed'
<1> SUFFICES ASSUME IInv, Undisturbed, [Next]_vars PROVE Undisturbed'
  OBVIOUS
<1>1. ASSUME NEW c \in Commands, Start(c) PROVE Undisturbed'
  BY <1>1 DEF Start, Undisturbed
<1>2. CASE WalkChat
  <2>1. CASE Fault("short walk")
    BY <2>1, DisturbedHolds DEF Fault
  <2>2. CASE items' = chat
    BY <1>2, <2>2 DEF WalkChat, Undisturbed, world, IInv, Verdict
  <2> QED
    BY <1>2, <2>1, <2>2 DEF WalkChat
<1>3. CASE RunReturns
  <2>1. /\ phase = "running" /\ phase' = "reindexing" /\ (todo = {} \/ signalled)
        /\ UNCHANGED <<hollow, nested, chat, remote, items, signalled, exit, disturbed>>
        /\ exit = "none"
    BY <1>3 DEF RunReturns, seen, world, sizes, IInv, Verdict
  <2>2. Calm' => Calm
    BY <2>1 DEF Calm, Plain
  <2> QED
    BY <2>1, <2>2 DEF Undisturbed
<1>4. CASE LegTrips
  <2>1. /\ phase = "running" /\ phase' = "reindexing" /\ failing'
        /\ UNCHANGED <<hollow, nested, chat, items, exit, disturbed>>
        /\ exit = "none"
    BY <1>4 DEF LegTrips, seen, world, sizes, IInv, Verdict
  <2>2. Calm' => Calm
    BY <2>1 DEF Calm, Plain
  <2> QED
    BY <2>1, <2>2 DEF Undisturbed
<1>5. CASE Report
  <2>1. phase = "reporting" /\ UNCHANGED <<world, failing, disturbed>> /\ UNCHANGED items
    BY <1>5 DEF Report, Exit, seen
  <2>2. Calm' => Calm
    BY <2>1 DEF Calm, Plain, world, sizes
  <2>3. CASE command = "sync" /\ Exit(SyncExit)
    <3>1. ASSUME Calm, ~signalled PROVE SyncExit # "incomplete"
      BY <2>1, <2>3, <3>1
      DEF Undisturbed, SyncExit, Stalled, Complete, Fetchable, Todo, Outstanding
    <3> QED
      BY <2>1, <2>2, <2>3, <3>1, EndHolds
  <2>4. CASE command # "sync" /\ Exit(VerifyExit)
    BY <2>1, <2>2, <2>4, EndHolds
  <2> QED
    BY <1>5, <2>3, <2>4 DEF Report
<1>6. CASE DeletingEnds \/ Unreachable
  <2>1. PICK code : Exit(code) /\ (code = "incomplete" => command # "sync")
    BY <1>6 DEF DeletingEnds, Unreachable, VerifyExit, IInv, Handed
  <2>2. UNCHANGED <<world, disturbed, items>>
    BY <1>6 DEF DeletingEnds, Unreachable, Exit, seen
  <2>3. Calm' => Calm
    BY <2>2 DEF Calm, Plain, world, sizes
  <2> QED
    BY <2>1, <2>2, <2>3, EndHolds
<1>7. CASE StartDeleting
  BY <1>7 DEF StartDeleting, Undisturbed, Calm, Plain, world, sizes, seen, IInv, Verdict
<1>8. ASSUME NEW i \in Items, DeleteCopy(i) PROVE Undisturbed'
  BY <1>8 DEF DeleteCopy, Undisturbed, Calm, Plain, sizes, seen, IInv, Verdict
<1>9. ASSUME NEW i \in Items, SkipsGone(i) PROVE Undisturbed'
  <2>1. i \in items /\ i \notin chat /\ UNCHANGED <<hollow, nested, items, disturbed>>
    BY <1>9 DEF SkipsGone, Done, world, sizes, seen, IInv, TypeOK
  <2>2. ~Calm
    BY <2>1 DEF Undisturbed
  <2> QED
    BY <2>1, <2>2 DEF Undisturbed, Calm, Plain
<1>10. ASSUME NEW i \in Items, Fails(i) \/ DeleteMessage(i) PROVE Undisturbed'
  BY <1>10, DisturbedHolds DEF Fails, DeleteMessage, Fault
<1>11. CASE Kill \/ Swallowed
  BY <1>11, DisturbedHolds DEF Kill, Swallowed, Fault
<1>12. CASE Signal \/ UNCHANGED vars
  BY <1>12, BesideHolds DEF Signal, vars, process, world, sizes, seen
<1>13. ASSUME NEW i \in Items, LateCommit(i) PROVE Undisturbed'
  <2>1. \A j \in Items : remote[j] = "whole" => remote'[j] = "whole"
    BY <1>13, StoresKeepsWhole DEF LateCommit, IInv, Whole, Objects
  <2> QED
    BY <1>13, <2>1, BesideHolds DEF LateCommit, process
<1>14. CASE Steps
  BY <1>2, <1>3, <1>5, <1>6, <1>7, <1>8, <1>9, <1>10, <1>14, ListingHolds, PlanHolds,
     ArchivingHolds DEF Steps
<1>15. CASE Environment
  BY <1>4, <1>10, <1>11, <1>12, <1>13, <1>15 DEF Environment
<1> QED
  BY <1>1, <1>12, <1>14, <1>15 DEF Next, DriverStopped

(* A sync that neither a fault nor a limit got in the way of never asks    *)
(* for another run.                                                        *)
THEOREM OneIsCaused == Spec => []OneHasACause
<1>1. Init => Undisturbed
  BY DEF Init, Undisturbed
<1>2. IInv /\ Undisturbed => OneHasACause
  BY DEF IInv, TypeOK, Undisturbed, Calm, OneHasACause
<1> QED
  BY <1>1, <1>2, UndisturbedStays, Inductive, PTL DEF Spec
=============================================================================
