---------------------------- MODULE OutcomeProofs ---------------------------
(***************************************************************************)
(* Proofs about what Pipeline leaves behind and reports when it returns,   *)
(* for every set of items, every budget and every choice of the options.   *)
(*                                                                         *)
(* They rest on the invariant of PipelineProofs and on what it leaves out: *)
(* where a fetched item is on its way to the remote (Fate), what the end   *)
(* of a pass implies (Ends), that a breaker has tripped on as many items   *)
(* as it counted (Streak), that a pass, unless it reports an error, has    *)
(* seen every item (Covered, and FirstPass for the first one), and that no *)
(* list of failures is left without its retry but for a reason (Reasons).  *)
(***************************************************************************)
EXTENDS PipelineProofs

(* An item that was handed over is in the upload leg, and leaves it        *)
(* with an object on the remote or with an error.                          *)
Fate ==
    \A i \in Items :
        /\ dl[i] = "sent" \/ passOut[i] = "ok" \/ outcome[i] = "ok" => ul[i] # "none"
        /\ ul[i] \in {"clearing", "releasing", "counting", "ended"} /\ upErr[i] = "none"
           => Arrived(i)

Drained == phase = "done" => \A i \in Items : ul[i] \in {"none", "ended"}

(* What an item's place, the stop flag and the end of the iterator say.    *)
Ends ==
    /\ \A i \in Items :
         /\ dl[i] \in {"ended", "refused", "tripping"} => passOut[i] # "none"
         /\ dl[i] \in {"refused", "tripping"} => dlTripped
         /\ dl[i] = "dropped" => passErr
    /\ stop => upTripped \/ (phase = "pass" /\ dlTripped)
    /\ upTripped => LostUploads # {}
    /\ phase = "pass" /\ iterOver => passErr \/ stop \/ \A i \in Items : dl[i] # "todo"

(* The breaker of the download leg counts items that failed in this pass.  *)
Streak ==
    /\ dlStreak <= Cardinality(FailedItems)
    /\ dlTripped => Cardinality(FailedItems) >= MaxFailures
    /\ phase # "pass" => \A i \in Items : passOut[i] = "failed" => outcome[i] = "failed"
    /\ srcErr => dlTripped /\ phase \in {"drain", "done"}

(* With a list too short to trip the breaker early.                        *)
Covered ==
    MaxFailures >= Cardinality(Items) =>
        /\ phase = "pass" => \A i \in Items : dl[i] = "idle" => outcome[i] # "none"
        /\ phase = "wait" => \A i \in Items : outcome[i] # "none"
        /\ phase \in {"drain", "done"} /\ ~dlErr /\ ~srcErr /\ LostUploads = {}
           => \A i \in Items : outcome[i] # "none"

OInv == Fate /\ Drained /\ Ends /\ Streak /\ Covered

Invs == Flags /\ Control /\ OInv

USE DEF DlStages, UlStages, InHand, InWorker, InUploader, AtRest, Uncounted, Verdicts,
        Arrived

LEMMA CountOfFailed ==
    ASSUME NEW i \in Items, passOut[i] # "failed", passOut \in [Items -> Verdicts]
    PROVE  /\ IsFiniteSet(FailedItems) /\ Cardinality(FailedItems) \in Nat
           /\ passOut' = [passOut EXCEPT ![i] = "failed"] =>
                Cardinality(FailedItems)' = Cardinality(FailedItems) + 1
<1>1. IsFiniteSet(FailedItems) /\ Cardinality(FailedItems) \in Nat
  BY FailedItemsCount
<1>2. ASSUME passOut' = [passOut EXCEPT ![i] = "failed"]
      PROVE  FailedItems' = FailedItems \cup {i} /\ i \notin FailedItems
  BY <1>2 DEF FailedItems
<1> QED
  BY <1>1, <1>2, FS_AddElement

-----------------------------------------------------------------------------
(***************************************************************************)
(* Families of steps                                                       *)
(***************************************************************************)
(* A step of the download leg that counts nothing and hands nothing over.  *)
Moves(i) ==
    /\ \E stage \in DlStages \ {"todo", "sent", "idle", "ended", "refused", "tripping"} :
         Download(i, stage) /\ (stage = "dropped" => passErr')
    /\ passErr => passErr'
    /\ iterOver' /\ ~iterOver => passErr'
    /\ UNCHANGED <<ul, dlBreaker, passOut, upErr, upBreaker, stop, archived, short, runVars>>

LEMMA MovesKeeps ==
    ASSUME Invs, NEW i \in Items, Moves(i)
    PROVE  OInv'
<1> USE DEF Invs, OInv, Control, Typing, Flags
<1>1. PICK stage \in DlStages \ {"todo", "sent", "idle", "ended", "refused", "tripping"} :
        dl' = [dl EXCEPT ![i] = stage] /\ (stage = "dropped" => passErr')
  BY DEF Moves, Download
<1>2. dl'[i] = stage /\ \A j \in Items \ {i} : dl'[j] = dl[j]
  BY <1>1
<1>3. UNCHANGED <<ul, dlStreak, dlTripped, passOut, upErr, upTripped, stop, archived, short,
                  phase, outcome, dlErr, srcErr>>
  BY DEF Moves, dlBreaker, upBreaker, runVars
<1>4. Fate' /\ Drained'
  BY <1>1, <1>2, <1>3 DEF Fate, Drained
<1>5. Ends'
  BY <1>1, <1>2, <1>3 DEF Ends, Moves, LostUploads
<1>6. Streak'
  BY <1>3 DEF Streak, FailedItems
<1>7. Covered'
  BY <1>1, <1>2, <1>3 DEF Covered, LostUploads
<1> QED
  BY <1>4, <1>5, <1>6, <1>7

(* A step of an upload worker up to its accounting.                        *)
Carries(i) ==
    /\ ul[i] \notin {"none", "ended"}
    /\ \E stage \in UlStages \ {"none", "ended"} :
         /\ Upload(i, stage)
         /\ stage \in {"clearing", "releasing", "counting"} /\ upErr'[i] = "none"
            => Arrived(i)'
    /\ archived \subseteq archived' /\ short \subseteq short'
    /\ \A j \in Items \ {i} : upErr'[j] = upErr[j]
    /\ UNCHANGED <<dl, iterVars, dlBreaker, passOut, upBreaker, stop, runVars>>

LEMMA CarriesKeeps ==
    ASSUME Invs, NEW i \in Items, Carries(i)
    PROVE  OInv'
<1> USE DEF Invs, OInv, Control, Typing, Flags
<1>1. PICK stage \in UlStages \ {"none", "ended"} :
        /\ ul' = [ul EXCEPT ![i] = stage]
        /\ stage \in {"clearing", "releasing", "counting"} /\ upErr'[i] = "none"
           => Arrived(i)'
  BY DEF Carries, Upload
<1>2. ul'[i] = stage /\ \A j \in Items \ {i} : ul'[j] = ul[j] /\ upErr'[j] = upErr[j]
  BY <1>1 DEF Carries
<1>3. UNCHANGED <<dl, iterOver, passErr, dlStreak, dlTripped, passOut, upTripped, stop,
                  phase, outcome, dlErr, srcErr>>
  BY DEF Carries, iterVars, dlBreaker, upBreaker, runVars
<1>4. ul[i] \notin {"none", "ended"} /\ \A j \in Items : Arrived(j) => Arrived(j)'
  BY DEF Carries
<1>5. LostUploads' = LostUploads
  BY <1>1, <1>2, <1>4 DEF LostUploads
<1>6. Fate'
  BY <1>1, <1>2, <1>3, <1>4 DEF Fate
<1>7. phase # "done"
  BY <1>4 DEF Drained
<1>8. Drained' /\ Ends' /\ Streak' /\ Covered'
  BY <1>3, <1>5, <1>7 DEF Drained, Ends, Streak, Covered, FailedItems
<1> QED
  BY <1>6, <1>8

(* The iterator ends: it was stopped, it has nothing left, or it reports.  *)
LEMMA IteratorEndsKeeps ==
    ASSUME Invs, NextStopped \/ NextCancelled \/ NextExhausted \/ NextWalkFails
    PROVE  OInv'
<1> USE DEF Invs, OInv, Control, Typing, Flags
<1>1. UNCHANGED <<dl, ul, dlStreak, dlTripped, passOut, upErr, upTripped, stop, archived, short,
                  phase, outcome, dlErr, srcErr>>
  BY DEF NextStopped, NextCancelled, NextExhausted, NextWalkFails, dlBreaker, upBreaker,
         runVars
<1>2. /\ iterOver' /\ (passErr => passErr')
      /\ passErr' \/ stop \/ \A i \in Items : dl[i] # "todo"
  BY DEF NextStopped, NextCancelled, NextExhausted, NextWalkFails, IterEnds
<1> QED
  BY <1>1, <1>2 DEF Fate, Drained, Ends, Streak, Covered, LostUploads, FailedItems

(* A failure is counted against the item and the streak.                   *)
CountsFailure(i) ==
    /\ dl[i] \in {"reserved", "released"}
    /\ RecordFailure(i)
    /\ \E stage \in {"refused", "tripping"} : Download(i, IF DlTrips THEN stage ELSE "ended")
    /\ UNCHANGED <<ul, iterVars, upErr, upBreaker, stop, archived, short, runVars>>

LEMMA CountsFailureKeeps ==
    ASSUME Invs, NEW i \in Items, CountsFailure(i)
    PROVE  OInv'
<1> USE DEF Invs, OInv, Control, Typing, Flags
<1>1. PICK stage \in {"refused", "tripping"} :
        dl' = [dl EXCEPT ![i] = IF DlTrips THEN stage ELSE "ended"]
  BY DEF CountsFailure, Download
<1>2. UNCHANGED <<ul, iterOver, passErr, upErr, upTripped, stop, archived, short, phase, outcome,
                  dlErr, srcErr>>
  BY DEF CountsFailure, iterVars, upBreaker, runVars
<1>3. /\ passOut' = [passOut EXCEPT ![i] = "failed"]
      /\ dlStreak' = dlStreak + 1 /\ dlTripped' = (dlTripped \/ DlTrips)
      /\ dl[i] \in {"reserved", "released"}
  BY DEF CountsFailure, RecordFailure
<1>4. passOut[i] = "none" /\ ul[i] = "none" /\ phase = "pass"
  BY <1>3 DEF Legs, Quiet
<1>5. /\ dl'[i] \in {"refused", "tripping", "ended"}
      /\ dl'[i] \in {"refused", "tripping"} => dlTripped'
      /\ \A j \in Items \ {i} : dl'[j] = dl[j] /\ passOut'[j] = passOut[j]
      /\ passOut'[i] = "failed"
  BY <1>1, <1>3
<1>6. Fate' /\ Drained'
  BY <1>2, <1>5 DEF Fate, Drained
<1>7. dlTripped => dlTripped'
  BY <1>3
<1>8. Ends'
  BY <1>2, <1>4, <1>5, <1>7 DEF Ends, LostUploads
<1>9. Streak'
  <2>1. /\ Cardinality(FailedItems) \in Nat
        /\ Cardinality(FailedItems)' = Cardinality(FailedItems) + 1
    BY <1>3, <1>4, CountOfFailed
  <2>2. dlStreak' <= Cardinality(FailedItems)'
    BY <1>3, <2>1 DEF Streak
  <2>3. dlTripped' => Cardinality(FailedItems)' >= MaxFailures
    BY <1>3, <2>1, <2>2, OptionsAssumption DEF Streak, DlTrips
  <2>4. ~srcErr'
    BY <1>2, <1>4 DEF Streak
  <2> QED
    BY <1>2, <1>4, <2>2, <2>3, <2>4 DEF Streak
<1>10. Covered'
  BY <1>2, <1>4, <1>5 DEF Covered
<1> QED
  BY <1>6, <1>8, <1>9, <1>10

-----------------------------------------------------------------------------
(***************************************************************************)
(* The other steps of the workers                                          *)
(***************************************************************************)
LEMMA SendKeeps ==
    ASSUME Invs, NEW i \in Items, Send(i)
    PROVE  OInv'
<1> USE DEF Invs, OInv, Control, Typing, Flags
<1>1. /\ dl[i] = "promoted" /\ dl' = [dl EXCEPT ![i] = "sent"] /\ ul' = [ul EXCEPT ![i] = "queued"]
      /\ UNCHANGED <<iterOver, passErr, dlStreak, dlTripped, passOut, upErr, upTripped, stop,
                     archived, short, phase, outcome, dlErr, srcErr>>
  BY DEF Send, Download, Upload, iterVars, dlBreaker, upBreaker, runVars
<1>2. phase = "pass" /\ ul[i] = "none"
  BY <1>1 DEF Quiet, Legs
<1>3. LostUploads' = LostUploads
  BY <1>1, <1>2 DEF LostUploads
<1>4. Fate' /\ Drained'
  BY <1>1, <1>2 DEF Fate, Drained
<1>5. Ends' /\ Streak' /\ Covered'
  BY <1>1, <1>2, <1>3 DEF Ends, Streak, Covered, FailedItems
<1> QED
  BY <1>4, <1>5

LEMMA CountDoneKeeps ==
    ASSUME Invs, NEW i \in Items, CountDone(i)
    PROVE  OInv'
<1> USE DEF Invs, OInv, Control, Typing, Flags
<1>1. /\ dl[i] = "sent" /\ dl' = [dl EXCEPT ![i] = "ended"]
      /\ passOut' = [passOut EXCEPT ![i] = "ok"] /\ dlStreak' = 0
      /\ UNCHANGED <<ul, iterOver, passErr, dlTripped, upErr, upTripped, stop, archived, short,
                     phase, outcome, dlErr, srcErr>>
  BY DEF CountDone, Download, iterVars, upBreaker, runVars
<1>2. phase = "pass" /\ passOut[i] = "none" /\ ul[i] # "none"
  BY <1>1 DEF Quiet, Legs, Fate
<1>3. FailedItems' = FailedItems /\ LostUploads' = LostUploads
  BY <1>1, <1>2 DEF FailedItems, LostUploads
<1>4. Fate' /\ Drained'
  BY <1>1, <1>2 DEF Fate, Drained
<1>5. Ends'
  BY <1>1, <1>2, <1>3 DEF Ends
<1>6. Streak' /\ Covered'
  BY <1>1, <1>2, <1>3, FailedItemsCount DEF Streak, Covered
<1> QED
  BY <1>4, <1>5, <1>6

LEMMA TripKeeps ==
    ASSUME Invs, NEW i \in Items, Trip(i)
    PROVE  OInv'
<1> USE DEF Invs, OInv, Control, Typing, Flags
<1>1. /\ dl[i] \in {"refused", "tripping"} /\ dl' = [dl EXCEPT ![i] = "ended"] /\ stop'
      /\ UNCHANGED <<ul, iterOver, passErr, dlStreak, dlTripped, passOut, upErr, upTripped,
                     archived, short, phase, outcome, dlErr, srcErr>>
  BY DEF Trip, Download, iterVars, dlBreaker, upBreaker, runVars
<1>2. phase = "pass" /\ dlTripped /\ passOut[i] # "none"
  BY <1>1 DEF Quiet, Ends
<1>3. Fate' /\ Drained' /\ Streak' /\ Covered'
  BY <1>1, <1>2 DEF Fate, Drained, Streak, Covered, FailedItems, LostUploads
<1>4. Ends'
  BY <1>1, <1>2 DEF Ends, LostUploads
<1> QED
  BY <1>3, <1>4

LEMMA CountUploadKeeps ==
    ASSUME Invs, NEW i \in Items, CountUpload(i)
    PROVE  OInv'
<1> USE DEF Invs, OInv, Control, Typing, Flags
<1>1. /\ ul[i] = "counting" /\ ul' = [ul EXCEPT ![i] = "ended"]
      /\ UNCHANGED <<dl, iterOver, passErr, dlStreak, dlTripped, passOut, upErr, archived, short,
                     phase, outcome, dlErr, srcErr>>
  BY DEF CountUpload, Upload, iterVars, dlBreaker, runVars
<1>2. /\ upTripped => upTripped' /\ (stop => stop')
      /\ upTripped' => upTripped \/ upErr[i] # "none"
      /\ stop' => stop \/ upTripped'
  BY DEF CountUpload, UpTrips
<1>3. /\ LostUploads \subseteq LostUploads'
      /\ upErr[i] # "none" => i \in LostUploads'
  BY <1>1 DEF LostUploads
<1>4. phase # "done" /\ stop => stop'
  BY <1>1 DEF CountUpload
<1>5. Fate' /\ Drained'
  BY <1>1 DEF Fate, Drained
<1>6. Ends'
  BY <1>1, <1>2, <1>3, <1>4 DEF Ends, CountUpload
<1>7. Streak' /\ Covered'
  BY <1>1, <1>3 DEF Streak, Covered, FailedItems
<1> QED
  BY <1>5, <1>6, <1>7

-----------------------------------------------------------------------------
(***************************************************************************)
(* The pass loop                                                           *)
(***************************************************************************)
(* A pass that reports nothing leaves no item of its list behind.          *)
LEMMA PassReachedAll ==
    ASSUME Invs, PassOver, ~PassFailed, ~upTripped,
           ~dlTripped \/ MaxFailures >= Cardinality(Items)
    PROVE  \A i \in Items : dl[i] \in {"idle", "ended"}
<1> USE DEF Invs, OInv, Control, Typing, Flags
<1>1. phase = "pass" /\ iterOver /\ ~passErr /\ Skipped = {}
  BY DEF PassOver, PassFailed
<1>2. \A i \in Items : dl[i] # "todo"
  <2>1. CASE ~stop
    BY <1>1, <2>1 DEF Ends
  <2>2. CASE stop
    <3>0. MaxFailures >= Cardinality(Items)
      BY <1>1, <2>2 DEF Ends
    <3>1. Cardinality(FailedItems) >= MaxFailures
      BY <1>1, <2>2 DEF Ends, Streak
    <3>2. FailedItems \in SUBSET Items
      BY DEF FailedItems
    <3>3. FailedItems = Items
      <4>1. Cardinality(Items) \in Nat /\ Cardinality(FailedItems) \in Nat
        BY ItemsAssumption, FailedItemsCount, FS_CardinalityType
      <4>2. Cardinality(FailedItems) = Cardinality(Items)
        BY <3>0, <3>1, <3>2, <4>1, ItemsAssumption, OptionsAssumption, FS_Subset
      <4> QED
        BY <3>2, <4>2, ItemsAssumption, FS_Subset
    <3> QED
      BY <3>3 DEF FailedItems, Legs
  <2> QED
    BY <2>1, <2>2
<1> QED
  BY <1>1, <1>2 DEF PassOver, Dispatching, Workers, Skipped, Ends

(* So together with the passes before it, it has seen every item.          *)
LEMMA PassSawAll ==
    ASSUME Invs, MaxFailures >= Cardinality(Items), PassOver, ~PassFailed, MergeOutcomes,
           LostUploads = {} \/ ~upTripped
    PROVE  \A i \in Items : outcome'[i] # "none"
<1> USE DEF Invs, OInv
<1>1. phase = "pass" /\ ~upTripped
  BY DEF PassOver, Ends
<1>2. \A i \in Items : dl[i] \in {"idle", "ended"}
  BY <1>1, PassReachedAll
<1>3. \A i \in Items : outcome[i] # "none" \/ passOut[i] # "none"
  BY <1>1, <1>2 DEF Ends, Covered
<1> QED
  BY <1>3 DEF MergeOutcomes

\* what merging a pass into the outcomes keeps
LEMMA MergeKeeps ==
    ASSUME Invs, MergeOutcomes
    PROVE  \A i \in Items :
             /\ outcome'[i] = "ok" => ul[i] # "none"
             /\ passOut[i] = "failed" => outcome'[i] = "failed"
BY DEF Invs, OInv, Fate, MergeOutcomes

LEMMA RetryKeeps ==
    ASSUME Invs, Retry
    PROVE  OInv'
<1> USE DEF Invs, OInv, Control, Typing, Flags
<1>1. /\ UNCHANGED <<dl, ul, iterOver, passErr, dlStreak, dlTripped, passOut, upErr, upTripped,
                     archived, short, dlErr, srcErr>>
      /\ phase = "pass" /\ phase' = "wait" /\ ~upTripped /\ ~PassFailed
      /\ MergeOutcomes /\ stop' = (stop /\ upTripped)
  BY DEF Retry, PassOver, WorthRetrying, ClearStop, iterVars, dlBreaker, upBreaker
<1>2. Fate' /\ Drained'
  BY <1>1, MergeKeeps DEF Fate, Drained
<1>3. Ends'
  BY <1>1 DEF Ends, LostUploads
<1>4. Streak'
  BY <1>1, MergeKeeps DEF Streak, FailedItems
<1>5. Covered'
  BY <1>1, PassSawAll DEF Covered, Retry
<1> QED
  BY <1>2, <1>3, <1>4, <1>5

LEMMA StopKeeps ==
    ASSUME Invs, Stop
    PROVE  OInv'
<1> USE DEF Invs, OInv, Control, Typing, Flags
<1>1. /\ UNCHANGED <<dl, ul, iterOver, passErr, dlStreak, dlTripped, passOut, upErr, upTripped,
                     archived, short>>
      /\ phase = "pass" /\ phase' = "drain"
      /\ dlErr' = (dlErr \/ PassFailed) /\ srcErr' = dlTripped
      /\ MergeOutcomes /\ stop' = (stop /\ upTripped)
  BY DEF Stop, PassOver, ClearStop, iterVars, dlBreaker, upBreaker
<1>2. Fate' /\ Drained'
  BY <1>1, MergeKeeps DEF Fate, Drained
<1>3. Ends'
  BY <1>1 DEF Ends, LostUploads
<1>4. Streak'
  BY <1>1, MergeKeeps DEF Streak, FailedItems
<1>5. ASSUME MaxFailures >= Cardinality(Items), ~dlErr', LostUploads' = {}
      PROVE  \A i \in Items : outcome'[i] # "none"
  <2>1. ~PassFailed /\ LostUploads = {}
    BY <1>1, <1>5 DEF LostUploads
  <2> QED
    BY <1>1, <1>5, <2>1, PassSawAll DEF Stop
<1>6. Covered'
  BY <1>1, <1>5 DEF Covered
<1> QED
  BY <1>2, <1>3, <1>4, <1>6

LEMMA WaitOverKeeps ==
    ASSUME Invs, WaitOver
    PROVE  OInv'
<1> USE DEF Invs, OInv, Control, Typing, Flags
<1>1. /\ UNCHANGED <<ul, upErr, upTripped, stop, archived, short, outcome, dlErr, srcErr>>
      /\ phase = "wait" /\ phase' = "pass"
      /\ dl' = [i \in Items |-> IF i \in FailedItems THEN "todo" ELSE "idle"]
      /\ passOut' = [i \in Items |-> "none"] /\ dlStreak' = 0 /\ ~dlTripped'
      /\ ~iterOver'
  BY DEF WaitOver, NewPass, FreshBreaker, upBreaker
<1>2. Fate' /\ Drained' /\ Covered'
  BY <1>1 DEF Fate, Drained, Covered, LostUploads
<1>3. Ends'
  BY <1>1 DEF Ends, LostUploads
<1>4. FailedItems' = {}
  BY <1>1 DEF FailedItems
<1>5. Streak'
  BY <1>1, <1>4, FS_EmptySet DEF Streak
<1> QED
  BY <1>2, <1>3, <1>5

LEMMA WaitCancelledKeeps ==
    ASSUME Invs, WaitCancelled
    PROVE  OInv'
<1> USE DEF Invs, OInv, Control, Typing, Flags
<1>1. /\ UNCHANGED <<dl, ul, iterOver, passErr, dlStreak, dlTripped, passOut, upErr, upTripped,
                     stop, archived, short, outcome>>
      /\ phase = "wait" /\ phase' = "drain" /\ dlErr' /\ srcErr' = dlTripped
  BY DEF WaitCancelled, iterVars, dlBreaker, upBreaker
<1>2. Fate' /\ Drained' /\ Covered'
  BY <1>1 DEF Fate, Drained, Covered
<1>3. Ends' /\ Streak'
  BY <1>1 DEF Ends, Streak, LostUploads, FailedItems
<1> QED
  BY <1>2, <1>3

\* neither the end of the run nor a signal decides anything of the above
LEMMA QuietKeeps ==
    ASSUME Invs, Finish \/ Cancel \/ UNCHANGED vars
    PROVE  OInv'
<1> USE DEF Invs, OInv, Control, Typing, Flags
<1>1. /\ UNCHANGED <<dl, ul, iterOver, passErr, dlStreak, dlTripped, passOut, upErr, upTripped,
                     stop, archived, short, outcome, dlErr, srcErr>>
      /\ \/ phase' = phase
         \/ /\ phase = "drain" /\ phase' = "done"
            /\ \A i \in Items : ul[i] \in {"none", "ended"}
  BY DEF Finish, Cancel, iterVars, dlBreaker, upBreaker, runVars, vars
<1>2. Fate' /\ Drained' /\ Covered'
  BY <1>1 DEF Fate, Drained, Covered, LostUploads
<1>3. Ends' /\ Streak'
  BY <1>1 DEF Ends, Streak, LostUploads, FailedItems
<1> QED
  BY <1>2, <1>3

-----------------------------------------------------------------------------
(***************************************************************************)
(* The specification                                                       *)
(***************************************************************************)
LEMMA OutcomeInit == Init => OInv
<1> SUFFICES ASSUME Init PROVE OInv
  OBVIOUS
<1>1. Fate /\ Drained /\ Ends /\ Covered
  BY DEF Init, Fate, Drained, Ends, Covered
<1>2. Cardinality(FailedItems) \in Nat
  BY FailedItemsCount
<1>3. Streak
  BY <1>2 DEF Init, Streak
<1> QED
  BY <1>1, <1>3 DEF OInv

LEMMA OutcomeStep ==
    ASSUME Invs, [Next]_vars
    PROVE  OInv'
<1> USE DEF iterVars, dlBreaker, upBreaker, disk, runVars
<1>1. ASSUME NEW i \in Items,
             \/ NextUnsafe(i) \/ NextPulls(i) \/ Acquire(i) \/ Open(i) \/ RefreshGone(i)
             \/ StartTransfer(i) \/ Promote(i) \/ OnFailed(i)
      PROVE  Moves(i)
  <2>1. UNCHANGED <<ul, iterVars, dlBreaker, passOut, upErr, upBreaker, stop, archived,
                    short, runVars>>
    BY <1>1 DEF NextUnsafe, NextPulls, Acquire, Open, RefreshGone, StartTransfer, Promote,
                OnFailed
  <2>2. \E stage \in {"skipped", "pulled", "reserved", "opened", "running", "promoted",
                      "released"} : Download(i, stage)
    BY <1>1 DEF NextUnsafe, NextPulls, Acquire, Open, RefreshGone, StartTransfer, Promote,
                OnFailed
  <2> QED
    BY <2>1, <2>2 DEF Moves
<1>2. ASSUME NEW i \in Items,
             \/ AcquireCancelled(i) \/ OpenFails(i) \/ RefreshCancelled(i)
             \/ TransferFails(i) \/ TransferCancelled(i)
      PROVE  Moves(i)
  <2>1. UNCHANGED <<ul, dlBreaker, passOut, upErr, upBreaker, stop, archived, short, runVars>>
    BY <1>2 DEF AcquireCancelled, OpenFails, RefreshCancelled, TransferFails,
                TransferCancelled
  <2>2. CASE AcquireCancelled(i) \/ OpenFails(i) \/ RefreshCancelled(i)
    <3>1. Download(i, "dropped") /\ passErr'
      BY <2>2 DEF AcquireCancelled, OpenFails, RefreshCancelled, IterEnds
    <3> QED
      BY <2>1, <3>1 DEF Moves
  <2>3. CASE TransferFails(i) \/ TransferCancelled(i)
    <3>1. Download(i, "failing") /\ (passErr => passErr') /\ UNCHANGED iterOver
      BY <2>3 DEF TransferFails, TransferCancelled
    <3> QED
      BY <2>1, <3>1 DEF Moves
  <2> QED
    BY <1>2, <2>2, <2>3
<1>3. ASSUME NEW i \in Items, RefreshFails(i) \/ CountFailed(i)
      PROVE  CountsFailure(i)
  BY <1>3 DEF RefreshFails, CountFailed, CountsFailure
<1>4. ASSUME NEW i \in Items,
             \/ Receive(i) \/ SpaceOk(i) \/ SpaceGone(i) \/ UploadOk(i) \/ UploadShort(i)
             \/ UploadFails(i) \/ Clear(i) \/ Release(i)
      PROVE  Carries(i)
  <2> USE DEF Invs, OInv, Control, Typing, Fate
  <2>1. UNCHANGED <<dl, iterVars, dlBreaker, passOut, upBreaker, stop, runVars>>
    BY <1>4 DEF Receive, SpaceOk, SpaceGone, UploadOk, UploadShort, UploadFails, Clear,
                Release
  <2>2. CASE Receive(i) \/ SpaceOk(i)
    BY <2>1, <2>2 DEF Receive, SpaceOk, Carries
  <2>3. CASE SpaceGone(i) \/ UploadFails(i)
    <3>1. /\ Upload(i, "clearing") /\ ul[i] \in {"checking", "moving"}
          /\ \E e \in {"full", "err"} : upErr' = [upErr EXCEPT ![i] = e]
          /\ archived \subseteq archived' /\ short \subseteq short'
      BY <2>3 DEF SpaceGone, UploadFails
    <3>2. upErr'[i] # "none" /\ \A j \in Items \ {i} : upErr'[j] = upErr[j]
      BY <3>1
    <3> QED
      BY <2>1, <3>1, <3>2 DEF Carries
  <2>4. CASE UploadOk(i) \/ UploadShort(i)
    BY <2>1, <2>4 DEF UploadOk, UploadShort, Carries
  <2>5. CASE Clear(i) \/ Release(i)
    <3>1. /\ ul[i] \in {"clearing", "releasing"} /\ UNCHANGED <<upErr, archived, short>>
          /\ \E stage \in {"releasing", "counting"} : Upload(i, stage)
      BY <2>5 DEF Clear, Release
    <3> QED
      BY <2>1, <3>1 DEF Carries
  <2> QED
    BY <1>4, <2>2, <2>3, <2>4, <2>5
<1>5. CASE Dispatch
  BY <1>1, <1>2, <1>3, <1>5, IteratorEndsKeeps, MovesKeeps, CountsFailureKeeps DEF Dispatch
<1>6. ASSUME NEW i \in Items, DownloadWorker(i)
      PROVE  OInv'
  BY <1>1, <1>2, <1>3, <1>6, MovesKeeps, CountsFailureKeeps, SendKeeps, CountDoneKeeps,
     TripKeeps DEF DownloadWorker
<1>7. ASSUME NEW i \in Items, UploadWorker(i)
      PROVE  OInv'
  BY <1>4, <1>7, CarriesKeeps, CountUploadKeeps DEF UploadWorker
<1>8. CASE Passes
  BY <1>8, RetryKeeps, StopKeeps, WaitOverKeeps, WaitCancelledKeeps, QuietKeeps DEF Passes
<1>9. CASE Cancel \/ Returned \/ UNCHANGED vars
  BY <1>9, QuietKeeps DEF Returned
<1> QED
  BY <1>5, <1>6, <1>7, <1>8, <1>9 DEF Next

(* The invariant everything below rests on.                                *)
THEOREM OutcomesAreInductive == Spec => [](IInv /\ OInv)
<1>1. IInv => Flags /\ Control
  BY DEF IInv
<1>2. IInv /\ OInv /\ [Next]_vars => OInv'
  BY <1>1, OutcomeStep DEF Invs
<1> QED
  BY <1>2, OutcomeInit, Inductive, PTL DEF Spec

(* Run leaves nothing in staging (finish, clear) but what could not be     *)
(* removed, whatever failed on the way.                                    *)
THEOREM StagingIsEmptied == Spec => []StagingEmptied
<1>1. IInv /\ OInv => StagingEmptied
  <2> SUFFICES ASSUME IInv, OInv, phase = "done", NEW i \in part \cup final
               PROVE  i \in stuck
    BY DEF StagingEmptied
  <2>1. i \in Items /\ ul[i] \in {"none", "ended"} /\ dl[i] \in AtRest \cup {"todo"}
    BY DEF IInv, OInv, Control, Typing, Quiet, Drained
  <2> QED
    BY <2>1 DEF IInv, Control, Files
<1> QED
  BY <1>1, OutcomesAreInductive, PTL

(* Of a run that reports no upload failure, everything fetched is on the   *)
(* remote, whole if the uploads were confirmed: no item is lost between    *)
(* the two legs.                                                           *)
THEOREM FetchedItemsArrive == Spec => []FetchedIsArchived
<1>1. IInv /\ OInv => FetchedIsArchived
  <2> SUFFICES ASSUME IInv, OInv, phase = "done", LostUploads = {},
                      NEW i \in Items, outcome[i] = "ok"
               PROVE  Arrived(i)
    BY DEF FetchedIsArchived
  <2>1. ul[i] = "ended" /\ upErr[i] = "none"
    BY DEF OInv, Fate, Drained, LostUploads
  <2> QED
    BY <2>1 DEF OInv, Fate
<1> QED
  BY <1>1, OutcomesAreInductive, PTL

(* ErrSourceFailing is reported of a run whose last pass failed so often.  *)
THEOREM SourceErrorsAreCurrent == Spec => []SourceErrorIsCurrent
<1>1. IInv /\ OInv => SourceErrorIsCurrent
  <2> SUFFICES ASSUME IInv, OInv, srcErr
               PROVE  Cardinality({i \in Items : outcome[i] = "failed"}) >= MaxFailures
    BY DEF SourceErrorIsCurrent
  <2> DEFINE listed == {i \in Items : outcome[i] = "failed"}
  <2>1. FailedItems \subseteq listed /\ Cardinality(FailedItems) >= MaxFailures
    BY DEF OInv, Streak, FailedItems
  <2>2. IsFiniteSet(listed)
    BY ItemsAssumption, FS_Subset
  <2> HIDE DEF listed
  <2>3. /\ Cardinality(FailedItems) <= Cardinality(listed)
        /\ Cardinality(FailedItems) \in Nat /\ Cardinality(listed) \in Nat
    BY <2>1, <2>2, FS_Subset, FS_CardinalityType, FailedItemsCount
  <2> QED
    BY <2>1, <2>3, OptionsAssumption DEF listed
<1> QED
  BY <1>1, OutcomesAreInductive, PTL

-----------------------------------------------------------------------------
(***************************************************************************)
(* The totals against the list of outcomes                                 *)
(***************************************************************************)
Listed == {i \in Items : outcome[i] = "failed"}

(* The failures counted are those of the pass, and of a finished run those *)
(* of its last one, unless they were rolled back for a pass that was       *)
(* cancelled.                                                              *)
Counted ==
    /\ phase = "pass" => stats.failed = Cardinality(FailedItems)
    /\ phase = "wait" => stats.failed = 0
    /\ phase \in {"drain", "done"} =>
         stats.failed = Cardinality(FailedItems) \/ (stats.failed = 0 /\ dlErr)

(* With a list too short to trip the breaker early, an item listed as      *)
(* failed is in the hands of the pass that is running, or failed in the    *)
(* one that is over.                                                       *)
Retried ==
    MaxFailures >= Cardinality(Items) =>
        /\ phase = "pass" => \A i \in Listed : dl[i] # "idle"
        /\ phase = "wait" => Listed \subseteq FailedItems
        /\ phase \in {"drain", "done"} /\ ~dlErr /\ ~srcErr /\ ~upTripped
           => Listed \subseteq FailedItems

(* What keeps Run from trying a failed item again.                         *)
GaveUp == attempt = Attempts \/ passErr \/ Skipped # {} \/ cancelled \/ upTripped

Reasons ==
    MaxFailures >= Cardinality(Items) /\ phase \in {"drain", "done"} /\ Listed # {} => GaveUp

(* The first pass is over the whole list, however long it is.              *)
FirstPass ==
    attempt = 1 =>
        /\ phase = "pass" => \A i \in Items : dl[i] # "idle"
        /\ phase \in {"drain", "done"} /\ ~dlErr /\ ~srcErr /\ LostUploads = {}
           => \A i \in Items : outcome[i] # "none"

CInv == Counted /\ Retried /\ Reasons /\ FirstPass

(* A step that takes back no reason to give up.                            *)
Advancing ==
    /\ UNCHANGED attempt
    /\ LostUploads \subseteq LostUploads'
    /\ Skipped \subseteq Skipped'
    /\ (passErr => passErr') /\ (cancelled => cancelled')

(* A step that counts no failure and ends no pass.                         *)
Bystanding ==
    /\ Advancing
    /\ UNCHANGED <<outcome, dlErr, srcErr>>
    /\ FailedItems' = FailedItems
    /\ phase' = phase \/ (phase = "drain" /\ phase' = "done")
    /\ stats'.failed = stats.failed
    /\ upTripped => upTripped'
    /\ \A i \in Items : dl'[i] = "idle" => dl[i] = "idle"

LEMMA BystandingKeeps ==
    ASSUME Invs, CInv, Bystanding
    PROVE  CInv'
<1>1. FailedItems' = FailedItems /\ Listed' = Listed
  BY DEF Bystanding, Listed
<1>2. Counted'
  BY <1>1 DEF CInv, Counted, Bystanding
<1>3. Retried'
  BY <1>1 DEF CInv, Retried, Bystanding, Listed
<1>4. Reasons' /\ FirstPass'
  BY <1>1 DEF CInv, Reasons, GaveUp, FirstPass, Bystanding, Advancing
<1> QED
  BY <1>2, <1>3, <1>4 DEF CInv

LEMMA FailureIsCounted ==
    ASSUME Invs, CInv, NEW i \in Items, CountsFailure(i), stats'.failed = stats.failed + 1
    PROVE  CInv'
<1> USE DEF Invs, Control, Typing
<1>1. /\ passOut' = [passOut EXCEPT ![i] = "failed"] /\ passOut[i] # "failed"
      /\ phase = "pass"
  BY DEF CountsFailure, RecordFailure, Legs, Quiet
<1>2. UNCHANGED <<phase, outcome, dlErr, srcErr, upTripped>>
  BY DEF CountsFailure, runVars, upBreaker
<1>3. Cardinality(FailedItems)' = Cardinality(FailedItems) + 1
  BY <1>1, CountOfFailed
<1>4. \A j \in Items : dl'[j] = "idle" => dl[j] = "idle"
  BY DEF CountsFailure, Download
<1>5. UNCHANGED attempt
  BY DEF CountsFailure, runVars
<1> QED
  BY <1>1, <1>2, <1>3, <1>4, <1>5 DEF CInv, Counted, Retried, Listed, Reasons, FirstPass

LEMMA PassLeavesNoFailure ==
    ASSUME Invs, CInv, MaxFailures >= Cardinality(Items), PassOver, ~PassFailed, ~upTripped,
           MergeOutcomes
    PROVE  Listed' \subseteq FailedItems
<1> USE DEF Invs, OInv, Control, Typing
<1>1. SUFFICES ASSUME NEW i \in Items, outcome'[i] = "failed"
               PROVE  passOut[i] = "failed"
  BY DEF Listed, FailedItems
<1>2. CASE passOut[i] # "none"
  BY <1>1, <1>2 DEF MergeOutcomes
<1>3. CASE passOut[i] = "none"
  <2>1. i \in Listed /\ phase = "pass"
    BY <1>1, <1>3 DEF MergeOutcomes, Listed, PassOver
  <2>2. dl[i] = "ended"
    BY <2>1, PassReachedAll DEF CInv, Retried
  <2> QED
    BY <1>3, <2>2 DEF Ends
<1> QED
  BY <1>2, <1>3

LEMMA PassLoopCounts ==
    ASSUME Invs, CInv, Retry \/ Stop \/ WaitOver \/ WaitCancelled
    PROVE  CInv'
<1> USE DEF Invs, Control, Typing, iterVars, dlBreaker, upBreaker, runVars
<1>1. CASE Retry
  <2>1. /\ phase = "pass" /\ phase' = "wait" /\ PassOver /\ ~PassFailed /\ ~upTripped
        /\ MergeOutcomes /\ stats'.failed = stats.failed - Cardinality(FailedItems)
        /\ FailedItems' = FailedItems
    BY <1>1 DEF Retry, PassOver, WorthRetrying, Rollback, FailedItems
  <2>2. stats'.failed = 0
    BY <2>1, FailedItemsCount DEF CInv, Counted
  <2> QED
    BY <2>1, <2>2, PassLeavesNoFailure DEF CInv, Counted, Retried, Reasons, FirstPass
<1>2. CASE Stop
  <2>1. /\ phase = "pass" /\ phase' = "drain" /\ PassOver /\ MergeOutcomes
        /\ dlErr' = (dlErr \/ PassFailed)
        /\ FailedItems' = FailedItems /\ UNCHANGED <<stats, upTripped>>
    BY <1>2 DEF Stop, PassOver, FailedItems
  <2>2. Counted' /\ Retried'
    BY <2>1, PassLeavesNoFailure DEF CInv, Counted, Retried
  <2>3. Reasons'
    <3> SUFFICES ASSUME MaxFailures >= Cardinality(Items), Listed' # {}, ~GaveUp
                 PROVE  FALSE
      BY <1>2 DEF Stop, Reasons, GaveUp, Skipped
    <3>1. ~passErr /\ Skipped = {} /\ ~upTripped /\ ~cancelled /\ attempt < Attempts
      BY OptionsAssumption DEF GaveUp
    <3>2. FailedItems = {}
      BY <1>2, <3>1 DEF Stop, WorthRetrying, PassFailed
    <3>3. Listed' \subseteq FailedItems
      BY <2>1, <3>1, PassLeavesNoFailure DEF PassFailed
    <3> QED
      BY <3>2, <3>3
  <2>4. FirstPass'
    <3> SUFFICES ASSUME attempt = 1, ~dlErr', ~srcErr', LostUploads' = {}
                 PROVE  \A i \in Items : outcome'[i] # "none"
      BY <1>2, <2>1 DEF Stop, FirstPass
    <3>1. ~PassFailed /\ ~dlTripped /\ LostUploads = {}
      BY <1>2 DEF Stop, LostUploads
    <3>2. \A i \in Items : dl[i] \in {"idle", "ended"}
      BY <2>1, <3>1, PassReachedAll DEF OInv, Ends
    <3>3. \A i \in Items : passOut[i] # "none"
      BY <2>1, <3>2 DEF OInv, Ends, CInv, FirstPass
    <3> QED
      BY <2>1, <3>3 DEF MergeOutcomes
  <2> QED
    BY <2>2, <2>3, <2>4 DEF CInv
<1>3. CASE WaitOver
  <2>1. /\ phase = "wait" /\ phase' = "pass" /\ UNCHANGED <<outcome, stats>>
        /\ dl' = [i \in Items |-> IF i \in FailedItems THEN "todo" ELSE "idle"]
        /\ passOut' = [i \in Items |-> "none"]
    BY <1>3 DEF WaitOver, NewPass
  <2>3. attempt' # 1
    BY <1>3 DEF WaitOver
  <2>2. FailedItems' = {} /\ Listed' = Listed
    BY <2>1 DEF FailedItems, Listed
  <2> QED
    BY <2>1, <2>2, <2>3, FS_EmptySet DEF CInv, Counted, Retried, Listed, Reasons, FirstPass
<1>4. CASE WaitCancelled
  BY <1>4 DEF WaitCancelled, CInv, Counted, Retried, Reasons, GaveUp, FirstPass
<1> QED
  BY <1>1, <1>2, <1>3, <1>4

LEMMA CountingStep ==
    ASSUME Invs, CInv, [Next]_vars
    PROVE  CInv'
<1> USE DEF iterVars, dlBreaker, upBreaker, disk, runVars
<1>1. ASSUME NEW i \in Items, RefreshFails(i) \/ CountFailed(i)
      PROVE  CInv'
  <2>1. CountsFailure(i) /\ stats'.failed = stats.failed + 1
    BY <1>1 DEF RefreshFails, CountFailed, CountsFailure, Invs, Control, Typing
  <2> QED
    BY <2>1, FailureIsCounted
<1>2. ASSUME NextStopped \/ NextCancelled \/ NextExhausted \/ NextWalkFails
      PROVE  Bystanding
  <2>1. UNCHANGED <<dl, ul, upErr, passOut, runVars, stats, upTripped, cancelled>>
    BY <1>2 DEF NextStopped, NextCancelled, NextExhausted, NextWalkFails
  <2>2. passErr => passErr'
    BY <1>2 DEF NextStopped, NextCancelled, NextExhausted, NextWalkFails, IterEnds
  <2> QED
    BY <2>1, <2>2 DEF Bystanding, Advancing, FailedItems, LostUploads, Skipped
<1>3. ASSUME NEW i \in Items,
             \/ NextUnsafe(i) \/ NextPulls(i) \/ Acquire(i) \/ AcquireCancelled(i)
             \/ Open(i) \/ OpenFails(i) \/ RefreshCancelled(i) \/ RefreshGone(i)
      PROVE  Bystanding
  <2>1. UNCHANGED <<ul, upErr, passOut, runVars, stats, upTripped, cancelled>>
    BY <1>3 DEF NextUnsafe, NextPulls, Acquire, AcquireCancelled, Open, OpenFails,
                RefreshCancelled, RefreshGone
  <2>3. dl[i] # "skipped"
    BY <1>3 DEF NextUnsafe, NextPulls, Acquire, AcquireCancelled, Open, OpenFails,
                RefreshCancelled, RefreshGone
  <2>4. passErr => passErr'
    <3>1. (UNCHANGED passErr) \/ passErr'
      BY <1>3 DEF NextUnsafe, NextPulls, Acquire, AcquireCancelled, Open, OpenFails,
                  RefreshCancelled, RefreshGone, IterEnds
    <3> QED
      BY <3>1
  <2>2. \E stage \in DlStages \ {"idle"} : Download(i, stage)
    BY <1>3 DEF NextUnsafe, NextPulls, Acquire, AcquireCancelled, Open, OpenFails,
                RefreshCancelled, RefreshGone
  <2> QED
    BY <2>1, <2>2, <2>3, <2>4 DEF Bystanding, Advancing, FailedItems, LostUploads, Skipped,
                                  Download, Invs, Control, Typing
<1>4. ASSUME NEW i \in Items,
             \/ StartTransfer(i) \/ Promote(i) \/ TransferFails(i) \/ TransferCancelled(i)
             \/ OnFailed(i) \/ Send(i) \/ Trip(i)
      PROVE  Bystanding
  <2>1. /\ UNCHANGED <<upErr, passOut, runVars, upTripped, cancelled>>
        /\ stats'.failed = stats.failed
    BY <1>4 DEF StartTransfer, Promote, TransferFails, TransferCancelled, OnFailed, Send,
                Trip, Invs, Control, Typing
  <2>2. \E stage \in DlStages \ {"idle"} : Download(i, stage)
    BY <1>4 DEF StartTransfer, Promote, TransferFails, TransferCancelled, OnFailed, Send, Trip
  <2>3. dl[i] # "skipped" /\ (passErr => passErr')
    BY <1>4 DEF StartTransfer, Promote, TransferFails, TransferCancelled, OnFailed, Send, Trip,
                iterVars
  <2>4. \A j \in Items : ul[j] = "ended" => ul'[j] = "ended"
    BY <1>4 DEF StartTransfer, Promote, TransferFails, TransferCancelled, OnFailed, Send, Trip,
                Upload, Invs, Control, Typing, Legs
  <2> QED
    BY <2>1, <2>2, <2>3, <2>4 DEF Bystanding, Advancing, FailedItems, LostUploads, Skipped,
                                  Download, Invs, Control, Typing
<1>5. ASSUME NEW i \in Items, CountDone(i)
      PROVE  Bystanding
  <2> USE DEF Invs, Control, Typing
  <2>1. /\ dl[i] = "sent" /\ dl' = [dl EXCEPT ![i] = "ended"]
        /\ passOut' = [passOut EXCEPT ![i] = "ok"]
        /\ UNCHANGED <<ul, upErr, passErr, runVars, upTripped, cancelled>>
        /\ stats'.failed = stats.failed
    BY <1>5 DEF CountDone, Download, iterVars
  <2>2. FailedItems' = FailedItems
    BY <2>1 DEF Legs, FailedItems
  <2> QED
    BY <2>1, <2>2 DEF Bystanding, Advancing, LostUploads, Skipped
<1>6. ASSUME NEW i \in Items, UploadWorker(i)
      PROVE  Bystanding
  <2>1. /\ UNCHANGED <<dl, passErr, passOut, runVars, stats, cancelled>>
        /\ upTripped => upTripped'
    BY <1>6 DEF UploadWorker, Receive, SpaceOk, SpaceGone, UploadOk, UploadShort, UploadFails,
                Clear, Release, CountUpload, iterVars
  <2>2. \A j \in LostUploads : ul'[j] = "ended" /\ upErr'[j] = upErr[j]
    BY <1>6 DEF UploadWorker, Receive, SpaceOk, SpaceGone, UploadOk, UploadShort, UploadFails,
                Clear, Release, CountUpload, Upload, LostUploads, Invs, Control, Typing
  <2> QED
    BY <2>1, <2>2 DEF Bystanding, Advancing, FailedItems, LostUploads, Skipped
<1>7. ASSUME Finish \/ Cancel \/ UNCHANGED vars
      PROVE  Bystanding
  <2>1. /\ UNCHANGED <<dl, ul, upErr, passErr, passOut, attempt, outcome, dlErr, srcErr, stats,
                       upTripped>>
        /\ cancelled => cancelled'
        /\ phase' = phase \/ (phase = "drain" /\ phase' = "done")
    BY <1>7 DEF Finish, Cancel, vars
  <2> QED
    BY <2>1 DEF Bystanding, Advancing, FailedItems, LostUploads, Skipped
<1>8. CASE Dispatch
  BY <1>1, <1>2, <1>3, <1>8, BystandingKeeps DEF Dispatch
<1>9. ASSUME NEW i \in Items, DownloadWorker(i)
      PROVE  CInv'
  BY <1>1, <1>4, <1>5, <1>9, BystandingKeeps DEF DownloadWorker
<1>10. CASE Passes
  BY <1>7, <1>10, BystandingKeeps, PassLoopCounts DEF Passes
<1> QED
  BY <1>6, <1>7, <1>8, <1>9, <1>10, BystandingKeeps DEF Next, Returned

THEOREM CountsAreInductive == Spec => [](IInv /\ OInv /\ CInv)
<1>1. Init => CInv
  <2> SUFFICES ASSUME Init PROVE CInv
    OBVIOUS
  <2>1. FailedItems = {} /\ Listed = {}
    BY DEF Init, FailedItems, Listed
  <2> QED
    BY <2>1, FS_EmptySet DEF Init, CInv, Counted, Retried, Reasons, FirstPass
<1>2. IInv /\ OInv /\ CInv /\ [Next]_vars => CInv'
  BY CountingStep DEF IInv, Invs
<1> QED
  BY <1>1, <1>2, OutcomesAreInductive, PTL DEF Spec

(* rollback keeps the totals and the list of outcomes together: a finished *)
(* run counts no failure it does not list, and counts all it lists unless  *)
(* it says it was cut short, or its list is longer than its breaker.       *)
THEOREM FailuresAreCounted == Spec => []FailuresCounted
<1>1. IInv /\ OInv /\ CInv => FailuresCounted
  <2> SUFFICES ASSUME IInv, OInv, CInv, phase = "done"
               PROVE  /\ stats.failed <= Cardinality(Listed)
                      /\ /\ MaxFailures >= Cardinality(Items)
                         /\ stats.failed < Cardinality(Listed)
                         => dlErr \/ srcErr \/ upTripped
    BY DEF FailuresCounted, Listed
  <2>1. FailedItems \subseteq Listed /\ IsFiniteSet(Listed)
    <3>1. FailedItems \subseteq Listed
      BY DEF OInv, Streak, FailedItems, Listed
    <3>2. Listed \in SUBSET Items
      BY DEF Listed
    <3> QED
      BY <3>1, <3>2, ItemsAssumption, FS_Subset
  <2>2. /\ Cardinality(FailedItems) <= Cardinality(Listed)
        /\ Cardinality(FailedItems) \in Nat /\ Cardinality(Listed) \in Nat
    BY <2>1, FS_Subset, FS_CardinalityType, FailedItemsCount
  <2>3. stats.failed = Cardinality(FailedItems) \/ (stats.failed = 0 /\ dlErr)
    BY DEF CInv, Counted
  <2>4. ASSUME MaxFailures >= Cardinality(Items), ~dlErr, ~srcErr, ~upTripped
        PROVE  Listed = FailedItems
    BY <2>1, <2>4 DEF CInv, Retried
  <2> QED
    BY <2>2, <2>3, <2>4
<1> QED
  BY <1>1, CountsAreInductive, PTL

(* A run that returns no error and lists no failure has the whole of its   *)
(* list on the remote: the one it may be silent about is a retry pass the  *)
(* download breaker cut short.                                             *)
THEOREM CleanRunsArchive == Spec => []CleanMeansArchived
<1>1. IInv /\ OInv /\ CInv => CleanMeansArchived
  <2> SUFFICES ASSUME IInv, OInv, CInv, CleanResult,
                      attempt = 1 \/ MaxFailures >= Cardinality(Items)
               PROVE  \A i \in Items : Arrived(i)
    BY DEF CleanMeansArchived
  <2>1. \A i \in Items : outcome[i] = "ok"
    BY DEF OInv, Covered, CInv, FirstPass, CleanResult, IInv, Control, Typing
  <2>2. \A i \in Items : ul[i] = "ended" /\ upErr[i] = "none"
    BY <2>1 DEF OInv, Fate, Drained, LostUploads, CleanResult
  <2> QED
    BY <2>2 DEF OInv, Fate
<1> QED
  BY <1>1, CountsAreInductive, PTL

(* A run whose breaker cannot cut a pass short lists a failed download     *)
(* only after every pass there is, or for one of the reasons named.        *)
THEOREM FailuresHaveReasons == Spec => []FailedForAReason
<1>1. CInv => FailedForAReason
  BY DEF CInv, Reasons, GaveUp, Listed, FailedForAReason
<1> QED
  BY <1>1, CountsAreInductive, PTL
=============================================================================
