--------------------------- MODULE PipelineProofs ---------------------------
(***************************************************************************)
(* Proofs about Pipeline for every set of items, every budget and every    *)
(* choice of the options.                                                  *)
(***************************************************************************)
EXTENDS Pipeline, FiniteSetTheorems, TLAPS

-----------------------------------------------------------------------------
(***************************************************************************)
(* The weight of a set of items.                                           *)
(***************************************************************************)
(* An item has as many (item, byte) pairs as bytes.                        *)
LEMMA ItemBytesCount ==
  ASSUME NEW i \in Items
  PROVE  IsFiniteSet(ItemBytes(i)) /\ Cardinality(ItemBytes(i)) = Size[i]
<1>1. Size[i] \in Nat
  BY SizeAssumption
<1>2. IsFiniteSet(1 .. Size[i]) /\ Cardinality(1 .. Size[i]) = Size[i]
  BY <1>1, FS_Interval
<1>3. IsFiniteSet({i}) /\ Cardinality({i}) = 1
  BY FS_Singleton
<1>4. Cardinality({i} \X (1 .. Size[i])) = 1 * Size[i]
  BY <1>2, <1>3, FS_Product
<1>5. IsFiniteSet({i} \X (1 .. Size[i]))
  BY <1>2, <1>3, FS_Product
<1> QED
  BY <1>1, <1>4, <1>5 DEF ItemBytes

(* A set of items has finitely many bytes.                                 *)
LEMMA BytesOfFinite ==
  ASSUME NEW S \in SUBSET Items
  PROVE  IsFiniteSet(BytesOf(S))
<1>1. IsFiniteSet(S)
  BY ItemsAssumption, FS_Subset
<1> DEFINE K == {ItemBytes(i) : i \in S}
<1> DEFINE f == [i \in S |-> ItemBytes(i)]
<1>a. f \in Surjection(S, K)
  BY DEF Surjection
<1>2. IsFiniteSet(K)
  BY <1>1, <1>a, FS_Surjection
<1>3. \A X \in K : IsFiniteSet(X)
  BY ItemBytesCount
<1>4. IsFiniteSet(UNION K)
  BY <1>2, <1>3, FS_UNION
<1> QED
  BY <1>4 DEF BytesOf

(* So its weight is a natural number.                                      *)
LEMMA BytesType ==
  ASSUME NEW S \in SUBSET Items
  PROVE  Bytes(S) \in Nat
BY BytesOfFinite, FS_CardinalityType DEF Bytes

(* One more item weighs its size more.                                     *)
LEMMA BytesAdd ==
  ASSUME NEW S \in SUBSET Items, NEW i \in Items, i \notin S
  PROVE  Bytes(S \cup {i}) = Bytes(S) + Size[i]
<1>1. BytesOf(S \cup {i}) = BytesOf(S) \cup ItemBytes(i)
  BY DEF BytesOf
<1>2. BytesOf(S) \cap ItemBytes(i) = {}
  BY DEF BytesOf, ItemBytes
<1>3. Cardinality(BytesOf(S) \cap ItemBytes(i)) = 0
  BY <1>2, FS_EmptySet
<1>4. IsFiniteSet(BytesOf(S)) /\ IsFiniteSet(ItemBytes(i))
  BY BytesOfFinite, ItemBytesCount
<1>5. Cardinality(BytesOf(S) \cup ItemBytes(i))
        = Cardinality(BytesOf(S)) + Cardinality(ItemBytes(i)) - 0
  BY <1>3, <1>4, FS_Union
<1>6. Bytes(S) \in Nat /\ Size[i] \in Nat
  BY BytesType, SizeAssumption
<1>7. Bytes(S \cup {i}) = Bytes(S) + Size[i] - 0
  BY <1>1, <1>5, ItemBytesCount DEF Bytes
<1> QED
  BY <1>6, <1>7

(* One item less weighs its size less.                                     *)
LEMMA BytesRemove ==
  ASSUME NEW S \in SUBSET Items, NEW i \in S
  PROVE  Bytes(S \ {i}) = Bytes(S) - Size[i]
<1>1. S \ {i} \in SUBSET Items /\ i \in Items
  OBVIOUS
<1>2. Bytes((S \ {i}) \cup {i}) = Bytes(S \ {i}) + Size[i]
  BY <1>1, BytesAdd
<1>3. (S \ {i}) \cup {i} = S
  OBVIOUS
<1>4. Bytes(S \ {i}) \in Nat /\ Size[i] \in Nat
  BY <1>1, BytesType, SizeAssumption
<1>5. Bytes(S) = Bytes(S \ {i}) + Size[i]
  BY <1>2, <1>3
<1> QED
  BY <1>4, <1>5

(* A larger set weighs no less.                                            *)
LEMMA BytesMonotone ==
  ASSUME NEW T \in SUBSET Items, NEW S \in SUBSET T
  PROVE  Bytes(S) <= Bytes(T)
<1>1. BytesOf(S) \in SUBSET BytesOf(T)
  BY DEF BytesOf
<1> QED
  BY <1>1, BytesOfFinite, FS_Subset DEF Bytes

LEMMA BytesEmpty == Bytes({}) = 0
<1>1. BytesOf({}) = {}
  BY DEF BytesOf
<1> QED
  BY <1>1, FS_EmptySet DEF Bytes
-----------------------------------------------------------------------------
(***************************************************************************)
(* The control invariant: types, the two legs of an item, the pass loop    *)
(* against its workers, the files on disk, the breaker against its flag.   *)
(***************************************************************************)
Flags ==
    /\ iterOver \in BOOLEAN /\ passErr \in BOOLEAN /\ dlTripped \in BOOLEAN
    /\ upTripped \in BOOLEAN /\ guardFailed \in BOOLEAN /\ stop \in BOOLEAN
    /\ dlErr \in BOOLEAN /\ srcErr \in BOOLEAN /\ cancelled \in BOOLEAN

(* The rest of TypeOK, with integers where it says natural numbers: that   *)
(* they are not negative follows from the balances proved further on.      *)
Typing ==
    /\ dl \in [Items -> DlStages]
    /\ ul \in [Items -> UlStages]
    /\ dlStreak \in Nat
    /\ passOut \in [Items -> Verdicts]
    /\ upErr \in [Items -> {"none", "err", "full"}]
    /\ upStreak \in Nat
    /\ used \in Int
    /\ part \subseteq Items /\ final \subseteq Items /\ stuck \subseteq Items
    /\ archived \subseteq Items /\ short \subseteq Items
    /\ phase \in {"pass", "wait", "drain", "done"}
    /\ attempt \in 1 .. Attempts
    /\ phase = "wait" => attempt < Attempts
    /\ outcome \in [Items -> Verdicts]
    /\ stats \in [started : Int, done : Int, failed : Int]

Uncounted == {"todo", "pulled", "reserved", "opened", "running", "promoted",
              "failing", "sent", "released"}

(* Once the upload leg has an item, the download leg is past it for good.  *)
Legs ==
    \A i \in Items :
        /\ ul[i] # "none" => dl[i] \in {"sent", "ended", "idle"} /\ passOut[i] # "failed"
        /\ dl[i] \in Uncounted => passOut[i] = "none"

(* Outside a pass the download leg is at rest.                             *)
Quiet ==
    phase # "pass" => \A i \in Items : dl[i] \in AtRest \cup {"todo"}

(* Whose files are on disk.                                                *)
Files ==
    \A i \in Items :
        /\ i \in part => dl[i] \in {"opened", "running"} \/ i \in stuck
        /\ i \in final =>
              \/ dl[i] = "promoted"
              \/ ul[i] \in {"queued", "checking", "moving", "clearing"}
              \/ ul[i] # "none" /\ i \in stuck

(* A destination that is down has set the stop flag, and nothing clears it.*)
TripStops == upTripped => stop

Control == Typing /\ Legs /\ Quiet /\ Files /\ TripStops

USE DEF DlStages, UlStages, InHand, InWorker, InUploader, AtRest, Uncounted, Verdicts

LEMMA FailedItemsCount == IsFiniteSet(FailedItems) /\ Cardinality(FailedItems) \in Nat
<1>1. FailedItems \in SUBSET Items
  BY DEF FailedItems
<1> QED
  BY <1>1, ItemsAssumption, FS_Subset, FS_CardinalityType

LEMMA FlagsInit == Init => Flags
BY DEF Init, Flags

LEMMA ControlInit == Init => Control
BY OptionsAssumption DEF Init, Control, Typing, Legs, Quiet, Files, TripStops

LEMMA ControlStep ==
  ASSUME Control
  PROVE  [Next]_vars => Control'
<1>1. CASE NextStopped
  BY <1>1 DEF Control, Typing, Legs, Quiet, Files, TripStops, vars, iterVars,
        dlBreaker, upBreaker, disk, runVars, NextStopped, IterEnds, InNext,
        Dispatching
<1>2. CASE NextCancelled
  BY <1>2 DEF Control, Typing, Legs, Quiet, Files, TripStops, vars, iterVars,
        dlBreaker, upBreaker, disk, runVars, NextCancelled, IterEnds, InNext,
        Dispatching
<1>3. CASE NextExhausted
  BY <1>3 DEF Control, Typing, Legs, Quiet, Files, TripStops, vars, iterVars,
        dlBreaker, upBreaker, disk, runVars, NextExhausted, IterEnds, InNext,
        Dispatching
<1>4. CASE NextWalkFails
  BY <1>4 DEF Control, Typing, Legs, Quiet, Files, TripStops, vars, iterVars,
        dlBreaker, upBreaker, disk, runVars, NextWalkFails, IterEnds, InNext,
        Dispatching
<1>5. ASSUME NEW i \in Items, NextUnsafe(i)
      PROVE  Control'
  BY <1>5 DEF Control, Typing, Legs, Quiet, Files, TripStops, vars, iterVars,
        dlBreaker, upBreaker, disk, runVars, NextUnsafe, InNext, Dispatching,
        Download
<1>6. ASSUME NEW i \in Items, NextPulls(i)
      PROVE  Control'
  BY <1>6 DEF Control, Typing, Legs, Quiet, Files, TripStops, vars, iterVars,
        dlBreaker, upBreaker, disk, runVars, NextPulls, InNext, Dispatching,
        Download
<1>7. ASSUME NEW i \in Items, Acquire(i)
      PROVE  Control'
  BY <1>7 DEF Control, Typing, Legs, Quiet, Files, TripStops, vars, iterVars,
        dlBreaker, upBreaker, disk, runVars, Acquire, Download
<1>8. ASSUME NEW i \in Items, AcquireCancelled(i)
      PROVE  Control'
  BY <1>8 DEF Control, Typing, Legs, Quiet, Files, TripStops, vars, iterVars,
        dlBreaker, upBreaker, disk, runVars, AcquireCancelled, Download,
        IterEnds
<1>9. ASSUME NEW i \in Items, Open(i)
      PROVE  Control'
  BY <1>9 DEF Control, Typing, Legs, Quiet, Files, TripStops, vars, iterVars,
        dlBreaker, upBreaker, disk, runVars, Open, Download
<1>10. ASSUME NEW i \in Items, OpenFails(i)
      PROVE  Control'
  BY <1>10 DEF Control, Typing, Legs, Quiet, Files, TripStops, vars, iterVars,
        dlBreaker, upBreaker, disk, runVars, OpenFails, Download, IterEnds,
        GiveBack
<1>11. ASSUME NEW i \in Items, RefreshCancelled(i)
      PROVE  Control'
  BY <1>11 DEF Control, Typing, Legs, Quiet, Files, TripStops, vars, iterVars,
        dlBreaker, upBreaker, disk, runVars, RefreshCancelled, Download,
        IterEnds, GiveBack
<1>12. ASSUME NEW i \in Items, RefreshGone(i)
      PROVE  Control'
  BY <1>12 DEF Control, Typing, Legs, Quiet, Files, TripStops, vars, iterVars,
        dlBreaker, upBreaker, disk, runVars, RefreshGone, Download, GiveBack
<1>13. ASSUME NEW i \in Items, RefreshFails(i)
      PROVE  Control'
  <2>1. Typing'
    <3>1. stats' \in [started : Int, done : Int, failed : Int]
      BY <1>13 DEF Control, Typing, RefreshFails
    <3> QED
      BY <3>1, <1>13 DEF Control, Typing, Legs, Quiet, Files, TripStops, vars,
        iterVars, dlBreaker, upBreaker, disk, runVars, RefreshFails, Download,
        GiveBack, RecordFailure
  <2>2. Legs'
    BY <1>13 DEF Control, Typing, Legs, Quiet, Files, TripStops, vars,
        iterVars, dlBreaker, upBreaker, disk, runVars, RefreshFails, Download,
        GiveBack, RecordFailure
  <2>3. Quiet'
    BY <1>13 DEF Control, Typing, Legs, Quiet, Files, TripStops, vars,
        iterVars, dlBreaker, upBreaker, disk, runVars, RefreshFails, Download,
        GiveBack, RecordFailure
  <2>4. Files'
    BY <1>13 DEF Control, Typing, Legs, Quiet, Files, TripStops, vars,
        iterVars, dlBreaker, upBreaker, disk, runVars, RefreshFails, Download,
        GiveBack, RecordFailure
  <2>5. TripStops'
    BY <1>13 DEF Control, Typing, Legs, Quiet, Files, TripStops, vars,
        iterVars, dlBreaker, upBreaker, disk, runVars, RefreshFails, Download,
        GiveBack, RecordFailure
  <2> QED
    BY <2>1, <2>2, <2>3, <2>4, <2>5 DEF Control
<1>14. ASSUME NEW i \in Items, StartTransfer(i)
      PROVE  Control'
  BY <1>14 DEF Control, Typing, Legs, Quiet, Files, TripStops, vars, iterVars,
        dlBreaker, upBreaker, disk, runVars, StartTransfer, Download
<1>15. ASSUME NEW i \in Items, Promote(i)
      PROVE  Control'
  BY <1>15 DEF Control, Typing, Legs, Quiet, Files, TripStops, vars, iterVars,
        dlBreaker, upBreaker, disk, runVars, Promote, Download
<1>16. ASSUME NEW i \in Items, TransferFails(i)
      PROVE  Control'
  BY <1>16 DEF Control, Typing, Legs, Quiet, Files, TripStops, vars, iterVars,
        dlBreaker, upBreaker, disk, runVars, TransferFails, Download,
        RemovePart
<1>17. ASSUME NEW i \in Items, TransferCancelled(i)
      PROVE  Control'
  BY <1>17 DEF Control, Typing, Legs, Quiet, Files, TripStops, vars, iterVars,
        dlBreaker, upBreaker, disk, runVars, TransferCancelled, Download,
        RemovePart
<1>18. ASSUME NEW i \in Items, OnFailed(i)
      PROVE  Control'
  BY <1>18 DEF Control, Typing, Legs, Quiet, Files, TripStops, vars, iterVars,
        dlBreaker, upBreaker, disk, runVars, OnFailed, Download, GiveBack
<1>19. ASSUME NEW i \in Items, Send(i)
      PROVE  Control'
  BY <1>19 DEF Control, Typing, Legs, Quiet, Files, TripStops, vars, iterVars,
        dlBreaker, upBreaker, disk, runVars, Send, Download, Upload
<1>20. ASSUME NEW i \in Items, CountDone(i)
      PROVE  Control'
  BY <1>20 DEF Control, Typing, Legs, Quiet, Files, TripStops, vars, iterVars,
        dlBreaker, upBreaker, disk, runVars, CountDone, Download
<1>21. ASSUME NEW i \in Items, CountFailed(i)
      PROVE  Control'
  BY <1>21 DEF Control, Typing, Legs, Quiet, Files, TripStops, vars, iterVars,
        dlBreaker, upBreaker, disk, runVars, CountFailed, Download,
        RecordFailure
<1>22. ASSUME NEW i \in Items, Trip(i)
      PROVE  Control'
  BY <1>22 DEF Control, Typing, Legs, Quiet, Files, TripStops, vars, iterVars,
        dlBreaker, upBreaker, disk, runVars, Trip, Download
<1>23. ASSUME NEW i \in Items, Receive(i)
      PROVE  Control'
  BY <1>23 DEF Control, Typing, Legs, Quiet, Files, TripStops, vars, iterVars,
        dlBreaker, upBreaker, disk, runVars, Receive, Upload
<1>24. ASSUME NEW i \in Items, SpaceOk(i)
      PROVE  Control'
  BY <1>24 DEF Control, Typing, Legs, Quiet, Files, TripStops, vars, iterVars,
        dlBreaker, upBreaker, disk, runVars, SpaceOk, Upload
<1>25. ASSUME NEW i \in Items, SpaceGone(i)
      PROVE  Control'
  BY <1>25 DEF Control, Typing, Legs, Quiet, Files, TripStops, vars, iterVars,
        dlBreaker, upBreaker, disk, runVars, SpaceGone, Upload
<1>26. ASSUME NEW i \in Items, UploadOk(i)
      PROVE  Control'
  BY <1>26 DEF Control, Typing, Legs, Quiet, Files, TripStops, vars, iterVars,
        dlBreaker, upBreaker, disk, runVars, UploadOk, Upload
<1>38. ASSUME NEW i \in Items, UploadShort(i)
      PROVE  Control'
  BY <1>38 DEF Control, Typing, Legs, Quiet, Files, TripStops, vars, iterVars,
        dlBreaker, upBreaker, disk, runVars, UploadShort, Upload
<1>27. ASSUME NEW i \in Items, UploadFails(i)
      PROVE  Control'
  BY <1>27 DEF Control, Typing, Legs, Quiet, Files, TripStops, vars, iterVars,
        dlBreaker, upBreaker, disk, runVars, UploadFails, Upload
<1>28. ASSUME NEW i \in Items, Clear(i)
      PROVE  Control'
  BY <1>28 DEF Control, Typing, Legs, Quiet, Files, TripStops, vars, iterVars,
        dlBreaker, upBreaker, disk, runVars, Clear, Upload
<1>29. ASSUME NEW i \in Items, Release(i)
      PROVE  Control'
  BY <1>29 DEF Control, Typing, Legs, Quiet, Files, TripStops, vars, iterVars,
        dlBreaker, upBreaker, disk, runVars, Release, Upload, GiveBack
<1>30. ASSUME NEW i \in Items, CountUpload(i)
      PROVE  Control'
  <2>1. Typing'
    BY <1>30 DEF Control, Typing, Legs, Quiet, Files, TripStops, vars,
        iterVars, dlBreaker, upBreaker, disk, runVars, CountUpload, Upload
  <2>2. Legs'
    BY <1>30 DEF Control, Typing, Legs, Quiet, Files, TripStops, vars,
        iterVars, dlBreaker, upBreaker, disk, runVars, CountUpload, Upload
  <2>3. Quiet'
    BY <1>30 DEF Control, Typing, Legs, Quiet, Files, TripStops, vars,
        iterVars, dlBreaker, upBreaker, disk, runVars, CountUpload, Upload
  <2>4. Files'
    BY <1>30 DEF Control, Typing, Legs, Quiet, Files, TripStops, vars,
        iterVars, dlBreaker, upBreaker, disk, runVars, CountUpload, Upload
  <2>5. TripStops'
    BY <1>30 DEF Control, Typing, Legs, Quiet, Files, TripStops, vars,
        iterVars, dlBreaker, upBreaker, disk, runVars, CountUpload, Upload
  <2> QED
    BY <2>1, <2>2, <2>3, <2>4, <2>5 DEF Control
<1>31. CASE Retry
  <2>1. Typing'
    <3>1. stats' \in [started : Int, done : Int, failed : Int]
      BY <1>31, FailedItemsCount DEF Control, Typing, Retry, Rollback
    <3> QED
      BY <3>1, <1>31, OptionsAssumption DEF Control, Typing, Legs, Quiet,
        Files, TripStops, vars, iterVars, dlBreaker, upBreaker, disk, runVars,
        Retry, PassOver, WorthRetrying, MergeOutcomes, ClearStop, Dispatching,
        Workers
  <2>2. Legs'
    BY <1>31, OptionsAssumption DEF Control, Typing, Legs, Quiet, Files,
        TripStops, vars, iterVars, dlBreaker, upBreaker, disk, runVars, Retry,
        PassOver, WorthRetrying, MergeOutcomes, ClearStop, Rollback,
        Dispatching, Workers, FailedItems
  <2>3. Quiet'
    BY <1>31, OptionsAssumption DEF Control, Typing, Legs, Quiet, Files,
        TripStops, vars, iterVars, dlBreaker, upBreaker, disk, runVars, Retry,
        PassOver, WorthRetrying, MergeOutcomes, ClearStop, Rollback,
        Dispatching, Workers, FailedItems
  <2>4. Files'
    BY <1>31, OptionsAssumption DEF Control, Typing, Legs, Quiet, Files,
        TripStops, vars, iterVars, dlBreaker, upBreaker, disk, runVars, Retry,
        PassOver, WorthRetrying, MergeOutcomes, ClearStop, Rollback,
        Dispatching, Workers, FailedItems
  <2>5. TripStops'
    BY <1>31, OptionsAssumption DEF Control, Typing, Legs, Quiet, Files,
        TripStops, vars, iterVars, dlBreaker, upBreaker, disk, runVars, Retry,
        PassOver, WorthRetrying, MergeOutcomes, ClearStop, Rollback,
        Dispatching, Workers, FailedItems
  <2> QED
    BY <2>1, <2>2, <2>3, <2>4, <2>5 DEF Control
<1>32. CASE Stop
  <2>1. Typing'
    BY <1>32, OptionsAssumption DEF Control, Typing, Legs, Quiet, Files,
        TripStops, vars, iterVars, dlBreaker, upBreaker, disk, runVars, Stop,
        PassOver, WorthRetrying, MergeOutcomes, ClearStop, Dispatching,
        Workers
  <2>2. Legs'
    BY <1>32, OptionsAssumption DEF Control, Typing, Legs, Quiet, Files,
        TripStops, vars, iterVars, dlBreaker, upBreaker, disk, runVars, Stop,
        PassOver, WorthRetrying, MergeOutcomes, ClearStop, Dispatching,
        Workers
  <2>3. Quiet'
    BY <1>32, OptionsAssumption DEF Control, Typing, Legs, Quiet, Files,
        TripStops, vars, iterVars, dlBreaker, upBreaker, disk, runVars, Stop,
        PassOver, WorthRetrying, MergeOutcomes, ClearStop, Dispatching,
        Workers
  <2>4. Files'
    BY <1>32, OptionsAssumption DEF Control, Typing, Legs, Quiet, Files,
        TripStops, vars, iterVars, dlBreaker, upBreaker, disk, runVars, Stop,
        PassOver, WorthRetrying, MergeOutcomes, ClearStop, Dispatching,
        Workers
  <2>5. TripStops'
    BY <1>32, OptionsAssumption DEF Control, Typing, Legs, Quiet, Files,
        TripStops, vars, iterVars, dlBreaker, upBreaker, disk, runVars, Stop,
        PassOver, WorthRetrying, MergeOutcomes, ClearStop, Dispatching,
        Workers
  <2> QED
    BY <2>1, <2>2, <2>3, <2>4, <2>5 DEF Control
<1>33. CASE WaitOver
  BY <1>33, OptionsAssumption DEF Control, Typing, Legs, Quiet, Files,
        TripStops, vars, iterVars, dlBreaker, upBreaker, disk, runVars,
        WaitOver, NewPass, FreshBreaker, FailedItems
<1>34. CASE WaitCancelled
  BY <1>34 DEF Control, Typing, Legs, Quiet, Files, TripStops, vars, iterVars,
        dlBreaker, upBreaker, disk, runVars, WaitCancelled
<1>35. CASE Finish
  BY <1>35 DEF Control, Typing, Legs, Quiet, Files, TripStops, vars, iterVars,
        dlBreaker, upBreaker, disk, runVars, Finish
<1>36. CASE Cancel
  BY <1>36 DEF Control, Typing, Legs, Quiet, Files, TripStops, vars, iterVars,
        dlBreaker, upBreaker, disk, runVars, Cancel
<1>37. CASE UNCHANGED vars
  BY <1>37 DEF Control, Typing, Legs, Quiet, Files, TripStops, vars, iterVars,
        dlBreaker, upBreaker, disk, runVars
<1> QED
  BY <1>1, <1>2, <1>3, <1>4, <1>5, <1>6, <1>7, <1>8, <1>9, <1>10, <1>11,
        <1>12, <1>13, <1>14, <1>15, <1>16, <1>17, <1>18, <1>19, <1>20, <1>21,
        <1>22, <1>23, <1>24, <1>25, <1>26, <1>27, <1>28, <1>29, <1>30, <1>31,
        <1>32, <1>33, <1>34, <1>35, <1>36, <1>37, <1>38
     DEF Next, Dispatch, DownloadWorker, UploadWorker, Passes, Returned

LEMMA FlagsStep ==
  ASSUME Flags
  PROVE  [Next]_vars => Flags'
<1>1. CASE NextStopped
  BY <1>1 DEF Flags, vars, iterVars, dlBreaker, upBreaker, disk, runVars,
        NextStopped, IterEnds, InNext, Dispatching
<1>2. CASE NextCancelled
  BY <1>2 DEF Flags, vars, iterVars, dlBreaker, upBreaker, disk, runVars,
        NextCancelled, IterEnds, InNext, Dispatching
<1>3. CASE NextExhausted
  BY <1>3 DEF Flags, vars, iterVars, dlBreaker, upBreaker, disk, runVars,
        NextExhausted, IterEnds, InNext, Dispatching
<1>4. CASE NextWalkFails
  BY <1>4 DEF Flags, vars, iterVars, dlBreaker, upBreaker, disk, runVars,
        NextWalkFails, IterEnds, InNext, Dispatching
<1>5. ASSUME NEW i \in Items, NextUnsafe(i)
      PROVE  Flags'
  BY <1>5 DEF Flags, vars, iterVars, dlBreaker, upBreaker, disk, runVars,
        NextUnsafe, InNext, Dispatching, Download
<1>6. ASSUME NEW i \in Items, NextPulls(i)
      PROVE  Flags'
  BY <1>6 DEF Flags, vars, iterVars, dlBreaker, upBreaker, disk, runVars,
        NextPulls, InNext, Dispatching, Download
<1>7. ASSUME NEW i \in Items, Acquire(i)
      PROVE  Flags'
  BY <1>7 DEF Flags, vars, iterVars, dlBreaker, upBreaker, disk, runVars,
        Acquire, Download
<1>8. ASSUME NEW i \in Items, AcquireCancelled(i)
      PROVE  Flags'
  BY <1>8 DEF Flags, vars, iterVars, dlBreaker, upBreaker, disk, runVars,
        AcquireCancelled, Download, IterEnds
<1>9. ASSUME NEW i \in Items, Open(i)
      PROVE  Flags'
  BY <1>9 DEF Flags, vars, iterVars, dlBreaker, upBreaker, disk, runVars,
        Open, Download
<1>10. ASSUME NEW i \in Items, OpenFails(i)
      PROVE  Flags'
  BY <1>10 DEF Flags, vars, iterVars, dlBreaker, upBreaker, disk, runVars,
        OpenFails, Download, IterEnds, GiveBack
<1>11. ASSUME NEW i \in Items, RefreshCancelled(i)
      PROVE  Flags'
  BY <1>11 DEF Flags, vars, iterVars, dlBreaker, upBreaker, disk, runVars,
        RefreshCancelled, Download, IterEnds, GiveBack
<1>12. ASSUME NEW i \in Items, RefreshGone(i)
      PROVE  Flags'
  BY <1>12 DEF Flags, vars, iterVars, dlBreaker, upBreaker, disk, runVars,
        RefreshGone, Download, GiveBack
<1>13. ASSUME NEW i \in Items, RefreshFails(i)
      PROVE  Flags'
  BY <1>13 DEF Flags, vars, iterVars, dlBreaker, upBreaker, disk, runVars,
        RefreshFails, Download, GiveBack, RecordFailure
<1>14. ASSUME NEW i \in Items, StartTransfer(i)
      PROVE  Flags'
  BY <1>14 DEF Flags, vars, iterVars, dlBreaker, upBreaker, disk, runVars,
        StartTransfer, Download
<1>15. ASSUME NEW i \in Items, Promote(i)
      PROVE  Flags'
  BY <1>15 DEF Flags, vars, iterVars, dlBreaker, upBreaker, disk, runVars,
        Promote, Download
<1>16. ASSUME NEW i \in Items, TransferFails(i)
      PROVE  Flags'
  BY <1>16 DEF Flags, vars, iterVars, dlBreaker, upBreaker, disk, runVars,
        TransferFails, Download, RemovePart
<1>17. ASSUME NEW i \in Items, TransferCancelled(i)
      PROVE  Flags'
  BY <1>17 DEF Flags, vars, iterVars, dlBreaker, upBreaker, disk, runVars,
        TransferCancelled, Download, RemovePart
<1>18. ASSUME NEW i \in Items, OnFailed(i)
      PROVE  Flags'
  BY <1>18 DEF Flags, vars, iterVars, dlBreaker, upBreaker, disk, runVars,
        OnFailed, Download, GiveBack
<1>19. ASSUME NEW i \in Items, Send(i)
      PROVE  Flags'
  BY <1>19 DEF Flags, vars, iterVars, dlBreaker, upBreaker, disk, runVars,
        Send, Download, Upload
<1>20. ASSUME NEW i \in Items, CountDone(i)
      PROVE  Flags'
  BY <1>20 DEF Flags, vars, iterVars, dlBreaker, upBreaker, disk, runVars,
        CountDone, Download
<1>21. ASSUME NEW i \in Items, CountFailed(i)
      PROVE  Flags'
  BY <1>21 DEF Flags, vars, iterVars, dlBreaker, upBreaker, disk, runVars,
        CountFailed, Download, GiveBack, RecordFailure
<1>22. ASSUME NEW i \in Items, Trip(i)
      PROVE  Flags'
  BY <1>22 DEF Flags, vars, iterVars, dlBreaker, upBreaker, disk, runVars,
        Trip, Download
<1>23. ASSUME NEW i \in Items, Receive(i)
      PROVE  Flags'
  BY <1>23 DEF Flags, vars, iterVars, dlBreaker, upBreaker, disk, runVars,
        Receive, Upload
<1>24. ASSUME NEW i \in Items, SpaceOk(i)
      PROVE  Flags'
  BY <1>24 DEF Flags, vars, iterVars, dlBreaker, upBreaker, disk, runVars,
        SpaceOk, Upload
<1>25. ASSUME NEW i \in Items, SpaceGone(i)
      PROVE  Flags'
  BY <1>25 DEF Flags, vars, iterVars, dlBreaker, upBreaker, disk, runVars,
        SpaceGone, Upload
<1>26. ASSUME NEW i \in Items, UploadOk(i)
      PROVE  Flags'
  BY <1>26 DEF Flags, vars, iterVars, dlBreaker, upBreaker, disk, runVars,
        UploadOk, Upload
<1>38. ASSUME NEW i \in Items, UploadShort(i)
      PROVE  Flags'
  BY <1>38 DEF Flags, vars, iterVars, dlBreaker, upBreaker, disk, runVars,
        UploadShort, Upload
<1>27. ASSUME NEW i \in Items, UploadFails(i)
      PROVE  Flags'
  BY <1>27 DEF Flags, vars, iterVars, dlBreaker, upBreaker, disk, runVars,
        UploadFails, Upload
<1>28. ASSUME NEW i \in Items, Clear(i)
      PROVE  Flags'
  BY <1>28 DEF Flags, vars, iterVars, dlBreaker, upBreaker, disk, runVars,
        Clear, Upload
<1>29. ASSUME NEW i \in Items, Release(i)
      PROVE  Flags'
  BY <1>29 DEF Flags, vars, iterVars, dlBreaker, upBreaker, disk, runVars,
        Release, Upload, GiveBack
<1>30. ASSUME NEW i \in Items, CountUpload(i)
      PROVE  Flags'
  BY <1>30 DEF Flags, vars, iterVars, dlBreaker, upBreaker, disk, runVars,
        CountUpload, Upload
<1>31. CASE Retry
  BY <1>31 DEF Flags, vars, iterVars, dlBreaker, upBreaker, disk, runVars,
        Retry, MergeOutcomes, ClearStop
<1>32. CASE Stop
  BY <1>32 DEF Flags, vars, iterVars, dlBreaker, upBreaker, disk, runVars,
        Stop, MergeOutcomes, ClearStop
<1>33. CASE WaitOver
  BY <1>33 DEF Flags, vars, iterVars, dlBreaker, upBreaker, disk, runVars,
        WaitOver, NewPass, FreshBreaker
<1>34. CASE WaitCancelled
  BY <1>34 DEF Flags, vars, iterVars, dlBreaker, upBreaker, disk, runVars,
        WaitCancelled
<1>35. CASE Finish
  BY <1>35 DEF Flags, vars, iterVars, dlBreaker, upBreaker, disk, runVars,
        Finish
<1>36. CASE Cancel
  BY <1>36 DEF Flags, vars, iterVars, dlBreaker, upBreaker, disk, runVars,
        Cancel
<1>37. CASE UNCHANGED vars
  BY <1>37 DEF Flags, vars, iterVars, dlBreaker, upBreaker, disk, runVars
<1> QED
  BY <1>1, <1>2, <1>3, <1>4, <1>5, <1>6, <1>7, <1>8, <1>9, <1>10, <1>11,
        <1>12, <1>13, <1>14, <1>15, <1>16, <1>17, <1>18, <1>19, <1>20, <1>21,
        <1>22, <1>23, <1>24, <1>25, <1>26, <1>27, <1>28, <1>29, <1>30, <1>31,
        <1>32, <1>33, <1>34, <1>35, <1>36, <1>37, <1>38
     DEF Next, Dispatch, DownloadWorker, UploadWorker, Passes, Returned

-----------------------------------------------------------------------------
(***************************************************************************)
(* The budget.  Every step reserves one item that fits, returns one, or    *)
(* leaves the reservations alone.                                          *)
(***************************************************************************)
Kept == Holders' = Holders /\ used' = used

Reserved(i) ==
    /\ i \notin Holders /\ Holders' = Holders \cup {i}
    /\ used' = used + Size[i]
    /\ Budget # 0 => used + Size[i] <= Budget

GivenBack(i) ==
    /\ i \in Holders /\ Holders' = Holders \ {i}
    /\ used' = used - Size[i]

BudgetStep == Kept \/ \E i \in Items : Reserved(i) \/ GivenBack(i)

LEMMA NextIsBudgetStep ==
  ASSUME Control
  PROVE  [Next]_vars => BudgetStep
<1>1. CASE NextStopped
  BY <1>1 DEF BudgetStep, Kept, Control, Typing, Legs, Quiet, Holders,
        DlHolds, UlHolds, vars, iterVars, dlBreaker, upBreaker, disk, runVars,
        NextStopped
<1>2. CASE NextCancelled
  BY <1>2 DEF BudgetStep, Kept, Control, Typing, Legs, Quiet, Holders,
        DlHolds, UlHolds, vars, iterVars, dlBreaker, upBreaker, disk, runVars,
        NextCancelled
<1>3. CASE NextExhausted
  BY <1>3 DEF BudgetStep, Kept, Control, Typing, Legs, Quiet, Holders,
        DlHolds, UlHolds, vars, iterVars, dlBreaker, upBreaker, disk, runVars,
        NextExhausted
<1>4. CASE NextWalkFails
  BY <1>4 DEF BudgetStep, Kept, Control, Typing, Legs, Quiet, Holders,
        DlHolds, UlHolds, vars, iterVars, dlBreaker, upBreaker, disk, runVars,
        NextWalkFails
<1>5. ASSUME NEW i \in Items, NextUnsafe(i)
      PROVE  BudgetStep
  BY <1>5 DEF BudgetStep, Kept, Control, Typing, Legs, Quiet, Holders,
        DlHolds, UlHolds, vars, iterVars, dlBreaker, upBreaker, disk, runVars,
        NextUnsafe, Download
<1>6. ASSUME NEW i \in Items, NextPulls(i)
      PROVE  BudgetStep
  BY <1>6 DEF BudgetStep, Kept, Control, Typing, Legs, Quiet, Holders,
        DlHolds, UlHolds, vars, iterVars, dlBreaker, upBreaker, disk, runVars,
        NextPulls, Download
<1>7. ASSUME NEW i \in Items, Acquire(i)
      PROVE  BudgetStep
  <2>1. Reserved(i)
    BY <1>7 DEF Reserved, Control, Typing, Legs, Quiet, Holders, DlHolds,
        UlHolds, vars, iterVars, dlBreaker, upBreaker, disk, runVars, Acquire,
        Download
  <2> QED
    BY <2>1 DEF BudgetStep
<1>8. ASSUME NEW i \in Items, AcquireCancelled(i)
      PROVE  BudgetStep
  BY <1>8 DEF BudgetStep, Kept, Control, Typing, Legs, Quiet, Holders,
        DlHolds, UlHolds, vars, iterVars, dlBreaker, upBreaker, disk, runVars,
        AcquireCancelled, Download
<1>9. ASSUME NEW i \in Items, Open(i)
      PROVE  BudgetStep
  BY <1>9 DEF BudgetStep, Kept, Control, Typing, Legs, Quiet, Holders,
        DlHolds, UlHolds, vars, iterVars, dlBreaker, upBreaker, disk, runVars,
        Open, Download
<1>10. ASSUME NEW i \in Items, OpenFails(i)
      PROVE  BudgetStep
  <2>1. GivenBack(i)
    BY <1>10 DEF GivenBack, Control, Typing, Legs, Quiet, Holders, DlHolds,
        UlHolds, vars, iterVars, dlBreaker, upBreaker, disk, runVars,
        OpenFails, Download, GiveBack
  <2> QED
    BY <2>1 DEF BudgetStep
<1>11. ASSUME NEW i \in Items, RefreshCancelled(i)
      PROVE  BudgetStep
  <2>1. GivenBack(i)
    BY <1>11 DEF GivenBack, Control, Typing, Legs, Quiet, Holders, DlHolds,
        UlHolds, vars, iterVars, dlBreaker, upBreaker, disk, runVars,
        RefreshCancelled, Download, GiveBack
  <2> QED
    BY <2>1 DEF BudgetStep
<1>12. ASSUME NEW i \in Items, RefreshGone(i)
      PROVE  BudgetStep
  <2>1. GivenBack(i)
    BY <1>12 DEF GivenBack, Control, Typing, Legs, Quiet, Holders, DlHolds,
        UlHolds, vars, iterVars, dlBreaker, upBreaker, disk, runVars,
        RefreshGone, Download, GiveBack
  <2> QED
    BY <2>1 DEF BudgetStep
<1>13. ASSUME NEW i \in Items, RefreshFails(i)
      PROVE  BudgetStep
  <2>1. GivenBack(i)
    BY <1>13 DEF GivenBack, Control, Typing, Legs, Quiet, Holders, DlHolds,
        UlHolds, vars, iterVars, dlBreaker, upBreaker, disk, runVars,
        RefreshFails, Download, GiveBack, RecordFailure
  <2> QED
    BY <2>1 DEF BudgetStep
<1>14. ASSUME NEW i \in Items, StartTransfer(i)
      PROVE  BudgetStep
  BY <1>14 DEF BudgetStep, Kept, Control, Typing, Legs, Quiet, Holders,
        DlHolds, UlHolds, vars, iterVars, dlBreaker, upBreaker, disk, runVars,
        StartTransfer, Download
<1>15. ASSUME NEW i \in Items, Promote(i)
      PROVE  BudgetStep
  BY <1>15 DEF BudgetStep, Kept, Control, Typing, Legs, Quiet, Holders,
        DlHolds, UlHolds, vars, iterVars, dlBreaker, upBreaker, disk, runVars,
        Promote, Download
<1>16. ASSUME NEW i \in Items, TransferFails(i)
      PROVE  BudgetStep
  BY <1>16 DEF BudgetStep, Kept, Control, Typing, Legs, Quiet, Holders,
        DlHolds, UlHolds, vars, iterVars, dlBreaker, upBreaker, disk, runVars,
        TransferFails, Download, RemovePart
<1>17. ASSUME NEW i \in Items, TransferCancelled(i)
      PROVE  BudgetStep
  BY <1>17 DEF BudgetStep, Kept, Control, Typing, Legs, Quiet, Holders,
        DlHolds, UlHolds, vars, iterVars, dlBreaker, upBreaker, disk, runVars,
        TransferCancelled, Download, RemovePart
<1>18. ASSUME NEW i \in Items, OnFailed(i)
      PROVE  BudgetStep
  <2>1. GivenBack(i)
    BY <1>18 DEF GivenBack, Control, Typing, Legs, Quiet, Holders, DlHolds,
        UlHolds, vars, iterVars, dlBreaker, upBreaker, disk, runVars,
        OnFailed, Download, GiveBack
  <2> QED
    BY <2>1 DEF BudgetStep
<1>19. ASSUME NEW i \in Items, Send(i)
      PROVE  BudgetStep
  BY <1>19 DEF BudgetStep, Kept, Control, Typing, Legs, Quiet, Holders,
        DlHolds, UlHolds, vars, iterVars, dlBreaker, upBreaker, disk, runVars,
        Send, Download, Upload
<1>20. ASSUME NEW i \in Items, CountDone(i)
      PROVE  BudgetStep
  BY <1>20 DEF BudgetStep, Kept, Control, Typing, Legs, Quiet, Holders,
        DlHolds, UlHolds, vars, iterVars, dlBreaker, upBreaker, disk, runVars,
        CountDone, Download
<1>21. ASSUME NEW i \in Items, CountFailed(i)
      PROVE  BudgetStep
  BY <1>21 DEF BudgetStep, Kept, Control, Typing, Legs, Quiet, Holders,
        DlHolds, UlHolds, vars, iterVars, dlBreaker, upBreaker, disk, runVars,
        CountFailed, Download, RecordFailure
<1>22. ASSUME NEW i \in Items, Trip(i)
      PROVE  BudgetStep
  BY <1>22 DEF BudgetStep, Kept, Control, Typing, Legs, Quiet, Holders,
        DlHolds, UlHolds, vars, iterVars, dlBreaker, upBreaker, disk, runVars,
        Trip, Download
<1>23. ASSUME NEW i \in Items, Receive(i)
      PROVE  BudgetStep
  BY <1>23 DEF BudgetStep, Kept, Control, Typing, Legs, Quiet, Holders,
        DlHolds, UlHolds, vars, iterVars, dlBreaker, upBreaker, disk, runVars,
        Receive, Upload
<1>24. ASSUME NEW i \in Items, SpaceOk(i)
      PROVE  BudgetStep
  BY <1>24 DEF BudgetStep, Kept, Control, Typing, Legs, Quiet, Holders,
        DlHolds, UlHolds, vars, iterVars, dlBreaker, upBreaker, disk, runVars,
        SpaceOk, Upload
<1>25. ASSUME NEW i \in Items, SpaceGone(i)
      PROVE  BudgetStep
  BY <1>25 DEF BudgetStep, Kept, Control, Typing, Legs, Quiet, Holders,
        DlHolds, UlHolds, vars, iterVars, dlBreaker, upBreaker, disk, runVars,
        SpaceGone, Upload
<1>26. ASSUME NEW i \in Items, UploadOk(i)
      PROVE  BudgetStep
  BY <1>26 DEF BudgetStep, Kept, Control, Typing, Legs, Quiet, Holders,
        DlHolds, UlHolds, vars, iterVars, dlBreaker, upBreaker, disk, runVars,
        UploadOk, Upload
<1>38. ASSUME NEW i \in Items, UploadShort(i)
      PROVE  BudgetStep
  BY <1>38 DEF BudgetStep, Kept, Control, Typing, Legs, Quiet, Holders,
        DlHolds, UlHolds, vars, iterVars, dlBreaker, upBreaker, disk, runVars,
        UploadShort, Upload
<1>27. ASSUME NEW i \in Items, UploadFails(i)
      PROVE  BudgetStep
  BY <1>27 DEF BudgetStep, Kept, Control, Typing, Legs, Quiet, Holders,
        DlHolds, UlHolds, vars, iterVars, dlBreaker, upBreaker, disk, runVars,
        UploadFails, Upload
<1>28. ASSUME NEW i \in Items, Clear(i)
      PROVE  BudgetStep
  BY <1>28 DEF BudgetStep, Kept, Control, Typing, Legs, Quiet, Holders,
        DlHolds, UlHolds, vars, iterVars, dlBreaker, upBreaker, disk, runVars,
        Clear, Upload
<1>29. ASSUME NEW i \in Items, Release(i)
      PROVE  BudgetStep
  <2>1. GivenBack(i)
    BY <1>29 DEF GivenBack, Control, Typing, Legs, Quiet, Holders, DlHolds,
        UlHolds, vars, iterVars, dlBreaker, upBreaker, disk, runVars, Release,
        Upload, GiveBack
  <2> QED
    BY <2>1 DEF BudgetStep
<1>30. ASSUME NEW i \in Items, CountUpload(i)
      PROVE  BudgetStep
  BY <1>30 DEF BudgetStep, Kept, Control, Typing, Legs, Quiet, Holders,
        DlHolds, UlHolds, vars, iterVars, dlBreaker, upBreaker, disk, runVars,
        CountUpload, Upload
<1>31. CASE Retry
  BY <1>31 DEF BudgetStep, Kept, Control, Typing, Legs, Quiet, Holders,
        DlHolds, UlHolds, vars, iterVars, dlBreaker, upBreaker, disk, runVars,
        Retry
<1>32. CASE Stop
  BY <1>32 DEF BudgetStep, Kept, Control, Typing, Legs, Quiet, Holders,
        DlHolds, UlHolds, vars, iterVars, dlBreaker, upBreaker, disk, runVars,
        Stop
<1>33. CASE WaitOver
  BY <1>33 DEF BudgetStep, Kept, Control, Typing, Legs, Quiet, Holders,
        DlHolds, UlHolds, vars, iterVars, dlBreaker, upBreaker, disk, runVars,
        WaitOver, NewPass
<1>34. CASE WaitCancelled
  BY <1>34 DEF BudgetStep, Kept, Control, Typing, Legs, Quiet, Holders,
        DlHolds, UlHolds, vars, iterVars, dlBreaker, upBreaker, disk, runVars,
        WaitCancelled
<1>35. CASE Finish
  BY <1>35 DEF BudgetStep, Kept, Control, Typing, Legs, Quiet, Holders,
        DlHolds, UlHolds, vars, iterVars, dlBreaker, upBreaker, disk, runVars,
        Finish
<1>36. CASE Cancel
  BY <1>36 DEF BudgetStep, Kept, Control, Typing, Legs, Quiet, Holders,
        DlHolds, UlHolds, vars, iterVars, dlBreaker, upBreaker, disk, runVars,
        Cancel
<1>37. CASE UNCHANGED vars
  BY <1>37 DEF BudgetStep, Kept, Control, Typing, Legs, Quiet, Holders,
        DlHolds, UlHolds, vars, iterVars, dlBreaker, upBreaker, disk, runVars
<1> QED
  BY <1>1, <1>2, <1>3, <1>4, <1>5, <1>6, <1>7, <1>8, <1>9, <1>10, <1>11,
        <1>12, <1>13, <1>14, <1>15, <1>16, <1>17, <1>18, <1>19, <1>20, <1>21,
        <1>22, <1>23, <1>24, <1>25, <1>26, <1>27, <1>28, <1>29, <1>30, <1>31,
        <1>32, <1>33, <1>34, <1>35, <1>36, <1>37, <1>38
     DEF Next, Dispatch, DownloadWorker, UploadWorker, Passes, Returned

-----------------------------------------------------------------------------
(***************************************************************************)
(* Balance: the semaphore's count is the weight of the holders, and it is  *)
(* under the cap.  Together with Control it is inductive.                  *)
(***************************************************************************)
Balance ==
    /\ used = Bytes(Holders)
    /\ Budget # 0 => used <= Budget

LEMMA HoldersAreItems == Holders \in SUBSET Items /\ Holders' \in SUBSET Items
BY DEF Holders

LEMMA BalanceInit == Init => Balance
<1> SUFFICES ASSUME Init
             PROVE  Balance
  OBVIOUS
<1>1. Holders = {}
  BY DEF Init, Holders, DlHolds, UlHolds
<1>2. used = 0 /\ Bytes(Holders) = 0
  BY <1>1, BytesEmpty DEF Init
<1> QED
  BY <1>2, BudgetAssumption DEF Balance

LEMMA BalanceStep ==
  ASSUME Balance, BudgetStep
  PROVE  Balance'
<1>1. CASE Kept
  BY <1>1 DEF Balance, Kept
<1>2. ASSUME NEW i \in Items, Reserved(i)
      PROVE  Balance'
  <2>1. Bytes(Holders \cup {i}) = Bytes(Holders) + Size[i]
    BY <1>2, BytesAdd, HoldersAreItems DEF Reserved
  <2>2. Bytes(Holders') = Bytes(Holders) + Size[i]
    BY <1>2, <2>1 DEF Reserved
  <2> QED
    BY <1>2, <2>2 DEF Balance, Reserved
<1>3. ASSUME NEW i \in Items, GivenBack(i)
      PROVE  Balance'
  <2>1. Bytes(Holders \ {i}) = Bytes(Holders) - Size[i]
    BY <1>3, BytesRemove, HoldersAreItems DEF GivenBack
  <2>2. Bytes(Holders') = Bytes(Holders) - Size[i]
    BY <1>3, <2>1 DEF GivenBack
  <2>3. Bytes(Holders) \in Nat /\ Size[i] \in Nat /\ Budget \in Nat
    BY BytesType, HoldersAreItems, SizeAssumption, BudgetAssumption
  <2>4. used' = Bytes(Holders')
    BY <1>3, <2>2 DEF Balance, GivenBack
  <2>5. Budget # 0 => used' <= Budget
    BY <1>3, <2>3 DEF Balance, GivenBack
  <2> QED
    BY <2>4, <2>5 DEF Balance
<1> QED
  BY <1>1, <1>2, <1>3 DEF BudgetStep

-----------------------------------------------------------------------------
(***************************************************************************)
(* The reporter's counters.  Every step starts, finishes or refuses one    *)
(* item, rolls a pass back, begins one, or counts nothing.                 *)
(***************************************************************************)
InFlight == {i \in Items : dl[i] \in InWorker \ {"tripping"}}

SamePass == phase' = "pass" => phase = "pass"

Uncounting ==
    /\ stats' = stats /\ InFlight' = InFlight /\ FailedItems' = FailedItems
    /\ SamePass

Starts(i) ==
    /\ stats' = [stats EXCEPT !.started = @ + 1]
    /\ i \notin InFlight /\ InFlight' = InFlight \cup {i}
    /\ FailedItems' = FailedItems /\ SamePass

Succeeds(i) ==
    /\ stats' = [stats EXCEPT !.done = @ + 1]
    /\ i \in InFlight /\ InFlight' = InFlight \ {i}
    /\ FailedItems' = FailedItems /\ SamePass

Fails(i) ==
    /\ stats' = [stats EXCEPT !.failed = @ + 1]
    /\ i \in InFlight /\ InFlight' = InFlight \ {i}
    /\ i \notin FailedItems /\ FailedItems' = FailedItems \cup {i} /\ SamePass

Refused(i) ==
    /\ stats' = [started |-> stats.started + 1, done |-> stats.done,
                 failed |-> stats.failed + 1]
    /\ InFlight' = InFlight
    /\ i \notin FailedItems /\ FailedItems' = FailedItems \cup {i} /\ SamePass

RolledBack ==
    /\ stats' = Rollback /\ InFlight' = InFlight
    /\ phase = "pass" /\ phase' = "wait"

Begins == stats' = stats /\ InFlight' = InFlight /\ FailedItems' = {}

TallyStep ==
    \/ Uncounting \/ RolledBack \/ Begins
    \/ \E i \in Items : Starts(i) \/ Succeeds(i) \/ Fails(i) \/ Refused(i)

LEMMA NextIsTallyStep ==
  ASSUME Control
  PROVE  [Next]_vars => TallyStep
<1> USE DEF Control, Typing
<1>1. CASE NextStopped \/ NextCancelled \/ NextExhausted \/ NextWalkFails
  <2>1. Uncounting
    BY <1>1 DEF Uncounting, InFlight, FailedItems, SamePass, NextStopped, NextCancelled,
                NextExhausted, NextWalkFails, runVars
  <2> QED
    BY <2>1 DEF TallyStep
<1>2. ASSUME NEW i \in Items,
             \/ NextUnsafe(i) \/ NextPulls(i) \/ Acquire(i) \/ AcquireCancelled(i)
             \/ Open(i) \/ OpenFails(i) \/ RefreshCancelled(i) \/ RefreshGone(i)
      PROVE  TallyStep
  <2>1. stats' = stats /\ passOut' = passOut /\ phase' = phase
    BY <1>2 DEF NextUnsafe, NextPulls, Acquire, AcquireCancelled, Open, OpenFails,
                RefreshCancelled, RefreshGone, runVars
  <2>2. /\ dl[i] \in {"todo", "pulled", "reserved"}
        /\ \E s \in {"pulled", "reserved", "opened", "skipped", "dropped"} :
              dl' = [dl EXCEPT ![i] = s]
    BY <1>2 DEF NextUnsafe, NextPulls, Acquire, AcquireCancelled, Open, OpenFails,
                RefreshCancelled, RefreshGone, Download
  <2>3. InFlight' = InFlight
    BY <2>2 DEF InFlight
  <2>4. FailedItems' = FailedItems
    BY <2>1 DEF FailedItems
  <2> QED
    BY <2>1, <2>3, <2>4 DEF TallyStep, Uncounting, SamePass
<1>3. ASSUME NEW i \in Items, RefreshFails(i)
      PROVE  TallyStep
  <2>1. Refused(i)
    BY <1>3 DEF Refused, InFlight, FailedItems, SamePass, RefreshFails, RecordFailure,
                Download, Legs, runVars
  <2> QED
    BY <2>1 DEF TallyStep
<1>4. ASSUME NEW i \in Items, StartTransfer(i)
      PROVE  TallyStep
  <2>1. Starts(i)
    BY <1>4 DEF Starts, InFlight, FailedItems, SamePass, StartTransfer, Download, runVars
  <2> QED
    BY <2>1 DEF TallyStep
<1>5. ASSUME NEW i \in Items,
             \/ Promote(i) \/ TransferFails(i) \/ TransferCancelled(i) \/ OnFailed(i)
             \/ Send(i) \/ Trip(i)
      PROVE  TallyStep
  <2>1. Uncounting
    BY <1>5 DEF Uncounting, InFlight, FailedItems, SamePass, Promote, TransferFails,
                TransferCancelled, OnFailed, Send, Trip, Download, runVars
  <2> QED
    BY <2>1 DEF TallyStep
<1>6. ASSUME NEW i \in Items, CountDone(i)
      PROVE  TallyStep
  <2>1. Succeeds(i)
    BY <1>6 DEF Succeeds, InFlight, FailedItems, SamePass, CountDone, Download, Legs,
                runVars
  <2> QED
    BY <2>1 DEF TallyStep
<1>7. ASSUME NEW i \in Items, CountFailed(i)
      PROVE  TallyStep
  <2>1. Fails(i)
    BY <1>7 DEF Fails, InFlight, FailedItems, SamePass, CountFailed, RecordFailure,
                Download, Legs, runVars
  <2> QED
    BY <2>1 DEF TallyStep
<1>8. ASSUME NEW i \in Items, UploadWorker(i)
      PROVE  TallyStep
  <2>1. Uncounting
    BY <1>8 DEF Uncounting, InFlight, FailedItems, SamePass, UploadWorker, Receive,
                SpaceOk, SpaceGone, UploadOk, UploadShort, UploadFails, Clear, Release,
                CountUpload, runVars
  <2> QED
    BY <2>1 DEF TallyStep
<1>9. CASE Retry
  BY <1>9 DEF TallyStep, RolledBack, InFlight, Retry, PassOver
<1>10. CASE WaitOver
  <2>1. \A i \in Items : dl[i] \notin InWorker /\ dl'[i] \notin InWorker
    BY <1>10 DEF WaitOver, NewPass, Quiet
  <2>2. FailedItems' = {}
    BY <1>10 DEF WaitOver, NewPass, FailedItems
  <2> QED
    BY <1>10, <2>1, <2>2 DEF TallyStep, Begins, InFlight, WaitOver, NewPass
<1>11. CASE Stop \/ WaitCancelled \/ Finish \/ Cancel \/ UNCHANGED vars
  <2>1. Uncounting
    BY <1>11 DEF Uncounting, InFlight, FailedItems, SamePass, Stop, WaitCancelled, Finish,
                 Cancel, runVars, vars
  <2> QED
    BY <2>1 DEF TallyStep
<1> QED
  BY <1>1, <1>2, <1>3, <1>4, <1>5, <1>6, <1>7, <1>8, <1>9, <1>10, <1>11
     DEF Next, Dispatch, DownloadWorker, Passes, Returned

(* What rollback subtracts has been counted, so no counter goes negative.  *)
Tally ==
    /\ stats.started - stats.done - stats.failed = Cardinality(InFlight)
    /\ stats.done >= 0 /\ stats.failed >= 0
    /\ phase = "pass" => stats.failed >= Cardinality(FailedItems)

LEMMA TallyInit == Init => Tally
<1> SUFFICES ASSUME Init
             PROVE  Tally
  OBVIOUS
<1>1. InFlight = {} /\ FailedItems = {}
  BY DEF Init, InFlight, FailedItems
<1> QED
  BY <1>1, FS_EmptySet DEF Init, Tally

LEMMA TallyStepKeeps ==
  ASSUME Typing, Typing', Tally, TallyStep
  PROVE  Tally'
<1>1. /\ IsFiniteSet(InFlight) /\ Cardinality(InFlight) \in Nat
      /\ IsFiniteSet(FailedItems) /\ Cardinality(FailedItems) \in Nat
  <2>1. InFlight \in SUBSET Items
    BY DEF InFlight
  <2> QED
    BY <2>1, FailedItemsCount, ItemsAssumption, FS_Subset, FS_CardinalityType
<1>2. stats \in [started : Int, done : Int, failed : Int]
  BY DEF Typing
<1>3. CASE Uncounting
  BY <1>3 DEF Uncounting, SamePass, Tally
<1>4. CASE RolledBack
  BY <1>1, <1>2, <1>4 DEF RolledBack, Rollback, Tally
<1>5. CASE Begins
  BY <1>2, <1>5, FS_EmptySet DEF Begins, Tally
<1>6. ASSUME NEW i \in Items, Starts(i)
      PROVE  Tally'
  <2>1. Cardinality(InFlight') = Cardinality(InFlight) + 1
    BY <1>1, <1>6, FS_AddElement DEF Starts
  <2> QED
    BY <1>1, <1>2, <1>6, <2>1 DEF Starts, SamePass, Tally
<1>7. ASSUME NEW i \in Items, Succeeds(i)
      PROVE  Tally'
  <2>1. Cardinality(InFlight') = Cardinality(InFlight) - 1
    BY <1>1, <1>7, FS_RemoveElement DEF Succeeds
  <2> QED
    BY <1>1, <1>2, <1>7, <2>1 DEF Succeeds, SamePass, Tally
<1>8. ASSUME NEW i \in Items, Fails(i)
      PROVE  Tally'
  <2>1. Cardinality(InFlight') = Cardinality(InFlight) - 1
    BY <1>1, <1>8, FS_RemoveElement DEF Fails
  <2>2. Cardinality(FailedItems') = Cardinality(FailedItems) + 1
    BY <1>1, <1>8, FS_AddElement DEF Fails
  <2> QED
    BY <1>1, <1>2, <1>8, <2>1, <2>2 DEF Fails, SamePass, Tally
<1>9. ASSUME NEW i \in Items, Refused(i)
      PROVE  Tally'
  <2>1. Cardinality(FailedItems') = Cardinality(FailedItems) + 1
    BY <1>1, <1>9, FS_AddElement DEF Refused
  <2> QED
    BY <1>1, <1>2, <1>9, <2>1 DEF Refused, SamePass, Tally
<1> QED
  BY <1>3, <1>4, <1>5, <1>6, <1>7, <1>8, <1>9 DEF TallyStep

-----------------------------------------------------------------------------
(* The inductive invariant of everything below.                            *)
IInv == Flags /\ Control /\ Balance /\ Tally

THEOREM Inductive == Spec => []IInv
<1>1. Init => IInv
  BY FlagsInit, ControlInit, BalanceInit, TallyInit DEF IInv
<1>2. IInv /\ [Next]_vars => IInv'
  <2> SUFFICES ASSUME IInv, [Next]_vars
               PROVE  IInv'
    OBVIOUS
  <2>1. Flags' /\ Control' /\ Balance'
    BY FlagsStep, ControlStep, NextIsBudgetStep, BalanceStep DEF IInv
  <2>2. Tally'
    BY <2>1, NextIsTallyStep, TallyStepKeeps DEF IInv, Control
  <2> QED
    BY <2>1, <2>2 DEF IInv
<1> QED
  BY <1>1, <1>2, PTL DEF Spec

-----------------------------------------------------------------------------
(***************************************************************************)
(* What follows from it.                                                   *)
(***************************************************************************)
(* Types, and no counter below zero.                                       *)
THEOREM TypesHold == Spec => []TypeOK
<1>1. ASSUME IInv
      PROVE  TypeOK
  <2>1. used \in Nat
    BY <1>1, BytesType, HoldersAreItems DEF IInv, Balance
  <2>2. stats \in [started : Nat, done : Nat, failed : Nat]
    <3>1. Cardinality(InFlight) \in Nat
      BY ItemsAssumption, FS_Subset, FS_CardinalityType DEF InFlight
    <3>2. stats \in [started : Int, done : Int, failed : Int]
      BY <1>1 DEF IInv, Control, Typing
    <3> QED
      BY <1>1, <3>1, <3>2 DEF IInv, Tally
  <2>3. Flags /\ Typing
    BY <1>1 DEF IInv, Control
  <2> QED
    BY <2>1, <2>2, <2>3 DEF TypeOK, Flags, Typing
<1> QED
  BY <1>1, Inductive, PTL

(* Whatever the reporter shows as in flight is in flight, rolled-back      *)
(* passes included.                                                        *)
THEOREM CountersBalance == Spec => []InFlightBalanced
<1>1. IInv => InFlightBalanced
  BY DEF IInv, Tally, InFlight, InFlightBalanced
<1> QED
  BY <1>1, Inductive, PTL

(* No error path, no goroutine and no pass loses or doubles a release.     *)
THEOREM BudgetIsBalanced == Spec => []BudgetBalanced
<1>1. IInv => BudgetBalanced
  BY DEF IInv, Balance, BudgetBalanced
<1> QED
  BY <1>1, Inductive, PTL

(* What is on disk belongs to an item that still holds its reservation, so *)
(* the cap on reservations is a cap on the disk.                           *)
THEOREM CapIsHonoured == Spec => []CapHonoured
<1>1. ASSUME IInv
      PROVE  CapHonoured
  <2>1. (part \cup final) \ stuck \in SUBSET Holders
    BY <1>1 DEF IInv, Control, Typing, Files, Holders, DlHolds, UlHolds
  <2>2. Bytes((part \cup final) \ stuck) <= Bytes(Holders)
    BY <2>1, BytesMonotone, HoldersAreItems
  <2>3. (part \cup final) \ stuck \in SUBSET Items
    BY <2>1, HoldersAreItems
  <2>4. Bytes((part \cup final) \ stuck) \in Nat /\ Bytes(Holders) \in Nat
    BY <2>3, BytesType, HoldersAreItems
  <2>5. Budget # 0 => Bytes(Holders) <= Budget
    BY <1>1 DEF IInv, Balance
  <2> QED
    BY <2>2, <2>4, <2>5, BudgetAssumption DEF CapHonoured
<1> QED
  BY <1>1, Inductive, PTL

(* An item the upload leg has had is never fetched again.                  *)
THEOREM ItemsAreFetchedOnce == Spec => []FetchedOnce
<1>1. IInv => FetchedOnce
  BY DEF IInv, Control, Typing, Legs, FetchedOnce
<1> QED
  BY <1>1, Inductive, PTL

(* Nothing is pulled once the destination is down: Next is the only place  *)
(* an item is pulled, and it has read the stop flag.                       *)
THEOREM TripStopsPulls == Spec => NoPullAfterTrip
<1> DEFINE NoPull(i) == dl'[i] = "pulled" => dl[i] = "pulled"
<1>1. ASSUME IInv, [Next]_vars, upTripped, NEW i \in Items
      PROVE  NoPull(i)
  <2>1. stop /\ dl \in [Items -> DlStages]
    BY <1>1 DEF IInv, Control, TripStops, Typing
  <2>2. CASE NextStopped \/ NextCancelled \/ NextExhausted \/ NextWalkFails
    BY <2>2 DEF NextStopped, NextCancelled, NextExhausted, NextWalkFails
  <2>3. ASSUME NEW j \in Items, NextUnsafe(j) \/ NextPulls(j)
        PROVE  NoPull(i)
    BY <2>1, <2>3 DEF NextUnsafe, NextPulls
  <2>4. ASSUME NEW j \in Items,
               \/ Acquire(j) \/ AcquireCancelled(j) \/ Open(j) \/ OpenFails(j)
               \/ RefreshCancelled(j) \/ RefreshGone(j) \/ RefreshFails(j)
        PROVE  NoPull(i)
    BY <2>1, <2>4 DEF Acquire, AcquireCancelled, Open, OpenFails, RefreshCancelled,
                      RefreshGone, RefreshFails, Download
  <2>5. ASSUME NEW j \in Items, DownloadWorker(j)
        PROVE  NoPull(i)
    BY <2>1, <2>5 DEF DownloadWorker, StartTransfer, Promote, TransferFails,
                      TransferCancelled, OnFailed, Send, CountDone, CountFailed, Trip,
                      Download
  <2>6. ASSUME NEW j \in Items, UploadWorker(j)
        PROVE  NoPull(i)
    BY <2>6 DEF UploadWorker, Receive, SpaceOk, SpaceGone, UploadOk, UploadShort, UploadFails,
                Clear, Release, CountUpload
  <2>7. CASE Passes
    BY <2>1, <2>7 DEF Passes, Retry, Stop, WaitOver, NewPass, WaitCancelled, Finish
  <2>8. CASE Cancel \/ UNCHANGED vars
    BY <2>8 DEF Cancel, vars
  <2> QED
    BY <1>1, <2>2, <2>3, <2>4, <2>5, <2>6, <2>7, <2>8 DEF Next, Dispatch, Returned
<1>2. IInv /\ [Next]_vars => [upTripped => \A i \in Items : NoPull(i)]_vars
  BY <1>1
<1> QED
  BY <1>2, Inductive, PTL DEF Spec, NoPullAfterTrip

(* The semaphore implements the abstract cap.                              *)
LEMMA PromisedInit == Init => Promise!Init
BY DEF Init, Promise!Init, Holders, DlHolds, UlHolds

LEMMA PromisedStep ==
  ASSUME IInv, BudgetStep
  PROVE  [Promise!Next]_Holders
<1>1. CASE Kept
  BY <1>1 DEF Kept
<1>2. ASSUME NEW i \in Items, Reserved(i)
      PROVE  Promise!Admit(i)
  <2>1. Bytes(Holders \cup {i}) = Bytes(Holders) + Size[i]
    BY <1>2, BytesAdd, HoldersAreItems DEF Reserved
  <2>2. Promise!Bytes(Holders \cup {i}) = Bytes(Holders \cup {i})
    BY DEF Promise!Bytes, Promise!BytesOf, Promise!ItemBytes, Promise!Cardinality,
           Bytes, BytesOf, ItemBytes, Cardinality
  <2>3. Budget # 0 => Bytes(Holders \cup {i}) <= Budget
    BY <1>2, <2>1 DEF IInv, Balance, Reserved
  <2>4. Promise!Fits(Holders \cup {i})
    BY <2>2, <2>3 DEF Promise!Fits
  <2> QED
    BY <1>2, <2>4 DEF Promise!Admit, Reserved
<1>3. ASSUME NEW i \in Items, GivenBack(i)
      PROVE  Promise!Return(i)
  BY <1>3 DEF Promise!Return, GivenBack
<1> QED
  BY <1>1, <1>2, <1>3 DEF BudgetStep, Promise!Next

THEOREM ImplementsTheCap == Spec => ReservesStaging
<1>1. IInv /\ [Next]_vars => [Promise!Next]_Holders
  BY NextIsBudgetStep, PromisedStep DEF IInv
<1> QED
  BY <1>1, PromisedInit, Inductive, PTL DEF Spec, ReservesStaging, Promise!Spec

=============================================================================
