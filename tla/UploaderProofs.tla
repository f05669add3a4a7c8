--------------------------- MODULE UploaderProofs ---------------------------
(***************************************************************************)
(* Proofs about Uploader for any number of attempts, with and without the  *)
(* confirmation.                                                           *)
(***************************************************************************)
EXTENDS Uploader, TLAPS

(***************************************************************************)
(* What the moves leave on the remote.  Late commits apart, there is one   *)
(* object at most, a whole one or a fragment, and a move only starts while *)
(* no whole one is there.                                                  *)
(***************************************************************************)
Landed ==
    /\ whole - late \in {0, 1} /\ fragments \in {0, 1}
    /\ whole - late = 1 => fragments = 0 /\ stage # "sending"
    /\ stage = "sending" => replacing = fragments
    /\ stage = "confirm" => (whole > 0 \/ fragments > 0) /\ ~staged

(* A fragment outlives its attempt only if a lookup or a deletion failed.  *)
Settled ==
    stage \in {"move", "sending"} => fragments = 0 \/ dirty \/ ~looked

IInv == TypeOK /\ Landed /\ Settled /\ OkIsArchived

LEMMA IInvInit == Init => IInv
<1> SUFFICES ASSUME Init
             PROVE  IInv
  OBVIOUS
<1>1. attempt \in 1 .. UploadAttempts
  BY UploaderAssumption DEF Init
<1>2. staged \in BOOLEAN /\ looked \in BOOLEAN /\ dirty \in BOOLEAN
      /\ confirm \in BOOLEAN /\ cancelled \in BOOLEAN
  BY Zenon DEF Init
<1> QED
  BY <1>1, <1>2 DEF Init, IInv, TypeOK, Landed, Settled, OkIsArchived

LEMMA IInvStep == IInv /\ [Next]_vars => IInv'
<1> SUFFICES ASSUME IInv, [Next]_vars
             PROVE  IInv'
  OBVIOUS
<1> USE UploaderAssumption
    DEF IInv, TypeOK, Landed, Settled, OkIsArchived, Absent, remote, run
<1>1. CASE MoveFails
  BY <1>1 DEF MoveFails
<1>2. CASE MoveFindsWhole
  BY <1>2 DEF MoveFindsWhole
<1>3. CASE MoveStarts
  BY <1>3 DEF MoveStarts
<1>4. CASE MoveArrives
  <2>1. staged' \in BOOLEAN
    BY <1>4, Zenon DEF MoveArrives, Writes
  <2>2. whole' \in Nat /\ fragments' \in {0, 1}
    BY <1>4 DEF MoveArrives, Writes
  <2>3. TypeOK'
    BY <1>4, <2>1, <2>2 DEF MoveArrives, Writes
  <2>4. Landed'
    BY <1>4, <2>2 DEF MoveArrives, Writes
  <2>5. Settled' /\ OkIsArchived'
    BY <1>4 DEF MoveArrives, Writes
  <2> QED
    BY <2>3, <2>4, <2>5
<1>5. CASE MoveArrivesShort
  <2>1. staged' \in BOOLEAN
    BY <1>5, Zenon DEF MoveArrivesShort, Writes
  <2>2. whole' \in Nat /\ fragments' \in {0, 1}
    BY <1>5 DEF MoveArrivesShort, Writes
  <2>3. TypeOK'
    BY <1>5, <2>1, <2>2 DEF MoveArrivesShort, Writes
  <2>4. Landed'
    BY <1>5, <2>2 DEF MoveArrivesShort, Writes
  <2>5. Settled' /\ OkIsArchived'
    BY <1>5 DEF MoveArrivesShort, Writes
  <2> QED
    BY <2>3, <2>4, <2>5
<1>6. CASE MoveDiesHalfway
  BY <1>6 DEF MoveDiesHalfway, Writes
<1>7. CASE MoveStaysPending
  BY <1>7 DEF MoveStaysPending
<1>8. CASE ConfirmSkipped
  BY <1>8 DEF ConfirmSkipped
<1>9. CASE ConfirmWhole
  BY <1>9 DEF ConfirmWhole
<1>10. CASE ConfirmNothing
  BY <1>10 DEF ConfirmNothing
<1>11. CASE ConfirmFragment
  <2>1. dirty' \in BOOLEAN
    BY <1>11, Zenon DEF ConfirmFragment, DeleteFragment
  <2>2. whole' \in Nat /\ fragments' \in {0, 1}
    BY <1>11 DEF ConfirmFragment, DeleteFragment
  <2>3. TypeOK'
    BY <1>11, <2>1, <2>2 DEF ConfirmFragment, DeleteFragment
  <2>4. Landed'
    <3>1. whole' = whole /\ late' = late /\ stage' = "failed"
      BY <1>11 DEF ConfirmFragment, DeleteFragment
    <3>2. fragments > 0 /\ whole - late = 0
      BY <1>11 DEF ConfirmFragment
    <3> QED
      BY <2>2, <3>1, <3>2
  <2>5. Settled' /\ OkIsArchived'
    BY <1>11 DEF ConfirmFragment, DeleteFragment
  <2> QED
    BY <2>3, <2>4, <2>5
<1>12. CASE GiveUp
  BY <1>12 DEF GiveUp
<1>13. CASE BackOff
  BY <1>13 DEF BackOff
<1>14. CASE BackedOff
  BY <1>14 DEF BackedOff
<1>15. CASE SettleNothing
  BY <1>15 DEF SettleNothing
<1>16. CASE SettleLanded
  BY <1>16 DEF SettleLanded
<1>17. CASE SettleFragment
  <2>1. dirty' \in BOOLEAN
    BY <1>17, Zenon DEF SettleFragment, DeleteFragment
  <2>2. whole' \in Nat /\ fragments' \in {0, 1}
    BY <1>17 DEF SettleFragment, DeleteFragment
  <2>3. TypeOK'
    BY <1>17, <2>1, <2>2 DEF SettleFragment, DeleteFragment
  <2>4. Landed'
    <3>1. whole' = whole /\ late' = late /\ stage' = "move"
      BY <1>17 DEF SettleFragment, DeleteFragment
    <3>2. fragments > 0 /\ whole - late = 0
      BY <1>17 DEF SettleFragment
    <3> QED
      BY <2>2, <3>1, <3>2
  <2>5. Settled' /\ OkIsArchived'
    BY <1>17 DEF SettleFragment, DeleteFragment
  <2> QED
    BY <2>3, <2>4, <2>5
<1>18. CASE CommitLate
  BY <1>18 DEF CommitLate
<1>19. CASE Cancel
  BY <1>19 DEF Cancel
<1>20. CASE UNCHANGED vars
  BY <1>20 DEF vars
<1> QED
  BY <1>1, <1>2, <1>3, <1>4, <1>5, <1>6, <1>7, <1>8, <1>9, <1>10, <1>11, <1>12, <1>13,
     <1>14, <1>15, <1>16, <1>17, <1>18, <1>19, <1>20
     DEF Next, Steps, Returned

THEOREM Inductive == Spec => []IInv
BY IInvInit, IInvStep, PTL DEF Spec

(* Types.                                                                  *)
THEOREM TypesHold == Spec => []TypeOK
<1>1. IInv => TypeOK
  BY DEF IInv
<1> QED
  BY <1>1, Inductive, PTL

(* An upload that returned nil put the file on the remote.                 *)
THEOREM SuccessIsArchived == Spec => []OkIsArchived
<1>1. IInv => OkIsArchived
  BY DEF IInv
<1> QED
  BY <1>1, Inductive, PTL

(* Each retry finds a clean name, or an error has said why not.            *)
THEOREM RetriesAreClean == Spec => []RetryIsClean
<1>1. IInv => RetryIsClean
  BY DEF IInv, Settled, RetryIsClean
<1> QED
  BY <1>1, Inductive, PTL

(* No retry uploads a second time what has landed.                         *)
THEOREM RetriesDoNotDouble == Spec => []OneUploadLands
<1>1. IInv => OneUploadLands
  BY DEF IInv, TypeOK, Landed, OneUploadLands
<1> QED
  BY <1>1, Inductive, PTL

(* No step takes a whole object off the remote.                            *)
THEOREM WholeObjectsStay == Spec => WholeKept
<1>1. ASSUME TypeOK, [Next]_vars
      PROVE  [whole' >= whole]_vars
  BY <1>1
     DEF TypeOK, Next, Steps, Returned, vars, remote, run, MoveFails, MoveFindsWhole,
         MoveStarts, MoveArrives, MoveArrivesShort, MoveDiesHalfway, MoveStaysPending,
         Writes, ConfirmSkipped, ConfirmWhole, ConfirmNothing, ConfirmFragment, GiveUp,
         BackOff, BackedOff, SettleNothing, SettleLanded, SettleFragment, DeleteFragment,
         CommitLate, Cancel
<1> QED
  BY <1>1, TypesHold, PTL DEF Spec, WholeKept
=============================================================================
