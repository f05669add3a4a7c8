--------------------------- MODULE TransferProofs ---------------------------
(***************************************************************************)
(* Proofs about Transfer for files of any number of parts, any number of   *)
(* connections, passes and restarts.                                       *)
(***************************************************************************)
EXTENDS Transfer, FiniteSetTheorems, TLAPS

(***************************************************************************)
(* A transfer that nothing broke has claimed every part in order, and what *)
(* it claimed is in the file or in flight; one that broke has said so,     *)
(* either to the logger or by returning.                                   *)
(***************************************************************************)
Fetched ==
    /\ stage = "fetching" /\ ~broken =>
          \A p \in 1 .. Parts : p < next => p \in written \/ p \in flying
    /\ stage = "finishing" /\ ~broken => \A p \in 1 .. Parts : p \in written
    /\ stage \in {"fetching", "finishing"} /\ broken => cause \/ returned
    /\ flying # {} => stage = "fetching"

IInv == TypeOK /\ Fetched /\ HolesAreLogged /\ PartialsSwept

LEMMA IInvInit == Init => IInv
<1> SUFFICES ASSUME Init
             PROVE  IInv
  OBVIOUS
<1>1. next \in 1 .. (Parts + 1) /\ attempt \in 1 .. Attempts /\ restarts \in 0 .. Restarts
  BY TransferAssumption DEF Init
<1>2. /\ partFile \in BOOLEAN /\ broken \in BOOLEAN /\ cause \in BOOLEAN
      /\ returned \in BOOLEAN /\ stuck \in BOOLEAN
  BY Zenon DEF Init
<1>3. TypeOK
  BY <1>1, <1>2 DEF Init, TypeOK
<1> QED
  BY <1>3 DEF Init, IInv, Fetched, HolesAreLogged, PartialsSwept

LEMMA IInvStep == IInv /\ [Next]_vars => IInv'
<1> SUFFICES ASSUME IInv, [Next]_vars
             PROVE  IInv'
  OBVIOUS
<1> USE TransferAssumption DEF IInv, TypeOK, Fetched, HolesAreLogged, PartialsSwept
<1>1. CASE OpenPart
  <2>1. next' \in 1 .. (Parts + 1) /\ attempt' \in 1 .. Attempts
    BY <1>1 DEF OpenPart
  <2>2. partFile' \in BOOLEAN /\ broken' \in BOOLEAN /\ cause' \in BOOLEAN
        /\ returned' \in BOOLEAN /\ stuck' \in BOOLEAN
    BY <1>1, Zenon DEF OpenPart
  <2>3. TypeOK'
    BY <1>1, <2>1, <2>2 DEF OpenPart
  <2>4. Fetched'
    BY <1>1 DEF OpenPart
  <2>5. HolesAreLogged'
    BY <1>1 DEF OpenPart
  <2>6. PartialsSwept'
    BY <1>1 DEF OpenPart
  <2> QED
    BY <2>3, <2>4, <2>5, <2>6
<1>2. CASE Claim
  BY <1>2 DEF Claim
<1>3. ASSUME NEW p \in 1 .. Parts, Land(p)
      PROVE  IInv'
  BY <1>3 DEF Land
<1>4. ASSUME NEW p \in 1 .. Parts, FetchFails(p)
      PROVE  IInv'
  BY <1>4 DEF FetchFails
<1>5. CASE CancelTransfer
  BY <1>5 DEF CancelTransfer
<1>6. ASSUME NEW p \in 1 .. Parts, Abandon(p)
      PROVE  IInv'
  BY <1>6 DEF Abandon
<1>7. CASE TransferEnds
  BY <1>7 DEF TransferEnds, transfer
<1>8. CASE Promote
  <2>1. final' = "holed" => broken
    BY <1>8 DEF Promote, Content
  <2> QED
    BY <1>8, <2>1 DEF Promote, Accepted, Content, transfer
<1>9. CASE Reject
  BY <1>9 DEF Reject, transfer
<1>10. CASE RetryPass
  BY <1>10 DEF RetryPass, transfer
<1>11. CASE Crash
  BY <1>11 DEF Crash
<1>12. CASE Restart
  <2>1. next' \in 1 .. (Parts + 1) /\ attempt' \in 1 .. Attempts
    BY <1>12 DEF Restart, transfer
  <2>2. partFile' \in BOOLEAN /\ broken' \in BOOLEAN /\ cause' \in BOOLEAN
        /\ returned' \in BOOLEAN /\ stuck' \in BOOLEAN
    BY <1>12, Zenon DEF Restart, transfer
  <2>3. TypeOK'
    BY <1>12, <2>1, <2>2 DEF Restart, transfer
  <2>4. Fetched'
    BY <1>12 DEF Restart, transfer
  <2>5. HolesAreLogged'
    BY <1>12 DEF Restart, transfer
  <2>6. PartialsSwept'
    BY <1>12 DEF Restart, transfer
  <2> QED
    BY <2>3, <2>4, <2>5, <2>6
<1>13. CASE UNCHANGED vars
  BY <1>13 DEF vars, transfer
<1> QED
  BY <1>1, <1>2, <1>3, <1>4, <1>5, <1>6, <1>7, <1>8, <1>9, <1>10, <1>11, <1>12, <1>13
     DEF Next, Steps, Over

THEOREM Inductive == Spec => []IInv
BY IInvInit, IInvStep, PTL DEF Spec

(* Types.                                                                  *)
THEOREM TypesHold == Spec => []TypeOK
<1>1. IInv => TypeOK
  BY DEF IInv
<1> QED
  BY <1>1, Inductive, PTL

(* However many connections fetch a file, finish only ever promotes one    *)
(* with holes when the downloader had logged why a part failed.            *)
THEOREM HolesAreAlwaysLogged == Spec => []HolesAreLogged
<1>1. IInv => HolesAreLogged
  BY DEF IInv
<1> QED
  BY <1>1, Inductive, PTL

(* No pass and no dead process leaves a .part file it could have removed.  *)
THEOREM PartialsAreSwept == Spec => []PartialsSwept
<1>1. IInv => PartialsSwept
  BY DEF IInv
<1> QED
  BY <1>1, Inductive, PTL

-----------------------------------------------------------------------------
(***************************************************************************)
(* One connection.  The parts land in order, so what is in the file has no *)
(* hole before its end, whatever an earlier pass left in it.               *)
(***************************************************************************)
InOrder ==
    /\ \A p \in written : \A q \in 1 .. p : q \in written
    /\ \A p \in flying : p = next - 1
    /\ stage = "fetching" /\ (flying # {} \/ ~broken) =>
          \A p \in 1 .. Parts : p < next => p \in written \/ p \in flying

SequentialInv == IInv /\ InOrder /\ FinalIsWhole

LEMMA SequentialInit == Init => SequentialInv
<1>1. Init => InOrder /\ FinalIsWhole
  BY DEF Init, InOrder, FinalIsWhole
<1> QED
  BY <1>1, IInvInit DEF SequentialInv

LEMMA SequentialStep ==
  ASSUME Threads = 1
  PROVE  SequentialInv /\ [Next]_vars => SequentialInv'
<1> SUFFICES ASSUME SequentialInv, [Next]_vars
             PROVE  InOrder' /\ FinalIsWhole'
  BY IInvStep DEF SequentialInv
<1> USE TransferAssumption DEF SequentialInv, IInv, TypeOK, InOrder, FinalIsWhole
<1>1. CASE OpenPart
  BY <1>1 DEF OpenPart, Fetched
<1>2. CASE Claim
  <2>1. flying = {}
    <3>1. IsFiniteSet(flying)
      <4>1. Parts \in Int /\ 1 \in Int /\ flying \in SUBSET (1 .. Parts)
        OBVIOUS
      <4> QED
        BY <4>1, FS_Interval, FS_Subset
    <3>2. Cardinality(flying) = 0
      BY <1>2, <3>1, FS_CardinalityType DEF Claim
    <3> QED
      BY <3>1, <3>2, FS_EmptySet
  <2> QED
    BY <1>2, <2>1 DEF Claim
<1>3. ASSUME NEW p \in 1 .. Parts, Land(p)
      PROVE  InOrder' /\ FinalIsWhole'
  <2>1. stage = "fetching"
    BY <1>3 DEF Land, Fetched
  <2>2. \A q \in 1 .. p : q # p => q \in written
    BY <1>3, <2>1 DEF Land
  <2> QED
    BY <1>3, <2>1, <2>2 DEF Land
<1>4. ASSUME NEW p \in 1 .. Parts, FetchFails(p)
      PROVE  InOrder' /\ FinalIsWhole'
  BY <1>4 DEF FetchFails
<1>5. CASE CancelTransfer
  BY <1>5 DEF CancelTransfer
<1>6. ASSUME NEW p \in 1 .. Parts, Abandon(p)
      PROVE  InOrder' /\ FinalIsWhole'
  BY <1>6 DEF Abandon
<1>7. CASE TransferEnds
  BY <1>7 DEF TransferEnds, transfer
<1>8. CASE Promote
  <2>1. SizeMatches => written = 1 .. Parts
    <3>1. written \subseteq 1 .. Parts
      OBVIOUS
    <3>2. Parts \in written => \A q \in 1 .. Parts : q \in written
      OBVIOUS
    <3>3. Parts = 0 => 1 .. Parts = {}
      OBVIOUS
    <3> QED
      BY <3>1, <3>2, <3>3, Zenon DEF SizeMatches
  <2> QED
    BY <1>8, <2>1 DEF Promote, Accepted, Content, transfer, Fetched
<1>9. CASE Reject
  BY <1>9 DEF Reject, transfer
<1>10. CASE RetryPass
  BY <1>10 DEF RetryPass, transfer
<1>11. CASE Crash
  BY <1>11 DEF Crash
<1>12. CASE Restart
  BY <1>12 DEF Restart, transfer, Fetched
<1>13. CASE UNCHANGED vars
  BY <1>13 DEF vars, transfer
<1> QED
  BY <1>1, <1>2, <1>3, <1>4, <1>5, <1>6, <1>7, <1>8, <1>9, <1>10, <1>11, <1>12, <1>13
     DEF Next, Steps, Over

(* README: a file without the suffix is always whole.  It is, over a       *)
(* single connection; with two, module Transfer's runs show the exception. *)
THEOREM SequentialIsWhole ==
  ASSUME Threads = 1
  PROVE  Spec => []FinalIsWhole
<1>1. SequentialInv => FinalIsWhole
  BY DEF SequentialInv
<1> QED
  BY <1>1, SequentialInit, SequentialStep, PTL DEF Spec
=============================================================================
