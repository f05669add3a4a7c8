-------------------------- MODULE ReportingProofs --------------------------
(***************************************************************************)
(* Proofs about Reporting, for any files, sizes, connections and passes:   *)
(* its types, that the totals shown are honest, and which bars Finish may  *)
(* be left waiting for.                                                    *)
(*                                                                         *)
(* The counters are sums over the transfers that are under way, kept in    *)
(* step by callbacks that each touch one of them.  A sum of natural        *)
(* numbers is taken as the cardinality of a set of (item, unit) pairs, the *)
(* way Weights takes bytes, so that one step changes one summand.          *)
(***************************************************************************)
EXTENDS Reporting, FiniteSetTheorems, SequenceTheorems, TLAPS

-----------------------------------------------------------------------------
(***************************************************************************)
(* Sums over sets of items.                                                *)
(***************************************************************************)
Units(f, S) == UNION {{i} \X (1 .. f[i]) : i \in S}

Weight(f, S) == Cardinality(Units(f, S))

Sum(f) == Weight(f, Items)

LEMMA UnitsOfOne ==
    ASSUME NEW n \in Nat, NEW i
    PROVE  IsFiniteSet({i} \X (1 .. n)) /\ Cardinality({i} \X (1 .. n)) = n
<1>1. IsFiniteSet({i}) /\ Cardinality({i}) = 1
  BY FS_Singleton
<1>2. IsFiniteSet(1 .. n) /\ Cardinality(1 .. n) = n
  BY FS_Interval
<1>3. IsFiniteSet({i} \X (1 .. n)) /\ Cardinality({i} \X (1 .. n)) = 1 * n
  BY <1>1, <1>2, FS_Product
<1> QED
  BY <1>3

LEMMA UnitsFinite ==
    ASSUME NEW f \in [Items -> Nat], NEW S \in SUBSET Items
    PROVE  IsFiniteSet(Units(f, S)) /\ Weight(f, S) \in Nat
<1> DEFINE of == [i \in S |-> {i} \X (1 .. f[i])]
           K == {{i} \X (1 .. f[i]) : i \in S}
<1>1. IsFiniteSet(S)
  BY ItemsAssumption, FS_Subset
<1>2. of \in Surjection(S, K)
  BY DEF Surjection
<1>3. IsFiniteSet(K)
  BY <1>1, <1>2, FS_Surjection
<1>4. \A X \in K : IsFiniteSet(X)
  BY UnitsOfOne
<1>5. IsFiniteSet(UNION K)
  BY <1>3, <1>4, FS_UNION
<1> QED
  BY <1>5, FS_CardinalityType DEF Units, Weight

(* One more item adds its summand.                                         *)
LEMMA WeightAdd ==
    ASSUME NEW f \in [Items -> Nat], NEW S \in SUBSET Items, NEW i \in Items, i \notin S
    PROVE  Weight(f, S \cup {i}) = Weight(f, S) + f[i]
<1> DEFINE own == {i} \X (1 .. f[i])
<1>1. Units(f, S \cup {i}) = Units(f, S) \cup own
  BY DEF Units
<1>2. Units(f, S) \cap own = {}
  BY DEF Units
<1>3. IsFiniteSet(own) /\ Cardinality(own) = f[i]
  BY UnitsOfOne
<1>4. IsFiniteSet(Units(f, S)) /\ Weight(f, S) \in Nat
  BY UnitsFinite
<1>5. Cardinality(Units(f, S) \cap own) = 0
  BY <1>2, FS_EmptySet
<1> HIDE DEF own
<1>6. Cardinality(Units(f, S) \cup own)
        = Cardinality(Units(f, S)) + Cardinality(own) - 0
  BY <1>3, <1>4, <1>5, FS_Union
<1>7. Weight(f, S \cup {i}) = Weight(f, S) + f[i] - 0
  BY <1>1, <1>3, <1>6 DEF Weight
<1>8. f[i] \in Nat
  OBVIOUS
<1> QED
  BY <1>4, <1>7, <1>8

(* Two sums that differ in one summand differ by its change.               *)
LEMMA SumStep ==
    ASSUME NEW f \in [Items -> Nat], NEW g \in [Items -> Nat], NEW i \in Items,
           \A j \in Items \ {i} : f[j] = g[j]
    PROVE  Sum(f) \in Nat /\ Sum(g) \in Nat /\ Sum(g) = Sum(f) - f[i] + g[i]
<1> DEFINE S == Items \ {i}
<1>1. Items = S \cup {i} /\ S \in SUBSET Items /\ i \notin S
  OBVIOUS
<1>2. Units(f, S) = Units(g, S)
  BY DEF Units
<1> HIDE DEF S
<1>3. Weight(f, Items) = Weight(f, S) + f[i] /\ Weight(g, Items) = Weight(g, S) + g[i]
  BY <1>1, WeightAdd
<1>4. Weight(f, S) = Weight(g, S) /\ Weight(f, S) \in Nat
  BY <1>1, <1>2, UnitsFinite DEF Weight
<1> QED
  BY <1>3, <1>4 DEF Sum

LEMMA SumAtLeast ==
    ASSUME NEW f \in [Items -> Nat], NEW i \in Items
    PROVE  f[i] <= Sum(f)
<1> DEFINE g == [f EXCEPT ![i] = 0]
<1>1. g \in [Items -> Nat] /\ g[i] = 0 /\ \A j \in Items \ {i} : f[j] = g[j]
  OBVIOUS
<1> HIDE DEF g
<1>2. Sum(f) \in Nat /\ Sum(g) \in Nat /\ Sum(g) = Sum(f) - f[i] + g[i]
  BY <1>1, SumStep
<1> QED
  BY <1>1, <1>2

LEMMA SumOfNothing ==
    ASSUME NEW f \in [Items -> Nat], \A i \in Items : f[i] = 0
    PROVE  Sum(f) = 0
<1>1. Units(f, Items) = {}
  BY DEF Units
<1> QED
  BY <1>1, FS_EmptySet DEF Sum, Weight

LEMMA BytesAreWeight == \A S \in SUBSET Items : Bytes(S) = Weight(Size, S)
BY DEF Bytes, BytesOf, ItemBytes, Weight, Units

LEMMA BytesType ==
    ASSUME NEW S \in SUBSET Items
    PROVE  Bytes(S) \in Nat
BY BytesAreWeight, UnitsFinite, SizeAssumption

LEMMA BytesAdd ==
    ASSUME NEW S \in SUBSET Items, NEW i \in Items, i \notin S
    PROVE  Bytes(S \cup {i}) = Bytes(S) + Size[i]
BY BytesAreWeight, WeightAdd, SizeAssumption

LEMMA BytesMonotone ==
    ASSUME NEW T \in SUBSET Items, NEW S \in SUBSET T
    PROVE  Bytes(S) <= Bytes(T)
<1>1. BytesOf(S) \in SUBSET BytesOf(T)
  BY DEF BytesOf
<1>2. IsFiniteSet(BytesOf(T))
  BY UnitsFinite, SizeAssumption DEF Units, BytesOf, ItemBytes
<1> QED
  BY <1>1, <1>2, FS_Subset DEF Bytes

(* A set that weighs as much as the whole lacks empty files only.          *)
LEMMA BytesOfAll ==
    ASSUME NEW S \in SUBSET Items, Bytes(S) = Bytes(Items)
    PROVE  \A i \in Items \ S : Size[i] = 0
<1> SUFFICES ASSUME NEW i \in Items \ S
             PROVE  Size[i] = 0
  OBVIOUS
<1>1. S \cup {i} \in SUBSET Items
  OBVIOUS
<1>2. Bytes(S) + Size[i] <= Bytes(Items)
  BY <1>1, BytesAdd, BytesMonotone
<1> QED
  BY <1>2, BytesType, SizeAssumption

-----------------------------------------------------------------------------
(***************************************************************************)
(* Counting sets of items.                                                 *)
(***************************************************************************)
LEMMA CountIs ==
    ASSUME NEW S \in SUBSET Items
    PROVE  IsFiniteSet(S) /\ Cardinality(S) \in Nat /\ Cardinality(S) <= Cardinality(Items)
           /\ Cardinality(Items) \in Nat
BY ItemsAssumption, FS_Subset, FS_CardinalityType

LEMMA CountAdd ==
    ASSUME NEW S \in SUBSET Items, NEW i \in Items, i \notin S
    PROVE  Cardinality(S \cup {i}) = Cardinality(S) + 1
BY CountIs, FS_AddElement

LEMMA CountTwo ==
    ASSUME NEW S \in SUBSET Items, NEW T \in SUBSET Items, S \cap T = {}
    PROVE  Cardinality(S) + Cardinality(T) <= Cardinality(Items)
<1>1. Cardinality(S \cap T) = 0
  BY FS_EmptySet
<1>2. Cardinality(S \cup T) = Cardinality(S) + Cardinality(T) - 0
  BY <1>1, CountIs, FS_Union
<1>3. S \cup T \in SUBSET Items
  OBVIOUS
<1> QED
  BY <1>2, <1>3, CountIs
-----------------------------------------------------------------------------
(***************************************************************************)
(* What the queues of calls hold.                                          *)
(***************************************************************************)
Events ==
    [kind : {"start", "landed", "bytes", "total", "done", "upstart", "updone", "uptotal"},
     item : Items, bytes : Nat, ok : BOOLEAN]
      \cup [kind : {"legs"}, item : Items, bytes : Nat, files : Nat]

Counters == [done : Nat, failed : Nat, bytes : Nat]

Legs(i, s) == [kind |-> "legs", item |-> i, bytes |-> s.bytes, files |-> s.done + s.failed]

LEMMA EventType ==
    ASSUME NEW kind \in {"start", "landed", "bytes", "total", "done", "upstart", "updone",
                         "uptotal"},
           NEW i \in Items, NEW bytes \in Nat, NEW ok \in BOOLEAN
    PROVE  /\ Event(kind, i, bytes, ok) \in Events
           /\ Event(kind, i, bytes, ok).kind = kind
           /\ Event(kind, i, bytes, ok).item = i
           /\ Event(kind, i, bytes, ok).bytes = bytes
           /\ Event(kind, i, bytes, ok).ok = ok
BY DEF Event, Events

LEMMA LegsType ==
    ASSUME NEW i \in Items, NEW s \in Counters
    PROVE  /\ Legs(i, s) \in Events
           /\ Legs(i, s).kind = "legs"
           /\ Legs(i, s).item = i
           /\ Legs(i, s).bytes = s.bytes
           /\ Legs(i, s).files = s.done + s.failed
BY DEF Legs, Events, Counters

LEMMA EventParts ==
    ASSUME NEW e \in Events
    PROVE  /\ e.item \in Items /\ e.bytes \in Nat
           /\ e.kind = "legs" => e.files \in Nat
           /\ e.kind # "legs" => e.ok \in BOOLEAN
BY DEF Events

(* A queue of one call.                                                    *)
LEMMA OneCall ==
    ASSUME NEW e \in Events
    PROVE  /\ <<e>> \in Seq(Events) /\ Len(<<e>>) = 1 /\ Head(<<e>>) = e
           /\ \A k \in DOMAIN <<e>> : <<e>>[k] = e
OBVIOUS

LEMMA TwoCalls ==
    ASSUME NEW e \in Events, NEW f \in Events
    PROVE  /\ <<e, f>> \in Seq(Events)
           /\ \A k \in DOMAIN <<e, f>> : <<e, f>>[k] \in {e, f}
OBVIOUS

(* Two queues after one another hold what each of them holds.              *)
LEMMA CallsAfter ==
    ASSUME NEW q \in Seq(Events), NEW r \in Seq(Events)
    PROVE  /\ q \o r \in Seq(Events)
           /\ \A k \in DOMAIN (q \o r) :
                \/ \E j \in DOMAIN q : (q \o r)[k] = q[j]
                \/ \E j \in DOMAIN r : (q \o r)[k] = r[j]
<1>1. /\ q \o r \in Seq(Events)
      /\ Len(q \o r) = Len(q) + Len(r)
      /\ \A k \in 1 .. Len(q) + Len(r) :
           (q \o r)[k] = IF k <= Len(q) THEN q[k] ELSE r[k - Len(q)]
  BY ConcatProperties
<1>2. /\ Len(q) \in Nat /\ DOMAIN q = 1 .. Len(q)
      /\ Len(r) \in Nat /\ DOMAIN r = 1 .. Len(r)
      /\ DOMAIN (q \o r) = 1 .. Len(q) + Len(r)
  BY <1>1, LenProperties
<1>3. ASSUME NEW k \in DOMAIN (q \o r)
      PROVE  \/ \E j \in DOMAIN q : (q \o r)[k] = q[j]
             \/ \E j \in DOMAIN r : (q \o r)[k] = r[j]
  <2>1. k \in 1 .. Len(q) + Len(r)
    BY <1>2
  <2>2. CASE k <= Len(q)
    <3>1. k \in DOMAIN q /\ (q \o r)[k] = q[k]
      BY <1>1, <1>2, <2>1, <2>2
    <3> QED
      BY <3>1
  <2>3. CASE ~ (k <= Len(q))
    <3>1. k - Len(q) \in DOMAIN r /\ (q \o r)[k] = r[k - Len(q)]
      BY <1>1, <1>2, <2>1, <2>3
    <3> QED
      BY <3>1
  <2> QED
    BY <2>2, <2>3
<1> QED
  BY <1>1, <1>3

(* What a callback of the download leg has to tell: its event or two, then *)
(* the counters and the bar.                                               *)
LEMMA CallsOf ==
    ASSUME NEW q \in Seq(Events), NEW i \in Items, NEW s \in Counters
    PROVE  /\ q \o Snapshot(i, s) \in Seq(Events)
           /\ \A k \in DOMAIN (q \o Snapshot(i, s)) :
                \/ \E j \in DOMAIN q : (q \o Snapshot(i, s))[k] = q[j]
                \/ (q \o Snapshot(i, s))[k] \in {Legs(i, s), Event("total", i, s.bytes, TRUE)}
<1>1. s.bytes \in Nat
  BY DEF Counters
<1>2. Legs(i, s) \in Events /\ Event("total", i, s.bytes, TRUE) \in Events
  BY <1>1, LegsType, EventType
<1>3. Snapshot(i, s) = <<Legs(i, s), Event("total", i, s.bytes, TRUE)>>
  BY DEF Snapshot, Legs
<1>4. /\ Snapshot(i, s) \in Seq(Events)
      /\ \A k \in DOMAIN Snapshot(i, s) :
           Snapshot(i, s)[k] \in {Legs(i, s), Event("total", i, s.bytes, TRUE)}
  BY <1>2, <1>3, TwoCalls
<1> QED
  BY <1>4, CallsAfter

(* What is left to tell after the first call.                              *)
LEMMA RestOf ==
    ASSUME NEW q \in Seq(Events), q # <<>>
    PROVE  /\ Head(q) \in Events /\ Head(q) = q[1] /\ 1 \in DOMAIN q
           /\ Tail(q) \in Seq(Events) /\ Len(Tail(q)) = Len(q) - 1
           /\ \A k \in DOMAIN Tail(q) : k + 1 \in DOMAIN q /\ Tail(q)[k] = q[k + 1]
<1>1. Len(q) \in Nat /\ Len(q) > 0 /\ DOMAIN q = 1 .. Len(q)
  OBVIOUS
<1>2. Tail(q) \in Seq(Events) /\ Len(Tail(q)) = Len(q) - 1
      /\ \A k \in 1 .. Len(q) - 1 : Tail(q)[k] = q[k + 1]
  BY HeadTailProperties
<1>3. Head(q) = q[1] /\ Head(q) \in Events
  BY <1>1
<1>4. DOMAIN Tail(q) = 1 .. Len(q) - 1
  BY <1>2
<1> QED
  BY <1>1, <1>2, <1>3, <1>4
-----------------------------------------------------------------------------
(***************************************************************************)
(* The invariant.                                                          *)
(***************************************************************************)
Fetches == {"queued", "moving", "promoted", "spoilt", "done", "failed", "lost"}

Bars == {"down", "up"} \X Items

(* Every variable in its type, the queues too.                             *)
Typing ==
    /\ phase \in {"pass", "draining", "waiting", "summary"}
    /\ attempt \in 1 .. Attempts
    /\ fetch \in [Items -> Fetches]
    /\ upload \in [Items -> {"none", "ready", "moving", "archived", "failed"}]
    /\ got \in [Items -> Nat] /\ arrived \in Nat
    /\ stats \in Counters
    /\ inFlight \in [Items -> Nat]
    /\ say \in [Goroutines -> Seq(Events)]
    /\ terminal \in BOOLEAN
    /\ legs \in [dlFiles : Nat, dlBytes : Nat, upFiles : Nat, upBytes : Nat]
    /\ listed \subseteq Bars
    /\ live \subseteq Bars \cup Totals
    /\ shown \in [down : Nat, up : Nat]

Underway == {"moving", "promoted", "spoilt"}

\* what has landed of a transfer and is not counted yet
owed == [i \in Items |-> IF fetch[i] \in Underway THEN got[i] - inFlight[i] ELSE 0]

(* The bytes counted are no more than those that landed, now or later.     *)
Fetching ==
    /\ \A i \in Items :
         IF fetch[i] \in Underway THEN inFlight[i] <= got[i] ELSE inFlight[i] = 0
    /\ Sum(inFlight) <= stats.bytes
    /\ stats.bytes + Sum(owed) <= arrived

Done == {i \in Items : fetch[i] = "done"}

(* The files counted are those whose transfer is over.                     *)
Counting == stats.done = Cardinality(Done) /\ stats.failed = Cardinality(Failed)

(* A call of goroutine g that has still to be made says nothing that is    *)
(* not so, when the item's transfer is at a place, with so many bytes, its *)
(* upload at another, and so much has landed and is shown as archived.     *)
Agrees(g, e, place, bytes, up, landed, archived) ==
    /\ e.item = g[1]
    /\ e.kind \in {"upstart", "updone", "uptotal"} <=> g[2] = "uploader"
    /\ e.kind = "landed" => place = "moving" /\ e.bytes <= bytes
    /\ e.kind = "legs" => e.files <= Cardinality(Items)
    /\ e.kind \in {"legs", "total"} => e.bytes <= landed
    /\ e.kind = "updone" => e.bytes = Size[g[1]] /\ up = IF e.ok THEN "archived" ELSE "failed"
    /\ e.kind = "uptotal" => e.bytes <= archived
    /\ e.kind = "done" => e.bytes = Size[g[1]]

Sound(g, e) == Agrees(g, e, fetch[g[1]], got[g[1]], upload[g[1]], arrived, legs.upBytes)

Saying == \A g \in Goroutines : \A k \in DOMAIN say[g] : Sound(g, say[g][k])

Reports(i) == say[<<i, "uploader">>]

(* The archived files the renderer has heard of.                           *)
Announced ==
    {i \in Items : upload[i] = "archived" /\ \A k \in DOMAIN Reports(i) :
                                              Reports(i)[k].kind # "updone"}

Telling ==
    /\ \A i \in Items : Len(Reports(i)) <= 1
    /\ legs.upFiles = Cardinality(Announced)
    /\ legs.upBytes = Bytes(Announced)

Showing ==
    /\ legs.dlFiles <= Cardinality(Items) /\ legs.dlBytes <= arrived
    /\ shown.down <= arrived /\ shown.up <= legs.upBytes

(* Only a file that was promoted reaches the upload leg, and no pass takes *)
(* it up again.                                                            *)
Handing == \A i \in Items : upload[i] # "none" => fetch[i] \in {"promoted", "done"}

IInv == Typing /\ Fetching /\ Counting /\ Handing /\ Saying /\ Telling /\ Showing

-----------------------------------------------------------------------------
(***************************************************************************)
(* Steps of the download leg, by what they do to the transfers.            *)
(***************************************************************************)
Downloads(i) ==
    \/ OnAdd(i) \/ Finish(i) \/ OnDone(i) \/ Refused(i)
    \/ \E t \in Threads : Land(i, t) \/ OnDownload(i, t)

UploadsStep(i) == StartUpload(i) \/ EndUpload(i)

(* What does not belong to the download leg leaves its variables alone.    *)
LEMMA StepsAre ==
    ASSUME [Next]_vars
    PROVE  \/ \E i \in Items : Downloads(i)
           \/ \E i \in Items : UploadsStep(i)
           \/ \E g \in Goroutines : Renders(g)
           \/ PassOver \/ Drain \/ Summarise
           \/ UNCHANGED vars
BY DEF Next, Works, Over, Downloads, UploadsStep

LEMMA RendersKeep ==
    ASSUME NEW g \in Goroutines, Renders(g)
    PROVE  UNCHANGED <<leg, download, upload, terminal>> /\ ~Quiet(g)
BY DEF Renders, Hears, DownloadStart, DownloadBytes, DownloadDone, SetDownload, ShowDownload,
       UploadStart, UploadDone, ShowUpload, Opens

LEMMA FetchingType ==
    ASSUME Typing, Fetching
    PROVE  /\ owed \in [Items -> Nat]
           /\ Sum(inFlight) \in Nat /\ Sum(owed) \in Nat
           /\ \A i \in Items : inFlight[i] \in Nat /\ inFlight[i] <= stats.bytes
           /\ stats.bytes \in Nat /\ stats.done \in Nat /\ stats.failed \in Nat
           /\ stats.bytes <= arrived /\ arrived \in Nat
<1>1. owed \in [Items -> Nat]
  BY DEF Typing, Fetching, owed
<1>2. Sum(inFlight) \in Nat /\ Sum(owed) \in Nat
  BY <1>1, UnitsFinite DEF Sum, Typing
<1>3. stats.bytes \in Nat /\ stats.done \in Nat /\ stats.failed \in Nat /\ arrived \in Nat
  BY DEF Typing, Counters
<1>4. ASSUME NEW i \in Items
      PROVE  inFlight[i] \in Nat /\ inFlight[i] <= stats.bytes
  <2>1. inFlight \in [Items -> Nat]
    BY DEF Typing
  <2>2. inFlight[i] <= Sum(inFlight)
    BY <2>1, SumAtLeast
  <2> QED
    BY <2>1, <2>2, <1>2, <1>3 DEF Fetching
<1> QED
  BY <1>1, <1>2, <1>3, <1>4 DEF Fetching

(* A step of one transfer changes one summand of either sum.               *)
LEMMA OneTransfer ==
    ASSUME Typing, Fetching, Typing', NEW i \in Items,
           \A j \in Items \ {i} :
             fetch'[j] = fetch[j] /\ got'[j] = got[j] /\ inFlight'[j] = inFlight[j],
           IF fetch'[i] \in Underway THEN inFlight'[i] <= got'[i] ELSE inFlight'[i] = 0
    PROVE  /\ Sum(inFlight) \in Nat /\ Sum(inFlight') \in Nat
           /\ Sum(inFlight') = Sum(inFlight) - inFlight[i] + inFlight'[i]
           /\ Sum(owed) \in Nat /\ Sum(owed') \in Nat
           /\ Sum(owed') = Sum(owed) - owed[i] + owed'[i]
           /\ \A j \in Items :
                IF fetch'[j] \in Underway THEN inFlight'[j] <= got'[j] ELSE inFlight'[j] = 0
<1>1. inFlight \in [Items -> Nat] /\ inFlight' \in [Items -> Nat]
  BY DEF Typing
<1>2. \A j \in Items :
        IF fetch'[j] \in Underway THEN inFlight'[j] <= got'[j] ELSE inFlight'[j] = 0
  BY DEF Fetching
<1>3. owed \in [Items -> Nat]
  BY FetchingType
<1>4. owed' \in [Items -> Nat]
  <2>1. got' \in [Items -> Nat]
    BY DEF Typing
  <2>2. \A j \in Items : (IF fetch'[j] \in Underway THEN got'[j] - inFlight'[j] ELSE 0) \in Nat
    BY <1>1, <1>2, <2>1
  <2> QED
    BY <2>2 DEF owed
<1>5. \A j \in Items \ {i} : owed[j] = owed'[j]
  BY DEF owed
<1>6. Sum(inFlight) \in Nat /\ Sum(inFlight') \in Nat
      /\ Sum(inFlight') = Sum(inFlight) - inFlight[i] + inFlight'[i]
  BY <1>1, SumStep
<1>7. Sum(owed) \in Nat /\ Sum(owed') \in Nat
      /\ Sum(owed') = Sum(owed) - owed[i] + owed'[i]
  BY <1>3, <1>4, <1>5, SumStep
<1> QED
  BY <1>2, <1>6, <1>7

LEMMA FetchingFramed ==
    ASSUME Fetching, UNCHANGED <<fetch, got, inFlight, arrived>>, stats'.bytes = stats.bytes
    PROVE  Fetching'
BY DEF Fetching, owed

LEMMA FetchingOnDownloads ==
    ASSUME IInv, Typing', NEW i \in Items, Downloads(i)
    PROVE  Fetching'
<1>t. /\ fetch \in [Items -> Fetches] /\ got \in [Items -> Nat] /\ inFlight \in [Items -> Nat]
      /\ stats.bytes \in Nat /\ arrived \in Nat
      /\ Typing /\ Fetching
  BY DEF IInv, Typing, Counters
<1> DEFINE new == IF fetch'[i] \in Underway THEN inFlight'[i] <= got'[i] ELSE inFlight'[i] = 0
           alone == \A j \in Items \ {i} :
                      fetch'[j] = fetch[j] /\ got'[j] = got[j] /\ inFlight'[j] = inFlight[j]
<1>0. owed[i] = (IF fetch[i] \in Underway THEN got[i] - inFlight[i] ELSE 0)
      /\ owed'[i] = (IF fetch'[i] \in Underway THEN got'[i] - inFlight'[i] ELSE 0)
  BY DEF owed
<1>00. IF fetch[i] \in Underway THEN inFlight[i] <= got[i] ELSE inFlight[i] = 0
  BY <1>t DEF Fetching
<1>d. ASSUME alone, new,
             stats'.bytes - inFlight'[i] >= stats.bytes - inFlight[i],
             stats'.bytes + owed'[i] - arrived' <= stats.bytes + owed[i] - arrived
      PROVE  Fetching'
  <2>1. /\ Sum(inFlight) \in Nat /\ Sum(inFlight') \in Nat
        /\ Sum(inFlight') = Sum(inFlight) - inFlight[i] + inFlight'[i]
        /\ Sum(owed) \in Nat /\ Sum(owed') \in Nat
        /\ Sum(owed') = Sum(owed) - owed[i] + owed'[i]
        /\ \A j \in Items :
             IF fetch'[j] \in Underway THEN inFlight'[j] <= got'[j] ELSE inFlight'[j] = 0
    BY <1>t, <1>d, OneTransfer
  <2>2. owed[i] \in Nat /\ owed'[i] \in Int /\ inFlight[i] \in Nat /\ inFlight'[i] \in Nat
        /\ stats'.bytes \in Nat /\ arrived' \in Nat
    <3>1. inFlight'[i] \in Nat /\ got'[i] \in Nat /\ stats'.bytes \in Nat /\ arrived' \in Nat
      BY DEF Typing, Counters
    <3>2. owed'[i] \in Int
      BY <3>1, <1>0
    <3>3. owed[i] \in Nat /\ inFlight[i] \in Nat
      BY <1>t, <1>0, <1>00
    <3> QED
      BY <3>1, <3>2, <3>3
  <2>3. Sum(inFlight) <= stats.bytes /\ stats.bytes + Sum(owed) <= arrived
    BY <1>t DEF Fetching
  <2>4. Sum(inFlight') <= stats'.bytes
    BY <2>1, <2>2, <2>3, <1>t, <1>d
  <2>5. stats'.bytes + Sum(owed') <= arrived'
    BY <2>1, <2>2, <2>3, <1>t, <1>d
  <2> QED
    BY <2>1, <2>4, <2>5 DEF Fetching
<1>1. CASE OnAdd(i)
  <2>1. alone /\ new
    BY <1>1, <1>t, <1>00 DEF OnAdd, Underway
  <2>2. inFlight'[i] = 0 /\ inFlight[i] = 0 /\ owed'[i] = 0 /\ owed[i] = 0
        /\ stats' = stats /\ arrived' = arrived
    BY <1>1, <1>t, <1>0, <1>00 DEF OnAdd, Underway
  <2> QED
    BY <2>1, <2>2, <1>d, <1>t
<1>2. ASSUME NEW t \in Threads, Land(i, t)
      PROVE  Fetching'
  <2>1. alone /\ new
    BY <1>2, <1>t, <1>00 DEF Land, Underway
  <2>2. inFlight'[i] = inFlight[i] /\ owed'[i] = owed[i] + 1
        /\ stats' = stats /\ arrived' = arrived + 1 /\ owed[i] \in Nat /\ inFlight[i] \in Nat
    BY <1>2, <1>t, <1>0, <1>00 DEF Land, Underway
  <2> QED
    BY <2>1, <2>2, <1>d, <1>t
<1>3. ASSUME NEW t \in Threads, OnDownload(i, t)
      PROVE  Fetching'
  <2> DEFINE g == <<i, t>>
             running == Head(say[g]).bytes
  <2>1. g \in Goroutines /\ say[g] \in Seq(Events) /\ say[g] # <<>>
        /\ Head(say[g]).kind = "landed"
    BY <1>3, <1>t DEF Typing, OnDownload, Quiet, Goroutines
  <2>2. Head(say[g]) \in Events /\ Head(say[g]) = say[g][1] /\ 1 \in DOMAIN say[g]
    BY <2>1, RestOf
  <2>3. Sound(g, Head(say[g])) /\ running \in Nat
    BY <2>1, <2>2, EventParts DEF IInv, Saying
  <2>4. fetch[i] = "moving" /\ running <= got[i]
    BY <2>1, <2>3 DEF Sound, Agrees
  <2>5. alone /\ new
    BY <1>3, <1>t, <2>3, <2>4 DEF OnDownload, Underway
  <2>6. inFlight'[i] = running /\ arrived' = arrived
        /\ owed[i] = got[i] - inFlight[i] /\ owed'[i] = got[i] - running
        /\ stats'.bytes = stats.bytes + running - inFlight[i]
    BY <1>3, <1>t, <1>0, <2>4 DEF OnDownload, Underway, Typing, Counters
  <2> HIDE DEF running
  <2>7. inFlight[i] \in Nat /\ got[i] \in Nat
    BY <1>t
  <2> QED
    BY <2>3, <2>5, <2>6, <2>7, <1>d, <1>t
<1>4. CASE Finish(i)
  <2>1. alone /\ new
    BY <1>4, <1>t, <1>00 DEF Finish, Underway
  <2>2. inFlight'[i] = inFlight[i] /\ owed'[i] = owed[i] /\ owed[i] \in Nat
        /\ stats' = stats /\ arrived' = arrived /\ inFlight[i] \in Nat
    BY <1>4, <1>t, <1>0, <1>00 DEF Finish, Underway
  <2> QED
    BY <2>1, <2>2, <1>d, <1>t
<1>5. CASE OnDone(i)
  <2>1. alone /\ new
    BY <1>5, <1>t, <1>00 DEF OnDone, Underway
  <2>2. inFlight'[i] = 0 /\ owed'[i] = 0 /\ arrived' = arrived
    BY <1>5, <1>t, <1>0 DEF OnDone, Underway
  <2>3. stats'.bytes = stats.bytes
    BY <1>5, <1>t DEF OnDone, Typing, Counters
  <2>4. owed[i] \in Nat /\ inFlight[i] \in Nat
    BY <1>t, <1>0, <1>00
  <2> QED
    BY <2>1, <2>2, <2>3, <2>4, <1>d, <1>t
<1>6. CASE Refused(i)
  <2>1. alone /\ new
    BY <1>6, <1>t, <1>00 DEF Refused, Underway
  <2>2. inFlight'[i] = inFlight[i] /\ owed'[i] = 0 /\ owed[i] = 0
        /\ stats'.bytes = stats.bytes /\ arrived' = arrived /\ inFlight[i] \in Nat
    BY <1>6, <1>t, <1>0, <1>00 DEF Refused, Underway, Typing, Counters
  <2> QED
    BY <2>1, <2>2, <1>d, <1>t
<1> QED
  BY <1>1, <1>2, <1>3, <1>4, <1>5, <1>6 DEF Downloads

-----------------------------------------------------------------------------
(***************************************************************************)
(* Types.                                                                  *)
(***************************************************************************)
LEMMA GoroutineOf ==
    ASSUME NEW i \in Items
    PROVE  /\ <<i, "main">> \in Goroutines /\ <<i, "uploader">> \in Goroutines
           /\ \A t \in Threads : <<i, t>> \in Goroutines /\ t # "uploader" /\ t # "main"
BY ReportingAssumption DEF Goroutines

LEMMA TellsType ==
    ASSUME Typing, NEW g \in Goroutines, NEW q \in Seq(Events), Tells(g, q)
    PROVE  /\ say' \in [Goroutines -> Seq(Events)]
           /\ say'[g] = q /\ \A h \in Goroutines \ {g} : say'[h] = say[h]
BY DEF Typing, Tells

(* What a goroutine whose callback is under way is about to say.           *)
LEMMA NextCall ==
    ASSUME Typing, NEW g \in Goroutines, ~Quiet(g)
    PROVE  /\ say[g] \in Seq(Events) /\ say[g] # <<>>
           /\ Head(say[g]) \in Events /\ Head(say[g]).item \in Items
           /\ Head(say[g]).bytes \in Nat
           /\ Head(say[g]).kind = "legs" => Head(say[g]).files \in Nat
           /\ Head(say[g]).kind # "legs" => Head(say[g]).ok \in BOOLEAN
           /\ Tail(say[g]) \in Seq(Events)
<1>1. say[g] \in Seq(Events) /\ say[g] # <<>>
  BY DEF Typing, Quiet
<1> QED
  BY <1>1, RestOf, EventParts

LEMMA CountersType ==
    ASSUME IInv
    PROVE  /\ [stats EXCEPT !.done = @ + 1] \in Counters
           /\ [stats EXCEPT !.failed = @ + 1] \in Counters
           /\ Rollback(stats) \in Counters
           /\ Rollback(stats).failed = 0 /\ Rollback(stats).done = stats.done
           /\ Rollback(stats).bytes = stats.bytes
           /\ \A i \in Items, n \in Nat : [stats EXCEPT !.bytes = @ + n - inFlight[i]] \in Counters
<1>1. stats \in Counters /\ stats.failed \in Nat /\ stats.failed - Cardinality(Failed) = 0
  BY DEF IInv, Typing, Counting, Counters
<1>2. \A i \in Items : inFlight[i] \in Nat /\ inFlight[i] <= stats.bytes
  BY FetchingType DEF IInv
<1>3. ASSUME NEW i \in Items, NEW n \in Nat
      PROVE  [stats EXCEPT !.bytes = @ + n - inFlight[i]] \in Counters
  <2>1. stats.bytes + n - inFlight[i] \in Nat
    BY <1>1, <1>2 DEF Counters
  <2> QED
    BY <1>1, <2>1 DEF Counters
<1>4. Rollback(stats) = [stats EXCEPT !.failed = 0]
  BY <1>1 DEF Rollback, Counters
<1> QED
  BY <1>1, <1>3, <1>4 DEF Counters

LEMMA TypingOnDownloads ==
    ASSUME IInv, NEW i \in Items, Downloads(i)
    PROVE  Typing'
<1>t. Typing /\ stats \in Counters /\ fetch \in [Items -> Fetches]
      /\ upload \in [Items -> {"none", "ready", "moving", "archived", "failed"}]
      /\ got \in [Items -> Nat] /\ arrived \in Nat /\ inFlight \in [Items -> Nat]
      /\ Size[i] \in Nat /\ stats.bytes \in Nat
  BY SizeAssumption DEF IInv, Typing, Counters
<1>s. ASSUME NEW t \in Threads \cup {"main"}, NEW q \in Seq(Events), NEW s \in Counters,
             Tells(<<i, t>>, q \o Snapshot(i, s))
      PROVE  say' \in [Goroutines -> Seq(Events)]
  <2>1. <<i, t>> \in Goroutines
    BY GoroutineOf
  <2>2. q \o Snapshot(i, s) \in Seq(Events)
    BY CallsOf
  <2> QED
    BY <1>t, <1>s, <2>1, <2>2, TellsType
<1>1. CASE OnAdd(i)
  <2>1. Event("start", i, 0, TRUE) \in Events
    BY EventType
  <2>2. <<Event("start", i, 0, TRUE)>> \in Seq(Events)
    BY <2>1, OneCall
  <2>3. say' \in [Goroutines -> Seq(Events)]
    BY <1>1, <1>s, <1>t, <2>2 DEF OnAdd
  <2> QED
    BY <1>1, <1>t, <2>3 DEF OnAdd, Typing, Fetches, leg, view
<1>2. ASSUME NEW t \in Threads, Land(i, t)
      PROVE  Typing'
  <2>0. got[i] + 1 \in Nat
    BY <1>t
  <2>1. Event("landed", i, got[i] + 1, TRUE) \in Events
    BY <2>0, EventType
  <2>2. <<Event("landed", i, got[i] + 1, TRUE)>> \in Seq(Events)
    BY <2>1, OneCall
  <2>3. say' \in [Goroutines -> Seq(Events)]
    BY <1>2, <1>t, <2>2, GoroutineOf, TellsType DEF Land
  <2> QED
    BY <1>2, <1>t, <2>3 DEF Land, Typing, Fetches, leg, view
<1>3. ASSUME NEW t \in Threads, OnDownload(i, t)
      PROVE  Typing'
  <2> DEFINE running == Head(say[<<i, t>>]).bytes
  <2>1. running \in Nat
    BY <1>3, <1>t, GoroutineOf, NextCall DEF OnDownload
  <2>2. stats' = [stats EXCEPT !.bytes = @ + running - inFlight[i]]
        /\ inFlight' = [inFlight EXCEPT ![i] = running]
        /\ Tells(<<i, t>>, <<Event("bytes", i, running, TRUE)>> \o Snapshot(i, stats'))
        /\ UNCHANGED <<leg, fetch, got, arrived, upload, terminal, view>>
    BY <1>3 DEF OnDownload
  <2> HIDE DEF running
  <2>3. stats' \in Counters /\ inFlight' \in [Items -> Nat]
    BY <1>t, <2>1, <2>2, CountersType
  <2>4. Event("bytes", i, running, TRUE) \in Events
    BY <2>1, EventType
  <2>5. <<Event("bytes", i, running, TRUE)>> \in Seq(Events)
    BY <2>4, OneCall
  <2>6. say' \in [Goroutines -> Seq(Events)]
    BY <1>s, <2>2, <2>3, <2>5
  <2> QED
    BY <1>t, <2>2, <2>3, <2>6 DEF Typing, leg, view
<1>4. CASE Finish(i)
  BY <1>4, <1>t DEF Finish, Typing, Fetches, leg, view
<1>5. CASE OnDone(i)
  <2> DEFINE ok == fetch[i] = "promoted"
  <2>1. stats' \in Counters /\ fetch' \in [Items -> Fetches] /\ inFlight' \in [Items -> Nat]
    BY <1>5, <1>t, CountersType DEF OnDone, Fetches
  <2>2. Event("done", i, Size[i], ok) \in Events
    BY <1>t, EventType
  <2>3. <<Event("done", i, Size[i], ok)>> \in Seq(Events)
    BY <2>2, OneCall
  <2>4. Tells(<<i, "main">>, <<Event("done", i, Size[i], ok)>> \o Snapshot(i, stats'))
    BY <1>5 DEF OnDone
  <2> HIDE DEF ok
  <2>5. say' \in [Goroutines -> Seq(Events)]
    BY <1>s, <2>1, <2>3, <2>4
  <2> QED
    BY <1>5, <1>t, <2>1, <2>5 DEF OnDone, Typing, leg, view
<1>6. CASE Refused(i)
  <2>1. stats' \in Counters /\ fetch' \in [Items -> Fetches]
    BY <1>6, <1>t, CountersType DEF Refused, Fetches
  <2>2. Event("start", i, 0, TRUE) \in Events /\ Event("done", i, Size[i], FALSE) \in Events
    BY <1>t, EventType
  <2>3. <<Event("start", i, 0, TRUE), Event("done", i, Size[i], FALSE)>> \in Seq(Events)
    BY <2>2, TwoCalls
  <2>4. Tells(<<i, "main">>, <<Event("start", i, 0, TRUE), Event("done", i, Size[i], FALSE)>>
                 \o Snapshot(i, stats'))
    BY <1>6 DEF Refused
  <2>5. say' \in [Goroutines -> Seq(Events)]
    BY <1>s, <2>1, <2>3, <2>4
  <2> QED
    BY <1>6, <1>t, <2>1, <2>5 DEF Refused, Typing, leg, view
<1> QED
  BY <1>1, <1>2, <1>3, <1>4, <1>5, <1>6 DEF Downloads

LEMMA TypingOnUploads ==
    ASSUME IInv, NEW i \in Items, UploadsStep(i)
    PROVE  Typing'
<1>t. Typing /\ <<i, "uploader">> \in Goroutines /\ Size[i] \in Nat
      /\ upload \in [Items -> {"none", "ready", "moving", "archived", "failed"}]
  BY GoroutineOf, SizeAssumption DEF IInv, Typing
<1>1. ASSUME NEW kind \in {"upstart", "updone"}, NEW bytes \in Nat, NEW ok \in BOOLEAN,
             Tells(<<i, "uploader">>, <<Event(kind, i, bytes, ok)>>)
      PROVE  say' \in [Goroutines -> Seq(Events)]
  <2>1. Event(kind, i, bytes, ok) \in Events
    BY EventType
  <2>2. <<Event(kind, i, bytes, ok)>> \in Seq(Events)
    BY <2>1, OneCall
  <2> QED
    BY <1>1, <1>t, <2>2, TellsType
<1>2. CASE StartUpload(i)
  <2>1. say' \in [Goroutines -> Seq(Events)]
    BY <1>1, <1>2, <1>t DEF StartUpload, Typing
  <2> QED
    BY <1>2, <1>t, <2>1 DEF StartUpload, Typing, leg, download, view
<1>3. CASE EndUpload(i)
  <2>1. say' \in [Goroutines -> Seq(Events)]
    BY <1>1, <1>3, <1>t DEF EndUpload
  <2> QED
    BY <1>3, <1>t, <2>1 DEF EndUpload, Typing, leg, download, view
<1> QED
  BY <1>2, <1>3 DEF UploadsStep

LEMMA TypingOnRenders ==
    ASSUME IInv, NEW g \in Goroutines, Renders(g)
    PROVE  Typing'
<1> DEFINE e == Head(say[g])
<1>t. /\ Typing /\ ~Quiet(g)
      /\ UNCHANGED <<leg, download, upload, terminal>>
      /\ legs \in [dlFiles : Nat, dlBytes : Nat, upFiles : Nat, upBytes : Nat]
      /\ listed \subseteq Bars /\ live \subseteq Bars \cup Totals
      /\ shown \in [down : Nat, up : Nat] /\ Bytes(Items) \in Nat
  BY RendersKeep, BytesType DEF IInv, Typing
<1>e. /\ e.item \in Items /\ e.bytes \in Nat
      /\ e.kind = "legs" => e.files \in Nat
      /\ e.kind # "legs" => e.ok \in BOOLEAN
      /\ Tail(say[g]) \in Seq(Events)
  BY <1>t, NextCall
<1>b. \A which \in {"down", "up"} : Bar(which, e.item) \in Bars
  BY <1>e DEF Bar, Bars
<1> HIDE DEF e
<1>s. Told(g) => say' \in [Goroutines -> Seq(Events)]
  BY <1>t, <1>e, TellsType DEF Told
<1>u. ASSUME say' \in [Goroutines -> Seq(Events)],
             legs' \in [dlFiles : Nat, dlBytes : Nat, upFiles : Nat, upBytes : Nat],
             listed' \subseteq Bars, live' \subseteq Bars \cup Totals,
             shown' \in [down : Nat, up : Nat]
      PROVE  Typing'
  BY <1>t, <1>u DEF Typing, leg, download
<1>1. ASSUME NEW kind, NEW which \in {"down", "up"}, Opens(g, kind, which)
      PROVE  Typing'
  <2>1. /\ say' \in [Goroutines -> Seq(Events)]
        /\ UNCHANGED <<legs, shown>>
        /\ listed' \subseteq listed \cup {Bar(which, e.item)}
        /\ live' \subseteq live \cup {Bar(which, e.item)}
    BY <1>1, <1>s DEF Opens, e
  <2> QED
    BY <2>1, <1>t, <1>b, <1>u
<1>2. CASE DownloadBytes(g)
  BY <1>2, <1>s, <1>t, <1>u DEF DownloadBytes
<1>3. CASE DownloadDone(g)
  <2>1. /\ say' \in [Goroutines -> Seq(Events)]
        /\ UNCHANGED <<legs, shown>>
        /\ listed' \subseteq listed /\ live' \subseteq live
    BY <1>3, <1>s DEF DownloadDone
  <2> QED
    BY <2>1, <1>t, <1>u
<1>4. CASE SetDownload(g)
  <2>1. say' \in [Goroutines -> Seq(Events)] /\ UNCHANGED <<listed, live, shown>>
        /\ e.kind = "legs" /\ legs' = [legs EXCEPT !.dlFiles = e.files, !.dlBytes = e.bytes]
    BY <1>4, <1>s DEF SetDownload, Hears, e
  <2> QED
    BY <2>1, <1>e, <1>t, <1>u
<1>5. ASSUME NEW which \in {"down", "up"}, Moves(which, e.bytes), Told(g)
      PROVE  Typing'
  <2>1. say' \in [Goroutines -> Seq(Events)] /\ UNCHANGED <<legs, listed>> /\ live' \subseteq live
    BY <1>5, <1>s DEF Moves
  <2>2. shown' \in [down : Nat, up : Nat]
    BY <1>5, <1>e, <1>t DEF Moves
  <2> QED
    BY <2>1, <2>2, <1>t, <1>u
<1>6. CASE UploadDone(g)
  <2>1. listed' \subseteq listed /\ live' \subseteq live /\ UNCHANGED shown /\ e.kind = "updone"
    BY <1>6 DEF UploadDone, Hears, e
  <2>2. CASE e.ok
    <3> DEFINE sum == legs.upBytes + e.bytes
    <3>1. legs' = [legs EXCEPT !.upFiles = @ + 1, !.upBytes = sum]
          /\ Tells(g, <<Event("uptotal", e.item, sum, TRUE)>>)
      BY <1>6, <2>2 DEF UploadDone, e
    <3>2. sum \in Nat
      BY <1>e, <1>t
    <3> HIDE DEF sum
    <3>3. legs' \in [dlFiles : Nat, dlBytes : Nat, upFiles : Nat, upBytes : Nat]
      <4>1. legs.upFiles + 1 \in Nat
        BY <1>t
      <4> QED
        BY <3>1, <3>2, <4>1, <1>t
    <3>4. Event("uptotal", e.item, sum, TRUE) \in Events
      BY <1>e, <3>2, EventType
    <3>5. <<Event("uptotal", e.item, sum, TRUE)>> \in Seq(Events)
      BY <3>4, OneCall
    <3>6. say' \in [Goroutines -> Seq(Events)]
      BY <1>t, <3>1, <3>5, TellsType
    <3> QED
      BY <2>1, <3>3, <3>6, <1>t, <1>u
  <2>3. CASE ~e.ok
    <3>1. say' \in [Goroutines -> Seq(Events)] /\ UNCHANGED legs
      BY <1>6, <1>s, <2>3 DEF UploadDone, e
    <3> QED
      BY <2>1, <3>1, <1>t, <1>u
  <2> QED
    BY <2>2, <2>3
<1> QED
  BY <1>1, <1>2, <1>3, <1>4, <1>5, <1>6
  DEF Renders, DownloadStart, UploadStart, ShowDownload, ShowUpload, e

(* The pass is over, the bars are closed, the summary is printed.          *)
LEMMA TypingOnRest ==
    ASSUME IInv, PassOver \/ Drain \/ Summarise \/ UNCHANGED vars
    PROVE  Typing'
<1>t. Typing
  BY DEF IInv
<1>1. CASE PassOver
  <2>1. stats' \in Counters
    BY <1>1, CountersType DEF PassOver, IInv, Typing
  <2>2. attempt' \in 1 .. Attempts
    BY <1>1, <1>t, ReportingAssumption DEF PassOver, Typing
  <2>3. fetch' \in [Items -> Fetches]
    BY <1>1, <1>t DEF PassOver, Typing, Fetches
  <2> QED
    BY <1>1, <1>t, <2>1, <2>2, <2>3 DEF PassOver, Typing, view
<1>2. CASE Drain
  BY <1>2, <1>t DEF Drain, Typing, download
<1>3. CASE Summarise
  BY <1>3, <1>t DEF Summarise, Typing, download, view
<1>4. CASE UNCHANGED vars
  BY <1>4, <1>t DEF vars, Typing, leg, download, view
<1> QED
  BY <1>1, <1>2, <1>3, <1>4

(* The types are kept by every step.                                       *)
LEMMA TypingStep ==
    ASSUME IInv, [Next]_vars
    PROVE  Typing'
BY StepsAre, TypingOnDownloads, TypingOnUploads, TypingOnRenders, TypingOnRest

-----------------------------------------------------------------------------
(***************************************************************************)
(* Bytes and files counted.                                                *)
(***************************************************************************)
LEMMA FetchingStep ==
    ASSUME IInv, [Next]_vars
    PROVE  Fetching'
<1>t. Typing /\ Fetching /\ Typing'
  BY TypingStep DEF IInv
<1>1. ASSUME NEW i \in Items, Downloads(i)
      PROVE  Fetching'
  BY <1>1, <1>t, FetchingOnDownloads
<1>2. ASSUME UNCHANGED download
      PROVE  Fetching'
  BY <1>2, <1>t, FetchingFramed DEF download
<1>3. CASE PassOver
  <2>1. \A i \in Items : fetch[i] \notin Underway /\ fetch'[i] \notin Underway
    BY <1>3, <1>t DEF PassOver, Typing, Underway
  <2>2. UNCHANGED <<got, arrived, inFlight>> /\ stats'.bytes = stats.bytes
    BY <1>3, CountersType DEF PassOver
  <2>3. owed' = owed
    BY <2>1 DEF owed
  <2> QED
    BY <1>t, <2>1, <2>2, <2>3 DEF Fetching
<1>4. ASSUME NEW i \in Items, UploadsStep(i)
      PROVE  UNCHANGED download
  BY <1>4 DEF UploadsStep, StartUpload, EndUpload
<1>5. ASSUME NEW g \in Goroutines, Renders(g)
      PROVE  UNCHANGED download
  BY <1>5, RendersKeep
<1>6. Drain \/ Summarise \/ UNCHANGED vars => UNCHANGED download
  BY DEF Drain, Summarise, vars
<1> QED
  BY <1>1, <1>2, <1>3, <1>4, <1>5, <1>6, StepsAre

LEMMA CountingStep ==
    ASSUME IInv, [Next]_vars
    PROVE  Counting'
<1>t. /\ Typing /\ Counting /\ stats \in Counters /\ fetch \in [Items -> Fetches]
      /\ stats.done \in Nat /\ stats.failed \in Nat
      /\ Done \in SUBSET Items /\ Failed \in SUBSET Items
  BY DEF IInv, Typing, Counters, Done, Failed
<1>k. ASSUME stats'.done = stats.done, stats'.failed = stats.failed,
             \A j \in Items : /\ fetch'[j] = "done" <=> fetch[j] = "done"
                              /\ fetch'[j] = "failed" <=> fetch[j] = "failed"
      PROVE  Counting'
  BY <1>k, <1>t DEF Counting, Done, Failed
<1>f. ASSUME NEW i \in Items, fetch[i] \notin {"done", "failed"},
             stats' = [stats EXCEPT !.failed = @ + 1], fetch' = [fetch EXCEPT ![i] = "failed"]
      PROVE  Counting'
  <2>1. i \notin Failed /\ Failed' = Failed \cup {i} /\ Done' = Done
    BY <1>f, <1>t DEF Failed, Done
  <2>2. stats'.failed = stats.failed + 1 /\ stats'.done = stats.done
    BY <1>f, <1>t DEF Counters
  <2>3. Cardinality(Failed \cup {i}) = Cardinality(Failed) + 1
    BY <2>1, <1>t, CountAdd
  <2> QED
    BY <1>t, <2>1, <2>2, <2>3 DEF Counting
<1>1. ASSUME NEW i \in Items, Downloads(i)
      PROVE  Counting'
  <2>1. CASE OnAdd(i)
    BY <2>1, <1>k, <1>t DEF OnAdd
  <2>2. ASSUME NEW t \in Threads, Land(i, t)
        PROVE  Counting'
    BY <2>2, <1>k DEF Land
  <2>3. ASSUME NEW t \in Threads, OnDownload(i, t)
        PROVE  Counting'
    <3>1. stats'.done = stats.done /\ stats'.failed = stats.failed
      BY <2>3, <1>t DEF OnDownload, Counters
    <3> QED
      BY <2>3, <3>1, <1>k DEF OnDownload
  <2>4. CASE Finish(i)
    BY <2>4, <1>k, <1>t DEF Finish
  <2>5. CASE OnDone(i)
    <3>1. CASE fetch[i] = "promoted"
      <4>1. stats' = [stats EXCEPT !.done = @ + 1] /\ fetch' = [fetch EXCEPT ![i] = "done"]
        BY <2>5, <3>1 DEF OnDone
      <4>2. i \notin Done /\ Done' = Done \cup {i} /\ Failed' = Failed
        BY <4>1, <3>1, <1>t DEF Failed, Done
      <4>3. stats'.failed = stats.failed /\ stats'.done = stats.done + 1
        BY <4>1, <1>t DEF Counters
      <4>4. Cardinality(Done \cup {i}) = Cardinality(Done) + 1
        BY <4>2, <1>t, CountAdd
      <4> QED
        BY <1>t, <4>2, <4>3, <4>4 DEF Counting
    <3>2. CASE fetch[i] = "spoilt"
      <4>1. stats' = [stats EXCEPT !.failed = @ + 1] /\ fetch' = [fetch EXCEPT ![i] = "failed"]
        BY <2>5, <3>2 DEF OnDone
      <4> QED
        BY <4>1, <3>2, <1>f
    <3> QED
      BY <2>5, <3>1, <3>2 DEF OnDone
  <2>6. CASE Refused(i)
    BY <2>6, <1>f DEF Refused
  <2> QED
    BY <1>1, <2>1, <2>2, <2>3, <2>4, <2>5, <2>6 DEF Downloads
<1>2. CASE PassOver
  <2>1. CASE UNCHANGED <<stats, fetch>>
    BY <2>1, <1>k
  <2>2. CASE ~ UNCHANGED <<stats, fetch>>
    <3>1. stats' = Rollback(stats)
          /\ fetch' = [i \in Items |-> CASE fetch[i] = "queued" -> "lost"
                                         [] fetch[i] = "failed" -> "queued"
                                         [] OTHER -> fetch[i]]
      BY <1>2, <2>2 DEF PassOver
    <3>2. Done' = Done /\ Failed' = {}
      BY <3>1, <1>t DEF Done, Failed
    <3>3. stats'.failed = 0 /\ stats'.done = stats.done
      BY <3>1, CountersType
    <3> QED
      BY <3>2, <3>3, <1>t, FS_EmptySet DEF Counting
  <2> QED
    BY <2>1, <2>2
<1>3. ASSUME UNCHANGED download
      PROVE  Counting'
  BY <1>3, <1>k DEF download
<1>4. ASSUME NEW i \in Items, UploadsStep(i)
      PROVE  UNCHANGED download
  BY <1>4 DEF UploadsStep, StartUpload, EndUpload
<1>5. ASSUME NEW g \in Goroutines, Renders(g)
      PROVE  UNCHANGED download
  BY <1>5, RendersKeep
<1>6. Drain \/ Summarise \/ UNCHANGED vars => UNCHANGED download
  BY DEF Drain, Summarise, vars
<1> QED
  BY <1>1, <1>2, <1>3, <1>4, <1>5, <1>6, StepsAre

(* No snapshot holds more files than there are.                            *)
SnapshotIsSound ==
    stats.done + stats.failed <= Cardinality(Items) /\ stats.bytes <= arrived

LEMMA SnapshotsAreSound == Typing /\ Fetching /\ Counting => SnapshotIsSound
<1> SUFFICES ASSUME Typing, Fetching, Counting
             PROVE  SnapshotIsSound
  OBVIOUS
<1>1. Done \in SUBSET Items /\ Failed \in SUBSET Items /\ Done \cap Failed = {}
  BY DEF Done, Failed
<1> QED
  BY <1>1, CountTwo, FetchingType DEF Counting, SnapshotIsSound

-----------------------------------------------------------------------------
(***************************************************************************)
(* What is still to be told.                                               *)
(***************************************************************************)
(* A call stays true while counts grow and the item stays where it is.     *)
LEMMA AgreesStill ==
    ASSUME NEW g, NEW e \in Events,
           NEW place, NEW bytes \in Nat, NEW up, NEW landed \in Nat, NEW archived \in Nat,
           NEW place2, NEW bytes2 \in Nat, NEW up2, NEW landed2 \in Nat, NEW archived2 \in Nat,
           Agrees(g, e, place, bytes, up, landed, archived),
           e.kind = "landed" /\ place = "moving" => place2 = "moving" /\ bytes <= bytes2,
           e.kind = "updone" /\ up \in {"archived", "failed"} => up2 = up,
           landed <= landed2, archived <= archived2
    PROVE  Agrees(g, e, place2, bytes2, up2, landed2, archived2)
<1>1. e.bytes \in Nat
  BY EventParts
<1> QED
  BY <1>1 DEF Agrees

AgreesNow(g, e) ==
    Agrees(g, e, fetch'[g[1]], got'[g[1]], upload'[g[1]], arrived', legs'.upBytes)

Speaks(g, q) == \A k \in DOMAIN q : AgreesNow(g, q[k])

(* A step that takes nothing back of what goroutine h has still to tell.   *)
Keeps(h) ==
    \A k \in DOMAIN say[h] :
        /\ say[h][k].kind = "landed" /\ fetch[h[1]] = "moving" =>
             fetch'[h[1]] = "moving" /\ got[h[1]] <= got'[h[1]]
        /\ say[h][k].kind = "updone" /\ upload[h[1]] \in {"archived", "failed"} =>
             upload'[h[1]] = upload[h[1]]

Grows == arrived <= arrived' /\ legs.upBytes <= legs'.upBytes

(* What was true stays true, and what is new is true.                      *)
LEMMA SayingAfter ==
    ASSUME Typing, Typing', Saying, Grows,
           \A h \in Goroutines : Speaks(h, say'[h]) \/ (say'[h] = say[h] /\ Keeps(h))
    PROVE  Saying'
<1> SUFFICES ASSUME NEW h \in Goroutines, NEW k \in DOMAIN say'[h]
             PROVE  AgreesNow(h, say'[h][k])
  BY DEF Saying, Sound, AgreesNow
<1>1. CASE Speaks(h, say'[h])
  BY <1>1 DEF Speaks
<1>2. CASE say'[h] = say[h] /\ Keeps(h)
  <2>1. say'[h] = say[h] /\ k \in DOMAIN say[h]
    BY <1>2
  <2>a. say[h] \in Seq(Events) /\ h[1] \in Items
    BY DEF Typing, Goroutines
  <2>b. ASSUME NEW q \in Seq(Events), NEW n \in DOMAIN q
        PROVE  q[n] \in Events
    OBVIOUS
  <2>2. say[h] \in Seq(Events) /\ say[h][k] \in Events /\ h[1] \in Items
    BY <2>1, <2>a, <2>b
  <2>3. Agrees(h, say[h][k], fetch[h[1]], got[h[1]], upload[h[1]], arrived, legs.upBytes)
    BY <2>1 DEF Saying, Sound
  <2>4. got[h[1]] \in Nat /\ got'[h[1]] \in Nat /\ arrived \in Nat /\ arrived' \in Nat
        /\ legs.upBytes \in Nat /\ legs'.upBytes \in Nat
    BY <2>2 DEF Typing
  <2>5. AgreesNow(h, say[h][k])
    BY <1>2, <2>1, <2>2, <2>3, <2>4, AgreesStill DEF Grows, Keeps, AgreesNow
  <2> QED
    BY <2>1, <2>5
<1> QED
  BY <1>1, <1>2

(* One goroutine has something new to tell.                                *)
LEMMA OneSpeaks ==
    ASSUME Typing, Typing', Saying, Grows,
           NEW g \in Goroutines, NEW q \in Seq(Events), Tells(g, q), Speaks(g, q),
           \A h \in Goroutines \ {g} : Keeps(h)
    PROVE  Saying'
<1>1. say'[g] = q /\ \A h \in Goroutines \ {g} : say'[h] = say[h]
  BY TellsType
<1>2. Speaks(g, say'[g])
  BY <1>1 DEF Speaks
<1>3. ASSUME NEW h \in Goroutines
      PROVE  Speaks(h, say'[h]) \/ (say'[h] = say[h] /\ Keeps(h))
  <2>1. CASE h = g
    BY <1>2, <2>1
  <2>2. CASE h # g
    BY <1>1, <2>2
  <2> QED
    BY <2>1, <2>2
<1> QED
  BY <1>3, SayingAfter

(* The calls a callback of the download leg has to make are true.          *)
LEMMA SnapshotAgrees ==
    ASSUME NEW i \in Items, NEW who \in Threads \cup {"main"}, NEW s \in Counters,
           NEW place, NEW bytes, NEW up, NEW landed \in Nat, NEW archived,
           s.done + s.failed <= Cardinality(Items), s.bytes <= landed,
           NEW q \in Seq(Events),
           \A k \in DOMAIN q : Agrees(<<i, who>>, q[k], place, bytes, up, landed, archived)
    PROVE  \A k \in DOMAIN (q \o Snapshot(i, s)) :
             Agrees(<<i, who>>, (q \o Snapshot(i, s))[k], place, bytes, up, landed, archived)
<1>1. s.bytes \in Nat /\ who # "uploader"
  BY ReportingAssumption DEF Counters
<1>2. Agrees(<<i, who>>, Legs(i, s), place, bytes, up, landed, archived)
  BY <1>1, LegsType DEF Agrees
<1>3. Agrees(<<i, who>>, Event("total", i, s.bytes, TRUE), place, bytes, up, landed, archived)
  <2> DEFINE e == Event("total", i, s.bytes, TRUE)
  <2>1. e.kind = "total" /\ e.item = i /\ e.bytes = s.bytes
    BY DEF Event
  <2> HIDE DEF e
  <2> QED
    BY <1>1, <2>1 DEF Agrees, e
<1> QED
  BY <1>2, <1>3, CallsOf

(* A call of the download leg other than that a chunk has landed.          *)
LEMMA EventAgrees ==
    ASSUME NEW i \in Items, NEW who \in Threads \cup {"main"},
           NEW kind \in {"start", "bytes", "done"}, NEW n \in Nat, NEW ok \in BOOLEAN,
           NEW place, NEW bytes, NEW up, NEW landed, NEW archived,
           kind = "done" => n = Size[i]
    PROVE  Agrees(<<i, who>>, Event(kind, i, n, ok), place, bytes, up, landed, archived)
<1>1. who # "uploader"
  BY ReportingAssumption
<1> QED
  BY <1>1, EventType DEF Agrees

(* A callback of the download leg ends with the counters.                  *)
LEMMA CallbackSpeaks ==
    ASSUME Typing, Typing', Saying, Grows, SnapshotIsSound',
           NEW i \in Items, NEW t \in Threads \cup {"main"}, NEW q \in Seq(Events),
           Tells(<<i, t>>, q \o Snapshot(i, stats')), Speaks(<<i, t>>, q),
           \A h \in Goroutines : Keeps(h)
    PROVE  Saying'
<1>1. stats' \in Counters /\ arrived' \in Nat
      /\ stats'.done + stats'.failed <= Cardinality(Items) /\ stats'.bytes <= arrived'
  BY DEF Typing, SnapshotIsSound
<1> DEFINE r == q \o Snapshot(i, stats')
<1>2. Speaks(<<i, t>>, r)
  BY <1>1, SnapshotAgrees DEF Speaks, AgreesNow
<1>3. r \in Seq(Events) /\ <<i, t>> \in Goroutines /\ Tells(<<i, t>>, r)
  BY <1>1, CallsOf, GoroutineOf
<1> HIDE DEF r
<1> QED
  BY <1>2, <1>3, OneSpeaks

LEMMA OneCallSpeaks ==
    ASSUME NEW g, NEW e \in Events, AgreesNow(g, e)
    PROVE  <<e>> \in Seq(Events) /\ Speaks(g, <<e>>)
BY OneCall DEF Speaks

LEMMA TwoCallsSpeak ==
    ASSUME NEW g, NEW e \in Events, AgreesNow(g, e), NEW f \in Events, AgreesNow(g, f)
    PROVE  <<e, f>> \in Seq(Events) /\ Speaks(g, <<e, f>>)
BY TwoCalls DEF Speaks

LEMMA HandingStep ==
    ASSUME IInv, [Next]_vars
    PROVE  Handing'
<1>t. /\ Typing /\ Handing /\ fetch \in [Items -> Fetches]
      /\ upload \in [Items -> {"none", "ready", "moving", "archived", "failed"}]
  BY DEF IInv, Typing
<1>1. ASSUME NEW i \in Items, Downloads(i)
      PROVE  Handing'
  BY <1>1, <1>t DEF Downloads, OnAdd, Land, OnDownload, Finish, OnDone, Refused, Handing
<1>2. ASSUME NEW i \in Items, UploadsStep(i)
      PROVE  Handing'
  BY <1>2, <1>t DEF UploadsStep, StartUpload, EndUpload, download, Handing
<1>3. ASSUME NEW g \in Goroutines, Renders(g)
      PROVE  Handing'
  BY <1>3, <1>t, RendersKeep DEF download, Handing
<1>4. CASE PassOver
  BY <1>4, <1>t DEF PassOver, Handing
<1>5. CASE Drain \/ Summarise \/ UNCHANGED vars
  BY <1>5, <1>t DEF Drain, Summarise, vars, download, Handing
<1> QED
  BY <1>1, <1>2, <1>3, <1>4, <1>5, StepsAre

(* Where a transfer has no callback under way nobody has a chunk to tell.  *)
LEMMA NothingLanded ==
    ASSUME Typing, Saying, NEW h \in Goroutines, Calm(h[1]), NEW k \in DOMAIN say[h]
    PROVE  say[h][k].kind # "landed"
<1>1. h[1] \in Items /\ h[2] \in Threads \cup {"main", "uploader"} /\ h = <<h[1], h[2]>>
  BY DEF Goroutines
<1>2. say[h] # <<>>
  OBVIOUS
<1>3. h[2] = "uploader"
  BY <1>1, <1>2 DEF Calm, Quiet
<1> QED
  BY <1>3 DEF Saying, Sound, Agrees

LEMMA SayingOnDownloads ==
    ASSUME IInv, Typing', Fetching', Counting', NEW i \in Items, Downloads(i)
    PROVE  Saying'
<1>t. /\ Typing /\ Saying /\ Handing /\ fetch \in [Items -> Fetches]
      /\ upload \in [Items -> {"none", "ready", "moving", "archived", "failed"}]
      /\ got \in [Items -> Nat] /\ got' \in [Items -> Nat] /\ arrived \in Nat
      /\ Size[i] \in Nat /\ legs.upBytes \in Nat
  BY SizeAssumption DEF IInv, Typing
<1>n. SnapshotIsSound'
  BY SnapshotsAreSound, PTL
<1>h. \A h \in Goroutines : h[1] \in Items
  BY DEF Goroutines
<1>1. CASE OnAdd(i)
  <2> DEFINE e == Event("start", i, 0, TRUE)
  <2>1. e \in Events /\ AgreesNow(<<i, "main">>, e)
    BY EventType, EventAgrees DEF AgreesNow
  <2>2. Tells(<<i, "main">>, <<e>> \o Snapshot(i, stats')) /\ Grows
    BY <1>1, <1>t DEF OnAdd, view, Grows
  <2>3. \A h \in Goroutines : Keeps(h)
    BY <1>1, <1>t, <1>h DEF OnAdd, Keeps
  <2> HIDE DEF e
  <2> DEFINE q == <<e>>
  <2>4. q \in Seq(Events) /\ Speaks(<<i, "main">>, q)
    BY <2>1, OneCallSpeaks
  <2> HIDE DEF q
  <2>5. Tells(<<i, "main">>, q \o Snapshot(i, stats'))
    BY <2>2 DEF q
  <2> QED
    BY <1>t, <1>n, <2>2, <2>3, <2>4, <2>5, CallbackSpeaks
<1>2. ASSUME NEW t \in Threads, Land(i, t)
      PROVE  Saying'
  <2> DEFINE n == got[i] + 1
             e == Event("landed", i, n, TRUE)
  <2>0. n \in Nat /\ fetch'[i] = "moving" /\ got'[i] = n /\ t # "uploader"
    BY <1>2, <1>t, GoroutineOf DEF Land
  <2>1. Tells(<<i, t>>, <<e>>) /\ Grows
    BY <1>2, <1>t DEF Land, view, Grows
  <2>2. \A h \in Goroutines : Keeps(h)
    BY <1>2, <1>t, <1>h DEF Land, Keeps
  <2> HIDE DEF n
  <2>3. e \in Events
    BY <2>0, EventType
  <2>6. e.kind = "landed" /\ e.item = i /\ e.bytes = n
    BY DEF Event
  <2> HIDE DEF e
  <2>4. AgreesNow(<<i, t>>, e)
    BY <2>0, <2>6 DEF AgreesNow, Agrees
  <2>5. <<e>> \in Seq(Events) /\ Speaks(<<i, t>>, <<e>>)
    BY <2>3, <2>4, OneCallSpeaks
  <2> QED
    BY <1>t, <2>1, <2>2, <2>5, GoroutineOf, OneSpeaks
<1>3. ASSUME NEW t \in Threads, OnDownload(i, t)
      PROVE  Saying'
  <2> DEFINE running == Head(say[<<i, t>>]).bytes
             e == Event("bytes", i, running, TRUE)
  <2>1. running \in Nat
    BY <1>3, <1>t, GoroutineOf, NextCall DEF OnDownload
  <2>2. Tells(<<i, t>>, <<e>> \o Snapshot(i, stats')) /\ Grows
    BY <1>3, <1>t DEF OnDownload, view, Grows
  <2>3. \A h \in Goroutines : Keeps(h)
    BY <1>3, <1>t, <1>h DEF OnDownload, Keeps
  <2> HIDE DEF running
  <2>4. e \in Events /\ AgreesNow(<<i, t>>, e)
    BY <2>1, EventType, EventAgrees DEF AgreesNow
  <2> HIDE DEF e
  <2> DEFINE q == <<e>>
  <2>5. q \in Seq(Events) /\ Speaks(<<i, t>>, q)
    BY <2>4, OneCallSpeaks
  <2> HIDE DEF q
  <2>6. Tells(<<i, t>>, q \o Snapshot(i, stats'))
    BY <2>2 DEF q
  <2> QED
    BY <1>t, <1>n, <2>2, <2>3, <2>5, <2>6, CallbackSpeaks
<1>4. CASE Finish(i)
  <2>1. \A h \in Goroutines : say'[h] = say[h]
    BY <1>4 DEF Finish
  <2>2. upload[i] = "none"
    BY <1>4, <1>t DEF Finish, Handing
  <2>3. ASSUME NEW h \in Goroutines, NEW k \in DOMAIN say[h],
               say[h][k].kind = "landed", fetch[h[1]] = "moving"
        PROVE  fetch'[h[1]] = "moving" /\ got[h[1]] <= got'[h[1]]
    <3>1. h[1] # i
      BY <1>4, <1>t, <2>3, NothingLanded DEF Finish
    <3> QED
      BY <1>4, <1>t, <1>h, <2>3, <3>1 DEF Finish
  <2>4. ASSUME NEW h \in Goroutines, upload[h[1]] \in {"archived", "failed"}
        PROVE  upload'[h[1]] = upload[h[1]]
    BY <1>4, <1>t, <1>h, <2>2, <2>4 DEF Finish
  <2>5. \A h \in Goroutines : Keeps(h)
    BY <2>3, <2>4 DEF Keeps
  <2>6. Grows
    BY <1>4, <1>t DEF Finish, view, Grows
  <2> QED
    BY <1>t, <2>1, <2>5, <2>6, SayingAfter
<1>5. CASE OnDone(i)
  <2> DEFINE ok == fetch[i] = "promoted"
             e == Event("done", i, Size[i], ok)
  <2>1. Tells(<<i, "main">>, <<e>> \o Snapshot(i, stats')) /\ Grows
    BY <1>5, <1>t DEF OnDone, view, Grows
  <2>2. \A h \in Goroutines : Keeps(h)
    BY <1>5, <1>t, <1>h DEF OnDone, Keeps
  <2>3. ok \in BOOLEAN
    OBVIOUS
  <2> HIDE DEF ok
  <2>4. e \in Events /\ AgreesNow(<<i, "main">>, e)
    BY <1>t, <2>3, EventType, EventAgrees DEF AgreesNow
  <2> HIDE DEF e
  <2> DEFINE q == <<e>>
  <2>5. q \in Seq(Events) /\ Speaks(<<i, "main">>, q)
    BY <2>4, OneCallSpeaks
  <2> HIDE DEF q
  <2>6. Tells(<<i, "main">>, q \o Snapshot(i, stats'))
    BY <2>1 DEF q
  <2> QED
    BY <1>t, <1>n, <2>1, <2>2, <2>5, <2>6, CallbackSpeaks
<1>6. CASE Refused(i)
  <2> DEFINE e == Event("start", i, 0, TRUE)
             f == Event("done", i, Size[i], FALSE)
  <2>1. e \in Events /\ AgreesNow(<<i, "main">>, e) /\ f \in Events /\ AgreesNow(<<i, "main">>, f)
    BY <1>t, EventType, EventAgrees DEF AgreesNow
  <2>2. Tells(<<i, "main">>, <<e, f>> \o Snapshot(i, stats')) /\ Grows
    BY <1>6, <1>t DEF Refused, view, Grows
  <2>3. \A h \in Goroutines : Keeps(h)
    BY <1>6, <1>t, <1>h DEF Refused, Keeps
  <2> HIDE DEF e, f
  <2> DEFINE q == <<e, f>>
  <2>5. q \in Seq(Events) /\ Speaks(<<i, "main">>, q)
    BY <2>1, TwoCallsSpeak
  <2> HIDE DEF q
  <2>6. Tells(<<i, "main">>, q \o Snapshot(i, stats'))
    BY <2>2 DEF q
  <2> QED
    BY <1>t, <1>n, <2>2, <2>3, <2>5, <2>6, CallbackSpeaks
<1> QED
  BY <1>1, <1>2, <1>3, <1>4, <1>5, <1>6 DEF Downloads

LEMMA SayingOnUploads ==
    ASSUME IInv, Typing', NEW i \in Items, UploadsStep(i)
    PROVE  Saying'
<1>t. /\ Typing /\ Saying /\ <<i, "uploader">> \in Goroutines /\ Size[i] \in Nat
      /\ upload \in [Items -> {"none", "ready", "moving", "archived", "failed"}]
      /\ got \in [Items -> Nat] /\ arrived \in Nat /\ legs.upBytes \in Nat
  BY GoroutineOf, SizeAssumption DEF IInv, Typing
<1>h. \A h \in Goroutines : h[1] \in Items
  BY DEF Goroutines
<1>1. Grows /\ UNCHANGED <<fetch, got>>
  BY <1>t DEF UploadsStep, StartUpload, EndUpload, download, view, Grows
<1>u. \A j \in Items : upload[j] \in {"archived", "failed"} => upload'[j] = upload[j]
  BY <1>t DEF UploadsStep, StartUpload, EndUpload
<1>2. \A h \in Goroutines : Keeps(h)
  BY <1>1, <1>u, <1>t, <1>h DEF Keeps
<1>3. ASSUME NEW kind \in {"upstart", "updone"}, NEW n \in Nat, NEW ok \in BOOLEAN,
             kind = "updone" => /\ n = Size[i]
                                /\ upload'[i] = IF ok THEN "archived" ELSE "failed",
             Tells(<<i, "uploader">>, <<Event(kind, i, n, ok)>>)
      PROVE  Saying'
  <2> DEFINE e == Event(kind, i, n, ok)
  <2>1. e \in Events
    BY EventType
  <2>2. e.kind = kind /\ e.item = i /\ e.bytes = n /\ e.ok = ok
    BY DEF Event
  <2>3. Tells(<<i, "uploader">>, <<e>>)
    BY <1>3
  <2> HIDE DEF e
  <2>4. AgreesNow(<<i, "uploader">>, e)
    BY <1>3, <2>2 DEF AgreesNow, Agrees
  <2>5. <<e>> \in Seq(Events) /\ Speaks(<<i, "uploader">>, <<e>>)
    BY <2>1, <2>4, OneCallSpeaks
  <2> QED
    BY <1>t, <1>1, <1>2, <2>3, <2>5, OneSpeaks
<1>4. CASE UNCHANGED say
  BY <1>t, <1>1, <1>2, <1>4, SayingAfter
<1>5. CASE StartUpload(i) /\ ~ UNCHANGED say
  <2>1. Tells(<<i, "uploader">>, <<Event("upstart", i, 0, TRUE)>>)
    BY <1>5 DEF StartUpload
  <2> QED
    BY <1>3, <2>1
<1>6. CASE EndUpload(i)
  <2>1. PICK ok \in BOOLEAN :
          /\ upload' = [upload EXCEPT ![i] = IF ok THEN "archived" ELSE "failed"]
          /\ Tells(<<i, "uploader">>, <<Event("updone", i, Size[i], ok)>>)
    BY <1>6 DEF EndUpload
  <2>2. upload'[i] = IF ok THEN "archived" ELSE "failed"
    BY <1>t, <2>1
  <2> QED
    BY <1>t, <1>3, <2>1, <2>2
<1> QED
  BY <1>4, <1>5, <1>6 DEF UploadsStep

(* What the next call of a goroutine says is so.                           *)
LEMMA NextCallIsSound ==
    ASSUME Typing, Saying, NEW g \in Goroutines, ~Quiet(g)
    PROVE  Sound(g, Head(say[g]))
<1>1. say[g] \in Seq(Events) /\ say[g] # <<>>
  BY DEF Typing, Quiet
<1> QED
  BY <1>1, RestOf DEF Saying

(* A call has been made; the others of the goroutine are still true.       *)
LEMMA ToldSpeaks ==
    ASSUME Typing, Saying, Grows, NEW g \in Goroutines, ~Quiet(g), Typing',
           UNCHANGED <<fetch, got, upload>>
    PROVE  Tail(say[g]) \in Seq(Events) /\ Speaks(g, Tail(say[g]))
<1>1. say[g] \in Seq(Events) /\ say[g] # <<>> /\ g[1] \in Items
  BY DEF Typing, Quiet, Goroutines
<1>2. ASSUME NEW k \in DOMAIN Tail(say[g])
      PROVE  AgreesNow(g, Tail(say[g])[k])
  <2>1. k + 1 \in DOMAIN say[g] /\ Tail(say[g])[k] = say[g][k + 1]
    BY <1>1, RestOf
  <2> DEFINE e == say[g][k + 1]
  <2>2. e \in Events /\ Agrees(g, e, fetch[g[1]], got[g[1]], upload[g[1]], arrived, legs.upBytes)
    BY <1>1, <2>1 DEF Saying, Sound
  <2>3. got[g[1]] \in Nat /\ arrived \in Nat /\ arrived' \in Nat
        /\ legs.upBytes \in Nat /\ legs'.upBytes \in Nat
    BY <1>1 DEF Typing
  <2> HIDE DEF e
  <2>4. Agrees(g, e, fetch[g[1]], got[g[1]], upload[g[1]], arrived', legs'.upBytes)
    BY <2>2, <2>3, AgreesStill DEF Grows
  <2> QED
    BY <2>1, <2>4 DEF AgreesNow, e
<1> QED
  BY <1>1, <1>2, RestOf DEF Speaks

LEMMA GrowsOnRenders ==
    ASSUME IInv, NEW g \in Goroutines, Renders(g)
    PROVE  Grows
<1>t. /\ Typing /\ ~Quiet(g) /\ arrived \in Nat /\ UNCHANGED download
      /\ legs \in [dlFiles : Nat, dlBytes : Nat, upFiles : Nat, upBytes : Nat]
  BY RendersKeep DEF IInv, Typing
<1>1. Head(say[g]).bytes \in Nat
  BY <1>t, NextCall
<1>2. CASE SetDownload(g)
  BY <1>2, <1>t DEF SetDownload, Grows, download
<1>3. CASE UploadDone(g)
  <2> DEFINE n == Head(say[g]).bytes
  <2>1. legs' = legs \/ legs' = [legs EXCEPT !.upFiles = @ + 1, !.upBytes = legs.upBytes + n]
    BY <1>3 DEF UploadDone
  <2> HIDE DEF n
  <2>2. n \in Nat /\ arrived' = arrived
    BY <1>t, <1>1 DEF download, n
  <2>3. legs'.upBytes = legs.upBytes \/ legs'.upBytes = legs.upBytes + n
    BY <1>t, <2>1
  <2>4. legs.upBytes \in Nat
    BY <1>t
  <2> QED
    BY <1>t, <2>2, <2>3, <2>4 DEF Grows
<1>4. CASE ~SetDownload(g) /\ ~UploadDone(g)
  <2>1. UNCHANGED legs
    BY <1>4
    DEF Renders, DownloadStart, DownloadBytes, DownloadDone, ShowDownload,
        UploadStart, ShowUpload, Opens, Moves
  <2>2. legs.upBytes \in Nat
    BY <1>t
  <2> QED
    BY <1>t, <2>1, <2>2 DEF Grows, download
<1> QED
  BY <1>2, <1>3, <1>4

LEMMA SayingOnRenders ==
    ASSUME IInv, Typing', NEW g \in Goroutines, Renders(g)
    PROVE  Saying'
<1>t. /\ Typing /\ Saying /\ ~Quiet(g) /\ Grows
      /\ UNCHANGED <<fetch, got, upload>> /\ got \in [Items -> Nat]
      /\ legs \in [dlFiles : Nat, dlBytes : Nat, upFiles : Nat, upBytes : Nat]
  BY RendersKeep, GrowsOnRenders DEF IInv, Typing, download
<1>h. \A h \in Goroutines : h[1] \in Items
  BY DEF Goroutines
<1>1. \A h \in Goroutines : Keeps(h)
  BY <1>t, <1>h DEF Keeps
<1>2. CASE Told(g)
  BY <1>t, <1>1, <1>2, ToldSpeaks, OneSpeaks DEF Told
<1>3. CASE UploadDone(g) /\ Head(say[g]).ok
  <2> DEFINE sum == legs.upBytes + Head(say[g]).bytes
             i == Head(say[g]).item
             e == Event("uptotal", i, sum, TRUE)
  <2>1. Tells(g, <<e>>) /\ Head(say[g]).kind = "updone"
        /\ legs' = [legs EXCEPT !.upFiles = @ + 1, !.upBytes = sum]
    BY <1>3 DEF UploadDone, Hears
  <2>2. sum \in Nat /\ i \in Items /\ legs'.upBytes = sum
    BY <1>t, <2>1, NextCall
  <2>3. Sound(g, Head(say[g]))
    BY <1>t, NextCallIsSound
  <2>4. i = g[1] /\ g[2] = "uploader"
    BY <2>1, <2>3 DEF Sound, Agrees
  <2> HIDE DEF sum, i
  <2>5. e \in Events
    BY <2>2, EventType
  <2>6. e.kind = "uptotal" /\ e.item = i /\ e.bytes = sum
    BY DEF Event
  <2> HIDE DEF e
  <2>7. AgreesNow(g, e)
    BY <2>2, <2>4, <2>6 DEF AgreesNow, Agrees
  <2>8. <<e>> \in Seq(Events) /\ Speaks(g, <<e>>)
    BY <2>5, <2>7, OneCallSpeaks
  <2> QED
    BY <1>t, <1>1, <2>1, <2>8, OneSpeaks
<1>4. Told(g) \/ (UploadDone(g) /\ Head(say[g]).ok)
  BY DEF Renders, DownloadStart, DownloadBytes, DownloadDone, SetDownload, ShowDownload,
         UploadStart, UploadDone, ShowUpload, Opens
<1> QED
  BY <1>2, <1>3, <1>4

LEMMA SayingStep ==
    ASSUME IInv, [Next]_vars
    PROVE  Saying'
<1>t. /\ Typing /\ Saying /\ Typing' /\ Fetching' /\ Counting'
      /\ arrived \in Nat /\ legs.upBytes \in Nat /\ got \in [Items -> Nat]
  BY TypingStep, FetchingStep, CountingStep DEF IInv, Typing
<1>h. \A h \in Goroutines : h[1] \in Items
  BY DEF Goroutines
<1>1. ASSUME NEW i \in Items, Downloads(i)
      PROVE  Saying'
  BY <1>1, <1>t, SayingOnDownloads
<1>2. ASSUME NEW i \in Items, UploadsStep(i)
      PROVE  Saying'
  BY <1>2, <1>t, SayingOnUploads
<1>3. ASSUME NEW g \in Goroutines, Renders(g)
      PROVE  Saying'
  BY <1>3, <1>t, SayingOnRenders
<1>4. CASE PassOver
  <2>1. Grows /\ UNCHANGED <<say, upload>> /\ \A i \in Items : Calm(i)
    BY <1>4, <1>t DEF PassOver, view, Grows
  <2>2. \A h \in Goroutines : \A k \in DOMAIN say[h] : say[h][k].kind # "landed"
    BY <1>t, <1>h, <2>1, NothingLanded
  <2>3. \A h \in Goroutines : Keeps(h)
    BY <2>1, <2>2 DEF Keeps
  <2> QED
    BY <1>t, <2>1, <2>3, SayingAfter
<1>5. CASE Drain \/ Summarise \/ UNCHANGED vars
  <2>1. Grows /\ UNCHANGED <<say, fetch, got, upload>>
    BY <1>5, <1>t DEF Drain, Summarise, vars, download, view, Grows
  <2>2. \A h \in Goroutines : Keeps(h)
    BY <1>t, <1>h, <2>1 DEF Keeps
  <2> QED
    BY <1>t, <2>1, <2>2, SayingAfter
<1> QED
  BY <1>1, <1>2, <1>3, <1>4, <1>5, StepsAre

-----------------------------------------------------------------------------
(***************************************************************************)
(* What the renderer has heard of the upload leg.                          *)
(***************************************************************************)
LEMMA TellingKept ==
    ASSUME Telling,
           \A i \in Items : say'[<<i, "uploader">>] = say[<<i, "uploader">>],
           \A i \in Items : upload'[i] = "archived" <=> upload[i] = "archived",
           legs'.upFiles = legs.upFiles, legs'.upBytes = legs.upBytes
    PROVE  Telling'
<1>1. \A i \in Items : Reports(i)' = Reports(i)
  BY DEF Reports
<1>2. Announced' = Announced
  BY <1>1 DEF Announced
<1> QED
  BY <1>1, <1>2 DEF Telling

LEMMA TellingOnUploads ==
    ASSUME IInv, NEW i \in Items, UploadsStep(i)
    PROVE  Telling'
<1>t. /\ Typing /\ Telling /\ UNCHANGED legs
      /\ upload \in [Items -> {"none", "ready", "moving", "archived", "failed"}]
  BY DEF IInv, Typing, UploadsStep, StartUpload, EndUpload, view
<1>g. \A j \in Items : <<j, "uploader">> \in Goroutines
  BY GoroutineOf
<1>1. CASE upload[i] = "ready" /\ upload' = [upload EXCEPT ![i] = "failed"] /\ UNCHANGED say
  BY <1>1, <1>t, TellingKept
<1>2. ASSUME NEW kind \in {"upstart", "updone"}, NEW n \in Nat, NEW ok \in BOOLEAN,
             Tells(<<i, "uploader">>, <<Event(kind, i, n, ok)>>),
             upload[i] # "archived", kind = "updone" \/ upload'[i] # "archived",
             \A j \in Items \ {i} : upload'[j] = upload[j]
      PROVE  Telling'
  <2> DEFINE e == Event(kind, i, n, ok)
  <2>1. e \in Events
    BY EventType
  <2>2. e.kind = kind
    BY DEF Event
  <2> HIDE DEF e
  <2>3. Tells(<<i, "uploader">>, <<e>>) /\ <<e>> \in Seq(Events) /\ Len(<<e>>) = 1
        /\ 1 \in DOMAIN <<e>> /\ <<e>>[1] = e
    BY <1>2, <2>1, OneCall DEF e
  <2>4. say'[<<i, "uploader">>] = <<e>>
        /\ \A h \in Goroutines \ {<<i, "uploader">>} : say'[h] = say[h]
    BY <1>t, <1>g, <2>3, TellsType
  <2>5. Reports(i)' = <<e>> /\ \A j \in Items \ {i} : Reports(j)' = Reports(j)
    BY <1>g, <2>4 DEF Reports
  <2>6. Announced' = Announced
    BY <1>2, <2>2, <2>3, <2>5 DEF Announced
  <2> QED
    BY <1>t, <2>3, <2>5, <2>6 DEF Telling
<1>3. CASE StartUpload(i)
  <2>1. CASE /\ upload' = [upload EXCEPT ![i] = "moving"] /\ upload[i] = "ready"
             /\ Tells(<<i, "uploader">>, <<Event("upstart", i, 0, TRUE)>>)
    BY <1>t, <1>2, <2>1
  <2> QED
    BY <1>1, <1>3, <2>1 DEF StartUpload
<1>4. CASE EndUpload(i)
  <2>1. PICK ok \in BOOLEAN :
          /\ upload' = [upload EXCEPT ![i] = IF ok THEN "archived" ELSE "failed"]
          /\ upload[i] = "moving"
          /\ Tells(<<i, "uploader">>, <<Event("updone", i, Size[i], ok)>>)
    BY <1>4 DEF EndUpload
  <2> QED
    BY <1>t, <1>2, <2>1, SizeAssumption
<1> QED
  BY <1>3, <1>4 DEF UploadsStep

LEMMA TellingOnRenders ==
    ASSUME IInv, NEW g \in Goroutines, Renders(g)
    PROVE  Telling'
<1> DEFINE e == Head(say[g])
<1>t. /\ Typing /\ Saying /\ Telling /\ ~Quiet(g) /\ UNCHANGED upload
      /\ say[g] \in Seq(Events) /\ say[g] # <<>> /\ Tail(say[g]) \in Seq(Events)
      /\ legs \in [dlFiles : Nat, dlBytes : Nat, upFiles : Nat, upBytes : Nat]
      /\ g = <<g[1], g[2]>> /\ g[1] \in Items
  BY RendersKeep, NextCall DEF IInv, Typing, Goroutines
<1>e. e.item = g[1] /\ (e.kind \in {"upstart", "updone", "uptotal"} <=> g[2] = "uploader")
      /\ (e.kind = "updone" => /\ e.bytes = Size[g[1]]
                               /\ upload[g[1]] = IF e.ok THEN "archived" ELSE "failed")
  BY <1>t, NextCallIsSound DEF Sound, Agrees
<1>k. /\ e.kind = "updone" => UploadDone(g)
      /\ ~(UploadDone(g) /\ e.ok) => /\ Told(g)
                                     /\ legs'.upFiles = legs.upFiles
                                     /\ legs'.upBytes = legs.upBytes
  <2>1. e.kind = "updone" => UploadDone(g)
    BY DEF Renders, DownloadStart, DownloadBytes, DownloadDone, SetDownload, ShowDownload,
           UploadStart, UploadDone, ShowUpload, Opens, Hears
  <2>2. CASE SetDownload(g)
    BY <2>1, <2>2, <1>t DEF SetDownload
  <2>3. CASE ~SetDownload(g)
    BY <2>1, <2>3
    DEF Renders, DownloadStart, DownloadBytes, DownloadDone, ShowDownload,
        UploadStart, UploadDone, ShowUpload, Opens, Moves
  <2> QED
    BY <2>1, <2>2, <2>3
<1>u. \A j \in Items : <<j, "uploader">> \in Goroutines
  BY GoroutineOf
<1>1. CASE g[2] # "uploader"
  <2>1. ~ UploadDone(g)
    BY <1>1, <1>e DEF UploadDone, Hears
  <2>2. Told(g) /\ legs'.upFiles = legs.upFiles /\ legs'.upBytes = legs.upBytes
    BY <1>k, <2>1
  <2>3. \A h \in Goroutines \ {g} : say'[h] = say[h]
    BY <1>t, <2>2, TellsType DEF Told
  <2>4. ASSUME NEW j \in Items
        PROVE  say'[<<j, "uploader">>] = say[<<j, "uploader">>]
    <3>1. <<j, "uploader">>[2] = "uploader"
      OBVIOUS
    <3>2. <<j, "uploader">> # g
      BY <1>1, <3>1
    <3> QED
      BY <1>u, <2>3, <3>2
  <2> QED
    BY <1>t, <2>2, <2>4, TellingKept
<1>2. CASE g[2] = "uploader"
  <2> DEFINE i == g[1]
  <2>1. g = <<i, "uploader">> /\ i \in Items /\ Reports(i) = say[g]
    BY <1>2, <1>t DEF Reports
  <2>2. Len(say[g]) = 1 /\ DOMAIN say[g] = {1} /\ e = say[g][1]
    <3>1. Len(say[g]) <= 1
      BY <2>1, <1>t DEF Telling
    <3>2. Len(say[g]) \in Nat /\ Len(say[g]) # 0 /\ DOMAIN say[g] = 1 .. Len(say[g])
      BY <1>t
    <3>3. Len(say[g]) = 1
      BY <3>1, <3>2
    <3>4. e = say[g][1]
      BY <1>t, RestOf
    <3> QED
      BY <3>2, <3>3, <3>4
  <2>3. Tail(say[g]) = <<>>
    BY <1>t, <2>2, RestOf
  <2> HIDE DEF e
  <2>o. ASSUME NEW q \in Seq(Events), Tells(g, q)
        PROVE  Reports(i)' = q /\ \A j \in Items \ {i} : Reports(j)' = Reports(j)
    <3>1. say'[g] = q /\ \A h \in Goroutines \ {g} : say'[h] = say[h]
      BY <1>t, <2>o, TellsType
    <3> QED
      BY <2>1, <3>1, <1>u DEF Reports
  <2>4. CASE UploadDone(g) /\ e.ok
    <3> DEFINE sum == legs.upBytes + e.bytes
               f == Event("uptotal", e.item, sum, TRUE)
    <3>1. /\ legs' = [legs EXCEPT !.upFiles = @ + 1, !.upBytes = sum]
          /\ Tells(g, <<f>>) /\ e.kind = "updone"
      BY <2>4 DEF UploadDone, Hears, e
    <3>2. e.bytes = Size[i] /\ upload[i] = "archived" /\ e.item = i /\ e.bytes \in Nat
          /\ sum \in Nat
      <4>1. e.bytes = Size[i] /\ upload[i] = "archived" /\ e.item = i
        BY <1>e, <2>4, <3>1
      <4> QED
        BY <4>1, <1>t, SizeAssumption
    <3> HIDE DEF sum
    <3>3. f \in Events
      BY <3>2, EventType, <2>1
    <3>4. f.kind = "uptotal"
      BY DEF Event
    <3> HIDE DEF f
    <3>5. <<f>> \in Seq(Events) /\ Len(<<f>>) = 1 /\ DOMAIN <<f>> = {1} /\ <<f>>[1] = f
      BY <3>3, OneCall
    <3>6. Reports(i)' = <<f>> /\ \A j \in Items \ {i} : Reports(j)' = Reports(j)
      BY <3>1, <3>5, <2>o
    <3>7. i \notin Announced
      BY <2>1, <2>2, <3>1 DEF Announced
    <3>8. Announced' = Announced \cup {i}
      BY <1>t, <2>1, <3>2, <3>4, <3>5, <3>6 DEF Announced
    <3>9. Announced \in SUBSET Items
      BY DEF Announced
    <3>10. Cardinality(Announced \cup {i}) = Cardinality(Announced) + 1
           /\ Bytes(Announced \cup {i}) = Bytes(Announced) + Size[i]
      BY <2>1, <3>7, <3>9, CountAdd, BytesAdd
    <3>11. legs'.upFiles = legs.upFiles + 1 /\ legs'.upBytes = legs.upBytes + Size[i]
      BY <1>t, <3>1, <3>2 DEF sum
    <3>12. ASSUME NEW j \in Items
           PROVE  Len(Reports(j)') <= 1
      <4>1. CASE j = i
        <5>1. Reports(j)' = <<f>>
          BY <3>6, <4>1
        <5> QED
          BY <3>5, <5>1
      <4>2. CASE j # i
        <5>1. Reports(j)' = Reports(j)
          BY <3>6, <4>2
        <5> QED
          BY <1>t, <5>1 DEF Telling
      <4> QED
        BY <4>1, <4>2
    <3> QED
      BY <1>t, <3>8, <3>10, <3>11, <3>12 DEF Telling
  <2>5. CASE ~(UploadDone(g) /\ e.ok)
    <3>1. /\ Tells(g, <<>>) /\ <<>> \in Seq(Events)
          /\ legs'.upFiles = legs.upFiles /\ legs'.upBytes = legs.upBytes
        <4>1. Told(g) /\ legs'.upFiles = legs.upFiles /\ legs'.upBytes = legs.upBytes
        BY <1>k, <2>5 DEF e
      <4> QED
        BY <4>1, <2>3, <1>t DEF Told
    <3>2. Reports(i)' = <<>> /\ \A j \in Items \ {i} : Reports(j)' = Reports(j)
      BY <3>1, <2>o
    <3>3. e.kind = "updone" => upload[i] # "archived"
      BY <1>e, <1>k, <2>5 DEF e
    <3>4. Announced' = Announced
      BY <1>t, <2>1, <2>2, <3>2, <3>3 DEF Announced
    <3>5. \A j \in Items : Len(Reports(j)') <= 1
      BY <1>t, <3>2 DEF Telling
    <3> QED
      BY <1>t, <3>1, <3>4, <3>5 DEF Telling
  <2> QED
    BY <2>4, <2>5
<1> QED
  BY <1>1, <1>2

LEMMA TellingStep ==
    ASSUME IInv, [Next]_vars
    PROVE  Telling'
<1>t. /\ Typing /\ Handing /\ Telling
      /\ upload \in [Items -> {"none", "ready", "moving", "archived", "failed"}]
      /\ fetch \in [Items -> Fetches]
  BY DEF IInv, Typing
<1>1. ASSUME NEW i \in Items, Downloads(i)
      PROVE  Telling'
  <2>1. UNCHANGED legs
    BY <1>1 DEF Downloads, OnAdd, Land, OnDownload, Finish, OnDone, Refused, view
  <2>2. \A j \in Items : upload'[j] = "archived" <=> upload[j] = "archived"
    BY <1>1, <1>t DEF Downloads, OnAdd, Land, OnDownload, Finish, OnDone, Refused, Handing
  <2>3. ASSUME NEW t \in Threads \cup {"main"}, NEW q, Tells(<<i, t>>, q)
        PROVE  \A j \in Items : say'[<<j, "uploader">>] = say[<<j, "uploader">>]
    <3>1. \A j \in Items : <<j, "uploader">> # <<i, t>> /\ <<j, "uploader">> \in DOMAIN say
      BY <1>t, ReportingAssumption, GoroutineOf DEF Typing
    <3> QED
      BY <2>3, <3>1 DEF Tells
  <2>4. \A j \in Items : say'[<<j, "uploader">>] = say[<<j, "uploader">>]
    BY <1>1, <2>3 DEF Downloads, OnAdd, Land, OnDownload, Finish, OnDone, Refused
  <2> QED
    BY <1>t, <2>1, <2>2, <2>4, TellingKept
<1>2. ASSUME NEW i \in Items, UploadsStep(i)
      PROVE  Telling'
  BY <1>2, TellingOnUploads
<1>3. ASSUME NEW g \in Goroutines, Renders(g)
      PROVE  Telling'
  BY <1>3, TellingOnRenders
<1>4. CASE PassOver \/ Drain \/ Summarise \/ UNCHANGED vars
  <2>1. UNCHANGED <<say, upload, legs>>
    BY <1>4 DEF PassOver, Drain, Summarise, vars, view
  <2> QED
    BY <1>t, <2>1, TellingKept
<1> QED
  BY <1>1, <1>2, <1>3, <1>4, StepsAre

-----------------------------------------------------------------------------
(***************************************************************************)
(* What is shown.                                                          *)
(***************************************************************************)
LEMMA ShowingStep ==
    ASSUME IInv, [Next]_vars
    PROVE  Showing'
<1>t. /\ Typing /\ Saying /\ Showing /\ Cardinality(Items) \in Nat /\ Bytes(Items) \in Nat
      /\ legs \in [dlFiles : Nat, dlBytes : Nat, upFiles : Nat, upBytes : Nat]
      /\ shown \in [down : Nat, up : Nat] /\ arrived \in Nat
  BY CountIs, BytesType DEF IInv, Typing
<1>n. legs.dlFiles \in Nat /\ legs.dlBytes \in Nat /\ legs.upBytes \in Nat
      /\ shown.down \in Nat /\ shown.up \in Nat
  BY <1>t
<1>1. ASSUME UNCHANGED <<legs, shown>>, arrived' \in {arrived, arrived + 1}
      PROVE  Showing'
  BY <1>1, <1>t, <1>n DEF Showing
<1>2. ASSUME NEW i \in Items, Downloads(i)
      PROVE  Showing'
  BY <1>1, <1>2
  DEF Downloads, OnAdd, Land, OnDownload, Finish, OnDone, Refused, view
<1>3. ASSUME NEW i \in Items, UploadsStep(i)
      PROVE  Showing'
  BY <1>1, <1>3 DEF UploadsStep, StartUpload, EndUpload, download, view
<1>4. CASE PassOver \/ Drain \/ Summarise \/ UNCHANGED vars
  BY <1>1, <1>4 DEF PassOver, Drain, Summarise, vars, download, view
<1>5. ASSUME NEW g \in Goroutines, Renders(g)
      PROVE  Showing'
  <2> DEFINE e == Head(say[g])
  <2>1. ~Quiet(g) /\ arrived' = arrived
    BY <1>5, RendersKeep DEF download
  <2>2. e.bytes \in Nat /\ (e.kind = "legs" => e.files \in Nat)
    BY <1>t, <2>1, NextCall
  <2>3. /\ e.kind = "legs" => e.files <= Cardinality(Items)
        /\ e.kind \in {"legs", "total"} => e.bytes <= arrived
        /\ e.kind = "uptotal" => e.bytes <= legs.upBytes
    BY <1>t, <2>1, NextCallIsSound DEF Sound, Agrees
  <2> HIDE DEF e
  <2>4. CASE SetDownload(g)
    <3>1. /\ legs' = [legs EXCEPT !.dlFiles = e.files, !.dlBytes = e.bytes]
          /\ shown' = shown /\ e.kind = "legs"
      BY <2>4 DEF SetDownload, Hears, e
    <3>2. legs'.dlFiles = e.files /\ legs'.dlBytes = e.bytes /\ legs'.upBytes = legs.upBytes
      BY <1>t, <3>1
    <3> QED
      BY <1>t, <2>1, <2>3, <3>1, <3>2 DEF Showing
  <2>5. ASSUME NEW which \in {"down", "up"}, Moves(which, e.bytes)
        PROVE  /\ UNCHANGED legs
               /\ \/ shown' = shown
                  \/ \E n \in Nat : n <= e.bytes /\ shown' = [shown EXCEPT ![which] = n]
    BY <2>2, <2>5, <1>t DEF Moves
  <2>6. CASE ShowDownload(g)
    <3>1. Moves("down", e.bytes) /\ e.kind = "total"
      BY <2>6 DEF ShowDownload, Hears, e
    <3>2. UNCHANGED legs /\ shown'.up = shown.up
          /\ (shown'.down = shown.down \/ (shown'.down \in Nat /\ shown'.down <= e.bytes))
      BY <1>t, <2>5, <3>1
    <3> QED
      BY <1>t, <1>n, <2>1, <2>2, <2>3, <3>1, <3>2 DEF Showing
  <2>7. CASE ShowUpload(g)
    <3>1. Moves("up", e.bytes) /\ e.kind = "uptotal"
      BY <2>7 DEF ShowUpload, Hears, e
    <3>2. UNCHANGED legs /\ shown'.down = shown.down
          /\ (shown'.up = shown.up \/ (shown'.up \in Nat /\ shown'.up <= e.bytes))
      BY <1>t, <2>5, <3>1
    <3> QED
      BY <1>t, <1>n, <2>1, <2>2, <2>3, <3>1, <3>2 DEF Showing
  <2>8. CASE UploadDone(g)
    <3>1. UNCHANGED shown
          /\ (legs' = legs \/ legs' = [legs EXCEPT !.upFiles = @ + 1,
                                                   !.upBytes = legs.upBytes + e.bytes])
      BY <2>8 DEF UploadDone, e
    <3>2. /\ legs'.dlFiles = legs.dlFiles /\ legs'.dlBytes = legs.dlBytes
          /\ (legs'.upBytes = legs.upBytes \/ legs'.upBytes = legs.upBytes + e.bytes)
      BY <1>t, <3>1
    <3> QED
      BY <1>t, <1>n, <2>1, <2>2, <3>1, <3>2 DEF Showing
  <2>9. CASE ~(SetDownload(g) \/ ShowDownload(g) \/ ShowUpload(g) \/ UploadDone(g))
    <3>1. UNCHANGED <<legs, shown>>
      BY <1>5, <2>9
      DEF Renders, DownloadStart, DownloadBytes, DownloadDone, UploadStart, Opens
    <3> QED
      BY <1>1, <2>1, <3>1
  <2> QED
    BY <2>4, <2>6, <2>7, <2>8, <2>9
<1> QED
  BY <1>2, <1>3, <1>4, <1>5, StepsAre

-----------------------------------------------------------------------------
(***************************************************************************)
(* The theorems.                                                           *)
(***************************************************************************)
LEMMA Begins ==
    ASSUME Init
    PROVE  IInv
<1>1. Typing
  <2>1. <<>> \in Seq(Events)
    OBVIOUS
  <2>2. say \in [Goroutines -> Seq(Events)]
    BY <2>1 DEF Init
  <2> QED
    BY <2>2, ReportingAssumption DEF Init, Typing, Fetches, Counters
<1>2. Fetching
  <2>1. inFlight \in [Items -> Nat] /\ \A i \in Items : inFlight[i] = 0
    BY DEF Init
  <2>2. owed \in [Items -> Nat] /\ \A i \in Items : owed[i] = 0
    BY DEF Init, owed, Underway
  <2>3. Sum(inFlight) = 0 /\ Sum(owed) = 0
    BY <2>1, <2>2, SumOfNothing
  <2> QED
    BY <2>1, <2>3 DEF Init, Fetching, Underway
<1>3. Counting
  <2>1. Done = {} /\ Failed = {}
    BY DEF Init, Done, Failed
  <2> QED
    BY <2>1, FS_EmptySet DEF Init, Counting
<1>4. Handing
  BY DEF Init, Handing
<1>5. Saying
  BY DEF Init, Saying
<1>6. Telling
  <2>1. \A i \in Items : Reports(i) = <<>>
    BY GoroutineOf DEF Init, Reports
  <2>2. Announced = {}
    BY DEF Init, Announced
  <2>3. Bytes({}) = 0
    BY FS_EmptySet DEF Bytes, BytesOf
  <2> QED
    BY <2>1, <2>2, <2>3, FS_EmptySet DEF Init, Telling
<1>7. Showing
  <2>1. Cardinality(Items) \in Nat
    BY ItemsAssumption, FS_CardinalityType
  <2>2. legs.dlFiles = 0 /\ legs.dlBytes = 0 /\ legs.upBytes = 0 /\ arrived = 0
        /\ shown.down = 0 /\ shown.up = 0
    BY DEF Init
  <2> QED
    BY <2>1, <2>2 DEF Showing
<1> QED
  BY <1>1, <1>2, <1>3, <1>4, <1>5, <1>6, <1>7 DEF IInv

(* The invariant holds in every state of a run, whatever the number of     *)
(* files, their sizes, the connections of a download and the passes: what  *)
(* every goroutine has still to tell is true by the time it tells it.      *)
THEOREM Inductive == Spec => []IInv
<1>1. Init => IInv
  BY Begins
<1>2. IInv /\ [Next]_vars => IInv'
  BY TypingStep, FetchingStep, CountingStep, HandingStep, SayingStep, TellingStep, ShowingStep
  DEF IInv
<1> QED
  BY <1>1, <1>2, PTL DEF Spec

(* Every variable of a run's display stays in its type; above all no       *)
(* counter of Stats, which callbacks and rollback lower, goes below zero.  *)
THEOREM TypesHold == Spec => []TypeOK
<1>1. IInv => TypeOK
  BY DEF IInv, Typing, TypeOK, Fetches, Counters, Bars
<1> QED
  BY <1>1, Inductive, PTL

(* Whatever order the callbacks of several connections and of the upload   *)
(* leg reach the renderer in, the lines and the bars promise no file and   *)
(* no byte that is not there, and a full upload bar leaves nothing but     *)
(* empty files outside the remote.                                         *)
THEOREM TotalsAreHonest == Spec => []HonestTotals
<1>1. IInv => HonestTotals
  <2> SUFFICES ASSUME IInv
               PROVE  HonestTotals
    OBVIOUS
  <2>1. Announced \in SUBSET Archived /\ Archived \in SUBSET Items
    BY DEF Announced, Archived
  <2>2. Bytes(Announced) <= Bytes(Archived) /\ Bytes(Archived) <= Bytes(Items)
        /\ Bytes(Announced) \in Nat /\ Bytes(Archived) \in Nat /\ Bytes(Items) \in Nat
    BY <2>1, BytesMonotone, BytesType
  <2>3. Cardinality(Announced) <= Cardinality(Archived)
    BY <2>1, CountIs, FS_Subset
  <2>4. ASSUME shown.up = Bytes(Items)
        PROVE  \A i \in Items \ Archived : Size[i] = 0
    <3>1. Bytes(Items) <= Bytes(Announced)
      BY <2>4 DEF IInv, Showing, Telling
    <3>2. Bytes(Archived) = Bytes(Items)
      BY <2>2, <3>1
    <3> QED
      BY <2>1, <3>2, BytesOfAll
  <2> QED
    BY <2>2, <2>3, <2>4 DEF IInv, Showing, Telling, HonestTotals
<1> QED
  BY <1>1, Inductive, PTL

-----------------------------------------------------------------------------
(***************************************************************************)
(* What Live.Finish leaves behind.                                         *)
(***************************************************************************)
\* the bars of downloaded files that had nothing in them
EmptyBars == {Bar("down", i) : i \in {j \in Items : Size[j] = 0}}

(* A bar that runs is one Finish will find, or it is an empty file's; and  *)
(* once Finish has begun nobody opens another.                             *)
Ending ==
    /\ phase # "pass" => \A i \in Items : fetch[i] \in {"queued", "lost", "failed", "done"}
    /\ live \subseteq listed \cup Totals \cup EmptyBars
    /\ phase \in {"waiting", "summary"} =>
         /\ \A g \in Goroutines : Quiet(g)
         /\ \A i \in Items : upload[i] \in {"none", "archived", "failed"}
         /\ live \subseteq EmptyBars

LEMMA EndingOnRenders ==
    ASSUME IInv, Ending, NEW g \in Goroutines, Renders(g)
    PROVE  live' \subseteq listed' \cup Totals \cup EmptyBars
<1> DEFINE e == Head(say[g])
<1>t. live \subseteq listed \cup Totals \cup EmptyBars /\ ~Quiet(g) /\ Typing /\ Saying
  BY RendersKeep DEF Ending, IInv
<1>e. e.item = g[1] /\ e.item \in Items /\ (e.kind = "done" => e.bytes = Size[e.item])
  BY <1>t, NextCall, NextCallIsSound DEF Sound, Agrees
<1> HIDE DEF e
<1>1. ASSUME NEW kind, NEW which, Opens(g, kind, which)
      PROVE  live' \subseteq listed' \cup Totals \cup EmptyBars
  BY <1>t, <1>1 DEF Opens
<1>2. CASE DownloadDone(g)
  <2> DEFINE found == {Bar("down", e.item)} \cap listed
  <2>1. /\ e.kind = "done" /\ listed' = listed \ found
        /\ live' = live \ {b \in found : ~e.ok \/ Full(Size[e.item], e.bytes)}
    BY <1>2 DEF DownloadDone, Hears, e
  <2>2. Full(Size[e.item], e.bytes) \/ Size[e.item] = 0
    BY <1>e, <2>1, SizeAssumption DEF Full
  <2>3. Size[e.item] = 0 => Bar("down", e.item) \in EmptyBars
    BY <1>e DEF EmptyBars
  <2> QED
    BY <1>t, <2>1, <2>2, <2>3
<1>3. CASE UploadDone(g)
  <2>1. \E found : listed' = listed \ found /\ live' = live \ found
    BY <1>3 DEF UploadDone
  <2> QED
    BY <1>t, <2>1
<1>4. CASE DownloadBytes(g) \/ SetDownload(g) \/ ShowDownload(g) \/ ShowUpload(g)
  <2>1. listed' = listed /\ live' \subseteq live
    BY <1>4 DEF DownloadBytes, SetDownload, ShowDownload, ShowUpload, Moves
  <2> QED
    BY <1>t, <2>1
<1> QED
  BY <1>1, <1>2, <1>3, <1>4 DEF Renders, DownloadStart, UploadStart

LEMMA EndingStep ==
    ASSUME IInv, Ending, [Next]_vars
    PROVE  Ending'
<1>t. fetch \in [Items -> Fetches]
      /\ upload \in [Items -> {"none", "ready", "moving", "archived", "failed"}]
  BY DEF IInv, Typing
<1>1. ASSUME NEW i \in Items, Downloads(i)
      PROVE  Ending'
  <2>1. UNCHANGED <<phase, listed, live>>
    BY <1>1 DEF Downloads, OnAdd, Finish, OnDone, Refused, Land, OnDownload, leg, view
  <2>2. phase \in {"waiting", "summary"} => \A t \in Threads : Quiet(<<i, t>>)
    BY GoroutineOf DEF Ending
  <2>3. phase \notin {"waiting", "summary"}
    BY <1>1, <1>t, <2>2 DEF Downloads, OnAdd, Finish, OnDone, Refused, Land, OnDownload, Ending
  <2>4. phase = "pass" \/ UNCHANGED fetch
    BY <1>1, <1>t DEF Downloads, OnAdd, Finish, OnDone, Refused, Land, OnDownload, Ending
  <2> QED
    BY <2>1, <2>3, <2>4 DEF Ending
<1>2. ASSUME NEW i \in Items, UploadsStep(i)
      PROVE  Ending'
  <2>1. UNCHANGED <<phase, listed, live, fetch>>
    BY <1>2 DEF UploadsStep, StartUpload, EndUpload, leg, view, download
  <2>2. phase \notin {"waiting", "summary"}
    BY <1>2 DEF UploadsStep, StartUpload, EndUpload, Ending
  <2> QED
    BY <2>1, <2>2 DEF Ending
<1>3. ASSUME NEW g \in Goroutines, Renders(g)
      PROVE  Ending'
  <2>1. UNCHANGED <<phase, fetch>> /\ phase \notin {"waiting", "summary"}
    BY <1>3, RendersKeep DEF leg, download, Ending
  <2> QED
    BY <1>3, <2>1, EndingOnRenders DEF Ending
<1>4. CASE PassOver
  <2>1. /\ UNCHANGED <<listed, live>> /\ phase' \in {"pass", "draining"}
        /\ phase' # "pass" => UNCHANGED fetch
        /\ \A i \in Items : fetch[i] \in {"queued", "lost", "failed", "done"}
    BY <1>4 DEF PassOver, view
  <2> QED
    BY <2>1 DEF Ending
<1>5. CASE Drain
  <2>1. /\ phase = "draining" /\ phase' = "waiting" /\ UNCHANGED <<fetch, upload, say>>
        /\ live' = live \ (listed \cup Totals)
        /\ \A i \in Items : upload[i] \in {"none", "archived", "failed"}
        /\ \A g \in Goroutines : Quiet(g)
    BY <1>5 DEF Drain, download
  <2>2. live' \subseteq EmptyBars
    BY <2>1 DEF Ending
  <2> QED
    BY <2>1, <2>2 DEF Ending, Quiet
<1>6. CASE Summarise
  BY <1>6 DEF Summarise, download, view, Ending, Quiet
<1>7. CASE UNCHANGED vars
  BY <1>7 DEF vars, leg, download, view, Ending, Quiet
<1> QED
  BY <1>1, <1>2, <1>3, <1>4, <1>5, <1>6, <1>7, StepsAre

LEMMA EndingHolds == Spec => []Ending
<1>1. Init => Ending
  BY DEF Init, Ending
<1>2. IInv /\ Ending /\ [Next]_vars => Ending'
  BY EndingStep
<1> QED
  BY <1>1, <1>2, Inductive, PTL DEF Spec

(* The only bars Live.Finish can be left waiting for are those of files    *)
(* with nothing in them, whose DownloadDone took them out of the map and   *)
(* did not end them.                                                       *)
THEOREM OnlyEmptyFilesHang == Spec => [](phase = "waiting" => live \subseteq EmptyBars)
<1>1. Ending => (phase = "waiting" => live \subseteq EmptyBars)
  BY DEF Ending
<1> QED
  BY <1>1, EndingHolds, PTL

(* With something in every file, Finish drains the bars as live.go says.   *)
THEOREM FinishDrainsFiles ==
    ASSUME \A i \in Items : Size[i] > 0
    PROVE  Spec => []FinishDrains
<1>1. EmptyBars = {}
  BY SizeAssumption DEF EmptyBars
<1>2. Ending => FinishDrains
  BY <1>1 DEF Ending, FinishDrains
<1> QED
  BY <1>2, EndingHolds, PTL
=============================================================================
