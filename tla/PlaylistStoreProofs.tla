------------------------- MODULE PlaylistStoreProofs -------------------------
(***************************************************************************)
(* Proofs about PlaylistStore, for any number of requests and media, any   *)
(* durations and any bounds.                                               *)
(***************************************************************************)
EXTENDS PlaylistStore, FiniteSetTheorems, FunctionTheorems, TLAPS

(* TypeOK, by the parts of the state.                                      *)
TableOK ==
    /\ position \in [Ids -> 0..MaxItems] /\ duration \in [Ids -> Nat]
    /\ medium \in [Ids -> Media \cup {NoMedium}]
    /\ nextId \in 1..(MaxItems + 1)
RequestsOK ==
    /\ pc \in [Requests -> Steps]
    /\ arg \in [Requests -> Nat] /\ seen \in [Requests -> Nat]
    /\ plan \in [Requests -> Seq(Ids)] /\ wanted \in [Requests -> Media \cup {NoMedium}]
LockOK ==
    /\ rowLock \in Requests \cup {NoRequest}
    /\ \A r \in Requests : pc[r] \in InTransaction <=> rowLock = r
ValuesOK ==
    /\ cycle \in Nat /\ media \in [Media -> Nat \cup {Gone}]
    /\ faults \in 0..MaxFaults

(* Ids are given out in order; the rows take different places, and none is *)
(* behind the number of rows.                                              *)
IdsUsed == \A e \in Rows : e < nextId
Placed ==
    /\ \A e \in Rows : position[e] <= Size
    /\ \A e, f \in Rows : position[e] = position[f] => e = f

(* What a request has read is still so when it is used: an Add owns the    *)
(* row of the window from the moment it reads the cycle, and its medium    *)
(* was there when it looked; a plan names each item once.                  *)
AddSteps == {"add_lock", "add_measure", "add_insert"}
Distinct(s) == \A j, k \in DOMAIN s : s[j] = s[k] => j = k
RequestRead(r) ==
    /\ pc[r] \in AddSteps => wanted[r] \in Media /\ media[wanted[r]] # 0
    /\ pc[r] = "add_measure" => seen[r] = cycle
    /\ pc[r] = "add_insert" => seen[r] = Size + 1 /\ TotalSeconds + arg[r] <= cycle
    /\ pc[r] = "media_write" => wanted[r] \in Media /\ seen[r] > 0
    /\ pc[r] \in {"delete_lock", "delete_write"} => arg[r] \in Ids
    /\ pc[r] \in {"reorder_lock", "reorder_write"} => plan[r] # <<>> /\ Distinct(plan[r])
ReadsHold == \A r \in Requests : RequestRead(r)

StoreInv == TypeOK /\ IdsUsed /\ Placed /\ MediaKept /\ ReadsHold
-----------------------------------------------------------------------------
(* TypeOK is the conjunction of its parts.                                 *)
LEMMA TypeParts == TypeOK <=> TableOK /\ RequestsOK /\ LockOK /\ ValuesOK
  BY DEF TypeOK, TableOK, RequestsOK, LockOK, ValuesOK

(* There are finitely many rows, each with an id that has been used.       *)
LEMMA RowsFinite ==
    ASSUME TableOK
    PROVE  Rows \subseteq Ids /\ IsFiniteSet(Rows) /\ Size \in Nat /\ Size <= MaxItems
<1>1. IsFiniteSet(Ids) /\ Cardinality(Ids) = MaxItems
  BY FS_Interval, BoundsAssumption DEF Ids
<1>2. Rows \subseteq Ids
  BY DEF Rows
<1> QED
  BY <1>1, <1>2, FS_Subset, FS_CardinalityType DEF Size

(* Rows that take different places up to their number leave no gap.        *)
LEMMA PlacedIsDense == ASSUME TableOK, Placed PROVE Dense
<1> DEFINE place == [e \in Rows |-> position[e]]
<1>1. IsFiniteSet(Rows) /\ Size \in Nat /\ Rows \subseteq Ids
  BY RowsFinite
<1>2. place \in Injection(Rows, 1..Size)
  <2>1. place \in [Rows -> 1..Size]
    BY <1>1 DEF TableOK, Placed, Rows
  <2> QED
    BY <2>1, Fun_IsInj DEF Placed
<1>3. IsFiniteSet(1..Size) /\ Cardinality(1..Size) = Size
  BY <1>1, FS_Interval
<1>4. place \in Surjection(Rows, 1..Size)
  BY <1>1, <1>2, <1>3, FS_Injection, Zenon DEF Size
<1> HIDE DEF place
<1>5. /\ place \in [Rows -> 1..Size]
      /\ \A k \in 1..Size : \E e \in Rows : place[e] = k
  BY <1>4, Fun_SurjectionProperties
<1> QED
  BY <1>5 DEF Dense, place

(* The next position is one more than the number of rows.                  *)
LEMMA LastIsSize == ASSUME TableOK, Dense PROVE LastPosition = Size
<1>1. Size \in Nat
  BY RowsFinite
<1>2. {0} \cup {position[e] : e \in Rows} = 0..Size
  BY <1>1 DEF Dense
<1>3. Size \in 0..Size /\ \A y \in 0..Size : Size >= y
  BY <1>1
<1>4. \A x \in 0..Size : (\A y \in 0..Size : x >= y) => x = Size
  BY <1>1
<1> QED
  BY <1>2, <1>3, <1>4 DEF LastPosition, Max

(* The seconds of one item, and the total, are finite.                     *)
LEMMA SecondsOfItem ==
    ASSUME NEW e, NEW n \in Nat
    PROVE  IsFiniteSet({e} \X (1..n)) /\ Cardinality({e} \X (1..n)) = n
<1>1. IsFiniteSet(1..n) /\ Cardinality(1..n) = n
  BY FS_Interval
<1>2. IsFiniteSet({e}) /\ Cardinality({e}) = 1
  BY FS_Singleton
<1>3. 1 * n = n
  OBVIOUS
<1> QED
  BY <1>1, <1>2, <1>3, FS_Product

LEMMA SecondsFinite == ASSUME TableOK PROVE IsFiniteSet(Seconds) /\ TotalSeconds \in Nat
<1> DEFINE item(e) == {e} \X (1..duration[e])
<1>1. IsFiniteSet(Rows) /\ \A e \in Rows : duration[e] \in Nat
  BY RowsFinite DEF TableOK
<1>2. IsFiniteSet({item(e) : e \in Rows})
  <2>1. [e \in Rows |-> item(e)] \in Surjection(Rows, {item(e) : e \in Rows})
    <3> DEFINE F == [e \in Rows |-> item(e)]
    <3>1. F \in [Rows -> {item(e) : e \in Rows}]
      OBVIOUS
    <3>2. \A t \in {item(e) : e \in Rows} : \E e \in Rows : F[e] = t
      OBVIOUS
    <3> QED
      BY <3>1, <3>2, Fun_IsSurj
  <2> QED
    BY <1>1, <2>1, FS_Surjection
<1>3. \A S \in {item(e) : e \in Rows} : IsFiniteSet(S)
  <2>1. \A e \in Rows : IsFiniteSet(item(e))
    BY <1>1, SecondsOfItem
  <2> QED
    BY <2>1
<1>4. Seconds = UNION {item(e) : e \in Rows}
  BY DEF Seconds
<1>5. IsFiniteSet(Seconds)
  BY <1>2, <1>3, <1>4, FS_UNION
<1> QED
  BY <1>5, FS_CardinalityType DEF TotalSeconds

-----------------------------------------------------------------------------
(* What the parts of a step do to the requests and to the lock.            *)
StepFacts == /\ "idle" \in Steps /\ Waiting \subseteq Steps /\ InTransaction \subseteq Steps
             /\ \A s \in Waiting : Locked[s] \in InTransaction
             /\ "idle" \notin InTransaction /\ Waiting \cap InTransaction = {}

LEMMA StepsKnown == StepFacts
  BY DEF StepFacts, Steps, Waiting, InTransaction, Locked

LEMMA BeginTyped ==
    ASSUME RequestsOK, NEW r \in Requests, NEW step \in Steps, NEW m \in Media \cup {NoMedium},
           NEW a \in Nat, NEW p \in Seq(Ids), NEW s \in Nat, Begin(r, step, m, a, p, s)
    PROVE  RequestsOK'
  BY DEF RequestsOK, Begin

LEMMA EndTyped ==
    ASSUME RequestsOK, LockOK, NEW r \in Requests, End(r) PROVE RequestsOK' /\ LockOK'
<1>1. RequestsOK'
  <2>1. <<>> \in Seq(Ids) /\ "idle" \in Steps
    BY DEF Steps
  <2> QED
    BY <2>1, BeginTyped DEF End
<1>2. pc' = [pc EXCEPT ![r] = "idle"] /\ rowLock' = IF rowLock = r THEN NoRequest ELSE rowLock
  BY DEF End, Begin
<1>3. "idle" \notin InTransaction
  BY DEF InTransaction
<1>4. LockOK'
  BY <1>2, <1>3, RequestsAssumption DEF LockOK, RequestsOK
<1> QED
  BY <1>1, <1>4

(* A request that begins does not own the lock, nor does it take it.       *)
LEMMA BeginLock ==
    ASSUME RequestsOK, LockOK, NEW r \in Requests, pc[r] \notin InTransaction,
           NEW step, step \notin InTransaction, pc' = [pc EXCEPT ![r] = step],
           UNCHANGED rowLock
    PROVE  LockOK'
  BY DEF LockOK, RequestsOK

(* An order for the rows is a sequence that names each of them once.       *)
LEMMA OrderFacts ==
    ASSUME TableOK, NEW p \in Orders(Rows), p # <<>>
    PROVE  p \in Seq(Ids) /\ Distinct(p)
<1>1. Rows \subseteq Ids /\ IsFiniteSet(Rows) /\ Size \in Nat
  BY RowsFinite
<1>2. p \in [1..Size -> Rows] /\ Elements(p) = Rows
  BY DEF Orders, Size
<1>3. p \in Surjection(1..Size, Rows)
  <2>1. \A e \in Rows : \E k \in 1..Size : p[k] = e
    BY <1>2 DEF Elements
  <2> QED
    BY <1>2, <2>1, Fun_IsSurj
<1>4. IsFiniteSet(1..Size) /\ Cardinality(1..Size) = Cardinality(Rows)
  BY <1>1, FS_Interval DEF Size
<1>5. p \in Injection(1..Size, Rows)
  BY <1>3, <1>4, FS_Surjection
<1>6. \A j, k \in 1..Size : p[j] = p[k] => j = k
  BY <1>5, Fun_InjectionProperties
<1>7. p \in Seq(Ids)
  BY <1>1, <1>2
<1> QED
  BY <1>2, <1>6, <1>7 DEF Distinct

(* Every step keeps the types of the requests and the owner of the lock.   *)
LEMMA RequestsNext ==
    ASSUME TableOK, RequestsOK, LockOK, ValuesOK, Dense, Next PROVE RequestsOK' /\ LockOK'
<1> USE StepsKnown DEF StepFacts
<1>0. <<>> \in Seq(Ids) /\ NoMedium \in Media \cup {NoMedium}
  OBVIOUS
<1>1. ASSUME NEW r \in Requests, NEW m \in Media, NEW d \in Durations, AddRequest(r, m, d)
      PROVE  RequestsOK' /\ LockOK'
  <2>1. "add_lock" \in Steps \ InTransaction
    BY DEF Steps, InTransaction
  <2>2. (IF d = 0 THEN media[m] ELSE d) \in Nat
    BY <1>1, DurationsAssumption DEF AddRequest, ValuesOK, Gone
  <2>3. RequestsOK'
    BY <1>0, <1>1, <2>1, <2>2, BeginTyped DEF AddRequest
  <2> QED
    BY <1>1, <2>1, <2>3, BeginLock DEF AddRequest, Begin, Ready
<1>2. ASSUME NEW r \in Requests, NEW m \in Media, NEW d \in Durations, UpdateMediumRequest(r, m, d)
      PROVE  RequestsOK' /\ LockOK'
  <2>1. "media_write" \in Steps \ InTransaction
    BY DEF Steps, InTransaction
  <2>2. (IF d = 0 THEN media[m] ELSE d) \in Nat /\ d \in Nat
    BY <1>2, DurationsAssumption DEF UpdateMediumRequest, ValuesOK, Gone
  <2>3. RequestsOK'
    BY <1>0, <1>2, <2>1, <2>2, BeginTyped DEF UpdateMediumRequest
  <2> QED
    BY <1>2, <2>1, <2>3, BeginLock DEF UpdateMediumRequest, Begin
<1>3. ASSUME NEW r \in Requests, NEW e \in Ids, DeleteRequest(r, e) PROVE RequestsOK' /\ LockOK'
  <2>1. "delete_lock" \in Steps \ InTransaction /\ e \in Nat
    BY BoundsAssumption DEF Steps, InTransaction, Ids
  <2>2. RequestsOK'
    BY <1>0, <1>3, <2>1, BeginTyped DEF DeleteRequest
  <2> QED
    BY <1>3, <2>1, <2>2, BeginLock DEF DeleteRequest, Begin, Ready
<1>4. ASSUME NEW r \in Requests, NEW p \in Orders(Rows), ReorderRequest(r, p)
      PROVE  RequestsOK' /\ LockOK'
  <2>1. "reorder_lock" \in Steps \ InTransaction /\ p \in Seq(Ids)
    BY <1>4, OrderFacts DEF Steps, InTransaction, ReorderRequest
  <2>2. RequestsOK'
    BY <1>0, <1>4, <2>1, BeginTyped DEF ReorderRequest
  <2> QED
    BY <1>4, <2>1, <2>2, BeginLock DEF ReorderRequest, Begin, Ready
<1>5. ASSUME NEW r \in Requests, NEW c \in Cycles, UpdateRequest(r, c) PROVE RequestsOK' /\ LockOK'
  <2>1. "update_write" \in Steps \ InTransaction
    BY DEF Steps, InTransaction
  <2>2. c \in Nat /\ (IF c = 0 THEN cycle ELSE c) \in Nat
    BY <1>5, DurationsAssumption DEF UpdateRequest, ValuesOK
  <2>3. RequestsOK'
    BY <1>0, <1>5, <2>1, <2>2, BeginTyped DEF UpdateRequest
  <2> QED
    BY <1>5, <2>1, <2>3, BeginLock DEF UpdateRequest, Begin, Ready
<1>6. ASSUME NEW r \in Requests, LockWindow(r) PROVE RequestsOK' /\ LockOK'
  <2>1. CASE cycle = 0
    BY <1>6, <2>1, EndTyped DEF LockWindow
  <2>2. CASE cycle # 0
    <3>1. /\ pc[r] \in Waiting /\ Locked[pc[r]] \in InTransaction /\ rowLock = NoRequest
          /\ rowLock' = r /\ pc' = [pc EXCEPT ![r] = Locked[pc[r]]]
          /\ seen' = [seen EXCEPT ![r] = cycle] /\ UNCHANGED <<arg, wanted, plan>>
      BY <1>6, <2>2 DEF LockWindow
    <3>2. RequestsOK'
      BY <3>1 DEF RequestsOK, ValuesOK
    <3>3. LockOK'
      BY <3>1, RequestsAssumption DEF LockOK, RequestsOK
    <3> QED
      BY <3>2, <3>3
  <2> QED
    BY <2>1, <2>2
<1>7. ASSUME NEW r \in Requests, Measure(r) PROVE RequestsOK' /\ LockOK'
  <2>1. CASE End(r)
    BY <2>1, EndTyped
  <2>2. CASE Begin(r, "add_insert", wanted[r], arg[r], <<>>, LastPosition + 1) /\ UNCHANGED rowLock
    <3>1. "add_insert" \in Steps \cap InTransaction /\ "add_measure" \in InTransaction
      BY DEF Steps, InTransaction
    <3>2. LastPosition + 1 \in Nat /\ arg[r] \in Nat /\ wanted[r] \in Media \cup {NoMedium}
      BY LastIsSize, RowsFinite DEF RequestsOK
    <3>3. RequestsOK'
      BY <1>0, <2>2, <3>1, <3>2, BeginTyped
    <3>4. LockOK'
      BY <1>7, <2>2, <3>1 DEF LockOK, Begin, RequestsOK, Measure
    <3> QED
      BY <3>3, <3>4
  <2> QED
    BY <1>7, <2>1, <2>2 DEF Measure
<1>8. ASSUME NEW r \in Requests,
             Insert(r) \/ Delete(r) \/ Reorder(r) \/ UpdateWindow(r) \/ UpdateMedium(r) \/ Rollback(r)
      PROVE  RequestsOK' /\ LockOK'
  BY <1>8, EndTyped DEF Insert, Delete, Reorder, UpdateWindow, UpdateMedium, Rollback
<1>9. CASE \/ DeleteWindow
           \/ \E m \in Media : DeleteMedium(m) \/ \E d \in Durations : CreateMedium(m, d)
  BY <1>9 DEF DeleteWindow, DeleteMedium, CreateMedium, request, RequestsOK, LockOK
<1> QED
  BY <1>1, <1>2, <1>3, <1>4, <1>5, <1>6, <1>7, <1>8, <1>9 DEF Next, WriteStep

-----------------------------------------------------------------------------
(* What each write does to the rows.                                       *)
TableInv == TableOK /\ IdsUsed /\ Placed

LEMMA TableFrame == ASSUME TableInv, UNCHANGED table PROVE TableInv' /\ Rows' = Rows
<1>1. Rows' = Rows /\ UNCHANGED <<position, duration, medium, nextId>>
  BY DEF table, Rows
<1> QED
  BY <1>1 DEF TableInv, TableOK, IdsUsed, Placed, Size

(* There are fewer rows than the id to come.                               *)
LEMMA SizeBound == ASSUME TableInv PROVE Size < nextId
<1>1. Rows \subseteq 1..(nextId - 1)
  BY RowsFinite, BoundsAssumption DEF TableInv, TableOK, IdsUsed, Ids
<1>2. nextId \in Int /\ nextId >= 1
  BY BoundsAssumption DEF TableInv, TableOK
<1>3. IsFiniteSet(1..(nextId - 1)) /\ Cardinality(1..(nextId - 1)) = nextId - 1
  BY <1>2, FS_Interval
<1>4. Size <= nextId - 1 /\ Size \in Nat
  BY <1>1, <1>3, FS_Subset, RowsFinite DEF Size, TableInv
<1> QED
  BY <1>2, <1>4

LEMMA InsertedRow ==
    ASSUME TableInv, RequestsOK, NEW r \in Requests, RequestRead(r), pc[r] = "add_insert",
           Inserted(r)
    PROVE  /\ TableInv'
           /\ Rows' = Rows \cup {nextId} /\ nextId \in Ids \ Rows
           /\ position'[nextId] = Size + 1 /\ Size' = Size + 1
<1> USE DEF TableInv
<1>1. /\ nextId \in Ids /\ nextId \notin Rows
      /\ Size \in Nat /\ Size < nextId /\ Rows \subseteq Ids /\ IsFiniteSet(Rows)
  <2>1. nextId \in Ids
    BY BoundsAssumption DEF Inserted, TableOK, Ids
  <2>2. nextId \notin Rows
    BY <2>1, BoundsAssumption DEF Ids, IdsUsed
  <2> QED
    BY <2>1, <2>2, SizeBound, RowsFinite
<1>2. seen[r] = Size + 1 /\ wanted[r] \in Media
  BY DEF RequestRead, AddSteps
<1>3. /\ position' = [position EXCEPT ![nextId] = Size + 1]
      /\ Size + 1 \in 1..MaxItems
  BY <1>1, <1>2, BoundsAssumption DEF Inserted, Ids
<1>4. TableOK'
  BY <1>2, <1>3, BoundsAssumption DEF Inserted, TableOK, RequestsOK, Ids
<1>5. Rows' = Rows \cup {nextId}
  BY <1>1, <1>3 DEF TableOK, Rows
<1>6. Size' = Size + 1
  BY <1>1, <1>5, FS_AddElement DEF Size
<1>7. IdsUsed'
  BY <1>1, <1>5, BoundsAssumption DEF IdsUsed, Inserted, TableOK, Ids
<1>8. \A e \in Rows : position'[e] = position[e] /\ position[e] <= Size /\ position[e] \in Nat
  BY <1>1, <1>3 DEF TableOK, Placed
<1>9. position'[nextId] = Size + 1
  BY <1>1, <1>3 DEF TableOK
<1>10. Placed'
  BY <1>1, <1>5, <1>6, <1>8, <1>9 DEF Placed
<1> QED
  BY <1>1, <1>4, <1>5, <1>6, <1>7, <1>9, <1>10

(* The compaction of Delete, after the row of e is gone.                   *)
LEMMA DeletedRow ==
    ASSUME TableInv, NEW e \in Rows, nextId' = nextId,
           LET p == position[e] IN
           Keep([f \in Ids |-> IF f \in Behind(p) THEN position[f] - 1 ELSE position[f]], {e})
    PROVE  /\ TableInv' /\ Rows' = Rows \ {e} /\ Size' = Size - 1
           /\ \A f \in Rows \ {e} :
                /\ position[f] # position[e] /\ medium'[f] = medium[f]
                /\ position'[f] = IF position[f] > position[e] THEN position[f] - 1 ELSE position[f]
<1> USE DEF TableInv
<1> DEFINE p == position[e]
<1>1. Rows \subseteq Ids /\ IsFiniteSet(Rows) /\ Size \in Nat
  BY RowsFinite
<1>2. \A f \in Rows : position[f] \in 1..MaxItems /\ position[f] <= Size
  BY <1>1, BoundsAssumption DEF TableOK, Rows, Placed
<1>3. \A f \in Rows \ {e} : position[f] # p
  BY DEF Placed
<1>4. \A f \in Ids : position'[f] = IF f = e THEN 0
                                    ELSE IF f \in Rows /\ position[f] > p THEN position[f] - 1
                                    ELSE position[f]
  BY DEF Keep, Behind
<1>5. Rows' = Rows \ {e}
  BY <1>1, <1>2, <1>4 DEF Rows
<1>6. Size' = Size - 1
  BY <1>1, <1>5, FS_RemoveElement DEF Size
<1>7. TableOK'
  <2>1. position' \in [Ids -> 0..MaxItems]
    <3>1. \A f \in Ids : position'[f] \in 0..MaxItems
      BY <1>2, <1>4, BoundsAssumption DEF TableOK
    <3>2. position' = [f \in Ids |-> position'[f]]
      BY DEF Keep
    <3> QED
      BY <3>1, <3>2
  <2>2. duration' \in [Ids -> Nat] /\ medium' \in [Ids -> Media \cup {NoMedium}]
    BY DEF Keep, TableOK
  <2> QED
    BY <2>1, <2>2 DEF TableOK
<1>8. IdsUsed'
  BY <1>5 DEF IdsUsed
<1>9. \A f \in Rows \ {e} : position'[f] = IF position[f] > p THEN position[f] - 1 ELSE position[f]
  BY <1>1, <1>4
<1>10. Placed'
  <2>1. ASSUME NEW f \in Rows \ {e} PROVE position'[f] <= Size - 1
    BY <1>1, <1>2, <1>3, <1>9, <2>1
  <2>2. ASSUME NEW f \in Rows \ {e}, NEW g \in Rows \ {e}, position'[f] = position'[g] PROVE f = g
    <3>1. position[f] = position[g]
      BY <1>2, <1>3, <1>9, <2>2
    <3> QED
      BY <3>1 DEF Placed
  <2> QED
    BY <1>5, <1>6, <2>1, <2>2 DEF Placed
<1>11. \A f \in Rows \ {e} : medium'[f] = medium[f]
  BY <1>1 DEF Keep
<1> QED
  BY <1>3, <1>5, <1>6, <1>7, <1>8, <1>9, <1>10, <1>11

(* The places that a plan gives.                                           *)
LEMMA PlanPlaces ==
    ASSUME NEW s \in Seq(Ids), Distinct(s), NEW j \in DOMAIN s
    PROVE  (CHOOSE k \in DOMAIN s : s[k] = s[j]) = j
  BY DEF Distinct

LEMMA PlanFits ==
    ASSUME TableOK, NEW s \in Seq(Ids), Distinct(s), Elements(s) \subseteq Rows
    PROVE  Len(s) <= Size /\ IsFiniteSet(Elements(s)) /\ Cardinality(Elements(s)) = Len(s)
<1>1. IsFiniteSet(Rows) /\ Size \in Nat
  BY RowsFinite
<1>2. Len(s) \in Nat /\ DOMAIN s = 1..Len(s)
  OBVIOUS
<1>3. IsFiniteSet(1..Len(s)) /\ Cardinality(1..Len(s)) = Len(s)
  BY <1>2, FS_Interval
<1>4. s \in Bijection(1..Len(s), Elements(s))
  <2>1. s \in [1..Len(s) -> Elements(s)]
    BY <1>2 DEF Elements
  <2>2. \A t \in Elements(s) : \E k \in 1..Len(s) : s[k] = t
    BY <1>2 DEF Elements
  <2>3. \A a, b \in 1..Len(s) : s[a] = s[b] => a = b
    BY <1>2 DEF Distinct
  <2> QED
    BY <2>1, <2>2, <2>3, Fun_IsBij
<1>5. Cardinality(Elements(s)) = Len(s)
  <2>1. ExistsBijection(1..Len(s), Elements(s))
    BY <1>4, Fun_ExistsBij
  <2> QED
    BY <1>2, <2>1, FS_CountingElements
<1>6. Cardinality(Elements(s)) <= Size /\ IsFiniteSet(Elements(s))
  BY <1>1, FS_Subset DEF Size
<1> QED
  BY <1>5, <1>6

LEMMA ReorderedRows ==
    ASSUME TableInv, UNCHANGED <<duration, medium, nextId>>,
           NEW s \in Seq(Ids), Distinct(s), Elements(s) \subseteq Rows,
           \A e \in Rows \ Elements(s) : position[e] \notin DOMAIN s,
           position' = [e \in Ids |-> IF e \in Elements(s) THEN CHOOSE k \in DOMAIN s : s[k] = e
                                      ELSE position[e]]
    PROVE  /\ TableInv' /\ Rows' = Rows
           /\ \A k \in DOMAIN s : position'[s[k]] = k
           /\ \A e \in Rows \ Elements(s) : position'[e] = position[e]
<1> USE DEF TableInv
<1>1. Rows \subseteq Ids /\ IsFiniteSet(Rows) /\ Size \in Nat /\ Size <= MaxItems
  BY RowsFinite
<1>2. Len(s) <= Size /\ DOMAIN s = 1..Len(s) /\ Len(s) \in Nat
  BY PlanFits
<1>3. \A k \in DOMAIN s : s[k] \in Elements(s) /\ s[k] \in Ids
  BY DEF Elements
<1>4. \A k \in DOMAIN s : position'[s[k]] = k
  BY <1>3, PlanPlaces
<1>5. \A e \in Ids \ Elements(s) : position'[e] = position[e]
  OBVIOUS
<1>6. \A e \in Elements(s) : \E k \in DOMAIN s : e = s[k]
  BY DEF Elements
<1>7. \A e \in Elements(s) : position'[e] \in 1..Size
  BY <1>1, <1>2, <1>4, <1>6
<1>8. Rows' = Rows
  <2>1. ASSUME NEW e \in Elements(s) PROVE e \in Ids /\ position'[e] > 0 /\ position[e] > 0
    <3>1. position'[e] \in 1..Size /\ e \in Rows
      BY <1>7
    <3> QED
      BY <1>1, <3>1 DEF Rows
  <2>2. ASSUME NEW e \in Ids \ Elements(s) PROVE position'[e] > 0 <=> position[e] > 0
    <3>1. position'[e] = position[e]
      BY <1>5
    <3> QED
      BY <3>1
  <2> QED
    BY <2>1, <2>2 DEF Rows
<1>9. TableOK'
  <2>1. ASSUME NEW e \in Ids PROVE position'[e] \in 0..MaxItems
    <3>1. CASE e \in Elements(s)
      <4>1. position'[e] \in 1..Size
        BY <1>7, <3>1
      <4> QED
        BY <1>1, <4>1, BoundsAssumption
    <3>2. CASE e \notin Elements(s)
      <4>1. position'[e] = position[e]
        BY <1>5, <3>2
      <4> QED
        BY <4>1 DEF TableOK
    <3> QED
      BY <3>1, <3>2
  <2>2. position' \in [Ids -> 0..MaxItems]
    BY <2>1
  <2> QED
    BY <2>2 DEF TableOK
<1>10. IdsUsed'
  BY <1>8 DEF IdsUsed
<1>11. Placed'
  <2>1. Size' = Size
    BY <1>8 DEF Size
  <2>2. ASSUME NEW e \in Rows PROVE position'[e] <= Size
    <3>1. CASE e \in Elements(s)
      <4>1. position'[e] \in 1..Size
        BY <1>7, <3>1
      <4> QED
        BY <1>1, <4>1
    <3>2. CASE e \notin Elements(s)
      <4>1. position'[e] = position[e]
        BY <1>1, <1>5, <3>2
      <4> QED
        BY <4>1 DEF Placed
    <3> QED
      BY <3>1, <3>2
  <2>3. ASSUME NEW e \in Rows, NEW f \in Rows, position'[e] = position'[f] PROVE e = f
    <3>1. CASE e \in Elements(s) /\ f \in Elements(s)
      BY <1>4, <1>6, <2>3, <3>1
    <3>2. CASE e \in Elements(s) /\ f \notin Elements(s)
      BY <1>1, <1>4, <1>5, <1>6, <2>3, <3>2
    <3>3. CASE e \notin Elements(s) /\ f \in Elements(s)
      BY <1>1, <1>4, <1>5, <1>6, <2>3, <3>3
    <3>4. CASE e \notin Elements(s) /\ f \notin Elements(s)
      BY <1>1, <1>5, <2>3, <3>4 DEF Placed
    <3> QED
      BY <3>1, <3>2, <3>3, <3>4
  <2> QED
    BY <1>8, <2>1, <2>2, <2>3 DEF Placed
<1> QED
  BY <1>1, <1>4, <1>5, <1>8, <1>9, <1>10, <1>11

(* Deleting the window empties the table.                                  *)
LEMMA ClearedRows ==
    ASSUME TableInv, nextId' = nextId, Keep(position, Ids) PROVE TableInv' /\ Rows' = {} /\ Size' = 0
<1>1. Rows' = {}
  BY DEF Rows, Keep
<1>2. Size' = 0
  BY <1>1, FS_EmptySet DEF Size
<1>3. TableOK'
  BY BoundsAssumption DEF TableInv, TableOK, Keep
<1> QED
  BY <1>1, <1>2, <1>3 DEF TableInv, IdsUsed, Placed

-----------------------------------------------------------------------------
(* What a step may do to the rows: nothing, or one of the three writes.    *)
RowInserted(r) == pc[r] = "add_insert" /\ Inserted(r) /\ media[wanted[r]] # Gone
RowDeleted(r) ==
    /\ pc[r] = "delete_write" /\ arg[r] \in Rows /\ nextId' = nextId
    /\ LET p == position[arg[r]] IN
       Keep([f \in Ids |-> IF f \in Behind(p) THEN position[f] - 1 ELSE position[f]], {arg[r]})
RowsReordered(r) ==
    /\ pc[r] = "reorder_write" /\ UNCHANGED <<duration, medium, nextId>>
    /\ Elements(plan[r]) \subseteq Rows
    /\ \A e \in Rows \ Elements(plan[r]) : position[e] \notin DOMAIN plan[r]
    /\ position' = [e \in Ids |-> IF e \in Elements(plan[r])
                                  THEN CHOOSE k \in DOMAIN plan[r] : plan[r][k] = e
                                  ELSE position[e]]
RowsCleared == rowLock = NoRequest /\ Keep(position, Ids) /\ UNCHANGED <<nextId, rowLock, pc>>
Writes(r) == RowInserted(r) \/ RowDeleted(r) \/ RowsReordered(r)

LEMMA TableStep ==
    ASSUME TypeOK, ReadsHold, [Next]_vars
    PROVE  \/ UNCHANGED table
           \/ RowsCleared /\ media' = media
           \/ \E r \in Requests : Writes(r) /\ End(r) /\ UNCHANGED <<cycle, media>>
<1> USE DEF table
<1>1. ASSUME NEW r \in Requests, Insert(r)
      PROVE  UNCHANGED table \/ (RowInserted(r) /\ End(r) /\ UNCHANGED <<cycle, media>>)
  BY <1>1 DEF Insert, RowInserted
<1>2. ASSUME NEW r \in Requests, Delete(r)
      PROVE  UNCHANGED table \/ (RowDeleted(r) /\ End(r) /\ UNCHANGED <<cycle, media>>)
  <2>1. arg[r] \in Ids
    BY <1>2 DEF Delete, ReadsHold, RequestRead
  <2>2. position[arg[r]] > 0 => arg[r] \in Rows
    BY <2>1 DEF Rows
  <2> QED
    BY <1>2, <2>2 DEF Delete, RowDeleted
<1>3. ASSUME NEW r \in Requests, Reorder(r)
      PROVE  UNCHANGED table \/ (RowsReordered(r) /\ End(r) /\ UNCHANGED <<cycle, media>>)
  <2>1. CASE Missing(r) = {} /\ InTheWay(r) = {}
    BY <1>3, <2>1 DEF Reorder, RowsReordered, Missing, InTheWay
  <2>2. CASE ~(Missing(r) = {} /\ InTheWay(r) = {})
    BY <1>3, <2>2 DEF Reorder
  <2> QED
    BY <2>1, <2>2
<1>4. CASE DeleteWindow
  BY <1>4 DEF DeleteWindow, RowsCleared
<1>5. ASSUME NEW r \in Requests,
             \/ \E m \in Media, d \in Durations : AddRequest(r, m, d) \/ UpdateMediumRequest(r, m, d)
             \/ \E e \in Ids : DeleteRequest(r, e)
             \/ \E p \in Orders(Rows) : ReorderRequest(r, p)
             \/ \E c \in Cycles : UpdateRequest(r, c)
             \/ LockWindow(r) \/ Rollback(r)
             \/ Measure(r) \/ UpdateWindow(r) \/ UpdateMedium(r)
      PROVE  UNCHANGED table
  BY <1>5 DEF AddRequest, UpdateMediumRequest, DeleteRequest, ReorderRequest, UpdateRequest,
              LockWindow, Rollback, Measure, UpdateWindow, UpdateMedium
<1>6. CASE \E m \in Media : DeleteMedium(m) \/ \E d \in Durations : CreateMedium(m, d)
  BY <1>6 DEF DeleteMedium, CreateMedium
<1>7. CASE UNCHANGED vars
  BY <1>7 DEF vars
<1> QED
  BY <1>1, <1>2, <1>3, <1>4, <1>5, <1>6, <1>7 DEF Next, WriteStep, Writes

(* Every step keeps the table in order.                                    *)
LEMMA TableNext == ASSUME StoreInv, [Next]_vars PROVE TableInv'
<1>1. TableInv /\ RequestsOK /\ TypeOK /\ ReadsHold
  BY TypeParts DEF StoreInv, TableInv
<1>2. CASE UNCHANGED table
  BY <1>1, <1>2, TableFrame
<1>3. CASE RowsCleared
  BY <1>1, <1>3, ClearedRows DEF RowsCleared
<1>4. ASSUME NEW r \in Requests, RowInserted(r) PROVE TableInv'
  BY <1>1, <1>4, InsertedRow DEF RowInserted, ReadsHold
<1>5. ASSUME NEW r \in Requests, RowDeleted(r) PROVE TableInv'
  BY <1>1, <1>5, DeletedRow DEF RowDeleted
<1>6. ASSUME NEW r \in Requests, RowsReordered(r) PROVE TableInv'
  <2>1. plan[r] \in Seq(Ids) /\ Distinct(plan[r])
    BY <1>1, <1>6 DEF RequestsOK, ReadsHold, RequestRead, RowsReordered
  <2> QED
    BY <1>1, <1>6, <2>1, ReorderedRows DEF RowsReordered
<1> QED
  BY <1>1, <1>2, <1>3, <1>4, <1>5, <1>6, TableStep DEF Writes

(* The cycle, the durations of media, and the number of faults.            *)
LEMMA ValuesNext ==
    ASSUME ValuesOK, RequestsOK, [Next]_vars PROVE ValuesOK'
<1> USE DEF ValuesOK
<1>1. ASSUME NEW r \in Requests,
             \/ \E m \in Media, d \in Durations : AddRequest(r, m, d) \/ UpdateMediumRequest(r, m, d)
             \/ \E e \in Ids : DeleteRequest(r, e)
             \/ \E p \in Orders(Rows) : ReorderRequest(r, p)
             \/ \E c \in Cycles : UpdateRequest(r, c)
             \/ LockWindow(r) \/ Measure(r) \/ Insert(r) \/ Delete(r) \/ Reorder(r)
      PROVE  ValuesOK'
  BY <1>1 DEF AddRequest, UpdateMediumRequest, DeleteRequest, ReorderRequest, UpdateRequest,
              LockWindow, Measure, Insert, Delete, Reorder
<1>2. ASSUME NEW r \in Requests, UpdateWindow(r) PROVE ValuesOK'
  BY <1>2 DEF UpdateWindow, RequestsOK
<1>3. ASSUME NEW r \in Requests, UpdateMedium(r) PROVE ValuesOK'
  <2>1. seen[r] \in Nat
    BY DEF RequestsOK
  <2> QED
    BY <1>3, <2>1 DEF UpdateMedium
<1>4. ASSUME NEW r \in Requests, Rollback(r) PROVE ValuesOK'
  BY <1>4, BoundsAssumption DEF Rollback
<1>5. CASE DeleteWindow
  BY <1>5 DEF DeleteWindow
<1>6. ASSUME NEW m \in Media, DeleteMedium(m) PROVE ValuesOK'
  BY <1>6 DEF DeleteMedium
<1>7. ASSUME NEW m \in Media, NEW d \in Durations, CreateMedium(m, d) PROVE ValuesOK'
  BY <1>7, DurationsAssumption DEF CreateMedium
<1>8. CASE UNCHANGED vars
  BY <1>8 DEF vars
<1> QED
  BY <1>1, <1>2, <1>3, <1>4, <1>5, <1>6, <1>7, <1>8 DEF Next, WriteStep

-----------------------------------------------------------------------------
(* What a request has read, through its own steps and those of others.     *)
Keeps(q) == pc'[q] = pc[q] /\ arg'[q] = arg[q] /\ wanted'[q] = wanted[q]
            /\ plan'[q] = plan[q] /\ seen'[q] = seen[q]
KnownStay == \A m \in Media : media[m] # 0 => media'[m] # 0

LEMMA ReadFrame ==
    ASSUME NEW q, RequestRead(q), Keeps(q), KnownStay,
           pc[q] \in InTransaction => cycle' = cycle /\ UNCHANGED <<Size, TotalSeconds>>
    PROVE  RequestRead(q)'
  BY DEF RequestRead, Keeps, KnownStay, AddSteps, InTransaction

LEMMA IdleRead == ASSUME NEW q, pc'[q] = "idle" PROVE RequestRead(q)'
  BY DEF RequestRead, AddSteps

LEMMA BeginKeeps ==
    ASSUME RequestsOK, NEW r \in Requests, NEW step, NEW m, NEW a, NEW p, NEW s,
           Begin(r, step, m, a, p, s)
    PROVE  /\ \A q \in Requests \ {r} : Keeps(q)
           /\ pc'[r] = step /\ arg'[r] = a /\ wanted'[r] = m /\ plan'[r] = p /\ seen'[r] = s
  BY DEF RequestsOK, Begin, Keeps

(* A step of one request, with the table, the cycle and the media as they  *)
(* were.                                                                   *)
LEMMA OthersRead ==
    ASSUME ReadsHold, NEW r, \A q \in Requests \ {r} : Keeps(q),
           UNCHANGED <<cycle, media, table>>
    PROVE  \A q \in Requests \ {r} : RequestRead(q)'
<1>1. KnownStay /\ UNCHANGED <<Size, TotalSeconds>>
  BY DEF KnownStay, table, Size, TotalSeconds, Seconds, Rows
<1> QED
  BY <1>1, ReadFrame DEF ReadsHold

(* The first steps of the requests.                                        *)
LEMMA FirstReads ==
    ASSUME StoreInv, NEW r \in Requests,
           \/ \E m \in Media, d \in Durations : AddRequest(r, m, d) \/ UpdateMediumRequest(r, m, d)
           \/ \E e \in Ids : DeleteRequest(r, e)
           \/ \E p \in Orders(Rows) : ReorderRequest(r, p)
           \/ \E c \in Cycles : UpdateRequest(r, c)
    PROVE  ReadsHold'
<1>0. RequestsOK /\ TableOK /\ ReadsHold /\ ValuesOK
  BY TypeParts DEF StoreInv
<1>1. ASSUME NEW m \in Media, NEW d \in Durations, AddRequest(r, m, d) PROVE ReadsHold'
  <2>1. /\ \A q \in Requests \ {r} : Keeps(q) /\ UNCHANGED <<cycle, media, table>>
        /\ pc'[r] = "add_lock" /\ wanted'[r] = m /\ media'[m] # 0
        /\ UNCHANGED <<cycle, media, table>>
    BY <1>0, <1>1, BeginKeeps DEF AddRequest
  <2>2. RequestRead(r)'
    BY <2>1 DEF RequestRead
  <2> QED
    BY <1>0, <2>1, <2>2, OthersRead DEF ReadsHold
<1>2. ASSUME NEW m \in Media, NEW d \in Durations, UpdateMediumRequest(r, m, d) PROVE ReadsHold'
  <2>1. /\ \A q \in Requests \ {r} : Keeps(q)
        /\ pc'[r] = "media_write" /\ wanted'[r] = m /\ seen'[r] = (IF d = 0 THEN media[m] ELSE d)
        /\ UNCHANGED <<cycle, media, table>> /\ media[m] > 0 /\ d >= 0
    BY <1>0, <1>2, BeginKeeps DEF UpdateMediumRequest
  <2>2. seen'[r] > 0
    BY <2>1, DurationsAssumption
  <2>3. RequestRead(r)'
    BY <2>1, <2>2 DEF RequestRead, AddSteps
  <2> QED
    BY <1>0, <2>1, <2>3, OthersRead DEF ReadsHold
<1>3. ASSUME NEW e \in Ids, DeleteRequest(r, e) PROVE ReadsHold'
  <2>1. /\ \A q \in Requests \ {r} : Keeps(q)
        /\ pc'[r] = "delete_lock" /\ arg'[r] = e
        /\ UNCHANGED <<cycle, media, table>>
    BY <1>0, <1>3, BeginKeeps DEF DeleteRequest
  <2>2. RequestRead(r)'
    BY <2>1 DEF RequestRead, AddSteps
  <2> QED
    BY <1>0, <2>1, <2>2, OthersRead DEF ReadsHold
<1>4. ASSUME NEW p \in Orders(Rows), ReorderRequest(r, p) PROVE ReadsHold'
  <2>1. /\ \A q \in Requests \ {r} : Keeps(q)
        /\ pc'[r] = "reorder_lock" /\ plan'[r] = p /\ p # <<>>
        /\ UNCHANGED <<cycle, media, table>>
    BY <1>0, <1>4, BeginKeeps DEF ReorderRequest
  <2>2. Distinct(p)
    BY <1>0, <2>1, OrderFacts
  <2>3. RequestRead(r)'
    BY <2>1, <2>2 DEF RequestRead, AddSteps, Distinct
  <2> QED
    BY <1>0, <2>1, <2>3, OthersRead DEF ReadsHold
<1>5. ASSUME NEW c \in Cycles, UpdateRequest(r, c) PROVE ReadsHold'
  <2>1. /\ \A q \in Requests \ {r} : Keeps(q)
        /\ pc'[r] = "update_write"
        /\ UNCHANGED <<cycle, media, table>>
    BY <1>0, <1>5, BeginKeeps DEF UpdateRequest
  <2>2. RequestRead(r)'
    BY <2>1 DEF RequestRead, AddSteps
  <2> QED
    BY <1>0, <2>1, <2>2, OthersRead DEF ReadsHold
<1> QED
  BY <1>1, <1>2, <1>3, <1>4, <1>5

(* A request that ends, whatever it wrote: the others are not in a         *)
(* transaction if it was, and none is while the row of the window changes. *)
LEMMA EndReads ==
    ASSUME RequestsOK, LockOK, ReadsHold, NEW r \in Requests, End(r), KnownStay,
           \/ UNCHANGED <<cycle, table>>
           \/ pc[r] \in InTransaction \/ rowLock = NoRequest
    PROVE  ReadsHold'
<1>1. (\A q \in Requests \ {r} : Keeps(q)) /\ pc'[r] = "idle"
  BY BeginKeeps DEF End
<1>2. UNCHANGED table => UNCHANGED <<Size, TotalSeconds>>
  BY DEF table, Size, TotalSeconds, Seconds, Rows
<1>3. ASSUME NEW q \in Requests \ {r} PROVE RequestRead(q)'
  <2>1. pc[q] \in InTransaction => cycle' = cycle /\ UNCHANGED <<Size, TotalSeconds>>
    BY <1>2, RequestsAssumption DEF LockOK
  <2> QED
    BY <1>1, <2>1, ReadFrame DEF ReadsHold
<1> QED
  BY <1>1, <1>3, IdleRead DEF ReadsHold

LEMMA ReadsNext == ASSUME StoreInv, [Next]_vars PROVE ReadsHold'
<1>0. TableOK /\ RequestsOK /\ LockOK /\ ValuesOK /\ ReadsHold /\ Dense
  BY TypeParts, PlacedIsDense DEF StoreInv
<1>1. ASSUME NEW r \in Requests, LockWindow(r) PROVE ReadsHold'
  <2>1. CASE cycle = 0
    BY <1>0, <1>1, <2>1, EndReads DEF LockWindow, KnownStay
  <2>2. CASE cycle # 0
    <3>1. /\ pc' = [pc EXCEPT ![r] = Locked[pc[r]]] /\ seen' = [seen EXCEPT ![r] = cycle]
          /\ UNCHANGED <<arg, wanted, plan, cycle, media, table>> /\ pc[r] \in Waiting
      BY <1>1, <2>2 DEF LockWindow
    <3>2. \A q \in Requests \ {r} : Keeps(q)
      BY <1>0, <3>1 DEF Keeps, RequestsOK
    <3>3. RequestRead(r) /\ seen'[r] = cycle' /\ pc'[r] = Locked[pc[r]]
      BY <1>0, <3>1 DEF ReadsHold, RequestsOK
    <3>4. RequestRead(r)'
      BY <3>1, <3>3 DEF RequestRead, AddSteps, Waiting, Locked
    <3> QED
      BY <1>0, <3>1, <3>2, <3>4, OthersRead DEF ReadsHold
  <2> QED
    BY <2>1, <2>2
<1>2. ASSUME NEW r \in Requests, Measure(r) PROVE ReadsHold'
  <2>1. CASE End(r)
    BY <1>0, <1>2, <2>1, EndReads DEF Measure, KnownStay
  <2>2. CASE ~End(r)
    <3>1. /\ pc[r] = "add_measure" /\ ~(TotalSeconds + arg[r] > seen[r])
          /\ Begin(r, "add_insert", wanted[r], arg[r], <<>>, LastPosition + 1)
          /\ UNCHANGED <<cycle, media, table>>
      BY <1>2, <2>2 DEF Measure
    <3>2. /\ \A q \in Requests \ {r} : Keeps(q)
          /\ pc'[r] = "add_insert" /\ arg'[r] = arg[r] /\ wanted'[r] = wanted[r]
          /\ seen'[r] = LastPosition + 1
      BY <1>0, <3>1, BeginKeeps
    <3>3. UNCHANGED <<Size, TotalSeconds>>
      BY <3>1 DEF table, Size, TotalSeconds, Seconds, Rows
    <3>4. LastPosition = Size /\ seen[r] = cycle /\ wanted[r] \in Media /\ media[wanted[r]] # 0
      BY <1>0, <3>1, LastIsSize DEF ReadsHold, RequestRead, AddSteps
    <3>5. TotalSeconds + arg[r] <= cycle
      BY <1>0, <3>1, <3>4, SecondsFinite DEF RequestsOK, ValuesOK
    <3>6. RequestRead(r)'
      BY <3>1, <3>2, <3>3, <3>4, <3>5 DEF RequestRead, AddSteps
    <3> QED
      BY <1>0, <3>1, <3>2, <3>6, OthersRead DEF ReadsHold
  <2> QED
    BY <2>1, <2>2
<1>3. ASSUME NEW r \in Requests, Insert(r) \/ Delete(r) \/ Reorder(r) \/ Rollback(r) \/ UpdateWindow(r)
      PROVE  ReadsHold'
  <2>1. KnownStay /\ End(r)
    BY <1>3 DEF Insert, Delete, Reorder, Rollback, UpdateWindow, KnownStay
  <2>2. pc[r] \in InTransaction \/ rowLock = NoRequest
    BY <1>3 DEF Insert, Delete, Reorder, Rollback, UpdateWindow, InTransaction
  <2> QED
    BY <1>0, <2>1, <2>2, EndReads
<1>4. ASSUME NEW r \in Requests, UpdateMedium(r) PROVE ReadsHold'
  <2>1. seen[r] > 0
    BY <1>0, <1>4 DEF UpdateMedium, ReadsHold, RequestRead
  <2>2. KnownStay
    BY <1>0, <1>4, <2>1 DEF UpdateMedium, KnownStay, ValuesOK, RequestsOK
  <2> QED
    BY <1>0, <1>4, <2>2, EndReads DEF UpdateMedium
<1>5. CASE DeleteWindow
  <2>1. /\ \A q \in Requests : Keeps(q) /\ pc[q] \notin InTransaction
        /\ KnownStay
    BY <1>0, <1>5, RequestsAssumption DEF DeleteWindow, request, Keeps, LockOK, KnownStay
  <2> QED
    BY <1>0, <2>1, ReadFrame DEF ReadsHold
<1>6. CASE \/ \E m \in Media : DeleteMedium(m) \/ \E d \in Durations : CreateMedium(m, d)
           \/ UNCHANGED vars
  <2>1. /\ \A q \in Requests : Keeps(q)
        /\ UNCHANGED <<cycle, Size, TotalSeconds>>
    BY <1>6 DEF DeleteMedium, CreateMedium, vars, request, table, Keeps, Size, TotalSeconds,
                Seconds, Rows
  <2>2. KnownStay
    BY <1>0, <1>6, DurationsAssumption DEF DeleteMedium, CreateMedium, vars, KnownStay, Gone, ValuesOK
  <2> QED
    BY <1>0, <2>1, <2>2, ReadFrame DEF ReadsHold
<1> QED
  BY <1>1, <1>2, <1>3, <1>4, <1>5, <1>6, FirstReads DEF Next, WriteStep

-----------------------------------------------------------------------------
(* The medium of a row stays: neither an insertion nor a deletion of media *)
(* in between leaves a row without it.                                     *)
LEMMA MediaKeptNext == ASSUME StoreInv, [Next]_vars PROVE MediaKept'
<1>0. /\ TableOK /\ RequestsOK /\ ValuesOK /\ ReadsHold /\ MediaKept /\ TypeOK
      /\ TableInv /\ Rows \subseteq Ids
  BY TypeParts, RowsFinite DEF StoreInv, TableInv
<1>1. ASSUME NEW r \in Requests, RowInserted(r), UNCHANGED media PROVE MediaKept'
  <2>1. /\ Rows' = Rows \cup {nextId} /\ nextId \in Ids \ Rows
        /\ medium' = [medium EXCEPT ![nextId] = wanted[r]]
    BY <1>0, <1>1, InsertedRow DEF RowInserted, ReadsHold, Inserted
  <2>2. wanted[r] \in Media /\ media[wanted[r]] > 0
    BY <1>0, <1>1 DEF RowInserted, ReadsHold, RequestRead, AddSteps, ValuesOK, Gone
  <2> QED
    BY <1>0, <1>1, <2>1, <2>2 DEF MediaKept, TableOK
<1>2. ASSUME NEW r \in Requests, RowDeleted(r), UNCHANGED media PROVE MediaKept'
  <2>1. /\ Rows' = Rows \ {arg[r]}
        /\ \A f \in Rows \ {arg[r]} : medium'[f] = medium[f]
    BY <1>0, <1>2, DeletedRow DEF RowDeleted
  <2> QED
    BY <1>0, <1>2, <2>1 DEF MediaKept
<1>3. ASSUME NEW r \in Requests, RowsReordered(r), UNCHANGED media PROVE MediaKept'
  <2>1. plan[r] \in Seq(Ids) /\ Distinct(plan[r])
    BY <1>0, <1>3 DEF RequestsOK, ReadsHold, RequestRead, RowsReordered
  <2>2. Rows' = Rows /\ medium' = medium
    BY <1>0, <1>3, <2>1, ReorderedRows DEF RowsReordered
  <2> QED
    BY <1>0, <1>3, <2>2 DEF MediaKept
<1>4. CASE RowsCleared
  BY <1>0, <1>4, ClearedRows DEF RowsCleared, MediaKept
<1>5. CASE UNCHANGED table
  <2>1. Rows' = Rows /\ medium' = medium
    BY <1>5 DEF Rows, table
  <2>2. ASSUME NEW m \in Media, media[m] > 0, \E e \in Rows : medium[e] = m PROVE media'[m] > 0
    <3>1. CASE media' = media
      BY <2>2, <3>1
    <3>2. ASSUME NEW r \in Requests, UpdateMedium(r) PROVE media'[m] > 0
      <4>1. seen[r] > 0
        BY <1>0, <3>2 DEF UpdateMedium, ReadsHold, RequestRead
      <4> QED
        BY <1>0, <2>2, <3>2, <4>1 DEF UpdateMedium, ValuesOK
    <3>3. ASSUME NEW n \in Media, DeleteMedium(n) PROVE media'[m] > 0
      BY <1>0, <2>2, <3>3 DEF DeleteMedium, ValuesOK
    <3>4. ASSUME NEW n \in Media, NEW d \in Durations, CreateMedium(n, d) PROVE media'[m] > 0
      BY <1>0, <2>2, <3>4 DEF CreateMedium, ValuesOK
    <3>5. \/ media' = media \/ \E r \in Requests : UpdateMedium(r)
          \/ \E n \in Media : DeleteMedium(n) \/ \E d \in Durations : CreateMedium(n, d)
      BY DEF Next, WriteStep, AddRequest, UpdateMediumRequest, DeleteRequest, ReorderRequest,
             UpdateRequest, LockWindow, Measure, Insert, Delete, Reorder, UpdateWindow, Rollback,
             DeleteWindow, vars
    <3> QED
      BY <3>1, <3>2, <3>3, <3>4, <3>5
  <2> QED
    BY <1>0, <2>1, <2>2 DEF MediaKept
<1> QED
  BY <1>0, <1>1, <1>2, <1>3, <1>4, <1>5, TableStep DEF Writes

-----------------------------------------------------------------------------
(* The inductive invariant.                                                *)
LEMMA StoreInit == Init => StoreInv
<1> SUFFICES ASSUME Init PROVE StoreInv
  OBVIOUS
<1>1. Rows = {} /\ Size = 0
  <2>1. Rows = {}
    BY DEF Init, Rows
  <2> QED
    BY <2>1, FS_EmptySet DEF Size
<1>2. TableOK
  BY BoundsAssumption DEF Init, TableOK
<1>3. RequestsOK
  BY DEF Init, RequestsOK, Steps
<1>4. LockOK
  BY RequestsAssumption DEF Init, LockOK, InTransaction
<1>5. ValuesOK
  BY DurationsAssumption, BoundsAssumption DEF Init, ValuesOK, Created
<1>6. ReadsHold
  BY DEF Init, ReadsHold, RequestRead, AddSteps
<1> QED
  BY <1>1, <1>2, <1>3, <1>4, <1>5, <1>6, TypeParts DEF StoreInv, IdsUsed, Placed, MediaKept

LEMMA StoreNext == StoreInv /\ [Next]_vars => StoreInv'
<1> SUFFICES ASSUME StoreInv, [Next]_vars PROVE StoreInv'
  OBVIOUS
<1>1. TableOK /\ RequestsOK /\ LockOK /\ ValuesOK /\ Dense
  BY TypeParts, PlacedIsDense DEF StoreInv
<1>2. TableInv' /\ ValuesOK' /\ ReadsHold' /\ MediaKept'
  BY <1>1, TableNext, ValuesNext, ReadsNext, MediaKeptNext
<1>3. RequestsOK' /\ LockOK'
  <2>1. CASE Next
    BY <1>1, <2>1, RequestsNext
  <2>2. CASE UNCHANGED vars
    BY <1>1, <2>2 DEF vars, request, RequestsOK, LockOK
  <2> QED
    BY <2>1, <2>2
<1>4. TypeOK'
  BY <1>2, <1>3 DEF TableInv, TypeOK, TableOK, RequestsOK, LockOK, ValuesOK
<1> QED
  BY <1>2, <1>4 DEF StoreInv, TableInv

(* Every reachable state satisfies it.                                     *)
THEOREM StoreCorrect == Spec => []StoreInv
  BY StoreInit, StoreNext, PTL DEF Spec

(* Rows, requests and the row lock are what they should be: the lock of    *)
(* the window belongs to the request whose transaction is open.            *)
THEOREM TypeCorrect == Spec => []TypeOK
<1>1. StoreInv => TypeOK
  BY DEF StoreInv
<1> QED
  BY <1>1, StoreCorrect, PTL

(* The positions are 1, 2, 3... for any requests, faults and stale plans.  *)
THEOREM AlwaysDense == Spec => []Dense
<1>1. StoreInv => Dense
  BY TypeParts, PlacedIsDense DEF StoreInv
<1> QED
  BY <1>1, StoreCorrect, PTL

(* No row of a playlist is left without its medium.                        *)
THEOREM AlwaysMediaKept == Spec => []MediaKept
<1>1. StoreInv => MediaKept
  BY DEF StoreInv
<1> QED
  BY <1>1, StoreCorrect, PTL

-----------------------------------------------------------------------------
(* An item adds its duration to the total.                                 *)
LEMMA SecondsGrow ==
    ASSUME StoreInv, NEW r \in Requests, RowInserted(r)
    PROVE  TotalSeconds' = TotalSeconds + arg[r]
<1> DEFINE more == {nextId} \X (1..arg[r])
<1>0. TableInv /\ TableOK /\ RequestsOK /\ ReadsHold /\ arg[r] \in Nat
  BY TypeParts DEF StoreInv, TableInv, RequestsOK
<1>1. Rows' = Rows \cup {nextId} /\ nextId \in Ids \ Rows /\ Rows \subseteq Ids
  BY <1>0, InsertedRow, RowsFinite DEF RowInserted, ReadsHold
<1>2. duration' = [duration EXCEPT ![nextId] = arg[r]]
  BY DEF RowInserted, Inserted
<1>3. duration'[nextId] = arg[r] /\ \A e \in Rows : duration'[e] = duration[e]
  BY <1>0, <1>1, <1>2 DEF TableOK
<1>4. Seconds' = Seconds \cup more
  <2>1. Seconds' = UNION {{e} \X (1..duration'[e]) : e \in Rows'}
    BY DEF Seconds
  <2>2. {{e} \X (1..duration'[e]) : e \in Rows'} = {{e} \X (1..duration[e]) : e \in Rows} \cup {more}
    BY <1>1, <1>3
  <2> QED
    BY <2>1, <2>2 DEF Seconds
<1>5. Seconds \cap more = {}
  BY <1>1 DEF Seconds
<1>6. IsFiniteSet(Seconds) /\ TotalSeconds \in Nat /\ IsFiniteSet(more) /\ Cardinality(more) = arg[r]
  BY <1>0, SecondsFinite, SecondsOfItem
<1>7. Cardinality(Seconds \cup more) = TotalSeconds + arg[r] - Cardinality(Seconds \cap more)
  BY <1>6, FS_Union DEF TotalSeconds
<1>8. Cardinality(Seconds \cap more) = 0
  BY <1>5, FS_EmptySet
<1> QED
  BY <1>0, <1>4, <1>6, <1>7, <1>8 DEF TotalSeconds

(* When a row is added, the playlist fits the cycle as it is then.         *)
LEMMA AddFitsNext ==
    ASSUME StoreInv, [Next]_vars PROVE nextId' # nextId => TotalSeconds' <= cycle
<1>0. TypeOK /\ ReadsHold
  BY DEF StoreInv
<1>1. ASSUME NEW r \in Requests, RowInserted(r) PROVE TotalSeconds' <= cycle
  BY <1>0, <1>1, SecondsGrow DEF RowInserted, ReadsHold, RequestRead
<1>2. nextId' # nextId => \E r \in Requests : RowInserted(r)
  BY <1>0, TableStep DEF table, RowsCleared, Writes, RowDeleted, RowsReordered
<1> QED
  BY <1>1, <1>2

THEOREM AdditionsFit == Spec => AddFits
<1>1. StoreInv /\ [Next]_vars => [nextId' # nextId => TotalSeconds' <= cycle]_vars
  BY AddFitsNext
<1> QED
  BY <1>1, StoreCorrect, PTL DEF Spec, AddFits

-----------------------------------------------------------------------------
(* Refinement.  Under the invariant the playlist is a sequence that gives  *)
(* each row its place, and no other sequence does.                         *)
ItemFacts ==
    /\ Items \in [1..Size -> Rows] /\ Items \in Seq(Ids) /\ Len(Items) = Size
    /\ DOMAIN Items = 1..Size /\ Size \in Nat
    /\ \A k \in 1..Size : position[Items[k]] = k
    /\ \A e \in Rows : position[e] \in 1..Size /\ Items[position[e]] = e

LEMMA ItemsAre == TableOK /\ Placed => ItemFacts
<1> SUFFICES ASSUME TableOK, Placed PROVE ItemFacts
  OBVIOUS
<1>1. Rows \subseteq Ids /\ Size \in Nat
  BY RowsFinite
<1>2. Dense
  BY PlacedIsDense
<1>3. \A k \in 1..Size : \E e \in Rows : position[e] = k
  BY <1>2 DEF Dense
<1>4. \A k \in 1..Size : Items[k] \in Rows /\ position[Items[k]] = k
  <2>1. ASSUME NEW k \in 1..Size PROVE Items[k] = CHOOSE e \in Rows : position[e] = k
    BY <1>3 DEF Items
  <2> QED
    BY <1>3, <2>1
<1>5. Items \in [1..Size -> Rows] /\ DOMAIN Items = 1..Size
  BY <1>4 DEF Items
<1>6. Items \in Seq(Ids) /\ Len(Items) = Size
  BY <1>1, <1>5
<1>7. \A e \in Rows : position[e] \in 1..Size
  BY <1>2 DEF Dense
<1>8. \A e \in Rows : Items[position[e]] = e
  <2>1. ASSUME NEW e \in Rows PROVE Items[position[e]] \in Rows /\ position[Items[position[e]]] = position[e]
    BY <1>4, <1>7
  <2> QED
    BY <2>1 DEF Placed
<1> QED
  BY <1>1, <1>4, <1>5, <1>6, <1>7, <1>8 DEF ItemFacts

LEMMA ItemsThen == TableOK' /\ Placed' => ItemFacts'
  BY ItemsAre, PTL

LEMMA ItemsUnique ==
    ASSUME NEW n \in Nat, NEW R, NEW p, \A e, f \in R : p[e] = p[f] => e = f,
           NEW s \in [1..n -> R], \A k \in 1..n : p[s[k]] = k,
           NEW t \in [1..n -> R], \A k \in 1..n : p[t[k]] = k
    PROVE  s = t
<1>1. ASSUME NEW k \in 1..n PROVE s[k] = t[k]
  <2>1. p[s[k]] = p[t[k]] /\ s[k] \in R /\ t[k] \in R
    OBVIOUS
  <2> QED
    BY <2>1
<1> QED
  BY <1>1

LEMMA ItemsElements == ASSUME ItemFacts PROVE Sequence!ToSet(Items) = Rows
  BY DEF ItemFacts, Sequence!ToSet

(* What a write does to the sequence, given the one it should make.        *)
LEMMA ItemsBecome ==
    ASSUME TableInv', NEW s \in [1..Size' -> Rows'], \A k \in 1..Size' : position'[s[k]] = k
    PROVE  Items' = s
<1>1. ItemFacts' /\ Placed'
  BY ItemsThen DEF TableInv
<1>2. Items' \in [1..Size' -> Rows'] /\ Size' \in Nat /\ \A k \in 1..Size' : position'[Items'[k]] = k
  BY <1>1 DEF ItemFacts
<1>3. \A e, f \in Rows' : position'[e] = position'[f] => e = f
  BY <1>1 DEF Placed
<1> QED
  BY <1>2, <1>3, ItemsUnique

(* An insertion appends, a deletion removes one item, a reorder puts the   *)
(* items in another order.                                                 *)
LEMMA InsertAppends ==
    ASSUME StoreInv, TableInv', NEW r \in Requests, RowInserted(r) PROVE Sequence!AppendItem
<1>0. TableInv /\ TableOK /\ Placed /\ RequestsOK /\ ReadsHold /\ ItemFacts /\ Rows \subseteq Ids
  BY TypeParts, ItemsAre, RowsFinite DEF StoreInv, TableInv
<1>1. /\ Rows' = Rows \cup {nextId} /\ nextId \in Ids \ Rows /\ Size' = Size + 1
      /\ position'[nextId] = Size + 1
      /\ position' = [position EXCEPT ![nextId] = seen[r]]
  BY <1>0, InsertedRow DEF RowInserted, ReadsHold, Inserted
<1> DEFINE s == Append(Items, nextId)
<1>2. /\ s \in Seq(Ids) /\ Len(s) = Size + 1 /\ s[Size + 1] = nextId
      /\ \A k \in 1..Size : s[k] = Items[k]
  BY <1>0, <1>1 DEF ItemFacts
<1> HIDE DEF s
<1>3. ASSUME NEW k \in 1..(Size + 1) PROVE s[k] \in Rows' /\ position'[s[k]] = k
  <2>1. CASE k = Size + 1
    BY <1>1, <1>2, <2>1
  <2>2. CASE k # Size + 1
    <3>1. k \in 1..Size /\ Items[k] \in Rows /\ position[Items[k]] = k
      BY <1>0, <2>2 DEF ItemFacts
    <3> QED
      BY <1>0, <1>1, <1>2, <3>1 DEF TableOK
  <2> QED
    BY <2>1, <2>2
<1>4. s \in [1..(Size + 1) -> Rows']
  BY <1>2, <1>3
<1>5. Items' = s
  BY <1>1, <1>3, <1>4, ItemsBecome
<1>6. nextId \in Ids \ Sequence!ToSet(Items)
  BY <1>0, <1>1, ItemsElements
<1> QED
  BY <1>5, <1>6 DEF Sequence!AppendItem, s

LEMMA Joined ==
    ASSUME NEW S, NEW a \in Seq(S), NEW b \in Seq(S)
    PROVE  /\ a \o b \in Seq(S) /\ Len(a \o b) = Len(a) + Len(b)
           /\ \A k \in 1..(Len(a) + Len(b)) :
                 (a \o b)[k] = IF k <= Len(a) THEN a[k] ELSE b[k - Len(a)]
  OBVIOUS

LEMMA DeleteRemoves ==
    ASSUME StoreInv, TableInv', NEW r \in Requests, RowDeleted(r) PROVE Sequence!RemoveItem
<1> DEFINE e == arg[r]
           p == position[e]
<1>0. /\ TableInv /\ ItemFacts /\ e \in Rows
      /\ p \in 1..Size /\ Items[p] = e /\ Size \in Nat /\ p \in DOMAIN Items
  BY TypeParts, ItemsAre DEF StoreInv, TableInv, RowDeleted, ItemFacts
<1>1. /\ Rows' = Rows \ {e} /\ Size' = Size - 1
      /\ \A f \in Rows \ {e} :
            position'[f] = IF position[f] > p THEN position[f] - 1 ELSE position[f]
  BY <1>0, DeletedRow DEF RowDeleted
<1> DEFINE s == Sequence!RemoveAt(Items, p)
<1>2. /\ s \in Seq(Ids) /\ Len(s) = Size - 1
      /\ \A k \in 1..(Size - 1) : s[k] = IF k < p THEN Items[k] ELSE Items[k + 1]
  <2>1. /\ SubSeq(Items, 1, p - 1) \in Seq(Ids) /\ Len(SubSeq(Items, 1, p - 1)) = p - 1
        /\ \A k \in 1..(p - 1) : SubSeq(Items, 1, p - 1)[k] = Items[k]
    BY <1>0 DEF ItemFacts
  <2>2. /\ SubSeq(Items, p + 1, Size) \in Seq(Ids) /\ Len(SubSeq(Items, p + 1, Size)) = Size - p
        /\ \A k \in 1..(Size - p) : SubSeq(Items, p + 1, Size)[k] = Items[p + k]
    BY <1>0 DEF ItemFacts
  <2>3. s = SubSeq(Items, 1, p - 1) \o SubSeq(Items, p + 1, Size)
    BY <1>0 DEF Sequence!RemoveAt, ItemFacts
  <2>4. p \in 1..Size /\ Size \in Nat
    BY <1>0
  <2> DEFINE a == SubSeq(Items, 1, p - 1)
             b == SubSeq(Items, p + 1, Size)
  <2>5. /\ a \in Seq(Ids) /\ Len(a) = p - 1 /\ b \in Seq(Ids) /\ Len(b) = Size - p /\ s = a \o b
        /\ \A k \in 1..(p - 1) : a[k] = Items[k]
        /\ \A k \in 1..(Size - p) : b[k] = Items[p + k]
    BY <2>1, <2>2, <2>3
  <2> HIDE DEF a, b, s, p
  <2>6. /\ s \in Seq(Ids) /\ Len(s) = Size - 1
        /\ \A k \in 1..(Size - 1) : s[k] = IF k < p THEN a[k] ELSE b[k - (p - 1)]
    <3>1. /\ s \in Seq(Ids) /\ Len(s) = Len(a) + Len(b)
          /\ \A k \in 1..(Len(a) + Len(b)) : s[k] = IF k <= Len(a) THEN a[k] ELSE b[k - Len(a)]
      BY <2>5, Joined, Zenon
    <3>2. Len(a) + Len(b) = Size - 1 /\ \A k \in 1..(Size - 1) : k <= Len(a) <=> k < p
      BY <2>4, <2>5
    <3>3. Len(a) = p - 1
      BY <2>5
    <3> QED
      BY <3>1, <3>2, <3>3
  <2>7. ASSUME NEW k \in 1..(Size - 1) PROVE s[k] = IF k < p THEN Items[k] ELSE Items[k + 1]
    <3>1. CASE k < p
      BY <2>4, <2>5, <2>6, <3>1
    <3>2. CASE ~(k < p)
      <4>1. k - (p - 1) \in 1..(Size - p) /\ p + (k - (p - 1)) = k + 1
        BY <2>4, <3>2
      <4> QED
        BY <2>5, <2>6, <3>2, <4>1
    <3> QED
      BY <3>1, <3>2
  <2> QED
    BY <2>6, <2>7
<1> HIDE DEF s
<1>3. ASSUME NEW k \in 1..(Size - 1) PROVE s[k] \in Rows' /\ position'[s[k]] = k
  <2>1. CASE k < p
    <3>1. Items[k] \in Rows /\ position[Items[k]] = k /\ s[k] = Items[k]
      BY <1>0, <1>2, <2>1 DEF ItemFacts
    <3> QED
      BY <1>0, <1>1, <2>1, <3>1
  <2>2. CASE ~(k < p)
    <3>1. Items[k + 1] \in Rows /\ position[Items[k + 1]] = k + 1 /\ s[k] = Items[k + 1]
      BY <1>0, <1>2, <2>2 DEF ItemFacts
    <3> QED
      BY <1>0, <1>1, <2>2, <3>1
  <2> QED
    BY <2>1, <2>2
<1>4. s \in [1..(Size - 1) -> Rows']
  BY <1>0, <1>2, <1>3
<1>5. Items' = s
  BY <1>1, <1>3, <1>4, ItemsBecome
<1> QED
  BY <1>0, <1>5 DEF Sequence!RemoveItem, s

LEMMA ReorderRearranges ==
    ASSUME StoreInv, TableInv', NEW r \in Requests, RowsReordered(r) PROVE Sequence!Rearrange
<1> DEFINE s == plan[r]
<1>1. /\ TableInv /\ ItemFacts /\ ItemFacts'
      /\ s \in Seq(Ids) /\ Distinct(s) /\ s # <<>>
  BY TypeParts, ItemsAre, ItemsThen
     DEF StoreInv, TableInv, RowsReordered, RequestsOK, ReadsHold, RequestRead
<1>2. Rows' = Rows /\ Size' = Size
  <2>1. Rows' = Rows
    BY <1>1, ReorderedRows DEF RowsReordered
  <2> QED
    BY <2>1 DEF Size
<1>3. Items \in [1..Size -> Rows] /\ Items' \in [1..Size -> Rows]
  BY <1>1, <1>2 DEF ItemFacts
<1>4. Sequence!ToSet(Items) = Rows /\ Sequence!ToSet(Items') = Rows
  <2>1. Sequence!ToSet(Items) = Rows
    BY <1>1, ItemsElements
  <2>2. \A e \in Rows : \E k \in 1..Size : Items'[k] = e
    BY <1>1, <1>2 DEF ItemFacts
  <2> QED
    BY <1>3, <2>1, <2>2 DEF Sequence!ToSet
<1> QED
  BY <1>3, <1>4 DEF Sequence!Rearrange

LEMMA NothingIsEmpty == TableInv' /\ Size' = 0 => Items' = <<>>
<1> SUFFICES ASSUME TableInv', Size' = 0 PROVE Items' = <<>>
  OBVIOUS
<1>1. Items' \in Seq(Ids) /\ Len(Items') = 0
  BY ItemsThen DEF TableInv, ItemFacts
<1> QED
  BY <1>1

(* Each step of the transactions is one step of the sequence, or none.     *)
LEMMA SequenceNext ==
    ASSUME StoreInv, [Next]_vars PROVE [Sequence!Next]_Items
<1>0. TableInv' /\ TypeOK /\ ReadsHold
  BY TableNext DEF StoreInv
<1>1. CASE UNCHANGED table
  BY <1>1 DEF table, Items, Size, Rows
<1>2. CASE RowsCleared
  <2>1. TableInv
    BY TypeParts DEF StoreInv, TableInv
  <2>2. Size' = 0
    BY <1>2, <2>1, ClearedRows DEF RowsCleared
  <2> QED
    BY <1>0, <2>2, NothingIsEmpty DEF Sequence!Next, Sequence!Clear
<1>3. ASSUME NEW r \in Requests, Writes(r) PROVE Sequence!Next
  BY <1>0, <1>3, InsertAppends, DeleteRemoves, ReorderRearranges DEF Writes, Sequence!Next
<1> QED
  BY <1>0, <1>1, <1>2, <1>3, TableStep

LEMMA SequenceInit == Init => Sequence!Init
<1> SUFFICES ASSUME Init PROVE Items = <<>>
  BY DEF Sequence!Init
<1>1. Rows = {}
  BY DEF Init, Rows
<1>2. Size = 0
  BY <1>1, FS_EmptySet DEF Size
<1>3. Items \in Seq(Ids) /\ Len(Items) = 0
  BY <1>2, StoreInit, TypeParts, ItemsAre DEF StoreInv, ItemFacts
<1> QED
  BY <1>3

(* The transactions of the repository implement the sequence: each commit  *)
(* appends an item, removes one, or puts them in another order.            *)
THEOREM Refinement == Spec => ImplementsPlaylist
<1>1. StoreInv /\ [Next]_vars => [Sequence!Next]_Items
  BY SequenceNext
<1> QED
  BY <1>1, SequenceInit, StoreCorrect, PTL DEF Spec, ImplementsPlaylist, Sequence!Spec
=============================================================================
