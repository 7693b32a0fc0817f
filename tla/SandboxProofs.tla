---------------------------- MODULE SandboxProofs ----------------------------
(***************************************************************************)
(* Proofs about sandboxes, for any number of them, of pages of the list    *)
(* and of writes to a file; and that what is proved of each part holds     *)
(* where the parts are put together.                                       *)
(***************************************************************************)
EXTENDS MCSandbox, ProcessProofs, ImageBuildProofs, FiniteSetTheorems

Ids == 1..Len(sbxAll)
Handle == [sandbox_id : Ids \cup {NoId}, task_id : Ids \cup {NoId}]

(* The client is in a call or not, about a sandbox that it knows.          *)
SbxTyped ==
    /\ sbxAll \in Seq(SandboxState) /\ Len(sbxAll) <= MaxSandboxes
    /\ sbxPc \in {"idle", "scheduling", "listing"}
    /\ sbxHandle \in Handle /\ sbxHandle.task_id \in {NoId, sbxHandle.sandbox_id}
    /\ sbxPc = "scheduling" => sbxHandle.sandbox_id # NoId
    /\ sbxAttempt \in 0..(MaxAttempts - 1)
    /\ sbxListed \in Seq(Ids) /\ sbxBefore \in 0..MaxStamp
    /\ sbxSteady \subseteq Ids

\* The server numbers the sandboxes in the order of their timestamps.
InOrder == \A j, k \in Ids : j <= k => sbxAll[j].created_at <= sbxAll[k].created_at

(* While list takes in its pages: what it has is not before the timestamp  *)
(* it asks for next; and a sandbox that can be listed all the time is      *)
(* still to come, or has the timestamp of one that came.                   *)
ToCome(k) == sbxBefore > 0 => sbxAll[k].created_at < sbxBefore
HasTie(k) == \E x \in 1..Len(sbxListed) : sbxAll[sbxListed[x]].created_at = sbxAll[k].created_at

ListedOnce ==
    /\ sbxPc # "listing" => sbxListed = <<>> /\ sbxSteady = {}
    /\ sbxBefore = 0 => sbxListed = <<>>
    /\ \A x \in 1..Len(sbxListed) : sbxBefore <= sbxAll[sbxListed[x]].created_at
    /\ \A x, y \in 1..Len(sbxListed) : x # y => sbxListed[x] # sbxListed[y]
    /\ \A k \in sbxSteady : Listable(k) /\ (ToCome(k) \/ HasTie(k))

SbxInv == SbxTyped /\ InOrder /\ ListedOnce /\ ReportsAreTrue
-----------------------------------------------------------------------------
(* The place of a number in a set of numbers, the greatest first.          *)
Rank(O, k) == Cardinality({j \in O : j >= k})

(* Each place is that of one number, and the greater one has the lower     *)
(* place: a page of the list is well-defined.                              *)
LEMMA Ranks ==
    ASSUME NEW m \in Nat, NEW O \in SUBSET (1..m)
    PROVE  /\ IsFiniteSet(O) /\ Cardinality(O) \in Nat
           /\ \A k \in O : Rank(O, k) \in 1..Cardinality(O)
           /\ \A j, k \in O : j < k => Rank(O, k) < Rank(O, j)
           /\ \A x \in 1..Cardinality(O) : \E k \in O : Rank(O, k) = x
<1>1. IsFiniteSet(1..m)
  BY FS_Interval
<1>2. IsFiniteSet(O) /\ Cardinality(O) \in Nat
  BY <1>1, FS_Subset, FS_CardinalityType
<1> DEFINE U(k) == {j \in O : j >= k}
<1>3. ASSUME NEW k \in O PROVE Rank(O, k) \in 1..Cardinality(O)
  <2>1. U(k) \in SUBSET O /\ k \in U(k)
    BY <1>3
  <2> HIDE DEF U
  <2>2. IsFiniteSet(U(k)) /\ Cardinality(U(k)) <= Cardinality(O)
    BY <1>2, <2>1, FS_Subset
  <2>3. Cardinality(U(k)) \in Nat /\ Cardinality(U(k)) # 0
    BY <2>1, <2>2, FS_CardinalityType, FS_EmptySet
  <2>4. Cardinality(U(k)) \in 1..Cardinality(O)
    BY <1>2, <2>2, <2>3
  <2>5. QED BY <2>4 DEF Rank, U
<1>4. ASSUME NEW j \in O, NEW k \in O, j < k PROVE Rank(O, k) < Rank(O, j)
  <2>1. U(j) \in SUBSET O /\ U(k) \in SUBSET U(j) /\ j \in U(j) /\ j \notin U(k)
    <3>1. \A i \in O : i \in Int
      OBVIOUS
    <3>2. \A i \in O : i >= k => i >= j
      BY <1>4, <3>1
    <3>3. j >= j /\ ~(j >= k)
      BY <1>4, <3>1
    <3>4. QED BY <3>2, <3>3
  <2> HIDE DEF U
  <2>2. IsFiniteSet(U(j)) /\ IsFiniteSet(U(k))
    BY <1>2, <2>1, FS_Subset
  <2>3. Cardinality(U(k)) <= Cardinality(U(j)) /\ Cardinality(U(k)) # Cardinality(U(j))
    BY <2>1, <2>2, FS_Subset
  <2>4. Cardinality(U(k)) \in Nat /\ Cardinality(U(j)) \in Nat
    BY <2>2, FS_CardinalityType
  <2>5. Cardinality(U(k)) < Cardinality(U(j))
    BY <2>3, <2>4
  <2>6. QED BY <2>5 DEF Rank, U
<1>5. ASSUME NEW x \in 1..Cardinality(O) PROVE \E k \in O : Rank(O, k) = x
  <2> DEFINE n == Cardinality(O)
             f == [k \in O |-> Rank(O, k)]
  <2>1. f \in [O -> 1..n]
    BY <1>3
  <2>2. \A j, k \in O : f[j] = f[k] => j = k
    <3>1. \A j, k \in O : j \in Nat /\ k \in Nat /\ Rank(O, j) \in Nat /\ Rank(O, k) \in Nat
      BY <1>3
    <3>2. \A j, k \in O : Rank(O, j) = Rank(O, k) => j = k
      BY <1>4, <3>1
    <3>3. QED BY <3>2
  <2>3. f \in Injection(O, 1..n)
    BY <2>1, <2>2 DEF Injection, IsInjective
  <2>4. IsFiniteSet(1..n) /\ Cardinality(1..n) = n
    BY <1>2, FS_Interval
  <2>5. f \in Surjection(O, 1..n)
    <3> HIDE DEF f
    <3>1. QED BY <2>3, <2>4, FS_Injection
  <2>6. QED BY <2>5 DEF Surjection
<1>6. QED BY <1>2, <1>3, <1>4, <1>5
-----------------------------------------------------------------------------
(* What the variables are in a state of the invariant.                     *)
LEMMA SbxShapes ==
    ASSUME SbxTyped
    PROVE  /\ Len(sbxAll) \in Nat /\ DOMAIN sbxAll = Ids /\ Ids \subseteq 1..MaxSandboxes
           /\ \A k \in Ids : /\ sbxAll[k] \in SandboxState
                             /\ sbxAll[k].created_at \in 1..MaxStamp
           /\ Len(sbxListed) \in Nat /\ DOMAIN sbxListed = 1..Len(sbxListed)
           /\ \A x \in 1..Len(sbxListed) : sbxListed[x] \in Ids
           /\ MaxStamp \in Nat /\ MaxAttempts \in Nat /\ MaxSandboxes \in Nat /\ PageSize \in Nat
           /\ MaxAttempts # 0 /\ PageSize # 0
<1>1. /\ MaxStamp \in Nat /\ MaxAttempts \in Nat /\ MaxSandboxes \in Nat /\ PageSize \in Nat
      /\ MaxAttempts # 0 /\ PageSize # 0
  BY SandboxAssumption
<1>2. sbxAll \in Seq(SandboxState) /\ Len(sbxAll) <= MaxSandboxes /\ sbxListed \in Seq(Ids)
  BY DEF SbxTyped
<1>3. Len(sbxAll) \in Nat /\ DOMAIN sbxAll = Ids
      /\ Len(sbxListed) \in Nat /\ DOMAIN sbxListed = 1..Len(sbxListed)
  BY <1>2, LenProperties DEF Ids
<1>4. \A k \in Ids : k \in 1..MaxSandboxes
  BY <1>1, <1>2, <1>3 DEF Ids
<1>5. \A k \in Ids : sbxAll[k] \in SandboxState
  BY <1>2, ElementOfSeq DEF Ids
<1>6. \A x \in 1..Len(sbxListed) : sbxListed[x] \in Ids
  BY <1>2, ElementOfSeq
<1>7. \A k \in Ids : sbxAll[k].created_at \in 1..MaxStamp
  BY <1>5 DEF SandboxState
<1>8. QED BY <1>1, <1>3, <1>4, <1>5, <1>6, <1>7

(* What the server may do: it never forgets a sandbox or when it was       *)
(* created, and those that are new are the latest.                         *)
SbxGrows ==
    /\ sbxAll' \in Seq(SandboxState) /\ Len(sbxAll') <= MaxSandboxes
    /\ Len(sbxAll) <= Len(sbxAll')
    /\ \A k \in Ids : sbxAll'[k].created_at = sbxAll[k].created_at
    /\ InOrder'

LEMMA SbxStays == ASSUME SbxInv, UNCHANGED sbxAll PROVE SbxGrows
BY SbxShapes DEF SbxInv, SbxGrows, SbxTyped, InOrder, Ids

(* One of the sandboxes is in another state, of the same timestamp.        *)
LEMMA SbxStateChanges ==
    ASSUME SbxInv, NEW k \in Ids, NEW e \in SandboxState, e.created_at = sbxAll[k].created_at,
           sbxAll' = [sbxAll EXCEPT ![k] = e]
    PROVE  SbxGrows /\ Ids' = Ids /\ (\A j \in Ids : j # k => sbxAll'[j] = sbxAll[j]) /\ sbxAll'[k] = e
<1>1. SbxTyped /\ InOrder
  BY DEF SbxInv
<1>2. Len(sbxAll) \in Nat /\ DOMAIN sbxAll = Ids /\ sbxAll \in Seq(SandboxState)
      /\ Len(sbxAll) <= MaxSandboxes
  BY <1>1, SbxShapes DEF SbxTyped
<1>3. sbxAll' \in [1..Len(sbxAll) -> SandboxState]
  BY <1>1, <1>2, SbxShapes DEF Ids
<1>4. sbxAll' \in Seq(SandboxState) /\ Len(sbxAll') = Len(sbxAll)
  BY <1>2, <1>3, TupleOf
<1>5. Ids' = Ids /\ \A j \in Ids : sbxAll'[j] = IF j = k THEN e ELSE sbxAll[j]
  BY <1>2, <1>4 DEF Ids
<1>6. \A j \in Ids : sbxAll'[j].created_at = sbxAll[j].created_at
  BY <1>5
<1>7. InOrder'
  BY <1>1, <1>5, <1>6 DEF InOrder
<1>8. QED BY <1>2, <1>4, <1>5, <1>6, <1>7 DEF SbxGrows

(* Sandboxes are added behind the others.                                  *)
LEMMA SbxAdded ==
    ASSUME SbxInv, NEW n \in {1, 2}, SbxAdd(n)
    PROVE  /\ SbxGrows /\ Len(sbxAll') = Len(sbxAll) + n
           /\ \A k \in Ids : sbxAll'[k] = sbxAll[k]
<1>1. SbxTyped /\ InOrder
  BY DEF SbxInv
<1>2. PICK at \in 1..MaxStamp :
         /\ \A k \in DOMAIN sbxAll : sbxAll[k].created_at <= at
         /\ sbxAll' = sbxAll \o [k \in 1..n |->
               [created_at |-> at, scheduled |-> FALSE, tagged |-> TRUE, result |-> "Unspecified"]]
  BY DEF SbxAdd
<1> DEFINE e == [created_at |-> at, scheduled |-> FALSE, tagged |-> TRUE, result |-> "Unspecified"]
           new == [k \in 1..n |-> e]
<1>3. e \in SandboxState /\ e.created_at = at
  BY DEF SandboxState, GenericResultStatus
<1>4. new \in [1..n -> SandboxState] /\ n \in Nat
  BY <1>3
<1>5. sbxAll' = sbxAll \o new /\ \A k \in 1..n : new[k] = e
  BY <1>2
<1>6. Len(sbxAll) \in Nat /\ DOMAIN sbxAll = Ids /\ sbxAll \in Seq(SandboxState)
      /\ Len(sbxAll) + n <= MaxSandboxes
  BY <1>1, SbxShapes DEF SbxTyped, SbxAdd
<1> HIDE DEF e, new
<1>7. new \in Seq(SandboxState) /\ Len(new) = n
  BY <1>4, TupleOf
<1>8. /\ sbxAll' \in Seq(SandboxState) /\ Len(sbxAll') = Len(sbxAll) + n
      /\ \A k \in 1..(Len(sbxAll) + n) :
            sbxAll'[k] = IF k <= Len(sbxAll) THEN sbxAll[k] ELSE new[k - Len(sbxAll)]
  <2>1. sbxAll \in Seq(SandboxState) /\ new \in Seq(SandboxState)
    BY <1>6, <1>7
  <2>2. QED BY <1>5, <1>7, <2>1, ConcatProperties
<1>9. \A k \in Ids : sbxAll'[k] = sbxAll[k]
  BY <1>4, <1>6, <1>8 DEF Ids
<1>10. \A k \in Ids' : k \notin Ids => sbxAll'[k] = e
  BY <1>4, <1>5, <1>6, <1>8 DEF Ids
<1>11. InOrder'
  <2> SUFFICES ASSUME NEW j \in Ids', NEW k \in Ids', j <= k
               PROVE  sbxAll'[j].created_at <= sbxAll'[k].created_at
    BY DEF InOrder
  <2>1. j \in Nat /\ k \in Nat /\ (k \in Ids => j \in Ids)
    BY <1>4, <1>6, <1>8 DEF Ids
  <2>2. CASE k \in Ids
    BY <1>1, <1>9, <2>1, <2>2 DEF InOrder
  <2>3. CASE k \notin Ids
    <3>1. sbxAll'[k].created_at = at
      BY <1>3, <1>10, <2>3
    <3>2. CASE j \in Ids
      BY <1>2, <1>6, <1>9, <3>1, <3>2
    <3>3. CASE j \notin Ids
      BY <1>3, <1>10, <3>1, <3>3
    <3>4. QED BY <3>2, <3>3
  <2>4. QED BY <2>2, <2>3
<1>12. QED BY <1>4, <1>6, <1>8, <1>9, <1>11 DEF SbxGrows

(* Every step but those of list: what list has, and what is still to come, *)
(* stays so, whatever the server does.                                     *)
LEMMA SbxKept ==
    ASSUME SbxInv, SbxGrows, UNCHANGED <<sbxListed, sbxBefore>>,
           sbxPc' = sbxPc \/ (sbxPc # "listing" /\ sbxPc' \in {"idle", "scheduling"}),
           sbxHandle' \in Handle', sbxHandle'.task_id \in {NoId, sbxHandle'.sandbox_id},
           sbxPc' = "scheduling" => sbxHandle'.sandbox_id # NoId,
           sbxAttempt' \in 0..(MaxAttempts - 1),
           sbxSteady' \subseteq sbxSteady, \A k \in sbxSteady' : Listable(k)',
           ReportsAreTrue'
    PROVE  SbxInv'
<1>1. SbxTyped /\ InOrder /\ ListedOnce
  BY DEF SbxInv
<1>2. Len(sbxAll) \in Nat /\ Len(sbxAll') \in Nat
  BY <1>1, SbxShapes, LenProperties DEF SbxGrows
<1>3. Ids \subseteq Ids'
  BY <1>2 DEF SbxGrows, Ids
<1>4. SbxTyped'
  <2>1. sbxListed \in Seq(Ids')
    BY <1>1, <1>3, SeqMonotonic DEF SbxTyped
  <2>2. sbxSteady' \subseteq Ids'
    BY <1>1, <1>3 DEF SbxTyped
  <2>3. QED BY <1>1, <2>1, <2>2 DEF SbxTyped, SbxGrows
<1>5. \A x \in 1..Len(sbxListed) : sbxListed[x] \in Ids
  BY <1>1, SbxShapes
<1>6. ListedOnce'
  <2>1. sbxPc' # "listing" => sbxListed' = <<>> /\ sbxSteady' = {}
    BY <1>1 DEF ListedOnce, SbxTyped
  <2>2. \A x \in 1..Len(sbxListed') : sbxBefore' <= sbxAll'[sbxListed'[x]].created_at
    BY <1>1, <1>5 DEF ListedOnce, SbxGrows
  <2>3. ASSUME NEW k \in sbxSteady' PROVE Listable(k)' /\ (ToCome(k)' \/ HasTie(k)')
    <3>1. k \in sbxSteady /\ k \in Ids
      BY <1>1 DEF SbxTyped
    <3>2. sbxAll'[k].created_at = sbxAll[k].created_at
      BY <3>1 DEF SbxGrows
    <3>3. ToCome(k) => ToCome(k)'
      BY <3>2 DEF ToCome
    <3>4. HasTie(k) => HasTie(k)'
      BY <1>5, <3>2 DEF HasTie, SbxGrows
    <3>5. QED BY <1>1, <3>1, <3>3, <3>4 DEF ListedOnce
  <2>4. QED BY <1>1, <2>1, <2>2, <2>3 DEF ListedOnce
<1>7. QED BY <1>4, <1>6 DEF SbxInv, SbxGrows
-----------------------------------------------------------------------------
(* A page has as many sandboxes as it can, the latest of those that are    *)
(* still to come: each of them once, and none of them before the last.     *)
LEMMA PageProperties ==
    ASSUME SbxInv, OnPages # {}
    PROVE  /\ Page \in Seq(Ids) /\ Len(Page) \in Nat /\ 1 <= Len(Page)
           /\ \A x \in 1..Len(Page) : Page[x] \in OnPages
           /\ \A x, y \in 1..Len(Page) : x # y => Page[x] # Page[y]
           /\ \A x \in 1..Len(Page) : Page[Len(Page)] <= Page[x]
           /\ \A k \in OnPages : (\E x \in 1..Len(Page) : Page[x] = k) \/ k <= Page[Len(Page)]
<1>1. SbxTyped
  BY DEF SbxInv
<1>2. Len(sbxAll) \in Nat /\ OnPages \in SUBSET (1..Len(sbxAll)) /\ Ids = 1..Len(sbxAll)
  BY <1>1, SbxShapes DEF OnPages, Ids
<1> DEFINE n == Cardinality(OnPages)
           m == IF n < PageSize THEN n ELSE PageSize
<1>3. PageSize \in Nat /\ PageSize # 0
  BY <1>1, SbxShapes
<1>4. /\ IsFiniteSet(OnPages) /\ n \in Nat
      /\ \A k \in OnPages : Rank(OnPages, k) \in 1..n
      /\ \A j, k \in OnPages : j < k => Rank(OnPages, k) < Rank(OnPages, j)
      /\ \A x \in 1..n : \E k \in OnPages : Rank(OnPages, k) = x
  BY <1>2, Ranks
<1>5. n # 0
  BY <1>4, FS_EmptySet
<1>6. m \in Nat /\ 1 <= m /\ m <= n
  BY <1>3, <1>4, <1>5
<1>7. Page = [x \in 1..m |-> CHOOSE k \in OnPages : Rank(OnPages, k) = x]
  BY DEF Page, Rank
<1> HIDE DEF m, n
<1>8. \A x \in 1..m : Page[x] \in OnPages /\ Rank(OnPages, Page[x]) = x
  <2> SUFFICES ASSUME NEW x \in 1..m PROVE Page[x] \in OnPages /\ Rank(OnPages, Page[x]) = x
    OBVIOUS
  <2>1. x \in 1..n
    BY <1>4, <1>6
  <2>2. \E k \in OnPages : Rank(OnPages, k) = x
    BY <1>4, <2>1
  <2>3. Page[x] = CHOOSE k \in OnPages : Rank(OnPages, k) = x
    BY <1>7
  <2>4. QED BY <2>2, <2>3
<1>9. Page \in [1..m -> Ids]
  <2>1. \A x \in 1..m : Page[x] \in Ids
    BY <1>2, <1>8
  <2>2. QED BY <1>7, <2>1
<1>10. Page \in Seq(Ids) /\ Len(Page) = m
  BY <1>6, <1>9, TupleOf
<1>11. \A k \in OnPages : k \in Int
  BY <1>2
<1>12. \A x \in 1..m : Page[m] <= Page[x]
  <2> SUFFICES ASSUME NEW x \in 1..m, ~(Page[m] <= Page[x]) PROVE FALSE
    OBVIOUS
  <2>1. m \in 1..m
    BY <1>6
  <2>2. Page[x] < Page[m]
    BY <1>8, <1>11, <2>1
  <2>3. m < x
    BY <1>4, <1>8, <2>1, <2>2
  <2>4. QED BY <1>6, <2>3
<1>13. ASSUME NEW k \in OnPages PROVE (\E x \in 1..m : Page[x] = k) \/ k <= Page[m]
  <2> DEFINE r == Rank(OnPages, k)
  <2>1. r \in Nat /\ 1 <= r
    BY <1>4
  <2> HIDE DEF r
  <2>2. CASE r <= m
    <3>1. r \in 1..m
      BY <1>6, <2>1, <2>2
    <3>2. Page[r] \in OnPages /\ Rank(OnPages, Page[r]) = Rank(OnPages, k)
      BY <1>8, <3>1 DEF r
    <3>3. Rank(OnPages, k) \in Int
      BY <1>4
    <3>4. ~(Page[r] < k) /\ ~(k < Page[r])
      BY <1>4, <3>2, <3>3
    <3>5. Page[r] = k
      BY <1>11, <3>2, <3>4
    <3>6. QED BY <3>1, <3>5
  <2>3. CASE m < r
    <3>1. m \in 1..m /\ Page[m] \in OnPages /\ Rank(OnPages, Page[m]) = m
      BY <1>6, <1>8
    <3>2. ~(Page[m] < k)
      <4> SUFFICES ASSUME Page[m] < k PROVE FALSE
        OBVIOUS
      <4>1. r < m
        BY <1>4, <3>1 DEF r
      <4>2. QED BY <1>6, <2>1, <2>3, <4>1
    <3>3. QED BY <1>11, <3>1, <3>2
  <2>4. QED BY <1>6, <2>1, <2>2, <2>3
<1>14. QED BY <1>6, <1>8, <1>10, <1>12, <1>13

(* list takes in a page.                                                   *)
LEMMA NextPageStep == ASSUME SbxInv, SbxNextPage PROVE SbxInv'
<1>1. SbxTyped /\ InOrder /\ ListedOnce
  BY DEF SbxInv
<1>2. /\ sbxPc = "listing" /\ OnPages # {} /\ sbxListed' = sbxListed \o Page
      /\ sbxBefore' = LastStamp /\ sbxReport' = NoReport
      /\ UNCHANGED <<sbxAll, sbxPc, sbxHandle, sbxAttempt, sbxSteady>>
  BY DEF SbxNextPage
<1> DEFINE n == Len(sbxListed)
           m == Len(Page)
<1>3. /\ Page \in Seq(Ids) /\ m \in Nat /\ 1 <= m
      /\ \A x \in 1..m : Page[x] \in OnPages
      /\ \A x, y \in 1..m : x # y => Page[x] # Page[y]
      /\ \A x \in 1..m : Page[m] <= Page[x]
      /\ \A k \in OnPages : (\E x \in 1..m : Page[x] = k) \/ k <= Page[m]
  BY <1>2, PageProperties
<1>4. /\ n \in Nat /\ sbxListed \in Seq(Ids)
      /\ \A x \in 1..n : sbxListed[x] \in Ids
      /\ \A k \in Ids : sbxAll[k].created_at \in 1..MaxStamp
      /\ MaxStamp \in Nat /\ sbxBefore \in 0..MaxStamp
      /\ Ids \subseteq Int
  BY <1>1, SbxShapes DEF SbxTyped
<1> DEFINE At(k) == sbxAll[k].created_at
<1>at. \A k \in Ids : At(k) \in Int
  <2>1. \A t \in 1..MaxStamp : t \in Int
    BY <1>4
  <2>2. \A k \in Ids : At(k) \in 1..MaxStamp
    BY <1>4
  <2> HIDE DEF At
  <2>3. QED BY <2>1, <2>2
<1>5. /\ sbxListed' \in Seq(Ids) /\ Len(sbxListed') = n + m
      /\ \A x \in 1..(n + m) : sbxListed'[x] = IF x <= n THEN sbxListed[x] ELSE Page[x - n]
  <2>1. sbxListed \in Seq(Ids) /\ Page \in Seq(Ids)
    BY <1>3, <1>4
  <2>2. QED BY <1>2, <2>1, ConcatProperties
<1> DEFINE last == Page[m]
<1>6. LastStamp = sbxAll[last].created_at
  BY DEF LastStamp
<1> HIDE DEF n, m
<1>7. \A k \in OnPages : k \in Ids /\ Listable(k) /\ ToCome(k)
  BY <1>1, SbxShapes DEF OnPages, ToCome
<1>8. last \in OnPages /\ last \in Ids
  BY <1>3, <1>7
<1> HIDE DEF last
<1>9. LastStamp \in 1..MaxStamp
  BY <1>4, <1>6, <1>8
<1>10. \A x \in 1..m : LastStamp <= sbxAll[Page[x]].created_at
  BY <1>1, <1>3, <1>6, <1>7, <1>8 DEF InOrder, last
<1>11. \A x \in 1..n : LastStamp < sbxAll[sbxListed[x]].created_at
  <2> SUFFICES ASSUME NEW x \in 1..n PROVE LastStamp < sbxAll[sbxListed[x]].created_at
    OBVIOUS
  <2>1. sbxBefore <= sbxAll[sbxListed[x]].created_at
    BY <1>1 DEF ListedOnce, n
  <2>2. sbxBefore # 0
    BY <1>1, EmptySeq DEF ListedOnce, n
  <2>3. LastStamp < sbxBefore
    BY <1>4, <1>6, <1>7, <1>8, <2>2 DEF ToCome
  <2>4. sbxAll[sbxListed[x]].created_at \in Int
    BY <1>4, <1>at
  <2>5. QED BY <1>4, <1>9, <2>1, <2>3, <2>4
<1>12. \A x \in 1..(n + m) : x \in 1..n \/ (x - n \in 1..m /\ ~(x <= n))
  BY <1>3, <1>4
<1>13. \A x \in 1..(n + m) : LastStamp <= sbxAll[sbxListed'[x]].created_at
  <2> SUFFICES ASSUME NEW x \in 1..(n + m) PROVE LastStamp <= sbxAll[sbxListed'[x]].created_at
    OBVIOUS
  <2>1. CASE x \in 1..n
    <3>1. sbxListed'[x] = sbxListed[x]
      BY <1>4, <1>5, <2>1
    <3>2. sbxAll[sbxListed[x]].created_at \in Int
      BY <1>4, <1>at, <2>1
    <3>3. QED BY <1>9, <1>11, <2>1, <3>1, <3>2
  <2>2. CASE x - n \in 1..m /\ ~(x <= n)
    BY <1>5, <1>10, <2>2
  <2>3. QED BY <1>12, <2>1, <2>2
<1>14. \A x, y \in 1..(n + m) : x # y => sbxListed'[x] # sbxListed'[y]
  <2>1. \A x, y \in 1..n : x # y => sbxListed[x] # sbxListed[y]
    BY <1>1 DEF ListedOnce, n
  <2>2. \A x \in 1..n, y \in 1..m : sbxListed[x] # Page[y]
    <3> SUFFICES ASSUME NEW x \in 1..n, NEW y \in 1..m, sbxListed[x] = Page[y] PROVE FALSE
      OBVIOUS
    <3>1. sbxBefore <= sbxAll[Page[y]].created_at /\ sbxBefore # 0
      BY <1>1, EmptySeq DEF ListedOnce, n
    <3>2. Page[y] \in Ids /\ ToCome(Page[y])
      BY <1>3, <1>7
    <3>3. sbxAll[Page[y]].created_at \in Int
      BY <1>at, <3>2
    <3>4. QED BY <1>4, <3>1, <3>2, <3>3 DEF ToCome
  <2>3. \A x, y \in 1..m : x # y => Page[x] # Page[y]
    BY <1>3
  <2> SUFFICES ASSUME NEW x \in 1..(n + m), NEW y \in 1..(n + m), x # y
               PROVE  sbxListed'[x] # sbxListed'[y]
    OBVIOUS
  <2>4. x \in Int /\ y \in Int /\ (x - n # y - n)
    BY <1>4
  <2>5. (x <= n => x \in 1..n) /\ (y <= n => y \in 1..n)
        /\ (~(x <= n) => x - n \in 1..m) /\ (~(y <= n) => y - n \in 1..m)
    BY <1>12
  <2>6. QED BY <1>5, <2>1, <2>2, <2>3, <2>4, <2>5
<1>15. ASSUME NEW k \in sbxSteady PROVE ToCome(k)' \/ HasTie(k)'
  <2>1. k \in Ids /\ Listable(k) /\ (ToCome(k) \/ HasTie(k))
    BY <1>1 DEF ListedOnce, SbxTyped
  <2>2. CASE HasTie(k)
    <3>1. PICK x \in 1..n : sbxAll[sbxListed[x]].created_at = sbxAll[k].created_at
      BY <2>2 DEF HasTie, n
    <3>2. x \in 1..(n + m) /\ sbxListed'[x] = sbxListed[x]
      BY <1>3, <1>4, <1>5
    <3>3. sbxAll'[sbxListed'[x]].created_at = sbxAll'[k].created_at /\ x \in 1..Len(sbxListed')
      BY <1>2, <1>5, <3>1, <3>2
    <3>4. QED BY <3>3 DEF HasTie
  <2>3. CASE ToCome(k)
    <3>1. k \in OnPages
      BY <1>1, <2>1, <2>3, SbxShapes DEF OnPages, ToCome
    <3>2. \A x \in 1..m : x + n \in 1..(n + m) /\ sbxListed'[x + n] = Page[x]
      BY <1>3, <1>4, <1>5
    <3>3. \A x \in 1..m : sbxAll[Page[x]].created_at = sbxAll[k].created_at => HasTie(k)'
      <4> SUFFICES ASSUME NEW x \in 1..m, sbxAll[Page[x]].created_at = sbxAll[k].created_at
                   PROVE  HasTie(k)'
        OBVIOUS
      <4>1. x + n \in 1..Len(sbxListed')
            /\ sbxAll'[sbxListed'[x + n]].created_at = sbxAll'[k].created_at
        BY <1>2, <1>5, <3>2
      <4>2. QED BY <4>1 DEF HasTie
    <3>4. CASE \E x \in 1..m : Page[x] = k
      BY <3>3, <3>4
    <3>5. CASE k <= last
      <4>1. sbxAll[k].created_at <= LastStamp
        BY <1>1, <1>6, <1>8, <2>1, <3>5 DEF InOrder
      <4>2. CASE sbxAll[k].created_at = LastStamp
        BY <1>3, <1>6, <3>3, <4>2 DEF last
      <4>3. CASE sbxAll[k].created_at < LastStamp
        BY <1>2, <4>3 DEF ToCome
      <4>4. sbxAll[k].created_at \in Int
        BY <1>at, <2>1
      <4>5. QED BY <1>9, <4>1, <4>2, <4>3, <4>4
    <3>6. QED BY <1>3, <3>1, <3>4, <3>5 DEF last
  <2>4. QED BY <2>1, <2>2, <2>3
<1>16. SbxTyped'
  <2>1. Ids' = Ids /\ Handle' = Handle
    BY <1>2 DEF Ids, Handle
  <2>2. LastStamp \in 0..MaxStamp
    BY <1>4, <1>9
  <2>3. QED BY <1>1, <1>2, <1>5, <2>1, <2>2 DEF SbxTyped
<1>17. InOrder'
  BY <1>1, <1>2 DEF InOrder, Ids
<1>18. ListedOnce'
  <2>1. \A k \in sbxSteady' : Listable(k)' /\ (ToCome(k)' \/ HasTie(k)')
    BY <1>1, <1>2, <1>15 DEF ListedOnce, Listable, SbxFinished
  <2>2. sbxPc' = "listing" /\ sbxBefore' # 0
    BY <1>2, <1>4, <1>9
  <2>3. QED BY <1>2, <1>5, <1>13, <1>14, <2>1, <2>2 DEF ListedOnce
<1>19. ReportsAreTrue'
  BY <1>2 DEF ReportsAreTrue, NoReport
<1>20. QED BY <1>16, <1>17, <1>18, <1>19 DEF SbxInv

LEMMA StartListStep == ASSUME SbxInv, SbxStartList PROVE SbxInv'
<1>1. SbxTyped /\ InOrder
  BY DEF SbxInv
<1>2. /\ sbxPc' = "listing" /\ sbxListed' = <<>> /\ sbxBefore' = 0
      /\ sbxSteady' = {k \in DOMAIN sbxAll : Listable(k)} /\ sbxReport' = NoReport
      /\ UNCHANGED <<sbxAll, sbxHandle, sbxAttempt>>
  BY DEF SbxStartList
<1>3. Ids' = Ids /\ Handle' = Handle /\ DOMAIN sbxAll = Ids /\ MaxStamp \in Nat
  BY <1>1, <1>2, SbxShapes DEF Ids, Handle
<1>4. sbxListed' \in Seq(Ids) /\ Len(sbxListed') = 0 /\ sbxBefore' \in 0..MaxStamp
  BY <1>2, <1>3, EmptySeq
<1>5. SbxTyped'
  BY <1>1, <1>2, <1>3, <1>4 DEF SbxTyped
<1>6. ListedOnce'
  <2>1. \A k \in sbxSteady' : Listable(k)' /\ ToCome(k)'
    BY <1>2 DEF Listable, SbxFinished, ToCome
  <2>2. 1..Len(sbxListed') = {}
    BY <1>4
  <2>3. QED BY <1>2, <2>1, <2>2 DEF ListedOnce
<1>7. QED BY <1>1, <1>2, <1>3, <1>5, <1>6 DEF SbxInv, InOrder, ReportsAreTrue, NoReport

LEMMA ListEndsStep == ASSUME SbxInv, SbxListEnds PROVE SbxInv'
<1>1. SbxTyped /\ InOrder
  BY DEF SbxInv
<1>2. /\ sbxPc' = "idle" /\ sbxListed' = <<>> /\ sbxBefore' = 0 /\ sbxSteady' = {}
      /\ sbxReport'.call = "other"
      /\ UNCHANGED <<sbxAll, sbxHandle, sbxAttempt>>
  BY DEF SbxListEnds, SbxReturns
<1>3. Ids' = Ids /\ Handle' = Handle /\ MaxStamp \in Nat
  BY <1>1, <1>2, SbxShapes DEF Ids, Handle
<1>4. sbxListed' \in Seq(Ids) /\ Len(sbxListed') = 0 /\ sbxBefore' \in 0..MaxStamp
  BY <1>2, <1>3, EmptySeq
<1>5. SbxTyped'
  BY <1>1, <1>2, <1>3, <1>4 DEF SbxTyped
<1>6. ListedOnce'
  <2>1. 1..Len(sbxListed') = {}
    BY <1>4
  <2>2. QED BY <1>2, <2>1 DEF ListedOnce
<1>7. QED BY <1>1, <1>2, <1>3, <1>5, <1>6 DEF SbxInv, InOrder, ReportsAreTrue

(* A step that changes neither the server nor what list has.               *)
LEMMA SbxClientStep ==
    ASSUME SbxInv, UNCHANGED <<sbxAll, sbxPc, sbxAttempt, sbxListed, sbxBefore, sbxSteady>>,
           sbxHandle' \in Handle, sbxHandle'.task_id \in {NoId, sbxHandle'.sandbox_id},
           sbxPc = "scheduling" => sbxHandle'.sandbox_id # NoId,
           ReportsAreTrue'
    PROVE  SbxInv'
<1>1. SbxGrows /\ SbxTyped /\ ListedOnce
  BY SbxStays DEF SbxInv
<1>2. /\ sbxHandle' \in Handle' /\ (sbxPc' = "scheduling" => sbxHandle'.sandbox_id # NoId)
      /\ sbxPc' = sbxPc /\ UNCHANGED <<sbxListed, sbxBefore>> /\ sbxSteady' \subseteq sbxSteady
  BY DEF Handle, Ids
<1>3. \A k \in sbxSteady' : Listable(k)'
  BY <1>1 DEF ListedOnce, Listable, SbxFinished
<1>4. sbxAttempt' \in 0..(MaxAttempts - 1)
  BY <1>1 DEF SbxTyped
<1>5. QED BY <1>1, <1>2, <1>3, <1>4, SbxKept

(* A step that only asks about the sandbox the client holds.               *)
LEMMA SbxAskStep ==
    ASSUME SbxInv, NEW call, NEW k, NEW answer, SbxAsks(call, k, answer), UNCHANGED sbxHandle,
           ReportsAreTrue'
    PROVE  SbxInv'
<1>1. SbxTyped /\ UNCHANGED <<sbxAll, sbxPc, sbxAttempt, sbxListed, sbxBefore, sbxSteady>>
  BY DEF SbxInv, SbxAsks, SbxAnswers
<1>2. QED BY <1>1, SbxClientStep DEF SbxTyped

LEMMA OtherReport == ASSUME NEW k, NEW answer, SbxReturns("other", k, answer) PROVE ReportsAreTrue'
BY DEF SbxReturns, ReportsAreTrue

LEMMA SbxTellsStep == ASSUME SbxInv, NEW success, SbxTells(success) PROVE SbxInv'
<1>1. PICK answer : SbxAsks("other", NoId, answer) /\ UNCHANGED sbxHandle
  BY DEF SbxTells
<1>2. ReportsAreTrue'
  BY <1>1, OtherReport DEF SbxAsks, SbxAnswers
<1>3. QED BY <1>1, <1>2, SbxAskStep

(* The server changes the state of one sandbox, and the client at most     *)
(* hears of it.                                                            *)
LEMMA SbxServerStep ==
    ASSUME SbxInv, NEW k \in Ids, NEW e \in SandboxState, e.created_at = sbxAll[k].created_at,
           sbxAll' = [sbxAll EXCEPT ![k] = e],
           UNCHANGED <<sbxPc, sbxHandle, sbxAttempt, sbxListed, sbxBefore>>,
           sbxSteady' \subseteq sbxSteady, \A j \in sbxSteady' : Listable(j)',
           ReportsAreTrue'
    PROVE  SbxInv'
<1>1. SbxTyped /\ SbxGrows /\ Ids' = Ids
  BY SbxStateChanges DEF SbxInv
<1>2. /\ sbxHandle' \in Handle' /\ (sbxPc' = "scheduling" => sbxHandle'.sandbox_id # NoId)
      /\ sbxHandle'.task_id \in {NoId, sbxHandle'.sandbox_id} /\ sbxAttempt' \in 0..(MaxAttempts - 1)
      /\ sbxPc' = sbxPc /\ UNCHANGED <<sbxListed, sbxBefore>>
  BY <1>1 DEF Handle, SbxTyped
<1>3. QED BY <1>1, <1>2, SbxKept

(* What is changed of a sandbox leaves it one, of the same timestamp.      *)
LEMMA EntryChanges ==
    ASSUME SbxTyped, NEW k \in Ids, NEW tagged \in BOOLEAN, NEW result \in GenericResultStatus
    PROVE  /\ [sbxAll[k] EXCEPT !.tagged = tagged] \in SandboxState
           /\ [sbxAll[k] EXCEPT !.tagged = tagged].created_at = sbxAll[k].created_at
           /\ [sbxAll[k] EXCEPT !.scheduled = TRUE] \in SandboxState
           /\ [sbxAll[k] EXCEPT !.scheduled = TRUE].created_at = sbxAll[k].created_at
           /\ [sbxAll[k] EXCEPT !.result = result] \in SandboxState
           /\ [sbxAll[k] EXCEPT !.result = result].created_at = sbxAll[k].created_at
           /\ sbxAll[k].tagged \in BOOLEAN
<1>1. sbxAll[k] \in SandboxState
  BY SbxShapes
<1>2. QED BY <1>1 DEF SandboxState

(* create: the sandbox it made is the last one.                            *)
LEMMA CreateStep == ASSUME SbxInv, SbxCreate PROVE SbxInv'
<1>1. SbxTyped /\ ListedOnce /\ sbxPc = "idle" /\ UNCHANGED <<sbxListed, sbxBefore, sbxSteady>>
  BY DEF SbxInv, SbxCreate
<1>2. PICK n \in 0..2 :
         /\ IF n = 0 THEN UNCHANGED sbxAll ELSE SbxAdd(n)
         /\ \/ /\ n > 0
               /\ sbxPc' = "scheduling" /\ sbxAttempt' = 0
               /\ sbxHandle' = [sandbox_id |-> Len(sbxAll'), task_id |-> NoId]
               /\ sbxReport' = NoReport
            \/ /\ SbxReturns("other", NoId, "error")
               /\ UNCHANGED <<sbxPc, sbxAttempt, sbxHandle>>
  BY DEF SbxCreate
<1>3. SbxGrows /\ (n > 0 => Len(sbxAll') = Len(sbxAll) + n)
  <2>1. CASE n = 0
    BY <1>2, <2>1, SbxStays
  <2>2. CASE n \in {1, 2}
    BY <1>2, <2>2, SbxAdded
  <2>3. QED BY <2>1, <2>2
<1>4. Len(sbxAll) \in Nat /\ Len(sbxAll') \in Nat
  BY <1>1, <1>3, SbxShapes, LenProperties DEF SbxGrows
<1>5. Ids \subseteq Ids' /\ (n > 0 => Len(sbxAll') \in Ids' /\ Len(sbxAll') # NoId)
  BY <1>3, <1>4 DEF SbxGrows, Ids, NoId
<1>6. ReportsAreTrue'
  BY <1>2, OtherReport DEF ReportsAreTrue, NoReport
<1>7. sbxSteady' \subseteq sbxSteady /\ \A k \in sbxSteady' : Listable(k)'
  BY <1>1 DEF ListedOnce
<1>8. MaxAttempts \in Nat /\ MaxAttempts # 0
  BY <1>1, SbxShapes
<1>9. /\ sbxPc' = sbxPc \/ (sbxPc # "listing" /\ sbxPc' \in {"idle", "scheduling"})
      /\ sbxHandle' \in Handle' /\ sbxHandle'.task_id \in {NoId, sbxHandle'.sandbox_id}
      /\ sbxPc' = "scheduling" => sbxHandle'.sandbox_id # NoId
      /\ sbxAttempt' \in 0..(MaxAttempts - 1)
  <2>1. CASE /\ n > 0 /\ sbxPc' = "scheduling" /\ sbxAttempt' = 0
             /\ sbxHandle' = [sandbox_id |-> Len(sbxAll'), task_id |-> NoId]
    <3>1. sbxHandle' \in Handle' /\ sbxHandle'.sandbox_id # NoId /\ sbxHandle'.task_id = NoId
      BY <1>5, <2>1 DEF Handle
    <3>2. 0 \in 0..(MaxAttempts - 1)
      BY <1>8
    <3>3. QED BY <1>1, <2>1, <3>1, <3>2
  <2>2. CASE UNCHANGED <<sbxPc, sbxAttempt, sbxHandle>>
    <3>1. sbxHandle' \in Handle'
      BY <1>1, <1>5, <2>2 DEF SbxTyped, Handle
    <3>2. QED BY <1>1, <2>2, <3>1 DEF SbxTyped
  <2>3. QED BY <1>2, <2>1, <2>2
<1>10. UNCHANGED <<sbxListed, sbxBefore>>
  BY <1>1
<1>11. QED BY <1>3, <1>6, <1>7, <1>9, <1>10, SbxKept

(* The polling of create: what it says of the sandbox is true.             *)
LEMMA PollTaskStep == ASSUME SbxInv, SbxPollTask PROVE SbxInv'
<1>1. SbxTyped /\ sbxPc = "scheduling" /\ UNCHANGED <<sbxAll, sbxListed, sbxBefore, sbxSteady>>
  BY DEF SbxInv, SbxPollTask
<1> DEFINE id == sbxHandle.sandbox_id
<1>2. id \in Ids /\ id # NoId /\ sbxHandle \in Handle /\ Ids' = Ids /\ Handle' = Handle
      /\ sbxHandle.task_id \in {NoId, id}
  BY <1>1 DEF SbxTyped, Handle, Ids
<1>3. SbxGrows
  BY <1>1, SbxStays
<1>4. /\ TaskAnswer(id).task_id = TaskOf(id) /\ TaskAnswer(id).exited = SbxFinished(id)
      /\ TaskOf(id) \in {NoId, id} /\ (TaskOf(id) # NoId <=> sbxAll[id].scheduled)
  BY <1>2 DEF TaskAnswer, TaskOf
<1>5. \/ /\ TaskOf(id) # NoId /\ sbxHandle' = [sbxHandle EXCEPT !.task_id = TaskOf(id)]
         /\ SbxCreateEnds("ok")
      \/ /\ TaskOf(id) = NoId /\ SbxFinished(id) /\ SbxCreateEnds("terminated")
         /\ sbxHandle' = NoSandbox
      \/ /\ \E answer \in {"no task", "error"} : SbxCreateEnds(answer)
         /\ sbxHandle' = NoSandbox
      \/ /\ AttemptAfter # MaxAttempts /\ sbxAttempt' = AttemptAfter /\ sbxReport' = NoReport
         /\ UNCHANGED <<sbxPc, sbxHandle>>
  BY <1>4 DEF SbxPollTask, SbxCreateFails
<1> HIDE DEF id
<1>6. /\ sbxHandle' \in Handle' /\ sbxHandle'.task_id \in {NoId, sbxHandle'.sandbox_id}
      /\ sbxPc' = "scheduling" => sbxHandle'.sandbox_id # NoId
  <2>1. CASE UNCHANGED sbxHandle
    BY <1>2, <2>1 DEF id
  <2>2. CASE sbxHandle' = [sbxHandle EXCEPT !.task_id = TaskOf(id)]
    BY <1>2, <1>4, <2>2 DEF Handle, id
  <2>3. CASE sbxHandle' = NoSandbox /\ sbxPc' = "idle"
    BY <1>2, <2>3 DEF Handle, NoSandbox
  <2>4. QED BY <1>5, <2>1, <2>2, <2>3 DEF SbxCreateEnds
<1>7. MaxAttempts \in Nat /\ MaxAttempts # 0 /\ sbxAttempt \in 0..(MaxAttempts - 1)
  BY <1>1, SbxShapes DEF SbxTyped
<1>8. sbxPc' \in {"idle", "scheduling"} /\ sbxAttempt' \in 0..(MaxAttempts - 1)
  <2>1. CASE sbxPc' = "idle" /\ sbxAttempt' = 0
    BY <1>7, <2>1
  <2>2. CASE AttemptAfter # MaxAttempts /\ sbxAttempt' = AttemptAfter /\ UNCHANGED sbxPc
    BY <1>1, <1>7, <2>2 DEF AttemptAfter
  <2>3. QED BY <1>5, <2>1, <2>2 DEF SbxCreateEnds
<1>9. ReportsAreTrue'
  <2>1. CASE SbxCreateEnds("ok") /\ sbxAll[id].scheduled
    BY <1>1, <2>1 DEF SbxCreateEnds, SbxReturns, ReportsAreTrue, id
  <2>2. CASE SbxCreateEnds("terminated") /\ ~sbxAll[id].scheduled /\ SbxFinished(id)
    BY <1>1, <2>2 DEF SbxCreateEnds, SbxReturns, ReportsAreTrue, SbxFinished, id
  <2>3. ASSUME NEW answer \in {"no task", "error"}, SbxCreateEnds(answer) PROVE ReportsAreTrue'
    BY <2>3 DEF SbxCreateEnds, SbxReturns, ReportsAreTrue
  <2>4. CASE sbxReport' = NoReport
    BY <2>4 DEF NoReport, ReportsAreTrue
  <2>5. QED BY <1>4, <1>5, <2>1, <2>2, <2>3, <2>4
<1>10. sbxSteady' \subseteq sbxSteady /\ \A k \in sbxSteady' : Listable(k)'
  BY <1>1 DEF SbxInv, ListedOnce, Listable, SbxFinished
<1>11. QED BY <1>1, <1>2, <1>3, <1>6, <1>8, <1>9, <1>10, SbxKept

(* terminate and set_tags, and what others do to a sandbox.                *)
LEMMA TerminateStep == ASSUME SbxInv, SbxTerminate PROVE SbxInv'
<1> DEFINE k == sbxHandle.sandbox_id
<1>1. /\ SbxTyped /\ k \in Ids /\ UNCHANGED <<sbxPc, sbxHandle, sbxAttempt, sbxListed, sbxBefore>>
      /\ sbxSteady' = {j \in sbxSteady : Listable(j)'} /\ ReportsAreTrue'
  BY OtherReport DEF SbxInv, SbxTerminate, SbxTyped, Handle, SbxAnswers, SbxChanged
<1>2. sbxAll' = sbxAll \/ sbxAll' = [sbxAll EXCEPT ![k].result = "Terminated"]
  BY DEF SbxTerminate
<1>3. CASE sbxAll' = sbxAll
  <2>1. SbxGrows /\ Handle' = Handle
    BY <1>3, SbxStays DEF Handle, Ids
  <2>2. /\ sbxHandle' \in Handle' /\ sbxHandle'.task_id \in {NoId, sbxHandle'.sandbox_id}
        /\ sbxPc' = sbxPc /\ (sbxPc' = "scheduling" => sbxHandle'.sandbox_id # NoId)
        /\ sbxAttempt' \in 0..(MaxAttempts - 1) /\ UNCHANGED <<sbxListed, sbxBefore>>
    BY <1>1, <2>1 DEF SbxTyped
  <2>3. sbxSteady' \subseteq sbxSteady /\ \A j \in sbxSteady' : Listable(j)'
    BY <1>1
  <2>4. QED BY <1>1, <2>1, <2>2, <2>3, SbxKept
<1>4. CASE sbxAll' = [sbxAll EXCEPT ![k].result = "Terminated"]
  <2> DEFINE e == [sbxAll[k] EXCEPT !.result = "Terminated"]
  <2>1. e \in SandboxState /\ e.created_at = sbxAll[k].created_at
    BY <1>1, EntryChanges DEF GenericResultStatus
  <2>2. sbxAll' = [sbxAll EXCEPT ![k] = e]
    BY <1>4
  <2>3. sbxSteady' \subseteq sbxSteady /\ \A j \in sbxSteady' : Listable(j)'
    BY <1>1
  <2> HIDE DEF e, k
  <2>4. QED BY <1>1, <2>1, <2>2, <2>3, SbxServerStep
<1>5. QED BY <1>2, <1>3, <1>4

LEMMA RetaggedStep ==
    ASSUME SbxInv, NEW k \in Retagged, k \in Ids, NEW tagged \in BOOLEAN,
           sbxAll' = [sbxAll EXCEPT ![k].tagged = tagged], SbxChanged,
           UNCHANGED <<sbxPc, sbxHandle, sbxAttempt, sbxListed, sbxBefore>>, ReportsAreTrue'
    PROVE  SbxInv'
<1> DEFINE e == [sbxAll[k] EXCEPT !.tagged = tagged]
<1>1. e \in SandboxState /\ e.created_at = sbxAll[k].created_at
  BY EntryChanges DEF GenericResultStatus, SbxInv
<1>2. sbxAll' = [sbxAll EXCEPT ![k] = e]
  OBVIOUS
<1>3. sbxSteady' \subseteq sbxSteady /\ \A j \in sbxSteady' : Listable(j)'
  BY DEF SbxChanged
<1> HIDE DEF e
<1>4. QED BY <1>1, <1>2, <1>3, SbxServerStep

LEMMA TagsStep == ASSUME SbxInv, SbxTags PROVE SbxInv'
<1>1. CASE \E reply \in TagsReplies : SbxTells(reply = "ok")
  BY <1>1, SbxTellsStep
<1>2. CASE /\ sbxHandle.sandbox_id \in Retagged
           /\ \E tagged \in BOOLEAN : sbxAll' = [sbxAll EXCEPT ![sbxHandle.sandbox_id].tagged = tagged]
           /\ SbxChanged
           /\ \E reply \in TagsReplies : SbxAnswers("other", NoId, reply)
           /\ UNCHANGED sbxHandle
  <2> DEFINE k == sbxHandle.sandbox_id
  <2>1. SbxTyped /\ k \in Retagged /\ MaxSandboxes \in Nat
    BY <1>2, SandboxAssumption DEF SbxInv
  <2>2. k \in Ids
    BY <2>1, SandboxAssumption DEF SbxTyped, Handle, NoId
  <2>3. PICK tagged \in BOOLEAN : sbxAll' = [sbxAll EXCEPT ![k].tagged = tagged]
    BY <1>2
  <2>4. UNCHANGED <<sbxPc, sbxHandle, sbxAttempt, sbxListed, sbxBefore>> /\ ReportsAreTrue' /\ SbxChanged
    BY <1>2, OtherReport DEF SbxAnswers
  <2> HIDE DEF k
  <2>5. QED BY <2>1, <2>2, <2>3, <2>4, RetaggedStep
<1>3. QED BY <1>1, <1>2 DEF SbxTags

(* A sandbox is found: it is one of those the server knows.                *)
LEMMA FindStep == ASSUME SbxInv, NEW k \in SandboxIds, SbxFind(k) PROVE SbxInv'
<1>1. PICK answer : SbxAsks("other", NoId, answer)
  BY DEF SbxFind
<1>2. /\ SbxTyped /\ UNCHANGED <<sbxAll, sbxPc, sbxAttempt, sbxListed, sbxBefore, sbxSteady>>
      /\ sbxPc = "idle" /\ ReportsAreTrue'
  BY <1>1, OtherReport DEF SbxInv, SbxAsks, SbxAnswers
<1>3. CASE SbxKnown(k) /\ sbxHandle' = [sandbox_id |-> k, task_id |-> NoId]
  <2>1. k \in Ids
    BY <1>2, <1>3, SbxShapes DEF SbxKnown
  <2>2. sbxHandle' \in Handle /\ sbxHandle'.task_id = NoId
    BY <1>3, <2>1 DEF Handle
  <2>3. QED BY <1>2, <2>2, SbxClientStep
<1>4. CASE UNCHANGED sbxHandle
  BY <1>2, <1>4, SbxClientStep DEF SbxTyped
<1>5. QED BY <1>3, <1>4 DEF SbxFind

LEMMA GetTaskIdStep == ASSUME SbxInv, SbxGetTaskId PROVE SbxInv'
BY SbxTellsStep DEF SbxGetTaskId

(* wait and poll: they report success, or an exit code, only of a sandbox  *)
(* that has finished.                                                      *)
LEMMA WaitStep == ASSUME SbxInv, SbxWait PROVE SbxInv'
<1> DEFINE k == sbxHandle.sandbox_id
           answer == [exit_code |-> WaitReply(k).exitcode, success |-> WaitReply(k).result = "Success"]
<1>1. CASE SbxTells(FALSE)
  BY <1>1, SbxTellsStep
<1>2. CASE SbxAsks("wait", k, answer) /\ UNCHANGED sbxHandle
  <2>1. answer.success => SbxFinished(k)
    BY DEF WaitReply, SbxFinished
  <2> HIDE DEF k, answer
  <2>2. sbxReport' = [call |-> "wait", id |-> k, answer |-> answer] /\ UNCHANGED sbxAll
    BY <1>2 DEF SbxAsks, SbxAnswers, SbxReturns
  <2>3. ReportsAreTrue'
    BY <2>1, <2>2 DEF ReportsAreTrue, SbxFinished
  <2>4. QED BY <1>2, <2>3, SbxAskStep
<1>3. QED BY <1>1, <1>2 DEF SbxWait, SbxAsksOf

LEMMA PollStep == ASSUME SbxInv, SbxPoll PROVE SbxInv'
<1> DEFINE k == sbxHandle.sandbox_id
           answer == PollResult(WaitReply(k))
<1>1. CASE SbxTells(FALSE)
  BY <1>1, SbxTellsStep
<1>2. CASE SbxAsks("poll", k, answer) /\ UNCHANGED sbxHandle
  <2>1. answer # {} => SbxFinished(k)
    BY DEF PollResult, WaitReply, SbxFinished
  <2> HIDE DEF k, answer
  <2>2. sbxReport' = [call |-> "poll", id |-> k, answer |-> answer] /\ UNCHANGED sbxAll
    BY <1>2 DEF SbxAsks, SbxAnswers, SbxReturns
  <2>3. ReportsAreTrue'
    BY <2>1, <2>2 DEF ReportsAreTrue, SbxFinished
  <2>4. QED BY <1>2, <2>3, SbxAskStep
<1>3. QED BY <1>1, <1>2 DEF SbxPoll, SbxAsksOf

(* What the server and other clients do.                                   *)
LEMMA AppearsStep == ASSUME SbxInv, SbxAppears PROVE SbxInv'
<1>1. /\ SbxTyped /\ ListedOnce /\ SbxGrows /\ \A k \in Ids : sbxAll'[k] = sbxAll[k]
      /\ UNCHANGED <<sbxPc, sbxHandle, sbxAttempt, sbxListed, sbxBefore, sbxSteady>>
      /\ ReportsAreTrue'
  BY SbxAdded DEF SbxInv, SbxAppears, sbxClient, ReportsAreTrue, NoReport
<1>2. Len(sbxAll) \in Nat /\ Len(sbxAll') \in Nat
  BY <1>1, SbxShapes, LenProperties DEF SbxGrows
<1>3. Ids \subseteq Ids'
  BY <1>1, <1>2 DEF SbxGrows, Ids
<1>4. /\ sbxHandle' \in Handle' /\ sbxHandle'.task_id \in {NoId, sbxHandle'.sandbox_id}
      /\ sbxPc' = sbxPc /\ (sbxPc' = "scheduling" => sbxHandle'.sandbox_id # NoId)
      /\ sbxAttempt' \in 0..(MaxAttempts - 1) /\ UNCHANGED <<sbxListed, sbxBefore>>
  BY <1>1, <1>3 DEF SbxTyped, Handle
<1>5. sbxSteady' \subseteq sbxSteady /\ \A k \in sbxSteady' : Listable(k)'
  BY <1>1 DEF ListedOnce, SbxTyped, Listable, SbxFinished
<1>6. QED BY <1>1, <1>4, <1>5, SbxKept

LEMMA ScheduleStep == ASSUME SbxInv, NEW k \in Ids, SbxSchedule(k) PROVE SbxInv'
<1> DEFINE e == [sbxAll[k] EXCEPT !.scheduled = TRUE]
<1>1. /\ SbxTyped /\ ListedOnce /\ sbxAll' = [sbxAll EXCEPT ![k] = e]
      /\ UNCHANGED <<sbxPc, sbxHandle, sbxAttempt, sbxListed, sbxBefore, sbxSteady>>
      /\ ReportsAreTrue'
  BY DEF SbxInv, SbxSchedule, sbxClient, ReportsAreTrue, NoReport
<1>2. e \in SandboxState /\ e.created_at = sbxAll[k].created_at
  BY <1>1, EntryChanges DEF GenericResultStatus
<1>3. e.tagged = sbxAll[k].tagged /\ e.result = sbxAll[k].result
  BY <1>1, SbxShapes DEF SandboxState
<1> HIDE DEF e
<1>4. (\A j \in Ids : j # k => sbxAll'[j] = sbxAll[j]) /\ sbxAll'[k] = e
  BY <1>1, <1>2, SbxStateChanges
<1>5. sbxSteady' \subseteq sbxSteady /\ \A j \in sbxSteady' : Listable(j)'
  BY <1>1, <1>3, <1>4 DEF ListedOnce, SbxTyped, Listable, SbxFinished
<1>6. UNCHANGED <<sbxPc, sbxHandle, sbxAttempt, sbxListed, sbxBefore>>
  BY <1>1
<1>7. QED BY <1>1, <1>2, <1>5, <1>6, SbxServerStep

LEMMA FinishStep ==
    ASSUME SbxInv, NEW k \in Ids, NEW result \in Results, SbxFinish(k, result)
    PROVE  SbxInv'
<1> DEFINE e == [sbxAll[k] EXCEPT !.result = result]
<1>1. /\ SbxTyped /\ sbxAll' = [sbxAll EXCEPT ![k] = e] /\ SbxChanged /\ ReportsAreTrue'
      /\ UNCHANGED <<sbxPc, sbxHandle, sbxAttempt, sbxListed, sbxBefore>>
  BY DEF SbxInv, SbxFinish, sbxClient, ReportsAreTrue, NoReport
<1>2. e \in SandboxState /\ e.created_at = sbxAll[k].created_at
  <2>1. result \in GenericResultStatus
    BY SandboxAssumption DEF GenericResultStatus
  <2>2. QED BY <1>1, <2>1, EntryChanges
<1>3. sbxSteady' \subseteq sbxSteady /\ \A j \in sbxSteady' : Listable(j)'
  BY <1>1 DEF SbxChanged
<1> HIDE DEF e
<1>4. QED BY <1>1, <1>2, <1>3, SbxServerStep

LEMMA RetagStep == ASSUME SbxInv, NEW k \in Ids, SbxRetag(k) PROVE SbxInv'
<1>1. PICK tagged : tagged = ~sbxAll[k].tagged
  OBVIOUS
<1>2. SbxTyped /\ tagged \in BOOLEAN
  BY <1>1, EntryChanges DEF SbxInv
<1>3. sbxAll' = [sbxAll EXCEPT ![k].tagged = tagged]
  BY <1>1 DEF SbxRetag
<1>4. /\ k \in Retagged /\ SbxChanged /\ ReportsAreTrue'
      /\ UNCHANGED <<sbxPc, sbxHandle, sbxAttempt, sbxListed, sbxBefore>>
  BY DEF SbxRetag, sbxClient, ReportsAreTrue, NoReport
<1>5. QED BY <1>2, <1>3, <1>4, RetaggedStep

LEMMA SbxInitInv == SbxInit => SbxInv
<1> SUFFICES ASSUME SbxInit PROVE SbxInv
  OBVIOUS
<1>1. /\ sbxAll = <<>> /\ sbxPc = "idle" /\ sbxHandle = [sandbox_id |-> NoId, task_id |-> NoId]
      /\ sbxAttempt = 0 /\ sbxListed = <<>> /\ sbxBefore = 0 /\ sbxSteady = {}
      /\ sbxReport = NoReport
  BY DEF SbxInit, NoSandbox
<1>2. /\ Len(sbxAll) = 0 /\ Ids = {} /\ 1..Len(sbxListed) = {}
      /\ sbxAll \in Seq(SandboxState) /\ sbxListed \in Seq(Ids)
  BY <1>1, EmptySeq DEF Ids
<1>3. /\ Len(sbxAll) <= MaxSandboxes /\ 0 \in 0..(MaxAttempts - 1) /\ 0 \in 0..MaxStamp
  <2>1. MaxSandboxes \in Nat /\ MaxAttempts \in Nat /\ MaxAttempts # 0 /\ MaxStamp \in Nat
    BY SandboxAssumption
  <2>2. QED BY <1>2, <2>1
<1>4. SbxTyped
  BY <1>1, <1>2, <1>3 DEF SbxTyped, Handle
<1>5. QED BY <1>1, <1>2, <1>4 DEF SbxInv, InOrder, ListedOnce, ReportsAreTrue, NoReport

LEMMA SbxStep == SbxInv /\ [SbxNext]_sbxVars => SbxInv'
<1> SUFFICES ASSUME SbxInv, [SbxNext]_sbxVars PROVE SbxInv'
  OBVIOUS
<1>1. DOMAIN sbxAll = Ids
  BY SbxShapes DEF SbxInv
<1>2. CASE UNCHANGED sbxVars
  BY <1>2, SbxClientStep DEF sbxVars, SbxInv, SbxTyped, ReportsAreTrue, SbxFinished
<1>3. CASE SbxServer
  BY <1>1, <1>3, AppearsStep, ScheduleStep, RetagStep, FinishStep DEF SbxServer
<1>4. ASSUME NEW success, SbxTells(success) PROVE SbxInv'
  BY <1>4, SbxTellsStep
<1>5. CASE SbxTunnels \/ SbxSnapshot \/ SbxConnectToken \/ SbxNeedsRouter \/ SbxExec \/ SbxExecWait
  BY <1>4, <1>5 DEF SbxTunnels, SbxSnapshot, SbxConnectToken, SbxNeedsRouter, SbxExec, SbxExecWait
<1>6. CASE \/ SbxCreate \/ SbxPollTask \/ \E k \in SandboxIds : SbxFind(k)
           \/ SbxGetTaskId \/ SbxWait \/ SbxPoll \/ SbxTerminate \/ SbxTags
           \/ SbxStartList \/ SbxNextPage \/ SbxListEnds
  BY <1>6, CreateStep, PollTaskStep, FindStep, GetTaskIdStep, WaitStep, PollStep, TerminateStep,
     TagsStep, StartListStep, NextPageStep, ListEndsStep
<1>7. QED BY <1>2, <1>3, <1>5, <1>6 DEF SbxNext, SbxOperation

(* The sandboxes are as they have to be throughout (sandbox.rs).           *)
THEOREM SbxInvariant == SbxSpec => []SbxInv
BY SbxInitInv, SbxStep, PTL DEF SbxSpec

(* list gives every sandbox that could be listed all the time, once, but   *)
(* for those whose timestamp is that of one it gave (sandbox.rs:704-726).  *)
THEOREM ListIsComplete == SbxSpec => []ListMissesOnlyTies
<1>1. ASSUME SbxInv PROVE ListMissesOnlyTies
  <2>1. SbxTyped /\ ListedOnce
    BY <1>1 DEF SbxInv
  <2>2. DOMAIN sbxListed = 1..Len(sbxListed) /\ DOMAIN sbxAll = Ids
    BY <2>1, SbxShapes
  <2>3. ASSUME OnPages = {}, NEW k \in sbxSteady
        PROVE  \E x \in DOMAIN sbxListed : sbxAll[sbxListed[x]].created_at = sbxAll[k].created_at
    <3>1. k \in Ids /\ Listable(k) /\ (ToCome(k) \/ HasTie(k))
      BY <2>1 DEF SbxTyped, ListedOnce
    <3>2. ~ToCome(k)
      BY <2>2, <2>3, <3>1 DEF OnPages, ToCome
    <3>3. QED BY <2>2, <3>1, <3>2 DEF HasTie
  <2>4. QED BY <2>1, <2>2, <2>3 DEF ListedOnce, ListMissesOnlyTies
<1>2. QED BY <1>1, SbxInvariant, PTL

(* The sandboxes and what the client knows of them have their types.       *)
THEOREM SandboxesTyped == SbxSpec => []SbxTypeOK
<1>1. ASSUME SbxInv PROVE SbxTypeOK
  <2>1. SbxTyped /\ DOMAIN sbxAll = Ids /\ MaxAttempts \in Nat
    BY <1>1, SbxShapes DEF SbxInv
  <2>2. sbxAttempt \in 0..MaxAttempts
    BY <2>1 DEF SbxTyped
  <2>3. sbxHandle.sandbox_id \in Ids \cup {NoId}
    BY <2>1 DEF SbxTyped, Handle
  <2>4. QED BY <2>1, <2>2, <2>3 DEF SbxTyped, SbxTypeOK
<1>2. QED BY <1>1, SbxInvariant, PTL

(* What create, wait and poll report of a sandbox is true of it            *)
(* (sandbox.rs:644-661, transport.rs:1161-1186, 1270-1287).                *)
THEOREM CallsReportTheTruth == SbxSpec => []ReportsAreTrue
<1>1. SbxInv => ReportsAreTrue
  BY DEF SbxInv
<1>2. QED BY <1>1, SbxInvariant, PTL

(* What is left of create, in polls, and of list: the timestamps that are  *)
(* still before the next page.                                             *)
PollsLeft == MaxAttempts - sbxAttempt
StampsLeft == IF sbxBefore = 0 THEN MaxStamp + 1 ELSE sbxBefore

CreateAndListComeToAnEnd ==
    [][/\ sbxPc = "scheduling" =>
             \/ sbxPc' = "idle"
             \/ UNCHANGED <<sbxPc, sbxHandle, sbxAttempt>>
             \/ sbxPc' = sbxPc /\ PollsLeft' < PollsLeft
       /\ sbxPc = "listing" =>
             \/ sbxPc' = "idle"
             \/ UNCHANGED <<sbxPc, sbxListed, sbxBefore>>
             \/ sbxPc' = sbxPc /\ StampsLeft' < StampsLeft]_sbxVars

\* A page comes from before the last one.
LEMMA PagesGoBack == ASSUME SbxInv, SbxNextPage PROVE sbxPc' = sbxPc /\ StampsLeft' < StampsLeft
<1>1. SbxTyped /\ OnPages # {} /\ sbxBefore' = LastStamp /\ sbxPc' = sbxPc
  BY DEF SbxInv, SbxNextPage
<1>2. Page[Len(Page)] \in OnPages
  <2>1. Len(Page) \in Nat /\ 1 <= Len(Page) /\ \A x \in 1..Len(Page) : Page[x] \in OnPages
    BY <1>1, PageProperties
  <2>2. Len(Page) \in 1..Len(Page)
    BY <2>1
  <2>3. QED BY <2>1, <2>2
<1>3. /\ Page[Len(Page)] \in Ids
      /\ sbxBefore > 0 => LastStamp < sbxBefore
  BY <1>1, <1>2, SbxShapes DEF OnPages, LastStamp
<1>4. LastStamp \in 1..MaxStamp /\ MaxStamp \in Nat /\ sbxBefore \in 0..MaxStamp
  BY <1>1, <1>3, SbxShapes DEF LastStamp, SbxTyped
<1>5. StampsLeft' = LastStamp
  BY <1>1, <1>4 DEF StampsLeft
<1>6. QED BY <1>1, <1>3, <1>4, <1>5 DEF StampsLeft

(* create polls at most MaxAttempts times, and the pages of list go back   *)
(* in time, so that it cannot go on for ever although others create and    *)
(* terminate sandboxes all the while: what CreateAndListEnd rests on, for  *)
(* any number of sandboxes and any size of a page (sandbox.rs:643-660,     *)
(* 704-726).                                                               *)
THEOREM CreateAndListMoveOn == SbxSpec => CreateAndListComeToAnEnd
<1> DEFINE Goes == /\ sbxPc = "scheduling" =>
                         \/ sbxPc' = "idle"
                         \/ UNCHANGED <<sbxPc, sbxHandle, sbxAttempt>>
                         \/ sbxPc' = sbxPc /\ PollsLeft' < PollsLeft
                   /\ sbxPc = "listing" =>
                         \/ sbxPc' = "idle"
                         \/ UNCHANGED <<sbxPc, sbxListed, sbxBefore>>
                         \/ sbxPc' = sbxPc /\ StampsLeft' < StampsLeft
<1>1. ASSUME SbxInv, [SbxNext]_sbxVars PROVE Goes
  <2>1. CASE SbxServer \/ UNCHANGED sbxVars
    BY <2>1 DEF SbxServer, SbxAppears, SbxSchedule, SbxRetag, SbxFinish, sbxVars, sbxClient
  <2>2. CASE SbxPollTask
    <3>1. sbxPc = "scheduling" /\ sbxAttempt \in 0..(MaxAttempts - 1) /\ MaxAttempts \in Nat
      BY <1>1, <2>2, SbxShapes DEF SbxPollTask, SbxInv, SbxTyped
    <3>2. sbxPc' = "idle" \/ (sbxPc' = sbxPc /\ sbxAttempt' = sbxAttempt + 1)
      BY <2>2 DEF SbxPollTask, SbxCreateFails, SbxCreateEnds, AttemptAfter
    <3>3. QED BY <3>1, <3>2 DEF PollsLeft
  <2>3. CASE SbxNextPage
    BY <1>1, <2>3, PagesGoBack DEF SbxNextPage
  <2>4. CASE SbxListEnds
    BY <2>4 DEF SbxListEnds
  <2>5. ASSUME \/ SbxCreate \/ \E k \in SandboxIds : SbxFind(k)
               \/ SbxGetTaskId \/ SbxWait \/ SbxPoll \/ SbxTerminate \/ SbxTags \/ SbxStartList
        PROVE  sbxPc = "idle"
    BY <2>5 DEF SbxCreate, SbxFind, SbxGetTaskId, SbxWait, SbxPoll, SbxTerminate, SbxTags, SbxStartList,
                SbxTells, SbxAsksOf, SbxAsks, SbxAnswers
  <2>6. ASSUME SbxTunnels \/ SbxSnapshot \/ SbxConnectToken \/ SbxNeedsRouter \/ SbxExec \/ SbxExecWait
        PROVE  sbxPc = "idle"
    BY <2>6 DEF SbxTunnels, SbxSnapshot, SbxConnectToken, SbxNeedsRouter, SbxExec, SbxExecWait,
                SbxTells, SbxAsksOf, SbxAsks, SbxAnswers
  <2>7. QED BY <1>1, <2>1, <2>2, <2>3, <2>4, <2>5, <2>6 DEF SbxNext, SbxOperation
<1>2. SbxInv /\ [SbxNext]_sbxVars => [Goes]_sbxVars
  BY <1>1
<1>3. QED BY <1>2, SbxInvariant, PTL DEF SbxSpec, CreateAndListComeToAnEnd
-----------------------------------------------------------------------------
(* The file: a chunk of a write that is in the file, or that may yet come  *)
(* there, comes after the one before it; and what returned Ok is there.    *)
InFile(r) == \E x \in 1..Len(fsFile) : fsFile[x] = r
Preceding(r) == [r EXCEPT ![3] = @ - 1]

FsOrdered ==
    /\ fsRequest[3] > 1 => InFile(Preceding(fsRequest))
    /\ \A r \in fsStray : r[3] > 1 => InFile(Preceding(r))
    /\ \A x \in 1..Len(fsFile) : fsFile[x][3] > 1 =>
          \E y \in 1..(x - 1) : fsFile[y] = Preceding(fsFile[x])
    /\ fsExec = "ok" /\ fsRequest[1] = "write" => InFile(fsRequest)
    /\ \A r \in fsAcked : InFile(r)

FsTyped ==
    /\ FsTypeOK
    /\ fsRequest[1] = "write" => fsRequest[2] \in 1..fsWrites /\ fsRequest[3] \in 1..fsChunks

FsInv == FsTyped /\ (~fsCut => FsOrdered)

(* What a request is, and the one that follows it in a write.              *)
LEMMA RequestShape ==
    ASSUME NEW r \in FsRequests
    PROVE  /\ r = <<r[1], r[2], r[3]>> /\ r[3] \in Nat
           /\ r[1] = "write" => r[2] \in 1..MaxWrites /\ r[3] \in 1..MaxChunks
           /\ r[1] # "write" => r[3] = 0
           /\ r = NoRequest <=> r[1] = "none"
<1>1. CASE r \in {WriteChunk(w, k) : w \in 1..MaxWrites, k \in 1..MaxChunks}
  <2>1. PICK w \in 1..MaxWrites, k \in 1..MaxChunks : r = <<"write", w, k>>
    BY <1>1 DEF WriteChunk
  <2>2. r[1] = "write" /\ r[2] = w /\ r[3] = k
    BY <2>1
  <2>3. k \in Nat
    BY FilesAssumption
  <2>4. QED BY <2>1, <2>2, <2>3 DEF NoRequest, Plain
<1>2. ASSUME NEW op, r = Plain(op), op # "write"
      PROVE  /\ r = <<r[1], r[2], r[3]>> /\ r[3] = 0 /\ r[1] # "write"
             /\ r = NoRequest <=> r[1] = "none"
  BY <1>2 DEF Plain, NoRequest
<1>3. \/ r \in {WriteChunk(w, k) : w \in 1..MaxWrites, k \in 1..MaxChunks}
      \/ \E op : r = Plain(op) /\ op # "write"
  BY DEF FsRequests, NoRequest, FileOps, FlushOrSeek
<1>4. QED BY <1>1, <1>2, <1>3

LEMMA NextChunk ==
    ASSUME NEW r \in FsRequests, r[1] = "write", NEW n \in 1..MaxChunks, r[3] \in 1..n, r[3] # n
    PROVE  LET s == [r EXCEPT ![3] = @ + 1]
           IN  /\ s \in FsRequests /\ s[1] = "write" /\ s[2] = r[2] /\ s[3] = r[3] + 1
               /\ s # NoRequest /\ Preceding(s) = r
<1>1. r = <<"write", r[2], r[3]>> /\ r[2] \in 1..MaxWrites /\ r[3] \in 1..MaxChunks
  BY RequestShape
<1> DEFINE s == <<"write", r[2], r[3] + 1>>
<1>2. [r EXCEPT ![3] = @ + 1] = s
  BY <1>1
<1>3. r[3] + 1 \in 1..MaxChunks /\ r[3] \in Int
  BY FilesAssumption
<1>4. s \in FsRequests
  BY <1>1, <1>3 DEF FsRequests, WriteChunk
<1>5. s # NoRequest
  BY DEF NoRequest, Plain
<1>6. Preceding(s) = <<"write", r[2], (r[3] + 1) - 1>>
  BY DEF Preceding
<1>7. Preceding(s) = r
  BY <1>1, <1>3, <1>6
<1>8. QED BY <1>2, <1>4, <1>5, <1>7

(* An exec that runs leaves in the file what was there.                    *)
LEMMA EffectTyped ==
    ASSUME FsTyped, NEW r \in FsRequests, FsEffect(r)
    PROVE  /\ fsFile' \in Seq(FsRequests) /\ fsFd' \in {"none", "open", "closed"}
           /\ \A q : InFile(q) => InFile(q)'
           /\ r[1] = "write" => InFile(r)'
<1>1. fsFile \in Seq(FsRequests) /\ fsFd \in {"none", "open", "closed"} /\ Len(fsFile) \in Nat
  BY LenProperties DEF FsTyped, FsTypeOK
<1>2. fsFd' \in {"none", "open", "closed"}
  BY <1>1 DEF FsEffect
<1>3. CASE r[1] # "write"
  <2>1. fsFile' = fsFile
    BY <1>3 DEF FsEffect
  <2>2. QED BY <1>1, <1>2, <1>3, <2>1 DEF InFile
<1>4. CASE r[1] = "write"
  <2>1. fsFile' = Append(fsFile, r)
    BY <1>4 DEF FsEffect
  <2>2. /\ fsFile' \in Seq(FsRequests) /\ Len(fsFile') = Len(fsFile) + 1
        /\ \A x \in 1..Len(fsFile) : fsFile'[x] = fsFile[x]
        /\ fsFile'[Len(fsFile) + 1] = r
    BY <1>1, <2>1, AppendProperties
  <2>3. \A x \in 1..Len(fsFile) : x \in 1..Len(fsFile')
    BY <1>1, <2>2
  <2>4. Len(fsFile) + 1 \in 1..Len(fsFile')
    BY <1>1, <2>2
  <2>5. QED BY <1>2, <2>2, <2>3, <2>4 DEF InFile
<1>5. QED BY <1>3, <1>4

LEMMA EffectOrdered ==
    ASSUME FsTyped, FsOrdered, NEW r \in FsRequests, FsEffect(r),
           r[3] > 1 => InFile(Preceding(r))
    PROVE  \A x \in 1..Len(fsFile') : fsFile'[x][3] > 1 =>
              \E y \in 1..(x - 1) : fsFile'[y] = Preceding(fsFile'[x])
<1>1. fsFile \in Seq(FsRequests) /\ Len(fsFile) \in Nat
  BY LenProperties DEF FsTyped, FsTypeOK
<1>2. \A x \in 1..Len(fsFile) : fsFile[x][3] > 1 =>
         \E y \in 1..(x - 1) : fsFile[y] = Preceding(fsFile[x])
  BY DEF FsOrdered
<1>3. CASE r[1] # "write"
  BY <1>2, <1>3 DEF FsEffect
<1>4. CASE r[1] = "write"
  <2>1. fsFile' = Append(fsFile, r)
    BY <1>4 DEF FsEffect
  <2>2. /\ Len(fsFile') = Len(fsFile) + 1
        /\ \A x \in 1..Len(fsFile) : fsFile'[x] = fsFile[x]
        /\ fsFile'[Len(fsFile) + 1] = r
    BY <1>1, <2>1, AppendProperties
  <2> SUFFICES ASSUME NEW x \in 1..Len(fsFile'), fsFile'[x][3] > 1
               PROVE  \E y \in 1..(x - 1) : fsFile'[y] = Preceding(fsFile'[x])
    OBVIOUS
  <2>3. CASE x \in 1..Len(fsFile)
    <3>1. fsFile'[x] = fsFile[x]
      BY <2>2, <2>3
    <3>2. PICK y \in 1..(x - 1) : fsFile[y] = Preceding(fsFile[x])
      BY <1>2, <2>3, <3>1
    <3>3. y \in 1..Len(fsFile)
      BY <1>1, <2>3
    <3>4. fsFile'[y] = Preceding(fsFile'[x])
      BY <2>2, <3>1, <3>2, <3>3
    <3>5. QED BY <3>4
  <2>4. CASE x = Len(fsFile) + 1
    <3>1. PICK y \in 1..Len(fsFile) : fsFile[y] = Preceding(r)
      BY <2>2, <2>4 DEF InFile
    <3>2. y \in 1..(x - 1) /\ fsFile'[y] = Preceding(fsFile'[x])
      BY <1>1, <2>2, <2>4, <3>1
    <3>3. QED BY <3>2
  <2>5. QED BY <1>1, <2>2, <2>3, <2>4
<1>5. QED BY <1>3, <1>4

(* A step of the client: the file stays, and a copy of the request under   *)
(* way may be added to those nobody awaits.                                *)
LEMMA ClientOrdered ==
    ASSUME FsOrdered, UNCHANGED fsFile,
           fsStray' \subseteq fsStray \cup {fsRequest}, fsAcked' = fsAcked,
           fsRequest'[3] > 1 => fsRequest' = fsRequest,
           fsExec' = "ok" => fsExec = "ok" /\ fsRequest' = fsRequest
    PROVE  FsOrdered'
<1>1. \A q : InFile(q) => InFile(q)'
  BY DEF InFile
<1>2. fsRequest'[3] > 1 => InFile(Preceding(fsRequest))
  BY DEF FsOrdered
<1>3. fsRequest'[3] > 1 => InFile(Preceding(fsRequest))'
  BY <1>2, <1>1 DEF InFile, Preceding
<1>4. \A r \in fsStray' : r[3] > 1 => InFile(Preceding(r))
  BY DEF FsOrdered
<1>5. \A r \in fsStray' : r[3] > 1 => InFile(Preceding(r))'
  BY <1>4 DEF InFile, Preceding
<1>6. \A r \in fsAcked' : InFile(r)'
  BY <1>1 DEF FsOrdered
<1>7. fsExec' = "ok" /\ fsRequest'[1] = "write" => InFile(fsRequest)'
  BY DEF FsOrdered, InFile
<1>8. \A x \in 1..Len(fsFile') : fsFile'[x][3] > 1 =>
         \E y \in 1..(x - 1) : fsFile'[y] = Preceding(fsFile'[x])
  BY DEF FsOrdered
<1>9. QED BY <1>3, <1>5, <1>6, <1>7, <1>8 DEF FsOrdered, Preceding

LEMMA FsInitInv == FsInit => FsInv
<1> SUFFICES ASSUME FsInit PROVE FsInv
  OBVIOUS
<1>1. /\ fsPc = "idle" /\ fsOpened = FALSE /\ fsClosed = FALSE /\ fsMode = FileMode("r", FALSE)
      /\ fsRequest = NoRequest /\ fsChunks = 0 /\ fsWrites = 0 /\ fsExec = "none" /\ fsStray = {}
      /\ fsFd = "none" /\ fsFile = <<>> /\ fsAcked = {} /\ fsCut = FALSE
  BY DEF FsInit
<1>2. fsRequest[1] = "none" /\ fsRequest[3] = 0 /\ fsRequest \in FsRequests
  BY <1>1 DEF NoRequest, Plain, FsRequests
<1>3. fsFile \in Seq(FsRequests) /\ Len(fsFile) = 0 /\ 1..Len(fsFile) = {}
  BY <1>1, EmptySeq
<1>4. fsMode \in [readable : BOOLEAN, writable : BOOLEAN]
  BY <1>1 DEF FileMode
<1>5. fsChunks \in 0..MaxChunks /\ fsWrites \in 0..MaxWrites
  BY <1>1, FilesAssumption
<1>6. FsTypeOK
  BY <1>1, <1>2, <1>3, <1>4, <1>5 DEF FsTypeOK
<1>7. FsOrdered
  BY <1>1, <1>2, <1>3 DEF FsOrdered
<1>8. QED BY <1>2, <1>6, <1>7 DEF FsInv, FsTyped

(* An operation begins: its first request has nothing to come after.       *)
LEMMA SendStep ==
    ASSUME FsInv, NEW request \in FsRequests, FsSend(request), request[1] # "none",
           request[3] \in {0, 1}, UNCHANGED <<fsOpened, fsClosed>>,
           fsMode' \in [readable : BOOLEAN, writable : BOOLEAN],
           fsChunks' \in 0..MaxChunks, fsWrites' \in 0..MaxWrites, fsWrites' \in {fsWrites, fsWrites + 1},
           request[1] = "write" => request[2] \in 1..fsWrites' /\ request[3] \in 1..fsChunks'
    PROVE  FsInv'
<1>1. FsTyped /\ FsTypeOK /\ fsPc = "idle" /\ fsPc' = "exec" /\ fsRequest' = request
      /\ UNCHANGED <<fsExec, fsStray, fsFd, fsFile, fsAcked, fsCut>>
  BY DEF FsInv, FsTyped, FsSend, fsSandbox, fsHistory
<1>2. fsExec' = "none" /\ fsRequest' # NoRequest
  BY <1>1, RequestShape DEF FsTypeOK
<1>3. \A r \in fsAcked : r[2] \in 1..fsWrites'
  <2>1. \A k \in 1..fsWrites : k \in 1..fsWrites'
    BY <1>1 DEF FsTypeOK
  <2>2. QED BY <1>1, <2>1 DEF FsTypeOK
<1>4. FsTypeOK'
  <2>1. fsAcked' \subseteq {r \in FsRequests : r[2] \in 1..fsWrites'}
    BY <1>1, <1>3 DEF FsTypeOK
  <2>2. QED BY <1>1, <1>2, <2>1 DEF FsTypeOK
<1>5. ~fsCut => FsOrdered'
  <2>1. ~(request[3] > 1)
    OBVIOUS
  <2> SUFFICES ASSUME ~fsCut PROVE FsOrdered'
    OBVIOUS
  <2>2. FsOrdered
    BY DEF FsInv
  <2>3. fsRequest'[3] > 1 => fsRequest' = fsRequest
    BY <1>1, <2>1
  <2>4. fsExec' = "ok" => fsExec = "ok" /\ fsRequest' = fsRequest
    BY <1>2
  <2>5. fsStray' \subseteq fsStray \cup {fsRequest}
    BY <1>1
  <2>6. UNCHANGED fsFile /\ fsAcked' = fsAcked
    BY <1>1
  <2>7. QED BY <2>2, <2>3, <2>4, <2>5, <2>6, ClientOrdered
<1>6. QED BY <1>1, <1>4, <1>5 DEF FsInv, FsTyped

LEMMA PlainRequest ==
    ASSUME NEW op \in FileOps \cup {"open", "path"}
    PROVE  /\ Plain(op) \in FsRequests /\ Plain(op)[1] = op /\ Plain(op)[3] = 0
           /\ op # "none" /\ op # "write"
BY DEF Plain, FsRequests, FileOps, FlushOrSeek

LEMMA FsOpenStep ==
    ASSUME FsInv, NEW letter, NEW plus \in BOOLEAN, FsOpen(letter, plus) PROVE FsInv'
<1>1. FsTypeOK /\ FsSend(Plain("open")) /\ fsMode' = FileMode(letter, plus)
      /\ UNCHANGED <<fsOpened, fsClosed, fsChunks, fsWrites>>
  BY DEF FsInv, FsTyped, FsOpen
<1>2. fsMode' \in [readable : BOOLEAN, writable : BOOLEAN]
  BY <1>1 DEF FileMode
<1>3. fsChunks' \in 0..MaxChunks /\ fsWrites' \in 0..MaxWrites /\ fsWrites' = fsWrites
  BY <1>1 DEF FsTypeOK
<1>4. UNCHANGED <<fsOpened, fsClosed>>
  BY <1>1
<1>5. /\ Plain("open") \in FsRequests /\ Plain("open")[1] # "none" /\ Plain("open")[3] = 0
      /\ Plain("open")[1] # "write"
  BY PlainRequest
<1>6. QED BY <1>1, <1>2, <1>3, <1>4, <1>5, SendStep

LEMMA FsPlainStep ==
    ASSUME FsInv, NEW op \in FileOps \cup {"open", "path"}, FsSend(Plain(op)),
           UNCHANGED <<fsHandle, fsChunks, fsWrites>>
    PROVE  FsInv'
<1>1. FsTypeOK /\ UNCHANGED <<fsOpened, fsClosed>> /\ fsMode' = fsMode
      /\ UNCHANGED <<fsChunks, fsWrites>>
  BY DEF FsInv, FsTyped, fsHandle
<1>2. fsMode' \in [readable : BOOLEAN, writable : BOOLEAN]
  BY <1>1 DEF FsTypeOK
<1>3. fsChunks' \in 0..MaxChunks /\ fsWrites' \in 0..MaxWrites /\ fsWrites' = fsWrites
  BY <1>1 DEF FsTypeOK
<1>4. /\ Plain(op) \in FsRequests /\ Plain(op)[1] # "none" /\ Plain(op)[3] = 0
      /\ Plain(op)[1] # "write"
  BY PlainRequest
<1>5. QED BY <1>1, <1>2, <1>3, <1>4, SendStep

LEMMA FsWriteStep == ASSUME FsInv, NEW chunks \in 1..MaxChunks, FsWrite(chunks) PROVE FsInv'
<1>1. FsTypeOK /\ fsWrites < MaxWrites /\ fsWrites' = fsWrites + 1 /\ fsChunks' = chunks
      /\ FsSend(WriteChunk(fsWrites', 1)) /\ UNCHANGED <<fsOpened, fsMode, fsClosed>>
  BY DEF FsInv, FsTyped, FsWrite, fsHandle
<1>2. MaxWrites \in Nat /\ MaxChunks \in Nat /\ fsWrites \in 0..MaxWrites
  BY <1>1, FilesAssumption DEF FsTypeOK
<1>3. fsWrites' \in 1..MaxWrites /\ 1 \in 1..MaxChunks /\ fsWrites' \in 0..MaxWrites
      /\ fsChunks' \in 0..MaxChunks /\ fsWrites' \in 1..fsWrites' /\ 1 \in 1..fsChunks'
  BY <1>1, <1>2
<1> DEFINE r == WriteChunk(fsWrites', 1)
<1>4. r \in FsRequests /\ r[1] = "write" /\ r[2] = fsWrites' /\ r[3] = 1
  BY <1>3 DEF FsRequests, WriteChunk
<1> HIDE DEF r
<1>5. FsSend(r)
  BY <1>1 DEF r
<1>6. fsMode' \in [readable : BOOLEAN, writable : BOOLEAN] /\ UNCHANGED <<fsOpened, fsClosed>>
  BY <1>1 DEF FsTypeOK
<1>7. r[1] # "none" /\ r[3] \in {0, 1} /\ fsWrites' \in {fsWrites, fsWrites + 1}
      /\ r[2] \in 1..fsWrites' /\ r[3] \in 1..fsChunks'
  BY <1>1, <1>3, <1>4
<1>8. QED BY <1>3, <1>4, <1>5, <1>6, <1>7, SendStep

(* The request under way, one that is not "none", may be left behind.      *)
LEMMA StrayTyped ==
    ASSUME FsTyped, fsPc # "idle", fsStray' \subseteq fsStray \cup {fsRequest}
    PROVE  fsStray' \subseteq FsRequests \ {NoRequest}
BY DEF FsTyped, FsTypeOK

LEMMA FsAcceptedStep == ASSUME FsInv, FsAccepted PROVE FsInv'
<1>1. FsTyped /\ FsTypeOK /\ fsPc = "exec" /\ fsPc' = "output" /\ fsExec' = "queued"
      /\ fsStray' \subseteq fsStray \cup {fsRequest}
      /\ fsClosed' = (fsClosed \/ fsRequest[1] = "close")
      /\ UNCHANGED <<fsOpened, fsMode, fsRequest, fsChunks, fsWrites, fsFd, fsFile, fsAcked, fsCut>>
  BY DEF FsInv, FsTyped, FsAccepted, FsPerhapsTwice, fsSandbox, fsHistory
<1>2. fsStray' \subseteq FsRequests \ {NoRequest} /\ fsClosed' \in BOOLEAN
  BY <1>1, StrayTyped
<1>3. FsTypeOK'
  BY <1>1, <1>2 DEF FsTypeOK
<1>4. ~fsCut => FsOrdered'
  BY <1>1, ClientOrdered DEF FsInv
<1>5. QED BY <1>1, <1>3, <1>4 DEF FsInv, FsTyped

(* An operation ends with an error.                                        *)
LEMMA FsFailsStep ==
    ASSUME FsInv, fsPc # "idle", FsFails, fsStray' \subseteq fsStray \cup {fsRequest}, fsExec' = "none",
           UNCHANGED <<fsHandle, fsChunks, fsSandbox, fsCut>>
    PROVE  FsInv'
<1>1. FsTyped /\ FsTypeOK /\ fsPc' = "idle" /\ fsRequest' = NoRequest
      /\ UNCHANGED <<fsOpened, fsMode, fsClosed, fsChunks, fsWrites, fsFd, fsFile, fsAcked, fsCut>>
  BY DEF FsInv, FsTyped, FsFails, fsHandle, fsSandbox
<1>2. fsStray' \subseteq FsRequests \ {NoRequest} /\ NoRequest \in FsRequests
  BY <1>1, StrayTyped DEF FsRequests
<1>3. FsTypeOK'
  BY <1>1, <1>2 DEF FsTypeOK
<1>4. fsRequest'[1] = "none" /\ ~(fsRequest'[3] > 1)
  BY <1>1 DEF NoRequest, Plain
<1>5. ~fsCut => FsOrdered'
  BY <1>1, <1>4, ClientOrdered DEF FsInv
<1>6. QED BY <1>1, <1>3, <1>4, <1>5 DEF FsInv, FsTyped

LEMMA FsRefusedStep == ASSUME FsInv, FsRefused PROVE FsInv'
<1>1. fsPc = "exec" /\ FsFails /\ fsStray' \subseteq fsStray \cup {fsRequest}
      /\ UNCHANGED <<fsHandle, fsChunks, fsExec, fsSandbox, fsCut>>
  BY DEF FsRefused, FsPerhapsTwice
<1>2. fsExec = "none"
  BY <1>1 DEF FsInv, FsTyped, FsTypeOK
<1>3. fsPc # "idle" /\ fsExec' = "none" /\ UNCHANGED <<fsHandle, fsChunks, fsSandbox, fsCut>>
  BY <1>1, <1>2
<1>4. QED BY <1>1, <1>3, FsFailsStep

LEMMA FsOutputFailsStep == ASSUME FsInv, FsOutputFails PROVE FsInv'
<1>1. fsPc # "idle" /\ FsFails /\ fsStray' \subseteq fsStray \cup {fsRequest} /\ fsExec' = "none"
      /\ UNCHANGED <<fsHandle, fsChunks, fsSandbox, fsCut>>
  BY DEF FsOutputFails, FsLeftBehind
<1>2. QED BY <1>1, FsFailsStep

(* The output of an exec ends: the operation is over, or its next chunk is *)
(* sent.                                                                   *)
LEMMA DoneTyped ==
    ASSUME FsTyped, fsPc = "output", FsDone, fsStray' \subseteq fsStray \cup {fsRequest}, fsCut' \in BOOLEAN
    PROVE  FsTyped'
<1>1. /\ FsTypeOK /\ fsExec' = "none" /\ fsOpened' = (fsOpened \/ fsRequest[1] = "open")
      /\ UNCHANGED <<fsMode, fsClosed, fsChunks, fsWrites, fsFd, fsFile>>
  BY DEF FsTyped, FsDone, fsSandbox
<1>2. fsStray' \subseteq FsRequests \ {NoRequest} /\ fsOpened' \in BOOLEAN
  BY <1>1, StrayTyped
<1>3. CASE AllSent
  <2>1. fsPc' = "idle" /\ fsRequest' = NoRequest
        /\ fsAcked' = IF fsRequest[1] = "write" THEN fsAcked \cup {fsRequest} ELSE fsAcked
    BY <1>3 DEF FsDone
  <2>2. fsRequest'[1] = "none" /\ fsRequest' \in FsRequests
    BY <2>1 DEF NoRequest, Plain, FsRequests
  <2>3. fsAcked' \subseteq {r \in FsRequests : r[2] \in 1..fsWrites'}
    BY <1>1, <2>1 DEF FsTyped, FsTypeOK
  <2>4. FsTypeOK'
    BY <1>1, <1>2, <2>1, <2>2, <2>3 DEF FsTypeOK
  <2>5. QED BY <2>2, <2>4 DEF FsTyped
<1>4. CASE ~AllSent
  <2>1. fsPc' = "exec" /\ fsRequest' = [fsRequest EXCEPT ![3] = @ + 1] /\ UNCHANGED fsAcked
    BY <1>4 DEF FsDone
  <2>2. /\ fsRequest \in FsRequests /\ fsRequest[1] = "write" /\ fsRequest[2] \in 1..fsWrites
        /\ fsRequest[3] \in 1..fsChunks /\ fsRequest[3] # fsChunks
    BY <1>1, <1>4 DEF AllSent, FsTyped, FsTypeOK
  <2>3. fsChunks \in 1..MaxChunks /\ fsRequest[3] + 1 \in 1..fsChunks
    <3>1. fsChunks \in Nat /\ fsChunks <= MaxChunks /\ MaxChunks \in Nat
      BY <1>1, FilesAssumption DEF FsTypeOK
    <3>2. QED BY <2>2, <3>1
  <2>4. /\ fsRequest' \in FsRequests /\ fsRequest'[1] = "write" /\ fsRequest'[2] = fsRequest[2]
        /\ fsRequest'[3] = fsRequest[3] + 1 /\ fsRequest' # NoRequest
    BY <2>1, <2>2, <2>3, NextChunk
  <2>5. FsTypeOK'
    BY <1>1, <1>2, <2>1, <2>4 DEF FsTypeOK
  <2>6. QED BY <1>1, <2>2, <2>3, <2>4, <2>5 DEF FsTyped
<1>5. QED BY <1>3, <1>4

LEMMA FsOutputCutStep == ASSUME FsInv, FsOutputCut PROVE FsInv'
<1>1. FsTyped /\ fsPc = "output" /\ FsDone /\ fsStray' \subseteq fsStray \cup {fsRequest} /\ fsCut' = TRUE
  BY DEF FsInv, FsOutputCut, FsLeftBehind
<1>2. FsTyped'
  BY <1>1, DoneTyped
<1>3. QED BY <1>1, <1>2 DEF FsInv

LEMMA FsOutputStep == ASSUME FsInv, FsOutput PROVE FsInv'
<1>1. FsTyped /\ FsTypeOK /\ fsPc = "output" /\ fsExec = "ok" /\ FsDone /\ UNCHANGED <<fsStray, fsCut>>
  BY DEF FsInv, FsTyped, FsOutput, Passes
<1>2. fsCut' \in BOOLEAN /\ fsStray' \subseteq fsStray \cup {fsRequest}
  BY <1>1 DEF FsTypeOK
<1>3. FsTyped'
  BY <1>1, <1>2, DoneTyped
<1>4. ASSUME ~fsCut PROVE FsOrdered'
  <2>1. FsOrdered /\ UNCHANGED fsFile /\ fsExec' = "none" /\ fsStray' = fsStray
    BY <1>1, <1>4 DEF FsInv, FsDone, fsSandbox
  <2>2. \A q : InFile(q) => InFile(q)'
    BY <2>1 DEF InFile
  <2>3. fsRequest[1] = "write" => InFile(fsRequest)
    BY <1>1, <2>1 DEF FsOrdered
  <2>4. \A r \in fsStray' : r[3] > 1 => InFile(Preceding(r))'
    BY <2>1 DEF FsOrdered, InFile, Preceding
  <2>5. \A r \in fsAcked' : InFile(r)'
    BY <1>1, <2>1, <2>2, <2>3 DEF FsOrdered, FsDone
  <2>6. fsRequest'[3] > 1 => InFile(Preceding(fsRequest))'
    <3>1. CASE AllSent
      BY <1>1, <3>1 DEF FsDone, NoRequest, Plain
    <3>2. CASE ~AllSent
      <4>1. fsRequest' = [fsRequest EXCEPT ![3] = @ + 1]
        BY <1>1, <3>2 DEF FsDone
      <4>2. /\ fsRequest \in FsRequests /\ fsRequest[1] = "write" /\ fsChunks \in 0..MaxChunks
            /\ fsRequest[3] \in 1..fsChunks /\ fsRequest[3] # fsChunks
        BY <1>1, <3>2 DEF AllSent, FsTyped, FsTypeOK
      <4>3. fsChunks \in 1..MaxChunks
        BY <4>2, FilesAssumption
      <4>4. Preceding(fsRequest') = fsRequest
        BY <4>1, <4>2, <4>3, NextChunk
      <4>5. PICK x \in 1..Len(fsFile) : fsFile[x] = fsRequest
        BY <2>3, <4>2 DEF InFile
      <4>6. fsFile'[x] = Preceding(fsRequest') /\ x \in 1..Len(fsFile')
        BY <2>1, <4>4, <4>5
      <4>7. QED BY <4>6 DEF InFile, Preceding
    <3>3. QED BY <3>1, <3>2
  <2>7. \A x \in 1..Len(fsFile') : fsFile'[x][3] > 1 =>
           \E y \in 1..(x - 1) : fsFile'[y] = Preceding(fsFile'[x])
    BY <2>1 DEF FsOrdered
  <2>8. QED BY <2>1, <2>4, <2>5, <2>6, <2>7 DEF FsOrdered, Preceding
<1>5. QED BY <1>1, <1>3, <1>4 DEF FsInv

(* The sandbox runs an exec, the one that is awaited or a copy.            *)
LEMMA FsRunStep == ASSUME FsInv, FsRun PROVE FsInv'
<1>1. FsTyped /\ FsTypeOK /\ fsExec = "queued" /\ fsRequest \in FsRequests
      /\ UNCHANGED <<fsPc, fsOpened, fsMode, fsClosed, fsRequest, fsChunks, fsWrites, fsStray, fsAcked, fsCut>>
  BY DEF FsInv, FsTyped, FsTypeOK, FsRun, fsHandle, fsHistory
<1>2. CASE fsExec' = "failed" /\ UNCHANGED <<fsFd, fsFile>>
  <2>1. FsTyped'
    BY <1>1, <1>2 DEF FsTyped, FsTypeOK
  <2>2. ~fsCut => FsOrdered'
    BY <1>1, <1>2, ClientOrdered DEF FsInv
  <2>3. QED BY <1>1, <2>1, <2>2 DEF FsInv
<1>3. CASE fsExec' = "ok" /\ FsEffect(fsRequest)
  <2>1. PICK r \in FsRequests : r = fsRequest
    BY <1>1
  <2>2. /\ fsFile' \in Seq(FsRequests) /\ fsFd' \in {"none", "open", "closed"}
        /\ \A q : InFile(q) => InFile(q)'
        /\ r[1] = "write" => InFile(r)'
    BY <1>1, <1>3, <2>1, EffectTyped
  <2>3. FsTyped'
    BY <1>1, <1>3, <2>2 DEF FsTyped, FsTypeOK
  <2>4. ASSUME ~fsCut PROVE FsOrdered'
    <3>1. FsOrdered /\ (r[3] > 1 => InFile(Preceding(r)))
      BY <2>1, <2>4 DEF FsInv, FsOrdered
    <3>2. \A x \in 1..Len(fsFile') : fsFile'[x][3] > 1 =>
             \E y \in 1..(x - 1) : fsFile'[y] = Preceding(fsFile'[x])
      BY <1>1, <1>3, <2>1, <3>1, EffectOrdered
    <3>3. \A q \in fsStray' : q[3] > 1 => InFile(Preceding(q))'
      BY <1>1, <2>2, <3>1 DEF FsOrdered, InFile, Preceding
    <3>4. \A q \in fsAcked' : InFile(q)'
      BY <1>1, <2>2, <3>1 DEF FsOrdered
    <3>5. fsRequest'[3] > 1 => InFile(Preceding(fsRequest))'
      BY <1>1, <2>1, <2>2, <3>1 DEF InFile, Preceding
    <3>6. fsRequest'[1] = "write" => InFile(fsRequest)'
      BY <1>1, <2>1, <2>2 DEF InFile
    <3>7. QED BY <3>2, <3>3, <3>4, <3>5, <3>6 DEF FsOrdered, Preceding
  <2>5. QED BY <1>1, <2>3, <2>4 DEF FsInv
<1>4. QED BY <1>2, <1>3 DEF FsRun, fsSandbox

LEMMA FsRunStrayStep == ASSUME FsInv, NEW r \in fsStray, FsRunStray(r) PROVE FsInv'
<1>1. FsTyped /\ FsTypeOK /\ r \in FsRequests /\ fsStray' \subseteq fsStray
      /\ UNCHANGED <<fsPc, fsOpened, fsMode, fsClosed, fsRequest, fsChunks, fsWrites, fsExec, fsAcked, fsCut>>
  BY DEF FsInv, FsTyped, FsTypeOK, FsRunStray, fsHandle, fsHistory
<1>2. CASE UNCHANGED <<fsFd, fsFile>>
  <2>1. FsTyped'
    BY <1>1, <1>2 DEF FsTyped, FsTypeOK
  <2>2. ~fsCut => FsOrdered'
    BY <1>1, <1>2, ClientOrdered DEF FsInv
  <2>3. QED BY <1>1, <2>1, <2>2 DEF FsInv
<1>3. CASE FsEffect(r)
  <2>1. /\ fsFile' \in Seq(FsRequests) /\ fsFd' \in {"none", "open", "closed"}
        /\ \A q : InFile(q) => InFile(q)'
    BY <1>1, <1>3, EffectTyped
  <2>2. FsTyped'
    BY <1>1, <2>1 DEF FsTyped, FsTypeOK
  <2>3. ASSUME ~fsCut PROVE FsOrdered'
    <3>1. FsOrdered /\ (r[3] > 1 => InFile(Preceding(r)))
      BY <2>3 DEF FsInv, FsOrdered
    <3>2. \A x \in 1..Len(fsFile') : fsFile'[x][3] > 1 =>
             \E y \in 1..(x - 1) : fsFile'[y] = Preceding(fsFile'[x])
      BY <1>1, <1>3, <3>1, EffectOrdered
    <3>3. \A q \in fsStray' : q[3] > 1 => InFile(Preceding(q))'
      BY <1>1, <2>1, <3>1 DEF FsOrdered, InFile, Preceding
    <3>4. \A q \in fsAcked' : InFile(q)'
      BY <1>1, <2>1, <3>1 DEF FsOrdered
    <3>5. fsRequest'[3] > 1 => InFile(Preceding(fsRequest))'
      BY <1>1, <2>1, <3>1 DEF FsOrdered, InFile, Preceding
    <3>6. fsExec' = "ok" /\ fsRequest'[1] = "write" => InFile(fsRequest)'
      BY <1>1, <2>1, <3>1 DEF FsOrdered, InFile
    <3>7. QED BY <3>2, <3>3, <3>4, <3>5, <3>6 DEF FsOrdered, Preceding
  <2>4. QED BY <1>1, <2>2, <2>3 DEF FsInv
<1>4. QED BY <1>2, <1>3 DEF FsRunStray, fsSandbox

LEMMA FsStep == FsInv /\ [FsNext]_fsVars => FsInv'
<1> SUFFICES ASSUME FsInv, [FsNext]_fsVars PROVE FsInv'
  OBVIOUS
<1>1. CASE UNCHANGED fsVars
  <2>1. /\ FsTyped
        /\ UNCHANGED <<fsPc, fsOpened, fsMode, fsClosed, fsRequest, fsChunks, fsWrites, fsExec,
                        fsStray, fsFd, fsFile, fsAcked, fsCut>>
    BY <1>1 DEF fsVars, FsInv
  <2>2. FsTyped'
    BY <2>1 DEF FsTyped, FsTypeOK
  <2>3. ~fsCut => FsOrdered'
    BY <2>1, ClientOrdered DEF FsInv
  <2>4. QED BY <2>1, <2>2, <2>3 DEF FsInv
<1>2. CASE \E letter \in {"r", "w", "a", "x"}, plus \in BOOLEAN : FsOpen(letter, plus)
  BY <1>2, FsOpenStep
<1>3. CASE \E chunks \in 1..MaxChunks : FsWrite(chunks)
  BY <1>3, FsWriteStep
<1>4. CASE FsPathOp \/ \E op \in FileOps : FsFileOp(op)
  BY <1>4, FsPlainStep DEF FsPathOp, FsFileOp
<1>5. QED BY <1>1, <1>2, <1>3, <1>4, FsAcceptedStep, FsRefusedStep, FsOutputStep, FsOutputCutStep,
             FsOutputFailsStep, FsRunStep, FsRunStrayStep DEF FsNext

(* The types of a file, and which chunks of a write are in it: the log is  *)
(* in order up to the chunk whose exec is awaited.                         *)
THEOREM FsInvariant == FsSpec => []FsInv
BY FsInitInv, FsStep, PTL DEF FsSpec

(* The chunks of a write come to the file one after the other, and a write *)
(* that returned Ok is there to its end, unless an output was cut short    *)
(* (sandbox_filesystem.rs:487-496).                                        *)
THEOREM FilesAreWrittenInOrder == FsSpec => []WritesAreInOrder
<1>1. ASSUME FsInv PROVE WritesAreInOrder
  <2>1. DOMAIN fsFile = 1..Len(fsFile)
    BY <1>1, LenProperties DEF FsInv, FsTyped, FsTypeOK
  <2>2. QED BY <1>1, <2>1 DEF FsInv, FsOrdered, InFile, Preceding, WritesAreInOrder
<1>2. QED BY <1>1, FsInvariant, PTL
-----------------------------------------------------------------------------
(* Where the parts are put together, each of them behaves as it does       *)
(* alone: the steps of the others leave it as it is.                       *)
LEMMA PartsBehave == SandboxSpec => Spec /\ ImgSpec /\ SbxSpec /\ FsSpec /\ WaitSpec
<1>1. SandboxInit => Init /\ ImgInit /\ SbxInit /\ FsInit /\ WaitInit
  BY DEF SandboxInit
<1>2. [SandboxNext]_sandboxVars =>
         [Next]_vars /\ [ImgNext]_imgVars /\ [SbxNext]_sbxVars /\ [FsNext]_fsVars /\ [WaitNext]_waitVars
  BY DEF SandboxNext, sandboxVars
<1>3. QED BY <1>1, <1>2, PTL DEF SandboxSpec, Spec, ImgSpec, SbxSpec, FsSpec, WaitSpec

(* The part that is followed keeps its types.                              *)
THEOREM SandboxTypesHold == SandboxSpec => []SandboxTypeOK
<1>1. TypeOK /\ ImgTypeOK /\ SbxTypeOK /\ FsInv /\ WaitInv => SandboxTypeOK
  BY DEF SandboxTypeOK, FsInv, FsTyped, WaitInv
<1>2. QED BY <1>1, PartsBehave, StreamsTyped, ImagesTyped, SandboxesTyped, FsInvariant, WaitInvariant, PTL

(* What is reported of a sandbox and of a process in it is true of it: no  *)
(* call makes up an end or an exit code.                                   *)
THEOREM ReportsAlwaysHold == SandboxSpec => []ReportsHold
<1>1. ReportsAreTrue /\ ExitCodesAreTrue => ReportsHold
  BY DEF ReportsHold
<1>2. QED BY <1>1, PartsBehave, CallsReportTheTruth, ExitCodesAreNeverMadeUp, PTL

(* And so is the rest of what is proved of the parts, about the same       *)
(* behaviours the model checker goes through.                              *)
THEOREM PartsKeepTheirWord ==
    SandboxSpec => [](StreamsAreIntact /\ BuiltAsDescribed /\ ListMissesOnlyTies /\ WritesAreInOrder)
BY PartsBehave, StreamsAreNeverGarbled, BuildsWhatWasDescribed, ListIsComplete,
   FilesAreWrittenInOrder, PTL

(* Among them, the streams of the process implement ByteStreams.           *)
THEOREM StreamsAreImplemented == SandboxSpec => ImplementsByteStreams
BY PartsBehave, StreamsRefinement, PTL

(* And a build, a create and a list move on, whatever the other parts do.  *)
THEOREM PartsMoveOn == SandboxSpec => BuildComesToAnEnd /\ CreateAndListComeToAnEnd
BY PartsBehave, BuildsMoveOn, CreateAndListMoveOn, PTL
=============================================================================
