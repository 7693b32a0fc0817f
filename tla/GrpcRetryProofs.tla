--------------------------- MODULE GrpcRetryProofs ---------------------------
(***************************************************************************)
(* Proofs about the retry loop, for any number of calls, any retry budget  *)
(* and any set of status codes.                                            *)
(***************************************************************************)
EXTENDS GrpcRetryRefinement, FiniteSetTheorems, WellFoundedInduction, TLAPS

(* The inductive invariant.  OnlySentAttempts is what makes an attempt     *)
(* that is delivered count once; IdleIsFresh and the last conjunct tie the *)
(* program counter to the result the caller is given.                      *)
IInv ==
    /\ TypeOK
    /\ ErrorIsJustified
    /\ OnlySentAttempts
    /\ \A c \in Calls : /\ pc[c] = "idle" => attempt[c] = 0
                        /\ pc[c] # "done" <=> result[c] = "none"

(* The initial state satisfies the inductive invariant: no call has been   *)
(* made and the network is empty.                                          *)
LEMMA InitIInv == Init => IInv
BY RetryAssumption
DEF Init, IInv, TypeOK, ErrorIsJustified, OnlySentAttempts, Attempts, Codes, RetryableCodes

(* The next sleep is a natural number, so the delay keeps its type.        *)
LEMMA NextDelayNat == ASSUME NEW d \in Nat PROVE NextDelay(d) \in Nat
BY RetryAssumption DEF NextDelay

(* A step of retry_call_async on behalf of one call keeps the invariant.   *)
LEMMA ClientKeepsIInv ==
    ASSUME IInv, NEW c \in Calls, Client(c) PROVE IInv'
<1> USE RetryAssumption DEF IInv, TypeOK, ErrorIsJustified, OnlySentAttempts, Attempts
<1>1. CASE Begin(c)
  BY <1>1 DEF Begin
<1>2. CASE Succeed(c)
  BY <1>2 DEF Succeed, Codes, RetryableCodes
<1>3. ASSUME NEW code \in Codes, Fail(c, code) PROVE IInv'
  <2>1. CASE CanRetry(code, attempt[c])
    BY <1>3, <2>1 DEF Fail, CanRetry
  <2>2. CASE ~CanRetry(code, attempt[c])
    <3>1. code \notin RetryableCodes \/ attempt[c] = MaxRetries
      BY <2>2 DEF CanRetry
    <3>2. TypeOK'
      BY <1>3, <2>2 DEF Fail
    <3>3. ErrorIsJustified'
      BY <1>3, <2>2, <3>1 DEF Fail
    <3>4. OnlySentAttempts'
      BY <1>3, <2>2 DEF Fail
    <3>5. \A d \in Calls : /\ pc'[d] = "idle" => attempt'[d] = 0
                           /\ pc'[d] # "done" <=> result'[d] = "none"
      BY <1>3, <2>2 DEF Fail, Codes
    <3>6. QED BY <3>2, <3>3, <3>4, <3>5
  <2>3. QED BY <2>1, <2>2
<1>4. CASE Wake(c)
  <2>1. /\ attempt[c] < MaxRetries
        /\ attempt[c] + 1 \in Attempts
        /\ attempt[c] + 1 \notin applied[c] \cup inflight[c]
    BY <1>4 DEF Wake
  <2>2. TypeOK'
    BY <1>4, <2>1, NextDelayNat DEF Wake, NextAttempt
  <2>3. ErrorIsJustified' /\ OnlySentAttempts'
    BY <1>4, <2>1 DEF Wake, NextAttempt
  <2>4. \A d \in Calls : /\ pc'[d] = "idle" => attempt'[d] = 0
                         /\ pc'[d] # "done" <=> result'[d] = "none"
    BY <1>4 DEF Wake
  <2>5. QED BY <2>2, <2>3, <2>4
<1>5. QED BY <1>1, <1>2, <1>3, <1>4 DEF Client

(* A step of the network or of the server keeps the invariant.             *)
LEMMA NetworkKeepsIInv ==
    ASSUME IInv, NEW c \in Calls, Network(c) PROVE IInv'
<1> USE DEF IInv, TypeOK, ErrorIsJustified, OnlySentAttempts, Attempts
<1>1. PICK a \in inflight[c] : Deliver(c, a) \/ Lose(c, a)
  BY DEF Network
<1>2. CASE Deliver(c, a)
  BY <1>1, <1>2 DEF Deliver
<1>3. CASE Lose(c, a)
  BY <1>1, <1>3 DEF Lose
<1>4. QED BY <1>1, <1>2, <1>3

LEMMA InductiveIInv == Spec => []IInv
<1>1. IInv /\ [Next]_vars => IInv'
  <2>1. ASSUME IInv, Next PROVE IInv'
    BY <2>1, ClientKeepsIInv, NetworkKeepsIInv DEF Next
  <2>2. ASSUME IInv, UNCHANGED vars PROVE IInv'
    BY <2>2 DEF IInv, TypeOK, ErrorIsJustified, OnlySentAttempts, vars
  <2>3. QED BY <2>1, <2>2
<1>2. QED BY InitIInv, <1>1, PTL DEF Spec

(* Type correctness of the retry loop.                                     *)
THEOREM TypeCorrect == Spec => []TypeOK
BY InductiveIInv, PTL DEF IInv

(* A transient status reaches the caller of retry_call_async only after    *)
(* MaxRetries + 1 attempts, and any other status ends the call that it was *)
(* the answer to (interceptors.rs:189-197).                                *)
THEOREM ErrorsAreJustified == Spec => []ErrorIsJustified
BY InductiveIInv, PTL DEF IInv

(* Every request in the network, and every execution on the server, is an  *)
(* attempt the loop really made, and no attempt is executed twice.         *)
THEOREM NothingUnsent == Spec => []OnlySentAttempts
BY InductiveIInv, PTL DEF IInv
-----------------------------------------------------------------------------
(* The number of executions is a natural number bounded by the budget.     *)
LEMMA AppliedIsFinite ==
    ASSUME IInv, NEW c \in Calls
    PROVE  /\ IsFiniteSet(applied[c])
           /\ Cardinality(applied[c]) \in Nat
           /\ Cardinality(applied[c]) <= MaxRetries + 1
<1>1. IsFiniteSet(Attempts) /\ Cardinality(Attempts) = MaxRetries + 1
  BY RetryAssumption, FS_Interval DEF Attempts
<1>2. applied[c] \subseteq Attempts
  BY DEF IInv, TypeOK
<1>3. QED BY <1>1, <1>2, FS_Subset, FS_CardinalityType

(* An attempt that is delivered adds exactly one execution, and there was  *)
(* room for it: it was not yet among the MaxRetries + 1 possible ones.     *)
LEMMA DeliverAddsOne ==
    ASSUME IInv, NEW c \in Calls, NEW a \in inflight[c]
    PROVE  /\ Cardinality(applied[c] \cup {a}) = Cardinality(applied[c]) + 1
           /\ Cardinality(applied[c]) < MaxRetries + 1
<1>1. a \notin applied[c]
  BY DEF IInv, OnlySentAttempts
<1>2. IsFiniteSet(applied[c]) /\ Cardinality(applied[c]) \in Nat
  BY AppliedIsFinite
<1>3. Cardinality(applied[c] \cup {a}) = Cardinality(applied[c]) + 1
  BY <1>1, <1>2, FS_AddElement
<1>4. IsFiniteSet(Attempts) /\ Cardinality(Attempts) = MaxRetries + 1
  BY RetryAssumption, FS_Interval DEF Attempts
<1>5. applied[c] \cup {a} \subseteq Attempts
  BY DEF IInv, TypeOK
<1>6. Cardinality(applied[c] \cup {a}) <= MaxRetries + 1
  BY <1>4, <1>5, FS_Subset
<1>7. QED BY <1>2, <1>3, <1>6, RetryAssumption

(* A call that the server has executed has a positive count.               *)
LEMMA AppliedIsPositive ==
    ASSUME IInv, NEW c \in Calls, applied[c] # {}
    PROVE  Cardinality(applied[c]) > 0
BY AppliedIsFinite, FS_EmptySet

(* Every step of the loop, of the network and of the server is a step of   *)
(* RpcCall or leaves its variables alone.                                  *)
LEMMA StepRefines == IInv /\ [Next]_vars => [Rpc!Next]_(Rpc!rvars)
<1> USE DEF Rpc!rvars, statusBar, effectsBar
<1>1. ASSUME IInv, UNCHANGED vars PROVE UNCHANGED Rpc!rvars
  BY <1>1 DEF vars
<1>2. ASSUME IInv, NEW c \in Calls, Begin(c) PROVE Rpc!Begin(c)
  BY <1>2 DEF IInv, TypeOK, Begin, Rpc!Begin
<1>3. ASSUME IInv, NEW c \in Calls, Succeed(c) PROVE Rpc!ReturnOk(c)
  <2>1. effectsBar[c] > 0
    BY <1>3, AppliedIsPositive DEF Succeed
  <2>2. QED BY <1>3, <2>1 DEF IInv, TypeOK, Succeed, Rpc!ReturnOk
<1>4. ASSUME IInv, NEW c \in Calls, NEW code \in Codes, Fail(c, code)
      PROVE  Rpc!ReturnErr(c) \/ UNCHANGED Rpc!rvars
  <2>1. CASE CanRetry(code, attempt[c])
    <3>1. UNCHANGED statusBar
      BY <1>4, <2>1 DEF Fail, IInv, TypeOK
    <3>2. QED BY <1>4, <3>1 DEF Fail
  <2>2. CASE ~CanRetry(code, attempt[c])
    <3>1. /\ pc[c] = "sent" /\ code # "ok" /\ UNCHANGED <<attempt, delay, inflight, applied>>
          /\ pc' = [pc EXCEPT ![c] = "done"] /\ result' = [result EXCEPT ![c] = code]
      BY <1>4, <2>2, RetryAssumption DEF Fail
    <3>2. statusBar[c] = "pending" /\ statusBar' = [statusBar EXCEPT ![c] = "err"]
      BY <1>4, <3>1 DEF IInv, TypeOK
    <3>3. UNCHANGED effectsBar
      BY <3>1
    <3>4. QED BY <3>2, <3>3 DEF Rpc!ReturnErr
  <2>3. QED BY <2>1, <2>2
<1>5. ASSUME IInv, NEW c \in Calls, Wake(c) PROVE UNCHANGED Rpc!rvars
  <2>1. UNCHANGED statusBar
    BY <1>5 DEF IInv, TypeOK, Wake
  <2>2. QED BY <1>5, <2>1 DEF Wake
<1>6. ASSUME IInv, NEW c \in Calls, NEW a \in inflight[c], Deliver(c, a)
      PROVE  Rpc!Apply(c)
  <2>1. pc[c] # "idle"
    BY <1>6 DEF IInv, OnlySentAttempts
  <2>2. statusBar[c] # "idle"
    BY <1>6, <2>1 DEF IInv, TypeOK
  <2>3. effectsBar[c] < MaxRetries + 1
    BY <1>6, DeliverAddsOne
  <2>4. effectsBar' = [effectsBar EXCEPT ![c] = @ + 1]
    BY <1>6, DeliverAddsOne DEF Deliver, IInv, TypeOK
  <2>5. QED BY <1>6, <2>2, <2>3, <2>4 DEF Deliver, Rpc!Apply
<1>7. ASSUME IInv, NEW c \in Calls, NEW a \in inflight[c], Lose(c, a)
      PROVE  UNCHANGED Rpc!rvars
  BY <1>7 DEF Lose
<1>8. QED
  BY <1>1, <1>2, <1>3, <1>4, <1>5, <1>6, <1>7
  DEF Next, Client, Network, Rpc!Next

(* The promise of a retried RPC: a call that returned Ok was executed, and *)
(* no call is executed more than MaxRetries + 1 times, whatever the        *)
(* network loses or delays (interceptors.rs:171-203).                      *)
THEOREM Refinement == Spec => ImplementsRpcCall
<1>1. Init => Rpc!Init
  BY FS_EmptySet DEF Init, Rpc!Init, statusBar, effectsBar
<1>2. QED BY <1>1, StepRefines, InductiveIInv, PTL DEF Spec, ImplementsRpcCall, Rpc!Spec
-----------------------------------------------------------------------------
(***************************************************************************)
(* The schedule of the sleeps.  It is compared with a recursive function,  *)
(* so it takes an induction over the natural numbers; this one is stated   *)
(* about sets of numbers, and rests on the inclusion of finite sets being  *)
(* well founded.                                                           *)
(***************************************************************************)

(* A nonempty set of numbers up to m has a least element.                  *)
LEMMA LeastElement ==
    ASSUME NEW m \in Nat, NEW M \in SUBSET (0..m), M # {}
    PROVE  \E x \in M : \A y \in M : x <= y
<1> DEFINE W == SUBSET (0..m)
           Upto == {0..k : k \in M}
           R == StrictSubsetOrdering(0..m)
<1>1. IsFiniteSet(0..m)
  BY FS_Interval
<1>2. IsWellFoundedOn(R, FiniteSubsetsOf(0..m)) /\ FiniteSubsetsOf(0..m) = W
  BY <1>1, FS_StrictSubsetOrderingWellFounded, FS_FiniteSubsetsOfFinite
<1>3. IsWellFoundedOn(R, W)
  BY <1>2
<1>4. Upto \subseteq W /\ Upto # {}
  <2>1. ASSUME NEW U \in Upto PROVE U \in W
    <3>1. PICK k \in M : U = 0..k
      OBVIOUS
    <3>2. k \in 0..m
      OBVIOUS
    <3>3. 0..k \subseteq 0..m
      BY <3>2
    <3>4. QED BY <3>1, <3>3
  <2>2. PICK k \in M : TRUE
    OBVIOUS
  <2>3. 0..k \in Upto
    BY <2>2
  <2>4. QED BY <2>1, <2>3
<1> HIDE DEF Upto, W, R
<1>5. PICK U \in Upto : \A V \in Upto : ~(<<V, U>> \in R)
  BY <1>3, <1>4, WFMin
<1>6. PICK x \in M : U = 0..x
  BY <1>5 DEF Upto
<1>7. ASSUME NEW y \in M, y < x PROVE FALSE
  <2>1. 0..y \in Upto
    BY DEF Upto
  <2>2. 0..y \in SUBSET (0..m) /\ 0..x \in SUBSET (0..m) /\ 0..y \subseteq 0..x /\ 0..y # 0..x
    <3>1. x \in 0..x /\ x \notin 0..y
      BY <1>7
    <3>2. QED BY <1>7, <3>1
  <2>3. <<0..y, 0..x>> \in R
    BY <2>2 DEF R, StrictSubsetOrdering
  <2>4. QED BY <1>5, <1>6, <2>1, <2>3
<1>8. QED BY <1>7

(* Induction: a set that contains 0 and the successor of each of its       *)
(* elements contains every natural number.                                 *)
LEMMA SetInduction ==
    ASSUME NEW T \in SUBSET Nat, 0 \in T, \A n \in T : n + 1 \in T
    PROVE  T = Nat
<1> SUFFICES ASSUME NEW m \in Nat, m \notin T PROVE FALSE
  OBVIOUS
<1> DEFINE M == {k \in 0..m : k \notin T}
<1>1. m \in M
  OBVIOUS
<1>2. PICK x \in M : \A y \in M : x <= y
  <2>1. M \in SUBSET (0..m) /\ M # {}
    BY <1>1
  <2> HIDE DEF M
  <2>2. QED BY <2>1, LeastElement
<1>3. x # 0 /\ x - 1 \in 0..m
  BY <1>2
<1>4. x - 1 \in T
  BY <1>2, <1>3
<1>5. QED BY <1>2, <1>3, <1>4

(* The first m + 1 values of the uncapped schedule, as a function.         *)
Prefixes(m) ==
    {g \in [0..m -> Nat] : /\ g[0] = BaseDelay
                           /\ \A k \in 1..m : g[k] = g[k - 1] * BackoffFactor}

\* Each prefix exists.
LEMMA PrefixExists == \A m \in Nat : Prefixes(m) # {}
<1> DEFINE T == {m \in Nat : Prefixes(m) # {}}
<1>1. 0 \in T
  <2>1. [k \in 0..0 |-> BaseDelay] \in Prefixes(0)
    BY RetryAssumption DEF Prefixes
  <2>2. QED BY <2>1
<1>2. ASSUME NEW m \in T PROVE m + 1 \in T
  <2>1. PICK g \in Prefixes(m) : TRUE
    OBVIOUS
  <2> DEFINE h == [k \in 0..(m + 1) |-> IF k = m + 1 THEN g[m] * BackoffFactor ELSE g[k]]
  <2>2. g \in [0..m -> Nat] /\ g[0] = BaseDelay /\ \A k \in 1..m : g[k] = g[k - 1] * BackoffFactor
    BY <2>1 DEF Prefixes
  <2>3. g[m] * BackoffFactor \in Nat
    BY <2>2, RetryAssumption
  <2>4. h \in [0..(m + 1) -> Nat]
    BY <2>2, <2>3
  <2>5. h[0] = BaseDelay
    BY <2>2
  <2>6. ASSUME NEW k \in 1..(m + 1) PROVE h[k] = h[k - 1] * BackoffFactor
    <3>1. CASE k = m + 1
      BY <3>1
    <3>2. CASE k # m + 1
      <4>1. k \in 1..m /\ k - 1 \in 0..m /\ k - 1 # m + 1 /\ k \in 0..(m + 1) /\ k - 1 \in 0..(m + 1)
        BY <3>2
      <4>2. h[k] = g[k] /\ h[k - 1] = g[k - 1]
        BY <3>2, <4>1
      <4>3. QED BY <2>2, <4>1, <4>2
    <3>3. QED BY <3>1, <3>2
  <2>7. h \in Prefixes(m + 1)
    BY <2>4, <2>5, <2>6 DEF Prefixes
  <2>8. QED BY <2>7
<1> HIDE DEF T
<1>3. T = Nat
  <2>1. T \in SUBSET Nat
    BY DEF T
  <2>2. QED BY <1>1, <1>2, <2>1, SetInduction
<1>4. QED BY <1>3 DEF T

\* Two prefixes agree where both are defined.
LEMMA PrefixesAgree ==
    ASSUME NEW m \in Nat, NEW n \in Nat, NEW g \in Prefixes(m), NEW h \in Prefixes(n)
    PROVE  \A k \in (0..m) \cap (0..n) : g[k] = h[k]
<1> DEFINE T == {k \in Nat : k \in (0..m) \cap (0..n) => g[k] = h[k]}
<1>1. 0 \in T
  BY DEF Prefixes
<1>2. ASSUME NEW k \in T PROVE k + 1 \in T
  <2> SUFFICES ASSUME k + 1 \in (0..m) \cap (0..n) PROVE g[k + 1] = h[k + 1]
    OBVIOUS
  <2>1. k \in (0..m) \cap (0..n) /\ k + 1 \in 1..m /\ k + 1 \in 1..n /\ (k + 1) - 1 = k
    OBVIOUS
  <2>2. g[k] = h[k]
    BY <2>1
  <2>3. g[k + 1] = g[k] * BackoffFactor /\ h[k + 1] = h[k] * BackoffFactor
    BY <2>1 DEF Prefixes
  <2>4. QED BY <2>2, <2>3
<1> HIDE DEF T
<1>3. T = Nat
  <2>1. T \in SUBSET Nat
    BY DEF T
  <2>2. QED BY <1>1, <1>2, <2>1, SetInduction
<1>4. QED BY <1>3 DEF T

\* So the recursive definition of Uncapped has a solution, and Uncapped is one.
LEMMA UncappedUnfolds ==
    \A k \in Nat : Uncapped[k] = IF k = 0 THEN BaseDelay ELSE Uncapped[k - 1] * BackoffFactor
<1> DEFINE G(m) == CHOOSE g \in Prefixes(m) : TRUE
           f == [k \in Nat |-> G(k)[k]]
<1>1. ASSUME NEW m \in Nat PROVE G(m) \in Prefixes(m)
  BY PrefixExists
<1> HIDE DEF G
<1>2. ASSUME NEW k \in Nat PROVE f[k] = IF k = 0 THEN BaseDelay ELSE f[k - 1] * BackoffFactor
  <2>1. CASE k = 0
    BY <1>1, <2>1 DEF Prefixes
  <2>2. CASE k # 0
    <3>1. k - 1 \in Nat /\ k \in 1..k /\ k - 1 \in (0..(k - 1)) \cap (0..k)
      BY <2>2
    <3>2. G(k)[k] = G(k)[k - 1] * BackoffFactor
      BY <1>1, <3>1 DEF Prefixes
    <3>3. G(k)[k - 1] = G(k - 1)[k - 1]
      BY <1>1, <3>1, PrefixesAgree
    <3>4. QED BY <2>2, <3>1, <3>2, <3>3
  <2>3. QED BY <2>1, <2>2
<1>3. f = [k \in Nat |-> IF k = 0 THEN BaseDelay ELSE f[k - 1] * BackoffFactor]
  BY <1>2
<1> HIDE DEF f
<1>4. Uncapped = [k \in Nat |-> IF k = 0 THEN BaseDelay ELSE Uncapped[k - 1] * BackoffFactor]
  BY <1>3 DEF Uncapped
<1>5. QED BY <1>4

LEMMA UncappedNat == \A k \in Nat : Uncapped[k] \in Nat
<1> DEFINE T == {k \in Nat : Uncapped[k] \in Nat}
<1>1. 0 \in T
  BY UncappedUnfolds, RetryAssumption
<1>2. ASSUME NEW k \in T PROVE k + 1 \in T
  <2>1. k + 1 \in Nat /\ k + 1 # 0 /\ (k + 1) - 1 = k
    OBVIOUS
  <2>2. Uncapped[k + 1] = Uncapped[k] * BackoffFactor
    BY <2>1, UncappedUnfolds
  <2>3. QED BY <2>1, <2>2, RetryAssumption
<1> HIDE DEF T
<1>3. T = Nat
  <2>1. T \in SUBSET Nat
    BY DEF T
  <2>2. QED BY <1>1, <1>2, <2>1, SetInduction
<1>4. QED BY <1>3 DEF T

(* A delay that was cut off grows to the same next delay as one that was   *)
(* not: either the cap is reached again, or the factor or the cap is zero. *)
LEMMA CapDoesNotDisturb ==
    ASSUME NEW u \in Nat, u >= MaxDelay
    PROVE  NextDelay(MaxDelay) = NextDelay(u)
<1>1. CASE BackoffFactor = 0
  BY <1>1, RetryAssumption DEF NextDelay
<1>2. CASE BackoffFactor # 0
  <2>1. PICK b \in Nat : BackoffFactor = b + 1
    <3>1. BackoffFactor - 1 \in Nat /\ BackoffFactor = (BackoffFactor - 1) + 1
      BY <1>2, RetryAssumption
    <3>2. QED BY <3>1
  <2>2. \A x \in Nat : x * BackoffFactor \in Nat /\ x * BackoffFactor >= x
    <3>1. SUFFICES ASSUME NEW x \in Nat
                   PROVE  x * BackoffFactor \in Nat /\ x * BackoffFactor >= x
      OBVIOUS
    <3>2. x * BackoffFactor = x * b + x /\ x * b \in Nat
      BY <2>1
    <3>3. QED BY <3>2
  <2>3. MaxDelay * BackoffFactor >= MaxDelay /\ u * BackoffFactor >= MaxDelay
    BY <2>2, RetryAssumption
  <2>4. QED BY <2>2, <2>3, RetryAssumption DEF NextDelay
<1>3. QED BY <1>1, <1>2

(* The k-th sleep of retry_call_async is BaseDelay * BackoffFactor^k, cut  *)
(* off at MaxDelay from the second on, for every configuration             *)
(* (interceptors.rs:193-195).                                              *)
THEOREM SleepsFollowTheSchedule == Spec => []BackoffSchedule
<1>1. Init => BackoffSchedule
  <2>1. Uncapped[0] = BaseDelay
    BY UncappedUnfolds
  <2>2. ASSUME Init, NEW c \in Calls
        PROVE  attempt[c] = 0 /\ delay[c] = Uncapped[attempt[c]]
    BY <2>1, <2>2 DEF Init
  <2>3. QED BY <2>2 DEF BackoffSchedule
<1>2. ASSUME IInv, BackoffSchedule, NEW c \in Calls, Wake(c) PROVE BackoffSchedule'
  <2> DEFINE a == attempt[c]
  <2>1. a \in Nat /\ a + 1 # 0 /\ (a + 1) - 1 = a
    <3>1. a \in 0..MaxRetries
      BY <1>2 DEF IInv, TypeOK, Attempts
    <3>2. QED BY <3>1, RetryAssumption
  <2>2. Uncapped[a] \in Nat /\ Uncapped[a + 1] = Uncapped[a] * BackoffFactor
    BY <2>1, UncappedNat, UncappedUnfolds
  <2>3. NextDelay(delay[c]) = NextDelay(Uncapped[a])
    <3>1. CASE a = 0 \/ Uncapped[a] < MaxDelay
      BY <1>2, <3>1 DEF BackoffSchedule
    <3>2. CASE ~(a = 0 \/ Uncapped[a] < MaxDelay)
      <4>1. delay[c] = MaxDelay
        BY <1>2, <3>2 DEF BackoffSchedule
      <4>2. Uncapped[a] >= MaxDelay
        BY <2>2, <3>2, RetryAssumption
      <4>3. QED BY <2>2, <4>1, <4>2, CapDoesNotDisturb
    <3>3. QED BY <3>1, <3>2
  <2>4. /\ attempt' = [attempt EXCEPT ![c] = a + 1]
        /\ delay' = [delay EXCEPT ![c] = NextDelay(Uncapped[a])]
    BY <1>2, <2>3 DEF Wake, NextAttempt
  <2>5. NextDelay(Uncapped[a]) = IF Uncapped[a + 1] < MaxDelay THEN Uncapped[a + 1] ELSE MaxDelay
    BY <2>2 DEF NextDelay
  <2> HIDE DEF a
  <2>6. QED BY <1>2, <2>1, <2>4, <2>5 DEF BackoffSchedule, IInv, TypeOK
<1>3. ASSUME BackoffSchedule, UNCHANGED <<attempt, delay>> PROVE BackoffSchedule'
  BY <1>3 DEF BackoffSchedule
<1>4. ASSUME IInv, [Next]_vars PROVE (\E c \in Calls : Wake(c)) \/ UNCHANGED <<attempt, delay>>
  BY <1>4 DEF Next, Client, Network, Begin, Succeed, Fail, Deliver, Lose, vars
<1>5. IInv /\ BackoffSchedule /\ [Next]_vars => BackoffSchedule'
  BY <1>2, <1>3, <1>4
<1>6. QED BY <1>1, <1>5, InductiveIInv, PTL DEF Spec
-----------------------------------------------------------------------------
(* How many steps of its own a call can still take.                        *)
StepsLeft(c) ==
    2 * (MaxRetries - attempt[c])
        + (CASE pc[c] = "idle" -> 3 [] pc[c] = "sent" -> 2 [] pc[c] = "backoff" -> 1 [] pc[c] = "done" -> 0)

(* What CallReturns rests on: a call only comes closer to its end, and     *)
(* neither the network nor another call ever takes it back.                *)
ComesToAnEnd == [][\A c \in Calls : pc'[c] # pc[c] => StepsLeft(c)' < StepsLeft(c)]_vars

(* The step of a call brings it closer to its end.                         *)
LEMMA StepsCountDown ==
    ASSUME IInv, NEW c \in Calls, Client(c)
    PROVE  /\ StepsLeft(c)' < StepsLeft(c)
           /\ \A d \in Calls : d # c => pc'[d] = pc[d]
<1> USE RetryAssumption DEF IInv, TypeOK, Attempts, StepsLeft
<1>1. CASE Begin(c) \/ Succeed(c)
  BY <1>1 DEF Begin, Succeed
<1>2. ASSUME NEW code \in Codes, Fail(c, code)
      PROVE  /\ StepsLeft(c)' < StepsLeft(c)
             /\ \A d \in Calls : d # c => pc'[d] = pc[d]
  <2>1. pc[c] = "sent" /\ attempt' = attempt
    BY <1>2 DEF Fail
  <2>2. pc' = [pc EXCEPT ![c] = "backoff"] \/ pc' = [pc EXCEPT ![c] = "done"]
    BY <1>2 DEF Fail
  <2>3. QED BY <2>1, <2>2
<1>3. CASE Wake(c)
  <2>1. attempt[c] \in 0..MaxRetries /\ attempt'[c] = attempt[c] + 1 /\ pc[c] = "backoff" /\ pc'[c] = "sent"
    BY <1>3 DEF Wake, NextAttempt
  <2>2. \A d \in Calls : d # c => pc'[d] = pc[d]
    BY <1>3 DEF Wake
  <2>3. QED BY <2>1, <2>2
<1>4. QED BY <1>1, <1>2, <1>3 DEF Client

(* Every call ends within 2 * MaxRetries + 3 steps of its own, whatever    *)
(* the network loses, delays or answers, for any number of calls           *)
(* (interceptors.rs:179-199).                                              *)
THEOREM CallsMoveOn == Spec => ComesToAnEnd
<1>1. ASSUME IInv, [Next]_vars
      PROVE  \A c \in Calls : pc'[c] # pc[c] => StepsLeft(c)' < StepsLeft(c)
  <2>1. ASSUME NEW d \in Calls, Network(d) PROVE UNCHANGED pc
    BY <2>1 DEF Network, Deliver, Lose
  <2>2. ASSUME NEW d \in Calls, Client(d)
        PROVE  \A c \in Calls : pc'[c] # pc[c] => StepsLeft(c)' < StepsLeft(c)
    BY <1>1, <2>2, StepsCountDown
  <2>3. CASE UNCHANGED vars
    BY <2>3 DEF vars
  <2>4. QED BY <1>1, <2>1, <2>2, <2>3 DEF Next
<1>2. IInv /\ [Next]_vars => [\A c \in Calls : pc'[c] # pc[c] => StepsLeft(c)' < StepsLeft(c)]_vars
  BY <1>1
<1>3. QED BY <1>2, InductiveIInv, PTL DEF Spec, ComesToAnEnd
=============================================================================
