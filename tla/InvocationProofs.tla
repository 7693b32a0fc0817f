-------------------------- MODULE InvocationProofs --------------------------
(***************************************************************************)
(* Proofs about awaiting and retrying a function call, for any number of   *)
(* getters, any retry budget and any timeouts.                             *)
(***************************************************************************)
EXTENDS Invocation, TLAPS

(* A caller has a result exactly when it has returned; the retry budget is *)
(* untouched before the call exists and not exceeded while a retry is due. *)
ResultIffDone == \A w \in Callers : pc[w] = "done" <=> result[w] # "none"

BudgetBeforeRetry ==
    /\ pc[Owner] = "idle" => retryCount = 0 /\ internals = 0
    /\ pc[Owner] = "retrying" => retryCount <= MaxSystemRetries

IInv ==
    /\ TypeOK
    /\ RetryBudget
    /\ BudgetBeforeRetry
    /\ ResultIffDone
    /\ PollWithinDeadline
    /\ ExpiryIsEarned

(* The length of a poll is a number of units no larger than what is left   *)
(* until the deadline.                                                     *)
LEMMA PollTimeoutBounded ==
    ASSUME NEW l \in Nat \cup {Forever}
    PROVE  PollTimeout(l) \in Nat /\ (l # Forever => PollTimeout(l) <= l)
BY InvocationAssumption DEF PollTimeout, Forever

(* A unit of time keeps the poll inside the deadline.                      *)
LEMMA CountDownBounded ==
    ASSUME NEW l \in Nat \cup {Forever}, NEW p \in Nat, l # Forever => p <= l
    PROVE  /\ CountDown(l) \in Nat \cup {Forever} /\ CountDown(p) \in Nat
           /\ CountDown(l) # Forever => CountDown(p) <= CountDown(l)
BY DEF CountDown, Forever

LEMMA InitIInv == Init => IInv
<1> SUFFICES ASSUME Init PROVE IInv
  OBVIOUS
<1> USE InvocationAssumption DEF Init, Callers, Forever
<1>1. TypeOK
  <2>1. retryCount \in 0..(MaxSystemRetries + 1)
    OBVIOUS
  <2>2. QED BY <2>1 DEF TypeOK
<1>2. RetryBudget /\ BudgetBeforeRetry
  BY DEF RetryBudget, BudgetBeforeRetry
<1>3. ResultIffDone /\ PollWithinDeadline /\ ExpiryIsEarned
  BY DEF ResultIffDone, PollWithinDeadline, ExpiryIsEarned
<1>4. QED BY <1>1, <1>2, <1>3 DEF IInv

(* A caller that starts a poll with l units left stays within its          *)
(* deadline.                                                               *)
LEMMA StartPollingStep ==
    ASSUME IInv, NEW w \in Callers, NEW l \in Nat \cup {Forever}, StartPolling(w, l),
           UNCHANGED result, pc[w] # "done"
    PROVE  /\ pc' \in [Callers -> {"idle", "polling", "retrying", "done"}]
           /\ left' \in [Callers -> Nat \cup {Forever}] /\ pollLeft' \in [Callers -> Nat]
           /\ ResultIffDone' /\ PollWithinDeadline' /\ ExpiryIsEarned'
BY PollTimeoutBounded
DEF IInv, TypeOK, StartPolling, ResultIffDone, PollWithinDeadline, ExpiryIsEarned

(* A caller that returns r keeps its timers, so its deadline is respected; *)
(* r may be "expired" only when nothing is left.                           *)
LEMMA ReturnStep ==
    ASSUME IInv, NEW w \in Callers, pc[w] # "done",
           NEW r \in {"ok", "error", "timeout", "remote", "internal", "expired"},
           Return(w, r), UNCHANGED timers, r = "expired" => left[w] = 0
    PROVE  /\ pc' \in [Callers -> {"idle", "polling", "retrying", "done"}]
           /\ result' \in [Callers -> {"none", "ok", "error", "timeout", "remote",
                                       "internal", "expired"}]
           /\ left' = left /\ pollLeft' = pollLeft
           /\ ResultIffDone' /\ PollWithinDeadline' /\ ExpiryIsEarned'
BY DEF IInv, TypeOK, Return, timers, ResultIffDone, PollWithinDeadline, ExpiryIsEarned

LEMMA CreateStep == ASSUME IInv, Create PROVE IInv'
<1> USE InvocationAssumption DEF Callers
<1>1. pc[Owner] = "idle" /\ UNCHANGED <<retryCount, internals, outputs, lost>>
  BY DEF Create
<1>2. CASE /\ inputJwt' \in {0, 1} /\ StartPolling(Owner, Forever)
           /\ FunctionMap /\ UNCHANGED result
  <2>1. /\ pc' \in [Callers -> {"idle", "polling", "retrying", "done"}]
        /\ left' \in [Callers -> Nat \cup {Forever}] /\ pollLeft' \in [Callers -> Nat]
        /\ ResultIffDone' /\ PollWithinDeadline' /\ ExpiryIsEarned'
    BY <1>1, <1>2, StartPollingStep DEF Forever
  <2>2. TypeOK'
    BY <1>1, <1>2, <2>1 DEF IInv, TypeOK, FunctionMap
  <2>3. RetryBudget' /\ BudgetBeforeRetry'
    BY <1>1, <1>2 DEF IInv, TypeOK, RetryBudget, BudgetBeforeRetry, StartPolling
  <2>4. QED BY <2>1, <2>2, <2>3 DEF IInv
<1>3. CASE Return(Owner, "error") /\ UNCHANGED <<inputJwt, timers, created, running>>
  <2>1. /\ pc' \in [Callers -> {"idle", "polling", "retrying", "done"}]
        /\ result' \in [Callers -> {"none", "ok", "error", "timeout", "remote",
                                    "internal", "expired"}]
        /\ left' = left /\ pollLeft' = pollLeft
        /\ ResultIffDone' /\ PollWithinDeadline' /\ ExpiryIsEarned'
    BY <1>1, <1>3, ReturnStep
  <2>2. TypeOK'
    BY <1>1, <1>3, <2>1 DEF IInv, TypeOK
  <2>3. RetryBudget' /\ BudgetBeforeRetry'
    BY <1>1, <1>3 DEF IInv, TypeOK, RetryBudget, BudgetBeforeRetry, Return
  <2>4. QED BY <2>1, <2>2, <2>3 DEF IInv
<1>4. QED BY <1>2, <1>3 DEF Create

(* The owner returns at once, with or without a call left on the server.   *)
LEMMA OwnerReturnsStep ==
    ASSUME IInv, NEW r \in {"ok", "error"}, pc[Owner] = "idle", Return(Owner, r),
           created' \in BOOLEAN, running' \in Nat, UNCHANGED <<timers, remote, outputs, lost>>
    PROVE  IInv'
<1> USE InvocationAssumption DEF Callers
<1>1. /\ pc' \in [Callers -> {"idle", "polling", "retrying", "done"}]
      /\ result' \in [Callers -> {"none", "ok", "error", "timeout", "remote",
                                  "internal", "expired"}]
      /\ left' = left /\ pollLeft' = pollLeft
      /\ ResultIffDone' /\ PollWithinDeadline' /\ ExpiryIsEarned'
  BY ReturnStep
<1>2. TypeOK'
  BY <1>1 DEF IInv, TypeOK, remote
<1>3. RetryBudget' /\ BudgetBeforeRetry'
  BY DEF IInv, TypeOK, RetryBudget, BudgetBeforeRetry, Return, remote
<1>4. QED BY <1>1, <1>2, <1>3 DEF IInv

LEMMA RefuseStep == ASSUME IInv, Refuse PROVE IInv'
BY OwnerReturnsStep DEF Refuse, server, IInv, TypeOK

LEMMA SpawnStep == ASSUME IInv, Spawn PROVE IInv'
BY OwnerReturnsStep DEF Spawn, FunctionMap

LEMMA GetStep == ASSUME IInv, NEW w \in Getters, Get(w) PROVE IInv'
<1>1. w \in Callers /\ w # Owner /\ pc[w] = "idle" /\ UNCHANGED <<result, remote, server>>
  BY InvocationAssumption DEF Get, Callers
<1>2. PICK l \in Nat \cup {Forever} : StartPolling(w, l)
  BY InvocationAssumption DEF Get
<1>3. /\ pc' \in [Callers -> {"idle", "polling", "retrying", "done"}]
      /\ left' \in [Callers -> Nat \cup {Forever}] /\ pollLeft' \in [Callers -> Nat]
      /\ ResultIffDone' /\ PollWithinDeadline' /\ ExpiryIsEarned'
  BY <1>1, <1>2, StartPollingStep
<1>4. TypeOK'
  BY <1>1, <1>3 DEF IInv, TypeOK, remote, server
<1>5. RetryBudget' /\ BudgetBeforeRetry'
  BY <1>1, <1>2 DEF IInv, TypeOK, RetryBudget, BudgetBeforeRetry, StartPolling, remote, Callers
<1>6. QED BY <1>3, <1>4, <1>5 DEF IInv

(* process_result never produces the client's own expiry.                  *)
LEMMA ProcessResultRange ==
    ASSUME NEW item \in Items, NEW blobOk \in BOOLEAN
    PROVE  ProcessResult(item, blobOk) \in {"ok", "error", "timeout", "remote", "internal"}
BY DEF ProcessResult, Verdict

LEMMA AnsweredStep == ASSUME IInv, NEW w \in Callers, Answered(w) PROVE IInv'
<1>1. /\ pc[w] = "polling" /\ outputs > 0 /\ outputs' = outputs - 1
      /\ UNCHANGED <<timers, retryCount, inputJwt, created, running, lost>>
  BY DEF Answered
<1>2. PICK r \in {"ok", "error", "timeout", "remote", "internal"} :
          /\ internals' = IF w = Owner /\ r = "internal" THEN internals + 1 ELSE internals
          /\ IF w = Owner /\ WillRetry(r)
               THEN pc' = [pc EXCEPT ![w] = "retrying"] /\ UNCHANGED result
               ELSE Return(w, r)
  BY ProcessResultRange DEF Answered
<1>3. CASE w = Owner /\ WillRetry(r)
  <2>1. TypeOK'
    BY <1>1, <1>2, <1>3 DEF IInv, TypeOK, timers
  <2>2. RetryBudget' /\ BudgetBeforeRetry'
    BY <1>1, <1>2, <1>3 DEF IInv, TypeOK, RetryBudget, BudgetBeforeRetry, WillRetry
  <2>3. ResultIffDone' /\ PollWithinDeadline' /\ ExpiryIsEarned'
    BY <1>1, <1>2, <1>3
    DEF IInv, TypeOK, ResultIffDone, PollWithinDeadline, ExpiryIsEarned, timers
  <2>4. QED BY <2>1, <2>2, <2>3 DEF IInv
<1>4. CASE ~(w = Owner /\ WillRetry(r))
  <2>1. /\ pc' \in [Callers -> {"idle", "polling", "retrying", "done"}]
        /\ result' \in [Callers -> {"none", "ok", "error", "timeout", "remote",
                                    "internal", "expired"}]
        /\ left' = left /\ pollLeft' = pollLeft
        /\ ResultIffDone' /\ PollWithinDeadline' /\ ExpiryIsEarned'
    BY <1>1, <1>2, <1>4, ReturnStep
  <2>2. TypeOK'
    BY <1>1, <1>2, <2>1 DEF IInv, TypeOK
  <2>3. RetryBudget' /\ BudgetBeforeRetry'
    BY <1>1, <1>2, <1>4, InvocationAssumption
    DEF IInv, TypeOK, RetryBudget, BudgetBeforeRetry, WillRetry, Return, Callers
  <2>4. QED BY <2>1, <2>2, <2>3 DEF IInv
<1>5. QED BY <1>3, <1>4

LEMMA LoseAnswerStep == ASSUME IInv, NEW w \in Callers, LoseAnswer(w) PROVE IInv'
BY DEF LoseAnswer, IInv, TypeOK, RetryBudget, BudgetBeforeRetry, ResultIffDone,
       PollWithinDeadline, ExpiryIsEarned, timers, remote

LEMMA EmptyStep == ASSUME IInv, NEW w \in Callers, Empty(w) PROVE IInv'
<1>1. pc[w] = "polling" /\ UNCHANGED <<left, remote, server>>
  BY DEF Empty
<1>2. CASE left[w] = 0
  <2>1. Return(w, "expired") /\ UNCHANGED timers
    BY <1>1, <1>2 DEF Empty, OutOfTime, timers
  <2>2. /\ pc' \in [Callers -> {"idle", "polling", "retrying", "done"}]
        /\ result' \in [Callers -> {"none", "ok", "error", "timeout", "remote",
                                    "internal", "expired"}]
        /\ left' = left /\ pollLeft' = pollLeft
        /\ ResultIffDone' /\ PollWithinDeadline' /\ ExpiryIsEarned'
    BY <1>1, <1>2, <2>1, ReturnStep
  <2>3. TypeOK'
    BY <1>1, <2>2 DEF IInv, TypeOK, remote, server
  <2>4. RetryBudget' /\ BudgetBeforeRetry'
    BY <1>1, <2>1, InvocationAssumption
    DEF IInv, TypeOK, RetryBudget, BudgetBeforeRetry, Return, remote, Callers
  <2>5. QED BY <2>2, <2>3, <2>4 DEF IInv
<1>3. CASE left[w] # 0
  <2>1. /\ pollLeft' = [pollLeft EXCEPT ![w] = PollTimeout(left[w])]
        /\ UNCHANGED <<pc, result>>
    BY <1>3 DEF Empty, OutOfTime
  <2>2. PollTimeout(left[w]) \in Nat /\ (left[w] # Forever => PollTimeout(left[w]) <= left[w])
    BY PollTimeoutBounded DEF IInv, TypeOK
  <2>3. QED
    BY <1>1, <2>1, <2>2
    DEF IInv, TypeOK, RetryBudget, BudgetBeforeRetry, ResultIffDone, PollWithinDeadline,
        ExpiryIsEarned, remote, server
<1>4. QED BY <1>2, <1>3

LEMMA PollFailsStep == ASSUME IInv, NEW w \in Callers, PollFails(w) PROVE IInv'
<1>1. pc[w] = "polling" /\ Return(w, "error") /\ UNCHANGED <<timers, remote, server>>
  BY DEF PollFails
<1>2. /\ pc' \in [Callers -> {"idle", "polling", "retrying", "done"}]
      /\ result' \in [Callers -> {"none", "ok", "error", "timeout", "remote",
                                  "internal", "expired"}]
      /\ left' = left /\ pollLeft' = pollLeft
      /\ ResultIffDone' /\ PollWithinDeadline' /\ ExpiryIsEarned'
  BY <1>1, ReturnStep
<1>3. TypeOK'
  BY <1>1, <1>2 DEF IInv, TypeOK, remote, server
<1>4. RetryBudget' /\ BudgetBeforeRetry'
  BY <1>1, InvocationAssumption
  DEF IInv, TypeOK, RetryBudget, BudgetBeforeRetry, Return, remote, Callers
<1>5. QED BY <1>2, <1>3, <1>4 DEF IInv

LEMMA RetryStep == ASSUME IInv, Retry PROVE IInv'
<1> USE InvocationAssumption DEF Callers
<1>1. PICK n \in 0..RpcEffects :
          /\ running' = running + n
          /\ \/ /\ \E jwt \in {0, retryCount + 2} : inputJwt' = NewJwt(jwt)
                /\ StartPolling(Owner, Forever)
                /\ retryCount' = retryCount + 1
                /\ UNCHANGED result
             \/ /\ Return(Owner, "error")
                /\ UNCHANGED <<timers, retryCount, inputJwt>>
  BY DEF Retry, RetryInputs
<1>2. pc[Owner] = "retrying" /\ UNCHANGED <<internals, created, outputs, lost>> /\ running' \in Nat
  BY <1>1 DEF Retry, IInv, TypeOK
<1>3. CASE /\ \E jwt \in {0, retryCount + 2} : inputJwt' = NewJwt(jwt)
           /\ StartPolling(Owner, Forever)
           /\ retryCount' = retryCount + 1
           /\ UNCHANGED result
  <2>1. /\ pc' \in [Callers -> {"idle", "polling", "retrying", "done"}]
        /\ left' \in [Callers -> Nat \cup {Forever}] /\ pollLeft' \in [Callers -> Nat]
        /\ ResultIffDone' /\ PollWithinDeadline' /\ ExpiryIsEarned'
    BY <1>2, <1>3, StartPollingStep DEF Forever
  <2>2. inputJwt' \in Nat /\ retryCount' = retryCount + 1 /\ retryCount' \in 0..(MaxSystemRetries + 1)
    BY <1>2, <1>3 DEF IInv, TypeOK, NewJwt, BudgetBeforeRetry
  <2>3. TypeOK'
    BY <1>2, <1>3, <2>1, <2>2 DEF IInv, TypeOK
  <2>4. RetryBudget' /\ BudgetBeforeRetry'
    BY <1>2, <1>3, <2>2
    DEF IInv, TypeOK, RetryBudget, BudgetBeforeRetry, ResultIffDone, StartPolling
  <2>5. QED BY <2>1, <2>3, <2>4 DEF IInv
<1>4. CASE Return(Owner, "error") /\ UNCHANGED <<timers, retryCount, inputJwt>>
  <2>1. /\ pc' \in [Callers -> {"idle", "polling", "retrying", "done"}]
        /\ result' \in [Callers -> {"none", "ok", "error", "timeout", "remote",
                                    "internal", "expired"}]
        /\ left' = left /\ pollLeft' = pollLeft
        /\ ResultIffDone' /\ PollWithinDeadline' /\ ExpiryIsEarned'
    BY <1>2, <1>4, ReturnStep
  <2>2. TypeOK'
    BY <1>2, <1>4, <2>1 DEF IInv, TypeOK
  <2>3. RetryBudget' /\ BudgetBeforeRetry'
    BY <1>2, <1>4 DEF IInv, TypeOK, RetryBudget, BudgetBeforeRetry, Return
  <2>4. QED BY <2>1, <2>2, <2>3 DEF IInv
<1>5. QED BY <1>1, <1>3, <1>4

LEMMA FinishStep == ASSUME IInv, Finish PROVE IInv'
BY DEF Finish, IInv, TypeOK, RetryBudget, BudgetBeforeRetry, ResultIffDone,
       PollWithinDeadline, ExpiryIsEarned, timers, remote

LEMMA CancelStep == ASSUME IInv, Cancel PROVE IInv'
BY DEF Cancel, IInv, TypeOK, RetryBudget, BudgetBeforeRetry, ResultIffDone,
       PollWithinDeadline, ExpiryIsEarned, timers, remote

LEMMA TickStep == ASSUME IInv, NEW w \in Callers, Tick(w) PROVE IInv'
<1>1. /\ pc[w] = "polling" /\ UNCHANGED <<pc, result, remote, server>>
      /\ left' = [left EXCEPT ![w] = CountDown(left[w])]
      /\ pollLeft' = [pollLeft EXCEPT ![w] = CountDown(pollLeft[w])]
  BY DEF Tick
<1>2. /\ CountDown(left[w]) \in Nat \cup {Forever} /\ CountDown(pollLeft[w]) \in Nat
      /\ CountDown(left[w]) # Forever => CountDown(pollLeft[w]) <= CountDown(left[w])
  BY CountDownBounded DEF IInv, TypeOK, PollWithinDeadline
<1>3. TypeOK' /\ PollWithinDeadline'
  BY <1>1, <1>2 DEF IInv, TypeOK, PollWithinDeadline, remote, server
<1>4. RetryBudget' /\ BudgetBeforeRetry' /\ ResultIffDone' /\ ExpiryIsEarned'
  BY <1>1 DEF IInv, TypeOK, RetryBudget, BudgetBeforeRetry, ResultIffDone, ExpiryIsEarned, remote
<1>5. QED BY <1>3, <1>4 DEF IInv

LEMMA InductiveIInv == Spec => []IInv
<1>1. ASSUME IInv, Next PROVE IInv'
  BY <1>1, CreateStep, RefuseStep, SpawnStep, RetryStep, FinishStep, CancelStep, GetStep, AnsweredStep, LoseAnswerStep, EmptyStep,
     PollFailsStep, TickStep DEF Next
<1>2. ASSUME IInv, UNCHANGED vars PROVE IInv'
  BY <1>2 DEF vars, IInv, TypeOK, RetryBudget, BudgetBeforeRetry, ResultIffDone,
              PollWithinDeadline, ExpiryIsEarned
<1>3. IInv /\ [Next]_vars => IInv'
  BY <1>1, <1>2
<1>4. QED BY InitIInv, <1>3, PTL DEF Spec

(* Type correctness.                                                       *)
THEOREM TypeCorrect == Spec => []TypeOK
BY InductiveIInv, PTL DEF IInv

(* Function::remote spends one retry per InternalFailure, makes at most    *)
(* MAX_SYSTEM_RETRIES + 1 of them, and surfaces an InternalFailure only    *)
(* after the last (function.rs:150-162).                                   *)
THEOREM RetriesAreAccountedFor == Spec => []RetryBudget
BY InductiveIInv, PTL DEF IInv

(* No poll is asked to last beyond the caller's deadline, and a caller     *)
(* gives up only when its whole timeout has passed (invocation.rs:306-341). *)
THEOREM TimeoutsAreKeptAlways == Spec => []TimeoutsAreKept
BY InductiveIInv, PTL DEF IInv, TimeoutsAreKept
-----------------------------------------------------------------------------
(* What is left of an await with a timeout: the time to its deadline, and  *)
(* whether the current poll has time left.                                 *)
TimeLeft(w) == 2 * left[w] + (IF pollLeft[w] = 0 THEN 1 ELSE 0)

(* What is left of Function::remote: its retries, and the two steps of     *)
(* each, which are the answer and the FunctionRetryInputs after it.        *)
RetriesLeft ==
    2 * (MaxSystemRetries + 1 - retryCount)
        + (CASE pc[Owner] = "idle" -> 3 [] pc[Owner] = "polling" -> 2 [] pc[Owner] = "retrying" -> 1 [] pc[Owner] = "done" -> 0)

(* An await with a timeout ends, is left alone, uses up its time, or polls *)
(* again at once because its poll was answered before its time was up.     *)
AwaitGoesOn(w) ==
    \/ pc'[w] = "done"
    \/ pc'[w] = pc[w] /\ left'[w] = left[w] /\ pollLeft'[w] = pollLeft[w]
    \/ pc'[w] = pc[w] /\ left'[w] # Forever /\ TimeLeft(w)' < TimeLeft(w)
    \/ pollLeft[w] > 0 /\ pc'[w] = pc[w] /\ left'[w] = left[w]

ComesToAnEnd ==
    [][/\ \A w \in Getters : pc[w] = "polling" /\ left[w] # Forever => AwaitGoesOn(w)
       /\ IF pc'[Owner] = pc[Owner] THEN retryCount' = retryCount ELSE RetriesLeft' < RetriesLeft]_vars

(* A step of another caller, or of the server, leaves a caller alone.      *)
LEMMA OthersLeaveAlone ==
    ASSUME IInv, NEW w \in Callers, pc[w] = "polling",
           \/ Finish \/ Cancel \/ UNCHANGED vars
           \/ w # Owner /\ (Create \/ Refuse \/ Spawn \/ Retry)
           \/ \E v \in Getters : Get(v)
           \/ \E v \in Callers : LoseAnswer(v)
           \/ \E v \in Callers : v # w /\ (Answered(v) \/ Empty(v) \/ PollFails(v) \/ Tick(v))
    PROVE  pc'[w] = pc[w] /\ left'[w] = left[w] /\ pollLeft'[w] = pollLeft[w]
<1> USE DEF IInv, TypeOK, timers
<1>1. CASE Finish \/ Cancel \/ UNCHANGED vars \/ \E v \in Callers : LoseAnswer(v)
  BY <1>1 DEF Finish, Cancel, vars, LoseAnswer
<1>2. CASE w # Owner /\ (Create \/ Refuse \/ Spawn \/ Retry)
  BY <1>2 DEF Create, Refuse, Spawn, Retry, StartPolling, Return
<1>3. CASE \E v \in Getters : Get(v)
  BY <1>3 DEF Get, StartPolling
<1>4. ASSUME NEW v \in Callers, v # w, Answered(v) \/ Empty(v) \/ PollFails(v) \/ Tick(v)
      PROVE  pc'[w] = pc[w] /\ left'[w] = left[w] /\ pollLeft'[w] = pollLeft[w]
  <2>1. CASE Answered(v)
    <3>1. UNCHANGED timers
      BY <2>1 DEF Answered
    <3>2. pc' = [pc EXCEPT ![v] = "retrying"] \/ pc' = [pc EXCEPT ![v] = "done"]
      BY <2>1 DEF Answered, Return
    <3>3. QED BY <1>4, <3>1, <3>2
  <2>2. CASE Empty(v)
    BY <1>4, <2>2 DEF Empty, Return
  <2>3. CASE PollFails(v) \/ Tick(v)
    BY <1>4, <2>3 DEF PollFails, Tick, Return
  <2>4. QED BY <1>4, <2>1, <2>2, <2>3
<1>5. QED BY <1>1, <1>2, <1>3, <1>4

(* A caller that polls with a timeout ends with an answer, and uses up its *)
(* time with every other step but an empty answer that comes early.        *)
LEMMA AwaitCountsDown ==
    ASSUME IInv, NEW w \in Getters, pc[w] = "polling", left[w] # Forever,
           Answered(w) \/ Empty(w) \/ PollFails(w) \/ Tick(w)
    PROVE  AwaitGoesOn(w)
<1>1. /\ w \in Callers /\ w # Owner /\ left[w] \in Nat /\ pollLeft[w] \in Nat /\ pollLeft[w] <= left[w]
      /\ pc \in [Callers -> {"idle", "polling", "retrying", "done"}]
      /\ left \in [Callers -> Nat \cup {Forever}] /\ pollLeft \in [Callers -> Nat]
  BY InvocationAssumption DEF IInv, TypeOK, PollWithinDeadline, Callers
<1>2. CASE Answered(w) \/ PollFails(w)
  <2>1. pc' = [pc EXCEPT ![w] = "done"]
    BY <1>1, <1>2 DEF Answered, PollFails, Return
  <2>2. QED BY <1>1, <2>1 DEF AwaitGoesOn
<1>3. CASE Empty(w)
  <2>1. left' = left
    BY <1>3 DEF Empty
  <2>2. CASE OutOfTime(w)
    BY <1>1, <1>3, <2>2 DEF Empty, Return, AwaitGoesOn
  <2>3. CASE ~OutOfTime(w)
    <3>1. pc' = pc /\ pollLeft' = [pollLeft EXCEPT ![w] = PollTimeout(left[w])]
      BY <1>3, <2>3 DEF Empty
    <3>2. PollTimeout(left[w]) \in Nat /\ PollTimeout(left[w]) > 0
      BY <1>1, <2>3, InvocationAssumption DEF PollTimeout, OutOfTime
    <3>3. CASE pollLeft[w] = 0
      BY <1>1, <2>1, <3>1, <3>2, <3>3 DEF AwaitGoesOn, TimeLeft
    <3>4. CASE pollLeft[w] > 0
      BY <2>1, <3>1, <3>4 DEF AwaitGoesOn
    <3>5. QED BY <1>1, <3>3, <3>4
  <2>4. QED BY <2>2, <2>3
<1>4. CASE Tick(w)
  <2>1. /\ left[w] > 0 /\ pc' = pc
        /\ left' = [left EXCEPT ![w] = CountDown(left[w])]
        /\ pollLeft' = [pollLeft EXCEPT ![w] = CountDown(pollLeft[w])]
    BY <1>1, <1>4 DEF Tick
  <2>2. CountDown(left[w]) = left[w] - 1 /\ CountDown(pollLeft[w]) \in Nat /\ CountDown(pollLeft[w]) <= pollLeft[w]
    BY <1>1, <2>1 DEF CountDown
  <2>3. left'[w] = left[w] - 1 /\ pollLeft'[w] \in Nat /\ pc'[w] = pc[w]
    BY <1>1, <2>1, <2>2
  <2>4. left'[w] # Forever /\ TimeLeft(w)' < TimeLeft(w)
    BY <1>1, <2>1, <2>3 DEF TimeLeft, Forever
  <2>5. QED BY <2>3, <2>4 DEF AwaitGoesOn
<1>5. QED BY <1>2, <1>3, <1>4

(* Function::remote goes from one retry to the next and to its return, and *)
(* retry_count changes in no other step.                                   *)
LEMMA RemoteCountsDown ==
    ASSUME IInv, [Next]_vars
    PROVE  IF pc'[Owner] = pc[Owner] THEN retryCount' = retryCount ELSE RetriesLeft' < RetriesLeft
<1>1. /\ retryCount \in Nat /\ retryCount <= MaxSystemRetries + 1 /\ MaxSystemRetries \in Nat
      /\ pc[Owner] = "idle" => retryCount = 0
      /\ pc \in [Callers -> {"idle", "polling", "retrying", "done"}]
      /\ Owner \in Callers /\ Owner \notin Getters
  BY InvocationAssumption DEF IInv, TypeOK, RetryBudget, BudgetBeforeRetry, Callers
<1>2. CASE Create \/ Refuse \/ Spawn
  <2>1. pc[Owner] = "idle" /\ pc'[Owner] \in {"polling", "done"} /\ retryCount' = retryCount
    BY <1>1, <1>2 DEF Create, Refuse, Spawn, StartPolling, Return, remote
  <2>2. QED BY <1>1, <2>1 DEF RetriesLeft
<1>3. CASE Retry
  <2>1. pc[Owner] = "retrying"
    BY <1>3 DEF Retry
  <2>2. \/ pc'[Owner] = "polling" /\ retryCount' = retryCount + 1
        \/ pc'[Owner] = "done" /\ retryCount' = retryCount
    BY <1>1, <1>3 DEF Retry, StartPolling, Return
  <2>3. QED BY <1>1, <2>1, <2>2 DEF RetriesLeft
<1>4. ASSUME NEW w \in Callers, Answered(w) \/ Empty(w) \/ PollFails(w)
      PROVE  /\ retryCount' = retryCount
             /\ pc'[Owner] = pc[Owner] \/ (pc[Owner] = "polling" /\ pc'[Owner] \in {"retrying", "done"})
  <2>1. CASE Answered(w)
    <3>1. pc[w] = "polling" /\ retryCount' = retryCount
      BY <2>1 DEF Answered
    <3>2. pc' = [pc EXCEPT ![w] = "retrying"] \/ pc' = [pc EXCEPT ![w] = "done"]
      BY <2>1 DEF Answered, Return
    <3>3. QED BY <1>1, <3>1, <3>2
  <2>2. CASE Empty(w) \/ PollFails(w)
    <3>1. pc[w] = "polling" /\ retryCount' = retryCount
      BY <2>2 DEF Empty, PollFails, remote
    <3>2. pc' = pc \/ pc' = [pc EXCEPT ![w] = "done"]
      BY <2>2 DEF Empty, PollFails, Return
    <3>3. QED BY <1>1, <3>1, <3>2
  <2>3. QED BY <1>4, <2>1, <2>2
<1>5. CASE \E w \in Callers : Answered(w) \/ Empty(w) \/ PollFails(w)
  <2>1. /\ retryCount' = retryCount
        /\ pc'[Owner] = pc[Owner] \/ (pc[Owner] = "polling" /\ pc'[Owner] \in {"retrying", "done"})
    BY <1>4, <1>5
  <2>2. CASE pc'[Owner] = pc[Owner]
    BY <2>1, <2>2
  <2>3. CASE pc[Owner] = "polling" /\ pc'[Owner] \in {"retrying", "done"}
    BY <1>1, <2>1, <2>3 DEF RetriesLeft
  <2>4. QED BY <2>1, <2>2, <2>3
<1>6. CASE \/ Finish \/ Cancel \/ UNCHANGED vars \/ \E w \in Getters : Get(w)
           \/ \E w \in Callers : LoseAnswer(w) \/ Tick(w)
  BY <1>1, <1>6 DEF Finish, Cancel, vars, Get, StartPolling, LoseAnswer, Tick, remote
<1>7. QED BY <1>2, <1>3, <1>5, <1>6 DEF Next

(* A getter with a timeout uses up its time in every step but an empty     *)
(* answer before its poll's time is up, and Function::remote its retries,  *)
(* whatever the other callers are handed and whatever is lost,    *)
(* for any number of getters, any timeouts and any budget: what            *)
(* GetterReturns and RemoteReturns rest on (invocation.rs:306-341,         *)
(* function.rs:149-162).                                                   *)
THEOREM AwaitsMoveOn == Spec => ComesToAnEnd
<1>1. ASSUME IInv, [Next]_vars, NEW w \in Getters, pc[w] = "polling", left[w] # Forever
      PROVE  AwaitGoesOn(w)
  <2>1. w \in Callers /\ w # Owner
    BY InvocationAssumption DEF Callers
  <2>2. CASE pc'[w] = pc[w] /\ left'[w] = left[w] /\ pollLeft'[w] = pollLeft[w]
    BY <2>2 DEF AwaitGoesOn
  <2>3. CASE Answered(w) \/ Empty(w) \/ PollFails(w) \/ Tick(w)
    BY <1>1, <2>3, AwaitCountsDown
  <2>4. QED BY <1>1, <2>1, <2>2, <2>3, OthersLeaveAlone DEF Next
<1>2. IInv /\ [Next]_vars =>
        [/\ \A w \in Getters : pc[w] = "polling" /\ left[w] # Forever => AwaitGoesOn(w)
         /\ IF pc'[Owner] = pc[Owner] THEN retryCount' = retryCount ELSE RetriesLeft' < RetriesLeft]_vars
  BY <1>1, RemoteCountsDown
<1>3. QED BY <1>2, InductiveIInv, PTL DEF Spec, ComesToAnEnd
=============================================================================
