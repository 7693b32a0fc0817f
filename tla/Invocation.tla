----------------------------- MODULE Invocation -----------------------------
(***************************************************************************)
(* A function call on the control plane (invocation.rs), driven by         *)
(* Function::remote of function.rs, which may retry its input, and awaited *)
(* at the same time by getters: holders of its function call id, which     *)
(* have no input to retry and a timeout of their own.                      *)
(*                                                                         *)
(* The server is external.  An answer that delivers an output takes it off *)
(* the server: the SDK asks for clear_on_success and always reads from     *)
(* entry "0-0".  An answer may be lost, and the request sent again by the  *)
(* transport.  What an output holds is chosen when it is delivered.        *)
(* Time is kept per caller, as the units left until its deadline and until *)
(* its current poll must be answered.                                      *)
(***************************************************************************)
EXTENDS Integers

CONSTANTS Getters,           \* callers made by from_function_call_id
          Owner,             \* the caller of Function::remote
          MaxSystemRetries,  \* MAX_SYSTEM_RETRIES
          OutputsTimeout,    \* OUTPUTS_TIMEOUT
          Timeouts,          \* the timeouts getters choose from
          RpcEffects,        \* how often a retried RPC may take effect
          MaxExecutions      \* bound: executions under way or not yet delivered

ASSUME InvocationAssumption ==
    /\ Owner \notin Getters
    /\ MaxSystemRetries \in Nat
    /\ OutputsTimeout \in Nat \ {0}
    /\ Timeouts \subseteq Nat
    /\ RpcEffects \in Nat \ {0}
    /\ MaxExecutions \in Nat \ {0}

Callers == Getters \cup {Owner}

Forever == -1      \* await_output(.., None)

(* GenericResult.status; "Null" is an output without a result, "Other" any *)
(* status the code does not name (Failure, Terminated, ...).               *)
Statuses == {"Success", "InternalFailure", "Timeout", "Other", "Null"}

\* An output: its status, whether its data is a blob, whether it decodes.
Items == [status : Statuses, blob : BOOLEAN, decodes : BOOLEAN]

VARIABLES
    pc,          \* pc[w]: "idle", "polling", "retrying" or "done"
    left,        \* left[w]: time until w's deadline, or Forever
    pollLeft,    \* pollLeft[w]: time until w's current poll must be answered
    result,      \* result[w]: "none" or what w returns
    retryCount,  \* Function::remote's retry_count
    inputJwt,    \* ControlPlaneInvocation::input_jwt: which response it is from, 0 when empty
    internals,   \* history: InternalFailure results the owner was given
    created,     \* the function call exists
    running,     \* its executions under way on the server
    outputs,     \* its outputs not yet delivered
    lost         \* history: an answer with an output was lost

vars == <<pc, left, pollLeft, result, retryCount, inputJwt, internals, created, running, outputs, lost>>

timers == <<left, pollLeft>>
remote == <<retryCount, inputJwt, internals>>
server == <<created, running, outputs, lost>>

Return(w, r) ==
    /\ pc' = [pc EXCEPT ![w] = "done"]
    /\ result' = [result EXCEPT ![w] = r]
-----------------------------------------------------------------------------
Init ==
    /\ pc = [w \in Callers |-> "idle"]
    /\ left = [w \in Callers |-> Forever]
    /\ pollLeft = [w \in Callers |-> 0]
    /\ result = [w \in Callers |-> "none"]
    /\ retryCount = 0
    /\ inputJwt = 0
    /\ internals = 0
    /\ created = FALSE
    /\ running = 0
    /\ outputs = 0
    /\ lost = FALSE

\* The length of the next poll; the variant ignores the deadline.
FullPoll(l) == OutputsTimeout
PollTimeout(l) == IF l = Forever \/ l > OutputsTimeout THEN OutputsTimeout ELSE l

StartPolling(w, l) ==
    /\ pc' = [pc EXCEPT ![w] = "polling"]
    /\ left' = [left EXCEPT ![w] = l]
    /\ pollLeft' = [pollLeft EXCEPT ![w] = PollTimeout(l)]

(* FunctionMap.  The RPC is retried by the transport, so other calls with  *)
(* the same input may be left on the server; the caller knows one.         *)
FunctionMap == created' = TRUE /\ running' = 1

(* Function::remote creates the call.  A response without pipelined inputs *)
(* leaves input_jwt empty.                                                 *)
Create ==
    /\ pc[Owner] = "idle"
    /\ \/ /\ inputJwt' \in {0, 1}
          /\ StartPolling(Owner, Forever)
          /\ FunctionMap
          /\ UNCHANGED result
       \/ /\ Return(Owner, "error")
          /\ UNCHANGED <<inputJwt, timers, created, running>>
    /\ UNCHANGED <<retryCount, internals, outputs, lost>>

(* remote and spawn are refused before the call is made: the function has  *)
(* a web_url, does not take CBOR, or is given more than fits in a request. *)
Refuse ==
    /\ pc[Owner] = "idle"
    /\ Return(Owner, "error")
    /\ UNCHANGED <<timers, remote, server>>

\* Function::spawn returns the id of the call, for others to await.
Spawn ==
    /\ pc[Owner] = "idle"
    /\ FunctionMap
    /\ Return(Owner, "ok")
    /\ UNCHANGED <<timers, remote, outputs, lost>>

\* A getter awaits the existing call.
Get(w) ==
    /\ pc[w] = "idle"
    /\ created
    /\ \E l \in Timeouts \cup {Forever} : StartPolling(w, l)
    /\ UNCHANGED <<result, remote, server>>
-----------------------------------------------------------------------------
\* The error or value that a status stands for once its data is at hand.
Verdict(item) ==
    IF item.status = "Success" THEN (IF item.decodes THEN "ok" ELSE "error")
    ELSE IF item.status = "Timeout" THEN "timeout"
    ELSE IF item.status = "InternalFailure" THEN "internal"
    ELSE "remote"

(* process_result: a blob is downloaded before the status is looked at, so *)
(* a download that fails hides the status.                                 *)
ProcessResult(item, blobOk) ==
    IF item.status # "Null" /\ item.blob /\ ~blobOk THEN "error" ELSE Verdict(item)

(* The guard of remote's retry arm; the variants retry other failures too, *)
(* and do not count.                                                       *)
RetryWithoutLimit(r) == r = "internal"
RetryAnyFailure(r) == r \in {"internal", "remote"} /\ retryCount <= MaxSystemRetries
WillRetry(r) == r = "internal" /\ retryCount <= MaxSystemRetries

\* The answer to a poll carries an output: retry, or return what it says.
Answered(w) ==
    /\ pc[w] = "polling"
    /\ outputs > 0
    /\ outputs' = outputs - 1
    /\ \E item \in Items, blobOk \in BOOLEAN :
          LET r == ProcessResult(item, blobOk)
          IN  /\ internals' = IF w = Owner /\ r = "internal" THEN internals + 1 ELSE internals
              /\ IF w = Owner /\ WillRetry(r)
                   THEN pc' = [pc EXCEPT ![w] = "retrying"] /\ UNCHANGED result
                   ELSE Return(w, r)
    /\ UNCHANGED <<timers, retryCount, inputJwt, created, running, lost>>

(* The answer with an output is lost.  The transport sends the request     *)
(* again, and the output is no longer there.                               *)
LoseAnswer(w) ==
    /\ pc[w] = "polling"
    /\ outputs > 0
    /\ outputs' = outputs - 1
    /\ lost' = TRUE
    /\ UNCHANGED <<pc, timers, result, remote, created, running>>

\* elapsed >= total_timeout; and one that never gives up.
NeverOutOfTime(w) == FALSE
OutOfTime(w) == left[w] = 0

(* An empty answer, when the poll's time is up or earlier: give up when    *)
(* out of time, or poll again for what is left.                            *)
Empty(w) ==
    /\ pc[w] = "polling"
    /\ outputs = 0
    /\ IF OutOfTime(w)
         THEN Return(w, "expired") /\ UNCHANGED pollLeft
         ELSE /\ pollLeft' = [pollLeft EXCEPT ![w] = PollTimeout(left[w])]
              /\ UNCHANGED <<pc, result>>
    /\ UNCHANGED <<left, remote, server>>

\* FunctionGetOutputs fails, after the transport's retries.
PollFails(w) ==
    /\ pc[w] = "polling"
    /\ Return(w, "error")
    /\ UNCHANGED <<timers, remote, server>>

\* The input_jwt after a retry: a response may carry none (0).
NewJwt(jwt) == IF jwt = 0 THEN inputJwt ELSE jwt

(* client.function_retry_inputs(..)?: after n effects the owner may go on; *)
(* the variant drops the error of an RPC that had none.                    *)
ErrorDropped(n) == TRUE
RetryOk(n) == n > 0

\* FunctionRetryInputs: the transport may have made the server start the input n times.
RetryInputs(n) ==
    /\ running + outputs + n <= MaxExecutions
    /\ running' = running + n

\* The RPC may fail although the input was started.
Retry ==
    /\ pc[Owner] = "retrying"
    /\ \E n \in 0..RpcEffects :
          /\ RetryInputs(n)
          /\ \/ /\ RetryOk(n)
                /\ \E jwt \in {0, retryCount + 2} : inputJwt' = NewJwt(jwt)
                /\ StartPolling(Owner, Forever)
                /\ retryCount' = retryCount + 1
                /\ UNCHANGED result
             \/ /\ Return(Owner, "error")
                /\ UNCHANGED <<timers, retryCount, inputJwt>>
    /\ UNCHANGED <<internals, created, outputs, lost>>
-----------------------------------------------------------------------------
\* An execution ends and leaves its output.
Finish ==
    /\ running > 0
    /\ running' = running - 1
    /\ outputs' = outputs + 1
    /\ UNCHANGED <<pc, timers, result, remote, created, lost>>

(* FunctionCall::cancel, by anyone with the id, as far as it has an effect: *)
(* what runs is stopped and leaves an output that says so.                 *)
Cancel ==
    /\ running > 0
    /\ running' = 0
    /\ outputs' = outputs + running
    /\ UNCHANGED <<pc, timers, result, remote, created, lost>>

\* The clock of a deadline: Forever never runs out.
CountDown(n) == IF n > 0 THEN n - 1 ELSE n

\* A unit of time passes for a caller that waits.
Tick(w) ==
    /\ pc[w] = "polling"
    /\ left[w] > 0 \/ pollLeft[w] > 0
    /\ left' = [left EXCEPT ![w] = CountDown(@)]
    /\ pollLeft' = [pollLeft EXCEPT ![w] = CountDown(@)]
    /\ UNCHANGED <<pc, result, remote, server>>

Next ==
    \/ Create \/ Refuse \/ Spawn \/ Retry \/ Finish \/ Cancel
    \/ \E w \in Getters : Get(w)
    \/ \E w \in Callers : Answered(w) \/ LoseAnswer(w) \/ Empty(w) \/ PollFails(w) \/ Tick(w)

Spec == Init /\ [][Next]_vars

(* Executions end, time passes, and the server answers a poll that finds   *)
(* an output or whose time is up; it need not answer earlier.              *)
FairSpec ==
    /\ Spec
    /\ WF_vars(Retry) /\ WF_vars(Finish)
    /\ \A w \in Callers : WF_vars(Answered(w) \/ (pollLeft[w] = 0 /\ Empty(w))) /\ WF_vars(Tick(w))
-----------------------------------------------------------------------------
TypeOK ==
    /\ pc \in [Callers -> {"idle", "polling", "retrying", "done"}]
    /\ left \in [Callers -> Nat \cup {Forever}]
    /\ pollLeft \in [Callers -> Nat]
    /\ result \in [Callers -> {"none", "ok", "error", "timeout", "remote", "internal", "expired"}]
    /\ retryCount \in 0..(MaxSystemRetries + 1) /\ inputJwt \in Nat /\ internals \in Nat
    /\ created \in BOOLEAN /\ lost \in BOOLEAN /\ running \in Nat /\ outputs \in Nat

(* Retries are spent on InternalFailures alone, one each, and the caller   *)
(* of Function::remote sees an InternalFailure only when they are used up  *)
(* (function.rs:150-162).                                                  *)
RetryBudget ==
    /\ pc[Owner] = "polling" => internals = retryCount
    /\ pc[Owner] = "retrying" => internals = retryCount + 1
    /\ retryCount <= MaxSystemRetries + 1
    /\ result[Owner] = "internal" => retryCount = MaxSystemRetries + 1

(* "automatic retry on InternalFailure (up to 8 retries)": no more retries *)
(* than MAX_SYSTEM_RETRIES.                                                *)
AtMostMaxRetries == retryCount <= MaxSystemRetries

(* No poll of poll_function_output is asked to last beyond the caller's    *)
(* deadline, also after polls that ended early or late                     *)
(* (invocation.rs:316-340).                                                *)
PollWithinDeadline ==
    \A w \in Callers : left[w] # Forever => pollLeft[w] <= left[w]

(* A caller gives up only when its whole timeout has passed, and never     *)
(* when it has none.                                                       *)
ExpiryIsEarned == \A w \in Callers : result[w] = "expired" => left[w] = 0

(* What a timeout promises, to the callers that have one: both of these    *)
(* (invocation.rs:306-341).                                                *)
TimeoutsAreKept == PollWithinDeadline /\ ExpiryIsEarned

(* A getter with a timeout returns, also when another caller is handed the *)
(* output it waits for, or the answer that carries it is lost              *)
(* (invocation.rs:322-341).                                                *)
GetterReturns ==
    \A w \in Getters : pc[w] = "polling" /\ left[w] # Forever ~> pc[w] = "done"

(* The caller of Function::remote gets an answer, unless a getter was      *)
(* handed an output of the call or the answer to a poll was lost: the      *)
(* retries come to an end (function.rs:149-161).                           *)
RemoteReturns ==
    pc[Owner] = "polling" ~> pc[Owner] = "done" \/ lost \/ \E w \in Getters : result[w] \notin {"none", "expired"}
=============================================================================
