------------------------------ MODULE GrpcRetry ------------------------------
(***************************************************************************)
(* retry_call_async of interceptors.rs, over a network that may lose a     *)
(* request, lose the answer, or deliver a request long after the client    *)
(* has given it up.  Every unary RPC of transport.rs goes through this     *)
(* loop (retry_block_on) and every one of them ignores the RetryContext it *)
(* is handed, so the attempts of a call are indistinguishable to the       *)
(* server: it executes each of them that arrives.                          *)
(***************************************************************************)
EXTENDS Naturals

CONSTANTS Calls,          \* the calls made through the transport
          OtherCodes,     \* status codes that are not retryable
          MaxRetries,     \* GrpcRetryConfig::max_retries
          BaseDelay,      \* GrpcRetryConfig::base_delay, in units of 100 ms
          MaxDelay,       \* GrpcRetryConfig::max_delay
          BackoffFactor   \* GrpcRetryConfig::backoff_factor

\* is_retryable: the codes after which the same call is made again.
RetryableCodes == {"DeadlineExceeded", "Unavailable", "Cancelled"}

Codes == RetryableCodes \cup OtherCodes

ASSUME RetryAssumption ==
    /\ MaxRetries \in Nat
    /\ BaseDelay \in Nat
    /\ MaxDelay \in Nat
    /\ BackoffFactor \in Nat
    /\ OtherCodes \cap RetryableCodes = {}
    /\ "ok" \notin Codes /\ "none" \notin Codes

Attempts == 0..MaxRetries

VARIABLES
    pc,        \* pc[c]: "idle", "sent", "backoff" or "done"
    attempt,   \* attempt[c]: number of the current attempt
    delay,     \* delay[c]: the next sleep
    failure,   \* failure[c]: the status of the latest attempt that failed, or "none"
    result,    \* result[c]: "none", "ok" or the code of the error returned
    inflight,  \* inflight[c]: attempts still in the network
    applied    \* applied[c]: attempts the server has executed

vars == <<pc, attempt, delay, failure, result, inflight, applied>>
-----------------------------------------------------------------------------
Init ==
    /\ pc = [c \in Calls |-> "idle"]
    /\ attempt = [c \in Calls |-> 0]
    /\ delay = [c \in Calls |-> BaseDelay]
    /\ failure = [c \in Calls |-> "none"]
    /\ result = [c \in Calls |-> "none"]
    /\ inflight = [c \in Calls |-> {}]
    /\ applied = [c \in Calls |-> {}]

Begin(c) ==
    /\ pc[c] = "idle"
    /\ pc' = [pc EXCEPT ![c] = "sent"]
    /\ inflight' = [inflight EXCEPT ![c] = {0}]
    /\ UNCHANGED <<attempt, delay, failure, result, applied>>

(* The condition under which an error is retried, with two slips that it   *)
(* is easy to make in it.                                                  *)
OneRetryTooMany(code, a) == code \in RetryableCodes /\ a <= MaxRetries
AnyErrorRetried(code, a) == a < MaxRetries
CanRetry(code, a) == code \in RetryableCodes /\ a < MaxRetries

\* The answer to the current attempt arrives.
Succeed(c) ==
    /\ pc[c] = "sent"
    /\ attempt[c] \in applied[c]
    /\ pc' = [pc EXCEPT ![c] = "done"]
    /\ result' = [result EXCEPT ![c] = "ok"]
    /\ UNCHANGED <<attempt, delay, failure, inflight, applied>>

(* The current attempt fails with a status, sent by the server or made up  *)
(* by the transport when the connection breaks.  In the second case the    *)
(* request may already have been executed, or may still be on its way.     *)
Fail(c, code) ==
    /\ pc[c] = "sent"
    /\ failure' = [failure EXCEPT ![c] = code]
    /\ IF CanRetry(code, attempt[c])
         THEN /\ pc' = [pc EXCEPT ![c] = "backoff"]
              /\ UNCHANGED result
         ELSE /\ pc' = [pc EXCEPT ![c] = "done"]
              /\ result' = [result EXCEPT ![c] = code]
    /\ UNCHANGED <<attempt, delay, inflight, applied>>

\* The next sleep; the variant forgets the cap.
UncappedDelay(d) == d * BackoffFactor
NextDelay(d) == IF d * BackoffFactor < MaxDelay THEN d * BackoffFactor ELSE MaxDelay

\* The loop counter, and a loop that forgets to advance it.
SameAttempt(a) == a
NextAttempt(a) == a + 1

\* The sleep ends: the delay grows and the call is made once more.
Wake(c) ==
    /\ pc[c] = "backoff"
    /\ pc' = [pc EXCEPT ![c] = "sent"]
    /\ delay' = [delay EXCEPT ![c] = NextDelay(@)]
    /\ attempt' = [attempt EXCEPT ![c] = NextAttempt(@)]
    /\ inflight' = [inflight EXCEPT ![c] = @ \cup {NextAttempt(attempt[c])}]
    /\ UNCHANGED <<failure, result, applied>>
-----------------------------------------------------------------------------
\* The server executes an attempt, early or late.
Deliver(c, a) ==
    /\ a \in inflight[c]
    /\ inflight' = [inflight EXCEPT ![c] = @ \ {a}]
    /\ applied' = [applied EXCEPT ![c] = @ \cup {a}]
    /\ UNCHANGED <<pc, attempt, delay, failure, result>>

\* A request never arrives, or the server turns it down without effect.
Lose(c, a) ==
    /\ a \in inflight[c]
    /\ inflight' = [inflight EXCEPT ![c] = @ \ {a}]
    /\ UNCHANGED <<pc, attempt, delay, failure, result, applied>>

Client(c) == Begin(c) \/ Succeed(c) \/ (\E code \in Codes : Fail(c, code)) \/ Wake(c)

Network(c) == \E a \in inflight[c] : Deliver(c, a) \/ Lose(c, a)

Next == \E c \in Calls : Client(c) \/ Network(c)

Spec == Init /\ [][Next]_vars

(* A pending attempt ends (with an answer or a broken connection) and a    *)
(* sleeping call wakes.  The second is tokio's timer.  The first is asked  *)
(* of the network: the transport sets no deadline of its own.              *)
Fairness ==
    \A c \in Calls : /\ WF_vars(Succeed(c) \/ \E code \in Codes : Fail(c, code))
                     /\ WF_vars(Wake(c))

FairSpec == Spec /\ Fairness
-----------------------------------------------------------------------------
TypeOK ==
    /\ pc \in [Calls -> {"idle", "sent", "backoff", "done"}]
    /\ attempt \in [Calls -> Attempts]
    /\ delay \in [Calls -> Nat]
    /\ failure \in [Calls -> Codes \cup {"none"}]
    /\ result \in [Calls -> Codes \cup {"none", "ok"}]
    /\ inflight \in [Calls -> SUBSET Attempts]
    /\ applied \in [Calls -> SUBSET Attempts]

(* A transient error reaches the caller only when the retries are used up. *)
(* Any other one reaches it at once: no attempt follows it, and no status  *)
(* takes its place (interceptors.rs:189-197).                              *)
ErrorIsJustified ==
    \A c \in Calls :
        /\ result[c] \in RetryableCodes => attempt[c] = MaxRetries
        /\ pc[c] = "backoff" => attempt[c] < MaxRetries
        /\ failure[c] \in OtherCodes => pc[c] = "done" /\ result[c] = failure[c]

\* BaseDelay * BackoffFactor^k
Uncapped[k \in Nat] == IF k = 0 THEN BaseDelay ELSE Uncapped[k - 1] * BackoffFactor

(* The sleeps are BaseDelay * BackoffFactor^k, cut off at MaxDelay after   *)
(* the first: the cap of one step never disturbs the following ones.       *)
BackoffSchedule ==
    \A c \in Calls :
        LET uncapped == Uncapped[attempt[c]]
        IN  delay[c] = IF attempt[c] = 0 \/ uncapped < MaxDelay THEN uncapped ELSE MaxDelay

(* Whatever is or will be executed for a call was sent by it: no attempt   *)
(* beyond the current one exists anywhere, and a call that never started   *)
(* leaves no trace.                                                        *)
OnlySentAttempts ==
    \A c \in Calls :
        /\ inflight[c] \cup applied[c] \subseteq 0..attempt[c]
        /\ inflight[c] \cap applied[c] = {}
        /\ pc[c] = "idle" => inflight[c] \cup applied[c] = {}

\* Every call made returns to its caller, whatever the network answers.
CallReturns == \A c \in Calls : pc[c] = "sent" ~> pc[c] = "done"
=============================================================================
