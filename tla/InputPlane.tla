----------------------------- MODULE InputPlane -----------------------------
(***************************************************************************)
(* A function call through the input plane (InputPlaneInvocation of        *)
(* invocation.rs): an attempt is started, awaited by its token, and        *)
(* retried, which answers with the token of another attempt.  No caller    *)
(* in src/ uses it; the application here calls its methods one after the   *)
(* other, in any order, and retries whatever the last result was.          *)
(*                                                                         *)
(* The server is external.  A token is the number of its attempt.  The     *)
(* RPCs are retried by the transport, so that attempts are started whose   *)
(* tokens never arrive.  What an attempt has for output stays with it.     *)
(* The variables begin with att, so that the module can be used beside     *)
(* others.                                                                 *)
(***************************************************************************)
EXTENDS Integers, Sequences

CONSTANTS MaxTries,         \* bound: attempts the server starts
          OutputsTimeout,   \* OUTPUTS_TIMEOUT
          AwaitTimeouts     \* the timeouts await_output is given

ASSUME InputPlaneAssumption ==
    MaxTries \in Nat \ {0} /\ OutputsTimeout \in Nat \ {0} /\ AwaitTimeouts \subseteq Nat

NoTimeout == -1      \* await_output(.., None)
NoToken == 0         \* there is no InputPlaneInvocation

\* What process_result makes of an output, as far as a caller would act on it.
AttResults == {"ok", "internal", "error"}

VARIABLES
    attTries,     \* the attempts: "running", or what their output comes to
    attToken,     \* InputPlaneInvocation::attempt_token
    attPc,        \* "idle", "starting", "retrying" or "polling"
    attLeft,      \* time until the deadline of await_output, or NoTimeout
    attPoll,      \* time until the current poll must be answered
    attLatest,    \* history: the attempt of the last answer to create or retry
    attAnswer     \* what the last await_output returned, and of which attempt

attVars == <<attTries, attToken, attPc, attLeft, attPoll, attLatest, attAnswer>>
attTimers == <<attLeft, attPoll>>

NoAnswer == [try |-> NoToken, result |-> "none"]

AttInit ==
    /\ attTries = <<>> /\ attToken = NoToken /\ attPc = "idle"
    /\ attLeft = NoTimeout /\ attPoll = 0
    /\ attLatest = NoToken /\ attAnswer = NoAnswer
-----------------------------------------------------------------------------
\* create and retry are called; retry gives the token it holds.
AttCall(pc) ==
    /\ attPc = "idle"
    /\ attPc' = pc
    /\ attAnswer' = NoAnswer
    /\ UNCHANGED <<attTries, attToken, attTimers, attLatest>>

AttCreate == attToken = NoToken /\ AttCall("starting")
AttRetry == attToken # NoToken /\ AttCall("retrying")

\* The server starts an attempt, perhaps the second one of the same call.
AttStarts ==
    /\ attPc \in {"starting", "retrying"}
    /\ Len(attTries) < MaxTries
    /\ attTries' = Append(attTries, "running")
    /\ UNCHANGED <<attToken, attPc, attTimers, attLatest, attAnswer>>

\* The attempt_token that a response leaves behind; and the slip to keep the first one.
FirstToken(try) == IF attToken = NoToken THEN try ELSE attToken
TokenAfter(try) == try

\* create and retry return: with an attempt started since, or with an error.
AttStarted(try) ==
    /\ attPc \in {"starting", "retrying"}
    /\ try > attLatest
    /\ attToken' = TokenAfter(try)
    /\ attLatest' = try
    /\ attPc' = "idle"
    /\ UNCHANGED <<attTries, attTimers, attAnswer>>

AttStartFails ==
    /\ attPc \in {"starting", "retrying"}
    /\ attPc' = "idle"
    /\ UNCHANGED <<attTries, attToken, attTimers, attLatest, attAnswer>>
-----------------------------------------------------------------------------
PollFor(left) == IF left = NoTimeout \/ left > OutputsTimeout THEN OutputsTimeout ELSE left

AttAwait(timeout) ==
    /\ attPc = "idle" /\ attToken # NoToken
    /\ attPc' = "polling"
    /\ attLeft' = timeout /\ attPoll' = PollFor(timeout)
    /\ attAnswer' = NoAnswer
    /\ UNCHANGED <<attTries, attToken, attLatest>>

AttReturns(result) ==
    /\ attPc' = "idle"
    /\ attLeft' = NoTimeout /\ attPoll' = 0
    /\ attAnswer' = [try |-> attToken, result |-> result]

\* AttemptAwait answers with the output of the attempt.
AttOutput ==
    /\ attPc = "polling"
    /\ attTries[attToken] # "running"
    /\ AttReturns(attTries[attToken])
    /\ UNCHANGED <<attTries, attToken, attLatest>>

(* It answers without one, when the poll's time is up or earlier:          *)
(* await_output gives up, or polls again.                                  *)
AttNothing ==
    /\ attPc = "polling"
    /\ attTries[attToken] = "running"
    /\ IF attLeft = 0
         THEN AttReturns("expired")
         ELSE attPoll' = PollFor(attLeft) /\ UNCHANGED <<attPc, attLeft, attAnswer>>
    /\ UNCHANGED <<attTries, attToken, attLatest>>

AttAwaitFails ==
    /\ attPc = "polling"
    /\ AttReturns("error")
    /\ UNCHANGED <<attTries, attToken, attLatest>>

AttTick ==
    /\ attPc = "polling"
    /\ attLeft > 0 \/ attPoll > 0
    /\ attPoll' = IF attPoll > 0 THEN attPoll - 1 ELSE 0
    /\ attLeft' = IF attLeft > 0 THEN attLeft - 1 ELSE attLeft
    /\ UNCHANGED <<attTries, attToken, attPc, attLatest, attAnswer>>

\* An attempt ends.
AttEnds(try, result) ==
    /\ attTries[try] = "running"
    /\ attTries' = [attTries EXCEPT ![try] = result]
    /\ UNCHANGED <<attToken, attPc, attTimers, attLatest, attAnswer>>

AttNext ==
    \/ AttCreate \/ AttRetry \/ AttStarts \/ AttStartFails
    \/ \E try \in DOMAIN attTries : AttStarted(try)
    \/ \E timeout \in AwaitTimeouts \cup {NoTimeout} : AttAwait(timeout)
    \/ AttOutput \/ AttNothing \/ AttAwaitFails \/ AttTick
    \/ \E try \in DOMAIN attTries, result \in AttResults : AttEnds(try, result)

AttSpec == AttInit /\ [][AttNext]_attVars

\* Time passes, and a poll that has an output, or whose time is up, is answered.
AttFairness == WF_attVars(AttOutput \/ (attPoll = 0 /\ AttNothing)) /\ WF_attVars(AttTick)
-----------------------------------------------------------------------------
AttTypeOK ==
    /\ attTries \in Seq(AttResults \cup {"running"}) /\ Len(attTries) <= MaxTries
    /\ attToken \in 0..Len(attTries) /\ attLatest \in 0..Len(attTries)
    /\ attPc \in {"idle", "starting", "retrying", "polling"}
    /\ attLeft \in Nat \cup {NoTimeout} /\ attPoll \in 0..OutputsTimeout
    /\ attAnswer.try \in 0..Len(attTries)
    /\ attAnswer.result \in AttResults \cup {"none", "expired"}

(* What await_output returns is about the attempt of the last answer to    *)
(* create or retry, never about one that a retry has replaced, also when   *)
(* that one ends later or a retry fails in between; and a poll never       *)
(* lasts beyond the deadline (invocation.rs:266-303).                      *)
AwaitsTheLatestAttempt ==
    /\ attAnswer # NoAnswer => attAnswer.try = attLatest
    /\ attLeft # NoTimeout => attPoll <= attLeft

(* await_output with a timeout comes to an end, also when the attempt does *)
(* not (invocation.rs:322-341).                                            *)
AwaitEnds == attPc = "polling" /\ attLeft # NoTimeout ~> attPc = "idle"
=============================================================================
