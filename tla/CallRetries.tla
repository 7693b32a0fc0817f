---------------------------- MODULE CallRetries ----------------------------
(***************************************************************************)
(* A call of the task command router with retries and a deadline           *)
(* (call_with_retries_on_transient_errors, task_command_router.rs), while  *)
(* another thread may close the client.                                    *)
(*                                                                         *)
(* Time is counted in ticks from the start of the call.  The request is    *)
(* external: it is answered at any time, and it is not cut off at the      *)
(* deadline.  The variables begin with call, so that the module can be     *)
(* used beside others.                                                     *)
(***************************************************************************)
EXTENDS Integers

CONSTANTS OptionsUsed,   \* the RetryOptions of the callers
          MaxTime        \* bound: ticks that are counted, at least the deadlines

NoLimit == -1            \* None of max_retries and deadline
Never == -1              \* no request has been sent
RetryOptions == [base_delay : Nat, delay_factor : Nat,
                 max_retries : Nat \cup {NoLimit}, deadline : Nat \cup {NoLimit}]

ASSUME CallAssumption ==
    OptionsUsed \subseteq RetryOptions /\ MaxTime \in Nat /\ \A opts \in OptionsUsed : opts.deadline <= MaxTime

TransientCodes == {"DeadlineExceeded", "Unavailable", "Cancelled", "Internal", "Unknown"}

\* The codes the properties tell apart: two that are transient, and one that is not.
Codes == {"Unavailable", "Cancelled", "NotFound"}

VARIABLES
    callOpts,     \* opts
    callPc,       \* "start" (of the loop), "calling", "sleeping" or "done"
    callDelay,    \* delay
    callRetries,  \* num_retries
    callLeft,     \* what is left of the sleep
    callNow,      \* the clock
    callClosed,   \* closed, which another thread sets
    callSent,     \* history: when the last request was sent, or Never
    callResult    \* "none", "ok", the code that is returned, "deadline" or "ClientClosed"

callVars == <<callOpts, callPc, callDelay, callRetries, callLeft, callNow, callClosed, callSent, callResult>>

Past(time) == callOpts.deadline # NoLimit /\ time >= callOpts.deadline
-----------------------------------------------------------------------------
CallBegins(opts, pc, result) ==
    /\ callOpts = opts /\ callPc = pc /\ callResult = result
    /\ callDelay = opts.base_delay /\ callRetries = 0 /\ callLeft = 0
    /\ callNow = 0 /\ callClosed = FALSE /\ callSent = Never

CallInit == \E opts \in OptionsUsed : CallBegins(opts, "start", "none")

\* There is no call.
CallIdle == CallBegins(CHOOSE opts \in OptionsUsed : TRUE, "done", "ok")

CallReturn(result) == callPc' = "done" /\ callResult' = result

\* The check at the head of the loop; and one that is not made.
HeadUnchecked == FALSE
GiveUp == Past(callNow)

\* Give up at the deadline, which a sleep may have overrun, or send the request.
CallStart ==
    /\ callPc = "start"
    /\ IF GiveUp
         THEN CallReturn("deadline") /\ UNCHANGED callSent
         ELSE callPc' = "calling" /\ callSent' = callNow /\ UNCHANGED callResult
    /\ UNCHANGED <<callOpts, callDelay, callRetries, callLeft, callNow, callClosed>>

CallOk ==
    /\ callPc = "calling"
    /\ CallReturn("ok")
    /\ UNCHANGED <<callOpts, callDelay, callRetries, callLeft, callNow, callClosed, callSent>>

\* Whether the sleep would last until the deadline.
TooLate == Past(callNow + callDelay)

RetriesUsedUp == callOpts.max_retries # NoLimit /\ callRetries >= callOpts.max_retries

\* The error arm, in its order.
CallError(code) ==
    /\ callPc = "calling"
    /\ IF callClosed /\ code = "Cancelled" THEN CallReturn("ClientClosed")
       ELSE IF code \notin TransientCodes \/ RetriesUsedUp THEN CallReturn(code)
       ELSE IF TooLate THEN CallReturn("deadline")
       ELSE callPc' = "sleeping" /\ UNCHANGED callResult
    /\ callLeft' = IF callPc' = "sleeping" THEN callDelay ELSE 0
    /\ UNCHANGED <<callOpts, callDelay, callRetries, callNow, callClosed, callSent>>

\* num_retries; and retries that are not counted.
RetriesUncounted == callRetries
OneMoreRetry == callRetries + 1

CallWake ==
    /\ callPc = "sleeping" /\ callLeft = 0
    /\ callPc' = "start"
    /\ callDelay' = callDelay * callOpts.delay_factor
    /\ callRetries' = OneMoreRetry
    /\ UNCHANGED <<callOpts, callLeft, callNow, callClosed, callSent, callResult>>

(* Time passes at every point of the call, and a sleep may overrun.  The   *)
(* clock stands still at MaxTime.                                          *)
CallTick ==
    /\ callPc # "done"
    /\ callNow' = IF callNow < MaxTime THEN callNow + 1 ELSE MaxTime
    /\ callLeft' = IF callLeft > 0 THEN callLeft - 1 ELSE 0
    /\ UNCHANGED <<callOpts, callPc, callDelay, callRetries, callClosed, callSent, callResult>>

CallClose ==
    /\ ~callClosed
    /\ callClosed' = TRUE
    /\ UNCHANGED <<callOpts, callPc, callDelay, callRetries, callLeft, callNow, callSent, callResult>>

CallNext ==
    \/ CallStart \/ CallOk \/ \E code \in Codes : CallError(code)
    \/ CallWake \/ CallTick \/ CallClose

\* The loop goes on, requests are answered, timers end sleeps.
CallFairness ==
    /\ WF_callVars(CallStart \/ CallWake \/ CallOk \/ \E code \in Codes : CallError(code))
    /\ WF_callVars(callPc = "sleeping" /\ CallTick)

CallSpec == CallInit /\ [][CallNext]_callVars
-----------------------------------------------------------------------------
CallTypeOK ==
    /\ callOpts \in OptionsUsed
    /\ callPc \in {"start", "calling", "sleeping", "done"}
    /\ callDelay \in Nat /\ callRetries \in Nat /\ callLeft \in Nat /\ callNow \in 0..MaxTime
    /\ callClosed \in BOOLEAN /\ callSent \in 0..MaxTime \cup {Never}
    /\ callResult \in Codes \cup {"none", "ok", "deadline", "ClientClosed"}
    /\ callPc = "done" <=> callResult # "none"

(* No request is sent at or after the deadline, as of the check at the     *)
(* head of the loop, also when a sleep overran it or it had passed before  *)
(* the call; no sleep is begun that would last until it; "deadline         *)
(* exceeded" is reported only when the next request would be sent too      *)
(* late; and an error that another try might have mended is returned only  *)
(* after all retries (task_command_router.rs:56-95).                       *)
DeadlineIsKept ==
    /\ callSent # Never => ~Past(callSent)
    /\ callPc = "sleeping" /\ callLeft > 0 => ~Past(callNow + callLeft)
    /\ callResult = "deadline" => Past(callNow + callDelay)
    /\ callResult \in TransientCodes => callRetries = callOpts.max_retries

(* With a deadline or a limit on the retries, the call returns (55-95).    *)
CallEnds == callPc = "start" ~> callPc = "done"
=============================================================================
