------------------------------- MODULE RpcCall -------------------------------
(***************************************************************************)
(* What a retried unary RPC of the SDK promises to the code that issues    *)
(* it.  The transport never sends an idempotency key, so a call is not     *)
(* exactly-once: it is AT LEAST once when it succeeds, and it may take     *)
(* effect on the server up to MaxEffects times, also while the caller      *)
(* still waits, after an error, or after the call has returned.            *)
(*                                                                         *)
(* GrpcRetry.tla is shown to implement this module; the modules that use   *)
(* an RPC (QueueOps, Invocation) rely on nothing stronger.                 *)
(***************************************************************************)
EXTENDS Naturals

CONSTANTS Calls,        \* the calls made
          MaxEffects    \* how often one call may take effect

VARIABLES status,       \* status[c]: "idle", "pending", "ok" or "err"
          effects       \* effects[c]: how often c took effect on the server

rvars == <<status, effects>>

Init ==
    /\ status = [c \in Calls |-> "idle"]
    /\ effects = [c \in Calls |-> 0]

Begin(c) ==
    /\ status[c] = "idle"
    /\ status' = [status EXCEPT ![c] = "pending"]
    /\ UNCHANGED effects

\* The server executes the call; nothing ties this to the caller still waiting.
Apply(c) ==
    /\ status[c] # "idle"
    /\ effects[c] < MaxEffects
    /\ effects' = [effects EXCEPT ![c] = @ + 1]
    /\ UNCHANGED status

ReturnOk(c) ==
    /\ status[c] = "pending"
    /\ effects[c] > 0
    /\ status' = [status EXCEPT ![c] = "ok"]
    /\ UNCHANGED effects

ReturnErr(c) ==
    /\ status[c] = "pending"
    /\ status' = [status EXCEPT ![c] = "err"]
    /\ UNCHANGED effects

Next == \E c \in Calls : Begin(c) \/ Apply(c) \/ ReturnOk(c) \/ ReturnErr(c)

Spec == Init /\ [][Next]_rvars
=============================================================================
