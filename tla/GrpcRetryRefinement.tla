------------------------- MODULE GrpcRetryRefinement -------------------------
(***************************************************************************)
(* The retry loop implements RpcCall: what the server has executed of a    *)
(* call is the number of its attempts that arrived, and a call is pending  *)
(* from its first attempt until retry_call_async returns.                  *)
(***************************************************************************)
EXTENDS GrpcRetry, FiniteSets

statusBar ==
    [c \in Calls |->
        IF pc[c] \in {"sent", "backoff"} THEN "pending"
        ELSE IF pc[c] = "done" /\ result[c] # "ok" THEN "err"
        ELSE IF pc[c] = "done" THEN "ok" ELSE "idle"]

effectsBar == [c \in Calls |-> Cardinality(applied[c])]

Rpc == INSTANCE RpcCall
         WITH MaxEffects <- MaxRetries + 1, status <- statusBar, effects <- effectsBar

(* Ok means the server executed the call at least once; no call is ever    *)
(* executed more than MaxRetries + 1 times, before or after it returns.    *)
ImplementsRpcCall == Rpc!Spec
=============================================================================
