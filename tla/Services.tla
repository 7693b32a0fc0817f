------------------------------ MODULE Services ------------------------------
(***************************************************************************)
(* The parts that share no state, side by side: each behaviour follows one *)
(* of them, any of their callers, while the others stay in an idle state.  *)
(***************************************************************************)
EXTENDS NamedObjects, EphemeralObject, CallRetries, Requests, Configuration, InputPlane

Parts == {"objects", "ephemeral", "call", "request", "configuration", "attempt"}

VARIABLE part         \* the part that is followed

partsVars == <<part, objVars, ephVars, callVars, reqVars, cfgVars, attVars>>

PartsInit ==
    /\ ObjInit /\ (part # "objects" => objService = "volume")
    /\ EphInit /\ ReqInit /\ AttInit
    /\ IF part = "call" THEN CallInit ELSE CallIdle
    /\ IF part = "configuration" THEN CfgInit ELSE CfgIdle

PartsNext ==
    \/ part = "objects" /\ ObjNext /\ UNCHANGED <<part, ephVars, callVars, reqVars, cfgVars, attVars>>
    \/ part = "ephemeral" /\ EphNext /\ UNCHANGED <<part, objVars, callVars, reqVars, cfgVars, attVars>>
    \/ part = "call" /\ CallNext /\ UNCHANGED <<part, objVars, ephVars, reqVars, cfgVars, attVars>>
    \/ part = "request" /\ ReqNext /\ UNCHANGED <<part, objVars, ephVars, callVars, cfgVars, attVars>>
    \/ part = "configuration" /\ CfgNext /\ UNCHANGED <<part, objVars, ephVars, callVars, reqVars, attVars>>
    \/ part = "attempt" /\ AttNext /\ UNCHANGED <<part, objVars, ephVars, callVars, reqVars, cfgVars>>

PartsSpec == PartsInit /\ [][PartsNext]_partsVars
-----------------------------------------------------------------------------
(* The types of the part that is followed; the others keep their values.   *)
PartsTypeOK ==
    /\ part = "objects" => ObjTypeOK
    /\ part = "ephemeral" => EphTypeOK
    /\ part = "call" => CallTypeOK
    /\ part = "request" => ReqTypeOK
    /\ part = "configuration" => CfgTypeOK
    /\ part = "attempt" => AttTypeOK

(* Answers are about what the caller means: that of a delete about the     *)
(* object that had the name (volume.rs:172-199), and an output about the   *)
(* attempt that the last retry began (invocation.rs:266-303).              *)
AnswersAreOfTheTarget == DeleteKeepsItsWord /\ AwaitsTheLatestAttempt

(* What a caller sets is what counts, whichever way it goes: the last      *)
(* option set for a field wins over the ones before it, the limits and     *)
(* requests that are asked for are those of the request, and the source    *)
(* that ranks highest gives a setting of the configuration                 *)
(* (cls.rs:137-270, sandbox.rs:192-225, transport.rs:993-1022,             *)
(* config.rs:85-189).                                                      *)
ParametersSurvive == LastOptionWins /\ LimitsSurvive /\ HighestRankWins

(* A call with retries that has a limit on them or a deadline returns, and *)
(* so does a wait for an attempt with a timeout, also when the attempt     *)
(* does not end (task_command_router.rs:55-95, invocation.rs:322-341).     *)
CallsAndAwaitsEnd == CallEnds /\ AwaitEnds
=============================================================================
