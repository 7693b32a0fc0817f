----------------------------- MODULE MCServices -----------------------------
(* The parts of Services with small values, and pickling as one part more. *)
EXTENDS Services, MCPickle

CONSTANTS c1, c2      \* callers

servicesVars == <<partsVars, pkVars>>

MCRetryOptions ==
    {[base_delay |-> d, delay_factor |-> 2, max_retries |-> m, deadline |-> l] :
        d \in {0, 1}, m \in {NoLimit, 0, 2}, l \in {NoLimit, 0, 4, 6}}
\* Without a limit, and with no delay, it is only the clock of the machine that ends a call.
MCBounded ==
    {o \in MCRetryOptions : o.max_retries # NoLimit \/ (o.deadline # NoLimit /\ o.base_delay > 0)}

MCServiceOptions ==
    [cpu : {NotSet, 0, 1, 4}, cpu_limit : {NotSet, 3, 5}, memory : {NotSet, 2}, memory_limit : {NotSet, 1, 3},
     gpu : {NotSet}, other : {NotSet}] \cup {[NoOptions EXCEPT !.gpu = 1], [NoOptions EXCEPT !.other = 1]}
MCSandboxParams ==
    [cpu : {-1, 0, 1, 4}, cpu_limit : {-1, 0, 1, 3, 5, 40}, memory : {-1, 0, 2}, memory_limit : {-1, 0, 1, 3},
     gpu : {NotSet, 0, 2, 16}]
MCSpecs == [name : {1, 2, 3}, type : {"string", "int", "list"}, has_default : BOOLEAN]
MCSchemas == {s \in UNION {[1..k -> MCSpecs] : k \in 0..2} : Len(s) = 2 => s[1].name # s[2].name}
MCParameters == UNION {[names -> [type : {"string", "int"}, n : {7}]] : names \in SUBSET {1, 2}}

MCPolicies ==
    [max_retries : {-1, 0, 10, 11}, backoff : {NotSet, NaN, 9, 10, 101}, initial_delay : {NotSet, 0, 121},
     max_delay : {NotSet, 1, 2, 121}]
MCMounts ==
    [secret : {NoSecret, "s"}, endpoint : {"", "invalid", "r2.cloudflarestorage.com", "storage.googleapis.com", "other"},
     requester_pays : BOOLEAN, read_only : BOOLEAN, key_prefix : {"", "prefix", "prefix/"}]

MCFields == <<"server_url", "token_id">>
MCRaw(url, token, active) == [fields |-> <<url, token>>, active |-> active]
MCFiles ==
    {NoFile, [NoFile EXCEPT !.readable = FALSE]} \cup
    [readable : {TRUE}, profiles : {<<MCRaw(0, 1, FALSE)>>, <<MCRaw(0, 1, FALSE), MCRaw(2, 0, TRUE)>>,
                                    <<MCRaw(0, 1, TRUE), MCRaw(2, 0, TRUE)>>}]
-----------------------------------------------------------------------------
ServicesInit ==
    /\ part \in Parts \cup {"pickle"}
    /\ PartsInit
    /\ objProfile = "main"     \* the other environment is asked for by name
    /\ IF part = "pickle" THEN PkInit ELSE PkIdle

ServicesNext ==
    \/ PartsNext /\ UNCHANGED pkVars
    \/ part = "pickle" /\ PkNext /\ UNCHANGED partsVars

ServicesSpec == ServicesInit /\ [][ServicesNext]_servicesVars /\ EphFairness /\ CallFairness /\ AttFairness

(* The types of the part that is followed; the others keep their values.   *)
ServicesTypeOK == PartsTypeOK /\ (part = "pickle" => PkTypeOK)
=============================================================================
