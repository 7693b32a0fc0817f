---------------------------- MODULE CommandRouter ----------------------------
(***************************************************************************)
(* TaskCommandRouterClient of task_command_router.rs, shared by several    *)
(* threads.  Its JWT and the expiry parsed from it live behind two         *)
(* separate mutexes, and `closed` is an atomic that each operation reads   *)
(* once, before its first call.  The operations (mount_directory,          *)
(* snapshot_directory, exec_start, exec_stdin_write, exec_wait,            *)
(* exec_stdio_read) differ only in the RPC they make, so an operation here *)
(* is any of them.                                                         *)
(*                                                                         *)
(* A token is the number of the access response that carried it.  All      *)
(* tokens live equally long, so they grow stale (closer to their expiry    *)
(* than the 30 s refresh buffer, or past it) in the order of their issue.  *)
(***************************************************************************)
EXTENDS Naturals

CONSTANTS Threads,       \* threads that share the client
          MaxTokens,     \* bound: access responses the server hands out
          OpaqueTokens   \* tokens without an exp claim

ASSUME RouterAssumption ==
    /\ MaxTokens \in Nat \ {0}
    /\ OpaqueTokens \subseteq 1..MaxTokens

Tokens == 1..MaxTokens

None == 0    \* jwt_exp without a value

VARIABLES
    jwt,        \* the Mutex<String>
    jwtExp,     \* the Mutex<Option<i64>>: the token the expiry was parsed from, or None
    closed,     \* the AtomicBool
    pc,         \* pc[t]: where t is
    own,        \* own[t]: t's clone of the jwt it calls with
    fetched,    \* fetched[t]: the token of t's last access response
    keepAlive,  \* keepAlive[t]: t runs refresh_jwt_if_needed, not an operation
    issued,     \* access responses handed out so far
    foreign,    \* tokens that came with another server URL
    stale,      \* tokens 1..stale are close to their expiry or past it
    replaced    \* history: tokens that were in jwt once and are no longer

vars == <<jwt, jwtExp, closed, pc, own, fetched, keepAlive, issued, foreign, stale, replaced>>

client == <<jwt, jwtExp, closed, replaced>>
server == <<issued, foreign, stale>>
local == <<own, fetched, keepAlive>>

\* parse_jwt_expiration(..).unwrap_or(None): no exp claim, no expiry.
ExpOfAny(k) == k
ExpOf(k) == IF k \in OpaqueTokens THEN None ELSE k

Goto(t, from, to) == pc[t] = from /\ pc' = [pc EXCEPT ![t] = to]
-----------------------------------------------------------------------------
\* init: the first access response becomes the session's token and URL.
Init ==
    /\ jwt = 1
    /\ jwtExp = ExpOf(1)
    /\ closed = FALSE
    /\ pc = [t \in Threads |-> "idle"]
    /\ own = [t \in Threads |-> 1]
    /\ fetched = [t \in Threads |-> 1]
    /\ keepAlive = [t \in Threads |-> FALSE]
    /\ issued = 1
    /\ foreign = {}
    /\ stale = 0
    /\ replaced = {}

Close ==
    /\ ~closed
    /\ closed' = TRUE
    /\ UNCHANGED <<jwt, jwtExp, replaced, pc, local, server>>

\* An operation that does not look at the flag.
BeginUnchecked(t) ==
    /\ Goto(t, "idle", "ready")
    /\ keepAlive' = [keepAlive EXCEPT ![t] = FALSE]
    /\ UNCHANGED <<client, own, fetched, server>>

\* An operation starts: refused when closed, and this is its only look at it.
Begin(t) ==
    /\ ~closed
    /\ Goto(t, "idle", "ready")
    /\ keepAlive' = [keepAlive EXCEPT ![t] = FALSE]
    /\ UNCHANGED <<client, own, fetched, server>>

\* current_jwt: a clone taken under the lock, for the first or the second call.
ReadJwt(t) ==
    /\ \/ Goto(t, "ready", "calling")
       \/ Goto(t, "reread", "recalling")
    /\ own' = [own EXCEPT ![t] = jwt]
    /\ UNCHANGED <<client, fetched, keepAlive, server>>

\* The router answers the first call: only UNAUTHENTICATED is handled.
FirstReply(t) ==
    /\ \/ Goto(t, "calling", "idle")        \* Ok, or an error that is returned
       \/ Goto(t, "calling", "force")       \* UNAUTHENTICATED
    /\ UNCHANGED <<client, local, server>>

\* A second answer that starts the retry over.
SpinOnUnauthenticated(t) ==
    /\ \/ Goto(t, "recalling", "idle")
       \/ Goto(t, "recalling", "reread")
    /\ UNCHANGED <<client, local, server>>

\* The router answers the second call: whatever it says, it is returned.
SecondReply(t) ==
    /\ Goto(t, "recalling", "idle")
    /\ UNCHANGED <<client, local, server>>
-----------------------------------------------------------------------------
\* A refresh that installs the last access response once more.
ForceRefreshFromCache(t) ==
    /\ pc[t] = "force"
    /\ pc' = [pc EXCEPT ![t] = IF closed THEN "idle" ELSE "install"]
    /\ UNCHANGED <<client, local, server>>

\* force_refresh_jwt, up to the access request.
ForceRefresh(t) ==
    /\ pc[t] = "force"
    /\ pc' = [pc EXCEPT ![t] = IF closed THEN "idle" ELSE "fetching"]
    /\ UNCHANGED <<client, local, server>>

\* refresh_jwt_if_needed, up to the expiry check.
BeginKeepAlive(t) ==
    /\ ~closed
    /\ Goto(t, "idle", "checking")
    /\ keepAlive' = [keepAlive EXCEPT ![t] = TRUE]
    /\ UNCHANGED <<client, own, fetched, server>>

\* exp_val - now > JWT_REFRESH_BUFFER_SECONDS; false without an expiry.
FarAway == jwtExp # None /\ jwtExp > stale

\* The expiry is compared under its lock: far enough away, nothing to do.
SkipRefresh(t) ==
    /\ FarAway
    /\ Goto(t, "checking", "idle")
    /\ UNCHANGED <<client, local, server>>

NeedRefresh(t) ==
    /\ ~FarAway
    /\ Goto(t, "checking", "fetching")
    /\ UNCHANGED <<client, local, server>>

\* The answer to the access request must name the session's URL.
AcceptAnyUrl(u) == TRUE
SameUrl(u) == u = "session"

\* The access request is answered with a token of its own and with a URL.
Fetch(t) ==
    /\ pc[t] = "fetching"
    /\ issued < MaxTokens
    /\ issued' = issued + 1
    /\ \E url \in {"session", "other"} :
          /\ foreign' = IF url = "session" THEN foreign ELSE foreign \cup {issued + 1}
          /\ IF SameUrl(url)
               THEN /\ pc' = [pc EXCEPT ![t] = "install"]
                    /\ fetched' = [fetched EXCEPT ![t] = issued + 1]
               ELSE /\ pc' = [pc EXCEPT ![t] = "idle"]
                    /\ UNCHANGED fetched
    /\ UNCHANGED <<client, own, keepAlive, stale>>

\* The access request fails, and the operation with it.
FetchFails(t) ==
    /\ Goto(t, "fetching", "idle")
    /\ UNCHANGED <<client, local, server>>

\* A refresh that installs only the expiry.
DropNewJwt(t) ==
    /\ Goto(t, "install", "installexp")
    /\ UNCHANGED <<client, local, server>>

\* First critical section: the new token.
InstallJwt(t) ==
    /\ Goto(t, "install", "installexp")
    /\ jwt' = fetched[t]
    /\ replaced' = replaced \cup {jwt}
    /\ UNCHANGED <<jwtExp, closed, local, server>>

\* Second critical section: its expiry.
InstallExp(t) ==
    /\ Goto(t, "installexp", IF keepAlive[t] THEN "idle" ELSE "reread")
    /\ jwtExp' = ExpOf(fetched[t])
    /\ UNCHANGED <<jwt, closed, replaced, local, server>>
-----------------------------------------------------------------------------
\* The oldest token that is still good comes close to its expiry.
GrowStale ==
    /\ stale < issued
    /\ stale' = stale + 1
    /\ UNCHANGED <<client, pc, local, issued, foreign>>

Step(t) ==
    \/ ReadJwt(t) \/ FirstReply(t) \/ SecondReply(t)
    \/ ForceRefresh(t) \/ SkipRefresh(t) \/ NeedRefresh(t)
    \/ Fetch(t) \/ FetchFails(t) \/ InstallJwt(t) \/ InstallExp(t)

Next ==
    \/ Close \/ GrowStale
    \/ \E t \in Threads : Begin(t) \/ BeginKeepAlive(t) \/ Step(t)

Spec == Init /\ [][Next]_vars

(* A thread inside an operation keeps running, and its RPCs are answered   *)
(* (by the server, or by the transport when the connection breaks).        *)
FairSpec == Spec /\ \A t \in Threads : WF_vars(Step(t))
-----------------------------------------------------------------------------
Places == {"idle", "ready", "calling", "force", "checking", "fetching",
           "install", "installexp", "reread", "recalling"}

TypeOK ==
    /\ jwt \in Tokens
    /\ jwtExp \in (Tokens \ OpaqueTokens) \cup {None}
    /\ closed \in BOOLEAN
    /\ pc \in [Threads -> Places]
    /\ own \in [Threads -> Tokens]
    /\ fetched \in [Threads -> Tokens]
    /\ keepAlive \in [Threads -> BOOLEAN]
    /\ issued \in Tokens
    /\ foreign \in SUBSET Tokens
    /\ stale \in 0..issued
    /\ replaced \in SUBSET Tokens

(* The retry after UNAUTHENTICATED never presents the token the router     *)
(* just refused, although other threads refresh at the same time and may   *)
(* overwrite the new token before it is read back                          *)
(* (task_command_router.rs:325-339).                                       *)
RetryUsesAnotherToken ==
    [][\A t \in Threads : pc[t] = "reread" /\ pc'[t] = "recalling" => own'[t] # own[t]]_vars

(* A token that was replaced never comes back, however late the thread     *)
(* that fetched another one installs it.                                   *)
NoTokenComesBack == jwt \notin replaced

(* The client never presents a token issued for another router than the    *)
(* one the session started with (task_command_router.rs:274-278).          *)
NoForeignToken == jwt \notin foreign /\ \A t \in Threads : own[t] \notin foreign

(* The doc of refresh_jwt_if_needed, "Refresh the JWT if it's close to     *)
(* expiry": a caller that is told there is nothing to do holds a token     *)
(* that is not close to expiry (tokens without an expiry aside).           *)
RefreshedWhenCloseToExpiry ==
    [][\A t \in Threads : pc[t] = "checking" /\ pc'[t] = "idle" =>
            jwt > stale \/ jwt \in OpaqueTokens]_vars

(* close() quiesces the client: operations under way end, and after that   *)
(* no request is made any more.                                            *)
CloseQuiesces == closed ~> [](\A t \in Threads : pc[t] = "idle")

(* Every operation ends, whatever the router and the access endpoint       *)
(* answer: authentication is retried once, not for ever.                   *)
OperationEnds == \A t \in Threads : pc[t] # "idle" ~> pc[t] = "idle"
=============================================================================
