------------------------- MODULE CommandRouterProofs -------------------------
(***************************************************************************)
(* Proofs about the shared router client, for any number of threads and of *)
(* access responses.                                                       *)
(***************************************************************************)
EXTENDS CommandRouter, TLAPS

Pending(t) == pc[t] = "install"

(* Every token the client knows was issued, and none came with a foreign   *)
(* URL.                                                                    *)
KnownTokens ==
    /\ jwt <= issued
    /\ \A k \in replaced \cup foreign : k <= issued
    /\ \A t \in Threads : own[t] <= issued /\ fetched[t] <= issued

(* A token that waits to be installed is known to its thread alone.  This  *)
(* is what makes the overtaking of two refreshes harmless to the retry.    *)
PendingIsPrivate ==
    \A t \in Threads : Pending(t) =>
        /\ fetched[t] \notin replaced \cup {jwt} \cup foreign
        /\ \A u \in Threads \ {t} : Pending(u) => fetched[u] # fetched[t]

(* A thread calls with a token that is or was the client's; between its    *)
(* own refresh and its second call, with one that was replaced.            *)
CloneIsKnown ==
    \A t \in Threads :
        /\ own[t] \in replaced \cup {jwt}
        /\ pc[t] = "reread" \/ (pc[t] = "installexp" /\ ~keepAlive[t]) => own[t] \in replaced

IInv ==
    /\ TypeOK
    /\ KnownTokens
    /\ PendingIsPrivate
    /\ CloneIsKnown
    /\ NoTokenComesBack
    /\ NoForeignToken

(* In the session's first state the only token is the one of init.         *)
LEMMA InitIInv == Init => IInv
<1> SUFFICES ASSUME Init PROVE IInv
  OBVIOUS
<1> USE DEF Init
<1>1. 1 \in Tokens /\ ExpOf(1) \in (Tokens \ OpaqueTokens) \cup {None}
  BY RouterAssumption DEF Tokens, ExpOf
<1>2. TypeOK
  <2>1. closed \in BOOLEAN /\ keepAlive \in [Threads -> BOOLEAN]
    BY Zenon
  <2>2. stale \in 0..issued /\ pc \in [Threads -> Places]
    BY DEF Places
  <2>3. /\ jwt \in Tokens /\ issued \in Tokens
        /\ own \in [Threads -> Tokens] /\ fetched \in [Threads -> Tokens]
    BY <1>1
  <2>4. jwtExp \in (Tokens \ OpaqueTokens) \cup {None}
    BY <1>1
  <2>5. QED BY <2>1, <2>2, <2>3, <2>4 DEF TypeOK
<1>3. KnownTokens /\ PendingIsPrivate /\ CloneIsKnown
  BY DEF KnownTokens, PendingIsPrivate, Pending, CloneIsKnown
<1>4. NoTokenComesBack /\ NoForeignToken
  BY DEF NoTokenComesBack, NoForeignToken
<1>5. QED BY <1>2, <1>3, <1>4 DEF IInv

(* Steps that move one thread and touch neither tokens nor clones keep the *)
(* invariant, provided they do not lead into the installation.             *)
LEMMA QuietStep ==
    ASSUME IInv, NEW t \in Threads, NEW p \in Places \ {"install", "installexp", "reread"},
           pc' = [pc EXCEPT ![t] = p],
           UNCHANGED <<client, own, fetched, server>>,
           keepAlive' \in [Threads -> BOOLEAN],
           \A u \in Threads \ {t} : keepAlive'[u] = keepAlive[u]
    PROVE  IInv'
BY DEF IInv, TypeOK, Places, KnownTokens, PendingIsPrivate, Pending, CloneIsKnown,
       NoTokenComesBack, NoForeignToken, client, server

(* Taking a clone of the current token.                                    *)
LEMMA ReadJwtStep ==
    ASSUME IInv, NEW t \in Threads, ReadJwt(t) PROVE IInv'
BY DEF ReadJwt, Goto, IInv, TypeOK, Places, KnownTokens, PendingIsPrivate, Pending,
       CloneIsKnown, NoTokenComesBack, NoForeignToken, client, server

(* An access response brings a token nobody else knows.                    *)
LEMMA FetchStep ==
    ASSUME IInv, NEW t \in Threads, Fetch(t) PROVE IInv'
<1> USE DEF IInv, TypeOK
<1>1. /\ issued + 1 \in Tokens /\ issued \in Nat /\ issued' = issued + 1
      /\ UNCHANGED <<client, own, keepAlive, stale>>
  BY RouterAssumption DEF Fetch, Tokens
<1>2. PICK url \in {"session", "other"} :
          /\ foreign' = IF url = "session" THEN foreign ELSE foreign \cup {issued + 1}
          /\ IF url = "session"
               THEN /\ pc' = [pc EXCEPT ![t] = "install"]
                    /\ fetched' = [fetched EXCEPT ![t] = issued + 1]
               ELSE /\ pc' = [pc EXCEPT ![t] = "idle"]
                    /\ UNCHANGED fetched
  BY DEF Fetch, SameUrl
<1>3. TypeOK'
  BY <1>1, <1>2 DEF Places, Tokens, client
<1>4. KnownTokens'
  BY <1>1, <1>2 DEF KnownTokens, Tokens, client
<1>5. PendingIsPrivate'
  BY <1>1, <1>2 DEF PendingIsPrivate, Pending, KnownTokens, Tokens, client
<1>6. CloneIsKnown'
  BY <1>1, <1>2 DEF CloneIsKnown, client
<1>7. NoTokenComesBack' /\ NoForeignToken'
  BY <1>1, <1>2 DEF NoTokenComesBack, NoForeignToken, KnownTokens, Tokens, client
<1>8. QED BY <1>3, <1>4, <1>5, <1>6, <1>7

(* Installing a token: it is new to everybody, so no clone, no replaced    *)
(* token and no other pending token equals it.                             *)
LEMMA InstallJwtStep ==
    ASSUME IInv, NEW t \in Threads, InstallJwt(t) PROVE IInv'
<1> USE DEF IInv, TypeOK, InstallJwt, Goto, local, server
<1>1. TypeOK'
  BY DEF Places
<1>2. KnownTokens'
  BY DEF KnownTokens
<1>3. PendingIsPrivate'
  BY DEF PendingIsPrivate, Pending
<1>4. CloneIsKnown'
  BY DEF CloneIsKnown
<1>5. NoTokenComesBack' /\ NoForeignToken'
  BY DEF NoTokenComesBack, NoForeignToken, PendingIsPrivate, Pending
<1>6. QED BY <1>1, <1>2, <1>3, <1>4, <1>5

(* Installing the expiry.                                                  *)
LEMMA InstallExpStep ==
    ASSUME IInv, NEW t \in Threads, InstallExp(t) PROVE IInv'
<1> USE DEF IInv, TypeOK, InstallExp, Goto, local, server
<1>1. TypeOK'
  BY DEF Places, ExpOf, Tokens
<1>2. KnownTokens' /\ PendingIsPrivate' /\ NoTokenComesBack' /\ NoForeignToken'
  BY DEF KnownTokens, PendingIsPrivate, Pending, NoTokenComesBack, NoForeignToken
<1>3. CloneIsKnown'
  BY DEF CloneIsKnown
<1>4. QED BY <1>1, <1>2, <1>3

(* Every step of every thread keeps the invariant.                         *)
LEMMA ThreadKeepsIInv ==
    ASSUME IInv, NEW t \in Threads, Begin(t) \/ BeginKeepAlive(t) \/ Step(t)
    PROVE  IInv'
<1>1. ASSUME NEW p \in Places \ {"install", "installexp", "reread"},
             pc' = [pc EXCEPT ![t] = p], UNCHANGED <<client, local, server>>
      PROVE  IInv'
  BY <1>1, QuietStep DEF IInv, TypeOK, local
<1>2. CASE Begin(t)
  BY <1>2, QuietStep DEF Begin, Goto, Places, IInv, TypeOK
<1>3. CASE BeginKeepAlive(t)
  BY <1>3, QuietStep DEF BeginKeepAlive, Goto, Places, IInv, TypeOK
<1>4. CASE FirstReply(t) \/ SecondReply(t) \/ FetchFails(t)
  BY <1>4, <1>1 DEF FirstReply, SecondReply, FetchFails, Goto, Places
<1>5. CASE SkipRefresh(t) \/ NeedRefresh(t)
  BY <1>5, <1>1 DEF SkipRefresh, NeedRefresh, Goto, Places
<1>6. CASE ForceRefresh(t)
  BY <1>6, <1>1 DEF ForceRefresh, Places
<1>7. QED
  BY <1>2, <1>3, <1>4, <1>5, <1>6, ReadJwtStep, FetchStep, InstallJwtStep, InstallExpStep
  DEF Step

(* Closing the client and the passing of time keep the invariant.          *)
LEMMA EnvironmentKeepsIInv ==
    ASSUME IInv, Close \/ GrowStale \/ UNCHANGED vars PROVE IInv'
<1> USE DEF IInv, KnownTokens, PendingIsPrivate, Pending, CloneIsKnown,
            NoTokenComesBack, NoForeignToken
<1>1. CASE Close
  BY <1>1 DEF Close, TypeOK, local, server
<1>2. CASE GrowStale
  BY <1>2 DEF GrowStale, TypeOK, Tokens, local, client
<1>3. CASE UNCHANGED vars
  BY <1>3 DEF vars, TypeOK
<1>4. QED BY <1>1, <1>2, <1>3

LEMMA InductiveIInv == Spec => []IInv
<1>1. IInv /\ [Next]_vars => IInv'
  BY ThreadKeepsIInv, EnvironmentKeepsIInv DEF Next
<1>2. QED BY InitIInv, <1>1, PTL DEF Spec

(* Type correctness of the shared client.                                  *)
THEOREM TypeCorrect == Spec => []TypeOK
BY InductiveIInv, PTL DEF IInv

(* Once replaced, a token is never the client's again, in whatever order   *)
(* concurrent refreshes install what they fetched.                         *)
THEOREM ReplacedForGood == Spec => []NoTokenComesBack
BY InductiveIInv, PTL DEF IInv

(* The client holds and presents only tokens that came with its own URL.   *)
THEOREM UrlIsPinned == Spec => []NoForeignToken
BY InductiveIInv, PTL DEF IInv

(* The second call of call_with_auth_retry never presents the token of the *)
(* first one (task_command_router.rs:325-339).                             *)
THEOREM RetryIsNotARepeat == Spec => RetryUsesAnotherToken
<1>1. ASSUME IInv, [Next]_vars, NEW t \in Threads, pc[t] = "reread", pc'[t] = "recalling"
      PROVE  own'[t] # own[t]
  <2>1. own[t] \in replaced /\ jwt \notin replaced
    BY <1>1 DEF IInv, CloneIsKnown, NoTokenComesBack
  <2>2. ReadJwt(t)
    BY <1>1 DEF Next, vars, Close, GrowStale, Begin, BeginKeepAlive, Step, ReadJwt, FirstReply,
        SecondReply, ForceRefresh, SkipRefresh, NeedRefresh, Fetch, FetchFails, InstallJwt,
        InstallExp, Goto, IInv, TypeOK
  <2>3. own'[t] = jwt
    BY <1>1, <2>2 DEF ReadJwt, IInv, TypeOK
  <2>4. QED BY <2>1, <2>3
<1>2. IInv /\ [Next]_vars =>
        [\A t \in Threads : pc[t] = "reread" /\ pc'[t] = "recalling" => own'[t] # own[t]]_vars
  BY <1>1
<1>3. QED BY InductiveIInv, <1>2, PTL DEF Spec, RetryUsesAnotherToken
-----------------------------------------------------------------------------
(* How many steps an operation can still take.                             *)
StepsLeft ==
    [idle |-> 0, recalling |-> 1, reread |-> 2, installexp |-> 3, install |-> 4, fetching |-> 5,
     checking |-> 6, force |-> 6, calling |-> 7, ready |-> 8]

(* What OperationEnds and CloseQuiesces rest on: a thread in an operation  *)
(* only comes closer to its end, an idle one begins none once the client   *)
(* is closed, and a closed client stays closed.                            *)
ComesToAnEnd ==
    [][/\ \A t \in Threads : pc'[t] # pc[t] =>
              \/ StepsLeft[pc'[t]] < StepsLeft[pc[t]]
              \/ pc[t] = "idle" /\ ~closed
       /\ closed => closed']_vars

(* The step of a thread brings it closer to the end of its operation.      *)
LEMMA StepsCountDown ==
    ASSUME TypeOK, NEW t \in Threads, Step(t)
    PROVE  /\ UNCHANGED closed /\ StepsLeft[pc'[t]] < StepsLeft[pc[t]]
           /\ \A u \in Threads : u # t => pc'[u] = pc[u]
<1> USE DEF TypeOK, StepsLeft, Goto, client
<1>1. CASE ReadJwt(t) \/ FirstReply(t) \/ SecondReply(t)
  BY <1>1 DEF ReadJwt, FirstReply, SecondReply
<1>2. CASE ForceRefresh(t) \/ SkipRefresh(t) \/ NeedRefresh(t)
  BY <1>2 DEF ForceRefresh, SkipRefresh, NeedRefresh
<1>3. CASE Fetch(t)
  <2>1. pc[t] = "fetching" /\ UNCHANGED closed
    BY <1>3 DEF Fetch
  <2>2. pc' = [pc EXCEPT ![t] = "install"] \/ pc' = [pc EXCEPT ![t] = "idle"]
    BY <1>3 DEF Fetch
  <2>3. QED BY <2>1, <2>2
<1>4. CASE FetchFails(t) \/ InstallJwt(t)
  BY <1>4 DEF FetchFails, InstallJwt
<1>5. CASE InstallExp(t)
  <2>1. pc[t] = "installexp" /\ UNCHANGED closed
    BY <1>5 DEF InstallExp
  <2>2. pc' = [pc EXCEPT ![t] = "reread"] \/ pc' = [pc EXCEPT ![t] = "idle"]
    BY <1>5 DEF InstallExp
  <2>3. QED BY <2>1, <2>2
<1>6. QED BY <1>1, <1>2, <1>3, <1>4, <1>5 DEF Step

(* Every operation ends within eight steps of its thread, and a client     *)
(* that is closed comes to rest, for any number of threads: refreshes of   *)
(* others neither restart an operation nor keep it from its end            *)
(* (task_command_router.rs:237-241, 253-339).                              *)
THEOREM OperationsMoveOn == Spec => ComesToAnEnd
<1>1. ASSUME TypeOK, [Next]_vars
      PROVE  /\ \A t \in Threads : pc'[t] # pc[t] =>
                    \/ StepsLeft[pc'[t]] < StepsLeft[pc[t]]
                    \/ pc[t] = "idle" /\ ~closed
             /\ closed => closed'
  <2>1. CASE Close \/ GrowStale \/ UNCHANGED vars
    BY <2>1 DEF Close, GrowStale, vars, client
  <2>2. ASSUME NEW u \in Threads, Begin(u) \/ BeginKeepAlive(u)
        PROVE  /\ UNCHANGED closed /\ ~closed /\ pc[u] = "idle"
               /\ \A t \in Threads : t # u => pc'[t] = pc[t]
    BY <1>1, <2>2 DEF Begin, BeginKeepAlive, Goto, client, TypeOK
  <2>3. QED BY <1>1, <2>1, <2>2, StepsCountDown DEF Next
<1>2. TypeOK /\ [Next]_vars =>
        [/\ \A t \in Threads : pc'[t] # pc[t] =>
                \/ StepsLeft[pc'[t]] < StepsLeft[pc[t]]
                \/ pc[t] = "idle" /\ ~closed
         /\ closed => closed']_vars
  BY <1>1
<1>3. QED BY <1>2, TypeCorrect, PTL DEF Spec, ComesToAnEnd
=============================================================================
