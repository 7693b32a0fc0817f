------------------------------ MODULE QueueOps ------------------------------
(***************************************************************************)
(* The operations of queue.rs on one partition of a Queue: producers run   *)
(* put (put_internal), getters run get or get_many (get_internal) and      *)
(* iterators run iterate.                                                  *)
(*                                                                         *)
(* The server is external.  It numbers the entries it stores; a partition  *)
(* keeps the numbers of those not yet taken and has room for Capacity.     *)
(* The RPCs are retried by the transport under no idempotency key, hence   *)
(* as in RpcCall: a put that is sent may be stored more than once and      *)
(* late, and a get whose answer is lost is executed again.                 *)
(* Time is kept per actor, as the units left until its deadline and until  *)
(* its current sleep or poll ends.                                         *)
(***************************************************************************)
EXTENDS Integers, Sequences, FiniteSets

CONSTANTS Producers, Getters, Iterators,
          MaxPuts,      \* bound: puts a producer makes, one after the other
          MaxStored,    \* bound: entries stored, repeated ones included
          GetSize,      \* n of get_many; 1 is get
          Capacity,     \* entries a partition has room for
          Timeouts,     \* the timeouts puts and gets choose from
          ItemPolls,    \* the item_poll_timeouts iterators choose from
          MaxPoll,      \* the longest poll: 50 s of get, 30 s of iterate
          FirstBackoff, \* QUEUE_INITIAL_PUT_BACKOFF
          MaxBackoff    \* the 30 s a put sleeps at most

ASSUME QueueAssumption ==
    /\ Producers \cap Getters = {} /\ Producers \cap Iterators = {} /\ Getters \cap Iterators = {}
    /\ MaxPuts \in Nat /\ MaxStored \in Nat /\ GetSize \in Nat \ {0} /\ Capacity \in Nat
    /\ Timeouts \subseteq Nat /\ ItemPolls \subseteq Nat
    /\ MaxPoll \in Nat \ {0} /\ FirstBackoff \in Nat \ {0} /\ MaxBackoff \in Nat \ {0}

Actors == Producers \cup Getters \cup Iterators

Forever == -1     \* params.timeout is None

VARIABLES
    log,       \* the entries ever stored: log[e] = <<p, k>>, the k-th put of p
    queue,     \* the entries not yet taken
    pc,        \* pc[a]: "idle", "calling", "sleeping" or "done"
    left,      \* left[a]: time until a's deadline, or Forever
    wait,      \* wait[a]: time until a's sleep or poll ends
    result,    \* result[a]: what a's last operation returned
    puts,      \* puts[p]: puts begun by p
    delay,     \* delay[p]: the backoff of p's current put
    landed,    \* landed[p]: p's current QueuePut has been executed
    acked,     \* history: the puts that returned Ok
    reply,     \* reply[g]: entries taken for g and on their way to it
    itemPoll,  \* itemPoll[i]: item_poll_timeout
    yielded    \* yielded[i]: entries in results, in the order of their arrival

vars == <<log, queue, pc, left, wait, result, puts, delay, landed, acked, reply, itemPoll, yielded>>

putting == <<puts, delay, landed, acked>>
iterating == <<itemPoll, yielded>>
server == <<log, queue>>

Smaller(m, n) == IF m < n THEN m ELSE n

\* What is left of a duration before a deadline.
Within(d, l) == IF l = Forever THEN d ELSE Smaller(d, l)

Return(a, r) ==
    /\ pc' = [pc EXCEPT ![a] = "done"]
    /\ result' = [result EXCEPT ![a] = r]
-----------------------------------------------------------------------------
Init ==
    /\ log = <<>> /\ queue = {}
    /\ pc = [a \in Actors |-> "idle"]
    /\ left = [a \in Actors |-> Forever]
    /\ wait = [a \in Actors |-> 0]
    /\ result = [a \in Actors |-> "none"]
    /\ puts = [p \in Producers |-> 0]
    /\ delay = [p \in Producers |-> FirstBackoff]
    /\ landed = [p \in Producers |-> FALSE]
    /\ acked = {}
    /\ reply = [g \in Getters |-> {}]
    /\ itemPoll = [i \in Iterators |-> 0]
    /\ yielded = [i \in Iterators |-> <<>>]
-----------------------------------------------------------------------------
\* put: the deadline and the delay are set, and the first QueuePut is sent.
StartPut(p) ==
    /\ pc[p] \in {"idle", "done"}
    /\ puts[p] < MaxPuts
    /\ puts' = [puts EXCEPT ![p] = @ + 1]
    /\ \E l \in Timeouts \cup {Forever} : left' = [left EXCEPT ![p] = l]
    /\ pc' = [pc EXCEPT ![p] = "calling"]
    /\ delay' = [delay EXCEPT ![p] = FirstBackoff]
    /\ landed' = [landed EXCEPT ![p] = FALSE]
    /\ result' = [result EXCEPT ![p] = "none"]
    /\ UNCHANGED <<server, wait, acked, reply, iterating>>

Room == Cardinality(queue) < Capacity

\* The server executes an attempt at p's k-th put: the latest, or a late one.
Store(p, k) ==
    /\ Room
    /\ Len(log) < MaxStored
    /\ log' = Append(log, <<p, k>>)
    /\ queue' = queue \cup {Len(log')}
    /\ landed' = [landed EXCEPT ![p] = @ \/ (pc[p] = "calling" /\ k = puts[p])]
    /\ UNCHANGED <<pc, left, wait, result, puts, delay, acked, reply, iterating>>

\* QueuePut answers Ok.
PutAcked(p) ==
    /\ pc[p] = "calling"
    /\ landed[p]
    /\ Return(p, "ok")
    /\ acked' = acked \cup {<<p, puts[p]>>}
    /\ UNCHANGED <<server, left, wait, puts, delay, landed, reply, iterating>>

\* delay.saturating_mul(2).min(30 s); and without the second.
DoubledUncapped(d) == 2 * d
Doubled(d) == Smaller(2 * d, MaxBackoff)

\* delay.min(remaining).
SleepFor(d, l) == Within(d, l)

\* remaining.is_zero(), and two slips: any deadline, or none, is over.
AnyDeadline(p) == left[p] # Forever
NeverOver(p) == FALSE
DeadlineOver(p) == left[p] = 0

(* QueuePut answers ResourceExhausted, which the transport does not retry. *)
(* An earlier attempt of the same QueuePut may have been stored.           *)
PutRefused(p) ==
    /\ pc[p] = "calling"
    /\ ~Room
    /\ \/ /\ DeadlineOver(p)
          /\ Return(p, "full")
          /\ UNCHANGED <<wait, delay, acked>>
       \/ /\ ~DeadlineOver(p)
          /\ pc' = [pc EXCEPT ![p] = "sleeping"]
          /\ delay' = [delay EXCEPT ![p] = SleepFor(Doubled(@), left[p])]
          /\ wait' = [wait EXCEPT ![p] = delay'[p]]
          /\ UNCHANGED <<result, acked>>
    /\ UNCHANGED <<server, left, puts, landed, reply, iterating>>

\* A catch-all arm that takes other errors for Ok.
PutSwallows(p) ==
    /\ pc[p] = "calling"
    /\ Return(p, "ok")
    /\ acked' = acked \cup {<<p, puts[p]>>}
    /\ UNCHANGED <<server, left, wait, puts, delay, landed, reply, iterating>>

\* Any other error: of the key, of the serialization, or of the RPC.
PutFails(p) ==
    /\ pc[p] = "calling"
    /\ Return(p, "error")
    /\ UNCHANGED <<server, left, wait, putting, reply, iterating>>

\* The sleep is over and the next QueuePut is sent.
Wake(p) ==
    /\ pc[p] = "sleeping"
    /\ wait[p] = 0
    /\ pc' = [pc EXCEPT ![p] = "calling"]
    /\ landed' = [landed EXCEPT ![p] = FALSE]
    /\ UNCHANGED <<server, left, wait, result, puts, delay, acked, reply, iterating>>
-----------------------------------------------------------------------------
\* The length of a poll, with l left; and one that is not cut at the deadline.
WholePoll(l) == MaxPoll
PollFor(l) == Within(MaxPoll, l)

\* get or get_many: one poll after the other until an answer holds entries.
StartGet(g) ==
    /\ pc[g] = "idle"
    /\ pc' = [pc EXCEPT ![g] = "calling"]
    /\ \E l \in Timeouts \cup {Forever} :
          /\ left' = [left EXCEPT ![g] = l]
          /\ wait' = [wait EXCEPT ![g] = PollFor(l)]
    /\ UNCHANGED <<server, result, putting, reply, iterating>>

\* The n oldest of a set of entries, or all.
Oldest(s, n) == {e \in s : Cardinality({f \in s : f <= e}) <= n}

\* The server executes an attempt at QueueGet.
Take(g) ==
    /\ pc[g] = "calling"
    /\ queue # {}
    /\ reply[g] = {}
    /\ reply' = [reply EXCEPT ![g] = Oldest(queue, GetSize)]
    /\ queue' = queue \ reply'[g]
    /\ UNCHANGED <<log, pc, left, wait, result, putting, iterating>>

\* Its answer is lost, and the transport sends QueueGet again.
LoseReply(g) ==
    /\ pc[g] = "calling"
    /\ reply[g] # {}
    /\ reply' = [reply EXCEPT ![g] = {}]
    /\ UNCHANGED <<server, pc, left, wait, result, putting, iterating>>

\* Its answer arrives; one entry that does not unpickle fails them all.
Got(g) ==
    /\ pc[g] = "calling"
    /\ reply[g] # {}
    /\ reply' = [reply EXCEPT ![g] = {}]
    /\ \E r \in {"ok", "error"} : Return(g, r)
    /\ UNCHANGED <<server, left, wait, putting, iterating>>

(* An empty answer, when the poll's time is up or earlier: give up when    *)
(* the timeout has elapsed, or poll again.                                 *)
GotNothing(g) ==
    /\ pc[g] = "calling"
    /\ queue = {} /\ reply[g] = {}
    /\ \/ DeadlineOver(g) /\ Return(g, "empty") /\ UNCHANGED wait
       \/ /\ ~DeadlineOver(g)
          /\ wait' = [wait EXCEPT ![g] = PollFor(left[g])]
          /\ UNCHANGED <<pc, result>>
    /\ UNCHANGED <<server, left, putting, reply, iterating>>

GetFails(g) ==
    /\ pc[g] = "calling"
    /\ Return(g, "error")
    /\ reply' = [reply EXCEPT ![g] = {}]
    /\ UNCHANGED <<server, left, wait, putting, iterating>>
-----------------------------------------------------------------------------
StartIterate(i) ==
    /\ pc[i] = "idle"
    /\ pc' = [pc EXCEPT ![i] = "calling"]
    /\ \E d \in ItemPolls :
          /\ itemPoll' = [itemPoll EXCEPT ![i] = d]
          /\ left' = [left EXCEPT ![i] = d]
          /\ wait' = [wait EXCEPT ![i] = PollFor(d)]
    /\ UNCHANGED <<server, result, putting, reply, yielded>>

\* last_entry_id: of the last entry in results; and one that stays empty.
FromTheStart(i) == 0
LastEntry(i) == IF yielded[i] = <<>> THEN 0 ELSE yielded[i][Len(yielded[i])]

Unseen(i) == {e \in queue : e > LastEntry(i)}

\* item_poll.is_zero() && !results.is_empty(), after a batch; and without the first test.
StopsAlways(i) == TRUE
StopsEarly(i) == itemPoll[i] = 0

(* QueueNextItems answers with entries, which stay in the queue.  A batch  *)
(* is taken in entry by entry; `more` says that it holds another.          *)
NextItem(i) ==
    /\ pc[i] = "calling"
    /\ \E e \in Oldest(Unseen(i), 1) : yielded' = [yielded EXCEPT ![i] = Append(@, e)]
    /\ \E more \in BOOLEAN : IF StopsEarly(i) /\ ~more
         THEN Return(i, "ok") /\ UNCHANGED <<left, wait>>
         ELSE /\ left' = [left EXCEPT ![i] = itemPoll[i]]
              /\ wait' = [wait EXCEPT ![i] = PollFor(itemPoll[i])]
              /\ UNCHANGED <<pc, result>>
    /\ UNCHANGED <<server, putting, reply, itemPoll>>

(* It answers with none, when the poll's time is up or earlier: the        *)
(* iteration ends once its fetch deadline is over.                         *)
NoItems(i) ==
    /\ pc[i] = "calling"
    /\ Unseen(i) = {}
    /\ \/ DeadlineOver(i) /\ Return(i, "ok") /\ UNCHANGED wait
       \/ /\ ~DeadlineOver(i)
          /\ wait' = [wait EXCEPT ![i] = PollFor(left[i])]
          /\ UNCHANGED <<pc, result>>
    /\ UNCHANGED <<server, left, putting, reply, iterating>>

\* The RPC fails or an entry does not unpickle: what was read is dropped.
IterateFails(i) ==
    /\ pc[i] = "calling"
    /\ Return(i, "error")
    /\ UNCHANGED <<server, left, wait, putting, reply, iterating>>
-----------------------------------------------------------------------------
\* clear: QueueClear is executed, for this partition or for all, perhaps late or again.
Clear ==
    /\ queue # {}
    /\ queue' = {}
    /\ UNCHANGED <<log, pc, left, wait, result, putting, reply, iterating>>

\* The clock of a deadline: Forever never runs out.
CountDown(n) == IF n > 0 THEN n - 1 ELSE n

\* A unit of time passes for an actor that waits.
Tick(a) ==
    /\ pc[a] \in {"calling", "sleeping"}
    /\ left[a] > 0 \/ wait[a] > 0
    /\ left' = [left EXCEPT ![a] = CountDown(@)]
    /\ wait' = [wait EXCEPT ![a] = CountDown(@)]
    /\ UNCHANGED <<server, pc, result, putting, reply, iterating>>

Next ==
    \/ \E p \in Producers :
          \/ StartPut(p) \/ PutAcked(p) \/ PutRefused(p) \/ PutFails(p) \/ Wake(p)
          \/ \E k \in 1..puts[p] : Store(p, k)
    \/ \E g \in Getters :
          StartGet(g) \/ Take(g) \/ LoseReply(g) \/ Got(g) \/ GotNothing(g) \/ GetFails(g)
    \/ \E i \in Iterators :
          StartIterate(i) \/ NextItem(i) \/ NoItems(i) \/ IterateFails(i)
    \/ Clear \/ \E a \in Actors : Tick(a)

Spec == Init /\ [][Next]_vars

(* Time passes, and every RPC is answered in some way, errors included; a  *)
(* poll that finds nothing is answered when its time is up, and need not   *)
(* be earlier.                                                             *)
FairSpec ==
    /\ Spec
    /\ \A a \in Actors : WF_vars(Tick(a))
    /\ \A p \in Producers : WF_vars(PutAcked(p) \/ PutRefused(p) \/ PutFails(p)) /\ WF_vars(Wake(p))
    /\ \A g \in Getters : WF_vars(Take(g) \/ Got(g) \/ (wait[g] = 0 /\ GotNothing(g)))
    /\ \A i \in Iterators : WF_vars(NextItem(i) \/ (wait[i] = 0 /\ NoItems(i)))
-----------------------------------------------------------------------------
(* The sleeps of put: they are never of no length, never above the cap     *)
(* once doubled, and start from FirstBackoff.                              *)
Delays == {FirstBackoff} \cup 1..MaxBackoff

TypeOK ==
    /\ log \in Seq(Producers \X Nat) /\ queue \subseteq 1..Len(log)
    /\ pc \in [Actors -> {"idle", "calling", "sleeping", "done"}]
    /\ left \in [Actors -> Nat \cup {Forever}] /\ wait \in [Actors -> Nat]
    /\ result \in [Actors -> {"none", "ok", "full", "empty", "error"}]
    /\ puts \in [Producers -> Nat] /\ delay \in [Producers -> Delays]
    /\ landed \in [Producers -> BOOLEAN] /\ acked \subseteq Producers \X Nat
    /\ reply \in [Getters -> SUBSET (1..Len(log))]
    /\ itemPoll \in [Iterators -> Nat] /\ yielded \in [Iterators -> Seq(1..Len(log))]

(* QueueFull and QueueEmpty are returned only when the whole timeout has   *)
(* passed, and never to a caller without one (queue.rs:384-391, 466-473).  *)
GivesUpOnlyWhenTimeIsUp ==
    \A a \in Actors : result[a] \in {"full", "empty"} => left[a] = 0

(* No sleep of put and no poll of get or iterate is asked to last beyond   *)
(* the deadline of its call, whatever earlier ones took.                   *)
WaitsWithinDeadline ==
    \A a \in Actors : left[a] # Forever => wait[a] <= left[a]

(* What a timeout promises, to the calls that have one: both of these      *)
(* (queue.rs:348-401, 430-480, 511-561).                                   *)
TimeoutsAreKept == GivesUpOnlyWhenTimeIsUp /\ WaitsWithinDeadline

(* A producer's puts are stored in their order: once a put has returned    *)
(* Ok, no copy of a later one of its producer comes before its first.      *)
NothingOvertakes ==
    \A x \in DOMAIN log, a \in acked :
        log[x][1] = a[1] /\ log[x][2] >= a[2] => \E y \in 1..x : log[y] = a

(* iterate returns every entry at most once and in the queue's order, also *)
(* while getters take entries in between (queue.rs:548-553).               *)
YieldsInOrder ==
    \A i \in Iterators : \A m, n \in DOMAIN yielded[i] : m < n => yielded[i][m] < yielded[i][n]

(* An iterate with an item_poll_timeout ends only when an answer told it   *)
(* that nothing is left: no entry stored since it began, and not taken by  *)
(* a getter or cleared, is missing from its results (queue.rs:541-561).    *)
EndsWhenIdle ==
    [][\A i \in Iterators :
          itemPoll[i] > 0 /\ result[i] = "none" /\ result'[i] = "ok" => Unseen(i)' = {}]_vars

(* "Put adds a single item to the end of the Queue."                       *)
PutAddsASingleItem ==
    \A x, y \in DOMAIN log : log[x] = log[y] => x = y

(* A put with a timeout comes to an end, also when others fill the queue   *)
(* each time there is room, and so does a get with a timeout, also when    *)
(* other getters take what comes (queue.rs:368-396, 459-477).              *)
CallsEnd ==
    /\ \A p \in Producers : pc[p] = "sleeping" /\ left[p] # Forever ~> pc[p] = "done"
    /\ \A g \in Getters : pc[g] = "calling" /\ left[g] # Forever ~> pc[g] = "done"

(* And so does iterate, once the puts have come to an end.                 *)
IterateEnds == \A i \in Iterators : pc[i] = "calling" ~> pc[i] = "done"
=============================================================================
