----------------------------- MODULE QueueProofs -----------------------------
(***************************************************************************)
(* Proofs about the timeouts of put, get and iterate, about the order in   *)
(* which puts are stored and entries are yielded, about the end of an      *)
(* iteration, and that all this implements FifoQueue, for any number of    *)
(* producers, getters and iterators, any timeouts, capacity and backoff,   *)
(* and any number of puts.                                                 *)
(***************************************************************************)
EXTENDS QueueRefinement, SequenceTheorems, FiniteSetTheorems, TLAPS

Places == {"idle", "calling", "sleeping", "done"}
Results == {"none", "ok", "full", "empty", "error"}

(* The part of the state that timeouts are about.                          *)
TimersTyped ==
    /\ pc \in [Actors -> Places]
    /\ left \in [Actors -> Nat \cup {Forever}]
    /\ wait \in [Actors -> Nat]
    /\ result \in [Actors -> Results]
    /\ delay \in [Producers -> Nat] /\ itemPoll \in [Iterators -> Nat]

(* What holds of one actor: the two properties, and what makes them        *)
(* inductive.  Only a call that has ended has a result, and a producer     *)
(* waits only while it sleeps, so the deadline of its next put meets no    *)
(* wait left over from this one.                                           *)
Timely(a) ==
    /\ result[a] \in {"full", "empty"} => left[a] = 0
    /\ left[a] # Forever => wait[a] <= left[a]
    /\ pc[a] # "done" => result[a] = "none"
    /\ a \in Producers /\ pc[a] # "sleeping" => wait[a] = 0

IInv == TimersTyped /\ \A a \in Actors : Timely(a)

(* A sleep or a poll is cut to what is left until the deadline.            *)
LEMMA WithinBounded ==
    ASSUME NEW d \in Nat, NEW l \in Nat \cup {Forever}
    PROVE  Within(d, l) \in Nat /\ (l # Forever => Within(d, l) <= l)
BY DEF Within, Smaller, Forever

LEMMA PollBounded ==
    ASSUME NEW l \in Nat \cup {Forever}
    PROVE  PollFor(l) \in Nat /\ (l # Forever => PollFor(l) <= l)
BY QueueAssumption, WithinBounded DEF PollFor

LEMMA DoubledTyped == ASSUME NEW d \in Nat PROVE Doubled(d) \in Nat
BY QueueAssumption DEF Doubled, Smaller

(* The next sleep of a put: not of no length, and not above the cap.       *)
LEMMA DoubledIsCapped ==
    ASSUME NEW d \in Delays, NEW l \in Nat \cup {Forever}, l # 0
    PROVE  SleepFor(Doubled(d), l) \in 1..MaxBackoff
<1>1. d \in Nat /\ d >= 1
  BY QueueAssumption DEF Delays
<1>2. Doubled(d) \in 1..MaxBackoff
  BY <1>1, QueueAssumption DEF Doubled, Smaller
<1>3. QED BY <1>2, QueueAssumption DEF SleepFor, Within, Smaller, Forever

LEMMA InitIInv == Init => IInv
<1> SUFFICES ASSUME Init PROVE IInv
  OBVIOUS
<1>1. TimersTyped
  BY QueueAssumption DEF Init, TimersTyped, Places, Results, Forever
<1>2. \A a \in Actors : Timely(a)
  BY DEF Init, Timely, Forever
<1>3. QED BY <1>1, <1>2 DEF IInv

(* A step in which actor a moves to place q and result r with l units left *)
(* and w to wait, as is right for it, and no other actor moves.            *)
Moves(a, q, r, l, w) ==
    /\ q \in Places /\ r \in Results /\ l \in Nat \cup {Forever} /\ w \in Nat
    /\ pc' = [pc EXCEPT ![a] = q] /\ result' = [result EXCEPT ![a] = r]
    /\ left' = [left EXCEPT ![a] = l] /\ wait' = [wait EXCEPT ![a] = w]
    /\ delay' \in [Producers -> Nat] /\ itemPoll' \in [Iterators -> Nat]
    /\ r \in {"full", "empty"} => l = 0
    /\ l # Forever => w <= l
    /\ q # "done" => r = "none"
    /\ a \in Producers /\ q # "sleeping" => w = 0

LEMMA OneActorMoves ==
    ASSUME IInv, NEW a \in Actors, NEW q, NEW r, NEW l, NEW w, Moves(a, q, r, l, w)
    PROVE  IInv'
<1>1. TimersTyped'
  BY DEF IInv, TimersTyped, Moves
<1>2. \A b \in Actors : Timely(b)'
  BY DEF IInv, TimersTyped, Timely, Moves
<1>3. QED BY <1>1, <1>2 DEF IInv

(* An operation that returns r leaves its timers as they are.              *)
LEMMA ReturnStep ==
    ASSUME IInv, NEW a \in Actors, pc[a] = "calling", NEW r \in Results \ {"none"},
           Return(a, r), UNCHANGED <<left, wait, delay, itemPoll>>,
           r \in {"full", "empty"} => left[a] = 0
    PROVE  IInv'
<1>1. /\ left' = [left EXCEPT ![a] = left[a]] /\ wait' = [wait EXCEPT ![a] = wait[a]]
      /\ left[a] \in Nat \cup {Forever} /\ wait[a] \in Nat
      /\ delay' \in [Producers -> Nat] /\ itemPoll' \in [Iterators -> Nat]
      /\ left[a] # Forever => wait[a] <= left[a]
      /\ a \in Producers => wait[a] = 0
  BY DEF IInv, TimersTyped, Timely
<1>2. /\ pc' = [pc EXCEPT ![a] = "done"] /\ result' = [result EXCEPT ![a] = r]
      /\ r \in Results /\ "done" \in Places
  BY DEF Return, Places
<1>3. Moves(a, "done", r, left[a], wait[a])
  BY <1>1, <1>2 DEF Moves
<1>4. QED BY <1>3, OneActorMoves

(* Nothing happens to any timer.                                           *)
LEMMA NoTimer ==
    ASSUME IInv, UNCHANGED <<pc, left, wait, result, delay, itemPoll>> PROVE IInv'
<1>1. TimersTyped'
  BY DEF IInv, TimersTyped
<1>2. \A a \in Actors : Timely(a)'
  BY DEF IInv, Timely
<1>3. QED BY <1>1, <1>2 DEF IInv

(* An actor that goes on calling with w to wait of the l that are left.    *)
LEMMA PollStep ==
    ASSUME IInv, NEW a \in Getters \cup Iterators, NEW l \in Nat \cup {Forever},
           pc[a] # "done", pc' = [pc EXCEPT ![a] = "calling"], UNCHANGED <<result, delay>>,
           itemPoll' \in [Iterators -> Nat],
           left' = [left EXCEPT ![a] = l], wait' = [wait EXCEPT ![a] = PollFor(l)]
    PROVE  IInv'
<1>1. a \in Actors /\ a \notin Producers
  BY QueueAssumption DEF Actors
<1>2. result' = [result EXCEPT ![a] = "none"] /\ delay' \in [Producers -> Nat]
  BY <1>1 DEF IInv, TimersTyped, Timely
<1>3. Moves(a, "calling", "none", l, PollFor(l))
  BY <1>1, <1>2, PollBounded DEF Moves, Places, Results
<1>4. QED BY <1>1, <1>3, OneActorMoves

LEMMA StartPutStep == ASSUME IInv, NEW p \in Producers, StartPut(p) PROVE IInv'
<1>1. p \in Actors /\ pc[p] \in {"idle", "done"}
  BY DEF Actors, StartPut
<1>2. PICK l \in Timeouts \cup {Forever} : left' = [left EXCEPT ![p] = l]
  BY DEF StartPut
<1>3. l \in Nat \cup {Forever}
  BY QueueAssumption
<1>4. wait' = [wait EXCEPT ![p] = 0]
  BY <1>1 DEF StartPut, IInv, TimersTyped, Timely
<1>5. delay' \in [Producers -> Nat] /\ itemPoll' \in [Iterators -> Nat]
  BY QueueAssumption DEF StartPut, iterating, IInv, TimersTyped
<1>6. l # Forever => 0 <= l
  BY <1>3
<1>7. Moves(p, "calling", "none", l, 0)
  BY <1>2, <1>3, <1>4, <1>5, <1>6 DEF StartPut, Moves, Places, Results
<1>8. QED BY <1>1, <1>7, OneActorMoves

LEMMA PutRefusedStep == ASSUME IInv, NEW p \in Producers, PutRefused(p) PROVE IInv'
<1>1. p \in Actors /\ pc[p] = "calling" /\ UNCHANGED <<left, itemPoll>>
  BY DEF Actors, PutRefused, iterating
<1>2. CASE DeadlineOver(p) /\ Return(p, "full") /\ UNCHANGED <<wait, delay>>
  BY <1>1, <1>2, ReturnStep DEF DeadlineOver, Results
<1>3. CASE /\ pc' = [pc EXCEPT ![p] = "sleeping"]
           /\ delay' = [delay EXCEPT ![p] = SleepFor(Doubled(@), left[p])]
           /\ wait' = [wait EXCEPT ![p] = delay'[p]]
           /\ UNCHANGED result
  <2> DEFINE w == SleepFor(Doubled(delay[p]), left[p])
  <2>1. left[p] \in Nat \cup {Forever} /\ delay[p] \in Nat
    BY <1>1 DEF IInv, TimersTyped
  <2>2. w \in Nat /\ (left[p] # Forever => w <= left[p])
    BY <2>1, DoubledTyped, WithinBounded DEF SleepFor
  <2> HIDE DEF w
  <2>3. delay' = [delay EXCEPT ![p] = w] /\ delay'[p] = w /\ delay' \in [Producers -> Nat]
        /\ itemPoll' \in [Iterators -> Nat]
    BY <1>1, <1>3, <2>2 DEF w, IInv, TimersTyped
  <2>4. /\ result' = [result EXCEPT ![p] = "none"] /\ left' = [left EXCEPT ![p] = left[p]]
        /\ wait' = [wait EXCEPT ![p] = w]
    BY <1>1, <1>3, <2>3 DEF IInv, TimersTyped, Timely
  <2>5. Moves(p, "sleeping", "none", left[p], w)
    BY <1>3, <2>1, <2>2, <2>3, <2>4 DEF Moves, Places, Results
  <2>6. QED BY <1>1, <2>5, OneActorMoves
<1>4. QED BY <1>2, <1>3 DEF PutRefused

LEMMA WakeStep == ASSUME IInv, NEW p \in Producers, Wake(p) PROVE IInv'
<1>1. /\ p \in Actors /\ pc[p] = "sleeping" /\ wait[p] = 0
      /\ pc' = [pc EXCEPT ![p] = "calling"] /\ UNCHANGED <<left, wait, result, delay, itemPoll>>
  BY DEF Actors, Wake, iterating
<1>2. /\ result' = [result EXCEPT ![p] = "none"] /\ left' = [left EXCEPT ![p] = left[p]]
      /\ wait' = [wait EXCEPT ![p] = 0] /\ left[p] \in Nat \cup {Forever}
      /\ left[p] # Forever => 0 <= left[p]
      /\ delay' \in [Producers -> Nat] /\ itemPoll' \in [Iterators -> Nat]
  BY <1>1 DEF IInv, TimersTyped, Timely
<1>3. Moves(p, "calling", "none", left[p], 0)
  BY <1>1, <1>2 DEF Moves, Places, Results
<1>4. QED BY <1>1, <1>3, OneActorMoves

(* put: every step of a producer.                                          *)
LEMMA ProducerStep ==
    ASSUME IInv, NEW p \in Producers,
           \/ StartPut(p) \/ PutAcked(p) \/ PutRefused(p) \/ PutFails(p) \/ Wake(p)
           \/ \E k \in 1..puts[p] : Store(p, k)
    PROVE  IInv'
<1>1. p \in Actors
  BY DEF Actors
<1>2. CASE PutAcked(p)
  BY <1>1, <1>2, ReturnStep DEF PutAcked, iterating, Results
<1>3. CASE PutFails(p)
  BY <1>1, <1>3, ReturnStep DEF PutFails, putting, iterating, Results
<1>4. CASE \E k \in 1..puts[p] : Store(p, k)
  BY <1>4, NoTimer DEF Store, iterating
<1>5. QED BY <1>2, <1>3, <1>4, StartPutStep, PutRefusedStep, WakeStep

(* A poll that found nothing: the call returns r, or polls for what is     *)
(* left.                                                                   *)
LEMMA EmptyStep ==
    ASSUME IInv, NEW a \in Getters \cup Iterators, pc[a] = "calling",
           NEW r \in {"ok", "empty"}, UNCHANGED <<left, delay, itemPoll>>,
           \/ DeadlineOver(a) /\ Return(a, r) /\ UNCHANGED wait
           \/ wait' = [wait EXCEPT ![a] = PollFor(left[a])] /\ UNCHANGED <<pc, result>>
    PROVE  IInv'
<1>1. a \in Actors
  BY DEF Actors
<1>2. CASE DeadlineOver(a) /\ Return(a, r) /\ UNCHANGED wait
  BY <1>1, <1>2, ReturnStep DEF DeadlineOver, Results
<1>3. CASE wait' = [wait EXCEPT ![a] = PollFor(left[a])] /\ UNCHANGED <<pc, result>>
  <2>1. /\ pc' = [pc EXCEPT ![a] = "calling"] /\ left' = [left EXCEPT ![a] = left[a]]
        /\ left[a] \in Nat \cup {Forever} /\ itemPoll' \in [Iterators -> Nat]
    BY <1>1, <1>3 DEF IInv, TimersTyped
  <2>2. QED BY <1>3, <2>1, PollStep
<1>4. QED BY <1>2, <1>3

(* get and get_many: every step of a getter.                               *)
LEMMA GetterStep ==
    ASSUME IInv, NEW g \in Getters,
           \/ StartGet(g) \/ Take(g) \/ LoseReply(g) \/ Got(g) \/ GotNothing(g) \/ GetFails(g)
    PROVE  IInv'
<1>1. g \in Actors /\ g \in Getters \cup Iterators
  BY DEF Actors
<1>2. CASE StartGet(g)
  <2>1. PICK l \in Timeouts \cup {Forever} :
            left' = [left EXCEPT ![g] = l] /\ wait' = [wait EXCEPT ![g] = PollFor(l)]
    BY <1>2 DEF StartGet
  <2>2. l \in Nat \cup {Forever}
    BY QueueAssumption
  <2>3. QED BY <1>1, <1>2, <2>1, <2>2, PollStep DEF StartGet, putting, iterating, IInv, TimersTyped
<1>3. CASE Take(g) \/ LoseReply(g)
  BY <1>3, NoTimer DEF Take, LoseReply, putting, iterating
<1>4. CASE Got(g)
  BY <1>1, <1>4, ReturnStep DEF Got, putting, iterating, Results
<1>5. CASE GotNothing(g)
  BY <1>1, <1>5, EmptyStep DEF GotNothing, putting, iterating
<1>6. CASE GetFails(g)
  BY <1>1, <1>6, ReturnStep DEF GetFails, putting, iterating, Results
<1>7. QED BY <1>2, <1>3, <1>4, <1>5, <1>6

LEMMA NextItemStep ==
    ASSUME IInv, NEW i \in Iterators, NextItem(i) PROVE IInv'
<1>1. /\ i \in Actors /\ i \in Getters \cup Iterators /\ pc[i] = "calling"
      /\ itemPoll[i] \in Nat /\ UNCHANGED <<delay, itemPoll>>
      /\ itemPoll' \in [Iterators -> Nat]
  BY DEF Actors, NextItem, putting, IInv, TimersTyped
<1>2. CASE Return(i, "ok") /\ UNCHANGED <<left, wait>>
  BY <1>1, <1>2, ReturnStep DEF Results
<1>3. CASE /\ left' = [left EXCEPT ![i] = itemPoll[i]]
           /\ wait' = [wait EXCEPT ![i] = PollFor(itemPoll[i])]
           /\ UNCHANGED <<pc, result>>
  <2>1. pc' = [pc EXCEPT ![i] = "calling"]
    BY <1>1, <1>3 DEF IInv, TimersTyped
  <2>2. QED BY <1>1, <1>3, <2>1, PollStep
<1>4. QED BY <1>2, <1>3 DEF NextItem

LEMMA StartIterateStep == ASSUME IInv, NEW i \in Iterators, StartIterate(i) PROVE IInv'
<1>1. i \in Getters \cup Iterators /\ pc[i] = "idle"
  BY DEF StartIterate
<1>2. PICK d \in ItemPolls : /\ itemPoll' = [itemPoll EXCEPT ![i] = d]
                              /\ left' = [left EXCEPT ![i] = d]
                              /\ wait' = [wait EXCEPT ![i] = PollFor(d)]
  BY DEF StartIterate
<1>3. d \in Nat \cup {Forever} /\ itemPoll' \in [Iterators -> Nat]
  BY <1>2, QueueAssumption DEF IInv, TimersTyped
<1>4. QED BY <1>1, <1>2, <1>3, PollStep DEF StartIterate, putting

(* iterate: every step of an iterator.                                     *)
LEMMA IteratorStep ==
    ASSUME IInv, NEW i \in Iterators,
           StartIterate(i) \/ NextItem(i) \/ NoItems(i) \/ IterateFails(i)
    PROVE  IInv'
<1>1. i \in Actors /\ i \in Getters \cup Iterators
  BY DEF Actors
<1>2. CASE NoItems(i)
  BY <1>1, <1>2, EmptyStep DEF NoItems, putting, iterating
<1>3. CASE IterateFails(i)
  BY <1>1, <1>3, ReturnStep DEF IterateFails, putting, iterating, Results
<1>4. QED BY <1>2, <1>3, StartIterateStep, NextItemStep

(* Time passes for an actor: its sleep or poll runs down with its          *)
(* deadline.                                                               *)
LEMMA TickStep == ASSUME IInv, NEW a \in Actors, Tick(a) PROVE IInv'
<1> DEFINE l == CountDown(left[a])
           w == CountDown(wait[a])
<1>1. /\ pc[a] \in {"calling", "sleeping"} /\ UNCHANGED <<pc, result, delay, itemPoll>>
      /\ left' = [left EXCEPT ![a] = l] /\ wait' = [wait EXCEPT ![a] = w]
  BY DEF Tick, putting, iterating
<1>2. left[a] \in Nat \cup {Forever} /\ wait[a] \in Nat /\ Timely(a)
  BY DEF IInv, TimersTyped
<1>3. /\ l \in Nat \cup {Forever} /\ w \in Nat /\ (l # Forever => w <= l)
      /\ (wait[a] = 0 => w = 0)
  BY <1>2 DEF CountDown, Timely, Forever
<1> HIDE DEF l, w
<1>4. /\ pc[a] \in Places /\ pc' = [pc EXCEPT ![a] = pc[a]]
      /\ result' = [result EXCEPT ![a] = "none"]
      /\ delay' \in [Producers -> Nat] /\ itemPoll' \in [Iterators -> Nat]
      /\ a \in Producers /\ pc[a] # "sleeping" => wait[a] = 0
  BY <1>1, <1>2 DEF IInv, TimersTyped, Timely
<1>5. Moves(a, pc[a], "none", l, w)
  BY <1>1, <1>3, <1>4 DEF Moves, Results
<1>6. QED BY <1>5, OneActorMoves

LEMMA StepIInv == IInv /\ [Next]_vars => IInv'
<1> SUFFICES ASSUME IInv, [Next]_vars PROVE IInv'
  OBVIOUS
<1>1. CASE UNCHANGED vars
  BY <1>1, NoTimer DEF vars
<1>2. CASE Next
  <2>1. CASE Clear
    BY <2>1, NoTimer DEF Clear, putting, iterating
  <2>2. QED BY <1>2, <2>1, ProducerStep, GetterStep, IteratorStep, TickStep DEF Next
<1>3. QED BY <1>1, <1>2

LEMMA InvariantIInv == Spec => []IInv
<1>1. Init => IInv
  BY InitIInv
<1>2. IInv /\ [Next]_vars => IInv'
  BY StepIInv
<1>3. QED BY <1>1, <1>2, PTL DEF Spec

(* QueueFull and QueueEmpty are returned only after the whole timeout, and *)
(* no sleep and no poll reaches past the deadline of its call, for any     *)
(* number of callers that take each other's room and entries.              *)
THEOREM TimeoutsAreKeptAlways == Spec => []TimeoutsAreKept
<1>1. IInv => TimeoutsAreKept
  BY DEF IInv, Timely, TimeoutsAreKept, GivesUpOnlyWhenTimeIsUp, WaitsWithinDeadline
<1>2. QED BY <1>1, InvariantIInv, PTL
-----------------------------------------------------------------------------
LEMMA InitTypeOK == Init => TypeOK
<1> SUFFICES ASSUME Init PROVE TypeOK
  OBVIOUS
<1>1. log \in Seq(Producers \X Nat) /\ Len(log) = 0 /\ queue \subseteq 1..Len(log)
  BY EmptySeq DEF Init
<1>2. yielded \in [Iterators -> Seq(1..Len(log))] /\ reply \in [Getters -> SUBSET (1..Len(log))]
  BY EmptySeq DEF Init
<1>3. delay \in [Producers -> Delays]
  BY DEF Init, Delays
<1>4. QED BY <1>1, <1>2, <1>3, QueueAssumption DEF Init, TypeOK, Forever

(* What is kept of the log grows with it.                                  *)
LEMMA LogGrows ==
    ASSUME TypeOK, NEW p \in Producers, NEW k \in Nat, log' = Append(log, <<p, k>>)
    PROVE  /\ log' \in Seq(Producers \X Nat) /\ Len(log') = Len(log) + 1
           /\ DOMAIN log = 1..Len(log) /\ DOMAIN log' = 1..Len(log')
           /\ \A x \in DOMAIN log : log'[x] = log[x]
           /\ log'[Len(log')] = <<p, k>>
           /\ 1..Len(log) \subseteq 1..Len(log')
           /\ \A s \in Seq(1..Len(log)) : s \in Seq(1..Len(log'))
<1>1. log \in Seq(Producers \X Nat) /\ <<p, k>> \in Producers \X Nat
  BY DEF TypeOK
<1>2. /\ log' \in Seq(Producers \X Nat) /\ Len(log') = Len(log) + 1 /\ Len(log) \in Nat
      /\ DOMAIN log = 1..Len(log) /\ DOMAIN log' = 1..Len(log')
      /\ \A x \in DOMAIN log : log'[x] = log[x]
  BY <1>1, AppendProperties, LenProperties
<1>3. log'[Len(log')] = <<p, k>>
  BY <1>1, <1>2
<1>4. 1..Len(log) \subseteq 1..Len(log')
  BY <1>2
<1>5. \A s \in Seq(1..Len(log)) : s \in Seq(1..Len(log'))
  BY <1>4, SeqMonotonic
<1>6. QED BY <1>2, <1>3, <1>4, <1>5

LEMMA StoreTyped ==
    ASSUME TypeOK, NEW p \in Producers, NEW k \in 1..puts[p], Store(p, k) PROVE TypeOK'
<1>1. k \in Nat /\ log' = Append(log, <<p, k>>) /\ queue' = queue \cup {Len(log')}
  BY DEF TypeOK, Store
<1>2. /\ log' \in Seq(Producers \X Nat) /\ Len(log') = Len(log) + 1 /\ Len(log) \in Nat
      /\ 1..Len(log) \subseteq 1..Len(log')
      /\ \A s \in Seq(1..Len(log)) : s \in Seq(1..Len(log'))
  BY <1>1, LogGrows, LenProperties DEF TypeOK
<1>3. queue' \subseteq 1..Len(log')
  <2>1. queue \subseteq 1..Len(log) /\ Len(log') \in 1..Len(log')
    BY <1>2 DEF TypeOK
  <2>2. QED BY <1>1, <1>2, <2>1
<1>4. /\ reply' \in [Getters -> SUBSET (1..Len(log'))]
      /\ yielded' \in [Iterators -> Seq(1..Len(log'))]
  BY <1>2 DEF TypeOK, Store, iterating
<1>5. landed' \in [Producers -> BOOLEAN]
  BY DEF TypeOK, Store
<1>6. QED BY <1>2, <1>3, <1>4, <1>5 DEF TypeOK, Store, iterating

(* Every other step leaves the log alone, takes from the queue, and moves  *)
(* one actor, or none.                                                     *)
LEMMA StepTypeOK == TypeOK /\ [Next]_vars => TypeOK'
<1> SUFFICES ASSUME TypeOK, [Next]_vars PROVE TypeOK'
  OBVIOUS
<1>1. /\ Producers \subseteq Actors /\ Getters \subseteq Actors /\ Iterators \subseteq Actors
  BY DEF Actors
<1>2. ASSUME NEW p \in Producers,
             StartPut(p) \/ PutAcked(p) \/ PutRefused(p) \/ PutFails(p) \/ Wake(p)
      PROVE  TypeOK'
  <2>1. CASE StartPut(p)
    <3>1. left' \in [Actors -> Nat \cup {Forever}] /\ puts' \in [Producers -> Nat]
      BY <1>1, <2>1, QueueAssumption DEF TypeOK, StartPut
    <3>2. delay' \in [Producers -> Delays]
      BY <2>1 DEF TypeOK, StartPut, Delays
    <3>3. QED BY <1>1, <2>1, <3>1, <3>2 DEF TypeOK, StartPut, server, iterating
  <2>2. CASE PutAcked(p)
    <3>1. puts[p] \in Nat
      BY DEF TypeOK
    <3>2. /\ acked' = acked \cup {<<p, puts[p]>>} /\ acked' \subseteq Producers \X Nat
          /\ UNCHANGED <<server, left, wait, puts, delay, landed, reply, iterating>>
      BY <2>2, <3>1 DEF PutAcked, TypeOK
    <3>3. pc' = [pc EXCEPT ![p] = "done"] /\ result' = [result EXCEPT ![p] = "ok"]
      BY <2>2 DEF PutAcked, Return
    <3>4. /\ pc' \in [Actors -> {"idle", "calling", "sleeping", "done"}]
          /\ result' \in [Actors -> {"none", "ok", "full", "empty", "error"}]
      BY <1>1, <3>3 DEF TypeOK
    <3>5. QED BY <3>2, <3>4 DEF TypeOK, server, iterating
  <2>3. CASE PutRefused(p)
    <3>1. left[p] \in Nat \cup {Forever} /\ delay[p] \in Delays
      BY <1>1 DEF TypeOK
    <3>2. left[p] # 0 => SleepFor(Doubled(delay[p]), left[p]) \in 1..MaxBackoff
      BY <3>1, DoubledIsCapped
    <3> DEFINE w == SleepFor(Doubled(delay[p]), left[p])
    <3> HIDE DEF w
    <3>3. \/ UNCHANGED <<delay, wait>>
          \/ /\ left[p] # 0
             /\ delay' = [delay EXCEPT ![p] = w] /\ wait' = [wait EXCEPT ![p] = delay'[p]]
      BY <2>3 DEF PutRefused, DeadlineOver, w
    <3>4. left[p] # 0 => w \in Delays
      BY <3>2 DEF w, Delays
    <3>5. delay' \in [Producers -> Delays]
      BY <3>3, <3>4 DEF TypeOK
    <3>6. wait' \in [Actors -> Nat]
      <4>1. Delays \subseteq Nat
        BY QueueAssumption DEF Delays
      <4>2. QED BY <1>1, <3>3, <3>5, <4>1 DEF TypeOK
    <3>7. QED BY <1>1, <2>3, <3>5, <3>6 DEF TypeOK, PutRefused, Return, server, iterating
  <2>4. CASE PutFails(p)
    BY <1>1, <2>4 DEF TypeOK, PutFails, Return, server, putting, iterating
  <2>5. CASE Wake(p)
    BY <1>1, <2>5 DEF TypeOK, Wake, server, iterating
  <2>6. QED BY <1>2, <2>1, <2>2, <2>3, <2>4, <2>5
<1>3. ASSUME NEW g \in Getters,
             StartGet(g) \/ Take(g) \/ LoseReply(g) \/ Got(g) \/ GotNothing(g) \/ GetFails(g)
      PROVE  TypeOK'
  <2>1. CASE StartGet(g)
    <3>1. PICK l \in Timeouts \cup {Forever} :
              left' = [left EXCEPT ![g] = l] /\ wait' = [wait EXCEPT ![g] = PollFor(l)]
      BY <2>1 DEF StartGet
    <3>2. l \in Nat \cup {Forever}
      BY QueueAssumption
    <3>3. left' \in [Actors -> Nat \cup {Forever}] /\ wait' \in [Actors -> Nat]
      BY <1>1, <3>1, <3>2, PollBounded DEF TypeOK
    <3>4. QED BY <1>1, <2>1, <3>3 DEF TypeOK, StartGet, server, putting, iterating
  <2>2. CASE Take(g)
    BY <1>1, <2>2 DEF TypeOK, Take, Oldest, putting, iterating
  <2>3. CASE LoseReply(g)
    BY <1>1, <2>3 DEF TypeOK, LoseReply, server, putting, iterating
  <2>4. CASE Got(g)
    BY <1>1, <2>4 DEF TypeOK, Got, Return, server, putting, iterating
  <2>5. CASE GotNothing(g)
    <3>1. PollFor(left[g]) \in Nat
      BY <1>1, PollBounded DEF TypeOK
    <3>2. wait' \in [Actors -> Nat]
      BY <1>1, <2>5, <3>1 DEF TypeOK, GotNothing
    <3>3. QED BY <1>1, <2>5, <3>2 DEF TypeOK, GotNothing, Return, server, putting, iterating
  <2>6. CASE GetFails(g)
    BY <1>1, <2>6 DEF TypeOK, GetFails, Return, server, putting, iterating
  <2>7. QED BY <1>3, <2>1, <2>2, <2>3, <2>4, <2>5, <2>6
<1>4. ASSUME NEW i \in Iterators,
             StartIterate(i) \/ NextItem(i) \/ NoItems(i) \/ IterateFails(i)
      PROVE  TypeOK'
  <2>1. CASE StartIterate(i)
    <3>1. PICK d \in ItemPolls : /\ itemPoll' = [itemPoll EXCEPT ![i] = d]
                                 /\ left' = [left EXCEPT ![i] = d]
                                 /\ wait' = [wait EXCEPT ![i] = PollFor(d)]
      BY <2>1 DEF StartIterate
    <3>2. d \in Nat /\ PollFor(d) \in Nat
      BY QueueAssumption, PollBounded
    <3>3. /\ left' \in [Actors -> Nat \cup {Forever}] /\ wait' \in [Actors -> Nat]
          /\ itemPoll' \in [Iterators -> Nat]
      BY <1>1, <3>1, <3>2 DEF TypeOK
    <3>4. QED BY <1>1, <2>1, <3>3 DEF TypeOK, StartIterate, server, putting
  <2>2. CASE NextItem(i)
    <3>1. PICK e \in Oldest(Unseen(i), 1) : yielded' = [yielded EXCEPT ![i] = Append(@, e)]
      BY <2>2 DEF NextItem
    <3>2. e \in 1..Len(log) /\ yielded[i] \in Seq(1..Len(log))
      BY <3>1 DEF TypeOK, Oldest, Unseen
    <3>3. Append(yielded[i], e) \in Seq(1..Len(log))
      BY <3>2, AppendProperties
    <3>4. yielded' \in [Iterators -> Seq(1..Len(log))]
      BY <3>1, <3>3 DEF TypeOK
    <3>5. PollFor(itemPoll[i]) \in Nat /\ itemPoll[i] \in Nat
      BY PollBounded DEF TypeOK
    <3>6. left' \in [Actors -> Nat \cup {Forever}] /\ wait' \in [Actors -> Nat]
      <4>1. \/ UNCHANGED <<left, wait>>
            \/ /\ left' = [left EXCEPT ![i] = itemPoll[i]]
               /\ wait' = [wait EXCEPT ![i] = PollFor(itemPoll[i])]
        BY <2>2 DEF NextItem
      <4>2. left \in [Actors -> Nat \cup {Forever}] /\ wait \in [Actors -> Nat]
        BY DEF TypeOK
      <4>3. QED BY <1>1, <3>5, <4>1, <4>2
    <3>7. QED BY <1>1, <2>2, <3>4, <3>6 DEF TypeOK, NextItem, Return, server, putting
  <2>3. CASE NoItems(i)
    <3>1. PollFor(left[i]) \in Nat
      BY <1>1, PollBounded DEF TypeOK
    <3>2. wait' \in [Actors -> Nat]
      BY <1>1, <2>3, <3>1 DEF TypeOK, NoItems
    <3>3. QED BY <1>1, <2>3, <3>2 DEF TypeOK, NoItems, Return, server, putting, iterating
  <2>4. CASE IterateFails(i)
    BY <1>1, <2>4 DEF TypeOK, IterateFails, Return, server, putting, iterating
  <2>5. QED BY <1>4, <2>1, <2>2, <2>3, <2>4
<1>5. CASE Clear
  BY <1>5 DEF TypeOK, Clear, putting, iterating
<1>6. ASSUME NEW a \in Actors, Tick(a) PROVE TypeOK'
  <2>1. CountDown(left[a]) \in Nat \cup {Forever} /\ CountDown(wait[a]) \in Nat
    BY DEF TypeOK, CountDown, Forever
  <2>2. left' \in [Actors -> Nat \cup {Forever}] /\ wait' \in [Actors -> Nat]
    BY <1>6, <2>1 DEF TypeOK, Tick
  <2>3. QED BY <1>6, <2>2 DEF TypeOK, Tick, server, putting, iterating
<1>7. CASE UNCHANGED vars
  BY <1>7 DEF TypeOK, vars
<1>8. QED BY <1>2, <1>3, <1>4, <1>5, <1>6, <1>7, StoreTyped DEF Next

(* Types of the queue and of its callers, for any number of them.          *)
THEOREM TypeCorrect == Spec => []TypeOK
<1>1. Init => TypeOK
  BY InitTypeOK
<1>2. TypeOK /\ [Next]_vars => TypeOK'
  BY StepTypeOK
<1>3. QED BY <1>1, <1>2, PTL DEF Spec
-----------------------------------------------------------------------------
Stored(a) == \E x \in DOMAIN log : log[x] = a

(* Why an acknowledged put is not overtaken: no put is stored before it    *)
(* has begun, so nothing of a producer is behind its current put; and a    *)
(* put is acknowledged only once it is stored.                             *)
OrderInv ==
    /\ \A x \in DOMAIN log : log[x][2] <= puts[log[x][1]]
    /\ \A p \in Producers : landed[p] => Stored(<<p, puts[p]>>)
    /\ \A a \in acked : Stored(a)
    /\ NothingOvertakes

(* A step that stores nothing, and begins and acknowledges no put.         *)
LEMMA SameOrder == ASSUME OrderInv, UNCHANGED <<log, puts, landed, acked>> PROVE OrderInv'
BY DEF OrderInv, Stored, NothingOvertakes

LEMMA StartPutInOrder ==
    ASSUME TypeOK, OrderInv, NEW p \in Producers, StartPut(p) PROVE OrderInv'
<1>1. /\ UNCHANGED <<log, acked>> /\ puts \in [Producers -> Nat]
      /\ puts' = [puts EXCEPT ![p] = @ + 1] /\ landed' = [landed EXCEPT ![p] = FALSE]
      /\ landed \in [Producers -> BOOLEAN] /\ log \in Seq(Producers \X Nat)
  BY DEF StartPut, server, TypeOK
<1>2. \A x \in DOMAIN log : log[x] \in Producers \X Nat
  BY <1>1, LenProperties, ElementOfSeq
<1>3. \A x \in DOMAIN log' : log'[x][2] <= puts'[log'[x][1]]
  BY <1>1, <1>2 DEF OrderInv
<1>4. \A q \in Producers : landed'[q] => Stored(<<q, puts[q]>>) /\ puts'[q] = puts[q]
  BY <1>1 DEF OrderInv
<1>5. QED BY <1>1, <1>3, <1>4 DEF OrderInv, Stored, NothingOvertakes

LEMMA PutAckedInOrder ==
    ASSUME TypeOK, OrderInv, NEW p \in Producers, PutAcked(p) PROVE OrderInv'
<1> DEFINE a == <<p, puts[p]>>
<1>1. /\ landed[p] /\ acked' = acked \cup {a} /\ UNCHANGED <<log, puts, landed>>
      /\ log \in Seq(Producers \X Nat) /\ puts[p] \in Nat
  BY DEF PutAcked, server, TypeOK
<1>2. Stored(a)
  BY <1>1 DEF OrderInv
<1>3. ASSUME NEW x \in DOMAIN log, log[x][1] = p, log[x][2] >= puts[p]
      PROVE  \E y \in 1..x : log[y] = a
  <2>1. log[x] \in Producers \X Nat /\ x \in 1..Len(log) /\ Len(log) \in Nat
    BY <1>1, LenProperties, ElementOfSeq
  <2>2. log[x][2] <= puts[p]
    BY <1>3 DEF OrderInv
  <2>3. log[x] = a /\ x \in 1..x
    BY <1>1, <1>3, <2>1, <2>2
  <2>4. QED BY <2>3
<1>4. NothingOvertakes'
  <2> SUFFICES ASSUME NEW x \in DOMAIN log, NEW b \in acked \cup {a},
                      log[x][1] = b[1], log[x][2] >= b[2]
               PROVE  \E y \in 1..x : log[y] = b
    BY <1>1 DEF NothingOvertakes
  <2>1. CASE b \in acked
    BY <2>1 DEF OrderInv, NothingOvertakes
  <2>2. CASE b = a
    BY <1>3, <2>2
  <2>3. QED BY <2>1, <2>2
<1>5. QED BY <1>1, <1>2, <1>4 DEF OrderInv, Stored

LEMMA StoreInOrder ==
    ASSUME TypeOK, OrderInv, NEW p \in Producers, NEW k \in 1..puts[p], Store(p, k)
    PROVE  OrderInv'
<1>1. /\ puts \in [Producers -> Nat] /\ k \in Nat /\ k <= puts[p] /\ puts' = puts
      /\ log \in Seq(Producers \X Nat) /\ log' = Append(log, <<p, k>>)
      /\ landed \in [Producers -> BOOLEAN] /\ UNCHANGED acked
      /\ \A q \in Producers : landed'[q] => landed[q] \/ (q = p /\ k = puts[p])
  BY DEF Store, TypeOK
<1>2. /\ Len(log) \in Nat /\ Len(log') = Len(log) + 1
      /\ DOMAIN log = 1..Len(log) /\ DOMAIN log' = 1..Len(log')
      /\ \A x \in DOMAIN log : log'[x] = log[x]
      /\ log'[Len(log')] = <<p, k>>
  BY <1>1, LogGrows, LenProperties
<1>3. /\ DOMAIN log \subseteq DOMAIN log' /\ Len(log') \in DOMAIN log'
      /\ \A x \in DOMAIN log' : x \in DOMAIN log \/ x = Len(log')
  BY <1>2
<1>4. \A a : Stored(a) => Stored(a)'
  BY <1>2, <1>3 DEF Stored
<1>5. Stored(<<p, k>>)'
  BY <1>2, <1>3 DEF Stored
<1>6. \A x \in DOMAIN log' : log'[x][2] <= puts'[log'[x][1]]
  BY <1>1, <1>2, <1>3 DEF OrderInv
<1>7. \A q \in Producers : landed'[q] => Stored(<<q, puts[q]>>)'
  BY <1>1, <1>4, <1>5 DEF OrderInv
<1>8. \A a \in acked' : Stored(a)'
  BY <1>1, <1>4 DEF OrderInv
<1>9. NothingOvertakes'
  <2> SUFFICES ASSUME NEW x \in DOMAIN log', NEW a \in acked',
                      log'[x][1] = a[1], log'[x][2] >= a[2]
               PROVE  \E y \in 1..x : log'[y] = a
    BY DEF NothingOvertakes
  <2>1. CASE x \in DOMAIN log
    <3>1. PICK y \in 1..x : log[y] = a
      BY <1>1, <1>2, <2>1 DEF OrderInv, NothingOvertakes
    <3>2. y \in DOMAIN log
      BY <1>2, <2>1, <3>1
    <3>3. QED BY <1>2, <3>1, <3>2
  <2>2. CASE x = Len(log')
    <3>1. PICK y \in DOMAIN log : log[y] = a
      BY <1>1 DEF OrderInv, Stored
    <3>2. y \in 1..x
      BY <1>2, <2>2, <3>1
    <3>3. QED BY <1>2, <3>1, <3>2
  <2>3. QED BY <1>3, <2>1, <2>2
<1>10. QED BY <1>1, <1>6, <1>7, <1>8, <1>9 DEF OrderInv

LEMMA WakeInOrder ==
    ASSUME TypeOK, OrderInv, NEW p \in Producers, Wake(p) PROVE OrderInv'
<1>1. /\ UNCHANGED <<log, puts, acked>> /\ landed' = [landed EXCEPT ![p] = FALSE]
      /\ landed \in [Producers -> BOOLEAN]
  BY DEF Wake, server, TypeOK
<1>2. QED BY <1>1 DEF OrderInv, Stored, NothingOvertakes

LEMMA StepOrderInv == TypeOK /\ OrderInv /\ [Next]_vars => OrderInv'
<1> SUFFICES ASSUME TypeOK, OrderInv, [Next]_vars PROVE OrderInv'
  OBVIOUS
<1>1. ASSUME NEW p \in Producers, PutRefused(p) \/ PutFails(p) PROVE OrderInv'
  BY <1>1, SameOrder DEF PutRefused, PutFails, server, putting
<1>2. ASSUME NEW g \in Getters,
             StartGet(g) \/ Take(g) \/ LoseReply(g) \/ Got(g) \/ GotNothing(g) \/ GetFails(g)
      PROVE  OrderInv'
  BY <1>2, SameOrder DEF StartGet, Take, LoseReply, Got, GotNothing, GetFails, server, putting
<1>3. ASSUME NEW i \in Iterators,
             StartIterate(i) \/ NextItem(i) \/ NoItems(i) \/ IterateFails(i)
      PROVE  OrderInv'
  BY <1>3, SameOrder DEF StartIterate, NextItem, NoItems, IterateFails, server, putting
<1>4. CASE Clear \/ UNCHANGED vars \/ \E a \in Actors : Tick(a)
  BY <1>4, SameOrder DEF Clear, vars, Tick, server, putting
<1>5. QED
  BY <1>1, <1>2, <1>3, <1>4, StartPutInOrder, PutAckedInOrder, StoreInOrder, WakeInOrder DEF Next

LEMMA OrderIsKept == Spec => []OrderInv
<1>1. Init => OrderInv
  BY DEF Init, OrderInv, Stored, NothingOvertakes
<1>2. TypeOK /\ OrderInv /\ [Next]_vars => OrderInv'
  BY StepOrderInv
<1>3. QED BY <1>1, <1>2, TypeCorrect, PTL DEF Spec

(* Once a put has returned Ok, no later put of its producer is stored      *)
(* before it, for any number of producers, whose requests may each be      *)
(* stored late and again.                                                  *)
THEOREM AcknowledgedPutsKeepTheirOrder == Spec => []NothingOvertakes
<1>1. OrderInv => NothingOvertakes
  BY DEF OrderInv
<1>2. QED BY <1>1, OrderIsKept, PTL
-----------------------------------------------------------------------------
LEMMA NextItemInOrder ==
    ASSUME TypeOK, YieldsInOrder, NEW i \in Iterators, NextItem(i) PROVE YieldsInOrder'
<1>1. PICK e \in Oldest(Unseen(i), 1) : yielded' = [yielded EXCEPT ![i] = Append(@, e)]
  BY DEF NextItem
<1>2. e \in Nat /\ e > LastEntry(i) /\ yielded[i] \in Seq(1..Len(log))
  BY <1>1 DEF Oldest, Unseen, TypeOK
<1> DEFINE s == yielded[i]
           t == Append(s, e)
<1>3. /\ Len(s) \in Nat /\ DOMAIN s = 1..Len(s) /\ \A m \in 1..Len(s) : s[m] \in Nat
  BY <1>2, LenProperties, ElementOfSeq
<1>4. s \in Seq(Nat)
  BY <1>2, SeqMonotonic
<1>5. /\ t \in Seq(Nat) /\ Len(t) = Len(s) + 1 /\ DOMAIN t = 1..(Len(s) + 1)
      /\ \A m \in 1..Len(s) : t[m] = s[m]
      /\ t[Len(s) + 1] = e
  BY <1>2, <1>4, AppendProperties, LenProperties
<1>6. \A m \in 1..Len(s) : s[m] <= LastEntry(i)
  <2> SUFFICES ASSUME NEW m \in 1..Len(s) PROVE s[m] <= LastEntry(i)
    OBVIOUS
  <2>1. s # <<>>
    BY <1>3
  <2>2. LastEntry(i) = s[Len(s)]
    BY <2>1 DEF LastEntry
  <2>3. CASE m = Len(s)
    BY <1>3, <2>2, <2>3
  <2>4. CASE m < Len(s)
    BY <1>3, <2>2, <2>4 DEF YieldsInOrder
  <2>5. QED BY <1>3, <2>3, <2>4
<1>7. LastEntry(i) \in Nat
  BY <1>3, EmptySeq, <1>4 DEF LastEntry
<1> HIDE DEF s, t
<1>8. \A m, n \in DOMAIN t : m < n => t[m] < t[n]
  <2> SUFFICES ASSUME NEW m \in DOMAIN t, NEW n \in DOMAIN t, m < n PROVE t[m] < t[n]
    OBVIOUS
  <2>1. m \in 1..Len(s)
    BY <1>3, <1>5
  <2>2. CASE n = Len(s) + 1
    <3>1. t[m] = s[m] /\ t[n] = e /\ s[m] <= LastEntry(i) /\ s[m] \in Nat
      BY <1>3, <1>5, <1>6, <2>1, <2>2
    <3>2. QED BY <1>2, <1>7, <3>1
  <2>3. CASE n \in 1..Len(s)
    BY <1>3, <1>5, <2>1, <2>3 DEF YieldsInOrder, s
  <2>4. QED BY <1>3, <1>5, <2>2, <2>3
<1>9. /\ yielded \in [Iterators -> Seq(1..Len(log))]
      /\ yielded' = [yielded EXCEPT ![i] = t]
  BY <1>1 DEF TypeOK, s, t
<1>10. QED BY <1>8, <1>9 DEF YieldsInOrder

LEMMA StepInOrder == TypeOK /\ YieldsInOrder /\ [Next]_vars => YieldsInOrder'
<1> SUFFICES ASSUME TypeOK, YieldsInOrder, [Next]_vars PROVE YieldsInOrder'
  OBVIOUS
<1>1. ASSUME UNCHANGED yielded PROVE YieldsInOrder'
  BY <1>1 DEF YieldsInOrder
<1>2. ASSUME NEW p \in Producers,
             \/ StartPut(p) \/ PutAcked(p) \/ PutRefused(p) \/ PutFails(p) \/ Wake(p)
             \/ \E k \in 1..puts[p] : Store(p, k)
      PROVE  UNCHANGED yielded
  BY <1>2 DEF StartPut, PutAcked, PutRefused, PutFails, Wake, Store, iterating
<1>3. ASSUME NEW g \in Getters,
             StartGet(g) \/ Take(g) \/ LoseReply(g) \/ Got(g) \/ GotNothing(g) \/ GetFails(g)
      PROVE  UNCHANGED yielded
  BY <1>3 DEF StartGet, Take, LoseReply, Got, GotNothing, GetFails, iterating
<1>4. ASSUME NEW i \in Iterators, StartIterate(i) \/ NoItems(i) \/ IterateFails(i)
      PROVE  UNCHANGED yielded
  BY <1>4 DEF StartIterate, NoItems, IterateFails, iterating
<1>5. CASE Clear \/ UNCHANGED vars \/ \E a \in Actors : Tick(a)
  BY <1>1, <1>5 DEF Clear, vars, Tick, iterating
<1>6. QED BY <1>1, <1>2, <1>3, <1>4, <1>5, NextItemInOrder DEF Next

(* iterate yields entries in the order of the queue and none of them       *)
(* twice, whatever getters take and clear removes in between.              *)
THEOREM EntriesInOrder == Spec => []YieldsInOrder
<1>1. Init => YieldsInOrder
  BY DEF Init, YieldsInOrder
<1>2. TypeOK /\ YieldsInOrder /\ [Next]_vars => YieldsInOrder'
  BY StepInOrder
<1>3. QED BY <1>1, <1>2, TypeCorrect, PTL DEF Spec

(* What an iterator's result may become, and when.                         *)
LEMMA IterationEnds ==
    ASSUME TypeOK, [Next]_vars, NEW i \in Iterators, itemPoll[i] > 0,
           result[i] = "none", result'[i] = "ok"
    PROVE  Unseen(i)' = {}
<1>1. /\ i \in Actors /\ i \notin Producers /\ i \notin Getters
      /\ result \in [Actors -> Results] /\ result'[i] # result[i]
      /\ \A p \in Producers : p \in Actors /\ p # i
      /\ \A g \in Getters : g \in Actors /\ g # i
      /\ \A j \in Iterators : j \in Actors
  BY QueueAssumption DEF Actors, TypeOK, Results
<1>2. ASSUME NEW p \in Producers,
             \/ StartPut(p) \/ PutAcked(p) \/ PutRefused(p) \/ PutFails(p) \/ Wake(p)
             \/ \E k \in 1..puts[p] : Store(p, k)
      PROVE  FALSE
  BY <1>1, <1>2 DEF StartPut, PutAcked, PutRefused, PutFails, Wake, Store, Return
<1>3. ASSUME NEW g \in Getters,
             StartGet(g) \/ Take(g) \/ LoseReply(g) \/ Got(g) \/ GotNothing(g) \/ GetFails(g)
      PROVE  FALSE
  BY <1>1, <1>3 DEF StartGet, Take, LoseReply, Got, GotNothing, GetFails, Return
<1>4. ASSUME Clear \/ UNCHANGED vars \/ \E a \in Actors : Tick(a) PROVE FALSE
  BY <1>1, <1>4 DEF Clear, vars, Tick
<1>5. ASSUME NEW j \in Iterators,
             StartIterate(j) \/ NextItem(j) \/ NoItems(j) \/ IterateFails(j)
      PROVE  j = i /\ NoItems(i)
  <2>1. j = i
    BY <1>1, <1>5 DEF StartIterate, NextItem, NoItems, IterateFails, Return
  <2>2. ~StartIterate(i) /\ ~IterateFails(i)
    BY <1>1 DEF StartIterate, IterateFails, Return
  <2>3. ~NextItem(i)
    <3> SUFFICES ASSUME NextItem(i) PROVE FALSE
      OBVIOUS
    <3>1. ~StopsEarly(i)
      BY DEF StopsEarly
    <3>2. UNCHANGED result
      BY <3>1 DEF NextItem
    <3>3. QED BY <1>1, <3>2
  <2>4. QED BY <1>5, <2>1, <2>2, <2>3
<1>6. NoItems(i)
  BY <1>2, <1>3, <1>4, <1>5 DEF Next
<1>7. QED BY <1>6 DEF NoItems, Unseen, LastEntry, server, iterating

(* An iteration that polls ends only when nothing is left to yield, in any *)
(* race with producers, getters, clear and other iterators; and nothing is *)
(* yielded twice or out of order before it does.                           *)
THEOREM IterationsAreFaithful == Spec => IteratesFaithfully
<1>1. TypeOK /\ [Next]_vars =>
          [\A i \in Iterators :
              itemPoll[i] > 0 /\ result[i] = "none" /\ result'[i] = "ok" => Unseen(i)' = {}]_vars
  BY IterationEnds
<1>2. Spec => EndsWhenIdle
  BY <1>1, TypeCorrect, PTL DEF Spec, EndsWhenIdle
<1>3. QED BY <1>2, EntriesInOrder DEF IteratesFaithfully
-----------------------------------------------------------------------------
(* The n oldest entries of a queue come first in it.                       *)
LEMMA OldestComeFirst ==
    ASSUME NEW m \in Nat, NEW s \in SUBSET (1..m), NEW n \in Nat,
           NEW e \in Oldest(s, n), NEW f \in s \ Oldest(s, n)
    PROVE  e < f
<1> DEFINE Below(x) == {g \in s : g <= x}
<1>1. /\ e \in s /\ e \in Nat /\ f \in Nat
      /\ Cardinality(Below(e)) <= n /\ ~(Cardinality(Below(f)) <= n)
  BY DEF Oldest
<1>2. IsFiniteSet(Below(e)) /\ IsFiniteSet(Below(f))
  <2>1. IsFiniteSet(s)
    <3>1. IsFiniteSet(1..m)
      BY FS_Interval
    <3>2. QED BY <3>1, FS_Subset
  <2>2. Below(e) \in SUBSET s /\ Below(f) \in SUBSET s
    OBVIOUS
  <2> HIDE DEF Below
  <2>3. QED BY <2>1, <2>2, FS_Subset
<1>3. Cardinality(Below(e)) \in Nat /\ Cardinality(Below(f)) \in Nat
  BY <1>2, FS_CardinalityType
<1>4. ASSUME f <= e PROVE FALSE
  <2>1. ASSUME NEW g \in s, g <= f PROVE g <= e
    BY <1>1, <1>4, <2>1
  <2>2. Below(f) \subseteq Below(e)
    BY <2>1
  <2>3. Cardinality(Below(f)) <= Cardinality(Below(e))
    BY <1>2, <2>2, FS_Subset
  <2> HIDE DEF Below
  <2>4. QED BY <1>1, <1>3, <2>3
<1>5. QED BY <1>1, <1>4

(* The oldest entry has none before it.                                    *)
LEMMA OldestIsLeast ==
    ASSUME NEW m \in Nat, NEW s \in SUBSET (1..m), NEW e \in Oldest(s, 1), NEW f \in s
    PROVE  e <= f
<1> DEFINE B == {g \in s : g <= e}
<1>1. e \in s /\ e \in Nat /\ f \in Nat /\ e \in B /\ Cardinality(B) <= 1
  BY DEF Oldest
<1>2. IsFiniteSet(B)
  <2>1. IsFiniteSet(s)
    <3>1. IsFiniteSet(1..m)
      BY FS_Interval
    <3>2. QED BY <3>1, FS_Subset
  <2>2. B \in SUBSET s
    OBVIOUS
  <2> HIDE DEF B
  <2>3. QED BY <2>1, <2>2, FS_Subset
<1>3. Cardinality(B) \in Nat /\ Cardinality(B) # 0
  BY <1>1, <1>2, FS_CardinalityType, FS_EmptySet
<1>4. Cardinality(B) = 1
  <2> HIDE DEF B
  <2>1. QED BY <1>1, <1>3
<1>5. \E x : B = {x}
  BY <1>2, <1>4, FS_Singleton
<1>6. f \notin B \/ f = e
  BY <1>1, <1>5
<1>7. QED BY <1>1, <1>6

(* What a taker is given, and what a reader reads, is what FifoQueue       *)
(* allows them.                                                            *)
LEMMA TakeImplements ==
    ASSUME TypeOK, NEW g \in Getters, Take(g)
    PROVE  \E s \in SUBSET queue : Fifo!TakeFirst(g, s)
<1> DEFINE s == Oldest(queue, GetSize)
<1>1. /\ reply[g] = {} /\ reply' = [reply EXCEPT ![g] = s] /\ queue' = queue \ s
      /\ UNCHANGED <<log, puts, acked, yielded>>
  BY DEF Take, TypeOK, putting, iterating
<1>2. queue \in SUBSET (1..Len(log)) /\ Len(log) \in Nat /\ GetSize \in Nat
  BY QueueAssumption, LenProperties DEF TypeOK
<1>3. \A e \in s, f \in queue \ s : e < f
  BY <1>2, OldestComeFirst
<1>4. s \in SUBSET queue
  BY DEF Oldest
<1> HIDE DEF s
<1>5. Fifo!TakeFirst(g, s)
  BY <1>1, <1>3 DEF Fifo!TakeFirst
<1>6. QED BY <1>4, <1>5

LEMMA NextItemImplements ==
    ASSUME TypeOK, YieldsInOrder, NEW i \in Iterators, NextItem(i)
    PROVE  \E e \in queue : Fifo!ReadNext(i, e)
<1>1. PICK e \in Oldest(Unseen(i), 1) : yielded' = [yielded EXCEPT ![i] = Append(@, e)]
  BY DEF NextItem
<1>2. /\ queue \in SUBSET (1..Len(log)) /\ Len(log) \in Nat
      /\ yielded[i] \in Seq(1..Len(log))
  BY LenProperties DEF TypeOK
<1>3. Unseen(i) \in SUBSET (1..Len(log))
  BY <1>2 DEF Unseen
<1>4. e \in queue /\ e > LastEntry(i) /\ e \in Nat
  BY <1>1, <1>2 DEF Oldest, Unseen
<1>5. \A f \in Unseen(i) : e <= f
  BY <1>1, <1>2, <1>3, OldestIsLeast
<1> DEFINE s == yielded[i]
<1>6. /\ Len(s) \in Nat /\ DOMAIN s = 1..Len(s)
      /\ \A n \in DOMAIN s : s[n] \in Nat
  BY <1>2, LenProperties, ElementOfSeq
<1>7. \/ s = <<>> /\ LastEntry(i) = 0
      \/ Len(s) \in DOMAIN s /\ LastEntry(i) = s[Len(s)]
  BY <1>2, <1>6, EmptySeq DEF LastEntry
<1>8. \A n \in DOMAIN s : s[n] < e
  <2> SUFFICES ASSUME NEW n \in DOMAIN s PROVE s[n] < e
    OBVIOUS
  <2>1. Len(s) \in DOMAIN s /\ LastEntry(i) = s[Len(s)]
    BY <1>6, <1>7
  <2>2. n = Len(s) \/ n < Len(s)
    BY <1>6
  <2>3. n < Len(s) => s[n] < s[Len(s)]
    BY <2>1 DEF YieldsInOrder
  <2>4. s[n] \in Nat /\ s[Len(s)] \in Nat
    BY <1>6, <2>1
  <2>5. QED BY <1>4, <2>1, <2>2, <2>3, <2>4
<1>9. ASSUME NEW f \in queue, f < e PROVE \E n \in DOMAIN s : f <= s[n]
  <2>1. f \in Nat /\ f > 0
    BY <1>2
  <2>2. f \notin Unseen(i)
    BY <1>4, <1>5, <1>9, <2>1
  <2>3. ~(f > LastEntry(i))
    BY <2>2 DEF Unseen
  <2>4. Len(s) \in DOMAIN s /\ LastEntry(i) = s[Len(s)]
    BY <1>7, <2>1, <2>3
  <2>5. f <= s[Len(s)]
    BY <1>6, <2>1, <2>3, <2>4
  <2>6. QED BY <2>4, <2>5
<1>10. UNCHANGED <<log, queue, puts, acked, reply>>
  BY DEF NextItem, server, putting
<1>11. Fifo!ReadNext(i, e)
  BY <1>1, <1>8, <1>9, <1>10 DEF Fifo!ReadNext
<1>12. QED BY <1>4, <1>11

LEMMA InitImplements == Init => Fifo!Init
BY DEF Init, Fifo!Init

(* Each step of queue.rs and of its server is a step of FifoQueue, or one  *)
(* it does not see.                                                        *)
LEMMA StepImplements ==
    TypeOK /\ OrderInv /\ YieldsInOrder /\ [Next]_vars => [Fifo!Next]_(Fifo!qvars)
<1> SUFFICES ASSUME TypeOK, OrderInv, YieldsInOrder, [Next]_vars
             PROVE  [Fifo!Next]_(Fifo!qvars)
  OBVIOUS
<1>1. ASSUME NEW p \in Producers, StartPut(p) PROVE Fifo!Next
  <2>1. Fifo!Send(p)
    BY <1>1 DEF StartPut, Fifo!Send, server, iterating
  <2>2. QED BY <2>1 DEF Fifo!Next
<1>2. ASSUME NEW p \in Producers, PutAcked(p) PROVE Fifo!Next
  <2>1. Stored(<<p, puts[p]>>)
    BY <1>2 DEF PutAcked, OrderInv
  <2>2. Fifo!Accept(p)
    BY <1>2, <2>1 DEF PutAcked, Stored, Fifo!Accept, server, iterating
  <2>3. QED BY <2>2 DEF Fifo!Next
<1>3. ASSUME NEW p \in Producers, NEW k \in 1..puts[p], Store(p, k) PROVE Fifo!Next
  <2>1. Fifo!Enter(p, k)
    BY <1>3 DEF Store, Fifo!Enter, iterating
  <2>2. QED BY <2>1 DEF Fifo!Next
<1>4. ASSUME NEW p \in Producers, PutRefused(p) \/ PutFails(p) \/ Wake(p)
      PROVE  UNCHANGED Fifo!qvars
  BY <1>4 DEF PutRefused, PutFails, Wake, Fifo!qvars, server, putting, iterating
<1>5. ASSUME NEW g \in Getters, Take(g) PROVE Fifo!Next
  BY <1>5, TakeImplements DEF Fifo!Next
<1>6. ASSUME NEW g \in Getters, LoseReply(g) \/ Got(g) \/ GetFails(g) PROVE Fifo!Next
  <2>1. Fifo!HandOver(g)
    BY <1>6 DEF LoseReply, Got, GetFails, Fifo!HandOver, server, putting, iterating
  <2>2. QED BY <2>1 DEF Fifo!Next
<1>7. ASSUME NEW g \in Getters, StartGet(g) \/ GotNothing(g) PROVE UNCHANGED Fifo!qvars
  BY <1>7 DEF StartGet, GotNothing, Fifo!qvars, server, putting, iterating
<1>8. ASSUME NEW i \in Iterators, NextItem(i) PROVE Fifo!Next
  BY <1>8, NextItemImplements DEF Fifo!Next
<1>9. ASSUME NEW i \in Iterators, StartIterate(i) \/ NoItems(i) \/ IterateFails(i)
      PROVE  UNCHANGED Fifo!qvars
  BY <1>9 DEF StartIterate, NoItems, IterateFails, Fifo!qvars, server, putting, iterating
<1>10. CASE Clear
  <2>1. Fifo!Empty
    BY <1>10 DEF Clear, Fifo!Empty, putting, iterating
  <2>2. QED BY <2>1 DEF Fifo!Next
<1>11. ASSUME NEW a \in Actors, Tick(a) PROVE UNCHANGED Fifo!qvars
  BY <1>11 DEF Tick, Fifo!qvars, server, putting, iterating
<1>12. CASE UNCHANGED vars
  BY <1>12 DEF vars, Fifo!qvars
<1>13. QED
  BY <1>1, <1>2, <1>3, <1>4, <1>5, <1>6, <1>7, <1>8, <1>9, <1>10, <1>11, <1>12 DEF Next

(* The queue of queue.rs is a FIFO with puts that arrive at least once and *)
(* entries that leave at most once, for any number of callers.             *)
THEOREM QueueIsFifo == Spec => ImplementsFifoQueue
<1>1. TypeOK /\ OrderInv /\ YieldsInOrder /\ [Next]_vars => [Fifo!Next]_(Fifo!qvars)
  BY StepImplements
<1>2. QED
  BY <1>1, InitImplements, TypeCorrect, OrderIsKept, EntriesInOrder, PTL
  DEF Spec, ImplementsFifoQueue, Fifo!Spec
-----------------------------------------------------------------------------
(* What is left of a call with a timeout: the time to its deadline, then   *)
(* whether its sleep or poll is over and what follows is still to be done. *)
TimeLeft(a) ==
    3 * left[a] + (IF wait[a] > 0 THEN 0 ELSE IF pc[a] = "sleeping" THEN 2 ELSE 1)

Busy(a) == pc[a] \in {"calling", "sleeping"}

(* A call with a timeout is over, or is left alone, or uses up its time,   *)
(* or polls again at once because its poll was answered early.             *)
CallGoesOn(a) ==
    \/ pc'[a] = "done"
    \/ pc'[a] = pc[a] /\ left'[a] = left[a] /\ wait'[a] = wait[a]
    \/ Busy(a)' /\ left'[a] # Forever /\ TimeLeft(a)' < TimeLeft(a)
    \/ wait[a] > 0 /\ pc'[a] = pc[a] /\ left'[a] = left[a]

ComesToAnEnd ==
    [][\A a \in Actors : Busy(a) /\ left[a] # Forever =>
          CallGoesOn(a) \/ (a \in Iterators /\ Len(yielded'[a]) = Len(yielded[a]) + 1)]_vars

\* A put never sleeps for no time at all.
SleepsArePositive == \A p \in Producers : delay[p] > 0

LEMMA NextSleepIsPositive ==
    ASSUME NEW d \in Nat, d > 0, NEW l \in Nat \cup {Forever}, l # 0
    PROVE  SleepFor(Doubled(d), l) \in Nat /\ SleepFor(Doubled(d), l) > 0
BY QueueAssumption DEF SleepFor, Doubled, Within, Smaller, Forever

LEMMA PollIsPositive ==
    ASSUME NEW l \in Nat \cup {Forever}, l # 0 PROVE PollFor(l) \in Nat /\ PollFor(l) > 0
BY QueueAssumption DEF PollFor, Within, Smaller, Forever

\* The next sleep of a put that is refused before its deadline.
LEMMA RefusedSleeps ==
    ASSUME IInv, SleepsArePositive, NEW p \in Producers, PutRefused(p), ~DeadlineOver(p)
    PROVE  /\ pc' = [pc EXCEPT ![p] = "sleeping"] /\ left' = left /\ pc[p] = "calling"
           /\ \E d \in Nat : d > 0 /\ delay' = [delay EXCEPT ![p] = d] /\ wait' = [wait EXCEPT ![p] = d]
<1> DEFINE d == SleepFor(Doubled(delay[p]), left[p])
<1>1. p \in Actors /\ left[p] \in Nat \cup {Forever} /\ delay \in [Producers -> Nat] /\ delay[p] \in Nat /\ delay[p] > 0
  BY DEF IInv, TimersTyped, Actors, SleepsArePositive
<1>2. d \in Nat /\ d > 0
  BY <1>1, NextSleepIsPositive DEF DeadlineOver
<1>3. /\ pc' = [pc EXCEPT ![p] = "sleeping"] /\ left' = left /\ pc[p] = "calling"
      /\ delay' = [delay EXCEPT ![p] = d] /\ wait' = [wait EXCEPT ![p] = delay'[p]]
  BY DEF PutRefused
<1> HIDE DEF d
<1>4. delay'[p] = d
  BY <1>1, <1>3
<1>5. QED BY <1>2, <1>3, <1>4

LEMMA SleepsArePositiveAlways == Spec => []SleepsArePositive
<1>1. \A d \in Delays : d > 0
  BY QueueAssumption DEF Delays
<1>2. TypeOK => SleepsArePositive
  BY <1>1 DEF TypeOK, SleepsArePositive
<1>3. QED BY <1>2, TypeCorrect, PTL

\* What a call with a timeout has, while it is under way.
LEMMA BusyTimers ==
    ASSUME IInv, NEW a \in Actors, left[a] # Forever
    PROVE  /\ left[a] \in Nat /\ wait[a] \in Nat /\ wait[a] <= left[a]
           /\ pc \in [Actors -> Places] /\ left \in [Actors -> Nat \cup {Forever}] /\ wait \in [Actors -> Nat]
BY DEF IInv, TimersTyped, Timely

LEMMA ReturnGoesOn == ASSUME IInv, NEW a \in Actors, NEW r, Return(a, r) PROVE CallGoesOn(a)
BY DEF Return, CallGoesOn, IInv, TimersTyped

(* A poll that found nothing and is followed by another uses up time,      *)
(* unless it was answered early.                                           *)
LEMMA PollGoesOn ==
    ASSUME IInv, NEW a \in Actors, left[a] # Forever, pc[a] = "calling", ~DeadlineOver(a),
           wait' = [wait EXCEPT ![a] = PollFor(left[a])], UNCHANGED <<pc, left>>
    PROVE  CallGoesOn(a)
<1>1. PollFor(left[a]) \in Nat /\ PollFor(left[a]) > 0
  BY BusyTimers, PollIsPositive DEF DeadlineOver
<1>2. wait'[a] > 0 /\ pc'[a] = "calling" /\ left'[a] = left[a] /\ left[a] \in Nat /\ wait[a] \in Nat
  BY <1>1, BusyTimers
<1>3. CASE wait[a] = 0
  <2>1. TimeLeft(a)' < TimeLeft(a)
    BY <1>2, <1>3 DEF TimeLeft
  <2>2. QED BY <1>2, <2>1 DEF CallGoesOn, Busy
<1>4. CASE wait[a] > 0
  BY <1>2, <1>4 DEF CallGoesOn
<1>5. QED BY <1>2, <1>3, <1>4

LEMMA TickGoesOn == ASSUME IInv, NEW a \in Actors, left[a] # Forever, Tick(a) PROVE CallGoesOn(a)
<1>1. /\ left[a] \in Nat /\ wait[a] \in Nat /\ wait[a] <= left[a]
      /\ left \in [Actors -> Nat \cup {Forever}] /\ wait \in [Actors -> Nat]
  BY BusyTimers
<1>2. /\ Busy(a) /\ left[a] > 0 /\ pc' = pc
      /\ left' = [left EXCEPT ![a] = CountDown(left[a])] /\ wait' = [wait EXCEPT ![a] = CountDown(wait[a])]
  BY <1>1 DEF Tick, Busy
<1>3. CountDown(left[a]) = left[a] - 1 /\ CountDown(wait[a]) \in Nat
  BY <1>1, <1>2 DEF CountDown
<1>4. left'[a] = left[a] - 1 /\ wait'[a] \in Nat
  BY <1>1, <1>2, <1>3
<1>5. left'[a] # Forever /\ TimeLeft(a)' < TimeLeft(a)
  BY <1>1, <1>2, <1>4 DEF TimeLeft, Forever
<1>6. QED BY <1>2, <1>5 DEF CallGoesOn, Busy

(* Every step of a producer that has a put under way.                      *)
LEMMA PutGoesOn ==
    ASSUME IInv, SleepsArePositive, NEW p \in Producers, Busy(p), left[p] # Forever,
           StartPut(p) \/ PutAcked(p) \/ PutRefused(p) \/ PutFails(p) \/ Wake(p)
    PROVE  CallGoesOn(p)
<1>1. p \in Actors
  BY DEF Actors
<1>2. CASE PutAcked(p) \/ PutFails(p)
  BY <1>1, <1>2, ReturnGoesOn DEF PutAcked, PutFails
<1>3. CASE PutRefused(p) /\ DeadlineOver(p)
  BY <1>1, <1>3, ReturnGoesOn DEF PutRefused
<1>4. CASE PutRefused(p) /\ ~DeadlineOver(p)
  <2>1. PICK d \in Nat : d > 0 /\ wait' = [wait EXCEPT ![p] = d]
    BY <1>4, RefusedSleeps
  <2>2. pc' = [pc EXCEPT ![p] = "sleeping"] /\ left' = left /\ pc[p] = "calling"
    BY <1>4, RefusedSleeps
  <2>3. wait[p] = 0
    BY <1>1, <2>2 DEF IInv, Timely
  <2>4. wait'[p] > 0 /\ pc'[p] = "sleeping" /\ left'[p] = left[p] /\ left[p] \in Nat
    BY <1>1, <2>1, <2>2, BusyTimers
  <2>5. TimeLeft(p)' < TimeLeft(p)
    BY <2>2, <2>3, <2>4 DEF TimeLeft
  <2>6. QED BY <2>4, <2>5 DEF CallGoesOn, Busy
<1>5. CASE Wake(p)
  <2>1. pc[p] = "sleeping" /\ wait[p] = 0 /\ pc' = [pc EXCEPT ![p] = "calling"] /\ UNCHANGED <<left, wait>>
    BY <1>5 DEF Wake
  <2>2. pc'[p] = "calling" /\ left'[p] = left[p] /\ wait'[p] = 0 /\ left[p] \in Nat
    BY <1>1, <2>1, BusyTimers
  <2>3. TimeLeft(p)' < TimeLeft(p)
    BY <2>1, <2>2 DEF TimeLeft
  <2>4. QED BY <2>2, <2>3 DEF CallGoesOn, Busy
<1>6. ~StartPut(p)
  BY DEF StartPut, Busy
<1>7. QED BY <1>2, <1>3, <1>4, <1>5, <1>6

(* Every step of a getter that has a get under way.                        *)
LEMMA GetGoesOn ==
    ASSUME IInv, NEW g \in Getters, Busy(g), left[g] # Forever,
           StartGet(g) \/ Take(g) \/ LoseReply(g) \/ Got(g) \/ GotNothing(g) \/ GetFails(g)
    PROVE  CallGoesOn(g)
<1>1. g \in Actors
  BY DEF Actors
<1>2. CASE Got(g) \/ GetFails(g)
  BY <1>1, <1>2, ReturnGoesOn DEF Got, GetFails
<1>3. CASE GotNothing(g)
  BY <1>1, <1>3, ReturnGoesOn, PollGoesOn DEF GotNothing
<1>4. CASE Take(g) \/ LoseReply(g)
  BY <1>4 DEF Take, LoseReply, CallGoesOn
<1>5. ~StartGet(g)
  BY DEF StartGet, Busy
<1>6. QED BY <1>2, <1>3, <1>4, <1>5

(* Every step of an iterator that is under way.                            *)
LEMMA IterateGoesOn ==
    ASSUME TypeOK, IInv, NEW i \in Iterators, Busy(i), left[i] # Forever,
           StartIterate(i) \/ NextItem(i) \/ NoItems(i) \/ IterateFails(i)
    PROVE  CallGoesOn(i) \/ Len(yielded'[i]) = Len(yielded[i]) + 1
<1>1. i \in Actors
  BY DEF Actors
<1>2. CASE NoItems(i)
  BY <1>1, <1>2, ReturnGoesOn, PollGoesOn DEF NoItems
<1>3. CASE IterateFails(i)
  BY <1>1, <1>3, ReturnGoesOn DEF IterateFails
<1>4. CASE NextItem(i)
  <2>1. PICK e \in Oldest(Unseen(i), 1) : yielded' = [yielded EXCEPT ![i] = Append(yielded[i], e)]
    BY <1>4 DEF NextItem
  <2>2. e \in 1..Len(log) /\ yielded \in [Iterators -> Seq(1..Len(log))]
    BY <2>1 DEF Oldest, Unseen, TypeOK
  <2>3. yielded'[i] = Append(yielded[i], e) /\ yielded[i] \in Seq(1..Len(log))
    BY <2>1, <2>2
  <2>4. Len(Append(yielded[i], e)) = Len(yielded[i]) + 1
    BY <2>2, <2>3, AppendProperties
  <2>5. QED BY <2>3, <2>4
<1>5. ~StartIterate(i)
  BY DEF StartIterate, Busy
<1>6. QED BY <1>2, <1>3, <1>4, <1>5

(* The step of another actor leaves a call alone.                          *)
LEMMA OneActorAtATime ==
    ASSUME IInv, [Next]_vars, NEW a \in Actors,
           a \in Producers => ~(StartPut(a) \/ PutAcked(a) \/ PutRefused(a) \/ PutFails(a) \/ Wake(a)),
           a \in Getters => ~(StartGet(a) \/ Take(a) \/ LoseReply(a) \/ Got(a) \/ GotNothing(a) \/ GetFails(a)),
           a \in Iterators => ~(StartIterate(a) \/ NextItem(a) \/ NoItems(a) \/ IterateFails(a)),
           ~Tick(a)
    PROVE  pc'[a] = pc[a] /\ left'[a] = left[a] /\ wait'[a] = wait[a]
<1> USE DEF IInv, TimersTyped, Actors
<1>1. CASE Clear \/ UNCHANGED vars \/ \E p \in Producers : \E k \in 1..puts[p] : Store(p, k)
  BY <1>1 DEF Clear, vars, Store
<1>2. ASSUME NEW p \in Producers, StartPut(p) \/ PutAcked(p) \/ PutRefused(p) \/ PutFails(p) \/ Wake(p)
      PROVE  pc'[a] = pc[a] /\ left'[a] = left[a] /\ wait'[a] = wait[a]
  <2>1. p # a
    BY <1>2
  <2>2. CASE StartPut(p)
    BY <2>1, <2>2 DEF StartPut
  <2>3. CASE PutAcked(p) \/ PutFails(p) \/ Wake(p)
    BY <2>1, <2>3 DEF PutAcked, PutFails, Wake, Return
  <2>4. CASE PutRefused(p)
    BY <2>1, <2>4 DEF PutRefused, Return
  <2>5. QED BY <1>2, <2>2, <2>3, <2>4
<1>3. ASSUME NEW g \in Getters, StartGet(g) \/ Take(g) \/ LoseReply(g) \/ Got(g) \/ GotNothing(g) \/ GetFails(g)
      PROVE  pc'[a] = pc[a] /\ left'[a] = left[a] /\ wait'[a] = wait[a]
  <2>1. g # a
    BY <1>3
  <2>2. CASE StartGet(g) \/ Take(g) \/ LoseReply(g)
    BY <2>1, <2>2 DEF StartGet, Take, LoseReply
  <2>3. CASE Got(g) \/ GetFails(g) \/ GotNothing(g)
    BY <2>1, <2>3 DEF Got, GetFails, GotNothing, Return
  <2>4. QED BY <1>3, <2>2, <2>3
<1>4. ASSUME NEW i \in Iterators, StartIterate(i) \/ NextItem(i) \/ NoItems(i) \/ IterateFails(i)
      PROVE  pc'[a] = pc[a] /\ left'[a] = left[a] /\ wait'[a] = wait[a]
  <2>1. i # a
    BY <1>4
  <2>2. CASE StartIterate(i) \/ NoItems(i) \/ IterateFails(i)
    BY <2>1, <2>2 DEF StartIterate, NoItems, IterateFails, Return
  <2>3. CASE NextItem(i)
    BY <2>1, <2>3 DEF NextItem, Return
  <2>4. QED BY <1>4, <2>2, <2>3
<1>5. ASSUME NEW b \in Actors, Tick(b)
      PROVE  pc'[a] = pc[a] /\ left'[a] = left[a] /\ wait'[a] = wait[a]
  BY <1>5 DEF Tick
<1>6. QED BY <1>1, <1>2, <1>3, <1>4, <1>5 DEF Next

(* A call with a timeout uses up its time with every sleep, poll and       *)
(* answer and is over after it, and an iterate does but for the entries it *)
(* is given; only an empty answer before its poll's time is up uses none   *)
(* up.  This holds whatever the other callers put, take and clear meanwhile, for *)
(* any number of them: what CallsEnd and IterateEnds rest on (queue.rs:    *)
(* 348-401, 430-480, 511-561).                                             *)
THEOREM CallsMoveOn == Spec => ComesToAnEnd
<1>1. ASSUME TypeOK, IInv, SleepsArePositive, [Next]_vars, NEW a \in Actors, Busy(a), left[a] # Forever
      PROVE  CallGoesOn(a) \/ (a \in Iterators /\ Len(yielded'[a]) = Len(yielded[a]) + 1)
  <2>1. CASE Tick(a)
    BY <1>1, <2>1, TickGoesOn
  <2>2. CASE a \in Producers /\ (StartPut(a) \/ PutAcked(a) \/ PutRefused(a) \/ PutFails(a) \/ Wake(a))
    BY <1>1, <2>2, PutGoesOn
  <2>3. CASE a \in Getters /\ (StartGet(a) \/ Take(a) \/ LoseReply(a) \/ Got(a) \/ GotNothing(a) \/ GetFails(a))
    BY <1>1, <2>3, GetGoesOn
  <2>4. CASE a \in Iterators /\ (StartIterate(a) \/ NextItem(a) \/ NoItems(a) \/ IterateFails(a))
    BY <1>1, <2>4, IterateGoesOn
  <2>5. CASE pc'[a] = pc[a] /\ left'[a] = left[a] /\ wait'[a] = wait[a]
    BY <2>5 DEF CallGoesOn
  <2>6. QED BY <1>1, <2>1, <2>2, <2>3, <2>4, <2>5, OneActorAtATime
<1>2. TypeOK /\ IInv /\ SleepsArePositive /\ [Next]_vars =>
        [\A a \in Actors : Busy(a) /\ left[a] # Forever =>
            CallGoesOn(a) \/ (a \in Iterators /\ Len(yielded'[a]) = Len(yielded[a]) + 1)]_vars
  BY <1>1
<1>3. QED BY <1>2, TypeCorrect, InvariantIInv, SleepsArePositiveAlways, PTL DEF Spec, ComesToAnEnd
=============================================================================
