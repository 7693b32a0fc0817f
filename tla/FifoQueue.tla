------------------------------ MODULE FifoQueue ------------------------------
(***************************************************************************)
(* What one partition of a Queue promises to those who use it, whatever    *)
(* the network does: entries leave in the order in which they came in.  A  *)
(* put is AT LEAST once: its item is in the queue when it returns Ok, and  *)
(* may come in again, also after the call has returned or has failed.  A   *)
(* get is AT MOST once: what it takes is gone for everybody else, also if  *)
(* it is never handed over.  Readers see entries in the same order and     *)
(* leave them where they are.                                              *)
(*                                                                         *)
(* QueueOps.tla is shown to implement this module.                         *)
(***************************************************************************)
EXTENDS Naturals, Sequences

CONSTANTS Senders, Takers, Readers

VARIABLES order,       \* the entries that came in: order[e] = <<p, k>>, the k-th put of p
          held,        \* the entries in the queue
          sent,        \* sent[p]: the puts p has begun
          accepted,    \* the puts that returned Ok
          given,       \* given[t]: entries taken for t, not yet handed over
          seen         \* seen[r]: the entries that r has read

qvars == <<order, held, sent, accepted, given, seen>>

Init ==
    /\ order = <<>> /\ held = {}
    /\ sent = [p \in Senders |-> 0] /\ accepted = {}
    /\ given = [t \in Takers |-> {}]
    /\ seen = [r \in Readers |-> <<>>]

Send(p) ==
    /\ sent' = [sent EXCEPT ![p] = @ + 1]
    /\ UNCHANGED <<order, held, accepted, given, seen>>

\* An item comes in at the end; nothing ties this to the caller still waiting.
Enter(p, k) ==
    /\ order' = Append(order, <<p, k>>)
    /\ held' = held \cup {Len(order')}
    /\ UNCHANGED <<sent, accepted, given, seen>>

Accept(p) ==
    /\ \E e \in DOMAIN order : order[e] = <<p, sent[p]>>
    /\ accepted' = accepted \cup {<<p, sent[p]>>}
    /\ UNCHANGED <<order, held, sent, given, seen>>

\* The oldest entries are taken: none that stays is older than one of them.
TakeFirst(t, s) ==
    /\ given[t] = {}
    /\ \A e \in s, f \in held \ s : e < f
    /\ given' = [given EXCEPT ![t] = s]
    /\ held' = held \ s
    /\ UNCHANGED <<order, sent, accepted, seen>>

\* They reach their taker, or get lost.
HandOver(t) ==
    /\ given' = [given EXCEPT ![t] = {}]
    /\ UNCHANGED <<order, held, sent, accepted, seen>>

\* The oldest entry behind those that were read.
ReadNext(r, e) ==
    /\ \A n \in DOMAIN seen[r] : seen[r][n] < e
    /\ \A f \in held : f < e => \E n \in DOMAIN seen[r] : f <= seen[r][n]
    /\ seen' = [seen EXCEPT ![r] = Append(@, e)]
    /\ UNCHANGED <<order, held, sent, accepted, given>>

Empty ==
    /\ held' = {}
    /\ UNCHANGED <<order, sent, accepted, given, seen>>

Next ==
    \/ \E p \in Senders : Send(p) \/ Accept(p) \/ \E k \in 1..sent[p] : Enter(p, k)
    \/ \E t \in Takers : HandOver(t) \/ \E s \in SUBSET held : TakeFirst(t, s)
    \/ \E r \in Readers : \E e \in held : ReadNext(r, e)
    \/ Empty

Spec == Init /\ [][Next]_qvars
=============================================================================
