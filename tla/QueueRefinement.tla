--------------------------- MODULE QueueRefinement ---------------------------
(***************************************************************************)
(* The operations of queue.rs implement FifoQueue: deadlines, backoffs,    *)
(* polls and refusals are steps it does not see.                           *)
(***************************************************************************)
EXTENDS QueueOps

Fifo == INSTANCE FifoQueue
          WITH Senders <- Producers, Takers <- Getters, Readers <- Iterators,
               order <- log, held <- queue, sent <- puts,
               accepted <- acked, given <- reply, seen <- yielded

(* A put returns Ok only for an item that came in, entries are taken and   *)
(* read oldest first, each by at most one getter and at most once by a     *)
(* reader, and nothing taken comes back (queue.rs:348-480, 511-561).       *)
ImplementsFifoQueue == Fifo!Spec

(* iterate passes nothing over: it yields in order, and ends when idle.    *)
IteratesFaithfully == []YieldsInOrder /\ EndsWhenIdle
=============================================================================
