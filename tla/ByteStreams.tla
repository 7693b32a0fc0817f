----------------------------- MODULE ByteStreams -----------------------------
(***************************************************************************)
(* What the streams of a ContainerProcess promise to the application and   *)
(* to the process, whatever calls fail and are made again.  The process    *)
(* receives the bytes that are written in their order, each once; what the *)
(* application was told is written has been received; and its input ends   *)
(* right behind what was acknowledged, where it was closed.  What arrives  *)
(* from the process is handed to the application in the order in which it  *)
(* arrived, all of it before any more is asked for, and before the end.    *)
(*                                                                         *)
(* ExecIO.tla is shown to implement this module.                           *)
(***************************************************************************)
EXTENDS Naturals, Sequences

CONSTANTS Lengths,     \* how many bytes may be received at once
          Chunks       \* the pieces of output that may arrive at once

VARIABLES received,    \* the bytes the process has received, by their positions
          acked,       \* how many bytes the application was told are written
          endsAt,      \* where the input ends: a set of at most one position
          sealed,      \* the application was told that the input is closed
          arrived,     \* the output that has arrived, in one piece
          handed,      \* what the application has of it
          over         \* the application was told that the output is over

svars == <<received, acked, endsAt, sealed, arrived, handed, over>>

Init ==
    /\ received = <<>> /\ acked = 0 /\ endsAt = {} /\ sealed = FALSE
    /\ arrived = <<>> /\ handed = <<>> /\ over \in BOOLEAN

\* The next bytes come in; nothing ties this to a write that will be acknowledged.
Receive(n) ==
    /\ endsAt = {}
    /\ received' = received \o [x \in 1..n |-> Len(received) + x]
    /\ UNCHANGED <<acked, endsAt, sealed, arrived, handed, over>>

Acknowledge(n) ==
    /\ endsAt = {}
    /\ acked < n
    /\ acked' = n
    /\ UNCHANGED <<received, endsAt, sealed, arrived, handed, over>>

\* The input ends, for good and right behind the acknowledged bytes.
EndInput ==
    /\ endsAt = {}
    /\ endsAt' = {acked}
    /\ UNCHANGED <<received, acked, sealed, arrived, handed, over>>

Seal ==
    /\ endsAt = {acked}
    /\ sealed' = TRUE
    /\ UNCHANGED <<received, acked, endsAt, arrived, handed, over>>

\* More of what has arrived is handed over.
Hand(n) ==
    /\ Len(handed) < n
    /\ handed' = SubSeq(arrived, 1, n)
    /\ UNCHANGED <<received, acked, endsAt, sealed, arrived, over>>

\* A chunk arrives when nothing is left of the others, and the first of it is handed over.
Arrive(chunk, n) ==
    /\ ~over
    /\ handed = arrived
    /\ arrived' = arrived \o chunk
    /\ Len(arrived) < n /\ n <= Len(arrived')
    /\ handed' = SubSeq(arrived', 1, n)
    /\ UNCHANGED <<received, acked, endsAt, sealed, over>>

EndOutput ==
    /\ ~over
    /\ handed = arrived
    /\ over' = TRUE
    /\ UNCHANGED <<received, acked, endsAt, sealed, arrived, handed>>

Next ==
    \/ \E n \in Lengths : Receive(n)
    \/ \E n \in 1..Len(received) : Acknowledge(n)
    \/ EndInput \/ Seal
    \/ \E n \in 1..Len(arrived) : Hand(n)
    \/ \E chunk \in Chunks : \E n \in 1..(Len(arrived) + Len(chunk)) : Arrive(chunk, n)
    \/ EndOutput

Spec == Init /\ [][Next]_svars
=============================================================================
