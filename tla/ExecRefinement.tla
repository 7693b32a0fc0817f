--------------------------- MODULE ExecRefinement ---------------------------
(***************************************************************************)
(* The writer and the reader of a process implement ByteStreams: calls     *)
(* that fail, calls the router executes again, offsets and the buffer are  *)
(* not seen by it.  A chunk is a first part of the output, as each of them *)
(* is requested from the beginning on.                                     *)
(***************************************************************************)
EXTENDS ExecIO

Streams == INSTANCE ByteStreams
             WITH Lengths <- 1..MaxIn,
                  Chunks <- {[x \in 1..n |-> x] : n \in 1..MaxOut},
                  received <- input, acked <- offset, sealed <- closed,
                  endsAt <- IF eofAt = NoEof THEN {} ELSE {eofAt},
                  arrived <- fetched, handed <- read, over <- eof

(* A byte that is acknowledged was received once and in its place, EOF is  *)
(* final and comes behind the acknowledged bytes, and no chunk is asked    *)
(* for, nor the end reported, before all that arrived was handed over      *)
(* (sandbox.rs:1050-1080, 1136-1179).                                      *)
ImplementsByteStreams == Streams!Spec
=============================================================================
