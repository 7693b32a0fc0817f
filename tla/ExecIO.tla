------------------------------- MODULE ExecIO -------------------------------
(***************************************************************************)
(* The streams of a ContainerProcess (sandbox.rs): its stdin writer and    *)
(* one of its two readers, over the ContainerProcessClient that            *)
(* task_command_router.rs implements.                                      *)
(*                                                                         *)
(* A byte is its position in the stream it belongs to.  The application    *)
(* writes the bytes 1, 2, ... to stdin, and writes again what a failed     *)
(* write did not acknowledge; the process outputs the bytes 1, 2, ...      *)
(* The router is external: it keeps the first byte it is given for a       *)
(* position, it may execute a write whose answer is lost, and it answers a *)
(* read with the chunks from the requested offset on, once there are any   *)
(* or the output has ended.                                                *)
(***************************************************************************)
EXTENDS Integers, Sequences

CONSTANTS MaxIn,     \* bound: bytes the application writes
          MaxOut,    \* bound: bytes the process outputs
          MaxRead,   \* bound: bytes the application reads
          Sizes      \* the lengths of the application's buffers

ASSUME ExecAssumption ==
    /\ MaxIn \in Nat /\ MaxOut \in Nat /\ MaxRead \in Nat
    /\ Sizes \subseteq Nat \ {0}

VARIABLES
    offset,     \* ContainerProcessStdin::offset
    closed,     \* ContainerProcessStdin::closed
    writing,    \* the call to exec_stdin_write: its size, 0 for close; or Idle
    executed,   \* the router has executed that call
    input,      \* the stdin of the process, as the router has it
    eofAt,      \* where the router was told that it ends, or NoEof
    produced,   \* bytes the process has output
    ended,      \* the process has closed its output
    buffer,     \* ContainerProcessReader::buffer
    bufPos,     \* ContainerProcessReader::buf_pos
    eof,        \* ContainerProcessReader::eof
    reading,    \* the length of the buffer that waits for exec_stdio_read; or Idle
    read,       \* the bytes the application has read
    fetched     \* history: the chunks exec_stdio_read returned, in one piece

vars == <<offset, closed, writing, executed, input, eofAt,
          produced, ended, buffer, bufPos, eof, reading, read, fetched>>

stdin == <<offset, closed, writing, executed, input, eofAt>>
reader == <<buffer, bufPos, eof, reading, read, fetched>>
output == <<produced, ended>>

Idle == MaxIn + 1 + MaxRead     \* larger than any size in use
NoEof == MaxIn + 1

Smaller(m, n) == IF m < n THEN m ELSE n
-----------------------------------------------------------------------------
Init ==
    /\ offset = 0 /\ closed = FALSE /\ writing = Idle /\ executed = FALSE
    /\ input = <<>> /\ eofAt = NoEof
    /\ produced = 0 /\ ended = FALSE
    /\ buffer = <<>> /\ bufPos = 0
    /\ eof \in BOOLEAN       \* at the end from the start with StreamConfig::Ignore
    /\ reading = Idle /\ read = <<>> /\ fetched = <<>>
-----------------------------------------------------------------------------
\* write: refused once closed; an empty buffer makes no call.
Write(n) ==
    /\ writing = Idle
    /\ ~closed
    /\ n > 0 /\ offset + n <= MaxIn
    /\ writing' = n
    /\ executed' = FALSE
    /\ UNCHANGED <<offset, closed, input, eofAt, reader, output>>

\* close: a second one makes no call.
Close ==
    /\ writing = Idle
    /\ ~closed
    /\ writing' = 0
    /\ executed' = FALSE
    /\ UNCHANGED <<offset, closed, input, eofAt, reader, output>>

\* The offset a call carries.
CallOffset == offset

\* The router executes the call, perhaps again; after EOF it refuses data.
Execute ==
    /\ writing # Idle
    /\ executed' = TRUE
    /\ IF writing = 0
         THEN eofAt' = Smaller(eofAt, CallOffset) /\ UNCHANGED input
         ELSE /\ eofAt = NoEof
              /\ LET known == Len(input) - CallOffset     \* bytes it has already
                 IN  input' = input \o [x \in 1..(writing - known) |-> offset + known + x]
              /\ UNCHANGED eofAt
    /\ UNCHANGED <<offset, closed, writing, reader, output>>

\* Ok: write advances the offset, close marks the stream closed.
Written ==
    /\ writing # Idle
    /\ executed
    /\ IF writing = 0
         THEN closed' = TRUE /\ UNCHANGED offset
         ELSE offset' = offset + writing /\ UNCHANGED closed
    /\ writing' = Idle
    /\ UNCHANGED <<executed, input, eofAt, reader, output>>

\* What an error does to the offset: nothing; or the slip to advance it before the call.
AdvancedFirst == offset + writing
AfterError == offset

\* An error, before or after the router executed the call.
WriteFails ==
    /\ writing # Idle
    /\ writing' = Idle
    /\ offset' = AfterError
    /\ UNCHANGED <<closed, executed, input, eofAt, reader, output>>
-----------------------------------------------------------------------------
Buffered == Len(buffer) - bufPos

\* Where the bytes left over from a chunk begin; and a slip in it.
SkipOne(n) == n + 1
RestFrom(n) == n

\* read, from the buffer: it is cleared when it has been used up.
ReadBuffered(cap) ==
    /\ reading = Idle
    /\ Buffered > 0
    /\ LET n == Smaller(cap, Buffered)
       IN  /\ Len(read) + n <= MaxRead
           /\ read' = read \o SubSeq(buffer, bufPos + 1, bufPos + n)
           /\ IF bufPos + n = Len(buffer)
                THEN buffer' = <<>> /\ bufPos' = 0
                ELSE bufPos' = bufPos + n /\ UNCHANGED buffer
    /\ UNCHANGED <<stdin, output, eof, reading, fetched>>

\* self.eof.
AtEof == eof

\* read, with nothing buffered: at the end 0 is returned, else a chunk is requested.
Read(cap) ==
    /\ reading = Idle
    /\ Buffered = 0
    /\ ~AtEof
    /\ Len(read) + cap <= MaxRead
    /\ reading' = cap
    /\ UNCHANGED <<stdin, output, buffer, bufPos, eof, read, fetched>>

\* The offset of exec_stdio_read in the trait implementation.
FetchOffset == 0

(* exec_stdio_read returns a chunk: the first of those in the answer.      *)
Chunk ==
    /\ reading # Idle
    /\ \E last \in (FetchOffset + 1)..produced :
          LET data == [x \in 1..(last - FetchOffset) |-> FetchOffset + x]
              n == Smaller(reading, Len(data))
          IN  /\ fetched' = fetched \o data
              /\ read' = read \o SubSeq(data, 1, n)
              /\ IF n < Len(data)
                   THEN buffer' = data /\ bufPos' = RestFrom(n)
                   ELSE UNCHANGED <<buffer, bufPos>>
    /\ reading' = Idle
    /\ UNCHANGED <<stdin, output, eof>>

\* It returns Ok(None): the answer held no chunk, or an empty one.
EndOfStream ==
    /\ reading # Idle
    /\ ended /\ produced <= FetchOffset
    /\ eof' = TRUE
    /\ reading' = Idle
    /\ UNCHANGED <<stdin, output, buffer, bufPos, read, fetched>>

ReadFails ==
    /\ reading # Idle
    /\ reading' = Idle
    /\ UNCHANGED <<stdin, output, buffer, bufPos, eof, read, fetched>>
-----------------------------------------------------------------------------
Output ==
    /\ ~ended
    /\ produced < MaxOut
    /\ produced' = produced + 1
    /\ UNCHANGED <<stdin, reader, ended>>

End ==
    /\ ~ended
    /\ ended' = TRUE
    /\ UNCHANGED <<stdin, reader, produced>>

Next ==
    \/ \E n \in Sizes : Write(n) \/ ReadBuffered(n) \/ Read(n)
    \/ Close \/ Execute \/ Written \/ WriteFails
    \/ Chunk \/ EndOfStream \/ ReadFails
    \/ Output \/ End

Spec == Init /\ [][Next]_vars
-----------------------------------------------------------------------------
TypeOK ==
    /\ offset \in 0..MaxIn /\ closed \in BOOLEAN
    /\ writing \in (0..MaxIn) \cup {Idle} /\ executed \in BOOLEAN
    /\ input \in Seq(Nat) /\ eofAt \in 0..NoEof
    /\ produced \in 0..MaxOut /\ ended \in BOOLEAN
    /\ buffer \in Seq(1..MaxOut) /\ eof \in BOOLEAN
    /\ bufPos \in 1..(Len(buffer) - 1) \/ (bufPos = 0 /\ buffer = <<>>)
    /\ reading \in Nat /\ read \in Seq(1..MaxOut) /\ fetched \in Seq(1..MaxOut)

(* The process reads what the application wrote, in order, without a gap   *)
(* and without a repetition, and nothing it was told is written is         *)
(* missing, although a failed write may have been executed and is written  *)
(* again, perhaps in other pieces; and EOF comes after all bytes that were *)
(* ever acknowledged, where the stdin was closed (sandbox.rs:1050-1080).   *)
StdinIsTheStream ==
    /\ \A x \in DOMAIN input : input[x] = x
    /\ offset <= Len(input)
    /\ eofAt # NoEof => offset <= eofAt
    /\ closed => eofAt = offset

(* Nothing is lost or repeated between exec_stdio_read and the             *)
(* application, however the sizes of chunks and buffers meet: what was     *)
(* read, followed by the rest of the buffer, is what was fetched           *)
(* (sandbox.rs:1137-1179).                                                 *)
BufferingIsLossless ==
    read \o SubSeq(buffer, bufPos + 1, Len(buffer)) = fetched

(* Both streams, whatever calls fail and are made again.                   *)
StreamsAreIntact == StdinIsTheStream /\ BufferingIsLossless

(* "Read the next chunk from stdout or stderr": what the application reads *)
(* is the stream, from its beginning on.                                   *)
ReadsTheStream == \A x \in DOMAIN read : read[x] = x
=============================================================================
