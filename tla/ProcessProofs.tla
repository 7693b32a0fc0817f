---------------------------- MODULE ProcessProofs ----------------------------
(***************************************************************************)
(* Proofs about the streams of a process and the wait for its exit, for    *)
(* streams and buffers of any length and any deadlines.                    *)
(***************************************************************************)
EXTENDS ExecRefinement, ContainerWait, SequenceTheorems, TLAPS

(* The stdin writer: a call under way has room in the bound, a call that   *)
(* the router has executed has had its effect there, a closed stream has   *)
(* no call, and nothing is acknowledged behind EOF.                        *)
StdinInv ==
    /\ offset \in 0..MaxIn /\ closed \in BOOLEAN
    /\ writing \in (0..MaxIn) \cup {Idle} /\ executed \in BOOLEAN
    /\ input \in Seq(Nat) /\ eofAt \in 0..NoEof
    /\ writing # Idle => offset + writing <= MaxIn
    /\ executed /\ writing # Idle /\ writing # 0 => eofAt = NoEof /\ offset + writing <= Len(input)
    /\ executed /\ writing = 0 => eofAt = offset
    /\ closed => writing = Idle
    /\ eofAt # NoEof => eofAt = offset
    /\ StdinIsTheStream

(* The bytes a process may output.                                         *)
Bytes == 1..MaxOut

(* The reader: nothing is buffered while a chunk is awaited, which none is *)
(* at the end, and a buffer is dropped when it has been used up.           *)
ReaderInv ==
    /\ produced \in 0..MaxOut /\ ended \in BOOLEAN
    /\ buffer \in Seq(Bytes) /\ eof \in BOOLEAN
    /\ bufPos \in 1..(Len(buffer) - 1) \/ (bufPos = 0 /\ buffer = <<>>)
    /\ reading \in Nat \ {0} /\ read \in Seq(Bytes) /\ fetched \in Seq(Bytes)
    /\ reading # Idle => buffer = <<>> /\ ~eof
    /\ BufferingIsLossless

LEMMA Bounds ==
    /\ MaxIn \in Nat /\ MaxOut \in Nat /\ MaxRead \in Nat /\ Sizes \subseteq Nat \ {0}
    /\ Idle \in Nat /\ Idle > MaxIn /\ Idle > MaxRead /\ NoEof = MaxIn + 1
BY ExecAssumption DEF Idle, NoEof

LEMMA InitStdin == Init => StdinInv
<1> SUFFICES ASSUME Init PROVE StdinInv
  OBVIOUS
<1>1. input = <<>> /\ input \in Seq(Nat) /\ Len(input) = 0 /\ DOMAIN input = {}
  BY EmptySeq DEF Init
<1>2. StdinIsTheStream
  BY <1>1 DEF Init, StdinIsTheStream
<1>3. offset \in 0..MaxIn /\ eofAt \in 0..NoEof /\ writing = Idle /\ ~closed /\ ~executed
  BY Bounds DEF Init
<1>4. closed \in BOOLEAN /\ executed \in BOOLEAN /\ input \in Seq(Nat)
  BY <1>1 DEF Init
<1>5. Idle # 0
  BY Bounds
<1>6. eofAt = NoEof
  BY DEF Init
<1>7. QED BY <1>2, <1>3, <1>4, <1>5, <1>6 DEF StdinInv

(* The router adds what it lacks of the bytes it is given, which are the   *)
(* bytes of their positions.                                               *)
LEMMA ExecuteData ==
    ASSUME StdinInv, writing # Idle, writing # 0, Execute PROVE StdinInv'
<1> DEFINE known == Len(input) - offset
           data == [x \in 1..(writing - known) |-> offset + known + x]
<1>1. /\ offset \in Nat /\ writing \in Nat \ {0} /\ input \in Seq(Nat)
      /\ Len(input) \in Nat /\ DOMAIN input = 1..Len(input) /\ offset <= Len(input)
      /\ \A x \in DOMAIN input : input[x] = x
  BY Bounds, LenProperties DEF StdinInv, StdinIsTheStream
<1>2. /\ input' = input \o data /\ eofAt = NoEof /\ executed'
      /\ UNCHANGED <<offset, closed, writing, eofAt>>
  BY DEF Execute, CallOffset
<1>3. writing - known \in Int /\ (writing - known >= 0 \/ data = <<>>)
  BY <1>1
<1> DEFINE more == IF writing - known >= 0 THEN writing - known ELSE 0
<1>4. more \in Nat /\ data \in [1..more -> Nat] /\ \A x \in 1..more : data[x] = Len(input) + x
  BY <1>1
<1> HIDE DEF data, more, known
<1>5. data \in Seq(Nat) /\ Len(data) = more
  BY <1>4, LenProperties, SeqDef
<1>6. /\ input' \in Seq(Nat) /\ Len(input') = Len(input) + more
      /\ \A x \in 1..Len(input') :
            input'[x] = IF x <= Len(input) THEN input[x] ELSE data[x - Len(input)]
  BY <1>1, <1>2, <1>5, ConcatProperties
<1>7. \A x \in DOMAIN input' : input'[x] = x
  <2> SUFFICES ASSUME NEW x \in 1..Len(input') PROVE input'[x] = x
    BY <1>6, LenProperties
  <2>1. CASE x <= Len(input)
    <3>1. x \in 1..Len(input) /\ input'[x] = input[x]
      BY <1>1, <1>6, <2>1
    <3>2. QED BY <1>1, <3>1
  <2>2. CASE x > Len(input)
    <3>1. x - Len(input) \in 1..more
      BY <1>1, <1>4, <1>6, <2>2
    <3>2. QED BY <1>1, <1>4, <1>6, <2>2, <3>1
  <2>3. QED BY <1>1, <1>4, <1>6, <2>1, <2>2
<1>8. offset + writing <= Len(input')
  BY <1>1, <1>4, <1>6 DEF more, known
<1>9. StdinIsTheStream'
  BY <1>1, <1>2, <1>7, <1>8, Bounds DEF StdinIsTheStream, StdinInv
<1>10. QED BY <1>2, <1>6, <1>8, <1>9, Bounds DEF StdinInv

LEMMA StepStdin == StdinInv /\ [Next]_vars => StdinInv'
<1> SUFFICES ASSUME StdinInv, [Next]_vars PROVE StdinInv'
  OBVIOUS
<1> USE Bounds
<1>1. ASSUME UNCHANGED stdin PROVE StdinInv'
  BY <1>1 DEF StdinInv, StdinIsTheStream, stdin
<1>2. ASSUME NEW n \in Sizes, Write(n) PROVE StdinInv'
  <2>1. n \in Nat \ {0}
    OBVIOUS
  <2>2. StdinIsTheStream'
    BY <1>2 DEF StdinInv, StdinIsTheStream, Write
  <2>3. /\ ~executed' /\ executed' \in BOOLEAN /\ writing' = n /\ ~closed'
        /\ UNCHANGED <<offset, closed, input, eofAt>> /\ offset' + n <= MaxIn
    BY <1>2 DEF StdinInv, Write
  <2>4. n \in 0..MaxIn
    BY <2>1, <2>3 DEF StdinInv
  <2>5. QED BY <2>1, <2>2, <2>3, <2>4 DEF StdinInv
<1>3. CASE Close
  <2>1. /\ ~executed' /\ executed' \in BOOLEAN /\ writing' = 0 /\ ~closed'
        /\ UNCHANGED <<offset, closed, input, eofAt>>
    BY <1>3 DEF StdinInv, Close
  <2>2. StdinIsTheStream'
    BY <2>1 DEF StdinInv, StdinIsTheStream
  <2>3. QED BY <2>1, <2>2 DEF StdinInv
<1>4. CASE Execute
  <2>1. CASE writing = 0
    <3>1. Smaller(eofAt, offset) = offset
      BY DEF StdinInv, StdinIsTheStream, Smaller
    <3>2. eofAt' = offset /\ UNCHANGED <<input, offset, closed, writing>> /\ executed'
      BY <1>4, <2>1, <3>1 DEF Execute, CallOffset
    <3>3. QED BY <2>1, <3>2 DEF StdinInv, StdinIsTheStream
  <2>2. CASE writing # 0
    BY <1>4, <2>2, ExecuteData DEF Execute
  <2>3. QED BY <2>1, <2>2
<1>5. CASE Written
  <2>1. CASE writing = 0
    BY <1>5, <2>1 DEF StdinInv, StdinIsTheStream, Written
  <2>2. CASE writing # 0
    <3>1. Len(input) \in Nat
      BY LenProperties DEF StdinInv
    <3>2. QED BY <1>5, <2>2, <3>1 DEF StdinInv, StdinIsTheStream, Written
  <2>3. QED BY <2>1, <2>2
<1>6. CASE WriteFails
  BY <1>6 DEF StdinInv, StdinIsTheStream, WriteFails, AfterError
<1>7. ASSUME NEW n \in Sizes, ReadBuffered(n) \/ Read(n) PROVE UNCHANGED stdin
  BY <1>7 DEF ReadBuffered, Read
<1>8. ASSUME Chunk \/ EndOfStream \/ ReadFails \/ Output \/ End \/ UNCHANGED vars
      PROVE  UNCHANGED stdin
  BY <1>8 DEF Chunk, EndOfStream, ReadFails, Output, End, vars, stdin
<1>9. QED BY <1>1, <1>2, <1>3, <1>4, <1>5, <1>6, <1>7, <1>8 DEF Next

LEMMA StdinInvariant == Spec => []StdinInv
<1>1. Init => StdinInv
  BY InitStdin
<1>2. StdinInv /\ [Next]_vars => StdinInv'
  BY StepStdin
<1>3. QED BY <1>1, <1>2, PTL DEF Spec

(* The process reads what was written, whatever failed and was repeated.   *)
THEOREM StdinIsNeverGarbled == Spec => []StdinIsTheStream
<1>1. StdinInv => StdinIsTheStream
  BY DEF StdinInv
<1>2. QED BY <1>1, StdinInvariant, PTL
-----------------------------------------------------------------------------
LEMMA InitReader == Init => ReaderInv
<1> SUFFICES ASSUME Init PROVE ReaderInv
  OBVIOUS
<1>1. /\ buffer = <<>> /\ read = <<>> /\ fetched = <<>> /\ bufPos = 0 /\ reading = Idle
      /\ produced = 0 /\ ended \in BOOLEAN /\ eof \in BOOLEAN
  BY DEF Init
<1>2. <<>> \in Seq(Bytes) /\ Len(<<>>) = 0
  BY EmptySeq
<1>3. BufferingIsLossless
  BY <1>1, <1>2, SubSeqEmpty, ConcatEmptySeq DEF BufferingIsLossless
<1>4. QED BY <1>1, <1>2, <1>3, Bounds DEF ReaderInv

(* A function on 1..n is a sequence of length n.                           *)
LEMMA FunctionIsSeq ==
    ASSUME NEW S, NEW n \in Nat, NEW f \in [1..n -> S] PROVE f \in Seq(S) /\ Len(f) = n
BY SeqDef, LenProperties

LEMMA NothingLeft ==
    ASSUME NEW s, NEW k \in Nat, NEW n \in Nat, n <= k PROVE SubSeq(s, k + 1, n) = <<>>
<1>1. k + 1 \in Int /\ n \in Int /\ n < k + 1
  OBVIOUS
<1>2. QED BY <1>1, SubSeqEmpty

(* A piece of a sequence, followed by the rest of it from there on.        *)
LEMMA CutAt ==
    ASSUME NEW S, NEW s \in Seq(S), NEW k \in Nat, NEW n \in Nat \ {0}, k + n <= Len(s)
    PROVE  /\ SubSeq(s, k + 1, k + n) \in Seq(S)
           /\ SubSeq(s, k + n + 1, Len(s)) \in Seq(S)
           /\ SubSeq(s, k + 1, k + n) \o SubSeq(s, k + n + 1, Len(s)) = SubSeq(s, k + 1, Len(s))
<1>1. Len(s) \in Nat /\ \A i \in 1..Len(s) : s[i] \in S
  BY LenProperties, ElementOfSeq
<1>2. SubSeq(s, k + 1, k + n) \in Seq(S) /\ SubSeq(s, k + n + 1, Len(s)) \in Seq(S)
  BY <1>1, SubSeqProperties
<1> DEFINE m == k + 1
           i == k + n
<1>3. m \in 1..(Len(s) + 1) /\ i \in (m - 1)..Len(s) /\ Len(s) \in i..Len(s)
  BY <1>1
<1> HIDE DEF m, i
<1>4. SubSeq(s, m, i) \o SubSeq(s, i + 1, Len(s)) = SubSeq(s, m, Len(s))
  BY <1>3, ConcatAdjacentSubSeq
<1>5. QED BY <1>2, <1>4 DEF m, i

LEMMA CutAtStart ==
    ASSUME NEW S, NEW s \in Seq(S), NEW n \in Nat \ {0}, n <= Len(s)
    PROVE  /\ SubSeq(s, 1, n) \in Seq(S) /\ SubSeq(s, n + 1, Len(s)) \in Seq(S)
           /\ SubSeq(s, 1, n) \o SubSeq(s, n + 1, Len(s)) = s
<1>1. \A k \in Nat : k + n <= Len(s) =>
          /\ SubSeq(s, k + 1, k + n) \in Seq(S)
          /\ SubSeq(s, k + n + 1, Len(s)) \in Seq(S)
          /\ SubSeq(s, k + 1, k + n) \o SubSeq(s, k + n + 1, Len(s)) = SubSeq(s, k + 1, Len(s))
  BY CutAt
<1>2. 0 \in Nat /\ 0 + 1 = 1 /\ 0 + n = n /\ 0 + n + 1 = n + 1
  OBVIOUS
<1>3. SubSeq(s, 1, Len(s)) = s
  BY SubSeqFull
<1>4. QED BY <1>1, <1>2, <1>3

LEMMA ReadBufferedStep ==
    ASSUME ReaderInv, NEW cap \in Nat \ {0}, ReadBuffered(cap) PROVE ReaderInv'
<1> DEFINE n == Smaller(cap, Buffered)
           piece == SubSeq(buffer, bufPos + 1, bufPos + n)
           rest == SubSeq(buffer, bufPos + n + 1, Len(buffer))
<1>1. /\ buffer \in Seq(Bytes) /\ Len(buffer) \in Nat /\ bufPos \in Nat /\ bufPos < Len(buffer)
      /\ read \in Seq(Bytes) /\ reading = Idle
      /\ UNCHANGED <<produced, ended, eof, reading, fetched>>
  BY LenProperties DEF ReaderInv, ReadBuffered, Buffered, output
<1>2. n \in Nat \ {0} /\ bufPos + n <= Len(buffer)
  BY <1>1 DEF Smaller, Buffered
<1>3. /\ read' = read \o piece
      /\ \/ bufPos + n = Len(buffer) /\ buffer' = <<>> /\ bufPos' = 0
         \/ bufPos + n # Len(buffer) /\ bufPos' = bufPos + n /\ UNCHANGED buffer
  BY DEF ReadBuffered
<1> HIDE DEF n
<1>4. /\ piece \in Seq(Bytes) /\ rest \in Seq(Bytes)
      /\ piece \o rest = SubSeq(buffer, bufPos + 1, Len(buffer))
  BY <1>1, <1>2, CutAt
<1>5. SubSeq(buffer', bufPos' + 1, Len(buffer')) = rest
  <2>1. CASE bufPos + n = Len(buffer)
    <3>1. bufPos + n \in Nat /\ Len(buffer) <= bufPos + n
      BY <1>1, <1>2, <2>1
    <3>2. rest = <<>>
      BY <1>1, <3>1, NothingLeft
    <3>3. buffer' = <<>> /\ bufPos' = 0 /\ Len(<<>>) = 0
      BY <1>3, <2>1, EmptySeq
    <3>4. SubSeq(<<>>, 0 + 1, 0) = <<>>
      BY NothingLeft
    <3>5. QED BY <3>2, <3>3, <3>4
  <2>2. CASE bufPos + n # Len(buffer)
    BY <1>3, <2>2
  <2>3. QED BY <2>1, <2>2
<1> HIDE DEF piece, rest
<1>6. read' \in Seq(Bytes) /\ read' \o rest = read \o (piece \o rest)
  <2>1. read \in Seq(Bytes) /\ piece \in Seq(Bytes) /\ rest \in Seq(Bytes)
    BY <1>1, <1>4
  <2>2. read \o piece \in Seq(Bytes)
    BY <2>1, ConcatProperties
  <2>3. (read \o piece) \o rest = read \o (piece \o rest)
    BY <2>1, ConcatAssociative
  <2>4. QED BY <1>3, <2>2, <2>3
<1>7. BufferingIsLossless'
  BY <1>1, <1>4, <1>5, <1>6 DEF ReaderInv, BufferingIsLossless
<1>8. /\ buffer' \in Seq(Bytes)
      /\ bufPos' \in 1..(Len(buffer') - 1) \/ (bufPos' = 0 /\ buffer' = <<>>)
  <2>1. CASE bufPos + n = Len(buffer)
    BY <1>3, <2>1, EmptySeq
  <2>2. CASE bufPos + n # Len(buffer)
    BY <1>1, <1>2, <1>3, <2>2
  <2>3. QED BY <2>1, <2>2
<1>9. QED BY <1>1, <1>6, <1>7, <1>8 DEF ReaderInv

LEMMA ChunkStep == ASSUME ReaderInv, Chunk PROVE ReaderInv'
<1>1. PICK last \in (FetchOffset + 1)..produced :
          LET data == [x \in 1..(last - FetchOffset) |-> FetchOffset + x]
              n == Smaller(reading, Len(data))
          IN  /\ fetched' = fetched \o data
              /\ read' = read \o SubSeq(data, 1, n)
              /\ IF n < Len(data)
                   THEN buffer' = data /\ bufPos' = RestFrom(n)
                   ELSE UNCHANGED <<buffer, bufPos>>
  BY DEF Chunk
<1> DEFINE data == [x \in 1..(last - FetchOffset) |-> FetchOffset + x]
           n == Smaller(reading, Len(data))
           piece == SubSeq(data, 1, n)
           rest == SubSeq(data, n + 1, Len(data))
<1>2. /\ last \in Nat \ {0} /\ last <= MaxOut /\ last - FetchOffset = last
      /\ reading \in Nat \ {0} /\ reading # Idle /\ Idle \in Nat \ {0} /\ reading' = Idle
      /\ buffer = <<>> /\ bufPos = 0
      /\ read \in Seq(Bytes) /\ fetched \in Seq(Bytes)
      /\ UNCHANGED <<produced, ended, eof>>
  BY Bounds, EmptySeq DEF ReaderInv, Chunk, FetchOffset, output
<1>3. data \in [1..last -> Bytes]
  BY <1>2, Bounds DEF FetchOffset, Bytes
<1>4. /\ fetched' = fetched \o data /\ read' = read \o piece
      /\ \/ n < Len(data) /\ buffer' = data /\ bufPos' = n
         \/ ~(n < Len(data)) /\ UNCHANGED <<buffer, bufPos>>
  BY <1>1 DEF RestFrom
<1> HIDE DEF data
<1>5. data \in Seq(Bytes) /\ Len(data) = last
  BY <1>2, <1>3, FunctionIsSeq
<1>6. n \in Nat \ {0} /\ n <= Len(data)
  BY <1>2, <1>5 DEF Smaller
<1> HIDE DEF n
<1>7. /\ piece \in Seq(Bytes) /\ rest \in Seq(Bytes)
      /\ piece \o rest = data
  BY <1>5, <1>6, CutAtStart
<1>8. read = fetched
  <2>1. SubSeq(buffer, bufPos + 1, Len(buffer)) = <<>>
    BY <1>2, EmptySeq, SubSeqEmpty
  <2>2. QED BY <1>2, <2>1, ConcatEmptySeq DEF ReaderInv, BufferingIsLossless
<1>9. SubSeq(buffer', bufPos' + 1, Len(buffer')) = rest
  <2>1. CASE n < Len(data)
    BY <1>4, <2>1
  <2>2. CASE ~(n < Len(data))
    <3>1. rest = <<>>
      BY <1>5, <1>6, <2>2, NothingLeft
    <3>2. buffer' = <<>> /\ bufPos' = 0 /\ Len(<<>>) = 0
      BY <1>2, <1>4, <2>2, EmptySeq
    <3>3. SubSeq(<<>>, 0 + 1, 0) = <<>>
      BY NothingLeft
    <3>4. QED BY <3>1, <3>2, <3>3
  <2>3. QED BY <2>1, <2>2
<1> HIDE DEF piece, rest
<1>10. read' \in Seq(Bytes) /\ read' \o rest = read \o (piece \o rest)
  <2>1. read \in Seq(Bytes) /\ piece \in Seq(Bytes) /\ rest \in Seq(Bytes)
    BY <1>2, <1>7
  <2>2. read \o piece \in Seq(Bytes)
    BY <2>1, ConcatProperties
  <2>3. (read \o piece) \o rest = read \o (piece \o rest)
    BY <2>1, ConcatAssociative
  <2>4. read' = read \o piece
    BY <1>4
  <2>5. QED BY <2>2, <2>3, <2>4
<1>11. BufferingIsLossless' /\ fetched' \in Seq(Bytes)
  BY <1>2, <1>4, <1>5, <1>7, <1>8, <1>9, <1>10, ConcatProperties DEF BufferingIsLossless
<1>12. /\ buffer' \in Seq(Bytes)
       /\ bufPos' \in 1..(Len(buffer') - 1) \/ (bufPos' = 0 /\ buffer' = <<>>)
  <2>1. CASE n < Len(data)
    BY <1>4, <1>5, <1>6, <2>1
  <2>2. CASE ~(n < Len(data))
    BY <1>2, <1>4, <2>2, EmptySeq
  <2>3. QED BY <2>1, <2>2
<1>13. QED BY <1>2, <1>10, <1>11, <1>12 DEF ReaderInv

LEMMA StepReader == ReaderInv /\ [Next]_vars => ReaderInv'
<1> SUFFICES ASSUME ReaderInv, [Next]_vars PROVE ReaderInv'
  OBVIOUS
<1>1. ASSUME UNCHANGED <<reader, output>> PROVE ReaderInv'
  BY <1>1 DEF ReaderInv, BufferingIsLossless, reader, output
<1>2. ASSUME NEW n \in Sizes, ReadBuffered(n) PROVE ReaderInv'
  BY <1>2, Bounds, ReadBufferedStep
<1>3. ASSUME NEW cap \in Sizes, Read(cap) PROVE ReaderInv'
  <2>1. cap \in Nat \ {0} /\ reading' = cap /\ UNCHANGED <<produced, ended, buffer, bufPos, eof, read, fetched>>
    BY <1>3, Bounds DEF Read, output
  <2>2. buffer = <<>>
    <3>1. Len(buffer) \in Nat
      BY LenProperties DEF ReaderInv
    <3>2. QED BY <1>3, <3>1 DEF ReaderInv, Read, Buffered
  <2>3. ~eof'
    BY <1>3, <2>1 DEF Read, AtEof
  <2>4. QED BY <2>1, <2>2, <2>3 DEF ReaderInv, BufferingIsLossless
<1>4. CASE EndOfStream
  BY <1>4, Bounds DEF ReaderInv, BufferingIsLossless, EndOfStream, output
<1>5. CASE ReadFails
  BY <1>5, Bounds DEF ReaderInv, BufferingIsLossless, ReadFails, output
<1>6. CASE Output
  <2>1. produced' \in 0..MaxOut
    BY <1>6, Bounds DEF ReaderInv, Output
  <2>2. UNCHANGED <<ended, buffer, bufPos, eof, reading, read, fetched>>
    BY <1>6 DEF Output, reader
  <2>3. QED BY <2>1, <2>2 DEF ReaderInv, BufferingIsLossless
<1>7. CASE End
  BY <1>7 DEF ReaderInv, BufferingIsLossless, End, reader
<1>8. ASSUME NEW n \in Sizes, Write(n) PROVE UNCHANGED <<reader, output>>
  BY <1>8 DEF Write
<1>9. ASSUME Close \/ Execute \/ Written \/ WriteFails \/ UNCHANGED vars
      PROVE  UNCHANGED <<reader, output>>
  BY <1>9 DEF Close, Execute, Written, WriteFails, vars, reader, output
<1>10. QED BY <1>1, <1>2, <1>3, <1>4, <1>5, <1>6, <1>7, <1>8, <1>9, ChunkStep DEF Next

LEMMA ReaderInvariant == Spec => []ReaderInv
<1>1. Init => ReaderInv
  BY InitReader
<1>2. ReaderInv /\ [Next]_vars => ReaderInv'
  BY StepReader
<1>3. QED BY <1>1, <1>2, PTL DEF Spec

(* No byte is lost or repeated between exec_stdio_read and the             *)
(* application, for chunks and buffers of any sizes.                       *)
THEOREM BuffersAreLossless == Spec => []BufferingIsLossless
<1>1. ReaderInv => BufferingIsLossless
  BY DEF ReaderInv
<1>2. QED BY <1>1, ReaderInvariant, PTL

(* Both streams are intact, in every execution.                            *)
THEOREM StreamsAreNeverGarbled == Spec => []StreamsAreIntact
BY StdinIsNeverGarbled, BuffersAreLossless, PTL DEF StreamsAreIntact

(* Types of both streams.                                                  *)
THEOREM StreamsTyped == Spec => []TypeOK
<1>1. StdinInv /\ ReaderInv => TypeOK
  BY DEF StdinInv, ReaderInv, TypeOK, Bytes
<1>2. QED BY <1>1, StdinInvariant, ReaderInvariant, PTL
-----------------------------------------------------------------------------
(* A call that the router executes brings in what it lacks of the bytes,   *)
(* or EOF, or nothing when it was executed before.                         *)
LEMMA ExecuteRefines ==
    ASSUME StdinInv, Execute PROVE [Streams!Next]_(Streams!svars)
<1>1. /\ offset \in Nat /\ input \in Seq(Nat) /\ Len(input) \in Nat /\ offset <= Len(input)
      /\ UNCHANGED <<offset, closed, fetched, read, eof>>
  BY Bounds, LenProperties DEF StdinInv, StdinIsTheStream, Execute, reader
<1>2. CASE writing = 0
  <2>1. UNCHANGED input /\ eofAt' = Smaller(eofAt, offset)
    BY <1>2 DEF Execute, CallOffset
  <2>2. offset \in Nat /\ NoEof \in Nat /\ offset < NoEof
    BY Bounds DEF StdinInv
  <2>3. CASE eofAt = NoEof
    <3>1. eofAt' = offset /\ offset # NoEof
      BY <2>1, <2>2, <2>3 DEF Smaller
    <3>2. Streams!EndInput
      BY <1>1, <2>1, <2>3, <3>1 DEF Streams!EndInput
    <3>3. QED BY <3>2 DEF Streams!Next
  <2>4. CASE eofAt # NoEof
    <3>1. eofAt' = eofAt
      BY <2>1, <2>2, <2>4 DEF StdinInv, Smaller
    <3>2. QED BY <1>1, <2>1, <3>1 DEF Streams!svars
  <2>5. QED BY <2>3, <2>4
<1>3. CASE writing # 0
  <2> DEFINE known == Len(input) - offset
             n == writing - known
  <2>1. writing \in 1..MaxIn /\ n \in Int /\ n <= MaxIn
    BY <1>1, <1>3, Bounds DEF StdinInv, Execute
  <2>2. /\ input' = input \o [x \in 1..n |-> offset + known + x]
        /\ eofAt = NoEof /\ UNCHANGED eofAt
    BY <1>3 DEF Execute, CallOffset
  <2>3. input' = input \o [x \in 1..n |-> Len(input) + x]
    <3>1. offset + known = Len(input)
      BY <1>1
    <3>2. QED BY <2>2, <3>1
  <2> HIDE DEF n, known
  <2>4. CASE n \in 1..MaxIn
    <3>1. Streams!Receive(n)
      BY <1>1, <2>2, <2>3 DEF Streams!Receive
    <3>2. QED BY <2>4, <3>1 DEF Streams!Next
  <2>5. CASE n \notin 1..MaxIn
    <3>1. 1..n = {}
      BY <2>1, <2>5, Bounds
    <3>2. [x \in 1..n |-> Len(input) + x] = <<>>
      BY <3>1
    <3>3. input' = input
      BY <1>1, <2>3, <3>2, ConcatEmptySeq
    <3>4. QED BY <1>1, <2>2, <3>3 DEF Streams!svars
  <2>6. QED BY <2>4, <2>5
<1>4. QED BY <1>2, <1>3

(* A write that returns Ok acknowledges its bytes, and a close the end.    *)
LEMMA WrittenRefines ==
    ASSUME StdinInv, Written PROVE [Streams!Next]_(Streams!svars)
<1>1. /\ writing # Idle /\ executed
      /\ UNCHANGED <<input, eofAt, fetched, read, eof>>
  BY DEF Written, reader
<1>2. CASE writing = 0
  <2>1. eofAt = offset /\ closed' = TRUE /\ UNCHANGED offset
    BY <1>1, <1>2 DEF StdinInv, Written
  <2>2. eofAt # NoEof
    BY <2>1, Bounds DEF StdinInv
  <2>3. Streams!Seal
    BY <1>1, <2>1, <2>2 DEF Streams!Seal
  <2>4. QED BY <2>3 DEF Streams!Next
<1>3. CASE writing # 0
  <2> DEFINE n == offset + writing
  <2>1. eofAt = NoEof /\ offset' = n /\ UNCHANGED closed /\ n <= Len(input)
    BY <1>1, <1>3 DEF StdinInv, Written
  <2>2. n \in Nat /\ offset \in Nat /\ offset < n /\ Len(input) \in Nat
    BY <1>1, <1>3, Bounds, LenProperties DEF StdinInv
  <2> HIDE DEF n
  <2>3. Streams!Acknowledge(n)
    BY <1>1, <2>1, <2>2 DEF Streams!Acknowledge
  <2>4. n \in 1..Len(input)
    BY <2>1, <2>2
  <2>5. QED BY <2>3, <2>4 DEF Streams!Next
<1>4. QED BY <1>2, <1>3

(* What is followed by something in a sequence is the first of it.         *)
LEMMA FirstPart ==
    ASSUME NEW S, NEW s \in Seq(S), NEW t \in Seq(S), Len(s) # 0
    PROVE  SubSeq(s \o t, 1, Len(s)) = s
<1>1. Len(s) \in Nat /\ 1 \in 1..Len(s) /\ Len(s) \in 1..Len(s)
  BY LenProperties
<1>2. SubSeq(s \o t, 1, Len(s)) = SubSeq(s, 1, Len(s))
  BY <1>1, SubSeqOfConcat1
<1>3. QED BY <1>2, SubSeqFull

(* What the application has read is the first of what was fetched.         *)
ReadIsPrefix ==
    /\ Len(read) \in Nat /\ Len(fetched) \in Nat /\ Len(read) <= Len(fetched)
    /\ Len(read) # 0 => read = SubSeq(fetched, 1, Len(read))

LEMMA ReadIsFirst == ReaderInv => ReadIsPrefix
<1> SUFFICES ASSUME ReaderInv PROVE ReadIsPrefix
  OBVIOUS
<1> DEFINE rest == SubSeq(buffer, bufPos + 1, Len(buffer))
<1>1. read \in Seq(Bytes) /\ buffer \in Seq(Bytes) /\ Len(buffer) \in Nat /\ bufPos \in Nat
  BY LenProperties DEF ReaderInv
<1>2. rest \in Seq(Bytes)
  <2>1. \A i \in (bufPos + 1)..Len(buffer) : buffer[i] \in Bytes
    BY <1>1, ElementOfSeq
  <2>2. bufPos + 1 \in Int /\ Len(buffer) \in Int
    BY <1>1
  <2>3. QED BY <2>1, <2>2, SubSeqProperties
<1>3. read \o rest = fetched
  BY DEF ReaderInv, BufferingIsLossless
<1> HIDE DEF rest
<1>4. Len(read) \in Nat /\ Len(rest) \in Nat /\ Len(fetched) = Len(read) + Len(rest)
  BY <1>1, <1>2, <1>3, ConcatProperties, LenProperties
<1>5. Len(read) # 0 => read = SubSeq(fetched, 1, Len(read))
  BY <1>1, <1>2, <1>3, FirstPart
<1>6. QED BY <1>4, <1>5 DEF ReadIsPrefix

LEMMA ReadIsFirstAfter == ReaderInv' => ReadIsPrefix'
BY ReadIsFirst, PTL

LEMMA ReadBufferedRefines ==
    ASSUME ReaderInv, NEW cap \in Nat \ {0}, ReadBuffered(cap)
    PROVE  Streams!Next
<1> DEFINE n == Smaller(cap, Buffered)
           piece == SubSeq(buffer, bufPos + 1, bufPos + n)
           m == Len(read')
<1>1. /\ UNCHANGED <<input, offset, eofAt, closed, fetched, eof>> /\ read' = read \o piece
  BY DEF ReadBuffered, stdin
<1>2. /\ buffer \in Seq(Bytes) /\ Len(buffer) \in Nat /\ bufPos \in Nat /\ bufPos < Len(buffer)
      /\ read \in Seq(Bytes)
  BY LenProperties DEF ReaderInv, ReadBuffered, Buffered
<1>3. n \in Nat \ {0} /\ bufPos + n <= Len(buffer)
  BY <1>2 DEF Smaller, Buffered
<1> HIDE DEF n
<1>4. piece \in Seq(Bytes) /\ Len(piece) = n
  <2>1. \A i \in (bufPos + 1)..(bufPos + n) : buffer[i] \in Bytes
    BY <1>2, <1>3, ElementOfSeq
  <2>2. bufPos + 1 \in Int /\ bufPos + n \in Int /\ bufPos + 1 <= bufPos + n
        /\ (bufPos + n) - (bufPos + 1) + 1 = n
    BY <1>2, <1>3
  <2>3. QED BY <2>1, <2>2, SubSeqProperties
<1> HIDE DEF piece
<1>5. Len(read) \in Nat /\ Len(read') = Len(read) + n
  BY <1>1, <1>2, <1>4, ConcatProperties, LenProperties
<1>6. ReaderInv'
  BY ReadBufferedStep
<1>7. /\ Len(read') \in Nat /\ Len(fetched') \in Nat /\ Len(read') <= Len(fetched')
      /\ Len(read') # 0 => read' = SubSeq(fetched', 1, Len(read'))
  BY <1>6, ReadIsFirstAfter DEF ReadIsPrefix
<1>8. Len(read) < m /\ m \in 1..Len(fetched) /\ read' = SubSeq(fetched, 1, m)
  BY <1>1, <1>3, <1>5, <1>7
<1> HIDE DEF m
<1>9. Streams!Hand(m)
  BY <1>1, <1>8 DEF Streams!Hand
<1>10. QED BY <1>8, <1>9 DEF Streams!Next

(* A chunk arrives when all that was fetched has been read, and the first  *)
(* of what is fetched then is read.                                        *)
LEMMA ChunkRefines ==
    ASSUME ReaderInv, Chunk PROVE Streams!Next
<1>1. PICK last \in (FetchOffset + 1)..produced :
          LET data == [x \in 1..(last - FetchOffset) |-> FetchOffset + x]
              n == Smaller(reading, Len(data))
          IN  fetched' = fetched \o data /\ read' = read \o SubSeq(data, 1, n)
  BY DEF Chunk
<1> DEFINE data == [x \in 1..last |-> x]
           n == Smaller(reading, Len(data))
           piece == SubSeq(data, 1, n)
           m == Len(read')
<1>2. /\ last \in 1..MaxOut /\ last \in Nat /\ last - FetchOffset = last
      /\ reading \in Nat \ {0} /\ reading # Idle /\ buffer = <<>> /\ bufPos = 0 /\ ~eof
      /\ read \in Seq(Bytes) /\ fetched \in Seq(Bytes)
      /\ UNCHANGED <<input, offset, eofAt, closed, eof>>
  BY Bounds DEF ReaderInv, Chunk, FetchOffset, stdin
<1>3. [x \in 1..(last - FetchOffset) |-> FetchOffset + x] = data
  BY <1>2 DEF FetchOffset
<1>4. fetched' = fetched \o data /\ read' = read \o piece
  BY <1>1, <1>3
<1>5. data \in [1..last -> Bytes]
  BY <1>2, Bounds DEF Bytes
<1> HIDE DEF data
<1>6. data \in Seq(Bytes) /\ Len(data) = last
  BY <1>2, <1>5, FunctionIsSeq
<1>7. n \in Nat \ {0} /\ n <= Len(data)
  BY <1>2, <1>6 DEF Smaller
<1> HIDE DEF n
<1>8. piece \in Seq(Bytes) /\ Len(piece) = n
  <2>1. \A i \in 1..n : data[i] \in Bytes
    BY <1>6, <1>7, ElementOfSeq
  <2>2. n \in Int /\ 1 \in Int /\ 1 <= n /\ n - 1 + 1 = n
    BY <1>7
  <2>3. QED BY <2>1, <2>2, SubSeqProperties
<1> HIDE DEF piece
<1>9. read = fetched
  <2>1. SubSeq(buffer, bufPos + 1, Len(buffer)) = <<>>
    BY <1>2, EmptySeq, SubSeqEmpty
  <2>2. QED BY <1>2, <2>1, ConcatEmptySeq DEF ReaderInv, BufferingIsLossless
<1>10. /\ Len(read) \in Nat /\ Len(read') = Len(read) + n
       /\ Len(fetched) \in Nat /\ Len(fetched') = Len(fetched) + Len(data)
  BY <1>2, <1>4, <1>6, <1>8, ConcatProperties, LenProperties
<1>11. ReaderInv'
  BY ChunkStep
<1>12. Len(fetched) < m /\ m <= Len(fetched') /\ m \in 1..(Len(fetched) + Len(data))
  BY <1>2, <1>6, <1>7, <1>9, <1>10
<1>13. read' = SubSeq(fetched', 1, m)
  BY <1>10, <1>11, <1>12, ReadIsFirstAfter DEF ReadIsPrefix
<1> HIDE DEF m
<1>14. Streams!Arrive(data, m)
  BY <1>2, <1>4, <1>9, <1>12, <1>13 DEF Streams!Arrive
<1>15. data \in {[x \in 1..k |-> x] : k \in 1..MaxOut}
  BY <1>2 DEF data
<1>16. QED BY <1>12, <1>14, <1>15 DEF Streams!Next

(* Every step of the writer, the reader, the router and the process is a   *)
(* step of ByteStreams or one that it does not see.                        *)
LEMMA StepStreams ==
    StdinInv /\ ReaderInv /\ [Next]_vars => [Streams!Next]_(Streams!svars)
<1> SUFFICES ASSUME StdinInv, ReaderInv, [Next]_vars PROVE [Streams!Next]_(Streams!svars)
  OBVIOUS
<1>1. ASSUME UNCHANGED <<input, offset, eofAt, closed, fetched, read, eof>>
      PROVE  UNCHANGED Streams!svars
  BY <1>1 DEF Streams!svars
<1>2. ASSUME NEW n \in Sizes, ReadBuffered(n) PROVE Streams!Next
  BY <1>2, Bounds, ReadBufferedRefines
<1>3. ASSUME NEW n \in Sizes, Write(n) \/ Read(n)
      PROVE  UNCHANGED <<input, offset, eofAt, closed, fetched, read, eof>>
  BY <1>3 DEF Write, Read, reader, stdin
<1>4. CASE EndOfStream
  <2>1. /\ ~eof /\ buffer = <<>> /\ bufPos = 0 /\ read \in Seq(Bytes) /\ fetched \in Seq(Bytes)
        /\ eof' = TRUE /\ UNCHANGED <<input, offset, eofAt, closed, fetched, read>>
    BY <1>4, Bounds DEF ReaderInv, EndOfStream, stdin
  <2>2. read = fetched
    <3>1. SubSeq(buffer, bufPos + 1, Len(buffer)) = <<>>
      BY <2>1, EmptySeq, SubSeqEmpty
    <3>2. QED BY <2>1, <3>1, ConcatEmptySeq DEF ReaderInv, BufferingIsLossless
  <2>3. Streams!EndOutput
    BY <2>1, <2>2 DEF Streams!EndOutput
  <2>4. QED BY <2>3 DEF Streams!Next
<1>5. ASSUME Close \/ WriteFails \/ ReadFails \/ Output \/ End \/ UNCHANGED vars
      PROVE  UNCHANGED <<input, offset, eofAt, closed, fetched, read, eof>>
  BY <1>5 DEF Close, WriteFails, AfterError, ReadFails, Output, End, vars, reader, stdin
<1>6. QED
  BY <1>1, <1>2, <1>3, <1>4, <1>5, ExecuteRefines, WrittenRefines, ChunkRefines DEF Next

(* The promise of the streams of a process: bytes of stdin are received    *)
(* once and in order, those that were acknowledged in any case, and EOF    *)
(* behind them; output is handed over in the order in which it arrived     *)
(* (sandbox.rs:1050-1080, 1136-1179).                                      *)
THEOREM StreamsRefinement == Spec => ImplementsByteStreams
<1>1. Init => Streams!Init
  BY DEF Init, Streams!Init
<1>2. QED
  BY <1>1, StepStreams, StdinInvariant, ReaderInvariant, PTL
  DEF Spec, ImplementsByteStreams, Streams!Spec
-----------------------------------------------------------------------------
WaitInv == WaitTypeOK /\ ExitCodesAreTrue

(* The exit codes of the statuses a process may end with.                  *)
LEMMA ExitCodes ==
    ASSUME NEW status \in ExitStatus
    PROVE  /\ status # Running /\ exit_code(status) \in 0..255
           /\ exit_code(status) = 0 <=> status = <<"Code", 0>>
           /\ status[1] = "Signal" => exit_code(status) > 128
<1>1. status = <<"Code", 0>> \/ status = <<"Code", 1>> \/ status = <<"Signal", 9>>
  BY DEF ExitStatus
<1>2. CASE status = <<"Code", 0>>
  BY <1>2 DEF Running, exit_code
<1>3. CASE status = <<"Code", 1>>
  BY <1>3 DEF Running, exit_code
<1>4. CASE status = <<"Signal", 9>>
  BY <1>4 DEF Running, exit_code
<1>5. QED BY <1>1, <1>2, <1>3, <1>4

(* A wait that returns with r and code c, which is right for the process.  *)
LEMMA WaitReturnsStep ==
    ASSUME WaitInv, NEW r \in {"ok", "timeout", "error"}, NEW c \in 0..255, WaitReturns(r, c),
           r = "ok" => waitStatus # Running /\ c = exit_code(waitStatus)
    PROVE  WaitInv'
<1>1. WaitTypeOK'
  BY DEF WaitInv, WaitTypeOK, WaitReturns
<1>2. ExitCodesAreTrue'
  BY ExitCodes DEF WaitInv, WaitTypeOK, WaitReturns, ExitCodesAreTrue
<1>3. QED BY <1>1, <1>2 DEF WaitInv

LEMMA StepWaitInv == WaitInv /\ [WaitNext]_waitVars => WaitInv'
<1> SUFFICES ASSUME WaitInv, [WaitNext]_waitVars PROVE WaitInv'
  OBVIOUS
<1>1. CASE Wait
  <2>1. CASE WaitReturns("error", 0) \/ WaitReturns("timeout", 0)
    BY <2>1, WaitReturnsStep
  <2>2. CASE /\ waitPc' = "waiting" /\ waitResult' = "none" /\ waitCode' = 0
             /\ UNCHANGED <<waitStatus, waitDeadline>>
    BY <2>2 DEF WaitInv, WaitTypeOK, ExitCodesAreTrue
  <2>3. QED BY <1>1, <2>1, <2>2 DEF Wait
<1>2. CASE WaitAgain
  BY <1>2 DEF WaitInv, WaitTypeOK, ExitCodesAreTrue, WaitAgain
<1>3. CASE WaitAnswered
  <2>1. waitStatus \in ExitStatus /\ exit_code(waitStatus) \in 0..255
    BY <1>3, ExitCodes DEF WaitAnswered, WaitInv, WaitTypeOK
  <2>2. QED BY <1>3, <2>1, WaitReturnsStep DEF WaitAnswered
<1>4. CASE WaitFails
  BY <1>4, WaitReturnsStep DEF WaitFails
<1>5. CASE ProcessExits
  BY <1>5 DEF WaitInv, WaitTypeOK, ExitCodesAreTrue, ProcessExits
<1>6. CASE UNCHANGED waitVars
  BY <1>6 DEF WaitInv, WaitTypeOK, ExitCodesAreTrue, waitVars
<1>7. QED BY <1>1, <1>2, <1>3, <1>4, <1>5, <1>6 DEF WaitNext

LEMMA WaitInvariant == WaitSpec => []WaitInv
<1>1. WaitInit => WaitInv
  BY WaitAssumption DEF WaitInit, WaitInv, WaitTypeOK, ExitCodesAreTrue
<1>2. WaitInv /\ [WaitNext]_waitVars => WaitInv'
  BY StepWaitInv
<1>3. QED BY <1>1, <1>2, PTL DEF WaitSpec

(* An exit code is that of a process which has exited, in any number of    *)
(* waits with any deadline.                                                *)
THEOREM ExitCodesAreNeverMadeUp == WaitSpec => []ExitCodesAreTrue
<1>1. WaitInv => ExitCodesAreTrue
  BY DEF WaitInv
<1>2. QED BY <1>1, WaitInvariant, PTL
=============================================================================
