---------------------------- MODULE SandboxFiles ----------------------------
(***************************************************************************)
(* One file of a sandbox, opened, used and closed through                  *)
(* SandboxFilesystemService (sandbox_filesystem.rs) over transport.rs.     *)
(*                                                                         *)
(* Every operation is an exec: filesystem_exec hands it to the sandbox and *)
(* filesystem_exec_get_output follows the stream of its output.  The       *)
(* sandbox is external.  It may be handed an exec twice, because           *)
(* filesystem_exec is retried, or one whose answer is lost; it runs them   *)
(* when it likes.  A stream may break, and may end before its exec has     *)
(* run: it is asked for with a timeout of 55 s.  What is read, and where   *)
(* in the file, is left out.  The variables begin with fs, so that the     *)
(* module can be used beside others.                                       *)
(***************************************************************************)
EXTENDS Integers, Sequences

CONSTANTS MaxWrites,   \* bound: writes the application makes
          MaxChunks,   \* bound: chunks of WRITE_CHUNK_SIZE of a write
          MaxLog       \* bound: chunks written to the file, repeated ones included

ASSUME FilesAssumption == MaxWrites \in Nat /\ MaxChunks \in Nat \ {0} /\ MaxLog \in Nat

\* FileMode::parse: one of r, w, a, x, and perhaps +.
FileMode(letter, plus) ==
    [readable |-> letter = "r" \/ plus, writable |-> letter \in {"w", "a", "x"} \/ plus]

(* FilesystemExecRequest: of the file; or of a path, which changes nothing *)
(* about the file: ls, mkdir, rm and watch.  read stands for readline too. *)
FlushOrSeek == {"flush", "seek"}
FileOps == {"read", "close"} \cup FlushOrSeek
WriteChunk(w, k) == <<"write", w, k>>
Plain(op) == <<op, 0, 0>>

(* The execs that change something when they run though nobody awaits      *)
(* them.  An open that is not awaited opens a descriptor no handle has.    *)
Effective == {"write", "close"}

VARIABLES
    fsPc,       \* "idle", "exec" (filesystem_exec is called) or "output"
    fsOpened,   \* the client has a FileIO
    fsMode,     \* FileIO::mode
    fsClosed,   \* FileIO::closed
    fsRequest,  \* the FilesystemExecRequest of the operation under way
    fsChunks,   \* chunks of the write under way
    fsWrites,   \* writes begun
    fsExec,     \* the exec that is awaited: "none", "queued", "ok" or "failed"
    fsStray,    \* execs the sandbox has still to run and nobody awaits
    fsFd,       \* the file descriptor in the sandbox: "none", "open" or "closed"
    fsFile,     \* the chunks written to the file, in their order
    fsAcked,    \* history: the last chunks of the writes that returned Ok
    fsCut       \* history: an output was cut short and taken for complete

fsVars == <<fsPc, fsOpened, fsMode, fsClosed, fsRequest, fsChunks, fsWrites, fsExec, fsStray,
            fsFd, fsFile, fsAcked, fsCut>>
fsHandle == <<fsOpened, fsMode, fsClosed>>
fsSandbox == <<fsFd, fsFile>>
fsHistory == <<fsAcked, fsCut>>

NoRequest == Plain("none")
-----------------------------------------------------------------------------
FsInit ==
    /\ fsPc = "idle" /\ fsOpened = FALSE /\ fsClosed = FALSE
    /\ fsMode = FileMode("r", FALSE)
    /\ fsRequest = NoRequest /\ fsChunks = 0 /\ fsWrites = 0 /\ fsExec = "none" /\ fsStray = {}
    /\ fsFd = "none" /\ fsFile = <<>>
    /\ fsAcked = {} /\ fsCut = FALSE

FsSend(request) ==
    /\ fsPc = "idle"
    /\ fsPc' = "exec"
    /\ fsRequest' = request
    /\ UNCHANGED <<fsExec, fsStray, fsSandbox, fsHistory>>

\* open: a mode that does not parse makes no call.
FsOpen(letter, plus) ==
    /\ ~fsOpened
    /\ FsSend(Plain("open"))
    /\ fsMode' = FileMode(letter, plus)
    /\ UNCHANGED <<fsOpened, fsClosed, fsChunks, fsWrites>>

\* check_closed, check_readable and check_writable of an operation.
Allowed(op) ==
    /\ op # "close" => ~fsClosed
    /\ op = "read" => fsMode.readable
    /\ op \in {"write", "flush"} => fsMode.writable

\* write: the data is cut into chunks; none are sent of data that is empty or too long.
FsWrite(chunks) ==
    /\ fsOpened /\ Allowed("write")
    /\ fsWrites < MaxWrites
    /\ fsWrites' = fsWrites + 1
    /\ fsChunks' = chunks
    /\ FsSend(WriteChunk(fsWrites', 1))
    /\ UNCHANGED fsHandle

FsFileOp(op) ==
    /\ fsOpened /\ Allowed(op)
    /\ FsSend(Plain(op))
    /\ UNCHANGED <<fsHandle, fsChunks, fsWrites>>

FsPathOp ==
    /\ FsSend(Plain("path"))
    /\ UNCHANGED <<fsHandle, fsChunks, fsWrites>>
-----------------------------------------------------------------------------
\* What becomes of an operation that ends with an error: nothing more is sent.
FsFails ==
    /\ fsPc' = "idle" /\ fsRequest' = NoRequest
    /\ UNCHANGED <<fsWrites, fsAcked>>

\* The sandbox has another copy of the request, which nobody awaits; or it has not.
FsPerhapsTwice ==
    \/ UNCHANGED fsStray
    \/ fsRequest[1] \in Effective /\ fsStray' = fsStray \cup {fsRequest}

(* filesystem_exec returns an exec id: the sandbox has it, and perhaps a   *)
(* copy of it.  close marks the handle closed now.                         *)
FsAccepted ==
    /\ fsPc = "exec"
    /\ fsPc' = "output"
    /\ fsExec' = "queued"
    /\ FsPerhapsTwice
    /\ fsClosed' = (fsClosed \/ fsRequest[1] = "close")
    /\ UNCHANGED <<fsOpened, fsMode, fsRequest, fsChunks, fsWrites, fsSandbox, fsHistory>>

\* It fails, and the sandbox may have it nevertheless; or open is answered without a descriptor.
FsRefused ==
    /\ fsPc = "exec"
    /\ FsPerhapsTwice
    /\ FsFails
    /\ UNCHANGED <<fsHandle, fsChunks, fsExec, fsSandbox, fsCut>>

\* The next request of an operation that did not fail: the next chunk of a write.
AllSent == fsRequest[1] = "write" => fsRequest[3] = fsChunks

\* An exec that has not run yet is awaited no more.
FsLeftBehind(effective) ==
    fsStray' = IF fsExec = "queued" /\ fsRequest[1] \in effective THEN fsStray \cup {fsRequest} ELSE fsStray

\* The output is complete, or is taken to be.
FsDone ==
    /\ fsExec' = "none"
    /\ fsOpened' = (fsOpened \/ fsRequest[1] = "open")
    /\ IF AllSent
         THEN /\ fsPc' = "idle" /\ fsRequest' = NoRequest
              /\ fsAcked' = IF fsRequest[1] = "write" THEN fsAcked \cup {fsRequest} ELSE fsAcked
         ELSE /\ fsPc' = "exec" /\ fsRequest' = [fsRequest EXCEPT ![3] = @ + 1]
              /\ UNCHANGED fsAcked
    /\ UNCHANGED <<fsMode, fsClosed, fsChunks, fsWrites, fsSandbox>>

\* Whether a message with an error ends the output like its last one; and that it may.
ErrorsPass == {"ok", "failed"}
Passes == {"ok"}

FsOutput ==
    /\ fsPc = "output"
    /\ fsExec \in Passes
    /\ FsDone
    /\ UNCHANGED <<fsStray, fsCut>>

\* The stream ends without eof: the exec may not have run yet, and is taken to be over.
FsOutputCut ==
    /\ fsPc = "output"
    /\ FsDone
    /\ fsCut' = TRUE
    /\ FsLeftBehind(Effective \cup {"open"})

\* The exec failed, or the stream did.
FsOutputFails ==
    /\ fsPc = "output"
    /\ fsExec' = "none"
    /\ FsLeftBehind(Effective)
    /\ FsFails
    /\ UNCHANGED <<fsHandle, fsChunks, fsSandbox, fsCut>>
-----------------------------------------------------------------------------
\* The sandbox runs an exec, with success.
FsEffect(request) ==
    LET op == request[1]
    IN  /\ op \in FileOps \cup {"write"} => fsFd = "open"
        /\ op = "write" => Len(fsFile) < MaxLog
        /\ fsFile' = IF op = "write" THEN Append(fsFile, request) ELSE fsFile
        /\ fsFd' = IF op = "open" THEN "open" ELSE IF op = "close" THEN "closed" ELSE fsFd

FsRun ==
    /\ fsExec = "queued"
    /\ \/ fsExec' = "ok" /\ FsEffect(fsRequest)
       \/ fsExec' = "failed" /\ UNCHANGED fsSandbox
    /\ UNCHANGED <<fsPc, fsHandle, fsRequest, fsChunks, fsWrites, fsStray, fsHistory>>

FsRunStray(request) ==
    /\ request \in fsStray
    /\ fsStray' = fsStray \ {request}
    /\ FsEffect(request) \/ UNCHANGED fsSandbox
    /\ UNCHANGED <<fsPc, fsHandle, fsRequest, fsChunks, fsWrites, fsExec, fsHistory>>

FsNext ==
    \/ \E letter \in {"r", "w", "a", "x"}, plus \in BOOLEAN : FsOpen(letter, plus)
    \/ \E chunks \in 1..MaxChunks : FsWrite(chunks)
    \/ \E op \in FileOps : FsFileOp(op)
    \/ FsPathOp
    \/ FsAccepted \/ FsRefused \/ FsOutput \/ FsOutputCut \/ FsOutputFails
    \/ FsRun \/ \E request \in fsStray : FsRunStray(request)

FsSpec == FsInit /\ [][FsNext]_fsVars
-----------------------------------------------------------------------------
FsRequests ==
    {NoRequest, Plain("open")} \cup {Plain(op) : op \in FileOps \cup {"path"}}
        \cup {WriteChunk(w, k) : w \in 1..MaxWrites, k \in 1..MaxChunks}

FsTypeOK ==
    /\ fsPc \in {"idle", "exec", "output"}
    /\ fsPc = "idle" <=> fsRequest = NoRequest
    /\ fsPc = "output" <=> fsExec # "none"
    /\ fsOpened \in BOOLEAN /\ fsClosed \in BOOLEAN
    /\ fsMode \in [readable : BOOLEAN, writable : BOOLEAN]
    /\ fsRequest \in FsRequests /\ fsStray \subseteq FsRequests \ {NoRequest}
    /\ fsChunks \in 0..MaxChunks /\ fsWrites \in 0..MaxWrites
    /\ fsExec \in {"none", "queued", "ok", "failed"} /\ fsFd \in {"none", "open", "closed"}
    /\ fsFile \in Seq(FsRequests)
    /\ fsAcked \subseteq {r \in FsRequests : r[2] \in 1..fsWrites} /\ fsCut \in BOOLEAN

(* Unless an output was cut short: no chunk of a write is in the file      *)
(* before the first copy of the chunk that precedes it, and a write that   *)
(* returned Ok has the last of its chunks in the file, whatever failed,    *)
(* was sent twice or ran late (sandbox_filesystem.rs:487-496).             *)
WritesAreInOrder ==
    ~fsCut =>
        /\ \A x \in DOMAIN fsFile : fsFile[x][3] > 1 =>
              \E y \in 1..(x - 1) : fsFile[y] = [fsFile[x] EXCEPT ![3] = @ - 1]
        /\ \A request \in fsAcked : \E x \in DOMAIN fsFile : fsFile[x] = request
=============================================================================
