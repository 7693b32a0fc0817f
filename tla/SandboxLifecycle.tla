-------------------------- MODULE SandboxLifecycle --------------------------
(***************************************************************************)
(* SandboxService (sandbox.rs) over the SandboxGrpcClient of transport.rs: *)
(* a client creates, finds, lists and uses sandboxes, while other clients  *)
(* create and terminate them too.                                          *)
(*                                                                         *)
(* The server is external.  It numbers the sandboxes in the order of their *)
(* creation, with timestamps that may be equal; it gives a sandbox a task  *)
(* when it schedules it; it lists the sandboxes that have not finished,    *)
(* latest first, a page at a time.  A retried RPC may take effect more     *)
(* than once, as in RpcCall.  The variables begin with sbx, so that the    *)
(* module can be used beside others.                                       *)
(***************************************************************************)
EXTENDS Integers, Sequences, FiniteSets

CONSTANTS MaxSandboxes,   \* bound: sandboxes on the server
          MaxStamp,       \* bound: the latest creation timestamp
          PageSize,       \* entries on a page of SandboxList
          MaxAttempts,    \* max_attempts of create
          Retagged,       \* bound: the sandboxes whose tags may be others than list asks for
          Results         \* bound: the results of sandboxes the client does not terminate

ASSUME SandboxAssumption ==
    /\ MaxSandboxes \in Nat \ {0} /\ MaxStamp \in Nat \ {0}
    /\ PageSize \in Nat \ {0} /\ MaxAttempts \in Nat \ {0}
    /\ Retagged \subseteq 1..MaxSandboxes
    /\ Results \subseteq {"Success", "Failure", "Timeout", "Terminated"}

SandboxIds == 1..MaxSandboxes
NoId == 0                \* None of task_id, the empty string of an id

\* Unspecified until a sandbox has finished.
GenericResultStatus == {"Unspecified", "Success", "Failure", "Timeout", "Terminated"}

\* A sandbox on the server; tagged if it has the tags that list is asked for.
SandboxState ==
    [created_at : 1..MaxStamp, scheduled : BOOLEAN, tagged : BOOLEAN, result : GenericResultStatus]

VARIABLES
    sbxAll,      \* the sandboxes the server has created
    sbxPc,       \* "idle", "scheduling" (in create) or "listing"
    sbxHandle,   \* the Sandbox the client holds: sandbox_id and task_id
    sbxAttempt,  \* polls made by create
    sbxListed,   \* all_sandboxes of list
    sbxBefore,   \* before_timestamp of list
    sbxSteady,   \* history: the sandboxes list should find, and could all the time
    sbxReport    \* what the last step reported, if a call ended: of which sandbox, what

sbxVars == <<sbxAll, sbxPc, sbxHandle, sbxAttempt, sbxListed, sbxBefore, sbxSteady, sbxReport>>
sbxClient == <<sbxPc, sbxHandle, sbxAttempt, sbxListed, sbxBefore>>

SbxFinished(k) == sbxAll[k].result # "Unspecified"

NoReport == [call |-> "none", id |-> NoId, answer |-> "none"]
NoSandbox == [sandbox_id |-> NoId, task_id |-> NoId]
SbxReturns(call, k, answer) == sbxReport' = [call |-> call, id |-> k, answer |-> answer]
-----------------------------------------------------------------------------
SbxInit ==
    /\ sbxAll = <<>> /\ sbxPc = "idle"
    /\ sbxHandle = NoSandbox
    /\ sbxAttempt = 0 /\ sbxListed = <<>> /\ sbxBefore = 0
    /\ sbxSteady = {}
    /\ sbxReport = NoReport

\* The server adds n sandboxes with a timestamp that is not before the last one.
SbxAdd(n) ==
    /\ Len(sbxAll) + n <= MaxSandboxes
    /\ \E at \in 1..MaxStamp :
          /\ \A k \in DOMAIN sbxAll : sbxAll[k].created_at <= at
          /\ sbxAll' = sbxAll \o [k \in 1..n |->
                [created_at |-> at, scheduled |-> FALSE, tagged |-> TRUE, result |-> "Unspecified"]]

(* create: SandboxCreate is retried, so that a sandbox may be left behind  *)
(* that the client knows nothing of, also when the call fails.             *)
SbxCreate ==
    /\ sbxPc = "idle"
    /\ \E n \in 0..2 :
          /\ IF n = 0 THEN UNCHANGED sbxAll ELSE SbxAdd(n)
          /\ \/ /\ n > 0
                /\ sbxPc' = "scheduling" /\ sbxAttempt' = 0
                /\ sbxHandle' = [sandbox_id |-> Len(sbxAll'), task_id |-> NoId]
                /\ sbxReport' = NoReport
             \/ /\ SbxReturns("other", NoId, "error")
                /\ UNCHANGED <<sbxPc, sbxAttempt, sbxHandle>>
    /\ UNCHANGED <<sbxListed, sbxBefore, sbxSteady>>

\* The answer to SandboxGetTaskId: the task, if there is one, and whether it has a result.
TaskOf(k) == IF sbxAll[k].scheduled THEN k ELSE NoId
TaskAnswer(k) == [task_id |-> TaskOf(k), exited |-> SbxFinished(k)]

\* The loop counter of create; and one that starts over before it reaches the last attempt.
AttemptWraps == (sbxAttempt + 1) % MaxAttempts
AttemptAfter == sbxAttempt + 1

SbxCreateEnds(answer) ==
    /\ SbxReturns("create", sbxHandle.sandbox_id, answer)
    /\ sbxPc' = "idle" /\ sbxAttempt' = 0

\* create polls for the task, and sleeps; an error, an exit or the last attempt ends it, and then
\* the caller never learns the id.
SbxCreateFails(answer) == SbxCreateEnds(answer) /\ sbxHandle' = NoSandbox
SbxPollTask ==
    /\ sbxPc = "scheduling"
    /\ LET reply == TaskAnswer(sbxHandle.sandbox_id)
       IN  \/ /\ reply.task_id # NoId
              /\ sbxHandle' = [sbxHandle EXCEPT !.task_id = reply.task_id]
              /\ SbxCreateEnds("ok")
           \/ /\ reply.task_id = NoId /\ reply.exited
              /\ SbxCreateFails("terminated")
           \/ /\ reply.task_id = NoId /\ ~reply.exited
              /\ IF AttemptAfter = MaxAttempts
                   THEN SbxCreateFails("no task")
                   ELSE /\ sbxAttempt' = AttemptAfter /\ sbxReport' = NoReport
                        /\ UNCHANGED <<sbxPc, sbxHandle>>
           \/ SbxCreateFails("error")
    /\ UNCHANGED <<sbxAll, sbxListed, sbxBefore, sbxSteady>>
-----------------------------------------------------------------------------
\* A call that is one RPC: it leaves the client as it was but for what it knows.
SbxAnswers(call, k, answer) ==
    /\ sbxPc = "idle"
    /\ SbxReturns(call, k, answer)
    /\ UNCHANGED <<sbxPc, sbxAttempt, sbxListed, sbxBefore>>

SbxAsks(call, k, answer) == SbxAnswers(call, k, answer) /\ UNCHANGED <<sbxAll, sbxSteady>>

\* A change on the server leaves fewer sandboxes that list could find all the time.
Listable(k) == sbxAll[k].tagged /\ ~SbxFinished(k)
SbxChanged == sbxSteady' = {k \in sbxSteady : Listable(k)'}

\* The server knows the sandbox of an id, or of a name.
SbxKnown(k) == k \in DOMAIN sbxAll

\* from_id, from_name: a Sandbox without a task id, or an error.
SbxFind(k) ==
    \/ /\ SbxKnown(k)
       /\ sbxHandle' = [sandbox_id |-> k, task_id |-> NoId]
       /\ SbxAsks("other", NoId, "ok")
    \/ /\ SbxAsks("other", NoId, "error")
       /\ UNCHANGED sbxHandle

\* The calls about the sandbox the client holds.
SbxAsksOf(call, answer) ==
    /\ sbxHandle.sandbox_id # NoId
    /\ SbxAsks(call, sbxHandle.sandbox_id, answer)
    /\ UNCHANGED sbxHandle

\* A call of which nothing is told apart but whether it succeeds.
SbxTells(success) ==
    /\ SbxAsks("other", NoId, IF success THEN "ok" ELSE "error")
    /\ UNCHANGED sbxHandle

\* get_task_id does not wait: it asks once, and takes no task for a terminated sandbox.
SbxGetTaskId ==
    /\ sbxHandle.sandbox_id # NoId
    /\ \/ SbxTells(TaskOf(sbxHandle.sandbox_id) # NoId)
       \/ SbxTells(FALSE)

\* SandboxWait: the result of a sandbox that has finished, or none, which is the default.
ExitCode(result) == IF result \in {"Unspecified", "Success"} THEN 0 ELSE 1
WaitReply(k) == [result |-> sbxAll[k].result, exitcode |-> ExitCode(sbxAll[k].result)]

\* wait: the exit code of the default is that of a sandbox that succeeded; an error of the RPC.
SbxWait ==
    \/ LET reply == WaitReply(sbxHandle.sandbox_id)
       IN  SbxAsksOf("wait", [exit_code |-> reply.exitcode, success |-> reply.result = "Success"])
    \/ SbxTells(FALSE)

\* poll: no exit code unless the result has a status; and without that test.
AnyResult(reply) == {reply.exitcode}
PollResult(reply) == IF reply.result # "Unspecified" THEN {reply.exitcode} ELSE {}

SbxPoll ==
    \/ SbxAsksOf("poll", PollResult(WaitReply(sbxHandle.sandbox_id)))
    \/ SbxTells(FALSE)

\* terminate is retried: the sandbox may be terminated though it returns an error.
SbxTerminate ==
    /\ sbxHandle.sandbox_id # NoId
    /\ LET k == sbxHandle.sandbox_id
       IN  \/ UNCHANGED sbxAll /\ SbxAnswers("other", NoId, "error")
          \/ /\ sbxAll' = IF SbxFinished(k) THEN sbxAll
                           ELSE [sbxAll EXCEPT ![k].result = "Terminated"]
             /\ \E answer \in {"ok", "error"} : SbxAnswers("other", NoId, answer)
    /\ SbxChanged
    /\ UNCHANGED sbxHandle

\* set_tags replaces the tags, perhaps although it returns an error; get_tags changes nothing.
TagsReplies == {"ok", "error"}
SbxTags ==
    \/ /\ sbxHandle.sandbox_id \in Retagged
       /\ \E tagged \in BOOLEAN : sbxAll' = [sbxAll EXCEPT ![sbxHandle.sandbox_id].tagged = tagged]
       /\ SbxChanged
       /\ \E reply \in TagsReplies : SbxAnswers("other", NoId, reply)
       /\ UNCHANGED sbxHandle
    \/ \E reply \in TagsReplies : SbxTells(reply = "ok")

\* tunnels: a result with the status Timeout is an error; a missing result is not.
TunnelsReplies == {"tunnels", "timed out", "error"}
SbxTunnels == \E reply \in TunnelsReplies : SbxTells(reply = "tunnels")

\* snapshot_filesystem: a result is needed, of success, and an image.
SnapshotReplies == {"image", "no image", "failed", "no result", "error"}
SbxSnapshot == \E reply \in SnapshotReplies : SbxTells(reply = "image")

\* create_connect_token, with the metadata of the parameters or without any.
TokenReplies == {"credentials", "error"}
SbxConnectToken == \E reply \in TokenReplies : SbxTells(reply = "credentials")

(* snapshot_directory and mount_image: without a task id an error, and     *)
(* with one another, since the transport implements neither.               *)
RouterReplies == {"not implemented"}
SbxNeedsRouter ==
    \/ sbxHandle.task_id = NoId /\ SbxTells(FALSE)
    \/ sbxHandle.task_id # NoId /\ \E reply \in RouterReplies : SbxTells(reply = "image")

(* exec: the arguments are too long, the handle has no task, or            *)
(* ContainerExec is sent, which may start the command more than once.      *)
ExecReplies == {"exec_id", "error"}
SbxExec ==
    \/ SbxTells(FALSE)
    \/ sbxHandle.task_id = NoId /\ SbxTells(FALSE)
    \/ sbxHandle.task_id # NoId /\ \E reply \in ExecReplies : SbxTells(reply = "exec_id")

\* exec_wait: the exit code, if the command has completed in time; both are an Ok.
ExecWaitReplies == {"completed", "running", "error"}
SbxExecWait == \E reply \in ExecWaitReplies : SbxTells(reply # "error")
-----------------------------------------------------------------------------
SbxStartList ==
    /\ sbxPc = "idle"
    /\ sbxPc' = "listing"
    /\ sbxListed' = <<>> /\ sbxBefore' = 0
    /\ sbxSteady' = {k \in DOMAIN sbxAll : Listable(k)}
    /\ sbxReport' = NoReport
    /\ UNCHANGED <<sbxAll, sbxHandle, sbxAttempt>>

\* Those before the timestamp, 0 being none; and their order on the pages.
OnPages == {k \in DOMAIN sbxAll : Listable(k) /\ (sbxBefore > 0 => sbxAll[k].created_at < sbxBefore)}
Page == [x \in 1..(IF Cardinality(OnPages) < PageSize THEN Cardinality(OnPages) ELSE PageSize) |->
            CHOOSE k \in OnPages : Cardinality({j \in OnPages : j >= k}) = x]

\* The timestamp of the last entry of a page; and that of its first.
FirstStamp == sbxAll[Page[1]].created_at
LastStamp == sbxAll[Page[Len(Page)]].created_at

\* list takes in a page, and is over with an empty one, or with an error.
SbxNextPage ==
    /\ sbxPc = "listing"
    /\ OnPages # {}
    /\ sbxListed' = sbxListed \o Page
    /\ sbxBefore' = LastStamp
    /\ sbxReport' = NoReport
    /\ UNCHANGED <<sbxAll, sbxPc, sbxHandle, sbxAttempt, sbxSteady>>

SbxListEnds ==
    /\ sbxPc = "listing"
    /\ \/ OnPages = {} /\ SbxReturns("other", NoId, "ok")
       \/ SbxReturns("other", NoId, "error")
    /\ sbxPc' = "idle"
    /\ sbxListed' = <<>> /\ sbxBefore' = 0 /\ sbxSteady' = {}
    /\ UNCHANGED <<sbxAll, sbxHandle, sbxAttempt>>
-----------------------------------------------------------------------------
\* Another client creates one, and the server schedules one.
SbxAppears ==
    /\ SbxAdd(1)
    /\ sbxReport' = NoReport
    /\ UNCHANGED <<sbxClient, sbxSteady>>

SbxSchedule(k) ==
    /\ ~sbxAll[k].scheduled /\ ~SbxFinished(k)
    /\ sbxAll' = [sbxAll EXCEPT ![k].scheduled = TRUE]
    /\ sbxReport' = NoReport
    /\ UNCHANGED <<sbxClient, sbxSteady>>

\* A sandbox finishes, or somebody terminates it.
SbxFinish(k, result) ==
    /\ ~SbxFinished(k)
    /\ result = "Success" => sbxAll[k].scheduled
    /\ sbxAll' = [sbxAll EXCEPT ![k].result = result]
    /\ SbxChanged
    /\ sbxReport' = NoReport
    /\ UNCHANGED sbxClient

\* Another client changes the tags of a sandbox.
SbxRetag(k) ==
    /\ k \in Retagged
    /\ sbxAll' = [sbxAll EXCEPT ![k].tagged = ~@]
    /\ SbxChanged
    /\ sbxReport' = NoReport
    /\ UNCHANGED sbxClient

SbxServer ==
    \/ SbxAppears
    \/ \E k \in DOMAIN sbxAll :
          SbxSchedule(k) \/ SbxRetag(k) \/ \E result \in Results : SbxFinish(k, result)

\* The operations of the trait SandboxService.
SbxOperation ==
    \/ SbxCreate \/ SbxPollTask
    \/ \E k \in SandboxIds : SbxFind(k)
    \/ SbxGetTaskId \/ SbxWait \/ SbxPoll \/ SbxTerminate \/ SbxTags \/ SbxTunnels \/ SbxSnapshot
    \/ SbxConnectToken \/ SbxNeedsRouter \/ SbxExec \/ SbxExecWait
    \/ SbxStartList \/ SbxNextPage \/ SbxListEnds

SbxNext == SbxOperation \/ SbxServer

SbxSpec == SbxInit /\ [][SbxNext]_sbxVars

\* Requests are answered, and sleeps end.
SbxFairness == WF_sbxVars(SbxPollTask) /\ WF_sbxVars(SbxNextPage \/ SbxListEnds)
-----------------------------------------------------------------------------
SbxTypeOK ==
    /\ sbxAll \in Seq(SandboxState) /\ Len(sbxAll) <= MaxSandboxes
    /\ sbxPc \in {"idle", "scheduling", "listing"}
    /\ sbxHandle.sandbox_id \in (DOMAIN sbxAll) \cup {NoId}
    /\ sbxHandle.task_id \in {NoId, sbxHandle.sandbox_id}
    /\ sbxAttempt \in 0..MaxAttempts
    /\ sbxListed \in Seq(DOMAIN sbxAll) /\ sbxBefore \in 0..MaxStamp
    /\ sbxSteady \subseteq DOMAIN sbxAll

(* list returns every sandbox that could be listed all the time, once,     *)
(* whatever is created and terminated between its pages; the only ones it  *)
(* may miss have the timestamp of a sandbox it did list (sandbox.rs:       *)
(* 704-726).                                                               *)
ListMissesOnlyTies ==
    /\ \A x, y \in DOMAIN sbxListed : x # y => sbxListed[x] # sbxListed[y]
    /\ sbxPc = "listing" /\ OnPages = {} =>
          \A k \in sbxSteady : \E x \in DOMAIN sbxListed :
              sbxAll[sbxListed[x]].created_at = sbxAll[k].created_at

(* What a call reports about a sandbox is true of it: create calls it      *)
(* terminated, and poll and wait know of an end, only after one; and a     *)
(* handle from create has a task that exists (sandbox.rs:644-661,          *)
(* transport.rs:1161-1186, 1270-1287).                                     *)
ReportsAreTrue ==
    LET k == sbxReport.id
    IN  /\ sbxReport.call = "create" /\ sbxReport.answer = "terminated" =>
              SbxFinished(k) /\ ~sbxAll[k].scheduled
        /\ sbxReport.call = "create" /\ sbxReport.answer = "ok" => sbxAll[k].scheduled
        /\ sbxReport.call = "poll" /\ sbxReport.answer # {} => SbxFinished(k)
        /\ sbxReport.call = "wait" => (sbxReport.answer.success => SbxFinished(k))

(* create comes to an end, also when the sandbox is never scheduled        *)
(* (sandbox.rs:643-660), and so does list (707-724).                       *)
CreateAndListEnd == sbxPc # "idle" ~> sbxPc = "idle"
=============================================================================
