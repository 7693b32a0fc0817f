---------------------------- MODULE ContainerWait ----------------------------
(***************************************************************************)
(* ContainerProcess::wait (sandbox.rs) over exec_wait of                   *)
(* task_command_router.rs: the application waits for the exit of a         *)
(* process, again and again if it likes.                                   *)
(*                                                                         *)
(* The router is external.  It answers once the process has exited, with   *)
(* its status or without one, or with an error; nothing makes it answer by *)
(* the deadline, which is looked at only before the request is made, and   *)
(* which is a duration that each wait starts anew: only a deadline of zero *)
(* is ever found to be over.  The variables begin with wait, so that the   *)
(* module can be used beside others.                                       *)
(***************************************************************************)
EXTENDS Integers

CONSTANT WaitDeadlines     \* the deadlines a ContainerProcess is made with, 0 being now

ASSUME WaitAssumption == WaitDeadlines \subseteq Nat

NoDeadline == -1           \* None

\* ContainerProcessExitStatus, and exit_code of it.
ExitStatus == {<<"Code", 0>>, <<"Code", 1>>, <<"Signal", 9>>}
exit_code(status) == IF status[1] = "Signal" THEN 128 + status[2] ELSE status[2]

Running == <<"Running", 0>>

VARIABLES
    waitStatus,     \* what became of the process
    waitDeadline,   \* ContainerProcess::deadline
    waitPc,         \* "idle", "waiting" or "retrying" (with a new JWT)
    waitResult,     \* what the last wait returned: "none", "ok", "timeout" or "error"
    waitCode        \* the i32 that came with "ok"

waitVars == <<waitStatus, waitDeadline, waitPc, waitResult, waitCode>>

WaitInit ==
    /\ waitStatus = Running /\ waitDeadline \in WaitDeadlines \cup {NoDeadline}
    /\ waitPc = "idle" /\ waitResult = "none" /\ waitCode = 0

WaitReturns(result, code) ==
    /\ waitPc' = "idle"
    /\ waitResult' = result /\ waitCode' = code
    /\ UNCHANGED <<waitStatus, waitDeadline>>

\* wait: refused by a closed client, or when the deadline is now, or exec_wait is sent.
Wait ==
    /\ waitPc = "idle"
    /\ \/ WaitReturns("error", 0)
       \/ waitDeadline = 0 /\ WaitReturns("timeout", 0)
       \/ /\ waitDeadline # 0
          /\ waitPc' = "waiting" /\ waitResult' = "none" /\ waitCode' = 0
          /\ UNCHANGED <<waitStatus, waitDeadline>>

\* UNAUTHENTICATED is answered by one more try.
WaitAgain ==
    /\ waitPc = "waiting"
    /\ waitPc' = "retrying"
    /\ UNCHANGED <<waitStatus, waitDeadline, waitResult, waitCode>>

\* The router answers: with the status, or without it, which is an error.
WaitAnswered ==
    /\ waitPc # "idle"
    /\ waitStatus # Running
    /\ WaitReturns("ok", exit_code(waitStatus)) \/ WaitReturns("error", 0)

\* "deadline exceeded", also as a status of the RPC, is a timeout; the rest is returned.
WaitFails ==
    /\ waitPc # "idle"
    /\ WaitReturns("timeout", 0) \/ WaitReturns("error", 0)

ProcessExits ==
    /\ waitStatus = Running
    /\ waitStatus' \in ExitStatus
    /\ UNCHANGED <<waitDeadline, waitPc, waitResult, waitCode>>

WaitNext == Wait \/ WaitAgain \/ WaitAnswered \/ WaitFails \/ ProcessExits

WaitSpec == WaitInit /\ [][WaitNext]_waitVars
-----------------------------------------------------------------------------
WaitTypeOK ==
    /\ waitStatus \in ExitStatus \cup {Running}
    /\ waitDeadline \in Nat \cup {NoDeadline}
    /\ waitPc \in {"idle", "waiting", "retrying"}
    /\ waitResult \in {"none", "ok", "timeout", "error"} /\ waitCode \in 0..255

(* An exit code is reported only of a process that has exited, and it is   *)
(* zero only if the process exited with zero, not when a signal ended it   *)
(* or an answer came without a status (sandbox.rs:893-901, 1022-1027,      *)
(* task_command_router.rs:528-547).                                        *)
ExitCodesAreTrue ==
    waitResult = "ok" =>
        /\ waitStatus # Running
        /\ waitCode = 0 <=> waitStatus = <<"Code", 0>>
        /\ waitStatus[1] = "Signal" => waitCode > 128
=============================================================================
