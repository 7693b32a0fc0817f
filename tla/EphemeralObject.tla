-------------------------- MODULE EphemeralObject --------------------------
(***************************************************************************)
(* An ephemeral volume or queue (volume.rs, queue.rs) and the task that    *)
(* keeps it alive until it is closed (ephemeral.rs).                       *)
(*                                                                         *)
(* The task waits for the Notify it shares with all clones of the object,  *)
(* or for the end of a sleep, whichever its runtime finds first.  A        *)
(* notification that nobody waits for is kept as a permit; there is never  *)
(* more than one.  Clones are made and dropped by the application.  The    *)
(* variables begin with eph, so that the module can be used beside others. *)
(***************************************************************************)
EXTENDS Naturals

CONSTANTS Sleep,       \* EPHEMERAL_OBJECT_HEARTBEAT_SLEEP, in ticks
          MaxClones,   \* bound: handles the application has at a time
          MaxBeats     \* bound: beats that are counted

ASSUME EphemeralAssumption == Sleep \in Nat \ {0, 1} /\ MaxClones \in Nat \ {0} /\ MaxBeats \in Nat

\* The threads ephemeral() may be called on: of no runtime, of one, or set aside for blocking.
Contexts == {"plain", "async", "blocking"}

VARIABLES
    ephMade,     \* objects the server has made, 2 for more than one
    ephHandles,  \* clones of the object the application holds
    ephTask,     \* the heartbeat task: "none", "waiting", "beating" or "stopped"
    ephLeft,     \* what is left of its sleep
    ephPermit,   \* Notify holds a permit
    ephClosed,   \* history: close_ephemeral was called
    ephBeats,    \* history: heartbeats sent
    ephLate,     \* history: heartbeats sent since then
    ephPanicked  \* history: a call panicked

ephVars == <<ephMade, ephHandles, ephTask, ephLeft, ephPermit, ephClosed, ephBeats, ephLate, ephPanicked>>
ephHistory == <<ephClosed, ephBeats, ephLate, ephPanicked>>

EphInit ==
    /\ ephMade = 0 /\ ephHandles = 0 /\ ephTask = "none" /\ ephLeft = 0 /\ ephPermit = FALSE
    /\ ephClosed = FALSE /\ ephBeats = 0 /\ ephLate = 0 /\ ephPanicked = FALSE
-----------------------------------------------------------------------------
(* ephemeral(): the request, which is waited for in block_on and may be    *)
(* executed twice, then the task.  A runtime's own threads may not block,  *)
(* and only a thread that knows a runtime can spawn.                       *)
EphCreate(context) ==
    /\ ephMade = 0 /\ ~ephPanicked
    /\ \/ context = "async" /\ ephPanicked' = TRUE /\ UNCHANGED <<ephMade, ephHandles, ephTask, ephLeft>>
       \/ context = "plain" /\ ephPanicked' = TRUE /\ ephMade' \in 1..2 /\ UNCHANGED <<ephHandles, ephTask, ephLeft>>
       \/ /\ context = "blocking"
          /\ ephMade' \in 1..2 /\ ephHandles' = 1
          /\ ephTask' = "waiting" /\ ephLeft' = Sleep
          /\ UNCHANGED ephPanicked
       \/ /\ context # "async"     \* the request fails, and is perhaps executed
          /\ ephMade' \in 0..2
          /\ UNCHANGED <<ephHandles, ephTask, ephLeft, ephPanicked>>
    /\ UNCHANGED <<ephPermit, ephClosed, ephBeats, ephLate>>

\* read_only and clone: the Notify is shared.
EphClone ==
    /\ ephHandles \in 1..(MaxClones - 1)
    /\ ephHandles' = ephHandles + 1
    /\ UNCHANGED <<ephMade, ephTask, ephLeft, ephPermit, ephHistory>>

\* A handle is dropped, which does not stop the task.
EphDrop ==
    /\ ephHandles > 0
    /\ ephHandles' = ephHandles - 1
    /\ UNCHANGED <<ephMade, ephTask, ephLeft, ephPermit, ephHistory>>

(* The permit after close_ephemeral's notify_one; and after a              *)
(* notify_waiters, which reaches the task only while it waits.             *)
WaitersOnly == ephPermit \/ ephTask = "waiting"
PermitAfterClose == TRUE

\* close_ephemeral, on any thread, also while the task runs a heartbeat.
EphClose ==
    /\ ephHandles > 0
    /\ ephPermit' = PermitAfterClose
    /\ ephClosed' = TRUE
    /\ UNCHANGED <<ephMade, ephHandles, ephTask, ephLeft, ephBeats, ephLate, ephPanicked>>
-----------------------------------------------------------------------------
\* select!: the notification, which ends the task.
EphNotified ==
    /\ ephTask = "waiting"
    /\ ephPermit
    /\ ephTask' = "stopped" /\ ephPermit' = FALSE
    /\ UNCHANGED <<ephMade, ephHandles, ephLeft, ephHistory>>

(* select!: the sleep, also when both are ready, which leaves the permit   *)
(* where it is.  heartbeat_fn is called.                                   *)
EphBeat ==
    /\ ephTask = "waiting"
    /\ ephLeft = 0
    /\ ephTask' = "beating"
    /\ ephBeats' = IF ephBeats < MaxBeats THEN ephBeats + 1 ELSE ephBeats
    /\ ephLate' = IF ephClosed /\ ephLate < 2 THEN ephLate + 1 ELSE ephLate
    /\ UNCHANGED <<ephMade, ephHandles, ephLeft, ephPermit, ephClosed, ephPanicked>>

\* It returns, its error is ignored, and both are waited for anew.
EphBeatEnds ==
    /\ ephTask = "beating"
    /\ ephTask' = "waiting" /\ ephLeft' = Sleep
    /\ UNCHANGED <<ephMade, ephHandles, ephPermit, ephHistory>>

(* Time passes while the task sleeps.  It is run within a tick after       *)
(* something is ready for it, so that a notification waits for no longer   *)
(* than the end of a sleep that is about to end.                           *)
EphTick ==
    /\ ephTask = "waiting"
    /\ ephLeft > 0
    /\ ephPermit => ephLeft = 1
    /\ ephLeft' = ephLeft - 1
    /\ UNCHANGED <<ephMade, ephHandles, ephTask, ephPermit, ephHistory>>

EphNext ==
    \/ \E context \in Contexts : EphCreate(context)
    \/ EphClone \/ EphDrop \/ EphClose
    \/ EphNotified \/ EphBeat \/ EphBeatEnds \/ EphTick

\* The runtime runs a task that is ready, heartbeats return, and the timer ends a sleep.
EphFairness == WF_ephVars(EphNotified \/ EphBeat \/ EphBeatEnds) /\ WF_ephVars(EphTick)

EphSpec == EphInit /\ [][EphNext]_ephVars
-----------------------------------------------------------------------------
EphTypeOK ==
    /\ ephMade \in 0..2 /\ ephHandles \in 0..MaxClones
    /\ ephTask \in {"none", "waiting", "beating", "stopped"} /\ ephLeft \in 0..Sleep
    /\ ephPermit \in BOOLEAN /\ ephClosed \in BOOLEAN /\ ephPanicked \in BOOLEAN
    /\ ephBeats \in 0..MaxBeats /\ ephLate \in 0..2
    /\ ephHandles > 0 => ephTask # "none"
    /\ ephPanicked => ephTask = "none"

(* Closing any of its clones stops the task of an object, once and for    *)
(* all, after one more heartbeat at most, also when the clones are dropped *)
(* right after: a notification that comes while the task runs a heartbeat, *)
(* or together with the end of its sleep, is not lost (ephemeral.rs:20-31, *)
(* volume.rs:43-50).                                                       *)
CloseStopsTheTask == [](ephLate <= 1) /\ (ephClosed ~> [](ephTask = "stopped"))
=============================================================================
