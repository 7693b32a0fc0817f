# A TLA+ verification of the Modal SDK for Rust

This directory models the client SDK in `src/modal/src/` as TLA+ state machines, checks
them with TLC on small instances, and proves the properties that matter most with TLAPS for
every value of their constants. `PROJECT.json` maps every definition that models code to its
lines, lists the runs with their properties, the hazards of the code and the theorems.

The SDK is a library: it runs on the threads of its caller and talks to a server whose code
is not here (the `.proto` files are in a submodule that the repository does not contain). The
server and the network are modelled from how the SDK uses them, and marked external.

## 1. Inventory

| Component | State it keeps | Operations | Correct when |
|---|---|---|---|
| RPC retry, `interceptors.rs` | attempt, delay of one call | `retry_call_async` | a transient error is returned only after all retries, another one at once; each call returns; delays are capped |
| Transport, `transport.rs` | a tonic channel and a runtime | one method per RPC, all through `retry_block_on` | requests and answers are translated faithfully; a repeated RPC is harmless |
| Router client, `task_command_router.rs` | `jwt`, `jwt_exp` (two mutexes), `closed` (atomic) | mount, snapshot, exec start, poll, wait, stdin, stdio, refresh, close | a token is refreshed in time, a refused token is not presented again, close ends the session |
| JWT expiry, `auth_token_manager.rs` | none | `parse_jwt_expiration` | a token without `exp` has no expiry |
| Invocation, `invocation.rs`, with `function.rs` and `function_call.rs` | function call id, input id, `input_jwt`, retry count | create, await, retry, `Function::remote`, `spawn`, awaiting by function call id, cancel | timeouts are kept, InternalFailures and nothing else are retried, within the budget |
| Queue, `queue.rs` | the client keeps none; the server holds entries | put, put_many, get, get_many, iterate, len, clear, ephemeral | first in first out per partition, timeouts are kept, iterate sees each entry once |
| Container process, `sandbox.rs` 900-1180 | stdin offset and `closed`; reader buffer, position, `eof` | write, close, read, wait | the bytes of a stream arrive once, in order, ended by EOF |
| Sandboxes, `sandbox.rs` 1-900 | sandbox id, task id | create, list, exec, wait, poll, terminate, tunnels, snapshots, tags | create either returns a running sandbox or leaves none; list is complete |
| Files, `sandbox_filesystem.rs` | file descriptor of the container | open, read, write, flush, seek, close, ls, mkdir, rm, watch | each call applies its chunks once and reports the first failure |
| Images, `image.rs` | layers | `build`, `delete`, `from_*` | every layer is built on the one before; a forced layer forces all later ones |
| Ephemeral objects, `ephemeral.rs`, `volume.rs`, `queue.rs` 240-270 | a `Notify` shared by clones | start, heartbeat, close | the heartbeat task runs while the object is open and stops for good when it is closed |
| Lookup, `secret.rs`, `volume.rs`, `queue.rs`, `proxy.rs`, `app.rs`, `cls.rs`, `function.rs` | ids | from_name, from_map, delete, lookups | a missing object is reported unless that was allowed; a delete deletes what it looked up |
| Service options, `cls.rs`, `retries.rs`, `cloud_bucket_mount.rs`, `app.rs` | none | validation, merging | values survive their conversion; limits are enforced |
| Pickle, CBOR, `pickle.rs`, `serialization.rs` | stack and memo of the machine | serialize, deserialize | a value that is written is read back |
| Client, `client.rs`, `config.rs` | profile | construction from a file, variables and parameters | each field has the value of the highest source that has one |
| Errors and logging, `error.rs`, `logger.rs` | none | types | data only |

How they interact: every service calls a trait that `ModalGrpcTransport` implements; the
transport wraps each RPC in the retry loop. `Function::remote` creates an invocation, awaits
it and asks it to retry its input. A `ContainerProcess` made by `Sandbox::exec` reads and
writes over the router client, which authenticates with a JWT that it fetches from the
control plane. The only state shared by threads of one process is in the router client (two
mutexes and an atomic), the transport (a mutex around the client stub, copied per call) and
the `Notify` of ephemeral objects. Callers in different processes meet on the server: two
holders of one function call id, producers and consumers of one queue.

What is hard here: (1) every RPC is retried *without its idempotency key*, since the
closures given to `retry_block_on` ignore the `RetryContext`, so the server may execute it
more than once, or after the SDK has given it up; (2) two threads may refresh the JWT at
once, and token and expiry have locks of their own; (3) deadlines are kept by hand in loops
of polls and sleeps; (4) one output, and one queue entry, goes to one of several callers that
wait for it; (5) the offsets and buffers of streams must agree after a failed call; (6) operations made of
several RPCs (create and poll, look up and delete, build layer by layer, write chunk by chunk)
act on objects that others change between the steps. Nothing is persisted, so there is no
crash recovery.

## 2. The modules

| Module | Models | Role |
|---|---|---|
| `GrpcRetry` | `retry_call_async`, over a network that loses and delays | one client, one network action per attempt |
| `RpcCall` | the abstract promise: at least once, at most `MaxEffects` times | refined by `GrpcRetry` |
| `GrpcRetryRefinement` | the refinement mapping | `INSTANCE RpcCall WITH ...` |
| `CommandRouter` | `TaskCommandRouterClient` shared by threads | the JWT, its refresh, the auth retry, close |
| `CallRetries` | `call_with_retries_on_transient_errors` | retries against a deadline and a close |
| `Invocation` | `ControlPlaneInvocation`, `Function::remote` and `spawn`, `FunctionCall::cancel` | an owner that retries and getters that time out |
| `InputPlane` | `InputPlaneInvocation` | attempts, each with a token, of which a retry makes a new one |
| `QueueOps` | put, get, get_many, iterate, clear on one partition | producers, getters and iterators |
| `FifoQueue` | the abstract promise: entries come in at least once and leave at most once, oldest first | refined by `QueueOps` |
| `QueueRefinement` | the refinement mapping | `INSTANCE FifoQueue WITH ...` |
| `ExecIO` | `ContainerProcessStdin`, `ContainerProcessReader`, `ContainerProcessClient` | a writer and a reader of one process |
| `ByteStreams` | the abstract promise: bytes are received once and in order, and output is handed over as it arrived | refined by `ExecIO` |
| `ExecRefinement` | the refinement mapping | `INSTANCE ByteStreams WITH ...` |
| `ContainerWait` | `ContainerProcess::wait` over `exec_wait` | a process that is waited for |
| `SandboxLifecycle` | `SandboxServiceImpl` over the transport | a client among others that create, retag and end sandboxes |
| `SandboxFiles` | one file of `SandboxFilesystemService` | an operation is a chain of execs, each with an output stream |
| `ImageBuild` | `Image`, `ImageServiceImpl::build`, `delete` | layers built on each other while images are deleted |
| `NamedObjects` | lookup, creation and deletion in seven services | two callers and delayed requests |
| `EphemeralObject` | `start_ephemeral_heartbeat`, ephemeral volumes and queues | a task, a permit, clones |
| `Requests` | service options, sandbox parameters, retry policies, bucket mounts, class parameters | checks and translations as operators, one action per request |
| `Pickle` | the encoder and the decoder of `pickle.rs` | a stack machine, one action per group of opcodes |
| `Configuration` | `config.rs`, `Client::connect`, `ClientBuilder::build` | sources read one by one while they change |
| `Services` | the last six but `Pickle`, side by side | a composition, without RECURSIVE operators |
| `*Proofs` | the theorems about the module they extend | TLAPS |
| `MC*` | model values and sets for TLC; `MCSandbox` and `MCServices` are compositions, too | no definition that models code |

`QueueOps`, `Invocation` and the service modules do not instantiate `GrpcRetry`: they use of an RPC
what `RpcCall` promises, which `GrpcRetry` is shown to implement. That is why a put may be
stored twice and late (`Store` takes any of the producer's puts so far), why an answer may be
lost after it took entries (`LoseReply` of `QueueOps`, `LoseAnswer` of `Invocation`), why `SbxCreate` may leave
two sandboxes, `AttStarts` two attempts and `ObjArrives` an object whose call returned long ago, and why
an exec of `SandboxFiles` may run twice.

`MCSandbox`, `Services` and `MCServices`, which adds pickles to `Services`, put parts that share no
state side by side: a behaviour follows one of them, chosen in its first state, while the others keep
their values. Their variables have prefixes for that reason. Each part keeps a `Spec` of its own, so that it can be checked and used alone.

### State and actions against the code

**GrpcRetry.** `attempt` and `delay` are the locals of the loop, `inflight` and `applied` are
the network and the server. `Fail` is the error arm (interceptors.rs:189-203): it either goes to
sleep or returns; `failure` is history, the status of the last failed attempt. `Wake` is the end of the sleep, the growth of the delay and the next attempt.
The first attempt happens in `Begin`. A failure does not tell whether the request was
executed, so `Fail` leaves `inflight` alone and `Deliver` may come at any time later.

**CommandRouter.** One step per lock that is taken or RPC that is awaited: `ReadJwt` clones the
token, `FirstReply` and `SecondReply` are the answers of the router, `ForceRefresh` looks at
`closed`, `Fetch` is the access request with the check of the URL, `InstallJwt` and
`InstallExp` are the two critical sections that store token and expiry. The keep-alive path
`refresh_jwt_if_needed` is `BeginKeepAlive`, then `SkipRefresh` or `NeedRefresh`, then the same
tail: the code repeats the last part of `force_refresh_jwt`. Tokens are numbered by the
access response they came with, and grow stale in that order: that they all live equally long
is an assumption about the server. Time is `stale`, the newest token that is inside the 30 s buffer.

**CallRetries.** One turn of the loop is `CallStart` (the deadline is looked at, the request is sent),
then `CallOk` or `CallError`, whose disjuncts are the returns of the error arm in their order, and
`CallWake`. Time is counted in ticks, at every point of the call: a request is not cut off at the
deadline, a sleep may overrun, and time may pass before the deadline is looked at (`GiveUp`), so that a
call may find it over when it starts or wakes.

**Invocation.** A getter is `from_function_call_id(..).await_output(..)`, meant for a `get` that
`function_call.rs` does not have. `Answered` is one poll that finds an output, with the whole of
`process_result`: the blob is downloaded first, then the status is looked at. In `remote` the
result leads to a retry or is returned. `Empty` is an empty answer to a poll, when its time is up or
before, after which the rest of the time is polled for. An output that is
delivered is gone (`clear_on_success`), so that a getter may take it from the owner, and with
`LoseAnswer` it is gone for all. Time is kept per caller: `left` until its deadline and `pollLeft`
until the server must answer.

**InputPlane.** The methods of an `InputPlaneInvocation`, called one after the other in any order. A
token is the number of its attempt; `AttStarted` takes over the token of an attempt that was started
since the call, `AttOutput`, `AttNothing` (empty, in time or early) and `AttAwaitFails` are the answers of `AttemptAwait` to
one poll of `poll_function_output`. No caller in `src/` uses it, so the application is free.

**QueueOps.** `put_internal` is `StartPut`, `PutAcked`, `PutRefused` (ResourceExhausted: give
up, or sleep for the doubled delay cut to what is left), `PutFails`, `Wake`. `get_internal` is
`StartGet`, `Got`, `GotNothing` (an empty answer, in time or early), `GetFails`. `iterate` is `StartIterate`, `NextItem`, `NoItems`,
`IterateFails`. A batch is taken in one entry after the other; in the code a batch is taken in
while no other SDK step of that caller happens, and entries that a getter takes in between
were in the answer already, so the model allows at most more interleavings. The server is
`Room`, `Store`, `Take` and what `Oldest` and `Unseen` return. In `FifoQueue` no call has a deadline, a
state or a result: a put begins, its item comes in, it is accepted; a taker is given the oldest entries;
a reader reads the next one. Refusals, sleeps, polls and the clock are stutters of it.

**ExecIO.** A byte is its position. `Write` and `Close` start a call at `offset`, `Execute` is the
router (zero, one or several times), `Written` and `WriteFails` end it. `Read` requests a chunk
when nothing is buffered, `Chunk`, `EndOfStream` and `ReadFails` are its answers,
`ReadBuffered` serves from the buffer. `eof` starts in either state because a stream that is
configured to be ignored is at its end from the beginning. In `ByteStreams` there are no calls: bytes come
in, are acknowledged, and end right behind what was acknowledged; output arrives when all there is was
handed over. Failed calls, repeated executions and the buffer's position are stutters of it or not seen.

**ContainerWait.** A deadline is a duration: `wait` turns it into an instant anew each time, and
`exec_wait` compares it only before the RPC. `WaitAgain` is the auth retry.

**SandboxLifecycle.** `SbxCreate` is the check, the RPC and its retries, `SbxPollTask` one turn of the
loop of 600 polls: `SbxCreateFails` leaves no handle, as the id is only in the message of the error.
`sbxListed` and `sbxBefore` are the locals of `list`, `SbxNextPage` one page and
`SbxListEnds` the empty page or an error. The other calls are one RPC each and leave a report in
`sbxReport`; those of `wait` and `poll` are their answers, unless the RPC fails. `sbxSteady` is history: the sandboxes that could be listed during the whole of the
list. The server lists latest first, in any order among equal timestamps, and what is strictly
before `before_timestamp`: that is an assumption, the `.proto` says nothing that is in `src/`.

**SandboxFiles.** `FsAccepted` and `FsRefused` are the answers to `filesystem_exec`, `FsOutput`, `FsOutputCut`
and `FsOutputFails` the ends of `filesystem_exec_get_output`. The loop over the chunks of a write is in
`FsDone`: the next chunk is sent, or the operation returns. `fsStray` holds the execs nobody waits for.
`fsAcked` is history: the last requests of the writes that returned Ok.

**ImageBuild.** `ImgBuild` is the guard of a built image, then each layer is `ImgGpuInvalid`,
`ImgFound`, `ImgCreated` or `ImgCallFails`, the answers to `image_get_or_create`. `ImgJoined` and
`ImgJoinAgain` are the ends of one stream of `image_join_streaming`. `imgChain` are the ids of the
layers so far, the last of which is the next base image.

**NamedObjects.** A lookup is one step, `GetOrCreate`, with the error its service turns NotFound into.
A delete is two: the lookup, which sets `objTarget`, and the delete by id. `objService` chooses one of
seven services at the start: names of one service mean nothing to another.

**EphemeralObject.** `EphNotified` and `EphBeat` are the two arms of `select!`, which one is taken when
both are ready is open; between `EphBeat` and `EphBeatEnds` the task runs the closure and waits for
neither. `EphClose` is `notify_one`, which leaves a permit also then. `EphCreate` follows where `ephemeral` may be called:
`tokio::spawn` panics outside a runtime, and `block_on` of the transport inside one.

**Requests.** Operators named for the functions they stand for; each action takes one input from a
set and leaves what is sent, or `Refused`. Sandbox parameters are checked by
`build_sandbox_create_request_proto`, whose result is dropped, and translated once more by the
transport. Merging keeps the layers so that the result can be compared with all of them.

**Pickle.** `PickleSerialize` writes opcodes as `pickle_serialize` does, `PyPickle` as Python's pickler does, with
memo entries and references to them; the decoder runs either, or a short program of opcodes
that nobody wrote. Bytes have `Byte` values and widths of 1, 2, 4 and 8 bytes, so the width limits are
met with small integers.

**Configuration.** `CfgRead` picks the profile, `CfgField` reads one variable, `CfgOverride` applies the
parameters, `CfgChannel` and `CfgConnect` may fail. `CfgSetEnv` is another part of the program.

## 3. Runs, bounds and what they show

| Run | Instance | Shows |
|---|---|---|
| `retry` | one call, five retries, delays 1, 2, 4, 8, 10 | transient errors end a call only after all retries and others at once, the backoff schedule reaches its cap, the call returns, `RpcCall` is implemented |
| `router` | two threads, three access responses, one without `exp` | no replaced or foreign token is presented, the retry uses another token, close quiesces, operations end |
| `router_race` (violation) | the same, all with `exp` | two refreshes may leave the older token with the newer expiry |
| `invocation` | an owner with `MaxSystemRetries = 1`, one getter with timeouts 0, 3 or none, polls of 2 | budget, timeouts, both callers return |
| `invocation_budget` (violation) | the owner alone, `MaxSystemRetries = 8` | nine retries are made |
| `queue` | a producer of one put, two getters, room for one, timeout 3 or none, backoffs that double up to 2, polls of 2 | timeouts are earned and kept over several sleeps and polls, puts and gets end |
| `queue_iterate` | a producer of two puts, a getter, a clear, an iterator with `item_poll_timeout` 0 or 3 and polls of 2 | timeouts are kept by iterate's polls, an acknowledged put is not overtaken, order, no repetition, ends when and only when idle, `FifoQueue` is implemented |
| `queue_duplicate` (violation) | one put | the item may be stored twice |
| `sandbox` | five parts: images of up to 3 layers, 3 sandboxes on pages of 2, a write of up to 3 chunks, a process with 4 bytes in and 3 out, a wait with deadlines 0, 1 or none | images are what their layers say, reports are true, lists miss only ties, chunks are in order, streams are lossless and implement `ByteStreams`, builds, creates and lists end |
| `exec_read_again` (violation) | a reader of three bytes | it reads the first chunk again and again |
| `services` | seven parts: two callers and two objects, an ephemeral object with two clones, calls with 0, 2 or any number of retries and deadlines of 0, 4, 6 or none, some 2800 pickled values and 7000 programs, the requests of some 1500 sets of parameters, two-profile files with one change of a variable, four attempts | deletes keep their word, deadlines are kept though sleeps overrun, pickles round trip, parameters survive, answers are of the attempt awaited, a close stops the heartbeats, calls and awaits end |
| `pickle_shared` (violation) | lists that are one object in Python | the second reference decodes as an empty list |

The properties of several parts are joined where they say one thing: `TimeoutsAreKept`,
`StreamsAreIntact`, `ReportsHold`, `AnswersAreOfTheTarget`, `ParametersSurvive` (options, limits, sources),
`SandboxEnds`, `CallsAndAwaitsEnd`; each conjunct has a name and a
comment of its own in its module.

Why the bounds are enough. Two threads are the least that race, and three access responses
let each replace the other's token and be replaced; the safety properties of the router are
proved for any number. A timeout of 3 against polls of 2 (`invocation`) makes a
last poll shorter than the others; so it does in `queue`, where the second sleep of a put, after
one of 2, is cut to the deadline, and in `queue_iterate`; 0 is the edge. Longer schedules change nothing
that the proofs of `TimeoutsAreKept` do not cover. Room for one and a put that is stored while its answer is lost fill the
queue, so that its next request is refused: the put sleeps, wakes to find it full again, and gives up. Three stored entries
(`queue_iterate`) leave one before, one at and one behind the iterator. Chunks of 1 to 3 bytes over
buffers of 1 and 2 meet at every relative position. Three sandboxes with two timestamps on pages of two
put a tie on a page boundary; `Retagged` lets the second of them lose and gain the tags that list
asks for. Three layers have one before and one behind a forced one; `MaxImages = 4` lets a chain be
built while another image is found, pending or deleted. Two polls of create (`MaxAttempts`) are
a first and a last one. `MaxLog = 3` holds a write of three chunks, or one of two with a repeated chunk.
Two objects of one name are the old and the new one of a delete that is overtaken; two callers are
the one that deletes and the other one. Retries of 0 and 2 with delays of 0, 1 and 2 end before, at and
behind deadlines of 4 and 6; a deadline of 0 is over before the first request, and since `MaxTime` is beyond the
latest deadline a sleep may overrun each of them. `Results` are two of the results of a sandbox, of success and not;
the client's own terminate adds a third. `AwaitTimeouts = {0, 3}` against polls of 2 are those of `invocation`;
`MaxTries = 4` leaves an attempt that was started twice in a create and again in a retry. With
four values of a byte the widths end at 4, 16, 256 and 65536, and the integers around them are all in.

`MaxExecutions`, `MaxStored`, `MaxPuts`, `MaxIn`, `MaxOut`, `MaxRead`, `MaxSandboxes`, `MaxStamp`,
`MaxImages`, `MaxLayers`, `MaxWrites`, `MaxLog`, `MaxObjects`, `MaxClones`, `MaxBeats`, `MaxMerges`,
`MaxTries`, `CfgChanges` and `MaxTime` only make the state space finite; they guard the environment,
the application or a history variable, with one exception: `Retry` of `Invocation` waits when
`MaxExecutions` would be exceeded, which cannot make it wait for ever because an owner that retries
can always choose no further execution (`n = 0`) and return an error. `OptionsUsed` leaves out calls
with neither a delay nor a limit on their retries: only the clock of the machine ends them.

Deadlock checking is off in all of them: a call that has returned, a queue with nothing to do and a
finished process are ends that the system may reach.

### Fairness

- A sleeping call wakes and time passes (`Wake`, `Tick`, `CallTick`, `AttTick`, `EphTick`): tokio's and
  the operating system's timers. A task that is ready is run (`EphNotified`, `EphBeat`, `EphBeatEnds`),
  `EphTick` says within a tick.
- A thread inside a router operation keeps running (`Step`): the operations hold no lock across an
  RPC and wait for nothing but answers. So do the loops of create, list, build and
  `call_with_retries_on_transient_errors`.
- A pending RPC ends in some way: with an answer or with a broken connection. *This is asked of the
  network*: the transport sets no deadline of its own, so a server that accepts a request and
  never answers would keep the caller for ever. A poll that finds nothing is answered when its own
  timeout is over; an empty answer may come earlier, but nothing says that it must.
- A build that the server has begun ends with a result, which is delivered although streams may end
  without one again and again (`ImgFairness`): the server must not let every stream end early.
- In `invocation`, executions end on the server (`Finish`); on the input plane they need not, a wait
  with a timeout ends without.
- Nothing is assumed of Init-like actions (`Begin`, `Create`, `Get`, `StartPut`...), of failures, of
  lost answers, or of who is handed an entry.

### Findings

1. `router_race` (task_command_router.rs:283-290, 312-319). Token and expiry are stored in two
   critical sections. Threads A and B refresh at once; A stores its token after B's, B stores its
   expiry after A's: the client keeps A's token with B's later expiry, and from then on
   `refresh_jwt_if_needed` finds nothing to do although the token is close to its expiry. The
   auth retry still repairs it after a refusal.
2. `invocation_budget` (function.rs:154). `retry_count <= max_system_retries()` from 0 allows nine
   retries; PROGRESS.md:497 says up to eight.
3. `queue_duplicate` (transport.rs:819). A retried `QueuePut` may be stored twice; the doc of `put`
   speaks of a single item.
4. `exec_read_again` (task_command_router.rs:521). Every read asks for offset 0 and keeps the first
   chunk of the answer, so the reader never gets beyond it, nor to the end of a stream that is not empty.
5. `pickle_shared` (pickle.rs:599). The memo stores clones. Python memoizes a list or dict while it is
   empty and fills it afterwards, so a second reference to the same object decodes as an empty one.

### Known gaps of the code, without a run

- A `QueueGet` whose answer is lost removes its items and is sent again (transport.rs:798): the
  first items are returned to nobody. `LoseReply` shows the step; likewise for the output of a
  function call (`LoseAnswer`).
- One item of `get_many` that does not unpickle makes the call fail and drops the others.
- `iterate` with the default `item_poll_timeout` of zero stops after its first non-empty batch
  (queue.rs:537): what the server did not put into that batch stays. `EndsWhenIdle` therefore speaks of
  positive timeouts.
- The blob of a result is downloaded before its status is looked at (invocation.rs:358): when the download
  fails, an InternalFailure is hidden behind that error and not retried. `ProcessResult` shows the step.
- `exec_wait` looks at its deadline only before it calls (task_command_router.rs:426) and each `wait`
  starts it anew, so a wait may outlast it.
- A `create` that fails after `SandboxCreate`, or whose `SandboxCreate` is retried, leaves a sandbox
  whose id the caller never learns (sandbox.rs:640-660).
- `list` misses sandboxes with the timestamp of the last entry of a page, if the server lists what is
  strictly before it; `ListMissesOnlyTies` says that it misses nothing else.
- A `SandboxWait` answered before the sandbox ended, without a result, is reported as exit code 0 with
  `success` false (transport.rs:1175).
- The output of an exec that ends without `eof` is taken to be complete (transport.rs:1573): a write may be
  reported done that was not run. `WritesAreInOrder` holds until that happens (`fsCut`).
- `image_get_or_create` sends an empty `builder_version` and no registry configuration, whatever
  the request holds (transport.rs:533-546).
- The heartbeat closures of ephemeral queues and volumes call nothing (queue.rs:261, volume.rs:159).
- A GPU count is checked as u64 and narrowed to u32 (app.rs:106).
- Integers of a pickle beyond i64 lose their upper bytes (pickle.rs:708); the instances of `Pickle` stay
  inside, where the encoder does.
- `Functions.from_name` passes a NotFound status on, where the other services turn it into `NotFound`.
- `ModalGrpcTransport` implements `TaskCommandRouterGrpcClient` (transport.rs:1585) with methods that only return
  errors; `CommandRouter` and `ExecIO` model the client over any implementation of that trait.

## 4. Proofs

| Module | Theorems | Inductive invariant |
|---|---|---|
| `GrpcRetryProofs` | `TypeCorrect`, `ErrorsAreJustified`, `NothingUnsent`, `Refinement`, `SleepsFollowTheSchedule`, `CallsMoveOn` | types, the safety properties, and: an idle call is at attempt 0; a call has a result iff it is done; `BackoffSchedule` by itself |
| `CommandRouterProofs` | `TypeCorrect`, `ReplacedForGood`, `UrlIsPinned`, `RetryIsNotARepeat`, `OperationsMoveOn` | `KnownTokens`, `PendingIsPrivate`, `CloneIsKnown` and the two invariants |
| `InvocationProofs` | `TypeCorrect`, `RetriesAreAccountedFor`, `TimeoutsAreKeptAlways`, `AwaitsMoveOn` | the properties, `BudgetBeforeRetry` and `ResultIffDone` |
| `QueueProofs` | `TimeoutsAreKeptAlways`; `TypeCorrect`, `AcknowledgedPutsKeepTheirOrder`, `EntriesInOrder`, `IterationsAreFaithful`, `QueueIsFifo`, `CallsMoveOn` | `TimersTyped` and `Timely` per actor; `TypeOK`, `OrderInv`, `YieldsInOrder`; `SleepsArePositive` |
| `ProcessProofs` | `StdinIsNeverGarbled`, `BuffersAreLossless`, `StreamsAreNeverGarbled`, `StreamsTyped`, `StreamsRefinement`, `ExitCodesAreNeverMadeUp` | `StdinInv`, `ReaderInv`, `WaitInv` |
| `ImageBuildProofs` | `ImagesTyped`, `BuildsWhatWasDescribed`, `BuildsMoveOn` | `ImgInv`: `ImgTyped`, `Progress` and `Made` |
| `SandboxProofs` | `ListIsComplete`, `CallsReportTheTruth`, `SandboxesTyped`, `CreateAndListMoveOn`; `FilesAreWrittenInOrder`; for the composition `SandboxTypesHold`, `ReportsAlwaysHold`, `PartsKeepTheirWord`, `StreamsAreImplemented`, `PartsMoveOn` | `SbxInv`: `InOrder`, `ListedOnce` and the reports; `FsInv`: `FsOrdered` until an output was cut |
| `ServicesProofs` | `DeletesAreTrue`, `DeletesOnlyWhatWasFound`, `AnswersAreOfTheLatest`, `AwaitsMoveOn`, `DeadlinesAreKept`, `CallsMoveOn`, `LastOptionsWin`, `LimitsAlwaysSurvive`, `RanksHold`, `OneLateBeatAtMost`; for the composition `PartsTyped`, `AnswersKeepTheirTarget`, `PartsKeepTheirPromises`, `PartsDeleteOnlyWhatWasFound` | `ObjInv` with `ObjTargets`; `AttInv` with `AttTokens`; `CallInv` with `WithinRetries`, `CallWaits`; `ReqInv`; `CfgSound` with `CfgReads` and `CfgResolves`; `EphInv` with `EphStops`; `PartsInv` of all of them |

They hold for any number of calls, threads, callers, objects, layers, chunks and entries and for any
retries, timeouts, delays and sizes, under the named assumptions of the modules. These say that the
parameters are natural numbers, that durations of polls and sleeps are positive, that sets of actors
are disjoint, and that a model value that stands for "none" is no proper value. Two say more:

- `OptionsAssumption` (`Requests`): options have the fields of `ServiceOptions`, and amounts of memory
  fit an `i32`, as their declarations say (cls.rs:105-106, sandbox.rs:27-28): their `as u32` is then
  exact for what passes the checks.
- `ConfigFilesAssumption` (`Configuration`): a file that was parsed has a profile of the right shape
  under each of its names.

The counters that bound histories (`MaxStored`, `MaxSandboxes`, `MaxImages`, `MaxLog` and so on) are
parameters as well, any natural number, so that a theorem holds for runs of any length.

Along which argument:

- *Refinement of RpcCall.* What the server executed of a call is the cardinality of `applied`. A
  delivery adds exactly one, because an attempt in flight was not executed before
  (`OnlySentAttempts` makes the two sets disjoint), and stays below `MaxRetries + 1` because
  attempts are `0..MaxRetries`. Ok is returned only for an executed attempt. Every other step maps
  to `Begin`, `ReturnOk`, `ReturnErr` or a stutter.
- *The retry is not a repeat.* That a replaced token never comes back is not inductive:
  a thread about to install might hold it. `PendingIsPrivate` says that it cannot, since a fetched
  token is known to nobody else until it is installed. `CloneIsKnown` adds that a thread that
  comes back from its own refresh presented, before, a token that was replaced by it or by
  somebody else. So the one it reads now differs.
- *The schedule of the sleeps.* `Uncapped` is a recursive function, so its own equation is to be proved: its
  solution is put together from finite prefixes, which agree where they overlap. The induction that
  takes is stated about sets of numbers, so that it needs no theorem with an operator parameter: finite
  sets are well founded under inclusion, hence a nonempty set of numbers has a least element. A sleep that
  was cut off at `MaxDelay` stays there, since a factor of at least one never takes it back below; a factor
  of zero is a case of its own.
- *Moving on.* Each actor has a measure that its own steps lower and those of others leave alone or lower: the steps
  left of a router operation (the authentication is retried once) or a retried RPC
  (`2 * MaxRetries + 3`), the retries left of `Function::remote`, the time to the deadline of a
  getter, a put, a get, an iterate, an await or a call, the layers left of a build, the polls of a create, the
  timestamps before the next page of a list. Time alone is not enough, as a sleep or a poll of no length
  would leave it where it is: `SleepsArePositive` and `CallWaits` exclude that. Four exceptions are in the
  statements: an empty answer that comes before the poll's time is up leads to another poll at once, a call with a deadline moves on if its options let its sleeps have a length, an iterate starts
  its time anew with each entry it yields, and a build waits on while streams end without a result.
- *Timeouts.* One fact per actor: what it waits is at most what is left, and a result that reports
  a timeout was returned with nothing left. All steps of the queue but the clock move one actor,
  so one lemma (`OneActorMoves`) carries it through all of them; for the invocation, through
  `StartPollingStep` and `ReturnStep`.
- *The retry budget.* `internals = retryCount` while polling and one more while retrying, with
  `retryCount <= MaxSystemRetries` before a retry (`BudgetBeforeRetry`).
- *The order of puts.* `NothingOvertakes` alone is not inductive: a put could be acknowledged behind a
  later one. `OrderInv` says that nothing of a producer is stored beyond its latest put, so nothing
  can be behind the put that is acknowledged, and that an acknowledged put is stored, so that
  whatever comes later comes behind it.
- *Refinement of FifoQueue.* `OrderInv` gives that a put returns Ok only for an item that came in. The
  `GetSize` oldest entries come first (`OldestComeFirst`): the entries up to one that stays are more
  than `GetSize`, those up to one that is taken are not. The one a reader gets is the least beyond the
  last it read, and `YieldsInOrder` makes that one the greatest it read.
- *Streams.* `StdinInv`: a call the router has executed has had its effect at the offset of the client, so
  executing it again changes nothing. `ReaderInv`: what was read, and what is left of the buffer, is
  what was fetched; sequences are cut and joined by lemmas of their own.
- *Refinement of ByteStreams.* From the same two invariants: the first execution of a write appends its
  bytes at the client's offset, a later one changes nothing; EOF comes at the acknowledged
  offset; and what was read is a first part of what was fetched (`ReadIsPrefix`), all of it when a chunk is
  requested or the end is reported.
- *Images.* `Made` is the induction over the layers as a state invariant: each image of the chain has
  the content of its prefix of the layers, on the server, and is forced if one of the prefix is; no
  action changes the content of an image that has an id.
- *The list of sandboxes.* What was there all along is listed, or still before the next page, or has a tie
  with something listed. For the step of one page: it is made of the first places of a ranking
  (`Ranks`), so that what is missing from it is not newer than its last one.
- *Files.* Whatever may still reach the file, or is in it, comes behind the chunk before it, because the
  next chunk is sent only when the last one was executed. That needs an output that was not cut: `FsInv`
  speaks of runs without one.
- *Deletes.* A target is an id that the lookup found, objects are never renamed, and a delete by id removes
  that id (`ObjTargets`), whoever has the name by then.
- *Attempts.* The caller holds the token of the latest attempt whenever it polls (`AttTokens`), since every
  start of an attempt replaces the token before the next call.
- *Deadlines of calls.* A call that sleeps has a retry left (`WithinRetries`) and its sleep ends by the
  deadline; both are looked at once, before the sleep. That the sleep ends when it should is not assumed: no
  request is sent at or after the deadline because the head of the loop looks at it once more.
- *Options, limits, sources.* The last layer that sets a field is the same before and after a merge, for
  every field; a limit passes its check only above the request, and the conversions are monotone on
  the widths of the types. `CfgResolves`: each field read so far has the first non-empty value of
  its sources *as they were when it was read*, although the environment changes in between.
- *Heartbeats.* A permit stays until the task has taken it, and a beat after the close starts a sleep of
  full length in which the permit is found, so at most one beat is late.
- *Compositions.* The part that is followed keeps its invariant; those that are not keep their initial
  values, for which it holds as well.

Model-checked only:

- all liveness properties, as liveness and ENABLED are beyond the prover. What they rest on is proved for every
  value of the constants: that each step brings an operation closer to its end, so that fairness has
  only to supply the steps. That is `CallsMoveOn` of `GrpcRetryProofs` for `CallReturns`,
  `OperationsMoveOn` for `OperationEnds` and `CloseQuiesces`, `AwaitsMoveOn` of `InvocationProofs` for
  `GetterReturns` and `RemoteReturns`, `CallsMoveOn` of `QueueProofs` for `CallsEnd` and
  `IterateEnds`, `BuildsMoveOn` and `CreateAndListMoveOn` for `SandboxEnds`, `AwaitsMoveOn`,
  `CallsMoveOn` of `ServicesProofs` for `CallsAndAwaitsEnd`, `OneLateBeatAtMost` for `CloseStopsTheTask`;
- `RoundTrips`, and the part of `ServicesTypeOK` that is about `Pickle`, which has RECURSIVE operators
  because values are nested. What `Services` contributes to `ServicesTypeOK` is `PartsTyped`;
- the runs that show a disagreement.

## 5. Not modelled

Listed with reasons in `PROJECT.json`. In short: the field-by-field copies between requests and
protocol messages, headers, the formatting and parsing of names, fields nothing depends on (tunnels,
regions, volumes of a sandbox), what is read from a file and where, `put_many` with several items,
`Queue::len`, `merge_env_into_secrets`, function statistics and the autoscaler (one RPC each, no state in the
client), floats and text escapes of pickles, CBOR (a library's), log levels, test doubles and
generated code. About two thirds of the lines of `src/modal/src/` are tests, mocks, plain data types
and such copies.

## 6. Plan

Done: `GrpcRetry` with `RpcCall`; `CommandRouter`; `Invocation`; `QueueOps`; `ExecIO`; then the services over
them: `CallRetries`, `ContainerWait`, `InputPlane`, `SandboxLifecycle`, `SandboxFiles`, `ImageBuild`,
`NamedObjects`, `EphemeralObject`, `Requests`, `Pickle`, `Configuration`.

Each of these modules but `Pickle` has its type invariant and its safety properties proved, and three
components implement an abstract specification (`RpcCall`, `FifoQueue`, `ByteStreams`).

What is left is `Pickle`: that its decoder reads back what its encoder wrote, for values of any depth,
takes an induction over nested values. The parts of the code that could be modelled next are the
fields that are only copied (section 5), where a property would say no more than the copy does.
