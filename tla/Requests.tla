------------------------------ MODULE Requests ------------------------------
(***************************************************************************)
(* The requests an application's options turn into: the resources of a     *)
(* class, whose ServiceOptions are merged layer by layer (cls.rs), those   *)
(* of a sandbox, which sandbox.rs checks and transport.rs translates once  *)
(* more, the timeout of an exec, GPU strings, the parameters of a class    *)
(* instance (serialization.rs), retry policies (retries.rs) and the mounts *)
(* of buckets (cloud_bucket_mount.rs).                                     *)
(*                                                                         *)
(* CPU is counted in halves of a milli-CPU, so that fractions occur.  A    *)
(* GPU string stands for its count.  The widths of integers are kept: u32  *)
(* holds what is below U32.  The variables begin with req.                 *)
(***************************************************************************)
EXTENDS Integers, Sequences, SequencesExt

CONSTANTS U32,          \* 2^32
          ReqOptions,   \* the ServiceOptions of a layer
          ReqSandboxes, \* the SandboxCreateParams
          ReqTimeouts,  \* timeouts of an exec, in halves of a second
          ReqSchemas,   \* schemas of a class: sequences of specs with distinct names
          ReqValues,    \* functions from some names to values
          ReqPolicies,  \* max_retries and RetriesParams, in tenths and in halves of a second
          ReqMounts,    \* CloudBucketMountParams
          MaxMerges     \* bound: layers that are merged

ASSUME RequestAssumption == U32 \in Nat /\ U32 > 1 /\ MaxMerges \in Nat

NotSet == -99           \* None
NoSecret == ""          \* no secret; the empty id

\* `as u32` of an integer wraps, of a float it saturates.
AsU32(n) == n % U32
FloatAsU32(n) == IF n < 0 THEN 0 ELSE IF n >= U32 THEN U32 - 1 ELSE n
Milli(cpu) == FloatAsU32(cpu \div 2)

VARIABLES
    reqLayers,  \* history: the options that were merged, the oldest first
    reqMerged,  \* the merged ServiceOptions
    reqAsked,   \* what the last request was built from
    reqSent     \* that request, or Refused

reqVars == <<reqLayers, reqMerged, reqAsked, reqSent>>

Refused == [kind |-> "refused"]
Resources(cpu, cpu_max, memory, memory_max, gpu) ==
    [kind |-> "resources", cpu |-> cpu, cpu_max |-> cpu_max,
     memory |-> memory, memory_max |-> memory_max, gpu |-> gpu]

NoOptions == [cpu |-> NotSet, cpu_limit |-> NotSet, memory |-> NotSet, memory_limit |-> NotSet,
              gpu |-> NotSet, other |-> NotSet]

\* The widths of the parameters; CPU is a float, and counts of GPUs and the rest are read from strings.
I32 == -(U32 \div 2)..((U32 \div 2) - 1)

ASSUME OptionsAssumption ==
    /\ \A o \in ReqOptions :
          /\ DOMAIN o = DOMAIN NoOptions /\ \A f \in DOMAIN o : o[f] \in Int
          /\ o.memory \in I32 \cup {NotSet} /\ o.memory_limit \in I32 \cup {NotSet}
    /\ \A p \in ReqSandboxes :
          /\ p.cpu \in Int /\ p.cpu_limit \in Int /\ p.gpu \in Int
          /\ p.memory \in I32 /\ p.memory_limit \in I32

ReqInit == reqLayers = <<>> /\ reqMerged = NoOptions /\ reqAsked = NoOptions /\ reqSent = Refused

\* Bound: the one request that is followed ends a behaviour; only ReqClass reads the options.
Fresh == reqAsked = NoOptions
ReqAnswer(asked, sent) == Fresh /\ reqAsked' = asked /\ reqSent' = sent /\ UNCHANGED <<reqLayers, reqMerged>>
ReqUnmerged(asked, sent) == reqLayers = <<>> /\ ReqAnswer(asked, sent)
-----------------------------------------------------------------------------
\* merge_service_options, field by field.
MergeServiceOptions(base, new) == [f \in DOMAIN base |-> IF new[f] = NotSet THEN base[f] ELSE new[f]]

ReqMerge(new) ==
    /\ Fresh /\ Len(reqLayers) < MaxMerges
    /\ reqMerged' = MergeServiceOptions(reqMerged, new)
    /\ reqLayers' = Append(reqLayers, new)
    /\ UNCHANGED <<reqAsked, reqSent>>

HasOptions(o) == \E f \in DOMAIN o : o[f] # NotSet

\* A limit without a request, a request that is not positive, a limit below its request.
BadPair(request, limit) ==
    IF request = NotSet THEN limit # NotSet
    ELSE request <= 0 \/ (limit # NotSet /\ limit < request)

OrZero(n) == IF n = NotSet THEN 0 ELSE n

\* build_function_options_proto: only the resources are sent, and not the GPU.
FunctionOptions(o) ==
    IF \A f \in {"cpu", "cpu_limit", "memory", "memory_limit", "gpu"} : o[f] = NotSet THEN [kind |-> "others"]
    ELSE IF BadPair(o.cpu, o.cpu_limit) \/ BadPair(o.memory, o.memory_limit) THEN Refused
    ELSE Resources(Milli(OrZero(o.cpu)), Milli(OrZero(o.cpu_limit)),
                   AsU32(OrZero(o.memory)), AsU32(OrZero(o.memory_limit)), 0)

ReqClass ==
    /\ HasOptions(reqMerged)
    /\ ReqAnswer(reqMerged, FunctionOptions(reqMerged))
-----------------------------------------------------------------------------
\* The checks of build_sandbox_create_request_proto, whose result create drops; and a slip in them.
OnlyNegative(p) == p.cpu < 0 \/ p.memory < 0
SandboxRefused(p) ==
    \/ p.cpu < 0 \/ p.memory < 0
    \/ p.cpu_limit > 0 /\ (p.cpu = 0 \/ p.cpu_limit < p.cpu)
    \/ p.memory_limit > 0 /\ (p.memory = 0 \/ p.memory_limit < p.memory)

\* parse_gpu_config: a u64 of at least 1, narrowed to u32.
ParseGpuConfig(count) == IF count < 1 THEN NotSet ELSE AsU32(count)

\* The GPU count of sandbox_create: any u32.
SandboxGpu(count) == IF count \in 0..(U32 - 1) THEN count ELSE NotSet

\* sandbox_create translates the parameters by itself.
SandboxResources(p) ==
    LET Sent(n) == IF n > 0 THEN n ELSE 0
    IN  Resources(Milli(Sent(p.cpu)), Milli(Sent(p.cpu_limit)),
                  AsU32(Sent(p.memory)), AsU32(Sent(p.memory_limit)), OrZero(p.gpu))

ReqSandbox(p) ==
    ReqUnmerged(p, IF SandboxRefused(p) \/ (p.gpu # NotSet /\ SandboxGpu(p.gpu) = NotSet)
                   THEN Refused ELSE SandboxResources(p))

\* An image layer with a GPU.
ReqGpu(count) ==
    ReqUnmerged([NoOptions EXCEPT !.gpu = count],
                IF ParseGpuConfig(count) = NotSet THEN Refused ELSE Resources(0, 0, 0, 0, ParseGpuConfig(count)))

\* build_task_exec_start_request_proto: whole seconds; zero is no timeout.
ReqExec(timeout) ==
    ReqUnmerged([NoOptions EXCEPT !.other = timeout],
                IF timeout % 2 # 0 THEN Refused
                ELSE [kind |-> "exec", timeout |-> IF timeout = 0 THEN NotSet ELSE AsU32(timeout \div 2)])
-----------------------------------------------------------------------------
\* The value of a parameter: the one given, else its default, if its type fits.
Unfit == [type |-> "none", n |-> 0]
EncodeParameter(spec, values) ==
    IF spec.type \notin {"string", "int", "bool", "bytes"} THEN Unfit
    ELSE IF spec.name \in DOMAIN values THEN
        IF values[spec.name].type = spec.type THEN values[spec.name] ELSE Unfit
    ELSE IF spec.has_default THEN [type |-> spec.type, n |-> 0] ELSE Unfit

\* encoded.sort_by name.
ByName(encoded) == SortSeq(encoded, LAMBDA a, b : a.name < b.name)

EncodeParameterSet(schema, values) ==
    LET encoded == [x \in DOMAIN schema |->
                        [name |-> schema[x].name, value |-> EncodeParameter(schema[x], values)]]
    IN  IF \E x \in DOMAIN encoded : encoded[x].value = Unfit THEN Refused
        ELSE [kind |-> "parameters", parameters |-> ByName(encoded)]

ReqParameters(schema, values) ==
    ReqUnmerged([schema |-> schema, values |-> values], EncodeParameterSet(schema, values))

-----------------------------------------------------------------------------
NaN == -98              \* a float that is no number; it compares as false

\* Retries::new fills in what is not set, and refuses what is out of bounds; and a slip in that.
RetryDefaults == [max_retries |-> 0, backoff |-> 20, initial_delay |-> 2, max_delay |-> 120]
Retries(policy) == MergeServiceOptions(RetryDefaults, policy)
NoUpperBound(retries) == retries.max_retries < 0
RetriesRefused(retries) ==
    \/ retries.max_retries \notin 0..10
    \/ retries.backoff # NaN /\ retries.backoff \notin 10..100
    \/ retries.initial_delay > 120
    \/ retries.max_delay \notin 2..120

ReqRetries(policy) ==
    ReqUnmerged(policy, IF RetriesRefused(Retries(policy)) THEN Refused
                        ELSE [kind |-> "retries", policy |-> Retries(policy)])

\* The host of bucket_endpoint_url decides the type of the bucket.
BucketType(endpoint) ==
    CASE endpoint = "r2.cloudflarestorage.com" -> "R2"
      [] endpoint = "storage.googleapis.com" -> "Gcp"
      [] OTHER -> "S3"

\* new_cloud_bucket_mount; a key_prefix is with or without its slash, or None.
MountRefused(p) ==
    \/ p.endpoint = "invalid"
    \/ p.requester_pays /\ p.secret = NoSecret
    \/ p.key_prefix = "prefix"

\* to_proto: the empty string for what is None.
MountProto(p) ==
    [kind |-> "mount", credentials |-> p.secret, bucket_type |-> BucketType(p.endpoint),
     requester_pays |-> p.requester_pays, read_only |-> p.read_only, key_prefix |-> p.key_prefix]

ReqMount(p) == ReqUnmerged(p, IF MountRefused(p) THEN Refused ELSE MountProto(p))

ReqNext ==
    \/ \E new \in ReqOptions : ReqMerge(new)
    \/ ReqClass
    \/ \E p \in ReqSandboxes : ReqSandbox(p)
    \/ \E count \in 0..(2 * U32) : ReqGpu(count)
    \/ \E timeout \in ReqTimeouts : ReqExec(timeout)
    \/ \E schema \in ReqSchemas, values \in ReqValues : ReqParameters(schema, values)
    \/ \E policy \in ReqPolicies : ReqRetries(policy)
    \/ \E mount \in ReqMounts : ReqMount(mount)

ReqSpec == ReqInit /\ [][ReqNext]_reqVars
-----------------------------------------------------------------------------
ReqTypeOK ==
    /\ DOMAIN reqMerged = DOMAIN NoOptions /\ Len(reqLayers) <= MaxMerges
    /\ reqSent.kind \in {"refused", "resources", "others", "exec", "parameters", "retries", "mount"}
    /\ reqSent.kind = "resources" => \A f \in {"cpu", "cpu_max", "memory", "memory_max", "gpu"} : reqSent[f] \in 0..(U32 - 1)
    /\ reqSent.kind = "retries" => reqSent.policy.max_retries \in 0..10 /\ reqSent.policy.max_delay <= 120
    /\ reqSent.kind = "mount" => (reqSent.requester_pays => reqSent.credentials # NoSecret)

(* "Merge two service options, with `new` taking precedence over `base`":  *)
(* however many layers there are, each field has the value of the last     *)
(* layer that set it, also when that layer left related fields unset       *)
(* (cls.rs:228-270).                                                       *)
LastOptionWins ==
    \A f \in DOMAIN reqMerged :
        LET setters == {x \in DOMAIN reqLayers : reqLayers[x][f] # NotSet}
        IN  IF setters = {} THEN reqMerged[f] = NotSet
            ELSE \E x \in setters : reqMerged[f] = reqLayers[x][f] /\ \A y \in setters : y <= x

(* Limits that were asked for survive the checks and the conversions: the  *)
(* limit that is sent is not below the request that is sent, and it is     *)
(* not lost while the request is there; although sandboxes are checked     *)
(* and translated in two places, and classes after several merges          *)
(* (sandbox.rs:192-225, transport.rs:993-1022, cls.rs:137-205).            *)
LimitsSurvive ==
    reqSent.kind = "resources" =>
        /\ reqAsked.cpu_limit > 0 => reqSent.cpu_max >= reqSent.cpu
        /\ reqAsked.memory_limit > 0 => reqSent.memory_max >= reqSent.memory
=============================================================================
