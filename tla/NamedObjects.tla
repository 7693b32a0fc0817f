---------------------------- MODULE NamedObjects ----------------------------
(***************************************************************************)
(* Objects that clients find, create and delete by a name: secrets,        *)
(* volumes, queues, apps, proxies, classes and functions (secret.rs,       *)
(* volume.rs, queue.rs, app.rs, proxy.rs, cls.rs, function.rs), over the   *)
(* requests of transport.rs.  A behaviour is about the objects of one      *)
(* service: a name of one means nothing to another.                        *)
(*                                                                         *)
(* The server is external.  It gives every object an id of its own.  An    *)
(* RPC is retried, as in RpcCall: it may be executed and answered, executed *)
(* and answered with an error or by the answer to a second execution, or   *)
(* not executed; a request to create may also arrive after its call has    *)
(* returned.  Deleting by id twice changes nothing.  The variables begin   *)
(* with obj, so that the module can be used beside others.                 *)
(***************************************************************************)
EXTENDS Naturals, Sequences

CONSTANTS Callers,      \* clients, in one process or in several
          ObjectNames,  \* names that are asked for
          Environments, \* environments, "" excluded
          MaxObjects    \* bound: objects the server creates

ASSUME ObjectAssumption == MaxObjects \in Nat /\ "" \notin ObjectNames \cup Environments

NoObject == 0

\* The object_creation_type of a request; that of ObjEphemeral is another one.
Unspecified == 0
CreateIfMissing == 1

(* The errors of a call: ModalError::NotFound, ModalError::Grpc with the   *)
(* status NotFound or another one, ModalError::Invalid.                    *)
ObjErrors == {"NotFound", "GrpcNotFound", "Grpc", "Invalid"}

VARIABLES
    objService,   \* the service whose objects these are
    objAll,       \* the objects the server has created: their name, and whether they exist
    objLate,      \* names that requests still in the network may create again
    objProfile,   \* Profile::environment
    objPc,        \* of each caller: "idle" or "deleting" (between lookup and delete)
    objCall,      \* its delete: environment and name, allow_missing, and the id that was found
    objTarget,    \* history: the object that its delete has looked up
    objReport     \* what the last step returned, if a call ended: a delete, the object it was about

objVars == <<objService, objAll, objLate, objProfile, objPc, objCall, objTarget, objReport>>

\* environment_name: the environment that is asked for, or else that of the profile.
EnvironmentName(requested) == IF requested # "" THEN requested ELSE objProfile
FullName(requested, name) == <<EnvironmentName(requested), name>>

\* The object with a name, if there is one.
Named(name) == {id \in DOMAIN objAll : objAll[id].name = name /\ objAll[id].exists}
Find(name) == IF Named(name) = {} THEN NoObject ELSE CHOOSE id \in Named(name) : TRUE

NoCall == [name |-> <<"", "">>, allow_missing |-> FALSE, id |-> NoObject]
NotReported == [id |-> NoObject, answer |-> "none"]
-----------------------------------------------------------------------------
ObjServices == {"volume", "secret", "queue", "app", "proxy", "cls", "function"}

ObjInit ==
    /\ objService \in ObjServices
    /\ objAll = <<>> /\ objLate = {}
    /\ objProfile \in Environments
    /\ objPc = [c \in Callers |-> "idle"]
    /\ objCall = [c \in Callers |-> NoCall]
    /\ objTarget = [c \in Callers |-> NoObject]
    /\ objReport = NotReported

ObjAdd(name) ==
    /\ Len(objAll) < MaxObjects
    /\ objAll' = Append(objAll, [name |-> name, exists |-> TRUE])

ObjReports(answer) == objReport' = [id |-> NoObject, answer |-> answer]

(* A request for a name: the server has it, or creates it if that is asked *)
(* for, or has none; or the call returns another error.  A copy of a       *)
(* request to create may be under way then.                                *)
GetOrCreate(c, name, type, missing) ==
    /\ objPc[c] = "idle"
    /\ \/ /\ Named(name) = {} /\ type = CreateIfMissing
          /\ ObjAdd(name)
          /\ \E answer \in {"ok", "Grpc"} : ObjReports(answer)
       \/ /\ \/ Named(name) # {} /\ ObjReports("ok")
             \/ Named(name) = {} /\ type = Unspecified /\ ObjReports(missing)
             \/ ObjReports("Grpc")
          /\ UNCHANGED objAll
    /\ \/ UNCHANGED objLate
       \/ type = CreateIfMissing /\ objLate' = objLate \cup {name}
    /\ UNCHANGED <<objService, objProfile, objPc, objCall, objTarget>>

\* A call that is refused before or after its request.
ObjInvalid(c) ==
    /\ objPc[c] = "idle"
    /\ ObjReports("Invalid")
    /\ UNCHANGED <<objService, objAll, objLate, objProfile, objPc, objCall, objTarget>>

\* from_name of each service, of a full name; of volumes, queues and apps, create_if_missing or not.
CreationTypes == {Unspecified, CreateIfMissing}
VolumeFromName(c, name) == \E type \in CreationTypes : GetOrCreate(c, name, type, "NotFound")
QueueFromName(c, name) == \E type \in CreationTypes : GetOrCreate(c, name, type, "NotFound")
AppFromName(c, name) == \E type \in CreationTypes : GetOrCreate(c, name, type, "NotFound")
SecretFromName(c, name) == GetOrCreate(c, name, Unspecified, "NotFound")

\* A proxy that is missing is one with an empty id, or a NotFound.
ProxyFromName(c, name) == GetOrCreate(c, name, Unspecified, "NotFound")

\* A class whose parameters have another format than that of protobuf is refused when it is found.
ClsFromName(c, name) ==
    \/ GetOrCreate(c, name, Unspecified, "NotFound")
    \/ Named(name) # {} /\ ObjInvalid(c)

\* A name with a dot is refused; a status NotFound is passed on as it is.
FunctionFromName(c, name) == GetOrCreate(c, name, Unspecified, "GrpcNotFound") \/ ObjInvalid(c)

\* The copy arrives.
ObjArrives(name) ==
    /\ name \in objLate
    /\ objLate' = objLate \ {name}
    /\ IF Named(name) = {} THEN ObjAdd(name) ELSE UNCHANGED objAll
    /\ objReport' = NotReported
    /\ UNCHANGED <<objService, objProfile, objPc, objCall, objTarget>>

\* Somebody else creates one, by other means, as all are created that no service creates.
ObjAppears(name) ==
    /\ Named(name) = {} /\ ObjAdd(name)
    /\ objReport' = NotReported
    /\ UNCHANGED <<objService, objLate, objProfile, objPc, objCall, objTarget>>

\* from_map and ephemeral: every execution makes an object without a name, two if it is retried.
ObjEphemeral ==
    /\ objService \in {"volume", "secret", "queue"}
    /\ \E n \in 1..2 :
          /\ Len(objAll) + n <= MaxObjects
          /\ objAll' = objAll \o [x \in 1..n |-> [name |-> <<"", "">>, exists |-> TRUE]]
    /\ objReport' = NotReported
    /\ UNCHANGED <<objService, objLate, objProfile, objPc, objCall, objTarget>>
-----------------------------------------------------------------------------
ObjReturn(c, id, answer) ==
    /\ objPc' = [objPc EXCEPT ![c] = "idle"]
    /\ objCall' = [objCall EXCEPT ![c] = NoCall]
    /\ objTarget' = [objTarget EXCEPT ![c] = NoObject]
    /\ objReport' = [id |-> id, answer |-> answer]

\* The errors that allow_missing makes up for: those that say NotFound.
Tolerates(error) == error \in {"NotFound", "GrpcNotFound"}

AnswerTo(error, allow_missing) == IF Tolerates(error) /\ allow_missing THEN "ok" ELSE error

\* delete looks the name up, without creating it.
ObjLookup(c, name, allow_missing) ==
    /\ objPc[c] = "idle"
    /\ LET found == Find(name)
       IN  \/ /\ found # NoObject
              /\ objPc' = [objPc EXCEPT ![c] = "deleting"]
              /\ objCall' = [objCall EXCEPT ![c] =
                     [name |-> name, allow_missing |-> allow_missing, id |-> found]]
              /\ objTarget' = [objTarget EXCEPT ![c] = found]
              /\ objReport' = NotReported
           \/ found = NoObject /\ ObjReturn(c, found, AnswerTo("NotFound", allow_missing))
           \/ ObjReturn(c, found, AnswerTo("Grpc", allow_missing))
    /\ UNCHANGED <<objService, objAll, objLate, objProfile>>

\* What delete sends: the id it found; and the name, which another object may have by now.
TargetByName(call) == Find(call.name)
Target(call) == call.id

Removed(id) == IF id \in DOMAIN objAll THEN [objAll EXCEPT ![id].exists = FALSE] ELSE objAll

(* delete by id: executed, perhaps again, and answered by the first        *)
(* execution, by a second one, or with an error; or not executed.          *)
DeleteReplies(id) ==
    (IF id \in DOMAIN objAll /\ objAll[id].exists THEN {"ok"} ELSE {}) \cup {"GrpcNotFound", "Grpc"}

ObjDelete(c) ==
    /\ objPc[c] = "deleting"
    /\ LET call == objCall[c]
           id == Target(call)
       IN  \/ /\ objAll' = Removed(id)
              /\ \E reply \in DeleteReplies(id) :
                    ObjReturn(c, objTarget[c], IF reply = "ok" THEN reply ELSE AnswerTo(reply, call.allow_missing))
           \/ /\ ObjReturn(c, objTarget[c], AnswerTo("Grpc", call.allow_missing))
              /\ UNCHANGED objAll
    /\ UNCHANGED <<objService, objLate, objProfile>>

\* delete of each service.
VolumeDelete(c, name) == (\E allow \in BOOLEAN : ObjLookup(c, name, allow)) \/ ObjDelete(c)
SecretDelete(c, name) == (\E allow \in BOOLEAN : ObjLookup(c, name, allow)) \/ ObjDelete(c)
QueueDelete(c, name) == (\E allow \in BOOLEAN : ObjLookup(c, name, allow)) \/ ObjDelete(c)
-----------------------------------------------------------------------------
\* The operations of each service on a name.
VolumeService(c, name) == objService = "volume" /\ (VolumeFromName(c, name) \/ VolumeDelete(c, name))
SecretService(c, name) == objService = "secret" /\ (SecretFromName(c, name) \/ SecretDelete(c, name))
QueueService(c, name) == objService = "queue" /\ (QueueFromName(c, name) \/ QueueDelete(c, name))
AppService(c, name) == objService = "app" /\ AppFromName(c, name)
ProxyService(c, name) == objService = "proxy" /\ ProxyFromName(c, name)
ClsService(c, name) == objService = "cls" /\ ClsFromName(c, name)
FunctionService(c, name) == objService = "function" /\ FunctionFromName(c, name)

ObjNext ==
    \/ \E c \in Callers, requested \in Environments \cup {""}, n \in ObjectNames :
          LET name == FullName(requested, n)
          IN  \/ VolumeService(c, name) \/ SecretService(c, name) \/ QueueService(c, name)
              \/ AppService(c, name) \/ ProxyService(c, name) \/ ClsService(c, name)
              \/ FunctionService(c, name)
    \/ ObjEphemeral
    \/ \E name \in Environments \X ObjectNames : ObjArrives(name) \/ ObjAppears(name)

ObjSpec == ObjInit /\ [][ObjNext]_objVars
-----------------------------------------------------------------------------
ObjTypeOK ==
    /\ objAll \in Seq([name : (Environments \X ObjectNames) \cup {<<"", "">>}, exists : BOOLEAN])
    /\ objLate \subseteq Environments \X ObjectNames
    /\ objService \in ObjServices /\ objProfile \in Environments
    /\ \A c \in Callers :
          /\ objPc[c] = "deleting" <=> objCall[c] # NoCall
          /\ objCall[c].id \in (DOMAIN objAll) \cup {NoObject}
    /\ objReport.id \in (DOMAIN objAll) \cup {NoObject}
    /\ objReport.answer \in {"none", "ok"} \cup ObjErrors

(* A delete that returned Ok has deleted the object that had the name when *)
(* it began, and one that reported NotFound found none or one that is gone *)
(* now: an error that says nothing about the object is never taken for     *)
(* its absence (volume.rs:172-199, secret.rs:124-154, queue.rs:272-303).   *)
DeleteKeepsItsWord ==
    objReport.id # NoObject /\ objReport.answer \in {"ok", "NotFound", "GrpcNotFound"} =>
        ~objAll[objReport.id].exists

(* A delete removes the object it has looked up and no other one, also     *)
(* when the name was given to a new object in between, by a client or by a *)
(* request that was delayed (volume.rs:190).                               *)
OnlyWhatWasFound ==
    [][\A id \in DOMAIN objAll :
          objAll[id].exists /\ ~objAll'[id].exists => \E c \in Callers : objTarget[c] = id]_objVars
=============================================================================
