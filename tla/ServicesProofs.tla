--------------------------- MODULE ServicesProofs ---------------------------
(***************************************************************************)
(* Proofs about the parts that share no state, for any number of callers,  *)
(* objects, attempts and layers of options, and any values of them.        *)
(***************************************************************************)
EXTENDS Services, SequenceTheorems, TLAPS

LEMMA ModOfSmall == ASSUME NEW u \in Nat, NEW n \in 0..(u - 1) PROVE n % u = n
OBVIOUS
LEMMA ModInRange == ASSUME NEW u \in Nat, u > 0, NEW n \in Int PROVE n % u \in 0..(u - 1)
OBVIOUS
-----------------------------------------------------------------------------
(* Objects with names. *)
Names == Environments \X ObjectNames
ObjRecords == [name : Names \cup {<<"", "">>}, exists : BOOLEAN]
ObjAnswers == {"none", "ok"} \cup ObjErrors

ObjTyped ==
    /\ objAll \in Seq(ObjRecords)
    /\ objLate \subseteq Names
    /\ objService \in ObjServices /\ objProfile \in Environments
    /\ objPc \in [Callers -> {"idle", "deleting"}]
    /\ objCall \in [Callers -> [name : Names \cup {<<"", "">>}, allow_missing : BOOLEAN, id : Nat]]
    /\ objTarget \in [Callers -> Nat]
    /\ objReport \in [id : Nat, answer : ObjAnswers]
    /\ objReport.id \in (DOMAIN objAll) \cup {NoObject}

\* A delete that is under way is about the object its lookup found; without one there is no target.
ObjTargets ==
    \A c \in Callers :
        /\ objPc[c] = "deleting" => objCall[c].id \in DOMAIN objAll /\ objTarget[c] = objCall[c].id
        /\ objPc[c] = "idle" => objCall[c] = NoCall /\ objTarget[c] = NoObject

ObjInv == ObjTyped /\ ObjTargets /\ DeleteKeepsItsWord

\* No object is gone but for the one that a delete has looked up.
OnlyTargets ==
    \A id \in DOMAIN objAll : objAll[id].exists /\ ~objAll'[id].exists => \E c \in Callers : objTarget[c] = id

\* The server's objects only become more.
ObjGrows ==
    /\ objAll' \in Seq(ObjRecords)
    /\ DOMAIN objAll \subseteq DOMAIN objAll'
    /\ \A id \in DOMAIN objAll : objAll'[id] = objAll[id]

LEMMA Appending ==
    ASSUME objAll \in Seq(ObjRecords), NEW more \in Seq(ObjRecords), objAll' = objAll \o more
    PROVE  ObjGrows
<1>1. objAll \o more \in Seq(ObjRecords) /\ Len(objAll \o more) = Len(objAll) + Len(more)
  BY ConcatProperties
<1>2. \A k \in 1..Len(objAll) : (objAll \o more)[k] = objAll[k]
  BY ConcatProperties
<1>3. Len(objAll) \in Nat /\ Len(more) \in Nat /\ DOMAIN objAll = 1..Len(objAll)
  BY LenProperties
<1>4. DOMAIN (objAll \o more) = 1..(Len(objAll) + Len(more))
  BY <1>1, LenProperties
<1>5. 1..Len(objAll) \subseteq 1..(Len(objAll) + Len(more))
  BY <1>3
<1> QED
  BY <1>1, <1>2, <1>3, <1>4, <1>5 DEF ObjGrows

LEMMA Adding ==
    ASSUME objAll \in Seq(ObjRecords), NEW name \in Names, ObjAdd(name)
    PROVE  ObjGrows
<1> DEFINE o == [name |-> name, exists |-> TRUE]
<1>1. o \in ObjRecords
  BY DEF ObjRecords
<1>2. objAll' = objAll \o <<o>> /\ <<o>> \in Seq(ObjRecords)
  <2>1. objAll' = Append(objAll, o)
    BY DEF ObjAdd
  <2> HIDE DEF o
  <2>2. Append(objAll, o) = objAll \o <<o>>
    BY <1>1, AppendIsConcat
  <2> QED
    BY <1>1, <2>1, <2>2
<1> QED
  BY <1>2, Appending

\* A step of a caller that is not deleting, or of the server, with a report about no object.
LEMMA GrowingKeeps ==
    ASSUME ObjInv, ObjGrows, objLate' \subseteq Names, NEW answer \in ObjAnswers,
           objReport' = [id |-> NoObject, answer |-> answer],
           UNCHANGED <<objService, objProfile, objPc, objCall, objTarget>>
    PROVE  ObjInv' /\ OnlyTargets
<1>1. ObjTyped'
  BY DEF ObjInv, ObjTyped, ObjGrows, NoObject
<1>2. ObjTargets'
  BY DEF ObjInv, ObjTargets, ObjGrows
<1>3. DeleteKeepsItsWord'
  BY DEF DeleteKeepsItsWord, NoObject
<1>4. OnlyTargets
  BY DEF OnlyTargets, ObjGrows
<1> QED
  BY <1>1, <1>2, <1>3, <1>4 DEF ObjInv

LEMMA StayingGrows == ASSUME ObjInv, UNCHANGED objAll PROVE ObjGrows
BY DEF ObjInv, ObjTyped, ObjGrows

LEMMA GetOrCreateKeeps ==
    ASSUME ObjInv, NEW c \in Callers, NEW name \in Names, NEW type,
           NEW missing \in {"NotFound", "GrpcNotFound"}, GetOrCreate(c, name, type, missing)
    PROVE  ObjInv' /\ OnlyTargets
<1>1. objLate' \subseteq Names
  BY DEF ObjInv, ObjTyped, GetOrCreate
<1>2. \E answer \in ObjAnswers : objReport' = [id |-> NoObject, answer |-> answer]
  BY DEF GetOrCreate, ObjReports, ObjAnswers, ObjErrors
<1>3. UNCHANGED <<objService, objProfile, objPc, objCall, objTarget>>
  BY DEF GetOrCreate
<1>4. ObjAdd(name) \/ UNCHANGED objAll
  BY DEF GetOrCreate
<1>5. objAll \in Seq(ObjRecords)
  BY DEF ObjInv, ObjTyped
<1>6. ObjGrows
  BY <1>4, <1>5, Adding, StayingGrows
<1> QED
  BY <1>1, <1>2, <1>3, <1>6, GrowingKeeps

LEMMA InvalidKeeps ==
    ASSUME ObjInv, NEW c \in Callers, ObjInvalid(c)
    PROVE  ObjInv' /\ OnlyTargets
<1>1. objReport' = [id |-> NoObject, answer |-> "Invalid"] /\ "Invalid" \in ObjAnswers
  BY DEF ObjInvalid, ObjReports, ObjAnswers, ObjErrors
<1>2. UNCHANGED <<objService, objProfile, objPc, objCall, objTarget, objAll>> /\ objLate' \subseteq Names
  BY DEF ObjInvalid, ObjInv, ObjTyped
<1> QED
  BY <1>1, <1>2, StayingGrows, GrowingKeeps

LEMMA ServerKeeps ==
    ASSUME ObjInv, NEW name \in Names, ObjArrives(name) \/ ObjAppears(name)
    PROVE  ObjInv' /\ OnlyTargets
<1>1. objReport' = [id |-> NoObject, answer |-> "none"] /\ "none" \in ObjAnswers
  BY DEF ObjArrives, ObjAppears, NotReported, ObjAnswers
<1>2. UNCHANGED <<objService, objProfile, objPc, objCall, objTarget>> /\ objLate' \subseteq Names
  BY DEF ObjArrives, ObjAppears, ObjInv, ObjTyped
<1>3. ObjAdd(name) \/ UNCHANGED objAll
  BY DEF ObjArrives, ObjAppears
<1>4. objAll \in Seq(ObjRecords)
  BY DEF ObjInv, ObjTyped
<1>5. ObjGrows
  BY <1>3, <1>4, Adding, StayingGrows
<1> QED
  BY <1>1, <1>2, <1>5, GrowingKeeps

LEMMA EphemeralKeeps ==
    ASSUME ObjInv, ObjEphemeral
    PROVE  ObjInv' /\ OnlyTargets
<1> DEFINE o == [name |-> <<"", "">>, exists |-> TRUE]
<1>1. objReport' = [id |-> NoObject, answer |-> "none"] /\ "none" \in ObjAnswers
  BY DEF ObjEphemeral, NotReported, ObjAnswers
<1>2. UNCHANGED <<objService, objProfile, objPc, objCall, objTarget>> /\ objLate' \subseteq Names
  BY DEF ObjEphemeral, ObjInv, ObjTyped
<1>3. o \in ObjRecords
  BY DEF ObjRecords
<1>4. PICK n \in 1..2 : objAll' = objAll \o [x \in 1..n |-> o]
  BY DEF ObjEphemeral
<1>5. [x \in 1..n |-> o] \in Seq(ObjRecords)
  <2> HIDE DEF o
  <2>1. [x \in 1..n |-> o] \in [1..n -> ObjRecords] /\ n \in Nat
    BY <1>3
  <2> QED
    BY <2>1, SeqDef
<1>6. objAll \in Seq(ObjRecords)
  BY DEF ObjInv, ObjTyped
<1>7. ObjGrows
  BY <1>4, <1>5, <1>6, Appending
<1> QED
  BY <1>1, <1>2, <1>7, GrowingKeeps

LEMMA FindFinds ==
    ASSUME ObjInv, NEW name, Find(name) # NoObject
    PROVE  Find(name) \in DOMAIN objAll /\ Find(name) \in Nat
<1>1. Find(name) \in DOMAIN objAll
  BY DEF Find, Named
<1>2. DOMAIN objAll = 1..Len(objAll)
  BY LenProperties DEF ObjInv, ObjTyped
<1> QED
  BY <1>1, <1>2

LEMMA LookupKeeps ==
    ASSUME ObjInv, NEW c \in Callers, NEW name \in Names, NEW allow \in BOOLEAN, ObjLookup(c, name, allow)
    PROVE  ObjInv' /\ OnlyTargets
<1>1. UNCHANGED <<objService, objAll, objLate, objProfile>>
  BY DEF ObjLookup
<1>2. OnlyTargets
  BY <1>1 DEF OnlyTargets
<1>3. Find(name) = NoObject \/ (Find(name) \in DOMAIN objAll /\ Find(name) \in Nat)
  BY FindFinds
<1> DEFINE found == Find(name)
           call == [name |-> name, allow_missing |-> allow, id |-> found]
<1>4. CASE /\ found # NoObject
           /\ objPc' = [objPc EXCEPT ![c] = "deleting"]
           /\ objCall' = [objCall EXCEPT ![c] = call]
           /\ objTarget' = [objTarget EXCEPT ![c] = found]
           /\ objReport' = NotReported
  <2>1. call \in [name : Names \cup {<<"", "">>}, allow_missing : BOOLEAN, id : Nat] /\ call.id = found
    BY <1>3, <1>4
  <2>2. ObjTyped'
    BY <1>1, <1>3, <1>4, <2>1 DEF ObjInv, ObjTyped, NotReported, NoObject, ObjAnswers
  <2>3. ObjTargets'
    <3> SUFFICES ASSUME NEW d \in Callers
                 PROVE  /\ objPc'[d] = "deleting" => objCall'[d].id \in DOMAIN objAll' /\ objTarget'[d] = objCall'[d].id
                        /\ objPc'[d] = "idle" => objCall'[d] = NoCall /\ objTarget'[d] = NoObject
      BY DEF ObjTargets
    <3>1. CASE d = c
      <4>1. objPc'[c] = "deleting" /\ objCall'[c] = call /\ objTarget'[c] = found
        BY <1>4 DEF ObjInv, ObjTyped
      <4> QED
        BY <3>1, <4>1, <2>1, <1>3, <1>4, <1>1
    <3>2. CASE d # c
      <4>1. objPc'[d] = objPc[d] /\ objCall'[d] = objCall[d] /\ objTarget'[d] = objTarget[d]
        BY <1>4, <3>2 DEF ObjInv, ObjTyped
      <4> QED
        BY <4>1, <1>1 DEF ObjInv, ObjTargets
    <3> QED
      BY <3>1, <3>2
  <2>4. DeleteKeepsItsWord'
    BY <1>4 DEF DeleteKeepsItsWord, NotReported
  <2> QED
    BY <1>2, <2>2, <2>3, <2>4 DEF ObjInv
<1>5. ASSUME NEW answer \in ObjAnswers, ObjReturn(c, found, answer),
             found = NoObject \/ answer = "Grpc"
      PROVE  ObjInv' /\ OnlyTargets
  <2>1. ObjTyped'
    <3>1. NoCall \in [name : Names \cup {<<"", "">>}, allow_missing : BOOLEAN, id : Nat]
      BY DEF NoCall, NoObject
    <3>2. found \in Nat /\ found \in (DOMAIN objAll) \cup {NoObject}
      BY <1>3 DEF NoObject
    <3>3. /\ objPc' \in [Callers -> {"idle", "deleting"}]
          /\ objCall' \in [Callers -> [name : Names \cup {<<"", "">>}, allow_missing : BOOLEAN, id : Nat]]
          /\ objTarget' \in [Callers -> Nat]
      BY <1>5, <3>1 DEF ObjInv, ObjTyped, ObjReturn, NoObject
    <3>4. objReport' \in [id : Nat, answer : ObjAnswers] /\ objReport'.id = found
      BY <1>5, <3>2 DEF ObjReturn
    <3> HIDE DEF found
    <3> QED
      BY <1>1, <3>2, <3>3, <3>4 DEF ObjInv, ObjTyped
  <2>2. ObjTargets'
    <3> SUFFICES ASSUME NEW d \in Callers
                 PROVE  /\ objPc'[d] = "deleting" => objCall'[d].id \in DOMAIN objAll' /\ objTarget'[d] = objCall'[d].id
                        /\ objPc'[d] = "idle" => objCall'[d] = NoCall /\ objTarget'[d] = NoObject
      BY DEF ObjTargets
    <3>1. CASE d = c
      <4>1. objPc'[c] = "idle" /\ objCall'[c] = NoCall /\ objTarget'[c] = NoObject
        BY <1>5 DEF ObjInv, ObjTyped, ObjReturn
      <4> QED
        BY <3>1, <4>1
    <3>2. CASE d # c
      <4>1. objPc'[d] = objPc[d] /\ objCall'[d] = objCall[d] /\ objTarget'[d] = objTarget[d]
        BY <1>5, <3>2 DEF ObjInv, ObjTyped, ObjReturn
      <4> QED
        BY <4>1, <1>1 DEF ObjInv, ObjTargets
    <3> QED
      BY <3>1, <3>2
  <2>3. DeleteKeepsItsWord'
    BY <1>5 DEF DeleteKeepsItsWord, ObjReturn
  <2> QED
    BY <1>2, <2>1, <2>2, <2>3 DEF ObjInv
<1>6. CASE found = NoObject /\ ObjReturn(c, found, AnswerTo("NotFound", allow))
  <2>1. AnswerTo("NotFound", allow) \in ObjAnswers
    BY DEF AnswerTo, Tolerates, ObjAnswers, ObjErrors
  <2> QED
    BY <1>5, <1>6, <2>1
<1>7. CASE ObjReturn(c, found, AnswerTo("Grpc", allow))
  <2>1. AnswerTo("Grpc", allow) = "Grpc" /\ "Grpc" \in ObjAnswers
    BY DEF AnswerTo, Tolerates, ObjAnswers, ObjErrors
  <2>2. ObjReturn(c, found, "Grpc")
    BY <1>7, <2>1
  <2> QED
    BY <1>5, <2>1, <2>2
<1> QED
  BY <1>4, <1>6, <1>7 DEF ObjLookup

LEMMA DeleteKeeps ==
    ASSUME ObjInv, NEW c \in Callers, ObjDelete(c)
    PROVE  ObjInv' /\ OnlyTargets
<1> DEFINE call == objCall[c]
           id == objTarget[c]
<1>1. UNCHANGED <<objService, objLate, objProfile>>
  BY DEF ObjDelete
<1>2. id \in DOMAIN objAll /\ Target(call) = id /\ id \in Nat /\ call.allow_missing \in BOOLEAN
  BY DEF ObjDelete, ObjInv, ObjTyped, ObjTargets, Target
<1>3. objAll \in Seq(ObjRecords) /\ DOMAIN objAll = 1..Len(objAll)
  BY LenProperties DEF ObjInv, ObjTyped
<1> DEFINE gone == [objAll[id] EXCEPT !.exists = FALSE]
<1>4. /\ Removed(id) = [objAll EXCEPT ![id] = gone]
      /\ gone \in ObjRecords /\ ~gone.exists
  <2>1. objAll[id] \in ObjRecords
    BY <1>2, <1>3, ElementOfSeq
  <2>2. gone \in ObjRecords /\ ~gone.exists
    BY <2>1 DEF ObjRecords
  <2> QED
    BY <1>2, <2>2 DEF Removed
<1>5. PICK answer \in ObjAnswers :
        /\ ObjReturn(c, id, answer)
        /\ objAll' = Removed(id) \/ (objAll' = objAll /\ answer = "Grpc")
  <2>1. CASE /\ objAll' = Removed(id)
             /\ \E reply \in DeleteReplies(id) :
                  ObjReturn(c, id, IF reply = "ok" THEN reply ELSE AnswerTo(reply, call.allow_missing))
    <3>1. PICK reply \in DeleteReplies(id) :
              ObjReturn(c, id, IF reply = "ok" THEN reply ELSE AnswerTo(reply, call.allow_missing))
      BY <2>1
    <3>2. reply \in {"ok", "GrpcNotFound", "Grpc"}
      BY DEF DeleteReplies
    <3>3. (IF reply = "ok" THEN reply ELSE AnswerTo(reply, call.allow_missing)) \in ObjAnswers
      BY <3>2 DEF AnswerTo, ObjAnswers, ObjErrors
    <3> QED
      BY <2>1, <3>1, <3>3
  <2>2. CASE ObjReturn(c, id, AnswerTo("Grpc", call.allow_missing)) /\ UNCHANGED objAll
    BY <2>2 DEF AnswerTo, Tolerates, ObjAnswers, ObjErrors
  <2> QED
    BY <1>2, <2>1, <2>2 DEF ObjDelete
<1>6. /\ objAll' \in Seq(ObjRecords) /\ DOMAIN objAll' = DOMAIN objAll
      /\ \A k \in DOMAIN objAll : k # id => objAll'[k] = objAll[k]
      /\ answer # "Grpc" => ~objAll'[id].exists
  <2>1. CASE objAll' = objAll /\ answer = "Grpc"
    BY <1>3, <2>1
  <2>2. CASE objAll' = Removed(id)
    <3> HIDE DEF gone, id
    <3>1. objAll' = [objAll EXCEPT ![id] = gone]
      BY <1>4, <2>2
    <3>2. objAll' \in Seq(ObjRecords)
      BY <1>2, <1>3, <1>4, <3>1, ExceptSeq
    <3> QED
      BY <1>2, <1>4, <3>1, <3>2
  <2> QED
    BY <1>5, <2>1, <2>2
<1>7. ObjTyped'
  <2>1. NoCall \in [name : Names \cup {<<"", "">>}, allow_missing : BOOLEAN, id : Nat]
    BY DEF NoCall, NoObject
  <2> QED
    BY <1>1, <1>2, <1>5, <1>6, <2>1 DEF ObjInv, ObjTyped, ObjReturn, NoObject
<1>8. ObjTargets'
  <2> SUFFICES ASSUME NEW d \in Callers
               PROVE  /\ objPc'[d] = "deleting" => objCall'[d].id \in DOMAIN objAll' /\ objTarget'[d] = objCall'[d].id
                      /\ objPc'[d] = "idle" => objCall'[d] = NoCall /\ objTarget'[d] = NoObject
    BY DEF ObjTargets
  <2>1. CASE d = c
    <3>1. objPc'[c] = "idle" /\ objCall'[c] = NoCall /\ objTarget'[c] = NoObject
      BY <1>5 DEF ObjInv, ObjTyped, ObjReturn
    <3> QED
      BY <2>1, <3>1
  <2>2. CASE d # c
    <3>1. objPc'[d] = objPc[d] /\ objCall'[d] = objCall[d] /\ objTarget'[d] = objTarget[d]
      BY <1>5, <2>2 DEF ObjInv, ObjTyped, ObjReturn
    <3> QED
      BY <3>1, <1>6 DEF ObjInv, ObjTargets
  <2> QED
    BY <2>1, <2>2
<1>9. DeleteKeepsItsWord'
  BY <1>5, <1>6 DEF DeleteKeepsItsWord, ObjReturn
<1>10. OnlyTargets
  BY <1>6 DEF OnlyTargets
<1> QED
  BY <1>7, <1>8, <1>9, <1>10 DEF ObjInv

LEMMA ObjStep ==
    ASSUME ObjInv, [ObjNext]_objVars
    PROVE  ObjInv' /\ [OnlyTargets]_objVars
<1>1. CASE UNCHANGED objVars
  BY <1>1 DEF objVars, ObjInv, ObjTyped, ObjTargets, DeleteKeepsItsWord
<1>2. ASSUME NEW c \in Callers, NEW name \in Names,
             VolumeService(c, name) \/ SecretService(c, name) \/ QueueService(c, name)
      PROVE  ObjInv' /\ OnlyTargets
  <2>1. \/ \E type : \E missing \in {"NotFound", "GrpcNotFound"} : GetOrCreate(c, name, type, missing)
        \/ \E allow \in BOOLEAN : ObjLookup(c, name, allow)
        \/ ObjDelete(c)
    BY <1>2 DEF VolumeService, SecretService, QueueService, VolumeFromName, SecretFromName, QueueFromName,
                VolumeDelete, SecretDelete, QueueDelete
  <2> QED
    BY <2>1, GetOrCreateKeeps, LookupKeeps, DeleteKeeps
<1>3. ASSUME NEW c \in Callers, NEW name \in Names,
             AppService(c, name) \/ ProxyService(c, name) \/ ClsService(c, name) \/ FunctionService(c, name)
      PROVE  ObjInv' /\ OnlyTargets
  <2>1. \/ \E type : \E missing \in {"NotFound", "GrpcNotFound"} : GetOrCreate(c, name, type, missing)
        \/ ObjInvalid(c)
    BY <1>3 DEF AppService, ProxyService, ClsService, FunctionService, AppFromName, ProxyFromName,
                ClsFromName, FunctionFromName
  <2> QED
    BY <2>1, GetOrCreateKeeps, InvalidKeeps
<1>4. CASE ObjNext
  <2>1. ASSUME NEW requested \in Environments \cup {""}, NEW n \in ObjectNames
        PROVE  FullName(requested, n) \in Names
    BY <2>1 DEF ObjInv, ObjTyped, FullName, EnvironmentName, Names
  <2>2. ASSUME NEW c \in Callers, NEW requested \in Environments \cup {""}, NEW n \in ObjectNames,
               \/ VolumeService(c, FullName(requested, n)) \/ SecretService(c, FullName(requested, n))
               \/ QueueService(c, FullName(requested, n)) \/ AppService(c, FullName(requested, n))
               \/ ProxyService(c, FullName(requested, n)) \/ ClsService(c, FullName(requested, n))
               \/ FunctionService(c, FullName(requested, n))
        PROVE  ObjInv' /\ OnlyTargets
    BY <1>2, <1>3, <2>1, <2>2
  <2>3. ASSUME NEW name \in Environments \X ObjectNames, ObjArrives(name) \/ ObjAppears(name)
        PROVE  ObjInv' /\ OnlyTargets
    BY <2>3, ServerKeeps DEF Names
  <2> QED
    BY <1>4, <2>2, <2>3, EphemeralKeeps DEF ObjNext
<1> QED
  BY <1>1, <1>4

LEMMA ObjInitInv == ASSUME ObjInit PROVE ObjInv
<1>1. NoCall \in [name : Names \cup {<<"", "">>}, allow_missing : BOOLEAN, id : Nat]
  BY DEF NoCall, NoObject
<1>2. NotReported \in [id : Nat, answer : ObjAnswers] /\ NotReported.id = NoObject
  BY DEF NotReported, NoObject, ObjAnswers
<1>3. ObjTyped
  <2>1. <<>> \in Seq(ObjRecords)
    BY EmptySeq
  <2>2. [c \in Callers |-> NoCall] \in [Callers -> [name : Names \cup {<<"", "">>}, allow_missing : BOOLEAN, id : Nat]]
    BY <1>1
  <2> QED
    BY <1>1, <1>2, <2>1, <2>2 DEF ObjInit, ObjTyped, NoObject
<1>4. ObjTargets
  BY DEF ObjInit, ObjTargets
<1>5. DeleteKeepsItsWord
  BY <1>2 DEF ObjInit, DeleteKeepsItsWord
<1> QED
  BY <1>3, <1>4, <1>5 DEF ObjInv

(* The types of the objects, and that a delete under way is about the      *)
(* object its lookup found.                                                *)
THEOREM ObjInvariant == ObjSpec => []ObjInv
<1>1. ObjInit => ObjInv
  BY ObjInitInv
<1>2. ObjInv /\ [ObjNext]_objVars => ObjInv'
  BY ObjStep
<1> QED
  BY <1>1, <1>2, PTL DEF ObjSpec

LEMMA ObjTypes == ASSUME ObjInv PROVE ObjTypeOK
<1>1. \A c \in Callers : (objPc[c] = "deleting" <=> objCall[c] # NoCall) /\ objCall[c].id \in (DOMAIN objAll) \cup {NoObject}
  <2> SUFFICES ASSUME NEW c \in Callers
               PROVE  (objPc[c] = "deleting" <=> objCall[c] # NoCall) /\ objCall[c].id \in (DOMAIN objAll) \cup {NoObject}
    OBVIOUS
  <2>1. DOMAIN objAll = 1..Len(objAll)
    BY LenProperties DEF ObjInv, ObjTyped
  <2>2. NoObject \notin DOMAIN objAll /\ NoCall.id = NoObject
    BY <2>1 DEF NoObject, NoCall
  <2>3. objPc[c] \in {"idle", "deleting"}
    BY DEF ObjInv, ObjTyped
  <2> QED
    BY <2>2, <2>3 DEF ObjInv, ObjTargets
<1> QED
  BY <1>1 DEF ObjInv, ObjTyped, ObjTypeOK, ObjRecords, Names, ObjAnswers

(* The types of the objects, the deletes under way and their reports, for  *)
(* any number of callers, names, environments and objects.                 *)
THEOREM ObjectsTyped == ObjSpec => []ObjTypeOK
<1>1. ObjInv => ObjTypeOK
  BY ObjTypes
<1> QED
  BY <1>1, ObjInvariant, PTL

(* A delete that returned Ok has deleted the object that had the name when *)
(* it began, and one that reported NotFound found none or one that is gone *)
(* now: volume.rs:172-199, secret.rs:124-154, queue.rs:272-303.            *)
THEOREM DeletesAreTrue == ObjSpec => []DeleteKeepsItsWord
<1>1. ObjInv => DeleteKeepsItsWord
  BY DEF ObjInv
<1> QED
  BY <1>1, ObjInvariant, PTL

(* A delete removes the object it has looked up and no other one, also     *)
(* when another one has its name by then: volume.rs:190.                   *)
THEOREM DeletesOnlyWhatWasFound == ObjSpec => OnlyWhatWasFound
<1>1. ObjInv /\ [ObjNext]_objVars => [OnlyTargets]_objVars
  BY ObjStep
<1>2. [OnlyTargets]_objVars =>
          [\A id \in DOMAIN objAll :
              objAll[id].exists /\ ~objAll'[id].exists => \E c \in Callers : objTarget[c] = id]_objVars
  BY DEF OnlyTargets
<1> QED
  BY <1>1, <1>2, ObjInvariant, PTL DEF ObjSpec, OnlyWhatWasFound
-----------------------------------------------------------------------------
(* Attempts of the input plane. *)
\* The caller holds the token of the latest attempt, and has no answer while a call is under way.
AttTokens ==
    /\ attToken = attLatest
    /\ attPc # "idle" => attAnswer = NoAnswer
    /\ attPc = "polling" => attToken # NoToken

AttTyped ==
    /\ attTries \in Seq(AttResults \cup {"running"}) /\ Len(attTries) <= MaxTries
    /\ attToken \in 0..Len(attTries) /\ attLatest \in 0..Len(attTries)
    /\ attPc \in {"idle", "starting", "retrying", "polling"}
    /\ attLeft \in Nat \cup {NoTimeout} /\ attPoll \in 0..OutputsTimeout
    /\ attAnswer \in [try : 0..Len(attTries), result : AttResults \cup {"none", "expired"}]

AttInv == AttTyped /\ AttTokens /\ AwaitsTheLatestAttempt

LEMMA PollForBounds ==
    ASSUME NEW left \in Nat \cup {NoTimeout}
    PROVE  PollFor(left) \in 0..OutputsTimeout /\ (left # NoTimeout => PollFor(left) <= left)
BY InputPlaneAssumption DEF PollFor, NoTimeout

LEMMA NoAnswerTyped == NoAnswer.try = NoToken /\ \A n \in Nat : NoAnswer \in [try : 0..n, result : AttResults \cup {"none", "expired"}]
BY DEF NoAnswer, NoToken

LEMMA TryTypes ==
    ASSUME AttTyped
    PROVE  /\ Len(attTries) \in Nat /\ DOMAIN attTries = 1..Len(attTries)
           /\ \A try \in 1..Len(attTries) : attTries[try] \in AttResults \cup {"running"}
<1>1. attTries \in Seq(AttResults \cup {"running"})
  BY DEF AttTyped
<1> QED
  BY <1>1, LenProperties, ElementOfSeq

\* The calls that leave the attempts alone and the token as it is.
LEMMA AttCallKeeps == ASSUME AttInv, AttCreate \/ AttRetry PROVE AttInv'
<1>1. AttTyped'
  BY NoAnswerTyped, TryTypes DEF AttInv, AttTyped, AttCreate, AttRetry, AttCall, attTimers
<1>2. AttTokens'
  BY DEF AttInv, AttTokens, AttCreate, AttRetry, AttCall
<1>3. AwaitsTheLatestAttempt'
  BY DEF AttInv, AwaitsTheLatestAttempt, AttCreate, AttRetry, AttCall, attTimers
<1> QED
  BY <1>1, <1>2, <1>3 DEF AttInv

LEMMA AttServerKeeps ==
    ASSUME AttInv, AttStarts \/ \E try \in DOMAIN attTries, result \in AttResults : AttEnds(try, result)
    PROVE  AttInv'
<1> DEFINE S == AttResults \cup {"running"}
<1>1. /\ attTries \in Seq(S) /\ Len(attTries) \in Nat /\ DOMAIN attTries = 1..Len(attTries)
  BY TryTypes DEF AttInv, AttTyped
<1>2. UNCHANGED <<attToken, attPc, attLeft, attPoll, attLatest, attAnswer>>
  BY DEF AttStarts, AttEnds, attTimers
<1>3. attTries' \in Seq(S) /\ Len(attTries') <= MaxTries /\ Len(attTries') \in Nat /\ Len(attTries) <= Len(attTries')
  <2>1. CASE AttStarts
    <3>1. "running" \in S /\ attTries' = Append(attTries, "running") /\ Len(attTries) < MaxTries /\ MaxTries \in Nat
      BY <2>1, InputPlaneAssumption DEF AttStarts
    <3>2. Append(attTries, "running") \in Seq(S) /\ Len(Append(attTries, "running")) = Len(attTries) + 1
      <4> HIDE DEF S
      <4> QED
        BY <1>1, <3>1, AppendProperties
    <3> QED
      BY <1>1, <3>1, <3>2
  <2>2. ASSUME NEW try \in DOMAIN attTries, NEW result \in AttResults, AttEnds(try, result)
        PROVE  attTries' \in Seq(S) /\ Len(attTries') = Len(attTries)
    <3>1. attTries' = [attTries EXCEPT ![try] = result] /\ result \in S /\ try \in 1..Len(attTries)
      BY <1>1, <2>2 DEF AttEnds
    <3> HIDE DEF S
    <3> QED
      BY <1>1, <3>1, ExceptSeq
  <2>3. Len(attTries) <= MaxTries
    BY DEF AttInv, AttTyped
  <2> QED
    BY <1>1, <2>1, <2>2, <2>3
<1>4. AttTyped'
  <2>1. \A n : n \in 0..Len(attTries) => n \in 0..Len(attTries')
    BY <1>1, <1>3
  <2>2. attAnswer.try \in 0..Len(attTries') /\ attAnswer = [try |-> attAnswer.try, result |-> attAnswer.result]
    BY <2>1 DEF AttInv, AttTyped
  <2>3. attAnswer \in [try : 0..Len(attTries'), result : AttResults \cup {"none", "expired"}]
    BY <2>2 DEF AttInv, AttTyped
  <2> QED
    BY <1>2, <1>3, <2>1, <2>3 DEF AttInv, AttTyped
<1>5. AttTokens'
  BY <1>2 DEF AttInv, AttTokens
<1>6. AwaitsTheLatestAttempt'
  BY <1>2 DEF AttInv, AwaitsTheLatestAttempt
<1> QED
  BY <1>4, <1>5, <1>6 DEF AttInv

LEMMA AttStartedKeeps ==
    ASSUME AttInv, AttStartFails \/ \E try \in DOMAIN attTries : AttStarted(try)
    PROVE  AttInv'
<1>1. /\ attPc \in {"starting", "retrying"} /\ attPc' = "idle"
      /\ UNCHANGED <<attTries, attLeft, attPoll, attAnswer>>
  BY DEF AttStartFails, AttStarted, attTimers
<1>2. attToken' = attLatest' /\ attToken' \in 0..Len(attTries)
  BY TryTypes DEF AttInv, AttTyped, AttTokens, AttStartFails, AttStarted, TokenAfter
<1>3. AttTyped'
  BY <1>1, <1>2 DEF AttInv, AttTyped
<1>4. AttTokens'
  BY <1>1, <1>2 DEF AttInv, AttTokens
<1>5. AwaitsTheLatestAttempt'
  BY <1>1 DEF AttInv, AttTokens, AwaitsTheLatestAttempt
<1> QED
  BY <1>3, <1>4, <1>5 DEF AttInv

LEMMA AttAwaitKeeps ==
    ASSUME AttInv, NEW timeout \in AwaitTimeouts \cup {NoTimeout}, AttAwait(timeout)
    PROVE  AttInv'
<1>1. timeout \in Nat \cup {NoTimeout}
  BY InputPlaneAssumption
<1>2. AttTyped'
  BY <1>1, PollForBounds, NoAnswerTyped, TryTypes DEF AttInv, AttTyped, AttAwait
<1>3. AttTokens'
  BY DEF AttInv, AttTokens, AttAwait
<1>4. AwaitsTheLatestAttempt'
  BY <1>1, PollForBounds DEF AwaitsTheLatestAttempt, AttAwait
<1> QED
  BY <1>2, <1>3, <1>4 DEF AttInv

LEMMA AttReturnKeeps ==
    ASSUME AttInv, NEW result \in AttResults \cup {"expired"}, AttReturns(result),
           UNCHANGED <<attTries, attToken, attLatest>>
    PROVE  AttInv'
<1>1. AttTyped'
  BY InputPlaneAssumption DEF AttInv, AttTyped, AttReturns
<1>2. AttTokens'
  BY DEF AttInv, AttTokens, AttReturns
<1>3. AwaitsTheLatestAttempt'
  BY DEF AttInv, AttTokens, AwaitsTheLatestAttempt, AttReturns
<1> QED
  BY <1>1, <1>2, <1>3 DEF AttInv

LEMMA AttPollKeeps ==
    ASSUME AttInv, AttOutput \/ AttNothing \/ AttAwaitFails \/ AttTick
    PROVE  AttInv'
<1>1. CASE AttOutput
  <2>1. attTries[attToken] \in AttResults
    BY <1>1, TryTypes DEF AttInv, AttTyped, AttTokens, AttOutput, NoToken
  <2> QED
    BY <1>1, <2>1, AttReturnKeeps DEF AttOutput
<1>2. CASE AttNothing
  <2>1. CASE attLeft = 0
    BY <1>2, <2>1, AttReturnKeeps DEF AttNothing
  <2>2. CASE attLeft # 0
    <3>1. attPoll' = PollFor(attLeft) /\ UNCHANGED <<attPc, attLeft, attAnswer, attTries, attToken, attLatest>>
      BY <1>2, <2>2 DEF AttNothing
    <3>2. AttTyped'
      BY <3>1, PollForBounds DEF AttInv, AttTyped
    <3>3. AttTokens'
      BY <3>1 DEF AttInv, AttTokens
    <3>4. AwaitsTheLatestAttempt'
      BY <3>1, PollForBounds DEF AttInv, AttTyped, AwaitsTheLatestAttempt
    <3> QED
      BY <3>2, <3>3, <3>4 DEF AttInv
  <2> QED
    BY <2>1, <2>2
<1>3. CASE AttAwaitFails
  <2>1. "error" \in AttResults
    BY DEF AttResults
  <2> QED
    BY <1>3, <2>1, AttReturnKeeps DEF AttAwaitFails
<1>4. CASE AttTick
  <2>1. /\ attPoll' \in 0..OutputsTimeout /\ attLeft' \in Nat \cup {NoTimeout}
        /\ attLeft' # NoTimeout => attPoll' <= attLeft'
    BY <1>4, InputPlaneAssumption DEF AttInv, AttTyped, AwaitsTheLatestAttempt, AttTick, NoTimeout
  <2>2. UNCHANGED <<attTries, attToken, attPc, attLatest, attAnswer>>
    BY <1>4 DEF AttTick
  <2>3. AttTyped'
    BY <2>1, <2>2 DEF AttInv, AttTyped
  <2>4. AttTokens'
    BY <2>2 DEF AttInv, AttTokens
  <2>5. AwaitsTheLatestAttempt'
    BY <2>1, <2>2 DEF AttInv, AwaitsTheLatestAttempt
  <2> QED
    BY <2>3, <2>4, <2>5 DEF AttInv
<1> QED
  BY <1>1, <1>2, <1>3, <1>4

LEMMA AttInitInv == ASSUME AttInit PROVE AttInv
<1>1. attTries \in Seq(AttResults \cup {"running"}) /\ Len(attTries) = 0
  BY EmptySeq DEF AttInit
<1>2. AttTyped
  BY <1>1, NoAnswerTyped, InputPlaneAssumption DEF AttInit, AttTyped, NoToken
<1> QED
  BY <1>2 DEF AttInit, AttInv, AttTokens, AwaitsTheLatestAttempt

LEMMA AttStep == ASSUME AttInv, [AttNext]_attVars PROVE AttInv'
<1>1. CASE AttNext
  BY <1>1, AttCallKeeps, AttServerKeeps, AttStartedKeeps, AttAwaitKeeps, AttPollKeeps DEF AttNext
<1>2. CASE UNCHANGED attVars
  BY <1>2 DEF attVars, AttInv, AttTyped, AttTokens, AwaitsTheLatestAttempt
<1> QED
  BY <1>1, <1>2

(* The types of attempts, and what a token and an answer are about.        *)
THEOREM AttInvariant == AttSpec => []AttInv
<1>1. AttInit => AttInv
  BY AttInitInv
<1>2. AttInv /\ [AttNext]_attVars => AttInv'
  BY AttStep
<1> QED
  BY <1>1, <1>2, PTL DEF AttSpec

(* What await_output returns is about the attempt of the last answer to    *)
(* create or retry, and a poll ends by the deadline, for any number of     *)
(* attempts and any timeouts: invocation.rs:266-303.                       *)
THEOREM AnswersAreOfTheLatest == AttSpec => []AwaitsTheLatestAttempt
<1>1. AttInv => AwaitsTheLatestAttempt
  BY DEF AttInv
<1> QED
  BY <1>1, AttInvariant, PTL

(* What is left of an await with a timeout: the time to its deadline, and  *)
(* whether the current poll has time left.                                 *)
AttTimeLeft == 2 * attLeft + (IF attPoll = 0 THEN 1 ELSE 0)

AttComesToAnEnd ==
    [][attPc = "polling" /\ attLeft # NoTimeout =>
          \/ attPc' = "idle"
          \/ UNCHANGED <<attPc, attTimers>>
          \/ attPc' = attPc /\ attLeft' # NoTimeout /\ AttTimeLeft' < AttTimeLeft
          \/ attPoll > 0 /\ UNCHANGED <<attPc, attLeft>>]_attVars

LEMMA AttCountsDown ==
    ASSUME AttInv, [AttNext]_attVars, attPc = "polling", attLeft # NoTimeout
    PROVE  \/ attPc' = "idle"
           \/ UNCHANGED <<attPc, attTimers>>
           \/ attPc' = attPc /\ attLeft' # NoTimeout /\ AttTimeLeft' < AttTimeLeft
           \/ attPoll > 0 /\ UNCHANGED <<attPc, attLeft>>
<1>1. attLeft \in Nat /\ attPoll \in Nat /\ attPoll <= attLeft /\ NoTimeout = -1
  BY InputPlaneAssumption DEF AttInv, AttTyped, AwaitsTheLatestAttempt, NoTimeout
<1>2. CASE AttNothing
  <2>1. CASE attLeft = 0
    BY <1>2, <2>1 DEF AttNothing, AttReturns
  <2>2. CASE attLeft # 0
    <3>1. attPoll' = PollFor(attLeft) /\ UNCHANGED <<attPc, attLeft>>
      BY <1>2, <2>2 DEF AttNothing
    <3>2. PollFor(attLeft) > 0
      BY <1>1, <2>2, InputPlaneAssumption DEF PollFor
    <3>3. QED BY <1>1, <3>1, <3>2 DEF AttTimeLeft
  <2>3. QED BY <2>1, <2>2
<1>3. CASE AttTick
  <2>1. attPoll' = (IF attPoll > 0 THEN attPoll - 1 ELSE 0) /\ attPc' = attPc
    BY <1>3 DEF AttTick
  <2>2. attLeft' = attLeft - 1 /\ attLeft > 0
    BY <1>1, <1>3 DEF AttTick
  <2>3. QED BY <1>1, <2>1, <2>2 DEF AttTimeLeft
<1>4. CASE AttOutput \/ AttAwaitFails
  BY <1>4 DEF AttOutput, AttAwaitFails, AttReturns
<1>5. ASSUME NEW try \in DOMAIN attTries, NEW result \in AttResults, AttEnds(try, result)
      PROVE  UNCHANGED <<attPc, attTimers>>
  BY <1>5 DEF AttEnds
<1>6. CASE UNCHANGED attVars
  BY <1>6 DEF attVars, attTimers
<1>7. /\ ~AttCreate /\ ~AttRetry /\ ~AttStarts /\ ~AttStartFails
      /\ ~\E try \in DOMAIN attTries : AttStarted(try)
      /\ ~\E timeout \in AwaitTimeouts \cup {NoTimeout} : AttAwait(timeout)
  BY DEF AttCreate, AttRetry, AttCall, AttStarts, AttStartFails, AttStarted, AttAwait
<1>8. QED BY <1>2, <1>3, <1>4, <1>5, <1>6, <1>7 DEF AttNext

(* await_output with a timeout uses up its time with every tick and every  *)
(* answer but one that comes before the poll's time is up, and is over     *)
(* after it, whatever attempts the server starts and ends meanwhile: what  *)
(* AwaitEnds rests on (invocation.rs:322-341).                             *)
THEOREM AwaitsMoveOn == AttSpec => AttComesToAnEnd
<1>1. AttInv /\ [AttNext]_attVars =>
        [attPc = "polling" /\ attLeft # NoTimeout =>
            \/ attPc' = "idle"
            \/ UNCHANGED <<attPc, attTimers>>
            \/ attPc' = attPc /\ attLeft' # NoTimeout /\ AttTimeLeft' < AttTimeLeft
            \/ attPoll > 0 /\ UNCHANGED <<attPc, attLeft>>]_attVars
  BY AttCountsDown
<1>2. QED BY <1>1, AttInvariant, PTL DEF AttSpec, AttComesToAnEnd
-----------------------------------------------------------------------------
(* Calls with retries and a deadline. *)
\* The retries keep to their limit, and a call that sleeps has one left.
WithinRetries ==
    /\ callOpts.max_retries # NoLimit => callRetries <= callOpts.max_retries
    /\ callPc = "sleeping" /\ callOpts.max_retries # NoLimit => callRetries < callOpts.max_retries

CallInv == CallTypeOK /\ WithinRetries /\ DeadlineIsKept

LEMMA OptionTypes ==
    ASSUME CallTypeOK
    PROVE  /\ callOpts.base_delay \in Nat /\ callOpts.delay_factor \in Nat
           /\ callOpts.max_retries \in Nat \cup {NoLimit} /\ callOpts.deadline \in Nat \cup {NoLimit}
           /\ callOpts.deadline <= MaxTime /\ MaxTime \in Nat
BY CallAssumption DEF CallTypeOK, RetryOptions

LEMMA CallStartKeeps == ASSUME CallInv, CallStart PROVE CallInv'
<1>1. CallTypeOK'
  BY DEF CallInv, CallTypeOK, CallStart, CallReturn
<1>2. WithinRetries'
  BY DEF CallInv, WithinRetries, CallStart, CallReturn
<1>3. DeadlineIsKept'
  <2>1. UNCHANGED <<callOpts, callDelay, callRetries, callLeft, callNow>> /\ callPc' # "sleeping" /\ callPc = "start"
    BY DEF CallStart, CallReturn
  <2>2. callDelay \in Nat /\ callNow \in Nat /\ callOpts.deadline \in Nat \cup {NoLimit} /\ callResult = "none"
    BY <2>1, OptionTypes DEF CallInv, CallTypeOK
  <2>3. CASE Past(callNow)
    <3>1. callResult' = "deadline" /\ callSent' = callSent
      BY <2>3 DEF CallStart, CallReturn, GiveUp
    <3>2. Past(callNow + callDelay)
      BY <2>2, <2>3 DEF Past, NoLimit
    <3> QED
      BY <2>1, <3>1, <3>2 DEF CallInv, DeadlineIsKept, Past, TransientCodes
  <2>4. CASE ~Past(callNow)
    <3>1. callResult' = "none" /\ callSent' = callNow
      BY <2>2, <2>4 DEF CallStart, GiveUp
    <3> QED
      BY <2>1, <2>4, <3>1 DEF DeadlineIsKept, Past, TransientCodes
  <2> QED
    BY <2>3, <2>4
<1> QED
  BY <1>1, <1>2, <1>3 DEF CallInv

LEMMA CallOkKeeps == ASSUME CallInv, CallOk PROVE CallInv'
<1>1. CallTypeOK'
  BY DEF CallInv, CallTypeOK, CallOk, CallReturn
<1>2. WithinRetries'
  BY DEF CallInv, WithinRetries, CallOk, CallReturn
<1>3. DeadlineIsKept'
  BY DEF CallInv, DeadlineIsKept, CallOk, CallReturn, Past, TransientCodes
<1> QED
  BY <1>1, <1>2, <1>3 DEF CallInv

LEMMA CallErrorKeeps == ASSUME CallInv, NEW code \in Codes, CallError(code) PROVE CallInv'
<1>1. /\ callPc = "calling"
      /\ UNCHANGED <<callOpts, callDelay, callRetries, callNow, callClosed, callSent>>
  BY DEF CallError
<1>2. callResult = "none"
  BY <1>1 DEF CallInv, CallTypeOK
<1>3. code \notin {"none", "ok", "deadline", "ClientClosed"}
  BY DEF Codes
<1>4. CASE callClosed /\ code = "Cancelled"
  <2>1. callPc' = "done" /\ callResult' = "ClientClosed" /\ callLeft' = 0
    BY <1>4 DEF CallError, CallReturn
  <2>2. CallTypeOK'
    BY <1>1, <2>1 DEF CallInv, CallTypeOK
  <2>3. WithinRetries' /\ DeadlineIsKept'
    BY <1>1, <2>1 DEF CallInv, WithinRetries, DeadlineIsKept, Past, TransientCodes
  <2> QED
    BY <2>2, <2>3 DEF CallInv
<1>5. CASE ~(callClosed /\ code = "Cancelled") /\ (code \notin TransientCodes \/ RetriesUsedUp)
  <2>1. callPc' = "done" /\ callResult' = code /\ callLeft' = 0
    BY <1>5 DEF CallError, CallReturn
  <2>2. CallTypeOK'
    BY <1>1, <1>3, <2>1 DEF CallInv, CallTypeOK
  <2>3. code \in TransientCodes => callRetries = callOpts.max_retries
    BY <1>5, OptionTypes DEF CallInv, CallTypeOK, WithinRetries, RetriesUsedUp, NoLimit
  <2>4. WithinRetries' /\ DeadlineIsKept'
    BY <1>1, <1>3, <2>1, <2>3 DEF CallInv, WithinRetries, DeadlineIsKept, Past
  <2> QED
    BY <2>2, <2>4 DEF CallInv
<1>6. CASE ~(callClosed /\ code = "Cancelled") /\ ~(code \notin TransientCodes \/ RetriesUsedUp) /\ TooLate
  <2>1. callPc' = "done" /\ callResult' = "deadline" /\ callLeft' = 0
    BY <1>6 DEF CallError, CallReturn
  <2>2. CallTypeOK'
    BY <1>1, <2>1 DEF CallInv, CallTypeOK
  <2>3. WithinRetries' /\ DeadlineIsKept'
    BY <1>1, <1>6, <2>1 DEF CallInv, WithinRetries, DeadlineIsKept, Past, TransientCodes, TooLate
  <2> QED
    BY <2>2, <2>3 DEF CallInv
<1>7. CASE ~(callClosed /\ code = "Cancelled") /\ ~(code \notin TransientCodes \/ RetriesUsedUp) /\ ~TooLate
  <2>1. callPc' = "sleeping" /\ callResult' = "none" /\ callLeft' = callDelay
    BY <1>2, <1>7 DEF CallError
  <2>2. CallTypeOK'
    BY <1>1, <2>1 DEF CallInv, CallTypeOK
  <2>3. callOpts.max_retries # NoLimit => callRetries < callOpts.max_retries
    BY <1>7, OptionTypes DEF CallInv, CallTypeOK, RetriesUsedUp, NoLimit
  <2>4. WithinRetries'
    BY <1>1, <2>3 DEF CallInv, WithinRetries
  <2>5. DeadlineIsKept'
    BY <1>1, <1>7, <2>1 DEF CallInv, DeadlineIsKept, Past, TransientCodes, TooLate
  <2> QED
    BY <2>2, <2>4, <2>5 DEF CallInv
<1> QED
  BY <1>4, <1>5, <1>6, <1>7

LEMMA CallWakeKeeps == ASSUME CallInv, CallWake PROVE CallInv'
<1>1. /\ callPc = "sleeping" /\ callPc' = "start" /\ callRetries' = callRetries + 1
      /\ callDelay' = callDelay * callOpts.delay_factor
      /\ UNCHANGED <<callOpts, callLeft, callNow, callClosed, callSent, callResult>>
  BY DEF CallWake, OneMoreRetry
<1>2. callResult = "none"
  BY <1>1 DEF CallInv, CallTypeOK
<1>3. callDelay \in Nat /\ callOpts.delay_factor \in Nat /\ callRetries \in Nat
  BY OptionTypes DEF CallInv, CallTypeOK
<1>4. callDelay * callOpts.delay_factor \in Nat
  <2>1. \A m, n \in Nat : m * n \in Nat
    OBVIOUS
  <2> QED
    BY <1>3, <2>1
<1>5. CallTypeOK'
  BY <1>1, <1>2, <1>3, <1>4 DEF CallInv, CallTypeOK
<1>6. WithinRetries'
  BY <1>1, <1>3, OptionTypes DEF CallInv, CallTypeOK, WithinRetries, NoLimit
<1>7. DeadlineIsKept'
  BY <1>1, <1>2 DEF CallInv, DeadlineIsKept, Past, TransientCodes
<1> QED
  BY <1>5, <1>6, <1>7 DEF CallInv

LEMMA CallTickKeeps == ASSUME CallInv, CallTick PROVE CallInv'
<1>1. /\ callPc # "done"
      /\ callNow' = IF callNow < MaxTime THEN callNow + 1 ELSE MaxTime
      /\ callLeft' = IF callLeft > 0 THEN callLeft - 1 ELSE 0
      /\ UNCHANGED <<callOpts, callPc, callDelay, callRetries, callClosed, callSent, callResult>>
  BY DEF CallTick
<1>2. callResult = "none"
  BY <1>1 DEF CallInv, CallTypeOK
<1>3. callLeft \in Nat /\ callNow \in 0..MaxTime /\ MaxTime \in Nat
  BY OptionTypes DEF CallInv, CallTypeOK
<1>4. callLeft' \in Nat /\ callNow' \in 0..MaxTime /\ (callLeft' > 0 => callLeft > 0 /\ callNow' + callLeft' <= callNow + callLeft)
  BY <1>1, <1>3
<1>5. CallTypeOK'
  BY <1>1, <1>4 DEF CallInv, CallTypeOK
<1>6. WithinRetries'
  BY <1>1 DEF CallInv, WithinRetries
<1>7. DeadlineIsKept'
  <2>1. callPc = "sleeping" /\ callLeft > 0 => ~Past(callNow + callLeft)
    BY DEF CallInv, DeadlineIsKept
  <2>2. callPc = "sleeping" /\ callLeft' > 0 => ~Past(callNow + callLeft)'
    BY <1>1, <1>3, <1>4, <2>1, OptionTypes DEF CallInv, Past, NoLimit
  <2> QED
    BY <1>1, <1>2, <2>2 DEF CallInv, DeadlineIsKept, Past, TransientCodes
<1> QED
  BY <1>5, <1>6, <1>7 DEF CallInv

LEMMA CallCloseKeeps == ASSUME CallInv, CallClose PROVE CallInv'
<1>1. callClosed' = TRUE /\ UNCHANGED <<callOpts, callPc, callDelay, callRetries, callLeft, callNow, callSent, callResult>>
  BY DEF CallClose
<1>2. CallTypeOK'
  BY <1>1 DEF CallInv, CallTypeOK
<1>3. WithinRetries'
  BY <1>1 DEF CallInv, WithinRetries
<1>4. DeadlineIsKept'
  BY <1>1 DEF CallInv, DeadlineIsKept, Past
<1> QED
  BY <1>2, <1>3, <1>4 DEF CallInv

LEMMA CallInitInv == ASSUME CallInit PROVE CallInv
<1>1. PICK opts \in OptionsUsed : CallBegins(opts, "start", "none")
  BY DEF CallInit
<1>2. opts \in RetryOptions /\ MaxTime \in Nat
  BY CallAssumption
<1>3. opts.base_delay \in Nat /\ opts.max_retries \in Nat \cup {NoLimit}
  BY <1>2 DEF RetryOptions
<1>4. CallTypeOK
  <2>1. /\ callOpts = opts /\ callPc = "start" /\ callResult = "none"
        /\ callDelay \in Nat /\ callRetries = 0 /\ callLeft = 0
        /\ callNow = 0 /\ callClosed = FALSE /\ callSent = Never
    BY <1>1, <1>3 DEF CallBegins
  <2>2. 0 \in 0..MaxTime
    BY <1>2
  <2> QED
    BY <2>1, <2>2 DEF CallTypeOK
<1>5. WithinRetries
  BY <1>1, <1>3 DEF CallBegins, WithinRetries, NoLimit
<1>6. DeadlineIsKept
  BY <1>1 DEF CallBegins, DeadlineIsKept, TransientCodes
<1> QED
  BY <1>4, <1>5, <1>6 DEF CallInv

LEMMA CallStep == ASSUME CallInv, [CallNext]_callVars PROVE CallInv'
<1>1. CASE CallNext
  BY <1>1, CallStartKeeps, CallOkKeeps, CallErrorKeeps, CallWakeKeeps, CallTickKeeps, CallCloseKeeps DEF CallNext
<1>2. CASE UNCHANGED callVars
  BY <1>2 DEF callVars, CallInv, CallTypeOK, WithinRetries, DeadlineIsKept, Past
<1> QED
  BY <1>1, <1>2

(* The types of a call, and that its retries keep to their limit.          *)
THEOREM CallInvariant == CallSpec => []CallInv
<1>1. CallInit => CallInv
  BY CallInitInv
<1>2. CallInv /\ [CallNext]_callVars => CallInv'
  BY CallStep
<1> QED
  BY <1>1, <1>2, PTL DEF CallSpec

(* No request is sent from the deadline on, however long a sleep overran   *)
(* and also when the deadline has passed before the call; no sleep is      *)
(* begun that lasts until it; it is reported only when another request     *)
(* would be too late; and an error is returned only after all retries, for *)
(* any delays, factors, limits and deadlines (task_command_router.rs:56-95). *)
THEOREM DeadlinesAreKept == CallSpec => []DeadlineIsKept
<1>1. CallInv => DeadlineIsKept
  BY DEF CallInv
<1> QED
  BY <1>1, CallInvariant, PTL
\* Nothing is left of a sleep once it is over, and sleeps that begin positive stay so.
CallWaits ==
    /\ callPc # "sleeping" => callLeft = 0
    /\ callOpts.base_delay > 0 /\ callOpts.delay_factor > 0 => callDelay > 0

LEMMA CallWaitsStep == ASSUME CallInv, CallWaits, [CallNext]_callVars PROVE CallWaits'
<1>1. CASE CallStart \/ CallOk \/ CallClose \/ UNCHANGED callVars
  BY <1>1 DEF CallWaits, CallStart, CallOk, CallClose, CallReturn, callVars
<1>2. ASSUME NEW code \in Codes, CallError(code) PROVE CallWaits'
  <2>1. UNCHANGED <<callOpts, callDelay>> /\ callLeft' = IF callPc' = "sleeping" THEN callDelay ELSE 0
    BY <1>2 DEF CallError
  <2>2. QED BY <2>1 DEF CallWaits
<1>3. CASE CallWake
  <2>1. /\ callPc' = "start" /\ callLeft = 0 /\ UNCHANGED <<callOpts, callLeft>>
        /\ callDelay' = callDelay * callOpts.delay_factor
    BY <1>3 DEF CallWake
  <2>2. \A m, n \in Nat : m > 0 /\ n > 0 => m * n > 0
    <3>1. SUFFICES ASSUME NEW m \in Nat, NEW n \in Nat, m > 0, n > 0 PROVE m * n > 0
      OBVIOUS
    <3>2. (m - 1) \in Nat /\ m = (m - 1) + 1
      BY <3>1
    <3>3. PICK k \in Nat : m = k + 1
      BY <3>2
    <3>4. m * n = k * n + n /\ k * n \in Nat
      BY <3>3
    <3>5. QED BY <3>1, <3>4
  <2>3. callDelay \in Nat /\ callOpts.delay_factor \in Nat
    BY OptionTypes DEF CallInv, CallTypeOK
  <2>4. QED BY <2>1, <2>2, <2>3 DEF CallWaits
<1>4. CASE CallTick
  <2>1. UNCHANGED <<callOpts, callPc, callDelay>> /\ callLeft' = IF callLeft > 0 THEN callLeft - 1 ELSE 0
    BY <1>4 DEF CallTick
  <2>2. QED BY <2>1 DEF CallWaits
<1>5. QED BY <1>1, <1>2, <1>3, <1>4 DEF CallNext

LEMMA CallWaitsInvariant == CallSpec => []CallWaits
<1>1. CallInit => CallWaits
  BY DEF CallInit, CallBegins, CallWaits
<1>2. CallInv /\ CallWaits /\ [CallNext]_callVars => CallWaits'
  BY CallWaitsStep
<1>3. QED BY <1>1, <1>2, CallInvariant, PTL DEF CallSpec

(* What is left of a call with a limit on its retries, in steps: the first *)
(* of a try, its answer, and the end of its sleep.                         *)
CallStepsLeft ==
    3 * (callOpts.max_retries - callRetries)
        + (CASE callPc = "start" -> 3 [] callPc = "calling" -> 2 [] callPc = "sleeping" -> 1 [] callPc = "done" -> 0)

(* What is left of a call with a deadline: first the time between the end  *)
(* of its sleep and the deadline, then the steps of its try.               *)
CallTimeLeft ==
    4 * (IF callNow + callLeft < callOpts.deadline THEN callOpts.deadline - (callNow + callLeft) ELSE 0)
        + (CASE callPc = "sleeping" -> 3 [] callPc = "start" -> 2 [] callPc = "calling" -> 1 [] callPc = "done" -> 0)

CallComesToAnEnd ==
    [][/\ callOpts.max_retries # NoLimit /\ callPc' # callPc => CallStepsLeft' < CallStepsLeft
       /\ callOpts.deadline # NoLimit /\ callOpts.base_delay > 0 /\ callOpts.delay_factor > 0 =>
             (callPc' # callPc => CallTimeLeft' < CallTimeLeft) /\ (callPc' = callPc => CallTimeLeft' <= CallTimeLeft)]_callVars

LEMMA CallCountsTries ==
    ASSUME CallInv, [CallNext]_callVars, callOpts.max_retries # NoLimit, callPc' # callPc
    PROVE  CallStepsLeft' < CallStepsLeft
<1>1. callRetries \in Nat /\ callOpts.max_retries \in Nat /\ callRetries <= callOpts.max_retries
  BY OptionTypes DEF CallInv, CallTypeOK, WithinRetries
<1>2. CASE CallStart
  <2>1. callPc = "start" /\ callPc' \in {"calling", "done"} /\ UNCHANGED <<callOpts, callRetries>>
    BY <1>2 DEF CallStart, CallReturn
  <2>2. QED BY <1>1, <2>1 DEF CallStepsLeft
<1>3. CASE CallOk \/ \E code \in Codes : CallError(code)
  <2>1. callPc = "calling" /\ callPc' \in {"sleeping", "done"} /\ UNCHANGED <<callOpts, callRetries>>
    BY <1>3 DEF CallOk, CallError, CallReturn
  <2>2. QED BY <1>1, <2>1 DEF CallStepsLeft
<1>4. CASE CallWake
  <2>1. callPc = "sleeping" /\ callPc' = "start" /\ callOpts' = callOpts /\ callRetries' = callRetries + 1
    BY <1>4 DEF CallWake, OneMoreRetry
  <2>2. QED BY <1>1, <2>1 DEF CallStepsLeft
<1>5. CASE CallTick \/ CallClose \/ UNCHANGED callVars
  BY <1>5 DEF CallTick, CallClose, callVars
<1>6. QED BY <1>2, <1>3, <1>4, <1>5 DEF CallNext

LEMMA CallCountsTime ==
    ASSUME CallInv, CallWaits, [CallNext]_callVars,
           callOpts.deadline # NoLimit, callOpts.base_delay > 0, callOpts.delay_factor > 0
    PROVE  (callPc' # callPc => CallTimeLeft' < CallTimeLeft) /\ (callPc' = callPc => CallTimeLeft' <= CallTimeLeft)
<1>1. /\ callNow \in 0..MaxTime /\ MaxTime \in Nat /\ callLeft \in Nat /\ callDelay \in Nat /\ callDelay > 0
      /\ callOpts.deadline \in Nat /\ callOpts.deadline <= MaxTime
      /\ callPc # "sleeping" => callLeft = 0
  BY OptionTypes DEF CallInv, CallTypeOK, CallWaits
<1>2. CASE CallStart
  <2>1. callPc = "start" /\ callPc' \in {"calling", "done"} /\ UNCHANGED <<callOpts, callNow, callLeft>>
    BY <1>2 DEF CallStart, CallReturn
  <2>2. QED BY <1>1, <2>1 DEF CallTimeLeft
<1>3. ASSUME CallOk \/ (callPc' # "sleeping" /\ \E code \in Codes : CallError(code))
      PROVE  callPc' # callPc /\ CallTimeLeft' < CallTimeLeft
  <2>1. callPc = "calling" /\ callPc' = "done" /\ UNCHANGED <<callOpts, callNow>> /\ callLeft' = 0
    BY <1>1, <1>3 DEF CallOk, CallError, CallReturn
  <2>2. QED BY <1>1, <2>1 DEF CallTimeLeft
<1>4. ASSUME NEW code \in Codes, CallError(code), callPc' = "sleeping"
      PROVE  callPc' # callPc /\ CallTimeLeft' < CallTimeLeft
  <2>1. callPc = "calling" /\ UNCHANGED <<callOpts, callNow>> /\ callLeft' = callDelay
    BY <1>4 DEF CallError
  <2>2. ~TooLate
    BY <1>4 DEF CallError, CallReturn
  <2>3. callNow + callDelay < callOpts.deadline
    BY <1>1, <2>2 DEF TooLate, Past
  <2>4. QED BY <1>1, <1>4, <2>1, <2>3 DEF CallTimeLeft
<1>5. CASE CallWake
  <2>1. callPc = "sleeping" /\ callPc' = "start" /\ UNCHANGED <<callOpts, callNow, callLeft>>
    BY <1>5 DEF CallWake
  <2>2. QED BY <1>1, <2>1 DEF CallTimeLeft
<1>6. CASE CallTick
  <2>1. /\ callPc # "done" /\ UNCHANGED <<callOpts, callPc>>
        /\ callNow' = IF callNow < MaxTime THEN callNow + 1 ELSE MaxTime
        /\ callLeft' = IF callLeft > 0 THEN callLeft - 1 ELSE 0
    BY <1>6 DEF CallTick
  <2>2. callLeft > 0 => callNow + callLeft < callOpts.deadline
    BY <1>1 DEF CallInv, DeadlineIsKept, Past
  <2>3. callNow' + callLeft' >= callNow + callLeft
    BY <1>1, <2>1, <2>2
  <2>4. callNow' \in Nat /\ callLeft' \in Nat
    BY <1>1, <2>1
  <2>5. callPc \in {"start", "calling", "sleeping"}
    BY <2>1 DEF CallInv, CallTypeOK
  <2>6. QED BY <1>1, <2>1, <2>3, <2>4, <2>5 DEF CallTimeLeft
<1>7. CASE CallClose \/ UNCHANGED callVars
  <2>1. UNCHANGED <<callOpts, callPc, callNow, callLeft>>
    BY <1>7 DEF CallClose, callVars
  <2>2. callPc \in {"start", "calling", "sleeping", "done"}
    BY DEF CallInv, CallTypeOK
  <2>3. QED BY <1>1, <2>1, <2>2 DEF CallTimeLeft
<1>8. QED BY <1>2, <1>3, <1>4, <1>5, <1>6, <1>7 DEF CallNext

(* A call with a limit on its retries ends after at most three steps for   *)
(* each try; one with a deadline, and sleeps that are not of zero length,  *)
(* uses up the time to it; what CallEnds rests on, for any options and     *)
(* whenever the client is closed (task_command_router.rs:56-95).           *)
THEOREM CallsMoveOn == CallSpec => CallComesToAnEnd
<1>1. CallInv /\ CallWaits /\ [CallNext]_callVars =>
        [/\ callOpts.max_retries # NoLimit /\ callPc' # callPc => CallStepsLeft' < CallStepsLeft
         /\ callOpts.deadline # NoLimit /\ callOpts.base_delay > 0 /\ callOpts.delay_factor > 0 =>
               (callPc' # callPc => CallTimeLeft' < CallTimeLeft) /\ (callPc' = callPc => CallTimeLeft' <= CallTimeLeft)]_callVars
  BY CallCountsTries, CallCountsTime
<1>2. QED BY <1>1, CallInvariant, CallWaitsInvariant, PTL DEF CallSpec, CallComesToAnEnd
-----------------------------------------------------------------------------
(* Requests. *)
OptionFields == {"cpu", "cpu_limit", "memory", "memory_limit", "gpu", "other"}

\* Every field of an option is an integer, those of memory one that an i32 holds.
AreOptions(o) ==
    /\ DOMAIN o = OptionFields /\ \A f \in OptionFields : o[f] \in Int
    /\ o.memory \in I32 \cup {NotSet} /\ o.memory_limit \in I32 \cup {NotSet}

ReqTyped == reqLayers \in Seq(ReqOptions) /\ AreOptions(reqMerged)

ReqInv == ReqTyped /\ LastOptionWins /\ ReqTypeOK /\ LimitsSurvive

LEMMA FieldsOfOptions == DOMAIN NoOptions = OptionFields /\ \A f \in OptionFields : NoOptions[f] = NotSet
BY DEF NoOptions, OptionFields

LEMMA LayersAreOptions == ASSUME NEW o \in ReqOptions PROVE AreOptions(o)
BY OptionsAssumption, FieldsOfOptions DEF AreOptions

LEMMA NotSetIsInt == NotSet \in Int /\ NotSet < 0
BY DEF NotSet

LEMMA NoOptionsAreOptions == AreOptions(NoOptions)
BY NotSetIsInt DEF AreOptions, NoOptions, OptionFields

LEMMA MergeIsOptions ==
    ASSUME NEW base, NEW new, AreOptions(base), AreOptions(new)
    PROVE  /\ AreOptions(MergeServiceOptions(base, new))
           /\ \A f \in OptionFields :
                 MergeServiceOptions(base, new)[f] = IF new[f] = NotSet THEN base[f] ELSE new[f]
<1> DEFINE merged == MergeServiceOptions(base, new)
<1>1. DOMAIN base = OptionFields
  BY DEF AreOptions
<1>2. DOMAIN merged = OptionFields /\ \A f \in OptionFields : merged[f] = IF new[f] = NotSet THEN base[f] ELSE new[f]
  BY <1>1 DEF MergeServiceOptions
<1>3. \A f \in OptionFields : merged[f] \in Int
  BY <1>2 DEF AreOptions
<1>4. "memory" \in OptionFields /\ "memory_limit" \in OptionFields
  BY DEF OptionFields
<1>5. merged["memory"] \in I32 \cup {NotSet} /\ merged["memory_limit"] \in I32 \cup {NotSet}
  BY <1>2, <1>4 DEF AreOptions
<1> HIDE DEF merged
<1>6. AreOptions(merged)
  BY <1>2, <1>3, <1>5 DEF AreOptions
<1> QED
  BY <1>2, <1>6 DEF merged

\* The conversions keep the order of what they do not cut off, and what they return fits.
LEMMA MilliMonotone ==
    ASSUME NEW m \in Int, NEW n \in Int
    PROVE  Milli(m) \in 0..(U32 - 1) /\ (m <= n => Milli(m) <= Milli(n))
<1>1. U32 \in Nat /\ U32 > 1
  BY RequestAssumption
<1>2. m \div 2 \in Int /\ n \div 2 \in Int /\ (m <= n => m \div 2 <= n \div 2)
  OBVIOUS
<1> DEFINE a == m \div 2
           b == n \div 2
<1>3. a \in Int /\ b \in Int /\ (m <= n => a <= b)
  BY <1>2
<1> HIDE DEF a, b
<1>4. FloatAsU32(a) \in 0..(U32 - 1) /\ (a <= b => FloatAsU32(a) <= FloatAsU32(b))
  BY <1>1, <1>3 DEF FloatAsU32
<1> QED
  BY <1>3, <1>4 DEF Milli, a, b

LEMMA AsU32Fits ==
    ASSUME NEW n \in Int
    PROVE  AsU32(n) \in 0..(U32 - 1) /\ (n \in I32 /\ n >= 0 => AsU32(n) = n)
<1>1. U32 \in Nat /\ U32 > 1
  BY RequestAssumption
<1>2. AsU32(n) \in 0..(U32 - 1)
  BY <1>1, ModInRange DEF AsU32
<1>3. ASSUME n \in I32, n >= 0 PROVE n \in 0..(U32 - 1)
  <2>1. U32 \div 2 \in Int /\ U32 \div 2 <= U32
    BY <1>1
  <2> QED
    BY <1>1, <1>3, <2>1 DEF I32
<1> QED
  BY <1>1, <1>2, <1>3, ModOfSmall DEF AsU32

\* What a request for resources has to be.
FineResources(asked, sent) ==
    /\ sent.kind = "resources"
    /\ \A f \in {"cpu", "cpu_max", "memory", "memory_max", "gpu"} : sent[f] \in 0..(U32 - 1)
    /\ asked.cpu_limit > 0 => sent.cpu_max >= sent.cpu
    /\ asked.memory_limit > 0 => sent.memory_max >= sent.memory

\* What any other request has to be.
FineOther(sent) ==
    /\ sent.kind \in {"refused", "others", "exec", "parameters", "retries", "mount"}
    /\ sent.kind = "retries" => sent.policy.max_retries \in 0..10 /\ sent.policy.max_delay <= 120
    /\ sent.kind = "mount" => (sent.requester_pays => sent.credentials # NoSecret)

LEMMA FineRequests ==
    ASSUME ReqInv, NEW asked, NEW sent, ReqAnswer(asked, sent), FineResources(asked, sent) \/ FineOther(sent)
    PROVE  ReqInv'
<1>1. reqAsked' = asked /\ reqSent' = sent /\ UNCHANGED <<reqLayers, reqMerged>>
  BY DEF ReqAnswer
<1>2. ReqTyped' /\ LastOptionWins'
  BY <1>1 DEF ReqInv, ReqTyped, LastOptionWins
<1>3. ReqTypeOK' /\ LimitsSurvive'
  BY <1>1 DEF ReqInv, ReqTypeOK, LimitsSurvive, FineResources, FineOther
<1> QED
  BY <1>2, <1>3 DEF ReqInv

LEMMA ResourcesFine ==
    ASSUME NEW asked, asked.cpu_limit \in Int, asked.memory_limit \in Int,
           NEW cpu \in 0..(U32 - 1), NEW cpu_max \in 0..(U32 - 1), NEW memory \in 0..(U32 - 1),
           NEW memory_max \in 0..(U32 - 1), NEW gpu \in 0..(U32 - 1),
           asked.cpu_limit > 0 => cpu_max >= cpu, asked.memory_limit > 0 => memory_max >= memory
    PROVE  FineResources(asked, Resources(cpu, cpu_max, memory, memory_max, gpu))
BY DEF FineResources, Resources

LEMMA RefusedIsFine == FineOther(Refused)
BY DEF FineOther, Refused

LEMMA MergeKeeps == ASSUME ReqInv, NEW new \in ReqOptions, ReqMerge(new) PROVE ReqInv'
<1> DEFINE n == Len(reqLayers)
<1>1. reqLayers \in Seq(ReqOptions) /\ n \in Nat /\ DOMAIN reqLayers = 1..n
  BY LenProperties DEF ReqInv, ReqTyped
<1>2. /\ reqMerged' = MergeServiceOptions(reqMerged, new) /\ reqLayers' = Append(reqLayers, new)
      /\ n < MaxMerges /\ UNCHANGED <<reqAsked, reqSent>>
  BY DEF ReqMerge
<1>3. AreOptions(new) /\ AreOptions(reqMerged)
  BY LayersAreOptions DEF ReqInv, ReqTyped
<1>4. /\ AreOptions(reqMerged')
      /\ \A f \in OptionFields : reqMerged'[f] = IF new[f] = NotSet THEN reqMerged[f] ELSE new[f]
  BY <1>2, <1>3, MergeIsOptions
<1>5. /\ reqLayers' \in Seq(ReqOptions) /\ Len(reqLayers') = n + 1
      /\ \A x \in 1..n : reqLayers'[x] = reqLayers[x]
      /\ reqLayers'[n + 1] = new
  BY <1>1, <1>2, AppendProperties
<1>6. DOMAIN reqLayers' = 1..(n + 1)
  BY <1>5, LenProperties
<1>7. LastOptionWins'
  <2> SUFFICES ASSUME NEW f \in OptionFields
               PROVE  LET setters == {x \in DOMAIN reqLayers' : reqLayers'[x][f] # NotSet}
                      IN  IF setters = {} THEN reqMerged'[f] = NotSet
                          ELSE \E x \in setters : reqMerged'[f] = reqLayers'[x][f] /\ \A y \in setters : y <= x
    BY <1>4 DEF LastOptionWins, AreOptions
  <2> DEFINE before == {x \in DOMAIN reqLayers : reqLayers[x][f] # NotSet}
             setters == {x \in DOMAIN reqLayers' : reqLayers'[x][f] # NotSet}
  <2>1. IF before = {} THEN reqMerged[f] = NotSet
        ELSE \E x \in before : reqMerged[f] = reqLayers[x][f] /\ \A y \in before : y <= x
    BY <1>3 DEF ReqInv, LastOptionWins, AreOptions
  <2>2. CASE new[f] = NotSet
    <3>1. setters = before /\ \A x \in before : reqLayers'[x] = reqLayers[x]
      BY <1>1, <1>5, <1>6, <2>2
    <3>2. reqMerged'[f] = reqMerged[f]
      BY <1>4, <2>2
    <3> HIDE DEF setters, before
    <3>3. IF setters = {} THEN reqMerged'[f] = NotSet
          ELSE \E x \in setters : reqMerged'[f] = reqLayers'[x][f] /\ \A y \in setters : y <= x
      BY <2>1, <3>1, <3>2
    <3> QED
      BY <3>3 DEF setters
  <2>3. CASE new[f] # NotSet
    <3>1. n + 1 \in setters /\ reqMerged'[f] = reqLayers'[n + 1][f]
      BY <1>1, <1>4, <1>5, <1>6, <2>3
    <3>2. \A y \in setters : y <= n + 1
      BY <1>1, <1>6
    <3> QED
      BY <3>1, <3>2
  <2> QED
    BY <2>2, <2>3
<1>8. ReqTypeOK'
  <2>1. DOMAIN reqMerged' = DOMAIN NoOptions
    BY <1>4, FieldsOfOptions DEF AreOptions
  <2>2. Len(reqLayers') <= MaxMerges
    BY <1>1, <1>2, <1>5, RequestAssumption
  <2> QED
    BY <1>2, <2>1, <2>2 DEF ReqInv, ReqTypeOK
<1>9. LimitsSurvive'
  BY <1>2 DEF ReqInv, LimitsSurvive
<1> QED
  BY <1>4, <1>5, <1>7, <1>8, <1>9 DEF ReqInv, ReqTyped

LEMMA ClassKeeps == ASSUME ReqInv, ReqClass PROVE ReqInv'
<1> DEFINE o == reqMerged
<1>1. ReqAnswer(o, FunctionOptions(o)) /\ AreOptions(o)
  BY DEF ReqClass, ReqInv, ReqTyped
<1> HIDE DEF o
<1>2. /\ o.cpu \in Int /\ o.cpu_limit \in Int /\ o.memory \in I32 \cup {NotSet} /\ o.memory_limit \in I32 \cup {NotSet}
      /\ o.memory \in Int /\ o.memory_limit \in Int
  BY <1>1 DEF AreOptions, OptionFields
<1>3. CASE FunctionOptions(o) \in {Refused, [kind |-> "others"]}
  BY <1>1, <1>3, RefusedIsFine, FineRequests DEF FineOther
<1>4. CASE /\ ~BadPair(o.cpu, o.cpu_limit) /\ ~BadPair(o.memory, o.memory_limit)
           /\ FunctionOptions(o) = Resources(Milli(OrZero(o.cpu)), Milli(OrZero(o.cpu_limit)),
                                             AsU32(OrZero(o.memory)), AsU32(OrZero(o.memory_limit)), 0)
  <2>1. /\ OrZero(o.cpu) \in Int /\ OrZero(o.cpu_limit) \in Int
        /\ OrZero(o.memory) \in Int /\ OrZero(o.memory_limit) \in Int
    BY <1>2 DEF OrZero
  <2>2. /\ Milli(OrZero(o.cpu)) \in 0..(U32 - 1) /\ Milli(OrZero(o.cpu_limit)) \in 0..(U32 - 1)
        /\ AsU32(OrZero(o.memory)) \in 0..(U32 - 1) /\ AsU32(OrZero(o.memory_limit)) \in 0..(U32 - 1)
        /\ 0 \in 0..(U32 - 1)
    BY <2>1, MilliMonotone, AsU32Fits, RequestAssumption
  <2>3. o.cpu_limit > 0 => Milli(OrZero(o.cpu_limit)) >= Milli(OrZero(o.cpu))
    <3> SUFFICES ASSUME o.cpu_limit > 0 PROVE Milli(OrZero(o.cpu_limit)) >= Milli(OrZero(o.cpu))
      OBVIOUS
    <3>1. OrZero(o.cpu) <= OrZero(o.cpu_limit)
      BY <1>2, <1>4, NotSetIsInt DEF BadPair, OrZero
    <3>2. Milli(OrZero(o.cpu)) <= Milli(OrZero(o.cpu_limit))
      BY <2>1, <3>1, MilliMonotone
    <3> QED
      BY <2>2, <3>2
  <2>4. o.memory_limit > 0 => AsU32(OrZero(o.memory_limit)) >= AsU32(OrZero(o.memory))
    <3> SUFFICES ASSUME o.memory_limit > 0 PROVE AsU32(OrZero(o.memory_limit)) >= AsU32(OrZero(o.memory))
      OBVIOUS
    <3>1. /\ o.memory # NotSet /\ o.memory_limit # NotSet /\ o.memory > 0 /\ o.memory <= o.memory_limit
      BY <1>2, <1>4, NotSetIsInt DEF BadPair
    <3>2. o.memory \in I32 /\ o.memory_limit \in I32 /\ OrZero(o.memory) = o.memory /\ OrZero(o.memory_limit) = o.memory_limit
      BY <1>2, <3>1 DEF OrZero
    <3>3. AsU32(o.memory) = o.memory /\ AsU32(o.memory_limit) = o.memory_limit
      BY <1>2, <3>1, <3>2, AsU32Fits
    <3> QED
      BY <1>2, <3>1, <3>2, <3>3
  <2>5. FineResources(o, FunctionOptions(o))
    BY <1>2, <1>4, <2>2, <2>3, <2>4, ResourcesFine
  <2> QED
    BY <1>1, <2>5, FineRequests
<1> QED
  BY <1>3, <1>4 DEF FunctionOptions

LEMMA SandboxKeeps == ASSUME ReqInv, NEW p \in ReqSandboxes, ReqSandbox(p) PROVE ReqInv'
<1>1. /\ p.cpu \in Int /\ p.cpu_limit \in Int /\ p.gpu \in Int /\ p.memory \in I32 /\ p.memory_limit \in I32
  BY OptionsAssumption
<1>2. p.memory \in Int /\ p.memory_limit \in Int
  BY <1>1, RequestAssumption DEF I32
<1>3. CASE ReqAnswer(p, Refused)
  BY <1>3, RefusedIsFine, FineRequests
<1>4. CASE /\ ~SandboxRefused(p) /\ (p.gpu = NotSet \/ SandboxGpu(p.gpu) # NotSet)
           /\ ReqAnswer(p, SandboxResources(p))
  <2> DEFINE Sent(n) == IF n > 0 THEN n ELSE 0
  <2>1. SandboxResources(p) = Resources(Milli(Sent(p.cpu)), Milli(Sent(p.cpu_limit)),
                                        AsU32(Sent(p.memory)), AsU32(Sent(p.memory_limit)), OrZero(p.gpu))
    BY DEF SandboxResources
  <2>2. /\ Sent(p.cpu) \in Int /\ Sent(p.cpu_limit) \in Int /\ Sent(p.memory) \in Int /\ Sent(p.memory_limit) \in Int
    BY <1>1, <1>2
  <2>3. /\ p.cpu_limit > 0 => Sent(p.cpu) <= Sent(p.cpu_limit)
        /\ p.memory_limit > 0 => Sent(p.memory) <= Sent(p.memory_limit)
    BY <1>1, <1>2, <1>4 DEF SandboxRefused
  <2>4. /\ Sent(p.memory) \in I32 /\ Sent(p.memory) >= 0 /\ Sent(p.memory_limit) \in I32 /\ Sent(p.memory_limit) >= 0
    <3>1. 0 \in I32
      <4>1. U32 \in Nat /\ U32 > 1
        BY RequestAssumption
      <4>2. U32 \div 2 \in Int /\ U32 \div 2 >= 1
        BY <4>1
      <4> QED
        BY <4>2 DEF I32
    <3> QED
      BY <1>1, <1>2, <3>1
  <2>5. OrZero(p.gpu) \in 0..(U32 - 1)
    BY <1>1, <1>4, RequestAssumption DEF OrZero, SandboxGpu
  <2> HIDE DEF Sent
  <2>6. /\ Milli(Sent(p.cpu)) \in 0..(U32 - 1) /\ Milli(Sent(p.cpu_limit)) \in 0..(U32 - 1)
        /\ AsU32(Sent(p.memory)) \in 0..(U32 - 1) /\ AsU32(Sent(p.memory_limit)) \in 0..(U32 - 1)
    BY <2>2, MilliMonotone, AsU32Fits
  <2>7. p.cpu_limit > 0 => Milli(Sent(p.cpu_limit)) >= Milli(Sent(p.cpu))
    <3>1. p.cpu_limit > 0 => Milli(Sent(p.cpu)) <= Milli(Sent(p.cpu_limit))
      BY <2>2, <2>3, MilliMonotone
    <3> QED
      BY <2>6, <3>1
  <2>8. p.memory_limit > 0 => AsU32(Sent(p.memory_limit)) >= AsU32(Sent(p.memory))
    <3>1. AsU32(Sent(p.memory)) = Sent(p.memory) /\ AsU32(Sent(p.memory_limit)) = Sent(p.memory_limit)
      BY <2>2, <2>4, AsU32Fits
    <3> QED
      BY <2>2, <2>3, <3>1
  <2>9. FineResources(p, SandboxResources(p))
    BY <1>1, <1>2, <2>1, <2>5, <2>6, <2>7, <2>8, ResourcesFine
  <2> QED
    BY <1>4, <2>9, FineRequests
<1> QED
  BY <1>3, <1>4 DEF ReqSandbox, ReqUnmerged

LEMMA GpuKeeps == ASSUME ReqInv, NEW count \in 0..(2 * U32), ReqGpu(count) PROVE ReqInv'
<1> DEFINE asked == [NoOptions EXCEPT !.gpu = count]
<1>1. asked.cpu_limit = NotSet /\ asked.memory_limit = NotSet
  BY DEF NoOptions
<1> HIDE DEF asked
<1>2. U32 \in Nat /\ U32 > 1 /\ count \in Int
  BY RequestAssumption
<1>3. CASE ReqAnswer(asked, Refused)
  BY <1>3, RefusedIsFine, FineRequests
<1>4. CASE ParseGpuConfig(count) # NotSet /\ ReqAnswer(asked, Resources(0, 0, 0, 0, ParseGpuConfig(count)))
  <2>1. ParseGpuConfig(count) \in 0..(U32 - 1) /\ 0 \in 0..(U32 - 1)
    BY <1>2, <1>4, AsU32Fits DEF ParseGpuConfig
  <2>2. FineResources(asked, Resources(0, 0, 0, 0, ParseGpuConfig(count)))
    BY <1>1, <2>1, NotSetIsInt, ResourcesFine
  <2> QED
    BY <1>4, <2>2, FineRequests
<1> QED
  BY <1>3, <1>4 DEF ReqGpu, ReqUnmerged, asked

LEMMA OtherKeeps ==
    ASSUME ReqInv,
           \/ \E timeout \in ReqTimeouts : ReqExec(timeout)
           \/ \E schema \in ReqSchemas, values \in ReqValues : ReqParameters(schema, values)
           \/ \E policy \in ReqPolicies : ReqRetries(policy)
           \/ \E mount \in ReqMounts : ReqMount(mount)
    PROVE  ReqInv'
<1>1. ASSUME NEW timeout, ReqExec(timeout) PROVE ReqInv'
  <2> DEFINE sent == IF timeout % 2 # 0 THEN Refused
                     ELSE [kind |-> "exec", timeout |-> IF timeout = 0 THEN NotSet ELSE AsU32(timeout \div 2)]
  <2>1. ReqAnswer([NoOptions EXCEPT !.other = timeout], sent)
    BY <1>1 DEF ReqExec, ReqUnmerged
  <2>2. FineOther(sent)
    BY DEF FineOther, Refused
  <2> QED
    BY <2>1, <2>2, FineRequests
<1>2. ASSUME NEW schema, NEW values, ReqParameters(schema, values) PROVE ReqInv'
  <2>1. ReqAnswer([schema |-> schema, values |-> values], EncodeParameterSet(schema, values))
    BY <1>2 DEF ReqParameters, ReqUnmerged
  <2>2. EncodeParameterSet(schema, values) = Refused \/ EncodeParameterSet(schema, values).kind = "parameters"
    BY DEF EncodeParameterSet
  <2>3. FineOther(EncodeParameterSet(schema, values))
    BY <2>2, RefusedIsFine DEF FineOther
  <2> QED
    BY <2>1, <2>3, FineRequests
<1>3. ASSUME NEW policy, ReqRetries(policy) PROVE ReqInv'
  <2> DEFINE retries == Retries(policy)
             sent == IF RetriesRefused(retries) THEN Refused ELSE [kind |-> "retries", policy |-> retries]
  <2>1. ReqAnswer(policy, sent)
    BY <1>3 DEF ReqRetries, ReqUnmerged
  <2> HIDE DEF retries
  <2>2. ~RetriesRefused(retries) => retries.max_retries \in 0..10 /\ retries.max_delay <= 120
    BY DEF RetriesRefused
  <2>3. FineOther(sent)
    BY <2>2, RefusedIsFine DEF FineOther
  <2> QED
    BY <2>1, <2>3, FineRequests
<1>4. ASSUME NEW mount, ReqMount(mount) PROVE ReqInv'
  <2> DEFINE sent == IF MountRefused(mount) THEN Refused ELSE MountProto(mount)
  <2>1. ReqAnswer(mount, sent)
    BY <1>4 DEF ReqMount, ReqUnmerged
  <2>2. FineOther(sent)
    BY RefusedIsFine DEF FineOther, MountRefused, MountProto
  <2> QED
    BY <2>1, <2>2, FineRequests
<1> QED
  BY <1>1, <1>2, <1>3, <1>4

LEMMA ReqInitInv == ASSUME ReqInit PROVE ReqInv
<1>1. reqLayers \in Seq(ReqOptions) /\ Len(reqLayers) = 0 /\ DOMAIN reqLayers = {}
  BY EmptySeq DEF ReqInit
<1>2. ReqTyped
  BY <1>1, NoOptionsAreOptions DEF ReqInit, ReqTyped
<1>3. LastOptionWins
  BY <1>1, FieldsOfOptions DEF ReqInit, LastOptionWins
<1>4. ReqTypeOK /\ LimitsSurvive
  BY <1>1, RequestAssumption DEF ReqInit, ReqTypeOK, LimitsSurvive, Refused
<1> QED
  BY <1>2, <1>3, <1>4 DEF ReqInv

LEMMA ReqStep == ASSUME ReqInv, [ReqNext]_reqVars PROVE ReqInv'
<1>1. CASE ReqNext
  BY <1>1, MergeKeeps, ClassKeeps, SandboxKeeps, GpuKeeps, OtherKeeps DEF ReqNext
<1>2. CASE UNCHANGED reqVars
  BY <1>2 DEF reqVars, ReqInv, ReqTyped, LastOptionWins, ReqTypeOK, LimitsSurvive
<1> QED
  BY <1>1, <1>2

(* The types of the options and of the requests made of them.              *)
THEOREM ReqInvariant == ReqSpec => []ReqInv
<1>1. ReqInit => ReqInv
  BY ReqInitInv
<1>2. ReqInv /\ [ReqNext]_reqVars => ReqInv'
  BY ReqStep
<1> QED
  BY <1>1, <1>2, PTL DEF ReqSpec

(* However many layers of options are merged, each field has the value of  *)
(* the last layer that set it: cls.rs:228-270.                             *)
THEOREM LastOptionsWin == ReqSpec => []LastOptionWins
<1>1. ReqInv => LastOptionWins
  BY DEF ReqInv
<1> QED
  BY <1>1, ReqInvariant, PTL

(* No limit is lost or falls below its request in the checks and the       *)
(* conversions, for any parameters of the widths that the code declares:   *)
(* sandbox.rs:192-225, transport.rs:993-1022, cls.rs:137-205.              *)
THEOREM LimitsAlwaysSurvive == ReqSpec => []LimitsSurvive
<1>1. ReqInv => LimitsSurvive
  BY DEF ReqInv
<1> QED
  BY <1>1, ReqInvariant, PTL
-----------------------------------------------------------------------------
(* The configuration of a client. *)
FieldValues == {Empty} \cup CfgValues

\* What get_profile makes of a field, from the variable as it was read; and what ClientParams make of it.
Resolved(f) == FirstNonEmpty(Sources(f, cfgSeen[f]))
Overridden(f) == IF f \in Overrides THEN FirstNonEmpty(<<cfgParams[f], Resolved(f)>>) ELSE Resolved(f)

CfgTyped ==
    /\ cfgPc \in {"file", "fields", "params", "channel", "client", "connected", "built", "failed"}
    /\ cfgFile \in CfgFiles
    /\ cfgEnv \in [Fields -> FieldValues] /\ cfgChanged \in 0..CfgChanges
    /\ cfgSeen \in Seq(FieldValues) /\ cfgProfile \in Seq(FieldValues \cup {Default})
    /\ Len(cfgProfile) = Len(cfgSeen) /\ Len(cfgSeen) <= Len(CfgFields)

\* The raw profile is that of a candidate, if there is one; the variables are read one by one.
RawIsChosen ==
    IF Candidates = {} THEN cfgRaw = NoProfile ELSE \E n \in Candidates : cfgRaw = cfgFile.profiles[n]

CfgReads ==
    /\ cfgPc = "file" => Len(cfgSeen) = 0
    /\ cfgPc = "fields" => Len(cfgSeen) < Len(CfgFields)
    /\ cfgPc \in {"params", "channel", "client", "connected"} => Len(cfgSeen) = Len(CfgFields)
    /\ cfgPc \in {"fields", "params", "channel", "client", "connected"} => RawIsChosen

CfgResolves ==
    /\ cfgPc \in {"fields", "params"} => \A f \in 1..Len(cfgSeen) : cfgProfile[f] = Resolved(f)
    /\ cfgPc \in {"channel", "client", "connected"} => \A f \in Fields : cfgProfile[f] = Overridden(f)
    /\ cfgPc = "connected" => ~MissingCredentials(cfgProfile)

CfgInv == CfgTyped /\ CfgReads /\ CfgResolves

\* first_non_empty of two and of three values.
LEMMA FirstOfTwo == ASSUME NEW a, NEW b PROVE FirstNonEmpty(<<a, b>>) = IF a # Empty THEN a ELSE b
<1> DEFINE values == <<a, b>>
           filled == {x \in DOMAIN values : values[x] # Empty}
           first == CHOOSE x \in filled : \A y \in filled : x <= y
<1>1. DOMAIN values = 1..2 /\ values[1] = a /\ values[2] = b
  OBVIOUS
<1>2. \A x \in filled : x \in 1..2
  BY <1>1
<1>3. FirstNonEmpty(values) = IF filled = {} THEN Empty ELSE values[first]
  BY DEF FirstNonEmpty
<1>4. CASE a # Empty
  <2>1. 1 \in filled
    BY <1>1, <1>4
  <2>2. first = 1
    <3> HIDE DEF filled
    <3>1. \E x \in filled : \A y \in filled : x <= y
      BY <1>2, <2>1
    <3>2. first \in filled /\ first <= 1
      BY <3>1, <2>1
    <3> QED
      BY <1>2, <3>2
  <2> QED
    BY <1>1, <1>3, <1>4, <2>1, <2>2
<1>5. CASE a = Empty /\ b # Empty
  <2>1. filled = {2}
    BY <1>1, <1>5
  <2>2. first = 2
    BY <2>1
  <2> QED
    BY <1>1, <1>3, <1>5, <2>1, <2>2
<1>6. CASE a = Empty /\ b = Empty
  <2>1. filled = {}
    BY <1>1, <1>6
  <2> QED
    BY <1>3, <1>6, <2>1
<1> QED
  BY <1>4, <1>5, <1>6

LEMMA FirstOfThree ==
    ASSUME NEW a, NEW b, NEW c
    PROVE  FirstNonEmpty(<<a, b, c>>) = IF a # Empty THEN a ELSE IF b # Empty THEN b ELSE c
<1> DEFINE values == <<a, b, c>>
           filled == {x \in DOMAIN values : values[x] # Empty}
           first == CHOOSE x \in filled : \A y \in filled : x <= y
<1>1. DOMAIN values = 1..3 /\ values[1] = a /\ values[2] = b /\ values[3] = c
  OBVIOUS
<1>2. \A x \in filled : x \in 1..3
  BY <1>1
<1>3. FirstNonEmpty(values) = IF filled = {} THEN Empty ELSE values[first]
  BY DEF FirstNonEmpty
<1>4. ASSUME NEW k \in filled, \A y \in filled : k <= y PROVE first = k
  <2> HIDE DEF filled
  <2>1. first \in filled /\ first <= k /\ k <= first
    BY <1>4
  <2> QED
    BY <1>2, <2>1
<1>5. CASE a # Empty
  <2>1. 1 \in filled /\ \A y \in filled : 1 <= y
    BY <1>1, <1>5
  <2>2. first = 1
    BY <1>4, <2>1
  <2> QED
    BY <1>1, <1>3, <1>5, <2>1, <2>2
<1>6. CASE a = Empty /\ b # Empty
  <2>1. 2 \in filled /\ \A y \in filled : 2 <= y
    BY <1>1, <1>6
  <2>2. first = 2
    BY <1>4, <2>1
  <2> QED
    BY <1>1, <1>3, <1>6, <2>1, <2>2
<1>7. CASE a = Empty /\ b = Empty /\ c # Empty
  <2>1. 3 \in filled /\ \A y \in filled : 3 <= y
    BY <1>1, <1>7
  <2>2. first = 3
    BY <1>4, <2>1
  <2> QED
    BY <1>1, <1>3, <1>7, <2>1, <2>2
<1>8. CASE a = Empty /\ b = Empty /\ c = Empty
  <2>1. filled = {}
    BY <1>1, <1>8
  <2> QED
    BY <1>3, <1>8, <2>1
<1> QED
  BY <1>5, <1>6, <1>7, <1>8

LEMMA SourcesOf ==
    ASSUME NEW f, NEW env
    PROVE  FirstNonEmpty(Sources(f, env)) =
              IF env # Empty THEN env ELSE IF cfgRaw.fields[f] # Empty THEN cfgRaw.fields[f] ELSE BuiltIn(f)
BY FirstOfThree DEF Sources

LEMMA FieldsAre == Len(CfgFields) \in Nat \ {0} /\ Fields = 1..Len(CfgFields) /\ CfgChanges \in Nat
<1>1. CfgFields \in Seq({"server_url", "token_id", "environment"}) /\ CfgFields # <<>> /\ CfgChanges \in Nat
  BY ConfigurationAssumption
<1> QED
  BY <1>1, LenProperties, EmptySeq DEF Fields

LEMMA RawIsTyped ==
    ASSUME cfgFile \in CfgFiles, RawIsChosen
    PROVE  cfgRaw.fields \in [Fields -> FieldValues]
<1>1. CASE Candidates = {}
  BY <1>1 DEF RawIsChosen, NoProfile, Nothing, FieldValues
<1>2. CASE Candidates # {}
  <2>1. PICK n \in Candidates : cfgRaw = cfgFile.profiles[n]
    BY <1>2 DEF RawIsChosen
  <2>2. n \in DOMAIN cfgFile.profiles
    BY DEF Candidates
  <2> QED
    BY <2>1, <2>2, ConfigFilesAssumption DEF FieldValues
<1> QED
  BY <1>1, <1>2

LEMMA CfgReadKeeps == ASSUME CfgInv, CfgRead PROVE CfgInv'
<1>1. UNCHANGED <<cfgFile, cfgName, cfgParams, cfgEnv, cfgProfile, cfgSeen, cfgChanged>> /\ Len(cfgSeen) = 0
  BY DEF CfgRead, cfgInputs, CfgInv, CfgReads
<1>2. CASE cfgPc' = "failed"
  BY <1>1, <1>2 DEF CfgInv, CfgTyped, CfgReads, CfgResolves
<1>3. CASE cfgPc' = "fields" /\ cfgRaw' \in (IF Candidates = {} THEN {NoProfile} ELSE {cfgFile.profiles[n] : n \in Candidates})
  <2>1. CfgTyped'
    BY <1>1, <1>3 DEF CfgInv, CfgTyped
  <2>2. RawIsChosen'
    BY <1>1, <1>3 DEF RawIsChosen, Candidates
  <2>3. CfgReads'
    BY <1>1, <1>3, <2>2, FieldsAre DEF CfgReads
  <2>4. CfgResolves'
    BY <1>1, <1>3 DEF CfgResolves
  <2> QED
    BY <2>1, <2>3, <2>4 DEF CfgInv
<1> QED
  BY <1>2, <1>3 DEF CfgRead

LEMMA CfgFieldKeeps == ASSUME CfgInv, CfgField PROVE CfgInv'
<1> DEFINE n == Len(cfgSeen)
           v == cfgEnv[n + 1]
           w == FirstNonEmpty(Sources(n + 1, v))
           V == FieldValues
           W == FieldValues \cup {Default}
<1>1. /\ cfgPc = "fields" /\ cfgSeen' = Append(cfgSeen, v) /\ cfgProfile' = Append(cfgProfile, w)
      /\ cfgPc' = IF n + 1 = Len(CfgFields) THEN "params" ELSE "fields"
      /\ UNCHANGED <<cfgFile, cfgName, cfgParams, cfgEnv, cfgRaw, cfgChanged>>
  BY DEF CfgField, cfgInputs
<1>2. /\ cfgSeen \in Seq(V) /\ cfgProfile \in Seq(W) /\ Len(cfgProfile) = n /\ n \in Nat /\ n < Len(CfgFields)
      /\ n + 1 \in Fields
  BY <1>1, LenProperties, FieldsAre DEF CfgInv, CfgTyped, CfgReads
<1>3. RawIsChosen /\ v \in V
  BY <1>1, <1>2 DEF CfgInv, CfgTyped, CfgReads
<1>4. w \in W
  <2>1. cfgRaw.fields[n + 1] \in V
    BY <1>2, <1>3, RawIsTyped DEF CfgInv, CfgTyped
  <2>2. BuiltIn(n + 1) \in {Empty, Default}
    BY DEF BuiltIn
  <2>3. w = IF v # Empty THEN v ELSE IF cfgRaw.fields[n + 1] # Empty THEN cfgRaw.fields[n + 1] ELSE BuiltIn(n + 1)
    BY SourcesOf
  <2> QED
    BY <1>3, <2>1, <2>2, <2>3 DEF FieldValues
<1> HIDE DEF v, w, V, W, n
<1>5. /\ cfgSeen' \in Seq(V) /\ Len(cfgSeen') = n + 1
      /\ \A f \in 1..n : cfgSeen'[f] = cfgSeen[f]
      /\ cfgSeen'[n + 1] = v
  BY <1>1, <1>2, <1>3, AppendProperties DEF n
<1>6. /\ cfgProfile' \in Seq(W) /\ Len(cfgProfile') = n + 1
      /\ \A f \in 1..n : cfgProfile'[f] = cfgProfile[f]
      /\ cfgProfile'[n + 1] = w
  BY <1>1, <1>2, <1>4, AppendProperties
<1>7. CfgTyped'
  BY <1>1, <1>2, <1>5, <1>6, FieldsAre DEF CfgInv, CfgTyped, V, W
<1>8. CfgReads'
  <2>1. RawIsChosen'
    BY <1>1, <1>3 DEF RawIsChosen, Candidates
  <2> QED
    BY <1>1, <1>2, <1>5, <2>1, FieldsAre DEF CfgReads
<1>9. CfgResolves'
  <2>1. \A f \in 1..n : cfgProfile[f] = Resolved(f)
    BY <1>1 DEF CfgInv, CfgResolves, n
  <2>2. ASSUME NEW f \in 1..(n + 1) PROVE cfgProfile'[f] = Resolved(f)'
    <3>1. CASE f = n + 1
      BY <1>1, <1>5, <1>6, <3>1 DEF Resolved, Sources, w
    <3>2. CASE f \in 1..n
      BY <1>1, <1>5, <1>6, <2>1, <3>2 DEF Resolved, Sources
    <3> QED
      BY <1>2, <3>1, <3>2
  <2> QED
    BY <1>1, <1>5, <2>2 DEF CfgResolves
<1> QED
  BY <1>7, <1>8, <1>9 DEF CfgInv

LEMMA CfgOverrideKeeps == ASSUME CfgInv, cfgParams \in [Fields -> FieldValues], CfgOverride PROVE CfgInv'
<1> DEFINE after(f) == IF f \in Overrides THEN FirstNonEmpty(<<cfgParams[f], cfgProfile[f]>>) ELSE cfgProfile[f]
           W == FieldValues \cup {Default}
<1>1. /\ cfgPc = "params" /\ cfgPc' = "channel" /\ cfgProfile' = [f \in Fields |-> after(f)]
      /\ UNCHANGED <<cfgFile, cfgName, cfgParams, cfgEnv, cfgRaw, cfgSeen, cfgChanged>>
  BY DEF CfgOverride, cfgInputs
<1>2. /\ cfgProfile \in Seq(W) /\ Len(cfgProfile) = Len(CfgFields) /\ Len(cfgSeen) = Len(CfgFields)
  BY <1>1 DEF CfgInv, CfgTyped, CfgReads
<1>3. ASSUME NEW f \in Fields PROVE after(f) \in W /\ after(f) = Overridden(f)
  <2>1. cfgProfile[f] \in W
    BY <1>2, FieldsAre, ElementOfSeq
  <2>2. cfgParams[f] \in W
    OBVIOUS
  <2>3. cfgProfile[f] = Resolved(f)
    BY <1>1, <1>2, FieldsAre DEF CfgInv, CfgResolves
  <2>4. FirstNonEmpty(<<cfgParams[f], cfgProfile[f]>>) = IF cfgParams[f] # Empty THEN cfgParams[f] ELSE cfgProfile[f]
    BY FirstOfTwo
  <2> QED
    BY <2>1, <2>2, <2>3, <2>4 DEF Overridden
<1> HIDE DEF after
<1>4. cfgProfile' \in Seq(W) /\ Len(cfgProfile') = Len(CfgFields)
  <2>1. cfgProfile' \in [1..Len(CfgFields) -> W] /\ Len(CfgFields) \in Nat
    BY <1>1, <1>3, FieldsAre
  <2> HIDE DEF W
  <2>2. cfgProfile' \in Seq(W)
    BY <2>1, SeqDef
  <2>3. Len(cfgProfile') \in Nat /\ DOMAIN cfgProfile' = 1..Len(cfgProfile')
    BY <2>2, LenProperties
  <2>4. 1..Len(cfgProfile') = 1..Len(CfgFields)
    BY <2>1, <2>3
  <2>5. Len(cfgProfile') = Len(CfgFields)
    BY <2>1, <2>3, <2>4
  <2> QED
    BY <2>2, <2>5
<1>5. CfgTyped'
  BY <1>1, <1>2, <1>4 DEF CfgInv, CfgTyped
<1>6. CfgReads'
  BY <1>1 DEF CfgInv, CfgReads, RawIsChosen, Candidates
<1>7. CfgResolves'
  <2>1. \A f \in Fields : cfgProfile'[f] = Overridden(f)
    BY <1>1, <1>3
  <2>2. \A f \in Fields : Overridden(f)' = Overridden(f)
    BY <1>1 DEF Overridden, Resolved, Sources
  <2> QED
    BY <1>1, <2>1, <2>2 DEF CfgResolves
<1> QED
  BY <1>5, <1>6, <1>7 DEF CfgInv

LEMMA CfgConnectKeeps == ASSUME CfgInv, CfgChannel \/ CfgConnect \/ CfgBuild PROVE CfgInv'
<1>1. UNCHANGED <<cfgFile, cfgName, cfgParams, cfgEnv, cfgRaw, cfgProfile, cfgSeen, cfgChanged>>
  BY DEF CfgChannel, CfgConnect, CfgBuild, cfgInputs
<1>2. \/ cfgPc' \in {"built", "failed"}
      \/ cfgPc = "channel" /\ cfgPc' = "client"
      \/ cfgPc = "client" /\ cfgPc' = "connected" /\ ~MissingCredentials(cfgProfile)
  BY DEF CfgChannel, CfgConnect, CfgBuild
<1>3. CfgTyped'
  BY <1>1, <1>2 DEF CfgInv, CfgTyped
<1>4. CfgReads'
  BY <1>1, <1>2 DEF CfgInv, CfgReads, RawIsChosen, Candidates
<1>5. CfgResolves'
  BY <1>1, <1>2 DEF CfgInv, CfgResolves, Overridden, Resolved, Sources, MissingCredentials
<1> QED
  BY <1>3, <1>4, <1>5 DEF CfgInv

LEMMA CfgSetEnvKeeps ==
    ASSUME CfgInv, NEW f \in Fields, NEW value \in FieldValues, CfgSetEnv(f, value)
    PROVE  CfgInv'
<1>1. UNCHANGED <<cfgFile, cfgName, cfgParams, cfgPc, cfgRaw, cfgProfile, cfgSeen>>
  BY DEF CfgSetEnv, cfgInputs
<1>2. cfgEnv' \in [Fields -> FieldValues] /\ cfgChanged' \in 0..CfgChanges
  BY FieldsAre DEF CfgInv, CfgTyped, CfgSetEnv
<1>3. CfgTyped'
  BY <1>1, <1>2 DEF CfgInv, CfgTyped
<1>4. CfgReads'
  BY <1>1 DEF CfgInv, CfgReads, RawIsChosen, Candidates
<1>5. CfgResolves'
  BY <1>1 DEF CfgInv, CfgResolves, Overridden, Resolved, Sources, MissingCredentials
<1> QED
  BY <1>3, <1>4, <1>5 DEF CfgInv

\* The ClientParams stay as they were given.
CfgSound == CfgInv /\ cfgParams \in [Fields -> FieldValues]

LEMMA CfgStep == ASSUME CfgSound, [CfgNext]_cfgVars PROVE CfgSound'
<1>1. UNCHANGED cfgParams
  BY DEF CfgNext, CfgRead, CfgField, CfgOverride, CfgChannel, CfgConnect, CfgBuild, CfgSetEnv, cfgInputs, cfgVars
<1>2. ASSUME CfgNext PROVE CfgInv'
  <2>1. CfgInv /\ cfgParams \in [Fields -> FieldValues]
    BY DEF CfgSound
  <2>2. CASE \E f \in Fields, value \in FieldValues : CfgSetEnv(f, value)
    BY <2>1, <2>2, CfgSetEnvKeeps
  <2>3. CASE CfgRead \/ CfgField \/ CfgOverride \/ CfgChannel \/ CfgConnect \/ CfgBuild
    BY <2>1, <2>3, CfgReadKeeps, CfgFieldKeeps, CfgOverrideKeeps, CfgConnectKeeps
  <2> QED
    BY <1>2, <2>2, <2>3 DEF CfgNext, FieldValues
<1>3. CASE UNCHANGED cfgVars
  BY <1>3 DEF cfgVars, CfgSound, CfgInv, CfgTyped, CfgReads, CfgResolves, RawIsChosen, Candidates,
              Overridden, Resolved, Sources, MissingCredentials
<1> QED
  BY <1>1, <1>2, <1>3 DEF CfgSound

LEMMA CfgInitInv == ASSUME CfgInit PROVE CfgSound
<1>1. PICK file \in CfgFiles, env \in [Fields -> FieldValues], params \in [Fields -> FieldValues],
           name \in {Empty} \cup CfgNames : CfgStart(file, env, name, params, "file")
  BY DEF CfgInit, FieldValues
<1>2. cfgSeen \in Seq(FieldValues) /\ cfgProfile \in Seq(FieldValues \cup {Default}) /\ Len(cfgSeen) = 0 /\ Len(cfgProfile) = 0
  BY <1>1, EmptySeq DEF CfgStart
<1>3. CfgTyped
  BY <1>1, <1>2, FieldsAre DEF CfgStart, CfgTyped
<1>4. CfgReads
  BY <1>1, <1>2 DEF CfgStart, CfgReads
<1>5. CfgResolves
  BY <1>1 DEF CfgStart, CfgResolves
<1>6. cfgParams \in [Fields -> FieldValues]
  BY <1>1 DEF CfgStart
<1> QED
  BY <1>3, <1>4, <1>5, <1>6 DEF CfgInv, CfgSound

LEMMA RanksAreKept == ASSUME CfgInv PROVE HighestRankWins
<1> SUFFICES ASSUME cfgPc = "connected", NEW f \in Fields
             PROVE  LET files == {cfgFile.profiles[n].fields[f] : n \in Candidates}
                        v == cfgProfile[f]
                    IN  /\ CfgFields[f] = "token_id" => v # Empty
                        /\ IF f \in Overrides /\ cfgParams[f] # Empty THEN v = cfgParams[f]
                           ELSE IF cfgSeen[f] # Empty THEN v = cfgSeen[f]
                           ELSE \/ v \in files \ {Empty}
                                \/ (files = {} \/ Empty \in files) /\ v = BuiltIn(f)
  BY DEF HighestRankWins
<1> DEFINE files == {cfgFile.profiles[n].fields[f] : n \in Candidates}
           v == cfgProfile[f]
<1>1. CfgFields[f] = "token_id" => v # Empty
  BY DEF CfgInv, CfgResolves, MissingCredentials
<1>2. v = IF f \in Overrides /\ cfgParams[f] # Empty THEN cfgParams[f] ELSE Resolved(f)
  <2>1. v = Overridden(f)
    BY DEF CfgInv, CfgResolves
  <2>2. FirstNonEmpty(<<cfgParams[f], Resolved(f)>>) = IF cfgParams[f] # Empty THEN cfgParams[f] ELSE Resolved(f)
    BY FirstOfTwo
  <2> QED
    BY <2>1, <2>2 DEF Overridden
<1>3. Resolved(f) = IF cfgSeen[f] # Empty THEN cfgSeen[f]
                    ELSE IF cfgRaw.fields[f] # Empty THEN cfgRaw.fields[f] ELSE BuiltIn(f)
  BY SourcesOf DEF Resolved
<1>4. IF Candidates = {} THEN files = {} /\ cfgRaw.fields[f] = Empty ELSE cfgRaw.fields[f] \in files
  <2>1. RawIsChosen
    BY DEF CfgInv, CfgReads
  <2> QED
    BY <2>1 DEF RawIsChosen, NoProfile, Nothing
<1> HIDE DEF files, v
<1>5. IF f \in Overrides /\ cfgParams[f] # Empty THEN v = cfgParams[f]
      ELSE IF cfgSeen[f] # Empty THEN v = cfgSeen[f]
      ELSE \/ v \in files \ {Empty}
           \/ (files = {} \/ Empty \in files) /\ v = BuiltIn(f)
  BY <1>2, <1>3, <1>4
<1> QED
  BY <1>1, <1>5 DEF files, v

LEMMA CfgTypes == ASSUME CfgInv PROVE CfgTypeOK
<1>1. DOMAIN cfgProfile = 1..Len(cfgProfile) /\ DOMAIN cfgSeen = 1..Len(cfgSeen) /\ Len(cfgSeen) \in Nat
  <2>1. cfgSeen \in Seq(FieldValues) /\ cfgProfile \in Seq(FieldValues \cup {Default})
    BY DEF CfgInv, CfgTyped
  <2> QED
    BY <2>1, LenProperties
<1> QED
  BY <1>1, FieldsAre DEF CfgInv, CfgTyped, CfgReads, CfgTypeOK, FieldValues

(* The types of a configuration, and where its profile comes from.         *)
THEOREM CfgInvariant == CfgSpec => []CfgSound
<1>1. CfgInit => CfgSound
  BY CfgInitInv
<1>2. CfgSound /\ [CfgNext]_cfgVars => CfgSound'
  BY CfgStep
<1> QED
  BY <1>1, <1>2, PTL DEF CfgSpec

(* Each field of a connected client has the value of the first source that *)
(* has one, and there are credentials, for any files, fields and changes   *)
(* of the environment while they are read: config.rs:85-189,               *)
(* interceptors.rs:44-52.                                                  *)
THEOREM RanksHold == CfgSpec => []HighestRankWins
<1>1. CfgSound => HighestRankWins
  BY RanksAreKept DEF CfgSound
<1> QED
  BY <1>1, CfgInvariant, PTL
-----------------------------------------------------------------------------
(* Ephemeral objects. *)
\* A permit stays until the task has stopped, and after a late beat the task sleeps no further.
EphStops ==
    /\ (ephTask # "none" \/ ephClosed) => ephMade >= 1
    /\ (ephClosed /\ ephTask \in {"waiting", "beating"}) => ephPermit
    /\ ephLate >= 1 => ephClosed
    /\ (ephLate >= 1 /\ ephTask = "waiting") => ephLeft = Sleep
    /\ ephLate <= 1

EphInv == EphTypeOK /\ EphStops

LEMMA EphConstants == Sleep \in Nat /\ Sleep >= 2 /\ MaxClones \in Nat /\ MaxClones >= 1 /\ MaxBeats \in Nat
BY EphemeralAssumption

LEMMA EphCreateKeeps == ASSUME EphInv, NEW context \in Contexts, EphCreate(context) PROVE EphInv'
<1>1. /\ ephMade = 0 /\ ~ephPanicked /\ ephTask = "none" /\ ~ephClosed /\ ephLate = 0
      /\ UNCHANGED <<ephPermit, ephClosed, ephBeats, ephLate>>
  BY EphConstants DEF EphCreate, EphInv, EphTypeOK, EphStops
<1>2. CASE ephTask' = "none"
  <2>1. ephHandles' = ephHandles /\ ephLeft' = ephLeft /\ ephMade' \in 0..2 /\ ephPanicked' \in BOOLEAN
    <3>1. ephHandles' = ephHandles /\ ephLeft' = ephLeft
      BY <1>2 DEF EphCreate
    <3>2. ephMade' = ephMade \/ ephMade' \in 1..2 \/ ephMade' \in 0..2
      BY DEF EphCreate
    <3>3. ephPanicked' = TRUE \/ ephPanicked' = ephPanicked
      BY DEF EphCreate
    <3>4. ephPanicked' \in BOOLEAN
      BY <3>3 DEF EphInv, EphTypeOK
    <3> QED
      BY <1>1, <3>1, <3>2, <3>4
  <2>2. EphTypeOK'
    BY <1>1, <1>2, <2>1 DEF EphInv, EphTypeOK
  <2>3. EphStops'
    BY <1>1, <1>2 DEF EphStops
  <2> QED
    BY <2>2, <2>3 DEF EphInv
<1>3. CASE /\ ephMade' \in 1..2 /\ ephHandles' = 1 /\ ephTask' = "waiting" /\ ephLeft' = Sleep /\ UNCHANGED ephPanicked
  <2>1. EphTypeOK'
    BY <1>1, <1>3, EphConstants DEF EphInv, EphTypeOK
  <2>2. EphStops'
    BY <1>1, <1>3 DEF EphStops
  <2> QED
    BY <2>1, <2>2 DEF EphInv
<1> QED
  BY <1>1, <1>2, <1>3 DEF EphCreate

LEMMA EphHandleKeeps == ASSUME EphInv, EphClone \/ EphDrop \/ EphClose PROVE EphInv'
<1>1. UNCHANGED <<ephMade, ephTask, ephLeft, ephBeats, ephLate, ephPanicked>>
  BY DEF EphClone, EphDrop, EphClose, ephHistory
<1>2. ephHandles > 0 /\ ephTask # "none"
  BY DEF EphClone, EphDrop, EphClose, EphInv, EphTypeOK
<1>3. ephHandles' \in 0..MaxClones
  BY EphConstants DEF EphClone, EphDrop, EphClose, EphInv, EphTypeOK
<1>4. (ephPermit' = ephPermit /\ ephClosed' = ephClosed) \/ (ephPermit' = TRUE /\ ephClosed' = TRUE)
  BY DEF EphClone, EphDrop, EphClose, ephHistory, PermitAfterClose
<1>5. EphTypeOK'
  BY <1>1, <1>2, <1>3, <1>4 DEF EphInv, EphTypeOK
<1>6. EphStops'
  BY <1>1, <1>2, <1>4 DEF EphInv, EphStops
<1> QED
  BY <1>5, <1>6 DEF EphInv

LEMMA EphTaskKeeps == ASSUME EphInv, EphNotified \/ EphBeat \/ EphBeatEnds \/ EphTick PROVE EphInv'
<1>1. CASE EphNotified
  <2>1. ephTask' = "stopped" /\ ephPermit' = FALSE /\ ephTask = "waiting"
        /\ UNCHANGED <<ephMade, ephHandles, ephLeft, ephClosed, ephBeats, ephLate, ephPanicked>>
    BY <1>1 DEF EphNotified, ephHistory
  <2>2. EphTypeOK'
    BY <2>1 DEF EphInv, EphTypeOK
  <2>3. EphStops'
    BY <2>1 DEF EphInv, EphStops
  <2> QED
    BY <2>2, <2>3 DEF EphInv
<1>2. CASE EphBeat
  <2>1. /\ ephTask = "waiting" /\ ephLeft = 0 /\ ephTask' = "beating"
        /\ UNCHANGED <<ephMade, ephHandles, ephLeft, ephPermit, ephClosed, ephPanicked>>
    BY <1>2 DEF EphBeat
  <2>2. ephLate = 0
    BY <2>1, EphConstants DEF EphInv, EphTypeOK, EphStops
  <2>3. ephLate' \in 0..1 /\ (ephLate' >= 1 => ephClosed)
    BY <1>2, <2>2 DEF EphBeat
  <2>4. ephBeats' \in 0..MaxBeats
    BY <1>2, EphConstants DEF EphBeat, EphInv, EphTypeOK
  <2>5. EphTypeOK'
    BY <2>1, <2>3, <2>4, EphConstants DEF EphInv, EphTypeOK
  <2>6. EphStops'
    BY <2>1, <2>3 DEF EphInv, EphStops
  <2> QED
    BY <2>5, <2>6 DEF EphInv
<1>3. CASE EphTick
  <2>1. /\ ephTask = "waiting" /\ ephLeft > 0 /\ ephLeft' = ephLeft - 1
        /\ UNCHANGED <<ephMade, ephHandles, ephTask, ephPermit, ephClosed, ephBeats, ephLate, ephPanicked>>
    BY <1>3 DEF EphTick, ephHistory
  <2>2. ephPermit => ephLeft = 1
    BY <1>3 DEF EphTick
  <2>3. ~(ephLate >= 1)
    BY <2>1, <2>2, EphConstants DEF EphInv, EphTypeOK, EphStops
  <2>4. EphTypeOK'
    BY <2>1, EphConstants DEF EphInv, EphTypeOK
  <2>5. EphStops'
    BY <2>1, <2>3 DEF EphInv, EphStops
  <2> QED
    BY <2>4, <2>5 DEF EphInv
<1>4. CASE EphBeatEnds
  <2>1. /\ ephTask = "beating" /\ ephTask' = "waiting" /\ ephLeft' = Sleep
        /\ UNCHANGED <<ephMade, ephHandles, ephPermit, ephClosed, ephBeats, ephLate, ephPanicked>>
    BY <1>4 DEF EphBeatEnds, ephHistory
  <2>2. EphTypeOK'
    BY <2>1, EphConstants DEF EphInv, EphTypeOK
  <2>3. EphStops'
    BY <2>1 DEF EphInv, EphStops
  <2> QED
    BY <2>2, <2>3 DEF EphInv
<1> QED
  BY <1>1, <1>2, <1>3, <1>4

\* A task that has stopped does not start again, nor does the object get another one.
LEMMA EphStep ==
    ASSUME EphInv, [EphNext]_ephVars
    PROVE  EphInv' /\ (ephTask = "stopped" => ephTask' = "stopped")
<1>1. CASE EphNext
  <2>1. EphInv'
    BY <1>1, EphCreateKeeps, EphHandleKeeps, EphTaskKeeps DEF EphNext
  <2>2. ephTask = "stopped" => ephMade # 0
    BY DEF EphInv, EphTypeOK, EphStops
  <2>3. ephTask = "stopped" => ephTask' = "stopped"
    BY <1>1, <2>2 DEF EphNext, EphCreate, EphClone, EphDrop, EphClose, EphNotified, EphBeat, EphBeatEnds, EphTick
  <2> QED
    BY <2>1, <2>3
<1>2. CASE UNCHANGED ephVars
  BY <1>2 DEF ephVars, EphInv, EphTypeOK, EphStops
<1> QED
  BY <1>1, <1>2

LEMMA EphInitInv == ASSUME EphInit PROVE EphInv
<1>1. EphTypeOK
  <2>1. 0 \in 0..2 /\ 0 \in 0..MaxClones /\ 0 \in 0..Sleep /\ 0 \in 0..MaxBeats /\ ~(0 > 0)
    BY EphConstants
  <2>2. /\ ephMade = 0 /\ ephHandles = 0 /\ ephTask = "none" /\ ephLeft = 0 /\ ephPermit = FALSE
        /\ ephClosed = FALSE /\ ephBeats = 0 /\ ephLate = 0 /\ ephPanicked = FALSE
    BY DEF EphInit
  <2> QED
    BY <2>1, <2>2 DEF EphTypeOK
<1>2. EphStops
  BY DEF EphInit, EphStops
<1> QED
  BY <1>1, <1>2 DEF EphInv

(* A permit is kept until it stops the task, for any length of the sleep.  *)
THEOREM EphInvariant == EphSpec => []EphInv
<1>1. EphInit => EphInv
  BY EphInitInv
<1>2. EphInv /\ [EphNext]_ephVars => EphInv'
  BY EphStep
<1> QED
  BY <1>1, <1>2, PTL DEF EphSpec

(* There is one heartbeat at most after the object is closed, and a task   *)
(* that has stopped stays so, for any number of clones and any length of   *)
(* the sleep: the safety of CloseStopsTheTask, ephemeral.rs:20-31.         *)
THEOREM OneLateBeatAtMost ==
    EphSpec => [](ephLate <= 1) /\ [][ephTask = "stopped" => ephTask' = "stopped"]_ephVars
<1>1. EphInv => ephLate <= 1
  BY DEF EphInv, EphStops
<1>2. EphInv /\ [EphNext]_ephVars => [ephTask = "stopped" => ephTask' = "stopped"]_ephVars
  BY EphStep
<1> QED
  BY <1>1, <1>2, EphInvariant, PTL DEF EphSpec
-----------------------------------------------------------------------------
(* The parts side by side. *)
\* A call that is not followed has ended, and a client that is not followed was never made.
CallAside == callPc = "done" /\ callResult = "ok" /\ callSent = Never

PartsInv ==
    /\ ObjInv /\ EphInv /\ ReqInv /\ AttInv
    /\ IF part = "call" THEN CallInv ELSE CallAside
    /\ IF part = "configuration" THEN CfgSound ELSE cfgPc = "failed"

LEMMA PartsInitInv == ASSUME PartsInit PROVE PartsInv
<1>1. ObjInv /\ EphInv /\ ReqInv /\ AttInv
  BY ObjInitInv, EphInitInv, ReqInitInv, AttInitInv DEF PartsInit
<1>2. IF part = "call" THEN CallInv ELSE CallAside
  BY CallInitInv DEF PartsInit, CallIdle, CallBegins, CallAside
<1>3. IF part = "configuration" THEN CfgSound ELSE cfgPc = "failed"
  BY CfgInitInv DEF PartsInit, CfgIdle, CfgStart
<1> QED
  BY <1>1, <1>2, <1>3 DEF PartsInv

\* Every step is one of each part, or leaves it alone.
LEMMA StepsOfParts ==
    ASSUME [PartsNext]_partsVars
    PROVE  /\ [ObjNext]_objVars /\ [EphNext]_ephVars /\ [ReqNext]_reqVars /\ [AttNext]_attVars
           /\ UNCHANGED part
           /\ IF part = "call" THEN [CallNext]_callVars ELSE UNCHANGED callVars
           /\ IF part = "configuration" THEN [CfgNext]_cfgVars ELSE UNCHANGED cfgVars
BY DEF PartsNext, partsVars

LEMMA PartsStep ==
    ASSUME PartsInv, [PartsNext]_partsVars
    PROVE  PartsInv'
<1>1. ObjInv' /\ EphInv'
  BY StepsOfParts, ObjStep, EphStep DEF PartsInv
<1>2. ReqInv'
  <2>1. ReqInv /\ [ReqNext]_reqVars
    BY StepsOfParts DEF PartsInv
  <2> QED
    BY <2>1, ReqStep
<1>3. AttInv'
  <2>1. AttInv /\ [AttNext]_attVars
    BY StepsOfParts DEF PartsInv
  <2> QED
    BY <2>1, AttStep
<1>4. (IF part = "call" THEN CallInv ELSE CallAside)'
  <2>1. UNCHANGED part
    BY StepsOfParts
  <2>2. CASE part = "call"
    <3>1. CallInv /\ [CallNext]_callVars
      BY <2>2, StepsOfParts DEF PartsInv
    <3> QED
      BY <2>1, <2>2, <3>1, CallStep
  <2>3. CASE part # "call"
    <3>1. CallAside /\ UNCHANGED callVars
      BY <2>3, StepsOfParts DEF PartsInv
    <3> QED
      BY <2>1, <2>3, <3>1 DEF CallAside, callVars
  <2> QED
    BY <2>2, <2>3
<1>5. (IF part = "configuration" THEN CfgSound ELSE cfgPc = "failed")'
  <2>1. UNCHANGED part
    BY StepsOfParts
  <2>2. CASE part = "configuration"
    <3>1. CfgSound /\ [CfgNext]_cfgVars
      BY <2>2, StepsOfParts DEF PartsInv
    <3> QED
      BY <2>1, <2>2, <3>1, CfgStep
  <2>3. CASE part # "configuration"
    <3>1. cfgPc = "failed" /\ UNCHANGED cfgVars
      BY <2>3, StepsOfParts DEF PartsInv
    <3> QED
      BY <2>1, <2>3, <3>1 DEF cfgVars
  <2> QED
    BY <2>2, <2>3
<1> QED
  BY <1>1, <1>2, <1>3, <1>4, <1>5 DEF PartsInv

(* Each part keeps its invariant while it is followed, and stays aside     *)
(* otherwise.                                                              *)
THEOREM PartsInvariant == PartsSpec => []PartsInv
<1>1. PartsInit => PartsInv
  BY PartsInitInv
<1>2. PartsInv /\ [PartsNext]_partsVars => PartsInv'
  BY PartsStep
<1> QED
  BY <1>1, <1>2, PTL DEF PartsSpec

(* The types of the part that is followed, whichever it is.                *)
THEOREM PartsTyped == PartsSpec => []PartsTypeOK
<1>1. PartsInv => PartsTypeOK
  <2> SUFFICES ASSUME PartsInv PROVE PartsTypeOK
    OBVIOUS
  <2>1. ObjTypeOK
    BY ObjTypes DEF PartsInv
  <2>2. EphTypeOK /\ ReqTypeOK
    BY DEF PartsInv, EphInv, ReqInv
  <2>3. part = "call" => CallTypeOK
    BY DEF PartsInv, CallInv
  <2>4. part = "configuration" => CfgTypeOK
    BY CfgTypes DEF PartsInv, CfgSound
  <2>5. AttTypeOK
    BY DEF PartsInv, AttInv, AttTyped, AttTypeOK
  <2> QED
    BY <2>1, <2>2, <2>3, <2>4, <2>5 DEF PartsTypeOK
<1> QED
  BY <1>1, PartsInvariant, PTL

(* Answers are about what the caller means: that of a delete about the     *)
(* object that had the name, an output about the latest attempt            *)
(* (volume.rs:172-199, invocation.rs:266-303).                             *)
THEOREM AnswersKeepTheirTarget == PartsSpec => []AnswersAreOfTheTarget
<1>1. PartsInv => AnswersAreOfTheTarget
  BY DEF PartsInv, ObjInv, AttInv, AnswersAreOfTheTarget
<1> QED
  BY <1>1, PartsInvariant, PTL

(* What the parts promise of deadlines, options, limits and sources holds  *)
(* side by side as it does of each (task_command_router.rs:56-95,          *)
(* cls.rs:228-270, sandbox.rs:192-225, config.rs:85-189).                  *)
THEOREM PartsKeepTheirPromises ==
    PartsSpec => [](DeadlineIsKept /\ ParametersSurvive)
<1>1. PartsInv => DeadlineIsKept /\ ParametersSurvive
  <2> SUFFICES ASSUME PartsInv PROVE DeadlineIsKept /\ ParametersSurvive
    OBVIOUS
  <2>1. LastOptionWins /\ LimitsSurvive
    BY DEF PartsInv, ReqInv
  <2>2. DeadlineIsKept
    BY DEF PartsInv, CallInv, CallAside, DeadlineIsKept, TransientCodes
  <2>3. HighestRankWins
    BY RanksAreKept DEF PartsInv, CfgSound, HighestRankWins
  <2> QED
    BY <2>1, <2>2, <2>3 DEF ParametersSurvive
<1> QED
  BY <1>1, PartsInvariant, PTL

(* No part removes an object but a delete that has looked it up            *)
(* (volume.rs:190).                                                        *)
THEOREM PartsDeleteOnlyWhatWasFound == PartsSpec => OnlyWhatWasFound
<1>1. PartsInv /\ [PartsNext]_partsVars => [OnlyTargets]_objVars
  BY StepsOfParts, ObjStep DEF PartsInv
<1>2. [OnlyTargets]_objVars =>
          [\A id \in DOMAIN objAll :
              objAll[id].exists /\ ~objAll'[id].exists => \E c \in Callers : objTarget[c] = id]_objVars
  BY DEF OnlyTargets
<1> QED
  BY <1>1, <1>2, PartsInvariant, PTL DEF PartsSpec, OnlyWhatWasFound
=============================================================================
