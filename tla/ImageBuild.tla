----------------------------- MODULE ImageBuild -----------------------------
(***************************************************************************)
(* Images and their build, layer by layer (image.rs), over the             *)
(* ImageGrpcClient of transport.rs.                                        *)
(*                                                                         *)
(* The server is external.  It keeps what it builds: from which tag, with  *)
(* the commands of which layers.  It answers a request that is not forced  *)
(* with an image it has, finished or still being built for another client, *)
(* and builds a new one otherwise; a build may fail.  A stream that        *)
(* follows a build may end before the build does.  Images may be deleted   *)
(* by anybody at any time.  The variables begin with img, so that the      *)
(* module can be used beside others.                                       *)
(***************************************************************************)
EXTENDS Naturals, Sequences

CONSTANTS ImageTags,     \* tags of the registry
          Commands,      \* Dockerfile commands that can be built
          LocalCopies,   \* COPY commands from the local context
          MaxLayers,     \* bound: layers of an image
          MaxImages      \* bound: images on the server

ASSUME ImageAssumption ==
    /\ "" \notin ImageTags
    /\ Commands \cap LocalCopies = {}
    /\ MaxLayers \in Nat /\ MaxImages \in Nat \ {0}

\* The GPU specification of a layer: none or one that parses, or one that does not.
GpuSpecs == {"", "malformed"}

Layer == [commands : {<<>>} \cup {<<c>> : c \in Commands \cup LocalCopies},
          gpu : GpuSpecs, force_build : BOOLEAN]
EmptyLayer == [commands |-> <<>>, gpu |-> "", force_build |-> FALSE]

Hydrated == 1..MaxImages      \* ids of images; 0 is the empty id
Image == [image_id : Hydrated \cup {0}, tag : ImageTags \cup {""}, layers : Seq(Layer)]

ImageBuildStatus == {"Success", "Failure", "Timeout", "Terminated"}

VARIABLES
    imgPc,      \* "none", "held", "building", "joining" or "done"
    img,        \* the Image the client holds, once it holds one
    imgChain,   \* current_image_id of build, one for each layer built so far
    imgPending, \* the image whose stream is joined, 0 for none
    imgEntry,   \* last_entry_id, the number of entries of the stream seen
    imgResult,  \* "none", "ok" or the error that was returned
    imgStore    \* what the server has: its images, by id

imgVars == <<imgPc, img, imgChain, imgPending, imgEntry, imgResult, imgStore>>

NoImage == [image_id |-> 0, tag |-> "", layers |-> <<>>]

ImgReturn(r) == imgPc' = "done" /\ imgResult' = r
-----------------------------------------------------------------------------
\* Image::new and from_id.
ImageFromId(id) == [image_id |-> id, tag |-> "", layers |-> <<EmptyLayer>>]

(* from_registry, from_aws_ecr and from_gcp_artifact_registry.  They differ *)
(* in the credentials, which transport.rs does not send.                   *)
ImageFromRegistry(tag) == [image_id |-> 0, tag |-> tag, layers |-> <<EmptyLayer>>]

\* dockerfile_commands: one more layer, to be built on the others.
DockerfileCommands(image, layer) ==
    IF layer.commands = <<>> THEN image
    ELSE [image EXCEPT !.image_id = 0, !.layers = Append(@, layer)]

\* The server begins with an image that anybody may use.
ImgInit ==
    /\ imgPc = "none" /\ img = NoImage
    /\ imgChain = <<>> /\ imgPending = 0 /\ imgEntry = 0 /\ imgResult = "none"
    /\ \E tag \in ImageTags, state \in {"built", "pending"} :
          imgStore = <<[content |-> [tag |-> tag, layers |-> << <<>> >>], forced |-> FALSE, state |-> state]>>

ImgFromRegistry(tag) ==
    /\ imgPc = "none"
    /\ imgPc' = "held"
    /\ img' = ImageFromRegistry(tag)
    /\ UNCHANGED <<imgChain, imgPending, imgEntry, imgResult, imgStore>>

Available(id) == id \in DOMAIN imgStore /\ imgStore[id].state = "built"

\* ImageFromId finds the image, or answers NotFound, or fails.
ImgFromId(id) ==
    /\ imgPc = "none"
    /\ \/ /\ Available(id)
          /\ imgPc' = "held" /\ img' = ImageFromId(id)
          /\ UNCHANGED imgResult
       \/ /\ ~Available(id)
          /\ ImgReturn("NotFound") /\ UNCHANGED img
       \/ ImgReturn("Grpc") /\ UNCHANGED img
    /\ UNCHANGED <<imgChain, imgPending, imgEntry, imgStore>>

ImgExtend(layer) ==
    /\ imgPc = "held"
    /\ Len(img.layers) < MaxLayers
    /\ img' = DockerfileCommands(img, layer)
    /\ UNCHANGED <<imgPc, imgChain, imgPending, imgEntry, imgResult, imgStore>>

\* ImageDelete: of an image that is there.  Requests for it get NotFound from then on.
ImgDelete(id) ==
    /\ Available(id)
    /\ imgStore' = [imgStore EXCEPT ![id].state = "deleted"]
    /\ UNCHANGED <<imgPc, img, imgChain, imgPending, imgEntry, imgResult>>
-----------------------------------------------------------------------------
\* validate_dockerfile_commands of one layer.
Buildable(layer) == \A x \in DOMAIN layer.commands : layer.commands[x] \notin LocalCopies

\* build: an image with an id is returned as it is; all layers are validated first.
ImgBuild ==
    /\ imgPc = "held"
    /\ \/ img.image_id # 0 /\ ImgReturn("ok")
       \/ /\ img.image_id = 0
          /\ \E x \in DOMAIN img.layers : ~Buildable(img.layers[x])
          /\ ImgReturn("Invalid")
       \/ /\ img.image_id = 0
          /\ \A x \in DOMAIN img.layers : Buildable(img.layers[x])
          /\ imgPc' = "building" /\ UNCHANGED imgResult
    /\ UNCHANGED <<img, imgChain, imgPending, imgEntry, imgStore>>

\* The index of the layer to build next.
ThisLayer == Len(imgChain) + 1

\* base_images: the image of the layer before.
BaseImage == IF imgChain = <<>> THEN 0 ELSE imgChain[Len(imgChain)]

\* Whether layer i is forced: it or one before it asks for it; and only by itself.
ForcedByItself(i) == img.layers[i].force_build
ForceBuild(i) == \E j \in 1..i : img.layers[j].force_build

\* The ImageLayerBuildRequest of layer i: FROM <tag> for the first, FROM base for the others.
LayerRequest(i) ==
    [base |-> BaseImage,
     tag |-> IF i = 1 THEN img.tag ELSE "base",
     commands |-> img.layers[i].commands,
     force_build |-> ForceBuild(i)]

\* What the server builds for a request: its base, with one layer more.
ContentOf(request) ==
    IF request.base = 0 THEN [tag |-> request.tag, layers |-> <<request.commands>>]
    ELSE [imgStore[request.base].content EXCEPT !.layers = Append(@, request.commands)]

\* into_result, and what build does with it.
ImgLayerDone(id, status) ==
    \/ /\ status # "Success"
       /\ ImgReturn("Remote")
       /\ UNCHANGED <<img, imgChain>>
    \/ /\ status = "Success"
       /\ imgChain' = Append(imgChain, id)
       /\ IF ThisLayer < Len(img.layers)
            THEN imgPc' = "building" /\ UNCHANGED <<img, imgResult>>
            ELSE ImgReturn("ok") /\ img' = [img EXCEPT !.image_id = id]

\* A GPU specification that does not parse ends the build, after the layers before it.
ImgGpuInvalid ==
    /\ imgPc = "building"
    /\ img.layers[ThisLayer].gpu = "malformed"
    /\ ImgReturn("Invalid")
    /\ UNCHANGED <<img, imgChain, imgPending, imgEntry, imgStore>>

\* ImageGetOrCreate is answered with an image: a finished one, or one to wait for.
ImgAnswer(id, state) ==
    IF state = "built" THEN ImgLayerDone(id, "Success") /\ UNCHANGED <<imgPending, imgEntry>>
    ELSE IF state = "failed" THEN ImgLayerDone(id, "Failure") /\ UNCHANGED <<imgPending, imgEntry>>
    ELSE /\ imgPc' = "joining" /\ imgPending' = id /\ imgEntry' = 0
         /\ UNCHANGED <<img, imgChain, imgResult>>

\* The server has what is asked for.
ImgFound ==
    /\ imgPc = "building"
    /\ img.layers[ThisLayer].gpu # "malformed"
    /\ ~LayerRequest(ThisLayer).force_build
    /\ \E id \in DOMAIN imgStore :
          /\ imgStore[id].state \in {"built", "pending"}
          /\ imgStore[id].content = ContentOf(LayerRequest(ThisLayer))
          /\ ImgAnswer(id, imgStore[id].state)
    /\ UNCHANGED imgStore

\* It is answered with one that is built for it, or could not be.
ImgCreated ==
    /\ imgPc = "building"
    /\ img.layers[ThisLayer].gpu # "malformed"
    /\ Len(imgStore) < MaxImages
    /\ \E state \in {"built", "pending", "failed"} :
          /\ imgStore' = Append(imgStore,
                [content |-> ContentOf(LayerRequest(ThisLayer)),
                 forced |-> LayerRequest(ThisLayer).force_build, state |-> state])
          /\ ImgAnswer(Len(imgStore'), state)

\* ImageGetOrCreate or the join of its stream fails: the build ends with the error.
ImgCallFails ==
    /\ imgPc \in {"building", "joining"}
    /\ ImgReturn("Grpc")
    /\ imgPending' = 0
    /\ UNCHANGED <<img, imgChain, imgEntry, imgStore>>

\* The status a stream reports of a build that is over.
StreamStatus(state) == IF state = "built" THEN {"Success"} ELSE ImageBuildStatus \ {"Success"}

\* image_join_streaming returns a result.
ImgJoined ==
    /\ imgPc = "joining"
    /\ imgStore[imgPending].state # "pending"
    /\ \E status \in StreamStatus(imgStore[imgPending].state) : ImgLayerDone(imgPending, status)
    /\ imgPending' = 0
    /\ UNCHANGED <<imgEntry, imgStore>>

\* Its stream ends without one, after some entries: it is joined again behind them.
ImgJoinAgain ==
    /\ imgPc = "joining"
    /\ imgEntry' \in {imgEntry, 1}
    /\ UNCHANGED <<imgPc, img, imgChain, imgPending, imgResult, imgStore>>

\* A build on the server ends.
ImgFinish(id) ==
    /\ id \in DOMAIN imgStore /\ imgStore[id].state = "pending"
    /\ \E state \in {"built", "failed"} : imgStore' = [imgStore EXCEPT ![id].state = state]
    /\ UNCHANGED <<imgPc, img, imgChain, imgPending, imgEntry, imgResult>>

ImgNext ==
    \/ \E tag \in ImageTags : ImgFromRegistry(tag)
    \/ \E id \in Hydrated : ImgFromId(id) \/ ImgDelete(id) \/ ImgFinish(id)
    \/ \E layer \in Layer : ImgExtend(layer)
    \/ ImgBuild \/ ImgGpuInvalid \/ ImgFound \/ ImgCreated \/ ImgCallFails
    \/ ImgJoined \/ ImgJoinAgain

(* Builds end, every request is answered in some way, and a stream that is *)
(* joined again and again reports in the end what became of its build.     *)
ImgFairness ==
    /\ WF_imgVars(ImgGpuInvalid \/ ImgFound \/ ImgCreated \/ ImgCallFails)
    /\ WF_imgVars(ImgJoined)
    /\ \A id \in Hydrated : WF_imgVars(ImgFinish(id))

ImgSpec == ImgInit /\ [][ImgNext]_imgVars
-----------------------------------------------------------------------------
ImgTypeOK ==
    /\ imgPc \in {"none", "held", "building", "joining", "done"}
    /\ img \in Image
    /\ imgStore \in Seq([content : [tag : ImageTags \cup {""}, layers : Seq(Seq(Commands))],
                         forced : BOOLEAN, state : {"built", "pending", "failed", "deleted"}])
    /\ imgChain \in Seq(DOMAIN imgStore)
    /\ imgPending \in (DOMAIN imgStore) \cup {0}
    /\ imgPc = "joining" <=> imgPending # 0
    /\ imgEntry \in {0, 1}
    /\ imgResult \in {"none", "ok", "NotFound", "Grpc", "Invalid", "Remote"}

(* The image that build returns is made from its tag by the commands of    *)
(* all its layers, in their order, whether they were built, found or       *)
(* waited for, and whatever was built or deleted in between; and from the  *)
(* first layer on that asks to be forced, every layer was built anew: none *)
(* of their images is one the server had (image.rs:298-397).               *)
BuiltAsDescribed ==
    /\ imgResult = "ok" /\ imgChain # <<>> =>
          imgStore[img.image_id].content =
              [tag |-> img.tag, layers |-> [x \in DOMAIN img.layers |-> img.layers[x].commands]]
    /\ \A x \in DOMAIN imgChain : \A y \in 1..x :
          img.layers[y].force_build => imgStore[imgChain[x]].forced

(* build comes to an end, although streams may end without a result again  *)
(* and again (image.rs:363-378).                                           *)
BuildEnds == imgPc = "building" ~> imgPc = "done"
=============================================================================
