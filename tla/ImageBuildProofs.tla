-------------------------- MODULE ImageBuildProofs --------------------------
(***************************************************************************)
(* Proofs about the images that are built layer by layer, for images of    *)
(* any number of layers and a server with any number of images.            *)
(***************************************************************************)
EXTENDS ImageBuild, SequenceTheorems, TLAPS

Entry == [content : [tag : ImageTags \cup {""}, layers : Seq(Seq(Commands))],
          forced : BOOLEAN, state : {"built", "pending", "failed", "deleted"}]

ImgTyped == ImgTypeOK /\ Len(imgStore) <= MaxImages

(* Where a build is: it has layers left while it is under way, all of      *)
(* which can be built; and it is over with the image of the last one.      *)
Progress ==
    /\ imgPc = "held" => img.layers # <<>>
    /\ imgPc \in {"none", "held"} => imgChain = <<>>
    /\ imgPc # "done" => imgResult = "none"
    /\ imgPc \in {"building", "joining"} =>
          /\ Len(imgChain) < Len(img.layers)
          /\ \A x \in DOMAIN img.layers : Buildable(img.layers[x])
    /\ Len(imgChain) <= Len(img.layers)
    /\ imgResult = "ok" /\ imgChain # <<>> =>
          Len(imgChain) = Len(img.layers) /\ img.image_id = imgChain[Len(imgChain)]

(* The first x layers of the image, as the server has to have them, and    *)
(* that it has them under an id.                                           *)
Prefix(x) == [tag |-> img.tag, layers |-> [y \in 1..x |-> img.layers[y].commands]]
Holds(id, x) == imgStore[id].content = Prefix(x) /\ (ForceBuild(x) => imgStore[id].forced)

(* Each image of the chain is that of the layers so far, and so is the one *)
(* that is waited for, of one layer more.                                  *)
Made ==
    /\ \A x \in DOMAIN imgChain : Holds(imgChain[x], x)
    /\ imgPc = "joining" => Holds(imgPending, ThisLayer)

ImgInv == ImgTyped /\ Progress /\ Made
-----------------------------------------------------------------------------
(* A function on 1..n is a sequence of length n.                           *)
LEMMA TupleOf == ASSUME NEW S, NEW n \in Nat, NEW f \in [1..n -> S] PROVE f \in Seq(S) /\ Len(f) = n
BY SeqDef, LenProperties

LEMMA AppendToPrefix ==
    ASSUME NEW S, NEW n \in Nat, NEW f \in [1..(n + 1) -> S], NEW g \in [1..n -> S],
           \A y \in 1..n : g[y] = f[y]
    PROVE  Append(g, f[n + 1]) = f
<1>1. n + 1 \in Nat /\ n + 1 \in 1..(n + 1)
  OBVIOUS
<1>2. f \in Seq(S) /\ Len(f) = n + 1 /\ g \in Seq(S) /\ Len(g) = n /\ f[n + 1] \in S
  BY <1>1, TupleOf
<1> DEFINE h == Append(g, f[n + 1])
<1>3. h \in Seq(S) /\ Len(h) = n + 1 /\ \A y \in 1..n : h[y] = g[y]
  BY <1>2, AppendProperties
<1>4. h[n + 1] = f[n + 1]
  BY <1>2
<1> HIDE DEF h
<1>5. \A y \in 1..Len(h) : h[y] = f[y]
  BY <1>3, <1>4
<1>6. h = f
  BY <1>2, <1>3, <1>5, SeqEqual
<1>7. QED BY <1>6 DEF h

(* What the variables are in a state of the invariant.                     *)
LEMMA Shapes ==
    ASSUME ImgTyped
    PROVE  /\ img \in Image /\ img.layers \in Seq(Layer) /\ Len(img.layers) \in Nat
           /\ DOMAIN img.layers = 1..Len(img.layers)
           /\ \A x \in 1..Len(img.layers) : img.layers[x] \in Layer
           /\ imgStore \in Seq(Entry) /\ Len(imgStore) \in Nat
           /\ DOMAIN imgStore = 1..Len(imgStore) /\ 1..Len(imgStore) \subseteq Hydrated
           /\ \A k \in 1..Len(imgStore) : imgStore[k] \in Entry
           /\ imgChain \in Seq(1..Len(imgStore)) /\ Len(imgChain) \in Nat
           /\ DOMAIN imgChain = 1..Len(imgChain)
           /\ \A x \in 1..Len(imgChain) : imgChain[x] \in 1..Len(imgStore)
<1>1. img \in Image /\ imgStore \in Seq(Entry) /\ imgChain \in Seq(DOMAIN imgStore)
  BY DEF ImgTyped, ImgTypeOK, Entry
<1>2. img.layers \in Seq(Layer)
  BY <1>1 DEF Image
<1>3. DOMAIN imgStore = 1..Len(imgStore) /\ Len(imgStore) \in Nat
  BY <1>1, LenProperties
<1>4. imgChain \in Seq(1..Len(imgStore))
  BY <1>1, <1>3
<1>5. 1..Len(imgStore) \subseteq Hydrated
  <2>1. MaxImages \in Nat /\ Len(imgStore) <= MaxImages
    BY ImageAssumption DEF ImgTyped
  <2>2. \A k \in 1..Len(imgStore) : k \in 1..MaxImages
    BY <1>3, <2>1
  <2>3. QED BY <2>2 DEF Hydrated
<1>6. QED BY <1>1, <1>2, <1>3, <1>4, <1>5, LenProperties, ElementOfSeq

(* A layer without a COPY from the local context has commands that can be  *)
(* built.                                                                  *)
LEMMA BuildableTyped ==
    ASSUME NEW layer \in Layer, Buildable(layer) PROVE layer.commands \in Seq(Commands)
<1>1. CASE layer.commands = <<>>
  BY <1>1, EmptySeq
<1>2. ASSUME NEW c \in Commands \cup LocalCopies, layer.commands = <<c>>
      PROVE  layer.commands \in Seq(Commands)
  <2>1. 1 \in DOMAIN <<c>> /\ <<c>>[1] = c
    OBVIOUS
  <2>2. c \in Commands
    BY <1>2, <2>1 DEF Buildable
  <2>3. QED BY <1>2, <2>2
<1>3. QED BY <1>1, <1>2 DEF Layer

(* What the server builds for the next layer are the layers up to it.      *)
LEMMA NextContent ==
    ASSUME ImgInv, imgPc \in {"building", "joining"}
    PROVE  /\ ThisLayer \in 1..Len(img.layers)
           /\ ContentOf(LayerRequest(ThisLayer)) = Prefix(ThisLayer)
           /\ Prefix(ThisLayer) \in [tag : ImageTags \cup {""}, layers : Seq(Seq(Commands))]
<1>1. ImgTyped /\ Progress /\ Made
  BY DEF ImgInv
<1> DEFINE n == Len(imgChain)
           f == [y \in 1..(n + 1) |-> img.layers[y].commands]
<1>2. n \in Nat /\ ThisLayer = n + 1 /\ n + 1 <= Len(img.layers)
  BY <1>1, Shapes DEF Progress, ThisLayer
<1>3. ThisLayer \in 1..Len(img.layers)
  BY <1>1, <1>2, Shapes
<1>4. \A y \in 1..(n + 1) : img.layers[y].commands \in Seq(Commands)
  BY <1>1, <1>2, Shapes, BuildableTyped DEF Progress
<1>5. f \in [1..(n + 1) -> Seq(Commands)]
  BY <1>4
<1>6. f \in Seq(Seq(Commands)) /\ n + 1 \in Nat
  BY <1>2, <1>5, TupleOf
<1>7. img.tag \in ImageTags \cup {""}
  BY <1>1, Shapes DEF Image
<1>8. Prefix(ThisLayer) = [tag |-> img.tag, layers |-> f]
  BY <1>2 DEF Prefix
<1>9. f[n + 1] = img.layers[n + 1].commands /\ LayerRequest(ThisLayer).commands = f[n + 1]
  BY <1>2 DEF LayerRequest
<1>10. \A y \in 1..n : f[y] = img.layers[y].commands
  BY <1>2
<1> HIDE DEF f
<1>11. Prefix(ThisLayer) \in [tag : ImageTags \cup {""}, layers : Seq(Seq(Commands))]
  <2>1. [tag |-> img.tag, layers |-> f] \in [tag : ImageTags \cup {""}, layers : Seq(Seq(Commands))]
    BY <1>6, <1>7
  <2>2. QED BY <1>8, <2>1
<1>12. ContentOf(LayerRequest(ThisLayer)) = [tag |-> img.tag, layers |-> f]
  <2>1. CASE imgChain = <<>>
    <3>1. n = 0
      BY <2>1, EmptySeq
    <3>2. f = <<f[1]>>
      BY <1>5, <3>1
    <3>3. LayerRequest(ThisLayer).base = 0 /\ LayerRequest(ThisLayer).tag = img.tag
      BY <1>2, <2>1, <3>1 DEF LayerRequest, BaseImage
    <3>4. ContentOf(LayerRequest(ThisLayer)) = [tag |-> img.tag, layers |-> <<f[1]>>]
      BY <1>9, <3>1, <3>3 DEF ContentOf
    <3>5. QED BY <3>2, <3>4
  <2>2. CASE imgChain # <<>>
    <3>1. n \in 1..n /\ n # 0 /\ imgChain[n] \in 1..Len(imgStore)
      BY <1>1, <2>2, Shapes, EmptySeq
    <3>2. LayerRequest(ThisLayer).base = imgChain[n] /\ imgChain[n] # 0
      BY <2>2, <3>1, <1>1, Shapes DEF LayerRequest, BaseImage
    <3> DEFINE g == [y \in 1..n |-> img.layers[y].commands]
               base == imgStore[imgChain[n]].content
    <3>3. base = [tag |-> img.tag, layers |-> g]
      BY <1>1, <3>1, Shapes DEF Made, Holds, Prefix
    <3>4. g \in [1..n -> Seq(Commands)] /\ \A y \in 1..n : g[y] = f[y]
      BY <1>2, <1>4, <1>10
    <3>5. ContentOf(LayerRequest(ThisLayer)) = [base EXCEPT !.layers = Append(@, f[n + 1])]
      BY <1>9, <3>2 DEF ContentOf
    <3> HIDE DEF g, base
    <3>6. Append(g, f[n + 1]) = f
      BY <1>2, <1>5, <3>4, AppendToPrefix
    <3>7. [base EXCEPT !.layers = Append(@, f[n + 1])] = [tag |-> img.tag, layers |-> f]
      <4>1. base.layers = g
        BY <3>3
      <4>2. [base EXCEPT !.layers = Append(@, f[n + 1])] = [base EXCEPT !.layers = f]
        BY <3>6, <4>1
      <4>3. QED BY <3>3, <4>2
    <3>8. QED BY <3>5, <3>7
  <2>3. QED BY <2>1, <2>2
<1>13. QED BY <1>3, <1>8, <1>11, <1>12
-----------------------------------------------------------------------------
(* What the server may do to its images: nothing that was built changes    *)
(* but for its state, and more are built.                                  *)
Grows ==
    /\ imgStore' \in Seq(Entry) /\ Len(imgStore') <= MaxImages
    /\ Len(imgStore) <= Len(imgStore')
    /\ \A k \in 1..Len(imgStore) : /\ imgStore'[k].content = imgStore[k].content
                                  /\ imgStore'[k].forced = imgStore[k].forced

LEMMA StoreTyped ==
    ASSUME ImgTyped, Grows
    PROVE  /\ imgStore' \in Seq(Entry) /\ Len(imgStore') <= MaxImages /\ Len(imgStore') \in Nat
           /\ DOMAIN imgStore' = 1..Len(imgStore')
           /\ 1..Len(imgStore) \subseteq 1..Len(imgStore') /\ 1..Len(imgStore') \subseteq Hydrated
           /\ imgChain \in Seq(DOMAIN imgStore') /\ imgPending \in (DOMAIN imgStore') \cup {0}
<1>1. Len(imgStore) \in Nat /\ Len(imgStore') \in Nat /\ DOMAIN imgStore' = 1..Len(imgStore')
      /\ MaxImages \in Nat
  BY Shapes, LenProperties, ImageAssumption DEF Grows
<1>2. /\ 1..Len(imgStore) \subseteq 1..Len(imgStore')
      /\ \A k \in 1..Len(imgStore') : k \in 1..MaxImages
  BY <1>1 DEF Grows
<1>3. imgChain \in Seq(DOMAIN imgStore')
  BY <1>1, <1>2, Shapes, SeqMonotonic
<1>4. imgPending \in (DOMAIN imgStore') \cup {0}
  BY <1>1, <1>2, Shapes DEF ImgTyped, ImgTypeOK
<1>5. QED BY <1>1, <1>2, <1>3, <1>4 DEF Grows, Hydrated

(* What is held of the first layers stays so while the layers stay.        *)
SameLayers == img'.tag = img.tag /\ img'.layers = img.layers

LEMMA HeldKept ==
    ASSUME ImgTyped, Grows, SameLayers, NEW id \in 1..Len(imgStore), NEW x, Holds(id, x)
    PROVE  Holds(id, x)'
BY DEF Holds, Prefix, ForceBuild, Grows, SameLayers

LEMMA ChainKept ==
    ASSUME ImgInv, Grows, SameLayers
    PROVE  \A x \in 1..Len(imgChain) : \A id \in 1..Len(imgStore) : id = imgChain[x] => Holds(id, x)'
<1>1. ImgTyped /\ \A x \in 1..Len(imgChain) : Holds(imgChain[x], x)
  BY Shapes DEF ImgInv, Made
<1>2. QED BY <1>1, HeldKept

(* The server or nobody moves; the client does not.                        *)
LEMMA Kept ==
    ASSUME ImgInv, Grows, UNCHANGED <<imgPc, img, imgChain, imgPending, imgEntry, imgResult>>
    PROVE  ImgInv'
<1>1. ImgTyped /\ Progress /\ SameLayers
  BY DEF ImgInv, SameLayers
<1>2. ImgTyped'
  BY <1>1, StoreTyped DEF ImgTyped, ImgTypeOK, Entry
<1>3. Progress'
  BY <1>1 DEF Progress, Buildable
<1>4. \A x \in DOMAIN imgChain' : Holds(imgChain[x], x)'
  BY <1>1, ChainKept, Shapes DEF Holds
<1>5. imgPc' = "joining" => Holds(imgPending, ThisLayer)'
  <2>1. imgPc = "joining" => imgPending \in 1..Len(imgStore) /\ Holds(imgPending, ThisLayer)
    BY <1>1, Shapes DEF ImgInv, Made, ImgTyped, ImgTypeOK
  <2>2. imgPc = "joining" => Holds(imgPending, ThisLayer)'
    <3> SUFFICES ASSUME imgPc = "joining" PROVE Holds(imgPending, ThisLayer)'
      OBVIOUS
    <3>1. ThisLayer' = ThisLayer
      BY DEF ThisLayer
    <3>2. \A id \in 1..Len(imgStore) : \A x : Holds(id, x) => Holds(id, x)'
      BY <1>1, HeldKept
    <3>3. QED BY <2>1, <3>1, <3>2 DEF Holds
  <2>3. QED BY <2>2
<1>6. QED BY <1>2, <1>3, <1>4, <1>5 DEF ImgInv, Made

(* The build or the lookup is over, with an error.                         *)
LEMMA Ends ==
    ASSUME ImgInv, Grows, NEW r \in {"NotFound", "Grpc", "Invalid", "Remote"}, ImgReturn(r),
           UNCHANGED <<img, imgChain>>, imgPending' = 0, imgEntry' \in {0, 1}
    PROVE  ImgInv'
<1>1. ImgTyped /\ Progress /\ SameLayers /\ imgPc' = "done" /\ imgResult' = r
  BY DEF ImgInv, SameLayers, ImgReturn
<1>2. ImgTyped'
  BY <1>1, StoreTyped DEF ImgTyped, ImgTypeOK, Entry
<1>3. Progress'
  BY <1>1 DEF Progress
<1>4. \A x \in DOMAIN imgChain' : Holds(imgChain[x], x)'
  BY <1>1, ChainKept, Shapes DEF Holds
<1>5. QED BY <1>1, <1>2, <1>3, <1>4 DEF ImgInv, Made

(* The build has an image of this layer.                                   *)
LEMMA LayerDone ==
    ASSUME ImgInv, Grows, imgPc \in {"building", "joining"},
           NEW id \in 1..Len(imgStore'),
           imgStore'[id].content = Prefix(ThisLayer),
           ForceBuild(ThisLayer) => imgStore'[id].forced,
           NEW status, ImgLayerDone(id, status), imgPending' = 0, imgEntry' \in {0, 1}
    PROVE  ImgInv'
<1>1. ImgTyped /\ Progress
  BY DEF ImgInv
<1>2. CASE status # "Success"
  <2>1. ImgReturn("Remote") /\ UNCHANGED <<img, imgChain>>
    BY <1>2 DEF ImgLayerDone
  <2>2. QED BY <2>1, Ends
<1>3. CASE status = "Success"
  <2> PICK n : n = Len(imgChain)
    OBVIOUS
  <2>1. /\ imgChain' = Append(imgChain, id)
        /\ IF ThisLayer < Len(img.layers)
             THEN imgPc' = "building" /\ UNCHANGED <<img, imgResult>>
             ELSE ImgReturn("ok") /\ img' = [img EXCEPT !.image_id = id]
    BY <1>3 DEF ImgLayerDone
  <2>2. n \in Nat /\ ThisLayer = n + 1 /\ n + 1 <= Len(img.layers) /\ Len(img.layers) \in Nat
    BY <1>1, Shapes DEF Progress, ThisLayer
  <2>3. id \in Hydrated /\ id \in DOMAIN imgStore' /\ imgChain \in Seq(DOMAIN imgStore')
    BY <1>1, StoreTyped
  <2>4. img.layers \in Seq(Layer) /\ img \in Image
    BY <1>1, Shapes
  <2>5. img' \in Image /\ SameLayers
    <3>1. CASE ThisLayer < Len(img.layers)
      BY <2>1, <2>4, <3>1 DEF SameLayers
    <3>2. CASE ~(ThisLayer < Len(img.layers))
      BY <2>1, <2>3, <2>4, <3>2 DEF SameLayers, Image
    <3>3. QED BY <3>1, <3>2
  <2>6. /\ imgChain' \in Seq(DOMAIN imgStore') /\ Len(imgChain') = n + 1
        /\ imgChain'[n + 1] = id /\ \A x \in 1..n : imgChain'[x] = imgChain[x]
        /\ DOMAIN imgChain' = 1..(n + 1)
    <3>1. imgChain \in Seq(DOMAIN imgStore') /\ id \in DOMAIN imgStore'
      BY <2>3
    <3>2. QED BY <2>1, <3>1, AppendProperties, LenProperties
  <2>7. imgPc' \in {"building", "done"} /\ imgResult' \in {"none", "ok"}
        /\ (imgPc' = "building" => imgResult' = "none" /\ ThisLayer < Len(img.layers))
        /\ (imgPc' = "done" => ~(ThisLayer < Len(img.layers)) /\ img'.image_id = id)
        /\ (imgResult' = "ok" => imgPc' = "done")
    BY <1>1, <2>1, <2>4 DEF ImgReturn, Progress, Image
  <2>8. ImgTyped'
    BY <1>1, <2>5, <2>6, <2>7, StoreTyped DEF ImgTyped, ImgTypeOK, Entry
  <2>9. Progress'
    <3>1. imgPc' \notin {"none", "held", "joining"}
      BY <2>7
    <3>2. \A x \in DOMAIN img'.layers : Buildable(img'.layers[x])
      BY <1>1, <2>5 DEF Progress, SameLayers
    <3>3. Len(imgChain') <= Len(img'.layers)
      BY <2>2, <2>5, <2>6 DEF SameLayers
    <3>4. imgPc' = "building" => Len(imgChain') < Len(img'.layers)
      BY <2>2, <2>5, <2>6, <2>7 DEF SameLayers
    <3>5. imgResult' = "ok" => Len(imgChain') = Len(img'.layers)
                               /\ img'.image_id = imgChain'[Len(imgChain')]
      BY <2>2, <2>5, <2>6, <2>7 DEF SameLayers
    <3>6. QED BY <2>7, <3>1, <3>2, <3>3, <3>4, <3>5 DEF Progress, Buildable
  <2>10. Made'
    <3>1. \A x \in 1..n : \A k : k = imgChain'[x] => Holds(k, x)'
      <4>1. \A x \in 1..n : imgChain[x] \in 1..Len(imgStore)
        BY <1>1, Shapes
      <4>2. QED BY <2>5, <2>6, <4>1, ChainKept
    <3>2. /\ imgStore'[imgChain'[n + 1]].content = Prefix(n + 1)'
          /\ ForceBuild(n + 1)' => imgStore'[imgChain'[n + 1]].forced
      <4>1. Prefix(n + 1)' = Prefix(n + 1) /\ ForceBuild(n + 1)' = ForceBuild(n + 1)
        BY <2>5 DEF Prefix, ForceBuild, SameLayers
      <4>2. QED BY <2>2, <2>6, <4>1
    <3>3. \A x \in DOMAIN imgChain' : x \in 1..n \/ x = n + 1
      BY <2>2, <2>6
    <3>4. \A x \in DOMAIN imgChain' : Holds(imgChain[x], x)'
      BY <3>1, <3>2, <3>3 DEF Holds
    <3>5. QED BY <2>7, <3>4 DEF Made
  <2>11. QED BY <2>8, <2>9, <2>10 DEF ImgInv
<1>4. QED BY <1>2, <1>3

(* The build has an answer for this layer: an image that is there, or one  *)
(* that will be.                                                           *)
LEMMA Answered ==
    ASSUME ImgInv, Grows, imgPc = "building", NEW id \in 1..Len(imgStore'),
           imgStore'[id].content = Prefix(ThisLayer),
           ForceBuild(ThisLayer) => imgStore'[id].forced,
           NEW state, ImgAnswer(id, state)
    PROVE  ImgInv'
<1>1. ImgTyped /\ Progress
  BY DEF ImgInv
<1>2. imgPending = 0 /\ imgEntry \in {0, 1}
  BY <1>1 DEF ImgTyped, ImgTypeOK
<1>3. CASE state \in {"built", "failed"}
  <2>1. PICK status : ImgLayerDone(id, status) /\ UNCHANGED <<imgPending, imgEntry>>
    BY <1>3 DEF ImgAnswer
  <2>2. imgPending' = 0 /\ imgEntry' \in {0, 1}
    BY <1>2, <2>1
  <2>3. imgPc \in {"building", "joining"} /\ ImgLayerDone(id, status)
    BY <2>1
  <2>4. QED BY <2>2, <2>3, LayerDone
<1>4. CASE state \notin {"built", "failed"}
  <2>1. /\ imgPc' = "joining" /\ imgPending' = id /\ imgEntry' = 0
        /\ UNCHANGED <<img, imgChain, imgResult>>
    BY <1>4 DEF ImgAnswer
  <2>2. SameLayers /\ id \in DOMAIN imgStore' /\ id # 0
    BY <1>1, <2>1, StoreTyped DEF SameLayers
  <2>3. ImgTyped'
    BY <1>1, <2>1, <2>2, StoreTyped DEF ImgTyped, ImgTypeOK, Entry
  <2>4. Progress'
    BY <1>1, <2>1 DEF Progress, Buildable
  <2>5. \A x \in DOMAIN imgChain' : Holds(imgChain[x], x)'
    BY <1>1, <2>1, <2>2, ChainKept, Shapes DEF Holds
  <2>6. Holds(imgPending, ThisLayer)'
    BY <2>1 DEF Holds, Prefix, ForceBuild, ThisLayer
  <2>7. QED BY <2>3, <2>4, <2>5, <2>6 DEF ImgInv, Made
<1>5. QED BY <1>3, <1>4

(* The server has one image more.                                          *)
LEMMA Appended ==
    ASSUME ImgTyped, Len(imgStore) < MaxImages, NEW e \in Entry, imgStore' = Append(imgStore, e)
    PROVE  Grows /\ Len(imgStore') \in 1..Len(imgStore') /\ imgStore'[Len(imgStore')] = e
<1>1. imgStore \in Seq(Entry) /\ Len(imgStore) \in Nat /\ MaxImages \in Nat
  BY Shapes, ImageAssumption
<1>2. /\ imgStore' \in Seq(Entry) /\ Len(imgStore') = Len(imgStore) + 1
      /\ \A k \in 1..Len(imgStore) : imgStore'[k] = imgStore[k]
      /\ imgStore'[Len(imgStore) + 1] = e
  BY <1>1, AppendProperties
<1>3. QED BY <1>1, <1>2 DEF Grows

(* One of the images of the server is in another state.                    *)
LEMMA StateChanges ==
    ASSUME ImgTyped, NEW id \in DOMAIN imgStore,
           NEW state \in {"built", "pending", "failed", "deleted"},
           imgStore' = [imgStore EXCEPT ![id].state = state]
    PROVE  Grows
<1>1. imgStore \in Seq(Entry) /\ Len(imgStore) \in Nat /\ DOMAIN imgStore = 1..Len(imgStore)
      /\ imgStore[id] \in Entry
  BY Shapes
<1> DEFINE e == [imgStore[id] EXCEPT !.state = state]
<1>2. e \in Entry /\ e.content = imgStore[id].content /\ e.forced = imgStore[id].forced
  BY <1>1 DEF Entry
<1>3. imgStore' = [imgStore EXCEPT ![id] = e]
  OBVIOUS
<1> HIDE DEF e
<1>4. imgStore' \in Seq(Entry) /\ Len(imgStore') = Len(imgStore)
      /\ \A k \in 1..Len(imgStore) : imgStore'[k] = IF k = id THEN e ELSE imgStore[k]
  <2>1. imgStore' \in [1..Len(imgStore) -> Entry]
    BY <1>1, <1>2, <1>3, Shapes
  <2>2. imgStore' \in Seq(Entry) /\ Len(imgStore') = Len(imgStore)
    BY <1>1, <2>1, TupleOf
  <2>3. QED BY <1>1, <1>3, <2>2
<1>5. QED BY <1>1, <1>2, <1>4 DEF Grows, ImgTyped

(* A step that leaves the server alone.                                    *)
LEMMA StoreStays == ASSUME ImgTyped, UNCHANGED imgStore PROVE Grows
BY Shapes DEF Grows, ImgTyped
-----------------------------------------------------------------------------
LEMMA ImgInitInv == ImgInit => ImgInv
<1> SUFFICES ASSUME ImgInit PROVE ImgInv
  OBVIOUS
<1>1. PICK tag \in ImageTags, state \in {"built", "pending"} :
         imgStore = <<[content |-> [tag |-> tag, layers |-> << <<>> >>], forced |-> FALSE, state |-> state]>>
  BY DEF ImgInit
<1>2. /\ imgPc = "none" /\ img = NoImage /\ imgChain = <<>>
      /\ imgPending = 0 /\ imgEntry = 0 /\ imgResult = "none"
  BY DEF ImgInit
<1>3. imgStore \in Seq(Entry) /\ Len(imgStore) = 1
  <2>1. << <<>> >> \in Seq(Seq(Commands))
    OBVIOUS
  <2>2. [content |-> [tag |-> tag, layers |-> << <<>> >>], forced |-> FALSE, state |-> state] \in Entry
    BY <2>1 DEF Entry
  <2>3. QED BY <1>1, <2>2
<1>4. img \in Image
  <2>1. img = [image_id |-> 0, tag |-> "", layers |-> <<>>] /\ <<>> \in Seq(Layer)
    BY <1>2, EmptySeq DEF NoImage
  <2>2. QED BY <2>1 DEF Image
<1>5. ImgTyped
  <2>1. imgChain \in Seq(DOMAIN imgStore)
    BY <1>2, EmptySeq
  <2>2. Len(imgStore) <= MaxImages
    <3>1. MaxImages \in Nat /\ MaxImages # 0
      BY ImageAssumption
    <3>2. 1 <= MaxImages
      BY <3>1
    <3>3. QED BY <1>3, <3>2
  <2>3. ImgTypeOK
    BY <1>2, <1>3, <1>4, <2>1 DEF ImgTypeOK, Entry
  <2>4. QED BY <2>2, <2>3 DEF ImgTyped
<1>6. Progress
  <2>1. Len(imgChain) = 0 /\ Len(img.layers) = 0
    BY <1>2, EmptySeq DEF NoImage
  <2>2. QED BY <1>2, <2>1 DEF Progress
<1>7. Made
  BY <1>2 DEF Made
<1>8. QED BY <1>5, <1>6, <1>7 DEF ImgInv

(* The client holds an image: a reference is made or found, or extended.   *)
LEMMA HoldsImage ==
    ASSUME ImgInv, imgPc \in {"none", "held"}, imgPc' = "held", img' \in Image, img'.layers # <<>>,
           UNCHANGED <<imgChain, imgPending, imgEntry, imgResult, imgStore>>
    PROVE  ImgInv'
<1>1. ImgTyped /\ Progress
  BY DEF ImgInv
<1>2. imgChain = <<>> /\ imgResult = "none" /\ DOMAIN imgChain = {} /\ Len(imgChain) = 0
  BY <1>1 DEF Progress
<1>3. ImgTyped'
  BY <1>1 DEF ImgTyped, ImgTypeOK
<1>4. Len(img'.layers) \in Nat
  BY LenProperties DEF Image
<1>5. Progress'
  BY <1>2, <1>4 DEF Progress
<1>6. QED BY <1>2, <1>3, <1>5 DEF ImgInv, Made

LEMMA EmptyLayerTyped == <<EmptyLayer>> \in Seq(Layer) /\ <<EmptyLayer>> # <<>>
BY DEF EmptyLayer, Layer, GpuSpecs

LEMMA ImgStep == ImgInv /\ [ImgNext]_imgVars => ImgInv'
<1> SUFFICES ASSUME ImgInv, [ImgNext]_imgVars PROVE ImgInv'
  OBVIOUS
<1>1. ImgTyped /\ Progress /\ Made
  BY DEF ImgInv
<1>2. ASSUME NEW tag \in ImageTags, ImgFromRegistry(tag) PROVE ImgInv'
  <2>1. img' \in Image /\ img'.layers # <<>>
    BY <1>2, EmptyLayerTyped DEF ImgFromRegistry, ImageFromRegistry, Image
  <2>2. QED BY <1>2, <2>1, HoldsImage DEF ImgFromRegistry
<1>3. ASSUME NEW id \in Hydrated, ImgFromId(id) PROVE ImgInv'
  <2>1. imgPc = "none" /\ UNCHANGED <<imgChain, imgPending, imgEntry, imgStore>>
    BY <1>3 DEF ImgFromId
  <2>2. CASE imgPc' = "held" /\ img' = ImageFromId(id) /\ UNCHANGED imgResult
    <3>1. img' \in Image /\ img'.layers # <<>>
      BY <2>2, EmptyLayerTyped DEF ImageFromId, Image
    <3>2. QED BY <2>1, <2>2, <3>1, HoldsImage
  <2>3. ASSUME NEW r \in {"NotFound", "Grpc"}, ImgReturn(r), UNCHANGED img PROVE ImgInv'
    <3>1. imgPending' = 0 /\ imgEntry' \in {0, 1} /\ Grows
      BY <1>1, <2>1, StoreStays DEF ImgTyped, ImgTypeOK
    <3>2. UNCHANGED <<img, imgChain>> /\ r \in {"NotFound", "Grpc", "Invalid", "Remote"}
      BY <2>1, <2>3
    <3>3. QED BY <2>3, <3>1, <3>2, Ends
  <2>4. QED BY <1>3, <2>2, <2>3 DEF ImgFromId
<1>4. ASSUME NEW id \in Hydrated, ImgDelete(id) PROVE ImgInv'
  <2>1. Grows
    BY <1>1, <1>4, StateChanges DEF ImgDelete, Available
  <2>2. QED BY <1>4, <2>1, Kept DEF ImgDelete
<1>5. ASSUME NEW id \in Hydrated, ImgFinish(id) PROVE ImgInv'
  <2>1. PICK state \in {"built", "failed"} : imgStore' = [imgStore EXCEPT ![id].state = state]
    BY <1>5 DEF ImgFinish
  <2>2. id \in DOMAIN imgStore /\ state \in {"built", "pending", "failed", "deleted"}
    BY <1>5 DEF ImgFinish
  <2>3. Grows
    BY <1>1, <2>1, <2>2, StateChanges
  <2>4. QED BY <1>5, <2>3, Kept DEF ImgFinish
<1>6. ASSUME NEW layer \in Layer, ImgExtend(layer) PROVE ImgInv'
  <2>1. img \in Image /\ img.layers \in Seq(Layer) /\ img.layers # <<>>
    BY <1>1, <1>6, Shapes DEF Progress, ImgExtend
  <2>2. /\ Append(img.layers, layer) \in Seq(Layer) /\ Append(img.layers, layer) # <<>>
    BY <2>1, AppendProperties, EmptySeq
  <2>3. img' \in Image /\ img'.layers # <<>>
    <3>1. CASE layer.commands = <<>>
      BY <1>6, <2>1, <3>1 DEF ImgExtend, DockerfileCommands
    <3>2. CASE layer.commands # <<>>
      BY <1>6, <2>1, <2>2, <3>2 DEF ImgExtend, DockerfileCommands, Image
    <3>3. QED BY <3>1, <3>2
  <2>4. QED BY <1>6, <2>3, HoldsImage DEF ImgExtend
<1>7. ASSUME ImgBuild PROVE ImgInv'
  <2>1. imgPc = "held" /\ UNCHANGED <<img, imgChain, imgPending, imgEntry, imgStore>>
    BY <1>7 DEF ImgBuild
  <2>2. /\ Grows /\ imgChain = <<>> /\ imgPending' = 0 /\ imgEntry' \in {0, 1}
        /\ img.layers # <<>> /\ imgResult = "none"
    BY <1>1, <2>1, StoreStays DEF Progress, ImgTyped, ImgTypeOK
  <2>3. DOMAIN imgChain' = {} /\ Len(imgChain') = 0 /\ imgChain' = <<>>
    BY <2>1, <2>2
  <2>4. Len(img.layers) \in Nat /\ 0 < Len(img.layers)
    BY <1>1, <2>2, Shapes, EmptySeq
  <2>5. CASE ImgReturn("ok")
    <3>1. imgPc' = "done" /\ imgResult' = "ok"
      BY <2>5 DEF ImgReturn
    <3>2. ImgTyped'
      BY <1>1, <2>1, <2>2, <3>1 DEF ImgTyped, ImgTypeOK
    <3>3. Progress'
      BY <2>1, <2>3, <2>4, <3>1 DEF Progress
    <3>4. QED BY <2>3, <3>1, <3>2, <3>3 DEF ImgInv, Made
  <2>6. CASE ImgReturn("Invalid")
    BY <2>1, <2>2, <2>6, Ends
  <2>7. CASE /\ \A x \in DOMAIN img.layers : Buildable(img.layers[x])
             /\ imgPc' = "building" /\ UNCHANGED imgResult
    <3>1. ImgTyped'
      BY <1>1, <2>1, <2>2, <2>7 DEF ImgTyped, ImgTypeOK
    <3>2. \A x \in DOMAIN img'.layers : Buildable(img'.layers[x])
      BY <2>1, <2>7
    <3>3. Progress'
      BY <2>1, <2>2, <2>3, <2>4, <2>7, <3>2 DEF Progress, Buildable
    <3>4. QED BY <2>3, <2>7, <3>1, <3>3 DEF ImgInv, Made
  <2>8. QED BY <1>7, <2>5, <2>6, <2>7 DEF ImgBuild
<1>8. ASSUME ImgGpuInvalid PROVE ImgInv'
  <2>1. imgPending' = 0 /\ imgEntry' \in {0, 1} /\ Grows
    BY <1>1, <1>8, StoreStays DEF ImgGpuInvalid, ImgTyped, ImgTypeOK
  <2>2. QED BY <1>8, <2>1, Ends DEF ImgGpuInvalid
<1>9. ASSUME ImgFound PROVE ImgInv'
  <2>1. /\ imgPc = "building" /\ UNCHANGED imgStore
        /\ ~LayerRequest(ThisLayer).force_build
    BY <1>9 DEF ImgFound
  <2>2. PICK id \in DOMAIN imgStore :
           /\ imgStore[id].content = ContentOf(LayerRequest(ThisLayer))
           /\ ImgAnswer(id, imgStore[id].state)
    BY <1>9 DEF ImgFound
  <2>3. Grows /\ id \in 1..Len(imgStore')
    BY <1>1, <2>1, StoreStays, Shapes
  <2>4. imgStore'[id].content = Prefix(ThisLayer)
    BY <2>1, <2>2, NextContent
  <2>5. ~ForceBuild(ThisLayer)
    BY <2>1 DEF LayerRequest
  <2>6. QED BY <2>1, <2>2, <2>3, <2>4, <2>5, Answered
<1>10. ASSUME ImgCreated PROVE ImgInv'
  <2>1. imgPc = "building" /\ Len(imgStore) < MaxImages
    BY <1>10 DEF ImgCreated
  <2>2. PICK state \in {"built", "pending", "failed"} :
           /\ imgStore' = Append(imgStore,
                 [content |-> ContentOf(LayerRequest(ThisLayer)),
                  forced |-> LayerRequest(ThisLayer).force_build, state |-> state])
           /\ ImgAnswer(Len(imgStore'), state)
    BY <1>10 DEF ImgCreated
  <2> DEFINE e == [content |-> ContentOf(LayerRequest(ThisLayer)),
                   forced |-> LayerRequest(ThisLayer).force_build, state |-> state]
  <2>3. /\ ContentOf(LayerRequest(ThisLayer)) = Prefix(ThisLayer)
        /\ Prefix(ThisLayer) \in [tag : ImageTags \cup {""}, layers : Seq(Seq(Commands))]
    BY <2>1, NextContent
  <2>4. LayerRequest(ThisLayer).force_build = ForceBuild(ThisLayer) /\ ForceBuild(ThisLayer) \in BOOLEAN
    BY DEF LayerRequest, ForceBuild
  <2>5. e \in Entry /\ e.content = Prefix(ThisLayer) /\ e.forced = ForceBuild(ThisLayer)
    BY <2>3, <2>4 DEF Entry
  <2>6. imgStore' = Append(imgStore, e)
    BY <2>2
  <2> HIDE DEF e
  <2>7. Grows /\ Len(imgStore') \in 1..Len(imgStore') /\ imgStore'[Len(imgStore')] = e
    BY <1>1, <2>1, <2>5, <2>6, Appended
  <2>8. QED BY <2>1, <2>2, <2>5, <2>7, Answered
<1>11. ASSUME ImgCallFails PROVE ImgInv'
  <2>1. imgPending' = 0 /\ imgEntry' \in {0, 1} /\ Grows
    BY <1>1, <1>11, StoreStays DEF ImgCallFails, ImgTyped, ImgTypeOK
  <2>2. QED BY <1>11, <2>1, Ends DEF ImgCallFails
<1>12. ASSUME ImgJoined PROVE ImgInv'
  <2>1. PICK status \in StreamStatus(imgStore[imgPending].state) : ImgLayerDone(imgPending, status)
    BY <1>12 DEF ImgJoined
  <2>2. imgPc \in {"building", "joining"} /\ imgPending' = 0 /\ imgEntry' \in {0, 1} /\ Grows
    BY <1>1, <1>12, StoreStays DEF ImgJoined, ImgTyped, ImgTypeOK
  <2>3. /\ imgPending \in 1..Len(imgStore')
        /\ imgStore'[imgPending].content = Prefix(ThisLayer)
        /\ ForceBuild(ThisLayer) => imgStore'[imgPending].forced
    BY <1>1, <1>12, Shapes DEF ImgJoined, Made, Holds, ImgTyped, ImgTypeOK
  <2>4. QED BY <2>1, <2>2, <2>3, LayerDone
<1>13. ASSUME ImgJoinAgain PROVE ImgInv'
  <2>1. ImgTyped' /\ Progress'
    BY <1>1, <1>13 DEF ImgJoinAgain, ImgTyped, ImgTypeOK, Progress, Buildable
  <2>2. Made'
    BY <1>1, <1>13 DEF ImgJoinAgain, Made, Holds, Prefix, ForceBuild, ThisLayer
  <2>3. QED BY <2>1, <2>2 DEF ImgInv
<1>14. ASSUME UNCHANGED imgVars PROVE ImgInv'
  BY <1>1, <1>14, StoreStays, Kept DEF imgVars
<1>15. QED
  BY <1>2, <1>3, <1>4, <1>5, <1>6, <1>7, <1>8, <1>9, <1>10, <1>11, <1>12, <1>13, <1>14 DEF ImgNext

(* The images are as they have to be throughout (image.rs).                *)
THEOREM ImgInvariant == ImgSpec => []ImgInv
BY ImgInitInv, ImgStep, PTL DEF ImgSpec

(* The images on the client and on the server have their types, and the    *)
(* client joins a stream exactly while it waits for an image.              *)
THEOREM ImagesTyped == ImgSpec => []ImgTypeOK
<1>1. ImgInv => ImgTypeOK
  BY DEF ImgInv, ImgTyped
<1>2. QED BY <1>1, ImgInvariant, PTL

(* The image a build returns is its tag with the commands of all layers in *)
(* their order, and no layer from the first forced one on was found rather *)
(* than built (image.rs:298-397).                                          *)
THEOREM BuildsWhatWasDescribed == ImgSpec => []BuiltAsDescribed
<1>1. ASSUME ImgInv PROVE BuiltAsDescribed
  <2>1. ImgTyped /\ Progress /\ \A x \in DOMAIN imgChain : Holds(imgChain[x], x)
    BY <1>1 DEF ImgInv, Made
  <2>2. DOMAIN imgChain = 1..Len(imgChain) /\ DOMAIN img.layers = 1..Len(img.layers)
        /\ Len(imgChain) \in Nat
    BY <2>1, Shapes
  <2>3. ASSUME imgResult = "ok", imgChain # <<>>
        PROVE  imgStore[img.image_id].content =
                  [tag |-> img.tag, layers |-> [x \in DOMAIN img.layers |-> img.layers[x].commands]]
    <3>1. Len(imgChain) = Len(img.layers) /\ img.image_id = imgChain[Len(imgChain)]
      BY <2>1, <2>3 DEF Progress
    <3>2. Len(imgChain) \in 1..Len(imgChain)
      BY <2>1, <2>2, <2>3, Shapes, EmptySeq
    <3>3. QED BY <2>1, <2>2, <3>1, <3>2 DEF Holds, Prefix
  <2>4. ASSUME NEW x \in DOMAIN imgChain, NEW y \in 1..x, img.layers[y].force_build
        PROVE  imgStore[imgChain[x]].forced
    BY <2>1, <2>4 DEF Holds, ForceBuild
  <2>5. QED BY <2>3, <2>4 DEF BuiltAsDescribed
<1>2. QED BY <1>1, ImgInvariant, PTL
-----------------------------------------------------------------------------
(* What is left of a build: its layers, and for the one it is at, whether  *)
(* it is still to be asked for or only waited for.                         *)
LayersLeft == 2 * (Len(img.layers) - Len(imgChain)) + (IF imgPc = "building" THEN 1 ELSE 0)

Building == imgPc \in {"building", "joining"}

\* A build is over, or stays where it is, or has less left.
BuildGoesOn ==
    \/ imgPc' = "done"
    \/ UNCHANGED <<imgPc, imgChain, img>>
    \/ Building' /\ img' = img /\ LayersLeft' < LayersLeft

BuildComesToAnEnd == [][Building => BuildGoesOn]_imgVars

\* A layer that is done leaves one less.
LEMMA LayerDoneGoesOn ==
    ASSUME ImgInv, Building, NEW id \in 1..Len(imgStore'), Len(imgStore) <= Len(imgStore'),
           Len(imgStore') \in Nat, NEW status, ImgLayerDone(id, status)
    PROVE  BuildGoesOn
<1>1. ImgTyped /\ Len(imgChain) < Len(img.layers)
  BY DEF ImgInv, Progress, Building
<1>2. Len(imgChain) \in Nat /\ Len(img.layers) \in Nat /\ imgChain \in Seq(1..Len(imgStore)) /\ Len(imgStore) \in Nat
  BY <1>1, Shapes
<1>3. CASE status # "Success" \/ ~(ThisLayer < Len(img.layers))
  BY <1>3 DEF ImgLayerDone, ImgReturn, BuildGoesOn
<1>4. CASE status = "Success" /\ ThisLayer < Len(img.layers)
  <2>1. imgChain' = Append(imgChain, id) /\ imgPc' = "building" /\ img' = img
    BY <1>4 DEF ImgLayerDone
  <2>2. imgChain \in Seq(Nat) /\ id \in Nat
    BY <1>2, SeqMonotonic
  <2>3. Len(Append(imgChain, id)) = Len(imgChain) + 1
    BY <2>2, AppendProperties
  <2>4. Len(imgChain') = Len(imgChain) + 1
    BY <2>1, <2>3
  <2>5. LayersLeft' < LayersLeft
    <3> DEFINE n == Len(img.layers)
               c == Len(imgChain)
    <3>1. LayersLeft = 2 * (n - c) + 1 \/ LayersLeft = 2 * (n - c) + 0
      BY DEF LayersLeft
    <3>2. LayersLeft' = 2 * (n - (c + 1)) + 1
      BY <2>1, <2>4 DEF LayersLeft
    <3>3. n \in Nat /\ c \in Nat
      BY <1>2
    <3> HIDE DEF n, c
    <3>4. QED BY <3>1, <3>2, <3>3
  <2>6. QED BY <2>1, <2>5 DEF BuildGoesOn, Building
<1>5. QED BY <1>3, <1>4

\* An answer to ImageGetOrCreate is a layer that is done, or one to wait for.
LEMMA AnswerGoesOn ==
    ASSUME ImgInv, imgPc = "building", NEW id \in 1..Len(imgStore'), Len(imgStore) <= Len(imgStore'),
           Len(imgStore') \in Nat, NEW state, ImgAnswer(id, state)
    PROVE  BuildGoesOn
<1>1. CASE state \in {"built", "failed"}
  BY <1>1, LayerDoneGoesOn DEF ImgAnswer, Building
<1>2. CASE state \notin {"built", "failed"}
  <2>1. imgPc' = "joining" /\ UNCHANGED <<img, imgChain>>
    BY <1>2 DEF ImgAnswer
  <2>2. Len(imgChain) \in Nat /\ Len(img.layers) \in Nat
    BY Shapes DEF ImgInv
  <2>3. LayersLeft' < LayersLeft
    BY <2>1, <2>2 DEF LayersLeft
  <2>4. QED BY <2>1, <2>3 DEF BuildGoesOn, Building
<1>3. QED BY <1>1, <1>2

(* A build asks for each layer once and waits for it at most once, so that *)
(* it is over after two steps for each layer, but for the streams that end *)
(* without a result; what others build and delete meanwhile never sets it  *)
(* back: what BuildEnds rests on, for any layers and images (image.rs:     *)
(* 298-397).                                                               *)
THEOREM BuildsMoveOn == ImgSpec => BuildComesToAnEnd
<1>1. ASSUME ImgInv, [ImgNext]_imgVars, Building PROVE BuildGoesOn
  <2>1. /\ DOMAIN imgStore = 1..Len(imgStore) /\ Len(imgStore) \in Nat /\ imgStore \in Seq(Entry)
        /\ imgPending \in (DOMAIN imgStore) \cup {0} /\ (imgPc = "joining" => imgPending # 0)
    BY <1>1, Shapes DEF ImgInv, ImgTyped, ImgTypeOK
  <2>2. CASE ImgGpuInvalid \/ ImgCallFails
    BY <2>2 DEF ImgGpuInvalid, ImgCallFails, ImgReturn, BuildGoesOn
  <2>3. CASE ImgFound
    <3>1. imgPc = "building" /\ imgStore' = imgStore
      BY <2>3 DEF ImgFound
    <3>2. PICK id \in 1..Len(imgStore) : ImgAnswer(id, imgStore[id].state)
      BY <2>1, <2>3 DEF ImgFound
    <3>3. Len(imgStore') = Len(imgStore)
      BY <3>1
    <3>4. QED BY <1>1, <2>1, <3>1, <3>2, <3>3, AnswerGoesOn
  <2>4. CASE ImgCreated
    <3>1. PICK state \in {"built", "pending", "failed"} :
              /\ imgStore' = Append(imgStore,
                    [content |-> ContentOf(LayerRequest(ThisLayer)),
                     forced |-> LayerRequest(ThisLayer).force_build, state |-> state])
              /\ ImgAnswer(Len(imgStore'), state)
      BY <2>4 DEF ImgCreated
    <3>2. \A e : Len(Append(imgStore, e)) = Len(imgStore) + 1
      BY <2>1
    <3>3. Len(imgStore') = Len(imgStore) + 1
      BY <3>1, <3>2
    <3>4. Len(imgStore') \in 1..Len(imgStore') /\ Len(imgStore) <= Len(imgStore') /\ Len(imgStore') \in Nat
      BY <2>1, <3>3
    <3>5. imgPc = "building"
      BY <2>4 DEF ImgCreated
    <3>6. QED BY <1>1, <3>1, <3>4, <3>5, AnswerGoesOn
  <2>5. CASE ImgJoined
    <3>1. imgPc = "joining" /\ imgStore' = imgStore /\ \E status \in StreamStatus(imgStore[imgPending].state) : ImgLayerDone(imgPending, status)
      BY <2>5 DEF ImgJoined
    <3>2. imgPending \in 1..Len(imgStore') /\ Len(imgStore') = Len(imgStore)
      BY <2>1, <3>1
    <3>3. QED BY <1>1, <2>1, <3>1, <3>2, LayerDoneGoesOn
  <2>6. CASE ImgJoinAgain \/ (\E id \in Hydrated : ImgDelete(id) \/ ImgFinish(id)) \/ UNCHANGED imgVars
    BY <2>6 DEF ImgJoinAgain, ImgDelete, ImgFinish, imgVars, BuildGoesOn
  <2>7. /\ ~\E tag \in ImageTags : ImgFromRegistry(tag)
        /\ ~\E id \in Hydrated : ImgFromId(id)
        /\ ~\E layer \in Layer : ImgExtend(layer)
        /\ ~ImgBuild
    BY <1>1 DEF Building, ImgFromRegistry, ImgFromId, ImgExtend, ImgBuild
  <2>8. QED BY <1>1, <2>2, <2>3, <2>4, <2>5, <2>6, <2>7 DEF ImgNext
<1>2. ImgInv /\ [ImgNext]_imgVars => [Building => BuildGoesOn]_imgVars
  BY <1>1
<1>3. QED BY <1>2, ImgInvariant, PTL DEF ImgSpec, BuildComesToAnEnd
=============================================================================
