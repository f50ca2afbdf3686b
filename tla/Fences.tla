-------------------------------- MODULE Fences --------------------------------
(***************************************************************************)
(* The file descriptors behind the layers of a display: HdiFd              *)
(* (hdi_shared_fd.h), HdiLayer and HdiLayerBuffer (hdi_layer.cpp), the     *)
(* fences HdiDisplay hands out (hdi_display.cpp) and the out-fence of      *)
(* HdiDrmComposition::Apply.  An HDI call takes the fence it is given; a   *)
(* buffer's descriptor stays the caller's and is duplicated.  The client   *)
(* and the HDI share the table of the process: a descriptor closed too     *)
(* often is soon somebody else's.                                          *)
(***************************************************************************)
EXTENDS Integers, FiniteSets

CONSTANTS
  AppLayers,    \* layers a client creates; each stands for the one that lives now
  ClientLayer,  \* HdiDisplay::mClientLayer
  MaxFd,        \* the last descriptor of the process
  MaxFrames,    \* bound: frames are numbered 1 .. MaxFrames, round
  MaxLost       \* bound: descriptors that nobody will close

ASSUME FencesAssumption ==
  /\ ClientLayer \notin AppLayers
  /\ MaxFd \in Nat \ {0, 1} /\ MaxFrames \in Nat \ {0} /\ MaxLost \in Nat

VARIABLES
  file,         \* kernel: the frame an open descriptor is the out-fence of, or ClientFile
  layersAlive,  \* the app layers there are
  bufferFd, acquireFence, releaseFence,  \* per layer: HdiLayerBuffer::mFd, and the HdiFds
  theirs,       \* the descriptors the client owns
  lost,         \* the descriptors taken and dropped
  compHasClient,\* the DRM composition's mCompLayers holds the client layer
  shown,        \* history: the last frame the kernel took
  told,         \* the frame of the fence that the last Commit returned
  appFence      \* some app layer was reported with a fence

fenceVars == <<file, layersAlive, bufferFd, acquireFence, releaseFence, theirs, lost, compHasClient,
               shown, told, appFence>>

Fds == 0 .. MaxFd
NoFd == -1
Closed == -1
ClientFile == 0
FenceLayers == AppLayers \cup {ClientLayer}

OpenFds(f) == {d \in Fds : f[d] # Closed}

\* A new descriptor for a file that is open has the lowest number that is free, if any.
New(f, what) ==
  IF what = Closed \/ OpenFds(f) = Fds THEN [table |-> f, fd |-> NoFd]
  ELSE LET d == CHOOSE n \in Fds \ OpenFds(f) : \A m \in Fds \ OpenFds(f) : n <= m
       IN  [table |-> [f EXCEPT ![d] = what], fd |-> d]

\* dup.
Dup(f, d) == New(f, IF d = NoFd THEN Closed ELSE f[d])

HdiFdAssign_NoClose(f, old) == f

\* HdiFd::operator= and the destructors: what was there is closed.
HdiFdAssign(f, old) == [e \in Fds |-> IF e = old THEN Closed ELSE f[e]]

\* DrmDisplay::Init has pushed a first frame, which the kernel took or refused, or failed
\* on the way to it.  The memory of the frame is allocated with a descriptor of its own
\* (AllocMem); the client layer duplicates it, and the handle it is in is dropped.
FencesInit ==
  /\ layersAlive = {} /\ theirs = {}
  /\ acquireFence = [l \in FenceLayers |-> NoFd]
  /\ \/ /\ file = [d \in Fds |-> Closed] /\ lost = {} /\ compHasClient = FALSE /\ shown = 0
        /\ bufferFd = [l \in FenceLayers |-> NoFd] /\ releaseFence = bufferFd
     \/ \E taken \in BOOLEAN :
          /\ file = [d \in Fds |-> IF d \in {0, 1} THEN ClientFile ELSE IF d = 2 /\ taken THEN 1 ELSE Closed]
          /\ lost = {0} /\ compHasClient = TRUE /\ shown = IF taken THEN 1 ELSE 0
          /\ bufferFd = [l \in FenceLayers |-> IF l = ClientLayer THEN 1 ELSE NoFd]
          /\ releaseFence = [l \in FenceLayers |-> IF l = ClientLayer /\ taken THEN 2 ELSE NoFd]
  /\ told = shown /\ appFence = FALSE

-----------------------------------------------------------------------------
(* The client.                                                             *)

\* It gets an acquire fence from whoever renders, ...
ClientGetsFence ==
  /\ LET new == New(file, ClientFile) IN
       file' = new.table /\ theirs' = theirs \cup ({new.fd} \ {NoFd})
  /\ UNCHANGED <<layersAlive, bufferFd, acquireFence, releaseFence, lost, compHasClient, shown, told, appFence>>

\* ... and closes what it owns.
ClientCloses(d) ==
  /\ d \in theirs
  /\ file' = HdiFdAssign(file, d) /\ theirs' = theirs \ {d}
  /\ UNCHANGED <<layersAlive, bufferFd, acquireFence, releaseFence, lost, compHasClient, shown, told, appFence>>

-----------------------------------------------------------------------------
(* HdiDisplay and HdiLayer.                                                *)

AddLayer(l) ==
  /\ l \notin layersAlive /\ layersAlive' = layersAlive \cup {l}
  /\ UNCHANGED <<file, bufferFd, acquireFence, releaseFence, theirs, lost, compHasClient, shown, told, appFence>>

\* The layer's destructor closes what it has.
DropLayer(l) ==
  /\ l \in layersAlive /\ layersAlive' = layersAlive \ {l}
  /\ file' = HdiFdAssign(HdiFdAssign(HdiFdAssign(file, bufferFd[l]), acquireFence[l]), releaseFence[l])
  /\ bufferFd' = [bufferFd EXCEPT ![l] = NoFd]
  /\ acquireFence' = [acquireFence EXCEPT ![l] = NoFd]
  /\ releaseFence' = [releaseFence EXCEPT ![l] = NoFd]
  /\ UNCHANGED <<theirs, lost, compHasClient, shown, told, appFence>>

\* The buffer's descriptor is duplicated, then the old one closed, then the fence taken.
TakeBuffer(l, fence) ==
  /\ l \in layersAlive \cup {ClientLayer} /\ fence \in theirs \cup {NoFd}
  /\ LET new == New(file, ClientFile) IN
       /\ file' = HdiFdAssign(HdiFdAssign(new.table, bufferFd[l]), acquireFence[l])
       /\ bufferFd' = [bufferFd EXCEPT ![l] = new.fd]
  /\ acquireFence' = [acquireFence EXCEPT ![l] = fence]
  /\ theirs' = theirs \ {fence}
  /\ UNCHANGED <<layersAlive, releaseFence, lost, compHasClient, shown, told, appFence>>

\* Without a buffer SetLayerBuffer fails before it takes the fence, and says so to the
\* owner of an app layer; SetDisplayClientBuffer says that it worked.
LoseFence(fence) ==
  /\ fence \in theirs /\ Cardinality(lost) < MaxLost
  /\ theirs' = theirs \ {fence} /\ lost' = lost \cup {fence}
  /\ UNCHANGED <<file, layersAlive, bufferFd, acquireFence, releaseFence, compHasClient, shown, told, appFence>>

PrepareLayers ==
  /\ ~ compHasClient /\ compHasClient' = TRUE
  /\ UNCHANGED <<file, layersAlive, bufferFd, acquireFence, releaseFence, theirs, lost, shown, told, appFence>>

NextFrame == (shown % MaxFrames) + 1

Refused_DropsFence ==
  [table |-> HdiFdAssign(file, releaseFence[ClientLayer]), release |-> NoFd, frame |-> shown]

\* HdiComposer::Commit does not get as far as the kernel, or the kernel refuses.
Refused == [table |-> file, release |-> releaseFence[ClientLayer], frame |-> shown]

\* The kernel makes the frame's out-fence; each layer of the composition, which is the
\* client layer or none, takes it.
Accepted ==
  LET new == New(file, NextFrame)
  IN  [table |-> HdiFdAssign(new.table, releaseFence[ClientLayer]), release |-> new.fd, frame |-> NextFrame]

Outcomes == {Refused} \cup {o \in {Accepted} : compHasClient /\ OpenFds(file) # Fds}

\* Whatever came of it, the caller gets a duplicate of the client layer's release fence.
CommitFrame ==
  \E o \in Outcomes :
    /\ releaseFence' = [releaseFence EXCEPT ![ClientLayer] = o.release]
    /\ shown' = o.frame
    /\ LET given == Dup(o.table, o.release) IN
         /\ file' = given.table
         /\ theirs' = theirs \cup ({given.fd} \ {NoFd})
         /\ told' = IF o.release = NoFd THEN 0 ELSE IF given.fd = NoFd THEN NoFd ELSE file'[given.fd]
    /\ UNCHANGED <<layersAlive, bufferFd, acquireFence, lost, compHasClient, appFence>>

\* GetDisplayReleaseFence duplicates the release fence of an app layer, if it has one.
AskReleaseFence(l) ==
  /\ l \in layersAlive
  /\ LET given == Dup(file, releaseFence[l]) IN
       /\ file' = given.table
       /\ theirs' = theirs \cup ({given.fd} \ {NoFd})
       /\ appFence' = (appFence \/ given.fd # NoFd)
  /\ UNCHANGED <<layersAlive, bufferFd, acquireFence, releaseFence, lost, compHasClient, shown, told>>

FencesNext ==
  \/ ClientGetsFence \/ PrepareLayers \/ CommitFrame
  \/ \E d \in Fds : ClientCloses(d) \/ LoseFence(d)
  \/ \E l \in AppLayers : AddLayer(l) \/ DropLayer(l) \/ AskReleaseFence(l)
  \/ \E l \in FenceLayers, fence \in Fds \cup {NoFd} : TakeBuffer(l, fence)

FencesSpec == FencesInit /\ [][FencesNext]_fenceVars

-----------------------------------------------------------------------------
(* Properties.                                                             *)

Owners(d) ==
  ({"client"} \cap {o \in {"client"} : d \in theirs}) \cup {o \in {"nobody"} : d \in lost}
    \cup {<<l, "buffer">> : l \in {m \in FenceLayers : bufferFd[m] = d}}
    \cup {<<l, "acquire">> : l \in {m \in FenceLayers : acquireFence[m] = d}}
    \cup {<<l, "release">> : l \in {m \in FenceLayers : releaseFence[m] = d}}

\* Every descriptor that is open has one owner: the client, a layer that will close it, or
\* nobody, if it is the first frame's own or a fence that came without a buffer; and what
\* has an owner is open, so that nothing is closed twice and no number is somebody else's
\* by now.
DescriptorsHaveOneOwner ==
  \A d \in Fds : Cardinality(Owners(d)) = IF d \in OpenFds(file) THEN 1 ELSE 0

\* What Commit returns is the out-fence of the last frame that the kernel took, also when
\* this one failed, and none when no frame was ever taken or no descriptor was left.
\* App layers are never reported with a fence, though their buffers are read until then.
CommitTellsLastFrame ==
  /\ told \in {shown, NoFd}
  /\ ~ appFence

\* The descriptors that pass between the client, the layers and the kernel are closed once
\* at the most, and the fence that comes back is the shown frame's.
FencesHaveOwners == DescriptorsHaveOneOwner /\ CommitTellsLastFrame
=============================================================================
