------------------------------ MODULE Scanout ------------------------------
(***************************************************************************)
(* From the client buffer to the screen: HdiDrmComposition                 *)
(* (hdi_drm_composition.cpp), the DrmGemBuffers of the client layer        *)
(* (hdi_drm_layer.cpp), the planes the displays of one DRM device share    *)
(* (drm_plane.h) and the part of DrmDisplay::Init that pushes the first    *)
(* frame (drm_display.cpp).                                                *)
(*                                                                         *)
(* Apply wraps the client buffer into a DrmGemBuffer (a GEM handle and a   *)
(* framebuffer), keeps it and its predecessor, destroys the one before     *)
(* that, collects an atomic request and commits it.  The destruction takes *)
(* effect in the kernel at once, the request only with the commit, and     *)
(* any of the kernel's calls may fail: Apply is two steps here.            *)
(*                                                                         *)
(* External: the kernel.  Importing a dma-buf that the file already has    *)
(* open gives the same handle again, and GEM_CLOSE closes that handle      *)
(* however often it was given out; numbers are reused.  Removing a         *)
(* framebuffer that a plane shows turns the plane off.                     *)
(***************************************************************************)
EXTENDS Integers, Sequences

CONSTANTS
  Displays,    \* the displays of the device
  Planes,      \* its planes
  Candidates,  \* per display: primary, then overlay planes its crtc can show
  Masked,      \* per display: the planes in its crtc's PLANE_MASK
  CrtcOk,      \* per display: the planes whose CRTC_ID at start was 0 or its own crtc
  Buffers,     \* dma-bufs a client layer may hold
  NoBuffer,    \* a null mHdiBuffer
  NoDisplay,   \* DrmPlane::mPipe = 0
  MaxId        \* bound: handles and framebuffers are numbered 1 .. MaxId

ASSUME ScanoutAssumption ==
  /\ Candidates \in [Displays -> Seq(Planes)]
  /\ Masked \in [Displays -> SUBSET Planes] /\ CrtcOk \in [Displays -> SUBSET Planes]
  /\ NoBuffer \notin Buffers /\ NoDisplay \notin Displays
  /\ MaxId \in Nat

VARIABLES
  mPlanes,       \* HdiDrmComposition::mPlanes, per display
  found,         \* the displays that were discovered
  clientBuffer,  \* the client layer's mHdiBuffer
  prepared,      \* HdiDrmComposition::mCompLayers holds the client layer
  current, last, \* HdiDrmLayer::mCurrentBuffer and mLastBuffer
  mPipe,         \* the display a plane is bound to
  handle,        \* kernel: the dma-buf behind each open GEM handle
  image,         \* kernel: the dma-buf behind each framebuffer
  shows,         \* kernel: the framebuffer on each plane, 0 for none of ours
  call,          \* where the HDI thread is in Apply, with its atomic request
  failed,        \* history: the display's last Apply did not show its new buffer
  nullFault      \* a null client buffer was dereferenced

displayVars == <<mPlanes, found>>
layerVars   == <<clientBuffer, prepared>>
gemVars     == <<current, last, handle, image>>
scanVars == <<displayVars, layerVars, gemVars, mPipe, shows, call, failed, nullFault>>

Ids == 1 .. MaxId

\* A DrmGemBuffer: 0 is INVALID_DRM_ID; Null is also a null unique_ptr.
Gems == [handle : 0 .. MaxId, fb : 0 .. MaxId]
Null == [handle |-> 0, fb |-> 0]

IsValid(g) == g.handle # 0 /\ g.fb # 0

\* Between calls; at "apply", PushFirstFrame is about to call Apply; at "commit" the
\* request is complete: the planes that get framebuffer fb (at most one) and those that
\* get none.
Idle == [at |-> "idle", display |-> NoDisplay, on |-> {}, fb |-> 0, off |-> {}]
Entering(d) == [at |-> "apply", display |-> d, on |-> {}, fb |-> 0, off |-> {}]
Request(d, on, f, off) == [at |-> "commit", display |-> d, on |-> on, fb |-> f, off |-> off]

OpenHandles == {h \in Ids : handle[h] # NoBuffer}
Framebuffers == {f \in Ids : image[f] # NoBuffer}

ScanInit ==
  /\ mPlanes = [d \in Displays |-> <<>>] /\ found = {}
  /\ clientBuffer = [d \in Displays |-> NoBuffer]
  /\ prepared = [d \in Displays |-> FALSE]
  /\ current = [d \in Displays |-> Null] /\ last = [d \in Displays |-> Null]
  /\ mPipe = [p \in Planes |-> NoDisplay]
  /\ handle = [i \in Ids |-> NoBuffer] /\ image = [i \in Ids |-> NoBuffer]
  /\ shows = [p \in Planes |-> 0]
  /\ call = Idle
  /\ failed = [d \in Displays |-> FALSE]
  /\ nullFault = FALSE

-----------------------------------------------------------------------------
(* DrmDisplay::Init and the calls of the client.                           *)

\* HdiDrmComposition::Init takes the candidates that are idle now; then PushFirstFrame
\* gives the client layer a buffer of its own and applies it.  Any step between the two
\* may fail; DiscoveryDisplay registers the display all the same.
Discover(d) ==
  /\ call = Idle /\ d \notin found
  /\ found' = found \cup {d}
  /\ mPlanes' = [mPlanes EXCEPT ![d] =
       SelectSeq(Candidates[d], LAMBDA p : mPipe[p] = NoDisplay)]
  /\ \/ UNCHANGED <<layerVars, call>>
     \/ /\ \E b \in Buffers : clientBuffer' = [clientBuffer EXCEPT ![d] = b]
        /\ prepared' = [prepared EXCEPT ![d] = TRUE]
        /\ call' = Entering(d)
  /\ UNCHANGED <<gemVars, mPipe, shows, failed, nullFault>>

\* A null buffer changes nothing, and the caller is told that it worked.
SetDisplayClientBuffer(d, b) ==
  /\ call = Idle /\ d \in found
  /\ clientBuffer' = [clientBuffer EXCEPT ![d] = b]
  /\ UNCHANGED <<displayVars, prepared, gemVars, mPipe, shows, call, failed, nullFault>>

PrepareDisplayLayers(d) ==
  /\ call = Idle /\ d \in found
  /\ prepared' = [prepared EXCEPT ![d] = TRUE]
  /\ UNCHANGED <<displayVars, clientBuffer, gemVars, mPipe, shows, call, failed, nullFault>>

-----------------------------------------------------------------------------
(* DrmGemBuffer.                                                           *)

\* A table with number h set to b; number 0 does not exist.
Put(table, h, b) == [i \in Ids |-> IF i = h THEN b ELSE table[i]]

\* The lowest number that is not used.
IsNext(used, i) == i \in Ids \ used /\ \A j \in Ids \ used : i <= j

\* drmPrimeFDToHandle gives the dma-buf b the handle h, the open one or a new one.
Imports(b, h) ==
  \/ h \in OpenHandles /\ handle[h] = b
  \/ (\A i \in OpenHandles : handle[i] # b) /\ IsNext(OpenHandles, h)

\* DrmGemBuffer::Init for b: the import or the framebuffer may be refused.
InitGem(g, b) ==
  \/ g = Null
  \/ Imports(b, g.handle) /\ (g.fb = 0 \/ IsNext(Framebuffers, g.fb))

GetGemBuffer_DropCurrent(d, g) ==
  /\ InitGem(g, clientBuffer[d])
  /\ handle' = Put(Put(handle, g.handle, clientBuffer[d]), current[d].handle, NoBuffer)
  /\ image' = Put(Put(image, g.fb, clientBuffer[d]), current[d].fb, NoBuffer)
  /\ shows' = [p \in Planes |-> IF shows[p] = current[d].fb THEN 0 ELSE shows[p]]
  /\ last' = last
  /\ current' = [current EXCEPT ![d] = g]

GetGemBuffer_NoGemClose(d, g) ==
  /\ InitGem(g, clientBuffer[d])
  /\ handle' = Put(handle, g.handle, clientBuffer[d])
  /\ image' = Put(Put(image, g.fb, clientBuffer[d]), last[d].fb, NoBuffer)
  /\ shows' = [p \in Planes |-> IF shows[p] = last[d].fb THEN 0 ELSE shows[p]]
  /\ last' = [last EXCEPT ![d] = current[d]]
  /\ current' = [current EXCEPT ![d] = g]

GetGemBuffer_KeepsCurrent(d, g) ==
  IF IsValid(current[d])
    THEN g = current[d] /\ UNCHANGED <<gemVars, shows>>
    ELSE /\ InitGem(g, clientBuffer[d])
         /\ handle' = Put(handle, g.handle, clientBuffer[d])
         /\ image' = Put(image, g.fb, clientBuffer[d])
         /\ current' = [current EXCEPT ![d] = g]
         /\ UNCHANGED <<last, shows>>

\* The new gem buffer becomes the current one; then the last one is destroyed: its
\* framebuffer is removed, at once, and its handle closed.
GetGemBuffer(d, g) ==
  /\ InitGem(g, clientBuffer[d])
  /\ handle' = Put(Put(handle, g.handle, clientBuffer[d]), last[d].handle, NoBuffer)
  /\ image' = Put(Put(image, g.fb, clientBuffer[d]), last[d].fb, NoBuffer)
  /\ shows' = [p \in Planes |-> IF shows[p] = last[d].fb THEN 0 ELSE shows[p]]
  /\ last' = [last EXCEPT ![d] = current[d]]
  /\ current' = [current EXCEPT ![d] = g]

-----------------------------------------------------------------------------
(* Apply.                                                                  *)

Eligible_AnyPipe(d, p) == p \in Masked[d] /\ p \in CrtcOk[d]

\* FindPlaneAndApply's conditions: not bound to another display, in the PLANE_MASK, and
\* not given to another crtc at start.
Eligible(d, p) == mPipe[p] \in {NoDisplay, d} /\ p \in Masked[d] /\ p \in CrtcOk[d]

Picks_Any(d, p) == Eligible(d, p) /\ \E j \in 1 .. Len(mPlanes[d]) : p = mPlanes[d][j]

\* It stops at the first such plane, whether ApplyPlane works or not.
Picks(d, p) ==
  \E j \in 1 .. Len(mPlanes[d]) :
    /\ p = mPlanes[d][j] /\ Eligible(d, p)
    /\ \A i \in 1 .. j - 1 : ~ Eligible(d, mPlanes[d][i])

\* RemoveUnusePlane: the masked planes that are bound to nobody are turned off.
Unused(d) ==
  {p \in Masked[d] : mPipe[p] = NoDisplay /\ \E j \in 1 .. Len(mPlanes[d]) : mPlanes[d][j] = p}

\* Apply is entered by PushFirstFrame, or by HdiComposer::Commit when the GFX stage did
\* not fail (module LayerStack).
Enters(d) == call = Entering(d) \/ (call = Idle /\ d \in found)

\* "plane not enough": Apply gives up before it makes a request.
NoPlanes(d) == prepared[d] /\ Len(mPlanes[d]) = 0

ApplyGivesUp(d) ==
  /\ Enters(d) /\ NoPlanes(d)
  /\ call' = Idle
  /\ UNCHANGED <<displayVars, layerVars, gemVars, mPipe, shows, failed, nullFault>>

\* No layer, or no plane for it: the request only turns planes off.
ApplyNothing(d) ==
  /\ Enters(d) /\ ~ NoPlanes(d)
  /\ prepared[d] => \A p \in Planes : ~ Picks(d, p)
  /\ call' = Request(d, {}, 0, Unused(d))
  /\ UNCHANGED <<displayVars, layerVars, gemVars, mPipe, shows, failed, nullFault>>

\* ApplyPlane reads the client buffer's size before anything else.
ApplyNull(d) ==
  /\ Enters(d) /\ prepared[d] /\ clientBuffer[d] = NoBuffer
  /\ \E p \in Planes : Picks(d, p)
  /\ nullFault' = TRUE
  /\ call' = Entering(d)
  /\ UNCHANGED <<displayVars, layerVars, gemVars, mPipe, shows, failed>>

\* ApplyPlane: with a valid gem buffer the plane is bound, for good, and gets it;
\* otherwise the request leaves the plane as it is, or off if it was bound to nobody.
ApplyPlane(d, p, g) ==
  /\ Enters(d) /\ prepared[d] /\ clientBuffer[d] # NoBuffer
  /\ Picks(d, p)
  /\ GetGemBuffer(d, g)
  /\ failed' = [failed EXCEPT ![d] = TRUE]
  /\ IF IsValid(g)
       THEN /\ mPipe' = [mPipe EXCEPT ![p] = d]
            /\ call' = Request(d, {p}, g.fb, Unused(d) \ {p})
       ELSE /\ mPipe' = mPipe
            /\ call' = Request(d, {}, 0, Unused(d))
  /\ UNCHANGED <<displayVars, layerVars, nullFault>>

\* drmModeAtomicCommit: all of the request, or an error that Commit does not report.
AtomicCommit ==
  /\ call.at = "commit"
  /\ call' = Idle
  /\ \/ UNCHANGED <<shows, failed>>
     \/ /\ shows' = [p \in Planes |->
             IF p \in call.off THEN 0 ELSE IF p \in call.on THEN call.fb ELSE shows[p]]
        /\ failed' = [failed EXCEPT ![call.display] = @ /\ call.on = {}]
  /\ UNCHANGED <<displayVars, layerVars, gemVars, mPipe, nullFault>>

-----------------------------------------------------------------------------

ScanNext ==
  /\ ~ nullFault
  /\ \/ \E d \in Displays : Discover(d) \/ PrepareDisplayLayers(d)
     \/ \E d \in Displays : ApplyGivesUp(d) \/ ApplyNothing(d) \/ ApplyNull(d)
     \/ \E d \in Displays, b \in Buffers : SetDisplayClientBuffer(d, b)
     \/ \E d \in Displays, p \in Planes, g \in Gems : ApplyPlane(d, p, g)
     \/ AtomicCommit

ScanSpec == ScanInit /\ [][ScanNext]_scanVars

-----------------------------------------------------------------------------
(* Properties.                                                             *)

\* "Bind the plane not used by other crtcs to the crtc" (hdi_drm_composition.cpp:277):
\* a plane shows nothing, or a framebuffer that the display it is bound to still owns;
\* never one of another display, and never a number that was removed or given out again.
\* And a display has one plane at most, for good, whatever others bind in between: a second
\* would be left showing an old frame.
ShowsOwnFrame ==
  /\ \A p \in Planes : shows[p] # 0 =>
       \E d \in Displays : mPipe[p] = d /\ shows[p] \in {current[d].fb, last[d].fb} \cap Framebuffers
  /\ \A p, q \in Planes : mPipe[p] = mPipe[q] /\ mPipe[p] # NoDisplay => p = q

\* Handles are shared by gem buffers of the same dma-buf and closed by the first that
\* dies, so a later one closes a number that is closed or someone else's; still every
\* open handle and every framebuffer belongs to a gem buffer that will close it.
NothingLeaks ==
  /\ \A h \in OpenHandles : \E d \in Displays : h \in {current[d].handle, last[d].handle}
  /\ \A f \in Framebuffers : \E d \in Displays : f \in {current[d].fb, last[d].fb}

\* What is on a plane belongs to a display that holds it, and what is held will be given
\* back.
ScreenShowsWhatIsHeld == ShowsOwnFrame /\ NothingLeaks

\* The framebuffer on the screen outlives one failure: a lit plane goes dark only in the
\* Apply that follows one which did not show its buffer (an import, framebuffer or commit
\* that failed).  While frames succeed the screen is never blanked between two of them.
\* Of one plane this is what ScreenServesFrames says of a display's screen.
BlanksOnlyAfterFailure ==
  [][\A p \in Planes : shows[p] # 0 /\ shows'[p] = 0 =>
       mPipe[p] \in Displays /\ failed[mPipe[p]]]_scanVars

\* What is on a display's screen: the dma-buf of the framebuffer on its plane.
OnScreen(d) ==
  IF \E p \in Planes : mPipe[p] = d /\ shows[p] # 0
    THEN image[shows[CHOOSE p \in Planes : mPipe[p] = d /\ shows[p] # 0]]
    ELSE NoBuffer

\* Each display is a FrameService.
Frame(d) == INSTANCE FrameService
  WITH Dark <- NoBuffer, client <- clientBuffer[d], shown <- OnScreen(d), failed <- failed[d]

\* Each client sees on its display the buffer it last presented, until an Apply that follows
\* a failed one takes the framebuffer from under the screen (hdi_drm_composition.cpp:286),
\* although displays share the planes, the handles of dma-bufs and the numbers that both
\* are given again: no call for another display changes it, and neither does a handle that
\* was closed early or a framebuffer whose number is taken over.
ScreenServesFrames ==
  /\ \A d \in Displays : Frame(d)!Init
  /\ [][\A d \in Displays : [Frame(d)!Next]_(Frame(d)!frameServiceVars)]_scanVars

=============================================================================
