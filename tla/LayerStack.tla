----------------------------- MODULE LayerStack -----------------------------
(***************************************************************************)
(* The layers of one display: HdiDisplay (hdi_display.cpp), HdiLayer       *)
(* (hdi_layer.cpp), the composer (hdi_composer.cpp) and its first stage,   *)
(* the GFX composition (hdi_gfx_composition.cpp).                          *)
(*                                                                         *)
(* A display owns its layers in mLayersMap (by id) and keeps raw pointers  *)
(* to them in mLayers, a std::multiset ordered by the z-order stored IN    *)
(* the layers.  Prepare copies those pointers, in z-order, into            *)
(* mChangeLayers and into the GFX composition's mCompLayers; Commit blits  *)
(* the layers of mCompLayers into the client buffer and, if every blit     *)
(* succeeded, hands that buffer to the DRM composition (module Scanout).   *)
(* Nothing ties the two copies to CloseLayer, which frees a layer.         *)
(*                                                                         *)
(* A layer is named by its id: ids are handed out once and never again     *)
(* (HdiLayer::mIdSets only grows), so the id also names the allocation and *)
(* "freed" is "handed out and not in mLayersMap".                          *)
(***************************************************************************)
EXTENDS Integers, Sequences

CONSTANTS
  Layers,         \* the layer ids that may be handed out
  ZOrders,        \* the z-orders a client asks for
  AskedTypes,     \* the composition types a client asks for
  DefaultZ,       \* HdiLayer::mZorder = -1, read as uint32_t
  ClientBuffers,  \* the buffers the client composes into
  FirstBuffer,    \* the one PushFirstFrame allocated
  NoBuffer        \* nothing scanned out yet

ASSUME ZAssumption == DefaultZ \in Nat /\ ZOrders \subseteq 0 .. DefaultZ
ASSUME BufferAssumption == FirstBuffer \in ClientBuffers /\ NoBuffer \notin ClientBuffers

VARIABLES
  used,           \* HdiLayer::mIdSets
  mLayersMap,     \* the ids of the layers the display owns
  mLayers,        \* the multiset, in iteration order
  zorder,         \* HdiLayer::mZorder
  compType,       \* HdiLayer::mCompositionType
  hasBuffer,      \* HdiLayer::mHdiBuffer is not null
  mChangeLayers,  \* HdiDisplay::mChangeLayers
  mCompLayers,    \* HdiGfxComposition::mCompLayers
  clientBuffer,   \* the client layer's mHdiBuffer
  whole,          \* per buffer: the last composition into it ran to its end
  front,          \* the buffer on the screen
  failed,         \* history: the last frame that was tried did not get there
  fault,          \* a freed layer was dereferenced: undefined behaviour
  closed,         \* history: a layer was closed since the last Prepare
  fresh           \* history: no layer was touched since the last Prepare

stackVars == <<used, mLayersMap, mLayers, zorder>>
layerVars == <<compType, hasBuffer>>
prepVars  == <<mChangeLayers, mCompLayers>>
frameVars == <<clientBuffer, whole, front, failed>>
vars == <<stackVars, layerVars, prepVars, frameVars, fault, closed, fresh>>

CompTypes == {"CLIENT", "DEVICE", "VIDEO", "CURSOR"}

ASSUME TypesAssumption == AskedTypes \subseteq CompTypes

\* What the GFX composition draws for a layer: a blit (DEVICE) or a clear (VIDEO).
Drawn == {"DEVICE", "VIDEO"}

-----------------------------------------------------------------------------
(* The multiset.                                                           *)

\* The elements of a sequence.
Elems(s) == {s[i] : i \in 1 .. Len(s)}

\* Positions lo+1 .. hi of s are the elements of z-order z (equal_range).
IsEqualRange(s, z, lo, hi) ==
  /\ lo <= hi
  /\ \A i \in 1 .. Len(s) : (zorder[s[i]] = z) <=> (i \in lo + 1 .. hi)

\* New elements go after their equals: k elements of s are not above z.
IsUpperBound(s, z, k) ==
  /\ \A i \in 1 .. k : zorder[s[i]] <= z
  /\ \A i \in k + 1 .. Len(s) : zorder[s[i]] > z

\* s with x put after its first k elements.
InsertAfter(s, k, x) ==
  [i \in 1 .. Len(s) + 1 |-> IF i <= k THEN s[i] ELSE IF i = k + 1 THEN x ELSE s[i - 1]]

\* s without its positions lo+1 .. hi.
Cut(s, lo, hi) ==
  [i \in 1 .. Len(s) - (hi - lo) |-> IF i <= lo THEN s[i] ELSE s[i + (hi - lo)]]

-----------------------------------------------------------------------------
(* HdiDisplay and HdiLayer.  The HDI is called from one thread.            *)

Init ==
  /\ used = {} /\ mLayersMap = {} /\ mLayers = <<>>
  /\ zorder = [l \in Layers |-> DefaultZ]
  /\ compType = [l \in Layers |-> "CLIENT"]
  /\ hasBuffer = [l \in Layers |-> FALSE]
  /\ mChangeLayers = <<>> /\ mCompLayers = <<>>
  /\ clientBuffer = FirstBuffer                \* PushFirstFrame...
  /\ front \in {FirstBuffer, NoBuffer}         \* ...ignores whether its Apply worked
  /\ failed \in {FALSE, front = NoBuffer}
  /\ whole = [b \in ClientBuffers |-> TRUE]
  /\ fault = FALSE /\ closed = FALSE /\ fresh = FALSE

\* The emplace of the pointer l, whose z-order is now z, into rest.
Emplace(rest, l, z) ==
  \E k \in 0 .. Len(rest) :
    /\ IsUpperBound(rest, z, k)
    /\ mLayers' = InsertAfter(rest, k, l)

CreateLayer(l) ==
  /\ l \notin used
  /\ used' = used \cup {l}
  /\ mLayersMap' = mLayersMap \cup {l}
  /\ Emplace(mLayers, l, DefaultZ)
  /\ fresh' = FALSE
  /\ UNCHANGED <<zorder, layerVars, prepVars, frameVars, fault, closed>>

SetLayerZorder_NoEmplace(l, z) ==
  /\ l \in mLayersMap
  /\ zorder[l] # z
  /\ \E i \in 1 .. Len(mLayers) : mLayers[i] = l /\ mLayers' = Cut(mLayers, i - 1, i)
  /\ zorder' = [zorder EXCEPT ![l] = z]
  /\ fresh' = FALSE
  /\ UNCHANGED <<used, mLayersMap, layerVars, prepVars, frameVars, fault, closed>>

SetLayerZorder_InPlace(l, z) ==
  /\ l \in mLayersMap
  /\ zorder' = [zorder EXCEPT ![l] = z]
  /\ fresh' = FALSE
  /\ UNCHANGED <<used, mLayersMap, mLayers, layerVars, prepVars, frameVars, fault, closed>>

\* The pointer is looked for among its equals and erased.  A layer that CloseLayer
\* dropped from the multiset with a sibling is not there; the emplace puts it back.
SetLayerZorder(l, z) ==
  /\ l \in mLayersMap
  /\ zorder[l] # z
  /\ \/ \E i \in 1 .. Len(mLayers) : mLayers[i] = l /\ Emplace(Cut(mLayers, i - 1, i), l, z)
     \/ l \notin Elems(mLayers) /\ Emplace(mLayers, l, z)
  /\ zorder' = [zorder EXCEPT ![l] = z]
  /\ fresh' = FALSE
  /\ UNCHANGED <<used, mLayersMap, layerVars, prepVars, frameVars, fault, closed>>

SetLayerBuffer(l) ==
  /\ l \in mLayersMap
  /\ hasBuffer' = [hasBuffer EXCEPT ![l] = TRUE]
  /\ UNCHANGED <<stackVars, compType, prepVars, frameVars, fault, closed, fresh>>

SetLayerCompositionType(l, t) ==
  /\ l \in mLayersMap
  /\ compType' = [compType EXCEPT ![l] = t]
  /\ fresh' = FALSE
  /\ UNCHANGED <<stackVars, hasBuffer, prepVars, frameVars, fault, closed>>

\* The members of a freed layer mean nothing: they take their initial values.
Forget(l) ==
  /\ zorder' = [zorder EXCEPT ![l] = DefaultZ]
  /\ compType' = [compType EXCEPT ![l] = "CLIENT"]
  /\ hasBuffer' = [hasBuffer EXCEPT ![l] = FALSE]

CloseLayer_MapOnly(l) ==
  /\ l \in mLayersMap
  /\ mLayersMap' = mLayersMap \ {l}
  /\ Forget(l)
  /\ closed' = TRUE /\ fresh' = FALSE
  /\ UNCHANGED <<used, mLayers, prepVars, frameVars, fault>>

\* mLayers.erase(pointer) is the erase BY KEY of a multiset: every element whose
\* z-order equals the closed layer's goes, whichever layer it is.
CloseLayer(l) ==
  /\ l \in mLayersMap
  /\ \E lo, hi \in 0 .. Len(mLayers) :
       /\ IsEqualRange(mLayers, zorder[l], lo, hi)
       /\ mLayers' = Cut(mLayers, lo, hi)
  /\ mLayersMap' = mLayersMap \ {l}
  /\ Forget(l)
  /\ closed' = TRUE /\ fresh' = FALSE
  /\ UNCHANGED <<used, prepVars, frameVars, fault>>

SetDisplayClientBuffer(b) ==
  /\ clientBuffer' = b
  /\ UNCHANGED <<stackVars, layerVars, prepVars, whole, front, failed, fault, closed, fresh>>

-----------------------------------------------------------------------------
(* PrepareDisplayLayers: HdiComposer::Prepare and the loop after it.       *)

\* HdiGfxComposition::SetLayers selects DEVICE unless the client asked for VIDEO or
\* CURSOR; PrepareDisplayLayers then makes the selection the composition type.
Select(l) == IF compType[l] \in {"VIDEO", "CURSOR"} THEN compType[l] ELSE "DEVICE"

PrepareDisplayLayers_NoClear ==
  /\ compType' = [l \in Layers |-> IF l \in Elems(mLayers) THEN Select(l) ELSE compType[l]]
  /\ Len(mCompLayers) < 3
  /\ mCompLayers' = mCompLayers \o mLayers
  /\ mChangeLayers' = mLayers
  /\ closed' = FALSE /\ fresh' = TRUE
  /\ UNCHANGED <<stackVars, hasBuffer, frameVars, fault>>

PrepareDisplayLayers ==
  /\ compType' = [l \in Layers |-> IF l \in Elems(mLayers) THEN Select(l) ELSE compType[l]]
  /\ mCompLayers' = mLayers
  /\ mChangeLayers' = mLayers
  /\ closed' = FALSE /\ fresh' = TRUE
  /\ UNCHANGED <<stackVars, hasBuffer, frameVars, fault>>

\* GetDisplayCompChange reads the id and the type of every layer of mChangeLayers.
GetDisplayCompChange ==
  /\ ~ (Elems(mChangeLayers) \subseteq mLayersMap)
  /\ fault' = TRUE
  /\ UNCHANGED <<stackVars, layerVars, prepVars, frameVars, closed, fresh>>

-----------------------------------------------------------------------------
(* Commit: HdiComposer::Commit.  The GFX composition walks mCompLayers and *)
(* stops at the first layer whose blit or clear fails; only when it came   *)
(* to the end is the DRM composition applied, which may itself fail.  The  *)
(* caller sees neither failure.                                            *)

\* The walk gets past layer l: nothing is drawn for it, or its blit has a source.
Passes(l) == l \in mLayersMap /\ (compType[l] = "DEVICE" => hasBuffer[l])

\* The walk draws n layers and then ends, or fails at the next, which it draws.
Composes(n) ==
  /\ \A i \in 1 .. n : Passes(mCompLayers[i])
  /\ n < Len(mCompLayers) =>
       mCompLayers[n + 1] \in mLayersMap /\ compType[mCompLayers[n + 1]] \in Drawn

\* What HdiDrmComposition::Apply does for this display, as module Scanout shows it: it
\* gets the client buffer to the screen, or misses, or does not try.
Screen == INSTANCE FrameService
  WITH Buffers <- ClientBuffers, Dark <- NoBuffer, client <- clientBuffer, shown <- front

Apply == Screen!Present \/ Screen!Miss \/ UNCHANGED <<clientBuffer, front, failed>>

Commit_IgnoreCompose ==
  /\ \E n \in 0 .. Len(mCompLayers) :
       /\ Composes(n)
       /\ whole' = [whole EXCEPT ![clientBuffer] = (n = Len(mCompLayers))]
  /\ Apply
  /\ UNCHANGED <<stackVars, layerVars, prepVars, fault, closed, fresh>>

Commit ==
  /\ \E n \in 0 .. Len(mCompLayers) :
       /\ Composes(n)
       /\ whole' = [whole EXCEPT ![clientBuffer] = (n = Len(mCompLayers))]
       /\ IF n = Len(mCompLayers) THEN Apply ELSE UNCHANGED <<clientBuffer, front, failed>>
  /\ UNCHANGED <<stackVars, layerVars, prepVars, fault, closed, fresh>>

\* The walk comes to a pointer whose layer was freed.
CommitFreed ==
  /\ \E n \in 1 .. Len(mCompLayers) :
       /\ \A i \in 1 .. n - 1 : Passes(mCompLayers[i])
       /\ mCompLayers[n] \notin mLayersMap
  /\ fault' = TRUE
  /\ UNCHANGED <<stackVars, layerVars, prepVars, frameVars, closed, fresh>>

-----------------------------------------------------------------------------

Next ==
  /\ ~ fault
  /\ \/ \E l \in Layers : CreateLayer(l) \/ CloseLayer(l) \/ SetLayerBuffer(l)
     \/ \E l \in Layers, z \in ZOrders : SetLayerZorder(l, z)
     \/ \E l \in Layers, t \in AskedTypes : SetLayerCompositionType(l, t)
     \/ \E b \in ClientBuffers : SetDisplayClientBuffer(b)
     \/ PrepareDisplayLayers \/ GetDisplayCompChange \/ Commit \/ CommitFreed

Spec == Init /\ [][Next]_vars

-----------------------------------------------------------------------------
(* Properties.                                                             *)

\* The variables' types.  A live layer's id has been handed out.
TypeOK ==
  /\ used \subseteq Layers /\ mLayersMap \subseteq used
  /\ mLayers \in Seq(Layers) /\ mChangeLayers \in Seq(Layers) /\ mCompLayers \in Seq(Layers)
  /\ zorder \in [Layers -> 0 .. DefaultZ]
  /\ compType \in [Layers -> CompTypes]
  /\ hasBuffer \in [Layers -> BOOLEAN]
  /\ clientBuffer \in ClientBuffers
  /\ whole \in [ClientBuffers -> BOOLEAN]
  /\ front \in ClientBuffers \cup {NoBuffer}
  /\ {failed, fault, closed, fresh} \subseteq BOOLEAN

\* The multiset stays ordered although its key is stored in the layers and
\* rewritten by SetLayerZorder (hdi_display.cpp:76-86): no key changes in place.
StackSortedByZ ==
  \A i, j \in 1 .. Len(mLayers) : i < j => zorder[mLayers[i]] <= zorder[mLayers[j]]

\* The multiset never keeps a pointer to a freed layer, nor a pointer twice: what
\* PrepareDisplayLayers and GetDisplayReleaseFence iterate over is always alive.
StackLive ==
  /\ Elems(mLayers) \subseteq mLayersMap
  /\ \A i, j \in 1 .. Len(mLayers) : i # j => mLayers[i] # mLayers[j]

\* So a walk of the multiset meets each of its layers once, alive, from the bottom up.
StackWellFormed == StackSortedByZ /\ StackLive

\* The copies of the pointers that Prepare leaves in mChangeLayers and in the GFX
\* composition go stale only through CloseLayer: a client that closes no layer between
\* PrepareDisplayLayers and Commit or GetDisplayCompChange never reads freed memory.
FaultOnlyAfterClose == fault => closed

\* What the display keeps of its layers, the multiset and the copies that Prepare makes, is
\* in order and alive when it is read, unless a layer was closed since the copies were made.
StackIsReadAlive == StackWellFormed /\ FaultOnlyAfterClose

\* A live layer leaves the display's stack only when a layer of the same z-order is
\* closed (the erase by key of hdi_display.cpp:121); no other call makes one vanish.
DroppedOnlyWithSibling ==
  [][\A l \in Elems(mLayers) :
       l \in mLayersMap' /\ l \notin Elems(mLayers') =>
         \E m \in mLayersMap \ mLayersMap' : zorder[m] = zorder[l]]_vars

\* While no layer was touched since Prepare, Commit draws the stack: every stacked
\* layer once, from the bottom up, and none is left to the client to compose.
FreshPlanIsStack ==
  fresh =>
    /\ Len(mCompLayers) = Len(mLayers)
    /\ Elems(mCompLayers) = Elems(mLayers)
    /\ \A i, j \in 1 .. Len(mCompLayers) : i < j => zorder[mCompLayers[i]] <= zorder[mCompLayers[j]]
    /\ \A l \in Elems(mCompLayers) : compType[l] # "CLIENT"

\* A composition that failed half way is never put on the screen (hdi_composer.cpp:39
\* returns before the DRM stage): the visible frame becomes partial only when the client
\* composes again into the very buffer being shown.
TornOnlyInPlace ==
  [][front # NoBuffer /\ whole[front] /\ front' # NoBuffer /\ ~ whole'[front'] =>
       front = clientBuffer]_vars

\* "get the change layers" (hdi_display.cpp:185): Prepare reports the layers whose
\* composition type it changed.
OnlyChangedReported ==
  [][PrepareDisplayLayers => \A l \in Elems(mChangeLayers') : compType'[l] # compType[l]]_vars
=============================================================================
