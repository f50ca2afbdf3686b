---------------------------- MODULE LayerAttributes ----------------------------
(***************************************************************************)
(* The layer functions of the session (hdi_session.cpp, hdi_session.h),    *)
(* the attributes they store (hdi_layer.cpp, hdi_layer.h), and what of     *)
(* them a commit uses: HdiGfxComposition blits with what is in the layer   *)
(* at that moment (hdi_gfx_composition.cpp).  A new layer's rectangles,    *)
(* alpha and blending are not initialised.                                 *)
(***************************************************************************)
EXTENDS Naturals

CONSTANTS
  AttrDisplays,  \* the session's displays
  AttrLayers,    \* layer ids, each handed out once
  NoSuch,        \* an id of no display or layer
  Values,        \* values of attributes
  Garbage        \* what is in memory that was not written

ASSUME LayerAttributesAssumption ==
  NoSuch \notin AttrDisplays \cup AttrLayers /\ {Garbage, "BUTT", "unset"} \cap Values = {}

Attributes == {"displayRect", "crop", "alpha", "transform", "blend"}

\* What the calls of LayerFuncs set: three of them nothing that a commit reads.
Setters == [SetLayerSize |-> "displayRect", SetLayerCrop |-> "crop", SetLayerAlpha |-> "alpha",
            SetLayerPreMulti |-> "none", SetTransformMode |-> "transform",
            SetLayerBlendType |-> "blend", SetLayerDirtyRegion |-> "none", SetLayerVisibleRegion |-> "none"]
\* The session tests the pointer of these; the tests in HdiLayer find nothing left to refuse.
ByPointer == {"SetLayerSize", "SetLayerCrop", "SetLayerAlpha", "SetLayerDirtyRegion", "SetLayerVisibleRegion"}

VARIABLES
  displayOf,   \* the layers there are, and the display each is on
  attr,        \* HdiLayer's members
  isVideo,     \* the layers composed as COMPOSITION_VIDEO
  set,         \* history: what the client has set, successfully
  drawnWith,   \* what the last commit took of the layer
  askedAt,     \* history: what was set then
  reply        \* of the last call

attrVars == <<displayOf, attr, isVideo, set, drawnWith, askedAt, reply>>

Fresh == [a \in Attributes |-> IF a = "transform" THEN "BUTT" ELSE Garbage]
Unset == [a \in Attributes |-> "unset"]
NotDrawn == [a \in {} |-> Garbage]

AttrInit ==
  /\ displayOf = [l \in AttrLayers |-> NoSuch] /\ attr = [l \in AttrLayers |-> Fresh]
  /\ isVideo = {} /\ set = [l \in AttrLayers |-> Unset] /\ reply = "none"
  /\ drawnWith = [l \in AttrLayers |-> NotDrawn] /\ askedAt = [l \in AttrLayers |-> Unset]

CreateLayer(d, l) ==
  /\ displayOf[l] = NoSuch /\ attr[l] = Fresh /\ set[l] = Unset
  /\ displayOf' = [displayOf EXCEPT ![l] = d] /\ reply' = "SUCCESS"
  /\ \E v \in SUBSET {l} : isVideo' = isVideo \cup v
  /\ UNCHANGED <<attr, set, drawnWith, askedAt>>

\* CallLayerFunction: the null pointer first, then the display, then its layer.
Reply(op, d, l, null) ==
  IF null /\ op \in ByPointer THEN "NULL_PTR"
  ELSE IF d \in AttrDisplays /\ l \in AttrLayers /\ displayOf[l] = d THEN "SUCCESS" ELSE "FAILURE"

Stores_Swapped(op) == IF op = "SetLayerCrop" THEN "displayRect" ELSE Setters[op]

\* The member that a setter assigns.
Stores(op) == Setters[op]

SetAttribute(op, d, l, v, null) ==
  /\ reply' = Reply(op, d, l, null)
  /\ IF reply' = "SUCCESS" /\ Stores(op) # "none"
       THEN /\ attr' = [attr EXCEPT ![l][Stores(op)] = v]
            /\ set' = [set EXCEPT ![l][Setters[op]] = v]
       ELSE UNCHANGED <<attr, set>>
  /\ UNCHANGED <<displayOf, isVideo, drawnWith, askedAt>>

\* BlitLayer, or ClearRect for a layer of video, of every layer of the display.
Taken(l) == IF l \in isVideo THEN {"displayRect"} ELSE Attributes

CommitLayers(d) ==
  /\ drawnWith' = [l \in AttrLayers |->
       IF displayOf[l] = d THEN [a \in Taken(l) |-> attr[l][a]] ELSE drawnWith[l]]
  /\ askedAt' = [l \in AttrLayers |-> IF displayOf[l] = d THEN set[l] ELSE askedAt[l]]
  /\ reply' = "SUCCESS"
  /\ UNCHANGED <<displayOf, attr, isVideo, set>>

AttrNext ==
  \/ \E d \in AttrDisplays, l \in AttrLayers : CreateLayer(d, l)
  \/ \E d \in AttrDisplays : CommitLayers(d)
  \/ \E op \in DOMAIN Setters, d \in AttrDisplays \cup {NoSuch}, l \in AttrLayers \cup {NoSuch},
        v \in Values, null \in BOOLEAN : SetAttribute(op, d, l, v, null)

AttrSpec == AttrInit /\ [][AttrNext]_attrVars

-----------------------------------------------------------------------------
(* Properties.                                                             *)

\* A frame draws a layer with what the client last set of it, on that display; with
\* whatever is in memory for each rectangle, alpha or blending that it never set, and with
\* no valid transform if it set none.
DrawsWhatWasSet ==
  \A l \in AttrLayers : \A a \in DOMAIN drawnWith[l] :
    drawnWith[l][a] = IF askedAt[l][a] # "unset" THEN askedAt[l][a]
                      ELSE IF a = "transform" THEN "BUTT" ELSE Garbage
=============================================================================
