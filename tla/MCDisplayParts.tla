---------------------------- MODULE MCDisplayParts ----------------------------
(* Six parts of the display that share no state in the models: the descriptors, the       *)
(* objects of the DRM device, power and backlight, the attributes of the layers, what a   *)
(* client is told, and the calls of gralloc.  A behaviour is that of one of the six.      *)
EXTENDS Fences, DrmObjects, DisplayControl, LayerAttributes, ClientCalls, BufferSync, TLC

CONSTANTS crtc1, crtc2, p1, p2, p3, p4, s1, s2

VARIABLE part

\* Windows and masks as on the RK3568: p4 is on a crtc whose mask does not name its window.
MCPlanes == <<p1, p2, p3, p4>>
MCPossible == p1 :> {crtc1} @@ p2 :> {crtc1, crtc2} @@ p3 :> {crtc2} @@ p4 :> {crtc1}
MCKind == p1 :> "PRIMARY" @@ p2 :> "OVERLAY" @@ p3 :> "PRIMARY" @@ p4 :> "OVERLAY"
MCWindow == p1 :> "Smart0" @@ p2 :> "Cluster2" @@ p3 :> "Esmart1" @@ p4 :> "Cluster2"
MCMask == crtc1 :> {"Smart0", "Cluster0"} @@ crtc2 :> {"Esmart1", "Cluster2"}
MCObjFormats == {"BGRA_8888", "YCBCR_420_SP", "CLUT8"}

MCModeCount == s1 :> 1 @@ s2 :> 3

PartsInit ==
  /\ FencesInit /\ ObjInit /\ CtlInit /\ AttrInit /\ CallsInit /\ SyncInit
  /\ part \in {"fences", "objects", "control", "attributes", "calls", "sync"}
  /\ part # "fences" => ~ compHasClient
  /\ part # "calls" => screen = NoScreen
  /\ part # "sync" => usage = {}

PartsNext ==
  /\ UNCHANGED part
  /\ \/ part = "fences" /\ FencesNext /\ UNCHANGED <<objVars, ctlVars, attrVars, callVars, syncVars>>
     \/ part = "objects" /\ ObjNext /\ UNCHANGED <<fenceVars, ctlVars, attrVars, callVars, syncVars>>
     \/ part = "control" /\ CtlNext /\ UNCHANGED <<fenceVars, objVars, attrVars, callVars, syncVars>>
     \/ part = "attributes" /\ AttrNext /\ UNCHANGED <<fenceVars, objVars, ctlVars, callVars, syncVars>>
     \/ part = "calls" /\ CallsNext /\ UNCHANGED <<fenceVars, objVars, ctlVars, attrVars, syncVars>>
     \/ part = "sync" /\ SyncNext /\ UNCHANGED <<fenceVars, objVars, ctlVars, attrVars, callVars>>

PartsSpec == PartsInit /\ [][PartsNext]_<<fenceVars, objVars, ctlVars, attrVars, callVars, syncVars, part>>
=============================================================================
