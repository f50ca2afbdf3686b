------------------------------ MODULE DrmObjects ------------------------------
(***************************************************************************)
(* What discovery learns of the DRM device and what a frame can do with    *)
(* it: DrmDevice (drm_device.cpp), the Init of DrmCrtc and DrmPlane        *)
(* (drm_crtc.cpp, drm_plane.cpp), and the choice of a plane by window.     *)
(* Crtcs and planes are known by properties that are looked up by name;    *)
(* a look-up may find none, or fail.  What module Scanout takes as given,  *)
(* the planes a crtc may use, is worked out here.                          *)
(*                                                                         *)
(* External: the kernel's objects, with nothing lit by the boot loader.    *)
(* An atomic request with a property id of 0 is refused, and a framebuffer *)
(* of several planes is refused when it has one handle.                    *)
(***************************************************************************)
EXTENDS Naturals, Sequences

CONSTANTS
  ObjCrtcs,
  PlaneRes,       \* the planes, in the kernel's order
  PossibleCrtcs,  \* per plane: the crtcs it can be on
  PlaneKind,      \* per plane: PRIMARY, OVERLAY or CURSOR
  WindowName,     \* per plane: the window group in its NAME
  PlaneMaskProp,  \* per crtc: the window groups in its PLANE_MASK
  ObjFormats,     \* pixel formats of the frames
  NoPipe

ObjPlanes == {PlaneRes[i] : i \in 1 .. Len(PlaneRes)}

\* planeTypeNames and planeMaskNames.
Table == {"Cluster0", "Cluster1", "Esmart0", "Esmart1", "Smart0", "Smart1"}
Unknown == "unknown"

ASSUME DrmObjectsAssumption ==
  /\ PossibleCrtcs \in [ObjPlanes -> SUBSET ObjCrtcs] /\ NoPipe \notin ObjCrtcs
  /\ PlaneKind \in [ObjPlanes -> {"PRIMARY", "OVERLAY", "CURSOR"}]

VARIABLES
  device,     \* none, ready or failed; or what ended the process
  looked,     \* the objects discovery has been at
  maskOf,     \* DrmCrtc::mPlaneMask of the crtcs it registered: window groups
  planeInfo,  \* of the planes it registered: the properties found, and the window
  planesOf,   \* HdiDrmComposition::mPlanes, per display; a display is named by its crtc
  pipeOf,     \* DrmPlane::mPipe
  outcome     \* per display: what became of its last frame, and its format

objVars == <<device, looked, maskOf, planeInfo, planesOf, pipeOf, outcome>>

CrtcQueries == {"MODE_ID", "OUT_FENCE_PTR", "ACTIVE", "PLANE_MASK"}
PlaneQueries == {"position", "FB_ID", "IN_FENCE_FD", "CRTC_ID", "zpos", "NAME", "type"}

PlaneRequired_NotFb == PlaneQueries \ {"position", "FB_ID"}

\* The look-ups whose failure fails DrmPlane::Init; that of the position's ids is ignored.
PlaneRequired == PlaneQueries \ {"position"}

\* The ids that ApplyPlane puts into a request (of zpos, position, framebuffer and crtc).
NeededIds == {"position", "zpos", "FB_ID", "CRTC_ID"}

\* DrmDevice::ConvertToDrmFormat, by layout: DRM formats of one plane and of more.
OnePlane == {"RGBX_8888", "RGBA_8888", "BGRX_8888", "BGRA_8888", "RGB_888", "BGR_565", "BGRX_4444",
             "BGRA_4444", "RGBA_4444", "RGBX_4444", "BGRX_5551", "BGRA_5551"}
MorePlanes == {"YCBCR_420_SP", "YCRCB_420_SP", "YCBCR_420_P", "YCRCB_420_P",
               "YCBCR_422_SP", "YCRCB_422_SP", "YCBCR_422_P", "YCRCB_422_P"}
ConvertToDrmFormat(f) == IF f \in OnePlane \cup MorePlanes THEN f ELSE "0"

ObjInit ==
  /\ device = "none" /\ looked = {} /\ maskOf = <<>> /\ planeInfo = <<>> /\ planesOf = <<>>
  /\ pipeOf = [p \in ObjPlanes |-> NoPipe]
  /\ outcome = [c \in ObjCrtcs |-> [is |-> "none", format |-> "none"]]

-----------------------------------------------------------------------------
(* Discovery.                                                              *)

\* Create opens the card; the null device of a failure is used all the same.  Init asks for
\* universal planes, atomic requests and the master's role: without them there is no device.
DiscoveryDevice ==
  /\ device = "none" /\ device' \in {"null device used", "ready", "failed"}
  /\ UNCHANGED <<looked, maskOf, planeInfo, planesOf, pipeOf, outcome>>

\* f with the value v at a.
With(f, a, v) == [x \in DOMAIN f \cup {a} |-> IF x = a THEN v ELSE f[x]]

\* DrmCrtc::Init: without a mask the crtc is registered with an empty one.
FindCrtc(c) ==
  /\ device = "ready" /\ c \notin looked
  /\ looked' = looked \cup {c}
  /\ \/ maskOf' = maskOf
     \/ \E failed \in SUBSET {"PLANE_MASK"} :
          maskOf' = With(maskOf, c, IF failed = {} THEN PlaneMaskProp[c] \cap Table ELSE {})
  /\ UNCHANGED <<device, planeInfo, planesOf, pipeOf, outcome>>

\* DrmPlane::Init: a window that is not in the table leaves the type at all ones.
FindPlane(p) ==
  /\ device = "ready" /\ p \notin looked /\ ObjCrtcs \subseteq looked
  /\ looked' = looked \cup {p}
  /\ \E failed \in SUBSET PlaneQueries :
       planeInfo' = IF failed \cap PlaneRequired # {} THEN planeInfo
                    ELSE With(planeInfo, p,
                           [ids |-> PlaneQueries \ failed,
                            window |-> IF WindowName[p] \in Table THEN WindowName[p] ELSE Unknown])
  /\ UNCHANGED <<device, maskOf, planesOf, pipeOf, outcome>>

\* GetProperty does not check that a property it was told of could be read.
PropertyVanishes ==
  /\ device = "ready" /\ looked # ObjCrtcs \cup ObjPlanes
  /\ device' = "null property used"
  /\ UNCHANGED <<looked, maskOf, planeInfo, planesOf, pipeOf, outcome>>

GetDrmPlane_AnyCrtc(c, kind) == {p \in DOMAIN planeInfo : pipeOf[p] = NoPipe /\ PlaneKind[p] = kind}

GetDrmPlane(c, kind) ==
  {p \in DOMAIN planeInfo : pipeOf[p] = NoPipe /\ PlaneKind[p] = kind /\ c \in PossibleCrtcs[p]}

\* The order of HdiDrmComposition::mPlanes: primary planes, then overlays, each as the kernel
\* lists them.
Sooner(p, q) ==
  IF PlaneKind[p] # PlaneKind[q] THEN PlaneKind[p] = "PRIMARY"
  ELSE \E i, j \in 1 .. Len(PlaneRes) : i < j /\ PlaneRes[i] = p /\ PlaneRes[j] = q

\* HdiDrmComposition::Init.
StartDisplay(c) ==
  /\ device = "ready" /\ looked = ObjCrtcs \cup ObjPlanes
  /\ c \in DOMAIN maskOf /\ c \notin DOMAIN planesOf
  /\ planesOf' = With(planesOf, c, GetDrmPlane(c, "PRIMARY") \cup GetDrmPlane(c, "OVERLAY"))
  /\ UNCHANGED <<device, looked, maskOf, planeInfo, pipeOf, outcome>>

-----------------------------------------------------------------------------
(* Frames.                                                                 *)

\* GetWinType() & GetPlaneMask().
InMask(p, c) ==
  IF planeInfo[p].window = Unknown THEN maskOf[c] # {} ELSE planeInfo[p].window \in maskOf[c]

Fits(p, c) == pipeOf[p] \in {NoPipe, c} /\ InMask(p, c)

FrameIs(c, is, f) == outcome' = [outcome EXCEPT ![c] = [is |-> is, format |-> f]]

\* FindPlaneAndApply stops at the first plane that fits, and binds it unless ApplyPlane
\* fails, for want of a framebuffer.  Here the kernel does whatever it can do; that it may
\* fail anyway is module Scanout's subject.
ShowFrame(c, f) ==
  /\ c \in DOMAIN planesOf
  /\ \/ /\ \A p \in planesOf[c] : ~ Fits(p, c)
        /\ FrameIs(c, "dark", f) /\ pipeOf' = pipeOf
     \/ \E p \in planesOf[c] :
          /\ Fits(p, c) /\ \A q \in planesOf[c] : Sooner(q, p) => ~ Fits(q, c)
          /\ IF ConvertToDrmFormat(f) \notin OnePlane
               THEN FrameIs(c, "dark", f) /\ pipeOf' = pipeOf
               ELSE /\ pipeOf' = [pipeOf EXCEPT ![p] = c]
                    /\ IF NeededIds \subseteq planeInfo[p].ids
                         THEN FrameIs(c, "shown", f) ELSE FrameIs(c, "refused", f)
  /\ UNCHANGED <<device, looked, maskOf, planeInfo, planesOf>>

ObjNext ==
  \/ DiscoveryDevice \/ PropertyVanishes
  \/ \E c \in ObjCrtcs : FindCrtc(c) \/ StartDisplay(c)
  \/ \E p \in ObjPlanes : FindPlane(p)
  \/ \E c \in ObjCrtcs, f \in ObjFormats : ShowFrame(c, f)

ObjSpec == ObjInit /\ [][ObjNext]_objVars

-----------------------------------------------------------------------------
(* Properties.                                                             *)

\* The planes the kernel would let the display of c use.
Usable(c) ==
  {p \in ObjPlanes : c \in PossibleCrtcs[p] /\ PlaneKind[p] # "CURSOR" /\ WindowName[p] \in PlaneMaskProp[c]}

\* Planes stay where the kernel's PLANE_MASK puts them: a display binds one that its crtc
\* can show and whose window the mask names, or whose window is in no table; none when the
\* mask could not be read.
PlanesStayInMask ==
  \A p \in ObjPlanes, c \in ObjCrtcs : pipeOf[p] = c =>
    /\ c \in PossibleCrtcs[p] /\ maskOf[c] # {}
    /\ WindowName[p] \in PlaneMaskProp[c] \/ WindowName[p] \notin Table

\* While the kernel does what it can, every frame is shown but for these: the format has
\* no framebuffer of one plane; the mask could not be read, or each plane in it failed its
\* Init or was bound to another display; and, for good, after a failed look-up of the
\* position's ids, which Init ignores, the display keeps its plane and every request is
\* refused.
FrameFailsForAReason ==
  \A c \in ObjCrtcs :
    /\ outcome[c].is = "dark" =>
         \/ outcome[c].format \notin OnePlane
         \/ maskOf[c] = {}
         \/ \A p \in Usable(c) : p \notin DOMAIN planeInfo \/ pipeOf[p] \notin {NoPipe, c}
    /\ outcome[c].is = "refused" =>
         \E p \in ObjPlanes : pipeOf[p] = c /\ "position" \notin planeInfo[p].ids

\* A display gets the planes that the kernel's properties give it, and shows its frames on
\* one of them but for the reasons listed.
PlanesServeDisplays == PlanesStayInMask /\ FrameFailsForAReason
=============================================================================
