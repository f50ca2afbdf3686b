--------------------------- MODULE DisplayProofs ----------------------------
(* Proofs about the parts of the display that share no state in the        *)
(* models: the caches, BufferSync; the client's calls, ClientCalls; the    *)
(* attributes of the layers, LayerAttributes; the control calls,           *)
(* DisplayControl; the objects of the DRM device, DrmObjects; and          *)
(* Hotplug.                                                                *)
EXTENDS Hotplug, DrmObjects, DisplayControl, LayerAttributes, ClientCalls, BufferSync, TLAPS

-----------------------------------------------------------------------------
(* The caches (BufferSync).                                                *)

\* While a call is tried again nothing is answered, and the answer is the last try's.
SyncInv ==
  /\ usage \subseteq {"MEM_DMA", "CPU_READ", "CPU_WRITE"} /\ worked \in BOOLEAN /\ fresh \in BOOLEAN
  /\ sync # NoSync => "MEM_DMA" \in usage /\ answered = Unanswered
  /\ SuccessMeansSynced

LEMMA SyncStepInv == SyncInv /\ [SyncNext]_syncVars => SyncInv'
<1> SUFFICES ASSUME SyncInv, [SyncNext]_syncVars PROVE SyncInv'
  OBVIOUS
<1>1. ASSUME NEW op \in HandleCalls, NEW null \in BOOLEAN, RefuseCall(op, null) PROVE SyncInv'
  <2>1. Refusal(op, null) # "SUCCESS"
    BY DEF Refusal
  <2> QED
    BY <1>1, <2>1 DEF RefuseCall, SyncInv, SuccessMeansSynced, NoSync
<1>2. ASSUME NEW op \in HandleCalls, BeginSync(op) PROVE SyncInv'
  BY <1>2 DEF BeginSync, Dispatched, SyncInv, SuccessMeansSynced, Unanswered
<1>3. ASSUME NEW works \in BOOLEAN, Try(works) PROVE SyncInv'
  <2>1. CASE Again(sync.retry)
    BY <1>3, <2>1 DEF Try, SyncInv, SuccessMeansSynced, Unanswered
  <2>2. CASE ~ Again(sync.retry)
    <3>1. /\ answered' = [call |-> sync.is, result |-> Verdict(IF works THEN 0 ELSE -1)]
          /\ sync' = NoSync /\ fresh' = TRUE /\ usage' = usage /\ worked' = (worked \/ works)
      BY <1>3, <2>2 DEF Try
    <3>2. CASE works
      BY <1>3, <3>1, <3>2 DEF Try, SyncInv, SuccessMeansSynced, Sides
    <3>3. CASE ~ works
      BY <1>3, <3>1, <3>3 DEF SyncInv, SuccessMeansSynced, Verdict
    <3> QED
      BY <3>2, <3>3
  <2> QED
    BY <2>1, <2>2
<1>4. ASSUME NEW side \in {"cpu", "device"}, WriteBuffer(side) PROVE SyncInv'
  BY <1>4 DEF WriteBuffer, SyncInv, SuccessMeansSynced
<1>5. CASE UNCHANGED syncVars
  BY <1>5 DEF syncVars, SyncInv, SuccessMeansSynced, Sides
<1> QED
  BY <1>1, <1>2, <1>3, <1>4, <1>5 DEF SyncNext

\* DmaBufferSync, however often it tries: SUCCESS is said only of a buffer that was
\* synchronised, and holds until the other side writes.
THEOREM SuccessMeansSyncedAlways == SyncSpec => []SuccessMeansSynced
<1>1. SyncInit => SyncInv
  <2> SUFFICES ASSUME SyncInit PROVE SyncInv
    OBVIOUS
  <2>1. answered.result # "SUCCESS"
    BY DEF SyncInit, Unanswered
  <2> QED
    BY <2>1 DEF SyncInit, SyncInv, SuccessMeansSynced
<1>2. SyncInv => SuccessMeansSynced
  BY DEF SyncInv
<1> QED
  BY <1>1, <1>2, SyncStepInv, PTL DEF SyncSpec

-----------------------------------------------------------------------------
(* The client's calls (ClientCalls).                                       *)

\* Who can change the list l.
Changer(l) == IF l = "modes" THEN {"monitor"} ELSE {"client"}

\* A list that nobody changed still has the length that the client was told, and the
\* connector is taken for connected while it has a monitor's modes.
CallsInv ==
  /\ layers \in [fences : Int, changes : Int] /\ asked.room \in Int
  /\ mModes \in Screens \cup {NoScreen} /\ screen \in Screens \cup {NoScreen}
  /\ mConnected = (mModes # NoScreen)
  /\ asked.list \in Lists => asked.by \subseteq Changer(asked.list)
  /\ asked.list \in Lists /\ asked.by = {} => asked.room = Length(asked.list)
  /\ CallsStayInBounds

LEMMA LengthIsInt == ASSUME CallsInv, NEW l \in Lists PROVE Length(l) \in Int
  BY ClientCallsAssumption DEF CallsInv, Length, Lists

LEMMA CallsStepInv == CallsInv /\ [CallsNext]_callVars => CallsInv'
<1> SUFFICES ASSUME CallsInv, [CallsNext]_callVars PROVE CallsInv'
  OBVIOUS
<1> USE ClientCallsAssumption
<1>1. ASSUME NEW s \in Screens \cup {NoScreen}, Replug(s) PROVE CallsInv'
  BY <1>1 DEF Replug, CallsInv, CallsStayInBounds, Length
<1>2. CASE ReplaceModes
  <2>1. mConnected' = (mModes' # NoScreen) /\ mModes' = screen /\ screen' = screen
    BY <1>2 DEF ReplaceModes
  <2>2. UNCHANGED <<layers, overrun, said>> /\ asked' = Touch("modes", "monitor")
    BY <1>2 DEF ReplaceModes
  <2>3. CASE asked.list = "modes"
    <3>1. asked'.list = "modes" /\ asked'.room = asked.room /\ asked'.by = asked.by \cup {"monitor"}
      BY <2>2, <2>3 DEF Touch
    <3> QED
      BY <2>1, <2>2, <2>3, <3>1 DEF CallsInv, CallsStayInBounds, Length, Changer, Lists
  <2>4. CASE asked.list # "modes"
    BY <2>1, <2>2, <2>4 DEF CallsInv, CallsStayInBounds, Length, Changer, Touch
  <2> QED
    BY <2>3, <2>4
<1>3. ASSUME NEW op \in Checked \cup Unsupported \cup DOMAIN Late \cup {"RegHotPlugCallback"},
             NEW there \in BOOLEAN, NEW null \in BOOLEAN, CallOnce(op, there, null)
      PROVE CallsInv'
  <2>1. UNCHANGED <<screen, mConnected, mModes, capability, layers, asked, overrun>>
    BY <1>3 DEF CallOnce
  <2>2. said'.reply = Says(op, there, null) /\ said'.kept = Keeps(op, there, null)
        /\ said'.asked = (op \in Keepers /\ ~ null) /\ said'.served = (op \notin Unsupported)
    BY <1>3 DEF CallOnce
  <2>3. said'.reply = "SUCCESS" => said'.served
    <3>1. Says(op, there, null) = "SUCCESS" => op \notin Unsupported
      BY DEF Says, Unsupported
    <3> QED
      BY <2>2, <3>1
  <2>4. said'.reply = "SUCCESS" /\ said'.asked => said'.kept
    BY <2>2 DEF Keeps
  <2> QED
    BY <2>1, <2>3, <2>4 DEF CallsInv, CallsStayInBounds, Length
<1>4. ASSUME NEW l \in {"fences", "changes"}, NEW n, ChangeLayers(l, n) PROVE CallsInv'
  <2>1. UNCHANGED <<screen, mConnected, mModes, overrun, said>> /\ asked' = Touch(l, "client")
        /\ n \in Int /\ layers' = [layers EXCEPT ![l] = n]
    BY <1>4 DEF ChangeLayers
  <2>2. layers' \in [fences : Int, changes : Int] /\ \A k \in {"fences", "changes"} \ {l} : layers'[k] = layers[k]
    BY <2>1 DEF CallsInv
  <2>3. CASE asked.list = l
    <3>1. asked'.list = l /\ asked'.room = asked.room /\ asked'.by = asked.by \cup {"client"}
      BY <2>1, <2>3 DEF Touch
    <3> QED
      BY <2>1, <2>2, <2>3, <3>1 DEF CallsInv, CallsStayInBounds, Length, Changer, Lists
  <2>4. CASE asked.list # l
    <3>1. asked' = asked
      BY <2>1, <2>4 DEF Touch
    <3>2. asked.list \in Lists => Length(asked.list)' = Length(asked.list)
      BY <2>1, <2>2, <2>4, <3>1 DEF Length, Lists
    <3> QED
      BY <2>1, <2>2, <2>4, <3>1, <3>2 DEF CallsInv, CallsStayInBounds, Changer
  <2> QED
    BY <2>3, <2>4
<1>5. ASSUME NEW l \in Lists, CountList(l) PROVE CallsInv'
  BY <1>5, LengthIsInt DEF CountList, CallsInv, CallsStayInBounds, Length, Changer
<1>6. ASSUME NEW l \in Lists, FillList(l), overrun = NotAsked PROVE CallsInv'
  <2>1. UNCHANGED <<screen, mConnected, mModes, layers, said>> /\ asked' = NotAsked /\ asked.list = l
        /\ overrun' = IF Written(l) > asked.room THEN asked ELSE overrun
    BY <1>6 DEF FillList
  <2>2. Written(l) > asked.room => asked.by = Changer(l)
    <3>1. Length(l) \in Int /\ asked.room \in Int /\ asked.by \subseteq Changer(l)
          /\ (asked.by = {} => asked.room = Length(l))
      BY <2>1, LengthIsInt DEF CallsInv
    <3>2. Length(l) > asked.room => asked.by # {}
      BY <3>1
    <3> QED
      BY <3>1, <3>2 DEF Written, Changer
  <2> QED
    BY <1>6, <2>1, <2>2 DEF CallsInv, CallsStayInBounds, NotAsked, Lists, Changer
<1>7. CASE UNCHANGED callVars
  BY <1>7 DEF callVars, CallsInv, CallsStayInBounds, Length, Changer
<1> QED
  BY <1>1, <1>2, <1>3, <1>4, <1>5, <1>6, <1>7 DEF CallsNext

\* GetDisplaySupportedModes, GetDisplayCompChange and GetDisplayReleaseFence, for any monitors
\* and any number of layers: an array is overrun only if its list was changed in between, the
\* modes by the monitor's thread, the others by the client.
THEOREM CallsStayInBoundsAlways == CallsSpec => []CallsStayInBounds
<1>1. CallsInit => CallsInv
  BY DEF CallsInit, CallsInv, CallsStayInBounds, NotAsked, Unsaid, Lists
<1>2. CallsInv => CallsStayInBounds
  BY DEF CallsInv
<1> QED
  BY <1>1, <1>2, CallsStepInv, PTL DEF CallsSpec

-----------------------------------------------------------------------------
(* The attributes of the layers (LayerAttributes).                         *)

\* What is in the layer, for what the client has set of it.
Holds(is, given) ==
  \A a \in DOMAIN is : is[a] = IF given[a] # "unset" THEN given[a] ELSE IF a = "transform" THEN "BUTT" ELSE Garbage

AttrInv ==
  /\ DOMAIN attr = AttrLayers /\ DOMAIN set = AttrLayers
  /\ \A l \in AttrLayers : DOMAIN attr[l] = Attributes /\ DOMAIN set[l] = Attributes /\ Holds(attr[l], set[l])
  /\ \A l \in AttrLayers : Holds(drawnWith[l], askedAt[l])

\* A setter that succeeds stores its value in the member it is named for.
LEMMA SetterHolds ==
  ASSUME NEW is, NEW given, NEW a \in Attributes, NEW v \in Values,
         DOMAIN is = Attributes, DOMAIN given = Attributes, Holds(is, given)
  PROVE  Holds([is EXCEPT ![a] = v], [given EXCEPT ![a] = v])
  BY LayerAttributesAssumption DEF Holds

LEMMA AttrStepInv == AttrInv /\ [AttrNext]_attrVars => AttrInv'
<1> SUFFICES ASSUME AttrInv, [AttrNext]_attrVars PROVE AttrInv'
  OBVIOUS
<1>1. ASSUME NEW d \in AttrDisplays, NEW l \in AttrLayers, CreateLayer(d, l) PROVE AttrInv'
  BY <1>1 DEF CreateLayer, AttrInv
<1>2. ASSUME NEW d \in AttrDisplays, CommitLayers(d) PROVE AttrInv'
  <2>1. /\ attr' = attr /\ set' = set
        /\ drawnWith' = [l \in AttrLayers |->
             IF displayOf[l] = d THEN [a \in Taken(l) |-> attr[l][a]] ELSE drawnWith[l]]
        /\ askedAt' = [l \in AttrLayers |-> IF displayOf[l] = d THEN set[l] ELSE askedAt[l]]
    BY <1>2 DEF CommitLayers
  <2>2. ASSUME NEW l \in AttrLayers PROVE Holds(drawnWith'[l], askedAt'[l])
    <3>1. CASE displayOf[l] = d
      <4>1. drawnWith'[l] = [a \in Taken(l) |-> attr[l][a]] /\ askedAt'[l] = set[l]
        BY <2>1, <3>1
      <4>2. Taken(l) \subseteq Attributes
        BY DEF Taken, Attributes
      <4>3. DOMAIN attr[l] = Attributes /\ Holds(attr[l], set[l])
        BY DEF AttrInv
      <4> QED
        BY <4>1, <4>2, <4>3 DEF Holds
    <3>2. CASE displayOf[l] # d
      BY <2>1, <3>2 DEF AttrInv
    <3> QED
      BY <3>1, <3>2
  <2> QED
    BY <2>1, <2>2 DEF AttrInv
<1>3. ASSUME NEW op \in DOMAIN Setters, NEW d \in AttrDisplays \cup {NoSuch}, NEW l \in AttrLayers \cup {NoSuch},
             NEW v \in Values, NEW null \in BOOLEAN, SetAttribute(op, d, l, v, null)
      PROVE AttrInv'
  <2>1. UNCHANGED <<drawnWith, askedAt>>
    BY <1>3 DEF SetAttribute
  <2>2. CASE Reply(op, d, l, null) = "SUCCESS" /\ Setters[op] # "none"
    <3>1. attr' = [attr EXCEPT ![l][Setters[op]] = v] /\ set' = [set EXCEPT ![l][Setters[op]] = v]
      BY <1>3, <2>2 DEF SetAttribute, Stores
    <3>2. l \in AttrLayers
      BY <2>2 DEF Reply
    <3>3. Setters[op] \in Attributes
      BY <2>2 DEF Setters, Attributes
    <3>4. /\ attr' = [attr EXCEPT ![l] = [attr[l] EXCEPT ![Setters[op]] = v]]
          /\ set' = [set EXCEPT ![l] = [set[l] EXCEPT ![Setters[op]] = v]]
      BY <3>1
    <3>5. DOMAIN attr[l] = Attributes /\ DOMAIN set[l] = Attributes /\ Holds(attr[l], set[l])
      BY <3>2 DEF AttrInv
    <3>6. Holds([attr[l] EXCEPT ![Setters[op]] = v], [set[l] EXCEPT ![Setters[op]] = v])
      BY <3>3, <3>5, SetterHolds
    <3> QED
      BY <2>1, <3>2, <3>4, <3>5, <3>6 DEF AttrInv
  <2>3. CASE ~ (Reply(op, d, l, null) = "SUCCESS" /\ Setters[op] # "none")
    <3>1. attr' = attr /\ set' = set
      BY <1>3, <2>3 DEF SetAttribute, Stores
    <3> QED
      BY <2>1, <3>1 DEF AttrInv
  <2> QED
    BY <2>2, <2>3
<1>4. CASE UNCHANGED attrVars
  BY <1>4 DEF attrVars, AttrInv
<1> QED
  BY <1>1, <1>2, <1>3, <1>4 DEF AttrNext

\* HdiLayer's setters and the GFX composition, for any displays, layers and values: what is
\* drawn is what was set when the frame was committed, or what was never initialised.
THEOREM DrawsWhatWasSetAlways == AttrSpec => []DrawsWhatWasSet
<1>1. AttrInit => AttrInv
  BY DEF AttrInit, AttrInv, Holds, Fresh, Unset, NotDrawn
<1>2. AttrInv => DrawsWhatWasSet
  BY DEF AttrInv, Holds, DrawsWhatWasSet
<1> QED
  BY <1>1, <1>2, AttrStepInv, PTL DEF AttrSpec

-----------------------------------------------------------------------------
(* Power and backlight (DisplayControl).                                   *)

CtlInv ==
  /\ DOMAIN mDpmsState = CtlDisplays /\ DOMAIN mBrightnessLevel = CtlDisplays /\ DOMAIN behind = CtlDisplays
  /\ session \in BOOLEAN /\ powerSet \subseteq CtlDisplays
  /\ ~ session => \A d \in CtlDisplays : behind[d] # "no"
  /\ ReportsAreExplained

\* A level that the kernel takes is stored as it was asked for: printed as a signed number,
\* one above 2^31 would be negative.
LEMMA TakenAsKept ==
  ASSUME NEW level \in Levels, Takes(Clamp(level))
  PROVE  Printed(Clamp(level)) = Kept(level)
<1>1. level \in 0 .. Word - 1 /\ Word \in Nat /\ BACKLIGHT_MIN < Word
  BY DisplayControlAssumption
<1>2. Clamp(level) \in 0 .. Word - 1
  BY <1>1 DEF Clamp, BACKLIGHT_MIN
<1>3. Printed(Clamp(level)) >= 0
  BY <1>1, <1>2, DisplayControlAssumption DEF Takes, Printed
<1> QED
  BY <1>1, <1>2, <1>3 DEF Printed, Kept

LEMMA CtlStepInv == CtlInv /\ [CtlNext]_ctlVars => CtlInv'
<1> SUFFICES ASSUME CtlInv, [CtlNext]_ctlVars PROVE CtlInv'
  OBVIOUS
<1> USE DisplayControlAssumption
<1>1. CASE DeviceInitialize
  <2>1. CASE UNCHANGED <<session, mDpmsState, mBrightnessLevel>>
    BY <1>1, <2>1 DEF DeviceInitialize, CtlInv, ReportsAreExplained
  <2>2. CASE ~ UNCHANGED <<session, mDpmsState, mBrightnessLevel>>
    <3>1. ~ session /\ session' = TRUE /\ mDpmsState' = [d \in CtlDisplays |-> dpms]
          /\ mBrightnessLevel' \in [CtlDisplays -> {0, backlight}]
          /\ UNCHANGED <<dpms, backlight, powerSet, behind>>
      BY <1>1, <2>2 DEF DeviceInitialize, CtlInv
    <3> QED
      BY <3>1 DEF CtlInv, ReportsAreExplained
  <2> QED
    BY <2>1, <2>2
<1>2. CASE DeviceUninitialize
  BY <1>2 DEF DeviceUninitialize, CtlInv, ReportsAreExplained
<1>3. ASSUME NEW d \in CtlDisplays \cup {Stranger}, NotReached(d) PROVE CtlInv'
  BY <1>3 DEF NotReached, CtlInv, ReportsAreExplained
<1>4. ASSUME NEW d \in CtlDisplays \cup {Stranger}, NEW status, SetDisplayPowerStatus(d, status) PROVE CtlInv'
  BY <1>4 DEF SetDisplayPowerStatus, CtlInv, ReportsAreExplained
<1>5. ASSUME NEW d \in CtlDisplays \cup {Stranger}, NEW level \in Levels, SetDisplayBacklight(d, level)
      PROVE CtlInv'
  <2>1. UNCHANGED <<session, dpms, mDpmsState, powerSet>> /\ session /\ d \in CtlDisplays
    BY <1>5 DEF SetDisplayBacklight, Reaches
  <2>2. CASE UNCHANGED <<backlight, mBrightnessLevel, behind>>
    BY <2>1, <2>2 DEF CtlInv, ReportsAreExplained
  <2>3. CASE /\ mBrightnessLevel' = [mBrightnessLevel EXCEPT ![d] = Kept(level)]
             /\ backlight' = IF Takes(Clamp(level)) THEN Printed(Clamp(level)) ELSE backlight
             /\ behind' = Behind(d, Clamp(level))
    <3>1. DOMAIN mBrightnessLevel' = CtlDisplays /\ DOMAIN behind' = CtlDisplays
      BY <2>3 DEF CtlInv, Behind
    <3>2. ASSUME NEW e \in CtlDisplays, e \in Dimmable
          PROVE  mBrightnessLevel'[e] = backlight' \/ behind'[e] # "no"
      <4>1. CASE e = d /\ Takes(Clamp(level))
        BY <2>3, <4>1, TakenAsKept DEF CtlInv
      <4>2. CASE e = d /\ ~ Takes(Clamp(level))
        BY <2>3, <4>2 DEF Behind
      <4>3. CASE e # d /\ Takes(Clamp(level))
        BY <2>3, <4>3 DEF Behind
      <4>4. CASE e # d /\ ~ Takes(Clamp(level))
        BY <2>1, <2>3, <3>2, <4>4 DEF Behind, CtlInv, ReportsAreExplained
      <4> QED
        BY <4>1, <4>2, <4>3, <4>4
    <3> QED
      BY <2>1, <3>1, <3>2 DEF CtlInv, ReportsAreExplained
  <2> QED
    BY <1>5, <2>2, <2>3 DEF SetDisplayBacklight
<1>6. ASSUME NEW d \in CtlDisplays, HotplugInit(d) PROVE CtlInv'
  BY <1>6 DEF HotplugInit, CtlInv, ReportsAreExplained
<1>7. CASE UNCHANGED ctlVars
  BY <1>7 DEF ctlVars, CtlInv, ReportsAreExplained
<1> QED
  BY <1>1, <1>2, <1>3, <1>4, <1>5, <1>6, <1>7 DEF CtlNext

\* DrmConnector, for any displays and levels: what is reported of power and backlight is what
\* there is, but for the reasons the property names.
THEOREM ReportsAreExplainedAlways == CtlSpec => []ReportsAreExplained
<1>1. CtlInit => CtlInv
  BY DEF CtlInit, CtlInv, ReportsAreExplained
<1>2. CtlInv => ReportsAreExplained
  BY DEF CtlInv
<1> QED
  BY <1>1, <1>2, CtlStepInv, PTL DEF CtlSpec

-----------------------------------------------------------------------------
(* The objects of the DRM device (DrmObjects).                             *)

\* What discovery knows of crtcs and planes is the kernel's, as far as it could be read.
KnownInv ==
  /\ DOMAIN maskOf \subseteq ObjCrtcs \cap looked /\ DOMAIN planeInfo \subseteq ObjPlanes \cap looked
  /\ \A c \in DOMAIN maskOf : maskOf[c] \in {{}, PlaneMaskProp[c] \cap Table}
  /\ \A p \in DOMAIN planeInfo :
       /\ PlaneRequired \subseteq planeInfo[p].ids
       /\ planeInfo[p].window = IF WindowName[p] \in Table THEN WindowName[p] ELSE Unknown

\* Displays start when all is known.  Each takes all the planes it can use that are idle, and
\* a plane stays with the display that it is bound to.
StartedInv ==
  /\ DOMAIN planesOf \subseteq DOMAIN maskOf
  /\ DOMAIN planesOf # {} => looked = ObjCrtcs \cup ObjPlanes
  /\ pipeOf \in [ObjPlanes -> ObjCrtcs \cup {NoPipe}]
  /\ \A c \in DOMAIN planesOf :
       /\ planesOf[c] \subseteq DOMAIN planeInfo /\ \A p \in planesOf[c] : c \in PossibleCrtcs[p]
       /\ \A p \in DOMAIN planeInfo \ planesOf[c] :
            c \in PossibleCrtcs[p] /\ PlaneKind[p] # "CURSOR" => pipeOf[p] \notin {NoPipe, c}
  /\ \A p \in ObjPlanes : pipeOf[p] # NoPipe =>
       pipeOf[p] \in DOMAIN planesOf /\ p \in planesOf[pipeOf[p]] /\ InMask(p, pipeOf[p])

OutcomeInv ==
  /\ DOMAIN outcome = ObjCrtcs
  /\ \A c \in ObjCrtcs : outcome[c].is # "none" => c \in DOMAIN planesOf
  /\ FrameFailsForAReason

ObjInv == KnownInv /\ StartedInv /\ OutcomeInv

LEMMA ObjInitInv == ObjInit => ObjInv
<1> SUFFICES ASSUME ObjInit PROVE ObjInv
  OBVIOUS
<1>1. DOMAIN maskOf = {} /\ DOMAIN planeInfo = {} /\ DOMAIN planesOf = {}
  BY DEF ObjInit
<1>2. KnownInv
  BY <1>1 DEF KnownInv
<1>3. StartedInv
  BY <1>1 DEF ObjInit, StartedInv
<1>4. OutcomeInv
  BY DEF ObjInit, OutcomeInv, FrameFailsForAReason
<1> QED
  BY <1>2, <1>3, <1>4 DEF ObjInv

\* Before the first display starts no plane is bound and no frame was shown.
LEMMA NothingStarted ==
  ASSUME ObjInv, looked # ObjCrtcs \cup ObjPlanes
  PROVE  /\ DOMAIN planesOf = {} /\ \A p \in ObjPlanes : pipeOf[p] = NoPipe
         /\ \A c \in ObjCrtcs : outcome[c].is = "none"
  BY DEF ObjInv, StartedInv, OutcomeInv

\* ... so that whatever discovery then learns, only what is known has to be looked at.
LEMMA LookStep ==
  ASSUME ObjInv, looked # ObjCrtcs \cup ObjPlanes, UNCHANGED <<planesOf, pipeOf, outcome>>, KnownInv'
  PROVE  ObjInv'
<1>1. DOMAIN planesOf' = {} /\ (\A p \in ObjPlanes : pipeOf'[p] = NoPipe) /\ \A c \in ObjCrtcs : outcome'[c].is = "none"
  BY NothingStarted
<1>2. StartedInv'
  BY <1>1, DrmObjectsAssumption DEF ObjInv, StartedInv
<1>3. OutcomeInv'
  BY <1>1 DEF ObjInv, OutcomeInv, FrameFailsForAReason
<1> QED
  BY <1>2, <1>3 DEF ObjInv

LEMMA FindCrtcStep == ASSUME ObjInv, NEW c \in ObjCrtcs, FindCrtc(c) PROVE ObjInv'
<1>1. c \notin looked /\ looked' = looked \cup {c} /\ UNCHANGED <<planeInfo, planesOf, pipeOf, outcome>>
  BY DEF FindCrtc
<1>2. \/ maskOf' = maskOf
      \/ maskOf' = With(maskOf, c, PlaneMaskProp[c] \cap Table) \/ maskOf' = With(maskOf, c, {})
  BY DEF FindCrtc
<1>3. KnownInv'
  BY <1>1, <1>2 DEF ObjInv, KnownInv, With
<1> QED
  BY <1>1, <1>3, LookStep

LEMMA FindPlaneStep == ASSUME ObjInv, NEW p \in ObjPlanes, FindPlane(p) PROVE ObjInv'
<1>1. p \notin looked /\ looked' = looked \cup {p} /\ UNCHANGED <<maskOf, planesOf, pipeOf, outcome>>
  BY DEF FindPlane
<1>2. PICK failed \in SUBSET PlaneQueries :
        planeInfo' = IF failed \cap PlaneRequired # {} THEN planeInfo
                     ELSE With(planeInfo, p,
                            [ids |-> PlaneQueries \ failed,
                             window |-> IF WindowName[p] \in Table THEN WindowName[p] ELSE Unknown])
  BY DEF FindPlane
<1>3. failed \cap PlaneRequired = {} => PlaneRequired \subseteq PlaneQueries \ failed
  BY DEF PlaneRequired
<1>4. KnownInv'
  BY <1>1, <1>2, <1>3 DEF ObjInv, KnownInv, With
<1> QED
  BY <1>1, <1>4, LookStep

LEMMA StartStep == ASSUME ObjInv, NEW c \in ObjCrtcs, StartDisplay(c) PROVE ObjInv'
<1> DEFINE took == GetDrmPlane(c, "PRIMARY") \cup GetDrmPlane(c, "OVERLAY")
<1>1. /\ looked = ObjCrtcs \cup ObjPlanes /\ c \in DOMAIN maskOf /\ c \notin DOMAIN planesOf
      /\ UNCHANGED <<looked, maskOf, planeInfo, pipeOf, outcome>>
  BY DEF StartDisplay
<1>2. /\ DOMAIN planesOf' = DOMAIN planesOf \cup {c} /\ planesOf'[c] = took
      /\ \A e \in DOMAIN planesOf : planesOf'[e] = planesOf[e]
  BY <1>1 DEF StartDisplay, With
<1>3. /\ took \subseteq DOMAIN planeInfo /\ \A p \in took : c \in PossibleCrtcs[p]
      /\ \A p \in DOMAIN planeInfo \ took :
           c \in PossibleCrtcs[p] /\ PlaneKind[p] # "CURSOR" => pipeOf[p] \notin {NoPipe, c}
  <2>1. \A p \in DOMAIN planeInfo : pipeOf[p] # c /\ PlaneKind[p] \in {"PRIMARY", "OVERLAY", "CURSOR"}
    BY <1>1, DrmObjectsAssumption DEF ObjInv, KnownInv, StartedInv
  <2> QED
    BY <2>1 DEF GetDrmPlane
<1>4. StartedInv'
  <2>1. \A p \in ObjPlanes : pipeOf[p] # NoPipe =>
          pipeOf[p] \in DOMAIN planesOf' /\ p \in planesOf'[pipeOf[p]] /\ InMask(p, pipeOf[p])
    BY <1>1, <1>2 DEF ObjInv, StartedInv
  <2> HIDE DEF took
  <2> QED
    BY <1>1, <1>2, <1>3, <2>1 DEF ObjInv, StartedInv, InMask
<1>5. KnownInv' /\ OutcomeInv'
  BY <1>1, <1>2 DEF ObjInv, KnownInv, OutcomeInv, FrameFailsForAReason
<1> QED
  BY <1>4, <1>5 DEF ObjInv

\* A frame that finds no plane, for a format that has a framebuffer: the mask is empty, or
\* each plane that the display could use failed its Init or is another's.
LEMMA NoneFits ==
  ASSUME ObjInv, NEW c \in DOMAIN planesOf, \A p \in planesOf[c] : ~ Fits(p, c), maskOf[c] # {},
         NEW p \in Usable(c), p \in DOMAIN planeInfo
  PROVE  pipeOf[p] \notin {NoPipe, c}
<1>1. c \in PossibleCrtcs[p] /\ PlaneKind[p] # "CURSOR" /\ WindowName[p] \in PlaneMaskProp[c] /\ p \in ObjPlanes
  BY DEF Usable
<1>2. maskOf[c] = PlaneMaskProp[c] \cap Table
  BY DEF ObjInv, KnownInv, StartedInv
<1>3. InMask(p, c)
  BY <1>1, <1>2 DEF ObjInv, KnownInv, InMask, Table, Unknown
<1>4. CASE p \in planesOf[c]
  BY <1>3, <1>4 DEF Fits
<1>5. CASE p \notin planesOf[c]
  BY <1>1, <1>5 DEF ObjInv, StartedInv
<1> QED
  BY <1>4, <1>5

\* A frame that leaves the planes as they are bound.
LEMMA DarkStep ==
  ASSUME ObjInv, NEW c \in ObjCrtcs, c \in DOMAIN planesOf, NEW f, FrameIs(c, "dark", f),
         UNCHANGED <<looked, maskOf, planeInfo, planesOf, pipeOf>>,
         f \notin OnePlane \/ \A p \in planesOf[c] : ~ Fits(p, c)
  PROVE  ObjInv'
<1>1. outcome' = [outcome EXCEPT ![c] = [is |-> "dark", format |-> f]] /\ DOMAIN outcome = ObjCrtcs
  BY DEF FrameIs, ObjInv, OutcomeInv
<1>2. outcome'[c].is = "dark" /\ outcome'[c].format = f /\ \A e \in ObjCrtcs \ {c} : outcome'[e] = outcome[e]
  BY <1>1
<1>3. f \notin OnePlane \/ maskOf[c] = {} \/ \A p \in Usable(c) : p \notin DOMAIN planeInfo \/ pipeOf[p] \notin {NoPipe, c}
  BY NoneFits
<1>4. FrameFailsForAReason'
  BY <1>2, <1>3 DEF ObjInv, OutcomeInv, FrameFailsForAReason
<1>5. KnownInv' /\ StartedInv'
  BY DEF ObjInv, KnownInv, StartedInv, InMask
<1> QED
  BY <1>1, <1>2, <1>4, <1>5 DEF ObjInv, OutcomeInv

LEMMA BindStep ==
  ASSUME ObjInv, NEW c \in ObjCrtcs, c \in DOMAIN planesOf, NEW p \in planesOf[c], Fits(p, c), NEW f,
         pipeOf' = [pipeOf EXCEPT ![p] = c], UNCHANGED <<looked, maskOf, planeInfo, planesOf>>,
         IF NeededIds \subseteq planeInfo[p].ids THEN FrameIs(c, "shown", f) ELSE FrameIs(c, "refused", f)
  PROVE  ObjInv'
<1>1. /\ p \in ObjPlanes /\ p \in DOMAIN planeInfo /\ pipeOf[p] \in {NoPipe, c} /\ InMask(p, c)
      /\ PlaneRequired \subseteq planeInfo[p].ids
  BY DEF ObjInv, KnownInv, StartedInv, Fits
<1>2. /\ pipeOf' \in [ObjPlanes -> ObjCrtcs \cup {NoPipe}] /\ pipeOf'[p] = c
      /\ \A q \in ObjPlanes \ {p} : pipeOf'[q] = pipeOf[q]
  BY <1>1 DEF ObjInv, StartedInv
<1>3. KnownInv'
  BY DEF ObjInv, KnownInv
<1>4. StartedInv'
  <2>1. ASSUME NEW e \in DOMAIN planesOf, NEW q \in DOMAIN planeInfo \ planesOf[e],
               e \in PossibleCrtcs[q], PlaneKind[q] # "CURSOR"
        PROVE  pipeOf'[q] \notin {NoPipe, e}
    <3>1. pipeOf[q] \notin {NoPipe, e} /\ q \in ObjPlanes
      BY <2>1 DEF ObjInv, StartedInv, KnownInv
    <3>2. CASE q = p
      BY <1>1, <1>2, <2>1, <3>1, <3>2, DrmObjectsAssumption
    <3> QED
      BY <1>2, <3>1, <3>2
  <2>2. ASSUME NEW q \in ObjPlanes, pipeOf'[q] # NoPipe
        PROVE  pipeOf'[q] \in DOMAIN planesOf /\ q \in planesOf[pipeOf'[q]] /\ InMask(q, pipeOf'[q])
    <3>1. CASE q = p
      BY <1>1, <1>2, <3>1
    <3>2. CASE q # p
      BY <1>2, <2>2, <3>2 DEF ObjInv, StartedInv
    <3> QED
      BY <3>1, <3>2
  <2> QED
    BY <1>2, <2>1, <2>2 DEF ObjInv, StartedInv, InMask
<1>5. OutcomeInv'
  <2>1. PICK is \in {"shown", "refused"} :
          /\ outcome' = [outcome EXCEPT ![c] = [is |-> is, format |-> f]]
          /\ is = "refused" => ~ (NeededIds \subseteq planeInfo[p].ids)
    BY DEF FrameIs
  <2>2. /\ DOMAIN outcome' = ObjCrtcs /\ outcome'[c].is = is
        /\ \A e \in ObjCrtcs \ {c} : outcome'[e] = outcome[e]
    BY <2>1 DEF ObjInv, OutcomeInv
  <2>3. is = "refused" => "position" \notin planeInfo[p].ids
    BY <1>1, <2>1 DEF NeededIds, PlaneRequired, PlaneQueries
  <2>4. ASSUME NEW e \in ObjCrtcs \ {c}, outcome[e].is = "dark"
        PROVE  \/ outcome[e].format \notin OnePlane \/ maskOf[e] = {}
               \/ \A q \in Usable(e) : q \notin DOMAIN planeInfo \/ pipeOf'[q] \notin {NoPipe, e}
    <3>1. \/ outcome[e].format \notin OnePlane \/ maskOf[e] = {}
          \/ \A q \in Usable(e) : q \notin DOMAIN planeInfo \/ pipeOf[q] \notin {NoPipe, e}
      BY <2>4 DEF ObjInv, OutcomeInv, FrameFailsForAReason
    <3>2. \A q \in Usable(e) : q \in ObjPlanes
      BY DEF Usable
    <3> QED
      BY <1>2, <3>1, <3>2, DrmObjectsAssumption
  <2>5. ASSUME NEW e \in ObjCrtcs \ {c}, outcome[e].is = "refused"
        PROVE  \E q \in ObjPlanes : pipeOf'[q] = e /\ "position" \notin planeInfo[q].ids
    <3>1. PICK q \in ObjPlanes : pipeOf[q] = e /\ "position" \notin planeInfo[q].ids
      BY <2>5 DEF ObjInv, OutcomeInv, FrameFailsForAReason
    <3>2. q # p
      BY <1>1, <3>1, DrmObjectsAssumption
    <3> QED
      BY <1>2, <3>1, <3>2
  <2>6. FrameFailsForAReason'
    <3> SUFFICES ASSUME NEW e \in ObjCrtcs
                 PROVE  /\ outcome'[e].is = "dark" =>
                             \/ outcome'[e].format \notin OnePlane \/ maskOf'[e] = {}
                             \/ \A q \in Usable(e) : q \notin DOMAIN planeInfo' \/ pipeOf'[q] \notin {NoPipe, e}
                        /\ outcome'[e].is = "refused" =>
                             \E q \in ObjPlanes : pipeOf'[q] = e /\ "position" \notin planeInfo'[q].ids
      BY DEF FrameFailsForAReason
    <3>1. CASE e = c
      BY <1>1, <1>2, <2>1, <2>2, <2>3, <3>1
    <3>2. CASE e # c
      BY <2>2, <2>4, <2>5, <3>2
    <3> QED
      BY <3>1, <3>2
  <2> QED
    BY <2>2, <2>6 DEF ObjInv, OutcomeInv
<1> QED
  BY <1>3, <1>4, <1>5 DEF ObjInv

LEMMA ObjStepInv == ObjInv /\ [ObjNext]_objVars => ObjInv'
<1> SUFFICES ASSUME ObjInv, [ObjNext]_objVars PROVE ObjInv'
  OBVIOUS
<1>1. CASE DiscoveryDevice \/ PropertyVanishes \/ UNCHANGED objVars
  <2>1. UNCHANGED <<looked, maskOf, planeInfo, planesOf, pipeOf, outcome>>
    BY <1>1 DEF DiscoveryDevice, PropertyVanishes, objVars
  <2> QED
    BY <2>1 DEF ObjInv, KnownInv, StartedInv, InMask, OutcomeInv, FrameFailsForAReason
<1>2. ASSUME NEW c \in ObjCrtcs, NEW f \in ObjFormats, ShowFrame(c, f) PROVE ObjInv'
  <2>1. c \in DOMAIN planesOf /\ UNCHANGED <<device, looked, maskOf, planeInfo, planesOf>>
    BY <1>2 DEF ShowFrame
  <2>2. CASE FrameIs(c, "dark", f) /\ pipeOf' = pipeOf /\ \A p \in planesOf[c] : ~ Fits(p, c)
    BY <2>1, <2>2, DarkStep
  <2>3. CASE FrameIs(c, "dark", f) /\ pipeOf' = pipeOf /\ ConvertToDrmFormat(f) \notin OnePlane
    <3>1. f \notin OnePlane
      BY <2>3 DEF ConvertToDrmFormat
    <3> QED
      BY <2>1, <2>3, <3>1, DarkStep
  <2>4. ASSUME NEW p \in planesOf[c], Fits(p, c), pipeOf' = [pipeOf EXCEPT ![p] = c],
               IF NeededIds \subseteq planeInfo[p].ids THEN FrameIs(c, "shown", f) ELSE FrameIs(c, "refused", f)
        PROVE  ObjInv'
    BY <2>1, <2>4, BindStep
  <2> QED
    BY <1>2, <2>2, <2>3, <2>4 DEF ShowFrame
<1> QED
  BY <1>1, <1>2, FindCrtcStep, FindPlaneStep, StartStep DEF ObjNext

\* Discovery, HdiDrmComposition and the mask, for any crtcs, planes and formats: displays
\* keep to the planes that the kernel's properties give them, and a frame fails only for the
\* reasons listed.
THEOREM PlanesServeDisplaysAlways == ObjSpec => []PlanesServeDisplays
<1>1. ObjInv => PlanesServeDisplays
  <2> SUFFICES ASSUME ObjInv, NEW p \in ObjPlanes, NEW c \in ObjCrtcs, pipeOf[p] = c
               PROVE  /\ c \in PossibleCrtcs[p] /\ maskOf[c] # {}
                      /\ WindowName[p] \in PlaneMaskProp[c] \/ WindowName[p] \notin Table
    BY DEF ObjInv, OutcomeInv, PlanesServeDisplays, PlanesStayInMask
  <2>1. c \in DOMAIN planesOf /\ p \in planesOf[c] /\ InMask(p, c) /\ c \in PossibleCrtcs[p] /\ p \in DOMAIN planeInfo
    BY DrmObjectsAssumption DEF ObjInv, StartedInv
  <2>2. maskOf[c] \in {{}, PlaneMaskProp[c] \cap Table}
    BY <2>1 DEF ObjInv, StartedInv, KnownInv
  <2> QED
    BY <2>1, <2>2 DEF ObjInv, KnownInv, InMask, Table, Unknown
<1> QED
  BY <1>1, ObjInitInv, ObjStepInv, PTL DEF ObjSpec

-----------------------------------------------------------------------------
(* The hotplug (Hotplug).                                                  *)

\* The monitor is handling a uevent; what it knows of the connectors is behind the kernel's;
\* only one connector can change.
Marked == mpc \in {"probe", "tell"}
Lagging == (conn \ mConnectState) \cup (mConnectState \ conn)
OneHot == \A c, d \in Hot : c = d
Good == ~ missed /\ ~ raced /\ ~ overflow /\ FewChanges

HotTyped ==
  /\ conn \subseteq Displays /\ mConnectState \subseteq Displays /\ todo \subseteq Displays /\ ctodo \subseteq Displays
  /\ backlog \in Seq(BOOLEAN) /\ plugIn \in BOOLEAN /\ subscribed \in BOOLEAN /\ overflow \in BOOLEAN
  /\ mpc \in MonitorPcs /\ cpc \in ClientPcs /\ missed \in BOOLEAN /\ raced \in BOOLEAN
  /\ told \in [Callbacks -> SUBSET Displays] /\ mHotPlugCallBacks \subseteq Callbacks
  /\ worst \in 0 .. 3 /\ burst \in 0 .. 3 /\ burst <= worst
  /\ (mpc = "tell" => mdisp \in Displays) /\ (cpc = "tell" => cdisp \in Displays)

\* The thread starts after the discovery and nobody is told of anything before that.
StartInv ==
  /\ cpc \in {"discover", "spawn"} <=> mpc = "none"
  /\ mpc \in {"none", "start"} => ~ subscribed
  /\ ~ subscribed => backlog = <<>> /\ mpc \in {"none", "start", "exit"}
  /\ cpc \in InitPcs => mHotPlugCallBacks = {}
  /\ \A cb \in Callbacks \ mHotPlugCallBacks : told[cb] = {}
  /\ Handling => burst >= 1

\* The uevents that are not done with are of changes of this burst.
CountInv == Len(backlog) + (IF Marked THEN 1 ELSE 0) <= burst

\* A connector the session lags behind on has its uevent yet to come, or is yet to be probed
\* for one that says what it is now.
BehindInv ==
  /\ Lagging \subseteq Hot
  /\ ~ Handling => Lagging = {}
  /\ Marked /\ backlog = <<>> => Lagging \subseteq todo
  /\ Marked => \A d \in todo \cap Lagging : plugIn = (d \in conn)
  /\ ~ Marked /\ backlog # <<>> => \A d \in Lagging : backlog[1] = (d \in conn)
  /\ ~ Marked /\ Len(backlog) = 2 => Lagging = {}
  /\ OneHot => \A d \in Hot :
       /\ backlog # <<>> => backlog[Len(backlog)] = (d \in conn)
       /\ burst = 1 /\ backlog # <<>> => d \in Lagging
       /\ burst = 1 /\ Marked => (d \in todo <=> d \in Lagging)

\* What the session has stored was told, but for the display it is about to tell of; and to
\* a client that registers, but for the displays that are left.
Passed == IF mpc = "tell" THEN (mConnectState \ {mdisp}) \cup ({mdisp} \ mConnectState) ELSE mConnectState
ToldInv ==
  /\ cpc \notin {"replay", "tell"} => \A cb \in mHotPlugCallBacks : told[cb] = Passed
  /\ cpc \in {"replay", "tell"} =>
       /\ ~ Marked
       /\ \A cb \in mHotPlugCallBacks :
            /\ mConnectState \ (ctodo \cup (IF cpc = "tell" THEN {cdisp} ELSE {})) \subseteq told[cb]
            /\ told[cb] \subseteq mConnectState
  /\ cpc = "tell" => cdisp \in mConnectState
  /\ mpc = "tell" => mdisp \notin todo /\ plugIn = (mdisp \in mConnectState)

KnowInv == HotTyped /\ StartInv /\ (Good => CountInv /\ (cpc # "discover" => BehindInv) /\ ToldInv)

LEMMA AppendsBoolean == \A s \in Seq(BOOLEAN), b \in BOOLEAN : Append(s, b) \in Seq(BOOLEAN)
  OBVIOUS

LEMMA KnowInitInv == Init => KnowInv
<1> SUFFICES ASSUME Init PROVE KnowInv
  OBVIOUS
<1>1. HotTyped
  <2>1. backlog \in Seq(BOOLEAN)
    BY DEF Init
  <2>2. told \in [Callbacks -> SUBSET Displays]
    BY DEF Init
  <2>6. subscribed \in BOOLEAN /\ overflow \in BOOLEAN /\ missed \in BOOLEAN /\ raced \in BOOLEAN /\ plugIn \in BOOLEAN
    BY DEF Init
  <2>7. mpc # "tell" /\ cpc # "tell"
    BY DEF Init
  <2>3. worst \in 0 .. 3 /\ burst \in 0 .. 3 /\ burst <= worst
    BY DEF Init
  <2>4. mpc \in MonitorPcs /\ cpc \in ClientPcs
    BY DEF Init, MonitorPcs, ClientPcs, InitPcs
  <2>5. conn \subseteq Displays /\ mConnectState = {} /\ todo = {} /\ ctodo = {} /\ mHotPlugCallBacks = {}
    BY DEF Init
  <2> QED
    BY <2>1, <2>2, <2>3, <2>4, <2>5, <2>6, <2>7 DEF HotTyped
<1>2. StartInv
  BY DEF Init, StartInv, InitPcs, Handling
<1>3. CountInv
  BY DEF Init, CountInv, Marked
<1>4. ToldInv
  BY DEF Init, ToldInv
<1> QED
  BY <1>1, <1>2, <1>3, <1>4 DEF Init, KnowInv

\* The types, and that the thread starts after the discovery.
LEMMA HotTypedStep == ASSUME KnowInv, [Next]_vars PROVE HotTyped' /\ StartInv'
<1> USE DEF kernelVars, monitorVars, objectVars, clientVars, history
<1>0. HotTyped /\ StartInv
  BY DEF KnowInv
<1>1. ASSUME NEW d \in Hot, Change(d) PROVE HotTyped' /\ StartInv'
  <2>1. conn' \subseteq Displays /\ (d \in conn') \in BOOLEAN
    BY <1>0, <1>1, HotplugAssumption DEF Change, HotTyped
  <2>2. backlog' \in Seq(BOOLEAN)
    <3>1. backlog' = Append(backlog, d \in conn') \/ backlog' = backlog
      BY <1>1 DEF Change
    <3>2. backlog \in Seq(BOOLEAN)
      BY <1>0 DEF HotTyped
    <3> QED
      BY <2>1, <3>1, <3>2, AppendsBoolean
  <2>3. overflow' \in BOOLEAN /\ missed' \in BOOLEAN
    BY <1>0, <1>1 DEF Change, HotTyped
  <2>4. burst' \in 1 .. 3 /\ worst' \in 0 .. 3 /\ burst' <= worst'
    BY <1>0, <1>1 DEF Change, HotTyped
  <2>5. ~ subscribed => backlog' = backlog
    BY <1>1 DEF Change
  <2> QED
    BY <1>0, <1>1, <2>1, <2>2, <2>3, <2>4, <2>5 DEF Change, HotTyped, StartInv, Handling
<1>2. CASE ThreadInit
  BY <1>0, <1>2 DEF ThreadInit, MGoto, HotTyped, StartInv, Handling, MonitorPcs, ClientPcs, InitPcs
<1>3. CASE Store \/ Test
  BY <1>0, <1>3 DEF Store, Test, MGoto, HotTyped, StartInv, Handling, MonitorPcs, ClientPcs, InitPcs
<1>4. CASE Read
  <2>1. backlog # <<>> => Head(backlog) \in BOOLEAN /\ Tail(backlog) \in Seq(BOOLEAN)
    BY <1>0 DEF HotTyped
  <2>2. backlog' \in Seq(BOOLEAN) /\ plugIn' \in BOOLEAN /\ todo' \subseteq Displays
    BY <1>0, <1>4, <2>1 DEF Read, HotTyped
  <2>3. raced' \in BOOLEAN
    BY <1>0, <1>4 DEF Read, HotTyped
  <2>4. subscribed /\ mpc = "read" /\ mpc' \in {"probe", "exit"} /\ (mpc' = "exit" => backlog' = backlog)
    BY <1>0, <1>4 DEF Read, MGoto, StartInv
  <2>5. Handling' => burst >= 1
    BY <1>0, <1>4, <2>4 DEF Handling, Read, MGoto, StartInv
  <2> QED
    BY <1>0, <1>4, <2>2, <2>3, <2>4, <2>5 DEF Read, HotTyped, StartInv, Handling, MonitorPcs, ClientPcs, InitPcs
<1>5. ASSUME NEW d \in Displays, Probe(d) PROVE HotTyped' /\ StartInv'
  BY <1>0, <1>5, HotplugAssumption DEF Probe, MGoto, HotTyped, StartInv, Handling, MonitorPcs, ClientPcs, InitPcs
<1>6. CASE ProbedAll
  BY <1>0, <1>6 DEF ProbedAll, MGoto, HotTyped, StartInv, Handling, MonitorPcs, ClientPcs, InitPcs
<1>7. ASSUME MonitorTell \/ ClientTell PROVE HotTyped' /\ StartInv'
  <2>1. told' \in [Callbacks -> SUBSET Displays]
    <3>1. told \in [Callbacks -> SUBSET Displays]
      BY <1>0 DEF HotTyped
    <3>2. \E d \in Displays : \E word : Tell(d, word)
      BY <1>0, <1>7 DEF MonitorTell, ClientTell, MGoto, CGoto, HotTyped
    <3> QED
      BY <3>1, <3>2 DEF Tell
  <2> QED
    BY <1>0, <1>7, <2>1 DEF MonitorTell, ClientTell, Tell, MGoto, CGoto, HotTyped, StartInv, Handling, MonitorPcs, ClientPcs, InitPcs
<1>8. CASE Discover \/ Spawn \/ Arm \/ Drop \/ LookedAll
  BY <1>0, <1>8 DEF Discover, Spawn, Arm, Drop, LookedAll, CGoto, HotTyped, StartInv, Handling, MonitorPcs, ClientPcs, InitPcs
<1>9. ASSUME NEW d \in Displays, Look(d) PROVE HotTyped' /\ StartInv'
  BY <1>0, <1>9 DEF Look, CGoto, HotTyped, StartInv, Handling, MonitorPcs, ClientPcs, InitPcs
<1>10. ASSUME NEW cb \in Callbacks, RegHotPlugCallback(cb) PROVE HotTyped' /\ StartInv'
  <2>1. raced' \in BOOLEAN
    BY <1>0, <1>10 DEF RegHotPlugCallback, HotTyped
  <2> QED
    BY <1>0, <1>10, <2>1 DEF RegHotPlugCallback, CGoto, HotTyped, StartInv, Handling, MonitorPcs, ClientPcs, InitPcs
<1>11. CASE UNCHANGED vars
  BY <1>0, <1>11 DEF vars, HotTyped, StartInv, Handling
<1> QED
  BY <1>1, <1>2, <1>3, <1>4, <1>5, <1>6, <1>7, <1>8, <1>9, <1>10, <1>11 DEF Next, Monitor, InCall

LEMMA GoodBefore == ASSUME HotTyped, [Next]_vars, Good' PROVE Good
<1> USE DEF kernelVars, monitorVars, objectVars, clientVars, history, Good, FewChanges
<1>1. ASSUME NEW d \in Hot, Change(d) PROVE Good
  <2>1. worst' >= worst /\ worst' \in Nat /\ worst \in Nat
    <3>1. burst' \in 0 .. 3
      BY <1>1 DEF Change, HotTyped
    <3> QED
      BY <1>1, <3>1 DEF Change, HotTyped
  <2>2. ~ missed /\ ~ overflow /\ ~ raced
    BY <1>1 DEF Change, HotTyped
  <2>3. CASE worst' < 2
    BY <2>1, <2>2, <2>3
  <2>4. CASE worst' < 3 /\ OneHot
    BY <2>1, <2>2, <2>4 DEF OneHot
  <2> QED
    BY <2>3, <2>4 DEF OneHot
<1>2. CASE ThreadInit \/ Store \/ Test \/ ProbedAll \/ MonitorTell
  BY <1>2 DEF ThreadInit, Store, Test, ProbedAll, MonitorTell
<1>3. CASE Read
  BY <1>3 DEF Read
<1>4. ASSUME NEW d \in Displays, Probe(d) PROVE Good
  <2>1. (missed' = TRUE \/ missed' = missed) /\ UNCHANGED <<overflow, raced, worst>>
    BY <1>4 DEF Probe
  <2>2. ~ missed
    BY <2>1
  <2> QED
    BY <2>1, <2>2
<1>5. CASE Discover \/ Spawn \/ Arm \/ Drop \/ LookedAll \/ ClientTell
  <2>1. UNCHANGED <<missed, raced, worst>>
    BY <1>5 DEF Discover, Spawn, Arm, Drop, LookedAll, ClientTell
  <2>2. UNCHANGED overflow
    BY <1>5 DEF Discover, Spawn, Arm, Drop, LookedAll, ClientTell
  <2> QED
    BY <2>1, <2>2
<1>6. ASSUME NEW d \in Displays, Look(d) PROVE Good
  BY <1>6 DEF Look
<1>7. ASSUME NEW cb \in Callbacks, RegHotPlugCallback(cb) PROVE Good
  BY <1>7 DEF RegHotPlugCallback
<1>8. CASE UNCHANGED vars
  BY <1>8 DEF vars
<1> QED
  BY <1>1, <1>2, <1>3, <1>4, <1>5, <1>6, <1>7, <1>8 DEF Next, Monitor, InCall

\* What the client can rely on, once the types are known.
KnowParts == CountInv /\ (cpc # "discover" => BehindInv) /\ ToldInv

\* A connector that changes is behind, or no longer is, and its uevent comes last.
LEMMA ChangeKnows ==
  ASSUME KnowInv, Good, Good', NEW d \in Hot, Change(d)
  PROVE  KnowParts'
<1> USE DEF kernelVars, monitorVars, objectVars, clientVars, history
<1>0. HotTyped /\ StartInv /\ CountInv /\ (cpc # "discover" => BehindInv) /\ ToldInv
  BY DEF KnowInv
<1>1. /\ UNCHANGED <<mpc, cpc, mConnectState, todo, ctodo, told, plugIn, mdisp, cdisp, mHotPlugCallBacks, subscribed>>
      /\ conn' = IF d \in conn THEN conn \ {d} ELSE conn \cup {d}
      /\ backlog' = IF subscribed THEN Append(backlog, d \in conn') ELSE backlog
      /\ ~ subscribed => cpc = "discover"
  BY DEF Change, Good
<1>2. worst \in Nat /\ worst' < 3 /\ (~ OneHot => worst' < 2) /\ burst' <= worst'
  BY <1>0 DEF Change, Good, FewChanges, OneHot, HotTyped
<1>3. burst' = IF Handling THEN burst + 1 ELSE 1
  BY <1>0, <1>2 DEF Change, HotTyped, Good, FewChanges
<1>4. ToldInv'
  BY <1>0, <1>1 DEF ToldInv, Passed, Marked
<1>5. Marked' = Marked /\ Len(backlog) \in Nat /\ burst \in Nat
  BY <1>0, <1>1 DEF Marked, HotTyped
<1>6. ~ subscribed => backlog' = <<>> /\ ~ Marked
  BY <1>0, <1>1 DEF StartInv, Marked
<1>7. subscribed => Len(backlog') = Len(backlog) + 1
  BY <1>0, <1>1 DEF HotTyped
<1>8. ~ Handling => Len(backlog) = 0 /\ ~ Marked
  BY DEF Handling, Marked
<1>9. CountInv'
  <2>1. CASE subscribed /\ Handling
    BY <1>0, <1>3, <1>5, <1>7, <2>1 DEF CountInv
  <2>2. CASE subscribed /\ ~ Handling
    <3>1. Len(backlog') = 1 /\ burst' = 1 /\ ~ Marked'
      BY <1>3, <1>5, <1>7, <1>8, <2>2
    <3> QED
      BY <3>1 DEF CountInv
  <2>3. CASE ~ subscribed
    <3>1. Len(backlog') = 0 /\ burst' \in Nat
      BY <1>3, <1>5, <1>6, <2>3
    <3> QED
      BY <1>5, <1>6, <2>3, <3>1 DEF CountInv
  <2> QED
    BY <2>1, <2>2, <2>3
<1>10. ASSUME cpc' # "discover" PROVE BehindInv'
  <2>0. subscribed /\ BehindInv
    BY <1>0, <1>1, <1>10
  <2>1. backlog' = Append(backlog, d \in conn') /\ (d \in conn') \in BOOLEAN
    BY <1>1, <2>0
  <2>2. backlog' # <<>> /\ backlog'[Len(backlog')] = (d \in conn') /\ Len(backlog') = Len(backlog) + 1
    <3>1. backlog \in Seq(BOOLEAN)
      BY <1>0 DEF HotTyped
    <3> QED
      BY <2>1, <3>1
  <2>3. Lagging' = IF d \in Lagging THEN Lagging \ {d} ELSE Lagging \cup {d}
    BY <1>1 DEF Lagging
  <2>4. CASE ~ Handling
    <3>1. Lagging' = {d} /\ ~ Marked' /\ Len(backlog') = 1 /\ Handling'
      BY <1>5, <1>8, <2>0, <2>2, <2>3, <2>4 DEF BehindInv, Handling
    <3>3. \A e \in Lagging' : backlog'[1] = (e \in conn')
      BY <2>2, <3>1
    <3>4. ASSUME OneHot', NEW e \in Hot
          PROVE  backlog'[Len(backlog')] = (e \in conn') /\ e \in Lagging'
      <4>1. e = d
        BY <3>4 DEF OneHot
      <4> QED
        BY <2>2, <3>1, <4>1
    <3>5. Lagging' \subseteq Hot /\ OneHot' = OneHot /\ Len(backlog') # 2
      BY <3>1 DEF OneHot
    <3> QED
      BY <2>2, <3>1, <3>3, <3>4, <3>5 DEF BehindInv
  <2>5. CASE Handling
    <3>1. burst = 1 /\ burst' = 2 /\ OneHot
      <4>1. burst >= 1 /\ burst' = burst + 1
        BY <1>0, <1>3, <2>5 DEF StartInv
      <4>2. worst' \in Nat
        BY <1>2, <4>1, <1>5 DEF Change
      <4>3. worst' >= 2
        BY <1>2, <1>5, <4>1, <4>2
      <4> QED
        BY <1>2, <1>5, <4>1, <4>2, <4>3
    <3>2. Hot = {d}
      BY <3>1 DEF OneHot
    <3>3. CASE ~ Marked
      <4>1. backlog # <<>>
        BY <2>5, <3>3 DEF Handling, Marked
      <4>2. d \in Lagging
        BY <2>0, <3>1, <4>1 DEF BehindInv
      <4>3. Lagging' = {}
        BY <2>0, <2>3, <3>2, <4>2 DEF BehindInv
      <4> QED
        BY <1>5, <2>2, <3>1, <3>2, <3>3, <4>3 DEF BehindInv, OneHot
    <3>4. CASE Marked
      <4>1. d \in todo <=> d \in Lagging
        BY <2>0, <3>1, <3>4 DEF BehindInv
      <4>2. todo' \cap Lagging' = {} /\ Lagging' \subseteq Hot
        BY <1>1, <2>0, <2>3, <3>2, <4>1 DEF BehindInv
      <4>3. Handling'
        BY <2>2 DEF Handling
      <4> QED
        BY <1>5, <2>2, <3>1, <3>2, <3>4, <4>2, <4>3 DEF BehindInv, OneHot
    <3> QED
      BY <3>3, <3>4
  <2> QED
    BY <2>4, <2>5
<1> QED
  BY <1>4, <1>9, <1>10 DEF KnowParts

\* The uevent that is read is the word about every connector that is behind.
LEMMA ReadKnows == ASSUME KnowInv, Good, Good', Read PROVE KnowParts'
<1> USE DEF kernelVars, monitorVars, objectVars, clientVars, history
<1>0. HotTyped /\ StartInv /\ CountInv /\ (cpc # "discover" => BehindInv) /\ ToldInv
  BY DEF KnowInv
<1>1. /\ mpc = "read" /\ mpc' = "probe" /\ backlog # <<>> /\ plugIn' = Head(backlog) /\ backlog' = Tail(backlog)
      /\ todo' = Displays /\ cpc \in InitPcs \cup {"idle"}
      /\ UNCHANGED <<conn, mConnectState, cpc, ctodo, cdisp, told, mdisp, mHotPlugCallBacks, burst>>
  BY DEF Read, MGoto, Good
<1>2. BehindInv
  BY <1>0, <1>1 DEF StartInv
<1>3. /\ Head(backlog) = backlog[1] /\ Len(backlog) \in Nat \ {0} /\ Len(backlog') = Len(backlog) - 1 /\ burst \in 0 .. 3
      /\ backlog' # <<>> => Len(backlog) >= 2 /\ backlog'[Len(backlog')] = backlog[Len(backlog)]
  <2>1. backlog \in Seq(BOOLEAN) /\ backlog # <<>> /\ burst \in 0 .. 3
    BY <1>0, <1>1 DEF HotTyped
  <2> QED
    BY <1>1, <2>1
<1>4. ~ Marked /\ Marked' /\ Lagging' = Lagging
  BY <1>1 DEF Marked, Lagging
<1>5. CountInv'
  BY <1>0, <1>1, <1>3, <1>4 DEF CountInv
<1>6. Len(backlog) <= burst
  BY <1>0, <1>3, <1>4 DEF CountInv
<1>7. BehindInv'
  <2>1. Handling' /\ Lagging \subseteq Hot /\ Hot \subseteq Displays
    BY <1>2, <1>4, HotplugAssumption DEF BehindInv, Handling, Marked
  <2>2. \A d \in Lagging : plugIn' = (d \in conn')
    BY <1>1, <1>2, <1>3, <1>4 DEF BehindInv
  <2>3. ASSUME OneHot, NEW d \in Hot
        PROVE  /\ backlog' # <<>> => backlog'[Len(backlog')] = (d \in conn')
               /\ burst' = 1 => backlog' = <<>> /\ d \in Lagging'
    <3>1. backlog[Len(backlog)] = (d \in conn) /\ (burst = 1 => d \in Lagging)
      BY <1>1, <1>2, <2>3 DEF BehindInv
    <3>2. burst = 1 => backlog' = <<>>
      BY <1>3, <1>6
    <3> QED
      BY <1>1, <1>3, <1>4, <3>1, <3>2
  <2> QED
    BY <1>1, <1>4, <2>1, <2>2, <2>3 DEF BehindInv, OneHot
<1>8. ToldInv'
  BY <1>0, <1>1 DEF ToldInv, Passed, Marked, InitPcs
<1> QED
  BY <1>5, <1>7, <1>8 DEF KnowParts

\* A display that is probed is behind no longer, and the uevent's word is its state.
LEMMA ProbeKnows == ASSUME KnowInv, Good, Good', NEW d \in Displays, Probe(d) PROVE KnowParts'
<1> USE DEF kernelVars, monitorVars, objectVars, clientVars, history
<1>0. HotTyped /\ StartInv /\ CountInv /\ (cpc # "discover" => BehindInv) /\ ToldInv
  BY DEF KnowInv
<1>1. /\ mpc = "probe" /\ mpc' \in {"probe", "tell"} /\ d \in todo /\ todo' = todo \ {d} /\ mdisp' = d
      /\ cpc \notin InitPcs
      /\ UNCHANGED <<conn, backlog, plugIn, cpc, ctodo, cdisp, told, mHotPlugCallBacks, burst>>
  BY DEF Probe, MGoto
<1>2. Marked /\ Marked' /\ BehindInv
  BY <1>0, <1>1 DEF Marked, InitPcs
<1>3. cpc \notin {"replay", "tell"}
  BY <1>0, <1>2 DEF ToldInv
<1>4. CountInv'
  BY <1>0, <1>1, <1>2 DEF CountInv
<1>5. Lagging' = Lagging \ {d} /\ (mpc' = "tell" => plugIn = (d \in mConnectState'))
      /\ Passed' = mConnectState
  <2>1. \/ mpc' = "probe" /\ mConnectState' = mConnectState /\ (d \in conn) = (d \in mConnectState)
        \/ /\ mpc' = "tell" /\ (d \in conn) # (d \in mConnectState)
           /\ mConnectState' = (mConnectState \ {d}) \cup ({d} \cap conn)
    BY DEF Probe, MGoto, Good
  <2>2. CASE mpc' = "probe"
    BY <1>1, <2>1, <2>2 DEF Lagging, Passed
  <2>3. CASE mpc' = "tell"
    <3>1. d \in Lagging /\ (d \in mConnectState' <=> d \in conn)
      BY <2>1, <2>3 DEF Lagging
    <3>2. plugIn = (d \in conn)
      BY <1>1, <1>2, <3>1 DEF BehindInv
    <3>3. Lagging' = Lagging \ {d}
      BY <1>1, <2>1, <2>3 DEF Lagging
    <3>4. Passed' = mConnectState
      BY <1>1, <2>1, <2>3 DEF Passed
    <3> QED
      BY <3>1, <3>2, <3>3, <3>4
  <2> QED
    BY <1>1, <2>2, <2>3
<1>6. BehindInv'
  <2>1. Lagging' \subseteq Hot /\ Handling' /\ (backlog' = <<>> => Lagging' \subseteq todo')
    BY <1>1, <1>2, <1>5 DEF BehindInv, Handling, Marked
  <2>2. \A e \in todo' \cap Lagging' : plugIn' = (e \in conn')
    BY <1>1, <1>2, <1>5 DEF BehindInv
  <2>3. burst = 1 => backlog = <<>>
    BY <1>0, <1>2 DEF CountInv, HotTyped
  <2>4. ASSUME OneHot', NEW e \in Hot
        PROVE  /\ backlog' # <<>> => backlog'[Len(backlog')] = (e \in conn')
               /\ burst' = 1 => (e \in todo' <=> e \in Lagging')
    BY <1>1, <1>2, <1>5, <2>4 DEF BehindInv, OneHot
  <2> QED
    BY <1>1, <1>2, <2>1, <2>2, <2>3, <2>4 DEF BehindInv
<1>7. Passed = mConnectState
  BY <1>1 DEF Passed
<1>8. ToldInv'
  BY <1>0, <1>1, <1>3, <1>5, <1>7 DEF ToldInv
<1> QED
  BY <1>4, <1>6, <1>8 DEF KnowParts

\* When all were probed, only a connector whose uevent is still to be read is behind.
LEMMA ProbedAllKnows == ASSUME KnowInv, Good, Good', ProbedAll PROVE KnowParts'
<1> USE DEF kernelVars, monitorVars, objectVars, clientVars, history
<1>0. HotTyped /\ StartInv /\ CountInv /\ (cpc # "discover" => BehindInv) /\ ToldInv
  BY DEF KnowInv
<1>1. /\ mpc = "probe" /\ mpc' = "loop" /\ todo = {}
      /\ UNCHANGED <<conn, backlog, plugIn, cpc, ctodo, cdisp, told, mHotPlugCallBacks, burst, mConnectState, todo, worst>>
  BY DEF ProbedAll, MGoto
<1>2. Marked /\ ~ Marked' /\ BehindInv /\ Lagging' = Lagging
  BY <1>0, <1>1 DEF Marked, StartInv, Lagging
<1>3. Len(backlog) \in Nat /\ Len(backlog) + 1 <= burst /\ burst \in Nat /\ worst \in Nat /\ burst <= worst
      /\ (Len(backlog) = 0 <=> backlog = <<>>)
  BY <1>0, <1>2 DEF CountInv, HotTyped
<1>4. CountInv'
  BY <1>1, <1>2, <1>3 DEF CountInv
<1>5. backlog = <<>> => Lagging = {}
  BY <1>1, <1>2 DEF BehindInv
<1>6. ASSUME backlog # <<>> PROVE Len(backlog) = 1 /\ OneHot /\ burst = 2
  <2>1. burst >= 2 /\ worst >= 2
    BY <1>3, <1>6
  <2>2. worst < 3
    BY <1>3, <2>1 DEF Good, FewChanges
  <2>3. OneHot
    BY <1>3, <2>1 DEF Good, FewChanges, OneHot
  <2>4. Len(backlog) = 1 /\ burst = 2
    <3>1. Len(backlog) # 0
      BY <1>3, <1>6
    <3>2. Len(backlog) \in Nat /\ burst \in Nat /\ worst \in Nat /\ Len(backlog) + 1 <= burst /\ burst <= worst
      BY <1>3
    <3> DEFINE n == Len(backlog)
    <3>3. n \in Nat /\ n # 0 /\ n + 1 <= burst
      BY <3>1, <3>2
    <3> HIDE DEF n
    <3>4. n = 1 /\ burst = 2
      BY <2>1, <2>2, <3>2, <3>3
    <3> QED
      BY <3>4 DEF n
  <2> QED
    BY <2>3, <2>4
<1>7. \A e \in Lagging : backlog # <<>> => backlog[1] = (e \in conn)
  BY <1>2, <1>6 DEF BehindInv
<1>8. BehindInv'
  BY <1>1, <1>2, <1>3, <1>5, <1>6, <1>7 DEF BehindInv, Handling, Marked, OneHot
<1>9. ToldInv'
  BY <1>0, <1>1 DEF ToldInv, Passed, Marked
<1> QED
  BY <1>4, <1>8, <1>9 DEF KnowParts

\* The callbacks are told what was stored.
LEMMA MonitorTellKnows == ASSUME KnowInv, Good, Good', MonitorTell PROVE KnowParts'
<1> USE DEF kernelVars, monitorVars, objectVars, clientVars, history
<1>0. HotTyped /\ StartInv /\ CountInv /\ (cpc # "discover" => BehindInv) /\ ToldInv
  BY DEF KnowInv
<1>1. /\ mpc = "tell" /\ mpc' = "probe" /\ Tell(mdisp, plugIn)
      /\ UNCHANGED <<conn, backlog, plugIn, cpc, ctodo, cdisp, mHotPlugCallBacks, burst, mConnectState, todo, mdisp>>
  BY DEF MonitorTell, MGoto
<1>2. Marked /\ Marked' /\ Lagging' = Lagging /\ (cpc # "discover")
  BY <1>0, <1>1 DEF Marked, StartInv, Lagging
<1>3. CountInv'
  BY <1>0, <1>1, <1>2 DEF CountInv
<1>4. BehindInv'
  BY <1>0, <1>1, <1>2 DEF BehindInv, Handling, Marked, OneHot
<1>5. cpc \notin {"replay", "tell"} /\ Passed' = mConnectState
  BY <1>0, <1>1, <1>2 DEF ToldInv, Passed
<1>6. ASSUME NEW cb \in mHotPlugCallBacks PROVE told'[cb] = mConnectState
  <2>1. told[cb] = (mConnectState \ {mdisp}) \cup ({mdisp} \ mConnectState) /\ plugIn = (mdisp \in mConnectState)
    BY <1>0, <1>1, <1>5 DEF ToldInv, Passed
  <2>2. told'[cb] = IF plugIn THEN told[cb] \cup {mdisp} ELSE told[cb] \ {mdisp}
    BY <1>0, <1>1 DEF Tell, HotTyped
  <2>3. CASE mdisp \in mConnectState
    BY <2>1, <2>2, <2>3
  <2>4. CASE mdisp \notin mConnectState
    BY <2>1, <2>2, <2>4
  <2> QED
    BY <2>3, <2>4
<1>7. ToldInv'
  BY <1>1, <1>5, <1>6 DEF ToldInv
<1> QED
  BY <1>3, <1>4, <1>7 DEF KnowParts

\* Steps of the monitor that change nothing of this, and those of the session's start.
LEMMA StartKnows ==
  ASSUME KnowInv, Good, Good', ThreadInit \/ Store \/ Test \/ Discover \/ Spawn \/ Arm \/ Drop
  PROVE  KnowParts'
<1> USE DEF kernelVars, monitorVars, objectVars, clientVars, history
<1>0. HotTyped /\ StartInv /\ CountInv /\ (cpc # "discover" => BehindInv) /\ ToldInv
  BY DEF KnowInv
<1>1. UNCHANGED <<conn, backlog, plugIn, ctodo, cdisp, mHotPlugCallBacks, burst, todo, mdisp, told>>
  BY DEF ThreadInit, Store, Test, Discover, Spawn, Arm, Drop
<1>2. mpc' = mpc \/ (~ Marked /\ ~ Marked' /\ cpc # "discover")
  BY <1>0 DEF ThreadInit, Store, Test, Discover, Spawn, Arm, Drop, MGoto, CGoto, Marked, StartInv
<1>3. CountInv'
  BY <1>0, <1>1, <1>2 DEF CountInv, Marked
<1>4. CASE Discover
  <2>1. mConnectState' = conn /\ mpc = "none" /\ backlog = <<>> /\ mHotPlugCallBacks = {} /\ cpc' = "spawn" /\ mpc' = mpc
    BY <1>0, <1>4 DEF Discover, CGoto, StartInv, InitPcs
  <2>2. Lagging' = {} /\ ~ Handling' /\ ~ Marked'
    BY <1>1, <2>1 DEF Lagging, Handling, Marked
  <2>3. BehindInv'
    BY <1>1, <2>1, <2>2 DEF BehindInv
  <2>4. ToldInv'
    BY <1>1, <2>1 DEF ToldInv
  <2> QED
    BY <1>3, <2>3, <2>4 DEF KnowParts
<1>5. CASE ThreadInit \/ Store \/ Test \/ Spawn \/ Arm \/ Drop
  <2>1. mConnectState' = mConnectState
    BY <1>5 DEF ThreadInit, Store, Test, Spawn, Arm, Drop
  <2>2. cpc # "discover"
    BY <1>0, <1>5 DEF ThreadInit, Store, Test, Spawn, Arm, Drop, MGoto, CGoto, StartInv
  <2>3. BehindInv'
    BY <1>0, <1>1, <1>2, <2>1, <2>2 DEF BehindInv, Lagging, Handling, Marked, OneHot
  <2>4. \/ cpc' = cpc
        \/ cpc' \notin {"replay", "tell"} /\ mHotPlugCallBacks = {}
    BY <1>0, <1>5 DEF ThreadInit, Store, Test, Spawn, Arm, Drop, MGoto, CGoto, StartInv, InitPcs
  <2>5. Passed' = Passed /\ (mpc' = "tell" => mpc = "tell") /\ (Marked' <=> Marked)
    BY <1>1, <1>2, <2>1 DEF Passed, Marked
  <2>6. ToldInv'
    BY <1>0, <1>1, <2>1, <2>4, <2>5 DEF ToldInv
  <2> QED
    BY <1>3, <2>3, <2>6 DEF KnowParts
<1> QED
  BY <1>4, <1>5

\* A registration that no uevent is handled in is told of every display that is connected.
LEMMA RegisterKnows ==
  ASSUME KnowInv, Good, Good', NEW cb \in Callbacks, RegHotPlugCallback(cb)
  PROVE  KnowParts'
<1> USE DEF kernelVars, monitorVars, objectVars, clientVars, history
<1>0. HotTyped /\ StartInv /\ CountInv /\ (cpc # "discover" => BehindInv) /\ ToldInv
  BY DEF KnowInv
<1>1. /\ cpc = "idle" /\ cpc' = "replay" /\ ctodo' = Displays /\ mHotPlugCallBacks' = mHotPlugCallBacks \cup {cb}
      /\ UNCHANGED <<conn, backlog, plugIn, mpc, cdisp, told, burst, mConnectState, todo, mdisp>>
  BY DEF RegHotPlugCallback, CGoto
<1>2. ~ Handling
  <2>1. raced' = (raced \/ Handling) /\ ~ raced'
    BY DEF RegHotPlugCallback, Good
  <2> QED
    BY <2>1
<1>3. CountInv' /\ BehindInv' /\ ~ Marked /\ ~ Marked'
  BY <1>0, <1>1, <1>2 DEF CountInv, BehindInv, Lagging, Handling, Marked, OneHot
<1>4. \A c \in mHotPlugCallBacks' : told'[c] \subseteq mConnectState
  BY <1>0, <1>1, <1>3 DEF ToldInv, Passed, StartInv, Marked
<1>5. mConnectState \ Displays = {}
  BY <1>0 DEF HotTyped
<1>6. ToldInv'
  BY <1>1, <1>3, <1>4, <1>5 DEF ToldInv, Marked
<1> QED
  BY <1>3, <1>6 DEF KnowParts

LEMMA ReplayKnows ==
  ASSUME KnowInv, Good, Good', ClientTell \/ LookedAll \/ \E d \in Displays : Look(d)
  PROVE  KnowParts'
<1> USE DEF kernelVars, monitorVars, objectVars, clientVars, history
<1>0. HotTyped /\ StartInv /\ CountInv /\ (cpc # "discover" => BehindInv) /\ ToldInv
  BY DEF KnowInv
<1>1. /\ UNCHANGED <<conn, backlog, plugIn, mpc, burst, mConnectState, todo, mdisp, mHotPlugCallBacks>>
      /\ cpc \in {"replay", "tell"} /\ cpc' \in {"replay", "tell", "idle"}
  BY DEF ClientTell, LookedAll, Look, CGoto
<1>2. CountInv' /\ BehindInv' /\ ~ Marked /\ ~ Marked'
  BY <1>0, <1>1 DEF CountInv, BehindInv, Lagging, Handling, Marked, OneHot, ToldInv
<1>3. mpc # "tell" /\ mpc' # "tell" /\ Passed' = mConnectState
  BY <1>1, <1>2 DEF Marked, Passed
<1>4. ASSUME NEW d \in Displays, Look(d) PROVE ToldInv'
  <2>1. /\ cpc = "replay" /\ cpc' = (IF d \in mConnectState THEN "tell" ELSE "replay")
        /\ ctodo' = ctodo \ {d} /\ cdisp' = d /\ told' = told
    BY <1>4 DEF Look, CGoto
  <2> QED
    BY <1>0, <1>1, <1>2, <1>3, <2>1 DEF ToldInv
<1>5. ASSUME ClientTell PROVE ToldInv'
  <2>1. cpc = "tell" /\ cpc' = "replay" /\ Tell(cdisp, TRUE) /\ UNCHANGED <<ctodo, cdisp>>
    BY <1>5 DEF ClientTell, CGoto
  <2>2. \A c \in mHotPlugCallBacks : told'[c] = told[c] \cup {cdisp}
    BY <1>0, <2>1 DEF Tell, HotTyped
  <2> QED
    BY <1>0, <1>1, <1>2, <1>3, <2>1, <2>2 DEF ToldInv
<1>6. ASSUME LookedAll PROVE ToldInv'
  <2>1. cpc = "replay" /\ cpc' = "idle" /\ ctodo = {} /\ told' = told
    BY <1>6 DEF LookedAll, CGoto
  <2>2. \A c \in mHotPlugCallBacks : told[c] = mConnectState
    BY <1>0, <2>1 DEF ToldInv
  <2> QED
    BY <1>1, <1>2, <1>3, <2>1, <2>2 DEF ToldInv
<1> QED
  BY <1>2, <1>4, <1>5, <1>6 DEF KnowParts

LEMMA KnowStep == KnowInv /\ [Next]_vars => KnowInv'
<1> SUFFICES ASSUME KnowInv, [Next]_vars PROVE KnowInv'
  OBVIOUS
<1>1. HotTyped' /\ StartInv'
  BY HotTypedStep
<1>2. ASSUME Good' PROVE KnowParts'
  <2>1. Good
    BY <1>2, GoodBefore DEF KnowInv
  <2>2. CASE UNCHANGED vars
    BY <2>1, <2>2 DEF KnowInv, KnowParts, CountInv, BehindInv, ToldInv, Passed, Lagging, Marked, Handling, OneHot,
                      vars, kernelVars, monitorVars, objectVars, clientVars, history
  <2> QED
    BY <1>2, <2>1, <2>2, ChangeKnows, ReadKnows, ProbeKnows, ProbedAllKnows, MonitorTellKnows, StartKnows,
       RegisterKnows, ReplayKnows DEF Next, Monitor, InCall
<1> QED
  BY <1>1, <1>2 DEF KnowInv, KnowParts

\* RegHotPlugCallback, DoHotPlugCallback and DrmDevice::HandleHotplug, for any number of
\* connectors, callbacks and uevents that fit in the socket: a client knows what is connected
\* once nothing is on its way, but for changes that nobody saw, registrations in the middle of
\* one, and several changes at a time.
THEOREM ClientsKnowAlways == Spec => []ClientsKnow
<1>1. KnowInv => ClientsKnow
  <2> SUFFICES ASSUME KnowInv, Settled, ~ missed, ~ raced, FewChanges
               PROVE  \A cb \in mHotPlugCallBacks : told[cb] = conn
    BY DEF ClientsKnow
  <2>1. BehindInv /\ ToldInv /\ mpc = "read" /\ cpc = "idle" /\ backlog = <<>>
    BY DEF KnowInv, Settled, Good
  <2>2. Lagging = {}
    BY <2>1 DEF BehindInv, Handling
  <2> QED
    BY <2>1, <2>2 DEF ToldInv, Passed, Lagging
<1> QED
  BY <1>1, KnowInitInv, KnowStep, PTL DEF Spec
=============================================================================
