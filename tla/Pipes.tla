-------------------------------- MODULE Pipes --------------------------------
(***************************************************************************)
(* Which crtc a connector gets and which mode is set on it: DrmDevice's    *)
(* discovery (drm_device.cpp), DrmConnector (drm_connector.cpp),           *)
(* DrmEncoder (drm_encoder.cpp), DrmCrtc (drm_crtc.cpp), the start of a    *)
(* DrmDisplay (drm_display.cpp) and the mode part of a commit              *)
(* (HdiDrmComposition::UpdateMode).                                        *)
(*                                                                         *)
(* Discovery runs once, on what the boot loader left behind.  Afterwards   *)
(* the client thread sets modes and commits frames, and the hotplug        *)
(* thread replaces a connector's modes when its connect state changed.     *)
(* A mode is known by its index in the connector's current list: the same  *)
(* index is another mode once the list was replaced.                       *)
(*                                                                         *)
(* A display is named by its connector.  How uevents are delivered or      *)
(* lost is module Hotplug's subject: here one is lost at will.             *)
(***************************************************************************)
EXTENDS Integers, Sequences

CONSTANTS
  Connectors, Encoders, Crtcs,
  Possible,   \* per connector: mPossibleEncoders
  Reach,      \* per encoder: the crtcs in mPossibleCrtcs
  Monitors,   \* what can be plugged in
  Plugs,      \* per connector: the monitors it can have
  ModeList,   \* per monitor: its modes
  Preferred,  \* per monitor: the index of its preferred mode, -1 for none
  None,       \* no encoder, crtc, monitor, connector or mode
  Half,       \* 2^31: mode ids run from 0 to 2 * Half - 1
  Asked       \* the mode ids a client asks for, unsigned

ModeInfos == UNION {{ModeList[m][i] : i \in 1 .. Len(ModeList[m])} : m \in Monitors}

ASSUME PipesAssumption ==
  /\ Possible \in [Connectors -> Seq(Encoders)] /\ Reach \in [Encoders -> SUBSET Crtcs]
  /\ None \notin Connectors \cup Encoders \cup Crtcs \cup Monitors \cup ModeInfos
  /\ Plugs \in [Connectors -> SUBSET (Monitors \cup {None})]
  /\ ModeList \in [Monitors -> Seq(ModeInfos)] 
  /\ \A m \in Monitors : Preferred[m] \in -1 .. Len(ModeList[m]) - 1
  /\ Half \in Nat \ {0} /\ Asked \subseteq 0 .. 2 * Half - 1

VARIABLES
  monitor,        \* kernel: what is plugged in
  crtcMode,       \* kernel: the mode on each crtc
  encoder,        \* DrmConnector::mEncoderId
  encCrtc,        \* DrmEncoder::mCrtcId
  mCrtcs,         \* DrmDevice::mCrtcs: the crtcs whose Init worked
  todo,           \* the connectors discovery has yet to look at
  crtcOf,         \* DrmDisplay::mCrtc
  ready,          \* the displays that have a composer
  mDisplayId,     \* DrmCrtc: the display it is bound to
  mActiveModeId, mNeedModeSet,           \* DrmCrtc
  mConnectState, mModes, mPreferenceId,  \* DrmConnector
  pending,        \* a uevent is waiting
  probing,        \* the displays the hotplug thread has yet to look at
  filling,        \* the connector whose modes it is replacing
  seen,           \* ...by those of this monitor
  fault,          \* mModes was read while it was replaced, or a null composer used
  missed,         \* history: the connectors with a change that brought no uevent
  unprobed,       \* history: the connectors that changed since they were last probed
  bounced         \* history: ...and more than once

bootVars   == <<encoder, encCrtc, mCrtcs>>
kernelVars == <<monitor, crtcMode>>
pipeVars   == <<todo, crtcOf, ready, mDisplayId>>
crtcVars   == <<mActiveModeId, mNeedModeSet>>
connVars   == <<mConnectState, mModes, mPreferenceId>>
threadVars == <<pending, probing, filling, seen>>
history    == <<missed, unprobed, bounced>>
vars == <<kernelVars, bootVars, pipeVars, crtcVars, connVars, threadVars, fault, history>>

\* InitModes.
List(m) == IF m = None THEN <<>> ELSE ModeList[m]
Preference(m) == IF m = None THEN -1 ELSE Preferred[m]

\* What the boot loader left: connectors driven through encoders of theirs, or idle.
Boot ==
  /\ encoder \in [Connectors -> Encoders \cup {None}]
  /\ encCrtc \in [Encoders -> Crtcs \cup {None}]
  /\ \A c \in Connectors : encoder[c] # None => \E i \in 1 .. Len(Possible[c]) : encoder[c] = Possible[c][i]
  /\ \A e \in Encoders :
       /\ encCrtc[e] # None => encCrtc[e] \in Reach[e]
       /\ encCrtc[e] # None <=> \E c \in Connectors : encoder[c] = e
  /\ mCrtcs \in SUBSET Crtcs

Init ==
  /\ monitor \in [Connectors -> Monitors \cup {None}]
  /\ \A c \in Connectors : monitor[c] \in Plugs[c]
  /\ Boot
  /\ crtcMode = [k \in Crtcs |-> None]
  /\ todo = Connectors /\ crtcOf = [c \in Connectors |-> None] /\ ready = {}
  /\ mDisplayId = [k \in Crtcs |-> None]
  /\ mActiveModeId = [k \in Crtcs |-> -1] /\ mNeedModeSet = [k \in Crtcs |-> FALSE]
  /\ mConnectState = [c \in Connectors |-> monitor[c] # None]
  /\ mModes = [c \in Connectors |-> List(monitor[c])]
  /\ mPreferenceId = [c \in Connectors |-> Preference(monitor[c])]
  /\ pending = FALSE /\ probing = {} /\ filling = None /\ seen = None /\ fault = FALSE
  /\ missed = {} /\ unprobed = {} /\ bounced = {}

-----------------------------------------------------------------------------
(* DrmCrtc and DrmConnector.                                               *)

\* A uint32_t mode id as an int32_t.
ToInt32(id) == IF id < Half THEN id ELSE id - 2 * Half

\* Mode 0, and with it every negative id, is accepted.
SetActivieMode(k, id) ==
  /\ mActiveModeId' = [mActiveModeId EXCEPT ![k] = IF id > 0 THEN @ ELSE id]
  /\ mNeedModeSet' = [mNeedModeSet EXCEPT ![k] = @ \/ (id <= 0 /\ id # mActiveModeId[k])]

\* GetModeFromId, GetModeBlockFromId: the mode with index id, or none.
GetMode(c, id) == IF id \in 0 .. Len(mModes[c]) - 1 THEN mModes[c][id + 1] ELSE None

CanBind_Always(k) == mDisplayId[k] \in Connectors \cup {None}

\* DrmCrtc::CanBind.
CanBind(k) == mDisplayId[k] = None

-----------------------------------------------------------------------------
(* DiscoveryDisplay.                                                       *)

Offers_SearchFirst(e) ==
  IF encCrtc[e] \notin mCrtcs THEN {} ELSE {k \in mCrtcs \cap Reach[e] : CanBind(k)}

\* DrmEncoder::PickIdleCrtcId.  An encoder that drives no crtc offers none.  One whose
\* crtc is taken offers the last free one it can reach, in the order of a hash table.
Offers(e) ==
  IF encCrtc[e] \notin mCrtcs THEN {}
  ELSE IF CanBind(encCrtc[e]) THEN {encCrtc[e]}
  ELSE {k \in mCrtcs \cap Reach[e] : CanBind(k)}

\* DrmConnector::PickIdleCrtcId tries its own encoder, then the possible ones in order.
Tried(c) == (IF encoder[c] = None THEN <<>> ELSE <<encoder[c]>>) \o Possible[c]

Picks(c, k) ==
  \E i \in 1 .. Len(Tried(c)) :
    /\ k \in Offers(Tried(c)[i])
    /\ \A j \in 1 .. i - 1 : Offers(Tried(c)[j]) = {}

\* No crtc for c: no display.
NoCrtc(c) ==
  /\ c \in todo /\ \A k \in Crtcs : ~ Picks(c, k)
  /\ todo' = todo \ {c}
  /\ UNCHANGED <<kernelVars, bootVars, crtcOf, ready, mDisplayId, crtcVars, connVars, threadVars, fault, history>>

\* DrmDisplay::Init fails before the composer is made; the display is registered with
\* its crtc, which is bound to nobody.
InitFails(c, k) ==
  /\ c \in todo /\ Picks(c, k)
  /\ todo' = todo \ {c}
  /\ crtcOf' = [crtcOf EXCEPT ![c] = k]
  /\ UNCHANGED <<kernelVars, bootVars, ready, mDisplayId, crtcVars, connVars, threadVars, fault, history>>

\* DrmDisplay::Init binds the crtc and asks for the preferred mode, or for mode 0 where
\* none is preferred.  The first frame is pushed if that was accepted and the mode
\* exists, and each of the calls it takes may fail.
InitDisplay(c, k) ==
  /\ c \in todo /\ Picks(c, k)
  /\ todo' = todo \ {c}
  /\ crtcOf' = [crtcOf EXCEPT ![c] = k]
  /\ ready' = ready \cup {c}
  /\ mDisplayId' = [mDisplayId EXCEPT ![k] = c]
  /\ SetActivieMode(k, IF mPreferenceId[c] = -1 THEN 0 ELSE mPreferenceId[c])
  /\ \/ UNCHANGED crtcMode
     \/ /\ mPreferenceId[c] <= 0 /\ GetMode(c, 0) # None
        /\ crtcMode' = [crtcMode EXCEPT ![k] = GetMode(c, 0)]
  /\ UNCHANGED <<monitor, bootVars, connVars, threadVars, fault, history>>

DiscoveryDisplay ==
  \E c \in Connectors : NoCrtc(c) \/ \E k \in Crtcs : InitFails(c, k) \/ InitDisplay(c, k)

-----------------------------------------------------------------------------
(* Hotplug.                                                                *)

\* Something is plugged in or out, with a uevent or with one that is lost.
Change(c, m) ==
  /\ m \in Plugs[c] /\ m # monitor[c] /\ None \in {m, monitor[c]}
  /\ monitor' = [monitor EXCEPT ![c] = m]
  /\ \/ todo = {} /\ pending' = TRUE /\ missed' = missed
     \/ pending' = pending /\ missed' = missed \cup {c}
  /\ unprobed' = unprobed \cup {c}
  /\ bounced' = bounced \cup ({c} \cap unprobed)
  /\ UNCHANGED <<crtcMode, bootVars, pipeVars, crtcVars, connVars, probing, filling, seen, fault>>

\* The thread takes a uevent; it will look at every display.
TakeUevent ==
  /\ pending /\ probing = {} /\ filling = None
  /\ pending' = FALSE
  /\ probing' = {c \in Connectors : crtcOf[c] # None}
  /\ UNCHANGED <<kernelVars, bootVars, pipeVars, crtcVars, connVars, filling, seen, fault, history>>

HandleHotplug_KeepsModes(c) ==
  /\ c \in probing /\ filling = None
  /\ probing' = probing \ {c}
  /\ unprobed' = unprobed \ {c} /\ UNCHANGED <<filling, seen>>
  /\ mConnectState' = [mConnectState EXCEPT ![c] = monitor[c] # None]
  /\ missed' = missed /\ bounced' = bounced
  /\ UNCHANGED <<kernelVars, bootVars, pipeVars, crtcVars, mModes, mPreferenceId, pending, fault>>

\* DrmConnector::HandleHotplug.  The kernel may not answer.  If it says what is known,
\* whatever happened in between, nothing is done; else the modes are cleared...
HandleHotplug(c) ==
  /\ c \in probing /\ filling = None
  /\ probing' = probing \ {c}
  /\ \/ missed' = missed \cup {c} /\ UNCHANGED <<connVars, filling, seen, unprobed, bounced>>
     \/ /\ (monitor[c] # None) = mConnectState[c]
        /\ unprobed' = unprobed \ {c} /\ UNCHANGED <<connVars, filling, seen, missed, bounced>>
     \/ /\ (monitor[c] # None) # mConnectState[c]
        /\ mConnectState' = [mConnectState EXCEPT ![c] = ~ @]
        /\ mModes' = [mModes EXCEPT ![c] = <<>>]
        /\ mPreferenceId' = [mPreferenceId EXCEPT ![c] = -1]
        /\ filling' = c /\ seen' = monitor[c]
        /\ unprobed' = unprobed \ {c} /\ missed' = missed \ {c} /\ bounced' = bounced \ {c}
  /\ UNCHANGED <<kernelVars, bootVars, pipeVars, crtcVars, pending, fault>>

\* ...and filled in from what it said.
InitModes ==
  /\ filling # None /\ filling' = None /\ seen' = None
  /\ mModes' = [mModes EXCEPT ![filling] = List(seen)]
  /\ mPreferenceId' = [mPreferenceId EXCEPT ![filling] = Preference(seen)]
  /\ UNCHANGED <<kernelVars, bootVars, pipeVars, crtcVars, mConnectState, pending, probing, fault, history>>

HotplugThread == TakeUevent \/ InitModes \/ \E c \in Connectors : HandleHotplug(c)

-----------------------------------------------------------------------------
(* The client.                                                             *)

\* Of any display, one without a composer too.
SetDisplayMode(c, id) ==
  /\ todo = {} /\ crtcOf[c] # None
  /\ SetActivieMode(crtcOf[c], ToInt32(id))
  /\ UNCHANGED <<kernelVars, bootVars, pipeVars, connVars, threadVars, fault, history>>

UpdateMode_Once(c) ==
  /\ todo = {} /\ c \in ready /\ filling # c
  /\ mNeedModeSet[crtcOf[c]] /\ GetMode(c, mActiveModeId[crtcOf[c]]) # None
  /\ crtcMode' = [crtcMode EXCEPT ![crtcOf[c]] = GetMode(c, mActiveModeId[crtcOf[c]])]
  /\ mNeedModeSet' = [mNeedModeSet EXCEPT ![crtcOf[c]] = FALSE]
  /\ UNCHANGED <<monitor, bootVars, pipeVars, mActiveModeId, connVars, threadVars, fault, history>>

\* A commit that succeeds sets the active mode, if there is one with that index, every
\* time: mNeedModeSet is never cleared.
UpdateMode(c) ==
  /\ todo = {} /\ c \in ready /\ filling # c
  /\ mNeedModeSet[crtcOf[c]] /\ GetMode(c, mActiveModeId[crtcOf[c]]) # None
  /\ crtcMode' = [crtcMode EXCEPT ![crtcOf[c]] = GetMode(c, mActiveModeId[crtcOf[c]])]
  /\ UNCHANGED <<monitor, bootVars, pipeVars, crtcVars, connVars, threadVars, fault, history>>

\* A commit follows a null composer, or reads the modes while they are replaced.
CommitFaults(c) ==
  /\ todo = {} /\ crtcOf[c] # None
  /\ c \notin ready \/ (filling = c /\ mNeedModeSet[crtcOf[c]])
  /\ fault' = TRUE
  /\ UNCHANGED <<kernelVars, bootVars, pipeVars, crtcVars, connVars, threadVars, history>>

-----------------------------------------------------------------------------

Next ==
  /\ ~ fault
  /\ \/ DiscoveryDisplay \/ HotplugThread
     \/ \E c \in Connectors : UpdateMode(c) \/ CommitFaults(c)
     \/ \E c \in Connectors, m \in Monitors \cup {None} : Change(c, m)
     \/ \E c \in Connectors, id \in Asked : SetDisplayMode(c, id)

Spec == Init /\ [][Next]_vars

\* Discovery ends, the hotplug thread runs, and a client that can commit a frame with a mode keeps doing
\* so, with success now and then.
FairSpec ==
  /\ Spec /\ WF_vars(~ fault /\ DiscoveryDisplay) /\ WF_vars(~ fault /\ HotplugThread)
  /\ \A c \in Connectors : SF_vars(~ fault /\ UpdateMode(c))

-----------------------------------------------------------------------------
(* Properties.                                                             *)

\* The variables' types.
TypeOK ==
  /\ monitor \in [Connectors -> Monitors \cup {None}]
  /\ crtcMode \in [Crtcs -> ModeInfos \cup {None}]
  /\ encoder \in [Connectors -> Encoders \cup {None}]
  /\ encCrtc \in [Encoders -> Crtcs \cup {None}] /\ mCrtcs \subseteq Crtcs
  /\ todo \subseteq Connectors /\ ready \subseteq Connectors
  /\ crtcOf \in [Connectors -> Crtcs \cup {None}] /\ mDisplayId \in [Crtcs -> Connectors \cup {None}]
  /\ mActiveModeId \in [Crtcs -> -Half .. 0] /\ mNeedModeSet \in [Crtcs -> BOOLEAN]
  /\ mConnectState \in [Connectors -> BOOLEAN] /\ mModes \in [Connectors -> Seq(ModeInfos)]
  /\ mPreferenceId \in [Connectors -> Nat \cup {-1}]
  /\ {pending, fault} \subseteq BOOLEAN /\ probing \subseteq Connectors
  /\ filling \in Connectors \cup {None} /\ seen \in Monitors \cup {None}
  /\ missed \cup unprobed \cup bounced \subseteq Connectors

\* Two displays that can commit never drive one crtc, whatever the boot loader shared
\* between connectors and whichever displays failed to start.  (A display that failed
\* keeps a crtc that another may get: it can still change that crtc's active mode.)
NoSharedCrtc == \A c, d \in ready : crtcOf[c] = crtcOf[d] => c = d

\* The boot loader gave the connectors encoders and crtcs of their own.
Apart ==
  /\ \A c, d \in Connectors : c # d =>
       \A i \in 1 .. Len(Possible[c]), j \in 1 .. Len(Possible[d]) : Possible[c][i] # Possible[d][j]
  /\ \A e, f \in Encoders : e # f /\ encCrtc[e] # None => encCrtc[e] # encCrtc[f]

\* Discovery looks at connectors in the order of a hash table and takes what is free: if
\* the boot loader kept the connectors apart, each one it lit is still found with the crtc
\* it is lit by, and no earlier one has taken it.
KeepsBootCrtc ==
  Apart => \A c \in Connectors \ todo :
    encoder[c] # None /\ encCrtc[encoder[c]] \in mCrtcs => crtcOf[c] = encCrtc[encoder[c]]

\* Discovery gives each display a crtc of its own, and to each that was lit its own.
CrtcsKeptApart == NoSharedCrtc /\ KeepsBootCrtc

\* The thread has nothing to do for c.
Settled(c) == ~ pending /\ c \notin probing /\ filling # c

\* The modes a display offers are those of the monitor that is there, unless the probe
\* found the connector in the state it had left it in: a monitor was exchanged between
\* two probes, or a uevent or an answer was lost.
ModesFollowMonitor ==
  \A c \in Connectors :
    crtcOf[c] # None /\ Settled(c) /\ c \notin missed \cup bounced => mModes[c] = List(monitor[c])

\* A new monitor gets its own first mode, although its index was the active mode already:
\* this rests on mNeedModeSet staying set (drm_crtc.cpp:102-105).
ReplugGetsMode ==
  \A c \in Connectors :
    <>[](c \in ready /\ mActiveModeId[crtcOf[c]] = 0 /\ monitor[c] # None /\ ~ fault
           /\ c \notin missed \cup bounced)
      => <>[](c \in ready /\ monitor[c] # None /\ crtcMode[crtcOf[c]] = List(monitor[c])[1])
=============================================================================
