------------------------------ MODULE ClientCalls ------------------------------
(***************************************************************************)
(* What a client of the display is told: the functions of the session's    *)
(* table (hdi_session.cpp), and the lists it asks for in two calls, one    *)
(* for the length and one for the entries (DrmConnector's modes, and       *)
(* HdiDisplay's changed layers and release fences).  The second call       *)
(* writes as many entries as there are by then.                            *)
(*                                                                         *)
(* Two threads: the client's, and the monitor's, which replaces the modes. *)
(***************************************************************************)
EXTENDS Integers

CONSTANTS
  Screens,       \* the monitors
  ModeCount,     \* per monitor: how many modes it has
  NoScreen,
  ConnectorType, \* of the connector: VGA, DSI, HDMIA, HDMIB or another
  CallLayers     \* bound: layers of the display

ASSUME ClientCallsAssumption ==
  NoScreen \notin Screens /\ ModeCount \in [Screens -> Nat] /\ CallLayers \in Nat

Lists == {"modes", "changes", "fences"}
NotAsked == [list |-> "none", room |-> 0, by |-> {}]
Unsaid == [reply |-> "none", kept |-> FALSE, asked |-> FALSE, served |-> FALSE]

VARIABLES
  screen,      \* the monitor that is plugged in
  mConnected,  \* DrmConnector::mConnectState
  mModes,      \* the monitor that DrmConnector::mModes are of
  capability,  \* the connector's type and name and its monitor's size, from its constructor
  layers,      \* how many there are in mLayers, and in mChangeLayers
  asked,       \* the list whose length the client has, its array, and who changed the list since
  overrun,     \* the same, of a list that was written past its array
  said         \* the answer of the last call that lists nothing

callVars == <<screen, mConnected, mModes, capability, layers, asked, overrun, said>>

\* ConvertToHdiType and ConvertTypeToName.
HdiType(t) == CASE t = "VGA" -> "VGA" [] t = "DSI" -> "MIPI" [] t \in {"HDMIA", "HDMIB"} -> "HDMI"
                [] OTHER -> "BUTT"
Named(hdiType) == IF hdiType = "BUTT" THEN "Unknown" ELSE hdiType

Length(l) == IF l # "modes" THEN layers[l] ELSE IF mModes = NoScreen THEN 0 ELSE ModeCount[mModes]

CallsInit ==
  /\ screen \in Screens \cup {NoScreen} /\ mConnected = (screen # NoScreen)
  /\ capability = [type |-> HdiType(ConnectorType), name |-> Named(HdiType(ConnectorType)), size |-> screen]
  /\ mModes = screen /\ layers = [fences |-> 0, changes |-> 0]
  /\ asked = NotAsked /\ overrun = NotAsked /\ said = Unsaid

\* Who changed the list that the client asked for.
Touch(l, who) == IF asked.list = l THEN [asked EXCEPT !.by = @ \cup {who}] ELSE asked

-----------------------------------------------------------------------------
(* The monitor's thread.                                                   *)

Replug(s) ==
  /\ s # screen /\ screen' = s
  /\ UNCHANGED <<mConnected, mModes, capability, layers, asked, overrun, said>>

ReplaceModes_NotModes ==
  /\ mConnected # (screen # NoScreen) /\ mConnected' = (screen # NoScreen)
  /\ UNCHANGED <<screen, mModes, capability, layers, asked, overrun, said>>

\* DrmConnector::HandleHotplug: the modes, not the capability, and those only if there is a
\* monitor where there was none, or none where there was.
ReplaceModes ==
  /\ mConnected # (screen # NoScreen) /\ mConnected' = (screen # NoScreen)
  /\ mModes' = screen /\ asked' = Touch("modes", "monitor")
  /\ UNCHANGED <<screen, capability, layers, overrun, said>>

-----------------------------------------------------------------------------
(* The client's thread.                                                    *)

\* The calls that test a pointer before anything else, those that are not supported, and
\* those that find out further in.
Checked == {"GetDisplayCapability", "GetDisplaySupportedModes", "GetDisplayMode", "GetDisplayPowerStatus",
            "GetDisplayBacklight", "GetDisplayProperty", "PrepareDisplayLayers", "GetDisplayCompChange",
            "SetDisplayClientCrop", "SetDisplayClientDestRect", "SetDisplayClientDamage", "Commit", "CreateLayer"}
Unsupported == {"GetDisplayProperty", "SetDisplayProperty", "SetDisplayClientCrop", "SetDisplayClientDestRect",
                "SetDisplayClientDamage", "CreateVirtualDisplay", "DestroyVirtualDisplay",
                "SetVirtualDisplayBuffer"}
Late == [GetDisplayReleaseFence |-> "FAILURE", CreateLayerOfNothing |-> "PARAM_ERR",
         SetDisplayClientBuffer |-> "SUCCESS"]

Says_SuccessUnsupported(op, there, null) ==
  IF null /\ op \in Checked THEN "NULL_PTR" ELSE IF there THEN "SUCCESS" ELSE "FAILURE"

\* RegHotPlugCallback is for no display, and its result is not looked at.
Says(op, there, null) ==
  IF op = "RegHotPlugCallback" THEN "SUCCESS"
  ELSE IF null /\ op \in Checked THEN "NULL_PTR"
  ELSE IF op \in Unsupported THEN "NOT_SUPPORT"
  ELSE IF ~ there THEN "FAILURE"
  ELSE IF null /\ op \in DOMAIN Late THEN Late[op] ELSE "SUCCESS"

\* The calls whose callback or buffer is to be kept: it is, if there is one.
Keepers == {"RegHotPlugCallback", "SetDisplayClientBuffer"}
Keeps(op, there, null) == op \in Keepers /\ Says(op, there, null) = "SUCCESS" /\ ~ null

\* The calls that change a list or ask for one; here, with a null pointer or no display.
Listing == {"CreateLayer", "CreateLayerOfNothing", "PrepareDisplayLayers", "GetDisplaySupportedModes",
            "GetDisplayCompChange", "GetDisplayReleaseFence"}

CallOnce(op, there, null) ==
  /\ op \in Listing => null \/ ~ there
  /\ said' = [reply |-> Says(op, there, null), kept |-> Keeps(op, there, null),
               asked |-> op \in Keepers /\ ~ null, served |-> op \notin Unsupported]
  /\ UNCHANGED <<screen, mConnected, mModes, capability, layers, asked, overrun>>

\* CreateLayer, CloseLayer and PrepareDisplayLayers, which lists all layers as changed.
ChangeLayers(l, n) ==
  /\ n \in 0 .. CallLayers /\ layers' = [layers EXCEPT ![l] = n] /\ asked' = Touch(l, "client")
  /\ UNCHANGED <<screen, mConnected, mModes, capability, overrun, said>>

\* The call for the length: the entries' arrays are null.
CountList(l) ==
  /\ asked' = [list |-> l, room |-> Length(l), by |-> {}]
  /\ UNCHANGED <<screen, mConnected, mModes, capability, layers, overrun, said>>

\* How many entries the second call writes.
Written(l) == Length(l)

FillList(l) ==
  /\ asked.list = l /\ asked' = NotAsked
  /\ overrun' = IF Written(l) > asked.room THEN asked ELSE overrun
  /\ UNCHANGED <<screen, mConnected, mModes, capability, layers, said>>

\* Nothing is said of what follows an overrun.
CallsNext ==
  /\ overrun = NotAsked
  /\ \/ \E s \in Screens \cup {NoScreen} : Replug(s)
     \/ ReplaceModes
     \/ \E op \in Checked \cup Unsupported \cup DOMAIN Late \cup {"RegHotPlugCallback"},
           there \in BOOLEAN, null \in BOOLEAN : CallOnce(op, there, null)
     \/ ChangeLayers("fences", layers.fences + 1) \/ ChangeLayers("fences", layers.fences - 1)
     \/ ChangeLayers("changes", layers.fences)
     \/ \E l \in Lists : CountList(l) \/ FillList(l)

CallsSpec == CallsInit /\ [][CallsNext]_callVars

-----------------------------------------------------------------------------
(* Properties.                                                             *)

\* A list is written past the client's array only if it grew after the client asked for its
\* length: the modes by the monitor's thread, which no care of the client's prevents, the
\* lists of layers by the client's own calls.  The modes are another monitor's than the
\* plugged one only until the monitor's thread looks, or if it looked too late to see
\* that there was none in between.  SUCCESS means kept unless the pointer was null, and is
\* never said of what is not supported.
CallsStayInBounds ==
  /\ overrun # NotAsked => overrun.by = IF overrun.list = "modes" THEN {"monitor"} ELSE {"client"}
  /\ screen # mModes => mConnected # (screen # NoScreen) \/ NoScreen \notin {screen, mModes}
  /\ said.reply = "SUCCESS" => said.served /\ (said.asked => said.kept)
=============================================================================
