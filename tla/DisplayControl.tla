---------------------------- MODULE DisplayControl ----------------------------
(***************************************************************************)
(* Power and backlight: the calls of the session (hdi_session.cpp) that    *)
(* reach DrmDisplay (drm_display.cpp) and DrmConnector                     *)
(* (drm_connector.cpp).  What is set goes to one frame buffer device and   *)
(* one backlight file, whichever display is meant; what is reported is     *)
(* kept per connector and read from the kernel only when the connector is  *)
(* initialised, at start and after a hotplug.                              *)
(*                                                                         *)
(* External: the frame buffer's blanking changes the DPMS property of all  *)
(* connectors; the backlight refuses a level above MaxLevel.               *)
(***************************************************************************)
EXTENDS Integers, FiniteSets

CONSTANTS
  CtlDisplays,  \* the displays discovery finds
  Stranger,     \* an id that is none of theirs
  Dimmable,     \* the displays whose connector has a brightness property
  Levels,       \* the levels clients ask for, unsigned
  Word,         \* 2^32: a level is formatted as a signed number
  Negative, Positive,  \* what sprintf_s can put into ten bytes: - Negative .. Positive
  MaxLevel,
  MaxTables     \* bound: tables of functions that are out

BACKLIGHT_MIN == 10

ASSUME DisplayControlAssumption ==
  /\ Stranger \notin CtlDisplays /\ Dimmable \subseteq CtlDisplays
  /\ Word \in Nat /\ BACKLIGHT_MIN < Word /\ Levels \subseteq 0 .. Word - 1
  /\ MaxLevel \in Nat /\ BACKLIGHT_MIN <= MaxLevel

VARIABLES
  tables,      \* tables of DeviceInitialize that clients hold
  session,     \* HdiSession's instance was made
  fb_fd, brFd, \* the static descriptors are open
  dpms,        \* kernel: ON, or what blanking makes of it
  backlight,   \* kernel: the level
  mDpmsState, mBrightnessLevel,  \* per connector
  answer,      \* of the last call
  powerSet,    \* history: the displays since whose Init the frame buffer was blanked or lit
  behind       \* history: per connector, why its level may not be the backlight's

ctlVars == <<tables, session, fb_fd, brFd, dpms, backlight, mDpmsState, mBrightnessLevel, answer,
             powerSet, behind>>

CtlInit ==
  /\ tables = 0 /\ session = FALSE /\ fb_fd = FALSE /\ brFd = FALSE
  /\ dpms = "ON" /\ backlight = MaxLevel
  /\ mDpmsState = [d \in CtlDisplays |-> "none"] /\ mBrightnessLevel = [d \in CtlDisplays |-> 0]
  /\ answer = "none" /\ powerSet = {} /\ behind = [d \in CtlDisplays |-> "not probed"]

\* The first table also makes the session: each connector's Init reads both properties.
\* The brightness property is not the backlight, and may have any value.
DeviceInitialize ==
  /\ tables < MaxTables
  /\ \/ answer' = "FAILURE" /\ UNCHANGED <<tables, session, mDpmsState, mBrightnessLevel>>
     \/ /\ answer' = "SUCCESS" /\ tables' = tables + 1 /\ session' = TRUE
        /\ IF session THEN UNCHANGED <<mDpmsState, mBrightnessLevel>>
           ELSE /\ mDpmsState' = [d \in CtlDisplays |-> dpms]
                /\ mBrightnessLevel' \in {f \in [CtlDisplays -> {0, backlight}] :
                                           \A d \in CtlDisplays \ Dimmable : f[d] = 0}
  /\ UNCHANGED <<fb_fd, brFd, dpms, backlight, powerSet, behind>>

\* It frees the table, and leaves the session.
DeviceUninitialize ==
  /\ tables > 0 /\ tables' = tables - 1 /\ answer' = "SUCCESS"
  /\ UNCHANGED <<session, fb_fd, brFd, dpms, backlight, mDpmsState, mBrightnessLevel, powerSet, behind>>

\* A connect state that changed makes DrmDevice::HandleHotplug initialise the connector
\* again; a look-up of DPMS that fails ends that before the brightness.
HotplugInit_KeepsPower(d) ==
  /\ session
  /\ powerSet' = powerSet \ {d}
  /\ \E level \in {0, backlight} : mBrightnessLevel' = [mBrightnessLevel EXCEPT ![d] = level]
  /\ behind' = [behind EXCEPT ![d] = "not probed"]
  /\ UNCHANGED <<tables, session, fb_fd, brFd, dpms, backlight, mDpmsState, answer>>

HotplugInit(d) ==
  /\ session
  /\ \/ UNCHANGED <<mDpmsState, mBrightnessLevel, powerSet, behind>>
     \/ /\ mDpmsState' = [mDpmsState EXCEPT ![d] = dpms] /\ powerSet' = powerSet \ {d}
        /\ \/ UNCHANGED <<mBrightnessLevel, behind>>
           \/ /\ d \in Dimmable
              /\ \E level \in {0, backlight} : mBrightnessLevel' = [mBrightnessLevel EXCEPT ![d] = level]
              /\ behind' = [behind EXCEPT ![d] = "not probed"]
  /\ UNCHANGED <<tables, session, fb_fd, brFd, dpms, backlight, answer>>

\* CallDisplayFunction.
Reaches(d) == session /\ tables > 0 /\ d \in CtlDisplays

NotReached(d) ==
  /\ session /\ tables > 0 /\ d = Stranger /\ answer' = "FAILURE"
  /\ UNCHANGED <<tables, session, fb_fd, brFd, dpms, backlight, mDpmsState, mBrightnessLevel, powerSet, behind>>

-----------------------------------------------------------------------------
(* Power.                                                                  *)

\* SetDisplayPowerStatus: whatever the display, fb0 is blanked or lit; OFF, STANDBY and
\* SUSPEND are one to it.
SetDisplayPowerStatus(d, status) ==
  /\ Reaches(d)
  /\ \/ ~ fb_fd /\ answer' = "NOT_SUPPORT" /\ UNCHANGED <<fb_fd, dpms, powerSet>>
     \/ /\ fb_fd' = TRUE
        /\ \/ answer' = "FAILURE" /\ UNCHANGED <<dpms, powerSet>>
           \/ /\ status # "BUTT" /\ answer' = "SUCCESS"
              /\ dpms' = IF status = "ON" THEN "ON" ELSE "OFF"
              /\ powerSet' = CtlDisplays
  /\ UNCHANGED <<tables, session, brFd, backlight, mDpmsState, mBrightnessLevel, behind>>

-----------------------------------------------------------------------------
(* Backlight.                                                              *)

Clamp(level) == IF level < BACKLIGHT_MIN THEN BACKLIGHT_MIN ELSE level

\* "%d" of an unsigned number.
Printed(level) == IF 2 * level >= Word THEN level - Word ELSE level

\* The kernel takes what it can read as an unsigned number, up to its maximum.
Takes(level) == Printed(level) \in 0 .. MaxLevel

Behind(d, level) ==
  [e \in CtlDisplays |->
     IF e = d THEN (IF Takes(level) THEN "no" ELSE "refused")
     ELSE IF Takes(level) /\ behind[e] = "no" THEN "another display's" ELSE behind[e]]

\* The level that DrmConnector::SetBrightness keeps.
Kept_AsAsked(level) == level

Kept(level) == Clamp(level)

\* The answer of write is not looked at.
SetDisplayBacklight(d, level) ==
  /\ Reaches(d)
  /\ \/ /\ d \notin Dimmable \/ ~ brFd
        /\ answer' = "NOT_SUPPORT" /\ UNCHANGED <<brFd, backlight, mBrightnessLevel, behind>>
     \/ /\ d \in Dimmable /\ brFd' = TRUE
        /\ IF Printed(Clamp(level)) \in (- Negative) .. Positive
             THEN /\ answer' = "SUCCESS"
                  /\ mBrightnessLevel' = [mBrightnessLevel EXCEPT ![d] = Kept(level)]
                  /\ backlight' = IF Takes(Clamp(level)) THEN Printed(Clamp(level)) ELSE backlight
                  /\ behind' = Behind(d, Clamp(level))
             ELSE answer' = "FAILURE" /\ UNCHANGED <<backlight, mBrightnessLevel, behind>>
  /\ UNCHANGED <<tables, session, fb_fd, dpms, mDpmsState, powerSet>>

CtlNext ==
  \/ DeviceInitialize \/ DeviceUninitialize
  \/ \E d \in CtlDisplays \cup {Stranger} :
       \/ NotReached(d)
       \/ \E status \in {"ON", "STANDBY", "SUSPEND", "OFF", "BUTT"} : SetDisplayPowerStatus(d, status)
       \/ \E level \in Levels : SetDisplayBacklight(d, level)
  \/ \E d \in CtlDisplays : HotplugInit(d)

CtlSpec == CtlInit /\ [][CtlNext]_ctlVars

-----------------------------------------------------------------------------
(* Properties.                                                             *)

\* GetDisplayBacklight reports the level that the backlight has, except until the display
\* first sets one, after a level that the kernel would not take, although the call
\* succeeded, and after another display set the one backlight there is.  And
\* GetDisplayPowerStatus reports the power there is, except after any display's was set:
\* what was set is not seen before the next hotplug.
ReportsAreExplained ==
  session => \A d \in CtlDisplays :
    /\ d \in Dimmable => mBrightnessLevel[d] = backlight \/ behind[d] # "no"
    /\ mDpmsState[d] = dpms \/ d \in powerSet
=============================================================================
