------------------------------- MODULE WifiNet -------------------------------
(***************************************************************************)
(* The net device of the WiFi driver's adapter: registering and building   *)
(* the chip driver (hdf_driver_bdh_register.c), initialising the device    *)
(* (hdfinit_bdh.c), and the operations that change its state               *)
(* (net_bdh_adpater.c, hdf_bdh_mac80211.c); the others are in WifiCalls.   *)
(*                                                                         *)
(* The client and the framework call one operation at a time.  The driver  *)
(* below (dhd_ops_pri, wl_cfg80211_ops, external) may refuse any call, and *)
(* then leaves things as they are.                                         *)
(***************************************************************************)
EXTENDS Naturals

CONSTANTS
  Macs,         \* addresses
  Modes,        \* work modes
  AP,           \* the one of an access point
  MaxInits      \* bound: initialisations of the net device

ASSUME WifiNetAssumption ==
  /\ AP \in Modes /\ MaxInits \in Nat

VARIABLES
  chip,         \* the chip driver: "none", "registered", "built"
  usable,       \* netDeviceIf is set
  mlPriv,       \* private objects: the one the device has, and how many were allocated
  wiphy,        \* netdev->ieee80211_ptr and its wiphy are there
  up,           \* driver: the interface is open
  mac,          \* driver: the address
  macAddr,      \* netDev->macAddr, what the framework knows of it
  mode,         \* driver: the mode the interface is in
  iftype,       \* wdev->iftype
  told,         \* what the last answer made the client believe of the interface
  inits,        \* history: initialisations
  unsaid,       \* history: calls the driver refused since the interface last followed
  readdressed,  \* history: the address was set since the last open
  unchanged     \* history: the mode an access point asked for was refused

netVars == <<chip, usable, mlPriv, wiphy, up, mac, macAddr, mode, iftype, told, inits, unsaid, readdressed, unchanged>>
device == <<chip, usable, mlPriv, wiphy, inits>>
interface == <<up, told, unsaid>>
address == <<mac, macAddr, readdressed>>
kind == <<mode, iftype, unchanged>>

NetInit ==
  /\ chip = "none" /\ usable = FALSE /\ mlPriv = [held |-> FALSE, allocated |-> 0]
  /\ wiphy = FALSE /\ up = FALSE /\ mac \in Macs /\ macAddr = "unknown"
  /\ mode \in Modes \ {AP} /\ iftype = mode
  /\ told = "down"
  /\ inits = 0 /\ unsaid = {} /\ readdressed = FALSE /\ unchanged = FALSE

-----------------------------------------------------------------------------
(* The chip driver.  InitBDH6Chip and DeinitBDH6Chip do nothing.           *)

\* HDFWlanRegBDH6DriverFactory
RegDriverFactory ==
  /\ chip = "none" /\ chip' = "registered"
  /\ UNCHANGED <<usable, mlPriv, wiphy, inits, interface, address, kind>>

BuildBDH6Driver ==
  /\ chip = "registered" /\ chip' = "built"
  /\ UNCHANGED <<usable, mlPriv, wiphy, inits, interface, address, kind>>

\* Releasing the chip driver leaves the net device as it is, its operations included.
ReleaseBDH6Driver ==
  /\ chip = "built" /\ chip' = "registered"
  /\ UNCHANGED <<usable, mlPriv, wiphy, inits, interface, address, kind>>

-----------------------------------------------------------------------------
(* The interface.                                                          *)

\* hdf_bdh6_netdev_open stops the interface and opens it, whatever came of the stop, and
\* takes over the address, whatever came of either.  The driver opens nothing without a wiphy.
NetdevOpen_KeepsMac(stops, opens, said) ==
  /\ up' = (opens \/ (up /\ ~ stops)) /\ told' = IF said THEN "up" ELSE "down"
  /\ unsaid' = IF opens THEN {} ELSE {"open"} \cup IF stops THEN {} ELSE {"stop"}
  /\ macAddr' = IF macAddr = "unknown" THEN mac ELSE macAddr
  /\ readdressed' = FALSE /\ UNCHANGED mac

NetdevOpen(stops, opens, said) ==
  /\ up' = (opens \/ (up /\ ~ stops)) /\ told' = IF said THEN "up" ELSE "down"
  /\ unsaid' = IF opens THEN {} ELSE {"open"} \cup IF stops THEN {} ELSE {"stop"}
  /\ macAddr' = mac /\ readdressed' = FALSE /\ UNCHANGED mac

\* What the client is told of an open is the driver's answer to it.
Open_SaysStop(stops, opens) == NetdevOpen(stops, opens, stops)

Open(stops, opens) == NetdevOpen(stops, opens, opens)

NetOpen ==
  /\ usable
  /\ \E stops \in BOOLEAN, opens \in {FALSE, wiphy} : Open(stops, opens)
  /\ UNCHANGED <<device, kind>>

\* hdf_bdh6_netdev_stop, of the client or of BDH6Deinit, which says success in any case.
NetStop(stops, deinit) ==
  /\ usable
  /\ up' = (up /\ ~ stops)
  /\ told' = IF stops \/ deinit THEN "down" ELSE told
  /\ unsaid' = IF stops THEN {} ELSE unsaid \cup {"stop"}
  /\ UNCHANGED <<device, address, kind>>

\* BDH6Init.  The operations are set before there is memory for the private object, and
\* the private object of an earlier initialisation is not freed.  Neither the driver's
\* own initialisation nor the open is asked how it went.
BDH6Init(platform, memory, dhd) ==
  /\ chip = "built" /\ inits < MaxInits /\ inits' = inits + 1
  /\ usable' = (usable \/ platform)
  /\ IF platform
     THEN mlPriv' = [held |-> memory, allocated |-> mlPriv.allocated + IF memory THEN 1 ELSE 0]
     ELSE UNCHANGED mlPriv
  /\ IF platform /\ memory
     THEN /\ wiphy' = (wiphy \/ dhd)
          /\ \E stops \in BOOLEAN, opens \in {FALSE, wiphy'} : NetdevOpen(stops, opens, TRUE)
     ELSE told' = "down" /\ unsaid' = unsaid \cup {"init"} /\ UNCHANGED <<wiphy, up, address>>
  /\ UNCHANGED <<chip, kind>>

-----------------------------------------------------------------------------
(* Operations that reach the driver.                                       *)

\* BDH6WalSetMacAddr and hdf_bdh6_netdev_setmacaddr
SetMacAddr(m) ==
  /\ usable /\ mac' = m
  /\ readdressed' = (readdressed \/ m # mac)
  /\ UNCHANGED <<device, interface, macAddr, kind>>

\* BDH6WalSetMode: a driver that takes the mode sets the type.
SetMode(m) ==
  /\ wiphy /\ mode' = m /\ iftype' = m /\ unchanged' = FALSE
  /\ UNCHANGED <<device, interface, address>>

\* The end of WalConfigAp, which sets the type, asks for the mode and says success.
ConfigApMode(ok) ==
  /\ wiphy /\ iftype' = AP
  /\ mode' = (IF ok THEN AP ELSE mode) /\ unchanged' = (~ ok /\ mode # AP)
  /\ UNCHANGED <<device, interface, address>>

-----------------------------------------------------------------------------

NetNext ==
  \/ RegDriverFactory
  \/ BuildBDH6Driver
  \/ ReleaseBDH6Driver
  \/ \E platform, memory, dhd \in BOOLEAN : BDH6Init(platform, memory, dhd)
  \/ NetOpen
  \/ \E stops, deinit \in BOOLEAN : NetStop(stops, deinit)
  \/ \E m \in Macs : SetMacAddr(m)
  \/ \E m \in Modes : SetMode(m)
  \/ \E ok \in BOOLEAN : ConfigApMode(ok)

NetSpec == NetInit /\ [][NetNext]_netVars

-----------------------------------------------------------------------------
(* Properties.                                                             *)

\* The client takes the interface for up although it is not only after an initialisation
\* whose open the driver refused without the client hearing of it, and for down although
\* it is up only when a stop was refused, or an initialisation failed, since it last followed.
InterfaceExplained ==
  /\ told = "up" /\ ~ up => "open" \in unsaid
  /\ told = "down" /\ up => unsaid \cap {"stop", "init"} # {}

\* Once it was opened, the framework knows the driver's address unless it was changed since.
\* The type is the mode unless an access point's was refused, and then it is an access point's.
\* It is up without its private object only if an initialisation after the first failed.
DeviceExplained ==
  /\ macAddr # "unknown" /\ ~ readdressed => macAddr = mac
  /\ iftype # mode => unchanged /\ iftype = AP
  /\ told = "up" /\ ~ mlPriv.held => inits > 1

\* What the client and the framework believe of the net device is what the driver does,
\* but for refusals that are not passed on.
NetDeviceExplained == InterfaceExplained /\ DeviceExplained
=============================================================================
