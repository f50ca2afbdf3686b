------------------------------ MODULE WifiCalls ------------------------------
(***************************************************************************)
(* The operations of the WiFi adapter's tables that keep no state of its   *)
(* own: those that are passed on to the driver (hdf_bdh_mac80211.c,        *)
(* hdf_mac80211_ap.c, hdf_mac80211_sta.c, net_bdh_adpater.c), the events   *)
(* that are passed up (hdf_mac80211_sta_event.c), the received frames and  *)
(* the frequencies.                                                        *)
(*                                                                         *)
(* External: the driver, which refuses any call, and whose stations come   *)
(* and go; the framework, which takes an event or not.                     *)
(***************************************************************************)
EXTENDS Integers, FiniteSets, FiniteSetsExt

CONSTANTS
  Rooms,        \* sizes of the client's arrays
  AddrLen,      \* of an address: 6
  HeaderLength, \* characters of the list of stations before the first, and of each
  EntryLength,
  MaxStations,  \* MAX_NUM_OF_ASSOCIATED_DEV
  Domains,      \* the first rules of regulatory domains, <<from, to>> in MHz
  MaxFrames     \* bound: frames handed to the EAPOL handler

ASSUME WifiCallsAssumption ==
  /\ Rooms \subseteq Nat /\ {AddrLen, HeaderLength, EntryLength, MaxStations, MaxFrames} \subseteq Nat
  /\ EntryLength > 1 /\ Domains \subseteq Nat \X Nat

VARIABLES
  linux,     \* the net device has its counterpart of the kernel, and that its wiphy
  stations,  \* driver: stations that are associated
  known,     \* the stations that the framework has heard of
  answer,    \* of the last operation: what was said, whether it was done, the number told and the true
             \* one, and the size of the client's array
  frames,    \* frames taken in, freed and queued
  unheard    \* history: an event was not taken

callVars == <<linux, stations, known, answer, frames, unheard>>

Answer(op, said, did) == [op |-> op, said |-> said, did |-> did, told |-> 0, true |-> 0, room |-> 0]

CallsInit ==
  /\ linux \in {"neither", "device", "wiphy"} /\ stations = 0 /\ known = 0
  /\ answer = Answer("none", FALSE, FALSE) /\ unheard = FALSE
  /\ frames = [taken |-> 0, freed |-> 0, queued |-> 0]

-----------------------------------------------------------------------------
(* Passed on.                                                              *)

\* The operations that need a wiphy, those that need the device, those that do nothing
\* and say that they did, and those that say that they do not.
KeyOps == {"addKey", "delKey", "setDefaultKey", "txPower"}
StationOps == {"delStation"}
ScanOps == {"abortScan"}
FrameOps == {"xmit", "ioctl", "mtu"}
QueryOps == {"stats", "countryCode"}
Ignored == {"setNetIfStatus", "selectQueue", "netifNotify", "linkStatusChanged"}
NotSupported == {"sendAction", "setScanningMacAddress"}

Reached(op) ==
  CASE op \in KeyOps \cup StationOps \cup ScanOps -> linux = "wiphy"
    [] op \in FrameOps \cup QueryOps              -> linux # "neither"
    [] OTHER                                      -> FALSE

\* What a client is told: of a power that was refused and of a scan that was not aborted, nothing.
Says(op, did) == did \/ op \in Ignored \cup {"getIftype"} \/ (op \in {"txPower", "abortScan"} /\ Reached(op))

\* BDH6WalGetIftype sets its own copy of the client's pointer.
PassOn(op, accepts) ==
  /\ LET did == accepts /\ Reached(op) IN answer' = Answer(op, Says(op, did), did)
  /\ UNCHANGED <<linux, stations, known, frames, unheard>>

\* BDH6WalGetDeviceMacAddr: an array that is too short gets no address.
GetDeviceMacAddr(room) ==
  /\ answer' = Answer("getDeviceMacAddr", linux # "neither", linux # "neither" /\ room >= AddrLen)
  /\ UNCHANGED <<linux, stations, known, frames, unheard>>

-----------------------------------------------------------------------------
(* Stations.                                                               *)

\* wl_get_all_sta: the number is what the driver left in the field that told it how many
\* there may be, and the answer is success.
Count_ZeroIfRefused(accepts) == IF accepts THEN stations ELSE 0
Count(accepts) == IF accepts THEN stations ELSE MaxStations

GetAssociatedStasCount(accepts) ==
  /\ answer' = IF linux = "neither" THEN Answer("stasCount", FALSE, FALSE)
               ELSE [op |-> "stasCount", said |-> TRUE, did |-> accepts, told |-> Count(accepts), true |-> stations,
                     room |-> 0]
  /\ UNCHANGED <<linux, stations, known, frames, unheard>>

\* wl_get_all_sta_info: the length of the text, with -1 for a header that does not fit, and
\* -1 in the end for a station that does not; the stations go on from the -1.
Text_ToTheLast(room, count) ==
  LET header == IF HeaderLength < room THEN HeaderLength ELSE -1
      length == header + count * EntryLength
  IN IF count = 0 \/ length <= room THEN length ELSE -1

Text(room, count) ==
  LET header == IF HeaderLength < room THEN HeaderLength ELSE -1
      length == header + count * EntryLength
  IN IF count = 0 \/ length < room THEN length ELSE -1

GetAssociatedStasInfo(room, accepts) ==
  /\ LET text == IF linux # "neither" /\ accepts THEN Text(room, stations) ELSE -1
     IN answer' = [op |-> "stasInfo", said |-> text >= 0, did |-> linux # "neither" /\ accepts,
                   told |-> text, true |-> HeaderLength + stations * EntryLength, room |-> room]
  /\ UNCHANGED <<linux, stations, known, frames, unheard>>

\* ChangNewSta and ChangDelSta, and the event's answer.  Bound: one event is not taken.
StationChanges(n, taken) ==
  /\ taken \/ ~ unheard
  /\ n \in 0 .. MaxStations /\ n \in {stations - 1, stations + 1} /\ stations' = n
  /\ known' = IF taken THEN known + n - stations ELSE known
  /\ answer' = Answer(IF n > stations THEN "newSta" ELSE "delSta", taken, taken)
  /\ unheard' = (unheard \/ ~ taken) /\ UNCHANGED <<linux, frames>>

\* The events of a station: of a network that was found, none without its parts.
Event(op, whole, taken) ==
  /\ op \in {"disconnected", "bssFrame"}
  /\ LET did == taken /\ (op = "bssFrame" => whole)
     IN answer' = Answer(op, did, did)
  /\ UNCHANGED <<linux, stations, known, frames, unheard>>

-----------------------------------------------------------------------------
(* Frames and frequencies.                                                 *)

\* hdf_bdh6_netdev_specialethertypeprocess frees a frame that is not EAPOL, one there is
\* no handler for, and one the handler's queue refuses.
Disposed_NotRefused(eapol, handler, accepts) ==
  IF ~ eapol \/ ~ handler THEN "freed" ELSE IF accepts THEN "queued" ELSE "lost"

Disposed(eapol, handler, accepts) == IF eapol /\ handler /\ accepts THEN "queued" ELSE "freed"

SpecialEtherTypeProcess(eapol, handler, accepts) ==
  /\ frames.taken < MaxFrames
  /\ LET to == Disposed(eapol, handler, accepts)
     IN frames' = [taken |-> frames.taken + 1,
                   freed |-> frames.freed + IF to = "freed" THEN 1 ELSE 0,
                   queued |-> frames.queued + IF to = "queued" THEN 1 ELSE 0]
  /\ UNCHANGED <<linux, stations, known, answer, unheard>>

\* BDH6WalGetValidFreqsWithBand: the centre of a channel of the 2.4 GHz band.
Centre_Even(channel) == 2412 + (channel - 1) * 5
Centre(channel) == IF channel < 14 THEN 2412 + (channel - 1) * 5 ELSE 2484

ValidFreqs(rule) == {Centre(c) : c \in {k \in 1..14 : Centre(k) >= rule[1] /\ Centre(k) <= rule[2]}}

-----------------------------------------------------------------------------

CallsNext ==
  \/ \E op \in KeyOps \cup StationOps \cup ScanOps \cup FrameOps \cup QueryOps \cup Ignored \cup NotSupported
                \cup {"getIftype"}, accepts \in BOOLEAN : PassOn(op, accepts)
  \/ \E room \in Rooms : GetDeviceMacAddr(room)
  \/ \E accepts \in BOOLEAN : GetAssociatedStasCount(accepts)
  \/ \E room \in Rooms, accepts \in BOOLEAN : GetAssociatedStasInfo(room, accepts)
  \/ \E n \in 0 .. MaxStations, taken \in BOOLEAN : StationChanges(n, taken)
  \/ \E op \in {"disconnected", "bssFrame"}, whole \in BOOLEAN, taken \in BOOLEAN : Event(op, whole, taken)
  \/ \E eapol, handler, accepts \in BOOLEAN : SpecialEtherTypeProcess(eapol, handler, accepts)

CallsSpec == CallsInit /\ [][CallsNext]_callVars

-----------------------------------------------------------------------------
(* Properties.                                                             *)

\* A client that is told success and got nothing asked for a power, an abort, the type, an
\* address in too short an array, something that is ignored, or the number of stations,
\* and then it is told that there are as many as there can be.  A list of stations that is
\* said to be complete is, and is in the client's array, unless its header did not fit.
RepliesExplained ==
  /\ answer.said /\ ~ answer.did =>
       \/ answer.op \in Ignored \cup {"txPower", "abortScan", "getIftype", "getDeviceMacAddr"}
       \/ answer.op = "stasCount" /\ answer.told = MaxStations
  /\ answer.op = "stasCount" /\ answer.did => answer.told = answer.true
  /\ answer.op = "stasInfo" /\ answer.said =>
       \/ answer.told = answer.true /\ answer.told < answer.room
       \/ answer.told = answer.true - HeaderLength - 1 /\ answer.told > 0

\* The framework knows of as many stations as there are unless an event was not taken.
\* Every frame is freed or queued, and once.  The frequencies are those of the channels of
\* the standard that the rule allows: 2484 MHz for the last, 5 MHz apart before.
AnswersExplained ==
  /\ RepliesExplained
  /\ known # stations => unheard
  /\ frames.taken = frames.freed + frames.queued
  /\ \A rule \in Domains :
       ValidFreqs(rule) = {f \in rule[1]..rule[2] : f = 2484 \/ (f \in 2412..2472 /\ f % 5 = 2)}
=============================================================================
