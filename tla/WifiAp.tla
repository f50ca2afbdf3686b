-------------------------------- MODULE WifiAp --------------------------------
(***************************************************************************)
(* The access point of the WiFi driver's adapter (hdf_mac80211_ap.c): one  *)
(* static cfg80211_ap_settings that ConfigAp clears and fills, into which  *)
(* ChangeBeacon copies a beacon's head and tail and pointers into that     *)
(* tail, and which StartAp hands to the driver, stopping the access point  *)
(* first when the flag says it was ever started.                           *)
(*                                                                         *)
(* A client calls the four operations in any order, one at a time.  The    *)
(* driver (wl_cfg80211_ops, external) may fail any call and then leaves    *)
(* things as they are; failures it reports are not always passed on.       *)
(***************************************************************************)
EXTENDS Naturals

CONSTANTS
  Freqs,        \* centre frequencies
  Known,        \* those that are the frequency of a channel of the wiphy
  Phys,         \* HT and VHT
  Null

\* What is on the air: the channel definition and the beacon's tail, which is known by
\* the capabilities it lists and the PHYs its rates require.
Tails == [cap : SUBSET Phys, need : SUBSET Phys]
TailOrNull == Tails \cup {Null}
NoTail == [cap |-> {}, need |-> {}]
Airs == [freq : Freqs \cup {Null}, chan : Freqs \cup {Null}, tail : TailOrNull]
Contents(t) == IF t = Null THEN NoTail ELSE t

ASSUME WifiApAssumption ==
  /\ Known \subseteq Freqs
  /\ Null \notin Freqs /\ Null \notin Tails /\ Null \notin Airs

VARIABLES
  preset,       \* wdev->preset_chandef: centre frequency and channel
  chandef,      \* g_ap_setting_info.chandef
  head, tail,   \* g_ap_setting_info.beacon: whether there is a head; the tail
  headLen, tailLen, \* whether their lengths are positive
  caps,         \* ht_cap, vht_cap: null, into the tail, or into one that was freed
  required,     \* ht_required, vht_required
  start_ap_flag,
  bss,          \* driver: what is on the air, or Null
  fault,        \* elements were read through a null pointer
  client,       \* what the client was told is on the air, or Null
  hidden,       \* history: the last start failed, and ChangeBeacon did not say so
  earlier,      \* history: what the tails before this one listed, since ConfigAp
  hadTail,      \* history: whether there was one
  starved,      \* history: the memory for this tail was not there
  chanSet       \* history: the channel was set by an earlier configuration

settings == <<chandef, head, tail, headLen, tailLen, caps, required>>
histories == <<earlier, hadTail, starved>>
vars == <<preset, settings, start_ap_flag, bss, fault, client, hidden, histories, chanSet>>

NoChan == [freq |-> Null, chan |-> Null]

Init ==
  /\ preset = NoChan /\ chandef = NoChan
  /\ head = FALSE /\ tail = Null /\ headLen = FALSE /\ tailLen = FALSE
  /\ caps = [p \in Phys |-> "null"] /\ required = {}
  /\ start_ap_flag = FALSE /\ bss = Null /\ fault = FALSE
  /\ client = Null /\ hidden = FALSE
  /\ earlier = NoTail /\ hadTail = FALSE /\ starved = FALSE /\ chanSet = FALSE

-----------------------------------------------------------------------------

SetupWireLessDev_KeepsChannel(f) ==
  preset' = [freq |-> f, chan |-> IF preset.chan = Null THEN f ELSE preset.chan]

\* The wiphy's channel if there is one at the centre frequency; else the channel that is
\* set already; else one made up for the frequency.
SetupWireLessDev(f) ==
  preset' = [freq |-> f, chan |-> IF f \in Known \/ preset.chan = Null THEN f ELSE preset.chan]

WalConfigAp_KeepsPointers(f) ==
  /\ SetupWireLessDev(f) /\ chandef' = preset' /\ chanSet' = (preset.chan # Null)
  /\ head' = FALSE /\ tail' = Null /\ headLen' = FALSE /\ tailLen' = FALSE
  /\ UNCHANGED <<caps, required>>
  /\ earlier' = NoTail /\ hadTail' = FALSE /\ starved' = FALSE
  /\ UNCHANGED <<start_ap_flag, bss, fault, client, hidden>>

\* The settings are cleared without freeing the beacon.  That the interface did not
\* change its type goes unnoticed.
WalConfigAp(f) ==
  /\ SetupWireLessDev(f) /\ chandef' = preset' /\ chanSet' = (preset.chan # Null)
  /\ head' = FALSE /\ tail' = Null /\ headLen' = FALSE /\ tailLen' = FALSE
  /\ caps' = [p \in Phys |-> "null"] /\ required' = {}
  /\ earlier' = NoTail /\ hadTail' = FALSE /\ starved' = FALSE
  /\ UNCHANGED <<start_ap_flag, bss, fault, client, hidden>>

\* What stop_ap leaves on the air.
Stopped == {Null, bss}

WalStopAp ==
  /\ bss' \in Stopped /\ client' = (IF bss' = Null THEN Null ELSE client)
  /\ UNCHANGED <<preset, settings, start_ap_flag, fault, hidden, histories, chanSet>>

OnAir(t) == [freq |-> chandef.freq, chan |-> chandef.chan, tail |-> t]

\* A start that fails leaves on the air what there is.
Started(ok, air, t) == IF ok THEN OnAir(t) ELSE air

\* With the flag set the access point is stopped, with whatever result, and then started
\* all the same.
StartAp(ok, air) ==
  /\ air \in IF start_ap_flag THEN Stopped ELSE {bss}
  /\ start_ap_flag' = (start_ap_flag \/ ok)
  /\ preset' = IF ok THEN chandef ELSE preset

WalStartAp_Succeeds ==
  \E ok \in BOOLEAN, air \in Stopped :
    /\ StartAp(ok, air) /\ bss' = Started(ok, air, tail)
    /\ client' = OnAir(tail) /\ hidden' = FALSE
    /\ UNCHANGED <<settings, fault, histories, chanSet>>

WalStartAp ==
  \E ok \in BOOLEAN, air \in Stopped :
    /\ StartAp(ok, air) /\ bss' = Started(ok, air, tail)
    /\ client' = (IF ok THEN OnAir(tail) ELSE Null) /\ hidden' = FALSE
    /\ UNCHANGED <<settings, fault, histories, chanSet>>

\* The buffers are freed and, for the parts that are given and for which there is memory,
\* replaced.  The length of a part that is not given stays what it was.
WalInitBeacon(h, t, memory) ==
  /\ head' = (h /\ memory) /\ headLen' = (headLen \/ h)
  /\ tail' = IF memory THEN t ELSE Null
  /\ tailLen' = (tailLen \/ t # Null)
  /\ earlier' = [cap |-> earlier.cap \cup Contents(tail).cap, need |-> earlier.need \cup Contents(tail).need]
  /\ hadTail' = (hadTail \/ tail # Null) /\ starved' = (t # Null /\ ~ memory)

\* bdh6_nl80211_calculate_ap_params, after the tail was replaced: nothing is reset.
CalculateApParams ==
  /\ caps' = [p \in Phys |-> IF p \in Contents(tail').cap THEN "here"
                             ELSE IF caps[p] = "here" THEN "gone" ELSE caps[p]]
  /\ required' = required \cup Contents(tail').need

\* What start_ap and change_beacon report is not reported on.  The elements of a tail
\* that is gone, by its length, are read through a null pointer.
WalChangeBeacon(h, t, memory) ==
  /\ WalInitBeacon(h, t, memory) /\ CalculateApParams
  /\ \/ /\ tail' = Null /\ tailLen'
        /\ fault' = TRUE
        /\ UNCHANGED <<preset, start_ap_flag, bss, client, hidden>>
     \/ /\ tail' # Null \/ ~ tailLen'
        /\ \E ok, changed \in BOOLEAN, air \in Stopped :
             /\ StartAp(ok, air)
             /\ bss' = LET now == Started(ok, air, t) IN
                       IF changed /\ now # Null THEN [now EXCEPT !.tail = t] ELSE now
             /\ client' = OnAir(t) /\ hidden' = ~ ok
        /\ UNCHANGED fault
  /\ UNCHANGED <<chandef, chanSet>>

Next ==
  /\ ~ fault
  /\ \/ \E f \in Freqs : WalConfigAp(f)
     \/ WalStopAp \/ WalStartAp
     \/ \E h, memory \in BOOLEAN, t \in TailOrNull : WalChangeBeacon(h, t, memory)

Spec == Init /\ [][Next]_vars

-----------------------------------------------------------------------------
(* Properties.                                                             *)

Chandefs == [freq : Freqs \cup {Null}, chan : Freqs \cup {Null}]
\* The variables keep their types, and a part of the beacon that is there has a length.
TypeOK ==
  /\ preset \in Chandefs /\ chandef \in Chandefs
  /\ tail \in TailOrNull /\ {head, headLen, tailLen} \subseteq BOOLEAN
  /\ (head => headLen) /\ (tail # Null => tailLen)
  /\ caps \in [Phys -> {"null", "here", "gone"}] /\ required \subseteq Phys
  /\ {start_ap_flag, fault, hidden, hadTail, starved, chanSet} \subseteq BOOLEAN
  /\ {bss, client} \subseteq Airs \cup {Null} /\ earlier \in Tails

\* The capabilities handed to the driver are those of the beacon that goes with them,
\* except that one which an earlier beacon of the same configuration listed points into
\* freed memory, and one which such a beacon required stays required.  The elements of a
\* tail are read through a null pointer only if an earlier beacon had a tail and this one
\* has none, or if there was no memory for it.
SettingsFollowTail ==
  /\ \A p \in Phys :
       /\ caps[p] = "here" <=> p \in Contents(tail).cap
       /\ caps[p] = "gone" => p \in earlier.cap
  /\ Contents(tail).need \subseteq required
  /\ required \subseteq Contents(tail).need \cup earlier.need
  /\ fault => tail = Null /\ (hadTail \/ starved)

\* What the client was told is on the air is there, channel and beacon, unless a start
\* failed within ChangeBeacon: that call takes a running access point off the air
\* and reports success.
ClientKnows == client # Null /\ ~ hidden => bss = client

\* The channel that is configured is at the centre frequency, unless that is of no
\* channel and another configuration came before: then it keeps the earlier channel.
ChannelIsConfigured ==
  /\ chandef.chan = chandef.freq \/ (chandef.freq \notin Known /\ chanSet)
  /\ bss # Null => bss.chan = bss.freq \/ bss.freq \notin Known

\* What start_ap is handed is the last configuration and the last beacon, except for what
\* earlier ones of them left behind.
StartsAsConfigured == SettingsFollowTail /\ ChannelIsConfigured
=============================================================================
