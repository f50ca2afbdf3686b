----------------------------- MODULE WifiProofs -----------------------------
(* Proofs about the wifi driver: WifiAp, for any frequencies, channels and *)
(* PHYs; the net device, WifiNet; the station, WifiSta; and the calls to   *)
(* the vendor's driver, WifiCalls.                                         *)
EXTENDS WifiAp, WifiNet, WifiSta, WifiCalls, TLAPS, FiniteSetTheorems

\* A length without its tail is noticed at once: the tail is read.
LengthInv == tailLen /\ ~ fault => tail # Null

WifiApInv == LengthInv /\ TypeOK /\ SettingsFollowTail /\ ClientKnows /\ ChannelIsConfigured

LEMMA ContentsTyped == \A t \in TailOrNull : Contents(t) \in Tails
  BY DEF TailOrNull, Contents, NoTail, Tails

LEMMA InvInit == Init => WifiApInv
<1> SUFFICES ASSUME Init PROVE WifiApInv
  OBVIOUS
<1>1. TypeOK
  <2>1. NoTail \in Tails
    BY DEF NoTail, Tails
  <2>2. {head, headLen, tailLen} \subseteq BOOLEAN /\ (head => headLen) /\ (tail # Null => tailLen)
    BY DEF Init
  <2>3. {start_ap_flag, fault, hidden, hadTail, starved, chanSet} \subseteq BOOLEAN
    BY DEF Init
  <2>4. caps \in [Phys -> {"null", "here", "gone"}] /\ required \subseteq Phys
    BY DEF Init
  <2> QED
    BY <2>1, <2>2, <2>3, <2>4 DEF Init, TypeOK, Chandefs, NoChan, Airs, TailOrNull
<1>2. SettingsFollowTail
  BY DEF Init, SettingsFollowTail, Contents, NoTail
<1>3. ClientKnows
  BY DEF Init, ClientKnows
<1>4. ChannelIsConfigured /\ LengthInv
  BY DEF Init, ChannelIsConfigured, NoChan, LengthInv
<1> QED
  BY <1>1, <1>2, <1>3, <1>4 DEF WifiApInv

-----------------------------------------------------------------------------
(* The driver's part: what is on the air after a start or a stop.          *)

LEMMA OnAirTyped ==
  ASSUME TypeOK, NEW t \in TailOrNull
  PROVE  OnAir(t) \in Airs /\ OnAir(t) # Null /\ OnAir(t).tail = t
         /\ OnAir(t).freq = chandef.freq /\ OnAir(t).chan = chandef.chan
<1>1. chandef.freq \in Freqs \cup {Null} /\ chandef.chan \in Freqs \cup {Null}
  BY DEF TypeOK, Chandefs
<1>2. OnAir(t) \in Airs
  BY <1>1 DEF OnAir, Airs
<1> QED
  BY <1>2, WifiApAssumption DEF OnAir

\* What a start leaves on the air: what is configured, if it succeeded, and otherwise
\* at most what there was.
LEMMA AfterStart ==
  ASSUME WifiApInv, NEW ok \in BOOLEAN, NEW air \in Stopped, NEW t \in TailOrNull, StartAp(ok, air)
  PROVE  /\ Started(ok, air, t) \in Airs \cup {Null}
         /\ ok => Started(ok, air, t) = OnAir(t)
         /\ Started(ok, air, t) # Null =>
              \/ Started(ok, air, t).chan = Started(ok, air, t).freq
              \/ Started(ok, air, t).freq \notin Known
         /\ start_ap_flag' \in BOOLEAN /\ preset' \in Chandefs
<1>1. /\ TypeOK /\ ChannelIsConfigured
      /\ air = Null \/ air = bss
  BY DEF WifiApInv, Stopped
<1>2. /\ OnAir(t) \in Airs /\ OnAir(t) # Null
      /\ OnAir(t).freq = chandef.freq /\ OnAir(t).chan = chandef.chan
  BY <1>1, OnAirTyped
<1>3. start_ap_flag' \in BOOLEAN /\ preset' \in Chandefs
  BY <1>1 DEF TypeOK, StartAp
<1>4. CASE ok
  <2>1. Started(ok, air, t) = OnAir(t)
    BY <1>4 DEF Started, StartAp
  <2> QED
    BY <2>1, <1>1, <1>2, <1>3 DEF ChannelIsConfigured
<1>5. CASE ~ ok
  <2>1. Started(ok, air, t) = air /\ start_ap_flag' = start_ap_flag
    BY <1>1, <1>5 DEF Started, StartAp, TypeOK
  <2> QED
    BY <2>1, <1>1, <1>3, <1>5 DEF ChannelIsConfigured, TypeOK
<1> QED
  BY <1>4, <1>5

-----------------------------------------------------------------------------
(* Each operation preserves the invariant.                                 *)

LEMMA ConfigStep ==
  ASSUME WifiApInv, ~ fault, NEW f \in Freqs, WalConfigAp(f)
  PROVE  WifiApInv'
<1>1. TypeOK /\ ClientKnows /\ ChannelIsConfigured
  BY DEF WifiApInv
<1>2. /\ preset' \in Chandefs /\ chandef' = preset' /\ chanSet' \in BOOLEAN
      /\ chandef'.chan = chandef'.freq \/ (chandef'.freq \notin Known /\ chanSet')
  <2>1. preset.chan \in Freqs \cup {Null}
    BY <1>1 DEF TypeOK, Chandefs
  <2> QED
    BY <2>1, WifiApAssumption DEF WalConfigAp, SetupWireLessDev, Chandefs
<1>3. TypeOK'
  <2>1. NoTail \in Tails
    BY DEF NoTail, Tails
  <2>2. caps' \in [Phys -> {"null", "here", "gone"}] /\ required' \subseteq Phys
    BY DEF WalConfigAp
  <2>3. tail' \in TailOrNull /\ head' = FALSE /\ headLen' = FALSE /\ tailLen' = FALSE /\ tail' = Null
    BY DEF WalConfigAp, TailOrNull
  <2>4. /\ hadTail' = FALSE /\ starved' = FALSE /\ earlier' \in Tails
        /\ start_ap_flag' = start_ap_flag /\ fault' = fault /\ hidden' = hidden
        /\ bss' = bss /\ client' = client
    BY <2>1 DEF WalConfigAp
  <2> QED
    BY <1>1, <1>2, <2>2, <2>3, <2>4 DEF TypeOK
<1>4. SettingsFollowTail' /\ LengthInv'
  <2>1. /\ tail' = Null /\ required' = {} /\ earlier' = NoTail /\ tailLen' = FALSE /\ fault' = fault
        /\ \A p \in Phys : caps'[p] = "null"
    BY DEF WalConfigAp
  <2>2. ~ fault'
    BY <2>1
  <2> QED
    BY <2>1, <2>2 DEF SettingsFollowTail, Contents, NoTail, LengthInv
<1>5. ClientKnows'
  BY <1>1 DEF WalConfigAp, ClientKnows
<1>6. ChannelIsConfigured'
  BY <1>1, <1>2 DEF WalConfigAp, ChannelIsConfigured
<1> QED
  BY <1>3, <1>4, <1>5, <1>6 DEF WifiApInv

\* What stays of the invariant when the settings do.
LEMMA SettingsStay ==
  ASSUME WifiApInv, UNCHANGED <<settings, fault, histories, chanSet>>
  PROVE  /\ SettingsFollowTail' /\ LengthInv'
         /\ tail' \in TailOrNull /\ chandef' \in Chandefs /\ {head, headLen, tailLen}' \subseteq BOOLEAN
         /\ (head' => headLen') /\ (tail' # Null => tailLen')
         /\ caps' \in [Phys -> {"null", "here", "gone"}] /\ required' \subseteq Phys
         /\ {fault, hadTail, starved, chanSet}' \subseteq BOOLEAN /\ earlier' \in Tails
<1>1. /\ chandef' = chandef /\ head' = head /\ tail' = tail /\ headLen' = headLen /\ tailLen' = tailLen
      /\ caps' = caps /\ required' = required /\ fault' = fault /\ chanSet' = chanSet
      /\ earlier' = earlier /\ hadTail' = hadTail /\ starved' = starved
  BY DEF settings, histories
<1>2. TypeOK /\ SettingsFollowTail /\ LengthInv
  BY DEF WifiApInv
<1>3. SettingsFollowTail' /\ LengthInv'
  BY <1>1, <1>2 DEF SettingsFollowTail, LengthInv
<1> QED
  BY <1>1, <1>2, <1>3 DEF TypeOK

LEMMA StopStep ==
  ASSUME WifiApInv, WalStopAp
  PROVE  WifiApInv'
<1>1. TypeOK /\ ClientKnows /\ ChannelIsConfigured
  BY DEF WifiApInv
<1>2. /\ UNCHANGED <<settings, fault, histories, chanSet>> /\ preset' = preset
      /\ start_ap_flag' = start_ap_flag /\ hidden' = hidden
      /\ (bss' = Null \/ bss' = bss) /\ client' = IF bss' = Null THEN Null ELSE client
  BY DEF WalStopAp, Stopped
<1>3. chandef' = chandef /\ chanSet' = chanSet
  BY <1>2 DEF settings
<1>4. TypeOK'
  BY <1>1, <1>2, SettingsStay DEF TypeOK
<1>5. ClientKnows' /\ ChannelIsConfigured'
  BY <1>1, <1>2, <1>3 DEF ClientKnows, ChannelIsConfigured
<1> QED
  BY <1>2, <1>4, <1>5, SettingsStay DEF WifiApInv

LEMMA StartStep ==
  ASSUME WifiApInv, WalStartAp
  PROVE  WifiApInv'
<1>1. TypeOK /\ ClientKnows /\ ChannelIsConfigured
  BY DEF WifiApInv
<1>2. PICK ok \in BOOLEAN, air \in Stopped :
        /\ StartAp(ok, air) /\ bss' = Started(ok, air, tail)
        /\ client' = (IF ok THEN OnAir(tail) ELSE Null) /\ hidden' = FALSE
        /\ UNCHANGED <<settings, fault, histories, chanSet>>
  BY DEF WalStartAp
<1>3. tail \in TailOrNull
  BY <1>1 DEF TypeOK
<1>4. /\ bss' \in Airs \cup {Null}
      /\ ok => bss' = OnAir(tail)
      /\ bss' # Null => bss'.chan = bss'.freq \/ bss'.freq \notin Known
      /\ start_ap_flag' \in BOOLEAN /\ preset' \in Chandefs
  BY <1>2, <1>3, AfterStart
<1>5. OnAir(tail) \in Airs
  BY <1>1, <1>3, OnAirTyped
<1>6. chandef' = chandef /\ chanSet' = chanSet
  BY <1>2 DEF settings
<1>7. TypeOK'
  <2>1. client' \in Airs \cup {Null} /\ hidden' \in BOOLEAN
    BY <1>2, <1>5
  <2> QED
    BY <1>2, <1>4, <2>1, SettingsStay DEF TypeOK
<1>8. ClientKnows' /\ ChannelIsConfigured'
  BY <1>1, <1>2, <1>4, <1>6 DEF ClientKnows, ChannelIsConfigured
<1> QED
  BY <1>2, <1>7, <1>8, SettingsStay DEF WifiApInv

\* The settings after a beacon was copied into them and its capabilities looked up.
LEMMA BeaconSettings ==
  ASSUME WifiApInv, ~ fault, NEW h \in BOOLEAN, NEW memory \in BOOLEAN, NEW t \in TailOrNull,
         WalInitBeacon(h, t, memory), CalculateApParams
  PROVE  /\ tail' \in TailOrNull /\ {head, headLen, tailLen}' \subseteq BOOLEAN
         /\ (head' => headLen') /\ (tail' # Null => tailLen')
         /\ caps' \in [Phys -> {"null", "here", "gone"}] /\ required' \subseteq Phys
         /\ {hadTail, starved}' \subseteq BOOLEAN /\ earlier' \in Tails
         /\ \A p \in Phys : /\ caps'[p] = "here" <=> p \in Contents(tail').cap
                            /\ caps'[p] = "gone" => p \in earlier'.cap
         /\ Contents(tail').need \subseteq required'
         /\ required' \subseteq Contents(tail').need \cup earlier'.need
         /\ tail' = Null /\ tailLen' => hadTail' \/ starved'
<1>1. TypeOK /\ SettingsFollowTail /\ LengthInv
  BY DEF WifiApInv
<1>2. /\ tail \in TailOrNull /\ {head, headLen, tailLen, hadTail, starved} \subseteq BOOLEAN
      /\ caps \in [Phys -> {"null", "here", "gone"}] /\ required \subseteq Phys /\ earlier \in Tails
  BY <1>1 DEF TypeOK
<1>3. /\ head' = (h /\ memory) /\ headLen' = (headLen \/ h)
      /\ tail' = (IF memory THEN t ELSE Null) /\ tailLen' = (tailLen \/ t # Null)
      /\ hadTail' = (hadTail \/ tail # Null) /\ starved' = (t # Null /\ ~ memory)
      /\ earlier' = [cap |-> earlier.cap \cup Contents(tail).cap,
                     need |-> earlier.need \cup Contents(tail).need]
  BY DEF WalInitBeacon
<1>4. tail' \in TailOrNull
  BY <1>3 DEF TailOrNull
<1>5. Contents(tail) \in Tails /\ Contents(tail') \in Tails
  BY <1>2, <1>4, ContentsTyped
<1>6. /\ earlier' \in Tails
      /\ earlier'.cap = earlier.cap \cup Contents(tail).cap
      /\ earlier'.need = earlier.need \cup Contents(tail).need
  BY <1>2, <1>3, <1>5 DEF Tails
<1>7. caps' \in [Phys -> {"null", "here", "gone"}]
  BY <1>2 DEF CalculateApParams
<1>8. ASSUME NEW p \in Phys
      PROVE  /\ caps'[p] = "here" <=> p \in Contents(tail').cap
             /\ caps'[p] = "gone" => p \in earlier'.cap
  <2>1. caps'[p] = IF p \in Contents(tail').cap THEN "here"
                   ELSE IF caps[p] = "here" THEN "gone" ELSE caps[p]
    BY DEF CalculateApParams
  <2>2. /\ caps[p] = "here" <=> p \in Contents(tail).cap
        /\ caps[p] = "gone" => p \in earlier.cap
    BY <1>1 DEF SettingsFollowTail
  <2> QED
    BY <2>1, <2>2, <1>6
<1>9. required' = required \cup Contents(tail').need
  BY DEF CalculateApParams
<1>10. /\ required' \subseteq Phys /\ Contents(tail').need \subseteq required'
       /\ required' \subseteq Contents(tail').need \cup earlier'.need
  <2>1. required \subseteq Contents(tail).need \cup earlier.need
    BY <1>1 DEF SettingsFollowTail
  <2>2. Contents(tail').need \subseteq Phys
    BY <1>5 DEF Tails
  <2> QED
    BY <1>2, <1>6, <1>9, <2>1, <2>2
<1>11. tail' = Null /\ tailLen' => hadTail' \/ starved'
  BY <1>1, <1>2, <1>3 DEF LengthInv
<1>12. {head, headLen, tailLen}' \subseteq BOOLEAN /\ (head' => headLen') /\ {hadTail, starved}' \subseteq BOOLEAN
  BY <1>2, <1>3
<1>13. tail' # Null => tailLen'
  BY <1>3
<1> QED
  BY <1>4, <1>6, <1>7, <1>8, <1>10, <1>11, <1>12, <1>13

LEMMA BeaconStep ==
  ASSUME WifiApInv, ~ fault, NEW h \in BOOLEAN, NEW memory \in BOOLEAN, NEW t \in TailOrNull,
         WalChangeBeacon(h, t, memory)
  PROVE  WifiApInv'
<1>1. TypeOK /\ ClientKnows /\ ChannelIsConfigured
  BY DEF WifiApInv
<1>2. /\ WalInitBeacon(h, t, memory) /\ CalculateApParams
      /\ chandef' = chandef /\ chanSet' = chanSet
  BY DEF WalChangeBeacon
<1>3. /\ tail' \in TailOrNull /\ {head, headLen, tailLen}' \subseteq BOOLEAN
      /\ (head' => headLen') /\ (tail' # Null => tailLen')
      /\ caps' \in [Phys -> {"null", "here", "gone"}] /\ required' \subseteq Phys
      /\ {hadTail, starved}' \subseteq BOOLEAN /\ earlier' \in Tails
      /\ \A p \in Phys : /\ caps'[p] = "here" <=> p \in Contents(tail').cap
                         /\ caps'[p] = "gone" => p \in earlier'.cap
      /\ Contents(tail').need \subseteq required'
      /\ required' \subseteq Contents(tail').need \cup earlier'.need
      /\ tail' = Null /\ tailLen' => hadTail' \/ starved'
  BY <1>2, BeaconSettings
<1>4. CASE tail' = Null /\ tailLen' /\ fault' = TRUE /\ UNCHANGED <<preset, start_ap_flag, bss, client, hidden>>
  <2>1. SettingsFollowTail' /\ LengthInv'
    BY <1>3, <1>4 DEF SettingsFollowTail, LengthInv
  <2>2. TypeOK'
    BY <1>1, <1>2, <1>3, <1>4 DEF TypeOK
  <2>3. ClientKnows' /\ ChannelIsConfigured'
    BY <1>1, <1>2, <1>4 DEF ClientKnows, ChannelIsConfigured
  <2> QED
    BY <2>1, <2>2, <2>3 DEF WifiApInv
<1>5. CASE /\ tail' # Null \/ ~ tailLen'
           /\ \E ok, changed \in BOOLEAN, air \in Stopped :
                /\ StartAp(ok, air)
                /\ bss' = LET now == Started(ok, air, t) IN
                          IF changed /\ now # Null THEN [now EXCEPT !.tail = t] ELSE now
                /\ client' = OnAir(t) /\ hidden' = ~ ok
           /\ UNCHANGED fault
  <2>1. PICK ok \in BOOLEAN, changed \in BOOLEAN, air \in Stopped :
          /\ StartAp(ok, air)
          /\ bss' = LET now == Started(ok, air, t) IN
                    IF changed /\ now # Null THEN [now EXCEPT !.tail = t] ELSE now
          /\ client' = OnAir(t) /\ hidden' = ~ ok
    BY <1>5
  <2> DEFINE now == Started(ok, air, t)
  <2>2. bss' = IF changed /\ now # Null THEN [now EXCEPT !.tail = t] ELSE now
    BY <2>1
  <2>3. /\ now \in Airs \cup {Null}
        /\ ok => now = OnAir(t)
        /\ now # Null => now.chan = now.freq \/ now.freq \notin Known
        /\ start_ap_flag' \in BOOLEAN /\ preset' \in Chandefs
    BY <2>1, AfterStart
  <2>4. OnAir(t) \in Airs /\ OnAir(t) # Null /\ OnAir(t).tail = t
    BY <1>1, OnAirTyped
  <2> HIDE DEF now
  <2>5. now # Null => /\ [now EXCEPT !.tail = t] \in Airs
                      /\ [now EXCEPT !.tail = t].freq = now.freq
                      /\ [now EXCEPT !.tail = t].chan = now.chan
    BY <2>3 DEF Airs
  <2>6. ok => [now EXCEPT !.tail = t] = OnAir(t)
    BY <2>3, <2>4 DEF Airs, OnAir
  <2>7. /\ bss' \in Airs \cup {Null} /\ (ok => bss' = OnAir(t))
        /\ bss' # Null => bss'.chan = bss'.freq \/ bss'.freq \notin Known
    <3>1. CASE changed /\ now # Null
      <4>1. bss' = [now EXCEPT !.tail = t]
        BY <2>2, <3>1
      <4> QED
        BY <4>1, <2>3, <2>5, <2>6, <3>1
    <3>2. CASE ~ (changed /\ now # Null)
      <4>1. bss' = now
        BY <2>2, <3>2
      <4> QED
        BY <4>1, <2>3
    <3> QED
      BY <3>1, <3>2
  <2>8. TypeOK'
    <3>1. hidden' \in BOOLEAN /\ client' \in Airs /\ fault' \in BOOLEAN /\ fault' = fault
      BY <1>1, <1>5, <2>1, <2>4 DEF TypeOK
    <3> QED
      BY <1>1, <1>2, <1>3, <2>3, <2>7, <3>1 DEF TypeOK
  <2>9. SettingsFollowTail' /\ LengthInv'
    <3>1. ~ fault'
      BY <1>5
    <3> QED
      BY <1>3, <1>5, <3>1 DEF SettingsFollowTail, LengthInv
  <2>10. ClientKnows' /\ ChannelIsConfigured'
    BY <1>1, <1>2, <2>1, <2>7 DEF ClientKnows, ChannelIsConfigured
  <2> QED
    BY <2>8, <2>9, <2>10 DEF WifiApInv
<1> QED
  BY <1>4, <1>5 DEF WalChangeBeacon

LEMMA StutterStep ==
  ASSUME WifiApInv, UNCHANGED vars
  PROVE  WifiApInv'
<1>1. UNCHANGED <<settings, fault, histories, chanSet>> /\ UNCHANGED <<preset, start_ap_flag, bss, client, hidden>>
  BY DEF vars
<1>2. chandef' = chandef /\ chanSet' = chanSet
  BY <1>1 DEF settings
<1>3. TypeOK /\ ClientKnows /\ ChannelIsConfigured
  BY DEF WifiApInv
<1>4. TypeOK'
  BY <1>1, <1>3, SettingsStay DEF TypeOK
<1>5. ClientKnows' /\ ChannelIsConfigured'
  BY <1>1, <1>2, <1>3 DEF ClientKnows, ChannelIsConfigured
<1> QED
  BY <1>1, <1>4, <1>5, SettingsStay DEF WifiApInv

LEMMA InvStep == WifiApInv /\ [Next]_vars => WifiApInv'
<1> SUFFICES ASSUME WifiApInv, [Next]_vars PROVE WifiApInv'
  OBVIOUS
<1>1. CASE Next
  BY <1>1, ConfigStep, StopStep, StartStep, BeaconStep DEF Next
<1>2. CASE UNCHANGED vars
  BY <1>2, StutterStep
<1> QED
  BY <1>1, <1>2

-----------------------------------------------------------------------------

\* The types of the access point's state hold in every behaviour.
THEOREM TypeCorrect == Spec => []TypeOK
<1>1. WifiApInv => TypeOK
  BY DEF WifiApInv
<1> QED
  BY InvInit, InvStep, <1>1, PTL DEF Spec

\* The capabilities and requirements that go to the driver are those of the tail that
\* goes with them, but for what earlier beacons of the same configuration left behind.
THEOREM SettingsAreTails == Spec => []SettingsFollowTail
<1>1. WifiApInv => SettingsFollowTail
  BY DEF WifiApInv
<1> QED
  BY InvInit, InvStep, <1>1, PTL DEF Spec

\* The client is told the truth about what is on the air, unless ChangeBeacon hid a
\* failed start from it.
THEOREM ClientIsTold == Spec => []ClientKnows
<1>1. WifiApInv => ClientKnows
  BY DEF WifiApInv
<1> QED
  BY InvInit, InvStep, <1>1, PTL DEF Spec

\* The channel is at the configured centre frequency, unless there is none there.
THEOREM ChannelKept == Spec => []ChannelIsConfigured
<1>1. WifiApInv => ChannelIsConfigured
  BY DEF WifiApInv
<1> QED
  BY InvInit, InvStep, <1>1, PTL DEF Spec

\* The access point starts as it was configured, but for what earlier settings left.
THEOREM ApStartsAsConfigured == Spec => []StartsAsConfigured
  BY SettingsAreTails, ChannelKept, PTL DEF StartsAsConfigured

-----------------------------------------------------------------------------
(* The net device.                                                         *)

\* Nothing is opened before an initialisation, and the private object is missing only after
\* a later one had no memory for it.
PrivateInv ==
  /\ inits \in Nat /\ wiphy \in BOOLEAN
  /\ wiphy \/ mlPriv.held => inits >= 1
  /\ (wiphy \/ told = "up") /\ ~ mlPriv.held => inits > 1

NetInv == PrivateInv /\ NetDeviceExplained

LEMMA NetInitInv == NetInit => NetInv
<1> SUFFICES ASSUME NetInit PROVE NetInv
  OBVIOUS
<1>1. inits = 0 /\ wiphy = FALSE /\ mlPriv.held = FALSE /\ told = "down"
  BY DEF NetInit
<1>2. up = FALSE /\ macAddr = "unknown" /\ iftype = mode
  BY DEF NetInit
<1> QED
  BY <1>1, <1>2 DEF NetInv, PrivateInv, NetDeviceExplained, InterfaceExplained, DeviceExplained

\* What an open leaves, whatever came of the stop before it.
LEMMA OpenStep ==
  ASSUME NEW stops \in BOOLEAN, NEW opens \in BOOLEAN, NEW said \in BOOLEAN,
         NetdevOpen(stops, opens, said), opens => said
  PROVE  /\ told' = "up" /\ ~ up' => "open" \in unsaid'
         /\ told' = "down" /\ up' => "stop" \in unsaid'
         /\ macAddr' = mac'
         /\ told' = "up" => said
  BY DEF NetdevOpen

LEMMA NetStep == NetInv /\ [NetNext]_netVars => NetInv'
<1> SUFFICES ASSUME NetInv, [NetNext]_netVars PROVE NetInv'
  OBVIOUS
<1> USE DEF NetInv, NetDeviceExplained
<1> DEFINE Typed == iftype # mode => unchanged /\ iftype = AP
<1>0. Typed /\ PrivateInv /\ InterfaceExplained
  BY DEF DeviceExplained
<1>1. ASSUME NEW platform \in BOOLEAN, NEW memory \in BOOLEAN, NEW dhd \in BOOLEAN,
             BDH6Init(platform, memory, dhd)
      PROVE  NetInv'
  <2>1. inits' = inits + 1 /\ UNCHANGED kind
    BY <1>1 DEF BDH6Init
  <2>2. CASE platform /\ memory
    <3>1. PICK stops \in BOOLEAN, opens \in {FALSE, wiphy'} : NetdevOpen(stops, opens, TRUE)
      BY <1>1, <2>2 DEF BDH6Init
    <3>2. mlPriv'.held = TRUE /\ wiphy' = (wiphy \/ dhd)
      BY <1>1, <2>2 DEF BDH6Init
    <3>3. opens \in BOOLEAN
      BY <3>2
    <3>4. InterfaceExplained' /\ macAddr' = mac'
      BY <3>1, <3>3, OpenStep DEF InterfaceExplained
    <3>5. PrivateInv'
      BY <1>0, <2>1, <3>2 DEF PrivateInv
    <3> QED
      BY <1>0, <2>1, <3>2, <3>4, <3>5 DEF DeviceExplained, kind
  <2>3. CASE ~ (platform /\ memory)
    <3>1. told' = "down" /\ unsaid' = unsaid \cup {"init"} /\ UNCHANGED <<wiphy, up, address>>
      BY <1>1, <2>3 DEF BDH6Init
    <3>2. PrivateInv'
      <4>1. mlPriv' = mlPriv \/ mlPriv'.held = FALSE
        BY <1>1, <2>3 DEF BDH6Init
      <4> QED
        BY <1>0, <2>1, <3>1, <4>1 DEF PrivateInv
    <3> QED
      BY <1>0, <2>1, <3>1, <3>2 DEF InterfaceExplained, DeviceExplained, address, kind
  <2> QED
    BY <2>2, <2>3
<1>2. CASE NetOpen
  <2>1. PICK stops \in BOOLEAN, opens \in {FALSE, wiphy} : Open(stops, opens)
    BY <1>2 DEF NetOpen
  <2>2. opens \in BOOLEAN /\ (opens => wiphy) /\ UNCHANGED <<device, kind>>
    <3>1. UNCHANGED <<device, kind>>
      BY <1>2 DEF NetOpen
    <3>2. wiphy \in BOOLEAN
      BY <1>0 DEF PrivateInv
    <3>3. opens = FALSE \/ opens = wiphy
      BY <2>1
    <3>4. CASE opens = FALSE
      BY <3>1, <3>4
    <3>5. CASE opens = wiphy
      BY <3>1, <3>2, <3>5
    <3> QED
      BY <3>3, <3>4, <3>5
  <2>3. InterfaceExplained' /\ macAddr' = mac' /\ (told' = "up" => opens)
    BY <2>1, <2>2, OpenStep DEF Open, InterfaceExplained
  <2>4. PrivateInv'
    BY <1>0, <2>2, <2>3 DEF PrivateInv, device
  <2> QED
    BY <1>0, <2>2, <2>3, <2>4 DEF DeviceExplained, PrivateInv, kind
<1>3. ASSUME NEW stops \in BOOLEAN, NEW deinit \in BOOLEAN, NetStop(stops, deinit)
      PROVE  NetInv'
  <2>1. UNCHANGED <<device, address, kind>> /\ (told' = "up" => told = "up")
    BY <1>3 DEF NetStop
  <2>2. InterfaceExplained'
    BY <1>0, <1>3 DEF NetStop, InterfaceExplained
  <2> QED
    BY <1>0, <2>1, <2>2 DEF PrivateInv, DeviceExplained, device, address, kind
<1>4. ASSUME NEW m \in Macs, SetMacAddr(m) PROVE NetInv'
  BY <1>4 DEF SetMacAddr, PrivateInv, InterfaceExplained, DeviceExplained, device, interface, kind
<1>5. ASSUME NEW m \in Modes, SetMode(m) PROVE NetInv'
  BY <1>5 DEF SetMode, PrivateInv, InterfaceExplained, DeviceExplained, device, interface, address
<1>6. ASSUME NEW ok \in BOOLEAN, ConfigApMode(ok) PROVE NetInv'
  BY <1>6 DEF ConfigApMode, PrivateInv, InterfaceExplained, DeviceExplained, device, interface, address
<1>7. CASE RegDriverFactory \/ BuildBDH6Driver \/ ReleaseBDH6Driver
  BY <1>7 DEF RegDriverFactory, BuildBDH6Driver, ReleaseBDH6Driver, PrivateInv, InterfaceExplained,
              DeviceExplained, interface, address, kind
<1>8. CASE UNCHANGED netVars
  BY <1>8 DEF netVars, PrivateInv, InterfaceExplained, DeviceExplained
<1> QED
  BY <1>1, <1>2, <1>3, <1>4, <1>5, <1>6, <1>7, <1>8 DEF NetNext

\* Whatever the driver refuses and whenever there is no memory, what the client and the
\* framework believe of the net device is so, but for refusals that are not passed on.
THEOREM NetDeviceIsExplained == NetSpec => []NetDeviceExplained
<1>1. NetInv => NetDeviceExplained
  BY DEF NetInv
<1> QED
  BY <1>1, NetInitInv, NetStep, PTL DEF NetSpec

-----------------------------------------------------------------------------
(* The station (WifiSta).                                                  *)

BandsInv == bands \in {<<TwoG, FiveG>>, <<TwoG, Absent>>}

\* What was done with the net device before the driver gave it its wiphy.
WithoutWiphy ==
  /\ registered \in BOOLEAN
  /\ ~ registered => ~ wireless /\ link = Absent /\ given["request"] = 0
  /\ faulted => ~ registered

StaInv ==
  /\ BandsInv /\ ScansLastBand
  /\ heap \in [Pieces -> Nat] /\ heap = given
  /\ capability # "whole" /\ probed \in [whole : Nat, lost : Nat] /\ probed.whole = probed.lost
  /\ WithoutWiphy

LEMMA BandsAre ==
  ASSUME BandsInv
  PROVE  /\ bands[1] = TwoG /\ bands[2] \in {FiveG, Absent} /\ Present \subseteq Channels
         /\ bands[2] # Absent => bands[2] = FiveG
         /\ ChannelTotal \in Nat
<1>1. bands[1] = TwoG /\ bands[2] \in {FiveG, Absent}
  BY DEF BandsInv
<1>2. \A b \in {bands[1], bands[2]} : ChannelsOf(b) \subseteq Channels
  BY <1>1 DEF ChannelsOf, Channels
<1>3. \A b \in {bands[1], bands[2]} : Cardinality(ChannelsOf(b)) \in Nat
  BY <1>2, WifiStaAssumption, FS_Subset, FS_CardinalityType
<1>4. ChannelTotal \in Nat
  BY <1>3 DEF ChannelTotal
<1> QED
  BY <1>1, <1>2, <1>4 DEF Present

\* What is scanned is among what was named, and is all of it if the array has room.
LEMMA NamedAreScanned ==
  ASSUME BandsInv, NEW freqs \in Asked, freqs # <<>>
  PROVE  /\ WifiScanSetChannel(freqs) \subseteq ToSet(freqs) \cap Present
         /\ Len(freqs) <= ChannelTotal => WifiScanSetChannel(freqs) = ToSet(freqs) \cap Present
<1> DEFINE room(j) == Cardinality(KnownUpTo(freqs, j - 1)) < ChannelTotal
<1>1. freqs \in Seq(Channels \cup {Unknown}) /\ Len(freqs) \in Nat /\ DOMAIN freqs = 1 .. Len(freqs)
  BY WifiStaAssumption
<1>2. WifiScanSetChannel(freqs) = {freqs[i] : i \in {j \in KnownUpTo(freqs, Len(freqs)) : room(j)}}
  BY DEF WifiScanSetChannel
<1>3. ToSet(freqs) = {freqs[i] : i \in 1 .. Len(freqs)}
  BY <1>1 DEF ToSet
<1>4. ASSUME NEW j \in 1 .. Len(freqs), Len(freqs) <= ChannelTotal PROVE room(j)
  <2>1. j - 1 \in Nat /\ 0 \in Int /\ j - 1 \in Int
    BY <1>1
  <2>2. IsFiniteSet(1 .. j - 1) /\ Cardinality(1 .. j - 1) = j - 1
    BY <2>1, FS_Interval
  <2>3. Cardinality(KnownUpTo(freqs, j - 1)) \in Nat /\ Cardinality(KnownUpTo(freqs, j - 1)) <= j - 1
    BY <2>2, FS_Subset, FS_CardinalityType DEF KnownUpTo
  <2> QED
    BY <1>1, <1>4, <2>1, <2>3, BandsAre
<1> HIDE DEF room
<1>5. \A i \in KnownUpTo(freqs, Len(freqs)) : i \in 1 .. Len(freqs) /\ freqs[i] \in Present
  BY DEF KnownUpTo
<1>6. ASSUME NEW c \in ToSet(freqs) \cap Present, Len(freqs) <= ChannelTotal PROVE c \in WifiScanSetChannel(freqs)
  <2>1. PICK i \in 1 .. Len(freqs) : freqs[i] = c
    BY <1>3
  <2>2. i \in KnownUpTo(freqs, Len(freqs)) /\ room(i)
    BY <1>4, <1>6, <2>1 DEF KnownUpTo
  <2> QED
    BY <1>2, <2>1, <2>2
<1>7. WifiScanSetChannel(freqs) \subseteq ToSet(freqs) \cap Present
  BY <1>2, <1>3, <1>5
<1> QED
  BY <1>6, <1>7

LEMMA BandIsScanned ==
  ASSUME BandsInv
  PROVE  WifiScanSetChannel(<<>>) = (Channels \ disabled) \cap (IF bands[2] = Absent THEN bands[1] ELSE bands[2])
  BY BandsAre DEF WifiScanSetChannel, FillScanChannel, Enabled, Channels

LEMMA ScanStep ==
  ASSUME StaInv, NEW p \in Params, NEW m \in Pieces \cup {"nothing"}, NEW a \in BOOLEAN, HdfStartScan(p, m, a)
  PROVE  StaInv'
<1> DEFINE parts == Allocated(p, m)
           taken == "done" \in parts /\ a /\ registered
<1>1. p.freqs \in Asked
  BY DEF Params
<1>2. UNCHANGED <<bands, capability, probed>> /\ UNCHANGED <<registered, wireless, link>> /\ (faulted' => ~ registered)
  BY DEF HdfStartScan, StaInv, WithoutWiphy
<1>3. \A S : Add(heap, S) = Add(given, S) /\ Add(heap, S) \in [Pieces -> Nat]
  BY DEF StaInv, Add
<1>4. CASE taken
  <2>1. /\ heap' = Add(heap, parts) /\ given' = Add(given, parts) /\ scan' = WifiScanSetChannel(p.freqs)
        /\ asked' = [freqs |-> p.freqs, enabled |-> Channels \ disabled]
    BY <1>4 DEF HdfStartScan
  <2>2. WifiScanSetChannel(p.freqs) # {}
    <3>1. "done" \notin {"request"} /\ "done" \notin {"request"} \cup {"ssids"}
      OBVIOUS
    <3> QED
      BY <1>4, <3>1 DEF Allocated
  <2> HIDE DEF parts, taken
  <2>3. ScansLastBand'
    <3>1. asked'.freqs = p.freqs /\ asked'.enabled = Channels \ disabled
      BY <2>1
    <3>2. Present' = Present /\ ChannelTotal' = ChannelTotal
      BY <1>2 DEF Present, ChannelTotal
    <3>3. CASE p.freqs = <<>>
      BY <1>2, <2>1, <2>2, <3>1, <3>3, BandIsScanned DEF StaInv, ScansLastBand
    <3>4. CASE p.freqs # <<>>
      BY <1>1, <2>1, <2>2, <3>1, <3>2, <3>4, NamedAreScanned DEF StaInv, ScansLastBand
    <3> QED
      BY <3>3, <3>4
  <2>4. registered
    BY <1>4 DEF taken
  <2> QED
    BY <1>2, <1>3, <2>1, <2>3, <2>4 DEF StaInv, BandsInv, WithoutWiphy
<1>5. CASE ~ taken
  <2>1. heap' \in {heap, Add(heap, {})} /\ UNCHANGED <<given, scan, asked>>
    BY <1>5 DEF HdfStartScan, WifiScanFree
  <2>2. Add(heap, {}) = heap
    BY DEF Add, StaInv
  <2> QED
    BY <1>2, <2>1, <2>2 DEF StaInv, BandsInv, ScansLastBand, Present, ChannelTotal, WithoutWiphy
<1> QED
  BY <1>4, <1>5

LEMMA StaStep == StaInv /\ [StaNext]_staVars => StaInv'
<1> SUFFICES ASSUME StaInv, [StaNext]_staVars PROVE StaInv'
  OBVIOUS
<1>1. CASE UNCHANGED <<bands, scan, asked, heap, given, capability, probed>> /\ WithoutWiphy'
  BY <1>1 DEF StaInv, BandsInv, ScansLastBand, Present, ChannelTotal
<1>2. CASE HdfScanEventCallback
  BY <1>2 DEF HdfScanEventCallback, StaInv, BandsInv, ScansLastBand, WithoutWiphy
<1>3. ASSUME NEW early \in BOOLEAN, NEW memory \in BOOLEAN, GetHwCapability(early, memory) PROVE StaInv'
  <2>1. UNCHANGED <<bands, scan, asked, heap, given>> /\ WithoutWiphy'
    BY <1>3 DEF GetHwCapability, StaInv, WithoutWiphy
  <2>2. capability' \in {"refused", "freed"}
    BY <1>3 DEF GetHwCapability, TakenForFailure, GetSupportRate
  <2>3. \/ probed' = probed
        \/ probed' = [probed EXCEPT !.whole = @ + 1, !.lost = @ + 1]
    BY <1>3 DEF GetHwCapability, TakenForFailure, GetSupportRate
  <2>4. probed' \in [whole : Nat, lost : Nat] /\ probed'.whole = probed'.lost
    <3>1. probed \in [whole : Nat, lost : Nat] /\ probed.whole = probed.lost
      BY DEF StaInv
    <3>2. CASE probed' = [probed EXCEPT !.whole = @ + 1, !.lost = @ + 1]
      <4>1. probed.whole \in Nat /\ probed.lost \in Nat
        BY <3>1
      <4>2. probed' = [whole |-> probed.whole + 1, lost |-> probed.lost + 1]
        BY <3>1, <3>2
      <4> QED
        BY <3>1, <4>1, <4>2
    <3> QED
      BY <2>3, <3>1, <3>2
  <2> QED
    BY <2>1, <2>2, <2>4 DEF StaInv, BandsInv, ScansLastBand, Present, ChannelTotal
<1>4. ASSUME faulted => UNCHANGED staVars,
             \/ Registers \/ hdf_bdh6_netdev_open \/ Regulate \/ \E f \in Channels \cup {"any", Unknown} : HdfConnect(f)
             \/ HdfDisconnect \/ UNCHANGED staVars
      PROVE  UNCHANGED <<bands, scan, asked, heap, given, capability, probed>> /\ WithoutWiphy'
  <2>1. UNCHANGED <<bands, scan, asked, heap, given, capability, probed>> /\ UNCHANGED faulted
    BY <1>4 DEF Registers, hdf_bdh6_netdev_open, Regulate, HdfConnect, HdfDisconnect, staVars
  <2>2. /\ registered' = registered \/ registered' = TRUE
        /\ wireless' = wireless \/ wireless' = registered
        /\ link' = link \/ link' = Absent \/ registered
    BY <1>4 DEF Registers, hdf_bdh6_netdev_open, Regulate, HdfConnect, HdfDisconnect, staVars
  <2>3. faulted => ~ registered'
    BY <1>4 DEF StaInv, WithoutWiphy, Registers, hdf_bdh6_netdev_open, Regulate, HdfConnect, HdfDisconnect, staVars
  <2>4. ASSUME ~ registered' PROVE ~ wireless' /\ link' = Absent /\ given'["request"] = 0
    <3>1. ~ registered
      BY <2>2, <2>4
    <3>2. ~ wireless /\ link = Absent /\ given["request"] = 0
      BY <3>1 DEF StaInv, WithoutWiphy
    <3> QED
      BY <2>1, <2>2, <3>1, <3>2
  <2>5. registered' \in BOOLEAN
    BY <2>2 DEF StaInv, WithoutWiphy
  <2> QED
    BY <2>1, <2>3, <2>4, <2>5 DEF WithoutWiphy
<1> QED
  BY <1>1, <1>2, <1>3, <1>4, ScanStep DEF StaNext

\* What a station gets for its requests (hdf_mac80211_sta.c, hdf_bdh_mac80211.c), for any
\* channels and any lists of frequencies: a scan of one band or of what it named, no loss of
\* memory, capabilities it cannot use, and a fault only for a scan of a net device that never
\* had a wiphy.
THEOREM StationIsExplained == StaSpec => []StationExplained
<1>1. StaInit => StaInv
  <2> SUFFICES ASSUME StaInit PROVE StaInv
    OBVIOUS
  <2>1. given["request"] = 0 /\ heap \in [Pieces -> Nat]
    BY DEF StaInit, Pieces
  <2> QED
    BY <2>1 DEF StaInit, StaInv, BandsInv, ScansLastBand, WithoutWiphy
<1>2. StaInv => StationExplained
  BY DEF StaInv, StationExplained, OnlyTheDriverKeeps, CapabilityIsDangling, OnlyEarlyScansFault, WithoutWiphy
<1> QED
  BY <1>1, <1>2, StaStep, PTL DEF StaSpec

-----------------------------------------------------------------------------
(* The calls that are passed on (WifiCalls).                               *)

CallsInv ==
  /\ RepliesExplained
  /\ stations \in Nat /\ (~ unheard => known = stations)
  /\ frames \in [taken : Nat, freed : Nat, queued : Nat] /\ frames.taken = frames.freed + frames.queued

\* A list that is said to be there is whole, and in the array unless its header was not.
LEMMA TextIs ==
  ASSUME NEW room \in Nat, NEW n \in Nat, Text(room, n) >= 0
  PROVE  LET whole == HeaderLength + n * EntryLength
         IN \/ Text(room, n) = whole /\ Text(room, n) < room
            \/ Text(room, n) = whole - HeaderLength - 1 /\ Text(room, n) > 0
<1> DEFINE some == n * EntryLength
           header == IF HeaderLength < room THEN HeaderLength ELSE -1
<1>1. some \in Nat /\ HeaderLength \in Nat /\ EntryLength \in Nat /\ EntryLength > 1
  BY WifiCallsAssumption
<1>2. n > 0 => some > 1
  BY <1>1
<1>3. n = 0 => some = 0
  BY <1>1
<1>4. Text(room, n) = IF n = 0 \/ header + some < room THEN header + some ELSE -1
  BY DEF Text
<1> HIDE DEF some
<1>5. \/ Text(room, n) = HeaderLength + some /\ Text(room, n) < room
      \/ Text(room, n) = (HeaderLength + some) - HeaderLength - 1 /\ Text(room, n) > 0
  <2>1. CASE HeaderLength < room
    <3>1. header = HeaderLength
      BY <2>1
    <3> HIDE DEF header
    <3> QED
      BY <1>1, <1>2, <1>3, <1>4, <2>1, <3>1
  <2>2. CASE ~ (HeaderLength < room)
    <3>1. header = -1
      BY <2>2
    <3> HIDE DEF header
    <3> QED
      BY <1>1, <1>2, <1>3, <1>4, <2>2, <3>1
  <2> QED
    BY <2>1, <2>2
<1> QED
  BY <1>5 DEF some

\* The channels of the standard and their centres.
LEMMA CentresAre ==
  ASSUME NEW rule \in Domains
  PROVE  ValidFreqs(rule) = {f \in rule[1]..rule[2] : f = 2484 \/ (f \in 2412..2472 /\ f % 5 = 2)}
<1>1. rule[1] \in Nat /\ rule[2] \in Nat
  BY WifiCallsAssumption
<1>2. ASSUME NEW c \in 1 .. 14
      PROVE  Centre(c) \in Nat /\ (Centre(c) = 2484 \/ (Centre(c) \in 2412..2472 /\ Centre(c) % 5 = 2))
  BY DEF Centre
<1>3. ASSUME NEW f \in 2412..2472, f % 5 = 2 PROVE \E c \in 1 .. 14 : Centre(c) = f
  <2> DEFINE k == (f - 2407) \div 5
  <2>1. f = 2407 + 5 * k /\ k \in 1 .. 13
    BY <1>3
  <2>2. Centre(k) = 2412 + (k - 1) * 5
    BY <2>1 DEF Centre
  <2> QED
    BY <2>1, <2>2
<1>4. Centre(14) = 2484
  BY DEF Centre
<1>5. ASSUME NEW f \in ValidFreqs(rule)
      PROVE  f \in rule[1]..rule[2] /\ (f = 2484 \/ (f \in 2412..2472 /\ f % 5 = 2))
  <2>1. PICK c \in 1 .. 14 : f = Centre(c) /\ Centre(c) >= rule[1] /\ Centre(c) <= rule[2]
    BY <1>5 DEF ValidFreqs
  <2> QED
    BY <1>1, <1>2, <2>1
<1>6. ASSUME NEW f \in rule[1]..rule[2], f = 2484 \/ (f \in 2412..2472 /\ f % 5 = 2)
      PROVE  f \in ValidFreqs(rule)
  <2>1. PICK c \in 1 .. 14 : Centre(c) = f
    BY <1>3, <1>4, <1>6
  <2> QED
    BY <1>1, <2>1 DEF ValidFreqs
<1> QED
  BY <1>5, <1>6

LEMMA CallsStep == CallsInv /\ [CallsNext]_callVars => CallsInv'
<1> SUFFICES ASSUME CallsInv, [CallsNext]_callVars PROVE CallsInv'
  OBVIOUS
<1>1. CASE UNCHANGED callVars
  BY <1>1 DEF callVars, CallsInv, RepliesExplained
<1>2. ASSUME NEW op \in KeyOps \cup StationOps \cup ScanOps \cup FrameOps \cup QueryOps \cup Ignored
                         \cup NotSupported \cup {"getIftype"},
             NEW accepts \in BOOLEAN, PassOn(op, accepts)
      PROVE  CallsInv'
  <2> DEFINE did == accepts /\ Reached(op)
  <2>1. answer' = Answer(op, Says(op, did), did) /\ UNCHANGED <<stations, known, frames, unheard>>
    BY <1>2 DEF PassOn
  <2>2. op \notin {"stasCount", "stasInfo"}
    BY DEF KeyOps, StationOps, ScanOps, FrameOps, QueryOps, Ignored, NotSupported
  <2>3. answer'.op = op /\ answer'.said = Says(op, did) /\ answer'.did = did
    BY <2>1 DEF Answer
  <2>4. Says(op, did) /\ ~ did => op \in Ignored \cup {"txPower", "abortScan", "getIftype", "getDeviceMacAddr"}
    BY DEF Says
  <2> HIDE DEF did
  <2> QED
    BY <2>1, <2>2, <2>3, <2>4 DEF CallsInv, RepliesExplained
<1>3. ASSUME NEW room \in Rooms, GetDeviceMacAddr(room) PROVE CallsInv'
  BY <1>3 DEF GetDeviceMacAddr, Answer, CallsInv, RepliesExplained
<1>4. ASSUME NEW accepts \in BOOLEAN, GetAssociatedStasCount(accepts) PROVE CallsInv'
  BY <1>4 DEF GetAssociatedStasCount, Count, Answer, CallsInv, RepliesExplained
<1>5. ASSUME NEW room \in Rooms, NEW accepts \in BOOLEAN, GetAssociatedStasInfo(room, accepts) PROVE CallsInv'
  <2> DEFINE text == IF linux # "neither" /\ accepts THEN Text(room, stations) ELSE -1
  <2>1. /\ answer'.op = "stasInfo" /\ (answer'.said <=> text >= 0) /\ answer'.told = text
        /\ (answer'.did <=> linux # "neither" /\ accepts)
        /\ answer'.true = HeaderLength + stations * EntryLength /\ answer'.room = room
        /\ UNCHANGED <<stations, known, frames, unheard>>
    BY <1>5 DEF GetAssociatedStasInfo
  <2>2. text >= 0 => linux # "neither" /\ accepts /\ text = Text(room, stations)
    OBVIOUS
  <2>3. room \in Nat /\ stations \in Nat
    BY WifiCallsAssumption DEF CallsInv
  <2> HIDE DEF text
  <2>4. text >= 0 => \/ text = answer'.true /\ text < room
                     \/ text = answer'.true - HeaderLength - 1 /\ text > 0
    BY <2>1, <2>2, <2>3, TextIs
  <2> QED
    BY <2>1, <2>2, <2>4 DEF CallsInv, RepliesExplained
<1>6. ASSUME NEW n \in 0 .. MaxStations, NEW taken \in BOOLEAN, StationChanges(n, taken) PROVE CallsInv'
  <2>1. /\ stations' = n /\ known' = (IF taken THEN known + n - stations ELSE known)
        /\ answer' = Answer(IF n > stations THEN "newSta" ELSE "delSta", taken, taken)
        /\ unheard' = (unheard \/ ~ taken) /\ frames' = frames
    BY <1>6 DEF StationChanges
  <2>2. n \in Nat /\ stations \in Nat
    BY WifiCallsAssumption DEF CallsInv
  <2>3. ~ unheard' => known' = n
    <3>1. ~ unheard' => taken /\ known = stations
      BY <2>1 DEF CallsInv
    <3> QED
      BY <2>1, <2>2, <3>1
  <2>4. answer'.op \in {"newSta", "delSta"} /\ answer'.said = taken /\ answer'.did = taken
    BY <2>1 DEF Answer
  <2> QED
    BY <2>1, <2>2, <2>3, <2>4 DEF CallsInv, RepliesExplained
<1>7. ASSUME NEW op \in {"disconnected", "bssFrame"}, NEW whole \in BOOLEAN, NEW taken \in BOOLEAN,
             Event(op, whole, taken)
      PROVE  CallsInv'
  BY <1>7 DEF Event, Answer, CallsInv, RepliesExplained
<1>8. ASSUME NEW eapol \in BOOLEAN, NEW handler \in BOOLEAN, NEW accepts \in BOOLEAN,
             SpecialEtherTypeProcess(eapol, handler, accepts)
      PROVE  CallsInv'
  <2>1. Disposed(eapol, handler, accepts) \in {"queued", "freed"}
    BY DEF Disposed
  <2>2. UNCHANGED <<stations, known, answer, unheard>>
        /\ \/ frames' = [taken |-> frames.taken + 1, freed |-> frames.freed + 1, queued |-> frames.queued + 0]
           \/ frames' = [taken |-> frames.taken + 1, freed |-> frames.freed + 0, queued |-> frames.queued + 1]
    BY <1>8, <2>1 DEF SpecialEtherTypeProcess
  <2>3. frames' \in [taken : Nat, freed : Nat, queued : Nat] /\ frames'.taken = frames'.freed + frames'.queued
    BY <2>2 DEF CallsInv
  <2> QED
    BY <2>2, <2>3 DEF CallsInv, RepliesExplained
<1> QED
  BY <1>1, <1>2, <1>3, <1>4, <1>5, <1>6, <1>7, <1>8 DEF CallsNext

\* What the calls that are passed on to the driver come to, for any number of stations, any
\* arrays and any regulatory domain.
THEOREM AnswersAreExplained == CallsSpec => []AnswersExplained
<1>1. CallsInit => CallsInv
  BY DEF CallsInit, CallsInv, RepliesExplained, Answer
<1>2. CallsInv => AnswersExplained
  BY CentresAre DEF CallsInv, AnswersExplained
<1> QED
  BY <1>1, <1>2, CallsStep, PTL DEF CallsSpec
=============================================================================
