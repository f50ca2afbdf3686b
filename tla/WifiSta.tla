------------------------------- MODULE WifiSta -------------------------------
(***************************************************************************)
(* The station side of the WiFi driver's adapter: bringing the interface   *)
(* up (hdfinit_bdh.c, net_bdh_adpater.c), a scan with the request that is  *)
(* built for it (hdf_mac80211_sta.c), connecting, and the capabilities the *)
(* client asks for (hdf_bdh_mac80211.c).                                   *)
(*                                                                         *)
(* A client calls one operation at a time.  The driver below, the kernel's *)
(* memory and the regulatory domain (external) fail or change at will.     *)
(* A kernel that a call makes fault takes no further one.                  *)
(***************************************************************************)
EXTENDS Naturals, Sequences, FiniteSets, SequencesExt

CONSTANTS
  TwoG, FiveG,  \* the channels of the two bands of a wiphy
  Unknown,      \* a frequency of no channel
  Absent,       \* the null pointer of a band the wiphy does not have
  Asked,        \* the lists of frequencies that a client asks for, each known by its channel
  MaxScans,     \* bound: requests the driver takes
  MaxProbes,    \* bound: capabilities built
  MaxChanges    \* bound: changes of the regulatory domain

VARIABLES
  bands,        \* wiphy->bands: 2.4 and 5 GHz
  disabled,     \* channels with WIFI_CHAN_DISABLED
  registered,   \* the driver gave the net device of the kernel its ieee80211_ptr
  wireless,     \* the framework's copy of that pointer, netDev->ieee80211Ptr, is set
  faulted,      \* a null wiphy was followed
  scan,         \* the channels the driver scans, or Absent
  link,         \* the channel the driver was told to connect at, "any", or Absent
  heap,         \* pieces of memory that are allocated, by kind
  capability,   \* what the client's call for the capability came to
  given,        \* history: pieces the driver took with a request it accepted
  asked,        \* history: what the scan was asked for, and the channels enabled then
  probed,       \* history: capabilities built whole, and those of them that were lost
  changes       \* history: changes of the regulatory domain

staVars == <<bands, disabled, registered, wireless, faulted, scan, link, heap, capability, given,
             asked, probed, changes>>

Channels == TwoG \cup FiveG
Pieces == {"request", "ssids", "ie"}
Enabled(band) == band \ disabled
ChannelsOf(band) == IF band = Absent THEN {} ELSE band
Present == ChannelsOf(bands[1]) \cup ChannelsOf(bands[2])
\* ieee80211_get_num_supported_channels
ChannelTotal == Cardinality(ChannelsOf(bands[1])) + Cardinality(ChannelsOf(bands[2]))

ASSUME WifiStaAssumption ==
  /\ IsFiniteSet(Channels) /\ TwoG \cap FiveG = {} /\ Unknown \notin Channels
  /\ Asked \subseteq Seq(Channels \cup {Unknown})
  /\ {MaxScans, MaxProbes, MaxChanges} \subseteq Nat

StaInit ==
  /\ bands \in {<<TwoG, FiveG>>, <<TwoG, Absent>>} /\ disabled = {}
  /\ registered = FALSE /\ wireless = FALSE /\ faulted = FALSE /\ scan = Absent /\ link = Absent
  /\ heap = [p \in Pieces |-> 0] /\ capability = "none"
  /\ given = [p \in Pieces |-> 0] /\ asked = Absent
  /\ probed = [whole |-> 0, lost |-> 0] /\ changes = 0

-----------------------------------------------------------------------------
(* The interface.                                                          *)

\* The driver below has found its chip (external).  It does not take its pointer back.
Registers ==
  /\ ~ registered /\ registered' = TRUE
  /\ UNCHANGED <<bands, disabled, wireless, faulted, scan, link, heap, capability, given, asked, probed, changes>>

\* What the operations of WifiNet come to here: every open, BDH6Init's among them, copies
\* the pointer, and neither a stop nor BDH6Deinit takes it away.
hdf_bdh6_netdev_open ==
  /\ wireless' = registered
  /\ UNCHANGED <<bands, disabled, registered, faulted, scan, link, heap, capability, given, asked, probed, changes>>

\* The regulatory domain of the wiphy changes (external).
Regulate ==
  /\ changes < MaxChanges /\ changes' = changes + 1
  /\ disabled' \in SUBSET Channels
  /\ UNCHANGED <<bands, registered, wireless, faulted, scan, link, heap, capability, given, asked, probed>>

-----------------------------------------------------------------------------
(* Scanning.                                                               *)

\* The channels that the request counts, in an array that held those in filled: a band is
\* written from the start of the array, and the count is its own.
FillScanChannel_Disabled(band, filled) == band

FillScanChannel(band, filled) == Enabled(band)

\* The places of freqs up to the i-th that name a channel.
KnownUpTo(freqs, i) == {j \in 1 .. i : freqs[j] \in Present}

\* For no frequencies what each band in turn fills in; else those that are a channel, as
\* many as the array has room for, which is made for the channels there are.
WifiScanSetChannel(freqs) ==
  IF freqs = <<>>
  THEN LET first == FillScanChannel(bands[1], {})
       IN IF bands[2] = Absent THEN first ELSE FillScanChannel(bands[2], first)
  ELSE {freqs[i] : i \in {j \in KnownUpTo(freqs, Len(freqs)) : Cardinality(KnownUpTo(freqs, j - 1)) < ChannelTotal}}

Params == [freqs : Asked, ssids : {"none", "some", "many"}, ie : {"none", "some", "long"}]

\* The parts of the request that are allocated before one is refused or has no memory;
\* "done" is among them if none is.
Allocated(p, noMemory) ==
  LET Ssids == IF p.ssids = "some" THEN {"ssids"} ELSE {}
      Ie == IF p.ie = "some" THEN {"ie"} ELSE {}
  IN IF noMemory = "request" THEN {}
     ELSE IF ~ wireless \/ WifiScanSetChannel(p.freqs) = {} THEN {"request"}
     ELSE IF p.ssids = "many" \/ (Ssids # {} /\ noMemory = "ssids") THEN {"request"}
     ELSE IF p.ie = "long" \/ (Ie # {} /\ noMemory = "ie") THEN {"request"} \cup Ssids
     ELSE {"request", "done"} \cup Ssids \cup Ie

Add(count, parts) == [k \in Pieces |-> count[k] + IF k \in parts THEN 1 ELSE 0]

WifiScanFree_RequestOnly(parts) == parts \ {"request"}

\* What is left allocated of a request that is not used.
WifiScanFree(parts) == {}

\* HdfStartScan counts the channels of the kernel's wiphy before anything is tested, and
\* WifiScanSetRequest tests the framework's pointer.  A request the driver takes is the driver's.
HdfStartScan(p, noMemory, accepts) ==
  LET parts == Allocated(p, noMemory)
      taken == "done" \in parts /\ accepts
  IN /\ given["request"] < MaxScans
     /\ accepts => scan = Absent
     /\ faulted' = ~ registered
     /\ IF taken /\ registered
        THEN /\ heap' = Add(heap, parts) /\ given' = Add(given, parts)
             /\ scan' = WifiScanSetChannel(p.freqs)
             /\ asked' = [freqs |-> p.freqs, enabled |-> Channels \ disabled]
        ELSE /\ heap' = IF registered THEN Add(heap, WifiScanFree(parts)) ELSE heap
             /\ UNCHANGED <<given, scan, asked>>
     /\ UNCHANGED <<bands, disabled, registered, wireless, link, capability, probed, changes>>

\* The driver is done with the scan, of itself or because HdfAbortScan told it to.  The
\* event carries no request.
HdfScanEventCallback ==
  /\ scan # Absent /\ scan' = Absent /\ asked' = Absent
  /\ UNCHANGED <<bands, disabled, registered, wireless, faulted, link, heap, capability, given, probed, changes>>

-----------------------------------------------------------------------------
(* Connecting.                                                             *)

\* HdfConnect: a frequency, if there is one, must be an enabled channel's.
HdfConnect(f) ==
  /\ registered
  /\ f = "any" \/ (f \in Present \ disabled)
  /\ link' = f
  /\ UNCHANGED <<bands, disabled, registered, wireless, faulted, scan, heap, capability, given, asked, probed, changes>>

\* HdfDisconnect, or the driver's own event.
HdfDisconnect ==
  /\ link # Absent /\ link' = Absent
  /\ UNCHANGED <<bands, disabled, registered, wireless, faulted, scan, heap, capability, given, asked, probed, changes>>

-----------------------------------------------------------------------------
(* Capabilities.                                                           *)

\* BDH6WalGetSupportRate fails only without memory, and then releases the capability.
GetSupportRate(memory) == IF memory THEN "success" ELSE "failure"

\* Whether GetHwCapability takes the answer of GetSupportRate for a failure.
TakenForFailure(answer) == answer # "failure"

\* Without a wiphy nothing is done, and an allocation before the rates that fails releases
\* everything.
GetHwCapability(early, memory) ==
  LET answer == GetSupportRate(memory)
      begun == registered /\ early
      built == begun /\ memory
      failure == ~ begun \/ TakenForFailure(answer)
  IN /\ probed.whole < MaxProbes
     /\ capability' = IF failure THEN "refused" ELSE IF built THEN "whole" ELSE "freed"
     /\ probed' = IF built THEN [probed EXCEPT !.whole = @ + 1,
                                               !.lost = @ + IF failure THEN 1 ELSE 0] ELSE probed
     /\ UNCHANGED <<bands, disabled, registered, wireless, faulted, scan, link, heap, given, asked, changes>>

-----------------------------------------------------------------------------

StaNext ==
  /\ ~ faulted
  /\ \/ Registers
     \/ hdf_bdh6_netdev_open
     \/ Regulate
     \/ \E p \in Params, m \in Pieces \cup {"nothing"}, a \in BOOLEAN : HdfStartScan(p, m, a)
     \/ HdfScanEventCallback
     \/ \E f \in Channels \cup {"any", Unknown} : HdfConnect(f)
     \/ HdfDisconnect
     \/ \E early, memory \in BOOLEAN : GetHwCapability(early, memory)

StaSpec == StaInit /\ [][StaNext]_staVars

-----------------------------------------------------------------------------
(* Properties.                                                             *)

\* A scan that names frequencies covers those of them that are channels, disabled or not:
\* all of them, unless it names more than the wiphy has, some twice.
\* A scan that names none covers the enabled channels of one band only: of 5 GHz where the
\* wiphy has it, so that such a device does not see an access point at 2.4 GHz.
ScansLastBand ==
  scan # Absent =>
    /\ scan # {}
    /\ IF asked.freqs # <<>>
       THEN /\ scan \subseteq ToSet(asked.freqs) \cap Present
            /\ Len(asked.freqs) <= ChannelTotal => scan = ToSet(asked.freqs) \cap Present
       ELSE scan = asked.enabled \cap (IF bands[2] = Absent THEN bands[1] ELSE bands[2])

\* Whichever part of a request is refused, has no memory or is turned down by the driver,
\* nothing of it stays allocated; what does is what the driver took with a request, which
\* nothing in this code frees.
OnlyTheDriverKeeps == heap = given

\* A client is never given a capability it can use: one that was built whole is lost by a
\* call that reports failure, and a call that succeeds hands out one that was freed.
CapabilityIsDangling == capability # "whole" /\ probed.lost = probed.whole

\* A scan faults only on a net device that the driver never gave a wiphy: not once an open
\* has found one there, nor a connection or a scan, whatever was closed since.
OnlyEarlyScansFault == faulted => ~ registered /\ ~ wireless /\ link = Absent /\ given["request"] = 0

\* What a station gets for its requests: a scan of one band, without a loss of memory,
\* capabilities that it cannot use, and a fault for a scan before there is a wiphy.
StationExplained == ScansLastBand /\ OnlyTheDriverKeeps /\ CapabilityIsDangling /\ OnlyEarlyScansFault
=============================================================================
