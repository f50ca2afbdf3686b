-------------------------- MODULE AudioPartsProofs --------------------------
(* Proofs about the parts of the sound card: AudioDma, what the pointers   *)
(* that BufFree leaves behind can and cannot do, whatever fails and in     *)
(* whatever order streams come and go; the registers that the drivers      *)
(* read, RegisterMaps; the drivers as they come and go, AudioDrivers; the  *)
(* clocks, AudioClock; and the mixer controls, AudioControls.              *)
EXTENDS AudioDma, AudioDrivers, AudioClock, AudioControls, RegisterMaps, TLAPS

LEMMA Two == \A s \in Streams : Other(s) \in Streams /\ Other(s) # s /\ Streams = {s, Other(s)}
  BY AudioStreamsAssumption DEF Streams, Other

\* Until both streams have been open at once, an open stream has the runtime data for
\* itself, and it is there.
DataInv == \A s \in Streams :
  ~ overlapped /\ phase[s] # "closed" => dmaPrv = "live" /\ phase[Other(s)] = "closed"

\* A stream that is open over a freed buffer was opened again, and the engine is on only
\* while the framework knows it runs.
BufferInv == \A s \in Streams :
  /\ phase[s] # "closed" /\ virtAddr[s] = "freed" => s \in reopened
  /\ engine[s] = "on" => phase[s] = "running"

DmaInv == TypeOK /\ DataInv /\ BufferInv /\ FaultExplained

LEMMA InvInit == Init => DmaInv
  BY DEF Init, DmaInv, TypeOK, DataInv, BufferInv, FaultExplained, Faults

LEMMA AllocStep == ASSUME DmaInv, fault = "none", NEW s \in Streams, Rk3568DmaBufAlloc(s) PROVE DmaInv'
<1> USE Two DEF DmaInv
<1>1. PICK a \in {"null", "live"} : virtAddr' = [virtAddr EXCEPT ![s] = IF @ = "null" THEN a ELSE @]
  BY DEF Rk3568DmaBufAlloc
<1>2. virtAddr' \in [Streams -> {"null", "live", "freed"}]
  BY <1>1 DEF TypeOK
<1>3. \A t \in Streams : virtAddr'[t] = "freed" => virtAddr[t] = "freed"
  BY <1>1 DEF TypeOK
<1>4. \A t \in Streams : t \in reopened => t \in reopened'
  BY DEF Rk3568DmaBufAlloc
<1>5. virtAddr[s] = "freed" => s \in reopened'
  BY DEF Rk3568DmaBufAlloc
<1>6. phase' \in [Streams -> {"closed", "open", "running", "paused"}]
      /\ \A t \in Streams : t # s => phase'[t] = phase[t]
  BY DEF Rk3568DmaBufAlloc, TypeOK
<1>7. TypeOK'
  BY <1>2, <1>6 DEF Rk3568DmaBufAlloc, TypeOK
<1>8. DataInv'
  <2>1. CASE UNCHANGED <<dmaPrv, phase, overlapped>>
    BY <2>1 DEF DataInv
  <2>2. CASE /\ dmaPrv' = "live"
             /\ phase' = [phase EXCEPT ![s] = "open"]
             /\ overlapped' = (overlapped \/ phase[Other(s)] # "closed")
    <3> SUFFICES ASSUME NEW t \in Streams, ~ overlapped', phase'[t] # "closed"
                 PROVE dmaPrv' = "live" /\ phase'[Other(t)] = "closed"
      BY DEF DataInv
    <3>1. phase[Other(s)] = "closed" /\ phase'[Other(s)] = "closed"
      BY <2>2 DEF TypeOK
    <3> QED
      BY <2>2, <3>1
  <2> QED
    BY <2>1, <2>2 DEF Rk3568DmaBufAlloc
<1>9. BufferInv'
  <2> SUFFICES ASSUME NEW t \in Streams
               PROVE /\ phase'[t] # "closed" /\ virtAddr'[t] = "freed" => t \in reopened'
                     /\ engine'[t] = "on" => phase'[t] = "running"
    BY DEF BufferInv
  <2>1. phase[s] \in {"closed", "open"} /\ engine' = engine /\ engine[s] # "on"
    BY DEF Rk3568DmaBufAlloc, BufferInv
  <2>2. CASE t = s
    BY <2>1, <2>2, <1>3, <1>5
  <2>3. CASE t # s
    BY <2>1, <2>3, <1>3, <1>4, <1>6 DEF BufferInv
  <2> QED
    BY <2>2, <2>3
<1>10. FaultExplained'
  BY DEF Rk3568DmaBufAlloc, FaultExplained
<1> QED
  BY <1>7, <1>8, <1>9, <1>10

LEMMA FreeStep == ASSUME DmaInv, fault = "none", NEW s \in Streams, Rk3568DmaBufFree(s) PROVE DmaInv'
<1> USE Two DEF DmaInv
<1>1. phase' = [phase EXCEPT ![s] = "closed"] /\ phase[s] \in {"open", "paused"} /\ dmaPrv' = "freed"
      /\ UNCHANGED <<platformInitFlag, dmaChn, cookie, engine, overlapped, reopened>>
      /\ virtAddr' = [virtAddr EXCEPT ![s] = IF @ = "live" THEN "freed" ELSE @]
  BY DEF Rk3568DmaBufFree
<1>2. fault' = IF dmaPrv = "freed" THEN "runtime data freed twice"
              ELSE IF virtAddr[s] = "freed" THEN "buffer freed twice"
              ELSE IF engine[s] # "off" /\ virtAddr[s] = "live" THEN "buffer freed in use"
              ELSE "none"
  BY DEF Rk3568DmaBufFree
<1>3. TypeOK'
  BY <1>1, <1>2 DEF TypeOK, Faults
<1>4. DataInv'
  BY <1>1 DEF DataInv, TypeOK
<1>5. BufferInv'
  BY <1>1 DEF BufferInv, TypeOK
<1>6. dmaPrv = "freed" => overlapped'
  BY <1>1 DEF DataInv
<1>7. virtAddr[s] = "freed" => s \in reopened' /\ phase'[s] = "closed"
  BY <1>1 DEF BufferInv, TypeOK
<1>8. \A t \in Streams : phase'[t] = "closed" => engine'[t] # "on"
  BY <1>1, <1>5 DEF BufferInv
<1> QED
  BY <1>2, <1>3, <1>4, <1>5, <1>6, <1>7, <1>8 DEF FaultExplained

LEMMA IssueStep ==
  ASSUME DmaInv, fault = "none", NEW s \in Streams, phase[s] \in {"open", "paused"}, Issue(s),
         cookie' \subseteq Streams,
         UNCHANGED <<platformInitFlag, dmaChn, virtAddr, dmaPrv, overlapped, reopened>>
  PROVE  DmaInv'
<1> USE Two DEF DmaInv
<1>1. engine' = [engine EXCEPT ![s] = "on"] /\ phase' = [phase EXCEPT ![s] = "running"]
      /\ fault' = IF virtAddr[s] = "live" THEN "none" ELSE "transfer without a buffer"
  BY DEF Issue
<1>2. TypeOK'
  BY <1>1 DEF TypeOK, Faults
<1>3. DataInv'
  BY <1>1 DEF DataInv, TypeOK
<1>4. BufferInv'
  BY <1>1 DEF BufferInv, TypeOK
<1>5. phase'[s] = "running" /\ (virtAddr'[s] # "live" => s \in reopened' \/ virtAddr'[s] = "null")
  BY <1>1 DEF BufferInv, TypeOK
<1> QED
  BY <1>1, <1>2, <1>3, <1>4, <1>5 DEF FaultExplained

LEMMA InvStep == DmaInv /\ [Next]_vars => DmaInv'
<1> SUFFICES ASSUME DmaInv, [Next]_vars PROVE DmaInv'
  OBVIOUS
<1>1. CASE UNCHANGED vars
  BY <1>1 DEF vars, DmaInv, TypeOK, DataInv, BufferInv, FaultExplained
<1>2. CASE Next
  <2>0. fault = "none"
    BY <1>2 DEF Next
  <2>1. CASE AudioDmaDeviceInit
    BY <2>0, <2>1 DEF AudioDmaDeviceInit, DmaInv, TypeOK, DataInv, BufferInv, FaultExplained, Streams
  <2>2. ASSUME NEW s \in Streams, Rk3568DmaBufAlloc(s) PROVE DmaInv'
    BY <2>0, <2>2, AllocStep
  <2>3. ASSUME NEW s \in Streams, Rk3568DmaBufFree(s) PROVE DmaInv'
    BY <2>0, <2>3, FreeStep
  <2>4. ASSUME NEW s \in Streams, Rk3568DmaConfigChannel(s) PROVE DmaInv'
    BY <2>0, <2>4 DEF Rk3568DmaConfigChannel, DmaInv, TypeOK, DataInv, BufferInv, FaultExplained, Faults
  <2>5. ASSUME NEW s \in Streams, Rk3568DmaSubmit(s) PROVE DmaInv'
    BY <2>0, <2>5 DEF Rk3568DmaSubmit, DmaInv, TypeOK, DataInv, BufferInv, FaultExplained
  <2>6. ASSUME NEW s \in Streams, Rk3568DmaPending(s) PROVE DmaInv'
    <3>1. cookie' \subseteq Streams /\ phase[s] \in {"open", "paused"} /\ Issue(s)
          /\ UNCHANGED <<platformInitFlag, dmaChn, virtAddr, dmaPrv, overlapped, reopened>>
      BY <2>6 DEF Rk3568DmaPending, DmaInv, TypeOK
    <3> QED
      BY <2>0, <3>1, IssueStep
  <2>7. ASSUME NEW s \in Streams, NEW to \in {"paused", "open"}, Rk3568DmaPause(s, to) PROVE DmaInv'
    <3>1. engine' = [engine EXCEPT ![s] = IF @ = "on" THEN "ending" ELSE @]
          /\ phase' = [phase EXCEPT ![s] = to] /\ phase[s] \in {"running", "paused"}
          /\ UNCHANGED <<platformInitFlag, dmaChn, virtAddr, dmaPrv, cookie, fault, overlapped, reopened>>
      BY <2>7 DEF Rk3568DmaPause
    <3>2. TypeOK'
      BY <3>1 DEF DmaInv, TypeOK
    <3>3. DataInv'
      BY <3>1, Two DEF DmaInv, DataInv, TypeOK
    <3>4. BufferInv'
      BY <3>1 DEF DmaInv, BufferInv, TypeOK
    <3> QED
      BY <2>0, <3>1, <3>2, <3>3, <3>4 DEF DmaInv, FaultExplained
  <2>8. ASSUME NEW s \in Streams, Rk3568DmaResume(s) PROVE DmaInv'
    <3>1. cookie' \subseteq Streams /\ phase[s] \in {"open", "paused"} /\ Issue(s)
          /\ UNCHANGED <<platformInitFlag, dmaChn, virtAddr, dmaPrv, overlapped, reopened>>
      BY <2>8 DEF Rk3568DmaResume, DmaInv, TypeOK
    <3> QED
      BY <2>0, <3>1, IssueStep
  <2>9. ASSUME NEW s \in Streams, Ended(s) PROVE DmaInv'
    BY <2>0, <2>9 DEF Ended, DmaInv, TypeOK, DataInv, BufferInv, FaultExplained
  <2> QED
    BY <1>2, <2>1, <2>2, <2>3, <2>4, <2>5, <2>6, <2>7, <2>8, <2>9 DEF Next
<1> QED
  BY <1>1, <1>2

\* The variables keep their types: there is never a channel for a third stream.
THEOREM TypeCorrect == Spec => []TypeOK
<1>1. DmaInv => TypeOK
  BY DEF DmaInv
<1> QED
  BY InvInit, InvStep, <1>1, PTL DEF Spec

\* Every use of memory or of a channel that is not there has one of the causes listed:
\* a stream that is opened once, with a buffer and without the other, is safe but for the
\* transfer that is not waited for.
THEOREM FaultHasACause == Spec => []FaultExplained
<1>1. DmaInv => FaultExplained
  BY DEF DmaInv
<1> QED
  BY InvInit, InvStep, <1>1, PTL DEF Spec

-----------------------------------------------------------------------------
(* The registers (RegisterMaps).                                           *)

MapsInv ==
  /\ config \in {CodecMap, I2sMap}
  /\ DOMAIN inChip = config.names /\ DOMAIN cached = config.names /\ DOMAIN doubt = config.names
  /\ ReadsExplained

\* The registers that the hardware changes are among the volatile ones, those that are written
\* or have a default among the map's.
LEMMA MapsAreSound ==
  ASSUME config \in {CodecMap, I2sMap}
  PROVE  /\ config.itself \subseteq config.volatile /\ config.writeable \subseteq config.names
         /\ config.volatile \subseteq config.names /\ config.defaults \subseteq config.names
  BY DEF CodecMap, I2sMap, CodecWriteable, CodecVolatile, CodecDefaults, I2sWriteable, I2sReadable, I2sVolatile,
         I2sDefaults

LEMMA WriteStep ==
  ASSUME MapsInv, NEW r \in config.names, NEW v \in Bits, NEW ok \in BOOLEAN, RegWrite(r, v, ok)
  PROVE  MapsInv'
<1>1. /\ cached' = IF Cacheable(r) THEN [cached EXCEPT ![r] = v] ELSE cached
      /\ inChip' = IF ok THEN [inChip EXCEPT ![r] = v] ELSE inChip
      /\ doubt' = [doubt EXCEPT ![r] = IF ok THEN "no" ELSE "not taken"]
      /\ UNCHANGED <<config, got>>
  BY DEF RegWrite
<1>2. /\ DOMAIN inChip' = config.names /\ DOMAIN cached' = config.names /\ DOMAIN doubt' = config.names
      /\ \A q \in config.names \ {r} : inChip'[q] = inChip[q] /\ cached'[q] = cached[q] /\ doubt'[q] = doubt[q]
      /\ doubt'[r] = IF ok THEN "no" ELSE "not taken"
      /\ ok => inChip'[r] = v
      /\ Cacheable(r) => cached'[r] = v
  BY <1>1 DEF MapsInv
<1> QED
  BY <1>1, <1>2 DEF MapsInv, ReadsExplained, Cacheable

LEMMA MapsStepInv == MapsInv /\ [MapsNext]_mapVars => MapsInv'
<1> SUFFICES ASSUME MapsInv, [MapsNext]_mapVars PROVE MapsInv'
  OBVIOUS
<1>1. CASE UNCHANGED mapVars
  BY <1>1 DEF mapVars, MapsInv, ReadsExplained
<1>2. ASSUME NEW r \in config.names, NEW ok \in BOOLEAN, RegRead(r, ok) PROVE MapsInv'
  BY <1>2 DEF RegRead, MapsInv, ReadsExplained, Cacheable
<1>3. ASSUME NEW r \in config.names, NEW ok \in BOOLEAN, NEW v \in Bits, UpdateBits(r, v, ok) PROVE MapsInv'
  BY <1>1, <1>3, WriteStep DEF UpdateBits
<1>4. ASSUME NEW r \in config.names, NEW v \in Bits, HardwareChanges(r, v) PROVE MapsInv'
  <2>1. inChip' = [inChip EXCEPT ![r] = v] /\ UNCHANGED <<config, cached, doubt, got>> /\ r \in config.volatile
    BY <1>4, MapsAreSound DEF HardwareChanges, MapsInv
  <2> QED
    BY <2>1 DEF MapsInv, ReadsExplained
<1>5. ASSUME NEW ok \in BOOLEAN, ProbeAgain(ok) PROVE MapsInv'
  <2>1. /\ config = I2sMap /\ config' = config /\ got' = got /\ cached' = [r \in config.names |-> "a"]
        /\ inChip' = [r \in config.names |-> IF ok /\ r \in Sent THEN "a" ELSE inChip[r]]
        /\ doubt' = [r \in config.names |-> IF ok /\ r \in Sent THEN "no" ELSE "not reset"]
    BY <1>5 DEF ProbeAgain, FreshCache
  <2> QED
    BY <2>1 DEF MapsInv, ReadsExplained
<1> QED
  BY <1>1, <1>2, <1>3, <1>4, <1>5, WriteStep DEF MapsNext

\* Both register maps, in any order of writes, updates, reads and changes of the hardware: a
\* read tells what is in the register but for the reasons the property lists.
THEOREM ReadsExplainedAlways == MapsSpec => []ReadsExplained
<1>1. MapsInit => MapsInv
  <2> SUFFICES ASSUME MapsInit PROVE MapsInv
    OBVIOUS
  <2>1. /\ config \in {CodecMap, I2sMap} /\ DOMAIN inChip = config.names
        /\ \A r \in config.defaults : inChip[r] = "a"
        /\ cached = [r \in config.names |-> "a"] /\ got.true = TRUE
        /\ doubt = [r \in config.names |-> IF r \in config.defaults THEN "no" ELSE "no default"]
    BY DEF MapsInit, FreshCache, Nothing
  <2> QED
    BY <2>1, MapsAreSound DEF MapsInv, ReadsExplained
<1>2. MapsInv => ReadsExplained
  BY DEF MapsInv
<1> QED
  BY <1>1, <1>2, MapsStepInv, PTL DEF MapsSpec

-----------------------------------------------------------------------------
(* The drivers (AudioDrivers).                                             *)

Codec == "CODEC_RK809"

\* Each Init of the codec follows a load of its own, so that one whose chip is freed under a
\* registration is at least the second.
CodecInv ==
  /\ stage \in [HdfDrivers -> {"unloaded", "bound", "ready", "failed"}] /\ loads \in [HdfDrivers -> Nat]
  /\ stage[Codec] # "unloaded" \/ Codec \in core => loads[Codec] > 0
  /\ Codec \in core /\ stage[Codec] = "bound" => loads[Codec] > 1
  /\ Codec \in core /\ g_chip = "freed" => loads[Codec] > 1 /\ stage[Codec] # "ready"
  /\ FreedChipIsReloaded

\* What is enabled, with and without the driver.
InterfaceInv ==
  /\ lateFailures \in Nat /\ removals \in Nat /\ enabled \in [Clocks -> Nat]
  /\ overstops \in [Masters -> Nat] /\ flow \in [Masters -> {"stopped", "running", "paused"}]
  /\ ClocksExplained

LEMMA CodecStepInv == CodecInv /\ [DriversNext]_driverVars => CodecInv'
<1> SUFFICES ASSUME CodecInv, [DriversNext]_driverVars PROVE CodecInv'
  OBVIOUS
<1> USE DEF Codec
<1>1. Codec \in HdfDrivers
  BY DEF HdfDrivers
<1>2. CASE UNCHANGED driverVars
  BY <1>2 DEF driverVars, CodecInv, FreedChipIsReloaded
<1>3. CASE CodecProbe \/ CodecRemove \/ I2sProbe \/ I2sRemove \/ OtherI2sRemove \/ UseDai \/ \E c \in Masters : TriggerDai(c)
  <2>1. UNCHANGED <<stage, loads, core, g_chip>> /\ (crash' = crash \/ crash' # "freed chip used")
    BY <1>3 DEF CodecProbe, CodecRemove, I2sProbe, I2sRemove, OtherI2sRemove, UseDai, TriggerDai, hdfVars, chipVars
  <2> QED
    BY <2>1 DEF CodecInv, FreedChipIsReloaded
<1>4. CASE CodecInit /\ crash = "none"
  <2>1. /\ stage[Codec] = "bound" /\ loads' = loads /\ (crash' = crash \/ crash' # "freed chip used")
        /\ \/ stage' = [stage EXCEPT ![Codec] = "failed"] /\ core' = core
           \/ stage' = [stage EXCEPT ![Codec] = "ready"] /\ core' = core \cup {Codec} /\ g_chip' = "live"
    BY <1>4 DEF CodecInit, CodecFails
  <2> QED
    BY <1>1, <1>4, <2>1 DEF CodecInv, FreedChipIsReloaded
<1>5. CASE UseCodec
  BY <1>5 DEF UseCodec, CodecInv, FreedChipIsReloaded, hdfVars, chipVars
<1>6. ASSUME NEW d \in HdfDrivers, BindDriver(d), crash = "none" PROVE CodecInv'
  <2>1. /\ stage[d] = "unloaded" /\ loads' = [loads EXCEPT ![d] = loads[d] + 1]
        /\ stage' \in {stage, [stage EXCEPT ![d] = "bound"]} /\ UNCHANGED <<core, g_chip, crash>>
    BY <1>6 DEF BindDriver, chipVars
  <2>2. loads' \in [HdfDrivers -> Nat] /\ loads'[Codec] >= loads[Codec] /\ (d = Codec => loads'[Codec] = loads[Codec] + 1)
    BY <1>1, <2>1 DEF CodecInv
  <2>3. stage' \in [HdfDrivers -> {"unloaded", "bound", "ready", "failed"}]
        /\ (d # Codec => stage'[Codec] = stage[Codec]) /\ (d = Codec => stage'[Codec] \in {"unloaded", "bound"})
    BY <1>1, <2>1 DEF CodecInv
  <2>4. CASE d = Codec
    BY <1>6, <2>1, <2>2, <2>3, <2>4 DEF CodecInv, FreedChipIsReloaded
  <2>5. CASE d # Codec
    <3>1. loads'[Codec] = loads[Codec]
      BY <1>1, <2>1, <2>5 DEF CodecInv
    <3> QED
      BY <2>1, <2>2, <2>3, <2>5, <3>1 DEF CodecInv, FreedChipIsReloaded
  <2> QED
    BY <2>4, <2>5
<1>7. ASSUME NEW d \in HdfDrivers, InitDriver(d), crash = "none" PROVE CodecInv'
  <2>1. /\ d # Codec /\ stage' \in {[stage EXCEPT ![d] = "ready"], [stage EXCEPT ![d] = "failed"]}
        /\ core' \in {core, core \cup {d}} /\ UNCHANGED <<loads, g_chip, crash>>
    BY <1>7 DEF InitDriver, Registers, chipVars
  <2> QED
    BY <1>1, <2>1 DEF CodecInv, FreedChipIsReloaded
<1>8. ASSUME NEW d \in HdfDrivers, ReleaseDriver(d), crash = "none" PROVE CodecInv'
  BY <1>1, <1>8 DEF ReleaseDriver, CodecInv, FreedChipIsReloaded, chipVars
<1> QED
  BY <1>2, <1>3, <1>4, <1>5, <1>6, <1>7, <1>8 DEF DriversNext

LEMMA ClocksAre ==
  "hclk" \notin Masters /\ Clocks = Masters \cup {"hclk"} /\ "hclk" \in Clocks /\ \A c \in Masters : c \in Clocks /\ c # "hclk"
  BY DEF Clocks, Masters

\* What the clock calls of the interface do to the counts.
LEMMA CountsAre ==
  ASSUME NEW e \in [Clocks -> Nat], NEW cs
  PROVE  /\ Enable(e, cs) \in [Clocks -> Nat] /\ Disable(e, cs) \in [Clocks -> Nat]
         /\ \A c \in Clocks : Enable(e, cs)[c] = IF c \in cs THEN e[c] + 1 ELSE e[c]
         /\ \A c \in Clocks : Disable(e, cs)[c] = IF c \in cs /\ e[c] > 0 THEN e[c] - 1 ELSE e[c]
<1>1. Enable(e, cs) = [c \in Clocks |-> IF c \in cs THEN e[c] + 1 ELSE e[c]]
  BY DEF Enable
<1>2. Disable(e, cs) = [c \in Clocks |-> IF c \in cs /\ e[c] > 0 THEN e[c] - 1 ELSE e[c]]
  BY DEF Disable
<1> QED
  BY <1>1, <1>2

LEMMA InterfaceStepInv == InterfaceInv /\ [DriversNext]_driverVars => InterfaceInv'
<1> SUFFICES ASSUME InterfaceInv, [DriversNext]_driverVars PROVE InterfaceInv'
  OBVIOUS
<1>1. /\ lateFailures \in Nat /\ removals \in Nat /\ enabled \in [Clocks -> Nat]
      /\ overstops \in [Masters -> Nat] /\ flow \in [Masters -> {"stopped", "running", "paused"}]
  BY DEF InterfaceInv
<1>2. /\ enabled["hclk"] = lateFailures + One(i2s = "driver")
      /\ \A c \in Masters : /\ enabled[c] <= removals + One(i2s = "driver") + One(flow[c] = "running")
                            /\ enabled[c] + overstops[c] >= removals + One(i2s = "driver") + One(flow[c] = "running")
  BY DEF InterfaceInv, ClocksExplained
<1>3. CASE I2sProbe
  <2>1. CASE UNCHANGED i2sVars
    BY <2>1 DEF i2sVars, flowVars, InterfaceInv, ClocksExplained
  <2> DEFINE on_ == Enable(enabled, {"hclk"})
             run == Enable(on_, Masters)
             back == Disable(run, Masters)
  <2>2. on_ \in [Clocks -> Nat] /\ \A c \in Clocks : on_[c] = IF c = "hclk" THEN enabled[c] + 1 ELSE enabled[c]
    BY <1>1, CountsAre
  <2>3. run \in [Clocks -> Nat] /\ \A c \in Clocks : run[c] = IF c \in Masters THEN on_[c] + 1 ELSE on_[c]
    <3> HIDE DEF on_
    <3> QED
      BY <2>2, CountsAre
  <2>4. back \in [Clocks -> Nat]
        /\ \A c \in Clocks : back[c] = IF c \in Masters /\ run[c] > 0 THEN run[c] - 1 ELSE run[c]
    <3> HIDE DEF run
    <3> QED
      BY <2>3, CountsAre
  <2>5. CASE /\ enabled' \in {on_, Resume(on_, FALSE)}
             /\ lateFailures' = lateFailures + 1 /\ UNCHANGED <<i2s, removals, flowVars>>
    <3>1. enabled' \in {on_, back}
      BY <2>5 DEF Resume
    <3> HIDE DEF on_, run, back
    <3>2. \A c \in Clocks : back[c] = on_[c]
      BY <2>2, <2>3, <2>4
    <3>3. /\ enabled' \in [Clocks -> Nat] /\ enabled'["hclk"] = enabled["hclk"] + 1
          /\ \A c \in Masters : enabled'[c] = enabled[c]
      BY <2>2, <2>4, <3>1, <3>2, ClocksAre
    <3>4. i2s' = i2s /\ removals' = removals /\ flow' = flow /\ overstops' = overstops
      BY <2>5 DEF flowVars
    <3>5. lateFailures' \in Nat /\ enabled'["hclk"] = lateFailures' + One(i2s' = "driver")
      BY <1>1, <1>2, <2>5, <3>3, <3>4 DEF One
    <3> QED
      BY <1>1, <1>2, <3>3, <3>4, <3>5 DEF InterfaceInv, ClocksExplained
  <2>6. CASE enabled' = Resume(on_, TRUE) /\ i2s' = "driver" /\ UNCHANGED <<lateFailures, removals, flowVars>>
    <3>1. enabled' = run
      BY <2>6 DEF Resume
    <3> HIDE DEF on_, run, back
    <3>2. i2s # "driver" /\ flow' = flow /\ overstops' = overstops
      BY <1>3, <2>6 DEF I2sProbe, flowVars
    <3>3. One(i2s = "driver") = 0 /\ One(i2s' = "driver") = 1 /\ \A c \in Masters : One(flow[c] = "running") \in {0, 1}
      BY <2>6, <3>2 DEF One
    <3>4. enabled' \in [Clocks -> Nat] /\ \A c \in Clocks : enabled'[c] = enabled[c] + 1
      BY <1>1, <2>2, <2>3, <3>1, ClocksAre
    <3>5. enabled'["hclk"] = lateFailures + 1
      BY <1>1, <1>2, <3>3, <3>4, ClocksAre
    <3>6. ASSUME NEW c \in Masters
          PROVE  /\ enabled'[c] <= removals + 1 + One(flow[c] = "running")
                 /\ enabled'[c] + overstops[c] >= removals + 1 + One(flow[c] = "running")
      <4>1. enabled[c] \in Nat /\ overstops[c] \in Nat /\ One(flow[c] = "running") \in {0, 1} /\ enabled'[c] = enabled[c] + 1
        BY <1>1, <3>3, <3>4, ClocksAre
      <4>2. /\ enabled[c] <= removals + 0 + One(flow[c] = "running")
            /\ enabled[c] + overstops[c] >= removals + 0 + One(flow[c] = "running")
        BY <1>2, <3>3
      <4> QED
        BY <1>1, <4>1, <4>2
    <3> QED
      BY <1>1, <2>6, <3>2, <3>3, <3>4, <3>5, <3>6 DEF InterfaceInv, ClocksExplained
  <2> QED
    BY <1>3, <2>1, <2>5, <2>6 DEF I2sProbe
<1>4. CASE I2sRemove
  <2> DEFINE off == Disable(enabled, Masters)
             on_ == Enable(off, Masters)
  <2>1. /\ i2s = "driver" /\ i2s' = "no driver" /\ removals' = removals + 1 /\ lateFailures' = lateFailures
        /\ enabled' = Disable(on_, {"hclk"}) /\ flow' = flow /\ overstops' = overstops
    BY <1>4 DEF I2sRemove, flowVars
  <2>2. off \in [Clocks -> Nat]
        /\ \A c \in Clocks : off[c] = IF c \in Masters /\ enabled[c] > 0 THEN enabled[c] - 1 ELSE enabled[c]
    BY <1>1, CountsAre
  <2>3. on_ \in [Clocks -> Nat] /\ \A c \in Clocks : on_[c] = IF c \in Masters THEN off[c] + 1 ELSE off[c]
    <3> HIDE DEF off
    <3> QED
      BY <2>2, CountsAre
  <2>4. enabled' \in [Clocks -> Nat]
        /\ \A c \in Clocks : enabled'[c] = IF c = "hclk" /\ on_[c] > 0 THEN on_[c] - 1 ELSE on_[c]
    <3>1. enabled' = Disable(on_, {"hclk"})
      BY <2>1
    <3> HIDE DEF on_
    <3> QED
      BY <2>3, <3>1, CountsAre
  <2> HIDE DEF off, on_
  <2>5. One(i2s = "driver") = 1 /\ One(i2s' = "driver") = 0 /\ \A c \in Masters : One(flow[c] = "running") \in {0, 1}
    BY <2>1 DEF One
  <2>6. enabled'["hclk"] = lateFailures
    <3>1. on_["hclk"] = enabled["hclk"] /\ enabled["hclk"] = lateFailures + 1
      BY <1>2, <2>2, <2>3, <2>5, ClocksAre
    <3> QED
      BY <1>1, <2>4, <3>1, ClocksAre
  <2>7. ASSUME NEW c \in Masters
        PROVE  /\ enabled'[c] <= removals + 1 + One(flow[c] = "running")
               /\ enabled'[c] + overstops[c] >= removals + 1 + One(flow[c] = "running")
    <3>1. enabled[c] \in Nat /\ overstops[c] \in Nat /\ One(flow[c] = "running") \in {0, 1}
      BY <1>1, <2>5, ClocksAre
    <3>2. enabled'[c] = IF enabled[c] > 0 THEN enabled[c] ELSE 1
      BY <2>2, <2>3, <2>4, <3>1, ClocksAre
    <3>3. /\ enabled[c] <= removals + 1 + One(flow[c] = "running")
          /\ enabled[c] + overstops[c] >= removals + 1 + One(flow[c] = "running")
      BY <1>2, <2>5
    <3> QED
      BY <1>1, <3>1, <3>2, <3>3
  <2>8. removals' = removals + 1 /\ lateFailures' = lateFailures /\ flow' = flow /\ overstops' = overstops
    BY <2>1
  <2>9. removals' \in Nat /\ enabled'["hclk"] = lateFailures' + One(i2s' = "driver")
    BY <1>1, <2>5, <2>6, <2>8
  <2>10. \A c \in Masters :
           /\ enabled'[c] <= removals' + One(i2s' = "driver") + One(flow'[c] = "running")
           /\ enabled'[c] + overstops'[c] >= removals' + One(i2s' = "driver") + One(flow'[c] = "running")
    BY <1>1, <2>5, <2>7, <2>8
  <2>11. ClocksExplained'
    BY <2>9, <2>10 DEF ClocksExplained
  <2> QED
    BY <1>1, <2>4, <2>8, <2>9, <2>11 DEF InterfaceInv
<1>5. ASSUME NEW c \in Masters, TriggerDai(c), i2s = "driver" PROVE InterfaceInv'
  <2>1. UNCHANGED <<i2s, lateFailures, removals>>
    BY <1>5 DEF TriggerDai
  <2>2. CASE StartFlow(c)
    <3>1. /\ flow[c] # "running" /\ flow' = [flow EXCEPT ![c] = "running"] /\ enabled' = Enable(enabled, {c})
          /\ overstops' = overstops
      BY <2>2 DEF StartFlow
    <3>2. enabled' \in [Clocks -> Nat] /\ \A d \in Clocks : enabled'[d] = IF d = c THEN enabled[d] + 1 ELSE enabled[d]
      BY <1>1, <3>1, CountsAre
    <3>3. flow' \in [Masters -> {"stopped", "running", "paused"}] /\ flow'[c] = "running"
          /\ \A d \in Masters : d # c => flow'[d] = flow[d]
      BY <1>1, <3>1
    <3>4. enabled'["hclk"] = enabled["hclk"]
      BY <3>2, ClocksAre
    <3>5. ASSUME NEW d \in Masters
          PROVE  /\ enabled'[d] <= removals + One(i2s = "driver") + One(flow'[d] = "running")
                 /\ enabled'[d] + overstops[d] >= removals + One(i2s = "driver") + One(flow'[d] = "running")
      <4>1. CASE d # c
        BY <1>2, <3>2, <3>3, <4>1, ClocksAre
      <4>2. CASE d = c
        <5>1. One(flow[d] = "running") = 0 /\ One(flow'[d] = "running") = 1 /\ One(i2s = "driver") = 1
          BY <1>5, <3>1, <3>3, <4>2 DEF One
        <5>2. enabled'[d] = enabled[d] + 1 /\ enabled[d] \in Nat /\ overstops[d] \in Nat
          BY <1>1, <3>2, <4>2, ClocksAre
        <5>3. enabled[d] <= removals + 1 + 0 /\ enabled[d] + overstops[d] >= removals + 1 + 0
          BY <1>2, <5>1
        <5> QED
          BY <1>1, <5>1, <5>2, <5>3
      <4> QED
        BY <4>1, <4>2
    <3> QED
      BY <1>1, <1>2, <2>1, <3>1, <3>2, <3>3, <3>4, <3>5 DEF InterfaceInv, ClocksExplained
  <2>3. ASSUME NEW to \in {"paused", "stopped"}, StopFlow(c, to) PROVE InterfaceInv'
    <3>1. /\ flow' = [flow EXCEPT ![c] = to] /\ enabled' = Disable(enabled, {c}) /\ to # "running"
          /\ \/ flow[c] = "running" /\ overstops' = overstops
             \/ flow[c] = "paused" /\ overstops' = [overstops EXCEPT ![c] = overstops[c] + 1]
      BY <2>3 DEF StopFlow
    <3>2. enabled' \in [Clocks -> Nat]
          /\ \A d \in Clocks : enabled'[d] = IF d = c /\ enabled[d] > 0 THEN enabled[d] - 1 ELSE enabled[d]
      BY <1>1, <3>1, CountsAre
    <3>3. flow' \in [Masters -> {"stopped", "running", "paused"}] /\ flow'[c] # "running"
          /\ \A d \in Masters : d # c => flow'[d] = flow[d]
      BY <1>1, <3>1
    <3>4. enabled'["hclk"] = enabled["hclk"]
      BY <3>2, ClocksAre
    <3>5. overstops' \in [Masters -> Nat] /\ (\A d \in Masters : d # c => overstops'[d] = overstops[d])
          /\ overstops'[c] = overstops[c] + (IF flow[c] = "running" THEN 0 ELSE 1)
      <4>1. CASE flow[c] = "running" /\ overstops' = overstops
        BY <1>1, <4>1
      <4>2. CASE flow[c] = "paused" /\ overstops' = [overstops EXCEPT ![c] = overstops[c] + 1]
        BY <1>1, <4>2
      <4> QED
        BY <3>1, <4>1, <4>2
    <3>6. ASSUME NEW d \in Masters
          PROVE  /\ enabled'[d] <= removals + One(i2s = "driver") + One(flow'[d] = "running")
                 /\ enabled'[d] + overstops'[d] >= removals + One(i2s = "driver") + One(flow'[d] = "running")
      <4>1. CASE d # c
        BY <1>2, <3>2, <3>3, <3>5, <4>1, ClocksAre
      <4>2. CASE d = c
        <5>1. One(flow[d] = "running") = (IF flow[d] = "running" THEN 1 ELSE 0) /\ One(flow'[d] = "running") = 0
              /\ One(i2s = "driver") = 1
          BY <1>5, <3>3, <4>2 DEF One
        <5>2. enabled'[d] = (IF enabled[d] > 0 THEN enabled[d] - 1 ELSE enabled[d]) /\ enabled[d] \in Nat
              /\ overstops[d] \in Nat /\ overstops'[d] = overstops[d] + (IF flow[d] = "running" THEN 0 ELSE 1)
          BY <1>1, <3>2, <3>5, <4>2, ClocksAre
        <5>3. /\ enabled[d] <= removals + 1 + (IF flow[d] = "running" THEN 1 ELSE 0)
              /\ enabled[d] + overstops[d] >= removals + 1 + (IF flow[d] = "running" THEN 1 ELSE 0)
          BY <1>2, <5>1
        <5>4. enabled'[d] <= removals + 1 /\ enabled'[d] + overstops'[d] >= removals + 1
          BY <1>1, <5>2, <5>3
        <5> QED
          BY <1>1, <5>1, <5>4
      <4> QED
        BY <4>1, <4>2
    <3> QED
      BY <1>1, <1>2, <2>1, <3>2, <3>3, <3>4, <3>5, <3>6 DEF InterfaceInv, ClocksExplained
  <2> QED
    BY <1>5, <2>2, <2>3 DEF TriggerDai
<1>6. CASE UNCHANGED i2sVars
  BY <1>6 DEF i2sVars, flowVars, InterfaceInv, ClocksExplained
<1>7. ASSUME NEW c \in Masters, TriggerDai(c), i2s # "driver" PROVE InterfaceInv'
  BY <1>6, <1>7 DEF TriggerDai
<1> QED
  BY <1>3, <1>4, <1>5, <1>6, <1>7
     DEF DriversNext, driverVars, i2sVars, flowVars, CodecProbe, CodecRemove, CodecInit, UseCodec, OtherI2sRemove,
         UseDai, BindDriver, InitDriver, ReleaseDriver

\* The HDF and the Linux drivers of the card, loaded and probed in any order and any number of
\* times: which loads can end in the use of a freed chip, and which clocks stay enabled.
THEOREM DriversExplainedAlways == DriversSpec => []DriversExplained
<1>1. DriversInit => CodecInv
  <2> SUFFICES ASSUME DriversInit PROVE CodecInv
    OBVIOUS
  <2>1. Codec \in HdfDrivers
    BY DEF Codec, HdfDrivers
  <2>2. stage = [d \in HdfDrivers |-> "unloaded"] /\ loads = [d \in HdfDrivers |-> 0] /\ core = {} /\ crash = "none"
    BY DEF DriversInit
  <2>3. stage[Codec] = "unloaded" /\ Codec \notin core
    BY <2>1, <2>2
  <2>4. stage \in [HdfDrivers -> {"unloaded", "bound", "ready", "failed"}] /\ loads \in [HdfDrivers -> Nat]
    BY <2>2
  <2> QED
    BY <2>2, <2>3, <2>4 DEF CodecInv, FreedChipIsReloaded
<1>2. DriversInit => InterfaceInv
  <2> SUFFICES ASSUME DriversInit PROVE InterfaceInv
    OBVIOUS
  <2>1. /\ i2s = "no driver" /\ enabled = [c \in Clocks |-> 0] /\ lateFailures = 0 /\ removals = 0
        /\ flow = [c \in Masters |-> "stopped"] /\ overstops = [c \in Masters |-> 0]
    BY DEF DriversInit
  <2>2. \A c \in Clocks : enabled[c] = 0
    BY <2>1
  <2>3. One(i2s = "driver") = 0 /\ \A c \in Masters : One(flow[c] = "running") = 0 /\ overstops[c] = 0
    BY <2>1 DEF One
  <2>4. ClocksExplained
    <3>1. enabled["hclk"] = lateFailures + One(i2s = "driver")
      <4>1. enabled["hclk"] = 0
        BY <2>2, ClocksAre
      <4>2. lateFailures = 0 /\ One(i2s = "driver") = 0
        BY <2>1, <2>3
      <4> QED
        BY <4>1, <4>2
    <3>2. \A c \in Masters : /\ enabled[c] <= removals + One(i2s = "driver") + One(flow[c] = "running")
                             /\ enabled[c] + overstops[c] >= removals + One(i2s = "driver") + One(flow[c] = "running")
      <4>1. \A c \in Masters : enabled[c] = 0 /\ overstops[c] = 0 /\ One(flow[c] = "running") = 0
        BY <2>2, <2>3, ClocksAre
      <4>2. removals = 0 /\ One(i2s = "driver") = 0
        BY <2>1, <2>3
      <4> QED
        BY <4>1, <4>2
    <3> QED
      BY <3>1, <3>2 DEF ClocksExplained
  <2> QED
    BY <2>1, <2>4 DEF InterfaceInv
<1>3. InterfaceInv => ClocksExplained
  BY DEF InterfaceInv
<1>4. CodecInv => FreedChipIsReloaded
  BY DEF CodecInv
<1> QED
  BY <1>1, <1>2, <1>3, <1>4, CodecStepInv, InterfaceStepInv, PTL DEF DriversSpec, DriversExplained

-----------------------------------------------------------------------------
(* The clocks (AudioClock).                                                *)

\* DIV_ROUND_CLOSEST is exact for a multiple.
LEMMA ClosestIsExact ==
  ASSUME NEW n \in Nat \ {0}, NEW r \in Nat \ {0}, n % r = 0
  PROVE  n = r * Closest(n, r)
<1> DEFINE k == n \div r
           h == r \div 2
           q == (n + h) \div r
<1>1. n = r * k /\ k \in Nat
  OBVIOUS
<1>2. h \in Nat /\ h < r
  OBVIOUS
<1>3. r * q <= n + h /\ n + h < r * q + r /\ q \in Nat
  BY <1>2
<1>4. q = k
  <2> HIDE DEF k, h, q
  <2>1. r * (q - k) < r /\ - r < r * (q - k)
    BY <1>1, <1>2, <1>3
  <2>2. q - k < 1 /\ -1 < q - k
    BY <1>1, <1>3, <2>1
  <2> QED
    BY <1>1, <1>3, <2>2
<1> QED
  BY <1>1, <1>4 DEF Closest

\* How far the call of s has come: "done" when the last one was accepted.
Reached(s) == IF pc[s] # "idle" THEN pc[s] ELSE IF asked[s] # 0 THEN "done" ELSE "none"

ClockTyped ==
  /\ pc \in [Streams -> {"idle", "rxfreq", "tx", "rx", "write"}] /\ rate \in [Streams -> Rates]
  /\ DOMAIN freq = Streams /\ DOMAIN mclk = Streams /\ DOMAIN asked = Streams
  /\ \A s \in Streams : asked[s] # 0 => asked[s] = rate[s] /\ pc[s] = "idle"

\* What a call has set so far, if no call of the other family came in between.
CallHolds(s) ==
  Reached(s) # "none" /\ s \notin refamilied =>
    /\ freq[Render] = Parent[rate[s]]
    /\ pc[Other(s)] # "idle" => Parent[rate[Other(s)]] = Parent[rate[s]]
    /\ Reached(s) # "rxfreq" => freq[Capture] = Parent[rate[s]]
    /\ Reached(s) \in {"rx", "write", "done"} => mclk[Render] = Parent[rate[s]]
    /\ Reached(s) \in {"write", "done"} => mclk[Capture] = Parent[rate[s]]
    /\ Reached(s) = "done" /\ s \notin redivided => div = Closest(Parent[rate[s]], rate[s])

ClockInv == ClockTyped /\ \A s \in Streams : CallHolds(s)

\* A step of the call of s leaves the other's rate, place and answer alone.
LEMMA CallStep ==
  ASSUME ClockInv, NEW s \in Streams,
         SetRxFreq(s) \/ Fails(s) \/ SetTx(s) \/ SetRx(s) \/ Write(s) \/ \E r \in Rates : SetSysClk(s, r)
  PROVE  ClockInv'
<1> DEFINE o == Other(s)
<1>1. o \in Streams /\ o # s /\ Streams = {s, o} /\ Other(s) = o /\ Other(o) = s /\ Streams = {Render, Capture} /\ Render # Capture
  BY AudioStreamsAssumption DEF Streams, Other
<1>2. \A t \in Streams : rate[t] # 0 /\ rate[t] \in Rates
  BY AudioClockAssumption DEF ClockInv, ClockTyped
<1> HIDE DEF o
<1>3. CallHolds(s) /\ CallHolds(o) /\ ClockTyped
  BY <1>1 DEF ClockInv
<1>4. CASE SetRxFreq(s)
  <2>1. pc[s] = "rxfreq" /\ pc' = [pc EXCEPT ![s] = "tx"] /\ freq' = [freq EXCEPT ![Capture] = Parent[rate[s]]]
        /\ UNCHANGED <<rate, mclk, div, asked, refamilied, redivided>>
    BY <1>4 DEF SetRxFreq
  <2>2. ClockTyped'
    BY <1>3, <2>1 DEF ClockTyped
  <2>3. CallHolds(s)' /\ CallHolds(o)'
    BY <1>1, <1>3, <2>1 DEF ClockTyped, CallHolds, Reached
  <2> QED
    BY <1>1, <2>2, <2>3 DEF ClockInv
<1>5. CASE Fails(s)
  <2>1. pc[s] # "idle" /\ pc' = [pc EXCEPT ![s] = "idle"]
        /\ UNCHANGED <<rate, freq, mclk, div, asked, refamilied, redivided>>
    BY <1>5 DEF Fails
  <2>2. ClockTyped'
    BY <1>3, <2>1 DEF ClockTyped
  <2>3. CallHolds(s)' /\ CallHolds(o)'
    BY <1>1, <1>3, <2>1 DEF ClockTyped, CallHolds, Reached
  <2> QED
    BY <1>1, <2>2, <2>3 DEF ClockInv
<1>6. CASE SetTx(s)
  <2>1. pc[s] = "tx" /\ pc' = [pc EXCEPT ![s] = "rx"] /\ mclk' = [mclk EXCEPT ![Render] = freq[Render]]
        /\ UNCHANGED <<rate, freq, div, asked, refamilied, redivided>>
    BY <1>6 DEF SetTx
  <2>2. ClockTyped'
    BY <1>3, <2>1 DEF ClockTyped
  <2>3. CallHolds(s)' /\ CallHolds(o)'
    BY <1>1, <1>3, <2>1 DEF ClockTyped, CallHolds, Reached
  <2> QED
    BY <1>1, <2>2, <2>3 DEF ClockInv
<1>7. CASE SetRx(s)
  <2>1. pc[s] = "rx" /\ pc' = [pc EXCEPT ![s] = "write"] /\ mclk' = [mclk EXCEPT ![Capture] = freq[Capture]]
        /\ UNCHANGED <<rate, freq, div, asked, refamilied, redivided>>
    BY <1>7 DEF SetRx
  <2>2. ClockTyped'
    BY <1>3, <2>1 DEF ClockTyped
  <2>3. CallHolds(s)' /\ CallHolds(o)'
    BY <1>1, <1>3, <2>1 DEF ClockTyped, CallHolds, Reached
  <2> QED
    BY <1>1, <2>2, <2>3 DEF ClockInv
<1>8. CASE Write(s)
  <2>1. pc[s] = "write" /\ pc' = [pc EXCEPT ![s] = "idle"] /\ div' = Closest(mclk[Render], rate[s])
        /\ asked' = [asked EXCEPT ![s] = rate[s]]
        /\ redivided' = {t \in Streams : t # s /\ (t \in redivided \/ rate[t] # rate[s])}
        /\ UNCHANGED <<rate, freq, mclk, refamilied>>
    BY <1>8 DEF Write
  <2>2. ClockTyped'
    BY <1>3, <2>1 DEF ClockTyped
  <2>3. CallHolds(s)' /\ CallHolds(o)'
    BY <1>1, <1>2, <1>3, <2>1 DEF ClockTyped, CallHolds, Reached
  <2> QED
    BY <1>1, <2>2, <2>3 DEF ClockInv
<1>9. ASSUME NEW r \in Rates, SetSysClk(s, r) PROVE ClockInv'
  <2>1. pc[s] = "idle" /\ pc' = [pc EXCEPT ![s] = "rxfreq"] /\ rate' = [rate EXCEPT ![s] = r]
        /\ freq' = [freq EXCEPT ![Render] = Parent[r]] /\ asked' = [asked EXCEPT ![s] = 0]
        /\ (s \notin refamilied' => pc[o] = "idle" \/ Parent[rate[o]] = Parent[r])
        /\ (o \notin refamilied' => o \notin refamilied /\ Parent[rate[o]] = Parent[r])
        /\ UNCHANGED <<mclk, div, redivided>>
    BY <1>1, <1>9 DEF SetSysClk, o
  <2>2. ClockTyped'
    BY <1>3, <2>1 DEF ClockTyped
  <2>3. CallHolds(s)' /\ CallHolds(o)'
    BY <1>1, <1>3, <2>1 DEF ClockTyped, CallHolds, Reached
  <2> QED
    BY <1>1, <2>2, <2>3 DEF ClockInv
<1> QED
  BY <1>4, <1>5, <1>6, <1>7, <1>8, <1>9

\* Rk3568DaiHwParams from two threads, for any rates and families of clocks: an accepted
\* stream runs at the rate it asked for unless the other's call came in between.
THEOREM PitchIsRightAlways == ClockSpec => []PitchIsRight
<1>1. ClockInit => ClockInv
  BY DEF ClockInit, ClockInv, ClockTyped, CallHolds, Reached, Parents
<1>2. ClockInv /\ [ClockNext]_clockVars => ClockInv'
  <2>1. ClockInv /\ UNCHANGED clockVars => ClockInv'
    BY DEF clockVars, ClockInv, ClockTyped, CallHolds, Reached
  <2> QED
    BY <2>1, CallStep DEF ClockNext
<1>3. ClockInv => PitchIsRight
  <2> SUFFICES ASSUME ClockInv, NEW s \in Streams, asked[s] # 0, s \notin refamilied \cup redivided
               PROVE  mclk[s] = asked[s] * div
    BY DEF PitchIsRight
  <2>1. /\ asked[s] = rate[s] /\ rate[s] \in Rates /\ mclk[s] = Parent[rate[s]]
        /\ div = Closest(Parent[rate[s]], rate[s])
    BY DEF ClockInv, ClockTyped, CallHolds, Reached, Streams
  <2>2. Parent[rate[s]] \in Nat \ {0} /\ rate[s] \in Nat \ {0} /\ Parent[rate[s]] % rate[s] = 0
    BY <2>1, AudioClockAssumption
  <2> QED
    BY <2>1, <2>2, ClosestIsExact
<1> QED
  BY <1>1, <1>2, <1>3, PTL DEF ClockSpec

-----------------------------------------------------------------------------
(* The mixer controls (AudioControls).                                     *)

\* ControlsHold, of one control.
HoldsItsValue(c) ==
  last[c].by # "reset" =>
    /\ \/ LeftHolds(c) \/ "left" \in last[c].missed
       \/ Stereo(Kcontrols[c]) /\ Kcontrols[c].reg = Kcontrols[c].rreg
    /\ Stereo(Kcontrols[c]) =>
         RightHolds(c) \/ "right" \in last[c].missed \/ (last[c].by = "startup" /\ Kcontrols[c].shift > 0)

ControlsInv ==
  /\ DOMAIN field = CtlRegs /\ started \in 0 .. Len(StartupItems)
  /\ \A c \in ControlNames : HoldsItsValue(c)

\* An update leaves the bits in its mask, and nothing else is touched.
Updates(g, f, reg, mask, bits, ok) ==
  /\ DOMAIN g = CtlRegs /\ \A r \in CtlRegs \ {reg} : g[r] = f[r]
  /\ ok => g[reg] \cap mask = bits \cap mask
  /\ \A m : m \cap mask = {} => \A r \in CtlRegs : g[r] \cap m = f[r] \cap m

LEMMA UpdatesItsBits ==
  ASSUME NEW f, DOMAIN f = CtlRegs, NEW reg \in CtlRegs, NEW mask, NEW bits, NEW side, NEW missed
  PROVE  Updates(Updatebits(f, reg, mask, bits, side \notin missed), f, reg, mask, bits, side \notin missed)
<1> DEFINE g == [f EXCEPT ![reg] = (@ \ mask) \cup (bits \cap mask)]
<1>1. Updatebits(f, reg, mask, bits, side \notin missed) = IF side \notin missed THEN g ELSE f
  BY DEF Updatebits
<1>2. /\ DOMAIN g = CtlRegs /\ \A r \in CtlRegs \ {reg} : g[r] = f[r]
      /\ g[reg] = (f[reg] \ mask) \cup (bits \cap mask)
  OBVIOUS
<1> HIDE DEF g
<1>3. g[reg] \cap mask = bits \cap mask
  BY <1>2
<1>4. ASSUME NEW m, m \cap mask = {}, NEW r \in CtlRegs PROVE g[r] \cap m = f[r] \cap m
  <2>1. CASE r = reg
    BY <2>1, <1>2, <1>4
  <2> QED
    BY <2>1, <1>2
<1> QED
  BY <1>1, <1>2, <1>3, <1>4 DEF Updates

\* A control that is written and holds its value leaves theirs to those that do not overlap.
LEMMA OthersHold ==
  ASSUME ControlsInv, NEW c \in ControlNames, NEW entry, Writes(c, entry),
         DOMAIN field' = CtlRegs, started' \in 0 .. Len(StartupItems), HoldsItsValue(c)',
         \A r \in CtlRegs \ {Kcontrols[c].reg, Kcontrols[c].rreg} : field'[r] = field[r],
         \A m : m \cap Kcontrols[c].mask = {} => \A r \in CtlRegs : field'[r] \cap m = field[r] \cap m
  PROVE  ControlsInv'
<1> SUFFICES ASSUME NEW d \in ControlNames, d # c PROVE HoldsItsValue(d)'
  BY DEF ControlsInv
<1>1. CASE Overlap(c, d)
  BY <1>1 DEF Writes, HoldsItsValue, Reset
<1>2. CASE ~ Overlap(c, d)
  <2>1. last'[d] = last[d]
    BY <1>2 DEF Writes
  <2>2. {Kcontrols[d].reg, Kcontrols[d].rreg} \subseteq CtlRegs
    BY AudioControlsAssumption DEF ControlNames
  <2>3. \A r \in {Kcontrols[d].reg, Kcontrols[d].rreg} :
          field'[r] \cap Kcontrols[d].mask = field[r] \cap Kcontrols[d].mask
    <3>1. CASE {Kcontrols[c].reg, Kcontrols[c].rreg} \cap {Kcontrols[d].reg, Kcontrols[d].rreg} = {}
      BY <3>1, <2>2
    <3>2. CASE Kcontrols[c].mask \cap Kcontrols[d].mask = {}
      BY <3>2, <2>2
    <3> QED
      BY <1>2, <3>1, <3>2 DEF Overlap
  <2> QED
    BY <2>1, <2>3 DEF ControlsInv, HoldsItsValue, LeftHolds, RightHolds
<1> QED
  BY <1>1, <1>2

\* The two updates of a control, one for each side.
LEMMA BothSides ==
  ASSUME ControlsInv, NEW c \in ControlNames, NEW left, NEW right, NEW missed, NEW onLeft, NEW onRight,
         started' \in 0 .. Len(StartupItems), NEW by, Writes(c, Wrote(by, left, right, missed)),
         "left" \notin missed => onLeft = Shift(BitsOn(Inverted(Kcontrols[c], left)), Kcontrols[c].shift),
         \/ onRight = Shift(BitsOn(Inverted(Kcontrols[c], right)), Kcontrols[c].rshift)
         \/ "right" \in missed
         \/ by = "startup" /\ Kcontrols[c].shift > 0,
         field' = LET k == Kcontrols[c]
                      l == Updatebits(field, k.reg, k.mask, onLeft, "left" \notin missed)
                  IN  IF Stereo(k) THEN Updatebits(l, k.rreg, k.mask, onRight, "right" \notin missed) ELSE l
  PROVE  ControlsInv'
<1> DEFINE k == Kcontrols[c]
           l == Updatebits(field, k.reg, k.mask, onLeft, "left" \notin missed)
           r == Updatebits(l, k.rreg, k.mask, onRight, "right" \notin missed)
<1>1. k.reg \in CtlRegs /\ k.rreg \in CtlRegs /\ DOMAIN field = CtlRegs
  BY AudioControlsAssumption DEF ControlNames, ControlsInv
<1>2. Updates(l, field, k.reg, k.mask, onLeft, "left" \notin missed) /\ DOMAIN l = CtlRegs
  <2>1. Updates(l, field, k.reg, k.mask, onLeft, "left" \notin missed)
    BY <1>1, UpdatesItsBits
  <2> QED
    BY <2>1 DEF Updates
<1> HIDE DEF l
<1>3. Updates(r, l, k.rreg, k.mask, onRight, "right" \notin missed)
  BY <1>1, <1>2, UpdatesItsBits
<1>4. field' = IF Stereo(k) THEN r ELSE l
  BY DEF l
<1> HIDE DEF r, k
<1>5. /\ DOMAIN field' = CtlRegs /\ \A x \in CtlRegs \ {k.reg, k.rreg} : field'[x] = field[x]
      /\ \A m : m \cap k.mask = {} => \A x \in CtlRegs : field'[x] \cap m = field[x] \cap m
  BY <1>2, <1>3, <1>4 DEF Updates
<1>6. last'[c] = Wrote(by, left, right, missed)
  BY DEF Writes
<1>7. HoldsItsValue(c)'
  <2>1. last'[c].by = by /\ last'[c].left = left /\ last'[c].right = right /\ last'[c].missed = missed
    BY <1>6 DEF Wrote
  <2>2. ~ Stereo(k) \/ k.reg # k.rreg => field'[k.reg] = l[k.reg]
    BY <1>1, <1>2, <1>3, <1>4 DEF Updates
  <2>3. "left" \notin missed /\ (~ Stereo(k) \/ k.reg # k.rreg) => LeftHolds(c)'
    BY <2>1, <2>2, <1>2 DEF LeftHolds, Updates, k
  <2>4. Stereo(k) /\ "right" \notin missed /\ ~ (by = "startup" /\ k.shift > 0) => RightHolds(c)'
    BY <2>1, <1>3, <1>4 DEF RightHolds, Updates, k
  <2> QED
    BY <2>1, <2>3, <2>4 DEF HoldsItsValue, k
<1> QED
  BY <1>5, <1>7, OthersHold DEF k

LEMMA ControlsStep == ControlsInv /\ [ControlsNext]_ctlRegVars => ControlsInv'
<1> SUFFICES ASSUME ControlsInv, [ControlsNext]_ctlRegVars PROVE ControlsInv'
  OBVIOUS
<1>1. CASE RegDefaultInit
  <2>1. PICK done \in SUBSET DOMAIN DefaultItems :
          field' = [r \in CtlRegs |-> IF r \in done THEN DefaultItems[r] ELSE field[r]]
    BY <1>1 DEF RegDefaultInit
  <2>2. ASSUME NEW c \in ControlNames PROVE HoldsItsValue(c)'
    <3>1. {Kcontrols[c].reg, Kcontrols[c].rreg} \subseteq CtlRegs
      BY AudioControlsAssumption DEF ControlNames
    <3>2. CASE {Kcontrols[c].reg, Kcontrols[c].rreg} \cap DOMAIN DefaultItems # {}
      BY <1>1, <3>2 DEF RegDefaultInit, HoldsItsValue, Reset
    <3>3. CASE {Kcontrols[c].reg, Kcontrols[c].rreg} \cap DOMAIN DefaultItems = {}
      <4>1. last'[c] = last[c]
        BY <1>1, <3>3 DEF RegDefaultInit
      <4>2. field'[Kcontrols[c].reg] = field[Kcontrols[c].reg] /\ field'[Kcontrols[c].rreg] = field[Kcontrols[c].rreg]
        BY <2>1, <3>1, <3>3
      <4> QED
        BY <4>1, <4>2 DEF ControlsInv, HoldsItsValue, LeftHolds, RightHolds
    <3> QED
      BY <3>2, <3>3
  <2> QED
    BY <1>1, <2>1, <2>2 DEF ControlsInv, RegDefaultInit
<1>2. CASE DaiStartup
  <2>1. field' = field /\ last' = last /\ started' \in 0 .. Len(StartupItems)
    BY <1>2, AudioControlsAssumption DEF DaiStartup
  <2> QED
    BY <2>1 DEF ControlsInv, HoldsItsValue, LeftHolds, RightHolds
<1>3. ASSUME NEW missed \in SUBSET {"left", "right"}, WorkStatusEnable(missed) PROVE ControlsInv'
  <2> DEFINE c == StartupItems[started + 1]
             k == Kcontrols[c]
             bits == Shift(BitsOn(Inverted(k, k.value)), k.shift)
  <2>1. c \in ControlNames
    BY <1>3, AudioControlsAssumption DEF WorkStatusEnable, ControlsInv, ControlNames
  <2>2. started' \in 0 .. Len(StartupItems)
    BY <1>3, AudioControlsAssumption DEF WorkStatusEnable, ControlsInv
  <2>3. /\ missed \in {{}, Sides(k)} \/ (Stereo(k) /\ missed = {"right"})
        /\ field' = RegBitsUpdate(field, k, missed)
        /\ IF missed = Sides(k) THEN UNCHANGED last ELSE Writes(c, Wrote("startup", k.value, k.value, missed))
    BY <1>3 DEF WorkStatusEnable
  <2>4. CASE missed = Sides(k)
    <3>1. field' = field
      BY <2>3, <2>4 DEF RegBitsUpdate, Updatebits, Sides
    <3> QED
      BY <3>1, <2>2, <2>3, <2>4 DEF ControlsInv, HoldsItsValue, LeftHolds, RightHolds
  <2>5. CASE missed # Sides(k)
    <3>1. field' = LET l == Updatebits(field, k.reg, k.mask, bits, "left" \notin missed)
                   IN IF Stereo(k) THEN Updatebits(l, k.rreg, k.mask, Shift(bits, k.rshift), "right" \notin missed) ELSE l
      BY <2>3 DEF RegBitsUpdate
    <3>2. k.shift \in Nat
      BY <2>1, AudioControlsAssumption DEF ControlNames
    <3>3. k.shift = 0 => bits = BitsOn(Inverted(k, k.value))
      BY DEF Shift, BitsOn, Places
    <3>4. k.shift = 0 => Shift(bits, k.rshift) = Shift(BitsOn(Inverted(k, k.value)), k.rshift)
      BY <3>3
    <3>5. k.shift > 0 \/ Shift(bits, k.rshift) = Shift(BitsOn(Inverted(k, k.value)), k.rshift)
      BY <3>2, <3>4
    <3> HIDE DEF k, bits
    <3>6. Writes(c, Wrote("startup", k.value, k.value, missed))
      BY <2>3, <2>5
    <3> QED
      BY <2>1, <2>2, <3>1, <3>5, <3>6, BothSides DEF bits, k
  <2> QED
    BY <2>4, <2>5
<1>4. ASSUME NEW c \in ControlNames, NEW left \in 0 .. Kcontrols[c].max, RightIsRefused(c, left)
      PROVE  ControlsInv'
  <2> DEFINE k == Kcontrols[c]
             bits == Shift(BitsOn(Inverted(k, left)), k.shift)
  <2>1. /\ Writes(c, Wrote("client", left, 0, {"right"})) /\ started' = started
        /\ field' = Updatebits(field, k.reg, k.mask, bits, TRUE)
    BY <1>4 DEF RightIsRefused, RegBitsUpdateValue
  <2>2. Updatebits(Updatebits(field, k.reg, k.mask, bits, TRUE), k.rreg, k.mask, {}, FALSE)
          = Updatebits(field, k.reg, k.mask, bits, TRUE)
    BY DEF Updatebits
  <2>3. started' \in 0 .. Len(StartupItems)
    BY <2>1 DEF ControlsInv
  <2>4. ("left" \notin {"right"}) = TRUE /\ ("right" \notin {"right"}) = FALSE
    OBVIOUS
  <2>5. field' = LET l == Updatebits(field, k.reg, k.mask, bits, "left" \notin {"right"})
                 IN IF Stereo(k) THEN Updatebits(l, k.rreg, k.mask, {}, "right" \notin {"right"}) ELSE l
    BY <2>1, <2>2, <2>4
  <2> QED
    BY <2>1, <2>3, <2>5, BothSides
<1>5. ASSUME NEW c \in ControlNames, NEW left, NEW right, NEW missed, SetCtrlOps(c, left, right, missed)
      PROVE  ControlsInv'
  <2> DEFINE k == Kcontrols[c]
             onLeft == Shift(BitsOn(Inverted(k, left)), k.shift)
             onRight == Shift(BitsOn(Inverted(k, right)), k.rshift)
  <2>1. /\ Writes(c, Wrote("client", left, right, missed)) /\ started' = started
        /\ field' = LET l == Updatebits(field, k.reg, k.mask, onLeft, "left" \notin missed)
                    IN IF Stereo(k) THEN Updatebits(l, k.rreg, k.mask, onRight, "right" \notin missed) ELSE l
    BY <1>5 DEF SetCtrlOps, RegBitsUpdateValue
  <2>2. started' \in 0 .. Len(StartupItems)
    BY <2>1 DEF ControlsInv
  <2> QED
    BY <2>1, <2>2, BothSides
<1>6. CASE UNCHANGED ctlRegVars
  BY <1>6 DEF ctlRegVars, ControlsInv, HoldsItsValue, LeftHolds, RightHolds
<1> QED
  BY <1>1, <1>2, <1>3, <1>4, <1>5, <1>6 DEF ControlsNext

\* Whatever the controls are and in whatever order a client and the starts of streams write
\* them, a value that was set is in its bits, except on the sides that ControlsHold lists.
THEOREM ControlsHoldAlways == ControlsSpec => []ControlsHold
<1>1. ControlsInit => ControlsInv
  BY AudioControlsAssumption DEF ControlsInit, ControlsInv, HoldsItsValue, ControlNames, Reset
<1>2. ControlsInv => ControlsHold
  BY DEF ControlsInv, ControlsHold, HoldsItsValue
<1> QED
  BY <1>1, <1>2, ControlsStep, PTL DEF ControlsSpec
=============================================================================
