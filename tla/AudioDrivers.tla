------------------------------ MODULE AudioDrivers ------------------------------
(***************************************************************************)
(* How the audio drivers come and go.  The codec, the interface (DAI), the *)
(* DMA and the DSP are HDF drivers (the adapters): the framework binds,    *)
(* initialises and releases them, and they register with the audio core,   *)
(* which has no way to take that back.  Under them are two Linux drivers:  *)
(* the codec's, whose probe stores the device, and the interface's, whose  *)
(* probe gets the clocks and makes the data that the DAI's registers are   *)
(* reached through.  Nothing orders the two kinds of driver.  The commands *)
(* of the streams turn the interface's clocks on and off as well.          *)
(*                                                                         *)
(* External: the framework releases a driver whose Init failed, or leaves  *)
(* it, and may load a driver again; a Linux driver that fails to probe is  *)
(* tried again, and its device's data is taken from it then and when it is *)
(* removed.  What a driver kept of a device (devm) is freed with it, clocks*)
(* that it enabled stay enabled.  A disable of a clock that is off is      *)
(* ignored.  The framework starts a stopped stream, pauses a running one,  *)
(* resumes a paused one and stops one that runs or is paused.              *)
(***************************************************************************)
EXTENDS Naturals, FiniteSets

CONSTANTS
  OtherDrivers,\* DMA_RK3568 and DSP_RK3568, which depend on nothing here
  MaxLoads,    \* bound: times the framework loads each driver
  MaxProbes,   \* bound: probes of the interface
  MaxOverstops \* bound: stops of each direction while it is paused

ASSUME AudioDriversAssumption == {MaxLoads, MaxProbes, MaxOverstops} \subseteq Nat

HdfDrivers == {"CODEC_RK809", "DAI_RK3568"} \cup OtherDrivers
\* The bus clock, and one of each direction.
Clocks == {"hclk", "mclk_tx", "mclk_rx"}
Masters == {"mclk_tx", "mclk_rx"}

VARIABLES
  stage,       \* framework: per driver, unloaded, bound (its host is allocated), ready or failed
  loads,       \* times each was loaded
  core,        \* audio core: the drivers registered
  rk817_pdev,  \* the codec's platform device is known
  g_chip,      \* null, or the chip is live or freed
  regmap,      \* g_chip's: null, live or an error
  i2s,         \* the interface's device: has its driver, and so its data, or not
  enabled,     \* clock framework: enable counts
  crash,       \* what went wrong, if anything
  lateFailures,\* history: probes of the interface that failed after its bus clock was on
  removals,    \* history: times the interface's driver was removed
  flow,        \* framework: what it last asked of the direction of each master clock
  overstops    \* history: times each direction was stopped while it was paused

driverVars == <<stage, loads, core, rk817_pdev, g_chip, regmap, i2s, enabled, crash,
                lateFailures, removals, flow, overstops>>
hdfVars == <<stage, loads, core>>
chipVars == <<g_chip, regmap>>
flowVars == <<flow, overstops>>
i2sVars == <<i2s, enabled, lateFailures, removals, flowVars>>

DriversInit ==
  /\ stage = [d \in HdfDrivers |-> "unloaded"] /\ core = {}
  /\ loads = [d \in HdfDrivers |-> 0]
  /\ rk817_pdev = FALSE /\ g_chip = "null" /\ regmap = "null"
  /\ i2s = "no driver" /\ enabled = [c \in Clocks |-> 0]
  /\ crash = "none" /\ lateFailures = 0 /\ removals = 0
  /\ flow = [c \in Masters |-> "stopped"] /\ overstops = [c \in Masters |-> 0]

-----------------------------------------------------------------------------
(* HDF.                                                                    *)

\* Bind allocates the host; without memory it fails.
BindDriver(d) ==
  /\ stage[d] = "unloaded" /\ loads[d] < MaxLoads
  /\ loads' = [loads EXCEPT ![d] = @ + 1]
  /\ \/ stage' = [stage EXCEPT ![d] = "bound"]
     \/ UNCHANGED stage
  /\ UNCHANGED <<core, rk817_pdev, chipVars, i2sVars, crash>>

\* Init registers the driver, or says that its configuration, its name or the core failed it.
Registers(d) ==
  \/ stage' = [stage EXCEPT ![d] = "ready"] /\ core' = core \cup {d}
  \/ stage' = [stage EXCEPT ![d] = "failed"] /\ core' = core

InitDriver(d) ==
  /\ d # "CODEC_RK809" /\ stage[d] = "bound" /\ Registers(d)
  /\ UNCHANGED <<loads, rk817_pdev, chipVars, i2sVars, crash>>

ReleaseDriver_Chip(d) ==
  /\ stage[d] # "unloaded"
  /\ stage' = [stage EXCEPT ![d] = "unloaded"]
  /\ g_chip' = IF d = "CODEC_RK809" /\ g_chip = "live" THEN "freed" ELSE g_chip
  /\ UNCHANGED <<loads, core, rk817_pdev, regmap, i2sVars, crash>>

\* Release frees the host, and only that: the chip and the registration stay.
ReleaseDriver(d) ==
  /\ stage[d] # "unloaded"
  /\ stage' = [stage EXCEPT ![d] = "unloaded"]
  /\ UNCHANGED <<loads, core, rk817_pdev, chipVars, i2sVars, crash>>

-----------------------------------------------------------------------------
(* The codec.                                                              *)

CodecProbe ==
  /\ ~ rk817_pdev /\ rk817_pdev' = TRUE
  /\ UNCHANGED <<hdfVars, chipVars, i2sVars, crash>>

\* The pointer to the device is stored, and removing the driver is a panic.
CodecRemove ==
  /\ rk817_pdev /\ crash' = "removed codec driver"
  /\ UNCHANGED <<hdfVars, rk817_pdev, chipVars, i2sVars>>

CodecFails == stage' = [stage EXCEPT !["CODEC_RK809"] = "failed"] /\ core' = core

\* Rk809DriverInit.  The new chip replaces an old one; RK809ChipRelease, which gives the
\* register map back and frees the chip, leaves the pointer to it, and takes an error for a
\* register map.
CodecInit ==
  /\ stage["CODEC_RK809"] = "bound"
  /\ \/ /\ ~ rk817_pdev /\ CodecFails /\ UNCHANGED <<chipVars, crash>>
     \/ /\ rk817_pdev
        /\ \/ \* no memory for the chip
              CodecFails /\ g_chip' = "null" /\ regmap' = "null" /\ UNCHANGED crash
           \/ \* no parent device, or a name or the registration fails
              CodecFails /\ g_chip' = "freed" /\ regmap' = "null" /\ UNCHANGED crash
           \/ \* no register map
              CodecFails /\ g_chip' = "live" /\ regmap' = "error" /\ crash' = "error released"
           \/ \* the controls or the name of the DAI fail: nothing is released
              CodecFails /\ g_chip' = "live" /\ regmap' = "live" /\ UNCHANGED crash
           \/ /\ stage' = [stage EXCEPT !["CODEC_RK809"] = "ready"]
              /\ core' = core \cup {"CODEC_RK809"}
              /\ g_chip' = "live" /\ regmap' = "live" /\ UNCHANGED crash
  /\ UNCHANGED <<loads, rk817_pdev, i2sVars>>

\* Any operation that the core calls of the registered codec goes to GetCodecDevice's chip;
\* only a null pointer is noticed.
UseCodec ==
  /\ "CODEC_RK809" \in core
  /\ crash' = IF g_chip = "freed" THEN "freed chip used" ELSE "none"
  /\ UNCHANGED <<hdfVars, rk817_pdev, chipVars, i2sVars>>

-----------------------------------------------------------------------------
(* The interface.                                                          *)

Enable(e, cs) == [c \in Clocks |-> IF c \in cs THEN e[c] + 1 ELSE e[c]]
Disable(e, cs) == [c \in Clocks |-> IF c \in cs /\ e[c] > 0 THEN e[c] - 1 ELSE e[c]]

Resume_LeavesClocks(e, ok) == Enable(e, Masters)

\* i2s_tdm_runtime_resume: the clocks on, the registers synchronised; if they cannot be,
\* the clocks off.
Resume(e, ok) == IF ok THEN Enable(e, Masters) ELSE Disable(Enable(e, Masters), Masters)

\* rockchip_i2s_tdm_probe.  From the bus clock on, a failure leaves it enabled.
I2sProbe ==
  /\ i2s = "no driver" /\ lateFailures + removals < MaxProbes
  /\ \/ UNCHANGED i2sVars
     \/ /\ enabled' \in {Enable(enabled, {"hclk"}), Resume(Enable(enabled, {"hclk"}), FALSE)}
        /\ lateFailures' = lateFailures + 1 /\ UNCHANGED <<i2s, removals, flowVars>>
     \/ /\ enabled' = Resume(Enable(enabled, {"hclk"}), TRUE)
        /\ i2s' = "driver" /\ UNCHANGED <<lateFailures, removals, flowVars>>
  /\ UNCHANGED <<hdfVars, rk817_pdev, chipVars, crash>>

\* rockchip_i2s_tdm_remove: suspended, and then the master clocks are enabled again.
I2sRemove ==
  /\ i2s = "driver" /\ i2s' = "no driver" /\ removals' = removals + 1
  /\ enabled' = Disable(Enable(Disable(enabled, Masters), Masters), {"hclk"})
  /\ UNCHANGED <<hdfVars, rk817_pdev, chipVars, lateFailures, flowVars, crash>>

\* The other interfaces of the chip match the driver, whose probe takes them and does
\* nothing; its remove follows their data.
OtherI2sRemove ==
  /\ crash' = "other interface removed"
  /\ UNCHANGED <<hdfVars, rk817_pdev, chipVars, i2sVars>>

\* Rk3568DeviceReadReg and WriteReg look the device up by its path each time, and follow
\* its data.
UseDai ==
  /\ "DAI_RK3568" \in core
  /\ crash' = IF i2s = "driver" THEN "none" ELSE "interface without data"
  /\ UNCHANGED <<hdfVars, rk817_pdev, chipVars, i2sVars>>

\* Rk3568TxAndRxSetReg for the direction whose clock is c: START and RESUME turn it on.
StartFlow(c) ==
  /\ flow[c] \in {"stopped", "paused"} /\ flow' = [flow EXCEPT ![c] = "running"]
  /\ enabled' = Enable(enabled, {c})
  /\ UNCHANGED overstops

\* PAUSE and STOP turn it off, a STOP of what is paused once more.
StopFlow(c, to) ==
  /\ \/ flow[c] = "running" /\ UNCHANGED overstops
     \/ /\ flow[c] = "paused" /\ to = "stopped" /\ overstops[c] < MaxOverstops
        /\ overstops' = [overstops EXCEPT ![c] = @ + 1]
  /\ flow' = [flow EXCEPT ![c] = to]
  /\ enabled' = Disable(enabled, {c})

\* Rk3568NormalTrigger, which looks for the data in the same way.
TriggerDai(c) ==
  /\ "DAI_RK3568" \in core
  /\ IF i2s = "driver"
     THEN /\ StartFlow(c) \/ StopFlow(c, "paused") \/ StopFlow(c, "stopped")
          /\ UNCHANGED <<i2s, lateFailures, removals, crash>>
     ELSE crash' = "interface without data" /\ UNCHANGED i2sVars
  /\ UNCHANGED <<hdfVars, rk817_pdev, chipVars>>

DriversNext ==
  /\ crash = "none"
  /\ \/ \E c \in Masters : TriggerDai(c)
     \/ CodecProbe \/ CodecRemove \/ CodecInit \/ UseCodec
     \/ I2sProbe \/ I2sRemove \/ OtherI2sRemove \/ UseDai
     \/ \E d \in HdfDrivers : BindDriver(d) \/ InitDriver(d) \/ ReleaseDriver(d)

DriversSpec == DriversInit /\ [][DriversNext]_driverVars

-----------------------------------------------------------------------------
(* Properties.                                                             *)

\* The registration of a driver outlives it.  A freed chip is used only if the codec was
\* loaded again after it had registered, and its next Init failed; a codec loaded once is
\* safe, released or not.
FreedChipIsReloaded ==
  crash = "freed chip used" => loads["CODEC_RK809"] > 1 /\ stage["CODEC_RK809"] # "ready"

One(b) == IF b THEN 1 ELSE 0

\* The bus clock is on once for the driver and once for each probe that failed late.  A master
\* clock is on once for the driver, once for each removal and once for a stream that runs,
\* and at most once less for each stop of a stream that was paused: without one, whatever was
\* probed, removed, started and paused, an interface with its driver has its clocks.
ClocksExplained ==
  /\ enabled["hclk"] = lateFailures + One(i2s = "driver")
  /\ \A c \in Masters :
       LET asked == removals + One(i2s = "driver") + One(flow[c] = "running")
       IN enabled[c] <= asked /\ enabled[c] + overstops[c] >= asked

\* What the drivers of the card leave behind, in whatever order they come and go.
DriversExplained == FreedChipIsReloaded /\ ClocksExplained
=============================================================================
