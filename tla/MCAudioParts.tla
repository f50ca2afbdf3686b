----------------------------- MODULE MCAudioParts -----------------------------
(* Five parts of the sound card that share no state in the models: the clocks of the      *)
(* interface, the DMA, the mixer controls, the drivers as they come and go, and the maps  *)
(* of the registers.  A behaviour is that of one of the five.                             *)
EXTENDS AudioClock, AudioDma, AudioControls, AudioDrivers, RegisterMaps, TLC

VARIABLE part

\* Two rates of one family, one of which takes a large divider, and one of the other.
MCRates == {48000, 8000, 44100}
MCParent == (48000 :> 192000) @@ (8000 :> 192000) @@ (44100 :> 176400)

\* A control with a register for each channel, one with both in one, and a switch beside them.
MCRegs == {"PGAL", "PGAR", "GAIN"}
MCControls ==
  [pga  |-> [reg |-> "PGAL", rreg |-> "PGAR", shift |-> 1, rshift |-> 1, mask |-> {1}, max |-> 1,
             invert |-> TRUE, value |-> 0],
   gain |-> [reg |-> "GAIN", rreg |-> "GAIN", shift |-> 2, rshift |-> 0, mask |-> 0 .. 3, max |-> 1,
             invert |-> FALSE, value |-> 1],
   mute |-> [reg |-> "GAIN", rreg |-> "GAIN", shift |-> 4, rshift |-> 4, mask |-> {4}, max |-> 1,
             invert |-> FALSE, value |-> 1]]
MCStartup == <<"mute", "pga", "gain">>
MCDefaults == [PGAR |-> {0}]

AudioInit ==
  /\ ClockInit /\ Init /\ ControlsInit /\ DriversInit /\ MapsInit
  /\ part \in {"clock", "dma", "controls", "drivers", "maps"}
  /\ part # "maps" => config = CodecMap /\ \A r \in config.names : inChip[r] = "a"
  /\ part # "clock" => \A s \in Streams : rate[s] = 48000 /\ mclk[s] = 192000

AudioNext ==
  /\ UNCHANGED part
  /\ \/ part = "clock" /\ ClockNext /\ UNCHANGED <<vars, ctlRegVars, driverVars, mapVars>>
     \/ part = "dma" /\ Next /\ UNCHANGED <<clockVars, ctlRegVars, driverVars, mapVars>>
     \/ part = "controls" /\ ControlsNext /\ UNCHANGED <<clockVars, vars, driverVars, mapVars>>
     \/ part = "drivers" /\ DriversNext /\ UNCHANGED <<clockVars, vars, ctlRegVars, mapVars>>
     \/ part = "maps" /\ MapsNext /\ UNCHANGED <<clockVars, vars, ctlRegVars, driverVars>>

AudioSpec == AudioInit /\ [][AudioNext]_<<clockVars, vars, ctlRegVars, driverVars, mapVars, part>>
=============================================================================
