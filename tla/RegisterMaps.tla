----------------------------- MODULE RegisterMaps -----------------------------
(***************************************************************************)
(* The register maps that the codec's driver and the interface's driver    *)
(* give the kernel (rk809_codec_linux_driver.c, rk3568_dai_linux_driver.c):*)
(* which registers may be read and written, which the hardware changes by  *)
(* itself, and the values that the driver says they have after a reset.    *)
(* Modules AudioControls and AudioClock take a register for what is in it. *)
(*                                                                         *)
(* External: regmap with a flat cache.  A write goes to the cache and then *)
(* to the bus; a read is from the cache, of any register not volatile; an  *)
(* update that changes nothing there is not written.  A synchronisation    *)
(* leaves out what has its default.  Values are "a" and "b".               *)
(***************************************************************************)
\* The codec: registers with a default value, the two gains without one, the reset, and
\* the addresses between them.
CodecWriteable == {"CFG", "DADC_VOL", "LPT_SRST"}
CodecVolatile == {"LPT_SRST"}
CodecDefaults == {"CFG", "LPT_SRST"}

\* The interface: TXCR stands for the formats, the clocks and the DMA, XFER for the
\* transfer, which has no default; CLR, which clears itself, for TXDR too; RXDR for what is
\* only read, the levels of the FIFOs and the interrupts' state.
I2sWriteable == {"TXCR", "XFER", "CLR"}
I2sReadable == I2sWriteable \cup {"RXDR"}
I2sVolatile_NotClr == {"RXDR"}
I2sVolatile == {"RXDR", "CLR"}
I2sDefaults == {"TXCR"}

CodecMap == [names |-> CodecWriteable \cup {"gap"}, writeable |-> CodecWriteable, readable |-> CodecWriteable,
             volatile |-> CodecVolatile, defaults |-> CodecDefaults, itself |-> {"LPT_SRST"}]
I2sMap == [names |-> I2sReadable \cup {"gap"}, writeable |-> I2sWriteable, readable |-> I2sReadable,
           volatile |-> I2sVolatile, defaults |-> I2sDefaults,
           itself |-> {"CLR", "RXDR"}]

VARIABLES
  config,   \* CodecMap or I2sMap
  inChip,   \* the registers
  cached,   \* the cache
  doubt,    \* history: per register, why its cache may not be what is in it, if it may not
  got       \* the last read: whether it succeeded, whether it told what was in the register, and its doubt

mapVars == <<config, inChip, cached, doubt, got>>

Bits == {"a", "b"}
Nothing == [ok |-> TRUE, true |-> TRUE, doubt |-> "no"]

\* regmap_init.  The chip's reset values are the driver's, when it has just been reset.
FreshCache(m) == [r \in m.names |-> "a"]

MapsInit ==
  /\ config \in {CodecMap, I2sMap}
  /\ inChip \in {f \in [config.names -> Bits] : \A r \in config.defaults : f[r] = "a"}
  /\ cached = FreshCache(config) /\ got = Nothing
  /\ doubt = [r \in config.names |-> IF r \in config.defaults THEN "no" ELSE "no default"]

-----------------------------------------------------------------------------

Cacheable(r) == r \notin config.volatile

\* What a write leaves: the cache has the value whether the bus took it or not.
RegWrite(r, v, ok) ==
  /\ r \in config.writeable
  /\ cached' = IF Cacheable(r) THEN [cached EXCEPT ![r] = v] ELSE cached
  /\ inChip' = IF ok THEN [inChip EXCEPT ![r] = v] ELSE inChip
  /\ doubt' = [doubt EXCEPT ![r] = IF ok THEN "no" ELSE "not taken"]
  /\ UNCHANGED <<config, got>>

\* regmap_update_bits, with a mask of all the bits.
UpdateBits(r, v, ok) ==
  IF (IF Cacheable(r) THEN cached[r] ELSE inChip[r]) = v THEN UNCHANGED mapVars ELSE RegWrite(r, v, ok)

RegRead(r, ok) ==
  /\ got' = IF Cacheable(r)
            THEN [ok |-> TRUE, true |-> cached[r] = inChip[r], doubt |-> doubt[r]]
            ELSE [ok |-> ok /\ r \in config.readable, true |-> TRUE, doubt |-> doubt[r]]
  /\ UNCHANGED <<config, inChip, cached, doubt>>

\* Reset bits clear themselves, FIFOs fill and run empty.
HardwareChanges(r, v) ==
  /\ r \in config.itself /\ inChip' = [inChip EXCEPT ![r] = v]
  /\ UNCHANGED <<config, cached, doubt, got>>

\* regcache_sync after regcache_mark_dirty leaves out what has its default, as everything has
\* that has one when the cache is new.
Sent == {r \in config.writeable : Cacheable(r) /\ r \notin config.defaults}

\* A second probe of the interface: a new cache for a chip that was not reset, and
\* i2s_tdm_runtime_resume, which synchronises it unless the bus fails.
ProbeAgain(ok) ==
  /\ config = I2sMap /\ cached' = FreshCache(config)
  /\ inChip' = [r \in config.names |-> IF ok /\ r \in Sent THEN "a" ELSE inChip[r]]
  /\ doubt' = [r \in config.names |-> IF ok /\ r \in Sent THEN "no" ELSE "not reset"]
  /\ UNCHANGED <<config, got>>

MapsNext ==
  \/ \E r \in config.names, ok \in BOOLEAN :
       \/ RegRead(r, ok)
       \/ \E v \in Bits : RegWrite(r, v, ok) \/ UpdateBits(r, v, ok) \/ HardwareChanges(r, v)
  \/ \E ok \in BOOLEAN : ProbeAgain(ok)

MapsSpec == MapsInit /\ [][MapsNext]_mapVars

-----------------------------------------------------------------------------
(* Properties.                                                             *)

\* What is read is what is in the register, whatever the hardware does meanwhile, unless the
\* register has no default in the map and was not written yet, or the last write to it
\* failed, or the interface was probed again without a reset; an update of such a register
\* may be left out.  A failed write is not made up for by the same update.
ReadsExplained ==
  /\ ~ got.true => got.doubt # "no"
  /\ \A r \in config.names \ config.volatile : cached[r] # inChip[r] => doubt[r] # "no"
  /\ \A r \in config.names : doubt[r] = "no default" => r \notin config.defaults
=============================================================================
