------------------------------- MODULE AudioCodec -------------------------------
(***************************************************************************)
(* The RK809 codec (rk809_codec_impl.c) on the card with the interface of  *)
(* AudioTriggers.  A trigger writes a table of registers and remembers the *)
(* command; the parameters of a stream go to the registers of whichever    *)
(* stream that command was for.  The tables of capture have registers of   *)
(* the output among them.                                                  *)
(*                                                                         *)
(* The framework calls the interface's trigger and the codec's in one call.*)
(* Their registers are not shared, so the codec's are written in the step  *)
(* in which the interface's trigger begins.  Any write over I2C may fail:  *)
(* a trigger then goes on, parameters are given up half way, and the cache *)
(* of regmap has the value that the register has not.                      *)
(***************************************************************************)
EXTENDS AudioTriggers, FiniteSets

CONSTANTS
  Rates,
  MaxFaults,    \* bound on the writes that the bus does not answer
  BUTT          \* AUDIO_DRV_PCM_IOCTL_BUTT: no trigger yet

ASSUME AudioCodecAssumption == BUTT \notin Streams /\ Rates \subseteq Nat /\ MaxFaults \in Nat

VARIABLES
  g_cuurentcmd, \* the stream of the last command, or BUTT
  regs,         \* the codec's registers; DTOP_DIGEN_CLKE as the directions whose clock is on
  cache,        \* what regmap believes to be in them
  asked,        \* history: the rate each stream was last set to, 0 if none, if the parameters
                \* did not go to its own register or if they did not stay there
  divided,      \* history: the rate that the PLL's divider was last set for, or 0
  ahead,        \* history: the registers of rates whose last write was lost
  cut,          \* history: streams the other one's trigger has cut off since they started
  lost,         \* history: streams that lost a write since they started
  faults        \* how many writes the bus did not answer

codec == <<g_cuurentcmd, regs, cache, asked, divided, ahead, cut, lost, faults>>
cardVars == <<vars, codec>>

\* RK809GetSRT, RK809GetPremode.
SRT(rate) ==
  CASE rate = 8000 -> 0 [] rate = 16000 -> 1 [] rate = 96000 -> 3 [] OTHER -> 2
Premode(rate) ==
  CASE rate = 8000 -> 3 [] rate = 16000 -> 6 [] rate = 96000 -> 24 [] OTHER -> 12

\* rk817_render_start_reg_defaults and so on, in decimal: the output's power, the input's
\* power and rate, all clocks or those of the output; less mixer, mute and gains.
StartTable(s) ==
  IF s = Render THEN [ADAC_CFG1 |-> 0, DACST |-> 4]
  ELSE [CLKE |-> Streams, AADC_CFG0 |-> 8, ADC_SR |-> 2, ADAC_CFG1 |-> 15, DACST |-> 4]
StopTable(s) ==
  IF s = Render THEN [ADAC_CFG1 |-> 15, DACST |-> 6]
  ELSE [CLKE |-> {Render}, AADC_CFG0 |-> 200, ADC_SR |-> 0, DACST |-> 6]
Table(s, up) == IF up THEN StartTable(s) ELSE StopTable(s)

\* The stream's sample rate register, and the registers of rates.
SR(s) == IF s = Render THEN "DAC_SR" ELSE "ADC_SR"
RateRegs == {"APLL", "DAC_SR", "ADC_SR"}

\* getCodecRegmap: the values at reset.
CardInit ==
  /\ Init
  /\ g_cuurentcmd = BUTT
  /\ regs = [ADAC_CFG1 |-> 7, DACST |-> 130, AADC_CFG0 |-> 200, ADC_SR |-> 0, DAC_SR |-> 0, APLL |-> 25,
             CLKE |-> {}]
  /\ cache = regs /\ asked = [s \in Streams |-> 0] /\ divided = 0
  /\ ahead = {} /\ cut = {} /\ lost = {} /\ faults = 0

-----------------------------------------------------------------------------

\* Which of a call's writes get no answer from the bus.
Losses(writes) == {gone \in SUBSET writes : faults + Cardinality(gone) <= MaxFaults}
Bus(gone) == faults' = faults + Cardinality(gone)

\* RK809DeviceRegConfig: the table's writes, whether or not each gets through.
DeviceRegConfig(table, gone) ==
  /\ cache' = [r \in DOMAIN cache |-> IF r \in DOMAIN table THEN table[r] ELSE cache[r]]
  /\ regs' = [r \in DOMAIN regs |-> IF r \in DOMAIN table \ gone THEN table[r] ELSE regs[r]]

\* Capture's tables have registers of the output among them.
TriggerHistory(s, table, gone) ==
  /\ asked' = IF s = Capture THEN [asked EXCEPT ![s] = 0] ELSE asked
  /\ ahead' = (ahead \ DOMAIN table) \cup (gone \cap RateRegs)
  /\ cut' = (cut \ {s}) \cup (IF s = Capture /\ ~ DOMAIN table \cap {"ADAC_CFG1", "DACST"} \subseteq gone
                              THEN {Render} ELSE {})
  /\ lost' = IF gone = {} THEN lost \ {s} ELSE lost \cup {s}

NormalTrigger_NoResume(s, up, gone) ==
  LET table == Table(s, up)
  IN /\ g_cuurentcmd' = s /\ UNCHANGED divided
     /\ DeviceRegConfig(table, IF up /\ status[s] = "paused" THEN DOMAIN table ELSE gone)
     /\ TriggerHistory(s, table, gone) /\ Bus(gone)

\* Rk809NormalTrigger succeeds whatever happens.  The tables of capture overwrite the rate
\* that capture was set to, and both turn the output off: a start with what a stop of playback
\* writes into ADAC_CFG1.
NormalTrigger(s, up, gone) ==
  LET table == Table(s, up)
  IN /\ g_cuurentcmd' = s /\ UNCHANGED divided
     /\ DeviceRegConfig(table, gone)
     /\ TriggerHistory(s, table, gone) /\ Bus(gone)

-----------------------------------------------------------------------------

\* The writes of the parameters: the divider, the clock turned off, the rate, the clock
\* turned on again, the width of the data.
ParamWrites == {"APLL", "off", "rate", "on", "width"}

\* Rk809DeviceRegUpdatebits: a register that the cache has right is not written.  What is
\* in it afterwards.
Updated(r, value, arrives) == IF cache[r] = value \/ ~ arrives THEN regs[r] ELSE value

\* Which writes may be lost: those that are made and are reached.  The result of the clock's
\* is not looked at, and the others end the call.
MayLose(c, rate, gone) ==
  /\ "APLL" \in gone => cache.APLL # Premode(rate) /\ gone = {"APLL"}
  /\ "off" \in gone => c \in cache.CLKE
  /\ "rate" \in gone => cache[SR(c)] # SRT(rate) /\ gone \subseteq {"off", "rate"}

Succeeds(gone) == gone \subseteq {"off", "on"}

\* RK809UpdateRenderParams, RK809UpdateCaptureParams, for stream c with the rate of s.
UpdateHistory(c, s, rate, gone) ==
  /\ asked' = CASE Succeeds(gone) /\ c = s -> [asked EXCEPT ![s] = rate]
                [] Succeeds(gone) /\ c # s -> [asked EXCEPT ![c] = 0, ![s] = 0]
                [] "APLL" \in gone -> asked
                [] OTHER -> [asked EXCEPT ![c] = 0]
  /\ divided' = rate
  /\ ahead' = {r \in ahead : cache'[r] = cache[r]} \cup ({"APLL"} \cap gone)
                \cup (IF "rate" \in gone THEN {SR(c)} ELSE {})
  /\ lost' = IF gone \cap {"rate", "on"} = {} THEN lost ELSE lost \cup {c}

UpdateParams_LeavesClock(c, s, rate, gone) ==
  /\ MayLose(c, rate, gone)
  /\ IF "APLL" \in gone
     THEN cache' = [cache EXCEPT !.APLL = Premode(rate)] /\ UNCHANGED regs
     ELSE /\ cache' = [cache EXCEPT !.APLL = Premode(rate), ![SR(c)] = SRT(rate), !.CLKE = @ \ {c}]
          /\ regs' = [regs EXCEPT !.APLL = Updated("APLL", Premode(rate), TRUE),
                                  ![SR(c)] = Updated(SR(c), SRT(rate), "rate" \notin gone),
                                  !.CLKE = Updated("CLKE", cache.CLKE \ {c}, "off" \notin gone)]
  /\ UpdateHistory(c, s, rate, gone)

UpdateParams_KeepsDivider(c, s, rate, gone) ==
  LET off == cache.CLKE \ {c}
      on_ == off \cup {c}
  IN /\ MayLose(c, rate, gone)
     /\ cache' = [cache EXCEPT ![SR(c)] = SRT(rate), !.CLKE = IF "rate" \in gone THEN off ELSE on_]
     /\ regs' = [regs EXCEPT ![SR(c)] = Updated(SR(c), SRT(rate), "rate" \notin gone),
                             !.CLKE = IF gone \cap {"rate", "on"} = {} THEN on_
                                      ELSE Updated("CLKE", off, "off" \notin gone)]
     /\ UpdateHistory(c, s, rate, gone)

\* The divider of the PLL, then the rate with the clock off, which a failure leaves off, then
\* the width of the data, whose failure comes when the rate has changed.
UpdateParams(c, s, rate, gone) ==
  LET off == cache.CLKE \ {c}
      on_ == off \cup {c}
  IN /\ MayLose(c, rate, gone)
     /\ IF "APLL" \in gone
        THEN cache' = [cache EXCEPT !.APLL = Premode(rate)] /\ UNCHANGED regs
        ELSE /\ cache' = [cache EXCEPT !.APLL = Premode(rate), ![SR(c)] = SRT(rate),
                                       !.CLKE = IF "rate" \in gone THEN off ELSE on_]
             /\ regs' = [regs EXCEPT !.APLL = Updated("APLL", Premode(rate), TRUE),
                                     ![SR(c)] = Updated(SR(c), SRT(rate), "rate" \notin gone),
                                     !.CLKE = IF gone \cap {"rate", "on"} = {} THEN on_
                                              ELSE Updated("CLKE", off, "off" \notin gone)]
     /\ UpdateHistory(c, s, rate, gone)

\* RK809DaiParamsUpdate: before any trigger nothing is updated, with success.
DaiParamsUpdate(s, rate, gone) ==
  IF g_cuurentcmd = BUTT
  THEN gone = {} /\ UNCHANGED <<regs, cache, divided, ahead, lost>> /\ asked' = [asked EXCEPT ![s] = 0]
  ELSE UpdateParams(g_cuurentcmd, s, rate, gone)

\* Rk809DaiHwParams.
DaiHwParams(s, rate, gone) ==
  /\ pc[s] = "idle" /\ Bus(gone)
  /\ DaiParamsUpdate(s, rate, gone)
  /\ UNCHANGED <<vars, g_cuurentcmd, cut>>

CardNext ==
  \/ \E s \in Streams : Start(s) /\ \E gone \in Losses(DOMAIN Table(s, TRUE)) : NormalTrigger(s, TRUE, gone)
  \/ \E s \in Streams, to \in {"paused", "stopped"} :
       Stop(s, to) /\ \E gone \in Losses(DOMAIN Table(s, FALSE)) : NormalTrigger(s, FALSE, gone)
  \/ \E s \in Streams : (Count(s) \/ Xfer(s) \/ Clear(s)) /\ UNCHANGED codec
  \/ \E s \in Streams, rate \in Rates, gone \in Losses(ParamWrites) : DaiHwParams(s, rate, gone)

CardSpec == CardInit /\ [][CardNext]_cardVars

-----------------------------------------------------------------------------
(* Properties.                                                             *)

\* A stream whose last parameters were given under a command of its own, with success, has
\* its rate in the codec, until a call for the other stream or one that fails in its last
\* write changes it, or capture is started or stopped; and the divider that both streams
\* share is the one of the last call's rate, of one that fails after it too.  A stream's
\* first parameters never get there.  Where a write was lost, the next call finds the value
\* in the cache and succeeds without it.
CodecHasRates ==
  /\ \A s \in Streams : asked[s] # 0 /\ SR(s) \notin ahead => regs[SR(s)] = SRT(asked[s])
  /\ divided # 0 /\ "APLL" \notin ahead => regs.APLL = Premode(divided)

Quiet == \A s \in Streams : pc[s] = "idle" /\ stray[s] = 0

\* Playback that runs is transferred, has its DMA requests and a codec that puts it out,
\* unless capture was started, paused or stopped since, the bus lost its table, or the
\* count that it shares with capture went wrong.
PlaybackSounds ==
  status[Render] = "running" /\ Quiet /\ ~ crossed /\ Render \notin cut \cup lost =>
    xfer /\ Render \in dmacr /\ regs.DACST = 4 /\ regs.ADAC_CFG1 = 0

\* Capture, on the other hand, keeps its converter and its clock whatever playback does.
CaptureRecords ==
  status[Capture] = "running" /\ Capture \notin lost =>
    Capture \in regs.CLKE /\ regs.AADC_CFG0 = 8

\* What a running stream needs of the card is there, but for what the two streams do to
\* each other through the registers and the count they share.
StreamsSound == PlaybackSounds /\ CaptureRecords

\* The codec has the rates that were asked for and plays and records what runs, except
\* where one stream's command or failed write reaches the other's registers.
CodecServesStreams == CodecHasRates /\ StreamsSound
=============================================================================
