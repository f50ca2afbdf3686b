------------------------------ MODULE AudioClock ------------------------------
(***************************************************************************)
(* The clocks of the I2S interface: Rk3568DaiHwParams (rk3568_dai_ops.c).  *)
(* Playback and capture each set the parameters of their stream from a     *)
(* thread of their own, and each call sets the master clocks and the       *)
(* divider of both directions.  A rate is reached by a master clock of its *)
(* family (8, 16, 48 kHz, ...: 192 kHz; 11.025, 22.05, 44.1 kHz:           *)
(* 176.4 kHz, both times bclk_fs, which cancels out) and a divider.  The   *)
(* clocks are set before the format and the channels are looked at, so a   *)
(* call that fails has changed them.                                       *)
(***************************************************************************)
EXTENDS AudioStreams, Integers

CONSTANTS
  Rates,        \* the rates that are asked for
  Parent        \* per rate, the rate of its family that the master clocks run at

ASSUME AudioClockAssumption ==
  /\ Rates \subseteq Nat \ {0}
  /\ Parent \in [Rates -> Nat \ {0}] /\ \A r \in Rates : Parent[r] % r = 0

VARIABLES
  pc,           \* where the call of each stream's thread is
  rate,         \* ...and the rate it asks for
  freq,         \* mclk_tx_freq (Render) and mclk_rx_freq (Capture)
  mclk,         \* the clocks mclk_tx and mclk_rx
  div,          \* I2S_CLKDIV: the same in both directions
  asked,        \* the rate of the last call of each stream, 0 if none or if it failed
  refamilied,   \* history: the streams whose family the other call did not share, since
                \* their own call began
  redivided     \* history: those the other call set the divider for another rate of, since
                \* their own call ended

clockVars == <<pc, rate, freq, mclk, div, asked, refamilied, redivided>>

Parents == {Parent[r] : r \in Rates}

\* The clock tree starts with one of the rates; the divider register resets to 8.
ClockInit ==
  /\ pc = [s \in Streams |-> "idle"] /\ rate \in [Streams -> Rates]
  /\ freq = [s \in Streams |-> 0]
  /\ mclk \in {[s \in Streams |-> p] : p \in Parents}
  /\ div = 8 /\ asked = [s \in Streams |-> 0]
  /\ refamilied = {} /\ redivided = {}

\* DIV_ROUND_CLOSEST.
Closest(n, d) == (n + d \div 2) \div d

-----------------------------------------------------------------------------

\* SetSysClk stores the frequency for playback...
SetSysClk(s, r) ==
  /\ pc[s] = "idle"
  /\ rate' = [rate EXCEPT ![s] = r]
  /\ freq' = [freq EXCEPT ![Render] = Parent[r]]
  /\ asked' = [asked EXCEPT ![s] = 0]
  /\ pc' = [pc EXCEPT ![s] = "rxfreq"]
  /\ refamilied' =
       {t \in Streams :
          IF t = s THEN pc[Other(s)] # "idle" /\ Parent[rate[Other(s)]] # Parent[r]
          ELSE t \in refamilied \/ Parent[rate[t]] # Parent[r]}
  /\ UNCHANGED <<mclk, div, redivided>>

\* ...and for capture.
SetRxFreq(s) ==
  /\ pc[s] = "rxfreq"
  /\ freq' = [freq EXCEPT ![Capture] = Parent[rate[s]]]
  /\ pc' = [pc EXCEPT ![s] = "tx"]
  /\ UNCHANGED <<rate, mclk, div, asked, refamilied, redivided>>

\* Any of the calls after it may fail, and ends HwParams as it is.
Fails(s) ==
  /\ pc[s] \in {"tx", "rx", "write"}
  /\ pc' = [pc EXCEPT ![s] = "idle"]
  /\ UNCHANGED <<rate, freq, mclk, div, asked, refamilied, redivided>>

SetTx_OwnOnly(s) ==
  /\ pc[s] = "tx"
  /\ mclk' = [mclk EXCEPT ![Render] = IF s = Render THEN freq[Render] ELSE @]
  /\ pc' = [pc EXCEPT ![s] = "rx"]
  /\ UNCHANGED <<rate, freq, div, asked, refamilied, redivided>>

\* clk_set_rate takes what the fields hold now.
SetTx(s) ==
  /\ pc[s] = "tx"
  /\ mclk' = [mclk EXCEPT ![Render] = freq[Render]]
  /\ pc' = [pc EXCEPT ![s] = "rx"]
  /\ UNCHANGED <<rate, freq, div, asked, refamilied, redivided>>

SetRx(s) ==
  /\ pc[s] = "rx"
  /\ mclk' = [mclk EXCEPT ![Capture] = freq[Capture]]
  /\ pc' = [pc EXCEPT ![s] = "write"]
  /\ UNCHANGED <<rate, freq, div, asked, refamilied, redivided>>

\* The divider is worked out from the playback clock as it is now.
Write(s) ==
  /\ pc[s] = "write"
  /\ div' = Closest(mclk[Render], rate[s])
  /\ asked' = [asked EXCEPT ![s] = rate[s]]
  /\ pc' = [pc EXCEPT ![s] = "idle"]
  /\ redivided' = {t \in Streams : t # s /\ (t \in redivided \/ rate[t] # rate[s])}
  /\ UNCHANGED <<rate, freq, mclk, refamilied>>

ClockNext ==
  \E s \in Streams :
    \/ SetRxFreq(s) \/ Fails(s) \/ SetTx(s) \/ SetRx(s) \/ Write(s)
    \/ \E r \in Rates : SetSysClk(s, r)

ClockSpec == ClockInit /\ [][ClockNext]_clockVars

-----------------------------------------------------------------------------
(* Properties.                                                             *)

\* A stream whose parameters were accepted runs at the rate it asked for, unless the
\* other stream asked for a rate of the other family since, even in a call that then
\* failed, or set the divider for another rate.
PitchIsRight ==
  \A s \in Streams : asked[s] # 0 /\ s \notin refamilied \cup redivided => mclk[s] = asked[s] * div
=============================================================================
