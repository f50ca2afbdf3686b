----------------------------- MODULE AudioTriggers -----------------------------
(***************************************************************************)
(* The trigger of the I2S interface (rk3568_dai_ops.c): playback and       *)
(* capture start, pause, resume and stop it from two threads.  Each        *)
(* direction has its clock and its DMA request bit; the transfer bits of   *)
(* both directions are set by the call that takes the shared refcount from *)
(* 0 to 1 and cleared by the one that brings it back to 0.  The xfer lock  *)
(* of the device is initialised and never taken, so the calls interleave.  *)
(*                                                                         *)
(* The commands come from the audio framework, one at a time per stream:   *)
(* it starts a stopped stream, pauses a running one, resumes a paused one  *)
(* and stops one that runs or is paused.                                   *)
(***************************************************************************)
EXTENDS Integers

CONSTANTS
  Render, Capture,
  MaxStray      \* bound on the commands per stream that unbalance the count

ASSUME AudioTriggersAssumption == Render # Capture /\ MaxStray \in Nat

Streams == {Render, Capture}
Other(s) == IF s = Render THEN Capture ELSE Render

VARIABLES
  status,       \* framework: what it last asked of each stream
  pc,           \* where the call of each stream's thread is
  on,           \* ...and triggerFlag in it
  clk,          \* enable counts of mclk_tx and mclk_rx
  dmacr,        \* the streams enabled in I2S_DMACR
  refcount,
  xfer,         \* the transfer bits of I2S_XFER
  stray,        \* history: stops of a stream that was not counted, starts that were not
  crossed       \* history: the last to start or stop the transfer by its count did so
                \* before the one before it was done

vars == <<status, pc, on, clk, dmacr, refcount, xfer, stray, crossed>>

\* rockchip_i2s_tdm_probe leaves both clocks enabled once.
Init ==
  /\ status = [s \in Streams |-> "stopped"]
  /\ pc = [s \in Streams |-> "idle"] /\ on = [s \in Streams |-> FALSE]
  /\ clk = [s \in Streams |-> 1] /\ dmacr = {}
  /\ refcount = 0 /\ xfer = FALSE
  /\ stray = [s \in Streams |-> 0] /\ crossed = FALSE

-----------------------------------------------------------------------------

\* START or RESUME: the clock and the DMA requests.  Capture reads the register back
\* and returns, with success, if that fails: it is not counted.
Start(s) ==
  /\ pc[s] = "idle" /\ status[s] \in {"stopped", "paused"}
  /\ status' = [status EXCEPT ![s] = "running"]
  /\ clk' = [clk EXCEPT ![s] = @ + 1]
  /\ dmacr' = dmacr \cup {s}
  /\ on' = [on EXCEPT ![s] = TRUE]
  /\ \/ pc' = [pc EXCEPT ![s] = "count"] /\ UNCHANGED stray
     \/ /\ s = Capture /\ stray[s] < MaxStray
        /\ stray' = [stray EXCEPT ![s] = @ + 1] /\ UNCHANGED pc
  /\ UNCHANGED <<refcount, xfer, crossed>>

Stop_PauseUncounted(s, to) ==
  /\ pc[s] = "idle" /\ status[s] = "running"
  /\ status' = [status EXCEPT ![s] = to]
  /\ clk' = [clk EXCEPT ![s] = IF @ = 0 THEN 0 ELSE @ - 1]
  /\ dmacr' = dmacr \ {s}
  /\ on' = [on EXCEPT ![s] = FALSE] /\ pc' = [pc EXCEPT ![s] = IF to = "paused" THEN @ ELSE "count"]
  /\ UNCHANGED <<refcount, xfer, stray, crossed>>

\* PAUSE and STOP are one and the same, also for a stream that was paused already.  The
\* kernel ignores a disable of a clock that is off.
Stop(s, to) ==
  /\ pc[s] = "idle"
  /\ \/ status[s] = "running" /\ UNCHANGED stray
     \/ /\ status[s] = "paused" /\ to = "stopped" /\ stray[s] < MaxStray
        /\ stray' = [stray EXCEPT ![s] = @ + 1]
  /\ status' = [status EXCEPT ![s] = to]
  /\ clk' = [clk EXCEPT ![s] = IF @ = 0 THEN 0 ELSE @ - 1]
  /\ dmacr' = dmacr \ {s}
  /\ on' = [on EXCEPT ![s] = FALSE] /\ pc' = [pc EXCEPT ![s] = "count"]
  /\ UNCHANGED <<refcount, xfer, crossed>>

Hits_OldValue(s) == refcount = (IF on[s] THEN 1 ELSE 0)

\* atomic_inc_return, atomic_dec_and_test.
Hits(s) == refcount = (IF on[s] THEN 0 ELSE 1)

Count(s) ==
  /\ pc[s] = "count"
  /\ refcount' = IF on[s] THEN refcount + 1 ELSE refcount - 1
  /\ pc' = [pc EXCEPT ![s] = IF Hits(s) THEN "xfer" ELSE "idle"]
  /\ crossed' = IF Hits(s) THEN pc[Other(s)] \in {"xfer", "clear"} ELSE crossed
  /\ UNCHANGED <<status, on, clk, dmacr, xfer, stray>>

Xfer(s) ==
  /\ pc[s] = "xfer"
  /\ xfer' = on[s]
  /\ pc' = [pc EXCEPT ![s] = IF on[s] THEN "idle" ELSE "clear"]
  /\ UNCHANGED <<status, on, clk, dmacr, refcount, stray, crossed>>

\* 150 us later, the FIFOs of both directions.
Clear(s) ==
  /\ pc[s] = "clear"
  /\ pc' = [pc EXCEPT ![s] = "idle"]
  /\ UNCHANGED <<status, on, clk, dmacr, refcount, xfer, stray, crossed>>

Next ==
  \E s \in Streams :
    \/ Start(s) \/ Stop(s, "paused") \/ Stop(s, "stopped")
    \/ Count(s) \/ Xfer(s) \/ Clear(s)

Spec == Init /\ [][Next]_vars

-----------------------------------------------------------------------------
(* Properties.                                                             *)

\* The variables' types; each clock is enabled at most twice.
TypeOK ==
  /\ status \in [Streams -> {"stopped", "running", "paused"}]
  /\ pc \in [Streams -> {"idle", "count", "xfer", "clear"}]
  /\ on \in [Streams -> BOOLEAN]
  /\ clk \in [Streams -> 0 .. 2] /\ dmacr \in SUBSET Streams
  /\ refcount \in Int /\ {xfer, crossed} \subseteq BOOLEAN
  /\ stray \in [Streams -> 0 .. MaxStray]

\* What a stream has in the count: one if it runs, except that its command is counted
\* only when the call gets there, less one for good for every stray command.
Share(s) == (IF (status[s] = "running") # (pc[s] = "count") THEN 1 ELSE 0) - stray[s]

\* The count is the number of running streams, whatever the interleaving, less one for
\* every stop of a paused stream and every capture start that was given up: those
\* take the interface from the other stream as well, and nothing gives it back.
CountsStreams == refcount = Share(Render) + Share(Capture)

\* Between calls the interface transfers iff the count is positive, and the FIFOs of a
\* running transfer are never cleared, unless the last start and stop overlapped: the
\* count crossed while the other thread was still writing the registers, which the lock
\* would prevent.  The next one that crosses alone repairs it.
InterfaceFollowsCount ==
  ~ crossed => /\ (\A s \in Streams : pc[s] # "xfer") => (xfer <=> refcount > 0)
               /\ (\E s \in Streams : pc[s] = "clear") => ~ xfer

\* The interface transfers while, and only while, a stream runs, but for the stray commands
\* and for commands that overlapped.
InterfaceServesRunning == CountsStreams /\ InterfaceFollowsCount
=============================================================================
