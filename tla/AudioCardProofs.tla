--------------------------- MODULE AudioCardProofs ---------------------------
(* Proofs about AudioTriggers, for any bound on the stray commands; and about *)
(* the card, which is the interface with the codec beside it, for any rates   *)
(* and any number of failures of the bus.                                     *)
EXTENDS AudioCodec, TLAPS

LEMMA Two == \A s \in Streams : Other(s) \in Streams /\ Other(s) # s /\ Streams = {s, Other(s)} /\ Other(Other(s)) = s
  BY AudioTriggersAssumption DEF Streams, Other

\* The variables keep their types: no clock is enabled twice by a stream.  A stream's clock
\* is on twice only while it runs.
ClockInv == \A s \in Streams : status[s] # "running" => clk[s] <= 1

LEMMA TypeInit == Init => TypeOK /\ ClockInv
<1> SUFFICES ASSUME Init PROVE TypeOK /\ ClockInv
  OBVIOUS
<1>1. clk \in [Streams -> 0 .. 2] /\ ClockInv
  BY DEF Init, ClockInv
<1>2. stray \in [Streams -> 0 .. MaxStray]
  BY AudioTriggersAssumption DEF Init
<1>3. status \in [Streams -> {"stopped", "running", "paused"}] /\ pc \in [Streams -> {"idle", "count", "xfer", "clear"}]
  BY DEF Init
<1>4. xfer = FALSE /\ crossed = FALSE /\ refcount \in Int /\ dmacr \in SUBSET Streams
  BY DEF Init
<1>5. on \in [Streams -> BOOLEAN]
  BY DEF Init
<1> QED
  BY <1>1, <1>2, <1>3, <1>4, <1>5 DEF TypeOK

LEMMA TypeStep == TypeOK /\ ClockInv /\ [Next]_vars => TypeOK' /\ ClockInv'
<1> SUFFICES ASSUME TypeOK, ClockInv, [Next]_vars PROVE TypeOK' /\ ClockInv'
  OBVIOUS
<1> USE DEF TypeOK, ClockInv
<1>1. ASSUME NEW s \in Streams, Start(s) PROVE TypeOK' /\ ClockInv'
  <2>1. clk[s] \in 0 .. 1
    BY <1>1 DEF Start
  <2>2. clk' = [clk EXCEPT ![s] = clk[s] + 1] /\ clk[s] + 1 \in 0 .. 2
    BY <1>1, <2>1 DEF Start
  <2>3. clk' \in [Streams -> 0 .. 2] /\ ClockInv'
    BY <1>1, <2>2 DEF Start
  <2>4. stray' \in [Streams -> 0 .. MaxStray]
    <3>1. CASE UNCHANGED stray
      BY <3>1
    <3>2. CASE stray[s] < MaxStray /\ stray' = [stray EXCEPT ![s] = @ + 1]
      <4>1. stray[s] + 1 \in 0 .. MaxStray
        BY <3>2, AudioTriggersAssumption
      <4> QED
        BY <3>2, <4>1
    <3> QED
      BY <1>1, <3>1, <3>2 DEF Start
  <2>5. pc' \in [Streams -> {"idle", "count", "xfer", "clear"}]
    BY <1>1 DEF Start
  <2> QED
    BY <1>1, <2>3, <2>4, <2>5 DEF Start
<1>2. ASSUME NEW s \in Streams, NEW to \in {"paused", "stopped"}, Stop(s, to) PROVE TypeOK' /\ ClockInv'
  <2>1. clk' = [clk EXCEPT ![s] = IF clk[s] = 0 THEN 0 ELSE clk[s] - 1]
    BY <1>2 DEF Stop
  <2>2. (IF clk[s] = 0 THEN 0 ELSE clk[s] - 1) \in 0 .. 1
    OBVIOUS
  <2>3. clk' \in [Streams -> 0 .. 2] /\ clk'[s] <= 1
    BY <2>1, <2>2
  <2>4. ClockInv'
    BY <1>2, <2>1, <2>3 DEF Stop
  <2>5. stray' \in [Streams -> 0 .. MaxStray]
    <3>1. CASE UNCHANGED stray
      BY <3>1
    <3>2. CASE stray[s] < MaxStray /\ stray' = [stray EXCEPT ![s] = @ + 1]
      <4>1. stray[s] + 1 \in 0 .. MaxStray
        BY <3>2, AudioTriggersAssumption
      <4> QED
        BY <3>2, <4>1
    <3> QED
      BY <1>2, <3>1, <3>2 DEF Stop
  <2> QED
    BY <1>2, <2>3, <2>4, <2>5 DEF Stop
<1>3. ASSUME NEW s \in Streams, Count(s) PROVE TypeOK' /\ ClockInv'
  <2>1. refcount' \in Int
    BY <1>3 DEF Count
  <2>2. crossed' \in BOOLEAN
    <3>1. CASE Hits(s)
      BY <1>3, <3>1 DEF Count
    <3>2. CASE ~ Hits(s)
      BY <1>3, <3>2 DEF Count
    <3> QED
      BY <3>1, <3>2
  <2>3. pc' \in [Streams -> {"idle", "count", "xfer", "clear"}]
    BY <1>3 DEF Count
  <2> QED
    BY <1>3, <2>1, <2>2, <2>3 DEF Count
<1>4. ASSUME NEW s \in Streams, Xfer(s) PROVE TypeOK' /\ ClockInv'
  BY <1>4 DEF Xfer
<1>5. ASSUME NEW s \in Streams, Clear(s) PROVE TypeOK' /\ ClockInv'
  BY <1>5 DEF Clear
<1>6. CASE UNCHANGED vars
  BY <1>6 DEF vars
<1> QED
  BY <1>1, <1>2, <1>3, <1>4, <1>5, <1>6 DEF Next

\* The types of the trigger's state hold in every behaviour; in particular each clock's
\* enable count stays between 0 and 2.
THEOREM TypeCorrect == Spec => []TypeOK
  BY TypeInit, TypeStep, PTL DEF Spec

-----------------------------------------------------------------------------

\* A thread about to write the registers, alone, still has the count on its side.
WriteInv ==
  ~ crossed => \A s \in Streams :
    /\ pc[s] \in {"xfer", "clear"} => pc[Other(s)] \notin {"xfer", "clear"}
    /\ pc[s] = "xfer" => (on[s] <=> refcount > 0)
    /\ pc[s] = "clear" => refcount <= 0

\* A call turns on what the framework asked to run, and off what it asked to stop.
CommandInv == \A s \in Streams : pc[s] # "idle" => (on[s] <=> status[s] = "running")

TriggersInv == TypeOK /\ ClockInv /\ CommandInv /\ CountsStreams /\ WriteInv /\ InterfaceFollowsCount

\* The sum of the shares, seen from one stream.
ShareFacts ==
  \A s \in Streams :
    /\ Share(s) \in Int /\ Share(Other(s)) \in Int
    /\ Share(Render) + Share(Capture) = Share(s) + Share(Other(s))

LEMMA SharesOf == TypeOK => ShareFacts
<1> SUFFICES ASSUME TypeOK, NEW s \in Streams
             PROVE  /\ Share(s) \in Int /\ Share(Other(s)) \in Int
                    /\ Share(Render) + Share(Capture) = Share(s) + Share(Other(s))
  BY DEF ShareFacts
<1>1. ASSUME NEW t \in Streams PROVE Share(t) \in Int
  <2>1. stray[t] \in Int
    BY AudioTriggersAssumption DEF TypeOK
  <2>2. (IF (status[t] = "running") # (pc[t] = "count") THEN 1 ELSE 0) \in Int
    OBVIOUS
  <2> QED
    BY <2>1, <2>2 DEF Share
<1>2. Render \in Streams /\ Capture \in Streams /\ (s = Render \/ s = Capture)
  BY DEF Streams
<1>3. Other(Render) = Capture /\ Other(Capture) = Render
  BY AudioTriggersAssumption DEF Other
<1>4. Share(Render) \in Int /\ Share(Capture) \in Int
  BY <1>1, <1>2
<1> QED
  BY <1>2, <1>3, <1>4

\* A step of s alone that moves the count as much as the share of s keeps them equal.
LEMMA CountMoves ==
  ASSUME TypeOK, TypeOK', CountsStreams, NEW s \in Streams,
         Share(Other(s))' = Share(Other(s)),
         refcount' - refcount = Share(s)' - Share(s)
  PROVE  CountsStreams'
<1>1. Share(s) \in Int /\ Share(Other(s)) \in Int /\ refcount = Share(s) + Share(Other(s))
  BY SharesOf DEF CountsStreams, ShareFacts
<1>2. ShareFacts'
  BY SharesOf, PTL
<1>3. Share(s)' \in Int /\ refcount \in Int /\ refcount' \in Int
  BY <1>2 DEF ShareFacts, TypeOK
<1>4. refcount' = Share(s)' + Share(Other(s))'
  BY <1>1, <1>3
<1> QED
  BY <1>2, <1>4 DEF CountsStreams, ShareFacts

LEMMA InvInit == Init => TriggersInv
<1> SUFFICES ASSUME Init PROVE TriggersInv
  OBVIOUS
<1>1. TypeOK /\ ClockInv
  BY TypeInit
<1>2. CountsStreams
  <2>1. Share(Render) = 0 /\ Share(Capture) = 0
    BY DEF Init, Share, Streams
  <2> QED
    BY <2>1 DEF CountsStreams, Init
<1>3. CommandInv /\ WriteInv /\ InterfaceFollowsCount
  BY DEF Init, CommandInv, WriteInv, InterfaceFollowsCount
<1> QED
  BY <1>1, <1>2, <1>3 DEF TriggersInv

LEMMA CountsStep == TriggersInv /\ TypeOK' /\ [Next]_vars => CountsStreams'
<1> SUFFICES ASSUME TriggersInv, TypeOK', [Next]_vars PROVE CountsStreams'
  OBVIOUS
<1>0. TypeOK /\ CountsStreams
  BY DEF TriggersInv
<1>a. ASSUME NEW s \in Streams PROVE stray[s] \in Int /\ Other(s) \in Streams /\ Other(s) # s
  BY <1>0, Two, AudioTriggersAssumption DEF TypeOK
<1>1. ASSUME NEW s \in Streams, Start(s) PROVE CountsStreams'
  <2>1. Share(Other(s))' = Share(Other(s))
    BY <1>0, <1>1, <1>a DEF Start, Share, TypeOK
  <2>2. Share(s)' = Share(s) /\ refcount' = refcount
    <3>1. CASE pc' = [pc EXCEPT ![s] = "count"] /\ UNCHANGED stray
      BY <1>0, <1>1, <3>1 DEF Start, Share, TypeOK
    <3>2. CASE stray' = [stray EXCEPT ![s] = @ + 1] /\ UNCHANGED pc
      <4>1. Share(s) = 0 - stray[s] /\ Share(s)' = 1 - (stray[s] + 1)
        BY <1>0, <1>1, <3>2, <1>a DEF Start, Share, TypeOK
      <4> QED
        BY <1>1, <1>a, <4>1 DEF Start
    <3> QED
      BY <1>1, <3>1, <3>2 DEF Start
  <2>3. refcount' - refcount = Share(s)' - Share(s)
    BY <1>0, <2>2, SharesOf DEF TypeOK, ShareFacts
  <2> QED
    BY <1>0, <2>1, <2>3, CountMoves
<1>2. ASSUME NEW s \in Streams, NEW to \in {"paused", "stopped"}, Stop(s, to) PROVE CountsStreams'
  <2>1. Share(Other(s))' = Share(Other(s))
    BY <1>0, <1>2, <1>a DEF Stop, Share, TypeOK
  <2>2. Share(s)' = Share(s) /\ refcount' = refcount
    <3>1. CASE status[s] = "running" /\ UNCHANGED stray
      <4>1. Share(s) = 1 - stray[s] /\ Share(s)' = 1 - stray[s]
        BY <1>0, <1>2, <3>1, <1>a DEF Stop, Share, TypeOK
      <4> QED
        BY <1>2, <4>1 DEF Stop
    <3>2. CASE status[s] = "paused" /\ stray' = [stray EXCEPT ![s] = @ + 1]
      <4>1. Share(s) = 0 - stray[s] /\ Share(s)' = 1 - (stray[s] + 1)
        BY <1>0, <1>2, <3>2, <1>a DEF Stop, Share, TypeOK
      <4> QED
        BY <1>2, <1>a, <4>1 DEF Stop
    <3> QED
      BY <1>2, <3>1, <3>2 DEF Stop
  <2>3. refcount' - refcount = Share(s)' - Share(s)
    BY <1>0, <2>2, SharesOf DEF TypeOK, ShareFacts
  <2> QED
    BY <1>0, <2>1, <2>3, CountMoves
<1>3. ASSUME NEW s \in Streams, Count(s) PROVE CountsStreams'
  <2>1. Share(Other(s))' = Share(Other(s))
    BY <1>0, <1>3, <1>a DEF Count, Share, TypeOK
  <2>2. pc'[s] # "count" /\ status' = status /\ stray' = stray /\ pc[s] = "count"
    BY <1>0, <1>3 DEF Count, TypeOK
  <2>3. CASE on[s]
    <3>1. status[s] = "running"
      BY <1>3, <2>3 DEF TriggersInv, CommandInv, Count
    <3>2. Share(s) = 0 - stray[s] /\ Share(s)' = 1 - stray[s] /\ refcount' = refcount + 1
      BY <1>3, <2>2, <2>3, <3>1 DEF Share, Count
    <3>3. refcount' - refcount = Share(s)' - Share(s)
      BY <1>0, <1>a, <3>2 DEF TypeOK
    <3> QED
      BY <1>0, <2>1, <3>3, CountMoves
  <2>4. CASE ~ on[s]
    <3>1. status[s] # "running"
      BY <1>3, <2>4 DEF TriggersInv, CommandInv, Count
    <3>2. Share(s) = 1 - stray[s] /\ Share(s)' = 0 - stray[s] /\ refcount' = refcount - 1
      BY <1>3, <2>2, <2>4, <3>1 DEF Share, Count
    <3>3. refcount' - refcount = Share(s)' - Share(s)
      BY <1>0, <1>a, <3>2 DEF TypeOK
    <3> QED
      BY <1>0, <2>1, <3>3, CountMoves
  <2> QED
    BY <2>3, <2>4
<1>4. ASSUME NEW s \in Streams, Xfer(s) PROVE CountsStreams'
  <2>1. \A t \in Streams : Share(t)' = Share(t)
    BY <1>0, <1>4 DEF Xfer, Share, TypeOK
  <2> QED
    BY <1>0, <1>4, <2>1 DEF Xfer, CountsStreams, Streams
<1>5. ASSUME NEW s \in Streams, Clear(s) PROVE CountsStreams'
  <2>1. \A t \in Streams : Share(t)' = Share(t)
    BY <1>0, <1>5 DEF Clear, Share, TypeOK
  <2> QED
    BY <1>0, <1>5, <2>1 DEF Clear, CountsStreams, Streams
<1>6. CASE UNCHANGED vars
  BY <1>0, <1>6 DEF vars, CountsStreams, Share
<1> QED
  BY <1>1, <1>2, <1>3, <1>4, <1>5, <1>6 DEF Next

LEMMA CommandStep == TriggersInv /\ [Next]_vars => CommandInv'
<1> SUFFICES ASSUME TriggersInv, [Next]_vars PROVE CommandInv'
  OBVIOUS
<1> USE DEF TriggersInv, CommandInv
<1>1. ASSUME NEW s \in Streams, Start(s) PROVE CommandInv'
  BY <1>1 DEF Start, TypeOK
<1>2. ASSUME NEW s \in Streams, NEW to \in {"paused", "stopped"}, Stop(s, to) PROVE CommandInv'
  BY <1>2 DEF Stop, TypeOK
<1>3. ASSUME NEW s \in Streams, Count(s) PROVE CommandInv'
  BY <1>3 DEF Count, TypeOK
<1>4. ASSUME NEW s \in Streams, Xfer(s) PROVE CommandInv'
  BY <1>4 DEF Xfer, TypeOK
<1>5. ASSUME NEW s \in Streams, Clear(s) PROVE CommandInv'
  BY <1>5 DEF Clear, TypeOK
<1>6. CASE UNCHANGED vars
  BY <1>6 DEF vars
<1> QED
  BY <1>1, <1>2, <1>3, <1>4, <1>5, <1>6 DEF Next

LEMMA WriteStep == TriggersInv /\ [Next]_vars => WriteInv' /\ InterfaceFollowsCount'
<1> SUFFICES ASSUME TriggersInv, [Next]_vars PROVE WriteInv' /\ InterfaceFollowsCount'
  OBVIOUS
<1>0. TypeOK /\ CommandInv /\ WriteInv /\ InterfaceFollowsCount
  BY DEF TriggersInv
<1>1. ASSUME NEW s \in Streams, Start(s) PROVE WriteInv' /\ InterfaceFollowsCount'
  <2>1. \A t \in Streams : pc'[t] \in {"xfer", "clear"} \/ pc[t] \in {"xfer", "clear"} => pc'[t] = pc[t] /\ on'[t] = on[t]
    BY <1>0, <1>1 DEF Start, TypeOK
  <2>2. UNCHANGED <<refcount, xfer, crossed>>
    BY <1>1 DEF Start
  <2> QED
    BY <1>0, <2>1, <2>2, Two DEF WriteInv, InterfaceFollowsCount
<1>2. ASSUME NEW s \in Streams, NEW to \in {"paused", "stopped"}, Stop(s, to)
      PROVE WriteInv' /\ InterfaceFollowsCount'
  <2>1. \A t \in Streams : pc'[t] \in {"xfer", "clear"} \/ pc[t] \in {"xfer", "clear"} => pc'[t] = pc[t] /\ on'[t] = on[t]
    BY <1>0, <1>2 DEF Stop, TypeOK
  <2>2. UNCHANGED <<refcount, xfer, crossed>>
    BY <1>2 DEF Stop
  <2> QED
    BY <1>0, <2>1, <2>2, Two DEF WriteInv, InterfaceFollowsCount
<1>3. ASSUME NEW s \in Streams, Count(s) PROVE WriteInv' /\ InterfaceFollowsCount'
  <2>1. /\ UNCHANGED <<on, xfer>> /\ refcount \in Int /\ on[s] \in BOOLEAN /\ pc[s] = "count"
        /\ refcount' = IF on[s] THEN refcount + 1 ELSE refcount - 1
    BY <1>0, <1>3 DEF Count, TypeOK
  <2>2. Other(s) \in Streams /\ Other(s) # s /\ Streams = {s, Other(s)} /\ Other(Other(s)) = s
    BY Two
  <2>3. CASE Hits(s)
    <3>1. /\ pc' = [pc EXCEPT ![s] = "xfer"]
          /\ crossed' = (pc[Other(s)] \in {"xfer", "clear"})
      BY <1>3, <2>3 DEF Count
    <3>2. pc'[s] = "xfer" /\ pc'[Other(s)] = pc[Other(s)]
      BY <1>0, <2>2, <3>1 DEF TypeOK
    <3>3. on[s] <=> refcount' > 0
      BY <2>1, <2>3 DEF Hits
    <3>4. ~ crossed' => pc'[Other(s)] \notin {"xfer", "clear"}
      BY <3>1, <3>2
    <3> QED
      BY <2>1, <2>2, <3>2, <3>3, <3>4 DEF WriteInv, InterfaceFollowsCount
  <2>4. CASE ~ Hits(s)
    <3>1. pc' = [pc EXCEPT ![s] = "idle"] /\ crossed' = crossed
      BY <1>3, <2>4 DEF Count
    <3>2. pc'[s] = "idle" /\ pc'[Other(s)] = pc[Other(s)]
      BY <1>0, <2>2, <3>1 DEF TypeOK
    <3>3. refcount' > 0 <=> refcount > 0
      BY <2>1, <2>4 DEF Hits
    <3>4. refcount' <= 0 <=> refcount <= 0
      BY <2>1, <3>3
    <3> QED
      BY <1>0, <2>1, <2>2, <3>1, <3>2, <3>3, <3>4 DEF WriteInv, InterfaceFollowsCount
  <2> QED
    BY <2>3, <2>4
<1>4. ASSUME NEW s \in Streams, Xfer(s) PROVE WriteInv' /\ InterfaceFollowsCount'
  <2>1. /\ UNCHANGED <<on, refcount, crossed>> /\ xfer' = on[s] /\ pc[s] = "xfer" /\ refcount \in Int
        /\ pc' = [pc EXCEPT ![s] = IF on[s] THEN "idle" ELSE "clear"]
    BY <1>0, <1>4 DEF Xfer, TypeOK
  <2>2. Other(s) \in Streams /\ Other(s) # s /\ Streams = {s, Other(s)} /\ Other(Other(s)) = s
    BY Two
  <2>3. pc'[s] = (IF on[s] THEN "idle" ELSE "clear") /\ pc'[Other(s)] = pc[Other(s)]
    BY <1>0, <2>1, <2>2 DEF TypeOK
  <2>4. ~ crossed => (on[s] <=> refcount > 0) /\ pc[Other(s)] \notin {"xfer", "clear"}
    BY <1>0, <2>1 DEF WriteInv
  <2> QED
    BY <2>1, <2>2, <2>3, <2>4 DEF WriteInv, InterfaceFollowsCount
<1>5. ASSUME NEW s \in Streams, Clear(s) PROVE WriteInv' /\ InterfaceFollowsCount'
  <2>1. UNCHANGED <<on, refcount, xfer, crossed>> /\ pc[s] = "clear" /\ pc' = [pc EXCEPT ![s] = "idle"]
    BY <1>5 DEF Clear
  <2>2. Other(s) \in Streams /\ Other(s) # s /\ Streams = {s, Other(s)}
    BY Two
  <2>3. pc'[s] = "idle" /\ pc'[Other(s)] = pc[Other(s)]
    BY <1>0, <2>1, <2>2 DEF TypeOK
  <2> QED
    BY <1>0, <2>1, <2>2, <2>3 DEF WriteInv, InterfaceFollowsCount
<1>6. CASE UNCHANGED vars
  BY <1>0, <1>6 DEF vars, WriteInv, InterfaceFollowsCount
<1> QED
  BY <1>1, <1>2, <1>3, <1>4, <1>5, <1>6 DEF Next

LEMMA InvStep == TriggersInv /\ [Next]_vars => TriggersInv'
<1> SUFFICES ASSUME TriggersInv, [Next]_vars PROVE TriggersInv'
  OBVIOUS
<1>1. TypeOK' /\ ClockInv'
  BY TypeStep DEF TriggersInv
<1>2. CountsStreams'
  BY <1>1, CountsStep
<1> QED
  BY <1>1, <1>2, CommandStep, WriteStep DEF TriggersInv

\* The shared count is what the running streams and the stray commands make it, in
\* every interleaving of the two threads' triggers.
THEOREM CountIsStreams == Spec => []CountsStreams
<1>1. TriggersInv => CountsStreams
  BY DEF TriggersInv
<1> QED
  BY InvInit, InvStep, <1>1, PTL DEF Spec

\* Between calls the interface transfers iff the count is positive, unless the last
\* start and stop to take it across overlapped.
THEOREM InterfaceIsCount == Spec => []InterfaceFollowsCount
<1>1. TriggersInv => InterfaceFollowsCount
  BY DEF TriggersInv
<1> QED
  BY InvInit, InvStep, <1>1, PTL DEF Spec

\* The interface transfers while a stream runs, but for stray and overlapping commands.
THEOREM InterfaceServes == Spec => []InterfaceServesRunning
  BY CountIsStreams, InterfaceIsCount, PTL DEF InterfaceServesRunning

-----------------------------------------------------------------------------
(* The card.                                                               *)

LEMMA CardStep == [CardNext]_cardVars => [Next]_vars
  BY DEF CardNext, Next, DaiHwParams, cardVars

\* With the codec beside it the interface does what it does alone, so that all the
\* theorems above hold of the card.
THEOREM CardImplementsTriggers == CardSpec => Spec
<1>1. CardInit => Init
  BY DEF CardInit
<1> QED
  BY <1>1, CardStep, PTL DEF CardSpec, Spec

Registers == {"ADAC_CFG1", "DACST", "AADC_CFG0", "ADC_SR", "DAC_SR", "APLL", "CLKE"}

CodecType ==
  /\ g_cuurentcmd \in Streams \cup {BUTT} /\ asked \in [Streams -> Nat]
  /\ regs = [r \in Registers |-> regs[r]] /\ cache = [r \in Registers |-> cache[r]]

\* The rates are in the cache, and in the registers too whose last write arrived.
RatesInv ==
  /\ \A s \in Streams : asked[s] # 0 => cache[SR(s)] = SRT(asked[s])
  /\ divided # 0 => cache["APLL"] = Premode(divided)
  /\ \A r \in RateRegs : r \notin ahead => regs[r] = cache[r]

\* A stream that runs has its DMA requests; playback that nothing has cut off has an
\* output.
RunningInv ==
  /\ \A s \in Streams : status[s] = "running" => s \in dmacr
  /\ status[Render] = "running" /\ Render \notin cut \cup lost => regs["DACST"] = 4 /\ regs["ADAC_CFG1"] = 0

\* The clock of capture is on in the cache as well: otherwise the parameters of playback, which
\* write the register that both clocks are in from the cache, would turn it off.
CaptureInv ==
  status[Capture] = "running" /\ Capture \notin lost =>
    Capture \in cache["CLKE"] /\ Capture \in regs["CLKE"] /\ regs["AADC_CFG0"] = 8

CardInv == TypeOK /\ CodecType /\ RatesInv /\ RunningInv /\ CaptureInv

LEMMA Distinct == Render # Capture /\ Render # BUTT /\ Capture # BUTT
  BY AudioTriggersAssumption, AudioCodecAssumption DEF Streams

\* What is in each table of registers.
LEMMA Tables ==
  ASSUME NEW s \in Streams, NEW up \in BOOLEAN
  PROVE  /\ DOMAIN Table(s, up) \cap RateRegs = IF s = Capture THEN {"ADC_SR"} ELSE {}
         /\ "DACST" \in DOMAIN Table(s, up) /\ DOMAIN Table(s, up) \subseteq Registers
         /\ s = Render => /\ DOMAIN Table(s, up) = {"ADAC_CFG1", "DACST"}
                          /\ up => Table(s, up)["DACST"] = 4 /\ Table(s, up)["ADAC_CFG1"] = 0
         /\ s = Capture /\ up => /\ {"CLKE", "AADC_CFG0"} \subseteq DOMAIN Table(s, up)
                                 /\ Table(s, up)["CLKE"] = Streams /\ Table(s, up)["AADC_CFG0"] = 8
<1>1. CASE s = Render
  <2>1. Table(s, up) = [ADAC_CFG1 |-> IF up THEN 0 ELSE 15, DACST |-> IF up THEN 4 ELSE 6]
    BY <1>1 DEF Table, StartTable, StopTable
  <2>2. /\ DOMAIN Table(s, up) = {"ADAC_CFG1", "DACST"} /\ Table(s, up)["DACST"] = (IF up THEN 4 ELSE 6)
        /\ Table(s, up)["ADAC_CFG1"] = (IF up THEN 0 ELSE 15)
    BY <2>1
  <2> QED
    BY <1>1, <2>2, Distinct DEF RateRegs, Registers
<1>2. CASE s = Capture /\ up
  <2>1. Table(s, up) = [CLKE |-> Streams, AADC_CFG0 |-> 8, ADC_SR |-> 2, ADAC_CFG1 |-> 15, DACST |-> 4]
    BY <1>2, Distinct DEF Table, StartTable
  <2>2. /\ DOMAIN Table(s, up) = {"CLKE", "AADC_CFG0", "ADC_SR", "ADAC_CFG1", "DACST"}
        /\ Table(s, up)["CLKE"] = Streams /\ Table(s, up)["AADC_CFG0"] = 8
    BY <2>1
  <2> QED
    BY <1>2, <2>2, Distinct DEF RateRegs, Registers
<1>3. CASE s = Capture /\ ~ up
  <2>1. Table(s, up) = [CLKE |-> {Render}, AADC_CFG0 |-> 200, ADC_SR |-> 0, DACST |-> 6]
    BY <1>3, Distinct DEF Table, StopTable
  <2>2. DOMAIN Table(s, up) = {"CLKE", "AADC_CFG0", "ADC_SR", "DACST"}
    BY <2>1
  <2> QED
    BY <1>3, <2>2, Distinct DEF RateRegs, Registers
<1> QED
  BY <1>1, <1>2, <1>3 DEF Streams

\* Registers are written one after the other.
LEMMA OneWrite ==
  ASSUME NEW f, f = [r \in Registers |-> f[r]], NEW x \in Registers, NEW v, NEW g, g = [f EXCEPT ![x] = v]
  PROVE  g = [r \in Registers |-> g[r]] /\ g[x] = v /\ (\A r : r \in Registers \ {x} => g[r] = f[r])
<1> g = [r \in Registers |-> IF r = x THEN v ELSE f[r]]
  OBVIOUS
<1> QED
  OBVIOUS

LEMMA CardInitInv == CardInit => CardInv
<1> SUFFICES ASSUME CardInit PROVE CardInv
  OBVIOUS
<1>1. TypeOK
  BY TypeInit DEF CardInit
<1>2. CodecType
  BY DEF CardInit, CodecType, Registers
<1>3. RatesInv
  BY DEF CardInit, RatesInv
<1>4. RunningInv /\ CaptureInv
  BY DEF CardInit, Init, RunningInv, CaptureInv, Streams
<1> QED
  BY <1>1, <1>2, <1>3, <1>4 DEF CardInv

\* A command of stream s, up or down, with the interface's part of it.
LEMMA TriggerStep ==
  ASSUME CardInv, TypeOK', NEW s \in Streams, NEW up \in BOOLEAN, NEW gone \in SUBSET DOMAIN Table(s, up),
         NormalTrigger(s, up, gone),
         \A t \in Streams : t # s => status'[t] = status[t],
         up => s \in dmacr' /\ dmacr \subseteq dmacr',
         ~ up => status'[s] # "running" /\ dmacr' = dmacr \ {s}
  PROVE  CardInv'
<1> USE Distinct DEF CardInv
<1> DEFINE table == Table(s, up)
<1>0. g_cuurentcmd' = s /\ divided' = divided /\ TriggerHistory(s, table, gone) /\ DeviceRegConfig(table, gone)
  BY DEF NormalTrigger
<1>1. /\ asked' = (IF s = Capture THEN [asked EXCEPT ![s] = 0] ELSE asked)
      /\ ahead' = (ahead \ DOMAIN table) \cup (gone \cap RateRegs)
      /\ cut' = (cut \ {s}) \cup (IF s = Capture /\ ~ DOMAIN table \cap {"ADAC_CFG1", "DACST"} \subseteq gone
                                  THEN {Render} ELSE {})
      /\ lost' = IF gone = {} THEN lost \ {s} ELSE lost \cup {s}
  BY <1>0 DEF TriggerHistory
<1>2. /\ cache' = [r \in Registers |-> IF r \in DOMAIN table THEN table[r] ELSE cache[r]]
      /\ regs' = [r \in Registers |-> IF r \in DOMAIN table \ gone THEN table[r] ELSE regs[r]]
  BY <1>0 DEF DeviceRegConfig, CodecType
<1>3. /\ DOMAIN table \cap RateRegs = (IF s = Capture THEN {"ADC_SR"} ELSE {})
      /\ s = Render => /\ DOMAIN table = {"ADAC_CFG1", "DACST"}
                       /\ up => table["DACST"] = 4 /\ table["ADAC_CFG1"] = 0
      /\ s = Capture /\ up => /\ {"CLKE", "AADC_CFG0"} \subseteq DOMAIN table
                              /\ table["CLKE"] = Streams /\ table["AADC_CFG0"] = 8
      /\ gone \subseteq DOMAIN table
  BY Tables
<1> HIDE DEF table
<1>4. CodecType'
  BY <1>0, <1>1, <1>2 DEF CodecType
<1>5. RatesInv'
  <2>1. ASSUME NEW t \in Streams, asked'[t] # 0 PROVE cache'[SR(t)] = SRT(asked'[t])
    <3>1. asked'[t] = asked[t] /\ ~ (s = Capture /\ t = Capture)
      BY <1>1, <2>1 DEF CodecType
    <3>2. SR(t) \in RateRegs /\ SR(t) \notin DOMAIN table /\ SR(t) \in Registers
      BY <1>3, <3>1 DEF SR, RateRegs, Registers, Streams
    <3> QED
      BY <1>2, <2>1, <3>1, <3>2 DEF RatesInv
  <2>2. divided' # 0 => cache'["APLL"] = Premode(divided')
    <3>1. "APLL" \notin DOMAIN table /\ "APLL" \in Registers
      BY <1>3 DEF RateRegs, Registers
    <3> QED
      BY <1>0, <1>2, <3>1 DEF RatesInv
  <2>3. ASSUME NEW r \in RateRegs, r \notin ahead' PROVE regs'[r] = cache'[r]
    <3>1. r \in Registers /\ r \notin gone /\ (r \notin DOMAIN table => r \notin ahead)
      BY <1>1, <2>3 DEF RateRegs, Registers
    <3> QED
      BY <1>2, <3>1, <2>3 DEF RatesInv
  <2> QED
    BY <2>1, <2>2, <2>3 DEF RatesInv
<1>6. RunningInv'
  <2>1. \A t \in Streams : status'[t] = "running" => t \in dmacr'
    BY DEF RunningInv
  <2>2. ASSUME status'[Render] = "running", Render \notin cut' \cup lost'
        PROVE  regs'["DACST"] = 4 /\ regs'["ADAC_CFG1"] = 0
    <3>0. {"DACST", "ADAC_CFG1"} \subseteq Registers
      BY DEF Registers
    <3>1. CASE s = Render
      <4>1. up /\ gone = {}
        BY <1>1, <2>2, <3>1
      <4> QED
        BY <1>2, <1>3, <3>0, <3>1, <4>1
    <3>2. CASE s = Capture
      <4>1. /\ DOMAIN table \cap {"ADAC_CFG1", "DACST"} \subseteq gone /\ Render \notin cut \cup lost
            /\ status[Render] = "running"
        BY <1>1, <2>2, <3>2 DEF Streams
      <4>2. regs'["DACST"] = regs["DACST"] /\ regs'["ADAC_CFG1"] = regs["ADAC_CFG1"]
        BY <1>2, <3>0, <4>1
      <4> QED
        BY <4>1, <4>2 DEF RunningInv
    <3> QED
      BY <3>1, <3>2 DEF Streams
  <2> QED
    BY <2>1, <2>2 DEF RunningInv
<1>7. CaptureInv'
  <2> SUFFICES ASSUME status'[Capture] = "running", Capture \notin lost'
               PROVE Capture \in cache'["CLKE"] /\ Capture \in regs'["CLKE"] /\ regs'["AADC_CFG0"] = 8
    BY DEF CaptureInv
  <2>0. {"CLKE", "AADC_CFG0"} \subseteq Registers
    BY DEF Registers
  <2>1. CASE s = Capture
    <3>1. up /\ gone = {}
      BY <1>1, <2>1
    <3> QED
      BY <1>2, <1>3, <2>0, <2>1, <3>1 DEF Streams
  <2>2. CASE s = Render
    <3>1. status[Capture] = "running" /\ Capture \notin lost
      BY <1>1, <2>2 DEF Streams
    <3>2. "CLKE" \notin DOMAIN table /\ "AADC_CFG0" \notin DOMAIN table
      BY <1>3, <2>2
    <3> QED
      BY <1>2, <2>0, <3>1, <3>2 DEF CaptureInv
  <2> QED
    BY <2>1, <2>2 DEF Streams
<1> QED
  BY <1>4, <1>5, <1>6, <1>7

LEMMA ParamsStep ==
  ASSUME CardInv, NEW s \in Streams, NEW rate \in Rates, NEW gone \in SUBSET ParamWrites,
         DaiHwParams(s, rate, gone)
  PROVE  CardInv'
<1> USE Distinct DEF CardInv
<1>0. UNCHANGED vars /\ UNCHANGED <<g_cuurentcmd, cut>> /\ rate \in Nat /\ DaiParamsUpdate(s, rate, gone)
  BY AudioCodecAssumption DEF DaiHwParams
<1>1. UNCHANGED <<status, dmacr>> /\ TypeOK'
  BY <1>0 DEF vars, TypeOK
<1>2. CASE g_cuurentcmd = BUTT
  <2>1. UNCHANGED <<regs, cache, divided, ahead, lost>> /\ asked' = [asked EXCEPT ![s] = 0]
    BY <1>0, <1>2 DEF DaiParamsUpdate
  <2>2. CodecType'
    BY <1>0, <2>1 DEF CodecType
  <2>3. \A t \in Streams : asked'[t] # 0 => asked'[t] = asked[t]
    BY <2>1 DEF CodecType
  <2>4. RatesInv'
    BY <2>1, <2>3 DEF RatesInv
  <2>5. RunningInv' /\ CaptureInv'
    BY <1>0, <1>1, <2>1 DEF RunningInv, CaptureInv
  <2> QED
    BY <1>1, <2>2, <2>4, <2>5
<1>3. CASE g_cuurentcmd # BUTT
  <2> DEFINE c == g_cuurentcmd
             off == cache.CLKE \ {c}
             on_ == off \cup {c}
  <2>0. c \in Streams /\ UpdateParams(c, s, rate, gone) /\ UpdateHistory(c, s, rate, gone)
    BY <1>0, <1>3 DEF DaiParamsUpdate, UpdateParams, CodecType
  <2>1. /\ asked' = CASE Succeeds(gone) /\ c = s -> [asked EXCEPT ![s] = rate]
                      [] Succeeds(gone) /\ c # s -> [asked EXCEPT ![c] = 0, ![s] = 0]
                      [] "APLL" \in gone -> asked
                      [] OTHER -> [asked EXCEPT ![c] = 0]
        /\ divided' = rate
        /\ ahead' = {r \in ahead : cache'[r] = cache[r]} \cup ({"APLL"} \cap gone)
                    \cup (IF "rate" \in gone THEN {SR(c)} ELSE {})
        /\ lost' = IF gone \cap {"rate", "on"} = {} THEN lost ELSE lost \cup {c}
    BY <2>0 DEF UpdateHistory
  <2>2. ("APLL" \in gone => gone = {"APLL"}) /\ ("rate" \in gone => gone \subseteq {"off", "rate"})
    BY <2>0 DEF UpdateParams, MayLose
  <2>3. CASE "APLL" \in gone
    <3>1. cache' = [cache EXCEPT !.APLL = Premode(rate)] /\ UNCHANGED regs
      BY <2>0, <2>3 DEF UpdateParams
    <3>2. /\ cache' = [r \in Registers |-> cache'[r]] /\ cache'["APLL"] = Premode(rate)
          /\ \A r \in Registers \ {"APLL"} : cache'[r] = cache[r]
      BY <3>1, OneWrite DEF CodecType, Registers
    <3>3. asked' = asked /\ lost' = lost /\ ahead' = {r \in ahead : cache'[r] = cache[r]} \cup {"APLL"}
      BY <2>1, <2>2, <2>3 DEF Succeeds
    <3>4. CodecType'
      BY <1>0, <3>1, <3>2, <3>3 DEF CodecType
    <3>5. RatesInv'
      <4>1. \A t \in Streams : asked'[t] # 0 => cache'[SR(t)] = SRT(asked'[t])
        <5>1. \A t \in Streams : SR(t) \in Registers \ {"APLL"}
          BY DEF SR, Registers
        <5> QED
          BY <3>2, <3>3, <5>1 DEF RatesInv
      <4>2. \A r \in RateRegs : r \notin ahead' => regs'[r] = cache'[r]
        <5>1. RateRegs \subseteq Registers
          BY DEF RateRegs, Registers
        <5> QED
          BY <3>1, <3>2, <3>3, <5>1 DEF RatesInv
      <4> QED
        BY <2>1, <3>2, <4>1, <4>2 DEF RatesInv
    <3>6. RunningInv' /\ CaptureInv'
      BY <1>0, <1>1, <3>1, <3>2, <3>3 DEF RunningInv, CaptureInv
    <3> QED
      BY <1>1, <3>4, <3>5, <3>6
  <2>4. CASE "APLL" \notin gone
    <3>1. /\ cache' = [cache EXCEPT !.APLL = Premode(rate), ![SR(c)] = SRT(rate),
                                    !.CLKE = IF "rate" \in gone THEN off ELSE on_]
          /\ regs' = [regs EXCEPT !.APLL = Updated("APLL", Premode(rate), TRUE),
                                  ![SR(c)] = Updated(SR(c), SRT(rate), "rate" \notin gone),
                                  !.CLKE = IF gone \cap {"rate", "on"} = {} THEN on_
                                           ELSE Updated("CLKE", off, "off" \notin gone)]
      BY <2>0, <2>4 DEF UpdateParams
    <3>2. SR(c) \in {"DAC_SR", "ADC_SR"} /\ \A t \in Streams : SR(t) \in RateRegs /\ (SR(t) = SR(c) <=> t = c)
      BY <2>0 DEF SR, RateRegs, Streams
    <3>3. /\ cache' = [r \in Registers |-> cache'[r]] /\ cache'["APLL"] = Premode(rate)
          /\ cache'[SR(c)] = SRT(rate) /\ cache'["CLKE"] = (IF "rate" \in gone THEN off ELSE on_)
          /\ \A r \in Registers \ {"APLL", "CLKE", SR(c)} : cache'[r] = cache[r]
      <4>1. cache' = [r \in Registers |-> IF r = "CLKE" THEN (IF "rate" \in gone THEN off ELSE on_)
                                        ELSE IF r = SR(c) THEN SRT(rate)
                                        ELSE IF r = "APLL" THEN Premode(rate) ELSE cache[r]]
        BY <3>1, <3>2 DEF CodecType
      <4> QED
        BY <3>2, <4>1 DEF Registers
    <3>4. /\ regs' = [r \in Registers |-> regs'[r]] /\ regs'["APLL"] = Updated("APLL", Premode(rate), TRUE)
          /\ regs'[SR(c)] = Updated(SR(c), SRT(rate), "rate" \notin gone)
          /\ regs'["CLKE"] = (IF gone \cap {"rate", "on"} = {} THEN on_
                              ELSE Updated("CLKE", off, "off" \notin gone))
          /\ \A r \in Registers \ {"APLL", "CLKE", SR(c)} : regs'[r] = regs[r]
      <4>1. regs' = [r \in Registers |-> IF r = "CLKE" THEN (IF gone \cap {"rate", "on"} = {} THEN on_
                                                    ELSE Updated("CLKE", off, "off" \notin gone))
                                        ELSE IF r = SR(c) THEN Updated(SR(c), SRT(rate), "rate" \notin gone)
                                        ELSE IF r = "APLL" THEN Updated("APLL", Premode(rate), TRUE) ELSE regs[r]]
        BY <3>1, <3>2 DEF CodecType
      <4> QED
        BY <3>2, <4>1 DEF Registers
    <3>5. CodecType'
      BY <1>0, <2>0, <2>1, <3>3, <3>4 DEF CodecType
    <3>6. RatesInv'
      <4>1. ASSUME NEW t \in Streams, asked'[t] # 0 PROVE cache'[SR(t)] = SRT(asked'[t])
        <5>1. (t = c /\ asked'[t] = rate) \/ (t # c /\ asked'[t] = asked[t])
          <6>1. asked \in [Streams -> Nat] /\ c \in Streams
            BY <2>0 DEF CodecType
          <6>2. CASE Succeeds(gone) /\ c = s
            <7>1. asked' = [asked EXCEPT ![s] = rate]
              BY <2>1, <6>2 DEF Succeeds
            <7> QED
              BY <4>1, <6>1, <6>2, <7>1
          <6>3. CASE Succeeds(gone) /\ c # s
            <7>1. asked' = [asked EXCEPT ![c] = 0, ![s] = 0]
              BY <2>1, <6>3 DEF Succeeds
            <7> QED
              BY <4>1, <6>1, <7>1
          <6>4. CASE ~ Succeeds(gone)
            <7>1. asked' = [asked EXCEPT ![c] = 0]
              BY <2>1, <2>4, <6>4 DEF Succeeds
            <7> QED
              BY <4>1, <6>1, <7>1
          <6> QED
            BY <6>2, <6>3, <6>4
        <5>2. SR(t) \notin {"APLL", "CLKE"} /\ SR(t) \in Registers
          BY DEF SR, Registers
        <5> QED
          BY <3>2, <3>3, <4>1, <5>1, <5>2 DEF RatesInv
      <4>2. ASSUME NEW r \in RateRegs, r \notin ahead' PROVE regs'[r] = cache'[r]
        <5>1. r # "CLKE" /\ r \in Registers
          BY DEF RateRegs, Registers
        <5>2. cache'[r] = cache[r] => r \notin ahead /\ regs[r] = cache[r]
          BY <2>1, <4>2 DEF RatesInv
        <5>3. CASE r = "APLL"
          BY <3>3, <3>4, <5>2, <5>3 DEF Updated
        <5>4. CASE r = SR(c)
          <6>1. "rate" \notin gone
            BY <2>1, <4>2, <5>4
          <6> QED
            BY <3>3, <3>4, <5>2, <5>4, <6>1 DEF Updated
        <5>5. CASE r \notin {"APLL", SR(c)}
          BY <3>3, <3>4, <5>1, <5>2, <5>5
        <5> QED
          BY <5>3, <5>4, <5>5
      <4> QED
        BY <2>1, <3>3, <4>1, <4>2 DEF RatesInv
    <3>7. {"DACST", "ADAC_CFG1", "AADC_CFG0"} \subseteq Registers \ {"APLL", "CLKE", SR(c)}
      BY <3>2 DEF Registers
    <3>8. RunningInv'
      BY <1>0, <1>1, <2>1, <3>4, <3>7 DEF RunningInv
    <3>9. CaptureInv'
      <4> SUFFICES ASSUME status'[Capture] = "running", Capture \notin lost'
                   PROVE  Capture \in cache'["CLKE"] /\ Capture \in regs'["CLKE"] /\ regs'["AADC_CFG0"] = 8
        BY DEF CaptureInv
      <4>1. Capture \in cache["CLKE"] /\ Capture \in regs["CLKE"] /\ regs["AADC_CFG0"] = 8
        BY <1>1, <2>1 DEF CaptureInv
      <4>2. c = Capture => gone \cap {"rate", "on"} = {}
        BY <2>1
      <4>3. c # Capture => Capture \in off
        BY <4>1
      <4> QED
        BY <1>1, <3>3, <3>4, <3>7, <4>1, <4>2, <4>3 DEF Updated
    <3> QED
      BY <1>1, <3>5, <3>6, <3>8, <3>9
  <2> QED
    BY <2>3, <2>4
<1> QED
  BY <1>2, <1>3

LEMMA CardInvStep == CardInv /\ TypeOK' /\ [CardNext]_cardVars => CardInv'
<1> SUFFICES ASSUME CardInv, TypeOK', [CardNext]_cardVars PROVE CardInv'
  OBVIOUS
<1>1. CASE UNCHANGED cardVars
  BY <1>1 DEF cardVars, vars, codec, CardInv, CodecType, RatesInv, RunningInv, CaptureInv
<1>2. ASSUME NEW s \in Streams, NEW gone \in SUBSET DOMAIN Table(s, TRUE), Start(s), NormalTrigger(s, TRUE, gone)
      PROVE  CardInv'
  <2>1. \A t \in Streams : t # s => status'[t] = status[t]
    BY <1>2 DEF Start, CardInv, TypeOK
  <2>2. s \in dmacr' /\ dmacr \subseteq dmacr'
    BY <1>2 DEF Start
  <2> QED
    BY <1>2, <2>1, <2>2, TriggerStep
<1>3. ASSUME NEW s \in Streams, NEW to \in {"paused", "stopped"}, NEW gone \in SUBSET DOMAIN Table(s, FALSE),
             Stop(s, to), NormalTrigger(s, FALSE, gone)
      PROVE CardInv'
  <2>1. \A t \in Streams : t # s => status'[t] = status[t]
    BY <1>3 DEF Stop, CardInv, TypeOK
  <2>2. status'[s] # "running" /\ dmacr' = dmacr \ {s}
    BY <1>3 DEF Stop, CardInv, TypeOK
  <2> QED
    BY <1>3, <2>1, <2>2, TriggerStep
<1>4. ASSUME NEW s \in Streams, Count(s) \/ Xfer(s) \/ Clear(s), UNCHANGED codec PROVE CardInv'
  <2>1. UNCHANGED <<status, dmacr>>
    BY <1>4 DEF Count, Xfer, Clear
  <2> QED
    BY <1>4, <2>1 DEF codec, CardInv, CodecType, RatesInv, RunningInv, CaptureInv
<1>5. ASSUME NEW s \in Streams, NEW rate \in Rates, NEW gone \in SUBSET ParamWrites, DaiHwParams(s, rate, gone)
      PROVE CardInv'
  BY <1>5, ParamsStep
<1> QED
  BY <1>1, <1>2, <1>3, <1>4, <1>5 DEF CardNext, Losses

LEMMA CardAlways == CardSpec => [](CardInv /\ TriggersInv)
<1>1. CardInv /\ TriggersInv /\ [CardNext]_cardVars => (CardInv /\ TriggersInv)'
  <2> SUFFICES ASSUME CardInv, TriggersInv, [CardNext]_cardVars PROVE CardInv' /\ TriggersInv'
    OBVIOUS
  <2>1. TriggersInv'
    BY CardStep, InvStep
  <2> QED
    BY <2>1, CardInvStep DEF TriggersInv
<1>2. CardInit => CardInv /\ TriggersInv
  BY CardInitInv, InvInit DEF CardInit
<1> QED
  BY <1>1, <1>2, PTL DEF CardSpec

\* Whichever stream's registers the parameters go to, the codec has the rates of the
\* streams that were set under their own command, and the divider of the last call's rate,
\* but for the registers whose last write was lost.
THEOREM RatesAreInTheCodec == CardSpec => []CodecHasRates
<1>1. CardInv => CodecHasRates
  BY DEF CardInv, RatesInv, CodecHasRates, SR, RateRegs
<1> QED
  BY CardAlways, <1>1, PTL

\* A stream that runs has what it needs of the interface and of the codec, unless the
\* other stream, the bus or the count took it away in one of the ways listed.
THEOREM RunningStreamsSound == CardSpec => []StreamsSound
<1>1. CardInv /\ TriggersInv => StreamsSound
  <2> SUFFICES ASSUME CardInv, TriggersInv PROVE PlaybackSounds /\ CaptureRecords
    BY DEF StreamsSound
  <2>1. CaptureRecords
    BY DEF CardInv, CaptureInv, CaptureRecords
  <2>2. ASSUME status[Render] = "running", Quiet, ~ crossed, Render \notin cut \cup lost
        PROVE  xfer /\ Render \in dmacr /\ regs["DACST"] = 4 /\ regs["ADAC_CFG1"] = 0
    <3>1. Share(Render) = 1 /\ Share(Capture) \in {0, 1}
      BY <2>2 DEF Quiet, Share, Streams
    <3>2. refcount > 0
      BY <3>1 DEF TriggersInv, CountsStreams
    <3>3. xfer
      BY <2>2, <3>2 DEF TriggersInv, InterfaceFollowsCount, Quiet, Streams
    <3> QED
      BY <2>2, <3>3 DEF CardInv, RunningInv, Streams
  <2> QED
    BY <2>1, <2>2 DEF PlaybackSounds
<1> QED
  BY CardAlways, <1>1, PTL

\* The codec serves the streams, but for what they do to each other.
THEOREM CodecServes == CardSpec => []CodecServesStreams
  BY RatesAreInTheCodec, RunningStreamsSound, PTL DEF CodecServesStreams
=============================================================================
