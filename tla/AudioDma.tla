------------------------------- MODULE AudioDma -------------------------------
(***************************************************************************)
(* The audio platform (rk3568_dma_ops.c): the DMA channels, the cyclic     *)
(* buffer of each stream and the one pointer, dmaPrv, to runtime data that *)
(* both streams share.  BufFree frees a stream's buffer and leaves the     *)
(* pointers to it and to the runtime data as they are.                     *)
(*                                                                         *)
(* The audio framework (external) opens a stream, runs, pauses and resumes *)
(* it, and closes it when it does not run; a stream may be given a buffer  *)
(* anew while it is open, and opened again.  A call that fails is not      *)
(* followed by the next.  What comes after a use of freed memory or of a   *)
(* null channel is not modelled.                                           *)
(***************************************************************************)
EXTENDS AudioStreams, Naturals

VARIABLES
  platformInitFlag,
  dmaChn,       \* g_dmaChn: the streams that have a channel
  virtAddr,     \* per stream: null, or where it points is live or freed
  dmaPrv,       \* the same for the runtime data
  cookie,       \* the streams with a descriptor submitted and not issued
  engine,       \* kernel: per stream, no transfer, one, or one that is being ended
  phase,        \* framework: where it is with each stream
  fault,        \* what went wrong, if anything
  overlapped,   \* history: both streams have been open at once
  reopened      \* history: the streams given a buffer after theirs was freed
vars == <<platformInitFlag, dmaChn, virtAddr, dmaPrv, cookie, engine, phase, fault, overlapped, reopened>>

Init ==
  /\ platformInitFlag = FALSE /\ dmaChn = {}
  /\ virtAddr = [s \in Streams |-> "null"] /\ dmaPrv = "null"
  /\ cookie = {} /\ engine = [s \in Streams |-> "off"]
  /\ phase = [s \in Streams |-> "closed"]
  /\ fault = "none" /\ overlapped = FALSE /\ reopened = {}

-----------------------------------------------------------------------------

\* The flag is set first: after a request that failed, the next call succeeds and the
\* channel stays null.
AudioDmaDeviceInit ==
  /\ ~ platformInitFlag /\ platformInitFlag' = TRUE
  /\ dmaChn' \in {{}, {Capture}, Streams}
  /\ UNCHANGED <<virtAddr, dmaPrv, cookie, engine, phase, fault, overlapped, reopened>>

Rk3568DmaBufAlloc_KeepsRuntimeData(s) ==
  /\ platformInitFlag /\ phase[s] \in {"closed", "open"}
  /\ virtAddr' \in {[virtAddr EXCEPT ![s] = IF @ = "null" THEN a ELSE @] : a \in {"null", "live"}}
  /\ reopened' = reopened \cup {t \in {s} : virtAddr[s] = "freed"}
  /\ dmaPrv' = IF dmaPrv = "null" THEN "live" ELSE dmaPrv
  /\ phase' = [phase EXCEPT ![s] = "open"]
  /\ overlapped' = (overlapped \/ phase[Other(s)] # "closed")
  /\ UNCHANGED <<platformInitFlag, dmaChn, cookie, engine, fault>>

\* A buffer that is there is kept, freed or not.  That the allocation of one failed goes
\* unnoticed; that of the runtime data, which replaces the other stream's, does not.
Rk3568DmaBufAlloc(s) ==
  /\ platformInitFlag /\ phase[s] \in {"closed", "open"}
  /\ virtAddr' \in {[virtAddr EXCEPT ![s] = IF @ = "null" THEN a ELSE @] : a \in {"null", "live"}}
  /\ reopened' = reopened \cup {t \in {s} : virtAddr[s] = "freed"}
  /\ \/ UNCHANGED <<dmaPrv, phase, overlapped>>
     \/ /\ dmaPrv' = "live"
        /\ phase' = [phase EXCEPT ![s] = "open"]
        /\ overlapped' = (overlapped \/ phase[Other(s)] # "closed")
  /\ UNCHANGED <<platformInitFlag, dmaChn, cookie, engine, fault>>

\* The runtime data goes first, whichever stream's it is.
Rk3568DmaBufFree(s) ==
  /\ phase[s] \in {"open", "paused"}
  /\ phase' = [phase EXCEPT ![s] = "closed"]
  /\ dmaPrv' = "freed"
  /\ virtAddr' = [virtAddr EXCEPT ![s] = IF @ = "live" THEN "freed" ELSE @]
  /\ fault' = IF dmaPrv = "freed" THEN "runtime data freed twice"
              ELSE IF virtAddr[s] = "freed" THEN "buffer freed twice"
              ELSE IF engine[s] # "off" /\ virtAddr[s] = "live" THEN "buffer freed in use"
              ELSE "none"
  /\ UNCHANGED <<platformInitFlag, dmaChn, cookie, engine, overlapped, reopened>>

\* It follows the channel's pointer, null or not.
Rk3568DmaConfigChannel(s) ==
  /\ phase[s] = "open" /\ s \notin dmaChn
  /\ fault' = "null channel"
  /\ UNCHANGED <<platformInitFlag, dmaChn, virtAddr, dmaPrv, cookie, engine, phase, overlapped, reopened>>

\* The engine gives no descriptor for a null channel, and may give none for another.
Rk3568DmaSubmit(s) ==
  /\ phase[s] = "open" /\ s \in dmaChn
  /\ cookie' = cookie \cup {s}
  /\ UNCHANGED <<platformInitFlag, dmaChn, virtAddr, dmaPrv, engine, phase, fault, overlapped, reopened>>

\* A transfer begins: into the stream's buffer if it has one.
Issue(s) ==
  /\ engine' = [engine EXCEPT ![s] = "on"]
  /\ phase' = [phase EXCEPT ![s] = "running"]
  /\ fault' = IF virtAddr[s] = "live" THEN "none" ELSE "transfer without a buffer"

Rk3568DmaPending(s) ==
  /\ phase[s] = "open" /\ s \in cookie
  /\ Issue(s) /\ cookie' = cookie \ {s}
  /\ UNCHANGED <<platformInitFlag, dmaChn, virtAddr, dmaPrv, overlapped, reopened>>

\* Pause, and stop: the transfer is asked to end, and not waited for.
Rk3568DmaPause(s, to) ==
  /\ phase[s] = "running" \/ (phase[s] = "paused" /\ to = "open")
  /\ engine' = [engine EXCEPT ![s] = IF @ = "on" THEN "ending" ELSE @]
  /\ phase' = [phase EXCEPT ![s] = to]
  /\ UNCHANGED <<platformInitFlag, dmaChn, virtAddr, dmaPrv, cookie, fault, overlapped, reopened>>

\* Submit, which may fail, and issue.
Rk3568DmaResume(s) ==
  /\ phase[s] = "paused" /\ Issue(s)
  /\ UNCHANGED <<platformInitFlag, dmaChn, virtAddr, dmaPrv, cookie, overlapped, reopened>>

\* The engine is done with a transfer.
Ended(s) ==
  /\ engine[s] = "ending"
  /\ engine' = [engine EXCEPT ![s] = "off"]
  /\ UNCHANGED <<platformInitFlag, dmaChn, virtAddr, dmaPrv, cookie, phase, fault, overlapped, reopened>>

Next ==
  /\ fault = "none"
  /\ \/ AudioDmaDeviceInit
     \/ \E s \in Streams :
          \/ Rk3568DmaBufAlloc(s) \/ Rk3568DmaBufFree(s) \/ Rk3568DmaConfigChannel(s)
          \/ Rk3568DmaSubmit(s) \/ Rk3568DmaPending(s)
          \/ Rk3568DmaPause(s, "paused") \/ Rk3568DmaPause(s, "open") \/ Rk3568DmaResume(s) \/ Ended(s)

Spec == Init /\ [][Next]_vars

-----------------------------------------------------------------------------
(* Properties.                                                             *)

Faults == {"none", "runtime data freed twice", "buffer freed twice", "buffer freed in use",
           "null channel", "transfer without a buffer"}

\* The variables' types; only the two streams have channels.
TypeOK ==
  /\ platformInitFlag \in BOOLEAN /\ dmaChn \subseteq Streams /\ cookie \subseteq Streams
  /\ virtAddr \in [Streams -> {"null", "live", "freed"}] /\ dmaPrv \in {"null", "live", "freed"}
  /\ engine \in [Streams -> {"off", "on", "ending"}]
  /\ phase \in [Streams -> {"closed", "open", "running", "paused"}]
  /\ fault \in Faults /\ overlapped \in BOOLEAN /\ reopened \subseteq Streams

\* What the pointers that are left behind can do.  The runtime data is freed twice only
\* after both streams were open at once; a buffer is freed twice, or transferred to after
\* it was freed, only for a stream that was opened again; a first transfer lacks its
\* buffer only if none could be allocated; and a buffer freed in use is one whose
\* transfer had been asked to end.  One stream, opened once, is safe but for the last.
FaultExplained ==
  /\ fault = "runtime data freed twice" => overlapped
  /\ fault = "buffer freed twice" => \E s \in reopened : phase[s] = "closed"
  /\ fault = "transfer without a buffer" =>
       \E s \in Streams : phase[s] = "running" /\ (s \in reopened \/ virtAddr[s] = "null")
  /\ fault = "buffer freed in use" => \A s \in Streams : phase[s] = "closed" => engine[s] # "on"
  /\ fault = "null channel" => dmaChn # Streams
=============================================================================
