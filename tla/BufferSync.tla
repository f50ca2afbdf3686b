------------------------------ MODULE BufferSync ------------------------------
(***************************************************************************)
(* The calls of the gralloc table (display_gralloc.c) as they reach the    *)
(* buffers of module Gralloc, and the one with steps of its own: a cache   *)
(* is invalidated before the CPU reads and flushed after it wrote, each    *)
(* by an ioctl that is tried again (DmaBufferSync, display_gralloc_gbm.c). *)
(*                                                                         *)
(* External: the kernel's dma-buf, whose ioctl answers 0 or -1, refuses to *)
(* synchronise for neither reading nor writing, and when it fails did      *)
(* nothing; the devices that write and read the buffer meanwhile.          *)
(***************************************************************************)
EXTENDS Integers

CONSTANTS Retry   \* 6

ASSUME BufferSyncAssumption == Retry \in Nat

VARIABLES
  usage,      \* of the handle: whether MEM_DMA, CPU_READ and CPU_WRITE are in it
  stale,      \* the sides, "cpu" and "device", that may not see what the other wrote
  sync,       \* DmaBufferSync under way: for start or end, tries left, the last answer
  answered,   \* the last call and its result
  fresh,      \* history: the other side wrote nothing since that call's last try
  worked      \* history: whether some try of that call worked

syncVars == <<usage, stale, sync, answered, fresh, worked>>

NoSync == [is |-> "none", retry |-> 0, ret |-> 0]
Unanswered == [call |-> "none", result |-> "none"]

SyncInit ==
  /\ usage \in SUBSET {"MEM_DMA", "CPU_READ", "CPU_WRITE"}
  /\ stale = {} /\ sync = NoSync /\ answered = Unanswered /\ fresh = FALSE /\ worked = FALSE

-----------------------------------------------------------------------------
(* The table.                                                              *)

HandleCalls == {"AllocMem", "FreeMem", "Mmap", "Unmap", "FlushCache", "InvalidateCache"}

\* What a call without a handle, or with one that is not for DMA, answers.
Refusal(op, null) ==
  CASE op = "FreeMem" -> "nothing"
    [] op = "Mmap"    -> "NULL"
    [] OTHER          -> IF null THEN "NULL_PTR" ELSE "NOT_SUPPORT"

Dispatched_AnyUsage(null) == ~ null

Dispatched(null) == ~ null /\ "MEM_DMA" \in usage

RefuseCall(op, null) ==
  /\ sync = NoSync /\ ~ Dispatched(null)
  /\ answered' = [call |-> op, result |-> Refusal(op, null)] /\ fresh' = FALSE /\ worked' = FALSE
  /\ UNCHANGED <<usage, stale, sync>>

-----------------------------------------------------------------------------
(* DmaBufferSync.                                                          *)

\* GbmInvalidateCache and GbmFlushCache.
Kind(op) == IF op = "InvalidateCache" THEN "start" ELSE "end"

BeginSync(op) ==
  /\ op \in {"FlushCache", "InvalidateCache"} /\ sync = NoSync /\ Dispatched(FALSE)
  /\ sync' = [is |-> op, retry |-> Retry, ret |-> 0]
  /\ answered' = Unanswered /\ fresh' = FALSE /\ worked' = FALSE
  /\ UNCHANGED <<usage, stale>>

\* The flags: for which side the kernel makes the buffer right.
Sides(op) ==
  IF Kind(op) = "start" THEN IF "CPU_READ" \in usage THEN {"cpu"} ELSE {}
                        ELSE IF "CPU_WRITE" \in usage THEN {"device"} ELSE {}

\* The loop ends on an answer of -EAGAIN or -EINTR: the ioctl answers 0 or -1, so that it is
\* issued again after a success as after a failure.
Again(retry) == retry > 0

Verdict_AnyTry(ret) == IF ret = 0 \/ worked THEN "SUCCESS" ELSE "SYS_BUSY"

\* Only the last answer counts.
Verdict(ret) == IF ret = 0 THEN "SUCCESS" ELSE "SYS_BUSY"

Try(works) ==
  /\ sync # NoSync
  /\ works => usage \cap {"CPU_READ", "CPU_WRITE"} # {}
  /\ stale' = IF works THEN stale \ Sides(sync.is) ELSE stale
  /\ worked' = (worked \/ works)
  /\ LET ret == IF works THEN 0 ELSE -1 IN
       IF Again(sync.retry)
       THEN sync' = [sync EXCEPT !.retry = @ - 1, !.ret = ret] /\ UNCHANGED <<answered, fresh>>
       ELSE /\ sync' = NoSync /\ fresh' = TRUE
            /\ answered' = [call |-> sync.is, result |-> Verdict(ret)]
  /\ UNCHANGED usage

\* The device or, between its calls, the CPU writes.
WriteBuffer(side) ==
  /\ side = "cpu" => sync = NoSync
  /\ stale' = stale \cup ({"cpu", "device"} \ {side}) /\ fresh' = FALSE
  /\ UNCHANGED <<usage, sync, answered, worked>>

SyncNext ==
  \/ \E op \in HandleCalls, null \in BOOLEAN : RefuseCall(op, null)
  \/ \E op \in HandleCalls : BeginSync(op)
  \/ \E works \in BOOLEAN : Try(works)
  \/ \E side \in {"cpu", "device"} : WriteBuffer(side)

SyncSpec == SyncInit /\ [][SyncNext]_syncVars

-----------------------------------------------------------------------------
(* Properties.                                                             *)

\* A client that was told SUCCESS has a DMA buffer that it reads or writes, and after an
\* invalidation it reads, and after a flush the device reads, what the other side last
\* wrote, unless that wrote again since: a try that failed after one that worked, and a
\* device that writes between the two, are not taken for a success.
SuccessMeansSynced ==
  answered.result = "SUCCESS" =>
    /\ "MEM_DMA" \in usage /\ usage # {"MEM_DMA"} /\ worked
    /\ fresh => stale \cap Sides(answered.call) = {}
=============================================================================
