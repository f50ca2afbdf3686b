---------------------------- MODULE VsyncWorker ----------------------------
(***************************************************************************)
(* DrmVsyncWorker (drm_vsync_worker.cpp): one thread that sleeps on a      *)
(* condition variable until vsync is enabled, waits for a vblank of the    *)
(* kernel and calls the client's callback, over and over.                  *)
(*                                                                         *)
(* The other actor is the client thread of the HDI.  It creates the        *)
(* singleton on its first call, registers callbacks, enables and disables  *)
(* vsync, and destroys the singleton when the process exits.  mEnable and  *)
(* mRunning are read under mMutex, but Init writes mRunning without it     *)
(* (line 33), and mCallBack is shared with no lock at all.                 *)
(*                                                                         *)
(* The worker's steps end where another thread's step can make a           *)
(* difference.  The client's critical sections are one assignment long and *)
(* are one step each, taken when the worker does not hold mMutex.          *)
(***************************************************************************)
EXTENDS Integers

CONSTANT MaxRegs   \* bound: how many callbacks the client registers

ASSUME RegsAssumption == MaxRegs \in Nat

VARIABLES
  wpc,          \* where the worker is
  cpc,          \* where the client is
  want,         \* what the client's current call is for
  once,         \* GetInstance's std::once_flag
  locked,       \* the worker holds mMutex
  mEnable,
  mRunning,
  mCallBack,    \* the callback object mCallBack points to, 0 for null
  regs,         \* callback objects made so far
  freed,        \* those whose last shared_ptr is gone
  ptr,          \* the worker's copy of the pointer it is about to follow
  fault,        \* a null or freed callback object was dereferenced
  early,        \* history: the worker looked at mRunning before line 33 was reached
  enabledEarly, \* history: vsync was enabled with no callback registered
  late,         \* history: callbacks made since vsync was disabled
  begun,        \* history: the worker has begun a frame
  beat          \* history: turned over by every callback

workerVars == <<wpc, locked, ptr>>
clientVars == <<cpc, want, once>>
sharedVars == <<mEnable, mRunning, mCallBack>>
heapVars   == <<regs, freed>>
history    == <<early, enabledEarly, late, begun, beat>>
vars == <<workerVars, clientVars, sharedVars, heapVars, fault, history>>

\* The worker is between WaitSignalAndCheckRuning and the end of the callback.
FramePcs  == {"load", "pipe", "wait", "check", "call"}
WorkerPcs == {"none", "lock", "test", "park", "parked", "return", "exit"} \cup FramePcs
StopPcs   == {"stop", "stopnotify", "join", "done"}
ClientPcs == {"idle", "spawn", "arm", "swap", "release", "set", "notify"} \cup StopPcs
Calls     == {"register", "enable", "disable"}

Init ==
  /\ wpc = "none" /\ cpc = "idle" /\ want = "register"
  /\ once = FALSE /\ locked = FALSE
  /\ mEnable = FALSE /\ mRunning = FALSE /\ mCallBack = 0
  /\ regs = 0 /\ freed = {} /\ ptr = 0 /\ fault = FALSE
  /\ early = FALSE /\ enabledEarly = FALSE /\ late = 0 /\ begun = FALSE /\ beat = FALSE

-----------------------------------------------------------------------------
(* The worker.                                                             *)

WGoto(from, to) == wpc = from /\ wpc' = to

\* std::unique_lock, and the lock the condition variable takes back on waking.
Lock ==
  /\ WGoto("lock", "test")
  /\ ~ locked /\ locked' = TRUE
  /\ UNCHANGED <<ptr, clientVars, sharedVars, heapVars, fault, history>>

Test_IgnoreEnable ==
  /\ WGoto("test", "return")
  /\ early' = (early \/ cpc = "arm")
  /\ UNCHANGED <<locked, ptr, clientVars, sharedVars, heapVars, fault, enabledEarly, late, begun, beat>>

Test_IgnoreRunning ==
  /\ IF mEnable THEN WGoto("test", "return") ELSE WGoto("test", "park")
  /\ early' = (early \/ cpc = "arm")
  /\ UNCHANGED <<locked, ptr, clientVars, sharedVars, heapVars, fault, enabledEarly, late, begun, beat>>

\* The predicate of the wait: mEnable || !mRunning.
Test ==
  /\ IF mEnable \/ ~ mRunning THEN WGoto("test", "return") ELSE WGoto("test", "park")
  /\ early' = (early \/ cpc = "arm")
  /\ UNCHANGED <<locked, ptr, clientVars, sharedVars, heapVars, fault, enabledEarly, late, begun, beat>>

\* The wait releases the mutex and blocks in one step.
Park ==
  /\ WGoto("park", "parked")
  /\ locked' = FALSE
  /\ UNCHANGED <<ptr, clientVars, sharedVars, heapVars, fault, history>>

\* The standard lets a wait return for no reason.
WakeSpuriously ==
  /\ WGoto("parked", "lock")
  /\ UNCHANGED <<locked, ptr, clientVars, sharedVars, heapVars, fault, history>>

\* return mRunning: read again, so Init may have set it since Test.
Return ==
  /\ WGoto("return", IF mRunning THEN "load" ELSE "exit")
  /\ locked' = FALSE
  /\ begun' = (begun \/ mRunning)
  /\ UNCHANGED <<ptr, clientVars, sharedVars, heapVars, fault, early, enabledEarly, late, beat>>

\* Line 86 follows mCallBack without asking whether it is null...
Load ==
  /\ WGoto("load", "pipe")
  /\ ptr' = mCallBack
  /\ UNCHANGED <<locked, clientVars, sharedVars, heapVars, fault, history>>

\* ...or whether it is still there.
GetPipe ==
  /\ WGoto("pipe", "wait")
  /\ fault' = (ptr = 0 \/ ptr \in freed)
  /\ UNCHANGED <<locked, ptr, clientVars, sharedVars, heapVars, history>>

\* drmWaitVBlank returns: a vblank came, or the wait failed.  Both go on to the
\* callback; a failed wait gives it the time 0 and the sequence of the last frame.
WaitVBlank ==
  /\ WGoto("wait", "check")
  /\ UNCHANGED <<locked, ptr, clientVars, sharedVars, heapVars, fault, history>>

\* if (mCallBack != nullptr); a pointer that was once set never becomes null again.
Check ==
  /\ WGoto("check", IF mCallBack # 0 THEN "call" ELSE "lock")
  /\ ptr' = mCallBack
  /\ UNCHANGED <<locked, clientVars, sharedVars, heapVars, fault, history>>

\* mCallBack->Vsync(seq, time)
Call ==
  /\ WGoto("call", "lock")
  /\ fault' = (ptr \in freed)
  /\ late' = IF mEnable THEN 0 ELSE IF late < 2 THEN late + 1 ELSE 2
  /\ beat' = ~ beat
  /\ UNCHANGED <<locked, ptr, clientVars, sharedVars, heapVars, early, enabledEarly, begun>>

Worker == Lock \/ Test \/ Park \/ Return \/ Load \/ GetPipe \/ WaitVBlank \/ Check \/ Call

-----------------------------------------------------------------------------
(* The client.                                                             *)

\* The call's own work, once GetInstance returned.
Body(w) == IF w = "register" THEN "swap" ELSE "set"

\* RegDisplayVBlankCallback or SetDisplayVsyncEnabled is called: GetInstance first.
BeginCall(w) ==
  /\ cpc = "idle"
  /\ w = "register" => regs < MaxRegs
  /\ want' = w
  /\ cpc' = IF once THEN Body(w) ELSE "spawn"
  /\ UNCHANGED <<once, workerVars, sharedVars, heapVars, fault, history>>

\* Init, line 31: the thread runs from here on.
Spawn ==
  /\ cpc = "spawn" /\ cpc' = "arm"
  /\ wpc' = "lock" /\ once' = TRUE
  /\ UNCHANGED <<want, locked, ptr, sharedVars, heapVars, fault, history>>

\* Init, line 28: no drm device.  The once_flag is set all the same.
SpawnFails ==
  /\ cpc = "spawn" /\ cpc' = Body(want)
  /\ once' = TRUE
  /\ UNCHANGED <<want, workerVars, sharedVars, heapVars, fault, history>>

\* Init, line 33.
Arm ==
  /\ cpc = "arm" /\ cpc' = Body(want)
  /\ mRunning' = TRUE
  /\ UNCHANGED <<want, once, workerVars, mEnable, mCallBack, heapVars, fault, history>>

\* ReqesterVBlankCb: the shared_ptr is swapped with a copy of the new one...
Swap ==
  /\ cpc = "swap" /\ cpc' = "release"
  /\ regs' = regs + 1
  /\ mCallBack' = regs + 1
  /\ UNCHANGED <<want, once, workerVars, mEnable, mRunning, freed, fault, history>>

Release_RawPointer ==
  /\ cpc = "release" /\ cpc' = "idle"
  /\ freed' = 1 .. regs
  /\ UNCHANGED <<want, once, workerVars, sharedVars, regs, fault, history>>

\* ...and the object it owned before goes.
Release ==
  /\ cpc = "release" /\ cpc' = "idle"
  /\ freed' = (1 .. regs) \ {mCallBack}
  /\ UNCHANGED <<want, once, workerVars, sharedVars, regs, fault, history>>

SetEnable_NoLock ==
  /\ cpc = "set" /\ cpc' = "notify"
  /\ mEnable' = (want = "enable")
  /\ enabledEarly' = (enabledEarly \/ (want = "enable" /\ mCallBack = 0))
  /\ late' = IF want = "enable" THEN 0 ELSE late
  /\ UNCHANGED <<want, once, workerVars, mRunning, mCallBack, heapVars, fault, early, begun, beat>>

SetEnable_WrongFlag ==
  /\ cpc = "set" /\ cpc' = "notify"
  /\ ~ locked
  /\ mEnable' = (want = "enable")
  /\ mRunning' = (want = "enable")
  /\ enabledEarly' = (enabledEarly \/ (want = "enable" /\ mCallBack = 0))
  /\ late' = IF want = "enable" THEN 0 ELSE late
  /\ UNCHANGED <<want, once, workerVars, mCallBack, heapVars, fault, early, begun, beat>>

\* EnableVsync, under the mutex.
SetEnable ==
  /\ cpc = "set" /\ cpc' = "notify"
  /\ ~ locked
  /\ mEnable' = (want = "enable")
  /\ enabledEarly' = (enabledEarly \/ (want = "enable" /\ mCallBack = 0))
  /\ late' = IF want = "enable" THEN 0 ELSE late
  /\ UNCHANGED <<want, once, workerVars, mRunning, mCallBack, heapVars, fault, early, begun, beat>>

NotifyOne(from, to) ==
  /\ cpc = from /\ cpc' = to
  /\ wpc' = IF wpc = "parked" THEN "lock" ELSE wpc
  /\ UNCHANGED <<want, once, locked, ptr, sharedVars, heapVars, fault, history>>

Notify == NotifyOne("notify", "idle")

\* The static instance is destroyed at exit, when no call is in progress.
Destroy ==
  /\ cpc = "idle" /\ once /\ cpc' = "stop"
  /\ UNCHANGED <<want, once, workerVars, sharedVars, heapVars, fault, history>>

Stop ==
  /\ cpc = "stop" /\ cpc' = "stopnotify"
  /\ ~ locked
  /\ mRunning' = FALSE
  /\ UNCHANGED <<want, once, workerVars, mEnable, mCallBack, heapVars, fault, history>>

StopNotify == NotifyOne("stopnotify", "join")

\* mThread is null when Init failed.
Join ==
  /\ cpc = "join" /\ wpc \in {"exit", "none"} /\ cpc' = "done"
  /\ UNCHANGED <<want, once, workerVars, sharedVars, heapVars, fault, history>>

\* What the client does once it is inside a call.
InCall ==
  Spawn \/ SpawnFails \/ Arm \/ Swap \/ Release \/ SetEnable \/ Notify
        \/ Stop \/ StopNotify \/ Join

-----------------------------------------------------------------------------

Next ==
  /\ ~ fault
  /\ Worker \/ WakeSpuriously \/ InCall \/ Destroy \/ \E w \in Calls : BeginCall(w)

\* The worker runs, drmWaitVBlank returns (it has a timeout in the kernel), a call that
\* has begun goes on.  A thread that keeps asking for mMutex gets it: the worker
\* releases it in every round, and nobody blocks while holding it.
Fairness ==
  /\ WF_vars(~ fault /\ Worker)
  /\ SF_vars(~ fault /\ Lock)
  /\ WF_vars(~ fault /\ InCall)
  /\ SF_vars(~ fault /\ (SetEnable \/ Stop))

Spec == Init /\ [][Next]_vars
FairSpec == Spec /\ Fairness

-----------------------------------------------------------------------------
(* Properties.                                                             *)

\* The variables' types.
TypeOK ==
  /\ wpc \in WorkerPcs /\ cpc \in ClientPcs /\ want \in Calls
  /\ {once, locked, mEnable, mRunning, fault, early, enabledEarly, begun, beat} \subseteq BOOLEAN
  /\ regs \in 0 .. MaxRegs /\ mCallBack \in 0 .. regs /\ ptr \in 0 .. regs
  /\ freed \subseteq 1 .. regs
  /\ late \in 0 .. 2

\* The worker dies on a bad callback pointer only in one of three ways: it ran before
\* Init set mRunning (lines 31-33), vsync was enabled before a callback was registered
\* (line 86 has no null check), or a callback was replaced (line 125 frees the old one
\* under the worker's feet).
FaultExplained == fault => early \/ enabledEarly \/ regs > 1

\* The worker leaves its loop only when the singleton is destroyed, unless it looked at
\* mRunning before Init set it; then vsync is lost for the life of the process.
ServesUntilStopped == wpc = "exit" => early \/ cpc \in StopPcs

\* The worker neither fails nor ends before it is told to, but for the races listed.
WorkerRunsClean == FaultExplained /\ ServesUntilStopped

\* EnableVsync(false) does not wait for the frame in flight, but at most that one
\* callback comes after it.
AtMostOneLate == late <= 1

\* The worker's frames are those of the abstract service.
Service ==
  INSTANCE VsyncService WITH enabled <- mEnable, inflight <- wpc \in FramePcs, spare <- ~ begun

\* Whatever the interleaving of the worker and the client, callbacks come one per frame,
\* a frame is begun under the mutex only while vsync is enabled, and at most one is begun
\* unasked, by the race of Init (lines 31-33) with WaitSignalAndCheckRuning.
ImplementsService == Service!Spec

\* No wake-up is lost: while vsync stays enabled and the worker alive, callbacks keep
\* coming, whatever else the client calls.
VsyncKeepsComing ==
  <>[](mEnable /\ mRunning /\ wpc \notin {"none", "exit"} /\ ~ fault) => []<>(wpc = "call")

\* The destructor's join comes back, wherever the worker was when it started.
ShutdownCompletes == cpc = "stop" ~> (cpc = "done" \/ fault)
=============================================================================
