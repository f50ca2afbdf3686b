---------------------------- MODULE ScreenProofs ----------------------------
(* Theorems about what happens at the screen: the vsync worker,            *)
(* VsyncWorker, for any number of registrations, and scan-out, Scanout,    *)
(* for any displays, planes and buffers, with FrameService, which each     *)
(* display implements.                                                     *)
EXTENDS VsyncWorker, Scanout, TLAPS

\* The worker has passed the predicate of its wait with vsync disabled: Init had not
\* set mRunning yet, or the singleton is being destroyed.
UnaskedFrame == wpc = "return" /\ ~ mEnable

\* Who holds the mutex, how Init and the registrations go on, and when the worker may
\* find mRunning false.
LockInv ==
  /\ locked <=> wpc \in {"test", "park", "return"}
  /\ cpc \in {"spawn", "arm"} => ~ mRunning /\ ~ begun
  /\ wpc # "none" /\ ~ mRunning => cpc = "arm" \/ cpc \in StopPcs
  /\ cpc \in {"stopnotify", "join", "done"} => ~ mRunning
  /\ ~ once => wpc = "none" /\ ~ mRunning /\ ~ begun
  /\ cpc = "spawn" => ~ once
  /\ cpc = "arm" => once
  /\ cpc = "swap" => regs < MaxRegs
  /\ cpc \in {"spawn", "arm"} /\ want = "register" => regs < MaxRegs
  /\ wpc = "return" /\ ~ mRunning => early \/ cpc \in StopPcs
  /\ wpc = "exit" => early \/ cpc \in StopPcs
  /\ UnaskedFrame /\ ~ early => cpc \in StopPcs /\ ~ mRunning
  /\ UnaskedFrame /\ mRunning => ~ begun

\* The callback object the worker follows.
PointerInv ==
  /\ mCallBack = regs
  /\ regs <= 1 => freed = {}
  /\ mEnable /\ mCallBack = 0 => enabledEarly
  /\ wpc = "load" /\ mCallBack = 0 => early \/ enabledEarly
  /\ wpc = "pipe" /\ ptr = 0 => early \/ enabledEarly
  /\ wpc \in {"wait", "check", "call"} /\ ~ fault => mCallBack # 0

\* What bounds the callbacks after a disable.
LateInv ==
  /\ ~ begun => late = 0
  /\ wpc \in FramePcs => begun /\ late = 0
  /\ mEnable => late = 0
  /\ late <= 1

VsyncInv == TypeOK /\ LockInv /\ PointerInv /\ LateInv /\ FaultExplained

LEMMA InitVsyncInv == Init => VsyncInv
<1> SUFFICES ASSUME Init PROVE VsyncInv
  OBVIOUS
<1> USE RegsAssumption DEF Init, StopPcs, FramePcs
<1>1. TypeOK
  <2>1. regs \in 0 .. MaxRegs /\ mCallBack \in 0 .. regs /\ ptr \in 0 .. regs /\ late \in 0 .. 2
    OBVIOUS
  <2>2. wpc \in WorkerPcs /\ cpc \in ClientPcs /\ want \in Calls
    BY DEF WorkerPcs, ClientPcs, Calls
  <2> QED BY <2>1, <2>2 DEF TypeOK
<1>2. LockInv
  BY DEF LockInv, UnaskedFrame
<1>3. PointerInv /\ LateInv /\ FaultExplained
  BY DEF PointerInv, LateInv, FaultExplained
<1> QED BY <1>1, <1>2, <1>3 DEF VsyncInv

LEMMA NextVsyncInv == VsyncInv /\ [Next]_vars => VsyncInv'
<1> SUFFICES ASSUME VsyncInv, [Next]_vars
             PROVE  VsyncInv'
  OBVIOUS
<1> USE RegsAssumption
    DEF VsyncInv, TypeOK, LockInv, PointerInv, LateInv, FaultExplained, UnaskedFrame, WorkerPcs,
        ClientPcs, StopPcs, FramePcs, Calls, WGoto, workerVars, clientVars, sharedVars, heapVars, history
<1>1. CASE ~ fault /\ Lock
  BY <1>1 DEF Lock
<1>2. CASE ~ fault /\ Test
  BY <1>2 DEF Test
<1>3. CASE ~ fault /\ Park
  BY <1>3 DEF Park
<1>4. CASE ~ fault /\ Return
  BY <1>4 DEF Return
<1>5. CASE ~ fault /\ Load
  BY <1>5 DEF Load
<1>6. CASE ~ fault /\ GetPipe
  BY <1>6 DEF GetPipe
<1>7. CASE ~ fault /\ WaitVBlank
  BY <1>7 DEF WaitVBlank
<1>8. CASE ~ fault /\ Check
  BY <1>8 DEF Check
<1>9. CASE ~ fault /\ Call
  BY <1>9 DEF Call
<1>10. CASE ~ fault /\ WakeSpuriously
  BY <1>10 DEF WakeSpuriously
<1>11. CASE ~ fault /\ Spawn
  BY <1>11 DEF Spawn
<1>12. CASE ~ fault /\ SpawnFails
  <2>1. cpc' \in {"swap", "set"} /\ (cpc' = "swap" => want = "register")
    BY <1>12 DEF SpawnFails, Body
  <2> QED BY <1>12, <2>1 DEF SpawnFails
<1>13. CASE ~ fault /\ Arm
  <2>1. cpc' \in {"swap", "set"} /\ (cpc' = "swap" => want = "register")
    BY <1>13 DEF Arm, Body
  <2> QED BY <1>13, <2>1 DEF Arm
<1>14. CASE ~ fault /\ Swap
  BY <1>14 DEF Swap
<1>15. CASE ~ fault /\ Release
  BY <1>15 DEF Release
<1>16. CASE ~ fault /\ SetEnable
  BY <1>16 DEF SetEnable
<1>17. CASE ~ fault /\ Notify
  BY <1>17 DEF Notify, NotifyOne
<1>18. CASE ~ fault /\ Stop
  BY <1>18 DEF Stop
<1>19. CASE ~ fault /\ StopNotify
  BY <1>19 DEF StopNotify, NotifyOne
<1>20. CASE ~ fault /\ Join
  BY <1>20 DEF Join
<1>21. CASE ~ fault /\ Destroy
  BY <1>21 DEF Destroy
<1>22. ASSUME NEW w \in Calls, ~ fault, BeginCall(w)
       PROVE  VsyncInv'
  <2>1. /\ cpc' \in {"swap", "set", "spawn"}
        /\ cpc' = "spawn" => ~ once
        /\ cpc' = "swap" => w = "register"
    BY <1>22 DEF BeginCall, Body
  <2> QED BY <1>22, <2>1 DEF BeginCall
<1>23. CASE UNCHANGED vars
  BY <1>23 DEF vars
<1> QED
  BY <1>1, <1>2, <1>3, <1>4, <1>5, <1>6, <1>7, <1>8, <1>9, <1>10, <1>11, <1>12, <1>13, <1>14,
     <1>15, <1>16, <1>17, <1>18, <1>19, <1>20, <1>21, <1>22, <1>23 DEF Next, Worker, InCall

LEMMA VsyncInvariant == Spec => []VsyncInv
  BY InitVsyncInv, NextVsyncInv, PTL DEF Spec

\* Every variable keeps its type.
THEOREM TypeCorrect == Spec => []TypeOK
<1>1. VsyncInv => TypeOK
  BY DEF VsyncInv
<1> QED BY <1>1, VsyncInvariant, PTL

\* A bad callback pointer is followed only in the three situations the code leaves open.
THEOREM FaultHasACause == Spec => []FaultExplained
<1>1. VsyncInv => FaultExplained
  BY DEF VsyncInv
<1> QED BY <1>1, VsyncInvariant, PTL

\* A worker that saw Init finished serves until the singleton is destroyed.
THEOREM WorkerServes == Spec => []ServesUntilStopped
<1>1. VsyncInv => ServesUntilStopped
  BY DEF VsyncInv, LockInv, ServesUntilStopped
<1> QED BY <1>1, VsyncInvariant, PTL

\* The worker neither fails nor ends early, but for the races listed.
THEOREM WorkerIsClean == Spec => []WorkerRunsClean
  BY FaultHasACause, WorkerServes, PTL DEF WorkerRunsClean

\* At most one callback comes after vsync was disabled.
THEOREM OneLateCallback == Spec => []AtMostOneLate
<1>1. VsyncInv => AtMostOneLate
  BY DEF VsyncInv, LateInv, AtMostOneLate
<1> QED BY <1>1, VsyncInvariant, PTL

-----------------------------------------------------------------------------
(* The worker implements VsyncService.                                     *)

LEMMA InitRefines == Init => Service!Init
  BY DEF Init, Service!Init, FramePcs

LEMMA StepRefines == VsyncInv /\ VsyncInv' /\ [Next]_vars => [Service!Next]_(Service!vars)
<1> SUFFICES ASSUME VsyncInv, VsyncInv', [Next]_vars
             PROVE  [Service!Next]_(Service!vars)
  OBVIOUS
<1> USE DEF Service!vars, WGoto, FramePcs, workerVars, clientVars, sharedVars, heapVars, history
\* Most steps are invisible.
<1>1. ASSUME UNCHANGED <<mEnable, wpc \in FramePcs, begun, beat>>
      PROVE  [Service!Next]_(Service!vars)
  BY <1>1
<1>2. CASE ~ fault /\ Return
  <2>1. CASE mRunning
    <3>1. mEnable \/ ~ begun
      BY <1>2, <2>1 DEF Return, VsyncInv, LockInv, UnaskedFrame
    <3>2. Service!Start
      BY <1>2, <2>1, <3>1 DEF Return, Service!Start
    <3> QED BY <3>2 DEF Service!Next
  <2>2. CASE ~ mRunning
    BY <1>1, <1>2, <2>2 DEF Return, VsyncInv, TypeOK
  <2> QED BY <2>1, <2>2
<1>3. CASE ~ fault /\ Call
  BY <1>3 DEF Call, Service!Deliver, Service!Next
<1>4. CASE ~ fault /\ SetEnable
  BY <1>4 DEF SetEnable, Service!Enable, Service!Next
<1>5. CASE ~ fault /\ Check
  \* The null branch is dead: line 86 would have failed first.
  <2>1. mCallBack # 0
    BY <1>5 DEF Check, VsyncInv, PointerInv
  <2> QED BY <1>1, <1>5, <2>1 DEF Check
<1>6. CASE ~ fault /\ (Lock \/ Test \/ Park \/ Load \/ GetPipe \/ WaitVBlank \/ WakeSpuriously)
  BY <1>1, <1>6 DEF Lock, Test, Park, Load, GetPipe, WaitVBlank, WakeSpuriously
<1>7. CASE ~ fault /\ (Spawn \/ SpawnFails \/ Arm \/ Swap \/ Release \/ Notify \/ Stop \/ StopNotify
                         \/ Join \/ Destroy)
  <2>1. CASE Spawn
    BY <1>1, <2>1 DEF Spawn, VsyncInv, LockInv
  <2>2. CASE Notify \/ StopNotify
    BY <1>1, <2>2 DEF Notify, StopNotify, NotifyOne
  <2> QED
    BY <1>1, <1>7, <2>1, <2>2 DEF SpawnFails, Arm, Swap, Release, Stop, Join, Destroy
<1>8. ASSUME NEW w \in Calls, ~ fault, BeginCall(w)
      PROVE  [Service!Next]_(Service!vars)
  BY <1>1, <1>8 DEF BeginCall
<1>9. CASE UNCHANGED vars
  BY <1>1, <1>9 DEF vars
<1> QED
  BY <1>2, <1>3, <1>4, <1>5, <1>6, <1>7, <1>8, <1>9 DEF Next, Worker, InCall

\* The worker, in every interleaving with its client, is a VsyncService.
THEOREM WorkerImplementsService == Spec => ImplementsService
  BY InitRefines, StepRefines, VsyncInvariant, PTL DEF Spec, ImplementsService, Service!Spec

-----------------------------------------------------------------------------
(* The screen (Scanout).                                                   *)

ScanTyped ==
  /\ DOMAIN mPlanes = Displays /\ found \subseteq Displays
  /\ {current, last} \subseteq [Displays -> Gems]
  /\ mPipe \in [Planes -> Displays \cup {NoDisplay}] /\ shows \in [Planes -> 0 .. MaxId]
  /\ image \in [Ids -> Buffers \cup {NoBuffer}] /\ failed \in [Displays -> BOOLEAN] /\ clientBuffer \in [Displays -> Buffers \cup {NoBuffer}]

\* A framebuffer is held once: by one of the gem buffers of one display.
FramebufferInv ==
  \A d \in Displays :
    /\ {current[d].fb, last[d].fb} \subseteq Framebuffers \cup {0}
    /\ current[d].fb = last[d].fb => current[d].fb = 0
    /\ \A e \in Displays \ {d} : {current[d].fb, last[d].fb} \cap {current[e].fb, last[e].fb} \subseteq {0}

\* A plane is bound to a display because it is the first that is eligible for it, and that
\* it stays.
BoundInv == \A d \in Displays, p \in Planes : mPipe[p] = d => d \in found /\ Picks(d, p)

\* After an Apply that worked the newer of the display's framebuffers is on its plane.
LitInv ==
  \A d \in Displays, p \in Planes :
    mPipe[p] = d /\ shows[p] # 0 /\ ~ failed[d] => shows[p] = current[d].fb

\* The request of an Apply under way.
CallInv ==
  /\ call.at \in {"idle", "apply", "commit"}
  /\ call.at # "idle" => call.display \in found
  /\ call.at = "commit" =>
       /\ \A p \in call.off : mPipe[p] = NoDisplay
       /\ \A p \in call.on : p \in Planes /\ mPipe[p] = call.display
       /\ call.on # {} => /\ call.fb # 0 /\ call.fb = current[call.display].fb
                          /\ image[call.fb] = clientBuffer[call.display] /\ clientBuffer[call.display] # NoBuffer

ScanInv == ScanTyped /\ FramebufferInv /\ BoundInv /\ LitInv /\ CallInv /\ ScreenShowsWhatIsHeld

LEMMA OnePick == ASSUME NEW d, NEW p, NEW q, Picks(d, p), Picks(d, q) PROVE p = q
<1>1. PICK i \in 1 .. Len(mPlanes[d]) :
        p = mPlanes[d][i] /\ Eligible(d, p) /\ \A j \in 1 .. i - 1 : ~ Eligible(d, mPlanes[d][j])
  BY DEF Picks
<1>2. PICK k \in 1 .. Len(mPlanes[d]) :
        q = mPlanes[d][k] /\ Eligible(d, q) /\ \A j \in 1 .. k - 1 : ~ Eligible(d, mPlanes[d][j])
  BY DEF Picks
<1>3. i \in Int /\ k \in Int
  OBVIOUS
<1>4. ASSUME i < k PROVE FALSE
  <2>1. i \in 1 .. k - 1
    BY <1>3, <1>4
  <2> QED
    BY <1>1, <1>2, <2>1
<1>5. ASSUME k < i PROVE FALSE
  <2>1. k \in 1 .. i - 1
    BY <1>3, <1>5
  <2> QED
    BY <1>1, <1>2, <2>1
<1>6. i = k
  BY <1>3, <1>4, <1>5
<1> QED
  BY <1>1, <1>2, <1>6

\* The numbers in use follow from the table of images.
LEMMA NumbersInUse ==
  ASSUME NEW f \in 0 .. MaxId, NEW l \in 0 .. MaxId, NEW b, b # NoBuffer,
         image' = Put(Put(image, f, b), l, NoBuffer)
  PROVE  Framebuffers' = (Framebuffers \cup ({f} \ {0})) \ {l}
  BY ScanoutAssumption DEF Framebuffers, Put, Ids

LEMMA ScanInitInv == ScanInit => ScanInv
<1> SUFFICES ASSUME ScanInit PROVE ScanInv
  OBVIOUS
<1>1. Null \in Gems /\ Null.fb = 0 /\ Null.handle = 0
  BY ScanoutAssumption DEF Null, Gems
<1>2. ScanTyped
  BY <1>1, ScanoutAssumption DEF ScanInit, ScanTyped
<1>3. FramebufferInv
  BY <1>1 DEF ScanInit, FramebufferInv, Framebuffers
<1>4. BoundInv /\ LitInv /\ CallInv
  BY ScanoutAssumption DEF ScanInit, BoundInv, LitInv, CallInv, Idle
<1>5. ScreenShowsWhatIsHeld
  BY ScanoutAssumption DEF ScanInit, ScreenShowsWhatIsHeld, ShowsOwnFrame, NothingLeaks, OpenHandles, Framebuffers
<1> QED
  BY <1>2, <1>3, <1>4, <1>5 DEF ScanInv

\* A step that leaves the planes, the gem buffers and the kernel's tables alone.
LEMMA QuietStep ==
  ASSUME ScanInv, UNCHANGED <<gemVars, mPipe, shows, failed>>, found \subseteq found', found' \subseteq Displays,
         \A d \in found : mPlanes'[d] = mPlanes[d], DOMAIN mPlanes' = Displays, 
         clientBuffer' \in [Displays -> Buffers \cup {NoBuffer}], CallInv'
  PROVE  ScanInv'
<1>1. ScanTyped' /\ FramebufferInv' /\ LitInv'
  BY DEF ScanInv, ScanTyped, FramebufferInv, LitInv, gemVars, Framebuffers
<1>2. BoundInv'
  BY DEF ScanInv, BoundInv, Picks, Eligible
<1>3. ScreenShowsWhatIsHeld'
  BY DEF ScanInv, ScreenShowsWhatIsHeld, ShowsOwnFrame, NothingLeaks, OpenHandles, gemVars, Framebuffers
<1> QED
  BY <1>1, <1>2, <1>3 DEF ScanInv

\* Who enters Apply was discovered, and no request is under way.
LEMMA EntersFound == ASSUME ScanInv, NEW d \in Displays, Enters(d) PROVE d \in found /\ call.at # "commit"
<1>1. CASE call = Entering(d)
  BY <1>1 DEF ScanInv, CallInv, Entering
<1>2. CASE call = Idle /\ d \in found
  BY <1>2 DEF Idle
<1> QED
  BY <1>1, <1>2 DEF Enters

LEMMA DiscoverStep == ASSUME ScanInv, NEW d \in Displays, Discover(d) PROVE ScanInv'
<1>1. UNCHANGED <<gemVars, mPipe, shows, failed>> /\ found' = found \cup {d} /\ d \notin found /\ call = Idle
  BY DEF Discover
<1>2. DOMAIN mPlanes' = Displays /\ \A e \in found : mPlanes'[e] = mPlanes[e]
  BY DEF Discover, ScanInv, ScanTyped
<1>3. clientBuffer' \in [Displays -> Buffers \cup {NoBuffer}]
  BY DEF Discover, ScanInv, ScanTyped, layerVars
<1>4. CallInv'
  BY <1>1 DEF Discover, ScanInv, CallInv, Entering, Idle, layerVars
<1>5. found' \subseteq Displays
  BY <1>1 DEF ScanInv, ScanTyped
<1> QED
  BY <1>1, <1>2, <1>3, <1>4, <1>5, QuietStep

LEMMA ClientStep ==
  ASSUME ScanInv, NEW d \in Displays,
         PrepareDisplayLayers(d) \/ \E b \in Buffers : SetDisplayClientBuffer(d, b)
  PROVE  ScanInv'
<1>1. UNCHANGED <<gemVars, mPipe, shows, failed, displayVars, call>> /\ call = Idle
  BY DEF PrepareDisplayLayers, SetDisplayClientBuffer
<1>2. clientBuffer' \in [Displays -> Buffers \cup {NoBuffer}]
  BY DEF PrepareDisplayLayers, SetDisplayClientBuffer, ScanInv, ScanTyped
<1>3. CallInv'
  BY <1>1 DEF ScanInv, CallInv, displayVars, gemVars, Idle
<1> QED
  BY <1>1, <1>2, <1>3, QuietStep DEF ScanInv, ScanTyped, displayVars

LEMMA EmptyApplyStep ==
  ASSUME ScanInv, NEW d \in Displays, ApplyGivesUp(d) \/ ApplyNothing(d) \/ ApplyNull(d)
  PROVE  ScanInv'
<1>1. UNCHANGED <<displayVars, layerVars, gemVars, mPipe, shows, failed>> /\ Enters(d)
  BY DEF ApplyGivesUp, ApplyNothing, ApplyNull
<1>2. d \in found
  BY <1>1, EntersFound
<1>3. call' \in {Idle, Request(d, {}, 0, Unused(d)), Entering(d)}
  BY DEF ApplyGivesUp, ApplyNothing, ApplyNull
<1>4. CallInv'
  <2>1. \A p \in Unused(d) : mPipe[p] = NoDisplay
    BY DEF Unused
  <2>2. CASE call' = Idle
    BY <2>2 DEF CallInv, Idle
  <2>3. CASE call' = Entering(d)
    BY <1>1, <1>2, <2>3 DEF CallInv, Entering, displayVars
  <2>4. CASE call' = Request(d, {}, 0, Unused(d))
    BY <1>1, <1>2, <2>1, <2>4 DEF CallInv, Request, displayVars
  <2> QED
    BY <1>3, <2>2, <2>3, <2>4
<1> QED
  BY <1>1, <1>4, QuietStep DEF ScanInv, ScanTyped, displayVars, layerVars

\* ApplyPlane with a null buffer, with one that is not valid and with one that is.
LEMMA ApplyPlaneStep ==
  ASSUME ScanInv, NEW d \in Displays, NEW p \in Planes, NEW g \in Gems, ApplyPlane(d, p, g)
  PROVE  ScanInv'
<1> USE ScanoutAssumption
<1>1. /\ clientBuffer[d] # NoBuffer /\ Picks(d, p) /\ Enters(d) /\ d \in found
      /\ current' = [current EXCEPT ![d] = g] /\ last' = [last EXCEPT ![d] = current[d]]
      /\ handle' = Put(Put(handle, g.handle, clientBuffer[d]), last[d].handle, NoBuffer)
      /\ image' = Put(Put(image, g.fb, clientBuffer[d]), last[d].fb, NoBuffer)
      /\ shows' = [q \in Planes |-> IF shows[q] = last[d].fb THEN 0 ELSE shows[q]]
      /\ failed' = [failed EXCEPT ![d] = TRUE]
      /\ UNCHANGED <<mPlanes, found, clientBuffer>>
  BY EntersFound DEF ApplyPlane, GetGemBuffer, displayVars, layerVars
<1>2. /\ g.fb \in 0 .. MaxId /\ g.handle \in 0 .. MaxId /\ (g.fb = 0 \/ g.fb \in Ids \ Framebuffers)
      /\ Framebuffers' = (Framebuffers \cup ({g.fb} \ {0})) \ {last[d].fb}
  <2>1. g.fb \in 0 .. MaxId /\ g.handle \in 0 .. MaxId /\ last[d].fb \in 0 .. MaxId
    BY DEF Gems, ScanInv, ScanTyped
  <2>2. g.fb = 0 \/ g.fb \in Ids \ Framebuffers
    BY DEF ApplyPlane, GetGemBuffer, InitGem, IsNext, Null
  <2> QED
    BY <1>1, <2>1, <2>2, NumbersInUse
<1>3. /\ current' \in [Displays -> Gems] /\ last' \in [Displays -> Gems]
      /\ current'[d] = g /\ last'[d] = current[d] /\ failed'[d] = TRUE
      /\ \A e \in Displays \ {d} : current'[e] = current[e] /\ last'[e] = last[e] /\ failed'[e] = failed[e]
  BY <1>1 DEF ScanInv, ScanTyped
<1>4. /\ mPipe' \in [Planes -> Displays \cup {NoDisplay}]
      /\ mPipe'[p] \in {mPipe[p], d} /\ mPipe[p] \in {NoDisplay, d}
      /\ \A q \in Planes \ {p} : mPipe'[q] = mPipe[q]
  <2>1. mPipe' = mPipe \/ mPipe' = [mPipe EXCEPT ![p] = d]
    BY DEF ApplyPlane
  <2>2. mPipe \in [Planes -> Displays \cup {NoDisplay}]
    BY DEF ScanInv, ScanTyped
  <2>3. mPipe[p] \in {NoDisplay, d}
    BY <1>1 DEF Picks, Eligible
  <2> QED
    BY <2>1, <2>2, <2>3
<1>5. \/ mPipe'[p] = d /\ call' = Request(d, {p}, g.fb, Unused(d) \ {p}) /\ g.fb # 0
      \/ mPipe'[p] = mPipe[p] /\ call' = Request(d, {}, 0, Unused(d))
  BY DEF ApplyPlane, IsValid, ScanInv, ScanTyped
<1>6. ScanTyped'
  <2>1. shows' \in [Planes -> 0 .. MaxId] /\ failed' \in [Displays -> BOOLEAN]
    BY <1>1 DEF ScanInv, ScanTyped
  <2>2. image' \in [Ids -> Buffers \cup {NoBuffer}]
    BY <1>1 DEF ScanInv, ScanTyped, Put
  <2> QED
    BY <1>1, <1>3, <1>4, <2>1, <2>2 DEF ScanInv, ScanTyped
<1>7. FramebufferInv'
  <2> SUFFICES ASSUME NEW e \in Displays
               PROVE  /\ {current'[e].fb, last'[e].fb} \subseteq Framebuffers' \cup {0}
                      /\ current'[e].fb = last'[e].fb => current'[e].fb = 0
                      /\ \A c \in Displays \ {e} :
                           {current'[e].fb, last'[e].fb} \cap {current'[c].fb, last'[c].fb} \subseteq {0}
    BY DEF FramebufferInv
  <2>1. FramebufferInv
    BY DEF ScanInv
  <2>2. CASE e = d
    <3>1. {current'[e].fb, last'[e].fb} \subseteq Framebuffers' \cup {0}
      BY <1>1, <1>2, <1>3, <2>1, <2>2 DEF FramebufferInv, Ids
    <3>2. current'[e].fb = last'[e].fb => current'[e].fb = 0
      BY <1>2, <1>3, <2>1, <2>2 DEF FramebufferInv
    <3>3. ASSUME NEW c \in Displays \ {e}
          PROVE  {current'[e].fb, last'[e].fb} \cap {current'[c].fb, last'[c].fb} \subseteq {0}
      <4>1. {current[c].fb, last[c].fb} \subseteq Framebuffers \cup {0}
            /\ {current[d].fb, last[d].fb} \cap {current[c].fb, last[c].fb} \subseteq {0}
        BY <2>1, <2>2 DEF FramebufferInv
      <4> QED
        BY <1>2, <1>3, <2>2, <4>1
    <3> QED
      BY <3>1, <3>2, <3>3
  <2>3. CASE e # d
    <3>1. {current'[e].fb, last'[e].fb} \subseteq Framebuffers' \cup {0}
      <4>1. {current[e].fb, last[e].fb} \subseteq Framebuffers \cup {0}
            /\ {current[e].fb, last[e].fb} \cap {current[d].fb, last[d].fb} \subseteq {0}
        BY <2>1, <2>3 DEF FramebufferInv
      <4> QED
        BY <1>1, <1>2, <1>3, <2>3, <4>1
    <3>2. current'[e].fb = last'[e].fb => current'[e].fb = 0
      BY <1>3, <2>1, <2>3 DEF FramebufferInv
    <3>3. ASSUME NEW c \in Displays \ {e}
          PROVE  {current'[e].fb, last'[e].fb} \cap {current'[c].fb, last'[c].fb} \subseteq {0}
      <4>1. {current[e].fb, last[e].fb} \subseteq Framebuffers \cup {0}
            /\ {current[e].fb, last[e].fb} \cap {current[c].fb, last[c].fb} \subseteq {0}
        BY <2>1 DEF FramebufferInv
      <4>2. CASE c = d
        BY <1>2, <1>3, <2>3, <4>1, <4>2
      <4>3. CASE c # d
        BY <1>3, <2>3, <4>1, <4>3
      <4> QED
        BY <4>2, <4>3
    <3> QED
      BY <3>1, <3>2, <3>3
  <2> QED
    BY <2>2, <2>3
<1>8. BoundInv'
  <2> SUFFICES ASSUME NEW e \in Displays, NEW q \in Planes, mPipe'[q] = e
               PROVE  e \in found' /\ Picks(e, q)'
    BY DEF BoundInv
  <2>1. e \in found /\ Picks(e, q)
    BY <1>1, <1>4 DEF ScanInv, BoundInv
  <2>2. PICK j \in 1 .. Len(mPlanes[e]) :
          q = mPlanes[e][j] /\ Eligible(e, q) /\ \A i \in 1 .. j - 1 : ~ Eligible(e, mPlanes[e][i])
    BY <2>1 DEF Picks
  <2>3. Eligible(e, q)'
    BY <2>2 DEF Eligible
  <2>4. ASSUME NEW i \in 1 .. j - 1 PROVE ~ Eligible(e, mPlanes[e][i])'
    <3>1. mPlanes'[e] = mPlanes[e] /\ mPlanes[e][i] # q
      BY <1>1, <2>2, <2>4
    <3>2. CASE mPlanes[e][i] = p
      <4>1. e # d
        BY <1>1, <2>1, <2>2, <2>4, <3>2, OnePick DEF Picks
      <4>2. p \notin Masked[e] \/ p \notin CrtcOk[e] \/ mPipe[p] \notin {NoDisplay, e}
        BY <2>2, <2>4, <3>2 DEF Eligible
      <4>3. mPipe'[p] = d \/ mPipe'[p] = mPipe[p]
        BY <1>4
      <4> QED
        BY <3>1, <3>2, <4>1, <4>2, <4>3 DEF Eligible
    <3>3. CASE mPlanes[e][i] # p
      <4> DEFINE r == mPlanes[e][i]
      <4>1. ~ Eligible(e, r)
        BY <2>2, <2>4
      <4>2. CASE r \in Planes
        BY <1>4, <3>1, <3>3, <4>1, <4>2 DEF Eligible
      <4>3. CASE r \notin Planes
        BY <3>1, <4>3 DEF Eligible
      <4> QED
        BY <4>2, <4>3
    <3> QED
      BY <3>2, <3>3
  <2> QED
    BY <1>1, <2>1, <2>2, <2>3, <2>4 DEF Picks
<1>9. LitInv'
  <2> SUFFICES ASSUME NEW e \in Displays, NEW q \in Planes, mPipe'[q] = e, shows'[q] # 0, ~ failed'[e]
               PROVE  shows'[q] = current'[e].fb
    BY DEF LitInv
  <2>1. e # d
    BY <1>3
  <2>2. mPipe[q] = e /\ shows'[q] = shows[q]
    BY <1>1, <1>4, <2>1
  <2>3. shows[q] = current[e].fb
    <3>1. LitInv /\ shows[q] # 0 /\ ~ failed[e]
      BY <1>3, <2>1, <2>2 DEF ScanInv
    <3> QED
      BY <2>2, <3>1 DEF LitInv
  <2> QED
    BY <1>3, <2>1, <2>2, <2>3
<1>10. CallInv'
  <2>1. \A q \in Unused(d) : q \in Planes /\ mPipe[q] = NoDisplay
    BY DEF Unused
  <2>2. CASE mPipe'[p] = d /\ call' = Request(d, {p}, g.fb, Unused(d) \ {p}) /\ g.fb # 0
    <3>1. image'[g.fb] = clientBuffer[d]
      <4>1. g.fb \in Ids /\ g.fb # last[d].fb
        BY <1>2, <2>2 DEF ScanInv, FramebufferInv, Ids
      <4> QED
        BY <1>1, <4>1 DEF Put
    <3>2. /\ call'.at = "commit" /\ call'.display = d /\ call'.on = {p} /\ call'.fb = g.fb
          /\ call'.off = Unused(d) \ {p}
      BY <2>2 DEF Request
    <3>3. \A q \in call'.off : mPipe'[q] = NoDisplay
      BY <1>4, <2>1, <3>2
    <3>4. \A q \in call'.on : q \in Planes /\ mPipe'[q] = call'.display
      BY <2>2, <3>2
    <3>5. call'.fb # 0 /\ call'.fb = current'[d].fb /\ image'[call'.fb] = clientBuffer'[d] /\ clientBuffer'[d] # NoBuffer
      BY <1>1, <1>3, <2>2, <3>1, <3>2
    <3> QED
      BY <1>1, <3>2, <3>3, <3>4, <3>5 DEF CallInv
  <2>3. CASE mPipe'[p] = mPipe[p] /\ call' = Request(d, {}, 0, Unused(d))
    BY <1>1, <1>4, <2>1, <2>3 DEF CallInv, Request
  <2> QED
    BY <1>5, <2>2, <2>3
<1>11. ShowsOwnFrame'
  <2>1. ASSUME NEW q \in Planes, shows'[q] # 0
        PROVE  \E e \in Displays : mPipe'[q] = e /\ shows'[q] \in {current'[e].fb, last'[e].fb} \cap Framebuffers'
    <3>1. shows[q] = shows'[q] /\ shows[q] # last[d].fb
      BY <1>1, <2>1
    <3>2. PICK e \in Displays : mPipe[q] = e /\ shows[q] \in {current[e].fb, last[e].fb} \cap Framebuffers
      BY <2>1, <3>1 DEF ScanInv, ScreenShowsWhatIsHeld, ShowsOwnFrame
    <3>3. mPipe'[q] = e /\ shows'[q] \in Framebuffers'
      BY <1>1, <1>2, <1>4, <3>1, <3>2
    <3>4. shows'[q] \in {current'[e].fb, last'[e].fb}
      BY <1>3, <3>1, <3>2
    <3> QED
      BY <3>3, <3>4
  <2>2. ASSUME NEW q \in Planes, NEW r \in Planes, mPipe'[q] = mPipe'[r], mPipe'[q] # NoDisplay PROVE q = r
    <3>1. mPipe'[q] \in Displays /\ Picks(mPipe'[q], q) /\ Picks(mPipe'[r], r)
      BY <1>1, <1>4, <2>2 DEF ScanInv, BoundInv
    <3> QED
      BY <2>2, <3>1, OnePick
  <2> QED
    BY <2>1, <2>2 DEF ShowsOwnFrame
<1>12. NothingLeaks'
  <2>1. ASSUME NEW h \in Ids, handle'[h] # NoBuffer
        PROVE  \E e \in Displays : h \in {current'[e].handle, last'[e].handle}
    <3>1. h # last[d].handle /\ (h = g.handle \/ handle[h] # NoBuffer)
      BY <1>1, <2>1 DEF Put
    <3>2. CASE h = g.handle
      BY <1>3, <3>2
    <3>3. CASE handle[h] # NoBuffer
      <4>1. PICK e \in Displays : h \in {current[e].handle, last[e].handle}
        BY <3>3 DEF ScanInv, ScreenShowsWhatIsHeld, NothingLeaks, OpenHandles
      <4> QED
        BY <1>3, <3>1, <4>1
    <3> QED
      BY <3>1, <3>2, <3>3
  <2>2. ASSUME NEW f \in Framebuffers' PROVE \E e \in Displays : f \in {current'[e].fb, last'[e].fb}
    <3>1. f # last[d].fb /\ (f = g.fb \/ f \in Framebuffers)
      BY <1>1, <1>2, <2>2
    <3>2. CASE f = g.fb
      BY <1>3, <3>2
    <3>3. CASE f \in Framebuffers
      <4>1. PICK e \in Displays : f \in {current[e].fb, last[e].fb}
        BY <3>3 DEF ScanInv, ScreenShowsWhatIsHeld, NothingLeaks
      <4> QED
        BY <1>3, <3>1, <4>1
    <3> QED
      BY <3>1, <3>2, <3>3
  <2> QED
    BY <2>1, <2>2 DEF NothingLeaks, OpenHandles
<1> QED
  BY <1>6, <1>7, <1>8, <1>9, <1>10, <1>11, <1>12 DEF ScanInv, ScreenShowsWhatIsHeld

LEMMA CommitStep == ASSUME ScanInv, AtomicCommit PROVE ScanInv'
<1>1. /\ call.at = "commit" /\ call' = Idle
      /\ UNCHANGED <<mPlanes, found, clientBuffer, current, last, handle, image, Framebuffers, mPipe>>
  BY DEF AtomicCommit, displayVars, layerVars, gemVars, Framebuffers
<1>2. CallInv'
  BY <1>1 DEF CallInv, Idle
<1>3. CASE UNCHANGED <<shows, failed>>
  BY <1>1, <1>2, <1>3, QuietStep DEF gemVars, ScanInv, ScanTyped
<1>4. CASE /\ shows' = [p \in Planes |->
                IF p \in call.off THEN 0 ELSE IF p \in call.on THEN call.fb ELSE shows[p]]
           /\ failed' = [failed EXCEPT ![call.display] = @ /\ call.on = {}]
  <2> DEFINE d == call.display
  <2>1. /\ d \in found /\ d \in Displays
        /\ \A p \in call.on : p \in Planes /\ mPipe[p] = d
        /\ call.on # {} => call.fb # 0 /\ call.fb = current[d].fb
    BY <1>1 DEF ScanInv, ScanTyped, CallInv
  <2>2. call.on # {} => call.fb \in Framebuffers /\ call.fb \in 0 .. MaxId
    BY <2>1 DEF ScanInv, ScanTyped, FramebufferInv, Gems
  <2>3. /\ failed' \in [Displays -> BOOLEAN]
        /\ \A e \in Displays : ~ failed'[e] => ~ failed[e] \/ (e = d /\ call.on # {})
    BY <1>4, <2>1 DEF ScanInv, ScanTyped
  <2>4. \A p \in Planes : shows'[p] # 0 =>
          \/ shows'[p] = shows[p] /\ p \notin call.on
          \/ p \in call.on /\ shows'[p] = call.fb
    BY <1>4
  <2>5. ScanTyped'
    BY <1>1, <1>4, <2>2, <2>3, ScanoutAssumption DEF ScanInv, ScanTyped
  <2>6. FramebufferInv' /\ BoundInv'
    BY <1>1 DEF ScanInv, FramebufferInv, BoundInv, Picks, Eligible
  <2>7. ShowsOwnFrame'
    BY <1>1, <2>1, <2>2, <2>4 DEF ScanInv, ScreenShowsWhatIsHeld, ShowsOwnFrame
  <2>8. LitInv'
    <3> SUFFICES ASSUME NEW e \in Displays, NEW p \in Planes, mPipe[p] = e, shows'[p] # 0, ~ failed'[e]
                 PROVE  shows'[p] = current[e].fb
      BY <1>1 DEF LitInv
    <3>1. CASE p \in call.on
      BY <2>1, <2>4, <3>1
    <3>2. CASE p \notin call.on /\ ~ failed[e]
      BY <2>4, <3>2 DEF ScanInv, LitInv
    <3>3. CASE p \notin call.on /\ e = d /\ call.on # {}
      <4>1. PICK q \in call.on : q \in Planes /\ mPipe[q] = d
        BY <2>1, <3>3
      <4> QED
        BY <3>3, <4>1, <2>1, ScanoutAssumption DEF ScanInv, ScreenShowsWhatIsHeld, ShowsOwnFrame
    <3> QED
      BY <2>3, <3>1, <3>2, <3>3
  <2>9. NothingLeaks'
    BY <1>1 DEF ScanInv, ScreenShowsWhatIsHeld, NothingLeaks, OpenHandles
  <2> QED
    BY <1>2, <2>5, <2>6, <2>7, <2>8, <2>9 DEF ScanInv, ScreenShowsWhatIsHeld
<1> QED
  BY <1>3, <1>4 DEF AtomicCommit

LEMMA ScanStepInv == ScanInv /\ [ScanNext]_scanVars => ScanInv'
<1> SUFFICES ASSUME ScanInv, [ScanNext]_scanVars PROVE ScanInv'
  OBVIOUS
<1>1. ASSUME NEW d \in Displays, Discover(d) PROVE ScanInv'
  BY <1>1, DiscoverStep
<1>2. ASSUME NEW d \in Displays, PrepareDisplayLayers(d) PROVE ScanInv'
  BY <1>2, ClientStep
<1>3. ASSUME NEW d \in Displays, NEW b \in Buffers, SetDisplayClientBuffer(d, b) PROVE ScanInv'
  BY <1>3, ClientStep
<1>4. ASSUME NEW d \in Displays, ApplyGivesUp(d) \/ ApplyNothing(d) \/ ApplyNull(d) PROVE ScanInv'
  BY <1>4, EmptyApplyStep
<1>5. ASSUME NEW d \in Displays, NEW p \in Planes, NEW g \in Gems, ApplyPlane(d, p, g) PROVE ScanInv'
  BY <1>5, ApplyPlaneStep
<1>6. CASE AtomicCommit
  BY <1>6, CommitStep
<1>7. CASE UNCHANGED scanVars
  <2>1. UNCHANGED <<gemVars, mPipe, shows, failed, displayVars, call, clientBuffer>>
    BY <1>7 DEF scanVars, layerVars
  <2>2. CallInv'
    BY <2>1 DEF ScanInv, CallInv, displayVars, gemVars
  <2> QED
    BY <2>1, <2>2, QuietStep DEF ScanInv, ScanTyped, displayVars
<1> QED
  BY <1>1, <1>2, <1>3, <1>4, <1>5, <1>6, <1>7 DEF ScanNext

\* HdiDrmComposition::Apply and the kernel, for any displays, planes and buffers: a plane
\* shows a framebuffer that the display it is bound to still owns, and no handle or
\* framebuffer is without an owner who gives it back.
THEOREM ScreenShowsWhatIsHeldAlways == ScanSpec => []ScreenShowsWhatIsHeld
<1>1. ScanInv => ScreenShowsWhatIsHeld
  BY DEF ScanInv
<1> QED
  BY <1>1, ScanInitInv, ScanStepInv, PTL DEF ScanSpec

\* Of all the steps only two darken a plane: the one that destroys the older gem buffer, and
\* that buffer is on a plane only if the newer one never got there; and the commit, whose
\* request turns off planes nobody is bound to.
LEMMA BlankStep ==
  ASSUME ScanInv, [ScanNext]_scanVars, NEW p \in Planes, shows[p] # 0, shows'[p] = 0
  PROVE  mPipe[p] \in Displays /\ failed[mPipe[p]]
<1>1. PICK d \in Displays : mPipe[p] = d /\ shows[p] \in {current[d].fb, last[d].fb}
  BY DEF ScanInv, ScreenShowsWhatIsHeld, ShowsOwnFrame
<1>2. shows' # shows
  OBVIOUS
<1>3. CASE \E e \in Displays, q \in Planes, g \in Gems : ApplyPlane(e, q, g)
  <2>1. PICK e \in Displays : shows' = [r \in Planes |-> IF shows[r] = last[e].fb THEN 0 ELSE shows[r]]
    BY <1>3 DEF ApplyPlane, GetGemBuffer
  <2>2. shows[p] = last[e].fb
    BY <2>1
  <2>3. e = d
    <3>1. e # d => {current[e].fb, last[e].fb} \cap {current[d].fb, last[d].fb} \subseteq {0}
      BY DEF ScanInv, FramebufferInv
    <3> QED
      BY <1>1, <2>2, <3>1
  <2>4. shows[p] # current[d].fb
    BY <2>2, <2>3 DEF ScanInv, FramebufferInv
  <2> QED
    BY <1>1, <2>4 DEF ScanInv, LitInv
<1>4. CASE AtomicCommit
  <2>1. p \notin call.off
    BY <1>1, <1>4, ScanoutAssumption DEF AtomicCommit, ScanInv, CallInv
  <2>2. p \in call.on => call.fb # 0
    BY <1>4 DEF AtomicCommit, ScanInv, CallInv
  <2> QED
    BY <1>2, <1>4, <2>1, <2>2 DEF AtomicCommit
<1> QED
  BY <1>2, <1>3, <1>4
     DEF ScanNext, scanVars, Discover, PrepareDisplayLayers, ApplyGivesUp, ApplyNothing, ApplyNull, SetDisplayClientBuffer

\* The screen goes dark only in the Apply after one that did not show its buffer, whatever
\* the number of displays, planes and buffers.
THEOREM BlanksOnlyAfterFailureAlways == ScanSpec => BlanksOnlyAfterFailure
<1>1. ScanInv /\ [ScanNext]_scanVars =>
        [\A p \in Planes : shows[p] # 0 /\ shows'[p] = 0 => mPipe[p] \in Displays /\ failed[mPipe[p]]]_scanVars
  BY BlankStep
<1> QED
  BY <1>1, ScanInitInv, ScanStepInv, PTL DEF ScanSpec, BlanksOnlyAfterFailure

-----------------------------------------------------------------------------
(* Each display is a FrameService.                                         *)

\* A plane of d that shows something.
Lit(d, p) == mPipe[p] = d /\ shows[p] # 0

\* The picture on a display, before and after a step.
LEMMA OnLitPlane ==
  ASSUME NEW d \in Displays, NEW p \in Planes
  PROVE  /\ ScanInv /\ Lit(d, p) => OnScreen(d) = image[shows[p]]
         /\ ScanInv' /\ Lit(d, p)' => OnScreen(d)' = image'[shows'[p]]
<1>1. ASSUME ScanInv, Lit(d, p) PROVE OnScreen(d) = image[shows[p]]
  <2>1. \A q \in Planes : mPipe[q] = d /\ shows[q] # 0 => q = p
    BY <1>1, ScanoutAssumption DEF Lit, ScanInv, ScreenShowsWhatIsHeld, ShowsOwnFrame
  <2>2. (CHOOSE q \in Planes : mPipe[q] = d /\ shows[q] # 0) = p
    BY <1>1, <2>1 DEF Lit
  <2> QED
    BY <1>1, <2>2 DEF OnScreen, Lit
<1>2. ASSUME ScanInv', Lit(d, p)' PROVE OnScreen(d)' = image'[shows'[p]]
  <2>1. \A q \in Planes : mPipe'[q] = d /\ shows'[q] # 0 => q = p
    BY <1>2, ScanoutAssumption DEF Lit, ScanInv, ScreenShowsWhatIsHeld, ShowsOwnFrame
  <2>2. (CHOOSE q \in Planes : mPipe'[q] = d /\ shows'[q] # 0) = p
    BY <1>2, <2>1 DEF Lit
  <2> QED
    BY <1>2, <2>2 DEF OnScreen, Lit
<1> QED
  BY <1>1, <1>2

LEMMA OnNoPlane ==
  ASSUME NEW d \in Displays
  PROVE  /\ (\A p \in Planes : ~ Lit(d, p)) => OnScreen(d) = NoBuffer
         /\ (\A p \in Planes : ~ Lit(d, p)') => OnScreen(d)' = NoBuffer
  BY DEF OnScreen, Lit

\* A plane's framebuffer is one of its display's, and there.
LEMMA LitIsHeld ==
  ASSUME ScanInv, NEW d \in Displays, NEW p \in Planes, Lit(d, p)
  PROVE  shows[p] \in {current[d].fb, last[d].fb} /\ shows[p] \in Framebuffers
  BY DEF Lit, ScanInv, ScreenShowsWhatIsHeld, ShowsOwnFrame

LEMMA SameScreen ==
  ASSUME ScanInv, ScanInv', NEW d \in Displays,
         \A p \in Planes : Lit(d, p) => mPipe'[p] = d /\ shows'[p] = shows[p] /\ image'[shows[p]] = image[shows[p]],
         \A p \in Planes : Lit(d, p)' => Lit(d, p)
  PROVE  OnScreen(d)' = OnScreen(d)
<1>1. CASE \E p \in Planes : Lit(d, p)
  <2>1. PICK p \in Planes : Lit(d, p)
    BY <1>1
  <2>2. Lit(d, p)'
    BY <2>1 DEF Lit
  <2>3. OnScreen(d) = image[shows[p]] /\ OnScreen(d)' = image'[shows'[p]]
    BY <2>1, <2>2, OnLitPlane
  <2> QED
    BY <2>1, <2>3
<1>2. CASE ~ \E p \in Planes : Lit(d, p)
  <2>1. OnScreen(d) = NoBuffer
    BY <1>2, OnNoPlane
  <2>2. OnScreen(d)' = NoBuffer
    BY <1>2, OnNoPlane
  <2> QED
    BY <2>1, <2>2
<1> QED
  BY <1>1, <1>2

LEMMA FrameStutters ==
  ASSUME NEW d \in Displays, OnScreen(d)' = OnScreen(d), clientBuffer'[d] = clientBuffer[d], failed'[d] = failed[d]
  PROVE  [Frame(d)!Next]_(Frame(d)!frameServiceVars)
  BY DEF Frame!frameServiceVars

\* A step of the client, or an Apply that touches no buffer.
LEMMA FrameQuiet ==
  ASSUME ScanInv, ScanInv', NEW d \in Displays, UNCHANGED <<image, mPipe, shows, failed>>,
         clientBuffer'[d] = clientBuffer[d] \/ \E b \in Buffers : clientBuffer'[d] = b
  PROVE  [Frame(d)!Next]_(Frame(d)!frameServiceVars)
<1>1. OnScreen(d)' = OnScreen(d)
  BY SameScreen DEF Lit
<1>2. CASE clientBuffer'[d] = clientBuffer[d]
  BY <1>1, <1>2, FrameStutters
<1>3. ASSUME NEW b \in Buffers, clientBuffer'[d] = b PROVE [Frame(d)!Next]_(Frame(d)!frameServiceVars)
  <2>1. Frame(d)!Set(b)
    BY <1>1, <1>3 DEF Frame!Set
  <2> QED
    BY <2>1 DEF Frame!Next
<1> QED
  BY <1>2, <1>3

\* Apply of display e: the older of its gem buffers is destroyed.  That is on the screen
\* only if the newer never got there; and all that other displays show stays.
LEMMA FrameApply ==
  ASSUME ScanInv, ScanInv', NEW d \in Displays,
         NEW e \in Displays, NEW p \in Planes, NEW g \in Gems, ApplyPlane(e, p, g)
  PROVE  [Frame(d)!Next]_(Frame(d)!frameServiceVars)
<1>1. /\ clientBuffer' = clientBuffer /\ failed' = [failed EXCEPT ![e] = TRUE]
      /\ image' = Put(Put(image, g.fb, clientBuffer[e]), last[e].fb, NoBuffer)
      /\ shows' = [q \in Planes |-> IF shows[q] = last[e].fb THEN 0 ELSE shows[q]]
      /\ mPipe' = mPipe \/ mPipe' = [mPipe EXCEPT ![p] = e]
      /\ mPipe[p] \in {NoDisplay, e}
      /\ g.fb \notin Framebuffers
  BY DEF ApplyPlane, GetGemBuffer, layerVars, InitGem, IsNext, Null, Framebuffers, Picks, Eligible, Ids
<1>2. \A q \in Planes : Lit(d, q)' => Lit(d, q)
  <2> SUFFICES ASSUME NEW q \in Planes, mPipe'[q] = d, shows'[q] # 0 PROVE mPipe[q] = d /\ shows[q] # 0
    BY DEF Lit
  <2>1. shows[q] # 0 /\ mPipe[q] \in Displays
    BY <1>1 DEF ScanInv, ScreenShowsWhatIsHeld, ShowsOwnFrame
  <2>2. mPipe'[q] = mPipe[q]
    BY <1>1, <2>1, ScanoutAssumption DEF ScanInv, ScanTyped
  <2> QED
    BY <2>1, <2>2
<1>3. \A q \in Planes : Lit(d, q) =>
        mPipe'[q] = d /\ shows'[q] = (IF shows[q] = last[e].fb THEN 0 ELSE shows[q])
  BY <1>1, ScanoutAssumption DEF Lit, ScanInv, ScanTyped
<1>4. \A q \in Planes : Lit(d, q) /\ shows[q] # last[e].fb => image'[shows[q]] = image[shows[q]]
  BY <1>1, LitIsHeld DEF Put, Framebuffers
<1>5. CASE \A q \in Planes : Lit(d, q) => shows[q] # last[e].fb
  <2>1. OnScreen(d)' = OnScreen(d)
    BY <1>2, <1>3, <1>4, <1>5, SameScreen
  <2>2. CASE d = e
    <3>1. Frame(d)!Miss
      BY <1>1, <2>1, <2>2 DEF Frame!Miss, ScanInv, ScanTyped
    <3> QED
      BY <3>1 DEF Frame!Next
  <2>3. CASE d # e
    BY <1>1, <2>1, <2>3, FrameStutters DEF ScanInv, ScanTyped
  <2> QED
    BY <2>2, <2>3
<1>6. ASSUME NEW q \in Planes, Lit(d, q), shows[q] = last[e].fb
      PROVE  [Frame(d)!Next]_(Frame(d)!frameServiceVars)
  <2>1. shows[q] \in {current[d].fb, last[d].fb} /\ shows[q] # 0
    BY <1>6, LitIsHeld DEF Lit
  <2>2. d = e
    <3>1. d # e => {current[d].fb, last[d].fb} \cap {current[e].fb, last[e].fb} \subseteq {0}
      BY DEF ScanInv, FramebufferInv
    <3> QED
      BY <1>6, <2>1, <3>1
  <2>3. failed[d]
    <3>1. shows[q] # current[d].fb
      BY <1>6, <2>1, <2>2 DEF ScanInv, FramebufferInv
    <3> QED
      BY <1>6, <3>1 DEF ScanInv, LitInv, Lit
  <2>4. \A r \in Planes : ~ Lit(d, r)'
    <3> SUFFICES ASSUME NEW r \in Planes, Lit(d, r)' PROVE FALSE
      OBVIOUS
    <3>1. Lit(d, r)
      BY <1>2
    <3>2. r = q
      BY <1>6, <3>1, ScanoutAssumption DEF Lit, ScanInv, ScreenShowsWhatIsHeld, ShowsOwnFrame
    <3> QED
      BY <1>1, <1>6, <3>2 DEF Lit
  <2>5. OnScreen(d)' = NoBuffer
    BY <2>4, OnNoPlane
  <2>6. Frame(d)!Miss
    BY <1>1, <2>2, <2>3, <2>5 DEF Frame!Miss, ScanInv, ScanTyped
  <2> QED
    BY <2>6 DEF Frame!Next
<1> QED
  BY <1>5, <1>6

\* The commit: the plane of its display, and no other's, gets the framebuffer of the
\* buffer that is the client's.
LEMMA FrameCommit ==
  ASSUME ScanInv, ScanInv', NEW d \in Displays, AtomicCommit
  PROVE  [Frame(d)!Next]_(Frame(d)!frameServiceVars)
<1>1. UNCHANGED <<image, clientBuffer, mPipe>>
  BY DEF AtomicCommit, layerVars, gemVars
<1>2. CASE UNCHANGED <<shows, failed>>
  BY <1>1, <1>2, FrameQuiet
<1>3. CASE /\ shows' = [p \in Planes |->
                IF p \in call.off THEN 0 ELSE IF p \in call.on THEN call.fb ELSE shows[p]]
           /\ failed' = [failed EXCEPT ![call.display] = @ /\ call.on = {}]
  <2>1. /\ call.display \in Displays
        /\ \A p \in call.off : mPipe[p] = NoDisplay
        /\ \A p \in call.on : p \in Planes /\ mPipe[p] = call.display
        /\ call.on # {} => /\ call.fb # 0 /\ image[call.fb] = clientBuffer[call.display]
                           /\ clientBuffer[call.display] # NoBuffer
    BY DEF AtomicCommit, ScanInv, CallInv, ScanTyped
  <2>2. CASE d = call.display /\ call.on # {}
    <3>1. PICK p \in call.on : p \in Planes /\ mPipe[p] = d
      BY <2>1, <2>2
    <3>2. shows'[p] = call.fb
      BY <1>3, <2>1, <3>1, ScanoutAssumption
    <3>3. Lit(d, p)'
      BY <1>1, <2>1, <2>2, <3>1, <3>2 DEF Lit
    <3>4. OnScreen(d)' = clientBuffer[d]
      BY <1>1, <2>1, <2>2, <3>2, <3>3, OnLitPlane
    <3>5. failed'[d] = FALSE
      BY <1>3, <2>2 DEF ScanInv, ScanTyped
    <3>6. Frame(d)!Present
      BY <1>1, <2>1, <2>2, <3>4, <3>5 DEF Frame!Present
    <3> QED
      BY <3>6 DEF Frame!Next
  <2>3. CASE d # call.display \/ call.on = {}
    <3>1. failed'[d] = failed[d]
      BY <1>3, <2>1, <2>3 DEF ScanInv, ScanTyped
    <3>2. \A p \in Planes : mPipe[p] = d => shows'[p] = shows[p]
      BY <1>3, <2>1, <2>3, ScanoutAssumption
    <3>3. OnScreen(d)' = OnScreen(d)
      BY <1>1, <3>2, SameScreen DEF Lit
    <3> QED
      BY <1>1, <3>1, <3>3, FrameStutters
  <2> QED
    BY <2>2, <2>3
<1> QED
  BY <1>2, <1>3 DEF AtomicCommit

LEMMA FrameStep ==
  ASSUME ScanInv, ScanInv', [ScanNext]_scanVars, NEW d \in Displays
  PROVE  [Frame(d)!Next]_(Frame(d)!frameServiceVars)
<1>1. ASSUME NEW e \in Displays, Discover(e) \/ PrepareDisplayLayers(e)
      PROVE  [Frame(d)!Next]_(Frame(d)!frameServiceVars)
  <2>1. UNCHANGED <<image, mPipe, shows, failed>>
    BY <1>1 DEF Discover, PrepareDisplayLayers, gemVars
  <2>2. clientBuffer'[d] = clientBuffer[d] \/ \E b \in Buffers : clientBuffer'[d] = b
    BY <1>1 DEF Discover, PrepareDisplayLayers, layerVars, ScanInv, ScanTyped
  <2> QED
    BY <2>1, <2>2, FrameQuiet
<1>2. ASSUME NEW e \in Displays, NEW b \in Buffers, SetDisplayClientBuffer(e, b)
      PROVE  [Frame(d)!Next]_(Frame(d)!frameServiceVars)
  <2>1. UNCHANGED <<image, mPipe, shows, failed>>
    BY <1>2 DEF SetDisplayClientBuffer, gemVars
  <2>2. clientBuffer'[d] = clientBuffer[d] \/ clientBuffer'[d] = b
    BY <1>2 DEF SetDisplayClientBuffer, ScanInv, ScanTyped
  <2> QED
    BY <2>1, <2>2, FrameQuiet
<1>3. ASSUME NEW e \in Displays, ApplyGivesUp(e) \/ ApplyNothing(e) \/ ApplyNull(e)
      PROVE  [Frame(d)!Next]_(Frame(d)!frameServiceVars)
  <2>1. UNCHANGED <<image, mPipe, shows, failed, clientBuffer>>
    BY <1>3 DEF ApplyGivesUp, ApplyNothing, ApplyNull, gemVars, layerVars
  <2> QED
    BY <2>1, FrameQuiet
<1>4. ASSUME NEW e \in Displays, NEW p \in Planes, NEW g \in Gems, ApplyPlane(e, p, g)
      PROVE  [Frame(d)!Next]_(Frame(d)!frameServiceVars)
  BY <1>4, FrameApply
<1>5. CASE AtomicCommit
  BY <1>5, FrameCommit
<1>6. CASE UNCHANGED scanVars
  BY <1>6, FrameQuiet DEF scanVars, gemVars, layerVars
<1> QED
  BY <1>1, <1>2, <1>3, <1>4, <1>5, <1>6 DEF ScanNext

LEMMA FrameInit == ScanInit => \A d \in Displays : Frame(d)!Init
<1> SUFFICES ASSUME ScanInit, NEW d \in Displays PROVE Frame(d)!Init
  OBVIOUS
<1>1. OnScreen(d) = NoBuffer
  BY OnNoPlane DEF Lit, ScanInit
<1> QED
  BY <1>1 DEF ScanInit, Frame!Init

\* Scan-out implements the frame service for each of its displays, whatever their number and
\* that of planes, buffers and kernel ids.
THEOREM ScreenServesFramesAlways == ScanSpec => ScreenServesFrames
<1>1. ScanInv /\ ScanInv' /\ [ScanNext]_scanVars =>
        [\A d \in Displays : [Frame(d)!Next]_(Frame(d)!frameServiceVars)]_scanVars
  BY FrameStep
<1> QED
  BY <1>1, FrameInit, ScanInitInv, ScanStepInv, PTL DEF ScanSpec, ScreenServesFrames
=============================================================================
