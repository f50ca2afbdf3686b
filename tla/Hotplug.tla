------------------------------ MODULE Hotplug ------------------------------
(***************************************************************************)
(* Telling the client about connectors: HdiSession (hdi_session.cpp), the  *)
(* netlink monitor thread (hdi_netlink_monitor.cpp), DrmDevice's           *)
(* HandleHotplug (drm_device.cpp) and DrmConnector's (drm_connector.cpp).  *)
(*                                                                         *)
(* The kernel changes a connector and sends a uevent that says "HDMI=1" or *)
(* "HDMI=0".  The monitor thread reads the uevents one by one; for each it *)
(* asks the kernel for the state of every display's connector and, where   *)
(* that differs from mConnectState, passes on what the UEVENT said.  The   *)
(* client's thread registers callbacks and is told at once about displays  *)
(* that are connected.  No lock guards anything the two threads share.     *)
(*                                                                         *)
(* The monitor object is a local of HdiSession::Init: it is destroyed when *)
(* Init returns, which closes the socket if the thread has stored it, and  *)
(* leaves the detached thread to read mRunning in freed memory.            *)
(***************************************************************************)
EXTENDS Integers, Sequences

CONSTANTS
  Displays,   \* the displays of the device, one connector each
  Hot,        \* those whose connector can be plugged and unplugged
  Callbacks,  \* the functions the client registers
  Capacity,   \* how many uevents the socket's receive buffer holds
  Null        \* no display; a null callback

ASSUME HotplugAssumption ==
  Hot \subseteq Displays /\ Null \notin Displays \cup Callbacks /\ Capacity \in Nat \ {0}

VARIABLES
  conn,       \* kernel: the connectors that are connected
  subscribed, \* kernel: the monitor's socket is bound
  backlog,    \* kernel: uevents in the socket: TRUE is HDMI=1, FALSE is HDMI=0
  overflow,   \* kernel: a uevent did not fit; the next read fails
  mpc,        \* where the monitor thread is
  plugIn,     \* the uevent it handles
  todo,       \* the displays it has yet to look at
  mdisp,      \* the display it looks at
  mConnectState,
  mScoketFd,  \* the monitor object knows the socket
  closed,     \* the socket was closed
  mRunning,
  freed,      \* the monitor object was destroyed
  cpc,        \* where the client is
  ctodo,      \* the displays the registration has yet to look at
  cdisp,      \* the display it looks at
  mHotPlugCallBacks,
  told,       \* the displays each callback was last told are connected
  fault,      \* mHotPlugCallBacks was written while it was iterated
  missed,     \* history: a change that no uevent or probe could bring in
  worst,      \* history: most changes in a row while uevents were being handled
  burst,      \* history: those since uevents were last settled
  raced       \* history: a registration overlapped with the handling of a uevent

kernelVars  == <<conn, subscribed, backlog, overflow>>
monitorVars == <<mpc, plugIn, todo, mdisp>>
objectVars  == <<mScoketFd, closed, mRunning, freed>>
clientVars  == <<cpc, ctodo, cdisp, mHotPlugCallBacks>>
history     == <<missed, worst, burst, raced>>
vars == <<kernelVars, monitorVars, mConnectState, objectVars, clientVars, told, fault, history>>

\* The client's first call runs HdiSession::Init under std::call_once.
InitPcs == {"discover", "spawn", "arm", "drop"}
MonitorPcs == {"none", "start", "store", "loop", "read", "probe", "tell", "exit"}
ClientPcs == InitPcs \cup {"idle", "replay", "tell"}

Init ==
  /\ conn \in SUBSET Displays /\ subscribed = FALSE /\ backlog = <<>> /\ overflow = FALSE
  /\ mpc = "none" /\ plugIn = FALSE /\ todo = {} /\ mdisp = Null
  /\ mConnectState = {}
  /\ mScoketFd = FALSE /\ closed = FALSE /\ mRunning = FALSE /\ freed = FALSE
  /\ cpc = "discover" /\ ctodo = {} /\ cdisp = Null /\ mHotPlugCallBacks = {}
  /\ told = [cb \in Callbacks |-> {}]
  /\ fault = FALSE /\ missed = FALSE /\ worst = 0 /\ burst = 0 /\ raced = FALSE

\* The monitor has uevents to read or is dealing with one.
Handling == backlog # <<>> \/ mpc \in {"probe", "tell"}

-----------------------------------------------------------------------------
(* The kernel.                                                             *)

\* d's connector changes.  Counts up to three: more changes do nothing new.
Change(d) ==
  /\ conn' = IF d \in conn THEN conn \ {d} ELSE conn \cup {d}
  /\ LET fits == Len(backlog) < Capacity IN
       /\ backlog' = IF subscribed /\ fits THEN Append(backlog, d \in conn') ELSE backlog
       /\ overflow' = (overflow \/ (subscribed /\ ~ fits))
  /\ missed' = (missed \/ (~ subscribed /\ cpc # "discover"))
  /\ burst' = IF ~ Handling THEN 1 ELSE IF burst < 3 THEN burst + 1 ELSE 3
  /\ worst' = IF burst' > worst THEN burst' ELSE worst
  /\ UNCHANGED <<subscribed, monitorVars, mConnectState, objectVars, clientVars, told, fault, raced>>

-----------------------------------------------------------------------------
(* The monitor thread.                                                     *)

MGoto(from, to) == mpc = from /\ mpc' = to

\* ThreadInit: the socket is created and bound, or the thread ends.
ThreadInit ==
  /\ \/ MGoto("start", "store") /\ subscribed' = TRUE
     \/ MGoto("start", "exit") /\ UNCHANGED subscribed
  /\ UNCHANGED <<conn, backlog, overflow, plugIn, todo, mdisp, mConnectState, objectVars, clientVars, told, fault, history>>

\* mScoketFd = fd, into the object or into freed memory.
Store ==
  /\ MGoto("store", "loop")
  /\ mScoketFd' = ~ freed
  /\ UNCHANGED <<kernelVars, plugIn, todo, mdisp, mConnectState, closed, mRunning, freed, clientVars, told, fault, history>>

\* while (mRunning), of an object that may be gone; a closed socket cannot be read.
Test ==
  /\ \/ MGoto("loop", "read") /\ (mRunning \/ freed) /\ ~ closed
     \/ MGoto("loop", "exit") /\ (~ mRunning \/ freed \/ closed)
  /\ UNCHANGED <<kernelVars, plugIn, todo, mdisp, mConnectState, objectVars, clientVars, told, fault, history>>

\* A uevent, or the error that one was lost.
Read ==
  /\ \/ /\ overflow /\ MGoto("read", "exit")
        /\ UNCHANGED <<backlog, plugIn, todo>>
     \/ /\ ~ overflow /\ backlog # <<>> /\ MGoto("read", "probe")
        /\ plugIn' = Head(backlog) /\ backlog' = Tail(backlog)
        /\ todo' = Displays
  /\ raced' = (raced \/ cpc \notin InitPcs \cup {"idle"})
  /\ UNCHANGED <<conn, subscribed, overflow, mdisp, mConnectState, objectVars, clientVars, told, fault, missed, worst, burst>>

Probe_NoStore(d) ==
  /\ cpc \notin InitPcs /\ d \in todo /\ todo' = todo \ {d} /\ mdisp' = d
  /\ IF (d \in conn) = (d \in mConnectState) THEN MGoto("probe", "probe") ELSE MGoto("probe", "tell")
  /\ UNCHANGED <<kernelVars, mConnectState, plugIn, objectVars, clientVars, told, fault, history>>

\* DrmDevice::HandleHotplug for the next display, once HdiSession::GetInstance lets the
\* thread in.  The connector's state, if it can be had, is stored when it is new.
Probe(d) ==
  /\ cpc \notin InitPcs /\ d \in todo /\ todo' = todo \ {d} /\ mdisp' = d
  /\ \/ /\ MGoto("probe", "probe") /\ missed' = TRUE /\ mConnectState' = mConnectState
     \/ /\ (d \in conn) = (d \in mConnectState)
        /\ MGoto("probe", "probe") /\ UNCHANGED <<missed, mConnectState>>
     \/ /\ (d \in conn) # (d \in mConnectState)
        /\ MGoto("probe", "tell") /\ missed' = missed
        /\ mConnectState' = (mConnectState \ {d}) \cup ({d} \cap conn)
  /\ UNCHANGED <<kernelVars, plugIn, objectVars, clientVars, told, fault, worst, burst, raced>>

ProbedAll ==
  /\ todo = {} /\ MGoto("probe", "loop")
  /\ UNCHANGED <<kernelVars, plugIn, todo, mdisp, mConnectState, objectVars, clientVars, told, fault, history>>

\* DoHotPlugCallback: every registered callback hears about d.
Tell(d, connect) ==
  told' = [cb \in Callbacks |->
    IF cb \notin mHotPlugCallBacks THEN told[cb]
    ELSE IF connect THEN told[cb] \cup {d} ELSE told[cb] \ {d}]

\* What is passed on is the uevent's word, not the state that was stored.
MonitorTell ==
  /\ MGoto("tell", "probe")
  /\ Tell(mdisp, plugIn)
  /\ UNCHANGED <<kernelVars, plugIn, todo, mdisp, mConnectState, objectVars, clientVars, fault, history>>

Monitor ==
  ThreadInit \/ Store \/ Test \/ Read \/ (\E d \in Displays : Probe(d)) \/ ProbedAll \/ MonitorTell

-----------------------------------------------------------------------------
(* The client.                                                             *)

CGoto(from, to) == cpc = from /\ cpc' = to

\* DiscoveryDisplay: every connector as it is now.
Discover ==
  /\ CGoto("discover", "spawn")
  /\ mConnectState' = conn
  /\ UNCHANGED <<kernelVars, monitorVars, objectVars, ctodo, cdisp, mHotPlugCallBacks, told, fault, history>>

\* HdiNetLinkMonitor::Init starts the thread...
Spawn ==
  /\ CGoto("spawn", "arm") /\ mpc' = "start"
  /\ UNCHANGED <<kernelVars, plugIn, todo, mdisp, mConnectState, objectVars, ctodo, cdisp, mHotPlugCallBacks, told, fault, history>>

\* ...and then sets mRunning.
Arm ==
  /\ CGoto("arm", "drop") /\ mRunning' = TRUE
  /\ UNCHANGED <<kernelVars, monitorVars, mConnectState, mScoketFd, closed, freed, ctodo, cdisp, mHotPlugCallBacks, told, fault, history>>

\* HdiSession::Init returns: the monitor object goes.
Drop ==
  /\ CGoto("drop", "idle") /\ freed' = TRUE /\ closed' = mScoketFd
  /\ UNCHANGED <<kernelVars, monitorVars, mConnectState, mScoketFd, mRunning, ctodo, cdisp, mHotPlugCallBacks, told, fault, history>>

RegHotPlugCallback_NoReplay(cb) ==
  /\ CGoto("idle", "replay")
  /\ mHotPlugCallBacks' = mHotPlugCallBacks \cup {cb}
  /\ fault' = (mpc = "tell" /\ cb \notin mHotPlugCallBacks)
  /\ ctodo' = {} /\ raced' = (raced \/ Handling)
  /\ UNCHANGED <<kernelVars, monitorVars, mConnectState, objectVars, cdisp, told, missed, worst, burst>>

\* The emplace, perhaps while the monitor iterates over the same map.
RegHotPlugCallback(cb) ==
  /\ CGoto("idle", "replay")
  /\ mHotPlugCallBacks' = mHotPlugCallBacks \cup {cb}
  /\ fault' = (mpc = "tell" /\ cb \notin mHotPlugCallBacks)
  /\ ctodo' = Displays /\ raced' = (raced \/ Handling)
  /\ UNCHANGED <<kernelVars, monitorVars, mConnectState, objectVars, cdisp, told, missed, worst, burst>>

\* The loop over the displays that are connected by now: it reads the state...
Look(d) ==
  /\ d \in ctodo /\ ctodo' = ctodo \ {d} /\ cdisp' = d
  /\ CGoto("replay", IF d \in mConnectState THEN "tell" ELSE "replay")
  /\ UNCHANGED <<kernelVars, monitorVars, mConnectState, objectVars, mHotPlugCallBacks, told, fault, history>>

\* ...and then tells.
ClientTell ==
  /\ CGoto("tell", "replay")
  /\ Tell(cdisp, TRUE)
  /\ UNCHANGED <<kernelVars, monitorVars, mConnectState, objectVars, ctodo, cdisp, mHotPlugCallBacks, fault, history>>

LookedAll ==
  /\ ctodo = {} /\ CGoto("replay", "idle")
  /\ UNCHANGED <<kernelVars, monitorVars, mConnectState, objectVars, ctodo, cdisp, mHotPlugCallBacks, told, fault, history>>

InCall == Discover \/ Spawn \/ Arm \/ Drop \/ (\E d \in Displays : Look(d)) \/ ClientTell \/ LookedAll

-----------------------------------------------------------------------------

Next ==
  /\ ~ fault
  /\ \/ \E d \in Hot : Change(d)
     \/ Monitor \/ InCall
     \/ \E cb \in Callbacks : RegHotPlugCallback(cb)

Spec == Init /\ [][Next]_vars

\* Both threads run.
FairSpec == Spec /\ WF_vars(~ fault /\ Monitor) /\ WF_vars(~ fault /\ InCall)

-----------------------------------------------------------------------------
(* Properties.                                                             *)

\* Nothing is on its way.
Settled == mpc = "read" /\ backlog = <<>> /\ ~ overflow /\ cpc = "idle"

\* One change at a time, or two where only one connector changes.
FewChanges == worst < 2 \/ (worst < 3 /\ \A c, d \in Hot : c = d)

\* The uevent, not the state that was probed, is passed on (hdi_session.cpp:62), and yet
\* a bounce is harmless: the only connector that changes must do so three times while
\* uevents are being handled before a client can be left with the wrong state; of several
\* connectors two may change, one each way.  Otherwise only a change nobody could see or a
\* registration in the middle of it does that.
ClientsKnow ==
  Settled /\ ~ missed /\ ~ raced /\ FewChanges =>
    \A cb \in mHotPlugCallBacks : told[cb] = conn

\* A thread that stays alive catches up: once a connector stays as it is, its state is
\* known for good, however many uevents of others are handled, unless a change was missed.
KernelStateReached ==
  \A d \in Hot :
    /\ <>[](d \in conn /\ mpc \notin {"none", "exit"} /\ ~ fault) => <>[](d \in mConnectState \/ missed)
    /\ <>[](d \notin conn /\ mpc \notin {"none", "exit"} /\ ~ fault) => <>[](d \notin mConnectState \/ missed)
=============================================================================
