---------------------------- MODULE VsyncService ----------------------------
(* What the vsync worker promises its client: a callback ends a frame, and  *)
(* a frame is begun only while vsync is enabled.  Disabling does not take   *)
(* back the frame in flight, and a service that is starting may begin one   *)
(* frame that nobody asked for.                                             *)
VARIABLES
  enabled,   \* the client's last word
  inflight,  \* a frame has begun and its callback has not been made
  spare,     \* no frame was begun yet
  beat       \* turned over by every callback

vars == <<enabled, inflight, spare, beat>>

Init == enabled = FALSE /\ inflight = FALSE /\ spare = TRUE /\ beat = FALSE

Enable(b) == enabled' = b /\ UNCHANGED <<inflight, spare, beat>>

Start ==
  /\ ~ inflight /\ (enabled \/ spare)
  /\ inflight' = TRUE /\ spare' = FALSE
  /\ UNCHANGED <<enabled, beat>>

Deliver ==
  /\ inflight /\ inflight' = FALSE
  /\ beat' = ~ beat
  /\ UNCHANGED <<enabled, spare>>

Next == Start \/ Deliver \/ \E b \in BOOLEAN : Enable(b)

Spec == Init /\ [][Next]_vars
=============================================================================
