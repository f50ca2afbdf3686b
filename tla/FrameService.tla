---------------------------- MODULE FrameService ----------------------------
(***************************************************************************)
(* What a display promises its client about the screen: it shows the       *)
(* buffer that was the client's when a frame last got there, and goes dark *)
(* only in a try that follows one whose frame did not.  Nothing of planes, *)
(* framebuffers and handles is left here, nor of other displays.  Scanout  *)
(* implements this for each of its displays; LayerStack presents through   *)
(* it.                                                                     *)
(***************************************************************************)
CONSTANTS
  Buffers,  \* the client's buffers
  Dark      \* none of them

VARIABLES
  client,   \* the buffer the client has set
  shown,    \* the buffer on the screen
  failed    \* the last try did not show its frame, or has not yet

frameServiceVars == <<client, shown, failed>>

Init == client \in Buffers \cup {Dark} /\ shown \in {client, Dark} /\ failed \in BOOLEAN

Set(b) == client' = b /\ UNCHANGED <<shown, failed>>

\* A frame is tried, and is not on the screen.
Miss ==
  /\ failed' = TRUE
  /\ shown' \in {shown} \cup (IF failed THEN {Dark} ELSE {})
  /\ UNCHANGED client

\* The client's buffer is on the screen.
Present == client # Dark /\ shown' = client /\ failed' = FALSE /\ UNCHANGED client

Next == Miss \/ Present \/ \E b \in Buffers : Set(b)

Spec == Init /\ [][Next]_frameServiceVars
=============================================================================
