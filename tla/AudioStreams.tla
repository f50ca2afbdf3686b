----------------------------- MODULE AudioStreams -----------------------------
(* The two streams of the sound card: playback and capture. *)

CONSTANTS Render, Capture

ASSUME AudioStreamsAssumption == Render # Capture

Streams == {Render, Capture}
Other(s) == IF s = Render THEN Capture ELSE Render
=============================================================================
