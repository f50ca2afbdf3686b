------------------------------- MODULE MCMedia -------------------------------
(* The codec node, the set-up of its encoder, the streams it looks at and the blitter     *)
(* share nothing here but libraries, which keep no state for them: a behaviour is that of *)
(* one of the four.                                                                       *)
EXTENDS CodecNode, EncodedStream, EncoderSetup, Blitter

VARIABLE unit

MCSizes == {<<2, 1>>, <<1, 2>>}
MCBytes == {0, 1, 101}
MCFormats == {"RGBA_8888", "YCBCR_422_SP", "YCRCB_420_SP", "CLUT8"}
MCCodings == {"AVC", "HEVC", "VP8", "MJPEG", "MPEG2"}

MediaInit ==
  /\ NodeInit /\ StreamInit /\ SetupInit /\ BlitInit
  /\ unit \in {"node", "stream", "setup", "blitter"}
  /\ unit # "stream" => gop_mode = 1
  /\ unit # "setup" => args = [area |-> 8, type |-> "AVC", gop_mode |-> 0]

MediaNext ==
  \/ unit = "node" /\ NodeNext /\ UNCHANGED <<streamVars, setupVars, blitVars, unit>>
  \/ unit = "stream" /\ StreamNext /\ UNCHANGED <<nodeVars, setupVars, blitVars, unit>>
  \/ unit = "setup" /\ SetupNext /\ UNCHANGED <<nodeVars, streamVars, blitVars, unit>>
  \/ unit = "blitter" /\ BlitNext /\ UNCHANGED <<nodeVars, streamVars, setupVars, unit>>

MediaSpec == MediaInit /\ [][MediaNext]_<<nodeVars, streamVars, setupVars, blitVars, unit>>
=============================================================================
