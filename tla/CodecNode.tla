------------------------------ MODULE CodecNode ------------------------------
(***************************************************************************)
(* The camera pipeline's codec node (rk_codec_node.cpp) and the hardware   *)
(* encoder it owns (mpi_enc_utils.c).  Buffers of three streams reach the  *)
(* node's DeliverBuffer, each on its own thread: preview frames, whose     *)
(* size is stored in two statics of the class; stills, which are           *)
(* compressed at that size; and video frames, for which an encoder of that *)
(* size is made when there is none.  Stop deletes the encoder from the     *)
(* pipeline's thread.  No lock is taken anywhere, so each statement that   *)
(* reads or writes what is shared is a step of its own.                    *)
(***************************************************************************)
EXTENDS Naturals, Sequences, FiniteSets

CONSTANTS
  Sizes,        \* width and height of the preview's frames
  MaxEncoders,  \* bound: encoders the node tries to make
  MaxFailed     \* bound: those of them that are not made

VARIABLES
  previewWidth_, previewHeight_,
  halCtx_, mppStatus_,
  encoders,     \* each encoder that was tried: what is left of its parts, whether it was
                \* made, and its size while it is there
  fault,        \* what the process came to, or "none"
  frame,        \* the preview thread: the size being stored, or Idle
  still,        \* the still's thread: where it is, and the size of its memory
  video,        \* the video thread: where it is, and what it has read
  stop,         \* the pipeline's thread: where it is
  overlapped,   \* history: a Stop and this video frame overlapped
  resized,      \* history: the preview was resized under this still
  fresh,        \* history: no size was stored since the encoder's was read
  late          \* history: a Stop reset the status of an encoder it had not deleted

nodeVars == <<previewWidth_, previewHeight_, halCtx_, mppStatus_, encoders, fault,
              frame, still, video, stop, overlapped, resized, fresh, late>>

Idle == <<>>
NoCtx == 0
NoSize == <<0, 0>>
\* What hal_mpp_ctx_create acquires, and the steps at which it may fail after them.
Parts == {"data", "buf_grp", "pkt_buf", "ctx", "cfg"}
HeldAt == [group |-> {"data"}, packet |-> {"data", "buf_grp"}, create |-> {"data", "buf_grp", "pkt_buf"},
           timeout |-> Parts \ {"cfg"}, init |-> Parts \ {"cfg"}, cfg |-> Parts \ {"cfg"}, setup |-> Parts]

ASSUME CodecNodeAssumption ==
  /\ Sizes \subseteq (Nat \ {0}) \X (Nat \ {0}) /\ {MaxEncoders, MaxFailed} \subseteq Nat

NodeInit ==
  /\ previewWidth_ = 0 /\ previewHeight_ = 0 /\ halCtx_ = NoCtx /\ mppStatus_ = 0
  /\ encoders = <<>> /\ fault = "none"
  /\ frame = Idle /\ still = Idle /\ video = Idle /\ stop = "idle"
  /\ overlapped = FALSE /\ resized = FALSE /\ fresh = FALSE /\ late = FALSE

statics == <<previewWidth_, previewHeight_>>
encoder == <<halCtx_, mppStatus_, encoders>>
notPreview == <<still, video, stop>>
notStill == <<frame, video, stop>>
notVideo == <<frame, still, stop>>
notStop == <<frame, still, video>>

-----------------------------------------------------------------------------
(* A preview frame: Yuv420ToRGBA8888.                                      *)

Yuv420ToRGBA8888(size) ==
  /\ frame = Idle /\ frame' = size /\ previewWidth_' = size[1]
  /\ resized' = (resized \/ (still # Idle /\ previewWidth_ # size[1]))
  /\ fresh' = (fresh /\ previewWidth_ = size[1])
  /\ UNCHANGED <<previewHeight_, encoder, fault, notPreview, overlapped, late>>

StoreHeight ==
  /\ frame # Idle /\ frame' = Idle /\ previewHeight_' = frame[2]
  /\ resized' = (resized \/ (still # Idle /\ previewHeight_ # frame[2]))
  /\ fresh' = (fresh /\ previewHeight_ = frame[2])
  /\ UNCHANGED <<previewWidth_, encoder, fault, notPreview, overlapped, late>>

-----------------------------------------------------------------------------
(* A still: Yuv420ToJpeg.                                                  *)

Area == previewWidth_ * previewHeight_

\* The memory for the picture, 3 bytes a pixel.
Yuv420ToJpeg ==
  /\ still = Idle /\ still' = [at |-> "blit", room |-> Area]
  /\ resized' = FALSE
  /\ UNCHANGED <<statics, encoder, fault, notStill, overlapped, fresh, late>>

\* The blitter fills the picture, and the compressor reads it, at the size of the moment:
\* more than there is memory for, or an empty picture, on which libjpeg exits.
StillFault ==
  IF Area > still.room THEN "overrun"
  ELSE IF still.at = "jpeg" /\ Area = 0 THEN "exit" ELSE fault

StillStep ==
  /\ still # Idle
  /\ fault' = StillFault
  /\ still' = IF still.at = "blit" THEN [still EXCEPT !.at = "jpeg"] ELSE Idle
  /\ UNCHANGED <<statics, encoder, notStill, overlapped, resized, fresh, late>>

-----------------------------------------------------------------------------
(* A video frame: Yuv420ToH264.                                            *)

At(pc) == video # Idle /\ video.at = pc
Go(pc) == video' = [video EXCEPT !.at = pc]

Yuv420ToH264 ==
  /\ video = Idle
  /\ video' = [at |-> IF mppStatus_ = 0 THEN "width" ELSE "check", width |-> 0, ctx |-> NoCtx]
  /\ overlapped' = (stop # "idle")
  /\ UNCHANGED <<statics, encoder, fault, notVideo, resized, fresh, late>>

ReadWidth ==
  /\ At("width") /\ Len(encoders) < MaxEncoders
  /\ video' = [video EXCEPT !.at = "create", !.width = previewWidth_]
  /\ fresh' = TRUE
  /\ UNCHANGED <<statics, encoder, fault, notVideo, overlapped, resized, late>>

NewEncoder_Square(parts, made) ==
  Append(encoders, [parts |-> parts, made |-> made, size |-> IF made THEN <<video.width, video.width>> ELSE NoSize])

NewEncoder(parts, made) ==
  Append(encoders, [parts |-> parts, made |-> made,
                    size |-> IF made THEN <<video.width, previewHeight_>> ELSE NoSize])

\* hal_mpp_ctx_create, and the store of what it returned.  The first step to fail reports
\* through the pointer it did not get; the others leave what was acquired before them, and
\* no encoder.
Create ==
  /\ At("create")
  /\ \/ fault' = "no memory" /\ UNCHANGED <<encoder, video>>
     \/ \E s \in DOMAIN HeldAt :
          /\ Cardinality({e \in DOMAIN encoders : ~ encoders[e].made}) < MaxFailed
          /\ encoders' = NewEncoder(HeldAt[s], FALSE) /\ halCtx_' = NoCtx
          /\ video' = Idle /\ UNCHANGED <<mppStatus_, fault>>
     \/ /\ encoders' = NewEncoder(Parts, TRUE) /\ halCtx_' = Len(encoders')
        /\ Go("made") /\ UNCHANGED <<mppStatus_, fault>>
  /\ UNCHANGED <<statics, notVideo, overlapped, resized, fresh, late>>

\* The pointer is read again, and by now a Stop may have deleted the encoder.
Made ==
  /\ At("made")
  /\ \/ halCtx_ = NoCtx /\ video' = Idle
     \/ halCtx_ # NoCtx /\ Go("mark")
  /\ UNCHANGED <<statics, encoder, fault, notVideo, overlapped, resized, fresh, late>>

Mark ==
  /\ At("mark") /\ mppStatus_' = 1 /\ Go("frame")
  /\ UNCHANGED <<statics, halCtx_, encoders, fault, notVideo, overlapped, resized, fresh, late>>

\* Without an encoder the frame is passed on as it came.
Check ==
  /\ At("check")
  /\ \/ halCtx_ = NoCtx /\ video' = Idle
     \/ halCtx_ # NoCtx /\ Go("frame")
  /\ UNCHANGED <<statics, encoder, fault, notVideo, overlapped, resized, fresh, late>>

Freed(ctx) == encoders[ctx].parts = {}

\* The size of the frame is read from the encoder, which hal_mpp_encode is then given: it
\* refuses a null pointer.
FrameSize ==
  /\ At("frame") /\ Go("encode")
  /\ fault' = (IF halCtx_ = NoCtx THEN "null" ELSE IF Freed(halCtx_) THEN "freed" ELSE fault)
  /\ UNCHANGED <<statics, encoder, notVideo, overlapped, resized, fresh, late>>

Encode ==
  /\ At("encode")
  /\ video' = IF halCtx_ = NoCtx THEN Idle ELSE [video EXCEPT !.at = "encoding", !.ctx = halCtx_]
  /\ UNCHANGED <<statics, encoder, fault, notVideo, overlapped, resized, fresh, late>>

Encoded ==
  /\ At("encoding") /\ video' = Idle
  /\ fault' = (IF Freed(video.ctx) THEN "freed" ELSE fault)
  /\ UNCHANGED <<statics, encoder, notVideo, overlapped, resized, fresh, late>>

-----------------------------------------------------------------------------
(* Stop.                                                                   *)

StopChecks ==
  /\ stop = "idle" /\ halCtx_ # NoCtx /\ stop' = "delete"
  /\ overlapped' = (overlapped \/ video # Idle)
  /\ UNCHANGED <<statics, encoder, fault, notStop, resized, fresh, late>>

Deletes(left) ==
  /\ stop = "delete" /\ stop' = "forget"
  /\ fault' = (IF halCtx_ # NoCtx /\ Freed(halCtx_) THEN "freed" ELSE fault)
  /\ encoders' = [e \in DOMAIN encoders |->
                    IF e = halCtx_ THEN [encoders[e] EXCEPT !.parts = left, !.size = NoSize] ELSE encoders[e]]
  /\ UNCHANGED <<statics, halCtx_, mppStatus_, notStop, overlapped, resized, fresh, late>>

StopDeletes_KeepsPacket == Deletes({"pkt_buf"})

\* hal_mpp_ctx_delete gives every part back; it turns a null pointer down.
StopDeletes == Deletes({})

StopForgets_KeepsPointer ==
  /\ stop = "forget" /\ stop' = "status"
  /\ UNCHANGED <<statics, encoder, fault, notStop, overlapped, resized, fresh, late>>

StopForgets ==
  /\ stop = "forget" /\ stop' = "status" /\ halCtx_' = NoCtx
  /\ UNCHANGED <<statics, mppStatus_, encoders, fault, notStop, overlapped, resized, fresh, late>>

StopResets ==
  /\ stop = "status" /\ stop' = "idle" /\ mppStatus_' = 0
  /\ late' = (late \/ (halCtx_ # NoCtx /\ mppStatus_ = 1))
  /\ UNCHANGED <<statics, halCtx_, encoders, fault, notStop, overlapped, resized, fresh>>

-----------------------------------------------------------------------------

NodeNext ==
  /\ fault = "none"
  /\ \/ \E size \in Sizes : Yuv420ToRGBA8888(size)
     \/ StoreHeight
     \/ Yuv420ToJpeg \/ StillStep
     \/ Yuv420ToH264 \/ ReadWidth \/ Create \/ Made \/ Mark \/ Check \/ FrameSize \/ Encode \/ Encoded
     \/ StopChecks \/ StopDeletes \/ StopForgets \/ StopResets

NodeSpec == NodeInit /\ [][NodeNext]_nodeVars

-----------------------------------------------------------------------------
(* Properties.                                                             *)

\* The node follows a null or a freed encoder only if a Stop and a video frame overlapped;
\* a still overruns its memory only if the preview was resized under it; and the process
\* exits over an empty picture only before a preview frame has stored its size.
NodeFaultExplained ==
  /\ fault \in {"null", "freed"} => overlapped
  /\ fault = "overrun" => resized
  /\ fault = "exit" => previewHeight_ = 0

\* An encoder that was made is the node's until every part of it is given back, unless a
\* Stop was late: it deleted the encoder of a frame that was just making it, the next frame
\* made another, and the status that the Stop resets last was then that one's.  The frame
\* after it makes a third, and the second is lost.
EncoderIsHeld ==
  /\ ~ late => \A e \in DOMAIN encoders : encoders[e].made /\ encoders[e].parts # {} => halCtx_ = e
  /\ halCtx_ # NoCtx => encoders[halCtx_].made

\* An encoder is of the size the preview had when it was made, whichever frames have come
\* since and while no other is being made; so a node that is not stopped encodes at the
\* preview's size only until the preview changes, and at no size at all if the video came
\* first.
EncoderFitsPreview ==
  halCtx_ # NoCtx /\ ~ Freed(halCtx_) /\ fresh /\ ~ At("create") =>
    encoders[halCtx_].size = <<previewWidth_, previewHeight_>>

\* The node's encoder is for the preview that there was when it was made, and until a Stop
\* is late there is no other.
EncoderIsThePreviews == EncoderIsHeld /\ EncoderFitsPreview
=============================================================================
