------------------------------- MODULE Blitter -------------------------------
(***************************************************************************)
(* The 2D blitter (display_gfx.c): FillRect and Blit turn surfaces and     *)
(* options into requests to the RGA library.  Everything is done within    *)
(* the call; what stays is the table of the allocator, which is got once,  *)
(* and what the call wrote.  The RGA library and the allocator (external)  *)
(* may fail any request.                                                   *)
(***************************************************************************)
EXTENDS Naturals

CONSTANTS Formats       \* pixel formats of the surfaces

VARIABLES
  grallocFucs,  \* the allocator's table was got
  scratch,      \* buffers allocated and not freed
  asked,        \* the last call's request
  answer,       \* what it returned
  written       \* what it put into the destination, or Nothing

blitVars == <<grallocFucs, scratch, asked, answer, written>>

Unsupported == {"CLUT8", "CLUT1", "CLUT4", "RGBA_5658", "RGBX_4444", "RGB_444", "RGBX_5551",
                "RGB_555", "BGRX_4444", "BGRX_5551", "YUV_422_I"}
Yuv == {"YCBCR_422_SP", "YCRCB_422_SP", "YCBCR_420_SP", "YCRCB_420_SP", "YCBCR_422_P", "YCRCB_422_P",
        "YCBCR_420_P", "YCRCB_420_P", "YUYV_422", "UYVY_422", "YVYU_422", "VYUY_422"}
Rgb == {"RGB_565", "RGBA_4444", "RGBA_5551", "RGBX_8888", "RGBA_8888", "RGB_888", "BGR_565",
        "BGRA_4444", "BGRA_5551", "BGRX_8888", "BGRA_8888"}
Blends == {"NONE", "CLEAR", "SRC", "DST", "SRCOVER", "DSTOVER"}
Nothing == [format |-> "none", blend |-> "none", turn |-> "none", place |-> "none"]

ASSUME BlitterAssumption == Formats \subseteq Rgb \cup Yuv \cup Unsupported

Requests == [src : Formats, dst : Formats, fd : {0, 1}, blend : Blends,
             turn : {"none", "rotated"}, scale : BOOLEAN]

colorSpaceModeChange_Crossed(f) ==
  IF f \in Unsupported THEN "UNKNOWN" ELSE IF f = "RGBA_8888" THEN "BGRA_8888" ELSE f

\* Two formats are taken for others.
colorSpaceModeChange(f) ==
  CASE f = "YCBCR_422_SP" -> "YCBCR_420_SP"
    [] f = "YVYU_422"     -> "YUYV_422"
    [] f \in Unsupported  -> "UNKNOWN"
    [] OTHER              -> f

\* blendTypeChange: what the library has a request for.
Blendable == {"SRC", "DST", "SRCOVER", "DSTOVER"}

Wrote(r, blend, place) ==
  [format |-> colorSpaceModeChange(r.src), blend |-> blend, turn |-> r.turn, place |-> place]

BlitInit ==
  /\ grallocFucs = FALSE /\ scratch = 0 /\ answer = "none" /\ written = Nothing
  /\ asked = [src |-> "none", dst |-> "none", fd |-> 0, blend |-> "NONE", turn |-> "none", scale |-> TRUE]

Refuse == answer' = "failure" /\ written' = Nothing /\ UNCHANGED <<grallocFucs, scratch>>

\* improcess, straight into the destination; its failure is the call's.
Process(r, blend, place) ==
  /\ \/ answer' = "success" /\ written' = Wrote(r, blend, place)
     \/ answer' = "failure" /\ written' = Nothing
  /\ UNCHANGED <<grallocFucs, scratch>>

\* Under what is in the destination: into a buffer of its own, and copied from there.  What
\* the library says goes to a variable that shadows the call's, which is left with the
\* allocator's success, and that is no success of the library's.
Beneath_Leaks(r) ==
  /\ grallocFucs' = TRUE /\ scratch' = scratch + 1 /\ scratch < 2
  /\ answer' = "failure" /\ written' \in {Nothing, Wrote(r, "DSTOVER", "asked")}

Beneath(r) ==
  /\ grallocFucs' \in {grallocFucs, TRUE}
  /\ scratch' = scratch
  /\ answer' = "failure"
  /\ written' \in {Nothing} \cup IF grallocFucs' THEN {Wrote(r, "DSTOVER", "asked")} ELSE {}

\* doFlit: which of the ways a request takes.
Overlay(r) ==
  IF r.scale THEN Process(r, "NONE", "asked") ELSE Process(r, "NONE", "corner")

rkBlit(r) ==
  /\ asked' = r
  /\ \/ /\ r.dst \in Yuv \/ r.fd = 0 \/ r.blend \notin Blendable \cup {"NONE"}
        /\ Refuse
     \/ /\ r.dst \notin Yuv /\ r.fd # 0 /\ r.blend \in Blendable \cup {"NONE"}
        /\ \/ r.src \notin Yuv /\ Process(r, r.blend, "asked")
           \/ r.src \in Yuv /\ r.blend \in {"SRC", "SRCOVER"} /\ Overlay(r)
           \/ r.src \in Yuv /\ r.blend = "DSTOVER" /\ Beneath(r)
           \/ r.src \in Yuv /\ r.blend \in {"NONE", "DST"} /\ Refuse

\* rkFillRect.
rkFillRect(f, fd) ==
  /\ asked' = [src |-> f, dst |-> f, fd |-> fd, blend |-> "NONE", turn |-> "none", scale |-> TRUE]
  /\ IF fd = 0 THEN Refuse ELSE Process(asked', "NONE", "asked")

BlitNext ==
  \/ \E r \in Requests : rkBlit(r)
  \/ \E f \in Formats \ Yuv, fd \in {0, 1} : rkFillRect(f, fd)

BlitSpec == BlitInit /\ [][BlitNext]_blitVars

-----------------------------------------------------------------------------
(* Properties.                                                             *)

\* A call that succeeds has drawn the source in its own format, turned and where it was
\* asked to, with the blending it was asked for, but for this: a YUV source is laid over
\* without blending and, unless it is scaled, in the far corner; and two YUV formats are
\* read as others.  A call that fails has drawn nothing, except that a YUV source drawn
\* beneath always fails, drawn or not.
BlitSaysWhatItDid ==
  /\ answer = "success" =>
       /\ written.format = asked.src \/ asked.src \in Unsupported \cup {"YCBCR_422_SP", "YVYU_422"}
       /\ written.turn = asked.turn
       /\ written.blend = asked.blend \/ asked.src \in Yuv
       /\ written.place = "asked" \/ (asked.src \in Yuv /\ ~ asked.scale)
  /\ answer = "failure" => written = Nothing \/ (asked.src \in Yuv /\ asked.blend = "DSTOVER")
  /\ scratch = 0
=============================================================================
