----------------------------- MODULE EncoderSetup -----------------------------
(***************************************************************************)
(* How the encoder of module CodecNode is set up (test_mpp_enc_cfg_setup   *)
(* in mpi_enc_utils.c): the configuration is worked out from the size and  *)
(* the coding, and then given to the encoder in up to four controls, each  *)
(* of which it (the MPP library, external) may refuse.  The codec node     *)
(* asks for AVC; the function is for any coding.  The structure of the     *)
(* references is asked for with an environment variable; it is built from  *)
(* lists that the library may refuse as well, and no result of building it *)
(* is looked at.                                                           *)
(*                                                                         *)
(* Sizes are unsigned and rates signed, in as many bits as there are in    *)
(* SetupWord: arithmetic wraps.                                            *)
(***************************************************************************)
EXTENDS Integers, SequencesExt

CONSTANTS
  Areas,        \* width times height
  Codings,      \* "AVC", "HEVC", "VP8", "MJPEG", or another
  GopModes,     \* values of the environment variable gop_mode; 0 if it is not set
  SetupWord     \* 2^32

ASSUME EncoderSetupAssumption ==
  /\ SetupWord \in Nat \ {0} /\ SetupWord % 2 = 0
  /\ Areas \subseteq 0 .. SetupWord - 1 /\ GopModes \subseteq Nat

VARIABLES
  args,         \* the area, the coding and the gop mode
  cfg,          \* the configuration: rates and quantisers; empty before it is worked out
  given,        \* the controls the encoder took, in order
  setup,        \* "begin", "controls", "done", "failed", or "fault": the process is gone
  ref           \* the structure of references: whether it was built, is there, and its lists

setupVars == <<args, cfg, given, setup, ref>>

NoRef == [built |-> FALSE, held |-> FALSE, lists |-> {}]

SetupInit ==
  /\ args \in [area : Areas, type : Codings, gop_mode : GopModes]
  /\ cfg = <<>> /\ given = <<>> /\ setup = "begin" /\ ref = NoRef

-----------------------------------------------------------------------------
(* The configuration.                                                      *)

Signed(n) ==
  LET bits == n % SetupWord IN IF bits < SetupWord \div 2 THEN bits ELSE bits - SetupWord
\* Division rounds towards zero.
Quot(n, d) == IF n < 0 THEN - ((- n) \div d) ELSE n \div d

fps == 30

\* The target: three bits and three quarters a pixel and second.
Bps(area) == Signed((area \div 8) * fps)

\* The bounds of rc_mode VBR, which calloc makes of it: a wide one below.
Bounds_Narrow(bps) == [max |-> Quot(Signed(bps * 15), 16), min |-> Quot(Signed(bps), 16)]
Bounds(bps) == [max |-> Quot(Signed(bps * 17), 16), min |-> Quot(Signed(bps), 16)]

NoQp == [init |-> 0, max |-> 0, min |-> 0]
\* Quantisers, or quality factors for MJPEG, for which there is no lower rate.
Qp(type) ==
  CASE type \in {"AVC", "HEVC"} -> [init |-> 26, max |-> 51, min |-> 10]
    [] type = "VP8"             -> [init |-> 40, max |-> 127, min |-> 0]
    [] type = "MJPEG"           -> [init |-> 80, max |-> 99, min |-> 1]
    [] OTHER                    -> NoQp

\* A coding that is not supported is only logged.
Configure ==
  /\ setup = "begin" /\ setup' = "controls"
  /\ LET bps == Bps(args.area)
     IN cfg' = [bps |-> bps, bounds |-> Bounds(bps), qp |-> Qp(args.type), gop |-> 2 * fps]
  /\ UNCHANGED <<args, given, ref>>

-----------------------------------------------------------------------------
(* The controls.                                                           *)

Headed_AvcOnly == {"AVC"}
\* The codings whose headers come with every IDR frame.
Headed == {"AVC", "HEVC"}

\* The controls in their order.
Controls(a) ==
  <<"SET_CFG", "SET_SEI_CFG">>
    \o (IF a.type \in Headed THEN <<"SET_HEADER_MODE">> ELSE <<>>)
    \o (IF a.gop_mode # 0 THEN <<"SET_REF_CFG">> ELSE <<>>)

\* The lists of frames, long and short term, of the mode's structure.  mpi_enc_gen_ref_cfg
\* is chosen by the configuration's own gop_mode, which nothing sets, so that the one for a
\* smart group of pictures is never called: a mode above 3 has none.
Lists(gop_mode) ==
  CASE gop_mode = 3 -> {"lt", "st"} [] gop_mode \in {1, 2} -> {"st"} [] OTHER -> {}

Left == Controls(args)[Len(given) + 1]
MayControl == setup = "controls" /\ Len(given) < Len(Controls(args))

\* Whichever call fails, the next is made: without its memory the structure's handle is one
\* that was never set, which the library may follow or find null; a list is missing if it
\* was refused, or the number of them before it.
BuildRefs ==
  /\ MayControl /\ Left = "SET_REF_CFG" /\ ~ ref.built
  /\ \/ ref' = [NoRef EXCEPT !.built = TRUE] /\ setup' \in {"controls", "fault"}
     \/ \E lists \in SUBSET Lists(args.gop_mode) :
          ref' = [built |-> TRUE, held |-> TRUE, lists |-> lists] /\ setup' = setup
  /\ UNCHANGED <<args, cfg, given>>

GivenBack_Never == ref

\* The references are given back after their control.
GivenBack == IF Left = "SET_REF_CFG" THEN [ref EXCEPT !.held = FALSE] ELSE ref

TakeControl ==
  /\ MayControl /\ (Left = "SET_REF_CFG" => ref.built)
  /\ given' = Append(given, Left) /\ ref' = GivenBack
  /\ setup' = IF Len(given') = Len(Controls(args)) THEN "done" ELSE setup
  /\ UNCHANGED <<args, cfg>>

RefuseControl ==
  /\ MayControl /\ (Left = "SET_REF_CFG" => ref.built)
  /\ setup' = "failed"
  /\ UNCHANGED <<args, cfg, given, ref>>

SetupNext == Configure \/ BuildRefs \/ TakeControl \/ RefuseControl

SetupSpec == SetupInit /\ [][SetupNext]_setupVars

-----------------------------------------------------------------------------
(* Properties.                                                             *)

\* The rate is between its bounds unless seventeen times it overflows, as it first does
\* just above the pixels of 8K; the quantiser is between its own.
RatesOrdered ==
  cfg # <<>> =>
    /\ args.area * 128 < SetupWord => cfg.bounds.min <= cfg.bps /\ cfg.bps <= cfg.bounds.max
    /\ cfg.qp.min <= cfg.qp.init /\ cfg.qp.init <= cfg.qp.max

\* A set-up that succeeds has given the encoder its configuration, the headers of a coding
\* that has some and, if references were asked for, a structure: with both lists only for
\* mode 3, without any for a mode above it, and with what the library took of them for the
\* others; it keeps none for itself.  One that fails loses a structure only if it is the
\* references that were refused.  And the process is gone only for references.
EncoderSetupIsWhole ==
  /\ RatesOrdered
  /\ setup = "done" =>
       /\ ToSet(given) = {"SET_CFG", "SET_SEI_CFG"}
            \cup (IF args.type \in {"AVC", "HEVC"} THEN {"SET_HEADER_MODE"} ELSE {})
            \cup (IF args.gop_mode > 0 THEN {"SET_REF_CFG"} ELSE {})
       /\ "lt" \in ref.lists => args.gop_mode = 3
       /\ args.gop_mode > 3 => ref.lists = {}
       /\ ~ ref.held
  /\ setup = "failed" /\ ref.held =>
       args.gop_mode > 0 /\ Len(given) = (IF args.type \in {"AVC", "HEVC"} THEN 3 ELSE 2)
  /\ setup = "fault" => args.gop_mode > 0 /\ "SET_SEI_CFG" \in ToSet(given)
=============================================================================
