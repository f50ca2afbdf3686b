---------------------------- MODULE EncodedStream ----------------------------
(***************************************************************************)
(* What the codec node looks for in an encoded frame (SerchIFps in         *)
(* rk_codec_node.cpp), and the structure of references the encoder is set  *)
(* up with (mpi_enc_gen_ref_cfg in mpi_enc_utils.c).  A buffer grows byte  *)
(* by byte and a stream frame by frame; the code's answer is compared with *)
(* a definition of what it should be.                                      *)
(***************************************************************************)
EXTENDS Naturals, Sequences, FiniteSetsExt

CONSTANTS
  Bytes,        \* values of a byte
  MaxBytes,     \* bound: length of the buffer
  MaxFrames     \* bound: length of the stream

VARIABLES
  data,         \* the frame's bytes
  gop_mode,     \* the structure chosen by the environment variable, 1, 2 or 3
  refs          \* for each frame of the stream, the number of the one it refers to

streamVars == <<data, gop_mode, refs>>

ASSUME EncodedStreamAssumption ==
  /\ Bytes \subseteq 0 .. 255 /\ MaxBytes \in Nat /\ MaxFrames \in Nat

-----------------------------------------------------------------------------
(* Key frames.                                                             *)

\* findStartCode, idx bytes into the frame.
findStartCode(d, idx) ==
  /\ Len(d) - idx > 4
  /\ SubSeq(d, idx + 1, idx + 4) = <<0, 0, 0, 1>>

NAL_TYPE(byte) == byte % 32

\* The loop of SerchIFps from idx on; it skips a start code that is not a key frame's.
SerchIFps_SkipsHeader(d) ==
  LET from[idx \in 0 .. Len(d) + 5] ==
        IF idx >= Len(d) THEN FALSE
        ELSE IF ~ findStartCode(d, idx) THEN from[idx + 1]
        ELSE NAL_TYPE(d[idx + 5]) = 5 \/ from[idx + 5]
  IN from[0]

SerchIFps(d) ==
  LET from[idx \in 0 .. Len(d) + 5] ==
        IF idx >= Len(d) THEN FALSE
        ELSE IF ~ findStartCode(d, idx) THEN from[idx + 1]
        ELSE NAL_TYPE(d[idx + 5]) = 5 \/ from[idx + 4]
  IN from[0]

-----------------------------------------------------------------------------
(* References.                                                             *)

\* The short-term entries of a structure: the temporal layer of each, how it finds its
\* reference (the last frame of layer 0, the last one kept, or the last long-term one), and
\* whether it is kept itself.
temporal_id == <<<<0, 1, 0>>, <<0, 2, 1, 2, 0>>, <<0, 3, 2, 3, 1, 3, 2, 3, 0>>>>
ref_mode == <<<<"layer", "kept", "kept">>,
              <<"layer", "kept", "kept", "kept", "layer">>,
              <<"layer", "kept", "kept", "kept", "longterm", "kept", "kept", "kept", "layer">>>>
is_non_ref(m, i) == i % 2 = 0
lt_gap == 8

\* The first entry is the intra frame's, and the others repeat (external).
Entry(m, n) == IF n = 0 THEN 1 ELSE 2 + ((n - 1) % (Len(temporal_id[m]) - 1))
Layer(m, n) == temporal_id[m][Entry(m, n)]
Kept(m, n) == ~ is_non_ref(m, Entry(m, n))

\* What a way of finding the reference comes to, for frame n (external).
Latest(m, n, how) ==
  Max({f \in 0 .. n - 1 : /\ Kept(m, f)
                          /\ how = "layer" => Layer(m, f) = 0
                          /\ how = "longterm" => m = 3 /\ f % lt_gap = 0})

mpi_enc_gen_ref_cfg_NoLongTerm(m, n) ==
  Latest(m, n, IF ref_mode[m][Entry(m, n)] = "longterm" THEN "kept" ELSE ref_mode[m][Entry(m, n)])

mpi_enc_gen_ref_cfg(m, n) == Latest(m, n, ref_mode[m][Entry(m, n)])

-----------------------------------------------------------------------------

StreamInit == data = <<>> /\ gop_mode \in 1 .. 3 /\ refs = <<>>

Feed(byte) ==
  /\ Len(data) < MaxBytes /\ data' = Append(data, byte)
  /\ UNCHANGED <<gop_mode, refs>>

EncodeFrame ==
  /\ data = <<>> /\ Len(refs) < MaxFrames
  /\ refs' = Append(refs, mpi_enc_gen_ref_cfg(gop_mode, Len(refs) + 1))
  /\ UNCHANGED <<data, gop_mode>>

StreamNext == EncodeFrame \/ \E b \in Bytes : refs = <<>> /\ gop_mode = 1 /\ Feed(b)

StreamSpec == StreamInit /\ [][StreamNext]_streamVars

-----------------------------------------------------------------------------
(* Properties.                                                             *)

\* A frame is flagged as a key frame iff somewhere in it a start code is followed by the
\* header of an IDR slice: skipping what was looked at misses none and invents none.
KeyFrameIsFlagged ==
  SerchIFps(data) <=>
    \E i \in 1 .. Len(data) - 4 :
      SubSeq(data, i, i + 3) = <<0, 0, 0, 1>> /\ data[i + 4] % 32 = 5

\* The lowest power of two in a positive number.
LowBit(n) == Max({b \in {1, 2, 4, 8} : n % b = 0})

\* The references are those drawn above each structure (mpi_enc_utils.c:48, 124, 167): in
\* a group of two, four or eight frames each refers to the one its number is of without
\* its lowest bit.  So every frame refers to one that is kept and of a lower layer, and
\* the layers can be dropped from the top.
LayersCanBeDropped ==
  \A n \in 1 .. Len(refs) :
    LET group == 2 ^ gop_mode
        k == ((n - 1) % group) + 1
        ref == refs[n]
    IN /\ ref = n - (IF k = group THEN group ELSE LowBit(k))
       /\ Kept(gop_mode, ref)
       /\ Layer(gop_mode, ref) < Layer(gop_mode, n) \/ {Layer(gop_mode, ref), Layer(gop_mode, n)} = {0}

\* A stream can be decoded from every frame that is flagged, with or without its upper
\* layers.
StreamDecodes == KeyFrameIsFlagged /\ LayersCanBeDropped
=============================================================================
