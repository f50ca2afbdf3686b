----------------------------- MODULE AudioControls -----------------------------
(***************************************************************************)
(* The mixer controls of the RK809 codec (rk809_codec_impl.c): a control   *)
(* has a field for the left channel and one for the right, each in a       *)
(* register of its own or both in one.  A client sets them one by one; the *)
(* start of a stream writes those of a list, one after the other and with  *)
(* no lock against a client, and the start of the codec whole registers.   *)
(* A register is the set of its bits that are on.  What each control is    *)
(* comes from the product's configuration, which is not in this            *)
(* repository, as the check of the range of what a client sets             *)
(* (AudioSetCtrlOpsReg) is not.  One stream starts at a time, and the two  *)
(* sides of a control are written in one step.                             *)
(***************************************************************************)
EXTENDS Integers, Sequences

CONSTANTS
  ValueBits,    \* of a value: 32, for uint32_t
  CtlRegs,      \* registers
  Kcontrols,    \* struct AudioMixerControl, by name
  StartupItems, \* the controls that AUDIO_DAI_STARTUP_PATAM_GROUP lists, in its order
  DefaultItems  \* what AUDIO_INIT_GROUP writes: values of registers

ASSUME AudioControlsAssumption ==
  /\ \A c \in DOMAIN Kcontrols :
       /\ {Kcontrols[c].reg, Kcontrols[c].rreg} \subseteq CtlRegs
       /\ {Kcontrols[c].shift, Kcontrols[c].rshift} \subseteq Nat
  /\ StartupItems \in Seq(DOMAIN Kcontrols) /\ ValueBits \in Nat

VARIABLES
  field,   \* the registers
  started, \* items the start of a stream has written: fewer than all while it is under way
  last     \* history: per control, who wrote it last, what left and right value it meant
           \* (before any inversion), and the sides that were not written

ctlRegVars == <<field, started, last>>

ControlNames == DOMAIN Kcontrols

\* The right channel has a field of its own.
Stereo(k) == k.reg # k.rreg \/ k.shift # k.rshift

\* The bits of a value that are on, and a shift that drops what leaves it.
Places == 0 .. ValueBits - 1
BitsOn(v) == {b \in Places : (v \div 2 ^ b) % 2 = 1}
Shift(bits, n) == {b \in Places : b - n \in bits}

Inverted(k, v) == IF k.invert THEN k.max - v ELSE v

Sides(k) == IF Stereo(k) THEN {"left", "right"} ELSE {"left"}

\* Nobody has set it since the register was written as a whole, or another's field was.
Reset == [by |-> "reset", left |-> 0, right |-> 0, missed |-> {}]
Wrote(by, left, right, missed) == [by |-> by, left |-> left, right |-> right, missed |-> missed]

\* Rk809DeviceRegUpdatebits, which the bus may fail.
Updatebits(f, reg, mask, bits, ok) ==
  IF ok THEN [f EXCEPT ![reg] = (@ \ mask) \cup (bits \cap mask)] ELSE f

ControlsInit ==
  /\ field = [r \in CtlRegs |-> {}]
  /\ started = Len(StartupItems)
  /\ last = [c \in ControlNames |-> Reset]

-----------------------------------------------------------------------------

\* Rk809DeviceInit's RK809RegDefaultInit: whole registers, and failures go unnoticed.
RegDefaultInit ==
  /\ \E done \in SUBSET DOMAIN DefaultItems :
       field' = [r \in CtlRegs |-> IF r \in done THEN DefaultItems[r] ELSE field[r]]
  /\ last' = [c \in ControlNames |->
       IF {Kcontrols[c].reg, Kcontrols[c].rreg} \cap DOMAIN DefaultItems # {} THEN Reset ELSE last[c]]
  /\ UNCHANGED started

RegBitsUpdateValue_OneShift(f, k, dest, v, ok) ==
  IF dest = "left" THEN Updatebits(f, k.reg, k.mask, Shift(BitsOn(Inverted(k, v)), k.shift), ok)
  ELSE Updatebits(f, k.rreg, k.mask, Shift(BitsOn(Inverted(k, v)), k.shift), ok)

\* RK809RegBitsUpdateValue.
RegBitsUpdateValue(f, k, dest, v, ok) ==
  IF dest = "left" THEN Updatebits(f, k.reg, k.mask, Shift(BitsOn(Inverted(k, v)), k.shift), ok)
  ELSE Updatebits(f, k.rreg, k.mask, Shift(BitsOn(Inverted(k, v)), k.rshift), ok)

\* Two controls with bits in common: what writes one writes over the other.
Overlap(c, d) ==
  /\ {Kcontrols[c].reg, Kcontrols[c].rreg} \cap {Kcontrols[d].reg, Kcontrols[d].rreg} # {}
  /\ Kcontrols[c].mask \cap Kcontrols[d].mask # {}

Writes(c, entry) ==
  last' = [d \in ControlNames |-> IF d = c THEN entry ELSE IF Overlap(c, d) THEN Reset ELSE last[d]]

\* RK809SetCtrlOps: the left value goes out before the right one is looked at, and the call
\* succeeds whether they were written or not.
SetCtrlOps(c, left, right, missed) ==
  LET k == Kcontrols[c]
      l == RegBitsUpdateValue(field, k, "left", left, "left" \notin missed)
  IN  /\ field' = IF Stereo(k) THEN RegBitsUpdateValue(l, k, "right", right, "right" \notin missed) ELSE l
      /\ Writes(c, Wrote("client", left, right, missed)) /\ UNCHANGED started

\* A right value that is refused: the call fails, with the left one written.
RightIsRefused(c, left) ==
  /\ Stereo(Kcontrols[c])
  /\ field' = RegBitsUpdateValue(field, Kcontrols[c], "left", left, TRUE)
  /\ Writes(c, Wrote("client", left, 0, {"right"})) /\ UNCHANGED started

\* Rk809RegBitsUpdate: one value for both sides; the right one is shifted twice.
RegBitsUpdate(f, k, missed) ==
  LET bits == Shift(BitsOn(Inverted(k, k.value)), k.shift)
      l == Updatebits(f, k.reg, k.mask, bits, "left" \notin missed)
  IN  IF Stereo(k) THEN Updatebits(l, k.rreg, k.mask, Shift(bits, k.rshift), "right" \notin missed) ELSE l

\* Rk809DaiStartup, of a stream.
DaiStartup ==
  /\ started = Len(StartupItems) /\ started' = 0
  /\ UNCHANGED <<field, last>>

\* The next item of RK809WorkStatusEnable.  The first write that fails ends the start: a
\* left one with nothing written of its item, a right one with the left side.
WorkStatusEnable(missed) ==
  /\ started < Len(StartupItems)
  /\ LET c == StartupItems[started + 1]
         k == Kcontrols[c]
     IN  /\ missed \in {{}, Sides(k)} \/ (Stereo(k) /\ missed = {"right"})
         /\ field' = RegBitsUpdate(field, k, missed)
         /\ IF missed = Sides(k) THEN UNCHANGED last
            ELSE Writes(c, Wrote("startup", k.value, k.value, missed))
  /\ started' = IF missed = {} THEN started + 1 ELSE Len(StartupItems)

ControlsNext ==
  \/ RegDefaultInit
  \/ DaiStartup
  \/ \E missed \in SUBSET {"left", "right"} : WorkStatusEnable(missed)
  \/ \E c \in ControlNames : \E left \in 0 .. Kcontrols[c].max :
       \/ RightIsRefused(c, left)
       \/ \E right \in IF Stereo(Kcontrols[c]) THEN 0 .. Kcontrols[c].max ELSE {left},
            missed \in SUBSET Sides(Kcontrols[c]) : SetCtrlOps(c, left, right, missed)

ControlsSpec == ControlsInit /\ [][ControlsNext]_ctlRegVars

-----------------------------------------------------------------------------
(* Properties.                                                             *)

\* The bits of the field hold the value.
LeftHolds(c) ==
  LET k == Kcontrols[c] IN
    field[k.reg] \cap k.mask = Shift(BitsOn(Inverted(k, last[c].left)), k.shift) \cap k.mask
RightHolds(c) ==
  LET k == Kcontrols[c] IN
    field[k.rreg] \cap k.mask = Shift(BitsOn(Inverted(k, last[c].right)), k.rshift) \cap k.mask

\* What a control was set to is in the codec until something else is written there, except
\* on a side that the bus did not take, or that was refused, of which a client is not told;
\* the left side, when both are in one register and the write of the right one, which
\* uses the same mask, comes after it; and the right side after a stream was started, when
\* the left field does not begin at bit 0.
ControlsHold ==
  \A c \in ControlNames : last[c].by # "reset" =>
    /\ \/ LeftHolds(c) \/ "left" \in last[c].missed
       \/ Stereo(Kcontrols[c]) /\ Kcontrols[c].reg = Kcontrols[c].rreg
    /\ Stereo(Kcontrols[c]) =>
         RightHolds(c) \/ "right" \in last[c].missed \/ (last[c].by = "startup" /\ Kcontrols[c].shift > 0)
=============================================================================
