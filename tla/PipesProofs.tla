----------------------------- MODULE PipesProofs -----------------------------
(* Theorems about Pipes, for any connectors, encoders, crtcs and monitors    *)
(* and whatever the boot loader left behind.                                 *)
(*                                                                           *)
(* The inductive invariant says of discovery: a display that is ready owns   *)
(* the binding of its crtc, a crtc is bound only to a connector that was     *)
(* looked at, and, if the boot loader kept the connectors apart, a connector *)
(* gets no other crtc than the one it was lit by.                            *)
EXTENDS Pipes, TLAPS

-----------------------------------------------------------------------------
(* Types.                                                                    *)

LEMMA ListType == \A m \in Monitors \cup {None} : List(m) \in Seq(ModeInfos)
BY PipesAssumption DEF List

LEMMA PreferenceType == \A m \in Monitors \cup {None} : Preference(m) \in Nat \cup {-1}
<1> SUFFICES ASSUME NEW m \in Monitors PROVE Preferred[m] \in Nat \cup {-1}
  BY DEF Preference
<1>1. Len(ModeList[m]) \in Nat
  BY PipesAssumption
<1> QED BY <1>1, PipesAssumption

LEMMA GetModeType ==
  ASSUME TypeOK, NEW c \in Connectors, NEW id \in Int
  PROVE  GetMode(c, id) \in ModeInfos \cup {None}
<1>1. mModes[c] \in Seq(ModeInfos)
  BY DEF TypeOK
<1>2. CASE id \in 0 .. Len(mModes[c]) - 1
  <2>1. id + 1 \in 1 .. Len(mModes[c])
    BY <1>1, <1>2
  <2> QED BY <1>1, <1>2, <2>1 DEF GetMode
<1>3. CASE id \notin 0 .. Len(mModes[c]) - 1
  BY <1>3 DEF GetMode
<1> QED BY <1>2, <1>3

LEMMA ActiveModeType ==
  ASSUME TypeOK, NEW k \in Crtcs, NEW id \in Int, id >= -Half, SetActivieMode(k, id)
  PROVE  /\ mActiveModeId' \in [Crtcs -> -Half .. 0]
         /\ mNeedModeSet' \in [Crtcs -> BOOLEAN]
<1>1. mActiveModeId[k] \in -Half .. 0 /\ Half \in Nat
  BY PipesAssumption DEF TypeOK
<1>2. (IF id > 0 THEN mActiveModeId[k] ELSE id) \in -Half .. 0
  BY <1>1
<1>3. (mNeedModeSet[k] \/ (id <= 0 /\ id # mActiveModeId[k])) \in BOOLEAN
  OBVIOUS
<1> QED BY <1>2, <1>3 DEF TypeOK, SetActivieMode

LEMMA IdType == \A id \in Asked : ToInt32(id) \in Int /\ ToInt32(id) >= -Half
BY PipesAssumption DEF ToInt32

LEMMA PicksCrtc ==
  ASSUME Boot, NEW c \in Connectors, NEW k \in Crtcs, Picks(c, k)
  PROVE  k \in mCrtcs
BY DEF Picks, Offers

LEMMA TypeInit == Init => TypeOK
<1> SUFFICES ASSUME Init PROVE TypeOK
  OBVIOUS
<1>1. mModes \in [Connectors -> Seq(ModeInfos)]
  BY ListType DEF Init
<1>2. mPreferenceId \in [Connectors -> Nat \cup {-1}]
  BY PreferenceType DEF Init
<1>3. mActiveModeId \in [Crtcs -> -Half .. 0]
  BY PipesAssumption DEF Init
<1> QED BY <1>1, <1>2, <1>3 DEF Init, Boot, TypeOK

LEMMA TypeStep == TypeOK /\ [Next]_vars => TypeOK'
<1> SUFFICES ASSUME TypeOK, [Next]_vars PROVE TypeOK'
  OBVIOUS
<1> USE DEF kernelVars, bootVars, pipeVars, crtcVars, connVars, threadVars, history
<1>1. CASE UNCHANGED vars
  BY <1>1 DEF vars, TypeOK
<1>2. ASSUME NEW c \in Connectors, NoCrtc(c) PROVE TypeOK'
  BY <1>2 DEF NoCrtc, TypeOK
<1>3. ASSUME NEW c \in Connectors, NEW k \in Crtcs, InitFails(c, k) PROVE TypeOK'
  BY <1>3 DEF InitFails, TypeOK
<1>4. ASSUME NEW c \in Connectors, NEW k \in Crtcs, InitDisplay(c, k) PROVE TypeOK'
  <2>1. mPreferenceId[c] \in Nat \cup {-1}
    BY DEF TypeOK
  <2> DEFINE id == IF mPreferenceId[c] = -1 THEN 0 ELSE mPreferenceId[c]
  <2>2. id \in Int /\ id >= -Half
    BY <2>1, PipesAssumption
  <2>3. SetActivieMode(k, id)
    BY <1>4 DEF InitDisplay
  <2>4. mActiveModeId' \in [Crtcs -> -Half .. 0] /\ mNeedModeSet' \in [Crtcs -> BOOLEAN]
    BY <2>2, <2>3, ActiveModeType
  <2>5. crtcMode' \in [Crtcs -> ModeInfos \cup {None}]
    <3>1. GetMode(c, 0) \in ModeInfos \cup {None}
      BY GetModeType
    <3> QED BY <1>4, <3>1 DEF InitDisplay, TypeOK
  <2> QED BY <1>4, <2>4, <2>5 DEF InitDisplay, TypeOK
<1>5. ASSUME NEW c \in Connectors, NEW m \in Monitors \cup {None}, Change(c, m) PROVE TypeOK'
  BY <1>5 DEF Change, TypeOK
<1>6. CASE TakeUevent
  BY <1>6 DEF TakeUevent, TypeOK
<1>7. ASSUME NEW c \in Connectors, HandleHotplug(c) PROVE TypeOK'
  <2>1. mConnectState' \in [Connectors -> BOOLEAN]
    BY <1>7 DEF HandleHotplug, TypeOK
  <2>2. mModes' \in [Connectors -> Seq(ModeInfos)]
    <3>1. <<>> \in Seq(ModeInfos)
      OBVIOUS
    <3>2. mModes' = mModes \/ mModes' = [mModes EXCEPT ![c] = <<>>]
      BY <1>7 DEF HandleHotplug
    <3> QED BY <3>1, <3>2 DEF TypeOK
  <2>3. mPreferenceId' \in [Connectors -> Nat \cup {-1}]
    BY <1>7 DEF HandleHotplug, TypeOK
  <2>4. probing' \subseteq Connectors /\ filling' \in Connectors \cup {None} /\ seen' \in Monitors \cup {None}
    BY <1>7 DEF HandleHotplug, TypeOK
  <2>5. missed' \cup unprobed' \cup bounced' \subseteq Connectors
    BY <1>7 DEF HandleHotplug, TypeOK
  <2> QED BY <1>7, <2>1, <2>2, <2>3, <2>4, <2>5 DEF HandleHotplug, TypeOK
<1>8. CASE InitModes
  <2>1. filling \in Connectors /\ List(seen) \in Seq(ModeInfos) /\ Preference(seen) \in Nat \cup {-1}
    BY <1>8, ListType, PreferenceType DEF InitModes, TypeOK
  <2>2. mModes' \in [Connectors -> Seq(ModeInfos)] /\ mPreferenceId' \in [Connectors -> Nat \cup {-1}]
    BY <1>8, <2>1 DEF InitModes, TypeOK
  <2> QED BY <1>8, <2>2 DEF InitModes, TypeOK
<1>9. ASSUME NEW c \in Connectors, NEW id \in Asked, SetDisplayMode(c, id) PROVE TypeOK'
  <2>1. crtcOf[c] \in Crtcs
    <3>1. crtcOf[c] \in Crtcs \cup {None} /\ crtcOf[c] # None
      BY <1>9 DEF SetDisplayMode, TypeOK
    <3> QED BY <3>1
  <2>2. mActiveModeId' \in [Crtcs -> -Half .. 0] /\ mNeedModeSet' \in [Crtcs -> BOOLEAN]
    BY <1>9, <2>1, IdType, ActiveModeType DEF SetDisplayMode
  <2> QED BY <1>9, <2>2 DEF SetDisplayMode, TypeOK
<1>10. ASSUME NEW c \in Connectors, UpdateMode(c) PROVE TypeOK'
  <2> DEFINE mode == GetMode(c, mActiveModeId[crtcOf[c]])
  <2>1. CASE crtcOf[c] \in Crtcs
    <3>1. mode \in ModeInfos \cup {None}
      <4>1. mActiveModeId[crtcOf[c]] \in Int
        BY <2>1, PipesAssumption DEF TypeOK
      <4> QED BY <4>1, GetModeType
    <3>2. crtcMode' = [crtcMode EXCEPT ![crtcOf[c]] = mode]
      BY <1>10 DEF UpdateMode
    <3>3. crtcMode' \in [Crtcs -> ModeInfos \cup {None}]
      BY <2>1, <3>1, <3>2 DEF TypeOK
    <3>4. UNCHANGED <<monitor, bootVars, pipeVars, crtcVars, connVars, threadVars, fault, history>>
      BY <1>10 DEF UpdateMode
    <3> HIDE DEF mode
    <3> QED BY <3>3, <3>4 DEF TypeOK
  <2>2. CASE crtcOf[c] = None
    <3>1. crtcMode' = [crtcMode EXCEPT ![None] = mode] /\ crtcMode \in [Crtcs -> ModeInfos \cup {None}]
      BY <1>10, <2>2 DEF UpdateMode, TypeOK
    <3>2. UNCHANGED <<monitor, bootVars, pipeVars, crtcVars, connVars, threadVars, fault, history>>
      BY <1>10 DEF UpdateMode
    <3> HIDE DEF mode
    <3>3. crtcMode' \in [Crtcs -> ModeInfos \cup {None}]
      BY <3>1, PipesAssumption
    <3> QED BY <3>2, <3>3 DEF TypeOK
  <2> QED BY <2>1, <2>2 DEF TypeOK
<1>11. ASSUME NEW c \in Connectors, CommitFaults(c) PROVE TypeOK'
  BY <1>11 DEF CommitFaults, TypeOK
<1> QED
  BY <1>1, <1>2, <1>3, <1>4, <1>5, <1>6, <1>7, <1>8, <1>9, <1>10, <1>11
  DEF Next, DiscoveryDisplay, HotplugThread

\* The variables keep their types for any hardware; in particular a crtc's active mode
\* is never a positive index.
THEOREM TypeCorrect == Spec => []TypeOK
BY TypeInit, TypeStep, PTL DEF Spec

-----------------------------------------------------------------------------
(* Discovery.                                                                *)

\* What discovery has bound so far.
DiscoveryInv ==
  /\ \A c \in todo : crtcOf[c] = None
  /\ \A k \in Crtcs : mDisplayId[k] # None => mDisplayId[k] \notin todo /\ crtcOf[mDisplayId[k]] = k
  /\ \A c \in ready : crtcOf[c] \in Crtcs /\ mDisplayId[crtcOf[c]] = c

\* Connectors that the boot loader kept apart get the crtcs they were lit by, or none.
LitInv ==
  Apart => \A c \in Connectors : crtcOf[c] # None => encoder[c] # None /\ crtcOf[c] = encCrtc[encoder[c]]

PipesInv == TypeOK /\ Boot /\ DiscoveryInv /\ LitInv /\ KeepsBootCrtc

\* The encoders a connector tries are its own.
LEMMA TriedOwn ==
  ASSUME Boot, NEW c \in Connectors, NEW i \in 1 .. Len(Tried(c))
  PROVE  \E j \in 1 .. Len(Possible[c]) : Tried(c)[i] = Possible[c][j]
<1>1. Possible[c] \in Seq(Encoders)
  BY PipesAssumption
<1>2. CASE encoder[c] = None
  <2>1. Tried(c) = Possible[c]
    BY <1>1, <1>2 DEF Tried
  <2> QED BY <2>1
<1>3. CASE encoder[c] # None
  <2>1. encoder[c] \in Encoders
    BY <1>3 DEF Boot
  <2>2. Tried(c) = <<encoder[c]>> \o Possible[c]
    BY <1>3 DEF Tried
  <2>3. CASE i = 1
    <3>1. Tried(c)[i] = encoder[c]
      BY <1>1, <2>1, <2>2, <2>3
    <3> QED BY <1>3, <3>1 DEF Boot
  <2>4. CASE i # 1
    <3>1. i - 1 \in 1 .. Len(Possible[c]) /\ Tried(c)[i] = Possible[c][i - 1]
      BY <1>1, <2>1, <2>2, <2>4
    <3> QED BY <3>1
  <2> QED BY <2>3, <2>4
<1> QED BY <1>2, <1>3

LEMMA TriedFirst ==
  ASSUME Boot, NEW c \in Connectors, encoder[c] # None
  PROVE  1 \in 1 .. Len(Tried(c)) /\ Tried(c)[1] = encoder[c]
<1>1. Possible[c] \in Seq(Encoders) /\ encoder[c] \in Encoders
  BY PipesAssumption DEF Boot
<1>2. Tried(c) = <<encoder[c]>> \o Possible[c]
  BY DEF Tried
<1> QED BY <1>1, <1>2

\* The crtc an undiscovered connector is lit by is still free.
LEMMA LitIsFree ==
  ASSUME PipesInv, Apart, NEW c \in todo, encoder[c] # None, encCrtc[encoder[c]] \in Crtcs
  PROVE  CanBind(encCrtc[encoder[c]])
<1> DEFINE k == encCrtc[encoder[c]]
<1> SUFFICES ASSUME mDisplayId[k] # None PROVE FALSE
  BY DEF CanBind
<1>1. c \in Connectors /\ encoder[c] \in Encoders /\ mDisplayId[k] \in Connectors
  BY DEF PipesInv, TypeOK
<1>2. PICK d \in Connectors : d = mDisplayId[k]
  BY <1>1
<1>3. d \notin todo /\ crtcOf[d] = k
  BY <1>2 DEF PipesInv, DiscoveryInv
<1>4. encoder[d] # None /\ encCrtc[encoder[d]] = k /\ k # None
  BY <1>3, PipesAssumption DEF PipesInv, LitInv
<1>5. encoder[d] \in Encoders
  BY <1>4 DEF PipesInv, TypeOK
<1>6. encoder[d] = encoder[c]
  BY <1>1, <1>4, <1>5 DEF Apart
<1>7. c # d
  BY <1>3
<1> QED BY <1>1, <1>4, <1>6, <1>7 DEF PipesInv, Boot, Apart

\* It is the only crtc the connector can pick...
LEMMA PicksLit ==
  ASSUME PipesInv, Apart, NEW c \in todo, NEW k \in Crtcs, Picks(c, k)
  PROVE  encoder[c] # None /\ k = encCrtc[encoder[c]]
<1>0. c \in Connectors /\ Boot
  BY DEF PipesInv, TypeOK
<1>1. PICK i \in 1 .. Len(Tried(c)) : k \in Offers(Tried(c)[i])
  BY DEF Picks
<1> DEFINE e == Tried(c)[i]
<1>2. PICK j \in 1 .. Len(Possible[c]) : e = Possible[c][j]
  BY <1>0, TriedOwn
<1>3. e \in Encoders
  <2>1. Possible[c] \in Seq(Encoders)
    BY <1>0, PipesAssumption
  <2> QED BY <1>2, <2>1
<1>4. encCrtc[e] \in mCrtcs
  BY <1>1 DEF Offers
<1>5. encCrtc[e] \in Crtcs /\ encCrtc[e] # None
  BY <1>0, <1>4, PipesAssumption DEF Boot
<1>6. PICK d \in Connectors : encoder[d] = e
  BY <1>0, <1>3, <1>5 DEF Boot
<1>7. e # None
  BY <1>3, PipesAssumption
<1>8. PICK l \in 1 .. Len(Possible[d]) : e = Possible[d][l]
  BY <1>0, <1>6, <1>7 DEF Boot
<1>9. d = c
  BY <1>0, <1>2, <1>8 DEF Apart
<1>10. encoder[c] = e
  BY <1>6, <1>9
<1>11. CanBind(encCrtc[e])
  BY <1>5, <1>7, <1>10, LitIsFree
<1>12. Offers(e) = {encCrtc[e]}
  BY <1>4, <1>11 DEF Offers
<1> QED BY <1>1, <1>7, <1>10, <1>12

\* ...and it can pick it, if the crtc's Init worked.
LEMMA LitIsPicked ==
  ASSUME PipesInv, Apart, NEW c \in todo, encoder[c] # None, encCrtc[encoder[c]] \in mCrtcs
  PROVE  Picks(c, encCrtc[encoder[c]])
<1>0. c \in Connectors /\ Boot /\ encCrtc[encoder[c]] \in Crtcs
  BY DEF PipesInv, TypeOK
<1>1. 1 \in 1 .. Len(Tried(c)) /\ Tried(c)[1] = encoder[c]
  BY <1>0, TriedFirst
<1>2. CanBind(encCrtc[encoder[c]])
  BY <1>0, LitIsFree
<1>3. encCrtc[encoder[c]] \in Offers(Tried(c)[1])
  BY <1>1, <1>2 DEF Offers
<1> QED BY <1>1, <1>3 DEF Picks

\* Discovery is all that touches the pipes.
LEMMA OthersKeepPipes ==
  ASSUME [Next]_vars
  PROVE  UNCHANGED <<bootVars, pipeVars>> \/ DiscoveryDisplay
<1> USE DEF bootVars, pipeVars
<1>1. CASE UNCHANGED vars
  BY <1>1 DEF vars
<1>2. ASSUME HotplugThread PROVE UNCHANGED <<bootVars, pipeVars>>
  BY <1>2 DEF HotplugThread, TakeUevent, InitModes, HandleHotplug
<1>3. ASSUME NEW c \in Connectors, UpdateMode(c) \/ CommitFaults(c) PROVE UNCHANGED <<bootVars, pipeVars>>
  BY <1>3 DEF UpdateMode, CommitFaults
<1>4. ASSUME NEW c \in Connectors, NEW m \in Monitors \cup {None}, Change(c, m)
      PROVE  UNCHANGED <<bootVars, pipeVars>>
  BY <1>4 DEF Change
<1>5. ASSUME NEW c \in Connectors, NEW id \in Asked, SetDisplayMode(c, id)
      PROVE  UNCHANGED <<bootVars, pipeVars>>
  BY <1>5 DEF SetDisplayMode
<1> QED BY <1>1, <1>2, <1>3, <1>4, <1>5 DEF Next

LEMMA DiscoveryStep ==
  ASSUME PipesInv, NEW c \in Connectors, NEW k \in Crtcs,
         NoCrtc(c) \/ InitFails(c, k) \/ InitDisplay(c, k)
  PROVE  DiscoveryInv'
<1>0. c \in todo /\ c \notin ready /\ todo' = todo \ {c} /\ crtcOf[c] = None
  <2>1. c \in todo /\ todo' = todo \ {c}
    BY DEF NoCrtc, InitFails, InitDisplay
  <2>2. None \notin Crtcs
    BY PipesAssumption
  <2> QED BY <2>1, <2>2 DEF PipesInv, DiscoveryInv
<1>1. CASE NoCrtc(c)
  BY <1>0, <1>1 DEF NoCrtc, PipesInv, TypeOK, DiscoveryInv
<1>2. CASE InitFails(c, k)
  <2>1. crtcOf' = [crtcOf EXCEPT ![c] = k] /\ UNCHANGED <<ready, mDisplayId>>
    BY <1>2 DEF InitFails
  <2>2. \A d \in Connectors \ {c} : crtcOf'[d] = crtcOf[d]
    BY <2>1 DEF PipesInv, TypeOK
  <2>3. \A j \in Crtcs : mDisplayId[j] # None => mDisplayId[j] \in Connectors \ {c}
    BY <1>0 DEF PipesInv, TypeOK, DiscoveryInv
  <2> QED BY <1>0, <2>1, <2>2, <2>3 DEF PipesInv, TypeOK, DiscoveryInv
<1>3. CASE InitDisplay(c, k)
  <2>1. /\ crtcOf' = [crtcOf EXCEPT ![c] = k]
        /\ ready' = ready \cup {c}
        /\ mDisplayId' = [mDisplayId EXCEPT ![k] = c]
    BY <1>3 DEF InitDisplay
  <2>2. \A d \in Connectors \ {c} : crtcOf'[d] = crtcOf[d]
    BY <2>1 DEF PipesInv, TypeOK
  <2>3. \A j \in Crtcs : mDisplayId[j] # None => mDisplayId[j] \in Connectors \ {c}
    BY <1>0 DEF PipesInv, TypeOK, DiscoveryInv
  <2>4. mDisplayId[k] = None
    BY <1>3, PipesAssumption DEF InitDisplay, Picks, Offers, CanBind
  <2>5. crtcOf'[c] = k /\ mDisplayId'[k] = c /\ \A j \in Crtcs \ {k} : mDisplayId'[j] = mDisplayId[j]
    BY <2>1 DEF PipesInv, TypeOK
  <2>6. \A d \in ready : crtcOf[d] # k
    BY <2>4, PipesAssumption DEF PipesInv, TypeOK, DiscoveryInv
  <2> QED BY <1>0, <2>1, <2>2, <2>3, <2>5, <2>6 DEF PipesInv, TypeOK, DiscoveryInv
<1> QED BY <1>1, <1>2, <1>3

LEMMA LitStep ==
  ASSUME PipesInv, NEW c \in Connectors, NEW k \in Crtcs,
         NoCrtc(c) \/ InitFails(c, k) \/ InitDisplay(c, k)
  PROVE  LitInv' /\ KeepsBootCrtc'
<1>0. c \in todo /\ todo' = todo \ {c} /\ UNCHANGED bootVars
  BY DEF NoCrtc, InitFails, InitDisplay
<1>1. UNCHANGED <<encoder, encCrtc, mCrtcs>>
  BY <1>0 DEF bootVars
<1> SUFFICES ASSUME Apart
             PROVE  /\ \A d \in Connectors : crtcOf'[d] # None =>
                          encoder[d] # None /\ crtcOf'[d] = encCrtc[encoder[d]]
                    /\ \A d \in Connectors \ todo' :
                          encoder[d] # None /\ encCrtc[encoder[d]] \in mCrtcs => crtcOf'[d] = encCrtc[encoder[d]]
  BY <1>1 DEF LitInv, KeepsBootCrtc, Apart
<1>2. CASE NoCrtc(c)
  <2>1. ASSUME encoder[c] # None, encCrtc[encoder[c]] \in mCrtcs PROVE FALSE
    <3>1. Picks(c, encCrtc[encoder[c]])
      BY <1>0, <2>1, LitIsPicked
    <3>2. encCrtc[encoder[c]] \in Crtcs
      BY <2>1 DEF PipesInv, TypeOK
    <3> QED BY <1>2, <3>1, <3>2 DEF NoCrtc
  <2>2. crtcOf' = crtcOf
    BY <1>2 DEF NoCrtc
  <2> QED BY <1>0, <2>1, <2>2 DEF PipesInv, LitInv, KeepsBootCrtc
<1>3. CASE InitFails(c, k) \/ InitDisplay(c, k)
  <2>1. Picks(c, k) /\ crtcOf' = [crtcOf EXCEPT ![c] = k]
    BY <1>3 DEF InitFails, InitDisplay
  <2>2. encoder[c] # None /\ k = encCrtc[encoder[c]]
    BY <1>0, <2>1, PicksLit
  <2>3. crtcOf'[c] = k /\ \A d \in Connectors \ {c} : crtcOf'[d] = crtcOf[d]
    BY <2>1 DEF PipesInv, TypeOK
  <2> QED BY <1>0, <2>2, <2>3 DEF PipesInv, LitInv, KeepsBootCrtc
<1> QED BY <1>2, <1>3

LEMMA PipesInit == Init => PipesInv
<1> SUFFICES ASSUME Init PROVE PipesInv
  OBVIOUS
<1>1. TypeOK
  BY TypeInit
<1>2. Boot /\ crtcOf = [c \in Connectors |-> None] /\ todo = Connectors /\ ready = {}
      /\ mDisplayId = [k \in Crtcs |-> None]
  BY DEF Init
<1> QED BY <1>1, <1>2 DEF PipesInv, DiscoveryInv, LitInv, KeepsBootCrtc

LEMMA PipesStep == PipesInv /\ [Next]_vars => PipesInv'
<1> SUFFICES ASSUME PipesInv, [Next]_vars PROVE PipesInv'
  OBVIOUS
<1>1. TypeOK'
  BY TypeStep DEF PipesInv
<1>2. CASE UNCHANGED <<bootVars, pipeVars>>
  <2>1. UNCHANGED <<encoder, encCrtc, mCrtcs, todo, crtcOf, ready, mDisplayId>>
    BY <1>2 DEF bootVars, pipeVars
  <2>2. Boot' /\ DiscoveryInv'
    BY <2>1 DEF PipesInv, Boot, DiscoveryInv
  <2>3. LitInv' /\ KeepsBootCrtc'
    BY <2>1 DEF PipesInv, LitInv, KeepsBootCrtc, Apart
  <2> QED BY <1>1, <2>2, <2>3 DEF PipesInv
<1>3. ASSUME NEW c \in Connectors, NEW k \in Crtcs, NoCrtc(c) \/ InitFails(c, k) \/ InitDisplay(c, k)
      PROVE  PipesInv'
  <2>1. DiscoveryInv' /\ LitInv' /\ KeepsBootCrtc'
    BY <1>3, DiscoveryStep, LitStep
  <2>2. Boot'
    BY <1>3 DEF NoCrtc, InitFails, InitDisplay, bootVars, PipesInv, Boot
  <2> QED BY <1>1, <2>1, <2>2 DEF PipesInv
<1>4. ASSUME NEW c \in Connectors, NoCrtc(c), Crtcs = {} PROVE PipesInv'
  <2>1. UNCHANGED <<encoder, encCrtc, mCrtcs, crtcOf, ready, mDisplayId>> /\ todo' = todo \ {c}
    BY <1>4 DEF NoCrtc, bootVars
  <2>2. Boot'
    BY <2>1 DEF PipesInv, Boot
  <2>3. mCrtcs = {} /\ mCrtcs' = {}
    BY <1>4, <2>1 DEF PipesInv, TypeOK
  <2>4. DiscoveryInv'
    BY <2>1 DEF PipesInv, DiscoveryInv
  <2>5. LitInv'
    BY <2>1 DEF PipesInv, LitInv, Apart
  <2>6. KeepsBootCrtc'
    BY <2>3 DEF KeepsBootCrtc
  <2> QED BY <1>1, <2>2, <2>4, <2>5, <2>6 DEF PipesInv
<1>5. UNCHANGED <<bootVars, pipeVars>> \/ DiscoveryDisplay
  BY OthersKeepPipes
<1> QED BY <1>2, <1>3, <1>4, <1>5 DEF DiscoveryDisplay

LEMMA InvNoSharedCrtc == PipesInv => NoSharedCrtc
BY DEF PipesInv, DiscoveryInv, NoSharedCrtc

LEMMA InvKeepsBootCrtc == PipesInv => KeepsBootCrtc
BY DEF PipesInv

\* Two displays that can commit never drive one crtc (drm_crtc.cpp:75-96): being ready
\* means to own the binding of one's crtc.
THEOREM CrtcsNotShared == Spec => []NoSharedCrtc
BY PipesInit, PipesStep, InvNoSharedCrtc, PTL DEF Spec

\* Where the boot loader kept the connectors apart, discovery (drm_device.cpp:329-354)
\* finds each on the crtc it was lit by, in whatever order it looks at them.
THEOREM BootCrtcsKept == Spec => []KeepsBootCrtc
BY PipesInit, PipesStep, InvKeepsBootCrtc, PTL DEF Spec

\* Each display has a crtc of its own, and one that was lit its own.
THEOREM CrtcsAreApart == Spec => []CrtcsKeptApart
  BY CrtcsNotShared, BootCrtcsKept, PTL DEF CrtcsKeptApart
-----------------------------------------------------------------------------
(* Modes.                                                                    *)

\* The connector holds what is plugged in, or is being given it...
Current(c) ==
  /\ mConnectState[c] <=> monitor[c] # None
  /\ IF filling = c THEN seen = monitor[c] ELSE mModes[c] = List(monitor[c])

\* ...or its state changed once, and a probe is on its way.
Awaited(c) ==
  /\ ~ (mConnectState[c] <=> monitor[c] # None)
  /\ crtcOf[c] # None => pending \/ c \in probing

\* No uevent is taken before discovery is over.
QuietAtFirst == todo # {} => ~ pending /\ probing = {} /\ filling = None /\ unprobed \subseteq missed

ModesInv ==
  /\ TypeOK /\ QuietAtFirst
  /\ \A c \in Connectors \ (missed \cup bounced) : IF c \in unprobed THEN Awaited(c) ELSE Current(c)

LEMMA ModesDiscovery ==
  ASSUME ModesInv, NEW c \in Connectors, NEW k \in Crtcs \cup {None},
         NoCrtc(c) \/ InitFails(c, k) \/ InitDisplay(c, k)
  PROVE  QuietAtFirst' /\ \A d \in Connectors \ (missed' \cup bounced') :
                            IF d \in unprobed' THEN Awaited(d)' ELSE Current(d)'
<1>1. /\ c \in todo /\ todo' = todo \ {c} /\ crtcOf' \in {crtcOf, [crtcOf EXCEPT ![c] = k]}
      /\ UNCHANGED <<monitor, mConnectState, mModes, pending, probing, filling, seen, missed, unprobed, bounced>>
  BY DEF NoCrtc, InitFails, InitDisplay, kernelVars, connVars, threadVars, history
<1>2. \A d \in Connectors : d # c => crtcOf'[d] = crtcOf[d]
  BY <1>1 DEF ModesInv, TypeOK
<1>3. unprobed \subseteq missed
  BY <1>1 DEF ModesInv, QuietAtFirst
<1> QED
  BY <1>1, <1>2, <1>3 DEF ModesInv, QuietAtFirst, Current, Awaited

LEMMA ModesChange ==
  ASSUME ModesInv, NEW c \in Connectors, NEW m \in Monitors \cup {None}, Change(c, m)
  PROVE  QuietAtFirst' /\ \A d \in Connectors \ (missed' \cup bounced') :
                            IF d \in unprobed' THEN Awaited(d)' ELSE Current(d)'
<1>1. /\ m # monitor[c] /\ (m = None \/ monitor[c] = None) /\ monitor' = [monitor EXCEPT ![c] = m]
      /\ unprobed' = unprobed \cup {c} /\ bounced' = bounced \cup ({c} \cap unprobed)
      /\ \/ todo = {} /\ pending' = TRUE /\ missed' = missed
         \/ pending' = pending /\ missed' = missed \cup {c}
      /\ UNCHANGED <<todo, crtcOf, mConnectState, mModes, probing, filling, seen>>
  BY DEF Change, pipeVars, connVars
<1>2. monitor'[c] = m /\ \A d \in Connectors : d # c => monitor'[d] = monitor[d]
  BY <1>1 DEF ModesInv, TypeOK
<1>3. QuietAtFirst'
  BY <1>1 DEF ModesInv, QuietAtFirst
<1>4. ASSUME NEW d \in Connectors \ (missed' \cup bounced'), d # c
      PROVE  IF d \in unprobed' THEN Awaited(d)' ELSE Current(d)'
  BY <1>1, <1>2, <1>4 DEF ModesInv, Current, Awaited
<1>5. ASSUME c \notin missed' \cup bounced' PROVE Awaited(c)'
  <2>1. c \notin unprobed /\ pending' = TRUE /\ c \notin missed \cup bounced
    BY <1>1, <1>5
  <2>2. mConnectState[c] <=> monitor[c] # None
    BY <2>1 DEF ModesInv, Current
  <2> QED
    BY <1>1, <1>2, <2>1, <2>2 DEF Awaited
<1> QED
  BY <1>1, <1>3, <1>4, <1>5

LEMMA ModesThread ==
  ASSUME ModesInv, HotplugThread
  PROVE  QuietAtFirst' /\ \A d \in Connectors \ (missed' \cup bounced') :
                            IF d \in unprobed' THEN Awaited(d)' ELSE Current(d)'
<1>0. None \notin Connectors /\ None \notin Crtcs
  BY PipesAssumption
<1>1. CASE TakeUevent
  <2>1. /\ filling = None /\ probing' = {c \in Connectors : crtcOf[c] # None} /\ pending
        /\ UNCHANGED <<monitor, todo, crtcOf, mConnectState, mModes, filling, seen, missed, unprobed, bounced>>
    BY <1>1 DEF TakeUevent, kernelVars, pipeVars, connVars, history
  <2> QED
    BY <2>1 DEF ModesInv, QuietAtFirst, Current, Awaited
<1>2. CASE InitModes
  <2>1. /\ filling # None /\ filling' = None
        /\ mModes' = [mModes EXCEPT ![filling] = List(seen)]
        /\ UNCHANGED <<monitor, todo, crtcOf, mConnectState, pending, probing, missed, unprobed, bounced>>
    BY <1>2 DEF InitModes, kernelVars, pipeVars, history
  <2>2. filling \in Connectors /\ mModes'[filling] = List(seen)
        /\ \A d \in Connectors : d # filling => mModes'[d] = mModes[d]
    BY <2>1 DEF ModesInv, TypeOK
  <2> QED
    BY <1>0, <2>1, <2>2 DEF ModesInv, QuietAtFirst, Current, Awaited
<1>3. ASSUME NEW c \in Connectors, HandleHotplug(c)
      PROVE  QuietAtFirst' /\ \A d \in Connectors \ (missed' \cup bounced') :
                                IF d \in unprobed' THEN Awaited(d)' ELSE Current(d)'
  <2>1. /\ c \in probing /\ filling = None /\ probing' = probing \ {c}
        /\ UNCHANGED <<monitor, todo, crtcOf, pending>>
    BY <1>3 DEF HandleHotplug, kernelVars, pipeVars
  <2>2. QuietAtFirst'
    BY <2>1 DEF ModesInv, QuietAtFirst
  <2>3. CASE missed' = missed \cup {c} /\ UNCHANGED <<connVars, filling, seen, unprobed, bounced>>
    BY <2>1, <2>2, <2>3 DEF connVars, ModesInv, Current, Awaited
  <2>4. CASE /\ (monitor[c] # None) = mConnectState[c]
             /\ unprobed' = unprobed \ {c} /\ UNCHANGED <<connVars, filling, seen, missed, bounced>>
    <3>1. c \in unprobed => c \in missed \cup bounced
      BY <2>4 DEF ModesInv, Awaited
    <3> QED
      BY <2>1, <2>2, <2>4, <3>1 DEF connVars, ModesInv, Current, Awaited
  <2>5. CASE /\ (monitor[c] # None) # mConnectState[c]
             /\ mConnectState' = [mConnectState EXCEPT ![c] = ~ @]
             /\ mModes' = [mModes EXCEPT ![c] = <<>>]
             /\ filling' = c /\ seen' = monitor[c]
             /\ unprobed' = unprobed \ {c} /\ missed' = missed \ {c} /\ bounced' = bounced \ {c}
    <3>1. \A d \in Connectors : d # c => mConnectState'[d] = mConnectState[d] /\ mModes'[d] = mModes[d]
      BY <2>5 DEF ModesInv, TypeOK
    <3>2. mConnectState'[c] <=> monitor[c] # None
      <4>1. mConnectState'[c] = ~ mConnectState[c] /\ mConnectState[c] \in BOOLEAN
        BY <2>5 DEF ModesInv, TypeOK
      <4> QED
        BY <2>5, <4>1
    <3>3. Current(c)'
      BY <2>1, <2>5, <3>2 DEF Current
    <3>4. ASSUME NEW d \in Connectors \ (missed' \cup bounced'), d # c
          PROVE  IF d \in unprobed' THEN Awaited(d)' ELSE Current(d)'
      BY <1>0, <2>1, <2>5, <3>1, <3>4 DEF ModesInv, Current, Awaited
    <3> QED
      BY <2>2, <2>5, <3>3, <3>4
  <2> QED
    BY <1>3, <2>3, <2>4, <2>5 DEF HandleHotplug
<1> QED
  BY <1>1, <1>2, <1>3 DEF HotplugThread

LEMMA ModesStep == ModesInv /\ [Next]_vars => ModesInv'
<1> SUFFICES ASSUME ModesInv, [Next]_vars PROVE ModesInv'
  OBVIOUS
<1>1. TypeOK'
  BY TypeStep DEF ModesInv
<1>2. CASE UNCHANGED <<monitor, todo, crtcOf, connVars, threadVars, history>>
  <2>1. UNCHANGED <<monitor, todo, crtcOf, mConnectState, mModes, pending, probing, filling, seen, missed, unprobed, bounced>>
    BY <1>2 DEF connVars, threadVars, history
  <2> QED
    BY <1>1, <2>1 DEF ModesInv, QuietAtFirst, Current, Awaited
<1>3. CASE DiscoveryDisplay
  <2>1. PICK c \in Connectors : NoCrtc(c) \/ \E k \in Crtcs : InitFails(c, k) \/ InitDisplay(c, k)
    BY <1>3 DEF DiscoveryDisplay
  <2>2. PICK k \in Crtcs \cup {None} : NoCrtc(c) \/ InitFails(c, k) \/ InitDisplay(c, k)
    BY <2>1
  <2> QED
    BY <1>1, <2>2, ModesDiscovery DEF ModesInv
<1>4. CASE HotplugThread
  BY <1>1, <1>4, ModesThread DEF ModesInv
<1>5. ASSUME NEW c \in Connectors, NEW m \in Monitors \cup {None}, Change(c, m) PROVE ModesInv'
  BY <1>1, <1>5, ModesChange DEF ModesInv
<1>6. ASSUME NEW c \in Connectors, NEW id \in Asked, SetDisplayMode(c, id)
      PROVE  UNCHANGED <<monitor, todo, crtcOf, connVars, threadVars, history>>
  BY <1>6 DEF SetDisplayMode, kernelVars, pipeVars
<1>7. ASSUME NEW c \in Connectors, UpdateMode(c) \/ CommitFaults(c)
      PROVE  UNCHANGED <<monitor, todo, crtcOf, connVars, threadVars, history>>
  BY <1>7 DEF UpdateMode, CommitFaults, kernelVars, pipeVars
<1>8. UNCHANGED vars => UNCHANGED <<monitor, todo, crtcOf, connVars, threadVars, history>>
  BY DEF vars, kernelVars, pipeVars
<1> QED
  BY <1>2, <1>3, <1>4, <1>5, <1>6, <1>7, <1>8 DEF Next

\* The modes that a display offers are the monitor's (drm_connector.cpp HandleHotplug), for any
\* number of displays and monitors, unless a uevent or an answer was lost or a monitor was
\* exchanged between two probes.
THEOREM ModesAreTheMonitors == Spec => []ModesFollowMonitor
<1>1. Init => ModesInv
  <2> SUFFICES ASSUME Init PROVE ModesInv
    OBVIOUS
  <2>1. /\ mConnectState = [c \in Connectors |-> monitor[c] # None]
        /\ mModes = [c \in Connectors |-> List(monitor[c])]
        /\ pending = FALSE /\ probing = {} /\ filling = None /\ unprobed = {}
    BY DEF Init
  <2>2. None \notin Connectors
    BY PipesAssumption
  <2> QED
    BY <2>1, <2>2, TypeInit DEF ModesInv, QuietAtFirst, Current
<1>2. ModesInv => ModesFollowMonitor
  BY DEF ModesInv, ModesFollowMonitor, Settled, Current, Awaited
<1> QED
  BY <1>1, <1>2, ModesStep, PTL DEF Spec
=============================================================================
