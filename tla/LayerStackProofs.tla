-------------------------- MODULE LayerStackProofs --------------------------
(* Theorems about LayerStack, for every set of layers, z-orders, buffers    *)
(* and composition types, and about the descriptors of the same layers,     *)
(* Fences, for any number of them.                                          *)
EXTENDS LayerStack, Fences, TLAPS, SequenceTheorems, FiniteSetTheorems, WellFoundedInduction

\* While no layer was closed since Prepare, both copies hold live layers only.
PlanLive ==
  ~ closed => Elems(mChangeLayers) \subseteq mLayersMap /\ Elems(mCompLayers) \subseteq mLayersMap

\* A layer takes its place in the stack with the z-order it is created with.
UnusedDefault == \A l \in Layers \ used : zorder[l] = DefaultZ

\* The inductive invariant.
StackInv ==
  TypeOK /\ StackSortedByZ /\ StackLive /\ UnusedDefault /\ PlanLive /\ FaultOnlyAfterClose

-----------------------------------------------------------------------------
(* The two sequence operations the multiset is made of.                    *)

\* What InsertAfter returns: one element more, the others in their order.
LEMMA InsertAfterProps ==
  ASSUME NEW S, NEW s \in Seq(S), NEW k \in 0 .. Len(s), NEW x \in S
  PROVE  /\ InsertAfter(s, k, x) \in Seq(S)
         /\ Len(InsertAfter(s, k, x)) = Len(s) + 1
         /\ \A i \in 1 .. Len(s) + 1 : InsertAfter(s, k, x)[i] =
              IF i <= k THEN s[i] ELSE IF i = k + 1 THEN x ELSE s[i - 1]
<1> DEFINE t == InsertAfter(s, k, x)
<1>1. Len(s) \in Nat /\ \A i \in 1 .. Len(s) : s[i] \in S
  BY LenProperties, ElementOfSeq
<1>2. t \in [1 .. Len(s) + 1 -> S]
  BY <1>1 DEF InsertAfter
<1>3. t \in Seq(S)
  BY <1>1, <1>2, SeqDef
<1>4. Len(t) = Len(s) + 1
  BY <1>1, <1>2, <1>3, LenProperties
<1> QED
  BY <1>3, <1>4 DEF InsertAfter

\* What Cut returns: the positions up to lo, then those after hi.
LEMMA CutProps ==
  ASSUME NEW S, NEW s \in Seq(S), NEW lo \in 0 .. Len(s), NEW hi \in lo .. Len(s)
  PROVE  /\ Cut(s, lo, hi) \in Seq(S)
         /\ Len(Cut(s, lo, hi)) = Len(s) - (hi - lo)
         /\ \A i \in 1 .. Len(s) - (hi - lo) : Cut(s, lo, hi)[i] =
              IF i <= lo THEN s[i] ELSE s[i + (hi - lo)]
<1> DEFINE t == Cut(s, lo, hi)
<1>1. Len(s) \in Nat /\ \A i \in 1 .. Len(s) : s[i] \in S
  BY LenProperties, ElementOfSeq
<1>2. Len(s) - (hi - lo) \in Nat
  BY <1>1
<1>3. t \in [1 .. Len(s) - (hi - lo) -> S]
  BY <1>1 DEF Cut
<1>4. t \in Seq(S)
  BY <1>2, <1>3, SeqDef
<1>5. Len(t) = Len(s) - (hi - lo)
  BY <1>2, <1>3, <1>4, LenProperties
<1> QED
  BY <1>4, <1>5 DEF Cut

\* InsertAfter keeps every element and adds x.
LEMMA InsertAfterKeeps ==
  ASSUME NEW S, NEW s, s \in Seq(S), NEW k \in 0 .. Len(s), NEW x \in S
  PROVE  \A y \in Elems(s) \cup {x} : y \in Elems(InsertAfter(s, k, x))
<1> DEFINE t == InsertAfter(s, k, x)
<1>1. /\ Len(s) \in Nat /\ Len(t) = Len(s) + 1
      /\ \A i \in 1 .. Len(s) + 1 : t[i] = IF i <= k THEN s[i] ELSE IF i = k + 1 THEN x ELSE s[i - 1]
  BY InsertAfterProps, LenProperties
<1> HIDE DEF t
<1>2. x \in Elems(t)
  <2>1. k + 1 \in 1 .. Len(t) /\ t[k + 1] = x
    BY <1>1
  <2> QED BY <2>1 DEF Elems
<1>3. ASSUME NEW q \in 1 .. Len(s)
      PROVE  s[q] \in Elems(t)
  <2>1. CASE q <= k
    <3>1. q \in 1 .. Len(t) /\ t[q] = s[q]
      BY <1>1, <2>1
    <3> QED BY <3>1 DEF Elems
  <2>2. CASE k < q
    <3>1. q + 1 \in 1 .. Len(t) /\ ~ (q + 1 <= k) /\ q + 1 # k + 1 /\ (q + 1) - 1 = q
      BY <1>1, <2>2
    <3>2. t[q + 1] = s[q]
      BY <1>1, <3>1
    <3> QED BY <3>1, <3>2 DEF Elems
  <2> QED BY <2>1, <2>2, <1>1
<1> QED BY <1>2, <1>3 DEF Elems, t

\* Cut keeps the element of every position outside its range.
LEMMA CutKeeps ==
  ASSUME NEW S, NEW s, s \in Seq(S), NEW lo \in 0 .. Len(s), NEW hi \in lo .. Len(s),
         NEW p \in 1 .. Len(s), p \notin lo + 1 .. hi
  PROVE  s[p] \in Elems(Cut(s, lo, hi))
<1> DEFINE t == Cut(s, lo, hi)
<1>1. /\ Len(s) \in Nat /\ Len(t) = Len(s) - (hi - lo)
      /\ \A i \in 1 .. Len(s) - (hi - lo) : t[i] = IF i <= lo THEN s[i] ELSE s[i + (hi - lo)]
  BY CutProps, LenProperties
<1> HIDE DEF t
<1>2. CASE p <= lo
  <2>1. p \in 1 .. Len(t) /\ t[p] = s[p]
    BY <1>1, <1>2
  <2> QED BY <2>1 DEF Elems, t
<1>3. CASE hi < p
  <2>1. p - (hi - lo) \in 1 .. Len(t) /\ ~ (p - (hi - lo) <= lo) /\ (p - (hi - lo)) + (hi - lo) = p
    BY <1>1, <1>3
  <2>2. t[p - (hi - lo)] = s[p]
    BY <1>1, <2>1
  <2> QED BY <2>1, <2>2 DEF Elems, t
<1> QED BY <1>1, <1>2, <1>3

-----------------------------------------------------------------------------
(* The two ways the multiset changes.                                      *)

\* A stack: ordered by z, without duplicates, of layers in L.
IsStack(s, z, L) ==
  /\ s \in Seq(Layers)
  /\ Elems(s) \subseteq L
  /\ \A i, j \in 1 .. Len(s) : i < j => z[s[i]] <= z[s[j]] /\ s[i] # s[j]

\* The emplace of a layer that is not in the stack gives a stack, under an order that
\* only changed for that layer.
LEMMA EmplaceStack ==
  ASSUME NEW s, NEW z \in [Layers -> Nat], NEW L, IsStack(s, z, L),
         NEW l \in Layers, l \notin Elems(s),
         NEW w \in [Layers -> Nat], \A m \in Elems(s) : w[m] = z[m],
         NEW k \in 0 .. Len(s),
         \A i \in 1 .. k : z[s[i]] <= w[l],
         \A i \in k + 1 .. Len(s) : z[s[i]] > w[l]
  PROVE  IsStack(InsertAfter(s, k, l), w, L \cup {l})
<1> DEFINE t == InsertAfter(s, k, l)
<1>1. /\ s \in Seq(Layers)
      /\ Len(s) \in Nat
      /\ \A i \in 1 .. Len(s) : s[i] \in Layers /\ s[i] \in Elems(s) /\ s[i] # l
  BY LenProperties, ElementOfSeq DEF IsStack, Elems
<1>2. /\ t \in Seq(Layers)
      /\ Len(t) = Len(s) + 1
      /\ \A i \in 1 .. Len(s) + 1 : t[i] = IF i <= k THEN s[i] ELSE IF i = k + 1 THEN l ELSE s[i - 1]
  BY <1>1, InsertAfterProps
<1> HIDE DEF t
\* Which element of s an element of the result is; position k + 1 holds l.
<1> DEFINE From(i) == IF i <= k THEN i ELSE i - 1
<1>3. t[k + 1] = l
  <2>1. k + 1 \in 1 .. Len(s) + 1 /\ ~ (k + 1 <= k)
    BY <1>1
  <2> QED BY <1>2, <2>1
<1>4. ASSUME NEW i \in 1 .. Len(t), i # k + 1
      PROVE  t[i] = s[From(i)] /\ From(i) \in 1 .. Len(s) /\ (i <= k <=> From(i) <= k)
  <2>1. CASE i <= k
    <3>1. From(i) = i
      BY <2>1
    <3>2. i \in 1 .. Len(s) /\ t[i] = s[i]
      BY <2>1, <1>1, <1>2
    <3> QED BY <3>1, <3>2, <2>1
  <2>2. CASE i > k + 1
    <3>1. From(i) = i - 1 /\ ~ (i <= k) /\ ~ (i - 1 <= k)
      BY <2>2, <1>1, <1>2
    <3>2. i - 1 \in 1 .. Len(s) /\ t[i] = s[i - 1]
      BY <2>2, <3>1, <1>1, <1>2, <1>4
    <3> QED BY <3>1, <3>2
  <2> QED BY <2>1, <2>2, <1>4, <1>2, <1>1
<1>5. ASSUME NEW i \in 1 .. Len(t), NEW j \in 1 .. Len(t), i < j, i # k + 1, j # k + 1
      PROVE  From(i) < From(j)
  <2>1. i \in Int /\ j \in Int /\ k \in Int
    BY <1>1, <1>2
  <2>2. CASE j <= k
    <3>1. From(i) = i /\ From(j) = j
      BY <2>1, <2>2, <1>5
    <3> QED BY <3>1, <1>5
  <2>3. CASE k + 1 < j /\ k + 1 < i
    <3>1. From(i) = i - 1 /\ From(j) = j - 1
      BY <2>1, <2>3
    <3> QED BY <3>1, <1>5, <2>1
  <2>4. CASE k + 1 < j /\ i <= k
    <3>1. From(i) = i /\ From(j) = j - 1
      BY <2>1, <2>4
    <3> QED BY <3>1, <2>4, <2>1
  <2> QED BY <2>1, <2>2, <2>3, <2>4, <1>5
<1> HIDE DEF From
<1>6. \A i \in 1 .. Len(s) : /\ w[s[i]] = z[s[i]]
                             /\ w[s[i]] \in Nat
                             /\ i <= k => w[s[i]] <= w[l]
                             /\ k < i => w[l] <= w[s[i]]
  <2> TAKE i \in 1 .. Len(s)
  <2>1. w[s[i]] = z[s[i]] /\ z[s[i]] \in Nat /\ w[l] \in Nat
    BY <1>1
  <2>2. i <= k => i \in 1 .. k
    BY <1>1
  <2>3. k < i => i \in k + 1 .. Len(s)
    BY <1>1
  <2> QED BY <2>1, <2>2, <2>3
<1>7. Elems(t) \subseteq L \cup {l}
  <2>1. ASSUME NEW i \in 1 .. Len(t)
        PROVE  t[i] \in L \cup {l}
    BY <1>1, <1>3, <1>4 DEF IsStack
  <2> QED BY <2>1 DEF Elems
<1>8. ASSUME NEW i \in 1 .. Len(t), NEW j \in 1 .. Len(t), i < j
      PROVE  w[t[i]] <= w[t[j]] /\ t[i] # t[j]
  <2>1. CASE i = k + 1
    <3>1. j # k + 1 /\ ~ (j <= k)
      BY <2>1, <1>8, <1>2, <1>1
    <3>2. t[i] = l /\ t[j] = s[From(j)] /\ From(j) \in 1 .. Len(s) /\ k < From(j)
      BY <3>1, <2>1, <1>3, <1>4, <1>1
    <3> QED BY <3>2, <1>1, <1>6
  <2>2. CASE j = k + 1
    <3>1. i # k + 1 /\ i <= k
      BY <2>2, <1>8, <1>2, <1>1
    <3>2. t[j] = l /\ t[i] = s[From(i)] /\ From(i) \in 1 .. Len(s) /\ From(i) <= k
      BY <3>1, <2>2, <1>3, <1>4
    <3> QED BY <3>2, <1>1, <1>6
  <2>3. CASE i # k + 1 /\ j # k + 1
    <3>1. /\ t[i] = s[From(i)] /\ From(i) \in 1 .. Len(s)
          /\ t[j] = s[From(j)] /\ From(j) \in 1 .. Len(s)
          /\ From(i) < From(j)
      BY <2>3, <1>4, <1>5, <1>8
    <3>2. z[s[From(i)]] <= z[s[From(j)]] /\ s[From(i)] # s[From(j)]
      BY <3>1 DEF IsStack
    <3> QED BY <3>1, <3>2, <1>6
  <2> QED BY <2>1, <2>2, <2>3
<1> QED BY <1>2, <1>7, <1>8 DEF IsStack, t

\* Cutting a range out of a stack gives a stack of what is left.
LEMMA CutStack ==
  ASSUME NEW s, NEW z \in [Layers -> Nat], NEW L, IsStack(s, z, L),
         NEW lo \in 0 .. Len(s), NEW hi \in lo .. Len(s)
  PROVE  /\ IsStack(Cut(s, lo, hi), z, L)
         /\ \A i \in lo + 1 .. hi : s[i] \notin Elems(Cut(s, lo, hi))
         /\ \A m \in Elems(Cut(s, lo, hi)) : \E i \in 1 .. Len(s) : i \notin lo + 1 .. hi /\ s[i] = m
<1> DEFINE t == Cut(s, lo, hi)
<1>1. s \in Seq(Layers) /\ Len(s) \in Nat
  BY LenProperties DEF IsStack
<1>2. /\ t \in Seq(Layers)
      /\ Len(t) = Len(s) - (hi - lo)
      /\ \A i \in 1 .. Len(s) - (hi - lo) : t[i] = IF i <= lo THEN s[i] ELSE s[i + (hi - lo)]
  BY <1>1, CutProps
<1> HIDE DEF t
\* Where an element of the result comes from.
<1> DEFINE From(i) == IF i <= lo THEN i ELSE i + (hi - lo)
<1>3. \A i \in 1 .. Len(t) : /\ t[i] = s[From(i)]
                             /\ From(i) \in 1 .. Len(s)
                             /\ From(i) \notin lo + 1 .. hi
  <2> TAKE i \in 1 .. Len(t)
  <2>1. CASE i <= lo
    BY <2>1, <1>1, <1>2
  <2>2. CASE lo < i
    <3>1. From(i) = i + (hi - lo) /\ t[i] = s[i + (hi - lo)]
      BY <2>2, <1>1, <1>2
    <3> QED BY <3>1, <2>2, <1>1, <1>2
  <2> QED BY <2>1, <2>2, <1>1, <1>2
<1>4. ASSUME NEW i \in 1 .. Len(t), NEW j \in 1 .. Len(t), i < j
      PROVE  From(i) < From(j)
  <2>1. i \in Int /\ j \in Int /\ lo \in Int /\ hi \in Int /\ lo <= hi
    BY <1>1, <1>2
  <2>2. CASE j <= lo
    <3>1. i <= lo
      BY <2>1, <2>2, <1>4
    <3>2. From(i) = i /\ From(j) = j
      BY <3>1, <2>2
    <3> QED BY <3>2, <1>4
  <2>3. CASE lo < i
    <3>1. From(i) = i + (hi - lo) /\ From(j) = j + (hi - lo)
      BY <2>1, <2>3, <1>4
    <3> QED BY <3>1, <2>1, <1>4
  <2>4. CASE i <= lo /\ lo < j
    <3>1. From(i) = i /\ From(j) = j + (hi - lo)
      BY <2>1, <2>4
    <3> QED BY <3>1, <2>1, <1>4
  <2> QED BY <2>1, <2>2, <2>3, <2>4
<1> HIDE DEF From
<1>5. IsStack(t, z, L)
  <2>1. \A i \in 1 .. Len(t) : t[i] \in L
    BY <1>3 DEF IsStack, Elems
  <2>2. ASSUME NEW i \in 1 .. Len(t), NEW j \in 1 .. Len(t), i < j
        PROVE  z[t[i]] <= z[t[j]] /\ t[i] # t[j]
    BY <2>2, <1>3, <1>4 DEF IsStack
  <2> QED BY <1>2, <2>1, <2>2 DEF IsStack, Elems
<1>6. \A m \in Elems(t) : \E i \in 1 .. Len(s) : i \notin lo + 1 .. hi /\ s[i] = m
  BY <1>3 DEF Elems
<1>7. ASSUME NEW i \in lo + 1 .. hi, s[i] \in Elems(t)
      PROVE  FALSE
  <2>1. PICK j \in 1 .. Len(s) : j \notin lo + 1 .. hi /\ s[j] = s[i]
    BY <1>6, <1>7
  <2>2. i \in 1 .. Len(s) /\ (i < j \/ j < i)
    BY <2>1, <1>1
  <2> QED BY <2>1, <2>2 DEF IsStack
<1> QED BY <1>5, <1>6, <1>7 DEF t

-----------------------------------------------------------------------------
(* The inductive invariant.                                                *)

\* A stack is what StackSortedByZ and StackLive say together.
LEMMA StackShape ==
  ASSUME NEW s \in Seq(Layers), NEW z, NEW L
  PROVE  IsStack(s, z, L) <=>
           /\ Elems(s) \subseteq L
           /\ \A i, j \in 1 .. Len(s) : i < j => z[s[i]] <= z[s[j]]
           /\ \A i, j \in 1 .. Len(s) : i # j => s[i] # s[j]
<1>1. Len(s) \in Nat
  BY LenProperties
<1>2. \A i, j \in 1 .. Len(s) : i # j => i < j \/ j < i
  BY <1>1
<1> QED BY <1>2, <1>1 DEF IsStack

\* A stack only depends on the z-orders of its own layers.
LEMMA StackAgree ==
  ASSUME NEW s, NEW z, NEW L, IsStack(s, z, L),
         NEW w, NEW M, \A m \in Elems(s) : w[m] = z[m] /\ m \in M
  PROVE  IsStack(s, w, M)
<1>1. \A i \in 1 .. Len(s) : s[i] \in Elems(s)
  BY DEF Elems
<1> QED BY <1>1 DEF IsStack

\* What the frame service leaves on the screen.
LEMMA ApplyShows ==
  ASSUME failed \in BOOLEAN, Apply
  PROVE  /\ front' \in {front, clientBuffer, NoBuffer} /\ clientBuffer' = clientBuffer
         /\ failed' \in BOOLEAN
<1>1. CASE Screen!Present
  BY <1>1 DEF Screen!Present
<1>2. CASE Screen!Miss
  BY <1>2 DEF Screen!Miss
<1>3. CASE UNCHANGED <<clientBuffer, front, failed>>
  BY <1>3
<1> QED
  BY <1>1, <1>2, <1>3 DEF Apply

LEMMA InitStackInv == Init => StackInv
<1> SUFFICES ASSUME Init PROVE StackInv
  OBVIOUS
<1> USE DEF Init
<1>1. Elems(<<>>) = {}
  BY EmptySeq DEF Elems
<1>2. TypeOK
  <2>1. <<>> \in Seq(Layers)
    BY EmptySeq
  <2>2. compType \in [Layers -> CompTypes]
    BY DEF CompTypes
  <2>3. zorder \in [Layers -> 0 .. DefaultZ]
    BY ZAssumption
  <2>4. front \in ClientBuffers \cup {NoBuffer} /\ clientBuffer \in ClientBuffers
    BY BufferAssumption
  <2> QED BY <2>1, <2>2, <2>3, <2>4 DEF TypeOK
<1>3. StackSortedByZ /\ StackLive
  BY <1>1, EmptySeq DEF StackSortedByZ, StackLive
<1> QED BY <1>1, <1>2, <1>3 DEF StackInv, UnusedDefault, PlanLive, FaultOnlyAfterClose

\* Every step keeps the invariant.
LEMMA NextStackInv == StackInv /\ [Next]_vars => StackInv'
<1> SUFFICES ASSUME StackInv, [Next]_vars
             PROVE  StackInv'
  OBVIOUS
<1> USE DEF StackInv
<1>1. /\ mLayers \in Seq(Layers) /\ Len(mLayers) \in Nat
      /\ zorder \in [Layers -> Nat] /\ mLayersMap \subseteq Layers
      /\ DefaultZ \in Nat
  BY ZAssumption, LenProperties DEF TypeOK
<1>2. IsStack(mLayers, zorder, mLayersMap)
  BY <1>1, StackShape DEF StackSortedByZ, StackLive
\* It is enough that a step gives a stack again and keeps the rest.
<1>3. ASSUME TypeOK', IsStack(mLayers', zorder', mLayersMap'), UnusedDefault', PlanLive',
             FaultOnlyAfterClose'
      PROVE  StackInv'
  <2>1. mLayers' \in Seq(Layers)
    BY <1>3 DEF TypeOK
  <2> QED BY <1>3, <2>1, StackShape DEF StackSortedByZ, StackLive
<1>4. ASSUME NEW l \in Layers, CreateLayer(l), ~ fault
      PROVE  StackInv'
  <2>1. l \notin Elems(mLayers) /\ zorder[l] = DefaultZ
    BY <1>4 DEF CreateLayer, StackLive, TypeOK, UnusedDefault
  <2>2. PICK k \in 0 .. Len(mLayers) :
          IsUpperBound(mLayers, DefaultZ, k) /\ mLayers' = InsertAfter(mLayers, k, l)
    BY <1>4 DEF CreateLayer, Emplace
  <2>3. IsStack(InsertAfter(mLayers, k, l), zorder, mLayersMap \cup {l})
    BY <1>1, <1>2, <2>1, <2>2, EmplaceStack DEF IsUpperBound
  <2>4. IsStack(mLayers', zorder', mLayersMap')
    BY <1>4, <2>2, <2>3 DEF CreateLayer
  <2>5. TypeOK'
    BY <1>4, <2>4 DEF CreateLayer, TypeOK, IsStack, layerVars, prepVars, frameVars
  <2>6. UnusedDefault' /\ PlanLive' /\ FaultOnlyAfterClose'
    BY <1>4 DEF CreateLayer, UnusedDefault, PlanLive, FaultOnlyAfterClose, prepVars
  <2> QED BY <1>3, <2>4, <2>5, <2>6
<1>5. ASSUME NEW l \in Layers, CloseLayer(l), ~ fault
      PROVE  StackInv'
  <2>1. PICK lo \in 0 .. Len(mLayers), hi \in 0 .. Len(mLayers) :
          /\ IsEqualRange(mLayers, zorder[l], lo, hi)
          /\ mLayers' = Cut(mLayers, lo, hi)
    BY <1>5 DEF CloseLayer
  <2>2. hi \in lo .. Len(mLayers)
    BY <1>1, <2>1 DEF IsEqualRange
  <2>3. /\ IsStack(mLayers', zorder, mLayersMap)
        /\ \A m \in Elems(mLayers') : \E i \in 1 .. Len(mLayers) :
             i \notin lo + 1 .. hi /\ mLayers[i] = m
    BY <1>1, <1>2, <2>1, <2>2, CutStack
  <2>4. \A m \in Elems(mLayers') : m \in mLayersMap /\ m # l
    BY <2>1, <2>3 DEF IsEqualRange, IsStack
  <2>5. IsStack(mLayers', zorder', mLayersMap')
    <3>1. \A m \in Elems(mLayers') : zorder'[m] = zorder[m] /\ m \in mLayersMap'
      BY <1>1, <1>5, <2>4 DEF CloseLayer, Forget
    <3> QED BY <2>3, <3>1, StackAgree
  <2>6. TypeOK'
    <3>1. /\ zorder' \in [Layers -> 0 .. DefaultZ]
          /\ compType' \in [Layers -> CompTypes]
          /\ hasBuffer' \in [Layers -> BOOLEAN]
      BY <1>1, <1>5 DEF CloseLayer, Forget, TypeOK, CompTypes
    <3> QED BY <1>5, <2>5, <3>1 DEF CloseLayer, TypeOK, IsStack, prepVars, frameVars
  <2>7. UnusedDefault' /\ PlanLive' /\ FaultOnlyAfterClose'
    BY <1>1, <1>5 DEF CloseLayer, Forget, UnusedDefault, PlanLive, FaultOnlyAfterClose
  <2> QED BY <1>3, <2>5, <2>6, <2>7
<1>6. ASSUME NEW l \in Layers, NEW z \in ZOrders, SetLayerZorder(l, z), ~ fault
      PROVE  StackInv'
  <2> DEFINE w == [zorder EXCEPT ![l] = z]
  <2>1. /\ z \in 0 .. DefaultZ /\ z \in Nat
        /\ w \in [Layers -> Nat] /\ w \in [Layers -> 0 .. DefaultZ]
        /\ w[l] = z /\ \A m \in Layers : m # l => w[m] = zorder[m]
    BY <1>1, ZAssumption DEF TypeOK
  <2> HIDE DEF w
  \* The stack the pointer is put back into.
  <2>2. PICK rest : /\ IsStack(rest, zorder, mLayersMap) /\ l \notin Elems(rest)
                    /\ Emplace(rest, l, z)
    <3>1. CASE l \notin Elems(mLayers) /\ Emplace(mLayers, l, z)
      BY <3>1, <1>2
    <3>2. CASE \E i \in 1 .. Len(mLayers) :
                 mLayers[i] = l /\ Emplace(Cut(mLayers, i - 1, i), l, z)
      <4>1. PICK i \in 1 .. Len(mLayers) :
              mLayers[i] = l /\ Emplace(Cut(mLayers, i - 1, i), l, z)
        BY <3>2
      <4>2. i - 1 \in 0 .. Len(mLayers) /\ i \in i - 1 .. Len(mLayers) /\ i \in (i - 1) + 1 .. i
        BY <1>1
      <4>3. /\ IsStack(Cut(mLayers, i - 1, i), zorder, mLayersMap)
            /\ l \notin Elems(Cut(mLayers, i - 1, i))
        BY <1>1, <1>2, <4>1, <4>2, CutStack
      <4> QED BY <4>1, <4>3
    <3> QED BY <1>6, <3>1, <3>2 DEF SetLayerZorder
  <2>3. PICK k \in 0 .. Len(rest) : IsUpperBound(rest, z, k) /\ mLayers' = InsertAfter(rest, k, l)
    BY <2>2 DEF Emplace
  <2>4. \A m \in Elems(rest) : w[m] = zorder[m]
    BY <1>1, <2>1, <2>2 DEF IsStack
  <2>5. IsStack(InsertAfter(rest, k, l), w, mLayersMap \cup {l})
    BY <1>1, <2>1, <2>2, <2>3, <2>4, EmplaceStack DEF IsUpperBound
  <2>6. zorder' = w /\ mLayersMap' = mLayersMap \cup {l}
    BY <1>6 DEF SetLayerZorder, w
  <2>7. IsStack(mLayers', zorder', mLayersMap')
    BY <2>3, <2>5, <2>6
  <2>8. TypeOK'
    BY <1>6, <2>1, <2>6, <2>7 DEF SetLayerZorder, TypeOK, IsStack, layerVars, prepVars, frameVars
  <2>9. UnusedDefault' /\ PlanLive' /\ FaultOnlyAfterClose'
    BY <1>6, <1>1, <2>1, <2>6
    DEF SetLayerZorder, UnusedDefault, PlanLive, FaultOnlyAfterClose, TypeOK, prepVars
  <2> QED BY <1>3, <2>7, <2>8, <2>9
\* The other operations leave the multiset alone.
<1>7. ASSUME UNCHANGED stackVars, TypeOK', PlanLive', FaultOnlyAfterClose'
      PROVE  StackInv'
  <2>1. IsStack(mLayers', zorder', mLayersMap') /\ UnusedDefault'
    BY <1>2, <1>7 DEF stackVars, UnusedDefault
  <2> QED BY <1>3, <1>7, <2>1
<1>8. ASSUME NEW l \in Layers, SetLayerBuffer(l)
      PROVE  StackInv'
  BY <1>7, <1>8 DEF SetLayerBuffer, TypeOK, PlanLive, FaultOnlyAfterClose, stackVars, prepVars, frameVars
<1>9. ASSUME NEW l \in Layers, NEW t \in AskedTypes, SetLayerCompositionType(l, t)
      PROVE  StackInv'
  <2>1. compType' \in [Layers -> CompTypes]
    BY <1>9, TypesAssumption DEF SetLayerCompositionType, TypeOK
  <2> QED
    BY <1>7, <1>9, <2>1 DEF SetLayerCompositionType, TypeOK, PlanLive, FaultOnlyAfterClose,
                            stackVars, prepVars, frameVars
<1>10. ASSUME NEW b \in ClientBuffers, SetDisplayClientBuffer(b)
       PROVE  StackInv'
  BY <1>7, <1>10 DEF SetDisplayClientBuffer, TypeOK, PlanLive, FaultOnlyAfterClose,
                     stackVars, layerVars, prepVars
<1>11. CASE PrepareDisplayLayers /\ ~ fault
  <2>1. compType' \in [Layers -> CompTypes]
    BY <1>11 DEF PrepareDisplayLayers, Select, CompTypes, TypeOK
  <2>2. PlanLive'
    BY <1>11 DEF PrepareDisplayLayers, PlanLive, StackLive, stackVars
  <2> QED
    BY <1>7, <1>11, <2>1, <2>2 DEF PrepareDisplayLayers, TypeOK, FaultOnlyAfterClose,
                                   stackVars, frameVars
<1>12. CASE GetDisplayCompChange
  BY <1>7, <1>12 DEF GetDisplayCompChange, TypeOK, PlanLive, FaultOnlyAfterClose,
                     stackVars, layerVars, prepVars, frameVars
<1>13. CASE Commit
  <2>1. /\ front' \in {front, clientBuffer, NoBuffer} /\ clientBuffer' = clientBuffer
        /\ failed' \in BOOLEAN
    BY <1>13, ApplyShows DEF Commit, TypeOK
  <2>2. whole' \in [ClientBuffers -> BOOLEAN] /\ front' \in ClientBuffers \cup {NoBuffer}
    BY <1>13, <2>1 DEF Commit, TypeOK
  <2> QED
    BY <1>7, <1>13, <2>1, <2>2 DEF Commit, TypeOK, PlanLive, FaultOnlyAfterClose,
                             stackVars, layerVars, prepVars
<1>14. CASE CommitFreed
  <2>1. closed
    BY <1>14 DEF CommitFreed, PlanLive, Elems, TypeOK
  <2> QED
    BY <1>7, <1>14, <2>1 DEF CommitFreed, TypeOK, PlanLive, FaultOnlyAfterClose,
                             stackVars, layerVars, prepVars, frameVars
<1>15. CASE UNCHANGED vars
  BY <1>7, <1>15 DEF vars, TypeOK, PlanLive, FaultOnlyAfterClose,
                     stackVars, layerVars, prepVars, frameVars
<1> QED
  BY <1>4, <1>5, <1>6, <1>8, <1>9, <1>10, <1>11, <1>12, <1>13, <1>14, <1>15 DEF Next

-----------------------------------------------------------------------------
(* The theorems.                                                           *)

LEMMA StackInvariant == Spec => []StackInv
  BY InitStackInv, NextStackInv, PTL DEF Spec

\* Every variable keeps its type, whatever the client calls.
THEOREM TypeCorrect == Spec => []TypeOK
<1>1. StackInv => TypeOK
  BY DEF StackInv
<1> QED BY <1>1, StackInvariant, PTL

\* The multiset stays ordered although CloseLayer erases by key and SetLayerZorder
\* rewrites the key of an element (hdi_display.cpp:65-88, 115-124); and it never holds a
\* freed layer, nor one twice.
THEOREM StackStaysWellFormed == Spec => []StackWellFormed
<1>1. StackInv => StackWellFormed
  BY DEF StackInv, StackWellFormed
<1> QED BY <1>1, StackInvariant, PTL

\* Freed memory is read only after a CloseLayer that no Prepare followed.
THEOREM FaultNeedsClose == Spec => []FaultOnlyAfterClose
<1>1. StackInv => FaultOnlyAfterClose
  BY DEF StackInv
<1> QED BY <1>1, StackInvariant, PTL

\* The display's layers are in order and alive when they are read, but for a closed one.
THEOREM StackReadAlive == Spec => []StackIsReadAlive
  BY StackStaysWellFormed, FaultNeedsClose, PTL DEF StackIsReadAlive

\* What Prepare leaves behind until a layer is touched.
FreshPlan ==
  fresh => mCompLayers = mLayers /\ \A l \in Elems(mLayers) : compType[l] # "CLIENT"

LEMMA FreshPlanStep == StackInv /\ FreshPlan /\ [Next]_vars => FreshPlan'
<1> SUFFICES ASSUME StackInv, FreshPlan, [Next]_vars PROVE FreshPlan'
  OBVIOUS
<1>1. CASE UNCHANGED <<mLayers, mCompLayers, compType, fresh>>
  BY <1>1 DEF FreshPlan, Elems
<1>2. CASE PrepareDisplayLayers
  <2>1. /\ mCompLayers' = mLayers /\ mLayers' = mLayers
        /\ compType' = [l \in Layers |-> IF l \in Elems(mLayers) THEN Select(l) ELSE compType[l]]
    BY <1>2 DEF PrepareDisplayLayers, stackVars
  <2>2. Elems(mLayers') = Elems(mLayers)
    BY <2>1
  <2>3. ASSUME NEW l \in Elems(mLayers) PROVE compType'[l] # "CLIENT"
    <3>1. l \in Layers
      BY DEF StackInv, StackLive, TypeOK
    <3>2. compType'[l] = Select(l)
      BY <2>1, <3>1
    <3> QED
      BY <3>2 DEF Select
  <2> QED
    BY <2>1, <2>2, <2>3 DEF FreshPlan
<1>3. CASE ~ fresh'
  BY <1>3 DEF FreshPlan
<1> QED
  BY <1>1, <1>2, <1>3
     DEF Next, vars, stackVars, layerVars, prepVars, frameVars, CreateLayer, CloseLayer, SetLayerBuffer,
         SetLayerZorder, SetLayerCompositionType, SetDisplayClientBuffer, GetDisplayCompChange, Commit, CommitFreed

\* What Commit draws, while no layer was touched since Prepare, is the display's stack from the
\* bottom up, with nothing left to the client (hdi_composer.cpp, hdi_gfx_composition.cpp).
THEOREM FreshPlanDrawsTheStack == Spec => []FreshPlanIsStack
<1>1. Init => FreshPlan
  BY DEF Init, FreshPlan
<1>2. StackInv /\ FreshPlan => FreshPlanIsStack
  BY DEF StackInv, StackSortedByZ, FreshPlan, FreshPlanIsStack
<1> QED
  BY <1>1, <1>2, FreshPlanStep, StackInvariant, PTL DEF Spec

LEMMA DropStep ==
  ASSUME StackInv, [Next]_vars, NEW l \in Elems(mLayers), l \in mLayersMap', l \notin Elems(mLayers')
  PROVE  \E m \in mLayersMap \ mLayersMap' : zorder[m] = zorder[l]
<1> USE DEF StackInv
<1>1. /\ mLayers \in Seq(Layers) /\ Len(mLayers) \in Nat
      /\ zorder \in [Layers -> Nat] /\ mLayersMap \subseteq Layers
      /\ l \in Layers
  BY ZAssumption, LenProperties, ElementOfSeq DEF TypeOK, StackLive
<1>2. PICK p \in 1 .. Len(mLayers) : mLayers[p] = l
  BY DEF Elems
<1>3. ASSUME NEW s, s \in Seq(Layers), NEW x \in Layers, NEW k \in 0 .. Len(s),
             mLayers' = InsertAfter(s, k, x), l = x \/ l \in Elems(s)
      PROVE  FALSE
  BY <1>3, InsertAfterKeeps
<1>4. ASSUME NEW lo \in 0 .. Len(mLayers), NEW hi \in lo .. Len(mLayers), p \notin lo + 1 .. hi
      PROVE  l \in Elems(Cut(mLayers, lo, hi))
  BY <1>1, <1>2, <1>4, CutKeeps
<1>5. CASE UNCHANGED mLayers
  BY <1>5
<1>6. ASSUME NEW c \in Layers, CreateLayer(c)
      PROVE  FALSE
  <2>1. PICK k \in 0 .. Len(mLayers) : mLayers' = InsertAfter(mLayers, k, c)
    BY <1>6 DEF CreateLayer, Emplace
  <2> QED BY <1>1, <1>3, <2>1
<1>7. ASSUME NEW c \in Layers, NEW z \in ZOrders, SetLayerZorder(c, z)
      PROVE  FALSE
  <2>1. CASE Emplace(mLayers, c, z)
    <3>1. PICK k \in 0 .. Len(mLayers) : mLayers' = InsertAfter(mLayers, k, c)
      BY <2>1 DEF Emplace
    <3> QED BY <1>1, <1>3, <3>1
  <2>2. ASSUME NEW i \in 1 .. Len(mLayers), mLayers[i] = c, Emplace(Cut(mLayers, i - 1, i), c, z)
        PROVE  FALSE
    <3>1. i - 1 \in 0 .. Len(mLayers) /\ i \in i - 1 .. Len(mLayers) /\ (i - 1) + 1 .. i = {i}
      BY <1>1
    <3>2. PICK k \in 0 .. Len(Cut(mLayers, i - 1, i)) :
            mLayers' = InsertAfter(Cut(mLayers, i - 1, i), k, c)
      BY <2>2 DEF Emplace
    <3>3. Cut(mLayers, i - 1, i) \in Seq(Layers)
      BY <1>1, <3>1, CutProps
    <3>4. l = c \/ l \in Elems(Cut(mLayers, i - 1, i))
      BY <1>2, <1>4, <2>2, <3>1
    <3> QED BY <1>3, <3>2, <3>3, <3>4
  <2> QED BY <1>7, <2>1, <2>2 DEF SetLayerZorder
<1>8. ASSUME NEW c \in Layers, CloseLayer(c)
      PROVE  c \in mLayersMap \ mLayersMap' /\ zorder[c] = zorder[l]
  <2>1. PICK lo \in 0 .. Len(mLayers), hi \in 0 .. Len(mLayers) :
          IsEqualRange(mLayers, zorder[c], lo, hi) /\ mLayers' = Cut(mLayers, lo, hi)
    BY <1>8 DEF CloseLayer
  <2>2. hi \in lo .. Len(mLayers)
    BY <1>1, <2>1 DEF IsEqualRange
  <2>3. p \in lo + 1 .. hi
    BY <1>4, <2>1, <2>2
  <2>4. zorder[c] = zorder[l]
    BY <1>2, <2>1, <2>3 DEF IsEqualRange
  <2> QED BY <1>8, <2>4 DEF CloseLayer
<1> QED
  BY <1>5, <1>6, <1>7, <1>8
  DEF Next, SetLayerBuffer, SetLayerCompositionType, SetDisplayClientBuffer, PrepareDisplayLayers,
      GetDisplayCompChange, Commit, CommitFreed, stackVars, vars

\* A live layer disappears from the display's stack only with a sibling of its z-order.
THEOREM NoLayerVanishes == Spec => DroppedOnlyWithSibling
<1>1. StackInv /\ [Next]_vars =>
        [\A l \in Elems(mLayers) : l \in mLayersMap' /\ l \notin Elems(mLayers') =>
           \E m \in mLayersMap \ mLayersMap' : zorder[m] = zorder[l]]_vars
  BY DropStep
<1> QED BY <1>1, StackInvariant, PTL DEF Spec, DroppedOnlyWithSibling

LEMMA TornStep ==
  ASSUME [Next]_vars, front # NoBuffer, whole[front], front' # NoBuffer, ~ whole'[front'], StackInv
  PROVE  front = clientBuffer
<1>1. CASE Commit
  <2>1. PICK n \in 0 .. Len(mCompLayers) :
          /\ whole' = [whole EXCEPT ![clientBuffer] = (n = Len(mCompLayers))]
          /\ IF n = Len(mCompLayers) THEN Apply ELSE UNCHANGED <<clientBuffer, front, failed>>
    BY <1>1 DEF Commit
  <2>2. CASE n = Len(mCompLayers)
    <3>1. front' \in {front, clientBuffer}
      BY <2>1, <2>2, ApplyShows DEF StackInv, TypeOK
    <3> QED
      BY <2>1, <2>2, <3>1 DEF StackInv, TypeOK
  <2>3. CASE n # Len(mCompLayers)
    BY <2>1, <2>3 DEF StackInv, TypeOK
  <2> QED
    BY <2>2, <2>3
<1> QED
  BY <1>1 DEF StackInv, TypeOK, Next, CreateLayer, CloseLayer, SetLayerZorder, SetLayerBuffer,
         SetLayerCompositionType, SetDisplayClientBuffer, PrepareDisplayLayers,
         GetDisplayCompChange, CommitFreed, frameVars, vars

\* A half-done composition reaches the screen only in the buffer already shown.
THEOREM NoTornFrame == Spec => TornOnlyInPlace
<1>1. StackInv /\ [Next]_vars =>
        [front # NoBuffer /\ whole[front] /\ front' # NoBuffer /\ ~ whole'[front'] =>
           front = clientBuffer]_vars
  BY TornStep
<1> QED BY <1>1, StackInvariant, PTL DEF Spec, TornOnlyInPlace

-----------------------------------------------------------------------------
(* The descriptors of the layers (Fences).                                 *)

\* A place in a layer that a descriptor can be in, and what is in each.
Places == FenceLayers \X {"buffer", "acquire", "release"}
Held == [p \in Places |-> IF p[2] = "buffer" THEN bufferFd[p[1]]
                          ELSE IF p[2] = "acquire" THEN acquireFence[p[1]] ELSE releaseFence[p[1]]]
Returned == <<ClientLayer, "release">>

\* The open descriptors of table f are those in the places h, the client's, c, and the lost,
\* x, each once; and the fence to return is the one of frame r.
Balanced(f, h, c, x, r) ==
  /\ f \in [Fds -> Int] /\ h \in [Places -> Fds \cup {NoFd}] /\ c \in SUBSET Fds /\ x \in SUBSET Fds
  /\ c \cap x = {} /\ \A p \in Places : h[p] \notin c \cup x
  /\ \A p, q \in Places : h[p] # NoFd /\ h[p] = h[q] => p = q
  /\ \A d \in Fds : f[d] # Closed <=> d \in c \cup x \/ \E p \in Places : h[p] = d
  /\ h[Returned] # NoFd => f[h[Returned]] = r

LEMMA ReturnedIsPlace == Returned \in Places
  BY DEF Returned, Places, FenceLayers

LEMMA Least == ASSUME NEW T \in SUBSET Nat, T # {} PROVE \E n \in T : \A m \in T : n <= m
<1>1. PICK n \in T : \A m \in T : <<m, n>> \notin OpToRel(<, Nat)
  BY WFMin, NatLessThanWellFounded
<1>2. \A m \in T : ~ (m < n)
  BY <1>1 DEF OpToRel
<1>3. \A m \in T : m \in Nat /\ n \in Nat
  OBVIOUS
<1> QED
  BY <1>2, <1>3

\* HdiFd's assignment closes what was there, and nothing else.
LEMMA AssignIs ==
  ASSUME NEW f \in [Fds -> Int], NEW old
  PROVE  /\ HdiFdAssign(f, old) \in [Fds -> Int]
         /\ \A e \in Fds : HdiFdAssign(f, old)[e] = IF e = old THEN Closed ELSE f[e]
  BY DEF HdiFdAssign, Closed

\* A new descriptor is one that was closed; there is none only if every one is open.
LEMMA NewIs ==
  ASSUME NEW f \in [Fds -> Int], NEW what \in Int
  PROVE  \/ New(f, what) = [table |-> f, fd |-> NoFd] /\ (what = Closed \/ OpenFds(f) = Fds)
         \/ \E d \in Fds : /\ what # Closed /\ f[d] = Closed
                           /\ New(f, what) = [table |-> [f EXCEPT ![d] = what], fd |-> d]
<1>1. CASE what = Closed \/ OpenFds(f) = Fds
  BY <1>1 DEF New
<1>2. CASE ~ (what = Closed \/ OpenFds(f) = Fds)
  <2> DEFINE Free == Fds \ OpenFds(f)
             d == CHOOSE n \in Free : \A m \in Free : n <= m
  <2>1. Free \in SUBSET Nat /\ Free # {}
    BY <1>2 DEF Fds, OpenFds
  <2>2. d \in Free
    <3>1. \E n \in Free : \A m \in Free : n <= m
      BY <2>1, Least
    <3> QED
      BY <3>1
  <2>3. New(f, what) = [table |-> [f EXCEPT ![d] = what], fd |-> d]
    BY <1>2 DEF New
  <2>4. d \in Fds /\ f[d] = Closed
    BY <2>2 DEF OpenFds
  <2> HIDE DEF d
  <2> QED
    BY <1>2, <2>3, <2>4
<1> QED
  BY <1>1, <1>2

-----------------------------------------------------------------------------
(* What keeps a table balanced.                                            *)

LEMMA Give ==
  ASSUME NEW f, NEW h, NEW c, NEW x, NEW r, Balanced(f, h, c, x, r),
         NEW d \in Fds, NEW what \in Int, what # Closed, f[d] = Closed
  PROVE  Balanced([f EXCEPT ![d] = what], h, c \cup {d}, x, r)
<1>1. d \notin c \cup x /\ \A p \in Places : h[p] # d
  BY DEF Balanced
<1>2. Returned \in Places
  BY ReturnedIsPlace
<1> QED
  BY <1>1, <1>2 DEF Balanced

LEMMA Empty ==
  ASSUME NEW f, NEW h, NEW c, NEW x, NEW r, Balanced(f, h, c, x, r), NEW p \in Places,
         NEW s, p = Returned \/ s = r
  PROVE  Balanced(HdiFdAssign(f, h[p]), [h EXCEPT ![p] = NoFd], c, x, s)
<1> DEFINE g == HdiFdAssign(f, h[p])
           k == [h EXCEPT ![p] = NoFd]
<1>1. g \in [Fds -> Int] /\ \A e \in Fds : g[e] = IF e = h[p] THEN Closed ELSE f[e]
  BY AssignIs DEF Balanced
<1>2. k \in [Places -> Fds \cup {NoFd}] /\ \A q \in Places : k[q] = IF q = p THEN NoFd ELSE h[q]
  BY DEF Balanced
<1>3. \A e \in Fds : NoFd # e
  BY DEF NoFd, Fds
<1>4. Returned \in Places
  BY ReturnedIsPlace
<1> HIDE DEF g, k
<1>5. \A d \in Fds : g[d] # Closed <=> d \in c \cup x \/ \E q \in Places : k[q] = d
  BY <1>1, <1>2, <1>3 DEF Balanced
<1>6. \A q \in Places : k[q] \notin c \cup x
  BY <1>2, <1>3 DEF Balanced
<1>7. \A q, t \in Places : k[q] # NoFd /\ k[q] = k[t] => q = t
  BY <1>2 DEF Balanced
<1>8. k[Returned] # NoFd => g[k[Returned]] = s
  BY <1>1, <1>2, <1>3, <1>4 DEF Balanced
<1> QED
  BY <1>1, <1>2, <1>5, <1>6, <1>7, <1>8 DEF Balanced, g, k

LEMMA Close ==
  ASSUME NEW f, NEW h, NEW c, NEW x, NEW r, Balanced(f, h, c, x, r), NEW d \in c
  PROVE  Balanced(HdiFdAssign(f, d), h, c \ {d}, x, r)
<1>1. /\ HdiFdAssign(f, d) \in [Fds -> Int]
      /\ \A e \in Fds : HdiFdAssign(f, d)[e] = IF e = d THEN Closed ELSE f[e]
  BY AssignIs DEF Balanced
<1>2. Returned \in Places /\ d \notin x /\ \A p \in Places : h[p] # d
  BY ReturnedIsPlace DEF Balanced
<1> QED
  BY <1>1, <1>2 DEF Balanced

LEMMA Lose ==
  ASSUME NEW f, NEW h, NEW c, NEW x, NEW r, Balanced(f, h, c, x, r), NEW d \in c
  PROVE  Balanced(f, h, c \ {d}, x \cup {d}, r)
  BY DEF Balanced

LEMMA Move ==
  ASSUME NEW f, NEW h, NEW c, NEW x, NEW r, Balanced(f, h, c, x, r), NEW p \in Places, h[p] = NoFd,
         NEW d \in c, NEW s, IF p = Returned THEN f[d] = s ELSE r = s
  PROVE  Balanced(f, [h EXCEPT ![p] = d], c \ {d}, x, s)
<1> DEFINE k == [h EXCEPT ![p] = d]
<1>1. d \in Fds /\ d \notin x /\ \A q \in Places : h[q] # d
  BY DEF Balanced
<1>2. k \in [Places -> Fds \cup {NoFd}] /\ \A q \in Places : k[q] = IF q = p THEN d ELSE h[q]
  BY <1>1 DEF Balanced
<1>3. Returned \in Places
  BY ReturnedIsPlace
<1>4. \A e \in Fds : NoFd # e
  BY DEF NoFd, Fds
<1> HIDE DEF k
<1>5. \A e \in Fds : f[e] # Closed <=> e \in (c \ {d}) \cup x \/ \E q \in Places : k[q] = e
  BY <1>1, <1>2, <1>4 DEF Balanced
<1>6. \A q \in Places : k[q] \notin (c \ {d}) \cup x
  BY <1>1, <1>2 DEF Balanced
<1>7. \A q, t \in Places : k[q] # NoFd /\ k[q] = k[t] => q = t
  BY <1>1, <1>2 DEF Balanced
<1>8. k[Returned] # NoFd => f[k[Returned]] = s
  BY <1>2, <1>3 DEF Balanced
<1> QED
  BY <1>1, <1>2, <1>5, <1>6, <1>7, <1>8 DEF Balanced, k

-----------------------------------------------------------------------------
(* The steps.                                                              *)

FenceTyped ==
  /\ {bufferFd, acquireFence, releaseFence} \subseteq [FenceLayers -> Fds \cup {NoFd}]
  /\ layersAlive \in SUBSET AppLayers /\ shown \in Nat

\* The client layer has the fence of the last frame, if there was one, and it is the only one.
ReleaseInv ==
  /\ releaseFence[ClientLayer] = NoFd => shown = 0
  /\ \A l \in AppLayers : releaseFence[l] = NoFd

FenceInv == FenceTyped /\ ReleaseInv /\ Balanced(file, Held, theirs, lost, shown) /\ CommitTellsLastFrame

\* What is in the places of a layer.
LEMMA HeldIs ==
  ASSUME FenceTyped
  PROVE  /\ Held \in [Places -> Fds \cup {NoFd}]
         /\ \A l \in FenceLayers :
              /\ {<<l, "buffer">>, <<l, "acquire">>, <<l, "release">>} \subseteq Places
              /\ Held[<<l, "buffer">>] = bufferFd[l] /\ Held[<<l, "acquire">>] = acquireFence[l]
              /\ Held[<<l, "release">>] = releaseFence[l]
  BY DEF FenceTyped, Held, Places

LEMMA FenceLayersAre == ClientLayer \in FenceLayers /\ AppLayers \subseteq FenceLayers
  BY DEF FenceLayers

LEMMA FenceInitInv == FencesInit => FenceInv
<1> SUFFICES ASSUME FencesInit PROVE FenceInv
  OBVIOUS
<1>0. {0, 1, 2} \subseteq Fds /\ NoFd \notin Fds /\ Closed \notin {ClientFile, 1}
  BY FencesAssumption DEF Fds, NoFd, Closed, ClientFile
<1>1. FenceTyped
  BY <1>0 DEF FencesInit, FenceTyped
<1>2. ReleaseInv /\ CommitTellsLastFrame
  BY <1>0, FencesAssumption, FenceLayersAre DEF FencesInit, ReleaseInv, CommitTellsLastFrame
<1>3. Balanced(file, Held, theirs, lost, shown)
  <2>1. Held \in [Places -> Fds \cup {NoFd}]
    BY <1>1, HeldIs
  <2>2. CASE \A l \in FenceLayers : bufferFd[l] = NoFd /\ releaseFence[l] = NoFd
    <3>1. \A p \in Places : Held[p] = NoFd
      BY <2>2 DEF FencesInit, Held, Places
    <3>2. theirs = {} /\ lost = {} /\ file = [d \in Fds |-> Closed]
      BY <1>0, <2>2, FenceLayersAre DEF FencesInit
    <3> HIDE DEF Held
    <3> QED
      BY <1>0, <2>1, <3>1, <3>2, ReturnedIsPlace DEF Balanced, NoFd, Closed
  <2>3. ASSUME NEW taken \in BOOLEAN, lost = {0}, shown = (IF taken THEN 1 ELSE 0),
               file = [d \in Fds |-> IF d \in {0, 1} THEN ClientFile ELSE IF d = 2 /\ taken THEN 1 ELSE Closed],
               bufferFd = [l \in FenceLayers |-> IF l = ClientLayer THEN 1 ELSE NoFd],
               releaseFence = [l \in FenceLayers |-> IF l = ClientLayer /\ taken THEN 2 ELSE NoFd]
        PROVE  Balanced(file, Held, theirs, lost, shown)
    <3>1. \A p \in Places : Held[p] = IF p = <<ClientLayer, "buffer">> THEN 1
                                      ELSE IF p = Returned /\ taken THEN 2 ELSE NoFd
      <4> SUFFICES ASSUME NEW p \in Places
                   PROVE  Held[p] = IF p = <<ClientLayer, "buffer">> THEN 1 ELSE IF p = Returned /\ taken THEN 2 ELSE NoFd
        OBVIOUS
      <4>1. PICK l \in FenceLayers, k \in {"buffer", "acquire", "release"} : p = <<l, k>>
        BY DEF Places
      <4>2. acquireFence[l] = NoFd /\ bufferFd[l] = (IF l = ClientLayer THEN 1 ELSE NoFd)
            /\ releaseFence[l] = (IF l = ClientLayer /\ taken THEN 2 ELSE NoFd)
        BY <2>3 DEF FencesInit
      <4>3. Held[p] = IF k = "buffer" THEN bufferFd[l] ELSE IF k = "acquire" THEN acquireFence[l] ELSE releaseFence[l]
        BY <1>1, <4>1, HeldIs
      <4> QED
        BY <4>1, <4>2, <4>3 DEF Returned
    <3>2. <<ClientLayer, "buffer">> \in Places /\ Returned \in Places /\ <<ClientLayer, "buffer">> # Returned
      BY FenceLayersAre DEF Places, Returned
    <3> HIDE DEF Held
    <3> QED
      BY <1>0, <2>1, <2>3, <3>1, <3>2 DEF FencesInit, Balanced, NoFd, Closed, ClientFile
  <2> QED
    BY <2>2, <2>3 DEF FencesInit
<1> QED
  BY <1>1, <1>2, <1>3 DEF FenceInv

\* A fence is duplicated for the client, or no number is left for it.
LEMMA Duplicated ==
  ASSUME NEW f, NEW h, NEW c, NEW x, NEW r, Balanced(f, h, c, x, r), NEW what \in Int
  PROVE  LET new == New(f, what) IN
         /\ Balanced(new.table, h, c \cup ({new.fd} \ {NoFd}), x, r)
         /\ new.fd = NoFd \/ (new.fd \in Fds \ c /\ new.table[new.fd] = what)
         /\ what = Closed => new.fd = NoFd
<1> DEFINE new == New(f, what)
<1>1. f \in [Fds -> Int] /\ c \in SUBSET Fds
  BY DEF Balanced
<1>2. CASE new = [table |-> f, fd |-> NoFd]
  <2>1. new.table = f /\ new.fd = NoFd
    BY <1>2
  <2>2. c \cup ({new.fd} \ {NoFd}) = c
    BY <2>1
  <2> HIDE DEF new
  <2>3. Balanced(new.table, h, c \cup ({new.fd} \ {NoFd}), x, r)
    BY <2>1, <2>2
  <2> QED
    BY <2>1, <2>3 DEF new
<1>3. ASSUME NEW d \in Fds, what # Closed, f[d] = Closed,
             new = [table |-> [f EXCEPT ![d] = what], fd |-> d]
      PROVE  /\ Balanced(new.table, h, c \cup ({new.fd} \ {NoFd}), x, r)
             /\ new.fd = NoFd \/ (new.fd \in Fds \ c /\ new.table[new.fd] = what)
             /\ what = Closed => new.fd = NoFd
  <2>1. Balanced([f EXCEPT ![d] = what], h, c \cup {d}, x, r)
    BY <1>3, Give
  <2>2. {d} \ {NoFd} = {d}
    BY DEF Fds, NoFd
  <2>3. d \notin c
    BY <1>3 DEF Balanced
  <2> QED
    BY <1>1, <1>3, <2>1, <2>2, <2>3
<1> HIDE DEF new
<1>4. \/ new = [table |-> f, fd |-> NoFd]
      \/ \E d \in Fds : /\ what # Closed /\ f[d] = Closed
                        /\ new = [table |-> [f EXCEPT ![d] = what], fd |-> d]
  BY <1>1, NewIs DEF new
<1> QED
  BY <1>2, <1>3, <1>4 DEF new

LEMMA PlaceIs ==
  ASSUME NEW p \in Places
  PROVE  \E l \in FenceLayers : p \in {<<l, "buffer">>, <<l, "acquire">>, <<l, "release">>}
<1>1. PICK l \in FenceLayers, k \in {"buffer", "acquire", "release"} : p = <<l, k>>
  BY DEF Places
<1> QED
  BY <1>1

\* HeldIs, after a step.
LEMMA HeldNext ==
  ASSUME FenceTyped'
  PROVE  /\ Held' \in [Places -> Fds \cup {NoFd}]
         /\ \A l \in FenceLayers :
              /\ Held'[<<l, "buffer">>] = bufferFd'[l] /\ Held'[<<l, "acquire">>] = acquireFence'[l]
              /\ Held'[<<l, "release">>] = releaseFence'[l]
  BY DEF FenceTyped, Held, Places

\* One layer's descriptors change.
LEMMA HeldChanges ==
  ASSUME FenceTyped, FenceTyped', NEW l \in FenceLayers, NEW bf, NEW af, NEW rf,
         bufferFd' = [bufferFd EXCEPT ![l] = bf], acquireFence' = [acquireFence EXCEPT ![l] = af],
         releaseFence' = [releaseFence EXCEPT ![l] = rf]
  PROVE  /\ Held' \in [Places -> Fds \cup {NoFd}]
         /\ \A p \in Places : Held'[p] = IF p = <<l, "release">> THEN rf ELSE IF p = <<l, "acquire">> THEN af
                                         ELSE IF p = <<l, "buffer">> THEN bf ELSE Held[p]
<1>1. ASSUME NEW p \in Places
      PROVE  Held'[p] = IF p = <<l, "release">> THEN rf ELSE IF p = <<l, "acquire">> THEN af
                        ELSE IF p = <<l, "buffer">> THEN bf ELSE Held[p]
  <2>1. PICK m \in FenceLayers : p \in {<<m, "buffer">>, <<m, "acquire">>, <<m, "release">>}
    BY PlaceIs
  <2>2. bufferFd'[m] = (IF m = l THEN bf ELSE bufferFd[m])
        /\ acquireFence'[m] = (IF m = l THEN af ELSE acquireFence[m])
        /\ releaseFence'[m] = (IF m = l THEN rf ELSE releaseFence[m])
    BY DEF FenceTyped
  <2>3. CASE p = <<m, "buffer">>
    BY <2>2, <2>3, HeldIs, HeldNext
  <2>4. CASE p = <<m, "acquire">>
    BY <2>2, <2>4, HeldIs, HeldNext
  <2>5. CASE p = <<m, "release">>
    BY <2>2, <2>5, HeldIs, HeldNext
  <2> QED
    BY <2>1, <2>3, <2>4, <2>5
<1> QED
  BY <1>1, HeldNext

LEMMA DropFencesStep == ASSUME FenceInv, NEW l \in AppLayers, DropLayer(l) PROVE FenceInv'
<1> DEFINE b == <<l, "buffer">>
           a == <<l, "acquire">>
           r == <<l, "release">>
           h1 == [Held EXCEPT ![b] = NoFd]
           h2 == [h1 EXCEPT ![a] = NoFd]
           h3 == [h2 EXCEPT ![r] = NoFd]
           f1 == HdiFdAssign(file, bufferFd[l])
           f2 == HdiFdAssign(f1, acquireFence[l])
           f3 == HdiFdAssign(f2, releaseFence[l])
<1>1. FenceTyped /\ ReleaseInv /\ Balanced(file, Held, theirs, lost, shown) /\ CommitTellsLastFrame
  BY DEF FenceInv
<1>2. l \in FenceLayers /\ l # ClientLayer /\ ClientLayer \in FenceLayers
  BY FencesAssumption, FenceLayersAre
<1>3. FenceTyped'
  BY <1>1, <1>2 DEF FenceTyped, DropLayer
<1>4. {a, b, r} \subseteq Places /\ a # b /\ a # r /\ b # r /\ r # Returned /\ a # Returned /\ b # Returned
  BY <1>1, <1>2, HeldIs DEF Returned
<1>5. Held[b] = bufferFd[l] /\ h1[a] = acquireFence[l] /\ h2[r] = releaseFence[l]
  BY <1>1, <1>2, <1>4, HeldIs
<1>6. Held' = h3 /\ file' = f3
  <2>1. /\ bufferFd' = [bufferFd EXCEPT ![l] = NoFd]
        /\ acquireFence' = [acquireFence EXCEPT ![l] = NoFd]
        /\ releaseFence' = [releaseFence EXCEPT ![l] = NoFd]
        /\ file' = f3
    BY DEF DropLayer
  <2>2. Held' = h3
    <3>1. Held' \in [Places -> Fds \cup {NoFd}]
          /\ \A p \in Places : Held'[p] = IF p = r THEN NoFd ELSE IF p = a THEN NoFd
                                          ELSE IF p = b THEN NoFd ELSE Held[p]
      BY <1>1, <1>2, <1>3, <2>1, HeldChanges
    <3>2. Held \in [Places -> Fds \cup {NoFd}]
      BY <1>1, HeldIs
    <3> QED
      BY <1>4, <3>1, <3>2
  <2> QED
    BY <2>1, <2>2
<1> HIDE DEF b, a, r
<1>7. Balanced(f1, h1, theirs, lost, shown)
  BY <1>1, <1>4, <1>5, Empty
<1> HIDE DEF h1, f1
<1>8. Balanced(f2, h2, theirs, lost, shown)
  BY <1>4, <1>5, <1>7, Empty
<1> HIDE DEF h2, f2
<1>9. Balanced(f3, h3, theirs, lost, shown)
  BY <1>4, <1>5, <1>8, Empty
<1> HIDE DEF h3, f3
<1>10. UNCHANGED <<theirs, lost, shown, told, appFence>> /\ releaseFence' = [releaseFence EXCEPT ![l] = NoFd]
  BY DEF DropLayer
<1>11. Balanced(file, Held, theirs, lost, shown)'
  BY <1>6, <1>9, <1>10
<1>12. ReleaseInv' /\ CommitTellsLastFrame'
  BY <1>1, <1>2, <1>10 DEF FenceTyped, ReleaseInv, CommitTellsLastFrame
<1> QED
  BY <1>3, <1>11, <1>12 DEF FenceInv

\* A step that leaves the layers' descriptors alone leaves the places alone.
LEMMA HeldSame == ASSUME UNCHANGED <<bufferFd, acquireFence, releaseFence>> PROVE Held' = Held
  BY DEF Held

\* The client gets or closes descriptors; layers are created, or put into the composition.
LEMMA ClientStep ==
  ASSUME FenceInv, \/ ClientGetsFence \/ PrepareLayers \/ \E d \in Fds : ClientCloses(d) \/ LoseFence(d)
                   \/ \E l \in AppLayers : AddLayer(l)
  PROVE  FenceInv'
<1>1. FenceTyped /\ ReleaseInv /\ Balanced(file, Held, theirs, lost, shown) /\ CommitTellsLastFrame
  BY DEF FenceInv
<1>2. UNCHANGED <<bufferFd, acquireFence, releaseFence, shown, told, appFence>> /\ layersAlive' \in SUBSET AppLayers
  BY <1>1 DEF FenceTyped, ClientGetsFence, PrepareLayers, ClientCloses, LoseFence, AddLayer
<1>3. FenceTyped' /\ ReleaseInv' /\ CommitTellsLastFrame' /\ Held' = Held
  BY <1>1, <1>2, HeldSame DEF FenceTyped, ReleaseInv, CommitTellsLastFrame
<1>4. Balanced(file', Held, theirs', lost', shown)
  <2>1. CASE ClientGetsFence
    <3>1. ClientFile \in Int
      BY DEF ClientFile
    <3>2. LET new == New(file, ClientFile) IN
            /\ file' = new.table /\ theirs' = theirs \cup ({new.fd} \ {NoFd})
            /\ lost' = lost
      BY <2>1 DEF ClientGetsFence
    <3> QED
      BY <1>1, <3>1, <3>2, Duplicated
  <2>2. ASSUME NEW d \in Fds, ClientCloses(d) PROVE Balanced(file', Held, theirs', lost', shown)
    BY <1>1, <2>2, Close DEF ClientCloses
  <2>3. ASSUME NEW d \in Fds, LoseFence(d) PROVE Balanced(file', Held, theirs', lost', shown)
    BY <1>1, <2>3, Lose DEF LoseFence
  <2>4. CASE PrepareLayers \/ \E l \in AppLayers : AddLayer(l)
    BY <1>1, <2>4 DEF PrepareLayers, AddLayer
  <2> QED
    BY <2>1, <2>2, <2>3, <2>4
<1> QED
  BY <1>2, <1>3, <1>4 DEF FenceInv

\* A layer takes a descriptor of the client, or none, where it has none.
LEMMA MoveIfAny ==
  ASSUME NEW f, NEW h, NEW c, NEW x, NEW r, Balanced(f, h, c, x, r), NEW p \in Places, p # Returned,
         h[p] = NoFd, NEW d \in c \cup {NoFd}
  PROVE  Balanced(f, [h EXCEPT ![p] = d], c \ {d}, x, r)
<1>1. CASE d = NoFd
  <2>1. [h EXCEPT ![p] = d] = h
    BY <1>1 DEF Balanced
  <2>2. c \ {d} = c
    BY <1>1 DEF Balanced, Fds, NoFd
  <2> QED
    BY <2>1, <2>2
<1>2. CASE d \in c
  BY <1>2, Move
<1> QED
  BY <1>1, <1>2

LEMMA TakeStep ==
  ASSUME FenceInv, NEW l \in FenceLayers, NEW fence \in Fds \cup {NoFd}, TakeBuffer(l, fence)
  PROVE  FenceInv'
<1> DEFINE b == <<l, "buffer">>
           a == <<l, "acquire">>
           new == New(file, ClientFile)
           c0 == theirs \cup ({new.fd} \ {NoFd})
           h1 == [Held EXCEPT ![b] = NoFd]
           h2 == [h1 EXCEPT ![a] = NoFd]
           h3 == [h2 EXCEPT ![b] = new.fd]
           h4 == [h3 EXCEPT ![a] = fence]
           f1 == HdiFdAssign(new.table, bufferFd[l])
           f2 == HdiFdAssign(f1, acquireFence[l])
<1>1. FenceTyped /\ ReleaseInv /\ Balanced(file, Held, theirs, lost, shown) /\ CommitTellsLastFrame
  BY DEF FenceInv
<1>2. /\ file' = f2 /\ bufferFd' = [bufferFd EXCEPT ![l] = new.fd]
      /\ acquireFence' = [acquireFence EXCEPT ![l] = fence] /\ theirs' = theirs \ {fence}
      /\ fence \in theirs \cup {NoFd} /\ UNCHANGED <<layersAlive, releaseFence, lost, shown, told, appFence>>
  BY DEF TakeBuffer
<1>3. /\ Balanced(new.table, Held, c0, lost, shown)
      /\ new.fd = NoFd \/ new.fd \in Fds \ theirs
  BY <1>1, Duplicated DEF ClientFile
<1> HIDE DEF new
<1>4. FenceTyped'
  BY <1>1, <1>2, <1>3 DEF FenceTyped
<1>5. {a, b} \subseteq Places /\ a # b /\ a # Returned /\ b # Returned /\ Held[b] = bufferFd[l]
      /\ Held[a] = acquireFence[l] /\ Held \in [Places -> Fds \cup {NoFd}]
  BY <1>1, HeldIs DEF Returned
<1>6. Held' = h4
  <2>1. releaseFence' = [releaseFence EXCEPT ![l] = releaseFence[l]]
    BY <1>1, <1>2 DEF FenceTyped
  <2>2. Held' \in [Places -> Fds \cup {NoFd}]
        /\ \A p \in Places : Held'[p] = IF p = <<l, "release">> THEN releaseFence[l] ELSE IF p = a THEN fence
                                        ELSE IF p = b THEN new.fd ELSE Held[p]
    BY <1>1, <1>2, <1>4, <2>1, HeldChanges
  <2>3. Held[<<l, "release">>] = releaseFence[l] /\ <<l, "release">> \notin {a, b}
    BY <1>1, HeldIs
  <2> QED
    BY <1>5, <2>2, <2>3
<1> HIDE DEF a, b
<1>7. Balanced(f1, h1, c0, lost, shown)
  BY <1>3, <1>5, Empty
<1>8. h1[a] = acquireFence[l] /\ h1[b] = NoFd /\ h1 \in [Places -> Fds \cup {NoFd}]
  BY <1>5
<1> HIDE DEF h1, f1
<1>9. Balanced(f2, h2, c0, lost, shown)
  BY <1>5, <1>7, <1>8, Empty
<1>10. h2[b] = NoFd /\ h2[a] = NoFd /\ h2 \in [Places -> Fds \cup {NoFd}]
  BY <1>5, <1>8
<1> HIDE DEF h2, f2
<1>11. new.fd \in c0 \cup {NoFd} /\ c0 \ {new.fd} = theirs
  <2>1. theirs \in SUBSET Fds /\ NoFd \notin Fds
    BY <1>1 DEF Balanced, Fds, NoFd
  <2> QED
    BY <1>3, <2>1
<1> HIDE DEF c0
<1>12. Balanced(f2, h3, theirs, lost, shown)
  BY <1>5, <1>9, <1>10, <1>11, MoveIfAny
<1>13. h3[a] = NoFd
  BY <1>5, <1>10
<1> HIDE DEF h3
<1>14. Balanced(f2, h4, theirs \ {fence}, lost, shown)
  BY <1>2, <1>5, <1>12, <1>13, MoveIfAny
<1>15. Balanced(file, Held, theirs, lost, shown)'
  BY <1>2, <1>6, <1>14
<1>16. ReleaseInv' /\ CommitTellsLastFrame'
  BY <1>1, <1>2 DEF ReleaseInv, CommitTellsLastFrame
<1> QED
  BY <1>4, <1>15, <1>16 DEF FenceInv

\* What an outcome of Commit leaves: the client layer has the fence of its frame.
Settled(o) ==
  /\ o.frame \in Nat /\ o.release \in Fds \cup {NoFd} /\ (o.release = NoFd => o.frame = 0)
  /\ Balanced(o.table, [Held EXCEPT ![Returned] = o.release], theirs, lost, o.frame)

LEMMA OutcomesSettled == ASSUME FenceInv, NEW o \in Outcomes PROVE Settled(o)
<1> DEFINE cl == releaseFence[ClientLayer]
<1>1. FenceTyped /\ ReleaseInv /\ Balanced(file, Held, theirs, lost, shown)
  BY DEF FenceInv
<1>2. /\ Held \in [Places -> Fds \cup {NoFd}] /\ Held[Returned] = cl /\ Returned \in Places
      /\ cl \in Fds \cup {NoFd} /\ shown \in Nat
  BY <1>1, HeldIs, FenceLayersAre, ReturnedIsPlace DEF FenceTyped, Returned
<1>3. CASE o = Refused
  <2>1. o.table = file /\ o.release = cl /\ o.frame = shown
    BY <1>3 DEF Refused
  <2>2. [Held EXCEPT ![Returned] = o.release] = Held
    BY <1>2, <2>1
  <2> QED
    BY <1>1, <1>2, <2>1, <2>2 DEF ReleaseInv, Settled
<1>4. CASE o = Accepted /\ OpenFds(file) # Fds
  <2> DEFINE new == New(file, NextFrame)
             g == HdiFdAssign(new.table, cl)
             h1 == [Held EXCEPT ![Returned] = NoFd]
             c0 == theirs \cup {new.fd}
  <2>1. NextFrame \in Nat /\ NextFrame # Closed /\ NextFrame # 0
    BY <1>2, FencesAssumption DEF NextFrame, Closed
  <2>2. o.table = g /\ o.release = new.fd /\ o.frame = NextFrame
    BY <1>4 DEF Accepted
  <2>3. file \in [Fds -> Int]
    BY <1>1 DEF Balanced
  <2>4. new.fd # NoFd
    <3>1. PICK d \in Fds : new.fd = d
      BY <1>4, <2>1, <2>3, NewIs
    <3> QED
      BY <3>1 DEF Fds, NoFd
  <2>5. /\ Balanced(new.table, Held, theirs \cup ({new.fd} \ {NoFd}), lost, shown)
        /\ new.fd \in Fds \ theirs /\ new.table[new.fd] = NextFrame
    BY <1>1, <2>1, <2>4, Duplicated
  <2> HIDE DEF new
  <2>6. Balanced(new.table, Held, c0, lost, shown)
    <3>1. {new.fd} \ {NoFd} = {new.fd}
      BY <2>4
    <3> QED
      BY <2>5, <3>1
  <2>7. g[new.fd] = NextFrame
    <3>1. new.fd # cl /\ new.table \in [Fds -> Int]
      BY <1>2, <2>6 DEF Balanced
    <3> QED
      BY <2>5, <3>1, AssignIs
  <2>8. Balanced(g, h1, c0, lost, NextFrame)
    BY <1>2, <2>6, Empty
  <2>9. h1[Returned] = NoFd /\ [h1 EXCEPT ![Returned] = new.fd] = [Held EXCEPT ![Returned] = new.fd]
    BY <1>2
  <2>10. new.fd \in c0 /\ c0 \ {new.fd} = theirs
    BY <2>5
  <2> HIDE DEF c0, g, h1
  <2>11. Balanced(g, [h1 EXCEPT ![Returned] = new.fd], c0 \ {new.fd}, lost, NextFrame)
    BY <1>2, <2>7, <2>8, <2>9, <2>10, Move
  <2> QED
    BY <2>1, <2>2, <2>4, <2>5, <2>9, <2>10, <2>11 DEF Settled
<1> QED
  BY <1>3, <1>4 DEF Outcomes

LEMMA CommitFenceStep == ASSUME FenceInv, CommitFrame PROVE FenceInv'
<1>1. FenceTyped /\ ReleaseInv /\ CommitTellsLastFrame
  BY DEF FenceInv
<1>2. PICK o \in Outcomes :
        /\ releaseFence' = [releaseFence EXCEPT ![ClientLayer] = o.release]
        /\ shown' = o.frame
        /\ LET given == Dup(o.table, o.release) IN
             /\ file' = given.table
             /\ theirs' = theirs \cup ({given.fd} \ {NoFd})
             /\ told' = IF o.release = NoFd THEN 0 ELSE IF given.fd = NoFd THEN NoFd ELSE file'[given.fd]
        /\ UNCHANGED <<layersAlive, bufferFd, acquireFence, lost, compHasClient, appFence>>
  BY DEF CommitFrame
<1> DEFINE what == IF o.release = NoFd THEN Closed ELSE o.table[o.release]
           given == New(o.table, what)
           h == [Held EXCEPT ![Returned] = o.release]
<1>3. Settled(o)
  BY OutcomesSettled
<1>4. FenceTyped'
  BY <1>1, <1>2, <1>3 DEF FenceTyped, Settled
<1>5. Held \in [Places -> Fds \cup {NoFd}] /\ Returned \in Places /\ ClientLayer \in FenceLayers
  BY <1>1, HeldIs, ReturnedIsPlace, FenceLayersAre
<1>6. Held' = h
  <2>1. bufferFd' = [bufferFd EXCEPT ![ClientLayer] = bufferFd[ClientLayer]]
        /\ acquireFence' = [acquireFence EXCEPT ![ClientLayer] = acquireFence[ClientLayer]]
    BY <1>1, <1>2 DEF FenceTyped
  <2>2. Held' \in [Places -> Fds \cup {NoFd}]
        /\ \A p \in Places : Held'[p] = IF p = Returned THEN o.release
             ELSE IF p = <<ClientLayer, "acquire">> THEN acquireFence[ClientLayer]
             ELSE IF p = <<ClientLayer, "buffer">> THEN bufferFd[ClientLayer] ELSE Held[p]
    BY <1>1, <1>2, <1>4, <1>5, <2>1, HeldChanges DEF Returned
  <2>3. Held[<<ClientLayer, "acquire">>] = acquireFence[ClientLayer]
        /\ Held[<<ClientLayer, "buffer">>] = bufferFd[ClientLayer]
    BY <1>1, <1>5, HeldIs
  <2> QED
    BY <1>5, <2>2, <2>3
<1>7. h[Returned] = o.release
  BY <1>5
<1>8. Balanced(o.table, h, theirs, lost, o.frame) /\ o.frame \in Nat /\ (o.release = NoFd => o.frame = 0)
  BY <1>3 DEF Settled
<1>9. what \in Int /\ (o.release # NoFd => what = o.frame)
  BY <1>7, <1>8 DEF Balanced, Closed
<1> HIDE DEF what, h
<1>10. /\ Balanced(given.table, h, theirs \cup ({given.fd} \ {NoFd}), lost, o.frame)
       /\ given.fd = NoFd \/ given.table[given.fd] = what
  <2>1. Balanced(o.table, h, theirs, lost, o.frame) /\ what \in Int
    BY <1>8, <1>9
  <2> QED
    BY <2>1, Duplicated
<1>11. /\ file' = given.table /\ theirs' = theirs \cup ({given.fd} \ {NoFd})
       /\ told' = IF o.release = NoFd THEN 0 ELSE IF given.fd = NoFd THEN NoFd ELSE given.table[given.fd]
  BY <1>2 DEF Dup, what
<1> HIDE DEF given
<1>12. Balanced(file, Held, theirs, lost, shown)'
  BY <1>2, <1>6, <1>10, <1>11
<1>13. CommitTellsLastFrame'
  BY <1>1, <1>2, <1>8, <1>9, <1>10, <1>11 DEF CommitTellsLastFrame
<1>14. ReleaseInv'
  BY <1>1, <1>2, <1>5, <1>8, FencesAssumption, FenceLayersAre DEF FenceTyped, ReleaseInv
<1> QED
  BY <1>4, <1>12, <1>13, <1>14 DEF FenceInv

\* There is never a fence of an app layer to duplicate.
LEMMA AskStep == ASSUME FenceInv, NEW l \in AppLayers, AskReleaseFence(l) PROVE FenceInv'
<1>1. FenceTyped /\ ReleaseInv /\ Balanced(file, Held, theirs, lost, shown) /\ CommitTellsLastFrame
  BY DEF FenceInv
<1>2. Dup(file, releaseFence[l]) = [table |-> file, fd |-> NoFd]
  BY <1>1 DEF ReleaseInv, Dup, New
<1>3. UNCHANGED <<file, theirs, layersAlive, bufferFd, acquireFence, releaseFence, lost, shown, told>> /\ ~ appFence'
  <2>1. UNCHANGED <<layersAlive, bufferFd, acquireFence, releaseFence, lost, shown, told>>
    BY DEF AskReleaseFence
  <2>2. file' = file /\ theirs' = theirs \cup ({NoFd} \ {NoFd}) /\ appFence' = (appFence \/ NoFd # NoFd)
    BY <1>2 DEF AskReleaseFence
  <2>3. ~ appFence /\ ~ appFence'
    BY <1>1, <2>2 DEF CommitTellsLastFrame
  <2> QED
    BY <2>1, <2>2, <2>3
<1>4. Held' = Held
  BY <1>3, HeldSame
<1> QED
  BY <1>1, <1>3, <1>4 DEF FenceInv, FenceTyped, ReleaseInv, CommitTellsLastFrame

LEMMA FenceStep == ASSUME FenceInv, [FencesNext]_fenceVars PROVE FenceInv'
<1>1. CASE UNCHANGED fenceVars
  <2>1. Held' = Held
    BY <1>1, HeldSame DEF fenceVars
  <2> QED
    BY <1>1, <2>1 DEF fenceVars, FenceInv, FenceTyped, ReleaseInv, CommitTellsLastFrame
<1>2. CASE ClientGetsFence \/ PrepareLayers \/ (\E d \in Fds : ClientCloses(d) \/ LoseFence(d))
           \/ \E l \in AppLayers : AddLayer(l)
  BY <1>2, ClientStep
<1>3. CASE CommitFrame
  BY <1>3, CommitFenceStep
<1>4. ASSUME NEW l \in AppLayers, DropLayer(l) \/ AskReleaseFence(l) PROVE FenceInv'
  BY <1>4, DropFencesStep, AskStep
<1>5. ASSUME NEW l \in FenceLayers, NEW fence \in Fds \cup {NoFd}, TakeBuffer(l, fence) PROVE FenceInv'
  BY <1>5, TakeStep
<1> QED
  BY <1>1, <1>2, <1>3, <1>4, <1>5 DEF FencesNext

\* Who owns a descriptor.
LEMMA OwnersAre ==
  ASSUME FenceTyped, NEW d \in Fds
  PROVE  Owners(d) = {o \in {"client"} : d \in theirs} \cup {o \in {"nobody"} : d \in lost}
                       \cup {p \in Places : Held[p] = d}
<1> DEFINE In(k, fd) == {<<l, k>> : l \in {m \in FenceLayers : fd[m] = d}}
<1>1. {p \in Places : Held[p] = d} =
        In("buffer", bufferFd) \cup In("acquire", acquireFence) \cup In("release", releaseFence)
  BY PlaceIs, HeldIs
<1> QED
  BY <1>1 DEF Owners

LEMMA OneOwner == FenceInv => FencesHaveOwners
<1> SUFFICES ASSUME FenceInv, NEW d \in Fds
             PROVE  Cardinality(Owners(d)) = IF d \in OpenFds(file) THEN 1 ELSE 0
  BY DEF FencesHaveOwners, DescriptorsHaveOneOwner, FenceInv
<1>1. FenceTyped /\ Balanced(file, Held, theirs, lost, shown)
  BY DEF FenceInv
<1>2. d \in OpenFds(file) <=> d \in theirs \cup lost \/ \E p \in Places : Held[p] = d
  BY <1>1 DEF Balanced, OpenFds
<1>3. CASE d \in theirs \cup lost
  <2>1. PICK who : Owners(d) = {who}
    <3>1. {p \in Places : Held[p] = d} = {}
      BY <1>1, <1>3 DEF Balanced
    <3>2. ~ (d \in theirs /\ d \in lost)
      BY <1>1 DEF Balanced
    <3>3. Owners(d) = IF d \in theirs THEN {"client"} ELSE {"nobody"}
      BY <1>1, <1>3, <3>1, <3>2, OwnersAre
    <3> QED
      BY <3>3
  <2> QED
    BY <1>2, <1>3, <2>1, FS_Singleton
<1>4. ASSUME NEW q \in Places, Held[q] = d PROVE Cardinality(Owners(d)) = 1
  <2>1. d \notin theirs \cup lost
    BY <1>1, <1>4 DEF Balanced
  <2>2. d # NoFd
    BY DEF Fds, NoFd
  <2>3. {p \in Places : Held[p] = d} = {q}
    BY <1>1, <1>4, <2>2 DEF Balanced
  <2>4. Owners(d) = {q}
    BY <1>1, <2>1, <2>3, OwnersAre
  <2> QED
    BY <2>4, FS_Singleton
<1>5. CASE d \notin theirs \cup lost /\ \A p \in Places : Held[p] # d
  <2>1. Owners(d) = {}
    BY <1>1, <1>5, OwnersAre
  <2> QED
    BY <1>2, <1>5, <2>1, FS_EmptySet
<1> QED
  BY <1>2, <1>3, <1>4, <1>5

\* Every descriptor that passes between the client, the layers and the kernel is closed
\* once, and Commit returns the fence of the last frame (hdi_shared_fd.h, hdi_layer.cpp,
\* hdi_drm_composition.cpp), however many layers and descriptors there are.
THEOREM FencesAreOwned == FencesSpec => []FencesHaveOwners
<1> QED
  BY FenceInitInv, FenceStep, OneOwner, PTL DEF FencesSpec
=============================================================================
