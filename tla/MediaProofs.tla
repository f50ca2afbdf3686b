---------------------------- MODULE MediaProofs -----------------------------
(* Proofs about the buffers and what is drawn and coded in them: Gralloc,  *)
(* for any threads, buffers, addresses and sizes; the codec node,          *)
(* CodecNode, for any sizes of the preview and any number of encoders; the *)
(* blitter, Blitter; the coded frames, EncodedStream, for any bytes and    *)
(* numbers of frames; and the set-up of the encoder, EncoderSetup.         *)
EXTENDS Gralloc, CodecNode, Blitter, EncodedStream, EncoderSetup, FiniteSetTheorems,
  WellFoundedInduction, TLAPS

-----------------------------------------------------------------------------
(* The device.                                                             *)

DeviceType ==
  /\ manager \in [dev : BOOLEAN, referCount : Nat] \cup {Null}
  /\ drmFds \in Nat /\ funcs \in Nat

DeviceInv == DeviceType /\ DeviceForClients

LEMMA DeviceInit == Init => DeviceInv
  BY DEF Init, DeviceInv, DeviceType, DeviceForClients

\* What a client's initialisation leaves, seen from the manager it finds or makes.
LEMMA ManagerFound ==
  ASSUME DeviceInv
  PROVE  /\ GetGrallocManager \in [dev : BOOLEAN, referCount : Nat]
         /\ GetGrallocManager.referCount = funcs
         /\ drmFds = IF GetGrallocManager.dev THEN 1 ELSE 0
         /\ funcs > 0 => GetGrallocManager.dev
         /\ funcs = 0 \/ manager # Null
<1>1. CASE manager = Null
  <2>1. GetGrallocManager = [dev |-> FALSE, referCount |-> 0]
    BY <1>1 DEF GetGrallocManager, NewManager
  <2>2. funcs = 0 /\ drmFds = 0
    BY <1>1 DEF DeviceInv, DeviceType, DeviceForClients
  <2> QED
    BY <2>1, <2>2
<1>2. CASE manager # Null
  BY <1>2 DEF GetGrallocManager, DeviceInv, DeviceType, DeviceForClients
<1> QED
  BY <1>1, <1>2

LEMMA DeviceStep == DeviceInv /\ [Next]_vars => DeviceInv'
<1> SUFFICES ASSUME DeviceInv, [Next]_vars PROVE DeviceInv'
  OBVIOUS
<1> DEFINE m == GetGrallocManager
<1>0. /\ m \in [dev : BOOLEAN, referCount : Nat] /\ m.referCount = funcs
      /\ drmFds = (IF m.dev THEN 1 ELSE 0) /\ (funcs > 0 => m.dev) /\ funcs \in Nat
      /\ funcs = 0 \/ manager # Null
  BY ManagerFound DEF DeviceInv, DeviceType
<1>1. ASSUME NEW ok \in BOOLEAN, GrallocInitialize(ok) PROVE DeviceInv'
  <2> HIDE DEF m
  <2>1. CASE m.dev \/ ok
    <3>1. /\ manager' = [dev |-> TRUE, referCount |-> m.referCount + 1]
          /\ drmFds' = (IF m.dev THEN drmFds ELSE drmFds + 1) /\ funcs' = funcs + 1
      BY <1>1, <2>1 DEF GrallocInitialize, InitGbmDevice, m
    <3>2. drmFds' = 1 /\ funcs' \in Nat /\ manager' \in [dev : BOOLEAN, referCount : Nat]
      BY <1>0, <3>1
    <3>3. manager'.dev /\ manager'.referCount = funcs' /\ manager' # Null
      BY <1>0, <3>1, <3>2, NullAssumption
    <3> QED
      BY <3>2, <3>3 DEF DeviceInv, DeviceType, DeviceForClients
  <2>2. CASE ~ (m.dev \/ ok)
    <3>1. manager' = m /\ drmFds' = drmFds /\ funcs' = funcs
      BY <1>1, <2>2 DEF GrallocInitialize, InitGbmDevice, m
    <3>2. manager' # Null /\ drmFds' = 0 /\ funcs' = 0
      BY <1>0, <2>2, <3>1, NullAssumption
    <3> QED
      BY <1>0, <2>2, <3>1, <3>2 DEF DeviceInv, DeviceType, DeviceForClients
  <2> QED
    BY <2>1, <2>2
<1>2. CASE GrallocUninitialize
  <2>1. funcs > 0 /\ funcs' = funcs - 1 /\ funcs' \in Nat /\ m.referCount # 0 /\ m.dev
    BY <1>0, <1>2 DEF GrallocUninitialize
  <2>2. manager' = [m EXCEPT !.referCount = @ - 1] /\ drmFds' = drmFds
    BY <1>2, <2>1 DEF GrallocUninitialize
  <2> HIDE DEF m
  <2>3. /\ manager' \in [dev : BOOLEAN, referCount : Nat] /\ manager'.dev
        /\ manager'.referCount = funcs' /\ drmFds' = 1
    BY <1>0, <2>1, <2>2
  <2> QED
    BY <2>1, <2>3, NullAssumption DEF DeviceInv, DeviceType, DeviceForClients
<1>3. CASE UNCHANGED device
  BY <1>3 DEF device, DeviceInv, DeviceType, DeviceForClients
<1>4. ASSUME NEW b \in Buffers, NEW info \in Infos, NEW failing \in Failures,
             NEW destroyed \in BOOLEAN, GbmAllocMem(b, info, failing, destroyed)
      PROVE UNCHANGED device
  BY <1>4 DEF GbmAllocMem, device
<1>5. ASSUME NEW t \in Threads, NEW b \in Buffers, NEW addr \in Addrs \cup {MAP_FAILED}, GbmMmap(t, b, addr)
      PROVE UNCHANGED device
  BY <1>5 DEF GbmMmap, device
<1>6. ASSUME NEW t \in Threads, Store(t) PROVE UNCHANGED device
  BY <1>6 DEF Store, device
<1>7. ASSUME NEW b \in Buffers, GbmFreeMem(b) PROVE UNCHANGED device
  BY <1>7 DEF GbmFreeMem, device
<1>8. ASSUME NEW t \in Threads, NEW b \in Buffers, GbmUnmap(t, b) PROVE UNCHANGED device
  BY <1>8 DEF GbmUnmap, device
<1>9. CASE UNCHANGED vars
  BY <1>9, <1>3 DEF vars
<1> QED
  BY <1>1, <1>2, <1>3, <1>4, <1>5, <1>6, <1>7, <1>8, <1>9 DEF Next

\* Whichever clients come and go and whichever initialisations fail, a client that holds
\* the functions has the device, which is open once, and is never released.
THEOREM DeviceIsThere == Spec => []DeviceForClients
<1>1. DeviceInv => DeviceForClients
  BY DEF DeviceInv
<1> QED
  BY DeviceInit, DeviceStep, <1>1, PTL DEF Spec

-----------------------------------------------------------------------------
(* Buffers and their mappings.                                             *)

HeapType ==
  /\ DOMAIN buffer = Buffers /\ fds \subseteq Buffers
  /\ virAddr \in [Buffers -> Addrs \cup {Null, MAP_FAILED}]
  /\ maps \in [Addrs -> Buffers \cup {Null}]
  /\ call \in [Threads -> [buf : Buffers, addr : Addrs \cup {Null, MAP_FAILED}] \cup {Null}]

\* While no two calls met on a buffer: a call has its buffer to itself, and that buffer is
\* mapped where the call will say, and nowhere else.
CallsInv ==
  clash = {} =>
    /\ \A t, u \in Threads : call[t] # Null /\ call[u] # Null /\ call[t].buf = call[u].buf => t = u
    /\ \A t \in Threads : call[t] # Null =>
         \A a \in Addrs : maps[a] = call[t].buf <=> a = call[t].addr

Uses(t, b) == call[t] # Null /\ call[t].buf = b

\* A mapping that a buffer remembers is its own.
OwnMapping ==
  clash = {} =>
    /\ \A a \in Addrs : maps[a] # Null =>
         virAddr[maps[a]] = a \/ \E t \in Threads : Uses(t, maps[a]) /\ call[t].addr = a
    /\ \A b \in Buffers : virAddr[b] \in Addrs /\ (\A t \in Threads : ~ Uses(t, b)) => maps[virAddr[b]] = b

Descriptors == \A b \in Buffers : (b \in fds) = (buffer[b] # Null)

\* The gbm_bos there are: one of each handle the kernel kept, one of each dumb buffer it
\* did not make.
ObjectsInv ==
  /\ gem = kept /\ IsFiniteSet(kept) /\ refused \in Nat
  /\ bos = Cardinality(kept) + refused

HeapInv == HeapType /\ CallsInv /\ OwnMapping /\ Descriptors /\ ObjectsInv

LEMMA HeapInit == Init => HeapInv
<1> SUFFICES ASSUME Init PROVE HeapInv
  OBVIOUS
<1>0. ObjectsInv
  BY FS_EmptySet DEF Init, ObjectsInv
<1>1. HeapType /\ Descriptors
  BY DEF Init, HeapType, Descriptors
<1>2. CallsInv
  BY DEF Init, CallsInv
<1>3. OwnMapping
  BY GrallocAssumption DEF Init, OwnMapping
<1> QED
  BY <1>0, <1>1, <1>2, <1>3 DEF HeapInv

LEMMA AllocStep ==
  ASSUME HeapInv, NEW b \in Buffers, NEW info \in Infos, NEW failing \in Failures,
         NEW destroyed \in BOOLEAN, GbmAllocMem(b, info, failing, destroyed)
  PROVE  HeapInv'
<1> USE DEF HeapInv
<1>1. UNCHANGED <<virAddr, maps, call, clash>>
  BY DEF GbmAllocMem, mapping
<1>2. CallsInv'
  BY <1>1 DEF CallsInv
<1>3. OwnMapping'
  BY <1>1 DEF OwnMapping, Uses
<1>4. ObjectsInv'
  <2>1. b \notin kept /\ gem = kept /\ IsFiniteSet(kept) /\ refused \in Nat /\ Cardinality(kept) \in Nat
    BY FS_CardinalityType DEF ObjectsInv, GbmAllocMem, Gone
  <2>2. CASE CreateRefused
    <3>1. UNCHANGED <<gem, kept>> /\ bos' = bos + 1 /\ refused' = refused + 1
      BY <2>2 DEF CreateRefused, MakesBo
    <3> QED
      BY <2>1, <3>1 DEF ObjectsInv
  <2>3. CASE Destroy(b, TRUE) /\ UNCHANGED refused
    BY <2>3 DEF Destroy, MakesBo, ObjectsInv
  <2>4. CASE Destroy(b, FALSE) /\ UNCHANGED refused
    <3>1. gem' = gem \cup {b} /\ kept' = kept \cup {b} /\ bos' = bos + 1 /\ refused' = refused
      BY <2>4 DEF Destroy, MakesBo
    <3>2. IsFiniteSet(kept') /\ Cardinality(kept') = Cardinality(kept) + 1
      BY <2>1, <3>1, FS_AddElement
    <3> QED
      BY <2>1, <3>1, <3>2 DEF ObjectsInv
  <2> QED
    BY <2>2, <2>3, <2>4 DEF GbmAllocMem
<1>5. HeapType' /\ Descriptors'
  <2>1. CASE UNCHANGED <<buffer, fds>>
    BY <1>1, <2>1 DEF HeapType, Descriptors
  <2>2. CASE fds' = fds \cup {b} /\ buffer' = [buffer EXCEPT ![b] = InitBufferHandle(info)]
    <3>1. InitBufferHandle(info) # Null
      BY HandleAssumption
    <3>2. DOMAIN buffer' = Buffers /\ buffer'[b] # Null /\ \A c \in Buffers \ {b} : buffer'[c] = buffer[c]
      BY <2>2, <3>1 DEF HeapType
    <3> QED
      BY <1>1, <2>2, <3>2 DEF HeapType, Descriptors
  <2> QED
    BY <2>1, <2>2 DEF GbmAllocMem, CreateRefused
<1> QED
  BY <1>2, <1>3, <1>4, <1>5

\* A call of t on b begins: mapped at the addresses At, and nothing else changes there.
LEMMA CallBegins ==
  ASSUME HeapInv, HeapType', NEW t \in Threads, NEW b \in Buffers, NEW addr \in Addrs \cup {Null, MAP_FAILED},
         call[t] = Null, call' = [call EXCEPT ![t] = [buf |-> b, addr |-> addr]],
         clash' = IF Using(b) = {} THEN clash ELSE clash \cup {b},
         virAddr' = virAddr,
         Using(b) = {} /\ clash = {} => \A a \in Addrs : maps'[a] = b <=> a = addr,
         Using(b) = {} /\ clash = {} =>
           \A a \in Addrs : maps'[a] = maps[a] \/ ({maps[a], maps'[a]} \subseteq {b, Null})
  PROVE  CallsInv' /\ OwnMapping'
<1> SUFFICES ASSUME clash' = {} PROVE CallsInv' /\ OwnMapping'
  BY DEF CallsInv, OwnMapping
<1> USE DEF HeapInv
<1> DEFINE new == [buf |-> b, addr |-> addr]
<1>0. new # Null /\ new.buf = b /\ new.addr = addr
  BY NullAssumption
<1>1. clash = {} /\ Using(b) = {}
  OBVIOUS
<1>2. call'[t] = new /\ \A u \in Threads \ {t} : call'[u] = call[u]
  BY DEF HeapType
<1>3. \A u \in Threads : call[u] # Null => call[u].buf # b
  BY <1>1 DEF Using
<1> HIDE DEF new
<1>4. CallsInv'
  <2>1. ASSUME NEW u \in Threads, NEW v \in Threads, call'[u] # Null, call'[v] # Null, call'[u].buf = call'[v].buf
        PROVE  u = v
    BY <1>0, <1>1, <1>2, <1>3, <2>1 DEF CallsInv
  <2>2. ASSUME NEW u \in Threads, call'[u] # Null, NEW a \in Addrs
        PROVE  maps'[a] = call'[u].buf <=> a = call'[u].addr
    <3>1. CASE u = t
      BY <1>0, <1>1, <1>2, <3>1
    <3>2. CASE u # t
      <4>1. call'[u] = call[u] /\ call[u].buf # b /\ call[u].buf \in Buffers
        BY <1>2, <1>3, <2>2, <3>2 DEF HeapType
      <4>2. maps[a] = call[u].buf <=> a = call[u].addr
        BY <1>1, <2>2, <4>1 DEF CallsInv
      <4>3. maps'[a] = call[u].buf <=> maps[a] = call[u].buf
        BY <1>1, <4>1, GrallocAssumption
      <4> QED
        BY <4>1, <4>2, <4>3
    <3> QED
      BY <3>1, <3>2
  <2> QED
    BY <2>1, <2>2 DEF CallsInv
<1>5. OwnMapping'
  <2>1. ASSUME NEW a \in Addrs, maps'[a] # Null
        PROVE  virAddr'[maps'[a]] = a \/ \E u \in Threads : call'[u] # Null /\ call'[u].buf = maps'[a] /\ call'[u].addr = a
    <3>1. CASE maps'[a] = b
      BY <1>0, <1>1, <1>2, <3>1
    <3>2. CASE maps'[a] # b
      <4>1. maps'[a] = maps[a] /\ maps[a] \in Buffers
        BY <1>1, <2>1, <3>2 DEF HeapType
      <4>2. virAddr[maps[a]] = a \/ \E u \in Threads : call[u] # Null /\ call[u].buf = maps[a] /\ call[u].addr = a
        BY <1>1, <2>1, <4>1 DEF OwnMapping, Uses
      <4> QED
        BY <1>2, <4>1, <4>2
    <3> QED
      BY <3>1, <3>2
  <2>2. ASSUME NEW c \in Buffers, virAddr'[c] \in Addrs, \A u \in Threads : ~ (call'[u] # Null /\ call'[u].buf = c)
        PROVE  maps'[virAddr'[c]] = c
    <3>1. c # b /\ \A u \in Threads : ~ (call[u] # Null /\ call[u].buf = c)
      BY <1>0, <1>2, <2>2
    <3>2. maps[virAddr[c]] = c
      BY <1>1, <2>2, <3>1 DEF OwnMapping, Uses
    <3> QED
      BY <1>1, <2>2, <3>1, <3>2, GrallocAssumption
  <2> QED
    BY <2>1, <2>2 DEF OwnMapping, Uses
<1> QED
  BY <1>4, <1>5

LEMMA MmapStep ==
  ASSUME HeapInv, NEW t \in Threads, NEW b \in Buffers, NEW addr \in Addrs \cup {MAP_FAILED}, GbmMmap(t, b, addr)
  PROVE  HeapInv'
<1> USE DEF HeapInv
<1>1. /\ UNCHANGED <<buffer, fds, gem, bos, kept, refused, virAddr>> /\ virAddr[b] = Null /\ call[t] = Null
      /\ call' = [call EXCEPT ![t] = [buf |-> b, addr |-> addr]]
      /\ clash' = IF Using(b) = {} THEN clash ELSE clash \cup {b}
  BY DEF GbmMmap, heap
<1>2. Descriptors' /\ ObjectsInv'
  BY <1>1 DEF Descriptors, ObjectsInv
<1>3. maps' \in [Addrs -> Buffers \cup {Null}]
  BY DEF GbmMmap, HeapType
<1>4. HeapType'
  BY <1>1, <1>3 DEF HeapType
<1>5. ASSUME Using(b) = {}, clash = {} PROVE \A a \in Addrs : maps[a] # b
  BY <1>1, <1>5, GrallocAssumption DEF OwnMapping, Uses, Using
<1>6. Using(b) = {} /\ clash = {} =>
        /\ \A a \in Addrs : maps'[a] = b <=> a = addr
        /\ \A a \in Addrs : maps'[a] = maps[a] \/ ({maps[a], maps'[a]} \subseteq {b, Null})
  <2>1. CASE addr \in Addrs /\ Free(addr) /\ maps' = [maps EXCEPT ![addr] = b]
    BY <1>5, <2>1 DEF Free, HeapType
  <2>2. CASE addr = MAP_FAILED /\ UNCHANGED maps
    BY <1>5, <2>2, GrallocAssumption
  <2> QED
    BY <2>1, <2>2 DEF GbmMmap
<1>7. CallsInv' /\ OwnMapping'
  <2>1. Using(b) = {} /\ clash = {} => \A a \in Addrs : maps'[a] = b <=> a = addr
    BY <1>6
  <2>2. Using(b) = {} /\ clash = {} =>
          \A a \in Addrs : maps'[a] = maps[a] \/ ({maps[a], maps'[a]} \subseteq {b, Null})
    BY <1>6
  <2>3. virAddr' = virAddr /\ addr \in Addrs \cup {Null, MAP_FAILED}
    BY <1>1
  <2> QED
    BY <1>1, <1>4, <2>1, <2>2, <2>3, CallBegins, Zenon
<1> QED
  BY <1>2, <1>4, <1>7

LEMMA UnmapStep ==
  ASSUME HeapInv, NEW t \in Threads, NEW b \in Buffers, GbmUnmap(t, b)
  PROVE  HeapInv'
<1> USE DEF HeapInv
<1>1. /\ UNCHANGED <<buffer, fds, gem, bos, kept, refused, virAddr>> /\ virAddr[b] \in Addrs /\ call[t] = Null
      /\ call' = [call EXCEPT ![t] = [buf |-> b, addr |-> Null]]
      /\ maps' = [maps EXCEPT ![virAddr[b]] = Null]
      /\ clash' = IF Using(b) = {} THEN clash ELSE clash \cup {b}
  BY DEF GbmUnmap, heap
<1>2. Descriptors' /\ ObjectsInv'
  BY <1>1 DEF Descriptors, ObjectsInv
<1>3. HeapType'
  BY <1>1 DEF HeapType
<1>4. Using(b) = {} /\ clash = {} =>
        /\ \A a \in Addrs : maps'[a] = b <=> a = Null
        /\ \A a \in Addrs : maps'[a] = maps[a] \/ ({maps[a], maps'[a]} \subseteq {b, Null})
  <2> SUFFICES ASSUME Using(b) = {}, clash = {}, NEW a \in Addrs
               PROVE  maps'[a] # b /\ (maps'[a] = maps[a] \/ ({maps[a], maps'[a]} \subseteq {b, Null}))
    BY GrallocAssumption
  <2>1. maps[virAddr[b]] = b /\ (maps[a] = b => virAddr[b] = a) /\ b # Null
    BY <1>1, GrallocAssumption DEF OwnMapping, Uses, Using
  <2> QED
    BY <1>1, <2>1 DEF HeapType
<1>5. CallsInv' /\ OwnMapping'
  <2> DEFINE addr == Null
  <2>1. Using(b) = {} /\ clash = {} => \A a \in Addrs : maps'[a] = b <=> a = addr
    BY <1>4
  <2>2. Using(b) = {} /\ clash = {} =>
          \A a \in Addrs : maps'[a] = maps[a] \/ ({maps[a], maps'[a]} \subseteq {b, Null})
    BY <1>4
  <2>3. virAddr' = virAddr /\ addr \in Addrs \cup {Null, MAP_FAILED}
    BY <1>1
  <2>4. /\ call[t] = Null /\ call' = [call EXCEPT ![t] = [buf |-> b, addr |-> addr]]
        /\ clash' = IF Using(b) = {} THEN clash ELSE clash \cup {b}
    BY <1>1
  <2> HIDE DEF addr
  <2> QED
    BY <1>3, <2>1, <2>2, <2>3, <2>4, CallBegins, Zenon
<1> QED
  BY <1>2, <1>3, <1>5

LEMMA StoreStep ==
  ASSUME HeapInv, NEW t \in Threads, Store(t)
  PROVE  HeapInv'
<1> USE DEF HeapInv
<1> DEFINE b == call[t].buf
           addr == call[t].addr
<1>1. /\ UNCHANGED <<buffer, fds, gem, bos, kept, refused, maps, clash>> /\ call[t] # Null
      /\ virAddr' = [virAddr EXCEPT ![b] = addr] /\ call' = [call EXCEPT ![t] = Null]
  BY DEF Store, heap
<1>2. b \in Buffers /\ addr \in Addrs \cup {Null, MAP_FAILED}
  BY <1>1 DEF HeapType
<1>3. Descriptors' /\ ObjectsInv' /\ HeapType'
  BY <1>1, <1>2 DEF Descriptors, ObjectsInv, HeapType
<1>4. \A u \in Threads : call'[u] # Null => u # t /\ call'[u] = call[u]
  BY <1>1 DEF HeapType
<1>5. CallsInv'
  BY <1>1, <1>4 DEF CallsInv
<1>6. OwnMapping'
  <2> SUFFICES ASSUME clash = {} PROVE OwnMapping'
    BY <1>1 DEF OwnMapping
  <2>1. (\A a \in Addrs : maps[a] = b <=> a = addr) /\ \A u \in Threads : call[u] # Null /\ call[u].buf = b => u = t
    BY <1>1 DEF CallsInv
  <2>2. virAddr'[b] = addr /\ \A c \in Buffers \ {b} : virAddr'[c] = virAddr[c]
    BY <1>1, <1>2 DEF HeapType
  <2>3. \A u \in Threads : call[u] # Null /\ call[u].buf # b => call'[u] = call[u]
    BY <1>1 DEF HeapType
  <2> HIDE DEF b, addr
  <2>4. ASSUME NEW a \in Addrs, maps'[a] # Null
        PROVE  virAddr'[maps'[a]] = a \/ \E u \in Threads : call'[u] # Null /\ call'[u].buf = maps'[a] /\ call'[u].addr = a
    <3>1. CASE maps[a] = b
      BY <1>1, <2>1, <2>2, <3>1
    <3>2. CASE maps[a] # b
      <4>1. maps[a] \in Buffers \ {b} /\ maps' = maps
        BY <1>1, <2>4, <3>2 DEF HeapType
      <4> QED
        BY <2>2, <2>3, <2>4, <4>1 DEF OwnMapping, Uses
    <3> QED
      BY <3>1, <3>2
  <2>5. ASSUME NEW c \in Buffers, virAddr'[c] \in Addrs,
             \A u \in Threads : ~ (call'[u] # Null /\ call'[u].buf = c)
        PROVE maps'[virAddr'[c]] = c
    <3>1. CASE c = b
      BY <1>1, <2>1, <2>2, <2>5, <3>1
    <3>2. CASE c # b
      BY <1>1, <2>2, <2>3, <2>5, <3>2 DEF OwnMapping, Uses
    <3> QED
      BY <3>1, <3>2
  <2> QED
    BY <2>4, <2>5 DEF OwnMapping, Uses
<1> QED
  BY <1>3, <1>5, <1>6

LEMMA FreeStep ==
  ASSUME HeapInv, NEW b \in Buffers, GbmFreeMem(b)
  PROVE  HeapInv'
<1> USE DEF HeapInv
<1>1. /\ UNCHANGED <<gem, bos, kept, refused, call, clash>> /\ Using(b) = {}
      /\ maps' = [a \in Addrs |-> IF a = virAddr[b] THEN Null ELSE maps[a]]
      /\ buffer' = [buffer EXCEPT ![b] = Null] /\ virAddr' = [virAddr EXCEPT ![b] = Null] /\ fds' = fds \ {b}
  BY DEF GbmFreeMem
<1>2. Descriptors' /\ ObjectsInv' /\ HeapType'
  BY <1>1 DEF Descriptors, ObjectsInv, HeapType
<1>3. CASE clash # {}
  BY <1>1, <1>2, <1>3 DEF CallsInv, OwnMapping
<1>4. CASE clash = {}
  <2>1. \A a \in Addrs : a = virAddr[b] <=> maps[a] = b
    BY <1>1, <1>4, GrallocAssumption DEF OwnMapping, Uses, Using
  <2>2. \A a \in Addrs : maps'[a] = IF maps[a] = b THEN Null ELSE maps[a]
    BY <1>1, <2>1
  <2>3. \A u \in Threads : call[u] # Null => call[u].buf \in Buffers \ {b}
    BY <1>1 DEF Using, HeapType
  <2>4. CallsInv'
    BY <1>1, <2>2, <2>3, GrallocAssumption DEF CallsInv
  <2>5. virAddr'[b] = Null /\ \A c \in Buffers \ {b} : virAddr'[c] = virAddr[c]
    BY <1>1 DEF HeapType
  <2>6. ASSUME NEW a \in Addrs, maps'[a] # Null
        PROVE  virAddr'[maps'[a]] = a \/ \E u \in Threads : call'[u] # Null /\ call'[u].buf = maps'[a] /\ call'[u].addr = a
    <3>1. maps'[a] = maps[a] /\ maps[a] \in Buffers \ {b}
      BY <2>2, <2>6 DEF HeapType
    <3> QED
      BY <1>1, <1>4, <2>5, <2>6, <3>1 DEF OwnMapping, Uses
  <2>7. ASSUME NEW c \in Buffers, virAddr'[c] \in Addrs,
             \A u \in Threads : ~ (call'[u] # Null /\ call'[u].buf = c)
        PROVE maps'[virAddr'[c]] = c
    <3>1. c # b /\ virAddr'[c] = virAddr[c]
      BY <2>5, <2>7, GrallocAssumption
    <3>2. maps[virAddr[c]] = c
      BY <1>1, <1>4, <2>7, <3>1 DEF OwnMapping, Uses
    <3> QED
      BY <2>2, <2>7, <3>1, <3>2
  <2> QED
    BY <1>2, <2>4, <2>6, <2>7 DEF OwnMapping, Uses
<1> QED
  BY <1>3, <1>4

LEMMA HeapStep == HeapInv /\ [Next]_vars => HeapInv'
<1> SUFFICES ASSUME HeapInv, [Next]_vars PROVE HeapInv'
  OBVIOUS
<1>1. CASE UNCHANGED <<heap, mapping>>
  BY <1>1 DEF heap, mapping, HeapInv, HeapType, CallsInv, OwnMapping, Descriptors, ObjectsInv, Uses
<1>2. ASSUME NEW ok \in BOOLEAN, GrallocInitialize(ok) PROVE UNCHANGED <<heap, mapping>>
  BY <1>2 DEF GrallocInitialize
<1>3. ASSUME GrallocUninitialize PROVE UNCHANGED <<heap, mapping>>
  BY <1>3 DEF GrallocUninitialize
<1>4. ASSUME UNCHANGED vars PROVE UNCHANGED <<heap, mapping>>
  BY <1>4 DEF vars
<1> QED
  BY <1>1, <1>2, <1>3, <1>4, AllocStep, MmapStep, UnmapStep, StoreStep, FreeStep DEF Next

\* No descriptor, handle, gbm_bo or mapping is lost, and no address is another buffer's,
\* unless the kernel kept a handle, did not make a dumb buffer, or two calls met on one
\* buffer without a lock.
THEOREM NothingIsLost == Spec => []NothingLeaks
<1>1. HeapInv => NothingLeaks
  BY DEF HeapInv, ObjectsInv, Descriptors, OwnMapping, NothingLeaks, Uses, Using
<1> QED
  BY HeapInit, HeapStep, <1>1, PTL DEF Spec

\* The allocator's device and every part of a buffer are somebody's.
THEOREM DeviceAndBuffersAreHeld == Spec => []DeviceAndBuffersHeld
  BY DeviceIsThere, NothingIsLost, PTL DEF DeviceAndBuffersHeld

-----------------------------------------------------------------------------
(* Planes in their buffer.                                                 *)

\* Products grow with their factors.
LEMMA ProductsGrow ==
  ASSUME NEW m \in Nat, NEW n \in Nat, NEW k \in Nat, m <= n
  PROVE  m * k <= n * k /\ k * m <= k * n /\ m * k \in Nat
<1>1. PICK d \in Nat : n = m + d
  <2>1. n - m \in Nat /\ n = m + (n - m)
    OBVIOUS
  <2> QED
    BY <2>1
<1>2. n * k = m * k + d * k /\ k * n = k * m + k * d
  BY <1>1
<1>3. d * k \in Nat /\ k * d \in Nat /\ m * k \in Nat /\ k * m \in Nat
  BY <1>1
<1> QED
  BY <1>2, <1>3

\* Rounding up does not make smaller.
LEMMA AlignsUp ==
  ASSUME NEW x \in Nat, NEW a \in Nat \ {0}
  PROVE  AlignUp(x, a) \in Nat /\ x <= AlignUp(x, a)
<1> DEFINE n == x + a - 1
<1>1. n \in Nat
  OBVIOUS
<1>2. n = a * (n \div a) + (n % a) /\ n % a \in 0 .. a - 1 /\ n \div a \in Nat
  BY <1>1
<1>3. (n \div a) * a = a * (n \div a) /\ (n \div a) * a \in Nat
  BY <1>2
<1>4. AlignUp(x, a) = (n \div a) * a
  BY DEF AlignUp, DivRoundUp
<1> HIDE DEF n
<1>5. n - (a - 1) <= (n \div a) * a
  BY <1>1, <1>2, <1>3
<1> QED
  BY <1>3, <1>4, <1>5 DEF n

\* What the driver accepts did not wrap: the row, in whole eights, holds every plane's.
LEMMA RowHoldsPlanes ==
  ASSUME NEW info \in Infos, Accepts(info), info.width * Quarters(info.format) + 3 < Word
  PROVE  /\ DumbWidth(info) \in Nat /\ info.width <= DumbWidth(info)
         /\ info.format \in Planar420 => info.width + Half(info.width) <= DumbWidth(info)
         /\ info.format \in Planar422 => info.width + 2 * Half(info.width) <= DumbWidth(info)
<1> DEFINE w == info.width
           q == Quarters(info.format)
           a == AdjustStrideFromFormat(info.format, info.width)
           d == ((a + 7) \div 8) * 8
<1>1. w \in Nat /\ Word \in Nat \ {0}
  BY GrallocAssumption
<1>2. /\ q \in {4, 6, 8} /\ (info.format \in Planar420 => q = 6)
      /\ (info.format \in Planar422 => q = 8)
  BY DEF Quarters, Planar420, Planar422
<1>3. w * q + 3 < Word
  OBVIOUS
<1>4. a = IF q = 4 THEN w ELSE (w * q + 3) \div 4
  <2>1. CASE q = 4
    BY <2>1 DEF AdjustStrideFromFormat
  <2>2. CASE q # 4
    <3>1. (w * q + 3) % Word = w * q + 3
      <4>1. w * q + 3 \in 0 .. Word - 1
        BY <1>1, <1>2, <1>3
      <4> HIDE DEF w, q
      <4> QED
        BY <4>1, <1>1
    <3> QED
      BY <2>2, <3>1 DEF AdjustStrideFromFormat
  <2> QED
    BY <2>1, <2>2
<1>5. DumbWidth(info) = d % Word /\ d % Word > 0
  BY DEF DumbWidth, AlignUp, DivRoundUp, Accepts
<1> HIDE DEF w, q, a
<1>6. a \in Nat /\ d \in Nat /\ w <= d /\ d <= a + 7
  <2>1. CASE q = 4
    BY <2>1, <1>1, <1>4
  <2>2. CASE q = 6
    BY <2>2, <1>1, <1>4
  <2>3. CASE q = 8
    BY <2>3, <1>1, <1>4
  <2> QED
    BY <1>2, <2>1, <2>2, <2>3
<1>7. q = 6 => w + Half(w) <= d
  BY <1>1, <1>4 DEF Half
<1>8. q = 8 => w + 2 * Half(w) <= d
  BY <1>1, <1>4 DEF Half
<1>9. d <= Word
  <2>1. CASE q = 4
    BY <2>1, <1>1, <1>3, <1>4
  <2>2. CASE q = 6
    BY <2>2, <1>1, <1>3, <1>4
  <2>3. CASE q = 8
    BY <2>3, <1>1, <1>3, <1>4
  <2> QED
    BY <1>2, <2>1, <2>2, <2>3
<1>10. d % Word = d
  <2> HIDE DEF d
  <2>1. d # Word
    BY <1>1, <1>5
  <2> QED
    BY <2>1, <1>1, <1>6, <1>9
<1> QED
  BY <1>2, <1>5, <1>6, <1>7, <1>8, <1>10 DEF w, q

\* Nor did the height: it is the rows that were asked for, and one more if they are odd.
LEMMA RowsAreHeld ==
  ASSUME NEW info \in Infos, Accepts(info)
  PROVE  DumbHeight(info) = 2 * Half(info.height)
<1> DEFINE h == info.height
           d == ((h + 1) \div 2) * 2
<1>1. h \in 0 .. Word - 1 /\ Word \in Nat \ {0}
  BY GrallocAssumption
<1>2. DumbHeight(info) = d % Word /\ d % Word > 0
  BY DEF DumbHeight, AlignUp, DivRoundUp, Accepts
<1> HIDE DEF h
<1>3. d = 2 * Half(h) /\ d \in Nat /\ d <= Word
  BY <1>1 DEF Half
<1> HIDE DEF d
<1>4. d # Word
  BY <1>1, <1>2
<1>5. d % Word = d
  BY <1>1, <1>3, <1>4
<1> QED
  BY <1>2, <1>3, <1>5 DEF h

\* A pitch holds a row of every plane, and the object all the rows.
LEMMA PlanesFitInto ==
  ASSUME NEW info \in Infos, Accepts(info), info.width * Quarters(info.format) + 3 < Word
  PROVE  /\ Needed(info) <= ObjectSize(info)
         /\ info.height % 2 = 0 \/ info.format \notin Planar420 => Needed(info) <= Pitch(info) * info.height
<1> DEFINE w == info.width
           h == info.height
           bpp == BytesPerPixel(info.format)
           row == DumbWidth(info)
           p == Pitch(info)
           rows == 2 * Half(h)
<1>1. w \in Nat /\ h \in Nat /\ bpp \in {1, 2, 3, 4} /\ row \in Nat /\ PitchAlign \in Nat \ {0}
  BY GrallocAssumption, RowHoldsPlanes DEF BytesPerPixel
<1>2. p \in Nat /\ row * bpp <= p
  <2>1. row * bpp \in Nat
    BY <1>1
  <2> HIDE DEF row, bpp
  <2> QED
    BY <2>1, <1>1, AlignsUp DEF Pitch, row, bpp
<1>3. /\ w <= row
      /\ info.format \in Planar420 => w + Half(w) <= row
      /\ info.format \in Planar422 => w + 2 * Half(w) <= row
  BY RowHoldsPlanes
<1>4. ObjectSize(info) = p * rows
  BY RowsAreHeld DEF ObjectSize
<1>5. Half(w) \in Nat /\ Half(h) \in Nat /\ rows \in Nat /\ h <= rows /\ (h % 2 = 0 => h = rows)
  BY <1>1 DEF Half
<1>6. bpp = 1 \/ info.format \notin Planar420 \cup Planar422
  BY DEF BytesPerPixel, Planar420, Planar422, Packed32, Packed16
<1>7. p * h <= p * rows /\ p * h \in Nat
  BY <1>2, <1>1, <1>5, ProductsGrow
<1>8. CASE info.format \in Planar420
  <2>1. Needed(info) = w * h + 2 * Half(w) * Half(h)
    BY <1>8 DEF Needed
  <2> HIDE DEF w, h, row, p, bpp
  <2>2. w * h <= w * rows /\ w * h \in Nat /\ w * rows \in Nat
    BY <1>1, <1>5, ProductsGrow
  <2>3. 2 * Half(w) * Half(h) = Half(w) * rows
    BY <1>5
  <2>4. (w + Half(w)) * rows = w * rows + Half(w) * rows /\ Half(w) * rows \in Nat
    BY <1>1, <1>5
  <2>5. w + Half(w) <= p
    BY <1>8, <1>1, <1>2, <1>3, <1>5, <1>6
  <2>6. (w + Half(w)) * rows <= p * rows
    BY <2>5, <1>1, <1>2, <1>5, ProductsGrow
  <2>7. Needed(info) <= p * rows
    BY <2>1, <2>2, <2>3, <2>4, <2>6, <1>2, <1>5
  <2> QED
    BY <2>7, <1>4, <1>5, <1>8 DEF h, p
<1>9. CASE info.format \in Planar422
  <2>1. Needed(info) = w * h + 2 * Half(w) * h
    BY <1>9 DEF Needed, Planar420, Planar422
  <2> HIDE DEF w, h, row, p, bpp
  <2>2. (w + 2 * Half(w)) * h = w * h + 2 * Half(w) * h
    BY <1>1, <1>5
  <2>3. w + 2 * Half(w) <= p
    BY <1>9, <1>1, <1>2, <1>3, <1>5, <1>6
  <2>4. (w + 2 * Half(w)) * h <= p * h
    BY <2>3, <1>1, <1>2, <1>5, ProductsGrow
  <2>5. Needed(info) <= p * h
    BY <2>1, <2>2, <2>4
  <2> QED
    BY <2>1, <2>2, <2>4, <2>5, <1>1, <1>2, <1>4, <1>5, <1>7 DEF h, p
<1>10. CASE info.format \notin Planar420 \cup Planar422
  <2>1. Needed(info) = (w * bpp) * h
    BY <1>10 DEF Needed
  <2> HIDE DEF w, h, row, p, bpp
  <2>2. w * bpp <= row * bpp /\ w * bpp \in Nat /\ row * bpp \in Nat
    BY <1>1, <1>3, ProductsGrow
  <2>3. w * bpp <= p
    BY <2>2, <1>2
  <2>4. (w * bpp) * h <= p * h /\ (w * bpp) * h \in Nat
    BY <2>2, <2>3, <1>1, <1>2, ProductsGrow
  <2> QED
    BY <2>1, <2>4, <1>1, <1>2, <1>4, <1>5, <1>7 DEF h, p
<1> QED
  BY <1>8, <1>9, <1>10

\* A handle was made of a request that the driver accepted.
AcceptedInv ==
  /\ DOMAIN buffer = Buffers
  /\ \A b \in Buffers : buffer[b] # Null =>
       \E info \in Infos : Accepts(info) /\ buffer[b] = InitBufferHandle(info)

LEMMA AcceptedStep == AcceptedInv /\ [Next]_vars => AcceptedInv'
<1> SUFFICES ASSUME AcceptedInv, [Next]_vars PROVE AcceptedInv'
  OBVIOUS
<1>1. CASE UNCHANGED buffer
  BY <1>1 DEF AcceptedInv
<1>2. ASSUME NEW b \in Buffers, NEW info \in Infos, NEW failing \in Failures,
             NEW destroyed \in BOOLEAN, GbmAllocMem(b, info, failing, destroyed)
      PROVE  AcceptedInv'
  <2>1. buffer' = buffer \/ (Accepts(info) /\ buffer' = [buffer EXCEPT ![b] = InitBufferHandle(info)])
    BY <1>2 DEF GbmAllocMem, CreateRefused
  <2> QED
    BY <2>1 DEF AcceptedInv
<1>3. ASSUME NEW b \in Buffers, GbmFreeMem(b) PROVE AcceptedInv'
  <2>1. buffer' = [buffer EXCEPT ![b] = Null]
    BY <1>3 DEF GbmFreeMem
  <2> QED
    BY <2>1 DEF AcceptedInv
<1> QED
  BY <1>1, <1>2, <1>3 DEF Next, vars, heap, mapping, GrallocInitialize, GrallocUninitialize, GbmMmap, GbmUnmap, Store

\* Whatever is allocated, the planes of an accepted buffer lie inside it, and inside the
\* size that its handle tells, but for the last chroma row of an odd height.
THEOREM PlanesFitAlways == Spec => []PlanesFit
<1>1. Init => AcceptedInv
  BY DEF Init, AcceptedInv
<1>2. AcceptedInv => PlanesFit
  <2> SUFFICES ASSUME AcceptedInv, NEW b \in Buffers, buffer[b] # Null,
                      buffer[b].info.width * Quarters(buffer[b].info.format) + 3 < Word
               PROVE  LET info == buffer[b].info IN
                      /\ Needed(info) <= ObjectSize(info)
                      /\ info.height % 2 = 0 \/ info.format \notin Planar420 => Needed(info) <= buffer[b].size
    BY DEF PlanesFit
  <2>1. PICK info \in Infos : Accepts(info) /\ buffer[b] = InitBufferHandle(info)
    BY DEF AcceptedInv
  <2>2. buffer[b].info = info /\ buffer[b].size = Pitch(info) * info.height
    BY <2>1 DEF InitBufferHandle
  <2> QED
    BY <2>1, <2>2, PlanesFitInto
<1> QED
  BY <1>1, <1>2, AcceptedStep, PTL DEF Spec

-----------------------------------------------------------------------------
(* The codec node (CodecNode).                                             *)

Encoder == [parts : SUBSET Parts, size : Nat \X Nat, made : BOOLEAN]
Still == [at : {"blit", "jpeg"}, room : Nat]
Video == [at : {"width", "create", "made", "mark", "check", "frame", "encode", "encoding"}, width : Nat, ctx : Nat]

\* What the threads may be at, and what they share.
NodeType ==
  /\ previewWidth_ \in Nat /\ previewHeight_ \in Nat
  /\ encoders \in Seq(Encoder) /\ halCtx_ \in 0 .. Len(encoders) /\ mppStatus_ \in {0, 1}
  /\ fault \in {"none", "null", "freed", "overrun", "exit", "no memory"}
  /\ frame \in Sizes \cup {Idle} /\ still \in Still \cup {Idle} /\ video \in Video \cup {Idle}
  /\ stop \in {"idle", "delete", "forget", "status"}
  /\ overlapped \in BOOLEAN /\ resized \in BOOLEAN /\ fresh \in BOOLEAN /\ late \in BOOLEAN

\* A frame that makes an encoder found the status reset; and until a Stop is late, the
\* status is only reset when there is no encoder, so that the frame has the node to itself
\* and Stop has what it found.
MakerInv ==
  /\ \A pc \in {"width", "create", "made", "mark"} : At(pc) => mppStatus_ = 0
  /\ ~ late /\ mppStatus_ = 0 /\ ~ At("made") /\ ~ At("mark") => halCtx_ = NoCtx
  /\ ~ late /\ stop \in {"delete", "forget"} => halCtx_ # NoCtx

\* The node's encoder is whole until Stop deletes it, and until a Stop is late nothing else
\* is left.
HeldInv ==
  /\ halCtx_ # NoCtx => encoders[halCtx_].made /\ (Freed(halCtx_) => stop = "forget")
  /\ ~ late /\ stop = "forget" => Freed(halCtx_)
  /\ ~ late => \A e \in DOMAIN encoders : encoders[e].made /\ encoders[e].parts # {} => halCtx_ = e

\* A frame that no Stop overlapped keeps the encoder it found or made.
FrameInv ==
  ~ overlapped /\ video # Idle =>
    /\ stop = "idle"
    /\ video.at \in {"made", "mark", "frame", "encode", "encoding"} => halCtx_ # NoCtx
    /\ video.at = "encoding" => video.ctx = halCtx_

\* A still's memory is that of the preview's size until the preview changes; and a height
\* is stored after its width.
SizeInv ==
  /\ still # Idle /\ ~ resized => still.room = Area
  /\ previewHeight_ # 0 \/ frame # Idle => previewWidth_ # 0

FitInv ==
  /\ At("create") /\ fresh => video.width = previewWidth_
  /\ EncoderFitsPreview

NodeInv == NodeType /\ MakerInv /\ HeldInv /\ FrameInv /\ SizeInv /\ FitInv /\ NodeFaultExplained

LEMMA InvInit == NodeInit => NodeInv
<1> SUFFICES ASSUME NodeInit PROVE NodeInv
  OBVIOUS
<1>1. NodeType
  <2>1. encoders \in Seq(Encoder) /\ Len(encoders) = 0 /\ halCtx_ = 0
    BY DEF NodeInit, NoCtx
  <2>2. halCtx_ \in 0 .. Len(encoders)
    BY <2>1
  <2> QED
    BY <2>1, <2>2 DEF NodeInit, NodeType
<1>2. MakerInv /\ HeldInv /\ FrameInv /\ SizeInv /\ FitInv /\ NodeFaultExplained
  BY DEF NodeInit, MakerInv, HeldInv, FrameInv, SizeInv, FitInv, EncoderFitsPreview, NodeFaultExplained, At
<1> QED
  BY <1>1, <1>2 DEF NodeInv

\* No thread that is at something is idle.
LEMMA Busy == Idle \notin Sizes /\ Idle \notin Still /\ Idle \notin Video
<1>1. Idle \notin Sizes
  BY CodecNodeAssumption DEF Idle
<1>2. DOMAIN Idle = {}
  BY DEF Idle
<1>3. \A s \in Still : "at" \in DOMAIN s
  BY DEF Still
<1>4. \A v \in Video : "at" \in DOMAIN v
  BY DEF Video
<1> QED
  BY <1>1, <1>2, <1>3, <1>4

\* The area is that of the two sides.
LEMMA AreaIsNat ==
  ASSUME NodeType
  PROVE  Area \in Nat /\ (Area = 0 <=> previewWidth_ = 0 \/ previewHeight_ = 0)
<1>1. \A a, b \in Nat : a * b \in Nat /\ (a * b = 0 <=> a = 0 \/ b = 0)
  <2>1. \A a, b \in Nat : a * b \in Nat
    OBVIOUS
  <2>2. \A a, b \in Nat : a > 0 /\ b > 0 => a * b > 0
    OBVIOUS
  <2>3. \A a, b \in Nat : a = 0 \/ b = 0 => a * b = 0
    OBVIOUS
  <2> QED
    BY <2>1, <2>2, <2>3
<1>2. previewWidth_ \in Nat /\ previewHeight_ \in Nat
  BY DEF NodeType
<1> QED
  BY <1>1, <1>2, Zenon DEF Area

\* A preview frame stores a side of its size.
LEMMA PreviewStep ==
  ASSUME NodeInv, fault = "none", (\E size \in Sizes : Yuv420ToRGBA8888(size)) \/ StoreHeight
  PROVE  NodeInv'
<1> USE DEF NodeInv
<1>0. /\ UNCHANGED <<halCtx_, mppStatus_, encoders, fault, still, video, stop, overlapped, late>>
  BY DEF Yuv420ToRGBA8888, StoreHeight, encoder, notPreview
<1>1. /\ previewWidth_' \in Nat /\ previewHeight_' \in Nat /\ frame' \in Sizes \cup {Idle}
      /\ (previewHeight_' # 0 \/ frame' # Idle => previewWidth_' # 0)
      /\ resized' = (resized \/ (still # Idle /\ (previewWidth_' # previewWidth_ \/ previewHeight_' # previewHeight_)))
      /\ fresh' = (fresh /\ previewWidth_' = previewWidth_ /\ previewHeight_' = previewHeight_)
  <2>1. ASSUME NEW size \in Sizes, Yuv420ToRGBA8888(size)
        PROVE  /\ previewWidth_' \in Nat /\ previewHeight_' \in Nat /\ frame' \in Sizes \cup {Idle}
               /\ (previewHeight_' # 0 \/ frame' # Idle => previewWidth_' # 0)
               /\ resized' = (resized \/ (still # Idle /\ (previewWidth_' # previewWidth_ \/ previewHeight_' # previewHeight_)))
               /\ fresh' = (fresh /\ previewWidth_' = previewWidth_ /\ previewHeight_' = previewHeight_)
    BY <2>1, CodecNodeAssumption, Busy DEF Yuv420ToRGBA8888, NodeType
  <2>2. CASE StoreHeight
    BY <2>2, CodecNodeAssumption, Busy DEF StoreHeight, NodeType, SizeInv
  <2> QED
    BY <2>1, <2>2
<1>2. NodeType'
  BY <1>0, <1>1 DEF NodeType
<1>3. MakerInv' /\ HeldInv' /\ FrameInv'
  BY <1>0 DEF MakerInv, HeldInv, FrameInv, At, Freed
<1>4. SizeInv'
  BY <1>0, <1>1 DEF SizeInv, Area
<1>5. FitInv'
  BY <1>0, <1>1 DEF FitInv, EncoderFitsPreview, At, Freed
<1>6. NodeFaultExplained'
  BY <1>0 DEF NodeFaultExplained
<1> QED
  BY <1>2, <1>3, <1>4, <1>5, <1>6

LEMMA StillsStep ==
  ASSUME NodeInv, fault = "none", Yuv420ToJpeg \/ StillStep
  PROVE  NodeInv'
<1> USE DEF NodeInv
<1>0. UNCHANGED <<previewWidth_, previewHeight_, halCtx_, mppStatus_, encoders, frame, video, stop, overlapped, fresh, late>>
  BY DEF Yuv420ToJpeg, StillStep, statics, encoder, notStill
<1>1. MakerInv' /\ HeldInv' /\ FrameInv' /\ FitInv'
  BY <1>0 DEF MakerInv, HeldInv, FrameInv, FitInv, EncoderFitsPreview, At, Freed
<1>2. CASE Yuv420ToJpeg
  <2>1. fault' = fault /\ resized' = FALSE /\ still' = [at |-> "blit", room |-> Area]
    BY <1>2 DEF Yuv420ToJpeg
  <2>2. still' \in Still /\ still'.room = Area
    BY <2>1, AreaIsNat DEF Still
  <2>3. NodeType'
    BY <1>0, <2>1, <2>2 DEF NodeType
  <2>4. SizeInv' /\ NodeFaultExplained'
    BY <1>0, <2>1, <2>2 DEF SizeInv, NodeFaultExplained, Area
  <2> QED
    BY <1>1, <2>3, <2>4
<1>3. CASE StillStep
  <2>1. /\ still # Idle /\ fault' = StillFault /\ resized' = resized
        /\ still' = IF still.at = "blit" THEN [still EXCEPT !.at = "jpeg"] ELSE Idle
    BY <1>3 DEF StillStep
  <2>2. still \in Still
    BY <2>1 DEF NodeType
  <2>3. still' \in Still \cup {Idle} /\ (still' # Idle => still'.room = still.room)
    BY <2>1, <2>2 DEF Still
  <2>4. fault' \in {"none", "overrun", "exit"}
    BY <2>1 DEF StillFault
  <2>5. NodeType'
    BY <1>0, <2>1, <2>3, <2>4 DEF NodeType
  <2>6. SizeInv'
    BY <1>0, <2>1, <2>3 DEF SizeInv, Area
  <2>7. NodeFaultExplained'
    <3>1. fault' = "overrun" => resized
      <4>1. ASSUME ~ resized PROVE ~ (Area > still.room)
        BY <2>1, <4>1, AreaIsNat DEF SizeInv
      <4> QED
        BY <2>1, <4>1 DEF StillFault
    <3>2. fault' = "exit" => previewHeight_ = 0
      BY <2>1, AreaIsNat DEF StillFault, SizeInv
    <3> QED
      BY <1>0, <2>1, <2>4, <3>1, <3>2 DEF NodeFaultExplained
  <2> QED
    BY <1>1, <2>5, <2>6, <2>7
<1> QED
  BY <1>2, <1>3

\* The steps of a video frame that leave the encoder as it is: what is left to show is
\* about the frame itself.
LEMMA FrameMoves ==
  ASSUME NodeInv, NodeType', UNCHANGED <<previewWidth_, previewHeight_, halCtx_, encoders, frame, still, stop, resized, late>>,
         MakerInv', FrameInv', fault' \in {"null", "freed"} => overlapped',
         fault' \notin {"null", "freed"} => fault' \in {"none", "no memory"},
         At("create")' => (fresh' => video'.width = previewWidth_),
         ~ At("create")' => ~ At("create") /\ fresh' = fresh
  PROVE  NodeInv'
<1> USE DEF NodeInv
<1>1. HeldInv'
  BY DEF HeldInv, Freed
<1>2. SizeInv'
  BY DEF SizeInv, Area
<1>3. FitInv'
  <2>1. fresh' => (At("create")' => video'.width = previewWidth_')
    OBVIOUS
  <2>2. ASSUME ~ At("create")' PROVE EncoderFitsPreview'
    BY <2>2 DEF FitInv, EncoderFitsPreview, Freed
  <2>3. At("create")' => EncoderFitsPreview'
    BY DEF EncoderFitsPreview
  <2> QED
    BY <2>1, <2>2, <2>3 DEF FitInv
<1>4. NodeFaultExplained'
  BY DEF NodeFaultExplained
<1> QED
  BY <1>1, <1>2, <1>3, <1>4

\* A frame begins, reads the size or finds no encoder.
LEMMA BeginsStep ==
  ASSUME NodeInv, fault = "none", Yuv420ToH264 \/ ReadWidth \/ Check
  PROVE  NodeInv'
<1> USE DEF NodeInv
<1>0. /\ UNCHANGED <<previewWidth_, previewHeight_, halCtx_, mppStatus_, encoders, fault, frame, still, stop, resized, late>>
  BY DEF Yuv420ToH264, ReadWidth, Check, statics, encoder, notVideo
<1>1. CASE Yuv420ToH264
  <2>1. /\ video = Idle /\ fresh' = fresh /\ overlapped' = (stop # "idle")
        /\ video' = [at |-> IF mppStatus_ = 0 THEN "width" ELSE "check", width |-> 0, ctx |-> NoCtx]
    BY <1>1 DEF Yuv420ToH264
  <2>2. /\ video' \in Video /\ video' # Idle /\ video'.at = IF mppStatus_ = 0 THEN "width" ELSE "check"
    BY <2>1, Busy DEF Video, NoCtx
  <2>3. NodeType'
    BY <1>0, <2>1, <2>2 DEF NodeType
  <2>4. MakerInv'
    BY <1>0, <2>1, <2>2 DEF MakerInv, At, NodeType
  <2>5. FrameInv'
    BY <1>0, <2>1, <2>2 DEF FrameInv
  <2> QED
    BY <1>0, <2>1, <2>2, <2>3, <2>4, <2>5, FrameMoves DEF At
<1>2. CASE ReadWidth
  <2>1. /\ video # Idle /\ video.at = "width" /\ fresh' = TRUE /\ overlapped' = overlapped
        /\ video' = [video EXCEPT !.at = "create", !.width = previewWidth_]
    BY <1>2 DEF ReadWidth, At
  <2>2. video \in Video /\ video' \in Video /\ video' # Idle /\ video'.at = "create" /\ video'.width = previewWidth_
    BY <2>1, Busy DEF NodeType, Video
  <2>3. NodeType'
    BY <1>0, <2>1, <2>2 DEF NodeType
  <2>4. MakerInv'
    BY <1>0, <2>1, <2>2 DEF MakerInv, At
  <2>5. FrameInv'
    BY <1>0, <2>1, <2>2 DEF FrameInv
  <2> QED
    BY <1>0, <2>1, <2>2, <2>3, <2>4, <2>5, FrameMoves DEF At
<1>3. CASE Check
  <2>1. /\ video # Idle /\ video.at = "check" /\ UNCHANGED <<fresh, overlapped>> /\ video \in Video
        /\ \/ video' = Idle
           \/ halCtx_ # NoCtx /\ video' = [video EXCEPT !.at = "frame"]
    BY <1>3 DEF Check, At, Go, NodeType
  <2>2. video' = Idle \/ (video' \in Video /\ video' # Idle /\ video'.at = "frame" /\ halCtx_ # NoCtx)
    BY <2>1, Busy DEF Video
  <2>3. NodeType'
    BY <1>0, <2>1, <2>2 DEF NodeType
  <2>4. MakerInv'
    BY <1>0, <2>1, <2>2 DEF MakerInv, At
  <2>5. FrameInv'
    BY <1>0, <2>1, <2>2 DEF FrameInv
  <2> QED
    BY <1>0, <2>1, <2>2, <2>3, <2>4, <2>5, FrameMoves DEF At
<1> QED
  BY <1>1, <1>2, <1>3

\* A frame uses the encoder.
LEMMA UsesStep ==
  ASSUME NodeInv, fault = "none", Made \/ Mark \/ FrameSize \/ Encode \/ Encoded
  PROVE  NodeInv'
<1> USE DEF NodeInv
<1>0. /\ UNCHANGED <<previewWidth_, previewHeight_, halCtx_, encoders, frame, still, stop, resized, fresh, overlapped, late>>
      /\ video # Idle /\ video \in Video
  BY DEF Made, Mark, FrameSize, Encode, Encoded, At, statics, encoder, notVideo, NodeType
<1>1. CASE Mark
  <2>1. video.at = "mark" /\ fault' = fault /\ mppStatus_' = 1 /\ video' = [video EXCEPT !.at = "frame"]
    BY <1>1 DEF Mark, At, Go
  <2>2. video' \in Video /\ video' # Idle /\ video'.at = "frame"
    BY <1>0, <2>1, Busy DEF Video
  <2>3. NodeType'
    BY <1>0, <2>1, <2>2 DEF NodeType
  <2>4. MakerInv'
    BY <1>0, <2>1, <2>2 DEF MakerInv, At
  <2>5. FrameInv'
    BY <1>0, <2>1, <2>2 DEF FrameInv
  <2> QED
    BY <1>0, <2>1, <2>2, <2>3, <2>4, <2>5, FrameMoves DEF At
<1>2. CASE FrameSize
  <2>1. /\ video.at = "frame" /\ mppStatus_' = mppStatus_ /\ video' = [video EXCEPT !.at = "encode"]
        /\ fault' = (IF halCtx_ = NoCtx THEN "null" ELSE IF Freed(halCtx_) THEN "freed" ELSE fault)
    BY <1>2 DEF FrameSize, At, Go, encoder
  <2>2. video' \in Video /\ video' # Idle /\ video'.at = "encode"
    BY <1>0, <2>1, Busy DEF Video
  <2>3. NodeType'
    BY <1>0, <2>1, <2>2 DEF NodeType
  <2>4. MakerInv'
    BY <1>0, <2>1, <2>2 DEF MakerInv, At
  <2>5. FrameInv'
    BY <1>0, <2>1, <2>2 DEF FrameInv
  <2>6. fault' # "none" => overlapped
    BY <1>0, <2>1 DEF FrameInv, HeldInv, NodeType
  <2> QED
    BY <1>0, <2>1, <2>2, <2>3, <2>4, <2>5, <2>6, FrameMoves DEF At
<1>3. CASE Encode
  <2>1. /\ video.at = "encode" /\ UNCHANGED <<mppStatus_, fault>>
        /\ video' = IF halCtx_ = NoCtx THEN Idle ELSE [video EXCEPT !.at = "encoding", !.ctx = halCtx_]
    BY <1>3 DEF Encode, At, encoder
  <2>2. video' = Idle \/ (video' \in Video /\ video' # Idle /\ video'.at = "encoding" /\ video'.ctx = halCtx_)
    <3>1. halCtx_ \in Nat
      BY DEF NodeType
    <3> QED
      BY <1>0, <2>1, <3>1, Busy DEF Video
  <2>3. NodeType'
    BY <1>0, <2>1, <2>2 DEF NodeType
  <2>4. MakerInv'
    BY <1>0, <2>1, <2>2 DEF MakerInv, At
  <2>5. FrameInv'
    BY <1>0, <2>1, <2>2 DEF FrameInv
  <2> QED
    BY <1>0, <2>1, <2>2, <2>3, <2>4, <2>5, FrameMoves DEF At
<1>4. CASE Encoded
  <2>1. /\ video.at = "encoding" /\ mppStatus_' = mppStatus_ /\ video' = Idle
        /\ fault' = (IF Freed(video.ctx) THEN "freed" ELSE fault)
    BY <1>4 DEF Encoded, At, encoder
  <2>2. NodeType'
    BY <1>0, <2>1 DEF NodeType
  <2>3. MakerInv' /\ FrameInv'
    BY <1>0, <2>1 DEF MakerInv, FrameInv, At
  <2>4. fault' # "none" => overlapped
    BY <1>0, <2>1 DEF FrameInv, HeldInv, NodeType
  <2> QED
    BY <1>0, <2>1, <2>2, <2>3, <2>4, FrameMoves DEF At
<1>5. CASE Made
  <2>1. /\ video.at = "made" /\ UNCHANGED <<mppStatus_, fault>>
        /\ \/ halCtx_ = NoCtx /\ video' = Idle
           \/ halCtx_ # NoCtx /\ video' = [video EXCEPT !.at = "mark"]
    BY <1>5 DEF Made, At, Go, encoder
  <2>2. \/ halCtx_ = NoCtx /\ video' = Idle
        \/ halCtx_ # NoCtx /\ video' \in Video /\ video' # Idle /\ video'.at = "mark"
    BY <1>0, <2>1, Busy DEF Video
  <2>3. NodeType'
    BY <1>0, <2>1, <2>2 DEF NodeType
  <2>4. MakerInv'
    BY <1>0, <2>1, <2>2 DEF MakerInv, At
  <2>5. FrameInv'
    BY <1>0, <2>1, <2>2 DEF FrameInv
  <2> QED
    BY <1>0, <2>1, <2>2, <2>3, <2>4, <2>5, FrameMoves DEF At
<1> QED
  BY <1>1, <1>2, <1>3, <1>4, <1>5

\* A frame makes the encoder, or what it got of one is left behind.
LEMMA CreateStep ==
  ASSUME NodeInv, fault = "none", Create
  PROVE  NodeInv'
<1> USE DEF NodeInv
<1>0. /\ UNCHANGED <<previewWidth_, previewHeight_, frame, still, stop, resized, fresh, overlapped, mppStatus_, late>>
      /\ video # Idle /\ video.at = "create" /\ video \in Video /\ mppStatus_ = 0
      /\ ~ late => halCtx_ = NoCtx /\ stop \notin {"delete", "forget"}
  <2>1. video # Idle /\ video.at = "create"
    BY DEF Create, At
  <2>2. mppStatus_ = 0 /\ (~ late => halCtx_ = NoCtx /\ stop \notin {"delete", "forget"})
    BY <2>1 DEF MakerInv, At
  <2>3. UNCHANGED <<previewWidth_, previewHeight_, frame, still, stop, resized, fresh, overlapped, mppStatus_, late>>
    BY DEF Create, statics, notVideo, encoder
  <2> QED
    BY <2>1, <2>2, <2>3 DEF NodeType
<1>1. CASE fault' = "no memory" /\ UNCHANGED <<halCtx_, encoders, video>>
  <2>1. NodeType'
    BY <1>0, <1>1 DEF NodeType
  <2>2. MakerInv' /\ FrameInv'
    BY <1>0, <1>1 DEF MakerInv, FrameInv, At
  <2>3. At("create")' /\ fresh' => video'.width = previewWidth_
    BY <1>0, <1>1 DEF FitInv, At
  <2> QED
    BY <1>0, <1>1, <2>1, <2>2, <2>3, FrameMoves DEF At
<1>2. SizeInv'
  BY <1>0 DEF SizeInv, Area
<1> DEFINE n == Len(encoders) + 1
<1>3. ASSUME NEW parts \in SUBSET Parts, NEW made \in BOOLEAN, encoders' = NewEncoder(parts, made)
      PROVE  /\ encoders' \in Seq(Encoder) /\ Len(encoders') = n /\ n \in Nat /\ n # 0
             /\ encoders'[n].parts = parts /\ encoders'[n].made = made
             /\ made => encoders'[n].size = <<video.width, previewHeight_>>
             /\ DOMAIN encoders' = DOMAIN encoders \cup {n}
             /\ \A e \in DOMAIN encoders : e # n /\ encoders'[e] = encoders[e]
  <2> DEFINE new == [parts |-> parts, made |-> made, size |-> IF made THEN <<video.width, previewHeight_>> ELSE NoSize]
  <2>1. new \in Encoder
    BY <1>0 DEF Encoder, Video, NodeType, NoSize
  <2>2. encoders' = Append(encoders, new) /\ encoders \in Seq(Encoder)
    BY <1>3 DEF NewEncoder, NodeType
  <2>3. new.parts = parts /\ new.made = made /\ (made => new.size = <<video.width, previewHeight_>>)
    OBVIOUS
  <2> HIDE DEF new
  <2>4. /\ encoders' \in Seq(Encoder) /\ Len(encoders') = Len(encoders) + 1 /\ Len(encoders) \in Nat
        /\ encoders'[Len(encoders) + 1] = new
        /\ DOMAIN encoders' = DOMAIN encoders \cup {Len(encoders) + 1}
        /\ \A e \in DOMAIN encoders : e # Len(encoders) + 1 /\ encoders'[e] = encoders[e]
    BY <2>1, <2>2
  <2>5. n \in Nat /\ n # 0
    BY <2>4
  <2> QED
    BY <2>3, <2>4, <2>5
<1> HIDE DEF n
<1>a. \A k \in Nat : 0 \in 0 .. k /\ k \in 0 .. k
  OBVIOUS
<1>4. ASSUME NEW parts \in SUBSET Parts, encoders' = NewEncoder(parts, FALSE), halCtx_' = NoCtx,
             video' = Idle, fault' = fault
      PROVE  NodeInv'
  <2>1. /\ encoders' \in Seq(Encoder) /\ Len(encoders') = n /\ n \in Nat /\ ~ encoders'[n].made
        /\ DOMAIN encoders' = DOMAIN encoders \cup {n}
        /\ \A e \in DOMAIN encoders : e # n /\ encoders'[e] = encoders[e]
    BY <1>3, <1>4
  <2>2. halCtx_' \in 0 .. Len(encoders')
    <3>1. Len(encoders') \in Nat /\ halCtx_' = 0
      BY <1>4, <2>1, Zenon DEF NoCtx
    <3> QED
      BY <1>a, <3>1, Zenon
  <2>3. NodeType'
    BY <1>0, <1>4, <2>1, <2>2 DEF NodeType
  <2>4. MakerInv' /\ FrameInv' /\ FitInv' /\ NodeFaultExplained'
    BY <1>0, <1>4 DEF MakerInv, FrameInv, FitInv, EncoderFitsPreview, NodeFaultExplained, At
  <2>5. HeldInv'
    BY <1>0, <1>4, <2>1 DEF HeldInv
  <2> QED
    BY <1>2, <2>3, <2>4, <2>5
<1>5. ASSUME encoders' = NewEncoder(Parts, TRUE), halCtx_' = Len(encoders'),
             video' = [video EXCEPT !.at = "made"], fault' = fault
      PROVE  NodeInv'
  <2>1. /\ encoders' \in Seq(Encoder) /\ Len(encoders') = n /\ n \in Nat /\ n # 0
        /\ encoders'[n].parts = Parts /\ encoders'[n].made
        /\ encoders'[n].size = <<video.width, previewHeight_>>
        /\ DOMAIN encoders' = DOMAIN encoders \cup {n}
        /\ \A e \in DOMAIN encoders : e # n /\ encoders'[e] = encoders[e]
    BY <1>3, <1>5
  <2>2. video' \in Video /\ video' # Idle /\ video'.at = "made"
    BY <1>0, <1>5, Busy DEF Video
  <2>3. halCtx_' = n /\ halCtx_' # NoCtx /\ halCtx_' \in 0 .. Len(encoders')
    <3>1. Len(encoders') = n /\ halCtx_' = n /\ n \in Nat /\ n # 0
      BY <1>5, <2>1, Zenon
    <3> QED
      BY <1>a, <3>1, Zenon DEF NoCtx
  <2>4. NodeType'
    BY <1>0, <1>5, <2>1, <2>2, <2>3 DEF NodeType
  <2>5. MakerInv' /\ FrameInv' /\ NodeFaultExplained'
    BY <1>0, <1>5, <2>2, <2>3 DEF MakerInv, FrameInv, NodeFaultExplained, At
  <2>6. HeldInv'
    <3>1. Parts # {}
      BY DEF Parts
    <3>2. ~ Freed(halCtx_)' /\ encoders'[halCtx_'].made
      BY <2>1, <2>3, <3>1 DEF Freed
    <3>3. ~ late => \A e \in DOMAIN encoders' : encoders'[e].made /\ encoders'[e].parts # {} => halCtx_' = e
      <4> SUFFICES ASSUME ~ late, NEW e \in DOMAIN encoders', encoders'[e].made, encoders'[e].parts # {} PROVE n = e
        BY <2>3
      <4>1. CASE e \in DOMAIN encoders
        <5>1. e # n /\ encoders'[e] = encoders[e] /\ e # NoCtx
          BY <2>1, <4>1 DEF NoCtx, NodeType
        <5> QED
          BY <1>0, <4>1, <5>1 DEF HeldInv
      <4> QED
        BY <2>1, <4>1
    <3> QED
      BY <1>0, <3>2, <3>3 DEF HeldInv
  <2>7. FitInv'
    <3>1. ~ At("create")'
      BY <2>2 DEF At
    <3>2. fresh => video.width = previewWidth_
      BY <1>0 DEF FitInv, At
    <3>3. fresh' => encoders'[halCtx_'].size = <<previewWidth_', previewHeight_'>>
      BY <1>0, <2>1, <2>3, <3>2
    <3> QED
      BY <3>1, <3>3 DEF FitInv, EncoderFitsPreview
  <2> QED
    BY <1>2, <2>4, <2>5, <2>6, <2>7
<1>6. \A s \in DOMAIN HeldAt : HeldAt[s] \in SUBSET Parts
  BY DEF HeldAt, Parts
<1> QED
  BY <1>1, <1>4, <1>5, <1>6 DEF Create, Go, encoder

\* Stop.
LEMMA StopStep ==
  ASSUME NodeInv, fault = "none", StopChecks \/ StopDeletes \/ StopForgets \/ StopResets
  PROVE  NodeInv'
<1> USE DEF NodeInv
<1>0. UNCHANGED <<previewWidth_, previewHeight_, frame, still, video, resized, fresh>>
  BY DEF StopChecks, StopDeletes, Deletes, StopForgets, StopResets, statics, notStop
<1>1. SizeInv'
  BY <1>0 DEF SizeInv, Area
<1>2. CASE StopChecks
  <2>1. /\ UNCHANGED <<halCtx_, mppStatus_, encoders, fault, late>> /\ stop = "idle" /\ stop' = "delete" /\ halCtx_ # NoCtx
        /\ overlapped' = (overlapped \/ video # Idle)
    BY <1>2 DEF StopChecks, encoder
  <2>2. NodeType'
    BY <1>0, <2>1 DEF NodeType
  <2>3. MakerInv' /\ FrameInv' /\ FitInv' /\ NodeFaultExplained'
    BY <1>0, <2>1 DEF MakerInv, FrameInv, FitInv, EncoderFitsPreview, NodeFaultExplained, At, Freed
  <2>4. HeldInv'
    BY <2>1 DEF HeldInv, Freed
  <2> QED
    BY <1>1, <2>2, <2>3, <2>4
<1>3. CASE StopDeletes
  <2>1. /\ UNCHANGED <<halCtx_, mppStatus_, overlapped, late>> /\ stop = "delete" /\ stop' = "forget"
        /\ fault' = (IF halCtx_ # NoCtx /\ Freed(halCtx_) THEN "freed" ELSE fault)
        /\ encoders' = [e \in DOMAIN encoders |->
                          IF e = halCtx_ THEN [encoders[e] EXCEPT !.parts = {}, !.size = NoSize] ELSE encoders[e]]
    BY <1>3 DEF StopDeletes, Deletes
  <2>2. fault' = fault /\ (halCtx_ # NoCtx => halCtx_ \in DOMAIN encoders) /\ (~ late => halCtx_ # NoCtx)
    <3>1. halCtx_ # NoCtx => ~ Freed(halCtx_)
      BY <2>1 DEF HeldInv
    <3>2. halCtx_ # NoCtx => halCtx_ \in DOMAIN encoders
      BY DEF NodeType, NoCtx
    <3>3. ~ late => halCtx_ # NoCtx
      BY <2>1 DEF MakerInv
    <3> QED
      BY <2>1, <3>1, <3>2, <3>3
  <2>3. DOMAIN encoders = 1 .. Len(encoders) /\ \A e \in DOMAIN encoders : encoders[e] \in Encoder
    BY DEF NodeType
  <2>4. \A e \in DOMAIN encoders : /\ encoders'[e] \in Encoder /\ encoders'[e].made = encoders[e].made
                                   /\ encoders'[e].parts = IF e = halCtx_ THEN {} ELSE encoders[e].parts
    <3>1. NoSize \in Nat \X Nat /\ {} \in SUBSET Parts
      BY DEF NoSize
    <3>2. \A r \in Encoder : LET left == [r EXCEPT !.parts = {}, !.size = NoSize]
                            IN  left \in Encoder /\ left.made = r.made /\ left.parts = {}
      BY <3>1 DEF Encoder
    <3>3. \A e \in DOMAIN encoders :
            encoders'[e] = IF e = halCtx_ THEN [encoders[e] EXCEPT !.parts = {}, !.size = NoSize] ELSE encoders[e]
      BY <2>1, Zenon
    <3> TAKE e \in DOMAIN encoders
    <3>4. encoders[e] \in Encoder
      BY <2>3
    <3>5. CASE e = halCtx_
      <4>1. encoders'[e] = [encoders[e] EXCEPT !.parts = {}, !.size = NoSize]
        BY <3>3, <3>5, Zenon
      <4> QED
        BY <3>2, <3>4, <3>5, <4>1, Zenon
    <3>6. CASE e # halCtx_
      BY <3>3, <3>4, <3>6, Zenon
    <3> QED
      BY <3>5, <3>6, Zenon
  <2>5. encoders' \in [1 .. Len(encoders) -> Encoder] /\ Len(encoders) \in Nat
    <3>1. encoders' = [e \in DOMAIN encoders |-> encoders'[e]]
      BY <2>1, Zenon
    <3>2. encoders' \in [DOMAIN encoders -> Encoder]
      BY <2>4, <3>1, Zenon
    <3>3. Len(encoders) \in Nat
      BY DEF NodeType
    <3> QED
      BY <2>3, <3>2, <3>3, Zenon
  <2>6. encoders' \in Seq(Encoder) /\ Len(encoders') = Len(encoders) /\ DOMAIN encoders' = DOMAIN encoders
    BY <2>3, <2>5
  <2>7. NodeType'
    BY <1>0, <2>1, <2>2, <2>6 DEF NodeType
  <2>8. MakerInv' /\ FrameInv' /\ NodeFaultExplained'
    BY <1>0, <2>1, <2>2 DEF MakerInv, FrameInv, NodeFaultExplained, At
  <2>9. HeldInv'
    <3>1. halCtx_ # NoCtx => encoders'[halCtx_].made /\ encoders'[halCtx_].parts = {}
      BY <2>2, <2>4 DEF HeldInv
    <3>2. ~ late => \A e \in DOMAIN encoders' : encoders'[e].made /\ encoders'[e].parts # {} => halCtx_ = e
      BY <2>4, <2>6 DEF HeldInv
    <3> QED
      BY <2>1, <2>2, <3>1, <3>2 DEF HeldInv, Freed
  <2>10. FitInv'
    <3>1. halCtx_' # NoCtx => Freed(halCtx_)'
      BY <2>1, <2>2, <2>4 DEF Freed
    <3> QED
      BY <1>0, <2>1, <3>1 DEF FitInv, EncoderFitsPreview, At
  <2> QED
    BY <1>1, <2>7, <2>8, <2>9, <2>10
<1>4. CASE StopForgets
  <2>1. /\ UNCHANGED <<mppStatus_, encoders, fault, overlapped, late>> /\ stop = "forget" /\ stop' = "status" /\ halCtx_' = NoCtx
    BY <1>4 DEF StopForgets
  <2>2. NodeType'
    BY <1>0, <2>1 DEF NodeType, NoCtx
  <2>3. MakerInv' /\ FrameInv' /\ FitInv' /\ NodeFaultExplained'
    BY <1>0, <2>1 DEF MakerInv, FrameInv, FitInv, EncoderFitsPreview, NodeFaultExplained, At
  <2>4. HeldInv'
    <3>1. ~ late => \A e \in DOMAIN encoders : ~ (encoders[e].made /\ encoders[e].parts # {})
      BY <2>1 DEF HeldInv, Freed
    <3> QED
      BY <2>1, <3>1 DEF HeldInv
  <2> QED
    BY <1>1, <2>2, <2>3, <2>4
<1>5. CASE StopResets
  <2>1. /\ UNCHANGED <<halCtx_, encoders, fault, overlapped>> /\ stop = "status" /\ stop' = "idle" /\ mppStatus_' = 0
        /\ late' = (late \/ (halCtx_ # NoCtx /\ mppStatus_ = 1))
    BY <1>5 DEF StopResets
  <2>2. NodeType'
    BY <1>0, <2>1 DEF NodeType
  <2>3. MakerInv'
    <3>1. ~ late' => ~ late /\ (halCtx_ # NoCtx => mppStatus_ = 0)
      BY <2>1 DEF NodeType
    <3> QED
      BY <1>0, <2>1, <3>1 DEF MakerInv, At
  <2>4. FrameInv' /\ FitInv' /\ NodeFaultExplained'
    BY <1>0, <2>1 DEF FrameInv, FitInv, EncoderFitsPreview, NodeFaultExplained, At, Freed
  <2>5. HeldInv'
    BY <2>1 DEF HeldInv, Freed
  <2> QED
    BY <1>1, <2>2, <2>3, <2>4, <2>5
<1> QED
  BY <1>2, <1>3, <1>4, <1>5

LEMMA InvStep == NodeInv /\ [NodeNext]_nodeVars => NodeInv'
<1> SUFFICES ASSUME NodeInv, [NodeNext]_nodeVars PROVE NodeInv'
  OBVIOUS
<1>1. CASE NodeNext
  <2>1. fault = "none"
    BY <1>1 DEF NodeNext
  <2>2. CASE (\E size \in Sizes : Yuv420ToRGBA8888(size)) \/ StoreHeight
    BY <2>1, <2>2, PreviewStep
  <2>3. CASE Yuv420ToJpeg \/ StillStep
    BY <2>1, <2>3, StillsStep
  <2>4. CASE Yuv420ToH264 \/ ReadWidth \/ Check
    BY <2>1, <2>4, BeginsStep
  <2>5. CASE Create
    BY <2>1, <2>5, CreateStep
  <2>6. CASE Made \/ Mark \/ FrameSize \/ Encode \/ Encoded
    BY <2>1, <2>6, UsesStep
  <2>7. CASE StopChecks \/ StopDeletes \/ StopForgets \/ StopResets
    BY <2>1, <2>7, StopStep
  <2> QED
    BY <1>1, <2>2, <2>3, <2>4, <2>5, <2>6, <2>7 DEF NodeNext
<1>2. CASE UNCHANGED nodeVars
  <2>1. NodeType'
    <3>1. UNCHANGED <<previewWidth_, previewHeight_, halCtx_, mppStatus_, encoders, fault>>
      BY <1>2 DEF nodeVars
    <3>2. UNCHANGED <<frame, still, video, stop, overlapped, resized, fresh, late>>
      BY <1>2 DEF nodeVars
    <3>3. NodeType
      BY DEF NodeInv
    <3>4. /\ previewWidth_' \in Nat /\ previewHeight_' \in Nat /\ mppStatus_' \in {0, 1}
          /\ encoders' \in Seq(Encoder) /\ halCtx_' \in 0 .. Len(encoders')
          /\ fault' \in {"none", "null", "freed", "overrun", "exit", "no memory"}
      BY <3>1, <3>3 DEF NodeType
    <3>5. /\ frame' \in Sizes \cup {Idle} /\ still' \in Still \cup {Idle} /\ video' \in Video \cup {Idle}
          /\ stop' \in {"idle", "delete", "forget", "status"}
      BY <3>2, <3>3 DEF NodeType
    <3>6. overlapped' \in BOOLEAN /\ resized' \in BOOLEAN /\ fresh' \in BOOLEAN /\ late' \in BOOLEAN
      BY <3>2, <3>3 DEF NodeType
    <3> QED
      BY <3>4, <3>5, <3>6 DEF NodeType
  <2>2. MakerInv' /\ HeldInv' /\ FrameInv'
    BY <1>2 DEF nodeVars, NodeInv, MakerInv, HeldInv, FrameInv, At, Freed
  <2>3. SizeInv' /\ FitInv' /\ NodeFaultExplained'
    BY <1>2 DEF nodeVars, NodeInv, SizeInv, FitInv, EncoderFitsPreview, NodeFaultExplained, At, Area, Freed
  <2> QED
    BY <2>1, <2>2, <2>3 DEF NodeInv
<1> QED
  BY <1>1, <1>2

LEMMA InvAlways == NodeSpec => []NodeInv
  BY InvInit, InvStep, PTL DEF NodeSpec

\* A null or freed encoder, a picture beyond its memory and an empty one each have the one
\* cause listed, in every interleaving of the four threads.
THEOREM NodeFaultHasACause == NodeSpec => []NodeFaultExplained
<1>1. NodeInv => NodeFaultExplained
  BY DEF NodeInv
<1> QED
  BY InvAlways, <1>1, PTL

\* Until a Stop is late no encoder that was made is lost, in every interleaving of the four
\* threads; and the encoder the node has was made.
THEOREM EncoderIsNotLost == NodeSpec => []EncoderIsHeld
<1>1. NodeInv => EncoderIsHeld
  BY DEF NodeInv, HeldInv, EncoderIsHeld
<1> QED
  BY InvAlways, <1>1, PTL

\* The encoder has the preview's size for as long as no other was stored, although its two
\* sides are read with nothing between them and the thread that stores them, and whichever
\* Stop was late.
THEOREM EncoderHasTheSize == NodeSpec => []EncoderFitsPreview
<1>1. NodeInv => EncoderFitsPreview
  BY DEF NodeInv, FitInv
<1> QED
  BY InvAlways, <1>1, PTL

\* The node's encoder is the preview's, and the only one until a Stop is late.
THEOREM EncoderIsKept == NodeSpec => []EncoderIsThePreviews
  BY EncoderIsNotLost, EncoderHasTheSize, PTL DEF EncoderIsThePreviews

-----------------------------------------------------------------------------
(* The blitter (Blitter).                                                  *)

LEMMA FormatsAreKept ==
  \A f : f \notin Unsupported \cup {"YCBCR_422_SP", "YVYU_422"} => colorSpaceModeChange(f) = f
  BY DEF colorSpaceModeChange

LEMMA BlitStep == BlitSaysWhatItDid /\ [BlitNext]_blitVars => BlitSaysWhatItDid'
<1> SUFFICES ASSUME BlitSaysWhatItDid, [BlitNext]_blitVars PROVE BlitSaysWhatItDid'
  OBVIOUS
<1>1. CASE UNCHANGED blitVars
  BY <1>1 DEF blitVars, BlitSaysWhatItDid
<1>2. scratch = 0
  BY DEF BlitSaysWhatItDid
\* A request that is processed, into the place it asks for or not.
<1>3. ASSUME NEW r, asked' = r, NEW blend, NEW place, Process(r, blend, place),
             blend = r.blend \/ r.src \in Yuv, place = "asked" \/ (r.src \in Yuv /\ ~ r.scale)
      PROVE  BlitSaysWhatItDid'
  <2>1. scratch' = 0
    BY <1>2, <1>3 DEF Process
  <2>2. CASE answer' = "failure" /\ written' = Nothing
    BY <2>1, <2>2 DEF BlitSaysWhatItDid
  <2>3. CASE answer' = "success" /\ written' = Wrote(r, blend, place)
    <3>1. /\ written'.format = colorSpaceModeChange(r.src) /\ written'.blend = blend
          /\ written'.turn = r.turn /\ written'.place = place
      BY <2>3 DEF Wrote
    <3> QED
      BY <1>3, <2>1, <2>3, <3>1, FormatsAreKept DEF BlitSaysWhatItDid
  <2> QED
    BY <1>3, <2>2, <2>3 DEF Process
<1>4. ASSUME Refuse PROVE BlitSaysWhatItDid'
  BY <1>2, <1>4 DEF Refuse, BlitSaysWhatItDid
<1>5. ASSUME NEW r \in Requests, rkBlit(r) PROVE BlitSaysWhatItDid'
  <2>1. asked' = r
    BY <1>5 DEF rkBlit
  <2>2. ASSUME r.src \in Yuv, Overlay(r) PROVE BlitSaysWhatItDid'
    BY <1>3, <2>1, <2>2 DEF Overlay, Requests
  <2>3. ASSUME r.src \in Yuv, r.blend = "DSTOVER", Beneath(r) PROVE BlitSaysWhatItDid'
    BY <1>2, <2>1, <2>3 DEF Beneath, BlitSaysWhatItDid
  <2>4. ASSUME Process(r, r.blend, "asked") PROVE BlitSaysWhatItDid'
    BY <1>3, <2>1, <2>4
  <2> QED
    BY <1>4, <1>5, <2>2, <2>3, <2>4 DEF rkBlit
<1>6. ASSUME NEW f \in Formats \ Yuv, NEW fd \in {0, 1}, rkFillRect(f, fd) PROVE BlitSaysWhatItDid'
  <2> DEFINE r == [src |-> f, dst |-> f, fd |-> fd, blend |-> "NONE", turn |-> "none", scale |-> TRUE]
  <2>1. asked' = r /\ r.blend = "NONE"
    BY <1>6 DEF rkFillRect
  <2>2. Refuse \/ Process(r, "NONE", "asked")
    BY <1>6, <2>1 DEF rkFillRect
  <2> HIDE DEF r
  <2> QED
    BY <1>3, <1>4, <2>1, <2>2
<1> QED
  BY <1>1, <1>5, <1>6 DEF BlitNext

\* What a call of the blitter that succeeds has drawn, and that one that fails has drawn nothing
\* but beneath (display_gfx.c), for any formats.
THEOREM BlitSaysAlways == BlitSpec => []BlitSaysWhatItDid
<1>1. BlitInit => BlitSaysWhatItDid
  BY DEF BlitInit, BlitSaysWhatItDid
<1> QED
  BY <1>1, BlitStep, PTL DEF BlitSpec

-----------------------------------------------------------------------------
(* The set-up of the encoder (EncoderSetup).                               *)

RefSet == [built : BOOLEAN, held : BOOLEAN, lists : SUBSET {"lt", "st"}]

\* The controls are given in their order; the references are the last, and built when their
\* turn has come.
SetupInv ==
  /\ args \in [area : Areas, type : Codings, gop_mode : GopModes]
  /\ cfg # <<>> => cfg = [bps |-> Bps(args.area), bounds |-> Bounds(Bps(args.area)), qp |-> Qp(args.type), gop |-> 2 * fps]
  /\ given \in Seq({"SET_CFG", "SET_SEI_CFG", "SET_HEADER_MODE", "SET_REF_CFG"})
  /\ Len(given) <= Len(Controls(args)) /\ \A i \in 1 .. Len(given) : given[i] = Controls(args)[i]
  /\ setup \in {"begin", "controls", "done", "failed", "fault"}
  /\ setup = "done" <=> Len(given) = Len(Controls(args))
  /\ ref \in RefSet /\ ref.lists \subseteq Lists(args.gop_mode)
  /\ setup = "begin" => ~ ref.built
  /\ setup = "done" => ~ ref.held
  /\ setup = "fault" \/ ref.held => ref.built
  /\ ref.built => args.gop_mode # 0 /\ Len(given) >= Len(Controls(args)) - 1

\* The four lists of controls.
LEMMA ControlsAre ==
  ASSUME NEW a
  PROVE  LET C == Controls(a) IN
         /\ a.type \in Headed /\ a.gop_mode # 0 =>
              /\ Len(C) = 4 /\ C[1] = "SET_CFG" /\ C[2] = "SET_SEI_CFG" /\ C[3] = "SET_HEADER_MODE" /\ C[4] = "SET_REF_CFG"
         /\ a.type \in Headed /\ a.gop_mode = 0 =>
              Len(C) = 3 /\ C[1] = "SET_CFG" /\ C[2] = "SET_SEI_CFG" /\ C[3] = "SET_HEADER_MODE"
         /\ a.type \notin Headed /\ a.gop_mode # 0 =>
              Len(C) = 3 /\ C[1] = "SET_CFG" /\ C[2] = "SET_SEI_CFG" /\ C[3] = "SET_REF_CFG"
         /\ a.type \notin Headed /\ a.gop_mode = 0 => Len(C) = 2 /\ C[1] = "SET_CFG" /\ C[2] = "SET_SEI_CFG"
  BY DEF Controls

\* The last is for the references, and no other.
LEMMA ControlsShape ==
  ASSUME NEW a
  PROVE  LET C == Controls(a) IN
         /\ Len(C) = (IF a.type \in Headed THEN 3 ELSE 2) + (IF a.gop_mode # 0 THEN 1 ELSE 0)
         /\ \A i \in 1 .. Len(C) :
              /\ C[i] \in {"SET_CFG", "SET_SEI_CFG", "SET_HEADER_MODE", "SET_REF_CFG"}
              /\ C[i] = "SET_REF_CFG" <=> i = Len(C) /\ a.gop_mode # 0
              /\ C[i] = "SET_HEADER_MODE" <=> i = 3 /\ a.type \in Headed
<1> DEFINE C == Controls(a)
<1>1. CASE a.type \in Headed /\ a.gop_mode # 0
  <2>1. Len(C) = 4 /\ C[1] = "SET_CFG" /\ C[2] = "SET_SEI_CFG" /\ C[3] = "SET_HEADER_MODE" /\ C[4] = "SET_REF_CFG"
    BY <1>1, ControlsAre
  <2> HIDE DEF C
  <2>2. \A i \in 1 .. 4 : i = 1 \/ i = 2 \/ i = 3 \/ i = 4
    OBVIOUS
  <2> QED
    BY <1>1, <2>1, <2>2 DEF C
<1>2. CASE a.type \in Headed /\ a.gop_mode = 0
  <2>1. Len(C) = 3 /\ C[1] = "SET_CFG" /\ C[2] = "SET_SEI_CFG" /\ C[3] = "SET_HEADER_MODE"
    BY <1>2, ControlsAre
  <2> HIDE DEF C
  <2>2. \A i \in 1 .. 3 : i = 1 \/ i = 2 \/ i = 3
    OBVIOUS
  <2> QED
    BY <1>2, <2>1, <2>2 DEF C
<1>3. CASE a.type \notin Headed /\ a.gop_mode # 0
  <2>1. Len(C) = 3 /\ C[1] = "SET_CFG" /\ C[2] = "SET_SEI_CFG" /\ C[3] = "SET_REF_CFG"
    BY <1>3, ControlsAre
  <2> HIDE DEF C
  <2>2. \A i \in 1 .. 3 : i = 1 \/ i = 2 \/ i = 3
    OBVIOUS
  <2> QED
    BY <1>3, <2>1, <2>2 DEF C
<1>4. CASE a.type \notin Headed /\ a.gop_mode = 0
  <2>1. Len(C) = 2 /\ C[1] = "SET_CFG" /\ C[2] = "SET_SEI_CFG"
    BY <1>4, ControlsAre
  <2> HIDE DEF C
  <2>2. \A i \in 1 .. 2 : i = 1 \/ i = 2
    OBVIOUS
  <2> QED
    BY <1>4, <2>1, <2>2 DEF C
<1> QED
  BY <1>1, <1>2, <1>3, <1>4

LEMMA SetupStep == SetupInv /\ [SetupNext]_setupVars => SetupInv'
<1> SUFFICES ASSUME SetupInv, [SetupNext]_setupVars PROVE SetupInv'
  OBVIOUS
<1> DEFINE C == Controls(args)
           n == Len(given)
<1>0. n \in Nat /\ Controls(args) = C
  BY DEF SetupInv
<1>1. /\ Len(C) \in 2 .. 4 /\ \A i \in 1 .. Len(C) : C[i] \in {"SET_CFG", "SET_SEI_CFG", "SET_HEADER_MODE", "SET_REF_CFG"}
      /\ \A i \in 1 .. Len(C) : C[i] = "SET_REF_CFG" <=> i = Len(C) /\ args.gop_mode # 0
  <2>1. Len(C) = (IF args.type \in Headed THEN 3 ELSE 2) + (IF args.gop_mode # 0 THEN 1 ELSE 0)
    BY ControlsShape
  <2>2. \A i \in 1 .. Len(C) :
          /\ C[i] \in {"SET_CFG", "SET_SEI_CFG", "SET_HEADER_MODE", "SET_REF_CFG"}
          /\ C[i] = "SET_REF_CFG" <=> i = Len(C) /\ args.gop_mode # 0
    BY ControlsShape
  <2> HIDE DEF C
  <2>3. Len(C) \in 2 .. 4
    BY <2>1
  <2> QED
    BY <2>2, <2>3
<1>2. CASE UNCHANGED setupVars
  <2>1. Controls(args)' = Controls(args) /\ UNCHANGED <<args, cfg, given, setup, ref>>
    BY <1>2 DEF setupVars
  <2> QED
    BY <2>1 DEF SetupInv
<1>3. CASE Configure
  BY <1>3 DEF Configure, SetupInv
<1>4. CASE BuildRefs
  <2>1. /\ setup = "controls" /\ n < Len(C) /\ C[n + 1] = "SET_REF_CFG" /\ UNCHANGED <<args, cfg, given>>
        /\ \/ ref' = [NoRef EXCEPT !.built = TRUE] /\ setup' \in {"controls", "fault"}
           \/ \E lists \in SUBSET Lists(args.gop_mode) :
                ref' = [built |-> TRUE, held |-> TRUE, lists |-> lists] /\ setup' = setup
    BY <1>4 DEF BuildRefs, MayControl, Left
  <2>2. ref' \in RefSet /\ ref'.built /\ ref'.lists \subseteq Lists(args.gop_mode)
    <3>1. Lists(args.gop_mode) \subseteq {"lt", "st"}
      BY DEF Lists
    <3>2. CASE ref' = [NoRef EXCEPT !.built = TRUE]
      BY <3>2 DEF NoRef, RefSet
    <3>3. ASSUME NEW lists \in SUBSET Lists(args.gop_mode), ref' = [built |-> TRUE, held |-> TRUE, lists |-> lists]
          PROVE  ref' \in RefSet /\ ref'.built /\ ref'.lists \subseteq Lists(args.gop_mode)
      BY <3>1, <3>3 DEF RefSet
    <3> QED
      BY <2>1, <3>2, <3>3
  <2>3. setup' \in {"controls", "fault"}
    BY <2>1
  <2>4. Controls(args)' = Controls(args) /\ Lists(args.gop_mode)' = Lists(args.gop_mode)
    BY <2>1
  <2> HIDE DEF C
  <2>5. n + 1 = Len(C) /\ args.gop_mode # 0
    <3>1. n + 1 \in 1 .. Len(C)
      BY <1>0, <1>1, <2>1
    <3> QED
      BY <1>1, <2>1, <3>1
  <2> QED
    BY <1>0, <2>1, <2>2, <2>3, <2>4, <2>5 DEF SetupInv
<1>5. CASE TakeControl
  <2>1. /\ setup = "controls" /\ n < Len(C) /\ given' = Append(given, C[n + 1])
        /\ C[n + 1] = "SET_REF_CFG" => ref.built
        /\ setup' = (IF Len(given') = Len(C) THEN "done" ELSE setup)
        /\ ref' = (IF C[n + 1] = "SET_REF_CFG" THEN [ref EXCEPT !.held = FALSE] ELSE ref)
        /\ UNCHANGED <<args, cfg>>
    BY <1>5 DEF TakeControl, MayControl, GivenBack, Left
  <2>2. ref \in RefSet /\ (ref.built => n >= Len(C) - 1 /\ args.gop_mode # 0) /\ (ref.held => ref.built)
    BY DEF SetupInv
  <2> HIDE DEF C
  <2>3. /\ given' \in Seq({"SET_CFG", "SET_SEI_CFG", "SET_HEADER_MODE", "SET_REF_CFG"}) /\ Len(given') = n + 1
        /\ \A i \in 1 .. n + 1 : given'[i] = C[i]
    BY <1>0, <1>1, <2>1 DEF SetupInv
  <2>4. Controls(args)' = C /\ Lists(args.gop_mode)' = Lists(args.gop_mode)
    BY <1>0, <2>1
  <2>5. n + 1 \in 1 .. Len(C) /\ (C[n + 1] = "SET_REF_CFG" <=> n + 1 = Len(C) /\ args.gop_mode # 0)
    BY <1>0, <1>1, <2>1
  <2>6. ref' \in RefSet /\ ref'.lists = ref.lists /\ (ref'.held => ref.held) /\ ref'.built = ref.built
    BY <2>1, <2>2 DEF RefSet
  <2>7. n + 1 = Len(C) => ~ ref'.held
    <3>1. CASE C[n + 1] = "SET_REF_CFG"
      BY <2>1, <2>2, <3>1 DEF RefSet
    <3>2. CASE C[n + 1] # "SET_REF_CFG"
      BY <2>2, <2>5, <2>6, <3>2
    <3> QED
      BY <3>1, <3>2
  <2>8. setup' \in {"controls", "done"} /\ (setup' = "done" <=> n + 1 = Len(C))
    BY <2>1, <2>3
  <2>9. ref.lists \subseteq Lists(args.gop_mode) /\ (ref.built => n + 1 >= Len(C) - 1)
    BY <1>0, <1>1, <2>2 DEF SetupInv
  <2> QED
    BY <1>0, <1>1, <2>1, <2>2, <2>3, <2>4, <2>5, <2>6, <2>7, <2>8, <2>9 DEF SetupInv
<1>6. CASE RefuseControl
  <2>1. n < Len(C) /\ setup = "controls" /\ setup' = "failed" /\ UNCHANGED <<args, cfg, given, ref>>
    BY <1>6 DEF RefuseControl, MayControl
  <2>2. Controls(args)' = Controls(args)
    BY <2>1
  <2> QED
    BY <2>1, <2>2 DEF SetupInv
<1> QED
  BY <1>2, <1>3, <1>4, <1>5, <1>6 DEF SetupNext

LEMMA SignedSmall == ASSUME NEW n \in Nat, n < SetupWord \div 2 PROVE Signed(n) = n
<1>1. SetupWord \in Nat \ {0} /\ n < SetupWord
  BY EncoderSetupAssumption
<1>2. n % SetupWord = n
  BY <1>1
<1> QED
  BY <1>2 DEF Signed

\* The rates of an area that is small enough for its words.
LEMMA RatesAre == ASSUME SetupInv PROVE RatesOrdered
<1> SUFFICES ASSUME cfg # <<>>
             PROVE  /\ args.area * 128 < SetupWord => cfg.bounds.min <= cfg.bps /\ cfg.bps <= cfg.bounds.max
                    /\ cfg.qp.min <= cfg.qp.init /\ cfg.qp.init <= cfg.qp.max
  BY DEF RatesOrdered
<1> DEFINE a == args.area
           b == (a \div 8) * 30
<1>1. cfg.bps = Bps(a) /\ cfg.bounds = Bounds(Bps(a)) /\ cfg.qp = Qp(args.type)
  BY DEF SetupInv
<1>2. Qp(args.type).min <= Qp(args.type).init /\ Qp(args.type).init <= Qp(args.type).max
  BY DEF Qp, NoQp
<1>3. ASSUME a * 128 < SetupWord PROVE cfg.bounds.min <= cfg.bps /\ cfg.bps <= cfg.bounds.max
  <2>1. a \in Nat /\ SetupWord \in Nat /\ SetupWord % 2 = 0
    <3>1. a \in Areas
      BY DEF SetupInv
    <3>2. Areas \subseteq 0 .. SetupWord - 1 /\ SetupWord \in Nat /\ SetupWord % 2 = 0
      BY EncoderSetupAssumption
    <3> HIDE DEF a
    <3>3. a \in 0 .. SetupWord - 1
      BY <3>1, <3>2
    <3> QED
      BY <3>2, <3>3
  <2>2. b \in Nat /\ b * 17 < SetupWord \div 2
    BY <1>3, <2>1
  <2> HIDE DEF a
  <2>3. Bps(a) = b
    BY <2>1, <2>2, SignedSmall DEF Bps, fps
  <2> HIDE DEF b
  <2>4. Signed(b * 17) = b * 17 /\ Signed(b) = b
    BY <2>1, <2>2, SignedSmall
  <2>5. Bounds(b) = [max |-> (b * 17) \div 16, min |-> b \div 16]
    BY <2>2, <2>4 DEF Bounds, Quot
  <2>6. (b \div 16) <= b /\ b <= ((b * 17) \div 16)
    BY <2>2
  <2> QED
    BY <1>1, <2>3, <2>5, <2>6
<1> QED
  BY <1>1, <1>2, <1>3

\* What the encoder was given when the set-up succeeds and what is lost when it fails
\* (mpi_enc_utils.c), for any size, coding and word.
THEOREM SetupIsWhole == SetupSpec => []EncoderSetupIsWhole
<1>1. SetupInit => SetupInv
  <2> SUFFICES ASSUME SetupInit PROVE SetupInv
    OBVIOUS
  <2>1. Len(Controls(args)) >= 2
    BY ControlsAre
  <2>2. NoRef \in RefSet /\ ~ NoRef.built /\ ~ NoRef.held /\ NoRef.lists = {}
    BY DEF NoRef, RefSet
  <2> QED
    BY <2>1, <2>2 DEF SetupInit, SetupInv
<1>2. SetupInv => EncoderSetupIsWhole
  <2> SUFFICES ASSUME SetupInv PROVE EncoderSetupIsWhole
    OBVIOUS
  <2> DEFINE C == Controls(args)
             n == Len(given)
  <2>1. n \in Nat /\ n <= Len(C) /\ (\A i \in 1 .. n : given[i] = C[i]) /\ ToSet(given) = {given[i] : i \in 1 .. n}
    BY DEF SetupInv, ToSet
  <2>2. args.gop_mode \in Nat /\ Headed = {"AVC", "HEVC"}
    BY EncoderSetupAssumption DEF SetupInv, Headed
  <2>3. ASSUME setup = "done"
        PROVE  /\ ToSet(given) = {"SET_CFG", "SET_SEI_CFG"}
                    \cup (IF args.type \in {"AVC", "HEVC"} THEN {"SET_HEADER_MODE"} ELSE {})
                    \cup (IF args.gop_mode > 0 THEN {"SET_REF_CFG"} ELSE {})
               /\ "lt" \in ref.lists => args.gop_mode = 3
               /\ args.gop_mode > 3 => ref.lists = {}
               /\ ~ ref.held
    <3>1. n = Len(C)
      BY <2>3 DEF SetupInv
    <3>2. ("lt" \in ref.lists => args.gop_mode = 3) /\ (args.gop_mode > 3 => ref.lists = {}) /\ ~ ref.held
      <4>1. ref.lists \subseteq Lists(args.gop_mode) /\ ~ ref.held
        BY <2>3 DEF SetupInv
      <4>2. args.gop_mode > 3 => args.gop_mode \notin {1, 2, 3}
        BY <2>2
      <4> QED
        BY <4>1, <4>2 DEF Lists
    <3>3. ToSet(given) = {C[i] : i \in 1 .. Len(C)}
      BY <2>1, <3>1
    <3> HIDE DEF C
    <3>4. {C[i] : i \in 1 .. Len(C)} = {"SET_CFG", "SET_SEI_CFG"}
                    \cup (IF args.type \in {"AVC", "HEVC"} THEN {"SET_HEADER_MODE"} ELSE {})
                    \cup (IF args.gop_mode > 0 THEN {"SET_REF_CFG"} ELSE {})
      <4>1. CASE args.type \in Headed /\ args.gop_mode # 0
        BY <2>2, <4>1, ControlsAre DEF C
      <4>2. CASE args.type \in Headed /\ args.gop_mode = 0
        BY <2>2, <4>2, ControlsAre DEF C
      <4>3. CASE args.type \notin Headed /\ args.gop_mode # 0
        BY <2>2, <4>3, ControlsAre DEF C
      <4>4. CASE args.type \notin Headed /\ args.gop_mode = 0
        BY <2>2, <4>4, ControlsAre DEF C
      <4> QED
        BY <4>1, <4>2, <4>3, <4>4
    <3> QED
      BY <3>2, <3>3, <3>4
  <2>4. ASSUME ref.built, setup # "done"
        PROVE  /\ args.gop_mode > 0 /\ n = (IF args.type \in {"AVC", "HEVC"} THEN 3 ELSE 2)
               /\ "SET_SEI_CFG" \in ToSet(given)
    <3>1. n >= Len(C) - 1 /\ n # Len(C) /\ args.gop_mode # 0
      BY <2>4 DEF SetupInv
    <3>2. Len(C) = (IF args.type \in {"AVC", "HEVC"} THEN 4 ELSE 3) /\ C[2] = "SET_SEI_CFG"
      BY <2>2, <3>1, ControlsAre
    <3>3. ToSet(given) = {given[i] : i \in 1 .. n} /\ n \in Nat /\ n <= Len(C) /\ \A i \in 1 .. n : given[i] = C[i]
      BY <2>1
    <3> HIDE DEF C, n
    <3>4. n + 1 = Len(C)
      BY <3>1, <3>2, <3>3
    <3>5. n = (IF args.type \in {"AVC", "HEVC"} THEN 3 ELSE 2) /\ 2 \in 1 .. n
      BY <3>2, <3>3, <3>4
    <3>6. "SET_SEI_CFG" \in ToSet(given)
      BY <3>2, <3>3, <3>5
    <3> QED
      BY <2>2, <3>1, <3>5, <3>6
  <2>5. (setup = "failed" /\ ref.held => ref.built) /\ (setup = "fault" => ref.built)
    BY DEF SetupInv
  <2> QED
    BY <2>3, <2>4, <2>5, RatesAre DEF EncoderSetupIsWhole
<1> QED
  BY <1>1, <1>2, SetupStep, PTL DEF SetupSpec

-----------------------------------------------------------------------------
(* Encoded frames and streams (EncodedStream).                             *)

\* An IDR slice's header right behind a start code, i bytes into the frame.
IdrAt(d, i) == findStartCode(d, i) /\ NAL_TYPE(d[i + 5]) = 5

\* A start code begins at none of the three bytes behind one.
LEMMA StartCodesApart ==
  ASSUME NEW d \in Seq(Nat), NEW i \in Nat, findStartCode(d, i), NEW j \in Nat, i < j, j < i + 4
  PROVE  ~ findStartCode(d, j)
<1>1. \A k \in {i, j} : findStartCode(d, k) =>
        d[k + 1] = 0 /\ d[k + 2] = 0 /\ d[k + 3] = 0 /\ d[k + 4] = 1
  <2> SUFFICES ASSUME NEW k \in Nat, findStartCode(d, k)
               PROVE  d[k + 1] = 0 /\ d[k + 2] = 0 /\ d[k + 3] = 0 /\ d[k + 4] = 1
    OBVIOUS
  <2> DEFINE s == SubSeq(d, k + 1, k + 4)
  <2>1. s = <<0, 0, 0, 1>> /\ Len(d) > k + 4
    BY DEF findStartCode
  <2>2. s[1] = d[k + 1] /\ s[2] = d[k + 2] /\ s[3] = d[k + 3] /\ s[4] = d[k + 4]
    BY <2>1
  <2> HIDE DEF s
  <2>3. s[1] = 0 /\ s[2] = 0 /\ s[3] = 0 /\ s[4] = 1
    BY <2>1
  <2> QED
    BY <2>2, <2>3
<1>2. j + 1 \in {i + 2, i + 3, i + 4} /\ i + 4 \in {j + 1, j + 2, j + 3}
  OBVIOUS
<1> QED
  BY <1>1, <1>2

\* What the rest of the loop finds: there is no need to follow it.
Ahead(d) == [idx \in 0 .. Len(d) + 5 |-> \E i \in Nat : idx <= i /\ IdrAt(d, i)]

\* An iteration of the loop, with what the next one finds.
Iteration(d, from) ==
  [idx \in 0 .. Len(d) + 5 |->
     IF idx >= Len(d) THEN FALSE
     ELSE IF ~ findStartCode(d, idx) THEN from[idx + 1]
     ELSE NAL_TYPE(d[idx + 5]) = 5 \/ from[idx + 4]]

LEMMA AheadIterates == ASSUME NEW d \in Seq(Nat) PROVE Ahead(d) = Iteration(d, Ahead(d))
<1> DEFINE A == Ahead(d)
           Finds(from, idx) == IF idx >= Len(d) THEN FALSE
                              ELSE IF ~ findStartCode(d, idx) THEN from[idx + 1]
                              ELSE NAL_TYPE(d[idx + 5]) = 5 \/ from[idx + 4]
<1> SUFFICES ASSUME NEW idx \in 0 .. Len(d) + 5 PROVE A[idx] = Finds(A, idx)
  BY Zenon DEF Ahead, Iteration
<1>0. Len(d) \in Nat /\ idx \in Nat
  OBVIOUS
<1>1. A[idx] = \E i \in Nat : idx <= i /\ IdrAt(d, i)
  BY DEF Ahead
<1>2. \A i \in Nat : findStartCode(d, i) => i + 4 < Len(d)
  BY DEF findStartCode
<1> HIDE DEF A
<1>3. CASE idx >= Len(d)
  <2>1. ~ \E i \in Nat : idx <= i /\ IdrAt(d, i)
    BY <1>0, <1>2, <1>3 DEF IdrAt
  <2>2. A[idx] = FALSE
    BY <1>1, <2>1, Zenon
  <2> QED
    BY <1>3, <2>2, Zenon
<1>4. CASE idx < Len(d) /\ ~ findStartCode(d, idx)
  <2>1. idx + 1 \in 0 .. Len(d) + 5
    BY <1>0, <1>4
  <2>2. A[idx + 1] = \E i \in Nat : idx + 1 <= i /\ IdrAt(d, i)
    BY <2>1 DEF A, Ahead
  <2>3. \A i \in Nat : idx <= i /\ IdrAt(d, i) => idx + 1 <= i
    BY <1>0, <1>4 DEF IdrAt
  <2>4. A[idx] = A[idx + 1]
    BY <1>0, <1>1, <2>2, <2>3
  <2>5. ~ (idx >= Len(d))
    BY <1>0, <1>4
  <2> QED
    BY <1>4, <2>4, <2>5, Zenon
<1>5. CASE findStartCode(d, idx)
  <2>1. idx + 4 \in 0 .. Len(d) + 5 /\ ~ (idx >= Len(d))
    BY <1>0, <1>2, <1>5
  <2>2. A[idx + 4] = \E i \in Nat : idx + 4 <= i /\ IdrAt(d, i)
    BY <2>1 DEF A, Ahead
  <2>3. \A i \in Nat : idx <= i /\ IdrAt(d, i) => i = idx \/ idx + 4 <= i
    BY <1>0, <1>5, StartCodesApart DEF IdrAt
  <2>4. A[idx] = (NAL_TYPE(d[idx + 5]) = 5 \/ A[idx + 4])
    <3>1. (\E i \in Nat : idx <= i /\ IdrAt(d, i)) <=> IdrAt(d, idx) \/ \E i \in Nat : idx + 4 <= i /\ IdrAt(d, i)
      <4> HIDE DEF IdrAt
      <4> QED
        BY <1>0, <2>3
    <3>2. IdrAt(d, idx) <=> NAL_TYPE(d[idx + 5]) = 5
      BY <1>5 DEF IdrAt
    <3> QED
      BY <1>1, <2>2, <3>1, <3>2
  <2> QED
    BY <1>5, <2>1, <2>4, Zenon
<1> QED
  <2>1. idx >= Len(d) \/ idx < Len(d)
    BY <1>0
  <2> HIDE DEF Finds
  <2> QED
    BY <1>3, <1>4, <1>5, <2>1

\* Each iteration leaves less of the frame to look at, so there is one function at most that
\* is what the loop finds.
LEMMA IterationEnds ==
  ASSUME NEW d \in Seq(Nat), NEW f, NEW g, f = Iteration(d, f), g = Iteration(d, g)
  PROVE  f = g
<1> DEFINE N == Len(d) + 5
           Differs == {k \in Nat : k <= N /\ f[N - k] # g[N - k]}
<1>0. N \in Nat /\ Len(d) \in Nat /\ N = Len(d) + 5
  OBVIOUS
<1> HIDE DEF N
<1>1. \A idx \in 0 .. N : f[idx] = Iteration(d, f)[idx] /\ g[idx] = Iteration(d, g)[idx]
  BY Zenon
<1>2. ASSUME Differs # {} PROVE FALSE
  <2>1. PICK k \in Differs : \A m \in Differs : <<m, k>> \notin OpToRel(<, Nat)
    BY <1>2, WFMin, NatLessThanWellFounded
  <2>2. \A m \in Differs : ~ (m < k)
    BY <2>1 DEF OpToRel
  <2> DEFINE idx == N - k
  <2>3. idx \in 0 .. N /\ f[idx] # g[idx]
    <3>1. k \in Nat /\ k <= N /\ f[N - k] # g[N - k]
      BY <2>1
    <3> QED
      BY <1>0, <3>1
  <2>4. \A j \in 0 .. N : j > idx => f[j] = g[j]
    <3> SUFFICES ASSUME NEW j \in 0 .. N, j > idx, f[j] # g[j] PROVE FALSE
      OBVIOUS
    <3>1. N - j \in Nat /\ N - j <= N /\ N - (N - j) = j /\ N - j < k
      <4>1. k \in Nat /\ k <= N
        BY <2>1
      <4> QED
        BY <1>0, <4>1
    <3>2. N - j \in Differs
      BY <3>1
    <3> QED
      BY <2>2, <3>1, <3>2
  <2> HIDE DEF idx, Differs
  <2>5. CASE idx >= Len(d)
    BY <1>0, <1>1, <2>3, <2>5 DEF Iteration
  <2>6. CASE ~ (idx >= Len(d)) /\ ~ findStartCode(d, idx)
    <3>1. idx + 1 \in 0 .. N /\ idx + 1 > idx
      BY <1>0, <2>3, <2>6
    <3> QED
      BY <1>0, <1>1, <2>3, <2>4, <2>6, <3>1 DEF Iteration
  <2>7. CASE ~ (idx >= Len(d)) /\ findStartCode(d, idx)
    <3>1. idx + 4 \in 0 .. N /\ idx + 4 > idx
      BY <1>0, <2>3, <2>7
    <3> QED
      BY <1>0, <1>1, <2>3, <2>4, <2>7, <3>1 DEF Iteration
  <2> QED
    BY <2>5, <2>6, <2>7
<1>3. \A idx \in 0 .. N : f[idx] = g[idx]
  <2> SUFFICES ASSUME NEW idx \in 0 .. N, f[idx] # g[idx] PROVE FALSE
    OBVIOUS
  <2>1. N - idx \in Nat /\ N - idx <= N /\ N - (N - idx) = idx
    BY <1>0
  <2> QED
    BY <1>2, <2>1
<1>4. f = [idx \in 0 .. N |-> f[idx]] /\ g = [idx \in 0 .. N |-> g[idx]]
  BY <1>0 DEF Iteration
<1> QED
  BY <1>3, <1>4

\* The recursive function of SerchIFps is the one there is.
LEMMA SearchFinds == ASSUME NEW d \in Seq(Nat) PROVE SerchIFps(d) = \E i \in Nat : IdrAt(d, i)
<1> DEFINE From == CHOOSE from : from = Iteration(d, from)
<1>1. SerchIFps(d) = From[0]
  BY DEF SerchIFps, Iteration
<1>2. From = Iteration(d, From)
  BY AheadIterates
<1>3. From = Ahead(d)
  BY <1>2, AheadIterates, IterationEnds
<1> QED
  BY <1>1, <1>3 DEF Ahead


LEMMA KeyFrames == ASSUME data \in Seq(Nat) PROVE KeyFrameIsFlagged
<1>1. SerchIFps(data) <=> \E i \in Nat : IdrAt(data, i)
  BY SearchFinds
<1>2. \A i \in Nat : IdrAt(data, i) =>
        /\ i + 1 \in 1 .. Len(data) - 4
        /\ SubSeq(data, i + 1, (i + 1) + 3) = <<0, 0, 0, 1>> /\ data[(i + 1) + 4] % 32 = 5
  <2> SUFFICES ASSUME NEW i \in Nat, IdrAt(data, i)
               PROVE  /\ i + 1 \in 1 .. Len(data) - 4
                      /\ SubSeq(data, i + 1, (i + 1) + 3) = <<0, 0, 0, 1>> /\ data[(i + 1) + 4] % 32 = 5
    OBVIOUS
  <2>1. (i + 1) + 3 = i + 4 /\ (i + 1) + 4 = i + 5
    OBVIOUS
  <2>2. Len(data) - i > 4 /\ SubSeq(data, i + 1, i + 4) = <<0, 0, 0, 1>> /\ data[i + 5] % 32 = 5
    BY DEF IdrAt, findStartCode, NAL_TYPE
  <2>3. i + 1 \in 1 .. Len(data) - 4
    BY <2>2
  <2> QED
    BY <2>1, <2>2, <2>3
<1>3. ASSUME NEW i \in 1 .. Len(data) - 4,
             SubSeq(data, i, i + 3) = <<0, 0, 0, 1>> /\ data[i + 4] % 32 = 5
      PROVE  i - 1 \in Nat /\ IdrAt(data, i - 1)
  <2>1. i - 1 \in Nat /\ (i - 1) + 1 = i /\ (i - 1) + 4 = i + 3 /\ (i - 1) + 5 = i + 4 /\ Len(data) - (i - 1) > 4
    OBVIOUS
  <2> QED
    BY <1>3, <2>1 DEF IdrAt, findStartCode, NAL_TYPE
<1> QED
  BY <1>1, <1>2, <1>3 DEF KeyFrameIsFlagged

-----------------------------------------------------------------------------
(* References.                                                             *)

\* Where frame n is in its group.
InGroup(n, g) == ((n - 1) % g) + 1

LEMMA MaxIs == ASSUME NEW S \in SUBSET Int, NEW x \in S, \A y \in S : y <= x PROVE Max(S) = x
<1>1. \A z \in S : (\A y \in S : z >= y) => z = x
  OBVIOUS
<1>2. \A y \in S : x >= y
  OBVIOUS
<1> QED
  BY <1>1, <1>2 DEF Max

LEMMA Entries ==
  ASSUME NEW m \in 1 .. 3, NEW n \in Nat
  PROVE  /\ Kept(m, n) <=> n % 2 = 0
         /\ Layer(m, n) = 0 <=> n % (2 ^ m) = 0
<1>1. CASE m = 1
  BY <1>1 DEF Kept, Layer, Entry, is_non_ref, temporal_id
<1>2. CASE m = 2
  BY <1>2 DEF Kept, Layer, Entry, is_non_ref, temporal_id
<1>3. CASE m = 3
  BY <1>3 DEF Kept, Layer, Entry, is_non_ref, temporal_id
<1> QED
  BY <1>1, <1>2, <1>3

LEMMA GroupSize == ASSUME NEW m \in 1 .. 3 PROVE (m = 1 /\ 2 ^ m = 2) \/ (m = 2 /\ 2 ^ m = 4) \/ (m = 3 /\ 2 ^ m = 8)
<1>1. ASSUME m = 1 PROVE 2 ^ m = 2
  BY <1>1
<1>2. ASSUME m = 2 PROVE 2 ^ m = 4
  BY <1>2
<1>3. ASSUME m = 3 PROVE 2 ^ m = 8
  BY <1>3
<1> QED
  BY <1>1, <1>2, <1>3

\* Which frame each way of finding a reference comes to.
LEMMA LatestIs ==
  ASSUME NEW m \in 1 .. 3, NEW n \in Nat, n >= 1
  PROVE  /\ Latest(m, n, "kept") = (n - 1) - ((n - 1) % 2)
         /\ Latest(m, n, "layer") = (n - 1) - ((n - 1) % (2 ^ m))
         /\ m = 3 => Latest(m, n, "longterm") = (n - 1) - ((n - 1) % 8)
<1> DEFINE Is(how, g) ==
      \A f \in 0 .. n - 1 :
        (/\ Kept(m, f)
         /\ how = "layer" => Layer(m, f) = 0
         /\ how = "longterm" => m = 3 /\ f % lt_gap = 0) <=> f % g = 0
<1>1. \A f \in 0 .. n - 1 : (Kept(m, f) <=> f % 2 = 0) /\ (Layer(m, f) = 0 <=> f % (2 ^ m) = 0)
  <2> SUFFICES ASSUME NEW f \in Nat
               PROVE  (Kept(m, f) <=> f % 2 = 0) /\ (Layer(m, f) = 0 <=> f % (2 ^ m) = 0)
    OBVIOUS
  <2> QED
    BY Entries
<1>2. 2 ^ m \in {2, 4, 8}
  BY GroupSize
<1>3. Is("kept", 2)
  BY <1>1
<1>4. Is("layer", 2 ^ m)
  <2>1. \A f \in 0 .. n - 1 : f % (2 ^ m) = 0 => f % 2 = 0
    BY <1>2
  <2> QED
    BY <1>1, <2>1
<1>5. m = 3 => Is("longterm", 8)
  <2>1. \A f \in 0 .. n - 1 : f % 8 = 0 => f % 2 = 0
    OBVIOUS
  <2> QED
    BY <1>1, <2>1 DEF lt_gap
<1>6. ASSUME NEW how, NEW g \in {2, 4, 8}, Is(how, g)
      PROVE  Latest(m, n, how) = (n - 1) - ((n - 1) % g)
  <2> DEFINE S == {f \in 0 .. n - 1 : f % g = 0}
             x == (n - 1) - ((n - 1) % g)
  <2>1. Latest(m, n, how) = Max(S)
    BY <1>6 DEF Latest
  <2>2. x \in S /\ \A y \in S : y <= x
    <3>1. CASE g = 2
      BY <3>1
    <3>2. CASE g = 4
      BY <3>2
    <3>3. CASE g = 8
      BY <3>3
    <3> QED
      BY <3>1, <3>2, <3>3
  <2>3. S \in SUBSET Int
    OBVIOUS
  <2> HIDE DEF S, x
  <2>4. Max(S) = x
    BY <2>2, <2>3, MaxIs
  <2> QED
    BY <2>1, <2>4 DEF x
<1> HIDE DEF Is
<1> QED
  BY <1>2, <1>3, <1>4, <1>5, <1>6

LEMMA LowBitIs ==
  /\ LowBit(1) = 1 /\ LowBit(3) = 1 /\ LowBit(5) = 1 /\ LowBit(7) = 1
  /\ LowBit(2) = 2 /\ LowBit(6) = 2 /\ LowBit(4) = 4
<1>1. \A k \in 1 .. 7 : \A x \in {b \in {1, 2, 4, 8} : k % b = 0} :
        (\A y \in {b \in {1, 2, 4, 8} : k % b = 0} : y <= x) => LowBit(k) = x
  BY MaxIs DEF LowBit
<1> QED
  BY <1>1

\* A structure's entries but the first are one group's.
LEMMA Repeats ==
  ASSUME NEW m \in 1 .. 3
  PROVE  (m = 1 /\ Len(temporal_id[m]) - 1 = 2) \/ (m = 2 /\ Len(temporal_id[m]) - 1 = 4) \/ (m = 3 /\ Len(temporal_id[m]) - 1 = 8)
  BY DEF temporal_id

LEMMA EntryIs ==
  ASSUME NEW m \in 1 .. 3, NEW n \in Nat, n >= 1
  PROVE  Entry(m, n) = InGroup(n, 2 ^ m) + 1
<1>1. n # 0
  OBVIOUS
<1>2. Entry(m, n) = 2 + ((n - 1) % (Len(temporal_id[m]) - 1))
  BY <1>1, Zenon DEF Entry
<1>3. Len(temporal_id[m]) - 1 = 2 ^ m
  <2> DEFINE l == Len(temporal_id[m]) - 1
             g == 2 ^ m
  <2>1. (m = 1 /\ l = 2) \/ (m = 2 /\ l = 4) \/ (m = 3 /\ l = 8)
    BY Repeats, Zenon
  <2>2. (m = 1 /\ g = 2) \/ (m = 2 /\ g = 4) \/ (m = 3 /\ g = 8)
    BY GroupSize, Zenon
  <2> HIDE DEF l, g
  <2>3. l = g
    BY <2>1, <2>2
  <2> QED
    BY <2>3 DEF l, g
<1>4. Entry(m, n) = 2 + ((n - 1) % (2 ^ m))
  BY <1>2, <1>3, Zenon
<1>5. 2 ^ m \in {2, 4, 8}
  BY GroupSize
<1> DEFINE r == (n - 1) % (2 ^ m)
<1>6. r \in Nat
  BY <1>5
<1> HIDE DEF r
<1>7. 2 + r = (r + 1) + 1
  BY <1>6
<1> QED
  BY <1>4, <1>7, Zenon DEF InGroup, r

\* A frame is of the highest layer that its number allows.
LEMMA LayerIs ==
  ASSUME NEW m \in 1 .. 3, NEW n \in Nat, n >= 1, NEW k \in 1 .. 2 ^ m, k = InGroup(n, 2 ^ m)
  PROVE  /\ Layer(m, n) = temporal_id[m][k + 1] /\ ref_mode[m][Entry(m, n)] = ref_mode[m][k + 1]
         /\ n % (2 ^ m) = k % (2 ^ m)
<1>1. Entry(m, n) = k + 1
  BY EntryIs
<1> DEFINE g == 2 ^ m
<1>2. g = 2 \/ g = 4 \/ g = 8
  BY GroupSize
<1>3. k = ((n - 1) % g) + 1
  BY DEF InGroup
<1> HIDE DEF g
<1>4. n % g = k % g
  <2>1. CASE g = 2
    BY <1>3, <2>1
  <2>2. CASE g = 4
    BY <1>3, <2>2
  <2>3. CASE g = 8
    BY <1>3, <2>3
  <2> QED
    BY <1>2, <2>1, <2>2, <2>3
<1> QED
  BY <1>1, <1>4, Zenon DEF Layer, g

\* How far back the k-th frame of a group of g refers.
Back(k, g) == IF k = g THEN g ELSE LowBit(k)

\* The frame that frame n refers to, the k-th of a group of g, and its layer.
LEMMA RefersTo ==
  ASSUME NEW m \in 1 .. 3, NEW n \in Nat, n >= 1
  PROVE  /\ mpi_enc_gen_ref_cfg(m, n) \in Nat
         /\ mpi_enc_gen_ref_cfg(m, n) = n - Back(InGroup(n, 2 ^ m), 2 ^ m)
         /\ Kept(m, mpi_enc_gen_ref_cfg(m, n))
         /\ \/ Layer(m, mpi_enc_gen_ref_cfg(m, n)) < Layer(m, n)
            \/ {Layer(m, mpi_enc_gen_ref_cfg(m, n)), Layer(m, n)} = {0}
<1> DEFINE g == 2 ^ m
           k == InGroup(n, g)
           target == mpi_enc_gen_ref_cfg(m, n)
<1>1. (m = 1 /\ g = 2) \/ (m = 2 /\ g = 4) \/ (m = 3 /\ g = 8)
  BY GroupSize
<1>2. k \in 1 .. g
  BY <1>1 DEF InGroup
<1>3. target = Latest(m, n, ref_mode[m][k + 1]) /\ Layer(m, n) = temporal_id[m][k + 1]
  BY <1>2, LayerIs DEF mpi_enc_gen_ref_cfg
<1>4. (n - 1) % g = k - 1
  BY <1>1 DEF InGroup
<1>5. g = 2 ^ m
  OBVIOUS
<1> HIDE DEF g, k, target
<1> DEFINE low == Back(k, g)
<1>6. /\ low \in {1, 2, 4, 8} /\ low <= k /\ k <= g
      /\ low = 1 <=> k \in {1, 3, 5, 7}
      /\ k \in {2, 6} => low = 2
      /\ k = 4 /\ m = 3 => low = 4
      /\ k = g => low = g
  BY <1>1, <1>2, LowBitIs DEF Back
<1> HIDE DEF low
<1>7. ref_mode[m][k + 1] = IF k = g /\ m # 1 THEN "layer" ELSE IF k = 4 THEN "longterm" ELSE "kept"
  <2>1. CASE m = 1
    BY <1>1, <1>2, <2>1 DEF ref_mode
  <2>2. CASE m = 2
    BY <1>1, <1>2, <2>2 DEF ref_mode
  <2>3. CASE m = 3
    BY <1>1, <1>2, <2>3 DEF ref_mode
  <2> QED
    BY <2>1, <2>2, <2>3
<1>8. target = n - low
  <2>1. CASE k = g
    <3>1. target = (n - 1) - ((n - 1) % g)
      <4>1. CASE m = 1
        BY <1>1, <1>3, <1>7, <2>1, <4>1, <1>5, LatestIs
      <4>2. CASE m # 1
        BY <1>3, <1>7, <2>1, <4>2, <1>5, LatestIs
      <4> QED
        BY <4>1, <4>2
    <3> QED
      BY <1>1, <1>6, <1>4, <2>1, <3>1
  <2>2. CASE k = 4 /\ k # g
    <3>1. target = (n - 1) - ((n - 1) % 8) /\ g = 8 /\ m = 3
      BY <1>1, <1>3, <1>7, <1>2, <2>2, <1>5, LatestIs
    <3> QED
      BY <1>6, <1>4, <2>2, <3>1
  <2>3. CASE k # 4 /\ k # g
    <3>1. target = (n - 1) - ((n - 1) % 2)
      BY <1>3, <1>7, <2>3, <1>5, LatestIs
    <3>2. (n - 1) % 2 = (k - 1) % 2
      BY <1>1, <1>2, <1>4
    <3>3. k \in {1, 2, 3, 5, 6, 7}
      BY <1>1, <1>2, <2>3
    <3> QED
      BY <1>6, <3>1, <3>2, <3>3
  <2> QED
    BY <2>1, <2>2, <2>3
<1>9. n >= k /\ target \in Nat /\ target % g = (k - low) % g /\ target % 2 = 0
  <2>1. n >= k
    BY <1>1, <1>2, <1>4
  <2>2. target \in Nat
    BY <1>1, <1>2, <1>6, <1>8, <2>1
  <2>3. target % g = (k - low) % g
    BY <1>1, <1>2, <1>6, <1>4, <1>8, <2>1
  <2>4. (k - low) % 2 = 0
    BY <1>1, <1>2, <1>6
  <2>5. target % 2 = 0
    BY <1>1, <1>2, <1>6, <2>2, <2>3, <2>4
  <2> QED
    BY <2>1, <2>2, <2>3, <2>5
<1>10. Kept(m, target)
  BY <1>9, <1>5, Entries
<1>11. Layer(m, target) < Layer(m, n) \/ {Layer(m, target), Layer(m, n)} = {0}
  <2>1. CASE k = g
    <3>1. target % g = 0 /\ n % g = 0
      BY <1>1, <1>6, <1>4, <1>9, <2>1
    <3>2. Layer(m, target) = 0 /\ Layer(m, n) = 0
      BY <1>9, <3>1, <1>5, Entries
    <3> QED
      BY <3>2
  <2>2. CASE k # g /\ k = low
    <3>1. Layer(m, target) = 0
      <4>1. target % g = 0
        BY <1>1, <1>2, <1>9, <2>2
      <4> QED
        BY <1>9, <1>5, <4>1, Entries
    <3>2. Layer(m, n) \in 1 .. 3
      BY <1>1, <1>2, <1>3, <1>6, <2>2 DEF temporal_id
    <3> QED
      BY <3>1, <3>2
  <2>3. CASE k # g /\ k # low
    <3> DEFINE j == k - low
    <3>1. /\ target >= 1 /\ j \in 1 .. g /\ target % g = j
          /\ (m = 2 /\ k = 3 /\ j = 2) \/ (m = 3 /\ <<k, j>> \in {<<3, 2>>, <<5, 4>>, <<6, 4>>, <<7, 6>>})
      BY <1>1, <1>2, <1>6, <1>9, <2>3
    <3> HIDE DEF j
    <3>2. j = InGroup(target, g)
      BY <1>1, <1>9, <3>1 DEF InGroup
    <3>3. Layer(m, target) = temporal_id[m][j + 1]
      BY <1>9, <3>1, <3>2, <1>5, LayerIs
    <3> QED
      BY <1>3, <3>1, <3>3 DEF temporal_id
  <2> QED
    BY <2>1, <2>2, <2>3
<1> QED
  BY <1>8, <1>9, <1>10, <1>11 DEF low, g, k, target

StreamInv ==
  /\ data \in Seq(Nat) /\ gop_mode \in 1 .. 3 /\ refs \in Seq(Int)
  /\ \A n \in 1 .. Len(refs) : refs[n] = mpi_enc_gen_ref_cfg(gop_mode, n)

LEMMA StreamInitInv == StreamInit => StreamInv
  BY DEF StreamInit, StreamInv

LEMMA StreamStepInv == StreamInv /\ [StreamNext]_streamVars => StreamInv'
<1> SUFFICES ASSUME StreamInv, [StreamNext]_streamVars PROVE StreamInv'
  OBVIOUS
<1>1. ASSUME NEW b \in Bytes, Feed(b) PROVE StreamInv'
  BY <1>1, EncodedStreamAssumption DEF Feed, StreamInv
<1>2. CASE EncodeFrame
  <2>1. mpi_enc_gen_ref_cfg(gop_mode, Len(refs) + 1) \in Nat
    <3>1. gop_mode \in 1 .. 3 /\ Len(refs) + 1 \in Nat /\ Len(refs) + 1 >= 1
      BY DEF StreamInv
    <3> QED
      BY <3>1, RefersTo
  <2> QED
    BY <1>2, <2>1 DEF EncodeFrame, StreamInv
<1>3. CASE UNCHANGED streamVars
  BY <1>3 DEF streamVars, StreamInv
<1> QED
  BY <1>1, <1>2, <1>3 DEF StreamNext

LEMMA LayersDrop == StreamInv => LayersCanBeDropped
<1> SUFFICES ASSUME StreamInv, NEW n \in 1 .. Len(refs)
             PROVE  LET group == 2 ^ gop_mode
                        k == ((n - 1) % group) + 1
                        target == refs[n]
                    IN /\ target = n - (IF k = group THEN group ELSE LowBit(k))
                       /\ Kept(gop_mode, target)
                       /\ Layer(gop_mode, target) < Layer(gop_mode, n) \/ {Layer(gop_mode, target), Layer(gop_mode, n)} = {0}
  BY DEF LayersCanBeDropped
<1>1. gop_mode \in 1 .. 3 /\ refs[n] = mpi_enc_gen_ref_cfg(gop_mode, n) /\ n \in Nat /\ n >= 1
  BY DEF StreamInv
<1>2. /\ refs[n] = n - Back(InGroup(n, 2 ^ gop_mode), 2 ^ gop_mode)
      /\ Kept(gop_mode, refs[n])
      /\ Layer(gop_mode, refs[n]) < Layer(gop_mode, n) \/ {Layer(gop_mode, refs[n]), Layer(gop_mode, n)} = {0}
  BY <1>1, RefersTo
<1> QED
  BY <1>2 DEF Back, InGroup

\* SerchIFps and mpi_enc_gen_ref_cfg, for buffers and streams of any length: exactly the
\* frames with an IDR slice behind a start code are flagged, and every frame refers to one
\* that is kept and of a lower layer.
THEOREM StreamDecodesAlways == StreamSpec => []StreamDecodes
<1>1. StreamInv => StreamDecodes
  BY KeyFrames, LayersDrop DEF StreamInv, StreamDecodes
<1> QED
  BY <1>1, StreamInitInv, StreamStepInv, PTL DEF StreamSpec
=============================================================================
