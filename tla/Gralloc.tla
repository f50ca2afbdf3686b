-------------------------------- MODULE Gralloc --------------------------------
(***************************************************************************)
(* Graphic buffers (display_gralloc_gbm.c, hi_gbm.c and the interface of   *)
(* display_gralloc.c): one manager with the DRM render node, counted by    *)
(* the clients that hold a table of functions; buffers, each a dma-buf     *)
(* descriptor, made through a gbm_bo and its dumb buffer, whose handle is  *)
(* given back at once; and at most one mapping that a buffer remembers.    *)
(*                                                                         *)
(* GRALLOC_LOCK makes initialisation and allocation atomic.  Mmap and      *)
(* Unmap take no lock: the system call and the assignment to virAddr are   *)
(* two steps here.  A client frees a buffer once, when no call of its own  *)
(* uses it, and gives back each table once.                                *)
(***************************************************************************)
EXTENDS Naturals, FiniteSets

CONSTANTS
  Threads,
  Buffers,      \* BufferHandles in the heap
  Addrs,        \* where the kernel may map a buffer
  Infos,        \* AllocInfos: pixel format, width, height
  MaxFuncs,     \* bound on the function tables that are out
  MaxRefused,   \* bound: dumb buffers that the kernel does not make
  Word,         \* 2^32
  PitchAlign,   \* the driver rounds a pitch up to this many bytes
  Null, MAP_FAILED

ASSUME GrallocAssumption ==
  /\ {MaxFuncs, MaxRefused} \subseteq Nat /\ Word \in Nat \ {0} /\ PitchAlign \in Nat \ {0}
  /\ \A i \in Infos : i.width \in 0 .. Word - 1 /\ i.height \in 0 .. Word - 1
  /\ Null \notin Addrs /\ Null \notin Buffers /\ MAP_FAILED \notin Addrs /\ Null # MAP_FAILED

\* Null is no record.
ASSUME NullAssumption ==
  /\ Null \notin [dev : BOOLEAN, referCount : Nat]
  /\ Null \notin [buf : Buffers, addr : Addrs \cup {Null, MAP_FAILED}]

VARIABLES
  manager,      \* g_grallocManager: whether there is a device, and referCount; or Null
  drmFds,       \* descriptors of the render node that are open
  funcs,        \* tables that clients hold
  buffer,       \* the BufferHandle, or Null
  virAddr,      \* ...and its address: one of Addrs, Null or MAP_FAILED
  fds,          \* buffers with a dma-buf descriptor open
  gem,          \* buffers whose dumb handle is open
  bos,          \* how many gbm_bo are allocated
  maps,         \* what is mapped at each address: a buffer, or Null
  call,         \* each thread's call between the system call and the assignment
  clash,        \* history: buffers on which two such calls overlapped
  kept,         \* history: buffers whose handle the kernel would not give back
  refused       \* history: dumb buffers that the kernel did not make

device == <<manager, drmFds, funcs>>
heap == <<buffer, fds, gem, bos, kept, refused>>
mapping == <<virAddr, maps, call, clash>>
vars == <<device, heap, mapping>>

-----------------------------------------------------------------------------
(* Formats and sizes.  Dimensions are uint32_t.                            *)

DivRoundUp(n, d) == (n + d - 1) \div d
AlignUp(x, a) == DivRoundUp(x, a) * a

\* PIXEL_FMT values by layout: ConvertFormatToDrm and GetFormatInfo have the same twenty.
Packed32 == {"RGBX_8888", "RGBA_8888", "BGRX_8888", "BGRA_8888"}
Packed16 == {"BGR_565", "BGRX_4444", "BGRA_4444", "RGBA_4444", "RGBX_4444", "BGRX_5551", "BGRA_5551"}
Planar420 == {"YCBCR_420_SP", "YCRCB_420_SP", "YCBCR_420_P", "YCRCB_420_P"}
Planar422 == {"YCBCR_422_SP", "YCRCB_422_SP", "YCBCR_422_P", "YCRCB_422_P"}
Convertible == Packed32 \cup Packed16 \cup {"RGB_888"} \cup Planar420 \cup Planar422

\* Bytes per pixel of the first plane.
BytesPerPixel(format) ==
  CASE format \in Packed32 -> 4 [] format = "RGB_888" -> 3 [] format \in Packed16 -> 2 [] OTHER -> 1

\* The planes' sizes in quarters of the first: { 4, 2 } and { 4, 1, 1 }, { 4, 4 } and { 4, 2, 2 }.
Quarters(format) ==
  CASE format \in Planar420 -> 6 [] format \in Planar422 -> 8 [] OTHER -> 4

AdjustStrideFromFormat_FirstPlane(format, width) == width

\* The width that one row of all the planes takes, in 32 bits.
AdjustStrideFromFormat(format, width) ==
  IF Quarters(format) = 4 THEN width ELSE ((width * Quarters(format) + 3) % Word) \div 4

\* What hdi_gbm_bo_create asks for, and the pitch the kernel makes of it.
DumbWidth(info) == AlignUp(AdjustStrideFromFormat(info.format, info.width), 8) % Word
DumbHeight(info) == AlignUp(info.height, 2) % Word
Pitch(info) == AlignUp(DumbWidth(info) * BytesPerPixel(info.format), PitchAlign)

\* DRM_IOCTL_MODE_CREATE_DUMB refuses what is empty or does not fit 32 bits.
Accepts(info) == DumbWidth(info) > 0 /\ DumbHeight(info) > 0 /\ Pitch(info) * DumbHeight(info) < Word

\* The handle's size has as many rows as were asked for, the object one more if that is odd.
InitBufferHandle(info) ==
  [info |-> info, stride |-> Pitch(info), size |-> Pitch(info) * info.height]
ObjectSize(info) == Pitch(info) * DumbHeight(info)

ASSUME HandleAssumption == \A i \in Infos : InitBufferHandle(i) # Null

-----------------------------------------------------------------------------

Init ==
  /\ manager = Null /\ drmFds = 0 /\ funcs = 0
  /\ buffer = [b \in Buffers |-> Null] /\ virAddr = [b \in Buffers |-> Null]
  /\ fds = {} /\ gem = {} /\ bos = 0 /\ kept = {} /\ refused = 0
  /\ maps = [a \in Addrs |-> Null]
  /\ call = [t \in Threads |-> Null] /\ clash = {}

NewManager == [dev |-> FALSE, referCount |-> 0]
GetGrallocManager == IF manager = Null THEN NewManager ELSE manager

InitGbmDevice_Always(m, ok) ==
  IF ok THEN manager' = [dev |-> TRUE, referCount |-> m.referCount + 1] /\ drmFds' = drmFds + 1
        ELSE manager' = m /\ UNCHANGED drmFds

\* The render node is opened once; what fails on the way is undone, but the manager stays.
InitGbmDevice(m, ok) ==
  IF m.dev \/ ok
  THEN /\ manager' = [dev |-> TRUE, referCount |-> m.referCount + 1]
       /\ drmFds' = IF m.dev THEN drmFds ELSE drmFds + 1
  ELSE manager' = m /\ UNCHANGED drmFds

GrallocInitialize(ok) ==
  /\ funcs < MaxFuncs
  /\ InitGbmDevice(GetGrallocManager, ok)
  /\ funcs' = IF GetGrallocManager.dev \/ ok THEN funcs + 1 ELSE funcs
  /\ UNCHANGED <<heap, mapping>>

\* The device goes when the count falls below zero.
GrallocUninitialize ==
  /\ funcs > 0 /\ funcs' = funcs - 1
  /\ LET m == GetGrallocManager IN
       IF m.referCount = 0
       THEN manager' = Null /\ drmFds' = IF m.dev THEN drmFds - 1 ELSE drmFds
       ELSE manager' = [m EXCEPT !.referCount = @ - 1] /\ UNCHANGED drmFds
  /\ UNCHANGED <<heap, mapping>>

\* No part of an earlier buffer is left under this name.
Gone(b) == buffer[b] = Null /\ b \notin fds \cup gem /\ \A a \in Addrs : maps[a] # b

\* A gbm_bo was allocated, and is freed if so it says.
MakesBo(freed) == bos' = IF freed THEN bos ELSE bos + 1

Destroy_KeepsBo(b, ok) ==
  /\ gem' = IF ok THEN gem ELSE gem \cup {b}
  /\ kept' = IF ok THEN kept ELSE kept \cup {b}
  /\ MakesBo(FALSE)

\* hdi_gbm_bo_destroy: the ioctl may fail; then the handle stays open, and the object with it.
Destroy(b, ok) ==
  /\ gem' = IF ok THEN gem ELSE gem \cup {b}
  /\ kept' = IF ok THEN kept ELSE kept \cup {b}
  /\ MakesBo(ok)

\* hdi_gbm_bo_create of a dumb buffer that the kernel does not take, or has no memory for,
\* does not free the object.
CreateRefused ==
  /\ refused < MaxRefused /\ refused' = refused + 1
  /\ MakesBo(FALSE) /\ UNCHANGED <<buffer, fds, gem, kept>>

Failures == {"dumb", "fd", "handle", "none"}

\* What may fail once there is memory for the object: the dumb buffer, its descriptor, the
\* memory for the handle.
GbmAllocMem(b, info, failing, destroyed) ==
  /\ funcs > 0 /\ Gone(b) /\ info.format \in Convertible
  /\ IF failing = "dumb" \/ ~ Accepts(info)
     THEN CreateRefused
     ELSE /\ Destroy(b, destroyed) /\ UNCHANGED refused
          /\ \/ failing \in {"fd", "handle"} /\ UNCHANGED <<buffer, fds>>
             \/ /\ failing = "none"
                /\ fds' = fds \cup {b}
                /\ buffer' = [buffer EXCEPT ![b] = InitBufferHandle(info)]
  /\ UNCHANGED <<device, mapping>>

-----------------------------------------------------------------------------
(* Mapping.                                                                *)

Using(b) == {t \in Threads : call[t] # Null /\ call[t].buf = b}
Free(a) == maps[a] = Null

\* What Mmap is about to store: an address, or MAP_FAILED.
GbmMmap(t, b, addr) ==
  /\ call[t] = Null /\ buffer[b] # Null /\ virAddr[b] = Null
  /\ \/ addr \in Addrs /\ Free(addr) /\ maps' = [maps EXCEPT ![addr] = b]
     \/ addr = MAP_FAILED /\ UNCHANGED maps
  /\ call' = [call EXCEPT ![t] = [buf |-> b, addr |-> addr]]
  /\ clash' = IF Using(b) = {} THEN clash ELSE clash \cup {b}
  /\ UNCHANGED <<device, heap, virAddr>>

GbmUnmap_KeepsAddress(t, b) ==
  /\ call[t] = Null /\ buffer[b] # Null /\ virAddr[b] \in Addrs
  /\ maps' = [maps EXCEPT ![virAddr[b]] = Null]
  /\ UNCHANGED <<device, heap, virAddr, call, clash>>

\* munmap refuses MAP_FAILED and takes any other address, whatever is mapped there by now.
GbmUnmap(t, b) ==
  /\ call[t] = Null /\ buffer[b] # Null /\ virAddr[b] \in Addrs
  /\ maps' = [maps EXCEPT ![virAddr[b]] = Null]
  /\ call' = [call EXCEPT ![t] = [buf |-> b, addr |-> Null]]
  /\ clash' = IF Using(b) = {} THEN clash ELSE clash \cup {b}
  /\ UNCHANGED <<device, heap, virAddr>>

\* buffer->virAddr = ...
Store(t) ==
  /\ call[t] # Null
  /\ virAddr' = [virAddr EXCEPT ![call[t].buf] = call[t].addr]
  /\ call' = [call EXCEPT ![t] = Null]
  /\ UNCHANGED <<device, heap, maps, clash>>

GbmFreeMem_ClosesOnly(b) ==
  /\ buffer[b] # Null /\ Using(b) = {}
  /\ buffer' = [buffer EXCEPT ![b] = Null] /\ virAddr' = [virAddr EXCEPT ![b] = Null]
  /\ fds' = fds \ {b}
  /\ UNCHANGED <<device, gem, bos, kept, refused, maps, call, clash>>

\* A mapping that cannot be undone is left as it is; the rest goes.
GbmFreeMem(b) ==
  /\ buffer[b] # Null /\ Using(b) = {}
  /\ maps' = [a \in Addrs |-> IF a = virAddr[b] THEN Null ELSE maps[a]]
  /\ buffer' = [buffer EXCEPT ![b] = Null] /\ virAddr' = [virAddr EXCEPT ![b] = Null]
  /\ fds' = fds \ {b}
  /\ UNCHANGED <<device, gem, bos, kept, refused, call, clash>>

Next ==
  \/ \E ok \in BOOLEAN : GrallocInitialize(ok)
  \/ GrallocUninitialize
  \/ \E b \in Buffers, info \in Infos, failing \in Failures, destroyed \in BOOLEAN :
       GbmAllocMem(b, info, failing, destroyed)
  \/ \E t \in Threads, b \in Buffers, addr \in Addrs \cup {MAP_FAILED} : GbmMmap(t, b, addr)
  \/ \E t \in Threads, b \in Buffers : GbmUnmap(t, b)
  \/ \E t \in Threads : Store(t)
  \/ \E b \in Buffers : GbmFreeMem(b)

Spec == Init /\ [][Next]_vars

-----------------------------------------------------------------------------
(* Properties.                                                             *)

\* Whoever holds the functions has a device behind them, on one descriptor of the render
\* node, whichever clients came and went and whose initialisation failed; and since the
\* count is compared with zero after it was taken down, the device is not released when
\* the last client goes.
DeviceForClients ==
  /\ drmFds = (IF manager # Null /\ manager.dev THEN 1 ELSE 0)
  /\ funcs > 0 => manager # Null /\ manager.dev
  /\ manager # Null => manager.referCount = funcs

\* Every descriptor and handle belongs to a live buffer that gives it back, but for the
\* handles the kernel would not take.  No gbm_bo outlives the allocation it was made for,
\* but for one with each of those handles and one for each dumb buffer that was not made:
\* these are lost, as nobody has their address.  What is mapped is what a buffer remembers
\* or a call is about to store, and an address a client was given maps its own buffer until
\* it is unmapped: unless two calls met on one buffer, since Mmap and Unmap take no lock.
\* Then one may undo a mapping that another buffer was given since.
NothingLeaks ==
  /\ \A b \in Buffers : (b \in fds) = (buffer[b] # Null)
  /\ gem \subseteq kept
  /\ bos = Cardinality(kept) + refused
  /\ clash = {} =>
       /\ \A a \in Addrs : maps[a] # Null =>
            virAddr[maps[a]] = a \/ \E t \in Using(maps[a]) : call[t].addr = a
       /\ \A b \in Buffers : virAddr[b] \in Addrs /\ Using(b) = {} => maps[virAddr[b]] = b

\* Both halves of what the allocator holds, the device and the buffers' parts, belong to
\* somebody who gives them back.
DeviceAndBuffersHeld == DeviceForClients /\ NothingLeaks

Half(n) == (n + 1) \div 2

\* The bytes the planes take: the chroma planes of an odd size round up.
Needed(info) ==
  IF info.format \in Planar420
  THEN info.width * info.height + 2 * Half(info.width) * Half(info.height)
  ELSE IF info.format \in Planar422
  THEN info.width * info.height + 2 * Half(info.width) * info.height
  ELSE info.width * BytesPerPixel(info.format) * info.height

\* The planes fit into the kernel's object, and into the size the handle gives unless
\* the height is odd and chroma has half the rows, if the width is not so large that
\* the size of a row wraps.
PlanesFit ==
  \A b \in Buffers : buffer[b] # Null =>
    LET info == buffer[b].info IN info.width * Quarters(info.format) + 3 < Word =>
      /\ Needed(info) <= ObjectSize(info)
      /\ info.height % 2 = 0 \/ info.format \notin Planar420 => Needed(info) <= buffer[b].size
=============================================================================
