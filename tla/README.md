# A TLA+ model of device_hihope

This directory is a verification project for the board support code of the
HiHope (RK3568) boards: TLA+ modules that model the code under `src/`, TLC
configurations that check them on small instances, and proofs that TLAPS checks
for every value of the constants. `PROJECT.json` is its index: components, runs,
mutants, the map from definitions to source lines, findings, hazards, theorems.

To repeat a run: `tlc -config LayerStack.cfg MCLayerStack`. To repeat a proof:
`tlapm LayerStackProofs.tla`. The `*_Something` definitions that stand before a
definition (`CloseLayer_MapOnly`, ...) are not part of any specification: each is
the next definition with a plausible bug, kept to show that a property notices it.

## 1. Inventory

Paths are relative to `src/`; `DD` is `hardware/display/src/display_device`.

| Component | State it keeps | Operations | Hard part |
|---|---|---|---|
| Layers of a display (`DD/hdi_display.cpp`, `hdi_layer.cpp`, `hdi_composer.cpp`, `hdi_gfx_composition.cpp`) | map of layers, multiset of raw pointers ordered by a key inside the layers, copies of the pointers from Prepare to Commit; per layer its attributes, buffer and fence | CreateLayer, CloseLayer, the setters, PrepareDisplayLayers, GetDisplayCompChange, Commit | legal call sequences that leave stale pointers; erase by key; partial composition; attributes never set |
| Vsync worker (`DD/drm_vsync_worker.cpp`) | enable and running flags, callback pointer, one thread | register, enable, disable, create, destroy | two threads, a condition variable, flags written without the lock |
| DRM composition (`DD/hdi_drm_composition.cpp`, `hdi_drm_layer.cpp`, `drm_plane.h`, `hdi_shared_fd.h`) | planes bound to displays, two gem buffers per display, kernel handles, framebuffers and fences | Init, SetLayers, Apply | shared planes and handles; descriptors that change hands; a commit that fails after buffers were removed |
| Hotplug (`DD/hdi_session.cpp`, `hdi_netlink_monitor.cpp`) | connector states, callbacks, monitor thread and socket | uevent, RegHotPlugCallback, Init | two threads without a lock; late and lost uevents; an object that dies under its thread |
| Client interface (`DD/hdi_session.cpp`, `drm_connector.cpp`, `drm_display.cpp`) | none of its own: which display and layer a call means, what it answers; power state, backlight | the function tables | lists asked for in two calls; one backlight for all displays; writes that are not looked at |
| DRM resources and modes (`DD/drm_device.cpp`, `drm_display.cpp`, `drm_crtc.cpp`, `drm_encoder.cpp`, `drm_connector.cpp`, `drm_plane.cpp`) | crtcs, encoders, connectors, planes, property ids, modes | discovery, SetDisplayMode, the mode part of a commit | which crtc a connector gets; properties that are not found; a failed Init that is not noticed; modes replaced by hotplug |
| Gralloc (`hardware/display/src/display_gralloc`) | one GBM device with a reference count; buffers, mappings, descriptors | initialize, uninitialize, alloc, free, mmap, unmap, invalidate, flush | the count at zero; failures half way; mapping without the lock; retries of a synchronisation |
| GFX blitter (`hardware/display/src/display_gfx`) | the allocator's table | init, fill, blit, sync | option and format conversions; a shadowed result |
| Audio streams (`rk3568/audio_drivers/dai`, `soc`, `codec`: `*_ops.c`, `*_impl.c`) | shared transfer count, register images, DMA channels and buffers | hw params, triggers, buffer alloc/free, submit, pause, resume | playback and capture share registers, clocks, the count and a pointer |
| Audio drivers, controls, register maps (the `*_adapter.c`, `*_linux_driver.c`, mixer part of `rk809_codec_impl.c`) | global device pointers, clocks, the caches of the registers | probe, remove, bind, init, release, volume, mute, routes, regmap reads and writes | two kinds of driver in no order; a stereo value shifted twice; a cache ahead of the chip |
| WiFi access point (`rk3568/wifi/bcmdhd_wifi6/hdf/hdf_mac80211_ap.c`) | settings, beacon, start flag | configure, start, stop, change beacon, stations, country | pointers into a beacon that was freed; a restart that fails |
| WiFi station (`hdf_mac80211_sta.c`, `hdf_mac80211_sta_event.c`, `hdf_bdh_mac80211.c`) | the scan request in the driver's hands | scan, abort, connect, disconnect, capabilities | three allocations with failures between; a test the wrong way round |
| WiFi driver and net device (`hdf_driver_bdh_register.c`, `hdfinit_bdh.c`, `net_bdh_adpater.c`, `hdf_bdh_mac80211.c`) | net device's flags, type, address; private object | register, build, init, deinit, open, stop, set mode and address, received frames | refusals that are not passed on; operations set before memory is there |
| Camera codec node (`rk3568/camera/src/pipeline_core/node/rk_codec_node.cpp`, `hardware/mpp/src/mpi_enc_utils.c`) | encoder, two static sizes | start, stop, deliver; set-up of the encoder, reference structures, key frame search | three streams' threads and Stop's without a lock |
| Image processing example; vendor headers, blobs, tuning data, build files | - | - | not modelled, see 7 |

Interactions. A client calls the HDI (`hdi_device_interface.cpp`); the calls
reach the session, which finds the display and calls a member of it
(ClientCalls, LayerAttributes, DisplayControl). Commit runs the GFX composition
over the display's layers into the client layer's buffer (LayerStack), through
the blitter (Blitter), and, when that worked, the DRM composition, which scans
that buffer out (Scanout), with the fences of both (Fences). Scanout competes for
planes with the other displays of the device; which planes a crtc may use comes
from discovery (DrmObjects), as does which crtc a connector has (Pipes). The
vsync worker is shared by all displays and calls back into the client. The
session's monitor thread updates connectors and calls the client (Hotplug).
Gralloc allocates the buffers that layers hold. In the sound card the framework
calls the interface's trigger and the codec's in one call (AudioCodec composes
the two). Audio, WiFi and camera share nothing with the display side but libraries.

What makes each part correct is listed per hazard in `PROJECT.json`, at the line
where it bites; the properties of section 4 are aimed at those hazards.

## 2. Modules

| Module | Models | State and actions |
|---|---|---|
| `LayerStack` | the layers of one display, Prepare and the GFX stage of Commit | variables carry the members' names; one action per HDI call; `CommitFreed` and the guard of `GetDisplayCompChange` are the uses of a freed layer |
| `LayerAttributes` | the layer calls of the session, the attributes they store and what a commit takes of them | per layer and attribute what is stored and what was asked; `Commit` draws |
| `Fences` | `HdiFd`, the descriptors of layers and buffers, `GetDisplayReleaseFence`, the out-fence of Apply | the process's table of descriptors and the owner of each; one action per call that moves one |
| `VsyncService` | what the vsync worker promises, abstractly | enabled, in flight, a beat per callback |
| `VsyncWorker` | `DrmVsyncWorker`, its thread and the client's calls | one action per step between two accesses another thread can interfere with |
| `FrameService` | what a display promises about its screen, abstractly | the client's buffer, the one shown, whether the last try failed; set, present, miss |
| `Scanout` | `HdiDrmComposition`, `DrmGemBuffer`, the planes, `PushFirstFrame`, and the kernel's handles, framebuffers and planes (external) | Apply is two steps: up to the complete request, and the atomic commit |
| `DrmObjects` | discovery of crtcs and planes with the properties looked up by name, the choice of a plane by window, the request of a frame | one action per object initialised and per frame; each look-up may fail |
| `Hotplug` | `HdiSession`, the netlink monitor thread, `HandleHotplug` of device and connector, and the kernel's connectors and uevents (external) | a step of either thread per access to what they share |
| `Pipes` | `DrmDevice`'s discovery, `DrmConnector`, `DrmEncoder`, `DrmCrtc`, the start of a `DrmDisplay` and `UpdateMode`; what the boot loader left and what is plugged in (external) | one action per connector discovered, per probe and refill of modes on the hotplug thread, per mode set and commit of the client |
| `DisplayControl` | the device's tables of functions, power and backlight down to the frame buffer device and the backlight file (external) | one action per call; what is reported is kept per connector |
| `ClientCalls` | what each function of the session's table answers, and the lists asked for in two calls | the client's call and the monitor thread's two steps |
| `Gralloc` | the manager and its count, allocation with every place it can fail, the layout of planes, mmap, unmap, free | locked calls are one step, Mmap and Unmap two |
| `BufferSync` | the table's dispatch and the cache synchronisation with its retries | one action per ioctl; the devices write and read meanwhile (external) |
| `Blitter` | FillRect and Blit: which way a request takes, what is drawn, what is answered | one action per call, over every option; RGA and the allocator are external |
| `AudioStreams`, `AudioTriggers` | the two streams; `Rk3568NormalTrigger`, called by a playback and a capture thread | per call: clock and DMA bit, then the count, then the transfer register, then the FIFOs |
| `AudioCodec` | the codec's triggers, register tables and hw params, composed with `AudioTriggers` into the card (`CardSpec`) | the codec's registers and regmap's cache of them; any of a call's writes may be lost |
| `AudioClock` | `Rk3568DaiHwParams`: frequencies, master clocks and divider | a step per store or register that the other thread's call also writes |
| `AudioDma` | the audio platform's DMA channels, buffers and runtime data | one action per operation of the platform; `Ended` is the kernel's engine (external) |
| `AudioControls` | mixer controls, the lists that start-up and a stream's start write | a register is the set of its bits; one action per set, per item of a stream's start and for the start-up of the codec |
| `AudioDrivers` | the HDF drivers (bind, init, release) and the Linux drivers (probe, remove) of codec, interface, DMA and DSP, and what the interface's triggers do to the same clocks | one action per entry point and per trigger, each with the places it can fail |
| `RegisterMaps` | the register maps of codec and interface over the kernel's regmap (external) | cached and actual value of each register; read, write, update, reset, resume |
| `WifiAp` | `hdf_mac80211_ap.c`: settings, flag and what the driver (external) has on the air | one action per operation, ChangeBeacon with the restart it makes |
| `WifiSta` | scan request, completion, abort, connect, capabilities | one action per operation, with each failure in its place |
| `WifiNet` | registration, building and initialising the driver, the operations that change the net device | one action per operation |
| `WifiCalls` | the operations that are only passed on, stations, events, received frames, frequencies | one action per kind of answer |
| `CodecNode` | the codec node's DeliverBuffer of three streams, Stop, and the encoder it owns | a step per statement that reads or writes what is shared |
| `EncoderSetup` | `test_mpp_enc_cfg_setup`: the configuration, the references and the controls given to the encoder | configure, build the references (which may fail unseen), one action per control, refused or not |
| `EncodedStream` | the search for key frames, the reference structures | a buffer that grows byte by byte, a stream frame by frame |
| `MC*` | the instances TLC checks | |
| `*Proofs` | theorems and their proofs | |

Undefined behaviour. Where the code may follow a freed or null pointer, the model
sets `fault` and stops: nothing is claimed of a program in that state, and the
properties say when it is reached. Memory that was never written is a value of its
own (`Garbage` in `LayerAttributes`).

Instances of several parts. `MCDisplayParts`, `MCAudioParts`, `MCMedia` and
`MCWifi` hold several small modules that share no state in the models; a variable
(`part`, `unit`, `role`) chosen in the initial state says which one runs, and the
others stay as they began. So one run checks each of them on its own: the number
of states is the sum and not the product, and nothing is claimed of an interleaving
between them. The initial states of the parts that do not run are cut to one.
Where two parts do meet, they are composed: the interface with the codec
(`AudioCodec`), the worker with its client, the monitor with the session, the
planes of several displays.

Two abstract specifications. `VsyncService` is what the worker promises, and
`VsyncWorker` implements it. `FrameService` is what a display promises: its screen
shows the buffer last presented there, and goes dark only in a try that follows a
failed one. `Scanout` implements it once per display (`Frame(d)` maps the screen to
the dma-buf behind the framebuffer on the display's plane); `LayerStack`, which knows
one display and nothing of planes, takes its actions for what Apply does to the
screen. So what is shown of the layers rests on what is shown of the planes, and on
nothing that was only assumed about them.

## 3. Assumptions

* The HDI is called by one client thread, as the code has no lock on that side.
  The vsync and monitor threads run beside it.
* Memory is sequentially consistent at the grain of the steps (`mRunning` and
  `mCallBack` of the worker are plain members: the races on them are modelled as
  interleavings, not as torn values).
* `Scanout`: a display that is registered has its composer. What
  `DrmDisplay::Init` does before the composer exists is not modelled there. `Fences`
  begins after `Init`, whose first frame the kernel took or did not.
* `Pipes`: a commit reads the mode and sets it in one step; what lies between the
  two is `Scanout`'s subject. A connector is connected or not; the kernel's third
  answer, "unknown", is not modelled. Every uevent makes the thread look at every
  display (it looks at those of the uevent's connector type), or is lost.
* The kernel (DRM). One GEM handle per dma-buf and file, closed by the first
  GEM_CLOSE; numbers are given out lowest first; removing a framebuffer that is
  shown turns the plane off; an atomic commit happens entirely or not at all, and
  is refused with a property id of 0; a uevent that does not fit the socket is lost
  and the next read fails; the frame buffer's blanking changes the DPMS property of
  all connectors; the backlight refuses a level above its maximum. A dma-buf's
  synchronisation answers 0 or -1 and, when it fails, did nothing.
* `Gralloc`: the two allocator calls under the lock are one step; a client frees a
  buffer once and while it uses it in no other call, and gives each table back once.
* Libraries. RGA and MPP may refuse any request and then did nothing.
* Audio. The framework issues one command at a time per stream, playback and
  capture from different threads; it starts a stopped stream, pauses a running one,
  resumes a paused one, closes a stream that does not run, and does not go on after
  a call that failed. It calls the interface's trigger and the codec's in one call.
  The clock tree gives exactly the rate that is set. `AudioDma`'s operations do not
  interleave inside: its hazards are sequences of whole calls. regmap: a flat cache,
  written before the bus; an update that changes nothing is not written. HDF
  releases a driver whose Init failed or leaves it, and may load it again. What a
  mixer control is comes from the product's configuration, which is not in this
  repository: `AudioControls` has one of each kind. There, one stream
  starts at a time, and both sides of a control are written in one step. The same
  configuration lists the registers of a stream's parameters, in the order divider,
  rate, width, which is that of the indices the code gives them.
* WiFi: the framework calls one operation at a time, in any order. The driver may
  fail any call, and a call that fails leaves on the air what there was.

Fairness. `VsyncWorker`: the worker and a call of the client that has begun go on
(weak fairness); `drmWaitVBlank` returns, as the kernel bounds that wait; whoever
asks for `mMutex` gets it (strong fairness on the steps that lock it, because the
other thread takes it again and again: it is released in every round and nobody
blocks while holding it). No fairness on spurious wake-ups, on calls the client
may or may not make, or on `Destroy`. `Hotplug`: both threads run (weak
fairness); no fairness on connector changes. `Pipes`: discovery ends and the
hotplug thread runs (weak fairness), and a client that can again and again commit
a frame that carries a mode does so with success now and then (strong fairness on
`UpdateMode` of each display: the hotplug thread takes the modes away for a
moment each time). No fairness on mode changes, plugging or commits that fault.
The other modules state no liveness: their calls end by themselves, without
waiting for anybody.

## 4. Runs

Every state count is of distinct states. Every property has a mutant: the run fails
when the named definition is replaced by its mutated form. Deadlock is checked where
the part never stops; it is not where a state with a fault is final or a bounded
sequence of calls ends (`CHECK_DEADLOCK FALSE`). The type invariants of the modules
with proofs are theorems and not properties of a run.

`layer_stack` (887,940 states). Three layers, two z-orders, one of which is the
default, and two client buffers: enough to close a layer between two siblings of
the same z-order, to restack the one that was dropped with it, and to compose
into the buffer on the screen or another one. Shown: the multiset stays sorted by
a key that its elements rewrite and free of dead or double pointers, and the stale
copies are read after a free only if a layer was closed since Prepare
(`StackIsReadAlive`); a live layer vanishes only with a closed sibling of its
z-order (`DroppedOnlyWithSibling`, which is what the erase by key of
`hdi_display.cpp:121` does: a surprise, but stated); what Commit draws is the stack
if nothing changed since Prepare (`FreshPlanIsStack`); and a frame on the screen
becomes partial only by composing into its own buffer (`TornOnlyInPlace`). What
becomes of a frame that was composed is `FrameService`'s: it is shown, missed, or not
tried; after a miss the screen may go dark, and the next whole frame lights it again.

`layer_stack_changes` (a finding). "get the change layers" at
`hdi_display.cpp:185` is not what happens: every layer is reported. One layer
suffices.

`vsync` (7,485 states). Two registrations, so that one replaces another under
the worker. Shown: the three ways to follow a bad pointer and no other, and that the
thread ends only at shutdown or by the race in Init (`WorkerRunsClean`); refinement
of `VsyncService`, in particular at most one callback after disable
(`ImplementsService`); no lost wake-up (`VsyncKeepsComing`), and a destructor that
returns (`ShutdownCompletes`). A third registration adds nothing: the worker holds
one copy of the pointer, and only "is it still there" matters.

`scanout` (263,901 states). Two displays with both planes as candidates and one
dma-buf they both present, or one display and two dma-bufs (`SharedBuffer` bounds
the product): contended planes, handles shared between displays, and current, last
and next buffer that differ or coincide. Shown: no display ever gets two planes, a
plane shows only a framebuffer its own display still owns, and although handles are
closed early and given out again, nothing stays open without an owner
(`ScreenShowsWhatIsHeld`); and each display is a `FrameService`, whatever is done for
the other: the framebuffer on its plane is not only its own but one of the dma-buf that
its client last presented, and it goes dark only after a failed frame
(`ScreenServesFrames`). `MaxId` = 5 exceeds the four gem buffers two displays keep plus
the one being made, so numbers never run out.

`hotplug` (490,936 states; the cfg gives `Hotplug` its constants itself). A panel that
never changes and one HDMI connector, two callbacks, a socket of two uevents (one in the
queue behind the one being handled, and the one that does not fit). Shown: the uevent's
word is passed on instead of the probed state, and yet the client's picture is wrong
only after three changes during one burst of handling, a missed change, or a
registration that raced (`ClientsKnow`; with two changes it is always right and with
three it is not); the stored state catches up in any case (`KernelStateReached`). That
two changes do no harm is peculiar to a lone connector: the proof for any number of them
found that with two, one plugged and one unplugged in the same burst are enough, because
the one word that is passed on is wrong for one of them. So `FewChanges` allows two
changes only where one connector changes. The run has the one HDMI connector of the
board; an instance with two (4,136,256 states, too slow for a regular run) was checked
to confirm both the counterexample to the wider claim and the invariant of the proof.

`pipes` (185,249 states). A panel and an HDMI connector with an encoder each; the
panel's encoder reaches the first of two crtcs, HDMI's reaches both, so that
HDMI can take the panel's. All boot states of that board: nothing lit, either or
both lit, on the same crtc or on their own, crtcs whose Init failed. Two monitors
that list the same modes in different order, one of which prefers its second. Mode
ids of two bits (`Half` = 2): 0, and 2, which is negative as the signed number the
crtc gets; larger ids are refused. Shown: two displays that can commit never drive
one crtc, although one that failed to start keeps a crtc another may get, and a
connector lit by the boot loader keeps its crtc in whatever order the hash table
gives the connectors (`CrtcsKeptApart`; if the boot loader kept them apart, and the
run has states where it did not); the modes offered are those of the monitor that is
there, unless it was exchanged between two probes or a uevent was lost
(`ModesFollowMonitor`); a replugged monitor gets its own first mode
(`ReplugGetsMode`), which rests on `mNeedModeSet` never being cleared.

`display_parts` (233,176 states, about 100 s). Six parts:
* descriptors: one app layer and the client layer, a table of four descriptors (`MaxFd`
  = 3), so that a number closed too often is at once somebody else's and `dup` can
  fail, two frames numbered round. The display starts with its first frame taken,
  refused by the kernel, or not put together. Every open descriptor has one owner,
  except those that nobody closes: the first frame's own, as `drm_display.cpp:234`
  drops the handle it is in once the client layer has a `dup` of it, and a fence that
  came without a buffer (`MaxLost` = 2 is one of each). Commit returns the out-fence of
  the last frame the kernel took (`FencesHaveOwners`).
* objects: two crtcs and four planes with windows and masks as on the RK3568, one
  on a crtc whose mask does not name its window; an RGB, a two-plane and an unknown
  format. Planes stay where the kernel's mask puts them, and a frame that fails while
  the kernel does what it can fails for one of the reasons listed, among them a
  failed look-up that `Init` ignores (`PlanesServeDisplays`).
* power and backlight: two displays and an id of neither, levels around each clamp,
  a word of 8 bits so that one level is negative when formatted. What is reported is
  what is there, except as listed (`ReportsAreExplained`).
* attributes: one layer and two values per attribute: ids are not reused and layers
  are independent. A frame draws what was set last on that display, and memory that
  was never written for the rest (`DrawsWhatWasSet`).
* client calls: monitors with one and three modes, two layers. A list is written past
  the client's array only if it grew after its length was asked for; SUCCESS is told
  only of what is kept and supported (`CallsStayInBounds`).
* cache: the code's six tries, every usage. SUCCESS means that what the other side
  wrote last is seen, although the loop compares -1 with error numbers
  (`SuccessMeansSynced`).

`gralloc` (531,266 states). Two threads, two buffers, two addresses, two tables of
functions: two calls that meet on one buffer, an address that is given again to the
other buffer, and a client that leaves while another stays. One format of each layout
with odd sizes, and a word of 7 bits so that a row wraps. Shown: whoever holds the
functions has a device, which is never released; nothing of a failed allocation stays,
except the `gbm_bo` of a dumb buffer the kernel would not make (`hi_gbm.c:137` returns
without it; `MaxRefused` = 1), and the handle and the `gbm_bo` of one it would not
destroy (line 184); a mapping is lost only to a race of two calls
(`DeviceAndBuffersHeld`); planes fit into the object, and into the size the handle
gives but for odd heights (`PlanesFit`).

`audio_card` (602,372 states). Both streams, one stray command each (a stop of a
paused stream, a capture start given up half way) and one failed write; two rates.
Shown: in every interleaving the shared count is the number of running streams less
the stray commands (PAUSE and STOP are the same code, so pausing and then stopping a
stream takes the interface from the other one), and the transfer bits agree with the
count unless the last two crossings of zero overlapped (`InterfaceServesRunning`: the
lock that is declared and never taken would rule that out); the codec has the rate of
a stream whose parameters were given under its own command, and what a running stream
needs is there but for what the streams do to each other (`CodecServesStreams`).
Any write over I2C may be lost (`MaxFaults` = 1 of them), with three consequences. A
trigger does not look: part of its table is written, and the stream runs without the
rest. A call with parameters gives up after whatever it wrote before: if the last write,
the width, is lost, the call fails and the rate has changed. And regmap keeps the value
that did not arrive, so that the next call with that value succeeds without writing it.
With two stray commands and two losses the properties hold as proved; one of each is
enough for every exception to occur.

`audio_parts` (3,031,053 states). Five parts:
* clocks: rates 48000 and 8000 of one family and 44100 of the other; 8000 because its
  divider is large enough that rounding does not hide a wrong master clock. A stream
  keeps the rate it asked for unless the other direction asked for the other family,
  even in a call that failed, or set the shared divider (`PitchIsRight`).
* DMA: which sequences lead to each use of a freed buffer or a null channel
  (`FaultExplained`): streams open at the same time free the runtime data twice, a
  stream opened again transfers to its freed buffer, and a single stream opened once
  is safe but for a buffer freed while its transfer is still ending.
* controls: one with a register per channel, one with both channels in one register,
  and a switch beside them, all three in the list of a stream's start, which a client's
  calls may come between. A value that was set is in the codec, except for what the
  double shift and the shared mask do to the left side (`ControlsHold`).
* drivers: codec, interface and DMA, each loaded and probed twice at most
  (`MaxLoads`, `MaxProbes`): enough to release, fail and load again, and one stop of
  a paused stream (`MaxOverstops`). A freed chip is used only after a second load whose
  Init failed. The bus clock is on once for the driver and for each late failure; a
  master clock once for the driver, each removal and a running stream, less at most one
  for each stop of a paused stream, since the trigger turns the clock off for PAUSE and
  for STOP alike: then an interface that has its driver may be without a clock
  (`DriversExplained`). The DSP's driver is the DMA's in this respect.
* maps: both configurations, values "a" and "b". What is read is what is in the
  register, unless it has no default, a write failed or the interface was probed
  again without a reset (`ReadsExplained`).

`wifi` (128,721 states). Four roles:
* access point: one frequency of a channel and two of none (a second, to follow the
  first), one PHY (HT; VHT is treated alike), a beacon with and without each part,
  and no memory for it. Capabilities and requirements handed to the driver are those
  of the beacon's tail, and the channel that of the centre frequency, except for what
  earlier beacons and configurations left, pointers into freed memory among it
  (`StartsAsConfigured`); the client is told the truth about what is on the air unless
  ChangeBeacon's restart failed (`ClientKnows`).
* station: two channels of 2.4 GHz and one of 5, a wiphy with and without the second
  band, lists of frequencies in either order, with one of no channel among them, two
  scans, one change of the domain. A scan that names
  nothing covers one band only, nothing of a refused request stays allocated, a
  capability is never usable, and a scan follows a null pointer only on a net device
  that never had a wiphy (`hdf_mac80211_sta.c:236` asks it for its channels before
  anything is tested) (`StationExplained`).
* net device: two addresses, two modes, two initialisations (`MaxInits`). What the
  client and the framework believe is so, but for refusals that are not passed on
  (`NetDeviceExplained`).
* calls: arrays around each boundary of an address, the header and the entries of the
  list of stations, three stations, rules that begin and end in the middle of a band,
  two received frames. What success means, per call; every frame is freed or queued
  once; the frequencies are the standard's within the rule (`AnswersExplained`).

`media` (2,267,193 states). Four units:
* node: preview sizes 2x1 and 1x2, whose area is the same and whose sides are not,
  three encoders (`MaxEncoders`) and two that cannot be made (`MaxFailed`). A null or
  freed encoder is followed only if a Stop and a video frame overlapped, a still
  overruns only if the preview was resized under it (`NodeFaultExplained`); there is one
  encoder, of the preview's size (`EncoderIsThePreviews`), until a Stop is late. A Stop
  between lines 274 and 275 of `rk_codec_node.cpp` deletes the encoder the frame has
  just stored and forgets it, and the frame returns; the next frame makes a second
  encoder, and only then does the Stop store the status, which says that there is none:
  the frame after it makes a third, and the second is lost. Three encoders are what it
  takes.
* streams: every buffer of up to nine bytes out of 0, 1 and an IDR header, which
  holds two start codes with something between them; seventeen frames, two groups of
  the longest structure. A frame is flagged iff it holds an IDR slice, and each
  reference is to a frame that is kept and of a lower layer (`StreamDecodes`).
* set-up: a word of 12 bits, areas on each side of every limit, each coding and
  structure. A set-up that succeeds gave the encoder every control, the references with
  as much of their lists as could be stored: what building them answers is overwritten
  (`mpi_enc_utils.c:567`), so that success does not mean a structure. One that fails
  keeps the references only if it was they that were refused, and the process is gone
  only for references that could not be initialised (`EncoderSetupIsWhole`).
* blitter: one RGB format, two YUV formats that are converted differently and one that
  is not supported, each blending, turn and place. What success means
  (`BlitSaysWhatItDid`).

## 5. Proofs

Eight modules of theorems, each for any values of the constants that the named
assumptions allow. Where a run's property is a conjunction, each part of the larger ones
is a theorem and so is the whole. A module that holds the theorems of several components
extends them all; a theorem is about one component's specification, and the others'
variables do not occur in it.

The proofs share one shape. A strengthening of the property is shown to hold at first
and to be kept by each action, one step per action; conjuncts that are about different
variables are kept by lemmas of their own.

**`LayerStackProofs`**, for any layers, z-orders, types and buffers: `TypeCorrect`,
`StackStaysWellFormed`, `FaultNeedsClose`, `StackReadAlive`, `NoLayerVanishes`,
`NoTornFrame`, `FreshPlanDrawsTheStack`. The inductive invariant `StackInv` adds to the
properties that a layer not in the map has its default key (`UnusedDefault`: without it
a new layer might enter the multiset at the wrong place) and that the copies made by
Prepare hold live layers until one is closed (`PlanLive`). `FreshPlan` says that while
nothing was called since Prepare its copies are the multiset, and that a layer in it got
its composition type. The lemmas say that inserting after the upper bound and cutting a
range keep a sequence sorted and its elements distinct. Of the descriptors of the same
layers, for any layers, any last descriptor and any number of frames: `FencesAreOwned`.
`FenceInv` says which descriptor is in which place of a layer (`Held`), that places,
client and lost descriptors share the open ones out (`Balanced`), and that only the
client layer has a release fence, the last frame's (`ReleaseInv`: without it Commit
might return another's). A lemma for each thing that happens to a descriptor (`Give`,
`Empty`, `Close`, `Move`, `Lose`) keeps the balance; a step is a sequence of them.

**`ScreenProofs`**. Of the worker, for any number of registrations: `TypeCorrect`,
`FaultHasACause`, `WorkerServes`, `WorkerIsClean`, `OneLateCallback`, and
`WorkerImplementsService`, the step simulation of `VsyncService`. `VsyncInv` adds who
holds the mutex where (`LockInv`), what the worker's copied pointer can be
(`PointerInv`), and what a late callback implies (`LateInv`). Of scan-out, for any
displays, planes, buffers and candidates in any order: `ScreenShowsWhatIsHeldAlways`,
`BlanksOnlyAfterFailureAlways`, and `ScreenServesFramesAlways`, the step simulation of
`FrameService` by each display. `ScanInv` adds that a plane is bound to a display only
because it is the first that this display picks, which no later binding changes
(`BoundInv`: hence never two), that a framebuffer is held in one place of one display
(`FramebufferInv`: hence what one display removes no other shows), what a lit plane
implies (`LitInv`), and what is held between the complete request and its commit
(`CallInv`). The simulation needs of it that a lit plane is its display's only one, so
that `OnScreen` has no choice, and that a lit plane's framebuffer is held: then a new
framebuffer has another number and leaves the image behind it alone, and the removal of
the one before last darkens the screen only where the last try failed.

**`DisplayProofs`**.
* Hotplug, for any connectors, callbacks and capacity of the socket:
  `ClientsKnowAlways`. `KnowInv` counts: the uevents that wait and the one in hand are
  no more than the changes of this burst (`CountInv`); the stored state differs from the
  kernel's only by what is still waiting (`BehindInv`); and what a client was told is
  what is stored, but for the word the thread is about to pass on (`ToldInv`).
* Discovery of planes, for any windows and masks: `PlanesServeDisplaysAlways`. `ObjInv`
  says what is known of each property id (`KnownInv`), what a display that started has
  (`StartedInv`), and what each outcome of a frame implies (`OutcomeInv`). The planes of
  a display are a set with an order, `Sooner`, so that "the first" has no index.
* Power and backlight, for any word: `ReportsAreExplainedAlways`; attributes, for any
  layers and values: `DrawsWhatWasSetAlways`; lists asked for in two calls, for any
  monitors: `CallsStayInBoundsAlways`, by who may have made a list grow since its length
  was told (`CallsInv`); the synchronisation, for any number of tries:
  `SuccessMeansSyncedAlways`.

**`PipesProofs`**, for any connectors, encoders, crtcs, monitors and mode ids:
`TypeCorrect`, `CrtcsNotShared`, `BootCrtcsKept`, `CrtcsAreApart`,
`ModesAreTheMonitors`. `PipesInv` adds that a crtc is bound to the display that has it
and to no other (`DiscoveryInv`), what the boot loader can have left (`Boot`), and that
a crtc which lights a connector still to be discovered is bound to nobody (`LitInv`):
without the last, an earlier connector might have taken it. `ModesInv` says that what is
stored of a monitor is that of the one that is there (`Current`), unless the hotplug
thread has yet to look (`Awaited`), and that it has nothing to do before discovery ends
(`QuietAtFirst`).

**`AudioCardProofs`**, for any bound on the stray commands, any rates and any number of
failed writes. Of the interface: `TypeCorrect`, `CountIsStreams`, `InterfaceIsCount`,
`InterfaceServes`. `TriggersInv` adds that a clock enabled twice belongs to a running
stream (`ClockInv`), that a call which has not counted yet carries the direction of its
stream's status (`CommandInv`), and what the count is while a thread is between the
count and the register (`WriteInv`). Of the card: `CardImplementsTriggers` (with the
codec beside it the interface does what it does alone, so that the theorems above hold
of the card), `RatesAreInTheCodec`, `RunningStreamsSound`, `CodecServes`. `CardInv` adds
that the rates are in regmap's cache, and in each register whose last write arrived
(`RatesInv`), which registers a running stream has (`RunningInv`), and that the clock of
capture is on in the cache too (`CaptureInv`: the parameters of playback write the
register of both clocks from it). The lemma `Tables` says what each table of registers
leaves alone.

**`AudioPartsProofs`**.
* DMA: `TypeCorrect`, `FaultHasACause`, from who has the runtime data until both streams
  have been open (`DataInv`) and what a stream over a freed buffer was (`BufferInv`).
* Drivers, for any number of loads and probes: `DriversExplainedAlways`, from how often
  the codec's driver was loaded when its chip is registered (`CodecInv`) and from how
  often each clock is enabled, with and without a driver of the interface and a stream
  that runs (`InterfaceInv`); for any number of stops of a paused stream.
* Clocks, for any rates and masters that are multiples of them: `PitchIsRightAlways`.
  `CallHolds` says, for each place in a call, what is already in the registers unless
  the other direction's call came between.
* Register maps, for any values: `ReadsExplainedAlways`.
* Controls, for any controls, masks, shifts and list: `ControlsHoldAlways`. A register
  is the set of its bits that are on, so that an update is a difference and a union, and
  the lemma `UpdatesItsBits` says what it leaves alone; `OthersHold` carries the
  property to the controls that are not written.

**`WifiProofs`**, for any frequencies, channels and PHYs: `TypeCorrect`,
`SettingsAreTails`, `ClientIsTold`, `ChannelKept`, `ApStartsAsConfigured`. `WifiApInv`
adds that a length without its tail is noticed at once (`LengthInv`), which is what
makes the null read explicable. Of the net device, for any addresses, modes and number
of initialisations: `NetDeviceIsExplained`; `PrivateInv` adds that its private object is
missing only before the first initialisation, or after a later one had no memory. Of the
station, for any finite bands and lists of frequencies: `StationIsExplained`, by
counting the pieces that are allocated and those the driver took, and the capabilities
that were built and lost (`StaInv`), from what a net device without a wiphy cannot have
done (`WithoutWiphy`), and from the lemma `NamedAreScanned`: the array
filled from a list holds only channels the list names, and all that exist if it has
room. Of the calls, for any sizes and domains: `AnswersAreExplained`.

**`MediaProofs`**.
* Gralloc, for any threads, buffers, addresses and sizes: `DeviceIsThere`,
  `NothingIsLost`, `DeviceAndBuffersAreHeld`. `HeapInv` adds that while no two calls met
  on a buffer a call has it to itself (`CallsInv`), that what a buffer remembers is its
  own (`OwnMapping`), that its descriptor is open exactly while it lives, and how many
  `gbm_bo`s are lost (`ObjectsInv`).
  `PlanesFitAlways`, for any width of the word, alignment and sizes: a handle was made
  of a request the driver accepted (`AcceptedInv`), which bounds the sizes so far that
  no rounding wrapped (`RowHoldsPlanes`, `RowsAreHeld`); a row then holds those of all
  the planes, and products grow with their factors (`ProductsGrow`).
* Codec node, for any sizes and number of encoders: `NodeFaultHasACause`,
  `EncoderIsNotLost`, `EncoderHasTheSize`, `EncoderIsKept`. `NodeInv` adds that until
  a Stop is late the status is reset only when there is no encoder, so that a frame
  which found it reset has the node to itself (`MakerInv`), that the node's encoder is
  whole until a Stop has deleted it (`HeldInv`), that a frame no Stop overlapped keeps
  the encoder it found (`FrameInv`), and that a height is stored after its width
  (`SizeInv`).
* Set-up, for any word, areas and modes: `SetupIsWhole`. `SetupInv` adds that the
  controls given are the first ones of `Controls`, that the references are the last, and
  that they are built, as far as they are, when their turn has come.
* Coded frames, for any bytes, lengths of a buffer and numbers of frames:
  `StreamDecodesAlways`. The loop of the search is a recursive function, that is, a
  function chosen to satisfy an equation. `AheadIterates` shows that "an IDR header lies
  ahead of here" satisfies it, and `IterationEnds` that no two functions do: were there
  positions where they differ, the one nearest to the end would be one where the
  equation makes them agree. So the search finds a header iff there is one
  (`SearchFinds`), and no induction theorem is needed. The references of a frame follow
  from its place in its group (`LayerIs`, `LatestIs`, `RefersTo`); `StreamInv` says that
  those that were recorded are these.
* Blitter, for any formats of the three kinds: `BlitSaysAlways`; the property is
  inductive as it stands.

Assumptions on constants. Most say only that a value which stands for "none" is none of
the others, or that a bound is a number. The rest are facts of the code or of what it is
given: a brightness of the word's width holds `BACKLIGHT_MIN`, which the driver's
maximum reaches (`DisplayControlAssumption`); a station's entry in the list that is sent
has more than one character (`WifiCallsAssumption`: a space and an address); the
channels of the two bands are different and a request names frequencies in a list
(`WifiStaAssumption`); a master clock is a multiple of its rates
(`AudioClockAssumption`); a control's registers are the codec's
(`AudioControlsAssumption`); a word has an even number of values, half of them negative
(`EncoderSetupAssumption`); the first frame's two descriptors fit the table
(`FencesAssumption`); the width and the height of a request are numbers of the
word (`GrallocAssumption`: they are `uint32_t`).

Only model-checked. No invariant and no action property of a run. Of the temporal
properties those of liveness: `VsyncKeepsComing`, `ShutdownCompletes`,
`KernelStateReached`, `ReplugGetsMode`. Liveness under fairness and ENABLED are out of
the prover's reach.

## 6. Bounds

Bounds in guards are named where they are declared: `MaxRegs` (registrations), `MaxId`
(handles), `Capacity` (uevents), `MaxStray`, `MaxFaults` (audio commands and lost
writes), `MaxLoads`, `MaxProbes`, `MaxOverstops` (drivers and stops of paused streams),
`MaxFd`, `MaxFrames`, `MaxLost` (descriptors, and those that nobody closes), `MaxTables`
(device tables), `CallLayers`, `MaxFuncs`, `MaxRefused` (allocator tables and dumb
buffers not made), `MaxEncoders`, `MaxFailed` (encoders and failures to make one),
`MaxBytes`, `MaxScans`, `MaxChanges`, `MaxInits`; one event may be lost in `WifiCalls`.
Words are narrower than the code's (`Word`, `SetupWord`, `Half`, `ValueBits`), with the
values on each side of the edge in the run, because what matters is on which side of a
wrap a value falls.

## 7. Not modelled

* In the components above: `PcmPointer`, the word width and channel fields of the
  audio format registers, the functions that copy a mixer control's description
  (`GetCtrlOps`) and the DSP's operations, which do nothing; the blob a mode is turned
  into and the look-ups of a connector's other properties; the loading of the
  blitter's library (`dlopen`); the authentication over wayland; `UpdateModes` of the
  device, which nothing calls; the format-name tables, which are for logging. They
  hold no state that a property here could be about.
* A walk of the callback map that is being changed (`hdi_session.cpp:71`) is undefined
  and its outcomes are those of the library's tree; the order of the two threads'
  accesses is in `Hotplug`.
* The event of a connection's result (`hdf_mac80211_sta_event.c:67`) uses names that
  are declared nowhere. `BDH6WalGetIftype` writes nothing for its caller; `WifiCalls`
  has its answer.
* The encoder's smart mode, which no setting reaches (`gop_mode` is never stored where
  it is read), and `hal_mpp_get_sps`, which nothing calls. The camera's image
  processing example copies one buffer and has no state.
* Vendor headers of MPP, RGA, GBM, the kernel's and the codec's register definitions,
  firmware, blobs, tuning data and build files hold no logic of this repository. They
  are more than half of the lines of the C and C++ files here, which is what limits
  the share of the source the map can cover.

## 8. Plan

The core of each part is modelled, and every safety property of a run is proved. What
is left: the parts of `DrmDisplay::Init` before the composer exists; a hotplug instance
with two connectors that change, small enough to be a run.
