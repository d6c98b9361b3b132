# infinigpu in TLA+

Infinigpu shares one physical GPU among virtual machines. A guest driver talks to a
vfio-user device process per VM over a ring in guest memory; the device replays the
guest's work on the host's GPU under a fleet-wide broker and streams the result to
viewers. This directory holds a TLA+ model of the parts of that system whose
correctness depends on order: who runs between which two steps, what is dropped, what
fails half-way. Everything is translated from the sources; `PROJECT.json` maps each
definition to the lines it stands for.

## The system

| Component | State | Operations | Talks to |
|---|---|---|---|
| Command ring (`infinigpu-ring`) | u32 `tail`/`head`, u64 `seqno_submit`/`seqno_retired`, descriptor slots, all in guest memory | `push`, `pop`, `retire`, `is_fence_signaled` | shared memory between guest and device |
| Linux driver, submission (`infinigpu.c`) | `ring_lock`, the producer's words, payload regions, staging buffers | `igpu_ring2_push`, `igpu_ring2_push_abs`, the two submit ioctls | ring; trapped doorbell write |
| Linux driver, display (`infinigpu.c`) | framebuffer cache, `scanout_res_id`, cursor plane | `igpu_resource_register`, `igpu_flush_resource`, `igpu_flush_damaged`, `igpu_cursor_update_plane` | ring, by messages the host executes later |
| Device drain (`drain.rs`, `drain_ctx`) | none between doorbells | pop a bounded batch, execute it, retire it | ring, DMA table, broker |
| Device front-end (`infinigpu-device`) | BAR0 registers, resource table, damage surface, elision hashes, cursor | register writes, `execute_descriptor`, presents, `dma_map`/`dma_unmap`, reset | broker, replay, pixel stream |
| DMA table | mapped regions | map, unmap, resolve | device front-end, driver's addresses |
| Broker (`infinigpu-sched`) | VRAM and session ledger, token buckets, run-lock | `admit`, `adjust_vram`, `begin`, `record`, `run_timed`, `release` | every backend thread |
| Replay (`infinigpu-replay`) | Vulkan objects, their caches, imports of guest memory | render a clear, a triangle, a forwarded frame; convert; forget imports | GPU; one caller at a time |
| Encoder feed (`infinigpu-pixel`) | latest-frame mailbox, ffmpeg process, feeder and drain threads | `submit_bgra`, `ensure_encoder`, `spawn_session`, `shutdown` | hub, ffmpeg |
| Pixel hub (`infinigpu-pixel`) | viewers, their bounded queues, cached keyframe, plane cache | `broadcast`, `broadcast_control`, `register`, send threads | encoder session, viewers |
| Viewer (`infinigpu-viewer`, `client/`) | decoder, cursor slot, window | receive, decode, draw, send input | hub |
| Guest ICD (`guest/icd`) | fences, semaphores, command buffers | Vulkan entry points, one synchronous submit | Linux driver |

What is hard in it:

* **Lock-free sharing across a process boundary.** The ring's slots are protected by index
  arithmetic alone, over words that wrap; payload regions by nothing but the ring's fullness.
* **The doorbell is synchronous**, and several paths of the driver rely on it; but a host
  that refuses a drain (unmapped ring memory, a denied VM) turns it into an asynchronous
  ring, with submitters of several CPUs retrying, nudging and timing out.
* **One GPU, many threads.** Admission, true-ups, reaps and renders of different VMs
  interleave at every lock of the broker, and a restarted VM has two connections for a while.
* **Memoised work.** The device skips frames it has drawn before, repaints only what was
  damaged, and imports guest memory into the GPU; the replay keeps pipelines, meshes and
  textures by content. Each of these is wrong as soon as one writer forgets to tell it.
* **A lossy fan-out of a stateful stream.** Deltas are useless without the frame they refer
  to; queues shed, viewers join and leave, the encoder is killed and respawned, and the
  splitter behind it keeps the last picture until there is another.
* **Partial failure.** Registrations of several messages, ffmpeg that does not start,
  Vulkan calls that fail half-way through a frame, renders that panic.

`PROJECT.json` lists these as hazards, each at its line, with the properties that would
catch it.

## Modules

| Module | Models |
|---|---|
| `CommandRing` | the ring with its producer and the device's drain, one step per access to a shared word |
| `CommandService` | what the ring promises: submissions executed once each, in order, and a fence that never overtakes them |
| `GuestSubmit` | the Linux driver's submission paths on several CPUs, and the server thread, over `CommandRing` |
| `GpuBroker` | the broker and the backends' use of it |
| `GuestDisplay` | the driver's flips and framebuffer cache, the device's resource table that executes what they push, and a ring that loses messages |
| `DevicePresent` | what one VM's device does with the commands that draw or show: elision, zero copy, the damage surface, the VRAM true-up |
| `HostGpu` | the Vulkan executor: its caches, which object each path makes, owns and frees, and any call failing |
| `EncoderFeed` | from a presented frame through mailbox, feeder, ffmpeg and splitter to the broadcast unit |
| `PixelHub` | hub, viewers' queues and decoders, and the encoder session's life |
| `CursorPlane` | the cursor from the guest's plane through ring, device, hub and queue to the viewers' windows |
| `GuestSubmitProofs` (with `CommandRing`'s), `GpuBrokerProofs`, `DevicePresentProofs`, `HostGpuProofs`, `GuestDisplayProofs`, `EncoderFeedProofs`, `PixelHubProofs`, `CursorPlaneProofs` | proofs |
| `MC*` | instances for TLC |

They overlap where the components meet: `GuestSubmit` contains `CommandRing`; `GuestDisplay`
and `CursorPlane` take a push and its drain as one step, since the interleavings inside them
are `GuestSubmit`'s subject; `DevicePresent` begins where the drained descriptor is executed
and takes a render as a success or a failure, which `HostGpu` opens; `EncoderFeed` ends where
`PixelHub` begins, at the broadcast of a unit.

Operators whose name ends in `_Something` after the name of another one are that
definition with a plausible bug in it; `PROJECT.json` says which property tells them apart.

### CommandRing

`tail`, `head`, `seqno_submit`, `seqno_retired` and `slots` are the shared page and the
descriptor array. The producer (`prod`) passes through: a free slot seen (`PushBegin`),
slot and `seqno_submit` written (`PushWrite`), `tail` published (`PushPublish`), doorbell
rung (`PushDoorbell`). The drain (`cons`) passes through: doorbell taken (`DrainBegin`),
a published slot seen (`PopBegin`), read (`PopRead`), freed (`PopFree`), until the ring is
empty or the batch is at its bound (`PopEnd`); then it executes the batch (`Execute`) and
retires it (`Retire`). `DrainRefused` is any early return of `drain_ctx`; whether
the host may refuse at all (`refusing`) is chosen once per behaviour, and the liveness half of
`ServiceFairSpec` is about a host that refuses nothing. `Nudge` is the
doorbell of a submitter that found the ring full. `published` and `executed` are history
variables. A doorbell served while the producer is writing is possible: it is another
CPU's nudge.

Index words have range `IndexMod` (2^32 in the code). `LinuxSeqno` selects between the C
driver's seqno (`(u64)tail + 1`) and `Ring::push`'s (`tail.wrapping_add(1) as u64`); they
differ at the last index before the wrap only.

Memory is sequentially consistent in the model. The code's Release/Acquire pairs are the
subject of the repository's loom tests; the model is about what is left when they work.

### GuestSubmit

Each CPU's `pc` follows `igpu_submit_3d`/`igpu_submit_forwarded` (`kind` is `"3d"` or
`"fwd"`) or a display push that does not wait (`"flush"`). Every step that touches the
ring conjoins the `CommandRing` action it performs. `mem` holds what the payload regions
and staging buffers contain, as the number of the workload copied there; `ran` is what the
device read when it executed. The server thread serves one doorbell at a time (`serving`)
and the CPU waits in the trapped write until it answers. `Remap` is `dma_unmap`/`dma_map`
of the ring memory, on the same thread; `admitted` is the broker's (sticky) answer.

### GpuBroker

The state behind the mutex is `vms`, `reserved`, `encoder`, `vramUsed`, `encUsed`,
`tokens`; every broker call that takes the mutex is one action. `pc` is where a backend's
thread is in `run_timed`: before `begin`, napping, waiting for the run-lock, rendering, or
about to record. Time is discrete (`Tick`): it refills buckets, ends naps and lengthens
renders. A backend's own fields are `ticket`, `denied` and `dims`.

### GuestDisplay

`pc` follows one flip through `igpu_flush_resource`: `Flip` looks the framebuffer up in
`fbcache`; a miss goes through `PushCreate`, `PushAttach`, `PushBind` and `Fill` (with the
eviction of the round-robin victim), a hit through `Rebind` when the head is tracked on
another buffer; `PushFlush` ends it. `Push` is `igpu_ring2_push` with the drain that its
doorbell runs on the host: a full ring takes nothing and rings nothing, and what comes back
is the retired seqno, 0 until the first batch ever ran. `host` is the resource table with
the scanout surface, and `Execute` is `execute_resource` with `present_resource_flush`.
`Settled` is the host after everything in the ring: `Drained` runs the descriptors one after the
other, a recursive function over how many have run. `pixels` and `screen` number the frame
that each region of a buffer was drawn for, and should show. Unlike `GuestSubmit` it takes a
push and its drain as one step; the interleavings inside them are that module's subject.

### DevicePresent

One step per handler: the vfio-user thread runs each to its end. `dma` says which bands of
rows of a buffer lie in one mapping, since `resolve` refuses a range that crosses two; `ram`
is guest memory and `writer` (a history variable) who made it what it is. A submit passes
admission, elision (`lastHash`), zero copy and the one-copy present in the code's order, and
each can fail where the code returns. `surface`, `shown` and `believed` are the persistent
damage surface, the picture handed to the encoder and the picture of the present that was
retired last; `Honest` is what the driver's damage means, namely everything the guest has
drawn since the present it saw retired. Bands stand for rows: a narrow rectangle has its
rows and is not the whole frame. Payloads are told apart exactly, so a collision of the
64-bit hash is not modelled. A render that finds a buffer unmapped retires all the same, as
in the code. The debug register that writes guest memory counts as the guest's own store.

### HostGpu

One call at a time (`SharedGpu` holds a mutex around each), as a list of stages in the order of
its entry point (`Path`). A stage that builds something goes through the list of its Vulkan
calls and may fail at any; `Guard` lists what the cleanup guard of that path destroys, and
`Registered` from when it knows of a handle, so that what a failure leaves behind (`stray`)
follows from the code's order. `cache` has all the caches with their bounds, `live` what exists
on the device, `frame` what the call holds, `gpu` what the queue uses. The textures of a draw are
resolved one per step (`frame.next`), since each upload may fail, in the resident cache
(`ResolveTexture`) or, with it off, as textures of the call's own (`BuildOwned`). With the pipeline cache
off the call builds modules and pipeline itself, but the set layout still comes from its cache
(`OwnPipelinePath`). `EntryPoints` are the entry points that the modules have; a draw may name others,
and then compiling fails (`Compiles`). A frame is judged as its call
returns it (`Shown`). An object is its kind and
what it was made from. `Remap` is the device's `dma_map`/`dma_unmap`, which forgets all imports.

### EncoderFeed

`SubmitBgra` is the callback thread's whole call, with a respawn inside it; the feeder's
`FeederTakes`, `FeederTimesOut` and `FeederWrites` run beside it. `session.pipe` is all that
ffmpeg and the splitter hold: a unit comes out only when another is behind it (`Emit`), or when
the process ends (`Crash`, `Shutdown`), and then perhaps. `owed` and `shed` are two viewers seen
from here: one that waits for a keyframe made after it joined, one that drops all up to the next
keyframe. Every `Gop`-th frame fed is a keyframe, as `-g` asks of ffmpeg; the optional
intra-refresh mode, which has no periodic keyframes, is left out, and so is a spawn that fails
(`PixelHub` has it: after one, no session and no encoder is left to flush or to be asked for a keyframe).

### PixelHub

The hub's one lock makes each of `Broadcast`, `BroadcastControl` and `Register` a step. The
encoder session is up, dead (ffmpeg exited by itself), or none (it could not be started);
`ensure_encoder` passes through `TearDown`, `ResetKeyframe` and `SpawnSession` or
`SpawnFails`, so that other threads run between them. Access units are numbered; a delta
refers to the unit before it, and `synced` is the viewer's decoder.

### CursorPlane

`Commit` is the driver's plane update with its push (a full ring loses it), `Drain` is
`handle_cursor_update`, `SendPlane` the hub's control lane with its priming cache, `Receive` the
viewer's stream thread and `Draw` its render loop, which composites only when it sees a change.
A shape is an address whose pixels do not change: the device takes a DEFINE of the same
address and geometry for a move, so a cursor redrawn in place is outside the model. Shapes of a bad geometry
or by resource id, which the device drops, are too: the driver sends none. Positions
are left out, since a viewer draws at its own pointer. `Primer` is what the hub sends a viewer that
joins: the cached shape, then the move that came after it. That no message is a shape or `None`
(`CursorAssumption`) says only that they are of different types.

## Runs

| Run | Question | Result |
|---|---|---|
| `CommandRing_lap` | Is the ring the command service, through a lap of its index words, with every submission retired? | yes |
| `GuestSubmit_drains` | Does each CPU's payload execute intact, does every ioctl wait for its own submission, and return, whatever the host refuses? | yes |
| `GuestSubmit_staging` | Does a staging buffer live until its submission is executed? | **no** |
| `GpuBroker_shared` | Is capacity ever over-committed, leaked or freed twice; does the throttle hold and every submission return? | no; yes |
| `GuestDisplay_flips` | Does the screen show the last frame, and does the host keep exactly what the driver has registered? | yes |
| `DevicePresent_shows` | Are frames elided only over their own pixels, is what is streamed what was retired, does the reservation follow the mode? | yes |
| `DevicePresent_elide` | Can a 2D present leave a frame that is then elided over other contents? | **yes** |
| `HostGpu_frames` | Whatever is evicted and whichever call fails, is each frame drawn with its own, existing objects (but for the entry point of a cached pipeline), and nothing left behind? | yes |
| `HostGpu_entry` | Is a draw that names an entry point which its module lacks always refused? | **no** |
| `EncoderFeed_idle` | Does the last picture come out, is every keyframe served, does an idle guest come to cost nothing? | yes |
| `PixelHub_streams` | Across sheds, joins, respawns and failed starts of ffmpeg, does a decoder lose sync only right after joining? | yes |
| `CursorPlane_overlay` | Do viewers agree on the cursor, and show the guest's? | yes |

The three answers in bold are disagreements between the code and one of its comments or tests;
"findings" in `PROJECT.json` quotes each with its line.

### What the properties leave out on purpose

Each of these is a limit of the code that a property excludes by name, so that what it says is
true of this commit:

* The seqno is made from the 32-bit index and restarts when it wraps, so that a fence test
  (`>=`) is right within 2^32 submissions only. `FenceSound` and the refinement are therefore
  within a lap, and `OneLap` is an assumption of their theorems.
* After refused drains a nudge's drain can run beside a push, and the push may reuse the payload
  region of a slot that was popped and not yet executed. `PayloadIntact` and `AckedRan` are
  about a device that drains whenever it is rung.
* `adjust_vram` (`sched/lib.rs:531`) checks a grown reservation against the free budget and not
  against the VM's cap, which only admission applies. `WithinBudget` is about the GPU's budget; no
  property says that a reservation stays below the cap, for after a true-up it need not. A grow
  that was refused is not tried again at that size; `ReservationFollowsMode` excludes it.
* A zero-copy render that fails after the GPU has written leaves the old hash behind
  (`device/lib.rs` around 1925), and the guest's own stores are not announced: `ElisionSound` is
  about buffers that the device was the last to write whole.
* `present_scanout_damaged` says that it bails without retiring when a row is unmapped
  (`device/lib.rs:2167`); it does not publish a retirement itself, but `drain_ctx` retires the
  batch it belongs to all the same. `believed` is about the handler's own retirement.
* `NoLeak` is checked for forwarded frames, zero copy, the triangle and the conversion.
  `render_clear` and the export paths tell their guard of a handle only after a later call
  (`replay/lib.rs` around 2112 and 2383), and leave it behind if that call fails; the
  definitions of these paths are in `HostGpu`, the run's `Entries` leave them out. The run's frames
  bind each texture once: a frame that binds one twice, when it is not yet resident, uploads it
  twice and loses the first copy.
* `PipelineKey` (`replay/lib.rs:692`) has no field for the entry names, while the guest ICD forwards
  the application's `pName` (`guest/icd/infinigpu_pipeline.c:107`) and the device decodes any name
  (`device/lib.rs:482-483`, `766-767`). So of two entry points of one module the second is drawn
  with the pipeline of the first. `FrameIsTheDraws` says what the code does give: the
  pipeline is of the draw's own shaders and states, was compiled with an entry point that exists, and
  is of the draw's own one where nothing is cached (`INFINIGPU_PIPELINE_CACHE=0`). The run has two entry
  points in one module; that a name no module has is drawn as well is `HostGpu_entry`.
* With the scratch cache off a forwarded draw goes through `render_triangle_inner`, which draws
  `vertex_count` vertices and binds no mesh, texture or descriptor set (`replay/lib.rs:4505`): a
  command list, whose `vertex_count` is 0, comes out blank. The comment at `replay/lib.rs:1469-1470` says
  that this path was validated identical, which holds for draws without geometry only.
  `FrameIsTheDraws` says, with equality, that such a frame has none of them.
* A flip whose SET_SCANOUT_BLOB met a full ring has updated `scanout_res_id` all the same
  (`infinigpu.c:757-763`), so the next flip of that buffer binds nothing and its flush shows nothing,
  although the comment at `infinigpu.c:781` says that "the next flip retries". `FlipShown` is about the
  screen from the next newly registered buffer on (`history.sound`).
* `NoLeak` of `GuestDisplay` is about a driver from which no message was dropped. The blob of a
  registration that failed half-way, under an id the driver forgets, and the blob of an eviction
  whose RESOURCE_DESTROY met a full ring (nothing undoes the first, nothing repeats the second) stay on the
  host; the model has both and no property forbids them.
* A viewer that shed its backlog resyncs at the next periodic keyframe, which is counted in
  frames: on an idle guest it does not come. `ShedViewerResyncs` has the premise that the picture
  goes on changing. The comment at `pixel/lib.rs:904` says "~2s".
* An encoder that dies on a static screen is not replaced before the next change or join, for an
  unchanged frame returns before `ensure_encoder` looks. `LastFrameReaches` and `KeyframeServed`
  are about encoders that live until then.
* After a spawn that failed there is no old session to compare sizes with, and a cached keyframe
  of another size stays. `PrimerFitsSession` is about behaviours in which every encoder started.
* A shed clears a viewer's queue, cursor messages included, although `pixel/lib.rs:773` calls
  them exempt, and control messages count towards the bound. `OverlayAgrees` and `CursorShown`
  exclude a viewer that lost some, until the next shape.
* A DEFINE that comes less than 33 ms after the last one, or whose pixels cannot be read from guest
  memory, is dropped, and the driver does not send it again; an update that finds the ring full is
  lost; and after a reset viewers keep the old
  overlay, for `cursor_needs_resolicit` is set and never read. `CursorShown` counts from the next
  change that gets through (`missed`).

### Bounds

* `CommandRing`: 2 slots, so that full, partly full and empty differ; an index range of 4 and 4
  submissions, so that the index words wrap.
* `GuestSubmit`: 2 CPUs, 2 slots, 3 submissions, 2 attempts instead of 64 at a full ring, 2 changes
  of the mapping. `MaxNudges` bounds unserved doorbells.
* `GpuBroker`: 3 connections for 2 VMs, two of them with one vm_id, two VM slots, one session, a
  budget of three estimates: each check of `admit` denies somewhere. Renders last up to 2 ticks.
* `GuestDisplay`: 3 framebuffers over a cache of 2, so that evictions and re-registrations
  happen; 5 flips with damage to one or both of 2 regions; a ring of 3 slots, so that one
  registration can fill it at any of its messages; 2 changes of the mapping (one outage) and one
  push by somebody else. The host's table (1024 blobs) is never full there: that takes a
  thousand leaked blobs.
* `DevicePresent`: 2 buffers of 2 bands, presented at 2 heights, 2 colours, one payload that can be
  zero-copied and one that cannot, and a table of one hash (8 in the code), so that it overflows.
  Nothing else is bounded: every order of commands, of any length, is covered.
* `HostGpu`: caches of 1 to 3 entries, 4 draws that differ in shaders, mesh, depth, textures and
  descriptors, so that each cache is hit, missed and emptied in the middle of a frame; two of them
  differ in the entry point of their module and share a pipeline key. 2 scanout buffers, which no
  action tells apart, so they are symmetric. `HostGpu_entry` has the smallest case: one module, and a
  draw for an entry point it has and for one it has not (`EntryPoints`).
* `EncoderFeed`: 2 pictures, a pipe of 2 units (the one the splitter holds and one more), a
  keyframe every 3 frames, 2 joins, 1 shed, 1 crash.
* `PixelHub`: one viewer at a time, a queue of 2 messages, 5 access units, 2 cursor messages, 2
  sizes, one respawn that may fail: enough for a shed, a join during it, and a resync.
* `CursorPlane`: 2 viewers, 2 shapes, 4 changes of the plane, a ring of 2, one reset and one shed: a
  viewer joins at each stage of a shape's life while the other has seen it from the start.

### Fairness

* `CommandRing`: a push that has begun is finished (the mutex is held, nothing in it
  blocks) and the server thread serves doorbells. Nobody has to submit or nudge.
* `GuestSubmit`: each CPU inside an ioctl keeps running, the server thread serves, and the
  kernel mutex is handed to waiters (strong fairness of `LockRing`; Linux mutexes hand
  off to a starving waiter). Memory need never be mapped again.
* `GpuBroker`: time passes, a runnable thread runs, a render ends. `TakeRunLock` is strongly
  fair: `std::sync::Mutex` gives no order, but the threads that compete for it empty their
  buckets and sleep.
* `EncoderFeed`: the feeder runs and its 80 ms wait ends, ffmpeg encodes what it was fed, the
  rate-limit interval passes. The guest need not present anything: where a property needs it to,
  that is its premise (`GuestPresents`, `PresentsAnother`).

## Proofs

Of `CommandRing`, `GuestSubmitProofs` first proves, for every capacity that divides the index
range, every index range and every set of addresses:

* `TypeCorrect`: `Spec => []TypeOK`.
* `SlotRaceFreedom`, `InOrderExecution`: from one inductive invariant, `RingInv`, by way of
  ghost indices that do not wrap: `tail` is `Len(published) % IndexMod` and `head` is the
  number of descriptors freed, modulo the same; the occupancy is between 0 and `Cap`, so the
  wrapped difference is the true one; the slots between them hold exactly the published and
  not yet freed descriptors; and a slot being read lies among them while a slot being written
  does not. Without the contents of the slots the invariant is not inductive: `PopRead` would
  put an arbitrary descriptor into the batch.
* `FenceSoundness`, `RetireMonotonicity`, `RingImplementsService`: under `OneLap` (fewer
  submissions than the index range) with `FenceInv`, which says that the n-th submission has
  seqno n, that `highest` is the last seqno popped, and that `seqno_retired` is at most the
  number executed. `OneLap` is needed: seqnos restart with the index.

Its opening section has the facts of modular arithmetic these rest on: distinct numbers less than
`Cap` apart have distinct slots, the wrapped difference of two close counters is their
difference, and bumping commutes with the modulus.

Of the driver it proves `SubmitImplementsRing`: every behaviour of the driver and the server
thread is one of `CommandRing`, so that `DriverSlotRaceFreedom` and `DriverInOrderExecution` follow
for any number of CPUs. The step lemma needs the ring's type invariant, because the address of an
inline payload is the region of the slot at `tail`. Within a lap (`OneLap`) it proves the driver's
own five invariants, for any CPUs, attempts, refusals and remaps: `SubmitTypeCorrect`, `OwnSeqno`,
`DoorbellRetirement`, `PayloadIntegrity` and `AcknowledgedExecution`, from `SubmitInv`:

* `PushInv`: types; `LockInv`, that the lock, the producer and the server thread each have the one
  CPU they belong to; `JobInv`, that each ioctl has a workload of its own, and a staged one is in
  its buffer until the ioctl is over.
* `FenceInv` of the ring, and `WaitInv`: between publishing and reading its seqno a CPU's descriptor
  is the last one published, so the seqno it then polls for is its own; two pollers wait for
  different ones. This holds whatever the host refuses.
* `ServedInv`: while the host drains whenever it is rung (`Served`), a push finds the ring empty and
  its doorbell's drain pops that one descriptor (`DrainedInv`); so the device reads the payload
  before its region is written again (`PayloadInv`). `Served` is given up for good once the ring
  was unmapped or the VM not admitted: from then on a nudge's drain may run beside a push.
  `PayloadInv` says for each CPU whether its job has been executed, which is what makes it inductive.

`GpuBrokerProofs` proves, for any number of connections and VMs, any capacities, caps, estimates,
rates and bursts:

* `BrokerTypeCorrect`, with the arithmetic of refills and naps (`RefillBounds`, `NapBounds`).
* `TicketOwnership` and `AdmittedRuns`, from `OwnerInv`: a reap is by vm_id, so a running thread
  keeps its registration only because its ticket is that VM's only one, and its ticket is the only
  one because admission refuses a registered vm_id. Neither is inductive without the other.
* `NoOverCommit` and `SessionAccounting`, from `CapacityInv` on top of `OwnerInv`: a reap subtracts
  with saturation, so the session count is exact only while the entry that is reaped is there.
* `LedgerAccounting`: the VRAM counter is the sum over the registered VMs (`VramInv`) at every
  grow, shrink, admission and reap. The sum is a fold over a finite set; its two laws (adding a VM
  adds its value; it depends on the members' values alone) are proved by a smallest counterexample,
  since the library's induction theorems cannot be instantiated.
* `ThrottleBackPressure`, from `DebtInv`, which extends the positive bucket to the thread that is
  about to record: nobody else holds a ticket of that VM to debit it meanwhile.

`DevicePresentProofs` proves, for any buffers, heights, colours, payloads, table size and estimate,
`PresentTypeCorrect`, `ElisionSoundness`, `SurfaceFaithfulness` and `ReservationTracksMode` from
`PresentInv`, which has three parts that are preserved one by one:

* `ReservationInv` adds that a VM without a ticket has no noted size: without it, a VM admitted
  anew would start at the baseline with a size that is taken for accounted.
* `MemoryInv` adds that the table of hashes is finite, so that its bound (`HashCap`) survives one
  more entry (`Remembered`); `Painted` and `TakenOver` are the two ways in which a buffer changes.
* `PictureInv` adds that the surface, when there is one, is what viewers see. `PatchedPicture` is
  the heart of it: a patched surface is the guest's buffer, because outside the honest damage the
  buffer still holds what was retired last, and that is the surface.

`PresentAssumption` is all they assume; that the guest's damage is honest is a guard of the model.

`HostGpuProofs` proves, for any capacities, draws, modes and buffers, and whichever Vulkan call
fails:

* `ImportsStayMapped` and `NoUseAfterDestroy`, from `HostInv`: what is left of a call is always a
  sound list of stages, in which no stage sweeps what an earlier one has named (`Sound`), so what
  `frame.refs` holds is never of a kind that a later stage may destroy; staged textures are not in
  the cache yet; what the call owns is of other kinds than what caches own. Without the kinds the
  invariant is not inductive: an eviction could hit an object that the frame refers to.
* `NothingLeaks`, from `LeakInv`: every live object is in a cache, owned by the call or in an upload
  about to be freed, and every cleanup guard knows every handle made so far. Two hypotheses, each
  a limit of the code: `NoneDropped` (no `render_clear`, no export: these tell their guard of a
  handle only after a later call) and `TexturesDistinct` (no draw binds one texture twice: the
  second insert at `replay/lib.rs:3013` drops the first resident without destroying it).
* `FramesAreTheDraws`, from `FrameInv`, without a hypothesis on the draws: every cached pipeline was
  built from some draw with its key (`PipelinesInv`), and draws of one key differ in the entry point
  only (`SameKey`); everything the call names is of its own draw and buffer (`RefsInv`); and what the
  draw needs is named already or due to a stage that is still to come (`CoverInv`), the textures one
  by one: each that was passed is named or staged. At the end no stage is left, so all is named. With
  the scratch cache off the path has no stage that binds a mesh or a texture (`BoundStages`).
* `HostTypeCorrect`, from `SizeInv`: no cache holds more than its limit, and the byte counters are
  the number of keys. The texture cache is trimmed before the textures are resolved, and the staged
  ones are distinct and at most `MaxTextures`; so its limit is kept although `texs` itself evicts
  nothing. With a texture bound twice, the counter would count a resident that is no longer there.

`GuestDisplayProofs` proves, for any framebuffers, regions, cache, ring, flips, refusals and remaps:

* `DisplayTypeCorrect`, from `DriverInv`, which holds whatever the host refuses: no framebuffer and
  no id takes two slots, and a flip that is past its lookup has drawn its buffer.
* `CachedBuffersLand`, `HeadStaysKnown` and `ScreenShowsFlips`, from `BlobsInv` and `ShownInv`, which
  are about the host after everything in the ring (`Settled`). The key lemma, `DrainedRedrawn`, says
  what one more descriptor, or new pixels in a framebuffer, change in that; the recursion
  is unfolded by a smallest counterexample. `ShownInv` needs `BlobsInv`: a flush shows something
  only if the blob exists.
* `NoBlobLeaks`: on a ring that takes everything, the host has exactly the cached blobs.

The host's table has room for `MaxBlobs` (1024) blobs, and a CREATE that finds it full is refused;
a DESTROY that is lost to a full ring leaves its blob there. So the middle three hold as long as no
more than `MaxBlobs` buffers were ever registered (`RoomForAll`: `MaxFlips <= MaxBlobs`), whatever is
lost; or, for any number of flips, as long as the cache is smaller than the table
(`RoomForCache`; 4 and 1024 in the code) and nothing was lost: `UndroppedDisplay`. Beyond both a
driver whose pushes fail again and again can fill the table, and then the properties are false.

`EncoderFeedProofs` proves, for any frames, keyframe period and pipe of two units or more, the safety
that the liveness of the feed rests on, from `FeedInv`:

* `FeedTypeCorrect`, from `SessionInv`, which adds that the feeder of a living session has not ended.
* `PictureIsOut`: while the encoder lives, the feeder and the splitter have nothing left to do only
  when the viewers were sent what the guest presents. `FreshInv` says that the frame fed last,
  wherever it is between mailbox and ffmpeg, is the presented one, and that only this one is skipped;
  `HeldInv` says that the last frame written ends the pipe, and is there twice, or once with its first
  copy broadcast, unless its second writing is still due. A pipe of one unit would never let the
  splitter's unit out, so the assumption on `PipeCap` is needed.
* `KeyframeIsKept`: a viewer that waits for its keyframe has its request pending, or an encoder
  that lives has the keyframe yet to write or in its pipe.

`PixelHubProofs` proves, for any viewers, sizes, queue and number of access units, `HubTypeCorrect`;
`PrimersFit`, from `PrimerInv` (as long as every encoder started, the cached keyframe has the size of
the session, or of the next one between the reset and the spawn); and `SyncKept`, the action
property, from `DecoderInv`: the units in a viewer's queue are in order and gapless from the last
one it received or from a keyframe, and a viewer whose queue has a gap is waiting for a keyframe. The
only step at which a decoder can lose sync is then a viewer's first delta after it was primed.

`CursorPlaneProofs` proves, for any viewers, shapes and ring, `CursorTypeCorrect`, `OverlaysAgree` and
`CursorIsShown` from `CursorInv`, which speaks of what a queue comes to: the shape of the last DEFINE
in it, or else of the slot (`ShapeTo`), and the visibility of the last message (`VisibleTo`).

* `PlaneInv`: every viewer from which nothing was kept comes to the hub's cached shape and
  visibility, however it joined. A broadcast changes both sides alike (`SentPlane`); a message that is
  received moves from the queue to the slot (`ShapeTail`); a primed viewer starts there
  (`PrimerFacts`).
* `ShownInv`: unless it was missed, the last change of the guest's plane is in the ring with
  only pure moves behind it, or it was forwarded and every viewer comes to it. A pure move is
  harmless because one that is last in the ring means that the plane is on (`GuestInv`).
* `WindowInv`: a window that has the slot's version has its shape, and what is drawn follows
  from both, so the two places from which `Redrawn` takes a shape agree.
* `CountInv`: updates in the ring, in the queue and in the slot add up to no more than was committed.

Only model-checked are the three runs that end in a violation, and liveness under fairness, which
is out of the provers' reach: `ServiceFairSpec`'s fairness, `SubmitReturns`,
`RunReturns` and `EncoderFeed`'s four. `RefillAssumption` is used by the broker's liveness alone. The
other assumptions on constants say what kind of value each is (`FeedAssumption` also that the pipe holds the splitter's unit and one more); two
say more, and the code's own
checks justify them: `BrokerAssumption` (rates are positive: a weight is at least 1, `sched/lib.rs:129`, and
the floor is 20000 µs/s) and `CallAssumption` (no frame binds more than `MAX_TEXTURES` textures,
`replay/lib.rs:3526` and `device/lib.rs:547`).

## Plan

What is left, in order of importance:

1. An abstract screen that `GuestDisplay` and `DevicePresent` implement together: the screen is the
   last flip of which nothing was lost.
2. A theorem on the clears and exports of `HostGpu`: what exactly they leave behind.

## Not modelled

* The standalone renders and device selection of the replay, shaders and what they compute.
* The worker process (`replay/process.rs`): one request and its answer over a socket, used by a
  demonstration program only. The device's mailbox (`device/mailbox.rs`) has no caller.
* The viewer's window: swapchain, input mapping, reconnection. Two hazards of its draw loop (the
  staging buffer is written before the fence is waited for; the fence is reset before the steps
  that may fail, and since `window.rs:165-168` logs the error and draws again, the next draw waits
  for it for ever) are listed in `PROJECT.json` without a property.
* The guest ICD: its synchronisation objects are one flag each, set before a synchronous submit
  returns; the rest is object tables and serialisation.
* The driver's legacy single-descriptor path (`igpu_ring_submit`), exclusive with the ring drainer
  and with one submission in flight, and its mode setting.
* Identification and interrupt registers of BAR0, MSI-X, profiling, `FleetView`, NVML, the HAL
  traits, the browser client, the Windows scaffold, the vendored transport and the scripts: data,
  I/O, or not this repository's code. Of the transport the models use only that callbacks run
  one at a time on one thread and that a write is answered after its callback.
* The pipeline cache file on disk, which processes that end together may overwrite for one
  another.
