----------------------------- MODULE GuestDisplay -----------------------------
(***************************************************************************)
(* The Linux driver's display path over the command ring                   *)
(* (guest/linux/infinigpu.c: igpu_resource_register, igpu_flush_resource)  *)
(* and the device's resource table, which executes what the path pushes    *)
(* (crates/infinigpu-device: resource.rs, dispatch.rs,                     *)
(* present_resource_flush).  A flip holds ring_lock from its first push to *)
(* its last; other submitters push between flips, and their nudges and the *)
(* hypervisor's unmap and map of the ring memory fall between any two      *)
(* pushes.  A push and the drain its doorbell starts are one step: the     *)
(* doorbell write is not posted (GuestSubmit checks that).                 *)
(***************************************************************************)
EXTENDS Naturals, Sequences, FiniteSets

CONSTANTS
  Fbs,         (* framebuffers: (address, width, height, pitch), all one size *)
  Regions,     (* parts of the screen that damage tells apart                 *)
  CacheSize,   (* IGPU_FBCACHE                                                *)
  Cap,         (* IGPU_RING2_CAP                                              *)
  MaxBlobs,    (* MAX_RESOURCES                                               *)
  Never,       (* no framebuffer: an empty cache slot, a blob without backing *)
  Absent,      (* a res_id the host has no blob for                           *)
  MaxFlips,    (* bound on the flips                                          *)
  MaxOthers,   (* bound on the other submitters' pushes                       *)
  MaxRemaps    (* bound on dma_unmap/dma_map of the ring memory               *)

ASSUME DisplayAssumption ==
  /\ CacheSize \in Nat \ {0} /\ Cap \in Nat \ {0} /\ MaxBlobs \in Nat \ {0}
  /\ MaxFlips \in Nat /\ MaxOthers \in Nat /\ MaxRemaps \in Nat
  /\ Regions # {} /\ Never \notin Fbs /\ Absent \notin Fbs \cup {Never}

VARIABLES
  ring,        (* descriptors pushed and not drained                         *)
  mapped,      (* is the ring memory in the device's DMA table?              *)
  remaps,      (* how often that changed                                     *)
  everRetired, (* seqno_retired is not 0: a push can return non-zero         *)
  host,        (* the resource table and the scanout surface                 *)
  pixels,      (* the frame each region of each framebuffer was drawn for    *)
  screen,      (* the frame each region should show                          *)
  cache,       (* fbcache: slot -> [res, fb]                                 *)
  cacheNext,   (* fbcache_next                                               *)
  nextRes,     (* next_res_id                                                *)
  scanoutRes,  (* scanout_res_id                                             *)
  pc,          (* where the flip is                                          *)
  flip,        (* the flip in progress: its framebuffer, res_id and damage   *)
  frames,      (* flips begun; a frame is its number                         *)
  others,      (* other pushes made                                          *)
  history      (* history: what became of the pushes                         *)

hostVars == <<ring, everRetired, host>>
dmaVars == <<mapped, remaps>>
cacheVars == <<cache, cacheNext>>
frameVars == <<pixels, screen, frames>>
vars == <<hostVars, dmaVars, cacheVars, frameVars, nextRes, scanoutRes, pc, flip,
          others, history>>

ResIds == 1 .. MaxFlips                     \* a flip takes at most one new id
Slots == 0 .. CacheSize - 1
EmptySlot == [res |-> 0, fb |-> Never]
FullFrame == Regions

Init ==
  /\ ring = << >> /\ mapped = TRUE /\ remaps = 0 /\ everRetired = FALSE
  /\ host = [blobs |-> [r \in ResIds |-> Absent], scanout |-> 0,
             shown |-> [a \in Regions |-> 0]]
  /\ pixels = [f \in Fbs |-> [a \in Regions |-> 0]]
  /\ screen = [a \in Regions |-> 0]
  /\ cache = [s \in Slots |-> EmptySlot] /\ cacheNext = 0
  /\ nextRes = 0 /\ scanoutRes = 0
  /\ pc = "idle" /\ flip = [fb |-> Never, res |-> 0, damage |-> {}]
  /\ frames = 0 /\ others = 0
  /\ history = [dropped |-> FALSE, whole |-> TRUE, fresh |-> FALSE, sound |-> TRUE]

-----------------------------------------------------------------------------
(* The device: one descriptor of a drained batch.  A rejected operation is   *)
(* logged and changes nothing; its fence retires with the batch.             *)

Exists(h, res) == h.blobs[res] # Absent
Blobs(h) == {res \in ResIds : Exists(h, res)}

Create(h, res) ==
  IF Cardinality(Blobs(h)) < MaxBlobs /\ ~Exists(h, res)
  THEN [h EXCEPT !.blobs[res] = Never] ELSE h

Attach(h, res, f) ==
  IF Exists(h, res) THEN [h EXCEPT !.blobs[res] = f] ELSE h

Bind(h, res) ==
  IF Exists(h, res) THEN [h EXCEPT !.scanout = res] ELSE h

Destroy(h, res) ==
  IF Exists(h, res)
  THEN [h EXCEPT !.blobs[res] = Absent, !.scanout = IF @ = res THEN 0 ELSE @]
  ELSE h

\* Only a backed blob that is bound to the head is presented: its pixels, as
\* they are drawn when the batch runs, patch the damaged part of the surface.
Flush(h, res, damage, drawn) ==
  IF Exists(h, res) /\ h.blobs[res] # Never /\ h.scanout = res
  THEN [h EXCEPT !.shown = [a \in Regions |-> IF a \in damage THEN drawn[h.blobs[res]][a]
                                              ELSE @[a]]]
  ELSE h

Execute(h, msg, drawn) ==
  CASE msg.op = "create"  -> Create(h, msg.res)
    [] msg.op = "attach"  -> Attach(h, msg.res, msg.fb)
    [] msg.op = "bind"    -> Bind(h, msg.res)
    [] msg.op = "destroy" -> Destroy(h, msg.res)
    [] msg.op = "flush"   -> Flush(h, msg.res, msg.damage, drawn)
    [] msg.op = "submit"  -> h

\* A batch, in order: what the host has after the first i descriptors of it.
After(h, msgs, drawn) ==
  LET after[i \in 0 .. Len(msgs)] ==
        IF i = 0 THEN h ELSE Execute(after[i - 1], msgs[i], drawn)
  IN  after

Drained(h, msgs, drawn) == After(h, msgs, drawn)[Len(msgs)]

\* What the host will have once everything in the ring has run.
Settled == Drained(host, ring, pixels)

-----------------------------------------------------------------------------
(* A push.  A full ring takes nothing and rings no doorbell; otherwise the   *)
(* doorbell drains the ring, unless its memory is unmapped.  What the driver *)
(* gets back is the retired seqno, which is 0 until the first batch ran.     *)

Accepted == Len(ring) < Cap

Push(msg) ==
  IF ~Accepted THEN UNCHANGED hostVars
  ELSE IF mapped
  THEN /\ host' = Drained(host, Append(ring, msg), pixels)
       /\ ring' = << >> /\ everRetired' = TRUE
  ELSE ring' = Append(ring, msg) /\ UNCHANGED <<host, everRetired>>

Returned == Accepted /\ everRetired'

\* History: a message that was not taken, or that the driver took for lost.
Note(ok, newest) ==
  history' = [dropped |-> history.dropped \/ ~ok,
              whole   |-> history.whole /\ ok,
              fresh   |-> newest,
              sound   |-> history.sound /\ ok]

-----------------------------------------------------------------------------
(* A flip: igpu_flush_resource under ring_lock.                              *)

\* A bug: the lookup never finds a registered framebuffer.
Cached_Never(f) == {s \in Slots : cache[s].fb = f /\ cache[s].res = 0}

Cached(f) == {s \in Slots : cache[s].fb = f}

\* A bug: the lookup ignores that the head is bound to another buffer.
Flip_NoRebind(f, damage) ==
  /\ pc = "idle" /\ frames < MaxFlips
  /\ f # flip.fb => damage = FullFrame
  /\ frames' = frames + 1
  /\ screen' = [a \in Regions |-> IF a \in damage THEN frames + 1 ELSE screen[a]]
  /\ pixels' = [pixels EXCEPT ![f] = screen']
  /\ history' = [history EXCEPT !.whole = TRUE, !.fresh = FALSE]
  /\ \/ /\ Cached(f) = {}
        /\ nextRes' = nextRes + 1
        /\ flip' = [fb |-> f, res |-> nextRes + 1, damage |-> damage]
        /\ pc' = "create"
     \/ \E s \in Cached(f) :
          /\ flip' = [fb |-> f, res |-> cache[s].res, damage |-> damage]
          /\ pc' = "flush"
          /\ UNCHANGED nextRes
  /\ UNCHANGED <<hostVars, dmaVars, cacheVars, scanoutRes, others>>

\* The compositor has drawn the frame; a change of framebuffer is a full-frame
\* flush.  A buffer that is cached is only re-bound, and only if it is not the
\* one bound last; another one gets the next res_id.
Flip(f, damage) ==
  /\ pc = "idle" /\ frames < MaxFlips
  /\ f # flip.fb => damage = FullFrame
  /\ frames' = frames + 1
  /\ screen' = [a \in Regions |-> IF a \in damage THEN frames + 1 ELSE screen[a]]
  /\ pixels' = [pixels EXCEPT ![f] = screen']
  /\ history' = [history EXCEPT !.whole = TRUE, !.fresh = FALSE]
  /\ \/ /\ Cached(f) = {}
        /\ nextRes' = nextRes + 1
        /\ flip' = [fb |-> f, res |-> nextRes + 1, damage |-> damage]
        /\ pc' = "create"
     \/ \E s \in Cached(f) :
          /\ flip' = [fb |-> f, res |-> cache[s].res, damage |-> damage]
          /\ pc' = IF cache[s].res = scanoutRes THEN "flush" ELSE "rebind"
          /\ UNCHANGED nextRes
  /\ UNCHANGED <<hostVars, dmaVars, cacheVars, scanoutRes, others>>

\* A push of the registration that fails ends the flip.
PushCreate ==
  /\ pc = "create"
  /\ Push([op |-> "create", res |-> flip.res])
  /\ pc' = IF Returned THEN "attach" ELSE "idle"
  /\ Note(Returned, TRUE)
  /\ UNCHANGED <<dmaVars, cacheVars, frameVars, nextRes, scanoutRes, flip, others>>

\* A bug: a failed attach goes unnoticed.
PushAttach_Unchecked ==
  /\ pc = "attach"
  /\ Push([op |-> "attach", res |-> flip.res, fb |-> flip.fb])
  /\ pc' = "bind"
  /\ Note(Returned, TRUE)
  /\ UNCHANGED <<dmaVars, cacheVars, frameVars, nextRes, scanoutRes, flip, others>>

PushAttach ==
  /\ pc = "attach"
  /\ Push([op |-> "attach", res |-> flip.res, fb |-> flip.fb])
  /\ pc' = IF Returned THEN "bind" ELSE "idle"
  /\ Note(Returned, TRUE)
  /\ UNCHANGED <<dmaVars, cacheVars, frameVars, nextRes, scanoutRes, flip, others>>

\* A bug: a failed bind goes unnoticed.
PushBind_Unchecked ==
  /\ pc = "bind"
  /\ Push([op |-> "bind", res |-> flip.res])
  /\ pc' = "fill"
  /\ scanoutRes' = flip.res
  /\ Note(Returned, TRUE)
  /\ UNCHANGED <<dmaVars, cacheVars, frameVars, nextRes, flip, others>>

PushBind ==
  /\ pc = "bind"
  /\ Push([op |-> "bind", res |-> flip.res])
  /\ pc' = IF Returned THEN "fill" ELSE "idle"
  /\ scanoutRes' = IF Returned THEN flip.res ELSE scanoutRes
  /\ Note(Returned, TRUE)
  /\ UNCHANGED <<dmaVars, cacheVars, frameVars, nextRes, flip, others>>

\* A bug: the slot is overwritten, its blob stays on the host.
Fill_NoDestroy ==
  /\ pc = "fill"
  /\ UNCHANGED <<hostVars, history, scanoutRes>>
  /\ cache' = [cache EXCEPT ![cacheNext] = [res |-> flip.res, fb |-> flip.fb]]
  /\ cacheNext' = (cacheNext + 1) % CacheSize
  /\ pc' = "flush"
  /\ UNCHANGED <<dmaVars, frameVars, nextRes, flip, others>>

\* The round-robin victim is destroyed on the host, whether or not the ring
\* takes the message, and its slot is the new buffer's.
Fill ==
  /\ pc = "fill"
  /\ LET old == cache[cacheNext].res
     IN  IF cache[cacheNext] = EmptySlot
         THEN UNCHANGED <<hostVars, history, scanoutRes>>
         ELSE /\ scanoutRes' = IF old = scanoutRes THEN 0 ELSE scanoutRes
              /\ Push([op |-> "destroy", res |-> old])
              /\ Note(Accepted, TRUE)
  /\ cache' = [cache EXCEPT ![cacheNext] = [res |-> flip.res, fb |-> flip.fb]]
  /\ cacheNext' = (cacheNext + 1) % CacheSize
  /\ pc' = "flush"
  /\ UNCHANGED <<dmaVars, frameVars, nextRes, flip, others>>

\* scanout_res_id is set even when the ring was full.
Rebind ==
  /\ pc = "rebind"
  /\ Push([op |-> "bind", res |-> flip.res])
  /\ scanoutRes' = flip.res
  /\ pc' = "flush"
  /\ Note(Accepted, FALSE)
  /\ UNCHANGED <<dmaVars, cacheVars, frameVars, nextRes, flip, others>>

\* A frame that registered its buffer and was taken whole restores what
\* earlier frames lost: a new blob, bound to the head, flushed in full.
PushFlush ==
  /\ pc = "flush"
  /\ Push([op |-> "flush", res |-> flip.res, damage |-> flip.damage])
  /\ pc' = "idle"
  /\ history' = [dropped |-> history.dropped \/ ~Accepted,
                 whole   |-> history.whole /\ Accepted,
                 fresh   |-> FALSE,
                 sound   |-> Accepted /\ \/ history.sound
                                         \/ /\ history.fresh /\ history.whole
                                            /\ flip.damage = FullFrame]
  /\ UNCHANGED <<dmaVars, cacheVars, frameVars, nextRes, scanoutRes, flip, others>>

-----------------------------------------------------------------------------
(* What goes on around the flips.                                            *)

\* A 3D or cursor descriptor, pushed under ring_lock.
OtherPush ==
  /\ pc = "idle" /\ others < MaxOthers
  /\ others' = others + 1
  /\ Push([op |-> "submit"])
  /\ UNCHANGED <<dmaVars, cacheVars, frameVars, nextRes, scanoutRes, pc, flip, history>>

\* A submitter that found the ring full rings the doorbell without ring_lock.
Nudge ==
  /\ mapped /\ ring # << >>
  /\ host' = Settled /\ ring' = << >> /\ everRetired' = TRUE
  /\ UNCHANGED <<dmaVars, cacheVars, frameVars, nextRes, scanoutRes, pc, flip, others,
                 history>>

Remap ==
  /\ remaps < MaxRemaps
  /\ remaps' = remaps + 1 /\ mapped' = ~mapped
  /\ UNCHANGED <<hostVars, cacheVars, frameVars, nextRes, scanoutRes, pc, flip, others,
                 history>>

Next ==
  \/ \E f \in Fbs, damage \in SUBSET Regions \ {{}} : Flip(f, damage)
  \/ PushCreate \/ PushAttach \/ PushBind \/ Fill \/ Rebind \/ PushFlush
  \/ OtherPush \/ Nudge \/ Remap

Spec == Init /\ [][Next]_vars

-----------------------------------------------------------------------------
(* Properties.                                                               *)

CachedIds == {cache[s].res : s \in {t \in Slots : cache[t] # EmptySlot}}

\* Types; a framebuffer and a res_id have at most one cache slot.
TypeOK ==
  /\ Len(ring) <= Cap
  /\ \A i \in DOMAIN ring : ring[i].op # "submit" => ring[i].res \in ResIds
  /\ mapped \in BOOLEAN /\ everRetired \in BOOLEAN
  /\ host.blobs \in [ResIds -> Fbs \cup {Never, Absent}]
  /\ host.scanout \in ResIds \cup {0}
  /\ host.shown \in [Regions -> 0 .. frames]
  /\ pixels \in [Fbs -> [Regions -> 0 .. frames]]
  /\ screen \in [Regions -> 0 .. frames]
  /\ cache \in [Slots -> [res : ResIds \cup {0}, fb : Fbs \cup {Never}]]
  /\ cacheNext \in Slots
  /\ nextRes \in ResIds \cup {0} /\ nextRes <= frames
  /\ scanoutRes \in ResIds \cup {0}
  /\ pc \in {"idle", "create", "attach", "bind", "fill", "rebind", "flush"}
  /\ \A s, t \in Slots :
       s # t /\ cache[s] # EmptySlot
         => cache[s].fb # cache[t].fb /\ cache[s].res # cache[t].res

\* A cached res_id is good for a flush: once the ring has run, the host has
\* its blob, backed by the cached framebuffer, whatever pushes failed when
\* (infinigpu.c:700-737).
FlushesLand ==
  \A s \in Slots :
    cache[s] # EmptySlot => Settled.blobs[cache[s].res] = cache[s].fb

\* The head is never left bound to a blob whose framebuffer the driver has
\* evicted: its memory may be another object's by now (infinigpu.c:714-730).
HeadKnown ==
  Settled.scanout \in CachedIds \cup {0} \cup (IF pc = "fill" THEN {flip.res} ELSE {})

\* While the ring takes every message, the host keeps exactly the blobs of the
\* cached framebuffers: evictions leave nothing behind (infinigpu.c:720-730).
NoLeak ==
  pc = "idle" /\ ~history.dropped => Blobs(Settled) = CachedIds

\* What the screen shows, once the ring has run, is what the guest last drew,
\* in every region, whichever buffers it flips between and however it damages
\* them; after a lost message, from the next newly registered buffer on
\* (infinigpu.c:746-769, lib.rs:1710-1753).
FlipShown ==
  pc = "idle" /\ history.sound => Settled.shown = screen
=============================================================================
