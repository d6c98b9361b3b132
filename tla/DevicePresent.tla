---------------------------- MODULE DevicePresent ----------------------------
(* One VM's device front-end (crates/infinigpu-device/src/lib.rs): the        *)
(* commands that draw into guest memory or show it, the persistent damage     *)
(* surface, the elision of repeated frames, zero-copy scanout, and the VRAM   *)
(* reservation that follows the scanout.  The vfio-user thread runs each      *)
(* handler to its end; what varies is the order of commands, the broker's and *)
(* the GPU's answers, and what guest and VMM do to the memory in between.     *)
EXTENDS Integers, FiniteSets, Functions

CONSTANTS
    Bufs,        \* guest scanout buffers, by address
    MaxRows,     \* a buffer's height, in bands of rows
    Heights,     \* the scanout heights the guest sets
    Colours,     \* what a band may hold
    Frames,      \* forwarded payloads: [op, colour]
    Render,      \* "no buffer": scanout_addr 0, a submit that only renders
    HashCap,     \* 8: the most payload hashes remembered
    Baseline,    \* VRAM_ESTIMATE_MB
    None         \* "no surface", "no size"

ASSUME PresentAssumption ==
    /\ MaxRows \in Nat \ {0} /\ Heights \subseteq 1..MaxRows
    /\ HashCap \in Nat \ {0} /\ Baseline \in Nat \ {0}
    /\ Render \notin Bufs /\ None \notin Nat /\ Colours # {}
    /\ \A f \in Frames : f.op \in {"draw", "mesh", "clear"} /\ f.colour \in Colours

VARIABLES
    ticket, denied,   \* admission: VmTicket held; denied until a reset
    dims,             \* scanout_vram_dims
    reserved,         \* the broker's reservation for this VM
    refused,          \* the last true-up was refused (what the log line says)
    dma,              \* DmaTable: the bands each mapping of a buffer covers
    ram,              \* guest memory
    writer,           \* who made ram what it is (see GuestWrites, PresentFull)
    lastHash,         \* last_forwarded_hash: the payload, for its hash
    zerocopy,         \* zerocopy_scanout
    surface,          \* last_scanout
    shown,            \* the picture the encoder was given last
    believed          \* the picture whose present was retired last

admission == <<ticket, denied>>
vram == <<dims, reserved, refused>>
memory == <<ram, writer>>
picture == <<surface, shown, believed>>
vars == <<admission, vram, dma, memory, lastHash, zerocopy, picture>>

Rows(h) == 1..h
All == Rows(MaxRows)
Blank == CHOOSE c \in Colours : TRUE
Picture(b, h) == [r \in Rows(h) |-> ram[b][r]]
Pixels(f) == [r \in All |-> f.colour]

\* How a buffer may lie in the VMM's regions: in one, cut off after its first
\* band, each band in one of its own, or nowhere.
Extents == {{All}, {{1}}, {{r} : r \in All}, {}}

Init ==
  /\ ticket = FALSE /\ denied = FALSE
  /\ dims = None /\ reserved = 0 /\ refused = FALSE
  /\ dma = [b \in Bufs |-> {All}]
  /\ ram = [b \in Bufs |-> [r \in All |-> Blank]]
  /\ writer = [b \in Bufs |-> "device"]
  /\ lastHash = <<>> /\ zerocopy \in BOOLEAN
  /\ surface = None /\ shown = None /\ believed = None

-----------------------------------------------------------------------------
(* Helpers of the handlers.                                                  *)

\* DmaTable::resolve: inside a single mapping, or not at all.
Resolves(b, rows) == \E m \in dma[b] : rows \subseteq m

\* ensure_admitted: a ticket is kept, a denial too; otherwise the broker answers.
EnsureAdmitted(ok) ==
  /\ ticket => ok
  /\ denied => ~ok
  /\ ticket' = ok /\ denied' = ~ok

\* The reservation that comes with the ticket.
Reservation == IF ~ticket' THEN 0 ELSE IF ticket THEN reserved ELSE Baseline
KeepReservation == reserved' = Reservation /\ UNCHANGED <<dims, refused>>

Want(h) == Baseline + h

\* account_scanout_vram: once per size; a shrink is always granted, a grow may be refused.
AccountScanoutVram(h) ==
  IF dims = h THEN KeepReservation
  ELSE /\ dims' = h
       /\ \E granted \in BOOLEAN :
            /\ Want(h) <= Reservation => granted
            /\ reserved' = IF granted THEN Want(h) ELSE Reservation
            /\ refused' = ~granted

\* A bug: other writers of a scanout leave the hashes alone.
InvalidateElision_Never == lastHash' = lastHash

InvalidateElision == lastHash' = <<>>

\* A bug: the table is never emptied.
Remember_Unbounded(b, f) ==
  lastHash' = [x \in DOMAIN lastHash \cup {b} |-> IF x = b THEN f ELSE lastHash[x]]

\* A hash is kept for a frame that reached the buffer; a full table is emptied first.
Remember(b, f) ==
  LET kept == IF Cardinality(DOMAIN lastHash) >= HashCap THEN {} ELSE DOMAIN lastHash
  IN  lastHash' = [x \in kept \cup {b} |-> IF x = b THEN f ELSE lastHash[x]]

Paint(b, px, who) ==
  /\ ram' = [ram EXCEPT ![b] = px]
  /\ writer' = [writer EXCEPT ![b] = who]

-----------------------------------------------------------------------------
(* 3D submits.                                                               *)

\* The one-copy present: render, then write the readback into the scanout; both
\* the clear and triangle workloads and the forwarded ones end here.
\* `before` is what a failed zero-copy attempt left in the buffer.
OneCopy(b, f, before) ==
  \/ \* rendered
     IF b # Render /\ Resolves(b, All)
     THEN Paint(b, Pixels(f), "device") /\ Remember(b, f)
     ELSE UNCHANGED lastHash /\ before
  \/ \* the GPU failed: retired, nothing remembered
     UNCHANGED lastHash /\ before

Untouched == UNCHANGED memory

\* Zero-copy: the GPU writes the scanout itself.  A failed attempt turns it off
\* for good and falls through; the GPU may have written by then.
ZeroCopy(b, f) ==
  \/ Paint(b, Pixels(f), "device") /\ Remember(b, f) /\ UNCHANGED zerocopy
  \/ /\ zerocopy' = FALSE
     /\ \/ OneCopy(b, f, Untouched)
        \/ OneCopy(b, f, Paint(b, Pixels(f), "torn"))
  \/ UNCHANGED <<memory, lastHash, zerocopy>>       \* the render panicked

\* submit_vulkan: elide a repeat, else decode and replay.  Bad sizes, short or
\* malformed payloads and the unadmitted are dropped, before or after the test.
SubmitVulkan(b, f) ==
  /\ \E ok \in BOOLEAN :
       /\ EnsureAdmitted(ok)
       /\ \/ UNCHANGED <<memory, lastHash, zerocopy>>       \* refused, malformed or elided
          \/ /\ ok
             /\ ~(b \in DOMAIN lastHash /\ lastHash[b] = f)
             /\ \/ zerocopy /\ f.op = "draw" /\ b # Render /\ Resolves(b, All) /\ ZeroCopy(b, f)
                \* also when the page-rounded region is not mapped, or the GPU cannot
                \/ OneCopy(b, f, Untouched) /\ UNCHANGED zerocopy
  /\ KeepReservation
  /\ UNCHANGED <<dma, picture>>

\* render_clear_present: the hashes go first, whatever becomes of the clear.
RenderClearPresent(b, c) ==
  /\ InvalidateElision
  /\ \E ok \in BOOLEAN :
       /\ EnsureAdmitted(ok)
       /\ \/ Untouched                                      \* refused, bad size, GPU error, unmapped
          \/ ok /\ Resolves(b, All) /\ Paint(b, [r \in All |-> c], "device")
  /\ KeepReservation
  /\ UNCHANGED <<dma, zerocopy, picture>>

-----------------------------------------------------------------------------
(* 2D presents.  The guest is told of a present by its retirement, which the *)
(* handlers publish before they hand the picture to the encoder.             *)

Retire(b, h) == believed' = Picture(b, h)
Stream(px) == shown' = px

\* A guest reports the damage since the present it last saw retired.
Honest(b, h, damage) ==
  believed # None /\ DOMAIN believed = Rows(h) =>
    \A r \in Rows(h) : ram[b][r] # believed[r] => r \in damage.rows

\* A whole frame: read, and the damage surface is dropped.
FullPicture(b, h) ==
  /\ surface' = None
  /\ Retire(b, h) /\ Stream(Picture(b, h))

\* present_scanout.  It reads guest memory without touching the elision hashes.
PresentScanout(b, h) ==
  /\ \E ok \in BOOLEAN :
       /\ EnsureAdmitted(ok)
       /\ IF ok
          THEN /\ AccountScanoutVram(h)
               /\ IF Resolves(b, Rows(h)) THEN FullPicture(b, h) ELSE UNCHANGED picture
          ELSE KeepReservation /\ UNCHANGED picture
  /\ writer' = [writer EXCEPT ![b] = IF @ = "guest" THEN "presented" ELSE @]
  /\ UNCHANGED <<dma, ram, lastHash, zerocopy>>

\* Damage is a span of rows, as wide as the frame or not: what the guest draws
\* lies in the columns a narrow rectangle covers.
Damages == [rows : SUBSET All, wide : BOOLEAN]

\* clamp_damage: the part of the guest's damage that is in the frame.
ClampDamage(h, damage) == [damage EXCEPT !.rows = @ \cap Rows(h)]

NeedFull(h, d) ==
  \/ d = [rows |-> Rows(h), wide |-> TRUE]
  \/ surface = None \/ DOMAIN surface # Rows(h)

\* A bug: rows are patched as they are read, up to the first that is not mapped.
Patch_AsRead(b, d) ==
  surface' = [r \in DOMAIN surface |->
                IF r \in d /\ (\A q \in d : q <= r => Resolves(b, {q})) THEN ram[b][r] ELSE surface[r]]

\* All damaged rows were read: they are copied into the surface.
Patch(b, d) ==
  IF \A r \in d : Resolves(b, {r})
  THEN surface' = [r \in DOMAIN surface |-> IF r \in d THEN ram[b][r] ELSE surface[r]]
  ELSE UNCHANGED surface

\* present_scanout_damaged, once admitted: rebuild, patch or repeat the surface.
DamagedPicture(b, h, d) ==
  LET full == NeedFull(h, d)
      read == IF full THEN Resolves(b, Rows(h)) ELSE \A r \in d.rows : Resolves(b, {r})
  IN  /\ IF full
         THEN surface' = IF read THEN Picture(b, h) ELSE surface
         ELSE Patch(b, d.rows)
      /\ IF read THEN Retire(b, h) /\ Stream(surface') ELSE UNCHANGED <<shown, believed>>

PresentScanoutDamaged(b, h, damage) ==
  /\ Honest(b, h, damage)
  /\ InvalidateElision
  /\ \E ok \in BOOLEAN :
       /\ EnsureAdmitted(ok)
       /\ IF ok
          THEN AccountScanoutVram(h) /\ DamagedPicture(b, h, ClampDamage(h, damage))
          ELSE KeepReservation /\ UNCHANGED picture
  /\ writer' = [writer EXCEPT ![b] = "device"]
  /\ UNCHANGED <<dma, ram, zerocopy>>

\* present_resource_flush of a resource that cannot be shown: only the hashes go.
FlushSkipped ==
  /\ InvalidateElision
  /\ UNCHANGED <<admission, vram, dma, memory, zerocopy, picture>>

-----------------------------------------------------------------------------
(* Registers, the VMM's callbacks, and the guest's own stores.               *)

\* DEVICE_ENABLE asks for admission.
DeviceEnable ==
  /\ \E ok \in BOOLEAN : EnsureAdmitted(ok)
  /\ KeepReservation
  /\ UNCHANGED <<dma, memory, lastHash, zerocopy, picture>>

\* A bug: the noted size survives the reset although the reservation does not.
ResetState_KeepsDims ==
  /\ ticket' = FALSE /\ denied' = FALSE /\ reserved' = 0 /\ refused' = FALSE
  /\ lastHash' = <<>> /\ surface' = None
  /\ UNCHANGED <<dims, dma, memory, zerocopy, shown, believed>>

\* DEVICE_RESET, vfio reset: the ticket is dropped, the mappings stay.
ResetState ==
  /\ ticket' = FALSE /\ denied' = FALSE
  /\ dims' = None /\ reserved' = 0 /\ refused' = FALSE
  /\ lastHash' = <<>> /\ surface' = None
  /\ UNCHANGED <<dma, memory, zerocopy, shown, believed>>

\* dma_map: a buffer comes to lie elsewhere, with what is there.
DmaMap(b, extent) ==
  /\ InvalidateElision
  /\ dma' = [dma EXCEPT ![b] = extent]
  /\ \/ UNCHANGED memory
     \/ Paint(b, [r \in All |-> Blank], "device")
  /\ UNCHANGED <<admission, vram, zerocopy, picture>>

\* dma_unmap, of one region or of all.
DmaUnmap(gone) ==
  /\ InvalidateElision
  /\ dma' = [b \in Bufs |-> IF b \in gone THEN {} ELSE dma[b]]
  /\ UNCHANGED <<admission, vram, memory, zerocopy, picture>>

\* The guest's CPU draws, or its debug register does (bar0 dbg::DMA_DATA).
GuestWrites(b, r, c) ==
  /\ ram' = [ram EXCEPT ![b][r] = c]
  /\ writer' = [writer EXCEPT ![b] = "guest"]
  /\ UNCHANGED <<admission, vram, dma, lastHash, zerocopy, picture>>

Command ==
  \/ \E b \in Bufs \cup {Render}, f \in Frames : SubmitVulkan(b, f)
  \/ \E b \in Bufs, c \in Colours : RenderClearPresent(b, c)
  \/ \E b \in Bufs, h \in Heights : PresentScanout(b, h)
  \/ \E b \in Bufs, h \in Heights, damage \in Damages : PresentScanoutDamaged(b, h, damage)
  \/ FlushSkipped

Next ==
  \/ Command
  \/ DeviceEnable \/ ResetState
  \/ \E b \in Bufs, extent \in Extents \ {{}} : DmaMap(b, extent)
  \/ \E gone \in {Bufs} \cup {{b} : b \in Bufs} : DmaUnmap(gone)
  \/ \E b \in Bufs, r \in All, c \in Colours : GuestWrites(b, r, c)

Spec == Init /\ [][Next]_vars

-----------------------------------------------------------------------------
(* Properties.                                                               *)

TypeOK ==
  /\ ticket \in BOOLEAN /\ denied \in BOOLEAN /\ ~(ticket /\ denied)
  /\ dims \in Heights \cup {None} /\ reserved \in Nat /\ refused \in BOOLEAN
  /\ dma \in [Bufs -> Extents]
  /\ ram \in [Bufs -> [All -> Colours]]
  /\ writer \in [Bufs -> {"device", "guest", "presented", "torn"}]
  /\ DOMAIN lastHash \subseteq Bufs /\ Range(lastHash) \subseteq Frames
  /\ Cardinality(DOMAIN lastHash) <= HashCap
  /\ zerocopy \in BOOLEAN
  /\ \A p \in {surface, shown, believed} :
       p = None \/ \E h \in Heights : p \in [Rows(h) -> Colours]

(* A frame is only elided when its buffer still holds it: of everything that *)
(* goes through the device (other frames, clears, damaged presents, failed   *)
(* renders, remaps, resets), nothing leaves a hash behind for other contents *)
(* (device/lib.rs:989-996).  Buffers the guest's CPU has drawn on since, and *)
(* those a failed zero-copy render has torn, are not the device's to know.   *)
ElisionSound ==
  \A b \in DOMAIN lastHash : writer[b] = "device" => ram[b] = Pixels(lastHash[b])

(* What viewers see is what the guest was told they see: whatever mixture of *)
(* whole, partial and empty damage, of sizes, resets, refused and unmapped   *)
(* presents, a retired present is the picture that was streamed, and a       *)
(* present that gave up left the surface as it was (device/lib.rs:2163-2168).*)
SurfaceFaithful == shown = believed

(* The reservation follows the mode through refusals, resets and             *)
(* re-admissions: unless the last grow was refused, an admitted VM that has  *)
(* presented holds what its scanout needs (device/lib.rs:1200-1201).         *)
ReservationFollowsMode ==
  ticket /\ dims # None /\ ~refused => reserved = Want(dims)

(* "a 2D present can never leave us eliding onto stale content"              *)
(* (device/lib.rs:993-994), for every kind of 2D present.                    *)
ElisionAfterPresent ==
  \A b \in DOMAIN lastHash :
    writer[b] \in {"device", "presented"} => ram[b] = Pixels(lastHash[b])
=============================================================================
