------------------------ MODULE DevicePresentProofs ------------------------
(***************************************************************************)
(* Proofs about the device front-end, for any buffers, sizes, frames and   *)
(* colours.  The invariant has three parts, each preserved by itself: the  *)
(* reservation, the memory with its elision hashes, and the picture with   *)
(* its damage surface.                                                     *)
(***************************************************************************)
EXTENDS DevicePresent, FiniteSetTheorems, TLAPS

ReservationInv ==
  /\ ticket \in BOOLEAN /\ denied \in BOOLEAN /\ ~(ticket /\ denied)
  /\ dims \in Heights \cup {None} /\ reserved \in Nat /\ refused \in BOOLEAN
  /\ ~ticket => dims = None
  /\ ReservationFollowsMode

HashOK ==
  /\ DOMAIN lastHash \subseteq Bufs
  /\ \A b \in DOMAIN lastHash : lastHash[b] \in Frames
  /\ IsFiniteSet(DOMAIN lastHash) /\ Cardinality(DOMAIN lastHash) <= HashCap

MemoryInv ==
  /\ dma \in [Bufs -> Extents]
  /\ ram \in [Bufs -> [All -> Colours]]
  /\ writer \in [Bufs -> {"device", "guest", "presented", "torn"}]
  /\ zerocopy \in BOOLEAN
  /\ HashOK /\ ElisionSound

IsPicture(p) == p = None \/ \E h \in Heights : p \in [Rows(h) -> Colours]

\* The surface, when there is one, is what viewers see; what they see is what
\* the guest was told.
PictureInv ==
  /\ IsPicture(surface) /\ IsPicture(shown)
  /\ surface # None => surface = shown
  /\ SurfaceFaithful

-----------------------------------------------------------------------------
(* The reservation.                                                          *)

(* A handler that admits and accounts a size leaves a reservation that fits  *)
(* the size, or says it was refused.                                         *)
LEMMA Accounting ==
  ASSUME ReservationInv, NEW ok \in BOOLEAN, NEW h \in Heights, EnsureAdmitted(ok),
         IF ok THEN AccountScanoutVram(h) ELSE KeepReservation
  PROVE  ReservationInv'
<1>1. Reservation \in Nat /\ (ticket => Reservation = reserved)
  BY PresentAssumption DEF Reservation, EnsureAdmitted, ReservationInv, PresentAssumption
<1>2. h \in Nat /\ h # None /\ Want(h) \in Nat
  BY PresentAssumption DEF PresentAssumption, Want
<1>3. ticket' = ok /\ denied' = ~ok /\ (ticket => ok)
  BY DEF EnsureAdmitted
<1>4. CASE ok /\ dims # h
  BY <1>1, <1>2, <1>3, <1>4 DEF AccountScanoutVram, ReservationInv, ReservationFollowsMode, Want
<1>5. CASE ok /\ dims = h
  BY <1>1, <1>2, <1>3, <1>5
     DEF AccountScanoutVram, KeepReservation, ReservationInv, ReservationFollowsMode, Want
<1>6. CASE ~ok
  BY <1>1, <1>2, <1>3, <1>6 DEF KeepReservation, ReservationInv, ReservationFollowsMode
<1>7. QED BY <1>4, <1>5, <1>6

(* A handler that only admits keeps the reservation it had, or starts with   *)
(* the baseline.                                                             *)
LEMMA Admitting ==
  ASSUME ReservationInv, NEW ok \in BOOLEAN, EnsureAdmitted(ok), KeepReservation
  PROVE  ReservationInv'
<1>1. Reservation \in Nat /\ (ticket => Reservation = reserved)
  BY PresentAssumption DEF Reservation, EnsureAdmitted, ReservationInv, PresentAssumption
<1>2. QED
  BY <1>1 DEF EnsureAdmitted, KeepReservation, ReservationInv, ReservationFollowsMode, Want

LEMMA ReservationStep == ReservationInv /\ [Next]_vars => ReservationInv'
<1> SUFFICES ASSUME ReservationInv, [Next]_vars PROVE ReservationInv'
  OBVIOUS
<1>1. ASSUME NEW b \in Bufs \cup {Render}, NEW f \in Frames, SubmitVulkan(b, f)
      PROVE  ReservationInv'
  <2>1. PICK ok \in BOOLEAN : EnsureAdmitted(ok)
    BY <1>1 DEF SubmitVulkan
  <2>2. KeepReservation
    BY <1>1 DEF SubmitVulkan
  <2>3. QED BY <2>1, <2>2, Admitting
<1>2. ASSUME NEW b \in Bufs, NEW c \in Colours, RenderClearPresent(b, c)
      PROVE  ReservationInv'
  <2>1. PICK ok \in BOOLEAN : EnsureAdmitted(ok)
    BY <1>2 DEF RenderClearPresent
  <2>2. KeepReservation
    BY <1>2 DEF RenderClearPresent
  <2>3. QED BY <2>1, <2>2, Admitting
<1>3. ASSUME NEW b \in Bufs, NEW h \in Heights, PresentScanout(b, h)
      PROVE  ReservationInv'
  <2>1. PICK ok \in BOOLEAN :
          EnsureAdmitted(ok) /\ IF ok THEN AccountScanoutVram(h) ELSE KeepReservation
    BY <1>3 DEF PresentScanout
  <2>2. QED BY <2>1, Accounting
<1>4. ASSUME NEW b \in Bufs, NEW h \in Heights, NEW damage \in Damages,
             PresentScanoutDamaged(b, h, damage)
      PROVE  ReservationInv'
  <2>1. PICK ok \in BOOLEAN :
          EnsureAdmitted(ok) /\ IF ok THEN AccountScanoutVram(h) ELSE KeepReservation
    BY <1>4 DEF PresentScanoutDamaged
  <2>2. QED BY <2>1, Accounting
<1>5. CASE DeviceEnable
  <2>1. PICK ok \in BOOLEAN : EnsureAdmitted(ok)
    BY <1>5 DEF DeviceEnable
  <2>2. KeepReservation
    BY <1>5 DEF DeviceEnable
  <2>3. QED BY <2>1, <2>2, Admitting
<1>6. CASE ResetState
  BY <1>6 DEF ResetState, ReservationInv, ReservationFollowsMode
<1>7. ASSUME UNCHANGED <<admission, vram>> PROVE ReservationInv'
  BY <1>7 DEF admission, vram, ReservationInv, ReservationFollowsMode, Want
<1>8. CASE FlushSkipped
  BY <1>7, <1>8 DEF FlushSkipped
<1>9. ASSUME NEW b \in Bufs, NEW extent \in Extents, DmaMap(b, extent) PROVE ReservationInv'
  BY <1>7, <1>9 DEF DmaMap
<1>10. ASSUME NEW gone, DmaUnmap(gone) PROVE ReservationInv'
  BY <1>7, <1>10 DEF DmaUnmap
<1>11. ASSUME NEW b \in Bufs, NEW r \in All, NEW c \in Colours, GuestWrites(b, r, c)
       PROVE  ReservationInv'
  BY <1>7, <1>11 DEF GuestWrites
<1>12. CASE UNCHANGED vars
  BY <1>7, <1>12 DEF vars
<1>13. QED
  BY <1>1, <1>2, <1>3, <1>4, <1>5, <1>6, <1>8, <1>9, <1>10, <1>11, <1>12 DEF Next, Command

-----------------------------------------------------------------------------
(* Memory and the elision hashes.                                            *)

Writers == {"device", "guest", "presented", "torn"}

LEMMA PixelsType ==
  ASSUME NEW f \in Frames
  PROVE  Pixels(f) \in [All -> Colours]
BY PresentAssumption DEF Pixels, PresentAssumption

(* Emptying the table keeps everything true of it.                           *)
LEMMA Emptied ==
  ASSUME InvalidateElision
  PROVE  HashOK' /\ ElisionSound'
<1>1. DOMAIN lastHash' = {}
  BY DEF InvalidateElision
<1>2. IsFiniteSet({}) /\ Cardinality({}) = 0
  BY FS_EmptySet
<1>3. QED BY <1>1, <1>2, PresentAssumption DEF HashOK, ElisionSound, PresentAssumption

(* Remembering a frame keeps the table within its bound.                     *)
LEMMA Remembered ==
  ASSUME HashOK, NEW b \in Bufs, NEW f \in Frames, Remember(b, f)
  PROVE  /\ HashOK'
         /\ b \in DOMAIN lastHash' /\ lastHash'[b] = f
         /\ \A x \in DOMAIN lastHash' :
              x # b => x \in DOMAIN lastHash /\ lastHash'[x] = lastHash[x]
<1> DEFINE kept == IF Cardinality(DOMAIN lastHash) >= HashCap THEN {} ELSE DOMAIN lastHash
<1>1. IsFiniteSet(DOMAIN lastHash) /\ Cardinality(DOMAIN lastHash) \in Nat
  BY FS_CardinalityType DEF HashOK
<1>2. HashCap \in Nat /\ HashCap >= 1
  BY PresentAssumption DEF PresentAssumption
<1>3. IsFiniteSet({}) /\ Cardinality({}) = 0
  BY FS_EmptySet
<1>4. IsFiniteSet(kept) /\ Cardinality(kept) \in Nat /\ Cardinality(kept) < HashCap
  <2>1. CASE Cardinality(DOMAIN lastHash) >= HashCap
    BY <2>1, <1>2, <1>3
  <2>2. CASE ~(Cardinality(DOMAIN lastHash) >= HashCap)
    BY <2>2, <1>1, <1>2
  <2>3. QED BY <2>1, <2>2
<1>5. lastHash' = [x \in kept \cup {b} |-> IF x = b THEN f ELSE lastHash[x]]
  BY DEF Remember
<1>6. IsFiniteSet(kept \cup {b}) /\ Cardinality(kept \cup {b}) <= HashCap
  <2> HIDE DEF kept
  <2>1. IsFiniteSet(kept \cup {b})
        /\ (Cardinality(kept \cup {b}) = Cardinality(kept)
            \/ Cardinality(kept \cup {b}) = Cardinality(kept) + 1)
    BY <1>4, FS_AddElement
  <2>2. QED BY <2>1, <1>2, <1>4
<1>7. kept \subseteq DOMAIN lastHash
  OBVIOUS
<1> HIDE DEF kept
<1>8. DOMAIN lastHash' = kept \cup {b}
  BY <1>5
<1>9. QED BY <1>5, <1>6, <1>7, <1>8 DEF HashOK

(* A frame painted and remembered.                                           *)
LEMMA Painted ==
  ASSUME MemoryInv, NEW b \in Bufs, NEW f \in Frames,
         Paint(b, Pixels(f), "device"), Remember(b, f)
  PROVE  /\ ram' \in [Bufs -> [All -> Colours]] /\ writer' \in [Bufs -> Writers]
         /\ HashOK' /\ ElisionSound'
<1>1. ram' \in [Bufs -> [All -> Colours]] /\ writer' \in [Bufs -> Writers]
  BY PixelsType DEF Paint, MemoryInv, Writers
<1>2. ram'[b] = Pixels(f)
  BY DEF Paint, MemoryInv
<1>3. \A x \in Bufs : x # b => ram'[x] = ram[x] /\ writer'[x] = writer[x]
  BY DEF Paint, MemoryInv
<1>4. /\ HashOK'
      /\ lastHash'[b] = f
      /\ \A x \in DOMAIN lastHash' :
           x # b => x \in DOMAIN lastHash /\ lastHash'[x] = lastHash[x]
  BY Remembered DEF MemoryInv
<1>5. ElisionSound'
  <2> SUFFICES ASSUME NEW x \in DOMAIN lastHash', writer'[x] = "device"
               PROVE  ram'[x] = Pixels(lastHash'[x])
    BY DEF ElisionSound, Pixels
  <2>1. CASE x = b
    BY <2>1, <1>2, <1>4
  <2>2. CASE x # b
    <3>1. x \in DOMAIN lastHash /\ lastHash'[x] = lastHash[x] /\ x \in Bufs
      BY <2>2, <1>4 DEF MemoryInv, HashOK
    <3>2. ram[x] = Pixels(lastHash[x])
      BY <3>1, <2>2, <1>3 DEF MemoryInv, ElisionSound
    <3>3. QED BY <3>1, <3>2, <2>2, <1>3
  <2>3. QED BY <2>1, <2>2
<1>6. QED BY <1>1, <1>4, <1>5

(* A buffer torn or taken over by someone else, the table left alone.        *)
LEMMA TakenOver ==
  ASSUME MemoryInv, NEW b \in Bufs, UNCHANGED lastHash,
         ram' \in [Bufs -> [All -> Colours]], writer' \in [Bufs -> Writers],
         writer'[b] # "device",
         \A x \in Bufs : x # b => ram'[x] = ram[x] /\ writer'[x] = writer[x]
  PROVE  HashOK' /\ ElisionSound'
<1>1. HashOK'
  BY DEF MemoryInv, HashOK
<1>2. ElisionSound'
  <2> SUFFICES ASSUME NEW x \in DOMAIN lastHash', writer'[x] = "device"
               PROVE  ram'[x] = Pixels(lastHash'[x])
    BY DEF ElisionSound, Pixels
  <2>1. x # b /\ x \in Bufs /\ x \in DOMAIN lastHash
    BY DEF MemoryInv, HashOK
  <2>2. ram[x] = Pixels(lastHash[x])
    BY <2>1 DEF MemoryInv, ElisionSound
  <2>3. QED BY <2>1, <2>2
<1>3. QED BY <1>1, <1>2

MemoryKept == UNCHANGED <<dma, memory, lastHash, zerocopy>>

LEMMA Kept == MemoryInv /\ MemoryKept => MemoryInv'
BY DEF MemoryInv, MemoryKept, memory, HashOK, ElisionSound, Pixels

LEMMA OneCopyStep ==
  ASSUME MemoryInv, NEW b \in Bufs \cup {Render}, NEW f \in Frames, UNCHANGED dma,
         zerocopy' \in BOOLEAN,
         \/ OneCopy(b, f, Untouched)
         \/ b \in Bufs /\ OneCopy(b, f, Paint(b, Pixels(f), "torn"))
  PROVE  MemoryInv'
<1> dma' \in [Bufs -> Extents]
  BY DEF MemoryInv
<1>1. CASE b \in Bufs /\ Paint(b, Pixels(f), "device") /\ Remember(b, f)
  BY <1>1, Painted DEF MemoryInv, Writers
<1>2. CASE UNCHANGED lastHash /\ Untouched
  BY <1>2 DEF MemoryInv, Untouched, memory, HashOK, ElisionSound, Pixels
<1>3. CASE UNCHANGED lastHash /\ b \in Bufs /\ Paint(b, Pixels(f), "torn")
  <2>1. ram' \in [Bufs -> [All -> Colours]] /\ writer' \in [Bufs -> Writers]
    BY <1>3, PixelsType DEF Paint, MemoryInv, Writers
  <2>2. /\ writer'[b] # "device"
        /\ \A x \in Bufs : x # b => ram'[x] = ram[x] /\ writer'[x] = writer[x]
    BY <1>3 DEF Paint, MemoryInv
  <2>3. QED BY <1>3, <2>1, <2>2, TakenOver DEF MemoryInv, Writers
<1>4. QED BY <1>1, <1>2, <1>3 DEF OneCopy

LEMMA SubmitStep ==
  ASSUME MemoryInv, NEW b \in Bufs \cup {Render}, NEW f \in Frames, SubmitVulkan(b, f)
  PROVE  MemoryInv'
<1>1. UNCHANGED dma /\ zerocopy \in BOOLEAN
  BY DEF SubmitVulkan, MemoryInv
<1>2. \/ UNCHANGED <<memory, lastHash, zerocopy>>
      \/ b # Render /\ ZeroCopy(b, f)
      \/ OneCopy(b, f, Untouched) /\ UNCHANGED zerocopy
  BY DEF SubmitVulkan
<1>3. CASE UNCHANGED <<memory, lastHash, zerocopy>>
  BY <1>1, <1>3, Kept DEF MemoryKept
<1>4. CASE b # Render /\ ZeroCopy(b, f)
  <2>1. b \in Bufs
    BY <1>4
  <2>2. CASE Paint(b, Pixels(f), "device") /\ Remember(b, f) /\ UNCHANGED zerocopy
    BY <2>1, <2>2, <1>1, Painted DEF MemoryInv, Writers
  <2>3. CASE zerocopy' = FALSE /\ (OneCopy(b, f, Untouched)
                                   \/ OneCopy(b, f, Paint(b, Pixels(f), "torn")))
    BY <2>1, <2>3, <1>1, OneCopyStep
  <2>4. CASE UNCHANGED <<memory, lastHash, zerocopy>>
    BY <2>4, <1>3
  <2>5. QED BY <1>4, <2>2, <2>3, <2>4 DEF ZeroCopy
<1>5. CASE OneCopy(b, f, Untouched) /\ UNCHANGED zerocopy
  BY <1>1, <1>5, OneCopyStep
<1>6. QED BY <1>2, <1>3, <1>4, <1>5

LEMMA MemoryStep == MemoryInv /\ [Next]_vars => MemoryInv'
<1> SUFFICES ASSUME MemoryInv, [Next]_vars PROVE MemoryInv'
  OBVIOUS
<1> USE DEF Writers
<1>1. ASSUME NEW b \in Bufs \cup {Render}, NEW f \in Frames, SubmitVulkan(b, f)
      PROVE  MemoryInv'
  BY <1>1, SubmitStep
<1>2. ASSUME NEW b \in Bufs, NEW c \in Colours, RenderClearPresent(b, c)
      PROVE  MemoryInv'
  <2>1. HashOK' /\ ElisionSound'
    BY <1>2, Emptied DEF RenderClearPresent
  <2>2. ram' \in [Bufs -> [All -> Colours]] /\ writer' \in [Bufs -> Writers]
    BY <1>2 DEF RenderClearPresent, Paint, Untouched, memory, MemoryInv
  <2>3. UNCHANGED <<dma, zerocopy>>
    BY <1>2 DEF RenderClearPresent
  <2>4. QED BY <2>1, <2>2, <2>3 DEF MemoryInv
<1>3. ASSUME NEW b \in Bufs, NEW h \in Heights, PresentScanout(b, h) PROVE MemoryInv'
  <2>1. /\ UNCHANGED <<dma, ram, lastHash, zerocopy>>
        /\ writer' = [writer EXCEPT ![b] = IF @ = "guest" THEN "presented" ELSE @]
    BY <1>3 DEF PresentScanout
  <2>2. /\ writer' \in [Bufs -> Writers]
        /\ \A x \in Bufs : writer'[x] = "device" => writer[x] = "device"
    BY <2>1 DEF MemoryInv
  <2>3. QED BY <2>1, <2>2 DEF MemoryInv, HashOK, ElisionSound, Pixels
<1>4. ASSUME NEW b \in Bufs, NEW h \in Heights, NEW damage \in Damages,
             PresentScanoutDamaged(b, h, damage)
      PROVE  MemoryInv'
  <2>1. HashOK' /\ ElisionSound'
    BY <1>4, Emptied DEF PresentScanoutDamaged
  <2>2. /\ UNCHANGED <<dma, ram, zerocopy>>
        /\ writer' = [writer EXCEPT ![b] = "device"]
    BY <1>4 DEF PresentScanoutDamaged
  <2>3. QED BY <2>1, <2>2 DEF MemoryInv
<1>5. CASE FlushSkipped
  BY <1>5, Emptied DEF FlushSkipped, MemoryInv, memory
<1>6. CASE DeviceEnable
  BY <1>6, Kept DEF DeviceEnable, MemoryKept
<1>7. CASE ResetState
  BY <1>7, Emptied DEF ResetState, InvalidateElision, MemoryInv, memory
<1>8. ASSUME NEW b \in Bufs, NEW extent \in Extents, DmaMap(b, extent) PROVE MemoryInv'
  <2>1. HashOK' /\ ElisionSound'
    BY <1>8, Emptied DEF DmaMap
  <2>2. Blank \in Colours
    BY PresentAssumption DEF Blank, PresentAssumption
  <2>3. ram' \in [Bufs -> [All -> Colours]] /\ writer' \in [Bufs -> Writers]
    BY <1>8, <2>2 DEF DmaMap, Paint, memory, MemoryInv
  <2>4. dma' \in [Bufs -> Extents] /\ UNCHANGED zerocopy
    BY <1>8 DEF DmaMap, MemoryInv
  <2>5. QED BY <2>1, <2>3, <2>4 DEF MemoryInv
<1>9. ASSUME NEW gone, DmaUnmap(gone) PROVE MemoryInv'
  <2>1. HashOK' /\ ElisionSound'
    BY <1>9, Emptied DEF DmaUnmap
  <2>2. dma' \in [Bufs -> Extents]
    BY <1>9 DEF DmaUnmap, MemoryInv, Extents
  <2>3. QED BY <1>9, <2>1, <2>2 DEF DmaUnmap, MemoryInv, memory
<1>10. ASSUME NEW b \in Bufs, NEW r \in All, NEW c \in Colours, GuestWrites(b, r, c)
       PROVE  MemoryInv'
  <2>1. /\ ram' \in [Bufs -> [All -> Colours]] /\ writer' \in [Bufs -> Writers]
        /\ writer'[b] # "device"
        /\ \A x \in Bufs : x # b => ram'[x] = ram[x] /\ writer'[x] = writer[x]
    BY <1>10 DEF GuestWrites, MemoryInv
  <2>2. UNCHANGED <<dma, lastHash, zerocopy>>
    BY <1>10 DEF GuestWrites
  <2>3. QED BY <2>1, <2>2, TakenOver DEF MemoryInv
<1>11. CASE UNCHANGED vars
  BY <1>11, Kept DEF vars, MemoryKept
<1>12. QED
  BY <1>1, <1>2, <1>3, <1>4, <1>5, <1>6, <1>7, <1>8, <1>9, <1>10, <1>11 DEF Next, Command

-----------------------------------------------------------------------------
(* The picture.                                                              *)

LEMMA PictureType ==
  ASSUME MemoryInv, NEW b \in Bufs, NEW h \in Heights
  PROVE  Picture(b, h) \in [Rows(h) -> Colours]
<1>1. Rows(h) \subseteq All
  BY PresentAssumption DEF PresentAssumption, Rows, All
<1>2. QED BY <1>1 DEF Picture, MemoryInv

(* A whole picture, retired, is the picture that was streamed.               *)
LEMMA WholePicture ==
  ASSUME MemoryInv, PictureInv, NEW b \in Bufs, NEW h \in Heights,
         shown' = Picture(b, h), believed' = Picture(b, h),
         surface' = None \/ surface' = Picture(b, h)
  PROVE  PictureInv'
BY PictureType DEF PictureInv, IsPicture, SurfaceFaithful

(* The patched surface is the guest's picture: outside the damage nothing    *)
(* has changed since the present the guest saw retired.                      *)
LEMMA PatchedPicture ==
  ASSUME MemoryInv, PictureInv, NEW b \in Bufs, NEW h \in Heights, NEW damage \in Damages,
         Honest(b, h, damage), ~NeedFull(h, ClampDamage(h, damage)),
         surface' = [r \in DOMAIN surface |->
                       IF r \in ClampDamage(h, damage).rows THEN ram[b][r] ELSE surface[r]]
  PROVE  surface' = Picture(b, h)
<1>1. surface # None /\ DOMAIN surface = Rows(h) /\ surface = believed
  BY DEF NeedFull, PictureInv, SurfaceFaithful
<1>2. damage.rows \subseteq All /\ ClampDamage(h, damage).rows = damage.rows \cap Rows(h)
  BY DEF Damages, ClampDamage
<1>3. \A r \in Rows(h) : ram[b][r] # surface[r] => r \in damage.rows
  BY <1>1 DEF Honest
<1>4. \A r \in Rows(h) :
        (IF r \in ClampDamage(h, damage).rows THEN ram[b][r] ELSE surface[r]) = ram[b][r]
  BY <1>2, <1>3
<1>5. QED BY <1>1, <1>4 DEF Picture

LEMMA DamagedStep ==
  ASSUME MemoryInv, PictureInv, NEW b \in Bufs, NEW h \in Heights, NEW damage \in Damages,
         Honest(b, h, damage), DamagedPicture(b, h, ClampDamage(h, damage))
  PROVE  PictureInv'
<1> DEFINE d == ClampDamage(h, damage)
           read == IF NeedFull(h, d) THEN Resolves(b, Rows(h)) ELSE \A r \in d.rows : Resolves(b, {r})
<1>1. /\ IF NeedFull(h, d)
         THEN surface' = IF read THEN Picture(b, h) ELSE surface
         ELSE Patch(b, d.rows)
      /\ IF read THEN Retire(b, h) /\ Stream(surface') ELSE UNCHANGED <<shown, believed>>
  BY DEF DamagedPicture
<1>2. CASE read
  <2>1. surface' = Picture(b, h)
    <3>1. CASE NeedFull(h, d)
      BY <1>1, <1>2, <3>1
    <3>2. CASE ~NeedFull(h, d)
      <4>1. surface' = [r \in DOMAIN surface |-> IF r \in d.rows THEN ram[b][r] ELSE surface[r]]
        BY <1>1, <1>2, <3>2 DEF Patch
      <4>2. QED BY <4>1, <3>2, PatchedPicture
    <3>3. QED BY <3>1, <3>2
  <2>2. shown' = Picture(b, h) /\ believed' = Picture(b, h)
    BY <1>1, <1>2, <2>1 DEF Retire, Stream
  <2>3. QED BY <2>1, <2>2, WholePicture
<1>3. CASE ~read
  <2>1. surface' = surface
    <3>1. CASE NeedFull(h, d)
      BY <1>1, <1>3, <3>1
    <3>2. CASE ~NeedFull(h, d)
      BY <1>1, <1>3, <3>2 DEF Patch
    <3>3. QED BY <3>1, <3>2
  <2>2. UNCHANGED <<shown, believed>>
    BY <1>1, <1>3
  <2>3. QED BY <2>1, <2>2 DEF PictureInv, IsPicture, SurfaceFaithful
<1>4. QED BY <1>2, <1>3

LEMMA PictureStep == MemoryInv /\ PictureInv /\ [Next]_vars => PictureInv'
<1> SUFFICES ASSUME MemoryInv, PictureInv, [Next]_vars PROVE PictureInv'
  OBVIOUS
<1>1. ASSUME UNCHANGED picture PROVE PictureInv'
  BY <1>1 DEF picture, PictureInv, IsPicture, SurfaceFaithful
<1>2. ASSUME NEW b \in Bufs, NEW h \in Heights, PresentScanout(b, h) PROVE PictureInv'
  <2>1. FullPicture(b, h) \/ UNCHANGED picture
    BY <1>2 DEF PresentScanout
  <2>2. CASE FullPicture(b, h)
    BY <2>2, WholePicture DEF FullPicture, Retire, Stream
  <2>3. QED BY <2>1, <2>2, <1>1
<1>3. ASSUME NEW b \in Bufs, NEW h \in Heights, NEW damage \in Damages,
             PresentScanoutDamaged(b, h, damage)
      PROVE  PictureInv'
  <2>1. /\ Honest(b, h, damage)
        /\ DamagedPicture(b, h, ClampDamage(h, damage)) \/ UNCHANGED picture
    BY <1>3 DEF PresentScanoutDamaged
  <2>2. QED BY <2>1, <1>1, DamagedStep
<1>4. CASE ResetState
  BY <1>4 DEF ResetState, PictureInv, IsPicture, SurfaceFaithful
<1>5. ASSUME NEW b \in Bufs \cup {Render}, NEW f \in Frames, SubmitVulkan(b, f)
      PROVE  PictureInv'
  BY <1>1, <1>5 DEF SubmitVulkan
<1>6. ASSUME NEW b \in Bufs, NEW c \in Colours, RenderClearPresent(b, c)
      PROVE  PictureInv'
  BY <1>1, <1>6 DEF RenderClearPresent
<1>7. CASE FlushSkipped \/ DeviceEnable \/ UNCHANGED vars
  BY <1>1, <1>7 DEF FlushSkipped, DeviceEnable, vars
<1>8. ASSUME NEW b \in Bufs, NEW extent \in Extents, DmaMap(b, extent) PROVE PictureInv'
  BY <1>1, <1>8 DEF DmaMap
<1>9. ASSUME NEW gone, DmaUnmap(gone) PROVE PictureInv'
  BY <1>1, <1>9 DEF DmaUnmap
<1>10. ASSUME NEW b \in Bufs, NEW r \in All, NEW c \in Colours, GuestWrites(b, r, c)
       PROVE  PictureInv'
  BY <1>1, <1>10 DEF GuestWrites
<1>11. QED
  BY <1>2, <1>3, <1>4, <1>5, <1>6, <1>7, <1>8, <1>9, <1>10 DEF Next, Command

-----------------------------------------------------------------------------
(* The theorems.                                                             *)

PresentInv == ReservationInv /\ MemoryInv /\ PictureInv

LEMMA PresentInit == Init => PresentInv
<1> SUFFICES ASSUME Init PROVE PresentInv
  OBVIOUS
<1>1. ReservationInv
  BY DEF Init, ReservationInv, ReservationFollowsMode
<1>2. IsFiniteSet({}) /\ Cardinality({}) = 0
  BY FS_EmptySet
<1>3. HashOK /\ ElisionSound
  BY <1>2, PresentAssumption DEF Init, HashOK, ElisionSound, PresentAssumption
<1>4. Blank \in Colours
  BY PresentAssumption DEF Blank, PresentAssumption
<1>5. MemoryInv
  BY <1>3, <1>4 DEF Init, MemoryInv, Extents
<1>6. PictureInv
  BY DEF Init, PictureInv, IsPicture, SurfaceFaithful
<1>7. QED BY <1>1, <1>5, <1>6 DEF PresentInv

THEOREM PresentInvariant == Spec => []PresentInv
<1>1. PresentInv /\ [Next]_vars => PresentInv'
  BY ReservationStep, MemoryStep, PictureStep DEF PresentInv
<1>2. QED BY <1>1, PresentInit, PTL DEF Spec

(* The front-end's variables keep their types: in particular no more than    *)
(* HashCap hashes are remembered, whatever is rendered where.                *)
THEOREM PresentTypeCorrect == Spec => []TypeOK
<1>1. PresentInv => TypeOK
  BY DEF PresentInv, ReservationInv, MemoryInv, HashOK, PictureInv, IsPicture,
         SurfaceFaithful, TypeOK, Range
<1>2. QED BY <1>1, PresentInvariant, PTL

(* For any number of buffers and frames, a frame is elided only over its own *)
(* pixels, whatever else has gone through the device.                        *)
THEOREM ElisionSoundness == Spec => []ElisionSound
<1>1. PresentInv => ElisionSound
  BY DEF PresentInv, MemoryInv
<1>2. QED BY <1>1, PresentInvariant, PTL

(* At any size, viewers see the present that was retired, whichever of its   *)
(* rows were reported as damaged.                                            *)
THEOREM SurfaceFaithfulness == Spec => []SurfaceFaithful
<1>1. PresentInv => SurfaceFaithful
  BY DEF PresentInv, PictureInv
<1>2. QED BY <1>1, PresentInvariant, PTL

(* An admitted VM's reservation is what its last granted mode needs, for any *)
(* sizes and estimate.                                                       *)
THEOREM ReservationTracksMode == Spec => []ReservationFollowsMode
<1>1. PresentInv => ReservationFollowsMode
  BY DEF PresentInv, ReservationInv
<1>2. QED BY <1>1, PresentInvariant, PTL
=============================================================================
