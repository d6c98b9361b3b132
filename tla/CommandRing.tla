----------------------------- MODULE CommandRing -----------------------------
(***************************************************************************)
(* The command ring shared by a guest driver and the device process: the   *)
(* lock-free single-producer single-consumer ring of crates/infinigpu-ring *)
(* laid over the guest's index page, the producer of the Linux driver      *)
(* (igpu_ring2_push) and the bounded two-phase drain of the device         *)
(* (drain.rs, InfinigpuBackend::drain_ctx).                                *)
(*                                                                         *)
(* Every load and store of the shared words that the other side can        *)
(* observe is a step of its own.  The producer and the drain run           *)
(* concurrently: a doorbell may be in service, for an earlier submission   *)
(* or for the driver's retry nudge, while the next descriptor is written.  *)
(***************************************************************************)
EXTENDS Integers, Sequences

CONSTANTS
  Cap,         (* slots of the ring; a power of two (Ring::from_parts)       *)
  IndexMod,    (* range of the u32 index words: 2^32 in the code             *)
  Addrs,       (* what a descriptor may refer to (payload location)          *)
  LinuxSeqno,  (* TRUE: seqno = (u64)tail + 1 (the C driver);                *)
               (* FALSE: seqno = tail.wrapping_add(1) as u64 (Ring::push)    *)
  MaxSubmits,  (* bound on the submissions of a behaviour                    *)
  MaxNudges    (* bound on unserved doorbells when a nudge is added          *)

(* Ring::from_parts accepts a power of two that fits u32, so the capacity    *)
(* divides the range of the indices and is smaller than it.                  *)
ASSUME RingAssumption ==
  /\ Cap \in Nat \ {0}
  /\ IndexMod \in Nat /\ IndexMod > Cap /\ IndexMod % Cap = 0
  /\ Addrs # {}
  /\ LinuxSeqno \in BOOLEAN
  /\ MaxSubmits \in Nat
  /\ MaxNudges \in Nat

VARIABLES
  tail, head,     (* the u32 index words of the shared page                  *)
  seqno_submit,   (* last submitted seqno (guest)                            *)
  seqno_retired,  (* highest retired seqno (host)                            *)
  slots,          (* the descriptor array                                    *)
  prod,           (* program point of the producer                           *)
  item,           (* payload location of the descriptor being pushed         *)
  bells,          (* doorbell writes the device has not begun to serve       *)
  cons,           (* program point of the device's drain                     *)
  batch,          (* descriptors popped by this drain and not yet executed   *)
  taken,          (* how many descriptors this drain has popped              *)
  highest,        (* Drained::highest_seqno                                  *)
  refusing,       (* may drain_ctx's guards return early in this behaviour?  *)
  published,      (* history: every descriptor ever published                *)
  executed        (* history: every descriptor ever executed                 *)

prodVars == <<tail, seqno_submit, slots, prod, item, published>>
consVars == <<head, seqno_retired, cons, batch, taken, highest, refusing, executed>>
vars == <<tail, head, seqno_submit, seqno_retired, slots, prod, item, bells,
          cons, batch, taken, highest, refusing, published, executed>>

Desc == [seqno : Nat, addr : Addrs]

\* What a slot holds before the driver has written it: zeroed memory.
NoDesc == [seqno |-> 0, addr |-> CHOOSE a \in Addrs : TRUE]

SlotOf(index) == index % Cap                 \* index & mask
Bump(index) == (index + 1) % IndexMod        \* wrapping_add(1)
Distance(t, h) == (t - h) % IndexMod         \* wrapping_sub

\* The seqno a producer stamps on the descriptor it publishes at index t.
SeqnoAt(t) == IF LinuxSeqno THEN t + 1 ELSE Bump(t)

\* pop_batch(ring, cap): bound = max.min(cap), and drain_ctx passes cap.
BatchBound == Cap

MaxOf(a, b) == IF a >= b THEN a ELSE b

Init ==
  /\ tail = 0 /\ head = 0
  /\ seqno_submit = 0 /\ seqno_retired = 0
  /\ slots = [s \in 0 .. Cap - 1 |-> NoDesc]
  /\ prod = "idle" /\ item = NoDesc.addr
  /\ bells = 0
  /\ cons = "idle" /\ batch = << >> /\ taken = 0 /\ highest = 0
  /\ refusing \in BOOLEAN
  /\ published = << >> /\ executed = << >>

-----------------------------------------------------------------------------
(* The producer.                                                             *)

RingFull_OffByOne == Distance(tail, head) > Cap

RingFull == Distance(tail, head) >= Cap

\* The producer has observed a free slot: from here it writes slot tail & mask.
PushBegin(a) ==
  /\ prod = "idle"
  /\ Len(published) < MaxSubmits
  /\ ~RingFull
  /\ prod' = "write" /\ item' = a
  /\ UNCHANGED <<tail, seqno_submit, slots, published, bells, consVars>>

\* The slot is filled and seqno_submit stored; the consumer cannot reach it yet.
PushWrite ==
  /\ prod = "write"
  /\ slots' = [slots EXCEPT ![SlotOf(tail)] =
                 [seqno |-> SeqnoAt(tail), addr |-> item]]
  /\ seqno_submit' = SeqnoAt(tail)
  /\ prod' = "publish"
  /\ UNCHANGED <<tail, item, published, bells, consVars>>

\* The release store of tail hands the slot to the consumer.
PushPublish ==
  /\ prod = "publish"
  /\ tail' = Bump(tail)
  /\ published' = Append(published, [seqno |-> SeqnoAt(tail), addr |-> item])
  /\ prod' = "ring"
  /\ UNCHANGED <<seqno_submit, slots, item, bells, consVars>>

\* A bug: the doorbell is rung only for a device that looks idle.
PushDoorbell_OnlyIfIdle ==
  /\ prod = "ring"
  /\ bells' = IF cons = "idle" THEN bells + 1 ELSE bells
  /\ prod' = "idle"
  /\ UNCHANGED <<tail, seqno_submit, slots, item, published, consVars>>

\* iowrite32(1, REG_DOORBELL_CMD0): one more drain is due.
PushDoorbell ==
  /\ prod = "ring"
  /\ bells' = bells + 1
  /\ prod' = "idle"
  /\ UNCHANGED <<tail, seqno_submit, slots, item, published, consVars>>

\* A submitter that found the ring full rings the doorbell without publishing.
Nudge ==
  /\ bells < MaxNudges
  /\ bells' = bells + 1
  /\ UNCHANGED <<prodVars, consVars>>

-----------------------------------------------------------------------------
(* The device: drain_ctx, one doorbell at a time.                            *)

DrainBegin ==
  /\ cons = "idle" /\ bells > 0
  /\ bells' = bells - 1
  /\ cons' = "pop" /\ batch' = << >> /\ taken' = 0 /\ highest' = 0
  /\ UNCHANGED <<head, seqno_retired, executed, refusing, prodVars>>

\* Bad geometry, unmapped ring memory or a denied VM: nothing is popped.
DrainRefused ==
  /\ refusing
  /\ cons = "idle" /\ bells > 0
  /\ bells' = bells - 1
  /\ UNCHANGED <<consVars, prodVars>>

\* The acquire load of tail shows a published slot: from here it is being read.
PopBegin ==
  /\ cons = "pop"
  /\ taken < BatchBound /\ head # tail
  /\ cons' = "read"
  /\ UNCHANGED <<head, seqno_retired, batch, taken, highest, executed, bells, refusing, prodVars>>

PopRead ==
  /\ cons = "read"
  /\ LET d == slots[SlotOf(head)]
     IN  /\ batch' = Append(batch, d)
         /\ highest' = MaxOf(highest, d.seqno)
  /\ taken' = taken + 1
  /\ cons' = "free"
  /\ UNCHANGED <<head, seqno_retired, executed, bells, refusing, prodVars>>

\* The release store of head gives the slot back to the producer.
PopFree ==
  /\ cons = "free"
  /\ head' = Bump(head)
  /\ cons' = "pop"
  /\ UNCHANGED <<seqno_retired, batch, taken, highest, executed, bells, refusing, prodVars>>

\* A bug: the batch is retired when it has been popped, before it is executed.
PopEnd_Retires ==
  /\ cons = "pop"
  /\ taken = BatchBound \/ head = tail
  /\ cons' = "exec"
  /\ seqno_retired' = MaxOf(highest, seqno_retired)
  /\ UNCHANGED <<head, batch, taken, highest, executed, bells, refusing, prodVars>>

\* The ring is empty, or the batch is at its bound: phase 1 ends.
PopEnd ==
  /\ cons = "pop"
  /\ taken = BatchBound \/ head = tail
  /\ cons' = "exec"
  /\ UNCHANGED <<head, seqno_retired, batch, taken, highest, executed, bells, refusing, prodVars>>

\* A bug: the batch is executed from its newest end.
Execute_NewestFirst ==
  /\ cons = "exec" /\ batch # << >>
  /\ executed' = Append(executed, batch[Len(batch)])
  /\ batch' = SubSeq(batch, 1, Len(batch) - 1)
  /\ UNCHANGED <<head, seqno_retired, cons, taken, highest, bells, refusing, prodVars>>

\* Phase 2: execute_descriptor, in the order popped.
Execute ==
  /\ cons = "exec" /\ batch # << >>
  /\ executed' = Append(executed, Head(batch))
  /\ batch' = Tail(batch)
  /\ UNCHANGED <<head, seqno_retired, cons, taken, highest, bells, refusing, prodVars>>

\* Phase 3: publish the highest seqno of the batch; an empty drain retires nothing.
Retire ==
  /\ cons = "exec" /\ batch = << >>
  /\ seqno_retired' = IF highest > 0 THEN highest ELSE seqno_retired
  /\ cons' = "idle"
  /\ UNCHANGED <<head, batch, taken, highest, executed, bells, refusing, prodVars>>

-----------------------------------------------------------------------------
Producer == (\E a \in Addrs : PushBegin(a)) \/ PushWrite \/ PushPublish \/ PushDoorbell

Drain == DrainBegin \/ PopBegin \/ PopRead \/ PopFree \/ PopEnd \/ Execute \/ Retire

Next == Producer \/ Nudge \/ Drain \/ DrainRefused

Spec == Init /\ [][Next]_vars

(* A push that has begun is finished (the driver holds a mutex around it and *)
(* nothing in it blocks), and the device's single server thread serves every *)
(* doorbell.  Nobody has to start a push, and nobody has to nudge.           *)
Fairness ==
  /\ WF_vars(PushWrite \/ PushPublish \/ PushDoorbell)
  /\ WF_vars(Drain)

FairSpec == Spec /\ Fairness
-----------------------------------------------------------------------------
(* Properties.                                                               *)

TypeOK ==
  /\ tail \in 0 .. IndexMod - 1 /\ head \in 0 .. IndexMod - 1
  /\ seqno_submit \in Nat /\ seqno_retired \in Nat
  /\ slots \in [0 .. Cap - 1 -> Desc]
  /\ prod \in {"idle", "write", "publish", "ring"}
  /\ item \in Addrs
  /\ bells \in Nat
  /\ cons \in {"idle", "pop", "read", "free", "exec"}
  /\ batch \in Seq(Desc)
  /\ taken \in 0 .. Cap
  /\ highest \in Nat /\ refusing \in BOOLEAN
  /\ published \in Seq(Desc) /\ executed \in Seq(Desc)

(* The driver never writes the descriptor slot the drain is reading, at any  *)
(* index and on both sides of the u32 wrap (the claim behind `unsafe impl    *)
(* Sync for Slot`, ring/lib.rs:70).                                          *)
NoSlotRace ==
  ~(prod = "write" /\ cons = "read" /\ SlotOf(tail) = SlotOf(head))

(* No submission is lost, duplicated, reordered or torn: what the device has *)
(* executed, followed by what it holds in its batch, is a prefix of what the *)
(* driver published (tests/loom_ring.rs over push and pop; here through the  *)
(* two-phase drain of drain_ctx, across batches).                            *)
ExecutedInOrder ==
  LET got == executed \o batch
  IN  /\ Len(got) <= Len(published)
      /\ \A i \in 1 .. Len(got) : got[i] = published[i]

(* A fence that reads as signalled belongs to a submission the device has    *)
(* executed: retired() >= seqno only afterwards (is_fence_signaled, and the  *)
(* polls of igpu_submit_3d and igpu_submit_forwarded).                       *)
FenceSound ==
  \A i \in 1 .. Len(published) :
    seqno_retired >= published[i].seqno => i <= Len(executed)

(* The completion word never goes back (drain_ctx stores a batch's highest   *)
(* seqno unconditionally; Ring::retire is a plain store).                    *)
RetiredMonotonic == [][seqno_retired' >= seqno_retired]_vars

(* The ring keeps the promise of CommandService within one lap of the index, *)
(* and on a host that refuses no drain every submission is executed and      *)
(* retired: no doorbell is lost beside a drain at its bound (drain_ctx and   *)
(* the doorbell arm of bar0_write_u32).                                      *)
Service == INSTANCE CommandService WITH submitted <- published, fence <- seqno_retired
ServiceSpec == Service!Spec
ServiceFairSpec == ServiceSpec /\ (~refusing => Service!Fairness)
=============================================================================
