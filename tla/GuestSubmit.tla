----------------------------- MODULE GuestSubmit -----------------------------
(***************************************************************************)
(* The Linux driver's submission paths over the command ring               *)
(* (guest/linux/infinigpu.c): the 3D ioctl with an inline payload          *)
(* (igpu_submit_3d), the forwarded-draw ioctl with an out-of-line staging  *)
(* buffer (igpu_ioctl_submit_forwarded) and the fire-and-forget display    *)
(* and cursor pushes, on several CPUs under ring_lock; and the device's    *)
(* server thread, which serves one trapped doorbell write at a time and    *)
(* answers it when the drain is over (bar0_write_u32, x-no-posted-writes). *)
(*                                                                         *)
(* The ring is CommandRing's; every step of it below is one of its steps.  *)
(***************************************************************************)
EXTENDS CommandRing, FiniteSets

CONSTANTS
  Cpus,        (* guest threads that submit                                  *)
  NoCpu,       (* nobody: lock holder, doorbell in service                   *)
  Gone,        (* contents of freed or never written memory                  *)
  MayDeny,     (* may the broker deny this VM (sticky until a reset)?        *)
  MaxTries,    (* attempts at a full ring before -EBUSY: 64 in the code      *)
  MaxRemaps    (* bound on dma_unmap/dma_map of the ring memory              *)

(* A descriptor refers to the payload region of its slot, or to the staging  *)
(* buffer of the CPU whose ioctl allocated it (PAYLOAD_ABS).                 *)
ASSUME SubmitAssumption ==
  /\ Addrs = (0 .. Cap - 1) \cup Cpus
  /\ (0 .. Cap - 1) \cap Cpus = {}
  /\ NoCpu \notin Cpus
  /\ Gone \notin Nat
  /\ MayDeny \in BOOLEAN
  /\ MaxTries \in Nat \ {0}
  /\ MaxRemaps \in Nat

VARIABLES
  pc,          (* where each CPU is in its submission                        *)
  kind,        (* "3d", "fwd" or "flush"                                     *)
  job,         (* the workload a CPU is submitting                           *)
  tries,       (* attempts made at a full ring                               *)
  want,        (* the seqno a CPU waits for                                  *)
  lock,        (* ring_lock                                                  *)
  serving,     (* the CPU whose doorbell write the device is serving         *)
  mem,         (* contents of the payload regions and staging buffers        *)
  admitted,    (* the broker's answer for this VM                            *)
  mapped,      (* is the ring memory in the device's DMA table?              *)
  remaps,      (* how often that changed                                     *)
  entered,     (* history: submissions entered; a workload is its number     *)
  ran,         (* history: what the device read when it executed each one    *)
  acked        (* history: workloads whose ioctl returned 0                  *)

cpuVars == <<pc, kind, job, tries, want, lock, entered, acked>>
hostVars == <<serving, admitted, mapped, remaps, ran>>
allVars == <<vars, cpuVars, hostVars, mem>>

Kinds == {"3d", "fwd", "flush"}

(* The ring's own allowance to refuse is on: here what drain_ctx refuses on   *)
(* is state of this module, the memory and the broker's answer.              *)
SInit ==
  /\ Init /\ refusing
  /\ pc = [c \in Cpus |-> "idle"] /\ kind = [c \in Cpus |-> "flush"]
  /\ job = [c \in Cpus |-> 0] /\ tries = [c \in Cpus |-> 0]
  /\ want = [c \in Cpus |-> 0]
  /\ lock = NoCpu /\ serving = NoCpu
  /\ mem = [a \in Addrs |-> Gone]
  /\ admitted \in (IF MayDeny THEN BOOLEAN ELSE {TRUE})
  /\ mapped = TRUE /\ remaps = 0
  /\ entered = 0 /\ ran = << >> /\ acked = {}

Goto(c, label) == pc' = [pc EXCEPT ![c] = label]

-----------------------------------------------------------------------------
(* A CPU.                                                                    *)

\* A bug: the staging buffer is allocated, its body never copied in.
Enter_NoCopy(c, k) ==
  /\ pc[c] = "idle" /\ entered < MaxSubmits
  /\ entered' = entered + 1
  /\ Goto(c, "try") /\ kind' = [kind EXCEPT ![c] = k]
  /\ job' = [job EXCEPT ![c] = entered + 1]
  /\ tries' = [tries EXCEPT ![c] = 0]
  /\ UNCHANGED <<vars, want, lock, acked, hostVars, mem>>

\* The forwarded ioctl allocates its staging buffer and copies the body first.
Enter(c, k) ==
  /\ pc[c] = "idle" /\ entered < MaxSubmits
  /\ entered' = entered + 1
  /\ Goto(c, "try") /\ kind' = [kind EXCEPT ![c] = k]
  /\ job' = [job EXCEPT ![c] = entered + 1]
  /\ tries' = [tries EXCEPT ![c] = 0]
  /\ mem' = IF k = "fwd" THEN [mem EXCEPT ![c] = entered + 1] ELSE mem
  /\ UNCHANGED <<vars, want, lock, acked, hostVars>>

LockRing(c) ==
  /\ pc[c] = "try" /\ lock = NoCpu
  /\ lock' = c /\ Goto(c, "push")
  /\ UNCHANGED <<vars, kind, job, tries, want, entered, acked, hostVars, mem>>

\* A bug: the early return for a full ring keeps the lock.
PushFull_KeepsLock(c) ==
  /\ pc[c] = "push" /\ lock = c /\ RingFull
  /\ Goto(c, IF kind[c] = "flush" THEN "idle" ELSE "full")
  /\ UNCHANGED <<vars, kind, job, tries, want, lock, entered, acked, hostVars, mem>>

\* igpu_ring2_push finds no free slot: a flush is dropped, an ioctl unlocks
\* and goes on to nudge the device.
PushFull(c) ==
  /\ pc[c] = "push" /\ lock = c /\ RingFull
  /\ lock' = NoCpu
  /\ Goto(c, IF kind[c] = "flush" THEN "idle" ELSE "full")
  /\ UNCHANGED <<vars, kind, job, tries, want, entered, acked, hostVars, mem>>

\* A bug: the payload region is found by the unmasked index.
PushStart_Unmasked(c) ==
  /\ pc[c] = "push" /\ lock = c
  /\ PushBegin(IF kind[c] = "fwd" THEN c ELSE tail)
  /\ Goto(c, "pushing")
  /\ UNCHANGED <<kind, job, tries, want, lock, entered, acked, hostVars, mem>>

PushStart(c) ==
  /\ pc[c] = "push" /\ lock = c
  /\ PushBegin(IF kind[c] = "fwd" THEN c ELSE SlotOf(tail))
  /\ Goto(c, "pushing")
  /\ UNCHANGED <<kind, job, tries, want, lock, entered, acked, hostVars, mem>>

\* A bug: the payload goes to the region of the next slot.
PushFill_NextSlot(c) ==
  /\ pc[c] = "pushing" /\ lock = c
  /\ PushWrite
  /\ mem' = IF kind[c] = "fwd" THEN mem ELSE [mem EXCEPT ![SlotOf(tail + 1)] = job[c]]
  /\ UNCHANGED <<cpuVars, hostVars>>

\* An inline payload is copied to the payload region of the slot.
PushFill(c) ==
  /\ pc[c] = "pushing" /\ lock = c
  /\ PushWrite
  /\ mem' = IF kind[c] = "fwd" THEN mem ELSE [mem EXCEPT ![item] = job[c]]
  /\ UNCHANGED <<cpuVars, hostVars>>

PushTail(c) ==
  /\ pc[c] = "pushing" /\ lock = c
  /\ PushPublish
  /\ UNCHANGED <<cpuVars, hostVars, mem>>

\* A bug: a posted doorbell write, which returns before the device has served it.
PushBell_Posted(c) ==
  /\ pc[c] = "pushing" /\ lock = c
  /\ PushDoorbell
  /\ Goto(c, "return")
  /\ UNCHANGED <<kind, job, tries, want, lock, entered, acked, hostVars, mem>>

\* The write is trapped: the CPU waits in it until the device answers.
PushBell(c) ==
  /\ pc[c] = "pushing" /\ lock = c
  /\ PushDoorbell
  /\ Goto(c, "bell")
  /\ UNCHANGED <<kind, job, tries, want, lock, entered, acked, hostVars, mem>>

\* The ring was full: ring the doorbell outside the lock, then try again.
NudgeBell(c) ==
  /\ pc[c] = "full"
  /\ Nudge
  /\ Goto(c, "nudge")
  /\ UNCHANGED <<kind, job, tries, want, lock, entered, acked, hostVars, mem>>

\* The ioctl is over: its staging buffer is freed on every path.
Finish(c) ==
  /\ Goto(c, "idle")
  /\ mem' = IF kind[c] = "fwd" THEN [mem EXCEPT ![c] = Gone] ELSE mem

Retry(c) ==
  /\ pc[c] = "retry"
  /\ IF tries[c] + 1 < MaxTries
     THEN Goto(c, "try") /\ UNCHANGED mem
     ELSE Finish(c)                                        \* -EBUSY
  /\ tries' = [tries EXCEPT ![c] = @ + 1]
  /\ UNCHANGED <<vars, kind, job, want, lock, entered, acked, hostVars>>

\* A bug: the CPU waits for the seqno that was current before its push.
PushReturn_Before(c) ==
  /\ pc[c] = "return" /\ lock = c
  /\ want' = [want EXCEPT ![c] = seqno_submit - 1]
  /\ lock' = NoCpu
  /\ Goto(c, IF kind[c] = "flush" THEN "idle" ELSE "poll")
  /\ UNCHANGED <<vars, kind, job, tries, entered, acked, hostVars, mem>>

\* want = after: the seqno_submit read before the lock is dropped.
PushReturn(c) ==
  /\ pc[c] = "return" /\ lock = c
  /\ want' = [want EXCEPT ![c] = seqno_submit]
  /\ lock' = NoCpu
  /\ Goto(c, IF kind[c] = "flush" THEN "idle" ELSE "poll")
  /\ UNCHANGED <<vars, kind, job, tries, entered, acked, hostVars, mem>>

PollRetired(c) ==
  /\ pc[c] = "poll" /\ seqno_retired >= want[c]
  /\ Finish(c)
  /\ acked' = acked \cup {job[c]}
  /\ UNCHANGED <<vars, kind, job, tries, want, lock, entered, hostVars>>

\* Two seconds of polling have passed: -ETIMEDOUT.
PollTimeout(c) ==
  /\ pc[c] = "poll" /\ seqno_retired < want[c]
  /\ Finish(c)
  /\ UNCHANGED <<vars, kind, job, tries, want, lock, entered, acked, hostVars>>

-----------------------------------------------------------------------------
(* The device's server thread.                                               *)

\* The reply to the trapped write lets its CPU go on.
Answered(c) == Goto(c, IF pc[c] = "bell" THEN "return" ELSE "retry")

ServeBegin(c) ==
  /\ serving = NoCpu /\ pc[c] \in {"bell", "nudge"}
  /\ admitted /\ mapped
  /\ DrainBegin
  /\ serving' = c
  /\ UNCHANGED <<cpuVars, admitted, mapped, remaps, ran, mem>>

\* drain_ctx returns before popping: memory not mapped, or the VM is denied.
ServeRefused(c) ==
  /\ serving = NoCpu /\ pc[c] \in {"bell", "nudge"}
  /\ ~(admitted /\ mapped)
  /\ DrainRefused
  /\ Answered(c)
  /\ UNCHANGED <<kind, job, tries, want, lock, entered, acked, hostVars, mem>>

ServePop ==
  /\ PopBegin \/ PopRead \/ PopFree \/ PopEnd
  /\ UNCHANGED <<cpuVars, hostVars, mem>>

\* The payload is read from guest memory here, in phase 2.
ServeExecute ==
  /\ Execute
  /\ ran' = Append(ran, mem[Head(batch).addr])
  /\ UNCHANGED <<cpuVars, serving, admitted, mapped, remaps, mem>>

ServeRetire ==
  /\ Retire
  /\ Answered(serving) /\ serving' = NoCpu
  /\ UNCHANGED <<kind, job, tries, want, lock, entered, acked, admitted, mapped,
                 remaps, ran, mem>>

\* dma_unmap and dma_map are served by the same thread, between doorbells.
Remap ==
  /\ serving = NoCpu /\ remaps < MaxRemaps
  /\ mapped' = ~mapped /\ remaps' = remaps + 1
  /\ UNCHANGED <<vars, cpuVars, serving, admitted, ran, mem>>

-----------------------------------------------------------------------------
CpuStep(c) ==
  \/ LockRing(c) \/ PushFull(c) \/ PushStart(c) \/ PushFill(c) \/ PushTail(c)
  \/ PushBell(c) \/ NudgeBell(c) \/ Retry(c) \/ PushReturn(c)
  \/ PollRetired(c) \/ PollTimeout(c)

Serve ==
  \/ \E c \in Cpus : ServeBegin(c) \/ ServeRefused(c)
  \/ ServePop \/ ServeExecute \/ ServeRetire

SNext ==
  \/ \E c \in Cpus : (\E k \in Kinds : Enter(c, k)) \/ CpuStep(c)
  \/ Serve
  \/ Remap

SSpec == SInit /\ [][SNext]_allVars

(* A CPU inside an ioctl keeps running and the kernel mutex is fair to its   *)
(* waiters; the server thread serves.  Nobody has to enter an ioctl, and the *)
(* memory need never be mapped again.                                        *)
SFairness ==
  /\ \A c \in Cpus : WF_allVars(CpuStep(c)) /\ SF_allVars(LockRing(c))
  /\ WF_allVars(Serve)

SFairSpec == SSpec /\ SFairness

-----------------------------------------------------------------------------
(* Properties.                                                               *)

PcLabels == {"idle", "try", "push", "pushing", "bell", "full", "nudge", "return",
             "retry", "poll"}

STypeOK ==
  /\ TypeOK
  /\ pc \in [Cpus -> PcLabels] /\ kind \in [Cpus -> Kinds]
  /\ job \in [Cpus -> 0 .. MaxSubmits] /\ tries \in [Cpus -> 0 .. MaxTries]
  /\ want \in [Cpus -> Nat]
  /\ lock \in Cpus \cup {NoCpu} /\ serving \in Cpus \cup {NoCpu}
  /\ mem \in [Addrs -> (1 .. MaxSubmits) \cup {Gone}]
  /\ admitted \in BOOLEAN /\ mapped \in BOOLEAN /\ remaps \in 0 .. MaxRemaps
  /\ entered \in 0 .. MaxSubmits
  /\ acked \subseteq 1 .. MaxSubmits

Served == admitted /\ remaps = 0

(* While the device drains - the VM is admitted and its ring was never       *)
(* unmapped - the doorbell write returns only after the                      *)
(* submission it announced has been retired ("when this iowrite32 returns    *)
(* the present is already retired", infinigpu.c:287): no ioctl ever times    *)
(* out, and a display flush has been shown when its push returns.            *)
DoorbellRetires ==
  Served => \A c \in Cpus :
    /\ pc[c] = "return" => seqno_retired >= seqno_submit
    /\ pc[c] = "poll" => seqno_retired >= want[c]

(* While it drains, the device executes the workload the driver submitted:   *)
(* the payload it reads in phase 2, after the slot was given back in phase   *)
(* 1, is still the one copied in for that descriptor, and no two CPUs mix    *)
(* theirs.                                                                   *)
PayloadIntact ==
  Served =>
  /\ Gone \notin {ran[i] : i \in 1 .. Len(ran)}
  /\ \A i, j \in 1 .. Len(ran) : ran[i] = ran[j] => i = j

(* While it drains, an ioctl that returns 0 has been executed, with the      *)
(* payload it passed.                                                        *)
AckedRan == Served => acked \subseteq {ran[i] : i \in 1 .. Len(ran)}

(* A staging buffer stays allocated while the device may still read it       *)
(* ("must keep `payload_dma` alive until the submit retires",                *)
(* infinigpu.c:429).                                                         *)
StagingOutlivesSubmit ==
  \A i \in Len(executed) + 1 .. Len(published) :
    published[i].addr \in Cpus => mem[published[i].addr] # Gone

(* Every ioctl returns, with whatever result: the retries and the poll are   *)
(* bounded, and the lock is never held across them.                          *)
SubmitReturns == \A c \in Cpus : pc[c] # "idle" ~> pc[c] = "idle"

(* A CPU polls for its own submission, no other CPU's, however many push,    *)
(* retry and nudge at a full ring in between: seqno_submit is shared, and    *)
(* read for it under the lock (infinigpu.c:490-494).                         *)
WaitsForItsOwn ==
  \A c \in Cpus : pc[c] = "poll" =>
    /\ \E i \in 1 .. Len(published) :
         published[i].seqno = want[c] /\ (kind[c] = "fwd" => published[i].addr = c)
    /\ \A d \in Cpus : pc[d] = "poll" /\ want[d] = want[c] => d = c

(* The driver and the server use the ring as a single-producer               *)
(* single-consumer ring, so all that is proved of CommandRing holds here.    *)
RingSpec == Spec
=============================================================================
