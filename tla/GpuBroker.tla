------------------------------ MODULE GpuBroker ------------------------------
(***************************************************************************)
(* The broker that shares one physical GPU among the VMs' device backends  *)
(* (crates/infinigpu-sched): the VRAM and encoder-session ledger with its  *)
(* admission tickets, the per-VM token bucket, and the fleet run-lock.     *)
(* Every backend runs on a server thread of its own; each broker call that *)
(* takes the state mutex is one step, and a thread can be preempted        *)
(* between any two of them, while it sleeps, waits for the run-lock or     *)
(* renders.  A backend is the device's use of the broker: ensure_admitted, *)
(* account_scanout_vram, run_timed, reset_state and its drop.              *)
(***************************************************************************)
EXTENDS Integers, FiniteSets, FiniteSetsExt

CONSTANTS
  Backends,        (* server threads, one per connection                     *)
  Vms,             (* vm_ids                                                 *)
  VmOf,            (* the vm_id a backend serves; two connections may share  *)
                   (* one while the older has not been torn down             *)
  Streaming,       (* backends with a pixel port: they need an encoder       *)
  TotalVram, VramReserve, MaxGpuVms, MaxEncSessions,   (* BrokerConfig       *)
  VramCap,         (* VmConfig::vram_cap_mb                                  *)
  Estimate,        (* VRAM_ESTIMATE_MB, reserved at admission                *)
  ScanoutSizes,    (* what scanout_vram_estimate_mb may return               *)
  ThrottleEnabled, (* BrokerConfig::throttle_enabled                         *)
  Rate, Unit,      (* tokens per Unit ticks: effective refill, floor applied *)
  Burst,           (* bucket_burst_us                                        *)
  Quantum,         (* begin waits for a bucket of 1000 us                    *)
  NapMax,          (* one sleep of run_timed is at most 50000 us             *)
  MaxCost,         (* bound on the length of a render                        *)
  ElapsedMax,      (* bound on a refill interval: by then the bucket is full *)
  Nobody, NoSize

ASSUME BrokerAssumption ==
  /\ IsFiniteSet(Vms) /\ VmOf \in [Backends -> Vms] /\ Streaming \subseteq Backends
  /\ TotalVram \in Nat /\ VramReserve \in Nat
  /\ MaxGpuVms \in Nat /\ MaxEncSessions \in Nat
  /\ VramCap \in [Vms -> Nat] /\ Estimate \in Nat /\ ScanoutSizes \subseteq Nat
  /\ ThrottleEnabled \in BOOLEAN
  /\ Rate \in [Vms -> Nat \ {0}] /\ Unit \in Nat \ {0}
  /\ Burst \in Nat \ {0} /\ Quantum \in Nat \ {0} /\ NapMax \in Nat \ {0}
  /\ MaxCost \in Nat /\ ElapsedMax \in Nat
  /\ Nobody \notin Backends /\ NoSize \notin ScanoutSizes

(* One nap refills at least one token (min_refill_us_per_s is 20000 and a    *)
(* nap 50 ms, so 1000 us in the default configuration); ElapsedMax refills   *)
(* the bucket from its deepest debt.                                         *)
ASSUME RefillAssumption ==
  \A v \in Vms : /\ Rate[v] * NapMax >= Unit
                 /\ (Rate[v] * ElapsedMax) \div Unit >= Burst + MaxCost

VARIABLES
  vms,         (* State::vms: the registered vm_ids                          *)
  reserved,    (* VmState::vram_reserved_mb                                  *)
  encoder,     (* VmState::holds_encoder                                     *)
  vramUsed, encUsed,   (* State::vram_used_mb, enc_sessions_used             *)
  tokens,      (* VmState::tokens_us                                         *)
  elapsed,     (* wall time since VmState::last_refill_us                    *)
  runLock,     (* the backend that holds run_lock                            *)
  pc,          (* where each backend's thread is                             *)
  ticket,      (* does the backend hold a VmTicket?                          *)
  denied,      (* InfinigpuBackend::admission_denied                         *)
  dims,        (* InfinigpuBackend::scanout_vram_dims                        *)
  nap,         (* what is left of a throttled thread's sleep                 *)
  spent        (* wall time since a thread took the run-lock                 *)

ledger == <<vms, reserved, encoder, vramUsed, encUsed>>
buckets == <<tokens, elapsed>>
device == <<ticket, denied, dims>>
thread == <<pc, runLock, nap, spent>>
vars == <<ledger, buckets, device, thread>>

Lesser(a, b) == IF a <= b THEN a ELSE b
Greater(a, b) == IF a >= b THEN a ELSE b
Monus(a, b) == IF a >= b THEN a - b ELSE 0            \* saturating_sub

Goto(b, label) == pc' = [pc EXCEPT ![b] = label]

Init ==
  /\ vms = {} /\ vramUsed = 0 /\ encUsed = 0
  /\ reserved = [v \in Vms |-> 0] /\ encoder = [v \in Vms |-> FALSE]
  /\ tokens = [v \in Vms |-> 0] /\ elapsed = [v \in Vms |-> 0]
  /\ runLock = Nobody
  /\ pc = [b \in Backends |-> "offline"]
  /\ ticket = [b \in Backends |-> FALSE] /\ denied = [b \in Backends |-> FALSE]
  /\ dims = [b \in Backends |-> NoSize]
  /\ nap = [b \in Backends |-> 0] /\ spent = [b \in Backends |-> 0]

-----------------------------------------------------------------------------
(* The ledger.                                                               *)

\* A bug: the driver's reserve is handed out too.
Available_NoReserve == Monus(TotalVram, vramUsed)

Available == Monus(Monus(TotalVram, VramReserve), vramUsed)

\* The checks of admit; every one of them denies.
Admissible(b) ==
  /\ VmOf[b] \notin vms
  /\ Cardinality(vms) < MaxGpuVms
  /\ Estimate <= VramCap[VmOf[b]]
  /\ b \in Streaming => encUsed < MaxEncSessions
  /\ Estimate <= Available

\* The entry and the counters move together under the state mutex; the bucket starts full.
Admit(b) ==
  LET v == VmOf[b]
  IN  /\ vramUsed' = vramUsed + Estimate
      /\ encUsed' = encUsed + (IF b \in Streaming THEN 1 ELSE 0)
      /\ vms' = vms \cup {v}
      /\ reserved' = [reserved EXCEPT ![v] = Estimate]
      /\ encoder' = [encoder EXCEPT ![v] = b \in Streaming]
      /\ tokens' = [tokens EXCEPT ![v] = Burst]
      /\ elapsed' = [elapsed EXCEPT ![v] = 0]

\* A bug: the reap frees the baseline, not what is reserved by now.
Release_Baseline(v) ==
  /\ vms' = vms \ {v}
  /\ vramUsed' = Monus(vramUsed, Estimate)
  /\ encUsed' = IF encoder[v] THEN Monus(encUsed, 1) ELSE encUsed
  /\ reserved' = [reserved EXCEPT ![v] = 0]
  /\ encoder' = [encoder EXCEPT ![v] = FALSE]
  /\ tokens' = [tokens EXCEPT ![v] = 0] /\ elapsed' = [elapsed EXCEPT ![v] = 0]

\* The entry is removed: its fields are reset here to their initial values.
Release(v) ==
  /\ vms' = vms \ {v}
  /\ vramUsed' = Monus(vramUsed, reserved[v])
  /\ encUsed' = IF encoder[v] THEN Monus(encUsed, 1) ELSE encUsed
  /\ reserved' = [reserved EXCEPT ![v] = 0]
  /\ encoder' = [encoder EXCEPT ![v] = FALSE]
  /\ tokens' = [tokens EXCEPT ![v] = 0] /\ elapsed' = [elapsed EXCEPT ![v] = 0]

\* A grow takes its difference from the free budget or is rejected; a shrink succeeds.
AdjustVram(v, want) ==
  LET old == reserved[v]
      granted == v \in vms /\ (want > old => want - old <= Available)
  IN  IF granted
      THEN /\ vramUsed' = IF want > old THEN vramUsed + (want - old)
                          ELSE Monus(vramUsed, old - want)
           /\ reserved' = [reserved EXCEPT ![v] = want]
      ELSE UNCHANGED <<vramUsed, reserved>>

-----------------------------------------------------------------------------
(* A backend, between submissions.                                           *)

\* QEMU connects: a fresh InfinigpuBackend.
Connect(b) ==
  /\ pc[b] = "offline"
  /\ Goto(b, "idle")
  /\ UNCHANGED <<ledger, buckets, device, runLock, nap, spent>>

\* ensure_admitted, at DEVICE_ENABLE or in front of any submission: idempotent,
\* and a denial is final until the device is reset.
EnsureAdmitted(b) ==
  /\ pc[b] = "idle" /\ ~ticket[b] /\ ~denied[b]
  /\ IF Admissible(b)
     THEN /\ Admit(b)
          /\ ticket' = [ticket EXCEPT ![b] = TRUE] /\ UNCHANGED denied
     ELSE /\ denied' = [denied EXCEPT ![b] = TRUE]
          /\ UNCHANGED <<ledger, buckets, ticket>>
  /\ UNCHANGED <<dims, thread>>

\* account_scanout_vram: once per distinct size; the size is noted even when refused.
AccountScanout(b, mb) ==
  /\ pc[b] = "idle" /\ ticket[b] /\ dims[b] # mb
  /\ dims' = [dims EXCEPT ![b] = mb]
  /\ AdjustVram(VmOf[b], Estimate + mb)
  /\ UNCHANGED <<vms, encoder, encUsed, buckets, ticket, denied, thread>>

DropTicket(b) ==
  /\ ticket' = [ticket EXCEPT ![b] = FALSE]
  /\ IF ticket[b] THEN Release(VmOf[b]) ELSE UNCHANGED <<ledger, buckets>>

\* DEVICE_RESET: the ticket is dropped and a denial forgotten.
Reset(b) ==
  /\ pc[b] = "idle"
  /\ DropTicket(b)
  /\ denied' = [denied EXCEPT ![b] = FALSE]
  /\ dims' = [dims EXCEPT ![b] = NoSize]
  /\ UNCHANGED thread

\* A bug: the connection is torn down without dropping the ticket.
Disconnect_NoReap(b) ==
  /\ pc[b] = "idle"
  /\ ticket' = [ticket EXCEPT ![b] = FALSE]
  /\ denied' = [denied EXCEPT ![b] = FALSE]
  /\ dims' = [dims EXCEPT ![b] = NoSize]
  /\ Goto(b, "offline")
  /\ UNCHANGED <<ledger, buckets, runLock, nap, spent>>

\* The guest disconnects: the backend, and with it the ticket, is dropped.
Disconnect(b) ==
  /\ pc[b] = "idle"
  /\ DropTicket(b)
  /\ denied' = [denied EXCEPT ![b] = FALSE]
  /\ dims' = [dims EXCEPT ![b] = NoSize]
  /\ Goto(b, "offline")
  /\ UNCHANGED <<runLock, nap, spent>>

-----------------------------------------------------------------------------
(* run_timed.                                                                *)

Submit(b) ==
  /\ pc[b] = "idle" /\ ticket[b]
  /\ Goto(b, "begin")
  /\ UNCHANGED <<ledger, buckets, device, runLock, nap, spent>>

\* VmState::refill: the fraction of a token is lost.
Refilled(v) == Lesser(tokens[v] + (Rate[v] * elapsed[v]) \div Unit, Burst)

\* A bug: a bucket that is exactly empty may run.
Ready_AtZero(v) == ~ThrottleEnabled \/ Refilled(v) >= 0

Ready(v) == ~ThrottleEnabled \/ Refilled(v) > 0

NapFor(v) == Lesser(NapMax, Greater(1, (Greater(1, Quantum - Refilled(v)) * Unit) \div Rate[v]))

\* begin: refill, then go for the run-lock, or sleep and ask again.
Begin(b) ==
  LET v == VmOf[b]
  IN  /\ pc[b] = "begin"
      /\ IF v \notin vms
         THEN Goto(b, "idle") /\ UNCHANGED <<buckets, nap>>        \* NotAdmitted
         ELSE /\ tokens' = [tokens EXCEPT ![v] = Refilled(v)]
              /\ elapsed' = [elapsed EXCEPT ![v] = 0]
              /\ Goto(b, IF Ready(v) THEN "lock" ELSE "nap")
              /\ nap' = [nap EXCEPT ![b] = IF Ready(v) THEN 0 ELSE NapFor(v)]
      /\ UNCHANGED <<ledger, device, runLock, spent>>

Wake(b) ==
  /\ pc[b] = "nap" /\ nap[b] = 0
  /\ Goto(b, "begin")
  /\ UNCHANGED <<ledger, buckets, device, runLock, nap, spent>>

TakeRunLock(b) ==
  /\ pc[b] = "lock" /\ runLock = Nobody
  /\ runLock' = b /\ spent' = [spent EXCEPT ![b] = 0]
  /\ Goto(b, "render")
  /\ UNCHANGED <<ledger, buckets, device, nap>>

\* A bug: a panic in the render unwinds past the unlock.
RenderEnd_KeepsLock(b) ==
  /\ pc[b] = "render"
  /\ Goto(b, "record")
  /\ UNCHANGED <<ledger, buckets, device, runLock, nap, spent>>

\* The render has returned, or panicked: catch_unwind ends both the same way.
RenderEnd(b) ==
  /\ pc[b] = "render"
  /\ runLock' = Nobody
  /\ Goto(b, "record")
  /\ UNCHANGED <<ledger, buckets, device, nap, spent>>

\* record: the wall time of the render is debited; the run returns.
Record(b) ==
  LET v == VmOf[b]
  IN  /\ pc[b] = "record"
      /\ tokens' = IF v \in vms THEN [tokens EXCEPT ![v] = @ - spent[b]] ELSE tokens
      /\ spent' = [spent EXCEPT ![b] = 0]
      /\ Goto(b, "idle")
      /\ UNCHANGED <<ledger, elapsed, device, runLock, nap>>

\* Wall time passes, for sleepers, renders and refills alike.
Tick ==
  /\ \A b \in Backends : pc[b] = "render" => spent[b] < MaxCost
  /\ elapsed' = [v \in Vms |-> IF v \in vms THEN Lesser(elapsed[v] + 1, ElapsedMax)
                               ELSE 0]
  /\ nap' = [b \in Backends |-> Monus(nap[b], 1)]
  /\ spent' = [b \in Backends |-> IF pc[b] = "render" THEN spent[b] + 1 ELSE spent[b]]
  /\ UNCHANGED <<ledger, tokens, device, pc, runLock>>

-----------------------------------------------------------------------------
Idle(b) ==
  \/ Connect(b) \/ EnsureAdmitted(b) \/ Reset(b) \/ Disconnect(b) \/ Submit(b)
  \/ \E mb \in ScanoutSizes : AccountScanout(b, mb)

Run(b) == Begin(b) \/ Wake(b) \/ RenderEnd(b) \/ Record(b)

Next == Tick \/ \E b \in Backends : Idle(b) \/ Run(b) \/ TakeRunLock(b)

Spec == Init /\ [][Next]_vars

(* Time passes, a thread that can run does, a render ends.  The run-lock is  *)
(* given to a thread that keeps asking for it: a std::sync::Mutex promises   *)
(* no order, but an unlock wakes a waiter, and its rivals empty their bucket *)
(* and sleep.  Nobody has to submit, reset or disconnect.                    *)
Fairness ==
  /\ WF_vars(Tick)
  /\ \A b \in Backends : WF_vars(Run(b)) /\ SF_vars(TakeRunLock(b))

FairSpec == Spec /\ Fairness

-----------------------------------------------------------------------------
(* Properties.                                                               *)

TypeOK ==
  /\ vms \subseteq Vms
  /\ reserved \in [Vms -> Nat] /\ encoder \in [Vms -> BOOLEAN]
  /\ vramUsed \in Nat /\ encUsed \in Nat
  /\ tokens \in [Vms -> Int] /\ \A v \in Vms : tokens[v] <= Burst
  /\ elapsed \in [Vms -> 0 .. ElapsedMax]
  /\ runLock \in Backends \cup {Nobody}
  /\ pc \in [Backends -> {"offline", "idle", "begin", "nap", "lock", "render", "record"}]
  /\ ticket \in [Backends -> BOOLEAN] /\ denied \in [Backends -> BOOLEAN]
  /\ dims \in [Backends -> ScanoutSizes \cup {NoSize}]
  /\ nap \in [Backends -> 0 .. NapMax] /\ spent \in [Backends -> 0 .. MaxCost]

(* Capacity is never over-committed, whatever the interleaving of admissions,*)
(* true-ups, reaps and reconnects: VRAM within the device's minus the        *)
(* reserve, sessions and VMs within their caps ("over capacity is denied,    *)
(* never best-effort", sched/lib.rs:9).                                      *)
WithinBudget ==
  /\ vramUsed <= Monus(TotalVram, VramReserve)
  /\ encUsed <= MaxEncSessions
  /\ Cardinality(vms) <= MaxGpuVms

(* Each registered VM is owned by exactly one live ticket, and each ticket   *)
(* owns a registration: capacity is neither leaked by a connection that went *)
(* away nor freed by a ticket of another connection with the same vm_id.     *)
TicketsExact ==
  /\ \A v \in Vms : v \in vms <=> \E b \in Backends : ticket[b] /\ VmOf[b] = v
  /\ \A b, c \in Backends : ticket[b] /\ ticket[c] /\ VmOf[b] = VmOf[c] => b = c

\* The encoder-session counter is the number of VMs that hold one.
SessionsExact == encUsed = Cardinality({v \in vms : encoder[v]})

(* Both counters are what the registered VMs hold (sched/lib.rs:683-687): no *)
(* sequence of grows, refused grows, shrinks and reaps makes the VRAM sum    *)
(* drift, and the reap's saturating subtraction hides no lost session.       *)
LedgerExact == SessionsExact /\ vramUsed = MapThenSumSet(LAMBDA v : reserved[v], vms)

(* No GPU time is given to a VM that was not admitted: whoever sleeps for    *)
(* budget, waits for the run-lock or renders holds its ticket throughout,    *)
(* and the render in progress is the lock holder's alone.                    *)
RunsAdmitted ==
  \A b \in Backends :
    /\ pc[b] \in {"begin", "nap", "lock", "render", "record"} => ticket[b] /\ VmOf[b] \in vms
    /\ pc[b] = "render" <=> runLock = b

(* Back-pressure: with the throttle on, a render starts only on a positive   *)
(* bucket, so a VM's debt stays below the length of one render.              *)
BackPressure ==
  ThrottleEnabled =>
    /\ \A b \in Backends : pc[b] \in {"lock", "render"} => tokens[VmOf[b]] > 0
    /\ \A v \in vms : tokens[v] >= 1 - MaxCost

(* Every submission to the broker comes back: a throttled VM is refilled     *)
(* whatever the others do (the anti-starvation floor), and a render that     *)
(* panics does not take the run-lock with it.                                *)
RunReturns == \A b \in Backends : pc[b] = "begin" ~> pc[b] = "idle"
=============================================================================
