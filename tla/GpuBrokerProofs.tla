--------------------------- MODULE GpuBrokerProofs ---------------------------
(***************************************************************************)
(* Proofs about the broker for every number of connections and VMs, every  *)
(* capacity, cap and estimate, and every rate and burst of the throttle.   *)
(***************************************************************************)
EXTENDS GpuBroker, FiniteSetTheorems, TLAPS

Positive == Nat \ {0}

LEMMA BrokerConstants ==
  /\ IsFiniteSet(Vms) /\ VmOf \in [Backends -> Vms]
  /\ TotalVram \in Nat /\ VramReserve \in Nat
  /\ MaxGpuVms \in Nat /\ MaxEncSessions \in Nat
  /\ Estimate \in Nat /\ ScanoutSizes \subseteq Nat
  /\ ThrottleEnabled \in BOOLEAN
  /\ Rate \in [Vms -> Positive] /\ Unit \in Positive
  /\ Burst \in Positive /\ Quantum \in Positive /\ NapMax \in Positive
  /\ MaxCost \in Nat /\ ElapsedMax \in Nat
  /\ Nobody \notin Backends
BY BrokerAssumption, SMT DEF BrokerAssumption, Positive

-----------------------------------------------------------------------------
(* The arithmetic of the throttle.                                           *)

LEMMA ExceptType ==
  ASSUME NEW S, NEW f \in [S -> BOOLEAN], NEW x, NEW e \in BOOLEAN
  PROVE  [f EXCEPT ![x] = e] \in [S -> BOOLEAN]
BY Zenon

LEMMA Division ==
  ASSUME NEW n \in Int, NEW d \in Positive
  PROVE  n \div d \in Int /\ n % d \in 0 .. d - 1 /\ n = d * (n \div d) + (n % d)
BY SMT DEF Positive

LEMMA DivNat == ASSUME NEW n \in Nat, NEW d \in Positive PROVE n \div d \in Nat
<1> DEFINE q == n \div d
<1> DEFINE r == n % d
<1>1. q \in Int /\ r \in 0 .. d - 1 /\ n = d * q + r
  BY Division, SMT
<1> HIDE DEF q, r
<1>2. ASSUME q < 0 PROVE FALSE
  <2>1. d * (0 - q) >= d
    BY <1>1, <1>2, SMT DEF Positive
  <2>2. d * (0 - q) = 0 - d * q
    BY <1>1, SMT DEF Positive
  <2>3. QED BY <1>1, <2>1, <2>2, SMT DEF Positive
<1>3. q \in Nat
  BY <1>1, <1>2, SMT
<1>4. QED BY <1>3 DEF q

(* A refill takes nothing away and stops at the burst.                       *)
LEMMA RefillBounds ==
  ASSUME TypeOK, NEW v \in Vms
  PROVE  /\ Refilled(v) \in Int
         /\ tokens[v] <= Refilled(v) /\ Refilled(v) <= Burst
<1>1. Rate[v] \in Nat /\ elapsed[v] \in Nat /\ tokens[v] \in Int /\ tokens[v] <= Burst
  BY BrokerConstants, SMT DEF TypeOK, Positive
<1>2. Rate[v] * elapsed[v] \in Nat
  BY <1>1, SMT
<1>3. (Rate[v] * elapsed[v]) \div Unit \in Nat
  BY <1>2, BrokerConstants, DivNat, Zenon
<1> DEFINE gain == (Rate[v] * elapsed[v]) \div Unit
<1>4. Refilled(v) = Lesser(tokens[v] + gain, Burst)
  BY Zenon DEF Refilled
<1>5. gain \in Nat
  BY <1>3, Zenon
<1> HIDE DEF gain
<1>6. QED BY <1>1, <1>4, <1>5, BrokerConstants, SMT DEF Lesser, Positive

(* A throttled thread sleeps at least a tick and at most NapMax.             *)
LEMMA NapBounds == ASSUME TypeOK, NEW v \in Vms PROVE NapFor(v) \in 1 .. NapMax
<1> DEFINE short == Greater(1, Quantum - Refilled(v))
<1>1. short \in Nat
  BY RefillBounds, BrokerConstants, SMT DEF Greater, Positive
<1>2. (short * Unit) \in Nat
  <2> HIDE DEF short
  <2> QED BY <1>1, BrokerConstants, SMT DEF Positive
<1>3. Rate[v] \in Positive
  BY BrokerConstants, SMT
<1>4. (short * Unit) \div Rate[v] \in Nat
  BY <1>2, <1>3, DivNat, Zenon
<1> DEFINE time == (short * Unit) \div Rate[v]
<1>5. time \in Nat /\ NapFor(v) = Lesser(NapMax, Greater(1, time))
  BY <1>4, Zenon DEF NapFor
<1> HIDE DEF time
<1>6. QED BY <1>5, BrokerConstants, SMT DEF Lesser, Greater, Positive

-----------------------------------------------------------------------------
(* Types.                                                                    *)

LEMMA BrokerTypeInit == Init => TypeOK
BY BrokerConstants, SMT DEF Init, TypeOK, Positive

(* Every admission, true-up, reap and step of run_timed keeps the types.     *)
LEMMA BrokerTypeStep == TypeOK /\ [Next]_vars => TypeOK'
<1> SUFFICES ASSUME TypeOK, [Next]_vars PROVE TypeOK'
  OBVIOUS
<1> USE DEF ledger, buckets, device, thread, Goto
<1>1. ASSUME NEW b \in Backends, Connect(b) PROVE TypeOK'
  BY <1>1, SMT DEF Connect, TypeOK
<1>2. ASSUME NEW b \in Backends, EnsureAdmitted(b) PROVE TypeOK'
  <2>1. CASE Admissible(b)
    <3>1. VmOf[b] \in Vms
      BY BrokerConstants, SMT
    <3>2. /\ Admit(b) /\ ticket' = [ticket EXCEPT ![b] = TRUE]
          /\ UNCHANGED <<denied, dims, thread>>
      BY <1>2, <2>1, Zenon DEF EnsureAdmitted
    <3>3. /\ vms' \subseteq Vms /\ vramUsed' \in Nat /\ encUsed' \in Nat
          /\ reserved' \in [Vms -> Nat] /\ elapsed' \in [Vms -> 0 .. ElapsedMax]
      BY <3>1, <3>2, BrokerConstants, SMT DEF Admit, TypeOK
    <3>4. tokens' \in [Vms -> Int] /\ \A v \in Vms : tokens'[v] <= Burst
      BY <3>1, <3>2, BrokerConstants, SMT DEF Admit, TypeOK, Positive
    <3>5. (b \in Streaming) \in BOOLEAN
      OBVIOUS
    <3>6. encoder' \in [Vms -> BOOLEAN] /\ ticket' \in [Backends -> BOOLEAN]
      BY <3>2, <3>5, ExceptType, Zenon DEF Admit, TypeOK
    <3>7. QED BY <3>2, <3>3, <3>4, <3>6, SMT DEF TypeOK
  <2>2. CASE ~Admissible(b)
    <3>1. denied' = [denied EXCEPT ![b] = TRUE] /\ UNCHANGED <<ledger, buckets, ticket, dims, thread>>
      BY <1>2, <2>2, Zenon DEF EnsureAdmitted
    <3>2. denied' \in [Backends -> BOOLEAN]
      BY <3>1, Zenon DEF TypeOK
    <3>3. QED BY <3>1, <3>2, SMT DEF TypeOK
  <2>3. QED BY <2>1, <2>2
<1>3. ASSUME NEW b \in Backends, DropTicket(b)
      PROVE  /\ vms' \subseteq Vms
             /\ reserved' \in [Vms -> Nat] /\ encoder' \in [Vms -> BOOLEAN]
             /\ vramUsed' \in Nat /\ encUsed' \in Nat
             /\ tokens' \in [Vms -> Int] /\ \A v \in Vms : tokens'[v] <= Burst
             /\ elapsed' \in [Vms -> 0 .. ElapsedMax]
             /\ ticket' \in [Backends -> BOOLEAN]
  <2>1. CASE ticket[b]
    <3>1. Release(VmOf[b]) /\ VmOf[b] \in Vms
      BY <1>3, <2>1, BrokerConstants, SMT DEF DropTicket
    <3>2. /\ vms' \subseteq Vms /\ vramUsed' \in Nat /\ encUsed' \in Nat
          /\ reserved' \in [Vms -> Nat] /\ elapsed' \in [Vms -> 0 .. ElapsedMax]
      BY <3>1, BrokerConstants, SMT DEF Release, Monus, TypeOK
    <3>3. tokens' \in [Vms -> Int] /\ \A v \in Vms : tokens'[v] <= Burst
      BY <3>1, BrokerConstants, SMT DEF Release, TypeOK, Positive
    <3>4. encoder' \in [Vms -> BOOLEAN] /\ ticket' \in [Backends -> BOOLEAN]
      BY <1>3, <3>1, Zenon DEF Release, DropTicket, TypeOK
    <3>5. QED BY <3>2, <3>3, <3>4
  <2>2. CASE ~ticket[b]
    BY <1>3, <2>2, SMT DEF DropTicket, TypeOK
  <2>3. QED BY <2>1, <2>2
<1>4. ASSUME NEW b \in Backends, Reset(b) PROVE TypeOK'
  BY <1>3, <1>4, SMT DEF Reset, TypeOK
<1>5. ASSUME NEW b \in Backends, Disconnect(b) PROVE TypeOK'
  BY <1>3, <1>5, SMT DEF Disconnect, TypeOK
<1>6. ASSUME NEW b \in Backends, Submit(b) PROVE TypeOK'
  BY <1>6, SMT DEF Submit, TypeOK
<1>7. ASSUME NEW b \in Backends, NEW mb \in ScanoutSizes, AccountScanout(b, mb)
      PROVE TypeOK'
  <2>1. vramUsed' \in Nat /\ reserved' \in [Vms -> Nat]
    BY <1>7, BrokerConstants, SMT DEF AccountScanout, AdjustVram, Monus, TypeOK
  <2>2. QED BY <1>7, <2>1, SMT DEF AccountScanout, TypeOK
<1>8. ASSUME NEW b \in Backends, Begin(b) PROVE TypeOK'
  <2>1. CASE VmOf[b] \notin vms
    <3>1. pc' = [pc EXCEPT ![b] = "idle"] /\ UNCHANGED <<ledger, buckets, device, runLock, nap, spent>>
      BY <1>8, <2>1, Zenon DEF Begin
    <3>2. QED BY <3>1, SMT DEF TypeOK
  <2>2. CASE VmOf[b] \in vms
    <3> DEFINE v == VmOf[b]
    <3>1. v \in Vms
      BY BrokerConstants, SMT
    <3>2. /\ Refilled(v) \in Int /\ Refilled(v) <= Burst
          /\ NapFor(v) \in 0 .. NapMax
      BY <3>1, RefillBounds, NapBounds, BrokerConstants, SMT DEF Positive
    <3>3. /\ tokens' = [tokens EXCEPT ![v] = Refilled(v)]
          /\ elapsed' = [elapsed EXCEPT ![v] = 0]
          /\ pc' = [pc EXCEPT ![b] = IF Ready(v) THEN "lock" ELSE "nap"]
          /\ nap' = [nap EXCEPT ![b] = IF Ready(v) THEN 0 ELSE NapFor(v)]
          /\ UNCHANGED <<ledger, device, runLock, spent>>
      BY <1>8, <2>2, Zenon DEF Begin
    <3> HIDE DEF v
    <3>4. tokens' \in [Vms -> Int] /\ \A w \in Vms : tokens'[w] <= Burst
      BY <3>1, <3>2, <3>3, SMT DEF TypeOK
    <3>5. elapsed' \in [Vms -> 0 .. ElapsedMax]
      BY <3>1, <3>3, BrokerConstants, SMT DEF TypeOK
    <3>6. nap' \in [Backends -> 0 .. NapMax]
      BY <3>2, <3>3, BrokerConstants, SMT DEF TypeOK, Positive
    <3>7. pc' \in [Backends -> {"offline", "idle", "begin", "nap", "lock", "render", "record"}]
      BY <3>3, Zenon DEF TypeOK
    <3>8. QED BY <3>3, <3>4, <3>5, <3>6, <3>7, SMT DEF TypeOK
  <2>3. QED BY <2>1, <2>2
<1>9. ASSUME NEW b \in Backends, Wake(b) PROVE TypeOK'
  BY <1>9, SMT DEF Wake, TypeOK
<1>10. ASSUME NEW b \in Backends, RenderEnd(b) PROVE TypeOK'
  BY <1>10, SMT DEF RenderEnd, TypeOK
<1>11. ASSUME NEW b \in Backends, Record(b) PROVE TypeOK'
  <2> DEFINE v == VmOf[b]
  <2>1. v \in Vms /\ spent[b] \in Nat
    BY BrokerConstants, SMT DEF TypeOK
  <2>2. /\ tokens' = IF v \in vms THEN [tokens EXCEPT ![v] = @ - spent[b]] ELSE tokens
        /\ spent' = [spent EXCEPT ![b] = 0]
        /\ pc' = [pc EXCEPT ![b] = "idle"]
        /\ UNCHANGED <<ledger, elapsed, device, runLock, nap>>
    BY <1>11, Zenon DEF Record
  <2> HIDE DEF v
  <2>3. tokens' \in [Vms -> Int] /\ \A w \in Vms : tokens'[w] <= Burst
    BY <2>1, <2>2, BrokerConstants, SMT DEF TypeOK, Positive
  <2>4. QED BY <2>2, <2>3, BrokerConstants, SMT DEF TypeOK
<1>12. ASSUME NEW b \in Backends, TakeRunLock(b) PROVE TypeOK'
  BY <1>12, BrokerConstants, SMT DEF TakeRunLock, TypeOK
<1>13. CASE Tick
  BY <1>13, BrokerConstants, SMT DEF Tick, Lesser, Monus, TypeOK, Positive
<1>14. CASE UNCHANGED vars
  BY <1>14, SMT DEF vars, TypeOK
<1>15. QED
  BY <1>1, <1>2, <1>4, <1>5, <1>6, <1>7, <1>8, <1>9, <1>10, <1>11, <1>12, <1>13, <1>14,
     Zenon DEF Next, Idle, Run

(* Type correctness of the broker and of every backend's thread: buckets     *)
(* never exceed the burst, naps and renders stay within their bounds         *)
(* (sched/lib.rs:344-357, 551-574).                                          *)
THEOREM BrokerTypeCorrect == Spec => []TypeOK
BY BrokerTypeInit, BrokerTypeStep, PTL DEF Spec

-----------------------------------------------------------------------------
(* Who owns what.  A ticket and a registration come and go together, and a   *)
(* backend in run_timed holds its ticket: neither is inductive alone, since  *)
(* a reap by vm_id could pull the registration from under another backend    *)
(* that is running, were its ticket not the only one.                        *)

OwnerInv == TypeOK /\ TicketsExact /\ RunsAdmitted

LEMMA OwnerInit == Init => OwnerInv
BY BrokerTypeInit, BrokerConstants, SMT DEF Init, OwnerInv, TicketsExact, RunsAdmitted

(* An admission gives one free vm_id to one backend without a ticket.        *)
LEMMA AdmitOwner ==
  ASSUME OwnerInv, NEW b \in Backends, EnsureAdmitted(b)
  PROVE  TicketsExact' /\ RunsAdmitted'
<1> USE DEF OwnerInv
<1>1. CASE Admissible(b)
  <2>1. /\ vms' = vms \cup {VmOf[b]} /\ ticket' = [ticket EXCEPT ![b] = TRUE]
        /\ UNCHANGED <<pc, runLock>>
        /\ VmOf[b] \notin vms /\ VmOf[b] \in Vms
    BY <1>1, BrokerConstants, SMT DEF EnsureAdmitted, Admit, Admissible, thread
  <2>2. \A c \in Backends : ticket'[c] <=> c = b \/ ticket[c]
    BY <2>1, SMT DEF TypeOK
  <2>3. TicketsExact'
    BY <2>1, <2>2, BrokerConstants, SMT DEF TicketsExact, TypeOK
  <2>4. RunsAdmitted'
    BY <2>1, <2>2, SMT DEF RunsAdmitted
  <2>5. QED BY <2>3, <2>4
<1>2. CASE ~Admissible(b)
  BY <1>2, SMT DEF EnsureAdmitted, TicketsExact, RunsAdmitted, ledger, thread
<1>3. QED BY <1>1, <1>2

(* A backend that is idle gives its registration back, and nobody else's.    *)
LEMMA DropOwner ==
  ASSUME OwnerInv, NEW b \in Backends, DropTicket(b), pc[b] = "idle",
         runLock' = runLock,
         \A c \in Backends : pc'[c] = pc[c] \/ (c = b /\ pc'[c] = "offline")
  PROVE  TicketsExact' /\ RunsAdmitted'
<1> USE DEF OwnerInv
<1>1. \A c \in Backends : ticket'[c] <=> c # b /\ ticket[c]
  BY SMT DEF DropTicket, TypeOK
<1>2. vms' = IF ticket[b] THEN vms \ {VmOf[b]} ELSE vms
  BY SMT DEF DropTicket, Release, ledger
<1>3. \A v \in Vms : v \in vms' <=> v \in vms /\ ~(ticket[b] /\ v = VmOf[b])
  BY <1>2, SMT
<1>4. TicketsExact'
  BY <1>1, <1>3, BrokerConstants, SMT DEF TicketsExact
<1>5. \A c \in Backends : VmOf[c] \in Vms
  BY BrokerConstants, SMT
<1>6. RunsAdmitted'
  BY <1>1, <1>3, <1>5, SMT DEF TicketsExact, RunsAdmitted
<1>7. QED BY <1>4, <1>6

LEMMA OwnerStep == OwnerInv /\ [Next]_vars => OwnerInv'
<1> SUFFICES ASSUME OwnerInv, [Next]_vars PROVE TicketsExact' /\ RunsAdmitted'
  BY BrokerTypeStep, Zenon DEF OwnerInv
<1> USE DEF OwnerInv, ledger, device, thread, Goto
<1>1. ASSUME NEW b \in Backends, Connect(b) PROVE TicketsExact' /\ RunsAdmitted'
  BY <1>1, SMT DEF Connect, TypeOK, TicketsExact, RunsAdmitted
<1>2. ASSUME NEW b \in Backends, EnsureAdmitted(b) PROVE TicketsExact' /\ RunsAdmitted'
  BY <1>2, AdmitOwner
<1>3. ASSUME NEW b \in Backends, Reset(b) PROVE TicketsExact' /\ RunsAdmitted'
  <2>1. DropTicket(b) /\ pc[b] = "idle" /\ UNCHANGED <<pc, runLock>>
    BY <1>3, Zenon DEF Reset
  <2>2. QED BY <2>1, DropOwner, Zenon
<1>4. ASSUME NEW b \in Backends, Disconnect(b) PROVE TicketsExact' /\ RunsAdmitted'
  <2>1. /\ DropTicket(b) /\ pc[b] = "idle" /\ runLock' = runLock
        /\ pc' = [pc EXCEPT ![b] = "offline"]
    BY <1>4, Zenon DEF Disconnect
  <2>2. \A c \in Backends : pc'[c] = pc[c] \/ (c = b /\ pc'[c] = "offline")
    BY <2>1, SMT DEF TypeOK
  <2>3. QED BY <2>1, <2>2, DropOwner, Zenon
<1>5. ASSUME NEW b \in Backends, Submit(b) PROVE TicketsExact' /\ RunsAdmitted'
  <2>1. VmOf[b] \in vms
    BY <1>5, BrokerConstants, SMT DEF Submit, TicketsExact
  <2>2. QED BY <1>5, <2>1, SMT DEF Submit, TypeOK, TicketsExact, RunsAdmitted
<1>6. ASSUME NEW b \in Backends, NEW mb \in ScanoutSizes, AccountScanout(b, mb)
      PROVE  TicketsExact' /\ RunsAdmitted'
  BY <1>6, SMT DEF AccountScanout, TicketsExact, RunsAdmitted
<1>7. ASSUME NEW b \in Backends, Begin(b) PROVE TicketsExact' /\ RunsAdmitted'
  <2>1. /\ UNCHANGED <<vms, ticket, runLock>> /\ pc[b] = "begin"
        /\ \E l \in {"idle", "lock", "nap"} : pc' = [pc EXCEPT ![b] = l]
    BY <1>7, Zenon DEF Begin
  <2>2. QED BY <2>1, SMT DEF TypeOK, TicketsExact, RunsAdmitted
<1>8. ASSUME NEW b \in Backends, Wake(b) PROVE TicketsExact' /\ RunsAdmitted'
  BY <1>8, SMT DEF Wake, TypeOK, TicketsExact, RunsAdmitted
<1>9. ASSUME NEW b \in Backends, TakeRunLock(b) PROVE TicketsExact' /\ RunsAdmitted'
  BY <1>9, BrokerConstants, SMT DEF TakeRunLock, TypeOK, TicketsExact, RunsAdmitted
<1>10. ASSUME NEW b \in Backends, RenderEnd(b) PROVE TicketsExact' /\ RunsAdmitted'
  BY <1>10, BrokerConstants, SMT DEF RenderEnd, TypeOK, TicketsExact, RunsAdmitted
<1>11. ASSUME NEW b \in Backends, Record(b) PROVE TicketsExact' /\ RunsAdmitted'
  BY <1>11, SMT DEF Record, TypeOK, TicketsExact, RunsAdmitted
<1>12. CASE Tick
  BY <1>12, SMT DEF Tick, TicketsExact, RunsAdmitted
<1>13. CASE UNCHANGED vars
  BY <1>13, SMT DEF vars, TicketsExact, RunsAdmitted
<1>14. QED
  BY <1>1, <1>2, <1>3, <1>4, <1>5, <1>6, <1>7, <1>8, <1>9, <1>10, <1>11, <1>12, <1>13,
     Zenon DEF Next, Idle, Run

LEMMA OwnerInvariant == Spec => []OwnerInv
BY OwnerInit, OwnerStep, PTL DEF Spec

(* Every registered VM has exactly one ticket, and every ticket a registered *)
(* VM, whichever connections share a vm_id and in whatever order they are    *)
(* admitted, reset and torn down (sched/lib.rs:681-700, 743-750).            *)
THEOREM TicketOwnership == Spec => []TicketsExact
BY OwnerInvariant, PTL DEF OwnerInv

(* Whoever sleeps for budget, waits for the run-lock or renders has been     *)
(* admitted and still is, and only the lock holder renders                   *)
(* (sched/lib.rs:607-643).                                                   *)
THEOREM AdmittedRuns == Spec => []RunsAdmitted
BY OwnerInvariant, PTL DEF OwnerInv

-----------------------------------------------------------------------------
(* Capacity.                                                                 *)

Holders == {v \in vms : encoder[v]}

CapacityInv == WithinBudget /\ SessionsExact

LEMMA CapacityInit == Init => CapacityInv
<1> SUFFICES ASSUME Init PROVE CapacityInv
  OBVIOUS
<1>1. vms = {} /\ vramUsed = 0 /\ encUsed = 0
  BY DEF Init
<1>2. {v \in vms : encoder[v]} = {}
  BY <1>1
<1>3. Cardinality(vms) = 0 /\ Cardinality({v \in vms : encoder[v]}) = 0
  BY <1>1, <1>2, FS_EmptySet
<1>4. QED BY <1>1, <1>3, BrokerConstants, SMT DEF CapacityInv, WithinBudget, SessionsExact, Monus

LEMMA FiniteLedger ==
  ASSUME TypeOK
  PROVE  /\ IsFiniteSet(vms) /\ Cardinality(vms) \in Nat
         /\ IsFiniteSet(Holders) /\ Cardinality(Holders) \in Nat
<1>1. vms \in SUBSET Vms
  BY DEF TypeOK
<1>2. IsFiniteSet(vms)
  BY <1>1, BrokerConstants, FS_Subset
<1>3. Holders \in SUBSET vms
  BY DEF Holders
<1>4. IsFiniteSet(Holders)
  BY <1>2, <1>3, FS_Subset
<1>5. QED BY <1>2, <1>4, FS_CardinalityType

(* admit checks every capacity under the lock it commits under.              *)
LEMMA AdmitCapacity ==
  ASSUME TypeOK, CapacityInv, NEW b \in Backends, Admissible(b), Admit(b)
  PROVE  CapacityInv'
<1> DEFINE v == VmOf[b]
<1>1. /\ v \in Vms /\ v \notin vms /\ Cardinality(vms) < MaxGpuVms
      /\ (b \in Streaming => encUsed < MaxEncSessions) /\ Estimate <= Available
      /\ vramUsed' = vramUsed + Estimate
      /\ encUsed' = encUsed + (IF b \in Streaming THEN 1 ELSE 0)
      /\ vms' = vms \cup {v}
      /\ encoder' = [encoder EXCEPT ![v] = b \in Streaming]
  BY BrokerConstants, SMT DEF Admissible, Admit
<1> HIDE DEF v
<1>2. Cardinality(vms') = Cardinality(vms) + 1
  BY <1>1, FiniteLedger, FS_AddElement
<1>3. \A w \in Vms : encoder'[w] = IF w = v THEN b \in Streaming ELSE encoder[w]
  BY <1>1, Zenon DEF TypeOK
<1>4. {w \in vms' : encoder'[w]} = IF b \in Streaming THEN Holders \cup {v} ELSE Holders
  <2>1. \A w \in vms : encoder'[w] = encoder[w]
    BY <1>1, <1>3, SMT DEF TypeOK
  <2>2. encoder'[v] = (b \in Streaming)
    BY <1>1, <1>3, Zenon
  <2>3. CASE b \in Streaming
    BY <1>1, <2>1, <2>2, <2>3, Zenon DEF Holders
  <2>4. CASE b \notin Streaming
    BY <1>1, <2>1, <2>2, <2>4, Zenon DEF Holders
  <2>5. QED BY <2>3, <2>4
<1>5. v \notin Holders
  BY <1>1 DEF Holders
<1>6. Cardinality(Holders \cup {v}) = Cardinality(Holders) + 1
  BY <1>5, FiniteLedger, FS_AddElement
<1>7. SessionsExact'
  <2>1. encUsed = Cardinality(Holders)
    BY DEF CapacityInv, SessionsExact, Holders
  <2>2. CASE b \in Streaming
    <3>1. encUsed' = encUsed + 1
      BY <1>1, <2>2, Zenon
    <3>2. encUsed' = Cardinality(Holders \cup {v})
      BY <1>6, <2>1, <3>1, Zenon
    <3>3. QED BY <1>4, <2>2, <3>2, Zenon DEF SessionsExact
  <2>3. CASE b \notin Streaming
    <3>1. encUsed' = encUsed
      BY <1>1, <2>3, SMT DEF TypeOK
    <3>2. QED BY <1>4, <2>1, <2>3, <3>1, Zenon DEF SessionsExact
  <2>4. QED BY <2>2, <2>3
<1>8. WithinBudget'
  BY <1>1, <1>2, FiniteLedger, BrokerConstants, SMT
     DEF CapacityInv, WithinBudget, Available, Monus, TypeOK
<1>9. QED BY <1>7, <1>8 DEF CapacityInv

(* A reap frees what the entry holds, and the entry is there.                *)
LEMMA ReleaseCapacity ==
  ASSUME TypeOK, CapacityInv, NEW v \in vms, Release(v)
  PROVE  CapacityInv'
<1>1. /\ v \in Vms /\ vms' = vms \ {v}
      /\ vramUsed' = Monus(vramUsed, reserved[v])
      /\ encUsed' = IF encoder[v] THEN Monus(encUsed, 1) ELSE encUsed
      /\ encoder' = [encoder EXCEPT ![v] = FALSE]
  BY DEF Release, TypeOK
<1>2. Cardinality(vms') = Cardinality(vms) - 1
  BY <1>1, FiniteLedger, FS_RemoveElement
<1>3. \A w \in vms' : encoder'[w] = encoder[w]
  BY <1>1, SMT DEF TypeOK
<1>4. {w \in vms' : encoder'[w]} = Holders \ {v}
  BY <1>1, <1>3 DEF Holders
<1>5. Cardinality(Holders \ {v}) = IF v \in Holders THEN Cardinality(Holders) - 1
                                   ELSE Cardinality(Holders)
  BY FiniteLedger, FS_RemoveElement
<1>6. v \in Holders <=> encoder[v]
  BY DEF Holders
<1>7. encUsed = Cardinality(Holders)
  BY DEF CapacityInv, SessionsExact, Holders
<1>8. encoder[v] => Cardinality(Holders) # 0
  BY <1>6, FiniteLedger, FS_EmptySet
<1>9. encUsed' = Cardinality({w \in vms' : encoder'[w]}) /\ encUsed' <= encUsed
  <2> DEFINE n == Cardinality(Holders)
  <2> DEFINE m == Cardinality(Holders \ {v})
  <2>1. n \in Nat /\ encUsed = n /\ (encoder[v] => n # 0)
    BY <1>7, <1>8, FiniteLedger, Zenon
  <2>2. m = IF encoder[v] THEN n - 1 ELSE n
    BY <1>5, <1>6, Zenon
  <2> HIDE DEF n, m
  <2>3. encUsed' = m /\ m <= n
    BY <1>1, <2>1, <2>2, SMT DEF Monus
  <2>4. QED BY <1>4, <2>1, <2>3, Zenon DEF m
<1>10. vramUsed' <= vramUsed
  BY <1>1, SMT DEF Monus, TypeOK
<1>11. WithinBudget'
  BY <1>2, <1>9, <1>10, FiniteLedger, BrokerTypeStep, BrokerConstants, SMT
     DEF CapacityInv, WithinBudget, Monus, TypeOK, Release
<1>12. QED BY <1>9, <1>11 DEF CapacityInv, SessionsExact

LEMMA DropCapacity ==
  ASSUME OwnerInv, CapacityInv, NEW b \in Backends, DropTicket(b)
  PROVE  CapacityInv'
<1>1. CASE ticket[b]
  <2>1. VmOf[b] \in vms /\ Release(VmOf[b])
    BY <1>1, BrokerConstants, SMT DEF OwnerInv, TicketsExact, DropTicket
  <2>2. QED BY <2>1, ReleaseCapacity DEF OwnerInv
<1>2. CASE ~ticket[b]
  BY <1>2, Zenon DEF DropTicket, ledger, CapacityInv, WithinBudget, SessionsExact
<1>3. QED BY <1>1, <1>2

LEMMA CapacityStep == OwnerInv /\ CapacityInv /\ [Next]_vars => CapacityInv'
<1> SUFFICES ASSUME OwnerInv, CapacityInv, [Next]_vars PROVE CapacityInv'
  OBVIOUS
<1>1. ASSUME UNCHANGED ledger PROVE CapacityInv'
  BY <1>1, Zenon DEF ledger, CapacityInv, WithinBudget, SessionsExact
<1>2. ASSUME NEW b \in Backends, EnsureAdmitted(b) PROVE CapacityInv'
  <2>1. CASE Admissible(b)
    BY <1>2, <2>1, AdmitCapacity DEF EnsureAdmitted, OwnerInv
  <2>2. CASE ~Admissible(b)
    BY <1>1, <1>2, <2>2 DEF EnsureAdmitted
  <2>3. QED BY <2>1, <2>2
<1>3. ASSUME NEW b \in Backends, Reset(b) \/ Disconnect(b) PROVE CapacityInv'
  BY <1>3, DropCapacity DEF Reset, Disconnect
<1>4. ASSUME NEW b \in Backends, NEW mb \in ScanoutSizes, AccountScanout(b, mb)
      PROVE  CapacityInv'
  <2>1. UNCHANGED <<vms, encoder, encUsed>> /\ AdjustVram(VmOf[b], Estimate + mb)
    BY <1>4 DEF AccountScanout
  <2>2. reserved[VmOf[b]] \in Nat /\ Estimate + mb \in Nat
    BY BrokerConstants, SMT DEF OwnerInv, TypeOK
  <2>3. vramUsed' <= Monus(TotalVram, VramReserve)
    BY <2>1, <2>2, BrokerConstants, SMT
       DEF AdjustVram, Available, Monus, CapacityInv, WithinBudget, OwnerInv, TypeOK
  <2>4. QED BY <2>1, <2>3, Zenon DEF CapacityInv, WithinBudget, SessionsExact
<1>5. ASSUME NEW b \in Backends,
             Connect(b) \/ Submit(b) \/ Run(b) \/ TakeRunLock(b)
      PROVE  CapacityInv'
  BY <1>1, <1>5, Zenon DEF Connect, Submit, Run, Begin, Wake, RenderEnd, Record, TakeRunLock
<1>6. CASE Tick
  BY <1>1, <1>6, Zenon DEF Tick
<1>7. CASE UNCHANGED vars
  BY <1>1, <1>7, Zenon DEF vars
<1>8. QED
  BY <1>2, <1>3, <1>4, <1>5, <1>6, <1>7, Zenon DEF Next, Idle

LEMMA CapacityInvariant == Spec => []CapacityInv
BY CapacityInit, CapacityStep, OwnerInvariant, PTL DEF Spec

(* VRAM, encoder sessions and VM slots are never over-committed, whatever    *)
(* the interleaving of admissions, true-ups and reaps of any number of VMs   *)
(* (sched/lib.rs:449-549, 681-700).                                          *)
THEOREM NoOverCommit == Spec => []WithinBudget
BY CapacityInvariant, PTL DEF CapacityInv

(* The session counter is exact: the saturating subtraction of the reap      *)
(* never loses or invents a session (sched/lib.rs:681-700).                  *)
THEOREM SessionAccounting == Spec => []SessionsExact
BY CapacityInvariant, PTL DEF CapacityInv

-----------------------------------------------------------------------------
(* What a set of VMs holds together: a fold over the set.  That the fold has *)
(* a value and that the order of the addition does not matter are inductions *)
(* over subsets, done here on a smallest counterexample.                     *)

(* A nonempty family of subsets of a finite set has a member that contains   *)
(* no other.                                                                 *)
LEMMA SmallestOf ==
  ASSUME NEW S, IsFiniteSet(S), NEW F \in SUBSET (SUBSET S), F # {}
  PROVE  \E T \in F : \A U \in F : U \subseteq T => U = T
<1>1. IsWellFoundedOn(StrictSubsetOrdering(S), SUBSET S)
  BY FS_StrictSubsetOrderingWellFounded, FS_FiniteSubsetsOfFinite
<1>2. PICK T \in F : \A U \in F : ~(<<U, T>> \in StrictSubsetOrdering(S))
  BY <1>1, WFMin
<1>3. ASSUME NEW U \in F, U \subseteq T PROVE U = T
  <2>1. U \in SUBSET S /\ T \in SUBSET S
    OBVIOUS
  <2>2. ~(<<U, T>> \in StrictSubsetOrdering(S))
    BY <1>2
  <2>3. QED BY <1>3, <2>1, <2>2 DEF StrictSubsetOrdering
<1>4. QED BY <1>3

(* What the VMs in S hold together.                                          *)
Total(r, S) == MapThenSumSet(LAMBDA v : r[v], S)

First(T) == CHOOSE x \in T : TRUE

IsSum(g, r, S) ==
  g = [T \in SUBSET S |-> IF T = {} THEN 0 ELSE r[First(T)] + g[T \ {First(T)}]]

(* One round of a sum, when it is known to exist.                            *)
LEMMA SumRound ==
  ASSUME NEW g, NEW r, NEW S, IsSum(g, r, S), NEW T \in SUBSET S
  PROVE  /\ T = {} => g[T] = 0
         /\ T # {} => First(T) \in T /\ g[T] = r[First(T)] + g[T \ {First(T)}]
<1>1. g[T] = IF T = {} THEN 0 ELSE r[First(T)] + g[T \ {First(T)}]
  BY DEF IsSum
<1>2. T # {} => First(T) \in T
  BY DEF First
<1>3. QED BY <1>1, <1>2

(* Two sums agree on a set on which what they add agrees.                    *)
LEMMA SumsAgree ==
  ASSUME NEW S, NEW R, NEW g, NEW h, NEW r, NEW q,
         IsSum(g, r, S), IsSum(h, q, R),
         NEW T, IsFiniteSet(T), T \subseteq S, T \subseteq R,
         \A x \in T : r[x] = q[x]
  PROVE  g[T] = h[T]
<1> DEFINE Bad == {U \in SUBSET T : g[U] # h[U]}
<1>1. SUFFICES ASSUME Bad # {} PROVE FALSE
  OBVIOUS
<1>2. PICK U \in Bad : \A V \in Bad : V \subseteq U => V = U
  <2>1. Bad \in SUBSET (SUBSET T)
    OBVIOUS
  <2> HIDE DEF Bad
  <2>2. QED BY <1>1, <2>1, SmallestOf
<1>3. U \in SUBSET S /\ U \in SUBSET R /\ g[U] # h[U]
  OBVIOUS
<1>4. U # {}
  BY <1>3, SumRound
<1>5. /\ First(U) \in U
      /\ g[U] = r[First(U)] + g[U \ {First(U)}] /\ h[U] = q[First(U)] + h[U \ {First(U)}]
  BY <1>3, <1>4, SumRound
<1>6. U \ {First(U)} \notin Bad
  BY <1>2, <1>5
<1>7. g[U \ {First(U)}] = h[U \ {First(U)}]
  BY <1>6
<1>8. QED BY <1>3, <1>5, <1>7

SumOf(r, S) == CHOOSE g : IsSum(g, r, S)

(* Every finite set has a sum.                                               *)
LEMMA SumExists ==
  ASSUME NEW r, NEW S, IsFiniteSet(S)
  PROVE  IsSum(SumOf(r, S), r, S)
<1> DEFINE Bad == {T \in SUBSET S : ~\E g : IsSum(g, r, T)}
<1>1. ASSUME Bad # {} PROVE FALSE
  <2>1. PICK T \in Bad : \A U \in Bad : U \subseteq T => U = T
    <3>1. Bad \in SUBSET (SUBSET S)
      OBVIOUS
    <3> HIDE DEF Bad
    <3>2. QED BY <1>1, <3>1, SmallestOf
  <2>2. \A U \in SUBSET T : U # T => IsSum(SumOf(r, U), r, U)
    <3>1. ASSUME NEW U \in SUBSET T, U # T PROVE \E g : IsSum(g, r, U)
      BY <2>1, <3>1
    <3>2. QED BY <3>1 DEF SumOf
  <2> DEFINE part == [U \in SUBSET T |-> IF U = {} THEN 0 ELSE SumOf(r, U)[U]]
             g == [U \in SUBSET T |->
                     IF U = {} THEN 0 ELSE r[First(U)] + part[U \ {First(U)}]]
  <2>3. ASSUME NEW U \in SUBSET T, U # T PROVE part[U] = g[U]
    <3>1. CASE U = {}
      BY <3>1
    <3>2. CASE U # {}
      <4> DEFINE x == First(U)
                 W == U \ {x}
      <4>1. x \in U /\ SumOf(r, U)[U] = r[x] + SumOf(r, U)[W]
        <5>1. IsSum(SumOf(r, U), r, U)
          BY <2>2, <2>3
        <5>2. QED BY <3>2, <5>1, SumRound
      <4>2. W \in SUBSET T /\ W \subseteq U /\ W # T /\ IsFiniteSet(W)
        <5>1. W \subseteq S
          OBVIOUS
        <5>2. QED BY <4>1, <5>1, FS_Subset
      <4>3. SumOf(r, U)[W] = part[W]
        <5>1. IsSum(SumOf(r, U), r, U) /\ IsSum(SumOf(r, W), r, W)
          BY <2>2, <2>3, <4>2
        <5> HIDE DEF W
        <5>2. SumOf(r, U)[W] = SumOf(r, W)[W]
          BY <4>2, <5>1, SumsAgree
        <5>3. W = {} => SumOf(r, W)[W] = 0
          BY <5>1, SumRound
        <5>4. QED BY <4>2, <5>2, <5>3
      <4>4. part[U] = SumOf(r, U)[U] /\ g[U] = r[x] + part[W]
        BY <3>2
      <4>5. QED BY <4>1, <4>3, <4>4
    <3>3. QED BY <3>1, <3>2
  <2>4. IsSum(g, r, T)
    <3>1. ASSUME NEW U \in SUBSET T, U # {} PROVE part[U \ {First(U)}] = g[U \ {First(U)}]
      <4>1. First(U) \in U
        BY <3>1 DEF First
      <4>2. U \ {First(U)} \in SUBSET T /\ U \ {First(U)} # T
        BY <4>1
      <4> HIDE DEF part, g
      <4>3. QED BY <2>3, <4>2
    <3>2. g = [U \in SUBSET T |-> IF U = {} THEN 0 ELSE r[First(U)] + g[U \ {First(U)}]]
      <4>1. \A U \in SUBSET T :
              g[U] = IF U = {} THEN 0 ELSE r[First(U)] + part[U \ {First(U)}]
        OBVIOUS
      <4>2. g = [U \in SUBSET T |-> g[U]]
        OBVIOUS
      <4> HIDE DEF part, g
      <4>3. \A U \in SUBSET T :
              g[U] = IF U = {} THEN 0 ELSE r[First(U)] + g[U \ {First(U)}]
        BY <3>1, <4>1
      <4>4. QED BY <4>2, <4>3
    <3> HIDE DEF g
    <3>3. QED BY <3>2 DEF IsSum
  <2>5. QED BY <2>1, <2>4
<1>2. S \notin Bad
  BY <1>1
<1>3. \E g : IsSum(g, r, S)
  BY <1>2
<1>4. QED BY <1>3 DEF SumOf

LEMMA TotalIs ==
  ASSUME NEW r, NEW S
  PROVE  Total(r, S) = SumOf(r, S)[S]
BY DEF Total, MapThenSumSet, MapThenFoldSet, SumOf, IsSum, First

(* The total over equal holdings is equal.                                   *)
LEMMA TotalAgrees ==
  ASSUME NEW r, NEW q, NEW S, IsFiniteSet(S), \A x \in S : r[x] = q[x]
  PROVE  Total(r, S) = Total(q, S)
<1>1. IsSum(SumOf(r, S), r, S) /\ IsSum(SumOf(q, S), q, S)
  BY SumExists
<1>2. SumOf(r, S)[S] = SumOf(q, S)[S]
  BY <1>1, SumsAgree
<1>3. QED BY <1>2, TotalIs

LEMMA TotalFirst ==
  ASSUME NEW r, NEW S, IsFiniteSet(S)
  PROVE  /\ S = {} => Total(r, S) = 0
         /\ S # {} => First(S) \in S
                      /\ Total(r, S) = r[First(S)] + Total(r, S \ {First(S)})
<1> DEFINE T == S \ {First(S)}
<1>1. IsFiniteSet(T) /\ T \subseteq S
  BY FS_Subset
<1>2. IsSum(SumOf(r, S), r, S) /\ IsSum(SumOf(r, T), r, T)
  BY <1>1, SumExists
<1>3. /\ S = {} => SumOf(r, S)[S] = 0
      /\ S # {} => First(S) \in S /\ SumOf(r, S)[S] = r[First(S)] + SumOf(r, S)[T]
  BY <1>2, SumRound
<1>4. SumOf(r, S)[T] = SumOf(r, T)[T]
  <2> HIDE DEF T
  <2>1. QED BY <1>1, <1>2, SumsAgree
<1>5. QED BY <1>3, <1>4, TotalIs

LEMMA TotalNat ==
  ASSUME NEW S, IsFiniteSet(S), NEW r, \A x \in S : r[x] \in Nat
  PROVE  Total(r, S) \in Nat
<1> DEFINE Bad == {T \in SUBSET S : Total(r, T) \notin Nat}
<1>1. SUFFICES ASSUME Bad # {} PROVE FALSE
  OBVIOUS
<1>2. PICK T \in Bad : \A U \in Bad : U \subseteq T => U = T
  <2>1. Bad \in SUBSET (SUBSET S)
    OBVIOUS
  <2> HIDE DEF Bad
  <2>2. QED BY <1>1, <2>1, SmallestOf
<1>3. T \subseteq S /\ IsFiniteSet(T) /\ Total(r, T) \notin Nat
  BY FS_Subset
<1>4. T # {} /\ First(T) \in T /\ Total(r, T) = r[First(T)] + Total(r, T \ {First(T)})
  <2>1. /\ T = {} => Total(r, T) = 0
        /\ T # {} => First(T) \in T /\ Total(r, T) = r[First(T)] + Total(r, T \ {First(T)})
    BY <1>3, TotalFirst, Zenon
  <2>2. T # {}
    BY <1>3, <2>1
  <2>3. QED BY <2>1, <2>2, Zenon
<1>5. T \ {First(T)} \notin Bad
  BY <1>2, <1>4
<1>6. Total(r, T \ {First(T)}) \in Nat /\ r[First(T)] \in Nat
  BY <1>3, <1>4, <1>5
<1>7. QED BY <1>3, <1>4, <1>6

(* The order of the addition does not matter: any element can be split off.  *)
LEMMA TotalSplit ==
  ASSUME NEW S, IsFiniteSet(S), NEW r, \A x \in S : r[x] \in Nat, NEW v \in S
  PROVE  Total(r, S) = r[v] + Total(r, S \ {v})
<1> DEFINE Split(T, x) == Total(r, T) = r[x] + Total(r, T \ {x})
           Bad == {T \in SUBSET S : \E x \in T : ~Split(T, x)}
<1>1. ASSUME Bad # {} PROVE FALSE
  <2>1. PICK T \in Bad : \A U \in Bad : U \subseteq T => U = T
    <3>1. Bad \in SUBSET (SUBSET S)
      OBVIOUS
    <3> HIDE DEF Bad
    <3>2. QED BY <1>1, <3>1, SmallestOf
  <2>2. PICK x \in T : ~Split(T, x)
    OBVIOUS
  <2> DEFINE c == First(T)
  <2>3. T \subseteq S /\ IsFiniteSet(T)
    BY FS_Subset
  <2>4. c \in T /\ Split(T, c)
    BY <2>2, <2>3, TotalFirst
  <2>5. c # x
    BY <2>2, <2>4
  <2> HIDE DEF c
  <2>6. T \ {c} \notin Bad /\ T \ {x} \notin Bad
    BY <2>1, <2>2, <2>4
  <2>7. Split(T \ {c}, x) /\ Split(T \ {x}, c)
    BY <2>2, <2>3, <2>4, <2>5, <2>6
  <2>8. (T \ {c}) \ {x} = (T \ {x}) \ {c}
    OBVIOUS
  <2>9. r[x] \in Nat /\ r[c] \in Nat /\ Total(r, (T \ {c}) \ {x}) \in Nat
    <3>1. IsFiniteSet((T \ {c}) \ {x}) /\ \A y \in (T \ {c}) \ {x} : r[y] \in Nat
      BY <2>3, FS_Subset
    <3>2. QED BY <2>2, <2>3, <2>4, <3>1, TotalNat
  <2>10. Split(T, x)
    <3> DEFINE m == Total(r, (T \ {c}) \ {x})
    <3>1. Total(r, T) = r[c] + Total(r, T \ {c}) /\ Total(r, T \ {c}) = r[x] + m
      BY <2>4, <2>7
    <3>2. Total(r, T \ {x}) = r[c] + m
      BY <2>7, <2>8
    <3> HIDE DEF m
    <3>3. Total(r, T) = r[c] + (r[x] + m)
      BY <3>1
    <3>4. r[c] + (r[x] + m) = r[x] + (r[c] + m)
      BY <2>9 DEF m
    <3>5. QED BY <3>2, <3>3, <3>4
  <2>11. QED BY <2>2, <2>10
<1>2. S \notin Bad
  BY <1>1
<1>3. QED BY <1>2

(* The counter is the total.  A grow and a shrink move it by what they move  *)
(* the VM's entry; a reap takes the entry off whole, and never saturates.    *)
VramInv == vramUsed = Total(reserved, vms)

LEMMA ReservedTotal ==
  ASSUME TypeOK, NEW S \in SUBSET vms
  PROVE  /\ IsFiniteSet(S) /\ Total(reserved, S) \in Nat
         /\ \A x \in S : reserved[x] \in Nat
<1>1. IsFiniteSet(S)
  BY FiniteLedger, FS_Subset
<1>2. \A x \in S : reserved[x] \in Nat
  BY DEF TypeOK
<1>3. QED BY <1>1, <1>2, TotalNat

LEMMA AdmitVram ==
  ASSUME TypeOK, VramInv, NEW b \in Backends, Admissible(b), Admit(b)
  PROVE  VramInv'
<1> DEFINE v == VmOf[b]
<1>1. /\ v \in Vms /\ v \notin vms /\ vms' = vms \cup {v}
      /\ vramUsed' = vramUsed + Estimate /\ reserved' = [reserved EXCEPT ![v] = Estimate]
  BY BrokerConstants DEF Admissible, Admit
<1> HIDE DEF v
<1>2. reserved'[v] = Estimate /\ Estimate \in Nat /\ \A x \in vms : reserved'[x] = reserved[x]
  BY <1>1, BrokerConstants DEF TypeOK
<1>3. IsFiniteSet(vms') /\ vms' \ {v} = vms /\ v \in vms' /\ \A x \in vms' : reserved'[x] \in Nat
  <2>1. IsFiniteSet(vms')
    BY <1>1, FiniteLedger, FS_AddElement
  <2>2. \A x \in vms : reserved[x] \in Nat
    BY ReservedTotal
  <2>3. QED BY <1>1, <1>2, <2>1, <2>2
<1>4. Total(reserved', vms') = Estimate + Total(reserved', vms)
  BY <1>2, <1>3, TotalSplit
<1>5. Total(reserved', vms) = Total(reserved, vms) /\ Total(reserved, vms) \in Nat
  BY <1>2, ReservedTotal, TotalAgrees
<1>6. QED BY <1>1, <1>2, <1>4, <1>5 DEF VramInv

LEMMA ReleaseVram ==
  ASSUME TypeOK, VramInv, NEW v \in vms, Release(v)
  PROVE  VramInv'
<1>1. /\ v \in Vms /\ vms' = vms \ {v} /\ vramUsed' = Monus(vramUsed, reserved[v])
      /\ reserved' = [reserved EXCEPT ![v] = 0]
  BY DEF Release, TypeOK
<1>2. \A x \in vms' : reserved'[x] = reserved[x]
  BY <1>1 DEF TypeOK
<1>3. vms' \in SUBSET vms
  BY <1>1
<1>4. /\ IsFiniteSet(vms) /\ IsFiniteSet(vms') /\ reserved[v] \in Nat
      /\ Total(reserved, vms') \in Nat /\ \A x \in vms : reserved[x] \in Nat
  BY <1>3, ReservedTotal
<1>5. Total(reserved', vms') = Total(reserved, vms')
  BY <1>2, <1>4, TotalAgrees
<1>6. Total(reserved, vms) = reserved[v] + Total(reserved, vms')
  BY <1>1, <1>4, TotalSplit
<1>7. QED BY <1>1, <1>4, <1>5, <1>6 DEF VramInv, Monus

LEMMA AdjustVramExact ==
  ASSUME TypeOK, VramInv, NEW v \in Vms, NEW want \in Nat, AdjustVram(v, want), vms' = vms
  PROVE  VramInv'
<1>1. CASE UNCHANGED <<vramUsed, reserved>>
  BY <1>1 DEF VramInv
<1>2. CASE /\ v \in vms
           /\ vramUsed' = IF want > reserved[v] THEN vramUsed + (want - reserved[v])
                          ELSE Monus(vramUsed, reserved[v] - want)
           /\ reserved' = [reserved EXCEPT ![v] = want]
  <2> DEFINE rest == vms \ {v}
  <2>1. rest \in SUBSET vms
    OBVIOUS
  <2>2. /\ IsFiniteSet(vms) /\ IsFiniteSet(rest) /\ Total(reserved, rest) \in Nat
        /\ \A x \in vms : reserved[x] \in Nat
    BY <2>1, ReservedTotal
  <2>3. reserved'[v] = want /\ \A x \in rest : reserved'[x] = reserved[x]
    BY <1>2 DEF TypeOK
  <2>4. \A x \in vms : reserved'[x] \in Nat
    BY <2>2, <2>3
  <2>5. Total(reserved, vms) = reserved[v] + Total(reserved, rest)
    BY <1>2, <2>2, TotalSplit
  <2>6. Total(reserved', vms) = reserved'[v] + Total(reserved', rest)
    BY <1>2, <2>2, <2>4, TotalSplit
  <2>7. Total(reserved', rest) = Total(reserved, rest)
    BY <2>2, <2>3, TotalAgrees
  <2> HIDE DEF rest
  <2>8. reserved[v] \in Nat /\ want \in Nat
    BY <1>2, <2>2
  <2>9. vramUsed' = want + Total(reserved, rest)
    BY <1>2, <2>2, <2>5, <2>8 DEF VramInv, Monus
  <2>10. QED BY <2>3, <2>6, <2>7, <2>9 DEF VramInv
<1>3. QED BY <1>1, <1>2 DEF AdjustVram

LEMMA DropVram ==
  ASSUME OwnerInv, VramInv, NEW b \in Backends, DropTicket(b)
  PROVE  VramInv'
<1>1. CASE ticket[b]
  <2>1. VmOf[b] \in vms /\ Release(VmOf[b])
    BY <1>1, BrokerConstants, SMT DEF OwnerInv, TicketsExact, DropTicket
  <2>2. QED BY <2>1, ReleaseVram DEF OwnerInv
<1>2. CASE ~ticket[b]
  BY <1>2 DEF DropTicket, ledger, VramInv
<1>3. QED BY <1>1, <1>2

LEMMA VramStep == OwnerInv /\ VramInv /\ [Next]_vars => VramInv'
<1> SUFFICES ASSUME OwnerInv, VramInv, [Next]_vars PROVE VramInv'
  OBVIOUS
<1>1. ASSUME UNCHANGED ledger PROVE VramInv'
  BY <1>1 DEF ledger, VramInv
<1>2. ASSUME NEW b \in Backends, EnsureAdmitted(b) PROVE VramInv'
  <2>1. CASE Admissible(b)
    BY <1>2, <2>1, AdmitVram DEF EnsureAdmitted, OwnerInv
  <2>2. CASE ~Admissible(b)
    BY <1>1, <1>2, <2>2 DEF EnsureAdmitted
  <2>3. QED BY <2>1, <2>2
<1>3. ASSUME NEW b \in Backends, Reset(b) \/ Disconnect(b) PROVE VramInv'
  BY <1>3, DropVram DEF Reset, Disconnect
<1>4. ASSUME NEW b \in Backends, NEW mb \in ScanoutSizes, AccountScanout(b, mb)
      PROVE  VramInv'
  <2>1. VmOf[b] \in Vms /\ Estimate + mb \in Nat
    BY BrokerConstants
  <2>2. QED BY <1>4, <2>1, AdjustVramExact DEF AccountScanout, OwnerInv
<1>5. ASSUME NEW b \in Backends,
             Connect(b) \/ Submit(b) \/ Run(b) \/ TakeRunLock(b)
      PROVE  VramInv'
  BY <1>1, <1>5, Zenon DEF Connect, Submit, Run, Begin, Wake, RenderEnd, Record, TakeRunLock
<1>6. CASE Tick
  BY <1>1, <1>6, Zenon DEF Tick
<1>7. CASE UNCHANGED vars
  BY <1>1, <1>7, Zenon DEF vars
<1>8. QED
  BY <1>2, <1>3, <1>4, <1>5, <1>6, <1>7, Zenon DEF Next, Idle

(* Both counters are what the registered VMs hold (sched/lib.rs:449-549,     *)
(* 681-700): whatever grows, refused grows, shrinks and reaps come in which  *)
(* order, the VRAM counter is the sum of the entries.                        *)
THEOREM LedgerAccounting == Spec => []LedgerExact
<1>1. Init => VramInv
  <2>1. ASSUME Init PROVE VramInv
    <3>1. vms = {} /\ vramUsed = 0 /\ IsFiniteSet({})
      BY <2>1, FS_EmptySet DEF Init
    <3>2. QED BY <3>1, TotalFirst DEF VramInv
  <2>2. QED BY <2>1
<1>2. VramInv /\ SessionsExact => LedgerExact
  BY DEF VramInv, Total, LedgerExact
<1>3. QED BY <1>1, <1>2, VramStep, OwnerInvariant, SessionAccounting, PTL DEF Spec

-----------------------------------------------------------------------------
(* Back-pressure.  The bucket a thread found positive in begin stays so      *)
(* until record: its ticket is the VM's only one, so nobody else debits that *)
(* bucket, and refills never take away.                                      *)

Funded(b) == pc[b] \in {"lock", "render", "record"} => tokens[VmOf[b]] > 0

DebtInv ==
  ThrottleEnabled =>
    /\ \A b \in Backends : Funded(b)
    /\ \A v \in vms : tokens[v] >= 1 - MaxCost

LEMMA DebtInit == Init => DebtInv
BY SMT DEF Init, DebtInv, Funded

LEMMA DebtImplies == OwnerInv /\ DebtInv => BackPressure
BY SMT DEF DebtInv, Funded, BackPressure

LEMMA DropDebt ==
  ASSUME OwnerInv, DebtInv, NEW b \in Backends, DropTicket(b), pc[b] = "idle",
         \A c \in Backends : pc'[c] = pc[c] \/ (c = b /\ pc'[c] = "offline")
  PROVE  DebtInv'
<1>1. CASE ticket[b]
  <2> DEFINE v == VmOf[b]
  <2>1. /\ v \in Vms /\ vms' = vms \ {v}
        /\ tokens' = [tokens EXCEPT ![v] = 0]
    BY <1>1, BrokerConstants, SMT DEF DropTicket, Release
  <2>2. \A w \in Vms : w # v => tokens'[w] = tokens[w]
    BY <2>1, SMT DEF OwnerInv, TypeOK
  <2>3. \A c \in Backends : pc[c] \in {"lock", "render", "record"}
                             => VmOf[c] # v /\ VmOf[c] \in Vms
    BY <1>1, BrokerConstants, SMT DEF OwnerInv, TicketsExact, RunsAdmitted
  <2> HIDE DEF v
  <2>4. \A c \in Backends : Funded(c) => Funded(c)'
    BY <2>2, <2>3, SMT DEF Funded
  <2>5. vms \subseteq Vms
    BY DEF OwnerInv, TypeOK
  <2>6. QED BY <2>1, <2>2, <2>4, <2>5, SMT DEF DebtInv
<1>2. CASE ~ticket[b]
  <2>1. UNCHANGED <<vms, tokens>>
    BY <1>2, Zenon DEF DropTicket, ledger, buckets
  <2>2. QED BY <2>1, SMT DEF DebtInv, Funded
<1>3. QED BY <1>1, <1>2

LEMMA DebtStep == OwnerInv /\ DebtInv /\ [Next]_vars => DebtInv'
<1> SUFFICES ASSUME OwnerInv, DebtInv, [Next]_vars PROVE DebtInv'
  OBVIOUS
<1> USE DEF Goto, ledger, buckets, thread
<1>1. TypeOK /\ vms \subseteq Vms /\ \A b \in Backends : VmOf[b] \in Vms
  BY BrokerConstants, SMT DEF OwnerInv, TypeOK
<1>2. ASSUME NEW b \in Backends, EnsureAdmitted(b) PROVE DebtInv'
  <2>1. CASE Admissible(b)
    <3>1. /\ VmOf[b] \notin vms /\ vms' = vms \cup {VmOf[b]} /\ UNCHANGED pc
          /\ tokens' = [tokens EXCEPT ![VmOf[b]] = Burst]
      BY <1>2, <2>1, Zenon DEF EnsureAdmitted, Admissible, Admit
    <3>2. \A w \in Vms : tokens'[w] = IF w = VmOf[b] THEN Burst ELSE tokens[w]
      BY <3>1, <1>1, SMT DEF TypeOK
    <3>3. QED BY <1>1, <3>1, <3>2, BrokerConstants, SMT DEF DebtInv, Funded, Positive
  <2>2. CASE ~Admissible(b)
    BY <1>2, <2>2, SMT DEF EnsureAdmitted, DebtInv, Funded
  <2>3. QED BY <2>1, <2>2
<1>3. ASSUME NEW b \in Backends, Reset(b) PROVE DebtInv'
  <2>1. DropTicket(b) /\ pc[b] = "idle" /\ UNCHANGED pc
    BY <1>3, Zenon DEF Reset
  <2>2. QED BY <2>1, DropDebt, Zenon
<1>4. ASSUME NEW b \in Backends, Disconnect(b) PROVE DebtInv'
  <2>1. DropTicket(b) /\ pc[b] = "idle" /\ pc' = [pc EXCEPT ![b] = "offline"]
    BY <1>4, Zenon DEF Disconnect
  <2>2. \A c \in Backends : pc'[c] = pc[c] \/ (c = b /\ pc'[c] = "offline")
    BY <1>1, <2>1, SMT DEF TypeOK
  <2>3. QED BY <2>1, <2>2, DropDebt, Zenon
<1>5. ASSUME NEW b \in Backends, Begin(b) PROVE DebtInv'
  <2> DEFINE v == VmOf[b]
  <2>1. CASE v \notin vms
    BY <1>1, <1>5, <2>1, SMT DEF Begin, DebtInv, Funded, TypeOK
  <2>2. CASE v \in vms
    <3>1. /\ tokens' = [tokens EXCEPT ![v] = Refilled(v)] /\ UNCHANGED vms
          /\ pc' = [pc EXCEPT ![b] = IF Ready(v) THEN "lock" ELSE "nap"]
      BY <1>5, <2>2, Zenon DEF Begin
    <3>2. /\ Refilled(v) \in Int /\ tokens[v] \in Int /\ Refilled(v) >= tokens[v]
          /\ (ThrottleEnabled => (Ready(v) <=> Refilled(v) > 0))
      BY <1>1, RefillBounds, SMT DEF Ready, TypeOK
    <3> DEFINE level == Refilled(v)
    <3>3. \A w \in Vms : tokens'[w] = IF w = v THEN level ELSE tokens[w]
      BY <1>1, <3>1, SMT DEF TypeOK
    <3>4. \A c \in Backends : pc'[c] = IF c = b THEN (IF Ready(v) THEN "lock" ELSE "nap") ELSE pc[c]
      BY <1>1, <3>1, SMT DEF TypeOK
    <3>5. level \in Int /\ level >= tokens[v] /\ (ThrottleEnabled /\ Ready(v) => level > 0)
      BY <3>2, SMT
    <3> HIDE DEF level, v
    <3>6. v \in Vms /\ v = VmOf[b] /\ \A w \in Vms : tokens[w] \in Int
      BY <1>1 DEF v, TypeOK
    <3>7. ASSUME ThrottleEnabled, NEW c \in Backends PROVE Funded(c)'
      BY <1>1, <3>3, <3>4, <3>5, <3>6, <3>7, SMT DEF DebtInv, Funded
    <3>8. ASSUME ThrottleEnabled, NEW w \in vms PROVE tokens'[w] >= 1 - MaxCost
      <4>1. tokens[w] >= 1 - MaxCost /\ w \in Vms
        BY <1>1, <3>8 DEF DebtInv
      <4>2. tokens'[w] = IF w = v THEN level ELSE tokens[w]
        BY <3>3, <4>1
      <4>3. QED BY <3>5, <3>6, <4>1, <4>2, BrokerConstants, SMT
    <3>9. QED BY <3>1, <3>7, <3>8, Zenon DEF DebtInv
  <2>3. QED BY <2>1, <2>2
<1>6. ASSUME NEW b \in Backends, Record(b) PROVE DebtInv'
  <2> DEFINE v == VmOf[b]
  <2>1. /\ pc[b] = "record" /\ pc' = [pc EXCEPT ![b] = "idle"] /\ UNCHANGED vms
        /\ v \in vms
        /\ tokens' = [tokens EXCEPT ![v] = @ - spent[b]]
    BY <1>6, SMT DEF Record, OwnerInv, RunsAdmitted
  <2>2. \A w \in Vms : tokens'[w] = IF w = v THEN tokens[v] - spent[b] ELSE tokens[w]
    BY <1>1, <2>1, SMT DEF TypeOK
  <2>3. \A c \in Backends : pc'[c] = IF c = b THEN "idle" ELSE pc[c]
    BY <1>1, <2>1, SMT DEF TypeOK
  <2>4. \A c \in Backends : c # b /\ pc[c] \in {"lock", "render", "record"} => VmOf[c] # v
    BY <2>1, SMT DEF OwnerInv, TicketsExact, RunsAdmitted
  <2>5. spent[b] \in 0 .. MaxCost /\ tokens[v] \in Int /\ v = VmOf[b] /\ v \in Vms
    BY <1>1, SMT DEF TypeOK
  <2> HIDE DEF v
  <2>6. ASSUME ThrottleEnabled, NEW c \in Backends PROVE Funded(c)'
    BY <1>1, <2>2, <2>3, <2>4, <2>6, SMT DEF DebtInv, Funded
  <2>7. ThrottleEnabled => tokens[v] > 0
    BY <2>1, <2>5, SMT DEF DebtInv, Funded
  <2>8. QED BY <1>1, <2>1, <2>2, <2>5, <2>6, <2>7, BrokerConstants, SMT DEF DebtInv
<1>7. ASSUME NEW b \in Backends, Connect(b) \/ Submit(b) \/ Wake(b) PROVE DebtInv'
  <2>1. UNCHANGED <<vms, tokens>> /\ \E l \in {"idle", "begin"} : pc' = [pc EXCEPT ![b] = l]
    BY <1>7, Zenon DEF Connect, Submit, Wake
  <2>2. \A c \in Backends : pc'[c] = pc[c] \/ (c = b /\ pc'[c] \in {"idle", "begin"})
    BY <1>1, <2>1, SMT DEF TypeOK
  <2>3. QED BY <2>1, <2>2, SMT DEF DebtInv, Funded
<1>8. ASSUME NEW b \in Backends, TakeRunLock(b) \/ RenderEnd(b) PROVE DebtInv'
  <2>1. /\ UNCHANGED <<vms, tokens>> /\ pc[b] \in {"lock", "render"}
        /\ \E l \in {"render", "record"} : pc' = [pc EXCEPT ![b] = l]
    BY <1>8, Zenon DEF TakeRunLock, RenderEnd
  <2>2. \A c \in Backends : pc'[c] = pc[c] \/ (c = b /\ pc'[c] \in {"render", "record"})
    BY <1>1, <2>1, SMT DEF TypeOK
  <2>3. QED BY <2>1, <2>2, SMT DEF DebtInv, Funded
<1>9. ASSUME NEW b \in Backends, NEW mb \in ScanoutSizes, AccountScanout(b, mb)
      PROVE  DebtInv'
  BY <1>9, SMT DEF AccountScanout, DebtInv, Funded
<1>10. CASE Tick
  BY <1>10, SMT DEF Tick, DebtInv, Funded
<1>11. CASE UNCHANGED vars
  BY <1>11, SMT DEF vars, DebtInv, Funded
<1>12. QED
  BY <1>2, <1>3, <1>4, <1>5, <1>6, <1>7, <1>8, <1>9, <1>10, <1>11, Zenon DEF Next, Idle, Run

(* With the throttle on, no render starts on an empty bucket, and a VM's     *)
(* debt stays below the length of one render, for any weights and any number *)
(* of rivals (sched/lib.rs:551-594).                                         *)
THEOREM ThrottleBackPressure == Spec => []BackPressure
BY DebtInit, DebtStep, DebtImplies, OwnerInvariant, PTL DEF Spec
=============================================================================
