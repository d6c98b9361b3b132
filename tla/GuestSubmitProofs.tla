-------------------------- MODULE GuestSubmitProofs --------------------------
(***************************************************************************)
(* Proofs about the command ring, for every capacity, index width, set of  *)
(* payload locations and number of submissions, and about the Linux driver *)
(* and the server thread that use it.  They use it as CommandRing          *)
(* describes it, for any number of CPUs, attempts, remaps and refusals:    *)
(* what is proved of the ring holds of the driver.  While the device       *)
(* drains, the doorbell retires, payloads arrive intact, an ioctl that     *)
(* returned 0 was executed; and always a CPU waits for its own push.       *)
(***************************************************************************)
EXTENDS GuestSubmit, TLAPS

-----------------------------------------------------------------------------
(* Arithmetic of free-running wrapped indices, as the ring uses it: the u32  *)
(* words hold a count modulo 2^32, a slot is the index modulo the capacity,  *)
(* and an occupancy is a wrapped difference.                                 *)

Positive == Nat \ {0}

(* The quotient and the remainder of an integer.                             *)
LEMMA DivMod ==
  ASSUME NEW M \in Positive, NEW x \in Int
  PROVE  /\ x % M \in 0 .. M - 1
         /\ x \div M \in Int
         /\ x = M * (x \div M) + (x % M)
BY SMT DEF Positive

(* Only one multiple of M lies strictly between -M and M.                    *)
LEMMA NoMultiple ==
  ASSUME NEW M \in Positive, NEW k \in Int, -M < M * k, M * k < M
  PROVE  k = 0
<1>1. CASE k >= 1
  <2>1. M * k >= M BY <1>1, SMT DEF Positive
  <2>2. QED BY <2>1, SMT DEF Positive
<1>2. CASE k <= -1
  <2>1. M * k <= -M BY <1>2, SMT DEF Positive
  <2>2. QED BY <2>1, SMT DEF Positive
<1>3. QED BY <1>1, <1>2, SMT

(* The remainder is the only value in range that differs by a multiple.      *)
LEMMA ModUnique ==
  ASSUME NEW M \in Positive, NEW x \in Int, NEW q \in Int, NEW r \in 0 .. M - 1,
         x = M * q + r
  PROVE  x % M = r
<1> DEFINE d == x \div M
<1>1. d \in Int /\ x % M \in 0 .. M - 1 /\ x = M * d + (x % M)
  BY DivMod
<1>2. M * (d - q) = r - (x % M)
  BY <1>1, SMT DEF Positive
<1>3. d - q = 0
  BY <1>1, <1>2, NoMultiple, SMT DEF Positive
<1>4. QED
  BY <1>1, <1>2, <1>3, SMT DEF Positive

(* A count below the modulus is its own remainder.                           *)
LEMMA ModSmall ==
  ASSUME NEW M \in Positive, NEW x \in 0 .. M - 1
  PROVE  x % M = x
<1>1. x = M * 0 + x BY SMT DEF Positive
<1>2. QED BY <1>1, ModUnique, SMT DEF Positive

(* wrapping_add(1) on the word keeps it the count modulo M.                  *)
LEMMA BumpMod ==
  ASSUME NEW M \in Positive, NEW x \in Nat
  PROVE  ((x % M) + 1) % M = (x + 1) % M
<1> DEFINE q == x \div M  r == ((x % M) + 1) % M  e == ((x % M) + 1) \div M
<1>1. x % M \in 0 .. M - 1 /\ q \in Int /\ x = M * q + (x % M)
  BY DivMod, SMT
<1>2. r \in 0 .. M - 1 /\ e \in Int /\ (x % M) + 1 = M * e + r
  BY <1>1, DivMod, SMT DEF Positive
<1>3. x + 1 = M * (q + e) + r
  BY <1>1, <1>2, SMT DEF Positive
<1> HIDE DEF q, r, e
<1>4. x + 1 \in Int /\ q + e \in Int
  BY <1>1, <1>2, SMT
<1>5. (x + 1) % M = r
  BY <1>2, <1>3, <1>4, ModUnique, Zenon
<1>6. QED BY <1>5 DEF r

(* The slot of a wrapped index is the slot of the count: C divides M.        *)
LEMMA SlotMod ==
  ASSUME NEW M \in Positive, NEW C \in Positive, M % C = 0, NEW x \in Nat
  PROVE  (x % M) % C = x % C
<1> DEFINE q == x \div M  k == M \div C  r == (x % M) % C  e == (x % M) \div C
<1>1. x % M \in 0 .. M - 1 /\ q \in Int /\ x = M * q + (x % M)
  BY DivMod, SMT
<1>2. k \in Int /\ M = C * k
  BY DivMod, SMT DEF Positive
<1>3. r \in 0 .. C - 1 /\ e \in Int /\ x % M = C * e + r
  BY <1>1, DivMod, SMT DEF Positive
<1> HIDE DEF q, k, r, e
<1>4. M * q = C * (k * q)
  BY <1>1, <1>2, SMT DEF Positive
<1>5. k * q \in Int
  BY <1>1, <1>2, SMT
<1>6. x = C * (k * q + e) + r
  BY <1>1, <1>3, <1>4, <1>5, SMT DEF Positive
<1>7. x \in Int /\ k * q + e \in Int
  BY <1>3, <1>5, SMT
<1>8. x % C = r
  BY <1>3, <1>6, <1>7, ModUnique, Zenon
<1>9. QED BY <1>8 DEF r

(* wrapping_sub of two words is the distance of the counts, below a lap.     *)
LEMMA DistanceMod ==
  ASSUME NEW M \in Positive, NEW t \in Nat, NEW h \in Nat, h <= t, t - h < M
  PROVE  ((t % M) - (h % M)) % M = t - h
<1> DEFINE q == t \div M  e == h \div M  a == t % M  b == h % M
<1>1. a \in 0 .. M - 1 /\ q \in Int /\ t = M * q + a
  BY DivMod, SMT
<1>2. b \in 0 .. M - 1 /\ e \in Int /\ h = M * e + b
  BY DivMod, SMT
<1> SUFFICES (a - b) % M = t - h
  OBVIOUS
<1> HIDE DEF q, e, a, b
<1>3. M * (e - q) = M * e - M * q
  BY <1>1, <1>2, SMT DEF Positive
<1>4. M * e \in Int /\ M * q \in Int
  BY <1>1, <1>2, SMT DEF Positive
<1>5. a - b = M * (e - q) + (t - h)
  BY <1>1, <1>2, <1>3, <1>4, SMT DEF Positive
<1>6. t - h \in 0 .. M - 1 /\ a - b \in Int /\ e - q \in Int
  BY <1>1, <1>2, SMT DEF Positive
<1>7. QED
  BY <1>5, <1>6, ModUnique, Zenon

(* Counts less than a capacity apart have different slots.                   *)
LEMMA SlotsDiffer ==
  ASSUME NEW C \in Positive, NEW x \in Nat, NEW y \in Nat, x < y, y - x < C
  PROVE  x % C # y % C
<1> SUFFICES ASSUME x % C = y % C PROVE FALSE
  OBVIOUS
<1> DEFINE q == x \div C  e == y \div C
<1>1. q \in Int /\ x % C \in 0 .. C - 1 /\ x = C * q + (x % C)
  BY DivMod, SMT
<1>2. e \in Int /\ y = C * e + (y % C)
  BY DivMod, SMT
<1> HIDE DEF q, e
<1>3. C * (e - q) = y - x
  BY <1>1, <1>2, SMT DEF Positive
<1>4. e - q = 0
  BY <1>1, <1>2, <1>3, NoMultiple, SMT DEF Positive
<1>5. QED BY <1>1, <1>3, <1>4, SMT DEF Positive

-----------------------------------------------------------------------------
(* The constants as the arithmetic lemmas want them.                         *)
LEMMA Constants ==
  /\ Cap \in Positive /\ IndexMod \in Positive
  /\ Cap < IndexMod /\ IndexMod % Cap = 0
  /\ NoDesc \in Desc
BY RingAssumption, SMT DEF RingAssumption, Positive, NoDesc, Desc

LEMMA SlotInRange == ASSUME NEW n \in Nat PROVE SlotOf(n) \in 0 .. Cap - 1
BY Constants, DivMod, SMT DEF SlotOf

LEMMA BumpInRange == ASSUME NEW n \in Nat PROVE Bump(n) \in 0 .. IndexMod - 1
BY Constants, DivMod, SMT DEF Bump

(* A slot is read as a whole and within the drain's bound.                   *)
DrainShape ==
  /\ cons = "read" => taken < Cap
  /\ cons = "free" => batch # << >>
  /\ cons = "idle" => batch = << >>

(* Types alone are not inductive: taken stays within the capacity because a  *)
(* read was begun below the batch bound.                                     *)
TypeInv == TypeOK /\ DrainShape

LEMMA TypeInit == Init => TypeInv
BY Constants, RingAssumption, SMT
   DEF Init, TypeInv, TypeOK, DrainShape, RingAssumption, Positive, Desc, NoDesc

LEMMA TypeStep == TypeInv /\ [Next]_vars => TypeInv'
<1> SUFFICES ASSUME TypeInv, [Next]_vars PROVE TypeInv'
  OBVIOUS
<1> USE DEF TypeInv, TypeOK, DrainShape, prodVars, consVars
<1>1. ASSUME NEW a \in Addrs, PushBegin(a) PROVE TypeInv'
  BY <1>1, SMT DEF PushBegin
<1>2. CASE PushWrite
  <2>1. SeqnoAt(tail) \in Nat
    BY BumpInRange, SMT DEF SeqnoAt
  <2>2. [seqno |-> SeqnoAt(tail), addr |-> item] \in Desc
    BY <2>1 DEF Desc
  <2>3. slots' \in [0 .. Cap - 1 -> Desc]
    BY <1>2, <2>2, Zenon DEF PushWrite
  <2>4. QED BY <1>2, <2>1, <2>3, SMT DEF PushWrite
<1>3. CASE PushPublish
  <2>1. Bump(tail) \in 0 .. IndexMod - 1
    BY BumpInRange, SMT
  <2>2. [seqno |-> SeqnoAt(tail), addr |-> item] \in Desc
    BY <2>1, SMT DEF SeqnoAt, Desc
  <2>3. published' \in Seq(Desc)
    BY <1>3, <2>2, SMT DEF PushPublish
  <2>4. QED BY <1>3, <2>1, <2>3, SMT DEF PushPublish
<1>4. CASE PushDoorbell BY <1>4, SMT DEF PushDoorbell
<1>5. CASE Nudge BY <1>5, SMT DEF Nudge
<1>6. CASE DrainBegin BY <1>6, RingAssumption, SMT DEF DrainBegin, RingAssumption
<1>7. CASE DrainRefused BY <1>7, SMT DEF DrainRefused
<1>8. CASE PopBegin BY <1>8, SMT DEF PopBegin, BatchBound
<1>9. CASE PopRead
  <2> DEFINE d == slots[SlotOf(head)]
  <2>1. d \in Desc
    BY SlotInRange, SMT
  <2>2. batch' \in Seq(Desc) /\ batch' # << >>
    BY <1>9, <2>1, SMT DEF PopRead
  <2>3. d.seqno \in Nat
    BY <2>1 DEF Desc
  <2>4. highest' \in Nat
    BY <1>9, <2>3, SMT DEF PopRead, MaxOf
  <2>5. taken' \in 0 .. Cap
    BY <1>9, Constants, SMT DEF PopRead, Positive
  <2>6. QED BY <1>9, <2>2, <2>4, <2>5, SMT DEF PopRead
<1>10. CASE PopFree
  <2>1. Bump(head) \in 0 .. IndexMod - 1
    BY BumpInRange, SMT
  <2>2. QED BY <1>10, <2>1, SMT DEF PopFree
<1>11. CASE PopEnd BY <1>11, SMT DEF PopEnd
<1>12. CASE Execute BY <1>12, SMT DEF Execute
<1>13. CASE Retire BY <1>13, SMT DEF Retire
<1>14. CASE UNCHANGED vars BY <1>14, SMT DEF vars
<1>15. QED
  BY <1>1, <1>2, <1>3, <1>4, <1>5, <1>6, <1>7, <1>8, <1>9, <1>10, <1>11,
     <1>12, <1>13, <1>14 DEF Next, Producer, Drain

(* Type correctness of the ring, its driver and its drain.                   *)
THEOREM TypeCorrect == Spec => []TypeOK
<1>1. TypeInv => TypeOK BY DEF TypeInv
<1>2. QED BY TypeInit, TypeStep, <1>1, PTL DEF Spec
-----------------------------------------------------------------------------
(* The inductive invariant behind the safety of the ring: the wrapped words  *)
(* stand for two counts, the slots between the counts hold exactly the       *)
(* published descriptors not yet popped, and everything popped is a prefix   *)
(* of everything published.                                                  *)

\* How many descriptors the consumer has given back to the producer.
Popped == Len(executed) + Len(batch) - (IF cons = "free" THEN 1 ELSE 0)

IndexInv ==
  /\ tail = Len(published) % IndexMod
  /\ head = Popped % IndexMod
  /\ Popped \in 0 .. Len(published)
  /\ Len(published) - Popped <= Cap
  /\ prod \in {"write", "publish"} => Len(published) - Popped < Cap
  /\ cons \in {"read", "free"} => Popped < Len(published)

SlotInv ==
  /\ \A n \in Popped .. Len(published) - 1 : slots[n % Cap] = published[n + 1]
  /\ prod = "publish" =>
       slots[SlotOf(tail)] = [seqno |-> SeqnoAt(tail), addr |-> item]

PrefixInv ==
  /\ \A i \in 1 .. Len(executed) : executed[i] = published[i]
  /\ \A i \in 1 .. Len(batch) : batch[i] = published[Len(executed) + i]

RingInv == TypeInv /\ IndexInv /\ SlotInv /\ PrefixInv

LEMMA RingInit == Init => RingInv
<1> SUFFICES ASSUME Init PROVE RingInv
  OBVIOUS
<1>1. TypeInv BY TypeInit
<1>2. 0 % IndexMod = 0 BY Constants, ModSmall, SMT DEF Positive
<1>3. Popped = 0 BY SMT DEF Init, Popped
<1>4. Len(published) = 0 BY SMT DEF Init
<1>5. IndexInv BY <1>2, <1>3, <1>4, Constants, SMT DEF Init, IndexInv, Positive
<1>6. SlotInv BY <1>3, <1>4, SMT DEF Init, SlotInv
<1>7. PrefixInv BY SMT DEF Init, PrefixInv
<1>8. QED BY <1>1, <1>5, <1>6, <1>7 DEF RingInv

(* The slot a word designates is the slot of the count it stands for.        *)
LEMMA TailSlot ==
  ASSUME RingInv PROVE SlotOf(tail) = Len(published) % Cap
<1>1. Len(published) \in Nat BY SMT DEF RingInv, TypeInv, TypeOK
<1>2. QED BY <1>1, Constants, SlotMod DEF RingInv, IndexInv, SlotOf

LEMMA HeadSlot ==
  ASSUME RingInv PROVE SlotOf(head) = Popped % Cap
<1>1. Popped \in Nat BY SMT DEF RingInv, IndexInv
<1>2. QED BY <1>1, Constants, SlotMod DEF RingInv, IndexInv, SlotOf

(* The wrapped difference of the words is the number of occupied slots.      *)
LEMMA Occupancy ==
  ASSUME RingInv PROVE Distance(tail, head) = Len(published) - Popped
<1>1. /\ published \in Seq(Desc) /\ Popped \in 0 .. Len(published)
      /\ Len(published) - Popped <= Cap
  BY DEF RingInv, IndexInv, TypeInv, TypeOK
<1>2. Len(published) \in Nat
  BY <1>1, SMT
<1>3. /\ Popped \in Nat /\ Popped <= Len(published)
      /\ Len(published) - Popped < IndexMod
  BY <1>1, <1>2, Constants, SMT DEF Positive
<1>4. QED BY <1>2, <1>3, Constants, DistanceMod DEF RingInv, IndexInv, Distance

(* The words are equal exactly when the ring is empty.                       *)
LEMMA EmptyWords ==
  ASSUME RingInv, head # tail PROVE Popped < Len(published)
BY SMT DEF RingInv, IndexInv
(* An action that moves no descriptor keeps the three counts in step.        *)
LEMMA QuietStep ==
  ASSUME RingInv, TypeInv',
         UNCHANGED <<tail, head, slots, batch, executed, published, item>>,
         cons = "free" <=> cons' = "free",
         prod' \in {"write", "publish"} => Len(published) - Popped < Cap,
         prod' = "publish" => prod = "publish",
         cons' \in {"read", "free"} => Popped < Len(published)
  PROVE  RingInv'
<1>1. Popped' = Popped
  BY Zenon DEF Popped
<1>2. IndexInv' BY <1>1, Zenon DEF RingInv, IndexInv
<1>3. SlotInv' BY <1>1, Zenon DEF RingInv, SlotInv, SeqnoAt, SlotOf, Bump
<1>4. PrefixInv' BY Zenon DEF RingInv, PrefixInv
<1>5. QED BY <1>2, <1>3, <1>4 DEF RingInv

LEMMA PushBeginStep ==
  ASSUME RingInv, TypeInv', NEW a \in Addrs, PushBegin(a) PROVE RingInv'
<1>1. Len(published) - Popped < Cap
  <2>1. published \in Seq(Desc) /\ Popped \in 0 .. Len(published)
    BY DEF RingInv, IndexInv, TypeInv, TypeOK
  <2>2. QED BY <2>1, Occupancy, Constants, SMT DEF PushBegin, RingFull, Positive
<1>2. Popped' = Popped BY Zenon DEF Popped, PushBegin, consVars
<1>3. IndexInv'
  BY <1>1, <1>2, Zenon DEF RingInv, IndexInv, PushBegin, consVars
<1>4. SlotInv'
  BY <1>2, SMT DEF RingInv, SlotInv, PushBegin, consVars
<1>5. PrefixInv' BY Zenon DEF RingInv, PrefixInv, PushBegin, consVars
<1>6. QED BY <1>3, <1>4, <1>5 DEF RingInv

LEMMA PushWriteStep ==
  ASSUME RingInv, TypeInv', PushWrite PROVE RingInv'
<1>1. Popped' = Popped BY Zenon DEF Popped, PushWrite, consVars
<1>2. /\ published \in Seq(Desc) /\ Popped \in 0 .. Len(published)
      /\ Len(published) - Popped < Cap
      /\ slots \in [0 .. Cap - 1 -> Desc]
  BY Zenon DEF RingInv, IndexInv, TypeInv, TypeOK, PushWrite
<1>3. SlotOf(tail) = Len(published) % Cap
  BY TailSlot
<1>4. IndexInv'
  <2>1. prod = "write" BY DEF PushWrite
  <2>2. QED
    BY <1>1, <2>1, Zenon DEF RingInv, IndexInv, PushWrite, consVars
<1>5. ASSUME NEW n \in Popped .. Len(published) - 1
      PROVE  slots'[n % Cap] = published[n + 1]
  <2>1. Len(published) \in Nat /\ n \in Nat /\ n < Len(published)
        /\ Len(published) - n < Cap
    BY <1>2, Constants, SMT DEF Positive
  <2>2. n % Cap # Len(published) % Cap
    BY <2>1, Constants, SlotsDiffer
  <2>3. slots[n % Cap] = published[n + 1]
    BY DEF RingInv, SlotInv
  <2>4. n % Cap \in 0 .. Cap - 1
    BY <2>1, Constants, DivMod, SMT
  <2>5. QED BY <1>2, <1>3, <2>2, <2>3, <2>4, SMT DEF PushWrite
<1>6. slots'[SlotOf(tail)] = [seqno |-> SeqnoAt(tail), addr |-> item]
  <2>1. SlotOf(tail) \in 0 .. Cap - 1
    BY SlotInRange, SMT DEF RingInv, TypeInv, TypeOK
  <2>2. QED BY <1>2, <2>1, Zenon DEF PushWrite
<1>7. tail' = tail /\ item' = item /\ published' = published
  BY DEF PushWrite
<1>8. SlotInv'
  BY <1>1, <1>5, <1>6, <1>7, Zenon DEF SlotInv, SeqnoAt, SlotOf, Bump
<1>9. PrefixInv' BY Zenon DEF RingInv, PrefixInv, PushWrite, consVars
<1>10. QED BY <1>4, <1>8, <1>9 DEF RingInv

LEMMA PushPublishStep ==
  ASSUME RingInv, TypeInv', PushPublish PROVE RingInv'
<1> DEFINE d == [seqno |-> SeqnoAt(tail), addr |-> item]
<1>1. Popped' = Popped BY Zenon DEF Popped, PushPublish, consVars
<1>2. /\ published \in Seq(Desc) /\ Popped \in 0 .. Len(published)
      /\ Len(published) - Popped < Cap
      /\ published' \in Seq(Desc)
      /\ batch \in Seq(Desc) /\ executed \in Seq(Desc)
  BY Zenon DEF RingInv, IndexInv, TypeInv, TypeOK, PushPublish
<1>3. published' = Append(published, d)
  BY DEF PushPublish
<1> HIDE DEF d
<1>4. Len(published') = Len(published) + 1 /\ Len(published) \in Nat
  BY <1>2, <1>3, SMT
<1>5. \A i \in 1 .. Len(published) : published'[i] = published[i]
  BY <1>2, <1>3, SMT
<1>6. published'[Len(published) + 1] = d
  BY <1>2, <1>3, SMT
<1>7. tail' = Len(published') % IndexMod
  <2>1. tail = Len(published) % IndexMod /\ tail' = (tail + 1) % IndexMod
    BY DEF RingInv, IndexInv, PushPublish, Bump
  <2>2. QED BY <2>1, <1>4, BumpMod, Constants
<1>8. IndexInv'
  <2>1. head' = head /\ head = Popped % IndexMod
    BY Zenon DEF RingInv, IndexInv, PushPublish, consVars
  <2>2. prod' = "ring" /\ cons' = cons
    BY DEF PushPublish, consVars
  <2>3. cons \in {"read", "free"} => Popped < Len(published)
    BY DEF RingInv, IndexInv
  <2>4. Popped' \in 0 .. Len(published') /\ Len(published') - Popped' <= Cap
    BY <1>1, <1>2, <1>4, Constants, SMT DEF Positive
  <2>5. cons \in {"read", "free"} => Popped < Len(published')
    BY <1>2, <1>4, <2>3, SMT
  <2>6. QED BY <1>1, <1>7, <2>1, <2>2, <2>4, <2>5, SMT DEF IndexInv
<1>9. ASSUME NEW n \in Popped .. Len(published') - 1
      PROVE  slots[n % Cap] = published'[n + 1]
  <2>1. CASE n = Len(published)
    BY <2>1, <1>6, TailSlot, Zenon DEF RingInv, SlotInv, PushPublish, d
  <2>2. CASE n # Len(published)
    <3>1. n \in Popped .. Len(published) - 1 /\ n + 1 \in 1 .. Len(published)
      BY <1>2, <1>4, <2>2, SMT
    <3>2. QED BY <3>1, <1>5, Zenon DEF RingInv, SlotInv
  <2>3. QED BY <2>1, <2>2
<1>10. SlotInv'
  <2>1. slots' = slots /\ prod' = "ring"
    BY DEF PushPublish
  <2>2. prod' # "publish"
    BY <2>1
  <2>3. QED BY <1>1, <1>9, <2>1, <2>2, Zenon DEF SlotInv
<1>11. PrefixInv'
  <2>1. Popped \in Int /\ Len(batch) \in Nat /\ Len(executed) \in Nat
    BY <1>2, SMT
  <2>2. cons = "free" => Popped < Len(published)
    BY DEF RingInv, IndexInv
  <2>3. Len(executed) + Len(batch) <= Len(published)
    BY <1>2, <1>4, <2>1, <2>2, SMT DEF Popped
  <2>4. executed' = executed /\ batch' = batch
    BY DEF PushPublish, consVars
  <2>5. ASSUME NEW i \in 1 .. Len(executed) PROVE executed[i] = published'[i]
    <3>1. i \in 1 .. Len(published) BY <1>4, <2>1, <2>3, SMT
    <3>2. QED BY <3>1, <1>5 DEF RingInv, PrefixInv
  <2>6. ASSUME NEW i \in 1 .. Len(batch)
        PROVE  batch[i] = published'[Len(executed) + i]
    <3>1. Len(executed) + i \in 1 .. Len(published)
      BY <1>4, <2>1, <2>3, SMT
    <3>2. QED BY <3>1, <1>5 DEF RingInv, PrefixInv
  <2>7. QED BY <2>4, <2>5, <2>6 DEF PrefixInv
<1>12. QED BY <1>8, <1>10, <1>11 DEF RingInv
LEMMA PopReadStep ==
  ASSUME RingInv, TypeInv', PopRead PROVE RingInv'
<1> DEFINE d == slots[SlotOf(head)]
<1>1. /\ published \in Seq(Desc) /\ Popped \in 0 .. Len(published)
      /\ batch \in Seq(Desc) /\ executed \in Seq(Desc)
      /\ Popped < Len(published)
  BY Zenon DEF RingInv, IndexInv, TypeInv, TypeOK, PopRead
<1>2. Popped = Len(executed) + Len(batch)
  BY <1>1, SMT DEF Popped, PopRead
<1>3. batch' = Append(batch, d) /\ executed' = executed
  BY DEF PopRead
<1>4. d = published[Popped + 1]
  <2>1. d = slots[Popped % Cap]
    BY HeadSlot
  <2>2. Len(published) \in Nat
    BY <1>1, SMT
  <2>3. Popped \in Popped .. Len(published) - 1
    BY <1>1, <2>2, SMT
  <2>4. QED BY <2>1, <2>3 DEF RingInv, SlotInv
<1> HIDE DEF d
<1>5. Len(batch') = Len(batch) + 1 /\ Len(batch) \in Nat /\ Len(executed) \in Nat
  BY <1>1, <1>3, SMT
<1>6. Popped' = Popped
  BY <1>2, <1>3, <1>5, SMT DEF Popped, PopRead
<1>7. IndexInv'
  BY <1>6, Zenon DEF RingInv, IndexInv, PopRead, prodVars
<1>8. SlotInv'
  BY <1>6, Zenon DEF RingInv, SlotInv, PopRead, prodVars, SlotOf, SeqnoAt, Bump
<1>9. PrefixInv'
  <2>1. ASSUME NEW i \in 1 .. Len(batch')
        PROVE  batch'[i] = published[Len(executed) + i]
    <3>1. CASE i = Len(batch) + 1
      <4>1. Len(executed) + i = Popped + 1
        BY <1>2, <1>5, <3>1, SMT
      <4>2. batch'[i] = d
        BY <1>1, <1>3, <3>1, SMT
      <4>3. QED BY <4>1, <4>2, <1>4
    <3>2. CASE i # Len(batch) + 1
      <4>1. i \in 1 .. Len(batch)
        BY <1>5, <3>2, SMT
      <4>2. batch'[i] = batch[i]
        BY <1>1, <1>3, <4>1, SMT
      <4>3. QED BY <4>1, <4>2 DEF RingInv, PrefixInv
    <3>3. QED BY <3>1, <3>2
  <2>2. published' = published
    BY DEF PopRead, prodVars
  <2>3. QED BY <1>3, <2>1, <2>2, Zenon DEF RingInv, PrefixInv
<1>10. QED BY <1>7, <1>8, <1>9 DEF RingInv

LEMMA PopFreeStep ==
  ASSUME RingInv, TypeInv', PopFree PROVE RingInv'
<1>1. /\ published \in Seq(Desc) /\ Popped \in 0 .. Len(published)
      /\ batch \in Seq(Desc) /\ executed \in Seq(Desc)
      /\ Popped < Len(published) /\ Len(published) - Popped <= Cap
  BY Zenon DEF RingInv, IndexInv, TypeInv, TypeOK, PopFree
<1>2. Len(published) \in Nat /\ Len(batch) \in Nat /\ Len(executed) \in Nat
  BY <1>1, SMT
<1>3. Popped' = Popped + 1
  BY <1>2, SMT DEF Popped, PopFree
<1>4. UNCHANGED <<tail, slots, batch, executed, published, item, prod>>
  BY DEF PopFree, prodVars
<1>5. head' = Popped' % IndexMod
  <2>1. head = Popped % IndexMod /\ head' = (head + 1) % IndexMod
    BY DEF RingInv, IndexInv, PopFree, Bump
  <2>2. Popped \in Nat
    BY <1>1, SMT
  <2>3. QED BY <1>3, <2>1, <2>2, BumpMod, Constants
<1>6. IndexInv'
  <2>1. cons' = "pop"
    BY DEF PopFree
  <2>2. tail = Len(published) % IndexMod
    BY DEF RingInv, IndexInv
  <2>3. prod \in {"write", "publish"} => Len(published) - Popped < Cap
    BY DEF RingInv, IndexInv
  <2>4. /\ Popped' \in 0 .. Len(published) /\ Len(published) - Popped' <= Cap
        /\ prod \in {"write", "publish"} => Len(published) - Popped' < Cap
    BY <1>1, <1>2, <1>3, <2>3, Constants, SMT DEF Positive
  <2>5. cons' \notin {"read", "free"}
    BY <2>1
  <2>6. QED BY <1>4, <1>5, <2>2, <2>4, <2>5, Zenon DEF IndexInv
<1>7. SlotInv'
  <2>1. ASSUME NEW n \in Popped' .. Len(published) - 1
        PROVE  slots[n % Cap] = published[n + 1]
    <3>1. n \in Popped .. Len(published) - 1
      BY <1>1, <1>2, <1>3, SMT
    <3>2. QED BY <3>1 DEF RingInv, SlotInv
  <2>2. QED BY <1>4, <2>1, Zenon DEF RingInv, SlotInv, SlotOf, SeqnoAt, Bump
<1>8. PrefixInv' BY <1>4, Zenon DEF RingInv, PrefixInv
<1>9. QED BY <1>6, <1>7, <1>8 DEF RingInv

LEMMA ExecuteStep ==
  ASSUME RingInv, TypeInv', Execute PROVE RingInv'
<1>1. /\ batch \in Seq(Desc) /\ executed \in Seq(Desc) /\ batch # << >>
      /\ executed' = Append(executed, Head(batch)) /\ batch' = Tail(batch)
  BY DEF RingInv, TypeInv, TypeOK, Execute
<1>2. /\ Len(batch) \in Nat /\ Len(executed) \in Nat /\ Len(batch) > 0
      /\ Len(executed') = Len(executed) + 1 /\ Len(batch') = Len(batch) - 1
  BY <1>1, SMT
<1>3. UNCHANGED <<tail, head, slots, published, item, prod, cons>> /\ cons = "exec"
  BY DEF Execute, prodVars
<1>4. Popped' = Popped
  BY <1>2, <1>3, SMT DEF Popped
<1>5. IndexInv' BY <1>3, <1>4, Zenon DEF RingInv, IndexInv
<1>6. SlotInv' BY <1>3, <1>4, Zenon DEF RingInv, SlotInv, SlotOf, SeqnoAt, Bump
<1>7. ASSUME NEW i \in 1 .. Len(executed') PROVE executed'[i] = published[i]
  <2>1. CASE i = Len(executed) + 1
    <3>1. executed'[i] = batch[1]
      BY <1>1, <1>2, <2>1, SMT
    <3>2. 1 \in 1 .. Len(batch)
      BY <1>2, SMT
    <3>3. batch[1] = published[Len(executed) + 1]
      BY <3>2 DEF RingInv, PrefixInv
    <3>4. QED BY <2>1, <3>1, <3>3
  <2>2. CASE i # Len(executed) + 1
    <3>1. i \in 1 .. Len(executed)
      BY <1>2, <2>2, SMT
    <3>2. executed'[i] = executed[i]
      BY <1>1, <3>1, SMT
    <3>3. QED BY <3>1, <3>2 DEF RingInv, PrefixInv
  <2>3. QED BY <2>1, <2>2
<1>8. ASSUME NEW i \in 1 .. Len(batch')
      PROVE  batch'[i] = published[Len(executed') + i]
  <2>1. i + 1 \in 1 .. Len(batch) /\ batch'[i] = batch[i + 1]
    BY <1>1, <1>2, SMT
  <2>2. batch[i + 1] = published[Len(executed) + (i + 1)]
    BY <2>1 DEF RingInv, PrefixInv
  <2>3. Len(executed') + i = Len(executed) + (i + 1)
    BY <1>2, SMT
  <2>4. QED BY <2>1, <2>2, <2>3
<1>9. PrefixInv' BY <1>3, <1>7, <1>8, Zenon DEF PrefixInv
<1>10. QED BY <1>5, <1>6, <1>9 DEF RingInv

LEMMA RingStep == RingInv /\ [Next]_vars => RingInv'
<1> SUFFICES ASSUME RingInv, [Next]_vars PROVE RingInv'
  OBVIOUS
<1> USE DEF prodVars, consVars
<1>0. TypeInv' BY TypeStep DEF RingInv
<1>1. /\ cons \in {"read", "free"} => Popped < Len(published)
      /\ prod \in {"write", "publish"} => Len(published) - Popped < Cap
      /\ cons = "idle" => batch = << >>
  BY DEF RingInv, IndexInv, TypeInv, DrainShape
<1>2. ASSUME NEW a \in Addrs, PushBegin(a) PROVE RingInv'
  BY <1>0, <1>2, PushBeginStep
<1>3. CASE PushWrite BY <1>0, <1>3, PushWriteStep
<1>4. CASE PushPublish BY <1>0, <1>4, PushPublishStep
<1>5. CASE PushDoorbell BY <1>0, <1>1, <1>5, QuietStep, Zenon DEF PushDoorbell
<1>6. CASE Nudge BY <1>0, <1>1, <1>6, QuietStep, Zenon DEF Nudge
<1>7. CASE DrainBegin BY <1>0, <1>1, <1>7, QuietStep, SMT DEF DrainBegin
<1>8. CASE DrainRefused BY <1>0, <1>1, <1>8, QuietStep, Zenon DEF DrainRefused
<1>9. CASE PopBegin BY <1>0, <1>1, <1>9, QuietStep, EmptyWords, SMT DEF PopBegin
<1>10. CASE PopRead BY <1>0, <1>10, PopReadStep
<1>11. CASE PopFree BY <1>0, <1>11, PopFreeStep
<1>12. CASE PopEnd BY <1>0, <1>1, <1>12, QuietStep, SMT DEF PopEnd
<1>13. CASE Execute BY <1>0, <1>13, ExecuteStep
<1>14. CASE Retire BY <1>0, <1>1, <1>14, QuietStep, SMT DEF Retire
<1>15. CASE UNCHANGED vars BY <1>0, <1>1, <1>15, QuietStep, Zenon DEF vars
<1>16. QED
  BY <1>2, <1>3, <1>4, <1>5, <1>6, <1>7, <1>8, <1>9, <1>10, <1>11, <1>12,
     <1>13, <1>14, <1>15 DEF Next, Producer, Drain

LEMMA RingInvariant == Spec => []RingInv
BY RingInit, RingStep, PTL DEF Spec

(* The slot being written is never the slot being read: while a write is in  *)
(* progress fewer than Cap slots are occupied, so the two counts differ by   *)
(* less than Cap and are not equal.                                          *)
THEOREM SlotRaceFreedom == Spec => []NoSlotRace
<1>1. ASSUME RingInv PROVE NoSlotRace
  <2> SUFFICES ASSUME prod = "write", cons = "read", SlotOf(tail) = SlotOf(head)
               PROVE  FALSE
    BY DEF NoSlotRace
  <2>1. /\ published \in Seq(Desc) /\ Popped \in 0 .. Len(published)
        /\ Popped < Len(published) /\ Len(published) - Popped < Cap
    BY <1>1 DEF RingInv, IndexInv, TypeInv, TypeOK
  <2>2. Len(published) \in Nat /\ Popped \in Nat
    BY <2>1, SMT
  <2>3. Popped % Cap # Len(published) % Cap
    BY <2>1, <2>2, SlotsDiffer, Constants
  <2>4. QED BY <1>1, <2>3, TailSlot, HeadSlot
<1>2. QED BY <1>1, RingInvariant, PTL

(* No submission is lost, duplicated, reordered or torn, whatever the order  *)
(* in which driver and device run and however often the indices wrap.        *)
THEOREM InOrderExecution == Spec => []ExecutedInOrder
<1>1. ASSUME RingInv PROVE ExecutedInOrder
  <2> DEFINE got == executed \o batch
  <2>1. /\ published \in Seq(Desc) /\ batch \in Seq(Desc) /\ executed \in Seq(Desc)
        /\ Popped \in 0 .. Len(published)
        /\ cons = "free" => Popped < Len(published)
    BY <1>1 DEF RingInv, IndexInv, TypeInv, TypeOK
  <2>2. Len(got) = Len(executed) + Len(batch) /\ Len(executed) \in Nat
        /\ Len(batch) \in Nat /\ Len(published) \in Nat
    BY <2>1, SMT
  <2>3. Len(got) <= Len(published)
    BY <2>1, <2>2, SMT DEF Popped
  <2>4. ASSUME NEW i \in 1 .. Len(got) PROVE got[i] = published[i]
    <3>1. CASE i <= Len(executed)
      <4>1. i \in 1 .. Len(executed) BY <2>2, <3>1, SMT
      <4>2. got[i] = executed[i] BY <2>1, <4>1, SMT
      <4>3. QED BY <1>1, <4>1, <4>2 DEF RingInv, PrefixInv
    <3>2. CASE i > Len(executed)
      <4>1. i - Len(executed) \in 1 .. Len(batch) BY <2>2, <3>2, SMT
      <4>2. got[i] = batch[i - Len(executed)] BY <2>1, <2>2, <4>1, <3>2, SMT
      <4>3. Len(executed) + (i - Len(executed)) = i BY <2>2, SMT
      <4>4. QED BY <1>1, <4>1, <4>2, <4>3 DEF RingInv, PrefixInv
    <3>3. QED BY <2>2, <3>1, <3>2, SMT
  <2>5. QED BY <2>3, <2>4 DEF ExecutedInOrder
<1>2. QED BY <1>1, RingInvariant, PTL
-----------------------------------------------------------------------------
(* Fences.  A seqno is the count of submissions only while the index words   *)
(* have not wrapped, so everything below is about the first lap.             *)

OneLap == MaxSubmits < IndexMod

SeqnoInv ==
  /\ Len(published) <= MaxSubmits
  /\ prod \in {"write", "publish"} => Len(published) < MaxSubmits
  /\ \A i \in 1 .. Len(published) : published[i].seqno = i

(* The drain's highest seqno counts what it and its predecessors popped, and *)
(* the fence word never exceeds what has been executed.                      *)
RetireInv ==
  /\ cons # "idle" => highest \in {0, Len(executed) + Len(batch)}
  /\ seqno_retired <= Len(executed)

FenceInv == RingInv /\ SeqnoInv /\ RetireInv

LEMMA Lengths ==
  ASSUME TypeInv
  PROVE  Len(published) \in Nat /\ Len(executed) \in Nat /\ Len(batch) \in Nat
BY SMT DEF TypeInv, TypeOK

LEMMA FenceInit == Init => FenceInv
<1> SUFFICES ASSUME Init PROVE FenceInv
  OBVIOUS
<1>1. SeqnoInv BY RingAssumption, SMT DEF Init, SeqnoInv, RingAssumption
<1>2. RetireInv BY SMT DEF Init, RetireInv
<1>3. QED BY <1>1, <1>2, RingInit DEF FenceInv

(* Within a lap both producers stamp the n-th submission with n.             *)
LEMMA SeqnoIsCount ==
  ASSUME OneLap, RingInv, Len(published) < MaxSubmits
  PROVE  SeqnoAt(tail) = Len(published) + 1
<1>1. Len(published) \in Nat /\ MaxSubmits \in Nat /\ IndexMod \in Nat
  BY Lengths, Constants, RingAssumption DEF RingInv, RingAssumption, Positive
<1>2. Len(published) \in 0 .. IndexMod - 1 /\ Len(published) + 1 \in 0 .. IndexMod - 1
  BY <1>1, SMT DEF OneLap
<1>3. Len(published) % IndexMod = Len(published)
      /\ (Len(published) + 1) % IndexMod = Len(published) + 1
  BY <1>2, ModSmall, Constants
<1>4. tail = Len(published)
  BY <1>3 DEF RingInv, IndexInv
<1>5. QED BY <1>3, <1>4 DEF SeqnoAt, Bump

(* Steps that touch neither the published sequence nor the fence words.      *)
LEMMA FenceQuiet ==
  ASSUME FenceInv, RingInv',
         UNCHANGED <<published, executed, batch, seqno_retired>>,
         prod' \in {"write", "publish"} => Len(published) < MaxSubmits,
         cons' # "idle" => highest' \in {0, Len(executed) + Len(batch)}
  PROVE  FenceInv'
BY Zenon DEF FenceInv, SeqnoInv, RetireInv

LEMMA FencePublish ==
  ASSUME OneLap, FenceInv, RingInv', PushPublish PROVE FenceInv'
<1> DEFINE d == [seqno |-> SeqnoAt(tail), addr |-> item]
<1>1. published' = Append(published, d) /\ published \in Seq(Desc)
      /\ published' \in Seq(Desc)
  BY DEF PushPublish, FenceInv, RingInv, TypeInv, TypeOK
<1>2. d.seqno = Len(published) + 1
  BY SeqnoIsCount DEF FenceInv, SeqnoInv, PushPublish
<1>3. UNCHANGED <<executed, batch, seqno_retired, highest, cons>> /\ prod' = "ring"
  BY DEF PushPublish, consVars
<1> HIDE DEF d
<1>4. Len(published) \in Nat /\ Len(published') = Len(published) + 1
  BY <1>1, SMT
<1>5. ASSUME NEW i \in 1 .. Len(published') PROVE published'[i].seqno = i
  <2>1. CASE i = Len(published) + 1
    <3>1. published'[i] = d BY <1>1, <2>1, SMT
    <3>2. QED BY <1>2, <2>1, <3>1
  <2>2. CASE i # Len(published) + 1
    <3>1. i \in 1 .. Len(published) BY <1>4, <2>2, SMT
    <3>2. published'[i] = published[i] BY <1>1, <3>1, SMT
    <3>3. QED BY <3>1, <3>2 DEF FenceInv, SeqnoInv
  <2>3. QED BY <2>1, <2>2
<1>6. Len(published') <= MaxSubmits
  BY <1>4, RingAssumption, SMT DEF FenceInv, SeqnoInv, PushPublish, RingAssumption
<1>7. prod' \notin {"write", "publish"}
  BY <1>3
<1>8. SeqnoInv' BY <1>5, <1>6, <1>7, Zenon DEF SeqnoInv
<1>9. RetireInv' BY <1>3, Zenon DEF FenceInv, RetireInv
<1>10. QED BY <1>8, <1>9 DEF FenceInv

LEMMA FencePopRead ==
  ASSUME FenceInv, RingInv', PopRead PROVE FenceInv'
<1> DEFINE d == slots[SlotOf(head)]
<1>1. /\ batch' = Append(batch, d) /\ highest' = MaxOf(highest, d.seqno)
      /\ cons' = "free" /\ cons = "read"
      /\ UNCHANGED <<published, executed, seqno_retired, prod>>
  BY DEF PopRead, prodVars
<1>2. batch \in Seq(Desc) /\ batch' \in Seq(Desc) /\ highest \in Nat
  BY DEF FenceInv, RingInv, TypeInv, TypeOK
<1> HIDE DEF d
<1>3. Len(batch) \in Nat /\ Len(batch') = Len(batch) + 1 /\ Len(executed) \in Nat
      /\ batch'[Len(batch) + 1] = d /\ Len(published) \in Nat
  BY <1>1, <1>2, Lengths, SMT DEF FenceInv, RingInv
<1>4. d = published[Len(executed) + Len(batch) + 1]
  <2>1. Len(batch) + 1 \in 1 .. Len(batch')
    BY <1>3, SMT
  <2>2. batch'[Len(batch) + 1] = published'[Len(executed') + (Len(batch) + 1)]
    BY <2>1 DEF RingInv, PrefixInv
  <2>3. Len(executed') + (Len(batch) + 1) = Len(executed) + Len(batch) + 1
    BY <1>1, <1>3, SMT
  <2>4. QED BY <1>1, <1>3, <2>2, <2>3
<1>5. d.seqno = Len(executed) + Len(batch) + 1
  <2>1. Popped = Len(executed) + Len(batch) /\ Popped < Len(published)
    BY <1>1, <1>3, SMT DEF FenceInv, RingInv, IndexInv, Popped
  <2>2. Len(executed) + Len(batch) + 1 \in 1 .. Len(published)
    BY <1>3, <2>1, SMT
  <2>3. QED BY <1>4, <2>2 DEF FenceInv, SeqnoInv
<1>6. highest \in {0, Len(executed) + Len(batch)}
  BY <1>1 DEF FenceInv, RetireInv
<1>7. highest' = Len(executed) + Len(batch')
  BY <1>1, <1>2, <1>3, <1>5, <1>6, SMT DEF MaxOf
<1>8. SeqnoInv' BY <1>1, Zenon DEF FenceInv, SeqnoInv
<1>9. RetireInv' BY <1>1, <1>7, Zenon DEF FenceInv, RetireInv
<1>10. QED BY <1>8, <1>9 DEF FenceInv

LEMMA FenceExecute ==
  ASSUME FenceInv, RingInv', Execute PROVE FenceInv'
<1>1. /\ batch \in Seq(Desc) /\ executed \in Seq(Desc) /\ batch # << >>
      /\ executed' = Append(executed, Head(batch)) /\ batch' = Tail(batch)
      /\ UNCHANGED <<published, seqno_retired, highest, cons, prod>>
      /\ seqno_retired \in Nat
  BY DEF FenceInv, RingInv, TypeInv, TypeOK, Execute, prodVars
<1>2. Len(executed) \in Nat /\ Len(executed') = Len(executed) + 1
      /\ Len(batch) \in Nat /\ Len(batch') = Len(batch) - 1
  BY <1>1, SMT
<1>3. Len(executed') + Len(batch') = Len(executed) + Len(batch)
  BY <1>2, SMT
<1>4. seqno_retired' <= Len(executed')
  BY <1>1, <1>2, SMT DEF FenceInv, RetireInv
<1>5. SeqnoInv' BY <1>1, Zenon DEF FenceInv, SeqnoInv
<1>6. RetireInv' BY <1>1, <1>3, <1>4, Zenon DEF FenceInv, RetireInv
<1>7. QED BY <1>5, <1>6 DEF FenceInv

(* A retire only moves the fence word up to what has been executed.          *)
LEMMA RetireRaises ==
  ASSUME FenceInv, Retire
  PROVE  seqno_retired' \in {seqno_retired, Len(executed)}
<1>1. highest \in {0, Len(executed) + Len(batch)} /\ batch = << >>
  BY DEF FenceInv, RetireInv, Retire
<1>2. Len(executed) \in Nat /\ Len(batch) = 0
  BY <1>1, Lengths, SMT DEF FenceInv, RingInv
<1>3. highest \in {0, Len(executed)}
  BY <1>1, <1>2, SMT
<1>4. QED BY <1>3, SMT DEF Retire

LEMMA FenceStep ==
  ASSUME OneLap PROVE FenceInv /\ [Next]_vars => FenceInv'
<1> SUFFICES ASSUME FenceInv, [Next]_vars PROVE FenceInv'
  OBVIOUS
<1> USE DEF prodVars, consVars
<1>0. RingInv' BY RingStep DEF FenceInv
<1>1. /\ prod \in {"write", "publish"} => Len(published) < MaxSubmits
      /\ cons # "idle" => highest \in {0, Len(executed) + Len(batch)}
      /\ cons = "idle" => batch = << >>
  BY DEF FenceInv, SeqnoInv, RetireInv, RingInv, TypeInv, DrainShape
<1>2. ASSUME NEW a \in Addrs, PushBegin(a) PROVE FenceInv'
  BY <1>0, <1>1, <1>2, FenceQuiet, Zenon DEF PushBegin
<1>3. CASE PushWrite BY <1>0, <1>1, <1>3, FenceQuiet, Zenon DEF PushWrite
<1>4. CASE PushPublish BY <1>0, <1>4, FencePublish
<1>5. CASE PushDoorbell BY <1>0, <1>1, <1>5, FenceQuiet, Zenon DEF PushDoorbell
<1>6. CASE Nudge BY <1>0, <1>1, <1>6, FenceQuiet, Zenon DEF Nudge
<1>7. CASE DrainBegin BY <1>0, <1>1, <1>7, FenceQuiet, SMT DEF DrainBegin
<1>8. CASE DrainRefused BY <1>0, <1>1, <1>8, FenceQuiet, Zenon DEF DrainRefused
<1>9. CASE PopBegin BY <1>0, <1>1, <1>9, FenceQuiet, SMT DEF PopBegin
<1>10. CASE PopRead BY <1>0, <1>10, FencePopRead
<1>11. CASE PopFree BY <1>0, <1>1, <1>11, FenceQuiet, SMT DEF PopFree
<1>12. CASE PopEnd BY <1>0, <1>1, <1>12, FenceQuiet, SMT DEF PopEnd
<1>13. CASE Execute BY <1>0, <1>13, FenceExecute
<1>14. CASE Retire
  <2>1. seqno_retired' \in {seqno_retired, Len(executed)} /\ cons' = "idle"
        /\ UNCHANGED <<executed, batch, published, prod>>
    BY <1>14, RetireRaises DEF Retire
  <2>2. Len(executed) \in Nat BY Lengths DEF FenceInv, RingInv
  <2>3. RetireInv' BY <2>1, <2>2, SMT DEF FenceInv, RetireInv
  <2>4. SeqnoInv' BY <2>1, Zenon DEF FenceInv, SeqnoInv
  <2>5. QED BY <1>0, <2>3, <2>4 DEF FenceInv
<1>15. CASE UNCHANGED vars BY <1>0, <1>1, <1>15, FenceQuiet, Zenon DEF vars
<1>16. QED
  BY <1>2, <1>3, <1>4, <1>5, <1>6, <1>7, <1>8, <1>9, <1>10, <1>11, <1>12,
     <1>13, <1>14, <1>15 DEF Next, Producer, Drain

LEMMA FenceInvariant == ASSUME OneLap PROVE Spec => []FenceInv
BY FenceInit, FenceStep, PTL DEF Spec

(* Within a lap of the index words, a signalled fence belongs to a           *)
(* submission that has been executed.                                        *)
THEOREM FenceSoundness == ASSUME OneLap PROVE Spec => []FenceSound
<1>1. ASSUME FenceInv PROVE FenceSound
  <2> SUFFICES ASSUME NEW i \in 1 .. Len(published),
                      seqno_retired >= published[i].seqno
               PROVE  i <= Len(executed)
    BY DEF FenceSound
  <2>1. published[i].seqno = i /\ seqno_retired <= Len(executed)
        /\ seqno_retired \in Nat
    BY <1>1 DEF FenceInv, SeqnoInv, RetireInv, RingInv, TypeInv, TypeOK
  <2>2. Len(executed) \in Nat /\ Len(published) \in Nat
    BY <1>1, Lengths DEF FenceInv, RingInv
  <2>3. QED BY <2>1, <2>2, SMT
<1>2. QED BY <1>1, FenceInvariant, PTL

(* Within a lap, the completion word never goes back.                        *)
THEOREM RetireMonotonicity == ASSUME OneLap PROVE Spec => RetiredMonotonic
<1>1. ASSUME FenceInv, [Next]_vars PROVE [seqno_retired' >= seqno_retired]_vars
  <2>1. seqno_retired \in Nat /\ Len(executed) \in Nat
        /\ seqno_retired <= Len(executed)
    BY <1>1, Lengths DEF FenceInv, RetireInv, RingInv, TypeInv, TypeOK
  <2>2. CASE Retire BY <1>1, <2>1, <2>2, RetireRaises, SMT
  <2>3. CASE ~Retire
    <3>1. seqno_retired' = seqno_retired
      BY <1>1, <2>3, SMT
         DEF Next, Producer, Drain, vars, prodVars, consVars, PushBegin, PushWrite,
             PushPublish, PushDoorbell, Nudge, DrainBegin, DrainRefused, PopBegin,
             PopRead, PopFree, PopEnd, Execute
    <3>2. QED BY <2>1, <3>1, SMT
  <2>4. QED BY <2>2, <2>3
<1>2. QED BY <1>1, FenceInvariant, PTL DEF Spec, RetiredMonotonic

(* Within a lap, the ring implements CommandService: a publish is a          *)
(* submission, an executed descriptor is a completion, a retire is a signal, *)
(* and every other step of the driver or the drain is invisible.             *)
THEOREM RingImplementsService == ASSUME OneLap PROVE Spec => ServiceSpec
<1>1. Init => Service!Init
  BY SMT DEF Init, Service!Init
<1>2. ASSUME FenceInv, FenceInv', [Next]_vars PROVE [Service!Next]_(Service!vars)
  <2> USE DEF Service!vars
  <2>1. /\ published \in Seq(Desc) /\ item \in Addrs
        /\ Len(published) \in Nat /\ Len(executed) \in Nat
        /\ seqno_retired \in Nat /\ seqno_retired' \in Nat
        /\ seqno_retired <= Len(executed)
    BY <1>2, Lengths DEF FenceInv, RetireInv, RingInv, TypeInv, TypeOK
  <2>2. CASE PushPublish
    <3>1. Len(published) < MaxSubmits
      BY <1>2, <2>2 DEF PushPublish, FenceInv, SeqnoInv
    <3>2. SeqnoAt(tail) = Len(published) + 1
      BY <1>2, <3>1, SeqnoIsCount DEF FenceInv
    <3>3. Service!Submit(item)
      BY <2>2, <3>1, <3>2, Zenon DEF PushPublish, consVars, Service!Submit
    <3>4. QED BY <2>1, <3>3 DEF Service!Next
  <2>3. CASE Execute
    <3>1. /\ batch \in Seq(Desc) /\ batch # << >>
          /\ executed' = Append(executed, Head(batch))
          /\ UNCHANGED <<published, seqno_retired>>
      BY <1>2, <2>3 DEF Execute, prodVars, FenceInv, RingInv, TypeInv, TypeOK
    <3>2. Head(batch) = batch[1] /\ 1 \in 1 .. Len(batch)
      BY <3>1, SMT
    <3>3. batch[1] = published[Len(executed) + 1]
      BY <1>2, <3>2 DEF FenceInv, RingInv, PrefixInv
    <3>4. Len(executed) < Len(published)
      <4>1. Popped \in 0 .. Len(published) /\ cons = "exec"
        BY <1>2, <2>3 DEF FenceInv, RingInv, IndexInv, Execute
      <4>2. Len(batch) \in Nat /\ Len(batch) > 0
        BY <3>1, SMT
      <4>3. QED BY <2>1, <4>1, <4>2, SMT DEF Popped
    <3>5. Service!Complete
      BY <3>1, <3>2, <3>3, <3>4, Zenon DEF Service!Complete
    <3>6. QED BY <3>5 DEF Service!Next
  <2>4. CASE Retire
    <3>1. seqno_retired' \in {seqno_retired, Len(executed)}
          /\ UNCHANGED <<published, executed>>
      BY <1>2, <2>4, RetireRaises DEF Retire, prodVars
    <3>2. CASE seqno_retired' = seqno_retired
      BY <3>1, <3>2
    <3>3. CASE seqno_retired' # seqno_retired
      <4>1. seqno_retired < Len(executed)
            /\ seqno_retired' \in seqno_retired + 1 .. Len(executed)
        BY <2>1, <3>1, <3>3, SMT
      <4>2. Service!Signal BY <3>1, <4>1 DEF Service!Signal
      <4>3. QED BY <4>2 DEF Service!Next
    <3>4. QED BY <3>2, <3>3
  <2>5. CASE ~(PushPublish \/ Execute \/ Retire)
    <3>1. UNCHANGED <<published, executed, seqno_retired>>
      BY <1>2, <2>5, SMT
         DEF Next, Producer, Drain, vars, prodVars, consVars, PushBegin, PushWrite,
             PushDoorbell, Nudge, DrainBegin, DrainRefused, PopBegin, PopRead,
             PopFree, PopEnd
    <3>2. QED BY <3>1
  <2>6. QED BY <2>2, <2>3, <2>4, <2>5
<1>3. QED
  BY <1>1, <1>2, FenceInvariant, PTL DEF Spec, ServiceSpec, Service!Spec

-----------------------------------------------------------------------------
(* The Linux driver and the server thread on the ring.                       *)

(* An inline payload lies in the region of its slot, a staged one in the     *)
(* buffer of its CPU: both are locations the ring knows.                     *)
LEMMA PayloadAddress ==
  ASSUME TypeInv, NEW c \in Cpus
  PROVE  SlotOf(tail) \in Addrs /\ c \in Addrs
<1>1. SlotOf(tail) \in 0 .. Cap - 1
  BY SlotInRange, SMT DEF TypeInv, TypeOK
<1>2. QED BY <1>1, SubmitAssumption DEF SubmitAssumption

(* Every step of a CPU or of the server is a step of the ring or leaves it   *)
(* alone.                                                                    *)
LEMMA SubmitStep == TypeInv /\ [SNext]_allVars => [Next]_vars
<1> SUFFICES ASSUME TypeInv, [SNext]_allVars PROVE [Next]_vars
  OBVIOUS
<1> USE DEF Next, Producer, Drain
<1>1. ASSUME NEW c \in Cpus, NEW k \in Kinds, Enter(c, k) PROVE [Next]_vars
  BY <1>1 DEF Enter
<1>2. ASSUME NEW c \in Cpus, CpuStep(c) PROVE [Next]_vars
  <2>1. CASE PushStart(c)
    BY <2>1, PayloadAddress DEF PushStart
  <2>2. CASE PushFill(c)
    BY <2>2 DEF PushFill
  <2>3. CASE PushTail(c)
    BY <2>3 DEF PushTail
  <2>4. CASE PushBell(c)
    BY <2>4 DEF PushBell
  <2>5. CASE NudgeBell(c)
    BY <2>5 DEF NudgeBell
  <2>6. CASE LockRing(c) \/ PushFull(c) \/ Retry(c) \/ PushReturn(c)
             \/ PollRetired(c) \/ PollTimeout(c)
    BY <2>6 DEF LockRing, PushFull, Retry, PushReturn, PollRetired, PollTimeout
  <2>7. QED
    BY <1>2, <2>1, <2>2, <2>3, <2>4, <2>5, <2>6 DEF CpuStep
<1>3. CASE Serve
  <2>1. ASSUME NEW c \in Cpus, ServeBegin(c) PROVE [Next]_vars
    BY <2>1 DEF ServeBegin
  <2>2. ASSUME NEW c \in Cpus, ServeRefused(c) PROVE [Next]_vars
    BY <2>2 DEF ServeRefused
  <2>3. CASE ServePop
    BY <2>3 DEF ServePop
  <2>4. CASE ServeExecute
    BY <2>4 DEF ServeExecute
  <2>5. CASE ServeRetire
    BY <2>5 DEF ServeRetire
  <2>6. QED
    BY <1>3, <2>1, <2>2, <2>3, <2>4, <2>5 DEF Serve
<1>4. CASE Remap
  BY <1>4 DEF Remap
<1>5. CASE UNCHANGED allVars
  BY <1>5 DEF allVars
<1>6. QED
  BY <1>1, <1>2, <1>3, <1>4, <1>5 DEF SNext

(* The driver under ring_lock and the server thread, with doorbells that     *)
(* overtake each other, retries and refused drains, are a single producer    *)
(* and a single consumer (infinigpu.c:389-461, 490-502, 576-590).            *)
THEOREM SubmitImplementsRing == SSpec => RingSpec
<1>1. SInit => Init
  BY DEF SInit
<1>2. TypeInv /\ [Next]_vars => TypeInv'
  BY TypeStep
<1>3. QED
  BY <1>1, <1>2, TypeInit, SubmitStep, PTL DEF SSpec, RingSpec, Spec

(* No CPU's push ever writes the slot the device is reading, across any      *)
(* number of wraps, nudges and refused drains.                               *)
THEOREM DriverSlotRaceFreedom == SSpec => []NoSlotRace
BY SubmitImplementsRing, SlotRaceFreedom, PTL DEF RingSpec

(* The device executes what the CPUs published, in the order in which they   *)
(* published it, each once.                                                  *)
THEOREM DriverInOrderExecution == SSpec => []ExecutedInOrder
BY SubmitImplementsRing, InOrderExecution, PTL DEF RingSpec
-----------------------------------------------------------------------------
(* Who is where.  The lock is held from a push's first step to its return,   *)
(* the producer is busy for its holder only, and the server thread serves    *)
(* the doorbell of a CPU that waits in the write.                            *)

Holding(c) == pc[c] \in {"push", "pushing", "bell", "return"}

LockInv ==
  /\ \A c \in Cpus : Holding(c) <=> lock = c
  /\ \A c \in Cpus : pc[c] = "pushing" => prod # "idle"
  /\ prod # "idle" => lock \in Cpus /\ pc[lock] = "pushing"
  /\ serving # NoCpu => pc[serving] \in {"bell", "nudge"}
  /\ cons = "idle" <=> serving = NoCpu

(* Every ioctl in progress has a workload of its own, and a staged one is in *)
(* its buffer until the ioctl is over.                                       *)
JobInv ==
  /\ \A c \in Cpus : pc[c] # "idle" => job[c] \in 1 .. entered /\ tries[c] < MaxTries
  /\ \A c, d \in Cpus : c # d /\ pc[c] # "idle" /\ pc[d] # "idle" => job[c] # job[d]
  /\ \A c \in Cpus : pc[c] # "idle" /\ kind[c] = "fwd" => mem[c] = job[c]

PushInv == STypeOK /\ ran \in Seq((1 .. MaxSubmits) \cup {Gone}) /\ LockInv /\ JobInv

(* A CPU has published a descriptor and has not yet read its seqno.          *)
Announcing(c) == pc[c] \in {"bell", "return"} \/ (pc[c] = "pushing" /\ prod = "ring")

WaitInv ==
  /\ seqno_submit = Len(published) + (IF prod = "publish" THEN 1 ELSE 0)
  /\ \A c \in Cpus : pc[c] = "pushing" \/ Announcing(c) =>
       item \in (IF kind[c] = "fwd" THEN {c} ELSE 0 .. Cap - 1)
  /\ \A c \in Cpus : Announcing(c) =>
       published # << >> /\ published[Len(published)].addr = item
  /\ \A c \in Cpus : pc[c] = "poll" =>
       /\ want[c] \in 1 .. Len(published)
       /\ kind[c] = "fwd" => published[want[c]].addr = c
  /\ \A c, d \in Cpus : Announcing(c) /\ pc[d] = "poll" => want[d] < Len(published)
  /\ \A c, d \in Cpus : c # d /\ pc[c] = "poll" /\ pc[d] = "poll" => want[c] # want[d]

(* While the device drains, one submission at most is under way: a push      *)
(* finds the ring empty, and its doorbell's drain pops its descriptor alone. *)
Waiting == \E c \in Cpus : pc[c] = "bell"

DrainedInv ==
  /\ mapped
  /\ \A c \in Cpus : pc[c] \notin {"full", "nudge", "retry"}
  /\ ~Waiting => bells = 0 /\ cons = "idle"
  /\ Waiting /\ cons = "idle" => bells = 1
  /\ Waiting /\ cons # "idle" => bells = 0
  /\ prod = "ring" \/ Waiting => Len(published) = seqno_retired + 1
  /\ prod = "ring" \/ (Waiting /\ cons # "exec") => Len(published) = Len(executed) + 1
  /\ prod # "ring" /\ ~Waiting => seqno_retired = Len(executed) /\ Len(published) = Len(executed)
  /\ cons \in {"pop", "read", "free"} => taken = Len(batch)
  /\ cons = "exec" =>
       taken > 0 /\ Len(batch) <= 1 /\ Len(executed) + Len(batch) = Len(published)
  /\ cons # "idle" /\ taken > 0 => highest = Len(executed) + Len(batch)

(* What the device has executed is what the CPUs asked for: the payload of   *)
(* the submission under way is in place until it has been executed.          *)
Ran == {ran[i] : i \in 1 .. Len(ran)}
Unexecuted(c) == pc[c] = "pushing" \/ (pc[c] = "bell" /\ Len(executed) < Len(published))

PayloadInv ==
  /\ \A i \in 1 .. Len(ran) : ran[i] \in 1 .. entered
  /\ \A i, j \in 1 .. Len(ran) : ran[i] = ran[j] => i = j
  /\ \A c \in Cpus : pc[c] \in {"try", "push"} \/ Unexecuted(c) => job[c] \notin Ran
  /\ \A c \in Cpus : Unexecuted(c) /\ prod # "write" => mem[item] = job[c]
  /\ \A c \in Cpus : pc[c] \in {"return", "poll"} \/ (pc[c] = "bell" /\ ~Unexecuted(c))
                       => job[c] \in Ran
  /\ acked \subseteq Ran

ServedInv == Served => DrainedInv /\ PayloadInv
SubmitInv == PushInv /\ FenceInv /\ WaitInv /\ ServedInv

(* A driver and a server that have just started satisfy all of it.           *)
LEMMA SubmitInit == SInit => SubmitInv
<1> SUFFICES ASSUME SInit PROVE SubmitInv
  OBVIOUS
<1>1. FenceInv
  BY FenceInit DEF SInit
<1>2. Len(published) = 0 /\ Len(executed) = 0 /\ Len(ran) = 0
  BY SMT DEF SInit, Init
<1>3. STypeOK
  <2>1. TypeOK
    BY <1>1 DEF FenceInv, RingInv, TypeInv
  <2>2. admitted \in BOOLEAN /\ mapped \in BOOLEAN
    BY DEF SInit
  <2>3. /\ pc \in [Cpus -> PcLabels] /\ kind \in [Cpus -> Kinds]
        /\ job \in [Cpus -> 0 .. MaxSubmits] /\ tries \in [Cpus -> 0 .. MaxTries]
        /\ want \in [Cpus -> Nat] /\ mem \in [Addrs -> (1 .. MaxSubmits) \cup {Gone}]
    BY SubmitAssumption, RingAssumption, SMT
       DEF SInit, SubmitAssumption, RingAssumption, PcLabels, Kinds
  <2>4. QED BY <2>1, <2>2, <2>3, SubmitAssumption, RingAssumption, SMT
          DEF STypeOK, SInit, SubmitAssumption, RingAssumption
<1>4. PushInv
  <2>1. ran \in Seq((1 .. MaxSubmits) \cup {Gone})
    BY SMT DEF SInit
  <2>2. LockInv
    BY SubmitAssumption, SMT DEF LockInv, Holding, SInit, Init, SubmitAssumption
  <2>3. JobInv
    BY SMT DEF JobInv, SInit
  <2>4. QED BY <1>3, <2>1, <2>2, <2>3 DEF PushInv
<1>5. WaitInv
  BY <1>2, SMT DEF WaitInv, Announcing, SInit, Init
<1>6. ServedInv
  BY <1>2, SMT DEF ServedInv, DrainedInv, PayloadInv, Waiting, Ran, Unexecuted, SInit, Init, Served
<1>7. QED BY <1>1, <1>4, <1>5, <1>6 DEF SubmitInv

(* The constants as the steps want them.                                     *)
LEMMA SubmitConstants ==
  /\ MaxSubmits \in Nat /\ MaxTries \in Nat /\ MaxTries > 0 /\ MaxRemaps \in Nat
  /\ NoCpu \notin Cpus /\ Gone \notin Nat /\ Cpus \subseteq Addrs
  /\ \A c \in Cpus : c \notin 0 .. Cap - 1
BY SubmitAssumption, RingAssumption, SMT DEF SubmitAssumption, RingAssumption

(* A CPU that goes on leaves the others where they are.                      *)
LEMMA GotoType ==
  ASSUME PushInv, NEW c \in Cpus, NEW l \in PcLabels, Goto(c, l)
  PROVE  /\ pc' \in [Cpus -> PcLabels]
         /\ pc'[c] = l /\ \A d \in Cpus : d # c => pc'[d] = pc[d]
BY SMT DEF PushInv, STypeOK, Goto

(* Only the ioctl that ends loses its staging buffer.                        *)
LEMMA FinishFrees ==
  ASSUME PushInv, NEW c \in Cpus, Finish(c)
  PROVE  /\ pc' \in [Cpus -> PcLabels]
         /\ pc'[c] = "idle" /\ \A d \in Cpus : d # c => pc'[d] = pc[d]
         /\ mem' \in [Addrs -> (1 .. MaxSubmits) \cup {Gone}]
         /\ \A a \in Addrs : a # c => mem'[a] = mem[a]
<1>1. "idle" \in PcLabels
  BY DEF PcLabels
<1>2. mem \in [Addrs -> (1 .. MaxSubmits) \cup {Gone}]
  BY DEF PushInv, STypeOK
<1>3. /\ mem' \in [Addrs -> (1 .. MaxSubmits) \cup {Gone}]
      /\ \A a \in Addrs : a # c => mem'[a] = mem[a]
  <2>1. CASE kind[c] = "fwd"
    <3>1. mem' = [mem EXCEPT ![c] = Gone] /\ Gone \in (1 .. MaxSubmits) \cup {Gone}
      BY <2>1 DEF Finish
    <3>2. QED BY <1>2, <3>1, Zenon
  <2>2. CASE kind[c] # "fwd"
    BY <1>2, <2>2, SMT DEF Finish
  <2>3. QED BY <2>1, <2>2
<1>4. QED BY <1>1, <1>3, GotoType DEF Finish

(* An inline payload is written where its slot's payload goes.               *)
LEMMA FillStores ==
  ASSUME PushInv, NEW c \in Cpus, PushFill(c)
  PROVE  /\ mem' \in [Addrs -> (1 .. MaxSubmits) \cup {Gone}]
         /\ kind[c] # "fwd" => mem'[item] = job[c]
         /\ \A a \in Addrs : a # item \/ kind[c] = "fwd" => mem'[a] = mem[a]
<1>1. /\ mem \in [Addrs -> (1 .. MaxSubmits) \cup {Gone}] /\ item \in Addrs
      /\ job[c] \in 1 .. MaxSubmits
  BY RingAssumption, SMT DEF PushInv, STypeOK, TypeOK, JobInv, PushFill, RingAssumption
<1>2. mem' = IF kind[c] = "fwd" THEN mem ELSE [mem EXCEPT ![item] = job[c]]
  BY DEF PushFill
<1>3. QED BY <1>1, <1>2, SMT

(* The answer lets one CPU go on: it read its doorbell write or its nudge.    *)
LEMMA AnswerEffect ==
  ASSUME PushInv, NEW c \in Cpus, Answered(c)
  PROVE  /\ pc' \in [Cpus -> PcLabels]
         /\ pc'[c] = (IF pc[c] = "bell" THEN "return" ELSE "retry")
         /\ \A d \in Cpus : d # c => pc'[d] = pc[d]
<1>1. "return" \in PcLabels /\ "retry" \in PcLabels
  BY DEF PcLabels
<1>2. pc \in [Cpus -> PcLabels]
  BY DEF PushInv, STypeOK
<1>3. pc' = [pc EXCEPT ![c] = IF pc[c] = "bell" THEN "return" ELSE "retry"]
  BY DEF Answered, Goto
<1>4. QED BY <1>1, <1>2, <1>3, SMT

(* Whom the server thread answers.                                           *)
LEMMA RetireAnswers ==
  ASSUME PushInv, ServeRetire
  PROVE  serving \in Cpus /\ pc[serving] \in {"bell", "nudge"} /\ Answered(serving)
<1>1. cons = "exec" /\ Answered(serving)
  BY DEF ServeRetire, Retire
<1>2. QED BY <1>1, SMT DEF PushInv, STypeOK, LockInv

(* A new ioctl takes the next workload number.                               *)
LEMMA EnterEffect ==
  ASSUME PushInv, NEW c \in Cpus, NEW k \in Kinds, Enter(c, k)
  PROVE  /\ entered' = entered + 1 /\ entered + 1 \in 1 .. MaxSubmits /\ pc[c] = "idle"
         /\ pc'[c] = "try" /\ kind'[c] = k /\ job'[c] = entered + 1 /\ tries'[c] = 0
         /\ k = "fwd" => mem'[c] = entered + 1
         /\ \A d \in Cpus : d # c =>
               pc'[d] = pc[d] /\ kind'[d] = kind[d] /\ job'[d] = job[d] /\ tries'[d] = tries[d]
         /\ \A a \in Addrs : a # c \/ k # "fwd" => mem'[a] = mem[a]
         /\ mem' \in [Addrs -> (1 .. MaxSubmits) \cup {Gone}]
<1>1. entered' = entered + 1 /\ entered + 1 \in 1 .. MaxSubmits /\ pc[c] = "idle"
  BY SubmitConstants, SMT DEF Enter, PushInv, STypeOK
<1>2. /\ pc'[c] = "try" /\ kind'[c] = k /\ job'[c] = entered + 1 /\ tries'[c] = 0
      /\ \A d \in Cpus : d # c =>
            pc'[d] = pc[d] /\ kind'[d] = kind[d] /\ job'[d] = job[d] /\ tries'[d] = tries[d]
  BY Zenon DEF Enter, Goto, PushInv, STypeOK
<1>3. mem \in [Addrs -> (1 .. MaxSubmits) \cup {Gone}] /\ c \in Addrs
  BY SubmitConstants DEF PushInv, STypeOK
<1>4. mem' = IF k = "fwd" THEN [mem EXCEPT ![c] = entered + 1] ELSE mem
  BY DEF Enter
<1>5. /\ k = "fwd" => mem'[c] = entered + 1
      /\ \A a \in Addrs : a # c \/ k # "fwd" => mem'[a] = mem[a]
      /\ mem' \in [Addrs -> (1 .. MaxSubmits) \cup {Gone}]
  BY <1>1, <1>3, <1>4, SMT
<1>6. QED BY <1>1, <1>2, <1>5

(* Every step keeps the types; those of the ring are kept by its own proof.  *)
LEMMA SubmitTypesStep ==
  ASSUME PushInv, TypeOK', [SNext]_allVars PROVE STypeOK'
<1> USE SubmitConstants DEF Goto, vars, prodVars, consVars, cpuVars, hostVars, allVars
<1>1. ASSUME NEW c \in Cpus, NEW k \in Kinds, Enter(c, k) PROVE STypeOK'
  <2>1. entered + 1 \in 1 .. MaxSubmits /\ 0 \in 0 .. MaxTries
    BY <1>1, SMT DEF Enter, PushInv, STypeOK
  <2>2. /\ mem' \in [Addrs -> (1 .. MaxSubmits) \cup {Gone}]
        /\ job' \in [Cpus -> 0 .. MaxSubmits] /\ tries' \in [Cpus -> 0 .. MaxTries]
        /\ entered' \in 0 .. MaxSubmits
    BY <1>1, <2>1, SMT DEF Enter, PushInv, STypeOK
  <2>3. pc' \in [Cpus -> PcLabels] /\ kind' \in [Cpus -> Kinds]
    BY <1>1, SMT DEF Enter, PushInv, STypeOK, PcLabels
  <2>4. QED BY <1>1, <2>2, <2>3, SMT DEF Enter, PushInv, STypeOK
<1>2. ASSUME NEW c \in Cpus, LockRing(c) PROVE STypeOK'
  BY <1>2, SMT DEF LockRing, PushInv, STypeOK, PcLabels, Kinds
<1>3. ASSUME NEW c \in Cpus, PushFull(c) PROVE STypeOK'
  BY <1>3, SMT DEF PushFull, PushInv, STypeOK, PcLabels, Kinds
<1>4. ASSUME NEW c \in Cpus, PushStart(c) PROVE STypeOK'
  BY <1>4, SMT DEF PushStart, PushBegin, PushInv, STypeOK, PcLabels, Kinds
<1>5. ASSUME NEW c \in Cpus, PushFill(c) PROVE STypeOK'
  <2>1. mem' \in [Addrs -> (1 .. MaxSubmits) \cup {Gone}]
    BY <1>5, FillStores
  <2>2. QED BY <1>5, <2>1, SMT DEF PushFill, PushInv, STypeOK
<1>6. ASSUME NEW c \in Cpus, PushTail(c) PROVE STypeOK'
  BY <1>6, SMT DEF PushTail, PushPublish, PushInv, STypeOK, PcLabels, Kinds
<1>7. ASSUME NEW c \in Cpus, PushBell(c) PROVE STypeOK'
  BY <1>7, SMT DEF PushBell, PushDoorbell, PushInv, STypeOK, PcLabels, Kinds
<1>8. ASSUME NEW c \in Cpus, NudgeBell(c) PROVE STypeOK'
  BY <1>8, SMT DEF NudgeBell, Nudge, PushInv, STypeOK, PcLabels, Kinds
<1>9. ASSUME NEW c \in Cpus, Retry(c) PROVE STypeOK'
  <2>1. tries[c] + 1 \in 0 .. MaxTries /\ tries \in [Cpus -> 0 .. MaxTries]
    <3>1. tries[c] \in 0 .. MaxTries /\ tries[c] < MaxTries /\ tries \in [Cpus -> 0 .. MaxTries]
      BY <1>9, SMT DEF Retry, PushInv, STypeOK, JobInv
    <3>2. QED BY <3>1, SMT
  <2>2. tries' \in [Cpus -> 0 .. MaxTries]
    BY <1>9, <2>1, Zenon DEF Retry
  <2>3. CASE Finish(c)
    <3>1. /\ pc' \in [Cpus -> PcLabels]
          /\ mem' \in [Addrs -> (1 .. MaxSubmits) \cup {Gone}]
      BY <2>3, FinishFrees
    <3>2. QED BY <1>9, <2>2, <3>1, SMT DEF Retry, PushInv, STypeOK
  <2>4. CASE ~Finish(c)
    <3>1. Goto(c, "try") /\ mem' = mem /\ "try" \in PcLabels
      BY <1>9, <2>4 DEF Retry, PcLabels
    <3>2. pc' \in [Cpus -> PcLabels]
      BY <3>1, GotoType
    <3>3. QED BY <1>9, <2>2, <3>1, <3>2, SMT DEF Retry, PushInv, STypeOK
  <2>5. QED BY <2>3, <2>4
<1>10. ASSUME NEW c \in Cpus, PushReturn(c) PROVE STypeOK'
  <2>1. want \in [Cpus -> Nat] /\ seqno_submit \in Nat
    BY SMT DEF PushInv, STypeOK, TypeOK
  <2>2. want' \in [Cpus -> Nat]
    BY <1>10, <2>1, SMT DEF PushReturn
  <2>3. QED BY <1>10, <2>2, SMT DEF PushReturn, PushInv, STypeOK, PcLabels
<1>11. ASSUME NEW c \in Cpus, PollRetired(c) PROVE STypeOK'
  <2>1. job[c] \in 1 .. MaxSubmits
    <3>1. job[c] \in 1 .. entered /\ entered \in 0 .. MaxSubmits
      BY <1>11, Zenon DEF PollRetired, PushInv, STypeOK, JobInv
    <3>2. QED BY <3>1, SMT
  <2>2. acked' \subseteq 1 .. MaxSubmits
    BY <1>11, <2>1, Zenon DEF PollRetired, PushInv, STypeOK
  <2>3. Finish(c)
    BY <1>11 DEF PollRetired
  <2>4. /\ pc' \in [Cpus -> PcLabels]
        /\ mem' \in [Addrs -> (1 .. MaxSubmits) \cup {Gone}]
    BY <2>3, FinishFrees
  <2>5. QED BY <1>11, <2>2, <2>4, SMT DEF PollRetired, PushInv, STypeOK
<1>12. ASSUME NEW c \in Cpus, PollTimeout(c) PROVE STypeOK'
  <2>1. Finish(c)
    BY <1>12 DEF PollTimeout
  <2>2. /\ pc' \in [Cpus -> PcLabels]
        /\ mem' \in [Addrs -> (1 .. MaxSubmits) \cup {Gone}]
    BY <2>1, FinishFrees
  <2>3. QED BY <1>12, <2>2, SMT DEF PollTimeout, PushInv, STypeOK
<1>13. ASSUME NEW c \in Cpus, ServeBegin(c) PROVE STypeOK'
  BY <1>13, SMT DEF ServeBegin, DrainBegin, PushInv, STypeOK, PcLabels, Kinds
<1>14. ASSUME NEW c \in Cpus, ServeRefused(c) PROVE STypeOK'
  BY <1>14, SMT DEF ServeRefused, DrainRefused, Answered, PushInv, STypeOK, PcLabels, Kinds
<1>15. ASSUME ServePop PROVE STypeOK'
  BY <1>15, SMT DEF ServePop, PopBegin, PopRead, PopFree, PopEnd, PushInv, STypeOK, PcLabels, Kinds
<1>16. ASSUME ServeExecute PROVE STypeOK'
  BY <1>16, SMT DEF ServeExecute, PushInv, STypeOK
<1>17. ASSUME ServeRetire PROVE STypeOK'
  <2>1. pc' \in [Cpus -> PcLabels]
    BY <1>17, RetireAnswers, AnswerEffect
  <2>2. serving' = NoCpu
    BY <1>17 DEF ServeRetire
  <2>3. QED BY <1>17, <2>1, <2>2, SMT DEF ServeRetire, PushInv, STypeOK
<1>18. ASSUME Remap PROVE STypeOK'
  BY <1>18, SMT DEF Remap, PushInv, STypeOK, PcLabels, Kinds
<1>19. CASE UNCHANGED allVars
  BY <1>19, SMT DEF PushInv, STypeOK, PcLabels, Kinds
<1>20. QED
  BY <1>1, <1>2, <1>3, <1>4, <1>5, <1>6, <1>7, <1>8, <1>9, <1>10, <1>11, <1>12, <1>13,
     <1>14, <1>15, <1>16, <1>17, <1>18, <1>19 DEF SNext, CpuStep, Serve

(* Every step keeps who holds the lock, who pushes and who is served.        *)
LEMMA LockStep ==
  ASSUME PushInv, TypeOK', [SNext]_allVars PROVE LockInv'
<1> USE SubmitAssumption DEF PushInv, STypeOK, LockInv, Holding, PcLabels, Goto, vars,
        prodVars, consVars, cpuVars, hostVars, allVars, SubmitAssumption
<1>1. ASSUME NEW c \in Cpus, NEW k \in Kinds, Enter(c, k) PROVE LockInv'
  BY <1>1, SMT DEF Enter
<1>2. ASSUME NEW c \in Cpus, LockRing(c) PROVE LockInv'
  BY <1>2, SMT DEF LockRing
<1>3. ASSUME NEW c \in Cpus, PushFull(c) PROVE LockInv'
  BY <1>3, SMT DEF PushFull
<1>4. ASSUME NEW c \in Cpus, PushStart(c) PROVE LockInv'
  BY <1>4, SMT DEF PushStart, PushBegin
<1>5. ASSUME NEW c \in Cpus, PushFill(c) PROVE LockInv'
  BY <1>5, SMT DEF PushFill, PushWrite
<1>6. ASSUME NEW c \in Cpus, PushTail(c) PROVE LockInv'
  BY <1>6, SMT DEF PushTail, PushPublish
<1>7. ASSUME NEW c \in Cpus, PushBell(c) PROVE LockInv'
  BY <1>7, SMT DEF PushBell, PushDoorbell
<1>8. ASSUME NEW c \in Cpus, NudgeBell(c) PROVE LockInv'
  BY <1>8, SMT DEF NudgeBell, Nudge
<1>9. ASSUME NEW c \in Cpus, Retry(c) PROVE LockInv'
  BY <1>9, SMT DEF Retry, Finish
<1>10. ASSUME NEW c \in Cpus, PushReturn(c) PROVE LockInv'
  BY <1>10, SMT DEF PushReturn
<1>11. ASSUME NEW c \in Cpus, PollRetired(c) PROVE LockInv'
  BY <1>11, SMT DEF PollRetired, Finish
<1>12. ASSUME NEW c \in Cpus, PollTimeout(c) PROVE LockInv'
  BY <1>12, SMT DEF PollTimeout, Finish
<1>13. ASSUME NEW c \in Cpus, ServeBegin(c) PROVE LockInv'
  BY <1>13, SMT DEF ServeBegin, DrainBegin
<1>14. ASSUME NEW c \in Cpus, ServeRefused(c) PROVE LockInv'
  BY <1>14, SMT DEF ServeRefused, DrainRefused, Answered
<1>15. ASSUME ServePop PROVE LockInv'
  BY <1>15, SMT DEF ServePop, PopBegin, PopRead, PopFree, PopEnd
<1>16. ASSUME ServeExecute PROVE LockInv'
  BY <1>16, SMT DEF ServeExecute, Execute
<1>17. ASSUME ServeRetire PROVE LockInv'
  BY <1>17, SMT DEF ServeRetire, Retire, Answered
<1>18. ASSUME Remap PROVE LockInv'
  BY <1>18, SMT DEF Remap
<1>19. CASE UNCHANGED allVars
  BY <1>19, SMT
<1>20. QED
  BY <1>1, <1>2, <1>3, <1>4, <1>5, <1>6, <1>7, <1>8, <1>9, <1>10, <1>11, <1>12, <1>13,
     <1>14, <1>15, <1>16, <1>17, <1>18, <1>19 DEF SNext, CpuStep, Serve

(* Every step keeps the workloads apart and the staged ones in place.        *)
LEMMA JobStep ==
  ASSUME PushInv, WaitInv, TypeOK', [SNext]_allVars PROVE JobInv'
<1> USE SubmitConstants DEF Goto, vars, prodVars, consVars, cpuVars, hostVars, allVars
<1>1. ASSUME NEW c \in Cpus, NEW k \in Kinds, Enter(c, k) PROVE JobInv'
  <2>0. JobInv /\ entered \in Nat
    BY SubmitConstants, SMT DEF PushInv, STypeOK
  <2>1. /\ entered' = entered + 1 /\ entered + 1 \in 1 .. MaxSubmits
        /\ pc'[c] = "try" /\ kind'[c] = k /\ job'[c] = entered + 1 /\ tries'[c] = 0
        /\ k = "fwd" => mem'[c] = entered + 1
        /\ \A d \in Cpus : d # c =>
              pc'[d] = pc[d] /\ kind'[d] = kind[d] /\ job'[d] = job[d] /\ tries'[d] = tries[d]
        /\ \A a \in Addrs : a # c \/ k # "fwd" => mem'[a] = mem[a]
    BY <1>1, EnterEffect
  <2>2. \A d \in Cpus : pc'[d] # "idle" => job'[d] \in 1 .. entered' /\ tries'[d] < MaxTries
    BY <2>0, <2>1, SubmitConstants, SMT DEF JobInv
  <2>3. \A d, e \in Cpus : d # e /\ pc'[d] # "idle" /\ pc'[e] # "idle" => job'[d] # job'[e]
    BY <2>0, <2>1, SubmitConstants, SMT DEF JobInv
  <2>4. \A d \in Cpus : pc'[d] # "idle" /\ kind'[d] = "fwd" => mem'[d] = job'[d]
    BY <2>0, <2>1, SubmitConstants, SMT DEF JobInv
  <2>5. QED BY <2>2, <2>3, <2>4 DEF JobInv
<1>2. ASSUME NEW c \in Cpus, LockRing(c) PROVE JobInv'
  BY <1>2, SMT DEF LockRing, PushInv, STypeOK, JobInv, PcLabels, Kinds
<1>3. ASSUME NEW c \in Cpus, PushFull(c) PROVE JobInv'
  BY <1>3, SMT DEF PushFull, PushInv, STypeOK, JobInv, PcLabels, Kinds
<1>4. ASSUME NEW c \in Cpus, PushStart(c) PROVE JobInv'
  BY <1>4, SMT DEF PushStart, PushBegin, PushInv, STypeOK, JobInv, PcLabels, Kinds
<1>5. ASSUME NEW c \in Cpus, PushFill(c) PROVE JobInv'
  <2>1. UNCHANGED <<pc, kind, job, tries, entered>>
    BY <1>5 DEF PushFill
  <2>2. kind[c] # "fwd" => item \in 0 .. Cap - 1
    BY <1>5, SMT DEF WaitInv, PushFill
  <2>3. \A a \in Addrs : a # item \/ kind[c] = "fwd" => mem'[a] = mem[a]
    BY <1>5, FillStores
  <2>4. QED BY <2>1, <2>2, <2>3, SMT DEF PushInv, JobInv
<1>6. ASSUME NEW c \in Cpus, PushTail(c) PROVE JobInv'
  BY <1>6, SMT DEF PushTail, PushPublish, PushInv, STypeOK, JobInv, PcLabels, Kinds
<1>7. ASSUME NEW c \in Cpus, PushBell(c) PROVE JobInv'
  BY <1>7, SMT DEF PushBell, PushDoorbell, PushInv, STypeOK, JobInv, PcLabels, Kinds
<1>8. ASSUME NEW c \in Cpus, NudgeBell(c) PROVE JobInv'
  <2>0. JobInv /\ "nudge" \in PcLabels
    BY DEF PushInv, PcLabels
  <2>1. Goto(c, "nudge") /\ pc[c] # "idle" /\ UNCHANGED <<kind, job, tries, mem, entered>>
    BY <1>8 DEF NudgeBell
  <2>2. \A d \in Cpus : d # c => pc'[d] = pc[d]
    BY <2>0, <2>1, GotoType
  <2>3. QED BY <2>0, <2>1, <2>2, SMT DEF JobInv
<1>9. ASSUME NEW c \in Cpus, Retry(c) PROVE JobInv'
  <2>1. CASE Finish(c)
    <3>1. /\ pc'[c] = "idle" /\ \A d \in Cpus : d # c => pc'[d] = pc[d]
          /\ \A a \in Addrs : a # c => mem'[a] = mem[a]
      BY <2>1, FinishFrees
    <3>2. \A d \in Cpus : d # c => tries'[d] = tries[d]
      BY <1>9, Zenon DEF Retry, PushInv, STypeOK
    <3>3. UNCHANGED <<kind, job, entered>>
      BY <1>9 DEF Retry
    <3>4. \A d \in Cpus : pc'[d] # "idle" => d # c /\ pc[d] # "idle"
      BY <3>1, Zenon
    <3>5. JobInv
      BY DEF PushInv
    <3>6. QED BY <3>1, <3>2, <3>3, <3>4, <3>5, SMT DEF JobInv
  <2>2. CASE ~Finish(c)
    <3>1. /\ pc[c] = "retry" /\ tries[c] + 1 < MaxTries
          /\ UNCHANGED <<kind, job, entered, mem>>
          /\ pc' = [pc EXCEPT ![c] = "try"] /\ tries' = [tries EXCEPT ![c] = tries[c] + 1]
      BY <1>9, <2>2, Zenon DEF Retry, Goto
    <3>2. /\ tries'[c] = tries[c] + 1
          /\ \A d \in Cpus : d # c => tries'[d] = tries[d] /\ pc'[d] = pc[d]
      BY <3>1, Zenon DEF PushInv, STypeOK
    <3>3. QED BY <3>1, <3>2, SMT DEF PushInv, JobInv
  <2>3. QED BY <2>1, <2>2
<1>10. ASSUME NEW c \in Cpus, PushReturn(c) PROVE JobInv'
  BY <1>10, SMT DEF PushReturn, PushInv, STypeOK, JobInv, PcLabels, Kinds
<1>11. ASSUME NEW c \in Cpus, PollRetired(c) PROVE JobInv'
  BY <1>11, SMT DEF PollRetired, Finish, PushInv, STypeOK, JobInv, PcLabels, Kinds
<1>12. ASSUME NEW c \in Cpus, PollTimeout(c) PROVE JobInv'
  BY <1>12, SMT DEF PollTimeout, Finish, PushInv, STypeOK, JobInv, PcLabels, Kinds
<1>13. ASSUME NEW c \in Cpus, ServeBegin(c) PROVE JobInv'
  BY <1>13, SMT DEF ServeBegin, DrainBegin, PushInv, STypeOK, JobInv, PcLabels, Kinds
<1>14. ASSUME NEW c \in Cpus, ServeRefused(c) PROVE JobInv'
  BY <1>14, SMT DEF ServeRefused, DrainRefused, Answered, PushInv, STypeOK, JobInv, PcLabels, Kinds
<1>15. ASSUME ServePop PROVE JobInv'
  BY <1>15, SMT DEF ServePop, PopBegin, PopRead, PopFree, PopEnd, PushInv, STypeOK, JobInv, PcLabels, Kinds
<1>16. ASSUME ServeExecute PROVE JobInv'
  BY <1>16, SMT DEF ServeExecute, Execute, PushInv, STypeOK, JobInv, PcLabels, Kinds
<1>17. ASSUME ServeRetire PROVE JobInv'
  <2>1. /\ serving \in Cpus /\ pc[serving] # "idle"
        /\ \A d \in Cpus : d # serving => pc'[d] = pc[d]
    BY <1>17, RetireAnswers, AnswerEffect
  <2>2. UNCHANGED <<kind, job, tries, mem, entered>>
    BY <1>17 DEF ServeRetire
  <2>3. QED BY <2>1, <2>2, SMT DEF PushInv, JobInv
<1>18. ASSUME Remap PROVE JobInv'
  BY <1>18, SMT DEF Remap, PushInv, STypeOK, JobInv, PcLabels, Kinds
<1>19. CASE UNCHANGED allVars
  BY <1>19, SMT DEF PushInv, STypeOK, JobInv, PcLabels, Kinds
<1>20. QED
  BY <1>1, <1>2, <1>3, <1>4, <1>5, <1>6, <1>7, <1>8, <1>9, <1>10, <1>11, <1>12, <1>13,
     <1>14, <1>15, <1>16, <1>17, <1>18, <1>19 DEF SNext, CpuStep, Serve

(* What is executed was read from memory.                                    *)
LEMMA RanStep ==
  ASSUME PushInv, [SNext]_allVars PROVE (ran \in Seq((1 .. MaxSubmits) \cup {Gone}))'
<1>1. ran \in Seq((1 .. MaxSubmits) \cup {Gone})
  BY DEF PushInv
<1>2. CASE ServeExecute
  <2>1. Head(batch) \in Desc
    BY <1>2, SMT DEF ServeExecute, Execute, PushInv, STypeOK, TypeOK
  <2>2. Head(batch).addr \in Addrs
    BY <2>1 DEF Desc
  <2>3. mem[Head(batch).addr] \in (1 .. MaxSubmits) \cup {Gone}
    BY <2>2, Zenon DEF PushInv, STypeOK
  <2>4. ran' = Append(ran, mem[Head(batch).addr])
    BY <1>2 DEF ServeExecute
  <2>5. QED BY <1>1, <2>3, <2>4, SMT
<1>3. CASE UNCHANGED ran
  BY <1>1, <1>3
<1>4. QED
  BY <1>2, <1>3, Zenon DEF SNext, CpuStep, Serve, allVars, hostVars, Enter, LockRing, PushFull,
     PushStart, PushFill, PushTail, PushBell, NudgeBell, Retry, PushReturn, PollRetired, PollTimeout,
     ServeBegin, ServeRefused, ServePop, ServeRetire, Remap

(* A step that publishes nothing and starts no wait keeps what waits rest on. *)
WaitFrame ==
  /\ UNCHANGED <<seqno_submit, published, item>> /\ (prod' = "publish" <=> prod = "publish")
  /\ \A d \in Cpus :
       /\ Announcing(d)' => Announcing(d)
       /\ pc'[d] = "pushing" => pc[d] = "pushing"
       /\ pc'[d] = "poll" => pc[d] = "poll" /\ want'[d] = want[d]
       /\ pc'[d] \in {"pushing", "bell", "return", "poll"} => kind'[d] = kind[d]

LEMMA WaitQuiet == ASSUME WaitInv, WaitFrame PROVE WaitInv'
<1> USE DEF WaitFrame
<1>1. (seqno_submit = Len(published) + (IF prod = "publish" THEN 1 ELSE 0))'
  BY DEF WaitInv
<1>2. ASSUME NEW c \in Cpus PROVE (pc[c] = "pushing" \/ Announcing(c) =>
       item \in (IF kind[c] = "fwd" THEN {c} ELSE 0 .. Cap - 1))'
  BY SMT DEF WaitInv, Announcing
<1>3. ASSUME NEW c \in Cpus PROVE (Announcing(c) =>
       published # << >> /\ published[Len(published)].addr = item)'
  BY Zenon DEF WaitInv
<1>4. ASSUME NEW c \in Cpus, (pc[c] = "poll")' PROVE (want[c] \in 1 .. Len(published)
       /\ (kind[c] = "fwd" => published[want[c]].addr = c))'
  BY <1>4, Zenon DEF WaitInv
<1>5. ASSUME NEW c \in Cpus, NEW d \in Cpus PROVE
        (Announcing(c) /\ pc[d] = "poll" => want[d] < Len(published))'
  BY SMT DEF WaitInv
<1>6. ASSUME NEW c \in Cpus, NEW d \in Cpus PROVE
        (c # d /\ pc[c] = "poll" /\ pc[d] = "poll" => want[c] # want[d])'
  BY Zenon DEF WaitInv
<1>7. QED BY <1>1, <1>2, <1>3, <1>4, <1>5, <1>6, Zenon DEF WaitInv

(* Only the holder of the lock announces.                                    *)
LEMMA AnnouncerHolds ==
  ASSUME PushInv, NEW c \in Cpus, pc[c] = "pushing" \/ Announcing(c) PROVE lock = c
BY SMT DEF PushInv, LockInv, Holding, Announcing

(* Within a lap, every step keeps what the waits rest on.                    *)
LEMMA WaitStep ==
  ASSUME OneLap, FenceInv, PushInv, WaitInv, TypeOK', [SNext]_allVars PROVE WaitInv'
<1> USE SubmitConstants DEF Goto, vars, prodVars, consVars, cpuVars, hostVars, allVars
<1>1. ASSUME NEW c \in Cpus, NEW k \in Kinds, Enter(c, k) PROVE WaitInv'
  <2>1. /\ pc'[c] = "try"
        /\ \A d \in Cpus : d # c => pc'[d] = pc[d] /\ kind'[d] = kind[d]
    BY <1>1, EnterEffect
  <2>2. UNCHANGED <<seqno_submit, published, item, prod, want>>
    BY <1>1 DEF Enter
  <2>3. WaitFrame
    BY <2>1, <2>2, SMT DEF WaitFrame, Announcing
  <2>4. QED BY <2>3, WaitQuiet
<1>2. ASSUME NEW c \in Cpus, LockRing(c) PROVE WaitInv'
  <2>1. WaitFrame
    BY <1>2, SMT DEF LockRing, WaitFrame, Announcing, PushInv, STypeOK, LockInv
  <2>2. QED BY <2>1, WaitQuiet
<1>3. ASSUME NEW c \in Cpus, PushFull(c) PROVE WaitInv'
  <2>1. WaitFrame
    BY <1>3, SMT DEF PushFull, WaitFrame, Announcing, PushInv, STypeOK, LockInv
  <2>2. QED BY <2>1, WaitQuiet
<1>4. ASSUME NEW c \in Cpus, PushStart(c) PROVE WaitInv'
  <2>1. /\ pc'[c] = "pushing" /\ pc[c] = "push" /\ lock = c /\ prod = "idle" /\ prod' = "write"
        /\ item' = (IF kind[c] = "fwd" THEN c ELSE SlotOf(tail))
        /\ UNCHANGED <<seqno_submit, published, want, kind>>
        /\ \A d \in Cpus : d # c => pc'[d] = pc[d]
    BY <1>4, Zenon DEF PushStart, PushBegin, PushInv, STypeOK
  <2>2. \A d \in Cpus : pc[d] = "pushing" \/ Announcing(d) => d = c
    BY <2>1, AnnouncerHolds
  <2>3. SlotOf(tail) \in 0 .. Cap - 1
    BY SlotInRange, SMT DEF PushInv, STypeOK, TypeOK
  <2>4. \A d \in Cpus : Announcing(d)' => FALSE
    BY <2>1, <2>2, Zenon DEF Announcing
  <2>5. \A d \in Cpus : pc'[d] = "pushing" => d = c
    BY <2>1, <2>2, Zenon
  <2>6. \A d \in Cpus : pc'[d] = "poll" => pc[d] = "poll"
    BY <2>1, Zenon
  <2>7. (\A d \in Cpus : pc[d] = "pushing" \/ Announcing(d) =>
           item \in (IF kind[d] = "fwd" THEN {d} ELSE 0 .. Cap - 1))'
    BY <2>1, <2>3, <2>4, <2>5, Zenon
  <2>8. prod' # "publish" /\ prod # "publish"
    BY <2>1
  <2>9. QED BY <2>1, <2>4, <2>6, <2>7, <2>8, Zenon DEF WaitInv
<1>5. ASSUME NEW c \in Cpus, PushFill(c) PROVE WaitInv'
  <2>1. /\ pc[c] = "pushing" /\ lock = c /\ prod = "write" /\ prod' = "publish"
        /\ seqno_submit' = SeqnoAt(tail)
        /\ UNCHANGED <<published, want, kind, pc, item>>
    BY <1>5, Zenon DEF PushFill, PushWrite
  <2>2. SeqnoAt(tail) = Len(published) + 1
    BY <2>1, SeqnoIsCount DEF FenceInv, SeqnoInv
  <2>3. QED BY <2>1, <2>2, SMT DEF WaitInv, Announcing
<1>6. ASSUME NEW c \in Cpus, PushTail(c) PROVE WaitInv'
  <2>1. /\ pc[c] = "pushing" /\ lock = c /\ prod = "publish" /\ prod' = "ring"
        /\ published' = Append(published, [seqno |-> SeqnoAt(tail), addr |-> item])
        /\ UNCHANGED <<seqno_submit, want, kind, pc, item>>
    BY <1>6 DEF PushTail, PushPublish
  <2>2. published \in Seq(Desc) /\ published' \in Seq(Desc)
    BY DEF PushInv, STypeOK, TypeOK
  <2>3. /\ Len(published) \in Nat /\ Len(published') = Len(published) + 1 /\ published' # << >>
        /\ published'[Len(published')].addr = item
        /\ \A i \in 1 .. Len(published) : published'[i] = published[i]
    BY <2>1, <2>2, SMT
  <2>4. \A d \in Cpus : pc[d] = "pushing" \/ Announcing(d) => d = c
    BY <2>1, AnnouncerHolds
  <2>5. QED BY <2>1, <2>3, <2>4, SMT DEF WaitInv, Announcing
<1>7. ASSUME NEW c \in Cpus, PushBell(c) PROVE WaitInv'
  <2>1. WaitFrame
    BY <1>7, SMT DEF PushBell, PushDoorbell, WaitFrame, Announcing, PushInv, STypeOK, LockInv
  <2>2. QED BY <2>1, WaitQuiet
<1>8. ASSUME NEW c \in Cpus, NudgeBell(c) PROVE WaitInv'
  <2>1. WaitFrame
    BY <1>8, SMT DEF NudgeBell, Nudge, WaitFrame, Announcing, PushInv, STypeOK, LockInv
  <2>2. QED BY <2>1, WaitQuiet
<1>9. ASSUME NEW c \in Cpus, Retry(c) PROVE WaitInv'
  <2>1. pc'[c] \in {"idle", "try"} /\ \A d \in Cpus : d # c => pc'[d] = pc[d]
    BY <1>9, SMT DEF Retry, Finish, PushInv, STypeOK
  <2>2. UNCHANGED <<seqno_submit, published, item, prod, want, kind>>
    BY <1>9 DEF Retry
  <2>3. WaitFrame
    BY <2>1, <2>2, SMT DEF WaitFrame, Announcing
  <2>4. QED BY <2>3, WaitQuiet
<1>10. ASSUME NEW c \in Cpus, PushReturn(c) PROVE WaitInv'
  <2>1. /\ pc[c] = "return" /\ lock = c /\ want'[c] = seqno_submit
        /\ pc'[c] \in {"idle", "poll"}
        /\ UNCHANGED <<seqno_submit, published, kind, prod, item>>
        /\ \A d \in Cpus : d # c => pc'[d] = pc[d] /\ want'[d] = want[d]
    BY <1>10, SMT DEF PushReturn, PushInv, STypeOK
  <2>2. \A d \in Cpus : pc[d] = "pushing" \/ Announcing(d) => d = c
    BY <2>1, AnnouncerHolds
  <2>3. prod = "idle" /\ published \in Seq(Desc)
    BY <2>1, SMT DEF PushInv, STypeOK, TypeOK, LockInv
  <2>4. Announcing(c) /\ seqno_submit = Len(published) /\ Len(published) \in Nat \ {0}
    BY <2>1, <2>3, SMT DEF WaitInv, Announcing
  <2>5. QED BY <2>1, <2>2, <2>3, <2>4, SMT DEF WaitInv, Announcing
<1>11. ASSUME NEW c \in Cpus, PollRetired(c) PROVE WaitInv'
  <2>1. pc'[c] \in {"idle", "try"} /\ \A d \in Cpus : d # c => pc'[d] = pc[d]
    BY <1>11, SMT DEF PollRetired, Finish, PushInv, STypeOK
  <2>2. UNCHANGED <<seqno_submit, published, item, prod, want, kind>>
    BY <1>11 DEF PollRetired
  <2>3. WaitFrame
    BY <2>1, <2>2, SMT DEF WaitFrame, Announcing
  <2>4. QED BY <2>3, WaitQuiet
<1>12. ASSUME NEW c \in Cpus, PollTimeout(c) PROVE WaitInv'
  <2>1. pc'[c] \in {"idle", "try"} /\ \A d \in Cpus : d # c => pc'[d] = pc[d]
    BY <1>12, SMT DEF PollTimeout, Finish, PushInv, STypeOK
  <2>2. UNCHANGED <<seqno_submit, published, item, prod, want, kind>>
    BY <1>12 DEF PollTimeout
  <2>3. WaitFrame
    BY <2>1, <2>2, SMT DEF WaitFrame, Announcing
  <2>4. QED BY <2>3, WaitQuiet
<1>13. ASSUME NEW c \in Cpus, ServeBegin(c) PROVE WaitInv'
  <2>1. WaitFrame
    BY <1>13, SMT DEF ServeBegin, DrainBegin, WaitFrame, Announcing, PushInv, STypeOK, LockInv
  <2>2. QED BY <2>1, WaitQuiet
<1>14. ASSUME NEW c \in Cpus, ServeRefused(c) PROVE WaitInv'
  <2>1. /\ c \in Cpus /\ pc[c] \in {"bell", "nudge"}
        /\ pc'[c] = (IF pc[c] = "bell" THEN "return" ELSE "retry")
        /\ \A d \in Cpus : d # c => pc'[d] = pc[d]
    BY <1>14, AnswerEffect DEF ServeRefused
  <2>2. UNCHANGED <<seqno_submit, published, item, prod, want, kind>>
    BY <1>14 DEF ServeRefused, DrainRefused
  <2>3. WaitFrame
    BY <2>1, <2>2, SMT DEF WaitFrame, Announcing
  <2>4. QED BY <2>3, WaitQuiet
<1>15. ASSUME ServePop PROVE WaitInv'
  <2>1. WaitFrame
    BY <1>15, SMT DEF ServePop, PopBegin, PopRead, PopFree, PopEnd, WaitFrame, Announcing, PushInv, STypeOK, LockInv
  <2>2. QED BY <2>1, WaitQuiet
<1>16. ASSUME ServeExecute PROVE WaitInv'
  <2>1. WaitFrame
    BY <1>16, SMT DEF ServeExecute, Execute, WaitFrame, Announcing, PushInv, STypeOK, LockInv
  <2>2. QED BY <2>1, WaitQuiet
<1>17. ASSUME ServeRetire PROVE WaitInv'
  <2>1. /\ serving \in Cpus /\ pc[serving] \in {"bell", "nudge"}
        /\ pc'[serving] = (IF pc[serving] = "bell" THEN "return" ELSE "retry")
        /\ \A d \in Cpus : d # serving => pc'[d] = pc[d]
    BY <1>17, RetireAnswers, AnswerEffect
  <2>2. UNCHANGED <<seqno_submit, published, item, prod, want, kind>>
    BY <1>17 DEF ServeRetire, Retire
  <2>3. WaitFrame
    BY <2>1, <2>2, SMT DEF WaitFrame, Announcing
  <2>4. QED BY <2>3, WaitQuiet
<1>18. ASSUME Remap PROVE WaitInv'
  <2>1. WaitFrame
    BY <1>18, SMT DEF Remap, WaitFrame, Announcing, PushInv, STypeOK, LockInv
  <2>2. QED BY <2>1, WaitQuiet
<1>19. CASE UNCHANGED allVars
  BY <1>19, WaitQuiet, SMT DEF WaitFrame, Announcing
<1>20. QED
  BY <1>1, <1>2, <1>3, <1>4, <1>5, <1>6, <1>7, <1>8, <1>9, <1>10, <1>11, <1>12, <1>13,
     <1>14, <1>15, <1>16, <1>17, <1>18, <1>19 DEF SNext, CpuStep, Serve

(* A drained ring has room: the push of a served VM never finds it full.     *)
LEMMA RoomWhenDrained ==
  ASSUME FenceInv, cons = "idle", Len(published) = Len(executed) PROVE ~RingFull
<1>1. batch = << >> /\ Len(executed) \in Nat
  BY Lengths DEF FenceInv, RingInv, TypeInv, DrainShape
<1>2. Popped = Len(executed)
  BY <1>1, SMT DEF Popped
<1>3. Distance(tail, head) = 0
  BY <1>1, <1>2, Occupancy, SMT DEF FenceInv
<1>4. QED BY <1>3, Constants, SMT DEF RingFull, Positive

(* The CPU in a trapped doorbell write holds the lock, so it is alone there. *)
LEMMA BellAlone ==
  ASSUME PushInv, NEW c \in Cpus, lock = c
  PROVE  /\ Waiting <=> pc[c] = "bell"
         /\ pc[c] # "pushing" => prod = "idle"
BY SMT DEF PushInv, LockInv, Holding, Waiting

(* A busy server serves, while it drains, the push that holds the lock.      *)
LEMMA BusyDrain ==
  ASSUME PushInv, DrainedInv, cons # "idle"
  PROVE  serving \in Cpus /\ pc[serving] = "bell" /\ lock = serving /\ Waiting
<1>1. serving \in Cpus /\ pc[serving] \in {"bell", "nudge"}
  BY SMT DEF PushInv, LockInv, STypeOK
<1>2. pc[serving] = "bell"
  BY <1>1, SMT DEF DrainedInv
<1>3. QED BY <1>1, <1>2, SMT DEF PushInv, LockInv, Holding, Waiting

(* A step the drain does not notice.                                         *)
DrainFrame ==
  /\ UNCHANGED <<mapped, bells, cons, published, executed, batch, taken, highest, seqno_retired>>
  /\ prod' = "ring" <=> prod = "ring"
  /\ \A d \in Cpus : pc'[d] \notin {"full", "nudge", "retry"}
  /\ Waiting' <=> Waiting

LEMMA DrainQuiet == ASSUME DrainedInv, DrainFrame PROVE DrainedInv'
BY SMT DEF DrainedInv, DrainFrame

(* While the device drains, every step keeps one submission under way.       *)
LEMMA DrainedStep ==
  ASSUME FenceInv, FenceInv', PushInv, WaitInv, Served, Served', DrainedInv, [SNext]_allVars PROVE DrainedInv'
<1> USE SubmitConstants DEF Goto, vars, prodVars, consVars, cpuVars, hostVars, allVars
<1>1. ASSUME NEW c \in Cpus, NEW k \in Kinds, Enter(c, k) PROVE DrainedInv'
  <2>1. /\ pc[c] = "idle" /\ pc'[c] = "try"
        /\ \A d \in Cpus : d # c => pc'[d] = pc[d]
    BY <1>1, EnterEffect
  <2>2. /\ UNCHANGED <<mapped, bells, cons, published, executed, batch, taken, highest, seqno_retired>>
        /\ prod' = "ring" <=> prod = "ring"
    BY <1>1, Zenon DEF Enter
  <2>3. DrainFrame
    BY <2>1, <2>2, SMT DEF DrainFrame, DrainedInv, Waiting
  <2>4. QED BY <2>3, DrainQuiet
<1>2. ASSUME NEW c \in Cpus, LockRing(c) PROVE DrainedInv'
  <2>1. /\ pc[c] # "bell" /\ pc'[c] = "push"
        /\ \A d \in Cpus : d # c => pc'[d] = pc[d]
    BY <1>2, SMT DEF LockRing, PushInv, STypeOK
  <2>2. /\ UNCHANGED <<mapped, bells, cons, published, executed, batch, taken, highest, seqno_retired>>
        /\ prod' = "ring" <=> prod = "ring"
    BY <1>2, Zenon DEF LockRing
  <2>3. DrainFrame
    BY <2>1, <2>2, SMT DEF DrainFrame, DrainedInv, Waiting
  <2>4. QED BY <2>3, DrainQuiet
<1>3. ASSUME NEW c \in Cpus, PushFull(c) PROVE DrainedInv'
  <2>1. pc[c] = "push" /\ lock = c /\ RingFull
    BY <1>3 DEF PushFull
  <2>2. ~Waiting /\ prod = "idle"
    BY <2>1, BellAlone
  <2>3. cons = "idle" /\ Len(published) = Len(executed)
    BY <2>2, SMT DEF DrainedInv
  <2>4. QED BY <2>1, <2>3, RoomWhenDrained
<1>4. ASSUME NEW c \in Cpus, PushStart(c) PROVE DrainedInv'
  <2>1. /\ pc[c] # "bell" /\ pc'[c] = "pushing"
        /\ \A d \in Cpus : d # c => pc'[d] = pc[d]
    BY <1>4, SMT DEF PushStart, PushInv, STypeOK
  <2>2. /\ UNCHANGED <<mapped, bells, cons, published, executed, batch, taken, highest, seqno_retired>>
        /\ prod' = "ring" <=> prod = "ring"
    BY <1>4, Zenon DEF PushStart, PushBegin
  <2>3. DrainFrame
    BY <2>1, <2>2, SMT DEF DrainFrame, DrainedInv, Waiting
  <2>4. QED BY <2>3, DrainQuiet
<1>5. ASSUME NEW c \in Cpus, PushFill(c) PROVE DrainedInv'
  <2>1. /\ pc[c] # "bell" /\ pc'[c] = "pushing"
        /\ \A d \in Cpus : d # c => pc'[d] = pc[d]
    BY <1>5, SMT DEF PushFill, PushInv, STypeOK
  <2>2. /\ UNCHANGED <<mapped, bells, cons, published, executed, batch, taken, highest, seqno_retired>>
        /\ prod' = "ring" <=> prod = "ring"
    BY <1>5, Zenon DEF PushFill, PushWrite
  <2>3. DrainFrame
    BY <2>1, <2>2, SMT DEF DrainFrame, DrainedInv, Waiting
  <2>4. QED BY <2>3, DrainQuiet
<1>6. ASSUME NEW c \in Cpus, PushTail(c) PROVE DrainedInv'
  <2>1. /\ pc[c] = "pushing" /\ lock = c /\ prod = "publish" /\ prod' = "ring"
        /\ UNCHANGED <<pc, mapped, bells, cons, executed, batch, taken, highest, seqno_retired>>
    BY <1>6 DEF PushTail, PushPublish
  <2>2. ~Waiting /\ ~Waiting'
    BY <2>1, BellAlone, Zenon DEF Waiting
  <2>3. Len(published') = Len(published) + 1
    BY <1>6, SMT DEF PushTail, PushPublish, PushInv, STypeOK, TypeOK
  <2>4. QED BY <2>1, <2>2, <2>3, SMT DEF DrainedInv
<1>7. ASSUME NEW c \in Cpus, PushBell(c) PROVE DrainedInv'
  <2>1. /\ pc[c] = "pushing" /\ lock = c /\ prod = "ring" /\ prod' = "idle" /\ bells' = bells + 1
        /\ pc'[c] = "bell" /\ \A d \in Cpus : d # c => pc'[d] = pc[d]
        /\ UNCHANGED <<mapped, cons, published, executed, batch, taken, highest, seqno_retired>>
    BY <1>7, Zenon DEF PushBell, PushDoorbell, PushInv, STypeOK
  <2>2. ~Waiting /\ Waiting'
    BY <2>1, BellAlone, Zenon DEF Waiting
  <2>3. QED BY <2>1, <2>2, SMT DEF DrainedInv
<1>8. ASSUME NEW c \in Cpus, NudgeBell(c) PROVE DrainedInv'
  BY <1>8, SMT DEF NudgeBell, DrainedInv
<1>9. ASSUME NEW c \in Cpus, Retry(c) PROVE DrainedInv'
  BY <1>9, SMT DEF Retry, DrainedInv
<1>10. ASSUME NEW c \in Cpus, PushReturn(c) PROVE DrainedInv'
  <2>1. /\ pc[c] # "bell" /\ pc'[c] \in {"idle", "poll"}
        /\ \A d \in Cpus : d # c => pc'[d] = pc[d]
    BY <1>10, SMT DEF PushReturn, PushInv, STypeOK
  <2>2. /\ UNCHANGED <<mapped, bells, cons, published, executed, batch, taken, highest, seqno_retired>>
        /\ prod' = "ring" <=> prod = "ring"
    BY <1>10, Zenon DEF PushReturn
  <2>3. DrainFrame
    BY <2>1, <2>2, SMT DEF DrainFrame, DrainedInv, Waiting
  <2>4. QED BY <2>3, DrainQuiet
<1>11. ASSUME NEW c \in Cpus, PollRetired(c) PROVE DrainedInv'
  <2>1. /\ pc[c] # "bell" /\ pc'[c] = "idle"
        /\ \A d \in Cpus : d # c => pc'[d] = pc[d]
    BY <1>11, SMT DEF PollRetired, Finish, PushInv, STypeOK
  <2>2. /\ UNCHANGED <<mapped, bells, cons, published, executed, batch, taken, highest, seqno_retired>>
        /\ prod' = "ring" <=> prod = "ring"
    BY <1>11, Zenon DEF PollRetired
  <2>3. DrainFrame
    BY <2>1, <2>2, SMT DEF DrainFrame, DrainedInv, Waiting
  <2>4. QED BY <2>3, DrainQuiet
<1>12. ASSUME NEW c \in Cpus, PollTimeout(c) PROVE DrainedInv'
  <2>1. /\ pc[c] # "bell" /\ pc'[c] = "idle"
        /\ \A d \in Cpus : d # c => pc'[d] = pc[d]
    BY <1>12, SMT DEF PollTimeout, Finish, PushInv, STypeOK
  <2>2. /\ UNCHANGED <<mapped, bells, cons, published, executed, batch, taken, highest, seqno_retired>>
        /\ prod' = "ring" <=> prod = "ring"
    BY <1>12, Zenon DEF PollTimeout
  <2>3. DrainFrame
    BY <2>1, <2>2, SMT DEF DrainFrame, DrainedInv, Waiting
  <2>4. QED BY <2>3, DrainQuiet
<1>13. ASSUME NEW c \in Cpus, ServeBegin(c) PROVE DrainedInv'
  <2>1. /\ pc[c] \in {"bell", "nudge"} /\ cons = "idle" /\ bells' = bells - 1 /\ cons' = "pop"
        /\ batch' = << >> /\ taken' = 0
        /\ UNCHANGED <<pc, prod, mapped, published, executed, seqno_retired>>
    BY <1>13 DEF ServeBegin, DrainBegin
  <2>2. Waiting /\ Waiting'
    BY <2>1, SMT DEF Waiting, DrainedInv
  <2>3. Len(batch') = 0
    BY <2>1, SMT
  <2>4. QED BY <2>1, <2>2, <2>3, SMT DEF DrainedInv
<1>14. ASSUME NEW c \in Cpus, ServeRefused(c) PROVE DrainedInv'
  BY <1>14, SMT DEF ServeRefused, DrainedInv, Served
<1>15. ASSUME ServePop PROVE DrainedInv'
  <2>1. UNCHANGED <<pc, prod, bells, mapped, published, executed, seqno_retired>>
    BY <1>15, Zenon DEF ServePop, PopBegin, PopRead, PopFree, PopEnd
  <2>2. Waiting' <=> Waiting
    BY <2>1 DEF Waiting
  <2>3. Len(published) \in Nat /\ Len(executed) \in Nat /\ Len(batch) \in Nat
    BY Lengths DEF FenceInv, RingInv
  <2>4. CASE PopBegin
    BY <2>1, <2>2, <2>4, SMT DEF PopBegin, DrainedInv
  <2>5. CASE PopRead
    <3>1. /\ cons = "read" /\ cons' = "free" /\ taken' = taken + 1
          /\ batch' = Append(batch, slots[SlotOf(head)])
          /\ highest' = MaxOf(highest, slots[SlotOf(head)].seqno)
      BY <2>5 DEF PopRead
    <3>2. batch \in Seq(Desc) /\ batch' \in Seq(Desc)
      BY DEF FenceInv, RingInv, TypeInv, TypeOK
    <3>3. Len(batch') = Len(batch) + 1 /\ batch'[Len(batch')] = slots[SlotOf(head)]
      <4> DEFINE d == slots[SlotOf(head)]
      <4> HIDE DEF d
      <4>1. batch' = Append(batch, d)
        BY <3>1 DEF d
      <4>2. Len(batch') = Len(batch) + 1 /\ batch'[Len(batch')] = d
        BY <3>2, <4>1, SMT
      <4>3. QED BY <4>2 DEF d
    <3>4. Len(executed) + Len(batch') \in 1 .. Len(published)
      <4>1. RingInv' /\ cons' = "free"
        BY <3>1 DEF FenceInv
      <4>2. Popped' < Len(published') /\ Popped' = Len(executed') + Len(batch') - 1
        BY <4>1, Zenon DEF RingInv, IndexInv, Popped
      <4>3. QED BY <2>1, <2>3, <3>3, <4>2, SMT
    <3>5. slots[SlotOf(head)] = published[Len(executed) + Len(batch')]
      <4>1. Len(batch') \in 1 .. Len(batch')
        BY <2>3, <3>3, SMT
      <4>2. batch'[Len(batch')] = published'[Len(executed') + Len(batch')]
        BY <4>1 DEF FenceInv, RingInv, PrefixInv
      <4>3. QED BY <2>1, <3>3, <4>2
    <3>6. slots[SlotOf(head)].seqno = Len(executed) + Len(batch')
      BY <3>4, <3>5 DEF FenceInv, SeqnoInv
    <3>7. highest' \in {0, Len(executed) + Len(batch')}
      BY <2>1, <3>1, Zenon DEF FenceInv, RetireInv
    <3>8. highest \in Nat
      BY DEF FenceInv, RingInv, TypeInv, TypeOK
    <3>9. highest' = Len(executed) + Len(batch')
      BY <2>3, <3>1, <3>3, <3>6, <3>7, <3>8, SMT DEF MaxOf
    <3>10. QED BY <2>1, <2>2, <3>1, <3>3, <3>9, SMT DEF DrainedInv
  <2>6. CASE PopFree
    BY <2>1, <2>2, <2>6, SMT DEF PopFree, DrainedInv
  <2>7. CASE PopEnd
    <3>1. /\ cons = "pop" /\ cons' = "exec" /\ (taken = Cap \/ head = tail)
          /\ UNCHANGED <<batch, taken, highest>>
      BY <2>7 DEF PopEnd, BatchBound
    <3>2. Popped = Len(executed) + Len(batch) /\ Popped <= Len(published)
      <4>1. Popped \in 0 .. Len(published)
        BY DEF FenceInv, RingInv, IndexInv
      <4>2. Popped = Len(executed) + Len(batch)
        BY <2>3, <3>1, SMT DEF Popped
      <4>3. QED BY <2>3, <4>1, <4>2, SMT
    <3>3. Len(published) = Len(executed) + 1 /\ taken = Len(batch)
      <4>1. Waiting
        BY <3>1, BusyDrain
      <4>2. QED BY <3>1, <4>1, SMT DEF DrainedInv
    <3>4. Len(batch) = 1
      <4>1. CASE taken = Cap
        BY <2>3, <3>2, <3>3, <4>1, Constants, SMT DEF Positive
      <4>2. CASE head = tail
        <5>1. Distance(tail, head) = Len(published) - Popped
          BY Occupancy DEF FenceInv
        <5>2. tail \in Nat
          BY SMT DEF FenceInv, RingInv, TypeInv, TypeOK
        <5>3. tail - head = 0
          BY <4>2, <5>2, SMT
        <5>4. Distance(tail, head) = 0
          BY <5>3, Constants, ModSmall, SMT DEF Distance, Positive
        <5>5. QED BY <2>3, <3>2, <3>3, <5>1, <5>4, SMT
      <4>3. QED BY <3>1, <4>1, <4>2
    <3>5. QED BY <2>1, <2>2, <3>1, <3>3, <3>4, SMT DEF DrainedInv
  <2>8. QED BY <1>15, <2>4, <2>5, <2>6, <2>7 DEF ServePop
<1>16. ASSUME ServeExecute PROVE DrainedInv'
  <2>1. /\ cons = "exec" /\ batch # << >> /\ batch' = Tail(batch)
        /\ executed' = Append(executed, Head(batch))
        /\ UNCHANGED <<pc, prod, bells, cons, taken, highest, mapped, published, seqno_retired>>
    BY <1>16 DEF ServeExecute, Execute
  <2>2. batch \in Seq(Desc) /\ executed \in Seq(Desc)
    BY DEF FenceInv, RingInv, TypeInv, TypeOK
  <2>3. /\ Len(batch) \in Nat \ {0} /\ Len(executed) \in Nat
        /\ Len(batch') = Len(batch) - 1 /\ Len(executed') = Len(executed) + 1
    BY <2>1, <2>2, SMT
  <2>4. Waiting /\ Waiting' /\ prod = "idle"
    BY <2>1, BusyDrain, BellAlone, Zenon DEF Waiting
  <2>5. Len(executed) + Len(batch) = Len(executed') + Len(batch')
    BY <2>3, SMT
  <2>6. Len(batch') <= 1
    <3>1. Len(batch) <= 1
      BY <2>1, Zenon DEF DrainedInv
    <3>2. QED BY <2>3, <3>1, SMT
  <2>7. QED BY <2>1, <2>4, <2>5, <2>6, Zenon DEF DrainedInv
<1>17. ASSUME ServeRetire PROVE DrainedInv'
  <2>1. /\ cons = "exec" /\ batch = << >> /\ cons' = "idle"
        /\ seqno_retired' = (IF highest > 0 THEN highest ELSE seqno_retired)
        /\ UNCHANGED <<prod, bells, batch, executed, taken, highest, mapped, published>>
    BY <1>17 DEF ServeRetire, Retire
  <2>2. /\ serving \in Cpus /\ pc[serving] = "bell" /\ lock = serving /\ Waiting /\ prod = "idle"
    BY <2>1, BusyDrain, BellAlone
  <2>3. pc'[serving] = "return" /\ \A d \in Cpus : d # serving => pc'[d] = pc[d]
    BY <1>17, <2>2, RetireAnswers, AnswerEffect
  <2>4. \A d \in Cpus : d # serving => pc[d] # "bell"
    BY <2>2, SMT DEF PushInv, LockInv, Holding
  <2>5. ~Waiting'
    BY <2>3, <2>4, Zenon DEF Waiting
  <2>6. Len(published) > 0 /\ Len(executed) \in Nat /\ Len(batch) = 0
    <3>1. published # << >>
      BY <2>2, SMT DEF WaitInv, Announcing
    <3>2. published \in Seq(Desc) /\ executed \in Seq(Desc)
      BY DEF FenceInv, RingInv, TypeInv, TypeOK
    <3>3. QED BY <2>1, <3>1, <3>2, SMT
  <2>7. Len(published) = Len(executed) /\ highest = Len(executed) /\ bells = 0
    BY <2>1, <2>2, <2>6, SMT DEF DrainedInv
  <2>10. seqno_retired' = Len(executed)
    BY <2>1, <2>6, <2>7, SMT
  <2>11. UNCHANGED <<prod, bells, batch, executed, taken, highest, mapped, published>> /\ cons' = "idle"
    BY <2>1
  <2>12. mapped
    BY DEF DrainedInv
  <2>8. \A d \in Cpus : pc'[d] \notin {"full", "nudge", "retry"}
    BY <2>3, SMT DEF DrainedInv
  <2>9. QED BY <2>5, <2>7, <2>8, <2>10, <2>11, <2>12, SMT DEF DrainedInv
<1>18. ASSUME Remap PROVE DrainedInv'
  BY <1>18, SMT DEF Remap, Served, PushInv, STypeOK
<1>19. CASE UNCHANGED allVars
  BY <1>19, DrainQuiet, SMT DEF DrainFrame, Waiting, DrainedInv
<1>20. QED
  BY <1>1, <1>2, <1>3, <1>4, <1>5, <1>6, <1>7, <1>8, <1>9, <1>10, <1>11, <1>12, <1>13,
     <1>14, <1>15, <1>16, <1>17, <1>18, <1>19 DEF SNext, CpuStep, Serve

(* While the device drains, no push finds the ring full.                     *)
LEMMA PushFullImpossible ==
  ASSUME FenceInv, PushInv, DrainedInv, NEW c \in Cpus, PushFull(c) PROVE FALSE
<1>1. pc[c] = "push" /\ lock = c /\ RingFull
  BY DEF PushFull
<1>2. ~Waiting /\ prod = "idle"
  BY <1>1, BellAlone
<1>3. cons = "idle" /\ Len(published) = Len(executed)
  BY <1>2, SMT DEF DrainedInv
<1>4. QED BY <1>1, <1>3, RoomWhenDrained

(* A CPU whose workload is still to be executed, and one whose has been.     *)
Pending(c) == pc[c] \in {"try", "push"} \/ Unexecuted(c)
Done(c) == pc[c] \in {"return", "poll"} \/ (pc[c] = "bell" /\ ~Unexecuted(c))

(* A step that executes nothing and takes no CPU from waiting to done.       *)
PayloadFrame ==
  /\ UNCHANGED <<ran, entered>> /\ acked' \subseteq Ran
  /\ \A d \in Cpus :
       /\ Pending(d)' => Pending(d) /\ job'[d] = job[d]
       /\ Unexecuted(d)' /\ prod' # "write" => mem'[item'] = job'[d]
       /\ Done(d)' => Done(d) /\ job'[d] = job[d]

LEMMA PayloadQuiet == ASSUME PayloadInv, PayloadFrame PROVE PayloadInv'
<1>1. Ran' = Ran
  BY DEF PayloadFrame, Ran
<1>2. QED BY <1>1, Zenon DEF PayloadInv, PayloadFrame, Pending, Done

(* While the device drains, every step keeps the payloads.                   *)
LEMMA PayloadStep ==
  ASSUME FenceInv, PushInv, WaitInv, Served, DrainedInv, PayloadInv, [SNext]_allVars PROVE PayloadInv'
<1> USE SubmitConstants DEF Goto, vars, prodVars, consVars, cpuVars, hostVars, allVars
<1>1. ASSUME NEW c \in Cpus, NEW k \in Kinds, Enter(c, k) PROVE PayloadInv'
  <2>1. /\ entered' = entered + 1 /\ entered + 1 \in 1 .. MaxSubmits
        /\ pc[c] = "idle" /\ pc'[c] = "try" /\ job'[c] = entered + 1
        /\ \A d \in Cpus : d # c => pc'[d] = pc[d] /\ job'[d] = job[d]
        /\ \A a \in Addrs : a # c \/ k # "fwd" => mem'[a] = mem[a]
    BY <1>1, EnterEffect
  <2>2. UNCHANGED <<item, prod, published, executed, ran, acked>>
    BY <1>1 DEF Enter
  <2>3. Ran' = Ran
    BY <2>2 DEF Ran
  <2>4. entered \in Nat /\ job'[c] \notin Ran
    <3>1. entered \in Nat
      BY SubmitConstants, SMT DEF PushInv, STypeOK
    <3>2. \A i \in 1 .. Len(ran) : ran[i] # entered + 1
      BY <3>1, SMT DEF PayloadInv
    <3>3. QED BY <2>1, <3>1, <3>2 DEF Ran
  <2>5. \A d \in Cpus : Unexecuted(d)' => d # c /\ Unexecuted(d) /\ item # c
    <3>1. \A d \in Cpus : Unexecuted(d)' => d # c /\ Unexecuted(d)
      BY <2>1, <2>2, Zenon DEF Unexecuted
    <3>2. QED BY <3>1, SMT DEF WaitInv, Unexecuted, Announcing
  <2>6. item \in Addrs
    BY DEF PushInv, STypeOK, TypeOK
  <2>7. (\A d \in Cpus : Unexecuted(d) /\ prod # "write" => mem[item] = job[d])'
    BY <2>1, <2>2, <2>5, <2>6, Zenon DEF PayloadInv
  <2>8. (\A i \in 1 .. Len(ran) : ran[i] \in 1 .. entered)'
    BY <2>1, <2>2, <2>4, SMT DEF PayloadInv
  <2>9. (\A d \in Cpus : pc[d] \in {"try", "push"} \/ Unexecuted(d) => job[d] \notin Ran)'
    BY <2>1, <2>3, <2>4, <2>5, Zenon DEF PayloadInv
  <2>10. (\A d \in Cpus : pc[d] \in {"return", "poll"} \/ (pc[d] = "bell" /\ ~Unexecuted(d))
                       => job[d] \in Ran)'
    BY <2>1, <2>2, <2>3, SMT DEF PayloadInv, Unexecuted
  <2>11. QED BY <2>2, <2>3, <2>7, <2>8, <2>9, <2>10, Zenon DEF PayloadInv
<1>2. ASSUME NEW c \in Cpus, LockRing(c) PROVE PayloadInv'
  <2>1. /\ pc[c] = "try" /\ pc'[c] = "push"
        /\ \A d \in Cpus : d # c => pc'[d] = pc[d]
    BY <1>2, SMT DEF LockRing, PushInv, STypeOK
  <2>2. /\ UNCHANGED <<item, prod, published, executed, ran, entered, job, mem, acked>>
    BY <1>2, Zenon DEF LockRing
  <2>4. PayloadFrame
    BY <2>1, <2>2, SMT DEF PayloadFrame, PayloadInv, Pending, Done, Unexecuted
  <2>5. QED BY <2>4, PayloadQuiet
<1>3. ASSUME NEW c \in Cpus, PushFull(c) PROVE PayloadInv'
  BY <1>3, PushFullImpossible
<1>4. ASSUME NEW c \in Cpus, PushStart(c) PROVE PayloadInv'
  <2>1. /\ pc[c] = "push" /\ lock = c /\ pc'[c] = "pushing" /\ prod' = "write"
        /\ \A d \in Cpus : d # c => pc'[d] = pc[d]
    BY <1>4, SMT DEF PushStart, PushBegin, PushInv, STypeOK
  <2>2. UNCHANGED <<published, executed, ran, entered, job, acked>>
    BY <1>4 DEF PushStart, PushBegin
  <2>3. PayloadFrame
    BY <2>1, <2>2, SMT DEF PayloadFrame, PayloadInv, Pending, Done, Unexecuted
  <2>4. QED BY <2>3, PayloadQuiet
<1>5. ASSUME NEW c \in Cpus, PushFill(c) PROVE PayloadInv'
  <2>1. /\ pc[c] = "pushing" /\ lock = c
        /\ UNCHANGED <<pc, item, published, executed, ran, entered, job, acked>>
    BY <1>5 DEF PushFill, PushWrite
  <2>2. mem'[item] = job[c]
    <3>1. CASE kind[c] = "fwd"
      <4>1. item = c /\ item \in Addrs
        BY <2>1, <3>1, SMT DEF WaitInv, PushInv, STypeOK, TypeOK
      <4>2. mem[c] = job[c]
        BY <2>1, <3>1, SMT DEF PushInv, JobInv
      <4>3. mem'[item] = mem[item]
        BY <1>5, <3>1, <4>1, FillStores
      <4>4. QED BY <4>1, <4>2, <4>3
    <3>2. CASE kind[c] # "fwd"
      BY <1>5, <3>2, FillStores
    <3>3. QED BY <3>1, <3>2
  <2>3. \A d \in Cpus : Unexecuted(d) => d = c
    BY <2>1, SMT DEF Unexecuted, PushInv, LockInv, Holding
  <2>4. PayloadFrame
    BY <2>1, <2>2, <2>3, SMT DEF PayloadFrame, PayloadInv, Pending, Done, Unexecuted
  <2>5. QED BY <2>4, PayloadQuiet
<1>6. ASSUME NEW c \in Cpus, PushTail(c) PROVE PayloadInv'
  <2>1. /\ pc[c] = "pushing" /\ lock = c /\ prod = "publish"
        /\ UNCHANGED <<pc, item, mem, executed, ran, entered, job, acked>>
    BY <1>6 DEF PushTail, PushPublish
  <2>2. \A d \in Cpus : pc[d] # "bell"
    BY <2>1, SMT DEF PushInv, LockInv, Holding
  <2>3. PayloadFrame
    BY <2>1, <2>2, SMT DEF PayloadFrame, PayloadInv, Pending, Done, Unexecuted
  <2>4. QED BY <2>3, PayloadQuiet
<1>7. ASSUME NEW c \in Cpus, PushBell(c) PROVE PayloadInv'
  <2>1. /\ pc[c] = "pushing" /\ lock = c /\ prod = "ring" /\ pc'[c] = "bell"
        /\ \A d \in Cpus : d # c => pc'[d] = pc[d]
        /\ UNCHANGED <<item, mem, published, executed, ran, entered, job, acked>>
    BY <1>7, Zenon DEF PushBell, PushDoorbell, PushInv, STypeOK
  <2>2. Len(executed) < Len(published)
    <3>1. Len(published) = Len(executed) + 1
      BY <2>1, Zenon DEF DrainedInv
    <3>2. QED BY <3>1, Lengths, SMT DEF FenceInv, RingInv
  <2>3. PayloadFrame
    BY <2>1, <2>2, SMT DEF PayloadFrame, PayloadInv, Pending, Done, Unexecuted
  <2>4. QED BY <2>3, PayloadQuiet
<1>8. ASSUME NEW c \in Cpus, NudgeBell(c) PROVE PayloadInv'
  BY <1>8, SMT DEF NudgeBell, DrainedInv
<1>9. ASSUME NEW c \in Cpus, Retry(c) PROVE PayloadInv'
  BY <1>9, SMT DEF Retry, DrainedInv
<1>10. ASSUME NEW c \in Cpus, PushReturn(c) PROVE PayloadInv'
  <2>1. /\ pc[c] = "return" /\ pc'[c] \in {"idle", "poll"}
        /\ \A d \in Cpus : d # c => pc'[d] = pc[d]
    BY <1>10, SMT DEF PushReturn, PushInv, STypeOK
  <2>2. UNCHANGED <<item, prod, mem, published, executed, ran, entered, job, acked>>
    BY <1>10 DEF PushReturn
  <2>3. PayloadFrame
    BY <2>1, <2>2, SMT DEF PayloadFrame, PayloadInv, Pending, Done, Unexecuted
  <2>4. QED BY <2>3, PayloadQuiet
<1>11. ASSUME NEW c \in Cpus, PollRetired(c) PROVE PayloadInv'
  <2>1. Finish(c) /\ pc[c] = "poll"
    BY <1>11 DEF PollRetired
  <2>2. /\ pc'[c] = "idle" /\ \A d \in Cpus : d # c => pc'[d] = pc[d]
        /\ \A a \in Addrs : a # c => mem'[a] = mem[a]
    BY <2>1, FinishFrees
  <2>3. UNCHANGED <<item, prod, published, executed, ran, entered, job>>
    BY <1>11 DEF PollRetired
  <2>4. acked' \subseteq Ran
    BY <1>11, Zenon DEF PollRetired, PayloadInv
  <2>5. \A d \in Cpus : Unexecuted(d)' => d # c /\ Unexecuted(d) /\ item # c
    <3>1. \A d \in Cpus : Unexecuted(d)' => d # c /\ Unexecuted(d)
      BY <2>2, <2>3, Zenon DEF Unexecuted
    <3>2. QED BY <3>1, SMT DEF WaitInv, Unexecuted, Announcing
  <2>6. item \in Addrs
    BY DEF PushInv, STypeOK, TypeOK
  <2>7. \A d \in Cpus : Unexecuted(d)' /\ prod' # "write" => mem'[item'] = job'[d]
    BY <2>2, <2>3, <2>5, <2>6, Zenon DEF PayloadInv
  <2>8. \A d \in Cpus : (Pending(d)' => Pending(d)) /\ (Done(d)' => Done(d))
    BY <2>2, <2>3, SMT DEF Pending, Done, Unexecuted
  <2>9. PayloadFrame
    BY <2>3, <2>4, <2>7, <2>8, Zenon DEF PayloadFrame
  <2>10. QED BY <2>9, PayloadQuiet
<1>12. ASSUME NEW c \in Cpus, PollTimeout(c) PROVE PayloadInv'
  <2>1. Finish(c) /\ pc[c] = "poll"
    BY <1>12 DEF PollTimeout
  <2>2. /\ pc'[c] = "idle" /\ \A d \in Cpus : d # c => pc'[d] = pc[d]
        /\ \A a \in Addrs : a # c => mem'[a] = mem[a]
    BY <2>1, FinishFrees
  <2>3. UNCHANGED <<item, prod, published, executed, ran, entered, job>>
    BY <1>12 DEF PollTimeout
  <2>4. acked' \subseteq Ran
    BY <1>12, Zenon DEF PollTimeout, PayloadInv
  <2>5. \A d \in Cpus : Unexecuted(d)' => d # c /\ Unexecuted(d) /\ item # c
    <3>1. \A d \in Cpus : Unexecuted(d)' => d # c /\ Unexecuted(d)
      BY <2>2, <2>3, Zenon DEF Unexecuted
    <3>2. QED BY <3>1, SMT DEF WaitInv, Unexecuted, Announcing
  <2>6. item \in Addrs
    BY DEF PushInv, STypeOK, TypeOK
  <2>7. \A d \in Cpus : Unexecuted(d)' /\ prod' # "write" => mem'[item'] = job'[d]
    BY <2>2, <2>3, <2>5, <2>6, Zenon DEF PayloadInv
  <2>8. \A d \in Cpus : (Pending(d)' => Pending(d)) /\ (Done(d)' => Done(d))
    BY <2>2, <2>3, SMT DEF Pending, Done, Unexecuted
  <2>9. PayloadFrame
    BY <2>3, <2>4, <2>7, <2>8, Zenon DEF PayloadFrame
  <2>10. QED BY <2>9, PayloadQuiet
<1>13. ASSUME NEW c \in Cpus, ServeBegin(c) PROVE PayloadInv'
  <2>1. UNCHANGED <<pc, item, prod, mem, published, executed, ran, entered, job, acked>>
    BY <1>13, Zenon DEF ServeBegin, DrainBegin
  <2>2. PayloadFrame
    BY <2>1, SMT DEF PayloadFrame, PayloadInv, Pending, Done, Unexecuted
  <2>3. QED BY <2>2, PayloadQuiet
<1>14. ASSUME NEW c \in Cpus, ServeRefused(c) PROVE PayloadInv'
  BY <1>14, SMT DEF ServeRefused, DrainedInv, Served
<1>15. ASSUME ServePop PROVE PayloadInv'
  <2>1. UNCHANGED <<pc, item, prod, mem, published, executed, ran, entered, job, acked>>
    BY <1>15, Zenon DEF ServePop, PopBegin, PopRead, PopFree, PopEnd
  <2>2. PayloadFrame
    BY <2>1, SMT DEF PayloadFrame, PayloadInv, Pending, Done, Unexecuted
  <2>3. QED BY <2>2, PayloadQuiet
<1>16. ASSUME ServeExecute PROVE PayloadInv'
  <2>1. /\ cons = "exec" /\ batch # << >> /\ executed' = Append(executed, Head(batch))
        /\ ran' = Append(ran, mem[Head(batch).addr])
        /\ UNCHANGED <<pc, item, prod, mem, published, entered, job, acked>>
    BY <1>16 DEF ServeExecute, Execute
  <2>2. PICK c \in Cpus : pc[c] = "bell" /\ lock = c /\ prod = "idle"
    BY <2>1, BusyDrain, BellAlone
  <2>3. /\ batch \in Seq(Desc) /\ executed \in Seq(Desc) 
        /\ ran \in Seq((1 .. MaxSubmits) \cup {Gone}) /\ published \in Seq(Desc)
    BY DEF FenceInv, RingInv, TypeInv, TypeOK, PushInv
  <2>4. /\ Len(batch) \in Nat \ {0} /\ Len(executed) \in Nat /\ Len(published) \in Nat
    BY <2>1, <2>3, SMT
  <2>22. Len(executed') = Len(executed) + 1 /\ Head(batch) = batch[1]
    BY <2>1, <2>3, SMT
  <2>5. Len(batch) = 1 /\ Len(published) = Len(executed) + 1
    <3>1. Len(batch) <= 1 /\ Len(executed) + Len(batch) = Len(published)
      BY <2>1, Zenon DEF DrainedInv
    <3>2. Len(batch) = 1
      <4>1. \A n \in Nat \ {0} : n <= 1 => n = 1
        BY SMT
      <4>2. QED BY <2>4, <3>1, <4>1, Zenon
    <3>3. QED BY <3>1, <3>2
  <2>6. Unexecuted(c) /\ ~Unexecuted(c)' /\ Announcing(c)
    BY <2>1, <2>2, <2>4, <2>5, <2>22, SMT DEF Unexecuted, Announcing
  <2>7. mem[Head(batch).addr] = job[c]
    <3>1. batch[1] = published[Len(published)]
      <4>1. 1 \in 1 .. Len(batch)
        BY <2>5, SMT
      <4>2. QED BY <2>5, <4>1, Zenon DEF FenceInv, RingInv, PrefixInv
    <3>2. published[Len(published)].addr = item
      BY <2>2, <2>6, Zenon DEF WaitInv
    <3>3. mem[item] = job[c]
      BY <2>2, <2>6, SMT DEF PayloadInv
    <3>4. QED BY <2>22, <3>1, <3>2, <3>3
  <2>8. job[c] \in 1 .. entered /\ job[c] \in (1 .. MaxSubmits) \cup {Gone}
    BY <2>2, SubmitConstants, SMT DEF PushInv, JobInv, STypeOK
  <2>9. job[c] \notin Ran
    BY <2>2, <2>6, Zenon DEF PayloadInv
  <2>10. /\ Len(ran) \in Nat /\ Len(ran') = Len(ran) + 1 /\ ran'[Len(ran')] = job[c]
         /\ \A i \in 1 .. Len(ran) : ran'[i] = ran[i]
    BY <2>1, <2>3, <2>7, <2>8, SMT
  <2>11. Ran' = Ran \cup {job[c]}
    BY <2>10, SMT DEF Ran
  <2>12. \A i \in 1 .. Len(ran) : ran[i] # job[c]
    BY <2>9 DEF Ran
  <2>13. (\A i \in 1 .. Len(ran) : ran[i] \in 1 .. entered)'
    BY <2>1, <2>8, <2>10, SMT DEF PayloadInv
  <2>14. (\A i, j \in 1 .. Len(ran) : ran[i] = ran[j] => i = j)'
    BY <2>10, <2>12, SMT DEF PayloadInv
  <2>15. \A d \in Cpus : (pc[d] \in {"pushing", "bell", "return"}) => d = c
    BY <2>2, SMT DEF PushInv, LockInv, Holding
  <2>16. \A d \in Cpus : ~Unexecuted(d)'
    BY <2>1, <2>2, <2>6, <2>15, Zenon DEF Unexecuted
  <2>17. \A d \in Cpus : pc[d] \in {"try", "push"} => job[d] # job[c]
    BY <2>2, SMT DEF PushInv, JobInv
  <2>18. (\A d \in Cpus : pc[d] \in {"try", "push"} \/ Unexecuted(d) => job[d] \notin Ran)'
    BY <2>1, <2>11, <2>16, <2>17, Zenon DEF PayloadInv
  <2>19. (\A d \in Cpus : pc[d] \in {"return", "poll"} \/ (pc[d] = "bell" /\ ~Unexecuted(d))
                       => job[d] \in Ran)'
    BY <2>1, <2>11, <2>15, Zenon DEF PayloadInv
  <2>20. (acked \subseteq Ran)'
    BY <2>1, <2>11, Zenon DEF PayloadInv
  <2>21. QED BY <2>13, <2>14, <2>16, <2>18, <2>19, <2>20, Zenon DEF PayloadInv
<1>17. ASSUME ServeRetire PROVE PayloadInv'
  <2>1. /\ cons = "exec" /\ batch = << >>
        /\ UNCHANGED <<item, prod, mem, executed, published, ran, entered, job, acked>>
    BY <1>17 DEF ServeRetire, Retire
  <2>2. /\ serving \in Cpus /\ pc[serving] = "bell" /\ lock = serving
    BY <2>1, BusyDrain
  <2>3. pc'[serving] = "return" /\ \A d \in Cpus : d # serving => pc'[d] = pc[d]
    BY <1>17, <2>2, RetireAnswers, AnswerEffect
  <2>4. Len(published) = Len(executed) /\ Len(executed) \in Nat
    <3>1. Len(batch) = 0 /\ Len(executed) \in Nat
      BY <2>1, Lengths DEF FenceInv, RingInv
    <3>2. Len(executed) + Len(batch) = Len(published)
      BY <2>1, Zenon DEF DrainedInv
    <3>3. QED BY <3>1, <3>2, SMT
  <2>5. Done(serving)
    BY <2>2, <2>4, SMT DEF Done, Unexecuted
  <2>6. PayloadFrame
    BY <2>1, <2>2, <2>3, <2>5, SMT DEF PayloadFrame, PayloadInv, Pending, Done, Unexecuted
  <2>7. QED BY <2>6, PayloadQuiet
<1>18. ASSUME Remap PROVE PayloadInv'
  <2>1. UNCHANGED <<pc, item, prod, mem, published, executed, ran, entered, job, acked>>
    BY <1>18, Zenon DEF Remap
  <2>2. PayloadFrame
    BY <2>1, SMT DEF PayloadFrame, PayloadInv, Pending, Done, Unexecuted
  <2>3. QED BY <2>2, PayloadQuiet
<1>19. CASE UNCHANGED allVars
  BY <1>19, PayloadQuiet, SMT DEF PayloadFrame, PayloadInv, Pending, Done, Unexecuted
<1>20. QED
  BY <1>1, <1>2, <1>3, <1>4, <1>5, <1>6, <1>7, <1>8, <1>9, <1>10, <1>11, <1>12, <1>13,
     <1>14, <1>15, <1>16, <1>17, <1>18, <1>19 DEF SNext, CpuStep, Serve

(* All of it is inductive, and once the device stops draining the last part  *)
(* is given up for good: admitted and remaps never come back.                *)
LEMMA SubmitInvStep ==
  ASSUME OneLap PROVE SubmitInv /\ [SNext]_allVars => SubmitInv'
<1> SUFFICES ASSUME SubmitInv, [SNext]_allVars PROVE SubmitInv'
  OBVIOUS
<1>1. PushInv /\ FenceInv /\ WaitInv
  BY DEF SubmitInv
<1>2. FenceInv' /\ TypeOK'
  <2>1. TypeInv
    BY <1>1 DEF FenceInv, RingInv
  <2>2. FenceInv'
    BY <1>1, <2>1, SubmitStep, FenceStep
  <2>3. QED BY <2>2 DEF FenceInv, RingInv, TypeInv
<1>3. PushInv'
  <2>1. STypeOK'
    BY <1>1, <1>2, SubmitTypesStep
  <2>2. LockInv'
    BY <1>1, <1>2, LockStep
  <2>3. JobInv'
    BY <1>1, <1>2, JobStep
  <2>4. (ran \in Seq((1 .. MaxSubmits) \cup {Gone}))'
    BY <1>1, RanStep
  <2>5. QED BY <2>1, <2>2, <2>3, <2>4 DEF PushInv
<1>4. WaitInv'
  BY <1>1, <1>2, WaitStep
<1>5. ASSUME Served' PROVE DrainedInv' /\ PayloadInv'
  <2>1. Served
    <3>1. admitted' = admitted /\ (remaps' = remaps \/ remaps' = remaps + 1)
      BY Zenon DEF SNext, CpuStep, Serve, allVars, hostVars, Enter, LockRing, PushFull,
         PushStart, PushFill, PushTail, PushBell, NudgeBell, Retry, PushReturn, PollRetired,
         PollTimeout, ServeBegin, ServeRefused, ServePop, ServeExecute, ServeRetire, Remap
    <3>2. remaps \in Nat
      BY <1>1, SubmitConstants, SMT DEF PushInv, STypeOK
    <3>3. QED BY <1>5, <3>1, <3>2, SMT DEF Served
  <2>2. DrainedInv /\ PayloadInv
    BY <2>1 DEF SubmitInv, ServedInv
  <2>3. DrainedInv'
    BY <1>1, <1>2, <1>5, <2>1, <2>2, DrainedStep
  <2>4. PayloadInv'
    BY <1>1, <2>1, <2>2, PayloadStep
  <2>5. QED BY <2>3, <2>4
<1>6. ServedInv'
  BY <1>5 DEF ServedInv
<1>7. QED BY <1>2, <1>3, <1>4, <1>6 DEF SubmitInv

LEMMA SubmitInvariant == ASSUME OneLap PROVE SSpec => []SubmitInv
BY SubmitInit, SubmitInvStep, PTL DEF SSpec

(* Type correctness of the driver's and the server thread's state.           *)
THEOREM SubmitTypeCorrect == ASSUME OneLap PROVE SSpec => []STypeOK
<1>1. SubmitInv => STypeOK
  BY DEF SubmitInv, PushInv
<1>2. QED BY <1>1, SubmitInvariant, PTL

(* For any number of CPUs, while the device drains, a doorbell write returns *)
(* only after its submission has been retired: no ioctl times out.           *)
THEOREM DoorbellRetirement == ASSUME OneLap PROVE SSpec => []DoorbellRetires
<1>1. ASSUME SubmitInv PROVE DoorbellRetires
  <2> SUFFICES ASSUME Served, NEW c \in Cpus
               PROVE  /\ pc[c] = "return" => seqno_retired >= seqno_submit
                      /\ pc[c] = "poll" => seqno_retired >= want[c]
    BY DEF DoorbellRetires
  <2>1. PushInv /\ WaitInv /\ DrainedInv
    BY <1>1 DEF SubmitInv, ServedInv
  <2>2. seqno_retired \in Nat /\ Len(published) \in Nat /\ Len(executed) \in Nat
    BY <1>1, Lengths DEF SubmitInv, FenceInv, RingInv, TypeInv, TypeOK
  <2>4. CASE pc[c] = "return"
    <3>1. lock = c
      BY <2>1, <2>4, AnnouncerHolds DEF Announcing
    <3>2. ~Waiting /\ prod = "idle"
      BY <2>1, <2>4, <3>1, BellAlone
    <3>3. seqno_retired = Len(published)
      BY <2>1, <3>2, Zenon DEF DrainedInv
    <3>4. seqno_submit = Len(published)
      BY <2>1, <2>2, <3>2, SMT DEF WaitInv
    <3>5. QED BY <2>2, <2>4, <3>3, <3>4, SMT
  <2>5. CASE pc[c] = "poll"
    <3>1. want[c] \in 1 .. Len(published)
      BY <2>1, <2>5, Zenon DEF WaitInv
    <3>2. CASE prod = "ring" \/ Waiting
      <4>1. PICK d \in Cpus : Announcing(d)
        BY <2>1, <3>2, SMT DEF PushInv, LockInv, Waiting, Announcing
      <4>2. want[c] < Len(published)
        BY <2>1, <2>5, <4>1, Zenon DEF WaitInv
      <4>3. Len(published) = seqno_retired + 1
        BY <2>1, <3>2, Zenon DEF DrainedInv
      <4>4. QED BY <2>2, <2>5, <3>1, <4>2, <4>3, SMT
    <3>3. CASE ~(prod = "ring" \/ Waiting)
      <4>1. seqno_retired = Len(published)
        BY <2>1, <3>3, Zenon DEF DrainedInv
      <4>2. QED BY <2>2, <2>5, <3>1, <4>1, SMT
    <3>4. QED BY <3>2, <3>3
  <2>6. QED BY <2>4, <2>5
<1>2. QED BY <1>1, SubmitInvariant, PTL

(* While the device drains, every workload it executes is one a CPU          *)
(* submitted, intact, and no two are the same.                               *)
THEOREM PayloadIntegrity == ASSUME OneLap PROVE SSpec => []PayloadIntact
<1>1. ASSUME SubmitInv PROVE PayloadIntact
  <2> SUFFICES ASSUME Served
               PROVE  /\ Gone \notin {ran[i] : i \in 1 .. Len(ran)}
                      /\ \A i, j \in 1 .. Len(ran) : ran[i] = ran[j] => i = j
    BY DEF PayloadIntact
  <2>1. PayloadInv
    BY <1>1 DEF SubmitInv, ServedInv
  <2>2. \A i \in 1 .. Len(ran) : ran[i] # Gone
    BY <1>1, <2>1, SubmitConstants, SMT DEF PayloadInv, SubmitInv, PushInv, STypeOK
  <2>3. QED BY <2>1, <2>2, Zenon DEF PayloadInv
<1>2. QED BY <1>1, SubmitInvariant, PTL

(* While the device drains, an ioctl that returned 0 has been executed, with *)
(* the payload it passed.                                                    *)
THEOREM AcknowledgedExecution == ASSUME OneLap PROVE SSpec => []AckedRan
<1>1. SubmitInv => AckedRan
  BY DEF SubmitInv, ServedInv, PayloadInv, Ran, AckedRan
<1>2. QED BY <1>1, SubmitInvariant, PTL

(* A CPU polls for its own submission, no other CPU's, whatever the host     *)
(* refuses and however often the ring is full.                               *)
THEOREM OwnSeqno == ASSUME OneLap PROVE SSpec => []WaitsForItsOwn
<1>1. ASSUME SubmitInv PROVE WaitsForItsOwn
  <2>1. WaitInv /\ SeqnoInv
    BY <1>1 DEF SubmitInv, FenceInv
  <2>2. QED BY <2>1, Zenon DEF WaitInv, SeqnoInv, WaitsForItsOwn
<1>2. QED BY <1>1, SubmitInvariant, PTL
=============================================================================
