-------------------------- MODULE GuestDisplayProofs --------------------------
(***************************************************************************)
(* Proofs about the driver's display path, for any framebuffers, cache and *)
(* ring, and any order of flips, other pushes, nudges and remaps: cached   *)
(* buffers stay good for a flush, the head is bound to nothing forgotten,  *)
(* and the screen is what the guest drew.                                  *)
(***************************************************************************)
EXTENDS GuestDisplay, FiniteSetTheorems, WellFoundedInduction, TLAPS

\* The host's table has room for more blobs than the driver caches.
RoomForCache == CacheSize < MaxBlobs

\* It has room for all that is ever registered, so that a CREATE is never refused however
\* many DESTROYs were lost to a full ring.
RoomForAll == MaxFlips <= MaxBlobs

-----------------------------------------------------------------------------
(* The inductive invariant.                                                  *)

\* The host's state, where the frames shown are of V.
HostOf(V) == [blobs : [ResIds -> Fbs \cup {Never, Absent}], scanout : ResIds \cup {0},
              shown : [Regions -> V]]

Messages == [op : {"create", "bind", "destroy"}, res : ResIds]
              \cup [op : {"attach"}, res : ResIds, fb : Fbs]
              \cup [op : {"flush"}, res : ResIds, damage : SUBSET Regions]
              \cup [op : {"submit"}]

Shape ==
  /\ ring \in Seq(Messages) /\ Len(ring) <= Cap
  /\ mapped \in BOOLEAN /\ everRetired \in BOOLEAN
  /\ frames \in 0 .. MaxFlips /\ nextRes \in 0 .. frames
  /\ host \in HostOf(0 .. frames) /\ Settled \in HostOf(0 .. frames)
  /\ pixels \in [Fbs -> [Regions -> 0 .. frames]]
  /\ screen \in [Regions -> 0 .. frames]
  /\ cache \in [Slots -> [res : ResIds \cup {0}, fb : Fbs \cup {Never}]]
  /\ cacheNext \in Slots /\ scanoutRes \in ResIds \cup {0}
  /\ pc \in {"idle", "create", "attach", "bind", "fill", "rebind", "flush"}
  /\ flip \in [fb : Fbs \cup {Never}, res : ResIds \cup {0}, damage : SUBSET Regions]
  /\ history \in [dropped : BOOLEAN, whole : BOOLEAN, fresh : BOOLEAN, sound : BOOLEAN]

\* A slot is empty or holds an id that was given out; no two hold the same.
CacheInv ==
  /\ \A s \in Slots : cache[s] = EmptySlot \/ (cache[s].res \in 1 .. nextRes /\ cache[s].fb \in Fbs)
  /\ \A s, t \in Slots :
       s # t /\ cache[s] # EmptySlot
         => cache[s].fb # cache[t].fb /\ cache[s].res # cache[t].res

\* The flip has drawn its buffer; until it fills its slot the buffer is new to the cache,
\* afterwards it is cached, and bound as far as the driver knows.
FlipInv ==
  /\ pc # "idle" => flip.fb \in Fbs /\ flip.res \in ResIds /\ pixels[flip.fb] = screen
  /\ pc \in {"create", "attach", "bind", "fill"} =>
       /\ flip.res = nextRes
       /\ \A s \in Slots : cache[s].res # flip.res /\ cache[s].fb # flip.fb
  /\ pc \in {"attach", "bind", "fill"} => everRetired
  /\ pc \in {"rebind", "flush"} => \E s \in Slots : cache[s] = [res |-> flip.res, fb |-> flip.fb]
  /\ pc \in {"fill", "flush"} => scanoutRes = flip.res

\* What the registration has got the host to do so far; ids not yet given out are free.
BlobsInv ==
  /\ \A r \in ResIds : Exists(Settled, r) => r <= nextRes /\ (pc = "create" => r < nextRes)
  /\ pc = "attach" => Exists(Settled, flip.res)
  /\ pc \in {"bind", "fill"} => Settled.blobs[flip.res] = flip.fb
  /\ pc = "fill" => Settled.scanout = flip.res
  /\ FlushesLand /\ HeadKnown
  /\ ~history.dropped =>
       Blobs(Settled) = CachedIds \cup (IF pc \in {"attach", "bind", "fill"} THEN {flip.res} ELSE {})

\* The driver knows the head; between its first push and its flush the screen lacks no
\* more than what the flush will bring.
ShownInv ==
  /\ history.sound => Settled.scanout = scanoutRes
  /\ history.fresh /\ pc = "flush" => Settled.scanout = flip.res
  /\ history.sound => \A a \in Regions : pc = "idle" \/ a \notin flip.damage => Settled.shown[a] = screen[a]

\* What holds of the driver whatever the host refuses ...
DriverInv == Shape /\ CacheInv /\ FlipInv

\* ... and what holds of both while there is room.
DisplayInv == DriverInv /\ BlobsInv /\ ShownInv

Roomy == RoomForAll \/ (RoomForCache /\ ~history.dropped)

-----------------------------------------------------------------------------
(* A batch, descriptor by descriptor.                                        *)

\* A set of numbers has a least.
LEMMA LeastOf ==
    ASSUME NEW S \in SUBSET Nat, S # {}
    PROVE  \E n \in S : \A m \in S : ~(m < n)
<1>1. IsWellFoundedOn(OpToRel(<, Nat), Nat)  BY NatLessThanWellFounded
<1>2. PICK n \in S : \A m \in S : ~(<<m, n>> \in OpToRel(<, Nat))  BY <1>1, WFMin
<1> QED  BY <1>2 DEF OpToRel

IsAfter(f, h, msgs, drawn, n) ==
    f = [i \in 0 .. n |-> IF i = 0 THEN h ELSE Execute(f[i - 1], msgs[i], drawn)]

LEMMA AfterExists ==
    ASSUME NEW h, NEW msgs, NEW drawn, NEW n \in Nat
    PROVE  \E f : IsAfter(f, h, msgs, drawn, n)
<1> DEFINE Bad == {k \in Nat : ~\E f : IsAfter(f, h, msgs, drawn, k)}
<1>1. SUFFICES ASSUME Bad # {} PROVE FALSE  OBVIOUS
<1>2. PICK k \in Bad : \A m \in Bad : ~(m < k)  BY <1>1, LeastOf
<1>3. k # 0
  <2> DEFINE g == [i \in 0 .. 0 |-> h]
  <2>1. g = [i \in 0 .. 0 |-> IF i = 0 THEN h ELSE Execute(g[i - 1], msgs[i], drawn)]  OBVIOUS
  <2>2. IsAfter(g, h, msgs, drawn, 0)  BY <2>1 DEF IsAfter
  <2> QED  BY <2>2
<1>4. k - 1 \in Nat /\ k - 1 \notin Bad  BY <1>2, <1>3
<1>5. PICK f : IsAfter(f, h, msgs, drawn, k - 1)  BY <1>4
<1> DEFINE g == [i \in 0 .. k |-> IF i = k THEN Execute(f[k - 1], msgs[k], drawn) ELSE f[i]]
<1>6. \A i \in 0 .. k : g[i] = IF i = 0 THEN h ELSE Execute(g[i - 1], msgs[i], drawn)
  <2>1. \A i \in 0 .. (k - 1) : g[i] = f[i]  BY <1>2
  <2>2. \A i \in 0 .. (k - 1) : f[i] = IF i = 0 THEN h ELSE Execute(f[i - 1], msgs[i], drawn)
    BY <1>5 DEF IsAfter
  <2>3. g[k] = Execute(f[k - 1], msgs[k], drawn)  BY <1>2
  <2> HIDE DEF g
  <2>4. ASSUME NEW i \in 0 .. k PROVE g[i] = IF i = 0 THEN h ELSE Execute(g[i - 1], msgs[i], drawn)
    <3>1. CASE i = k  BY <3>1, <1>3, <1>4, <2>1, <2>3
    <3>2. CASE i = 0  BY <3>2, <1>3, <1>4, <2>1, <2>2
    <3>3. CASE i # 0 /\ i # k
      <4>1. i \in 0 .. (k - 1) /\ i - 1 \in 0 .. (k - 1)  BY <3>3
      <4> QED  BY <3>3, <4>1, <2>1, <2>2
    <3> QED  BY <3>1, <3>2, <3>3
  <2> QED  BY <2>4
<1>7. IsAfter(g, h, msgs, drawn, k)
  <2>1. g = [i \in 0 .. k |-> g[i]]  OBVIOUS
  <2> HIDE DEF g
  <2> QED  BY <1>6, <2>1 DEF IsAfter
<1> QED  BY <1>2, <1>7

\* A run of a batch begins with the host and executes one descriptor a step.
Unfolds(f, h, msgs, drawn, n) ==
    f[0] = h /\ \A i \in 1 .. n : f[i] = Execute(f[i - 1], msgs[i], drawn)

LEMMA AfterFacts ==
    ASSUME NEW h, NEW msgs, NEW n \in Nat, Len(msgs) = n, NEW drawn
    PROVE  Unfolds(After(h, msgs, drawn), h, msgs, drawn, n)
<1> DEFINE g == After(h, msgs, drawn)
<1>1. PICK f : IsAfter(f, h, msgs, drawn, n)  BY AfterExists
<1>2. g = [i \in 0 .. n |-> IF i = 0 THEN h ELSE Execute(g[i - 1], msgs[i], drawn)]
  BY <1>1 DEF IsAfter, After
<1> HIDE DEF g
<1>3. \A i \in 0 .. n : g[i] = IF i = 0 THEN h ELSE Execute(g[i - 1], msgs[i], drawn)  BY <1>2
<1>4. g[0] = h  BY <1>3
<1>5. \A i \in 1 .. n : g[i] = Execute(g[i - 1], msgs[i], drawn)  BY <1>3
<1> QED  BY <1>4, <1>5 DEF g, Unfolds

LEMMA DrainedEmpty ==
    ASSUME NEW h, NEW drawn
    PROVE  Drained(h, << >>, drawn) = h
<1>1. Unfolds(After(h, << >>, drawn), h, << >>, drawn, 0)  BY AfterFacts
<1> QED  BY <1>1 DEF Drained, Unfolds

LEMMA DrainedAppend ==
    ASSUME NEW h, NEW drawn, NEW T, NEW msgs \in Seq(T), NEW msg \in T
    PROVE  Drained(h, Append(msgs, msg), drawn) = Execute(Drained(h, msgs, drawn), msg, drawn)
<1> DEFINE n == Len(msgs)
           more == Append(msgs, msg)
           f == After(h, msgs, drawn)
           g == After(h, more, drawn)
           Bad == {i \in 0 .. n : f[i] # g[i]}
<1>1. n \in Nat /\ Len(more) = n + 1 /\ more[n + 1] = msg /\ \A i \in 1 .. n : more[i] = msgs[i]
  OBVIOUS
<1>2. f[0] = h /\ \A i \in 1 .. n : f[i] = Execute(f[i - 1], msgs[i], drawn)
  <2>1. Unfolds(f, h, msgs, drawn, n)  BY <1>1, AfterFacts
  <2> QED  BY <2>1 DEF Unfolds
<1>3. g[0] = h /\ \A i \in 1 .. n + 1 : g[i] = Execute(g[i - 1], more[i], drawn)
  <2>1. Len(more) = n + 1 /\ n + 1 \in Nat  BY <1>1
  <2> HIDE DEF more, n
  <2>2. Unfolds(g, h, more, drawn, n + 1)  BY <2>1, AfterFacts
  <2> QED  BY <2>2 DEF Unfolds
<1> HIDE DEF n, f, g, more
<1>4. Bad = {}
  <2>1. SUFFICES ASSUME Bad # {} PROVE FALSE  OBVIOUS
  <2>2. Bad \subseteq Nat  BY <1>1
  <2>3. PICK k \in Bad : \A m \in Bad : ~(m < k)  BY <2>1, <2>2, LeastOf
  <2>4. k \in 1 .. n /\ k - 1 \in 0 .. n /\ k - 1 < k  BY <1>1, <1>2, <1>3, <2>3
  <2>5. f[k - 1] = g[k - 1]  BY <2>3, <2>4
  <2> QED  BY <1>1, <1>2, <1>3, <2>3, <2>4, <2>5
<1>5. f[n] = g[n]  BY <1>1, <1>4
<1>6. g[n + 1] = Execute(f[n], msg, drawn)
  <2>1. n + 1 \in 1 .. n + 1 /\ (n + 1) - 1 = n  BY <1>1
  <2> QED  BY <1>1, <1>3, <1>5, <2>1
<1> QED  BY <1>1, <1>6 DEF Drained, f, g, n, more

-----------------------------------------------------------------------------
(* What one descriptor does.                                                 *)

LEMMA HostRecord ==
    ASSUME NEW V, NEW h \in HostOf(V)
    PROVE  /\ h.blobs \in [ResIds -> Fbs \cup {Never, Absent}]
           /\ h.scanout \in ResIds \cup {0} /\ h.shown \in [Regions -> V]
BY DEF HostOf

\* Any one field may be given another value of its type.
LEMMA HostExcept ==
    ASSUME NEW V, NEW h \in HostOf(V)
    PROVE  /\ \A b \in [ResIds -> Fbs \cup {Never, Absent}] :
                LET g == [h EXCEPT !.blobs = b]
                IN  g \in HostOf(V) /\ g.blobs = b /\ g.scanout = h.scanout /\ g.shown = h.shown
           /\ \A s \in ResIds \cup {0} :
                LET g == [h EXCEPT !.scanout = s]
                IN  g \in HostOf(V) /\ g.blobs = h.blobs /\ g.scanout = s /\ g.shown = h.shown
           /\ \A p \in [Regions -> V] :
                LET g == [h EXCEPT !.shown = p]
                IN  g \in HostOf(V) /\ g.blobs = h.blobs /\ g.scanout = h.scanout /\ g.shown = p
BY DEF HostOf

LEMMA CreateFacts ==
    ASSUME NEW V, NEW h \in HostOf(V), NEW res \in ResIds
    PROVE  /\ Create(h, res) \in HostOf(V)
           /\ Create(h, res).scanout = h.scanout /\ Create(h, res).shown = h.shown
           /\ \A r \in ResIds \ {res} : Create(h, res).blobs[r] = h.blobs[r]
           /\ Create(h, res).blobs[res] \in {h.blobs[res], Never}
           /\ Cardinality(Blobs(h)) < MaxBlobs /\ ~Exists(h, res) => Create(h, res).blobs[res] = Never
<1> DEFINE b == [h.blobs EXCEPT ![res] = Never]
<1>1. /\ b \in [ResIds -> Fbs \cup {Never, Absent}] /\ b[res] = Never
      /\ \A r \in ResIds \ {res} : b[r] = h.blobs[r]
  BY HostRecord
<1>2. [h EXCEPT !.blobs[res] = Never] = [h EXCEPT !.blobs = b]  OBVIOUS
<1> DEFINE g == [h EXCEPT !.blobs = b]
           go == Cardinality(Blobs(h)) < MaxBlobs /\ ~Exists(h, res)
<1>3. Create(h, res) = IF go THEN g ELSE h  BY <1>2 DEF Create
<1> HIDE DEF b
<1>4. g \in HostOf(V) /\ g.blobs = b /\ g.scanout = h.scanout /\ g.shown = h.shown  BY <1>1, HostExcept
<1> HIDE DEF g
<1>5. CASE go  BY <1>1, <1>3, <1>4, <1>5
<1>6. CASE ~go  BY <1>3, <1>6
<1> QED  BY <1>5, <1>6

LEMMA AttachFacts ==
    ASSUME NEW V, NEW h \in HostOf(V), NEW res \in ResIds, NEW f \in Fbs
    PROVE  /\ Attach(h, res, f) \in HostOf(V)
           /\ Attach(h, res, f).scanout = h.scanout /\ Attach(h, res, f).shown = h.shown
           /\ \A r \in ResIds \ {res} : Attach(h, res, f).blobs[r] = h.blobs[r]
           /\ Attach(h, res, f).blobs[res] = IF Exists(h, res) THEN f ELSE Absent
<1> DEFINE b == [h.blobs EXCEPT ![res] = f]
<1>1. /\ b \in [ResIds -> Fbs \cup {Never, Absent}] /\ b[res] = f
      /\ \A r \in ResIds \ {res} : b[r] = h.blobs[r]
  BY HostRecord
<1>2. [h EXCEPT !.blobs[res] = f] = [h EXCEPT !.blobs = b]  OBVIOUS
<1> DEFINE g == [h EXCEPT !.blobs = b]
<1>3. Attach(h, res, f) = IF Exists(h, res) THEN g ELSE h  BY <1>2 DEF Attach
<1> HIDE DEF b
<1>4. g \in HostOf(V) /\ g.blobs = b /\ g.scanout = h.scanout /\ g.shown = h.shown  BY <1>1, HostExcept
<1> HIDE DEF g
<1>5. CASE Exists(h, res)  BY <1>1, <1>3, <1>4, <1>5
<1>6. CASE ~Exists(h, res)  BY <1>3, <1>6 DEF Exists
<1> QED  BY <1>5, <1>6

LEMMA BindFacts ==
    ASSUME NEW V, NEW h \in HostOf(V), NEW res \in ResIds
    PROVE  /\ Bind(h, res) \in HostOf(V)
           /\ Bind(h, res).blobs = h.blobs /\ Bind(h, res).shown = h.shown
           /\ Bind(h, res).scanout = IF Exists(h, res) THEN res ELSE h.scanout
BY HostExcept DEF Bind

LEMMA DestroyFacts ==
    ASSUME NEW V, NEW h \in HostOf(V), NEW res \in ResIds
    PROVE  /\ Destroy(h, res) \in HostOf(V)
           /\ Destroy(h, res).shown = h.shown
           /\ Destroy(h, res).blobs[res] = Absent
           /\ \A r \in ResIds \ {res} : Destroy(h, res).blobs[r] = h.blobs[r]
           /\ Destroy(h, res).scanout = IF Exists(h, res) /\ h.scanout = res THEN 0 ELSE h.scanout
<1>1. CASE ~Exists(h, res)
  BY <1>1 DEF Destroy, Exists
<1>2. CASE Exists(h, res)
  <2> DEFINE b == [h.blobs EXCEPT ![res] = Absent]
             s == IF h.scanout = res THEN 0 ELSE h.scanout
             g == [h EXCEPT !.blobs = b]
  <2>1. /\ b \in [ResIds -> Fbs \cup {Never, Absent}] /\ b[res] = Absent
        /\ \A r \in ResIds \ {res} : b[r] = h.blobs[r]
    BY HostRecord
  <2>2. s \in ResIds \cup {0}  BY HostRecord
  <2>3. Destroy(h, res) = [g EXCEPT !.scanout = s]  BY <1>2 DEF Destroy, HostOf
  <2> HIDE DEF b
  <2>4. g \in HostOf(V) /\ g.blobs = b /\ g.scanout = h.scanout /\ g.shown = h.shown
    BY <2>1, HostExcept
  <2> HIDE DEF g, s
  <2>5. /\ Destroy(h, res) \in HostOf(V) /\ Destroy(h, res).blobs = g.blobs
        /\ Destroy(h, res).scanout = s /\ Destroy(h, res).shown = g.shown
    BY <2>2, <2>3, <2>4, HostExcept
  <2> QED  BY <1>2, <2>1, <2>4, <2>5 DEF s
<1> QED  BY <1>1, <1>2

\* A flush of a backed blob that is bound patches the damage and nothing else; any other
\* does nothing.
Lands(h, res) == h.blobs[res] \in Fbs /\ h.scanout = res

Patched(h, g, res, damage, drawn) ==
    /\ g.blobs = h.blobs /\ g.scanout = h.scanout
    /\ Lands(h, res) => \A a \in Regions : g.shown[a] = IF a \in damage THEN drawn[h.blobs[res]][a]
                                                        ELSE h.shown[a]
    /\ ~Lands(h, res) => g = h

LEMMA FlushFacts ==
    ASSUME NEW V, NEW h \in HostOf(V), NEW res \in ResIds, NEW damage \in SUBSET Regions,
           NEW drawn \in [Fbs -> [Regions -> V]], Never \notin Fbs, Absent \notin Fbs \cup {Never}
    PROVE  /\ Flush(h, res, damage, drawn) \in HostOf(V)
           /\ Patched(h, Flush(h, res, damage, drawn), res, damage, drawn)
<1> DEFINE lands == Lands(h, res)
           g == Flush(h, res, damage, drawn)
           p == [a \in Regions |-> IF a \in damage THEN drawn[h.blobs[res]][a] ELSE h.shown[a]]
<1>1. lands <=> Exists(h, res) /\ h.blobs[res] # Never /\ h.scanout = res
  BY HostRecord DEF Exists, Lands
<1>2. CASE lands
  <2>1. Flush(h, res, damage, drawn) = [h EXCEPT !.shown = p]  BY <1>1, <1>2 DEF Flush, HostOf
  <2>2. p \in [Regions -> V]
    <3>1. drawn[h.blobs[res]] \in [Regions -> V]  BY <1>2 DEF Lands
    <3> QED  BY <3>1, HostRecord
  <2>3. \A a \in Regions : p[a] = IF a \in damage THEN drawn[h.blobs[res]][a] ELSE h.shown[a]
    OBVIOUS
  <2> HIDE DEF p, g
  <2>4. g \in HostOf(V) /\ g.blobs = h.blobs /\ g.scanout = h.scanout /\ g.shown = p
    BY <2>1, <2>2, HostExcept DEF g
  <2> QED  BY <1>2, <2>3, <2>4 DEF Patched, g
<1>3. CASE ~lands
  <2>1. g = h  BY <1>1, <1>3 DEF Flush
  <2> QED  BY <1>3, <2>1 DEF Patched
<1> QED  BY <1>2, <1>3

LEMMA MessageKinds ==
    ASSUME NEW msg \in Messages
    PROVE  \/ msg.op = "create" /\ msg.res \in ResIds
           \/ msg.op = "bind" /\ msg.res \in ResIds
           \/ msg.op = "destroy" /\ msg.res \in ResIds
           \/ msg.op = "attach" /\ msg.res \in ResIds /\ msg.fb \in Fbs
           \/ msg.op = "flush" /\ msg.res \in ResIds /\ msg.damage \in SUBSET Regions
           \/ msg.op = "submit"
BY DEF Messages

LEMMA ExecuteOps ==
    ASSUME NEW h, NEW msg, NEW drawn
    PROVE  /\ msg.op = "create" => Execute(h, msg, drawn) = Create(h, msg.res)
           /\ msg.op = "attach" => Execute(h, msg, drawn) = Attach(h, msg.res, msg.fb)
           /\ msg.op = "bind" => Execute(h, msg, drawn) = Bind(h, msg.res)
           /\ msg.op = "destroy" => Execute(h, msg, drawn) = Destroy(h, msg.res)
           /\ msg.op = "flush" => Execute(h, msg, drawn) = Flush(h, msg.res, msg.damage, drawn)
           /\ msg.op = "submit" => Execute(h, msg, drawn) = h
BY DEF Execute

LEMMA ExecuteType ==
    ASSUME NEW V, NEW h \in HostOf(V), NEW msg \in Messages, NEW drawn \in [Fbs -> [Regions -> V]]
    PROVE  Execute(h, msg, drawn) \in HostOf(V)
<1>1. Never \notin Fbs /\ Absent \notin Fbs \cup {Never}  BY DisplayAssumption
<1>2. CASE msg.op = "create" /\ msg.res \in ResIds  BY <1>2, ExecuteOps, CreateFacts
<1>3. CASE msg.op = "bind" /\ msg.res \in ResIds  BY <1>3, ExecuteOps, BindFacts
<1>4. CASE msg.op = "destroy" /\ msg.res \in ResIds  BY <1>4, ExecuteOps, DestroyFacts
<1>5. CASE msg.op = "attach" /\ msg.res \in ResIds /\ msg.fb \in Fbs  BY <1>5, ExecuteOps, AttachFacts
<1>6. CASE msg.op = "flush" /\ msg.res \in ResIds /\ msg.damage \in SUBSET Regions
  BY <1>1, <1>6, ExecuteOps, FlushFacts
<1>7. CASE msg.op = "submit"  BY <1>7, ExecuteOps
<1> QED  BY <1>2, <1>3, <1>4, <1>5, <1>6, <1>7, MessageKinds

\* What a host has by the pixels of one moment and by those of another agree but for
\* regions that show the new pixels of the one framebuffer that was drawn in between.
Redrawn(x, y, px) ==
    /\ y.blobs = x.blobs /\ y.scanout = x.scanout
    /\ \A a \in Regions : y.shown[a] = x.shown[a] \/ y.shown[a] = px[a]

LEMMA ExecuteRedrawn ==
    ASSUME NEW V, NEW x \in HostOf(V), NEW y \in HostOf(V), NEW msg \in Messages,
           NEW drawn \in [Fbs -> [Regions -> V]], NEW f \in Fbs, NEW px \in [Regions -> V],
           Redrawn(x, y, px)
    PROVE  Redrawn(Execute(x, msg, drawn), Execute(y, msg, [drawn EXCEPT ![f] = px]), px)
<1> DEFINE new == [drawn EXCEPT ![f] = px]
<1>0. Never \notin Fbs /\ Absent \notin Fbs \cup {Never}  BY DisplayAssumption
<1>1. new \in [Fbs -> [Regions -> V]] /\ new[f] = px /\ \A g \in Fbs \ {f} : new[g] = drawn[g]
  <2> DEFINE S == [Regions -> V]
  <2>1. drawn \in [Fbs -> S] /\ px \in S  OBVIOUS
  <2> HIDE DEF S
  <2>2. new \in [Fbs -> S] /\ new[f] = px /\ \A g \in Fbs \ {f} : new[g] = drawn[g]  BY <2>1
  <2> QED  BY <2>2 DEF S
<1> HIDE DEF new
<1>2. SUFFICES Redrawn(Execute(x, msg, drawn), Execute(y, msg, new), px)  BY DEF new
<1>3. /\ y.blobs = x.blobs /\ y.scanout = x.scanout /\ Blobs(y) = Blobs(x)
      /\ \A r \in ResIds : Exists(y, r) <=> Exists(x, r)
      /\ \A a \in Regions : y.shown[a] = x.shown[a] \/ y.shown[a] = px[a]
  BY DEF Redrawn, Blobs, Exists
<1>4. CASE msg.op = "create" /\ msg.res \in ResIds
  <2>1. /\ Create(x, msg.res).scanout = x.scanout /\ Create(x, msg.res).shown = x.shown
        /\ Create(y, msg.res).scanout = y.scanout /\ Create(y, msg.res).shown = y.shown
    BY <1>4, CreateFacts
  <2>2. Create(y, msg.res).blobs = Create(x, msg.res).blobs
    <3>1. [y EXCEPT !.blobs[msg.res] = Never].blobs = [x EXCEPT !.blobs[msg.res] = Never].blobs
      BY <1>3 DEF HostOf
    <3> QED  BY <1>3, <1>4, <3>1 DEF Create
  <2> QED  BY <1>3, <1>4, <2>1, <2>2, ExecuteOps DEF Redrawn
<1>5. CASE msg.op = "bind" /\ msg.res \in ResIds
  <2>1. /\ Bind(x, msg.res).blobs = x.blobs /\ Bind(x, msg.res).shown = x.shown
        /\ Bind(y, msg.res).blobs = y.blobs /\ Bind(y, msg.res).shown = y.shown
        /\ Bind(x, msg.res).scanout = IF Exists(x, msg.res) THEN msg.res ELSE x.scanout
        /\ Bind(y, msg.res).scanout = IF Exists(y, msg.res) THEN msg.res ELSE y.scanout
    BY <1>5, BindFacts
  <2> QED  BY <1>3, <1>5, <2>1, ExecuteOps DEF Redrawn
<1>6. CASE msg.op = "destroy" /\ msg.res \in ResIds
  <2>1. /\ Destroy(x, msg.res).shown = x.shown /\ Destroy(y, msg.res).shown = y.shown
        /\ Destroy(x, msg.res).scanout = Destroy(y, msg.res).scanout
    BY <1>3, <1>6, DestroyFacts
  <2>2. Destroy(y, msg.res).blobs = Destroy(x, msg.res).blobs
    <3>1. [y EXCEPT !.blobs[msg.res] = Absent, !.scanout = IF @ = msg.res THEN 0 ELSE @].blobs
            = [x EXCEPT !.blobs[msg.res] = Absent, !.scanout = IF @ = msg.res THEN 0 ELSE @].blobs
      BY <1>3 DEF HostOf
    <3> QED  BY <1>3, <1>6, <3>1 DEF Destroy
  <2> QED  BY <1>3, <1>6, <2>1, <2>2, ExecuteOps DEF Redrawn
<1>7. CASE msg.op = "attach" /\ msg.res \in ResIds /\ msg.fb \in Fbs
  <2>1. /\ Attach(x, msg.res, msg.fb).scanout = x.scanout /\ Attach(x, msg.res, msg.fb).shown = x.shown
        /\ Attach(y, msg.res, msg.fb).scanout = y.scanout /\ Attach(y, msg.res, msg.fb).shown = y.shown
    BY <1>7, AttachFacts
  <2>2. Attach(y, msg.res, msg.fb).blobs = Attach(x, msg.res, msg.fb).blobs
    <3>1. [y EXCEPT !.blobs[msg.res] = msg.fb].blobs = [x EXCEPT !.blobs[msg.res] = msg.fb].blobs
      BY <1>3 DEF HostOf
    <3> QED  BY <1>3, <1>7, <3>1 DEF Attach
  <2> QED  BY <1>3, <1>7, <2>1, <2>2, ExecuteOps DEF Redrawn
<1>8. CASE msg.op = "flush" /\ msg.res \in ResIds /\ msg.damage \in SUBSET Regions
  <2> DEFINE res == msg.res
             damage == msg.damage
             gx == Flush(x, res, damage, drawn)
             gy == Flush(y, res, damage, new)
  <2>1. Patched(x, gx, res, damage, drawn)  BY <1>0, <1>8, FlushFacts
  <2>2. Patched(y, gy, res, damage, new)  BY <1>0, <1>1, <1>8, FlushFacts
  <2>3. Execute(x, msg, drawn) = gx /\ Execute(y, msg, new) = gy  BY <1>8, ExecuteOps
  <2> HIDE DEF gx, gy, res, damage
  <2>4. CASE Lands(x, res)
    <3>0. Lands(y, res)  BY <1>3, <2>4 DEF Lands
    <3>1. ASSUME NEW a \in Regions PROVE gy.shown[a] = gx.shown[a] \/ gy.shown[a] = px[a]
      <4>1. CASE a \in damage
        <5>1. gx.shown[a] = drawn[x.blobs[res]][a] /\ gy.shown[a] = new[x.blobs[res]][a]
          BY <1>3, <2>1, <2>2, <2>4, <3>0, <4>1 DEF Patched
        <5> QED  BY <1>1, <2>4, <5>1 DEF Lands
      <4>2. CASE a \notin damage  BY <1>3, <2>1, <2>2, <2>4, <3>0, <4>2 DEF Patched
      <4> QED  BY <4>1, <4>2
    <3> QED  BY <1>3, <2>1, <2>2, <2>3, <3>1 DEF Redrawn, Patched
  <2>5. CASE ~Lands(x, res)
    <3>1. ~Lands(y, res)  BY <1>3, <2>5 DEF Lands
    <3>2. gx = x /\ gy = y  BY <2>1, <2>2, <2>5, <3>1 DEF Patched
    <3> QED  BY <2>3, <3>2
  <2> QED  BY <2>4, <2>5
<1>9. CASE msg.op = "submit"
  <2>1. Execute(x, msg, drawn) = x /\ Execute(y, msg, new) = y  BY <1>9, ExecuteOps
  <2> QED  BY <2>1
<1> QED  BY <1>4, <1>5, <1>6, <1>7, <1>8, <1>9, MessageKinds

LEMMA DrainedType ==
    ASSUME NEW V, NEW h \in HostOf(V), NEW msgs \in Seq(Messages), NEW drawn \in [Fbs -> [Regions -> V]]
    PROVE  \A i \in 0 .. Len(msgs) : After(h, msgs, drawn)[i] \in HostOf(V)
<1> DEFINE n == Len(msgs)
           f == After(h, msgs, drawn)
           Bad == {i \in 0 .. n : f[i] \notin HostOf(V)}
<1>1. n \in Nat /\ \A i \in 1 .. n : msgs[i] \in Messages  OBVIOUS
<1>2. f[0] = h /\ \A i \in 1 .. n : f[i] = Execute(f[i - 1], msgs[i], drawn)
  <2>1. Unfolds(f, h, msgs, drawn, n)  BY <1>1, AfterFacts
  <2> QED  BY <2>1 DEF Unfolds
<1> HIDE DEF n, f
<1>3. SUFFICES ASSUME Bad # {} PROVE FALSE  BY DEF n, f
<1>4. Bad \subseteq Nat  BY <1>1
<1>5. PICK k \in Bad : \A m \in Bad : ~(m < k)  BY <1>3, <1>4, LeastOf
<1>6. k \in 1 .. n /\ k - 1 \in 0 .. n /\ k - 1 < k  BY <1>1, <1>2, <1>5
<1>7. f[k - 1] \in HostOf(V)  BY <1>5, <1>6
<1> QED  BY <1>1, <1>2, <1>5, <1>6, <1>7, ExecuteType

\* Drawing one framebuffer changes what a batch will show in regions that it flushes
\* from that framebuffer, and nothing else.
LEMMA DrainedRedrawn ==
    ASSUME NEW V, NEW h \in HostOf(V), NEW msgs \in Seq(Messages),
           NEW drawn \in [Fbs -> [Regions -> V]], NEW f \in Fbs, NEW px \in [Regions -> V]
    PROVE  /\ Redrawn(Drained(h, msgs, drawn), Drained(h, msgs, [drawn EXCEPT ![f] = px]), px)
           /\ Drained(h, msgs, [drawn EXCEPT ![f] = px]) \in HostOf(V)
<1> DEFINE n == Len(msgs)
           new == [drawn EXCEPT ![f] = px]
           x == After(h, msgs, drawn)
           y == After(h, msgs, new)
           Bad == {i \in 0 .. n : ~Redrawn(x[i], y[i], px)}
<1>1. n \in Nat /\ \A i \in 1 .. n : msgs[i] \in Messages  OBVIOUS
<1>2. new \in [Fbs -> [Regions -> V]]
  <2> DEFINE S == [Regions -> V]
  <2>1. drawn \in [Fbs -> S] /\ px \in S  OBVIOUS
  <2> HIDE DEF S
  <2>2. new \in [Fbs -> S]  BY <2>1
  <2> QED  BY <2>2 DEF S
<1>3. x[0] = h /\ \A i \in 1 .. n : x[i] = Execute(x[i - 1], msgs[i], drawn)
  <2>1. Unfolds(x, h, msgs, drawn, n)  BY <1>1, AfterFacts
  <2> QED  BY <2>1 DEF Unfolds
<1>4. y[0] = h /\ \A i \in 1 .. n : y[i] = Execute(y[i - 1], msgs[i], new)
  <2> HIDE DEF new
  <2>1. Unfolds(y, h, msgs, new, n)  BY <1>1, AfterFacts
  <2> QED  BY <2>1 DEF Unfolds
<1>5. \A i \in 0 .. n : x[i] \in HostOf(V) /\ y[i] \in HostOf(V)
  <2> HIDE DEF new
  <2> QED  BY <1>2, DrainedType
<1> HIDE DEF n, x, y
<1>6. Bad = {}
  <2>1. SUFFICES ASSUME Bad # {} PROVE FALSE  OBVIOUS
  <2>2. Bad \subseteq Nat  BY <1>1
  <2>3. PICK k \in Bad : \A m \in Bad : ~(m < k)  BY <2>1, <2>2, LeastOf
  <2>4. Redrawn(x[0], y[0], px)  BY <1>3, <1>4 DEF Redrawn
  <2>5. k \in 1 .. n /\ k - 1 \in 0 .. n /\ k - 1 < k  BY <1>1, <2>3, <2>4
  <2>6. Redrawn(x[k - 1], y[k - 1], px)  BY <2>3, <2>5
  <2>7. Redrawn(Execute(x[k - 1], msgs[k], drawn), Execute(y[k - 1], msgs[k], new), px)
    BY <1>1, <1>5, <2>5, <2>6, ExecuteRedrawn
  <2> QED  BY <1>3, <1>4, <2>3, <2>5, <2>7
<1>7. Redrawn(x[n], y[n], px) /\ y[n] \in HostOf(V)  BY <1>1, <1>5, <1>6
<1> QED  BY <1>7 DEF Drained, x, y, n

-----------------------------------------------------------------------------
(* A push.                                                                   *)

Pcs == {"idle", "create", "attach", "bind", "fill", "rebind", "flush"}
Histories == [dropped : BOOLEAN, whole : BOOLEAN, fresh : BOOLEAN, sound : BOOLEAN]

LEMMA MessageTypes ==
    ASSUME NEW r \in ResIds
    PROVE  /\ \A op \in {"create", "bind", "destroy"} : [op |-> op, res |-> r] \in Messages
           /\ \A f \in Fbs : [op |-> "attach", res |-> r, fb |-> f] \in Messages
           /\ \A d \in SUBSET Regions : [op |-> "flush", res |-> r, damage |-> d] \in Messages
           /\ [op |-> "submit"] \in Messages
BY DEF Messages

\* Whether the ring drains it or keeps it, a message that was taken is the next to count.
LEMMA PushFacts ==
    ASSUME Shape, NEW msg \in Messages, Push(msg), pixels' = pixels
    PROVE  /\ Accepted => Settled' = Execute(Settled, msg, pixels)
           /\ ~Accepted => Settled' = Settled
           /\ ring' \in Seq(Messages) /\ Len(ring') <= Cap
           /\ host' \in HostOf(0 .. frames) /\ Settled' \in HostOf(0 .. frames)
           /\ everRetired' \in BOOLEAN /\ (everRetired => everRetired')
<1> DEFINE V == 0 .. frames
           more == Append(ring, msg)
<1>1. /\ ring \in Seq(Messages) /\ Len(ring) \in Nat /\ Len(ring) <= Cap /\ Cap \in Nat
      /\ host \in HostOf(V) /\ Settled \in HostOf(V) /\ pixels \in [Fbs -> [Regions -> V]]
      /\ everRetired \in BOOLEAN
  BY DisplayAssumption DEF Shape
<1>2. Settled = Drained(host, ring, pixels) /\ Settled' = Drained(host', ring', pixels')
  BY DEF Settled
<1> HIDE DEF V
<1>3. Drained(host, more, pixels) = Execute(Settled, msg, pixels)
  BY <1>1, <1>2, DrainedAppend
<1>4. Execute(Settled, msg, pixels) \in HostOf(V)  BY <1>1, ExecuteType
<1>5. CASE ~Accepted
  <2>1. ring' = ring /\ host' = host /\ everRetired' = everRetired  BY <1>5 DEF Push, hostVars
  <2> QED  BY <1>1, <1>2, <1>5, <2>1 DEF V
<1>6. CASE Accepted /\ mapped
  <2>1. host' = Drained(host, more, pixels) /\ ring' = << >> /\ everRetired' = TRUE
    BY <1>6 DEF Push
  <2>2. Settled' = host'  BY <1>2, <2>1, DrainedEmpty
  <2>3. ring' \in Seq(Messages) /\ Len(ring') <= Cap  BY <1>1, <2>1
  <2> QED  BY <1>3, <1>4, <1>6, <2>1, <2>2, <2>3 DEF V
<1>7. CASE Accepted /\ ~mapped
  <2>1. host' = host /\ ring' = more /\ everRetired' = everRetired  BY <1>7 DEF Push
  <2>2. Settled' = Drained(host, more, pixels)  BY <1>2, <2>1
  <2>3. ring' \in Seq(Messages) /\ Len(ring') <= Cap  BY <1>1, <1>7, <2>1 DEF Accepted
  <2> QED  BY <1>1, <1>3, <1>4, <1>7, <2>1, <2>2, <2>3 DEF V
<1> QED  BY <1>5, <1>6, <1>7

LEMMA PushShape ==
    ASSUME Shape, NEW msg \in Messages, Push(msg), UNCHANGED <<dmaVars, frameVars, nextRes, flip>>,
           cache' \in [Slots -> [res : ResIds \cup {0}, fb : Fbs \cup {Never}]], cacheNext' \in Slots,
           scanoutRes' \in ResIds \cup {0}, pc' \in Pcs, history' \in Histories
    PROVE  Shape'
<1>1. /\ mapped' = mapped /\ frames' = frames /\ nextRes' = nextRes /\ flip' = flip
      /\ pixels' = pixels /\ screen' = screen
  BY DEF dmaVars, frameVars
<1>2. /\ ring' \in Seq(Messages) /\ Len(ring') <= Cap
      /\ host' \in HostOf(0 .. frames) /\ Settled' \in HostOf(0 .. frames)
      /\ everRetired' \in BOOLEAN
  BY <1>1, PushFacts
<1> QED  BY <1>1, <1>2 DEF Shape, Pcs, Histories

\* The cache is as it was.
LEMMA CacheSame ==
    ASSUME CacheInv, cache' = cache, nextRes' = nextRes
    PROVE  CacheInv' /\ CachedIds' = CachedIds
BY DEF CacheInv, CachedIds, EmptySlot

LEMMA NoteType ==
    ASSUME Shape, NEW ok \in BOOLEAN, NEW newest \in BOOLEAN, Note(ok, newest)
    PROVE  /\ history' \in Histories /\ history'.fresh = newest
           /\ history'.dropped <=> history.dropped \/ ~ok
           /\ history'.whole <=> history.whole /\ ok
           /\ history'.sound <=> history.sound /\ ok
BY DEF Note, Shape, Histories

\* A cached id is on the host's side what it is on the driver's.
LEMMA IdsOfCache ==
    ASSUME CacheInv
    PROVE  /\ \A s \in Slots : cache[s] # EmptySlot =>
                 cache[s].res \in CachedIds /\ cache[s].res \in 1 .. nextRes /\ cache[s].fb \in Fbs
           /\ \A r \in CachedIds : \E s \in Slots : cache[s] # EmptySlot /\ cache[s].res = r
BY DEF CacheInv, CachedIds

\* Ids run from 1 to MaxFlips.
LEMMA IdRange ==
    ASSUME Shape
    PROVE  /\ nextRes \in Nat /\ nextRes <= frames /\ frames <= MaxFlips /\ MaxFlips \in Nat
           /\ \A r \in ResIds : r \in Nat /\ 1 <= r
           /\ \A r \in 1 .. nextRes : r \in ResIds
BY DisplayAssumption DEF Shape, ResIds

\* Every cached id has a slot of its own.
LEMMA CachedCount ==
    ASSUME CacheInv
    PROVE  Cardinality(CachedIds) <= CacheSize /\ Cardinality(CachedIds) \in Nat
<1> DEFINE slot == [r \in CachedIds |-> CHOOSE s \in Slots : cache[s] # EmptySlot /\ cache[s].res = r]
<1>1. ASSUME NEW r \in CachedIds PROVE slot[r] \in Slots /\ cache[slot[r]].res = r
  BY IdsOfCache
<1>2. slot \in Injection(CachedIds, Slots)
  <2>1. slot \in [CachedIds -> Slots]  BY <1>1
  <2> HIDE DEF slot
  <2> QED  BY <1>1, <2>1 DEF Injection, IsInjective
<1> HIDE DEF slot
<1>3. IsFiniteSet(Slots) /\ Cardinality(Slots) = CacheSize
  <2>1. CacheSize \in Nat \ {0} /\ 0 \in Int /\ CacheSize - 1 \in Int /\ Slots = 0 .. (CacheSize - 1)
    BY DisplayAssumption DEF Slots
  <2>2. /\ IsFiniteSet(0 .. (CacheSize - 1))
        /\ Cardinality(0 .. (CacheSize - 1)) = IF 0 > CacheSize - 1 THEN 0 ELSE (CacheSize - 1) - 0 + 1
    BY <2>1, FS_Interval
  <2> QED  BY <2>1, <2>2
<1>4. IsFiniteSet(CachedIds) /\ Cardinality(CachedIds) <= Cardinality(Slots)
  BY <1>2, <1>3, FS_Injection
<1> QED  BY <1>3, <1>4, FS_CardinalityType

\* At a registration's CREATE the host has room for one more.
LEMMA Room ==
    ASSUME Roomy, DisplayInv, pc = "create"
    PROVE  Cardinality(Blobs(Settled)) < MaxBlobs
<1>1. CASE RoomForAll
  <2> DEFINE n == nextRes - 1
             ids == 1 .. n
  <2>1. nextRes \in Nat /\ nextRes <= MaxFlips /\ nextRes # 0
    <3>1. flip.res \in ResIds /\ flip.res = nextRes  BY DEF DisplayInv, DriverInv, FlipInv
    <3>2. Shape  BY DEF DisplayInv, DriverInv
    <3>3. flip.res \in Nat /\ 1 <= flip.res  BY <3>1, <3>2, IdRange
    <3>4. nextRes \in Nat /\ nextRes <= frames /\ frames <= MaxFlips /\ MaxFlips \in Nat  BY <3>2, IdRange
    <3>5. frames \in Nat  BY <3>2 DEF Shape
    <3> QED  BY <3>1, <3>3, <3>4, <3>5
  <2>2. Blobs(Settled) \subseteq ids
    <3>1. \A r \in ResIds : Exists(Settled, r) => r < nextRes  BY DEF DisplayInv, DriverInv, BlobsInv
    <3>2. \A r \in ResIds : r \in Nat /\ 1 <= r  BY IdRange DEF DisplayInv, DriverInv
    <3> QED  BY <2>1, <3>1, <3>2 DEF Blobs
  <2>3. n \in Nat  BY <2>1
  <2> HIDE DEF n
  <2>4. IsFiniteSet(ids) /\ Cardinality(ids) = n
    <3>1. 1 \in Int /\ n \in Int  BY <2>3
    <3> QED  BY <2>3, <3>1, FS_Interval
  <2>5. Cardinality(Blobs(Settled)) <= n /\ Cardinality(Blobs(Settled)) \in Nat
    <3>1. IsFiniteSet(Blobs(Settled)) /\ Cardinality(Blobs(Settled)) <= Cardinality(ids)
      BY <2>2, <2>4, FS_Subset
    <3> QED  BY <2>4, <3>1, FS_CardinalityType
  <2> QED  BY <1>1, <2>1, <2>3, <2>5, DisplayAssumption DEF RoomForAll, n
<1>2. CASE RoomForCache /\ ~history.dropped
  <2>1. Blobs(Settled) = CachedIds  BY <1>2 DEF DisplayInv, DriverInv, BlobsInv
  <2>2. Cardinality(CachedIds) <= CacheSize /\ Cardinality(CachedIds) \in Nat
    BY CachedCount DEF DisplayInv, DriverInv
  <2> QED  BY <1>2, <2>1, <2>2, DisplayAssumption DEF RoomForCache
<1> QED  BY <1>1, <1>2 DEF Roomy

-----------------------------------------------------------------------------
(* The registration of a new buffer.                                         *)

\* What a registration's messages leave alone: the cache, and what the host has for it.
Registers(op) ==
    /\ pc = op /\ op \in {"create", "attach", "bind"}
    /\ UNCHANGED <<dmaVars, cacheVars, frameVars, nextRes, flip>>
    /\ Note(Returned, TRUE)

\* Whether it comes back or not, the driver is in order.
LEMMA Registered ==
    ASSUME DriverInv, NEW op, Registers(op), NEW msg \in Messages, Push(msg),
           scanoutRes' \in {scanoutRes, flip.res}, Returned \in BOOLEAN,
           \/ pc' = "idle"
           \/ pc' \in {"attach", "bind", "fill"} /\ everRetired' /\ (pc' = "fill" => scanoutRes' = flip.res)
    PROVE  DriverInv'
<1>1. /\ cache' = cache /\ cacheNext' = cacheNext /\ nextRes' = nextRes /\ flip' = flip
      /\ pixels' = pixels /\ screen' = screen /\ pc \in {"create", "attach", "bind"}
  BY DEF Registers, cacheVars, frameVars
<1>2. Shape /\ flip.res \in ResIds  BY <1>1 DEF DriverInv, FlipInv
<1>3. Shape'
  <2>1. history' \in Histories  BY <1>2, NoteType DEF Registers
  <2>2. /\ cache' \in [Slots -> [res : ResIds \cup {0}, fb : Fbs \cup {Never}]] /\ cacheNext' \in Slots
        /\ scanoutRes' \in ResIds \cup {0} /\ pc' \in Pcs
    BY <1>1, <1>2 DEF Shape, Pcs
  <2> QED  BY <1>2, <2>1, <2>2, PushShape DEF Registers
<1>4. CacheInv'  BY <1>1, CacheSame DEF DriverInv
<1>5. FlipInv'  BY <1>1 DEF FlipInv, DriverInv
<1> QED  BY <1>3, <1>4, <1>5 DEF DriverInv

\* A registration's message that did not come back ends the flip: of what the driver
\* goes by nothing has changed but the history.
LEMMA GivenUp ==
    ASSUME DisplayInv, NEW op, Registers(op), DriverInv', ~Returned, pc' = "idle", scanoutRes' = scanoutRes,
           \A r \in ResIds : Exists(Settled', r) => Exists(Settled, r) \/ r = flip.res,
           \A r \in ResIds \ {flip.res} : Settled'.blobs[r] = Settled.blobs[r],
           Settled'.scanout = Settled.scanout
    PROVE  DisplayInv'
<1>1. /\ cache' = cache /\ nextRes' = nextRes /\ pc # "fill" /\ Returned \in BOOLEAN
      /\ pc \in {"create", "attach", "bind"}
  BY DEF Registers, cacheVars, Returned, Accepted, DisplayInv, Shape
<1>2. ~history'.sound /\ history'.dropped
  BY <1>1, NoteType DEF DisplayInv, DriverInv, Registers
<1>3. CacheInv' /\ CachedIds' = CachedIds  BY <1>1, CacheSame DEF DisplayInv, DriverInv
<1>5. \A r \in ResIds : Exists(Settled', r) => r <= nextRes'
  <2>1. \A r \in ResIds : Exists(Settled, r) => r <= nextRes  BY DEF DisplayInv, DriverInv, BlobsInv
  <2>2. flip.res = nextRes  BY <1>1 DEF DisplayInv, DriverInv, FlipInv
  <2>3. nextRes \in Nat  BY IdRange DEF DisplayInv, DriverInv
  <2> QED  BY <1>1, <2>1, <2>2, <2>3
<1>6. FlushesLand'
  <2>1. ASSUME NEW s \in Slots, cache[s] # EmptySlot
        PROVE  Settled'.blobs[cache[s].res] = cache[s].fb
    <3>1. cache[s].res \in ResIds \ {flip.res}
      BY <1>1, <2>1, IdsOfCache, IdRange DEF DisplayInv, DriverInv, FlipInv
    <3>2. Settled.blobs[cache[s].res] = cache[s].fb  BY <2>1 DEF DisplayInv, DriverInv, BlobsInv, FlushesLand
    <3> QED  BY <3>1, <3>2
  <2> QED  BY <1>1, <2>1 DEF FlushesLand, EmptySlot
<1>7. HeadKnown'  BY <1>1, <1>3 DEF DisplayInv, DriverInv, BlobsInv, HeadKnown
<1>8. BlobsInv'  BY <1>2, <1>5, <1>6, <1>7 DEF BlobsInv, Exists
<1>9. ShownInv'  BY <1>2 DEF ShownInv
<1> QED  BY <1>8, <1>9 DEF DisplayInv

\* One that came back leads to the next.
LEMMA GoesOn ==
    ASSUME DisplayInv, NEW op, Registers(op), DriverInv', Returned,
           pc' \in {"attach", "bind", "fill"},
           \A r \in ResIds \ {flip.res} : Settled'.blobs[r] = Settled.blobs[r],
           Exists(Settled', flip.res), Settled'.shown = Settled.shown,
           pc' \in {"bind", "fill"} => Settled'.blobs[flip.res] = flip.fb,
           \/ pc' # "fill" /\ Settled'.scanout = Settled.scanout /\ scanoutRes' = scanoutRes
           \/ pc' = "fill" /\ Settled'.scanout = flip.res /\ scanoutRes' = flip.res
    PROVE  DisplayInv'
<1>1. /\ cache' = cache /\ nextRes' = nextRes /\ flip' = flip /\ pixels' = pixels /\ screen' = screen
      /\ pc \in {"create", "attach", "bind"} /\ pc = op
  BY DEF Registers, cacheVars, frameVars
<1>2. history'.sound = history.sound /\ history'.dropped = history.dropped
  BY NoteType DEF DisplayInv, DriverInv, Registers, Shape
<1>3. CacheInv' /\ CachedIds' = CachedIds  BY <1>1, CacheSame DEF DisplayInv, DriverInv
<1>5. /\ flip.res = nextRes /\ flip.res \in ResIds /\ nextRes \in Nat
      /\ \A s \in Slots : cache[s].res # flip.res
  BY <1>1, IdRange DEF DisplayInv, DriverInv, FlipInv
<1>6. \A r \in ResIds : Exists(Settled', r) => r <= nextRes
  <2>1. \A r \in ResIds : Exists(Settled, r) => r <= nextRes  BY DEF DisplayInv, DriverInv, BlobsInv
  <2> QED  BY <1>5, <2>1 DEF Exists
<1>7. FlushesLand'
  <2>1. ASSUME NEW s \in Slots, cache[s] # EmptySlot
        PROVE  Settled'.blobs[cache[s].res] = cache[s].fb
    <3>1. cache[s].res \in ResIds \ {flip.res}
      BY <1>5, <2>1, IdsOfCache, IdRange DEF DisplayInv, DriverInv
    <3>2. Settled.blobs[cache[s].res] = cache[s].fb  BY <2>1 DEF DisplayInv, DriverInv, BlobsInv, FlushesLand
    <3> QED  BY <3>1, <3>2
  <2> QED  BY <1>1, <2>1 DEF FlushesLand, EmptySlot
<1>8. HeadKnown'  BY <1>1, <1>3 DEF DisplayInv, DriverInv, BlobsInv, HeadKnown
<1>9. ~history'.dropped => Blobs(Settled') = CachedIds' \cup {flip'.res}
  <2>1. SUFFICES ASSUME ~history.dropped PROVE Blobs(Settled') = CachedIds \cup {flip.res}
    BY <1>1, <1>2, <1>3
  <2>2. Blobs(Settled) \ {flip.res} = CachedIds \ {flip.res}
    BY <2>1 DEF DisplayInv, DriverInv, BlobsInv
  <2>3. Blobs(Settled') \ {flip.res} = Blobs(Settled) \ {flip.res}  BY DEF Blobs, Exists
  <2>4. flip.res \in Blobs(Settled')  BY <1>5 DEF Blobs
  <2> QED  BY <2>2, <2>3, <2>4
<1>10. BlobsInv'  BY <1>1, <1>5, <1>6, <1>7, <1>8, <1>9 DEF BlobsInv
<1>11. ShownInv'  BY <1>1, <1>2 DEF DisplayInv, DriverInv, ShownInv
<1> QED  BY <1>10, <1>11 DEF DisplayInv

LEMMA RegisterDriver ==
    ASSUME DriverInv, PushCreate \/ PushAttach \/ PushBind
    PROVE  DriverInv'
<1>1. /\ Shape /\ pc \in {"create", "attach", "bind"} /\ flip.res \in ResIds /\ flip.fb \in Fbs
      /\ pc \in {"attach", "bind"} => everRetired
  BY DEF DriverInv, FlipInv, PushCreate, PushAttach, PushBind
<1>2. Registers(pc) /\ pixels' = pixels
  BY DEF Registers, PushCreate, PushAttach, PushBind, frameVars
<1>3. /\ scanoutRes' \in {scanoutRes, flip.res} /\ Returned \in BOOLEAN
      /\ \/ pc' = "idle"
         \/ Returned /\ pc' \in {"attach", "bind"}
         \/ Returned /\ pc' = "fill" /\ scanoutRes' = flip.res
  <2>1. \E msg \in Messages : Push(msg)  BY <1>1, MessageTypes DEF PushCreate, PushAttach, PushBind
  <2>2. Returned \in BOOLEAN  BY <1>1, <1>2, <2>1, PushFacts DEF Returned, Accepted
  <2> QED  BY <2>2 DEF PushCreate, PushAttach, PushBind
<1>4. Returned => everRetired'  BY DEF Returned
<1>5. PICK msg \in Messages : Push(msg)  BY <1>1, MessageTypes DEF PushCreate, PushAttach, PushBind
<1> QED  BY <1>2, <1>3, <1>4, <1>5, Registered

LEMMA CreateStep ==
    ASSUME Roomy, DisplayInv, PushCreate
    PROVE  DisplayInv'
<1> DEFINE msg == [op |-> "create", res |-> flip.res]
<1>1. /\ flip.res \in ResIds /\ flip.res = nextRes /\ Shape
      /\ \A r \in ResIds : Exists(Settled, r) => r < nextRes
  BY DEF PushCreate, DisplayInv, DriverInv, FlipInv, BlobsInv
<1>2. /\ msg \in Messages /\ msg.op = "create" /\ msg.res = flip.res  BY <1>1, MessageTypes
<1>3. Push(msg) /\ pixels' = pixels  BY DEF PushCreate, frameVars
<1>4. Registers("create") /\ scanoutRes' = scanoutRes  BY DEF PushCreate, Registers
<1>5. pc' = IF Returned THEN "attach" ELSE "idle"  BY DEF PushCreate
<1> HIDE DEF msg
<1>6. Returned \in BOOLEAN /\ (Returned <=> Accepted /\ everRetired')
  BY <1>1, <1>2, <1>3, PushFacts DEF Returned, Accepted
<1>7. DriverInv'  BY RegisterDriver DEF DisplayInv
<1>8. /\ ~Accepted => Settled' = Settled
      /\ Accepted => Settled' = Create(Settled, flip.res)
  BY <1>1, <1>2, <1>3, PushFacts, ExecuteOps
<1>9. Settled \in HostOf(0 .. frames)  BY <1>1 DEF Shape
<1>10. /\ Settled'.scanout = Settled.scanout /\ Settled'.shown = Settled.shown
       /\ \A r \in ResIds \ {flip.res} : Settled'.blobs[r] = Settled.blobs[r]
  BY <1>1, <1>8, <1>9, CreateFacts
<1>11. CASE ~Returned
  <2>1. \A r \in ResIds : Exists(Settled', r) => Exists(Settled, r) \/ r = flip.res
    BY <1>10 DEF Exists
  <2> QED  BY <1>4, <1>5, <1>7, <1>10, <1>11, <2>1, GivenUp
<1>12. CASE Returned
  <2>1. Cardinality(Blobs(Settled)) < MaxBlobs  BY Room DEF PushCreate
  <2>2. ~Exists(Settled, flip.res)
    <3>1. nextRes \in Nat  BY <1>1, IdRange
    <3> QED  BY <1>1, <3>1
  <2>3. Settled'.blobs[flip.res] = Never  BY <1>1, <1>6, <1>8, <1>9, <1>12, <2>1, <2>2, CreateFacts
  <2>4. Exists(Settled', flip.res)  BY <2>3, DisplayAssumption DEF Exists
  <2>5. pc' = "attach" /\ everRetired'  BY <1>5, <1>6, <1>12
  <2> QED  BY <1>4, <1>7, <1>10, <1>12, <2>4, <2>5, GoesOn
<1> QED  BY <1>6, <1>11, <1>12

LEMMA AttachStep ==
    ASSUME DisplayInv, PushAttach
    PROVE  DisplayInv'
<1> DEFINE msg == [op |-> "attach", res |-> flip.res, fb |-> flip.fb]
<1>1. /\ flip.res \in ResIds /\ flip.fb \in Fbs /\ Shape /\ Exists(Settled, flip.res) /\ everRetired
  BY DEF PushAttach, DisplayInv, DriverInv, FlipInv, BlobsInv
<1>2. /\ msg \in Messages /\ msg.op = "attach" /\ msg.res = flip.res /\ msg.fb = flip.fb
  BY <1>1, MessageTypes
<1>3. Push(msg) /\ pixels' = pixels  BY DEF PushAttach, frameVars
<1>4. Registers("attach") /\ scanoutRes' = scanoutRes  BY DEF PushAttach, Registers
<1>5. pc' = IF Returned THEN "bind" ELSE "idle"  BY DEF PushAttach
<1> HIDE DEF msg
<1>6. Returned \in BOOLEAN /\ (Returned <=> Accepted) /\ everRetired'
  BY <1>1, <1>2, <1>3, PushFacts DEF Returned, Accepted
<1>7. DriverInv'  BY RegisterDriver DEF DisplayInv
<1>8. /\ ~Accepted => Settled' = Settled
      /\ Accepted => Settled' = Attach(Settled, flip.res, flip.fb)
  BY <1>1, <1>2, <1>3, PushFacts, ExecuteOps
<1>9. Settled \in HostOf(0 .. frames)  BY <1>1 DEF Shape
<1>10. /\ Settled'.scanout = Settled.scanout /\ Settled'.shown = Settled.shown
       /\ \A r \in ResIds \ {flip.res} : Settled'.blobs[r] = Settled.blobs[r]
  BY <1>1, <1>8, <1>9, AttachFacts
<1>11. CASE ~Returned
  <2>1. \A r \in ResIds : Exists(Settled', r) => Exists(Settled, r) \/ r = flip.res
    BY <1>10 DEF Exists
  <2> QED  BY <1>4, <1>5, <1>7, <1>10, <1>11, <2>1, GivenUp
<1>12. CASE Returned
  <2>1. Settled'.blobs[flip.res] = flip.fb  BY <1>1, <1>6, <1>8, <1>9, <1>12, AttachFacts
  <2>2. Exists(Settled', flip.res)  BY <1>1, <2>1, DisplayAssumption DEF Exists
  <2>3. pc' = "bind" /\ everRetired'  BY <1>5, <1>6, <1>12
  <2> QED  BY <1>4, <1>7, <1>10, <1>12, <2>1, <2>2, <2>3, GoesOn
<1> QED  BY <1>6, <1>11, <1>12

LEMMA BindStep ==
    ASSUME DisplayInv, PushBind
    PROVE  DisplayInv'
<1> DEFINE msg == [op |-> "bind", res |-> flip.res]
<1>1. /\ flip.res \in ResIds /\ flip.fb \in Fbs /\ Shape /\ Settled.blobs[flip.res] = flip.fb /\ everRetired
  BY DEF PushBind, DisplayInv, DriverInv, FlipInv, BlobsInv
<1>2. /\ msg \in Messages /\ msg.op = "bind" /\ msg.res = flip.res
  BY <1>1, MessageTypes
<1>3. Push(msg) /\ pixels' = pixels  BY DEF PushBind, frameVars
<1>4. Registers("bind")  BY DEF PushBind, Registers
<1>5. /\ pc' = IF Returned THEN "fill" ELSE "idle"
      /\ scanoutRes' = IF Returned THEN flip.res ELSE scanoutRes
  BY DEF PushBind
<1> HIDE DEF msg
<1>6. Returned \in BOOLEAN /\ (Returned <=> Accepted) /\ everRetired'
  BY <1>1, <1>2, <1>3, PushFacts DEF Returned, Accepted
<1>7. DriverInv'  BY RegisterDriver DEF DisplayInv
<1>8. /\ ~Accepted => Settled' = Settled
      /\ Accepted => Settled' = Bind(Settled, flip.res)
  BY <1>1, <1>2, <1>3, PushFacts, ExecuteOps
<1>9. Settled \in HostOf(0 .. frames)  BY <1>1 DEF Shape
<1>10. CASE ~Returned
  <2>1. Settled' = Settled  BY <1>6, <1>8, <1>10
  <2>2. pc' = "idle" /\ scanoutRes' = scanoutRes  BY <1>5, <1>10
  <2> QED  BY <1>4, <1>7, <1>10, <2>1, <2>2, GivenUp
<1>11. CASE Returned
  <2>1. Exists(Settled, flip.res)  BY <1>1, DisplayAssumption DEF Exists
  <2>2. /\ Settled'.blobs = Settled.blobs /\ Settled'.shown = Settled.shown
        /\ Settled'.scanout = flip.res
    BY <1>1, <1>6, <1>8, <1>9, <1>11, <2>1, BindFacts
  <2>3. Exists(Settled', flip.res)  BY <2>1, <2>2 DEF Exists
  <2>4. pc' = "fill" /\ everRetired' /\ scanoutRes' = flip.res  BY <1>5, <1>6, <1>11
  <2> QED  BY <1>1, <1>4, <1>7, <1>11, <2>2, <2>3, <2>4, GoesOn
<1> QED  BY <1>6, <1>10, <1>11

LEMMA NextSlot ==
    ASSUME NEW n \in Slots
    PROVE  (n + 1) % CacheSize \in Slots
BY DisplayAssumption DEF Slots

\* The slot gets the new buffer; what it held is no longer cached.
LEMMA SlotTaken ==
    ASSUME DriverInv, pc = "fill", nextRes' = nextRes,
           cache' = [cache EXCEPT ![cacheNext] = [res |-> flip.res, fb |-> flip.fb]]
    PROVE  /\ CacheInv'
           /\ cache' \in [Slots -> [res : ResIds \cup {0}, fb : Fbs \cup {Never}]]
           /\ cache'[cacheNext] = [res |-> flip.res, fb |-> flip.fb]
           /\ \A s \in Slots \ {cacheNext} : cache'[s] = cache[s]
           /\ CachedIds' = {flip.res} \cup (IF cache[cacheNext] = EmptySlot THEN CachedIds
                                            ELSE CachedIds \ {cache[cacheNext].res})
<1> DEFINE n == cacheNext
           new == [res |-> flip.res, fb |-> flip.fb]
<1>1. /\ n \in Slots /\ cache \in [Slots -> [res : ResIds \cup {0}, fb : Fbs \cup {Never}]]
      /\ flip.res \in ResIds /\ flip.fb \in Fbs /\ flip.res = nextRes
      /\ \A s \in Slots : cache[s].res # flip.res /\ cache[s].fb # flip.fb
  BY DEF DriverInv, Shape, FlipInv
<1>2. new \in [res : ResIds \cup {0}, fb : Fbs \cup {Never}] /\ new.res = flip.res /\ new.fb = flip.fb
  BY <1>1
<1>3. new # EmptySlot  BY <1>1, DisplayAssumption DEF EmptySlot
<1>4. flip.res \in 1 .. nextRes  BY <1>1, IdRange DEF DriverInv
<1> HIDE DEF new
<1>5. cache'[n] = new /\ \A s \in Slots \ {n} : cache'[s] = cache[s]  BY <1>1 DEF new
<1>6. cache' \in [Slots -> [res : ResIds \cup {0}, fb : Fbs \cup {Never}]]
  <2> DEFINE S == [res : ResIds \cup {0}, fb : Fbs \cup {Never}]
  <2>1. n \in Slots /\ cache \in [Slots -> S] /\ new \in S  BY <1>1, <1>2
  <2> HIDE DEF S
  <2>2. [cache EXCEPT ![n] = new] \in [Slots -> S]  BY <2>1
  <2> QED  BY <2>2 DEF S, new
<1>7. CacheInv'
  <2>1. ASSUME NEW s \in Slots
        PROVE  cache'[s] = EmptySlot \/ (cache'[s].res \in 1 .. nextRes /\ cache'[s].fb \in Fbs)
    BY <1>1, <1>2, <1>4, <1>5 DEF DriverInv, CacheInv
  <2>2. ASSUME NEW s \in Slots, NEW t \in Slots, s # t, cache'[s] # EmptySlot
        PROVE  cache'[s].fb # cache'[t].fb /\ cache'[s].res # cache'[t].res
    <3>1. CASE s = n  BY <1>1, <1>2, <1>5, <2>2, <3>1
    <3>2. CASE t = n  BY <1>1, <1>2, <1>5, <2>2, <3>2
    <3>3. CASE s # n /\ t # n  BY <1>5, <2>2, <3>3 DEF DriverInv, CacheInv
    <3> QED  BY <3>1, <3>2, <3>3
  <2> QED  BY <2>1, <2>2 DEF CacheInv, EmptySlot
<1>8. \A s \in Slots : s # n /\ cache[s] # EmptySlot /\ cache[n] # EmptySlot => cache[s].res # cache[n].res
  BY <1>1 DEF DriverInv, CacheInv
<1>9. CachedIds' = {flip.res} \cup (IF cache[n] = EmptySlot THEN CachedIds ELSE CachedIds \ {cache[n].res})
  <2>1. CachedIds' = {cache'[s].res : s \in {t \in Slots : cache'[t] # EmptySlot}}  BY DEF CachedIds, EmptySlot
  <2>2. CachedIds = {cache[s].res : s \in {t \in Slots : cache[t] # EmptySlot}}  BY DEF CachedIds
  <2>3. \A r : r \in CachedIds' <=> r = flip.res \/ \E s \in Slots \ {n} : cache[s] # EmptySlot /\ cache[s].res = r
    BY <1>1, <1>2, <1>3, <1>5, <2>1
  <2>4. \A r : r \in CachedIds <=> \E s \in Slots : cache[s] # EmptySlot /\ cache[s].res = r
    BY <2>2
  <2>5. CASE cache[n] = EmptySlot
    <3>1. \A r : r \in CachedIds' <=> r = flip.res \/ r \in CachedIds  BY <2>3, <2>4, <2>5
    <3> QED  BY <2>5, <3>1
  <2>6. CASE cache[n] # EmptySlot
    <3>1. \A r : r \in CachedIds' <=> r = flip.res \/ (r \in CachedIds /\ r # cache[n].res)
      BY <1>1, <1>8, <2>3, <2>4, <2>6
    <3> QED  BY <2>6, <3>1
  <2> QED  BY <2>5, <2>6
<1> QED  BY <1>5, <1>6, <1>7, <1>9 DEF new

LEMMA FillDriver ==
    ASSUME DriverInv, Fill
    PROVE  DriverInv' /\ scanoutRes' = scanoutRes /\ scanoutRes = flip.res
<1> DEFINE n == cacheNext
           old == cache[n].res
           msg == [op |-> "destroy", res |-> old]
<1>1. /\ pc = "fill" /\ pc' = "flush" /\ UNCHANGED <<dmaVars, frameVars, nextRes, flip>>
      /\ pixels' = pixels /\ screen' = screen /\ frames' = frames
      /\ cache' = [cache EXCEPT ![n] = [res |-> flip.res, fb |-> flip.fb]]
      /\ cacheNext' = (cacheNext + 1) % CacheSize
  BY DEF Fill, frameVars
<1>2. /\ Shape /\ n \in Slots /\ cacheNext' \in Slots
      /\ flip.res \in ResIds /\ flip.fb \in Fbs /\ scanoutRes = flip.res /\ pixels[flip.fb] = screen
      /\ \A s \in Slots : cache[s].res # flip.res /\ cache[s].fb # flip.fb
  BY <1>1, NextSlot DEF DriverInv, Shape, FlipInv
<1>3. /\ CacheInv'
      /\ cache' \in [Slots -> [res : ResIds \cup {0}, fb : Fbs \cup {Never}]]
      /\ cache'[n] = [res |-> flip.res, fb |-> flip.fb]
  BY <1>1, SlotTaken
<1>4. Shape' /\ scanoutRes' = scanoutRes
  <2>1. CASE cache[n] = EmptySlot
    <3>1. UNCHANGED <<hostVars, history, scanoutRes>>  BY <2>1 DEF Fill
    <3>2. Settled' = Settled  BY <1>1, <3>1 DEF Settled, hostVars
    <3> QED  BY <1>1, <1>2, <1>3, <3>1, <3>2 DEF Shape, hostVars, dmaVars
  <2>2. CASE cache[n] # EmptySlot
    <3>1. /\ scanoutRes' = IF old = scanoutRes THEN 0 ELSE scanoutRes
          /\ Push(msg) /\ Note(Accepted, TRUE)
      BY <2>2 DEF Fill
    <3>2. old \in ResIds /\ old # flip.res  BY <1>2, <2>2, IdRange DEF DriverInv, CacheInv
    <3>3. scanoutRes' = scanoutRes  BY <1>2, <3>1, <3>2
    <3>4. msg \in Messages  BY <3>2, MessageTypes
    <3>5. Accepted \in BOOLEAN  BY DEF Accepted
    <3>6. history' \in Histories  BY <1>2, <3>1, <3>5, NoteType
    <3> HIDE DEF msg
    <3>7. pc' \in Pcs /\ scanoutRes' \in ResIds \cup {0}  BY <1>1, <1>2, <3>3 DEF Pcs, Shape
    <3>8. Shape'  BY <1>1, <1>2, <1>3, <3>1, <3>4, <3>6, <3>7, PushShape
    <3> QED  BY <3>3, <3>8
  <2> QED  BY <2>1, <2>2
<1>5. FlipInv'  BY <1>1, <1>2, <1>3, <1>4 DEF FlipInv
<1> QED  BY <1>2, <1>3, <1>4, <1>5 DEF DriverInv

LEMMA FillStep ==
    ASSUME DisplayInv, Fill
    PROVE  DisplayInv'
<1> DEFINE n == cacheNext
           old == cache[n].res
           empty == cache[n] = EmptySlot
           msg == [op |-> "destroy", res |-> old]
<1>1. /\ pc = "fill" /\ pc' = "flush" /\ UNCHANGED <<dmaVars, frameVars, nextRes, flip>>
      /\ pixels' = pixels /\ screen' = screen /\ frames' = frames
      /\ cache' = [cache EXCEPT ![n] = [res |-> flip.res, fb |-> flip.fb]]
      /\ cacheNext' = (cacheNext + 1) % CacheSize
  BY DEF Fill, frameVars
<1>2. /\ Shape /\ n \in Slots /\ cacheNext' \in Slots
      /\ flip.res \in ResIds /\ flip.fb \in Fbs /\ flip.res = nextRes /\ scanoutRes = flip.res
      /\ pixels[flip.fb] = screen
      /\ \A s \in Slots : cache[s].res # flip.res /\ cache[s].fb # flip.fb
  BY <1>1, NextSlot DEF DisplayInv, DriverInv, Shape, FlipInv
<1>3. /\ CacheInv'
      /\ cache' \in [Slots -> [res : ResIds \cup {0}, fb : Fbs \cup {Never}]]
      /\ cache'[n] = [res |-> flip.res, fb |-> flip.fb]
      /\ \A s \in Slots \ {n} : cache'[s] = cache[s]
      /\ CachedIds' = {flip.res} \cup (IF empty THEN CachedIds ELSE CachedIds \ {old})
  BY <1>1, SlotTaken DEF DisplayInv
<1>4. /\ Settled.blobs[flip.res] = flip.fb /\ Settled.scanout = flip.res /\ Settled \in HostOf(0 .. frames)
  BY <1>1, <1>2 DEF DisplayInv, DriverInv, BlobsInv, Shape
\* What the step does to the host and the history.
<1>5. /\ DriverInv' /\ scanoutRes' = scanoutRes
      /\ Settled'.shown = Settled.shown /\ Settled'.scanout = Settled.scanout
      /\ \A r \in ResIds : (empty \/ r # old) => Settled'.blobs[r] = Settled.blobs[r]
      /\ ~empty /\ ~history'.dropped => Settled'.blobs[old] = Absent
      /\ (history'.sound => history.sound) /\ (~history'.dropped => ~history.dropped)
      /\ ~empty => old \in ResIds
  <2>0. DriverInv' /\ scanoutRes' = scanoutRes  BY FillDriver DEF DisplayInv
  <2>1. CASE empty
    <3>1. UNCHANGED <<hostVars, history, scanoutRes>>  BY <2>1 DEF Fill
    <3>2. Settled' = Settled  BY <1>1, <3>1 DEF Settled, hostVars
    <3> QED  BY <2>1, <2>0, <3>1, <3>2
  <2>2. CASE ~empty
    <3>1. /\ Push(msg) /\ Note(Accepted, TRUE)
      BY <2>2 DEF Fill
    <3>2. old \in ResIds /\ old # flip.res
      BY <1>2, <2>2, IdRange DEF DisplayInv, DriverInv, CacheInv
    <3>4. msg \in Messages /\ msg.op = "destroy" /\ msg.res = old  BY <3>2, MessageTypes
    <3>5. Accepted \in BOOLEAN  BY DEF Accepted
    <3>6. /\ history' \in Histories /\ (history'.dropped <=> history.dropped \/ ~Accepted)
          /\ (history'.sound <=> history.sound /\ Accepted)
      BY <1>2, <3>1, <3>5, NoteType
    <3>8. /\ ~Accepted => Settled' = Settled
          /\ Accepted => Settled' = Destroy(Settled, old)
      <4> HIDE DEF msg
      <4> QED  BY <1>1, <1>2, <3>1, <3>4, PushFacts, ExecuteOps
    <3>9. CASE ~Accepted  BY <2>0, <2>2, <3>2, <3>6, <3>8, <3>9
    <3>10. CASE Accepted
      <4>1. /\ Settled'.shown = Settled.shown /\ Settled'.blobs[old] = Absent
            /\ \A r \in ResIds \ {old} : Settled'.blobs[r] = Settled.blobs[r]
            /\ Settled'.scanout = IF Exists(Settled, old) /\ Settled.scanout = old THEN 0 ELSE Settled.scanout
        BY <1>4, <3>2, <3>8, <3>10, DestroyFacts
      <4>2. Settled'.scanout = Settled.scanout  BY <1>4, <3>2, <4>1
      <4> QED  BY <2>0, <2>2, <3>2, <3>6, <4>1, <4>2
    <3> QED  BY <3>9, <3>10
  <2> QED  BY <2>1, <2>2
<1> HIDE DEF empty, old
<1>7. FlushesLand'
  <2>1. ASSUME NEW s \in Slots, cache'[s] # EmptySlot
        PROVE  Settled'.blobs[cache'[s].res] = cache'[s].fb
    <3>1. CASE s = n
      <4>1. cache'[s].res = flip.res /\ cache'[s].fb = flip.fb  BY <1>3, <3>1
      <4>2. empty \/ flip.res # old  BY <1>2 DEF old
      <4> QED  BY <1>2, <1>4, <1>5, <4>1, <4>2
    <3>2. CASE s # n
      <4>1. cache'[s] = cache[s]  BY <1>3, <3>2
      <4>2. cache[s].res \in ResIds  BY <2>1, <4>1, IdsOfCache, IdRange DEF DisplayInv, DriverInv
      <4>3. empty \/ cache[s].res # old  BY <1>2, <2>1, <3>2, <4>1 DEF DisplayInv, DriverInv, CacheInv, empty, old
      <4>4. Settled.blobs[cache[s].res] = cache[s].fb
        BY <2>1, <4>1 DEF DisplayInv, DriverInv, BlobsInv, FlushesLand
      <4> QED  BY <1>5, <4>1, <4>2, <4>3, <4>4
    <3> QED  BY <3>1, <3>2
  <2> QED  BY <2>1 DEF FlushesLand, EmptySlot
<1>8. HeadKnown'  BY <1>1, <1>3, <1>4, <1>5 DEF HeadKnown
<1>9. \A r \in ResIds : Exists(Settled', r) => r <= nextRes'
  <2>1. \A r \in ResIds : Exists(Settled, r) => r <= nextRes  BY DEF DisplayInv, DriverInv, BlobsInv
  <2>2. ASSUME NEW r \in ResIds, Exists(Settled', r) PROVE r <= nextRes
    <3>1. CASE empty \/ r # old  BY <1>5, <2>1, <2>2, <3>1 DEF Exists
    <3>2. CASE ~empty /\ r = old
      <4>1. r \in 1 .. nextRes  BY <1>2, <3>2 DEF DisplayInv, DriverInv, CacheInv, empty, old
      <4>2. nextRes \in Nat  BY <1>2, IdRange
      <4> QED  BY <4>1, <4>2
    <3> QED  BY <3>1, <3>2
  <2> QED  BY <1>1, <2>2
<1>10. ~history'.dropped => Blobs(Settled') = CachedIds'
  <2>1. SUFFICES ASSUME ~history'.dropped PROVE Blobs(Settled') = CachedIds'  OBVIOUS
  <2>2. Blobs(Settled) = CachedIds \cup {flip.res}  BY <1>1, <1>5, <2>1 DEF DisplayInv, DriverInv, BlobsInv
  <2>3. flip.res \in ResIds /\ (empty \/ flip.res # old)  BY <1>2 DEF old
  <2>4. CASE empty
    <3>1. Blobs(Settled') = Blobs(Settled)  BY <1>5, <2>4 DEF Blobs, Exists
    <3> QED  BY <1>3, <2>2, <2>4, <3>1
  <2>5. CASE ~empty
    <3>1. Blobs(Settled') = Blobs(Settled) \ {old}  BY <1>5, <2>1, <2>5 DEF Blobs, Exists
    <3> QED  BY <1>3, <2>2, <2>3, <2>5, <3>1
  <2> QED  BY <2>4, <2>5
<1>11. BlobsInv'  BY <1>1, <1>7, <1>8, <1>9, <1>10 DEF BlobsInv
<1>12. ShownInv'  BY <1>1, <1>2, <1>4, <1>5 DEF DisplayInv, DriverInv, ShownInv
<1> QED  BY <1>5, <1>11, <1>12 DEF DisplayInv

-----------------------------------------------------------------------------
(* The flush of a buffer that is cached.                                     *)

LEMMA CachedDriver ==
    ASSUME DriverInv, Rebind \/ PushFlush
    PROVE  DriverInv'
<1>1. /\ Shape /\ flip.res \in ResIds /\ flip.damage \in SUBSET Regions /\ pc \in {"rebind", "flush"}
      /\ Accepted \in BOOLEAN
  <2>1. Shape /\ pc \in {"rebind", "flush"} /\ flip.res \in ResIds
    BY DEF Rebind, PushFlush, DriverInv, FlipInv
  <2>2. flip.damage \in SUBSET Regions  BY <2>1 DEF Shape
  <2>3. Accepted \in BOOLEAN  BY DEF Accepted
  <2> QED  BY <2>1, <2>2, <2>3
<1>2. /\ UNCHANGED <<dmaVars, cacheVars, frameVars, nextRes, flip>> /\ nextRes' = nextRes /\ flip' = flip
      /\ pixels' = pixels /\ screen' = screen /\ cache' = cache /\ cacheNext' = cacheNext
  BY DEF Rebind, PushFlush, frameVars, cacheVars
<1>3. PICK msg \in Messages : Push(msg)  BY <1>1, MessageTypes DEF Rebind, PushFlush
<1>4. /\ pc' \in {"flush", "idle"} /\ scanoutRes' \in {scanoutRes, flip.res}
      /\ pc' = "flush" => scanoutRes' = flip.res
  BY DEF Rebind, PushFlush
<1>5. history' \in Histories
  <2>1. CASE Rebind  BY <1>1, <2>1, NoteType DEF Rebind
  <2>2. CASE PushFlush  BY <1>1, <2>2 DEF PushFlush, Shape, Histories
  <2> QED  BY <2>1, <2>2
<1>6. Shape'
  <2>1. /\ pc' \in Pcs /\ scanoutRes' \in ResIds \cup {0} /\ cacheNext' \in Slots
        /\ cache' \in [Slots -> [res : ResIds \cup {0}, fb : Fbs \cup {Never}]]
    BY <1>1, <1>2, <1>4 DEF Pcs, Shape
  <2> QED  BY <1>1, <1>2, <1>3, <1>5, <2>1, PushShape
<1>7. CacheInv'  BY <1>2, CacheSame DEF DriverInv
<1>8. FlipInv'  BY <1>1, <1>2, <1>4 DEF DriverInv, FlipInv
<1> QED  BY <1>6, <1>7, <1>8 DEF DriverInv

LEMMA OfSlot ==
    ASSUME DisplayInv, pc \in {"rebind", "flush"}
    PROVE  /\ flip.res \in ResIds /\ flip.fb \in Fbs /\ flip.res \in CachedIds
           /\ Settled.blobs[flip.res] = flip.fb /\ Exists(Settled, flip.res)
<1>1. PICK s \in Slots : cache[s] = [res |-> flip.res, fb |-> flip.fb]  BY DEF DisplayInv, DriverInv, FlipInv
<1>2. flip.res \in ResIds /\ flip.fb \in Fbs  BY DEF DisplayInv, DriverInv, FlipInv
<1>3. cache[s].res = flip.res /\ cache[s].fb = flip.fb /\ cache[s] # EmptySlot
  BY <1>1, <1>2, DisplayAssumption DEF EmptySlot
<1>4. Settled.blobs[flip.res] = flip.fb  BY <1>3 DEF DisplayInv, DriverInv, BlobsInv, FlushesLand
<1> QED  BY <1>2, <1>3, <1>4, IdsOfCache, DisplayAssumption DEF DisplayInv, DriverInv, Exists

LEMMA RebindStep ==
    ASSUME DisplayInv, Rebind
    PROVE  DisplayInv'
<1> DEFINE msg == [op |-> "bind", res |-> flip.res]
<1>1. /\ flip.res \in ResIds /\ flip.fb \in Fbs /\ flip.res \in CachedIds
      /\ Settled.blobs[flip.res] = flip.fb /\ Exists(Settled, flip.res)
  BY OfSlot DEF Rebind
<1>2. /\ pc = "rebind" /\ pc' = "flush" /\ scanoutRes' = flip.res /\ Push(msg) /\ Note(Accepted, FALSE)
      /\ UNCHANGED <<dmaVars, cacheVars, frameVars, nextRes, flip>>
      /\ pixels' = pixels /\ screen' = screen /\ cache' = cache /\ cacheNext' = cacheNext
  BY DEF Rebind, frameVars, cacheVars
<1>3. msg \in Messages /\ msg.op = "bind" /\ msg.res = flip.res  BY <1>1, MessageTypes
<1>4. Shape /\ Accepted \in BOOLEAN /\ Settled \in HostOf(0 .. frames)
  BY DEF DisplayInv, DriverInv, Shape, Accepted
<1> HIDE DEF msg
<1>5. /\ history' \in Histories /\ ~history'.fresh
      /\ (history'.dropped <=> history.dropped \/ ~Accepted)
      /\ (history'.sound <=> history.sound /\ Accepted)
  BY <1>2, <1>4, NoteType
<1>6. DriverInv'  BY CachedDriver DEF DisplayInv
<1>7. /\ Settled'.blobs = Settled.blobs /\ Settled'.shown = Settled.shown
      /\ Settled'.scanout = IF Accepted THEN flip.res ELSE Settled.scanout
  <2>1. /\ ~Accepted => Settled' = Settled
        /\ Accepted => Settled' = Bind(Settled, flip.res)
    BY <1>2, <1>3, <1>4, PushFacts, ExecuteOps
  <2> QED  BY <1>1, <1>4, <2>1, BindFacts
<1>8. CacheInv' /\ CachedIds' = CachedIds  BY <1>2, CacheSame DEF DisplayInv, DriverInv
<1>10. FlushesLand'  BY <1>2, <1>7 DEF DisplayInv, DriverInv, BlobsInv, FlushesLand, EmptySlot
<1>11. HeadKnown'  BY <1>1, <1>2, <1>7, <1>8 DEF DisplayInv, DriverInv, BlobsInv, HeadKnown
<1>12. Blobs(Settled') = Blobs(Settled)  BY <1>7 DEF Blobs, Exists
<1>13. BlobsInv'  BY <1>2, <1>5, <1>7, <1>8, <1>10, <1>11, <1>12 DEF DisplayInv, DriverInv, BlobsInv, Exists
<1>14. ShownInv'  BY <1>2, <1>5, <1>7 DEF DisplayInv, DriverInv, ShownInv
<1> QED  BY <1>6, <1>13, <1>14 DEF DisplayInv

LEMMA FlushStep ==
    ASSUME DisplayInv, PushFlush
    PROVE  DisplayInv'
<1> DEFINE msg == [op |-> "flush", res |-> flip.res, damage |-> flip.damage]
<1>1. /\ flip.res \in ResIds /\ flip.fb \in Fbs /\ flip.damage \in SUBSET Regions
      /\ Settled.blobs[flip.res] = flip.fb /\ pixels[flip.fb] = screen /\ scanoutRes = flip.res
  BY OfSlot DEF PushFlush, DisplayInv, DriverInv, FlipInv, Shape
<1>2. /\ pc = "flush" /\ pc' = "idle" /\ scanoutRes' = scanoutRes /\ Push(msg)
      /\ UNCHANGED <<dmaVars, cacheVars, frameVars, nextRes, flip>>
      /\ pixels' = pixels /\ screen' = screen /\ cache' = cache /\ cacheNext' = cacheNext
      /\ nextRes' = nextRes
  BY DEF PushFlush, frameVars, cacheVars
<1>3. /\ msg \in Messages /\ msg.op = "flush" /\ msg.res = flip.res /\ msg.damage = flip.damage
  BY <1>1, MessageTypes
<1>4. /\ Shape /\ Accepted \in BOOLEAN /\ Settled \in HostOf(0 .. frames)
      /\ pixels \in [Fbs -> [Regions -> 0 .. frames]]
  BY DEF DisplayInv, DriverInv, Shape, Accepted
<1> HIDE DEF msg
<1>5. /\ history' \in Histories
      /\ (history'.dropped <=> history.dropped \/ ~Accepted)
      /\ history'.sound => Accepted /\ (history.sound \/ (history.fresh /\ flip.damage = FullFrame))
  BY <1>4 DEF PushFlush, Shape, Histories
<1>6. DriverInv'  BY CachedDriver DEF DisplayInv
<1>7. /\ ~Accepted => Settled' = Settled
      /\ Accepted => Patched(Settled, Settled', flip.res, flip.damage, pixels)
  <2>1. /\ ~Accepted => Settled' = Settled
        /\ Accepted => Settled' = Flush(Settled, flip.res, flip.damage, pixels)
    BY <1>2, <1>3, <1>4, PushFacts, ExecuteOps
  <2>2. Never \notin Fbs /\ Absent \notin Fbs \cup {Never}  BY DisplayAssumption
  <2>3. Patched(Settled, Flush(Settled, flip.res, flip.damage, pixels), flip.res, flip.damage, pixels)
    BY <1>1, <1>4, <2>2, FlushFacts
  <2> QED  BY <2>1, <2>3
<1>8. Settled'.blobs = Settled.blobs /\ Settled'.scanout = Settled.scanout
  BY <1>4, <1>7 DEF Patched
<1>9. CacheInv' /\ CachedIds' = CachedIds  BY <1>2, CacheSame DEF DisplayInv, DriverInv
<1>11. FlushesLand'  BY <1>2, <1>8 DEF DisplayInv, DriverInv, BlobsInv, FlushesLand, EmptySlot
<1>12. HeadKnown'  BY <1>1, <1>2, <1>8, <1>9 DEF DisplayInv, DriverInv, BlobsInv, HeadKnown
<1>13. Blobs(Settled') = Blobs(Settled)  BY <1>8 DEF Blobs, Exists
<1>14. BlobsInv'  BY <1>2, <1>5, <1>8, <1>9, <1>11, <1>12, <1>13 DEF DisplayInv, DriverInv, BlobsInv, Exists
<1>15. ShownInv'
  <2>1. SUFFICES ASSUME history'.sound
                 PROVE  /\ Settled'.scanout = scanoutRes
                        /\ \A a \in Regions : Settled'.shown[a] = screen[a]
    BY <1>2 DEF ShownInv
  <2>2. Settled.scanout = flip.res  BY <1>1, <1>2, <1>5, <2>1 DEF DisplayInv, DriverInv, ShownInv
  <2>3. Lands(Settled, flip.res)  BY <1>1, <2>2 DEF Lands
  <2>4. \A a \in Regions : Settled'.shown[a] = IF a \in flip.damage THEN screen[a] ELSE Settled.shown[a]
    BY <1>1, <1>5, <1>7, <2>1, <2>3 DEF Patched
  <2>5. \A a \in Regions : a \notin flip.damage => Settled.shown[a] = screen[a]
    BY <1>2, <1>5, <2>1 DEF DisplayInv, DriverInv, ShownInv, FullFrame
  <2> QED  BY <1>1, <1>8, <2>2, <2>4, <2>5
<1> QED  BY <1>6, <1>14, <1>15 DEF DisplayInv

-----------------------------------------------------------------------------
(* The beginning of a flip, and what goes on around it.                      *)

LEMMA HostGrows ==
    ASSUME NEW V, NEW W, V \subseteq W
    PROVE  /\ HostOf(V) \subseteq HostOf(W) /\ [Regions -> V] \subseteq [Regions -> W]
           /\ [Fbs -> [Regions -> V]] \subseteq [Fbs -> [Regions -> W]]
<1>1. [Regions -> V] \subseteq [Regions -> W]  OBVIOUS
<1>2. HostOf(V) \subseteq HostOf(W)  BY <1>1 DEF HostOf
<1>3. [Fbs -> [Regions -> V]] \subseteq [Fbs -> [Regions -> W]]
  <2> DEFINE A == [Regions -> V]
             B == [Regions -> W]
  <2>1. A \subseteq B  BY <1>1
  <2> HIDE DEF A, B
  <2>2. [Fbs -> A] \subseteq [Fbs -> B]  BY <2>1
  <2> QED  BY <2>2 DEF A, B
<1> QED  BY <1>1, <1>2, <1>3

LEMMA FlipDriver ==
    ASSUME DriverInv, NEW f \in Fbs, NEW damage \in SUBSET Regions, Flip(f, damage)
    PROVE  DriverInv' /\ Redrawn(Settled, Settled', screen')
<1> DEFINE V == 0 .. frames
           W == 0 .. frames'
<1>1. /\ pc = "idle" /\ frames < MaxFlips /\ frames' = frames + 1
      /\ screen' = [a \in Regions |-> IF a \in damage THEN frames + 1 ELSE screen[a]]
      /\ pixels' = [pixels EXCEPT ![f] = screen']
      /\ history' = [history EXCEPT !.whole = TRUE, !.fresh = FALSE]
      /\ ring' = ring /\ host' = host /\ everRetired' = everRetired /\ mapped' = mapped
      /\ cache' = cache /\ cacheNext' = cacheNext /\ scanoutRes' = scanoutRes
  BY DEF Flip, hostVars, dmaVars, cacheVars
<1>2. /\ frames \in Nat /\ MaxFlips \in Nat /\ nextRes \in 0 .. frames /\ frames <= MaxFlips
      /\ ring \in Seq(Messages) /\ host \in HostOf(V) /\ Settled \in HostOf(V)
      /\ pixels \in [Fbs -> [Regions -> V]] /\ screen \in [Regions -> V]
  BY DisplayAssumption DEF DriverInv, Shape
<1>3. V \subseteq W /\ frames' \in W /\ frames' \in 0 .. MaxFlips  BY <1>1, <1>2
<1>4. frames + 1 \in W  BY <1>1, <1>3
<1> HIDE DEF V, W
<1>5. /\ host \in HostOf(W) /\ Settled \in HostOf(W) /\ screen \in [Regions -> W]
      /\ pixels \in [Fbs -> [Regions -> W]]
  BY <1>2, <1>3, HostGrows
<1>6. screen' \in [Regions -> W] /\ \A a \in Regions \ damage : screen'[a] = screen[a]
  BY <1>1, <1>4, <1>5
<1>7. pixels' \in [Fbs -> [Regions -> W]] /\ pixels'[f] = screen'
  <2> DEFINE S == [Regions -> W]
  <2>1. pixels \in [Fbs -> S] /\ screen' \in S  BY <1>5, <1>6
  <2> HIDE DEF S
  <2>2. pixels' \in [Fbs -> S] /\ pixels'[f] = screen'  BY <1>1, <2>1
  <2> QED  BY <2>2 DEF S
<1>8. Settled' \in HostOf(W) /\ Redrawn(Settled, Settled', screen')
  <2>1. Settled = Drained(host, ring, pixels) /\ Settled' = Drained(host, ring, pixels')
    BY <1>1 DEF Settled
  <2> DEFINE px == screen'
  <2>2. px \in [Regions -> W] /\ pixels' = [pixels EXCEPT ![f] = px]  BY <1>1, <1>6
  <2> HIDE DEF px
  <2>3. /\ Drained(host, ring, [pixels EXCEPT ![f] = px]) \in HostOf(W)
        /\ Redrawn(Drained(host, ring, pixels), Drained(host, ring, [pixels EXCEPT ![f] = px]), px)
    BY <1>2, <1>5, <2>2, DrainedRedrawn
  <2> QED  BY <2>1, <2>2, <2>3 DEF px
<1>9. /\ history' \in Histories /\ ~history'.fresh
       /\ history'.dropped = history.dropped /\ history'.sound = history.sound
  BY <1>1 DEF DriverInv, Shape, Histories
<1>10. /\ flip'.fb = f /\ flip'.damage = damage
       /\ \/ /\ Cached(f) = {} /\ nextRes' = nextRes + 1 /\ flip'.res = nextRes + 1 /\ pc' = "create"
          \/ /\ nextRes' = nextRes
             /\ \E s \in Slots : /\ cache[s].fb = f /\ flip'.res = cache[s].res
                                 /\ pc' = IF cache[s].res = scanoutRes THEN "flush" ELSE "rebind"
       /\ flip' = [fb |-> f, res |-> flip'.res, damage |-> damage]
  BY DEF Flip, Cached
<1>11. ASSUME NEW s \in Slots, cache[s].fb = f
       PROVE  cache[s] = [res |-> cache[s].res, fb |-> f] /\ cache[s] # EmptySlot /\ cache[s].res \in ResIds
  <2>1. cache[s] # EmptySlot  BY <1>11, DisplayAssumption DEF EmptySlot
  <2>2. cache[s] \in [res : ResIds \cup {0}, fb : Fbs \cup {Never}]  BY DEF DriverInv, Shape
  <2>3. cache[s].res \in ResIds  BY <2>1, IdsOfCache, IdRange DEF DriverInv
  <2> QED  BY <1>11, <2>1, <2>2, <2>3
<1>12. flip'.res \in ResIds
  <2>1. CASE flip'.res = nextRes + 1  BY <1>1, <1>2, <2>1 DEF ResIds
  <2>2. CASE \E s \in Slots : cache[s].fb = f /\ flip'.res = cache[s].res  BY <1>11, <2>2
  <2> QED  BY <1>10, <2>1, <2>2
<1>13. nextRes' \in 0 .. frames' /\ nextRes' \in Nat /\ nextRes <= nextRes'  BY <1>1, <1>2, <1>10
<1>14. Shape'
  <2>1. flip' \in [fb : Fbs \cup {Never}, res : ResIds \cup {0}, damage : SUBSET Regions]
    BY <1>10, <1>12
  <2>2. pc' \in Pcs  BY <1>10 DEF Pcs
  <2>3. /\ Len(ring) <= Cap /\ mapped \in BOOLEAN /\ everRetired \in BOOLEAN
        /\ cache \in [Slots -> [res : ResIds \cup {0}, fb : Fbs \cup {Never}]]
        /\ cacheNext \in Slots /\ scanoutRes \in ResIds \cup {0}
    BY DEF DriverInv, Shape
  <2>4. host' \in HostOf(W)  BY <1>1, <1>5
  <2> QED  BY <1>1, <1>2, <1>3, <1>6, <1>7, <1>8, <1>9, <1>13, <2>1, <2>2, <2>3, <2>4
    DEF Shape, Pcs, Histories, W
<1>15. CacheInv' /\ CachedIds' = CachedIds
  <2>1. \A s \in Slots : cache[s] = EmptySlot \/ (cache[s].res \in 1 .. nextRes' /\ cache[s].fb \in Fbs)
    BY <1>2, <1>13 DEF DriverInv, CacheInv
  <2>2. CachedIds' = CachedIds  BY <1>1 DEF CachedIds, EmptySlot
  <2> QED  BY <1>1, <2>1, <2>2 DEF DriverInv, CacheInv, EmptySlot
<1>16. FlipInv'
  <2>1. pixels'[flip'.fb] = screen' /\ flip'.fb \in Fbs /\ flip'.res \in ResIds  BY <1>7, <1>10, <1>12
  <2>2. CASE Cached(f) = {} /\ nextRes' = nextRes + 1 /\ flip'.res = nextRes + 1 /\ pc' = "create"
    <3>1. ASSUME NEW s \in Slots PROVE cache[s].res # nextRes + 1 /\ cache[s].fb # f
      <4>1. cache[s] = EmptySlot \/ cache[s].res \in 1 .. nextRes  BY DEF DriverInv, CacheInv
      <4>2. cache[s].fb # f  BY <2>2 DEF Cached
      <4> QED  BY <1>2, <4>1, <4>2 DEF EmptySlot
    <3> QED  BY <1>1, <1>10, <2>1, <2>2, <3>1 DEF FlipInv
  <2>3. CASE \E s \in Slots : /\ cache[s].fb = f /\ flip'.res = cache[s].res
                              /\ pc' = IF cache[s].res = scanoutRes THEN "flush" ELSE "rebind"
    <3>1. PICK s \in Slots : /\ cache[s].fb = f /\ flip'.res = cache[s].res
                             /\ pc' = IF cache[s].res = scanoutRes THEN "flush" ELSE "rebind"
      BY <2>3
    <3>2. cache'[s] = [res |-> flip'.res, fb |-> flip'.fb]  BY <1>1, <1>10, <1>11, <3>1
    <3>3. pc' = "flush" => scanoutRes' = flip'.res  BY <1>1, <3>1
    <3>4. pc' \in {"flush", "rebind"}  BY <3>1
    <3> QED  BY <2>1, <3>2, <3>3, <3>4 DEF FlipInv
  <2> QED  BY <1>10, <2>2, <2>3
<1> QED  BY <1>8, <1>14, <1>15, <1>16 DEF DriverInv

LEMMA FlipStep ==
    ASSUME DisplayInv, NEW f \in Fbs, NEW damage \in SUBSET Regions, Flip(f, damage)
    PROVE  DisplayInv'
<1>1. /\ pc = "idle" /\ cache' = cache /\ scanoutRes' = scanoutRes
      /\ screen' = [a \in Regions |-> IF a \in damage THEN frames + 1 ELSE screen[a]]
      /\ history' = [history EXCEPT !.whole = TRUE, !.fresh = FALSE]
  BY DEF Flip, cacheVars
<1>2. nextRes \in Nat /\ \A a \in Regions \ damage : screen'[a] = screen[a]
  BY <1>1, IdRange DEF DisplayInv, DriverInv
<1>3. DriverInv' /\ Redrawn(Settled, Settled', screen')  BY FlipDriver DEF DisplayInv
<1>4. /\ Settled'.blobs = Settled.blobs /\ Settled'.scanout = Settled.scanout
      /\ \A a \in Regions : Settled'.shown[a] = Settled.shown[a] \/ Settled'.shown[a] = screen'[a]
  BY <1>3 DEF Redrawn
<1>5. /\ history' \in Histories /\ ~history'.fresh
       /\ history'.dropped = history.dropped /\ history'.sound = history.sound
  BY <1>1 DEF DisplayInv, DriverInv, Shape, Histories
<1>6. /\ flip'.fb = f /\ flip'.damage = damage
       /\ \/ /\ Cached(f) = {} /\ nextRes' = nextRes + 1 /\ flip'.res = nextRes + 1 /\ pc' = "create"
          \/ /\ nextRes' = nextRes
             /\ \E s \in Slots : /\ cache[s].fb = f /\ flip'.res = cache[s].res
                                 /\ pc' = IF cache[s].res = scanoutRes THEN "flush" ELSE "rebind"
       /\ flip' = [fb |-> f, res |-> flip'.res, damage |-> damage]
  BY DEF Flip, Cached
<1>7. nextRes' \in Nat /\ nextRes <= nextRes'  BY <1>2, <1>6
<1>8. CachedIds' = CachedIds  BY <1>1 DEF CachedIds, EmptySlot
<1>9. FlushesLand'  BY <1>1, <1>4 DEF DisplayInv, DriverInv, BlobsInv, FlushesLand, EmptySlot
<1>10. HeadKnown'  BY <1>1, <1>4, <1>6, <1>8 DEF DisplayInv, DriverInv, BlobsInv, HeadKnown
<1>11. Blobs(Settled') = Blobs(Settled)  BY <1>4 DEF Blobs, Exists
<1>12. BlobsInv'
  <2>1. pc' \in {"create", "flush", "rebind"} /\ (pc' = "create" => nextRes' = nextRes + 1)  BY <1>6
  <2>2. ASSUME NEW r \in ResIds, Exists(Settled', r) PROVE r <= nextRes' /\ (pc' = "create" => r < nextRes')
    <3>1. r <= nextRes  BY <1>4, <2>2 DEF DisplayInv, DriverInv, BlobsInv, Exists
    <3>2. r \in Nat  BY DEF ResIds
    <3> QED  BY <1>2, <1>7, <2>1, <3>1, <3>2
  <2>3. ~history'.dropped => Blobs(Settled') = CachedIds'
    BY <1>1, <1>5, <1>8, <1>11 DEF DisplayInv, DriverInv, BlobsInv
  <2> QED  BY <1>9, <1>10, <2>1, <2>2, <2>3 DEF BlobsInv
<1>13. ShownInv'
  <2>1. ASSUME history'.sound, NEW a \in Regions, a \notin damage PROVE Settled'.shown[a] = screen'[a]
    <3>1. Settled.shown[a] = screen[a]  BY <1>1, <1>5, <2>1 DEF DisplayInv, DriverInv, ShownInv
    <3> QED  BY <1>2, <1>4, <2>1, <3>1
  <2>2. history'.sound => Settled'.scanout = scanoutRes'  BY <1>1, <1>4, <1>5 DEF DisplayInv, DriverInv, ShownInv
  <2>3. pc' # "idle"  BY <1>6
  <2> QED  BY <1>5, <1>6, <2>1, <2>2, <2>3 DEF ShownInv
<1> QED  BY <1>3, <1>12, <1>13 DEF DisplayInv

\* A step that leaves what the host will have, and the driver, as they are.
LEMMA Around ==
    ASSUME DriverInv, Settled' = Settled, ring' \in Seq(Messages), Len(ring') <= Cap,
           host' \in HostOf(0 .. frames), everRetired' \in BOOLEAN, everRetired => everRetired',
           mapped' \in BOOLEAN,
           UNCHANGED <<cacheVars, frameVars, nextRes, scanoutRes, pc, flip, history>>
    PROVE  DriverInv' /\ (DisplayInv => DisplayInv')
<1>1. /\ cache' = cache /\ cacheNext' = cacheNext /\ pixels' = pixels /\ screen' = screen
      /\ frames' = frames /\ nextRes' = nextRes /\ scanoutRes' = scanoutRes /\ pc' = pc
      /\ flip' = flip /\ history' = history
  BY DEF cacheVars, frameVars
<1>2. Shape'  BY <1>1 DEF DriverInv, Shape
<1>3. CacheInv' /\ CachedIds' = CachedIds  BY <1>1, CacheSame DEF DriverInv
<1>4. FlipInv'  BY <1>1 DEF DriverInv, FlipInv
<1>5. DriverInv'  BY <1>2, <1>3, <1>4 DEF DriverInv
<1>6. ASSUME DisplayInv PROVE DisplayInv'
  <2>1. FlushesLand' /\ HeadKnown'
    BY <1>1, <1>3, <1>6 DEF DisplayInv, DriverInv, BlobsInv, FlushesLand, HeadKnown, EmptySlot
  <2>2. BlobsInv'  BY <1>1, <1>3, <1>6, <2>1 DEF DisplayInv, DriverInv, BlobsInv, Blobs, Exists
  <2>3. ShownInv'  BY <1>1, <1>6 DEF DisplayInv, DriverInv, ShownInv
  <2> QED  BY <1>5, <2>2, <2>3 DEF DisplayInv
<1> QED  BY <1>5, <1>6

LEMMA AroundStep ==
    ASSUME DriverInv, OtherPush \/ Nudge \/ Remap \/ UNCHANGED vars
    PROVE  DriverInv' /\ (DisplayInv => DisplayInv') /\ history' = history
<1>1. /\ Shape /\ ring \in Seq(Messages) /\ Len(ring) <= Cap /\ host \in HostOf(0 .. frames)
      /\ Settled \in HostOf(0 .. frames) /\ everRetired \in BOOLEAN /\ mapped \in BOOLEAN
  BY DEF DriverInv, Shape
<1>2. Settled = Drained(host, ring, pixels) /\ Settled' = Drained(host', ring', pixels')
  BY DEF Settled
<1>3. CASE OtherPush
  <2> DEFINE msg == [op |-> "submit"]
  <2>1. Push(msg) /\ UNCHANGED <<dmaVars, cacheVars, frameVars, nextRes, scanoutRes, pc, flip, history>>
    BY <1>3 DEF OtherPush
  <2>2. pixels' = pixels /\ mapped' = mapped  BY <2>1 DEF frameVars, dmaVars
  <2>3. msg \in Messages /\ msg.op = "submit"  BY DEF Messages
  <2> HIDE DEF msg
  <2>4. Settled' = Settled  BY <1>1, <2>1, <2>2, <2>3, PushFacts, ExecuteOps
  <2>5. /\ ring' \in Seq(Messages) /\ Len(ring') <= Cap /\ host' \in HostOf(0 .. frames)
        /\ everRetired' \in BOOLEAN /\ (everRetired => everRetired')
    BY <1>1, <2>1, <2>2, <2>3, PushFacts
  <2> QED  BY <1>1, <2>1, <2>2, <2>4, <2>5, Around
<1>4. CASE Nudge
  <2>1. /\ host' = Settled /\ ring' = << >> /\ everRetired' = TRUE /\ mapped' = mapped /\ pixels' = pixels
        /\ UNCHANGED <<cacheVars, frameVars, nextRes, scanoutRes, pc, flip, history>>
    BY <1>4 DEF Nudge, dmaVars, frameVars
  <2>2. Settled' = Settled  BY <1>2, <2>1, DrainedEmpty
  <2>3. ring' \in Seq(Messages) /\ Len(ring') <= Cap  BY <2>1, DisplayAssumption
  <2> QED  BY <1>1, <2>1, <2>2, <2>3, Around
<1>5. CASE Remap \/ UNCHANGED vars
  <2>1. /\ host' = host /\ ring' = ring /\ everRetired' = everRetired /\ mapped' \in BOOLEAN /\ pixels' = pixels
        /\ UNCHANGED <<cacheVars, frameVars, nextRes, scanoutRes, pc, flip, history>>
    BY <1>1, <1>5 DEF Remap, vars, dmaVars, frameVars, hostVars, cacheVars
  <2>2. Settled' = Settled  BY <1>2, <2>1
  <2> QED  BY <1>1, <2>1, <2>2, Around
<1> QED  BY <1>3, <1>4, <1>5

-----------------------------------------------------------------------------
(* The theorems.                                                             *)

LEMMA DisplayInit ==
    ASSUME Init
    PROVE  DisplayInv
<1>1. /\ ring = << >> /\ mapped = TRUE /\ everRetired = FALSE /\ frames = 0 /\ nextRes = 0
      /\ host = [blobs |-> [r \in ResIds |-> Absent], scanout |-> 0, shown |-> [a \in Regions |-> 0]]
      /\ pixels = [f \in Fbs |-> [a \in Regions |-> 0]] /\ screen = [a \in Regions |-> 0]
      /\ cache = [s \in Slots |-> EmptySlot] /\ cacheNext = 0 /\ scanoutRes = 0 /\ pc = "idle"
      /\ flip = [fb |-> Never, res |-> 0, damage |-> {}]
      /\ history = [dropped |-> FALSE, whole |-> TRUE, fresh |-> FALSE, sound |-> TRUE]
  BY DEF Init
<1>2. Settled = host  BY <1>1, DrainedEmpty DEF Settled
<1>3. 0 \in 0 .. frames /\ frames \in 0 .. MaxFlips /\ nextRes \in 0 .. frames /\ 0 \in Slots
  BY <1>1, DisplayAssumption DEF Slots
<1>4. host \in HostOf(0 .. frames)
  <2>1. 0 \in 0 .. frames  BY <1>3
  <2> QED  BY <1>1, <2>1 DEF HostOf
<1>5. pixels \in [Fbs -> [Regions -> 0 .. frames]] /\ screen \in [Regions -> 0 .. frames]
  BY <1>1, <1>3
<1>6. cache \in [Slots -> [res : ResIds \cup {0}, fb : Fbs \cup {Never}]]  BY <1>1 DEF EmptySlot
<1>7. ring \in Seq(Messages) /\ Len(ring) <= Cap  BY <1>1, DisplayAssumption
<1>8. Shape  BY <1>1, <1>2, <1>3, <1>4, <1>5, <1>6, <1>7 DEF Shape
<1>9. \A s \in Slots : cache[s] = EmptySlot  BY <1>1
<1>10. CacheInv /\ CachedIds = {}  BY <1>9 DEF CacheInv, CachedIds
<1>11. FlipInv  BY <1>1 DEF FlipInv
<1>12. \A r \in ResIds : Settled.blobs[r] = Absent  BY <1>1, <1>2
<1>13. Settled.scanout = 0 /\ \A a \in Regions : Settled.shown[a] = screen[a]  BY <1>1, <1>2
<1>14. Blobs(Settled) = {}  BY <1>12 DEF Blobs, Exists
<1>15. BlobsInv
  BY <1>1, <1>9, <1>10, <1>12, <1>13, <1>14 DEF BlobsInv, FlushesLand, HeadKnown, Exists
<1>16. ShownInv  BY <1>1, <1>13 DEF ShownInv
<1> QED  BY <1>8, <1>10, <1>11, <1>15, <1>16 DEF DisplayInv, DriverInv

LEMMA DriverStep ==
    ASSUME DriverInv, [Next]_vars
    PROVE  DriverInv'
<1>1. CASE \E f \in Fbs, damage \in SUBSET Regions \ {{}} : Flip(f, damage)  BY <1>1, FlipDriver
<1>2. CASE PushCreate \/ PushAttach \/ PushBind  BY <1>2, RegisterDriver
<1>3. CASE Fill  BY <1>3, FillDriver
<1>4. CASE Rebind \/ PushFlush  BY <1>4, CachedDriver
<1>5. CASE OtherPush \/ Nudge \/ Remap \/ UNCHANGED vars  BY <1>5, AroundStep
<1> QED  BY <1>1, <1>2, <1>3, <1>4, <1>5 DEF Next

\* What was dropped stays dropped: room does not come back.
LEMMA RoomGoes ==
    ASSUME DriverInv, [Next]_vars, Roomy'
    PROVE  Roomy
<1>1. history.dropped => history'.dropped
  <2>1. history \in Histories  BY DEF DriverInv, Shape, Histories
  <2>2. CASE \E f \in Fbs, damage \in SUBSET Regions \ {{}} : Flip(f, damage)
    BY <2>1, <2>2 DEF Flip, Histories
  <2>3. CASE PushCreate \/ PushAttach \/ PushBind \/ Rebind
    BY <2>1, <2>3 DEF PushCreate, PushAttach, PushBind, Rebind, Note, Histories
  <2>4. CASE Fill  BY <2>1, <2>4 DEF Fill, Note, Histories
  <2>5. CASE PushFlush  BY <2>1, <2>5 DEF PushFlush, Histories
  <2>6. CASE OtherPush \/ Nudge \/ Remap \/ UNCHANGED vars  BY <2>6, AroundStep
  <2> QED  BY <2>2, <2>3, <2>4, <2>5, <2>6 DEF Next
<1> QED  BY <1>1 DEF Roomy, RoomForAll, RoomForCache

LEMMA DisplayStep ==
    ASSUME Roomy, DisplayInv, [Next]_vars
    PROVE  DisplayInv'
<1>0. DriverInv  BY DEF DisplayInv
<1>1. CASE \E f \in Fbs, damage \in SUBSET Regions \ {{}} : Flip(f, damage)  BY <1>1, FlipStep
<1>2. CASE PushCreate  BY <1>2, CreateStep
<1>3. CASE PushAttach  BY <1>3, AttachStep
<1>4. CASE PushBind  BY <1>4, BindStep
<1>5. CASE Fill  BY <1>5, FillStep
<1>6. CASE Rebind  BY <1>6, RebindStep
<1>7. CASE PushFlush  BY <1>7, FlushStep
<1>8. CASE OtherPush \/ Nudge \/ Remap \/ UNCHANGED vars  BY <1>0, <1>8, AroundStep
<1> QED  BY <1>1, <1>2, <1>3, <1>4, <1>5, <1>6, <1>7, <1>8 DEF Next

LEMMA DisplayInvariant == Spec => [](DriverInv /\ (Roomy => DisplayInv))
<1>1. Init => DriverInv /\ (Roomy => DisplayInv)  BY DisplayInit DEF DisplayInv
<1>2. DriverInv /\ (Roomy => DisplayInv) /\ [Next]_vars => (DriverInv /\ (Roomy => DisplayInv))'
  BY DriverStep, DisplayStep, RoomGoes
<1> QED  BY <1>1, <1>2, PTL DEF Spec

\* The driver's and the host's variables keep their types, the ring holds no more than
\* its capacity, and no framebuffer and no res_id has two slots of the cache
\* (igpu_resource_register's lookup and round-robin).
THEOREM DisplayTypeCorrect == Spec => []TypeOK
<1>1. DriverInv => TypeOK
  <2>1. SUFFICES ASSUME DriverInv PROVE TypeOK  OBVIOUS
  <2>2. \A i \in DOMAIN ring : ring[i].op # "submit" => ring[i].res \in ResIds
    <3>1. \A i \in DOMAIN ring : ring[i] \in Messages  BY <2>1 DEF DriverInv, Shape
    <3> QED  BY <3>1, MessageKinds
  <2>3. /\ host.blobs \in [ResIds -> Fbs \cup {Never, Absent}]
        /\ host.scanout \in ResIds \cup {0} /\ host.shown \in [Regions -> 0 .. frames]
    BY <2>1, HostRecord DEF DriverInv, Shape
  <2>4. nextRes \in ResIds \cup {0} /\ nextRes <= frames
    <3>1. frames \in 0 .. MaxFlips /\ nextRes \in 0 .. frames  BY <2>1 DEF DriverInv, Shape
    <3> QED  BY <3>1, DisplayAssumption DEF ResIds
  <2> QED  BY <2>1, <2>2, <2>3, <2>4 DEF DriverInv, Shape, CacheInv, TypeOK
<1> QED  BY <1>1, DisplayInvariant, PTL

\* Whatever pushes failed when, a cached res_id is good for a flush: once the ring has
\* run, the host has its blob, backed by the cached framebuffer (a slot is filled only
\* when CREATE, ATTACH and SET_SCANOUT came back, and destroyed only when it is given up).
THEOREM CachedBuffersLand ==
    ASSUME RoomForAll
    PROVE  Spec => []FlushesLand
<1>1. DriverInv /\ (Roomy => DisplayInv) => FlushesLand  BY DEF Roomy, DisplayInv, BlobsInv
<1> QED  BY <1>1, DisplayInvariant, PTL

\* The head is never left bound to a blob that the driver has forgotten: the eviction
\* never meets the bound one, which is the one just registered.
THEOREM HeadStaysKnown ==
    ASSUME RoomForAll
    PROVE  Spec => []HeadKnown
<1>1. DriverInv /\ (Roomy => DisplayInv) => HeadKnown  BY DEF Roomy, DisplayInv, BlobsInv
<1> QED  BY <1>1, DisplayInvariant, PTL

\* As long as the ring took every message, the host keeps the blobs of the cached
\* framebuffers and no others, however many buffers the compositor cycles.
THEOREM NoBlobLeaks ==
    ASSUME RoomForCache
    PROVE  Spec => []NoLeak
<1>1. DriverInv /\ (Roomy => DisplayInv) => NoLeak  BY DEF Roomy, DisplayInv, BlobsInv, NoLeak
<1> QED  BY <1>1, DisplayInvariant, PTL

LEMMA ShownIs ==
    ASSUME DisplayInv
    PROVE  FlipShown
<1>1. SUFFICES ASSUME pc = "idle", history.sound PROVE Settled.shown = screen
  BY DEF FlipShown
<1>2. \A a \in Regions : Settled.shown[a] = screen[a]  BY <1>1 DEF DisplayInv, DriverInv, ShownInv
<1>3. Settled.shown \in [Regions -> 0 .. frames] /\ screen \in [Regions -> 0 .. frames]
  BY HostRecord DEF DisplayInv, DriverInv, Shape
<1> QED  BY <1>2, <1>3

\* What the screen shows, once the ring has run, is what the guest drew last, in every
\* region, whichever buffers it flips between and however it damages them; after a lost
\* message, from the next newly registered buffer on.
THEOREM ScreenShowsFlips ==
    ASSUME RoomForAll
    PROVE  Spec => []FlipShown
<1>1. DriverInv /\ (Roomy => DisplayInv) => FlipShown  BY ShownIs DEF Roomy
<1> QED  BY <1>1, DisplayInvariant, PTL

\* On a ring that takes everything all of it holds for any number of flips, as long as
\* the host's table is larger than the driver's cache (1024 against 8).
THEOREM UndroppedDisplay ==
    ASSUME RoomForCache
    PROVE  Spec => [](~history.dropped => FlushesLand /\ HeadKnown /\ FlipShown)
<1>1. DriverInv /\ (Roomy => DisplayInv) => (~history.dropped => FlushesLand /\ HeadKnown /\ FlipShown)
  BY ShownIs DEF Roomy, DisplayInv, BlobsInv
<1> QED  BY <1>1, DisplayInvariant, PTL
=============================================================================
