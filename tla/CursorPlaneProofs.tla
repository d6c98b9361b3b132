-------------------------- MODULE CursorPlaneProofs --------------------------
(***************************************************************************)
(* Proofs about the cursor plane, for any viewers, shapes and ring size:   *)
(* viewers agree with one another and with the guest's plane, however      *)
(* they joined, left and shed.                                             *)
(***************************************************************************)
EXTENDS CursorPlane, TLAPS

-----------------------------------------------------------------------------
(* The inductive invariant.                                                  *)

Updates == [op : {"define", "hide", "moveOnly"}, shape : Shapes \cup {None}, warp : BOOLEAN]

\* The shape a viewer will have, and whether it will show it, when it has received
\* all that is in its queue: the last DEFINE says so, and the last message of any kind.
ShapeOf(q, x, s) ==
  \/ x = s /\ \A i \in 1..Len(q) : q[i].op # "define"
  \/ \E i \in 1..Len(q) :
       /\ q[i].op = "define" /\ q[i].shape = s
       /\ \A j \in i + 1..Len(q) : q[j].op # "define"
VisibleOf(q, b) == IF q = <<>> THEN b ELSE q[Len(q)].visible
ShapeTo(v, s) == ShapeOf(queue[v], slot[v].shape, s)
VisibleTo(v) == VisibleOf(queue[v], slot[v].visible)

\* The viewer comes to show f, a shape or None.
Shows(v, f) ==
  IF f = None THEN ~VisibleTo(v) \/ ShapeTo(v, None) ELSE VisibleTo(v) /\ ShapeTo(v, f)

\* A viewer that nothing was kept from.
Served(v) == v \in joined \ dead /\ ~lost[v]

GuestInv ==
  /\ fb \in Shapes \cup {None} /\ ring \in Seq(Updates) /\ Len(ring) <= RingCap
  /\ \A i \in 1..Len(ring) : ring[i].op = "define" => ring[i].shape \in Shapes
  /\ updates \in Nat /\ missed \in BOOLEAN /\ readRecently \in BOOLEAN
  /\ ~missed /\ fb = None /\ ring # <<>> => ring[Len(ring)].op # "moveOnly"

HubInv ==
  /\ define \in Messages \cup {None} /\ move \in Messages \cup {None}
  /\ define # None => define.op = "define" /\ define.shape \in Shapes /\ define.visible
  /\ move # None => move.op = "move"
  /\ lastShape = IF define = None THEN None ELSE define.shape
  /\ dead \subseteq joined /\ joined \subseteq Viewers
  /\ lost \in [Viewers -> BOOLEAN]
  /\ queue \in [Viewers -> Seq(Messages)]
  /\ \A v \in Viewers : \A i \in 1..Len(queue[v]) :
       queue[v][i].op = "define" => queue[v][i].shape \in Shapes /\ queue[v][i].visible
  /\ \A v \in Viewers : v \notin joined \ dead => queue[v] = <<>>

\* A message is of one update, and a version of one message.
Primed == (IF define = None THEN 0 ELSE 1) + (IF move = None THEN 0 ELSE 1)
CountInv ==
  /\ Primed + Len(ring) <= updates
  /\ \A v \in Viewers : slot[v].version + Len(queue[v]) + Len(ring) <= updates

\* What a window has drawn is of the shape and the version it has cached.
WindowInv ==
  /\ slot \in [Viewers -> [shape : Shapes \cup {None}, version : Nat, visible : BOOLEAN]]
  /\ window \in [Viewers -> [shape : Shapes \cup {None}, version : Nat, shown : BOOLEAN,
                             drawn : Shapes \cup {None}]]
  /\ \A v \in Viewers :
       /\ (slot[v].version = 0) = (slot[v].shape = None)
       /\ window[v].version <= slot[v].version
       /\ window[v].version = slot[v].version => window[v].shape = slot[v].shape
       /\ window[v].drawn = IF window[v].shown THEN window[v].shape ELSE None

\* Every viewer that is served comes to have the hub's shape and visibility.
PlaneInv ==
  define # None =>
    \A v \in Viewers : Served(v) =>
      ShapeTo(v, define.shape) /\ VisibleTo(v) = (move = None \/ move.visible)

\* The last change of the guest's plane is in the ring, or has been forwarded.
InRing ==
  \E i \in 1..Len(ring) :
    /\ ring[i].op # "moveOnly" /\ \A j \in i + 1..Len(ring) : ring[j].op = "moveOnly"
    /\ fb = IF ring[i].op = "hide" THEN None ELSE ring[i].shape
Forwarded ==
  /\ \A i \in 1..Len(ring) : ring[i].op = "moveOnly"
  /\ PrimedOverlay = fb
  /\ \A v \in Viewers : Served(v) => Shows(v, fb)
ShownInv == ~missed => InRing \/ Forwarded

CursorInv == GuestInv /\ HubInv /\ CountInv /\ WindowInv /\ PlaneInv /\ ShownInv

-----------------------------------------------------------------------------
(* What a queue comes to.                                                    *)

LEMMA AppendFacts ==
  ASSUME NEW S, NEW q \in Seq(S), NEW m \in S
  PROVE  /\ Append(q, m) \in Seq(S) /\ Len(Append(q, m)) = Len(q) + 1 /\ Len(q) \in Nat
         /\ Append(q, m) # <<>> /\ Append(q, m)[Len(q) + 1] = m
         /\ \A i \in 1..Len(q) : Append(q, m)[i] = q[i]
OBVIOUS

LEMMA TailFacts ==
  ASSUME NEW S, NEW q \in Seq(S), q # <<>>
  PROVE  /\ Tail(q) \in Seq(S) /\ Len(q) \in Nat \ {0} /\ Len(Tail(q)) = Len(q) - 1
         /\ Head(q) = q[1] /\ Head(q) \in S /\ 1 \in 1..Len(q)
         /\ \A i \in 1..Len(q) - 1 : Tail(q)[i] = q[i + 1]
OBVIOUS

LEMMA PairFacts ==
  ASSUME NEW S, NEW a \in S, NEW b \in S
  PROVE  /\ <<a>> \o <<b>> \in Seq(S) /\ Len(<<a>> \o <<b>>) = 2
         /\ (<<a>> \o <<b>>)[1] = a /\ (<<a>> \o <<b>>)[2] = b
<1>1. <<a>> \in Seq(S) /\ <<b>> \in Seq(S) /\ Len(<<a>>) = 1 /\ Len(<<b>>) = 1  OBVIOUS
<1> QED  BY <1>1

\* A DEFINE sent last is the shape to come; a MOVE changes none.
LEMMA ShapeAppend ==
  ASSUME NEW q \in Seq(Messages), NEW m \in Messages, NEW x
  PROVE  /\ m.op = "define" => ShapeOf(Append(q, m), x, m.shape)
         /\ m.op = "move" => \A s : ShapeOf(q, x, s) => ShapeOf(Append(q, m), x, s)
<1> DEFINE a == Append(q, m)
           n == Len(q)
<1>1. /\ Len(a) = n + 1 /\ n \in Nat /\ a[n + 1] = m
      /\ \A i \in 1..n : a[i] = q[i]
  BY AppendFacts
<1> HIDE DEF a
<1>2. ASSUME m.op = "define" PROVE ShapeOf(a, x, m.shape)
  <2>1. n + 1 \in 1..Len(a) /\ a[n + 1].op = "define" /\ a[n + 1].shape = m.shape  BY <1>1, <1>2
  <2>2. \A j \in (n + 1) + 1..Len(a) : FALSE  BY <1>1
  <2> QED  BY <2>1, <2>2 DEF ShapeOf
<1>3. ASSUME m.op = "move", NEW s, ShapeOf(q, x, s) PROVE ShapeOf(a, x, s)
  <2>1. a[n + 1].op # "define"  BY <1>1, <1>3
  <2>2. CASE x = s /\ \A i \in 1..n : q[i].op # "define"
    <3>1. \A i \in 1..Len(a) : a[i].op # "define"  BY <1>1, <2>1, <2>2
    <3> QED  BY <2>2, <3>1 DEF ShapeOf
  <2>3. CASE \E i \in 1..n : /\ q[i].op = "define" /\ q[i].shape = s
                             /\ \A j \in i + 1..n : q[j].op # "define"
    <3>1. PICK i \in 1..n : /\ q[i].op = "define" /\ q[i].shape = s
                            /\ \A j \in i + 1..n : q[j].op # "define"
      BY <2>3
    <3>2. i \in 1..Len(a) /\ a[i].op = "define" /\ a[i].shape = s  BY <1>1, <3>1
    <3>3. \A j \in i + 1..Len(a) : a[j].op # "define"
      <4>1. ASSUME NEW j \in i + 1..Len(a) PROVE a[j].op # "define"
        <5>1. CASE j = n + 1  BY <2>1, <5>1
        <5>2. CASE j # n + 1
          <6>1. j \in i + 1..n /\ j \in 1..n  BY <1>1, <5>2
          <6> QED  BY <1>1, <3>1, <6>1
        <5> QED  BY <5>1, <5>2
      <4> QED  BY <4>1
    <3> QED  BY <3>2, <3>3 DEF ShapeOf
  <2> QED  BY <1>3, <2>2, <2>3 DEF ShapeOf, n
<1> QED  BY <1>2, <1>3 DEF a

\* A message that is received takes effect in the slot.
LEMMA ShapeTail ==
  ASSUME NEW q \in Seq(Messages), q # <<>>, NEW x, NEW s, ShapeOf(q, x, s)
  PROVE  ShapeOf(Tail(q), IF Head(q).op = "define" THEN Head(q).shape ELSE x, s)
<1> DEFINE t == Tail(q)
           n == Len(q)
           y == IF Head(q).op = "define" THEN Head(q).shape ELSE x
<1>1. /\ Len(t) = n - 1 /\ n \in Nat \ {0} /\ Head(q) = q[1] /\ 1 \in 1..n
      /\ \A i \in 1..n - 1 : t[i] = q[i + 1]
  BY TailFacts
<1>2. \A i \in 1..n - 1 : i + 1 \in 1..n /\ i + 1 > 1  BY <1>1
<1> HIDE DEF t
<1>3. CASE x = s /\ \A i \in 1..n : q[i].op # "define"
  <2>1. y = x  BY <1>1, <1>3
  <2>2. \A i \in 1..Len(t) : t[i].op # "define"  BY <1>1, <1>2, <1>3
  <2> QED  BY <1>3, <2>1, <2>2 DEF ShapeOf, t
<1>4. CASE \E i \in 1..n : /\ q[i].op = "define" /\ q[i].shape = s
                           /\ \A j \in i + 1..n : q[j].op # "define"
  <2>1. PICK i \in 1..n : /\ q[i].op = "define" /\ q[i].shape = s
                          /\ \A j \in i + 1..n : q[j].op # "define"
    BY <1>4
  <2>2. CASE i = 1
    <3>1. y = s  BY <1>1, <2>1, <2>2
    <3>2. \A k \in 1..Len(t) : t[k].op # "define"
      <4>1. ASSUME NEW k \in 1..n - 1 PROVE t[k].op # "define"
        <5>1. k + 1 \in i + 1..n  BY <1>1, <2>2
        <5> QED  BY <1>1, <2>1, <5>1
      <4> QED  BY <1>1, <4>1
    <3> QED  BY <3>1, <3>2 DEF ShapeOf, t
  <2>3. CASE i # 1
    <3>1. i - 1 \in 1..n - 1 /\ (i - 1) + 1 = i  BY <1>1, <2>3
    <3>2. i - 1 \in 1..Len(t) /\ t[i - 1] = q[i]  BY <1>1, <3>1
    <3>3. \A j \in (i - 1) + 1..Len(t) : t[j].op # "define"
      <4>1. ASSUME NEW j \in i..n - 1 PROVE t[j].op # "define"
        <5>1. j + 1 \in i + 1..n /\ j \in 1..n - 1  BY <1>1
        <5> QED  BY <1>1, <2>1, <5>1
      <4> QED  BY <1>1, <3>1, <4>1
    <3> QED  BY <2>1, <3>2, <3>3 DEF ShapeOf, t
  <2> QED  BY <2>2, <2>3
<1> QED  BY <1>3, <1>4 DEF ShapeOf, n

\* The last message says whether the shape is shown.
LEMMA VisibleFacts ==
  ASSUME NEW q \in Seq(Messages), NEW b
  PROVE  /\ \A m \in Messages : VisibleOf(Append(q, m), b) = m.visible
         /\ q # <<>> => VisibleOf(Tail(q), Head(q).visible) = VisibleOf(q, b)
<1>1. ASSUME NEW m \in Messages PROVE VisibleOf(Append(q, m), b) = m.visible
  <2> DEFINE a == Append(q, m)
  <2>1. a # <<>> /\ a[Len(a)] = m  BY AppendFacts
  <2> HIDE DEF a
  <2>2. VisibleOf(a, b) = m.visible  BY <2>1 DEF VisibleOf
  <2> QED  BY <2>2 DEF a
<1>2. ASSUME q # <<>> PROVE VisibleOf(Tail(q), Head(q).visible) = VisibleOf(q, b)
  <2> DEFINE t == Tail(q)
             n == Len(q)
  <2>1. /\ t \in Seq(Messages) /\ n \in Nat \ {0} /\ Len(t) = n - 1 /\ Head(q) = q[1]
        /\ \A i \in 1..n - 1 : t[i] = q[i + 1]
    BY <1>2, TailFacts
  <2>2. VisibleOf(q, b) = q[n].visible  BY <1>2 DEF VisibleOf
  <2> HIDE DEF t, n
  <2>3. CASE n = 1
    <3>1. t = <<>>  BY <2>1, <2>3
    <3>2. VisibleOf(t, Head(q).visible) = Head(q).visible  BY <3>1 DEF VisibleOf
    <3> QED  BY <2>1, <2>2, <2>3, <3>2 DEF t
  <2>4. CASE n # 1
    <3>1. t # <<>> /\ n - 1 \in 1..n - 1 /\ (n - 1) + 1 = n  BY <2>1, <2>4
    <3>2. t[Len(t)] = q[n]  BY <2>1, <3>1
    <3>3. VisibleOf(t, Head(q).visible) = q[n].visible  BY <3>1, <3>2 DEF VisibleOf
    <3> QED  BY <2>2, <3>3 DEF t
  <2> QED  BY <2>3, <2>4
<1> QED  BY <1>1, <1>2

\* Nothing is in the queue.
LEMMA EmptyQueue ==
  /\ Len(<<>>) = 0 /\ \A S : <<>> \in Seq(S)
  /\ \A x, s : ShapeOf(<<>>, x, s) <=> x = s
  /\ \A b : VisibleOf(<<>>, b) = b
BY DEF ShapeOf, VisibleOf

-----------------------------------------------------------------------------
(* A message to every client.                                                *)

\* What the hub sends: a DEFINE of a shape, or a MOVE.
Sendable(m) == m \in Messages /\ (m.op = "define" => m.shape \in Shapes /\ m.visible = TRUE)

LEMMA Sendables ==
  /\ \A s \in Shapes : Sendable(Define(s)) /\ Define(s).op = "define" /\ Define(s).shape = s
                       /\ Define(s).visible = TRUE
  /\ \A b \in BOOLEAN : Sendable(Move(b)) /\ Move(b).op = "move" /\ Move(b).visible = b
BY DEF Sendable, Define, Move, Messages

\* What a broadcast does to a client that is served after it.
Reaches(m) ==
  \A v \in Viewers : Served(v)' =>
    /\ VisibleTo(v)' = m.visible
    /\ m.op = "define" => ShapeTo(v, m.shape)'
    /\ m.op = "move" => Served(v) /\ \A s : ShapeTo(v, s) => ShapeTo(v, s)'

LEMMA Sent ==
  ASSUME HubInv, NEW m, Sendable(m), SendPlane(m), slot' = slot
  PROVE  /\ Reaches(m)
         /\ dead' \subseteq joined' /\ joined' \subseteq Viewers /\ lost' \in [Viewers -> BOOLEAN]
         /\ queue' \in [Viewers -> Seq(Messages)]
         /\ \A v \in Viewers : \A i \in 1..Len(queue'[v]) :
              queue'[v][i].op = "define" => queue'[v][i].shape \in Shapes /\ queue'[v][i].visible
         /\ \A v \in Viewers : v \notin joined' \ dead' => queue'[v] = <<>>
         /\ \A v \in Viewers : Len(queue'[v]) <= Len(queue[v]) + 1
         /\ m.op = "define" => define' = m /\ move' = None
         /\ m.op = "move" => define' = define /\ move' = m
<1>0. m \in Messages /\ m.op \in {"define", "move"}  BY DEF Sendable, Messages
<1>1. /\ joined' = joined \ dead /\ dead' = {} /\ joined' \subseteq Viewers
      /\ queue' = [v \in Viewers |-> IF v \in joined' THEN Append(queue[v], m) ELSE <<>>]
      /\ lost' = [v \in Viewers |-> lost[v] /\ v \in joined' /\ m.op # "define"]
  BY DEF SendPlane, HubInv
<1>2. ASSUME NEW v \in Viewers
      PROVE  /\ queue[v] \in Seq(Messages) /\ Len(queue[v]) \in Nat
             /\ v \in joined' => queue'[v] = Append(queue[v], m)
             /\ v \notin joined' => queue'[v] = <<>>
             /\ lost'[v] = (lost[v] /\ v \in joined' /\ m.op # "define")
  BY <1>1 DEF HubInv
<1>3. ASSUME NEW v \in Viewers, v \in joined', ~lost'[v]
      PROVE  /\ VisibleTo(v)' = m.visible
             /\ m.op = "define" => ShapeTo(v, m.shape)'
             /\ m.op = "move" => Served(v) /\ \A s : ShapeTo(v, s) => ShapeTo(v, s)'
  <2> DEFINE q == queue[v]
             x == slot[v].shape
  <2>1. q \in Seq(Messages) /\ queue'[v] = Append(q, m) /\ slot'[v] = slot[v]  BY <1>2, <1>3
  <2>2. VisibleOf(queue'[v], slot'[v].visible) = m.visible  BY <1>0, <2>1, VisibleFacts
  <2> HIDE DEF q
  <2>3. /\ m.op = "define" => ShapeOf(Append(q, m), x, m.shape)
        /\ m.op = "move" => \A s : ShapeOf(q, x, s) => ShapeOf(Append(q, m), x, s)
    BY <1>0, <2>1, ShapeAppend
  <2>4. m.op = "move" => Served(v)
    <3>1. m.op = "move" => ~lost[v]  BY <1>2, <1>3
    <3> QED  BY <1>1, <1>3, <3>1 DEF Served
  <2>5. m.op = "define" => ShapeTo(v, m.shape)'  BY <2>1, <2>3 DEF ShapeTo
  <2>6. m.op = "move" => \A s : ShapeTo(v, s) => ShapeTo(v, s)'  BY <2>1, <2>3 DEF ShapeTo, q
  <2> QED  BY <2>2, <2>4, <2>5, <2>6 DEF VisibleTo
<1>4. Reaches(m)  BY <1>3 DEF Reaches, Served
<1>5. ASSUME NEW v \in Viewers
      PROVE  /\ queue'[v] \in Seq(Messages) /\ Len(queue'[v]) <= Len(queue[v]) + 1
             /\ \A i \in 1..Len(queue'[v]) :
                  queue'[v][i].op = "define" => queue'[v][i].shape \in Shapes /\ queue'[v][i].visible
  <2>1. CASE v \notin joined'
    <3>1. queue'[v] = <<>>  BY <1>2, <2>1
    <3> QED  BY <1>2, <3>1
  <2>2. CASE v \in joined'
    <3> DEFINE q == queue[v]
               n == Len(q)
    <3>1. q \in Seq(Messages) /\ queue'[v] = Append(q, m)  BY <1>2, <2>2
    <3>2. \A i \in 1..n : q[i].op = "define" => q[i].shape \in Shapes /\ q[i].visible  BY DEF HubInv
    <3> HIDE DEF q
    <3>3. /\ queue'[v] \in Seq(Messages) /\ Len(queue'[v]) = n + 1 /\ n \in Nat
          /\ queue'[v][n + 1] = m /\ \A i \in 1..n : queue'[v][i] = q[i]
      BY <1>0, <3>1, AppendFacts
    <3> HIDE DEF n
    <3>4. \A i \in 1..n + 1 : i = n + 1 \/ i \in 1..n  BY <3>3
    <3>5. m.op = "define" => m.shape \in Shapes /\ m.visible  BY DEF Sendable
    <3>6. \A i \in 1..n + 1 :
            queue'[v][i].op = "define" => queue'[v][i].shape \in Shapes /\ queue'[v][i].visible
      BY <3>2, <3>3, <3>4, <3>5 DEF n
    <3> QED  BY <3>3, <3>6 DEF n, q
  <2> QED  BY <2>1, <2>2
<1>6. queue' \in [Viewers -> Seq(Messages)]  BY <1>1, <1>5
<1>7. lost' \in [Viewers -> BOOLEAN]  BY <1>1
<1>8. /\ m.op = "define" => define' = m /\ move' = None
      /\ m.op = "move" => define' = define /\ move' = m
  BY DEF SendPlane, Cached
<1>9. \A v \in Viewers : v \notin joined' \ dead' => queue'[v] = <<>>  BY <1>1, <1>2
<1> QED  BY <1>1, <1>4, <1>5, <1>6, <1>7, <1>8, <1>9

\* A change of nothing but the ring, the guest's plane, the counters and the windows.
SameHub == UNCHANGED <<hub, slot>>

LEMMA HubSame ==
  ASSUME SameHub
  PROVE  /\ UNCHANGED <<define, move, joined, dead, queue, lost>>
         /\ HubInv /\ lastShape' = lastShape => HubInv'
         /\ PlaneInv => PlaneInv'
         /\ Primed' = Primed /\ PrimedOverlay' = PrimedOverlay
         /\ \A v : (Served(v)' <=> Served(v)) /\ \A f : (Shows(v, f)' <=> Shows(v, f))
<1>1. UNCHANGED <<define, move, joined, dead, queue, lost, slot>>  BY DEF SameHub, hub
<1>2. \A v : Served(v)' <=> Served(v)  BY <1>1 DEF Served
<1>3. \A v, s : (ShapeTo(v, s)' <=> ShapeTo(v, s)) /\ VisibleTo(v)' = VisibleTo(v)
  BY <1>1 DEF ShapeTo, VisibleTo
<1>4. \A v, f : Shows(v, f)' <=> Shows(v, f)  BY <1>3 DEF Shows
<1>5. PlaneInv => PlaneInv'  BY <1>1, <1>2, <1>3 DEF PlaneInv
<1>6. Primed' = Primed /\ PrimedOverlay' = PrimedOverlay  BY <1>1 DEF Primed, PrimedOverlay
<1>7. HubInv /\ lastShape' = lastShape => HubInv'  BY <1>1 DEF HubInv
<1> QED  BY <1>1, <1>2, <1>4, <1>5, <1>6, <1>7

-----------------------------------------------------------------------------
(* The device takes an update off the ring.                                  *)

LEMMA RingLoses ==
  ASSUME GuestInv, ring # <<>>, ring' = Tail(ring), fb' = fb, updates' = updates,
         missed' \in BOOLEAN, missed => missed', readRecently' \in BOOLEAN
  PROVE  /\ GuestInv' /\ Len(ring') = Len(ring) - 1 /\ Len(ring) \in Nat \ {0}
         /\ Head(ring) \in Updates /\ Head(ring) = ring[1]
         /\ Head(ring).op = "define" => Head(ring).shape \in Shapes
<1> DEFINE n == Len(ring)
<1>1. /\ ring' \in Seq(Updates) /\ n \in Nat \ {0} /\ Len(ring') = n - 1 /\ Head(ring) = ring[1]
      /\ Head(ring) \in Updates /\ 1 \in 1..n /\ \A i \in 1..n - 1 : ring'[i] = ring[i + 1]
  BY TailFacts DEF GuestInv
<1>2. \A i \in 1..n : ring[i].op = "define" => ring[i].shape \in Shapes  BY DEF GuestInv
<1>3. \A i \in 1..Len(ring') : ring'[i].op = "define" => ring'[i].shape \in Shapes
  <2>1. \A i \in 1..n - 1 : i + 1 \in 1..n  BY <1>1
  <2> QED  BY <1>1, <1>2, <2>1
<1>4. ~missed' /\ fb' = None /\ ring' # <<>> => ring'[Len(ring')].op # "moveOnly"
  <2> SUFFICES ASSUME ~missed', fb' = None, ring' # <<>> PROVE ring'[Len(ring')].op # "moveOnly"
    OBVIOUS
  <2>1. ring[n].op # "moveOnly"  BY DEF GuestInv
  <2>2. Len(ring') \in 1..n - 1 /\ Len(ring') + 1 = n  BY <1>1
  <2> QED  BY <1>1, <2>1, <2>2
<1>5. Len(ring') <= RingCap /\ updates' \in Nat /\ fb' \in Shapes \cup {None}
  BY <1>1, CursorAssumption DEF GuestInv
<1> QED  BY <1>1, <1>2, <1>3, <1>4, <1>5 DEF GuestInv

\* The last change stays in the ring, unless it is the update taken.
TakesLast(u) ==
  /\ u.op # "moveOnly" /\ fb = IF u.op = "hide" THEN None ELSE u.shape
  /\ \A i \in 2..Len(ring) : ring[i].op = "moveOnly"

LEMMA LastTaken ==
  ASSUME GuestInv, ring # <<>>, ring' = Tail(ring), fb' = fb, InRing
  PROVE  InRing' \/ TakesLast(Head(ring))
<1> DEFINE n == Len(ring)
<1>1. /\ n \in Nat \ {0} /\ Len(ring') = n - 1 /\ Head(ring) = ring[1]
      /\ \A i \in 1..n - 1 : ring'[i] = ring[i + 1]
  BY TailFacts DEF GuestInv
<1>2. PICK i \in 1..n :
        /\ ring[i].op # "moveOnly" /\ \A j \in i + 1..n : ring[j].op = "moveOnly"
        /\ fb = IF ring[i].op = "hide" THEN None ELSE ring[i].shape
  BY DEF InRing
<1> HIDE DEF n
<1>3. CASE i = 1  BY <1>1, <1>2, <1>3 DEF TakesLast, n
<1>4. CASE i # 1
  <2>1. i - 1 \in 1..n - 1 /\ (i - 1) + 1 = i  BY <1>1, <1>4
  <2>2. i - 1 \in 1..Len(ring') /\ ring'[i - 1] = ring[i]  BY <1>1, <2>1
  <2>3. \A j \in (i - 1) + 1..Len(ring') : ring'[j].op = "moveOnly"
    <3>1. ASSUME NEW j \in i..n - 1 PROVE ring'[j].op = "moveOnly"
      <4>1. j + 1 \in i + 1..n /\ j \in 1..n - 1  BY <1>1
      <4> QED  BY <1>1, <1>2, <4>1
    <3> QED  BY <1>1, <2>1, <3>1
  <2> QED  BY <1>2, <2>2, <2>3 DEF InRing
<1> QED  BY <1>3, <1>4

\* What is left is of moves only.
LEMMA MovesLeft ==
  ASSUME GuestInv, ring # <<>>, ring' = Tail(ring), \A i \in 2..Len(ring) : ring[i].op = "moveOnly"
  PROVE  \A i \in 1..Len(ring') : ring'[i].op = "moveOnly"
<1> DEFINE n == Len(ring)
<1>1. /\ n \in Nat \ {0} /\ Len(ring') = n - 1 /\ \A i \in 1..n - 1 : ring'[i] = ring[i + 1]
  BY TailFacts DEF GuestInv
<1>2. \A i \in 1..n - 1 : i + 1 \in 2..n  BY <1>1
<1> QED  BY <1>1, <1>2

\* The broadcast keeps what the viewers have in common.
LEMMA SentPlane ==
  ASSUME HubInv, PlaneInv, NEW m, Sendable(m), SendPlane(m), slot' = slot
  PROVE  PlaneInv'
<1>0. /\ m \in Messages /\ m.op \in {"define", "move"} /\ m # None /\ m.visible \in BOOLEAN
      /\ m.op = "define" => m.visible = TRUE
  BY CursorAssumption DEF Sendable, Messages
<1>1. /\ Reaches(m)
      /\ m.op = "define" => define' = m /\ move' = None
      /\ m.op = "move" => define' = define /\ move' = m
  BY Sent
<1> SUFFICES ASSUME define' # None, NEW v \in Viewers, Served(v)'
             PROVE  /\ ShapeOf(queue'[v], slot'[v].shape, define'.shape)
                    /\ VisibleTo(v)' = (move' = None \/ move'.visible)
  BY DEF PlaneInv, ShapeTo
<1>3. /\ VisibleTo(v)' = m.visible
      /\ m.op = "define" => ShapeOf(queue'[v], slot'[v].shape, m.shape)
      /\ m.op = "move" =>
           Served(v) /\ \A s : ShapeTo(v, s) => ShapeOf(queue'[v], slot'[v].shape, s)
  BY <1>1 DEF Reaches, ShapeTo
<1>4. CASE m.op = "define"
  <2>1. VisibleTo(v)' = TRUE /\ move' = None /\ define' = m  BY <1>0, <1>1, <1>3, <1>4
  <2> QED  BY <1>3, <1>4, <2>1
<1>5. CASE m.op = "move"
  <2>1. define' = define /\ move' = m  BY <1>1, <1>5
  <2>2. Served(v) /\ ShapeTo(v, define.shape)  BY <1>3, <1>5, <2>1 DEF PlaneInv
  <2>3. ShapeOf(queue'[v], slot'[v].shape, define.shape)  BY <1>3, <1>5, <2>2
  <2>4. (move' = None \/ move'.visible) = m.visible  BY <1>0, <2>1
  <2> QED  BY <1>3, <2>1, <2>3, <2>4
<1> QED  BY <1>0, <1>4, <1>5

LEMMA SentHub ==
  ASSUME HubInv, NEW m, Sendable(m), SendPlane(m), slot' = slot,
         lastShape' = IF m.op = "define" THEN m.shape ELSE lastShape
  PROVE  HubInv' /\ Primed' <= Primed + 1 /\ Primed \in Nat
<1>0. /\ m \in Messages /\ m.op \in {"define", "move"} /\ m # None
      /\ m.op = "define" => m.shape \in Shapes /\ m.visible
  BY CursorAssumption DEF Sendable, Messages
<1>1. /\ dead' \subseteq joined' /\ joined' \subseteq Viewers /\ lost' \in [Viewers -> BOOLEAN]
      /\ queue' \in [Viewers -> Seq(Messages)]
      /\ \A v \in Viewers : \A i \in 1..Len(queue'[v]) :
           queue'[v][i].op = "define" => queue'[v][i].shape \in Shapes /\ queue'[v][i].visible
      /\ \A v \in Viewers : v \notin joined' \ dead' => queue'[v] = <<>>
      /\ m.op = "define" => define' = m /\ move' = None
      /\ m.op = "move" => define' = define /\ move' = m
  BY Sent
<1>2. CASE m.op = "define"
  <2>1. define' = m /\ move' = None /\ lastShape' = m.shape  BY <1>1, <1>2
  <2>2. HubInv'  BY <1>0, <1>1, <1>2, <2>1 DEF HubInv
  <2> QED  BY <1>0, <2>1, <2>2 DEF Primed
<1>3. CASE m.op = "move"
  <2>1. define' = define /\ move' = m /\ lastShape' = lastShape  BY <1>1, <1>3
  <2>2. HubInv'  BY <1>0, <1>1, <1>3, <2>1 DEF HubInv
  <2> QED  BY <1>0, <2>1, <2>2 DEF Primed
<1> QED  BY <1>0, <1>2, <1>3

\* An update that is neither the last change nor in front of one.
LEMMA StillInRing ==
  ASSUME GuestInv, ring # <<>>, ring' = Tail(ring), fb' = fb, ~missed, ShownInv,
         Head(ring).op # "moveOnly"
  PROVE  InRing' \/ TakesLast(Head(ring))
<1>1. Head(ring) = ring[1] /\ 1 \in 1..Len(ring)  BY TailFacts DEF GuestInv
<1>2. ~Forwarded  BY <1>1 DEF Forwarded
<1>3. InRing  BY <1>2 DEF ShownInv
<1> QED  BY <1>3, LastTaken

\* A MOVE that shows the shape all viewers have makes it the one they show.
LEMMA MoveForwards ==
  ASSUME HubInv, NEW m, Sendable(m), SendPlane(m), slot' = slot, m.op = "move",
         m.visible = TRUE, define # None, NEW f, f = define.shape, fb' = f,
         \A v \in Viewers : Served(v) => ShapeTo(v, f),
         \A i \in 1..Len(ring') : ring'[i].op = "moveOnly"
  PROVE  Forwarded'
<1>1. Reaches(m) /\ define' = define /\ move' = m  BY Sent
<1>2. f \in Shapes /\ f # None  BY CursorAssumption DEF HubInv
<1>3. m # None  BY CursorAssumption DEF Sendable
<1>4. PrimedOverlay' = f  BY <1>1, <1>3 DEF PrimedOverlay
<1>5. ASSUME NEW v \in Viewers, Served(v)' PROVE Shows(v, fb)'
  <2>1. VisibleTo(v)' = TRUE /\ Served(v)  BY <1>1, <1>5 DEF Reaches
  <2>2. ShapeTo(v, f)'  BY <1>1, <1>5, <2>1 DEF Reaches
  <2>3. ShapeTo(v, fb)'  BY <2>2 DEF ShapeTo
  <2> QED  BY <1>2, <2>1, <2>3 DEF Shows
<1> QED  BY <1>4, <1>5 DEF Forwarded

LEMMA HideShown ==
  ASSUME GuestInv, HubInv, ShownInv, ring # <<>>, ring' = Tail(ring), fb' = fb, slot' = slot,
         HideCursor(Head(ring))
  PROVE  ShownInv'
<1> SUFFICES ASSUME ~missed', ~InRing' PROVE Forwarded'  BY DEF ShownInv
<1>1. ~missed /\ SendPlane(Move(FALSE)) /\ Head(ring).op = "hide"  BY DEF HideCursor
<1>2. TakesLast(Head(ring))  BY <1>1, StillInRing
<1>3. fb = None /\ \A i \in 2..Len(ring) : ring[i].op = "moveOnly"  BY <1>1, <1>2 DEF TakesLast
<1>4. \A i \in 1..Len(ring') : ring'[i].op = "moveOnly"  BY <1>3, MovesLeft
<1>5. /\ Sendable(Move(FALSE)) /\ Move(FALSE).op = "move" /\ Move(FALSE).visible = FALSE
      /\ Move(FALSE) # None
  BY Sendables, CursorAssumption DEF Sendable
<1>6. Reaches(Move(FALSE)) /\ move' = Move(FALSE)  BY <1>1, <1>5, Sent
<1>7. PrimedOverlay' = None  BY <1>5, <1>6 DEF PrimedOverlay
<1>8. ASSUME NEW v \in Viewers, Served(v)' PROVE Shows(v, fb)'
  <2>1. VisibleTo(v)' = FALSE  BY <1>5, <1>6, <1>8 DEF Reaches
  <2> QED  BY <1>3, <2>1 DEF Shows
<1> QED  BY <1>3, <1>4, <1>7, <1>8 DEF Forwarded

LEMMA MoveShown ==
  ASSUME GuestInv, HubInv, ShownInv, ring # <<>>, ring' = Tail(ring), fb' = fb, slot' = slot,
         MoveCursor(Head(ring))
  PROVE  ShownInv'
<1> SUFFICES ASSUME ~missed', ~InRing' PROVE Forwarded'  BY DEF ShownInv
<1>1. ~missed /\ Head(ring).op = "moveOnly"  BY DEF MoveCursor
<1>2. ~InRing
  <2>1. ~TakesLast(Head(ring))  BY <1>1 DEF TakesLast
  <2> QED  BY <2>1, LastTaken
<1>3. Forwarded  BY <1>1, <1>2 DEF ShownInv
<1>4. /\ \A i \in 1..Len(ring) : ring[i].op = "moveOnly"
      /\ PrimedOverlay = fb /\ \A v \in Viewers : Served(v) => Shows(v, fb)
  BY <1>3 DEF Forwarded
<1>5. Len(ring) \in Nat \ {0}  BY TailFacts DEF GuestInv
<1>6. \A i \in 1..Len(ring') : ring'[i].op = "moveOnly"
  <2>1. \A i \in 2..Len(ring) : i \in 1..Len(ring)  BY <1>5
  <2> QED  BY <1>4, <2>1, MovesLeft
<1>7. CASE UNCHANGED hub
  <2>1. SameHub  BY <1>7 DEF SameHub
  <2>2. PrimedOverlay' = fb'  BY <1>4, <2>1, HubSame
  <2>3. \A v \in Viewers : Served(v)' => Shows(v, fb)'
    <3>1. ASSUME NEW v \in Viewers, Served(v)' PROVE Shows(v, fb)'
      <4>1. Served(v)  BY <2>1, <3>1, HubSame
      <4>2. Shows(v, fb)  BY <1>4, <4>1
      <4>3. UNCHANGED <<queue, slot>>  BY <2>1 DEF SameHub, hub
      <4> QED  BY <4>2, <4>3 DEF Shows, ShapeTo, VisibleTo
    <3> QED  BY <3>1
  <2> QED  BY <1>6, <2>2, <2>3 DEF Forwarded
<1>8. CASE SendPlane(Move(TRUE))
  <2>1. fb # None
    <3>1. Len(ring) \in 1..Len(ring)  BY <1>5
    <3> QED  BY <1>1, <1>4, <3>1 DEF GuestInv
  <2>2. define # None /\ fb = define.shape  BY <1>4, <2>1 DEF PrimedOverlay
  <2>3. \A v \in Viewers : Served(v) => ShapeTo(v, fb)  BY <1>4, <2>1 DEF Shows
  <2>4. Sendable(Move(TRUE)) /\ Move(TRUE).op = "move" /\ Move(TRUE).visible = TRUE
    BY Sendables
  <2> QED  BY <1>6, <1>8, <2>2, <2>3, <2>4, MoveForwards
<1> QED  BY <1>7, <1>8 DEF MoveCursor

LEMMA SameShown ==
  ASSUME GuestInv, HubInv, PlaneInv, ShownInv, ring # <<>>, ring' = Tail(ring), fb' = fb,
         slot' = slot, SameShape(Head(ring)), Head(ring).shape \in Shapes
  PROVE  ShownInv'
<1> SUFFICES ASSUME ~missed', ~InRing' PROVE Forwarded'  BY DEF ShownInv
<1>1. /\ ~missed /\ SendPlane(Move(TRUE))
      /\ Head(ring).op = "define" /\ Head(ring).shape = lastShape
  BY DEF SameShape
<1>2. TakesLast(Head(ring))  BY <1>1, StillInRing
<1>3. fb = lastShape /\ \A i \in 2..Len(ring) : ring[i].op = "moveOnly"
  BY <1>1, <1>2 DEF TakesLast
<1>4. \A i \in 1..Len(ring') : ring'[i].op = "moveOnly"  BY <1>3, MovesLeft
<1>5. define # None /\ fb = define.shape  BY <1>1, <1>3, CursorAssumption DEF HubInv
<1>6. \A v \in Viewers : Served(v) => ShapeTo(v, fb)  BY <1>5 DEF PlaneInv
<1>7. Sendable(Move(TRUE)) /\ Move(TRUE).op = "move" /\ Move(TRUE).visible = TRUE  BY Sendables
<1> QED  BY <1>1, <1>4, <1>5, <1>6, <1>7, MoveForwards

LEMMA DefineShown ==
  ASSUME GuestInv, HubInv, ShownInv, ring # <<>>, ring' = Tail(ring), fb' = fb, slot' = slot,
         DefineCursor(Head(ring)), Head(ring).shape \in Shapes
  PROVE  ShownInv'
<1> SUFFICES ASSUME ~missed', ~InRing' PROVE Forwarded'  BY DEF ShownInv
<1> DEFINE d == Head(ring).shape
<1>1. Head(ring).op = "define" /\ ~missed
  BY DEF DefineCursor, GuestInv
<1>2. TakesLast(Head(ring))  BY <1>1, StillInRing
<1>3. fb = d /\ \A i \in 2..Len(ring) : ring[i].op = "moveOnly"  BY <1>1, <1>2 DEF TakesLast
<1>4. \A i \in 1..Len(ring') : ring'[i].op = "moveOnly"  BY <1>3, MovesLeft
<1>5. SendPlane(Define(fb))  BY <1>3 DEF DefineCursor
<1>6. fb \in Shapes /\ fb # None  BY <1>3, CursorAssumption
<1>7. Sendable(Define(fb)) /\ Define(fb).op = "define" /\ Define(fb).shape = fb
      /\ Define(fb).visible = TRUE /\ Define(fb) # None
  BY <1>6, Sendables, CursorAssumption DEF Sendable
<1>8. Reaches(Define(fb)) /\ define' = Define(fb) /\ move' = None  BY <1>5, <1>7, Sent
<1>9. PrimedOverlay' = fb'  BY <1>7, <1>8 DEF PrimedOverlay
<1>10. ASSUME NEW v \in Viewers, Served(v)' PROVE Shows(v, fb)'
  <2>1. VisibleTo(v)' = TRUE /\ ShapeOf(queue'[v], slot'[v].shape, fb)
    BY <1>7, <1>8, <1>10 DEF Reaches, ShapeTo
  <2> QED  BY <1>6, <2>1 DEF Shows, ShapeTo
<1> QED  BY <1>4, <1>9, <1>10 DEF Forwarded

LEMMA DrainStep ==
  ASSUME CursorInv, Drain
  PROVE  CursorInv'
<1> USE DEF CursorInv
<1> DEFINE u == Head(ring)
<1>1. /\ ring # <<>> /\ ring' = Tail(ring) /\ fb' = fb /\ updates' = updates
      /\ slot' = slot /\ window' = window
      /\ HideCursor(u) \/ MoveCursor(u) \/ SameShape(u) \/ DefineCursor(u)
  BY DEF Drain, viewer
<1>2. /\ missed' \in BOOLEAN /\ (missed => missed') /\ readRecently' \in BOOLEAN
  <2> DEFINE rest == \A i \in 2..Len(ring) : ring[i].op = "moveOnly"
  <2>1. missed \in BOOLEAN /\ readRecently \in BOOLEAN  BY DEF GuestInv
  <2>2. CASE HideCursor(u) \/ MoveCursor(u) \/ SameShape(u)
    BY <2>1, <2>2 DEF HideCursor, MoveCursor, SameShape, device
  <2>3. CASE DefineCursor(u)
    <3>1. \/ missed' = (missed \/ rest) /\ readRecently' = readRecently
          \/ missed' = missed /\ readRecently' = TRUE
      BY <2>3 DEF DefineCursor, device
    <3> HIDE DEF rest
    <3>2. (missed \/ rest) \in BOOLEAN /\ (missed => (missed \/ rest))  OBVIOUS
    <3> QED  BY <2>1, <3>1, <3>2
  <2> QED  BY <1>1, <2>2, <2>3
<1>3. /\ GuestInv' /\ Len(ring') = Len(ring) - 1 /\ Len(ring) \in Nat \ {0}
      /\ u.op = "define" => u.shape \in Shapes
  BY <1>1, <1>2, RingLoses
<1>4. WindowInv'  BY <1>1 DEF WindowInv
<1> DEFINE Rest == HubInv' /\ PlaneInv' /\ ShownInv' /\ Primed' <= Primed + 1
                   /\ \A v \in Viewers : Len(queue'[v]) <= Len(queue[v]) + 1
<1>5. ASSUME NEW m, Sendable(m), SendPlane(m),
             lastShape' = IF m.op = "define" THEN m.shape ELSE lastShape
      PROVE  HubInv' /\ PlaneInv' /\ Primed' <= Primed + 1
             /\ \A v \in Viewers : Len(queue'[v]) <= Len(queue[v]) + 1
  BY <1>1, <1>5, Sent, SentHub, SentPlane
<1>6. Primed \in Nat /\ Primed' \in Nat  BY DEF Primed
<1>7. /\ \A v \in Viewers : Len(queue[v]) \in Nat
      /\ HubInv' => \A v \in Viewers : Len(queue'[v]) \in Nat
  BY DEF HubInv
<1>8. ASSUME SameHub, lastShape' = lastShape
      PROVE  HubInv' /\ PlaneInv' /\ Primed' <= Primed + 1
             /\ \A v \in Viewers : Len(queue'[v]) <= Len(queue[v]) + 1
  BY <1>6, <1>7, <1>8, HubSame
<1>9. \A b \in BOOLEAN : Sendable(Move(b)) /\ Move(b).op = "move"  BY Sendables
<1>10. ASSUME HideCursor(u) PROVE Rest
  <2>1. SendPlane(Move(FALSE)) /\ lastShape' = lastShape  BY <1>10 DEF HideCursor, device
  <2>2. ShownInv'  BY <1>1, <1>10, HideShown
  <2> QED  BY <1>5, <1>9, <2>1, <2>2
<1>11. ASSUME MoveCursor(u) PROVE Rest
  <2>1. (SendPlane(Move(TRUE)) \/ SameHub) /\ lastShape' = lastShape
    BY <1>1, <1>11 DEF MoveCursor, device, SameHub
  <2>2. ShownInv'  BY <1>1, <1>11, MoveShown
  <2> QED  BY <1>5, <1>8, <1>9, <2>1, <2>2
<1>12. ASSUME SameShape(u) PROVE Rest
  <2>1. SendPlane(Move(TRUE)) /\ lastShape' = lastShape /\ u.op = "define"
    BY <1>12 DEF SameShape, device
  <2>2. ShownInv'  BY <1>1, <1>3, <1>12, <2>1, SameShown
  <2> QED  BY <1>5, <1>9, <2>1, <2>2
<1>13. ASSUME DefineCursor(u) PROVE Rest
  <2>1. u.op = "define"  BY <1>13 DEF DefineCursor
  <2>2. ShownInv'  BY <1>1, <1>3, <1>13, <2>1, DefineShown
  <2>3. CASE UNCHANGED <<hub, device>>
    <3>1. SameHub /\ lastShape' = lastShape
      BY <1>1, <2>3 DEF device, SameHub
    <3> QED  BY <1>8, <2>2, <3>1
  <2>4. CASE SendPlane(Define(u.shape)) /\ lastShape' = u.shape
    <3>1. SendPlane(Define(u.shape)) /\ lastShape' = u.shape  BY <2>4
    <3>2. /\ Sendable(Define(u.shape)) /\ Define(u.shape).op = "define"
          /\ Define(u.shape).shape = u.shape
      BY <1>3, <2>1, Sendables
    <3> QED  BY <1>5, <2>2, <3>1, <3>2
  <2> QED  BY <1>13, <2>3, <2>4 DEF DefineCursor
<1>14. Rest  BY <1>1, <1>10, <1>11, <1>12, <1>13
<1>15. CountInv'
  <2>1. Primed' + Len(ring') <= updates'
    <3>1. updates \in Nat  BY DEF GuestInv
    <3>2. Primed + Len(ring) <= updates  BY DEF CountInv
    <3> QED  BY <1>1, <1>3, <1>6, <1>14, <3>1, <3>2
  <2>2. ASSUME NEW v \in Viewers PROVE slot'[v].version + Len(queue'[v]) + Len(ring') <= updates'
    <3>1. updates \in Nat /\ slot[v].version \in Nat  BY DEF GuestInv, WindowInv
    <3>2. slot[v].version + Len(queue[v]) + Len(ring) <= updates  BY DEF CountInv
    <3> QED  BY <1>1, <1>3, <1>7, <1>14, <3>1, <3>2
  <2> QED  BY <2>1, <2>2 DEF CountInv
<1> QED  BY <1>3, <1>4, <1>14, <1>15

-----------------------------------------------------------------------------
(* The other steps: a viewer keeps what it comes to show, or is primed.      *)

Carried(w) ==
  Served(w) /\ VisibleTo(w)' = VisibleTo(w) /\ \A s : ShapeTo(w, s) => ShapeTo(w, s)'

PrimedTo(w) ==
  /\ define # None =>
       ShapeTo(w, define.shape) /\ VisibleTo(w) = (move = None \/ move.visible)
  /\ Shows(w, PrimedOverlay)

LEMMA CarriedPlane ==
  ASSUME UNCHANGED <<define, move>>, PlaneInv,
         \A w \in Viewers : Served(w)' => Carried(w) \/ PrimedTo(w)'
  PROVE  PlaneInv'
<1> SUFFICES ASSUME define' # None, NEW w \in Viewers, Served(w)'
             PROVE  /\ ShapeOf(queue'[w], slot'[w].shape, define'.shape)
                    /\ VisibleTo(w)' = (move' = None \/ move'.visible)
  BY DEF PlaneInv, ShapeTo
<1>1. CASE Carried(w)
  <2>1. /\ Served(w) /\ VisibleTo(w)' = VisibleTo(w)
        /\ \A s : ShapeTo(w, s) => ShapeOf(queue'[w], slot'[w].shape, s)
    BY <1>1 DEF Carried, ShapeTo
  <2>2. ShapeTo(w, define.shape) /\ VisibleTo(w) = (move = None \/ move.visible)
    BY <2>1 DEF PlaneInv
  <2> QED  BY <2>1, <2>2
<1>2. CASE PrimedTo(w)'
  BY <1>2 DEF PrimedTo, ShapeTo
<1> QED  BY <1>1, <1>2

LEMMA CarriedShown ==
  ASSUME UNCHANGED <<define, move, fb>>, missed' => missed, missed => missed', ShownInv,
         InRing => InRing', 
         (\A i \in 1..Len(ring) : ring[i].op = "moveOnly")
           => \A i \in 1..Len(ring') : ring'[i].op = "moveOnly",
         \A w \in Viewers : Served(w)' => Carried(w) \/ PrimedTo(w)'
  PROVE  ShownInv'
<1> SUFFICES ASSUME ~missed', ~InRing' PROVE Forwarded'  BY DEF ShownInv
<1>1. Forwarded  BY DEF ShownInv
<1>2. PrimedOverlay' = PrimedOverlay  BY DEF PrimedOverlay
<1>3. /\ \A i \in 1..Len(ring') : ring'[i].op = "moveOnly"
      /\ PrimedOverlay' = fb' /\ \A v \in Viewers : Served(v) => Shows(v, fb)
  BY <1>1, <1>2 DEF Forwarded
<1>4. ASSUME NEW w \in Viewers, Served(w)' PROVE Shows(w, fb)'
  <2>1. CASE Carried(w)
    <3>1. /\ Served(w) /\ VisibleTo(w)' = VisibleTo(w)
          /\ \A s : ShapeTo(w, s) => ShapeOf(queue'[w], slot'[w].shape, s)
      BY <2>1 DEF Carried, ShapeTo
    <3>2. Shows(w, fb)  BY <1>3, <3>1
    <3> QED  BY <3>1, <3>2 DEF Shows, ShapeTo
  <2>2. CASE PrimedTo(w)'
    <3>1. PrimedOverlay' = fb'  BY <1>3
    <3> QED  BY <2>2, <3>1 DEF PrimedTo, Shows, ShapeTo
  <2> QED  BY <1>4, <2>1, <2>2
<1> QED  BY <1>3, <1>4 DEF Forwarded

LEMMA SameCarried ==
  ASSUME SameHub
  PROVE  \A w \in Viewers : Served(w)' => Carried(w)
BY HubSame DEF SameHub, hub, Carried, Served, ShapeTo, VisibleTo

LEMMA CommitStep ==
  ASSUME CursorInv, NEW new \in Shapes \cup {None}, Commit(new)
  PROVE  CursorInv'
<1> USE DEF CursorInv
<1> DEFINE n == Len(ring)
<1>1. /\ fb' = new /\ updates' = updates + 1 /\ (new = None => fb # None)
      /\ missed' = (IF new = fb THEN missed ELSE n = RingCap)
      /\ UNCHANGED <<define, move, joined, dead, queue, lost, slot, window, lastShape, readRecently>>
  BY DEF Commit, device, hub, viewer
<1>2. SameHub  BY <1>1 DEF SameHub, hub
<1>0. missed' \in BOOLEAN
  <2>1. CASE new = fb  BY <1>1, <2>1 DEF GuestInv
  <2>2. CASE new # fb
    <3>1. missed' = (n = RingCap)  BY <1>1, <2>2
    <3> QED  BY <3>1
  <2> QED  BY <2>1, <2>2
<1>3. HubInv' /\ PlaneInv' /\ Primed' = Primed  BY <1>1, <1>2, HubSame
<1>4. WindowInv'  BY <1>1 DEF WindowInv
<1>5. ring \in Seq(Updates) /\ n \in Nat /\ n <= RingCap /\ updates \in Nat  BY DEF GuestInv
<1>6. \A w \in Viewers : Served(w)' => Carried(w) \/ PrimedTo(w)'  BY <1>2, SameCarried
<1>7. CASE n < RingCap
  <2>1. PICK u \in UpdateFor(new) : ring' = Append(ring, u)  BY <1>7 DEF Commit
  <2>2. /\ u \in Updates
        /\ u.op = (IF new = None THEN "hide" ELSE IF new = fb THEN "moveOnly" ELSE "define")
        /\ u.shape = new
    <3>1. CASE new = None
      <4>1. u = [op |-> "hide", shape |-> None, warp |-> FALSE]  BY <3>1 DEF UpdateFor
      <4> QED  BY <3>1, <4>1 DEF Updates
    <3>2. CASE new # None
      <4>1. PICK w \in BOOLEAN :
              u = [op |-> IF new = fb THEN "moveOnly" ELSE "define", shape |-> new, warp |-> w]
        BY <3>2 DEF UpdateFor
      <4> QED  BY <3>2, <4>1 DEF Updates
    <3> QED  BY <3>1, <3>2
  <2>3. /\ ring' \in Seq(Updates) /\ Len(ring') = n + 1 /\ ring' # <<>>
        /\ ring'[n + 1] = u /\ \A i \in 1..n : ring'[i] = ring[i]
    BY <1>5, <2>1, <2>2, AppendFacts
  <2>4. \A i \in 1..n + 1 : i = n + 1 \/ i \in 1..n  BY <1>5
  <2>5. GuestInv'
    <3>1. \A i \in 1..n : ring[i].op = "define" => ring[i].shape \in Shapes  BY DEF GuestInv
    <3>2. \A i \in 1..Len(ring') : ring'[i].op = "define" => ring'[i].shape \in Shapes
      BY <2>2, <2>3, <2>4, <3>1
    <3>3. missed' \in BOOLEAN /\ readRecently' \in BOOLEAN /\ updates' \in Nat
      BY <1>0, <1>1, <1>5 DEF GuestInv
    <3>4. fb' = None => ring'[Len(ring')].op # "moveOnly"  BY <1>1, <2>2, <2>3
    <3>5. Len(ring') <= RingCap  BY <1>5, <1>7, <2>3, CursorAssumption
    <3> QED  BY <1>1, <2>3, <3>2, <3>3, <3>4, <3>5 DEF GuestInv
  <2>6. CountInv'
    <3>1. \A v \in Viewers : Len(queue[v]) \in Nat /\ slot[v].version \in Nat
      BY DEF HubInv, WindowInv
    <3>2. Primed \in Nat  BY DEF Primed
    <3>3. /\ Primed + n <= updates
          /\ \A v \in Viewers : slot[v].version + Len(queue[v]) + n <= updates
      BY DEF CountInv
    <3>4. Primed' + Len(ring') <= updates'  BY <1>1, <1>3, <1>5, <2>3, <3>2, <3>3
    <3>5. ASSUME NEW v \in Viewers
          PROVE  slot'[v].version + Len(queue'[v]) + Len(ring') <= updates'
      <4>1. slot[v].version + Len(queue[v]) + n <= updates  BY <3>3
      <4> QED  BY <1>1, <1>5, <2>3, <3>1, <4>1
    <3> QED  BY <3>4, <3>5 DEF CountInv
  <2>7. ShownInv'
    <3>1. CASE new = fb
      <4>1. u.op = "moveOnly" /\ missed' = missed  BY <1>1, <2>2, <3>1
      <4>2. InRing => InRing'
        <5> SUFFICES ASSUME InRing PROVE InRing'  OBVIOUS
        <5>1. PICK i \in 1..n :
                /\ ring[i].op # "moveOnly" /\ \A j \in i + 1..n : ring[j].op = "moveOnly"
                /\ fb = IF ring[i].op = "hide" THEN None ELSE ring[i].shape
          BY DEF InRing
        <5>2. i \in 1..Len(ring') /\ ring'[i] = ring[i]  BY <1>5, <2>3
        <5>3. ASSUME NEW j \in i + 1..n + 1 PROVE ring'[j].op = "moveOnly"
          <6>1. CASE j = n + 1  BY <2>3, <4>1, <6>1
          <6>2. CASE j # n + 1
            <7>1. j \in i + 1..n /\ j \in 1..n  BY <1>5, <6>2
            <7> QED  BY <2>3, <5>1, <7>1
          <6> QED  BY <6>1, <6>2
        <5> QED  BY <1>1, <2>3, <3>1, <5>1, <5>2, <5>3 DEF InRing
      <4>3. (\A i \in 1..Len(ring) : ring[i].op = "moveOnly")
              => \A i \in 1..Len(ring') : ring'[i].op = "moveOnly"
        BY <2>3, <2>4, <4>1
      <4> QED  BY <1>1, <1>6, <3>1, <4>1, <4>2, <4>3, CarriedShown
    <3>2. CASE new # fb
      <4>1. u.op # "moveOnly"  BY <2>2, <3>2
      <4>2. n + 1 \in 1..Len(ring') /\ \A j \in (n + 1) + 1..Len(ring') : FALSE  BY <1>5, <2>3
      <4>3. fb' = IF u.op = "hide" THEN None ELSE u.shape  BY <1>1, <2>2
      <4>4. InRing'  BY <2>3, <4>1, <4>2, <4>3 DEF InRing
      <4> QED  BY <4>4 DEF ShownInv
    <3> QED  BY <3>1, <3>2
  <2> QED  BY <1>3, <1>4, <2>5, <2>6, <2>7
<1>8. CASE ~(n < RingCap)
  <2>1. ring' = ring /\ n = RingCap  BY <1>5, <1>8, CursorAssumption DEF Commit
  <2>2. GuestInv'
    <3>1. missed' \in BOOLEAN /\ readRecently' \in BOOLEAN /\ updates' \in Nat
      BY <1>0, <1>1, <1>5 DEF GuestInv
    <3>2. ~missed' => fb' # None  BY <1>1, <2>1
    <3>3. /\ Len(ring') <= RingCap /\ ring' \in Seq(Updates)
          /\ \A i \in 1..Len(ring') : ring'[i].op = "define" => ring'[i].shape \in Shapes
      BY <2>1 DEF GuestInv
    <3> QED  BY <1>1, <3>1, <3>2, <3>3 DEF GuestInv
  <2>3. CountInv'
    <3>1. \A v \in Viewers : Len(queue[v]) \in Nat /\ slot[v].version \in Nat
      BY DEF HubInv, WindowInv
    <3>2. Primed \in Nat  BY DEF Primed
    <3>3. /\ Primed + n <= updates
          /\ \A v \in Viewers : slot[v].version + Len(queue[v]) + n <= updates
      BY DEF CountInv
    <3>4. Primed' + Len(ring') <= updates'  BY <1>1, <1>3, <1>5, <2>1, <3>2, <3>3
    <3>5. ASSUME NEW v \in Viewers
          PROVE  slot'[v].version + Len(queue'[v]) + Len(ring') <= updates'
      <4>1. slot[v].version + Len(queue[v]) + n <= updates  BY <3>3
      <4> QED  BY <1>1, <1>5, <2>1, <3>1, <4>1
    <3> QED  BY <3>4, <3>5 DEF CountInv
  <2>4. ShownInv'
    <3>1. CASE new = fb
      <4>1. InRing => InRing'  BY <1>1, <2>1, <3>1 DEF InRing
      <4> QED  BY <1>1, <1>6, <2>1, <3>1, <4>1, CarriedShown
    <3>2. CASE new # fb  BY <1>1, <2>1, <3>2 DEF ShownInv
    <3> QED  BY <3>1, <3>2
  <2> QED  BY <1>3, <1>4, <2>2, <2>3, <2>4
<1> QED  BY <1>7, <1>8

\* Nothing of the guest, the device's last shape, or the planes changes.
SameGuest == UNCHANGED <<guest, lastShape, define, move, missed>>

LEMMA GuestSame ==
  ASSUME SameGuest, readRecently' \in BOOLEAN, GuestInv, ShownInv,
         \A w \in Viewers : Served(w)' => Carried(w) \/ PrimedTo(w)'
  PROVE  GuestInv' /\ ShownInv' /\ Primed' = Primed
<1>1. UNCHANGED <<fb, ring, updates, lastShape, define, move, missed>>  BY DEF SameGuest, guest
<1>2. GuestInv'  BY <1>1 DEF GuestInv
<1>3. InRing => InRing'  BY <1>1 DEF InRing
<1>4. ShownInv'  BY <1>1, <1>3, CarriedShown
<1> QED  BY <1>1, <1>2, <1>4 DEF Primed

LEMMA IntervalStep ==
  ASSUME CursorInv, IntervalElapses
  PROVE  CursorInv'
<1> USE DEF CursorInv
<1>1. /\ readRecently' = FALSE /\ SameHub /\ lastShape' = lastShape
      /\ UNCHANGED <<guest, define, move, missed, slot, window, queue>>
  BY DEF IntervalElapses, SameHub, hub, viewer
<1>2. SameGuest  BY <1>1 DEF SameGuest
<1>3. HubInv' /\ PlaneInv'  BY <1>1, HubSame
<1>4. GuestInv' /\ ShownInv' /\ Primed' = Primed  BY <1>1, <1>2, SameCarried, GuestSame
<1>5. WindowInv'  BY <1>1 DEF WindowInv
<1>6. CountInv'  BY <1>1, <1>4 DEF CountInv, guest
<1> QED  BY <1>3, <1>4, <1>5, <1>6

LEMMA ResetStep ==
  ASSUME CursorInv, Reset
  PROVE  CursorInv'
<1> USE DEF CursorInv
<1>1. /\ fb' = None /\ ring' = <<>> /\ lastShape' = None /\ readRecently' = FALSE
      /\ define' = None /\ move' = None /\ missed' = TRUE
      /\ UNCHANGED <<updates, joined, dead, queue, lost, slot, window>>
  BY DEF Reset, viewer
<1>2. GuestInv'
  <2>1. /\ ring' \in Seq(Updates) /\ Len(ring') = 0 /\ Len(ring') <= RingCap
        /\ \A i \in 1..Len(ring') : FALSE
    BY <1>1, CursorAssumption
  <2> QED  BY <1>1, <2>1 DEF GuestInv
<1>3. HubInv'  BY <1>1 DEF HubInv
<1>4. WindowInv'  BY <1>1 DEF WindowInv
<1>5. PlaneInv' /\ ShownInv'  BY <1>1 DEF PlaneInv, ShownInv
<1>6. CountInv'
  <2>1. Primed' = 0 /\ Len(ring') = 0 /\ updates' \in Nat /\ Len(ring) \in Nat
    BY <1>1 DEF Primed, GuestInv
  <2>2. ASSUME NEW v \in Viewers
        PROVE  slot'[v].version + Len(queue'[v]) + Len(ring') <= updates'
    <3>1. slot[v].version \in Nat /\ Len(queue[v]) \in Nat  BY DEF WindowInv, HubInv
    <3>2. slot[v].version + Len(queue[v]) + Len(ring) <= updates  BY DEF CountInv
    <3> QED  BY <1>1, <2>1, <3>1, <3>2
  <2> QED  BY <2>1, <2>2 DEF CountInv
<1> QED  BY <1>2, <1>3, <1>4, <1>5, <1>6

\* What the hub has cached, sent to a viewer that has received nothing.
LEMMA PrimerFacts ==
  ASSUME HubInv
  PROVE  /\ Primer \in Seq(Messages) /\ Len(Primer) = Primed
         /\ \A i \in 1..Len(Primer) :
              Primer[i].op = "define" => Primer[i].shape \in Shapes /\ Primer[i].visible
         /\ define # None =>
              /\ ShapeOf(Primer, None, define.shape)
              /\ VisibleOf(Primer, FALSE) = (move = None \/ move.visible)
         /\ define = None => ShapeOf(Primer, None, None)
<1>1. /\ define # None => /\ define \in Messages /\ define.op = "define"
                          /\ define.shape \in Shapes /\ define.visible
      /\ move # None => move \in Messages /\ move.op = "move"
  BY DEF HubInv
<1>2. CASE define = None /\ move = None
  <2>1. Primer = <<>>  BY <1>2 DEF Primer
  <2> QED  BY <1>2, <2>1 DEF ShapeOf, VisibleOf, Primed
<1>3. CASE define = None /\ move # None
  <2>1. Primer = <<move>>  BY <1>3 DEF Primer
  <2>2. Len(Primer) = 1 /\ Primer[1] = move  BY <2>1
  <2>3. Primer \in Seq(Messages)  BY <1>1, <1>3, <2>1
  <2>4. \A i \in 1..Len(Primer) : Primer[i].op # "define"  BY <1>1, <1>3, <2>2
  <2>5. ShapeOf(Primer, None, None)  BY <2>4 DEF ShapeOf
  <2>6. Len(Primer) = Primed  BY <1>3, <2>2 DEF Primed
  <2> QED  BY <1>3, <2>3, <2>4, <2>5, <2>6
<1>4. CASE define # None /\ move = None
  <2>1. Primer = <<define>>  BY <1>4 DEF Primer
  <2>2. Len(Primer) = 1 /\ Primer[1] = define /\ Primer # <<>>  BY <2>1
  <2>3. Primer \in Seq(Messages)  BY <1>1, <1>4, <2>1
  <2>4. Len(Primer) = Primed  BY <1>4, <2>2 DEF Primed
  <2>5. VisibleOf(Primer, FALSE) = define.visible  BY <2>2 DEF VisibleOf
  <2>6. define.visible = TRUE  BY <1>1, <1>4 DEF Messages
  <2>7. ShapeOf(Primer, None, define.shape)
    <3>1. 1 \in 1..Len(Primer) /\ \A j \in 1 + 1..Len(Primer) : FALSE  BY <2>2
    <3> QED  BY <1>1, <1>4, <2>2, <3>1 DEF ShapeOf
  <2>8. \A i \in 1..Len(Primer) :
          Primer[i].op = "define" => Primer[i].shape \in Shapes /\ Primer[i].visible
    BY <1>1, <1>4, <2>2
  <2> QED  BY <1>4, <2>3, <2>4, <2>5, <2>6, <2>7, <2>8
<1>5. CASE define # None /\ move # None
  <2>1. Primer = <<define>> \o <<move>>  BY <1>5 DEF Primer
  <2>2. Len(Primer) = 2 /\ Primer[1] = define /\ Primer[2] = move /\ Primer \in Seq(Messages)
    BY <1>1, <1>5, <2>1, PairFacts
  <2>3. Primer # <<>>  BY <2>2
  <2>4. Len(Primer) = Primed  BY <1>5, <2>2 DEF Primed
  <2>5. VisibleOf(Primer, FALSE) = move.visible  BY <2>2, <2>3 DEF VisibleOf
  <2>6. move.visible \in BOOLEAN  BY <1>1, <1>5 DEF Messages
  <2>7. ShapeOf(Primer, None, define.shape)
    <3>1. 1 \in 1..Len(Primer) /\ \A j \in 1 + 1..Len(Primer) : j = 2  BY <2>2
    <3>2. \A j \in 1 + 1..Len(Primer) : Primer[j].op # "define"  BY <1>1, <1>5, <2>2, <3>1
    <3> QED  BY <1>1, <1>5, <2>2, <3>1, <3>2 DEF ShapeOf
  <2>8. \A i \in 1..Len(Primer) :
          Primer[i].op = "define" => Primer[i].shape \in Shapes /\ Primer[i].visible
    <3>1. \A i \in 1..2 : i = 1 \/ i = 2  OBVIOUS
    <3> QED  BY <1>1, <1>5, <2>2, <3>1
  <2> QED  BY <1>5, <2>2, <2>4, <2>5, <2>6, <2>7, <2>8
<1> QED  BY <1>2, <1>3, <1>4, <1>5

\* One viewer's queue, slot and window change; what counts its messages does not grow.
LEMMA OneViewer ==
  ASSUME CursorInv, SameGuest, NEW v \in Viewers, readRecently' = readRecently,
         dead' \subseteq joined', joined' \subseteq Viewers,
         NEW q \in Seq(Messages), queue' = [queue EXCEPT ![v] = q],
         \A i \in 1..Len(q) : q[i].op = "define" => q[i].shape \in Shapes /\ q[i].visible,
         v \notin joined' \ dead' => q = <<>>,
         \A w \in Viewers \ {v} : w \in joined' \ dead' <=> w \in joined \ dead,
         lost' \in [Viewers -> BOOLEAN],
         NEW s \in [shape : Shapes \cup {None}, version : Nat, visible : BOOLEAN],
         slot' = [slot EXCEPT ![v] = s],
         \A w \in Viewers \ {v} : lost'[w] = lost[w],
         s.version + Len(q) + Len(ring) <= updates,
         Served(v)' => Carried(v) \/ PrimedTo(v)',
         WindowInv'
  PROVE  CursorInv'
<1> USE DEF CursorInv
<1>1. UNCHANGED <<fb, ring, updates, lastShape, define, move, missed>>  BY DEF SameGuest, guest
<1>2. ASSUME NEW w \in Viewers
      PROVE  /\ queue'[w] = IF w = v THEN q ELSE queue[w]
             /\ slot'[w] = IF w = v THEN s ELSE slot[w]
  BY DEF HubInv, WindowInv
<1>3. ASSUME NEW w \in Viewers, Served(w)' PROVE Carried(w) \/ PrimedTo(w)'
  <2>1. CASE w = v  BY <1>3, <2>1
  <2>2. CASE w # v
    <3>1. queue'[w] = queue[w] /\ slot'[w] = slot[w] /\ lost'[w] = lost[w]  BY <1>2, <2>2
    <3>2. Served(w)  BY <1>3, <2>2, <3>1 DEF Served
    <3> QED  BY <3>1, <3>2 DEF Carried, ShapeTo, VisibleTo
  <2> QED  BY <2>1, <2>2
<1>4. PlaneInv'  BY <1>1, <1>3, CarriedPlane
<1>5. readRecently' \in BOOLEAN  BY DEF GuestInv
<1>6. GuestInv' /\ ShownInv' /\ Primed' = Primed  BY <1>3, <1>5, GuestSame
<1>7. HubInv'
  <2>1. queue' \in [Viewers -> Seq(Messages)]  BY DEF HubInv
  <2>2. \A w \in Viewers : \A i \in 1..Len(queue'[w]) :
          queue'[w][i].op = "define" => queue'[w][i].shape \in Shapes /\ queue'[w][i].visible
    <3>1. ASSUME NEW w \in Viewers
          PROVE  \A i \in 1..Len(queue'[w]) :
                   queue'[w][i].op = "define" => queue'[w][i].shape \in Shapes /\ queue'[w][i].visible
      <4>1. CASE w = v
        <5>1. queue'[w] = q  BY <1>2, <4>1
        <5> QED  BY <5>1
      <4>2. CASE w # v
        <5>1. queue'[w] = queue[w]  BY <1>2, <4>2
        <5> QED  BY <5>1 DEF HubInv
      <4> QED  BY <4>1, <4>2
    <3> QED  BY <3>1
  <2>3. \A w \in Viewers : w \notin joined' \ dead' => queue'[w] = <<>>
    <3>1. \A w \in Viewers \ {v} : queue'[w] = queue[w] /\ (w \notin joined \ dead => queue[w] = <<>>)
      BY <1>2 DEF HubInv
    <3>2. queue'[v] = q  BY <1>2
    <3> QED  BY <3>1, <3>2
  <2>4. /\ define' \in Messages \cup {None} /\ move' \in Messages \cup {None}
        /\ define' # None => define'.op = "define" /\ define'.shape \in Shapes /\ define'.visible
        /\ move' # None => move'.op = "move"
        /\ lastShape' = IF define' = None THEN None ELSE define'.shape
    BY <1>1 DEF HubInv
  <2> QED  BY <2>1, <2>2, <2>3, <2>4 DEF HubInv
<1>8. CountInv'
  <2>1. Primed' + Len(ring') <= updates'  BY <1>1, <1>6 DEF CountInv
  <2>2. ASSUME NEW w \in Viewers
        PROVE  slot'[w].version + Len(queue'[w]) + Len(ring') <= updates'
    <3>1. CASE w = v
      <4>1. queue'[w] = q /\ slot'[w] = s  BY <1>2, <3>1
      <4> QED  BY <1>1, <4>1
    <3>2. CASE w # v
      <4>1. queue'[w] = queue[w] /\ slot'[w] = slot[w]  BY <1>2, <3>2
      <4> QED  BY <1>1, <4>1 DEF CountInv
    <3> QED  BY <3>1, <3>2
  <2> QED  BY <2>1, <2>2 DEF CountInv
<1> QED  BY <1>4, <1>6, <1>7, <1>8

LEMMA JoinStep ==
  ASSUME CursorInv, NEW v \in Viewers, Join(v)
  PROVE  CursorInv'
<1> USE DEF CursorInv
<1> DEFINE q == Primer
<1>1. /\ v \notin joined /\ joined' = joined \cup {v} /\ dead' = dead /\ lost' = lost
      /\ queue' = [queue EXCEPT ![v] = q] /\ slot' = [slot EXCEPT ![v] = EmptySlot]
      /\ window' = [window EXCEPT ![v] = EmptyWindow] /\ readRecently' = readRecently
      /\ SameGuest
  BY DEF Join, SameGuest, device
<1>2. UNCHANGED <<define, move>>  BY <1>1 DEF SameGuest
<1>3. /\ q \in Seq(Messages) /\ Len(q) = Primed
      /\ \A i \in 1..Len(q) : q[i].op = "define" => q[i].shape \in Shapes /\ q[i].visible
      /\ define # None => /\ ShapeOf(q, None, define.shape)
                          /\ VisibleOf(q, FALSE) = (move = None \/ move.visible)
      /\ define = None => ShapeOf(q, None, None)
  BY PrimerFacts
<1>4. /\ EmptySlot \in [shape : Shapes \cup {None}, version : Nat, visible : BOOLEAN]
      /\ EmptySlot.shape = None /\ EmptySlot.version = 0 /\ EmptySlot.visible = FALSE
  BY DEF EmptySlot
<1>5. /\ EmptyWindow \in [shape : Shapes \cup {None}, version : Nat, shown : BOOLEAN,
                          drawn : Shapes \cup {None}]
      /\ EmptyWindow.shape = None /\ EmptyWindow.version = 0 /\ EmptyWindow.shown = FALSE
      /\ EmptyWindow.drawn = None
  BY DEF EmptyWindow
<1>6. queue'[v] = q /\ slot'[v] = EmptySlot  BY <1>1 DEF HubInv, WindowInv
<1> HIDE DEF q
<1>7. /\ define # None => /\ ShapeOf(queue'[v], slot'[v].shape, define.shape)
                          /\ VisibleTo(v)' = (move = None \/ move.visible)
      /\ define = None => ShapeOf(queue'[v], slot'[v].shape, None)
  BY <1>3, <1>4, <1>6 DEF VisibleTo
<1>8. PrimedTo(v)'
  <2>1. define' # None => ShapeTo(v, define.shape)' /\ VisibleTo(v)' = (move' = None \/ move'.visible)
    BY <1>2, <1>7 DEF ShapeTo
  <2>2. CASE define = None
    <3>1. PrimedOverlay' = None /\ ShapeOf(queue'[v], slot'[v].shape, None)
      BY <1>2, <1>7, <2>2 DEF PrimedOverlay
    <3>2. Shows(v, PrimedOverlay)'  BY <3>1 DEF Shows, ShapeTo
    <3> QED  BY <2>1, <3>2 DEF PrimedTo
  <2>3. CASE define # None
    <3>1. define.shape # None  BY <2>3, CursorAssumption DEF HubInv
    <3>2. PrimedOverlay' = IF move # None /\ ~move.visible THEN None ELSE define.shape
      BY <1>2, <2>3 DEF PrimedOverlay
    <3>3. Shows(v, PrimedOverlay)'
      <4>1. CASE move # None /\ ~move.visible
        <5>1. PrimedOverlay' = None /\ ~VisibleTo(v)'  BY <1>7, <2>3, <3>2, <4>1
        <5> QED  BY <5>1 DEF Shows
      <4>2. CASE ~(move # None /\ ~move.visible)
        <5>1. PrimedOverlay' = define.shape /\ VisibleTo(v)'  BY <1>7, <2>3, <3>2, <4>2
        <5> QED  BY <1>7, <2>3, <3>1, <5>1 DEF Shows, ShapeTo
      <4> QED  BY <4>1, <4>2
    <3> QED  BY <2>1, <3>3 DEF PrimedTo
  <2> QED  BY <2>2, <2>3
<1>9. WindowInv'
  <2>1. /\ slot' \in [Viewers -> [shape : Shapes \cup {None}, version : Nat, visible : BOOLEAN]]
        /\ window' \in [Viewers -> [shape : Shapes \cup {None}, version : Nat, shown : BOOLEAN,
                                    drawn : Shapes \cup {None}]]
    BY <1>1, <1>4, <1>5 DEF WindowInv
  <2>2. ASSUME NEW w \in Viewers
        PROVE  /\ (slot'[w].version = 0) = (slot'[w].shape = None)
               /\ window'[w].version <= slot'[w].version
               /\ window'[w].version = slot'[w].version => window'[w].shape = slot'[w].shape
               /\ window'[w].drawn = IF window'[w].shown THEN window'[w].shape ELSE None
    <3>1. CASE w = v
      <4>1. slot'[w] = EmptySlot /\ window'[w] = EmptyWindow  BY <1>1, <3>1 DEF WindowInv
      <4> QED  BY <1>4, <1>5, <4>1
    <3>2. CASE w # v
      <4>1. slot'[w] = slot[w] /\ window'[w] = window[w]  BY <1>1, <3>2 DEF WindowInv
      <4> QED  BY <4>1 DEF WindowInv
    <3> QED  BY <3>1, <3>2
  <2> QED  BY <2>1, <2>2 DEF WindowInv
<1>10. EmptySlot.version + Len(q) + Len(ring) <= updates
  <2>1. Primed \in Nat /\ Len(ring) \in Nat  BY DEF Primed, GuestInv
  <2>2. Primed + Len(ring) <= updates  BY DEF CountInv
  <2> QED  BY <1>3, <1>4, <2>1, <2>2
<1>11. v \notin dead /\ dead' \subseteq joined' /\ joined' \subseteq Viewers
  BY <1>1 DEF HubInv
<1>12. v \notin joined' \ dead' => q = <<>>  BY <1>1, <1>11
<1>13. \A w \in Viewers \ {v} : w \in joined' \ dead' <=> w \in joined \ dead  BY <1>1
<1>14. lost' \in [Viewers -> BOOLEAN] /\ \A w \in Viewers \ {v} : lost'[w] = lost[w]
  BY <1>1 DEF HubInv
<1> QED  BY <1>1, <1>3, <1>4, <1>8, <1>9, <1>10, <1>11, <1>12, <1>13, <1>14, OneViewer

\* The slot and the window of a viewer whose queue is emptied stay.
LEMMA Emptied ==
  ASSUME CursorInv, SameGuest, NEW v \in Viewers, readRecently' = readRecently,
         UNCHANGED <<joined, slot, window>>, queue' = [queue EXCEPT ![v] = <<>>],
         dead' \subseteq joined,
         \A w \in Viewers \ {v} : w \in dead' <=> w \in dead,
         lost' \in [Viewers -> BOOLEAN], \A w \in Viewers \ {v} : lost'[w] = lost[w],
         ~Served(v)'
  PROVE  CursorInv'
<1> USE DEF CursorInv
<1>1. <<>> \in Seq(Messages) /\ Len(<<>>) = 0 /\ \A i \in 1..Len(<<>>) : FALSE  OBVIOUS
<1>2. /\ slot[v] \in [shape : Shapes \cup {None}, version : Nat, visible : BOOLEAN]
      /\ slot' = [slot EXCEPT ![v] = slot[v]]
  BY DEF WindowInv
<1>3. slot[v].version + Len(<<>>) + Len(ring) <= updates
  <2>1. slot[v].version \in Nat /\ Len(queue[v]) \in Nat /\ Len(ring) \in Nat /\ updates \in Nat
    BY DEF WindowInv, HubInv, GuestInv
  <2>2. slot[v].version + Len(queue[v]) + Len(ring) <= updates  BY DEF CountInv
  <2> QED  BY <1>1, <2>1, <2>2
<1>4. WindowInv'  BY DEF WindowInv
<1>5. joined' \subseteq Viewers /\ dead' \subseteq joined'  BY DEF HubInv
<1>6. \A w \in Viewers \ {v} : w \in joined' \ dead' <=> w \in joined \ dead  OBVIOUS
<1> QED  BY <1>1, <1>2, <1>3, <1>4, <1>5, <1>6, OneViewer

LEMMA LeaveStep ==
  ASSUME CursorInv, NEW v \in Viewers, Leave(v)
  PROVE  CursorInv'
<1>1. /\ v \in joined \ dead /\ dead' = dead \cup {v} /\ joined' = joined /\ lost' = lost
      /\ queue' = [queue EXCEPT ![v] = <<>>] /\ readRecently' = readRecently
      /\ UNCHANGED <<slot, window>> /\ SameGuest
  BY DEF Leave, SameGuest, device, viewer
<1>2. /\ lost' \in [Viewers -> BOOLEAN] /\ \A w \in Viewers \ {v} : lost'[w] = lost[w]
      /\ dead' \subseteq joined
  BY <1>1 DEF CursorInv, HubInv
<1>3. ~Served(v)'  BY <1>1 DEF Served
<1> QED  BY <1>1, <1>2, <1>3, Emptied

LEMMA ShedStep ==
  ASSUME CursorInv, NEW v \in Viewers, Shed(v)
  PROVE  CursorInv'
<1>1. /\ dead' = dead /\ joined' = joined /\ lost' = [lost EXCEPT ![v] = TRUE]
      /\ queue' = [queue EXCEPT ![v] = <<>>] /\ readRecently' = readRecently
      /\ UNCHANGED <<slot, window>> /\ SameGuest
  BY DEF Shed, SameGuest, device, viewer
<1>2. /\ lost' \in [Viewers -> BOOLEAN] /\ \A w \in Viewers \ {v} : lost'[w] = lost[w]
      /\ dead' \subseteq joined /\ lost'[v]
  BY <1>1 DEF CursorInv, HubInv
<1>3. ~Served(v)'  BY <1>2 DEF Served
<1> QED  BY <1>1, <1>2, <1>3, Emptied

LEMMA ReceiveStep ==
  ASSUME CursorInv, NEW v \in Viewers, Receive(v)
  PROVE  CursorInv'
<1> DEFINE m == Head(queue[v])
           q == Tail(queue[v])
           s == IF m.op = "define"
                THEN [shape |-> m.shape, version |-> slot[v].version + 1, visible |-> m.visible]
                ELSE [slot[v] EXCEPT !.visible = m.visible]
<1>1. /\ queue[v] # <<>> /\ queue' = [queue EXCEPT ![v] = q] /\ slot' = [slot EXCEPT ![v] = s]
      /\ UNCHANGED <<joined, dead, lost, window>> /\ readRecently' = readRecently /\ SameGuest
  BY DEF Receive, SlotDefine, SetVisible, SameGuest, device, CursorInv, WindowInv
<1>2. /\ queue[v] \in Seq(Messages) /\ slot[v] \in [shape : Shapes \cup {None}, version : Nat,
                                                    visible : BOOLEAN]
      /\ \A i \in 1..Len(queue[v]) :
           queue[v][i].op = "define" => queue[v][i].shape \in Shapes /\ queue[v][i].visible
  BY DEF CursorInv, HubInv, WindowInv
<1>3. /\ q \in Seq(Messages) /\ Len(queue[v]) \in Nat \ {0} /\ Len(q) = Len(queue[v]) - 1
      /\ m = queue[v][1] /\ m \in Messages /\ 1 \in 1..Len(queue[v])
      /\ \A i \in 1..Len(queue[v]) - 1 : q[i] = queue[v][i + 1]
  BY <1>1, <1>2, TailFacts
<1>4. m.op = "define" => m.shape \in Shapes  BY <1>2, <1>3
<1>5. /\ m.visible \in BOOLEAN /\ m.op \in {"define", "move"}  BY <1>3 DEF Messages
<1>7. \A x : ShapeOf(queue[v], slot[v].shape, x)
                => ShapeOf(q, IF m.op = "define" THEN m.shape ELSE slot[v].shape, x)
  BY <1>1, <1>2, ShapeTail
<1>8. VisibleOf(q, m.visible) = VisibleOf(queue[v], slot[v].visible)
  BY <1>1, <1>2, VisibleFacts
<1>9. \A i \in 1..Len(q) : q[i].op = "define" => q[i].shape \in Shapes /\ q[i].visible
  <2>1. \A i \in 1..Len(queue[v]) - 1 : i + 1 \in 1..Len(queue[v])  BY <1>3
  <2> QED  BY <1>2, <1>3, <2>1
<1> HIDE DEF q, m
<1>10. /\ s \in [shape : Shapes \cup {None}, version : Nat, visible : BOOLEAN]
       /\ s.shape = (IF m.op = "define" THEN m.shape ELSE slot[v].shape)
       /\ s.version = (IF m.op = "define" THEN slot[v].version + 1 ELSE slot[v].version)
       /\ s.visible = m.visible
  BY <1>2, <1>4, <1>5
<1> HIDE DEF s
<1>11. queue'[v] = q /\ slot'[v] = s  BY <1>1 DEF CursorInv, HubInv, WindowInv
<1>12. Served(v)' => Carried(v)
  <2>1. Served(v)' => Served(v)  BY <1>1 DEF Served
  <2>2. VisibleTo(v)' = VisibleTo(v)  BY <1>8, <1>10, <1>11 DEF VisibleTo
  <2>3. \A x : ShapeTo(v, x) => ShapeTo(v, x)'  BY <1>7, <1>10, <1>11 DEF ShapeTo
  <2> QED  BY <2>1, <2>2, <2>3 DEF Carried
<1>13. WindowInv'
  <2>1. slot' \in [Viewers -> [shape : Shapes \cup {None}, version : Nat, visible : BOOLEAN]]
    BY <1>1, <1>10 DEF CursorInv, WindowInv
  <2>2. window' \in [Viewers -> [shape : Shapes \cup {None}, version : Nat, shown : BOOLEAN,
                                 drawn : Shapes \cup {None}]]
    BY <1>1 DEF CursorInv, WindowInv
  <2>3. ASSUME NEW w \in Viewers
        PROVE  /\ (slot'[w].version = 0) = (slot'[w].shape = None)
               /\ window'[w].version <= slot'[w].version
               /\ window'[w].version = slot'[w].version => window'[w].shape = slot'[w].shape
               /\ window'[w].drawn = IF window'[w].shown THEN window'[w].shape ELSE None
    <3>1. /\ (slot[w].version = 0) = (slot[w].shape = None)
          /\ window[w].version <= slot[w].version
          /\ window[w].version = slot[w].version => window[w].shape = slot[w].shape
          /\ window[w].drawn = IF window[w].shown THEN window[w].shape ELSE None
          /\ window'[w] = window[w] /\ window[w].version \in Nat /\ slot[w].version \in Nat
      BY <1>1 DEF CursorInv, WindowInv
    <3>2. CASE w = v /\ m.op = "define"
      <4>1. slot'[w].version = slot[w].version + 1 /\ slot'[w].shape = m.shape
        BY <1>10, <1>11, <3>2
      <4>2. m.shape # None  BY <1>4, <3>2, CursorAssumption
      <4> QED  BY <3>1, <4>1, <4>2
    <3>3. CASE w = v /\ m.op # "define"
      <4>1. slot'[w].version = slot[w].version /\ slot'[w].shape = slot[w].shape
        BY <1>10, <1>11, <3>3
      <4> QED  BY <3>1, <4>1
    <3>4. CASE w # v
      <4>1. slot'[w] = slot[w]  BY <1>1, <3>4 DEF CursorInv, WindowInv
      <4> QED  BY <3>1, <4>1
    <3> QED  BY <3>2, <3>3, <3>4
  <2> QED  BY <2>1, <2>2, <2>3 DEF WindowInv
<1>14. s.version + Len(q) + Len(ring) <= updates
  <2>1. slot[v].version + Len(queue[v]) + Len(ring) <= updates  BY DEF CursorInv, CountInv
  <2>2. slot[v].version \in Nat /\ Len(ring) \in Nat /\ updates \in Nat
    BY <1>2 DEF CursorInv, GuestInv
  <2>3. Len(queue[v]) \in Nat \ {0} /\ Len(q) = Len(queue[v]) - 1  BY <1>3
  <2>4. s.version = slot[v].version + 1 \/ s.version = slot[v].version  BY <1>10
  <2> QED  BY <2>1, <2>2, <2>3, <2>4
<1>15. /\ dead' \subseteq joined' /\ joined' \subseteq Viewers /\ lost' \in [Viewers -> BOOLEAN]
       /\ \A w \in Viewers \ {v} : lost'[w] = lost[w]
       /\ \A w \in Viewers \ {v} : w \in joined' \ dead' <=> w \in joined \ dead
       /\ v \notin joined' \ dead' => q = <<>>
  <2>1. v \in joined \ dead  BY <1>1 DEF CursorInv, HubInv
  <2> QED  BY <1>1, <2>1 DEF CursorInv, HubInv
<1> QED  BY <1>1, <1>3, <1>9, <1>10, <1>12, <1>13, <1>14, <1>15, OneViewer

\* A redrawn window has the slot's shape, whichever of the two it takes it from.
LEMMA RedrawnFacts ==
  ASSUME WindowInv, NEW v \in Viewers
  PROVE  /\ Redrawn(v) \in [shape : Shapes \cup {None}, version : Nat, shown : BOOLEAN,
                            drawn : Shapes \cup {None}]
         /\ Redrawn(v).shape = slot[v].shape /\ Redrawn(v).version = slot[v].version
         /\ Redrawn(v).shown = (slot[v].visible /\ slot[v].shape # None)
         /\ Redrawn(v).drawn = IF Redrawn(v).shown THEN slot[v].shape ELSE None
<1> DEFINE w == window[v]
           shape == IF slot[v].version # w.version THEN slot[v].shape ELSE w.shape
           shown == slot[v].visible /\ shape # None
           drawn == IF slot[v].version = w.version /\ shown = w.shown THEN w.drawn
                    ELSE IF shown THEN shape ELSE None
<1>1. /\ slot[v] \in [shape : Shapes \cup {None}, version : Nat, visible : BOOLEAN]
      /\ w \in [shape : Shapes \cup {None}, version : Nat, shown : BOOLEAN,
                drawn : Shapes \cup {None}]
      /\ w.version = slot[v].version => w.shape = slot[v].shape
      /\ w.drawn = IF w.shown THEN w.shape ELSE None
  BY DEF WindowInv
<1>2. Redrawn(v) = [shape |-> shape, version |-> slot[v].version, shown |-> shown, drawn |-> drawn]
  BY DEF Redrawn
<1> HIDE DEF w
<1>3. shape = slot[v].shape  BY <1>1
<1>4. shown \in BOOLEAN /\ shown = (slot[v].visible /\ slot[v].shape # None)  BY <1>3
<1> HIDE DEF shown
<1>5. drawn = IF shown THEN slot[v].shape ELSE None
  <2>1. CASE slot[v].version = w.version /\ shown = w.shown  BY <1>1, <2>1
  <2>2. CASE ~(slot[v].version = w.version /\ shown = w.shown)  BY <1>3, <2>2
  <2> QED  BY <2>1, <2>2
<1> HIDE DEF shape, drawn
<1>6. /\ Redrawn(v).shape = shape /\ Redrawn(v).version = slot[v].version
      /\ Redrawn(v).shown = shown /\ Redrawn(v).drawn = drawn
  BY <1>2
<1>7. Redrawn(v) \in [shape : Shapes \cup {None}, version : Nat, shown : BOOLEAN,
                      drawn : Shapes \cup {None}]
  <2>1. shape \in Shapes \cup {None} /\ slot[v].version \in Nat  BY <1>1, <1>3
  <2>2. drawn \in Shapes \cup {None}  BY <1>1, <1>5
  <2> QED  BY <1>2, <1>4, <2>1, <2>2
<1> QED  BY <1>3, <1>4, <1>5, <1>6, <1>7

LEMMA DrawStep ==
  ASSUME CursorInv, NEW v \in Viewers, Draw(v)
  PROVE  CursorInv'
<1> DEFINE r == Redrawn(v)
<1>1. /\ SameHub /\ SameGuest /\ lastShape' = lastShape /\ readRecently' = readRecently
      /\ slot' = slot /\ queue' = queue /\ ring' = ring /\ updates' = updates
      /\ window' = [window EXCEPT ![v] = r]
  BY DEF Draw, SameHub, SameGuest, device, guest, hub
<1>2. HubInv' /\ PlaneInv'  BY <1>1, HubSame DEF CursorInv
<1>3. GuestInv' /\ ShownInv' /\ Primed' = Primed
  <2>1. readRecently' \in BOOLEAN  BY <1>1 DEF CursorInv, GuestInv
  <2> QED  BY <1>1, <2>1, SameCarried, GuestSame DEF CursorInv
<1>4. CountInv'  BY <1>1, <1>3 DEF CursorInv, CountInv
<1>5. /\ r \in [shape : Shapes \cup {None}, version : Nat, shown : BOOLEAN,
                drawn : Shapes \cup {None}]
      /\ r.shape = slot[v].shape /\ r.version = slot[v].version
      /\ r.drawn = IF r.shown THEN r.shape ELSE None
  BY RedrawnFacts DEF CursorInv
<1> HIDE DEF r
<1>6. WindowInv'
  <2>1. /\ slot' \in [Viewers -> [shape : Shapes \cup {None}, version : Nat, visible : BOOLEAN]]
        /\ window' \in [Viewers -> [shape : Shapes \cup {None}, version : Nat, shown : BOOLEAN,
                                    drawn : Shapes \cup {None}]]
    BY <1>1, <1>5 DEF CursorInv, WindowInv
  <2>2. ASSUME NEW w \in Viewers
        PROVE  /\ (slot'[w].version = 0) = (slot'[w].shape = None)
               /\ window'[w].version <= slot'[w].version
               /\ window'[w].version = slot'[w].version => window'[w].shape = slot'[w].shape
               /\ window'[w].drawn = IF window'[w].shown THEN window'[w].shape ELSE None
    <3>1. (slot'[w].version = 0) = (slot'[w].shape = None) /\ slot[w].version \in Nat
      BY <1>1 DEF CursorInv, WindowInv
    <3>2. CASE w = v
      <4>1. window'[w] = r  BY <1>1, <3>2 DEF CursorInv, WindowInv
      <4> QED  BY <1>1, <1>5, <3>1, <3>2, <4>1
    <3>3. CASE w # v
      <4>1. window'[w] = window[w]  BY <1>1, <3>3 DEF CursorInv, WindowInv
      <4> QED  BY <1>1, <4>1 DEF CursorInv, WindowInv
    <3> QED  BY <3>2, <3>3
  <2> QED  BY <2>1, <2>2 DEF WindowInv
<1> QED  BY <1>2, <1>3, <1>4, <1>6 DEF CursorInv

-----------------------------------------------------------------------------
(* The invariant, and what it says of the windows.                           *)

LEMMA CursorInit == Init => CursorInv
<1> SUFFICES ASSUME Init PROVE CursorInv  OBVIOUS
<1>1. /\ fb = None /\ ring = <<>> /\ lastShape = None /\ readRecently = FALSE
      /\ define = None /\ move = None /\ joined = {} /\ dead = {}
      /\ queue = [v \in Viewers |-> <<>>]
      /\ slot = [v \in Viewers |-> EmptySlot] /\ window = [v \in Viewers |-> EmptyWindow]
      /\ missed = FALSE /\ lost = [v \in Viewers |-> FALSE] /\ updates = 0
  BY DEF Init
<1>2. /\ \A S : <<>> \in Seq(S)
      /\ Len(<<>>) = 0 /\ \A i \in 1..Len(<<>>) : FALSE
  OBVIOUS
<1>3. GuestInv
  <2>1. /\ ring \in Seq(Updates) /\ Len(ring) = 0 /\ Len(ring) <= RingCap
        /\ \A i \in 1..Len(ring) : FALSE
    BY <1>1, CursorAssumption
  <2> QED  BY <1>1, <2>1 DEF GuestInv
<1>4. HubInv  BY <1>1, <1>2 DEF HubInv
<1>5. CountInv  BY <1>1, <1>2 DEF CountInv, Primed, EmptySlot
<1>6. WindowInv  BY <1>1 DEF WindowInv, EmptySlot, EmptyWindow
<1>7. PlaneInv  BY <1>1 DEF PlaneInv
<1>8. ShownInv  BY <1>1, <1>2 DEF ShownInv, Forwarded, PrimedOverlay, Served
<1> QED  BY <1>3, <1>4, <1>5, <1>6, <1>7, <1>8 DEF CursorInv

LEMMA CursorStep == CursorInv /\ [Next]_vars => CursorInv'
<1> SUFFICES ASSUME CursorInv, [Next]_vars PROVE CursorInv'  OBVIOUS
<1>1. CASE UNCHANGED vars
  <2>1. /\ SameHub /\ SameGuest /\ lastShape' = lastShape /\ readRecently' = readRecently
        /\ slot' = slot /\ queue' = queue /\ ring' = ring /\ updates' = updates /\ window' = window
    BY <1>1 DEF vars, SameHub, SameGuest, device, guest, hub, viewer
  <2>2. HubInv' /\ PlaneInv'  BY <2>1, HubSame DEF CursorInv
  <2>3. GuestInv' /\ ShownInv' /\ Primed' = Primed
    <3>1. readRecently' \in BOOLEAN  BY <2>1 DEF CursorInv, GuestInv
    <3> QED  BY <2>1, <3>1, SameCarried, GuestSame DEF CursorInv
  <2>4. CountInv' /\ WindowInv'  BY <2>1, <2>3 DEF CursorInv, CountInv, WindowInv
  <2> QED  BY <2>2, <2>3, <2>4 DEF CursorInv
<1>2. ASSUME NEW new \in Shapes \cup {None}, Commit(new) PROVE CursorInv'  BY <1>2, CommitStep
<1>3. CASE Drain  BY <1>3, DrainStep
<1>4. CASE IntervalElapses  BY <1>4, IntervalStep
<1>5. CASE Reset  BY <1>5, ResetStep
<1>6. ASSUME NEW v \in Viewers, Viewer(v) PROVE CursorInv'
  <2>1. CASE Join(v)  BY <2>1, JoinStep
  <2>2. CASE Leave(v)  BY <2>2, LeaveStep
  <2>3. CASE Shed(v)  BY <2>3, ShedStep
  <2>4. CASE Receive(v)  BY <2>4, ReceiveStep
  <2>5. CASE Draw(v)  BY <2>5, DrawStep
  <2> QED  BY <1>6, <2>1, <2>2, <2>3, <2>4, <2>5 DEF Viewer
<1> QED  BY <1>1, <1>2, <1>3, <1>4, <1>5, <1>6 DEF Next

\* What holds of a viewer that is up to date.
LEMMA UpToDateShows ==
  ASSUME CursorInv, NEW v \in Viewers, UpToDate(v)
  PROVE  /\ Served(v)
         /\ \A s : ShapeTo(v, s) <=> slot[v].shape = s
         /\ VisibleTo(v) = slot[v].visible
         /\ window[v].drawn =
              IF slot[v].visible /\ slot[v].shape # None THEN slot[v].shape ELSE None
<1>1. queue[v] = <<>> /\ Served(v) /\ window[v] = Redrawn(v)  BY DEF UpToDate, Served
<1>2. (\A s : ShapeTo(v, s) <=> slot[v].shape = s) /\ VisibleTo(v) = slot[v].visible
  BY <1>1, EmptyQueue DEF ShapeTo, VisibleTo
<1>3. window[v].drawn = IF slot[v].visible /\ slot[v].shape # None THEN slot[v].shape ELSE None
  BY <1>1, RedrawnFacts DEF CursorInv
<1> QED  BY <1>1, <1>2, <1>3

LEMMA CursorInvType == CursorInv => TypeOK
<1> SUFFICES ASSUME CursorInv PROVE TypeOK  OBVIOUS
<1>1. /\ fb \in Shapes \cup {None} /\ Len(ring) <= RingCap /\ readRecently \in BOOLEAN
      /\ missed \in BOOLEAN /\ dead \subseteq joined /\ joined \subseteq Viewers
  BY DEF CursorInv, GuestInv, HubInv
<1>2. lastShape \in Shapes \cup {None}  BY DEF CursorInv, HubInv
<1>3. ASSUME NEW v \in Viewers
      PROVE  /\ {slot[v].shape, window[v].shape, window[v].drawn} \subseteq Shapes \cup {None}
             /\ (slot[v].version = 0) = (slot[v].shape = None)
             /\ window[v].version <= slot[v].version /\ slot[v].version <= updates
             /\ v \notin joined => queue[v] = <<>>
  <2>1. /\ {slot[v].shape, window[v].shape, window[v].drawn} \subseteq Shapes \cup {None}
        /\ (slot[v].version = 0) = (slot[v].shape = None)
        /\ window[v].version <= slot[v].version /\ slot[v].version \in Nat
    BY DEF CursorInv, WindowInv
  <2>2. Len(queue[v]) \in Nat /\ (v \notin joined => queue[v] = <<>>)  BY DEF CursorInv, HubInv
  <2>3. Len(ring) \in Nat /\ updates \in Nat  BY DEF CursorInv, GuestInv
  <2>4. slot[v].version + Len(queue[v]) + Len(ring) <= updates  BY DEF CursorInv, CountInv
  <2>5. slot[v].version <= updates  BY <2>1, <2>2, <2>3, <2>4
  <2> QED  BY <2>1, <2>2, <2>5
<1> QED  BY <1>1, <1>2, <1>3 DEF TypeOK

LEMMA CursorInvAgrees == CursorInv => OverlayAgrees
<1> SUFFICES ASSUME CursorInv, define # None, NEW v \in Viewers, UpToDate(v)
             PROVE  window[v].drawn = PrimedOverlay
  BY DEF OverlayAgrees
<1>1. slot[v].shape = define.shape /\ slot[v].visible = (move = None \/ move.visible)
  BY UpToDateShows DEF CursorInv, PlaneInv
<1>2. define.shape # None  BY CursorAssumption DEF CursorInv, HubInv
<1>3. window[v].drawn = IF slot[v].visible /\ slot[v].shape # None THEN slot[v].shape ELSE None
  BY UpToDateShows
<1> QED  BY <1>1, <1>2, <1>3 DEF PrimedOverlay

LEMMA CursorInvShown == CursorInv => CursorShown
<1> SUFFICES ASSUME CursorInv, ring = <<>>, ~missed, NEW v \in Viewers, UpToDate(v)
             PROVE  window[v].drawn = fb
  BY DEF CursorShown
<1>1. ~InRing  BY DEF InRing
<1>2. Forwarded  BY <1>1 DEF CursorInv, ShownInv
<1>3. /\ Served(v) /\ (\A s : ShapeTo(v, s) <=> slot[v].shape = s)
      /\ VisibleTo(v) = slot[v].visible
      /\ window[v].drawn =
           IF slot[v].visible /\ slot[v].shape # None THEN slot[v].shape ELSE None
  BY UpToDateShows
<1>4. Shows(v, fb)  BY <1>2, <1>3 DEF Forwarded
<1> QED  BY <1>3, <1>4 DEF Shows

LEMMA CursorInvariant == Spec => []CursorInv
BY CursorInit, CursorStep, PTL DEF Spec

-----------------------------------------------------------------------------

(* What the driver, the device, the hub and the viewers keep of the cursor   *)
(* is what their code takes it for; the device's last shape is one the guest *)
(* has had, and no viewer counts more shapes than the guest committed        *)
(* (CursorState, PlaneCache, CursorSlot).                                    *)
THEOREM CursorTypeCorrect == Spec => []TypeOK
BY CursorInvariant, CursorInvType, PTL

(* Every viewer that has drawn all it was sent shows what one that joins now *)
(* would show (Hub::register's priming against send_plane's broadcasts).     *)
THEOREM OverlaysAgree == Spec => []OverlayAgrees
BY CursorInvariant, CursorInvAgrees, PTL

(* Every viewer that has drawn all it was sent shows the cursor of the       *)
(* guest's plane, or none while it is off, unless the update that said so    *)
(* was dropped (handle_cursor_update, igpu_submit_cursor).                   *)
THEOREM CursorIsShown == Spec => []CursorShown
BY CursorInvariant, CursorInvShown, PTL
=============================================================================
