---------------------------- MODULE PixelHubProofs ----------------------------
(***************************************************************************)
(* Proofs about the fan-out: a client is primed with a keyframe of the     *)
(* session's size, and a viewer's decoder loses its picture right after    *)
(* the join only.                                                          *)
(***************************************************************************)
EXTENDS PixelHub, TLAPS

Video == [kind : {"key", "delta"}, n : 1 .. MaxAus, size : Sizes]
Keyframes == [kind : {"key"}, n : 1 .. MaxAus, size : Sizes]
Queues == [items : Seq(Messages), closed : BOOLEAN, dropping : BOOLEAN]

(***************************************************************************)
(* Types.                                                                  *)
(***************************************************************************)

\* An access unit is a message.
LEMMA AuIsMessage ==
  ASSUME NEW n \in 1 .. MaxAus, NEW key \in BOOLEAN, NEW s \in Sizes
  PROVE  Au(n, key, s) \in Messages /\ Au(n, key, s) \in Video
BY DEF Au, Messages, Video

\* A video message is an access unit.
LEMMA VideoIsAu ==
  ASSUME NEW m \in Messages, IsVideo(m)
  PROVE  m \in Video
BY DEF Messages, Video, IsVideo, Control

LEMMA PushedType ==
  ASSUME NEW q \in Queues, NEW m \in Messages
  PROVE  Pushed(q, m) \in Queues
<1> DEFINE items == Append(q.items, m)
<1>1. items \in Seq(Messages)  BY DEF Queues
<1>2. << >> \in Seq(Messages)  OBVIOUS
<1> HIDE DEF items
<1>3. /\ [q EXCEPT !.items = items, !.dropping = FALSE] \in Queues
      /\ [q EXCEPT !.items = << >>, !.dropping = TRUE] \in Queues
      /\ [q EXCEPT !.items = items] \in Queues
  BY <1>1, <1>2 DEF Queues
<1> QED  BY <1>3 DEF Pushed, items

LEMMA PushedControlType ==
  ASSUME NEW q \in Queues
  PROVE  PushedControl(q, Control) \in Queues
<1>1. Control \in Messages  BY DEF Messages
<1>2. Append(q.items, Control) \in Seq(Messages)  BY <1>1 DEF Queues
<1> QED  BY <1>2 DEF PushedControl, Queues

LEMMA ShutType ==
  ASSUME NEW q \in Queues
  PROVE  Shut(q) \in Queues
<1>1. << >> \in Seq(Messages)  OBVIOUS
<1> QED  BY <1>1 DEF Shut, Queues

LEMMA QueueOfType ==
  ASSUME TypeOK, NEW c \in Clients
  PROVE  QueueOf(c) \in Queues
BY DEF TypeOK, QueueOf, Queues

\* What SetQueues makes of well-formed queues.
LEMMA SetQueuesType ==
  ASSUME NEW To \in [Clients -> Queues], SetQueues(To)
  PROVE  /\ queue' \in [Clients -> Seq(Messages)]
         /\ closed' \in [Clients -> BOOLEAN] /\ dropping' \in [Clients -> BOOLEAN]
         /\ \A c \in Clients : QueueOf(c)' = To[c]
<1>1. \A c \in Clients : To[c] \in Queues  OBVIOUS
<1>2. /\ queue' \in [Clients -> Seq(Messages)]
      /\ closed' \in [Clients -> BOOLEAN] /\ dropping' \in [Clients -> BOOLEAN]
  BY <1>1 DEF SetQueues, Queues
<1>3. ASSUME NEW c \in Clients PROVE QueueOf(c)' = To[c]
  <2>1. To[c] = [items |-> To[c].items, closed |-> To[c].closed, dropping |-> To[c].dropping]
    BY <1>1 DEF Queues
  <2>2. queue'[c] = To[c].items /\ closed'[c] = To[c].closed /\ dropping'[c] = To[c].dropping
    BY DEF SetQueues
  <2> QED  BY <2>1, <2>2 DEF QueueOf
<1> QED  BY <1>2, <1>3

LEMMA FanOutType ==
  ASSUME TypeOK, NEW Pushes \in [Clients -> Queues], FanOut(Pushes)
  PROVE  /\ queue' \in [Clients -> Seq(Messages)]
         /\ closed' \in [Clients -> BOOLEAN] /\ dropping' \in [Clients -> BOOLEAN]
         /\ joined' \subseteq Clients
         /\ \A c \in Clients : QueueOf(c)' = IF c \in Dead THEN Shut(QueueOf(c))
                                  ELSE IF c \in joined THEN Pushes[c] ELSE QueueOf(c)
<1> DEFINE To == [c \in Clients |-> IF c \in Dead THEN Shut(QueueOf(c))
                                    ELSE IF c \in joined THEN Pushes[c] ELSE QueueOf(c)]
<1>1. To \in [Clients -> Queues]  BY QueueOfType, ShutType
<1>2. SetQueues(To)  BY DEF FanOut
<1>3. joined' \subseteq Clients  BY DEF FanOut, TypeOK
<1> HIDE DEF To
<1>4. \A c \in Clients : QueueOf(c)' = To[c]  BY <1>1, <1>2, SetQueuesType
<1>5. \A c \in Clients : To[c] = IF c \in Dead THEN Shut(QueueOf(c))
                                 ELSE IF c \in joined THEN Pushes[c] ELSE QueueOf(c)
  BY DEF To
<1> QED  BY <1>1, <1>2, <1>3, <1>4, <1>5, SetQueuesType

LEMMA PrimedType ==
  ASSUME TypeOK, NEW c \in Clients
  PROVE  Primed(c) \in Queues
<1> DEFINE q == IF lastKey = None THEN QueueOf(c) ELSE Pushed(QueueOf(c), lastKey)
<1>1. q \in Queues
  <2>1. CASE lastKey = None  BY <2>1, QueueOfType
  <2>2. CASE lastKey # None
    <3>1. lastKey \in Messages  BY <2>2 DEF TypeOK, Messages
    <3> QED  BY <2>2, <3>1, QueueOfType, PushedType
  <2> QED  BY <2>1, <2>2
<1> HIDE DEF q
<1> DEFINE shape == IF "define" \in planes THEN PushedControl(q, Control) ELSE q
<1>2. shape \in Queues  BY <1>1, PushedControlType
<1> HIDE DEF shape
<1>3. (IF "move" \in planes THEN PushedControl(shape, Control) ELSE shape) \in Queues
  BY <1>2, PushedControlType
<1> QED  BY <1>3 DEF Primed, q, shape

LEMMA TypeInit ==
  ASSUME Init
  PROVE  TypeOK
<1>1. << >> \in Seq(Messages) /\ 0 \in 0 .. MaxAus  BY HubAssumption DEF HubAssumption
<1>2. /\ queue \in [Clients -> Seq(Messages)] /\ closed \in [Clients -> BOOLEAN]
      /\ dropping \in [Clients -> BOOLEAN] /\ synced \in [Clients -> BOOLEAN]
      /\ thread \in [Clients -> {"none", "registering", "sending", "ended"}]
      /\ lastVideo \in [Clients -> 0 .. MaxAus] /\ primed \in [Clients -> 0 .. MaxAus]
  BY <1>1 DEF Init
<1>3. /\ joined \subseteq Clients /\ planes \subseteq {"define", "move"}
      /\ lastKey \in Keyframes \cup {None} /\ produced \in 0 .. MaxAus
      /\ {failed, requested, fresh, resize} \subseteq BOOLEAN
      /\ encoder \in {"up", "dead", "none", "down", "reset"} /\ {size, nextSize} \subseteq Sizes
      /\ keys \subseteq 1 .. produced
  BY <1>1 DEF Init
<1> QED  BY <1>2, <1>3 DEF TypeOK, Keyframes

LEMMA TypeBroadcast ==
  ASSUME TypeOK, NEW key \in BOOLEAN, Broadcast(key)
  PROVE  TypeOK'
<1> DEFINE au == Au(produced + 1, key, size)
           Pushes == [c \in Clients |-> Pushed(QueueOf(c), au)]
<1>1. produced \in Nat /\ produced' = produced + 1 /\ produced + 1 \in 1 .. MaxAus
  BY HubAssumption DEF TypeOK, Broadcast, HubAssumption
<1>2. au \in Messages
  BY <1>1, AuIsMessage DEF TypeOK
<1>3. Pushes \in [Clients -> Queues]
  BY <1>2, QueueOfType, PushedType
<1>4. FanOut(Pushes) /\ lastKey' = (IF key THEN au ELSE lastKey)
  BY DEF Broadcast
<1> HIDE DEF au, Pushes
<1>5. /\ queue' \in [Clients -> Seq(Messages)] /\ joined' \subseteq Clients
      /\ closed' \in [Clients -> BOOLEAN] /\ dropping' \in [Clients -> BOOLEAN]
  BY <1>3, <1>4, FanOutType
<1>6. lastKey' \in Keyframes \cup {None}
  <2>1. key => au \in Keyframes  BY <1>1 DEF au, Au, Keyframes, TypeOK
  <2> QED  BY <2>1, <1>4 DEF TypeOK, Keyframes
<1>7. /\ keys' \subseteq 1 .. produced' /\ produced' \in 0 .. MaxAus
      /\ lastVideo' \in [Clients -> 0 .. MaxAus] /\ primed' \in [Clients -> 0 .. MaxAus]
  BY <1>1 DEF TypeOK, Broadcast, sent
<1>8. /\ planes' \subseteq {"define", "move"} /\ synced' \in [Clients -> BOOLEAN]
      /\ {failed, requested, fresh, resize}' \subseteq BOOLEAN
      /\ thread' \in [Clients -> {"none", "registering", "sending", "ended"}]
      /\ encoder' \in {"up", "dead", "none", "down", "reset"} /\ {size, nextSize}' \subseteq Sizes
  BY DEF TypeOK, Broadcast, sent
<1> QED  BY <1>5, <1>6, <1>7, <1>8 DEF TypeOK, Keyframes

LEMMA TypeControl ==
  ASSUME TypeOK, NEW op \in {"define", "move"}, BroadcastControl(op)
  PROVE  TypeOK'
<1> DEFINE Pushes == [c \in Clients |-> PushedControl(QueueOf(c), Control)]
<1>1. Pushes \in [Clients -> Queues]  BY QueueOfType, PushedControlType
<1>2. FanOut(Pushes)  BY DEF BroadcastControl
<1> HIDE DEF Pushes
<1>3. /\ queue' \in [Clients -> Seq(Messages)] /\ joined' \subseteq Clients
      /\ closed' \in [Clients -> BOOLEAN] /\ dropping' \in [Clients -> BOOLEAN]
  BY <1>1, <1>2, FanOutType
<1>4. planes' \subseteq {"define", "move"}  BY DEF BroadcastControl, TypeOK
<1>5. UNCHANGED <<lastKey, session, sent, thread, requested, produced, keys, primed>>
  BY DEF BroadcastControl
<1> QED  BY <1>3, <1>4, <1>5 DEF TypeOK, session, sent

LEMMA TypeRegister ==
  ASSUME TypeOK, NEW c \in Clients, Register(c)
  PROVE  TypeOK'
<1> DEFINE To == [d \in Clients |-> IF d = c THEN Primed(c) ELSE QueueOf(d)]
<1>1. To \in [Clients -> Queues]  BY QueueOfType, PrimedType
<1>2. SetQueues(To)  BY DEF Register
<1> HIDE DEF To
<1>3. /\ queue' \in [Clients -> Seq(Messages)]
      /\ closed' \in [Clients -> BOOLEAN] /\ dropping' \in [Clients -> BOOLEAN]
  BY <1>1, <1>2, SetQueuesType
<1>4. lastKey = None \/ lastKey \in Video  BY DEF TypeOK, Keyframes, Video
<1>5. lastKey # None => lastKey.n \in 0 .. MaxAus
  BY <1>4, HubAssumption DEF Video, HubAssumption
<1>6. (IF lastKey = None THEN 0 ELSE lastKey.n) \in 0 .. MaxAus
  BY <1>5, HubAssumption DEF HubAssumption
<1>7. primed' \in [Clients -> 0 .. MaxAus]  BY <1>6 DEF TypeOK, Register
<1>8. joined' \subseteq Clients /\ thread' \in [Clients -> {"none", "registering", "sending", "ended"}]
  BY DEF Register, TypeOK
<1>9. UNCHANGED <<lastKey, planes, session, sent, requested, produced, keys>>  BY DEF Register
<1> QED  BY <1>3, <1>7, <1>8, <1>9 DEF TypeOK, session, sent

LEMMA TypeSend ==
  ASSUME TypeOK, NEW c \in Clients, Send(c)
  PROVE  TypeOK'
<1> DEFINE m == Head(queue[c])
<1>1. queue[c] \in Seq(Messages) /\ queue[c] # << >>  BY DEF TypeOK, Send
<1>2. Tail(queue[c]) \in Seq(Messages) /\ m \in Messages
  <2> DEFINE q == queue[c]
  <2>1. q \in Seq(Messages) /\ q # << >>  BY <1>1
  <2> HIDE DEF q
  <2>2. Tail(q) \in Seq(Messages) /\ Head(q) \in Messages  BY <2>1
  <2> QED  BY <2>2 DEF q
<1>3. queue' \in [Clients -> Seq(Messages)]  BY <1>2 DEF TypeOK, Send
<1>4. IsVideo(m) => m.n \in 0 .. MaxAus
  BY <1>2, VideoIsAu, HubAssumption DEF Video, HubAssumption
<1>5. Decoded(c, m) \in BOOLEAN  BY DEF Decoded
<1>6. lastVideo' \in [Clients -> 0 .. MaxAus] /\ synced' \in [Clients -> BOOLEAN]
  <2>1. CASE IsVideo(m)  BY <2>1, <1>4, <1>5 DEF TypeOK, Send
  <2>2. CASE ~IsVideo(m)  BY <2>2 DEF TypeOK, Send, sent
  <2> QED  BY <2>1, <2>2
<1>7. UNCHANGED <<hub, closed, dropping, session, thread, requested, produced, keys, primed>>
  BY DEF Send
<1> QED  BY <1>3, <1>6, <1>7 DEF TypeOK, hub, session

LEMMA TypeSendFails ==
  ASSUME TypeOK, NEW c \in Clients, SendFails(c)
  PROVE  TypeOK'
<1> DEFINE To == [d \in Clients |-> IF d = c THEN Shut(QueueOf(d)) ELSE QueueOf(d)]
<1>1. To \in [Clients -> Queues]  BY QueueOfType, ShutType
<1>2. SetQueues(To)  BY DEF SendFails
<1> HIDE DEF To
<1>3. /\ queue' \in [Clients -> Seq(Messages)]
      /\ closed' \in [Clients -> BOOLEAN] /\ dropping' \in [Clients -> BOOLEAN]
  BY <1>1, <1>2, SetQueuesType
<1>4. thread' \in [Clients -> {"none", "registering", "sending", "ended"}]
  BY DEF SendFails, TypeOK
<1>5. UNCHANGED <<hub, session, sent, requested, produced, keys, primed>>  BY DEF SendFails
<1> QED  BY <1>3, <1>4, <1>5 DEF TypeOK, hub, session, sent

LEMMA TypeStep ==
  ASSUME TypeOK, [Next]_vars
  PROVE  TypeOK'
<1>1. ASSUME NEW key \in BOOLEAN, Broadcast(key) PROVE TypeOK'
  BY <1>1, TypeBroadcast
<1>2. CASE EncoderDies
  BY <1>2 DEF EncoderDies, TypeOK, hub, queues, sent
<1>3. ASSUME NEW op \in {"define", "move"}, BroadcastControl(op) PROVE TypeOK'
  BY <1>3, TypeControl
<1>4. CASE ResetPlanes
  BY <1>4 DEF ResetPlanes, TypeOK, queues, session, sent
<1>5. ASSUME NEW s \in Sizes, TearDown(s) PROVE TypeOK'
  BY <1>5 DEF TearDown, TypeOK, hub, queues, sent
<1>6. CASE ResetKeyframe
  BY <1>6 DEF ResetKeyframe, TypeOK, queues, sent
<1>7. CASE SpawnSession
  BY <1>7 DEF SpawnSession, TypeOK, hub, queues, sent
<1>8. CASE SpawnFails
  BY <1>8 DEF SpawnFails, TypeOK, hub, queues, sent
<1>9. ASSUME NEW c \in Clients, Register(c) PROVE TypeOK'
  BY <1>9, TypeRegister
<1>10. ASSUME NEW c \in Clients, RequestKeyframe(c) PROVE TypeOK'
  BY <1>10 DEF RequestKeyframe, TypeOK, hub, queues, session, sent
<1>11. ASSUME NEW c \in Clients, Send(c) PROVE TypeOK'
  BY <1>11, TypeSend
<1>12. ASSUME NEW c \in Clients, SendFails(c) PROVE TypeOK'
  BY <1>12, TypeSendFails
<1>13. CASE UNCHANGED vars
  BY <1>13 DEF vars, TypeOK, hub, queues, session, sent
<1> QED
  BY <1>1, <1>2, <1>3, <1>4, <1>5, <1>6, <1>7, <1>8, <1>9, <1>10, <1>11, <1>12, <1>13
     DEF Next, Callback, Viewer

(* Every behaviour of the hub has its state in its types.                    *)
THEOREM HubTypeCorrect == Spec => []TypeOK
<1> QED  BY TypeInit, TypeStep, PTL DEF Spec

-----------------------------------------------------------------------------
(* What joining clients are primed with.                                     *)

\* The cached keyframe has the size of the session that is up; while the session
\* is replaced, of the one that is coming, except that it still has the old one
\* before the reset that a change of size asks for.
PrimerInv ==
  ~failed =>
    /\ encoder # "none"
    /\ encoder = "down" => resize = (nextSize # size)
    /\ lastKey # None =>
         lastKey.size = IF encoder = "reset" THEN nextSize ELSE size

LEMMA PrimerStep ==
  ASSUME TypeOK, PrimerInv, [Next]_vars
  PROVE  PrimerInv'
<1> DEFINE Kept == UNCHANGED <<lastKey, encoder, size, nextSize, resize, failed>>
<1>0. Kept => PrimerInv'  BY DEF PrimerInv
<1>1. ASSUME NEW key \in BOOLEAN, Broadcast(key) PROVE PrimerInv'
  BY <1>1 DEF Broadcast, PrimerInv, Au
<1>2. CASE EncoderDies
  BY <1>2 DEF EncoderDies, PrimerInv, hub
<1>3. ASSUME NEW op \in {"define", "move"}, BroadcastControl(op) PROVE Kept
  BY <1>3 DEF BroadcastControl, session
<1>4. ResetPlanes => Kept
  BY DEF ResetPlanes, session
<1>5. ASSUME NEW s \in Sizes, TearDown(s) PROVE PrimerInv'
  BY <1>5 DEF TearDown, PrimerInv, hub
<1>6. CASE ResetKeyframe
  BY <1>6 DEF ResetKeyframe, PrimerInv
<1>7. CASE SpawnSession
  BY <1>7 DEF SpawnSession, PrimerInv, hub
<1>8. CASE SpawnFails
  BY <1>8 DEF SpawnFails, PrimerInv
<1>9. ASSUME NEW c \in Clients, Register(c) PROVE Kept
  BY <1>9 DEF Register, session
<1>10. ASSUME NEW c \in Clients, RequestKeyframe(c) PROVE Kept
  BY <1>10 DEF RequestKeyframe, hub, session
<1>11. ASSUME NEW c \in Clients, Send(c) PROVE Kept
  BY <1>11 DEF Send, hub, session
<1>12. ASSUME NEW c \in Clients, SendFails(c) PROVE Kept
  BY <1>12 DEF SendFails, hub, session
<1>13. UNCHANGED vars => Kept
  BY DEF vars, hub, session
<1> QED
  BY <1>0, <1>1, <1>2, <1>3, <1>4, <1>5, <1>6, <1>7, <1>8, <1>9, <1>10, <1>11, <1>12, <1>13
     DEF Next, Callback, Viewer

(* A client is never primed with a keyframe of a size that the session does  *)
(* not have: the reset comes between the end of the old drain thread and the *)
(* start of the new one.                                                     *)
THEOREM PrimersFit == Spec => []PrimerFitsSession
<1>1. Init => PrimerInv  BY DEF Init, PrimerInv
<1>2. PrimerInv => PrimerFitsSession  BY DEF PrimerInv, PrimerFitsSession
<1> QED  BY <1>1, <1>2, TypeInit, TypeStep, PrimerStep, PTL DEF Spec

-----------------------------------------------------------------------------
(* What a decoder is sent.  last is the number of the last access unit that  *)
(* the viewer received, p that of the keyframe it was primed with, K the     *)
(* numbers of the keyframes and n the number of access units so far.         *)

\* No keyframe lies behind the primer and up to number n.
InGap(p, K, a, n) == p # 0 /\ a = p /\ K \cap (p + 1 .. n) = {}

\* m can come after number a: it needs nothing, or has it, or the join excuses
\* it, or nothing has been received (then the decoder waits for a keyframe).
Follows(p, K, a, m) == m.kind = "key" \/ m.n = a + 1 \/ a = 0 \/ InGap(p, K, a, m.n)

\* The next access unit can come after number a.
Reaches(p, K, a, n) == a = n \/ a = 0 \/ InGap(p, K, a, n)

\* a is the number of the access unit received before the j-th message.
Before(items, last, a, j) ==
  \/ /\ a = last
     /\ \A k \in 1 .. j - 1 : ~IsVideo(items[k])
  \/ \E i \in 1 .. j - 1 :
       /\ IsVideo(items[i]) /\ a = items[i].n
       /\ \A k \in i + 1 .. j - 1 : ~IsVideo(items[k])

\* A queue's access units are of the past, and each can come after the one before.
InOrder(q, last, p, K, n) ==
  /\ \A i \in 1 .. Len(q.items) : IsVideo(q.items[i]) => q.items[i].n <= n
  /\ \A j \in 1 .. Len(q.items) : \A a \in Nat :
       IsVideo(q.items[j]) /\ Before(q.items, last, a, j) => Follows(p, K, a, q.items[j])
  /\ q.dropping => \A i \in 1 .. Len(q.items) : ~IsVideo(q.items[i])

\* Unless it waits for a keyframe or is closed, the next access unit fits its end.
UpToDate(q, last, p, K, n) ==
  ~q.dropping /\ ~q.closed =>
    \A a \in Nat : Before(q.items, last, a, Len(q.items) + 1) => Reaches(p, K, a, n)

\* A client that has not registered has received nothing.
New(c) ==
  /\ c \notin joined /\ queue[c] = << >> /\ ~closed[c] /\ ~dropping[c]
  /\ lastVideo[c] = 0

DecoderInv ==
  /\ lastKey # None =>
       lastKey.n <= produced /\ keys \cap (lastKey.n + 1 .. produced) = {}
  /\ \A c \in Clients :
       /\ InOrder(QueueOf(c), lastVideo[c], primed[c], keys, produced)
       /\ c \in joined => UpToDate(QueueOf(c), lastVideo[c], primed[c], keys, produced)
       /\ synced[c] => lastVideo[c] # 0
       /\ thread[c] = "none" => New(c)

\* What comes before a message does not depend on what is appended.
LEMMA BeforeAppend ==
  ASSUME NEW items \in Seq(Messages), NEW m \in Messages, NEW last, NEW a,
         NEW j \in 1 .. Len(items) + 1, Before(Append(items, m), last, a, j)
  PROVE  Before(items, last, a, j)
<1>1. \A k \in 1 .. j - 1 : Append(items, m)[k] = items[k]  OBVIOUS
<1> QED  BY <1>1 DEF Before

\* Behind an access unit comes what follows it, ...
LEMMA BeforeEndVideo ==
  ASSUME NEW items \in Seq(Messages), NEW m \in Messages, IsVideo(m), NEW last, NEW a,
         Before(Append(items, m), last, a, Len(items) + 2)
  PROVE  a = m.n
<1> DEFINE e == Len(items) + 1
<1>1. Append(items, m)[e] = m /\ e \in 1 .. e /\ e \in Nat  OBVIOUS
<1>2. (Len(items) + 2) - 1 = e  OBVIOUS
<1>3. ~\A k \in 1 .. e : ~IsVideo(Append(items, m)[k])  BY <1>1
<1>4. PICK i \in 1 .. e : /\ a = Append(items, m)[i].n
                         /\ \A k \in i + 1 .. e : ~IsVideo(Append(items, m)[k])
  BY <1>2, <1>3 DEF Before
<1>5. i = e
  <2>1. e \notin i + 1 .. e  BY <1>1, <1>4
  <2> QED  BY <2>1, <1>1
<1> QED  BY <1>1, <1>4, <1>5

\* ... and behind another message what would have come before it.
LEMMA BeforeEndControl ==
  ASSUME NEW items \in Seq(Messages), NEW m \in Messages, ~IsVideo(m), NEW last, NEW a,
         Before(Append(items, m), last, a, Len(items) + 2)
  PROVE  Before(items, last, a, Len(items) + 1)
<1> DEFINE e == Len(items) + 1
           more == Append(items, m)
<1>1. more[e] = m /\ e \in Nat /\ e - 1 = Len(items) /\ (e + 1) - 1 = e
  OBVIOUS
<1>2. \A k \in 1 .. e - 1 : k \in 1 .. e /\ more[k] = items[k]  OBVIOUS
<1>3. Before(more, last, a, e + 1)
  <2>1. e + 1 = Len(items) + 2  OBVIOUS
  <2> QED  BY <2>1
<1> HIDE DEF more, e
<1>4. CASE a = last /\ \A k \in 1 .. e : ~IsVideo(more[k])
  <2>1. \A k \in 1 .. e - 1 : ~IsVideo(items[k])  BY <1>2, <1>4
  <2>2. Before(items, last, a, e)  BY <2>1, <1>4 DEF Before
  <2> QED  BY <2>2 DEF e
<1>5. ASSUME NEW i \in 1 .. e, IsVideo(more[i]), a = more[i].n,
             \A k \in i + 1 .. e : ~IsVideo(more[k])
      PROVE  Before(items, last, a, e)
  <2>1. i \in 1 .. e - 1  BY <1>1, <1>5
  <2>2. \A k \in i + 1 .. e - 1 : k \in i + 1 .. e /\ k \in 1 .. e - 1  BY <1>1, <2>1
  <2>3. \A k \in i + 1 .. e - 1 : ~IsVideo(items[k])  BY <2>2, <1>2, <1>5
  <2>4. IsVideo(items[i]) /\ a = items[i].n  BY <2>1, <1>2, <1>5
  <2> QED  BY <2>1, <2>3, <2>4 DEF Before
<1>6. Before(items, last, a, e)  BY <1>1, <1>3, <1>4, <1>5 DEF Before, e
<1> QED  BY <1>6 DEF e

\* The message at the head becomes the last received.
LEMMA BeforeTail ==
  ASSUME NEW items \in Seq(Messages), items # << >>, NEW last, NEW a,
         NEW j \in 1 .. Len(items),
         Before(Tail(items), IF IsVideo(Head(items)) THEN Head(items).n ELSE last, a, j)
  PROVE  Before(items, last, a, j + 1)
<1>1. \A k \in 1 .. Len(items) - 1 : Tail(items)[k] = items[k + 1]  OBVIOUS
<1>2. Head(items) = items[1] /\ Len(items) \in Nat  OBVIOUS
<1>3. ASSUME \A k \in 1 .. j - 1 : ~IsVideo(Tail(items)[k])
      PROVE  \A k \in 2 .. j : ~IsVideo(items[k])
  <2>1. TAKE k \in 2 .. j
  <2>2. k - 1 \in 1 .. j - 1 /\ k - 1 \in 1 .. Len(items) - 1 /\ (k - 1) + 1 = k  OBVIOUS
  <2> QED  BY <2>2, <1>1, <1>3
<1>4. CASE a = (IF IsVideo(Head(items)) THEN Head(items).n ELSE last)
           /\ \A k \in 1 .. j - 1 : ~IsVideo(Tail(items)[k])
  <2>1. CASE IsVideo(items[1])
    <3>1. 1 \in 1 .. (j + 1) - 1 /\ 1 + 1 .. (j + 1) - 1 = 2 .. j  OBVIOUS
    <3>2. a = items[1].n  BY <2>1, <1>2, <1>4
    <3>3. \A k \in 2 .. j : ~IsVideo(items[k])  BY <1>3, <1>4
    <3> QED  BY <2>1, <3>1, <3>2, <3>3 DEF Before
  <2>2. CASE ~IsVideo(items[1])
    <3>1. \A k \in 1 .. (j + 1) - 1 : k = 1 \/ k \in 2 .. j  OBVIOUS
    <3>2. \A k \in 2 .. j : ~IsVideo(items[k])  BY <1>3, <1>4
    <3>3. \A k \in 1 .. (j + 1) - 1 : ~IsVideo(items[k])  BY <2>2, <3>1, <3>2
    <3>4. a = last  BY <2>2, <1>2, <1>4
    <3> QED  BY <3>3, <3>4 DEF Before
  <2> QED  BY <2>1, <2>2
<1>5. ASSUME NEW i \in 1 .. j - 1, IsVideo(Tail(items)[i]), a = Tail(items)[i].n,
             \A k \in i + 1 .. j - 1 : ~IsVideo(Tail(items)[k])
      PROVE  Before(items, last, a, j + 1)
  <2>1. i + 1 \in 1 .. (j + 1) - 1 /\ i \in 1 .. Len(items) - 1  OBVIOUS
  <2>2. IsVideo(items[i + 1]) /\ a = items[i + 1].n  BY <1>1, <1>5, <2>1
  <2>3. \A k \in (i + 1) + 1 .. (j + 1) - 1 :
          k - 1 \in i + 1 .. j - 1 /\ k - 1 \in 1 .. Len(items) - 1 /\ (k - 1) + 1 = k
    OBVIOUS
  <2>4. \A k \in (i + 1) + 1 .. (j + 1) - 1 : ~IsVideo(items[k])  BY <1>1, <1>5, <2>3
  <2> QED  BY <2>1, <2>2, <2>4 DEF Before
<1> QED  BY <1>4, <1>5 DEF Before

\* A later access unit does not put an older queue out of order.
LEMMA OrderStays ==
  ASSUME NEW q \in Queues, NEW last, NEW p \in Nat, NEW n \in Nat, NEW K, NEW L,
         InOrder(q, last, p, K, n), L \in {K, K \cup {n + 1}}
  PROVE  InOrder(q, last, p, L, n + 1)
<1>1. q.items \in Seq(Messages)  BY DEF Queues
<1>2. ASSUME NEW i \in 1 .. Len(q.items), IsVideo(q.items[i])
      PROVE  q.items[i].n \in Nat /\ q.items[i].n <= n
  <2>1. q.items[i] \in Messages  BY <1>1
  <2>2. q.items[i] \in Video  BY <2>1, <1>2, VideoIsAu
  <2> QED  BY <2>2, <1>2 DEF Video, InOrder
<1>3. ASSUME NEW x \in Nat, x <= n PROVE L \cap (p + 1 .. x) = K \cap (p + 1 .. x)
  BY <1>3
<1>4. ASSUME NEW j \in 1 .. Len(q.items), NEW a \in Nat,
             IsVideo(q.items[j]), Before(q.items, last, a, j)
      PROVE  Follows(p, L, a, q.items[j])
  <2>1. Follows(p, K, a, q.items[j])  BY <1>4 DEF InOrder
  <2>2. L \cap (p + 1 .. q.items[j].n) = K \cap (p + 1 .. q.items[j].n)
    BY <1>2, <1>3, <1>4
  <2> QED  BY <2>1, <2>2 DEF Follows, InGap
<1>5. \A i \in 1 .. Len(q.items) : IsVideo(q.items[i]) => q.items[i].n <= n + 1
  BY <1>2
<1>6. q.dropping => \A i \in 1 .. Len(q.items) : ~IsVideo(q.items[i])
  BY DEF InOrder
<1> QED  BY <1>4, <1>5, <1>6 DEF InOrder

\* A queue that is appended to: the messages that it had are still in order.
LEMMA OrderAppend ==
  ASSUME NEW q \in Queues, NEW r \in Queues, NEW m \in Messages,
         NEW last, NEW p, NEW K, NEW n \in Nat,
         InOrder(q, last, p, K, n), r.items = Append(q.items, m),
         IsVideo(m) => m.n <= n,
         \A a \in Nat : IsVideo(m) /\ Before(q.items, last, a, Len(q.items) + 1)
                          => Follows(p, K, a, m),
         r.dropping => q.dropping /\ ~IsVideo(m)
  PROVE  InOrder(r, last, p, K, n)
<1> DEFINE e == Len(q.items) + 1
<1>1. q.items \in Seq(Messages)  BY DEF Queues
<1>2. /\ Len(r.items) = e /\ r.items[e] = m /\ e \in Nat
      /\ \A i \in 1 .. Len(q.items) : r.items[i] = q.items[i]
      /\ \A i \in 1 .. e : i \in 1 .. Len(q.items) \/ i = e
  BY <1>1
<1>3. \A i \in 1 .. e : IsVideo(r.items[i]) => r.items[i].n <= n
  BY <1>2 DEF InOrder
<1>4. ASSUME NEW j \in 1 .. e, NEW a \in Nat, IsVideo(r.items[j]), Before(r.items, last, a, j)
      PROVE  Follows(p, K, a, r.items[j])
  <2>1. Before(q.items, last, a, j)  BY <1>1, <1>4, BeforeAppend
  <2>2. CASE j = e  BY <2>1, <2>2, <1>2, <1>4
  <2>3. CASE j \in 1 .. Len(q.items)  BY <2>1, <2>3, <1>2, <1>4 DEF InOrder
  <2> QED  BY <2>2, <2>3, <1>2
<1>5. r.dropping => \A i \in 1 .. e : ~IsVideo(r.items[i])
  BY <1>2 DEF InOrder
<1> QED  BY <1>2, <1>3, <1>4, <1>5 DEF InOrder

\* An empty queue is in order.
LEMMA OrderEmpty ==
  ASSUME NEW q, q.items = << >>, NEW last, NEW p, NEW K, NEW n
  PROVE  InOrder(q, last, p, K, n)
<1>1. Len(q.items) = 0  OBVIOUS
<1> QED  BY <1>1 DEF InOrder

\* The next access unit, at a queue that is up to date.
LEMMA PushVideo ==
  ASSUME NEW q \in Queues, NEW last, NEW p \in Nat, NEW n \in Nat, NEW K, NEW key \in BOOLEAN,
         NEW s \in Sizes, n < MaxAus, K \subseteq 1 .. n,
         InOrder(q, last, p, K, n), UpToDate(q, last, p, K, n)
  PROVE  LET m == Au(n + 1, key, s)
             L == IF key THEN K \cup {n + 1} ELSE K
         IN  /\ InOrder(Pushed(q, m), last, p, L, n + 1)
             /\ UpToDate(Pushed(q, m), last, p, L, n + 1)
<1> DEFINE m == Au(n + 1, key, s)
           L == IF key THEN K \cup {n + 1} ELSE K
           r == Pushed(q, m)
           items == Append(q.items, m)
<1>1. m \in Messages /\ IsVideo(m) /\ m.n = n + 1 /\ (m.kind = "key" <=> key)
  <2>1. n + 1 \in 1 .. MaxAus  BY HubAssumption DEF HubAssumption
  <2> QED  BY <2>1, AuIsMessage DEF Au, IsVideo
<1>2. r \in Queues  BY <1>1, PushedType
<1>3. InOrder(q, last, p, L, n + 1)  BY OrderStays
<1>4. q.items \in Seq(Messages) /\ q.closed \in BOOLEAN /\ q.dropping \in BOOLEAN  BY DEF Queues
<1>5. CASE q.closed \/ (q.dropping /\ ~key)
  <2>1. r = q  BY <1>1, <1>5 DEF Pushed
  <2> QED  BY <2>1, <1>3, <1>5 DEF UpToDate
<1>6. CASE ~q.closed /\ ~q.dropping /\ Len(items) > QueueCap
  <2>1. r.items = << >> /\ r.dropping  BY <1>4, <1>6 DEF Pushed, Queues
  <2> QED  BY <2>1, OrderEmpty DEF UpToDate
<1>7. CASE ~q.closed /\ (IF q.dropping THEN key ELSE ~(Len(items) > QueueCap))
  <2>1. r.items = items /\ ~r.dropping  BY <1>1, <1>4, <1>7 DEF Pushed, Queues
  <2> HIDE DEF m, L, r, items
  <2>2. ASSUME NEW a \in Nat, Before(q.items, last, a, Len(q.items) + 1)
        PROVE  Follows(p, L, a, m)
    <3>1. CASE key  BY <3>1, <1>1 DEF Follows
    <3>2. CASE ~key
      <4>1. Reaches(p, K, a, n)  BY <3>2, <1>7, <2>2 DEF UpToDate
      <4>2. L = K /\ n + 1 \notin K /\ \A x \in p + 1 .. n + 1 : x = n + 1 \/ x \in p + 1 .. n
        BY <3>2 DEF L
      <4>3. K \cap (p + 1 .. n) = {} => K \cap (p + 1 .. n + 1) = {}  BY <4>2
      <4> QED  BY <4>1, <4>2, <4>3, <1>1 DEF Reaches, Follows, InGap
    <3> QED  BY <3>1, <3>2
  <2>3. InOrder(r, last, p, L, n + 1)
    <3>1. n + 1 \in Nat /\ m.n <= n + 1  BY <1>1
    <3> QED  BY <1>1, <1>2, <1>3, <2>1, <2>2, <3>1, OrderAppend DEF items
  <2>4. ASSUME NEW a \in Nat, Before(r.items, last, a, Len(r.items) + 1)
        PROVE  Reaches(p, L, a, n + 1)
    <3>1. Len(r.items) + 1 = Len(q.items) + 2  BY <1>4, <2>1, <1>1 DEF items
    <3>2. a = m.n  BY <3>1, <2>4, <2>1, <1>1, <1>4, BeforeEndVideo DEF items
    <3> QED  BY <3>2, <1>1 DEF Reaches
  <2> QED  BY <2>3, <2>4 DEF UpToDate, r, m, L
<1> QED
  <2>1. Len(items) \in Nat /\ QueueCap \in Nat  BY <1>1, <1>4, HubAssumption DEF HubAssumption
  <2> QED  BY <1>5, <1>6, <1>7, <2>1, <1>4

\* A control message, which is pushed past the gate and the bound.
LEMMA PushControl ==
  ASSUME NEW q \in Queues, NEW last, NEW p, NEW n \in Nat, NEW K,
         InOrder(q, last, p, K, n), UpToDate(q, last, p, K, n)
  PROVE  LET r == PushedControl(q, Control)
         IN  InOrder(r, last, p, K, n) /\ UpToDate(r, last, p, K, n)
<1> DEFINE r == PushedControl(q, Control)
<1>1. Control \in Messages /\ ~IsVideo(Control)  BY DEF Messages, Control, IsVideo
<1>2. q.items \in Seq(Messages) /\ q.closed \in BOOLEAN /\ q.dropping \in BOOLEAN  BY DEF Queues
<1>3. r \in Queues  BY PushedControlType
<1>4. CASE q.closed  BY <1>4 DEF PushedControl
<1>5. CASE ~q.closed
  <2>1. r.items = Append(q.items, Control) /\ r.dropping = q.dropping /\ r.closed = q.closed
    BY <1>5 DEF PushedControl, Queues
  <2> HIDE DEF r
  <2>2. InOrder(r, last, p, K, n)  BY <1>1, <1>3, <2>1, OrderAppend
  <2>3. ASSUME NEW a \in Nat, Before(r.items, last, a, Len(r.items) + 1)
        PROVE  Before(q.items, last, a, Len(q.items) + 1)
    <3>1. Len(r.items) + 1 = Len(q.items) + 2  BY <1>1, <1>2, <2>1
    <3> QED  BY <3>1, <2>3, <2>1, <1>1, <1>2, BeforeEndControl
  <2> QED  BY <2>1, <2>2, <2>3 DEF UpToDate, r
<1> QED  BY <1>2, <1>4, <1>5

\* A closed queue.
LEMMA ShutOrder ==
  ASSUME NEW q \in Queues, NEW last, NEW p, NEW n, NEW K
  PROVE  InOrder(Shut(q), last, p, K, n) /\ UpToDate(Shut(q), last, p, K, n)
<1>1. Shut(q).items = << >> /\ Shut(q).closed  BY DEF Shut, Queues
<1> QED  BY <1>1, OrderEmpty DEF UpToDate

\* The viewer takes the head of its queue.
LEMMA TakeHead ==
  ASSUME NEW q \in Queues, q.items # << >>, NEW r, r.items = Tail(q.items),
         r.closed = q.closed, r.dropping = q.dropping,
         NEW last, NEW p, NEW n, NEW K,
         InOrder(q, last, p, K, n)
  PROVE  LET now == IF IsVideo(Head(q.items)) THEN Head(q.items).n ELSE last
         IN  /\ InOrder(r, now, p, K, n)
             /\ UpToDate(q, last, p, K, n) => UpToDate(r, now, p, K, n)
<1> DEFINE now == IF IsVideo(Head(q.items)) THEN Head(q.items).n ELSE last
<1>1. q.items \in Seq(Messages) /\ q.items # << >>  BY DEF Queues
<1>2. /\ Len(r.items) = Len(q.items) - 1 /\ Len(q.items) \in Nat \ {0}
      /\ \A i \in 1 .. Len(r.items) :
           i + 1 \in 1 .. Len(q.items) /\ i \in 1 .. Len(q.items) /\ r.items[i] = q.items[i + 1]
  BY <1>1
<1>3. ASSUME NEW j \in 1 .. Len(q.items), NEW a, Before(r.items, now, a, j)
      PROVE  Before(q.items, last, a, j + 1)
  BY <1>1, <1>3, BeforeTail
<1> HIDE DEF now
<1>4. ASSUME NEW j \in 1 .. Len(r.items), NEW a \in Nat,
             IsVideo(r.items[j]), Before(r.items, now, a, j)
      PROVE  Follows(p, K, a, r.items[j])
  BY <1>2, <1>3, <1>4 DEF InOrder
<1>5. \A i \in 1 .. Len(r.items) : IsVideo(r.items[i]) => r.items[i].n <= n
  BY <1>2 DEF InOrder
<1>6. r.dropping => \A i \in 1 .. Len(r.items) : ~IsVideo(r.items[i])
  BY <1>2 DEF InOrder
<1>7. InOrder(r, now, p, K, n)  BY <1>4, <1>5, <1>6 DEF InOrder
<1>8. ASSUME UpToDate(q, last, p, K, n) PROVE UpToDate(r, now, p, K, n)
  <2>1. Len(q.items) \in 1 .. Len(q.items) /\ Len(r.items) + 1 = Len(q.items)  BY <1>2
  <2>2. \A a \in Nat : Before(r.items, now, a, Len(q.items)) => Before(q.items, last, a, Len(q.items) + 1)
    BY <2>1, <1>3
  <2> QED  BY <2>1, <2>2, <1>8 DEF UpToDate
<1> QED  BY <1>7, <1>8 DEF now

\* A client that registers: primed with the cached keyframe, or with nothing.
LEMMA PrimedOrder ==
  ASSUME TypeOK, DecoderInv, NEW c \in Clients, New(c)
  PROVE  LET k == IF lastKey = None THEN 0 ELSE lastKey.n
         IN  /\ InOrder(Primed(c), 0, k, keys, produced)
             /\ UpToDate(Primed(c), 0, k, keys, produced)
<1> DEFINE k == IF lastKey = None THEN 0 ELSE lastKey.n
           q == IF lastKey = None THEN QueueOf(c) ELSE Pushed(QueueOf(c), lastKey)
           Fits(r) == InOrder(r, 0, k, keys, produced) /\ UpToDate(r, 0, k, keys, produced)
<1>1. QueueOf(c) = [items |-> << >>, closed |-> FALSE, dropping |-> FALSE] /\ QueueOf(c) \in Queues
  BY QueueOfType DEF TypeOK, New, QueueOf
<1>2. produced \in Nat /\ QueueCap \in Nat \ {0}  BY HubAssumption DEF TypeOK, HubAssumption
<1>3. q \in Queues /\ Fits(q)
  <2>1. CASE lastKey = None
    <3>1. q = QueueOf(c) /\ q.items = << >> /\ k = 0  BY <2>1, <1>1
    <3>2. InOrder(q, 0, k, keys, produced)  BY <3>1, OrderEmpty
    <3>3. \A a : Before(<< >>, 0, a, Len(<< >>) + 1) => a = 0  BY DEF Before
    <3>4. UpToDate(q, 0, k, keys, produced)  BY <3>1, <3>3 DEF UpToDate, Reaches
    <3> QED  BY <3>1, <3>2, <3>4, <1>1
  <2>2. CASE lastKey # None
    <3>1. lastKey \in Keyframes /\ lastKey \in Messages /\ IsVideo(lastKey) /\ lastKey.kind = "key"
      BY <2>2 DEF TypeOK, Keyframes, Messages, IsVideo
    <3>2. k = lastKey.n /\ k \in Nat /\ k # 0 /\ k <= produced
          /\ keys \cap (k + 1 .. produced) = {}
      BY <2>2, <3>1 DEF Keyframes, DecoderInv
    <3>3. Append(<< >>, lastKey) = << lastKey >> /\ Len(<< lastKey >>) = 1  BY <3>1
    <3>4. q = [QueueOf(c) EXCEPT !.items = << lastKey >>]
      <4>1. ~(1 > QueueCap)  BY <1>2
      <4>2. QueueOf(c).items = << >> /\ ~QueueOf(c).closed /\ ~QueueOf(c).dropping  BY <1>1
      <4> QED  BY <2>2, <3>3, <4>1, <4>2 DEF Pushed
    <3>5. q \in Queues  BY <2>2, <1>1, <3>1, PushedType
    <3>6. q.items = << lastKey >> /\ ~q.dropping /\ Len(q.items) = 1 /\ q.items[1] = lastKey
      <4>1. ~QueueOf(c).dropping  BY <1>1
      <4> QED  BY <1>1, <3>3, <3>4, <4>1 DEF Queues
    <3> HIDE DEF q, k
    <3>7. InOrder(q, 0, k, keys, produced)  BY <3>1, <3>2, <3>6 DEF InOrder, Follows
    <3>8. ASSUME NEW a \in Nat, Before(q.items, 0, a, Len(q.items) + 1) PROVE a = k
      <4>1. 1 \in 1 .. (Len(q.items) + 1) - 1  BY <3>6
      <4>2. \A i \in 1 .. (Len(q.items) + 1) - 1 : i = 1  BY <3>6
      <4> QED  BY <4>1, <4>2, <3>1, <3>2, <3>6, <3>8 DEF Before
    <3>9. UpToDate(q, 0, k, keys, produced)  BY <3>2, <3>8 DEF UpToDate, Reaches, InGap
    <3> QED  BY <3>5, <3>7, <3>9
  <2> QED  BY <2>1, <2>2
<1> DEFINE shape == IF "define" \in planes THEN PushedControl(q, Control) ELSE q
<1> HIDE DEF q, k
<1>4. ASSUME NEW r \in Queues, Fits(r)
      PROVE  PushedControl(r, Control) \in Queues /\ Fits(PushedControl(r, Control))
  BY <1>2, <1>4, PushedControlType, PushControl
<1> HIDE DEF Fits
<1>5. shape \in Queues /\ Fits(shape)  BY <1>3, <1>4
<1> HIDE DEF shape
<1>6. Fits(IF "move" \in planes THEN PushedControl(shape, Control) ELSE shape)
  BY <1>4, <1>5
<1>7. Fits(Primed(c))  BY <1>6 DEF Primed, shape, q
<1> QED  BY <1>7 DEF Fits, k

-----------------------------------------------------------------------------
(* The steps.                                                                *)

\* What a step that produces no access unit leaves of a client that it does not touch.
LEMMA Untouched ==
  ASSUME DecoderInv, NEW c \in Clients, UNCHANGED <<keys, produced>>,
         QueueOf(c)' = QueueOf(c), lastVideo'[c] = lastVideo[c], primed'[c] = primed[c],
         synced'[c] = synced[c], c \in joined' => c \in joined,
         thread'[c] = "none" => thread[c] = "none"
  PROVE  /\ InOrder(QueueOf(c), lastVideo[c], primed[c], keys, produced)'
         /\ (c \in joined => UpToDate(QueueOf(c), lastVideo[c], primed[c], keys, produced))'
         /\ (synced[c] => lastVideo[c] # 0)'
         /\ (thread[c] = "none" => New(c))'
<1>1. InOrder(QueueOf(c)', lastVideo'[c], primed'[c], keys', produced')  BY DEF DecoderInv
<1>2. c \in joined' => UpToDate(QueueOf(c)', lastVideo'[c], primed'[c], keys', produced')
  BY DEF DecoderInv
<1>3. (synced[c] => lastVideo[c] # 0)'  BY DEF DecoderInv
<1>4. thread'[c] = "none" => New(c)'
  <2>1. queue'[c] = queue[c] /\ closed'[c] = closed[c] /\ dropping'[c] = dropping[c]
    BY DEF QueueOf
  <2> QED  BY <2>1 DEF DecoderInv, New
<1> QED  BY <1>1, <1>2, <1>3, <1>4

LEMMA DecoderInit ==
  ASSUME Init
  PROVE  DecoderInv
<1>1. lastKey = None  BY DEF Init
<1>2. ASSUME NEW c \in Clients
      PROVE  /\ InOrder(QueueOf(c), lastVideo[c], primed[c], keys, produced)
             /\ c \notin joined /\ ~synced[c] /\ New(c)
  <2>1. QueueOf(c).items = << >>  BY DEF Init, QueueOf
  <2>2. c \notin joined /\ ~synced[c] /\ New(c)  BY DEF Init, New
  <2> QED  BY <2>1, <2>2, OrderEmpty
<1> QED  BY <1>1, <1>2 DEF DecoderInv

LEMMA DecoderBroadcast ==
  ASSUME TypeOK, DecoderInv, NEW key \in BOOLEAN, Broadcast(key)
  PROVE  DecoderInv'
<1> DEFINE m == Au(produced + 1, key, size)
           Pushes == [c \in Clients |-> Pushed(QueueOf(c), m)]
<1>1. /\ produced \in Nat /\ produced < MaxAus /\ produced' = produced + 1
      /\ size \in Sizes /\ keys \subseteq 1 .. produced
      /\ keys' = IF key THEN keys \cup {produced + 1} ELSE keys
  BY HubAssumption DEF TypeOK, Broadcast, HubAssumption
<1>2. FanOut(Pushes) /\ lastKey' = (IF key THEN m ELSE lastKey)
      /\ UNCHANGED <<thread, lastVideo, synced, primed>>
  BY DEF Broadcast, sent
<1>3. m \in Messages
  <2>1. produced + 1 \in 1 .. MaxAus  BY <1>1, HubAssumption DEF HubAssumption
  <2> QED  BY <1>1, <2>1, AuIsMessage
<1>4. Pushes \in [Clients -> Queues]  BY <1>3, QueueOfType, PushedType
<1>5. \A c \in Clients : QueueOf(c)' = IF c \in Dead THEN Shut(QueueOf(c))
                                  ELSE IF c \in joined THEN Pushed(QueueOf(c), m) ELSE QueueOf(c)
  <2> HIDE DEF m
  <2>1. \A c \in Clients : Pushes[c] = Pushed(QueueOf(c), m)  OBVIOUS
  <2> HIDE DEF Pushes
  <2> QED  BY <1>2, <1>4, <2>1, FanOutType
<1>6. joined' = joined \ Dead  BY <1>2 DEF FanOut
<1>7. lastKey' # None => /\ lastKey'.n <= produced'
                         /\ keys' \cap (lastKey'.n + 1 .. produced') = {}
  <2>1. CASE key
    <3>1. lastKey'.n = produced + 1  BY <1>2, <2>1 DEF Au
    <3> QED  BY <1>1, <3>1
  <2>2. CASE ~key
    <3>1. lastKey' = lastKey /\ keys' = keys  BY <1>1, <1>2, <2>2
    <3>2. lastKey # None => lastKey.n \in Nat  BY DEF TypeOK, Keyframes
    <3>3. lastKey # None => lastKey.n <= produced /\ keys \cap (lastKey.n + 1 .. produced) = {}
      BY DEF DecoderInv
    <3>4. \A x \in keys : x # produced + 1  BY <1>1
    <3> QED  BY <1>1, <3>1, <3>2, <3>3, <3>4
  <2> QED  BY <2>1, <2>2
<1>8. ASSUME NEW c \in Clients
      PROVE  /\ InOrder(QueueOf(c)', lastVideo'[c], primed'[c], keys', produced')
             /\ c \in joined' => UpToDate(QueueOf(c)', lastVideo'[c], primed'[c], keys', produced')
             /\ (synced[c] => lastVideo[c] # 0)'
             /\ (thread[c] = "none" => New(c))'
  <2>1. QueueOf(c) \in Queues /\ primed[c] \in Nat  BY QueueOfType DEF TypeOK
  <2>2. InOrder(QueueOf(c), lastVideo[c], primed[c], keys, produced)  BY DEF DecoderInv
  <2>3. (synced[c] => lastVideo[c] # 0)'  BY <1>2 DEF DecoderInv
  <2>4. CASE c \in Dead
    <3>1. InOrder(QueueOf(c)', lastVideo[c], primed[c], keys', produced')
      BY <1>5, <2>1, <2>4, ShutOrder
    <3>2. c \notin joined' /\ thread'[c] # "none"  BY <1>2, <1>6, <2>4 DEF Dead
    <3> QED  BY <1>2, <2>3, <3>1, <3>2
  <2>5. CASE c \in joined /\ c \notin Dead
    <3>1. UpToDate(QueueOf(c), lastVideo[c], primed[c], keys, produced)  BY <2>5 DEF DecoderInv
    <3>2. /\ InOrder(Pushed(QueueOf(c), m), lastVideo[c], primed[c], keys', produced')
          /\ UpToDate(Pushed(QueueOf(c), m), lastVideo[c], primed[c], keys', produced')
      BY <1>1, <2>1, <2>2, <3>1, PushVideo
    <3>3. QueueOf(c)' = Pushed(QueueOf(c), m)  BY <1>5, <2>5
    <3>4. thread'[c] # "none"  BY <1>2, <2>5 DEF DecoderInv, New
    <3> QED  BY <1>2, <2>3, <3>2, <3>3, <3>4
  <2>6. CASE c \notin joined
    <3>1. QueueOf(c)' = QueueOf(c) /\ c \notin joined'  BY <1>5, <1>6, <2>6 DEF Dead
    <3>2. InOrder(QueueOf(c), lastVideo[c], primed[c], keys', produced')
      BY <1>1, <2>1, <2>2, OrderStays
    <3>3. queue'[c] = queue[c] /\ closed'[c] = closed[c] /\ dropping'[c] = dropping[c]
      BY <3>1 DEF QueueOf
    <3>4. (thread[c] = "none" => New(c))'  BY <1>2, <3>1, <3>3 DEF DecoderInv, New
    <3> QED  BY <1>2, <2>3, <3>1, <3>2, <3>4
  <2> QED  BY <2>4, <2>5, <2>6
<1> QED  BY <1>7, <1>8 DEF DecoderInv

LEMMA DecoderControl ==
  ASSUME TypeOK, DecoderInv, NEW op, BroadcastControl(op)
  PROVE  DecoderInv'
<1> DEFINE Pushes == [c \in Clients |-> PushedControl(QueueOf(c), Control)]
<1>1. FanOut(Pushes) /\ UNCHANGED <<lastKey, keys, produced, thread, lastVideo, synced, primed>>
  BY DEF BroadcastControl, sent
<1>2. Pushes \in [Clients -> Queues]  BY QueueOfType, PushedControlType
<1>3. \A c \in Clients : Pushes[c] = PushedControl(QueueOf(c), Control)  OBVIOUS
<1> HIDE DEF Pushes
<1>4. \A c \in Clients : QueueOf(c)' = IF c \in Dead THEN Shut(QueueOf(c))
                              ELSE IF c \in joined THEN PushedControl(QueueOf(c), Control)
                              ELSE QueueOf(c)
  BY <1>1, <1>2, <1>3, FanOutType
<1>5. joined' = joined \ Dead  BY <1>1 DEF FanOut
<1>6. ASSUME NEW c \in Clients
      PROVE  /\ InOrder(QueueOf(c)', lastVideo'[c], primed'[c], keys', produced')
             /\ c \in joined' => UpToDate(QueueOf(c)', lastVideo'[c], primed'[c], keys', produced')
             /\ (synced[c] => lastVideo[c] # 0)'
             /\ (thread[c] = "none" => New(c))'
  <2>1. QueueOf(c) \in Queues /\ produced \in Nat  BY QueueOfType DEF TypeOK
  <2>2. InOrder(QueueOf(c), lastVideo[c], primed[c], keys, produced)  BY DEF DecoderInv
  <2>3. (synced[c] => lastVideo[c] # 0)'  BY <1>1 DEF DecoderInv
  <2>4. CASE c \in Dead
    <3>1. InOrder(QueueOf(c)', lastVideo[c], primed[c], keys, produced)
      BY <1>4, <2>1, <2>4, ShutOrder
    <3>2. c \notin joined' /\ thread'[c] # "none"  BY <1>1, <1>5, <2>4 DEF Dead
    <3> QED  BY <1>1, <2>3, <3>1, <3>2
  <2>5. CASE c \in joined /\ c \notin Dead
    <3>1. UpToDate(QueueOf(c), lastVideo[c], primed[c], keys, produced)  BY <2>5 DEF DecoderInv
    <3>2. LET r == PushedControl(QueueOf(c), Control)
          IN  /\ InOrder(r, lastVideo[c], primed[c], keys, produced)
              /\ UpToDate(r, lastVideo[c], primed[c], keys, produced)
      BY <2>1, <2>2, <3>1, PushControl
    <3>3. QueueOf(c)' = PushedControl(QueueOf(c), Control)  BY <1>4, <2>5
    <3>4. thread'[c] # "none"  BY <1>1, <2>5 DEF DecoderInv, New
    <3> QED  BY <1>1, <2>3, <3>2, <3>3, <3>4
  <2>6. CASE c \notin joined
    <3>1. QueueOf(c)' = QueueOf(c) /\ c \notin joined'  BY <1>4, <1>5, <2>6 DEF Dead
    <3> QED  BY <1>1, <3>1, Untouched
  <2> QED  BY <2>4, <2>5, <2>6
<1>7. (lastKey # None => lastKey.n <= produced /\ keys \cap (lastKey.n + 1 .. produced) = {})'
  BY <1>1 DEF DecoderInv
<1> QED  BY <1>6, <1>7 DEF DecoderInv

LEMMA DecoderRegister ==
  ASSUME TypeOK, DecoderInv, NEW c \in Clients, Register(c)
  PROVE  DecoderInv'
<1> DEFINE To == [d \in Clients |-> IF d = c THEN Primed(c) ELSE QueueOf(d)]
           k == IF lastKey = None THEN 0 ELSE lastKey.n
<1>1. /\ SetQueues(To) /\ thread[c] = "none"
      /\ thread' = [thread EXCEPT ![c] = "registering"]
      /\ joined' = joined \cup {c} /\ primed' = [primed EXCEPT ![c] = k]
      /\ UNCHANGED <<lastKey, keys, produced, lastVideo, synced>>
  BY DEF Register, sent
<1>2. To \in [Clients -> Queues]  BY QueueOfType, PrimedType
<1>3. To[c] = Primed(c) /\ \A d \in Clients \ {c} : To[d] = QueueOf(d)  OBVIOUS
<1> HIDE DEF To
<1>4. QueueOf(c)' = Primed(c) /\ \A d \in Clients \ {c} : QueueOf(d)' = QueueOf(d)
  BY <1>1, <1>2, <1>3, SetQueuesType
<1>5. thread'[c] = "registering" /\ primed'[c] = k
      /\ \A d \in Clients \ {c} : thread'[d] = thread[d] /\ primed'[d] = primed[d]
  BY <1>1 DEF TypeOK
<1>6. New(c) /\ lastVideo[c] = 0  BY <1>1 DEF DecoderInv, New
<1>7. /\ InOrder(QueueOf(c)', lastVideo'[c], primed'[c], keys', produced')
      /\ UpToDate(QueueOf(c)', lastVideo'[c], primed'[c], keys', produced')
  <2>1. InOrder(Primed(c), 0, k, keys, produced) /\ UpToDate(Primed(c), 0, k, keys, produced)
    BY <1>6, PrimedOrder
  <2> HIDE DEF k
  <2> QED  BY <1>1, <1>4, <1>5, <1>6, <2>1
<1>8. (synced[c] => lastVideo[c] # 0)' /\ thread'[c] # "none"  BY <1>1, <1>5 DEF DecoderInv
<1>9. ASSUME NEW d \in Clients \ {c}
      PROVE  /\ InOrder(QueueOf(d)', lastVideo'[d], primed'[d], keys', produced')
             /\ d \in joined' => UpToDate(QueueOf(d)', lastVideo'[d], primed'[d], keys', produced')
             /\ (synced[d] => lastVideo[d] # 0)'
             /\ (thread[d] = "none" => New(d))'
  <2>1. d \in joined' => d \in joined  BY <1>1
  <2>2. QueueOf(d)' = QueueOf(d) /\ thread'[d] = thread[d] /\ primed'[d] = primed[d]
    BY <1>4, <1>5
  <2>3. UNCHANGED <<keys, produced>> /\ lastVideo'[d] = lastVideo[d] /\ synced'[d] = synced[d]
    BY <1>1
  <2> QED  BY <2>1, <2>2, <2>3, Untouched
<1>10. (lastKey # None => lastKey.n <= produced /\ keys \cap (lastKey.n + 1 .. produced) = {})'
  BY <1>1 DEF DecoderInv
<1>11. ASSUME NEW d \in Clients
       PROVE  /\ InOrder(QueueOf(d)', lastVideo'[d], primed'[d], keys', produced')
              /\ d \in joined' => UpToDate(QueueOf(d)', lastVideo'[d], primed'[d], keys', produced')
              /\ (synced[d] => lastVideo[d] # 0)'
              /\ (thread[d] = "none" => New(d))'
  BY <1>7, <1>8, <1>9
<1> QED  BY <1>10, <1>11 DEF DecoderInv

LEMMA DecoderSend ==
  ASSUME TypeOK, DecoderInv, NEW c \in Clients, Send(c)
  PROVE  DecoderInv'
<1> DEFINE q == QueueOf(c)
           m == Head(queue[c])
           now == IF IsVideo(m) THEN m.n ELSE lastVideo[c]
<1>1. q \in Queues /\ q.items = queue[c] /\ q.items # << >>
      /\ q.closed = closed[c] /\ q.dropping = dropping[c]
  BY QueueOfType DEF QueueOf, Send
<1>2. /\ queue'[c] = Tail(queue[c]) /\ \A d \in Clients \ {c} : queue'[d] = queue[d]
      /\ thread[c] = "sending"
      /\ UNCHANGED <<joined, lastKey, closed, dropping, thread, produced, keys, primed>>
  BY DEF Send, TypeOK, hub
<1>3. lastVideo'[c] = now /\ \A d \in Clients \ {c} : lastVideo'[d] = lastVideo[d] /\ synced'[d] = synced[d]
  <2> HIDE DEF m
  <2>1. CASE IsVideo(m)
    <3>1. lastVideo' = [lastVideo EXCEPT ![c] = m.n] /\ synced' = [synced EXCEPT ![c] = Decoded(c, m)]
      BY <2>1 DEF Send, m
    <3> QED  BY <2>1, <3>1 DEF TypeOK
  <2>2. CASE ~IsVideo(m)
    <3>1. UNCHANGED <<lastVideo, synced>>  BY <2>2 DEF Send, m, sent
    <3> QED  BY <2>2, <3>1
  <2> QED  BY <2>1, <2>2
<1>4. synced'[c] => lastVideo'[c] # 0
  <2> HIDE DEF m
  <2>1. CASE IsVideo(m)
    <3>1. m \in Messages
      <4>1. queue[c] \in Seq(Messages) /\ queue[c] # << >>  BY <1>1 DEF TypeOK
      <4> DEFINE x == queue[c]
      <4> HIDE DEF x
      <4>2. x \in Seq(Messages) /\ x # << >> => Head(x) \in Messages  OBVIOUS
      <4> QED  BY <4>1, <4>2 DEF m, x
    <3>2. m.n # 0  BY <2>1, <3>1, VideoIsAu DEF Video
    <3> QED  BY <2>1, <3>2, <1>3
  <2>2. CASE ~IsVideo(m)
    <3>1. synced' = synced  BY <2>2 DEF Send, m, sent
    <3> QED  BY <2>2, <3>1, <1>3 DEF DecoderInv
  <2> QED  BY <2>1, <2>2
<1>5. /\ InOrder(QueueOf(c)', lastVideo'[c], primed'[c], keys', produced')
      /\ c \in joined' => UpToDate(QueueOf(c)', lastVideo'[c], primed'[c], keys', produced')
  <2> DEFINE r == QueueOf(c)'
  <2>1. r.items = Tail(q.items) /\ r.closed = q.closed /\ r.dropping = q.dropping
    BY <1>1, <1>2 DEF QueueOf
  <2>2. InOrder(q, lastVideo[c], primed[c], keys, produced)
        /\ (c \in joined => UpToDate(q, lastVideo[c], primed[c], keys, produced))
    BY DEF DecoderInv
  <2>3. now = IF IsVideo(Head(q.items)) THEN Head(q.items).n ELSE lastVideo[c]  BY <1>1
  <2> HIDE DEF r, q, now
  <2>4. InOrder(r, now, primed[c], keys, produced)
        /\ (UpToDate(q, lastVideo[c], primed[c], keys, produced)
             => UpToDate(r, now, primed[c], keys, produced))
    BY <1>1, <2>1, <2>2, <2>3, TakeHead
  <2> QED  BY <1>2, <1>3, <2>2, <2>4 DEF r
<1>6. ASSUME NEW d \in Clients
      PROVE  /\ InOrder(QueueOf(d)', lastVideo'[d], primed'[d], keys', produced')
             /\ d \in joined' => UpToDate(QueueOf(d)', lastVideo'[d], primed'[d], keys', produced')
             /\ (synced[d] => lastVideo[d] # 0)'
             /\ (thread[d] = "none" => New(d))'
  <2>1. CASE d = c  BY <2>1, <1>2, <1>4, <1>5
  <2>2. CASE d # c
    <3>1. QueueOf(d)' = QueueOf(d)  BY <2>2, <1>2 DEF QueueOf
    <3>2. lastVideo'[d] = lastVideo[d] /\ synced'[d] = synced[d]  BY <2>2, <1>3
    <3>3. UNCHANGED <<keys, produced>> /\ primed'[d] = primed[d] /\ joined' = joined
          /\ thread'[d] = thread[d]
      BY <1>2
    <3> QED  BY <3>1, <3>2, <3>3, Untouched
  <2> QED  BY <2>1, <2>2
<1>7. (lastKey # None => lastKey.n <= produced /\ keys \cap (lastKey.n + 1 .. produced) = {})'
  BY <1>2 DEF DecoderInv
<1> QED  BY <1>6, <1>7 DEF DecoderInv

LEMMA DecoderSendFails ==
  ASSUME TypeOK, DecoderInv, NEW c \in Clients, SendFails(c)
  PROVE  DecoderInv'
<1> DEFINE To == [d \in Clients |-> IF d = c THEN Shut(QueueOf(d)) ELSE QueueOf(d)]
<1>1. To \in [Clients -> Queues]  BY QueueOfType, ShutType
<1>2. SetQueues(To) /\ thread' = [thread EXCEPT ![c] = "ended"]
      /\ UNCHANGED <<joined, lastKey, keys, produced, lastVideo, synced, primed>>
  BY DEF SendFails, hub, sent
<1>3. To[c] = Shut(QueueOf(c)) /\ \A d \in Clients \ {c} : To[d] = QueueOf(d)  OBVIOUS
<1> HIDE DEF To
<1>4. QueueOf(c)' = Shut(QueueOf(c)) /\ \A d \in Clients \ {c} : QueueOf(d)' = QueueOf(d)
  BY <1>1, <1>2, <1>3, SetQueuesType
<1>5. thread'[c] # "none" /\ \A d \in Clients \ {c} : thread'[d] = thread[d]
  BY <1>2 DEF TypeOK
<1>6. ASSUME NEW d \in Clients
      PROVE  /\ InOrder(QueueOf(d)', lastVideo'[d], primed'[d], keys', produced')
             /\ d \in joined' => UpToDate(QueueOf(d)', lastVideo'[d], primed'[d], keys', produced')
             /\ (synced[d] => lastVideo[d] # 0)'
             /\ (thread[d] = "none" => New(d))'
  <2>1. CASE d = c
    <3>1. InOrder(QueueOf(c)', lastVideo'[c], primed'[c], keys', produced')
          /\ UpToDate(QueueOf(c)', lastVideo'[c], primed'[c], keys', produced')
      BY <1>4, QueueOfType, ShutOrder
    <3>2. (synced[c] => lastVideo[c] # 0)'  BY <1>2 DEF DecoderInv
    <3> QED  BY <2>1, <3>1, <3>2, <1>5
  <2>2. CASE d # c
    <3>1. QueueOf(d)' = QueueOf(d) /\ thread'[d] = thread[d]  BY <2>2, <1>4, <1>5
    <3>2. /\ UNCHANGED <<keys, produced>> /\ primed'[d] = primed[d] /\ joined' = joined
          /\ lastVideo'[d] = lastVideo[d] /\ synced'[d] = synced[d]
      BY <1>2
    <3> QED  BY <3>1, <3>2, Untouched
  <2> QED  BY <2>1, <2>2
<1>7. (lastKey # None => lastKey.n <= produced /\ keys \cap (lastKey.n + 1 .. produced) = {})'
  BY <1>2 DEF DecoderInv
<1> QED  BY <1>6, <1>7 DEF DecoderInv

\* Steps that leave viewers and queues alone; they can only forget the keyframe.
LEMMA DecoderQuiet ==
  ASSUME DecoderInv, UNCHANGED <<joined, queues, thread, lastVideo, synced, primed, keys, produced>>,
         lastKey' \in {lastKey, None}
  PROVE  DecoderInv'
<1>1. ASSUME NEW c \in Clients
      PROVE  /\ InOrder(QueueOf(c)', lastVideo'[c], primed'[c], keys', produced')
             /\ c \in joined' => UpToDate(QueueOf(c)', lastVideo'[c], primed'[c], keys', produced')
             /\ (synced[c] => lastVideo[c] # 0)'
             /\ (thread[c] = "none" => New(c))'
  <2>1. QueueOf(c)' = QueueOf(c)  BY DEF QueueOf, queues
  <2> QED  BY <2>1, Untouched
<1>2. (lastKey # None => lastKey.n <= produced /\ keys \cap (lastKey.n + 1 .. produced) = {})'
  BY DEF DecoderInv
<1> QED  BY <1>1, <1>2 DEF DecoderInv

LEMMA DecoderRequest ==
  ASSUME TypeOK, DecoderInv, NEW c \in Clients, RequestKeyframe(c)
  PROVE  DecoderInv'
<1>1. /\ thread'[c] # "none" /\ \A d \in Clients \ {c} : thread'[d] = thread[d]
      /\ UNCHANGED <<joined, lastKey, queues, lastVideo, synced, primed, keys, produced>>
  BY DEF RequestKeyframe, TypeOK, hub, sent
<1>2. ASSUME NEW d \in Clients
      PROVE  /\ InOrder(QueueOf(d)', lastVideo'[d], primed'[d], keys', produced')
             /\ d \in joined' => UpToDate(QueueOf(d)', lastVideo'[d], primed'[d], keys', produced')
             /\ (synced[d] => lastVideo[d] # 0)'
             /\ (thread[d] = "none" => New(d))'
  <2>1. QueueOf(d)' = QueueOf(d)  BY <1>1 DEF QueueOf, queues
  <2>2. thread'[d] = "none" => thread[d] = "none"  BY <1>1
  <2> QED  BY <1>1, <2>1, <2>2, Untouched
<1>3. (lastKey # None => lastKey.n <= produced /\ keys \cap (lastKey.n + 1 .. produced) = {})'
  BY <1>1 DEF DecoderInv
<1> QED  BY <1>2, <1>3 DEF DecoderInv

LEMMA DecoderStep ==
  ASSUME TypeOK, DecoderInv, [Next]_vars
  PROVE  DecoderInv'
<1> DEFINE Quiet == /\ UNCHANGED <<joined, queues, thread, lastVideo, synced, primed, keys, produced>>
                    /\ lastKey' \in {lastKey, None}
<1>0. Quiet => DecoderInv'  BY DecoderQuiet
<1>1. ASSUME NEW key \in BOOLEAN, Broadcast(key) PROVE DecoderInv'
  BY <1>1, DecoderBroadcast
<1>2. EncoderDies => Quiet
  BY DEF EncoderDies, hub, sent
<1>3. ASSUME NEW op \in {"define", "move"}, BroadcastControl(op) PROVE DecoderInv'
  BY <1>3, DecoderControl
<1>4. ResetPlanes => Quiet
  BY DEF ResetPlanes, sent
<1>5. ASSUME NEW s \in Sizes, TearDown(s) PROVE Quiet
  BY <1>5 DEF TearDown, hub, sent
<1>6. ResetKeyframe => Quiet
  BY DEF ResetKeyframe, sent
<1>7. SpawnSession => Quiet
  BY DEF SpawnSession, hub, sent
<1>8. SpawnFails => Quiet
  BY DEF SpawnFails, hub, sent
<1>9. ASSUME NEW c \in Clients, Register(c) PROVE DecoderInv'
  BY <1>9, DecoderRegister
<1>10. ASSUME NEW c \in Clients, RequestKeyframe(c) PROVE DecoderInv'
  BY <1>10, DecoderRequest
<1>11. ASSUME NEW c \in Clients, Send(c) PROVE DecoderInv'
  BY <1>11, DecoderSend
<1>12. ASSUME NEW c \in Clients, SendFails(c) PROVE DecoderInv'
  BY <1>12, DecoderSendFails
<1>13. UNCHANGED vars => Quiet
  BY DEF vars, hub, sent
<1> HIDE DEF Quiet
<1> QED
  BY <1>0, <1>1, <1>2, <1>3, <1>4, <1>5, <1>6, <1>7, <1>8, <1>9, <1>10, <1>11, <1>12, <1>13
     DEF Next, Callback, Viewer

-----------------------------------------------------------------------------
\* A decoder loses its picture to an access unit that does not follow the last
\* one, and that only the join excuses.
LEMMA LossIsJoin ==
  ASSUME TypeOK, DecoderInv, NEW c \in Clients, Send(c), SyncLost(c)
  PROVE  JoinGap(c)
<1> DEFINE m == Head(queue[c])
<1>1. queue[c] \in Seq(Messages) /\ queue[c] # << >>  BY DEF TypeOK, Send
<1>2. 1 \in 1 .. Len(queue[c]) /\ m = queue[c][1] /\ m \in Messages
  <2> DEFINE q == queue[c]
  <2> HIDE DEF q
  <2>1. q \in Seq(Messages) /\ q # << >> => 1 \in 1 .. Len(q) /\ Head(q) = q[1] /\ Head(q) \in Messages
    OBVIOUS
  <2> QED  BY <1>1, <2>1 DEF q
<1> HIDE DEF m
<1>3. IsVideo(m)
  <2>1. CASE ~IsVideo(m)
    <3>1. synced' = synced  BY <2>1 DEF Send, m, sent
    <3> QED  BY <3>1 DEF SyncLost
  <2> QED  BY <2>1
<1>4. lastVideo' = [lastVideo EXCEPT ![c] = m.n] /\ synced' = [synced EXCEPT ![c] = Decoded(c, m)]
  BY <1>3 DEF Send, m
<1>5. synced[c] /\ ~Decoded(c, m) /\ lastVideo'[c] = m.n /\ lastVideo[c] \in Nat
  BY <1>4 DEF SyncLost, TypeOK
<1>6. InOrder(QueueOf(c), lastVideo[c], primed[c], keys, produced) /\ lastVideo[c] # 0
  BY <1>5 DEF DecoderInv
<1>7. Before(queue[c], lastVideo[c], lastVideo[c], 1)  BY DEF Before
<1>8. Follows(primed[c], keys, lastVideo[c], m)
  <2>1. QueueOf(c).items = queue[c]  BY DEF QueueOf
  <2> QED  BY <1>2, <1>3, <1>5, <1>6, <1>7, <2>1 DEF InOrder
<1>9. m.n \in Nat /\ m.kind \in {"key", "delta"}  BY <1>2, <1>3, VideoIsAu DEF Video
<1>10. InGap(primed[c], keys, lastVideo[c], m.n)
  BY <1>5, <1>6, <1>8, <1>9 DEF Follows, Decoded
<1> QED  BY <1>5, <1>10 DEF InGap, JoinGap

LEMMA LossStep ==
  ASSUME TypeOK, DecoderInv, [Next]_vars
  PROVE  [\A c \in Clients : SyncLost(c) => JoinGap(c)]_vars
<1> SUFFICES ASSUME NEW c \in Clients, SyncLost(c), Next PROVE JoinGap(c)
  OBVIOUS
<1>1. synced' # synced  BY DEF SyncLost
<1>2. PICK d \in Clients : Send(d)
  BY <1>1 DEF Next, Callback, Viewer, Broadcast, EncoderDies, BroadcastControl, ResetPlanes, TearDown,
     ResetKeyframe, SpawnSession, SpawnFails, Register, RequestKeyframe, SendFails, sent
<1>3. d = c
  <2>1. CASE IsVideo(Head(queue[d]))
    BY <1>2, <2>1 DEF Send, SyncLost, TypeOK
  <2>2. CASE ~IsVideo(Head(queue[d]))
    BY <1>1, <1>2, <2>2 DEF Send, sent
  <2> QED  BY <2>1, <2>2
<1> QED  BY <1>2, <1>3, LossIsJoin

(* Through sheds, respawns and dead encoders, a viewer's decoder never gets  *)
(* an access unit on a picture it does not have, except across the gap       *)
(* behind the keyframe that it was primed with.                              *)
THEOREM SyncKept == Spec => SyncLostOnlyAtJoin
<1>1. TypeOK /\ DecoderInv /\ [Next]_vars => [\A c \in Clients : SyncLost(c) => JoinGap(c)]_vars
  BY LossStep
<1>2. Spec => [](TypeOK /\ DecoderInv)
  BY TypeInit, DecoderInit, TypeStep, DecoderStep, PTL DEF Spec
<1> QED  BY <1>1, <1>2, PTL DEF Spec, SyncLostOnlyAtJoin
=============================================================================
