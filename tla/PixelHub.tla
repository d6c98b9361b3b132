------------------------------ MODULE PixelHub ------------------------------
(***************************************************************************)
(* The fan-out of the infiniPixel stream (crates/infinigpu-pixel): the Hub *)
(* with its one lock over client list, cached keyframe and plane cache,    *)
(* the bounded drop-to-keyframe queue of each viewer, its send thread, the *)
(* stream thread of the viewer at the other end (crates/infinigpu-viewer), *)
(* and the encoder session whose drain thread broadcasts access units      *)
(* while ensure_encoder, on the device's callback thread, tears it down    *)
(* and replaces it.  Registration runs on a thread per connection.  What   *)
(* the plane messages say is in CursorPlane; here they take their room.    *)
(***************************************************************************)
EXTENDS Integers, Sequences, FiniteSets

CONSTANTS
  Clients,      (* viewer connections                                        *)
  QueueCap,     (* max_client_queue()                                        *)
  Sizes,        (* frame sizes the guest may present                         *)
  SpawnMayFail, (* may ffmpeg fail to start, in hardware and in software?    *)
  None,         (* no cached message                                         *)
  MaxAus,       (* bound on the access units of a behaviour                  *)
  MaxPlaneOps,  (* bound on the plane-sideband messages                      *)
  MaxRespawns   (* bound on the encoder's re-creations                       *)

ASSUME HubAssumption ==
  /\ QueueCap \in Nat \ {0} /\ Sizes # {} /\ SpawnMayFail \in BOOLEAN
  /\ MaxAus \in Nat /\ MaxPlaneOps \in Nat /\ MaxRespawns \in Nat

VARIABLES
  joined,       (* HubState::clients                                         *)
  lastKey,      (* HubState::last_keyframe                                   *)
  planes,       (* which messages the PlaneCache of the cursor holds         *)
  queue,        (* ClientQueueInner::items                                   *)
  closed,       (* ClientQueueInner::closed                                  *)
  dropping,     (* ClientQueueInner::dropping                                *)
  thread,       (* a viewer's connection: "none", "sending" or "ended"       *)
  requested,    (* Hub::keyframe_requested                                   *)
  encoder,      (* the session: "up", "dead", or "none" after a failed spawn;*)
                (* inside ensure_encoder: "down", then "reset"               *)
  size,         (* the session's frame size                                  *)
  nextSize,     (* the size ensure_encoder was called with                   *)
  resize,       (* ensure_encoder's size_changed                             *)
  fresh,        (* the session has not produced its first access unit yet    *)
  produced,     (* history: access units broadcast                           *)
  keys,         (* history: which of them were keyframes                     *)
  planeOps,     (* history: plane messages broadcast                         *)
  respawns,     (* history: re-creations                                     *)
  primed,       (* history: the keyframe a client was primed with, 0 if none *)
  lastVideo,    (* the last access unit a viewer received                    *)
  synced,       (* run_stream's synced: the decoder has the last picture     *)
  failed        (* history: has an encoder not started?                      *)

hub == <<joined, lastKey, planes>>
queues == <<queue, closed, dropping>>
session == <<encoder, size, nextSize, resize, fresh, respawns, failed>>
sent == <<lastVideo, synced>>
vars == <<hub, queues, session, sent, thread, requested, produced, keys, planeOps,
          primed>>

(* An access unit is a keyframe or a delta on the one before it.             *)
Au(n, key, s) == [kind |-> IF key THEN "key" ELSE "delta", n |-> n, size |-> s]
Control == [kind |-> "control"]

IsVideo(m) == m.kind \in {"key", "delta"}

Init ==
  /\ joined = {} /\ lastKey = None /\ planes = {}
  /\ queue = [c \in Clients |-> << >>] /\ closed = [c \in Clients |-> FALSE]
  /\ dropping = [c \in Clients |-> FALSE]
  /\ thread = [c \in Clients |-> "none"]
  /\ requested = FALSE
  /\ encoder = "up" /\ size \in Sizes /\ nextSize = size /\ resize = FALSE
  /\ fresh = TRUE
  /\ produced = 0 /\ keys = {} /\ planeOps = 0 /\ respawns = 0
  /\ primed = [c \in Clients |-> 0] /\ lastVideo = [c \in Clients |-> 0]
  /\ synced = [c \in Clients |-> FALSE] /\ failed = FALSE

-----------------------------------------------------------------------------
(* A client's queue, as a record of its three fields.                        *)

QueueOf(c) == [items |-> queue[c], closed |-> closed[c], dropping |-> dropping[c]]

\* A bug: the shed forgets that the deltas behind it refer to what it dropped.
Pushed_NoGate(q, m) ==
  LET items == Append(q.items, m)
  IN  IF q.closed THEN q
      ELSE IF Len(items) > QueueCap THEN [q EXCEPT !.items = << >>]
      ELSE [q EXCEPT !.items = items]

\* ClientQueue::push: an overflow clears the whole queue; only a keyframe re-admits.
Pushed(q, m) ==
  LET items == Append(q.items, m)
  IN  IF q.closed \/ (q.dropping /\ m.kind # "key") THEN q
      ELSE IF q.dropping THEN [q EXCEPT !.items = items, !.dropping = FALSE]
      ELSE IF Len(items) > QueueCap
      THEN [q EXCEPT !.items = << >>, !.dropping = TRUE]
      ELSE [q EXCEPT !.items = items]

\* ClientQueue::push_control: past the gate, and past the bound.
PushedControl(q, m) == IF q.closed THEN q ELSE [q EXCEPT !.items = Append(@, m)]

\* ClientQueue::close.
Shut(q) == [q EXCEPT !.items = << >>, !.closed = TRUE]

\* Every client's queue after the update To, a function on clients.
SetQueues(To) ==
  /\ queue' = [c \in Clients |-> To[c].items]
  /\ closed' = [c \in Clients |-> To[c].closed]
  /\ dropping' = [c \in Clients |-> To[c].dropping]

(* Both broadcasts push to the live clients of the list and evict the dead;  *)
(* Pushes is what the push makes of each client's queue.                     *)
Dead == {c \in joined : thread[c] = "ended"}
FanOut(Pushes) ==
  /\ joined' = joined \ Dead
  /\ SetQueues([c \in Clients |-> IF c \in Dead THEN Shut(QueueOf(c))
                                  ELSE IF c \in joined THEN Pushes[c]
                                  ELSE QueueOf(c)])

-----------------------------------------------------------------------------
(* The drain thread of the encoder session.                                  *)

\* A bug: an access unit is numbered but not counted.
Broadcast_NoCount(key) ==
  /\ encoder = "up" /\ produced < MaxAus
  /\ fresh => key
  /\ LET au == Au(produced + 1, key, size)
     IN  /\ FanOut([c \in Clients |-> Pushed(QueueOf(c), au)])
         /\ lastKey' = IF key THEN au ELSE lastKey
  /\ keys' = IF key THEN keys \cup {produced + 1} ELSE keys
  /\ fresh' = FALSE
  /\ UNCHANGED <<planes, encoder, size, nextSize, resize, respawns, failed, sent,
                 thread, requested, produced, planeOps, primed>>

\* Hub::broadcast.  A session's first access unit is a keyframe; others come
\* with the encoder's period.
Broadcast(key) ==
  /\ encoder = "up" /\ produced < MaxAus
  /\ fresh => key
  /\ LET au == Au(produced + 1, key, size)
     IN  /\ FanOut([c \in Clients |-> Pushed(QueueOf(c), au)])
         /\ lastKey' = IF key THEN au ELSE lastKey
  /\ produced' = produced + 1
  /\ keys' = IF key THEN keys \cup {produced + 1} ELSE keys
  /\ fresh' = FALSE
  /\ UNCHANGED <<planes, encoder, size, nextSize, resize, respawns, failed, sent,
                 thread, requested, planeOps, primed>>

-----------------------------------------------------------------------------
(* The device's callback thread.                                             *)

\* Hub::broadcast_control: a shape is cached without the MOVE of the last one.
BroadcastControl(op) ==
  /\ planeOps < MaxPlaneOps
  /\ FanOut([c \in Clients |-> PushedControl(QueueOf(c), Control)])
  /\ planes' = IF op = "define" THEN {"define"} ELSE planes \cup {"move"}
  /\ planeOps' = planeOps + 1
  /\ UNCHANGED <<lastKey, session, sent, thread, requested, produced, keys, primed>>

\* reset_planes, on a device reset.
ResetPlanes ==
  /\ planes' = {}
  /\ UNCHANGED <<joined, lastKey, queues, session, sent, thread, requested, produced,
                 keys, planeOps, primed>>

\* ffmpeg exits on its own, or its pipe breaks.
EncoderDies ==
  /\ encoder = "up"
  /\ encoder' = "dead"
  /\ UNCHANGED <<hub, queues, size, nextSize, resize, fresh, respawns, failed, sent,
                 thread, requested, produced, keys, planeOps, primed>>

\* submit_bgra finds a session it cannot use, or takes a keyframe request that
\* is due; ensure_encoder kills ffmpeg and joins its drain thread.  A request
\* that is not due is re-armed.
TearDown(s) ==
  /\ respawns < MaxRespawns
  /\ \/ /\ encoder \in {"dead", "none"} \/ (encoder = "up" /\ s # size)
        /\ requested' \in {FALSE, requested}
     \/ /\ encoder = "up" /\ s = size /\ requested
        /\ requested' = FALSE
  /\ encoder' = "down" /\ nextSize' = s
  /\ resize' = (encoder # "none" /\ s # size)
  /\ respawns' = respawns + 1
  /\ UNCHANGED <<hub, queues, size, fresh, failed, sent, thread, produced, keys,
                 planeOps, primed>>

\* A bug: the cached keyframe survives a change of size.
ResetKeyframe_Never ==
  /\ encoder = "down"
  /\ encoder' = "reset"
  /\ UNCHANGED <<hub, queues, size, nextSize, resize, fresh, respawns, failed, sent,
                 thread, requested, produced, keys, planeOps, primed>>

\* Only a change of size invalidates the cached keyframe.
ResetKeyframe ==
  /\ encoder = "down"
  /\ encoder' = "reset"
  /\ lastKey' = IF resize THEN None ELSE lastKey
  /\ UNCHANGED <<joined, planes, queues, size, nextSize, resize, fresh, respawns,
                 failed, sent, thread, requested, produced, keys, planeOps, primed>>

\* spawn_session: the new encoder starts with a keyframe.
SpawnSession ==
  /\ encoder = "reset"
  /\ encoder' = "up" /\ size' = nextSize /\ fresh' = TRUE
  /\ UNCHANGED <<hub, queues, nextSize, resize, respawns, failed, sent, thread,
                 requested, produced, keys, planeOps, primed>>

\* Neither the hardware nor the software encoder starts: self.enc stays None.
SpawnFails ==
  /\ encoder = "reset" /\ SpawnMayFail
  /\ encoder' = "none" /\ failed' = TRUE
  /\ UNCHANGED <<hub, queues, size, nextSize, resize, fresh, respawns, sent, thread,
                 requested, produced, keys, planeOps, primed>>

-----------------------------------------------------------------------------
(* A viewer's connection.                                                    *)

\* The cached keyframe, then one message for each cached piece of plane state.
Primed(c) ==
  LET q == IF lastKey = None THEN QueueOf(c) ELSE Pushed(QueueOf(c), lastKey)
      shape == IF "define" \in planes THEN PushedControl(q, Control) ELSE q
  IN  IF "move" \in planes THEN PushedControl(shape, Control) ELSE shape

\* Hub::register: prime and insert under the one lock.
Register(c) ==
  /\ thread[c] = "none"
  /\ thread' = [thread EXCEPT ![c] = "registering"]
  /\ SetQueues([d \in Clients |-> IF d = c THEN Primed(c) ELSE QueueOf(d)])
  /\ joined' = joined \cup {c}
  /\ primed' = [primed EXCEPT ![c] = IF lastKey = None THEN 0 ELSE lastKey.n]
  /\ UNCHANGED <<lastKey, planes, session, sent, requested, produced, keys,
                 planeOps>>

\* After the lock is dropped: request_keyframe, then the send thread is spawned.
RequestKeyframe(c) ==
  /\ thread[c] = "registering"
  /\ requested' = TRUE
  /\ thread' = [thread EXCEPT ![c] = "sending"]
  /\ UNCHANGED <<hub, queues, session, sent, produced, keys, planeOps, primed>>

\* run_stream: until it is synced a viewer ignores all but a keyframe; a delta on
\* a picture that it never got is a decoding error.
Decoded(c, m) ==
  \/ m.kind = "key"
  \/ m.kind = "delta" /\ synced[c] /\ lastVideo[c] = m.n - 1

\* The send thread pops a message, ws.send succeeds, and the viewer reads it.
Send(c) ==
  /\ thread[c] = "sending" /\ queue[c] # << >>
  /\ LET m == Head(queue[c])
     IN  IF IsVideo(m)
         THEN /\ lastVideo' = [lastVideo EXCEPT ![c] = m.n]
              /\ synced' = [synced EXCEPT ![c] = Decoded(c, m)]
         ELSE UNCHANGED sent
  /\ queue' = [queue EXCEPT ![c] = Tail(@)]
  /\ UNCHANGED <<hub, closed, dropping, session, thread, requested, produced, keys,
                 planeOps, primed>>

\* ws.send fails: alive is cleared and the queue closed; a broadcast will evict.
SendFails(c) ==
  /\ thread[c] = "sending" /\ queue[c] # << >>
  /\ thread' = [thread EXCEPT ![c] = "ended"]
  /\ SetQueues([d \in Clients |-> IF d = c THEN Shut(QueueOf(d)) ELSE QueueOf(d)])
  /\ UNCHANGED <<hub, session, sent, requested, produced, keys, planeOps, primed>>

-----------------------------------------------------------------------------
Viewer(c) == Register(c) \/ RequestKeyframe(c) \/ Send(c) \/ SendFails(c)

Callback ==
  \/ \E op \in {"define", "move"} : BroadcastControl(op)
  \/ ResetPlanes
  \/ \E s \in Sizes : TearDown(s)
  \/ ResetKeyframe \/ SpawnSession \/ SpawnFails

Next ==
  \/ \E key \in BOOLEAN : Broadcast(key)
  \/ EncoderDies
  \/ Callback
  \/ \E c \in Clients : Viewer(c)

Spec == Init /\ [][Next]_vars

-----------------------------------------------------------------------------
(* Properties.                                                               *)

Messages == [kind : {"key", "delta"}, n : 1 .. MaxAus, size : Sizes] \cup {Control}

TypeOK ==
  /\ joined \subseteq Clients /\ planes \subseteq {"define", "move"}
  /\ lastKey \in [kind : {"key"}, n : 1 .. MaxAus, size : Sizes] \cup {None}
  /\ queue \in [Clients -> Seq(Messages)] /\ produced \in 0 .. MaxAus
  /\ closed \in [Clients -> BOOLEAN] /\ dropping \in [Clients -> BOOLEAN]
  /\ synced \in [Clients -> BOOLEAN] /\ {failed, requested, fresh, resize} \subseteq BOOLEAN
  /\ thread \in [Clients -> {"none", "registering", "sending", "ended"}]
  /\ encoder \in {"up", "dead", "none", "down", "reset"} /\ {size, nextSize} \subseteq Sizes
  /\ keys \subseteq 1 .. produced
  /\ lastVideo \in [Clients -> 0 .. MaxAus] /\ primed \in [Clients -> 0 .. MaxAus]

(* A viewer that has a picture keeps it through sheds, respawns and crashes  *)
(* of the encoder: it is sent no delta on a frame it did not get.  The one   *)
(* exception is the gap behind the keyframe it was primed with, and then no  *)
(* keyframe is in that gap ("never primed with K1 but inserted after K2 was  *)
(* sent", pixel/lib.rs:984).                                                 *)
SyncLost(c) == synced[c] /\ ~synced'[c]
JoinGap(c) ==
  /\ primed[c] # 0 /\ lastVideo[c] = primed[c]
  /\ keys \cap (primed[c] + 1 .. lastVideo'[c]) = {}
SyncLostOnlyAtJoin == [][\A c \in Clients : SyncLost(c) => JoinGap(c)]_vars

(* While a session is up, a joining client is primed with a keyframe of its  *)
(* size or with none: the drain thread of the torn-down session cannot put   *)
(* its last keyframe back after the reset (pixel/lib.rs:1452), as long as    *)
(* every encoder has started.                                                *)
PrimerFitsSession ==
  ~failed /\ encoder \in {"up", "dead"} /\ lastKey # None => lastKey.size = size
=============================================================================
