---------------------------- MODULE CursorPlane ----------------------------
(* The cursor from the guest's plane to the viewers' windows: the driver's   *)
(* cursor plane (guest/linux/infinigpu.c) pushes CURSOR_UPDATEs, the device  *)
(* decodes, de-duplicates and rate-limits them (crates/infinigpu-device),    *)
(* the hub caches and fans them out on its control lane                      *)
(* (crates/infinigpu-pixel), and a viewer's stream thread hands shape and    *)
(* visibility to its render loop (crates/infinigpu-viewer).                  *)
(* Positions are left out: a viewer draws at its own pointer, which is in    *)
(* its window.  A shape is the address of its pixels, which are not          *)
(* rewritten in place.                                                       *)
EXTENDS Integers, Sequences, FiniteSets

CONSTANTS
    Viewers,      \* viewer programs
    Shapes,       \* cursor framebuffers of the guest
    None,         \* no framebuffer, no shape, no message
    RingCap,      \* updates that fit in the ring while the host refuses drains
    MaxUpdates,   \* commits to the guest's cursor plane
    MaxResets,    \* device resets
    MaxSheds      \* video backlogs that a viewer's queue sheds

Messages == [op : {"define", "move"}, shape : Shapes \cup {None}, visible : BOOLEAN]

ASSUME CursorAssumption == None \notin Shapes \cup Messages /\ RingCap \in Nat \ {0}

VARIABLES
    fb,             \* the framebuffer of the guest's cursor plane
    ring,           \* updates pushed and not yet drained
    lastShape,      \* CursorState.last_shape
    readRecently,   \* less than CURSOR_SHAPE_MIN_INTERVAL since last_shape_read
    define, move,   \* the hub's PlaneCache of the cursor
    joined, dead,   \* the hub's clients, and those of them that have ended
    queue,          \* plane messages in each client's queue
    slot,           \* each viewer's CursorSlot
    window,         \* what each viewer's window has cached and drawn
    missed,         \* the guest's last change of shape or hide was not forwarded
    lost,           \* a shed has cost a viewer plane messages since the last DEFINE
    updates, resets, sheds

guest == <<fb, ring, updates>>
device == <<lastShape, readRecently>>
hub == <<define, move, joined, dead, queue, lost>>
viewer == <<slot, window>>
vars == <<guest, device, hub, viewer, missed, resets, sheds>>

Define(s) == [op |-> "define", shape |-> s, visible |-> TRUE]
Move(v) == [op |-> "move", shape |-> None, visible |-> v]

EmptySlot == [shape |-> None, version |-> 0, visible |-> FALSE]
EmptyWindow == [shape |-> None, version |-> 0, shown |-> FALSE, drawn |-> None]

Init ==
  /\ fb = None /\ ring = <<>> /\ lastShape = None /\ readRecently = FALSE
  /\ define = None /\ move = None /\ joined = {} /\ dead = {}
  /\ queue = [v \in Viewers |-> <<>>]
  /\ slot = [v \in Viewers |-> EmptySlot] /\ window = [v \in Viewers |-> EmptyWindow]
  /\ missed = FALSE /\ lost = [v \in Viewers |-> FALSE]
  /\ updates = 0 /\ resets = 0 /\ sheds = 0

-----------------------------------------------------------------------------
(* The guest's driver.                                                       *)

\* igpu_cursor_update_plane: another framebuffer is a DEFINE, none a hide, the
\* same one a pure move, which may be a warp.
UpdateFor(new) ==
  IF new = None THEN {[op |-> "hide", shape |-> None, warp |-> FALSE]}
  ELSE {[op |-> IF new = fb THEN "moveOnly" ELSE "define", shape |-> new, warp |-> w]
          : w \in BOOLEAN}

\* igpu_submit_cursor does not look at what igpu_ring2_push returns: at a full
\* ring the update is gone.
Commit(new) ==
  /\ updates < MaxUpdates /\ (new = None => fb # None)
  /\ fb' = new /\ updates' = updates + 1
  /\ IF Len(ring) < RingCap
     THEN \E u \in UpdateFor(new) : ring' = Append(ring, u)
     ELSE UNCHANGED ring
  /\ missed' = IF new = fb THEN missed ELSE Len(ring) = RingCap
  /\ UNCHANGED <<device, hub, viewer, resets, sheds>>

-----------------------------------------------------------------------------
(* The hub.                                                                  *)

\* A bug: the position and visibility of the old shape outlive it.
Cached_KeepsMove(m) ==
  IF m.op = "define" THEN define' = m /\ UNCHANGED move
  ELSE move' = m /\ UNCHANGED define

\* The priming cache: a shape makes the last MOVE stale.
Cached(m) ==
  IF m.op = "define" THEN define' = m /\ move' = None
  ELSE move' = m /\ UNCHANGED define

\* send_plane, Hub::broadcast_control: clients that have ended are evicted.
SendPlane(m) ==
  /\ Cached(m)
  /\ joined' = joined \ dead /\ dead' = {}
  /\ queue' = [v \in Viewers |-> IF v \in joined' THEN Append(queue[v], m) ELSE <<>>]
  /\ lost' = [v \in Viewers |-> lost[v] /\ v \in joined' /\ m.op # "define"]

\* Hub::register's plane priming.
Primer ==
  (IF define = None THEN <<>> ELSE <<define>>) \o (IF move = None THEN <<>> ELSE <<move>>)

\* A viewer program starts and connects.
Join(v) ==
  /\ v \notin joined
  /\ joined' = joined \cup {v} /\ queue' = [queue EXCEPT ![v] = Primer]
  /\ slot' = [slot EXCEPT ![v] = EmptySlot] /\ window' = [window EXCEPT ![v] = EmptyWindow]
  /\ UNCHANGED <<guest, device, define, move, dead, lost, missed, resets, sheds>>

\* Its connection ends; the hub notices at its next broadcast.
Leave(v) ==
  /\ v \in joined \ dead
  /\ dead' = dead \cup {v} /\ queue' = [queue EXCEPT ![v] = <<>>]
  /\ UNCHANGED <<guest, device, define, move, joined, lost, viewer, missed, resets, sheds>>

\* ClientQueue::push of a frame overflows: the plane messages go with the video.
Shed(v) ==
  /\ v \in joined \ dead /\ queue[v] # <<>> /\ sheds < MaxSheds
  /\ queue' = [queue EXCEPT ![v] = <<>>] /\ lost' = [lost EXCEPT ![v] = TRUE]
  /\ sheds' = sheds + 1
  /\ UNCHANGED <<guest, device, define, move, joined, dead, viewer, missed, resets>>

-----------------------------------------------------------------------------
(* The device's callback thread: handle_cursor_update.                       *)

\* A bug: a hide is suppressed as the moves are, for a single viewer.
HideCursor_Suppressed(u) ==
  /\ u.op = "hide"
  /\ IF Cardinality(joined) > 1 THEN SendPlane(Move(FALSE)) ELSE UNCHANGED hub
  /\ UNCHANGED <<missed, device>>

\* A hide is always forwarded.
HideCursor(u) ==
  /\ u.op = "hide"
  /\ SendPlane(Move(FALSE)) /\ UNCHANGED <<missed, device>>

\* A pure move is forwarded to the extra viewers, as often as the interval and
\* a change of position allow, and to a single one only if it is a warp.
MoveCursor(u) ==
  /\ u.op = "moveOnly"
  /\ \/ (u.warp \/ Cardinality(joined) > 1) /\ SendPlane(Move(TRUE))
     \/ ~u.warp /\ UNCHANGED hub
  /\ UNCHANGED <<missed, device>>

\* The shape the device has forwarded last: only made visible again.
SameShape(u) ==
  /\ u.op = "define" /\ u.shape = lastShape
  /\ SendPlane(Move(TRUE)) /\ UNCHANGED <<missed, device>>

\* Another shape: its pixels are read and sent, if the last ones were read 33 ms
\* ago or more.  Otherwise, or if the DMA read of them fails, it is dropped.
DefineCursor(u) ==
  /\ u.op = "define" /\ u.shape # lastShape
  /\ \/ /\ missed' = (missed \/ \A i \in 2..Len(ring) : ring[i].op = "moveOnly")
        /\ UNCHANGED <<hub, device>>
     \/ /\ ~readRecently
        /\ SendPlane(Define(u.shape)) /\ UNCHANGED missed
        /\ lastShape' = u.shape /\ readRecently' = TRUE

\* The ring is drained, by its own doorbell or, after refused drains, a later one.
Drain ==
  /\ ring # <<>> /\ ring' = Tail(ring)
  /\ LET u == Head(ring)
     IN  HideCursor(u) \/ MoveCursor(u) \/ SameShape(u) \/ DefineCursor(u)
  /\ UNCHANGED <<fb, updates, viewer, resets, sheds>>

IntervalElapses ==
  /\ readRecently /\ readRecently' = FALSE
  /\ UNCHANGED <<guest, lastShape, hub, viewer, missed, resets, sheds>>

\* reset_state, as the guest reboots: the plane cache is dropped, the viewers'
\* overlays are not.
Reset ==
  /\ resets < MaxResets /\ resets' = resets + 1
  /\ fb' = None /\ ring' = <<>> /\ lastShape' = None /\ readRecently' = FALSE
  /\ define' = None /\ move' = None /\ missed' = TRUE
  /\ UNCHANGED <<updates, joined, dead, queue, lost, viewer, sheds>>

-----------------------------------------------------------------------------
(* A viewer.                                                                 *)

\* A bug: a new shape does not count as one.
SlotDefine_NoBump(v, m) ==
  slot' = [slot EXCEPT ![v] = [@ EXCEPT !.shape = m.shape, !.visible = m.visible]]

\* CursorSlot::define.
SlotDefine(v, m) ==
  slot' = [slot EXCEPT ![v] =
    [shape |-> m.shape, version |-> @.version + 1, visible |-> m.visible]]

\* CursorSlot::set_visible.
SetVisible(v, m) == slot' = [slot EXCEPT ![v].visible = m.visible]

\* The hub's send thread, the network, and run_stream's demultiplexing.
Receive(v) ==
  /\ queue[v] # <<>> /\ queue' = [queue EXCEPT ![v] = Tail(@)]
  /\ LET m == Head(queue[v])
     IN  IF m.op = "define" THEN SlotDefine(v, m) ELSE SetVisible(v, m)
  /\ UNCHANGED <<guest, device, define, move, joined, dead, lost, window, missed, resets,
                 sheds>>

\* draw's snapshot of the slot: the shape is taken anew with its version, and
\* the frame composited anew only when version or visibility has changed.
Redrawn(v) ==
  LET w == window[v]
      shape == IF slot[v].version # w.version THEN slot[v].shape ELSE w.shape
      shown == slot[v].visible /\ shape # None
  IN  [shape |-> shape, version |-> slot[v].version, shown |-> shown,
       drawn |-> IF slot[v].version = w.version /\ shown = w.shown THEN w.drawn
                 ELSE IF shown THEN shape ELSE None]

Draw(v) ==
  /\ v \in joined \ dead /\ window[v] # Redrawn(v)
  /\ window' = [window EXCEPT ![v] = Redrawn(v)]
  /\ UNCHANGED <<guest, device, hub, slot, missed, resets, sheds>>

Viewer(v) == Join(v) \/ Leave(v) \/ Shed(v) \/ Receive(v) \/ Draw(v)

Next ==
  \/ \E new \in Shapes \cup {None} : Commit(new)
  \/ Drain \/ IntervalElapses \/ Reset
  \/ \E v \in Viewers : Viewer(v)

Spec == Init /\ [][Next]_vars

-----------------------------------------------------------------------------
(* Properties.                                                               *)

TypeOK ==
  /\ {fb, lastShape} \subseteq Shapes \cup {None} /\ Len(ring) <= RingCap
  /\ {readRecently, missed} \subseteq BOOLEAN
  /\ dead \subseteq joined /\ joined \subseteq Viewers
  /\ \A v \in Viewers :
       /\ {slot[v].shape, window[v].shape, window[v].drawn} \subseteq Shapes \cup {None}
       /\ (slot[v].version = 0) = (slot[v].shape = None)
       /\ window[v].version <= slot[v].version /\ slot[v].version <= updates
       /\ v \notin joined => queue[v] = <<>>

\* A viewer that has received and drawn all that was sent to it.
UpToDate(v) ==
  v \in joined \ dead /\ queue[v] = <<>> /\ ~lost[v] /\ window[v] = Redrawn(v)

\* What a viewer shows that joins now.
PrimedOverlay ==
  IF define = None \/ (move # None /\ ~move.visible) THEN None ELSE define.shape

(* Whenever a viewer joined, and whatever it was primed with and received    *)
(* since, it shows what a viewer that joins now would ("so a late-joining or *)
(* reconnecting client is primed with the current cursor", pixel/lib.rs:815, *)
(* and 993-1002), from the first shape after a reset on.                     *)
OverlayAgrees ==
  define # None => \A v \in Viewers : UpToDate(v) => window[v].drawn = PrimedOverlay

(* End to end: the cursor in a viewer's window is the one on the guest's     *)
(* plane, and none while the plane is off and the cursor in the frame ("never*)
(* a stale overlay, never a double cursor", device/lib.rs:2359-2361),        *)
(* unless the update that said so met a full ring or the rate limit, and     *)
(* after a reset from the next change on.                                    *)
CursorShown ==
  ring = <<>> /\ ~missed => \A v \in Viewers : UpToDate(v) => window[v].drawn = fb
=============================================================================
