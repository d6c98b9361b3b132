----------------------------- MODULE EncoderFeed -----------------------------
(* From a presented frame to the viewers (crates/infinigpu-pixel/src/lib.rs): *)
(* PixelStreamer::submit_bgra on the device's callback thread, the latest-    *)
(* wins Mailbox, the feeder thread, ffmpeg, the access-unit splitter that     *)
(* holds every unit until the next one begins, and the drain thread.          *)
(* Frames have one size; what the hub does with a unit is PixelHub's.         *)
EXTENDS Integers, Sequences, SequencesExt

CONSTANTS
    Frames,       \* contents of the guest's screen
    None,         \* no frame, no session
    PipeCap,      \* frames that fit between the feeder and the drain
    Gop,          \* "-g": every Gop-th frame of a session is a keyframe
    MaxJoins,     \* viewers that join, each asking for a keyframe
    MaxSheds,     \* backlogs that a slow viewer sheds
    MaxCrashes    \* encoder processes that end by themselves

\* What an encoder session is, and the access units between its feeder and its drain.
Units == [frame : Frames, keyframe : BOOLEAN]
Sessions ==
  [hardware : BOOLEAN, alive : BOOLEAN, produced : BOOLEAN, needsFlush : BOOLEAN,
   slot : Frames \cup {None}, hand : Frames \cup {None}, last : Frames \cup {None},
   feeder : {"wait", "write", "refeed", "ended"}, pipe : Seq(Units), age : Nat]

ASSUME FeedAssumption ==
  None \notin Frames \cup Sessions /\ PipeCap \in Nat \ {0, 1} /\ Gop \in Nat \ {0}

VARIABLES
    presented,        \* what the guest's screen shows
    dedup,            \* Deduper.last
    pendingFlush,     \* pending_flush
    forcedRecently,   \* less than MIN_FORCED_IDR_INTERVAL since last_forced_idr
    hardwareFailed,   \* hardware_failed
    session,          \* EncoderSession with its threads and its ffmpeg, or None
    keyframeReq,      \* Hub.keyframe_req
    seen,             \* the frame in the last access unit broadcast
    owed,             \* a viewer that joined waits for a keyframe yet to be made
    shed,             \* a viewer whose queue overflowed drops all up to a keyframe
    joins, sheds, crashes    \* bound the environment

streamer == <<dedup, pendingFlush, forcedRecently, hardwareFailed>>
viewers == <<seen, owed, shed, sheds>>
vars == <<presented, streamer, session, keyframeReq, viewers, joins, crashes>>

Alive == session # None /\ session.alive

(* The feeder waits for its mailbox ("wait"), writes a frame it took to       *)
(* ffmpeg ("write"), or writes the last one again ("refeed").  pipe holds     *)
(* what it wrote and the drain has not broadcast; age counts its frames up to *)
(* Gop.                                                                       *)
NewSession(f) ==
  [hardware |-> ~hardwareFailed', alive |-> TRUE, produced |-> FALSE, slot |-> f,
   feeder |-> "wait", hand |-> None, last |-> None, needsFlush |-> FALSE,
   pipe |-> <<>>, age |-> 0]

Init ==
  /\ presented = None /\ dedup = None /\ pendingFlush = FALSE
  /\ forcedRecently = FALSE /\ hardwareFailed = FALSE
  /\ session = None /\ keyframeReq = FALSE /\ seen = None /\ owed = FALSE
  /\ shed = FALSE /\ joins = 0 /\ sheds = 0 /\ crashes = 0

-----------------------------------------------------------------------------
KeyframeIn(n) == \E i \in 1..n : session.pipe[i].keyframe

\* The drain thread broadcasts the first n units.  They lie in the viewers' queues
\* at once, or the last of them overflows the queue of a viewer that is too slow,
\* and the hub asks for nothing.
Broadcast(n) ==
  /\ seen' = IF n = 0 THEN seen ELSE session.pipe[n].frame
  /\ \/ shed' = (shed /\ ~KeyframeIn(n)) /\ UNCHANGED sheds
     \/ n > 0 /\ sheds < MaxSheds /\ shed' = TRUE /\ sheds' = sheds + 1

\* Mailbox::put: a frame not yet taken is replaced.
Put(f) == session' = [session EXCEPT !.slot = f]

\* shutdown: the process is killed and both threads joined; what ffmpeg had
\* already written is still split and broadcast.  Hardware that died without a
\* single unit is not tried again.
Shutdown ==
  IF session = None
  THEN UNCHANGED <<viewers, hardwareFailed>>
  ELSE \E n \in 0..Len(session.pipe) :
         /\ Broadcast(n) /\ owed' = (owed /\ ~KeyframeIn(n))
         /\ hardwareFailed' = (hardwareFailed \/ (session.hardware /\ ~session.alive
                                                    /\ ~session.produced /\ n = 0))

Respawns(force) == force \/ ~Alive

\* ensure_encoder, then push.
Feed(f, force) ==
  IF Respawns(force)
  THEN Shutdown /\ session' = NewSession(f)
  ELSE Put(f) /\ UNCHANGED <<viewers, hardwareFailed>>

\* A respawn forgets the last frame's hash, so that the next one is not skipped.
Remembered(f) == IF Respawns(FALSE) THEN None ELSE f

\* A keyframe was asked for: the encoder is replaced, and the frame goes to it.
ServeKeyframe(f) ==
  /\ keyframeReq /\ ~forcedRecently
  /\ keyframeReq' = FALSE /\ forcedRecently' = TRUE
  /\ Feed(f, TRUE)
  /\ dedup' = f /\ pendingFlush' = TRUE

\* A bug: the flush of an unchanged frame is asked for again each time.
SkipUnchanged_Rearms(f) ==
  /\ dedup = f /\ pendingFlush
  /\ Feed(f, FALSE) /\ dedup' = Remembered(f) /\ UNCHANGED pendingFlush

\* An unchanged frame: fed once after a change, then skipped.
SkipUnchanged(f) ==
  /\ dedup = f
  /\ IF pendingFlush
     THEN Feed(f, FALSE) /\ dedup' = Remembered(f) /\ pendingFlush' = FALSE
     ELSE UNCHANGED <<dedup, pendingFlush, session, viewers, hardwareFailed>>

EncodeChanged(f) ==
  /\ dedup # f
  /\ Feed(f, FALSE) /\ dedup' = Remembered(f) /\ pendingFlush' = TRUE

\* A bug: a request that comes too soon after the last one is forgotten.
Due_DropsRequest(f) ==
  /\ ~(keyframeReq /\ ~forcedRecently)
  /\ SkipUnchanged(f) \/ EncodeChanged(f)
  /\ keyframeReq' = FALSE /\ UNCHANGED forcedRecently

\* No request, or one that stays pending until the interval is over.
Due(f) ==
  /\ ~(keyframeReq /\ ~forcedRecently)
  /\ SkipUnchanged(f) \/ EncodeChanged(f)
  /\ UNCHANGED <<keyframeReq, forcedRecently>>

\* submit_bgra, in the device's callback thread.
SubmitBgra(f) ==
  /\ presented' = f
  /\ ServeKeyframe(f) \/ Due(f)
  /\ UNCHANGED <<joins, crashes>>

-----------------------------------------------------------------------------
(* The session's threads and process.                                        *)

FeederOnly == UNCHANGED <<presented, streamer, keyframeReq, viewers, joins, crashes>>

\* take_timeout returns the frame: at a wake-up, or when the wait is over.
FeederTakes ==
  /\ session # None /\ session.feeder = "wait" /\ session.slot # None
  /\ session' = [session EXCEPT !.feeder = "write", !.hand = session.slot, !.slot = None]
  /\ FeederOnly

\* A bug: an idle feeder does not write the last frame again.
FeederTimesOut_Never == FALSE /\ UNCHANGED vars

\* take_timeout returns empty-handed: the last frame is due a second writing, once.
FeederTimesOut ==
  /\ session # None /\ session.feeder = "wait" /\ session.slot = None /\ session.needsFlush
  /\ session' = [session EXCEPT !.feeder = "refeed", !.hand = session.last]
  /\ FeederOnly

\* A bug: the frame written stays in the feeder's hand.
FeederWrites_Keeps ==
  /\ Alive /\ session.feeder \in {"write", "refeed"} /\ Len(session.pipe) < PipeCap
  /\ session' = [session EXCEPT
       !.pipe = Append(@, [frame |-> session.hand, keyframe |-> session.age = 0]),
       !.age = (@ + 1) % Gop, !.last = session.hand, !.needsFlush = session.feeder = "write",
       !.feeder = "wait"]
  /\ FeederOnly

\* A bug: only a session's first frame is encoded as a keyframe.
FeederWrites_NoPeriod ==
  /\ Alive /\ session.feeder \in {"write", "refeed"} /\ Len(session.pipe) < PipeCap
  /\ session' = [session EXCEPT
       !.pipe = Append(@, [frame |-> session.hand, keyframe |-> session.age = 0]),
       !.age = 1, !.last = session.hand, !.hand = None,
       !.needsFlush = session.feeder = "write", !.feeder = "wait"]
  /\ FeederOnly

\* The blocking write_all into ffmpeg's stdin.
FeederWrites ==
  /\ Alive /\ session.feeder \in {"write", "refeed"} /\ Len(session.pipe) < PipeCap
  /\ session' = [session EXCEPT
       !.pipe = Append(@, [frame |-> session.hand, keyframe |-> session.age = 0]),
       !.age = (@ + 1) % Gop, !.last = session.hand, !.hand = None,
       !.needsFlush = session.feeder = "write", !.feeder = "wait"]
  /\ FeederOnly

\* The pipe is broken: the feeder marks the session dead and ends.
FeederEnds ==
  /\ session # None /\ ~session.alive /\ session.feeder \in {"write", "refeed"}
  /\ session' = [session EXCEPT !.feeder = "ended", !.hand = None]
  /\ FeederOnly

\* AuSplitter::push: a unit is complete when the delimiter of the next is read.
Emit ==
  /\ Alive /\ Len(session.pipe) >= 2
  /\ Broadcast(1) /\ owed' = (owed /\ ~KeyframeIn(1))
  /\ session' = [session EXCEPT !.pipe = Tail(@), !.produced = TRUE]
  /\ UNCHANGED <<presented, streamer, keyframeReq, joins, crashes>>

\* ffmpeg ends by itself: at its end of file the splitter flushes what it holds.
\* A keyframe that only this process owed is lost with it.
Crash ==
  /\ Alive /\ crashes < MaxCrashes
  /\ \E n \in 0..Len(session.pipe) :
       /\ Broadcast(n)
       /\ session' = [session EXCEPT !.alive = FALSE, !.pipe = <<>>, !.produced = @ \/ n > 0]
  /\ owed' = (owed /\ keyframeReq)
  /\ crashes' = crashes + 1
  /\ UNCHANGED <<presented, streamer, keyframeReq, joins>>

\* Hub::register: request_keyframe.
RequestKeyframe ==
  /\ joins < MaxJoins
  /\ keyframeReq' = TRUE /\ owed' = TRUE /\ joins' = joins + 1
  /\ UNCHANGED <<presented, streamer, session, seen, shed, sheds, crashes>>

IntervalElapses ==
  /\ forcedRecently /\ forcedRecently' = FALSE
  /\ UNCHANGED <<presented, dedup, pendingFlush, hardwareFailed, session, keyframeReq,
                 viewers, joins, crashes>>

Presents == \E f \in Frames : SubmitBgra(f)
Feeder == FeederTakes \/ FeederTimesOut \/ FeederWrites \/ FeederEnds

Next == Presents \/ Feeder \/ Emit \/ Crash \/ RequestKeyframe \/ IntervalElapses

Spec == Init /\ [][Next]_vars

\* The threads run, ffmpeg encodes, time passes.  The guest need not present.
FairSpec == Spec /\ WF_vars(Feeder) /\ WF_vars(Emit) /\ WF_vars(IntervalElapses)

-----------------------------------------------------------------------------
(* Properties.                                                               *)

TypeOK ==
  /\ {presented, dedup, seen} \subseteq Frames \cup {None}
  /\ {pendingFlush, forcedRecently, hardwareFailed, keyframeReq, owed, shed} \subseteq BOOLEAN
  /\ session # None =>
       /\ {session.slot, session.hand, session.last} \subseteq Frames \cup {None}
       /\ session.feeder \in {"wait", "write", "refeed", "ended"}
       /\ (session.hand # None) = (session.feeder \in {"write", "refeed"})
       /\ session.needsFlush => session.last # None
       /\ Len(session.pipe) <= PipeCap
       /\ \A i \in 1..Len(session.pipe) : session.pipe[i].frame \in Frames

(* The last frame of a guest that falls idle reaches the viewers, although   *)
(* the splitter holds every unit until another frame follows and the guest   *)
(* presents nothing more (pixel/lib.rs:1363-1371), unless the encoder dies.  *)
LastFrameReaches ==
  \A f \in Frames :
    (presented = f /\ Alive) ~> (seen = f \/ presented # f \/ ~Alive)

(* As long as the guest presents, new pictures or the same one again and     *)
(* again, a viewer that joined gets its keyframe: the request                *)
(* survives the rate limit, and idle-skip does not hold the new encoder's    *)
(* first unit back (pixel/lib.rs:1500-1523), unless that encoder dies first. *)
PresentsAgain == presented # None /\ SubmitBgra(presented)
GuestPresents == []<><<Presents>>_vars \/ WF_vars(PresentsAgain)
KeyframeServed == GuestPresents => ((owed /\ presented # None) ~> ~owed)

(* "idle => ~0 bits": a guest that presents one and the same picture for     *)
(* ever comes to cost nothing, through all the frames fed twice to flush     *)
(* what the splitter holds (pixel/lib.rs:1059-1061, 1370-1371).              *)
Quiet == session = None \/ session.feeder = "ended"
           \/ (session.slot = None /\ session.feeder = "wait" /\ ~session.needsFlush)
IdleGoesQuiet == (\E f \in Frames : <>[](presented = f)) => <>[]Quiet

(* A viewer that shed its backlog "resyncs at the encoder's existing ~2s     *)
(* periodic IDR" (pixel/lib.rs:904-907), no keyframe being asked for, as     *)
(* long as the guest's picture goes on changing: the period is counted in    *)
(* frames fed, and an idle guest feeds none.                                 *)
PresentsAnother == \E f \in Frames : presented # f /\ SubmitBgra(f)
ShedViewerResyncs == []<><<PresentsAnother>>_vars => (shed ~> ~shed)
=============================================================================
