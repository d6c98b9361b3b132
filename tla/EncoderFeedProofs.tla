-------------------------- MODULE EncoderFeedProofs --------------------------
(***************************************************************************)
(* Proofs about the encoder's feed, for any frames, pipe and keyframe      *)
(* period: what liveness rests on, that while anything is owed to a viewer *)
(* something can still move that brings it closer.                         *)
(***************************************************************************)
EXTENDS EncoderFeed, TLAPS

-----------------------------------------------------------------------------
(* The inductive invariant.                                                  *)

SessionInv ==
  /\ {presented, dedup, seen} \subseteq Frames \cup {None}
  /\ {pendingFlush, forcedRecently, hardwareFailed, keyframeReq, owed, shed} \subseteq BOOLEAN
  /\ session \in Sessions \cup {None}
  /\ session # None =>
       /\ (session.hand # None) = (session.feeder \in {"write", "refeed"})
       /\ session.needsFlush => session.last # None
       /\ Len(session.pipe) <= PipeCap
       /\ session.alive => session.feeder # "ended"

\* The frame that was fed last, wherever it is between mailbox and ffmpeg.
Latest ==
  IF session.slot # None THEN session.slot
  ELSE IF session.hand # None THEN session.hand ELSE session.last

\* A session has been fed what the guest presents, and only that is skipped.
FreshInv ==
  Alive => Latest = presented /\ presented # None /\ (dedup # None => dedup = presented)

\* The frame written last is the last in the pipe; when it has been written twice, the
\* splitter holds the second unit and the first is in front of it or broadcast.
HeldInv ==
  Alive =>
    /\ session.feeder = "refeed" => session.hand = session.last
    /\ session.last # None =>
         /\ Len(session.pipe) > 0 /\ session.pipe[Len(session.pipe)].frame = session.last
         /\ \/ session.needsFlush
            \/ Len(session.pipe) = 1 /\ seen = session.last
            \/ Len(session.pipe) > 1
               /\ session.pipe[Len(session.pipe) - 1].frame = session.last

(* A viewer that waits for a keyframe is not forgotten: its request is still *)
(* pending, or the encoder lives whose first frame is yet to be written, or  *)
(* the keyframe is in the pipe (Hub::register, submit_bgra's rate limit).    *)
KeyframeKept ==
  owed => keyframeReq \/ (Alive /\ (session.age = 0 \/ KeyframeIn(Len(session.pipe))))

FeedInv == SessionInv /\ FreshInv /\ HeldInv /\ KeyframeKept

-----------------------------------------------------------------------------
(* A frame is presented.                                                     *)

LEMMA BroadcastTypes ==
  ASSUME SessionInv, session # None, NEW n \in 0..Len(session.pipe), Broadcast(n)
  PROVE  seen' \in Frames \cup {None} /\ shed' \in BOOLEAN
<1>1. session.pipe \in Seq(Units)  BY DEF SessionInv, Sessions
<1>2. ASSUME n # 0 PROVE session.pipe[n].frame \in Frames
  <2>1. n \in 1..Len(session.pipe)  BY <1>1, <1>2
  <2>2. session.pipe[n] \in Units  BY <1>1, <2>1
  <2> QED  BY <2>2 DEF Units
<1>3. seen' \in Frames \cup {None}  BY <1>2 DEF Broadcast, SessionInv
<1>4. shed' \in BOOLEAN
  <2>1. CASE shed' = (shed /\ ~KeyframeIn(n))  BY <2>1
  <2>2. CASE shed' = TRUE  BY <2>2
  <2> QED  BY <2>1, <2>2 DEF Broadcast
<1> QED  BY <1>3, <1>4

LEMMA ShutdownTypes ==
  ASSUME SessionInv, Shutdown
  PROVE  /\ seen' \in Frames \cup {None}
         /\ shed' \in BOOLEAN /\ owed' \in BOOLEAN /\ hardwareFailed' \in BOOLEAN
<1>1. CASE session = None
  <2>1. UNCHANGED <<seen, owed, shed, hardwareFailed>>  BY <1>1 DEF Shutdown, viewers
  <2> QED  BY <2>1 DEF SessionInv
<1>2. CASE session # None
  <2>1. PICK n \in 0..Len(session.pipe) :
          /\ Broadcast(n) /\ owed' = (owed /\ ~KeyframeIn(n))
          /\ hardwareFailed' = (hardwareFailed \/ (session.hardware /\ ~session.alive
                                                     /\ ~session.produced /\ n = 0))
    BY <1>2 DEF Shutdown
  <2>2. seen' \in Frames \cup {None} /\ shed' \in BOOLEAN  BY <1>2, <2>1, BroadcastTypes
  <2>3. owed' \in BOOLEAN  BY <2>1
  <2>4. hardwareFailed' \in BOOLEAN  BY <2>1
  <2> QED  BY <2>2, <2>3, <2>4
<1> QED  BY <1>1, <1>2

LEMMA NewFacts ==
  ASSUME NEW f \in Frames, hardwareFailed' \in BOOLEAN
  PROVE  /\ NewSession(f) \in Sessions /\ NewSession(f) # None
         /\ NewSession(f).alive = TRUE /\ NewSession(f).needsFlush = FALSE
         /\ NewSession(f).slot = f /\ NewSession(f).hand = None /\ NewSession(f).last = None
         /\ NewSession(f).feeder = "wait" /\ NewSession(f).pipe = <<>> /\ NewSession(f).age = 0
<1>1. (~hardwareFailed') \in BOOLEAN  OBVIOUS
<1>2. <<>> \in Seq(Units)  OBVIOUS
<1>3. NewSession(f) \in Sessions  BY <1>1, <1>2 DEF NewSession, Sessions
<1> QED  BY <1>3, FeedAssumption DEF NewSession

\* Whether the encoder is replaced or not, the frame is the latest.
LEMMA Fed ==
  ASSUME FeedInv, NEW f \in Frames, NEW force \in BOOLEAN, Feed(f, force),
         presented' = f, dedup' \in {f, None},
         {pendingFlush', forcedRecently', keyframeReq'} \subseteq BOOLEAN,
         keyframeReq' = keyframeReq \/ force = TRUE
  PROVE  FeedInv'
<1> USE DEF FeedInv
<1>1. CASE Respawns(force)
  <2>1. Shutdown /\ session' = NewSession(f)  BY <1>1 DEF Feed
  <2>2. /\ seen' \in Frames \cup {None}
        /\ shed' \in BOOLEAN /\ owed' \in BOOLEAN /\ hardwareFailed' \in BOOLEAN
    BY <2>1, ShutdownTypes
  <2>3. /\ session' \in Sessions /\ session' # None
        /\ session'.alive = TRUE /\ session'.needsFlush = FALSE
        /\ session'.slot = f /\ session'.hand = None /\ session'.last = None
        /\ session'.feeder = "wait" /\ session'.pipe = <<>> /\ session'.age = 0
    BY <2>1, <2>2, NewFacts
  <2>4. f # None  BY FeedAssumption
  <2>5. Len(session'.pipe) = 0 /\ 0 <= PipeCap  BY <2>3, FeedAssumption
  <2>6. SessionInv'  BY <2>2, <2>3, <2>5 DEF SessionInv
  <2>7. FreshInv'  BY <2>3, <2>4 DEF FreshInv, Latest
  <2>8. HeldInv'  BY <2>3 DEF HeldInv
  <2>9. KeyframeKept'  BY <2>3 DEF KeyframeKept, Alive
  <2> QED  BY <2>6, <2>7, <2>8, <2>9
<1>2. CASE ~Respawns(force)
  <2>1. /\ session' = [session EXCEPT !.slot = f] /\ Alive /\ force = FALSE
        /\ UNCHANGED <<seen, owed, shed, hardwareFailed>>
    BY <1>2 DEF Feed, Put, Respawns, viewers
  <2>2. session \in Sessions /\ session # None /\ session.alive = TRUE
    BY <2>1 DEF Alive, SessionInv, Sessions
  <2>3. /\ session' \in Sessions /\ session'.slot = f
        /\ UNCHANGED <<session.alive, session.needsFlush, session.hand, session.last,
                       session.feeder, session.pipe, session.age>>
    BY <2>1, <2>2 DEF Sessions
  <2>4. session' # None /\ f # None  BY <2>3, FeedAssumption
  <2>5. SessionInv'  BY <2>1, <2>2, <2>3, <2>4 DEF SessionInv
  <2>6. FreshInv'  BY <2>3, <2>4 DEF FreshInv, Latest
  <2>7. HeldInv'  BY <2>1, <2>3 DEF HeldInv
  <2>8. KeyframeKept'  BY <2>1, <2>2, <2>3, <2>4 DEF KeyframeKept, Alive, KeyframeIn
  <2> QED  BY <2>5, <2>6, <2>7, <2>8
<1> QED  BY <1>1, <1>2

\* PixelStreamer::submit_bgra: a request served, an unchanged frame, or a new one.
LEMMA SubmitKeeps ==
  ASSUME FeedInv, NEW f \in Frames, SubmitBgra(f)
  PROVE  FeedInv'
<1>1. presented' = f  BY DEF SubmitBgra
<1>2. Remembered(f) \in {f, None}  BY DEF Remembered
<1>3. /\ pendingFlush \in BOOLEAN /\ forcedRecently \in BOOLEAN /\ keyframeReq \in BOOLEAN
  BY DEF FeedInv, SessionInv
<1>4. CASE ServeKeyframe(f)
  <2>1. /\ Feed(f, TRUE) /\ dedup' \in {f, None} /\ keyframeReq' = FALSE
        /\ pendingFlush' = TRUE /\ forcedRecently' = TRUE
    BY <1>4 DEF ServeKeyframe
  <2> QED  BY <1>1, <2>1, Fed
<1>5. CASE Due(f)
  <2>1. UNCHANGED <<keyframeReq, forcedRecently>>  BY <1>5 DEF Due
  <2>2. CASE Feed(f, FALSE) /\ dedup' = Remembered(f) /\ pendingFlush' \in BOOLEAN
    BY <1>1, <1>2, <1>3, <2>1, <2>2, Fed
  <2>3. CASE dedup = f /\ UNCHANGED <<dedup, pendingFlush, session, viewers, hardwareFailed>>
    <3>1. UNCHANGED <<dedup, pendingFlush, session, seen, owed, shed, hardwareFailed>>
      BY <2>3 DEF viewers
    <3>2. f # None  BY FeedAssumption
    <3>3. SessionInv'  BY <1>1, <2>1, <3>1 DEF FeedInv, SessionInv
    <3>4. FreshInv'  BY <1>1, <2>3, <3>1, <3>2 DEF FeedInv, FreshInv, Alive, Latest
    <3>5. HeldInv'  BY <3>1 DEF FeedInv, HeldInv, Alive
    <3>6. KeyframeKept'  BY <2>1, <3>1 DEF FeedInv, KeyframeKept, Alive, KeyframeIn
    <3> QED  BY <3>3, <3>4, <3>5, <3>6 DEF FeedInv
  <2> QED  BY <1>3, <1>5, <2>2, <2>3 DEF Due, SkipUnchanged, EncodeChanged
<1> QED  BY <1>4, <1>5 DEF SubmitBgra

-----------------------------------------------------------------------------
(* The session's threads and process.                                        *)

\* What a step of the feeder leaves as it was.
LEMMA FeederFrame ==
  ASSUME FeedInv, FeederOnly
  PROVE  /\ UNCHANGED <<presented, dedup, pendingFlush, forcedRecently, hardwareFailed,
                        keyframeReq, seen, owed, shed>>
         /\ {presented', dedup', seen'} \subseteq Frames \cup {None}
         /\ {pendingFlush', forcedRecently', hardwareFailed', keyframeReq', owed', shed'}
              \subseteq BOOLEAN
BY DEF FeederOnly, streamer, viewers, FeedInv, SessionInv

LEMMA TakeKeeps ==
  ASSUME FeedInv, FeederTakes
  PROVE  FeedInv'
<1>1. /\ session \in Sessions /\ session # None /\ session.feeder = "wait"
      /\ session.slot # None
      /\ session' = [session EXCEPT !.feeder = "write", !.hand = session.slot, !.slot = None]
      /\ FeederOnly
  BY DEF FeederTakes, FeedInv, SessionInv
<1>2. /\ session' \in Sessions
      /\ session'.feeder = "write" /\ session'.hand = session.slot /\ session'.slot = None
      /\ UNCHANGED <<session.alive, session.needsFlush, session.last, session.pipe, session.age>>
  BY <1>1 DEF Sessions
<1>3. session' # None  BY <1>2, FeedAssumption
<1>4. SessionInv'  BY <1>1, <1>2, <1>3, FeederFrame DEF FeedInv, SessionInv
<1>5. FreshInv'  BY <1>1, <1>2, <1>3, FeederFrame DEF FeedInv, FreshInv, Alive, Latest
<1>6. HeldInv'  BY <1>1, <1>2, FeederFrame DEF FeedInv, HeldInv, Alive
<1>7. KeyframeKept'
  BY <1>1, <1>2, <1>3, FeederFrame DEF FeedInv, KeyframeKept, Alive, KeyframeIn
<1> QED  BY <1>4, <1>5, <1>6, <1>7 DEF FeedInv

LEMMA TimeoutKeeps ==
  ASSUME FeedInv, FeederTimesOut
  PROVE  FeedInv'
<1>1. /\ session \in Sessions /\ session # None /\ session.feeder = "wait"
      /\ session.slot = None /\ session.last # None /\ session.hand = None
      /\ session' = [session EXCEPT !.feeder = "refeed", !.hand = session.last]
      /\ FeederOnly
  BY DEF FeederTimesOut, FeedInv, SessionInv
<1>2. /\ session' \in Sessions
      /\ session'.feeder = "refeed" /\ session'.hand = session.last
      /\ UNCHANGED <<session.alive, session.needsFlush, session.slot, session.last,
                     session.pipe, session.age>>
  BY <1>1 DEF Sessions
<1>3. session' # None  BY <1>2, FeedAssumption
<1>4. SessionInv'  BY <1>1, <1>2, <1>3, FeederFrame DEF FeedInv, SessionInv
<1>5. FreshInv'  BY <1>1, <1>2, <1>3, FeederFrame DEF FeedInv, FreshInv, Alive, Latest
<1>6. HeldInv'  BY <1>1, <1>2, FeederFrame DEF FeedInv, HeldInv, Alive
<1>7. KeyframeKept'
  BY <1>1, <1>2, <1>3, FeederFrame DEF FeedInv, KeyframeKept, Alive, KeyframeIn
<1> QED  BY <1>4, <1>5, <1>6, <1>7 DEF FeedInv

\* The frame written is the last in the pipe, and all that was there stays.
LEMMA WriteKeeps ==
  ASSUME FeedInv, FeederWrites
  PROVE  FeedInv'
<1> DEFINE unit == [frame |-> session.hand, keyframe |-> session.age = 0]
           n == Len(session.pipe)
<1>1. /\ session \in Sessions /\ session # None /\ session.alive = TRUE
      /\ session.feeder \in {"write", "refeed"} /\ n < PipeCap /\ session.hand # None
      /\ session' = [session EXCEPT
           !.pipe = Append(session.pipe, unit), !.age = (session.age + 1) % Gop,
           !.last = session.hand, !.hand = None,
           !.needsFlush = session.feeder = "write", !.feeder = "wait"]
      /\ FeederOnly
  BY DEF FeederWrites, Alive, FeedInv, SessionInv
<1>2. /\ session.hand \in Frames /\ session.pipe \in Seq(Units) /\ session.age \in Nat
      /\ n \in Nat
  BY <1>1 DEF Sessions
<1>3. (session.age = 0) \in BOOLEAN  OBVIOUS
<1>4. unit \in Units /\ unit.frame = session.hand /\ unit.keyframe = (session.age = 0)
  BY <1>2, <1>3 DEF Units
<1>5. (session.age + 1) % Gop \in Nat  BY <1>2, FeedAssumption
<1> HIDE DEF unit
<1>6. /\ Append(session.pipe, unit) \in Seq(Units) /\ Len(Append(session.pipe, unit)) = n + 1
      /\ Append(session.pipe, unit)[n + 1] = unit
      /\ \A i \in 1..n : Append(session.pipe, unit)[i] = session.pipe[i]
  BY <1>2, <1>4
<1>7. (session.feeder = "write") \in BOOLEAN  OBVIOUS
<1>8. /\ session' \in Sessions
      /\ session'.pipe = Append(session.pipe, unit) /\ session'.last = session.hand
      /\ session'.hand = None /\ session'.feeder = "wait"
      /\ session'.needsFlush = (session.feeder = "write")
      /\ UNCHANGED <<session.alive, session.slot>>
  BY <1>1, <1>5, <1>6, <1>7 DEF Sessions
<1>9. session' # None  BY <1>8, FeedAssumption
<1>10. SessionInv'
  <2>1. Len(session'.pipe) <= PipeCap  BY <1>1, <1>2, <1>6, <1>8, FeedAssumption
  <2> QED  BY <1>1, <1>8, <1>9, <2>1, FeederFrame DEF FeedInv, SessionInv
<1>11. FreshInv'
  BY <1>1, <1>8, <1>9, FeederFrame DEF FeedInv, FreshInv, Alive, Latest
<1>12. HeldInv'
  <2>1. Len(session'.pipe) = n + 1 /\ session'.pipe[n + 1].frame = session'.last
    BY <1>4, <1>6, <1>8
  <2>2. ASSUME session.feeder = "refeed"
        PROVE  n > 0 /\ session'.pipe[n].frame = session'.last
    <3>1. session.hand = session.last /\ n > 0 /\ session.pipe[n].frame = session.last
      BY <1>1, <2>2 DEF FeedInv, HeldInv, Alive
    <3>2. session'.pipe[n] = session.pipe[n]  BY <1>2, <1>6, <1>8, <3>1
    <3> QED  BY <1>8, <3>1, <3>2
  <2>3. session'.feeder # "refeed"  BY <1>8
  <2>4. \/ session'.needsFlush
        \/ n > 0 /\ session'.pipe[n].frame = session'.last
    BY <1>1, <1>8, <2>2
  <2> QED  BY <1>2, <2>1, <2>3, <2>4 DEF HeldInv
<1>13. KeyframeKept'
  <2>1. UNCHANGED <<owed, keyframeReq>>  BY <1>1, FeederFrame
  <2>2. Alive'  BY <1>1, <1>8, <1>9 DEF Alive
  <2>3. Len(session'.pipe) = n + 1  BY <1>6, <1>8
  <2>4. ASSUME session.age = 0 PROVE session'.pipe[n + 1].keyframe = TRUE
    BY <1>4, <1>6, <1>8, <2>4
  <2>5. ASSUME NEW i \in 1..n, session.pipe[i].keyframe
        PROVE  session'.pipe[i].keyframe
    BY <1>6, <1>8, <2>5
  <2>6. ASSUME owed, ~keyframeReq
        PROVE  \E i \in 1..(n + 1) : session'.pipe[i].keyframe
    <3>1. CASE session.age = 0
      <4>1. n + 1 \in 1..(n + 1)  BY <1>2
      <4> QED  BY <2>4, <3>1, <4>1
    <3>2. CASE session.age # 0
      <4>1. PICK i \in 1..n : session.pipe[i].keyframe
        BY <2>6, <3>2 DEF FeedInv, KeyframeKept, KeyframeIn
      <4>2. i \in 1..(n + 1)  BY <1>2
      <4> QED  BY <2>5, <4>1, <4>2
    <3> QED  BY <3>1, <3>2
  <2> QED  BY <2>1, <2>2, <2>3, <2>6 DEF KeyframeKept, KeyframeIn
<1> QED  BY <1>10, <1>11, <1>12, <1>13 DEF FeedInv

LEMMA EndKeeps ==
  ASSUME FeedInv, FeederEnds
  PROVE  FeedInv'
<1>1. /\ session \in Sessions /\ session # None /\ session.alive = FALSE
      /\ session' = [session EXCEPT !.feeder = "ended", !.hand = None]
      /\ FeederOnly
  BY DEF FeederEnds, FeedInv, SessionInv, Sessions
<1>2. /\ session' \in Sessions /\ session'.feeder = "ended" /\ session'.hand = None
      /\ UNCHANGED <<session.alive, session.needsFlush, session.last, session.pipe>>
  BY <1>1 DEF Sessions
<1>3. session' # None /\ ~Alive /\ ~Alive'  BY <1>1, <1>2, FeedAssumption DEF Alive
<1>4. SessionInv'  BY <1>1, <1>2, <1>3, FeederFrame DEF FeedInv, SessionInv
<1>5. FreshInv' /\ HeldInv'  BY <1>3 DEF FreshInv, HeldInv
<1>6. KeyframeKept'  BY <1>1, <1>3, FeederFrame DEF FeedInv, KeyframeKept
<1> QED  BY <1>4, <1>5, <1>6 DEF FeedInv

-----------------------------------------------------------------------------
(* ffmpeg, the splitter and the drain; the environment.                      *)

\* The unit that leaves the pipe is the oldest; the last one stays.
LEMMA EmitKeeps ==
  ASSUME FeedInv, Emit
  PROVE  FeedInv'
<1> DEFINE n == Len(session.pipe)
<1>1. /\ session \in Sessions /\ session # None /\ session.alive = TRUE /\ n >= 2
      /\ Broadcast(1) /\ owed' = (owed /\ ~KeyframeIn(1))
      /\ session' = [session EXCEPT !.pipe = Tail(session.pipe), !.produced = TRUE]
      /\ UNCHANGED <<presented, dedup, pendingFlush, forcedRecently, hardwareFailed,
                     keyframeReq>>
  BY DEF Emit, Alive, FeedInv, SessionInv, streamer
<1>2. session.pipe \in Seq(Units) /\ n \in Nat  BY <1>1 DEF Sessions
<1>3. /\ Tail(session.pipe) \in Seq(Units) /\ Len(Tail(session.pipe)) = n - 1
      /\ \A i \in 1..(n - 1) : Tail(session.pipe)[i] = session.pipe[i + 1]
  BY <1>1, <1>2
<1>4. /\ session' \in Sessions /\ session'.pipe = Tail(session.pipe)
      /\ UNCHANGED <<session.alive, session.needsFlush, session.slot, session.hand,
                     session.last, session.feeder, session.age>>
  BY <1>1, <1>3 DEF Sessions
<1>5. session' # None  BY <1>4, FeedAssumption
<1>6. seen' = session.pipe[1].frame  BY <1>1 DEF Broadcast
<1>7. SessionInv'
  <2>1. 1 \in 0..n  BY <1>1, <1>2
  <2>2. seen' \in Frames \cup {None} /\ shed' \in BOOLEAN
    BY <1>1, <2>1, BroadcastTypes DEF FeedInv
  <2>3. owed' \in BOOLEAN  BY <1>1
  <2>4. Len(session'.pipe) <= PipeCap
    BY <1>1, <1>2, <1>3, <1>4, FeedAssumption DEF FeedInv, SessionInv
  <2> QED  BY <1>1, <1>4, <1>5, <2>2, <2>3, <2>4 DEF FeedInv, SessionInv
<1>8. FreshInv'  BY <1>1, <1>4, <1>5 DEF FeedInv, FreshInv, Alive, Latest
<1>9. HeldInv'
  <2>1. Alive  BY <1>1 DEF Alive
  <2>2. session'.feeder = "refeed" => session'.hand = session'.last
    BY <1>4, <2>1 DEF FeedInv, HeldInv
  <2>3. ASSUME session.last # None, ~session.needsFlush
        PROVE  session.pipe[n - 1].frame = session.last
    BY <1>1, <1>2, <2>1, <2>3 DEF FeedInv, HeldInv
  <2>4. ASSUME session.last # None
        PROVE  /\ Len(session'.pipe) > 0
               /\ session'.pipe[Len(session'.pipe)].frame = session'.last
    <3>1. session.pipe[n].frame = session.last  BY <2>1, <2>4 DEF FeedInv, HeldInv
    <3>2. n - 1 \in 1..(n - 1) /\ (n - 1) + 1 = n  BY <1>1, <1>2
    <3>3. Tail(session.pipe)[n - 1] = session.pipe[n]  BY <1>3, <3>2
    <3>4. Len(session'.pipe) = n - 1  BY <1>3, <1>4
    <3> QED  BY <1>4, <3>1, <3>2, <3>3, <3>4
  <2>5. ASSUME session.last # None, ~session.needsFlush
        PROVE  \/ Len(session'.pipe) = 1 /\ seen' = session'.last
               \/ Len(session'.pipe) > 1
                  /\ session'.pipe[Len(session'.pipe) - 1].frame = session'.last
    <3>1. Len(session'.pipe) = n - 1  BY <1>3, <1>4
    <3>2. CASE n = 2
      BY <1>4, <1>6, <2>3, <2>5, <3>1, <3>2
    <3>3. CASE n # 2
      <4>1. n >= 2 /\ n # 2 /\ n \in Nat  BY <1>1, <1>2, <3>3
      <4> HIDE DEF n
      <4>2. n - 2 \in 1..(n - 1) /\ (n - 2) + 1 = n - 1 /\ (n - 1) - 1 = n - 2 /\ n - 1 > 1
        BY <4>1
      <4>3. Tail(session.pipe)[n - 2] = session.pipe[n - 1]  BY <1>3, <4>2
      <4> QED  BY <1>4, <2>3, <2>5, <3>1, <4>2, <4>3
    <3> QED  BY <3>2, <3>3
  <2> QED  BY <1>4, <2>2, <2>4, <2>5 DEF HeldInv
<1>10. KeyframeKept'
  <2>1. Alive'  BY <1>1, <1>4, <1>5 DEF Alive
  <2>2. Len(session'.pipe) = n - 1  BY <1>3, <1>4
  <2>3. ASSUME owed', ~keyframeReq', session'.age # 0
        PROVE  \E i \in 1..(n - 1) : session'.pipe[i].keyframe
    <3>1. owed /\ ~KeyframeIn(1) /\ ~keyframeReq /\ session.age # 0  BY <1>1, <1>4, <2>3
    <3>2. PICK i \in 1..n : session.pipe[i].keyframe
      BY <3>1 DEF FeedInv, KeyframeKept, KeyframeIn
    <3>3. i # 1  BY <3>1, <3>2 DEF KeyframeIn
    <3>4. i - 1 \in 1..(n - 1) /\ (i - 1) + 1 = i  BY <1>2, <3>2, <3>3
    <3>5. session'.pipe[i - 1] = session.pipe[i]  BY <1>3, <1>4, <3>4
    <3> QED  BY <3>2, <3>4, <3>5
  <2> QED  BY <2>1, <2>2, <2>3 DEF KeyframeKept, KeyframeIn
<1> QED  BY <1>7, <1>8, <1>9, <1>10 DEF FeedInv

LEMMA CrashKeeps ==
  ASSUME FeedInv, Crash
  PROVE  FeedInv'
<1>1. PICK n \in 0..Len(session.pipe) :
        /\ Broadcast(n)
        /\ session' = [session EXCEPT !.alive = FALSE, !.pipe = <<>>,
                                      !.produced = session.produced \/ n > 0]
  BY DEF Crash
<1>2. /\ session \in Sessions /\ session # None
      /\ owed' = (owed /\ keyframeReq)
      /\ UNCHANGED <<presented, dedup, pendingFlush, forcedRecently, hardwareFailed,
                     keyframeReq>>
  BY DEF Crash, Alive, FeedInv, SessionInv, streamer
<1>3. <<>> \in Seq(Units)  OBVIOUS
<1>4. (session.produced \/ n > 0) \in BOOLEAN  OBVIOUS
<1>5. /\ session' \in Sessions /\ session'.pipe = <<>> /\ session'.alive = FALSE
      /\ UNCHANGED <<session.needsFlush, session.hand, session.last, session.feeder>>
  BY <1>1, <1>2, <1>3, <1>4 DEF Sessions
<1>6. session' # None /\ ~Alive'  BY <1>5, FeedAssumption DEF Alive
<1>7. SessionInv'
  <2>1. seen' \in Frames \cup {None} /\ shed' \in BOOLEAN
    BY <1>1, <1>2, BroadcastTypes DEF FeedInv
  <2>2. owed' \in BOOLEAN  BY <1>2
  <2>3. Len(session'.pipe) = 0  BY <1>5
  <2>4. 0 <= PipeCap  BY FeedAssumption
  <2> QED  BY <1>2, <1>5, <1>6, <2>1, <2>2, <2>3, <2>4 DEF FeedInv, SessionInv
<1>8. FreshInv' /\ HeldInv'  BY <1>6 DEF FreshInv, HeldInv
<1>9. KeyframeKept'  BY <1>2 DEF KeyframeKept
<1> QED  BY <1>7, <1>8, <1>9 DEF FeedInv

LEMMA RequestKeeps ==
  ASSUME FeedInv, RequestKeyframe
  PROVE  FeedInv'
<1>1. /\ UNCHANGED <<presented, dedup, pendingFlush, forcedRecently, hardwareFailed,
                     session, seen, shed>>
      /\ keyframeReq' = TRUE /\ owed' = TRUE
  BY DEF RequestKeyframe, streamer
<1>2. SessionInv'  BY <1>1 DEF FeedInv, SessionInv
<1>3. FreshInv' /\ HeldInv'  BY <1>1 DEF FeedInv, FreshInv, HeldInv, Alive, Latest
<1>4. KeyframeKept'  BY <1>1 DEF KeyframeKept
<1> QED  BY <1>2, <1>3, <1>4 DEF FeedInv

\* The interval is over, or nothing happens.
LEMMA IdleKeeps ==
  ASSUME FeedInv, IntervalElapses \/ UNCHANGED vars
  PROVE  FeedInv'
<1>1. /\ UNCHANGED <<presented, dedup, pendingFlush, hardwareFailed, session, keyframeReq,
                     seen, owed, shed>>
      /\ forcedRecently' \in BOOLEAN
  BY DEF IntervalElapses, vars, streamer, viewers, FeedInv, SessionInv
<1>2. SessionInv'  BY <1>1 DEF FeedInv, SessionInv
<1>3. FreshInv' /\ HeldInv'  BY <1>1 DEF FeedInv, FreshInv, HeldInv, Alive, Latest
<1>4. KeyframeKept'  BY <1>1 DEF FeedInv, KeyframeKept, Alive, KeyframeIn
<1> QED  BY <1>2, <1>3, <1>4 DEF FeedInv

-----------------------------------------------------------------------------
(* What the feed keeps.                                                      *)

LEMMA FeedInvariance == Spec => []FeedInv
<1>1. Init => FeedInv
  BY DEF Init, FeedInv, SessionInv, FreshInv, HeldInv, KeyframeKept, Alive
<1>2. FeedInv /\ [Next]_vars => FeedInv'
  <2> SUFFICES ASSUME FeedInv, [Next]_vars PROVE FeedInv'
    OBVIOUS
  <2>1. CASE Presents
    <3>1. PICK f \in Frames : SubmitBgra(f)  BY <2>1 DEF Presents
    <3> QED  BY <3>1, SubmitKeeps
  <2>2. CASE FeederTakes  BY <2>2, TakeKeeps
  <2>3. CASE FeederTimesOut  BY <2>3, TimeoutKeeps
  <2>4. CASE FeederWrites  BY <2>4, WriteKeeps
  <2>5. CASE FeederEnds  BY <2>5, EndKeeps
  <2>6. CASE Emit  BY <2>6, EmitKeeps
  <2>7. CASE Crash  BY <2>7, CrashKeeps
  <2>8. CASE RequestKeyframe  BY <2>8, RequestKeeps
  <2>9. CASE IntervalElapses \/ UNCHANGED vars  BY <2>9, IdleKeeps
  <2> QED  BY <2>1, <2>2, <2>3, <2>4, <2>5, <2>6, <2>7, <2>8, <2>9 DEF Next, Feeder
<1> QED  BY <1>1, <1>2, PTL DEF Spec

(* The feeder holds a frame exactly while it writes one, owes the second     *)
(* writing only of a frame it has written, and the pipe holds frames, never  *)
(* more than fit (the feeder thread of EncoderSession, pixel/lib.rs).        *)
THEOREM FeedTypeCorrect == Spec => []TypeOK
<1>1. FeedInv => TypeOK
  <2> SUFFICES ASSUME FeedInv PROVE TypeOK
    OBVIOUS
  <2>1. ASSUME session # None
        PROVE  /\ {session.slot, session.hand, session.last} \subseteq Frames \cup {None}
               /\ session.feeder \in {"wait", "write", "refeed", "ended"}
               /\ \A i \in 1..Len(session.pipe) : session.pipe[i].frame \in Frames
    <3>1. session \in Sessions  BY <2>1 DEF FeedInv, SessionInv
    <3>2. session.pipe \in Seq(Units)  BY <3>1 DEF Sessions
    <3>3. ASSUME NEW i \in 1..Len(session.pipe) PROVE session.pipe[i].frame \in Frames
      <4>1. session.pipe[i] \in Units  BY <3>2
      <4> QED  BY <4>1 DEF Units
    <3> QED  BY <3>1, <3>3 DEF Sessions
  <2> QED  BY <2>1 DEF TypeOK, FeedInv, SessionInv
<1> QED  BY <1>1, FeedInvariance, PTL

\* The feeder and the splitter have nothing left to do.
Still ==
  /\ ~(session.feeder = "wait" /\ (session.slot # None \/ session.needsFlush))
  /\ ~(session.feeder \in {"write", "refeed"} /\ Len(session.pipe) < PipeCap)
  /\ Len(session.pipe) < 2

(* While the encoder lives, the feeder and the splitter come to a stop only  *)
(* when what the guest presents is what the viewers were sent: no frame is   *)
(* left in the mailbox, in the feeder's hand or behind the splitter's        *)
(* one-unit delay (the second writing of EncoderSession's feeder thread).    *)
THEOREM PictureIsOut == Spec => [](Alive /\ Still => seen = presented)
<1>1. FeedInv => (Alive /\ Still => seen = presented)
  <2> SUFFICES ASSUME FeedInv, Alive, Still PROVE seen = presented
    OBVIOUS
  <2>1. session \in Sessions /\ session # None  BY DEF Alive, FeedInv, SessionInv
  <2>2. Len(session.pipe) \in Nat  BY <2>1 DEF Sessions
  <2>3. session.feeder \notin {"write", "refeed"}  BY <2>2, FeedAssumption DEF Still
  <2>4. session.feeder = "wait"  BY <2>1, <2>3 DEF Sessions, FeedInv, SessionInv, Alive
  <2>5. session.slot = None /\ ~session.needsFlush /\ session.hand = None
    BY <2>1, <2>4 DEF Still, FeedInv, SessionInv
  <2>6. session.last = presented /\ session.last # None
    BY <2>5 DEF FeedInv, FreshInv, Latest
  <2> QED  BY <2>2, <2>5, <2>6 DEF FeedInv, HeldInv, Still
<1> QED  BY <1>1, FeedInvariance, PTL

(* A viewer that joined and waits for its keyframe is never forgotten: its   *)
(* request is pending, or a living encoder has the keyframe yet to write or  *)
(* in its pipe (Hub::register, submit_bgra's rate limit).                    *)
THEOREM KeyframeIsKept == Spec => []KeyframeKept
<1>1. FeedInv => KeyframeKept  BY DEF FeedInv
<1> QED  BY <1>1, FeedInvariance, PTL
=============================================================================
