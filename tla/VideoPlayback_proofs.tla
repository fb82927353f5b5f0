------------------------- MODULE VideoPlayback_proofs -------------------------
(***************************************************************************)
(* Proofs about VideoPlayback, for any playlist, files and limits: only    *)
(* the current movie is heard, a decoder that compares the counter of its  *)
(* queued frames compares their number, and the counter of samples is what *)
(* is in the channel and the stream.                                       *)
(***************************************************************************)
EXTENDS VideoPlayback, FiniteSetTheorems, TLAPS

Channels == [frames : Nat, audioEnded : BOOLEAN, end : BOOLEAN, error : BOOLEAN]
VideoTypes ==
  [pc : {"none", "top", "count", "send", "audio", "reserved", "exited"},
   videoLeft : Nat, audioLeft : Int, held : Int, burst : Int, seen : Int,
   audioEndSent : BOOLEAN, endSent : BOOLEAN, stop : BOOLEAN, channel : Channels,
   queuedFrames : Int, prebuffered : Int, frames : Nat, shown : Int,
   finished : BOOLEAN, audioFinished : BOOLEAN]

Runs(v) == v.pc \notin {"none", "exited"}

\* The frames that are sent and not yet taken.
InFlight(v) == v.channel.frames + v.frames

(* queued_frames counts them, but for the one a decoder has sent and not   *)
(* yet counted: then it may have gone below zero.  No file holds as many   *)
(* frames as the counter can count.                                        *)
FramesCounted(v) ==
  /\ InFlight(v) + v.videoLeft < USIZE_MOD
  /\ v.pc # "count" => v.queuedFrames = InFlight(v)
  /\ v.pc = "count" =>
       v.queuedFrames = IF InFlight(v) = 0 THEN USIZE_MOD - 1 ELSE InFlight(v) - 1

(* A decoder that says it failed has ended; one that sends again has more. *)
MovieOK(v) ==
  /\ FramesCounted(v)
  /\ v.channel.error => ~Runs(v)
  /\ v.pc = "send" => v.videoLeft > 0

(* Only the current movie and the next are decoded, only the current one   *)
(* has seen its clock run, and when it is left its decoder has ended       *)
(* before the queue was emptied.                                           *)
InTurn(m) ==
  /\ Runs(video[m]) => m \in {current, next}
  /\ Runs(video[m]) /\ (video[m].pc = "reserved" \/ video[m].seen >= 0) => m = current /\ device
  /\ pcm[m] > 0 => m = current /\ device
  /\ at = "advance" => pcm[m] = 0
  /\ at = "advance" /\ m = current => ~Runs(video[m])

Types ==
  /\ content \in Contents /\ device \in BOOLEAN
  /\ elapsed \in Int
  /\ pcm \in [Movie -> Nat]
  /\ video \in [Movie -> VideoTypes]

VideoInv == Types /\ \A m \in Movie : MovieOK(video[m]) /\ InTurn(m)

-------------------------------------------------------------------------------
LEMMA Constants ==
  /\ {PrebufferMax, Late, EndGap, Horizon, USIZE_MOD} \subseteq Nat /\ 0 < USIZE_MOD
  /\ Movie \subseteq Nat \ {0}
  /\ \A c \in Contents, m \in Movie :
       c[m].video \in Nat /\ c[m].audio \in Nat /\ c[m].video < USIZE_MOD
<1>1. {PrebufferMax, Late, EndGap, Horizon, USIZE_MOD} \subseteq Nat /\ Horizon < USIZE_MOD
  BY VideoAssumption
<1>2. Movie \subseteq Nat \ {0}
  BY VideoAssumption DEF Movie
<1>3. ASSUME NEW c \in Contents, NEW m \in Movie
      PROVE  c[m].video \in Nat /\ c[m].audio \in Nat /\ c[m].video < USIZE_MOD
  <2>1. c \in [Movie -> [video : Nat, audio : Nat, hold : BOOLEAN]]
    BY VideoAssumption
  <2>2. c[m].video + Late < Horizon
    BY VideoAssumption
  <2> QED
    BY <2>1, <2>2, <1>1
<1> QED
  BY <1>1, <1>2, <1>3

LEMMA Extremes ==
  ASSUME NEW a \in Int, NEW b \in Int
  PROVE  /\ Min({a, b}) = IF a <= b THEN a ELSE b
         /\ Max({a, b}) = IF a >= b THEN a ELSE b
<1>1. CASE a <= b
  BY <1>1 DEF Min, Max
<1>2. CASE b < a
  BY <1>2 DEF Min, Max
<1> QED
  BY <1>1, <1>2

LEMMA NotNegative == ASSUME NEW a \in Int PROVE Max({0, a}) \in Nat
<1>1. Max({0, a}) = IF 0 >= a THEN 0 ELSE a
  BY Extremes
<1> QED
  BY <1>1

\* The counter wraps only from zero to its last value and back.
LEMMA Wraps ==
  ASSUME NEW n \in Nat, 0 < n
  PROVE  /\ \A x \in 0..(n - 1) : x % n = x
         /\ n % n = 0
         /\ (-1) % n = n - 1
  OBVIOUS

-------------------------------------------------------------------------------
(* What a decoder and a player do to a movie's record.                     *)
LEMMA Fields ==
  ASSUME NEW v \in VideoTypes
  PROVE  /\ v.videoLeft \in Nat /\ v.audioLeft \in Int /\ v.held \in Int /\ v.burst \in Int
         /\ v.seen \in Int /\ v.audioEndSent \in BOOLEAN /\ v.endSent \in BOOLEAN
         /\ v.stop \in BOOLEAN /\ v.queuedFrames \in Int /\ v.prebuffered \in Int
         /\ v.frames \in Nat /\ v.shown \in Int /\ v.finished \in BOOLEAN
         /\ v.audioFinished \in BOOLEAN
         /\ v.channel \in Channels /\ v.channel.frames \in Nat
  BY DEF VideoTypes, Channels

LEMMA AbsentOK == Absent \in VideoTypes /\ MovieOK(Absent) /\ ~Runs(Absent)
  BY Constants DEF Absent, VideoTypes, Channels, NoEvents, MovieOK, FramesCounted, InFlight, Runs

LEMMA FreshOK ==
  ASSUME content \in Contents, NEW m \in Movie
  PROVE  Fresh(m) \in VideoTypes /\ MovieOK(Fresh(m)) /\ Fresh(m).pc = "top" /\ Fresh(m).seen = -1
<1> DEFINE w == Fresh(m)
<1>1. content[m].video \in Nat /\ content[m].audio \in Int /\ content[m].video < USIZE_MOD
  BY Constants
<1>2. w \in VideoTypes
  BY <1>1, AbsentOK, Zenon DEF Fresh, VideoTypes
<1>3. /\ w.pc = "top" /\ w.seen = -1 /\ w.videoLeft = content[m].video
      /\ w.frames = 0 /\ w.queuedFrames = 0 /\ w.channel = NoEvents
  BY DEF Fresh, Absent
<1>4. InFlight(w) = 0 /\ ~w.channel.error
  BY <1>3 DEF InFlight, NoEvents
<1> QED
  BY <1>1, <1>2, <1>3, <1>4 DEF MovieOK, FramesCounted

LEMMA SendFrameOK ==
  ASSUME NEW v \in VideoTypes, MovieOK(v), v.videoLeft > 0, v.pc \in {"top", "send"}
  PROVE  /\ SendFrame(v) \in VideoTypes /\ MovieOK(SendFrame(v))
         /\ SendFrame(v).pc = "count" /\ SendFrame(v).seen = v.seen
<1> DEFINE w == SendFrame(v)
           c == [v.channel EXCEPT !.frames = @ + 1]
<1>1. w \in VideoTypes /\ w.pc = "count" /\ w.seen = v.seen
  <2>1. c \in Channels
    BY Fields DEF Channels
  <2>2. w = [v EXCEPT !.videoLeft = @ - 1, !.channel = c, !.burst = @ + 1, !.pc = "count"]
    BY DEF SendFrame
  <2>3. v.videoLeft - 1 \in Nat /\ v.burst + 1 \in Int
    BY Fields
  <2>4. ASSUME NEW x \in Nat, NEW ch \in Channels, NEW b \in Int
        PROVE  [v EXCEPT !.videoLeft = x, !.channel = ch, !.burst = b, !.pc = "count"]
                 \in VideoTypes
    BY Zenon DEF VideoTypes
  <2>5. w.pc = "count" /\ w.seen = v.seen
    BY <2>2 DEF VideoTypes
  <2> HIDE DEF c, w
  <2>6. [v EXCEPT !.videoLeft = @ - 1, !.channel = c, !.burst = @ + 1, !.pc = "count"]
          \in VideoTypes
    BY <2>1, <2>3, <2>4
  <2> QED
    BY <2>2, <2>5, <2>6
<1>2. /\ w.videoLeft = v.videoLeft - 1 /\ w.frames = v.frames /\ w.queuedFrames = v.queuedFrames
      /\ w.channel.frames = v.channel.frames + 1 /\ w.channel.error = v.channel.error
  BY DEF SendFrame, VideoTypes, Channels
<1>3. FramesCounted(w)
  BY <1>1, <1>2, Constants DEF FramesCounted, InFlight, MovieOK, VideoTypes, Channels
<1> QED
  BY <1>1, <1>2, <1>3 DEF MovieOK, Runs

LEMMA CountedOK ==
  ASSUME NEW v \in VideoTypes, FramesCounted(v), v.pc = "count"
  PROVE  Counted(v) = InFlight(v) /\ InFlight(v) \in Nat
<1>1. InFlight(v) \in Nat /\ v.queuedFrames \in Int /\ v.videoLeft \in Nat
  BY DEF InFlight, VideoTypes, Channels
<1>2. InFlight(v) < USIZE_MOD
  BY <1>1, Constants DEF FramesCounted
<1>3. CASE InFlight(v) = 0
  <2>1. v.queuedFrames + 1 = USIZE_MOD
    BY <1>3, Constants DEF FramesCounted
  <2> QED
    BY <2>1, <1>3, Wraps, Constants DEF Counted
<1>4. CASE InFlight(v) > 0
  <2>1. v.queuedFrames + 1 = InFlight(v)
    BY <1>1, <1>4, Constants DEF FramesCounted
  <2>2. InFlight(v) \in 0..(USIZE_MOD - 1)
    BY <1>1, <1>2, Constants
  <2> QED
    BY <2>1, <2>2, <1>1, Wraps, Constants DEF Counted
<1> QED
  BY <1>1, <1>3, <1>4

LEMMA DrainedOK ==
  ASSUME NEW v \in VideoTypes, MovieOK(v)
  PROVE  /\ Drained(v) \in VideoTypes /\ MovieOK(Drained(v))
         /\ Drained(v).pc = v.pc /\ Drained(v).seen = v.seen
<1> DEFINE w == Drained(v)
<1>1. w \in VideoTypes /\ w.pc = v.pc /\ w.seen = v.seen
  <2>1. /\ NoEvents \in Channels /\ v.frames + v.channel.frames \in Nat
        /\ (v.audioFinished \/ v.channel.audioEnded) \in BOOLEAN
        /\ (v.finished \/ v.channel.end) \in BOOLEAN
    BY Fields DEF NoEvents, Channels
  <2> QED
    BY <2>1 DEF Drained, VideoTypes
<1>2. /\ w.videoLeft = v.videoLeft /\ w.frames = v.frames + v.channel.frames
      /\ w.queuedFrames = v.queuedFrames /\ w.channel.frames = 0 /\ ~w.channel.error
  BY DEF Drained, VideoTypes, Channels, NoEvents
<1>3. InFlight(w) = InFlight(v)
  BY <1>2 DEF InFlight, VideoTypes, Channels
<1> QED
  BY <1>1, <1>2, <1>3 DEF MovieOK, FramesCounted, Runs

LEMMA StoppedOK ==
  ASSUME NEW v \in VideoTypes, MovieOK(v), ~Runs(v)
  PROVE  /\ Stopped(v) \in VideoTypes /\ MovieOK(Stopped(v))
         /\ Stopped(v).pc = v.pc /\ Stopped(v).seen = v.seen
<1> DEFINE w == Stopped(v)
<1>1. w \in VideoTypes /\ w.pc = v.pc /\ w.seen = v.seen
  <2>1. ASSUME NEW b \in BOOLEAN, NEW c \in Channels, NEW f \in Nat, NEW x \in Int, NEW y \in Int
        PROVE  [v EXCEPT !.stop = b, !.channel = c, !.frames = f, !.queuedFrames = x,
                         !.prebuffered = y, !.finished = b] \in VideoTypes
    BY Zenon DEF VideoTypes
  <2>2. NoEvents \in Channels /\ 0 \in Nat /\ 0 \in Int /\ TRUE \in BOOLEAN
    BY DEF NoEvents, Channels
  <2>3. w \in VideoTypes
    BY <2>1, <2>2 DEF Stopped
  <2> QED
    BY <2>3, Zenon DEF Stopped, VideoTypes
<1>2. /\ w.videoLeft = v.videoLeft /\ w.frames = 0 /\ w.queuedFrames = 0
      /\ w.channel.frames = 0 /\ ~w.channel.error
  BY DEF Stopped, VideoTypes, Channels, NoEvents
<1>3. InFlight(w) = 0 /\ w.videoLeft < USIZE_MOD
  BY <1>2, Constants DEF InFlight, MovieOK, FramesCounted, VideoTypes, Channels
<1> QED
  BY <1>1, <1>2, <1>3, Constants DEF MovieOK, FramesCounted, Runs, VideoTypes

LEMMA DroppedOK ==
  ASSUME NEW v \in VideoTypes, MovieOK(v)
  PROVE  /\ Dropped(v) \in VideoTypes /\ MovieOK(Dropped(v))
         /\ Runs(Dropped(v)) => Runs(v) /\ Dropped(v) = v
  BY AbsentOK DEF Dropped

\* next_frame takes no more than there is.
LEMMA TakenBounded ==
  ASSUME NEW v \in VideoTypes, NEW now \in Int
  PROVE  Taken(v, now) \in 0..v.frames
<1> DEFINE due == now - Late - v.shown
<1>1. v.frames \in Nat /\ v.shown \in Int /\ due \in Int
  BY Constants DEF VideoTypes
<1>2. Max({0, due}) \in Nat
  BY <1>1, NotNegative
<1>3. Min({v.frames, Max({0, due})}) \in 0..v.frames
  BY <1>1, <1>2, Extremes
<1> QED
  BY <1>1, <1>3 DEF Taken

LEMMA CountAfterOK ==
  ASSUME NEW v \in VideoTypes, FramesCounted(v), NEW taken \in 0..v.frames
  PROVE  CountAfter(v, taken) =
           IF v.pc # "count" THEN InFlight(v) - taken
           ELSE IF InFlight(v) = taken THEN USIZE_MOD - 1 ELSE InFlight(v) - taken - 1
<1>1. /\ InFlight(v) \in Nat /\ taken <= InFlight(v) /\ InFlight(v) < USIZE_MOD
      /\ v.queuedFrames \in Int /\ taken \in Nat /\ USIZE_MOD \in Nat
  BY Constants DEF InFlight, FramesCounted, VideoTypes, Channels
<1>2. CASE v.pc # "count"
  <2>1. v.queuedFrames - taken \in 0..(USIZE_MOD - 1)
    BY <1>1, <1>2 DEF FramesCounted
  <2> QED
    BY <2>1, <1>1, <1>2, Wraps DEF CountAfter, FramesCounted
<1>3. CASE v.pc = "count" /\ InFlight(v) = 0
  <2>1. taken = 0 /\ v.queuedFrames - taken = USIZE_MOD - 1
    BY <1>1, <1>3 DEF FramesCounted
  <2>2. (USIZE_MOD - 1) % USIZE_MOD = USIZE_MOD - 1
    BY Wraps, <1>1
  <2>3. CountAfter(v, taken) = USIZE_MOD - 1
    BY <2>1, <2>2 DEF CountAfter
  <2> QED
    BY <2>1, <2>3, <1>3
<1>4. CASE v.pc = "count" /\ InFlight(v) > 0
  <2>1. v.queuedFrames - taken = InFlight(v) - taken - 1
    BY <1>1, <1>4 DEF FramesCounted
  <2>2. CASE taken = InFlight(v)
    BY <2>1, <2>2, <1>1, <1>4, Wraps DEF CountAfter
  <2>3. CASE taken < InFlight(v)
    <3> DEFINE rest == InFlight(v) - taken - 1
    <3>1. rest \in 0..(USIZE_MOD - 1)
      BY <2>3, <1>1
    <3>2. v.queuedFrames - taken = rest
      BY <2>1
    <3> HIDE DEF rest
    <3>3. rest % USIZE_MOD = rest
      BY <3>1, <1>1, Wraps
    <3>4. CountAfter(v, taken) = rest
      BY <3>2, <3>3 DEF CountAfter
    <3> QED
      BY <3>4, <2>3, <1>1, <1>4 DEF rest
  <2> QED
    BY <2>2, <2>3, <1>1
<1> QED
  BY <1>1, <1>2, <1>3, <1>4

Shown(v, taken, leaves) ==
  [v EXCEPT !.frames = @ - taken, !.shown = @ + taken, !.queuedFrames = CountAfter(v, taken),
            !.stop = @ \/ leaves]

LEMMA TakenOK ==
  ASSUME NEW v \in VideoTypes, MovieOK(v), NEW taken \in 0..v.frames, NEW leaves \in BOOLEAN
  PROVE  /\ Shown(v, taken, leaves) \in VideoTypes /\ MovieOK(Shown(v, taken, leaves))
         /\ Shown(v, taken, leaves).pc = v.pc /\ Shown(v, taken, leaves).seen = v.seen
<1> DEFINE w == Shown(v, taken, leaves)
<1>1. /\ v.frames \in Nat /\ v.channel.frames \in Nat /\ taken \in Nat /\ taken <= v.frames
      /\ v.videoLeft \in Nat /\ USIZE_MOD \in Nat /\ InFlight(v) \in Nat
  BY Constants DEF VideoTypes, Channels, InFlight
<1>2. InFlight(v) < USIZE_MOD
  BY <1>1 DEF MovieOK, FramesCounted
<1>3. CountAfter(v, taken) \in Int
  BY <1>1, CountAfterOK DEF MovieOK
<1>4. w \in VideoTypes
  <2>1. v.frames - taken \in Nat /\ v.shown + taken \in Int /\ (v.stop \/ leaves) \in BOOLEAN
    BY <1>1, Fields
  <2> QED
    BY <2>1, <1>3 DEF Shown, VideoTypes
<1>5. /\ w.pc = v.pc /\ w.seen = v.seen /\ w.frames = v.frames - taken
      /\ w.queuedFrames = CountAfter(v, taken) /\ w.channel = v.channel
      /\ w.videoLeft = v.videoLeft
  BY DEF Shown, VideoTypes
<1>6. InFlight(w) = InFlight(v) - taken
  BY <1>1, <1>5 DEF InFlight
<1>7. FramesCounted(w)
  <2>1. InFlight(w) + w.videoLeft < USIZE_MOD
    BY <1>1, <1>5, <1>6 DEF FramesCounted, MovieOK
  <2>2. CountAfter(v, taken) =
          IF v.pc # "count" THEN InFlight(v) - taken
          ELSE IF InFlight(v) = taken THEN USIZE_MOD - 1 ELSE InFlight(v) - taken - 1
    BY CountAfterOK DEF MovieOK
  <2> QED
    BY <2>1, <2>2, <1>1, <1>5, <1>6 DEF FramesCounted
<1> QED
  BY <1>4, <1>5, <1>7 DEF MovieOK, Runs

-------------------------------------------------------------------------------
(* How a step keeps the invariant: it replaces one movie's record by a     *)
(* good one, or none.                                                      *)
LEMMA MovieReplaced ==
  ASSUME VideoInv, NEW m \in Movie, NEW w \in VideoTypes, MovieOK(w), Becomes(m, w),
         Runs(w) => Runs(video[m]),
         Runs(w) /\ (w.pc = "reserved" \/ w.seen >= 0) => m = current /\ device,
         UNCHANGED <<device, content, current, next, pcm>>, elapsed' \in Int,
         at' = at \/ at' # "advance"
  PROVE  VideoInv'
<1>1. Types'
  BY DEF VideoInv, Types, Becomes
<1>2. \A n \in Movie : video'[n] = IF n = m THEN w ELSE video[n]
  BY DEF VideoInv, Types, Becomes
<1>3. ASSUME NEW n \in Movie PROVE MovieOK(video'[n]) /\ InTurn(n)'
  <2>1. CASE n = m
    BY <2>1, <1>2 DEF VideoInv, InTurn
  <2>2. CASE n # m
    BY <2>2, <1>2 DEF VideoInv, InTurn
  <2> QED
    BY <2>1, <2>2
<1>4. ASSUME NEW n \in Movie PROVE MovieOK(video[n])'
  BY <1>3 DEF MovieOK, FramesCounted, InFlight, Runs
<1> QED
  BY <1>1, <1>3, <1>4 DEF VideoInv

LEMMA MoviesKept ==
  ASSUME VideoInv, UNCHANGED <<device, content, current, next, pcm, video>>, elapsed' \in Int,
         at' = at \/ at' # "advance"
  PROVE  VideoInv'
  BY DEF VideoInv, Types, InTurn, MovieOK, FramesCounted, InFlight, Runs

-------------------------------------------------------------------------------
(* The decoder thread.                                                     *)
LEMMA ClockInTurn ==
  ASSUME VideoInv, NEW m \in Movie
  PROVE  Clock(m) \in Int /\ (Clock(m) >= 0 => m = current /\ device)
  BY DEF Clock, AudioStarted, VideoInv, Types

LEMMA TakeAudioStep ==
  ASSUME VideoInv, NEW m \in Movie, TakeAudio(m)
  PROVE  VideoInv'
<1> DEFINE v == video[m]
           w == [v EXCEPT !.audioLeft = @ - 1, !.held = IF device THEN @ + 1 ELSE @,
                          !.pc = "audio", !.seen = Clock(m)]
<1>1. v \in VideoTypes /\ MovieOK(v) /\ v.pc = "top"
  BY DEF VideoInv, Types, TakeAudio, Decodes
<1>2. w \in VideoTypes
  <2>1. /\ v.audioLeft - 1 \in Int /\ (IF device THEN v.held + 1 ELSE v.held) \in Int
        /\ Clock(m) \in Int
    BY <1>1, Fields, ClockInTurn
  <2> QED
    BY <1>1, <2>1 DEF VideoTypes
<1>3. /\ w.pc = "audio" /\ w.seen = Clock(m) /\ w.videoLeft = v.videoLeft
      /\ w.channel = v.channel /\ w.frames = v.frames /\ w.queuedFrames = v.queuedFrames
  BY <1>1 DEF VideoTypes
<1>4. MovieOK(w) /\ Runs(v)
  BY <1>1, <1>3 DEF MovieOK, FramesCounted, InFlight, Runs
<1>5. Becomes(m, w) /\ UNCHANGED <<device, content, current, next, pcm, at, elapsed>>
  BY DEF TakeAudio, frozen, list, screen, sound
<1>6. elapsed' \in Int
  BY <1>5 DEF VideoInv, Types
<1> HIDE DEF v, w
<1>7. w.seen >= 0 => m = current /\ device
  BY <1>3, ClockInTurn
<1>8. Runs(w) => Runs(video[m])
  BY <1>4 DEF v
<1> QED
  BY <1>2, <1>3, <1>4, <1>5, <1>6, <1>7, <1>8, MovieReplaced

LEMMA TakeNothingStep ==
  ASSUME VideoInv, NEW m \in Movie, TakeNothing(m)
  PROVE  VideoInv'
<1> DEFINE v == video[m]
           w == [v EXCEPT !.pc = "audio", !.seen = Clock(m)]
<1>1. v \in VideoTypes /\ MovieOK(v) /\ v.pc = "top"
  BY DEF VideoInv, Types, TakeNothing, Decodes
<1>2. w \in VideoTypes
  BY <1>1, ClockInTurn, Zenon DEF VideoTypes
<1>3. /\ w.pc = "audio" /\ w.seen = Clock(m) /\ w.videoLeft = v.videoLeft
      /\ w.channel = v.channel /\ w.frames = v.frames /\ w.queuedFrames = v.queuedFrames
  BY <1>1 DEF VideoTypes
<1>4. MovieOK(w) /\ Runs(v)
  BY <1>1, <1>3 DEF MovieOK, FramesCounted, InFlight, Runs
<1>5. Becomes(m, w) /\ UNCHANGED <<device, content, current, next, pcm, at, elapsed>>
  BY DEF TakeNothing, frozen, list, screen, sound
<1>6. elapsed' \in Int
  BY <1>5 DEF VideoInv, Types
<1> HIDE DEF v, w
<1>7. w.seen >= 0 => m = current /\ device
  BY <1>3, ClockInTurn
<1>8. Runs(w) => Runs(video[m])
  BY <1>4 DEF v
<1> QED
  BY <1>2, <1>3, <1>4, <1>5, <1>6, <1>7, <1>8, MovieReplaced

LEMMA SendStep ==
  ASSUME VideoInv, NEW m \in Movie, TakeVideo(m) \/ SendAnother(m)
  PROVE  VideoInv'
<1> DEFINE v == video[m]
           w == SendFrame(v)
<1>1. v \in VideoTypes /\ MovieOK(v) /\ InTurn(m) /\ v.pc \in {"top", "send"}
  BY DEF VideoInv, Types, TakeVideo, SendAnother, Decodes
<1>2. v.videoLeft > 0
  BY <1>1 DEF TakeVideo, SendAnother, MovieOK
<1>3. w \in VideoTypes /\ MovieOK(w) /\ w.pc = "count" /\ w.seen = v.seen
  BY <1>1, <1>2, SendFrameOK
<1>4. Becomes(m, w) /\ UNCHANGED <<device, content, current, next, pcm, at, elapsed>>
  BY DEF TakeVideo, SendAnother, frozen, list, screen, sound
<1>5. elapsed' \in Int /\ Runs(video[m])
  BY <1>1, <1>4 DEF VideoInv, Types, Runs
<1>6. v.seen >= 0 => m = current /\ device
  BY <1>1, <1>5 DEF InTurn
<1> HIDE DEF w
<1> QED
  BY <1>3, <1>4, <1>5, <1>6, MovieReplaced

LEMMA CountFrameStep ==
  ASSUME VideoInv, NEW m \in Movie, CountFrame(m)
  PROVE  VideoInv'
<1> DEFINE v == video[m]
<1>1. v \in VideoTypes /\ MovieOK(v) /\ InTurn(m) /\ v.pc = "count"
  BY DEF VideoInv, Types, CountFrame
<1>2. Counted(v) = InFlight(v) /\ Counted(v) \in Int /\ v.queuedFrames \in Int
  BY <1>1, CountedOK, Fields DEF MovieOK
<1>3. UNCHANGED <<device, content, current, next, pcm, at, elapsed>>
  BY DEF CountFrame, frozen, list, screen, sound
<1>4. elapsed' \in Int /\ Runs(video[m])
  BY <1>1, <1>3 DEF VideoInv, Types, Runs
<1>5. CASE /\ v.videoLeft > 0
           /\ Becomes(m, [v EXCEPT !.queuedFrames = Counted(v), !.pc = "send"])
  <2> DEFINE w == [v EXCEPT !.queuedFrames = Counted(v), !.pc = "send"]
  <2>1. w \in VideoTypes
    BY <1>1, <1>2, Zenon DEF VideoTypes
  <2>2. /\ w.pc = "send" /\ w.seen = v.seen /\ w.videoLeft = v.videoLeft
        /\ w.channel = v.channel /\ w.frames = v.frames /\ w.queuedFrames = Counted(v)
    BY <1>1 DEF VideoTypes
  <2>3. MovieOK(w)
    BY <1>1, <1>2, <1>5, <2>2 DEF MovieOK, FramesCounted, InFlight, Runs
  <2>4. v.seen >= 0 => m = current /\ device
    BY <1>1, <1>4 DEF InTurn
  <2>5. Becomes(m, w)
    BY <1>5
  <2> HIDE DEF w
  <2> QED
    BY <1>3, <1>4, <2>1, <2>2, <2>3, <2>4, <2>5, MovieReplaced
<1>6. CASE Becomes(m, [v EXCEPT !.queuedFrames = Counted(v), !.pc = "audio", !.burst = 0,
                                !.seen = Clock(m)])
  <2> DEFINE w == [v EXCEPT !.queuedFrames = Counted(v), !.pc = "audio", !.burst = 0,
                            !.seen = Clock(m)]
  <2>1. w \in VideoTypes
    <3>1. ASSUME NEW x \in Int, NEW b \in Int, NEW t \in Int
          PROVE  [v EXCEPT !.queuedFrames = x, !.pc = "audio", !.burst = b, !.seen = t]
                   \in VideoTypes
      BY <1>1, Zenon DEF VideoTypes
    <3>2. 0 \in Int
      OBVIOUS
    <3> QED
      BY <1>2, <3>1, <3>2, ClockInTurn
  <2>2. /\ w.pc = "audio" /\ w.seen = Clock(m) /\ w.videoLeft = v.videoLeft
        /\ w.channel = v.channel /\ w.frames = v.frames /\ w.queuedFrames = Counted(v)
    BY <1>1 DEF VideoTypes
  <2>3. MovieOK(w)
    BY <1>1, <1>2, <2>2 DEF MovieOK, FramesCounted, InFlight, Runs
  <2>4. Becomes(m, w)
    BY <1>6
  <2> HIDE DEF w
  <2> QED
    BY <1>3, <1>4, <2>1, <2>2, <2>3, <2>4, ClockInTurn, MovieReplaced
<1>7. \/ /\ v.videoLeft > 0
         /\ Becomes(m, [[v EXCEPT !.queuedFrames = Counted(v)] EXCEPT !.pc = "send"])
      \/ Becomes(m, [[v EXCEPT !.queuedFrames = Counted(v)] EXCEPT
                       !.pc = "audio", !.burst = 0, !.seen = Clock(m)])
  BY DEF CountFrame
<1>8. /\ [[v EXCEPT !.queuedFrames = Counted(v)] EXCEPT !.pc = "send"]
           = [v EXCEPT !.queuedFrames = Counted(v), !.pc = "send"]
      /\ [[v EXCEPT !.queuedFrames = Counted(v)] EXCEPT !.pc = "audio", !.burst = 0, !.seen = Clock(m)]
           = [v EXCEPT !.queuedFrames = Counted(v), !.pc = "audio", !.burst = 0, !.seen = Clock(m)]
  OBVIOUS
<1> QED
  BY <1>5, <1>6, <1>7, <1>8

LEMMA EndStep ==
  ASSUME VideoInv, NEW m \in Movie, Fail(m) \/ Obey(m)
  PROVE  VideoInv'
<1> DEFINE v == video[m]
<1>1. v \in VideoTypes /\ MovieOK(v) /\ v.pc = "top"
  BY DEF VideoInv, Types, Fail, Obey, Decodes
<1>2. UNCHANGED <<device, content, current, next, pcm, at, elapsed>>
  BY DEF Fail, Obey, frozen, list, screen, sound
<1>3. elapsed' \in Int
  BY <1>2 DEF VideoInv, Types
<1>4. CASE Fail(m)
  <2> DEFINE c == [v.channel EXCEPT !.error = TRUE]
             w == [v EXCEPT !.channel = c, !.pc = "exited"]
  <2>1. c \in Channels /\ c.frames = v.channel.frames
    BY <1>1, Fields DEF Channels
  <2>2. w \in VideoTypes /\ w.pc = "exited"
    BY <1>1, <2>1 DEF VideoTypes
  <2>3. /\ w.videoLeft = v.videoLeft /\ w.channel = c
        /\ w.frames = v.frames /\ w.queuedFrames = v.queuedFrames
    BY <1>1 DEF VideoTypes
  <2>4. MovieOK(w) /\ ~Runs(w)
    BY <1>1, <2>1, <2>2, <2>3 DEF MovieOK, FramesCounted, InFlight, Runs
  <2>5. Becomes(m, w)
    BY <1>4 DEF Fail
  <2> HIDE DEF w
  <2> QED
    BY <1>2, <1>3, <2>2, <2>4, <2>5, MovieReplaced
<1>5. CASE Obey(m)
  <2> DEFINE w == [v EXCEPT !.pc = "exited"]
  <2>1. w \in VideoTypes
    BY <1>1, Zenon DEF VideoTypes
  <2>2. /\ w.pc = "exited" /\ w.videoLeft = v.videoLeft /\ w.channel = v.channel
        /\ w.frames = v.frames /\ w.queuedFrames = v.queuedFrames
    BY <1>1 DEF VideoTypes
  <2>3. MovieOK(w) /\ ~Runs(w)
    BY <1>1, <2>2 DEF MovieOK, FramesCounted, InFlight, Runs
  <2>4. Becomes(m, w)
    BY <1>5 DEF Obey
  <2> HIDE DEF w
  <2> QED
    BY <1>2, <1>3, <2>1, <2>3, <2>4, MovieReplaced
<1> QED
  BY <1>4, <1>5

\* Samples are reserved and pushed for the current movie only.
LEMMA ReserveStep ==
  ASSUME VideoInv, NEW m \in Movie, Reserve(m)
  PROVE  VideoInv'
<1> DEFINE v == video[m]
           w == [v EXCEPT !.pc = "reserved"]
<1>1. v \in VideoTypes /\ MovieOK(v) /\ InTurn(m) /\ v.pc = "audio" /\ v.seen >= 0
  BY DEF VideoInv, Types, Reserve, CanPush
<1>2. w \in VideoTypes
  BY <1>1, Zenon DEF VideoTypes
<1>3. /\ w.pc = "reserved" /\ w.videoLeft = v.videoLeft /\ w.channel = v.channel
      /\ w.frames = v.frames /\ w.queuedFrames = v.queuedFrames
  BY <1>1 DEF VideoTypes
<1>4. MovieOK(w) /\ Runs(video[m])
  BY <1>1, <1>3 DEF MovieOK, FramesCounted, InFlight, Runs
<1>5. m = current /\ device
  BY <1>1, <1>4 DEF InTurn
<1>6. Becomes(m, w) /\ UNCHANGED <<device, content, current, next, pcm, at, elapsed>>
  BY DEF Reserve, frozen, list, screen
<1>7. elapsed' \in Int
  BY <1>6 DEF VideoInv, Types
<1> HIDE DEF w
<1> QED
  BY <1>2, <1>4, <1>5, <1>6, <1>7, MovieReplaced

LEMMA PushStep ==
  ASSUME VideoInv, NEW m \in Movie, Push(m)
  PROVE  VideoInv'
<1> DEFINE v == video[m]
           w == [v EXCEPT !.pc = "audio", !.held = @ - 1]
<1>1. v \in VideoTypes /\ MovieOK(v) /\ InTurn(m) /\ v.pc = "reserved"
  BY DEF VideoInv, Types, Push
<1>2. w \in VideoTypes
  <2>1. v.held - 1 \in Int
    BY <1>1, Fields
  <2> QED
    BY <1>1, <2>1 DEF VideoTypes
<1>3. /\ w.pc = "audio" /\ w.videoLeft = v.videoLeft /\ w.channel = v.channel
      /\ w.frames = v.frames /\ w.queuedFrames = v.queuedFrames
  BY <1>1 DEF VideoTypes
<1>4. MovieOK(w) /\ Runs(video[m])
  BY <1>1, <1>3 DEF MovieOK, FramesCounted, InFlight, Runs
<1>5. m = current /\ device /\ at # "advance"
  BY <1>1, <1>4 DEF InTurn
<1>6. /\ Becomes(m, w) /\ UNCHANGED <<device, content, current, next, at, elapsed>>
      /\ pcm' = [pcm EXCEPT ![m] = @ + 1]
  BY DEF Push, frozen, list, screen
<1> HIDE DEF w
<1>7. Types'
  BY <1>2, <1>6 DEF VideoInv, Types, Becomes
<1>8. ASSUME NEW n \in Movie PROVE MovieOK(video'[n]) /\ InTurn(n)'
  <2>1. video'[n] = (IF n = m THEN w ELSE video[n]) /\ (n # m => pcm'[n] = pcm[n])
    BY <1>6 DEF VideoInv, Types, Becomes
  <2>2. CASE n = m
    BY <2>1, <2>2, <1>4, <1>5, <1>6 DEF InTurn
  <2>3. CASE n # m
    BY <2>1, <2>3, <1>6 DEF VideoInv, InTurn
  <2> QED
    BY <2>2, <2>3
<1>9. ASSUME NEW n \in Movie PROVE MovieOK(video[n])'
  BY <1>8 DEF MovieOK, FramesCounted, InFlight, Runs
<1> QED
  BY <1>7, <1>8, <1>9 DEF VideoInv

LEMMA FinishRoundStep ==
  ASSUME VideoInv, NEW m \in Movie, FinishRound(m)
  PROVE  VideoInv'
<1> DEFINE v == video[m]
<1>1. v \in VideoTypes /\ MovieOK(v) /\ v.pc = "audio"
  BY DEF VideoInv, Types, FinishRound
<1>2. PICK pre \in Int, silent \in BOOLEAN, ends \in BOOLEAN, pc \in {"top", "exited"} :
        Becomes(m, [v EXCEPT
          !.prebuffered = pre,
          !.audioEndSent = @ \/ silent, !.endSent = @ \/ ends,
          !.channel = Announced(@, silent, ends),
          !.pc = pc, !.seen = -1])
  <2> DEFINE last == content[m].audio - v.audioLeft
             silent == v.seen >= 0 /\ last > 0 /\ ~v.audioEndSent /\ AudioIsOver(v, last)
             ends == ~v.endSent /\ v.videoLeft = 0 /\ v.audioLeft = 0
             leaves == (v.endSent \/ ends) /\ v.held = 0 /\ (v.audioEndSent \/ silent)
             pre == IF v.seen < 0 THEN Min({v.held, PrebufferMax}) ELSE v.prebuffered
             pc == IF leaves THEN "exited" ELSE "top"
  <2>1. PrebufferMax \in Int /\ v.held \in Int /\ v.prebuffered \in Int
    BY <1>1, Constants, Fields
  <2>2. Min({v.held, PrebufferMax}) \in Int
    BY <2>1, Extremes
  <2>3. pre \in Int /\ silent \in BOOLEAN /\ ends \in BOOLEAN /\ pc \in {"top", "exited"}
    BY <2>1, <2>2
  <2>4. Becomes(m, [v EXCEPT
          !.prebuffered = pre,
          !.audioEndSent = @ \/ silent, !.endSent = @ \/ ends,
          !.channel = Announced(@, silent, ends),
          !.pc = pc, !.seen = -1])
    BY DEF FinishRound
  <2> HIDE DEF pre, silent, ends, pc
  <2> USE <2>3
  <2> WITNESS pre \in Int, silent \in BOOLEAN, ends \in BOOLEAN, pc \in {"top", "exited"}
  <2> QED
    BY <2>4
<1> DEFINE c == Announced(v.channel, silent, ends)
           w == [v EXCEPT !.prebuffered = pre, !.audioEndSent = @ \/ silent,
                          !.endSent = @ \/ ends, !.channel = c, !.pc = pc, !.seen = -1]
<1>3. c \in Channels /\ c.frames = v.channel.frames /\ c.error = v.channel.error
  BY <1>1, Fields DEF Announced, Channels
<1>4. w \in VideoTypes
  <2>1. (v.audioEndSent \/ silent) \in BOOLEAN /\ (v.endSent \/ ends) \in BOOLEAN
    BY <1>1, Fields
  <2>2. ASSUME NEW a \in BOOLEAN, NEW e \in BOOLEAN, NEW ch \in Channels, NEW x \in Int
        PROVE  [v EXCEPT !.prebuffered = pre, !.audioEndSent = a, !.endSent = e, !.channel = ch,
                         !.pc = pc, !.seen = x] \in VideoTypes
    BY <1>1, Zenon DEF VideoTypes
  <2>3. -1 \in Int
    OBVIOUS
  <2> QED
    BY <1>3, <2>1, <2>2, <2>3
<1>5. /\ w.pc = pc /\ w.seen = -1 /\ w.videoLeft = v.videoLeft /\ w.channel = c
      /\ w.frames = v.frames /\ w.queuedFrames = v.queuedFrames
  BY <1>1 DEF VideoTypes
<1>6. MovieOK(w) /\ Runs(video[m])
  BY <1>1, <1>3, <1>5 DEF MovieOK, FramesCounted, InFlight, Runs
<1>7. Becomes(m, w)
  BY <1>2
<1>8. UNCHANGED <<device, content, current, next, pcm, at, elapsed>>
  BY DEF FinishRound, frozen, list, screen, sound
<1>9. elapsed' \in Int
  BY <1>8 DEF VideoInv, Types
<1> HIDE DEF w
<1> QED
  BY <1>4, <1>5, <1>6, <1>7, <1>8, <1>9, MovieReplaced

LEMMA DecoderSteps ==
  ASSUME VideoInv, NEW m \in Movie, DecoderStep(m)
  PROVE  VideoInv'
  BY TakeAudioStep, TakeNothingStep, SendStep, CountFrameStep, EndStep, ReserveStep, PushStep,
     FinishRoundStep DEF DecoderStep

-------------------------------------------------------------------------------
(* The audio device and the timers.                                        *)
LEMMA MixStep ==
  ASSUME VideoInv, Mix
  PROVE  VideoInv'
<1>1. UNCHANGED <<device, content, current, next, at, video>>
  BY DEF Mix, frozen, list
<1>2. elapsed' \in Int
  BY DEF Mix, VideoInv, Types
<1>3. CASE UNCHANGED sound
  BY <1>1, <1>2, <1>3, MoviesKept DEF sound
<1>4. CASE \E m \in Movie : pcm[m] > 0 /\ pcm' = [pcm EXCEPT ![m] = @ - 1]
  <2>1. pcm' \in [Movie -> Nat] /\ \A n \in Movie : pcm'[n] <= pcm[n]
    BY <1>4 DEF VideoInv, Types
  <2>2. Types'
    BY <1>1, <1>2, <2>1 DEF VideoInv, Types
  <2>3. ASSUME NEW n \in Movie PROVE MovieOK(video[n])' /\ InTurn(n)'
    <3>1. pcm'[n] \in Nat /\ pcm[n] \in Nat /\ pcm'[n] <= pcm[n]
      BY <2>1 DEF VideoInv, Types
    <3>2. InTurn(n)'
      BY <1>1, <3>1 DEF VideoInv, InTurn, Runs
    <3>3. MovieOK(video[n])'
      BY <1>1 DEF VideoInv, MovieOK, FramesCounted, InFlight, Runs
    <3> QED
      BY <3>2, <3>3
  <2> QED
    BY <2>2, <2>3 DEF VideoInv
<1> QED
  BY <1>3, <1>4 DEF Mix

LEMMA TimerStep ==
  ASSUME VideoInv, DelayOver \/ HoldOver \/ StoreZero \/ NoPreload \/ UNCHANGED vars
  PROVE  VideoInv'
<1>1. /\ UNCHANGED <<device, content, current, next, pcm, video, elapsed>>
      /\ at' = at \/ at' # "advance"
  BY DEF DelayOver, HoldOver, StoreZero, NoPreload, vars, frozen, list, screen, sound
<1>2. elapsed' \in Int
  BY <1>1 DEF VideoInv, Types
<1> QED
  BY <1>1, <1>2, MoviesKept

-------------------------------------------------------------------------------
(* The frame loop.                                                         *)
LEMMA StartPreloadStep ==
  ASSUME VideoInv, StartPreload
  PROVE  VideoInv'
<1>1. /\ Becomes(nextEntry, Fresh(nextEntry)) /\ next = None /\ next' = nextEntry
      /\ UNCHANGED <<device, content, current, pcm, at, elapsed>> /\ at = "events"
  BY DEF StartPreload, frozen, screen, sound
<1>2. ASSUME nextEntry \in Movie
      PROVE  /\ Fresh(nextEntry) \in VideoTypes /\ MovieOK(Fresh(nextEntry))
             /\ Fresh(nextEntry).pc = "top" /\ Fresh(nextEntry).seen = -1
  BY <1>2, FreshOK DEF VideoInv, Types
<1>3. \A n \in Movie : video'[n] = IF n = nextEntry THEN Fresh(nextEntry) ELSE video[n]
  BY <1>1 DEF Becomes, VideoInv, Types
<1>4. video' \in [Movie -> VideoTypes]
  BY <1>1, <1>2 DEF Becomes, VideoInv, Types
<1>5. Types'
  BY <1>1, <1>4 DEF VideoInv, Types
<1>6. ASSUME NEW n \in Movie PROVE MovieOK(video'[n]) /\ InTurn(n)'
  <2>1. n # None
    BY Constants DEF None
  <2>2. CASE n = nextEntry
    BY <2>2, <1>1, <1>2, <1>3 DEF VideoInv, InTurn, Runs
  <2>3. CASE n # nextEntry
    BY <2>1, <2>3, <1>1, <1>3 DEF VideoInv, InTurn, Runs
  <2> QED
    BY <2>2, <2>3
<1>7. ASSUME NEW n \in Movie PROVE MovieOK(video[n])'
  BY <1>6 DEF MovieOK, FramesCounted, InFlight, Runs
<1> QED
  BY <1>5, <1>6, <1>7 DEF VideoInv

\* A preload that failed has ended, so that none goes on when it is dropped.
LEMMA DrainPreloadStep ==
  ASSUME VideoInv, DrainPreload
  PROVE  VideoInv'
<1> DEFINE v == video[next]
<1>1. UNCHANGED <<device, content, current, pcm, elapsed>> /\ at' = "current"
  BY DEF DrainPreload, frozen, sound
<1>2. elapsed' \in Int
  BY <1>1 DEF VideoInv, Types
<1>3. CASE next \notin Movie
  <2>1. video' = video
    BY <1>3 DEF DrainPreload, Becomes, VideoInv, Types
  <2>2. next' = next \/ next' = None
    BY DEF DrainPreload
  <2>3. Types'
    BY <1>1, <1>2, <2>1 DEF VideoInv, Types
  <2>4. ASSUME NEW n \in Movie PROVE MovieOK(video[n])' /\ InTurn(n)'
    BY <1>1, <1>3, <2>1 DEF VideoInv, InTurn, MovieOK, FramesCounted, InFlight, Runs
  <2> QED
    BY <2>3, <2>4 DEF VideoInv
<1>4. CASE next \in Movie /\ ~v.channel.error
  <2> DEFINE w == Drained(v)
  <2>1. v \in VideoTypes /\ MovieOK(v) /\ InTurn(next)
    BY <1>4 DEF VideoInv, Types
  <2>2. w \in VideoTypes /\ MovieOK(w) /\ w.pc = v.pc /\ w.seen = v.seen
    BY <2>1, DrainedOK
  <2>3. Becomes(next, w) /\ next' = next
    BY <1>4 DEF DrainPreload
  <2>4. /\ Runs(w) => Runs(v)
        /\ Runs(w) /\ (w.pc = "reserved" \/ w.seen >= 0) => next = current /\ device
    BY <2>1, <2>2 DEF InTurn, Runs
  <2> HIDE DEF w
  <2> QED
    BY <1>1, <1>2, <1>4, <2>2, <2>3, <2>4, MovieReplaced
<1>5. CASE next \in Movie /\ v.channel.error
  <2> DEFINE w == Dropped(v)
  <2>1. v \in VideoTypes /\ MovieOK(v) /\ ~Runs(v)
    BY <1>5 DEF VideoInv, Types, MovieOK
  <2>2. w \in VideoTypes /\ MovieOK(w) /\ ~Runs(w)
    BY <2>1, DroppedOK
  <2>3. Becomes(next, w)
    BY <1>5 DEF DrainPreload
  <2> HIDE DEF w
  <2>4. Types' /\ \A n \in Movie : video'[n] = IF n = next THEN w ELSE video[n]
    BY <1>1, <1>2, <2>2, <2>3 DEF VideoInv, Types, Becomes
  <2>5. ASSUME NEW n \in Movie PROVE MovieOK(video'[n]) /\ InTurn(n)'
    <3>1. CASE n = next
      BY <3>1, <1>1, <2>2, <2>4 DEF VideoInv, InTurn
    <3>2. CASE n # next
      BY <3>2, <1>1, <2>4 DEF VideoInv, InTurn
    <3> QED
      BY <3>1, <3>2
  <2>6. ASSUME NEW n \in Movie PROVE MovieOK(video[n])'
    BY <2>5 DEF MovieOK, FramesCounted, InFlight, Runs
  <2> QED
    BY <2>4, <2>5, <2>6 DEF VideoInv
<1> QED
  BY <1>3, <1>4, <1>5

\* Steps that replace the current movie's record and may empty the queue.
LEMMA CurrentReplaced ==
  ASSUME VideoInv, NEW w, Becomes(current, w),
         current \in Movie => /\ w \in VideoTypes /\ MovieOK(w)
                              /\ w.pc = video[current].pc /\ w.seen = video[current].seen,
         UNCHANGED <<device, content, current, next>>, elapsed' \in Int,
         UNCHANGED pcm \/ EmptyPcm,
         at' # "advance"
  PROVE  VideoInv'
<1>1. video' \in [Movie -> VideoTypes]
  BY DEF VideoInv, Types, Becomes
<1>2. \A n \in Movie : video'[n] = IF n = current THEN w ELSE video[n]
  BY DEF VideoInv, Types, Becomes
<1>3. pcm' \in [Movie -> Nat] /\ \A n \in Movie : pcm'[n] = pcm[n] \/ pcm'[n] = 0
  BY DEF EmptyPcm, VideoInv, Types
<1>4. Types'
  BY <1>1, <1>3 DEF VideoInv, Types
<1>5. ASSUME NEW n \in Movie PROVE MovieOK(video'[n]) /\ InTurn(n)'
  <2>1. pcm'[n] = pcm[n] \/ ~(pcm'[n] > 0)
    BY <1>3
  <2>2. CASE n = current
    BY <2>1, <2>2, <1>2 DEF VideoInv, InTurn, Runs
  <2>3. CASE n # current
    BY <2>1, <2>3, <1>2 DEF VideoInv, InTurn, Runs
  <2> QED
    BY <2>2, <2>3
<1>6. ASSUME NEW n \in Movie PROVE MovieOK(video[n])'
  BY <1>5 DEF MovieOK, FramesCounted, InFlight, Runs
<1> QED
  BY <1>4, <1>5, <1>6 DEF VideoInv

LEMMA DrainCurrentStep ==
  ASSUME VideoInv, DrainCurrent
  PROVE  VideoInv'
<1> DEFINE u == video[current]
           v == Drained(u)
           x == IF u.channel.error THEN Stopped(v) ELSE v
           w == [x EXCEPT !.audioFinished = ~device /\ @]
<1>1. Becomes(current, w) /\ UNCHANGED <<device, content, current, next, elapsed>>
  BY DEF DrainCurrent, frozen, list
<1>2. (UNCHANGED pcm \/ EmptyPcm) /\ at' # "advance"
  BY DEF DrainCurrent
<1>3. elapsed' \in Int
  BY <1>1 DEF VideoInv, Types
<1>4. ASSUME current \in Movie
      PROVE  w \in VideoTypes /\ MovieOK(w) /\ w.pc = u.pc /\ w.seen = u.seen
  <2>1. u \in VideoTypes /\ MovieOK(u)
    BY <1>4 DEF VideoInv, Types
  <2>2. v \in VideoTypes /\ MovieOK(v) /\ v.pc = u.pc /\ v.seen = u.seen
    BY <2>1, DrainedOK
  <2>3. u.channel.error => ~Runs(v)
    BY <2>1, <2>2 DEF MovieOK, Runs
  <2>4. x \in VideoTypes /\ MovieOK(x) /\ x.pc = u.pc /\ x.seen = u.seen
    <3> HIDE DEF v
    <3>1. CASE u.channel.error
      BY <3>1, <2>2, <2>3, StoppedOK
    <3>2. CASE ~u.channel.error
      BY <3>2, <2>2
    <3> QED
      BY <3>1, <3>2
  <2> HIDE DEF x
  <2>5. w \in VideoTypes
    <3>1. (~device /\ x.audioFinished) \in BOOLEAN
      OBVIOUS
    <3> QED
      BY <2>4, <3>1 DEF VideoTypes
  <2>6. /\ w.pc = x.pc /\ w.seen = x.seen /\ w.videoLeft = x.videoLeft
        /\ w.channel = x.channel /\ w.frames = x.frames /\ w.queuedFrames = x.queuedFrames
    BY <2>4 DEF VideoTypes
  <2> QED
    BY <2>4, <2>5, <2>6 DEF MovieOK, FramesCounted, InFlight, Runs
<1> HIDE DEF w
<1> QED
  BY <1>1, <1>2, <1>3, <1>4, CurrentReplaced

LEMMA PlayStep ==
  ASSUME VideoInv, Play
  PROVE  VideoInv'
<1> DEFINE v == video[current]
           Due(starts, now) == IF ~delay /\ (started \/ starts) THEN Taken(v, now) ELSE 0
<1>1. PICK starts \in BOOLEAN, leaves \in BOOLEAN, now \in Int :
        /\ Becomes(current, Shown(v, Due(starts, now), leaves))
        /\ elapsed' = now
        /\ at' = IF leaves THEN "leave" ELSE "events"
  <2> DEFINE starts == ~delay /\ CanStart(v)
             now == IF starts THEN 0 ELSE elapsed
             taken == Due(starts, now)
             over == v.finished /\ taken = v.frames
             leaves == over /\ (hold = "over" \/ ~content[current].hold)
  <2>1. starts \in BOOLEAN /\ leaves \in BOOLEAN /\ now \in Int
    BY DEF CanStart, VideoInv, Types
  <2>2. /\ Becomes(current, Shown(v, Due(starts, now), leaves))
        /\ elapsed' = now
        /\ at' = IF leaves THEN "leave" ELSE "events"
    BY DEF Play, Shown
  <2> HIDE DEF starts, leaves, now, Due
  <2> QED
    BY <2>1, <2>2
<1> DEFINE taken == Due(starts, now)
           w == Shown(v, taken, leaves)
<1>2. ASSUME current \in Movie
      PROVE  w \in VideoTypes /\ MovieOK(w) /\ w.pc = v.pc /\ w.seen = v.seen
  <2>1. v \in VideoTypes /\ MovieOK(v)
    BY <1>2 DEF VideoInv, Types
  <2>2. taken \in 0..v.frames
    <3>1. 0 \in 0..v.frames /\ Taken(v, now) \in 0..v.frames
      BY <2>1, Fields, TakenBounded
    <3> QED
      BY <1>1, <3>1
  <2> HIDE DEF v, taken
  <2> QED
    BY <2>1, <2>2, TakenOK
<1>3. Becomes(current, w) /\ elapsed' \in Int /\ at' # "advance"
  BY <1>1
<1>4. UNCHANGED <<device, content, current, next, pcm>>
  BY DEF Play, frozen, list, sound
<1> HIDE DEF w
<1> QED
  BY <1>2, <1>3, <1>4, CurrentReplaced

LEMMA SkipStep ==
  ASSUME VideoInv, Skip
  PROVE  VideoInv'
<1> DEFINE v == video[current]
           w == [v EXCEPT !.stop = TRUE]
<1>1. /\ Becomes(current, w) /\ at' # "advance"
      /\ UNCHANGED <<device, content, current, next, pcm, elapsed>>
  BY DEF Skip, frozen, list, sound
<1>2. elapsed' \in Int
  BY <1>1 DEF VideoInv, Types
<1>3. ASSUME current \in Movie
      PROVE  w \in VideoTypes /\ MovieOK(w) /\ w.pc = v.pc /\ w.seen = v.seen
  <2>1. v \in VideoTypes /\ MovieOK(v)
    BY <1>3 DEF VideoInv, Types
  <2>2. w \in VideoTypes
    BY <2>1, Zenon DEF VideoTypes
  <2>3. /\ w.pc = v.pc /\ w.seen = v.seen /\ w.videoLeft = v.videoLeft
        /\ w.channel = v.channel /\ w.frames = v.frames /\ w.queuedFrames = v.queuedFrames
    BY <2>1 DEF VideoTypes
  <2> QED
    BY <2>1, <2>2, <2>3 DEF MovieOK, FramesCounted, InFlight, Runs
<1> HIDE DEF w
<1> QED
  BY <1>1, <1>2, <1>3, CurrentReplaced

\* Stop has waited for the decoder, so that nobody fills the emptied queue.
LEMMA LeaveStep ==
  ASSUME VideoInv, Leave
  PROVE  VideoInv'
<1>1. /\ video[current].pc = "exited"
      /\ UNCHANGED <<device, content, current, next, video, elapsed>>
      /\ IF device THEN EmptyPcm ELSE pcm' = pcm
  BY DEF Leave, HasEnded, frozen, list
<1>2. pcm' \in [Movie -> Nat] /\ \A n \in Movie : pcm'[n] = 0
  BY <1>1 DEF EmptyPcm, VideoInv, Types, InTurn
<1>3. Types'
  BY <1>1, <1>2 DEF VideoInv, Types
<1>4. ASSUME NEW n \in Movie PROVE MovieOK(video[n])' /\ InTurn(n)'
  <2>1. InTurn(n)'
    BY <1>1, <1>2 DEF VideoInv, InTurn, Runs
  <2>2. MovieOK(video[n])'
    BY <1>1 DEF VideoInv, MovieOK, FramesCounted, InFlight, Runs
  <2> QED
    BY <2>1, <2>2
<1> QED
  BY <1>3, <1>4 DEF VideoInv

LEMMA AdvanceStep ==
  ASSUME VideoInv, Advance
  PROVE  VideoInv'
<1>1. /\ at = "advance" /\ current' = Successor /\ next' = None
      /\ elapsed' = 0 /\ at' # "advance"
      /\ video' = [m \in Movie |->
                     IF m = current THEN Dropped(video[m])
                     ELSE IF m = Successor /\ next = None THEN Fresh(m) ELSE video[m]]
      /\ UNCHANGED <<device, content, pcm>>
  BY DEF Advance, frozen
<1>2. ASSUME NEW n \in Movie
      PROVE  video'[n] \in VideoTypes /\ MovieOK(video'[n]) /\ InTurn(n)'
  <2>1. /\ video[n] \in VideoTypes /\ MovieOK(video[n]) /\ InTurn(n) /\ n # None
        /\ content \in Contents /\ pcm[n] = 0
    BY <1>1, Constants DEF VideoInv, Types, InTurn, None
  <2>2. CASE n = current
    <3>1. video'[n] = Dropped(video[n]) /\ ~Runs(video[n])
      BY <1>1, <2>1, <2>2 DEF InTurn
    <3>2. video'[n] \in VideoTypes /\ MovieOK(video'[n]) /\ ~Runs(video'[n])
      BY <3>1, <2>1, DroppedOK
    <3> QED
      BY <3>2, <2>1, <1>1 DEF InTurn
  <2>3. CASE n # current /\ n = Successor /\ next = None
    <3>1. video'[n] = Fresh(n) /\ current' = n
      BY <1>1, <2>3
    <3>2. /\ Fresh(n) \in VideoTypes /\ MovieOK(Fresh(n))
          /\ Fresh(n).pc = "top" /\ Fresh(n).seen = -1
      BY <2>1, FreshOK
    <3> QED
      BY <3>1, <3>2, <2>1, <1>1 DEF InTurn
  <2>4. CASE n # current /\ ~(n = Successor /\ next = None)
    <3>1. video'[n] = video[n]
      BY <1>1, <2>4
    <3>2. Runs(video[n]) => n = current'
      BY <1>1, <2>1, <2>4 DEF InTurn, Successor
    <3> QED
      BY <3>1, <3>2, <2>1, <2>4, <1>1 DEF InTurn
  <2> QED
    BY <2>2, <2>3, <2>4
<1>3. video' \in [Movie -> VideoTypes]
  BY <1>1, <1>2
<1>4. Types'
  BY <1>1, <1>3 DEF VideoInv, Types
<1>5. ASSUME NEW n \in Movie PROVE MovieOK(video[n])'
  BY <1>2 DEF MovieOK, FramesCounted, InFlight, Runs
<1> QED
  BY <1>2, <1>4, <1>5 DEF VideoInv

-------------------------------------------------------------------------------
LEMMA VideoInit == Init => VideoInv
<1> SUFFICES ASSUME Init PROVE VideoInv
  OBVIOUS
<1>1. /\ content \in Contents /\ device \in BOOLEAN /\ elapsed = 0 /\ current = 1
      /\ at = "events" /\ pcm = [m \in Movie |-> 0]
      /\ video = [m \in Movie |-> IF m = 1 THEN Fresh(m) ELSE Absent]
  BY DEF Init
<1>2. ASSUME NEW m \in Movie
      PROVE  /\ video[m] \in VideoTypes /\ MovieOK(video[m])
             /\ Runs(video[m]) => m = 1 /\ video[m].pc = "top" /\ video[m].seen = -1
  <2>1. CASE m = 1
    BY <2>1, <1>1, FreshOK
  <2>2. CASE m # 1
    BY <2>2, <1>1, AbsentOK
  <2> QED
    BY <2>1, <2>2
<1>3. Types
  BY <1>1, <1>2 DEF Types
<1>4. ASSUME NEW m \in Movie PROVE InTurn(m)
  BY <1>1, <1>2 DEF InTurn
<1> QED
  BY <1>2, <1>3, <1>4 DEF VideoInv

LEMMA VideoInductive == Spec => []VideoInv
<1>1. ASSUME VideoInv, [Next]_vars PROVE VideoInv'
  BY <1>1, DecoderSteps, MixStep, TimerStep, StartPreloadStep, DrainPreloadStep, DrainCurrentStep,
     PlayStep, SkipStep, LeaveStep, AdvanceStep DEF Next, FrameStep
<1> QED
  BY <1>1, VideoInit, PTL DEF Spec

(* A thread that runs decodes the current movie or the next, and no movie  *)
(* is heard after it was left or before it is current: VideoPlayback::stop *)
(* and start_with_clock, PcmWriter::try_push, clear_pcm, advance_playlist. *)
THEOREM OnlyCurrentIsHeard == Spec => []SoundOfCurrent
<1>1. VideoInv => SoundOfCurrent
  BY DEF VideoInv, InTurn, Runs, SoundOfCurrent
<1> QED
  BY <1>1, VideoInductive, PTL

(* When a decoder compares queued_frames with its limits it is the number  *)
(* of frames it has sent and next_frame has not taken, though each side    *)
(* counts after the fact and without a lock.                               *)
THEOREM DecodersCompareTheirQueue == Spec => []QueueCountExact
<1>1. VideoInv => QueueCountExact
  BY DEF VideoInv, MovieOK, FramesCounted, InFlight, QueueCountExact
<1> QED
  BY <1>1, VideoInductive, PTL

-------------------------------------------------------------------------------
(* The second invariant: what is left of the files, the order of the list, *)
(* and the counter of samples.                                             *)

File == [video : 0..Horizon, audio : 0..Horizon, hold : BOOLEAN]

(* Nothing is decoded that the file does not hold; a decoder about to push *)
(* holds a sample, one that is out of a burst has forgotten it, and nobody *)
(* knows of the end of audio before the decoder has announced it.          *)
FileOK(v, f) ==
  /\ 0 <= v.shown /\ v.shown + InFlight(v) + v.videoLeft <= f.video
  /\ 0 <= v.audioLeft /\ 0 <= v.held /\ v.held + v.audioLeft <= f.audio
  /\ v.pc = "reserved" => v.held > 0
  /\ v.burst \in 0..VideoBudget
  /\ v.pc \in {"top", "audio", "reserved"} => v.burst = 0
  /\ v.pc = "send" => v.burst < VideoBudget
  /\ v.seen \in -1..Horizon /\ v.prebuffered \in 0..PrebufferMax
  /\ v.channel.audioEnded \/ v.audioFinished => v.audioEndSent

FilesInv == \A m \in Movie : FileOK(video[m], content[m])

(* The entries come in order: the next one is behind the current, what     *)
(* remains is behind it.                                                   *)
Upwards(s) == \A j \in 1..Len(s) : \A i \in 1..(j - 1) : s[i] < s[j]
ListInv ==
  /\ current \in Movie \cup {None} /\ (at # "title" => current \in Movie)
  /\ nextEntry \in Movie \cup {None} /\ next \in {None, nextEntry}
  /\ remaining \in Seq(Movie) /\ played \subseteq Movie /\ preloadDue \in BOOLEAN
  /\ Upwards(remaining)
  /\ nextEntry # None => current < nextEntry
  /\ \A i \in 1..Len(remaining) : current < remaining[i] /\ nextEntry < remaining[i]
  /\ nextEntry = None => remaining = <<>> /\ ~preloadDue

ScreenInv ==
  /\ at \in {"events", "current", "zero", "play", "leave", "advance", "title"}
  /\ hold \in {"none", "running", "over"} /\ delay \in BOOLEAN /\ started \in BOOLEAN
  /\ elapsed \in 0..Horizon /\ upsets \in 0..MaxUpsets

(* A queue that is being cleared is not written to, unless its audio has   *)
(* been given up.                                                          *)
Underway(v) == IF v.pc = "reserved" THEN 1 ELSE 0
CountInv ==
  /\ count \in 0..(USIZE_MOD - 1)
  /\ ~device => count = 0
  /\ at \notin {"zero", "advance", "title"} /\ ~video[current].audioEndSent =>
       count = pcm[current] + Underway(video[current])
  /\ at = "zero" /\ ~video[current].audioEndSent =>
       ~Runs(video[current]) /\ pcm[current] = 0

-------------------------------------------------------------------------------
LEMMA Limits ==
  /\ {PrebufferMax, PcmMax, VideoBudget, MaxUpsets, Horizon, USIZE_MOD} \subseteq Nat
  /\ Horizon < USIZE_MOD /\ 0 < VideoBudget /\ 0 < USIZE_MOD /\ PcmMax + 1 < USIZE_MOD
  /\ Contents \subseteq [Movie -> File]
<1>1. /\ {PrebufferMax, Late, EndGap, PcmMax, VideoBudget, MaxUpsets, Horizon, USIZE_MOD}
           \subseteq Nat
      /\ Horizon < USIZE_MOD /\ 0 < VideoBudget /\ PcmMax + 1 < USIZE_MOD
  BY VideoAssumption
<1>2. ASSUME NEW c \in Contents PROVE c \in [Movie -> File]
  <2>1. c \in [Movie -> [video : Nat, audio : Nat, hold : BOOLEAN]]
    BY VideoAssumption
  <2>2. ASSUME NEW m \in Movie PROVE c[m] \in File
    <3>1. c[m].video + Late < Horizon /\ c[m].audio + EndGap < Horizon
      BY VideoAssumption
    <3>2. c[m] \in [video : Nat, audio : Nat, hold : BOOLEAN]
      BY <2>1
    <3>3. c[m].video \in 0..Horizon /\ c[m].audio \in 0..Horizon
      BY <1>1, <3>1, <3>2
    <3> QED
      BY <3>2, <3>3 DEF File
  <2> QED
    BY <2>1, <2>2
<1> QED
  BY <1>1, <1>2

LEMMA OfMovie ==
  ASSUME VideoInv, NEW m \in Movie
  PROVE  /\ content[m] \in File /\ content[m].video \in 0..Horizon /\ content[m].audio \in 0..Horizon
         /\ video[m] \in VideoTypes /\ MovieOK(video[m])
<1>1. content[m] \in File
  BY Limits DEF VideoInv, Types
<1> QED
  BY <1>1 DEF File, VideoInv, Types

\* The bounds of TypeOK.
LEMMA Bounded ==
  ASSUME NEW v \in VideoTypes, MovieOK(v), NEW f \in File, FileOK(v, f)
  PROVE  v \in VideoState
<1>1. /\ f.video \in 0..Horizon /\ f.audio \in 0..Horizon /\ Horizon \in Nat /\ USIZE_MOD \in Nat
      /\ Horizon < USIZE_MOD
  BY Limits DEF File
<1>2. /\ v.videoLeft \in Nat /\ v.frames \in Nat /\ v.channel.frames \in Nat /\ v.shown \in Int
      /\ v.audioLeft \in Int /\ v.held \in Int /\ v.queuedFrames \in Int
  BY Fields
<1>3. InFlight(v) = v.channel.frames + v.frames
  BY DEF InFlight
<1>4. /\ v.videoLeft \in 0..Horizon /\ v.frames \in 0..Horizon /\ v.channel.frames \in 0..Horizon
      /\ v.shown \in 0..Horizon
  BY <1>1, <1>2, <1>3 DEF FileOK
<1>5. v.audioLeft \in 0..Horizon /\ v.held \in 0..Horizon
  BY <1>1, <1>2 DEF FileOK
<1>6. v.queuedFrames \in 0..(USIZE_MOD - 1)
  BY <1>1, <1>2, <1>3 DEF MovieOK, FramesCounted
<1>7. v.channel \in [frames : 0..Horizon, audioEnded : BOOLEAN, end : BOOLEAN, error : BOOLEAN]
  BY <1>4, Fields DEF Channels
<1>8. v.burst \in 0..VideoBudget /\ v.seen \in -1..Horizon /\ v.prebuffered \in 0..PrebufferMax
  BY DEF FileOK
<1> QED
  BY <1>4, <1>5, <1>6, <1>7, <1>8 DEF VideoTypes, VideoState

-------------------------------------------------------------------------------
(* The decoder thread.                                                     *)
LEMMA FileReplaced ==
  ASSUME VideoInv, FilesInv, NEW m \in Movie, NEW w, Becomes(m, w), FileOK(w, content[m]),
         content' = content
  PROVE  FilesInv'
<1>1. ASSUME NEW n \in Movie PROVE FileOK(video'[n], content'[n])
  <2>1. video'[n] = IF n = m THEN w ELSE video[n]
    BY DEF Becomes, VideoInv, Types
  <2> QED
    BY <2>1 DEF FilesInv
<1>2. ASSUME NEW n \in Movie PROVE FileOK(video[n], content[n])'
  BY <1>1 DEF FileOK, InFlight
<1> QED
  BY <1>2 DEF FilesInv

LEMMA FilesKept ==
  ASSUME FilesInv, UNCHANGED <<video, content>>
  PROVE  FilesInv'
  BY DEF FilesInv, FileOK, InFlight

LEMMA CountKept ==
  ASSUME VideoInv, CountInv, NEW m \in Movie, NEW w, Becomes(m, w),
         UNCHANGED <<device, current, pcm, count>>,
         at' = at \/ {at, at'} \subseteq {"events", "current", "play", "leave"},
         m = current => Underway(w) = Underway(video[m]),
         m = current /\ video[m].audioEndSent => w.audioEndSent,
         m = current /\ Runs(w) => Runs(video[m])
  PROVE  CountInv'
<1>1. \A n \in Movie : video'[n] = IF n = m THEN w ELSE video[n]
  BY DEF Becomes, VideoInv, Types
<1>2. m # current => video'[current] = video[current]
  BY DEF Becomes, VideoInv, Types
<1>3. CASE m = current
  BY <1>1, <1>3 DEF CountInv, Underway, Runs
<1>4. CASE m # current
  BY <1>2, <1>4 DEF CountInv, Underway, Runs
<1> QED
  BY <1>3, <1>4

LEMMA ClockBounded ==
  ASSUME ScreenInv, NEW m \in Movie
  PROVE  Clock(m) \in -1..Horizon
  BY Limits DEF ScreenInv, Clock

LEMMA TakeAudioKeeps ==
  ASSUME VideoInv, FilesInv, ScreenInv, CountInv, NEW m \in Movie, TakeAudio(m)
  PROVE  FilesInv' /\ CountInv'
<1> DEFINE v == video[m]
           held == IF device THEN v.held + 1 ELSE v.held
           w == [v EXCEPT !.audioLeft = @ - 1, !.held = IF device THEN @ + 1 ELSE @,
                          !.pc = "audio", !.seen = Clock(m)]
<1>1. v \in VideoTypes /\ FileOK(v, content[m]) /\ v.pc = "top" /\ v.audioLeft > 0
  BY DEF VideoInv, Types, FilesInv, TakeAudio, Decodes
<1>2. /\ w.pc = "audio" /\ w.seen = Clock(m) /\ w.videoLeft = v.videoLeft /\ w.channel = v.channel
      /\ w.frames = v.frames /\ w.shown = v.shown /\ w.burst = v.burst
      /\ w.prebuffered = v.prebuffered /\ w.audioEndSent = v.audioEndSent
      /\ w.audioFinished = v.audioFinished /\ w.audioLeft = v.audioLeft - 1 /\ w.held = held
  BY <1>1 DEF VideoTypes
<1>3. Becomes(m, w) /\ UNCHANGED <<device, content, current, pcm, count, at>>
  BY DEF TakeAudio, frozen, list, screen, sound
<1> HIDE DEF w
<1>4. FileOK(w, content[m])
  <2>1. /\ content[m].audio \in Int /\ v.audioLeft \in Int /\ v.held \in Int
        /\ Clock(m) \in -1..Horizon
    BY <1>1, Limits, OfMovie, Fields, ClockBounded
  <2>2. 0 <= w.audioLeft /\ 0 <= w.held /\ w.held + w.audioLeft <= content[m].audio
    BY <1>1, <1>2, <2>1 DEF FileOK
  <2> QED
    BY <1>1, <1>2, <2>1, <2>2 DEF FileOK, InFlight
<1>5. Underway(w) = Underway(v) /\ Runs(v)
  BY <1>1, <1>2 DEF Underway, Runs
<1>6. FilesInv'
  BY <1>3, <1>4, FileReplaced
<1>7. CountInv'
  BY <1>2, <1>3, <1>5, CountKept
<1> QED
  BY <1>6, <1>7

LEMMA TakeNothingKeeps ==
  ASSUME VideoInv, FilesInv, ScreenInv, CountInv, NEW m \in Movie, TakeNothing(m)
  PROVE  FilesInv' /\ CountInv'
<1> DEFINE v == video[m]
           w == [v EXCEPT !.pc = "audio", !.seen = Clock(m)]
<1>1. v \in VideoTypes /\ FileOK(v, content[m]) /\ v.pc = "top"
  BY DEF VideoInv, Types, FilesInv, TakeNothing, Decodes
<1>2. /\ w.pc = "audio" /\ w.seen = Clock(m) /\ w.videoLeft = v.videoLeft /\ w.channel = v.channel
      /\ w.frames = v.frames /\ w.shown = v.shown /\ w.burst = v.burst
      /\ w.prebuffered = v.prebuffered /\ w.audioEndSent = v.audioEndSent
      /\ w.audioFinished = v.audioFinished /\ w.audioLeft = v.audioLeft /\ w.held = v.held
  BY <1>1 DEF VideoTypes
<1>3. Becomes(m, w) /\ UNCHANGED <<device, content, current, pcm, count, at>>
  BY DEF TakeNothing, frozen, list, screen, sound
<1> HIDE DEF w
<1>4. FileOK(w, content[m])
  BY <1>1, <1>2, ClockBounded DEF FileOK, InFlight
<1>5. Underway(w) = Underway(v) /\ Runs(v)
  BY <1>1, <1>2 DEF Underway, Runs
<1>6. FilesInv'
  BY <1>3, <1>4, FileReplaced
<1>7. CountInv'
  BY <1>2, <1>3, <1>5, CountKept
<1> QED
  BY <1>6, <1>7

LEMMA SendKeeps ==
  ASSUME VideoInv, FilesInv, CountInv, NEW m \in Movie, TakeVideo(m) \/ SendAnother(m)
  PROVE  FilesInv' /\ CountInv'
<1> DEFINE v == video[m]
           w == SendFrame(v)
<1>1. /\ v \in VideoTypes /\ MovieOK(v) /\ FileOK(v, content[m]) /\ v.pc \in {"top", "send"}
  BY DEF VideoInv, Types, FilesInv, TakeVideo, SendAnother, Decodes
<1>2. /\ w.pc = "count" /\ w.seen = v.seen /\ w.videoLeft = v.videoLeft - 1
      /\ w.channel.frames = v.channel.frames + 1 /\ w.channel.audioEnded = v.channel.audioEnded
      /\ w.frames = v.frames /\ w.shown = v.shown /\ w.burst = v.burst + 1
      /\ w.prebuffered = v.prebuffered /\ w.audioEndSent = v.audioEndSent
      /\ w.audioFinished = v.audioFinished /\ w.audioLeft = v.audioLeft /\ w.held = v.held
  BY <1>1 DEF SendFrame, VideoTypes, Channels
<1>3. Becomes(m, w) /\ UNCHANGED <<device, content, current, pcm, count, at>>
  BY DEF TakeVideo, SendAnother, frozen, list, screen, sound
<1> HIDE DEF w
<1>4. FileOK(w, content[m])
  <2>1. v.burst \in Int /\ VideoBudget \in Nat /\ 0 < VideoBudget
    BY <1>1, Fields, Limits
  <2>2. w.burst \in 0..VideoBudget
    BY <1>1, <1>2, <2>1 DEF FileOK
  <2>3. InFlight(w) = InFlight(v) + 1 /\ InFlight(v) \in Nat /\ v.videoLeft \in Nat /\ v.shown \in Int
    BY <1>1, <1>2, Fields DEF InFlight
  <2>4. content[m].video \in Int
    BY Limits, OfMovie
  <2>5. 0 <= w.shown /\ w.shown + InFlight(w) + w.videoLeft <= content[m].video
    BY <1>1, <1>2, <2>3, <2>4 DEF FileOK
  <2> QED
    BY <1>1, <1>2, <2>2, <2>5 DEF FileOK
<1>5. Underway(w) = Underway(v) /\ Runs(v)
  BY <1>1, <1>2 DEF Underway, Runs
<1>6. FilesInv'
  BY <1>3, <1>4, FileReplaced
<1>7. CountInv'
  BY <1>2, <1>3, <1>5, CountKept
<1> QED
  BY <1>6, <1>7

LEMMA CountFrameKeeps ==
  ASSUME VideoInv, FilesInv, ScreenInv, CountInv, NEW m \in Movie, CountFrame(m)
  PROVE  FilesInv' /\ CountInv'
<1> DEFINE v == video[m]
           counted == [v EXCEPT !.queuedFrames = Counted(v)]
<1>1. v \in VideoTypes /\ FileOK(v, content[m]) /\ v.pc = "count"
  BY DEF VideoInv, Types, FilesInv, CountFrame
<1>2. PICK w : /\ Becomes(m, w)
               /\ \/ w = [counted EXCEPT !.pc = "send"] /\ v.burst < VideoBudget
                  \/ w = [counted EXCEPT !.pc = "audio", !.burst = 0, !.seen = Clock(m)]
  BY DEF CountFrame
<1>3. /\ w.videoLeft = v.videoLeft /\ w.channel = v.channel
      /\ w.frames = v.frames /\ w.shown = v.shown
      /\ w.prebuffered = v.prebuffered /\ w.audioEndSent = v.audioEndSent
      /\ w.audioFinished = v.audioFinished /\ w.audioLeft = v.audioLeft /\ w.held = v.held
      /\ \/ w.pc = "send" /\ v.burst < VideoBudget /\ w.burst = v.burst /\ w.seen = v.seen
         \/ w.pc = "audio" /\ w.burst = 0 /\ w.seen = Clock(m)
  BY <1>1, <1>2 DEF VideoTypes
<1>4. UNCHANGED <<device, content, current, pcm, count, at>>
  BY DEF CountFrame, frozen, list, screen, sound
<1>5. FileOK(w, content[m])
  <2>1. 0 \in 0..VideoBudget /\ Clock(m) \in -1..Horizon
    BY Limits, ClockBounded
  <2> QED
    BY <1>1, <1>3, <2>1 DEF FileOK, InFlight
<1>6. Underway(w) = Underway(v) /\ Runs(v)
  BY <1>1, <1>3 DEF Underway, Runs
<1>7. FilesInv'
  BY <1>2, <1>4, <1>5, FileReplaced
<1>8. CountInv'
  BY <1>2, <1>3, <1>4, <1>6, CountKept
<1> QED
  BY <1>7, <1>8

LEMMA EndKeeps ==
  ASSUME VideoInv, FilesInv, CountInv, NEW m \in Movie, Fail(m) \/ Obey(m)
  PROVE  FilesInv' /\ CountInv'
<1> DEFINE v == video[m]
<1>1. v \in VideoTypes /\ FileOK(v, content[m]) /\ v.pc = "top"
  BY DEF VideoInv, Types, FilesInv, Fail, Obey, Decodes
<1>2. PICK c : /\ c = v.channel \/ c = [v.channel EXCEPT !.error = TRUE]
               /\ Becomes(m, [v EXCEPT !.channel = c, !.pc = "exited"])
  <2>1. [v EXCEPT !.pc = "exited"] = [v EXCEPT !.channel = v.channel, !.pc = "exited"]
    BY <1>1 DEF VideoTypes
  <2>2. CASE Obey(m)
    BY <2>1, <2>2 DEF Obey
  <2>3. CASE Fail(m)
    <3>1. Becomes(m, [v EXCEPT !.channel = [v.channel EXCEPT !.error = TRUE], !.pc = "exited"])
      BY <2>3 DEF Fail
    <3> QED
      BY <3>1
  <2> QED
    BY <2>2, <2>3
<1> DEFINE w == [v EXCEPT !.channel = c, !.pc = "exited"]
<1>3. c.frames = v.channel.frames /\ c.audioEnded = v.channel.audioEnded
  BY <1>1, <1>2, Fields DEF Channels
<1>4. /\ w.pc = "exited" /\ w.seen = v.seen /\ w.videoLeft = v.videoLeft /\ w.channel = c
      /\ w.frames = v.frames /\ w.shown = v.shown /\ w.burst = v.burst
      /\ w.prebuffered = v.prebuffered /\ w.audioEndSent = v.audioEndSent
      /\ w.audioFinished = v.audioFinished /\ w.audioLeft = v.audioLeft /\ w.held = v.held
  BY <1>1 DEF VideoTypes
<1>5. Becomes(m, w) /\ UNCHANGED <<device, content, current, pcm, count, at>>
  BY <1>2 DEF Fail, Obey, frozen, list, screen, sound
<1> HIDE DEF w
<1>6. FileOK(w, content[m])
  BY <1>1, <1>3, <1>4 DEF FileOK, InFlight
<1>7. Underway(w) = Underway(v) /\ Runs(v)
  BY <1>1, <1>4 DEF Underway, Runs
<1>8. FilesInv'
  BY <1>5, <1>6, FileReplaced
<1>9. CountInv'
  BY <1>4, <1>5, <1>7, CountKept
<1> QED
  BY <1>8, <1>9

\* Only the current movie's decoder counts and sends samples.
LEMMA ReserveKeeps ==
  ASSUME VideoInv, FilesInv, CountInv, NEW m \in Movie, Reserve(m)
  PROVE  FilesInv' /\ CountInv'
<1> DEFINE v == video[m]
           w == [v EXCEPT !.pc = "reserved"]
<1>1. /\ v \in VideoTypes /\ FileOK(v, content[m]) /\ v.pc = "audio" /\ v.seen >= 0
      /\ v.held > 0 /\ count < PcmMax
  BY DEF VideoInv, Types, FilesInv, Reserve, CanPush
<1>2. /\ w.pc = "reserved" /\ w.seen = v.seen /\ w.videoLeft = v.videoLeft /\ w.channel = v.channel
      /\ w.frames = v.frames /\ w.shown = v.shown /\ w.burst = v.burst
      /\ w.prebuffered = v.prebuffered /\ w.audioEndSent = v.audioEndSent
      /\ w.audioFinished = v.audioFinished /\ w.audioLeft = v.audioLeft /\ w.held = v.held
  BY <1>1 DEF VideoTypes
<1>3. /\ Becomes(m, w) /\ UNCHANGED <<device, content, current, pcm, at>>
      /\ count' = count + 1
  BY DEF Reserve, frozen, list, screen
<1>4. \A n \in Movie : video'[n] = IF n = m THEN w ELSE video[n]
  BY <1>3 DEF Becomes, VideoInv, Types
<1> HIDE DEF w
<1>5. FilesInv'
  <2>1. FileOK(w, content[m])
    BY <1>1, <1>2 DEF FileOK, InFlight
  <2> QED
    BY <2>1, <1>3, FileReplaced
<1>6. m = current /\ device /\ Runs(v)
  BY <1>1 DEF VideoInv, InTurn, Runs
<1>7. CountInv'
  <2>1. count \in Nat /\ count + 1 \in 0..(USIZE_MOD - 1) /\ pcm[m] \in Nat
    BY <1>1, Limits DEF CountInv, VideoInv, Types
  <2>2. Underway(v) = 0 /\ Underway(w) = 1 /\ video'[current] = w
    BY <1>1, <1>2, <1>4, <1>6 DEF Underway
  <2> QED
    BY <1>2, <1>3, <1>6, <2>1, <2>2 DEF CountInv, Underway
<1> QED
  BY <1>5, <1>7

LEMMA PushKeeps ==
  ASSUME VideoInv, FilesInv, CountInv, NEW m \in Movie, Push(m)
  PROVE  FilesInv' /\ CountInv'
<1> DEFINE v == video[m]
           w == [v EXCEPT !.pc = "audio", !.held = @ - 1]
<1>1. v \in VideoTypes /\ FileOK(v, content[m]) /\ v.pc = "reserved"
  BY DEF VideoInv, Types, FilesInv, Push
<1>2. /\ w.pc = "audio" /\ w.seen = v.seen /\ w.videoLeft = v.videoLeft /\ w.channel = v.channel
      /\ w.frames = v.frames /\ w.shown = v.shown /\ w.burst = v.burst
      /\ w.prebuffered = v.prebuffered /\ w.audioEndSent = v.audioEndSent
      /\ w.audioFinished = v.audioFinished /\ w.audioLeft = v.audioLeft /\ w.held = v.held - 1
  BY <1>1 DEF VideoTypes
<1>3. /\ Becomes(m, w) /\ UNCHANGED <<device, content, current, count, at>>
      /\ pcm' = [pcm EXCEPT ![m] = @ + 1]
  BY DEF Push, frozen, list, screen
<1>4. \A n \in Movie : video'[n] = IF n = m THEN w ELSE video[n]
  BY <1>3 DEF Becomes, VideoInv, Types
<1> HIDE DEF w
<1>5. FilesInv'
  <2>1. /\ content[m].audio \in Int /\ v.audioLeft \in Int /\ v.held \in Int
    BY <1>1, Limits, OfMovie, Fields
  <2>2. 0 <= w.held /\ w.held + w.audioLeft <= content[m].audio
    BY <1>1, <1>2, <2>1 DEF FileOK
  <2>3. FileOK(w, content[m])
    BY <1>1, <1>2, <2>2 DEF FileOK, InFlight
  <2> QED
    BY <2>3, <1>3, FileReplaced
<1>6. m = current /\ device /\ Runs(v)
  BY <1>1 DEF VideoInv, InTurn, Runs
<1>7. CountInv'
  <2>1. count \in Nat /\ pcm[m] \in Nat /\ pcm'[current] = pcm[current] + 1
    BY <1>3, <1>6, Limits DEF CountInv, VideoInv, Types
  <2>2. Underway(v) = 1 /\ Underway(w) = 0 /\ video'[current] = w
    BY <1>1, <1>2, <1>4, <1>6 DEF Underway
  <2> QED
    BY <1>2, <1>3, <1>6, <2>1, <2>2 DEF CountInv
<1> QED
  BY <1>5, <1>7

LEMMA FinishRoundKeeps ==
  ASSUME VideoInv, FilesInv, CountInv, NEW m \in Movie, FinishRound(m)
  PROVE  FilesInv' /\ CountInv'
<1> DEFINE v == video[m]
<1>1. v \in VideoTypes /\ FileOK(v, content[m]) /\ v.pc = "audio"
  BY DEF VideoInv, Types, FilesInv, FinishRound
<1>2. PICK pre \in 0..PrebufferMax, silent \in BOOLEAN, ends \in BOOLEAN, pc \in {"top", "exited"} :
        Becomes(m, [v EXCEPT
          !.prebuffered = pre,
          !.audioEndSent = @ \/ silent, !.endSent = @ \/ ends,
          !.channel = Announced(@, silent, ends),
          !.pc = pc, !.seen = -1])
  <2> DEFINE last == content[m].audio - v.audioLeft
             silent == v.seen >= 0 /\ last > 0 /\ ~v.audioEndSent /\ AudioIsOver(v, last)
             ends == ~v.endSent /\ v.videoLeft = 0 /\ v.audioLeft = 0
             leaves == (v.endSent \/ ends) /\ v.held = 0 /\ (v.audioEndSent \/ silent)
             pre == IF v.seen < 0 THEN Min({v.held, PrebufferMax}) ELSE v.prebuffered
             pc == IF leaves THEN "exited" ELSE "top"
  <2>1. PrebufferMax \in Nat /\ v.held \in Int /\ 0 <= v.held /\ v.prebuffered \in 0..PrebufferMax
    BY <1>1, Limits, Fields DEF FileOK
  <2>2. Min({v.held, PrebufferMax}) \in 0..PrebufferMax
    BY <2>1, Extremes
  <2>3. pre \in 0..PrebufferMax /\ silent \in BOOLEAN /\ ends \in BOOLEAN /\ pc \in {"top", "exited"}
    BY <2>1, <2>2
  <2>4. Becomes(m, [v EXCEPT
          !.prebuffered = pre,
          !.audioEndSent = @ \/ silent, !.endSent = @ \/ ends,
          !.channel = Announced(@, silent, ends),
          !.pc = pc, !.seen = -1])
    BY DEF FinishRound
  <2> HIDE DEF pre, silent, ends, pc
  <2> USE <2>3
  <2> WITNESS pre \in 0..PrebufferMax, silent \in BOOLEAN, ends \in BOOLEAN, pc \in {"top", "exited"}
  <2> QED
    BY <2>4
<1> DEFINE c == Announced(v.channel, silent, ends)
           w == [v EXCEPT !.prebuffered = pre, !.audioEndSent = @ \/ silent,
                          !.endSent = @ \/ ends, !.channel = c, !.pc = pc, !.seen = -1]
<1>3. c.frames = v.channel.frames /\ (c.audioEnded => v.channel.audioEnded \/ silent)
  BY <1>1, Fields DEF Announced, Channels
<1>4. /\ w.pc = pc /\ w.seen = -1 /\ w.videoLeft = v.videoLeft /\ w.channel = c
      /\ w.frames = v.frames /\ w.shown = v.shown /\ w.burst = v.burst
      /\ w.prebuffered = pre /\ w.audioEndSent = (v.audioEndSent \/ silent)
      /\ w.audioFinished = v.audioFinished /\ w.audioLeft = v.audioLeft /\ w.held = v.held
  BY <1>1 DEF VideoTypes
<1>5. Becomes(m, w) /\ UNCHANGED <<device, content, current, pcm, count, at>>
  BY <1>2 DEF FinishRound, frozen, list, screen, sound
<1> HIDE DEF w, c
<1>6. FileOK(w, content[m])
  <2>1. -1 \in -1..Horizon
    BY Limits
  <2>2. w.channel.audioEnded \/ w.audioFinished => w.audioEndSent
    BY <1>1, <1>3, <1>4 DEF FileOK
  <2>3. InFlight(w) = InFlight(v) /\ w.prebuffered \in 0..PrebufferMax /\ w.pc \in {"top", "exited"}
    BY <1>2, <1>3, <1>4 DEF InFlight
  <2> QED
    BY <1>1, <1>4, <2>1, <2>2, <2>3 DEF FileOK
<1>7. Underway(w) = Underway(v) /\ Runs(v)
  BY <1>1, <1>2, <1>4 DEF Underway, Runs
<1>8. FilesInv'
  BY <1>5, <1>6, FileReplaced
<1>9. CountInv'
  BY <1>4, <1>5, <1>7, CountKept
<1> QED
  BY <1>8, <1>9

LEMMA DecoderKeeps ==
  ASSUME VideoInv, FilesInv, ListInv, ScreenInv, CountInv, NEW m \in Movie, DecoderStep(m)
  PROVE  FilesInv' /\ ListInv' /\ ScreenInv' /\ CountInv'
<1>1. FilesInv' /\ CountInv'
  BY TakeAudioKeeps, TakeNothingKeeps, SendKeeps, CountFrameKeeps, EndKeeps, ReserveKeeps,
     PushKeeps, FinishRoundKeeps DEF DecoderStep
<1>2. /\ UNCHANGED <<remaining, nextEntry, preloadDue, current, next, played>>
      /\ UNCHANGED <<at, delay, hold, started, elapsed>>
      /\ upsets' = upsets \/ (upsets' = upsets + 1 /\ upsets < MaxUpsets)
  <2>1. CASE TakeAudio(m)
    BY <2>1 DEF TakeAudio, frozen, list, screen, sound
  <2>2. CASE TakeVideo(m)
    BY <2>2 DEF TakeVideo, frozen, list, screen, sound
  <2>3. CASE CountFrame(m)
    BY <2>3 DEF CountFrame, frozen, list, screen, sound
  <2>4. CASE SendAnother(m)
    BY <2>4 DEF SendAnother, frozen, list, screen, sound
  <2>5. CASE TakeNothing(m)
    BY <2>5 DEF TakeNothing, frozen, list, screen, sound
  <2>6. CASE Fail(m)
    BY <2>6 DEF Fail, frozen, list, screen, sound
  <2>7. CASE Obey(m)
    BY <2>7 DEF Obey, frozen, list, screen, sound
  <2>8. CASE Reserve(m)
    BY <2>8 DEF Reserve, frozen, list, screen, sound
  <2>9. CASE Push(m)
    BY <2>9 DEF Push, frozen, list, screen, sound
  <2>10. CASE FinishRound(m)
    BY <2>10 DEF FinishRound, frozen, list, screen, sound
  <2> QED
    BY <2>1, <2>2, <2>3, <2>4, <2>5, <2>6, <2>7, <2>8, <2>9, <2>10 DEF DecoderStep
<1>4. ListInv'
  BY <1>2 DEF ListInv, Upwards
<1>5. ScreenInv'
  BY <1>2, Limits DEF ScreenInv
<1> QED
  BY <1>1, <1>4, <1>5

-------------------------------------------------------------------------------
(* The device, the timers and the frame loop.                              *)
LEMMA MixKeeps ==
  ASSUME VideoInv, FilesInv, ListInv, ScreenInv, CountInv, Mix
  PROVE  FilesInv' /\ ListInv' /\ ScreenInv' /\ CountInv'
<1>1. /\ UNCHANGED <<device, content, remaining, nextEntry, preloadDue, current, next, played>>
      /\ UNCHANGED <<at, delay, hold, started, video, upsets>>
  BY DEF Mix, frozen, list
<1>2. FilesInv'
  BY <1>1, FilesKept
<1>3. ListInv'
  BY <1>1 DEF ListInv, Upwards
<1>4. ScreenInv'
  <2>1. elapsed' = elapsed \/ (elapsed' = elapsed + 1 /\ elapsed < Horizon)
    BY DEF Mix
  <2> QED
    BY <1>1, <2>1, Limits DEF ScreenInv
<1>5. CountInv'
  <2>1. CASE UNCHANGED sound
    BY <2>1, <1>1 DEF CountInv, sound, Runs, Underway
  <2>2. ASSUME NEW m \in Movie, pcm[m] > 0, pcm' = [pcm EXCEPT ![m] = @ - 1],
               count' = Uncounted(count)
        PROVE  CountInv'
    <3>1. m = current /\ device /\ pcm[m] \in Nat /\ pcm'[current] = pcm[current] - 1
      BY <2>2 DEF VideoInv, InTurn, Types
    <3>2. count \in 0..(USIZE_MOD - 1) /\ USIZE_MOD \in Nat /\ 0 < USIZE_MOD
      BY Limits DEF CountInv
    <3>3. count' \in 0..(USIZE_MOD - 1) /\ (count > 0 => count' = count - 1)
      BY <2>2, <3>2 DEF Uncounted
    <3>4. Underway(video[current]) \in {0, 1}
      BY DEF Underway
    <3>5. ASSUME at \notin {"zero", "advance", "title"}, ~video[current].audioEndSent
          PROVE  count' = pcm'[current] + Underway(video[current])
      <4>1. count = pcm[current] + Underway(video[current]) /\ pcm[current] > 0
        BY <3>5, <3>1, <2>2 DEF CountInv
      <4> QED
        BY <4>1, <3>1, <3>2, <3>3, <3>4
    <3>6. ~(at = "zero" /\ ~video[current].audioEndSent)
      BY <3>1, <2>2 DEF CountInv
    <3> QED
      BY <1>1, <3>1, <3>3, <3>5, <3>6 DEF CountInv, Underway
  <2> QED
    BY <2>1, <2>2 DEF Mix
<1> QED
  BY <1>2, <1>3, <1>4, <1>5

LEMMA TimerKeeps ==
  ASSUME VideoInv, FilesInv, ListInv, ScreenInv, CountInv,
         DelayOver \/ HoldOver \/ NoPreload \/ UNCHANGED vars
  PROVE  FilesInv' /\ ListInv' /\ ScreenInv' /\ CountInv'
<1>1. /\ UNCHANGED <<device, content, remaining, nextEntry, preloadDue, current, next, played>>
      /\ UNCHANGED <<started, elapsed, video, pcm, count, upsets>>
      /\ at' = at \/ (at = "events" /\ at' = "current")
      /\ delay' \in {delay, FALSE} /\ hold' \in {hold, "over"}
  BY DEF DelayOver, HoldOver, NoPreload, vars, frozen, list, screen, sound
<1>2. FilesInv'
  BY <1>1, FilesKept
<1>3. ListInv'
  BY <1>1 DEF ListInv, Upwards
<1>4. ScreenInv'
  BY <1>1 DEF ScreenInv
<1>5. CountInv'
  BY <1>1 DEF CountInv, Runs, Underway
<1> QED
  BY <1>2, <1>3, <1>4, <1>5

\* clear_pcm stores zero when the queue is still as it left it.
LEMMA StoreZeroKeeps ==
  ASSUME VideoInv, FilesInv, ListInv, ScreenInv, CountInv, StoreZero
  PROVE  FilesInv' /\ ListInv' /\ ScreenInv' /\ CountInv'
<1>1. /\ UNCHANGED <<device, content, remaining, nextEntry, preloadDue, current, next, played>>
      /\ UNCHANGED <<delay, hold, started, elapsed, video, pcm, upsets>>
      /\ at = "zero" /\ at' = "play" /\ count' = 0
  BY DEF StoreZero, ClearedCount, frozen, list
<1>2. FilesInv'
  BY <1>1, FilesKept
<1>3. ListInv'
  BY <1>1 DEF ListInv, Upwards
<1>4. ScreenInv'
  BY <1>1 DEF ScreenInv
<1>5. CountInv'
  BY <1>1, Limits DEF CountInv, Runs, Underway
<1> QED
  BY <1>2, <1>3, <1>4, <1>5

LEMMA FreshFileOK ==
  ASSUME VideoInv, NEW m \in Movie
  PROVE  FileOK(Fresh(m), content[m])
<1> DEFINE w == Fresh(m)
           f == content[m]
<1>1. f.video \in 0..Horizon /\ f.audio \in 0..Horizon
  BY OfMovie
<1>2. /\ w.pc = "top" /\ w.seen = -1 /\ w.videoLeft = f.video /\ w.channel = NoEvents
      /\ w.frames = 0 /\ w.shown = 0 /\ w.burst = 0 /\ w.prebuffered = 0
      /\ w.audioFinished = FALSE /\ w.audioLeft = f.audio /\ w.held = 0
  BY DEF Fresh, Absent
<1>3. InFlight(w) = 0 /\ ~w.channel.audioEnded
  BY <1>2 DEF InFlight, NoEvents
<1>4. 0 \in 0..VideoBudget /\ -1 \in -1..Horizon /\ 0 \in 0..PrebufferMax
  BY Limits
<1> HIDE DEF w
<1>5. /\ w.shown + InFlight(w) + w.videoLeft <= f.video /\ 0 <= w.audioLeft
      /\ w.held + w.audioLeft <= f.audio
  BY <1>1, <1>2, <1>3, Limits
<1>6. FileOK(w, f)
  BY <1>2, <1>3, <1>4, <1>5 DEF FileOK
<1> QED
  BY <1>6 DEF w

\* The movie that is started ahead is not the current one.
LEMMA StartPreloadKeeps ==
  ASSUME VideoInv, FilesInv, ListInv, ScreenInv, CountInv, StartPreload
  PROVE  FilesInv' /\ ListInv' /\ ScreenInv' /\ CountInv'
<1>1. /\ UNCHANGED <<device, content, remaining, nextEntry, current, played>>
      /\ UNCHANGED <<at, delay, hold, started, elapsed, pcm, count, upsets>>
      /\ next' = nextEntry /\ preloadDue' = FALSE /\ preloadDue
      /\ Becomes(nextEntry, Fresh(nextEntry))
  BY DEF StartPreload, frozen, screen, sound
<1>2. nextEntry \in Movie /\ nextEntry # current
  BY <1>1 DEF ListInv, Movie, None
<1>3. FileOK(Fresh(nextEntry), content[nextEntry])
  BY <1>2, FreshFileOK
<1>4. FilesInv'
  BY <1>1, <1>2, <1>3, FileReplaced
<1>5. ListInv'
  BY <1>1, <1>2 DEF ListInv, Upwards
<1>6. ScreenInv'
  BY <1>1 DEF ScreenInv
<1>7. CountInv'
  BY <1>1, <1>2, CountKept
<1> QED
  BY <1>4, <1>5, <1>6, <1>7

\* What becomes of a record that is drained, stopped, dropped.
LEMMA DrainedFileOK ==
  ASSUME NEW v \in VideoTypes, NEW f \in File, FileOK(v, f)
  PROVE  /\ FileOK(Drained(v), f) /\ Drained(v).audioEndSent = v.audioEndSent
         /\ Drained(v).pc = v.pc
<1> DEFINE w == Drained(v)
<1>1. /\ w.pc = v.pc /\ w.seen = v.seen /\ w.videoLeft = v.videoLeft /\ w.channel = NoEvents
      /\ w.frames = v.frames + v.channel.frames /\ w.shown = v.shown /\ w.burst = v.burst
      /\ w.prebuffered = v.prebuffered /\ w.audioEndSent = v.audioEndSent
      /\ w.audioFinished = (v.audioFinished \/ v.channel.audioEnded)
      /\ w.audioLeft = v.audioLeft /\ w.held = v.held
  BY DEF Drained, VideoTypes
<1>2. InFlight(w) = InFlight(v) /\ ~w.channel.audioEnded
  BY <1>1, Fields DEF InFlight, NoEvents
<1> HIDE DEF w
<1>3. FileOK(w, f)
  BY <1>1, <1>2 DEF FileOK
<1> QED
  BY <1>1, <1>3 DEF w

LEMMA StoppedFileOK ==
  ASSUME NEW v \in VideoTypes, NEW f \in File, FileOK(v, f)
  PROVE  /\ FileOK(Stopped(v), f) /\ Stopped(v).audioEndSent = v.audioEndSent
         /\ Stopped(v).pc = v.pc
<1> DEFINE w == Stopped(v)
<1>1. /\ w.pc = v.pc /\ w.seen = v.seen /\ w.videoLeft = v.videoLeft /\ w.channel = NoEvents
      /\ w.frames = 0 /\ w.shown = v.shown /\ w.burst = v.burst
      /\ w.prebuffered = 0 /\ w.audioEndSent = v.audioEndSent
      /\ w.audioFinished = v.audioFinished
      /\ w.audioLeft = v.audioLeft /\ w.held = v.held
  BY DEF Stopped, VideoTypes
<1>2. InFlight(w) = 0 /\ ~w.channel.audioEnded /\ InFlight(v) \in Nat
  BY <1>1, Fields DEF InFlight, NoEvents
<1> HIDE DEF w
<1>3. /\ v.shown \in Int /\ v.videoLeft \in Nat /\ f.video \in Int /\ 0 \in 0..PrebufferMax
  BY Fields, Limits DEF File
<1>4. w.shown + InFlight(w) + w.videoLeft <= f.video
  BY <1>1, <1>2, <1>3 DEF FileOK
<1>5. FileOK(w, f)
  BY <1>1, <1>2, <1>3, <1>4 DEF FileOK
<1> QED
  BY <1>1, <1>5 DEF w

LEMMA AbsentFileOK ==
  ASSUME NEW f \in File
  PROVE  FileOK(Absent, f)
<1>1. f.video \in 0..Horizon /\ f.audio \in 0..Horizon
  BY DEF File
<1> QED
  BY <1>1, Limits DEF FileOK, Absent, NoEvents, InFlight

LEMMA DrainPreloadKeeps ==
  ASSUME VideoInv, FilesInv, ListInv, ScreenInv, CountInv, DrainPreload
  PROVE  FilesInv' /\ ListInv' /\ ScreenInv' /\ CountInv'
<1> DEFINE v == video[next]
<1>1. /\ UNCHANGED <<device, content, remaining, nextEntry, preloadDue, current, played>>
      /\ UNCHANGED <<delay, hold, started, elapsed, pcm, count, upsets>>
      /\ at = "events" /\ at' = "current" /\ next # None /\ next' \in {next, None}
  BY DEF DrainPreload, frozen, sound
<1>2. next \in Movie /\ next # current
  BY <1>1 DEF ListInv, Movie, None
<1>3. PICK w : Becomes(next, w) /\ w \in {Dropped(v), Drained(v)}
  BY DEF DrainPreload
<1>4. FileOK(w, content[next])
  <2>1. v \in VideoTypes /\ FileOK(v, content[next]) /\ content[next] \in File
    BY <1>2, OfMovie DEF FilesInv
  <2>2. FileOK(Drained(v), content[next])
    BY <2>1, DrainedFileOK
  <2>3. FileOK(Dropped(v), content[next])
    BY <2>1, AbsentFileOK DEF Dropped
  <2> QED
    BY <1>3, <2>2, <2>3
<1>5. FilesInv'
  BY <1>1, <1>2, <1>3, <1>4, FileReplaced
<1>6. ListInv'
  BY <1>1 DEF ListInv, Upwards
<1>7. ScreenInv'
  BY <1>1 DEF ScreenInv
<1>8. CountInv'
  BY <1>1, <1>2, <1>3, CountKept
<1> QED
  BY <1>5, <1>6, <1>7, <1>8

\* The queue is cleared for a movie whose decoder has ended, or whose audio
\* has been announced to be over.
LEMMA DrainCurrentKeeps ==
  ASSUME VideoInv, FilesInv, ListInv, ScreenInv, CountInv, DrainCurrent
  PROVE  FilesInv' /\ ListInv' /\ ScreenInv' /\ CountInv'
<1> DEFINE u == video[current]
           v == Drained(u)
           x == IF u.channel.error THEN Stopped(v) ELSE v
           w == [x EXCEPT !.audioFinished = ~device /\ @]
<1>1. /\ UNCHANGED <<device, content, remaining, nextEntry, preloadDue, current, next, played>>
      /\ UNCHANGED <<delay, hold, elapsed, count, upsets>>
      /\ at = "current" /\ Becomes(current, w)
      /\ at' \in {"zero", "play"} /\ started' \in BOOLEAN
      /\ at' = "play" => pcm' = pcm
      /\ at' = "zero" => device /\ EmptyPcm /\ (u.channel.error \/ v.audioFinished)
  BY DEF DrainCurrent, ScreenInv, frozen, list
<1>2. current \in Movie
  BY <1>1 DEF ListInv
<1>3. u \in VideoTypes /\ MovieOK(u) /\ FileOK(u, content[current]) /\ content[current] \in File
  BY <1>2, OfMovie DEF FilesInv
<1>4. /\ v \in VideoTypes /\ FileOK(v, content[current])
      /\ v.audioEndSent = u.audioEndSent /\ v.pc = u.pc
  BY <1>3, DrainedOK, DrainedFileOK
<1>5. v.audioFinished => u.audioEndSent
  BY <1>4 DEF FileOK
<1>6. /\ x \in VideoTypes /\ FileOK(x, content[current])
      /\ x.audioEndSent = u.audioEndSent /\ x.pc = u.pc
  <2> HIDE DEF v, u
  <2>1. CASE ~u.channel.error
    BY <2>1, <1>4
  <2>2. CASE u.channel.error
    <3>1. ~Runs(v) /\ MovieOK(v)
      BY <1>3, <1>4, <2>2, DrainedOK DEF MovieOK, Runs, u, v
    <3>2. x = Stopped(v)
      BY <2>2
    <3> QED
      BY <3>1, <3>2, <1>3, <1>4, StoppedOK, StoppedFileOK
  <2> QED
    BY <2>1, <2>2
<1> HIDE DEF x, v
<1>7. FileOK(w, content[current]) /\ w.audioEndSent = u.audioEndSent /\ w.pc = u.pc
  <2>1. /\ w.pc = x.pc /\ w.seen = x.seen /\ w.videoLeft = x.videoLeft /\ w.channel = x.channel
        /\ w.frames = x.frames /\ w.shown = x.shown /\ w.burst = x.burst
        /\ w.prebuffered = x.prebuffered /\ w.audioEndSent = x.audioEndSent
        /\ w.audioLeft = x.audioLeft /\ w.held = x.held
        /\ w.audioFinished => x.audioFinished
    BY <1>6 DEF VideoTypes
  <2> HIDE DEF w
  <2> QED
    BY <1>6, <2>1 DEF FileOK, InFlight
<1> HIDE DEF w
<1>8. FilesInv'
  BY <1>1, <1>2, <1>7, FileReplaced
<1>9. ListInv'
  BY <1>1 DEF ListInv, Upwards
<1>10. ScreenInv'
  BY <1>1 DEF ScreenInv
<1>11. CountInv'
  <2>1. video'[current] = w /\ Underway(w) = Underway(u) /\ (Runs(w) => Runs(u))
    BY <1>1, <1>2, <1>7 DEF Becomes, VideoInv, Types, Underway, Runs
  <2>2. CASE at' = "play"
    BY <2>1, <2>2, <1>1, <1>7 DEF CountInv
  <2>3. CASE at' = "zero"
    <3>1. pcm'[current] = 0
      BY <2>3, <1>1, <1>2 DEF EmptyPcm
    <3>2. ~u.audioEndSent => ~Runs(u)
      BY <2>3, <1>1, <1>3, <1>5 DEF MovieOK
    <3> QED
      BY <2>1, <2>3, <3>1, <3>2, <1>1, <1>7 DEF CountInv
  <2> QED
    BY <2>2, <2>3, <1>1
<1> QED
  BY <1>8, <1>9, <1>10, <1>11

LEMMA PlayKeeps ==
  ASSUME VideoInv, FilesInv, ListInv, ScreenInv, CountInv, Play
  PROVE  FilesInv' /\ ListInv' /\ ScreenInv' /\ CountInv'
<1> DEFINE v == video[current]
           Due(starts, now) == IF ~delay /\ (started \/ starts) THEN Taken(v, now) ELSE 0
<1>1. PICK starts \in BOOLEAN, leaves \in BOOLEAN, now \in Int :
        /\ Becomes(current, Shown(v, Due(starts, now), leaves))
        /\ now = IF starts THEN 0 ELSE elapsed
        /\ elapsed' = now /\ started' = (started \/ starts)
        /\ at' = IF leaves THEN "leave" ELSE "events"
        /\ hold' \in {hold, "running"}
  <2> DEFINE starts == ~delay /\ CanStart(v)
             now == IF starts THEN 0 ELSE elapsed
             taken == Due(starts, now)
             over == v.finished /\ taken = v.frames
             leaves == over /\ (hold = "over" \/ ~content[current].hold)
  <2>1. starts \in BOOLEAN /\ leaves \in BOOLEAN /\ now \in Int
    BY DEF CanStart, VideoInv, Types
  <2>2. /\ Becomes(current, Shown(v, Due(starts, now), leaves))
        /\ now = IF starts THEN 0 ELSE elapsed
        /\ elapsed' = now /\ started' = (started \/ starts)
        /\ at' = IF leaves THEN "leave" ELSE "events"
        /\ hold' \in {hold, "running"}
    BY DEF Play, Shown
  <2> HIDE DEF starts, leaves, now, Due
  <2> QED
    BY <2>1, <2>2
<1> DEFINE taken == Due(starts, now)
           w == Shown(v, taken, leaves)
<1>2. /\ UNCHANGED <<device, content, remaining, nextEntry, preloadDue, current, next, played>>
      /\ UNCHANGED <<delay, pcm, count, upsets>> /\ at = "play"
  BY DEF Play, frozen, list, sound
<1>3. current \in Movie
  BY <1>2 DEF ListInv
<1>4. v \in VideoTypes /\ FileOK(v, content[current])
  BY <1>3, OfMovie DEF FilesInv
<1>5. taken \in 0..v.frames
  <2>1. 0 \in 0..v.frames /\ Taken(v, now) \in 0..v.frames
    BY <1>4, Fields, TakenBounded
  <2> QED
    BY <1>1, <2>1
<1> HIDE DEF taken
<1>6. FileOK(w, content[current]) /\ w.audioEndSent = v.audioEndSent /\ w.pc = v.pc
  <2>1. /\ w.pc = v.pc /\ w.seen = v.seen /\ w.videoLeft = v.videoLeft /\ w.channel = v.channel
        /\ w.frames = v.frames - taken /\ w.shown = v.shown + taken /\ w.burst = v.burst
        /\ w.prebuffered = v.prebuffered /\ w.audioEndSent = v.audioEndSent
        /\ w.audioFinished = v.audioFinished /\ w.audioLeft = v.audioLeft /\ w.held = v.held
    BY <1>4 DEF Shown, VideoTypes
  <2> HIDE DEF w
  <2>2. /\ v.frames \in Nat /\ v.channel.frames \in Nat /\ v.shown \in Int /\ v.videoLeft \in Nat
        /\ taken \in Nat /\ content[current].video \in Int
    BY <1>3, <1>4, <1>5, Fields, Limits, OfMovie
  <2>3. w.shown + InFlight(w) = v.shown + InFlight(v) /\ w.shown >= v.shown
    BY <2>1, <2>2 DEF InFlight
  <2>4. 0 <= w.shown /\ w.shown + InFlight(w) + w.videoLeft <= content[current].video
    BY <1>4, <2>1, <2>2, <2>3 DEF FileOK, InFlight
  <2> QED
    BY <1>4, <2>1, <2>4 DEF FileOK
<1>7. Becomes(current, w)
  BY <1>1 DEF taken
<1> HIDE DEF w
<1>8. FilesInv'
  BY <1>2, <1>3, <1>6, <1>7, FileReplaced
<1>9. ListInv'
  BY <1>1, <1>2 DEF ListInv, Upwards
<1>10. ScreenInv'
  BY <1>1, <1>2, Limits DEF ScreenInv
<1>11. CountInv'
  BY <1>1, <1>2, <1>3, <1>6, <1>7, CountKept DEF Underway, Runs
<1> QED
  BY <1>8, <1>9, <1>10, <1>11

LEMMA SkipKeeps ==
  ASSUME VideoInv, FilesInv, ListInv, ScreenInv, CountInv, Skip
  PROVE  FilesInv' /\ ListInv' /\ ScreenInv' /\ CountInv'
<1> DEFINE v == video[current]
           w == [v EXCEPT !.stop = TRUE]
<1>1. /\ UNCHANGED <<device, content, remaining, nextEntry, preloadDue, current, next, played>>
      /\ UNCHANGED <<delay, hold, started, elapsed, pcm, count>>
      /\ Becomes(current, w) /\ at = "events" /\ at' = "leave"
      /\ upsets' = upsets + 1 /\ upsets < MaxUpsets
  BY DEF Skip, frozen, list, sound
<1>2. current \in Movie
  BY <1>1 DEF ListInv
<1>3. v \in VideoTypes /\ FileOK(v, content[current])
  BY <1>2, OfMovie DEF FilesInv
<1>4. FileOK(w, content[current]) /\ w.audioEndSent = v.audioEndSent /\ w.pc = v.pc
  <2>1. /\ w.pc = v.pc /\ w.seen = v.seen /\ w.videoLeft = v.videoLeft /\ w.channel = v.channel
        /\ w.frames = v.frames /\ w.shown = v.shown /\ w.burst = v.burst
        /\ w.prebuffered = v.prebuffered /\ w.audioEndSent = v.audioEndSent
        /\ w.audioFinished = v.audioFinished /\ w.audioLeft = v.audioLeft /\ w.held = v.held
    BY <1>3 DEF VideoTypes
  <2> HIDE DEF w
  <2> QED
    BY <1>3, <2>1 DEF FileOK, InFlight
<1> HIDE DEF w
<1>5. FilesInv'
  BY <1>1, <1>2, <1>4, FileReplaced
<1>6. ListInv'
  BY <1>1 DEF ListInv, Upwards
<1>7. ScreenInv'
  BY <1>1, Limits DEF ScreenInv
<1>8. CountInv'
  BY <1>1, <1>2, <1>4, CountKept DEF Underway, Runs
<1> QED
  BY <1>5, <1>6, <1>7, <1>8

LEMMA LeaveKeeps ==
  ASSUME VideoInv, FilesInv, ListInv, ScreenInv, CountInv, Leave
  PROVE  FilesInv' /\ ListInv' /\ ScreenInv' /\ CountInv'
<1>1. /\ UNCHANGED <<device, content, remaining, nextEntry, preloadDue, current, next, played>>
      /\ UNCHANGED <<delay, hold, started, elapsed, video, count, upsets>>
      /\ at = "leave" /\ at' = "advance"
  BY DEF Leave, frozen, list
<1>2. FilesInv'
  BY <1>1, FilesKept
<1>3. ListInv'
  BY <1>1 DEF ListInv, Upwards
<1>4. ScreenInv'
  BY <1>1 DEF ScreenInv
<1>5. CountInv'
  BY <1>1 DEF CountInv
<1> QED
  BY <1>2, <1>3, <1>4, <1>5

\* The first of what remains and the rest of it.
LEMMA FirstAndRest ==
  ASSUME NEW s \in Seq(Movie), Upwards(s), NEW e, \A i \in 1..Len(s) : e < s[i]
  PROVE  /\ RestOf(s) \in Seq(Movie) /\ FirstOf(s) \in Movie \cup {None}
         /\ FirstOf(s) # None => e < FirstOf(s) /\ FirstOf(s) \in Movie
         /\ FirstOf(s) = None <=> s = <<>>
         /\ Upwards(RestOf(s))
         /\ \A i \in 1..Len(RestOf(s)) : FirstOf(s) < RestOf(s)[i] /\ e < RestOf(s)[i]
<1>1. CASE s = <<>>
  BY <1>1 DEF FirstOf, RestOf, Upwards
<1>2. CASE s # <<>>
  <2>1. /\ FirstOf(s) = s[1] /\ RestOf(s) = Tail(s) /\ Len(s) \in Nat /\ Len(s) >= 1
        /\ s[1] \in Movie
    BY <1>2 DEF FirstOf, RestOf
  <2>2. /\ Tail(s) \in Seq(Movie) /\ Len(Tail(s)) = Len(s) - 1
        /\ \A i \in 1..Len(Tail(s)) : Tail(s)[i] = s[i + 1]
    BY <1>2
  <2>3. ASSUME NEW j \in 1..Len(Tail(s)), NEW i \in 1..(j - 1)
        PROVE  Tail(s)[i] < Tail(s)[j]
    <3>1. i + 1 \in 1..(j + 1 - 1) /\ j + 1 \in 1..Len(s) /\ i \in 1..Len(Tail(s))
      BY <2>1, <2>2
    <3> QED
      BY <3>1, <2>2 DEF Upwards
  <2>4. ASSUME NEW i \in 1..Len(Tail(s))
        PROVE  s[1] < Tail(s)[i] /\ e < Tail(s)[i]
    <3>1. i + 1 \in 1..Len(s) /\ 1 \in 1..(i + 1 - 1)
      BY <2>1, <2>2
    <3> QED
      BY <3>1, <2>2 DEF Upwards
  <2>5. None \notin Movie
    BY DEF None, Movie
  <2>6. 1 \in 1..Len(s)
    BY <2>1
  <2> QED
    BY <1>2, <2>1, <2>2, <2>3, <2>4, <2>5, <2>6 DEF Upwards
<1> QED
  BY <1>1, <1>2

\* The list goes on in order, whichever movie succeeds; the movie decoded
\* ahead has counted no samples, nor has one that starts.
LEMMA AdvanceKeeps ==
  ASSUME VideoInv, FilesInv, ListInv, ScreenInv, CountInv, Advance
  PROVE  FilesInv' /\ ListInv' /\ ScreenInv' /\ CountInv'
<1> DEFINE rest == IF next # None THEN remaining ELSE RestOf(remaining)
<1>1. /\ at = "advance" /\ count' = (IF device THEN 0 ELSE count)
      /\ current' = Successor /\ nextEntry' = FirstOf(rest) /\ remaining' = RestOf(rest)
      /\ preloadDue' = (rest # <<>>) /\ next' = None
      /\ video' = [m \in Movie |->
                     IF m = current THEN Dropped(video[m])
                     ELSE IF m = Successor /\ next = None THEN Fresh(m) ELSE video[m]]
      /\ played' = (IF Successor = None THEN played ELSE played \cup {Successor})
      /\ delay' = (Successor # None) /\ hold' = "none" /\ started' = FALSE /\ elapsed' = 0
      /\ at' = (IF Successor = None THEN "title" ELSE "events")
      /\ UNCHANGED <<device, content, pcm, upsets>>
  BY DEF Advance, ClearedCount, frozen
<1>2. /\ current \in Movie /\ None \notin Movie /\ remaining \in Seq(Movie) /\ Upwards(remaining)
      /\ current \in Int /\ nextEntry \in Int
  BY <1>1 DEF ListInv, Movie, None
<1>3. /\ FirstOf(remaining) \in Movie \cup {None}
      /\ FirstOf(remaining) # None => FirstOf(remaining) \in Movie /\ current < FirstOf(remaining)
      /\ RestOf(remaining) \in Seq(Movie) /\ Upwards(RestOf(remaining))
      /\ \A i \in 1..Len(RestOf(remaining)) : FirstOf(remaining) < RestOf(remaining)[i]
      /\ FirstOf(remaining) = None => RestOf(remaining) = <<>>
  BY <1>2, FirstAndRest DEF ListInv, RestOf
<1>4. /\ Successor \in Movie \cup {None}
      /\ Successor # None => Successor \in Movie /\ current < Successor
      /\ rest \in Seq(Movie) /\ Upwards(rest)
      /\ \A i \in 1..Len(rest) : Successor < rest[i]
  <2>1. CASE next # None
    BY <2>1, <1>2 DEF Successor, ListInv
  <2>2. CASE next = None
    BY <2>2, <1>3 DEF Successor
  <2> QED
    BY <2>1, <2>2
<1>5. /\ RestOf(rest) \in Seq(Movie) /\ FirstOf(rest) \in Movie \cup {None}
      /\ FirstOf(rest) # None => Successor < FirstOf(rest) /\ FirstOf(rest) \in Movie
      /\ FirstOf(rest) = None <=> rest = <<>>
      /\ Upwards(RestOf(rest))
      /\ \A i \in 1..Len(RestOf(rest)) :
           FirstOf(rest) < RestOf(rest)[i] /\ Successor < RestOf(rest)[i]
  <2> HIDE DEF rest
  <2> QED
    BY <1>4, FirstAndRest
<1>6. Successor # current
  BY <1>2, <1>4
<1>7. FilesInv'
  <2>1. ASSUME NEW n \in Movie PROVE FileOK(video'[n], content'[n])
    <3>1. FileOK(video[n], content[n]) /\ content[n] \in File /\ content' = content
      BY <1>1, OfMovie DEF FilesInv
    <3>2. FileOK(Dropped(video[n]), content[n])
      BY <3>1, AbsentFileOK DEF Dropped
    <3>3. FileOK(Fresh(n), content[n])
      BY FreshFileOK
    <3>4. video'[n] \in {Dropped(video[n]), Fresh(n), video[n]}
      BY <1>1
    <3> QED
      BY <3>1, <3>2, <3>3, <3>4
  <2>2. ASSUME NEW n \in Movie PROVE FileOK(video[n], content[n])'
    BY <2>1 DEF FileOK, InFlight
  <2> QED
    BY <2>2 DEF FilesInv
<1>8. ListInv'
  <2>1. /\ current' \in Movie \cup {None} /\ (at' # "title" => current' \in Movie)
        /\ played' \subseteq Movie /\ preloadDue' \in BOOLEAN
    BY <1>1, <1>4 DEF ListInv
  <2>2. FirstOf(rest) = None => RestOf(rest) = <<>> /\ preloadDue' = FALSE
    BY <1>1, <1>5 DEF RestOf
  <2>3. Upwards(remaining)'
    BY <1>1, <1>5 DEF Upwards
  <2> HIDE DEF rest
  <2> QED
    BY <1>1, <1>5, <2>1, <2>2, <2>3 DEF ListInv
<1>9. ScreenInv'
  <2>1. 0 \in 0..Horizon
    BY Limits
  <2>2. /\ at' \in {"title", "events"} /\ delay' \in BOOLEAN /\ hold' = "none"
        /\ started' = FALSE /\ elapsed' = 0 /\ upsets' = upsets
    BY <1>1
  <2> QED
    BY <2>1, <2>2 DEF ScreenInv
<1>10. CountInv'
  <2>1. count' = 0
    BY <1>1 DEF CountInv
  <2>2. ASSUME Successor # None
        PROVE  pcm'[Successor] = 0 /\ Underway(video'[Successor]) = 0
    <3>1. Successor \in Movie /\ pcm[Successor] = 0
      BY <2>2, <1>1, <1>4 DEF VideoInv, InTurn
    <3>2. video'[Successor] = IF next = None THEN Fresh(Successor) ELSE video[Successor]
      BY <1>1, <1>6, <3>1
    <3>3. Fresh(Successor).pc = "top"
      BY <3>1, FreshOK DEF VideoInv, Types
    <3>4. video[Successor].pc # "reserved"
      BY <3>1, <1>6 DEF VideoInv, InTurn, Runs
    <3> QED
      BY <1>1, <3>1, <3>2, <3>3, <3>4 DEF Underway
  <2> QED
    BY <1>1, <2>1, <2>2, Limits DEF CountInv
<1> QED
  BY <1>7, <1>8, <1>9, <1>10

-------------------------------------------------------------------------------
LEMMA InitCounts == Init => FilesInv /\ ListInv /\ ScreenInv /\ CountInv
<1> SUFFICES ASSUME Init PROVE FilesInv /\ ListInv /\ ScreenInv /\ CountInv
  OBVIOUS
<1>1. /\ content \in Contents /\ device \in BOOLEAN /\ current = 1
      /\ nextEntry = (IF Last > 1 THEN 2 ELSE None)
      /\ remaining = [i \in 1..(Last - 2) |-> i + 2]
      /\ preloadDue = (Last > 1) /\ next = None /\ played = {1}
      /\ at = "events" /\ delay = TRUE /\ hold = "none" /\ started = FALSE /\ elapsed = 0
      /\ video = [m \in Movie |-> IF m = 1 THEN Fresh(m) ELSE Absent]
      /\ pcm = [m \in Movie |-> 0] /\ count = 0 /\ upsets = 0
  BY DEF Init
<1>2. Last \in Nat /\ Last >= 1 /\ 1 \in Movie
  BY VideoAssumption DEF Movie
<1>3. VideoInv
  BY VideoInit
<1>8. (Last > 1 => preloadDue = TRUE) /\ (~(Last > 1) => preloadDue = FALSE)
  <2>1. preloadDue = (Last > 1)
    BY DEF Init
  <2>2. ASSUME Last > 1 PROVE preloadDue = TRUE
    BY <2>1, <2>2, Zenon
  <2>3. ASSUME ~(Last > 1) PROVE preloadDue = FALSE
    <3>1. preloadDue \in BOOLEAN
      BY <1>2, <2>1, SMT
    <3>2. preloadDue # TRUE
      BY <2>1, <2>3, Zenon
    <3> QED
      BY <3>1, <3>2
  <2> QED
    BY <2>2, <2>3
<1>4. FilesInv
  <2>1. ASSUME NEW n \in Movie PROVE FileOK(video[n], content[n])
    BY <1>1, <1>3, FreshFileOK, AbsentFileOK, OfMovie
  <2> QED
    BY <2>1 DEF FilesInv
<1>5. ListInv
  <2>1. CASE Last <= 2
    <3>1. remaining = <<>>
      BY <1>1, <1>2, <2>1
    <3>2. CASE Last = 1
      <4>1. nextEntry = None /\ preloadDue = FALSE
        BY <3>2, <1>1, <1>8
      <4>2. remaining \in Seq(Movie) /\ Upwards(remaining) /\ \A i \in 1..Len(remaining) : FALSE
        BY <3>1 DEF Upwards
      <4>3. current = 1 /\ at = "events" /\ next = None /\ played = {1} /\ None # 2
        BY <1>1 DEF None
      <4> QED
        BY <1>2, <3>1, <4>1, <4>2, <4>3 DEF ListInv
    <3>3. CASE Last = 2
      <4>1. nextEntry = 2 /\ preloadDue = TRUE /\ 2 \in Movie
        BY <3>3, <1>1, <1>8 DEF Movie
      <4>2. remaining \in Seq(Movie) /\ Upwards(remaining) /\ \A i \in 1..Len(remaining) : FALSE
        BY <3>1 DEF Upwards
      <4>3. current = 1 /\ at = "events" /\ next = None /\ played = {1} /\ None # 2
        BY <1>1 DEF None
      <4> QED
        BY <1>2, <3>1, <4>1, <4>2, <4>3 DEF ListInv
    <3> QED
      BY <1>2, <2>1, <3>2, <3>3
  <2>2. CASE Last > 2
    <3>1. Last - 2 \in Nat /\ \A i \in 1..(Last - 2) : i + 2 \in Movie
      BY <1>2, <2>2 DEF Movie
    <3>2. [i \in 1..(Last - 2) |-> i + 2] \in Seq(Movie)
      BY <3>1
    <3>3. remaining \in Seq(Movie) /\ Len(remaining) = Last - 2
      BY <1>1, <3>1, <3>2
    <3>4. \A i \in 1..Len(remaining) : remaining[i] = i + 2
      BY <1>1, <3>3
    <3>5. Upwards(remaining)
      <4>1. ASSUME NEW j \in 1..Len(remaining), NEW i \in 1..(j - 1)
            PROVE  remaining[i] < remaining[j]
        <5>1. i \in 1..Len(remaining) /\ i < j
          BY <3>1, <3>3
        <5>2. remaining[i] = i + 2 /\ remaining[j] = j + 2
          BY <5>1, <3>4
        <5> QED
          BY <5>1, <5>2
      <4> QED
        BY <4>1 DEF Upwards
    <3>6. nextEntry = 2 /\ 2 \in Movie /\ None # 2 /\ preloadDue = TRUE
      <4>1. Last > 1
        BY <1>2, <2>2
      <4> QED
        BY <1>1, <1>2, <1>8, <4>1 DEF Movie, None
    <3> QED
      BY <1>1, <1>2, <3>3, <3>4, <3>5, <3>6 DEF ListInv
  <2> QED
    BY <1>2, <2>1, <2>2
<1>6. ScreenInv
  <2>1. 0 \in 0..Horizon /\ 0 \in 0..MaxUpsets
    BY Limits
  <2> QED
    BY <1>1, <2>1 DEF ScreenInv
<1>7. CountInv
  <2>1. video[current] = Fresh(1) /\ pcm[current] = 0
    BY <1>1, <1>2
  <2>2. Fresh(1).pc = "top"
    BY <1>1, <1>2, FreshOK
  <2> QED
    BY <1>1, <2>1, <2>2, Limits DEF CountInv, Underway
<1> QED
  BY <1>4, <1>5, <1>6, <1>7

LEMMA CountsInductive == Spec => [](VideoInv /\ FilesInv /\ ListInv /\ ScreenInv /\ CountInv)
<1>1. ASSUME VideoInv, FilesInv, ListInv, ScreenInv, CountInv, [Next]_vars
      PROVE  FilesInv' /\ ListInv' /\ ScreenInv' /\ CountInv'
  <2>1. CASE \E m \in Movie : DecoderStep(m)
    BY <1>1, <2>1, DecoderKeeps
  <2>2. CASE Mix
    BY <1>1, <2>2, MixKeeps
  <2>3. CASE StartPreload \/ DrainPreload
    BY <1>1, <2>3, StartPreloadKeeps, DrainPreloadKeeps
  <2>4. CASE NoPreload \/ DelayOver \/ HoldOver \/ UNCHANGED vars
    BY <1>1, <2>4, TimerKeeps
  <2>5. CASE DrainCurrent \/ StoreZero
    BY <1>1, <2>5, DrainCurrentKeeps, StoreZeroKeeps
  <2>6. CASE Play \/ Skip
    BY <1>1, <2>6, PlayKeeps, SkipKeeps
  <2>7. CASE Leave \/ Advance
    BY <1>1, <2>7, LeaveKeeps, AdvanceKeeps
  <2> QED
    BY <1>1, <2>1, <2>2, <2>3, <2>4, <2>5, <2>6, <2>7 DEF Next, FrameStep
<1> QED
  BY <1>1, InitCounts, VideoInductive, PTL DEF Spec

\* Only the current movie has samples in the queue or is about to have.
LEMMA QueuedOfCurrent ==
  ASSUME VideoInv, ListInv, current \in Movie
  PROVE  /\ Cardinality(Queued) = pcm[current]
         /\ Cardinality(Reserving) = Underway(video[current])
<1>1. /\ pcm[current] \in Nat
      /\ \A m \in Movie : m # current => pcm[m] = 0 /\ video[m].pc # "reserved"
  BY DEF VideoInv, Types, InTurn, Runs
<1>2. Queued = {current} \X (1..pcm[current])
  <2>1. ASSUME NEW m \in Movie, m # current PROVE 1..pcm[m] = {}
    BY <1>1, <2>1
  <2> QED
    BY <2>1 DEF Queued
<1>3. Cardinality({current} \X (1..pcm[current])) = pcm[current]
  <2>1. IsFiniteSet({current}) /\ Cardinality({current}) = 1
    BY FS_Singleton
  <2>2. IsFiniteSet(1..pcm[current]) /\ Cardinality(1..pcm[current]) = pcm[current]
    BY <1>1, FS_Interval
  <2>3. Cardinality({current} \X (1..pcm[current])) = 1 * pcm[current]
    <3> DEFINE S == {current}
               T == 1..pcm[current]
    <3> HIDE DEF S, T
    <3>1. IsFiniteSet(S) /\ IsFiniteSet(T)
      BY <2>1, <2>2 DEF S, T
    <3>2. Cardinality(S \X T) = Cardinality(S) * Cardinality(T)
      BY <3>1, FS_Product
    <3> QED
      BY <3>2, <2>1, <2>2 DEF S, T
  <2> QED
    BY <1>1, <2>3
<1>4. Reserving = IF video[current].pc = "reserved" THEN {current} ELSE {}
  BY <1>1 DEF Reserving
<1>5. Cardinality(Reserving) = Underway(video[current])
  BY <1>4, FS_Singleton, FS_EmptySet DEF Underway
<1> QED
  BY <1>2, <1>3, <1>5

(* Both counters the decoders share with the main thread and the audio     *)
(* callback are right where they are compared, and everything keeps its    *)
(* bounds: pcm_queued (PcmWriter::try_push, PcmStream::mix_into,           *)
(* clear_pcm) is what is queued and about to be until the current movie's  *)
(* audio has been given up, queued_frames is what the player has to take.  *)
THEOREM CountersAreExact == Spec => []CountsExact
<1>1. ASSUME VideoInv, FilesInv, ListInv, ScreenInv, CountInv
      PROVE  TypeOK /\ CountExact
  <2>1. video \in [Movie -> VideoState]
    <3>1. ASSUME NEW m \in Movie PROVE video[m] \in VideoState
      BY <1>1, OfMovie, Bounded DEF FilesInv
    <3> QED
      BY <1>1, <3>1 DEF VideoInv, Types
  <2>2. /\ device \in BOOLEAN /\ content \in Contents /\ pcm \in [Movie -> Nat]
        /\ count \in 0..(USIZE_MOD - 1)
    BY <1>1 DEF VideoInv, Types, CountInv
  <2>3. /\ remaining \in Seq(Movie) /\ {nextEntry, current, next} \subseteq Movie \cup {None}
        /\ preloadDue \in BOOLEAN /\ played \subseteq Movie
    BY <1>1 DEF ListInv
  <2>4. TypeOK
    BY <1>1, <2>1, <2>2, <2>3 DEF TypeOK, ScreenInv
  <2>5. CASE at \in {"zero", "advance", "title"} \/ video[current].audioEndSent
    BY <2>4, <2>5 DEF CountExact
  <2>6. CASE at \notin {"zero", "advance", "title"} /\ ~video[current].audioEndSent
    <3>1. current \in Movie
      BY <1>1, <2>6 DEF ListInv
    <3>2. count = pcm[current] + Underway(video[current])
      BY <1>1, <2>6 DEF CountInv
    <3>3. count = Cardinality(Queued) + Cardinality(Reserving)
      BY <1>1, <3>1, <3>2, QueuedOfCurrent
    <3> QED
      BY <2>4, <3>3 DEF CountExact
  <2> QED
    BY <2>4, <2>5, <2>6
<1>2. VideoInv => QueueCountExact
  BY DEF VideoInv, MovieOK, FramesCounted, InFlight, QueueCountExact
<1>3. VideoInv /\ FilesInv /\ ListInv /\ ScreenInv /\ CountInv => CountsExact
  BY <1>1, <1>2 DEF CountsExact
<1> QED
  BY <1>3, CountsInductive, PTL
===============================================================================
