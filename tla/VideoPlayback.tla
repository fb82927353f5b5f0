--------------------------- MODULE VideoPlayback ---------------------------
(***************************************************************************)
(* Movies of a playlist: the decoder thread of each VideoPlayback, the     *)
(* queue of samples the decoders share with the audio device, and the part *)
(* of the frame loop that starts, shows, skips and succeeds them.          *)
(*                                                                         *)
(* Time is counted in periods of the audio device.  A movie has a frame    *)
(* and a packet of audio for each period, so a queue's milliseconds are    *)
(* its length, and frame n is due n periods after the start.  What the     *)
(* Theora library has decoded by now is a free choice (TakeNothing); a     *)
(* limit that ramps up with time is taken at its ends, that of a movie not *)
(* yet shown at its last.  Timers run out at any time.  Pixels, rates and  *)
(* resampling are left out.                                                *)
(***************************************************************************)
EXTENDS Integers, Sequences, FiniteSets, FiniteSetsExt

CONSTANTS
  Last,          \* number of playlist entries
  Contents,      \* what the files may hold
  MinFrames,     \* VIDEO_START_MIN_FRAMES
  PrebufferMin,  \* VIDEO_AUDIO_PREBUFFER_MS
  PrebufferMax,  \* VIDEO_AUDIO_PREBUFFER_MAX_MS
  PreloadMax,    \* VIDEO_MAX_QUEUED_MS_PREDECODE
  WarmMax,       \* VIDEO_PLAYBACK_WARM_MS
  PlayMax,       \* VIDEO_MAX_QUEUED_MS_PLAYBACK
  WarmUp,        \* VIDEO_PLAYBACK_WARM_UP_MS
  PredecodeMax,  \* VIDEO_PREDECODE_MAX_MS
  PreloadAfter,  \* VIDEO_PREDECODE_MIN_ELAPSED_MS
  PreloadFrames, \* VIDEO_PREDECODE_MIN_FRAMES
  PreloadAudio,  \* VIDEO_PREDECODE_MIN_AUDIO_MS
  VideoBudget,   \* VIDEO_DECODE_VIDEO_BUDGET_FRAMES
  MaxAhead,      \* AUDIO_MAX_AHEAD_MS
  EndGap,        \* silence after which a movie's audio has ended
  Late,          \* LATE_FRAME_MS
  PcmMax,        \* pcm_max_samples
  USIZE_MOD,     \* modulus of the counters
  Horizon,       \* bound: the clock stands still when it has got so far
  MaxUpsets      \* bound: failing decoders and presses of the space bar

Movie == 1..Last
None == 0

ASSUME VideoAssumption ==
  /\ Last \in Nat \ {0}
  /\ {PrebufferMax, Late, EndGap, PcmMax, VideoBudget, MaxUpsets, Horizon, USIZE_MOD} \subseteq Nat
  /\ Horizon < USIZE_MOD /\ 0 < VideoBudget
  /\ \A c \in Contents : c \in [Movie -> [video : Nat, audio : Nat, hold : BOOLEAN]]
  /\ 0 < PrebufferMin /\ PrebufferMin <= PrebufferMax /\ PrebufferMax <= MaxAhead
  /\ 0 < MinFrames /\ MinFrames <= WarmMax /\ WarmMax <= PlayMax
  /\ 0 < PreloadAudio /\ 0 < PcmMax /\ PcmMax + 1 < USIZE_MOD
  /\ \A c \in Contents : \A m \in Movie :
       c[m].video + Late < Horizon /\ c[m].audio + EndGap < Horizon

VARIABLES
  device,     \* there is an audio device; never changed
  content,    \* what the files hold; never changed
  remaining,  \* playlist_entries
  nextEntry,  \* next_video_entry
  preloadDue, \* next_video_start_at is set
  current,    \* video: the movie it plays
  next,       \* next_video: the movie that is decoded ahead
  at,         \* where the main thread is in a frame
  delay,      \* video_start_delay_until is set
  hold,       \* video_hold_until: none, running or over
  started,    \* the current movie has started
  elapsed,    \* its elapsed_ms
  video,      \* each movie's VideoPlayback and decoder thread
  pcm,        \* samples of each movie in the PCM channel and stream
  count,      \* pcm_queued
  played,     \* history: the movies that have been current
  upsets      \* decoders that failed and presses of the space bar

frozen == <<device, content>>
list == <<remaining, nextEntry, preloadDue, current, next, played>>
screen == <<at, delay, hold, started, elapsed>>
sound == <<pcm, count>>
vars == <<frozen, list, screen, video, sound, upsets>>

NoEvents == [frames |-> 0, audioEnded |-> FALSE, end |-> FALSE, error |-> FALSE]
\* A movie without a VideoPlayback, not yet or no longer.
Absent == [pc |-> "none", videoLeft |-> 0, audioLeft |-> 0, held |-> 0, burst |-> 0,
           seen |-> -1, audioEndSent |-> FALSE, endSent |-> FALSE, stop |-> FALSE,
           channel |-> NoEvents, queuedFrames |-> 0, prebuffered |-> 0,
           frames |-> 0, shown |-> 0, finished |-> FALSE, audioFinished |-> FALSE]
\* VideoPlayback::start.
Fresh(m) == [Absent EXCEPT !.pc = "top", !.videoLeft = content[m].video,
                           !.audioLeft = content[m].audio]

Init ==
  /\ device \in BOOLEAN
  /\ content \in Contents
  /\ current = 1
  /\ nextEntry = IF Last > 1 THEN 2 ELSE None
  /\ remaining = [i \in 1..(Last - 2) |-> i + 2]
  /\ preloadDue = (Last > 1)
  /\ next = None
  /\ played = {1}
  /\ at = "events" /\ delay = TRUE /\ hold = "none"
  /\ started = FALSE /\ elapsed = 0
  /\ video = [m \in Movie |-> IF m = 1 THEN Fresh(m) ELSE Absent]
  /\ pcm = [m \in Movie |-> 0] /\ count = 0
  /\ upsets = 0

Becomes(m, v) == video' = [video EXCEPT ![m] = v]

-----------------------------------------------------------------------------
(* The decoder thread.  pc is top (of the loop), count (a frame is sent,    *)
(* not yet counted), send (another one follows), audio (the second half of  *)
(* a round), reserved (between counting and sending samples), exited.       *)

\* start_clock_shared: set by start_with_clock, so never without a device.
AudioStarted(m) == device /\ m = current /\ started
Clock(m) == IF AudioStarted(m) THEN elapsed ELSE -1

MaxQueued(m) ==
  IF m = next THEN PreloadMax
  ELSE IF started /\ elapsed >= WarmUp THEN PlayMax ELSE WarmMax
QueueFull(m) == video[m].frames >= MaxQueued(m)
PrebufferFull(m) == device /\ video[m].prebuffered >= PrebufferMax

\* Before the start the decoder sleeps once it is far enough ahead.
Sleeps(m) ==
  LET v == video[m]
      taken == content[m].video - v.videoLeft
  IN /\ ~AudioStarted(m)
     /\ \/ /\ taken - 1 >= PredecodeMax \/ v.prebuffered >= PredecodeMax
           /\ device => v.prebuffered >= PrebufferMin
           /\ v.queuedFrames >= MinFrames
        \/ QueueFull(m) /\ PrebufferFull(m)

Decodes(m) == video[m].pc = "top" /\ ~video[m].stop /\ ~Sleeps(m)

TakeAudio(m) ==
  LET v == video[m]
  IN /\ Decodes(m) /\ v.audioLeft > 0
     /\ ~AudioStarted(m) => ~PrebufferFull(m)
     /\ Becomes(m, [v EXCEPT !.audioLeft = @ - 1,
                             !.held = IF device THEN @ + 1 ELSE @,
                             !.pc = "audio", !.seen = Clock(m)])
     /\ UNCHANGED <<frozen, list, screen, sound, upsets>>

SendFrame(v) == [v EXCEPT !.videoLeft = @ - 1, !.channel.frames = @ + 1,
                          !.burst = @ + 1, !.pc = "count"]

\* A round in which no packet of audio is available, or none is wanted yet,
\* takes frames.
TakeVideo(m) ==
  /\ Decodes(m) /\ video[m].videoLeft > 0 /\ ~QueueFull(m)
  /\ Becomes(m, SendFrame(video[m]))
  /\ UNCHANGED <<frozen, list, screen, sound, upsets>>

Counted(v) == (v.queuedFrames + 1) % USIZE_MOD

CountFrame(m) ==
  LET v == video[m]
      counted == [v EXCEPT !.queuedFrames = Counted(v)]
  IN /\ v.pc = "count"
     /\ \/ /\ v.burst < VideoBudget /\ v.videoLeft > 0
           /\ Becomes(m, [counted EXCEPT !.pc = "send"])
        \/ Becomes(m, [counted EXCEPT !.pc = "audio", !.burst = 0, !.seen = Clock(m)])
     /\ UNCHANGED <<frozen, list, screen, sound, upsets>>

SendAnother(m) ==
  /\ video[m].pc = "send"
  /\ Becomes(m, SendFrame(video[m]))
  /\ UNCHANGED <<frozen, list, screen, sound, upsets>>

TakeNothing(m) ==
  /\ Decodes(m)
  /\ Becomes(m, [video[m] EXCEPT !.pc = "audio", !.seen = Clock(m)])
  /\ UNCHANGED <<frozen, list, screen, sound, upsets>>

\* The file does not open, or a packet or frame does not decode.
Fail(m) ==
  /\ Decodes(m) /\ ~video[m].endSent /\ upsets < MaxUpsets
  /\ Becomes(m, [video[m] EXCEPT !.channel.error = TRUE, !.pc = "exited"])
  /\ upsets' = upsets + 1
  /\ UNCHANGED <<frozen, list, screen, sound>>

\* Mutant: a decoder that is far enough ahead does not look.
StopsAwake(m) == video[m].stop /\ ~Sleeps(m)

Stops(m) == video[m].stop

Obey(m) ==
  /\ video[m].pc = "top" /\ Stops(m)
  /\ Becomes(m, [video[m] EXCEPT !.pc = "exited"])
  /\ UNCHANGED <<frozen, list, screen, sound, upsets>>

\* Samples are pushed once the movie has started, no further ahead of the
\* clock than MaxAhead, and while the counter shows room.
CanPush(m) ==
  LET v == video[m]
      packet == content[m].audio - v.audioLeft - v.held
  IN v.seen >= 0 /\ v.held > 0 /\ packet <= v.seen + MaxAhead /\ count < PcmMax

\* PcmWriter::try_push counts the samples before it sends them.
Reserve(m) ==
  /\ video[m].pc = "audio" /\ CanPush(m)
  /\ count' = count + 1
  /\ Becomes(m, [video[m] EXCEPT !.pc = "reserved"])
  /\ UNCHANGED <<frozen, list, screen, pcm, upsets>>

Push(m) ==
  /\ video[m].pc = "reserved"
  /\ pcm' = [pcm EXCEPT ![m] = @ + 1]
  /\ Becomes(m, [video[m] EXCEPT !.pc = "audio", !.held = @ - 1])
  /\ UNCHANGED <<frozen, list, screen, count, upsets>>

Announced(events, silent, ends) ==
  [events EXCEPT !.audioEnded = @ \/ silent, !.end = @ \/ ends]

AudioIsOver(v, last) == v.held = 0 /\ v.seen > last + EndGap

\* The end of a round: what is held back is published (nobody reads it once
\* the movie has started), the end of audio and of the file are announced.
FinishRound(m) ==
  LET v == video[m]
      last == content[m].audio - v.audioLeft
      silent == v.seen >= 0 /\ last > 0 /\ ~v.audioEndSent /\ AudioIsOver(v, last)
      ends == ~v.endSent /\ v.videoLeft = 0 /\ v.audioLeft = 0
      leaves == (v.endSent \/ ends) /\ v.held = 0 /\ (v.audioEndSent \/ silent)
  IN /\ v.pc = "audio" /\ ~CanPush(m)
     /\ Becomes(m, [v EXCEPT
          !.prebuffered = IF v.seen < 0 THEN Min({v.held, PrebufferMax}) ELSE @,
          !.audioEndSent = @ \/ silent, !.endSent = @ \/ ends,
          !.channel = Announced(@, silent, ends),
          !.pc = IF leaves THEN "exited" ELSE "top", !.seen = -1])
     /\ UNCHANGED <<frozen, list, screen, sound, upsets>>

DecoderStep(m) ==
  \/ TakeAudio(m) \/ TakeVideo(m) \/ CountFrame(m) \/ SendAnother(m) \/ TakeNothing(m)
  \/ Fail(m) \/ Obey(m) \/ Reserve(m) \/ Push(m) \/ FinishRound(m)

-----------------------------------------------------------------------------
(* The audio device: one period is mixed and the clock goes on.  Without a  *)
(* device the clock is the wall clock.                                      *)

Uncounted(n) == IF n = 0 THEN USIZE_MOD - 1 ELSE n - 1

\* mix_callback, under the lock of the audio state.
Mix ==
  /\ \/ \E m \in Movie :
          /\ pcm[m] > 0
          /\ pcm' = [pcm EXCEPT ![m] = @ - 1]
          /\ count' = Uncounted(count)
     \/ (\A m \in Movie : pcm[m] = 0) /\ UNCHANGED sound
  /\ elapsed' = IF started /\ elapsed < Horizon THEN elapsed + 1 ELSE elapsed
  /\ UNCHANGED <<frozen, list, at, delay, hold, started, video, upsets>>

-----------------------------------------------------------------------------
(* The frame loop.  at is events (between frames), current (the current     *)
(* movie's turn), zero and play after it, leave (stop waits for the decoder *)
(* to end), advance (the rest of advance_playlist), title.                  *)

\* clear_pcm empties the channel and the stream under the lock ...
EmptyPcm == pcm' = [m \in Movie |-> 0]
\* Mutant: the counter is left as it is.
StaleCount == count

\* ... and stores zero after it.
ClearedCount == 0

StoreZero ==
  /\ at = "zero"
  /\ at' = "play" /\ count' = ClearedCount
  /\ UNCHANGED <<frozen, list, delay, hold, started, elapsed, video, pcm, upsets>>

\* VideoPlayback::drain_events.
Drained(v) ==
  [v EXCEPT !.frames = @ + v.channel.frames,
            !.audioFinished = @ \/ v.channel.audioEnded,
            !.finished = @ \/ v.channel.end, !.channel = NoEvents]
\* VideoPlayback::stop, once the thread has ended.
Stopped(v) == [v EXCEPT !.stop = TRUE, !.channel = NoEvents, !.frames = 0,
                        !.queuedFrames = 0, !.prebuffered = 0, !.finished = TRUE]

\* What is left of a movie when its VideoPlayback is dropped: a thread that
\* has not ended goes on.
Dropped(v) == IF v.pc = "exited" THEN Absent ELSE v

PreloadReady ==
  /\ started /\ elapsed >= PreloadAfter
  /\ video[current].frames >= PreloadFrames
  /\ count >= PreloadAudio

StartPreload ==
  /\ at = "events" /\ next = None /\ preloadDue /\ PreloadReady
  /\ next' = nextEntry /\ preloadDue' = FALSE
  /\ Becomes(nextEntry, Fresh(nextEntry))
  /\ UNCHANGED <<frozen, remaining, nextEntry, current, played, screen, sound, upsets>>

\* The start is not due yet, or there is nothing to start.
NoPreload ==
  /\ at = "events" /\ next = None
  /\ at' = "current"
  /\ UNCHANGED <<frozen, list, delay, hold, started, elapsed, video, sound, upsets>>

\* A preload that fails is dropped, its entry is not.
DrainPreload ==
  /\ at = "events" /\ next # None
  /\ LET v == video[next]
     IN IF v.channel.error
        THEN /\ next' = None
             /\ Becomes(next, Dropped(v))
        ELSE /\ Becomes(next, Drained(v))
             /\ UNCHANGED next
  /\ at' = "current"
  /\ UNCHANGED <<frozen, remaining, nextEntry, preloadDue, current, played, delay, hold,
                 started, elapsed, sound, upsets>>

DrainCurrent ==
  LET v == Drained(video[current])
      failed == video[current].channel.error
      clears == device /\ (failed \/ v.audioFinished)
      \* Without a device the first frame starts the clock.
      starts == ~device /\ ~started /\ video[current].channel.frames > 0
  IN /\ at = "current"
     /\ Becomes(current, [IF failed THEN Stopped(v) ELSE v EXCEPT
                            !.audioFinished = ~device /\ @])
     /\ IF clears THEN EmptyPcm /\ at' = "zero" ELSE at' = "play" /\ UNCHANGED pcm
     /\ started' = (started \/ starts)
     /\ UNCHANGED <<frozen, list, delay, hold, elapsed, count, upsets>>

\* Mutant: more than the prebuffer is asked for.
StartsLater(v) ==
  /\ ~started /\ device
  /\ v.frames >= MinFrames /\ v.prebuffered > PrebufferMin

CanStart(v) ==
  /\ ~started /\ device
  /\ v.frames >= MinFrames /\ v.prebuffered >= PrebufferMin

\* VideoPlayback::next_frame drops what is late and takes what is due.
Taken(v, now) ==
  LET late == Min({v.frames, Max({0, now - Late - v.shown})})
  IN IF late < v.frames /\ v.shown + late <= now THEN late + 1 ELSE late

CountAfter(v, taken) == (v.queuedFrames - taken) % USIZE_MOD

Play ==
  LET v == video[current]
      starts == ~delay /\ CanStart(v)
      now == IF starts THEN 0 ELSE elapsed
      taken == IF ~delay /\ (started \/ starts) THEN Taken(v, now) ELSE 0
      over == v.finished /\ taken = v.frames
      leaves == over /\ (hold = "over" \/ ~content[current].hold)
  IN /\ at = "play"
     /\ Becomes(current, [v EXCEPT !.frames = @ - taken, !.shown = @ + taken,
                                   !.queuedFrames = CountAfter(v, taken),
                                   !.stop = @ \/ leaves])
     /\ started' = (started \/ starts)
     /\ elapsed' = now
     /\ hold' = IF over /\ hold = "none" THEN "running" ELSE hold
     /\ at' = IF leaves THEN "leave" ELSE "events"
     /\ UNCHANGED <<frozen, list, delay, sound, upsets>>

DelayOver ==
  /\ delay /\ delay' = FALSE
  /\ UNCHANGED <<frozen, list, at, hold, started, elapsed, video, sound, upsets>>

HoldOver ==
  /\ hold = "running" /\ hold' = "over"
  /\ UNCHANGED <<frozen, list, at, delay, started, elapsed, video, sound, upsets>>

\* The space bar.
Skip ==
  /\ at = "events" /\ upsets < MaxUpsets
  /\ upsets' = upsets + 1
  /\ Becomes(current, [video[current] EXCEPT !.stop = TRUE])
  /\ at' = "leave"
  /\ UNCHANGED <<frozen, list, delay, hold, started, elapsed, sound>>

\* Mutant: stop does not wait for the thread.
NeedNotEnd(m) == TRUE

HasEnded(m) == video[m].pc = "exited"

\* advance_playlist as far as the lock of the audio state.
Leave ==
  /\ at = "leave" /\ HasEnded(current)
  /\ at' = "advance"
  /\ IF device THEN EmptyPcm ELSE UNCHANGED pcm
  /\ UNCHANGED <<frozen, list, delay, hold, started, elapsed, video, count, upsets>>

FirstOf(s) == IF s = <<>> THEN None ELSE Head(s)
RestOf(s) == IF s = <<>> THEN s ELSE Tail(s)

\* A movie decoded ahead is promoted; otherwise the first of the remaining
\* entries is opened, whatever nextEntry is.
Successor == IF next # None THEN next ELSE FirstOf(remaining)

Advance ==
  LET rest == IF next # None THEN remaining ELSE RestOf(remaining)
  IN /\ at = "advance"
     /\ count' = IF device THEN ClearedCount ELSE count
     /\ current' = Successor
     /\ nextEntry' = FirstOf(rest)
     /\ remaining' = RestOf(rest)
     /\ preloadDue' = (rest # <<>>)
     /\ next' = None
     /\ video' = [m \in Movie |->
                    IF m = current THEN Dropped(video[m])
                    ELSE IF m = Successor /\ next = None THEN Fresh(m) ELSE video[m]]
     /\ played' = IF Successor = None THEN played ELSE played \cup {Successor}
     /\ delay' = (Successor # None) /\ hold' = "none"
     /\ started' = FALSE /\ elapsed' = 0
     /\ at' = IF Successor = None THEN "title" ELSE "events"
     /\ UNCHANGED <<frozen, pcm, upsets>>

FrameStep ==
  \/ StartPreload \/ NoPreload \/ DrainPreload \/ DrainCurrent \/ StoreZero \/ Play
  \/ Leave \/ Advance
Next ==
  \/ \E m \in Movie : DecoderStep(m)
  \/ Mix \/ FrameStep \/ DelayOver \/ HoldOver \/ Skip
Spec == Init /\ [][Next]_vars

\* Threads are scheduled, the library gets on with the file, the device asks
\* for samples, frames go on and timers run out.
FairSpec ==
  /\ Spec
  /\ \A m \in Movie : WF_vars(DecoderStep(m)) /\ SF_vars(TakeAudio(m)) /\ SF_vars(TakeVideo(m))
  /\ WF_vars(Mix) /\ WF_vars(FrameStep) /\ WF_vars(DelayOver) /\ WF_vars(HoldOver)

-----------------------------------------------------------------------------
\* The samples of the PCM channel and stream, those that are counted first
\* and not sent yet left out.
Queued == UNION {{m} \X (1..pcm[m]) : m \in Movie}
Reserving == {m \in Movie : video[m].pc = "reserved"}

VideoState ==
  [pc : {"none", "top", "count", "send", "audio", "reserved", "exited"},
   videoLeft : 0..Horizon, audioLeft : 0..Horizon, held : 0..Horizon,
   burst : 0..VideoBudget, seen : -1..Horizon, audioEndSent : BOOLEAN,
   endSent : BOOLEAN, stop : BOOLEAN,
   channel : [frames : 0..Horizon, audioEnded : BOOLEAN, end : BOOLEAN, error : BOOLEAN],
   queuedFrames : 0..(USIZE_MOD - 1), prebuffered : 0..PrebufferMax,
   frames : 0..Horizon, shown : 0..Horizon, finished : BOOLEAN, audioFinished : BOOLEAN]

TypeOK ==
  /\ device \in BOOLEAN /\ content \in Contents
  /\ remaining \in Seq(Movie)
  /\ {nextEntry, current, next} \subseteq Movie \cup {None}
  /\ preloadDue \in BOOLEAN /\ delay \in BOOLEAN /\ started \in BOOLEAN
  /\ at \in {"events", "current", "zero", "play", "leave", "advance", "title"}
  /\ hold \in {"none", "running", "over"}
  /\ elapsed \in 0..Horizon
  /\ video \in [Movie -> VideoState]
  /\ pcm \in [Movie -> Nat] /\ count \in 0..(USIZE_MOD - 1)
  /\ played \subseteq Movie
  /\ upsets \in 0..MaxUpsets

\* A thread that runs decodes the current movie or the next, and no movie is
\* heard after it was left or before it is current: the decoder has ended when
\* the queue is emptied, and a movie decoded ahead keeps its samples to itself.
SoundOfCurrent ==
  \A m \in Movie :
    /\ video[m].pc \notin {"none", "exited"} => m \in {current, next}
    /\ pcm[m] > 0 => m = current

\* pcm_queued is what is queued and what is about to be, as long as the
\* current movie's audio has not been given up: only that clears the queue
\* while a decoder may write to it.  Leaving the movie makes it right again.
CountExact ==
  \/ at \in {"zero", "advance", "title"} \/ video[current].audioEndSent
  \/ count = Cardinality(Queued) + Cardinality(Reserving)

\* Whenever a decoder compares queued_frames it is the number of frames it
\* has sent and the player has not taken, though one side counts after it
\* has sent and the other after it has taken.
QueueCountExact ==
  \A m \in Movie :
    video[m].pc = "top" =>
      video[m].queuedFrames = video[m].channel.frames + video[m].frames

\* Both counters that a decoder shares with the main thread and the audio
\* callback, without a lock, are right where somebody compares them.
CountsExact == TypeOK /\ CountExact /\ QueueCountExact

\* Leaving a movie never waits for ever, wherever its decoder is: asleep
\* before the start, or in the midst of pushing samples there is no room for.
StopReturns == at = "leave" ~> at # "leave"

\* Each entry of the playlist gets its turn, if nobody skips and all decode.
EveryEntryPlays ==
  at = "title" /\ upsets = 0 => played = Movie

Startable(m) ==
  device => content[m].video >= MinFrames /\ content[m].audio >= PrebufferMin
\* With a device a movie starts only with enough frames and audio; if all
\* files have them the playlist comes to its end, whatever decoders fail.
PlaylistEnds == (\A m \in Movie : Startable(m)) => <>(at = "title")
=============================================================================
