---------------------------- MODULE CommandLoop -----------------------------
(***************************************************************************)
(* The command side of the frame loop: lines typed in the console, the     *)
(* smoke runner that works through a script a line a frame, the settings   *)
(* that are saved and applied, the lines Lua enqueues, the test map to     *)
(* reload, input traces and captures.                                      *)
(*                                                                         *)
(* A frame goes through its parts in the order of `at`; nothing but the    *)
(* next part happens in between, and a typed line comes between frames.    *)
(* The clock counts steps of the step timeout's unit; a frame takes some.  *)
(* Disk and device fail as they like, MaxFaults times at most.             *)
(***************************************************************************)
EXTENDS ControlPlane

CONSTANTS
  SmokeScripts,  \* scripts --smoke-script may name; <<>> is a run without
  Typed,         \* lines the console user may type
  TickLines,     \* lines on_tick may enqueue
  FirstFiles,    \* what the user's profiles may hold at the start
  FirstTraces,   \* what the disk may hold of traces at the start
  StepTimeout,   \* SMOKE_DEFAULT_STEP_TIMEOUT_MS
  GlobalTimeout, \* --gtimeout-ms
  Frame,         \* how long a frame may take
  MaxTyped,      \* bound: typed lines, edits of the menu and lines of on_tick
  MaxFaults      \* bound: faults of disk, surface, device and assets

ASSUME LoopAssumption ==
  /\ MaxDepth \in Nat \ {0} /\ StepTimeout \in Nat \ {0} /\ GlobalTimeout \in Nat \ {0}
  /\ Frame \subseteq Nat \ {0} /\ Frame /= {}
  /\ \A p \in Profiles : p \in DOMAIN Shipped
  /\ {"dbg_overlay", "dbg_perf_hud", "asset_decode_budget_ms", "dev_motor"} \subseteq Cvar
  /\ \A c \in Cvar : Registered(CvarDefs[c])

VARIABLES
  host,      \* what a command can reach, see ControlPlane
  at,        \* the part of the frame that is next
  now,       \* the smoke runner's clock, held at GlobalTimeout
  applied,   \* what the watchers have been told of the cvars
  stored,    \* settings.cfg
  saveFails, \* history: the last save of the settings failed
  smoke,     \* the smoke runner
  verdict,   \* how the process ended
  completed, \* capture_completed
  failures,  \* capture_failures
  written,   \* history: captures whose file was written
  maps,      \* history: maps reloaded, and maps asked for
  typed,     \* lines typed, edits made and lines enqueued by on_tick
  faults     \* faults so far

disk == <<stored, saveFails>>
captured == <<completed, failures, written>>
vars == <<host, at, now, applied, disk, smoke, verdict, captured, maps, typed, faults>>

NoRunner == [lines |-> <<>>, index |-> 1, state |-> "none", until |-> 0, deadline |-> 0,
             target |-> 0, seen |-> 0, step |-> StepTimeout, mine |-> 0]
Runner(lines) == [NoRunner EXCEPT !.lines = lines, !.state = "ready"]

FirstCvars == [c \in Cvar |-> CvarDefs[c].default]

Init ==
  /\ \E files \in FirstFiles, traces \in FirstTraces :
       host = [cvars |-> FirstCvars, dirty |-> {},
               settings |-> DefaultSettings("config"),
               flags |-> [settings |-> FALSE, display |-> FALSE],
               files |-> files, saved |-> [p \in Profiles |-> <<>>],
               captures |-> <<>>, tickets |-> 1, reloads |-> <<>>,
               recording |-> NoTrace, playing |-> NoTrace, traces |-> traces,
               lua |-> <<>>, diskFull |-> FALSE, assetsLate |-> FALSE,
               overflow |-> FALSE]
  /\ at = "idle" /\ now = 0
  /\ applied = Watched(FirstCvars)
  /\ stored = DefaultSettings("config") /\ saveFails = FALSE
  /\ \E s \in SmokeScripts : smoke = IF s = <<>> THEN NoRunner ELSE Runner(s)
  /\ verdict = "none"
  /\ completed = 0 /\ failures = 0 /\ written = {}
  /\ maps = [asked |-> <<>>, loaded |-> <<>>]
  /\ typed = 0 /\ faults = 0

Running == verdict = "none"

-----------------------------------------------------------------------------
(* Dispatching a line.                                                      *)

\* The fault, if any, that commands meet while one line is dispatched.
Faulty == {"none", "diskFull", "assetsLate"}
WithFault(h, f) == [h EXCEPT !.diskFull = (f = "diskFull"), !.assetsLate = (f = "assetsLate")]
MayFail(f) ==
  /\ f /= "none" => faults < MaxFaults
  /\ faults' = IF f = "none" THEN faults ELSE faults + 1

\* What the watchers were told is all that is left of the dirty set.
Settled(h) == [WithFault(h, "none") EXCEPT !.dirty = {}]
Asked(h) == [maps EXCEPT !.asked = @ \o SubSeq(h.reloads, Len(host.reloads) + 1, Len(h.reloads))]

DispatchConsoleLine(line, h, f) ==
  LET r == Dispatch(line, WithFault(h, f), MaxDepth)
  IN /\ host' = Settled(r.host)
     /\ applied' = ApplyChanges(applied, r.host)
     /\ maps' = Asked(r.host)

\* The smoke runner's commands get a reload queue and traces of their own.
SmokeHost == [host EXCEPT !.reloads = <<>>, !.recording = NoTrace, !.playing = NoTrace]
AsLeft(h) == h
BackFromSmoke(h) ==
  [h EXCEPT !.reloads = host.reloads, !.recording = host.recording, !.playing = host.playing]
DispatchSmoke(line, f) == Dispatch(line, WithFault(SmokeHost, f), MaxDepth)

-----------------------------------------------------------------------------
(* Between frames.                                                          *)

Type(line) ==
  /\ Running /\ at = "idle" /\ typed < MaxTyped
  /\ typed' = typed + 1
  /\ \E f \in Faulty : MayFail(f) /\ DispatchConsoleLine(line, host, f)
  /\ UNCHANGED <<at, now, disk, smoke, verdict, captured>>

Wake ==
  /\ Running /\ at = "idle"
  /\ IF smoke.state = "none" THEN at' = "settings" /\ UNCHANGED now
     ELSE /\ at' = "smoke"
          /\ \E d \in Frame : now' = IF now + d > GlobalTimeout THEN GlobalTimeout ELSE now + d
  /\ UNCHANGED <<host, applied, disk, smoke, verdict, captured, maps, typed, faults>>

-----------------------------------------------------------------------------
(* The smoke runner: SmokeRunner::tick.                                     *)

SmokeKeeps == <<now, disk, captured, typed>>
Quiet == <<host, applied, maps, faults>>

Ends(v) == verdict' = v /\ at' = "idle" /\ UNCHANGED smoke
FailSmoke == Ends("failed")
Goes(s) == smoke' = s /\ at' = "settings" /\ UNCHANGED verdict

OutOfTime == now >= GlobalTimeout
Line == smoke.lines[smoke.index]
Next1(s) == [s EXCEPT !.index = @ + 1]

GlobalDeadline ==
  /\ OutOfTime
  /\ FailSmoke /\ UNCHANGED <<Quiet, SmokeKeeps>>

\* The end of the sleep is looked at before its deadline.
SleepTick ==
  /\ ~OutOfTime /\ smoke.state = "sleeping"
  /\ IF now >= smoke.until THEN Goes([smoke EXCEPT !.state = "ready"])
     ELSE IF now >= smoke.deadline THEN FailSmoke
     ELSE Goes(smoke)
  /\ UNCHANGED <<Quiet, SmokeKeeps>>

\* Any capture that failed since, then the count, then the deadline.
CaptureTick ==
  /\ ~OutOfTime /\ smoke.state = "capture"
  /\ IF failures > smoke.seen THEN FailSmoke
     ELSE IF completed >= smoke.target THEN Goes([smoke EXCEPT !.state = "ready"])
     ELSE IF now >= smoke.deadline THEN FailSmoke
     ELSE Goes(smoke)
  /\ UNCHANGED <<Quiet, SmokeKeeps>>

Ready == ~OutOfTime /\ smoke.state = "ready"

Succeed ==
  /\ Ready /\ smoke.index > Len(smoke.lines)
  /\ Ends("success") /\ UNCHANGED <<Quiet, SmokeKeeps>>

\* Lines the runner understands itself; a line it cannot parse fails it.
OwnLine ==
  /\ Ready /\ smoke.index <= Len(smoke.lines)
  /\ \/ Line.op = "blank" /\ Goes(Next1(smoke))
     \/ Line.op = "unterminated" /\ FailSmoke
     \/ Line.op = "ttimeout_ms" /\ Goes([Next1(smoke) EXCEPT !.step = Line.val])
     \/ /\ Line.op = "sleep_ms"
        /\ Goes([Next1(smoke) EXCEPT !.state = "sleeping", !.until = now + Line.val,
                                     !.deadline = now + smoke.step])
  /\ UNCHANGED <<Quiet, SmokeKeeps>>

AwaitNext(s) ==
  [s EXCEPT !.state = "capture", !.deadline = now + s.step, !.target = completed + 1,
            !.seen = failures, !.mine = host.tickets]
\* A capture is awaited by the count it will bring when those queued before
\* it are done.
AwaitCapture(s) ==
  [s EXCEPT !.state = "capture", !.deadline = now + s.step,
            !.target = completed + Len(host.captures) + 1,
            !.seen = failures, !.mine = host.tickets]

CommandLine ==
  /\ Ready /\ smoke.index <= Len(smoke.lines)
  /\ Line.op \notin {"blank", "unterminated", "ttimeout_ms", "sleep_ms"}
  /\ \E f \in Faulty :
       LET r == DispatchSmoke(Line, f)
       IN /\ MayFail(f)
          /\ host' = BackFromSmoke(Settled(r.host))
          /\ applied' = ApplyChanges(applied, r.host)
          /\ IF ~r.ok THEN FailSmoke
             ELSE Goes(IF Line.op = "capture" THEN AwaitCapture(Next1(smoke)) ELSE Next1(smoke))
  /\ UNCHANGED <<SmokeKeeps, maps>>

SmokeTick ==
  /\ Running /\ at = "smoke"
  /\ GlobalDeadline \/ SleepTick \/ CaptureTick \/ Succeed \/ OwnLine \/ CommandLine

-----------------------------------------------------------------------------
(* The menu, and the settings it or a command has changed.                  *)

\* Settings::save: settings.cfg first, then the active profile's file.
SaveOutcomes == {"both", "first", "none"}
SaveSettings(s, outcome, flags) ==
  /\ stored' = IF outcome = "none" THEN stored ELSE s
  /\ saveFails' = (outcome /= "both")
  /\ host' = [host EXCEPT
       !.settings = s, !.flags = flags,
       !.files[s.profile] = IF outcome = "both" THEN Merged(@, s) ELSE @]
  /\ outcome /= "both" => faults < MaxFaults
  /\ faults' = IF outcome = "both" THEN faults ELSE faults + 1

\* What the menu may make of the settings in a frame.
Edits == IF typed < MaxTyped
         THEN {[host.settings EXCEPT !.window_mode = m] : m \in {0, 1}}
              \cup {[host.settings EXCEPT !.profile = p] : p \in Profiles}
         ELSE {host.settings}

\* A flag is left as it is when the menu itself has changed something.
KeptDisplay(edited, display) ==
  [settings |-> edited /\ host.flags.settings, display |-> host.flags.display]
LeftFlags(edited, display) ==
  [settings |-> edited /\ host.flags.settings, display |-> display /\ host.flags.display]

MenuAndSettings ==
  /\ Running /\ at = "settings"
  /\ \E s \in Edits :
       LET edited == s /= host.settings
           display == s.window_mode /= host.settings.window_mode
           flags == LeftFlags(edited, display)
       IN /\ typed' = IF edited THEN typed + 1 ELSE typed
          /\ IF edited \/ host.flags.settings
             THEN \E outcome \in SaveOutcomes : SaveSettings(s, outcome, flags)
             ELSE host' = [host EXCEPT !.flags = flags] /\ UNCHANGED <<disk, faults>>
          \* A changed display skips the rest of the frame.
          /\ at' = IF display \/ host.flags.display THEN "idle" ELSE "lua"
  /\ UNCHANGED <<now, applied, smoke, verdict, captured, maps>>

-----------------------------------------------------------------------------
(* on_tick, and the lines Lua has enqueued.                                 *)

OnTick ==
  /\ Running /\ at = "lua"
  /\ \/ UNCHANGED <<host, typed>>
     \/ /\ typed < MaxTyped /\ typed' = typed + 1
        /\ \E line \in TickLines : host' = [host EXCEPT !.lua = Append(@, line)]
  /\ at' = "drain"
  /\ UNCHANGED <<now, applied, disk, smoke, verdict, captured, maps, faults>>

\* drain_lua_command_queue: until the queue is empty.
Drain ==
  /\ Running /\ at = "drain"
  /\ IF host.lua = <<>>
     THEN at' = "reload" /\ UNCHANGED <<host, applied, maps, faults>>
     ELSE /\ \E f \in Faulty :
               MayFail(f) /\ DispatchConsoleLine(Head(host.lua), [host EXCEPT !.lua = Tail(@)], f)
          /\ UNCHANGED at
  /\ UNCHANGED <<now, disk, smoke, verdict, captured, typed>>

-----------------------------------------------------------------------------
(* One map to reload, one frame of a trace, one capture.                    *)

Reload ==
  /\ Running /\ at = "reload" /\ at' = "trace"
  /\ IF host.reloads = <<>> THEN UNCHANGED <<host, maps>>
     ELSE /\ host' = [host EXCEPT !.reloads = Tail(@)]
          /\ maps' = [maps EXCEPT !.loaded = Append(@, Head(host.reloads))]
  /\ UNCHANGED <<now, applied, disk, smoke, verdict, captured, typed, faults>>

\* A playback gives a frame or is over.
Played(p) == IF p.frames = 0 THEN NoTrace ELSE [p EXCEPT !.frames = @ - 1]

\* Without one a recorder takes a frame, if there is a scene; that it has
\* taken some is all that is kept.
Trace ==
  /\ Running /\ at = "trace" /\ at' = "render"
  /\ \/ host' = [host EXCEPT !.playing = IF @ = NoTrace THEN @ ELSE Played(@)]
     \/ /\ host.playing = NoTrace /\ host.recording /= NoTrace
        /\ host' = [host EXCEPT !.recording.frames = 1]
  /\ UNCHANGED <<now, applied, disk, smoke, verdict, captured, maps, typed, faults>>

\* A lost or outdated surface is resized, and what is read back is kept: the
\* file holds an older picture and counts like any other.
CaptureOutcomes == {"drawn", "lost", "failed"}
Render ==
  /\ Running /\ at = "render" /\ at' = "idle"
  /\ IF host.captures = <<>> THEN UNCHANGED <<host, captured, faults>>
     ELSE \E outcome \in CaptureOutcomes :
            /\ outcome /= "drawn" => faults < MaxFaults
            /\ faults' = IF outcome = "drawn" THEN faults ELSE faults + 1
            /\ host' = [host EXCEPT !.captures = Tail(@)]
            /\ IF outcome = "failed"
               THEN failures' = failures + 1 /\ UNCHANGED <<completed, written>>
               ELSE /\ completed' = completed + 1
                    /\ written' = written \cup {Head(host.captures)}
                    /\ UNCHANGED failures
  /\ UNCHANGED <<now, applied, disk, smoke, verdict, maps, typed>>

Next ==
  \/ \E line \in Typed : Type(line)
  \/ Wake \/ SmokeTick \/ MenuAndSettings \/ OnTick \/ Drain \/ Reload \/ Trace \/ Render

Spec == Init /\ [][Next]_vars

\* The window asks for a frame whenever the loop waits, and a frame returns.
FrameStep == Wake \/ SmokeTick \/ MenuAndSettings \/ OnTick \/ Drain \/ Reload \/ Trace \/ Render
FairSpec == Spec /\ WF_vars(FrameStep)

-----------------------------------------------------------------------------
(* Properties.                                                              *)

TypeOK ==
  /\ at \in {"idle", "smoke", "settings", "lua", "drain", "reload", "trace", "render"}
  /\ now \in 0..GlobalTimeout
  /\ smoke.state \in {"none", "ready", "sleeping", "capture"}
  /\ smoke.index \in 1..(Len(smoke.lines) + 1)
  /\ verdict \in {"none", "success", "failed"}
  /\ \A c \in Cvar : ParsesAs(CvarDefs[c], host.cvars[c])
  /\ host.settings.profile \in Profiles /\ host.settings.ui_scale \in MinUi..MaxUi
  /\ Range(host.captures) \subseteq 1..(host.tickets - 1)
  /\ ~host.overflow
  /\ faults \in 0..MaxFaults /\ typed \in 0..MaxTyped

\* Whatever path set it (a command, an alias, a nested script, a profile's
\* staged copy of the registry), a watched cvar's effect is in place as soon
\* as the line is done, also when the line failed; and cvars keep the types
\* and bounds they are registered with.
AppliedMatches == TypeOK /\ applied = Watched(host.cvars)

\* When no change is pending and the last save went well, settings.cfg holds
\* the settings, and so does the active profile if it has lines for them.
SettingsSettle ==
  LET file == host.files[host.settings.profile]
  IN at = "idle" /\ ~host.flags.settings /\ ~saveFails =>
       /\ stored = host.settings
       /\ file /= NoFile /\ Fields \subseteq DOMAIN file.keys =>
            SettingsLines(host.settings) = Restrict(file.keys, Fields)

\* "A non-settings cvar can be changed, saved to a chosen cfg profile, and
\* reloaded on demand": saving settings into the profile afterwards, by the
\* menu, cfg_select or another cfg_load, keeps what cfg_save wrote of cvars.
CvarsTravel ==
  \A p \in Profiles :
    host.saved[p] /= <<>> =>
      /\ host.files[p] /= NoFile
      /\ \A c \in Persistable : /\ c \in DOMAIN host.files[p].keys
                              /\ host.files[p].keys[c] = host.saved[p][c]

\* One file holds both: settings and cvars are saved into a profile without
\* spoiling one another's lines.
ProfilesKept == SettingsSettle /\ CvarsTravel

\* A setting is in four places, the registry, what runs, settings.cfg and the
\* active profile, and they agree.
SettingsAgree == AppliedMatches /\ ProfilesKept

\* Maps are reloaded in the order they were asked for, none twice, none lost.
ReloadsInOrder == maps.asked = maps.loaded \o host.reloads

\* Recording and replaying exclude each other.
TraceExclusive == host.recording = NoTrace \/ host.playing = NoTrace

\* The smoke runner's commands, which work on a copy of what the console's
\* share, neither lose, repeat nor mix up the console's reloads and traces.
HostsApart == ReloadsInOrder /\ TraceExclusive

\* The runner goes on after capture_screenshot only when that capture's file
\* is written, however many others were queued before it or come after it.
OwnCaptureWritten ==
  [][smoke.state = "capture" /\ smoke'.state = "ready" => smoke.mine \in written]_vars

\* What commands have queued for the frame is done while the program runs.
Pending == host.lua /= <<>> \/ host.reloads /= <<>> \/ host.captures /= <<>>
QueuesDrain == Pending ~> (~Pending \/ ~Running)
=============================================================================
