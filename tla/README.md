# A verification development of Pallet

Pallet is a Rust game engine, a game on top of it, and the tools and launcher
around it. This directory holds TLA+ models of the parts whose correctness
depends on the order in which things happen (threads, callbacks, messages,
events, edits of files, processes that die) or on an algorithm with many cases
(lookups, caches, hierarchies, traces, parsers), TLC configurations that check
them on small instances, and proofs that TLAPS checks for instances of every
size. `PROJECT.json` lists, for each definition that stands for code, the
lines it stands for.

- [1. The system](#1-the-system): components, state, interactions, hazards
- [2. The modules](#2-the-modules): how each model corresponds to the code
- [3. The runs](#3-the-runs): what is checked, bounds, fairness
- [4. The proofs](#4-the-proofs)
- [5. What the code does not do](#5-what-the-code-does-not-do): disagreements met
- [6. Plan](#6-plan), and what stays outside

## 1. The system

### 1.1 Components

| Component | State | Operations | Talks to | Hard behaviour |
|---|---|---|---|---|
| Job system `engine_core/src/jobs.rs` | two bounded queues with condvar and shutdown flag; depth and active counters; completion channel; a cancel flag per job | `submit`, `cancel`, `pump_completions`, worker loop, drop | asset manager, console commands, main loop | one `notify_one` per push; counters outside the lock; three cancellation checks; panics; who holds the last reference |
| Asset manager `engine_core/src/asset_manager.rs` | cache of slots; three pending queues; decode budget | `request`, `reload`, `purge`, `cancel`, `begin_tick`, `pump`, `await_ready` | jobs (an Io job, then a Cpu job), VFS, console commands on worker threads | coalescing of loads, reload while a load is under way, full queues, panics, cancel in each stage, last good version |
| UDP transport `net/net_transport` | per peer: sequence numbers, received mask, sent packets, three channels | `connect_peer`, `send`, `flush`, `poll` | client and server | loss, duplication, reordering; acks; u16 wrap-around; full queues |
| In-process transport (same file) | two queues and a registry of addresses | the same | `LoopbackNet` | none is lost |
| Protocol `net/net_protocol` | none | `encode`, `decode` | client and server | limits, trailing bytes |
| Server `net/server` | tick, clients, entities, last input, last snapshot sent per client | `tick` | transport | join and leave inside a tick, a send or a flush failing half way, delta baselines |
| Client `net/client` | next input number, last snapshot | `connect`, `send_input`, `poll`, `disconnect` | transport | deltas that do not apply, lost control messages |
| Audio `audio` | sounds; PCM channel, stream and an atomic count of queued samples | `try_push`, `clear_pcm`, mix callback | decoder thread, device thread, main loop | reserve, send and clear interleave; the count can wrap |
| Video `pallet/src/video.rs` | decoder thread, event channel, shared counters, start clock | `start`, `drain_events`, `next_frame`, `stop`, `advance_playlist` | audio, main loop | prebuffer gates, end of audio, stop and join |
| Game shell `pallet/src/main.rs`, `ui` | console phase, menu, mouse look, window mode and overrides, boot state, held keys, input script | window events, the stages of a frame | video, settings, renderer | animation reversals, focus loss in any state, warm-up of a hidden window, who gets a key's release |
| Control plane `engine_core/src/control_plane.rs` and pallet's commands | cvars with a dirty set, commands, settings, profiles, traces, queues of captures, reloads and Lua lines | `register`, `set`, `dispatch`, `exec`, `cfg_*`, `record`, `replay` | console, scripts, smoke runner | nested exec, errors half way, two hosts that share state |
| Smoke runner `pallet/src/main.rs` | script position, three deadlines, capture target | `tick` | control plane, capture queue | deadlines racing completions |
| VFS, ids, resolver, path policy `engine_core` | mount table | `read`, `exists`, `list_dir`, `explain_mounts`, `resolve` | asset manager, tools | four walks over one table, files that change under it |
| Quake index, level manifests `engine_core` | index file behind a fingerprint | `build`, `load_or_build`, `which`, `discover`, `resolve` | content tools, console | a cache that must notice edits, duplicates, damaged archives |
| Content tools `tools` | build output and build manifest | `content validate, graph, build, clean`, `quake index, which` | all of the above | a process that dies between two writes; four readers of one tree |
| Map cooker `map_cook` and its tools | files | `test-map`, `collision-world cook`, `cook-bsp`, `validate` | collision world | generators, quadtree, equal centres |
| Collision world, test maps `collision_world`, `test_map` | chunks and their hierarchy | `validate`, `select_chunks`, the scene in `pallet` | asset manager, physics | two assets that are edited, cooked and reloaded apart |
| Quake level walking `pallet/src/main.rs` | scene, camera position | trace, slide, step, unstuck, frames | input | what a trace that stops short of a plane may cross |
| Motors, controller, camera `character_*`, `player_*` | jump buffer, controller state, the frame loop's copy of it | tick, motor switch, fly mode, fixed steps | physics, cvars | two copies of one state; requests that outlive a switch |
| Runner GUI `pallet_runner_gui` | 46 settings in a JSON file; five lanes with child, channel, log | load, save; command builders; start, poll, stop, close | every program of the repository | a save cut short, a text equal to a key, a child that ends before its output |
| ECS, Lua, physics adapter, formats, renderer, decoders, widgets | numerical, byte-level or external | | | outside the reach of these tools (6.3) |

### 1.2 How they interact

The main thread runs frames. A frame handles window events, runs console and
script commands, calls `begin_tick` and `pump` of the asset manager (which
pumps job completions, whose callbacks submit further jobs, and then starts
queued loads), ticks the network (`send_input`, `tick`, `poll`), advances the
video, moves the player and draws. Worker threads of the job system execute
closures; two of those closures are console commands that call the asset manager
back from the worker. The audio device calls the mixer from its own thread; a
video has a decoder thread that pushes samples to the mixer and frames to the
main thread. The dedicated server and the headless client are loops around
`tick` and `poll` in processes of their own, with UDP in between.

A command line comes from the console, from Lua, from a script `exec` runs or
from the smoke runner; all go through one registry and change one set of cvars,
settings, queues. What cvars and settings drive is told later in the frame, and
saved in `settings.cfg` and in the active profile.

Game, tools and launcher share files and nothing else: the content tree with
its development override, the Quake directory, test maps and cooked worlds,
the index and the manifest of a build, the launcher's settings. Each caches
what it has read (the mount table for a game's life, the index behind a
fingerprint, assets until a reload, the launcher's manifest until a tool of its
own ends), and a user edits the files meanwhile.

Shared state in memory is small: a mutex per job queue, the manager's mutex, a
mutex and condvar per asset slot, the mixer's mutex, and atomics for every
counter. `docs/ARCHITECTURE.md` states the network contract, the checklists in
`completed_checklists/` the contracts of jobs, assets, control plane and content.

### 1.3 What makes each part correct

- *Jobs*: no wakeup is lost; an accepted job is never lost or run twice; jobs
  leave a queue in order; a cancellation in time is obeyed; counters say what
  they are documented to say; the pool survives panics; accepted jobs settle.
- *Assets*: requests of one key share a load; what is cached after a reload is
  what was on disk when the reload was accepted, or newer; the last good
  version survives a failure; a cancelled load is not published; loads settle.
- *Transport*: the reliable channel is ordered, gapless and exactly once and
  retransmission gets everything across; acknowledgements never discard what
  has not arrived; the sequenced channel only gets newer; no datagram is seen
  twice.
- *Session*: what a client holds is a state the server built; newer supersedes
  older; the newest input counts; clients that left are forgotten; a tick
  advances the clock.
- *Audio and video*: the count of queued samples is what is queued; playback
  starts and ends; a stopped decoder is joined.
- *Shell*: whatever overrides of console and focus come and go, the window ends
  in the mode of the settings; the mouse and the keys are taken from the game
  when something covers it and given back afterwards; a hidden window is shown.
- *Control plane*: whichever path sets a cvar, what it drives follows; settings
  and profiles reach the disk without spoiling one another; the smoke runner
  waits for its own capture; nothing that is queued is lost or left.
- *Files*: four ways to look a path up tell of one file; an index that is
  accepted is the one a scan would build; a build's manifest is true of its
  output, and a second build does nothing; validation covers what a build needs.
- *Worlds*: a cooked world passes its validation and answers each query with
  the right chunks; what is drawn is solid; no trace enters solid; the two
  copies of the player agree; a jump is neither invented nor kept too long.
- *Launcher*: settings survive a save, also one cut short; a command says what
  its panel shows and the program understands it so; a log is what its program
  printed; nothing outlives the launcher.

The hazards behind these, each with the line where it bites and the properties
that would catch it, are the `hazards` of `PROJECT.json`.

## 2. The modules

| Module | What it is |
|---|---|
| `Jobs` | the job system |
| `Jobs_proofs` | theorems about `Jobs` |
| `NetTransport` | both ends of a UDP peer, and the network |
| `ReliableOrdered` | what a reliable ordered channel promises (abstract) |
| `NetDelivery` | `NetTransport` with a network that loses finitely often, and fairness |
| `NetTransport_proofs` | theorems about `NetTransport`: its acknowledgements, its three channels |
| `NetSession` | server and clients over what the transport leaves of a link |
| `NetSession_proofs` | theorems about `NetSession` |
| `AssetManager` | the asset manager and its console commands over the job queues |
| `AssetManager_proofs` | theorems about `AssetManager` |
| `VideoPlayback` | decoder threads, the queue of samples, and the playlist in the frame loop |
| `VideoPlayback_proofs` | theorems about `VideoPlayback` |
| `Shell` | window, boot, menu, console, mouse and keys of the game |
| `Shell_proofs` | theorems about `Shell` |
| `ControlPlane` | what one command line does: cvars, exec, settings, profiles, traces |
| `CommandLoop` | the frame around it: console, smoke runner, Lua, settings, captures |
| `QuakeFiles` | mounts and lookups, the resolver, the index of the Quake directory |
| `ContentBuild` | the content tree, its levels and the content tools |
| `ContentGraph` | `tools content graph`, which is recursive |
| `ContentBuild_proofs` | theorems about `QuakeFiles`, `ContentBuild` and `RunnerGui` |
| `MapCook` | expansion of test maps, triangles of BSPs, chunks and their hierarchy |
| `MapScene` | a test map from its file to the scene of the game |
| `HullTrace` | walking and flying through a Quake level |
| `PlayerMove` | the player of a test map: motors, controller, runtime, camera |
| `PlayerMove_proofs` | theorems about `PlayerMove` |
| `RunnerConfig` | the launcher's settings and their file |
| `RunnerCommands` | the command lines it builds, and who reads them |
| `RunnerGui` | its lanes, logs, manifest and statistics |
| `MC...` | values of constants for TLC |

`CommandLoop` extends `ControlPlane`, `ContentBuild` extends `QuakeFiles`,
`ContentGraph` extends `ContentBuild`,
`MapScene` and `HullTrace` extend `MapCook`, `RunnerCommands` extends
`RunnerConfig`, `NetDelivery` extends `NetTransport`. `MCContentBuild` and
`MCMapScene` put components that do not interact side by side: `family`,
chosen in `Init`, says which of them moves, so that one run answers for all.

Definitions called "Mutant" in a comment are broken variants of the definition
that follows. Nothing uses them: they are there to be put in its place, to see
that the property of a run can fail.

### 2.1 Jobs

A worker's `pc` is its place in `worker_loop`: at the lock (`pop`), asleep on
the condvar (`wait`), with a popped entry whose depth is not yet counted down
(`popped`), before the first check of the flag (`check`), before the runner's
check (`start`), in the closure (`execute`), after it (`report`), before the
active counter is counted down (`deactivate`), gone (`exited`). The main
thread's place is `adding` (between push and depth count in `enqueue`),
`pumping` and `calling` (inside a callback, which may submit and cancel).
One action is what one lock or one atomic publishes. `Submit` is the push with
its `notify_one`; `CountDepth` the counter after it; `Pop` one trip through
`JobQueueState::pop`; `CheckCancelled`, `Start` and `Report` the three checks;
`Execute` the closure, which may panic; `BeginPump`, `RunCallback`,
`EndCallback` and `EndPump` are `pump_completions`; `DropHandle` and
`DropInner` say who holds the `Arc` of `JobsInner`. `mode` is chosen in `Init`:
in inline mode no worker is spawned (all are `unborn`) and `SubmitInline` runs
the job.

### 2.2 NetTransport, ReliableOrdered, NetDelivery

An end's variables are the fields of `PeerState`; sequence numbers and ids are
integers modulo `2 * SEQ_WINDOW`, the u16 of the code. Queues whose entries are
consecutive ids are sets of ids. The bits of an ack are the set of distances
they stand for, with the shift that exceeds the width as a release build does
it. A packet lists the messages in it; `PacketCap` stands for the MTU. The
`network` is the set of all packets ever sent, so every packet may be lost,
delayed, overtaken or delivered again. `Flush` is `build_packet`, `track_sent`
and the send; `Receive` is one round of the loop in `poll`: acks, the window,
the three channels. `MayAddressPeer` is how `net/server` uses the transport: it
sends only to clients it has heard from. `traffic` is chosen in `Init`: the
channels an application uses, so that one run looks at the reliable channel and at
the other two in turn.

`ReliableOrdered` is the promise of channel 0. `OrderedExactlyOnce` maps it
onto `NetTransport`: what an end has sent are the ids below its `next_id`, what
it has got across is what its peer's application was handed.

`NetDelivery` lets the network drop packets for good, at most `MaxLost`, and
delivers the newest of the remaining ones in the end.

### 2.3 NetSession

The server's variables are those of `Server` and its `ClientState`s; the order
in which the `HashMap` iterates is `order`, chosen anew when a client is added.
Clients are their `phase`, `nextSeq` and `snap`. A link is a queue of packets:
what `NetTransport` leaves of a direction, since overtaken and repeated packets
are thrown away and control messages are repeated until acknowledged. A call of
`Server::tick` is several `ServerReceive`, one for each packet its poll finds,
and then one of `QuietTick` (no snapshots on this tick), `SnapshotTick` (a
message for each client, flush, `tick + 1`), `RefusedTick` (the transport refuses
the first send, an early return with the tick as it was) and `FlushFails` (all
snapshots recorded as sent, some packets on the wire, the tick as it was). The
server runs in one thread, so clients act between polled packets and calls but not
inside the second half of a call. `PollFails` is a poll that took a packet in and
then fails: the events it collected are dropped. The loop of the dedicated
server calls `tick` again after an error; a client exits (`Crash`). Stride
and MTU do not change in a session: `config` is chosen in `Init`.

### 2.4 AssetManager

A slot is the `AssetSlot` record. `pend` are the three pending queues, `waiting`
and `running` the job queues and what workers hold, `channel` the completions.
Of the job system the model takes what `Jobs` shows: bounded first-in first-out
queues, each job once, no completion after a cancellation in time, none after a
panic. `Read` and `Decode` are the two stages on workers, `ReadCallback` and
`DecodeCallback` their callbacks on the main thread. `BeginPump`, `Callback`,
`BeginDrain`, `Dispatch` and `NextPriority` are a frame; `at` is where the main
thread is, and `Locked` keeps commands out while `drain_pending` holds the lock.
`Request`, `ReloadNow` and `Cancel` are calls of the main thread. `tooLate`
remembers, for `CancelStopsLoad`, the slots cancelled after their decode had
completed. A slot that is cancelled and reloaded may have two loads on their way;
it holds the handle of the newer, so that a second cancellation stops that one,
and the property excepts the other. `Command`
submits a console command as an Io job; `Purge`, `BeginReload` and `EndReload`
run on the worker. `Edit` changes, breaks, removes or restores a file.

A file is its version and whether it decodes; decode time is 0 or `Cost`.
`await_ready` is `BeginPump(FALSE)`, a pump without a new budget.

### 2.5 VideoPlayback

Each movie has a record: the locals of its decoder thread (`videoLeft`,
`audioLeft`, `held` for the audio that is decoded and not pushed, `seen` for the
clock of this round, -1 before the start), the event `channel`, what it shares
with the player (`stop`, `queuedFrames`, `prebuffered`) and the player's side
(`frames`, `shown`, `finished`, `audioFinished`). `pcm` and `count` are the queue
of samples and `pcm_queued`. Time is counted in periods of the audio device, and a
frame or a packet of audio lasts one period.

The decoder's `pc` is its place in the loop: `top`, `count` (a frame is sent, not
yet counted), `send` (another follows), `audio` (the half of a round that pushes),
`reserved` (inside `try_push`, between the counter and the channel), `exited`.
The main thread's `at` follows a frame: `events` (the space bar, then `StartPreload`
or `DrainPreload`), `current` (`DrainCurrent`), `zero` (inside `clear_pcm`, between
the lock and the store), `play` (`Play`: start, `next_frame`, end of the movie),
`leave` (inside `stop`, which joins the thread), `advance` (the rest of
`advance_playlist`), `title`. `Mix` is a call of the device; without a device the
clock is the wall clock, and audio is thrown away.

### 2.6 Shell

One variable for each piece of state `App` keeps apart: `console` (its phase,
and whether it will give the mouse back), `menu`, `look` with `wasLook` and
`focusResume` (the two places that remember it), `window` (the mode of the
settings, the mode it is in, the modes it remembers and the two overrides),
`boot`, the map and the movies, `input` (what the game takes for held) beside
`keys` (what is held).

Events come between frames: `Backquote`, `Escape`, `AltEnter`, `Press`,
`Release`, `Click`, `Skip`, `FocusLost`, `FocusGained`, `Resized`, and the
commands that change a display setting, reload a map or replay a trace.
`Layer` is `InputRouter::active_layer`: console before menu before game. A
frame goes through the stages of `at`: `BeginFrame` ends the slide of the
console or not, `ScriptStep` plays a step of the input script, `Ui` serves what
was clicked, then `Video`, `Reload`, `Replay`, and `Present` or
`NotPresented`. `Settle` and `WarmRender` are the hidden boot: the window is
shown when it has not changed for a while and `BOOT_PRESENT_WARMUP` frames
have been presented since.

Slides, delays and movies end at any time: what the model knows of time is
their order only.

### 2.7 ControlPlane and CommandLoop

A command runs to its end on the main thread, so it is one operator on `host`,
the record of what commands reach, and returns the host with an outcome: an
error leaves what was done before it, which is where the hazards are.
`Dispatch` is `ControlPlane::dispatch` with the handlers behind it; `RunLines`
the loop of `exec` with its two policies on errors; `StagedCvars`,
`StagedSettings` and `CleanClone` the copy of the registry that `cfg_load`
works on before it commits. Depth of nesting is a parameter, and a script that
would nest deeper sets `overflow`, which the type invariant excludes.

`CommandLoop` is the frame: `Wake`, `SmokeTick` (deadlines first, then the
state of the runner, then a line), `MenuAndSettings` (an edit of the menu, the
save, the early return of a display change), `OnTick`, `Drain` (Lua's lines to
the last), `Reload` (one), `Trace`, `Render` (one capture). `Type` is a line
typed between frames. The smoke runner's commands work on a host with a reload
queue and traces of their own (`SmokeHost`, `BackFromSmoke`). A fault is a full
disk, assets that are not ready, a surface that is lost or a readback that
fails. `written`, `maps` and `saved` are history.

### 2.8 QuakeFiles and ContentBuild

A store is a directory or an archive, the sequence of its files; `disk` has one
for each, with whether it is there and parses. `MountRead`, `MountExists`,
`MountList` are the three kinds of `MountEntry`, `Read`, `Exists`, `ListDir`,
`Candidates` and `ResolverCandidates` the walks of `vfs.rs` and
`asset_resolver.rs`. A pk3 or pak is read at `Launch`; a directory is read again at each
lookup, so the user's edits (`WriteFile`, `RemoveFile`, `Repack`, `Damage`,
`Delete`, with the clock in `stamp`) reach the one and not the other.
The scan's order is that of `sort_entries`: `Places` are the files it finds, `Before` compares
two of them, and `Collected` is the sequence of their entries in that order, where the first of a
key wins and the rest are the duplicates (`EntriesOf`); `Fingerprint` is what the index file is trusted by, `Accepted` and
`LoadOrBuild` are the way `load_or_build` decides, `QuakeIndexTool` and
`QuakeIndexKilled` the tool that writes the file, or a part of it.

`ContentBuild` adds the two layers of the content tree and the tools. `build.pc` is where a
running `tools content build` is: it reads everything at `BuildBegin`, runs or
skips its stage at `BuildStage`, writes the index at `BuildIndex` and its
manifest at `BuildManifest`; `BuildDies` between them or within a write, and
edits fall between them. `CollectInputs`, `Validated`, `Discovered` and
`LevelGraph` are the four ways the tools read the levels; the last, a depth-first walk, is in
`ContentGraph`, the only recursive operators of the component. Discovery goes by the
directories that are there (`LevelNames`) and makes a key of each name with `KeyOf`, which
trims it and takes it to lower case, or fails (`DiscoveryFails`); resolution goes the other
way, from a key to the directory of exactly that name (`ResolveLevel`, `ResolveFile`). A
discovered level is therefore a layer and a name, and not always what its key resolves to.
Names are compared as a case-sensitive file system does.

### 2.9 MapCook, MapScene, HullTrace, PlayerMove

`MapCook` holds the functions: `ExpandedSolids` with the generators of stairs,
ramps and corridors; `ScaleSolid`, `SolidBounds`, `BuildColliders`; `BuildBvh`
with the sort by centre and the split at the median; `SelectIntersecting`;
`Validate`; the triangles of Quake 1 and Quake 3 faces, with indices out of
range; `SplitNode`, the quadtree; `CookBsp` with the sidecar. Coordinates are
integers and centres are in half units, so what the code computes in floats is
computed exactly.

`MapScene` has the author's actions (`EditMap`, `Cook`, `CookBspTool`,
`TestMapValidate`, `WorldValidate`, `TamperWorld`) and the game's
(`EnterMapScene`, `DevAssetReload`, `DevAssetPurge`, `DumpNearPlayer`). `assets` is what the
asset manager keeps of both files; that it may be older than the files, in
either order, is the point.

`HullTrace` is `build_scene_mesh` (`Scene`), `hull_point_contents`,
`recursive_hull_check` (`HullCheck`, its parts `Beyond`, `BlockedBeyond` and `Across`), `slide_move`,
`step_move` (`MoveWithStep`), `try_unstuck` and the frames of `CameraState`
(`Walk`, `Fly`, `ToggleFly`, `EnterLevel`). Planes are axial and a move is a
whole number of steps along a direction of signs, so that every point a trace
computes is an integer; a triangle without an area counts for the bounds and is no floor; paths that only touch within `Eps` of a plane's edge
and sloped planes are left out.

`PlayerMove` takes the vertical half of the player: `ArenaStep` and `RpgSteps`
are the motors, `Moves` what rapier's `move_shape` may answer (external: any
floor, a snap or none), `Committed` and `Tick` the controller and
`update_test_map_runtime`, `SwitchMotor`, `FlyTo`, and the frame with its
variable or fixed steps (`BeginFrame`, `MoveStep`, `EndFrame`).

### 2.10 RunnerConfig, RunnerCommands, RunnerGui

The settings file is the sequence of its tokens, and the reader looks a key up
as the code does: the first quoted text that equals it, whichever role it plays
there, then the value after the next colon. `SaveTorn` leaves any beginning of
the file, in numbers any beginning of their digits; `Start` reads what is left.

`RunnerCommands` has both ends: the builders (`PalletArgs`, `ServerCommand`,
`VfsStatCommand`, ...) and the parsers of the programs that are started
(`PalletReads`, `ServerReads`, `ClientReads`; `ToolsRead` stands for clap with
the tools' declarations). Texts are opaque but for what the parsers tell apart.

`RunnerGui` has `procs`, the programs started, each with two pipes, and `gui`,
the lanes. `PrintLine`, `Exit`, `WriteManifest` are the program's steps,
`Forward` a reader thread's, `PollAll` the poll of all lanes that begins a
frame; `Run`, `RunFails`, `RunRefused`, `Stop`, `Clear`, `Refresh`,
`ChooseTab`, `ChooseRoot` what a frame's click does; `CloseWindow`,
`OutOfMemory`, `LoopExiting` the ways to the end. A line carries, as history, its run, its
stream and which one of the stream's lines it is (`nth`), so that a log can be compared with what
was printed without merging the two pipes again; the code has the text alone.

## 3. The runs

### 3.1 What each run shows

| Run | Instance | Properties | What it shows |
|---|---|---|---|
| `jobs_pool` | 2 queues, workers 2 + 1 or inline mode, 2 jobs, capacity 2 | `NoLostWakeup` `RunsOnce` `JobsConserved` `CancelStops` `MetricsExact` `FirstInFirstOut` `EveryJobSettles` | the pool keeps its promises in every interleaving of submitter, workers, cancellations, panics, spurious wakeups and drop |
| `transport_channels` | 3 reliable up and 1 down, or 2 sequenced and 1 unreliable each way; 4 packets each, 2 messages a packet | `ClientNothingLost` `ServerBufferUnused` `OrderedExactlyOnce` `NeitherOlderNorTwice` | the reliable channel is what `ReliableOrdered` promises, both ways; acks lose nothing of the client's; the two lossy channels go forward only |
| `transport_delivery` | 2 reliable, 1 unreliable, 2 losses | `EventuallyDelivered` | retransmission |
| `session_play` | 2 clients, 3 calls, 1 input each (a newer one over an older is left to 4.8), 1 loss, 1 failure; two configurations | `ClientsFollow` `ServerFollows` | join, play, leave, exit; ticks that fail |
| `assets_cache` | 1 key, 2 slots, 1 edit, command, reload, cancel, panic | `OneLoadPerSlot` `CacheTrue` `CancelStopsLoad` | coalescing, freshness, failure policy, cancellation |
| `assets_live` | 2 keys, queues of 1, 1 command | `EveryLoadSettles` | loads settle |
| `video_two` | 2 movies, two sets of files, a prebuffer of 1 to 2 periods, with and without a device, 1 failure or skip | `SoundOfCurrent` `CountsExact` `StopReturns` `PlaylistEnds` | the shared counters, sound and threads of a movie that is left, the gates before the start |
| `video_list` | 3 movies, nothing fails | `EveryEntryPlays`, violated | see 5 |
| `shell` | 1 movement key, 2 movies, 3 events of the user or of commands, 1 while the input script runs | `WindowSettles` `InputFollows` `Shown` | overrides of the window, hand-over of mouse and keys, the hidden boot, at every stage of a frame |
| `control` | 2 typed lines of 15, 4 smoke scripts, 1 fault | `SettingsAgree` `HostsApart` `OwnCaptureWritten` `QueuesDrain` | four copies of a setting, two hosts that share state, captures awaited by count, queues |
| `content` | six families: the game over mounts, the index, the content tools, the launcher's settings, its pallet lane, its tools lane | `LookupsAgree` `IndexTells` `BuildsTell` `LevelsAgree` `SettingsKept` `PanelUnderstood` `LanesTrue` | caches of files that are edited, writes that are cut short, command lines, logs |
| `world` | four families: cook, scene, hull, walk | `CookSound` `SceneSolid` `HullSound` `Walking` | cooked worlds, their use by the game, traces through a level, the player's two copies |

A property is often the conjunction of what one question comes down to:

- `MetricsExact`: `DepthAccounts` (what the depth counter counts, which is less
  than a queue length for a moment and then `usize::MAX`) and `ActiveAccounts`.
- `NeitherOlderNorTwice`: `SequencedNeverOlder` and `UnreliableAtMostOnce`.
- `ClientsFollow`: `SnapshotFaithful`, a client holds a state the server built, while calls
  do not fail, or one fails and nothing is lost (5); `UpToDateUnlessLost`, nobody stays
  behind while no packet is lost and no call fails.
- `ServerFollows`: types, `NewestInputApplies`; `NoGhosts`, while no packet is
  lost and no call fails; `EveryCallAdvances`, while the entities fit in a
  message and no call fails.
- `CacheTrue`: `FreshAfterReload` and `LastGoodKept`. These and
  `OneLoadPerSlot` hold while nobody cancels (5).
- `CountsExact`: types, `CountExact` (until a movie's audio has been given up,
  see 5) and `QueueCountExact`. `PlaylistEnds` if the files can start.
- `WindowSettles`: types; `ModeSettles`, a focused window without console
  and behind its boot is in the mode of the settings, or the console's flag
  says what is missing; `FullscreenRemembered`.
- `InputFollows`: `LookFollows` and `NoStuckKey`, with the exceptions kept as
  history: `lookLost` and `raced` for the mouse, `excused` for keys, each set
  where the code loses track (5). `Shown` is about a boot that begins hidden.
- `SettingsAgree`: `AppliedMatches`, what a cvar drives follows it once the line
  is done; `ProfilesKept`, settings and cvars are both on disk after their
  last save, in files that hold both. `HostsApart`: `ReloadsInOrder`, no reload
  asked for by anyone is lost, repeated or overtaken; `TraceExclusive`.
- `LookupsAgree`: `exists`, `read`, `list_dir` and the resolver tell of one file
  for each path. `IndexTells`: types; `IndexFresh`, an accepted index is what a
  scan would build, but for edits the fingerprint has no part in and for an index file
  that was cut short; `WhichIsServed`, the file `which` names is the one the game
  reads, for a key in one spelling.
- `BuildsTell`: types; `ManifestTrue`; `SecondBuildIdle`; `ValidateCovers`, what passes
  validation a build can collect if and only if the key of every level directory and config
  file that was found resolves, and then the level it probes is readable unless a
  directory of another name took its place (5). `LevelsAgree`: what resolves is discovered, in the
  same layer and directory unless the directory found has another name than the key; and
  the graph is of what resolves.
- `SettingsKept`: what was saved is what is read, floats as written; of a save
  cut short, at any token and in any number, each field is as saved, its default
  or the number's first digits. No text may equal a key (5). `PanelUnderstood`:
  each command line means to the program started what the panel shows.
- `LanesTrue`: types; `EachLane`, a log shows its lane's latest run alone, and of each stream the
  log, the channel and the pipe hold the end of what was printed, in order and without a gap,
  all of it if the log was neither cleared nor full; `ManifestTold`, the build manifest shown is that of the chosen
  root and of the last run that was seen; `NothingLeft`, no child that is
  still watched outlives the window; `StatsTold`.
- `CookSound`: a world just cooked passes `validate`, holds each solid or
  triangle it was cooked from, and any world that passes and whose nodes are a tree
  answers each query exactly. `SceneSolid`: unless entering failed half way,
  what is drawn and listed has its collider where it is drawn.
- `HullSound`: no trace, no frame of walking and no `try_unstuck` that succeeds
  takes the player into solid, and no frame lifts it more than a step.
- `Walking`: `Agreed`, controller and frame loop have the same place, speed and
  footing, and who stands has floor within a snap; `OwedJump`.

### 3.2 Bounds

Bounds are constants named `Max...` in the guard of the action they bound; none
is part of the code but `MaxPending` (`max_pending`) and `MAX_SENT_PACKETS`.

- *Jobs*. Two workers on one queue are what a lost wakeup takes: one pop between
  a push and its notification, another asleep. Two jobs fill a queue, and let one
  callback submit while another job runs. The counters wrap at 16, more than
  they can reach upwards, so a wrap is one below zero.
- *Transport*. Three reliable messages with two to a packet give packets that
  overlap without being equal, four packets a gap, its repair and a late
  duplicate; two ack bits are exceeded by a distance of three. Sequence numbers
  stay below `SEQ_WINDOW`, as a session of less than 2^15 packets does: beyond
  it, a packet delayed by half the space is taken for a new one.
- *Session*. Three calls are a full snapshot, a delta and a delta on it; with
  two clients the number of entities can change and change back. One loss is
  enough to separate what was sent from what is held, and one failure to use
  a tick number twice. A client has one input; that a newer one replaces an older is what
  `ServerActsOnTheNewest` (4.8) proves for any number of them. The two members of `Configs` are a server whose clients
  all fit in a message, with snapshots on every tick, and one where only one
  fits, with snapshots on every other tick. `Client` is a symmetry set: no action
  and no invariant names a client. The proofs of 4.8 have none of these bounds.
- *Assets*. One slot before and one after a purge are two; capacity 1 makes
  every queue full at some time; budget 1 with cost 1 is spent or not. Two
  versions of the file tell stale from fresh.
- *Video*. Two movies are one that plays and one decoded ahead; one set of files
  has a second movie too short to start, which must be found while the first plays
  or after it. The limits keep the order they have in the code at a scale of a
  period: a prebuffer of one period to start with and of two at most, two frames to start, a
  queue of samples with room for one, so that it is full in every movie. `Horizon` stops the clock after
  everything the files hold is late and silent, which `VideoAssumption` asks for.
  `USIZE_MOD` is 8, more than is ever queued, so a wrap is one below zero.
- *Shell*. Three events are enough for two overrides and the event that undoes
  them in the wrong order; clicks on the menu, frames, slides, the script and
  the end of movies are not counted. One key suffices, for keys do not interact.
  Two movies are a change of movie and an end. `Warmup` 2 is a warm-up that a
  resize can interrupt; `ReplayLen` 1 a frame that presses keys and the end. The
  proofs of 4.5 have no bounds.
- *Control*. Scripts nest to a depth of 3, which is the deepest a script of the
  instance goes; `overflow` would show it exceeded. The deadline of a step is 3
  frames, which `sleep_ms` 4 exceeds, that of a script 9. Files, profiles and traces are two each, one that exists and one that
  does not.
- *Content*. The families share no state, so a run of all is a run of each.
  Two edits are one between a read and a write and one after; one tick of the clock
  lets an edit fall within a second or not. Names are few: one in two spellings, one in
  an archive twice, one that a mod shadows. Two levels refer to each other and
  to a file, or not; a third directory is the first in upper case, a fourth has a name no
  key can be made of. The paks change and `content/build` is cleaned in the index
  family, the content tree changes in the content family. The launcher starts two programs in a lane, its log holds
  two lines, so that it overflows; all 46 settings are in the model, one is
  changed at a time, from seven old files.
- *World*. Leaves of two and depth two, with a few solids or triangles: each
  branch of the cooker and of the hierarchy, equal centres and splits that put
  everything on one side. `Room` has a step that can be taken and a ledge that
  cannot, `Slab` void and water below; strides and offsets are chosen so that
  traces end before, at and behind a plane. The player falls, lands, jumps from
  buffers of 2 units, under variable frames of 1 and 4 and fixed steps of 2.

Deadlock is not checked: every model may stop when its bounds are used up.

### 3.3 Fairness

- `Jobs!FairSpec`: weak fairness of each worker (the OS schedules threads and
  closures return), of `CountDepth` (the second half of a call) and of the pump,
  which the frame loop calls in each frame. None of submission, cancellation,
  spurious wakeups or dropping the handle; `EveryJobSettles` ends when it is dropped.
- `NetDelivery!LiveSpec`: weak fairness of `Flush`, which `poll` repeats every
  `RETRY_INTERVAL_MS` while something is pending, and of receiving the newest
  packet that was not lost. Losses are bounded, and messages are only sent while
  more packets are left than may be lost, so that the bound on packets does not
  stand for a dead network. Without bounded loss nothing could be promised.
- `AssetManager!FairSpec`: weak fairness of the frame and of the workers; strong
  fairness of `BeginPump(TRUE)`, since `await_ready` pumps no longer than its
  timeout and then frames go on; strong fairness of a worker that wants the
  manager's lock, since the main thread has it only while it drains.
- `VideoPlayback!FairSpec`: weak fairness of each decoder thread, of the device, of
  the frame loop and of the two timers. Strong fairness of `TakeAudio` and
  `TakeVideo`: `pump` gets on with the file, so that a thread that asks again and
  again is given what is left. None of failures and of the space bar.
- `Shell!FairSpec`: weak fairness of `FrameStep`, for winit asks for a frame
  whenever it waits and a stage returns. Strong fairness of `Settle`: the window
  keeps its size longer than the settle time, again and again, since resizes are
  bounded by the user; and of `Present`: a surface that is lost is configured
  again and presents some time. None of any event.
- `CommandLoop!FairSpec`: weak fairness of `FrameStep` only.

## 4. The proofs

All theorems are of the form `Spec => []P` with the safety specification of the
runs, for all values of the constants that satisfy the module's named assumption.
Where a run puts families side by side, each family has its own (`MoveSpec`, `GuiSpec`, ...):
its part of the run's `Init` and `Next`.
TLC evaluates the assumptions in every run.

### 4.1 Jobs_proofs

For any number of queues, workers and jobs, any capacity: `JobTypes`,
`WakeupsNeverLost`, `JobsNeverLost`, `JobsRunOnce`, `CancellationStops`,
`WorkersStay`, `MetricsTrue`, `QueuesInOrder`, in both modes. `JobsAssumption` asks
that every queue has a worker to serve it, and that the counters are wide enough.

`JobsInv` is inductive. `NoLostWakeup` needs only types and itself: a push into
an empty queue with everybody asleep wakes somebody, and a worker goes to sleep
only when its queue is empty, under the lock. `PoolIntact` needs that
queues are shut down in inline mode only: the only step that sets `shutdown` needs every
reference to be gone, and a worker holds one until it leaves, which it does only
on `shutdown`. The other three hang together: that a job runs once follows from
where it is (`RunCounts`), which is of use only if it is in one place
(`JobsConserved`), and a cancellation is obeyed because the flag it sets is read
again in any place the job can be in (`CancelRecorded`). The proof goes step by
step (`SubmitStep`, `PopStep`, `EnterStep`, `SendStep`, `CallbackStep`, ...).

`MetricsTrue` (`MetricsExact`) has an inductive invariant of its own, `MetricsInv`. It
says of the depth what `DepthAccounts` says modulo the width, without the modulus: the
counter equals the entries and the workers that have popped but not counted
(`Underway`), or, between a push and its count, counting it up would make it so. In
that moment the counter may be `usize::MAX`, when the worker was faster, and this is
the only one in which it wraps: no more is under way than fits in a queue and in the
workers' hands (`Bounded`), which `USIZE_MOD` exceeds. Every step moves one worker, so
a count changes by one or not at all (`OneEnters`, `OneLeaves`, `NobodyMoves`).

`QueuesInOrder` is the action property `FirstInFirstOut`: what has left a queue and what is
in it, put together, stay as they are or get one job at the end (`OrderStep`).
`EveryJobSettles` is liveness and model-checked only.

### 4.2 NetTransport_proofs: acknowledgements

For any width, number of ack bits, queue and packet size: `TransportTypes`,
`ClientMessagesNeverLost`, `ServerNeverReorders`.

The acknowledgement bits are wrong after a gap (5), so the proof cannot rest on
them. It rests on `FirstOf`: each packet repeats the oldest pending messages.
Hence a packet that reached the server brought whatever was carried by earlier
packets and was still pending then (`FlightRepeats`), so once the server has
received some packet, everything carried up to it is delivered
(`ReceivedDelivered`) - and an ack, right or wrong in its bits, only names
packets up to one the server received (`AcksHeard`). That a packet brings a
gapless run starting at or before what the server expects is also why the
reorder buffer stays empty. `ClientInv` is the conjunction; it needs that
sequence numbers do not pass half the space, which is the bound the runs have too.

### 4.3 NetTransport_proofs: the three channels

`LossyChannelsNeverRepeat` (`NeitherOlderNorTwice`) and
`ReliableIsOrderedExactlyOnce` (`OrderedExactlyOnce`), for the same constants, at both
ends, over a network that keeps every packet for good. One invariant for each channel
(`ChannelsInvariant`); none needs another, only the types:

- `SequencedInv`: an end remembers the newest id it handed on, and every id in flight
  was given out before. Since ids stay within the window, newer modulo the width is
  greater (`MoreRecentIsGreater`), so what is handed on grows.
- `UnreliableInv`: an unreliable message is pending, or in exactly one packet, or not
  yet sent (`PackedOnce`); packets have numbers of their own (`PacketsNumbered`); and
  only packets up to the newest one received have brought anything
  (`DeliveredWhenHeard`). A repeated packet is not newer (`NewIsLater`), and a newer one
  has not brought its messages yet.
- `OrderedInv`: ids anywhere were given out by their sender (`IdsHandedOut`), and an end
  has handed on exactly the ids below the one it expects (`DeliveredInOrder`).

The reliable channel is a refinement of `ReliableOrdered`. Under the mapping `Send` of an
end is a `Send`, a packet whose ids close the gap at the expected one is a `Deliver` of
the run it completes (`RunIsInterval`: what the loop of `poll` hands on is an interval of
ids; `CountIsSeq`), and every other step stutters (`RefinesStep`). The mapping
speaks of ids only, never of what is still pending: otherwise the wrong bits of the
server's acknowledgements (5) would break it, and what they lose is
progress, not order.

### 4.4 PlayerMove_proofs

`PlayerCopiesAgree`, for all floors, speeds, offsets, windows, frame times and
numbers of substeps that `MoveAssumption` admits.

`Walking` is not inductive: a step of the motor could owe a jump while the other
motor is chosen, and a frame could go on under a step that has changed.
`RpgOwesNothing` (only the arena motor owes jumps: a switch resets the buffer) and
`StepFixed` (a frame keeps its kind of step) strengthen it, with the types.
`PlayerInv` is about the player, `FrameInv` about the frame; `TickStep`
shows the one step that moves the player, and the rest of `MoveNext` keeps what it
does not touch.

### 4.5 Shell_proofs

`WindowAlwaysSettles` and `InputAlwaysFollows`, for any set of keys, any number of events
and movies, any warm-up and length of a trace. `ShellAssumption` asks for
numbers, and that no more events come during a script than in all.

`ShellInv` is inductive; its parts can be read by themselves:

- `WindowInv`: a window not in the mode of the settings is in fullscreen mode and
  somebody knows of it (`Excused`: the console, the focus or the boot), or a
  changed setting waits for its frame. The focus only remembers while it is away.
- `KeysInv`: while the game has the keys, what it takes for held is held or
  excused; while it does not have them, all of it is excused, for its releases go
  elsewhere.
- `SceneInv`: movies come before menus and menus before scenes; no mouse looks
  around without a scene.
- `LookInv`: who remembers the mouse while the game does not have it
  (`Remembers`): the game itself, the console, the pause menu or the focus, one of
  them in each state the four can be in, or it is lost.

Each part has its lemma (`WindowStep`, `KeysStep`, `SceneStep`, `LookStep`), which
takes the types and the parts it needs: `LookStep` needs `SceneInv`, the others
only themselves. What a key handler does is stated once (`HandledWindow`,
`HandledKeys`, `HandledScene`, `HandledLook`) and used for the key, Escape and the input
script.

### 4.6 VideoPlayback_proofs

`OnlyCurrentIsHeard` (the runs' `SoundOfCurrent`), `DecodersCompareTheirQueue`
(`QueueCountExact`) and `CountersAreExact` (`CountsExact`), for any playlist, files
and limits. `VideoAssumption` asks for numbers, and that no file holds as many
frames as the counter can count, nor the queue as many samples.

`VideoInv` is local to a movie. `MovieOK` is about its record alone: a decoder that
says it failed has ended, and `FramesCounted`: the counter is the number of frames
in flight, but for the one its decoder has sent and not yet counted. If the player
takes that one first the counter wraps below zero, and the count that follows brings it
back: hence the arithmetic of `Wraps`. `InTurn` relates the movie to the playlist:
who runs is current or next, who has seen its clock run is current, and from the
moment the emptied queue is left behind (`at = "advance"`) the decoder has ended.
The second needs the first: a movie decoded ahead has no clock, so it keeps its
samples; the last is what makes it safe to change `current`.

`MovieReplaced` and `CurrentReplaced` say once what a step must show that replaces one
record; each action then has its lemma, over what the operators do to a record
(`SendFrameOK`, `DrainedOK`, `TakenOK`, ...).

`CountersAreExact` takes four more invariants. `FilesInv`: shown, in flight and left
to decode are together no more frames than the file has, and likewise for the
audio, which gives the bounds of `TypeOK`; and whoever knows of the end of audio has it
from the decoder. `ListInv`: the entries come in order (`Upwards`), so that the movie started
ahead is never the current one, whose record it would overwrite. `ScreenInv` is
typing. `CountInv` is the counter: it is exact for the current movie, and while
`clear_pcm` has emptied the queue and not stored zero yet (`at = "zero"`) nobody
writes, because the decoder has ended (`MovieOK`: it failed) or has announced the
end of audio, the one case the property leaves out. `QueuedOfCurrent` turns it into
the sum over all movies: by `InTurn` the others have nothing queued.

### 4.7 AssetManager_proofs

`LoadsCoalesce` (`OneLoadPerSlot`), `CacheShowsTheLatest` (`CacheTrue`) and
`CancelledIsNotPublished` (`CancelStopsLoad`), for any keys, priorities, budget, number of
workers and size of the queues, and any number of slots, edits, commands, reloads,
cancellations and panics. `AssetAssumption` asks for numbers, for queues with room
and workers, and that `None` is neither a number nor a file.

The invariants come in layers, each proved from the ones before it:

- `TypeInv`: shapes. A job lists in its type where it can be: a read waits on `io`
  without a file and completes with one.
- `UniqueIds`: no two jobs share an id and none is in two places (`held` says what is where).
- `Orderly`, while nobody cancels: a slot is pending exactly if one entry of one
  pending queue is for it; pending and in flight exclude each other; a slot with a job on its way
  is in flight and holds that job's id; in flight without a job takes a panic. It is this that
  makes counting unnecessary: `QueuedOnce` and `OneLoad` count at the end.
- `CacheInv`, while nobody cancels: what a load of an entry's slot brings is no older than what was last
  asked for (`LoadFresh`), a slot under way that has a value retains it, a settled one is good
  (`SlotGood`). That a reload is accepted only for a slot without load is what keeps
  a stale file out: `Orderly` gives that no job of the slot is left.
- `CancelInv`, with cancellations: the decode of a cancelled slot is stopped, or had completed
  and the slot is in `tooLate`. The first cancellation needs `Orderly`, by which the job
  the slot holds is the only one; from the second on the invariant speaks of the
  job that the slot holds.

The actions are many and each invariant looks at a part of the state, so steps are
sorted once: `StepKinds` shows that every step is one of eight kinds (`IdleStep`,
`ReloadStep`, `PurgeStep`, `CancelStep`, `MoveStep`, `LossStep`, `BackStep`, `DrainStep`), said
in terms of slots, requests and the loads among the jobs. `TypesKept` is by action; the lemmas of the other
layers (`Orderly...`, `Good...`, `Stops...`) are by kind. What an operation on a slot
does to its fields is stated once each (`ReloadingIs`, `FailedIs`, ...), and what steps do
to the loads in the places too (`LoadStep`, `OwnMove`, `OwnReplace`, ...).

### 4.8 NetSession_proofs

For any number of clients, calls, inputs, losses and failed calls, any stride and any
`BASELINE_INTERVAL`: `ServerActsOnTheNewest` (`ServerFollows`) and
`ClientsHoldTrueStates` (`ClientsFollow`).

`ServerInv` strengthens the first. The acceptance test compares an input with the last
one accepted; that it never turns a newer one away needs that inputs on their way are
numbered upwards, above the newest handed over (`InputsRise`), and that a player
without input stands at 0 (`FirstInputAwaited`). That nobody who left stays needs to know
where Disconnect is: in the last packet, and not seen before (`GoodbyeLast`). That a
call is never refused while all clients fit is a fact about cardinalities
(`OrderBounded`): nobody is in the iteration order twice.

Of the snapshots there are two arguments, for two ways to go wrong.

- Without a failed call (`Lossy`), whatever is lost: the server builds one snapshot for a
  tick (`OnePerTick`), so the tick that a delta names as its baseline names one state.
  Every message on its way is a state, or leads from one state to another
  (`MessagesTell`). A client that holds the named tick holds that state.
- Without a loss (`Whole`), whether one call failed or not: two states may have the same
  tick now, and the first argument breaks. `FutureTrue` follows each client along its
  link instead: what it will hold after each message is a state that was built, and after
  the last one it is what the server remembers, or, if the failed call did not reach
  it, something of an older tick. From then on no delta applies to it until a full
  snapshot comes.

Both rest on `DeltaRebuilds`: what `delta_entities` leaves out is what
`apply_delta_snapshot` has, if the numbers of entities agree. With a failure and a loss
there is no such argument (5). Of that case the types say what is true: a client may
then hold entities with gaps in their `net_id`s, which takes three clients to see.

### 4.9 ContentBuild_proofs

`LookupsTellOfOneFile` (`LookupsAgree`) and `IndexTellsOfTheFiles` (`IndexTells`) are about
`QuakeFiles`, `BuildsTellOfTheirInputs` (`BuildsTell`) and `ToolsKeepTheIndex` (`IndexFresh` once
more, now with builds, `clean` and `quake index` interleaved and stopped half way) about
`ContentBuild`: for any names, archives, mounts, levels, manifests and config files, any number
of edits and ticks. `QuakeAssumption` asks that the stores are different ones, that a directory
does not hold a name twice, and for types; `ContentAssumption` that keys of levels, maps and files
are of different kinds, which their prefixes see to.

*Lookups.* `MountsInv` is typing and `Kept`: an archive mounted and not swapped since is as the
mount has it. Given a state that is so typed, `LookupsAgree` is about the walks alone:
each is reduced to the first mount that has the path (`MountAnswers`, `ReadIsFirst`), and what
`list_dir` lists is what some path below has (`ListsWhatItHas`, `HasWhatItLists`,
both by way of the first component of the rest of a path).

*Index.* An accepted index is compared with a scan that has not happened, so the invariant must
follow an index that is still good and one that no longer is. `Trusty`: an index that knows of
every change its fingerprint misses (`knows >= blind`) is `Current`, equal to a new scan in
fingerprint and entries, or `Outdated`, one of its times is before the store's. Times only
grow (`ClockInv`), so what is outdated is never accepted again (`OutdatedDiffers`); an
edit outdates an index (`BecomesOutdated`), touches nothing of it (`CurrentStays`), or counts as
missed (`BlindEdit`). For `WhichIsServed` the two orders must be the same one: `Aligned` says
that a game with no mounts but the directory's has mounted the indexed stores in their order;
the sort is counted, a place's position being the number of places before it
(`InOrderLists`, which needs that `Before` is a strict total order on a finite set,
`PlacesOrdered`), so the first entry of a key is in the first store that has it (`FirstEntry`).

*Builds.* `BuildInv` is inductive. Beside the two invariants above it has

- `BuildIndexInv`: the index in a build's hands is a `Trusty` one too. It is read when the
  build begins and written after its stage, when the one on disk may be newer.
- `OutputInv`: the output is what the manifest beside it lists, unless it is `torn`; in a
  build past its stage it is what this build's inputs give, whether the stage ran or was skipped. A
  `clean` in between leaves none.
- `HashesInv`: the inputs of a build that nothing overtook, and of a manifest nothing was edited
  since, are hashes of what the resolvers find now.
- `FreshInv` and `SettledInv`, for `SecondBuildIdle`: while nothing is edited a build's inputs
  are what would be collected again, with the index in its hands or, once it has ended, the
  one in the file, which is accepted. The second build therefore collects the same inputs,
  although the first made its index and the second loads it.
- `SkipInv`: a build with the arguments of the settled one finds its manifest and its output,
  which nothing but a build or `clean` takes away.

A `clean` or a `quake index` beside a running build unsettles it: `build.at` is then -1, and the
four parts about what was read say nothing, as they should, for the index in the file may be
another. `ValidateIsEnough` needs the types only: a level or file that is depended on is looked
for by the same resolvers in both, so what is left are the keys made of names. Each key
that does not resolve is a failed input (`CollectedArePlaced`), and without one there is none
(`ValidCollects`); what resolves is discovered (`ResolvedIsFound`), so the level a build probes is one that
validate has read if the directory found has the key's name (`ValidProbes`).

*The runner.* `LanesAreTrue` (`LanesTrue`) is about `RunnerGui`, for any lanes, jobs, prints, roots and
length of a log, and any number of starts, clears and refusals. `GuiAssumption` asks that the
lanes are finitely many, the pallet and the tools lane among them, that what writes or removes a
manifest is started in the tools lane, as the buttons have it, and for types. `GuiInv` is inductive:

- `LanesHold`: typing, and `LaneOK` of each lane against the programs. A lane's child is its
  channel's run or none; its log and its channel hold lines of that run and of the runner alone;
  and of each stream, what log, channel and pipe hold together is the end of what was printed
  (`StreamOK`). A step moves a line from one of the three to the next or drops the first lines
  of the log: `KeptLines` says once that such a change keeps an end, given where each line that is
  kept was before. `Taken`, `Pushed` and `PrintedOK` use it for `Forward` and `PrintLine`,
  `SystemPushed` and `DrainedOK` for what the lane itself adds. Programs of other
  lanes are untouched (`StartedOK`, `AlikeOK`, `Forwards`).
- `Watched`, for `NothingLeft`: a program that runs is the child of its lane, or a wait has
  failed; if it is one of the tools lane, that loss is among the `unnoticed`.
- `RanTrue` with `ManifestTold`: while a frame draws, what the panel remembers of the tools lane
  (`tools_last_running`) is whether it runs. A manifest can thus only be stale while a run is
  watched, or after one that no frame saw running.
- `StatsLooked`: the number of lines at the last look is not above the log's, and where they are
  equal the statistics are of this log. It is what makes the number a sound test of change
  as long as nothing was dropped (`PolledGrows`, `FrameStats`).
- `Gone`: when the loop is left no lane has a child.

Neither `NothingLeft` nor `StatsTold` is inductive alone: the one speaks of the last state only, the
other of frames that draw, and both are decided steps before.

### 4.10 What stays with TLC

Liveness under fairness is beyond this prover. So is anything about folds or
recursive functions over all inputs, which takes induction: `LevelsAgree` (a depth-first walk
against reachability), `CookSound`, `SceneSolid` and `HullSound` (hierarchies, traces),
`SettingsAgree` and `HostsApart` (scripts that nest), `SettingsKept` and `PanelUnderstood`
(readers of tokens and arguments) compute with such functions
and are model-checked only. What a chain of
messages makes of a client's snapshot is such a function too; `FutureTrue` says that there
is one instead of defining it, and needs no induction; and the order of the index is
counted instead of sorted for the same reason.

## 5. What the code does not do

What a document says and the code does otherwise. The first has a run,
`video_list`, marked violated; the others are behaviours of the models too, and
show as conditions of the properties that hold.

1. `EveryEntryPlays`. An entry taken off the list to be decoded ahead waits in
   `next_video_entry`. If the movie before it ends before that begins,
   `advance_playlist` takes the entry after it and overwrites it. Without an audio
   device nothing is ever decoded ahead, and every second movie is left out.
2. No reliable message of the server is lost (`docs/ARCHITECTURE.md:211`). A packet
   built before anything was received has ack 0, the same as an
   acknowledgement of packet 0. A client that retries its Connect after the server has
   sent, but before it has heard the server, acknowledges the server's first
   packet; its reliable messages are lost and the channel stalls. `net/server`
   sends nothing on that channel today.
3. Newer snapshots supersede older ones (`docs/ARCHITECTURE.md:210`). The baseline of a
   delta is the last snapshot sent, not the last one received. After a loss the
   client drops all deltas, and no full snapshot follows while the number of
   clients stays: a baseline is never older than `snapshot_stride` ticks, so
   `BASELINE_INTERVAL` has no effect.
4. The server is authoritative (`docs/ARCHITECTURE.md:19`, `:115`). A flush that
   fails ends `tick` before the tick number advances, and the next call gives
   another state the same number. A delta names its baseline by the number: a
   client that got the first of the two and lost the second applies the delta
   to the wrong one, and holds a mixture. It takes a failure and a loss, or two
   failures.
5. A reload shows the edit (`CHECKLIST_3`, line 437). A reload joins a load under way
   even if that has read the file already; `dev_asset_reload` then reports
   success for the old content.
6. A command that fails makes a smoke run fail (`CHECKLIST_4`, lines 98 and 100).
   `exec` stops at the failing line, keeps what the earlier ones did and returns
   Ok, so a script that executes a failing script ends with exit code 0.

Further things met while modelling. Most show as a condition, a history
variable or an exception of a property.

Jobs, transport, session, assets:

- After a gap the ack bits are wrong: `(mask << diff) | 1` marks the packet just
  before the newest, where the last one received before the gap lies `diff`
  back; and a shift by the full width shifts by nothing in a release build.
  Harmless for the client's messages, for the reason given in 4.2.
- A worker may count a queue's depth down before the submitter counts it up;
  telemetry then reads `usize::MAX`.
- Nothing shuts the worker threads down: each holds an `Arc` of what its own
  exit condition waits to be dropped.
- A `poll` that fails half way drops the messages it has decoded, and the packets
  they came in are acknowledged: a reliable message can be lost that way.
- More entities than fit in a message make `Server::tick` return before it
  advances the clock, in every call.
- `net_id` is a position in the iteration order of a `HashMap`, not stable as
  `docs/ARCHITECTURE.md` section 4 has it; the session survives because a change in number
  forces a full snapshot.
- `cancel` of a slot whose entry is still queued fails it; a reload afterwards
  queues it again, and it is loaded twice, or its good version is lost.
- A decoder that panics leaves its slot in flight for good.

Video:

- `clear_pcm` on AudioEnded does not stop the decoder. If audio turns up after a gap of
  more than half a second, samples may be queued that are not counted; consuming
  them wraps `pcm_queued`, and the rest of that movie is silent.
- With a device, a file with fewer than `VIDEO_START_MIN_FRAMES` frames, or less
  audio than the prebuffer (none, say), never starts; only the space bar leaves it.
- `queued_frames` wraps when a frame is taken before it is counted. The only reader
  is the thread that counts it next.

Shell:

- Focus that goes while the console is open closes it and forgets the mouse; so
  does a reload of the map. Nothing gives mouse look back but the pause menu.
- Alt+Enter while the console slides away overrides the mode again, and the
  override stays on until the next console or focus change.
- Keys held when the last movie or a replay ends, or the focus goes, stay held in the game.
- A display setting changed during a hidden boot shows the window early. A
  windowed boot whose first render fails is not shown by the boot.
- A click that is served after the console opened or the focus went captures
  the mouse. Key repeats of the space bar skip several movies.
- In fly mode with a fixed step, a frame in which no step is due moves the
  camera for a whole frame all the same.
- A reload that fails after the mesh was uploaded leaves the new mesh with the
  old colliders.

Control plane:

- `record_stop` with a name that is not accepted, or a full disk, loses the
  recording. `exec`, `cfg_load` and Lua lines may name themselves; nothing
  bounds the recursion or the queue.

Content:

- The fingerprint of the index misses edits below the directory and within a
  second (`CHECKLIST_3`, line 202). An index file cut at the end of a line is
  accepted; one of another version makes `load_or_build` fail where it could
  build. `tools quake which` and `dupes` never compare fingerprints.
- Asset keys are lower-cased, the VFS is not: an upper-case file cannot be
  found by its key. The derived ids `quake1:bsp/<map>` resolve to a path no
  mount has. Mounts at points other than `raw/quake` are invisible to the
  resolver. `engine:config` has no user layer in the resolver, but one in the path policy.
- A config file whose name is not its own key, in upper case say, breaks the build, though
  `validate` passes. So does a level directory: `levels/Foo` is discovered and
  validated as `engine:level/foo`, which `content build` and `graph` then look for in `levels/foo`. If
  both are there the one that sorts last is validated, and gives the dependencies of the build;
  the other gives the hash and is the one probed; an override `Foo` likewise supersedes a shipped
  `foo`. One directory of a name no key can be made of ends `validate` and `build` for all.
- The stage's output is only checked for its existence.

Worlds and movement:

- `dev_test_map_reload` enters the map again from what is cached; a map whose
  first load failed stays failed until `dev_asset_reload` or a purge.
- `validate` of a collision world does not ask whether its nodes are reachable
  or without cycles. A cylinder with unequal scale exceeds its chunk's bounds; wall thickness of
  stairs and corridors is not checked.
- A trace into a missing clip node passes through while its point contents say
  solid. Traces may cut corners by `DIST_EPSILON`.
- The spawn point puts the origin on the floor, inside the hull's solid, and
  `try_unstuck` looks down first: over a thin floor the player starts below it.
- A jump that is pressed and released before landing is lost, which
  `current_checklist/golden_angle_arena_motor_spec_v1.md:156` has otherwise.
- Two formulas give the camera's height; turning fly mode on and off lifts the player
  by the capsule's offset, and the view jumps when the kind of step changes.

Launcher:

- A text that equals a key's name (a preset's argument, say) is read as that
  key after the next start. A save is in place: cut short it loads, partly as
  defaults and with one number perhaps shorter. Floats are kept to four decimals.
- Texts that begin with '-' are refused by the tools' parser. Half of a mount
  pair is dropped for `pallet`. An image together with the default map always fails,
  unwarned. `vfs stat` with nothing mounted is built although the tool refuses it.
- Statistics are found anew only if the number of log lines changes, which it
  does not in a full log or if as many come after a clear.
- A tool run that ends between two frames goes unnoticed by the manifest panel. A
  spawn that fails leaves the old exit status; a failed wait leaves the child
  behind.

## 6. Plan

### 6.1 Done, in this order

Jobs (everything else runs on it), the transport with its channel contract, the
session on top of it, the asset manager on top of the jobs, theorems about the
jobs, the transport and the assets, videos with their queue of samples and theorems about them; then the game's shell with its
theorems, the control plane and smoke runner, files, index and content tools, maps,
worlds and movement with a theorem about the player, the launcher; last the counters of the
video and theorems about files, index, builds and the launcher's lanes.

Runs that ask a question a larger one also answers were merged into it, and
runs that differ only in a parameter that does not change became one, with the
parameter a variable chosen in `Init`: `config` in `NetSession`, `mode` in `Jobs`,
`traffic` in `NetTransport`, `family` in `MCContentBuild` and `MCMapScene`.

### 6.2 Next

1. `AssetCell`, what a slot promises its reader (versions grow, the last good one
   stays), with `AssetManager` as its refinement.
2. A failing `poll` in `NetTransport`, as in `NetSession`; a transport whose
   packets have a lifetime, so that sequence numbers may wrap, and a client that
   restarts on its old address.
3. Text of the console: editing, history, selection, the log that scrolls.
4. `LoopbackNet` as an instance of `NetSession` without losses.

Theorems: the refinement of `AssetCell`.

### 6.3 Left out

- Byte encodings (`net_protocol`, PAK, BSP, LMP, TOML files): the models carry
  records. What a decoder makes of bytes is sequential code with unit tests.
- Geometry in floats: the horizontal half of the motors, slopes and the sliding down them that
  counts as grounded whatever the probe finds (`character_collision`, line 288), the physics
  library behind `move_shape`, bounding boxes of turned solids. The cooker and
  the traces are modelled over integers.
- Renderer, text overlay, widgets: calls of libraries with little state.
- The Lua runtime and the Theora decoder are external; so is the wording of clap's messages.
- Telemetry other than the job counters, logging, console texts.
- The registry behind `LoopbackTransport` addresses, and what dropping one does.
