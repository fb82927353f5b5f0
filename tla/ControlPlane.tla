---------------------------- MODULE ControlPlane ----------------------------
(***************************************************************************)
(* What a command line does: the cvar registry, the command registry with  *)
(* exec and dev_exec, and the pallet commands that keep state (settings,   *)
(* config profiles, captures, input traces, test map reloads, Lua).        *)
(*                                                                         *)
(* A command runs to its end on the main thread, so it is one operator on  *)
(* the host, the record of everything a command can reach; an error leaves *)
(* what was done before it.  A line is parsed: [op, arg, val], where op is *)
(* the kind of command and val the value it is given.  Quoting, usage      *)
(* errors and what is printed are left out; commands that only print are   *)
(* the op "print", and those that hand a job to the pool belong to Jobs.   *)
(***************************************************************************)
EXTENDS Integers, Sequences, FiniteSets, Functions, SequencesExt

CONSTANTS
  CvarDefs,    \* each cvar's default, bounds, kind and flags
  Scripts,     \* the config scripts exec finds, a sequence of lines each
  Shipped,     \* the profiles under the content root, a file each
  Profiles,    \* names of profiles
  LuaCommands, \* the Lua commands, with the lines each one enqueues
  GoodNames,   \* the trace names input_trace_path accepts
  NoFile,      \* a profile that is not there
  NoTrace,     \* no recorder, no playback, no trace on disk
  NaN,         \* the float that compares with nothing
  Junk,        \* a value that does not parse
  MaxDepth     \* bound: how deep exec and cfg_load may nest

Cvar == DOMAIN CvarDefs
Fields == {"ui_scale", "window_mode"}
MinUi == 1
MaxUi == 2

Ok(h) == [ok |-> TRUE, host |-> h]
Err(h) == [ok |-> FALSE, host |-> h]

-----------------------------------------------------------------------------
(* Cvars.                                                                   *)

\* A bound refuses what lies on its wrong side, so it lets NaN pass.
WithinBounds(d, v) == v = NaN \/ (~(v < d.min) /\ ~(v > d.max))
ParsesAs(d, v) == v /= Junk /\ (v = NaN => d.float)

Settable(c, v) ==
  /\ c \in Cvar
  /\ ParsesAs(CvarDefs[c], v)
  /\ ~CvarDefs[c].readOnly
  /\ WithinBounds(CvarDefs[c], v)

\* NaN differs from itself: setting it again makes the cvar dirty again.
Differs(v, w) == v /= w \/ v = NaN

Stored(h, c, v) ==
  IF Differs(h.cvars[c], v)
  THEN [h EXCEPT !.cvars[c] = v, !.dirty = @ \cup {c}]
  ELSE h

SetFromStr(c, v, h) == IF Settable(c, v) THEN Ok(Stored(h, c, v)) ELSE Err(h)

\* A cvar is registered once, with a default its bounds accept.
Registered(d) == WithinBounds(d, d.default) /\ ParsesAs(d, d.default)

\* Commands that set a cvar, some of a name of their own (one of each sort).
AliasOf == [dbg_overlay |-> "dbg_overlay", motor |-> "dev_motor"]
RunAlias(name, v, h) == SetFromStr(AliasOf[name], v, h)

\* perf_hud without an argument.
ToggleHud(h) == SetFromStr("dbg_perf_hud", 1 - h.cvars["dbg_perf_hud"], h)

Persistable == {c \in Cvar : ~CvarDefs[c].noPersist /\ ~CvarDefs[c].readOnly}

\* What the registry's watchers show: the overlay, the log level, the budget.
Watched(cvars) ==
  [overlay |-> cvars["dbg_overlay"] = 1 /\ cvars["dbg_perf_hud"] = 1,
   decode |-> cvars["asset_decode_budget_ms"]]

ApplyChanges(applied, h) ==
  [overlay |-> IF h.dirty \cap {"dbg_overlay", "dbg_perf_hud"} /= {}
               THEN Watched(h.cvars).overlay ELSE applied.overlay,
   decode |-> IF "asset_decode_budget_ms" \in h.dirty
              THEN Watched(h.cvars).decode ELSE applied.decode]

-----------------------------------------------------------------------------
(* Settings and profiles.  A profile's file maps the keys it has a line for *)
(* to their values and keeps its command lines.                             *)

DefaultSettings(profile) == [ui_scale |-> 1, window_mode |-> 0, profile |-> profile]

\* A value of a field as it is kept; window_mode has two, ui_scale is clamped.
FieldParses(f, v) == v /= Junk /\ (f = "window_mode" => v \in {0, 1})
Normalized(f, v) ==
  IF f = "window_mode" \/ v = NaN THEN v
  ELSE IF v < MinUi THEN MinUi ELSE IF v > MaxUi THEN MaxUi ELSE v

Marked(flags, display) == [settings |-> TRUE, display |-> flags.display \/ display]

SetField(f, v, h) ==
  LET kept == Normalized(f, v)
  IN IF f \notin Fields \/ ~FieldParses(f, v) THEN Err(h)
     ELSE IF kept = h.settings[f] THEN Ok(h)
     ELSE Ok([h EXCEPT !.settings[f] = kept, !.flags = Marked(@, f = "window_mode")])

ResetSettings(h) ==
  LET next == DefaultSettings(h.settings.profile)
  IN IF next = h.settings THEN Ok(h)
     ELSE Ok([h EXCEPT !.settings = next,
                       !.flags = Marked(@, next.window_mode /= h.settings.window_mode)])

SelectProfile(p, h) ==
  IF h.settings.profile = p THEN Ok(h)
  ELSE Ok([h EXCEPT !.settings.profile = p, !.flags = Marked(@, FALSE)])

\* settings_lines: the fields; the version and the name are not read back.
SettingsLines(s) == [f \in Fields |-> s[f]]

\* cfg_save: the file is written anew, its command lines are gone.
SaveProfile(p, h) ==
  IF h.diskFull THEN Err(h)
  ELSE Ok([h EXCEPT
         !.files[p] = [keys |-> SettingsLines(h.settings) @@ Restrict(h.cvars, Persistable),
                       cmds |-> <<>>],
         !.saved[p] = Restrict(h.cvars, Persistable)])

\* Mutant: the file is written anew.
WrittenAnew(file, s) == [keys |-> SettingsLines(s), cmds |-> <<>>]

\* merge_config_lines: the fields replace their lines, every other line stays.
Merged(file, s) ==
  IF file = NoFile THEN [keys |-> SettingsLines(s), cmds |-> <<>>]
  ELSE [file EXCEPT !.keys = SettingsLines(s) @@ @]

\* resolve_profile_path: the user's file, else the shipped one.
Resolved(p, h) == IF h.files[p] /= NoFile THEN h.files[p] ELSE Shipped[p]

StagedSettings(file, p, h) ==
  [f \in Fields |-> IF f \in DOMAIN file.keys /\ FieldParses(f, file.keys[f])
                    THEN Normalized(f, file.keys[f]) ELSE h.settings[f]]
  @@ [profile |-> p]

\* The registry's clone with every line that it takes.
Takes(file, c) == c \in DOMAIN file.keys /\ Settable(c, file.keys[c])
StagedCvars(file, h) ==
  [c \in Cvar |-> IF Takes(file, c) THEN file.keys[c] ELSE h.cvars[c]]
CleanClone(file, h) == h.dirty
StagedDirty(file, h) ==
  h.dirty \cup {c \in Cvar : Takes(file, c) /\ Differs(h.cvars[c], file.keys[c])}

-----------------------------------------------------------------------------
(* Captures, traces and reloads.                                            *)

QueueCapture(h) ==
  Ok([h EXCEPT !.captures = Append(@, h.tickets), !.tickets = @ + 1])

QueueReload(map, h) == Ok([h EXCEPT !.reloads = Append(@, map)])

StartRecord(name, h) ==
  IF h.playing /= NoTrace \/ h.recording /= NoTrace THEN Err(h)
  ELSE Ok([h EXCEPT !.recording = [name |-> name, frames |-> 0]])

\* The recorder is taken before its file is written.
StopRecord(h) ==
  LET gone == [h EXCEPT !.recording = NoTrace]
  IN IF h.recording = NoTrace THEN Err(h)
     ELSE IF h.recording.name \notin GoodNames \/ h.diskFull THEN Err(gone)
     ELSE Ok([gone EXCEPT !.traces[h.recording.name] = h.recording.frames])

StartReplay(name, h) ==
  IF \/ h.recording /= NoTrace
     \/ name \notin GoodNames
     \/ h.traces[name] \in {0, NoTrace} THEN Err(h)
  ELSE Ok([h EXCEPT !.playing = [name |-> name, frames |-> h.traces[name]]])

StopReplay(h) == Ok([h EXCEPT !.playing = NoTrace])

\* The fallback: a Lua command may queue lines for later.
RunLua(name, h) ==
  IF name \in DOMAIN LuaCommands THEN Ok([h EXCEPT !.lua = @ \o LuaCommands[name]])
  ELSE Err(h)

-----------------------------------------------------------------------------
(* Dispatch.                                                                *)

RECURSIVE Dispatch(_, _, _), RunLines(_, _, _, _)

\* exec stops at the first line that fails, dev_exec goes on; both succeed.
RunLines(lines, goesOn, h, depth) ==
  IF lines = <<>> THEN Ok(h)
  ELSE LET r == Dispatch(Head(lines), h, depth)
       IN IF r.ok \/ goesOn THEN RunLines(Tail(lines), goesOn, r.host, depth)
          ELSE Ok(r.host)

\* resolve_exec_source waits for the asset.
Loads(name, h) == name \in DOMAIN Scripts /\ ~h.assetsLate

Exec(name, goesOn, h, depth) ==
  IF ~Loads(name, h) THEN Err(h)
  ELSE IF depth = 0 THEN Err([h EXCEPT !.overflow = TRUE])
  ELSE RunLines(Scripts[name], goesOn, h, depth - 1)

\* cfg_load: assigns what was staged, then runs the command lines, whose
\* errors are warnings, then marks what the staged fields changed.
LoadProfile(p, h, depth) ==
  LET file == Resolved(p, h)
      staged == StagedSettings(file, p, h)
      committed == [h EXCEPT !.settings = staged,
                             !.cvars = StagedCvars(file, h),
                             !.dirty = StagedDirty(file, h)]
      done == RunLines(file.cmds, TRUE, committed, depth - 1).host
  IN IF file = NoFile THEN Err(h)
     ELSE IF depth = 0 THEN Err([h EXCEPT !.overflow = TRUE])
     ELSE IF staged = h.settings THEN Ok(done)
     ELSE Ok([done EXCEPT !.flags = Marked(@, staged.window_mode /= h.settings.window_mode)])

Dispatch(line, h, depth) ==
  CASE line.op = "blank"           -> Ok(h)
    [] line.op = "unterminated"    -> Err(h)
    [] line.op = "print"           -> Ok(h)
    [] line.op = "cvar_set"        -> SetFromStr(line.arg, line.val, h)
    [] line.op = "alias"           -> RunAlias(line.arg, line.val, h)
    [] line.op = "perf_hud"        -> ToggleHud(h)
    [] line.op = "exec"            -> Exec(line.arg, FALSE, h, depth)
    [] line.op = "dev_exec"        -> Exec(line.arg, TRUE, h, depth)
    [] line.op = "capture"         -> QueueCapture(h)
    [] line.op = "test_map_reload" -> QueueReload(line.arg, h)
    [] line.op = "record"          -> StartRecord(line.arg, h)
    [] line.op = "record_stop"     -> StopRecord(h)
    [] line.op = "replay"          -> StartReplay(line.arg, h)
    [] line.op = "replay_stop"     -> StopReplay(h)
    [] line.op = "settings_set"    -> SetField(line.arg, line.val, h)
    [] line.op = "settings_reset"  -> ResetSettings(h)
    [] line.op = "cfg_select"      -> SelectProfile(line.arg, h)
    [] line.op = "cfg_save"        -> SaveProfile(line.arg, h)
    [] line.op = "cfg_load"        -> LoadProfile(line.arg, h, depth)
    [] OTHER                       -> RunLua(line.arg, h)
=============================================================================
