--------------------------- MODULE MCCommandLoop ----------------------------
(* Instances of CommandLoop for TLC.                                       *)
EXTENDS CommandLoop

L(op, arg, val) == [op |-> op, arg |-> arg, val |-> val]
Def(default, max, readOnly, noPersist) ==
  [default |-> default, min |-> 0, max |-> max, float |-> FALSE,
   readOnly |-> readOnly, noPersist |-> noPersist]

Cvars == "dbg_overlay" :> Def(1, 1, FALSE, FALSE)
         @@ "dbg_perf_hud" :> Def(0, 1, FALSE, FALSE)
         @@ "asset_decode_budget_ms" :> Def(1, 2, FALSE, FALSE)
         @@ "dev_motor" :> [Def(1, 2, FALSE, TRUE) EXCEPT !.min = 1]
         @@ "arena_air_accel" :> [Def(1, 9, FALSE, FALSE) EXCEPT !.float = TRUE]

File(keys, cmds) == [keys |-> keys, cmds |-> cmds]

Hud(v) == L("cvar_set", "dbg_perf_hud", v)
Capture == L("capture", "", 0)
Sleep(d) == L("sleep_ms", "", d)
Exec1(op, name) == L(op, name, 0)

McScripts ==
  "tour" :> <<Hud(1), L("blank", "", 0), L("other", "ghost", 0), Hud(0)>>
  @@ "shots" :> <<Capture, L("record", "a", 0), L("unterminated", "", 0)>>
  @@ "nest" :> <<Exec1("dev_exec", "tour"), L("cfg_load", "b", 0)>>

McShipped == "config" :> File("dbg_perf_hud" :> 0, <<>>)
             @@ "b" :> File(("ui_scale" :> 3) @@ ("asset_decode_budget_ms" :> 2) @@ ("dbg_overlay" :> Junk),
                            <<Exec1("exec", "shots")>>)
McProfiles == {"config", "b"}
McLua == "hook" :> <<Capture, L("test_map_reload", "m1", 0)>>

NoFiles == [p \in McProfiles |-> NoFile]
NoTraces == [n \in {"a", "bad name"} |-> NoTrace]

\* A user at the console, without a smoke script.
ConsoleLines ==
  {L("alias", "dbg_overlay", 0), L("alias", "motor", 3), L("perf_hud", "", 0),
   Exec1("exec", "nest"), L("settings_reset", "", 0), L("replay_stop", "", 0),
   L("cvar_set", "arena_air_accel", NaN),
   L("settings_set", "window_mode", 1), L("cfg_save", "b", 0), L("cfg_select", "b", 0),
   L("cfg_load", "b", 0), L("record", "a", 0), L("record_stop", "", 0),
   L("replay", "a", 0), L("other", "hook", 0)}
HookOnly == {L("other", "hook", 0)}
Bare == {<<>>}
\* A script whose own captures come between nested ones, and one that
\* changes and saves settings.
ShotScript == <<L("ttimeout_ms", "", 2), Exec1("exec", "shots"), Capture,
                Sleep(1), L("replay", "a", 0)>>
SetScript == <<L("settings_set", "window_mode", 1), L("cfg_load", "b", 0), Hud(1),
               L("cfg_save", "config", 0), Sleep(4), L("other", "ghost", 0)>>
BadScript == <<L("blank", "", 0), L("unterminated", "", 0)>>
McSmoke == {<<>>, ShotScript, SetScript, BadScript}
ConsoleFiles == {NoFiles}
ConsoleTraces == {[NoTraces EXCEPT !["a"] = 1]}
OneFrame == {1}
=============================================================================
