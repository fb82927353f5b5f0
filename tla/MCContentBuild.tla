---------------------------- MODULE MCContentBuild ----------------------------
(* Small instances of ContentGraph and of the launcher that runs its tools, *)
(* in families of behaviours: the game running over the quake files, the   *)
(* quake index, the content tools; the runner GUI's settings, the lane of  *)
(* pallet and the lane of the tools.                                       *)
EXTENDS ContentGraph, RunnerCommands, RunnerGui

VARIABLE family

e1 == <<"maps", "e1">>
E1 == <<"maps", "E1">>
pic == <<"pic">>

MCPakOrder == <<"pak1", "pak0">>
MCNames == [base |-> <<E1, e1, pic>>, mod |-> << <<"quake">> \o e1 >>]
MCContents == {1, 2}
MCLower == [c \in {"raw", "maps", "e1", "E1", "pic", "quake"} |-> IF c = "E1" THEN "e1" ELSE c]
MCKeyOrder == <<e1, pic>>
MCVPaths == {VRoot \o e1, VRoot \o E1, VRoot \o pic}

One(n, d) == <<[name |-> n, data |-> d]>>
MCPackings ==
    [pak1 |-> {One(e1, 1), One(pic, 1) \o One(pic, 2)},
     pak0 |-> {One(E1, 2) \o One(e1, 1), One(pic, 2)},
     zip |-> {One(e1, 1) \o One(e1, 2), One(<<"e1">>, 2)}]

Dir(point, s) == [point |-> point, kind |-> "dir", src |-> s]
Pk3(point) == [point |-> point, kind |-> "pk3", src |-> "zip"]
MCCommandLines == { <<>>, <<Dir(<<"raw">>, "mod")>>,
                    <<Pk3(VRoot)>>, <<Pk3(VRoot \o <<"maps">>), Dir(<<"raw">>, "mod")>> }

Absent == [there |-> FALSE, ok |-> TRUE, files |-> <<>>]
Holding(fs) == [there |-> TRUE, ok |-> TRUE, files |-> fs]
MCDisks ==
    {[base |-> Holding(One(e1, 1)), mod |-> Holding(One(<<"quake">> \o e1, 1)),
      pak1 |-> Holding(One(pic, 1) \o One(pic, 2)), pak0 |-> Holding(One(E1, 2) \o One(e1, 1)),
      zip |-> Holding(One(e1, 1) \o One(e1, 2))]}

MCMapOf == [m \in {"m-e1", "m-pic"} |-> IF m = "m-e1" THEN e1 ELSE pic]
MCLevels == <<"l1", "l2">>
MCLevelNames == <<"L1", "l1", "l2", "l~">>
MCFiles == {"cfg", "Cfg", "c~", "tex"}
MCConfigs == {"cfg", "Cfg", "c~"}
MCKeyOf == [n \in MCFiles \cup ToSet(MCLevelNames) |->
               CASE n = "Cfg" -> "cfg" [] n = "L1" -> "l1" [] n \in {"c~", "l~"} -> "bad"
                 [] OTHER -> n]
Level(geometry, deps) == [is |-> "ok", geometry |-> geometry, deps |-> deps]
MCManifests == { Level({"m-e1"}, {"l1"}), Level({}, {"l2", "tex"}),
                 [NoLevel EXCEPT !.is = "bad"] }
NoFiles == [f \in MCFiles |-> 0]
NoLevels == [n \in ToSet(MCLevelNames) |-> NoLevel]
EmptyTree ==
    [levels |-> [dev |-> NoLevels, shipped |-> NoLevels],
     files |-> [dev |-> NoFiles, shipped |-> NoFiles]]
MCTrees ==
    { EmptyTree,
      [levels |-> [dev |-> NoLevels,
                   shipped |-> [NoLevels EXCEPT !["l1"] = Level({"m-e1"}, {"l2"}),
                                                !["l2"] = Level({}, {"tex"})]],
       files |-> [dev |-> NoFiles, shipped |-> [NoFiles EXCEPT !["tex"] = 1, !["cfg"] = 1]]] }
MCLevelEdits ==
    {<<"shipped", "l1">>, <<"dev", "l2">>, <<"dev", "L1">>, <<"shipped", "l~">>}
MCFileEdits == {<<"dev", "cfg">>, <<"shipped", "Cfg">>, <<"shipped", "c~">>}

(* The tools start from one disk; the paks are edited in one family, the   *)
(* engine's content in the other.                                          *)
ToolsDisk ==
    [base |-> Holding(<<>>), mod |-> Holding(<<>>), pak1 |-> Absent,
     pak0 |-> Holding(One(e1, 2)), zip |-> Absent]
(* The launcher is looked at beside an empty repository. *)
EmptyDisk ==
    [base |-> Absent, mod |-> Absent, pak1 |-> Absent, pak0 |-> Absent, zip |-> Absent]
AllDisks == MCDisks \cup {ToolsDisk, EmptyDisk}

-----------------------------------------------------------------------------
(* The launcher.                                                            *)

MCNumbers == {"0", "1", "2", "16", "12", "120", "0.02", "0.0", "-0", "-0.5", "0.00004"}
MCShorter == [n \in MCNumbers |->
    CASE n = "16" -> {"1"} [] n = "12" -> {"1"} [] n = "120" -> {"1", "12"}
      [] n = "0.02" -> {"0", "0.0"} [] n = "-0.5" -> {"-0"} [] OTHER -> {}]
MCRounded == [n \in MCNumbers |-> IF n = "0.00004" THEN "0" ELSE n]
Paths == {"raw/q", "mod", "-m", " ", ""}
Words == {" e1 ", "", "movie", "map", "client_ticks", "play_movie"}
Addresses == {"0.0.0.0:40000", "0.0.0.0:0", "127.0.0.1:40000", "[::1]:9"}
Kept == {f.default.text : f \in ToSet(Layout)} \cup {"/repo", "x", "e1", "tex.png", "full"}
MCTexts == Paths \cup Words \cup Addresses \cup Kept \cup MCNumbers \cup
    {"quake", "no-assets", "Video Debug", "Intro Playlist + E1M1", "Shots"}
MCTrim == [t \in MCTexts |-> CASE t = " e1 " -> "e1" [] t = " " -> "" [] OTHER -> t]
MCTyped ==
    [k \in Scalars \ {"version", "repo_root"} |->
       CASE k = "debug_preset" -> {"Default", "Video Debug", "Intro Playlist + E1M1"}
         [] k = "smoke_mode" -> SmokeModes
         [] k = "smoke_ticks" -> {"0", "12", " ", "x"}
         [] k = "server_max_ticks" -> {"", "120"}
         [] k = "map" -> {" e1 ", "", "map"}
         [] k = "quake_dir" -> {" ", "-m", "client_ticks", "play_movie"}
         [] k = "show_image" -> {"tex.png", "play_movie"}
         [] k = "vfs_vpath" -> {"mod", "-m"}
         [] k \in {"server_bind", "client_bind", "client_server"} -> {" ", "x", "[::1]:9"}
         [] FieldOf[k].kind \in {"text", "opt"} -> {"mod", " "}
         [] FieldOf[k].kind = "bool" -> {"true", "false"}
         [] FieldOf[k].kind = "num" -> {"2"}
         [] FieldOf[k].kind = "float" -> {"-0.5", "0.00004"}]
Filled ==
    [of |-> [k \in Scalars |->
        CASE k = "version" -> Num("1") [] k = "repo_root" -> Str("/repo")
          [] k = "debug_preset" -> Str("Shots")
          [] FieldOf[k].kind = "opt" -> Str("full") [] FieldOf[k].kind = "text" -> Str("full")
          [] FieldOf[k].kind = "bool" -> Lit("true")
          [] FieldOf[k].kind = "float" -> Num("0.02")
          [] OTHER -> Num("120")],
     presets |-> <<Preset("Other", <<"--input-script">>, << <<"A", "1">>, <<"B", "2">> >>),
                   Preset("Shots", <<"--dev-motor", "2", "--mount-dir", "raw/q", "mod">>, <<>>)>>]
MCOldFiles ==
    { Default, Filled,
      [Filled EXCEPT !.of["show_image"] = Null, !.of["play_movie"] = Null],
      [Default EXCEPT !.of["version"] = Num("2"), !.of["map"] = Str("x")],
      [Filled EXCEPT !.presets = <<>>, !.of["client_id"] = Num("0")],
      [Filled EXCEPT !.presets[2].args = <<"show_image">>],
      [Filled EXCEPT !.presets[2].args = <<"--gtimeout-ms", "120">>, !.presets[1].name = "env"] }
MCReadable ==
    [f \in {"--bind", "--server", "--gtimeout-ms", "--dev-motor"} |->
       CASE f \in {"--bind", "--server"} -> Addresses
         [] f = "--gtimeout-ms" -> {"1", "12", "120"} [] OTHER -> {"1", "2"}]
MCDashed == {"-m", "-0.5", "-0"} \cup DOMAIN PalletFlags \cup DOMAIN ToolFlags
MCLevelFiles == <<"l1", "l2">>

Printing(out, err) == [stdout |-> out, stderr |-> err]
MCJobs == [pallet |-> {"play", "peek"}, tools |-> {"build", "clean", "smoke"}]
MCPrints ==
    [play |-> Printing(<<"asset stats:", "entries:">>, <<"x">>),
     peek |-> Printing(<<"asset stats:">>, <<>>),
     build |-> Printing(<<>>, <<>>), clean |-> Printing(<<>>, <<>>), smoke |-> Printing(<<>>, <<>>)]

LauncherVars == <<fvars, gvars>>
NoConfig ==
    /\ kept = Default /\ file = <<>> /\ cut = FALSE
    /\ conf = Default /\ up = TRUE /\ changes = MaxChanges
LanesInit == GuiInit /\ gui.root = "a"

\* Pallet is played, and then looked at once more, in its own tab.
PalletLaneNext ==
    /\ GuiNext
    /\ \A r \in DOMAIN procs' : procs'[r].job = <<"play", "peek">>[r]
    /\ gui'.tab = "pallet" /\ gui'.root = "a" /\ refusals' = 0
ToolsLaneNext ==
    /\ GuiNext
    /\ \A r \in DOMAIN procs' : procs'[r].job = <<"build", "clean">>[r]
    /\ clears' = 0 /\ Len(gui'.lanes["tools"].logs) <= 1

-----------------------------------------------------------------------------
MCInit ==
    /\ family \in {"game", "index", "content", "settings", "pallet", "tools"}
    /\ BuildInit
    /\ disk \in CASE family = "game" -> MCDisks
                  [] family \in {"index", "content"} -> {ToolsDisk}
                  [] OTHER -> {EmptyDisk}
    /\ levels.shipped = NoLevels <=> family \notin {"index", "content"}
    /\ IF family = "settings" THEN ConfigInit ELSE NoConfig
    /\ LanesInit

GameNext == QuakeNext /\ UNCHANGED bvars
IndexNext ==
    \/ /\ \/ Repack("pak1", One(e1, 1))
          \/ Damage("pak0")
          \/ Tick
       /\ UNCHANGED bvars
    \/ ToolIndexStep
    \/ BuildSteps
    \/ ContentClean
(* What a name that is no key holds makes no difference.                   *)
ContentNext ==
    \/ EditLevel /\ levels'.shipped["l~"].is # "ok"
    \/ EditFile /\ files'.shipped["c~"] # 2 /\ files'.shipped["Cfg"] # 2
    \/ BuildSteps

MCNext ==
    /\ UNCHANGED family
    /\ \/ /\ UNCHANGED LauncherVars
          /\ \/ family = "game" /\ GameNext
             \/ family = "index" /\ IndexNext
             \/ family = "content" /\ ContentNext
       \/ family = "settings" /\ ConfigNext /\ UNCHANGED <<vars, gvars>>
       \/ family = "pallet" /\ PalletLaneNext /\ UNCHANGED <<vars, fvars>>
       \/ family = "tools" /\ ToolsLaneNext /\ UNCHANGED <<vars, fvars>>
MCSpec == MCInit /\ [][MCNext]_<<family, vars, LauncherVars>>
=============================================================================
