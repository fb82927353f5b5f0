---------------------------- MODULE RunnerCommands ----------------------------
(***************************************************************************)
(* The commands the runner GUI builds from its panel, and how the programs *)
(* they start read them: pallet, the dedicated server and the headless     *)
(* client with a loop over their arguments, the tools with clap.           *)
(*                                                                         *)
(* Left out: cargo's own arguments, the environment, the working directory *)
(* and the printed copy of pallet's command.                               *)
(***************************************************************************)
EXTENDS RunnerConfig

CONSTANTS
    Readable,    \* [flag whose value is parsed -> the texts that can be]
    Dashed,      \* the texts that begin with '-'
    LevelFiles   \* the level.toml files under content/, sorted

-----------------------------------------------------------------------------
(* Building.                                                                *)

Is(c, k) == c.of[k] = Lit("true")
\* A field without the blanks around it; "" also for one that is not set.
Said(c, k) == IF c.of[k] = Null THEN "" ELSE Trim[c.of[k].text]
Count(c, k) == AtLeastOne(c.of[k]).text
Float(c, k) == FormatFloat(c.of[k]).text
Whole(c, k) == IF c.of[k] = Null THEN "" ELSE c.of[k].text

Arg(flag, t) == IF t = "" THEN <<>> ELSE <<flag, t>>
\* Mutant: the two halves of a mount change places.
PairSwapped(flag, vroot, path) ==
    IF vroot = "" \/ path = "" THEN <<>> ELSE <<flag, path, vroot>>

PairArgs(flag, vroot, path) ==
    IF vroot = "" \/ path = "" THEN <<>> ELSE <<flag, vroot, path>>
When(condition, args) == IF condition THEN args ELSE <<>>

Kinds == <<"dir", "pak", "pk3">>
MountKind(kind) == "--mount-" \o kind
Vroot(fields, kind) == fields \o "_" \o kind \o "_vroot"
Path(fields, kind) == fields \o "_" \o kind \o "_path"
MountArgs(c, fields) ==
    FlattenSeq([i \in DOMAIN Kinds |->
        PairArgs(MountKind(Kinds[i]), Said(c, Vroot(fields, Kinds[i])), Said(c, Path(fields, Kinds[i])))])
HalfPair(c, fields, kind) == (Said(c, Vroot(fields, kind)) = "") /= (Said(c, Path(fields, kind)) = "")
HalfPairs(c, fields) == \E kind \in ToSet(Kinds) : HalfPair(c, fields, kind)

PresetArgs(c) ==
    LET named == {i \in DOMAIN c.presets : c.presets[i].name = c.of["debug_preset"].text}
    IN IF named = {} THEN <<>>
       ELSE c.presets[CHOOSE i \in named : \A j \in named : i <= j].args

PanelArgs(c) ==
    Arg("--quake-dir", Said(c, "quake_dir")) \o Arg("--map", Said(c, "map")) \o
    When(Is(c, "playlist_enabled"), Arg("--playlist", Said(c, "playlist_path"))) \o
    Arg("--show-image", Said(c, "show_image")) \o Arg("--play-movie", Said(c, "play_movie")) \o
    Arg("--script", Said(c, "script_path")) \o Arg("--mount-manifest", Said(c, "mount_manifest")) \o
    MountArgs(c, "pallet_mount") \o When(Is(c, "input_script"), <<"--input-script">>)
PalletArgs(c) == PanelArgs(c) \o PresetArgs(c)

\* Whether pallet_warnings says more than that a path is not there.
PalletWarns(c) ==
    \/ Said(c, "quake_dir") = ""
    \/ Is(c, "playlist_enabled") /\ Said(c, "playlist_path") = ""
    \/ HalfPairs(c, "pallet_mount")

Refused == [ok |-> FALSE, args |-> <<>>]
Command(args) == [ok |-> TRUE, args |-> args]
Unless(condition, args) == IF condition THEN Refused ELSE Command(args)

SmokeModes == {"no-assets", "quake"}
SmokeMode(c) == IF c.of["smoke_mode"].text \in SmokeModes THEN c.of["smoke_mode"].text ELSE "no-assets"
SmokeCommand(c) ==
    LET quake == SmokeMode(c) = "quake"
    IN Unless(quake /\ (Said(c, "quake_dir") = "" \/ Said(c, "map") = ""),
              <<"smoke", "--mode", SmokeMode(c)>> \o Arg("--ticks", Whole(c, "smoke_ticks")) \o
              When(quake, Arg("--quake-dir", Said(c, "quake_dir")) \o Arg("--map", Said(c, "map"))) \o
              When(Is(c, "smoke_headless"), <<"--headless">>))
PakListCommand(c) ==
    Unless(Said(c, "quake_dir") = "", <<"pak", "list">> \o Arg("--quake-dir", Said(c, "quake_dir")))
PakExtractCommand(c) ==
    Unless(Said(c, "quake_dir") = "" \/ Said(c, "pak_out_dir") = "",
           <<"pak", "extract">> \o Arg("--quake-dir", Said(c, "quake_dir")) \o
           Arg("--out", Said(c, "pak_out_dir")))
VfsStatCommand(c) ==
    Unless(\/ Said(c, "vfs_vpath") = ""
           \/ Is(c, "vfs_use_quake_dir") /\ Said(c, "quake_dir") = ""
           \/ HalfPairs(c, "vfs_mount"),
           <<"vfs", "stat">> \o
           When(Is(c, "vfs_use_quake_dir"), Arg("--quake-dir", Said(c, "quake_dir"))) \o
           Arg("--mount-manifest", Said(c, "vfs_mount_manifest")) \o
           MountArgs(c, "vfs_mount") \o <<Said(c, "vfs_vpath")>>)
ContentCommand(c, what) ==
    Command(<<"content">> \o Arg("--quake-dir", Said(c, "quake_dir")) \o
            Arg("--mount-manifest", Said(c, "mount_manifest")) \o <<what>>)
LintCommand(c) ==
    Unless(LevelFiles = <<>>,
           ContentCommand(c, "lint-ids").args \o
           FlattenSeq([i \in DOMAIN LevelFiles |-> <<"--file", LevelFiles[i]>>]))
QuakeIndexCommand(c) ==
    Unless(Said(c, "quake_dir") = "", <<"quake", "index">> \o Arg("--quake-dir", Said(c, "quake_dir")))

ServerCommand(c) ==
    Unless(Said(c, "server_bind") = "",
           <<"--bind", Said(c, "server_bind"), "--tick-ms", Count(c, "server_tick_ms"),
             "--snapshot-stride", Count(c, "server_snapshot_stride")>> \o
           When(c.of["server_max_ticks"] /= Null, <<"--max-ticks", Count(c, "server_max_ticks")>>))
ClientCommand(c) ==
    Unless(Said(c, "client_bind") = "" \/ Said(c, "client_server") = "",
           <<"--bind", Said(c, "client_bind"), "--server", Said(c, "client_server"),
             "--tick-ms", Count(c, "client_tick_ms"), "--ticks", Count(c, "client_ticks"),
             "--client-id", Count(c, "client_id")>> \o
           When(Is(c, "client_move_enabled"),
                <<"--move-x", Float(c, "client_move_x"), "--move-y", Float(c, "client_move_y"),
                  "--yaw-step", Float(c, "client_yaw_step")>>))

-----------------------------------------------------------------------------
(* Reading.  A reading is [ok, said, words]: what each flag was given, in   *)
(* its order, and the words that belong to no flag.                         *)

NothingSaid(flags) == [ok |-> TRUE, said |-> [f \in DOMAIN flags |-> <<>>], words |-> <<>>]
Unread(flags) == [NothingSaid(flags) EXCEPT !.ok = FALSE]
CanRead(flag, values) == flag \in DOMAIN Readable => \A v \in ToSet(values) : v \in Readable[flag]

\* The loop of parse_args: flags says how many values each flag takes, and
\* a value is whatever stands there.
RECURSIVE Loop(_, _, _)
Loop(flags, args, r) ==
    IF args = <<>> THEN r
    ELSE IF Head(args) \notin DOMAIN flags \/ Len(args) <= flags[Head(args)] THEN Unread(flags)
    ELSE LET n == flags[Head(args)]
             values == SubSeq(args, 2, n + 1)
         IN IF CanRead(Head(args), values)
            THEN Loop(flags, SubSeq(args, n + 2, Len(args)),
                      [r EXCEPT !.said[Head(args)] = Append(@, values)])
            ELSE Unread(flags)

PalletFlags ==
    [f \in {"--quake-dir", "--content-root", "--dev-root", "--config-root", "--mount-dir",
            "--mount-pak", "--mount-pk3", "--mount-manifest", "--show-image", "--map",
            "--play-movie", "--playlist", "--script", "--input-script", "--smoke",
            "--gtimeout-ms", "--ui-regression-shot", "--ui-regression-res",
            "--ui-regression-dpi", "--ui-regression-ui-scale", "--ui-regression-screen",
            "--debug-resolution", "--dev-motor"} |->
        CASE f \in {"--input-script", "--debug-resolution"} -> 0
          [] f \in {"--mount-dir", "--mount-pak", "--mount-pk3"} -> 2
          [] OTHER -> 1]
Given(r, f) == r.said[f] /= <<>>
Regression == {"--ui-regression-" \o w : w \in {"shot", "res", "dpi", "ui-scale", "screen"}}
OtherModes == {"--show-image", "--map", "--play-movie", "--playlist", "--script", "--input-script", "--smoke"}

\* The pairs of sources of pallet's first picture that exclude each other.
Exclusive == {{"--show-image", "--map"}, {"--play-movie", "--playlist"},
              {"--play-movie", "--show-image"}, {"--playlist", "--show-image"}}
Clashes(r) ==
    \/ \E both \in Exclusive : \A f \in both : Given(r, f)
    \/ /\ \E f \in Regression : Given(r, f)
       /\ \/ \E f \in Regression \ {"--ui-regression-screen"} : ~Given(r, f)
          \/ \E f \in OtherModes : Given(r, f)
    \/ Given(r, "--gtimeout-ms") /\ ~Given(r, "--smoke")
    \/ Given(r, "--smoke") /\ Given(r, "--input-script")
PalletReads(args) ==
    LET r == Loop(PalletFlags, args, NothingSaid(PalletFlags))
    IN IF r.ok /\ Clashes(r) THEN Unread(PalletFlags) ELSE r

ServerFlags == [f \in {"--bind", "--tick-ms", "--snapshot-stride", "--max-ticks"} |-> 1]
ServerReads(args) == Loop(ServerFlags, args, NothingSaid(ServerFlags))
ClientFlags == [f \in {"--bind", "--server", "--tick-ms", "--ticks", "--client-id",
                       "--move-x", "--move-y", "--yaw-step"} |-> 1]
ClientReads(args) == Loop(ClientFlags, args, NothingSaid(ClientFlags))

\* clap: a value does not begin with '-', and what is no flag is a word.
RECURSIVE Clap(_, _, _)
Clap(flags, args, r) ==
    IF args = <<>> THEN r
    ELSE IF Head(args) \notin DOMAIN flags
    THEN IF Head(args) \in Dashed THEN Unread(flags)
         ELSE Clap(flags, Tail(args), [r EXCEPT !.words = Append(@, Head(args))])
    ELSE LET n == flags[Head(args)]
             values == SubSeq(args, 2, n + 1)
         IN IF Len(args) <= n \/ ToSet(values) \cap Dashed /= {} \/ ~CanRead(Head(args), values)
            THEN Unread(flags)
            ELSE Clap(flags, SubSeq(args, n + 2, Len(args)),
                      [r EXCEPT !.said[Head(args)] = Append(@, values)])

ToolFlags ==
    [f \in {"--mode", "--ticks", "--quake-dir", "--map", "--headless", "--out", "--mount-dir",
            "--mount-pak", "--mount-pk3", "--mount-manifest", "--file"} |->
        CASE f = "--headless" -> 0
          [] f \in {"--mount-dir", "--mount-pak", "--mount-pk3"} -> 2
          [] OTHER -> 1]
Repeatable == {"--mount-dir", "--mount-pak", "--mount-pk3", "--mount-manifest", "--file"}
Subcommand(needs, takes, values) == [needs |-> needs, takes |-> needs \cup takes, values |-> values]
InContent(takes) == Subcommand({}, {"--quake-dir", "--mount-manifest"} \cup takes, 0)
\* Each subcommand's flags, and how many values it takes after them.
Subcommands ==
    (<<"smoke">> :> Subcommand({"--mode"}, {"--ticks", "--quake-dir", "--map", "--headless"}, 0)) @@
    (<<"pak", "list">> :> Subcommand({"--quake-dir"}, {}, 0)) @@
    (<<"pak", "extract">> :> Subcommand({"--quake-dir", "--out"}, {}, 0)) @@
    (<<"vfs", "stat">> :> Subcommand({}, {"--quake-dir", "--mount-dir", "--mount-pak",
                                          "--mount-pk3", "--mount-manifest"}, 1)) @@
    (<<"quake", "index">> :> Subcommand({"--quake-dir"}, {"--out"}, 0)) @@
    (<<"content", "lint-ids">> :> InContent({"--file"})) @@
    (<<"content", "validate">> :> InContent({})) @@ (<<"content", "build">> :> InContent({})) @@
    (<<"content", "clean">> :> InContent({})) @@ (<<"content", "doctor">> :> InContent({}))
ToolsRead(args) ==
    LET r == Clap(ToolFlags, args, NothingSaid(ToolFlags))
        fits == {s \in DOMAIN Subcommands :
                    /\ Len(r.words) = Len(s) + Subcommands[s].values /\ IsPrefix(s, r.words)
                    /\ \A f \in Subcommands[s].needs : Given(r, f)
                    /\ \A f \in DOMAIN ToolFlags : Given(r, f) =>
                         f \in Subcommands[s].takes /\ (f \in Repeatable \/ Len(r.said[f]) = 1)}
    IN IF fits = {} THEN Unread(ToolFlags) ELSE r

\* What the tools find missing only when they run: EXIT_USAGE.
Unusable(r) ==
    \/ /\ r.words = <<"smoke">> /\ r.said["--mode"] = << <<"quake">> >>
       /\ \E f \in {"--quake-dir", "--map"} : ~Given(r, f)
    \/ /\ IsPrefix(<<"vfs", "stat">>, r.words)
       /\ \A f \in {"--quake-dir", "--mount-dir", "--mount-pak", "--mount-pk3", "--mount-manifest"} : ~Given(r, f)

-----------------------------------------------------------------------------
(* What the panel shows for a program: the field, or the two fields, behind *)
(* each of its flags, while they are set.                                   *)

Shows(flags, flag, texts) ==
    [f \in DOMAIN flags |-> IF f = flag /\ "" \notin ToSet(texts) THEN <<texts>> ELSE <<>>]
Ticked(flags, flag, condition) ==
    [f \in DOMAIN flags |-> IF f = flag /\ condition THEN << <<>> >> ELSE <<>>]
Together(shown) == [f \in DOMAIN shown[1] |-> FlattenSeq([i \in DOMAIN shown |-> shown[i][f]])]
ShowsMount(c, flags, fields, kind) ==
    Shows(flags, MountKind(kind), <<Said(c, Vroot(fields, kind)), Said(c, Path(fields, kind))>>)
Texted(c, flags, flag, k) == Shows(flags, flag, <<Said(c, k)>>)

PalletShown(c) ==
    Together(<< Texted(c, PalletFlags, "--map", "map"), Texted(c, PalletFlags, "--quake-dir", "quake_dir"),
                Texted(c, PalletFlags, "--show-image", "show_image"),
                Texted(c, PalletFlags, "--play-movie", "play_movie"),
                Texted(c, PalletFlags, "--script", "script_path"),
                Texted(c, PalletFlags, "--mount-manifest", "mount_manifest"),
                Shows(PalletFlags, "--playlist",
                      <<IF Is(c, "playlist_enabled") THEN Said(c, "playlist_path") ELSE "">>),
                ShowsMount(c, PalletFlags, "pallet_mount", "dir"),
                ShowsMount(c, PalletFlags, "pallet_mount", "pak"),
                ShowsMount(c, PalletFlags, "pallet_mount", "pk3"),
                Ticked(PalletFlags, "--input-script", Is(c, "input_script")) >>)
ServerShown(c) ==
    Together(<< Texted(c, ServerFlags, "--bind", "server_bind"),
                Texted(c, ServerFlags, "--tick-ms", "server_tick_ms"),
                Texted(c, ServerFlags, "--snapshot-stride", "server_snapshot_stride"),
                Texted(c, ServerFlags, "--max-ticks", "server_max_ticks") >>)
Moved(c, flag, k) ==
    Shows(ClientFlags, flag, <<IF Is(c, "client_move_enabled") THEN Float(c, k) ELSE "">>)
ClientShown(c) ==
    Together(<< Texted(c, ClientFlags, "--bind", "client_bind"),
                Texted(c, ClientFlags, "--server", "client_server"),
                Texted(c, ClientFlags, "--tick-ms", "client_tick_ms"),
                Texted(c, ClientFlags, "--ticks", "client_ticks"),
                Texted(c, ClientFlags, "--client-id", "client_id"),
                Moved(c, "--move-x", "client_move_x"), Moved(c, "--move-y", "client_move_y"),
                Moved(c, "--yaw-step", "client_yaw_step") >>)
VfsShown(c) ==
    Together(<< Shows(ToolFlags, "--quake-dir",
                      <<IF Is(c, "vfs_use_quake_dir") THEN Said(c, "quake_dir") ELSE "">>),
                Texted(c, ToolFlags, "--mount-manifest", "vfs_mount_manifest"),
                ShowsMount(c, ToolFlags, "vfs_mount", "dir"),
                ShowsMount(c, ToolFlags, "vfs_mount", "pak"),
                ShowsMount(c, ToolFlags, "vfs_mount", "pk3") >>)

\* Pallet is told what the panel shows and then what the preset adds, in
\* this order for every flag, or refuses what its own rules exclude; a field
\* that is filled in and not passed on is warned about.
PalletTold(c) ==
    LET told == PalletReads(PalletArgs(c))
        panel == [ok |-> TRUE, said |-> PalletShown(c), words |-> <<>>]
        preset == Loop(PalletFlags, PresetArgs(c), NothingSaid(PalletFlags))
        both == [panel EXCEPT !.said = [f \in DOMAIN PalletFlags |-> panel.said[f] \o preset.said[f]]]
    IN /\ told = IF preset.ok /\ ~Clashes(both) THEN both ELSE Unread(PalletFlags)
       /\ \A kind \in ToSet(Kinds) : HalfPair(c, "pallet_mount", kind) => PalletWarns(c)

\* The server and the client are told what the panel shows, and refuse it
\* for an address they cannot read.
NetTold(c) ==
    LET server == ServerCommand(c)
        client == ClientCommand(c)
        reachable == Said(c, "client_bind") \in Readable["--bind"]
                       /\ Said(c, "client_server") \in Readable["--server"]
    IN /\ server.ok =>
            ServerReads(server.args) =
              IF Said(c, "server_bind") \in Readable["--bind"]
              THEN [ok |-> TRUE, said |-> ServerShown(c), words |-> <<>>]
              ELSE Unread(ServerFlags)
       /\ client.ok =>
            ClientReads(client.args) =
              IF reachable THEN [ok |-> TRUE, said |-> ClientShown(c), words |-> <<>>]
              ELSE Unread(ClientFlags)

\* Every tool the GUI does not refuse to start reads its command, unless a
\* text begins with '-', and has what it needs, but for a file looked up
\* with nothing mounted.
ToolCommands(c) ==
    {SmokeCommand(c), PakListCommand(c), PakExtractCommand(c), VfsStatCommand(c), LintCommand(c),
     QuakeIndexCommand(c)} \cup {ContentCommand(c, w) : w \in {"validate", "build", "clean", "doctor"}}
NothingMounted(c) == \A f \in DOMAIN ToolFlags : VfsShown(c)[f] = <<>>
ToolsTold(c) ==
    /\ \A command \in ToolCommands(c) :
         command.ok /\ Dashed \cap (ToSet(command.args) \ DOMAIN ToolFlags) = {} =>
           LET r == ToolsRead(command.args)
           IN r.ok /\ (Unusable(r) => NothingMounted(c))
    /\ LET stat == VfsStatCommand(c)
           r == ToolsRead(stat.args)
       IN stat.ok /\ r.ok => r.said = VfsShown(c) /\ Last(r.words) = Said(c, "vfs_vpath")

\* No command says anything but what its panel shows, whatever was typed
\* there or read from a file that was cut short; without a repository root
\* there is none.
PanelUnderstood ==
    up /\ conf.of["repo_root"] /= Null => PalletTold(conf) /\ NetTold(conf) /\ ToolsTold(conf)
=============================================================================
