----------------------------- MODULE RunnerConfig -----------------------------
(***************************************************************************)
(* The settings of the runner GUI (pallet_runner_gui): the fields of its   *)
(* panel, and the file they are kept in from one start to the next.        *)
(*                                                                         *)
(* The file is the sequence of its JSON tokens.  A key is looked up in it  *)
(* by its text: the first quoted text that equals it, were it a value, and *)
(* then what follows the next colon.  A save writes the file in place, so  *)
(* one that is interrupted leaves a part of it.                            *)
(***************************************************************************)
EXTENDS Naturals, FiniteSets, SequencesExt

CONSTANTS
    Typed,       \* [field -> the texts its widget may be given]
    Trim,        \* [text -> the text without the blanks around it]
    Rounded,     \* [float -> the number format_float writes for it]
    Shorter,     \* [number -> the numbers its first digits may be]
    WorkDir,     \* the directory the GUI is started in
    OldFiles,    \* the configurations a save may have left before
    MaxChanges   \* how many fields the user changes

VARIABLES
    conf,     \* the RunnerConfig of the running GUI
    file,     \* runner_gui.json
    up,       \* the GUI is running
    kept,     \* history: the configuration the file was written from
    cut,      \* history: that save was interrupted
    changes   \* how many fields the user has changed

fvars == <<conf, file, up, kept, cut, changes>>

-----------------------------------------------------------------------------
(* Tokens, the panel's fields, and their defaults.  A scalar is its token.  *)

Tok(kind, text) == [is |-> kind, text |-> text]
Str(s) == Tok("str", s)
Num(n) == Tok("num", n)
Lit(w) == Tok("lit", w)
Null == Lit("null")
Key(k) == Tok("key", k)
Mark(m) == Tok("mark", m)
Nowhere == Mark("")

Field(k, kind, default) == <<[key |-> k, kind |-> kind, default |-> default]>>
TextField(k, s) == Field(k, "text", Str(s))
OptField(k) == Field(k, "opt", Null)
Switch(k) == Field(k, "bool", Lit("false"))
NumField(k, n) == Field(k, "num", Num(n))
OptNumField(k) == Field(k, "optnum", Null)
FloatField(k, n) == Field(k, "float", Num(n))
MountFields(p) ==
    OptField(p \o "_dir_vroot") \o OptField(p \o "_dir_path") \o
    OptField(p \o "_pak_vroot") \o OptField(p \o "_pak_path") \o
    OptField(p \o "_pk3_vroot") \o OptField(p \o "_pk3_path")

Layout ==
    NumField("version", "1") \o OptField("repo_root") \o
    TextField("quake_dir", "quake") \o TextField("map", "e1m1") \o
    Switch("playlist_enabled") \o OptField("playlist_path") \o
    TextField("debug_preset", "Default") \o Field("debug_presets", "presets", Nowhere) \o
    Switch("video_debug") \o OptField("show_image") \o OptField("play_movie") \o
    OptField("script_path") \o OptField("mount_manifest") \o MountFields("pallet_mount") \o
    Switch("input_script") \o TextField("smoke_mode", "no-assets") \o
    OptNumField("smoke_ticks") \o Switch("smoke_headless") \o OptField("pak_out_dir") \o
    TextField("vfs_vpath", "") \o OptField("vfs_mount_manifest") \o
    Switch("vfs_use_quake_dir") \o MountFields("vfs_mount") \o
    TextField("server_bind", "0.0.0.0:40000") \o NumField("server_tick_ms", "16") \o
    NumField("server_snapshot_stride", "1") \o OptNumField("server_max_ticks") \o
    TextField("client_bind", "0.0.0.0:0") \o TextField("client_server", "127.0.0.1:40000") \o
    NumField("client_tick_ms", "16") \o NumField("client_ticks", "120") \o
    NumField("client_id", "1") \o Switch("client_move_enabled") \o
    FloatField("client_move_x", "0") \o FloatField("client_move_y", "1") \o
    FloatField("client_yaw_step", "0.02")

FieldOf == [k \in {f.key : f \in ToSet(Layout)} |->
               CHOOSE f \in ToSet(Layout) : f.key = k]
Scalars == {k \in DOMAIN FieldOf : FieldOf[k].kind /= "presets"}

Preset(name, args, env) ==
    [name |-> name, description |-> "about " \o name, args |-> args, env |-> env]
DefaultPresets ==
    << Preset("Default", <<>>, <<>>),
       Preset("Video Debug", <<>>, << <<"CRUSTQUAKE_VIDEO_DEBUG", "1">> >>),
       Preset("Intro Playlist + E1M1",
              <<"--playlist", "movies_playlist.txt", "--map", "e1m1">>, <<>>) >>

\* A RunnerConfig: its scalar fields, and its presets.
Default == [of |-> [k \in Scalars |-> FieldOf[k].default], presets |-> DefaultPresets]

EnsurePresets(c) ==
    LET presets == IF c.presets = <<>> THEN DefaultPresets ELSE c.presets
        named == \E i \in DOMAIN presets : presets[i].name = c.of["debug_preset"].text
    IN [c EXCEPT !.presets = presets,
                 !.of["debug_preset"] = IF named THEN @ ELSE Str(presets[1].name)]

-----------------------------------------------------------------------------
(* Writing: to_json.                                                        *)

Quoted(texts) == [i \in DOMAIN texts |-> Str(texts[i])]
EnvTokens(env) == FlattenSeq([i \in DOMAIN env |-> <<Key(env[i][1]), Str(env[i][2])>>])
PresetTokens(p) ==
    <<Mark("{"), Key("name"), Str(p.name), Key("description"), Str(p.description),
      Key("extra_args"), Mark("[")>> \o Quoted(p.args) \o
    <<Mark("]"), Key("env"), Mark("{")>> \o EnvTokens(p.env) \o <<Mark("}"), Mark("}")>>
PresetsTokens(presets) ==
    <<Mark("[")>> \o FlattenSeq([i \in DOMAIN presets |-> PresetTokens(presets[i])])
                  \o <<Mark("]")>>

FormatFloat(v) == Num(Rounded[v.text])
Entry(c, f) ==
    <<Key(f.key)>> \o
    (CASE f.kind = "presets" -> PresetsTokens(c.presets)
       [] f.kind = "float" -> <<FormatFloat(c.of[f.key])>>
       [] OTHER -> <<c.of[f.key]>>)

\* Mutant: the last field was never added to to_json.
JsonWithoutLast(c) == FlattenSeq([i \in DOMAIN Front(Layout) |-> Entry(c, Layout[i])])

ToJson(c) == FlattenSeq([i \in DOMAIN Layout |-> Entry(c, Layout[i])])

-----------------------------------------------------------------------------
(* Reading: parse_config.                                                   *)

At(ts, i) == IF i \in DOMAIN ts THEN ts[i] ELSE Nowhere
FirstFrom(ts, i, kinds) ==
    LET found == {j \in i .. Len(ts) : ts[j].is \in kinds}
    IN IF found = {} THEN 0 ELSE CHOOSE j \in found : \A m \in found : j <= m

\* Where the quoted texts are; the key is looked for among them.
Texts(ts) == {i \in DOMAIN ts : ts[i].is \in {"key", "str"}}
FindIn(ts, texts, k) ==
    LET hits == {i \in texts : ts[i].text = k}
        hit == CHOOSE i \in hits : \A m \in hits : i <= m
        colon == FirstFrom(ts, hit, {"key"})
    IN IF hits = {} \/ colon = 0 THEN 0 ELSE colon + 1
Find(ts, k) == FindIn(ts, Texts(ts), k)

AtLeastOne(v) == IF v.text = "0" THEN Num("1") ELSE v

\* What a field becomes when v stands where its value is looked for.
ReadAs(f, v) ==
    CASE f.kind = "text" -> IF v.is = "str" THEN v ELSE f.default
      [] f.kind = "opt" -> IF v = Null \/ v.is = "str" THEN v ELSE f.default
      [] f.kind = "bool" -> IF v \in {Lit("true"), Lit("false")} THEN v ELSE f.default
      [] f.kind = "num" -> IF v.is = "num" THEN AtLeastOne(v) ELSE f.default
      [] f.kind = "optnum" -> IF v = Null \/ v.is = "num" THEN v ELSE f.default
      [] f.kind = "float" -> IF v.is = "num" THEN v ELSE f.default

FirstMark(ts, i, m) ==
    LET found == {j \in i .. Len(ts) : ts[j] = Mark(m)}
    IN IF found = {} THEN 0 ELSE CHOOSE j \in found : \A n \in found : j <= n

\* The tokens between two brackets, the opening one at i; nothing otherwise.
StringArray(ts, i) ==
    LET end == FirstMark(ts, i, "]")
        items == SubSeq(ts, i + 1, end - 1)
    IN IF At(ts, i) /= Mark("[") \/ end = 0 \/ \E j \in DOMAIN items : items[j].is /= "str"
       THEN <<FALSE, <<>> >>
       ELSE <<TRUE, [j \in DOMAIN items |-> items[j].text]>>
StringMap(ts, i) ==
    LET end == FirstMark(ts, i, "}")
        items == SubSeq(ts, i + 1, end - 1)
    IN IF At(ts, i) /= Mark("{") \/ end = 0
       THEN <<FALSE, <<>> >>
       ELSE <<TRUE, [j \in 1 .. Len(items) \div 2 |-> <<items[2*j - 1].text, items[2*j].text>>]>>

ReadPreset(object) ==
    LET name == At(object, Find(object, "name"))
        about == At(object, Find(object, "description"))
        args == StringArray(object, Find(object, "extra_args"))
        env == StringMap(object, Find(object, "env"))
    IN IF name.is = "str" /\ about.is = "str" /\ args[1] /\ env[1]
       THEN <<TRUE, [name |-> name.text, description |-> about.text,
                     args |-> args[2], env |-> env[2]]>>
       ELSE <<FALSE, <<>> >>

Braces(ts, i, j, m) == Cardinality({n \in i .. j : ts[n] = Mark(m)})
ObjectEnd(ts, i) ==
    LET ends == {j \in i .. Len(ts) :
                    ts[j] = Mark("}") /\ Braces(ts, i, j, "{") = Braces(ts, i, j, "}")}
    IN IF ends = {} THEN 0 ELSE CHOOSE j \in ends : \A n \in ends : j <= n

\* The presets from the token at i on; one that cannot be read spoils all.
RECURSIVE PresetsFrom(_, _, _)
PresetsFrom(ts, i, presets) ==
    LET end == ObjectEnd(ts, i)
        preset == ReadPreset(SubSeq(ts, i, end))
    IN CASE At(ts, i) = Mark("]") -> presets
         [] At(ts, i) = Mark("{") /\ end > 0 ->
              IF preset[1] THEN PresetsFrom(ts, end + 1, Append(presets, preset[2]))
                           ELSE DefaultPresets
         [] OTHER -> DefaultPresets
ReadPresets(ts) ==
    LET i == Find(ts, "debug_presets")
    IN IF At(ts, i) = Mark("[") THEN PresetsFrom(ts, i + 1, <<>>) ELSE DefaultPresets

ParseFields(ts, texts) ==
    [k \in Scalars |-> ReadAs(FieldOf[k], At(ts, FindIn(ts, texts, k)))]
ParseConfig(ts) ==
    IF At(ts, Find(ts, "version")) \notin {Num("1"), Nowhere}
    THEN Default
    ELSE EnsurePresets([of |-> ParseFields(ts, Texts(ts)), presets |-> ReadPresets(ts)])

\* A file that is not there is read as an empty one: all defaults.
Load == ParseConfig(file)

-----------------------------------------------------------------------------
(* The GUI: RunnerApp::new, the widgets, and saving.                        *)

Trimmed(t) == IF Trim[t] = "" THEN Null ELSE Str(Trim[t])

\* The repository root is the current directory unless one was kept.
NewApp(c) ==
    [c EXCEPT !.of["repo_root"] = IF @ = Null THEN Trimmed(WorkDir) ELSE Trimmed(@.text)]

Numbers == DOMAIN Shorter
\* What the widget of a field of this kind makes of the text t.
Entered(k, t) ==
    CASE FieldOf[k].kind = "text" -> Str(t)
      [] FieldOf[k].kind = "opt" -> Trimmed(t)
      [] FieldOf[k].kind = "bool" -> Lit(t)
      [] FieldOf[k].kind = "num" -> AtLeastOne(Num(t))
      [] FieldOf[k].kind = "float" -> Num(t)
      [] FieldOf[k].kind = "optnum" ->
           IF Trim[t] = "" THEN Null
           ELSE IF Trim[t] \in Numbers THEN AtLeastOne(Num(Trim[t])) ELSE conf.of[k]

Change(k, t) ==
    /\ up /\ changes < MaxChanges
    /\ conf' = [conf EXCEPT !.of[k] = Entered(k, t)]
    /\ changes' = changes + 1
    /\ UNCHANGED <<file, up, kept, cut>>

Close ==
    /\ up
    /\ file' = ToJson(conf) /\ kept' = conf /\ cut' = FALSE
    /\ up' = FALSE
    /\ UNCHANGED <<conf, changes>>

\* The process ends without a save.
Killed ==
    /\ up
    /\ up' = FALSE
    /\ UNCHANGED <<conf, file, kept, cut, changes>>

\* What an interrupted save may leave: the tokens before some point, and the
\* first digits of a number that stood there.
Beginnings(ts) ==
    {SubSeq(ts, 1, i) : i \in 0 .. Len(ts) - 1} \cup
    UNION {{Append(SubSeq(ts, 1, i - 1), Num(n)) : n \in Shorter[ts[i].text]} :
              i \in {j \in DOMAIN ts : ts[j].is = "num"}}

\* Only an unchanged panel is torn here, to keep the instance small.
SaveTorn ==
    /\ up /\ changes = 0
    /\ file' \in Beginnings(ToJson(conf)) /\ kept' = conf /\ cut' = TRUE
    /\ up' = FALSE
    /\ UNCHANGED <<conf, changes>>

Start ==
    /\ ~up
    /\ conf' = NewApp(Load)
    /\ up' = TRUE /\ changes' = MaxChanges
    /\ UNCHANGED <<file, kept, cut>>

ConfigInit ==
    /\ kept \in OldFiles
    /\ file = ToJson(kept) /\ cut = FALSE
    /\ conf = NewApp(Load)
    /\ up = TRUE /\ changes = 0

ConfigNext ==
    \/ \E k \in DOMAIN Typed : \E t \in Typed[k] : Change(k, t)
    \/ Close
    \/ Killed
    \/ SaveTorn
    \/ Start

-----------------------------------------------------------------------------
(* A text that equals a key hides that key's own value, if it stands before *)
(* it in the file.                                                          *)

PresetTexts(p) == {p.name, p.description} \cup ToSet(p.args) \cup UNION {ToSet(e) : e \in ToSet(p.env)}
PlainTexts(c) ==
    /\ \A k \in Scalars : c.of[k].is = "str" => c.of[k].text \notin DOMAIN FieldOf
    /\ \A p \in ToSet(c.presets) :
         PresetTexts(p) \cap (DOMAIN FieldOf \cup {"name", "description", "extra_args", "env"}) = {}

SavedAs(k, v) ==
    CASE FieldOf[k].kind = "float" -> FormatFloat(v)
      [] FieldOf[k].kind = "num" -> AtLeastOne(v)
      [] OTHER -> v

\* What the next start reads is what was saved, floats as they are written,
\* unless a text in it is also a key.  Of a save that was interrupted every
\* field is as saved, or its default, or a number's first digits, whatever
\* point it was cut at, and a preset chosen there is one of the presets read.
SettingsKept ==
    LET read == Load
        saved == EnsurePresets([kept EXCEPT !.of = [k \in Scalars |-> SavedAs(k, kept.of[k])]])
    IN ~up /\ PlainTexts(kept) =>
         IF saved.of["version"] /= Num("1") THEN read = Default
         ELSE IF ~cut THEN read = saved
         ELSE /\ \A k \in Scalars \ {"debug_preset"} :
                   \/ read.of[k] \in {saved.of[k], FieldOf[k].default}
                   \/ /\ saved.of[k].is = "num" /\ read.of[k].is = "num"
                      /\ read.of[k].text \in Shorter[saved.of[k].text]
              /\ read.presets \in {saved.presets, DefaultPresets}
              /\ \E p \in ToSet(read.presets) : p.name = read.of["debug_preset"].text
=============================================================================
