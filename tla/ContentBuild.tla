----------------------------- MODULE ContentBuild -----------------------------
(***************************************************************************)
(* The content tools of QuakePallets (tools content validate, build and    *)
(* clean; ContentGraph has graph) over the engine's content tree, its      *)
(* development override, the level manifests in both and the quake         *)
(* directory of QuakeFiles.                                                *)
(*                                                                         *)
(* A build reads everything once, runs its stage unless the manifest of an *)
(* earlier build has the stage's key and the stage's output exists, writes *)
(* the quake index and last its own manifest.  Between two of these steps  *)
(* the user edits, cleans, or stops the process; a write may fail or stop  *)
(* half way.                                                               *)
(***************************************************************************)
EXTENDS QuakeFiles

CONSTANTS
    Levels,       \* the engine:level keys, in their sorted order
    LevelNames,   \* the names of directories under levels/, as their paths sort
    MapOf,        \* [quake1:bsp/<map> key -> maps/<map>.bsp in the index]
    Files,        \* the names of engine files, config files among them
    Configs,      \* the ones under config/: a build discovers these
    KeyOf,        \* [name of a level directory or file -> its key: trimmed, in
                  \* lower case, or BadKey]
    BadKey,       \* what no key can be made of
    Manifests,    \* what a level.toml may say
    Trees,        \* [levels, files] that may be there in the beginning
    LevelEdits,   \* the <<layer, directory>> the user edits
    FileEdits     \* the <<layer, file>> the user edits

Layers == {"dev", "shipped"}
LevelSet == ToSet(Levels)
NameSet == ToSet(LevelNames)
Maps == DOMAIN MapOf
LevelToml == [is : {"none", "ok", "bad"}, geometry : SUBSET Maps,
              deps : SUBSET (LevelSet \cup Maps \cup Files)]

(* The keys of levels, of maps and of files are of different kinds, and    *)
(* the geometry of a level is a map (level_manifest.rs:370).  A name that  *)
(* is a key is its own key.                                                *)
ASSUME ContentAssumption ==
    /\ LevelSet \cap Files = {} /\ Maps \cap (LevelSet \cup Files) = {}
    /\ LevelNames \in Seq(NameSet) /\ Levels \in Seq(LevelSet)
    /\ LevelSet \subseteq NameSet /\ \A l \in LevelSet : KeyOf[l] = l
    /\ \A n \in NameSet : KeyOf[n] \in LevelSet \cup {BadKey}
    /\ \A f \in Configs : KeyOf[f] \notin LevelSet \cup Maps
    /\ BadKey \notin LevelSet \cup Maps \cup Files
    /\ Manifests \subseteq LevelToml
    /\ \A t \in Trees : /\ t.levels \in [Layers -> [NameSet -> LevelToml]]
                        /\ t.files \in [Layers -> [Files -> Contents \cup {0}]]
    /\ LevelEdits \subseteq Layers \X NameSet /\ FileEdits \subseteq Layers \X Files

VARIABLES
    levels,    \* [layer -> [directory -> its level.toml]]
    files,     \* [layer -> [file -> its contents, 0 if it is not there]]
    output,    \* content/build/asset_index.txt
    manifest,  \* content/build/build_manifest.txt
    build,     \* the running build process
    torn,      \* history: the output is younger than the manifest
    settled    \* history: the last build that succeeded: its arguments, the
               \* changes it knew of

bvars == <<levels, files, output, manifest, build, torn, settled>>
vars == <<qvars, bvars>>

NoLevel == [is |-> "none", geometry |-> {}, deps |-> {}]
NoOutput == [is |-> "none", ids |-> {}]
NoManifest == [is |-> "none", inputs |-> {}, knows |-> 0]
NoBuild == [pc |-> "idle", quake |-> FALSE, inputs |-> {}, index |-> NoIndex,
            previous |-> NoManifest, ran |-> FALSE, at |-> 0, same |-> FALSE]
Unsettled == [edits |-> -1, quake |-> FALSE]
(* An input's id, and by alg what was hashed for it: a level.toml, a file, *)
(* or what the index says.                                                 *)
Input(k, alg, level, data, from) ==
    {[id |-> k, alg |-> alg, level |-> level, data |-> data, from |-> from]}
Failure == Input("error", "error", NoLevel, 0, "nowhere")

(***************************************************************************)
(* Engine content: a key names the file of that name under the development *)
(* override, or else the shipped one; a level the level.toml of the        *)
(* directory that has the key's own name likewise.                         *)
(***************************************************************************)
ResolveFile(key) ==
    IF key \in Files /\ files.dev[key] # 0 THEN "dev"
    ELSE IF key \in Files /\ files.shipped[key] # 0 THEN "shipped" ELSE "none"

ResolveLevel(l) ==
    IF levels.dev[l].is # "none" THEN "dev"
    ELSE IF levels.shipped[l].is # "none" THEN "shipped" ELSE "none"

LevelsIn(layer) == {n \in NameSet : levels[layer][n].is # "none"}
KeysIn(layer) == {KeyOf[n] : n \in LevelsIn(layer)}

\* Of the directories of one key the last replaces the others.
NameFor(layer, k) ==
    LET there == LevelsIn(layer)
        at == {i \in DOMAIN LevelNames : LevelNames[i] \in there /\ KeyOf[LevelNames[i]] = k}
    IN  LevelNames[Max(at)]

DiscoveredKeys == (KeysIn("shipped") \cup KeysIn("dev")) \ {BadKey}

\* Mutant: what was found first stays.
ShippedFirst ==
    [k \in DiscoveredKeys |->
        LET layer == IF k \in KeysIn("shipped") THEN "shipped" ELSE "dev"
        IN  [layer |-> layer, name |-> NameFor(layer, k)]]

(***************************************************************************)
(* discover_level_manifests goes by the directories that are there: one of *)
(* another name than its key is found, and not where resolve looks; one no *)
(* key can be made of is an error.  The override replaces what was found   *)
(* before.                                                                 *)
(***************************************************************************)
Discovered ==
    [k \in DiscoveredKeys |->
        LET layer == IF k \in KeysIn("dev") THEN "dev" ELSE "shipped"
        IN  [layer |-> layer, name |-> NameFor(layer, k)]]

DiscoveryFails == BadKey \in KeysIn("shipped") \cup KeysIn("dev")

FoundAt(k) == LET at == Discovered[k] IN levels[at.layer][at.name]

Dependencies(m) == m.geometry \cup m.deps

(* discover_engine_config_assets: the keys of all config files. *)
ConfigKeys == {KeyOf[f] : f \in {g \in Configs : \E y \in Layers : files[y][g] # 0}}

(***************************************************************************)
(* content validate: the errors of every level that is discovered.  The    *)
(* index is Unreadable if there is no --quake-dir.                         *)
(***************************************************************************)
\* Mutant: a level that a level requires is taken on trust.
TrustsLevels(m, index) ==
    IF m.is = "bad" THEN {"parse"}
    ELSE {k \in m.geometry : index.is # "index" \/ ~Indexed(index, MapOf[k])}
         \cup {k \in m.deps \ LevelSet : ResolveFile(k) = "none"}

LevelErrors(m, index) ==
    IF m.is = "bad" THEN {"parse"}
    ELSE {k \in m.geometry : index.is # "index" \/ ~Indexed(index, MapOf[k])}
         \cup {l \in m.deps \cap LevelSet : ResolveLevel(l) = "none"}
         \cup {k \in m.deps \ LevelSet : ResolveFile(k) = "none"}

Validated(index) ==
    /\ ~DiscoveryFails
    /\ \A l \in DOMAIN Discovered : LevelErrors(FoundAt(l), index) = {}

(***************************************************************************)
(* content build: the inputs are the levels, what those that are found     *)
(* depend on, and the config files; each is hashed where it resolves to,   *)
(* and the fingerprint is over their ids, hashes and sources.              *)
(***************************************************************************)
InputOf(k, index) ==
    IF k \in LevelSet
    THEN IF ResolveLevel(k) = "none" THEN Failure
         ELSE Input(k, "xxh64", levels[ResolveLevel(k)][k], 0, ResolveLevel(k))
    ELSE IF k \in Maps
    THEN IF index.is # "index" THEN Input(k, "missing", NoLevel, 0, "quake1")
         ELSE IF ~Indexed(index, MapOf[k]) THEN Failure
         ELSE Input(k, "quake_index", NoLevel, Which(index, MapOf[k]).data, "quake1")
    ELSE IF ResolveFile(k) = "none" THEN Failure
    ELSE Input(k, "xxh64", NoLevel, files[ResolveFile(k)][k], ResolveFile(k))

CollectInputs(index) ==
    LET found == {FoundAt(l) : l \in DOMAIN Discovered}
        keys == DOMAIN Discovered \cup ConfigKeys \cup UNION {Dependencies(m) : m \in found}
        inputs == UNION {InputOf(k, index) : k \in keys \ {BadKey}}
    IN  IF \/ DiscoveryFails
           \/ \E m \in found : m.is = "bad"
           \/ BadKey \in ConfigKeys
           \/ Failure \subseteq inputs
        THEN Failure ELSE inputs

Ids(inputs) == {i.id : i \in inputs}

(* probe_assets: the first level among the inputs is parsed where it       *)
(* resolves to, and the index's first key is read through the tool's own   *)
(* mounts, in the lower case its key has.                                  *)
LevelProbed(inputs) ==
    \A i \in DOMAIN Levels :
        Levels[i] \in Ids(inputs) /\ (\A j \in 1..(i - 1) : Levels[j] \notin Ids(inputs))
        => levels[ResolveLevel(Levels[i])][Levels[i]].is # "bad"

ToolMounts == [i \in DOMAIN QuakeMounts |->
                  Mount(QuakeMounts[i].point, QuakeMounts[i].kind, QuakeMounts[i].src)]
Probed(index) ==
    IF index.entries = <<>> THEN TRUE
    ELSE ReadFrom(ToolMounts, VRoot \o index.entries[1].key).is = "data"

-----------------------------------------------------------------------------
BuildTypeOK ==
    /\ build.pc \in {"idle", "stage", "index", "manifest"}
    /\ build.quake \in BOOLEAN /\ build.ran \in BOOLEAN /\ build.same \in BOOLEAN
    /\ output.is \in {"none", "whole", "cut"}
    /\ manifest.is \in {"none", "whole"}
    /\ torn \in BOOLEAN /\ settled.edits \in -1..edits
    /\ DOMAIN levels = Layers /\ DOMAIN files = Layers

BuildInit ==
    /\ QuakeInit
    /\ \E t \in Trees : levels = t.levels /\ files = t.files
    /\ output = NoOutput /\ manifest = NoManifest
    /\ build = NoBuild
    /\ torn = FALSE /\ settled = Unsettled

(* The user's changes to the engine's content. *)
ContentEdit ==
    /\ edits < MaxEdits
    /\ edits' = edits + 1
    /\ UNCHANGED <<disk, stamp, clock, game, cached, blind, swapped,
                   output, manifest, build, torn, settled>>

EditLevel ==
    /\ ContentEdit /\ UNCHANGED files
    /\ \E at \in LevelEdits, m \in Manifests \cup {NoLevel} :
          m # levels[at[1]][at[2]] /\ levels' = [levels EXCEPT ![at[1]][at[2]] = m]

EditFile ==
    /\ ContentEdit /\ UNCHANGED levels
    /\ \E at \in FileEdits, d \in Contents \cup {0} :
          d # files[at[1]][at[2]] /\ files' = [files EXCEPT ![at[1]][at[2]] = d]

(***************************************************************************)
(* content_build up to its stages: any error ends it with nothing written, *)
(* a step that changes nothing.                                            *)
(***************************************************************************)
BuildBegin(quake) ==
    LET index == IF quake THEN LoadOrBuild ELSE NoIndex
        inputs == CollectInputs(index)
    IN  /\ build.pc = "idle"
        /\ IF quake THEN Buildable /\ index.is = "index" /\ Probed(index) ELSE TRUE
        /\ inputs # Failure /\ LevelProbed(inputs)
        /\ build' = [pc |-> "stage", quake |-> quake, inputs |-> inputs, index |-> index,
                     previous |-> manifest, ran |-> FALSE, at |-> edits,
                     same |-> settled = [edits |-> edits, quake |-> quake]]
        /\ UNCHANGED <<qvars, levels, files, output, manifest, torn, settled>>

\* Mutant: a stage that was built once is skipped, whatever its key.
SkipsOnceBuilt == build.previous.is = "whole" /\ output.is # "none"

\* Mutant: the key is also over the time of the build, so it is never the same.
NeverSkips == FALSE

(* run_build_stages: the key is a hash of the inputs' fingerprint; of the  *)
(* output only that it is a file is asked.                                 *)
StageSkipped ==
    /\ build.previous.is = "whole" /\ build.previous.inputs = build.inputs
    /\ output.is # "none"

BuildStage ==
    /\ build.pc = "stage"
    /\ IF StageSkipped
       THEN /\ build' = [build EXCEPT !.pc = "index"]
            /\ UNCHANGED <<output, torn>>
       ELSE /\ build' = [build EXCEPT !.pc = "index", !.ran = TRUE]
            /\ output' = [is |-> "whole", ids |-> Ids(build.inputs)]
            /\ torn' = TRUE
    /\ UNCHANGED <<qvars, levels, files, manifest, settled>>

(* The index that was loaded or built in the beginning is written again. *)
BuildIndex ==
    /\ build.pc = "index"
    /\ cached' = IF build.quake THEN build.index ELSE cached
    /\ build' = [build EXCEPT !.pc = "manifest"]
    /\ UNCHANGED <<disk, stamp, clock, edits, game, blind, swapped,
                   levels, files, output, manifest, torn, settled>>

BuildManifest ==
    /\ build.pc = "manifest"
    /\ manifest' = [is |-> "whole", inputs |-> build.inputs, knows |-> build.index.knows]
    /\ torn' = (torn /\ ~build.ran)
    /\ settled' = [edits |-> build.at, quake |-> build.quake]
    /\ build' = NoBuild
    /\ UNCHANGED <<qvars, levels, files, output>>

(* The process is stopped, or the write it is at fails, before the write,  *)
(* half way, or for the manifest after the lines that are read back.       *)
BuildDies ==
    /\ build.pc # "idle"
    /\ build' = NoBuild
    /\ \/ UNCHANGED <<output, cached, manifest, torn, settled>>
       \/ /\ build.pc = "stage" /\ ~StageSkipped
          /\ output' = [is |-> "cut", ids |-> {}]
          /\ torn' = TRUE
          /\ UNCHANGED <<cached, manifest, settled>>
       \/ /\ build.pc = "index" /\ build.quake
          /\ cached' \in CutsOf(build.index)
          /\ settled' = Unsettled
          /\ UNCHANGED <<output, manifest, torn>>
       \/ /\ build.pc = "manifest"
          /\ manifest' = NoManifest
          /\ settled' = Unsettled
          /\ UNCHANGED <<output, cached, torn>>
    /\ UNCHANGED <<disk, stamp, clock, edits, game, blind, swapped, levels, files>>

(* A build that tools quake index or clean meets settles nothing. *)
Unsettle ==
    /\ settled' = Unsettled
    /\ build' = [build EXCEPT !.at = IF build.pc = "idle" THEN 0 ELSE -1]

ToolIndexStep ==
    /\ QuakeIndexTool \/ QuakeIndexKilled
    /\ Unsettle
    /\ UNCHANGED <<levels, files, output, manifest, torn>>

(* content clean removes content/build, the index among it, and may do so  *)
(* while a build runs.                                                     *)
ContentClean ==
    /\ output' = NoOutput /\ manifest' = NoManifest /\ cached' = NoIndex
    /\ torn' = FALSE
    /\ Unsettle
    /\ UNCHANGED <<disk, stamp, clock, edits, game, blind, swapped, levels, files>>

BuildSteps ==
    \/ \E quake \in BOOLEAN : BuildBegin(quake)
    \/ BuildStage
    \/ BuildIndex
    \/ BuildManifest
    \/ BuildDies

BuildNext ==
    \/ UserEdits /\ UNCHANGED bvars
    \/ EditLevel
    \/ EditFile
    \/ ToolIndexStep
    \/ BuildSteps
    \/ ContentClean

BuildSpec == BuildInit /\ [][BuildNext]_vars

-----------------------------------------------------------------------------
(* The output on disk lists the inputs the manifest beside it records,     *)
(* skipped stages included, unless a build died after its stage had begun  *)
(* to write and its manifest was not written.                              *)
OutputOfManifest ==
    output.is # "none" /\ ~torn => output = [is |-> "whole", ids |-> Ids(manifest.inputs)]

(* A manifest records the hash of what the resolvers find, for as long as  *)
(* nothing is edited, and for a quake map if the index the build used knew *)
(* of every change its fingerprint misses; and the output beside it is of  *)
(* that manifest (tools main.rs:1807, 1864, 2062).                         *)
ManifestTrue ==
    manifest.is = "whole" =>
        /\ OutputOfManifest
        /\ settled.edits = edits =>
              \A i \in manifest.inputs :
                  /\ i.id \in LevelSet => i.level = levels[ResolveLevel(i.id)][i.id]
                  /\ i.id \in Files => i.data = files[ResolveFile(i.id)][i.id]
                  /\ i.alg = "quake_index" /\ manifest.knows >= blind =>
                        /\ Indexed(Built, MapOf[i.id])
                        /\ i.data = Which(Built, MapOf[i.id]).data

(* "Second build run does no work when inputs unchanged"                   *)
(* (CHECKLIST_3_ASSET_PLATFORM.md:291): with the same arguments and no     *)
(* edit since the last build began, the stage is skipped, although the     *)
(* first built the index and the second took it from its file.             *)
SecondBuildIdle ==
    build.same /\ settled.edits # -1 => ~build.ran

(* What validate passes a build can collect, with the same index, exactly  *)
(* if the key of each level and config file that was found resolves: one   *)
(* whose name is not its key, as one in upper case, is found and validated *)
(* and then missed.  The level that the build probes is readable unless a  *)
(* directory of another name replaced the one it resolves to (tools        *)
(* main.rs:1159, 1864, 1895, 1933, 2160, level_manifest.rs:107, 167).      *)
ValidateCovers ==
    LET placed == /\ \A l \in DOMAIN Discovered : ResolveLevel(l) # "none"
                  /\ \A k \in ConfigKeys : k # BadKey /\ ResolveFile(k) # "none"
        own == \A l \in DOMAIN Discovered : Discovered[l].name = l
    IN  \A quake \in BOOLEAN :
        LET index == IF quake THEN LoadOrBuild ELSE NoIndex
            inputs == CollectInputs(index)
        IN  (quake => index.is = "index") /\ Validated(index)
            => /\ inputs # Failure <=> placed
               /\ placed /\ own => LevelProbed(inputs)

(* A build skips its stage when it may, and only when it may; what it      *)
(* leaves is what its manifest says; and where validate has passed, what   *)
(* was found under another name than its key is all that can fail it.      *)
BuildsTell == BuildTypeOK /\ ManifestTrue /\ SecondBuildIdle /\ ValidateCovers
=============================================================================
