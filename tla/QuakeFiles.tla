------------------------------ MODULE QuakeFiles ------------------------------
(***************************************************************************)
(* The files of an id Tech game as QuakePallets sees them: the virtual     *)
(* file system the game builds once from its mounts (engine_core::vfs,     *)
(* build_mounts of pallet), the resolver that says which mount serves an   *)
(* asset key (engine_core::asset_resolver), and the index of the quake     *)
(* directory, cached in a file behind a fingerprint (engine_core::         *)
(* quake_index).  The user edits the directories and repacks the archives  *)
(* while the game runs and between two runs of the tools.                  *)
(*                                                                         *)
(* A path is the sequence of its components; the contents of a file are a  *)
(* number, of which a hash and a size tell different ones apart.  A store  *)
(* is a directory or an archive: the sequence of the files in it, in the   *)
(* order the directory walk sorts them or the archive lists them.          *)
(***************************************************************************)
EXTENDS Integers, SequencesExt

CONSTANTS
    Base, Mod, Pk3File,   \* the quake directory, another directory, a pk3
    PakOrder,         \* the paks of the quake directory, pak9 first
    Names,            \* [directory -> the names in it, in sorted order]
    Contents,         \* the contents of a file
    Packings,         \* what an archive may be packed with
    Lower,            \* [component -> the component in lower case]
    KeyOrder,         \* the lower-case names, in the order of a BTreeMap
    VPaths,           \* the virtual paths looked up
    CommandLines,     \* the explicit mounts a game may be started with
    Disks,            \* what may be on disk in the beginning
    MaxEdits,         \* bound: changes made by the user
    MaxClock          \* bound: seconds that pass

Dirs == {Base, Mod}
Paks == ToSet(PakOrder)
Archives == Paks \cup {Pk3File}
Stores == Dirs \cup Archives
VRoot == <<"raw", "quake">>
PathName == Seq(DOMAIN Lower)
Table == Seq([name : PathName, data : Contents])
MountSpec == [point : PathName, kind : {"dir"}, src : Dirs]
             \cup [point : PathName, kind : {"pak", "pk3"}, src : Archives]
Folded(n) == [i \in DOMAIN n |-> Lower[n[i]]]

ASSUME QuakeAssumption ==
    /\ MaxEdits \in Nat /\ MaxClock \in Nat
    /\ Base # Mod /\ Base \notin Archives /\ Mod \notin Archives /\ Pk3File \notin Paks
    /\ PakOrder \in Seq(Paks)
    /\ Names \in [Dirs -> Seq(PathName \ {<<>>})]
    /\ \A s \in Dirs : \A i, j \in DOMAIN Names[s] : Names[s][i] = Names[s][j] => i = j
    /\ VRoot \in PathName
    /\ VPaths \subseteq PathName \ {<<>>}
    /\ KeyOrder \in Seq(PathName \ {<<>>})
    /\ \A n \in DOMAIN KeyOrder : Folded(KeyOrder[n]) = KeyOrder[n]
    /\ Packings \in [Archives -> SUBSET Table]
    /\ Disks \subseteq [Stores -> [there : BOOLEAN, ok : BOOLEAN, files : Table]]
    /\ CommandLines \subseteq Seq(MountSpec)

VARIABLES
    disk,     \* [store -> whether it is there, whether it parses, its files]
    stamp,    \* [store -> the second of its modification time]
    clock,    \* the second it is
    edits,    \* the number of changes made (bound)
    game,     \* the running game's mounts, in lookup order
    cached,   \* content/build/compat/quake1/index.txt
    blind,    \* history: the last change the fingerprint has no part in
    swapped   \* history: the archives changed since the game mounted them

qvars == <<disk, stamp, clock, edits, game, cached, blind, swapped>>

(* An index, and as a history of it the changes it knows of: -1 if it is   *)
(* cut short.                                                              *)
NoIndex == [is |-> "absent", fingerprint |-> <<>>, entries |-> <<>>, knows |-> 0]
Unreadable == [NoIndex EXCEPT !.is = "unreadable"]
NoGame == [up |-> FALSE, mounts |-> <<>>]

(* The files of a store, by name; an archive may hold a name twice. *)
HasName(files, n) == \E i \in DOMAIN files : files[i].name = n
FirstOf(files, n) ==
    files[CHOOSE i \in DOMAIN files :
              files[i].name = n /\ \A j \in 1..(i - 1) : files[j].name # n].data
LastOf(files, n) ==
    files[CHOOSE i \in DOMAIN files :
              files[i].name = n /\ \A j \in (i + 1)..Len(files) : files[j].name # n].data

(* The members of a finite set in the strict order R, and of a sequence    *)
(* the items at some places.                                               *)
Rank(x, S, R) == Cardinality({y \in S : <<y, x>> \in R})
InOrder(S, R) == [k \in 1..Cardinality(S) |-> CHOOSE x \in S : Rank(x, S, R) = k - 1]
Picked(s, places) ==
    LET at == InOrder(places, {p \in places \X places : p[1] < p[2]})
    IN  [k \in DOMAIN at |-> s[at[k]]]

(***************************************************************************)
(* The virtual file system.  A pak is parsed when it is mounted and stays  *)
(* in memory; of a pk3 only the table of names is kept, and the file is    *)
(* opened again at each read; a directory is looked at each time.          *)
(***************************************************************************)
Mount(point, kind, s) ==
    [point |-> point, kind |-> kind, src |-> s,
     table |-> IF kind = "dir" THEN <<>> ELSE disk[s].files]
Mountable(spec) == spec.kind = "dir" \/ (disk[spec.src].there /\ disk[spec.src].ok)

(* mount_quake_dir: the directory, then its paks, the highest number first. *)
PaksThere == Picked(PakOrder, {i \in DOMAIN PakOrder : disk[PakOrder[i]].there})
QuakeMounts ==
    <<[point |-> VRoot, kind |-> "dir", src |-> Base]>> \o
    [i \in DOMAIN PaksThere |-> [point |-> VRoot, kind |-> "pak", src |-> PaksThere[i]]]

Under(m, p) == IsPrefix(m.point, p)
Rest(m, p) == SubSeq(p, Len(m.point) + 1, Len(p))

Nothing == [is |-> "none", data |-> 0]
Failed == [is |-> "error", data |-> 0]
Found(d) == [is |-> "data", data |-> d]

MountRead(m, p) ==
    LET rel == Rest(m, p)
    IN  IF rel = <<>> THEN Nothing
        ELSE CASE m.kind = "dir" ->
                    IF HasName(disk[m.src].files, rel)
                    THEN Found(FirstOf(disk[m.src].files, rel)) ELSE Nothing
               [] m.kind = "pak" ->
                    IF HasName(m.table, rel) THEN Found(FirstOf(m.table, rel)) ELSE Nothing
               [] m.kind = "pk3" ->
                    IF ~HasName(m.table, rel) THEN Nothing
                    ELSE IF disk[m.src].there /\ disk[m.src].ok
                             /\ HasName(disk[m.src].files, rel)
                    THEN Found(LastOf(disk[m.src].files, rel)) ELSE Failed

MountExists(m, p) ==
    LET rel == Rest(m, p)
    IN  rel # <<>> /\ HasName(IF m.kind = "dir" THEN disk[m.src].files ELSE m.table, rel)

(* read_with_provenance: the first mount that has it, or that fails. *)
ReadFrom(mounts, p) ==
    LET answers == {i \in DOMAIN mounts :
                       Under(mounts[i], p) /\ MountRead(mounts[i], p).is # "none"}
    IN  IF answers = {} THEN [is |-> "none", data |-> 0, mount |-> 0]
        ELSE LET i == Min(answers)
                 r == MountRead(mounts[i], p)
             IN  [is |-> r.is, data |-> r.data, mount |-> i]
Read(p) == ReadFrom(game.mounts, p)

Exists(p) == \E i \in DOMAIN game.mounts :
                Under(game.mounts[i], p) /\ MountExists(game.mounts[i], p)

(* explain_mounts *)
Candidates(p) == {[order |-> i, exists |-> MountExists(game.mounts[i], p)] :
                     i \in {j \in DOMAIN game.mounts : Under(game.mounts[j], p)}}

(* list_dir of one mount: whether the directory is there at all, its names  *)
(* and the ones that are directories.  In an archive the first entry with  *)
(* a name decides; a directory store has one file or one directory of it.  *)
Below(files, rel) == {i \in DOMAIN files : /\ IsPrefix(rel, files[i].name)
                                           /\ Len(files[i].name) > Len(rel)}
MountList(m, p) ==
    LET rel == Rest(m, p)
        files == IF m.kind = "dir" THEN disk[m.src].files ELSE m.table
        head(i) == files[i].name[Len(rel) + 1]
        firsts == {i \in Below(files, rel) :
                       \A j \in Below(files, rel) : j < i => head(j) # head(i)}
    IN  {[name |-> head(i), isDir |-> Len(files[i].name) > Len(rel) + 1] : i \in firsts}

(* list_dir: the mounts merged, the first one that has a name decides. *)
ListDir(p) ==
    LET mine == {i \in DOMAIN game.mounts : Under(game.mounts[i], p)}
        has(i, n) == \E e \in MountList(game.mounts[i], p) : e.name = n
    IN  UNION {{e \in MountList(game.mounts[i], p) :
                    \A j \in mine : j < i => ~has(j, e.name)} : i \in mine}

(***************************************************************************)
(* The resolver: of the mounts that explain_mounts names it keeps those    *)
(* mounted exactly at the namespace's root, and the first that has the     *)
(* file wins.  0: no winner, the asset is "not found".                     *)
(***************************************************************************)
ResolverCandidates(p) ==
    {c \in Candidates(p) : game.mounts[c.order].point = VRoot}

\* Mutant: a later candidate replaces an earlier winner.
LastHit(p) ==
    LET hits == {c.order : c \in {d \in ResolverCandidates(p) : d.exists}}
    IN  IF hits = {} THEN 0 ELSE Max(hits)

Winner(p) ==
    LET hits == {c.order : c \in {d \in ResolverCandidates(p) : d.exists}}
    IN  IF hits = {} THEN 0 ELSE Min(hits)

(***************************************************************************)
(* The index of the quake directory: its files under their names in lower  *)
(* case, in the order of the mounts.  Several files may have one key.      *)
(***************************************************************************)
IndexedStores == <<Base>> \o PaksThere
Buildable == \A i \in DOMAIN IndexedStores : disk[IndexedStores[i]].ok

(* collect_loose_entries, collect_pak_entries: an entry of a pak is hashed  *)
(* through its name, so a repeated one has the hash of the first.          *)
EntryOf(order, s, f, i) ==
    [key |-> Folded(f[i].name), order |-> order, src |-> s, data |-> FirstOf(f, f[i].name)]

(* build_entries: by key, the files of one key by mount and in the order   *)
(* they were collected.  A place is a key, a store and a file of it.       *)
Keyed(f, k) == {i \in DOMAIN f : Folded(f[i].name) = k}
Places(tables) ==
    UNION {{<<at[1], at[2], i>> : i \in Keyed(tables[at[2]], KeyOrder[at[1]])} :
               at \in (DOMAIN KeyOrder) \X (DOMAIN tables)}
Before(t, u) ==
    \/ t[1] < u[1]
    \/ t[1] = u[1] /\ t[2] < u[2]
    \/ t[1] = u[1] /\ t[2] = u[2] /\ t[3] < u[3]
Collected(stores, tables) ==
    LET found == Places(tables)
        at == InOrder(found, {p \in found \X found : Before(p[1], p[2])})
    IN  [k \in DOMAIN at |-> EntryOf(at[k][2], stores[at[k][2]], tables[at[k][2]], at[k][3])]

BuiltEntries ==
    Collected(IndexedStores, [o \in DOMAIN IndexedStores |-> disk[IndexedStores[o]].files])

\* Mutant: the fingerprint names the paks and their sizes, not their times.
UndatedFingerprint ==
    [o \in DOMAIN IndexedStores |->
        [src |-> IndexedStores[o],
         size |-> IF o = 1 THEN 0 ELSE Len(disk[IndexedStores[o]].files),
         modified |-> 0]]

(* fingerprint_mounts: the modification time of the directory itself and   *)
(* the names, sizes and times of the paks in it.                           *)
Fingerprint ==
    [o \in DOMAIN IndexedStores |->
        [src |-> IndexedStores[o],
         size |-> IF o = 1 THEN 0 ELSE Len(disk[IndexedStores[o]].files),
         modified |-> stamp[IndexedStores[o]]]]

Built == [is |-> "index", fingerprint |-> Fingerprint, entries |-> BuiltEntries,
          knows |-> edits]

(* load_cached: an index file that is there must be readable; it counts if *)
(* its fingerprint is that of the directory.                               *)
Accepted == cached.is = "index" /\ cached.fingerprint = Fingerprint

(* load_or_build: "error" if the file is unreadable or a pak is. *)
LoadOrBuild ==
    IF cached.is = "unreadable" THEN Unreadable
    ELSE IF Accepted THEN cached
    ELSE IF Buildable THEN Built ELSE Unreadable

(* which: the first entry of the key. *)
EntriesOf(index, k) == {i \in DOMAIN index.entries : index.entries[i].key = k}
Which(index, k) == index.entries[Min(EntriesOf(index, k))]
Indexed(index, k) == EntriesOf(index, k) # {}

(* write_to, and what a reader finds if the process dies while it writes:  *)
(* the header comes first, and nothing counts the entries that follow it.  *)
CutIndex(index, n) ==
    [is |-> index.is, fingerprint |-> index.fingerprint,
     entries |-> SubSeq(index.entries, 1, n), knows |-> -1]
CutsOf(index) == {Unreadable} \cup {CutIndex(index, n) : n \in 0..(Len(index.entries) - 1)}

-----------------------------------------------------------------------------
QuakeTypeOK ==
    /\ \A s \in Stores : /\ disk[s].there \in BOOLEAN /\ disk[s].ok \in BOOLEAN
                         /\ \A i \in DOMAIN disk[s].files : disk[s].files[i].data \in Contents
    /\ stamp \in [Stores -> 0..MaxClock] /\ clock \in 0..MaxClock
    /\ edits \in 0..MaxEdits
    /\ game.up \in BOOLEAN /\ (~game.up => game.mounts = <<>>)
    /\ cached.is \in {"absent", "unreadable", "index"}
    /\ cached.knows \in -1..edits
    /\ blind \in 0..MaxEdits /\ swapped \subseteq Archives

QuakeInit ==
    /\ disk \in Disks
    /\ stamp = [s \in Stores |-> 0] /\ clock = 0 /\ edits = 0
    /\ game = NoGame
    /\ cached = NoIndex
    /\ blind = 0
    /\ swapped = {}

(***************************************************************************)
(* The user.  Adding or removing a file changes the time of the directory  *)
(* it lies in, and of no other; rewriting a file changes the time of none. *)
(***************************************************************************)
Listing(s, files) ==
    LET ns == Picked(Names[s], {i \in DOMAIN Names[s] : Names[s][i] \in DOMAIN files})
    IN  [i \in DOMAIN ns |-> [name |-> ns[i], data |-> files[ns[i]]]]
FilesIn(s) ==
    [n \in {disk[s].files[i].name : i \in DOMAIN disk[s].files} |-> FirstOf(disk[s].files, n)]

DirEdit(s, n, new) ==
    LET entry == (n \in DOMAIN FilesIn(s)) # (n \in DOMAIN new)
    IN  /\ edits < MaxEdits
        /\ edits' = edits + 1
        /\ disk' = [disk EXCEPT ![s].files = Listing(s, new)]
        /\ stamp' = IF entry /\ Len(n) = 1 THEN [stamp EXCEPT ![s] = clock] ELSE stamp
        /\ blind' = IF s = Base /\ (~entry \/ Len(n) > 1 \/ stamp[s] = clock)
                    THEN edits' ELSE blind
        /\ UNCHANGED <<clock, game, cached, swapped>>

WriteFile(s, n, d) ==
    /\ ~(HasName(disk[s].files, n) /\ FirstOf(disk[s].files, n) = d)
    /\ DirEdit(s, n, [m \in DOMAIN FilesIn(s) \cup {n} |-> IF m = n THEN d ELSE FilesIn(s)[m]])

RemoveFile(s, n) ==
    /\ HasName(disk[s].files, n)
    /\ DirEdit(s, n, [m \in DOMAIN FilesIn(s) \ {n} |-> FilesIn(s)[m]])

(* A pak that comes or goes is an entry of the quake directory. *)
ArchiveEdit(a, new) ==
    LET entry == disk[a].there # new.there
    IN  /\ edits < MaxEdits
        /\ disk[a] # new
        /\ edits' = edits + 1
        /\ disk' = [disk EXCEPT ![a] = new]
        /\ stamp' = [s \in Stores |-> IF s = a \/ (entry /\ s = Base /\ a \in Paks)
                                      THEN clock ELSE stamp[s]]
        /\ blind' = IF a \in Paks /\ clock \in {stamp[a], stamp[Base]}
                    THEN edits' ELSE blind
        /\ swapped' = swapped \cup {a}
        /\ UNCHANGED <<clock, game, cached>>

Repack(a, files) == ArchiveEdit(a, [there |-> TRUE, ok |-> TRUE, files |-> files])
Damage(a) == disk[a].there /\ ArchiveEdit(a, [there |-> TRUE, ok |-> FALSE, files |-> <<>>])
Delete(a) == ArchiveEdit(a, [there |-> FALSE, ok |-> TRUE, files |-> <<>>])

Tick ==
    /\ clock < MaxClock
    /\ clock' = clock + 1
    /\ UNCHANGED <<disk, stamp, edits, game, cached, blind, swapped>>

(***************************************************************************)
(* The game: build_mounts takes the explicit mounts, then the quake        *)
(* directory; one mount that fails ends the program.                       *)
(***************************************************************************)
Launch(specs) ==
    LET all == specs \o QuakeMounts
    IN  /\ ~game.up
        /\ \A i \in DOMAIN all : Mountable(all[i])
        /\ game' = [up |-> TRUE,
                    mounts |-> [i \in DOMAIN all |->
                                   Mount(all[i].point, all[i].kind, all[i].src)]]
        /\ swapped' = {}
        /\ UNCHANGED <<disk, stamp, clock, edits, cached, blind>>

Quit ==
    /\ game.up
    /\ game' = NoGame
    /\ UNCHANGED <<disk, stamp, clock, edits, cached, blind, swapped>>

(***************************************************************************)
(* tools quake index: builds and writes; the process may die in between.   *)
(***************************************************************************)
QuakeIndexTool ==
    /\ Buildable
    /\ cached' = Built
    /\ UNCHANGED <<disk, stamp, clock, edits, game, blind, swapped>>

QuakeIndexKilled ==
    /\ Buildable /\ edits < MaxEdits
    /\ edits' = edits + 1
    /\ cached' \in CutsOf(Built)
    /\ UNCHANGED <<disk, stamp, clock, game, blind, swapped>>

UserEdits ==
    \/ \E s \in Dirs : \E i \in DOMAIN Names[s] :
          \/ \E d \in Contents : WriteFile(s, Names[s][i], d)
          \/ RemoveFile(s, Names[s][i])
    \/ \E a \in Archives : \/ \E p \in Packings[a] : Repack(a, p)
                           \/ Damage(a)
                           \/ Delete(a)
    \/ Tick

QuakeNext ==
    \/ UserEdits
    \/ \E specs \in CommandLines : Launch(specs)
    \/ Quit
    \/ QuakeIndexTool
    \/ QuakeIndexKilled

QuakeSpec == QuakeInit /\ [][QuakeNext]_qvars
-----------------------------------------------------------------------------
(* A lookup that finds a file reads it, and a read only fails where the    *)
(* archive it would be taken from was changed under the running game.      *)
ExistsIsReadable(p) ==
    LET r == Read(p)
    IN  /\ r.is = "data" => Exists(p)
        /\ Exists(p) => r.is # "none"
        /\ r.is = "error" => /\ game.mounts[r.mount].kind = "pk3"
                             /\ game.mounts[r.mount].src \in swapped

(* A name a listing gives as a file can be found, and what can be found is *)
(* in the listing of its directory.                                        *)
ListingAgrees(p) ==
    /\ Exists(p) => \E e \in ListDir(Front(p)) : e.name = Last(p)
    /\ \A e \in ListDir(Front(p)) : ~e.isDir => Exists(Append(Front(p), e.name))

(* The mount the resolver reports for a key is the mount the manager then  *)
(* reads the asset from, unless a mount at another point shadows it; what  *)
(* could be read the resolver misses only if it comes from such a mount.   *)
ResolverAgrees(p) ==
    LET r == Read(p)
        w == Winner(p)
    IN  r.is = "data" =>
            IF w = 0 THEN game.mounts[r.mount].point # VRoot
            ELSE r.mount = w \/ (r.mount < w /\ game.mounts[r.mount].point # VRoot)

(* read, exists, list_dir and explain_mounts each walk the mounts for      *)
(* themselves, and the resolver walks what the last of them says: they all *)
(* tell of the same file, whatever is mounted where and whatever becomes   *)
(* of directories and archives (vfs.rs:224, 267, 292, 310,                 *)
(* asset_resolver.rs:395, 442).                                            *)
LookupsAgree ==
    \A p \in VPaths : ExistsIsReadable(p) /\ ListingAgrees(p) /\ ResolverAgrees(p)

(* An index file accepted for its fingerprint is the index a scan would    *)
(* build, unless the directory was changed in a way the fingerprint has no *)
(* part in, or the file was cut short (quake_index.rs:155, 647).           *)
IndexFresh ==
    Accepted /\ cached.knows >= blind => Buildable /\ cached.entries = BuiltEntries

(* quake_which names the file the game reads: for a game with no mounts    *)
(* but the quake directory's, whose archives are as they were mounted, a   *)
(* new index has a key exactly when the file system serves it, from the    *)
(* same store and with the same contents, if no file of that key is        *)
(* spelled in upper case (quake_index.rs:198, 456; vfs.rs:267).            *)
OneSpelling(k) ==
    \A o \in DOMAIN IndexedStores : \A i \in DOMAIN disk[IndexedStores[o]].files :
        LET n == disk[IndexedStores[o]].files[i].name IN Folded(n) = k => n = k
WhichIsServed ==
    game.up /\ swapped = {} /\ Len(game.mounts) = Len(QuakeMounts) =>
        \A n \in DOMAIN KeyOrder :
            LET k == KeyOrder[n]
                r == Read(VRoot \o k)
            IN  OneSpelling(k) =>
                    /\ Indexed(Built, k) <=> r.is = "data"
                    /\ r.is = "data" => /\ Which(Built, k).data = r.data
                                        /\ Which(Built, k).src = game.mounts[r.mount].src

(* What the index says of a key is what the directory has and the game     *)
(* reads, whether it was taken from its file or built.                     *)
IndexTells == QuakeTypeOK /\ IndexFresh /\ WhichIsServed
=============================================================================
