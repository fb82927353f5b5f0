------------------------------ MODULE RunnerGui ------------------------------
(***************************************************************************)
(* The runner GUI while it runs: the lanes that start, watch and stop the  *)
(* repository's programs, the log each lane shows, the build manifest and  *)
(* the asset statistics the panel keeps of them, and closing.              *)
(*                                                                         *)
(* A program prints to two pipes; a thread per pipe forwards its lines to  *)
(* the channel of the run that started it.  A frame polls every lane first *)
(* and then draws, serving at most one click; programs and threads go on   *)
(* at any time between, and after the window has asked to close.           *)
(***************************************************************************)
EXTENDS Integers, FiniteSets, Sequences

CONSTANTS
    Roots,       \* valid repository roots the user may choose
    Jobs,        \* [lane -> what its buttons start]
    Prints,      \* [job -> [stream -> the lines it prints]]
    Builders,    \* the jobs that write the build manifest: content build
    Cleaners,    \* the jobs that remove it: content clean
    ContentJobs, \* the jobs whose buttons are grey while tools runs
    LogMax,      \* LOG_MAX_LINES
    MaxStarts,   \* how many programs are started
    MaxRefusals, \* how often the operating system fails to start or wait
    MaxClears    \* how often a log is cleared by its button

Lanes == DOMAIN Jobs
Streams == {"stdout", "stderr"}
Tab == [l \in Lanes |-> IF l \in {"server", "client"} THEN "net" ELSE l]

(* The tools lane alone starts what writes the manifest or removes it.     *)
ASSUME GuiAssumption ==
    /\ IsFiniteSet(Lanes) /\ {"pallet", "tools"} \subseteq Lanes
    /\ \A l \in Lanes : \A j \in Jobs[l] :
          /\ Prints[j] \in [Streams -> Seq(STRING)]
          /\ j \in Builders \cup Cleaners => l = "tools"
    /\ "none" \notin Roots
    /\ LogMax \in Nat

VARIABLES
    gui,       \* RunnerApp: root, tab, lanes, manifest, statistics
    procs,     \* the programs started so far
    manifests, \* [root -> build_manifest.txt: the run that wrote it, or 0]
    phase,     \* of the window: "events", Drawing, "closing", "leaving", "gone"
    refusals, clears,
    whole,     \* history: [lane -> no line of its log was dropped]
    unnoticed, \* history: runs that ended with no frame between start and end
    shrunk     \* history: pallet's log lost lines since the last look for
               \* statistics

gvars == <<gui, procs, manifests, phase, refusals, clears, whole, unnoticed, shrunk>>

NotLooked == [is |-> "none", root |-> "none", by |-> 0]
NewLane == [logs |-> <<>>, child |-> 0, channel |-> 0, chan |-> <<>>, exit |-> "none"]

GuiInit ==
    /\ \E r \in Roots \cup {"none"} :
         gui = [root |-> r, tab |-> "pallet", lanes |-> [l \in Lanes |-> NewLane],
                shown |-> NotLooked, ran |-> FALSE, stats |-> [len |-> 0, lines |-> <<>>]]
    /\ procs = <<>> /\ manifests = [r \in Roots |-> 0]
    /\ phase = "events" /\ refusals = 0 /\ clears = 0
    /\ whole = [l \in Lanes |-> TRUE] /\ unnoticed = {} /\ shrunk = FALSE

-----------------------------------------------------------------------------
(* The programs, and the threads that read their pipes.                     *)

Open == phase /= "gone"
\* A frame while the window is open, and the last one after it has closed.
Drawing == {"drawing", "late"}
Alive(r) == ~procs[r].ended

\* A line, and (history) which one of its stream's it is.
Line(r, s, n, text) == [run |-> r, stream |-> s, nth |-> n, text |-> text]
\* How many lines a program has printed to a stream.
Printed(r, s) == Len(Prints[procs[r].job][s]) - Len(procs[r].todo[s])

PrintLine(r, s) ==
    /\ Alive(r) /\ procs[r].todo[s] /= <<>>
    /\ procs' = [procs EXCEPT ![r].todo[s] = Tail(@),
                  ![r].pipe[s] = Append(@, Line(r, s, Printed(r, s) + 1, Head(procs[r].todo[s])))]
    /\ UNCHANGED <<gui, manifests, phase, refusals, clears, whole, unnoticed, shrunk>>

WriteManifest(r) ==
    /\ Alive(r) /\ ~procs[r].wrote /\ procs[r].job \in Builders \cup Cleaners
    /\ procs' = [procs EXCEPT ![r].wrote = TRUE]
    /\ manifests' = [manifests EXCEPT ![procs[r].root] = IF procs[r].job \in Builders THEN r ELSE 0]
    /\ UNCHANGED <<gui, phase, refusals, clears, whole, unnoticed, shrunk>>

\* A program may end at any point, what it had yet to print unprinted.
Exit(r) ==
    /\ Alive(r)
    /\ procs' = [procs EXCEPT ![r].ended = TRUE]
    /\ UNCHANGED <<gui, manifests, phase, refusals, clears, whole, unnoticed, shrunk>>

\* Lines of a run whose receiver was replaced are lost.
Forward(r, s) ==
    /\ Open /\ procs[r].pipe[s] /= <<>>
    /\ procs' = [procs EXCEPT ![r].pipe[s] = Tail(@)]
    /\ gui' = IF gui.lanes[procs[r].lane].channel = r
              THEN [gui EXCEPT !.lanes[procs[r].lane].chan =
                                 Append(@, Head(procs[r].pipe[s]))]
              ELSE gui
    /\ UNCHANGED <<manifests, phase, refusals, clears, whole, unnoticed, shrunk>>

-----------------------------------------------------------------------------
(* A lane: ProcessLane.                                                     *)

System(text) == Line(0, "system", 0, text)
\* What the log keeps of the lines it is given.
Latest(lines) ==
    SubSeq(lines, IF Len(lines) > LogMax THEN Len(lines) - LogMax + 1 ELSE 1, Len(lines))
PushLine(lane, line) == [lane EXCEPT !.logs = Latest(Append(@, line))]
Overflows(lane, n) == Len(lane.logs) + n > LogMax

Drained(lane) == [lane EXCEPT !.logs = Latest(lane.logs \o lane.chan), !.chan = <<>>]
Ended(lane) == [lane EXCEPT !.child = 0, !.exit = "done"]
Abandoned(lane, text) == [PushLine(lane, System(text)) EXCEPT !.child = 0]
\* try_wait may fail: the lane then forgets its child.
Waited(lane, fails) ==
    IF lane.child = 0 THEN lane
    ELSE IF fails THEN Abandoned(lane, "Process wait failed")
    ELSE IF procs[lane.child].ended THEN Ended(lane) ELSE lane

\* Mutant: with its child the lane gives up the channel.
PollDropsChannel(lane, fails) ==
    LET l == Waited(Drained(lane), fails)
    IN IF l.child = 0 THEN [l EXCEPT !.channel = 0] ELSE l

Poll(lane, fails) == Waited(Drained(lane), fails)

Started(r) == [NewLane EXCEPT !.child = r, !.channel = r]
\* A program that cannot be spawned leaves the cleared log, the old channel
\* and the old exit code.
NotSpawned(lane) == PushLine([lane EXCEPT !.logs = <<>>], System("Failed to start process"))
\* kill and wait: the child has ended when they are through.
Stopped(lane, fails) ==
    IF lane.child = 0 THEN lane
    ELSE IF fails THEN Abandoned(lane, "Process stop failed") ELSE Ended(lane)

KilledWith(r) == [procs EXCEPT ![r].ended = TRUE]
Children == {gui.lanes[l].child : l \in Lanes} \ {0}
KillAll == [r \in DOMAIN procs |-> IF r \in Children THEN [procs[r] EXCEPT !.ended = TRUE] ELSE procs[r]]

Refuses(n) == refusals + n <= MaxRefusals /\ refusals' = refusals + n
Some(fails) == IF fails THEN 1 ELSE 0

-----------------------------------------------------------------------------
(* What the panel keeps of its lanes.                                       *)

\* The lines from the last "asset stats:" on, while they belong to it.
Extract(logs) ==
    LET heads == {i \in DOMAIN logs : logs[i].text = "asset stats:"}
        from == CHOOSE i \in heads : \A j \in heads : j <= i
        ends == {i \in from .. Len(logs) : logs[i].text \notin {"asset stats:", "entries:"}}
        to == IF ends = {} THEN Len(logs) ELSE (CHOOSE i \in ends : \A j \in ends : i <= j) - 1
    IN IF heads = {} THEN <<>> ELSE [i \in 1 .. to - from + 1 |-> logs[from + i - 1].text]
\* They are only looked for when the number of lines has changed.
Stats(old, logs) ==
    IF Len(logs) = old.len THEN old ELSE [len |-> Len(logs), lines |-> Extract(logs)]

Manifest(root) ==
    IF root = "none" \/ manifests[root] = 0
    THEN [is |-> "error", root |-> root, by |-> 0]
    ELSE [is |-> "manifest", root |-> root, by |-> manifests[root]]
Refreshed(g) == [g EXCEPT !.shown = Manifest(g.root)]
\* The tools tab looks when nothing was looked up for this root.
Drawn(g) == IF g.tab = "tools" /\ g.shown = NotLooked THEN Refreshed(g) ELSE g

-----------------------------------------------------------------------------
(* A frame.                                                                 *)

PollAll ==
    /\ phase \in {"events", "closing"}
    /\ phase' = IF phase = "events" THEN "drawing" ELSE "late"
    /\ \E failing \in SUBSET {l \in Lanes : gui.lanes[l].child /= 0} :
         /\ Refuses(Cardinality(failing))
         /\ \E lanes \in {[l \in Lanes |-> Poll(gui.lanes[l], l \in failing)]} :
              LET running == lanes["tools"].child /= 0
                  g == [gui EXCEPT !.lanes = lanes, !.ran = running,
                                   !.stats = Stats(@, lanes["pallet"].logs)]
                  child == gui.lanes["tools"].child
                  full == {l \in Lanes :
                             Overflows(gui.lanes[l], Len(gui.lanes[l].chan) + Some(l \in failing))}
              IN /\ gui' = IF gui.ran /\ ~running THEN Refreshed(g) ELSE g
                 /\ whole' = [l \in Lanes |-> whole[l] /\ l \notin full]
                 /\ shrunk' = (g.stats = gui.stats /\ (shrunk \/ "pallet" \in full))
                 /\ unnoticed' = IF child /= 0 /\ ~running /\ (~gui.ran \/ "tools" \in failing)
                                 THEN unnoticed \cup {child} ELSE unnoticed
    /\ UNCHANGED <<procs, manifests, clears>>

EndsFrame ==
    /\ phase \in Drawing
    /\ phase' = IF phase = "drawing" THEN "events" ELSE "leaving"
Draws(g) == gui' = Drawn(g)
WithLane(l, lane) == [gui EXCEPT !.lanes[l] = lane]
Shrinks(l, full) ==
    /\ whole' = [whole EXCEPT ![l] = @ /\ ~full]
    /\ shrunk' = (shrunk \/ (full /\ l = "pallet"))

NoClick ==
    /\ EndsFrame /\ Draws(gui)
    /\ UNCHANGED <<procs, manifests, refusals, clears, whole, unnoticed, shrunk>>

ChooseTab(t) ==
    /\ EndsFrame /\ Draws([gui EXCEPT !.tab = t])
    /\ UNCHANGED <<procs, manifests, refusals, clears, whole, unnoticed, shrunk>>

\* "none" stands for a directory that validate_repo_root refuses.
ChooseRoot(r) ==
    /\ EndsFrame /\ Draws([gui EXCEPT !.root = r, !.shown = NotLooked])
    /\ UNCHANGED <<procs, manifests, refusals, clears, whole, unnoticed, shrunk>>

Refresh ==
    /\ EndsFrame /\ gui.tab = "tools" /\ gui' = Refreshed(gui)
    /\ UNCHANGED <<procs, manifests, refusals, clears, whole, unnoticed, shrunk>>

CanStart(l, j) ==
    /\ EndsFrame /\ gui.tab = Tab[l] /\ gui.root /= "none"
    /\ j \in ContentJobs => gui.lanes[l].child = 0

Run(l, j) ==
    /\ CanStart(l, j) /\ gui.lanes[l].child = 0
    /\ Len(procs) < MaxStarts
    /\ procs' = Append(procs, [lane |-> l, job |-> j, root |-> gui.root, todo |-> Prints[j],
                               pipe |-> [s \in Streams |-> <<>>], wrote |-> FALSE, ended |-> FALSE])
    /\ Draws(WithLane(l, Started(Len(procs) + 1)))
    /\ whole' = [whole EXCEPT ![l] = TRUE]
    /\ shrunk' = (shrunk \/ l = "pallet")
    /\ UNCHANGED <<manifests, refusals, clears, unnoticed>>

RunFails(l, j) ==
    /\ CanStart(l, j) /\ gui.lanes[l].child = 0
    /\ Refuses(1)
    /\ Draws(WithLane(l, NotSpawned(gui.lanes[l])))
    /\ whole' = [whole EXCEPT ![l] = FALSE]
    /\ shrunk' = (shrunk \/ l = "pallet")
    /\ UNCHANGED <<procs, manifests, clears, unnoticed>>

RunRefused(l, j) ==
    /\ CanStart(l, j) /\ gui.lanes[l].child /= 0
    /\ Draws(WithLane(l, PushLine(gui.lanes[l], System("Process already running."))))
    /\ Shrinks(l, Overflows(gui.lanes[l], 1))
    /\ UNCHANGED <<procs, manifests, refusals, clears, unnoticed>>

Stop(l) ==
    /\ EndsFrame /\ gui.tab = Tab[l] /\ gui.lanes[l].child /= 0
    /\ procs' = KilledWith(gui.lanes[l].child)
    /\ \E fails \in BOOLEAN :
         /\ Refuses(Some(fails))
         /\ Draws(WithLane(l, Stopped(gui.lanes[l], fails)))
         /\ Shrinks(l, fails /\ Overflows(gui.lanes[l], 1))
    /\ UNCHANGED <<manifests, clears, unnoticed>>

Clear(l) ==
    /\ EndsFrame /\ gui.tab = Tab[l] /\ clears < MaxClears
    /\ Draws(WithLane(l, [gui.lanes[l] EXCEPT !.logs = <<>>]))
    /\ clears' = clears + 1
    /\ whole' = [whole EXCEPT ![l] = FALSE]
    /\ shrunk' = (shrunk \/ l = "pallet")
    /\ UNCHANGED <<procs, manifests, refusals, unnoticed>>

-----------------------------------------------------------------------------
(* Closing.  The window's close, or the panel's, stops every lane and       *)
(* leaves the event loop; running out of graphics memory only leaves it.    *)
(* The loop may yet deliver a redraw that was queued, in which a program can *)
(* be started, and calls back once when it is left.                         *)
(* A wait that fails there would only add a line to a log nobody sees.      *)

StopsAll ==
    /\ procs' = KillAll
    /\ gui' = [gui EXCEPT !.lanes = [l \in Lanes |-> Stopped(gui.lanes[l], FALSE)]]
Closing == phase' = IF phase = "late" THEN "leaving" ELSE "closing"
CloseWindow ==
    /\ phase \in {"events"} \cup Drawing /\ StopsAll
    /\ Closing
    /\ UNCHANGED <<manifests, refusals, clears, whole, unnoticed, shrunk>>
OutOfMemory ==
    /\ phase \in Drawing
    /\ Closing
    /\ UNCHANGED <<gui, procs, manifests, refusals, clears, whole, unnoticed, shrunk>>
LoopExiting ==
    /\ phase \in {"closing", "leaving"} /\ StopsAll /\ phase' = "gone"
    /\ UNCHANGED <<manifests, refusals, clears, whole, unnoticed, shrunk>>

GuiNext ==
    \/ \E r \in DOMAIN procs :
         \/ \E s \in Streams : PrintLine(r, s) \/ Forward(r, s)
         \/ WriteManifest(r)
         \/ Exit(r)
    \/ PollAll
    \/ NoClick \/ Refresh
    \/ \E t \in {Tab[l] : l \in Lanes} : ChooseTab(t)
    \/ \E r \in Roots \cup {"none"} : ChooseRoot(r)
    \/ \E l \in Lanes :
         \/ \E j \in Jobs[l] : Run(l, j) \/ RunFails(l, j) \/ RunRefused(l, j)
         \/ Stop(l)
         \/ Clear(l)
    \/ CloseWindow \/ OutOfMemory \/ LoopExiting

GuiSpec == GuiInit /\ [][GuiNext]_gvars

-----------------------------------------------------------------------------
(* Properties.                                                              *)

GuiTypeOK ==
    /\ gui.root \in Roots \cup {"none"} /\ gui.tab \in {Tab[l] : l \in Lanes}
    /\ \A l \in Lanes : /\ gui.lanes[l].child \in {0, gui.lanes[l].channel}
                        /\ gui.lanes[l].channel \in 0 .. Len(procs)
                        /\ Len(gui.lanes[l].logs) <= LogMax
    /\ \A r \in DOMAIN procs : procs[r].lane \in Lanes /\ procs[r].job \in Jobs[procs[r].lane]
    /\ \A root \in Roots : manifests[root] \in 0 .. Len(procs)
    /\ phase \in {"events", "closing", "leaving", "gone"} \cup Drawing

\* Of what a run has printed to a stream, some lines have the last numbers, in
\* order, without a gap and with their texts: all of it, or an end.
From(lines, r, s) == {i \in DOMAIN lines : lines[i].run = r /\ lines[i].stream = s}
EndOf(lines, r, s, texts, last) ==
    /\ \A i \in From(lines, r, s) :
          lines[i].nth \in 1 .. last /\ lines[i].text = texts[lines[i].nth]
    /\ \A i, j \in From(lines, r, s) : i < j => lines[i].nth < lines[j].nth
    /\ \A n \in 1 .. last :
          \/ \E i \in From(lines, r, s) : lines[i].nth = n
          \/ \A i \in From(lines, r, s) : n < lines[i].nth
AllOf(lines, r, s, last) ==
    \A n \in 1 .. last : \E i \in From(lines, r, s) : lines[i].nth = n

\* A lane shows its latest run alone; what it has received of a stream, and
\* what is under way, is the end of what that run printed, in order, and all
\* of it unless the log was cleared or full: also when the run has ended, or
\* was stopped, with lines still in its pipes.
Seen(l, r, s) == gui.lanes[l].logs \o (gui.lanes[l].chan \o procs[r].pipe[s])
LogTrue(l) ==
    LET r == gui.lanes[l].channel
    IN /\ \A i \in DOMAIN gui.lanes[l].logs : gui.lanes[l].logs[i].run \in {0, r}
       /\ r /= 0 => \A s \in Streams :
            /\ EndOf(Seen(l, r, s), r, s, Prints[procs[r].job][s], Printed(r, s))
            /\ whole[l] => AllOf(Seen(l, r, s), r, s, Printed(r, s))
       /\ r = 0 => \A p \in DOMAIN procs : procs[p].lane /= l

\* The manifest shown is one of the repository chosen; it is the one on the
\* disk, unless a run that the tools lane watches, or that it watched until
\* this frame, has written since, or one that the GUI did not see running.
ManifestTold ==
    /\ gui.shown /= NotLooked => gui.shown.root = gui.root
    /\ gui.tab = "tools" /\ phase = "events" => gui.shown /= NotLooked
    /\ gui.shown /= NotLooked /\ gui.shown /= Manifest(gui.root) /\ phase \in {"events", "drawing"} =>
         \/ gui.ran \/ gui.lanes["tools"].child /= 0
         \/ unnoticed /= {}
EachLane == \A l \in Lanes : LogTrue(l)

\* Nothing the GUI watched outlives it, whenever the window was closed; only
\* a child whose wait failed is left behind.
NothingLeft == phase = "gone" => Children = {} /\
    (refusals = 0 => \A r \in DOMAIN procs : procs[r].ended)

\* The statistics shown are the last the log holds, unless lines were
\* dropped and the log has as many again as when the statistics were found.
StatsTold ==
    phase \in Drawing /\ ~shrunk => gui.stats.lines = Extract(gui.lanes["pallet"].logs)

LanesTrue == GuiTypeOK /\ EachLane /\ ManifestTold /\ NothingLeft /\ StatsTold
=============================================================================
