---------------------------- MODULE AssetManager ----------------------------
(***************************************************************************)
(* The asset manager of engine_core with the console commands of pallet    *)
(* that reload and purge, on top of the job system that Jobs models.       *)
(*                                                                         *)
(* A request or an accepted reload of a key queues a load of its slot.     *)
(* Each frame the main thread runs the callbacks of completed jobs and     *)
(* then starts queued loads, the ones of high priority first: an Io job    *)
(* reads the file, its callback submits a Cpu job that decodes it, and     *)
(* that one's callback publishes the result.  The console commands are Io  *)
(* jobs: they reload and purge on a worker thread, and a reload command    *)
(* keeps its worker until it sees the outcome or its deadline passes.      *)
(*                                                                         *)
(* request, reload, purge and the starting of loads hold the manager's     *)
(* lock throughout, so each is a step; starting loads is one step per      *)
(* load, during which `at' keeps the others out.  A file is its version    *)
(* and whether it is there and decodes.  Decode time counts against the    *)
(* budget in steps of Cost.                                                *)
(***************************************************************************)
EXTENDS Integers, Sequences, FiniteSets, FiniteSetsExt

CONSTANTS
  Key,           \* asset keys
  MaxSlots,      \* bound: requests stop when so many slots were made
  Priority,      \* priorities, 1 the highest
  Opts,          \* RequestOpts in use
  Budget,        \* decode_budget_ms_per_tick
  Cost,          \* the time a decode may take
  Workers,       \* worker threads of each queue
  Capacity,      \* capacity of the queues
  MaxEdits,      \* bound: edits of files
  MaxCommands,   \* bound: console commands
  MaxReloads,    \* bound: reloads by the main thread
  MaxCancels,    \* bound: cancellations
  MaxPanics,     \* bound: decoders that panic
  None

Queue == {"io", "cpu"}
FileKinds == {"good", "bad", "gone"}

ASSUME AssetAssumption ==
  /\ {MaxSlots, MaxEdits, MaxCommands, MaxReloads, MaxCancels, MaxPanics} \subseteq Nat
  /\ Budget \in Nat /\ Cost \in Nat /\ Capacity \in Nat \ {0}
  /\ Workers \in [Queue -> Nat \ {0}]
  /\ IsFiniteSet(Priority) /\ Priority # {} /\ Priority = 1 .. Cardinality(Priority)
  /\ Opts \subseteq [prio : Priority, tag : {"boot", "streaming", "background"}]
  /\ None \notin Nat /\ None \notin [ver : Nat, kind : FileKinds]

VARIABLES
  entries,    \* the slot of each cached key
  slot,       \* the slots made so far, in the order they were made
  pend,       \* pending_high, pending_normal, pending_low
  spent,      \* budget spent in this frame, capped at Budget
  waiting,    \* the entries of the job queues
  running,    \* jobs in the hands of workers
  channel,    \* completions
  stopped,    \* ids of jobs whose JobHandle was cancelled
  nextJob,    \* id of the next job
  at,         \* where the main thread is: "idle", "pump" or "drain"
  draining,   \* the priority whose queue is drained, and how many are left
  disk,       \* the files
  wanted,     \* history: version of the file when its load was last accepted
              \* or the key purged
  tooLate,    \* history: slots cancelled when their decode had completed,
              \* until they are reloaded
  edits, commands, reloads, cancels, panics  \* how often so far

jobVars == <<waiting, running, channel, stopped, nextJob>>
frameVars == <<at, draining>>
counts == <<edits, commands, reloads, cancels, panics>>
history == <<wanted, tooLate>>
vars == <<entries, slot, pend, spent, jobVars, frameVars, disk, history, counts>>

Init ==
  /\ entries = [k \in Key |-> None]
  /\ slot = <<>>
  /\ pend = [p \in Priority |-> <<>>]
  /\ spent = 0
  /\ waiting = [q \in Queue |-> <<>>]
  /\ running = [q \in Queue |-> {}]
  /\ channel = <<>>
  /\ stopped = {}
  /\ nextJob = 0
  /\ at = "idle"
  /\ draining = [prio |-> 1, left |-> 0]
  /\ disk = [k \in Key |-> [ver |-> 0, kind |-> "good"]]
  /\ wanted = [k \in Key |-> 0]
  /\ tooLate = {}
  /\ edits = 0 /\ commands = 0 /\ reloads = 0 /\ cancels = 0 /\ panics = 0

-----------------------------------------------------------------------------
(* The slots.                                                              *)

Slots == DOMAIN slot
NewSlot(k) ==
  [key |-> k, status |-> "Queued", val |-> None, ver |-> 0, err |-> FALSE,
   pending |-> FALSE, inFlight |-> FALSE, retain |-> FALSE, cancelled |-> FALSE,
   job |-> None]

\* mark_loading, mark_queued, finish and fail of AssetSlot.
Loading(s) == [s EXCEPT !.status = "Loading", !.pending = FALSE, !.inFlight = TRUE]
Requeued(s) == [s EXCEPT !.status = "Queued", !.pending = TRUE, !.inFlight = FALSE]
Finished(s, v) ==
  [s EXCEPT !.val = v, !.ver = @ + 1, !.err = FALSE, !.status = "Ready",
            !.inFlight = FALSE, !.pending = FALSE, !.retain = FALSE]
Failed(s) ==
  [s EXCEPT !.err = TRUE,
            !.status = IF s.retain /\ s.val # None THEN "Ready" ELSE "Failed",
            !.inFlight = FALSE, !.pending = FALSE, !.retain = FALSE]

\* set_job_handle, cancel and purge of AssetSlot.
WithJob(s, id) == [s EXCEPT !.job = id]
Flagged(s) == [s EXCEPT !.cancelled = TRUE]
CancelledSlot(s) == IF s.status = "Ready" THEN Flagged(s) ELSE Failed(Flagged(s))
Purged(s) == [s EXCEPT !.status = "Failed", !.err = TRUE]

\* Mutant: a load whose job was started does not count.
IsPending(s) == s.pending

\* A load of the slot is under way, so a reload joins it.
Busy(s) == s.pending \/ s.inFlight

\* Mutant: what is there is not kept.
RetainsNothing(s) == FALSE

Retains(s) == s.val # None

\* The slot of an accepted reload.
Reloading(s) ==
  [s EXCEPT !.pending = TRUE, !.inFlight = FALSE, !.status = "Queued", !.err = FALSE,
            !.job = None, !.retain = Retains(s), !.cancelled = FALSE]

-----------------------------------------------------------------------------
(* The job queues.                                                         *)

HasRoom(q) == Len(waiting[q]) < Capacity

\* A job is put on a queue; what it is for is its own affair.
Put(q, job) ==
  /\ waiting' = [waiting EXCEPT ![q] = Append(@, job)]
  /\ nextJob' = nextJob + 1
  /\ UNCHANGED <<running, channel, stopped>>

\* A worker takes the next job, or drops it if it was cancelled.
Take(q) ==
  /\ waiting[q] # <<>> /\ Cardinality(running[q]) < Workers[q]
  /\ waiting' = [waiting EXCEPT ![q] = Tail(@)]
  /\ LET job == Head(waiting[q])
     IN running' = [running EXCEPT ![q] =
                      IF job.id \in stopped THEN @ ELSE @ \cup {job}]
  /\ UNCHANGED <<entries, slot, pend, spent, channel, stopped, nextJob, frameVars,
                 disk, history, counts>>

\* The worker is done with a job and sends what it has for a completion.
Complete(q, job, sent) ==
  /\ running' = [running EXCEPT ![q] = @ \ {job}]
  /\ channel' = IF job.id \in stopped THEN channel ELSE channel \o sent
  /\ UNCHANGED <<waiting, stopped, nextJob>>

\* read_bytes on a worker.
Read(job) ==
  /\ job \in running["io"] /\ job.for = "read"
  /\ Complete("io", job, <<[job EXCEPT !.data = disk[slot[job.slot].key]]>>)
  /\ UNCHANGED <<entries, slot, pend, spent, frameVars, disk, history, counts>>

\* decode_for_kind on a worker, which a malformed file may make panic.
Decode(job) ==
  /\ job \in running["cpu"]
  /\ \/ /\ Complete("cpu", job, <<job>>)
        /\ UNCHANGED panics
     \/ /\ panics < MaxPanics /\ job.data.kind = "bad"
        /\ Complete("cpu", job, <<>>)
        /\ panics' = panics + 1
  /\ UNCHANGED <<entries, slot, pend, spent, frameVars, disk, history, edits,
                 commands, reloads, cancels>>

-----------------------------------------------------------------------------
(* request, reload, purge and cancel.                                      *)

Locked == at = "drain"
Enqueue(s, o) ==
  pend' = [pend EXCEPT ![o.prio] = Append(@, [slot |-> s, opts |-> o])]

\* request of a key that is not cached; one that is changes nothing.
Register(k, o) ==
  /\ entries[k] = None
  /\ LET s == Len(slot) + 1
         found == disk[k].kind # "gone"
     IN /\ entries' = [entries EXCEPT ![k] = s]
        /\ slot' = Append(slot, IF found THEN [NewSlot(k) EXCEPT !.pending = TRUE]
                                ELSE [NewSlot(k) EXCEPT !.status = "Failed", !.err = TRUE])
        /\ IF found THEN Enqueue(s, o) ELSE UNCHANGED pend
  /\ wanted' = [wanted EXCEPT ![k] = disk[k].ver]
  /\ UNCHANGED <<spent, disk, tooLate>>

Request(k, o) ==
  /\ at = "idle" /\ Len(slot) < MaxSlots
  /\ Register(k, o)
  /\ UNCHANGED <<jobVars, frameVars, counts>>

\* reload of a cached key whose file is found.
Requeue(k, o) ==
  /\ slot' = [slot EXCEPT ![entries[k]] = Reloading(@)]
  /\ Enqueue(entries[k], o)
  /\ wanted' = [wanted EXCEPT ![k] = disk[k].ver]
  /\ tooLate' = tooLate \ {entries[k]}
  /\ UNCHANGED <<entries, spent, disk>>

\* reload: it joins a load under way, and fails if the file is gone.
Reload(k, o) ==
  IF entries[k] = None THEN Register(k, o)
  ELSE IF Busy(slot[entries[k]]) \/ disk[k].kind = "gone"
  THEN UNCHANGED <<entries, slot, pend, spent, disk, history>>
  ELSE Requeue(k, o)

\* The main thread reloads a test map itself.
ReloadNow(k, o) ==
  /\ at = "idle" /\ reloads < MaxReloads
  /\ entries[k] # None
  /\ reloads' = reloads + 1
  /\ Reload(k, o)
  /\ UNCHANGED <<jobVars, frameVars, edits, commands, cancels, panics>>

\* AssetSlot::cancel, by way of a handle, on the main thread.
Cancel(s) ==
  /\ at = "idle" /\ cancels < MaxCancels
  /\ cancels' = cancels + 1
  /\ stopped' = IF slot[s].job = None THEN stopped ELSE stopped \cup {slot[s].job}
  /\ slot' = [slot EXCEPT ![s] = CancelledSlot(@)]
  /\ tooLate' = IF \E i \in DOMAIN channel : channel[i].for = "decode" /\ channel[i].slot = s
                THEN tooLate \cup {s} ELSE tooLate
  /\ UNCHANGED <<entries, pend, spent, waiting, running, channel, nextJob, frameVars,
                 disk, wanted, edits, commands, reloads, panics>>

\* Mutant: the entry is marked but stays.
EntryStays(k) == entries

WithoutEntry(k) == [entries EXCEPT ![k] = None]

\* The console commands dev_asset_reload and dev_asset_purge are Io jobs.
Command(k, for) ==
  /\ at = "idle" /\ commands < MaxCommands
  /\ HasRoom("io")
  /\ commands' = commands + 1
  /\ Put("io", [id |-> nextJob, for |-> for, key |-> k])
  /\ UNCHANGED <<entries, slot, pend, spent, frameVars, disk, history, edits, reloads,
                 cancels, panics>>

\* purge on a worker.
Purge(job) ==
  /\ job \in running["io"] /\ job.for = "purge" /\ ~Locked
  /\ Complete("io", job, <<>>)
  /\ LET s == entries[job.key]
     IN IF s = None THEN UNCHANGED <<entries, slot, history>>
        ELSE /\ entries' = WithoutEntry(job.key)
             /\ slot' = [slot EXCEPT ![s] = Purged(@)]
             /\ wanted' = [wanted EXCEPT ![job.key] = disk[job.key].ver]
             /\ UNCHANGED tooLate
  /\ UNCHANGED <<pend, spent, frameVars, disk, counts>>

HighBoot == [prio |-> 1, tag |-> "boot"]

\* A reload command reloads and waits for the outcome; without a file it is over.
BeginReload(job) ==
  /\ job \in running["io"] /\ job.for = "reload" /\ ~Locked
  /\ Reload(job.key, HighBoot)
  /\ IF entries[job.key] # None /\ ~Busy(slot[entries[job.key]]) /\ disk[job.key].kind = "gone"
     THEN Complete("io", job, <<>>)
     ELSE /\ running' = [running EXCEPT !["io"] =
                           (@ \ {job}) \cup {[job EXCEPT !.for = "watch"]}]
          /\ UNCHANGED <<waiting, channel, stopped, nextJob>>
  /\ UNCHANGED <<frameVars, counts>>

\* It sees the outcome, or that the deadline has passed; what it prints then
\* changes nothing.
EndReload(job) ==
  /\ job \in running["io"] /\ job.for = "watch"
  /\ Complete("io", job, <<>>)
  /\ UNCHANGED <<entries, slot, pend, spent, frameVars, disk, history, counts>>

\* Somebody edits, breaks, removes or restores a file.
Edit(k) ==
  /\ edits < MaxEdits
  /\ edits' = edits + 1
  /\ \E kind \in FileKinds : disk' = [disk EXCEPT ![k] = [ver |-> @.ver + 1, kind |-> kind]]
  /\ UNCHANGED <<entries, slot, pend, spent, jobVars, frameVars, history, commands,
                 reloads, cancels, panics>>

-----------------------------------------------------------------------------
(* A frame of the main thread: begin_tick and pump.                        *)

Reset == 0

\* Each frame resets the budget; await_ready pumps without that.
BeginPump(reset) ==
  /\ at = "idle"
  /\ at' = "pump"
  /\ spent' = IF reset THEN Reset ELSE spent
  /\ UNCHANGED <<entries, slot, pend, jobVars, draining, disk, history, counts>>

Spend(ms) == spent' = IF spent + ms > Budget THEN Budget ELSE spent + ms

\* Mutant: the flag is not looked at again.
IgnoresFlag(s) == FALSE

IsCancelled(s) == slot[s].cancelled

\* The callback of a read: the file goes to a decoder if there is room.
ReadCallback(job) ==
  LET s == job.slot
      refused == job.data.kind = "gone" \/ IsCancelled(s) \/ ~HasRoom("cpu")
  IN /\ slot' = [slot EXCEPT ![s] = IF refused THEN Failed(@)
                                    ELSE WithJob(@, nextJob)]
     /\ waiting' = [waiting EXCEPT !["cpu"] = IF refused THEN @ ELSE
                      Append(@, [job EXCEPT !.id = nextJob, !.for = "decode"])]
     /\ nextJob' = IF refused THEN nextJob ELSE nextJob + 1
     /\ UNCHANGED spent

\* The callback of a decode publishes the result.
DecodeCallback(job) ==
  /\ slot' = [slot EXCEPT ![job.slot] =
                IF job.data.kind = "good" THEN Finished(@, job.data.ver) ELSE Failed(@)]
  /\ \E ms \in {0, Cost} : Spend(ms)
  /\ UNCHANGED <<waiting, nextJob>>

Callback ==
  /\ at = "pump" /\ channel # <<>>
  /\ channel' = Tail(channel)
  /\ LET job == Head(channel)
     IN IF job.for = "read" THEN ReadCallback(job) ELSE DecodeCallback(job)
  /\ UNCHANGED <<entries, pend, running, stopped, frameVars, disk, history, counts>>

\* drain_pending goes through the queues, highest priority first.
BeginDrain ==
  /\ at = "pump" /\ channel = <<>>
  /\ at' = "drain"
  /\ draining' = [prio |-> 1, left |-> Len(pend[1])]
  /\ UNCHANGED <<entries, slot, pend, spent, jobVars, disk, history, counts>>

NextPriority ==
  /\ at = "drain" /\ draining.left = 0
  /\ IF draining.prio = Max(Priority)
     THEN at' = "idle" /\ UNCHANGED draining
     ELSE /\ draining' = [prio |-> draining.prio + 1, left |-> Len(pend[draining.prio + 1])]
          /\ UNCHANGED at
  /\ UNCHANGED <<entries, slot, pend, spent, jobVars, disk, history, counts>>

\* should_throttle: high priority and Boot work pass; the rest waits while
\* there is no budget, and of low priority and background work also when it is spent.
Throttled(o) ==
  /\ o.prio # 1 /\ o.tag # "boot"
  /\ \/ Budget = 0
     \/ spent >= Budget /\ (o.tag = "background" \/ o.prio = Max(Priority))

\* Mutant: a load that finds no room is forgotten.
Forgotten(req) == <<>>

PutBack(req) == <<req>>

\* One round of schedule_queue with dispatch_request.
Dispatch ==
  /\ at = "drain" /\ draining.left > 0
  /\ draining' = [draining EXCEPT !.left = @ - 1]
  /\ LET p == draining.prio
         req == Head(pend[p])
         s == req.slot
     IN \/ /\ Throttled(req.opts)
           /\ pend' = [pend EXCEPT ![p] = Append(Tail(@), req)]
           /\ UNCHANGED <<slot, jobVars>>
        \/ /\ ~Throttled(req.opts) /\ IsCancelled(s)
           /\ slot' = [slot EXCEPT ![s] = Failed(@)]
           /\ pend' = [pend EXCEPT ![p] = Tail(@)]
           /\ UNCHANGED jobVars
        \/ /\ ~Throttled(req.opts) /\ ~IsCancelled(s) /\ HasRoom("io")
           /\ Put("io", [id |-> nextJob, for |-> "read", slot |-> s, data |-> None])
           /\ slot' = [slot EXCEPT ![s] = WithJob(Loading(@), nextJob)]
           /\ pend' = [pend EXCEPT ![p] = Tail(@)]
        \/ /\ ~Throttled(req.opts) /\ ~IsCancelled(s) /\ ~HasRoom("io")
           /\ slot' = [slot EXCEPT ![s] = Requeued(@)]
           /\ pend' = [pend EXCEPT ![p] = Tail(@) \o PutBack(req)]
           /\ UNCHANGED jobVars
  /\ UNCHANGED <<entries, spent, at, disk, history, counts>>
-----------------------------------------------------------------------------
WorkerStep(q) ==
  \/ Take(q)
  \/ \E job \in running[q] :
       Read(job) \/ Decode(job) \/ Purge(job) \/ BeginReload(job) \/ EndReload(job)

FrameStep == BeginPump(TRUE) \/ Callback \/ BeginDrain \/ NextPriority \/ Dispatch

Next ==
  \/ \E k \in Key, o \in Opts : Request(k, o) \/ ReloadNow(k, o)
  \/ \E s \in Slots : Cancel(s)
  \/ \E k \in Key, for \in {"reload", "purge"} : Command(k, for)
  \/ \E k \in Key : Edit(k)
  \/ \E q \in Queue : WorkerStep(q)
  \/ BeginPump(FALSE)
  \/ FrameStep

\* Frames are drawn, for await_ready pumps no longer than its timeout; worker
\* threads are scheduled, and one that wants the manager's lock gets it, for the
\* main thread holds it only while it drains.
Fairness ==
  /\ WF_vars(FrameStep) /\ SF_vars(BeginPump(TRUE))
  /\ \A q \in Queue : WF_vars(WorkerStep(q))
  /\ SF_vars(\E job \in running["io"] : Purge(job) \/ BeginReload(job))

Spec == Init /\ [][Next]_vars
FairSpec == Spec /\ Fairness

-----------------------------------------------------------------------------
\* The type of every variable.
TypeOK ==
  /\ entries \in [Key -> Slots \cup {None}]
  /\ \A s \in Slots :
       /\ slot[s].key \in Key
       /\ slot[s].status \in {"Queued", "Loading", "Ready", "Failed"}
       /\ slot[s].val \in Nat \cup {None} /\ slot[s].ver \in Nat
       /\ slot[s].job \in (0 .. nextJob - 1) \cup {None}
       /\ {slot[s].err, slot[s].pending, slot[s].inFlight, slot[s].retain,
           slot[s].cancelled} \subseteq BOOLEAN
  /\ \A p \in Priority : \A i \in DOMAIN pend[p] : pend[p][i].slot \in Slots
  /\ spent \in 0 .. Budget
  /\ \A q \in Queue : Len(waiting[q]) <= Capacity /\ Cardinality(running[q]) <= Workers[q]
  /\ stopped \subseteq 0 .. nextJob - 1
  /\ at \in {"idle", "pump", "drain"}
  /\ draining.prio \in Priority /\ draining.left \in 0 .. Len(pend[draining.prio])
  /\ disk \in [Key -> [ver : 0 .. MaxEdits, kind : FileKinds]]
  /\ wanted \in [Key -> 0 .. MaxEdits] /\ tooLate \subseteq Slots

Load == {"read", "decode"}
LoadsQueued(s) ==
  Cardinality({pi \in UNION {{p} \X DOMAIN pend[p] : p \in Priority} :
                 pend[pi[1]][pi[2]].slot = s})
IsLoad(job, s) == job.for \in Load /\ job.slot = s
LoadsInJobs(s) ==
  Cardinality({qi \in Queue \X (1 .. Capacity) :
                 qi[2] \in DOMAIN waiting[qi[1]] /\ IsLoad(waiting[qi[1]][qi[2]], s)})
    + Cardinality({job \in running["io"] \cup running["cpu"] : IsLoad(job, s)})
    + Cardinality({i \in DOMAIN channel : IsLoad(channel[i], s)})

\* Same-key requests coalesce: a slot is queued for loading, or has a job on
\* its way, exactly when its flags say so, and never twice, however requests,
\* reloads, full queues and purges follow each other.  A decoder that panics
\* leaves the flag without the job.
OneLoadPerSlot ==
  /\ TypeOK
  /\ cancels = 0 => \A s \in Slots :
       /\ LoadsQueued(s) = (IF slot[s].pending THEN 1 ELSE 0)
       /\ LoadsInJobs(s) <= (IF slot[s].inFlight THEN 1 ELSE 0)
       /\ slot[s].inFlight /\ panics = 0 => LoadsInJobs(s) = 1

\* What a cached slot holds after its last load was read from the file after
\* that load was accepted, and after the last purge of the key.
FreshAfterReload ==
  cancels = 0 => \A k \in Key :
    LET s == entries[k]
    IN s # None /\ ~Busy(slot[s]) /\ ~slot[s].err /\ slot[s].val # None
         => slot[s].val >= wanted[k]

\* The last good version stays active when a reload fails
\* (completed_checklists/CHECKLIST_3_ASSET_PLATFORM.md, "Failure policy").
LastGoodActive ==
  \A k \in Key :
    LET s == entries[k]
    IN s # None /\ ~Busy(slot[s]) /\ slot[s].val # None => slot[s].status = "Ready"

\* It does as long as nobody cancels.
LastGoodKept == cancels = 0 => LastGoodActive

\* So what a settled entry shows is the file as it was asked for last, or,
\* if that cannot be read, the last version that could.
CacheTrue == FreshAfterReload /\ LastGoodKept

\* A cancelled load is not published, wherever the cancellation finds it, unless
\* its decode had completed by then; a reload lifts the cancellation.  Cancelled
\* and reloaded, a slot may be loaded twice; a second cancellation then stops
\* only the load whose job the slot holds.
CancelStopsLoad ==
  [][\A s \in Slots : slot[s].cancelled /\ slot'[s].ver > slot[s].ver
       => s \in tooLate \/ (cancels > 1 /\ Head(channel).id # slot[s].job)]_vars

UnderWay(s) == s \in Slots /\ Busy(slot[s])

\* A load under way is settled in the end: a full queue, a spent budget and
\* reload commands that hold Io workers delay it, but nothing starves it.  Only a
\* decoder that panics does.
EveryLoadSettles ==
  \A s \in 1 .. MaxSlots :
    (UnderWay(s) /\ panics = 0) ~> (~UnderWay(s) \/ panics > 0)
=============================================================================
