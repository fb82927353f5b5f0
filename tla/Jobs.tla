-------------------------------- MODULE Jobs --------------------------------
(***************************************************************************)
(* The job system of engine_core: bounded queues of closures, the worker   *)
(* threads that serve them, and the completions that the main thread pumps.*)
(*                                                                         *)
(* The main thread submits, cancels, pumps and finally drops its handle;   *)
(* a completion callback runs inside the pump and may submit again, as the *)
(* asset manager's do.  In inline mode no workers are spawned and a job    *)
(* runs inside submit.                                                     *)
(*                                                                         *)
(* A step is what one lock or one atomic makes visible to other threads;   *)
(* two loads and stores in a row that no other thread can tell apart from  *)
(* one are one step.  A rejected submit (QueueFull, QueueClosed) changes   *)
(* nothing and is no step.                                                 *)
(***************************************************************************)
EXTENDS Integers, Sequences, FiniteSets

CONSTANTS
  Queue,      \* JobQueue: Io and Cpu
  Worker,     \* worker threads, which inline mode does not spawn
  Serves,     \* the queue each worker pops from
  Job,        \* jobs that may be submitted, each once
  Capacity,   \* capacity of every queue
  USIZE_MOD,  \* modulus of the depth and active counters
  None        \* no job, no queue

ASSUME JobsAssumption ==
  /\ Queue # {} /\ Serves \in [Worker -> Queue]
  /\ \A q \in Queue : \E w \in Worker : Serves[w] = q
  /\ Capacity \in Nat \ {0}
  /\ USIZE_MOD \in Nat \ {0}
  /\ IsFiniteSet(Worker) /\ Cardinality(Worker) < USIZE_MOD
  /\ None \notin Job \cup Queue
  /\ Capacity + Cardinality(Worker) < USIZE_MOD

VARIABLES
  mode,        \* JobsMode, never changed
  entries,     \* entries of each queue
  shutdown,    \* the queues' shutdown flag
  pc,          \* where each worker is
  holding,     \* the job a worker has popped
  depth,       \* io_depth, cpu_depth
  active,      \* io_active, cpu_active
  cancelled,   \* the cancelled flag of each job
  completions, \* the completion channel
  pumping,     \* the main thread is in pump_completions
  calling,     \* the job whose callback it is running
  adding,      \* the queue it has pushed to, its depth not yet counted
  owned,       \* the main thread still owns the Jobs handle
  sticky,      \* a sticky error has been set
  fate,        \* history: what has become of each job
  ran,         \* history: how often each job's closure was entered
  stageAtCancel, \* history: how far a job was when it was first cancelled
  started      \* history: the order in which jobs left each queue

workerVars == <<pc, holding, active>>
mainVars == <<pumping, calling, adding, owned>>
vars == <<mode, entries, shutdown, workerVars, depth, cancelled, completions,
          mainVars, sticky, fate, ran, stageAtCancel, started>>

Elements(s) == {s[i] : i \in DOMAIN s}
WrapInc(n) == IF n + 1 = USIZE_MOD THEN 0 ELSE n + 1
\* Mutant: a counter that stops at zero.
SaturatingDec(n) == IF n = 0 THEN 0 ELSE n - 1
WrapDec(n) == IF n = 0 THEN USIZE_MOD - 1 ELSE n - 1

Inline == mode = "Inline"

Init ==
  /\ mode \in {"Inline", "Threaded"}
  /\ entries = [q \in Queue |-> <<>>]
  /\ shutdown = FALSE
  /\ pc = [w \in Worker |-> IF Inline THEN "unborn" ELSE "pop"]
  /\ holding = [w \in Worker |-> None]
  /\ depth = [q \in Queue |-> 0]
  /\ active = [q \in Queue |-> 0]
  /\ cancelled = [j \in Job |-> FALSE]
  /\ completions = <<>>
  /\ pumping = FALSE
  /\ calling = None
  /\ adding = None
  /\ owned = TRUE
  /\ sticky = FALSE
  /\ fate = [j \in Job |-> "unsubmitted"]
  /\ ran = [j \in Job |-> 0]
  /\ stageAtCancel = [j \in Job |-> "never"]
  /\ started = [q \in Queue |-> <<>>]

-----------------------------------------------------------------------------
(* The main thread.                                                        *)

\* It can start a call on the handle: it holds one and is in no other call,
\* unless that is the callback it runs.
MayCall ==
  /\ owned
  /\ adding = None
  /\ pumping => calling # None

Waiting(q) == {w \in Worker : Serves[w] = q /\ pc[w] = "wait"}

\* Mutant: nobody is told about the new entry.
WakeNone(q) == pc' = pc

\* notify_one: one of the waiting workers, if any, goes for the lock again.
WakeOne(q) ==
  IF Waiting(q) = {} THEN pc' = pc
  ELSE \E w \in Waiting(q) : pc' = [pc EXCEPT ![w] = "pop"]

\* submit up to the push, which happens under the lock of the queue.
Submit(j, q) ==
  /\ MayCall /\ ~Inline /\ ~shutdown
  /\ fate[j] = "unsubmitted"
  /\ Len(entries[q]) < Capacity
  /\ entries' = [entries EXCEPT ![q] = Append(@, j)]
  /\ WakeOne(q)
  /\ adding' = q
  /\ fate' = [fate EXCEPT ![j] = "live"]
  /\ UNCHANGED <<mode, shutdown, holding, active, depth, cancelled, completions,
                 pumping, calling, owned, sticky, ran, stageAtCancel, started>>

\* The rest of enqueue: the depth is counted after the lock is released.
CountDepth ==
  /\ adding # None
  /\ depth' = [depth EXCEPT ![adding] = WrapInc(@)]
  /\ adding' = None
  /\ UNCHANGED <<mode, entries, shutdown, workerVars, cancelled, completions,
                 pumping, calling, owned, sticky, fate, ran, stageAtCancel, started>>

\* Mutant: the completion is sent twice.
SendTwice(j) == completions' = completions \o <<j, j>>

SendCompletion(j) == completions' = Append(completions, j)

\* submit in inline mode: the job runs at once and its completion is sent, or
\* it panics and leaves a sticky error.
SubmitInline(j) ==
  /\ MayCall /\ Inline
  /\ fate[j] = "unsubmitted"
  /\ ran' = [ran EXCEPT ![j] = @ + 1]
  /\ \/ /\ SendCompletion(j)
        /\ fate' = [fate EXCEPT ![j] = "live"]
        /\ UNCHANGED sticky
     \/ /\ sticky' = TRUE
        /\ fate' = [fate EXCEPT ![j] = "panicked"]
        /\ UNCHANGED completions
  /\ UNCHANGED <<mode, entries, shutdown, workerVars, depth, cancelled, mainVars,
                 stageAtCancel, started>>

\* How far a job has got: cancelling works up to the two checks in its runner.
Stage(j) ==
  IF \E w \in Worker : holding[w] = j /\ pc[w] \in {"execute", "report"} THEN "running"
  ELSE IF fate[j] = "live" /\ j \notin Elements(completions) THEN "pending"
  ELSE "sent"

\* JobHandle::cancel.
Cancel(j) ==
  /\ MayCall
  /\ fate[j] # "unsubmitted"
  /\ ~cancelled[j]
  /\ cancelled' = [cancelled EXCEPT ![j] = TRUE]
  /\ stageAtCancel' = [stageAtCancel EXCEPT ![j] = Stage(j)]
  /\ UNCHANGED <<mode, entries, shutdown, workerVars, depth, completions, mainVars,
                 sticky, fate, ran, started>>

\* pump_completions runs callbacks until the channel is empty.
BeginPump ==
  /\ owned /\ ~pumping /\ adding = None
  /\ pumping' = TRUE
  /\ UNCHANGED <<mode, entries, shutdown, workerVars, depth, cancelled, completions,
                 calling, adding, owned, sticky, fate, ran, stageAtCancel, started>>

RunCallback ==
  /\ pumping /\ calling = None
  /\ completions # <<>>
  /\ calling' = Head(completions)
  /\ completions' = Tail(completions)
  /\ fate' = [fate EXCEPT ![calling'] = "called"]
  /\ UNCHANGED <<mode, entries, shutdown, workerVars, depth, cancelled, pumping,
                 adding, owned, sticky, ran, stageAtCancel, started>>

EndCallback ==
  /\ calling # None /\ adding = None
  /\ calling' = None
  /\ UNCHANGED <<mode, entries, shutdown, workerVars, depth, cancelled, completions,
                 pumping, adding, owned, sticky, fate, ran, stageAtCancel, started>>

EndPump ==
  /\ pumping /\ calling = None
  /\ completions = <<>>
  /\ pumping' = FALSE
  /\ UNCHANGED <<mode, entries, shutdown, workerVars, depth, cancelled, completions,
                 calling, adding, owned, sticky, fate, ran, stageAtCancel, started>>

\* The main thread drops Jobs, and with it one reference to JobsInner.
DropHandle ==
  /\ owned /\ ~pumping /\ adding = None
  /\ owned' = FALSE
  /\ UNCHANGED <<mode, entries, shutdown, workerVars, depth, cancelled, completions,
                 pumping, calling, adding, sticky, fate, ran, stageAtCancel, started>>

\* The Arc that spawn_workers moves into the thread.
HoldsInner(w) == pc[w] \notin {"unborn", "exited"}

\* Drop of JobsInner, when the last reference is gone: shutdown, notify_all.
DropInner ==
  /\ ~owned /\ ~shutdown
  /\ \A w \in Worker : ~HoldsInner(w)
  /\ shutdown' = TRUE
  /\ pc' = [w \in Worker |-> IF pc[w] = "wait" THEN "pop" ELSE pc[w]]
  /\ UNCHANGED <<mode, entries, holding, active, depth, cancelled, completions,
                 mainVars, sticky, fate, ran, stageAtCancel, started>>

-----------------------------------------------------------------------------
(* A worker thread: worker_loop around pop and the runner built by submit. *)

\* Mutant: the newest entry is taken.
TakeNewest(q) == entries[q][Len(entries[q])]

FrontOf(q) == Head(entries[q])

\* Mutant: the entry stays in the queue.
KeepFront(q) == entries[q]

WithoutFront(q) == Tail(entries[q])

\* JobQueueState::pop under the lock, as far as it gets before it waits.
Pop(w) ==
  /\ pc[w] = "pop"
  /\ LET q == Serves[w]
         next == IF shutdown THEN "exited"
                 ELSE IF entries[q] = <<>> THEN "wait" ELSE "popped"
     IN /\ pc' = [pc EXCEPT ![w] = next]
        /\ IF next = "popped"
           THEN /\ holding' = [holding EXCEPT ![w] = FrontOf(q)]
                /\ entries' = [entries EXCEPT ![q] = WithoutFront(q)]
                /\ started' = [started EXCEPT ![q] = Append(@, FrontOf(q))]
           ELSE UNCHANGED <<holding, entries, started>>
  /\ UNCHANGED <<mode, shutdown, depth, active, cancelled, completions, mainVars,
                 sticky, fate, ran, stageAtCancel>>

\* Condvar::wait may return without a notification.
SpuriousWake(w) ==
  /\ pc[w] = "wait"
  /\ pc' = [pc EXCEPT ![w] = "pop"]
  /\ UNCHANGED <<mode, entries, shutdown, holding, depth, active, cancelled,
                 completions, mainVars, sticky, fate, ran, stageAtCancel, started>>

\* JobsInner::pop counts the depth down after the lock is released.
UncountDepth(w) ==
  /\ pc[w] = "popped"
  /\ depth' = [depth EXCEPT ![Serves[w]] = WrapDec(@)]
  /\ pc' = [pc EXCEPT ![w] = "check"]
  /\ UNCHANGED <<mode, entries, shutdown, holding, active, cancelled, completions,
                 mainVars, sticky, fate, ran, stageAtCancel, started>>

\* The job is dropped without having run or without reporting.
Skip(w) == fate' = [fate EXCEPT ![holding[w]] = "skipped"]

\* worker_loop: a cancelled job is dropped, another makes the worker active.
CheckCancelled(w) ==
  /\ pc[w] = "check"
  /\ \/ /\ cancelled[holding[w]]
        /\ pc' = [pc EXCEPT ![w] = "pop"]
        /\ holding' = [holding EXCEPT ![w] = None]
        /\ Skip(w)
        /\ UNCHANGED active
     \/ /\ ~cancelled[holding[w]]
        /\ pc' = [pc EXCEPT ![w] = "start"]
        /\ active' = [active EXCEPT ![Serves[w]] = WrapInc(@)]
        /\ UNCHANGED <<holding, fate>>
  /\ UNCHANGED <<mode, entries, shutdown, depth, cancelled, completions, mainVars,
                 sticky, ran, stageAtCancel, started>>

\* Mutant: the runner does not look at the flag again.
IgnoreFlag(j) == FALSE

MustStop(j) == cancelled[j]

\* The runner checks the flag once more and enters the job's closure.
Start(w) ==
  /\ pc[w] = "start"
  /\ \/ /\ MustStop(holding[w])
        /\ pc' = [pc EXCEPT ![w] = "deactivate"]
        /\ holding' = [holding EXCEPT ![w] = None]
        /\ Skip(w)
        /\ UNCHANGED ran
     \/ /\ ~MustStop(holding[w])
        /\ pc' = [pc EXCEPT ![w] = "execute"]
        /\ ran' = [ran EXCEPT ![holding[w]] = @ + 1]
        /\ UNCHANGED <<holding, fate>>
  /\ UNCHANGED <<mode, entries, shutdown, depth, active, cancelled, completions,
                 mainVars, sticky, stageAtCancel, started>>

\* catch_unwind lets worker_loop go on after a panic.
AfterPanic == "deactivate"

\* The closure returns, or panics: a sticky error and no completion.
Execute(w) ==
  /\ pc[w] = "execute"
  /\ \/ /\ pc' = [pc EXCEPT ![w] = "report"]
        /\ UNCHANGED <<holding, sticky, fate>>
     \/ /\ pc' = [pc EXCEPT ![w] = AfterPanic]
        /\ holding' = [holding EXCEPT ![w] = None]
        /\ sticky' = TRUE
        /\ fate' = [fate EXCEPT ![holding[w]] = "panicked"]
  /\ UNCHANGED <<mode, entries, shutdown, depth, active, cancelled, completions,
                 mainVars, ran, stageAtCancel, started>>

\* The runner checks the flag after the job and sends the completion.
Report(w) ==
  /\ pc[w] = "report"
  /\ pc' = [pc EXCEPT ![w] = "deactivate"]
  /\ holding' = [holding EXCEPT ![w] = None]
  /\ \/ /\ MustStop(holding[w])
        /\ Skip(w)
        /\ UNCHANGED completions
     \/ /\ ~MustStop(holding[w])
        /\ SendCompletion(holding[w])
        /\ UNCHANGED fate
  /\ UNCHANGED <<mode, entries, shutdown, depth, active, cancelled, mainVars, sticky,
                 ran, stageAtCancel, started>>

Deactivate(w) ==
  /\ pc[w] = "deactivate"
  /\ pc' = [pc EXCEPT ![w] = "pop"]
  /\ active' = [active EXCEPT ![Serves[w]] = WrapDec(@)]
  /\ UNCHANGED <<mode, entries, shutdown, holding, depth, cancelled, completions,
                 mainVars, sticky, fate, ran, stageAtCancel, started>>

-----------------------------------------------------------------------------
WorkerStep(w) ==
  \/ Pop(w)
  \/ UncountDepth(w)
  \/ CheckCancelled(w)
  \/ Start(w)
  \/ Execute(w)
  \/ Report(w)
  \/ Deactivate(w)

PumpStep == BeginPump \/ RunCallback \/ EndCallback \/ EndPump

Next ==
  \/ \E j \in Job, q \in Queue : Submit(j, q)
  \/ CountDepth
  \/ \E j \in Job : SubmitInline(j)
  \/ \E j \in Job : Cancel(j)
  \/ PumpStep
  \/ DropHandle
  \/ DropInner
  \/ \E w \in Worker : WorkerStep(w)
  \/ \E w \in Worker : SpuriousWake(w)

Spec == Init /\ [][Next]_vars

\* Threads are scheduled, jobs return, and the main loop pumps every frame.
Fairness ==
  /\ \A w \in Worker : WF_vars(WorkerStep(w))
  /\ WF_vars(CountDepth)
  /\ WF_vars(PumpStep)

FairSpec == Spec /\ Fairness

-----------------------------------------------------------------------------
\* The type of every variable.
TypeOK ==
  /\ mode \in {"Inline", "Threaded"}
  /\ entries \in [Queue -> Seq(Job)]
  /\ shutdown \in BOOLEAN
  /\ pc \in [Worker -> {"unborn", "pop", "wait", "popped", "check", "start",
                         "execute", "report", "deactivate", "exited"}]
  /\ holding \in [Worker -> Job \cup {None}]
  /\ depth \in [Queue -> 0 .. USIZE_MOD - 1]
  /\ active \in [Queue -> 0 .. USIZE_MOD - 1]
  /\ cancelled \in [Job -> BOOLEAN]
  /\ completions \in Seq(Job)
  /\ pumping \in BOOLEAN
  /\ calling \in Job \cup {None}
  /\ adding \in Queue \cup {None}
  /\ owned \in BOOLEAN
  /\ sticky \in BOOLEAN
  /\ fate \in [Job -> {"unsubmitted", "live", "called", "skipped", "panicked"}]
  /\ ran \in [Job -> Nat]
  /\ stageAtCancel \in [Job -> {"never", "pending", "running", "sent"}]
  /\ started \in [Queue -> Seq(Job)]

\* No wakeup is lost: a queue with entries has a worker that is not asleep,
\* so push's single notify_one is enough however pushes, pops and spurious
\* wakeups interleave (JobQueueState::push and pop).
NoLostWakeup ==
  \A q \in Queue : entries[q] # <<>> =>
    \E w \in Worker : Serves[w] = q /\ pc[w] # "wait"

\* A job is entered at most once and its callback follows only on a run that
\* came to its end (submit, worker_loop, pump_completions).
RunsOnce ==
  \A j \in Job :
    /\ ran[j] <= 1
    /\ fate[j] \in {"called", "panicked"} => ran[j] = 1

Injective(s) == \A a, b \in DOMAIN s : s[a] = s[b] => a = b
Queued == UNION {Elements(entries[q]) : q \in Queue}
Held == {j \in Job : \E w \in Worker : holding[w] = j}
Sent == Elements(completions)
Live == {j \in Job : fate[j] = "live"}

\* An accepted job is never lost and never duplicated: until it is settled it
\* is in exactly one queue, one worker's hand or the completion channel.
JobsConserved ==
  /\ Live = Queued \cup Held \cup Sent
  /\ Queued \cap Held = {} /\ Queued \cap Sent = {} /\ Held \cap Sent = {}
  /\ Injective(completions) /\ \A q \in Queue : Injective(entries[q])
  /\ \A p, q \in Queue : p # q => Elements(entries[p]) \cap Elements(entries[q]) = {}
  /\ \A v, w \in Worker : holding[v] = holding[w] => v = w \/ holding[v] = None

\* Cancelling before the runner's first check keeps the job from running, and
\* before its second check keeps the callback from being called.
CancelStops ==
  \A j \in Job :
    /\ stageAtCancel[j] = "pending" => ran[j] = 0
    /\ stageAtCancel[j] \in {"pending", "running"} => fate[j] # "called"

\* What the depth counter of a queue stands for: its entries and the workers
\* that have popped but not yet counted down, less the entry being counted.
DepthAccounts ==
  \A q \in Queue :
    LET uncounted == Cardinality({w \in Worker : Serves[w] = q /\ pc[w] = "popped"})
    IN WrapInc(depth[q]) =
         (Len(entries[q]) + uncounted + (IF adding = q THEN 0 ELSE 1)) % USIZE_MOD

\* The active counter is the number of workers inside a runner, whether jobs
\* return, panic or are cancelled.
ActiveAccounts ==
  \A q \in Queue :
    active[q] = Cardinality({w \in Worker :
      Serves[w] = q /\ pc[w] \in {"start", "execute", "report", "deactivate"}})

\* What the metrics show is what the pool holds.
MetricsExact == DepthAccounts /\ ActiveAccounts

\* No worker ever leaves the pool: not after a panic, and not after the owner
\* has dropped its handle, for the workers' own references keep JobsInner
\* from being dropped (its Drop is what would shut the queues down).
PoolIntact ==
  \A w \in Worker : pc[w] # "exited" /\ (pc[w] = "unborn" <=> Inline)

\* Jobs leave a queue in the order they were submitted to it.
FirstInFirstOut ==
  [][\A q \in Queue :
       LET before == started[q] \o entries[q]
           after == started'[q] \o entries'[q]
       IN SubSeq(after, 1, Len(before)) = before]_vars

\* Every accepted job is settled as long as the main loop keeps pumping.
EveryJobSettles ==
  \A j \in Job : fate[j] = "live" ~> (fate[j] # "live" \/ ~owned)

-----------------------------------------------------------------------------
(* The inductive invariant behind the safety properties.                   *)

\* A worker holds a job exactly between popping it and settling it.
HandsFull ==
  \A w \in Worker :
    holding[w] # None <=> pc[w] \in {"popped", "check", "start", "execute", "report"}

\* How often a job has run follows from where it is.
RunCounts ==
  /\ \A j \in Job : fate[j] = "unsubmitted" \/ j \in Queued => ran[j] = 0
  /\ \A w \in Worker :
       /\ pc[w] \in {"popped", "check", "start"} => ran[holding[w]] = 0
       /\ pc[w] \in {"execute", "report"} => ran[holding[w]] = 1
  /\ \A j \in Sent : ran[j] = 1

\* A cancellation that came in time sets a flag that some check still reads.
CancelRecorded ==
  \A j \in Job :
    /\ fate[j] = "unsubmitted" => stageAtCancel[j] = "never"
    /\ stageAtCancel[j] # "never" => cancelled[j]
    /\ stageAtCancel[j] \in {"pending", "running"} => j \notin Sent

\* Only in inline mode are the queues ever shut down.
PoolHeld == PoolIntact /\ (shutdown => Inline)

JobsInv ==
  /\ TypeOK
  /\ NoLostWakeup
  /\ HandsFull
  /\ JobsConserved
  /\ RunCounts
  /\ RunsOnce
  /\ CancelRecorded
  /\ CancelStops
  /\ PoolHeld

-----------------------------------------------------------------------------
(* The inductive invariant behind the counters.                            *)

\* The workers of a queue that are somewhere in P.
At(q, P) == {w \in Worker : Serves[w] = q /\ pc[w] \in P}
InRunner == {"start", "execute", "report", "deactivate"}

\* Entries, and workers that have popped and not yet counted down.
Uncounted(q) == Cardinality(At(q, {"popped"}))
Underway(q) == Len(entries[q]) + Uncounted(q)

\* The counter is right, or about to be counted up by the submission.
DepthExact ==
  \A q \in Queue :
    /\ adding # q => depth[q] = Underway(q)
    /\ adding = q => WrapInc(depth[q]) = Underway(q)

Bounded == \A q \in Queue : Len(entries[q]) <= Capacity

MetricsInv == Bounded /\ DepthExact /\ ActiveAccounts
=============================================================================
