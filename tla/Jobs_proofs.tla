----------------------------- MODULE Jobs_proofs -----------------------------
(***************************************************************************)
(* What the job system guarantees for any number of queues, workers and    *)
(* jobs and any capacity: no wakeup is lost, no accepted job is lost or    *)
(* duplicated, jobs run at most once and leave their queue in order,       *)
(* cancelling in time stops them, and the metrics count what there is.     *)
(***************************************************************************)
EXTENDS Jobs, SequenceTheorems, FiniteSetTheorems, TLAPS

-----------------------------------------------------------------------------
(* Elements of sequences.                                                  *)

LEMMA ElementsType ==
  ASSUME NEW S, NEW s \in Seq(S)
  PROVE  Elements(s) \subseteq S
  BY ElementOfSeq DEF Elements

LEMMA ElementsEmpty == Elements(<<>>) = {} /\ Injective(<<>>)
  BY DEF Elements, Injective

LEMMA ElementsAppend ==
  ASSUME NEW S, NEW s \in Seq(S), NEW x \in S
  PROVE  /\ Elements(Append(s, x)) = Elements(s) \cup {x}
         /\ Injective(s) /\ x \notin Elements(s) => Injective(Append(s, x))
  <1> DEFINE t == Append(s, x)
  <1>1. /\ Len(s) \in Nat /\ DOMAIN s = 1 .. Len(s)
        /\ DOMAIN t = 1 .. Len(s) + 1
        /\ \A i \in 1 .. Len(s) : t[i] = s[i]
        /\ t[Len(s) + 1] = x
    BY AppendProperties, LenProperties
  <1> HIDE DEF t
  <1>2. DOMAIN t = DOMAIN s \cup {Len(s) + 1} /\ Len(s) + 1 \notin DOMAIN s
    BY <1>1
  <1>3. Elements(t) = Elements(s) \cup {x}
    BY <1>1, <1>2 DEF Elements
  <1>4. ASSUME Injective(s), x \notin Elements(s)
        PROVE  Injective(t)
    BY <1>1, <1>2, <1>4 DEF Elements, Injective
  <1> QED  BY <1>3, <1>4 DEF t

LEMMA ElementsTail ==
  ASSUME NEW S, NEW s \in Seq(S), s # <<>>, Injective(s)
  PROVE  /\ Head(s) \in S /\ Tail(s) \in Seq(S)
         /\ Head(s) \in Elements(s)
         /\ Elements(Tail(s)) = Elements(s) \ {Head(s)}
         /\ Injective(Tail(s))
  <1> DEFINE t == Tail(s)
  <1>1. /\ Len(s) \in Nat /\ Len(s) >= 1 /\ DOMAIN s = 1 .. Len(s)
        /\ Head(s) = s[1] /\ t \in Seq(S) /\ Head(s) \in S
        /\ DOMAIN t = 1 .. Len(s) - 1
        /\ \A i \in 1 .. Len(s) - 1 : t[i] = s[i + 1]
    BY HeadTailProperties, LenProperties, EmptySeq
  <1> HIDE DEF t
  <1>2. Head(s) \in Elements(s)
    BY <1>1 DEF Elements
  <1>3. Injective(t)
    <2> SUFFICES ASSUME NEW a \in DOMAIN t, NEW b \in DOMAIN t, t[a] = t[b]
                 PROVE  a = b
      BY DEF Injective
    <2>1. a + 1 \in DOMAIN s /\ b + 1 \in DOMAIN s /\ s[a + 1] = s[b + 1]
      BY <1>1
    <2>2. a + 1 = b + 1
      BY <2>1 DEF Injective
    <2> QED  BY <1>1, <2>2
  <1>4. Elements(t) = Elements(s) \ {Head(s)}
    <2>1. ASSUME NEW a \in DOMAIN t
          PROVE  t[a] \in Elements(s) \ {Head(s)}
      <3>1. a + 1 \in DOMAIN s /\ a + 1 # 1 /\ 1 \in DOMAIN s /\ t[a] = s[a + 1]
        BY <1>1
      <3> QED  BY <1>1, <3>1 DEF Elements, Injective
    <2>2. ASSUME NEW a \in DOMAIN s, s[a] # Head(s)
          PROVE  s[a] \in Elements(t)
      <3>1. a # 1
        BY <1>1, <2>2
      <3>2. a - 1 \in DOMAIN t /\ t[a - 1] = s[a]
        BY <1>1, <3>1
      <3> QED  BY <3>2 DEF Elements
    <2> QED  BY <2>1, <2>2 DEF Elements
  <1> QED  BY <1>1, <1>2, <1>3, <1>4 DEF t

-----------------------------------------------------------------------------
(* Type correctness.                                                       *)

LEMMA CounterSteps ==
  \A n \in 0 .. USIZE_MOD - 1 :
    WrapInc(n) \in 0 .. USIZE_MOD - 1 /\ WrapDec(n) \in 0 .. USIZE_MOD - 1
  BY JobsAssumption DEF WrapInc, WrapDec

LEMMA TypeInit == Init => TypeOK
  <1>1. 0 \in 0 .. USIZE_MOD - 1 /\ <<>> \in Seq(Job) /\ 0 \in Nat
    BY JobsAssumption
  <1> SUFFICES ASSUME Init
               PROVE  TypeOK
    OBVIOUS
  <1>2. /\ entries \in [Queue -> Seq(Job)]
        /\ started \in [Queue -> Seq(Job)]
        /\ completions \in Seq(Job)
    BY <1>1 DEF Init
  <1>3. cancelled \in [Job -> BOOLEAN]
    BY Zenon DEF Init
  <1>4. /\ depth \in [Queue -> 0 .. USIZE_MOD - 1]
        /\ active \in [Queue -> 0 .. USIZE_MOD - 1]
        /\ ran \in [Job -> Nat]
    BY <1>1 DEF Init
  <1>5. /\ mode \in {"Inline", "Threaded"}
        /\ shutdown \in BOOLEAN /\ pumping \in BOOLEAN
        /\ owned \in BOOLEAN /\ sticky \in BOOLEAN
    BY DEF Init
  <1>6. /\ pc \in [Worker -> {"unborn", "pop", "wait", "popped", "check", "start",
                              "execute", "report", "deactivate", "exited"}]
        /\ holding \in [Worker -> Job \cup {None}]
        /\ calling \in Job \cup {None} /\ adding \in Queue \cup {None}
        /\ fate \in [Job -> {"unsubmitted", "live", "called", "skipped", "panicked"}]
        /\ stageAtCancel \in [Job -> {"never", "pending", "running", "sent"}]
    BY DEF Init
  <1> QED  BY <1>2, <1>3, <1>4, <1>5, <1>6 DEF TypeOK

LEMMA TypeStep == TypeOK /\ HandsFull /\ [Next]_vars => TypeOK'
  <1> SUFFICES ASSUME TypeOK, HandsFull, [Next]_vars
               PROVE  TypeOK'
    OBVIOUS
  <1>1. ASSUME NEW j \in Job, NEW q \in Queue, Submit(j, q)
        PROVE  TypeOK'
    <2>1. pc' \in [Worker -> {"unborn", "pop", "wait", "popped", "check", "start",
                              "execute", "report", "deactivate", "exited"}]
      BY <1>1 DEF Submit, WakeOne, TypeOK
    <2>2. entries' \in [Queue -> Seq(Job)]
      BY <1>1, AppendProperties DEF Submit, TypeOK
    <2> QED  BY <1>1, <2>1, <2>2 DEF Submit, TypeOK
  <1>2. CASE CountDepth
    BY <1>2, CounterSteps DEF CountDepth, TypeOK, workerVars
  <1>3. ASSUME NEW j \in Job, SubmitInline(j)
        PROVE  TypeOK'
    <2>1. Append(completions, j) \in Seq(Job)
      BY AppendProperties DEF TypeOK
    <2>2. completions' \in Seq(Job) /\ sticky' \in BOOLEAN
      BY <1>3, <2>1 DEF SubmitInline, SendCompletion, TypeOK
    <2>3. ran' = [ran EXCEPT ![j] = @ + 1] /\ ran[j] + 1 \in Nat
      BY <1>3 DEF SubmitInline, TypeOK
    <2>4. ran' \in [Job -> Nat]
      BY <2>3 DEF TypeOK
    <2>5. \/ fate' = [fate EXCEPT ![j] = "live"]
          \/ fate' = [fate EXCEPT ![j] = "panicked"]
      BY <1>3 DEF SubmitInline
    <2>6. fate' \in [Job -> {"unsubmitted", "live", "called", "skipped", "panicked"}]
      BY <2>5 DEF TypeOK
    <2> QED  BY <1>3, <2>2, <2>4, <2>6 DEF SubmitInline, TypeOK, workerVars, mainVars
  <1>4. ASSUME NEW j \in Job, Cancel(j)
        PROVE  TypeOK'
    <2>1. Stage(j) \in {"never", "pending", "running", "sent"}
      BY DEF Stage
    <2> QED  BY <1>4, <2>1 DEF Cancel, TypeOK, workerVars, mainVars
  <1>5. CASE PumpStep
    <2>1. CASE BeginPump
      BY <2>1 DEF BeginPump, TypeOK, workerVars
    <2>2. CASE RunCallback
      <3>1. Head(completions) \in Job /\ Tail(completions) \in Seq(Job)
        BY <2>2, HeadTailProperties DEF RunCallback, TypeOK
      <3> QED  BY <2>2, <3>1 DEF RunCallback, TypeOK, workerVars
    <2>3. CASE EndCallback
      BY <2>3 DEF EndCallback, TypeOK, workerVars
    <2>4. CASE EndPump
      BY <2>4 DEF EndPump, TypeOK, workerVars
    <2> QED  BY <1>5, <2>1, <2>2, <2>3, <2>4 DEF PumpStep
  <1>6. CASE DropHandle
    BY <1>6 DEF DropHandle, TypeOK, workerVars
  <1>7. CASE DropInner
    BY <1>7 DEF DropInner, TypeOK, mainVars
  <1>8. ASSUME NEW w \in Worker, WorkerStep(w)
        PROVE  TypeOK'
    <2>0. Serves[w] \in Queue
      BY JobsAssumption
    <2>1. CASE Pop(w)
      <3>1. CASE pc'[w] # "popped"
        BY <2>1, <3>1 DEF Pop, TypeOK, mainVars
      <3>2. CASE pc'[w] = "popped"
        <4>1. entries[Serves[w]] # <<>>
          BY <2>1, <3>2 DEF Pop, TypeOK
        <4>2. /\ Head(entries[Serves[w]]) \in Job
              /\ Tail(entries[Serves[w]]) \in Seq(Job)
          BY <2>0, <4>1, HeadTailProperties DEF TypeOK
        <4>3. Append(started[Serves[w]], Head(entries[Serves[w]])) \in Seq(Job)
          BY <2>0, <4>2, AppendProperties DEF TypeOK
        <4>4. /\ holding' = [holding EXCEPT ![w] = Head(entries[Serves[w]])]
              /\ entries' = [entries EXCEPT ![Serves[w]] = Tail(entries[Serves[w]])]
              /\ started' = [started EXCEPT ![Serves[w]] =
                               Append(started[Serves[w]], Head(entries[Serves[w]]))]
              /\ pc' = [pc EXCEPT ![w] = "popped"]
          BY <2>1, <3>2 DEF Pop, TypeOK, FrontOf, WithoutFront
        <4>5. /\ holding' \in [Worker -> Job \cup {None}]
              /\ entries' \in [Queue -> Seq(Job)]
              /\ started' \in [Queue -> Seq(Job)]
          BY <2>0, <4>2, <4>3, <4>4 DEF TypeOK
        <4> QED  BY <2>1, <4>4, <4>5 DEF Pop, TypeOK, mainVars
      <3> QED  BY <3>1, <3>2
    <2>2. CASE UncountDepth(w)
      BY <2>0, <2>2, CounterSteps DEF UncountDepth, TypeOK, mainVars
    <2>3. CASE CheckCancelled(w)
      <3>1. \/ active' = active
            \/ active' = [active EXCEPT ![Serves[w]] = WrapInc(@)]
        BY <2>3 DEF CheckCancelled
      <3>2. active' \in [Queue -> 0 .. USIZE_MOD - 1]
        <4>1. WrapInc(active[Serves[w]]) \in 0 .. USIZE_MOD - 1
          BY <2>0, CounterSteps DEF TypeOK
        <4>2. CASE active' = active
          BY <4>2 DEF TypeOK
        <4>3. CASE active' = [active EXCEPT ![Serves[w]] = WrapInc(@)]
          BY <2>0, <4>1, <4>3 DEF TypeOK
        <4> QED  BY <3>1, <4>2, <4>3
      <3>3. /\ holding' \in [Worker -> Job \cup {None}]
            /\ fate' \in [Job -> {"unsubmitted", "live", "called", "skipped", "panicked"}]
        BY <2>3, Zenon DEF CheckCancelled, Skip, TypeOK
      <3>4. pc' = [pc EXCEPT ![w] = "pop"] \/ pc' = [pc EXCEPT ![w] = "start"]
        BY <2>3 DEF CheckCancelled
      <3> QED  BY <2>3, <3>2, <3>3, <3>4 DEF CheckCancelled, TypeOK, mainVars
    <2>4. CASE Start(w)
      <3>1. ran' = ran \/ ran' = [ran EXCEPT ![holding[w]] = @ + 1]
        BY <2>4 DEF Start
      <3>2. holding[w] \in Job
        BY <2>4 DEF Start, HandsFull, TypeOK
      <3>3. ran' \in [Job -> Nat]
        <4>1. ran[holding[w]] + 1 \in Nat
          BY <3>2 DEF TypeOK
        <4>2. CASE ran' = ran
          BY <4>2 DEF TypeOK
        <4>3. CASE ran' = [ran EXCEPT ![holding[w]] = @ + 1]
          BY <3>2, <4>1, <4>3 DEF TypeOK
        <4> QED  BY <3>1, <4>2, <4>3
      <3>4. /\ holding' \in [Worker -> Job \cup {None}]
            /\ fate' \in [Job -> {"unsubmitted", "live", "called", "skipped", "panicked"}]
        BY <2>4, Zenon DEF Start, Skip, TypeOK
      <3>5. pc' = [pc EXCEPT ![w] = "deactivate"] \/ pc' = [pc EXCEPT ![w] = "execute"]
        BY <2>4 DEF Start
      <3> QED  BY <2>4, <3>3, <3>4, <3>5 DEF Start, TypeOK, mainVars
    <2>5. CASE Execute(w)
      BY <2>5 DEF Execute, AfterPanic, TypeOK, mainVars
    <2>6. CASE Report(w)
      <3>1. holding[w] \in Job
        BY <2>6 DEF Report, HandsFull, TypeOK
      <3>2. Append(completions, holding[w]) \in Seq(Job)
        BY <3>1, AppendProperties DEF TypeOK
      <3> QED  BY <2>6, <3>2 DEF Report, SendCompletion, Skip, TypeOK, mainVars
    <2>7. CASE Deactivate(w)
      BY <2>0, <2>7, CounterSteps DEF Deactivate, TypeOK, mainVars
    <2> QED  BY <1>8, <2>1, <2>2, <2>3, <2>4, <2>5, <2>6, <2>7 DEF WorkerStep
  <1>9. ASSUME NEW w \in Worker, SpuriousWake(w)
        PROVE  TypeOK'
    BY <1>9 DEF SpuriousWake, TypeOK, mainVars
  <1>10. CASE UNCHANGED vars
    BY <1>10 DEF vars, workerVars, mainVars, TypeOK
  <1> QED  BY <1>1, <1>2, <1>3, <1>4, <1>5, <1>6, <1>7, <1>8, <1>9, <1>10 DEF Next

-----------------------------------------------------------------------------
(* No wakeup is lost, and the pool stays whole.                            *)

LEMMA WakeupStep == TypeOK /\ NoLostWakeup /\ [Next]_vars => NoLostWakeup'
  <1> SUFFICES ASSUME TypeOK, NoLostWakeup, [Next]_vars,
                      NEW q \in Queue, entries'[q] # <<>>
               PROVE  \E w \in Worker : Serves[w] = q /\ pc'[w] # "wait"
    BY DEF NoLostWakeup
  <1>1. ASSUME NEW j \in Job, NEW p \in Queue, Submit(j, p)
        PROVE  \E w \in Worker : Serves[w] = q /\ pc'[w] # "wait"
    <2>1. \A w \in Worker : pc'[w] = pc[w] \/ pc'[w] = "pop"
      BY <1>1 DEF Submit, WakeOne, TypeOK
    <2>2. CASE q # p
      <3>1. entries'[q] = entries[q]
        BY <1>1, <2>2 DEF Submit, TypeOK
      <3> QED  BY <2>1, <3>1 DEF NoLostWakeup
    <2>3. CASE q = p
      <3>1. CASE Waiting(q) = {}
        <4>1. PICK w \in Worker : Serves[w] = q
          BY JobsAssumption
        <4>2. pc[w] # "wait"
          BY <3>1, <4>1 DEF Waiting
        <4> QED  BY <2>1, <4>1, <4>2
      <3>2. CASE Waiting(q) # {}
        <4>1. PICK w \in Waiting(q) : pc' = [pc EXCEPT ![w] = "pop"]
          BY <1>1, <2>3, <3>2 DEF Submit, WakeOne
        <4> QED  BY <4>1 DEF Waiting, TypeOK
      <3> QED  BY <3>1, <3>2
    <2> QED  BY <2>2, <2>3
  <1>2. ASSUME NEW w \in Worker, Pop(w)
        PROVE  \E v \in Worker : Serves[v] = q /\ pc'[v] # "wait"
    <2>1. CASE Serves[w] # q
      <3>1. entries'[q] = entries[q]
        BY <1>2, <2>1 DEF Pop, TypeOK
      <3>2. PICK v \in Worker : Serves[v] = q /\ pc[v] # "wait"
        BY <3>1 DEF NoLostWakeup
      <3> QED  BY <1>2, <2>1, <3>2 DEF Pop, TypeOK
    <2>2. CASE Serves[w] = q
      <3>1. pc'[w] # "wait"
        BY <1>2, <2>2 DEF Pop, TypeOK
      <3> QED  BY <2>2, <3>1
    <2> QED  BY <2>1, <2>2
  <1>3. ASSUME entries' = entries,
               \A w \in Worker : pc'[w] # pc[w] => pc'[w] # "wait"
        PROVE  \E w \in Worker : Serves[w] = q /\ pc'[w] # "wait"
    BY <1>3 DEF NoLostWakeup
  <1>4. CASE UNCHANGED <<entries, pc>>
    BY <1>3, <1>4
  <1>5. CASE CountDepth \/ PumpStep \/ DropHandle \/ UNCHANGED vars
             \/ (\E j \in Job : SubmitInline(j) \/ Cancel(j))
    BY <1>4, <1>5 DEF CountDepth, PumpStep, BeginPump, RunCallback, EndCallback,
         EndPump, DropHandle, vars, workerVars, mainVars, SubmitInline, Cancel
  <1>6. CASE DropInner
    BY <1>3, <1>6 DEF DropInner, TypeOK
  <1>7. ASSUME NEW w \in Worker,
               \/ UncountDepth(w) \/ CheckCancelled(w) \/ Start(w)
               \/ Execute(w) \/ Report(w) \/ Deactivate(w) \/ SpuriousWake(w)
        PROVE  \E v \in Worker : Serves[v] = q /\ pc'[v] # "wait"
    <2>1. entries' = entries
      BY <1>7 DEF UncountDepth, CheckCancelled, Start, Execute, Report,
           Deactivate, SpuriousWake
    <2>2. \E x \in {"check", "pop", "start", "deactivate", "execute", "report"} :
            pc' = [pc EXCEPT ![w] = x]
      BY <1>7 DEF UncountDepth, CheckCancelled, Start, Execute, Report,
           Deactivate, SpuriousWake, AfterPanic
    <2> QED  BY <1>3, <2>1, <2>2 DEF TypeOK
  <1> QED  BY <1>1, <1>2, <1>5, <1>6, <1>7 DEF Next, WorkerStep

LEMMA PoolStep == TypeOK /\ PoolHeld /\ [Next]_vars => PoolHeld'
  <1> SUFFICES ASSUME TypeOK, PoolHeld, [Next]_vars
               PROVE  PoolHeld'
    OBVIOUS
  <1>0. mode' = mode
    BY DEF Next, CountDepth, PumpStep, BeginPump, RunCallback, EndCallback, EndPump,
         DropHandle, DropInner, vars, SubmitInline, Submit, Cancel, WorkerStep, Pop,
         UncountDepth, CheckCancelled, Start, Execute, Report, Deactivate, SpuriousWake
  <1>1. shutdown' => Inline'
    <2>1. CASE DropInner
      <3>1. PICK w \in Worker : TRUE
        <4>1. PICK q \in Queue : TRUE
          BY JobsAssumption
        <4> QED  BY <4>1, JobsAssumption
      <3>2. pc[w] \in {"unborn", "exited"}
        BY <2>1 DEF DropInner, HoldsInner
      <3> QED  BY <1>0, <3>2 DEF PoolHeld, PoolIntact, Inline
    <2>2. CASE ~DropInner
      <3>1. shutdown' = shutdown
        BY <2>2 DEF Next, CountDepth, PumpStep, BeginPump, RunCallback,
             EndCallback, EndPump, DropHandle, vars, SubmitInline, Submit, Cancel,
             WorkerStep, Pop, UncountDepth, CheckCancelled, Start, Execute, Report,
             Deactivate, SpuriousWake
      <3> QED  BY <1>0, <3>1 DEF PoolHeld, Inline
    <2> QED  BY <2>1, <2>2
  <1>2. ASSUME NEW w \in Worker
        PROVE  pc'[w] # "exited" /\ (pc'[w] = "unborn" <=> Inline)
    <2>0. /\ pc[w] # "exited" /\ (pc[w] = "unborn" <=> Inline)
          /\ shutdown => Inline
      BY DEF PoolHeld, PoolIntact
    <2>1. ASSUME NEW j \in Job, NEW q \in Queue, Submit(j, q)
          PROVE  pc'[w] # "exited" /\ (pc'[w] = "unborn" <=> Inline)
      BY <2>0, <2>1 DEF Submit, WakeOne, TypeOK
    <2>2. CASE DropInner
      BY <2>0, <2>2 DEF DropInner, HoldsInner
    <2>3. ASSUME NEW v \in Worker, Pop(v)
          PROVE  pc'[w] # "exited" /\ (pc'[w] = "unborn" <=> Inline)
      BY <2>0, <2>3 DEF Pop, TypeOK
    <2>4. ASSUME NEW v \in Worker,
                 \/ UncountDepth(v) \/ CheckCancelled(v) \/ Start(v)
                 \/ Execute(v) \/ Report(v) \/ Deactivate(v) \/ SpuriousWake(v)
          PROVE  pc'[w] # "exited" /\ (pc'[w] = "unborn" <=> Inline)
      <3>1. /\ pc[v] # "unborn"
            /\ \E x \in {"check", "pop", "start", "deactivate", "execute", "report"} :
                 pc' = [pc EXCEPT ![v] = x]
        BY <2>4 DEF UncountDepth, CheckCancelled, Start, Execute, Report,
             Deactivate, SpuriousWake, AfterPanic
      <3> QED  BY <2>0, <3>1 DEF TypeOK
    <2>5. CASE CountDepth \/ PumpStep \/ DropHandle \/ UNCHANGED vars
               \/ (\E j \in Job : SubmitInline(j) \/ Cancel(j))
      <3>1. pc' = pc
        BY <2>5 DEF CountDepth, PumpStep, BeginPump, RunCallback, EndCallback,
           EndPump, DropHandle, vars, workerVars, mainVars, SubmitInline, Cancel
      <3> QED  BY <2>0, <3>1
    <2> QED  BY <2>1, <2>2, <2>3, <2>4, <2>5 DEF Next, WorkerStep
  <1> QED  BY <1>0, <1>1, <1>2 DEF PoolHeld, PoolIntact, Inline

-----------------------------------------------------------------------------
(* Where the jobs are.  Steps that move no job, and steps that settle the  *)
(* job in a worker's hand, are treated once for all actions of the kind.   *)

Whereabouts ==
  /\ HandsFull
  /\ JobsConserved
  /\ RunCounts
  /\ RunsOnce
  /\ CancelRecorded
  /\ CancelStops

AtRest == {"unborn", "pop", "wait", "deactivate", "exited"}
BeforeRun == {"popped", "check", "start"}
InRun == {"execute", "report"}

LEMMA QuietStep ==
  ASSUME TypeOK, Whereabouts,
         UNCHANGED <<entries, holding, completions, cancelled, fate, ran, stageAtCancel>>,
         \A w \in Worker : /\ pc[w] \in AtRest <=> pc'[w] \in AtRest
                           /\ pc[w] \in BeforeRun <=> pc'[w] \in BeforeRun
                           /\ pc[w] \in InRun <=> pc'[w] \in InRun
  PROVE  Whereabouts'
  <1>1. HandsFull'
    BY DEF Whereabouts, HandsFull, AtRest, BeforeRun, InRun
  <1>2. Queued' = Queued /\ Sent' = Sent /\ Held' = Held /\ Live' = Live
    BY DEF Queued, Sent, Held, Live
  <1>3. JobsConserved'
    BY <1>2 DEF Whereabouts, JobsConserved
  <1>4. RunCounts'
    BY <1>2 DEF Whereabouts, RunCounts, AtRest, BeforeRun, InRun
  <1>5. RunsOnce' /\ CancelRecorded' /\ CancelStops'
    BY <1>2 DEF Whereabouts, RunsOnce, CancelRecorded, CancelStops
  <1> QED  BY <1>1, <1>3, <1>4, <1>5 DEF Whereabouts

LEMMA SettleStep ==
  ASSUME TypeOK, Whereabouts, NEW w \in Worker, holding[w] # None,
         UNCHANGED <<entries, completions, cancelled, ran, stageAtCancel>>,
         holding' = [holding EXCEPT ![w] = None],
         NEW x \in AtRest, pc' = [pc EXCEPT ![w] = x],
         NEW end \in {"skipped", "panicked"}, end = "panicked" => pc[w] \in InRun,
         fate' = [fate EXCEPT ![holding[w]] = end]
  PROVE  Whereabouts'
  <1> DEFINE j == holding[w]
  <1>0. j \in Job /\ j \in Held
    BY DEF TypeOK, Held
  <1>1. HandsFull'
    BY DEF Whereabouts, HandsFull, TypeOK, AtRest
  <1>2. /\ Queued' = Queued /\ Sent' = Sent
        /\ Held' = Held \ {j} /\ Live' = Live \ {j}
    <2>1. Queued' = Queued /\ Sent' = Sent
      BY DEF Queued, Sent
    <2>2. Live' = Live \ {j}
      BY <1>0 DEF Live, TypeOK
    <2>3. Held' = Held \ {j}
      <3>1. \A i \in Job : i # None
        BY JobsAssumption
      <3>2. holding'[w] = None /\ \A v \in Worker : v # w => holding'[v] = holding[v]
        BY DEF TypeOK
      <3>3. \A v \in Worker : holding[v] = j => v = w
        BY <1>0, <3>1 DEF Whereabouts, JobsConserved
      <3> QED  BY <1>0, <3>1, <3>2, <3>3 DEF Held
    <2> QED  BY <2>1, <2>2, <2>3
  <1>3. JobsConserved'
    <2>1. \A u, v \in Worker : holding'[u] = holding'[v] => u = v \/ holding'[u] = None
      BY DEF Whereabouts, JobsConserved, TypeOK
    <2>2. /\ Live' = Queued' \cup Held' \cup Sent'
          /\ Queued' \cap Held' = {} /\ Queued' \cap Sent' = {} /\ Held' \cap Sent' = {}
      BY <1>0, <1>2 DEF Whereabouts, JobsConserved
    <2> QED  BY <2>1, <2>2 DEF Whereabouts, JobsConserved
  <1>4. ran[j] \in {0, 1} /\ (end = "panicked" => ran[j] = 1)
    BY DEF Whereabouts, RunCounts, HandsFull, TypeOK, InRun
  <1>5. RunCounts'
    <2>1. \A i \in Job : fate'[i] = "unsubmitted" \/ i \in Queued' => ran'[i] = 0
      BY <1>0, <1>2 DEF Whereabouts, RunCounts, TypeOK
    <2>2. \A v \in Worker : v # w => holding'[v] = holding[v] /\ pc'[v] = pc[v]
      BY DEF TypeOK
    <2>3. pc'[w] \in AtRest
      BY DEF TypeOK
    <2>4. \A v \in Worker :
            /\ pc'[v] \in {"popped", "check", "start"} => ran'[holding'[v]] = 0
            /\ pc'[v] \in {"execute", "report"} => ran'[holding'[v]] = 1
      BY <2>2, <2>3 DEF Whereabouts, RunCounts, AtRest
    <2>5. \A i \in Sent' : ran'[i] = 1
      BY <1>2 DEF Whereabouts, RunCounts
    <2> QED  BY <2>1, <2>4, <2>5 DEF RunCounts
  <1>6. RunsOnce'
    BY <1>0, <1>4 DEF Whereabouts, RunsOnce, TypeOK
  <1>7. CancelRecorded'
    BY <1>2 DEF Whereabouts, CancelRecorded
  <1>8. CancelStops'
    BY <1>0 DEF Whereabouts, CancelStops, TypeOK
  <1> QED  BY <1>1, <1>3, <1>5, <1>6, <1>7, <1>8 DEF Whereabouts

LEMMA SubmitStep ==
  ASSUME TypeOK, Whereabouts, NEW j \in Job, NEW q \in Queue, Submit(j, q)
  PROVE  Whereabouts'
  <1>0. /\ entries' = [entries EXCEPT ![q] = Append(@, j)]
        /\ fate' = [fate EXCEPT ![j] = "live"] /\ fate[j] = "unsubmitted"
        /\ UNCHANGED <<holding, completions, cancelled, ran, stageAtCancel>>
        /\ entries[q] \in Seq(Job)
    BY DEF Submit, TypeOK
  <1>1. \A w \in Worker : \/ pc'[w] = pc[w]
                          \/ pc[w] = "wait" /\ pc'[w] = "pop"
    BY DEF Submit, WakeOne, Waiting, TypeOK
  <1>2. j \notin Live /\ j \notin Queued /\ j \notin Held /\ j \notin Sent
    BY <1>0 DEF Live, Whereabouts, JobsConserved
  <1>3. /\ Elements(entries'[q]) = Elements(entries[q]) \cup {j}
        /\ Injective(entries'[q])
        /\ \A p \in Queue : p # q => entries'[p] = entries[p]
    <2>1. Injective(entries[q]) /\ j \notin Elements(entries[q])
      BY <1>2 DEF Whereabouts, JobsConserved, Queued
    <2> QED  BY <1>0, <2>1, ElementsAppend DEF TypeOK
  <1>4. /\ Queued' = Queued \cup {j} /\ Live' = Live \cup {j}
        /\ Sent' = Sent /\ Held' = Held
    <2>1. Queued' = Queued \cup {j}
      BY <1>3 DEF Queued
    <2>2. Live' = Live \cup {j}
      BY <1>0 DEF Live, TypeOK
    <2> QED  BY <1>0, <2>1, <2>2 DEF Sent, Held
  <1>5. HandsFull'
    BY <1>0, <1>1 DEF Whereabouts, HandsFull
  <1>6. JobsConserved'
    <2>1. \A p \in Queue : Injective(entries'[p])
      BY <1>3 DEF Whereabouts, JobsConserved
    <2>2. \A p, r \in Queue : p # r => Elements(entries'[p]) \cap Elements(entries'[r]) = {}
      BY <1>2, <1>3 DEF Whereabouts, JobsConserved, Queued
    <2>3. /\ Live' = Queued' \cup Held' \cup Sent'
          /\ Queued' \cap Held' = {} /\ Queued' \cap Sent' = {} /\ Held' \cap Sent' = {}
      BY <1>2, <1>4 DEF Whereabouts, JobsConserved
    <2> QED  BY <1>0, <2>1, <2>2, <2>3 DEF Whereabouts, JobsConserved
  <1>7. RunCounts'
    BY <1>0, <1>1, <1>4 DEF Whereabouts, RunCounts, TypeOK
  <1>8. RunsOnce' /\ CancelRecorded' /\ CancelStops'
    BY <1>0, <1>4 DEF Whereabouts, RunsOnce, CancelRecorded, CancelStops, TypeOK
  <1> QED  BY <1>5, <1>6, <1>7, <1>8 DEF Whereabouts

LEMMA SubmitInlineStep ==
  ASSUME TypeOK, Whereabouts, PoolHeld, NEW j \in Job, SubmitInline(j)
  PROVE  Whereabouts'
  <1>0. /\ Inline /\ fate[j] = "unsubmitted" /\ ran[j] = 0
        /\ ran' = [ran EXCEPT ![j] = @ + 1]
        /\ UNCHANGED <<entries, holding, pc, cancelled, stageAtCancel>>
    BY DEF SubmitInline, workerVars, Whereabouts, RunCounts
  <1>1. ran'[j] = 1 /\ \A i \in Job : i # j => ran'[i] = ran[i]
    BY <1>0 DEF TypeOK
  <1>2. j \notin Live /\ j \notin Queued /\ j \notin Sent
    BY <1>0 DEF Live, Whereabouts, JobsConserved
  <1>3. stageAtCancel[j] = "never"
    BY <1>0 DEF Whereabouts, CancelRecorded
  <1>4. \A w \in Worker : pc[w] = "unborn" /\ holding[w] = None
    <2>1. \A w \in Worker : pc[w] = "unborn"
      BY <1>0 DEF PoolHeld, PoolIntact
    <2> QED  BY <2>1 DEF Whereabouts, HandsFull
  <1>5. Queued' = Queued /\ Held' = {} /\ Held = {}
    BY <1>0, <1>4, JobsAssumption DEF Queued, Held
  <1>6. HandsFull'
    BY <1>0 DEF Whereabouts, HandsFull
  <1>7. CASE /\ completions' = Append(completions, j)
             /\ fate' = [fate EXCEPT ![j] = "live"]
    <2>1. Sent' = Sent \cup {j} /\ Injective(completions')
      BY <1>2, <1>7, ElementsAppend DEF Sent, TypeOK, Whereabouts, JobsConserved
    <2>2. Live' = Live \cup {j}
      BY <1>7 DEF Live, TypeOK
    <2>3. JobsConserved'
      BY <1>0, <1>2, <1>5, <2>1, <2>2 DEF Whereabouts, JobsConserved
    <2>4. RunCounts'
      BY <1>0, <1>1, <1>2, <1>5, <1>7, <1>4, <2>1 DEF Whereabouts, RunCounts, TypeOK
    <2>5. RunsOnce'
      BY <1>1, <1>7 DEF Whereabouts, RunsOnce, TypeOK
    <2>6. CancelRecorded' /\ CancelStops'
      BY <1>0, <1>1, <1>3, <1>7, <2>1 DEF Whereabouts, CancelRecorded, CancelStops, TypeOK
    <2> QED  BY <1>6, <2>3, <2>4, <2>5, <2>6 DEF Whereabouts
  <1>8. CASE completions' = completions /\ fate' = [fate EXCEPT ![j] = "panicked"]
    <2>1. Sent' = Sent /\ Live' = Live
      BY <1>0, <1>8 DEF Sent, Live, TypeOK
    <2>2. JobsConserved'
      BY <1>0, <1>5, <1>8, <2>1 DEF Whereabouts, JobsConserved
    <2>3. RunCounts'
      BY <1>0, <1>1, <1>2, <1>5, <1>8, <1>4, <2>1 DEF Whereabouts, RunCounts, TypeOK
    <2>4. RunsOnce'
      BY <1>1, <1>8 DEF Whereabouts, RunsOnce, TypeOK
    <2>5. CancelRecorded' /\ CancelStops'
      BY <1>0, <1>1, <1>3, <1>8, <2>1 DEF Whereabouts, CancelRecorded, CancelStops, TypeOK
    <2> QED  BY <1>6, <2>2, <2>3, <2>4, <2>5 DEF Whereabouts
  <1> QED  BY <1>7, <1>8 DEF SubmitInline, SendCompletion

LEMMA CancelStep ==
  ASSUME TypeOK, Whereabouts, NEW j \in Job, Cancel(j)
  PROVE  Whereabouts'
  <1>0. /\ cancelled' = [cancelled EXCEPT ![j] = TRUE]
        /\ stageAtCancel' = [stageAtCancel EXCEPT ![j] = Stage(j)]
        /\ fate[j] # "unsubmitted" /\ stageAtCancel[j] = "never"
        /\ UNCHANGED <<entries, pc, holding, completions, fate, ran>>
    BY DEF Cancel, workerVars, Whereabouts, CancelRecorded
  <1>1. Queued' = Queued /\ Sent' = Sent /\ Held' = Held /\ Live' = Live
    BY <1>0 DEF Queued, Sent, Held, Live
  <1>2. HandsFull' /\ JobsConserved' /\ RunCounts' /\ RunsOnce'
    BY <1>0, <1>1 DEF Whereabouts, HandsFull, JobsConserved, RunCounts, RunsOnce
  <1>3. Stage(j) \in {"pending", "running"} => j \notin Sent /\ fate[j] # "called"
    <2>1. ASSUME NEW w \in Worker, holding[w] = j
          PROVE  j \notin Sent /\ fate[j] # "called"
      BY <2>1 DEF Held, Live, Whereabouts, JobsConserved
    <2> QED  BY <2>1 DEF Stage, Sent
  <1>4. Stage(j) = "pending" => ran[j] = 0
    <2> SUFFICES ASSUME Stage(j) = "pending"
                 PROVE  ran[j] = 0
      OBVIOUS
    <2>1. /\ j \in Live /\ j \notin Sent
          /\ ~ \E w \in Worker : holding[w] = j /\ pc[w] \in {"execute", "report"}
      BY DEF Stage, Live, Sent
    <2>2. CASE j \in Queued
      BY <2>2 DEF Whereabouts, RunCounts
    <2>3. CASE j \in Held
      <3>1. PICK w \in Worker : holding[w] = j
        BY <2>3 DEF Held
      <3>2. holding[w] # None
        BY <3>1, JobsAssumption
      <3>3. pc[w] \in {"popped", "check", "start"}
        BY <2>1, <3>1, <3>2 DEF Whereabouts, HandsFull
      <3> QED  BY <3>1, <3>3 DEF Whereabouts, RunCounts
    <2> QED  BY <2>1, <2>2, <2>3 DEF Whereabouts, JobsConserved
  <1>5. /\ cancelled'[j] = TRUE /\ stageAtCancel'[j] = Stage(j)
        /\ \A i \in Job : i # j => /\ cancelled'[i] = cancelled[i]
                                  /\ stageAtCancel'[i] = stageAtCancel[i]
    BY <1>0 DEF TypeOK
  <1>6. CancelRecorded'
    <2>1. ASSUME NEW i \in Job, i # j
          PROVE  /\ fate'[i] = "unsubmitted" => stageAtCancel'[i] = "never"
                 /\ stageAtCancel'[i] # "never" => cancelled'[i]
                 /\ stageAtCancel'[i] \in {"pending", "running"} => i \notin Sent'
      BY <1>0, <1>1, <1>5, <2>1 DEF Whereabouts, CancelRecorded
    <2>2. /\ fate'[j] = "unsubmitted" => stageAtCancel'[j] = "never"
          /\ stageAtCancel'[j] # "never" => cancelled'[j]
          /\ stageAtCancel'[j] \in {"pending", "running"} => j \notin Sent'
      BY <1>0, <1>1, <1>3, <1>5
    <2> QED  BY <2>1, <2>2 DEF CancelRecorded
  <1>7. CancelStops'
    BY <1>0, <1>3, <1>4, <1>5 DEF Whereabouts, CancelStops
  <1> QED  BY <1>2, <1>6, <1>7 DEF Whereabouts

LEMMA CallbackStep ==
  ASSUME TypeOK, Whereabouts, RunCallback
  PROVE  Whereabouts'
  <1> DEFINE j == Head(completions)
  <1>0. /\ completions # <<>> /\ completions' = Tail(completions)
        /\ fate' = [fate EXCEPT ![j] = "called"]
        /\ UNCHANGED <<entries, pc, holding, cancelled, ran, stageAtCancel>>
    BY DEF RunCallback, workerVars
  <1>1. /\ j \in Job /\ j \in Sent
        /\ Sent' = Sent \ {j} /\ Injective(completions')
    BY <1>0, ElementsTail DEF TypeOK, Sent, Whereabouts, JobsConserved
  <1>2. j \in Live /\ j \notin Queued /\ j \notin Held
    BY <1>1 DEF Whereabouts, JobsConserved
  <1>3. Queued' = Queued /\ Held' = Held /\ Live' = Live \ {j}
    <2>1. Live' = Live \ {j}
      BY <1>0, <1>1 DEF Live, TypeOK
    <2> QED  BY <1>0, <2>1 DEF Queued, Held
  <1>4. JobsConserved'
    BY <1>0, <1>1, <1>2, <1>3 DEF Whereabouts, JobsConserved
  <1>5. HandsFull'
    BY <1>0 DEF Whereabouts, HandsFull
  <1>6. RunCounts'
    BY <1>0, <1>1, <1>3 DEF Whereabouts, RunCounts, TypeOK
  <1>7. RunsOnce'
    BY <1>0, <1>1 DEF Whereabouts, RunsOnce, RunCounts, TypeOK
  <1>8. CancelRecorded' /\ CancelStops'
    BY <1>0, <1>1 DEF Whereabouts, CancelRecorded, CancelStops, TypeOK
  <1> QED  BY <1>4, <1>5, <1>6, <1>7, <1>8 DEF Whereabouts

LEMMA PopStep ==
  ASSUME TypeOK, Whereabouts, NEW w \in Worker, Pop(w)
  PROVE  Whereabouts'
  <1> DEFINE q == Serves[w]
             j == Head(entries[q])
  <1>0. q \in Queue /\ pc[w] = "pop"
    BY JobsAssumption DEF Pop
  <1>1. CASE entries' = entries
    <2>1. UNCHANGED <<entries, holding, completions, cancelled, fate, ran, stageAtCancel>>
          /\ \E x \in {"exited", "wait"} : pc' = [pc EXCEPT ![w] = x]
      <3>1. entries[q] # <<>> => Tail(entries[q]) # entries[q]
        <4>1. entries[q] # <<>> => Len(Tail(entries[q])) = Len(entries[q]) - 1
          BY <1>0, HeadTailProperties DEF TypeOK
        <4>2. Len(entries[q]) \in Nat
          BY <1>0, LenProperties DEF TypeOK
        <4>3. Len(entries[q]) - 1 # Len(entries[q])
          BY <4>2
        <4> QED  BY <4>1, <4>3
      <3>2. pc'[w] # "popped"
        <4> SUFFICES ASSUME pc'[w] = "popped"
                     PROVE  FALSE
          OBVIOUS
        <4>1. entries[q] # <<>> /\ entries' = [entries EXCEPT ![q] = Tail(entries[q])]
          BY DEF Pop, TypeOK, WithoutFront
        <4> QED  BY <1>0, <1>1, <3>1, <4>1 DEF TypeOK
      <3> QED  BY <1>1, <3>2 DEF Pop, TypeOK
    <2>2. \A v \in Worker : /\ pc[v] \in AtRest <=> pc'[v] \in AtRest
                            /\ pc[v] \in BeforeRun <=> pc'[v] \in BeforeRun
                            /\ pc[v] \in InRun <=> pc'[v] \in InRun
      BY <1>0, <2>1 DEF AtRest, BeforeRun, InRun, TypeOK
    <2> QED  BY <2>1, <2>2, QuietStep
  <1>2. CASE entries' # entries
    <2>1. /\ entries[q] # <<>> /\ pc' = [pc EXCEPT ![w] = "popped"]
          /\ holding' = [holding EXCEPT ![w] = j]
          /\ entries' = [entries EXCEPT ![q] = Tail(entries[q])]
          /\ UNCHANGED <<completions, cancelled, fate, ran, stageAtCancel>>
      BY <1>2 DEF Pop, FrontOf, WithoutFront
    <2>2. /\ j \in Job /\ j \in Elements(entries[q])
          /\ Elements(entries'[q]) = Elements(entries[q]) \ {j}
          /\ Injective(entries'[q])
          /\ \A p \in Queue : p # q => entries'[p] = entries[p]
      BY <1>0, <2>1, ElementsTail DEF TypeOK, Whereabouts, JobsConserved
    <2>3. j \in Queued /\ j \in Live /\ j \notin Held /\ j \notin Sent
      BY <1>0, <2>2 DEF Queued, Whereabouts, JobsConserved
    <2>4. /\ holding[w] = None /\ holding'[w] = j /\ pc'[w] = "popped"
          /\ \A v \in Worker : v # w => holding'[v] = holding[v] /\ pc'[v] = pc[v]
          /\ \A i \in Job : i # None
      BY <1>0, <2>1, JobsAssumption DEF Whereabouts, HandsFull, TypeOK
    <2>5. Queued' = Queued \ {j}
      <3>1. \A p \in Queue : p # q => j \notin Elements(entries[p])
        BY <1>0, <2>2 DEF Whereabouts, JobsConserved
      <3> QED  BY <1>0, <2>2, <3>1 DEF Queued
    <2>6. Held' = Held \cup {j}
      BY <2>2, <2>4 DEF Held
    <2>7. Sent' = Sent /\ Live' = Live
      BY <2>1 DEF Sent, Live
    <2>8. HandsFull'
      BY <2>2, <2>4 DEF Whereabouts, HandsFull
    <2>9. JobsConserved'
      <3>1. \A p \in Queue : Injective(entries'[p])
        BY <2>2 DEF Whereabouts, JobsConserved
      <3>2. \A p, r \in Queue : p # r => Elements(entries'[p]) \cap Elements(entries'[r]) = {}
        BY <1>0, <2>2 DEF Whereabouts, JobsConserved
      <3>3. \A u, v \in Worker : holding'[u] = holding'[v] => u = v \/ holding'[u] = None
        BY <2>2, <2>3, <2>4 DEF Whereabouts, JobsConserved, Held
      <3>4. /\ Live' = Queued' \cup Held' \cup Sent'
            /\ Queued' \cap Held' = {} /\ Queued' \cap Sent' = {} /\ Held' \cap Sent' = {}
        BY <2>3, <2>5, <2>6, <2>7 DEF Whereabouts, JobsConserved
      <3> QED  BY <2>1, <3>1, <3>2, <3>3, <3>4 DEF Whereabouts, JobsConserved
    <2>10. RunCounts'
      <3>1. ran[j] = 0
        BY <2>2, <2>3 DEF Whereabouts, RunCounts
      <3>2. \A i \in Job : fate'[i] = "unsubmitted" \/ i \in Queued' => ran'[i] = 0
        BY <2>1, <2>5 DEF Whereabouts, RunCounts
      <3>3. \A v \in Worker :
              /\ pc'[v] \in {"popped", "check", "start"} => ran'[holding'[v]] = 0
              /\ pc'[v] \in {"execute", "report"} => ran'[holding'[v]] = 1
        BY <2>1, <2>4, <3>1 DEF Whereabouts, RunCounts
      <3>4. \A i \in Sent' : ran'[i] = 1
        BY <2>1, <2>7 DEF Whereabouts, RunCounts
      <3> QED  BY <3>2, <3>3, <3>4 DEF RunCounts
    <2>11. RunsOnce' /\ CancelRecorded' /\ CancelStops'
      BY <2>1, <2>7 DEF Whereabouts, RunsOnce, CancelRecorded, CancelStops
    <2> QED  BY <2>8, <2>9, <2>10, <2>11 DEF Whereabouts
  <1> QED  BY <1>1, <1>2

\* Start of a job that is not cancelled.
LEMMA EnterStep ==
  ASSUME TypeOK, Whereabouts, NEW w \in Worker, pc[w] = "start",
         ~cancelled[holding[w]],
         pc' = [pc EXCEPT ![w] = "execute"],
         ran' = [ran EXCEPT ![holding[w]] = @ + 1],
         UNCHANGED <<entries, holding, completions, cancelled, fate, stageAtCancel>>
  PROVE  Whereabouts'
  <1> DEFINE j == holding[w]
  <1>0. j # None /\ j \in Job /\ ran[j] = 0
    BY DEF Whereabouts, HandsFull, RunCounts, TypeOK
  <1>1. Queued' = Queued /\ Sent' = Sent /\ Held' = Held /\ Live' = Live
    BY DEF Queued, Sent, Held, Live
  <1>2. j \in Live /\ j \notin Queued /\ j \notin Sent
    BY <1>0 DEF Whereabouts, JobsConserved, Held
  <1>3. /\ ran'[j] = 1 /\ \A i \in Job : i # j => ran'[i] = ran[i]
        /\ pc'[w] = "execute" /\ \A v \in Worker : v # w => pc'[v] = pc[v]
    BY <1>0 DEF TypeOK
  <1>4. HandsFull' /\ JobsConserved'
    BY <1>1, <1>3 DEF Whereabouts, HandsFull, JobsConserved
  <1>5. RunCounts'
    <2>1. \A i \in Job : fate'[i] = "unsubmitted" \/ i \in Queued' => ran'[i] = 0
      BY <1>1, <1>2, <1>3 DEF Whereabouts, RunCounts, Live
    <2>2. ASSUME NEW v \in Worker, v # w, holding[v] # None
          PROVE  holding[v] \in Job /\ ran'[holding[v]] = ran[holding[v]]
      BY <1>0, <1>3, <2>2 DEF Whereabouts, JobsConserved, TypeOK
    <2>3. \A v \in Worker :
            /\ pc'[v] \in {"popped", "check", "start"} => ran'[holding'[v]] = 0
            /\ pc'[v] \in {"execute", "report"} => ran'[holding'[v]] = 1
      BY <1>3, <2>2 DEF Whereabouts, RunCounts, HandsFull
    <2>4. \A i \in Sent' : i \in Job /\ ran'[i] = 1
      BY <1>1, <1>2, <1>3, ElementsType DEF Whereabouts, RunCounts, Sent, TypeOK
    <2> QED  BY <2>1, <2>3, <2>4 DEF RunCounts
  <1>6. RunsOnce'
    BY <1>3, <1>2 DEF Whereabouts, RunsOnce, Live
  <1>7. CancelRecorded'
    BY <1>1 DEF Whereabouts, CancelRecorded
  <1>8. stageAtCancel[j] = "never"
    BY <1>0 DEF Whereabouts, CancelRecorded
  <1>9. CancelStops'
    BY <1>3, <1>8 DEF Whereabouts, CancelStops
  <1> QED  BY <1>4, <1>5, <1>6, <1>7, <1>9 DEF Whereabouts

\* Report of a job that is not cancelled.
LEMMA SendStep ==
  ASSUME TypeOK, Whereabouts, NEW w \in Worker, pc[w] = "report",
         ~cancelled[holding[w]],
         pc' = [pc EXCEPT ![w] = "deactivate"],
         holding' = [holding EXCEPT ![w] = None],
         completions' = Append(completions, holding[w]),
         UNCHANGED <<entries, cancelled, fate, ran, stageAtCancel>>
  PROVE  Whereabouts'
  <1> DEFINE j == holding[w]
  <1>0. j # None /\ j \in Job /\ ran[j] = 1 /\ j \in Held
    BY DEF Whereabouts, HandsFull, RunCounts, TypeOK, Held
  <1>1. j \in Live /\ j \notin Queued /\ j \notin Sent
    BY <1>0 DEF Whereabouts, JobsConserved
  <1>2. Sent' = Sent \cup {j} /\ Injective(completions')
    BY <1>0, <1>1, ElementsAppend DEF Sent, TypeOK, Whereabouts, JobsConserved
  <1>3. /\ holding'[w] = None /\ pc'[w] = "deactivate"
        /\ \A v \in Worker : v # w => holding'[v] = holding[v] /\ pc'[v] = pc[v]
        /\ \A i \in Job : i # None
    BY JobsAssumption DEF TypeOK
  <1>4. Held' = Held \ {j}
    <2>1. \A v \in Worker : holding[v] = j => v = w
      BY <1>0 DEF Whereabouts, JobsConserved
    <2> QED  BY <1>0, <1>3, <2>1 DEF Held
  <1>5. Queued' = Queued /\ Live' = Live
    BY DEF Queued, Live
  <1>6. HandsFull'
    BY <1>3 DEF Whereabouts, HandsFull
  <1>7. JobsConserved'
    <2>1. \A u, v \in Worker : holding'[u] = holding'[v] => u = v \/ holding'[u] = None
      BY <1>3 DEF Whereabouts, JobsConserved
    <2>2. /\ Live' = Queued' \cup Held' \cup Sent'
          /\ Queued' \cap Held' = {} /\ Queued' \cap Sent' = {} /\ Held' \cap Sent' = {}
      BY <1>0, <1>1, <1>2, <1>4, <1>5 DEF Whereabouts, JobsConserved
    <2> QED  BY <1>2, <2>1, <2>2 DEF Whereabouts, JobsConserved
  <1>8. RunCounts'
    <2>1. \A v \in Worker :
            /\ pc'[v] \in {"popped", "check", "start"} => ran'[holding'[v]] = 0
            /\ pc'[v] \in {"execute", "report"} => ran'[holding'[v]] = 1
      BY <1>3 DEF Whereabouts, RunCounts
    <2> QED  BY <1>0, <1>2, <1>5, <2>1 DEF Whereabouts, RunCounts
  <1>9. stageAtCancel[j] = "never"
    BY <1>0 DEF Whereabouts, CancelRecorded
  <1>10. RunsOnce' /\ CancelRecorded' /\ CancelStops'
    BY <1>2, <1>9 DEF Whereabouts, RunsOnce, CancelRecorded, CancelStops
  <1> QED  BY <1>6, <1>7, <1>8, <1>10 DEF Whereabouts

-----------------------------------------------------------------------------
LEMMA WhereaboutsStep == TypeOK /\ Whereabouts /\ PoolHeld /\ [Next]_vars => Whereabouts'
  <1> SUFFICES ASSUME TypeOK, Whereabouts, PoolHeld, [Next]_vars
               PROVE  Whereabouts'
    OBVIOUS
  <1>1. CASE \E j \in Job, q \in Queue : Submit(j, q)
    BY <1>1, SubmitStep
  <1>2. CASE \E j \in Job : SubmitInline(j)
    BY <1>2, SubmitInlineStep
  <1>3. CASE \E j \in Job : Cancel(j)
    BY <1>3, CancelStep
  <1>4. CASE RunCallback
    BY <1>4, CallbackStep
  <1>5. CASE \/ CountDepth \/ BeginPump \/ EndCallback \/ EndPump
             \/ DropHandle \/ UNCHANGED vars
    <2>1. UNCHANGED <<entries, pc, holding, completions, cancelled, fate, ran, stageAtCancel>>
      BY <1>5 DEF CountDepth, BeginPump, EndCallback, EndPump, DropHandle, vars, workerVars
    <2> QED  BY <2>1, QuietStep
  <1>6. CASE DropInner
    <2>1. \A w \in Worker : pc[w] # "wait"
      BY <1>6 DEF DropInner, HoldsInner
    <2>2. \A w \in Worker : pc'[w] = pc[w]
      BY <1>6, <2>1 DEF DropInner
    <2>3. UNCHANGED <<entries, holding, completions, cancelled, fate, ran, stageAtCancel>>
      BY <1>6 DEF DropInner
    <2> QED  BY <2>2, <2>3, QuietStep
  <1>7. ASSUME NEW w \in Worker, WorkerStep(w) \/ SpuriousWake(w)
        PROVE  Whereabouts'
    <2>0. pc[w] \in BeforeRun \cup InRun => holding[w] # None
      BY DEF Whereabouts, HandsFull, BeforeRun, InRun
    <2>1. CASE Pop(w)
      BY <2>1, PopStep
    <2>2. CASE UncountDepth(w) \/ Deactivate(w) \/ SpuriousWake(w)
      <3>1. /\ UNCHANGED <<entries, holding, completions, cancelled, fate, ran, stageAtCancel>>
            /\ \/ pc[w] = "popped" /\ pc' = [pc EXCEPT ![w] = "check"]
               \/ pc[w] \in {"deactivate", "wait"} /\ pc' = [pc EXCEPT ![w] = "pop"]
        BY <2>2 DEF UncountDepth, Deactivate, SpuriousWake
      <3> QED  BY <3>1, QuietStep DEF TypeOK, AtRest, BeforeRun, InRun
    <2>3. CASE CheckCancelled(w)
      <3>1. CASE pc' = [pc EXCEPT ![w] = "start"] /\ UNCHANGED <<holding, fate>>
        <4>1. /\ UNCHANGED <<entries, completions, cancelled, ran, stageAtCancel>>
              /\ pc[w] = "check"
          BY <2>3 DEF CheckCancelled
        <4> QED  BY <3>1, <4>1, QuietStep DEF TypeOK, AtRest, BeforeRun, InRun
      <3>2. CASE /\ pc' = [pc EXCEPT ![w] = "pop"]
                 /\ holding' = [holding EXCEPT ![w] = None] /\ Skip(w)
        <4>1. /\ UNCHANGED <<entries, completions, cancelled, ran, stageAtCancel>>
              /\ pc[w] = "check" /\ fate' = [fate EXCEPT ![holding[w]] = "skipped"]
          BY <2>3, <3>2 DEF CheckCancelled, Skip
        <4> QED  BY <2>0, <3>2, <4>1, SettleStep DEF AtRest, BeforeRun
      <3> QED  BY <2>3, <3>1, <3>2 DEF CheckCancelled
    <2>4. CASE Start(w)
      <3>0. /\ UNCHANGED <<entries, completions, cancelled, stageAtCancel>>
            /\ pc[w] = "start"
        BY <2>4 DEF Start
      <3>1. CASE /\ ~cancelled[holding[w]] /\ pc' = [pc EXCEPT ![w] = "execute"]
                 /\ ran' = [ran EXCEPT ![holding[w]] = @ + 1]
                 /\ UNCHANGED <<holding, fate>>
        BY <3>0, <3>1, EnterStep
      <3>2. CASE /\ pc' = [pc EXCEPT ![w] = "deactivate"]
                 /\ holding' = [holding EXCEPT ![w] = None] /\ Skip(w) /\ ran' = ran
        BY <2>0, <3>0, <3>2, SettleStep DEF AtRest, BeforeRun, Skip
      <3> QED  BY <2>4, <3>1, <3>2 DEF Start, MustStop
    <2>5. CASE Execute(w)
      <3>0. /\ UNCHANGED <<entries, completions, cancelled, ran, stageAtCancel>>
            /\ pc[w] = "execute"
        BY <2>5 DEF Execute
      <3>1. CASE pc' = [pc EXCEPT ![w] = "report"] /\ UNCHANGED <<holding, fate>>
        BY <3>0, <3>1, QuietStep DEF TypeOK, AtRest, BeforeRun, InRun
      <3>2. CASE /\ pc' = [pc EXCEPT ![w] = "deactivate"]
                 /\ holding' = [holding EXCEPT ![w] = None]
                 /\ fate' = [fate EXCEPT ![holding[w]] = "panicked"]
        BY <2>0, <3>0, <3>2, SettleStep DEF AtRest, InRun
      <3> QED  BY <2>5, <3>1, <3>2 DEF Execute, AfterPanic
    <2>6. CASE Report(w)
      <3>0. /\ UNCHANGED <<entries, cancelled, ran, stageAtCancel>>
            /\ pc[w] = "report" /\ pc' = [pc EXCEPT ![w] = "deactivate"]
            /\ holding' = [holding EXCEPT ![w] = None]
        BY <2>6 DEF Report
      <3>1. CASE /\ ~cancelled[holding[w]] /\ fate' = fate
                 /\ completions' = Append(completions, holding[w])
        BY <3>0, <3>1, SendStep
      <3>2. CASE completions' = completions /\ Skip(w)
        BY <2>0, <3>0, <3>2, SettleStep DEF AtRest, InRun, Skip
      <3> QED  BY <2>6, <3>1, <3>2 DEF Report, MustStop, SendCompletion
    <2> QED  BY <1>7, <2>1, <2>2, <2>3, <2>4, <2>5, <2>6 DEF WorkerStep
  <1> QED  BY <1>1, <1>2, <1>3, <1>4, <1>5, <1>6, <1>7 DEF Next, PumpStep

LEMMA InvariantInit == Init => JobsInv
  <1> SUFFICES ASSUME Init
               PROVE  JobsInv
    OBVIOUS
  <1>1. \A q \in Queue : entries[q] = <<>>
    BY DEF Init
  <1>2. Queued = {} /\ Sent = {} /\ Live = {}
    BY <1>1, ElementsEmpty DEF Init, Queued, Sent, Live
  <1>3. Held = {}
    BY JobsAssumption DEF Init, Held
  <1>4. JobsConserved
    BY <1>1, <1>2, <1>3, ElementsEmpty DEF Init, JobsConserved
  <1>5. TypeOK
    BY TypeInit
  <1>6. NoLostWakeup /\ HandsFull /\ RunsOnce /\ PoolHeld
    BY <1>1 DEF Init, NoLostWakeup, HandsFull, RunsOnce, PoolHeld, PoolIntact
  <1>7. RunCounts /\ CancelRecorded /\ CancelStops
    BY <1>2 DEF Init, RunCounts, CancelRecorded, CancelStops
  <1> QED  BY <1>4, <1>5, <1>6, <1>7 DEF JobsInv

LEMMA Invariance == Spec => []JobsInv
  <1>1. Init => JobsInv
    BY InvariantInit
  <1>2. JobsInv /\ [Next]_vars => JobsInv'
    BY TypeStep, WakeupStep, PoolStep, WhereaboutsStep DEF JobsInv, Whereabouts
  <1> QED  BY <1>1, <1>2, PTL DEF Spec

(* Every variable of the job system keeps its type (Jobs, JobsInner).      *)
THEOREM JobTypes == Spec => []TypeOK
  BY Invariance, PTL DEF JobsInv

(* A queue with entries always has a worker that is awake or has been      *)
(* woken: one notify_one per push is enough (JobQueueState).               *)
THEOREM WakeupsNeverLost == Spec => []NoLostWakeup
  BY Invariance, PTL DEF JobsInv

(* An accepted job is in exactly one place until it is settled.            *)
THEOREM JobsNeverLost == Spec => []JobsConserved
  BY Invariance, PTL DEF JobsInv

(* A job is entered at most once, its callback called only after a run.    *)
THEOREM JobsRunOnce == Spec => []RunsOnce
  BY Invariance, PTL DEF JobsInv

(* Cancelling in time stops a job or its callback (JobHandle::cancel).     *)
THEOREM CancellationStops == Spec => []CancelStops
  BY Invariance, PTL DEF JobsInv

(* No worker ever leaves the pool, not even after the handle is dropped.   *)
THEOREM WorkersStay == Spec => []PoolIntact
  <1>1. JobsInv => PoolIntact
    BY DEF JobsInv, PoolHeld
  <1> QED  BY <1>1, Invariance, PTL

-----------------------------------------------------------------------------
(* The counters of the metrics.                                            *)

LEMMA ActiveByQueue ==
  ActiveAccounts <=> \A q \in Queue : active[q] = Cardinality(At(q, InRunner))
  BY DEF ActiveAccounts, At, InRunner

LEMMA AtBounds ==
  ASSUME NEW q, NEW P
  PROVE  /\ IsFiniteSet(At(q, P)) /\ Cardinality(At(q, P)) \in Nat
         /\ Cardinality(At(q, P)) <= Cardinality(Worker) /\ Cardinality(Worker) \in Nat
  <1>1. At(q, P) \in SUBSET Worker
    BY DEF At
  <1> QED  BY <1>1, JobsAssumption, FS_Subset, FS_CardinalityType

(* A step of one worker adds it to a place or takes it away.               *)
LEMMA OneEnters ==
  ASSUME NEW P, NEW w \in Worker, pc[w] \notin P, pc'[w] \in P,
         \A v \in Worker : v # w => pc'[v] = pc[v], NEW q
  PROVE  /\ Serves[w] # q => Cardinality(At(q, P))' = Cardinality(At(q, P))
         /\ Serves[w] = q => Cardinality(At(q, P))' = Cardinality(At(q, P)) + 1
  <1>1. CASE Serves[w] # q
    <2>1. At(q, P)' = At(q, P)
      BY <1>1 DEF At
    <2> QED  BY <1>1, <2>1
  <1>2. CASE Serves[w] = q
    <2>1. At(q, P)' = At(q, P) \cup {w} /\ w \notin At(q, P)
      BY <1>2 DEF At
    <2>2. Cardinality(At(q, P) \cup {w}) = Cardinality(At(q, P)) + 1
      BY <2>1, AtBounds, FS_AddElement
    <2> QED  BY <1>2, <2>1, <2>2
  <1> QED  BY <1>1, <1>2

LEMMA OneLeaves ==
  ASSUME NEW P, NEW w \in Worker, pc[w] \in P, pc'[w] \notin P,
         \A v \in Worker : v # w => pc'[v] = pc[v], NEW q
  PROVE  /\ Serves[w] # q => Cardinality(At(q, P))' = Cardinality(At(q, P))
         /\ Serves[w] = q => /\ Cardinality(At(q, P))' = Cardinality(At(q, P)) - 1
                             /\ Cardinality(At(q, P)) >= 1
  <1>1. CASE Serves[w] # q
    <2>1. At(q, P)' = At(q, P)
      BY <1>1 DEF At
    <2> QED  BY <1>1, <2>1
  <1>2. CASE Serves[w] = q
    <2>1. At(q, P)' = At(q, P) \ {w} /\ w \in At(q, P)
      BY <1>2 DEF At
    <2>2. Cardinality(At(q, P) \ {w}) = Cardinality(At(q, P)) - 1
      BY <2>1, AtBounds, FS_RemoveElement
    <2>3. Cardinality(At(q, P)) # 0 /\ Cardinality(At(q, P)) \in Nat
      BY <2>1, AtBounds, FS_EmptySet
    <2>4. Cardinality(At(q, P)) >= 1
      BY <2>3
    <2> QED  BY <1>2, <2>1, <2>2, <2>4
  <1> QED  BY <1>1, <1>2

(* Workers that wake or fall asleep are counted nowhere.                   *)
LEMMA NobodyMoves ==
  ASSUME NEW P, \A w \in Worker : pc'[w] \in P <=> pc[w] \in P, NEW q
  PROVE  Cardinality(At(q, P))' = Cardinality(At(q, P))
  <1>1. At(q, P)' = At(q, P)
    BY DEF At
  <1> QED  BY <1>1

(* A counter has room for everything that is counted.                      *)
LEMMA Room ==
  ASSUME TypeOK, Bounded, NEW q \in Queue
  PROVE  /\ Len(entries[q]) \in Nat /\ Uncounted(q) \in Nat /\ Underway(q) \in Nat
         /\ Underway(q) < USIZE_MOD /\ USIZE_MOD \in Nat /\ Capacity \in Nat
         /\ Cardinality(At(q, InRunner)) \in Nat /\ Cardinality(At(q, InRunner)) < USIZE_MOD
         /\ depth[q] \in 0 .. USIZE_MOD - 1 /\ active[q] \in 0 .. USIZE_MOD - 1
  <1>1. Len(entries[q]) \in Nat /\ Len(entries[q]) <= Capacity
    BY LenProperties DEF TypeOK, Bounded
  <1>2. /\ Capacity \in Nat /\ USIZE_MOD \in Nat /\ Capacity + Cardinality(Worker) < USIZE_MOD
        /\ Cardinality(Worker) < USIZE_MOD
    BY JobsAssumption
  <1>3. /\ Uncounted(q) \in Nat /\ Uncounted(q) <= Cardinality(Worker)
        /\ Cardinality(Worker) \in Nat
    BY AtBounds DEF Uncounted
  <1>4. /\ Cardinality(At(q, InRunner)) \in Nat
        /\ Cardinality(At(q, InRunner)) <= Cardinality(Worker)
    BY AtBounds
  <1>5. depth[q] \in 0 .. USIZE_MOD - 1 /\ active[q] \in 0 .. USIZE_MOD - 1
    BY DEF TypeOK
  <1>6. Underway(q) \in Nat /\ Underway(q) < USIZE_MOD
    BY <1>1, <1>2, <1>3 DEF Underway
  <1> QED  BY <1>1, <1>2, <1>3, <1>4, <1>5, <1>6

(* Steps that touch neither queues nor counters.                           *)
LEMMA UncountedStep ==
  ASSUME TypeOK, MetricsInv, UNCHANGED <<entries, depth, active, adding>>,
         \A w \in Worker : /\ pc'[w] = "popped" <=> pc[w] = "popped"
                           /\ pc'[w] \in InRunner <=> pc[w] \in InRunner
  PROVE  MetricsInv'
  <1>1. \A q \in Queue : Uncounted(q)' = Uncounted(q)
    <2>1. \A w \in Worker : pc'[w] \in {"popped"} <=> pc[w] \in {"popped"}
      OBVIOUS
    <2> QED  BY <2>1, NobodyMoves DEF Uncounted
  <1>2. \A q \in Queue : Cardinality(At(q, InRunner))' = Cardinality(At(q, InRunner))
    BY NobodyMoves
  <1>3. \A q \in Queue : Underway(q)' = Underway(q)
    BY <1>1 DEF Underway
  <1>4. ActiveAccounts'
    <2>1. \A q \in Queue : active'[q] = Cardinality(At(q, InRunner))'
      BY <1>2, ActiveByQueue DEF MetricsInv
    <2> QED  BY <2>1 DEF ActiveAccounts, At, InRunner
  <1> QED  BY <1>3, <1>4 DEF MetricsInv, Bounded, DepthExact

(* What a step has to show: the queues, the workers that have not counted  *)
(* down yet, and the depth agree again.                                    *)
LEMMA ActiveKept ==
  ASSUME TypeOK, MetricsInv, active' = active,
         \A w \in Worker : pc'[w] \in InRunner <=> pc[w] \in InRunner
  PROVE  ActiveAccounts'
  <1>1. \A q \in Queue : Cardinality(At(q, InRunner))' = Cardinality(At(q, InRunner))
    BY NobodyMoves
  <1>2. \A q \in Queue : active'[q] = Cardinality(At(q, InRunner))'
    BY <1>1, ActiveByQueue DEF MetricsInv
  <1> QED  BY <1>2 DEF ActiveAccounts, At, InRunner

LEMMA DepthKept ==
  ASSUME TypeOK, MetricsInv, UNCHANGED <<entries, depth, adding>>,
         \A w \in Worker : pc'[w] = "popped" <=> pc[w] = "popped"
  PROVE  Bounded' /\ DepthExact'
  <1>1. \A w \in Worker : pc'[w] \in {"popped"} <=> pc[w] \in {"popped"}
    OBVIOUS
  <1>2. \A q \in Queue : Uncounted(q)' = Uncounted(q)
    BY <1>1, NobodyMoves DEF Uncounted
  <1>3. \A q \in Queue : Underway(q)' = Underway(q)
    BY <1>2 DEF Underway
  <1> QED  BY <1>3 DEF MetricsInv, Bounded, DepthExact

LEMMA SubmitMetrics ==
  ASSUME TypeOK, MetricsInv, NEW j \in Job, NEW q \in Queue, Submit(j, q)
  PROVE  MetricsInv'
  <1>1. /\ adding = None /\ adding' = q /\ depth' = depth /\ active' = active
        /\ entries' = [entries EXCEPT ![q] = Append(entries[q], j)]
        /\ Len(entries[q]) < Capacity
    BY DEF Submit, MayCall
  <1>2. \A w \in Worker : pc'[w] = pc[w] \/ (pc[w] = "wait" /\ pc'[w] = "pop")
    BY DEF Submit, WakeOne, Waiting, TypeOK
  <1>3. ActiveAccounts'
    BY <1>1, <1>2, ActiveKept DEF InRunner
  <1>4. \A p \in Queue : Uncounted(p)' = Uncounted(p)
    <2>1. \A w \in Worker : pc'[w] \in {"popped"} <=> pc[w] \in {"popped"}
      BY <1>2
    <2> QED  BY <2>1, NobodyMoves DEF Uncounted
  <1>5. /\ \A p \in Queue \ {q} : entries'[p] = entries[p]
        /\ entries'[q] = Append(entries[q], j)
        /\ entries[q] \in Seq(Job)
    BY <1>1 DEF TypeOK
  <1>6. Len(entries'[q]) = Len(entries[q]) + 1
    BY <1>5, AppendProperties
  <1>7. Len(entries[q]) \in Nat /\ Capacity \in Nat /\ None \notin Queue
    BY Room, JobsAssumption DEF MetricsInv
  <1>8. Bounded'
    BY <1>1, <1>5, <1>6, <1>7 DEF MetricsInv, Bounded
  <1>9. ASSUME NEW p \in Queue
        PROVE  /\ p # q => depth'[p] = Underway(p)'
               /\ p = q => WrapInc(depth'[p]) = Underway(p)'
    <2>1. depth[p] = Underway(p)
      BY <1>1, <1>7 DEF MetricsInv, DepthExact
    <2>2. CASE p # q
      BY <1>1, <1>4, <1>5, <2>1, <2>2 DEF Underway
    <2>3. CASE p = q
      <3>1. /\ Underway(q)' = Len(entries[q]) + 1 + Uncounted(q)
            /\ Underway(q) = Len(entries[q]) + Uncounted(q)
        BY <1>4, <1>6 DEF Underway
      <3>2. /\ Uncounted(q) \in Nat /\ Uncounted(q) <= Cardinality(Worker)
            /\ Cardinality(Worker) \in Nat
        BY AtBounds DEF Uncounted
      <3>3. Capacity + Cardinality(Worker) < USIZE_MOD /\ USIZE_MOD \in Nat
        BY JobsAssumption
      <3>4. depth[q] + 1 = Underway(q)' /\ depth[q] + 1 # USIZE_MOD
        BY <1>1, <1>7, <2>1, <2>3, <3>1, <3>2, <3>3
      <3> QED  BY <1>1, <2>3, <3>4 DEF WrapInc
    <2> QED  BY <2>2, <2>3
  <1>10. DepthExact'
    BY <1>1, <1>9 DEF DepthExact
  <1> QED  BY <1>3, <1>8, <1>10 DEF MetricsInv

LEMMA CountDepthMetrics ==
  ASSUME TypeOK, MetricsInv, CountDepth
  PROVE  MetricsInv'
  <1>1. PICK q \in Queue : q = adding
    BY DEF CountDepth, TypeOK
  <1>2. /\ adding = q /\ adding' = None /\ entries' = entries
        /\ depth' = [depth EXCEPT ![q] = WrapInc(depth[q])]
        /\ pc' = pc /\ active' = active
    BY <1>1 DEF CountDepth, workerVars
  <1>3. ActiveAccounts'
    BY <1>2, ActiveKept
  <1>4. Bounded'
    BY <1>2 DEF MetricsInv, Bounded
  <1>5. \A p \in Queue : Underway(p)' = Underway(p)
    BY <1>2 DEF Underway, Uncounted, At
  <1>6. \A p \in Queue : depth'[p] = IF p = q THEN WrapInc(depth[p]) ELSE depth[p]
    BY <1>2 DEF TypeOK
  <1>7. \A p \in Queue : depth'[p] = Underway(p)
    BY <1>2, <1>6 DEF MetricsInv, DepthExact
  <1>8. DepthExact'
    BY <1>2, <1>5, <1>7, JobsAssumption DEF DepthExact
  <1> QED  BY <1>3, <1>4, <1>8 DEF MetricsInv

LEMMA PopMetrics ==
  ASSUME TypeOK, MetricsInv, NEW w \in Worker, Pop(w)
  PROVE  MetricsInv'
  <1>1. PICK q \in Queue : q = Serves[w]
    BY JobsAssumption
  <1>2. PICK b : b = IF shutdown THEN "exited" ELSE IF entries[q] = <<>> THEN "wait" ELSE "popped"
    OBVIOUS
  <1>3. /\ pc[w] = "pop" /\ pc' = [pc EXCEPT ![w] = b]
        /\ depth' = depth /\ active' = active /\ adding' = adding
        /\ b = "popped" => entries' = [entries EXCEPT ![q] = Tail(entries[q])]
        /\ b # "popped" => entries' = entries
    BY <1>1, <1>2 DEF Pop, WithoutFront, mainVars
  <1>4. \A v \in Worker : pc'[v] = IF v = w THEN b ELSE pc[v]
    BY <1>3 DEF TypeOK
  <1>5. b \in {"exited", "wait", "popped"}
    BY <1>2
  <1>6. ActiveAccounts'
    BY <1>3, <1>4, <1>5, ActiveKept DEF InRunner
  <1>7. CASE b # "popped"
    <2>1. \A v \in Worker : pc'[v] = "popped" <=> pc[v] = "popped"
      BY <1>3, <1>4, <1>7
    <2> QED  BY <1>3, <1>6, <1>7, <2>1, DepthKept DEF MetricsInv
  <1>8. CASE b = "popped"
    <2>1. entries[q] # <<>> /\ entries[q] \in Seq(Job)
      BY <1>2, <1>8 DEF TypeOK
    <2>2. /\ \A p \in Queue \ {q} : entries'[p] = entries[p]
          /\ entries'[q] = Tail(entries[q])
      BY <1>3, <1>8 DEF TypeOK
    <2>3. Len(entries'[q]) = Len(entries[q]) - 1 /\ Len(entries[q]) \in Nat
      BY <2>1, <2>2, HeadTailProperties, LenProperties
    <2>4. Capacity \in Nat
      BY JobsAssumption
    <2>5. Bounded'
      <3> SUFFICES ASSUME NEW p \in Queue
                   PROVE  Len(entries'[p]) <= Capacity
        BY DEF Bounded
      <3>1. Len(entries[p]) <= Capacity
        BY DEF MetricsInv, Bounded
      <3>2. CASE p = q
        BY <2>3, <2>4, <3>1, <3>2
      <3> QED  BY <2>2, <3>1, <3>2
    <2>6. \A p \in Queue :
            /\ p # q => Uncounted(p)' = Uncounted(p)
            /\ p = q => Uncounted(p)' = Uncounted(p) + 1
      <3>1. pc[w] \notin {"popped"} /\ pc'[w] \in {"popped"}
        BY <1>3, <1>4, <1>8
      <3>2. \A v \in Worker : v # w => pc'[v] = pc[v]
        BY <1>4
      <3> QED  BY <1>1, <3>1, <3>2, OneEnters DEF Uncounted
    <2>7. Uncounted(q) \in Nat
      BY AtBounds DEF Uncounted
    <2>8. \A p \in Queue : Underway(p)' = Underway(p)
      <3> SUFFICES ASSUME NEW p \in Queue
                   PROVE  Len(entries'[p]) + Uncounted(p)' = Len(entries[p]) + Uncounted(p)
        BY DEF Underway
      <3>1. CASE p = q
        BY <2>3, <2>6, <2>7, <3>1
      <3>2. CASE p # q
        BY <2>2, <2>6, <3>2
      <3> QED  BY <3>1, <3>2
    <2>9. DepthExact'
      BY <1>3, <2>8 DEF MetricsInv, DepthExact
    <2> QED  BY <1>6, <2>5, <2>9 DEF MetricsInv
  <1> QED  BY <1>7, <1>8

LEMMA UncountDepthMetrics ==
  ASSUME TypeOK, MetricsInv, NEW w \in Worker, UncountDepth(w)
  PROVE  MetricsInv'
  <1>1. PICK q \in Queue : q = Serves[w]
    BY JobsAssumption
  <1>2. /\ pc[w] = "popped" /\ pc' = [pc EXCEPT ![w] = "check"]
        /\ depth' = [depth EXCEPT ![q] = WrapDec(depth[q])]
        /\ active' = active /\ adding' = adding /\ entries' = entries
    BY <1>1 DEF UncountDepth, mainVars
  <1>3. \A v \in Worker : pc'[v] = IF v = w THEN "check" ELSE pc[v]
    BY <1>2 DEF TypeOK
  <1>4. ActiveAccounts'
    BY <1>2, <1>3, ActiveKept DEF InRunner
  <1>5. Bounded'
    BY <1>2 DEF MetricsInv, Bounded
  <1>6. /\ \A p \in Queue \ {q} : Uncounted(p)' = Uncounted(p)
        /\ Uncounted(q)' = Uncounted(q) - 1 /\ Uncounted(q) >= 1
    <2>1. pc[w] \in {"popped"} /\ pc'[w] \notin {"popped"}
      BY <1>2, <1>3
    <2>2. \A v \in Worker : v # w => pc'[v] = pc[v]
      BY <1>3
    <2> QED  BY <1>1, <2>1, <2>2, OneLeaves DEF Uncounted
  <1>7. \A p \in Queue : depth'[p] = IF p = q THEN WrapDec(depth[p]) ELSE depth[p]
    BY <1>2 DEF TypeOK
  <1>8. /\ \A p \in Queue \ {q} : Underway(p)' = Underway(p)
        /\ Underway(q) = Len(entries[q]) + Uncounted(q)
        /\ Underway(q)' = Len(entries[q]) + (Uncounted(q) - 1)
    BY <1>2, <1>6 DEF Underway
  <1>9. /\ Len(entries[q]) \in Nat /\ Uncounted(q) \in Nat /\ Underway(q) \in Nat
        /\ Underway(q) < USIZE_MOD /\ USIZE_MOD \in Nat
        /\ depth[q] \in 0 .. USIZE_MOD - 1
    BY Room DEF MetricsInv
  <1>10. \A p \in Queue \ {q} : /\ adding # p => depth'[p] = Underway(p)'
                                /\ adding = p => WrapInc(depth'[p]) = Underway(p)'
    BY <1>7, <1>8 DEF MetricsInv, DepthExact
  <1>11. /\ adding # q => depth'[q] = Underway(q)'
         /\ adding = q => WrapInc(depth'[q]) = Underway(q)'
    <2>1. CASE adding # q
      <3>1. depth[q] = Underway(q)
        BY <2>1 DEF MetricsInv, DepthExact
      <3> QED  BY <1>6, <1>7, <1>8, <1>9, <2>1, <3>1 DEF WrapDec
    <2>2. CASE adding = q
      <3>1. WrapInc(depth[q]) = Underway(q)
        BY <2>2 DEF MetricsInv, DepthExact
      <3>2. Underway(q) >= 1
        BY <1>6, <1>8, <1>9
      <3>3. depth[q] + 1 = Underway(q)
        BY <1>9, <3>1, <3>2 DEF WrapInc
      <3>4. WrapInc(WrapDec(depth[q])) = depth[q]
        BY <1>9 DEF WrapInc, WrapDec
      <3> QED  BY <1>6, <1>7, <1>8, <1>9, <2>2, <3>3, <3>4
    <2> QED  BY <2>1, <2>2
  <1>12. DepthExact'
    BY <1>2, <1>10, <1>11 DEF DepthExact
  <1> QED  BY <1>4, <1>5, <1>12 DEF MetricsInv

(* A worker enters or leaves a runner and says so.                         *)
LEMMA CheckCancelledMetrics ==
  ASSUME TypeOK, MetricsInv, NEW w \in Worker, CheckCancelled(w)
  PROVE  MetricsInv'
  <1>1. PICK q \in Queue : q = Serves[w]
    BY JobsAssumption
  <1>2. /\ pc[w] = "check" /\ UNCHANGED <<entries, depth, adding>>
        /\ \/ pc' = [pc EXCEPT ![w] = "pop"] /\ active' = active
           \/ /\ pc' = [pc EXCEPT ![w] = "start"]
              /\ active' = [active EXCEPT ![q] = WrapInc(active[q])]
    BY <1>1 DEF CheckCancelled, mainVars
  <1>3. \A v \in Worker : pc'[v] = pc[v] \/ (v = w /\ pc'[v] \in {"pop", "start"})
    BY <1>2 DEF TypeOK
  <1>4. Bounded' /\ DepthExact'
    BY <1>2, <1>3, DepthKept
  <1>5. CASE pc' = [pc EXCEPT ![w] = "pop"] /\ active' = active
    <2>1. \A v \in Worker : pc'[v] \in InRunner <=> pc[v] \in InRunner
      BY <1>2, <1>5 DEF TypeOK, InRunner
    <2> QED  BY <1>4, <1>5, <2>1, ActiveKept DEF MetricsInv
  <1>6. CASE /\ pc' = [pc EXCEPT ![w] = "start"]
             /\ active' = [active EXCEPT ![q] = WrapInc(active[q])]
    <2>1. /\ pc[w] \notin InRunner /\ pc'[w] \in InRunner
          /\ \A v \in Worker : v # w => pc'[v] = pc[v]
      BY <1>2, <1>6 DEF TypeOK, InRunner
    <2>2. \A p \in Queue :
            /\ p # q => Cardinality(At(p, InRunner))' = Cardinality(At(p, InRunner))
            /\ p = q => Cardinality(At(p, InRunner))' = Cardinality(At(p, InRunner)) + 1
      BY <1>1, <2>1, OneEnters
    <2>3. \A p \in Queue : active[p] = Cardinality(At(p, InRunner))
      BY ActiveByQueue DEF MetricsInv
    <2>4. \A p \in Queue : active'[p] = IF p = q THEN WrapInc(active[p]) ELSE active[p]
      BY <1>6 DEF TypeOK
    <2>5. WrapInc(active[q]) = active[q] + 1
      <3>1. Cardinality(At(q, InRunner))' <= Cardinality(Worker)
        <4>1. At(q, InRunner)' \in SUBSET Worker
          BY DEF At
        <4> QED  BY <4>1, JobsAssumption, FS_Subset
      <3>2. /\ Cardinality(Worker) < USIZE_MOD /\ Cardinality(Worker) \in Nat
            /\ USIZE_MOD \in Nat /\ active[q] \in Nat
        BY JobsAssumption, FS_CardinalityType, Room DEF MetricsInv
      <3>3. active[q] + 1 <= Cardinality(Worker)
        BY <2>2, <2>3, <3>1
      <3>4. active[q] + 1 # USIZE_MOD
        BY <3>2, <3>3
      <3> QED  BY <3>4 DEF WrapInc
    <2>6. \A p \in Queue : active'[p] = Cardinality(At(p, InRunner))'
      BY <2>2, <2>3, <2>4, <2>5
    <2>7. ActiveAccounts'
      BY <2>6 DEF ActiveAccounts, At, InRunner
    <2> QED  BY <1>4, <2>7 DEF MetricsInv
  <1> QED  BY <1>2, <1>5, <1>6

LEMMA DeactivateMetrics ==
  ASSUME TypeOK, MetricsInv, NEW w \in Worker, Deactivate(w)
  PROVE  MetricsInv'
  <1>1. PICK q \in Queue : q = Serves[w]
    BY JobsAssumption
  <1>2. /\ pc[w] = "deactivate" /\ UNCHANGED <<entries, depth, adding>>
        /\ pc' = [pc EXCEPT ![w] = "pop"]
        /\ active' = [active EXCEPT ![q] = WrapDec(active[q])]
    BY <1>1 DEF Deactivate, mainVars
  <1>3. \A v \in Worker : pc'[v] = IF v = w THEN "pop" ELSE pc[v]
    BY <1>2 DEF TypeOK
  <1>4. Bounded' /\ DepthExact'
    BY <1>2, <1>3, DepthKept
  <1>5. /\ pc[w] \in InRunner /\ pc'[w] \notin InRunner
        /\ \A v \in Worker : v # w => pc'[v] = pc[v]
    BY <1>2, <1>3 DEF InRunner
  <1>6. /\ \A p \in Queue \ {q} :
             Cardinality(At(p, InRunner))' = Cardinality(At(p, InRunner))
        /\ Cardinality(At(q, InRunner))' = Cardinality(At(q, InRunner)) - 1
        /\ Cardinality(At(q, InRunner)) >= 1
    BY <1>1, <1>5, OneLeaves
  <1>7. \A p \in Queue : active[p] = Cardinality(At(p, InRunner))
    BY ActiveByQueue DEF MetricsInv
  <1>8. \A p \in Queue : active'[p] = IF p = q THEN WrapDec(active[p]) ELSE active[p]
    BY <1>2 DEF TypeOK
  <1>9. WrapDec(active[q]) = active[q] - 1
    BY <1>6, <1>7 DEF WrapDec
  <1>10. \A p \in Queue : active'[p] = Cardinality(At(p, InRunner))'
    BY <1>6, <1>7, <1>8, <1>9
  <1>11. ActiveAccounts'
    BY <1>10 DEF ActiveAccounts, At, InRunner
  <1> QED  BY <1>4, <1>11 DEF MetricsInv

LEMMA MetricsStep == TypeOK /\ MetricsInv /\ [Next]_vars => MetricsInv'
  <1> SUFFICES ASSUME TypeOK, MetricsInv, [Next]_vars
               PROVE  MetricsInv'
    OBVIOUS
  <1>1. ASSUME NEW j \in Job, NEW q \in Queue, Submit(j, q)
        PROVE  MetricsInv'
    BY <1>1, SubmitMetrics
  <1>2. CASE CountDepth
    BY <1>2, CountDepthMetrics
  <1>3. CASE \/ \E j \in Job : SubmitInline(j) \/ Cancel(j)
             \/ PumpStep \/ DropHandle \/ UNCHANGED vars
    <2>1. UNCHANGED <<entries, depth, active, adding, pc>>
      BY <1>3 DEF SubmitInline, Cancel, PumpStep, BeginPump, RunCallback, EndCallback,
                  EndPump, DropHandle, workerVars, mainVars, vars
    <2> QED  BY <2>1, UncountedStep
  <1>4. CASE DropInner
    <2>1. UNCHANGED <<entries, depth, active, adding>>
      BY <1>4 DEF DropInner, mainVars
    <2>2. \A w \in Worker : pc'[w] = pc[w] \/ (pc[w] = "wait" /\ pc'[w] = "pop")
      BY <1>4 DEF DropInner
    <2> QED  BY <2>1, <2>2, UncountedStep DEF InRunner
  <1>5. ASSUME NEW w \in Worker, SpuriousWake(w)
        PROVE  MetricsInv'
    <2>1. UNCHANGED <<entries, depth, active, adding>>
      BY <1>5 DEF SpuriousWake, mainVars
    <2>2. \A v \in Worker : pc'[v] = pc[v] \/ (pc[v] = "wait" /\ pc'[v] = "pop")
      BY <1>5 DEF SpuriousWake, TypeOK
    <2> QED  BY <2>1, <2>2, UncountedStep DEF InRunner
  <1>6. ASSUME NEW w \in Worker, Start(w) \/ Execute(w) \/ Report(w)
        PROVE  MetricsInv'
    <2>1. UNCHANGED <<entries, depth, active, adding>>
      BY <1>6 DEF Start, Execute, Report, mainVars
    <2>2. \E b \in {"execute", "report", "deactivate"} : pc' = [pc EXCEPT ![w] = b]
      BY <1>6 DEF Start, Execute, AfterPanic, Report
    <2>3. pc[w] \in {"start", "execute", "report"}
      BY <1>6 DEF Start, Execute, Report
    <2>4. \A v \in Worker : \/ pc'[v] = pc[v]
                            \/ /\ pc[v] \in {"start", "execute", "report"}
                               /\ pc'[v] \in {"execute", "report", "deactivate"}
      BY <2>2, <2>3 DEF TypeOK
    <2> QED  BY <2>1, <2>4, UncountedStep DEF InRunner
  <1>7. ASSUME NEW w \in Worker, WorkerStep(w)
        PROVE  MetricsInv'
    BY <1>6, <1>7, PopMetrics, UncountDepthMetrics, CheckCancelledMetrics, DeactivateMetrics
       DEF WorkerStep
  <1> QED  BY <1>1, <1>2, <1>3, <1>4, <1>5, <1>7 DEF Next

LEMMA MetricsInit == Init => MetricsInv
  <1> SUFFICES ASSUME Init
               PROVE  MetricsInv
    OBVIOUS
  <1>1. \A q \in Queue : Len(entries[q]) = 0 /\ depth[q] = 0 /\ active[q] = 0
    BY DEF Init
  <1>2. ASSUME NEW q, NEW P \in {{"popped"}, InRunner}
        PROVE  Cardinality(At(q, P)) = 0
    <2>1. At(q, P) = {}
      BY <1>2 DEF Init, At, InRunner
    <2> QED  BY <2>1, FS_EmptySet
  <1>3. \A q \in Queue : Underway(q) = 0 /\ adding # q
    BY <1>1, <1>2, JobsAssumption DEF Underway, Uncounted, Init
  <1>4. Bounded /\ DepthExact
    BY <1>1, <1>3, JobsAssumption DEF Bounded, DepthExact
  <1>5. ActiveAccounts
    BY <1>1, <1>2, ActiveByQueue
  <1> QED  BY <1>4, <1>5 DEF MetricsInv

LEMMA DepthFollows == TypeOK /\ MetricsInv => DepthAccounts
  <1> SUFFICES ASSUME TypeOK, MetricsInv, NEW q \in Queue
               PROVE  WrapInc(depth[q]) =
                        (Len(entries[q]) + Uncounted(q) + (IF adding = q THEN 0 ELSE 1)) % USIZE_MOD
    BY DEF DepthAccounts, Uncounted, At
  <1>1. /\ Underway(q) = Len(entries[q]) + Uncounted(q)
        /\ Len(entries[q]) \in Nat /\ Uncounted(q) \in Nat
        /\ Underway(q) \in Nat /\ Underway(q) < USIZE_MOD /\ USIZE_MOD \in Nat
        /\ USIZE_MOD > 0
    BY Room, JobsAssumption DEF MetricsInv, Underway
  <1>2. \A n \in Nat : n < USIZE_MOD => n % USIZE_MOD = n
    BY <1>1
  <1>3. USIZE_MOD % USIZE_MOD = 0
    BY <1>1
  <1>4. CASE adding = q
    <2>1. WrapInc(depth[q]) = Underway(q)
      BY <1>4 DEF MetricsInv, DepthExact
    <2> QED  BY <1>1, <1>2, <1>4, <2>1
  <1>5. CASE adding # q
    <2>1. depth[q] = Underway(q)
      BY <1>5 DEF MetricsInv, DepthExact
    <2>2. WrapInc(Underway(q)) = (Underway(q) + 1) % USIZE_MOD
      <3>1. CASE Underway(q) + 1 = USIZE_MOD
        BY <1>3, <3>1 DEF WrapInc
      <3>2. CASE Underway(q) + 1 # USIZE_MOD
        <4>1. Underway(q) + 1 \in Nat /\ Underway(q) + 1 < USIZE_MOD
          BY <1>1, <3>2
        <4>2. (Underway(q) + 1) % USIZE_MOD = Underway(q) + 1
          BY <1>2, <4>1
        <4> QED  BY <3>2, <4>2 DEF WrapInc
      <3> QED  BY <3>1, <3>2
    <2> QED  BY <1>1, <1>5, <2>1, <2>2
  <1> QED  BY <1>4, <1>5

(* The depth and active counters that the metrics read stand for what the  *)
(* queues and the workers hold, whatever steps come between a push or a    *)
(* pop and its count (JobsInner::enqueue, pop, worker_loop).               *)
THEOREM MetricsTrue == Spec => []MetricsExact
  <1>1. Init => MetricsInv
    BY MetricsInit
  <1>2. TypeOK /\ MetricsInv /\ [Next]_vars => MetricsInv'
    BY MetricsStep
  <1>3. TypeOK /\ MetricsInv => MetricsExact
    BY DepthFollows DEF MetricsInv, MetricsExact
  <1> QED  BY <1>1, <1>2, <1>3, JobTypes, PTL DEF Spec

-----------------------------------------------------------------------------
(* The order of a queue.                                                   *)

LEMMA OwnPrefix ==
  ASSUME NEW S, NEW s \in Seq(S), NEW t \in Seq(S)
  PROVE  SubSeq(s \o t, 1, Len(s)) = s
  <1>1. CASE s = <<>>
    BY <1>1, SubSeqEmpty, EmptySeq
  <1>2. CASE s # <<>>
    <2>1. Len(s) \in Nat /\ Len(s) >= 1
      BY <1>2, LenProperties, EmptySeq
    <2>2. SubSeq(s \o t, 1, Len(s)) = SubSeq(s, 1, Len(s))
      BY <2>1, SubSeqOfConcat1
    <2> QED  BY <2>2, SubSeqFull
  <1> QED  BY <1>1, <1>2

LEMMA FrontThenRest ==
  ASSUME NEW S, NEW s \in Seq(S), s # <<>>
  PROVE  s = <<Head(s)>> \o Tail(s)
  <1>1. Len(s) \in Nat /\ Len(s) >= 1
    BY LenProperties, EmptySeq
  <1>2. s = SubSeq(s, 1, Len(s))
    BY SubSeqFull
  <1>3. SubSeq(s, 1, Len(s)) = <<s[1]>> \o SubSeq(s, 2, Len(s))
    BY <1>1, SubSeqRecursiveFirst
  <1>4. Tail(s) = SubSeq(s, 2, Len(s)) /\ Head(s) = s[1]
    BY TailIsSubSeq
  <1> QED  BY <1>2, <1>3, <1>4

\* One queue: what has left it, then what is still in it.
Order(q) == started[q] \o entries[q]

LEMMA OrderStep ==
  ASSUME TypeOK, [Next]_vars, NEW q \in Queue
  PROVE  Order(q)' = Order(q) \/ \E j \in Job : Order(q)' = Order(q) \o <<j>>
  <1>0. entries[q] \in Seq(Job) /\ started[q] \in Seq(Job)
    BY DEF TypeOK
  <1>1. ASSUME NEW j \in Job, NEW p \in Queue, Submit(j, p)
        PROVE  Order(q)' = Order(q) \/ Order(q)' = Order(q) \o <<j>>
    <2>1. /\ started' = started
          /\ entries' = [entries EXCEPT ![p] = Append(entries[p], j)]
      BY <1>1 DEF Submit
    <2>2. CASE p # q
      BY <2>1, <2>2 DEF TypeOK, Order
    <2>3. CASE p = q
      <3>1. PICK e \in Seq(Job) : e = entries[q]
        BY <1>0
      <3>2. PICK s \in Seq(Job) : s = started[q]
        BY <1>0
      <3>3. entries'[q] = Append(e, j) /\ started'[q] = s
        BY <2>1, <2>3, <3>1, <3>2 DEF TypeOK
      <3>4. Append(e, j) = e \o <<j>> /\ <<j>> \in Seq(Job)
        BY AppendIsConcat
      <3>5. (s \o e) \o <<j>> = s \o (e \o <<j>>)
        BY <3>4, ConcatAssociative
      <3> QED  BY <3>1, <3>2, <3>3, <3>4, <3>5 DEF Order
    <2> QED  BY <2>2, <2>3
  <1>2. ASSUME NEW w \in Worker, Pop(w)
        PROVE  Order(q)' = Order(q)
    <2>1. \/ UNCHANGED <<entries, started>>
          \/ /\ entries[Serves[w]] # <<>>
             /\ entries' = [entries EXCEPT ![Serves[w]] = Tail(entries[Serves[w]])]
             /\ started' = [started EXCEPT ![Serves[w]] =
                              Append(started[Serves[w]], Head(entries[Serves[w]]))]
      BY <1>2 DEF Pop, FrontOf, WithoutFront
    <2>2. CASE UNCHANGED <<entries, started>>
      BY <2>2 DEF Order
    <2>3. CASE /\ entries[Serves[w]] # <<>>
               /\ entries' = [entries EXCEPT ![Serves[w]] = Tail(entries[Serves[w]])]
               /\ started' = [started EXCEPT ![Serves[w]] =
                                Append(started[Serves[w]], Head(entries[Serves[w]]))]
      <3>1. CASE Serves[w] # q
        BY <2>3, <3>1 DEF TypeOK, Order
      <3>2. CASE Serves[w] = q
        <4>1. PICK e \in Seq(Job) : e = entries[q]
          BY <1>0
        <4>2. PICK s \in Seq(Job) : s = started[q]
          BY <1>0
        <4>3. e # <<>> /\ entries'[q] = Tail(e) /\ started'[q] = Append(s, Head(e))
          BY <2>3, <3>2, <4>1, <4>2 DEF TypeOK
        <4>4. Head(e) \in Job /\ Tail(e) \in Seq(Job) /\ e = <<Head(e)>> \o Tail(e)
          BY <4>3, HeadTailProperties, FrontThenRest
        <4>5. Append(s, Head(e)) = s \o <<Head(e)>> /\ <<Head(e)>> \in Seq(Job)
          BY <4>4, AppendIsConcat
        <4>6. (s \o <<Head(e)>>) \o Tail(e) = s \o (<<Head(e)>> \o Tail(e))
          BY <4>4, <4>5, ConcatAssociative
        <4> QED  BY <4>1, <4>2, <4>3, <4>4, <4>5, <4>6 DEF Order
      <3> QED  BY <3>1, <3>2
    <2> QED  BY <2>1, <2>2, <2>3
  <1>3. CASE \/ CountDepth \/ \E j \in Job : SubmitInline(j) \/ Cancel(j)
             \/ PumpStep \/ DropHandle \/ DropInner \/ UNCHANGED vars
    <2>1. UNCHANGED <<entries, started>>
      BY <1>3 DEF CountDepth, SubmitInline, Cancel, PumpStep, BeginPump, RunCallback,
                  EndCallback, EndPump, DropHandle, DropInner, vars
    <2> QED  BY <2>1 DEF Order
  <1>4. ASSUME NEW w \in Worker, WorkerStep(w) \/ SpuriousWake(w), ~Pop(w)
        PROVE  Order(q)' = Order(q)
    <2>1. UNCHANGED <<entries, started>>
      BY <1>4 DEF WorkerStep, UncountDepth, CheckCancelled, Start, Execute, Report,
                  Deactivate, SpuriousWake
    <2> QED  BY <2>1 DEF Order
  <1> QED  BY <1>1, <1>2, <1>3, <1>4 DEF Next

(* Jobs leave a queue in the order in which submit pushed them, whatever   *)
(* workers take them (JobQueueState::push and pop).                        *)
THEOREM QueuesInOrder == Spec => FirstInFirstOut
  <1>1. TypeOK /\ [Next]_vars =>
          [\A q \in Queue :
             LET before == started[q] \o entries[q]
                 after == started'[q] \o entries'[q]
             IN SubSeq(after, 1, Len(before)) = before]_vars
    <2> SUFFICES ASSUME TypeOK, [Next]_vars, NEW q \in Queue
                 PROVE  SubSeq(Order(q)', 1, Len(Order(q))) = Order(q)
      BY DEF Order
    <2>1. Order(q) \in Seq(Job)
      BY ConcatProperties DEF TypeOK, Order
    <2>2. CASE Order(q)' = Order(q)
      BY <2>1, <2>2, SubSeqFull
    <2>3. ASSUME NEW j \in Job, Order(q)' = Order(q) \o <<j>>
          PROVE  SubSeq(Order(q)', 1, Len(Order(q))) = Order(q)
      <3>1. <<j>> \in Seq(Job)
        OBVIOUS
      <3>2. SubSeq(Order(q) \o <<j>>, 1, Len(Order(q))) = Order(q)
        BY <2>1, <3>1, OwnPrefix
      <3> QED  BY <2>3, <3>2
    <2> QED  BY <2>2, <2>3, OrderStep
  <1> QED  BY <1>1, JobTypes, PTL DEF Spec, FirstInFirstOut
=============================================================================
