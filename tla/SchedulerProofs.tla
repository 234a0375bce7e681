--------------------------- MODULE SchedulerProofs ---------------------------
(***************************************************************************)
(* Theorems about Scheduler for every set of KPZ and every value of the    *)
(* limits.                                                                 *)
(***************************************************************************)
EXTENDS Scheduler, FiniteSetTheorems, TLAPS

\* Division of the ticks passed by a period of at least one second.
LEMMA DivNat ==
  ASSUME NEW a \in Nat, NEW b \in Nat \ {0}
  PROVE  a \div b \in Nat
  OBVIOUS

\* Minimum, maximum and the normalised periods are numbers.
LEMMA Bounds ==
  /\ \A a, b \in Int : /\ MinOf(a, b) \in {a, b} /\ MinOf(a, b) <= a /\ MinOf(a, b) <= b
                       /\ MaxOf(a, b) \in {a, b} /\ MaxOf(a, b) >= a /\ MaxOf(a, b) >= b
  /\ \A n \in Int : Effective(n) \in Nat \ {0}
  /\ \A n \in Int : Clamp(n) \in Nat
  /\ EffectivePool \in Nat \ {0}
  BY SchedulerAssumption DEF MinOf, MaxOf, Effective, Clamp, EffectivePool

\* The first run of a task is an instant.
LEMMA FirstRunType ==
  ASSUME NEW period \in [Kinds -> Int], NEW k \in Kpz, NEW t \in Nat
  PROVE  /\ FirstRun(period, k, t) \in [Kinds -> Nat]
         /\ Clamped(period) \in [Kinds -> Int]
<1>1. ASSUME NEW kind \in Kinds PROVE t + PhaseOffset(period[kind], k, kind) \in Nat
  <2>1. Effective(period[kind]) \in Nat \ {0} /\ Phase[k][kind] \in Nat
    BY Bounds, SchedulerAssumption
  <2>2. Phase[k][kind] % Effective(period[kind]) \in Nat
    BY <2>1
  <2> QED BY <2>2 DEF PhaseOffset
<1>2. \A kind \in Kinds : Clamp(period[kind]) \in Int
  BY Bounds
<1> QED BY <1>1, <1>2 DEF FirstRun, Clamped

\* One half of the dispatch of a task keeps the types of what it mutates.
DispatchType(s) ==
  s \in [task : Task, queue : SUBSET Job, nextSeq : Nat, dropped : Nat]

LEMMA DispatchKindType ==
  ASSUME NEW s, DispatchType(s), NEW k \in Kpz, NEW kind \in Kinds, stamp \in Nat
  PROVE  DispatchType(DispatchKind(s, k, kind))
<1> DEFINE d == DueTicks(s.task, kind)
<1>1. CASE s.task.busy[kind] \/ stamp < s.task.next[kind]
  BY <1>1 DEF DispatchKind
<1>2. CASE ~(s.task.busy[kind] \/ stamp < s.task.next[kind])
  <2>1. /\ s.task.next[kind] \in Nat /\ stamp >= s.task.next[kind]
        /\ Effective(s.task.period[kind]) \in Nat \ {0}
    BY <1>2, Bounds DEF DispatchType, Task
  <2>2. d \in Nat \ {0}
    <3>1. (stamp - s.task.next[kind]) \in Nat  BY <2>1
    <3> QED BY <3>1, <2>1, DivNat DEF DueTicks
  <2>3. NextAfter(s.task, kind) \in Nat
    <3>1. Effective(s.task.period[kind]) * d \in Nat  BY <2>1, <2>2
    <3> QED BY <3>1, <2>1 DEF NextAfter
  <2>4. [s.task EXCEPT !.next[kind] = NextAfter(s.task, kind), !.busy[kind] = TRUE] \in Task
    BY <2>3 DEF DispatchType, Task
  <2>5. [s.task EXCEPT !.next[kind] = NextAfter(s.task, kind)] \in Task
    BY <2>3 DEF DispatchType, Task
  <2>6. Push(s.queue, s.nextSeq, k, kind) \in SUBSET Job
    BY DEF Push, Job, DispatchType
  <2>7. CASE HasRoom(s.queue)
    <3> DEFINE t1 == [s.task EXCEPT !.next[kind] = NextAfter(s.task, kind), !.busy[kind] = TRUE]
               n1 == s.dropped + LostTicks(s.task, kind, TRUE)
    <3>1. DispatchKind(s, k, kind) = [task |-> t1, queue |-> Push(s.queue, s.nextSeq, k, kind),
                                      nextSeq |-> s.nextSeq + 1, dropped |-> n1]
      BY <1>2, <2>7 DEF DispatchKind
    <3>2. t1 \in Task  BY <2>4
    <3>3. n1 \in Nat  BY <2>2 DEF DispatchType, LostTicks
    <3> HIDE DEF t1, n1
    <3> QED BY <2>6, <3>1, <3>2, <3>3 DEF DispatchType
  <2>8. CASE ~(HasRoom(s.queue))
    <3> DEFINE t2 == [s.task EXCEPT !.next[kind] = NextAfter(s.task, kind)]
    <3>1. DispatchKind(s, k, kind) = [s EXCEPT !.task = t2, !.dropped = @ + d]
      BY <1>2, <2>8 DEF DispatchKind, LostTicks
    <3>2. t2 \in Task  BY <2>5
    <3> HIDE DEF t2
    <3>3. s.dropped + d \in Nat  BY <2>2 DEF DispatchType
    <3> HIDE DEF d
    <3> QED BY <3>1, <3>2, <3>3 DEF DispatchType
  <2> QED BY <2>7, <2>8
<1> QED BY <1>1, <1>2

\* What a synchronised row makes of a task is a task.
LEMMA SyncedType ==
  ASSUME TypeOK, NEW k \in Kpz, NEW r \in Row
  PROVE  /\ Synced(k, r) \in Task
         /\ Restarted(Synced(k, r), k) \in Task
         /\ Stopped(Synced(k, r)) \in Task
<1>1. /\ r.start \in {0, 1} /\ r.group \in Groups \cup {NoGroup} /\ r.period \in [Kinds -> Int]
  BY SchedulerAssumption DEF Row
<1>2. /\ Clamped(r.period) \in [Kinds -> Int]
      /\ FirstRun(Clamped(r.period), k, stamp) \in [Kinds -> Nat]
  BY <1>1, FirstRunType DEF TypeOK
<1>3. Idle \in [Kinds -> BOOLEAN]  BY DEF Idle
<1>4. task[k] \in Task  BY DEF TypeOK
<1>5. Synced(k, r) \in Task
  <2>1. CASE k \notin known
    BY <1>1, <1>2, <1>3, <2>1 DEF Synced, Task
  <2>2. CASE k \in known
    <3> DEFINE g == IF \/ task[k].start # r.start
                       \/ task[k].group # r.group
                       \/ task[k].period # Clamped(r.period)
                      THEN task[k].generation + 1 ELSE task[k].generation
               p == Clamped(r.period)
    <3>1. g \in Nat  BY <1>4 DEF Task
    <3>2. p \in [Kinds -> Int]  BY <1>2
    <3>3. Synced(k, r) = [task[k] EXCEPT !.start = r.start, !.group = r.group,
                                         !.period = p, !.generation = g]
      BY <2>2 DEF Synced
    <3> HIDE DEF g, p
    <3> QED BY <3>1, <3>2, <3>3, <1>1, <1>4 DEF Task
  <2> QED BY <2>1, <2>2
<1>6. ASSUME NEW t \in Task
      PROVE  Restarted(t, k) \in Task /\ Stopped(t) \in Task
  <2>0. t.period \in [Kinds -> Int] /\ stamp \in Nat  BY DEF Task, TypeOK
  <2>1. FirstRun(t.period, k, stamp) \in [Kinds -> Nat]  BY <2>0, FirstRunType
  <2> DEFINE f == FirstRun(t.period, k, stamp)
             g == t.generation + 1
  <2>2. /\ Restarted(t, k) = [t EXCEPT !.generation = g, !.busy = Idle, !.next = f]
        /\ Stopped(t) = [t EXCEPT !.generation = g, !.busy = Idle]
    BY DEF Restarted, Stopped
  <2>3. f \in [Kinds -> Nat] /\ g \in Nat  BY <2>1 DEF Task
  <2> HIDE DEF f, g
  <2>4. [t EXCEPT !.generation = g, !.busy = Idle, !.next = f] \in Task
    BY <2>3, <1>3 DEF Task
  <2>5. [t EXCEPT !.generation = g, !.busy = Idle] \in Task
    BY <2>3, <1>3 DEF Task
  <2> QED BY <2>2, <2>4, <2>5
<1> QED BY <1>5, <1>6

\* A worker's snapshot, and what run_job makes of it, keep their types.
LEMMA RanType ==
  ASSUME now \in Nat, NEW w \in Worker, NEW outcome \in Outcomes
  PROVE  Ran(w, outcome) \in Worker
<1>0. w.streak \in 0 .. StreakMax /\ w.cfg \in Cfg /\ w.next \in [Kinds -> Nat] /\ StreakMax \in Nat \ {0}
  BY SchedulerAssumption DEF Worker
<1>1. NoResponse(w) \in Worker
  <2> DEFINE n     == MinOf(w.streak + 1, StreakMax)
             until == now + w.cfg.backoff
  <2>1. n \in 0 .. StreakMax /\ until \in Nat
    BY <1>0 DEF MinOf, Cfg
  <2>2. \A kind \in Kinds : MaxOf(w.next[kind], until) \in Nat
    BY <1>0, <2>1 DEF MaxOf
  <2>3. [kind \in Kinds |-> MaxOf(w.next[kind], until)] \in [Kinds -> Nat]
    BY <2>2
  <2> HIDE DEF n, until
  <2> DEFINE later == IF n < w.cfg.failures THEN w.next
                      ELSE [kind \in Kinds |-> MaxOf(w.next[kind], until)]
  <2>4. later \in [Kinds -> Nat]  BY <2>3, <1>0
  <2>5. NoResponse(w) = [w EXCEPT !.streak = n, !.next = later]
    BY DEF NoResponse, StreakUp, PushedBack, n, until
  <2> HIDE DEF later
  <2> QED BY <2>1, <2>4, <2>5 DEF Worker
<1> DEFINE v == CASE outcome \in {"exchanged", "skipped"} -> [w EXCEPT !.streak = 0]
                  [] outcome = "timeout"                  -> NoResponse(w)
                  [] OTHER                                -> w
<1>2. v \in Worker
  <2>1. [w EXCEPT !.streak = 0] \in Worker  BY <1>0 DEF Worker
  <2> QED BY <1>1, <2>1 DEF Outcomes
<1>3. v.kind = w.kind /\ w.kind \in Kinds
  BY DEF NoResponse, Outcomes, Worker
<1> DEFINE b == [w.busy EXCEPT ![w.kind] = FALSE]
<1>4. Ran(w, outcome) = [v EXCEPT !.status = outcome, !.busy = b]
  BY DEF Ran, Released
<1> HIDE DEF v
<1>5. b \in [Kinds -> BOOLEAN]  BY <1>3 DEF Worker
<1> HIDE DEF b
<1> QED BY <1>2, <1>4, <1>5 DEF Worker

-----------------------------------------------------------------------------
\* The types hold initially.
LEMMA TypeInit == Init => TypeOK /\ ControlOK
<1> SUFFICES ASSUME Init PROVE TypeOK /\ ControlOK  OBVIOUS
<1>1. NoTask \in Task  BY DEF NoTask, Task, Idle
<1>2. cfg \in Cfg  BY SchedulerAssumption DEF Init
<1>3. \A k \in Kpz : 0 \in 0 .. StreakMax  BY SchedulerAssumption
<1>4. fingerprint \in [kpz : Int, protocol : Int] /\ reading \in [kpz : Int, protocol : Int]
  BY DEF Init
<1>5. ControlOK  BY DEF Init, ControlOK
<1>6. TypeOK
  <2>1. task \in [Kpz -> Task] /\ streak \in [Kpz -> 0 .. StreakMax] /\ quietUntil \in [Kpz -> Nat]
    BY <1>1, <1>3 DEF Init
  <2>2. queue \subseteq Job /\ workers \subseteq Worker /\ todo \subseteq Kpz /\ known \subseteq Kpz
    BY DEF Init
  <2>3. loaded \in [Kpz -> Row \cup {NoRow}] /\ rows \in [Kpz -> Row \cup {NoRow}]
    BY DEF Init
  <2>4. /\ pc = "tick" /\ now \in Nat /\ shutdown \in BOOLEAN /\ rev \in Nat /\ protoRev \in Nat
        /\ stamp \in Nat /\ nextRuntime \in Nat /\ nextTopology \in Nat /\ protocolGeneration \in Nat
        /\ nextSeq \in Nat /\ dropped \in Nat /\ joined = NoWorker
    BY DEF Init
  <2> QED BY <1>2, <1>4, <2>1, <2>2, <2>3, <2>4 DEF TypeOK
<1> QED BY <1>5, <1>6

\* Every step keeps the types: one case per action of Next.
LEMMA TypeNext == TypeOK /\ ControlOK /\ [Next]_vars => TypeOK' /\ ControlOK'
<1> SUFFICES ASSUME TypeOK, ControlOK, [Next]_vars PROVE TypeOK' /\ ControlOK'  OBVIOUS
<1> USE DEF TypeOK, ControlOK, dbVars, syncVars, taskVars, queueVars, poolVars
<1>1. CASE Elapse  BY <1>1 DEF Elapse
<1>2. CASE CtrlC  BY <1>2 DEF CtrlC
<1>3. ASSUME NEW k \in Kpz, NEW r \in Row \cup {NoRow}, EditKpz(k, r) PROVE TypeOK' /\ ControlOK'
  BY <1>3 DEF EditKpz
<1>4. CASE EditProtocol  BY <1>4 DEF EditProtocol
<1>5. CASE WaitTick  BY <1>5 DEF WaitTick
<1>6. CASE LeaveLoop  BY <1>6 DEF LeaveLoop
<1>7. ASSUME NEW ok \in BOOLEAN, Finish(ok) PROVE TypeOK' /\ ControlOK'  BY <1>7 DEF Finish
<1>8. ASSUME NEW c \in Cfgs \cup {cfg}, SyncRuntime(c) PROVE TypeOK' /\ ControlOK'
  <2>1. c \in Cfg /\ stamp + SyncPeriod \in Nat  BY SchedulerAssumption
  <2> QED BY <2>1, <1>8 DEF SyncRuntime
<1>9. CASE SyncFingerprint
  <2>1. /\ [kpz |-> rev, protocol |-> protoRev] \in [kpz : Int, protocol : Int]
        /\ stamp + TopologyPeriod \in Nat
    BY SchedulerAssumption
  <2> QED BY <2>1, <1>9 DEF SyncFingerprint, GoDispatch
<1>10. CASE SyncLoad  BY <1>10 DEF SyncLoad
<1>11. ASSUME NEW k \in Kpz, SyncRow(k) PROVE TypeOK' /\ ControlOK'
  <2>1. 0 \in 0 .. StreakMax  BY SchedulerAssumption
  <2>2. CASE loaded[k].group = NoGroup  BY <1>11, <2>2 DEF SyncRow
  <2>3. CASE loaded[k].group # NoGroup
    <3> DEFINE r == loaded[k]
               t == IF NeedOnStart(k, r) THEN Restarted(Synced(k, r), k)
                    ELSE IF NeedOnStop(k, r) THEN Stopped(Synced(k, r))
                    ELSE Synced(k, r)
    <3>1. r \in Row  BY <1>11 DEF SyncRow
    <3>2. t \in Task  BY <3>1, SyncedType
    <3> HIDE DEF t
    <3>3. /\ pc' = pc /\ todo' = todo \ {k} /\ known' = known \cup {k}
          /\ task' = [task EXCEPT ![k] = t]
          /\ queue' \subseteq queue
          /\ streak' = streak \/ streak' = [streak EXCEPT ![k] = 0]
          /\ quietUntil' = quietUntil \/ quietUntil' = [quietUntil EXCEPT ![k] = 0]
      BY <1>11, <2>3 DEF SyncRow, t
    <3>4. task' \in [Kpz -> Task] /\ streak' \in [Kpz -> 0 .. StreakMax] /\ quietUntil' \in [Kpz -> Nat]
      BY <2>1, <3>2, <3>3
    <3> QED BY <1>11, <3>3, <3>4 DEF SyncRow
  <2> QED BY <2>2, <2>3
<1>12. CASE SyncDone
  <2>1. NoTask \in Task /\ 0 \in 0 .. StreakMax  BY SchedulerAssumption DEF NoTask, Task, Idle
  <2> QED BY <2>1, <1>12 DEF SyncDone, GoDispatch, SyncedFingerprint
<1>13. CASE SyncFail  BY <1>13 DEF SyncFail
<1>14. ASSUME NEW k \in Kpz, DispatchTask(k) PROVE TypeOK' /\ ControlOK'
  <2> DEFINE s0 == [task |-> task[k], queue |-> queue, nextSeq |-> nextSeq, dropped |-> dropped]
             s1 == DispatchKind(s0, k, "A")
             s2 == DispatchKind(s1, k, "S")
  <2>1. DispatchType(s0)  BY DEF DispatchType
  <2> HIDE DEF s0
  <2>2. DispatchType(s1)  BY <2>1, DispatchKindType DEF Kinds
  <2> HIDE DEF s1
  <2>3. DispatchType(s2)  BY <2>2, DispatchKindType DEF Kinds
  <2> HIDE DEF s2
  <2>4. MinOf(s2.dropped, DropCap) \in Nat  BY <2>3, SchedulerAssumption DEF DispatchType, MinOf
  <2>5. CASE task[k].start # 1  BY <1>14, <2>5 DEF DispatchTask
  <2>6. CASE task[k].start = 1
    <3>1. /\ task' = [task EXCEPT ![k] = s2.task] /\ queue' = s2.queue
          /\ nextSeq' = s2.nextSeq /\ dropped' = MinOf(s2.dropped, DropCap)
      BY <1>14, <2>6 DEF DispatchTask, s0, s1, s2
    <3> QED BY <1>14, <3>1, <2>3, <2>4 DEF DispatchTask, DispatchType
  <2> QED BY <2>5, <2>6
<1>15. ASSUME NEW k \in Kpz, DispatchFull(k) PROVE TypeOK' /\ ControlOK'
  <2>1. MinOf(dropped + 1, DropCap) \in Nat  BY SchedulerAssumption DEF MinOf
  <2> QED BY <2>1, <1>15 DEF DispatchFull
<1>16. CASE DispatchDone  BY <1>16 DEF DispatchDone
<1>17. ASSUME NEW j \in queue, Spawn(j) PROVE TypeOK' /\ ControlOK'
  <2>1. Snapshot(j) \in Worker  BY DEF Snapshot, Worker, Job, Task
  <2> QED BY <2>1, <1>17 DEF Spawn
<1>18. CASE SpawnDone  BY <1>18 DEF SpawnDone
<1>19. ASSUME NEW w \in workers, Join(w) PROVE TypeOK' /\ ControlOK'
  <2>1. w # NoWorker  BY SchedulerAssumption
  <2> QED BY <2>1, <1>19 DEF Join
<1>20. CASE PersistFail  BY <1>20 DEF PersistFail
<1>21. CASE Merge
  <2>1. CASE MergeMatches(joined)
    <3>1. joined \in Worker  BY <1>21 DEF Merge
    <3> DEFINE t == [task[joined.kpz] EXCEPT !.next = joined.next, !.busy = joined.busy]
    <3>2. t \in Task
      <4>1. task[joined.kpz] \in Task  BY <3>1 DEF Worker
      <4>2. joined.next \in [Kinds -> Nat] /\ joined.busy \in [Kinds -> BOOLEAN]  BY <3>1 DEF Worker
      <4> QED BY <4>1, <4>2 DEF Task
    <3>3. /\ task' = [task EXCEPT ![joined.kpz] = t]
          /\ streak' = [streak EXCEPT ![joined.kpz] = joined.streak]
      BY <1>21, <2>1 DEF Merge
    <3> HIDE DEF t
    <3>4. task' \in [Kpz -> Task] /\ streak' \in [Kpz -> 0 .. StreakMax]
      BY <3>1, <3>2, <3>3 DEF Worker
    <3> QED BY <1>21, <3>4 DEF Merge, AfterMerge
  <2>2. CASE ~MergeMatches(joined)  BY <1>21, <2>2 DEF Merge, AfterMerge
  <2> QED BY <2>1, <2>2
<1>22. CASE DrainDone  BY <1>22 DEF DrainDone
<1>23. ASSUME NEW w \in workers, NEW outcome \in Outcomes, WorkerEnds(w, outcome) PROVE TypeOK' /\ ControlOK'
  <2>1. w \in Worker /\ now \in Nat  OBVIOUS
  <2>2. Ran(w, outcome) \in Worker  BY <2>1, RanType
  <2>3. w.kpz \in Kpz /\ now + w.cfg.backoff \in Nat  BY <2>1 DEF Worker, Cfg
  <2> QED BY <2>2, <2>3, <1>23 DEF WorkerEnds
<1>24. CASE Ended  BY <1>24 DEF Ended, vars
<1>25. CASE UNCHANGED vars  BY <1>25 DEF vars
<1> QED
  BY <1>1, <1>2, <1>3, <1>4, <1>5, <1>6, <1>7, <1>8, <1>9, <1>10, <1>11, <1>12, <1>13, <1>14,
     <1>15, <1>16, <1>17, <1>18, <1>19, <1>20, <1>21, <1>22, <1>23, <1>24, <1>25
     DEF Next, Loop, WorkerStep
\* Every variable keeps its type, and the variables of the loop fit the place
\* the loop is at (scheduler.rs 190-257, queue.rs 9-38).
THEOREM TypeCorrect == Spec => []TypeOK
<1>1. Spec => [](TypeOK /\ ControlOK)
  BY TypeInit, TypeNext, PTL DEF Spec
<1> QED BY <1>1, PTL

-----------------------------------------------------------------------------
core == <<known, task, streak, protocolGeneration, queue, workers, joined>>

\* A step that leaves tasks, queue and pool alone keeps the invariant if the
\* place it leads to asks nothing new of them.
LEMMA Frame ==
  ASSUME IInv, TypeOK', ControlOK', UNCHANGED core,
         pc = "failed" => pc' = "failed",
         DrainIsBarrier', PhaseOK'
  PROVE  IInv'
<1> USE DEF core
<1>1. BusyIffPending'
  BY DEF IInv, BusyIffPending, Queued, Owned, InFlight, Persisting
<1>2. OneOwner'
  BY DEF IInv, OneOwner, Queued, Owned, InFlight, Persisting
<1>3. SnapshotCurrent'
  BY DEF IInv, SnapshotCurrent, MergeMatches, InFlight, Persisting
<1> QED BY <1>1, <1>2, <1>3 DEF IInv

\* With no job pending no flag is up.
LEMMA NothingBusy ==
  ASSUME IInv, queue = {}, InFlight = {}, pc # "failed", NEW k \in known
  PROVE  task[k].busy = Idle
<1>1. task[k].busy \in [Kinds -> BOOLEAN]  BY DEF IInv, TypeOK, Task
<1>2. \A kind \in Kinds : ~task[k].busy[kind]
  BY DEF IInv, BusyIffPending, Queued, Owned
<1>3. \A kind \in Kinds : task[k].busy[kind] = FALSE  BY <1>1, <1>2
<1> QED BY <1>1, <1>3 DEF Idle

\* With no job pending and all flags down the invariant asks only for types.
Quiet ==
  /\ TypeOK /\ ControlOK
  /\ queue = {} /\ InFlight = {}
  /\ \A k \in known : task[k].busy = Idle

LEMMA QuietState == Quiet => IInv
<1> SUFFICES ASSUME Quiet PROVE IInv  OBVIOUS
<1>1. PhaseOK
  <2>1. joined = NoWorker /\ workers = {}  BY DEF Quiet, InFlight, Persisting
  <2> QED BY <2>1 DEF Quiet, PhaseOK
<1>2. DrainIsBarrier  BY DEF Quiet, DrainIsBarrier
<1>3. BusyIffPending  BY DEF Quiet, BusyIffPending, Queued, Owned, Idle
<1>4. OneOwner  BY DEF Quiet, OneOwner, Queued, Owned
<1>5. SnapshotCurrent  BY DEF Quiet, SnapshotCurrent
<1> QED BY <1>1, <1>2, <1>3, <1>4, <1>5 DEF Quiet, IInv

LEMMA QuietNext == Quiet' => IInv'
BY QuietState, PTL

\* What the dispatch of the task k may do to the queue and to the flags of k.
DispatchInv(s, k) ==
  /\ queue \subseteq s.queue
  /\ \A j \in s.queue : j \in queue \/ j.kpz = k
  /\ \A i, j \in s.queue : i.kpz = j.kpz /\ i.kind = j.kind => i = j
  /\ \A kind \in Kinds : s.task.busy[kind] <=> \E j \in s.queue : j.kpz = k /\ j.kind = kind

LEMMA DispatchKindInv ==
  ASSUME NEW s, NEW k \in Kpz, NEW kind \in Kinds, DispatchType(s), DispatchInv(s, k)
  PROVE  DispatchInv(DispatchKind(s, k, kind), k)
<1> DEFINE new == [seq |-> s.nextSeq, kpz |-> k, kind |-> kind]
           r   == DispatchKind(s, k, kind)
<1>0. s.task \in Task /\ s.task.busy \in [Kinds -> BOOLEAN]  BY DEF DispatchType, Task
<1>1. CASE s.task.busy[kind] \/ stamp < s.task.next[kind]
  BY <1>1 DEF DispatchKind
<1>2. CASE /\ ~(s.task.busy[kind] \/ stamp < s.task.next[kind])
           /\ HasRoom(s.queue)
  <2>1. /\ r.queue = s.queue \cup {new}
        /\ r.task.busy = [s.task.busy EXCEPT ![kind] = TRUE]
    BY <1>0, <1>2 DEF DispatchKind, Push, Task
  <2>2. new.kpz = k /\ new.kind = kind  OBVIOUS
  <2> HIDE DEF new, r
  <2>3. ~\E j \in s.queue : j.kpz = k /\ j.kind = kind
    BY <1>2 DEF DispatchInv
  <2>4. \A i, j \in r.queue : i.kpz = j.kpz /\ i.kind = j.kind => i = j
    BY <2>1, <2>2, <2>3 DEF DispatchInv
  <2>5. ASSUME NEW a \in Kinds
        PROVE r.task.busy[a] <=> \E j \in r.queue : j.kpz = k /\ j.kind = a
    BY <1>0, <2>1, <2>2 DEF DispatchInv
  <2>6. DispatchInv(r, k)
    BY <2>1, <2>2, <2>4, <2>5 DEF DispatchInv
  <2> QED BY <2>6 DEF r
<1>3. CASE /\ ~(s.task.busy[kind] \/ stamp < s.task.next[kind])
           /\ ~(HasRoom(s.queue))
  <2>1. r.queue = s.queue /\ r.task.busy = s.task.busy
    BY <1>0, <1>3 DEF DispatchKind, DispatchType, Task
  <2> HIDE DEF r
  <2>2. DispatchInv(r, k)  BY <2>1 DEF DispatchInv
  <2> QED BY <2>2 DEF r
<1> QED BY <1>1, <1>2, <1>3

\* run_job only takes down the flag of its own kind and never brings a run forward.
LEMMA RanFields ==
  ASSUME now \in Nat, NEW w \in Worker, NEW outcome \in Outcomes
  PROVE  LET r == Ran(w, outcome) IN
         /\ r.kpz = w.kpz /\ r.kind = w.kind /\ r.status = outcome
         /\ r.generation = w.generation /\ r.protocol = w.protocol
         /\ \A kind \in Kinds : r.busy[kind] <=> w.busy[kind] /\ kind # w.kind
         /\ \A kind \in Kinds : w.next[kind] <= r.next[kind]
<1> DEFINE v == CASE outcome \in {"exchanged", "skipped"} -> [w EXCEPT !.streak = 0]
                  [] outcome = "timeout"                  -> NoResponse(w)
                  [] OTHER                                -> w
           r == Ran(w, outcome)
<1>1. /\ v.kpz = w.kpz /\ v.kind = w.kind /\ v.generation = w.generation
      /\ v.protocol = w.protocol /\ v.busy = w.busy
      /\ v.next = w.next \/ v.next = NoResponse(w).next
      /\ DOMAIN v = DOMAIN w
  BY DEF NoResponse, Outcomes, Worker
<1>2. r = [v EXCEPT !.status = outcome, !.busy = [w.busy EXCEPT ![w.kind] = FALSE]]
  BY DEF Ran, Released
<1>3. \A kind \in Kinds : w.next[kind] <= NoResponse(w).next[kind]
  <2> DEFINE until == now + w.cfg.backoff
  <2>1. w.next \in [Kinds -> Nat] /\ until \in Nat  BY DEF Worker, Cfg
  <2>2. \A kind \in Kinds : w.next[kind] <= MaxOf(w.next[kind], until)  BY <2>1 DEF MaxOf
  <2>3. \/ NoResponse(w).next = w.next
        \/ NoResponse(w).next = [kind \in Kinds |-> MaxOf(w.next[kind], until)]
    BY DEF NoResponse, PushedBack, Worker
  <2> HIDE DEF until
  <2> QED BY <2>1, <2>2, <2>3
<1>4. w.next \in [Kinds -> Nat] /\ w.busy \in [Kinds -> BOOLEAN] /\ w.kind \in Kinds
      /\ DOMAIN w = {"kpz", "kind", "generation", "protocol", "next", "busy", "streak", "cfg", "status"}
  BY DEF Worker
<1> HIDE DEF v
<1>5. /\ r.kpz = w.kpz /\ r.kind = w.kind /\ r.status = outcome
      /\ r.generation = w.generation /\ r.protocol = w.protocol
      /\ r.busy = [w.busy EXCEPT ![w.kind] = FALSE] /\ r.next = v.next
  BY <1>1, <1>2, <1>4
<1> HIDE DEF r
<1>6. \A kind \in Kinds : w.next[kind] <= r.next[kind]
  BY <1>1, <1>3, <1>4, <1>5
<1>7. \A kind \in Kinds : r.busy[kind] <=> w.busy[kind] /\ kind # w.kind
  BY <1>4, <1>5
<1> QED BY <1>5, <1>6, <1>7 DEF r

\* The invariant holds initially.
LEMMA SafeInit == Init => IInv
<1> SUFFICES ASSUME Init PROVE IInv  OBVIOUS
<1>1. TypeOK /\ ControlOK  BY TypeInit
<1>2. queue = {} /\ InFlight = {} /\ known = {}  BY DEF Init, InFlight, Persisting
<1> QED BY <1>1, <1>2, QuietState DEF Quiet

\* A dispatched task: its flags and its new jobs agree.
LEMMA SafeDispatchTask ==
  ASSUME IInv, TypeOK', ControlOK', NEW k \in Kpz, DispatchTask(k)
  PROVE  IInv'
<1> DEFINE s0 == [task |-> task[k], queue |-> queue, nextSeq |-> nextSeq, dropped |-> dropped]
           s1 == DispatchKind(s0, k, "A")
           s2 == DispatchKind(s1, k, "S")
<1>0. /\ pc = "dispatch" /\ pc' = "dispatch" /\ k \in known /\ stamp \in Nat
      /\ InFlight = {} /\ workers' = workers /\ joined' = joined /\ known' = known
      /\ workers = {} /\ joined = NoWorker
  BY DEF DispatchTask, IInv, PhaseOK, TypeOK, ControlOK, poolVars, InFlight, Persisting
<1>1. CASE task[k].start # 1
  <2>1. UNCHANGED core
    BY <1>0, <1>1 DEF DispatchTask, core, queueVars
  <2>2. PhaseOK' /\ DrainIsBarrier'
    BY <1>0, <2>1 DEF PhaseOK, DrainIsBarrier, InFlight, Persisting, IInv, core
  <2> QED BY <1>0, <2>1, <2>2, Frame
<1>2. CASE task[k].start = 1
  <2>1. /\ task' = [task EXCEPT ![k] = s2.task] /\ queue' = s2.queue
    BY <1>2 DEF DispatchTask
  <2>2. DispatchType(s0)  BY DEF DispatchType, IInv, TypeOK
  <2>3. DispatchInv(s0, k)
    <3>1. \A kind \in Kinds : task[k].busy[kind] <=> Queued(k, kind)
      BY <1>0 DEF IInv, BusyIffPending, Owned
    <3> QED BY <3>1 DEF DispatchInv, Queued, IInv, OneOwner
  <2> HIDE DEF s0
  <2>4. DispatchType(s1) /\ DispatchInv(s1, k)
    BY <1>0, <2>2, <2>3, DispatchKindType, DispatchKindInv DEF Kinds
  <2> HIDE DEF s1
  <2>5. DispatchType(s2) /\ DispatchInv(s2, k)
    BY <1>0, <2>4, DispatchKindType, DispatchKindInv DEF Kinds
  <2> HIDE DEF s2
  <2>6. InFlight' = {}  BY <1>0 DEF InFlight, Persisting
  <2>7. BusyIffPending'
    <3>1. SUFFICES ASSUME NEW a \in known, NEW kind \in Kinds
                   PROVE  task'[a].busy[kind] <=> \E j \in queue' : j.kpz = a /\ j.kind = kind
      BY <1>0, <2>6 DEF BusyIffPending, Queued, Owned
    <3>2. CASE a = k
      <4>1. task'[k] = s2.task  BY <2>1 DEF IInv, TypeOK
      <4> QED BY <3>2, <4>1, <2>1, <2>5 DEF DispatchInv
    <3>3. CASE a # k
      <4>1. task'[a] = task[a]  BY <2>1, <3>3 DEF IInv, TypeOK
      <4>2. task[a].busy[kind] <=> Queued(a, kind)
        BY <1>0 DEF IInv, BusyIffPending, Owned
      <4> QED BY <3>3, <4>1, <4>2, <2>1, <2>5 DEF DispatchInv, Queued
    <3> QED BY <3>2, <3>3
  <2>8. OneOwner'
    BY <2>1, <2>5, <2>6 DEF OneOwner, DispatchInv, Queued, Owned
  <2>9. SnapshotCurrent'  BY <2>6 DEF SnapshotCurrent
  <2>10. PhaseOK' /\ DrainIsBarrier'
    <3>1. \A j \in queue' : j.kpz \in known'
      BY <1>0, <2>1, <2>5 DEF DispatchInv, IInv, PhaseOK
    <3> QED BY <1>0, <2>6, <3>1 DEF PhaseOK, DrainIsBarrier
  <2> QED BY <2>7, <2>8, <2>9, <2>10 DEF IInv
<1> QED BY <1>0, <1>1, <1>2 DEF IInv, TypeOK, Task

\* Synchronisation works on idle tasks: it starts with nothing pending, and
\* what it makes of a task has its flags down.
LEMMA SafeSync ==
  ASSUME IInv, TypeOK', ControlOK',
         SyncLoad \/ (\E k \in Kpz : SyncRow(k)) \/ SyncDone
  PROVE  IInv'
<1>1. /\ queue = {} /\ InFlight = {} /\ workers = {} /\ joined = NoWorker
      /\ pc \in {"load", "rows"}
  BY DEF SyncLoad, SyncRow, SyncDone, IInv, DrainIsBarrier, InFlight, Persisting
<1>2. \A k \in known : task[k].busy = Idle  BY <1>1, NothingBusy
<1>3. /\ workers' = workers /\ joined' = joined
  BY DEF SyncLoad, SyncRow, SyncDone, poolVars
<1>4. InFlight' = {}  BY <1>1, <1>3 DEF InFlight, Persisting
<1>5. TypeOK  BY DEF IInv
<1>6. CASE SyncLoad
  <2>1. queue' = {} /\ known' = known /\ task' = task  BY <1>1, <1>6 DEF SyncLoad, queueVars
  <2>2. \A k \in known' : task'[k].busy = Idle  BY <1>2, <2>1
  <2> QED BY <1>4, <2>1, <2>2, QuietNext DEF Quiet
<1>7. ASSUME NEW k \in Kpz, SyncRow(k) PROVE IInv'
  <2>1. queue' = {}  BY <1>1, <1>7 DEF SyncRow
  <2>2. CASE loaded[k].group = NoGroup
    <3>1. known' = known /\ task' = task  BY <1>7, <2>2 DEF SyncRow
    <3> QED BY <1>2, <1>4, <2>1, <3>1, QuietNext DEF Quiet
  <2>3. CASE loaded[k].group # NoGroup
    <3> DEFINE r == loaded[k]
               t == IF NeedOnStart(k, r) THEN Restarted(Synced(k, r), k)
                    ELSE IF NeedOnStop(k, r) THEN Stopped(Synced(k, r))
                    ELSE Synced(k, r)
    <3>1. known' = known \cup {k} /\ task' = [task EXCEPT ![k] = t]
      BY <1>7, <2>3 DEF SyncRow
    <3>2. r \in Row  BY <1>5, <1>7 DEF SyncRow, IInv, ControlOK, TypeOK
    <3>3. Synced(k, r) \in Task  BY <1>5, <3>2, SyncedType
    <3>4. Synced(k, r).busy = Idle
      <4>1. CASE k \notin known  BY <4>1 DEF Synced
      <4>2. CASE k \in known
        <5>1. task[k] \in Task /\ task[k].busy = Idle  BY <1>2, <1>5, <4>2 DEF TypeOK
        <5> QED BY <4>2, <5>1 DEF Synced, Task
      <4> QED BY <4>1, <4>2
    <3>5. t.busy = Idle
      <4> DEFINE u == Synced(k, r)
      <4>1. u \in Task /\ u.busy = Idle  BY <3>3, <3>4
      <4> HIDE DEF u
      <4>2. Restarted(u, k).busy = Idle /\ Stopped(u).busy = Idle
        BY <4>1 DEF Restarted, Stopped, Task
      <4> QED BY <4>1, <4>2 DEF u
    <3> HIDE DEF t
    <3>6. \A a \in known' : task'[a].busy = Idle
      BY <1>2, <1>5, <3>1, <3>5 DEF TypeOK
    <3> QED BY <1>4, <2>1, <3>6, QuietNext DEF Quiet
  <2> QED BY <2>2, <2>3
<1>8. CASE SyncDone
  <2>1. queue' = {} /\ known' \subseteq known  BY <1>1, <1>8 DEF SyncDone, queueVars
  <2>2. \A k \in known' : task'[k] = task[k]  BY <1>5, <1>8 DEF SyncDone, TypeOK
  <2>3. \A k \in known' : task'[k].busy = Idle  BY <1>2, <2>1, <2>2
  <2> QED BY <1>4, <2>1, <2>3, QuietNext DEF Quiet
<1> QED BY <1>6, <1>7, <1>8

\* A worker takes over the only pending job of its KPZ and kind.
LEMMA SafeSpawn ==
  ASSUME IInv, TypeOK', ControlOK', NEW j \in queue, Spawn(j)
  PROVE  IInv'
<1>0. PICK w0 : w0 = Snapshot(j)  OBVIOUS
<1>1. /\ pc = "spawn" /\ pc' = "spawn" /\ joined = NoWorker /\ joined' = NoWorker
      /\ j \in Job /\ j.kpz \in known /\ j.kpz \notin RunningKpz
      /\ known' = known /\ task' = task /\ streak' = streak
      /\ protocolGeneration' = protocolGeneration
      /\ queue' = queue \ {j} /\ workers' = workers \cup {w0}
  BY <1>0 DEF Spawn, Spawnable, IInv, TypeOK, ControlOK, PhaseOK, taskVars
<1>2. /\ w0.kpz = j.kpz /\ w0.kind = j.kind /\ w0.status = "running"
      /\ w0.next = task[j.kpz].next /\ w0.busy = task[j.kpz].busy
      /\ w0.streak = streak[j.kpz] /\ w0.generation = task[j.kpz].generation
      /\ w0.protocol = protocolGeneration
  BY <1>0 DEF Snapshot
<1>3. InFlight = workers /\ InFlight' = workers \cup {w0}
  BY <1>1 DEF InFlight, Persisting
<1>4. \A w \in workers : w.kpz # w0.kpz  BY <1>1, <1>2 DEF RunningKpz
<1>5. BusyIffPending'
  <2> SUFFICES ASSUME NEW k \in known, NEW kind \in Kinds
               PROVE  task[k].busy[kind] <=> Queued(k, kind)' \/ Owned(k, kind)'
    BY <1>1 DEF BusyIffPending
  <2>1. task[k].busy[kind] <=> Queued(k, kind) \/ Owned(k, kind)
    BY <1>1 DEF IInv, BusyIffPending
  <2>2. Queued(k, kind) <=> Queued(k, kind)' \/ (k = j.kpz /\ kind = j.kind)
    BY <1>1 DEF Queued, IInv, OneOwner
  <2>3. Owned(k, kind)' <=> Owned(k, kind) \/ (k = j.kpz /\ kind = j.kind)
    BY <1>2, <1>3 DEF Owned
  <2> QED BY <2>1, <2>2, <2>3
<1>6. OneOwner'
  <2>1. \A v, w \in InFlight' : v.kpz = w.kpz => v = w
    BY <1>3, <1>4 DEF IInv, OneOwner
  <2>2. \A a, b \in queue' : a.kpz = b.kpz /\ a.kind = b.kind => a = b
    BY <1>1 DEF IInv, OneOwner
  <2>3. \A k \in Kpz, kind \in Kinds : ~(Queued(k, kind)' /\ Owned(k, kind)')
    BY <1>1, <1>2, <1>3 DEF IInv, OneOwner, Queued, Owned
  <2> QED BY <2>1, <2>2, <2>3 DEF OneOwner
<1>7. SnapshotCurrent'
  <2>1. \A w \in workers : MergeMatches(w)' <=> MergeMatches(w)
    BY <1>1 DEF MergeMatches
  <2>2. MergeMatches(w0)'  BY <1>1, <1>2 DEF MergeMatches
  <2>3. task[j.kpz].next \in [Kinds -> Nat] /\ task[j.kpz].busy \in [Kinds -> BOOLEAN]
    BY <1>1 DEF IInv, TypeOK, Task, Job
  <2> QED BY <1>1, <1>2, <1>3, <2>1, <2>2, <2>3 DEF IInv, SnapshotCurrent
<1>8. PhaseOK' /\ DrainIsBarrier'
  <2>1. NoWorker \notin workers'  BY <1>1, SchedulerAssumption DEF TypeOK
  <2> QED BY <1>1, <2>1 DEF PhaseOK, DrainIsBarrier, IInv
<1> QED BY <1>5, <1>6, <1>7, <1>8 DEF IInv

\* The joined result is in flight until it is merged; a failure ends everything.
LEMMA SafeJoin ==
  ASSUME IInv, TypeOK', ControlOK', NEW w \in workers, Join(w)
  PROVE  IInv'
<1>1. /\ pc = "drain" /\ joined = NoWorker /\ w.status # "running"
      /\ known' = known /\ task' = task /\ streak' = streak /\ queue' = queue
      /\ protocolGeneration' = protocolGeneration
  BY DEF Join, IInv, ControlOK, taskVars, queueVars
<1>2. InFlight' \subseteq InFlight /\ (pc' # "failed" => InFlight' = InFlight)
  <2>1. w # NoWorker  BY SchedulerAssumption DEF IInv, TypeOK
  <2> QED BY <1>1, <2>1 DEF Join, InFlight, Persisting
<1>3. BusyIffPending'
  BY <1>1, <1>2 DEF BusyIffPending, Queued, Owned, IInv
<1>4. OneOwner'
  BY <1>1, <1>2 DEF OneOwner, Queued, Owned, IInv
<1>5. SnapshotCurrent'
  BY <1>1, <1>2 DEF SnapshotCurrent, MergeMatches, IInv
<1>6. PhaseOK' /\ DrainIsBarrier'
  BY <1>1 DEF Join, PhaseOK, DrainIsBarrier, IInv
<1> QED BY <1>3, <1>4, <1>5, <1>6 DEF IInv

LEMMA SafePersistFail ==
  ASSUME IInv, TypeOK', ControlOK', PersistFail
  PROVE  IInv'
<1>1. /\ pc' = "failed" /\ InFlight' = {} /\ joined' = NoWorker
      /\ known' = known /\ queue' = queue
  BY DEF PersistFail, InFlight, Persisting, taskVars, queueVars
<1>2. BusyIffPending' /\ SnapshotCurrent' /\ DrainIsBarrier'
  BY <1>1 DEF BusyIffPending, SnapshotCurrent, DrainIsBarrier
<1>3. OneOwner'
  BY <1>1 DEF OneOwner, Queued, Owned, IInv
<1>4. PhaseOK'
  BY <1>1, SchedulerAssumption DEF PhaseOK, IInv, PersistFail
<1> QED BY <1>2, <1>3, <1>4 DEF IInv

\* The merge takes down the flag of the joined job and touches no other KPZ.
LEMMA SafeMerge ==
  ASSUME IInv, TypeOK', ControlOK', Merge
  PROVE  IInv'
<1> DEFINE w == joined
<1>1. /\ pc = "persist" /\ pc' = "spawn" /\ joined' = NoWorker /\ joined # NoWorker
      /\ known' = known /\ queue' = queue /\ workers' = workers
      /\ protocolGeneration' = protocolGeneration
  BY DEF Merge, AfterMerge, IInv, ControlOK, queueVars
<1>2. w \in InFlight /\ w \in Worker /\ w.status # "running" /\ MergeMatches(w)
  BY <1>1 DEF InFlight, Persisting, IInv, TypeOK, SnapshotCurrent, PhaseOK
<1>3. InFlight' = workers /\ workers \subseteq InFlight
  BY <1>1 DEF InFlight, Persisting
<1>4. w.kpz \in Kpz /\ w.kpz \in known /\ w.next \in [Kinds -> Nat]
      /\ w.busy \in [Kinds -> BOOLEAN] /\ w.kind \in Kinds
  BY <1>2 DEF Worker, MergeMatches
<1>5. \A v \in InFlight : v.kpz = w.kpz => v = w
  BY <1>2 DEF IInv, OneOwner
<1>6. w \notin workers
  BY <1>1, <1>2 DEF IInv, PhaseOK
<1>7. /\ \A k \in Kpz \ {w.kpz} : task'[k] = task[k] /\ streak'[k] = streak[k]
      /\ task'[w.kpz].busy = w.busy
      /\ task'[w.kpz].generation = task[w.kpz].generation
  <2> DEFINE t == [task[w.kpz] EXCEPT !.next = w.next, !.busy = w.busy]
  <2>1. /\ task' = [task EXCEPT ![w.kpz] = t]
        /\ streak' = [streak EXCEPT ![w.kpz] = w.streak]
    BY <1>2 DEF Merge
  <2>2. task \in [Kpz -> Task] /\ streak \in [Kpz -> 0 .. StreakMax]  BY DEF IInv, TypeOK
  <2>3. task[w.kpz] \in Task  BY <1>4, <2>2
  <2>4. t.busy = w.busy /\ t.generation = task[w.kpz].generation  BY <2>3 DEF Task
  <2> HIDE DEF t, w
  <2> QED BY <1>4, <2>1, <2>2, <2>4
<1>8. \A v \in workers : v.kpz # w.kpz
  BY <1>3, <1>5, <1>6
<1>9. \A kind \in Kinds : w.busy[kind] <=> task[w.kpz].busy[kind] /\ kind # w.kind
  BY <1>2, <1>4 DEF IInv, SnapshotCurrent
<1> HIDE DEF w
<1>10. BusyIffPending'
  <2> SUFFICES ASSUME NEW k \in known, NEW kind \in Kinds
               PROVE  task'[k].busy[kind] <=> Queued(k, kind)' \/ Owned(k, kind)'
    BY <1>1 DEF BusyIffPending
  <2>1. task[k].busy[kind] <=> Queued(k, kind) \/ Owned(k, kind)
    BY <1>1 DEF IInv, BusyIffPending
  <2>2. Queued(k, kind)' <=> Queued(k, kind)  BY <1>1 DEF Queued
  <2>3. CASE k # w.kpz
    <3>1. Owned(k, kind)' <=> Owned(k, kind)
      BY <1>3, <2>3 DEF Owned, InFlight, Persisting, w
    <3> QED BY <1>7, <2>1, <2>2, <2>3, <3>1 DEF IInv, TypeOK
  <2>4. CASE k = w.kpz
    <3>1. ~Owned(k, kind)'  BY <1>3, <1>8, <2>4 DEF Owned
    <3>2. Owned(k, kind) <=> kind = w.kind  BY <1>2, <1>5, <2>4 DEF Owned
    <3>3. ~(Queued(k, kind) /\ Owned(k, kind))  BY <1>4, <2>4 DEF IInv, OneOwner
    <3> QED BY <1>7, <1>9, <2>1, <2>2, <2>4, <3>1, <3>2, <3>3
  <2> QED BY <2>3, <2>4
<1>11. OneOwner'
  BY <1>1, <1>3 DEF OneOwner, Queued, Owned, IInv
<1>12. SnapshotCurrent'
  <2> SUFFICES ASSUME NEW v \in workers
               PROVE  /\ MergeMatches(v)'
                      /\ \A kind \in Kinds :
                           /\ task'[v.kpz].next[kind] <= v.next[kind]
                           /\ v.busy[kind] <=> task'[v.kpz].busy[kind]
                                                 /\ (kind = v.kind => v.status = "running")
                      /\ v.status = "running" =>
                           v.next = task'[v.kpz].next /\ v.streak = streak'[v.kpz]
    BY <1>3 DEF SnapshotCurrent
  <2>1. v.kpz \in Kpz /\ v.kpz # w.kpz  BY <1>8 DEF IInv, TypeOK, Worker
  <2>2. task'[v.kpz] = task[v.kpz] /\ streak'[v.kpz] = streak[v.kpz]  BY <1>7, <2>1
  <2>3. v \in InFlight  BY <1>3
  <2> QED BY <1>1, <2>2, <2>3 DEF IInv, SnapshotCurrent, MergeMatches
<1>13. PhaseOK' /\ DrainIsBarrier'
  <2>1. NoWorker \notin workers'  BY <1>1, SchedulerAssumption DEF TypeOK
  <2> QED BY <1>1, <2>1 DEF PhaseOK, DrainIsBarrier, IInv
<1> QED BY <1>10, <1>11, <1>12, <1>13 DEF IInv

\* An ended worker stays the only owner of its job.
LEMMA SafeWorkerEnds ==
  ASSUME IInv, TypeOK', ControlOK', NEW w \in workers, NEW outcome \in Outcomes,
         WorkerEnds(w, outcome)
  PROVE  IInv'
<1>0. PICK r : r = Ran(w, outcome)  OBVIOUS
<1>1. /\ pc' = pc /\ joined' = joined /\ known' = known /\ task' = task /\ streak' = streak
      /\ queue' = queue /\ protocolGeneration' = protocolGeneration
      /\ w.status = "running" /\ w \in Worker /\ now \in Nat
      /\ workers' = (workers \ {w}) \cup {r}
  BY <1>0 DEF WorkerEnds, IInv, TypeOK, taskVars, queueVars
<1>2. /\ r.kpz = w.kpz /\ r.kind = w.kind /\ r.status = outcome
      /\ r.generation = w.generation /\ r.protocol = w.protocol
      /\ \A kind \in Kinds : r.busy[kind] <=> w.busy[kind] /\ kind # w.kind
      /\ \A kind \in Kinds : w.next[kind] <= r.next[kind]
      /\ r.next \in [Kinds -> Nat]
  <2>1. r \in Worker  BY <1>0, <1>1, RanType
  <2> QED BY <1>0, <1>1, <2>1, RanFields DEF Worker
<1>3. outcome # "running"  BY DEF Outcomes
<1>4. /\ w \in InFlight
      /\ InFlight' = (InFlight \ {w}) \cup {r}
  <2>1. w # joined  BY <1>1 DEF IInv, PhaseOK, TypeOK, ControlOK
  <2> QED BY <1>1, <2>1 DEF InFlight, Persisting, IInv, PhaseOK
<1>5. \A k, kind : Owned(k, kind)' <=> Owned(k, kind)
  BY <1>2, <1>4 DEF Owned
<1>6. BusyIffPending'
  BY <1>1, <1>5 DEF BusyIffPending, Queued, IInv
<1>7. OneOwner'
  <2>1. \A u, v \in InFlight' : u.kpz = v.kpz => u = v
    BY <1>2, <1>4 DEF IInv, OneOwner
  <2> QED BY <1>1, <1>5, <2>1 DEF OneOwner, Queued, IInv
<1>8. SnapshotCurrent'
  <2>1. MergeMatches(w) /\ MergeMatches(r)'
    BY <1>1, <1>2, <1>4 DEF MergeMatches, IInv, SnapshotCurrent
  <2>2. \A v \in InFlight : MergeMatches(v)' <=> MergeMatches(v)
    BY <1>1 DEF MergeMatches
  <2>3. w.next = task[w.kpz].next /\ w.busy \in [Kinds -> BOOLEAN] /\ w.next \in [Kinds -> Nat]
    BY <1>1, <1>4 DEF IInv, SnapshotCurrent, Worker
  <2>4. \A kind \in Kinds : w.busy[kind] <=> task[w.kpz].busy[kind]
    BY <1>1, <1>4 DEF IInv, SnapshotCurrent
  <2>5. \A kind \in Kinds :
           /\ task[r.kpz].next[kind] <= r.next[kind]
           /\ r.busy[kind] <=> task[r.kpz].busy[kind] /\ (kind = r.kind => r.status = "running")
    BY <1>2, <1>3, <2>3, <2>4
  <2> QED BY <1>1, <1>2, <1>3, <1>4, <2>1, <2>2, <2>5 DEF IInv, SnapshotCurrent
<1>9. PhaseOK'
  <2>1. workers # {} /\ workers' # {}  BY <1>1
  <2>2. joined # NoWorker => joined \in InFlight /\ joined # w /\ joined # r
    BY <1>1, <1>2, <1>4 DEF InFlight, Persisting, IInv, PhaseOK, OneOwner
  <2>3. joined \notin workers'
    BY <1>1, <2>2, SchedulerAssumption DEF IInv, PhaseOK, TypeOK
  <2> QED BY <1>1, <2>1, <2>3, <1>4 DEF PhaseOK, IInv, InFlight, Persisting
<1>10. DrainIsBarrier'
  BY <1>1, <1>4 DEF DrainIsBarrier, IInv
<1> QED BY <1>6, <1>7, <1>8, <1>9, <1>10 DEF IInv

\* The steps that leave tasks, queue and pool alone.
LEMMA SafeFrame ==
  ASSUME IInv, TypeOK', ControlOK',
         \/ Elapse \/ CtrlC \/ (\E k \in Kpz, r \in Row \cup {NoRow} : EditKpz(k, r)) \/ EditProtocol
         \/ WaitTick \/ LeaveLoop \/ (\E ok \in BOOLEAN : Finish(ok))
         \/ (\E c \in Cfgs \cup {cfg} : SyncRuntime(c)) \/ SyncFingerprint \/ SyncFail
         \/ (\E k \in Kpz : DispatchFull(k)) \/ DispatchDone \/ SpawnDone \/ DrainDone
         \/ Ended \/ UNCHANGED vars
  PROVE  IInv'
<1> USE DEF dbVars, syncVars, taskVars, queueVars, poolVars, vars
<1>1. UNCHANGED core /\ (pc = "failed" => pc' = "failed")
  BY DEF core, Elapse, CtrlC, EditKpz, EditProtocol, WaitTick, LeaveLoop, Finish, SyncRuntime,
         SyncFingerprint, GoDispatch, SyncFail, DispatchFull, DispatchDone, SpawnDone, DrainDone, Drained, Ended, Terminal
<1>2. InFlight' = InFlight  BY <1>1 DEF core, InFlight, Persisting
<1>3. PhaseOK'
  <2>1. pc' = "dispatch" => InFlight = {}
    BY DEF Elapse, CtrlC, EditKpz, EditProtocol, WaitTick, LeaveLoop, Finish, SyncRuntime,
           SyncFingerprint, GoDispatch, SyncFail, DispatchFull, DispatchDone, SpawnDone, DrainDone, Drained, Ended,
           IInv, PhaseOK, DrainIsBarrier
  <2>2. SpawnDone => (workers = {} => queue = {})
    <3>1. SUFFICES ASSUME SpawnDone, workers = {} PROVE queue = {}  OBVIOUS
    <3>2. Cardinality(workers) = 0 /\ RunningKpz = {}
      BY <3>1, FS_EmptySet DEF RunningKpz
    <3> QED BY <3>1, <3>2, Bounds DEF SpawnDone
  <2>3. pc' = "drain" => pc = "drain" \/ SpawnDone
    BY DEF Elapse, CtrlC, EditKpz, EditProtocol, WaitTick, LeaveLoop, Finish, SyncRuntime,
           SyncFingerprint, GoDispatch, SyncFail, DispatchFull, DispatchDone, SpawnDone, DrainDone, Drained, Ended
  <2> QED BY <1>1, <1>2, <2>1, <2>2, <2>3 DEF PhaseOK, IInv, core
<1>4. DrainIsBarrier'
  BY <1>1, <1>2
     DEF core, Elapse, CtrlC, EditKpz, EditProtocol, WaitTick, LeaveLoop, Finish, SyncRuntime,
         SyncFingerprint, GoDispatch, SyncFail, DispatchFull, DispatchDone, SpawnDone, DrainDone, Drained, Ended,
         IInv, PhaseOK, DrainIsBarrier, InFlight, Persisting, ControlOK
<1> QED BY <1>1, <1>3, <1>4, Frame

\* Every step keeps the invariant.
LEMMA SafeNext == IInv /\ [Next]_vars => IInv'
<1> SUFFICES ASSUME IInv, [Next]_vars PROVE IInv'  OBVIOUS
<1>1. TypeOK' /\ ControlOK'  BY TypeNext DEF IInv
<1>2. ASSUME NEW k \in Kpz, DispatchTask(k) PROVE IInv'  BY <1>1, <1>2, SafeDispatchTask
<1>3. ASSUME NEW j \in queue, Spawn(j) PROVE IInv'  BY <1>1, <1>3, SafeSpawn
<1>4. ASSUME NEW w \in workers, Join(w) PROVE IInv'  BY <1>1, <1>4, SafeJoin
<1>5. ASSUME NEW w \in workers, NEW outcome \in Outcomes, WorkerEnds(w, outcome) PROVE IInv'
  BY <1>1, <1>5, SafeWorkerEnds
<1>6. CASE Merge  BY <1>1, <1>6, SafeMerge
<1>7. CASE PersistFail  BY <1>1, <1>7, SafePersistFail
<1>8. CASE SyncLoad \/ (\E k \in Kpz : SyncRow(k)) \/ SyncDone  BY <1>1, <1>8, SafeSync
<1> QED
  BY <1>1, <1>2, <1>3, <1>4, <1>5, <1>6, <1>7, <1>8, SafeFrame DEF Next, Loop, WorkerStep

\* Every reachable state satisfies the inductive invariant.
THEOREM Safe == Spec => []IInv
BY SafeInit, SafeNext, PTL DEF Spec

\* The loop never waits, synchronises or ends cleanly with a job pending
\* (worker.rs 225-304).
THEOREM BarrierHolds == Spec => []DrainIsBarrier
<1>1. IInv => DrainIsBarrier  BY DEF IInv
<1> QED BY <1>1, Safe, PTL

\* A busy flag is up exactly while its job is pending (queue.rs 146-198).
THEOREM BusyIsPending == Spec => []BusyIffPending
<1>1. IInv => BusyIffPending  BY DEF IInv
<1> QED BY <1>1, Safe, PTL

\* No two workers share a KPZ and no job is pending twice (queue.rs 65-86).
THEOREM OneOwnerEach == Spec => []OneOwner
<1>1. IInv => OneOwner  BY DEF IInv
<1> QED BY <1>1, Safe, PTL

\* A merge never meets a task that changed since its worker was started, so
\* its delta is never dropped (merge.rs 13-75).
THEOREM SnapshotsCurrent == Spec => []SnapshotCurrent
<1>1. IInv => SnapshotCurrent  BY DEF IInv
<1> QED BY <1>1, Safe, PTL
-----------------------------------------------------------------------------
\* What one half of the dispatch of a task does to the queue and to the ticks:
\* a job is queued only when its tick is due, no run is brought forward, the
\* other kind is left alone, and a tick that gives no job was met by a full
\* queue and counted.
Dispatched(s, r, k, kind) ==
  /\ IsFiniteSet(r.queue) /\ Cardinality(r.queue) <= MaxQueue
  /\ s.queue \subseteq r.queue
  /\ \A j \in r.queue \ s.queue : j.kpz = k /\ stamp >= s.task.next[kind]
  /\ \A a \in Kinds : s.task.next[a] <= r.task.next[a]
  /\ \A a \in Kinds : a # kind =>
       r.task.next[a] = s.task.next[a] /\ r.task.busy[a] = s.task.busy[a]
  /\ s.dropped <= r.dropped
  /\ r.task.next[kind] # s.task.next[kind] /\ ~r.task.busy[kind] =>
       Cardinality(s.queue) >= MaxQueue /\ s.dropped < r.dropped
  /\ r.task.start = s.task.start /\ r.task.group = s.task.group

LEMMA DispatchKindTicks ==
  ASSUME NEW s, DispatchType(s), NEW k \in Kpz, NEW kind \in Kinds, stamp \in Nat,
         IsFiniteSet(s.queue), Cardinality(s.queue) <= MaxQueue
  PROVE  Dispatched(s, DispatchKind(s, k, kind), k, kind)
<1> DEFINE r   == DispatchKind(s, k, kind)
           new == [seq |-> s.nextSeq, kpz |-> k, kind |-> kind]
           n   == NextAfter(s.task, kind)
           d   == DueTicks(s.task, kind)
<1>0. /\ s.task \in Task /\ s.task.next \in [Kinds -> Nat] /\ s.task.busy \in [Kinds -> BOOLEAN]
      /\ s.dropped \in Nat /\ Cardinality(s.queue) \in Nat /\ MaxQueue \in Nat
  BY FS_CardinalityType, SchedulerAssumption DEF DispatchType, Task
<1>1. CASE s.task.busy[kind] \/ stamp < s.task.next[kind]
  <2>1. r = s  BY <1>1 DEF DispatchKind
  <2> HIDE DEF r
  <2>2. Dispatched(s, r, k, kind)  BY <1>0, <2>1 DEF Dispatched
  <2> QED BY <2>2 DEF r
<1>2. CASE ~(s.task.busy[kind] \/ stamp < s.task.next[kind])
  <2>1. stamp >= s.task.next[kind] /\ Effective(s.task.period[kind]) \in Nat \ {0}
    BY <1>0, <1>2, Bounds DEF Task
  <2>2. d \in Nat \ {0}
    <3>1. (stamp - s.task.next[kind]) \in Nat  BY <1>0, <2>1
    <3> QED BY <3>1, <2>1, DivNat DEF DueTicks
  <2>3. n \in Nat /\ s.task.next[kind] <= n
    <3>1. Effective(s.task.period[kind]) * d \in Nat  BY <2>1, <2>2
    <3> QED BY <1>0, <3>1 DEF NextAfter
  <2>4. CASE HasRoom(s.queue)
    <3>1. /\ r.queue = s.queue \cup {new} /\ r.dropped = s.dropped + (d - 1)
          /\ r.task = [s.task EXCEPT !.next[kind] = n, !.busy[kind] = TRUE]
      BY <1>2, <2>4 DEF DispatchKind, Push, LostTicks
    <3>2. /\ r.task.next = [s.task.next EXCEPT ![kind] = n]
          /\ r.task.busy = [s.task.busy EXCEPT ![kind] = TRUE]
          /\ r.task.start = s.task.start /\ r.task.group = s.task.group
      BY <1>0, <3>1 DEF Task
    <3>4. new.kpz = k  OBVIOUS
    <3> HIDE DEF r, new, n, d
    <3>3. IsFiniteSet(r.queue) /\ Cardinality(r.queue) <= MaxQueue
      <4> DEFINE q == s.queue
      <4>1. IsFiniteSet(q) /\ Cardinality(q) < MaxQueue /\ r.queue = q \cup {new}
        BY <2>4, <3>1 DEF HasRoom
      <4> HIDE DEF q
      <4>2. /\ IsFiniteSet(q \cup {new})
            /\ Cardinality(q \cup {new}) = IF new \in q THEN Cardinality(q) ELSE Cardinality(q) + 1
        BY <4>1, FS_AddElement
      <4> QED BY <1>0, <4>1, <4>2, FS_CardinalityType
    <3>5. Dispatched(s, r, k, kind)
      BY <1>0, <2>1, <2>2, <2>3, <3>1, <3>2, <3>3, <3>4 DEF Dispatched
    <3> QED BY <3>5 DEF r
  <2>5. CASE ~HasRoom(s.queue)
    <3>1. /\ r = [s EXCEPT !.task = [s.task EXCEPT !.next[kind] = n], !.dropped = @ + d]
      BY <1>2, <2>5 DEF DispatchKind, LostTicks
    <3>2. /\ r.queue = s.queue /\ r.dropped = s.dropped + d
          /\ r.task = [s.task EXCEPT !.next[kind] = n]
      BY <3>1 DEF DispatchType
    <3>3. /\ r.task.next = [s.task.next EXCEPT ![kind] = n] /\ r.task.busy = s.task.busy
          /\ r.task.start = s.task.start /\ r.task.group = s.task.group
      BY <1>0, <3>2 DEF Task
    <3>4. Cardinality(s.queue) >= MaxQueue  BY <1>0, <2>5 DEF HasRoom
    <3> HIDE DEF r, n, d
    <3>5. Dispatched(s, r, k, kind)
      BY <1>0, <2>2, <2>3, <3>2, <3>3, <3>4 DEF Dispatched
    <3> QED BY <3>5 DEF r
  <2> QED BY <2>4, <2>5
<1> QED BY <1>1, <1>2

\* The pool and the queue are finite and keep their limits.
LimitsOK ==
  /\ IsFiniteSet(workers) /\ Cardinality(workers) <= EffectivePool
  /\ IsFiniteSet(queue) /\ Cardinality(queue) <= MaxQueue

\* The dispatch of both kinds of a task that is started.
LEMMA DispatchBoth ==
  ASSUME TypeOK, LimitsOK, NEW k \in Kpz, DispatchTask(k), task[k].start = 1
  PROVE  \E s0, s1, s2 :
           /\ s0.task = task[k] /\ s0.queue = queue /\ s0.dropped = dropped
           /\ DispatchType(s0) /\ DispatchType(s1) /\ DispatchType(s2)
           /\ Dispatched(s0, s1, k, "A") /\ Dispatched(s1, s2, k, "S")
           /\ task' = [task EXCEPT ![k] = s2.task] /\ queue' = s2.queue
           /\ dropped' = MinOf(s2.dropped, DropCap)
<1> DEFINE s0 == [task |-> task[k], queue |-> queue, nextSeq |-> nextSeq, dropped |-> dropped]
           s1 == DispatchKind(s0, k, "A")
           s2 == DispatchKind(s1, k, "S")
<1>0. stamp \in Nat /\ "A" \in Kinds /\ "S" \in Kinds  BY DEF TypeOK, Kinds
<1>1. /\ task' = [task EXCEPT ![k] = s2.task] /\ queue' = s2.queue
      /\ dropped' = MinOf(s2.dropped, DropCap)
  BY DEF DispatchTask
<1>2. /\ s0.task = task[k] /\ s0.queue = queue /\ s0.dropped = dropped /\ DispatchType(s0)
      /\ IsFiniteSet(s0.queue) /\ Cardinality(s0.queue) <= MaxQueue
  BY DEF DispatchType, TypeOK, LimitsOK
<1> HIDE DEF s0
<1>3. DispatchType(s1) /\ Dispatched(s0, s1, k, "A")
  BY <1>0, <1>2, DispatchKindType, DispatchKindTicks
<1>4. IsFiniteSet(s1.queue) /\ Cardinality(s1.queue) <= MaxQueue
  BY <1>3 DEF Dispatched
<1> HIDE DEF s1
<1>5. DispatchType(s2) /\ Dispatched(s1, s2, k, "S")
  BY <1>0, <1>3, <1>4, DispatchKindType, DispatchKindTicks
<1> HIDE DEF s2
<1> QED BY <1>1, <1>2, <1>3, <1>5

\* Every step keeps the limits.
LEMMA LimitsNext == IInv /\ LimitsOK /\ [Next]_vars => LimitsOK'
<1> SUFFICES ASSUME IInv, LimitsOK, [Next]_vars PROVE LimitsOK'  OBVIOUS
<1> USE DEF LimitsOK
<1>0. /\ EffectivePool \in Nat \ {0} /\ MaxQueue \in Nat
      /\ Cardinality(workers) \in Nat /\ Cardinality(queue) \in Nat
  BY Bounds, SchedulerAssumption, FS_CardinalityType
<1>1. ASSUME workers' \subseteq workers, queue' \subseteq queue PROVE LimitsOK'
  <2>1. /\ IsFiniteSet(workers') /\ Cardinality(workers') <= Cardinality(workers)
        /\ IsFiniteSet(queue') /\ Cardinality(queue') <= Cardinality(queue)
    BY <1>1, FS_Subset
  <2> QED BY <1>0, <2>1, FS_CardinalityType
<1>2. ASSUME NEW k \in Kpz, DispatchTask(k) PROVE LimitsOK'
  <2>1. workers' = workers  BY <1>2 DEF DispatchTask, poolVars
  <2>2. CASE task[k].start # 1  BY <1>1, <1>2, <2>1, <2>2 DEF DispatchTask, queueVars
  <2>3. CASE task[k].start = 1
    <3>1. PICK s0, s1, s2 : Dispatched(s1, s2, k, "S") /\ queue' = s2.queue
      BY <1>2, <2>3, DispatchBoth DEF IInv
    <3> QED BY <2>1, <3>1 DEF Dispatched
  <2> QED BY <2>2, <2>3
<1>3. ASSUME NEW j \in queue, Spawn(j) PROVE LimitsOK'
  <2>1. queue' \subseteq queue /\ Cardinality(workers) < EffectivePool  BY <1>3 DEF Spawn
  <2>2. workers' = workers \/ workers' = workers \cup {Snapshot(j)}  BY <1>3 DEF Spawn
  <2>3. IsFiniteSet(workers') /\ Cardinality(workers') <= EffectivePool
    BY <1>0, <2>1, <2>2, FS_AddElement
  <2>4. IsFiniteSet(queue') /\ Cardinality(queue') <= Cardinality(queue)  BY <2>1, FS_Subset
  <2> QED BY <1>0, <2>3, <2>4, FS_CardinalityType
<1>4. ASSUME NEW w \in workers, NEW outcome \in Outcomes, WorkerEnds(w, outcome) PROVE LimitsOK'
  <2>1. queue' = queue /\ workers' = (workers \ {w}) \cup {Ran(w, outcome)}
    BY <1>4 DEF WorkerEnds, queueVars
  <2>2. /\ IsFiniteSet(workers \ {w})
        /\ Cardinality(workers \ {w}) = Cardinality(workers) - 1
    BY FS_RemoveElement
  <2>3. IsFiniteSet(workers') /\ Cardinality(workers') <= Cardinality(workers)
    BY <1>0, <2>1, <2>2, FS_AddElement
  <2> QED BY <1>0, <2>1, <2>3, FS_CardinalityType
<1>5. ASSUME NEW w \in workers, Join(w) PROVE LimitsOK'
  BY <1>1, <1>5 DEF Join, queueVars
<1>6. ASSUME NEW k \in Kpz, SyncRow(k) PROVE LimitsOK'
  BY <1>1, <1>6 DEF SyncRow, poolVars
<1>7. CASE PersistFail \/ Merge  BY <1>1, <1>7 DEF PersistFail, Merge, queueVars
<1>8. CASE \/ Elapse \/ CtrlC \/ (\E k \in Kpz, r \in Row \cup {NoRow} : EditKpz(k, r)) \/ EditProtocol
           \/ WaitTick \/ LeaveLoop \/ (\E ok \in BOOLEAN : Finish(ok))
           \/ (\E c \in Cfgs \cup {cfg} : SyncRuntime(c)) \/ SyncFingerprint \/ SyncLoad
           \/ SyncDone \/ SyncFail \/ (\E k \in Kpz : DispatchFull(k)) \/ DispatchDone
           \/ SpawnDone \/ DrainDone \/ Ended \/ UNCHANGED vars
  <2>1. UNCHANGED <<workers, queue>>
    BY <1>8 DEF Elapse, CtrlC, EditKpz, EditProtocol, WaitTick, LeaveLoop, Finish, SyncRuntime,
         SyncFingerprint, SyncLoad, SyncDone, SyncFail, DispatchFull, DispatchDone, SpawnDone,
         DrainDone, Ended, vars, poolVars, queueVars
  <2> QED BY <2>1
<1> QED
  BY <1>2, <1>3, <1>4, <1>5, <1>6, <1>7, <1>8 DEF Next, Loop, WorkerStep

\* The pool never exceeds min(pool_size, max_inflight) and the queue never
\* max_queue, whatever order jobs are queued, spawned and joined in
\* (queue.rs 146-198, worker.rs 225-300).
THEOREM LimitsHold == Spec => []WithinLimits
<1>1. Init => LimitsOK
  BY FS_EmptySet, Bounds, SchedulerAssumption DEF Init, LimitsOK
<1>2. IInv /\ LimitsOK => WithinLimits  BY DEF IInv, LimitsOK, WithinLimits
<1> QED BY <1>1, <1>2, Safe, LimitsNext, PTL DEF Spec
-----------------------------------------------------------------------------
\* The task k is as the row r says, as far as an applied row goes.
Fits(k, r) == r.group # NoGroup => k \in known /\ task[k].start = r.start /\ task[k].group = r.group

\* The tasks are as the table kpz is.
Current == \A k \in Kpz : IF rows[k] = NoRow THEN k \notin known ELSE Fits(k, rows[k])

\* What holds while the fingerprint goes ahead of the rows: no fingerprint is
\* ahead of the database, the rows loaded are those of the fingerprint unless
\* the table was edited since, the rows visited are applied, and a fingerprint
\* of the table that is still good means that the tasks are, too.
CurrentOK ==
  /\ fingerprint.kpz <= rev
  /\ pc \in {"load", "rows"} => fingerprint.kpz <= reading.kpz /\ reading.kpz <= rev
  /\ pc = "rows" /\ reading.kpz = rev => loaded = rows
  /\ pc = "rows" /\ KpzChanged => \A k \in Kpz : loaded[k] # NoRow /\ k \notin todo => Fits(k, loaded[k])
  /\ pc = "rows" /\ ~KpzChanged => todo = {}
  /\ fingerprint.kpz = rev => Current

LEMMA CurrentFrame ==
  ASSUME TypeOK, CurrentOK, UNCHANGED <<rows, rev, fingerprint, known>>,
         \A k \in Kpz : task'[k].start = task[k].start /\ task'[k].group = task[k].group,
         \/ pc' \notin {"load", "rows"}
         \/ pc' = pc /\ UNCHANGED <<reading, loaded, todo>>
  PROVE  CurrentOK'
BY DEF TypeOK, CurrentOK, Current, Fits, KpzChanged

\* A synchronised row makes its task fit.
LEMMA SyncedFits ==
  ASSUME TypeOK, NEW k \in Kpz, NEW r \in Row,
         NEW t, t = IF NeedOnStart(k, r) THEN Restarted(Synced(k, r), k)
                    ELSE IF NeedOnStop(k, r) THEN Stopped(Synced(k, r)) ELSE Synced(k, r)
  PROVE  t.start = r.start /\ t.group = r.group
<1> DEFINE u == Synced(k, r)
<1>1. u \in Task  BY SyncedType
<1>2. u.start = r.start /\ u.group = r.group
  <2>1. CASE k \notin known  BY <2>1 DEF Synced
  <2>2. CASE k \in known
    <3>1. task[k] \in Task  BY DEF TypeOK
    <3> QED BY <2>2, <3>1 DEF Synced, Task
  <2> QED BY <2>1, <2>2
<1> HIDE DEF u
<1>3. /\ Restarted(u, k).start = u.start /\ Restarted(u, k).group = u.group
      /\ Stopped(u).start = u.start /\ Stopped(u).group = u.group
  BY <1>1 DEF Restarted, Stopped, Task
<1> QED BY <1>2, <1>3 DEF u

LEMMA CurrentSyncRow ==
  ASSUME TypeOK, ControlOK, CurrentOK, NEW k \in Kpz, SyncRow(k)
  PROVE  CurrentOK'
<1> DEFINE r == loaded[k]
<1>1. /\ pc = "rows" /\ pc' = "rows" /\ k \in todo /\ todo' = todo \ {k} /\ r \in Row
      /\ UNCHANGED <<rows, rev, fingerprint, reading, loaded>>
  BY DEF SyncRow, ControlOK, TypeOK, dbVars
<1>2. KpzChanged /\ KpzChanged' /\ fingerprint.kpz # rev
  BY <1>1 DEF CurrentOK, KpzChanged, TypeOK
<1>3. \A a \in Kpz : loaded[a] # NoRow /\ a \notin todo' => Fits(a, loaded[a])'
  <2>1. CASE r.group = NoGroup
    <3>1. known' = known /\ task' = task  BY <2>1 DEF SyncRow
    <3> QED BY <1>1, <1>2, <2>1, <3>1 DEF CurrentOK, Fits
  <2>2. CASE r.group # NoGroup
    <3>1. PICK t : /\ t = IF NeedOnStart(k, r) THEN Restarted(Synced(k, r), k)
                         ELSE IF NeedOnStop(k, r) THEN Stopped(Synced(k, r)) ELSE Synced(k, r)
                   /\ known' = known \cup {k} /\ task' = [task EXCEPT ![k] = t]
      BY <2>2 DEF SyncRow
    <3>2. t.start = r.start /\ t.group = r.group  BY <1>1, <3>1, SyncedFits
    <3> HIDE DEF r
    <3>3. task'[k] = t /\ \A a \in Kpz \ {k} : task'[a] = task[a]  BY <3>1 DEF TypeOK
    <3> QED BY <1>1, <1>2, <3>1, <3>2, <3>3 DEF CurrentOK, Fits, r
  <2> QED BY <2>1, <2>2
<1> QED BY <1>1, <1>2, <1>3 DEF CurrentOK

LEMMA CurrentSyncDone ==
  ASSUME TypeOK, CurrentOK, SyncDone
  PROVE  CurrentOK'
<1> DEFINE missing == IF KpzChanged THEN {k \in known : loaded[k] = NoRow} ELSE {}
<1>1. /\ pc = "rows" /\ pc' = "dispatch" /\ todo = {} /\ fingerprint' = reading
      /\ rows' = rows /\ rev' = rev /\ known' = known \ missing
      /\ \A k \in Kpz \ missing : task'[k] = task[k]
      /\ reading.kpz <= rev /\ (reading.kpz = rev => loaded = rows)
  BY DEF SyncDone, GoDispatch, SyncedFingerprint, CurrentOK, dbVars
<1>2. ASSUME reading.kpz = rev PROVE Current'
  <2>1. CASE KpzChanged
    <3>1. \A k \in Kpz : rows[k] # NoRow => Fits(k, rows[k])
      BY <1>1, <1>2, <2>1 DEF CurrentOK
    <3>2. \A k \in Kpz : rows[k] = NoRow => k \notin known'
      BY <1>1, <1>2, <2>1
    <3>3. \A k \in Kpz : rows[k] # NoRow => k \notin missing
      BY <1>1, <1>2
    <3> QED BY <1>1, <3>1, <3>2, <3>3 DEF Current, Fits
  <2>2. CASE ~KpzChanged
    <3>1. Current  BY <1>2, <2>2 DEF KpzChanged, CurrentOK
    <3> QED BY <1>1, <2>2, <3>1 DEF Current, Fits
  <2> QED BY <2>1, <2>2
<1> QED BY <1>1, <1>2 DEF CurrentOK

\* Every step keeps it.
LEMMA CurrentNext == IInv /\ LimitsOK /\ CurrentOK /\ [Next]_vars => CurrentOK'
<1> SUFFICES ASSUME IInv, LimitsOK, CurrentOK, [Next]_vars PROVE CurrentOK'  OBVIOUS
<1>0. TypeOK /\ ControlOK  BY DEF IInv
<1> USE DEF dbVars, syncVars, taskVars, queueVars, poolVars, vars
<1>1. ASSUME NEW k \in Kpz, NEW r \in Row \cup {NoRow}, EditKpz(k, r) PROVE CurrentOK'
  BY <1>0, <1>1 DEF EditKpz, TypeOK, CurrentOK, Current, Fits, KpzChanged
<1>2. CASE SyncFingerprint
  <2>1. CASE pc' = "load"
    <3>1. /\ reading' = [kpz |-> rev, protocol |-> protoRev] /\ fingerprint' = fingerprint
          /\ UNCHANGED <<rows, rev, known, task>>
      BY <1>2, <2>1 DEF SyncFingerprint, GoDispatch
    <3> QED BY <1>0, <2>1, <3>1 DEF CurrentOK, Current, Fits, TypeOK
  <2>2. CASE pc' # "load"  BY <1>0, <1>2, <2>2, CurrentFrame DEF SyncFingerprint, GoDispatch
  <2> QED BY <2>1, <2>2
<1>3. CASE SyncLoad
  BY <1>0, <1>3 DEF SyncLoad, TypeOK, CurrentOK, Current, Fits, KpzChanged
<1>4. ASSUME NEW k \in Kpz, SyncRow(k) PROVE CurrentOK'  BY <1>0, <1>4, CurrentSyncRow
<1>5. CASE SyncDone  BY <1>0, <1>5, CurrentSyncDone
<1>6. ASSUME NEW k \in Kpz, DispatchTask(k) PROVE CurrentOK'
  <2>1. pc' = "dispatch" /\ UNCHANGED <<rows, rev, fingerprint, known>>  BY <1>6 DEF DispatchTask
  <2>2. CASE task[k].start # 1  BY <1>0, <1>6, <2>1, <2>2, CurrentFrame DEF DispatchTask
  <2>3. CASE task[k].start = 1
    <3>1. PICK s0, s1, s2 : /\ s0.task = task[k] /\ Dispatched(s0, s1, k, "A")
                            /\ Dispatched(s1, s2, k, "S")
                            /\ task' = [task EXCEPT ![k] = s2.task]
      BY <1>0, <1>6, <2>3, DispatchBoth
    <3>2. s2.task.start = task[k].start /\ s2.task.group = task[k].group
      BY <3>1 DEF Dispatched
    <3>3. \A a \in Kpz : task'[a].start = task[a].start /\ task'[a].group = task[a].group
      BY <1>0, <3>1, <3>2 DEF TypeOK
    <3> QED BY <1>0, <2>1, <3>3, CurrentFrame
  <2> QED BY <2>2, <2>3
<1>7. CASE Merge
  <2>1. pc' = "spawn" /\ UNCHANGED <<rows, rev, fingerprint, known>>
    BY <1>7 DEF Merge, AfterMerge
  <2>2. \A a \in Kpz : task'[a].start = task[a].start /\ task'[a].group = task[a].group
    <3>1. CASE MergeMatches(joined)
      <4> DEFINE t == [task[joined.kpz] EXCEPT !.next = joined.next, !.busy = joined.busy]
      <4>1. joined.kpz \in Kpz /\ task' = [task EXCEPT ![joined.kpz] = t]
        BY <1>0, <1>7, <3>1 DEF Merge, MergeMatches, TypeOK
      <4>2. t.start = task[joined.kpz].start /\ t.group = task[joined.kpz].group
        BY <1>0, <4>1 DEF TypeOK, Task
      <4> HIDE DEF t
      <4> QED BY <1>0, <4>1, <4>2 DEF TypeOK
    <3>2. CASE ~MergeMatches(joined)  BY <1>7, <3>2 DEF Merge
    <3> QED BY <3>1, <3>2
  <2> QED BY <1>0, <2>1, <2>2, CurrentFrame
<1>8. CASE EditProtocol \/ Elapse \/ CtrlC  BY <1>0, <1>8, CurrentFrame DEF EditProtocol, Elapse, CtrlC
<1>9. CASE WaitTick \/ LeaveLoop \/ (\E ok \in BOOLEAN : Finish(ok))
  BY <1>0, <1>9, CurrentFrame DEF WaitTick, LeaveLoop, Finish
<1>10. CASE \/ (\E c \in Cfgs \cup {cfg} : SyncRuntime(c)) \/ SyncFail
            \/ (\E k \in Kpz : DispatchFull(k)) \/ DispatchDone
  BY <1>0, <1>10, CurrentFrame DEF SyncRuntime, SyncFail, DispatchFull, DispatchDone
<1>11. CASE \/ (\E j \in queue : Spawn(j)) \/ SpawnDone \/ (\E w \in workers : Join(w)) \/ PersistFail
            \/ DrainDone
  BY <1>0, <1>11, CurrentFrame DEF Spawn, SpawnDone, Join, PersistFail, DrainDone
<1>12. CASE \/ (\E w \in workers, outcome \in Outcomes : WorkerEnds(w, outcome))
            \/ Ended \/ UNCHANGED vars
  BY <1>0, <1>12, CurrentFrame DEF WorkerEnds, Ended
<1> QED
  BY <1>1, <1>2, <1>3, <1>4, <1>5, <1>6, <1>7, <1>8, <1>9, <1>10, <1>11, <1>12
     DEF Next, Loop, WorkerStep

\* A fingerprint that is the database's means that every task is as its row
\* says: an edit that lands between the statements of a synchronisation is seen
\* by the next (state_sync.rs 164-370).
THEOREM SyncIsCurrent == Spec => []SyncedMeansCurrent
<1>1. Init => CurrentOK
  BY DEF Init, CurrentOK, TypeOK
<1>2. CurrentOK => SyncedMeansCurrent
  BY DEF CurrentOK, SyncedMeansCurrent, Current, Fits
<1>3. Init => LimitsOK  BY FS_EmptySet, Bounds, SchedulerAssumption DEF Init, LimitsOK
<1> QED BY <1>1, <1>2, <1>3, Safe, LimitsNext, CurrentNext, PTL DEF Spec
-----------------------------------------------------------------------------
\* The next runs respect the backoffs: the snapshot of a worker does, also when
\* it has just pushed its runs back, and so does every task whose worker has
\* not ended yet.  A KPZ without a task has no backoff.
BackoffOK ==
  pc # "failed" =>
    /\ \A w \in InFlight, kind \in Kinds : quietUntil[w.kpz] <= w.next[kind]
    /\ \A k \in Kpz, kind \in Kinds :
         (\A w \in InFlight : w.kpz = k => w.status = "running") =>
           quietUntil[k] <= task[k].next[kind]
    /\ \A k \in Kpz \ known : quietUntil[k] = 0

LEMMA BackoffFrame ==
  ASSUME BackoffOK, UNCHANGED <<quietUntil, task, known, workers, joined>>,
         pc = "failed" => pc' = "failed"
  PROVE  BackoffOK'
BY DEF BackoffOK, InFlight, Persisting

\* With no job pending it is a statement about the tasks alone.
LEMMA BackoffQuietNext ==
  ( /\ InFlight = {}
    /\ \A k \in Kpz, kind \in Kinds : quietUntil[k] <= task[k].next[kind]
    /\ \A k \in Kpz \ known : quietUntil[k] = 0 )' => BackoffOK'
BY DEF BackoffOK

\* A job that timed out too often pushes all runs of its snapshot back as far
\* as the backoff it starts.
LEMMA RanBackoff ==
  ASSUME now \in Nat, NEW w \in Worker, NEW outcome \in Outcomes,
         outcome = "timeout", Ran(w, outcome).streak >= w.cfg.failures
  PROVE  \A kind \in Kinds : now + w.cfg.backoff <= Ran(w, outcome).next[kind]
<1> DEFINE n == StreakUp(w.streak)
           until == now + w.cfg.backoff
<1>1. /\ w.next \in [Kinds -> Nat] /\ w.streak \in Nat /\ StreakMax \in Nat
      /\ w.cfg.failures \in Nat /\ w.cfg.backoff \in Nat
  BY SchedulerAssumption DEF Worker, Cfg
<1>2. n \in Nat /\ until \in Nat  BY <1>1 DEF StreakUp, MinOf
<1>3. /\ NoResponse(w) = [w EXCEPT !.streak = n,
                            !.next = IF n < w.cfg.failures THEN @ ELSE PushedBack(w, until)]
      /\ Ran(w, outcome) = [NoResponse(w) EXCEPT !.status = outcome, !.busy = Released(w)]
  BY DEF NoResponse, Ran, Outcomes
<1> HIDE DEF n, until
<1>4. Ran(w, outcome).streak = n
      /\ Ran(w, outcome).next = IF n < w.cfg.failures THEN w.next ELSE PushedBack(w, until)
  BY <1>3 DEF Worker
<1>5. Ran(w, outcome).next = PushedBack(w, until)  BY <1>1, <1>2, <1>4
<1>6. \A kind \in Kinds : until <= MaxOf(w.next[kind], until)  BY <1>1, <1>2 DEF MaxOf
<1> QED BY <1>5, <1>6 DEF PushedBack, until

LEMMA BackoffSyncRow ==
  ASSUME IInv, BackoffOK, NEW k \in Kpz, SyncRow(k)
  PROVE  BackoffOK'
<1>0. TypeOK  BY DEF IInv
<1>1. /\ pc = "rows" /\ pc' = "rows" /\ InFlight = {} /\ InFlight' = {}
  BY DEF SyncRow, IInv, DrainIsBarrier, InFlight, Persisting, poolVars
<1>2. /\ \A a \in Kpz, kind \in Kinds : quietUntil[a] <= task[a].next[kind]
      /\ \A a \in Kpz \ known : quietUntil[a] = 0
  BY <1>1 DEF BackoffOK
<1>3. CASE loaded[k].group = NoGroup
  BY <1>1, <1>2, <1>3, BackoffQuietNext DEF SyncRow
<1>4. CASE loaded[k].group # NoGroup
  <2> DEFINE r == loaded[k]
             u == Synced(k, r)
             t == IF NeedOnStart(k, r) THEN Restarted(Synced(k, r), k)
                  ELSE IF NeedOnStop(k, r) THEN Stopped(Synced(k, r))
                  ELSE Synced(k, r)
  <2>1. r \in Row  BY DEF SyncRow, IInv, ControlOK, TypeOK
  <2>2. u \in Task /\ t \in Task  BY <1>0, <2>1, SyncedType
  <2>3. /\ known' = known \cup {k} /\ task' = [task EXCEPT ![k] = t]
        /\ quietUntil' = IF NeedOnStart(k, r) \/ NeedOnStop(k, r)
                           THEN [quietUntil EXCEPT ![k] = 0] ELSE quietUntil
    BY <1>4 DEF SyncRow
  <2>4. \A kind \in Kinds : quietUntil'[k] <= t.next[kind]
    <3>1. t.next \in [Kinds -> Nat]  BY <2>2 DEF Task
    <3>2. CASE NeedOnStart(k, r) \/ NeedOnStop(k, r)
      <4>1. quietUntil'[k] = 0  BY <1>0, <2>3, <3>2 DEF TypeOK
      <4> HIDE DEF t
      <4> QED BY <3>1, <4>1
    <3>3. CASE ~(NeedOnStart(k, r) \/ NeedOnStop(k, r))
      <4>1. t = u /\ quietUntil' = quietUntil  BY <2>3, <3>3
      <4>2. CASE k \in known
        <5>1. u.next = task[k].next  BY <1>0, <4>2 DEF Synced, TypeOK, Task
        <5> HIDE DEF t, u
        <5> QED BY <1>2, <4>1, <5>1
      <4>3. CASE k \notin known
        <5>1. quietUntil'[k] = 0  BY <1>2, <4>1, <4>3
        <5> HIDE DEF t, u
        <5> QED BY <3>1, <5>1
      <4> QED BY <4>2, <4>3
    <3> QED BY <3>2, <3>3
  <2> HIDE DEF t, u, r
  <2>5. /\ \A a \in Kpz, kind \in Kinds : quietUntil'[a] <= task'[a].next[kind]
        /\ \A a \in Kpz \ known' : quietUntil'[a] = 0
    <3>1. \A a \in Kpz \ {k} : task'[a] = task[a] /\ quietUntil'[a] = quietUntil[a]
      BY <1>0, <2>3 DEF TypeOK
    <3>2. task'[k] = t  BY <1>0, <2>3 DEF TypeOK
    <3> QED BY <1>2, <2>3, <2>4, <3>1, <3>2
  <2> QED BY <1>1, <2>5, BackoffQuietNext
<1> QED BY <1>3, <1>4

LEMMA BackoffSyncDone ==
  ASSUME IInv, BackoffOK, SyncDone
  PROVE  BackoffOK'
<1>0. TypeOK  BY DEF IInv
<1>1. /\ pc = "rows" /\ InFlight = {} /\ InFlight' = {}
  BY DEF SyncDone, IInv, DrainIsBarrier, InFlight, Persisting, poolVars
<1>2. /\ \A a \in Kpz, kind \in Kinds : quietUntil[a] <= task[a].next[kind]
      /\ \A a \in Kpz \ known : quietUntil[a] = 0
  BY <1>1 DEF BackoffOK
<1> DEFINE missing == IF KpzChanged THEN {k \in known : loaded[k] = NoRow} ELSE {}
<1>3. /\ known' = known \ missing
      /\ task' = [k \in Kpz |-> IF k \in missing THEN NoTask ELSE task[k]]
      /\ quietUntil' = [k \in Kpz |-> IF k \in missing THEN 0 ELSE quietUntil[k]]
  BY DEF SyncDone
<1> HIDE DEF missing
<1>4. \A kind \in Kinds : NoTask.next[kind] = 0  BY DEF NoTask
<1> QED BY <1>1, <1>2, <1>3, <1>4, BackoffQuietNext

LEMMA BackoffDispatch ==
  ASSUME IInv, LimitsOK, BackoffOK, NEW k \in Kpz, DispatchTask(k)
  PROVE  BackoffOK'
<1>0. TypeOK  BY DEF IInv
<1>1. /\ pc = "dispatch" /\ InFlight = {} /\ InFlight' = {}
      /\ known' = known /\ quietUntil' = quietUntil
  BY DEF DispatchTask, IInv, PhaseOK, InFlight, Persisting, poolVars
<1>2. /\ \A a \in Kpz, kind \in Kinds : quietUntil[a] <= task[a].next[kind]
      /\ \A a \in Kpz \ known : quietUntil[a] = 0
  BY <1>1 DEF BackoffOK
<1>3. \A a \in Kpz, kind \in Kinds : task[a].next[kind] <= task'[a].next[kind] /\ task'[a].next[kind] \in Int
  <2>1. \A a \in Kpz : task[a].next \in [Kinds -> Nat]  BY <1>0 DEF TypeOK, Task
  <2>2. CASE task[k].start # 1  BY <2>1, <2>2 DEF DispatchTask
  <2>3. CASE task[k].start = 1
    <3>1. PICK s0, s1, s2 : /\ s0.task = task[k] /\ Dispatched(s0, s1, k, "A")
                            /\ Dispatched(s1, s2, k, "S")
                            /\ DispatchType(s1) /\ DispatchType(s2)
                            /\ task' = [task EXCEPT ![k] = s2.task]
      BY <1>0, <2>3, DispatchBoth
    <3>2. s1.task.next \in [Kinds -> Nat] /\ s2.task.next \in [Kinds -> Nat]
      BY <3>1 DEF DispatchType, Task
    <3>3. \A kind \in Kinds : task[k].next[kind] <= s2.task.next[kind]
      BY <2>1, <3>1, <3>2 DEF Dispatched
    <3>4. task'[k] = s2.task /\ \A a \in Kpz \ {k} : task'[a] = task[a]
      BY <1>0, <3>1 DEF TypeOK
    <3> QED BY <2>1, <3>2, <3>3, <3>4
  <2> QED BY <2>2, <2>3
<1>4. \A a \in Kpz, kind \in Kinds : quietUntil[a] \in Nat /\ task[a].next[kind] \in Nat
  BY <1>0 DEF TypeOK, Task
<1> QED BY <1>1, <1>2, <1>3, <1>4, BackoffQuietNext

LEMMA BackoffSpawn ==
  ASSUME IInv, BackoffOK, NEW j \in queue, Spawn(j)
  PROVE  BackoffOK'
<1> DEFINE w0 == Snapshot(j)
<1>1. /\ pc = "spawn" /\ pc' = "spawn" /\ joined = NoWorker /\ joined' = NoWorker
      /\ j.kpz \in known /\ j.kpz \in Kpz /\ j.kpz \notin RunningKpz
      /\ known' = known /\ task' = task /\ quietUntil' = quietUntil
      /\ workers' = workers \cup {w0}
  BY DEF Spawn, Spawnable, IInv, TypeOK, ControlOK, PhaseOK, taskVars
<1>2. w0.kpz = j.kpz /\ w0.status = "running" /\ w0.next = task[j.kpz].next
  BY DEF Snapshot
<1> HIDE DEF w0
<1>3. InFlight = workers /\ InFlight' = workers \cup {w0}
  BY <1>1 DEF InFlight, Persisting
<1>4. \A w \in workers : w.kpz # j.kpz  BY <1>1 DEF RunningKpz
<1>5. \A kind \in Kinds : quietUntil[j.kpz] <= task[j.kpz].next[kind]
  BY <1>1, <1>3, <1>4 DEF BackoffOK
<1> QED BY <1>1, <1>2, <1>3, <1>5 DEF BackoffOK

LEMMA BackoffMerge ==
  ASSUME IInv, BackoffOK, Merge
  PROVE  BackoffOK'
<1> DEFINE w == joined
<1>0. TypeOK  BY DEF IInv
<1>1. /\ pc = "persist" /\ pc' = "spawn" /\ joined' = NoWorker /\ joined # NoWorker
      /\ known' = known /\ workers' = workers /\ quietUntil' = quietUntil
  BY DEF Merge, AfterMerge, IInv, ControlOK
<1>2. w \in InFlight /\ w \in Worker /\ MergeMatches(w) /\ w.kpz \in known /\ w.kpz \in Kpz
  BY <1>0, <1>1 DEF InFlight, Persisting, IInv, TypeOK, SnapshotCurrent, MergeMatches
<1>3. InFlight' = workers /\ InFlight = workers \cup {w}
  BY <1>1 DEF InFlight, Persisting
<1>4. /\ \A k \in Kpz \ {w.kpz} : task'[k] = task[k]
      /\ task'[w.kpz].next = w.next
  <2> DEFINE t == [task[w.kpz] EXCEPT !.next = w.next, !.busy = w.busy]
  <2>1. task' = [task EXCEPT ![w.kpz] = t]  BY <1>2 DEF Merge
  <2>2. t.next = w.next  BY <1>0, <1>2 DEF TypeOK, Task
  <2> HIDE DEF t, w
  <2> QED BY <1>0, <1>2, <2>1, <2>2 DEF TypeOK
<1>5. \A kind \in Kinds : quietUntil[w.kpz] <= w.next[kind]  BY <1>1, <1>2 DEF BackoffOK
<1> HIDE DEF w
<1>6. ASSUME NEW k \in Kpz, NEW kind \in Kinds,
             \A v \in workers : v.kpz = k => v.status = "running"
      PROVE  quietUntil[k] <= task'[k].next[kind]
  BY <1>1, <1>3, <1>4, <1>5, <1>6 DEF BackoffOK
<1> QED BY <1>1, <1>3, <1>6 DEF BackoffOK

LEMMA BackoffWorkerEnds ==
  ASSUME IInv, BackoffOK, NEW w \in workers, NEW outcome \in Outcomes, WorkerEnds(w, outcome)
  PROVE  BackoffOK'
<1> DEFINE r == Ran(w, outcome)
<1>1. /\ pc' = pc /\ joined' = joined /\ known' = known /\ task' = task
      /\ w.status = "running" /\ w \in Worker /\ now \in Nat /\ w.kpz \in Kpz
      /\ workers' = (workers \ {w}) \cup {r}
      /\ quietUntil \in [Kpz -> Nat]
  BY DEF WorkerEnds, IInv, TypeOK, taskVars, Worker
<1>2. /\ r.kpz = w.kpz /\ r.status = outcome /\ outcome # "running"
      /\ \A kind \in Kinds : w.next[kind] <= r.next[kind]
      /\ r \in Worker
  <2>1. r \in Worker  BY <1>1, RanType
  <2>2. /\ r.kpz = w.kpz /\ r.status = outcome
        /\ \A kind \in Kinds : w.next[kind] <= r.next[kind]
    BY <1>1, RanFields
  <2>3. outcome # "running"  BY DEF Outcomes
  <2> HIDE DEF r
  <2> QED BY <2>1, <2>2, <2>3
<1>3. /\ w \in InFlight
      /\ InFlight' = (InFlight \ {w}) \cup {r}
  <2>1. w # joined  BY <1>1 DEF IInv, PhaseOK, TypeOK, ControlOK
  <2> HIDE DEF r
  <2> QED BY <1>1, <2>1 DEF InFlight, Persisting, IInv, PhaseOK
<1>4. \A v \in InFlight \ {w} : v.kpz # w.kpz  BY <1>3 DEF IInv, OneOwner
<1>5. pc # "failed" => w.kpz \in known  BY <1>3 DEF IInv, SnapshotCurrent, MergeMatches
<1>6. /\ \A k \in Kpz \ {w.kpz} : quietUntil'[k] = quietUntil[k]
      /\ \/ quietUntil' = quietUntil
         \/ /\ quietUntil'[w.kpz] = now + w.cfg.backoff
            /\ \A kind \in Kinds : now + w.cfg.backoff <= r.next[kind]
  <2>1. CASE outcome = "timeout" /\ r.streak >= w.cfg.failures
    <3>1. quietUntil' = [quietUntil EXCEPT ![w.kpz] = now + w.cfg.backoff]
      BY <2>1 DEF WorkerEnds
    <3>2. \A kind \in Kinds : now + w.cfg.backoff <= r.next[kind]
      BY <1>1, <2>1, RanBackoff
    <3> HIDE DEF r
    <3> QED BY <1>1, <3>1, <3>2
  <2>2. CASE ~(outcome = "timeout" /\ r.streak >= w.cfg.failures)
    <3>1. quietUntil' = quietUntil  BY <2>2 DEF WorkerEnds
    <3> QED BY <3>1
  <2> QED BY <2>1, <2>2
<1> HIDE DEF r
<1>7. ASSUME pc # "failed", NEW v \in InFlight', NEW kind \in Kinds
      PROVE  quietUntil'[v.kpz] <= v.next[kind]
  <2>1. CASE v = r
    <3>1. quietUntil[w.kpz] <= w.next[kind]  BY <1>3, <1>7 DEF BackoffOK
    <3>2. w.next[kind] \in Nat /\ r.next[kind] \in Nat /\ quietUntil[w.kpz] \in Nat
      BY <1>1, <1>2 DEF Worker
    <3> QED BY <1>2, <1>6, <2>1, <3>1, <3>2
  <2>2. CASE v # r
    <3>1. v \in InFlight /\ v.kpz # w.kpz /\ v.kpz \in Kpz
      BY <1>3, <1>4, <2>2 DEF IInv, TypeOK, Worker, InFlight, Persisting
    <3> QED BY <1>6, <1>7, <3>1 DEF BackoffOK
  <2> QED BY <2>1, <2>2
<1>8. ASSUME pc # "failed", NEW k \in Kpz, NEW kind \in Kinds,
             \A v \in InFlight' : v.kpz = k => v.status = "running"
      PROVE  quietUntil'[k] <= task[k].next[kind]
  <2>1. k # w.kpz  BY <1>2, <1>3, <1>8
  <2>2. \A v \in InFlight : v.kpz = k => v.status = "running"  BY <1>3, <1>8, <2>1
  <2> QED BY <1>6, <1>8, <2>1, <2>2 DEF BackoffOK
<1> QED BY <1>1, <1>5, <1>6, <1>7, <1>8 DEF BackoffOK

\* Every step respects the backoffs.
LEMMA BackoffNext == IInv /\ LimitsOK /\ BackoffOK /\ [Next]_vars => BackoffOK'
<1> SUFFICES ASSUME IInv, LimitsOK, BackoffOK, [Next]_vars PROVE BackoffOK'  OBVIOUS
<1>1. ASSUME NEW k \in Kpz, SyncRow(k) PROVE BackoffOK'  BY <1>1, BackoffSyncRow
<1>2. CASE SyncDone  BY <1>2, BackoffSyncDone
<1>3. ASSUME NEW k \in Kpz, DispatchTask(k) PROVE BackoffOK'  BY <1>3, BackoffDispatch
<1>4. ASSUME NEW j \in queue, Spawn(j) PROVE BackoffOK'  BY <1>4, BackoffSpawn
<1>5. CASE Merge  BY <1>5, BackoffMerge
<1>6. ASSUME NEW w \in workers, NEW outcome \in Outcomes, WorkerEnds(w, outcome) PROVE BackoffOK'
  BY <1>6, BackoffWorkerEnds
<1>7. ASSUME NEW w \in workers, Join(w) PROVE BackoffOK'
  <2>1. joined = NoWorker /\ w # NoWorker
    BY <1>7, SchedulerAssumption DEF Join, IInv, TypeOK, ControlOK
  <2>2. CASE w.status = "panic"  BY <1>7, <2>2 DEF Join, BackoffOK
  <2>3. CASE w.status # "panic"
    <3>1. /\ InFlight' = InFlight /\ UNCHANGED <<quietUntil, task, known>> /\ pc # "failed"
      BY <1>7, <2>1, <2>3 DEF Join, InFlight, Persisting, taskVars
    <3> QED BY <3>1 DEF BackoffOK
  <2> QED BY <2>2, <2>3
<1>8. CASE PersistFail \/ SyncFail  BY <1>8 DEF PersistFail, SyncFail, BackoffOK
<1>9. CASE \/ Elapse \/ CtrlC \/ (\E k \in Kpz, r \in Row \cup {NoRow} : EditKpz(k, r)) \/ EditProtocol
           \/ WaitTick \/ LeaveLoop \/ (\E ok \in BOOLEAN : Finish(ok))
           \/ (\E c \in Cfgs \cup {cfg} : SyncRuntime(c)) \/ SyncFingerprint \/ SyncLoad
           \/ (\E k \in Kpz : DispatchFull(k)) \/ DispatchDone
           \/ SpawnDone \/ DrainDone \/ Ended \/ UNCHANGED vars
  <2>1. UNCHANGED <<quietUntil, task, known, workers, joined>> /\ (pc = "failed" => pc' = "failed")
    BY <1>9 DEF Elapse, CtrlC, EditKpz, EditProtocol, WaitTick, LeaveLoop, Finish, SyncRuntime,
         SyncFingerprint, GoDispatch, SyncLoad, DispatchFull, DispatchDone, SpawnDone,
         DrainDone, Ended, vars, poolVars, taskVars
  <2> QED BY <2>1, BackoffFrame
<1> QED
  BY <1>1, <1>2, <1>3, <1>4, <1>5, <1>6, <1>7, <1>8, <1>9 DEF Next, Loop, WorkerStep

\* What one step does to the ticks of the tasks.
TicksStep ==
  /\ \A j \in queue' \ queue : stamp >= quietUntil[j.kpz]
  /\ \A k \in known, kind \in Kinds :
       (pc = "dispatch" /\ task'[k].next[kind] # task[k].next[kind] /\ ~task'[k].busy[kind]) =>
         Cardinality(queue') >= MaxQueue /\ (dropped' > dropped \/ dropped' = DropCap)

LEMMA TicksDispatch ==
  ASSUME IInv, LimitsOK, BackoffOK, NEW k \in Kpz, DispatchTask(k)
  PROVE  TicksStep
<1>0. /\ TypeOK /\ stamp \in Nat /\ dropped \in Nat /\ k \in known
      /\ DropCap \in Nat /\ MaxQueue \in Nat
  BY SchedulerAssumption DEF IInv, TypeOK, ControlOK, DispatchTask
<1>1. CASE task[k].start # 1  BY <1>1 DEF DispatchTask, TicksStep, queueVars
<1>2. CASE task[k].start = 1
  <2>1. PICK s0, s1, s2 :
           /\ s0.task = task[k] /\ s0.queue = queue /\ s0.dropped = dropped
           /\ DispatchType(s0) /\ DispatchType(s1) /\ DispatchType(s2)
           /\ Dispatched(s0, s1, k, "A") /\ Dispatched(s1, s2, k, "S")
           /\ task' = [task EXCEPT ![k] = s2.task] /\ queue' = s2.queue
           /\ dropped' = MinOf(s2.dropped, DropCap)
    BY <1>0, <1>2, DispatchBoth
  <2>2. /\ task'[k] = s2.task /\ \A a \in Kpz \ {k} : task'[a] = task[a]
        /\ known \subseteq Kpz
    BY <1>0, <2>1 DEF TypeOK
  <2>3. /\ s0.task.next \in [Kinds -> Nat] /\ s1.task.next \in [Kinds -> Nat]
        /\ s1.dropped \in Nat /\ s2.dropped \in Nat
    BY <2>1 DEF DispatchType, Task
  <2>4. \A kind \in Kinds : quietUntil[k] <= task[k].next[kind]
    BY <1>0 DEF BackoffOK, IInv, PhaseOK, DispatchTask
  <2>5. ASSUME NEW j \in queue' \ queue PROVE stamp >= quietUntil[j.kpz]
    <3>1. j.kpz = k /\ (stamp >= s0.task.next["A"] \/ stamp >= s1.task.next["S"])
      BY <2>1, <2>5 DEF Dispatched
    <3>2. "A" \in Kinds /\ "S" \in Kinds /\ "A" # "S"  BY DEF Kinds
    <3>3. s1.task.next["S"] = s0.task.next["S"]  BY <2>1, <3>2 DEF Dispatched
    <3>4. quietUntil[k] \in Nat  BY <1>0 DEF TypeOK
    <3> QED BY <1>0, <2>1, <2>3, <2>4, <3>1, <3>2, <3>3, <3>4
  <2>6. /\ Cardinality(s0.queue) \in Nat /\ Cardinality(s1.queue) \in Nat /\ Cardinality(s2.queue) \in Nat
        /\ Cardinality(s0.queue) <= Cardinality(s2.queue) /\ Cardinality(s1.queue) <= Cardinality(s2.queue)
    <3>1. IsFiniteSet(s0.queue) /\ IsFiniteSet(s1.queue) /\ IsFiniteSet(s2.queue)
      BY <2>1 DEF Dispatched, LimitsOK
    <3>2. s0.queue \in SUBSET s2.queue /\ s1.queue \in SUBSET s2.queue
      BY <2>1 DEF Dispatched
    <3> QED BY <3>1, <3>2, FS_Subset, FS_CardinalityType
  <2>7. ASSUME NEW kind \in Kinds, s2.task.next[kind] # task[k].next[kind], ~s2.task.busy[kind]
        PROVE  Cardinality(queue') >= MaxQueue /\ (dropped' > dropped \/ dropped' = DropCap)
    <3>1. Cardinality(s2.queue) >= MaxQueue /\ s2.dropped > s0.dropped
      <4>1. CASE kind = "A"
        <5>1. s2.task.next["A"] = s1.task.next["A"] /\ s2.task.busy["A"] = s1.task.busy["A"]
          BY <2>1 DEF Dispatched, Kinds
        <5>2. Cardinality(s0.queue) >= MaxQueue /\ s1.dropped > s0.dropped
          BY <2>1, <2>7, <4>1, <5>1 DEF Dispatched
        <5>3. s1.dropped <= s2.dropped  BY <2>1 DEF Dispatched
        <5> QED BY <1>0, <2>1, <2>3, <2>6, <5>2, <5>3
      <4>2. CASE kind = "S"
        <5>1. s1.task.next["S"] = s0.task.next["S"]  BY <2>1 DEF Dispatched, Kinds
        <5>2. Cardinality(s1.queue) >= MaxQueue /\ s2.dropped > s1.dropped
          BY <2>1, <2>7, <4>2, <5>1 DEF Dispatched
        <5>3. s0.dropped <= s1.dropped  BY <2>1 DEF Dispatched
        <5> QED BY <1>0, <2>1, <2>3, <2>6, <5>2, <5>3
      <4> QED BY <4>1, <4>2 DEF Kinds
    <3> QED BY <1>0, <2>1, <2>3, <3>1 DEF MinOf
  <2> QED BY <2>2, <2>5, <2>7 DEF TicksStep
<1> QED BY <1>0, <1>1, <1>2 DEF TypeOK, Task

\* Only the dispatch queues jobs, and only it changes next runs while pc is there.
LEMMA TicksNext == IInv /\ LimitsOK /\ BackoffOK /\ [Next]_vars => TicksStep
<1> SUFFICES ASSUME IInv, LimitsOK, BackoffOK, [Next]_vars PROVE TicksStep  OBVIOUS
<1>1. ASSUME NEW k \in Kpz, DispatchTask(k) PROVE TicksStep  BY <1>1, TicksDispatch
<1>2. ASSUME queue' \subseteq queue, pc # "dispatch" \/ task' = task PROVE TicksStep
  BY <1>2 DEF TicksStep
<1>3. CASE \/ Elapse \/ CtrlC \/ (\E k \in Kpz, r \in Row \cup {NoRow} : EditKpz(k, r)) \/ EditProtocol
           \/ WaitTick \/ LeaveLoop \/ (\E ok \in BOOLEAN : Finish(ok))
           \/ (\E c \in Cfgs \cup {cfg} : SyncRuntime(c)) \/ SyncFingerprint \/ SyncLoad
           \/ SyncFail \/ (\E k \in Kpz : DispatchFull(k)) \/ DispatchDone
           \/ SpawnDone \/ DrainDone \/ PersistFail \/ (\E w \in workers : Join(w))
           \/ (\E w \in workers, outcome \in Outcomes : WorkerEnds(w, outcome))
           \/ (\E j \in queue : Spawn(j)) \/ Ended \/ UNCHANGED vars
  <2>1. queue' \subseteq queue /\ task' = task
    BY <1>3 DEF Elapse, CtrlC, EditKpz, EditProtocol, WaitTick, LeaveLoop, Finish, SyncRuntime,
         SyncFingerprint, SyncLoad, SyncFail, DispatchFull, DispatchDone, SpawnDone, DrainDone,
         PersistFail, Join, WorkerEnds, Spawn, Ended, vars, taskVars, queueVars
  <2> QED BY <1>2, <2>1
<1>4. CASE (\E k \in Kpz : SyncRow(k)) \/ SyncDone \/ Merge
  <2>1. queue' \subseteq queue /\ pc # "dispatch"
    BY <1>4 DEF SyncRow, SyncDone, Merge, queueVars
  <2> QED BY <1>2, <2>1
<1> QED BY <1>1, <1>3, <1>4 DEF Next, Loop, WorkerStep

\* No job is queued while its KPZ keeps quiet after a series of timeouts, and a
\* due tick is lost only to a full queue, and counted (worker.rs 662-691,
\* queue.rs 162-195).
THEOREM TicksAreAccounted == Spec => TicksAccounted
<1>1. Init => BackoffOK
  BY DEF Init, BackoffOK, InFlight, Persisting, NoTask
<1>2. Init => LimitsOK  BY FS_EmptySet, Bounds, SchedulerAssumption DEF Init, LimitsOK
<1>3. TicksStep => [/\ \A j \in queue' \ queue : stamp >= quietUntil[j.kpz]
                    /\ \A k \in known, kind \in Kinds :
                         (pc = "dispatch" /\ task'[k].next[kind] # task[k].next[kind] /\ ~task'[k].busy[kind]) =>
                           Cardinality(queue') >= MaxQueue /\ (dropped' > dropped \/ dropped' = DropCap)]_vars
  BY DEF TicksStep
<1> QED BY <1>1, <1>2, <1>3, Safe, LimitsNext, BackoffNext, TicksNext, PTL DEF Spec, TicksAccounted
=============================================================================
