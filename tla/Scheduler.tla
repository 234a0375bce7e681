------------------------------ MODULE Scheduler ------------------------------
(***************************************************************************)
(* The main loop of the ss4 SCADA server (src/ss4/src/scheduler.rs and     *)
(* scheduler/{queue,worker,merge,state_sync}.rs): one task per controller  *)
(* ("KPZ"), polled in two modes, A and S(cript).                           *)
(*                                                                         *)
(* Every turn of the loop waits for a tick, synchronises the runtime       *)
(* settings and the table of KPZ with the database, puts the jobs that are *)
(* due into a bounded queue and drains that queue with a pool of           *)
(* concurrent workers.  A worker owns a snapshot of its KPZ; its result is *)
(* handed to the database writer and only then merged back.                *)
(*                                                                         *)
(* Exchange with a device is abstracted to its outcome, a KPZ row to the   *)
(* columns the scheduler branches on.  Time is counted in seconds.         *)
(***************************************************************************)
EXTENDS Integers, FiniteSets

CONSTANTS
  Kpz,             \* ids of the controllers
  Groups,          \* ids of register groups
  NoGroup,         \* what an empty group mask of a row decodes to
  NoRow,           \* no row of that id in the table kpz
  NoWorker,        \* no result is being persisted
  Periods,         \* polling periods as the table kpz holds them
  PeriodCap,       \* upper limit of clamp_period: 3600 in the code
  Phase,           \* hash of phase_offset, per KPZ and job kind
  Cfgs,            \* values of the scheduler settings kept in the database
  PoolSize,        \* Scheduler.pool_size
  MaxInflight,     \* Scheduler.max_inflight
  MaxQueue,        \* Scheduler.max_queue
  SyncPeriod,      \* Scheduler.sync_period_sec
  TopologyPeriod,  \* 30 s in the code
  StreakMax,       \* the streak is a saturating u8: 255 in the code
  DropCap,         \* bound of the model on the counter of dropped ticks
  MaxTime,         \* bound of the model on the clock
  MaxEdits         \* bound of the model on edits of the database

Kinds    == {"A", "S"}
Outcomes == {"exchanged",   \* Ok after an exchange with the device
             "skipped",     \* Ok with nothing sent
             "timeout",     \* Err whose text says timeout
             "error",       \* any other Err, build_conn's included
             "panic"}       \* the worker task panicked

Row  == [start : {0, 1}, group : Groups \cup {NoGroup}, period : [Kinds -> Periods]]
Cfg  == [failures : 1 .. StreakMax, backoff : Nat \ {0}]
Task == [start : {0, 1}, group : Groups \cup {NoGroup}, period : [Kinds -> Int],
         generation : Nat, next : [Kinds -> Nat], busy : [Kinds -> BOOLEAN]]
Job  == [seq : Nat, kpz : Kpz, kind : Kinds]
Worker == [kpz : Kpz, kind : Kinds, generation : Nat, protocol : Nat,
           next : [Kinds -> Nat], busy : [Kinds -> BOOLEAN],
           streak : 0 .. StreakMax, cfg : Cfg, status : Outcomes \cup {"running"}]

ASSUME SchedulerAssumption ==
  /\ IsFiniteSet(Kpz)
  /\ NoRow \notin Row
  /\ NoWorker \notin Worker
  /\ Periods \subseteq Int
  /\ PeriodCap \in Nat \ {0}
  /\ Phase \in [Kpz -> [Kinds -> Nat]]
  /\ StreakMax \in Nat \ {0}
  /\ Cfgs \subseteq Cfg
  /\ Cfgs # {}
  /\ PoolSize \in Nat \ {0} /\ MaxInflight \in Nat \ {0} /\ MaxQueue \in Nat \ {0}
  /\ SyncPeriod \in Nat \ {0} /\ TopologyPeriod \in Nat \ {0}
  /\ DropCap \in Nat \ {0} /\ MaxTime \in Nat /\ MaxEdits \in Nat

VARIABLES
  pc,            \* where run_with_shutdown is
  now,           \* the monotonic clock
  shutdown,      \* the watch channel set by Ctrl+C
  rows,          \* the table kpz of the database
  rev,           \* revision of the table kpz (what its updated_at shows)
  protoRev,      \* revision of the register, script and binding tables
  cfg,           \* no_response_failures and no_response_backoff_sec in use
  fingerprint,   \* last_topology_fingerprint; -1 before the first sync
  reading,       \* fingerprint read by the sync in progress
  loaded,        \* the kpz rows that sync loaded
  stamp,         \* the last Instant::now() of the loop
  nextRuntime, nextTopology,
  todo,          \* KPZ that the loop over rows or over tasks has yet to visit
  known,         \* keys of SchedulerState.tasks
  task,          \* SchedulerState.tasks; meaningful for k \in known
  streak,        \* no_resp_streak_by_kpz; 0 stands for no entry
  protocolGeneration,
  queue,         \* JobQueue.jobs_by_seq
  nextSeq,       \* JobQueue.next_seq
  dropped,       \* dropped_backpressure
  workers,       \* the JoinSet: tasks running, or finished and not joined
  joined,        \* the result being persisted, or NoWorker
  quietUntil     \* history: end of the last backoff of each KPZ

dbVars    == <<rows, rev, protoRev>>
syncVars  == <<cfg, fingerprint, reading, loaded, stamp, nextRuntime, nextTopology, todo>>
taskVars  == <<known, task, streak, protocolGeneration>>
queueVars == <<queue, nextSeq, dropped>>
poolVars  == <<workers, joined>>
vars == <<pc, now, shutdown, dbVars, syncVars, taskVars, queueVars, poolVars, quietUntil>>

-----------------------------------------------------------------------------
(* Helpers *)

MinOf(a, b) == IF a < b THEN a ELSE b
MaxOf(a, b) == IF a > b THEN a ELSE b

EffectivePool == MinOf(PoolSize, MaxOf(MaxInflight, 1))

Clamp(n)     == IF n <= 0 THEN 0 ELSE MinOf(n, PeriodCap)
Effective(n) == MaxOf(n, 1)

Clamped(period) == [kind \in Kinds |-> Clamp(period[kind])]

PhaseOffset(n, k, kind) == Phase[k][kind] % Effective(n)

Idle == [kind \in Kinds |-> FALSE]

FirstRun(period, k, t) == [kind \in Kinds |-> t + PhaseOffset(period[kind], k, kind)]

NoTask == [start |-> 0, group |-> NoGroup,
           period |-> [kind \in Kinds |-> 0],
           generation |-> 0, next |-> [kind \in Kinds |-> 0], busy |-> Idle]

\* Keys of running_kpz in the drain loop.
RunningKpz == {w.kpz : w \in workers}

-----------------------------------------------------------------------------
(* The environment: the clock, Ctrl+C and the users who edit the database. *)

Terminal == pc \in {"stopped", "failed"}

Elapse ==
  /\ ~Terminal
  /\ now < MaxTime
  /\ now' = now + 1
  /\ UNCHANGED <<pc, shutdown, dbVars, syncVars, taskVars, queueVars, poolVars, quietUntil>>

CtrlC ==
  /\ ~Terminal
  /\ ~shutdown
  /\ shutdown' = TRUE
  /\ UNCHANGED <<pc, now, dbVars, syncVars, taskVars, queueVars, poolVars, quietUntil>>

EditKpz(k, r) ==
  /\ ~Terminal
  /\ rev + protoRev < MaxEdits
  /\ rows[k] # r
  /\ rows' = [rows EXCEPT ![k] = r]
  /\ rev' = rev + 1
  /\ UNCHANGED <<pc, now, shutdown, protoRev, syncVars, taskVars, queueVars, poolVars, quietUntil>>

EditProtocol ==
  /\ ~Terminal
  /\ rev + protoRev < MaxEdits
  /\ protoRev' = protoRev + 1
  /\ UNCHANGED <<pc, now, shutdown, rows, rev, syncVars, taskVars, queueVars, poolVars, quietUntil>>

-----------------------------------------------------------------------------
(* The turn of the loop up to dispatch. *)

\* Mutant: the tick wins over a shutdown.
GoesOnAlways == TRUE

GoesOn == ~shutdown

\* wait_for_tick_or_shutdown: a shutdown already signalled wins.
WaitTick ==
  /\ pc = "tick"
  /\ GoesOn
  /\ pc' = "runtime"
  /\ stamp' = now
  /\ UNCHANGED <<now, shutdown, dbVars, cfg, fingerprint, reading, loaded, nextRuntime,
                 nextTopology, todo, taskVars, queueVars, poolVars, quietUntil>>

LeaveLoop ==
  /\ pc = "tick"
  /\ shutdown
  /\ pc' = "finish"
  /\ UNCHANGED <<now, shutdown, dbVars, syncVars, taskVars, queueVars, poolVars, quietUntil>>

\* db_writer.finish().await?
Finish(ok) ==
  /\ pc = "finish"
  /\ pc' = IF ok THEN "stopped" ELSE "failed"
  /\ UNCHANGED <<now, shutdown, dbVars, syncVars, taskVars, queueVars, poolVars, quietUntil>>

SyncRuntime(c) ==
  /\ pc = "runtime"
  /\ pc' = "topology"
  /\ IF stamp >= nextRuntime
       THEN /\ nextRuntime' = stamp + SyncPeriod
            /\ cfg' = c
       ELSE /\ c = cfg
            /\ UNCHANGED <<nextRuntime, cfg>>
  /\ UNCHANGED <<now, shutdown, dbVars, fingerprint, reading, loaded, stamp, nextTopology, todo,
                 taskVars, queueVars, poolVars, quietUntil>>

\* dispatch_due_work starts: it takes the time and will visit every task.
GoDispatch(tasks) ==
  /\ pc' = "dispatch"
  /\ stamp' = now
  /\ todo' = tasks

\* The fingerprint is read first; the rows are read by later statements.
SyncFingerprint ==
  /\ pc = "topology"
  /\ LET seen == [kpz |-> rev, protocol |-> protoRev] IN
     IF stamp >= nextTopology
       THEN /\ nextTopology' = stamp + TopologyPeriod
            /\ IF seen = fingerprint
                 THEN /\ GoDispatch(known)
                      /\ UNCHANGED reading
                 ELSE /\ pc' = "load"
                      /\ reading' = seen
                      /\ UNCHANGED <<todo, stamp>>
       ELSE /\ GoDispatch(known)
            /\ UNCHANGED <<nextTopology, reading>>
  /\ UNCHANGED <<now, shutdown, dbVars, cfg, fingerprint, loaded, nextRuntime,
                 taskVars, queueVars, poolVars, quietUntil>>

KpzChanged == reading.kpz # fingerprint.kpz

SyncLoad ==
  /\ pc = "load"
  /\ pc' = "rows"
  /\ loaded' = rows
  /\ stamp' = now
  /\ todo' = IF KpzChanged THEN {k \in Kpz : rows[k] # NoRow} ELSE {}
  /\ protocolGeneration' = IF reading.protocol # fingerprint.protocol
                             THEN protocolGeneration + 1 ELSE protocolGeneration
  /\ UNCHANGED <<now, shutdown, dbVars, cfg, fingerprint, reading, nextRuntime,
                 nextTopology, known, task, streak, queueVars, poolVars, quietUntil>>

\* The task a row makes of the task k had, before on_kpz_start and on_kpz_stop.
\* A new task keeps the periods of the row as they are; an old one gets them
\* normalised.
Synced(k, r) ==
  IF k \notin known
    THEN [start |-> r.start, group |-> r.group, period |-> r.period, generation |-> 1,
          next |-> FirstRun(Clamped(r.period), k, stamp), busy |-> Idle]
    ELSE [task[k] EXCEPT
            !.start = r.start, !.group = r.group, !.period = Clamped(r.period),
            !.generation = IF \/ task[k].start # r.start
                              \/ task[k].group # r.group
                              \/ task[k].period # Clamped(r.period)
                             THEN @ + 1 ELSE @]

\* on_kpz_start reschedules the task, on_kpz_stop only takes its flags away.
Restarted(t, k) ==
  [t EXCEPT !.generation = @ + 1, !.busy = Idle, !.next = FirstRun(t.period, k, stamp)]
Stopped(t) == [t EXCEPT !.generation = @ + 1, !.busy = Idle]

NeedOnStart(k, r) == r.start = 1 /\ (k \in known => task[k].start = 0)
NeedOnStop(k, r)  == r.start = 0 /\ k \in known /\ task[k].start = 1

\* A row with an empty group mask is seen, so its task is not removed, but it
\* is not applied either.
SyncRow(k) ==
  /\ pc = "rows"
  /\ k \in todo
  /\ todo' = todo \ {k}
  /\ LET r == loaded[k] IN
     IF r.group = NoGroup
       THEN UNCHANGED <<known, task, streak, queue, quietUntil>>
       ELSE /\ known' = known \cup {k}
            /\ task' = [task EXCEPT ![k] =
                          IF NeedOnStart(k, r) THEN Restarted(Synced(k, r), k)
                          ELSE IF NeedOnStop(k, r) THEN Stopped(Synced(k, r))
                          ELSE Synced(k, r)]
            /\ IF NeedOnStart(k, r) \/ NeedOnStop(k, r)
                 THEN /\ queue' = {j \in queue : j.kpz # k}
                      /\ streak' = [streak EXCEPT ![k] = 0]
                      /\ quietUntil' = [quietUntil EXCEPT ![k] = 0]
                 ELSE UNCHANGED <<queue, streak, quietUntil>>
  /\ UNCHANGED <<pc, now, shutdown, dbVars, cfg, fingerprint, reading, loaded, stamp, nextRuntime,
                 nextTopology, protocolGeneration, nextSeq, dropped, poolVars>>

\* Mutant: the state of the database when the rows are applied.
SyncedFingerprintLate == [kpz |-> rev, protocol |-> protoRev]

\* What the next synchronisation compares with: read before the rows were.
SyncedFingerprint == reading

\* Removal of the tasks whose row is gone; last_topology_fingerprint is set.
SyncDone ==
  /\ pc = "rows"
  /\ todo = {}
  /\ LET missing == IF KpzChanged THEN {k \in known : loaded[k] = NoRow} ELSE {} IN
     /\ known' = known \ missing
     /\ GoDispatch(known \ missing)
     /\ task' = [k \in Kpz |-> IF k \in missing THEN NoTask ELSE task[k]]
     /\ streak' = [k \in Kpz |-> IF k \in missing THEN 0 ELSE streak[k]]
     /\ quietUntil' = [k \in Kpz |-> IF k \in missing THEN 0 ELSE quietUntil[k]]
  /\ fingerprint' = SyncedFingerprint
  /\ UNCHANGED <<now, shutdown, dbVars, cfg, reading, loaded, nextRuntime, nextTopology,
                 protocolGeneration, queueVars, poolVars>>

\* Any statement of the two synchronisations may fail; the error ends the loop.
SyncFail ==
  /\ \/ pc = "runtime" /\ stamp >= nextRuntime
     \/ pc = "topology" /\ stamp >= nextTopology
     \/ pc \in {"load", "rows"}
  /\ pc' = "failed"
  /\ UNCHANGED <<now, shutdown, dbVars, syncVars, taskVars, queueVars, poolVars, quietUntil>>

-----------------------------------------------------------------------------
(* dispatch_due_work: one step per task, in the order of a hash map. *)

Push(q, seq, k, kind) == q \cup {[seq |-> seq, kpz |-> k, kind |-> kind]}

\* next_a or next_script advanced past the stamp, and how many ticks it passed.
DueTicks(t, kind)  == (stamp - t.next[kind]) \div Effective(t.period[kind]) + 1
NextAfter(t, kind) == t.next[kind] + Effective(t.period[kind]) * DueTicks(t, kind)

\* Mutants: room for one job too many; a late tick counted one short.
HasRoomForOneMore(q) == Cardinality(q) <= MaxQueue
LostTicksShort(t, kind, queued) == DueTicks(t, kind) - 1

HasRoom(q) == Cardinality(q) < MaxQueue
LostTicks(t, kind, queued) == IF queued THEN DueTicks(t, kind) - 1 ELSE DueTicks(t, kind)

\* One of the two halves of the loop body; s holds what the loop mutates.
DispatchKind(s, k, kind) ==
  IF s.task.busy[kind] \/ stamp < s.task.next[kind]
    THEN s
  ELSE IF HasRoom(s.queue)
    THEN [task    |-> [s.task EXCEPT !.next[kind] = NextAfter(s.task, kind),
                                     !.busy[kind] = TRUE],
          queue   |-> Push(s.queue, s.nextSeq, k, kind),
          nextSeq |-> s.nextSeq + 1,
          dropped |-> s.dropped + LostTicks(s.task, kind, TRUE)]
  ELSE [s EXCEPT !.task = [s.task EXCEPT !.next[kind] = NextAfter(s.task, kind)],
                 !.dropped = @ + LostTicks(s.task, kind, FALSE)]

DispatchTask(k) ==
  /\ pc = "dispatch"
  /\ k \in todo
  /\ HasRoom(queue)
  /\ todo' = todo \ {k}
  /\ IF task[k].start # 1
       THEN UNCHANGED <<task, queueVars>>
       ELSE LET s0 == [task |-> task[k], queue |-> queue, nextSeq |-> nextSeq, dropped |-> dropped]
                s2 == DispatchKind(DispatchKind(s0, k, "A"), k, "S")
            IN  /\ task' = [task EXCEPT ![k] = s2.task]
                /\ queue' = s2.queue
                /\ nextSeq' = s2.nextSeq
                /\ dropped' = MinOf(s2.dropped, DropCap)
  /\ UNCHANGED <<pc, now, shutdown, dbVars, cfg, fingerprint, reading, loaded, stamp, nextRuntime,
                 nextTopology, known, streak, protocolGeneration, poolVars, quietUntil>>

\* The queue is full at the head of the loop body: the other tasks wait for
\* the next turn.
DispatchFull(k) ==
  /\ pc = "dispatch"
  /\ k \in todo
  /\ ~HasRoom(queue)
  /\ todo' = {}
  /\ dropped' = MinOf(dropped + 1, DropCap)
  /\ UNCHANGED <<pc, now, shutdown, dbVars, cfg, fingerprint, reading, loaded, stamp, nextRuntime,
                 nextTopology, taskVars, queue, nextSeq, poolVars, quietUntil>>

\* drain_worker_results_inner returns at once when the queue is empty.
DispatchDone ==
  /\ pc = "dispatch"
  /\ todo = {}
  /\ pc' = IF queue = {} THEN "tick" ELSE "spawn"
  /\ UNCHANGED <<now, shutdown, dbVars, syncVars, taskVars, queueVars, poolVars, quietUntil>>

-----------------------------------------------------------------------------
(* drain_worker_results_inner: spawn what fits, join one, persist, merge,   *)
(* spawn again.                                                              *)

\* Mutant: the oldest job, whoever runs.
SpawnableAny(j) ==
  /\ j \in queue
  /\ \A i \in queue : j.seq <= i.seq

\* pop_next_spawnable: the oldest job whose KPZ is not running.
Spawnable(j) ==
  /\ j \in queue
  /\ j.kpz \notin RunningKpz
  /\ \A i \in queue : i.kpz \notin RunningKpz => j.seq <= i.seq

\* build_worker_ctx_for_kpz: the snapshot the worker owns.
Snapshot(j) ==
  [kpz |-> j.kpz, kind |-> j.kind, generation |-> task[j.kpz].generation,
   protocol |-> protocolGeneration, next |-> task[j.kpz].next, busy |-> task[j.kpz].busy,
   streak |-> streak[j.kpz], cfg |-> cfg, status |-> "running"]

\* A job whose task is gone is dropped without a word.
Spawn(j) ==
  /\ pc = "spawn"
  /\ Cardinality(workers) < EffectivePool
  /\ Spawnable(j)
  /\ queue' = queue \ {j}
  /\ workers' = IF j.kpz \in known THEN workers \cup {Snapshot(j)} ELSE workers
  /\ UNCHANGED <<pc, now, shutdown, dbVars, syncVars, taskVars, nextSeq, dropped, joined, quietUntil>>

SpawnDone ==
  /\ pc = "spawn"
  /\ \/ Cardinality(workers) >= EffectivePool
     \/ \A j \in queue : j.kpz \in RunningKpz
  /\ pc' = "drain"
  /\ UNCHANGED <<now, shutdown, dbVars, syncVars, taskVars, queueVars, poolVars, quietUntil>>

\* Mutant: only the job that timed out waits.
PushedBackOne(w, until) == [w.next EXCEPT ![w.kind] = MaxOf(@, until)]

StreakUp(n) == MinOf(n + 1, StreakMax)
PushedBack(w, until) == [kind \in Kinds |-> MaxOf(w.next[kind], until)]

\* mark_no_response_and_backoff, on the snapshot.
NoResponse(w) ==
  LET n == StreakUp(w.streak)
  IN  [w EXCEPT !.streak = n,
                !.next = IF n < w.cfg.failures THEN @
                         ELSE PushedBack(w, now + w.cfg.backoff)]

\* Mutant: a script job forgets its flag.
ReleasedA(w) == IF w.kind = "A" THEN [w.busy EXCEPT !["A"] = FALSE] ELSE w.busy

Released(w) == [w.busy EXCEPT ![w.kind] = FALSE]

\* What run_job leaves in the snapshot for an outcome.  Any Ok clears the streak.
Ran(w, outcome) ==
  LET v == CASE outcome \in {"exchanged", "skipped"} -> [w EXCEPT !.streak = 0]
             [] outcome = "timeout"                  -> NoResponse(w)
             [] OTHER                                -> w
  IN  [v EXCEPT !.status = outcome, !.busy = Released(w)]

\* Workers run on their own: a worker may end while the loop spawns others,
\* waits, or persists another result.
WorkerEnds(w, outcome) ==
  /\ w \in workers
  /\ w.status = "running"
  /\ workers' = (workers \ {w}) \cup {Ran(w, outcome)}
  /\ quietUntil' = IF outcome = "timeout" /\ Ran(w, outcome).streak >= w.cfg.failures
                     THEN [quietUntil EXCEPT ![w.kpz] = now + w.cfg.backoff]
                     ELSE quietUntil
  /\ UNCHANGED <<pc, now, shutdown, dbVars, syncVars, taskVars, queueVars, joined>>

\* join_next; a panicked worker is a JoinError, which ends the scheduler.
Join(w) ==
  /\ pc = "drain"
  /\ w \in workers
  /\ w.status # "running"
  /\ IF w.status = "panic"
       THEN /\ pc' = "failed"
            /\ workers' = {}
            /\ UNCHANGED joined
       ELSE /\ pc' = "persist"
            /\ workers' = workers \ {w}
            /\ joined' = w
  /\ UNCHANGED <<now, shutdown, dbVars, syncVars, taskVars, queueVars, quietUntil>>

\* db_sink.persist(db_delta).await? failed: the delta is not merged and the
\* workers that are left are aborted with their JoinSet.
PersistFail ==
  /\ pc = "persist"
  /\ pc' = "failed"
  /\ workers' = {}
  /\ joined' = NoWorker
  /\ UNCHANGED <<now, shutdown, dbVars, syncVars, taskVars, queueVars, quietUntil>>

MergeMatches(w) ==
  /\ w.kpz \in known
  /\ w.generation = task[w.kpz].generation
  /\ w.protocol = protocolGeneration

\* Mutant: no second filling of the pool.
AfterMergeJoin == "drain"

\* The pool is filled again before the next join.
AfterMerge == "spawn"

\* persist succeeded; complete_worker_merge follows without a pause.
Merge ==
  /\ pc = "persist"
  /\ pc' = AfterMerge
  /\ joined' = NoWorker
  /\ LET w == joined IN
     IF MergeMatches(w)
       THEN /\ task' = [task EXCEPT ![w.kpz] = [@ EXCEPT !.next = w.next, !.busy = w.busy]]
            /\ streak' = [streak EXCEPT ![w.kpz] = w.streak]
       ELSE UNCHANGED <<task, streak>>
  /\ UNCHANGED <<now, shutdown, dbVars, syncVars, known, protocolGeneration, queueVars,
                 workers, quietUntil>>

\* Mutant: the turn ends with the queue, whoever still runs.
DrainedQueue == queue = {}

Drained == workers = {}

\* Nobody runs: the turn is over.  The numbers of the queue are only compared
\* with each other, so the model starts them again.
DrainDone ==
  /\ pc = "drain"
  /\ Drained
  /\ pc' = "tick"
  /\ nextSeq' = 0
  /\ UNCHANGED <<now, shutdown, dbVars, syncVars, taskVars, queue, dropped, poolVars, quietUntil>>

\* The process has ended.
Ended ==
  /\ Terminal
  /\ UNCHANGED vars

-----------------------------------------------------------------------------
Init ==
  /\ pc = "tick" /\ now = 0 /\ shutdown = FALSE
  /\ rows \in [Kpz -> Row \cup {NoRow}] /\ rev = 0 /\ protoRev = 0
  /\ cfg \in Cfgs
  /\ fingerprint = [kpz |-> -1, protocol |-> -1] /\ reading = fingerprint
  /\ loaded = [k \in Kpz |-> NoRow]
  /\ stamp = 0 /\ nextRuntime = 0 /\ nextTopology = 0 /\ todo = {}
  /\ known = {} /\ task = [k \in Kpz |-> NoTask]
  /\ streak = [k \in Kpz |-> 0] /\ protocolGeneration = 0
  /\ queue = {} /\ nextSeq = 0 /\ dropped = 0
  /\ workers = {} /\ joined = NoWorker
  /\ quietUntil = [k \in Kpz |-> 0]

\* What the loop itself does.
Loop ==
  \/ WaitTick \/ LeaveLoop
  \/ \E ok \in BOOLEAN : Finish(ok)
  \/ \E c \in Cfgs \cup {cfg} : SyncRuntime(c)
  \/ SyncFingerprint \/ SyncLoad
  \/ \E k \in Kpz : SyncRow(k)
  \/ SyncDone \/ SyncFail
  \/ \E k \in Kpz : DispatchTask(k) \/ DispatchFull(k)
  \/ DispatchDone
  \/ \E j \in queue : Spawn(j)
  \/ SpawnDone
  \/ \E w \in workers : Join(w)
  \/ PersistFail \/ Merge \/ DrainDone

WorkerStep(k) == \E w \in workers, outcome \in Outcomes : w.kpz = k /\ WorkerEnds(w, outcome)

Next ==
  \/ Elapse
  \/ CtrlC
  \/ \E k \in Kpz, r \in Row \cup {NoRow} : EditKpz(k, r)
  \/ EditProtocol
  \/ Loop
  \/ \E k \in Kpz : WorkerStep(k)
  \/ Ended

Spec == Init /\ [][Next]_vars

\* The loop is a tokio task that is polled while it can proceed, and run_job
\* ends by the time limits of its requests; Ctrl+C, edits and errors are owed to
\* nobody.  That a job ends is a fact about its requests (RequestReturns of
\* Transport) and an assumption about its scripts: the parser does not return for
\* some texts (run script_parse), and a worker that is given one never ends.
Fairness == WF_vars(Loop) /\ \A k \in Kpz : WF_vars(WorkerStep(k))
FairSpec == Spec /\ Fairness

-----------------------------------------------------------------------------
(* Properties *)

Persisting == IF joined = NoWorker THEN {} ELSE {joined}
InFlight   == workers \cup Persisting

TypeOK ==
  /\ pc \in {"tick", "runtime", "topology", "load", "rows", "dispatch", "spawn", "drain",
             "persist", "finish", "stopped", "failed"}
  /\ now \in Nat /\ shutdown \in BOOLEAN
  /\ rows \in [Kpz -> Row \cup {NoRow}] /\ rev \in Nat /\ protoRev \in Nat
  /\ cfg \in Cfg
  /\ fingerprint \in [kpz : Int, protocol : Int] /\ reading \in [kpz : Int, protocol : Int]
  /\ loaded \in [Kpz -> Row \cup {NoRow}]
  /\ stamp \in Nat /\ nextRuntime \in Nat /\ nextTopology \in Nat
  /\ todo \subseteq Kpz /\ known \subseteq Kpz
  /\ task \in [Kpz -> Task]
  /\ streak \in [Kpz -> 0 .. StreakMax]
  /\ protocolGeneration \in Nat
  /\ queue \subseteq Job /\ nextSeq \in Nat /\ dropped \in Nat
  /\ workers \subseteq Worker
  /\ joined \in Worker \cup {NoWorker}
  /\ quietUntil \in [Kpz -> Nat]

\* The loop variables fit the place the loop is at.
ControlOK ==
  /\ pc = "rows" => \A k \in todo : loaded[k] # NoRow
  /\ pc = "dispatch" => todo \subseteq known
  /\ pc = "persist" <=> joined # NoWorker

Queued(k, kind)  == \E j \in queue : j.kpz = k /\ j.kind = kind
Owned(k, kind)   == \E w \in InFlight : w.kpz = k /\ w.kind = kind

\* The drain is a barrier: whenever the loop waits, synchronises or ends
\* cleanly, no job is queued, no worker runs and no result is unmerged
\* (scheduler.rs 120-160, worker.rs 225-304).  The generation guards of the
\* merge rest on it.
DrainIsBarrier ==
  pc \in {"tick", "runtime", "topology", "load", "rows", "finish", "stopped"} =>
    queue = {} /\ InFlight = {}

\* A busy flag is up exactly while its job is queued, running or waiting to
\* be merged: a flag left up would silence the KPZ for good, a flag taken
\* down early would run the job twice (queue.rs 146-198, worker.rs 694-765).
BusyIffPending ==
  pc # "failed" =>
    \A k \in known, kind \in Kinds : task[k].busy[kind] <=> Queued(k, kind) \/ Owned(k, kind)

\* No two workers share a KPZ, and no job is pending twice, whatever order
\* results are joined in (queue.rs 65-86, worker.rs 258-300).
OneOwner ==
  /\ \A v, w \in InFlight : v.kpz = w.kpz => v = w
  /\ \A i, j \in queue : i.kpz = j.kpz /\ i.kind = j.kind => i = j
  /\ \A k \in Kpz, kind \in Kinds : ~(Queued(k, kind) /\ Owned(k, kind))

\* Nothing changed a task since the snapshot of its worker was taken, so a
\* merge never writes back an old value and never drops a delta
\* (worker.rs 326-421, merge.rs 13-75).
SnapshotCurrent ==
  \A w \in InFlight :
    /\ MergeMatches(w)
    /\ \A kind \in Kinds :
         /\ task[w.kpz].next[kind] <= w.next[kind]
         /\ w.busy[kind] <=> task[w.kpz].busy[kind] /\ (kind = w.kind => w.status = "running")
    /\ w.status = "running" => w.next = task[w.kpz].next /\ w.streak = streak[w.kpz]

\* The inductive invariant behind the four properties above.
PhaseOK ==
  /\ pc = "dispatch" => InFlight = {}
  /\ pc = "drain" => (workers = {} => queue = {})
  /\ joined # NoWorker => joined.status # "running"
  /\ joined \notin workers
  /\ \A j \in queue : j.kpz \in known

IInv ==
  /\ TypeOK /\ ControlOK /\ PhaseOK
  /\ DrainIsBarrier /\ BusyIffPending /\ OneOwner /\ SnapshotCurrent

\* The pool never exceeds min(pool_size, max_inflight), the queue max_queue.
WithinLimits ==
  /\ TypeOK
  /\ Cardinality(workers) <= EffectivePool
  /\ Cardinality(queue) <= MaxQueue

\* When the scheduler believes its topology current and nothing was edited
\* since, every task with a group has the start flag and the group of its row
\* and every task without a row is gone (state_sync.rs 164-370): an edit that
\* lands between the fingerprint and the rows is not lost.
SyncedMeansCurrent ==
  (pc = "tick" /\ fingerprint = [kpz |-> rev, protocol |-> protoRev]) =>
    \A k \in Kpz :
      IF rows[k] = NoRow THEN k \notin known
      ELSE rows[k].group # NoGroup =>
             k \in known /\ task[k].start = rows[k].start /\ task[k].group = rows[k].group

\* What the dispatch makes of the ticks.  No job of a KPZ is queued before the
\* backoff of its last series of timeouts is over, unless the KPZ was stopped,
\* started or removed: the merge of the other mode's job never takes the backoff
\* back (worker.rs 662-691).  A due tick that gives no job is lost only to a full
\* queue, and counted (queue.rs 162-195).
TicksAccounted ==
  [][/\ \A j \in queue' \ queue : stamp >= quietUntil[j.kpz]
     /\ \A k \in known, kind \in Kinds :
          (pc = "dispatch" /\ task'[k].next[kind] # task[k].next[kind] /\ ~task'[k].busy[kind]) =>
            Cardinality(queue') >= MaxQueue /\ (dropped' > dropped \/ dropped' = DropCap)]_vars

\* Every job that is queued is done and its flag taken down, or the scheduler
\* has failed: no KPZ is starved inside a drain, as long as every job that runs
\* ends, for which see Fairness.
PendingCompletes ==
  \A k \in Kpz, kind \in Kinds :
    Queued(k, kind) ~> (~Queued(k, kind) /\ ~Owned(k, kind)) \/ pc = "failed"

\* Ctrl+C ends the process even when it arrives in the middle of a drain, once
\* the jobs under way have ended.
ShutdownEnds == shutdown ~> Terminal
=============================================================================
