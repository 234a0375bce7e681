# Formal models of the SCADA system

TLA+ models of the programs in this repository, checked with TLC on small
instances and, for the core of the server, the writes to devices and the configurator,
proved with TLAPS for every instance. The core
of the work is **ss4**, the server that polls controllers over UDP and archives
what it reads; **ss5** (operator station), **ss6** (web) and **ss7**
(configurator) work on the same database and talk to the same devices; **im1**
simulates a device.

`PROJECT.json` is the machine-readable index: components, runs, mutants,
the source lines behind each definition (`map`), hazards, findings, theorems.

```
tlc -workers 2 -config MCScheduler_core.cfg MCScheduler    # any run
tlapm SchedulerProofs.tla                                   # any *Proofs module
```

## 1. Inventory

### ss4: the server

A *KPZ* is a controller behind an IP endpoint with a modem number; it has groups
of registers. Each KPZ has two jobs: the **A** job polls current values, the
**S** job reads the controller's archives under the direction of scripts.

| part | state it keeps | operations |
|---|---|---|
| scheduler loop (`scheduler.rs`, `scheduler/{worker,merge,state_sync}.rs`) | tasks with their next runs, busy flags and generations; no-response streaks; caches by KPZ; the topology fingerprint | wait for tick, sync runtime config, sync topology, dispatch, spawn, join, persist, merge, shut down |
| job queue (`queue.rs`) | jobs by sequence number, sequence numbers by KPZ, the ready heads | push_back, pop_next_spawnable, retain |
| database writer (`db_writer.rs`, `db_delta.rs`, `merge.rs`) | a bounded channel of deltas, the batch being collected | enqueue, collect, flush in statements, finish |
| UDP transport (`udp_transport.rs`, `modbus_service.rs`) | pending requests by key, packet-id and dsr allocators | send, receive task, clean-up task |
| poll planning (`poll_plan.rs`) | none | registers of a group to reads and blocks |
| A-mode (`amode.rs`, `modbus.rs`) | a worker's copies of cached values, primed set and force flags | exchange in chunks, decode, archive what changed |
| alarms (`alarm.rs`, `support.rs`) | active, condition and its beginning, per rule | evaluate, hooks, merge, reload from `alarm_state` |
| S-mode (`smode.rs`, `rv_state.rs`) | script variables, index quality, archive indexes | PRE script, exchange, POST script, emit, write back |
| script language (`script.rs`) | instructions, stack, variables of a run | parse, compile, collect keys, run |
| script cache (`script_cache.rs`) | templates by group and version, plans by KPZ | look up, copy, merge, invalidate |
| metrics, MQTT, Telegram | counters; bounded queues | count and alert; publish or drop |

How they interact: one tokio task runs the loop. In a turn it drains the queue
with a pool of concurrent worker tasks; a worker owns *copies* of all it needs
and returns a delta; the loop hands the delta's rows to the writer (waiting for
room in the channel) and then merges the copies back. Nothing else writes the
scheduler's state, but operators edit the database at any moment, the writer
stores in its own time what the loop has long merged, and all workers share one
socket and its table of pending requests.

### The other programs

| program | state | interaction | hard behaviour |
|---|---|---|---|
| ss5 (desktop station) | lists read from tables, a row selected, forms of that row | one thread that calls the database and waits; requests to devices | forms, lists and rows drift apart: selection, failed calls, other writers |
| ss6 (web server) | a database client, the limit of requests | concurrent handlers poll and write devices | read-modify-write of bits; a failed write sent again |
| ss7 (desktop configurator) | editor state, one background task, three "pending" flags | threads that report over a channel | requests made while a task runs, results that start tasks, answers laid over newer edits |
| im1 (simulator) | slots with registers and a ring archive | a task per datagram, a ticker, a window | ring index against time, shared slots |

ss4, ss5 and ss7 carry copies of the script language; all four plan, pack and
align Modbus reads, each in its own way.

What makes it hard:

* *Interleaving*: workers end in any order; edits fall between two reads of a
  synchronisation; the transport's clean-up runs under the feet of callers; two
  clients write one word.
* *Copies*: task, streak, alarm states, flags and caches are copied to a worker
  and written back whole; every merge is a lost update waiting for its second
  writer. The barrier of the drain prevents most of them. The desktop programs
  copy rows to lists and lists to forms.
* *Lag*: the loop reads back from the database (`alarm_state`, `arx_state`) what
  the writer may not have stored; the configurator shows answers to questions
  asked about what was shown before.
* *Unreliable delivery*: replies are lost, late, doubled, and correlated by ids
  that repeat; within a job, frames are matched to requests by position.
* *Partial failure*: a flush is six statements without a transaction, a range or
  a set of windows as many as it has members; a hook or a later group of a script
  fails after caches were changed.
* *Bounds*: queue, pool, channel, saturating streak, ids modulo 256 and 65536,
  words of a read, steps of a script.

### What makes each part correct

* Loop: a KPZ has one worker at most and no job is pending twice; a busy flag is
  up exactly while its job is pending; merges never bring back an old value;
  backoff is honoured; an edit is never lost between fingerprint and rows; lost
  ticks are counted; every drain ends; Ctrl+C ends the process.
* Queue: the three indexes describe one queue.
* Writer: tables hold prefixes of what was handed over, in order, at any crash;
  an index or an event never precedes what it stands for; nobody waits for ever.
* Transport: a reply reaches its request or nobody; no entry disappears while
  its caller waits; calls return.
* Reading: every register wanted is read once, within the limits, and is given
  its own words or none, whatever fails.
* A-mode: a value belongs to its register; filtering by change loses nothing.
* Alarms: transitions alternate, respect their delays, and a condition that
  lasts is recorded.
* S-mode: a record of the device is archived once and none below the stored index
  is missing; an index counts only after two fresh readings; every record arrives.
* Scripts: a text is read as it was meant, the instructions do what the tree
  says, the keys collected are those asked for, and a run ends; the text run is
  that of the row.
* Writing: "ok" means written; what nobody asked to change changes only by
  overlap; every request ends.
* Configurator: commands go to the KPZ on screen; what is shown belongs to what is
  selected; templates keep their rows; what was put off is served; no edit is lost
  without "Unsaved changes".
* Station: a row keeps what was read from it or typed for it; lists show what
  this station stored last.

## 2. Modules

| module | models | run |
|---|---|---|
| `Scheduler` | the main loop, the workers' results, the operators' edits, the clock | `scheduler_core`, `scheduler_live` |
| `SchedulerProofs` | theorems about `Scheduler` | proofs |
| `SpawnQueue` | what the job queue promises: one sequence of jobs, and pop takes the oldest whose KPZ is not running | as property |
| `JobQueue` | the three indexes, shown to implement `SpawnQueue` | `algorithms` |
| `JobProofs` | theorems about `JobQueue`, `ArchiveScript` and `ScriptCache`: the indexes agree, the refinement; every record is read once; the cache serves the rows | proofs |
| `DbWriter` | channel, batch, statements, database, failures, restarts | `db_writer` |
| `DbWriterProofs` | what the tables hold at any moment | proofs |
| `Transport` | callers, keys, allocators, network, clean-up | `transport` |
| `TransportProofs` | replies reach their requests, entries stay | proofs |
| `LivePoll` | planning, packing and aligning of reads in ss4, ss5, ss6 and ss7 | `algorithms` |
| `Ranks` | sorting and filtering of lists by ranks, for `LivePoll` and `LayoutEditor` | |
| `AMode` | chunks, frames, change filter, flags, archive | `a_mode` |
| `AModeProofs` | values keep their registers, filtering by change loses nothing | proofs |
| `Alarms` | evaluation, copies, merge, reload, restart | `alarms`, `alarms_lag` |
| `AlarmsProofs` | transitions alternate and respect their delays | proofs |
| `SlotArchive` | the ring archive of a device (im1) under ticker, packets and window | `archive_script` |
| `ArchiveScript` | S jobs against that ring: index quality, priming, groups, write-back, writer, restarts | `archive_script` |
| `Script` | tokens, parsers, compiler, keys, stack machine | `algorithms`, `script_parse` |
| `ScriptCache` | templates and plans, copies of workers, merge, invalidation, synchronisation | `algorithms` |
| `DeviceWrites` | writes of ss6 and ss7 to a device over a lossy network, journal, limit of requests | `device_writes` |
| `DeviceWritesProofs` | theorems about `DeviceWrites` and about `Station` with `ListEditors`: "ok" is written, bits are undone only by overlap; forms keep to their rows | proofs |
| `Station` | ss5: control points, their four forms, ranges | `device_writes` |
| `ListEditors` | ss5: seven other editors of tables (extends `Station`) | `device_writes` |
| `Configurator` | ss7: tasks, flags, results, windows, templates, sets | `configurator` |
| `ConfiguratorProofs` | theorems about `Configurator` and `LayoutEditor`: the screen, the commands and the stored rows go together; mutes and edits are kept | proofs |
| `LayoutEditor` | ss7: the rows of a template on screen, marks, mutes, profiles, save and load | `configurator` |

`MC<module>` instantiates a module for TLC. Where a run has several modules
(`MCAlgorithms`, `MCConfigurator`, `MCDeviceWrites`) they share no state: each
behaviour is one of one part, and the run is the sum of the parts.

The modules meet at narrow interfaces, each of which one side promises and the
other assumes:

* `Scheduler` abstracts a job to its outcome, the queue to a set of jobs with
  sequence numbers (`SpawnQueue`, which `JobQueue` implements), the writer to
  "accepted or failed" (`CallsReturn` of `DbWriter`).
* `Alarms`, `AMode`, `ArchiveScript` and `ScriptCache` take from `Scheduler` that
  reloads and starts happen only between drains (`DrainIsBarrier`) and that a KPZ
  has one worker (`OneOwner`), so its jobs are merged in the order they ran.
* `Alarms` stores a state and its event, and `ArchiveScript` rows and their index,
  in a step; `DbWriter` shows that the order of the statements makes a crash
  between them harmless (`RestartFindsAll`).
* `AMode` takes from `Transport` that a reply is for one of the KPZ's own
  requests (`AnswersItsRequest`) and that requests return (`RequestReturns`), and
  from `LivePoll` that the plan covers what is wanted (`PlanExact`, a part of `ReadingsAreRight`).
* `ArchiveScript` takes the meaning of a script from `Script` (`ScriptsRunAsWritten`).

### State and actions against the code

**Scheduler.** `pc` is the place in `run_with_shutdown`; the loops over rows, tasks
and the queue are unfolded into steps (`SyncRow`, `DispatchTask`, `Spawn`) exactly
where the code awaits or where the order of a HashMap is open. `stamp` is the last
`Instant::now()`, taken where the code takes it, and `now` moves at any step.
`SyncFingerprint` and `SyncLoad` are two database statements with edits between
them. A worker's end (`WorkerEnds`) computes what `run_job` does to its copy of the
task, for each outcome; `Join` and `PersistFail`/`Merge` are the drain. `dropped`
saturates at `DropCap` (the code counts in 64 bits). `quietUntil` is history.

**JobQueue.** One variable per field, one action per method; `Retain(k)` drops the
jobs of a KPZ that is started or stopped. `ReadyAfterPush` and `ReadyAfterPop` are the two delicate places.

**DbWriter.** A delta is the number of its offer with a shape; `Statements` lists the
statements of `flush_db_delta` in order; `StatementFails` ends the writer as the
`?` does, also for a batch the database must refuse because two of its rows have
one primary key. A crash at any point needs no action of its own: the invariants
about `db` hold in every state, so also in the one it leaves.

**Transport.** A key is endpoint, packet id and dsr; a datagram is the two header
fields it is looked up by and the request it answers. `Receive(d, full, again)` is the receive
task, with `again` a duplicate left in the network and `full` whether the reply has the 22 bytes of a full header: only
then is its modem compared (`udp_transport.rs:63`, `:174`; im1 puts 10 bytes before what it answers). `Headers` says which
kinds a KPZ sends. A reply that is never received is lost or late. Durations are replaced by their order: a request expires after it was sent, and its
guard ends after that. `ClockId` gives the ids of script commands, which the code takes from the
clock.

**LivePoll.** A register has an address, a width, a type, and may be a command;
the word of function f at address a is the pair itself, so a value says where it
was read. `prog` chooses the program: *server* plans as `poll_plan.rs`, *table* as
`read_group_glued` of ss5, *window* as `poll_now` of ss5 and ss7, *web* as ss6.

**AMode.** A job asks chunk by chunk (`ChunkAnswered`); `Frames` is what comes back in
order, with `lost` frames passed over for their checksum and `refused` ones present without
data. `Decode` is `run_a_mode` after the exchange, `HookFails` the `?` of the alarm
hook at a position. A start of the KPZ (`StartStop`) and a synchronisation that finds no cache for it (`PrimeAgain`) fill the cache
from the table, which may lag behind the channel. `force`, `primed` and `rv` are copied in `Spawn` and merged in
`JobEnds`. Of the archive the last row of a register is kept, since that is what
the change filter must keep current.

**Alarms.** `ShouldBeActive` is `alarm_should_be_active` with its six comparisons and
the first-level limits; `Read` evaluates every rule of the register a value was read of.
Time is kept as ages saturated above the longest delay. `Reload` overwrites `active` from `table` as
the code does; `Lose` is a failed probe of the alarm tables or a restart.

**SlotArchive, ArchiveScript.** A record is its minute. The ticker, a packet
(`Answering`) and the window (`TickNow`, `ResetRing`) advance a slot behind its
mutex. An A job reads the index register (`PollIndex`, with `Quality` and `Stale`
of `rv_state.rs`), or other FC4 registers of the enabled groups and not this one (`PollOthers`); of those the model keeps whether one of them counts.
An S job is let in by any one of these registers, or if there is none (`Sources`, `LetIn`; `smode.rs:454`); it primes its indexes from the table, goes through its groups
(`NoCommand`, `Exchange`), and hands over rows and indexes (`ScriptEnds`). The script
is the typical one: the next record while the confirmed index is another. Worker
copies are merged before the next job, so they are the variables themselves.
`dropped`, `lagged`, `lapped`, `blind`, `sure` and the marks `sure` and `other` of a job are history.

**Script.** A text is a sequence of tokens; `Stmt`, `Expression` and their parts follow
the two recursive parsers, `StmtsCode` the compiler with its patched jumps, the
actions one instruction each. `Meaning` is the reference: what the tree says,
computed without code or stack. The module declares recursive operators and is
therefore only model-checked.

**ScriptCache.** `Key` is group and version, `PlanKey` adds KPZ and bindings.
`SyncRows` reloads the rows and runs `on_kpz_start` for each KPZ started;
`StartWorker`, `PrepareGroup` and `EndWorker` are copy, look-up and merge. The code
starts the KPZ one by one; `on_kpz_start` is the effect of all of them on the cache, which
does not depend on their order.

**DeviceWrites.** Each client is at a place of its handler (read, write, second
attempt, journal); every exchange has its own socket, so a packet stays in
`packets` until the device carries it out, late or never, and nobody sees a late
answer. `journal` holds the inserts that spawned tasks still have to do.

**Station, ListEditors.** `kpz` and `rows` are the tables, `desk` and `form` the
program. A value remembers the row it was read from or typed for (`of`) and who
stored it (`by`). One action per button; `Call(ok)` is a database call that may
fail. `Habits` is what a careful user does not do (section 5). `lost` says of a form that the load of the table or group chosen failed
and the former content stayed; the message about it goes with the next click on a row (`dict_editor.rs:38`), or the next template saved, bound or deleted
(`gscript.rs:428`, `:441`, `:448`), so the form can be saved all the same: `stray` remembers that one was.

**Configurator.** One record `ui` composed by the code's functions; `Thread` is the
background task, `PollTask` the handler of its result, which may start the next
task. `Slips` names what a user does against `UI_LINK_EDITOR.md`. The control point may be changed at any time, with panels
open or, as the manual has it, before they are opened: then nothing is read again (`app.rs:240`), and the history variable `list` says what the list of windows is worth
(`read`; `former`, of the control point before; `stale`, when a reading that should have replaced it did not).

**LayoutEditor.** Rows with the numbers the editor gives them (texts are numbered
anew at each load and save), `marks`, drags, mutes and profiles that hold such
numbers; a save and a load are tasks of several statements (`JobSaves`,
`JobLoads`, `JobFails`), answered into whatever the editor shows by then. `ChangeKpz` (the combo box of the control points, which is always there) and
`OpenViewer` empty the rows and start a task that reads lists (`ListsJob`), or are put off (`due`, `SlotFreed`).

## 3. Runs

Bounds are constants in the `.cfg` files; each run ends by exhausting its states.

| run | instance | what it shows |
|---|---|---|
| `scheduler_core` | 2 KPZ, pool of 2, queue of 2, one edit, 2 seconds | `DrainIsBarrier`, `BusyIffPending`, `OneOwner`, `SnapshotCurrent`, `WithinLimits`, `SyncedMeansCurrent`, `TicksAccounted` |
| `scheduler_live` | 2 KPZ, pool of 1 | `PendingCompletes`, `ShutdownEnds` |
| `db_writer` | 4 deltas of 5 shapes, channel of 2 | `NoGapsNoRepeats`, `FinishStoresAll`, `RestartFindsAll`, `CallsReturn` |
| `transport` | 2 KPZ behind one endpoint, one with short replies, 3 requests, packet ids modulo 2, one duplicate | `AnswersItsRequest`, `EntryStays`, `RequestReturns` |
| `alarms` | 1 rule with 3 contents, 3 values, delays up to 2, 2 edits, 2 losses | `EventsAlternate`, `DelayHonoured`, `ConditionArrives` |
| `alarms_lag` | the writer may lag | **violated**: `EventsAlternate` |
| `a_mode` | 1 KPZ, 2 requests in 2 packets, 2 edits or starts | `ValueOfItsRegister`, `LastArchived`, `ArchiveCatchesUp` |
| `archive_script` | 2 archives, ring of 3, 4 minutes, the index register and another source, one fault, writer two deltas behind | `EachRecordOnce`, `ConfirmedOnly`, `RecordsArrive` |
| `configurator` | 2 KPZ, 2 sets, 4 templates, 5 clicks, one failure; or one template, 2 registers, 3 rows, 4 clicks, one failure | `CommandsReachShownKpz`, `ShownIsSelected`, `StoresItsOwn`, `RefreshServed`; `EditsAreKept`, `MutesAreStored` |
| `device_writes` | web client with 2 requests and configurator with 1 on one word of 2 bits; or the station with 3 ids, 3 steps, one foreign write, one failing call | `OkMeansWritten`, `UndoneOnlyByOverlap`, `EveryRequestEnds`; `FormsKeepToTheirRows` |
| `algorithms` | up to 5 of 11 registers, one at a negative address, reads of 3 words, 2 faults; every expression of two operators and 13 programs; 2 KPZ with a common group and 2 edits; 3 KPZ and 4 pushes | `ReadingsAreRight`; `ScriptsRunAsWritten`, `EveryRunEnds`; `IndexesAgree`, `ImplementsSpawnQueue` (refinement) |
| `script_parse` | texts that are no program | **violated**: `ParseReturns` |

Every property has a mutant: a named variant of one definition (`Mutant:` in the
modules) under which the run finds the property violated. Deadlock is checked
except in `algorithms`, `script_parse`, `configurator` and `device_writes`, where
a behaviour is one reading, one script or a number of clicks, and then over.

Why the bounds are enough:

* Two KPZ with two jobs each give three or more jobs for two places in queue and
  pool, so both limits are reached; phases differ, so a tick may find one half of a task busy. Two
  seconds hold a backoff (2 s) and a tick after it. One edit is enough to fall at any place of a
  synchronisation; a stop and start of one KPZ against the job of another is
  covered because rows start out with any content.
* Three KPZ and four sequence numbers give the queue a head that is running, one
  that is not, and a second job behind each.
* Four deltas overfill a channel of two with a batch being flushed and a send
  waiting; the shapes hold every kind of row that has an order to keep.
* Packet ids modulo 2 repeat with the third request; the dsr counter reaches the
  modem number of a device within it, and a value of the clock is that of the other; full and short replies meet each other's requests.
* Delays of 0, 1 and 2 ages, with and without hysteresis, one- and two-sided
  comparisons; two readings per job let a condition change within a copy.
* Two packets of one request each let the loss in one be made good by the other.
  The second register keeps its value and is not archived: it is there to be taken for the first.
* Four minutes in a ring of three go round once; two groups let a later one fail
  after the first; two waiting deltas let a job prime itself from an old index. One fault may be a
  job that another register let in before the index was confirmed; once it is confirmed, such jobs come at any time.
* Ten registers hold wide ones next to narrow ones, neighbours, gaps, repeats of an
  address and the top address; five wanted exceed a read of three words and a
  packet of two reads.
* Step limits 5, 9 and 40 stop a script inside an expression, inside a loop, and never.
  Words of 16 values make signed and two-word values differ from unsigned ones.
* Two edits of the cache's rows give a text changed under its version, a version
  used again, a binding changed, and a start after each.
* Two bits and a word cover every pair of overlapping writes; one late packet is
  what an attempt leaves behind for the next.
* Three steps of the station select, type and save; the forms start out filled,
  so a selection moved by a reload or a failed call is followed by a save.
* Five clicks of the configurator start a task, change the selection while it
  runs and answer each of the flags, or change the control point between panels closed and opened; four in the editor of templates edit, press
  Save, edit again while it runs, and look.

### Fairness

* `Scheduler`: weak fairness of the loop (a tokio task is polled while it can
  proceed) and of each worker's end. Its requests return by their timeouts (`RequestReturns`); that its scripts end is an
  assumption, since the parser does not return for some texts (`script_parse`): with such a text in the table its worker never ends,
  and neither `PendingCompletes` nor `ShutdownEnds` holds. None for the clock, Ctrl+C, edits, or which outcome a job has.
* `DbWriter`: weak fairness of the writer task and of the steps by which a
  waiting scheduler is woken. A statement ends, with a result or an error.
* `Transport`: weak fairness of each caller and of the passing of time. None of the
  network and none of the clean-up.
* `Alarms`, `AMode`: jobs are spawned and end, the writer flushes (weak); a reload
  happens again and again although jobs keep disabling it (strong: the loop comes
  round after every drain). A device answers again and again (strong): without it
  no value can ever arrive. None for edits, starts, losses, lost frames.
* `ArchiveScript`: the clock of samples and A jobs that read the index go on (strong, since a job under way holds both up), A jobs come within
  the time a sample is fresh and S jobs find it fresh again and again (strong: both
  periods are far below `IDX_QUALITY_STALE_SEC`), a job's exchange succeeds again and
  again (strong), the writer flushes, and a writer that ended is restarted with the process
  (weak). `RecordsArrive` says that records stay archived once the clock of the model stops.
* `Script`: the machine goes on (weak). `Configurator`: the thread answers and the frame
  polls it (weak); nothing of the user. `DeviceWrites`: a timeout fires and a spawned
  insert runs (weak); nothing of network and device. `Station`, `ListEditors`,
  `LayoutEditor`, `ScriptCache`, `JobQueue`, `LivePoll`: none.

## 4. Proofs

Each theorem holds for every value of the constants, under the assumptions named in
the modules (`SchedulerAssumption` and its like: finite sets, numbers of the right
kind) and, where the table says so, under a hypothesis of the theorem.

| module | theorem | statement | hypothesis |
|---|---|---|---|
| `SchedulerProofs` | `TypeCorrect` | `Spec => []TypeOK` | |
| | `Safe` | `Spec => []IInv` | |
| | `BarrierHolds` | `Spec => []DrainIsBarrier` | |
| | `BusyIsPending` | `Spec => []BusyIffPending` | |
| | `OneOwnerEach` | `Spec => []OneOwner` | |
| | `SnapshotsCurrent` | `Spec => []SnapshotCurrent` | |
| | `LimitsHold` | `Spec => []WithinLimits` | |
| | `SyncIsCurrent` | `Spec => []SyncedMeansCurrent` | |
| | `TicksAreAccounted` | `Spec => TicksAccounted` | |
| `JobProofs` | `IndexesAlwaysAgree` | `Spec => []IndexesAgree` | |
| | `RefinesSpawnQueue` | `Spec => ImplementsSpawnQueue` | |
| | `RingsHaveNoGap` | `ArchiveSpec => [](SlotType /\ RingContiguous)` | |
| | `RecordsAreReadOnce` | `ArchiveSpec => []EachRecordOnce` | |
| | `ScriptsReadConfirmed` | `ArchiveSpec => []ConfirmedOnly` | |
| | `CacheServesTheRows` | `CacheSpec => []ServesTheRows` | |
| `DbWriterProofs` | `TablesHavePrefixes` | `Spec => []NoGapsNoRepeats` | |
| | `FinishedIsStored` | `Spec => []FinishStoresAll` | |
| | `RestartIsSafe` | `Spec => []RestartFindsAll` | |
| `TransportProofs` | `RepliesFindTheirRequests` | `Spec => []AnswersItsRequest` | `IdsApart`, `ModemsApart` |
| | `EntriesStay` | `Spec => []EntryStays` | `IdsApart`, `ModemsApart` |
| `AModeProofs` | `ValuesKeepTheirRegisters` | `Spec => []ValueOfItsRegister` | `NoDuplicates` |
| | `FilterLosesNothing` | `Spec => []LastArchived` | `NoDuplicates`, `[][KeepsOthersFlags]_vars` |
| | `AloneNothingIsLost` | `Spec => []LastArchived` | `NoDuplicates`, one KPZ |
| `AlarmsProofs` | `TransitionsTakeTurns` | `Spec => []EventsAlternate` | `KeepsUp` |
| | `DelaysAreHonoured` | `Spec => DelayHonoured` | `KeepsUp` |
| `DeviceWritesProofs` | `OkIsWritten` | `Spec => []OkMeansWritten` | |
| | `BitsUndoneByOverlap` | `Spec => UndoneOnlyByOverlap` | |
| | `DeskKeepsToItsRows` | `DeskSpec => []FormsKeepToTheirRows` | no "regroup" in `Habits` |
| `ConfiguratorProofs` | `CommandsReach` | `Spec => []CommandsReachShownKpz` | `Careful` |
| | `ShowsSelection` | `Spec => []ShownIsSelected` | `Careful` |
| | `KeepsItsOwn` | `Spec => []StoresItsOwn` | `Careful` |
| | `MutesStored` | `LayoutSpec => []MutesAreStored` | |
| | `EditsKept` | `LayoutSpec => []EditsAreKept` | |
| | `ReadingsRight` | `PollSpec => []ReadingsAreRight` | |

Behind them is in each module a theorem that the inductive invariant always holds (`Safe`, `Inductive`, `QueueIsInductive`,
`DeskIsInductive`, `LayoutIsInductive`, `PollIsInductive`; for `ArchiveIInv` it is part of the proof of `RecordsAreReadOnce`). TLC finds no
state of the run's instance outside the `IInv` of `Transport`, `AMode`, `Alarms`,
`DeviceWrites` and `Configurator`, the `QueueIInv` of `JobQueue`, the `DeskIInv` of `Station` and `ListEditors`, the `LayoutIInv` of `LayoutEditor`, the `PollIInv` of `LivePoll`,
`ServerShape` and `DeltaShape` of `ArchiveScript` with its `Flow` in the `Undisturbed` ones, or the `LInv` of `AMode`. The `IInv` of `DbWriter` says that the channel can be divided in some way,
which TLC cannot enumerate; the three properties that follow from it are checked.

**The hypotheses.** `KeepsUp` says that the channel of the writer is empty when the
alarm states are reloaded. The code does not wait for that, and `alarms_lag` shows
`EventsAlternate` false without it: the theorems say that this lag is the only way.
`IdsApart` says that the dsr counter has not come round (fewer than 65534 requests
without a dsr of their own), and that ids taken from the clock differ from each
other and from those of the counter; a packet id may come round any number of times.
The run `transport` keeps to both; outside them a late reply may carry the ids of a new
request.
`ModemsApart` says that a modem number is one KPZ behind an endpoint, which the
gateway needs as well, and in the run it is.
`NoDuplicates` says that a reply arrives once: one that comes twice while a request
collects stands in for a lost one, and from there on the replies are those of other requests (section 5).
`KeepsOthersFlags` says of a step that no merge removes the flag of a register that another KPZ polls,
which the code does whenever a flag of another KPZ is up while a job ends (`merge.rs:127`). The theorem says that
this is the only way a row is lost: with it the change filter is right for any number of KPZ, also when they share
registers, and with one KPZ nothing has to be assumed of the merges (`AloneNothingIsLost`).
`Careful` says that the user makes none of the slips of `Slips`, each of which is against
`UI_LINK_EDITOR.md` or the order its steps imply, and each of which breaks one of the three
properties; a change of the control point is none of them. `Habits`
without "regroup" says that nobody selects another control point while the editor of groups is open; section 5 says what
happens otherwise. `EditorWindows` and `RuntimeRow` say which windows there are and that the runtime configuration is row 1 when there is one.
`ConfirmedOnly` speaks of an index register at the address 400 (`IndexIs400`), as the synchronisation takes for granted (`state_sync.rs:911`): the code closes
the index after the no-response threshold for that address alone, so at another one a script may go on with an old index. And it speaks of jobs the index itself let in.
`StoredTemplates`, an assumption on the constants of `LayoutEditor`, says of the templates in the database at the start what every save keeps so:
registers and texts are each numbered 10, 20, ... and no register is in twice. Only Save all and Save template write them, and both number them
(`actions_templates.rs:348`, `:517`); the statement that copies the numbers of a window (`db_ui_windows.rs:261`) belongs to the window mode nobody can open.
`NamesAssumption` keeps apart the names of windows, templates, sets, a draft and `None`, which in the
code are of different types.

**Scheduler.** None of the properties is inductive alone. That a merge finds
its task as the snapshot was taken (`SnapshotCurrent`) needs that no
synchronisation runs meanwhile (`DrainIsBarrier`) and that no second worker has
the KPZ (`OneOwner`). That a job is not pending twice needs that its flag is up
(`BusyIffPending`), and that the flag goes down with the last of its job needs
`SnapshotCurrent`: the flag is taken down in the worker's copy and written back whole.
That the barrier holds needs that the
drain ends only with an empty queue: `PhaseOK` says that a drain without workers
has an empty queue, since the pool is refilled after each merge until no job can be
spawned, and a job that cannot be spawned has a KPZ that is running. `IInv` is their
conjunction with the type invariant and `ControlOK`, which ties `todo`, `loaded` and
`joined` to `pc`. Three more strengthenings carry the other theorems:
`LimitsOK` counts queue and workers by place in the loop; `CurrentOK` says of
which rows the tasks are the image while a synchronisation is half done (rows done,
rows to do, an edit between the two statements leaves the fingerprint old);
`BackoffOK` says that a KPZ that is quiet has its next runs
behind the end of its backoff, in the table of tasks and in every worker's copy.

The proof goes action by action. Actions that leave the core (`task`, `queue`,
`workers`, `joined`) alone are dealt with once (`SafeFrame`); a state with an empty
queue and no worker satisfies `IInv` as soon as no flag is up (`QuietState`), which
covers the synchronisation. `DispatchTask`, `Spawn`, `Join`, `Merge` and `WorkerEnds`
have a lemma each.

**JobQueue.** `QueueIInv` is `IndexesAgree` with the facts that the jobs are finitely
many and their numbers are below `next_seq`. The mapping makes of the jobs their list in
the order of the numbers; `AscendingList` shows that there is exactly one such list, so
that a push appends, a pop takes out the first whose KPZ is free
(`HeadIsOldest`: the ready heads contain it), and a `retain` filters.

**SlotArchive, ArchiveScript.** The ring is proved first. `RingOK(s, f)` says which record is in which cell when
the oldest one kept is f: catching up several minutes is a recursive function (`CatchUp`), whose value after k
minutes is proved by the smallest k at which it would be wrong (`WFMin` of the library). `RingContiguous` follows for every number of slots and any
window that resets them. That each record is read once is about five places that hold an index of the same archive: the table, the deltas in the
channel, the delta of the job, the index the script goes by, and the confirmed one. `ArchiveFlow` says of each archive that they follow each
other: with s the record stored last, an update is about s + 1 (about s or s + 1 once a job has read an index too early, `lagged`), its row is in the same delta or was dropped,
and a job that has yet to come to the archive goes on from s or s - 1; `Within` that none is ahead of the confirmed index. The cell of an index says which record is meant only
as long as the ring was not overrun, so a step of the device is where the argument could break: either the next record is still in the ring, or the whole ring is unread, and then
the exchange is `lapped`, which the property excuses as a loss the protocol cannot see. `Flow` is therefore required only of an `Undisturbed` device, while shapes and rings hold always.
A job that another source let in before any index was confirmed is excused in the same way (`blind`): its script takes 0 for the index and follows the ring round.
`ConfirmedOnly` needs the shapes alone.

**DbWriter.** A row is on its way in four places: stored, in the batch but for the
statements done, in the channel, waiting to be sent. The invariant says that the four
hold consecutive spans of what was offered, in this order (`Carries` for the queue,
`Progress` for the flush: the statements up to one place have stored the batch's span
and the later ones have not), and that a table of last values holds the last of
its span. That spans compose (`ListConcat`, `LatestOfBoth`) and that merging two deltas is
merging their spans (`MergeOK`, with the six parts of a delta) are the lemmas everything rests on.
`RestartFindsAll` then follows from the order of the statements alone.

**Transport.** Everything that is on its way (an entry, a reply, a call) carries a tag of
request, KPZ and ids; `IdsOK` says that two tags with the same ids are of one
request. An entry is its caller's, at the key it waits at (`EntryOK`), and each reply in
the network was caused by a request that is marked as sent (`ReplyOK`); from this,
what a caller is handed (`TakenOK`). A reply tells its request by packet id and dsr; where the dsr stands in either of two places, another
request may have the same, and what remains of the modem numbers is what the header says of them: both if it is full, the one it was looked up by if it is short. The allocator never offers the id of a waiting entry
(`IdIsNew`, `NewId`), so nothing is overwritten.

**AMode.** Which of the frames that came back is the reply to which request cannot be told
from a frame. `FramesOK` therefore says only this: never more frames than requests asked so far,
and if as many, each is the reply to its own. One more chunk keeps it, whatever is lost of
it (`FramesIs`, with the arithmetic of chunks in `ChunkIs` and the n-th of a set in `NthIs`): if one is missing now, or was
before, the count stays short for good, and a short count ends the job (`ResultsIs`). `LInv` adds what the
filter needs: for each KPZ, what counts as its cache (the copy of its job, if it has one) holds of a register what was
produced last, unless a flag asks or a row was dropped (`Settled`), a copy of the flags is never
ahead of the table and one of the registers archived once never behind it (`CopyOK`). Rows move from the job to the
channel and from there to the archive without changing which is the last (`AppendMoves`, `FlushShifts`).

**Alarms.** `RuleOK` relates, for each rule, the copy that will survive (`Now`: the
worker's if there is one) to what was reported last, be it stored, in the channel or in the
worker's hands: the copy is active exactly if the last report says so, the reports
take turns (`Turns`), and the age of a condition is not above that of the
readings that contradict the state. `LastIn` of a channel with one more, or
fewer, delta has lemmas of its own (`LastInOneMore`, `LastInRest`).

**DeviceWrites.** A word that was read is `Current`: it differs from the device's
only in bits touched since. Handlers, packets and answers that carry such a word keep it
so (`HandlerOK`, `PacketOK`, `AnswerOK`), because a write marks every bit it changes.

**Station, ListEditors.** `StationInv` says of table, list and forms that each value belongs to the row it stands in, that a row of the
list differs from the table only by what others stored (`Known`), and that the three forms of the selected row were filled from it (`FormsOK`). Each of the
seven editors has an invariant of its own (`RegInv` to `ScriptInv`), of what its form may hold between two buttons; they share `OwnIn` and `Knows`. The proof
has a lemma per function; `DictInv` and `ScriptInv` have the history `stray` for a parameter, so that what a save from
a lost form breaks is given up by that step and by nothing else (`WindowWeakened`). The lemmas are taken together per window (`WindowStep`), since only one window is open at a time.

**Configurator.** `ScreenOK` says whose the rows and values on screen are: in the viewer of the window
selected (`ViewerOK`), in the editor of its template or a draft (`TemplateOK`), and of the
control point selected, unless another one was chosen while a task ran: then a refresh is pending, and it is the flag, not
the screen, that carries the promise (`KpzOK`). If it was chosen with every panel closed nothing carries it but `list`: the predicates have it for a first parameter,
they ask less of a `former` or `stale` list than of one that was `read` (`Worse`), and only a reading whose answer fits makes it `read` again. Where the viewer is open over a `former`
list, such a reading is on its way (`ComingOK`; `ComingKept`, `FreshOK`), which is why a command can go astray only after one has failed. `AskedOK` says the same of a task: when its answer comes, the screen is still
one it may be laid over, or will be refreshed. `DbOK` says of the two tasks that write what they found before their
statements (no windows yet, no template of that name), which holds until they are through because nothing else
writes meanwhile. The proof has a lemma for every function the code composes (`SpawnOK` to `ServedOK`: from a good editor it makes a good
editor), and `ReadsOnly` says that none of them starts a task that writes; the lemmas on actions put these together.

**LayoutEditor.** A row is known by its number, a screen by the order of its rows: `RowsOK` says that numbers differ, that a positive number is a
register's, and that the rows are in order. Every function of the editor makes such rows of such rows and leaves the mutes equal to the flags and the
mark set if anything changed (`EditOK`, a lemma per function, `WithLookOK` to `ClearMutedOK`). New numbers are new because they lie below all others (`NewTextIdIs`), and
Save all and a load are each other's inverse: the rows of a template, merged and sorted, fall apart into the same registers and texts (`MergedIs`), since a set of rows has one list in
order (`OrderedOnce`). Sorting and filtering are defined by ranks, not by recursion, so that this needs no induction (`RankIs`, `NthIs`, `SortedIs`). `CleanOK` carries
`EditsAreKept` over a half-finished save: a clean screen shows a stored template, and what is being saved to that template is what it holds already, so that neither statement
changes it, and one that fails leaves nothing behind. A screen emptied by another control point or by the viewer shows no template any more (`shown`), which is what the exception
of the property says. `JobOK` says what a task holds by the time its answer is shown.

**LivePoll.** The proof has two halves. *The plan.* `Covers` says of a read that it is the union of the spans of its registers, all of its function and within the limit;
`Divides(p, S)` of a list of reads that they cover so and that each register of S is in one of them. A register that joins keeps it (`JoinedCovers`, the
only place where the limit and the widths matter), a gathering is a recursive function whose values are reached by the smallest length at which one would be missing or wrong
(`GathersExists`, `GatherDivides`, `GatheredDivides`, with `WFMin` of the library), and two gatherings of different functions or types, the server's sort by first address and the web's
filter leave it so (`BothDivide`, `ByFirstDivides`, `KeepsDivide`). Only the web's filter may lose a register, and only one whose read begins at an address that cannot be sent (`AllSent`). *The exchange.*
A frame says nothing of the read it answers. `Lined` therefore says that it stands in the place of its read as long as no read before it was left out, and `Fits` what is in it then; a packet's frames
do so among themselves (`PacketFrames`), those of all packets one behind the other (`LinesUp`). `InPlace` and `Due` are the premise and the conclusion of handing frames out by position (`GivesRight`): up to the first
read left out each register gets its words, or none if its own read failed. `AllServed` says of what is behind that every register has its value or a failure to blame (`Touched`),
`NeverWrong` that a wrong value needs a read left out or, in the table, a short answer, and `TalkOK` that a packet begins at a multiple of its size,
so that a failure is blamed on its own packet only. There is a lemma for the answers of each of the three programs (`WebReplies`, `WindowReplies`, `TableReplies`), since each hands them out at another time.

**ScriptCache.** Keys carry no text, so nothing in the cache says that it is the row's. `told` does: it keeps the texts a group
has had under a version since a KPZ of it was last started, and `Sound` says of a cache that every template is one of
them and that every plan is, with the bindings it is signed with. A part of a sound cache is sound (`PartSound`), so is a
merge of two (`MergeSound`, whoever's entry wins) and a copy after a look-up that had to parse (`PreparedSound`); a start of KPZ takes
from `told` only what it takes from the cache as well (`StartSound`), and no worker holds a copy then (`DrainIsBarrier` of `Scheduler`).
With one text told under the version of the row, what is served is that text. `CacheSpec` is the part
of `MCAlgorithms` that lives in the cache, and `ServesTheRows` one half of `ScriptsRunAsWritten`.

**Not proved**, only model-checked: liveness and everything about fairness, which is out of
the prover's reach, and of the safety invariants `RunsAsMeant`, the half of `ScriptsRunAsWritten` that is
about recursive operators.

## 5. Findings and observations

Places where the code does not do what a document or comment says, with a run:

1. `alarms_lag`: a reload that overtakes the writer takes an old `active` from
   `alarm_state` and the transition is reported again. `alarms` shows that this is the only
   way: with `KeepsUp` (the channel is empty at a reload) events alternate.
2. `script_parse`: the parser does not return for a symbol it does not know inside
   an expression; the tokenizer hands out a token without passing it.

The models leave out or excuse the following, which the code does as well. Each is
named where a property makes an exception for it.

*Server.*
* A reply is looked up by "dsr, modem" and by "modem, dsr" (`udp_transport.rs:40`, `:169`): two KPZ behind one endpoint whose requests have each other's modem numbers
  for dsr can be handed each other's replies. `AnswersItsRequest` excuses exactly this; the attempt to prove
  it without the exception showed the case. A reply shorter than a full header is not compared at all (`udp_transport.rs:174`, as the test
  at `:554` wants): there it is enough that the dsr of one request is the modem number of the other KPZ, and a late reply to a KPZ's earlier request is
  taken for the answer to a later one whose dsr is its modem number.
* A row whose group mask is empty is skipped before its start flag is compared
  (`state_sync.rs:278`): stopped together with its groups, a KPZ is polled on.
* Two archive rows of one register and second in one batch are refused by the
  upsert and end the writer (`db_queries.rs:969`, `:1700`).
* A datagram that comes twice while a request collects makes up for a lost frame
  elsewhere (`modbus_service.rs:418`): set `Duplicates` in `AMode` to see values
  under other registers.
* The merge of any KPZ's job removes the force flags of registers it does not poll
  (`merge.rs:127`): with two KPZ in `AMode` a first row may be missing, and only so
  (`FilterLosesNothing`).
* The rows of a job whose alarm hook fails are dropped while its caches are merged
  (`dropped` in `AMode`); a script job that fails at a later group drops the rows of the earlier
  ones and keeps their index (`dropped` in `ArchiveScript`).
* A script is let in by any FC4 register of its enabled groups, and by none if there is none (`smode.rs:454`, `:479`): after a restart a job may run that no index was
  confirmed for; its script reads 0 for it and goes round the ring (`blind`), and while the index is in doubt another register keeps scripts going (`other`; `ConfirmedOnly`).
* Staleness of an index is noticed only when a job starts; after the no-response
  threshold only the index at address 400 is closed; a job that reads an index the writer
  has not yet stored reads its records twice, the batch is refused and the process
  restarts (`lagged`); `retain` in `prime_arx_state` removes nothing.
* An edit of a script that keeps its version is not served until a KPZ of the group
  is started, nor is a version used again for another text (`told` in `ScriptCache`); a script once
  cached as disabled stays so under its version. Bindings that could not be read are taken as none and not read
  again before the next edit (`state_sync.rs:207`). The fallback fingerprint sums lengths. ss4 does not read
  the templates that ss5 binds to groups.
* Scripts: keys that are not constant are not prepared; `&&` and `||` evaluate both
  sides; a comment inside an expression is an error; `;;` is allowed at the top
  and not in a block; what was emitted before the step limit stays emitted. The
  configurator's dry run reads word pairs in the other order.

*Reading on demand* (`LivePoll`). A read that is not answered shifts the frames behind
it; short answers are shown as 0 by the table of ss5; the web has no limit of words
(`handlers.rs:1163`), and a register at a negative address, which the editor of registers accepts (`reg_editor.rs:83`), takes the
registers that adjoin it out of the plan with it, in one read that cannot be sent (`AllSent`); one lost packet ends a whole window or table; only ss7 falls back to
stored values, also for commands it does not poll.

*Writing.* ss6 and ss7 convert values differently; an entry of the rate limit is made for
a request that is then refused; clients behind no proxy share one; journal rows may be
inserted in another order than the requests. ss5 sends "on" as 0x0001 where the others send 0xFF00.

*Station.* The forms of a control point just made are empty until "reload all"
(`kpz_editor.rs:148`). The editor of groups saves to the control point that is
selected now, not the one it was opened for (`group_editor.rs:12`; `Habits` with "regroup"). After a range failed
half way the list is old, and a later "disable" leaves out the rows it takes for done
(`range_kpz.rs:169`, `:214`). The full editor writes back the start flag it was filled with. A dictionary or script
that could not be loaded leaves the old rows under the new name, and Save stores one there
(`dict_editor.rs:10`, `gscript.rs:328`). The message that the load failed is all that warns of it, and it goes with a click on a row (`dict_editor.rs:38`) or with the next template
saved, bound or deleted (`gscript.rs:428`, `:441`, `:448`): from then on a row of the former table can be saved into the new one with nothing on screen against it (`stray`). After a rule is deleted the form keeps another's values and
Save inserts a copy (`alarm.rs:293`); "New" in the register editor keeps the id, so Save overwrites (`reg_editor.rs:411`); a template
without an id overwrites the one of its name. "Clear all" is three statements. The runtime configuration is read
from the first row and written to row 1.

*Configurator.* `UI_LINK_EDITOR.md:5-8`, the start screen (`app.rs:267`) and the help text (`window_link_editor.rs:3639`) tell the user to choose the control point first and to
open a panel then. With every panel closed that change reads nothing again (`app.rs:240`), and the binding panel does not either (`actions_kp_templates.rs:22`): viewer on k1, close, choose k2, open the binding panel, and
k1's windows are listed for k2 (`window_link_editor.rs:3703`). The viewer reads the list anew; if that reading fails, or if the set editor was opened before, whose mode forbids to let go of a
window that is not in the list any more (`actions_windows.rs:182`), a window of k1 can still be shown and a command takes its address and the modem of k2. `ShownIsSelected` and `CommandsReachShownKpz` except
just these two cases (`former`, `stale`); without a change under closed panels, both hold through any failure. After the layout of a window could not be loaded, the viewer keeps the window selected over an empty screen; what is
drawn in the template editor opened over it appears as that window's (slip "mixed"; the proof of `ShownIsSelected` found it). The list keeps windows deleted by Unlink while the binding panel is
open (`background.rs:394`); Save template also saves what else is on screen; a window is not loaded after a template or set
editor was used (`actions_windows.rs:182`); one of the flags can be overwritten (`background.rs:650`); "New template" keeps
the selected one (`window_link_editor.rs:277` against `UI_LINK_EDITOR.md:47`); a set applied half can only be completed by hand;
the window mode of the editor is unreachable (`window_link_editor.rs:3736`). In the editor of templates a save's answer replaces
rows edited meanwhile, an emptied template stays "Unsaved", a load whose texts failed can be saved, which erases them, and the order
between a register and a text is not kept. Choosing another control point or opening the viewer empties the rows and leaves the template selected and no mark
(`actions_windows.rs:13-42`): the screen is empty under a template that is not, nothing says so, and Save all then empties the template in the
database (`EditsAreKept` leaves such a screen out, `shown`).

## 6. Not modelled, and why

* Byte layouts, checksums, SQL text, logging, formatting, drawing and geometry:
  abstracted throughout. Decoding of values by type, floating point: matters of
  single computations.
* Alarm hooks beyond their failing, metrics, MQTT, Telegram: nothing flows back.
* Retention clean-ups and journals: they delete or show old rows that no decision depends on.
* Start-up and configuration, logins and sessions, one-off tools (`poller.rs`).
* Deletion of control points and objects: no program here does it.
* Archive rows of one job are stored in a step in `AMode`, `Alarms` and `ArchiveScript`;
  `DbWriter` has the statements one by one.
* The script of `ArchiveScript` is one of the kind the installation uses; other
  scripts are data.
* The rating of pages for the web (`window_link_editor_web_safe.rs`) beyond which
  rows it warns about; import and export of files.

## 7. Plan

What is left, in order of importance.

Models: alarm hooks that send commands together with `Transport`'s clock ids; the
window of device requests of ss5 (`kpz_io.rs`); sessions of ss6.
