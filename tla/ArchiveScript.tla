---------------------------- MODULE ArchiveScript ----------------------------
(***************************************************************************)
(* Archive scripts (S jobs) of the ss4 scheduler for one KPZ               *)
(* (src/ss4/src/scheduler/smode.rs, rv_state.rs), against a device whose   *)
(* ring archive grows (SlotArchive).  An A job reads the index register;   *)
(* two readings make it count.  An S job may run once any FC4 register of  *)
(* the enabled groups counts, or if there is none: it reads, for every     *)
(* group with a script, the record after the last one archived, emits it,  *)
(* and stores how far it has read as arx_state.last_ind.                   *)
(*                                                                         *)
(* Scripts are data of the installation.  The one here asks for the next   *)
(* record as long as the confirmed index is another one, emits what comes  *)
(* under the time stamp of the record and writes the index back (keys 910  *)
(* to 912).  Jobs of a KPZ never overlap (OneOwner of Scheduler) and the   *)
(* worker's copies are merged before the next job starts, so they are the  *)
(* variables themselves.                                                   *)
(***************************************************************************)
EXTENDS SlotArchive, FiniteSets

CONSTANTS
  Groups,       \* groups of the KPZ that have scripts, a sequence: each has an archive of its own
  Sources,      \* FC4 registers of the enabled groups: "index", and "other" if it is not alone
  StaleAge,     \* IDX_QUALITY_STALE_SEC, in steps of the clock of samples
  NoResponses,  \* no_response_failures
  IndexIs400,   \* the index register has the address 400
  MaxQueue,     \* bound of the model on deltas that wait in the writer's channel
  MaxFaults     \* bound of the model on restarts, KPZ starts, timeouts, refused and missing
                \* frames and jobs that no index was confirmed for

ASSUME ArchiveAssumption ==
  /\ Groups \in Seq(ToSet(Groups)) /\ IsInjective(Groups) /\ Groups # <<>>
  /\ Sources \subseteq {"index", "other"}
  /\ StaleAge \in Nat \ {0} /\ NoResponses \in Nat \ {0} /\ IndexIs400 \in BOOLEAN
  /\ {MaxQueue, MaxFaults} \subseteq Nat

Archives == ToSet(Groups)
NoAge == StaleAge + 2   \* no sample yet

VARIABLES
  rv,       \* the runtime values scripts use: index by archive, confirmed index (if there is
            \* one), quality of it and of the other sources
  seen,     \* IdxSeen of the index register: samples and the age of the last one
  streak,   \* timeouts in a row
  job,      \* the S job under way, or Idle
  queue,    \* deltas handed to the writer and not stored
  db,       \* arx_state and arx_val
  dropped,  \* history: records of groups whose job failed at a later group
  lagged,   \* history: a job read an index that the writer had not brought up to date
  lapped,   \* history: the ring went all round before a job had read any of it
  blind,    \* history: a job ran though no index had been confirmed since the start
  sure,     \* history: readings of the index since it was last in doubt, up to 2
  faults    \* history: what MaxFaults bounds
serverVars == <<rv, seen, streak, job, queue, db, dropped, lagged, blind, sure, faults>>
archiveVars == <<deviceVars, serverVars, lapped>>

Idle == [on |-> FALSE, todo |-> <<>>, rows |-> {}, upd |-> <<>>, sure |-> 0, other |-> FALSE]

\* An archive index with, for the properties, the record it stands for.
At(i, ts) == [ind |-> i, ts |-> ts]

NoValues == [ind |-> [a \in Archives |-> 0], stable |-> 0, known |-> FALSE, ready |-> FALSE,
             others |-> FALSE]
Unseen == [samples |-> 0, age |-> NoAge]

ArchiveInit ==
  /\ DeviceInit
  /\ rv = NoValues /\ seen = Unseen
  /\ streak = 0 /\ job = Idle /\ queue = <<>>
  /\ db = [last |-> [a \in Archives |-> At(0, 1)], rows |-> {}]
  /\ dropped = {} /\ lagged = FALSE /\ lapped = FALSE /\ blind = FALSE /\ sure = 0
  /\ faults = 0

-----------------------------------------------------------------------------
(* The device moves on *)

\* What a job has read of the ring: stored, waiting, in hand, or lost with a job.
Read(a) ==
  {ts \in 0 .. MaxMinute :
     \/ <<a, ts>> \in db.rows \cup job.rows \cup dropped
     \/ \E i \in DOMAIN queue : <<a, ts>> \in queue[i].rows}

\* Record 1 was there before the first job.
Laps ==
  \E a \in Archives : \A i \in 0 .. Records - 1 :
    slots'[Base].ring[i] \notin Read(a) \cup {0, 1}

\* The window is used before the server's first sample (bound of the model):
\* what is said of the records leaves out a ring that was tampered with.
ByHand == seen.age = NoAge /\ faults = 0 /\ (TickNow \/ ResetRing)

DeviceStep ==
  /\ Time \/ (\E m \in Modems : TickSlot(m) \/ Packet(m)) \/ ByHand
  /\ lapped' = (lapped \/ Laps)
  /\ UNCHANGED serverVars

\* The server asks the device: handle_packet on the way.
Asks == /\ slots' = WithSlot(Base, Answering(Base))
        /\ lapped' = (lapped \/ Laps)
        /\ UNCHANGED <<minute, byHand>>
NotAsked == UNCHANGED <<deviceVars, lapped>>

-----------------------------------------------------------------------------
(* Quality of the index *)

\* Mutant: samples kept by a worker are not merged back.
SampleNotMerged(s) == [samples |-> 1, age |-> 0]

\* update_idx_quality: a second reading within the second does not count.
Sampled(s) == IF s.age = 0 THEN s
              ELSE [samples |-> IF s.samples < 2 THEN s.samples + 1 ELSE 2, age |-> 0]

\* The registers 60000 and 80000 of the slot follow the samples.
Quality(v, s, value) ==
  IF s.age = 0 THEN v
  ELSE IF Sampled(s).samples >= 2 THEN [v EXCEPT !.ready = TRUE, !.stable = value, !.known = TRUE]
  ELSE [v EXCEPT !.ready = FALSE]

Stale(s) == s.age = StaleAge + 1

\* Mutant: an old index loses its samples and keeps its quality.
StaleKeepsReady(v, s) == v

\* refresh_idx_quality_staleness
Refreshed(v, s) == IF Stale(s) THEN [v EXCEPT !.ready = FALSE] ELSE v
RefreshedSeen(s) == IF Stale(s) THEN [s EXCEPT !.samples = 0] ELSE s
RefreshedSure == IF Stale(seen) THEN 0 ELSE sure

\* mark_no_response_and_backoff, for the quality: the registers of address 400.
Silent(n) == n >= NoResponses
ClosedBySilence(v) == IF IndexIs400 THEN [v EXCEPT !.ready = FALSE] ELSE v
More(n) == IF n < NoResponses THEN n + 1 ELSE NoResponses

\* v, s and n are the values, the samples and the confirmations so far.
TimedOut(v, s, n) ==
  LET silent == Silent(More(streak)) IN
  /\ streak' = More(streak)
  /\ rv' = IF silent THEN ClosedBySilence(v) ELSE v
  /\ seen' = IF silent THEN [s EXCEPT !.samples = 0] ELSE s
  /\ sure' = IF silent THEN 0 ELSE n

Fault == faults < MaxFaults /\ faults' = faults + 1

\* The clock of the samples.  Jobs look at it when they start, so it moves
\* between jobs only.
Older ==
  /\ ~job.on
  /\ seen.age <= StaleAge
  /\ seen' = [seen EXCEPT !.age = @ + 1]
  /\ NotAsked
  /\ UNCHANGED <<rv, streak, job, queue, db, dropped, lagged, blind, sure, faults>>

\* An A job reads the index register.
PollIndex ==
  /\ ~job.on
  /\ "index" \in Sources
  /\ Asks
  /\ rv' = Quality(Refreshed(rv, seen), RefreshedSeen(seen), slots'[Base].shown)
  /\ seen' = Sampled(RefreshedSeen(seen))
  /\ sure' = IF seen.age = 0 \/ RefreshedSure = 2 THEN sure ELSE RefreshedSure + 1
  /\ streak' = 0
  /\ UNCHANGED <<job, queue, db, dropped, lagged, blind, faults>>

\* An A job reads other sources and not the index.  Of these the model keeps
\* whether one of them counts; they have readings and ages of their own.
PollOthers ==
  /\ ~job.on
  /\ "other" \in Sources
  /\ Asks
  /\ \E ready \in BOOLEAN : rv' = [Refreshed(rv, seen) EXCEPT !.others = ready]
  /\ seen' = RefreshedSeen(seen)
  /\ sure' = RefreshedSure
  /\ streak' = 0
  /\ UNCHANGED <<job, queue, db, dropped, lagged, blind, faults>>

\* The device may have taken the request.
PollTimesOut ==
  /\ ~job.on
  /\ TimedOut(Refreshed(rv, seen), RefreshedSeen(seen), RefreshedSure)
  /\ Asks \/ NotAsked
  /\ Fault
  /\ UNCHANGED <<job, queue, db, dropped, lagged, blind>>

-----------------------------------------------------------------------------
(* The S job *)

Handed(s) == DOMAIN s.upd # {}

\* Mutant: the index is only read where the worker has none.
PrimedOnce == [a \in Archives |-> IF rv.ind[a] = 0 THEN db.last[a].ind ELSE rv.ind[a]]

\* prime_arx_state: what the database has, whatever the worker knew.
Primed == [a \in Archives |-> db.last[a].ind]

\* The job is let in by another source, or because there is none to ask.
LetIn(v) == Sources = {} \/ v.others

\* run_script_mode up to the first group.  A job that is not let in ends, which
\* counts as a success of the device.
StartScript ==
  /\ ~job.on
  /\ seen' = RefreshedSeen(seen)
  /\ sure' = RefreshedSure
  /\ LET v == Refreshed(rv, seen) IN
     IF v.ready \/ LetIn(v)
       THEN /\ rv' = [v EXCEPT !.ind = Primed]
            /\ job' = [Idle EXCEPT !.on = TRUE, !.todo = Groups, !.sure = sure', !.other = LetIn(v)]
            /\ lagged' = (lagged \/ \E i \in DOMAIN queue : Handed(queue[i]))
            /\ blind' = (blind \/ ~v.known)
            /\ IF v.known THEN UNCHANGED faults ELSE Fault
            /\ UNCHANGED streak
       ELSE rv' = v /\ streak' = 0 /\ UNCHANGED <<job, lagged, blind, faults>>
  /\ NotAsked
  /\ UNCHANGED <<queue, db, dropped>>

Next1(i) == (i + 1) % Records

\* decode_pre_cmds of what PRE left in the registers from 1000 on.  A script
\* that asks for an index that was never confirmed gets 0.
PreCmds(a) == IF rv.ind[a] = rv.stable THEN {} ELSE {Next1(rv.ind[a])}

\* The end of a job: the delta goes to the writer, failed or not.
HandOver(rows, upd) ==
  /\ queue' = IF rows = {} /\ DOMAIN upd = {} THEN queue
              ELSE Append(queue, [rows |-> rows, upd |-> upd])
  /\ job' = Idle

NoCommand ==
  /\ job.on /\ job.todo # <<>>
  /\ PreCmds(Head(job.todo)) = {}
  /\ job' = [job EXCEPT !.todo = Tail(@)]
  /\ NotAsked
  /\ UNCHANGED <<rv, seen, streak, queue, db, dropped, lagged, blind, sure, faults>>

\* Mutant: the index is stored before the answer is looked at.
HandledAnyway(good) == TRUE

\* A frame without data, with too few words, or that POST cannot evaluate is passed over.
Handled(good) == good

\* Mutant: the write-back reaches the worker's values and not the delta.
NotPushed(upd, a, last) == upd

\* apply_write_back and apply_arx_index_update push to the delta.
Pushed(upd, a, last) == [b \in DOMAIN upd \cup {a} |-> IF b = a THEN last ELSE upd[b]]

Exchange(good) ==
  LET a == Head(job.todo) IN
  /\ job.on /\ job.todo # <<>>
  /\ Asks
  /\ \E i \in PreCmds(a) :
       LET ts == slots'[Base].ring[i] IN
       IF Handled(good)
         THEN /\ rv' = [rv EXCEPT !.ind[a] = i]
              /\ job' = [job EXCEPT !.todo = Tail(@),
                           !.rows = IF good THEN @ \cup {<<a, ts>>} ELSE @,
                           !.upd = Pushed(@, a, At(i, ts))]
         ELSE job' = [job EXCEPT !.todo = Tail(@)] /\ UNCHANGED rv
  /\ IF good THEN UNCHANGED faults ELSE Fault
  /\ UNCHANGED <<seen, streak, queue, db, dropped, lagged, blind, sure>>

\* No answer, or fewer frames than requests: the error ends the job.  The
\* rows of the groups before are lost, the index updates are not.
ScriptFails(timeout) ==
  /\ job.on /\ job.todo # <<>>
  /\ PreCmds(Head(job.todo)) # {}
  /\ Asks \/ NotAsked
  /\ HandOver({}, job.upd)
  /\ dropped' = dropped \cup job.rows
  /\ IF timeout THEN TimedOut(rv, seen, sure) ELSE UNCHANGED <<rv, seen, streak, sure>>
  /\ Fault
  /\ UNCHANGED <<db, lagged, blind>>

ScriptEnds ==
  /\ job.on /\ job.todo = <<>>
  /\ HandOver(job.rows, job.upd)
  /\ streak' = 0
  /\ NotAsked
  /\ UNCHANGED <<rv, seen, db, dropped, lagged, blind, sure, faults>>

-----------------------------------------------------------------------------
(* The writer, and restarts *)

\* Of the updates of one archive the last one counts.
Updating(a, n) == {i \in 1 .. n : a \in DOMAIN queue[i].upd}
Batch(n) == [rows |-> UNION {queue[i].rows : i \in 1 .. n},
             last |-> [a \in Archives |-> IF Updating(a, n) = {} THEN db.last[a]
                                          ELSE queue[Max(Updating(a, n))].upd[a]]]

\* Rows of one key that meet in one statement are refused (DbWriter).
RefusedBatch(n) == \E i, j \in 1 .. n : i < j /\ queue[i].rows \cap queue[j].rows # {}

Flush(n) ==
  /\ ~RefusedBatch(n)
  /\ db' = [rows |-> db.rows \cup Batch(n).rows, last |-> Batch(n).last]
  /\ queue' = SubSeq(queue, n + 1, Len(queue))
  /\ NotAsked
  /\ UNCHANGED <<rv, seen, streak, job, dropped, lagged, blind, sure, faults>>

\* The process ends at any moment, also because a batch was refused, and
\* starts again with the database as it is.
Restart ==
  /\ \/ Fault
     \/ (\E n \in DOMAIN queue : RefusedBatch(n)) /\ UNCHANGED faults
  /\ rv' = NoValues /\ seen' = Unseen
  /\ streak' = 0 /\ job' = Idle /\ queue' = <<>> /\ sure' = 0
  /\ NotAsked
  /\ UNCHANGED <<db, dropped, lagged, blind>>

\* An operator stops the KPZ and starts it again: on_kpz_start, after the drain.
KpzStarts ==
  /\ ~job.on
  /\ Fault
  /\ rv' = NoValues /\ seen' = Unseen
  /\ streak' = 0 /\ sure' = 0
  /\ NotAsked
  /\ UNCHANGED <<job, queue, db, dropped, lagged, blind>>

-----------------------------------------------------------------------------
ScriptStep == StartScript \/ NoCommand \/ Exchange(TRUE) \/ ScriptEnds

ArchiveNext ==
  \/ DeviceStep
  \/ Older
  \/ PollIndex \/ PollOthers \/ PollTimesOut
  \/ Len(queue) < MaxQueue /\ ScriptStep
  \/ Len(queue) < MaxQueue /\ (Exchange(FALSE) \/ \E t \in BOOLEAN : ScriptFails(t))
  \/ \E n \in DOMAIN queue : Flush(n)
  \/ Restart \/ KpzStarts

ArchiveSpec == ArchiveInit /\ [][ArchiveNext]_archiveVars

\* Time passes, the loop comes round with both kinds of job, answers are
\* evaluated and the writer flushes.  A job asks again within a second or
\* later, and an S job comes before the index is too old: the periods of both
\* are far below IDX_QUALITY_STALE_SEC.
InTime == rv.ready /\ ~Stale(seen) /\ Len(queue) < MaxQueue

FairSpec ==
  /\ ArchiveSpec
  /\ SF_archiveVars(Older) /\ SF_archiveVars(PollIndex)
  /\ SF_archiveVars(seen.age \in 1 .. StaleAge /\ PollIndex)
  /\ SF_archiveVars(InTime /\ StartScript)
  /\ SF_archiveVars(Len(queue) < MaxQueue /\ (NoCommand \/ Exchange(TRUE) \/ ScriptEnds))
  /\ WF_archiveVars(\E n \in DOMAIN queue : Flush(n))
  /\ WF_archiveVars(Restart /\ \E n \in DOMAIN queue : RefusedBatch(n))

-----------------------------------------------------------------------------
(* Properties *)

RowType == Archives \X (0 .. MaxMinute)

ArchiveTypeOK ==
  /\ SlotType
  /\ rv.ind \in [Archives -> 0 .. Records - 1] /\ rv.stable \in 0 .. Records - 1
  /\ {rv.known, rv.ready, rv.others} \subseteq BOOLEAN
  /\ seen.samples \in 0 .. 2 /\ seen.age \in 0 .. NoAge
  /\ streak \in 0 .. NoResponses /\ sure \in 0 .. 2
  /\ job.rows \subseteq RowType /\ db.rows \subseteq RowType /\ dropped \subseteq RowType
  /\ Len(queue) <= MaxQueue
  /\ \A a \in Archives : db.last[a].ind \in 0 .. Records - 1

Undisturbed == byHand = 0 /\ ~lapped /\ ~blind

\* Whenever the process dies, every record up to the archive index in the
\* database is in arx_val, so that a restart that goes on from the index skips
\* none.  The only exceptions are records read by a job that failed at a later
\* group, whose rows the code drops and whose index it keeps (smode.rs
\* 577-610, 656-720, rv_state.rs 712-782).  And as long as the writer has stored
\* the index before the next job reads it back, no record is handed to the
\* writer twice, across failures and restarts, so that no batch is refused for
\* it (rv_state.rs 677-704).  Left out are a ring that went round unread, and what
\* jobs do that another source let in before the index was ever confirmed: they
\* take 0 for it and go round the ring.  The ring of the device itself stays
\* without a gap.
EachRecordOnce ==
  /\ ArchiveTypeOK /\ RingContiguous
  /\ Undisturbed =>
       \A a \in Archives : \A ts \in 2 .. db.last[a].ts : <<a, ts>> \in db.rows \cup dropped
  /\ Undisturbed /\ ~lagged =>
       \A i \in DOMAIN queue :
         /\ queue[i].rows \cap db.rows = {}
         /\ \A j \in DOMAIN queue \ {i} : queue[i].rows \cap queue[j].rows = {}

\* A script reads the archive on an index that two readings have confirmed
\* since the device was last found silent or its index too old, or the server
\* started, the last of them not too old: unless another FC4 register let the
\* job in or there is none, and where silence closes the index register, which
\* it does at the address 400 only (rv_state.rs 788-850, worker.rs 671-682,
\* smode.rs 456-493).
ConfirmedOnly == IndexIs400 /\ job.on /\ ~job.other => job.sure = 2

\* Once the clock stands, every record is in arx_val in the end, unless the ring went round
\* unread, the record was read by a job that failed later, a job ran before the
\* index was confirmed, or the window tampered with the ring, and as long as the
\* writer keeps up: with one that
\* lags, jobs read records again, batches that hold them twice are refused, and
\* the server may restart for ever (smode.rs 456-777, rv_state.rs 677-850,
\* db_writer.rs 90-174).
RecordsArrive ==
  <>[](Archives \X (2 .. minute) \subseteq db.rows \cup dropped \/ ~Undisturbed \/ lagged)
=============================================================================
