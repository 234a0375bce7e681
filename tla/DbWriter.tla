------------------------------ MODULE DbWriter ------------------------------
(***************************************************************************)
(* The asynchronous database writer of the ss4 scheduler                   *)
(* (src/ss4/src/scheduler/db_writer.rs, db_delta.rs and flush_db_delta of  *)
(* merge.rs).  The scheduler hands the delta of each finished worker to a  *)
(* bounded channel; the writer task takes all that waits there, merges it  *)
(* into one batch and flushes the batch with one statement per table,      *)
(* without a transaction.                                                  *)
(*                                                                         *)
(* A delta is known by the number of its offer.  A row of an append-only   *)
(* table, and the value of an upserted one, is the number of its delta.    *)
(***************************************************************************)
EXTENDS Naturals, Sequences, SequencesExt, FiniteSets

CONSTANTS
  Keys,         \* primary keys of arx_val: KPZ, register and second
  Rules,        \* alarm rules
  Arx,          \* archives of the devices, by KPZ and number
  Shapes,       \* the contents of the deltas that workers produce
  MaxInflight,  \* Scheduler.max_inflight
  MaxDeltas     \* bound of the model on the deltas offered

Shape == [rows : Seq(Keys),        \* archive values
          elam : BOOLEAN,          \* a journal row of the exchange
          log : BOOLEAN,           \* rows of poll_log
          alarms : SUBSET Rules,   \* transitions: a new state and its event
          indexes : SUBSET Arx]    \* archives read further

Capacity == 2 * IF MaxInflight > 1 THEN MaxInflight ELSE 1

ASSUME DbWriterAssumption ==
  /\ Shapes \subseteq Shape
  /\ MaxInflight \in Nat /\ MaxDeltas \in Nat

VARIABLES
  prod,       \* the scheduler: idle, sending, finishing, finished, error
  offered,    \* history: the deltas offered, in order
  shed,       \* history: numbers of the deltas whose poll logs were dropped
  sending,    \* the delta that send waits with, or <<>>
  channel,    \* the bounded channel
  open,       \* the sender is not dropped
  writer,     \* the writer task: recv, collect, a statement, done, failed
  batch,      \* the DbDelta being collected or flushed
  dbFault,    \* history: the database refused a statement that was right
  db          \* the six tables
prodVars   == <<prod, offered, shed, sending, open>>
writerVars == <<writer, batch, dbFault, db>>
vars == <<prodVars, channel, writerVars>>

-----------------------------------------------------------------------------
(* DbDelta *)

Delta(n, s) ==
  [rows    |-> [i \in DOMAIN s.rows |-> [key |-> s.rows[i], n |-> n]],
   elam    |-> IF s.elam THEN <<n>> ELSE <<>>,
   logs    |-> IF s.log THEN <<n>> ELSE <<>>,
   states  |-> [r \in Rules |-> IF r \in s.alarms THEN n ELSE 0],
   events  |-> IF s.alarms = {} THEN <<>> ELSE <<[n |-> n, rules |-> s.alarms]>>,
   indexes |-> [a \in Arx |-> IF a \in s.indexes THEN n ELSE 0]]

None == [rows |-> <<>>, elam |-> <<>>, logs |-> <<>>, states |-> [r \in Rules |-> 0],
         events |-> <<>>, indexes |-> [a \in Arx |-> 0]]

IsEmptyDelta(d) == d = None

\* Mutant: the first value of a key stays.
KeepFirst(old, new) == [x \in DOMAIN old |-> IF old[x] = 0 THEN new[x] ELSE old[x]]

\* The last value of a key wins; 0 is no value.
Coalesce(old, new) == [x \in DOMAIN old |-> IF new[x] = 0 THEN old[x] ELSE new[x]]

\* append_coalescing_runtime_updates
Merged(b, d) ==
  [rows |-> b.rows \o d.rows, elam |-> b.elam \o d.elam, logs |-> b.logs \o d.logs,
   states |-> Coalesce(b.states, d.states), events |-> b.events \o d.events,
   indexes |-> Coalesce(b.indexes, d.indexes)]

-----------------------------------------------------------------------------
(* The scheduler's side *)

ShedThreshold == IF (Capacity * 3) \div 4 > 1 THEN (Capacity * 3) \div 4 ELSE 1

\* Mutant: journal rows are dropped with the poll logs.
ShedJournal(d) == [d EXCEPT !.logs = <<>>, !.elam = <<>>]

DropPollLogs(d) == [d EXCEPT !.logs = <<>>]

\* enqueue up to send: the depth is read once, before the wait.
Offer(s) ==
  LET n    == Len(offered) + 1
      full == Len(channel) >= ShedThreshold
      d    == IF full THEN DropPollLogs(Delta(n, s)) ELSE Delta(n, s)
  IN  /\ prod = "idle"
      /\ n <= MaxDeltas
      /\ offered' = Append(offered, s)
      /\ shed' = IF full /\ s.log THEN shed \cup {n} ELSE shed
      /\ IF IsEmptyDelta(d)
           THEN UNCHANGED <<prod, sending>>
           ELSE prod' = "sending" /\ sending' = <<d>>
      /\ UNCHANGED <<open, channel, writerVars>>

Permit == Len(channel) < Capacity

Send ==
  /\ prod = "sending"
  /\ writer \notin {"done", "failed"}
  /\ Permit
  /\ channel' = channel \o sending
  /\ sending' = <<>>
  /\ prod' = "idle"
  /\ UNCHANGED <<offered, shed, open, writerVars>>

\* Mutant: a sender that waits does not learn that the receiver is gone.
GoneUnseen == FALSE

\* The receiver is dropped with the writer task.
Gone == writer \in {"done", "failed"}

\* send fails once the writer is gone, also while it waits: the error ends the loop.
SendFails ==
  /\ prod = "sending"
  /\ Gone
  /\ prod' = "error"
  /\ sending' = <<>>
  /\ open' = FALSE
  /\ UNCHANGED <<offered, shed, channel, writerVars>>

\* Mutant: the writer is joined with the sender still there.
SenderKept == TRUE

\* finish: the sender is dropped, then the writer is joined.
OpenAfterFinish == FALSE

Finish ==
  /\ prod = "idle"
  /\ prod' = "finishing"
  /\ open' = OpenAfterFinish
  /\ UNCHANGED <<offered, shed, sending, channel, writerVars>>

Joined ==
  /\ prod = "finishing"
  /\ writer \in {"done", "failed"}
  /\ prod' = IF writer = "done" THEN "finished" ELSE "error"
  /\ UNCHANGED <<offered, shed, sending, open, channel, writerVars>>

\* Another error ends the loop between two deltas: the process exits and
\* nobody waits for the writer.
Abandon ==
  /\ prod = "idle"
  /\ prod' = "error"
  /\ open' = FALSE
  /\ UNCHANGED <<offered, shed, sending, channel, writerVars>>

-----------------------------------------------------------------------------
(* The writer task *)

\* Once the process is over the writer does not run.
Alive == prod # "error"

Recv ==
  /\ Alive
  /\ writer = "recv"
  /\ channel # <<>>
  /\ batch' = Merged(None, Head(channel))
  /\ channel' = Tail(channel)
  /\ writer' = "collect"
  /\ UNCHANGED <<prodVars, dbFault, db>>

\* try_recv, while the scheduler may go on sending.
TryRecv ==
  /\ Alive
  /\ writer = "collect"
  /\ channel # <<>>
  /\ batch' = Merged(batch, Head(channel))
  /\ channel' = Tail(channel)
  /\ UNCHANGED <<prodVars, writer, dbFault, db>>

\* Mutants: the archive index first; events before the states they report.
IndexFirst  == <<"indexes", "rows", "elam", "logs", "states", "events">>
EventsFirst == <<"rows", "elam", "logs", "events", "states", "indexes">>

\* The statements of flush_db_delta.
Statements == <<"rows", "elam", "logs", "states", "events", "indexes">>

NextStatement(i) == IF i < Len(Statements) THEN Statements[i + 1] ELSE "recv"

StartFlush ==
  /\ Alive
  /\ writer = "collect"
  /\ channel = <<>>
  /\ writer' = Statements[1]
  /\ UNCHANGED <<prodVars, channel, batch, dbFault, db>>

\* insert ... on conflict do update refuses two rows of one key.
Refused(stmt) ==
  /\ stmt = "rows"
  /\ \E i, j \in DOMAIN batch.rows : i < j /\ batch.rows[i].key = batch.rows[j].key

Stored(stmt) ==
  CASE stmt = "rows" -> [db EXCEPT !.rows =
         [k \in Keys |-> IF \E i \in DOMAIN batch.rows : batch.rows[i].key = k
                           THEN batch.rows[CHOOSE i \in DOMAIN batch.rows : batch.rows[i].key = k].n
                           ELSE @[k]]]
    [] stmt \in {"states", "indexes"} -> [db EXCEPT ![stmt] = Coalesce(@, batch[stmt])]
    [] OTHER -> [db EXCEPT ![stmt] = @ \o batch[stmt]]

Statement(i) ==
  /\ Alive
  /\ writer = Statements[i]
  /\ ~Refused(writer)
  /\ db' = Stored(writer)
  /\ writer' = NextStatement(i)
  /\ batch' = IF writer' = "recv" THEN None ELSE batch
  /\ UNCHANGED <<prodVars, channel, dbFault>>

\* An error of a statement ends the writer: what it holds and what waits in
\* the channel is lost.  The connection may break after the statement was run.
StatementFails(i, fault) ==
  /\ Alive
  /\ writer = Statements[i]
  /\ batch[writer] # None[writer]
  /\ fault \/ Refused(writer)
  /\ dbFault' = fault
  /\ writer' = "failed"
  /\ channel' = <<>>
  /\ db' \in IF Refused(Statements[i]) THEN {db} ELSE {db, Stored(Statements[i])}
  /\ UNCHANGED <<prodVars, batch>>

\* Mutant: the writer ends when the sender is dropped, whatever waits.
MayEndEarly == ~open

MayEnd == ~open /\ channel = <<>>

WriterDone ==
  /\ Alive
  /\ writer = "recv"
  /\ MayEnd
  /\ writer' = "done"
  /\ UNCHANGED <<prodVars, channel, batch, dbFault, db>>

\* The process is over.
Ended == prod \in {"finished", "error"} /\ UNCHANGED vars

-----------------------------------------------------------------------------
Init ==
  /\ prod = "idle" /\ offered = <<>> /\ shed = {} /\ sending = <<>> /\ open = TRUE
  /\ channel = <<>>
  /\ writer = "recv" /\ batch = None /\ dbFault = FALSE
  /\ db = [None EXCEPT !.rows = [k \in Keys |-> 0]]

Writer ==
  \/ Recv \/ TryRecv \/ StartFlush \/ WriterDone
  \/ \E i \in DOMAIN Statements :
       Statement(i) \/ \E fault \in BOOLEAN : StatementFails(i, fault)

Next ==
  \/ \E s \in Shapes : Offer(s)
  \/ Send \/ SendFails \/ Finish \/ Joined \/ Abandon
  \/ Writer
  \/ Ended

Spec == Init /\ [][Next]_vars

\* Both tasks are polled while they can proceed and a statement of the
\* database ends, with a result or with an error.  TryRecv must not be taken
\* for ever: the deltas are finitely many.
FairSpec == Spec /\ WF_vars(Writer) /\ WF_vars(Send) /\ WF_vars(SendFails) /\ WF_vars(Joined)

-----------------------------------------------------------------------------
(* Properties *)

Numbers == 1 .. MaxDeltas
Deltas  == [rows : Seq([key : Keys, n : Numbers]), elam : Seq(Numbers), logs : Seq(Numbers),
            states : [Rules -> 0 .. MaxDeltas],
            events : Seq([n : Numbers, rules : SUBSET Rules]),
            indexes : [Arx -> 0 .. MaxDeltas]]

TypeOK ==
  /\ prod \in {"idle", "sending", "finishing", "finished", "error"}
  /\ offered \in Seq(Shapes) /\ shed \subseteq Numbers
  /\ sending \in Seq(Deltas) /\ Len(sending) <= 1
  /\ channel \in Seq(Deltas) /\ Len(channel) <= Capacity
  /\ open \in BOOLEAN /\ dbFault \in BOOLEAN
  /\ writer \in Range(Statements) \cup {"recv", "collect", "done", "failed"}
  /\ batch \in Deltas
  /\ [db EXCEPT !.rows = <<>>] \in Deltas /\ db.rows \in [Keys -> 0 .. MaxDeltas]

\* The numbers of the offers that hold a row of each append-only table.
ElamOffered   == {n \in DOMAIN offered : offered[n].elam}
LogsOffered   == {n \in DOMAIN offered : offered[n].log /\ n \notin shed}
AlarmsOffered == {n \in DOMAIN offered : offered[n].alarms # {}}
EventsStored  == [i \in DOMAIN db.events |-> db.events[i].n]

InOrder(s) == \A i, j \in DOMAIN s : i < j => s[i] < s[j]

\* s lists the numbers of S, or the first of them, each once and in order.
AllOf(s, S)   == InOrder(s) /\ ToSet(s) = S
FirstOf(s, S) == \E m \in 0 .. Len(offered) : AllOf(s, {n \in S : n <= m})

\* At every moment, so also after a crash or a failed statement, each
\* append-only table holds the first rows that were handed over, each once, in
\* order and without a gap; only poll logs are ever dropped (db_writer.rs
\* 38-79, 82-108, db_delta.rs 28-34).
NoGapsNoRepeats ==
  /\ TypeOK
  /\ FirstOf(db.elam, ElamOffered)
  /\ FirstOf(db.logs, LogsOffered)
  /\ FirstOf(EventsStored, AlarmsOffered)

\* x is the last number of S, or 0 if there is none.
IsLatest(x, S) == x \in S \cup {0} /\ \A n \in S : n <= x

\* If finish returns Ok, the database holds everything that was handed over,
\* and the last value of everything that is overwritten (db_writer.rs 144-173).
FinishStoresAll ==
  prod = "finished" =>
    /\ AllOf(db.elam, ElamOffered)
    /\ AllOf(db.logs, LogsOffered)
    /\ AllOf(EventsStored, AlarmsOffered)
    /\ \A r \in Rules : IsLatest(db.states[r], {n \in DOMAIN offered : r \in offered[n].alarms})
    /\ \A a \in Arx : IsLatest(db.indexes[a], {n \in DOMAIN offered : a \in offered[n].indexes})
    /\ \A k \in Keys :
         IsLatest(db.rows[k], {n \in DOMAIN offered : k \in ToSet(offered[n].rows)})

\* The rows of a flush are stored in an order that a restart can rely on,
\* wherever the process dies.  The index of an archive is never ahead of the
\* archive rows, so that going on from the index skips none (merge.rs 198-207,
\* 326-335); an event has its state, so that a process restarted from
\* alarm_state does not report the transition again (merge.rs 241-325).
RestartFindsAll ==
  /\ \A a \in Arx : \A n \in 1 .. db.indexes[a] : \A k \in ToSet(offered[n].rows) : db.rows[k] >= n
  /\ \A i \in DOMAIN db.events : \A r \in db.events[i].rules : db.states[r] >= db.events[i].n

\* A scheduler that waits for room in the channel goes on, with its delta
\* accepted or with an error: it never waits for a writer that is gone; and
\* finish returns (db_writer.rs 38-79, 144-173).
CallsReturn ==
  /\ prod = "sending" ~> prod \in {"idle", "error"}
  /\ prod = "finishing" ~> prod \in {"finished", "error"}
=============================================================================
