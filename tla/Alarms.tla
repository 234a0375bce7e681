------------------------------- MODULE Alarms -------------------------------
(***************************************************************************)
(* The alarms of the ss4 server: a job evaluates the rules of a register   *)
(* for every value it reads (src/ss4/src/scheduler/alarm.rs 441-547), the  *)
(* main loop merges the worker's states and hands its transitions to the   *)
(* writer (worker.rs, merge.rs 105-121), and every synchronisation of the  *)
(* runtime configuration loads the rules and takes `active' from the       *)
(* database (state_sync.rs 661-740).                                       *)
(*                                                                         *)
(* All rules of a KPZ watch one register.  Time is kept as ages up to      *)
(* AgeMax.  A transition is the pair of a state update and an event, which *)
(* DbWriter shows to be stored in that order; a batch is stored in a step. *)
(***************************************************************************)
EXTENDS Integers, SequencesExt, FiniteSetsExt

CONSTANTS
  Kpz, Rules,
  Owner,       \* the KPZ of each rule
  Cfgs,        \* contents of an enabled row of alarm_rule
  Values,      \* values of a register
  NoLimit,     \* a limit that is null
  Off,         \* no enabled row
  NoRow,       \* no row of alarm_state, no event
  NoWorker,
  AgeMax,      \* bound of the model: no delay is longer
  MaxReads,    \* bound of the model on the readings of a job
  MaxSent,     \* capacity of the channel to the writer
  MaxEdits,    \* bound of the model on the edits of alarm_rule
  MaxLosses,   \* bound of the model on failed probes and restarts
  KeepsUp      \* whether the writer stores all it was sent before the next reload

Limits == Int \cup {NoLimit}

ASSUME AlarmsAssumption ==
  /\ Owner \in [Rules -> Kpz]
  /\ Values \subseteq Int
  /\ AgeMax \in Nat /\ MaxReads \in Nat /\ MaxSent \in Nat /\ MaxEdits \in Nat /\ MaxLosses \in Nat
  /\ KeepsUp \in BOOLEAN
  /\ \A c \in Cfgs : /\ c.lo \in Limits /\ c.hi \in Limits /\ c.lo1 \in Limits /\ c.hi1 \in Limits
                     /\ c.first \in BOOLEAN /\ c.h \in Int /\ c.cmp \in STRING
                     /\ c.on \in -AgeMax .. AgeMax /\ c.off \in -AgeMax .. AgeMax
  /\ Off \notin Cfgs /\ NoRow \notin BOOLEAN
  /\ NoWorker \notin [rt : [Rules -> [active : BOOLEAN, age : Int]], out : [Rules -> Seq(BOOLEAN)],
                      reads : Nat]

VARIABLES
  val,       \* value of the register of each KPZ
  rows,      \* alarm_rule: the contents of each rule, or Off
  edits,     \* history: number of edits
  losses,    \* history: number of failed probes and restarts
  enabled,   \* alarms_enabled
  rules,     \* alarm_rules_by_kpz_reg
  runtime,   \* alarm_runtime; a missing entry is the default one
  worker,    \* per KPZ: its copy of the runtime, its transitions, its readings
  sent,      \* transitions on their way to the writer: a sequence per job
  table,     \* alarm_state: `active' of each rule
  stored,    \* alarm_event: the last event of each rule
  contra     \* history: age of the unbroken series of readings that contradict
             \* what was last reported
vars == <<val, rows, edits, losses, enabled, rules, runtime, worker, sent, table, stored, contra>>

NoAge == -1
Ages  == NoAge .. AgeMax
State == [active : BOOLEAN, age : Ages]      \* AlarmRuntime; the age is that of pending_since
Default == [active |-> FALSE, age |-> NoAge]
NoTransition == [r \in Rules |-> <<>>]

-----------------------------------------------------------------------------
(* alarm_should_be_active *)

Limit(x, default) == IF x = NoLimit THEN default ELSE x
Lo(c) == Limit(c.lo, 0)
Hi(c) == Limit(c.hi, 0)
Lower(c) == IF c.first THEN Limit(c.lo1, Lo(c)) ELSE Lo(c)
Upper(c) == IF c.first THEN Limit(c.hi1, Hi(c)) ELSE Hi(c)
Hold(c, active) == IF active /\ c.h > 0 THEN c.h ELSE 0

ShouldBeActive(c, v, active) ==
  CASE c.cmp = "lt" -> v <  Lower(c) + Hold(c, active)
    [] c.cmp = "le" -> v <= Lower(c) + Hold(c, active)
    [] c.cmp = "gt" -> v >  Upper(c) - Hold(c, active)
    [] c.cmp = "ge" -> v >= Upper(c) - Hold(c, active)
    [] c.cmp = "between" -> v >= Lo(c) /\ v <= Hi(c)
    [] c.cmp = "outside" -> v < Lo(c) \/ v > Hi(c)
    [] OTHER -> FALSE

Wait(c, desired) == LET d == IF desired THEN c.on ELSE c.off IN IF d < 0 THEN 0 ELSE d

-----------------------------------------------------------------------------
(* The database and the device, seen from outside *)

SetValue(k, v) ==
  /\ val' = [val EXCEPT ![k] = v]
  /\ UNCHANGED <<rows, edits, losses, enabled, rules, runtime, worker, sent, table, stored, contra>>

Edit(r, c) ==
  /\ edits < MaxEdits /\ edits' = edits + 1
  /\ rows' = [rows EXCEPT ![r] = c]
  /\ UNCHANGED <<val, losses, enabled, rules, runtime, worker, sent, table, stored, contra>>

Older(age) == IF age = NoAge \/ age = AgeMax THEN age ELSE age + 1

OlderStates(f) == [r \in Rules |-> [f[r] EXCEPT !.age = Older(@)]]

Tick ==
  /\ runtime' = OlderStates(runtime)
  /\ worker' = [k \in Kpz |-> IF worker[k] = NoWorker THEN NoWorker
                              ELSE [worker[k] EXCEPT !.rt = OlderStates(@)]]
  /\ contra' = [r \in Rules |-> Older(contra[r])]
  /\ UNCHANGED <<val, rows, edits, losses, enabled, rules, sent, table, stored>>

-----------------------------------------------------------------------------
(* The main loop *)

NoneRuns == \A k \in Kpz : worker[k] = NoWorker

\* Mutant: a reload starts all delays anew.
LoadedAfresh(r) == [active |-> IF table[r] = NoRow THEN runtime[r].active ELSE table[r], age |-> NoAge]

\* Mutant: a reload does not look at alarm_state.
LoadedWithoutState(r) == runtime[r]

\* A row of alarm_state overrides `active'; the delay goes on.
Loaded(r) == IF table[r] = NoRow THEN runtime[r] ELSE [runtime[r] EXCEPT !.active = table[r]]

\* The reload finds the tables.  Rules that are gone lose their state.
Reload ==
  /\ NoneRuns
  /\ KeepsUp => sent = <<>>
  /\ enabled' = TRUE
  /\ rules' = rows
  /\ runtime' = [r \in Rules |-> IF rows[r] = Off THEN Default ELSE Loaded(r)]
  /\ UNCHANGED <<val, rows, edits, losses, worker, sent, table, stored, contra>>

\* The probe of the tables fails, or the process ends after finish and starts again.
Lose ==
  /\ NoneRuns
  /\ KeepsUp => sent = <<>>
  /\ losses < MaxLosses /\ losses' = losses + 1
  /\ enabled' = FALSE
  /\ rules' = [r \in Rules |-> Off]
  /\ runtime' = [r \in Rules |-> Default]
  /\ UNCHANGED <<val, rows, edits, worker, sent, table, stored, contra>>

Spawn(k) ==
  /\ worker[k] = NoWorker
  /\ worker' = [worker EXCEPT ![k] = [rt |-> runtime, out |-> NoTransition, reads |-> 0]]
  /\ UNCHANGED <<val, rows, edits, losses, enabled, rules, runtime, sent, table, stored, contra>>

-----------------------------------------------------------------------------
(* eval_alarms *)

\* Mutant: a reading that agrees with the state leaves the delay running.
AgreedKept(s) == s

Agreed(s) == [s EXCEPT !.age = NoAge]

Evaluated(r, s, v) ==
  LET desired == ShouldBeActive(rules[r], v, s.active)
  IN  IF desired = s.active THEN Agreed(s)
      ELSE IF s.age = NoAge THEN [s EXCEPT !.age = 0]
      ELSE IF s.age < Wait(rules[r], desired) THEN s
      ELSE [active |-> desired, age |-> NoAge]

Evaluates(k, r) == enabled /\ Owner[r] = k /\ rules[r] # Off

\* The last transition of r in the first n deltas; `first' if they have none.
LastIn(deltas, r, n, first) ==
  LET having == {i \in 1 .. n : deltas[i][r] # <<>>}
  IN  IF having = {} THEN first ELSE Last(deltas[Max(having)][r])

\* What the event stored last says, and the first n deltas under way.
Reported(r, n) == LastIn(sent, r, n, stored[r] # NoRow /\ stored[r])

\* The same with the job that runs.
LastReported(r) ==
  LET job == worker[Owner[r]]
  IN  IF job = NoWorker \/ job.out[r] = <<>> THEN Reported(r, Len(sent)) ELSE Last(job.out[r])

Contradicts(r, v) ==
  ShouldBeActive(rules[r], v, LastReported(r)) # LastReported(r)

Fires(k, r) ==
  Evaluates(k, r) /\ Evaluated(r, worker[k].rt[r], val[k]).active # worker[k].rt[r].active

HasRoom == Len(sent) < MaxSent

\* A job reads the register and evaluates its rules.
Read(k) ==
  /\ worker[k] # NoWorker
  /\ worker[k].reads < MaxReads
  /\ worker' = [worker EXCEPT ![k] =
        [rt    |-> [r \in Rules |-> IF Evaluates(k, r) THEN Evaluated(r, @.rt[r], val[k]) ELSE @.rt[r]],
         out   |-> [r \in Rules |-> IF Fires(k, r) THEN Append(@.out[r], ~@.rt[r].active) ELSE @.out[r]],
         reads |-> @.reads + 1]]
  /\ contra' = [r \in Rules |->
        IF Owner[r] # k THEN contra[r]
        ELSE IF ~Evaluates(k, r) \/ Fires(k, r) \/ ~Contradicts(r, val[k]) THEN NoAge
        ELSE IF contra[r] = NoAge THEN 0 ELSE contra[r]]
  /\ UNCHANGED <<val, rows, edits, losses, enabled, rules, runtime, sent, table, stored>>

\* The job is over, well or not: its transitions are sent, its states merged.
JobEnds(k) ==
  /\ worker[k] # NoWorker
  /\ IF worker[k].out = NoTransition THEN UNCHANGED sent
     ELSE HasRoom /\ sent' = Append(sent, worker[k].out)
  /\ runtime' = [r \in Rules |-> IF Owner[r] = k THEN worker[k].rt[r] ELSE runtime[r]]
  /\ worker' = [worker EXCEPT ![k] = NoWorker]
  /\ UNCHANGED <<val, rows, edits, losses, enabled, rules, table, stored, contra>>

\* The writer stores the first n deltas; of the states of a rule the last counts.
Flush(n) ==
  /\ n \in 1 .. Len(sent)
  /\ table'  = [r \in Rules |-> LastIn(sent, r, n, table[r])]
  /\ stored' = [r \in Rules |-> LastIn(sent, r, n, stored[r])]
  /\ sent' = SubSeq(sent, n + 1, Len(sent))
  /\ UNCHANGED <<val, rows, edits, losses, enabled, rules, runtime, worker, contra>>

-----------------------------------------------------------------------------
Init ==
  /\ val \in [Kpz -> Values]
  /\ rows \in [Rules -> Cfgs]
  /\ edits = 0 /\ losses = 0
  /\ enabled = FALSE
  /\ rules = [r \in Rules |-> Off]
  /\ runtime = [r \in Rules |-> Default]
  /\ worker = [k \in Kpz |-> NoWorker]
  /\ sent = <<>>
  /\ table = [r \in Rules |-> NoRow] /\ stored = [r \in Rules |-> NoRow]
  /\ contra = [r \in Rules |-> NoAge]

Next ==
  \/ \E k \in Kpz, v \in Values : SetValue(k, v)
  \/ \E r \in Rules, c \in Cfgs \cup {Off} : Edit(r, c)
  \/ Tick
  \/ Reload \/ Lose
  \/ \E k \in Kpz : Spawn(k) \/ Read(k) \/ JobEnds(k)
  \/ \E n \in 1 .. MaxSent : Flush(n)

Spec == Init /\ [][Next]_vars

\* Time passes; the loop comes round (Scheduler), so jobs run, and reloads happen
\* between the drains; the device answers again and again; the writer works.
FairSpec ==
  /\ Spec
  /\ WF_vars(Tick) /\ SF_vars(Reload)
  /\ \A k \in Kpz : WF_vars(Spawn(k)) /\ SF_vars(Read(k)) /\ WF_vars(JobEnds(k))
  /\ \A n \in 1 .. MaxSent : WF_vars(Flush(n))

-----------------------------------------------------------------------------
(* Properties *)

TypeOK ==
  /\ val \in [Kpz -> Values]
  /\ rows \in [Rules -> Cfgs \cup {Off}] /\ rules \in [Rules -> Cfgs \cup {Off}]
  /\ edits \in 0 .. MaxEdits /\ losses \in 0 .. MaxLosses /\ enabled \in BOOLEAN
  /\ runtime \in [Rules -> State]
  /\ worker \in [Kpz -> [rt : [Rules -> State], out : [Rules -> Seq(BOOLEAN)], reads : 0 .. MaxReads]
                         \cup {NoWorker}]
  /\ sent \in Seq([Rules -> Seq(BOOLEAN)]) /\ Len(sent) <= MaxSent
  /\ table \in [Rules -> BOOLEAN \cup {NoRow}] /\ stored \in [Rules -> BOOLEAN \cup {NoRow}]
  /\ contra \in [Rules -> Ages]

\* No transition is reported twice: the events of a rule, stored or under way,
\* take turns, across jobs, reloads, edits of the rule and restarts.
\* alarm.md 25 asks for it ("events are not duplicated for one and the same
\* transition"); alarm.rs 464-512, state_sync.rs 686-694.
TakeTurns(s, first) == \A i \in DOMAIN s : s[i] # IF i = 1 THEN first ELSE s[i - 1]

EventsAlternate ==
  TypeOK /\ \A r \in Rules :
    /\ \A i \in DOMAIN sent : TakeTurns(sent[i][r], Reported(r, i - 1))
    /\ worker[Owner[r]] # NoWorker => TakeTurns(worker[Owner[r]].out[r], Reported(r, Len(sent)))

\* A transition is reported only if every reading over its delay contradicted
\* the state reported last (alarm.rs 477-492), whatever reloads and edits do to
\* the states the delay is counted in.
DelayHonoured ==
  [][\A k \in Kpz, r \in Rules :
       (worker[k] # NoWorker /\ worker'[k] # NoWorker /\ worker'[k].out[r] # worker[k].out[r]) =>
         contra[r] >= Wait(rules[r], Last(worker'[k].out[r]))]_vars

Wanted(r, active) == rows[r] # Off /\ ShouldBeActive(rows[r], val[Owner[r]], ~active) = active

\* A condition that lasts is in alarm_state in the end and stays there, and so is
\* its end (state_sync.rs 686-694 does not undo it, alarm.rs 477-506).
ConditionArrives ==
  \A r \in Rules :
    /\ <>[]Wanted(r, TRUE) => <>[](table[r] = TRUE)
    /\ <>[]Wanted(r, FALSE) => <>[](table[r] # TRUE)
=============================================================================
