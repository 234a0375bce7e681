------------------------------- MODULE AMode -------------------------------
(***************************************************************************)
(* The regular poll of the ss4 server: what an A-mode job reads, caches    *)
(* and archives.  The requests of a KPZ travel in chunks, and the frames   *)
(* of all replies are matched to the requests by their position            *)
(* (src/ss4/src/modbus_service.rs 335-449, modbus.rs 286-425); a value is  *)
(* archived when it changed, when it is the first one, or when a flag      *)
(* forces it (src/ss4/src/scheduler/amode.rs 403-494, merge.rs 65-139,     *)
(* state_sync.rs 502-559).                                                 *)
(*                                                                         *)
(* A block holds one register.  A value carries the register it was read   *)
(* from.  Of the archive the last row of each register is kept.            *)
(***************************************************************************)
EXTENDS Integers, SequencesExt, FiniteSetsExt

CONSTANTS
  Kpz, Regs,
  Plan,       \* the registers a KPZ asks for, in the order of its requests
  Width,      \* number of words of each register
  Vals,       \* readings of each register
  Archived,   \* registers an operator archives, bound of the model
  NoValue, NoWorker,
  PerChunk,   \* requests that fit into a packet
  MaxSent,    \* capacity of the channel to the writer
  MaxEdits,   \* bound of the model on edits, starts and stops
  Duplicates  \* whether the network delivers the reply to a chunk twice

ASSUME AModeAssumption ==
  /\ Plan \in [Kpz -> Seq(Regs)] /\ Width \in [Regs -> Nat] /\ DOMAIN Vals = Regs
  /\ \A k \in Kpz : \A i, j \in DOMAIN Plan[k] : Plan[k][i] = Plan[k][j] => i = j
  /\ Archived \subseteq Regs /\ PerChunk \in Nat \ {0} /\ MaxSent \in Nat /\ MaxEdits \in Nat
  /\ Duplicates \in BOOLEAN /\ \A r \in Regs : NoValue \notin {r} \X Vals[r]

VARIABLES
  dev,      \* the value of each register of each device
  aEn,      \* column a_en of the table of registers
  edits,    \* history: number of edits, starts and stops
  loaded,   \* a_en as it was loaded last
  force,    \* force_archive_once_reg_ids
  rv,       \* rv_by_kpz: the cached values
  primed,   \* primed_archive_once_by_kpz
  worker,   \* the job of each KPZ, with its copies
  sent,     \* rows on their way to the writer
  archive,  \* arx_val: the last row of each register
  dropped   \* history: registers a row of which a failed job took with it
vars == <<dev, aEn, edits, loaded, force, rv, primed, worker, sent, archive, dropped>>

RegsOf(k)   == Range(Plan[k])        \* relevant_reg_ids_by_kpz
ValueOf(r)  == {r} \X Vals[r]
Value       == UNION {ValueOf(r) : r \in Regs}
NoValues    == [r \in Regs |-> NoValue]
Chunks(k)   == (Len(Plan[k]) + PerChunk - 1) \div PerChunk

-----------------------------------------------------------------------------
(* Devices and operators, seen from outside *)

SetValue(k, r, v) ==
  /\ r \in RegsOf(k)
  /\ dev' = [dev EXCEPT ![k][r] = v]
  /\ UNCHANGED <<aEn, edits, loaded, force, rv, primed, worker, sent, archive, dropped>>

Edit(r) ==
  /\ edits < MaxEdits /\ edits' = edits + 1
  /\ r \in Archived
  /\ aEn' = IF r \in aEn THEN aEn \ {r} ELSE aEn \cup {r}
  /\ UNCHANGED <<dev, loaded, force, rv, primed, worker, sent, archive, dropped>>

-----------------------------------------------------------------------------
(* The main loop between two drains *)

NoneRuns == \A k \in Kpz : worker[k] = NoWorker

\* Mutant: a register that is enabled again is not archived at once.
NewlyEnabledNever == {}

NewlyEnabled == aEn \ loaded

\* reload_protocol_topology_from_rows
Reload ==
  /\ NoneRuns
  /\ loaded' = aEn
  /\ force' = force \cup NewlyEnabled
  /\ UNCHANGED <<dev, aEn, edits, rv, primed, worker, sent, archive, dropped>>

\* on_kpz_start and prime_rv_cache: the cache of the KPZ becomes what the table
\* has of it, which the writer may not have brought up to date.  on_kpz_stop: the
\* cache is kept.
StartStop(k, start) ==
  /\ NoneRuns
  /\ edits < MaxEdits /\ edits' = edits + 1
  /\ rv' = IF start THEN [rv EXCEPT ![k] = archive[k]] ELSE rv
  /\ primed' = [primed EXCEPT ![k] = {}]
  /\ UNCHANGED <<dev, aEn, loaded, force, worker, sent, archive, dropped>>

\* A synchronisation finds no cache for a KPZ, so that no job of it was merged
\* since its start, and reads the table again.
PrimeAgain(k) ==
  /\ NoneRuns
  /\ rv[k] = NoValues /\ primed[k] = {}
  /\ rv' = [rv EXCEPT ![k] = archive[k]]
  /\ UNCHANGED <<dev, aEn, edits, loaded, force, primed, worker, sent, archive, dropped>>

Spawn(k) ==
  /\ worker[k] = NoWorker
  /\ worker' = [worker EXCEPT ![k] =
        [pc |-> "ask", chunk |-> 0, frames |-> <<>>, rv |-> rv[k], primed |-> primed[k],
         force |-> force \cap RegsOf(k), rows |-> {}]]
  /\ UNCHANGED <<dev, aEn, edits, loaded, force, rv, primed, sent, archive, dropped>>

-----------------------------------------------------------------------------
(* request_reqs_glued *)

Positions(k) == {i \in DOMAIN Plan[k] : (i - 1) \div PerChunk = worker[k].chunk}

\* The place of S that has j - 1 places of S before it.
Nth(S, j) == CHOOSE i \in S : Cardinality({x \in S : x <= i}) = j

\* The frames that come back for the current chunk, in order: some have a wrong
\* checksum and are passed over, with others the device refuses the request.
Frames(k, lost, refused) ==
  LET kept == Positions(k) \ lost
      FrameAt(i) == IF i \in refused THEN NoValue ELSE dev[k][Plan[k][i]]
  IN  [j \in 1 .. Cardinality(kept) |-> FrameAt(Nth(kept, j))]

Asks(k) == worker[k] # NoWorker /\ worker[k].pc = "ask" /\ worker[k].chunk < Chunks(k)

ChunkAnswered(k, lost, refused, twice) ==
  /\ Asks(k)
  /\ twice => Duplicates
  /\ LET got == Frames(k, lost, refused)
     IN  worker' = [worker EXCEPT ![k].chunk = @ + 1,
                                  ![k].frames = @ \o got \o (IF twice THEN got ELSE <<>>)]
  /\ UNCHANGED <<dev, aEn, edits, loaded, force, rv, primed, sent, archive, dropped>>

\* The job ends with an error: a chunk was not answered or could not be sent.
ChunkFails(k) ==
  /\ Asks(k)
  /\ worker' = [worker EXCEPT ![k].pc = "done"]
  /\ UNCHANGED <<dev, aEn, edits, loaded, force, rv, primed, sent, archive, dropped>>

-----------------------------------------------------------------------------
(* run_a_mode, after the exchange *)

\* Frames beyond the number of requests are left aside.
Results(k) ==
  LET f == worker[k].frames IN IF Len(f) > Len(Plan[k]) THEN SubSeq(f, 1, Len(Plan[k])) ELSE f

\* Mutant: missing replies are taken for missing registers at the end.
AnyNumber(k) == TRUE

AllAnswered(k) == Len(Results(k)) = Len(Plan[k])

AllAsked(k) == worker[k] # NoWorker /\ worker[k].pc = "ask" /\ worker[k].chunk = Chunks(k)

\* responses count mismatch
Mismatch(k) ==
  /\ AllAsked(k)
  /\ ~AllAnswered(k)
  /\ worker' = [worker EXCEPT ![k].pc = "done"]
  /\ UNCHANGED <<dev, aEn, edits, loaded, force, rv, primed, sent, archive, dropped>>

\* Positions up to n whose result decodes as the register asked for there.
Decodes(k, n) ==
  {i \in 1 .. n : /\ i <= Len(Results(k)) /\ Results(k)[i] # NoValue
                  /\ Width[Results(k)[i][1]] = Width[Plan[k][i]]}

\* The registers decoded up to position n and their values.
Read(k, n)      == {Plan[k][i] : i \in Decodes(k, n)}
ReadValue(k, r) == Results(k)[CHOOSE i \in DOMAIN Plan[k] : Plan[k][i] = r]

\* Mutant: the value is cached before it is compared.
UnchangedAlways(k, r) == FALSE

Changed(k, r) == worker[k].rv[r] # ReadValue(k, r)

Archives(k, n) ==
  {r \in Read(k, n) \cap loaded :
     Changed(k, r) \/ r \notin worker[k].primed \/ r \in worker[k].force}

DecodedTo(k, n, written) ==
  [worker[k] EXCEPT !.pc = "done",
                    !.rv = [r \in Regs |-> IF r \in Read(k, n) THEN ReadValue(k, r) ELSE @[r]],
                    !.primed = @ \cup written,
                    !.force = @ \ written]

Decode(k) ==
  /\ AllAsked(k) /\ AllAnswered(k)
  /\ LET n == Len(Plan[k])
         written == Archives(k, n)
     IN  /\ worker' = [worker EXCEPT ![k] =
                         [DecodedTo(k, n, written) EXCEPT !.rows = {ReadValue(k, r) : r \in written}]]
         /\ dropped' = [dropped EXCEPT ![k] = @ \ written]
  /\ UNCHANGED <<dev, aEn, edits, loaded, force, rv, primed, sent, archive>>

\* An alarm changes at position n and its hook fails: the rows up to there are
\* lost, the caches are not.
HookFails(k, n) ==
  /\ AllAsked(k) /\ AllAnswered(k)
  /\ n \in Decodes(k, n)
  /\ worker' = [worker EXCEPT ![k] = DecodedTo(k, n, Archives(k, n - 1))]
  /\ dropped' = [dropped EXCEPT ![k] = @ \cup Archives(k, n)]
  /\ UNCHANGED <<dev, aEn, edits, loaded, force, rv, primed, sent, archive>>

-----------------------------------------------------------------------------
(* The merge and the writer *)

\* The flags the worker does not have are removed, also those it was not given.
MergedForce(k) == force \cap worker[k].force

HasRoom == Len(sent) < MaxSent

JobEnds(k) ==
  /\ worker[k] # NoWorker
  /\ worker[k].pc = "done"
  /\ IF worker[k].rows = {} THEN UNCHANGED sent
     ELSE HasRoom /\ sent' = Append(sent, [kpz |-> k, rows |-> worker[k].rows])
  /\ rv' = [rv EXCEPT ![k] = worker[k].rv]
  /\ primed' = [primed EXCEPT ![k] = @ \cup worker[k].primed]
  /\ force' = MergedForce(k)
  /\ worker' = [worker EXCEPT ![k] = NoWorker]
  /\ UNCHANGED <<dev, aEn, edits, loaded, archive, dropped>>

\* The writer stores the first n deltas, in their order.
Flush(n) ==
  /\ n \in 1 .. Len(sent)
  /\ LET Rows(k, r) == {i \in 1 .. n : sent[i].kpz = k /\ \E v \in sent[i].rows : v[1] = r}
         LastRow(k, r) == CHOOSE v \in sent[Max(Rows(k, r))].rows : v[1] = r
     IN  archive' = [k \in Kpz |-> [r \in Regs |->
                       IF Rows(k, r) = {} THEN archive[k][r] ELSE LastRow(k, r)]]
  /\ sent' = SubSeq(sent, n + 1, Len(sent))
  /\ UNCHANGED <<dev, aEn, edits, loaded, force, rv, primed, worker, dropped>>

-----------------------------------------------------------------------------
Init ==
  /\ dev \in [Kpz -> {f \in [Regs -> Value] : \A r \in Regs : f[r][1] = r}]
  /\ aEn \in SUBSET Archived /\ edits = 0
  /\ loaded = {} /\ force = {}
  /\ rv = [k \in Kpz |-> NoValues] /\ primed = [k \in Kpz |-> {}]
  /\ worker = [k \in Kpz |-> NoWorker]
  /\ sent = <<>>
  /\ archive = [k \in Kpz |-> NoValues] /\ dropped = [k \in Kpz |-> {}]

Ask(k) ==
  \/ \E lost, refused \in SUBSET DOMAIN Plan[k], twice \in BOOLEAN :
       ChunkAnswered(k, lost, refused, twice)
  \/ ChunkFails(k) \/ Mismatch(k)

Next ==
  \/ \E k \in Kpz : \E r \in Regs : \E v \in ValueOf(r) : SetValue(k, r, v)
  \/ \E r \in Regs : Edit(r)
  \/ Reload
  \/ \E k \in Kpz, start \in BOOLEAN : StartStop(k, start)
  \/ \E k \in Kpz : PrimeAgain(k) \/ Spawn(k) \/ Ask(k) \/ Decode(k) \/ JobEnds(k)
  \/ \E k \in Kpz : \E n \in DOMAIN Plan[k] : HookFails(k, n)
  \/ \E n \in 1 .. MaxSent : Flush(n)

Spec == Init /\ [][Next]_vars

\* The first c chunks are answered in full.
Whole(k, c) ==
  /\ worker[k] # NoWorker /\ worker[k].chunk = c
  /\ NoValue \notin Range(worker[k].frames)
  /\ Len(worker[k].frames) = (IF c * PerChunk < Len(Plan[k]) THEN c * PerChunk ELSE Len(Plan[k]))

\* The loop comes round (Scheduler): jobs run, and reloads happen between the
\* drains.  A request returns by its timeout (Transport), so that a job goes on
\* and ends.  Again and again a job has all its chunks answered and fails at
\* none of its hooks.
FairSpec ==
  /\ Spec
  /\ SF_vars(Reload)
  /\ \A k \in Kpz : /\ WF_vars(Spawn(k)) /\ WF_vars(JobEnds(k))
                    /\ WF_vars(Ask(k)) /\ WF_vars(Decode(k))
                    /\ \A c \in 0 .. Chunks(k) - 1 :
                         SF_vars(Whole(k, c) /\ ChunkAnswered(k, {}, {}, FALSE))
                    /\ SF_vars(Whole(k, Chunks(k)) /\ Decode(k))
  /\ \A n \in 1 .. MaxSent : WF_vars(Flush(n))

-----------------------------------------------------------------------------
(* Properties *)

Cached == [Regs -> Value \cup {NoValue}]
Job == [pc : {"ask", "done"}, chunk : Nat, frames : Seq(Value \cup {NoValue}), rv : Cached,
        primed : SUBSET Regs, force : SUBSET Regs, rows : SUBSET Value]

ASSUME NoWorkerAssumption == NoWorker \notin Job

TypeOK ==
  /\ dev \in [Kpz -> [Regs -> Value]]
  /\ aEn \subseteq Regs /\ loaded \subseteq Regs /\ force \subseteq Regs /\ edits \in 0 .. MaxEdits
  /\ rv \in [Kpz -> Cached] /\ archive \in [Kpz -> Cached]
  /\ primed \in [Kpz -> SUBSET Regs] /\ dropped \in [Kpz -> SUBSET Regs]
  /\ worker \in [Kpz -> Job \cup {NoWorker}]
  /\ sent \in Seq([kpz : Kpz, rows : SUBSET Value]) /\ Len(sent) <= MaxSent

\* A value is cached and archived as the value of the register it was read from:
\* lost frames, refused requests and chunks that fail never shift the replies
\* against the requests (modbus_service.rs 418-429, amode.rs 385-430).  ReadReq's
\* results are documented one by one (modbus_service.rs 52: "result of one request").
ValueOfItsRegister ==
  TypeOK /\ \A k \in Kpz, r \in Regs :
    \A v \in {rv[k][r], archive[k][r]} \cup (IF worker[k] = NoWorker THEN {} ELSE {worker[k].rv[r]}) :
      v = NoValue \/ v[1] = r

\* The row of a register that was produced last.
LastRowOf(k, r) ==
  LET ofJob   == IF worker[k] = NoWorker THEN {} ELSE {v \in worker[k].rows : v[1] = r}
      inChannel == {i \in DOMAIN sent : sent[i].kpz = k /\ \E v \in sent[i].rows : v[1] = r}
  IN  IF ofJob # {} THEN CHOOSE v \in ofJob : TRUE
      ELSE IF inChannel # {} THEN CHOOSE v \in sent[Max(inChannel)].rows : v[1] = r
      ELSE archive[k][r]

\* What a KPZ has cached of an archived register is what it archived last, unless
\* a flag still asks for a row or a failed job took the row with it: filtering by
\* change loses nothing across edits, starts, stops and errors
\* (amode.rs 457-489, merge.rs 126-139, state_sync.rs 543-548).
LastArchived ==
  \A k \in Kpz :
    LET ctx == IF worker[k] = NoWorker THEN [rv |-> rv[k], primed |-> primed[k], force |-> force]
               ELSE [rv |-> worker[k].rv, primed |-> worker[k].primed, force |-> worker[k].force]
    IN  \A r \in ((RegsOf(k) \cap loaded \cap ctx.primed) \ ctx.force) \ dropped[k] :
          ctx.rv[r] = LastRowOf(k, r)

\* A value that stays is archived in the end, whatever failed before, except for
\* the rows that failed jobs took with them.
ArchiveCatchesUp ==
  \A k \in Kpz : \A r \in RegsOf(k) : \A v \in ValueOf(r) :
    <>[](dev[k][r] = v /\ r \in aEn /\ r \notin dropped[k]) => <>[](archive[k][r] = v)
=============================================================================
