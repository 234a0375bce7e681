------------------------------ MODULE JobQueue ------------------------------
(***************************************************************************)
(* The job queue of the ss4 scheduler (src/ss4/src/scheduler/queue.rs      *)
(* 32-119).  It keeps three indexes of the same jobs, so that the oldest   *)
(* job of a KPZ that is not running is found without looking at the jobs   *)
(* of the KPZ that are: the jobs by number, the numbers of each KPZ, and   *)
(* the first number of each KPZ that has one.                              *)
(*                                                                         *)
(* The `?` of pop_next_spawnable that would return half way through are    *)
(* not modelled: IndexesAgree is what makes them unreachable.              *)
(***************************************************************************)
EXTENDS Naturals, Sequences, FiniteSets

CONSTANTS Kpz, Kinds, NoJob, NoCall,
          MaxSeq   \* bound of the model on the pushes

ASSUME JobQueueAssumption ==
  /\ IsFiniteSet(Kpz)
  /\ NoJob \notin [seq : Nat, kpz : Kpz, kind : Kinds]
  /\ MaxSeq \in Nat

VARIABLES
  nextSeq,   \* next_seq
  len,
  jobs,      \* jobs_by_seq: a function on the numbers of the jobs queued
  seqs,      \* seqs_by_kpz; the empty sequence stands for no entry
  ready,     \* ready_kpz: pairs of a number and a KPZ
  popped     \* the last call of pop_next_spawnable: its argument and its result
vars == <<nextSeq, len, jobs, seqs, ready, popped>>

-----------------------------------------------------------------------------
Numbered(s) == [seq |-> s, kpz |-> jobs[s].kpz, kind |-> jobs[s].kind]

\* Mutant: a KPZ becomes ready again with every job.
ReadyPush(k, seq) == ready \cup {<<seq, k>>}

ReadyAfterPush(k, seq) == IF seqs[k] = <<>> THEN ready \cup {<<seq, k>>} ELSE ready

PushBack(k, kind) ==
  /\ nextSeq < MaxSeq
  /\ nextSeq' = nextSeq + 1
  /\ jobs' = [s \in DOMAIN jobs \cup {nextSeq} |->
                IF s = nextSeq THEN [kpz |-> k, kind |-> kind] ELSE jobs[s]]
  /\ seqs' = [seqs EXCEPT ![k] = Append(@, nextSeq)]
  /\ ready' = ReadyAfterPush(k, nextSeq)
  /\ len' = len + 1
  /\ popped' = NoCall

\* Mutants: KPZ are taken in the order of a hash map; the KPZ is never ready again.
AnyReady(r, running) == r[2] \notin running
ReadyForgotten(r) == ready \ {r}

\* The first pair, in ascending order of the numbers, whose KPZ does not run.
FirstReady(r, running) ==
  /\ r[2] \notin running
  /\ \A q \in ready : q[2] \notin running => r[1] <= q[1]

ReadyAfterPop(r) ==
  LET rest == Tail(seqs[r[2]])
  IN  (ready \ {r}) \cup IF rest = <<>> THEN {} ELSE {<<Head(rest), r[2]>>}

PopNextSpawnable(running) ==
  /\ \E r \in ready :
       LET k == r[2]
           seq == Head(seqs[k])
       IN  /\ FirstReady(r, running)
           /\ popped' = [running |-> running, job |-> Numbered(seq)]
           /\ jobs' = [s \in DOMAIN jobs \ {seq} |-> jobs[s]]
           /\ seqs' = [seqs EXCEPT ![k] = Tail(@)]
           /\ ready' = ReadyAfterPop(r)
           /\ len' = IF len = 0 THEN 0 ELSE len - 1
  /\ UNCHANGED nextSeq

PopNone(running) ==
  /\ \A r \in ready : r[2] \in running
  /\ popped' = [running |-> running, job |-> NoJob]
  /\ UNCHANGED <<nextSeq, len, jobs, seqs, ready>>

\* The numbers of S in ascending order.
Ascending(S) ==
  CHOOSE f \in [1 .. Cardinality(S) -> S] : \A i, j \in DOMAIN f : i < j => f[i] < f[j]

ReadyOf(kept) == {<<Head(kept[x]), x>> : x \in {y \in Kpz : kept[y] # <<>>}}

\* retain(|j| j.kpz_id != k), the only use of retain: the indexes are emptied
\* and the jobs that stay are pushed again under their old numbers.
Retain(k) ==
  LET stay == {s \in DOMAIN jobs : jobs[s].kpz # k}
      kept == [x \in Kpz |-> Ascending({s \in stay : jobs[s].kpz = x})]
  IN  /\ jobs' = [s \in stay |-> jobs[s]]
      /\ seqs' = kept
      /\ ready' = ReadyOf(kept)
      /\ len' = Cardinality(stay)
      /\ popped' = NoCall
      /\ UNCHANGED nextSeq

Init ==
  /\ nextSeq = 0 /\ len = 0
  /\ jobs = <<>>
  /\ seqs = [k \in Kpz |-> <<>>]
  /\ ready = {} /\ popped = NoCall

Next ==
  \/ \E k \in Kpz, kind \in Kinds : PushBack(k, kind)
  \/ \E running \in SUBSET Kpz : PopNextSpawnable(running) \/ PopNone(running)
  \/ \E k \in Kpz : Retain(k)

Spec == Init /\ [][Next]_vars

-----------------------------------------------------------------------------
(* Properties *)

TypeOK ==
  /\ nextSeq \in Nat /\ len \in Nat
  /\ DOMAIN jobs \subseteq Nat /\ jobs \in [DOMAIN jobs -> [kpz : Kpz, kind : Kinds]]
  /\ seqs \in [Kpz -> Seq(Nat)]
  /\ ready \subseteq Nat \X Kpz
  /\ popped \in [running : SUBSET Kpz, job : [seq : Nat, kpz : Kpz, kind : Kinds] \cup {NoJob}]
                \cup {NoCall}

Queued(k) == {s \in DOMAIN jobs : jobs[s].kpz = k}

\* The three indexes and the length describe the same jobs after every call:
\* the list of a KPZ holds the numbers of its jobs in the order of the pushes,
\* and its first number, and no other, is ready (queue.rs 65-119; the
\* debug_assert of line 75).
IndexesAgree ==
  /\ TypeOK
  /\ len = Cardinality(DOMAIN jobs)
  /\ \A k \in Kpz :
       /\ {seqs[k][i] : i \in DOMAIN seqs[k]} = Queued(k)
       /\ \A i, j \in DOMAIN seqs[k] : i < j => seqs[k][i] < seqs[k][j]
  /\ ready = {<<Head(seqs[k]), k>> : k \in {x \in Kpz : seqs[x] # <<>>}}

Pending == {Numbered(s) : s \in DOMAIN jobs}

SQ == INSTANCE SpawnQueue WITH pending <- Pending, next <- nextSeq, last <- popped

\* Every call does what SpawnQueue says: a pop returns the oldest job whose KPZ
\* does not run, and None only if every queued job belongs to a running KPZ.
ImplementsSpawnQueue == SQ!Spec
=============================================================================
