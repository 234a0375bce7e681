----------------------------- MODULE SpawnQueue -----------------------------
(***************************************************************************)
(* What the job queue of the scheduler promises: jobs leave it in the      *)
(* order they came, except that the jobs of a KPZ that is running wait.    *)
(* JobQueue implements it; Scheduler uses it.                              *)
(***************************************************************************)
EXTENDS Naturals

CONSTANTS Kpz, Kinds,
          NoJob,    \* pop_next_spawnable returned None
          NoCall    \* the last call was no pop

VARIABLES pending,  \* the jobs queued, each with the number it was pushed under
          next,     \* number of the next push
          last      \* the last pop: the KPZ that ran and the job it returned

Job == [seq : Nat, kpz : Kpz, kind : Kinds]

Push(k, kind) ==
  /\ pending' = pending \cup {[seq |-> next, kpz |-> k, kind |-> kind]}
  /\ next' = next + 1
  /\ last' = NoCall

\* The oldest job that no running KPZ holds back.
Spawnable(j, running) ==
  /\ j.kpz \notin running
  /\ \A i \in pending : i.kpz \notin running => j.seq <= i.seq

Pop(running) ==
  /\ \E j \in pending : /\ Spawnable(j, running)
                         /\ last' = [running |-> running, job |-> j]
                         /\ pending' = pending \ {j}
  /\ UNCHANGED next

PopNone(running) ==
  /\ \A j \in pending : j.kpz \in running
  /\ last' = [running |-> running, job |-> NoJob]
  /\ UNCHANGED <<pending, next>>

\* A KPZ is started or stopped: its jobs are given up.
Discard(k) ==
  /\ pending' = {j \in pending : j.kpz # k}
  /\ last' = NoCall
  /\ UNCHANGED next

Init == pending = {} /\ next = 0 /\ last = NoCall

Next == \/ \E k \in Kpz, kind \in Kinds : Push(k, kind)
        \/ \E running \in SUBSET Kpz : Pop(running) \/ PopNone(running)
        \/ \E k \in Kpz : Discard(k)

Spec == Init /\ [][Next]_<<pending, next, last>>
=============================================================================
