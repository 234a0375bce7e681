---------------------------- MODULE MCScheduler ----------------------------
(* Instances of Scheduler for TLC. *)
EXTENDS Scheduler, TLC

CONSTANTS k1, k2

\* Two KPZ whose phases differ.
MCPhase == (k1 :> [kind \in Kinds |-> 0]) @@ (k2 :> [kind \in Kinds |-> IF kind = "A" THEN 1 ELSE 0])
MCPhaseOne == (k1 :> [kind \in Kinds |-> 0])

MCCfgs == {[failures |-> 1, backoff |-> 2]}
=============================================================================
