------------------------------ MODULE MCAlarms ------------------------------
(* Instances of Alarms for TLC. *)
EXTENDS Alarms

CONSTANTS k1, r1

MCOwner == [r \in Rules |-> k1]

\* A level with hysteresis and delays, a first-level limit without, an interval
\* with a delay before its end.
MCLevel == [cmp |-> "gt", first |-> FALSE, lo |-> NoLimit, hi |-> 1, lo1 |-> NoLimit, hi1 |-> NoLimit,
            h |-> 1, on |-> 2, off |-> 1]
MCFirst == [cmp |-> "le", first |-> TRUE, lo |-> 2, hi |-> NoLimit, lo1 |-> 0, hi1 |-> NoLimit,
            h |-> 0, on |-> 0, off |-> -1]
MCInside == [cmp |-> "between", first |-> FALSE, lo |-> 1, hi |-> 2, lo1 |-> NoLimit, hi1 |-> NoLimit,
             h |-> 1, on |-> 0, off |-> 2]
MCCfgs == {MCLevel, MCFirst, MCInside}
MCOneCfg == {MCLevel}
=============================================================================
