---------------------------- MODULE MCDbWriter ----------------------------
(* Instances of DbWriter for TLC. *)
EXTENDS DbWriter

CONSTANTS k1, k2, r1, a1

Plain == [rows |-> <<>>, elam |-> FALSE, log |-> FALSE, alarms |-> {}, indexes |-> {}]

\* An exchange that only logs; values; an archive read further; an alarm.
MCShapes == {Plain, [Plain EXCEPT !.log = TRUE, !.elam = TRUE],
             [Plain EXCEPT !.rows = <<k1>>, !.indexes = {a1}],
             [Plain EXCEPT !.rows = <<k1, k2>>, !.indexes = {a1}, !.log = TRUE],
             [Plain EXCEPT !.alarms = {r1}]}

\* One delta may hold a register twice in one second.
MCTwice == {[Plain EXCEPT !.rows = <<k1>>], [Plain EXCEPT !.rows = <<k2, k2>>]}
=============================================================================
