--------------------------- MODULE MCConfigurator ---------------------------
(* The configurator: two control points, two sets of window templates, a   *)
(* template not yet in the database; or its template editor alone, on one  *)
(* template, shut or just loaded.  The two share no state: Configurator    *)
(* knows of the editor's rows only whose they are.                         *)
EXTENDS Configurator, LayoutEditor, TLC

CONSTANTS k1, k2, p1, p2, ta, tb, tc, td, l1

MCRows == (p1 :> {ta, tb}) @@ (p2 :> {tb, tc})

Reg(id, n) == [id |-> id, kind |-> "reg", pos |-> n, look |-> "small", flag |-> FALSE, item |-> id]
Text(n, kind) == [kind |-> kind, pos |-> n, look |-> "small", flag |-> TRUE, item |-> 50 + n]
MCFirstRows == l1 :> [regs |-> <<Reg(1, 10)>>, texts |-> <<Text(10, "image")>>]

\* Which of the two a behaviour is about: the other has nothing left to do.
EditorShut == /\ ed = EmptyEditor /\ disk = FirstRows /\ slot = NoJob /\ profile = NoProfile
              /\ clicks = MaxClicks /\ breaks = MaxBreaks
OthersShut == /\ ui = [kpz |-> k1, open |-> {}, mode |-> "none", task |-> NoTask, pend |-> {},
                       windows |-> {}, selWin |-> None, selTpl |-> None, bindSel |-> None,
                       bindWins |-> None, link |-> None, layout |-> None, live |-> None]
              /\ db = [klink |-> [k \in Kpz |-> None], win |-> [k \in Kpz |-> {}],
                       stored |-> [t \in {} |-> t]]
              /\ inputs = MaxInputs /\ faults = MaxFaults /\ list = "read"

MCInit == (Init /\ EditorShut) \/ (LayoutInit /\ OthersShut)
MCNext == (Next /\ UNCHANGED layoutVars) \/ (LayoutNext /\ UNCHANGED vars)
MCSpec == MCInit /\ [][MCNext]_<<vars, layoutVars>> /\ WF_vars(Thread) /\ WF_vars(PollTask)
=============================================================================
