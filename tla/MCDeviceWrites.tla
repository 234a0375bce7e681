--------------------------- MODULE MCDeviceWrites ---------------------------
(* A web client and a configurator on the same word and its two bits; or   *)
(* an operator station on two control points, with a third id unused; or   *)
(* one of its other editors on two rows.  They share no state, and a       *)
(* behaviour is about one of the three.                                    *)
EXTENDS DeviceWrites, ListEditors

CONSTANTS w1, d1

MCRequests ==
    w1 :> {[kind |-> "bit", bit |-> 0, on |-> TRUE], [kind |-> "word", word |-> {}],
           [kind |-> "tu", val |-> TRUE]}
    @@ d1 :> {[kind |-> "bit", bit |-> 1, on |-> TRUE], [kind |-> "long", val |-> TRUE]}

MCMaxAsked == w1 :> 2 @@ d1 :> 1

NoRequests ==
    /\ dev = [word |-> {}, long |-> FALSE, tu |-> FALSE, unknown |-> {}]
    /\ packets = {} /\ answers = {} /\ now = 0 /\ recent = <<>>
    /\ cli = [c \in Clients |-> [Idle EXCEPT !.asked = MaxAsked[c]]]
    /\ journal = [todo |-> {}, tried |-> {}]
    /\ ghost = [ok |-> {}, done |-> {}, writes |-> 0, touched |-> [b \in Bits |-> 0],
                granted |-> <<>>]

MCInit == \/ Init /\ NoStation /\ NoEditor
          \/ NoRequests /\ DeskInit /\ (NoStation \/ NoEditor)
MCNext == \/ Next /\ UNCHANGED <<stationVars, editorVars>>
          \/ DeskNext /\ UNCHANGED vars
MCSpec == /\ MCInit /\ [][MCNext]_<<vars, stationVars, editorVars>>
          /\ \A c \in Clients : WF_vars(Timeout(c))
          /\ WF_vars(\E nr \in journal.todo : Insert(nr))
=============================================================================
