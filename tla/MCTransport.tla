---------------------------- MODULE MCTransport ----------------------------
(* Instances of Transport for TLC. *)
EXTENDS Transport, TLC

CONSTANTS k1, k2

\* Two KPZ behind one endpoint, one with short replies.  The dsr counter reaches
\* the modem number of the first, a value of the clock is that of the second.
MCEndpoint == (k1 :> "gw") @@ (k2 :> "gw")
MCModem == (k1 :> 3) @@ (k2 :> 8)
MCSwaps == (k1 :> TRUE) @@ (k2 :> FALSE)
MCHeaders == (k1 :> {FALSE}) @@ (k2 :> {TRUE})

\* Values of the clock away from those the counter reaches.
MCClockId == [n \in 1 .. MaxCalls |-> <<n % PidMod, DsrMod - n>>]
=============================================================================
