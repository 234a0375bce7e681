----------------------------- MODULE Transport -----------------------------
(***************************************************************************)
(* The UDP transport of the ss4 server (src/ss4/src/udp_transport.rs) with *)
(* the allocation of the identifiers it correlates by                      *)
(* (src/ss4/src/modbus_service.rs 451-506).  Each KPZ has one request in   *)
(* flight at most, the KPZ share the socket and may share an endpoint.     *)
(*                                                                         *)
(* A datagram is its header and the request it answers; the network loses, *)
(* delays, reorders and duplicates replies.  Durations are abstracted to   *)
(* the order they impose: a request expires some time after it was sent,   *)
(* and the guard on its packet id is not over before that.                 *)
(***************************************************************************)
EXTENDS Naturals, Sequences, FiniteSets

CONSTANTS
  Kpz,
  Endpoint,   \* the ip and port of each KPZ
  Modem,      \* the modem number of each KPZ
  Swaps,      \* whether its replies have dsr and modem in each other's place
  Headers,    \* the headers of its replies: full (TRUE, 22 bytes), short (FALSE) or either
  PidMod,     \* packet ids count modulo this: 256 in the code
  DsrMod,     \* dsr numbers count modulo this: 65536 in the code
  ClockId,    \* packet id and dsr that the clock yields for the n-th request, if it
              \* is a post command
  MaxCalls,   \* bound of the model on the requests
  MaxDups     \* bound of the model on the duplicates

ASSUME TransportAssumption ==
  /\ DOMAIN Endpoint = Kpz /\ Modem \in [Kpz -> Nat] /\ Swaps \in [Kpz -> BOOLEAN]
  /\ Headers \in [Kpz -> SUBSET BOOLEAN]
  /\ PidMod \in Nat \ {0} /\ DsrMod \in Nat \ {0, 1}
  /\ ClockId \in [1 .. MaxCalls -> (0 .. PidMod - 1) \X (0 .. DsrMod - 1)]
  /\ MaxCalls \in Nat /\ MaxDups \in Nat

Endpoints == {Endpoint[k] : k \in Kpz}
Pids      == 0 .. PidMod - 1

VARIABLES
  phase,     \* of each caller of send: idle, first, collect
  call,      \* its request: number, key and whether all replies are collected
  inbox,     \* replies in its unbounded channel
  got,       \* replies it has taken
  pending,   \* the map of pending requests: key, owner, expected modem
  expired,   \* numbers of the requests whose deadline is past
  calls,     \* history: number of requests made
  refused,   \* history: a request was turned away because its key was in use
  pidNext,   \* PidAllocState.next of each endpoint
  pidGuard,  \* last_used: the request that guards each packet id, or 0
  dsrNext,   \* the counter of next_dsr
  net,       \* replies in the network
  dups       \* history: duplicates the network has made
callerVars == <<phase, call, inbox, got>>
idVars     == <<calls, refused, pidNext, pidGuard, dsrNext>>
vars == <<callerVars, pending, expired, idVars, net, dups>>

-----------------------------------------------------------------------------
(* Identifiers *)

\* The first id from `next' on whose guard is over; the next one if there is none.
NextPid(e) ==
  LET from == [i \in 0 .. PidMod - 1 |-> (pidNext[e] + i) % PidMod]
      free == {i \in DOMAIN from : pidGuard[e][from[i]] = 0}
  IN  IF free = {} THEN from[0]
      ELSE from[CHOOSE i \in free : \A j \in free : i <= j]

PidAfter(pid) == (pid + 1) % PidMod

\* Mutant: the counter stands still.
DsrStuck == dsrNext

\* fetch_add; 0 is not used, so 1 is handed out twice in a turn of the counter.
DsrAdvanced == (dsrNext + 1) % DsrMod
Dsr == IF dsrNext = 0 THEN 1 ELSE dsrNext

\* Mutant: replies are told apart by the packet id alone.
KeyOfPid(e, pid, dsr) == <<e, pid, 0>>

Key(e, pid, dsr) == <<e, pid, dsr>>

KeyOf(k) == Key(Endpoint[k], call[k].pid, call[k].dsr)

-----------------------------------------------------------------------------
(* send *)

Entry(k, n, pid, dsr) == [key |-> Key(Endpoint[k], pid, dsr), kpz |-> k, n |-> n, modem |-> Modem[k]]

Reply(k, n, pid, f, g) == [e |-> Endpoint[k], pid |-> pid, dsr |-> f, alt |-> g, n |-> n, kpz |-> k]

\* The reply of the device, in the layout of its gateway.  It may stay in the
\* network for ever: that is how it is lost.
ReplyTo(k, n, pid, dsr) ==
  IF Swaps[k] THEN Reply(k, n, pid, Modem[k], dsr) ELSE Reply(k, n, pid, dsr, Modem[k])

\* The dsr of the request a reply is for.
Asked(d) == IF Swaps[d.kpz] THEN d.alt ELSE d.dsr

InUse(key) == \E p \in pending : p.key = key

\* send up to its first wait.  A request whose key is in use is turned away.
\* The address or the socket may refuse the request: the entry stays behind.
Request(k, pid, dsr, all, sent) ==
  LET n == calls + 1
      entry == Entry(k, n, pid, dsr)
  IN  /\ phase[k] = "idle"
      /\ n <= MaxCalls
      /\ calls' = n
      /\ IF InUse(entry.key)
           THEN /\ refused' = TRUE
                /\ UNCHANGED <<phase, call, pending, net>>
           ELSE /\ pending' = pending \cup {entry}
                /\ IF sent
                     THEN /\ net' = net \cup {ReplyTo(k, n, pid, dsr)}
                          /\ phase' = [phase EXCEPT ![k] = "first"]
                          /\ call' = [call EXCEPT ![k] = [n |-> n, pid |-> pid, dsr |-> dsr, all |-> all]]
                     ELSE UNCHANGED <<phase, call, net>>
                /\ UNCHANGED refused
      /\ UNCHANGED <<inbox, got, expired, dups>>

\* A chunk of request_reqs_glued: the ids come from the two allocators.
RequestChunk(k, sent) ==
  LET e   == Endpoint[k]
      pid == NextPid(e)
  IN  /\ Request(k, pid, Dsr, TRUE, sent)
      /\ pidNext' = [pidNext EXCEPT ![e] = PidAfter(pid)]
      /\ pidGuard' = [pidGuard EXCEPT ![e][pid] = calls + 1]
      /\ dsrNext' = DsrAdvanced

\* A command a script sends to the device: the ids come from the clock.
RequestCommand(k, sent) ==
  /\ calls < MaxCalls
  /\ Request(k, ClockId[calls + 1][1], ClockId[calls + 1][2], FALSE, sent)
  /\ UNCHANGED <<pidNext, pidGuard, dsrNext>>

\* The request is over: its key is removed, whoever holds it.
Return(k) ==
  /\ phase' = [phase EXCEPT ![k] = "idle"]
  /\ pending' = {p \in pending : p.key # KeyOf(k)}
  /\ inbox' = [inbox EXCEPT ![k] = <<>>]
  /\ got' = [got EXCEPT ![k] = <<>>]
  /\ UNCHANGED <<call, expired, idVars, net, dups>>

TakeFirst(k) ==
  /\ phase[k] = "first"
  /\ inbox[k] # <<>>
  /\ IF call[k].all
       THEN /\ phase' = [phase EXCEPT ![k] = "collect"]
            /\ got' = [got EXCEPT ![k] = <<Head(inbox[k])>>]
            /\ inbox' = [inbox EXCEPT ![k] = Tail(@)]
            /\ UNCHANGED <<call, pending, expired, idVars, net, dups>>
       ELSE Return(k)

TakeExtra(k) ==
  /\ phase[k] = "collect"
  /\ inbox[k] # <<>>
  /\ got' = [got EXCEPT ![k] = Append(@, Head(inbox[k]))]
  /\ inbox' = [inbox EXCEPT ![k] = Tail(@)]
  /\ UNCHANGED <<phase, call, pending, expired, idVars, net, dups>>

\* Mutant: the caller trusts the clean-up to end its wait.
OnlyIfPending(k) == call[k].n \in expired /\ InUse(KeyOf(k))

TimedOut(k) == call[k].n \in expired

\* timeout_total is over, or the entry was cleaned up and its sender dropped.
Timeout(k) ==
  /\ phase[k] = "first"
  /\ inbox[k] = <<>>
  /\ TimedOut(k)
  /\ Return(k)

\* Nothing more came within idle_timeout, or the time for extras is over.
CollectEnds(k) ==
  /\ phase[k] = "collect"
  /\ inbox[k] = <<>> \/ call[k].n \in expired
  /\ Return(k)

-----------------------------------------------------------------------------
(* The receiving task, the clean-up task and time *)

\* Mutant: the modem of the reply is not looked at.
AnyModem(p, full, d) == TRUE

\* The modem is compared if the reply has the 22 bytes of a full header.
ModemFits(p, full, d) == full => p.modem \in {d.alt, d.dsr}

Matches(d, full, f) == {p \in pending : p.key = Key(d.e, d.pid, f) /\ ModemFits(p, full, d)}

\* The entry a reply goes to: by the dsr field, or else by the other one.
Target(d, full) ==
  IF Matches(d, full, d.dsr) # {} THEN Matches(d, full, d.dsr) ELSE Matches(d, full, d.alt)

\* A reply arrives, with a full header or a short one: im1 puts 10 bytes before
\* what it answers.
Receive(d, full, again) ==
  /\ again => dups < MaxDups
  /\ dups' = IF again THEN dups + 1 ELSE dups
  /\ net' = IF again THEN net ELSE net \ {d}
  /\ inbox' = [k \in Kpz |->
                 IF phase[k] # "idle" /\ \E p \in Target(d, full) : p.n = call[k].n
                   THEN Append(inbox[k], [n |-> d.n, kpz |-> d.kpz, dsr |-> Asked(d), full |-> full])
                   ELSE inbox[k]]
  /\ UNCHANGED <<phase, call, got, pending, expired, idVars>>

Expire(n) ==
  /\ n \notin expired
  /\ expired' = expired \cup {n}
  /\ UNCHANGED <<callerVars, pending, idVars, net, dups>>

\* The guard on a packet id lasts timeout_total and idle_timeout, from the
\* choice of the id.
GuardOver(e, pid) ==
  /\ pidGuard[e][pid] \in expired
  /\ pidGuard' = [pidGuard EXCEPT ![e][pid] = 0]
  /\ UNCHANGED <<callerVars, pending, expired, calls, refused, pidNext, dsrNext, net, dups>>

\* Mutant: all entries are removed.
Stale(p) == TRUE

PastDeadline(p) == p.n \in expired

CleanUp ==
  /\ \E p \in pending : PastDeadline(p)
  /\ pending' = {p \in pending : ~PastDeadline(p)}
  /\ UNCHANGED <<callerVars, expired, idVars, net, dups>>

-----------------------------------------------------------------------------
NoCall == [n |-> 0, pid |-> 0, dsr |-> 0, all |-> FALSE]

Init ==
  /\ phase = [k \in Kpz |-> "idle"] /\ call = [k \in Kpz |-> NoCall]
  /\ inbox = [k \in Kpz |-> <<>>] /\ got = [k \in Kpz |-> <<>>]
  /\ pending = {} /\ expired = {} /\ calls = 0 /\ refused = FALSE
  /\ pidNext = [e \in Endpoints |-> 0] /\ pidGuard = [e \in Endpoints |-> [p \in Pids |-> 0]]
  /\ dsrNext = 1
  /\ net = {} /\ dups = 0

Caller(k) == TakeFirst(k) \/ TakeExtra(k) \/ Timeout(k) \/ CollectEnds(k)

Start(k) == \E sent \in BOOLEAN : RequestChunk(k, sent) \/ RequestCommand(k, sent)

\* All requests of the bound have returned.
Ended ==
  /\ calls = MaxCalls
  /\ \A k \in Kpz : phase[k] = "idle"
  /\ UNCHANGED vars

Next ==
  \/ Ended
  \/ \E k \in Kpz : Start(k) \/ Caller(k)
  \/ \E d \in net, again \in BOOLEAN : \E full \in Headers[d.kpz] : Receive(d, full, again)
  \/ \E n \in 1 .. calls : Expire(n)
  \/ \E e \in Endpoints, pid \in Pids : GuardOver(e, pid)
  \/ CleanUp

Spec == Init /\ [][Next]_vars

\* Time passes and a caller that can proceed is polled.
FairSpec ==
  /\ Spec
  /\ \A k \in Kpz : WF_vars(Caller(k))
  /\ \A n \in 1 .. MaxCalls : WF_vars(n <= calls /\ Expire(n))

-----------------------------------------------------------------------------
(* Properties *)

Answer == [n : 1 .. MaxCalls, kpz : Kpz, dsr : 0 .. DsrMod - 1, full : BOOLEAN]

TypeOK ==
  /\ phase \in [Kpz -> {"idle", "first", "collect"}]
  /\ call \in [Kpz -> [n : Nat, pid : Pids, dsr : 0 .. DsrMod - 1, all : BOOLEAN]]
  /\ inbox \in [Kpz -> Seq(Answer)] /\ got \in [Kpz -> Seq(Answer)]
  /\ \A p \in pending : p.kpz \in Kpz /\ p.n \in 1 .. calls /\ p.modem = Modem[p.kpz]
  /\ expired \subseteq 1 .. calls /\ calls \in 0 .. MaxCalls /\ refused \in BOOLEAN
  /\ pidNext \in [Endpoints -> Pids] /\ pidGuard \in [Endpoints -> [Pids -> 0 .. calls]]
  /\ dsrNext \in 0 .. DsrMod - 1 /\ dups \in 0 .. MaxDups
  /\ \A p, q \in pending : p.key = q.key => p = q

Answers(k) == {inbox[k][i] : i \in DOMAIN inbox[k]} \cup {got[k][i] : i \in DOMAIN got[k]}

\* A caller is handed a late or duplicated reply to an earlier request of its
\* own only if the dsr of its request happens to be its modem number, and a reply
\* to another KPZ behind its endpoint only if the dsr of its request happens to
\* be the modem number of that KPZ; if the reply is full, only if the two
\* requests have the modem numbers of each other for dsr (TRANSPORT_GUARANTEES.md,
\* 1 to 5 and residual risk 3; udp_transport.rs 132-195).
AnswersItsRequest ==
  TypeOK /\ \A k \in Kpz : \A a \in Answers(k) :
    \/ a.kpz = k /\ (a.n = call[k].n \/ call[k].dsr = Modem[k])
    \/ call[k].dsr = Modem[a.kpz] /\ (a.full => a.dsr = Modem[k])

\* Callers do not get into each other's way: as long as its deadline is ahead,
\* a caller that waits can be found by its replies, as no other caller and no
\* clean-up removes its entry (udp_transport.rs 199-214, 297-301, 317-318,
\* 354-356); and no request is turned away because of the entry of another
\* (262-264), as the allocators keep the keys apart.
EntryStays ==
  /\ ~refused
  /\ \A k \in Kpz : phase[k] # "idle" /\ call[k].n \notin expired =>
       \E p \in pending : p.key = KeyOf(k) /\ p.n = call[k].n

\* Every request returns, whatever the network and the clean-up do.
RequestReturns == \A k \in Kpz : phase[k] # "idle" ~> phase[k] = "idle"
=============================================================================
