---------------------------- MODULE DeviceWrites ----------------------------
(***************************************************************************)
(* Writing to a device from outside the poll: the web front end (ss6,      *)
(* api_write_value and api_tu_write) and the desktop configurator (ss7,    *)
(* write_value_worker, ui_link_send_tu).  A bit is written by reading its  *)
(* word, changing the bit and writing the word back; a word is written     *)
(* with function 6 and, when that fails in any way, again with function    *)
(* 16; 32-bit values take function 16 and outputs function 5, once.        *)
(*                                                                         *)
(* Every exchange has a socket of its own, so an answer that comes after   *)
(* the timeout is never seen, but its request may still be on the way: a   *)
(* packet stays in `packets` until the device (im1 starts a task for each  *)
(* packet, so in any order) carries it out; one that never does was lost.  *)
(*                                                                         *)
(* A word is the set of its bits that are 1.                               *)
(***************************************************************************)
EXTENDS Naturals, Sequences, FiniteSets

CONSTANTS
    Web,            \* requests' handlers of the web front end
    Desk,           \* desktop configurators
    Bits,           \* bits of the word register
    Requests,       \* what each client may ask for: see Request
    RATE_MAX, RATE_WINDOW,
    UnknownFuncs,   \* the sets of functions a device may not know
    MaxAsked,       \* bound: requests of each client
    MaxLate,        \* bound: writes on the way that nobody waits for
    MaxTime         \* bound: the clock of the rate limit

Clients == Web \cup Desk

Words == SUBSET Bits

Request ==
    [kind : {"bit"}, bit : Bits, on : BOOLEAN] \cup [kind : {"word"}, word : Words]
        \cup [kind : {"long", "tu"}, val : BOOLEAN]

ASSUME ClientsAssumption == Web \cap Desk = {}
ASSUME RequestsAssumption == Requests \in [Clients -> SUBSET Request]
ASSUME BoundsAssumption == MaxAsked \in [Clients -> Nat] /\ {MaxLate, MaxTime} \subseteq Nat
ASSUME RateAssumption == RATE_MAX \in Nat \ {0} /\ RATE_WINDOW \in Nat

VARIABLES
    dev,        \* the device: its registers, the functions it does not know
    packets,    \* requests on the way, or lost
    answers,    \* answers on the way to an open socket
    cli,        \* the handler of a client's request, and its last outcome
    now,        \* clock of the rate limit
    recent,     \* RATE_LIMIT: times of the last requests of the address
    journal,    \* web_actions: inserts still to do, and done or failed
    ghost       \* what the properties remember

vars == <<dev, packets, answers, cli, now, recent, journal, ghost>>

TypeOK ==
    /\ dev.word \in Words /\ dev.long \in BOOLEAN /\ dev.tu \in BOOLEAN
    /\ \A p \in packets : p.from \in Clients /\ p.func \in {3, 5, 6, 16}
    /\ \A a \in answers : cli[a.from].func = a.func /\ cli[a.from].asked = a.nr
    /\ \A c \in Clients : cli[c].func \in {0, 3, 5, 6, 16}

-----------------------------------------------------------------------------
Idle == [func |-> 0, asked |-> 0, req |-> [kind |-> "none"], word |-> {}, readAt |-> 0]

Init ==
    /\ \E no \in UnknownFuncs :
          dev = [word |-> {}, long |-> FALSE, tu |-> FALSE, unknown |-> no]
    /\ packets = {} /\ answers = {}
    /\ cli = [c \in Clients |-> Idle]
    /\ now = 0 /\ recent = <<>>
    /\ journal = [todo |-> {}, tried |-> {}]
    /\ ghost = [ok |-> {}, done |-> {}, writes |-> 0, touched |-> [b \in Bits |-> 0],
                granted |-> <<>>]

(* A packet of the request being handled: its function, the word it        *)
(* carries and, for the properties, when that word was read.               *)
Packet(c, m, func) ==
    [from |-> c, nr |-> m.asked, func |-> func, req |-> m.req,
     word |-> m.word, readAt |-> m.readAt]

(* What is left on the way when c stops waiting.  A read that nobody waits *)
(* for has no effect, and of writes at most MaxLate stay.                  *)
Stale == {p \in packets : cli[p.from].asked # p.nr \/ cli[p.from].func # p.func}

OnTheWay(c) ==
    LET waited == {p \in packets \ Stale : p.from = c}
    IN IF Cardinality(Stale) < MaxLate THEN {p \in packets : p \notin waited \/ p.func # 3}
                                       ELSE packets \ waited

(* send_mb_chunk_over_udp: the socket of the last exchange is closed.      *)
Send(c, m, func) ==
    /\ cli' = [cli EXCEPT ![c] = [m EXCEPT !.func = func]]
    /\ packets' = OnTheWay(c) \cup {Packet(c, m, func)}
    /\ answers' = {a \in answers : a.from # c}

End(c) ==
    /\ cli' = [cli EXCEPT ![c].func = 0]
    /\ answers' = {a \in answers : a.from # c}
    /\ packets' = OnTheWay(c)

Recent(t) == SelectSeq(recent, LAMBDA e : t - e < RATE_WINDOW)

(* The clock counts from the first request.                                *)
Later == IF ghost.granted = <<>> THEN {0} ELSE now .. MaxTime

(* rate_limit, which only the web front end has, at time now'; its clients *)
(* have one address, as they do behind no proxy.                           *)
Granted(c) ==
    IF c \in Desk THEN UNCHANGED <<now, recent, ghost>>
    ELSE /\ now' \in Later
         /\ Len(Recent(now')) < RATE_MAX
         /\ recent' = Append(Recent(now'), now')
         /\ ghost' = [ghost EXCEPT !.granted = Append(@, now')]

FirstFunc(req) ==
    CASE req.kind = "bit" -> 3
      [] req.kind = "word" -> 6
      [] req.kind = "long" -> 16
      [] req.kind = "tu" -> 5

Ask(c, req) ==
    /\ cli[c].func = 0 /\ cli[c].asked < MaxAsked[c]
    /\ Granted(c)
    /\ Send(c, [func |-> 0, asked |-> cli[c].asked + 1, req |-> req,
                word |-> IF req.kind = "word" THEN req.word ELSE {},
                readAt |-> ghost.writes], FirstFunc(req))
    /\ UNCHANGED <<dev, journal>>

Refused(c) ==
    /\ c \in Web /\ cli[c].func = 0 /\ cli[c].asked < MaxAsked[c]
    /\ now' \in Later
    /\ Len(Recent(now')) >= RATE_MAX
    /\ cli' = [cli EXCEPT ![c].asked = @ + 1]
    /\ recent' = Recent(now')
    /\ UNCHANGED <<dev, packets, answers, journal, ghost>>

-----------------------------------------------------------------------------
(* The device.                                                             *)

(* The bits a packet asks for or changes.                                  *)
Touched(p) ==
    CASE p.req.kind = "bit" -> {b \in Bits : b = p.req.bit \/ (b \in dev.word) # (b \in p.word)}
      [] p.req.kind = "word" -> Bits
      [] OTHER -> {}

Carried(p) ==
    CASE p.func = 5 -> [dev EXCEPT !.tu = p.req.val]
      [] p.func \in {6, 16} /\ p.req.kind = "long" -> [dev EXCEPT !.long = p.req.val]
      [] p.func \in {6, 16} /\ p.req.kind # "long" -> [dev EXCEPT !.word = p.word]
      [] OTHER -> dev

Execute(p) ==
    LET known == p.func \notin dev.unknown
        open == cli[p.from].asked = p.nr /\ cli[p.from].func = p.func
        writes == known /\ p.func # 3
    IN /\ p \in packets
       /\ packets' = packets \ {p}
       /\ dev' = IF known THEN Carried(p) ELSE dev
       /\ answers' = IF open
                     THEN answers \cup {[from |-> p.from, nr |-> p.nr, func |-> p.func,
                                         ok |-> known, word |-> dev.word,
                                         at |-> ghost.writes]}
                     ELSE answers
       /\ ghost' = IF ~writes THEN ghost
                   ELSE [ghost EXCEPT
                           !.done = @ \cup {<<p.from, p.nr>>},
                           !.writes = @ + 1,
                           !.touched = [b \in Bits |-> IF b \in Touched(p)
                                                       THEN ghost.writes + 1 ELSE @[b]]]
       /\ UNCHANGED <<cli, now, recent, journal>>

-----------------------------------------------------------------------------
(* The handler goes on.                                                    *)

\* Mutant: the other bits of the word are not taken over when one is set.
MaskOnly(cur, req) == IF req.on THEN {req.bit} ELSE cur \ {req.bit}

TargetWord(cur, req) == IF req.on THEN cur \cup {req.bit} ELSE cur \ {req.bit}

\* Mutant: only what function 6 has written is put in the journal.
ToldUnlogged(c) ==
    LET nr == <<c, cli[c].asked>>
    IN /\ End(c)
       /\ journal' = IF c \in Web /\ cli[c].func = 6
                     THEN [journal EXCEPT !.todo = @ \cup {nr}] ELSE journal
       /\ ghost' = [ghost EXCEPT !.ok = @ \cup {nr}]

(* Told: the client is answered, and a task of its own inserts the row.    *)
Told(c) ==
    LET nr == <<c, cli[c].asked>>
    IN /\ End(c)
       /\ journal' = IF c \in Web THEN [journal EXCEPT !.todo = @ \cup {nr}] ELSE journal
       /\ ghost' = [ghost EXCEPT !.ok = @ \cup {nr}]

\* Mutant: a write that fails is tried again from the start.
FailedRetry(c) ==
    /\ IF cli[c].func \in {6, 16} THEN Send(c, cli[c], 22 - cli[c].func) ELSE End(c)
    /\ UNCHANGED <<journal, ghost>>

(* The second attempt takes the same word, or an error ends the request.   *)
Failed(c) ==
    /\ IF cli[c].func = 6 THEN Send(c, cli[c], 16) ELSE End(c)
    /\ UNCHANGED <<journal, ghost>>

\* Mutant: whatever is answered is taken for success.
Anything(a) == a.func # 3 \/ a.ok

(* What send_write accepts: the function asked for, no exception.          *)
Accepted(a) == a.ok

Receive(a) ==
    LET c == a.from
    IN /\ a \in answers
       /\ IF ~Accepted(a) THEN Failed(c)
          ELSE IF a.func # 3 THEN Told(c)
          ELSE /\ Send(c, [cli[c] EXCEPT !.word = TargetWord(a.word, cli[c].req),
                                         !.readAt = a.at], 6)
               /\ UNCHANGED <<journal, ghost>>
       /\ UNCHANGED <<dev, now, recent>>

Timeout(c) ==
    /\ cli[c].func # 0
    /\ Failed(c)
    /\ UNCHANGED <<dev, now, recent>>

-----------------------------------------------------------------------------
(* insert_web_action in a task of its own; an error is dropped.            *)
Insert(nr) ==
    /\ nr \in journal.todo
    /\ journal' = [todo |-> journal.todo \ {nr}, tried |-> journal.tried \cup {nr}]
    /\ UNCHANGED <<dev, packets, answers, cli, now, recent, ghost>>

Next ==
    \/ \E c \in Clients : Refused(c) \/ Timeout(c) \/ \E req \in Requests[c] : Ask(c, req)
    \/ \E p \in packets : Execute(p)
    \/ \E a \in answers : Receive(a)
    \/ \E nr \in journal.todo : Insert(nr)

(* A receive times out; a spawned task runs.  Nothing is assumed of the    *)
(* network and the device.                                                 *)
Spec ==
    /\ Init /\ [][Next]_vars
    /\ \A c \in Clients : WF_vars(Timeout(c))
    /\ WF_vars(\E nr \in journal.todo : Insert(nr))

-----------------------------------------------------------------------------
(* Success is reported only for a request the device has carried out,      *)
(* whatever was lost, late or refused on the way (handlers.rs:712-754,     *)
(* actions_io.rs:586-616).  Holds with the types of the state.             *)
OkMeansWritten == TypeOK /\ ghost.ok \subseteq ghost.done

(* Writing a bit changes another bit only when something wrote that one    *)
(* after the word had been read: two requests that overlap, or a packet    *)
(* that comes late (handlers.rs:813-840).                                  *)
UndoneOnlyByOverlap ==
    [][\A p \in packets : p \notin packets' /\ p.req.kind = "bit" =>
          \A b \in Bits \ {p.req.bit} :
             (b \in dev.word) # (b \in dev'.word) => ghost.touched[b] > p.readAt]_vars

(* Every request is answered in the end, after a read and two writes at    *)
(* most, each with its own timeout (handlers.rs:853-882); and every write  *)
(* the web front end reports is brought to the journal, by one insert that *)
(* may fail (handlers.rs:768-776, 856-864).                                *)
EveryRequestEnds ==
    /\ \A c \in Clients : cli[c].func # 0 ~> cli[c].func = 0
    /\ \A c \in Web : \A n \in 1 .. MaxAsked[c] :
          <<c, n>> \in ghost.ok ~> <<c, n>> \in journal.tried
=============================================================================
