------------------------------ MODULE LivePoll ------------------------------
(***************************************************************************)
(* Reading registers on demand.  The server, the operator station, the web *)
(* front end and the configurator each turn registers into Modbus reads of *)
(* adjacent words, put the reads into packets for the modem, and give the  *)
(* words of the answers back to the registers.                             *)
(*                                                                         *)
(*   "server"   ss4 scheduler/poll_plan.rs: the plan only, its exchange is *)
(*              that of AMode and Transport                                *)
(*   "table"    ss5 kpz_io.rs, modbus_service.rs read_group_glued          *)
(*   "window"   ss5 app.rs and ss7 actions_io.rs, poll_now                 *)
(*   "web"      ss6 handlers.rs, /api live values and the web socket       *)
(*                                                                         *)
(* The word of function f at address a is the pair <<f, a>>, so a value    *)
(* says where it was read.  Bits of a word and the numeric conversion are  *)
(* left out.                                                               *)
(***************************************************************************)
EXTENDS Integers, Sequences, FiniteSets, FiniteSetsExt, Ranks

CONSTANTS
  Programs,      \* the programs that read
  Regs,          \* registers: [id, mb (address), wide (32 bits), tu (a command), type]
  MaxWanted,     \* the most registers of one reading
  TopAddress,    \* the last address (65535)
  MaxWords,      \* words of one read: 120, and 16 .. 240 by packet length in "table"
  DeviceWords,   \* the most words a device gives in one answer (125)
  PacketReads,   \* reads that fit one packet (max_pkt_len)
  MaxFailed      \* bound on the answers that go wrong

ASSUME PollAssumption ==
  /\ Programs \subseteq {"server", "table", "window", "web"}
  /\ IsFiniteSet(Regs) /\ \A r, q \in Regs : r.id = q.id => r = q
  /\ \A r \in Regs : /\ r.id \in Int /\ r.mb \in Int /\ r.wide \in BOOLEAN /\ r.tu \in BOOLEAN
                      /\ r.type \in {"TIT", "REG", "other"}
  /\ {MaxWanted, TopAddress, DeviceWords, PacketReads} \subseteq Nat \ {0} /\ MaxFailed \in Nat
  /\ MaxWords \in Nat /\ MaxWords >= 2

VARIABLES
  prog,          \* the program that reads
  wanted,        \* the registers asked for
  plan,          \* the reads: [func, type, first, last, regs]
  sent,          \* how many of them were sent
  frames,        \* the answers not given out yet, in the order they came
  shown,         \* id -> the words it shows, NoValue, or "db"
  phase,         \* "plan", "talk", "end"
  failed         \* what went wrong with which read: <<"silent" or "bad" or "lost", its number>>

pollVars == <<prog, wanted, plan, sent, frames, shown, phase, failed>>

NoValue == <<>>
Db      == <<<<0, 1>>>>

-----------------------------------------------------------------------------
(* The plan *)

Last1(r) == IF r.wide THEN r.mb + 1 ELSE r.mb
Span(r)  == r.mb .. Last1(r)

\* The function that reads a register: the server knows the two types by
\* name, the others take every type without "TIT" for a holding register.
Func(r) == IF r.type = "TIT" THEN 4 ELSE 3

ServerReads(r) == r.mb \in 0 .. TopAddress /\ r.type # "other"
WindowReads(r) == ~r.tu
Reads(r) ==
  CASE prog = "server" -> ServerReads(r)
    [] prog = "window" -> WindowReads(r)
    [] OTHER           -> TRUE

Farther(a, b) == IF a < b THEN b ELSE a

\* Mutant: a register next but one joins too.
JoinsGap(b, r) ==
  /\ b.func = Func(r) /\ (prog = "web" => b.type = r.type)
  /\ r.mb <= b.last + 2
  /\ prog # "web" => Farther(b.last, Last1(r)) - b.first + 1 <= MaxWords

\* A register joins the open read of its function if it touches it and the
\* read stays short enough; the web has no limit, and it keeps the types apart.
Joins(b, r) ==
  /\ b.func = Func(r) /\ (prog = "web" => b.type = r.type)
  /\ r.mb <= b.last + 1
  /\ prog # "web" => Farther(b.last, Last1(r)) - b.first + 1 <= MaxWords

Alone(r) == [func |-> Func(r), type |-> r.type, first |-> r.mb, last |-> Last1(r), regs |-> {r}]
Joined(b, r) == [b EXCEPT !.last = Farther(b.last, Last1(r)), !.regs = @ \cup {r}]

Gather(reads, r) ==
  LET n == Len(reads) IN
  IF n > 0 /\ Joins(reads[n], r) THEN [reads EXCEPT ![n] = Joined(@, r)] ELSE Append(reads, Alone(r))

\* The reads of a list of registers, gathered from the first to the last.
Gathered(regs) ==
  LET upTo[n \in 0 .. Len(regs)] == IF n = 0 THEN <<>> ELSE Gather(upTo[n - 1], regs[n])
  IN  upTo[Len(regs)]

\* Registers by address; equal addresses keep the order of their ids.
Lower(a, b)  == a.mb < b.mb \/ (a.mb = b.mb /\ a.id < b.id)
ByAddress(S) == Ordered(S, [r \in S |-> {q \in S : Lower(q, r)}])

OfFunc(S, f) == {r \in S : Func(r) = f}
OfType(S, t) == {r \in S : r.type = t}

\* The reads p by their first address; those with the same one keep their order.
ByFirst(p) ==
  LET at == Ordered(DOMAIN p, [i \in DOMAIN p |->
              {j \in DOMAIN p : p[j].first < p[i].first \/ (p[j].first = p[i].first /\ j < i)}])
  IN  [n \in DOMAIN p |-> p[at[n]]]

\* Both functions are gathered in one pass and the reads put in order of address.
ServerPlan(S) == ByFirst(Gathered(ByAddress(OfFunc(S, 4))) \o Gathered(ByAddress(OfFunc(S, 3))))
WindowPlan(S) == Gathered(ByAddress(OfFunc(S, 3))) \o Gathered(ByAddress(OfFunc(S, 4)))
WebPlan(S)    == Gathered(ByAddress(OfType(S, "REG"))) \o Gathered(ByAddress(OfType(S, "other")))
                   \o Gathered(ByAddress(OfType(S, "TIT")))
TablePlan(S)  == Gathered(ByAddress(S))

PlanOf(S) ==
  CASE prog = "server" -> ServerPlan(S)
    [] prog = "window" -> WindowPlan(S)
    [] prog = "web"    -> WebPlan(S)
    [] OTHER           -> TablePlan(S)

\* sout_mb_only refuses a read whose first address does not fit 16 bits.
Sendable(b) == b.first \in 0 .. TopAddress

\* The web answers such a read with an error and goes on; the others give
\* the whole reading up.
WebKeeps(p) == Kept(p, {i \in DOMAIN p : Sendable(p[i])})
GivesUp(p)  == prog \in {"window", "table"} /\ \E i \in DOMAIN p : ~Sendable(p[i])

Plan ==
  /\ phase = "plan"
  /\ LET p == PlanOf({r \in wanted : Reads(r)}) IN
       /\ plan' = IF prog = "web" THEN WebKeeps(p) ELSE p
       /\ phase' = IF prog = "server" \/ GivesUp(p) \/ plan' = <<>> THEN "end" ELSE "talk"
  /\ UNCHANGED <<prog, wanted, sent, frames, shown, failed>>

-----------------------------------------------------------------------------
(* The exchange *)

Words(b) == [i \in 1 .. b.last - b.first + 1 |-> <<b.func, b.first + i - 1>>]

\* What a device may put into its reply for a read: nothing at all, an
\* exception, or its words, all of them or too few.
Data(b, n)   == <<[func |-> b.func, words |-> SubSeq(Words(b), 1, n)]>>
Exception(b) == <<[func |-> b.func + 128, words |-> <<>>]>>
Servable(b)  == b.last <= TopAddress /\ Len(Words(b)) <= DeviceWords
Answers(b)   == {<<>>, Exception(b)}
                  \cup IF Servable(b) THEN {Data(b, n) : n \in 1 .. Len(Words(b))} ELSE {}
InFull(b, a) == a = Data(b, Len(Words(b)))

\* The words of a register are taken at its distance from the read's start.
WordsOf(b, frame, r) ==
  LET off == r.mb - b.first
      len == Cardinality(Span(r))
  IN IF frame.func = b.func /\ off + len <= Len(frame.words)
     THEN SubSeq(frame.words, off + 1, off + len) ELSE NoValue

\* Mutant: refusals do not count as answers.
GivenOutData(lo, hi, fs) ==
  LET data == Kept(fs, {i \in DOMAIN fs : fs[i].func < 128}) IN
  [id \in DOMAIN shown |->
     IF \E i \in lo .. hi : \E r \in plan[i].regs : r.id = id
     THEN LET i == CHOOSE n \in lo .. hi : \E r \in plan[n].regs : r.id = id
              r == CHOOSE x \in plan[i].regs : x.id = id
          IN IF i - lo + 1 <= Len(data) THEN WordsOf(plan[i], data[i - lo + 1], r) ELSE NoValue
     ELSE shown[id]]

\* Frames go to the reads lo .. hi by their position.
GivenOut(lo, hi, fs) ==
  [id \in DOMAIN shown |->
     IF \E i \in lo .. hi : \E r \in plan[i].regs : r.id = id
     THEN LET i == CHOOSE n \in lo .. hi : \E r \in plan[n].regs : r.id = id
              r == CHOOSE x \in plan[i].regs : x.id = id
          IN IF i - lo + 1 <= Len(fs) THEN WordsOf(plan[i], fs[i - lo + 1], r) ELSE NoValue
     ELSE shown[id]]

\* The table keeps every word under its address, a later answer replacing an
\* earlier one, and takes 0 for a missing one.
Zero == <<0, 0>>
WordAt(fs, a) ==
  LET at    == [i \in DOMAIN fs |-> a - plan[i].first + 1]
      known == {i \in DOMAIN fs : at[i] \in DOMAIN fs[i].words}
  IN IF known = {} THEN Zero ELSE fs[Max(known)].words[at[Max(known)]]
FromTable(fs) ==
  [id \in DOMAIN shown |->
     LET r == CHOOSE x \in wanted : x.id = id
     IN [i \in 1 .. Cardinality(Span(r)) |-> WordAt(fs, r.mb + i - 1)]]

\* The reads of the next packet.  All reads are of one length, so a packet
\* takes the same number of them; the table sends each on its own.
PerPacket == IF prog = "table" THEN 1 ELSE PacketReads
PacketEnd == IF sent + PerPacket < Len(plan) THEN sent + PerPacket ELSE Len(plan)
Packet(i) == (i - 1) \div PerPacket

Spoilt(as) == {<<IF as[i] = <<>> THEN "silent" ELSE "bad", i>> : i \in {j \in DOMAIN as : ~InFull(plan[j], as[j])}}
Room(new)  == Cardinality(failed \cup {f \in new : Servable(plan[f[2]])}) <= MaxFailed

\* The frames of a packet's answers, in the order they came.
Came(as) ==
  LET there == {i \in DOMAIN as : as[i] # <<>>}
  IN  [n \in 1 .. Cardinality(there) |-> as[Nth(there, n)][1]]

\* The web gives out the answers of each packet; the window collects all of
\* them first; the table ends at the first answer that is not data.
Receive(as) ==
  LET fs   == Came(as)
      all  == frames \o fs
      done == PacketEnd = Len(plan)
  IN CASE prog = "web"    -> /\ shown' = GivenOut(sent + 1, PacketEnd, fs)
                             /\ frames' = frames
                             /\ phase' = IF done THEN "end" ELSE "talk"
       [] prog = "window" -> /\ shown' = IF done THEN GivenOut(1, Len(plan), all) ELSE shown
                             /\ frames' = all
                             /\ phase' = IF done THEN "end" ELSE "talk"
       [] OTHER           -> LET data == fs # <<>> /\ fs[1].func < 128 IN
                             /\ shown' = IF done /\ data THEN FromTable(all) ELSE shown
                             /\ frames' = all
                             /\ phase' = IF done \/ ~data THEN "end" ELSE "talk"

Reply ==
  /\ phase = "talk"
  /\ \E as \in [sent + 1 .. PacketEnd -> UNION {Answers(plan[i]) : i \in sent + 1 .. PacketEnd}] :
       /\ \A i \in DOMAIN as : as[i] \in Answers(plan[i])
       /\ Room(Spoilt(as))
       /\ failed' = failed \cup Spoilt(as)
       /\ Receive(as)
  /\ sent' = PacketEnd
  /\ UNCHANGED <<prog, wanted, plan>>

\* Mutant: the web ends at the first packet without an answer.
GoesOnNever == FALSE

\* After a packet without an answer the web goes on to the next one; the
\* others give the whole reading up, the answers they have included.
GoesOn == prog = "web" /\ PacketEnd < Len(plan)

Lose ==
  /\ phase = "talk" /\ Cardinality(failed) < MaxFailed
  /\ failed' = failed \cup {<<"lost", PacketEnd>>}
  /\ sent' = PacketEnd
  /\ phase' = IF GoesOn THEN "talk" ELSE "end"
  /\ UNCHANGED <<prog, wanted, plan, frames, shown>>

\* After a reading that failed in part, the configurator fills in the values
\* of the database, also for the registers it does not poll.
Fallback ==
  /\ phase = "end" /\ prog = "window"
  /\ \E r \in wanted : Reads(r) /\ shown[r.id] = NoValue
  /\ shown' = [id \in DOMAIN shown |-> IF shown[id] = NoValue THEN Db ELSE shown[id]]
  /\ UNCHANGED <<prog, wanted, plan, sent, frames, phase, failed>>

\* The table reads the registers of one type.
PollInit ==
  /\ prog \in Programs
  /\ wanted \in SUBSET Regs /\ Cardinality(wanted) \in 1 .. MaxWanted
  /\ prog = "table" => Cardinality({r.type : r \in wanted}) = 1
  /\ shown = [id \in {r.id : r \in wanted} |-> NoValue]
  /\ plan = <<>> /\ sent = 0 /\ frames = <<>> /\ phase = "plan" /\ failed = {}

PollNext == Plan \/ Reply \/ Lose \/ Fallback

PollSpec == PollInit /\ [][PollNext]_pollVars

-----------------------------------------------------------------------------
(* Properties *)

ReadsOf(r) == {i \in DOMAIN plan : r \in plan[i].regs}

\* In the web a register at a negative address, which the editor of registers
\* accepts, takes with it those that adjoin it.
AllSent == \A q \in wanted : q.mb >= 0

\* The reads are exactly what was asked for: every register that can be read
\* lies whole in one read of its own function that gives it out, a read covers
\* no address nobody wants and, the web apart, is not longer than the limit
\* (ss4 poll_plan.rs:83-161, ss5 app.rs:1715-1749, ss5 modbus_service.rs:79-97,
\* ss6 handlers.rs:1139-1205).  Blocks that meet at the limit, 32-bit registers
\* at the border and several registers on one address are where it could fail.
PlanExact ==
  phase # "plan" =>
    /\ \A r \in wanted :
         /\ Reads(r) /\ r.mb \in 0 .. TopAddress /\ (prog = "web" => AllSent) =>
              \E i \in DOMAIN plan : /\ ReadsOf(r) = {i} /\ plan[i].func = Func(r)
                                     /\ Span(r) \subseteq plan[i].first .. plan[i].last
         /\ ~Reads(r) => ReadsOf(r) = {}
    /\ \A i \in DOMAIN plan :
         /\ plan[i].first .. plan[i].last = UNION {Span(r) : r \in plan[i].regs}
         /\ prog # "web" => Len(Words(plan[i])) <= MaxWords

RightValue(r) == [i \in 1 .. Cardinality(Span(r)) |-> <<Func(r), r.mb + i - 1>>]

\* What the programs do get wrong: a device that leaves one read of a packet
\* out shifts the answers after it into its place (in the window those of all
\* later packets too), and the table shows 0 for the words a short answer leaves out.
Shifted(i)  == /\ prog \in {"web", "window"}
               /\ \E j \in 1 .. i : <<"silent", j>> \in failed /\ (prog = "web" => Packet(j) = Packet(i))
Zeroed(i)   == prog = "table" /\ \E j \in DOMAIN plan : <<"bad", j>> \in failed

\* What keeps a register from its value: its own read failed, one before it
\* was left out, its packet was lost; in the window any lost packet, in the
\* table any failure.  A read that cannot be sent ends the reading there.
Touched(i) ==
  CASE prog = "web"    -> Shifted(i) \/ \E f \in failed : f[2] = i \/ (f[1] = "lost" /\ Packet(f[2]) = Packet(i))
    [] prog = "window" -> Shifted(i) \/ GivesUp(plan) \/ \E f \in failed : f[2] = i \/ f[1] = "lost"
    [] OTHER           -> GivesUp(plan) \/ failed # {}

\* A value on the screen is the one of its register (or of the database):
\* positions of reads, packets, frames and words never get mixed up, whatever
\* is lost or refused, but for the two cases above; and at the end of a reading
\* every register whose read went well shows its value, the failures of the
\* others notwithstanding (ss6 handlers.rs:1248-1354, ss7 actions_io.rs:186-369,
\* ss5 app.rs:1778-1848, ss5 modbus_service.rs:99-164).
EveryoneServed ==
  /\ \A r \in wanted :
       \/ shown[r.id] \in {NoValue, Db, RightValue(r)}
       \/ \E i \in ReadsOf(r) : Shifted(i) \/ Zeroed(i)
  /\ phase = "end" /\ prog # "server" =>
       \A r \in wanted : \A i \in ReadsOf(r) : Touched(i) \/ shown[r.id] = RightValue(r)

\* A reading is right from the plan to the screen: every register wanted is read
\* once, and what is shown for it is what was read for it.
ReadingsAreRight == PlanExact /\ EveryoneServed
=============================================================================
