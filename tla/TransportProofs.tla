--------------------------- MODULE TransportProofs ---------------------------
(***************************************************************************)
(* Theorems about Transport for every set of KPZ and endpoints, any        *)
(* numbers of modems, ids, requests and duplicates, as long as the ids     *)
(* have not come round (IdsApart) and a modem number means one KPZ behind  *)
(* an endpoint (ModemsApart).                                              *)
(***************************************************************************)
EXTENDS Transport, WellFoundedInduction, TLAPS

\* What the allocator and the clock yield is not handed out twice: the dsr counter
\* has not come round, and no id of the clock is one of the counter or of the
\* clock before (modbus_service.rs 497-506, alarm.rs 377-416).
IdsApart ==
  /\ MaxCalls < DsrMod - 1
  /\ \A n \in 1 .. MaxCalls : ClockId[n][2] \notin 1 .. MaxCalls
  /\ \A n, m \in 1 .. MaxCalls : ClockId[n] = ClockId[m] => n = m

\* A modem number is the address of one KPZ behind a gateway.
ModemsApart ==
  \A j, k \in Kpz : Endpoint[j] = Endpoint[k] /\ Modem[j] = Modem[k] => j = k

-----------------------------------------------------------------------------
(* The allocator of packet ids *)

LEMMA FirstPlace ==
  ASSUME NEW S \in SUBSET Nat, S # {}
  PROVE  \E x \in S : \A y \in S : x <= y
<1> DEFINE R == OpToRel(<, Nat)
<1>1. PICK x \in S : \A y \in S : ~(<<y, x>> \in R)
  <2>1. IsWellFoundedOn(R, Nat)  BY NatLessThanWellFounded
  <2> HIDE DEF R
  <2> QED BY <2>1, WFMin
<1>2. \A y \in S : ~(y < x)  BY <1>1 DEF OpToRel
<1>3. \A y \in S : x <= y
  <2> SUFFICES ASSUME NEW y \in S PROVE x <= y  OBVIOUS
  <2>1. ~(y < x) /\ x \in Nat /\ y \in Nat  BY <1>2
  <2> QED BY <2>1
<1> QED BY <1>3

LEMMA NextPidType ==
  ASSUME NEW e, pidNext[e] \in Pids
  PROVE  NextPid(e) \in Pids
<1> DEFINE from == [i \in 0 .. PidMod - 1 |-> (pidNext[e] + i) % PidMod]
           free == {i \in DOMAIN from : pidGuard[e][from[i]] = 0}
<1>1. PidMod \in Nat \ {0}  BY TransportAssumption
<1>2. \A i \in 0 .. PidMod - 1 : from[i] \in Pids  BY <1>1 DEF Pids
<1>3. 0 \in 0 .. PidMod - 1  BY <1>1
<1>4. CASE free = {}
  <2>1. NextPid(e) = from[0]  BY <1>4 DEF NextPid
  <2> QED BY <1>2, <1>3, <2>1
<1>5. CASE free # {}
  <2>1. free \in SUBSET Nat  OBVIOUS
  <2>2. \E x \in free : \A y \in free : x <= y
    <3> HIDE DEF free
    <3> QED BY <1>5, <2>1, FirstPlace
  <2>3. (CHOOSE i \in free : \A j \in free : i <= j) \in free
    <3> HIDE DEF free
    <3> QED BY <2>2
  <2>4. (CHOOSE i \in free : \A j \in free : i <= j) \in 0 .. PidMod - 1  BY <2>3
  <2>5. NextPid(e) = from[CHOOSE i \in free : \A j \in free : i <= j]  BY <1>5 DEF NextPid
  <2> HIDE DEF free
  <2> QED BY <1>2, <2>4, <2>5
<1> QED BY <1>4, <1>5

-----------------------------------------------------------------------------
(* The ids of a request are found in its entry, in the replies to it and   *)
(* with its caller.                                                        *)

Dsrs == 0 .. DsrMod - 1
Tag  == [n : Nat, kpz : Kpz, pid : Pids, dsr : Dsrs]

EntryTag(p)   == [n |-> p.n, kpz |-> p.kpz, pid |-> p.key[2], dsr |-> p.key[3]]
ReplyTag(d)   == [n |-> d.n, kpz |-> d.kpz, pid |-> d.pid, dsr |-> Asked(d)]
CallTag(k, c) == [n |-> c.n, kpz |-> k, pid |-> c.pid, dsr |-> c.dsr]

Tags(entries, replies, place, request) ==
  {EntryTag(p) : p \in entries} \cup {ReplyTag(d) : d \in replies}
    \cup {CallTag(k, request[k]) : k \in {x \in Kpz : place[x] # "idle"}}

\* An id comes from the counter or from the clock.
Issued(t, counter, last) ==
  /\ t \in Tag /\ t.n \in 1 .. last
  /\ t.dsr \in 1 .. counter - 1 \/ <<t.pid, t.dsr>> = ClockId[t.n]

\* Requests are told apart by number and by id.
IdsOK(T, counter, last) ==
  /\ last \in 0 .. MaxCalls /\ counter \in 1 .. last + 1
  /\ \A t \in T : Issued(t, counter, last)
  /\ \A s, t \in T : s.n = t.n \/ (s.pid = t.pid /\ s.dsr = t.dsr) => s = t

LEMMA FewerIds ==
  ASSUME NEW T, NEW U, NEW counter, NEW last, IdsOK(T, counter, last), U \subseteq T
  PROVE  IdsOK(U, counter, last)
BY DEF IdsOK

\* A new request has an id of its own.
LEMMA IdIsNew ==
  ASSUME IdsApart, NEW T, NEW counter, NEW last, IdsOK(T, counter, last),
         NEW t \in Tag, last < MaxCalls,
         t.dsr = counter \/ <<t.pid, t.dsr>> = ClockId[last + 1],
         NEW s \in T, s.pid = t.pid, s.dsr = t.dsr
  PROVE  FALSE
<1>1. /\ last \in Nat /\ MaxCalls \in Nat /\ counter \in 1 .. last + 1
      /\ last + 1 \in 1 .. MaxCalls
  BY TransportAssumption DEF IdsOK
<1>2. Issued(s, counter, last)  BY DEF IdsOK
<1>3. \A n \in 1 .. MaxCalls : ClockId[n][2] \notin 1 .. MaxCalls  BY DEF IdsApart
<1>4. s.n \in 1 .. MaxCalls /\ s.n # last + 1  BY <1>1, <1>2 DEF Issued
<1>5. CASE s.dsr \in 1 .. counter - 1
  <2>1. s.dsr \in 1 .. MaxCalls /\ s.dsr # counter  BY <1>1, <1>5
  <2>2. ClockId[last + 1][2] = t.dsr  BY <2>1
  <2> QED BY <1>1, <1>3, <2>1, <2>2
<1>6. CASE <<s.pid, s.dsr>> = ClockId[s.n]
  <2>1. ClockId[s.n][2] = s.dsr  BY <1>6
  <2>2. CASE t.dsr = counter
    <3>1. counter \in 1 .. MaxCalls  BY <1>1
    <3> QED BY <1>3, <1>4, <2>1, <2>2, <3>1
  <2>3. CASE <<t.pid, t.dsr>> = ClockId[last + 1]
    BY <1>1, <1>4, <1>6, <2>3 DEF IdsApart
  <2> QED BY <2>2, <2>3
<1> QED BY <1>2, <1>5, <1>6 DEF Issued

LEMMA NewId ==
  ASSUME IdsApart, NEW T, NEW counter, NEW last, IdsOK(T, counter, last),
         NEW t \in Tag, t.n = last + 1, last < MaxCalls, NEW next,
         \/ t.dsr = counter /\ next = counter + 1
         \/ <<t.pid, t.dsr>> = ClockId[last + 1] /\ next = counter,
         NEW U, U \subseteq T \cup {t}
  PROVE  IdsOK(U, next, last + 1)
<1>1. /\ last \in Nat /\ MaxCalls \in Nat /\ counter \in 1 .. last + 1
      /\ last + 1 \in 1 .. MaxCalls /\ next \in 1 .. last + 2
  BY TransportAssumption DEF IdsOK
<1>2. \A s \in T : Issued(s, counter, last) /\ s.n \in 1 .. last /\ s.n # t.n
  BY <1>1 DEF IdsOK, Issued
<1>3. \A s \in T : ~(s.pid = t.pid /\ s.dsr = t.dsr)  BY IdIsNew
<1>4. ASSUME NEW s \in T PROVE Issued(s, next, last + 1)
  <2>1. s.n \in 1 .. last + 1  BY <1>1, <1>2
  <2>2. s.dsr \in 1 .. counter - 1 => s.dsr \in 1 .. next - 1  BY <1>1
  <2> QED BY <1>2, <2>1, <2>2 DEF Issued
<1>5. Issued(t, next, last + 1)
  <2>1. t.n \in 1 .. last + 1  BY <1>1
  <2>2. t.dsr = counter /\ next = counter + 1 => t.dsr \in 1 .. next - 1  BY <1>1
  <2> QED BY <2>1, <2>2 DEF Issued
<1>6. \A s, u \in U : s.n = u.n \/ (s.pid = u.pid /\ s.dsr = u.dsr) => s = u
  <2> SUFFICES ASSUME NEW s \in T \cup {t}, NEW u \in T \cup {t},
                      s.n = u.n \/ (s.pid = u.pid /\ s.dsr = u.dsr)
               PROVE  s = u
    OBVIOUS
  <2>1. CASE s \in T /\ u \in T  BY <2>1 DEF IdsOK
  <2>2. CASE s \notin T \/ u \notin T  BY <1>2, <1>3, <2>2
  <2> QED BY <2>1, <2>2
<1>7. last + 1 \in 0 .. MaxCalls /\ next \in 1 .. (last + 1) + 1  BY <1>1
<1>8. \A u \in U : Issued(u, next, last + 1)  BY <1>4, <1>5
<1> QED BY <1>6, <1>7, <1>8 DEF IdsOK

-----------------------------------------------------------------------------
(* The inductive invariant *)

AllTags == Tags(pending, net, phase, call)

EntryOK(p) ==
  /\ EntryTag(p) \in Tag
  /\ p = Entry(p.kpz, p.n, p.key[2], p.key[3])

ReplyOK(d) ==
  /\ ReplyTag(d) \in Tag
  /\ d = ReplyTo(d.kpz, d.n, d.pid, Asked(d))

\* What a caller has taken was for it.
TakenOK(k, a) ==
  \/ a.kpz = k /\ (a.n = call[k].n \/ call[k].dsr = Modem[k])
  \/ call[k].dsr = Modem[a.kpz] /\ (a.full => a.dsr = Modem[k])

\* A caller has an open channel only while it waits, replies only while it collects.
ChannelsOK ==
  \A k \in Kpz : /\ phase[k] = "idle" => inbox[k] = <<>>
                 /\ phase[k] # "collect" => got[k] = <<>>

AnswersOK == \A k \in Kpz : \A a \in Answers(k) : TakenOK(k, a)

IInv ==
  /\ TypeOK /\ EntryStays
  /\ IdsOK(AllTags, dsrNext, calls)
  /\ \A p \in pending : EntryOK(p)
  /\ \A d \in net : ReplyOK(d)
  /\ ChannelsOK /\ AnswersOK

LEMMA InitOK == Init => IInv
<1> SUFFICES ASSUME Init PROVE IInv  OBVIOUS
<1>1. /\ MaxCalls \in Nat /\ MaxDups \in Nat /\ PidMod \in Nat \ {0} /\ DsrMod \in Nat \ {0, 1}
      /\ 0 \in Pids
  BY TransportAssumption DEF Pids
<1>2. TypeOK
  <2>1. phase \in [Kpz -> {"idle", "first", "collect"}]  BY DEF Init
  <2>2. call \in [Kpz -> [n : Nat, pid : Pids, dsr : 0 .. DsrMod - 1, all : BOOLEAN]]
    BY <1>1 DEF Init, NoCall
  <2>3. inbox \in [Kpz -> Seq(Answer)] /\ got \in [Kpz -> Seq(Answer)]  BY DEF Init
  <2>4. /\ pidNext \in [Endpoints -> Pids] /\ pidGuard \in [Endpoints -> [Pids -> 0 .. calls]]
    BY <1>1 DEF Init
  <2>5. dsrNext \in 0 .. DsrMod - 1 /\ dups \in 0 .. MaxDups /\ calls \in 0 .. MaxCalls  BY <1>1 DEF Init
  <2> QED BY <2>1, <2>2, <2>3, <2>4, <2>5 DEF TypeOK, Init
<1>3. AllTags = {}  BY DEF AllTags, Tags, Init
<1>4. IdsOK(AllTags, dsrNext, calls)  BY <1>1, <1>3 DEF IdsOK, Init
<1>5. \A k \in Kpz : Answers(k) = {}  BY DEF Init, Answers
<1> QED BY <1>2, <1>4, <1>5 DEF IInv, ChannelsOK, AnswersOK, EntryStays, Init

-----------------------------------------------------------------------------
(* A new request *)

LEMMA RequestOK ==
  ASSUME IdsApart, IInv, NEW k \in Kpz, NEW pid \in Pids, NEW dsr \in Dsrs, NEW all \in BOOLEAN,
         NEW sent \in BOOLEAN, Request(k, pid, dsr, all, sent),
         \/ dsr = dsrNext /\ dsrNext' = dsrNext + 1
         \/ <<pid, dsr>> = ClockId[calls + 1] /\ dsrNext' = dsrNext,
         pidNext' \in [Endpoints -> Pids], pidGuard' \in [Endpoints -> [Pids -> 0 .. calls']]
  PROVE  IInv'
<1> DEFINE n == calls + 1
           entry == Entry(k, n, pid, dsr)
           reply == ReplyTo(k, n, pid, dsr)
           t == [n |-> n, kpz |-> k, pid |-> pid, dsr |-> dsr]
<1>1. /\ TypeOK /\ calls \in Nat /\ n \in 1 .. MaxCalls /\ calls < MaxCalls /\ calls' = n
      /\ phase[k] = "idle" /\ MaxCalls \in Nat /\ DsrMod \in Nat
  <2>1. TypeOK /\ calls \in 0 .. MaxCalls  BY DEF IInv, TypeOK
  <2>2. phase[k] = "idle" /\ n <= MaxCalls /\ calls' = n  BY DEF Request
  <2>3. MaxCalls \in Nat /\ DsrMod \in Nat  BY TransportAssumption
  <2> QED BY <2>1, <2>2, <2>3
<1>2. IdsOK(AllTags, dsrNext, calls) /\ t \in Tag  BY <1>1 DEF IInv, Tag
<1>3. \A s \in AllTags : ~(s.pid = pid /\ s.dsr = dsr)
  <2>1. t.pid = pid /\ t.dsr = dsr  OBVIOUS
  <2> HIDE DEF t
  <2> QED BY <1>1, <1>2, <2>1, IdIsNew
<1>4. ~InUse(entry.key)
  <2> SUFFICES ASSUME NEW p \in pending, p.key = entry.key PROVE FALSE  BY DEF InUse
  <2>1. EntryTag(p) \in AllTags  BY DEF AllTags, Tags
  <2>2. EntryTag(p).pid = pid /\ EntryTag(p).dsr = dsr  BY DEF EntryTag, Entry, Key
  <2> QED BY <1>3, <2>1, <2>2
<1>5. /\ pending' = pending \cup {entry} /\ refused' = refused
      /\ UNCHANGED <<inbox, got, expired, dups>>
  BY <1>4 DEF Request
<1>6. \/ UNCHANGED <<net, phase, call>>
      \/ /\ net' = net \cup {reply} /\ phase' = [phase EXCEPT ![k] = "first"]
         /\ call' = [call EXCEPT ![k] = [n |-> n, pid |-> pid, dsr |-> dsr, all |-> all]]
  BY <1>4 DEF Request
<1>7. EntryTag(entry) = t /\ EntryOK(entry)
  <2>1. entry.kpz = k /\ entry.n = n /\ entry.key[2] = pid /\ entry.key[3] = dsr
    BY DEF Entry, Key
  <2> QED BY <1>2, <2>1 DEF EntryTag, EntryOK
<1>8. ReplyTag(reply) = t /\ ReplyOK(reply)
  <2>1. Swaps[k] \in BOOLEAN  BY TransportAssumption
  <2>2. reply.kpz = k /\ reply.n = n /\ reply.pid = pid /\ Asked(reply) = dsr
    BY <2>1 DEF ReplyTo, Reply, Asked
  <2> QED BY <1>2, <2>2 DEF ReplyTag, ReplyOK
<1>9. \A x \in Kpz : x # k => phase'[x] = phase[x] /\ call'[x] = call[x]
  BY <1>1, <1>6 DEF TypeOK
<1>10. phase'[k] # "idle" =>
         /\ call'[k] = [n |-> n, pid |-> pid, dsr |-> dsr, all |-> all]
         /\ CallTag(k, call'[k]) = t
  BY <1>1, <1>6 DEF TypeOK, CallTag
<1>11. AllTags' \subseteq AllTags \cup {t}
  <2> SUFFICES ASSUME NEW s \in Tags(pending', net', phase', call') PROVE s \in AllTags \cup {t}
    BY DEF AllTags
  <2>1. CASE \E p \in pending' : s = EntryTag(p)  BY <1>5, <1>7, <2>1 DEF AllTags, Tags
  <2>2. CASE \E d \in net' : s = ReplyTag(d)  BY <1>6, <1>8, <2>2 DEF AllTags, Tags
  <2>3. CASE \E x \in Kpz : phase'[x] # "idle" /\ s = CallTag(x, call'[x])
    BY <1>9, <1>10, <2>3 DEF AllTags, Tags
  <2> QED BY <2>1, <2>2, <2>3 DEF Tags
<1>12. IdsOK(AllTags', dsrNext', calls')
  <2>1. t.n = calls + 1 /\ t.pid = pid /\ t.dsr = dsr  OBVIOUS
  <2> HIDE DEF t
  <2> QED BY <1>1, <1>2, <1>11, <2>1, NewId
<1>13. TypeOK'
  <2>1. phase' \in [Kpz -> {"idle", "first", "collect"}]  BY <1>1, <1>6 DEF TypeOK
  <2>2. call' \in [Kpz -> [n : Nat, pid : Pids, dsr : 0 .. DsrMod - 1, all : BOOLEAN]]
    <3>1. [n |-> n, pid |-> pid, dsr |-> dsr, all |-> all]
            \in [n : Nat, pid : Pids, dsr : 0 .. DsrMod - 1, all : BOOLEAN]
      BY <1>1 DEF Dsrs
    <3> QED BY <1>1, <1>6, <3>1 DEF TypeOK
  <2>3. \A p \in pending' : p.kpz \in Kpz /\ p.n \in 1 .. calls' /\ p.modem = Modem[p.kpz]
    <3> SUFFICES ASSUME NEW p \in pending' PROVE p.kpz \in Kpz /\ p.n \in 1 .. calls' /\ p.modem = Modem[p.kpz]
      OBVIOUS
    <3>1. CASE p \in pending  BY <1>1, <3>1 DEF TypeOK
    <3>2. CASE p = entry  BY <1>1, <3>2 DEF Entry
    <3> QED BY <1>5, <3>1, <3>2
  <2>4. \A p, q \in pending' : p.key = q.key => p = q
    BY <1>1, <1>4, <1>5 DEF TypeOK, InUse
  <2>5. dsrNext' \in 0 .. DsrMod - 1
    <3>1. dsrNext' \in 1 .. n + 1 /\ n < DsrMod - 1  BY <1>1, <1>12 DEF IdsOK, IdsApart
    <3> QED BY <1>1, <3>1
  <2>6. expired' \subseteq 1 .. calls' /\ calls' \in 0 .. MaxCalls
    BY <1>1, <1>5 DEF TypeOK
  <2> QED BY <1>1, <1>5, <2>1, <2>2, <2>3, <2>4, <2>5, <2>6 DEF TypeOK
<1>14. EntryStays'
  <2>1. ASSUME NEW x \in Kpz, phase'[x] # "idle", call'[x].n \notin expired
        PROVE  \E p \in pending' : p.key = Key(Endpoint[x], call'[x].pid, call'[x].dsr) /\ p.n = call'[x].n
    <3>1. CASE x = k
      <4>1. entry \in pending' /\ entry.key = Key(Endpoint[k], pid, dsr) /\ entry.n = n
        BY <1>5 DEF Entry
      <4> QED BY <1>10, <2>1, <3>1, <4>1
    <3>2. CASE x # k  BY <1>5, <1>9, <2>1, <3>2 DEF IInv, EntryStays, KeyOf
    <3> QED BY <3>1, <3>2
  <2> QED BY <1>5, <2>1 DEF IInv, EntryStays, KeyOf
<1>15. \A p \in pending' : EntryOK(p)  BY <1>5, <1>7 DEF IInv
<1>16. \A d \in net' : ReplyOK(d)  BY <1>6, <1>8 DEF IInv
<1>17. \A x \in Kpz : /\ phase'[x] = "idle" => inbox'[x] = <<>>
                      /\ phase'[x] # "collect" => got'[x] = <<>>
  BY <1>1, <1>5, <1>9 DEF IInv, ChannelsOK, AnswersOK
<1>18. ASSUME NEW x \in Kpz, NEW a \in Answers(x)' PROVE TakenOK(x, a)'
  <2>1. a \in Answers(x)  BY <1>5 DEF Answers
  <2>2. x # k
    <3>1. inbox[k] = <<>> /\ got[k] = <<>>  BY <1>1 DEF IInv, ChannelsOK, AnswersOK
    <3> QED BY <2>1, <3>1 DEF Answers
  <2>3. TakenOK(x, a)  BY <2>1 DEF IInv, ChannelsOK, AnswersOK
  <2>4. call'[x] = call[x]  BY <1>9, <2>2
  <2> QED BY <2>3, <2>4 DEF TakenOK
<1> QED BY <1>12, <1>13, <1>14, <1>15, <1>16, <1>17, <1>18 DEF IInv, ChannelsOK, AnswersOK

LEMMA StartOK == ASSUME IdsApart, IInv, NEW k \in Kpz, Start(k) PROVE IInv'
<1>1. PICK sent \in BOOLEAN : RequestChunk(k, sent) \/ RequestCommand(k, sent)  BY DEF Start
<1>2. /\ TypeOK /\ Endpoint[k] \in Endpoints /\ calls \in Nat /\ MaxCalls \in Nat
      /\ dsrNext \in 1 .. calls + 1 /\ DsrMod \in Nat
  <2>1. TypeOK /\ IdsOK(AllTags, dsrNext, calls)  BY DEF IInv
  <2>2. calls \in Nat /\ MaxCalls \in Nat /\ DsrMod \in Nat  BY <2>1, TransportAssumption DEF TypeOK
  <2>3. Endpoint[k] \in Endpoints  BY DEF Endpoints
  <2> QED BY <2>1, <2>2, <2>3 DEF IdsOK
<1>3. CASE RequestChunk(k, sent)
  <2> DEFINE e == Endpoint[k]
             pid == NextPid(e)
  <2>1. calls + 1 <= MaxCalls /\ calls' = calls + 1  BY <1>3 DEF RequestChunk, Request
  <2>2. pid \in Pids  BY <1>2, NextPidType DEF TypeOK
  <2>3. /\ dsrNext + 1 < DsrMod /\ dsrNext # 0  BY <1>2, <2>1 DEF IdsApart
  <2>4. (dsrNext + 1) % DsrMod = dsrNext + 1  BY <1>2, <2>3
  <2>5. Dsr = dsrNext /\ dsrNext' = dsrNext + 1 /\ Dsr \in Dsrs
    BY <1>2, <1>3, <2>3, <2>4 DEF RequestChunk, Dsr, DsrAdvanced, Dsrs
  <2>6. PidAfter(pid) \in Pids  BY <2>2, TransportAssumption DEF PidAfter, Pids
  <2>7. pidNext' \in [Endpoints -> Pids]  BY <1>2, <1>3, <2>6 DEF RequestChunk, TypeOK
  <2>8. pidGuard' \in [Endpoints -> [Pids -> 0 .. calls']]
    <3>1. calls + 1 \in 0 .. calls' /\ \A x \in 0 .. calls : x \in 0 .. calls'  BY <1>2, <2>1
    <3>2. pidGuard' = [pidGuard EXCEPT ![e][pid] = calls + 1]  BY <1>3 DEF RequestChunk
    <3> QED BY <1>2, <2>2, <3>1, <3>2 DEF TypeOK
  <2>9. Request(k, pid, Dsr, TRUE, sent)  BY <1>3 DEF RequestChunk
  <2> HIDE DEF pid
  <2> QED BY <2>2, <2>5, <2>7, <2>8, <2>9, RequestOK
<1>4. CASE RequestCommand(k, sent)
  <2> DEFINE id == ClockId[calls + 1]
  <2>1. calls + 1 \in 1 .. MaxCalls  BY <1>2, <1>4 DEF RequestCommand
  <2>2. id \in Pids \X Dsrs  BY <2>1, TransportAssumption DEF Pids, Dsrs
  <2>3. id[1] \in Pids /\ id[2] \in Dsrs /\ <<id[1], id[2]>> = id  BY <2>2
  <2>4. Request(k, id[1], id[2], FALSE, sent) /\ UNCHANGED <<pidNext, pidGuard, dsrNext>>
    BY <1>4 DEF RequestCommand
  <2>5. calls' = calls + 1  BY <2>4 DEF Request
  <2>6. pidNext' \in [Endpoints -> Pids] /\ pidGuard' \in [Endpoints -> [Pids -> 0 .. calls']]
    <3>1. \A x \in 0 .. calls : x \in 0 .. calls'  BY <1>2, <2>5
    <3> QED BY <1>2, <2>4, <3>1 DEF TypeOK
  <2> QED BY <2>3, <2>4, <2>6, RequestOK
<1> QED BY <1>1, <1>3, <1>4

-----------------------------------------------------------------------------
(* The steps of callers, network, time and clean-up *)

\* No step but a request makes ids, entries, replies or callers that wait.
LEMMA NothingNew ==
  ASSUME IInv, pending' \subseteq pending, net' \subseteq net,
         UNCHANGED <<call, calls, dsrNext, refused>>,
         \A k \in Kpz : phase'[k] # "idle" => phase[k] # "idle"
  PROVE  /\ IdsOK(AllTags', dsrNext', calls')
         /\ \A p \in pending' : EntryOK(p)
         /\ \A d \in net' : ReplyOK(d)
         /\ \A p, q \in pending' : p.key = q.key => p = q
<1>1. Tags(pending', net', phase', call') \subseteq Tags(pending, net, phase, call)  BY DEF Tags
<1>2. AllTags' \subseteq AllTags  BY <1>1 DEF AllTags
<1> QED BY <1>2, FewerIds DEF IInv, TypeOK

\* Two requests under way never have the same key.
LEMMA KeysApart ==
  ASSUME IInv, NEW j \in Kpz, NEW k \in Kpz, phase[j] # "idle", phase[k] # "idle",
         KeyOf(j) = KeyOf(k)
  PROVE  j = k
<1> DEFINE s == CallTag(j, call[j])
           t == CallTag(k, call[k])
<1>1. s \in AllTags /\ t \in AllTags  BY DEF AllTags, Tags
<1>2. s.pid = t.pid /\ s.dsr = t.dsr  BY DEF KeyOf, Key, CallTag
<1>3. s = t
  <2> HIDE DEF s, t
  <2> QED BY <1>1, <1>2 DEF IInv, IdsOK
<1> QED BY <1>3 DEF CallTag

LEMMA ReturnOK == ASSUME IInv, NEW k \in Kpz, phase[k] # "idle", Return(k) PROVE IInv'
<1>1. TypeOK  BY DEF IInv
<1>2. /\ phase' = [phase EXCEPT ![k] = "idle"] /\ pending' = {p \in pending : p.key # KeyOf(k)}
      /\ inbox' = [inbox EXCEPT ![k] = <<>>] /\ got' = [got EXCEPT ![k] = <<>>]
      /\ UNCHANGED <<call, expired, idVars, net, dups>>
  BY DEF Return
<1>3. /\ phase'[k] = "idle" /\ inbox'[k] = <<>> /\ got'[k] = <<>>
      /\ \A x \in Kpz \ {k} : phase'[x] = phase[x] /\ inbox'[x] = inbox[x] /\ got'[x] = got[x]
  BY <1>1, <1>2 DEF TypeOK
<1>4. /\ IdsOK(AllTags', dsrNext', calls') /\ \A p \in pending' : EntryOK(p)
      /\ \A d \in net' : ReplyOK(d) /\ \A p, q \in pending' : p.key = q.key => p = q
  BY <1>2, <1>3, NothingNew DEF idVars
<1>5. TypeOK'
  <2>1. phase' \in [Kpz -> {"idle", "first", "collect"}]  BY <1>1, <1>2 DEF TypeOK
  <2>2. inbox' \in [Kpz -> Seq(Answer)] /\ got' \in [Kpz -> Seq(Answer)]
    <3>1. <<>> \in Seq(Answer)  OBVIOUS
    <3> QED BY <1>1, <1>2, <3>1 DEF TypeOK
  <2> QED BY <1>1, <1>2, <1>4, <2>1, <2>2 DEF TypeOK, idVars
<1>6. EntryStays'
  <2>1. ASSUME NEW x \in Kpz, phase'[x] # "idle", call[x].n \notin expired
        PROVE  \E p \in pending' : p.key = KeyOf(x) /\ p.n = call[x].n
    <3>1. x # k /\ phase[x] # "idle"  BY <1>3, <2>1
    <3>2. PICK p \in pending : p.key = KeyOf(x) /\ p.n = call[x].n
      BY <2>1, <3>1 DEF IInv, EntryStays
    <3>3. p.key # KeyOf(k)  BY <3>1, <3>2, KeysApart
    <3> QED BY <1>2, <3>2, <3>3
  <2> QED BY <1>2, <2>1 DEF IInv, EntryStays, KeyOf, idVars
<1>7. \A x \in Kpz : /\ phase'[x] = "idle" => inbox'[x] = <<>>
                     /\ phase'[x] # "collect" => got'[x] = <<>>  BY <1>3 DEF IInv, ChannelsOK
<1>8. ASSUME NEW x \in Kpz, NEW a \in Answers(x)' PROVE TakenOK(x, a)'
  <2>1. x # k /\ a \in Answers(x)  BY <1>3 DEF Answers
  <2> QED BY <1>2, <2>1 DEF IInv, AnswersOK, TakenOK
<1> QED BY <1>4, <1>5, <1>6, <1>7, <1>8 DEF IInv, ChannelsOK, AnswersOK

\* Taking a reply moves it from the channel to the replies taken.
LEMMA TakeOK ==
  ASSUME IInv, NEW k \in Kpz, phase[k] # "idle", inbox[k] # <<>>,
         got' = [got EXCEPT ![k] = Append(@, Head(inbox[k]))],
         inbox' = [inbox EXCEPT ![k] = Tail(@)], phase' = [phase EXCEPT ![k] = "collect"],
         UNCHANGED <<call, pending, expired, idVars, net, dups>>
  PROVE  IInv'
<1>1. TypeOK /\ inbox[k] \in Seq(Answer) /\ got[k] \in Seq(Answer)  BY DEF IInv, TypeOK
<1>2. /\ phase'[k] = "collect" /\ inbox'[k] = Tail(inbox[k])
      /\ got'[k] = Append(got[k], Head(inbox[k]))
      /\ \A x \in Kpz \ {k} : phase'[x] = phase[x] /\ inbox'[x] = inbox[x] /\ got'[x] = got[x]
  BY <1>1 DEF TypeOK
<1>3. /\ IdsOK(AllTags', dsrNext', calls') /\ \A p \in pending' : EntryOK(p)
      /\ \A d \in net' : ReplyOK(d) /\ \A p, q \in pending' : p.key = q.key => p = q
  BY <1>2, NothingNew DEF idVars
<1>4. Tail(inbox[k]) \in Seq(Answer) /\ Head(inbox[k]) \in Answer  BY <1>1
<1>5. Append(got[k], Head(inbox[k])) \in Seq(Answer)  BY <1>1, <1>4
<1>6. TypeOK'
  <2>1. phase' \in [Kpz -> {"idle", "first", "collect"}]  BY <1>1 DEF TypeOK
  <2>2. inbox' \in [Kpz -> Seq(Answer)] /\ got' \in [Kpz -> Seq(Answer)]
    BY <1>1, <1>4, <1>5 DEF TypeOK
  <2> QED BY <1>1, <1>3, <2>1, <2>2 DEF TypeOK, idVars
<1>7. EntryStays'
  <2>1. \A x \in Kpz : phase'[x] # "idle" => phase[x] # "idle"  BY <1>2
  <2> QED BY <2>1 DEF IInv, EntryStays, KeyOf, idVars
<1>8. \A x \in Kpz : /\ phase'[x] = "idle" => inbox'[x] = <<>>
                     /\ phase'[x] # "collect" => got'[x] = <<>>  BY <1>2 DEF IInv, ChannelsOK, AnswersOK
<1>9. ASSUME NEW x \in Kpz, NEW a \in Answers(x)' PROVE TakenOK(x, a)'
  <2>1. a \in Answers(x)
    <3>1. CASE x = k
      <4>1. CASE \E i \in DOMAIN Tail(inbox[k]) : a = Tail(inbox[k])[i]
        <5>1. PICK i \in DOMAIN Tail(inbox[k]) : a = Tail(inbox[k])[i]  BY <4>1
        <5>2. i + 1 \in DOMAIN inbox[k] /\ a = inbox[k][i + 1]  BY <1>1, <5>1
        <5> QED BY <3>1, <5>2 DEF Answers
      <4>2. CASE \E i \in DOMAIN got'[k] : a = got'[k][i]
        <5>1. PICK i \in DOMAIN got'[k] : a = got'[k][i]  BY <4>2
        <5>2. (i \in DOMAIN got[k] /\ a = got[k][i]) \/ a = inbox[k][1]  BY <1>1, <1>2, <1>4, <5>1
        <5>3. 1 \in DOMAIN inbox[k]  BY <1>1
        <5> QED BY <3>1, <5>2, <5>3 DEF Answers
      <4> QED BY <1>2, <1>9, <3>1, <4>1, <4>2 DEF Answers
    <3>2. CASE x # k  BY <1>2, <3>2 DEF Answers
    <3> QED BY <3>1, <3>2
  <2> QED BY <2>1 DEF IInv, AnswersOK, TakenOK
<1> QED BY <1>3, <1>6, <1>7, <1>8, <1>9 DEF IInv, ChannelsOK, AnswersOK

LEMMA CallerOK == ASSUME IInv, NEW k \in Kpz, Caller(k) PROVE IInv'
<1>1. TypeOK /\ got[k] \in Seq(Answer)  BY DEF IInv, TypeOK
<1>2. CASE TakeFirst(k)
  <2>1. phase[k] = "first" /\ inbox[k] # <<>> /\ got[k] = <<>>  BY <1>2 DEF TakeFirst, IInv, ChannelsOK
  <2>2. CASE call[k].all
    <3>1. <<Head(inbox[k])>> = Append(got[k], Head(inbox[k]))  BY <2>1
    <3>2. got' = [got EXCEPT ![k] = Append(@, Head(inbox[k]))]
      BY <1>2, <2>2, <3>1 DEF TakeFirst
    <3> QED BY <1>2, <2>1, <2>2, <3>2, TakeOK DEF TakeFirst
  <2>3. CASE ~call[k].all  BY <1>2, <2>1, <2>3, ReturnOK DEF TakeFirst
  <2> QED BY <2>2, <2>3
<1>3. CASE TakeExtra(k)
  <2>1. phase' = [phase EXCEPT ![k] = "collect"]  BY <1>1, <1>3 DEF TakeExtra, TypeOK
  <2> QED BY <1>3, <2>1, TakeOK DEF TakeExtra
<1>4. CASE Timeout(k)  BY <1>4, ReturnOK DEF Timeout
<1>5. CASE CollectEnds(k)  BY <1>5, ReturnOK DEF CollectEnds
<1> QED BY <1>2, <1>3, <1>4, <1>5 DEF Caller

\* What is put into the channel of a caller was for it.
LEMMA MatchOK ==
  ASSUME ModemsApart, IInv, NEW d \in net, NEW full \in BOOLEAN, NEW p \in Target(d, full), NEW k \in Kpz, phase[k] # "idle",
         p.n = call[k].n
  PROVE  /\ [n |-> d.n, kpz |-> d.kpz, dsr |-> Asked(d), full |-> full] \in Answer
         /\ \/ d.kpz = k /\ (d.n = call[k].n \/ call[k].dsr = Modem[k])
            \/ call[k].dsr = Modem[d.kpz] /\ (full => Asked(d) = Modem[k])
<1> DEFINE of == EntryTag(p)
           to == ReplyTag(d)
           c == CallTag(k, call[k])
<1>1. p \in pending /\ (p \in Matches(d, full, d.dsr) \/ p \in Matches(d, full, d.alt))
  BY DEF Target, Matches
<1>2. /\ of \in AllTags /\ to \in AllTags /\ c \in AllTags
  BY <1>1 DEF AllTags, Tags
<1>3. IdsOK(AllTags, dsrNext, calls) /\ EntryOK(p) /\ ReplyOK(d) /\ TypeOK  BY <1>1 DEF IInv
<1>4. of.n = c.n /\ of.n = p.n /\ to.n = d.n  BY DEF EntryTag, CallTag, ReplyTag
<1>5. of = c
  <2> HIDE DEF of, c
  <2> QED BY <1>2, <1>3, <1>4 DEF IdsOK
<1>6. p.kpz = k /\ p.key[2] = call[k].pid /\ p.key[3] = call[k].dsr
  BY <1>5 DEF EntryTag, CallTag
<1>7. p.key = Key(Endpoint[k], call[k].pid, call[k].dsr) /\ p.modem = Modem[k]
  BY <1>3, <1>6 DEF EntryOK, Entry
<1>8. /\ to \in Tag /\ d.kpz \in Kpz /\ d.n \in 1 .. MaxCalls
  <2>1. Issued(to, dsrNext, calls) /\ calls \in 0 .. MaxCalls
    <3> HIDE DEF to
    <3> QED BY <1>2, <1>3 DEF IdsOK
  <2>2. to \in Tag /\ to.n \in 1 .. calls  BY <2>1 DEF Issued
  <2>3. to.n = d.n /\ to.kpz = d.kpz  BY DEF ReplyTag
  <2>4. MaxCalls \in Nat  BY TransportAssumption
  <2>5. to.kpz \in Kpz /\ to.n \in 1 .. MaxCalls
    <3> HIDE DEF to
    <3> QED BY <2>1, <2>2, <2>4 DEF Tag
  <2> QED BY <2>2, <2>3, <2>5
<1>9. \/ d.dsr = Asked(d) /\ d.alt = Modem[d.kpz]
      \/ d.alt = Asked(d) /\ d.dsr = Modem[d.kpz]
  BY <1>3 DEF ReplyOK, ReplyTo, Reply
<1>10. d.e = Endpoint[d.kpz]
  BY <1>3 DEF ReplyOK, ReplyTo, Reply
<1>11. /\ call[k].pid = d.pid /\ Endpoint[k] = Endpoint[d.kpz]
       /\ call[k].dsr \in {Asked(d), Modem[d.kpz]}
       /\ full => Modem[k] \in {Asked(d), Modem[d.kpz]}
  BY <1>1, <1>7, <1>9, <1>10 DEF Matches, ModemFits, Key
<1>12. CASE call[k].dsr = Asked(d)
  <2>1. c.pid = to.pid /\ c.dsr = to.dsr  BY <1>11, <1>12 DEF CallTag, ReplyTag
  <2>2. c = to
    <3> HIDE DEF c, to
    <3> QED BY <1>2, <1>3, <2>1 DEF IdsOK
  <2>3. d.kpz = k /\ d.n = call[k].n  BY <2>2 DEF CallTag, ReplyTag
  <2> QED BY <1>8, <2>3 DEF Answer, Tag, Dsrs, ReplyTag
<1>13. CASE call[k].dsr = Modem[d.kpz]
  <2>1. Modem[k] = Modem[d.kpz] => d.kpz = k  BY <1>8, <1>11 DEF ModemsApart
  <2> QED BY <1>8, <1>11, <1>13, <2>1 DEF Answer, Tag, Dsrs, ReplyTag
<1> QED BY <1>11, <1>12, <1>13

LEMMA ReceiveOK ==
  ASSUME ModemsApart, IInv, NEW d \in net, NEW full \in BOOLEAN, NEW again \in BOOLEAN,
         Receive(d, full, again)
  PROVE  IInv'
<1> DEFINE a == [n |-> d.n, kpz |-> d.kpz, dsr |-> Asked(d), full |-> full]
           For(k) == phase[k] # "idle" /\ \E p \in Target(d, full) : p.n = call[k].n
<1>1. TypeOK  BY DEF IInv
<1>2. UNCHANGED <<phase, call, got, pending, expired, idVars>> /\ net' \subseteq net  BY DEF Receive
<1>3. inbox' = [k \in Kpz |-> IF For(k) THEN Append(inbox[k], a) ELSE inbox[k]]  BY DEF Receive
<1>4. \A k \in Kpz : For(k) =>
        /\ a \in Answer
        /\ \/ d.kpz = k /\ (d.n = call[k].n \/ call[k].dsr = Modem[k])
           \/ call[k].dsr = Modem[d.kpz] /\ (full => Asked(d) = Modem[k])
  BY MatchOK
<1>5. /\ IdsOK(AllTags', dsrNext', calls') /\ \A p \in pending' : EntryOK(p)
      /\ \A x \in net' : ReplyOK(x) /\ \A p, q \in pending' : p.key = q.key => p = q
  BY <1>2, NothingNew DEF idVars
<1>6. TypeOK'
  <2>1. inbox' \in [Kpz -> Seq(Answer)]
    <3> SUFFICES ASSUME NEW k \in Kpz PROVE inbox'[k] \in Seq(Answer)  BY <1>3
    <3>1. inbox[k] \in Seq(Answer)  BY <1>1 DEF TypeOK
    <3>2. CASE For(k)
      <4>1. a \in Answer  BY <1>4, <3>2
      <4>2. inbox'[k] = Append(inbox[k], a)  BY <1>3, <3>2
      <4> HIDE DEF a
      <4> QED BY <3>1, <4>1, <4>2
    <3>3. CASE ~For(k)  BY <1>3, <3>1, <3>3
    <3> QED BY <3>2, <3>3
  <2>2. dups' \in 0 .. MaxDups
    BY <1>1, TransportAssumption DEF Receive, TypeOK
  <2> QED BY <1>1, <1>2, <2>1, <2>2 DEF TypeOK, idVars
<1>7. EntryStays'  BY <1>2 DEF IInv, EntryStays, KeyOf, idVars
<1>8. \A x \in Kpz : /\ phase'[x] = "idle" => inbox'[x] = <<>>
                     /\ phase'[x] # "collect" => got'[x] = <<>>
  BY <1>2, <1>3 DEF IInv, ChannelsOK, AnswersOK
<1>9. ASSUME NEW k \in Kpz, NEW b \in Answers(k)' PROVE TakenOK(k, b)'
  <2>1. inbox[k] \in Seq(Answer)  BY <1>1 DEF TypeOK
  <2>2. b \in Answers(k) \/ (For(k) /\ b = a)
    <3>1. CASE \E i \in DOMAIN got[k] : b = got[k][i]  BY <3>1 DEF Answers
    <3>2. CASE For(k) /\ \E i \in DOMAIN inbox'[k] : b = inbox'[k][i]
      <4>1. PICK i \in DOMAIN inbox'[k] : b = inbox'[k][i]  BY <3>2
      <4>2. inbox'[k] = Append(inbox[k], a)  BY <1>3, <3>2
      <4> HIDE DEF a
      <4>3. (i \in DOMAIN inbox[k] /\ b = inbox[k][i]) \/ b = a  BY <2>1, <4>1, <4>2
      <4> QED BY <3>2, <4>3 DEF Answers
    <3>3. CASE ~For(k) /\ \E i \in DOMAIN inbox'[k] : b = inbox'[k][i]
      BY <1>3, <3>3 DEF Answers
    <3> QED BY <1>2, <1>9, <3>1, <3>2, <3>3 DEF Answers
  <2>3. CASE b \in Answers(k)  BY <1>2, <2>3 DEF IInv, AnswersOK, TakenOK
  <2>4. CASE For(k) /\ b = a  BY <1>2, <1>4, <2>4 DEF TakenOK
  <2> QED BY <2>2, <2>3, <2>4
<1> QED BY <1>5, <1>6, <1>7, <1>8, <1>9 DEF IInv, ChannelsOK, AnswersOK

\* Time passes, and entries that are past their deadline are removed.
LEMMA TimeOK ==
  ASSUME IInv, pending' \subseteq pending, \A p \in pending \ pending' : p.n \in expired,
         expired \subseteq expired', expired' \subseteq 1 .. calls,
         pidGuard' \in [Endpoints -> [Pids -> 0 .. calls]],
         UNCHANGED <<callerVars, calls, refused, pidNext, dsrNext, net, dups>>
  PROVE  IInv'
<1>1. TypeOK  BY DEF IInv
<1>2. UNCHANGED <<phase, call, inbox, got, calls, refused, pidNext, dsrNext, net, dups>>  BY DEF callerVars
<1>3. /\ IdsOK(AllTags', dsrNext', calls') /\ \A p \in pending' : EntryOK(p)
      /\ \A d \in net' : ReplyOK(d) /\ \A p, q \in pending' : p.key = q.key => p = q
  BY <1>2, NothingNew
<1>4. TypeOK'  BY <1>1, <1>2, <1>3 DEF TypeOK
<1>5. EntryStays'
  <2>1. ASSUME NEW k \in Kpz, phase[k] # "idle", call[k].n \notin expired'
        PROVE  \E p \in pending' : p.key = KeyOf(k) /\ p.n = call[k].n
    <3>1. PICK p \in pending : p.key = KeyOf(k) /\ p.n = call[k].n  BY <2>1 DEF IInv, EntryStays
    <3>2. p \in pending'  BY <2>1, <3>1
    <3> QED BY <3>1, <3>2
  <2> QED BY <1>2, <2>1 DEF IInv, EntryStays, KeyOf
<1>6. \A x \in Kpz : Answers(x)' = Answers(x) /\ \A a : TakenOK(x, a)' = TakenOK(x, a)
  BY <1>2 DEF Answers, TakenOK
<1> QED BY <1>2, <1>3, <1>4, <1>5, <1>6 DEF IInv, ChannelsOK, AnswersOK

LEMMA NextOK == ASSUME IdsApart, ModemsApart, IInv, [Next]_vars PROVE IInv'
<1>1. TypeOK  BY DEF IInv
<1>2. CASE UNCHANGED vars
  <2>1. UNCHANGED <<phase, call, inbox, got, pending, expired, calls, refused, pidNext, pidGuard,
                    dsrNext, net, dups>>
    BY <1>2 DEF vars, callerVars, idVars
  <2> QED BY <1>1, <2>1, TimeOK DEF TypeOK, callerVars
<1>3. ASSUME NEW k \in Kpz, Start(k) \/ Caller(k) PROVE IInv'  BY <1>3, StartOK, CallerOK
<1>4. ASSUME NEW d \in net, NEW full \in Headers[d.kpz], NEW again \in BOOLEAN, Receive(d, full, again)
      PROVE  IInv'
  <2>1. ReplyTag(d) \in Tag /\ ReplyTag(d).kpz = d.kpz  BY DEF IInv, ReplyOK, ReplyTag
  <2>2. d.kpz \in Kpz  BY <2>1 DEF Tag
  <2>3. full \in BOOLEAN  BY <2>2, TransportAssumption
  <2> QED BY <1>4, <2>3, ReceiveOK
<1>5. ASSUME NEW n \in 1 .. calls, Expire(n) PROVE IInv'
  BY <1>1, <1>5, TimeOK DEF Expire, TypeOK, idVars
<1>6. ASSUME NEW e \in Endpoints, NEW pid \in Pids, GuardOver(e, pid) PROVE IInv'
  <2>1. pidGuard' \in [Endpoints -> [Pids -> 0 .. calls]]
    BY <1>1, <1>6 DEF GuardOver, TypeOK
  <2> QED BY <1>1, <1>6, <2>1, TimeOK DEF GuardOver, TypeOK
<1>7. CASE CleanUp  BY <1>1, <1>7, TimeOK DEF CleanUp, PastDeadline, TypeOK, idVars
<1> QED BY <1>2, <1>3, <1>4, <1>5, <1>6, <1>7 DEF Next, Ended

-----------------------------------------------------------------------------
\* The inductive invariant of the transport: types, ids that tell requests apart,
\* entries and replies as they were made, and what callers have taken.
THEOREM Inductive == ASSUME IdsApart, ModemsApart PROVE Spec => []IInv
<1>1. Init => IInv  BY InitOK
<1>2. IInv /\ [Next]_vars => IInv'  BY NextOK
<1> QED BY <1>1, <1>2, PTL DEF Spec

\* A caller is handed a reply to an earlier request of its own, or to another
\* KPZ behind its endpoint, only if the ids of the requests happen to be the
\* modem numbers, of both if the reply is full (udp_transport.rs 132-195): whatever the network does.
THEOREM RepliesFindTheirRequests ==
  ASSUME IdsApart, ModemsApart PROVE Spec => []AnswersItsRequest
<1>1. IInv => AnswersItsRequest  BY DEF IInv, ChannelsOK, AnswersOK, AnswersItsRequest, TakenOK
<1> QED BY <1>1, Inductive, PTL

\* Nobody removes the entry of a caller that waits, and no request is turned
\* away (udp_transport.rs 199-214, 262-264, 354-356).
THEOREM EntriesStay == ASSUME IdsApart, ModemsApart PROVE Spec => []EntryStays
<1>1. IInv => EntryStays  BY DEF IInv
<1> QED BY <1>1, Inductive, PTL
=============================================================================
