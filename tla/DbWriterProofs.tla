--------------------------- MODULE DbWriterProofs ---------------------------
(***************************************************************************)
(* Theorems about DbWriter for every set of shapes, any capacity of the    *)
(* channel and any number of deltas: the tables hold a prefix of what was  *)
(* offered, in an order a restart can rely on, and all of it once finish   *)
(* has returned Ok.                                                        *)
(***************************************************************************)
EXTENDS DbWriter, TLAPS

-----------------------------------------------------------------------------
(* Lists and latest numbers of a span of offers *)

Between(Q, lo, hi) == {n \in lo + 1 .. hi : n \in Q}

LEMMA ConcatTail ==
  ASSUME NEW T, NEW s \in Seq(T), NEW t \in Seq(T), NEW i \in 1 .. Len(s) + Len(t), ~(i <= Len(s))
  PROVE  (s \o t)[i] = t[i - Len(s)]
OBVIOUS

LEMMA ConcatParts ==
  ASSUME NEW T, NEW s \in Seq(T), NEW t \in Seq(T)
  PROVE  /\ s \o t \in Seq(T)
         /\ \A i \in DOMAIN s : i \in DOMAIN (s \o t) /\ (s \o t)[i] = s[i]
         /\ \A i \in DOMAIN t : Len(s) + i \in DOMAIN (s \o t) /\ (s \o t)[Len(s) + i] = t[i]
         /\ \A i \in DOMAIN (s \o t) : \/ i \in DOMAIN s /\ (s \o t)[i] = s[i]
                                       \/ /\ i - Len(s) \in DOMAIN t /\ Len(s) < i
                                          /\ (s \o t)[i] = t[i - Len(s)]
OBVIOUS

LEMMA Spans ==
  ASSUME NEW Q, NEW lo \in Nat, NEW mid \in Nat, NEW hi \in Nat,
         lo <= mid, mid <= hi
  PROVE  /\ Between(Q, lo, hi) = Between(Q, lo, mid) \cup Between(Q, mid, hi)
         /\ \A a \in Between(Q, lo, mid), b \in Between(Q, mid, hi) : a < b
BY DEF Between

\* A list of one span and a list of the next make a list of both.
LEMMA ListConcat ==
  ASSUME NEW A, NEW B, NEW s \in Seq(Nat), NEW t \in Seq(Nat),
         AllOf(s, A), AllOf(t, B), \A a \in A, b \in B : a < b
  PROVE  AllOf(s \o t, A \cup B)
<1> DEFINE u == s \o t
<1>1. /\ \A i \in DOMAIN s : i \in DOMAIN u /\ u[i] = s[i]
      /\ \A i \in DOMAIN t : Len(s) + i \in DOMAIN u /\ u[Len(s) + i] = t[i]
      /\ \A i \in DOMAIN u : \/ i \in DOMAIN s /\ u[i] = s[i]
                             \/ i - Len(s) \in DOMAIN t /\ Len(s) < i /\ u[i] = t[i - Len(s)]
      /\ DOMAIN u \subseteq Nat /\ DOMAIN s = 1 .. Len(s) /\ Len(s) \in Nat
  BY ConcatParts
<1> HIDE DEF u
<1>2. InOrder(u)
  <2> SUFFICES ASSUME NEW i \in DOMAIN u, NEW j \in DOMAIN u, i < j PROVE u[i] < u[j]
    BY DEF InOrder
  <2>1. CASE i \in DOMAIN s /\ j \in DOMAIN s
    BY <1>1, <2>1 DEF AllOf, InOrder
  <2>2. CASE i \in DOMAIN s /\ j \notin DOMAIN s
    <3>1. u[i] = s[i] /\ u[j] = t[j - Len(s)] /\ j - Len(s) \in DOMAIN t  BY <1>1, <2>2
    <3>2. u[i] \in A /\ u[j] \in B  BY <2>2, <3>1 DEF AllOf, ToSet
    <3> QED BY <3>2
  <2>3. CASE i \notin DOMAIN s
    <3>1. i - Len(s) \in DOMAIN t /\ u[i] = t[i - Len(s)]  BY <1>1, <2>3
    <3>2. j - Len(s) \in DOMAIN t /\ u[j] = t[j - Len(s)]  BY <1>1, <2>3
    <3>3. i - Len(s) < j - Len(s)  BY <1>1
    <3> QED BY <3>1, <3>2, <3>3 DEF AllOf, InOrder
  <2> QED BY <2>1, <2>2, <2>3
<1>3. ToSet(u) = ToSet(s) \cup ToSet(t)
  <2>1. ToSet(s) \subseteq ToSet(u) /\ ToSet(t) \subseteq ToSet(u)  BY <1>1 DEF ToSet
  <2>2. ToSet(u) \subseteq ToSet(s) \cup ToSet(t)  BY <1>1 DEF ToSet
  <2> QED BY <2>1, <2>2
<1> QED BY <1>2, <1>3 DEF AllOf, u

\* The last number of two spans is that of the later one, if it has one.
LEMMA LatestOfBoth ==
  ASSUME NEW Q, NEW lo \in Nat, NEW mid \in Nat, NEW hi \in Nat, lo <= mid, mid <= hi,
         NEW a \in Nat, NEW b \in Nat,
         IsLatest(a, Between(Q, lo, mid)), IsLatest(b, Between(Q, mid, hi))
  PROVE  IsLatest(IF b = 0 THEN a ELSE b, Between(Q, lo, hi))
<1>1. CASE b = 0
  <2>1. ASSUME NEW n \in Between(Q, mid, hi) PROVE FALSE
    <3>1. n <= b  BY DEF IsLatest
    <3>2. n \in mid + 1 .. hi  BY DEF Between
    <3> QED BY <1>1, <3>1, <3>2
  <2>2. Between(Q, mid, hi) = {}  BY <2>1
  <2>3. Between(Q, lo, hi) = Between(Q, lo, mid)
    <3>1. Between(Q, lo, hi) = Between(Q, lo, mid) \cup Between(Q, mid, hi)  BY Spans
    <3> QED BY <2>2, <3>1
  <2> QED BY <1>1, <2>3
<1>2. CASE b # 0
  <2>1. b \in Between(Q, mid, hi) /\ b \in Between(Q, lo, hi)
    BY <1>2, Spans DEF IsLatest
  <2>2. \A n \in Between(Q, lo, mid) : n <= b  BY <2>1 DEF Between
  <2>3. \A n \in Between(Q, lo, hi) : n <= b  BY <2>2, Spans DEF IsLatest
  <2> QED BY <1>2, <2>1, <2>3 DEF IsLatest
<1> QED BY <1>1, <1>2

-----------------------------------------------------------------------------
(* What a delta, a batch or the database holds of the offers o, of which those *)
(* in x lost their poll logs                                                   *)

Elams(o)        == {n \in DOMAIN o : o[n].elam}
Logs(o, x)      == {n \in DOMAIN o : o[n].log /\ n \notin x}
Alarms(o)       == {n \in DOMAIN o : o[n].alarms # {}}
AlarmsOf(o, r)  == {n \in DOMAIN o : r \in o[n].alarms}
IndexesOf(o, a) == {n \in DOMAIN o : a \in o[n].indexes}
RowsOf(o, k)    == {n \in DOMAIN o : k \in ToSet(o[n].rows)}

NumbersOf(s)    == [i \in DOMAIN s |-> s[i].n]

\* The delta made of offer n.
Made(o, x, n) == IF n \in x THEN DropPollLogs(Delta(n, o[n])) ELSE Delta(n, o[n])

RowsBetween(s, o, lo, hi) ==
  /\ \A i \in DOMAIN s : s[i].n \in Between(RowsOf(o, s[i].key), lo, hi)
  /\ \A k \in Keys : \A n \in Between(RowsOf(o, k), lo, hi) : \E i \in DOMAIN s : s[i] = [key |-> k, n |-> n]

EventsBetween(s, o, lo, hi) ==
  /\ AllOf(NumbersOf(s), Between(Alarms(o), lo, hi))
  /\ \A i \in DOMAIN s : s[i].rules = o[s[i].n].alarms

StatesBetween(f, o, lo, hi)  == \A r \in Rules : IsLatest(f[r], Between(AlarmsOf(o, r), lo, hi))
IndexesBetween(f, o, lo, hi) == \A a \in Arx : IsLatest(f[a], Between(IndexesOf(o, a), lo, hi))

\* d is the merge of the deltas of lo + 1 .. hi.
Holds(d, o, x, lo, hi) ==
  /\ RowsBetween(d.rows, o, lo, hi)
  /\ AllOf(d.elam, Between(Elams(o), lo, hi))
  /\ AllOf(d.logs, Between(Logs(o, x), lo, hi))
  /\ StatesBetween(d.states, o, lo, hi)
  /\ EventsBetween(d.events, o, lo, hi)
  /\ IndexesBetween(d.indexes, o, lo, hi)

\* The first p statements of a flush stored what the deltas up to t hold, and
\* the other tables have what the deltas up to f hold.
UpTo(i, f, t, p) == IF i <= p THEN t ELSE f

Tables(d, o, x, f, t, p) ==
  /\ \A k \in Keys : IsLatest(d.rows[k], Between(RowsOf(o, k), 0, UpTo(1, f, t, p)))
  /\ AllOf(d.elam, Between(Elams(o), 0, UpTo(2, f, t, p)))
  /\ AllOf(d.logs, Between(Logs(o, x), 0, UpTo(3, f, t, p)))
  /\ StatesBetween(d.states, o, 0, UpTo(4, f, t, p))
  /\ EventsBetween(d.events, o, 0, UpTo(5, f, t, p))
  /\ IndexesBetween(d.indexes, o, 0, UpTo(6, f, t, p))

DbType(d) ==
  /\ d \in [rows : [Keys -> 0 .. MaxDeltas], elam : Seq(Numbers), logs : Seq(Numbers),
            states : [Rules -> 0 .. MaxDeltas],
            events : Seq([n : Numbers, rules : SUBSET Rules]),
            indexes : [Arx -> 0 .. MaxDeltas]]

-----------------------------------------------------------------------------
(* Merging *)

LEMMA MergeLists ==
  ASSUME NEW Q, NEW s \in Seq(Numbers), NEW t \in Seq(Numbers),
         NEW lo \in Nat, NEW mid \in Nat, NEW hi \in Nat, lo <= mid, mid <= hi,
         AllOf(s, Between(Q, lo, mid)), AllOf(t, Between(Q, mid, hi))
  PROVE  AllOf(s \o t, Between(Q, lo, hi)) /\ s \o t \in Seq(Numbers)
<1>1. s \in Seq(Nat) /\ t \in Seq(Nat)  BY DbWriterAssumption DEF Numbers
<1>2. AllOf(s \o t, Between(Q, lo, mid) \cup Between(Q, mid, hi))
  BY <1>1, Spans, ListConcat
<1>3. Between(Q, lo, hi) = Between(Q, lo, mid) \cup Between(Q, mid, hi)  BY Spans
<1>4. s \o t \in Seq(Numbers)  BY ConcatParts
<1> QED BY <1>2, <1>3, <1>4

Event == [n : Numbers, rules : SUBSET Rules]
Row   == [key : Keys, n : Numbers]

LEMMA MergeEvents ==
  ASSUME NEW o, NEW s \in Seq(Event), NEW t \in Seq(Event),
         NEW lo \in Nat, NEW mid \in Nat, NEW hi \in Nat, lo <= mid, mid <= hi,
         EventsBetween(s, o, lo, mid), EventsBetween(t, o, mid, hi)
  PROVE  EventsBetween(s \o t, o, lo, hi) /\ s \o t \in Seq(Event)
<1>1. \A e \in Event : e.n \in Numbers  BY DEF Event
<1>2. ASSUME NEW u \in Seq(Event) PROVE NumbersOf(u) \in Seq(Numbers)
  <2>1. \A i \in DOMAIN u : u[i].n \in Numbers  BY <1>1
  <2>2. DOMAIN u = 1 .. Len(u) /\ Len(u) \in Nat  OBVIOUS
  <2> QED BY <2>1, <2>2 DEF NumbersOf
<1>3. NumbersOf(s) \o NumbersOf(t) = NumbersOf(s \o t)
  <2> DEFINE a == NumbersOf(s) \o NumbersOf(t)
             b == NumbersOf(s \o t)
  <2>1. /\ Len(NumbersOf(s)) = Len(s) /\ Len(NumbersOf(t)) = Len(t)
        /\ DOMAIN NumbersOf(s) = DOMAIN s /\ DOMAIN NumbersOf(t) = DOMAIN t
        /\ NumbersOf(s) \in Seq(Numbers) /\ NumbersOf(t) \in Seq(Numbers)
    BY <1>2 DEF NumbersOf
  <2>2. DOMAIN a = 1 .. Len(s) + Len(t) /\ DOMAIN b = 1 .. Len(s) + Len(t)
    <3>1. DOMAIN a = 1 .. Len(s) + Len(t)  BY <2>1
    <3>2. DOMAIN b = DOMAIN (s \o t)  BY DEF NumbersOf
    <3>3. DOMAIN (s \o t) = 1 .. Len(s) + Len(t)  OBVIOUS
    <3> HIDE DEF a, b
    <3> QED BY <3>1, <3>2, <3>3
  <2>3. a = [i \in DOMAIN a |-> a[i]] /\ b = [i \in DOMAIN b |-> b[i]]
    BY <2>1 DEF NumbersOf
  <2>4. ASSUME NEW i \in 1 .. Len(s) + Len(t) PROVE a[i] = b[i]
    <3>1. CASE i <= Len(s)
      <4>1. a[i] = NumbersOf(s)[i] /\ (s \o t)[i] = s[i] /\ i \in DOMAIN s  BY <2>1, <3>1
      <4> QED BY <4>1 DEF NumbersOf
    <3>2. CASE ~(i <= Len(s))
      <4>1. i - Len(s) \in 1 .. Len(t) /\ DOMAIN t = 1 .. Len(t)  BY <3>2
      <4>2. a[i] = NumbersOf(t)[i - Len(s)]  BY <2>1, <3>2, ConcatTail
      <4>3. (s \o t)[i] = t[i - Len(s)]  BY <3>2, ConcatTail
      <4> QED BY <4>1, <4>2, <4>3 DEF NumbersOf
    <3> QED BY <3>1, <3>2
  <2> HIDE DEF a, b
  <2>5. a = b  BY <2>2, <2>3, <2>4
  <2> QED BY <2>5 DEF a, b
<1>4. AllOf(NumbersOf(s \o t), Between(Alarms(o), lo, hi))
  <2>1. AllOf(NumbersOf(s), Between(Alarms(o), lo, mid))  BY DEF EventsBetween
  <2>2. AllOf(NumbersOf(t), Between(Alarms(o), mid, hi))  BY DEF EventsBetween
  <2>3. NumbersOf(s) \in Seq(Numbers) /\ NumbersOf(t) \in Seq(Numbers)  BY <1>2
  <2>4. AllOf(NumbersOf(s) \o NumbersOf(t), Between(Alarms(o), lo, hi))
    BY <2>1, <2>2, <2>3, MergeLists
  <2> QED BY <1>3, <2>4
<1>5. s \o t \in Seq(Event)  BY ConcatParts
<1>6. \A i \in DOMAIN (s \o t) : (s \o t)[i].rules = o[(s \o t)[i].n].alarms
  BY ConcatParts DEF EventsBetween
<1> QED BY <1>4, <1>5, <1>6 DEF EventsBetween

LEMMA MergeRows ==
  ASSUME NEW o, NEW s \in Seq(Row), NEW t \in Seq(Row),
         NEW lo \in Nat, NEW mid \in Nat, NEW hi \in Nat, lo <= mid, mid <= hi,
         RowsBetween(s, o, lo, mid), RowsBetween(t, o, mid, hi)
  PROVE  RowsBetween(s \o t, o, lo, hi) /\ s \o t \in Seq(Row)
<1>1. \A Q : Between(Q, lo, hi) = Between(Q, lo, mid) \cup Between(Q, mid, hi)  BY Spans
<1> DEFINE u == s \o t
<1>2. /\ u \in Seq(Row)
      /\ \A i \in DOMAIN s : i \in DOMAIN u /\ u[i] = s[i]
      /\ \A i \in DOMAIN t : Len(s) + i \in DOMAIN u /\ u[Len(s) + i] = t[i]
      /\ \A i \in DOMAIN u : \/ i \in DOMAIN s /\ u[i] = s[i]
                             \/ i - Len(s) \in DOMAIN t /\ u[i] = t[i - Len(s)]
  BY ConcatParts
<1> HIDE DEF u
<1>3. \A i \in DOMAIN u : u[i].n \in Between(RowsOf(o, u[i].key), lo, hi)
  BY <1>1, <1>2 DEF RowsBetween
<1>4. ASSUME NEW k \in Keys, NEW n \in Between(RowsOf(o, k), lo, hi)
      PROVE  \E i \in DOMAIN u : u[i] = [key |-> k, n |-> n]
  <2>1. CASE n \in Between(RowsOf(o, k), lo, mid)
    <3>1. PICK i \in DOMAIN s : s[i] = [key |-> k, n |-> n]  BY <2>1 DEF RowsBetween
    <3> QED BY <1>2, <3>1
  <2>2. CASE n \in Between(RowsOf(o, k), mid, hi)
    <3>1. PICK i \in DOMAIN t : t[i] = [key |-> k, n |-> n]  BY <2>2 DEF RowsBetween
    <3> QED BY <1>2, <3>1
  <2> QED BY <1>1, <2>1, <2>2
<1> QED BY <1>2, <1>3, <1>4 DEF RowsBetween, u

\* append_coalescing_runtime_updates: a batch goes on to hold all it was made of.
LEMMA MergeOK ==
  ASSUME NEW o, NEW x, NEW b \in Deltas, NEW d \in Deltas,
         NEW lo \in Nat, NEW mid \in Nat, NEW hi \in Nat, lo <= mid, mid <= hi,
         Holds(b, o, x, lo, mid), Holds(d, o, x, mid, hi)
  PROVE  Holds(Merged(b, d), o, x, lo, hi) /\ Merged(b, d) \in Deltas
<1> DEFINE m == Merged(b, d)
<1>1. /\ b.rows \in Seq(Row) /\ b.elam \in Seq(Numbers) /\ b.logs \in Seq(Numbers)
      /\ b.states \in [Rules -> 0 .. MaxDeltas] /\ b.events \in Seq(Event)
      /\ b.indexes \in [Arx -> 0 .. MaxDeltas]
  BY DEF Deltas, Row, Event
<1>2. /\ d.rows \in Seq(Row) /\ d.elam \in Seq(Numbers) /\ d.logs \in Seq(Numbers)
      /\ d.states \in [Rules -> 0 .. MaxDeltas] /\ d.events \in Seq(Event)
      /\ d.indexes \in [Arx -> 0 .. MaxDeltas]
  BY DEF Deltas, Row, Event
<1>3. RowsBetween(m.rows, o, lo, hi) /\ m.rows \in Seq(Row)
  <2>1. m.rows = b.rows \o d.rows  BY DEF Merged
  <2> QED BY <1>1, <1>2, <2>1, MergeRows DEF Holds
<1>4. AllOf(m.elam, Between(Elams(o), lo, hi)) /\ m.elam \in Seq(Numbers)
  <2>1. m.elam = b.elam \o d.elam  BY DEF Merged
  <2> QED BY <1>1, <1>2, <2>1, MergeLists DEF Holds
<1>5. AllOf(m.logs, Between(Logs(o, x), lo, hi)) /\ m.logs \in Seq(Numbers)
  <2>1. m.logs = b.logs \o d.logs  BY DEF Merged
  <2> QED BY <1>1, <1>2, <2>1, MergeLists DEF Holds
<1>6. EventsBetween(m.events, o, lo, hi) /\ m.events \in Seq(Event)
  <2>1. m.events = b.events \o d.events  BY DEF Merged
  <2> QED BY <1>1, <1>2, <2>1, MergeEvents DEF Holds
<1>7. StatesBetween(m.states, o, lo, hi) /\ m.states \in [Rules -> 0 .. MaxDeltas]
  <2>1. m.states = [r \in Rules |-> IF d.states[r] = 0 THEN b.states[r] ELSE d.states[r]]
    BY <1>1 DEF Merged, Coalesce
  <2>2. m.states \in [Rules -> 0 .. MaxDeltas]  BY <1>1, <1>2, <2>1
  <2>3. ASSUME NEW r \in Rules PROVE IsLatest(m.states[r], Between(AlarmsOf(o, r), lo, hi))
    <3>1. b.states[r] \in Nat /\ d.states[r] \in Nat  BY <1>1, <1>2, DbWriterAssumption
    <3>2. /\ IsLatest(b.states[r], Between(AlarmsOf(o, r), lo, mid))
          /\ IsLatest(d.states[r], Between(AlarmsOf(o, r), mid, hi))
      BY DEF Holds, StatesBetween
    <3>3. IsLatest(IF d.states[r] = 0 THEN b.states[r] ELSE d.states[r], Between(AlarmsOf(o, r), lo, hi))
      BY <3>1, <3>2, LatestOfBoth
    <3> QED BY <2>1, <3>3
  <2> QED BY <2>2, <2>3 DEF StatesBetween
<1>8. IndexesBetween(m.indexes, o, lo, hi) /\ m.indexes \in [Arx -> 0 .. MaxDeltas]
  <2>1. m.indexes = [a \in Arx |-> IF d.indexes[a] = 0 THEN b.indexes[a] ELSE d.indexes[a]]
    BY <1>1 DEF Merged, Coalesce
  <2>2. m.indexes \in [Arx -> 0 .. MaxDeltas]  BY <1>1, <1>2, <2>1
  <2>3. ASSUME NEW a \in Arx PROVE IsLatest(m.indexes[a], Between(IndexesOf(o, a), lo, hi))
    <3>1. b.indexes[a] \in Nat /\ d.indexes[a] \in Nat  BY <1>1, <1>2, DbWriterAssumption
    <3>2. /\ IsLatest(b.indexes[a], Between(IndexesOf(o, a), lo, mid))
          /\ IsLatest(d.indexes[a], Between(IndexesOf(o, a), mid, hi))
      BY DEF Holds, IndexesBetween
    <3>3. IsLatest(IF d.indexes[a] = 0 THEN b.indexes[a] ELSE d.indexes[a], Between(IndexesOf(o, a), lo, hi))
      BY <3>1, <3>2, LatestOfBoth
    <3> QED BY <2>1, <3>3
  <2> QED BY <2>2, <2>3 DEF IndexesBetween
<1>9. m = [rows |-> m.rows, elam |-> m.elam, logs |-> m.logs, states |-> m.states,
           events |-> m.events, indexes |-> m.indexes]
  BY DEF Merged
<1> HIDE DEF m
<1>10. m \in Deltas  BY <1>3, <1>4, <1>5, <1>6, <1>7, <1>8, <1>9 DEF Deltas, Row, Event
<1> QED BY <1>3, <1>4, <1>5, <1>6, <1>7, <1>8, <1>10 DEF Holds, m

-----------------------------------------------------------------------------
(* The delta of one offer *)

LEMMA EmptyList == <<>> \in Seq(Numbers) /\ AllOf(<<>>, {})
BY DEF AllOf, InOrder, ToSet

LEMMA NoneHolds ==
  ASSUME NEW o, NEW x, NEW hi \in Nat
  PROVE  None \in Deltas /\ Holds(None, o, x, hi, hi)
<1>1. \A Q : Between(Q, hi, hi) = {}  BY DEF Between
<1>2. /\ None.rows = <<>> /\ None.elam = <<>> /\ None.logs = <<>> /\ None.events = <<>>
      /\ None.states = [r \in Rules |-> 0] /\ None.indexes = [a \in Arx |-> 0]
  BY DEF None
<1>3. NumbersOf(<<>>) = <<>>  BY DEF NumbersOf
<1>4. RowsBetween(None.rows, o, hi, hi)  BY <1>1, <1>2 DEF RowsBetween
<1>5. AllOf(<<>>, {})  BY EmptyList
<1>6. EventsBetween(None.events, o, hi, hi)
  <2>1. EventsBetween(<<>>, o, hi, hi)  BY <1>1, <1>3, <1>5 DEF EventsBetween
  <2> QED BY <1>2, <2>1
<1>7. StatesBetween(None.states, o, hi, hi)  BY <1>1, <1>2 DEF StatesBetween, IsLatest
<1>8. IndexesBetween(None.indexes, o, hi, hi)  BY <1>1, <1>2 DEF IndexesBetween, IsLatest
<1>9. None \in Deltas  BY DbWriterAssumption DEF None, Deltas
<1> QED BY <1>1, <1>2, <1>4, <1>5, <1>6, <1>7, <1>8, <1>9 DEF Holds

LEMMA MadeHolds ==
  ASSUME NEW o \in Seq(Shapes), NEW x, NEW n \in DOMAIN o, n \in Numbers
  PROVE  Made(o, x, n) \in Deltas /\ Holds(Made(o, x, n), o, x, n - 1, n)
<1> DEFINE d == Made(o, x, n)
<1>1. /\ o[n].rows \in Seq(Keys) /\ o[n].elam \in BOOLEAN /\ o[n].log \in BOOLEAN
      /\ o[n].alarms \in SUBSET Rules /\ o[n].indexes \in SUBSET Arx
  BY DbWriterAssumption DEF Shape
<1>2. n \in Nat \ {0} /\ n - 1 \in Nat /\ n <= MaxDeltas  BY DbWriterAssumption DEF Numbers
<1>3. \A Q : Between(Q, n - 1, n) = IF n \in Q THEN {n} ELSE {}
  BY <1>2 DEF Between
<1>4. /\ d.rows = [i \in DOMAIN o[n].rows |-> [key |-> o[n].rows[i], n |-> n]]
      /\ d.elam = IF o[n].elam THEN <<n>> ELSE <<>>
      /\ d.logs = IF o[n].log /\ n \notin x THEN <<n>> ELSE <<>>
      /\ d.states = [r \in Rules |-> IF r \in o[n].alarms THEN n ELSE 0]
      /\ d.events = IF o[n].alarms = {} THEN <<>> ELSE <<[n |-> n, rules |-> o[n].alarms]>>
      /\ d.indexes = [a \in Arx |-> IF a \in o[n].indexes THEN n ELSE 0]
      /\ d = [rows |-> d.rows, elam |-> d.elam, logs |-> d.logs, states |-> d.states,
              events |-> d.events, indexes |-> d.indexes]
  <2>1. CASE n \in x  BY <2>1 DEF Made, Delta, DropPollLogs
  <2>2. CASE n \notin x  BY <2>2 DEF Made, Delta
  <2> QED BY <2>1, <2>2
<1> HIDE DEF d
<1>5. AllOf(<<n>>, {n}) /\ <<n>> \in Seq(Numbers) /\ AllOf(<<>>, {}) /\ <<>> \in Seq(Numbers)
  BY EmptyList DEF AllOf, InOrder, ToSet
<1>6. /\ n \in Elams(o) <=> o[n].elam
      /\ n \in Logs(o, x) <=> o[n].log /\ n \notin x
      /\ n \in Alarms(o) <=> o[n].alarms # {}
      /\ \A r : n \in AlarmsOf(o, r) <=> r \in o[n].alarms
      /\ \A a : n \in IndexesOf(o, a) <=> a \in o[n].indexes
      /\ \A k : n \in RowsOf(o, k) <=> k \in ToSet(o[n].rows)
  BY DEF Elams, Logs, Alarms, AlarmsOf, IndexesOf, RowsOf
<1>7. AllOf(d.elam, Between(Elams(o), n - 1, n)) /\ d.elam \in Seq(Numbers)
  BY <1>3, <1>4, <1>5, <1>6
<1>8. AllOf(d.logs, Between(Logs(o, x), n - 1, n)) /\ d.logs \in Seq(Numbers)
  BY <1>3, <1>4, <1>5, <1>6
<1>9. StatesBetween(d.states, o, n - 1, n) /\ d.states \in [Rules -> 0 .. MaxDeltas]
  <2>1. d.states \in [Rules -> 0 .. MaxDeltas]
    <3>1. n \in 0 .. MaxDeltas /\ 0 \in 0 .. MaxDeltas  BY <1>2, DbWriterAssumption
    <3> QED BY <1>4, <3>1
  <2>2. ASSUME NEW r \in Rules PROVE IsLatest(d.states[r], Between(AlarmsOf(o, r), n - 1, n))
    <3>1. d.states[r] = IF r \in o[n].alarms THEN n ELSE 0  BY <1>4
    <3> QED BY <1>2, <1>3, <1>6, <3>1 DEF IsLatest
  <2> QED BY <2>1, <2>2 DEF StatesBetween
<1>10. IndexesBetween(d.indexes, o, n - 1, n) /\ d.indexes \in [Arx -> 0 .. MaxDeltas]
  <2>1. d.indexes \in [Arx -> 0 .. MaxDeltas]
    <3>1. n \in 0 .. MaxDeltas /\ 0 \in 0 .. MaxDeltas  BY <1>2, DbWriterAssumption
    <3> QED BY <1>4, <3>1
  <2>2. ASSUME NEW a \in Arx PROVE IsLatest(d.indexes[a], Between(IndexesOf(o, a), n - 1, n))
    <3>1. d.indexes[a] = IF a \in o[n].indexes THEN n ELSE 0  BY <1>4
    <3> QED BY <1>2, <1>3, <1>6, <3>1 DEF IsLatest
  <2> QED BY <2>1, <2>2 DEF IndexesBetween
<1>11. EventsBetween(d.events, o, n - 1, n) /\ d.events \in Seq(Event)
  <2>1. CASE o[n].alarms = {}
    <3>1. NumbersOf(d.events) = <<>>  BY <1>4, <2>1 DEF NumbersOf
    <3> QED BY <1>3, <1>4, <1>5, <1>6, <2>1, <3>1 DEF EventsBetween
  <2>2. CASE o[n].alarms # {}
    <3>1. d.events = <<[n |-> n, rules |-> o[n].alarms]>>  BY <1>4, <2>2
    <3>2. NumbersOf(d.events) = <<n>>  BY <3>1 DEF NumbersOf
    <3>3. [n |-> n, rules |-> o[n].alarms] \in Event  BY <1>1 DEF Event
    <3>4. \A i \in DOMAIN d.events : d.events[i] = [n |-> n, rules |-> o[n].alarms]  BY <3>1
    <3> QED BY <1>3, <1>5, <1>6, <2>2, <3>1, <3>2, <3>3, <3>4 DEF EventsBetween
  <2> QED BY <2>1, <2>2
<1>12. RowsBetween(d.rows, o, n - 1, n) /\ d.rows \in Seq(Row)
  <2>1. DOMAIN d.rows = DOMAIN o[n].rows /\ DOMAIN o[n].rows = 1 .. Len(o[n].rows)
        /\ Len(o[n].rows) \in Nat
    BY <1>1, <1>4
  <2>2. \A i \in DOMAIN d.rows : d.rows[i] = [key |-> o[n].rows[i], n |-> n] /\ o[n].rows[i] \in Keys
    BY <1>1, <1>4, <2>1
  <2>3. \A k \in Keys : [key |-> k, n |-> n] \in Row  BY DEF Row
  <2>4. d.rows = [i \in 1 .. Len(o[n].rows) |-> d.rows[i]]  BY <1>4, <2>1
  <2>5. d.rows \in Seq(Row)
    <3>1. \A i \in 1 .. Len(o[n].rows) : d.rows[i] \in Row  BY <2>1, <2>2, <2>3
    <3> QED BY <2>1, <2>4, <3>1
  <2>6. \A i \in DOMAIN d.rows : d.rows[i].n \in Between(RowsOf(o, d.rows[i].key), n - 1, n)
    <3> SUFFICES ASSUME NEW i \in DOMAIN d.rows
                 PROVE  d.rows[i].n \in Between(RowsOf(o, d.rows[i].key), n - 1, n)
      OBVIOUS
    <3>1. d.rows[i].n = n /\ d.rows[i].key = o[n].rows[i]
      <4>1. d.rows[i] = [key |-> o[n].rows[i], n |-> n]  BY <2>2
      <4> QED BY <4>1
    <3>2. o[n].rows[i] \in ToSet(o[n].rows)  BY <2>1 DEF ToSet
    <3>3. n \in RowsOf(o, o[n].rows[i])  BY <1>6, <3>2
    <3> QED BY <1>3, <3>1, <3>3
  <2>7. \A k \in Keys : \A a \in Between(RowsOf(o, k), n - 1, n) :
          \E i \in DOMAIN d.rows : d.rows[i] = [key |-> k, n |-> a]
    <3> SUFFICES ASSUME NEW k \in Keys, NEW a \in Between(RowsOf(o, k), n - 1, n)
                 PROVE  \E i \in DOMAIN d.rows : d.rows[i] = [key |-> k, n |-> a]
      OBVIOUS
    <3>1. a = n /\ k \in ToSet(o[n].rows)  BY <1>3, <1>6
    <3>2. PICK i \in DOMAIN o[n].rows : o[n].rows[i] = k  BY <3>1 DEF ToSet
    <3> QED BY <2>1, <2>2, <3>1, <3>2
  <2> QED BY <2>5, <2>6, <2>7 DEF RowsBetween
<1>13. d \in Deltas  BY <1>4, <1>7, <1>8, <1>9, <1>10, <1>11, <1>12 DEF Deltas, Row, Event
<1> QED BY <1>7, <1>8, <1>9, <1>10, <1>11, <1>12, <1>13 DEF Holds, d

-----------------------------------------------------------------------------
(* Offers whose delta is empty, and offers made later *)

Silent(o, x, lo, hi) == \A n \in lo + 1 .. hi : Made(o, x, n) = None

LEMMA SilentHoldsNothing ==
  ASSUME NEW o \in Seq(Shapes), NEW x, NEW lo \in Nat, NEW hi \in Nat, hi <= Len(o),
         Silent(o, x, lo, hi)
  PROVE  /\ Between(Elams(o), lo, hi) = {} /\ Between(Logs(o, x), lo, hi) = {}
         /\ Between(Alarms(o), lo, hi) = {}
         /\ \A r \in Rules : Between(AlarmsOf(o, r), lo, hi) = {}
         /\ \A a \in Arx : Between(IndexesOf(o, a), lo, hi) = {}
         /\ \A k : Between(RowsOf(o, k), lo, hi) = {}
<1>1. ASSUME NEW n \in lo + 1 .. hi
      PROVE  /\ n \notin Elams(o) /\ n \notin Logs(o, x) /\ n \notin Alarms(o)
             /\ \A r \in Rules : n \notin AlarmsOf(o, r)
             /\ \A a \in Arx : n \notin IndexesOf(o, a)
             /\ \A k : n \notin RowsOf(o, k)
  <2> DEFINE d == Made(o, x, n)
  <2>1. d = None  BY DEF Silent
  <2>2. n \in DOMAIN o /\ n # 0  OBVIOUS
  <2>3. /\ d.rows = [i \in DOMAIN o[n].rows |-> [key |-> o[n].rows[i], n |-> n]]
        /\ d.elam = IF o[n].elam THEN <<n>> ELSE <<>>
        /\ d.logs = IF o[n].log /\ n \notin x THEN <<n>> ELSE <<>>
        /\ d.states = [r \in Rules |-> IF r \in o[n].alarms THEN n ELSE 0]
        /\ d.events = IF o[n].alarms = {} THEN <<>> ELSE <<[n |-> n, rules |-> o[n].alarms]>>
        /\ d.indexes = [a \in Arx |-> IF a \in o[n].indexes THEN n ELSE 0]
    <3>1. CASE n \in x  BY <3>1 DEF Made, Delta, DropPollLogs
    <3>2. CASE n \notin x  BY <3>2 DEF Made, Delta
    <3> QED BY <3>1, <3>2
  <2> HIDE DEF d
  <2>4. /\ d.rows = <<>> /\ d.elam = <<>> /\ d.logs = <<>> /\ d.events = <<>>
        /\ d.states = [r \in Rules |-> 0] /\ d.indexes = [a \in Arx |-> 0]
    BY <2>1 DEF None
  <2>5. <<n>> # <<>> /\ <<[n |-> n, rules |-> o[n].alarms]>> # <<>>  OBVIOUS
  <2>6. ~o[n].elam /\ ~(o[n].log /\ n \notin x) /\ o[n].alarms = {}
    BY <2>3, <2>4, <2>5
  <2>7. \A a \in Arx : a \notin o[n].indexes
    <3> SUFFICES ASSUME NEW a \in Arx, a \in o[n].indexes PROVE FALSE  OBVIOUS
    <3>1. d.indexes[a] = n  BY <2>3
    <3>2. d.indexes[a] = 0  BY <2>4
    <3> QED BY <2>2, <3>1, <3>2
  <2>8. DOMAIN o[n].rows = {}
    <3>1. DOMAIN d.rows = DOMAIN o[n].rows  BY <2>3
    <3>2. DOMAIN d.rows = {}  BY <2>4
    <3> QED BY <3>1, <3>2
  <2> QED BY <2>6, <2>7, <2>8 DEF Elams, Logs, Alarms, AlarmsOf, IndexesOf, RowsOf, ToSet
<1> QED BY <1>1 DEF Between

LEMMA HoldsWiden ==
  ASSUME NEW o \in Seq(Shapes), NEW x, NEW d,
         NEW lo \in Nat, NEW mid \in Nat, NEW hi \in Nat, lo <= mid, mid <= hi, hi <= Len(o),
         Silent(o, x, lo, mid), Holds(d, o, x, mid, hi)
  PROVE  Holds(d, o, x, lo, hi)
<1>1. mid <= Len(o)  OBVIOUS
<1>2. \A Q : Between(Q, lo, mid) = {} => Between(Q, lo, hi) = Between(Q, mid, hi)
  <2>1. \A Q : Between(Q, lo, hi) = Between(Q, lo, mid) \cup Between(Q, mid, hi)  BY Spans
  <2> QED BY <2>1
<1>3. /\ Between(Elams(o), lo, hi) = Between(Elams(o), mid, hi)
      /\ Between(Logs(o, x), lo, hi) = Between(Logs(o, x), mid, hi)
      /\ Between(Alarms(o), lo, hi) = Between(Alarms(o), mid, hi)
      /\ \A r \in Rules : Between(AlarmsOf(o, r), lo, hi) = Between(AlarmsOf(o, r), mid, hi)
      /\ \A a \in Arx : Between(IndexesOf(o, a), lo, hi) = Between(IndexesOf(o, a), mid, hi)
      /\ \A k : Between(RowsOf(o, k), lo, hi) = Between(RowsOf(o, k), mid, hi)
  BY <1>1, <1>2, SilentHoldsNothing
<1> QED BY <1>3 DEF Holds, RowsBetween, StatesBetween, EventsBetween, IndexesBetween

LEMMA TablesWiden ==
  ASSUME NEW o \in Seq(Shapes), NEW x, NEW d, NEW t \in Nat, t <= Len(o),
         Silent(o, x, t, Len(o)), Tables(d, o, x, t, t, 0)
  PROVE  Tables(d, o, x, Len(o), Len(o), 0)
<1> DEFINE top == Len(o)
<1>0. top \in Nat /\ t <= top  OBVIOUS
<1>1. \A Q : Between(Q, t, top) = {} => Between(Q, 0, top) = Between(Q, 0, t)
  <2> HIDE DEF top
  <2>1. \A Q : Between(Q, 0, top) = Between(Q, 0, t) \cup Between(Q, t, top)  BY <1>0, Spans
  <2> QED BY <2>1
<1>2. \A i \in 1 .. 6 : UpTo(i, t, t, 0) = t  BY DEF UpTo
<1>3. /\ Between(Elams(o), t, top) = {} /\ Between(Logs(o, x), t, top) = {}
      /\ Between(Alarms(o), t, top) = {}
      /\ \A r \in Rules : Between(AlarmsOf(o, r), t, top) = {}
      /\ \A a \in Arx : Between(IndexesOf(o, a), t, top) = {}
      /\ \A k : Between(RowsOf(o, k), t, top) = {}
  <2>1. top <= Len(o) /\ Silent(o, x, t, top)  OBVIOUS
  <2> HIDE DEF top
  <2> QED BY <1>0, <2>1, SilentHoldsNothing
<1> HIDE DEF top
<1>4. /\ Between(Elams(o), 0, top) = Between(Elams(o), 0, t)
      /\ Between(Logs(o, x), 0, top) = Between(Logs(o, x), 0, t)
      /\ Between(Alarms(o), 0, top) = Between(Alarms(o), 0, t)
      /\ \A r \in Rules : Between(AlarmsOf(o, r), 0, top) = Between(AlarmsOf(o, r), 0, t)
      /\ \A a \in Arx : Between(IndexesOf(o, a), 0, top) = Between(IndexesOf(o, a), 0, t)
      /\ \A k : Between(RowsOf(o, k), 0, top) = Between(RowsOf(o, k), 0, t)
  BY <1>1, <1>3
<1>5. Tables(d, o, x, top, top, 0)
  <2>1. \A i \in 1 .. 6 : UpTo(i, top, top, 0) = top  BY DEF UpTo
  <2> QED BY <1>2, <1>4, <2>1 DEF Tables, StatesBetween, EventsBetween, IndexesBetween
<1> QED BY <1>5 DEF top

\* p is what o is up to hi.
Extends(p, y, o, x, hi) ==
  \A n \in 1 .. hi : /\ n \in DOMAIN o /\ n \in DOMAIN p
                     /\ p[n] = o[n] /\ (n \in y <=> n \in x)

LEMMA ExtendsSets ==
  ASSUME NEW o, NEW x, NEW p, NEW y, NEW top \in Nat, Extends(p, y, o, x, top),
         NEW lo \in Nat, NEW hi \in Nat, hi <= top
  PROVE  /\ Between(Elams(p), lo, hi) = Between(Elams(o), lo, hi)
         /\ Between(Logs(p, y), lo, hi) = Between(Logs(o, x), lo, hi)
         /\ Between(Alarms(p), lo, hi) = Between(Alarms(o), lo, hi)
         /\ \A r : Between(AlarmsOf(p, r), lo, hi) = Between(AlarmsOf(o, r), lo, hi)
         /\ \A a : Between(IndexesOf(p, a), lo, hi) = Between(IndexesOf(o, a), lo, hi)
         /\ \A k : Between(RowsOf(p, k), lo, hi) = Between(RowsOf(o, k), lo, hi)
<1>1. \A n \in lo + 1 .. hi : n \in 1 .. top  OBVIOUS
<1>2. ASSUME NEW n \in lo + 1 .. hi
      PROVE  /\ n \in Elams(p) <=> n \in Elams(o)
             /\ n \in Logs(p, y) <=> n \in Logs(o, x)
             /\ n \in Alarms(p) <=> n \in Alarms(o)
             /\ \A r : n \in AlarmsOf(p, r) <=> n \in AlarmsOf(o, r)
             /\ \A a : n \in IndexesOf(p, a) <=> n \in IndexesOf(o, a)
             /\ \A k : n \in RowsOf(p, k) <=> n \in RowsOf(o, k)
  <2>1. n \in DOMAIN o /\ n \in DOMAIN p /\ p[n] = o[n] /\ (n \in y <=> n \in x)
    BY <1>1 DEF Extends
  <2> QED BY <2>1 DEF Elams, Logs, Alarms, AlarmsOf, IndexesOf, RowsOf
<1> QED BY <1>2 DEF Between

LEMMA ExtendsEvents ==
  ASSUME NEW o, NEW x, NEW p, NEW y, NEW top \in Nat, Extends(p, y, o, x, top),
         NEW lo \in Nat, NEW hi \in Nat, hi <= top, NEW s, EventsBetween(s, o, lo, hi)
  PROVE  EventsBetween(s, p, lo, hi)
<1>1. AllOf(NumbersOf(s), Between(Alarms(p), lo, hi))  BY ExtendsSets DEF EventsBetween
<1>2. ASSUME NEW i \in DOMAIN s PROVE s[i].rules = p[s[i].n].alarms
  <2>1. NumbersOf(s)[i] = s[i].n /\ i \in DOMAIN NumbersOf(s)  BY DEF NumbersOf
  <2>2. s[i].n \in lo + 1 .. hi  BY <1>1, <2>1 DEF AllOf, ToSet, Between
  <2>3. s[i].n \in 1 .. top  BY <2>2
  <2> QED BY <2>3 DEF Extends, EventsBetween
<1> QED BY <1>1, <1>2 DEF EventsBetween

LEMMA ExtendsHolds ==
  ASSUME NEW o, NEW x, NEW p, NEW y, NEW d,
         NEW lo \in Nat, NEW hi \in Nat, Extends(p, y, o, x, hi), Holds(d, o, x, lo, hi)
  PROVE  Holds(d, p, y, lo, hi)
<1>1. EventsBetween(d.events, p, lo, hi)  BY ExtendsEvents DEF Holds
<1> QED BY <1>1, ExtendsSets DEF Holds, RowsBetween, StatesBetween, IndexesBetween

LEMMA ExtendsTables ==
  ASSUME NEW o, NEW x, NEW p, NEW y, NEW d, NEW f \in Nat, NEW t \in Nat, f <= t,
         Extends(p, y, o, x, t), NEW q, Tables(d, o, x, f, t, q)
  PROVE  Tables(d, p, y, f, t, q)
<1>1. \A i : UpTo(i, f, t, q) \in Nat /\ UpTo(i, f, t, q) <= t  BY DEF UpTo
<1> HIDE DEF UpTo
<1>2. \A i : LET hi == UpTo(i, f, t, q)
             IN  /\ Between(Elams(p), 0, hi) = Between(Elams(o), 0, hi)
                 /\ Between(Logs(p, y), 0, hi) = Between(Logs(o, x), 0, hi)
                 /\ \A r : Between(AlarmsOf(p, r), 0, hi) = Between(AlarmsOf(o, r), 0, hi)
                 /\ \A a : Between(IndexesOf(p, a), 0, hi) = Between(IndexesOf(o, a), 0, hi)
                 /\ \A k : Between(RowsOf(p, k), 0, hi) = Between(RowsOf(o, k), 0, hi)
  BY <1>1, ExtendsSets
<1>3. EventsBetween(d.events, p, 0, UpTo(5, f, t, q))  BY <1>1, ExtendsEvents DEF Tables
<1> QED BY <1>2, <1>3 DEF Tables, StatesBetween, IndexesBetween

LEMMA ExtendsMade ==
  ASSUME NEW o, NEW x, NEW p, NEW y, NEW hi \in Nat, Extends(p, y, o, x, hi), NEW n \in 1 .. hi
  PROVE  Made(p, y, n) = Made(o, x, n)
BY DEF Extends, Made

-----------------------------------------------------------------------------
(* The statements of a flush *)

LEMMA StatementNames ==
  /\ DOMAIN Statements = 1 .. 6 /\ Len(Statements) = 6
  /\ Statements[1] = "rows" /\ Statements[2] = "elam" /\ Statements[3] = "logs"
  /\ Statements[4] = "states" /\ Statements[5] = "events" /\ Statements[6] = "indexes"
BY DEF Statements

LEMMA UpToStep ==
  ASSUME NEW f, NEW t, NEW i \in 1 .. 6
  PROVE  /\ UpTo(i, f, t, i - 1) = f /\ UpTo(i, f, t, i) = t
         /\ \A j \in 1 .. 6 : j # i => UpTo(j, f, t, i) = UpTo(j, f, t, i - 1)
BY DEF UpTo

StoredRow(k) ==
  IF \E i \in DOMAIN batch.rows : batch.rows[i].key = k
    THEN batch.rows[CHOOSE i \in DOMAIN batch.rows : batch.rows[i].key = k].n
    ELSE db.rows[k]

LEMMA StoredParts ==
  ASSUME DbType(db), batch \in Deltas
  PROVE  /\ Stored("rows") = [db EXCEPT !.rows = [k \in Keys |-> StoredRow(k)]]
         /\ Stored("elam") = [db EXCEPT !.elam = db.elam \o batch.elam]
         /\ Stored("logs") = [db EXCEPT !.logs = db.logs \o batch.logs]
         /\ Stored("states") = [db EXCEPT !.states = Coalesce(db.states, batch.states)]
         /\ Stored("events") = [db EXCEPT !.events = db.events \o batch.events]
         /\ Stored("indexes") = [db EXCEPT !.indexes = Coalesce(db.indexes, batch.indexes)]
BY DEF Stored, StoredRow, DbType

\* insert_arx_val_rows: of the rows of a key there is one, or the statement is refused.
LEMMA StoredRowOK ==
  ASSUME DbType(db), batch \in Deltas, NEW f \in Nat, NEW t \in Nat, f <= t, ~Refused("rows"),
         RowsBetween(batch.rows, offered, f, t), NEW k \in Keys,
         IsLatest(db.rows[k], Between(RowsOf(offered, k), 0, f))
  PROVE  /\ IsLatest(StoredRow(k), Between(RowsOf(offered, k), 0, t))
         /\ StoredRow(k) \in 0 .. MaxDeltas
<1> DEFINE Q == RowsOf(offered, k)
           s == batch.rows
<1>1. s \in Seq(Row) /\ db.rows[k] \in 0 .. MaxDeltas  BY DEF Deltas, Row, DbType
<1>2. \A i, j \in DOMAIN s : i # j => s[i].key # s[j].key
  <2> SUFFICES ASSUME NEW i \in DOMAIN s, NEW j \in DOMAIN s, i # j, s[i].key = s[j].key PROVE FALSE
    OBVIOUS
  <2>1. i < j \/ j < i  BY <1>1
  <2> QED BY <2>1 DEF Refused
<1>3. /\ \A i \in DOMAIN s : s[i].key = k => s[i].n \in Between(Q, f, t)
      /\ \A n \in Between(Q, f, t) : \E i \in DOMAIN s : s[i] = [key |-> k, n |-> n]
  BY DEF RowsBetween
<1>4. \A i \in DOMAIN s : s[i].n \in 1 .. MaxDeltas
  <2> HIDE DEF s
  <2>1. \A r \in Row : r.n \in 1 .. MaxDeltas  BY DEF Row, Numbers
  <2>2. \A i \in DOMAIN s : s[i] \in Row  BY <1>1
  <2> QED BY <2>1, <2>2
<1> HIDE DEF s, Q
<1>5. CASE \E i \in DOMAIN s : s[i].key = k
  <2> DEFINE c == CHOOSE i \in DOMAIN s : s[i].key = k
  <2>1. c \in DOMAIN s /\ s[c].key = k  BY <1>5
  <2>2. StoredRow(k) = s[c].n  BY <1>5 DEF StoredRow, s
  <2> HIDE DEF c
  <2> DEFINE v == s[c].n
  <2>3. v \in Between(Q, f, t) /\ v \in 1 .. MaxDeltas  BY <1>3, <1>4, <2>1
  <2>4. \A n \in Between(Q, f, t) : n = v
    <3> SUFFICES ASSUME NEW n \in Between(Q, f, t) PROVE n = v  OBVIOUS
    <3>1. PICK i \in DOMAIN s : s[i] = [key |-> k, n |-> n]  BY <1>3
    <3>2. s[i].key = k /\ s[i].n = n  BY <3>1
    <3> QED BY <1>2, <2>1, <3>2
  <2> HIDE DEF v
  <2>5. v \in Nat /\ v # 0 /\ v \in 0 .. MaxDeltas  BY <2>3, DbWriterAssumption
  <2>6. IsLatest(v, Between(Q, f, t))
    <3>1. v <= v  BY <2>5
    <3> QED BY <2>3, <2>4, <3>1 DEF IsLatest
  <2>7. IsLatest(IF v = 0 THEN db.rows[k] ELSE v, Between(Q, 0, t))
    <3>1. db.rows[k] \in Nat  BY <1>1, DbWriterAssumption
    <3>2. IsLatest(db.rows[k], Between(Q, 0, f))  BY DEF Q
    <3> QED BY <2>5, <2>6, <3>1, <3>2, LatestOfBoth
  <2> QED BY <2>2, <2>5, <2>7 DEF v, Q
<1>6. CASE ~\E i \in DOMAIN s : s[i].key = k
  <2>1. StoredRow(k) = db.rows[k]  BY <1>6 DEF StoredRow, s
  <2>2. Between(Q, f, t) = {}
    <3> SUFFICES ASSUME NEW n \in Between(Q, f, t) PROVE FALSE  OBVIOUS
    <3>1. PICK i \in DOMAIN s : s[i] = [key |-> k, n |-> n]  BY <1>3
    <3> QED BY <1>6, <3>1
  <2>3. Between(Q, 0, t) = Between(Q, 0, f)
    <3>1. Between(Q, 0, t) = Between(Q, 0, f) \cup Between(Q, f, t)  BY Spans
    <3> QED BY <2>2, <3>1
  <2> QED BY <1>1, <2>1, <2>3 DEF Q
<1> QED BY <1>5, <1>6

LEMMA StoredLatestOK ==
  ASSUME NEW Q, NEW a \in 0 .. MaxDeltas, NEW b \in 0 .. MaxDeltas,
         NEW f \in Nat, NEW t \in Nat, f <= t,
         IsLatest(a, Between(Q, 0, f)), IsLatest(b, Between(Q, f, t))
  PROVE  IsLatest(IF b = 0 THEN a ELSE b, Between(Q, 0, t))
<1>1. a \in Nat /\ b \in Nat  BY DbWriterAssumption
<1> QED BY <1>1, LatestOfBoth

\* flush_db_delta: each statement brings one table up to the batch.
LEMMA StoreOK ==
  ASSUME DbType(db), batch \in Deltas, NEW f \in Nat, NEW t \in Nat, f <= t, NEW i \in 1 .. 6,
         Holds(batch, offered, shed, f, t), Tables(db, offered, shed, f, t, i - 1),
         ~Refused(Statements[i])
  PROVE  LET d == Stored(Statements[i]) IN Tables(d, offered, shed, f, t, i) /\ DbType(d)
<1> DEFINE d == Stored(Statements[i])
<1>0. /\ db.rows \in [Keys -> 0 .. MaxDeltas]
      /\ db.elam \in Seq(Numbers) /\ db.logs \in Seq(Numbers)
      /\ db.states \in [Rules -> 0 .. MaxDeltas] /\ db.events \in Seq(Event)
      /\ db.indexes \in [Arx -> 0 .. MaxDeltas]
      /\ db = [rows |-> db.rows, elam |-> db.elam, logs |-> db.logs, states |-> db.states,
               events |-> db.events, indexes |-> db.indexes]
  BY DEF DbType, Event
<1>1. /\ batch.elam \in Seq(Numbers) /\ batch.logs \in Seq(Numbers)
      /\ batch.states \in [Rules -> 0 .. MaxDeltas] /\ batch.events \in Seq(Event)
      /\ batch.indexes \in [Arx -> 0 .. MaxDeltas]
  BY DEF Deltas, Event
<1>2. /\ UpTo(i, f, t, i - 1) = f /\ UpTo(i, f, t, i) = t
      /\ \A j \in 1 .. 6 : j # i => UpTo(j, f, t, i) = UpTo(j, f, t, i - 1)
  BY UpToStep
<1>3. 0 \in Nat /\ 0 <= f  OBVIOUS
<1>4. CASE i = 1
  <2>1. d = [db EXCEPT !.rows = [k \in Keys |-> StoredRow(k)]]
    BY <1>4, StoredParts, StatementNames
  <2>2. ASSUME NEW k \in Keys
        PROVE  /\ IsLatest(StoredRow(k), Between(RowsOf(offered, k), 0, t))
               /\ StoredRow(k) \in 0 .. MaxDeltas
    <3>1. IsLatest(db.rows[k], Between(RowsOf(offered, k), 0, f))  BY <1>2, <1>4 DEF Tables
    <3>2. RowsBetween(batch.rows, offered, f, t)  BY DEF Holds
    <3>3. ~Refused("rows")  BY <1>4, StatementNames
    <3> QED BY <3>1, <3>2, <3>3, StoredRowOK
  <2>3. d.rows = [k \in Keys |-> StoredRow(k)] /\ d.rows \in [Keys -> 0 .. MaxDeltas]
    BY <1>0, <2>1, <2>2
  <2>4. /\ d.elam = db.elam /\ d.logs = db.logs /\ d.states = db.states /\ d.events = db.events
        /\ d.indexes = db.indexes
        /\ d = [rows |-> d.rows, elam |-> d.elam, logs |-> d.logs, states |-> d.states,
                events |-> d.events, indexes |-> d.indexes]
    BY <1>0, <2>1
  <2> HIDE DEF d
  <2> QED BY <1>0, <1>2, <1>4, <2>2, <2>3, <2>4 DEF Tables, DbType, Event, d
<1>5. CASE i = 2
  <2> DEFINE c == db.elam \o batch.elam
  <2>1. d = [db EXCEPT !.elam = c]  BY <1>5, StoredParts, StatementNames
  <2>2. /\ AllOf(c, Between(Elams(offered), 0, t))
        /\ c \in Seq(Numbers)
    BY <1>0, <1>1, <1>2, <1>3, <1>5, MergeLists DEF Tables, Holds
  <2> HIDE DEF c
  <2>3. /\ d.elam = c
        /\ d.rows = db.rows /\ d.logs = db.logs /\ d.states = db.states /\ d.events = db.events
        /\ d.indexes = db.indexes
        /\ d = [rows |-> d.rows, elam |-> d.elam, logs |-> d.logs, states |-> d.states,
                events |-> d.events, indexes |-> d.indexes]
    BY <1>0, <2>1
  <2> HIDE DEF d
  <2> QED BY <1>0, <1>2, <1>5, <2>2, <2>3 DEF Tables, DbType, Event, d
<1>6. CASE i = 3
  <2> DEFINE c == db.logs \o batch.logs
  <2>1. d = [db EXCEPT !.logs = c]  BY <1>6, StoredParts, StatementNames
  <2>2. /\ AllOf(c, Between(Logs(offered, shed), 0, t))
        /\ c \in Seq(Numbers)
    BY <1>0, <1>1, <1>2, <1>3, <1>6, MergeLists DEF Tables, Holds
  <2> HIDE DEF c
  <2>3. /\ d.logs = c
        /\ d.rows = db.rows /\ d.elam = db.elam /\ d.states = db.states /\ d.events = db.events
        /\ d.indexes = db.indexes
        /\ d = [rows |-> d.rows, elam |-> d.elam, logs |-> d.logs, states |-> d.states,
                events |-> d.events, indexes |-> d.indexes]
    BY <1>0, <2>1
  <2> HIDE DEF d
  <2> QED BY <1>0, <1>2, <1>6, <2>2, <2>3 DEF Tables, DbType, Event, d
<1>7. CASE i = 4
  <2> DEFINE c == [r \in Rules |-> IF batch.states[r] = 0 THEN db.states[r] ELSE batch.states[r]]
  <2>1. d = [db EXCEPT !.states = c]
    BY <1>0, <1>7, StoredParts, StatementNames DEF Coalesce
  <2>2. StatesBetween(c, offered, 0, t)
    <3> SUFFICES ASSUME NEW r \in Rules
                 PROVE  IsLatest(c[r], Between(AlarmsOf(offered, r), 0, t))
      BY DEF StatesBetween
    <3>1. /\ IsLatest(db.states[r], Between(AlarmsOf(offered, r), 0, f))
          /\ IsLatest(batch.states[r], Between(AlarmsOf(offered, r), f, t))
      BY <1>2, <1>7 DEF Tables, Holds, StatesBetween
    <3> QED BY <1>0, <1>1, <3>1, StoredLatestOK
  <2>3. c \in [Rules -> 0 .. MaxDeltas]  BY <1>0, <1>1
  <2> HIDE DEF c
  <2>4. /\ d.states = c
        /\ d.rows = db.rows /\ d.elam = db.elam /\ d.logs = db.logs /\ d.events = db.events
        /\ d.indexes = db.indexes
        /\ d = [rows |-> d.rows, elam |-> d.elam, logs |-> d.logs, states |-> d.states,
                events |-> d.events, indexes |-> d.indexes]
    BY <1>0, <2>1
  <2> HIDE DEF d
  <2> QED BY <1>0, <1>2, <1>7, <2>2, <2>3, <2>4 DEF Tables, DbType, Event, d
<1>8. CASE i = 5
  <2> DEFINE c == db.events \o batch.events
  <2>1. d = [db EXCEPT !.events = c]  BY <1>8, StoredParts, StatementNames
  <2>2. /\ EventsBetween(c, offered, 0, t)
        /\ c \in Seq(Event)
    BY <1>0, <1>1, <1>2, <1>3, <1>8, MergeEvents DEF Tables, Holds
  <2> HIDE DEF c
  <2>3. /\ d.events = c
        /\ d.rows = db.rows /\ d.elam = db.elam /\ d.logs = db.logs /\ d.states = db.states
        /\ d.indexes = db.indexes
        /\ d = [rows |-> d.rows, elam |-> d.elam, logs |-> d.logs, states |-> d.states,
                events |-> d.events, indexes |-> d.indexes]
    BY <1>0, <2>1
  <2> HIDE DEF d
  <2> QED BY <1>0, <1>2, <1>8, <2>2, <2>3 DEF Tables, DbType, Event, d
<1>9. CASE i = 6
  <2> DEFINE c == [a \in Arx |-> IF batch.indexes[a] = 0 THEN db.indexes[a] ELSE batch.indexes[a]]
  <2>1. d = [db EXCEPT !.indexes = c]
    BY <1>0, <1>9, StoredParts, StatementNames DEF Coalesce
  <2>2. IndexesBetween(c, offered, 0, t)
    <3> SUFFICES ASSUME NEW a \in Arx
                 PROVE  IsLatest(c[a], Between(IndexesOf(offered, a), 0, t))
      BY DEF IndexesBetween
    <3>1. /\ IsLatest(db.indexes[a], Between(IndexesOf(offered, a), 0, f))
          /\ IsLatest(batch.indexes[a], Between(IndexesOf(offered, a), f, t))
      BY <1>2, <1>9 DEF Tables, Holds, IndexesBetween
    <3> QED BY <1>0, <1>1, <3>1, StoredLatestOK
  <2>3. c \in [Arx -> 0 .. MaxDeltas]  BY <1>0, <1>1
  <2> HIDE DEF c
  <2>4. /\ d.indexes = c
        /\ d.rows = db.rows /\ d.elam = db.elam /\ d.logs = db.logs /\ d.states = db.states
        /\ d.events = db.events
        /\ d = [rows |-> d.rows, elam |-> d.elam, logs |-> d.logs, states |-> d.states,
                events |-> d.events, indexes |-> d.indexes]
    BY <1>0, <2>1
  <2> HIDE DEF d
  <2> QED BY <1>0, <1>2, <1>9, <2>2, <2>3, <2>4 DEF Tables, DbType, Event, d
<1> HIDE DEF d
<1> QED BY <1>4, <1>5, <1>6, <1>7, <1>8, <1>9 DEF d

-----------------------------------------------------------------------------
(* The channel *)

\* The channel holds the deltas of the offers c[1], c[2], ... of t + 1 .. h; the
\* others there are empty.
Carries(c, o, x, ch, t, h) ==
  /\ c \in [1 .. Len(ch) -> Nat]
  /\ \A i \in 1 .. Len(ch) : t < c[i] /\ c[i] <= h /\ ch[i] = Made(o, x, c[i])
  /\ \A i, j \in 1 .. Len(ch) : i < j => c[i] < c[j]
  /\ \A n \in t + 1 .. h : (\A i \in 1 .. Len(ch) : c[i] # n) => Made(o, x, n) = None

LEMMA TakeHead ==
  ASSUME NEW o \in Seq(Shapes), Len(o) <= MaxDeltas, NEW x, NEW ch \in Seq(Deltas), ch # <<>>,
         NEW t \in Nat, NEW h \in Nat, h <= Len(o), NEW c, Carries(c, o, x, ch, t, h)
  PROVE  \E u \in Nat : /\ t <= u /\ u <= h /\ Head(ch) \in Deltas
                        /\ Holds(Head(ch), o, x, t, u)
                        /\ \E e : Carries(e, o, x, Tail(ch), u, h)
<1> DEFINE u == c[1]
           m == Len(ch)
           r == Tail(ch)
           e == [i \in 1 .. m - 1 |-> c[i + 1]]
<1>1. /\ m \in Nat \ {0} /\ Head(ch) = ch[1] /\ Len(r) = m - 1
      /\ \A i \in 1 .. m - 1 : r[i] = ch[i + 1] /\ i + 1 \in 1 .. m
      /\ 1 \in 1 .. m
  OBVIOUS
<1>2. /\ c \in [1 .. m -> Nat]
      /\ \A i \in 1 .. m : t < c[i] /\ c[i] <= h /\ ch[i] = Made(o, x, c[i])
      /\ \A i, j \in 1 .. m : i < j => c[i] < c[j]
      /\ \A n \in t + 1 .. h : (\A i \in 1 .. m : c[i] # n) => Made(o, x, n) = None
  BY DEF Carries
<1> HIDE DEF m, r
<1>3. u \in Nat /\ t < u /\ u <= h /\ Head(ch) = Made(o, x, u)  BY <1>1, <1>2
<1>4. \A i \in 2 .. m : u < c[i]  BY <1>1, <1>2
<1>5. Silent(o, x, t, u - 1)
  <2> SUFFICES ASSUME NEW n \in t + 1 .. u - 1 PROVE Made(o, x, n) = None  BY DEF Silent
  <2>1. n \in t + 1 .. h /\ n < u  BY <1>3
  <2>2. \A i \in 1 .. m : c[i] # n
    <3> SUFFICES ASSUME NEW i \in 1 .. m PROVE c[i] # n  OBVIOUS
    <3>1. CASE i = 1  BY <2>1, <3>1
    <3>2. CASE i # 1
      <4>1. i \in 2 .. m  BY <1>1, <3>2
      <4>2. u < c[i] /\ c[i] \in Nat  BY <1>2, <1>4, <4>1
      <4> QED BY <1>3, <2>1, <4>2
    <3> QED BY <3>1, <3>2
  <2> QED BY <1>2, <2>1, <2>2
<1>6. Head(ch) \in Deltas /\ Holds(Head(ch), o, x, t, u)
  <2> HIDE DEF u
  <2>1. u \in DOMAIN o /\ u \in Numbers
    <3>1. DOMAIN o = 1 .. Len(o) /\ Len(o) \in Nat  OBVIOUS
    <3>2. u \in 1 .. Len(o) /\ u \in 1 .. MaxDeltas  BY <1>3, <3>1, DbWriterAssumption
    <3> QED BY <3>1, <3>2 DEF Numbers
  <2>2. Head(ch) \in Deltas /\ Holds(Head(ch), o, x, u - 1, u)  BY <1>3, <2>1, MadeHolds
  <2>3. u - 1 \in Nat /\ t <= u - 1 /\ u - 1 <= u /\ u <= Len(o) /\ Len(o) \in Nat  BY <1>3
  <2> QED BY <1>3, <1>5, <2>2, <2>3, HoldsWiden
<1>7. Carries(e, o, x, r, u, h)
  <2>1. e \in [1 .. Len(r) -> Nat] /\ \A i \in 1 .. Len(r) : e[i] = c[i + 1]  BY <1>1, <1>2
  <2>2. \A i \in 1 .. Len(r) : u < e[i] /\ e[i] <= h /\ r[i] = Made(o, x, e[i])
    <3> SUFFICES ASSUME NEW i \in 1 .. Len(r)
                 PROVE  u < e[i] /\ e[i] <= h /\ r[i] = Made(o, x, e[i])
      OBVIOUS
    <3>1. i + 1 \in 2 .. m /\ i + 1 \in 1 .. m  BY <1>1
    <3>2. u < c[i + 1]  BY <1>4, <3>1
    <3>3. e[i] = c[i + 1] /\ r[i] = ch[i + 1]  BY <1>1, <2>1
    <3> QED BY <1>2, <3>1, <3>2, <3>3
  <2>3. \A i, j \in 1 .. Len(r) : i < j => e[i] < e[j]
    <3> SUFFICES ASSUME NEW i \in 1 .. Len(r), NEW j \in 1 .. Len(r), i < j PROVE e[i] < e[j]
      OBVIOUS
    <3>1. i + 1 \in 1 .. m /\ j + 1 \in 1 .. m /\ i + 1 < j + 1  BY <1>1
    <3> QED BY <1>2, <2>1, <3>1
  <2>4. ASSUME NEW n \in u + 1 .. h, \A i \in 1 .. Len(r) : e[i] # n PROVE Made(o, x, n) = None
    <3>1. n \in t + 1 .. h /\ u < n  BY <1>3
    <3>2. \A i \in 1 .. m : c[i] # n
      <4> SUFFICES ASSUME NEW i \in 1 .. m PROVE c[i] # n  OBVIOUS
      <4>1. CASE i = 1  BY <1>3, <3>1, <4>1
      <4>2. CASE i # 1
        <5>1. i - 1 \in 1 .. Len(r) /\ (i - 1) + 1 = i  BY <1>1, <4>2
        <5>2. e[i - 1] = c[i]  BY <2>1, <5>1
        <5> QED BY <2>4, <5>1, <5>2
      <4> QED BY <4>1, <4>2
    <3> QED BY <1>2, <3>1, <3>2
  <2> HIDE DEF e, u
  <2> QED BY <2>1, <2>2, <2>3, <2>4 DEF Carries
<1> HIDE DEF e, u
<1> QED BY <1>3, <1>6, <1>7 DEF r

LEMMA PutLast ==
  ASSUME NEW o, NEW x, NEW ch \in Seq(Deltas), NEW t \in Nat, NEW h \in Nat, t <= h,
         NEW c, Carries(c, o, x, ch, t, h), NEW d \in Deltas, d = Made(o, x, h + 1)
  PROVE  \E e : Carries(e, o, x, ch \o <<d>>, t, h + 1)
<1> DEFINE m == Len(ch)
           k == ch \o <<d>>
           e == [i \in 1 .. m + 1 |-> IF i <= m THEN c[i] ELSE h + 1]
<1>1. /\ m \in Nat /\ Len(k) = m + 1 /\ k[m + 1] = d
      /\ \A i \in 1 .. m : k[i] = ch[i]
  OBVIOUS
<1>2. /\ c \in [1 .. m -> Nat]
      /\ \A i \in 1 .. m : t < c[i] /\ c[i] <= h /\ ch[i] = Made(o, x, c[i])
      /\ \A i, j \in 1 .. m : i < j => c[i] < c[j]
      /\ \A n \in t + 1 .. h : (\A i \in 1 .. m : c[i] # n) => Made(o, x, n) = None
  BY DEF Carries
<1> HIDE DEF m, k
<1>3. /\ e \in [1 .. Len(k) -> Nat] /\ e[m + 1] = h + 1
      /\ \A i \in 1 .. m : e[i] = c[i]
      /\ \A i \in 1 .. Len(k) : i \in 1 .. m \/ i = m + 1
  BY <1>1, <1>2
<1> HIDE DEF e
<1>4. \A i \in 1 .. Len(k) : t < e[i] /\ e[i] <= h + 1 /\ k[i] = Made(o, x, e[i])
  <2> SUFFICES ASSUME NEW i \in 1 .. Len(k)
               PROVE  t < e[i] /\ e[i] <= h + 1 /\ k[i] = Made(o, x, e[i])
    OBVIOUS
  <2>1. CASE i \in 1 .. m
    <3>1. e[i] = c[i] /\ c[i] \in Nat /\ t < c[i] /\ c[i] <= h /\ k[i] = Made(o, x, c[i])
      BY <1>1, <1>2, <1>3, <2>1
    <3> QED BY <3>1
  <2>2. CASE i = m + 1  BY <1>1, <1>3, <2>2
  <2> QED BY <1>3, <2>1, <2>2
<1>5. \A i, j \in 1 .. Len(k) : i < j => e[i] < e[j]
  <2> SUFFICES ASSUME NEW i \in 1 .. Len(k), NEW j \in 1 .. Len(k), i < j PROVE e[i] < e[j]
    OBVIOUS
  <2>1. i \in 1 .. m /\ e[i] = c[i] /\ c[i] \in Nat /\ c[i] <= h  BY <1>1, <1>2, <1>3
  <2>2. CASE j \in 1 .. m  BY <1>2, <1>3, <2>1, <2>2
  <2>3. CASE j = m + 1  BY <1>3, <2>1, <2>3
  <2> QED BY <1>3, <2>2, <2>3
<1>6. ASSUME NEW n \in t + 1 .. h + 1, \A i \in 1 .. Len(k) : e[i] # n PROVE Made(o, x, n) = None
  <2>1. m + 1 \in 1 .. Len(k) /\ \A i \in 1 .. m : i \in 1 .. Len(k)  BY <1>1
  <2>2. n # h + 1 /\ \A i \in 1 .. m : c[i] # n  BY <1>3, <1>6, <2>1
  <2>3. n \in t + 1 .. h  BY <2>2
  <2> QED BY <1>2, <2>2, <2>3
<1>7. Carries(e, o, x, k, t, h + 1)  BY <1>3, <1>4, <1>5, <1>6 DEF Carries
<1> QED BY <1>7 DEF k

LEMMA ExtendsCarries ==
  ASSUME NEW o, NEW x, NEW p, NEW y, NEW ch, NEW c, NEW t \in Nat, NEW h \in Nat,
         Extends(p, y, o, x, h), Carries(c, o, x, ch, t, h)
  PROVE  Carries(c, p, y, ch, t, h)
<1>1. \A n \in 1 .. h : Made(p, y, n) = Made(o, x, n)  BY ExtendsMade
<1>2. ASSUME NEW i \in 1 .. Len(ch) PROVE ch[i] = Made(p, y, c[i])
  <2>1. c[i] \in Nat /\ t < c[i] /\ c[i] <= h /\ ch[i] = Made(o, x, c[i])  BY DEF Carries
  <2>2. c[i] \in 1 .. h  BY <2>1
  <2> QED BY <1>1, <2>1, <2>2
<1>3. ASSUME NEW n \in t + 1 .. h, \A i \in 1 .. Len(ch) : c[i] # n PROVE Made(p, y, n) = None
  <2>1. n \in 1 .. h  OBVIOUS
  <2> QED BY <1>1, <1>3, <2>1 DEF Carries
<1> QED BY <1>2, <1>3 DEF Carries

-----------------------------------------------------------------------------
(* The inductive invariant *)

Types ==
  /\ prod \in {"idle", "sending", "finishing", "finished", "error"}
  /\ offered \in Seq(Shapes) /\ Len(offered) <= MaxDeltas /\ shed \subseteq 1 .. Len(offered)
  /\ channel \in Seq(Deltas) /\ Len(channel) <= Capacity
  /\ open \in BOOLEAN /\ dbFault \in BOOLEAN
  /\ writer \in Range(Statements) \cup {"recv", "collect", "done", "failed"}
  /\ batch \in Deltas /\ DbType(db)

\* The number of the last offer that reached the channel, or was empty.
Handed == IF sending = <<>> THEN Len(offered) ELSE Len(offered) - 1

\* The offers up to f are in the database, those up to t in the batch or the
\* database, and the others in the channel or about to be sent.
Progress(f, t, p) ==
  /\ f <= t /\ t <= Handed
  /\ Holds(batch, offered, shed, f, t)
  /\ Tables(db, offered, shed, f, t, p)
  /\ writer \in {"recv", "done"} => f = t /\ p = 0
  /\ writer = "collect" => p = 0
  /\ \A i \in 1 .. 6 : writer = Statements[i] => p = i - 1
  /\ writer # "failed" /\ prod # "error" =>
       \E c : Carries(c, offered, shed, channel, t, Handed)

IInv ==
  /\ Types
  /\ prod = "sending" <=> sending # <<>>
  /\ sending # <<>> => sending = <<Made(offered, shed, Len(offered))>> /\ offered # <<>>
  /\ ~open => prod \notin {"idle", "sending"}
  /\ writer = "done" => channel = <<>> /\ ~open
  /\ prod = "finished" => writer = "done"
  /\ \E f, t \in Nat, p \in 0 .. 6 : Progress(f, t, p)

LEMMA WriterNames ==
  /\ Range(Statements) = {"rows", "elam", "logs", "states", "events", "indexes"}
  /\ \A i \in 1 .. 6 : Statements[i] \notin {"recv", "collect", "done", "failed"}
  /\ \A i, j \in 1 .. 6 : Statements[i] = Statements[j] => i = j
<1>1. \A i \in 1 .. 6 : i = 1 \/ i = 2 \/ i = 3 \/ i = 4 \/ i = 5 \/ i = 6  OBVIOUS
<1>2. Range(Statements) = {Statements[i] : i \in 1 .. 6}  BY StatementNames DEF Range
<1> QED BY <1>1, <1>2, StatementNames

LEMMA InitOK == Init => IInv
<1> SUFFICES ASSUME Init PROVE IInv  OBVIOUS
<1>1. /\ prod = "idle" /\ offered = <<>> /\ shed = {} /\ sending = <<>> /\ open = TRUE
      /\ channel = <<>> /\ writer = "recv" /\ batch = None /\ dbFault = FALSE
      /\ db = [None EXCEPT !.rows = [k \in Keys |-> 0]]
  BY DEF Init
<1>2. None \in Deltas /\ Holds(None, offered, shed, 0, 0)  BY NoneHolds
<1>3. /\ db.rows = [k \in Keys |-> 0] /\ db.elam = <<>> /\ db.logs = <<>>
      /\ db.states = None.states /\ db.events = None.events /\ db.indexes = None.indexes
      /\ db = [rows |-> db.rows, elam |-> db.elam, logs |-> db.logs, states |-> db.states,
               events |-> db.events, indexes |-> db.indexes]
      /\ None.elam = <<>> /\ None.logs = <<>>
  BY <1>1 DEF None
<1>4. \A i \in 1 .. 6 : UpTo(i, 0, 0, 0) = 0  BY DEF UpTo
<1>5. \A Q : Between(Q, 0, 0) = {}  BY DEF Between
<1>6. \A k \in Keys : IsLatest(db.rows[k], {})  BY <1>3 DEF IsLatest
<1>7. Tables(db, offered, shed, 0, 0, 0)
  <2>1. /\ AllOf(db.elam, Between(Elams(offered), 0, 0))
        /\ AllOf(db.logs, Between(Logs(offered, shed), 0, 0))
        /\ StatesBetween(db.states, offered, 0, 0)
        /\ EventsBetween(db.events, offered, 0, 0)
        /\ IndexesBetween(db.indexes, offered, 0, 0)
    BY <1>2, <1>3 DEF Holds
  <2>2. \A k \in Keys : IsLatest(db.rows[k], Between(RowsOf(offered, k), 0, 0))  BY <1>5, <1>6
  <2> QED BY <1>4, <2>1, <2>2 DEF Tables
<1>8. DbType(db)
  <2>1. None.states \in [Rules -> 0 .. MaxDeltas] /\ None.events \in Seq(Event)
        /\ None.indexes \in [Arx -> 0 .. MaxDeltas]
    BY <1>2 DEF Deltas, Event
  <2>2. db.rows \in [Keys -> 0 .. MaxDeltas]  BY <1>3, DbWriterAssumption
  <2> QED BY <1>3, <2>1, <2>2, EmptyList DEF DbType, Event
<1>9. Carries(<<>>, offered, shed, channel, 0, Handed)
  BY <1>1 DEF Carries, Handed
<1>10. Progress(0, 0, 0)
  <2>1. Handed = 0  BY <1>1 DEF Handed
  <2> QED BY <1>1, <1>2, <1>7, <1>9, <2>1, WriterNames DEF Progress
<1>11. Types
  <2>1. <<>> \in Seq(Shapes) /\ <<>> \in Seq(Deltas) /\ Len(<<>>) = 0  OBVIOUS
  <2>2. Capacity \in Nat  BY DbWriterAssumption DEF Capacity
  <2>3. offered \in Seq(Shapes) /\ Len(offered) <= MaxDeltas /\ shed \subseteq 1 .. Len(offered)
    BY <1>1, <2>1, DbWriterAssumption
  <2>4. channel \in Seq(Deltas) /\ Len(channel) <= Capacity  BY <1>1, <2>1, <2>2
  <2> QED BY <1>1, <1>2, <1>8, <2>3, <2>4 DEF Types
<1> QED BY <1>1, <1>10, <1>11 DEF IInv

LEMMA HandedType == IInv => Handed \in Nat /\ Handed <= Len(offered)
<1> SUFFICES ASSUME IInv PROVE Handed \in Nat /\ Handed <= Len(offered)  OBVIOUS
<1>1. offered \in Seq(Shapes)  BY DEF IInv, Types
<1>2. CASE sending = <<>>  BY <1>1, <1>2 DEF Handed
<1>3. CASE sending # <<>>
  <2>1. offered # <<>>  BY <1>3 DEF IInv
  <2> QED BY <1>1, <1>3, <2>1 DEF Handed
<1> QED BY <1>2, <1>3

-----------------------------------------------------------------------------
(* The scheduler's side *)

\* What is offered now leaves what was offered before as it is.
LEMMA OfferExtends ==
  ASSUME NEW o \in Seq(Shapes), NEW x \in SUBSET (1 .. Len(o)), NEW s \in Shapes, NEW y,
         \A n \in 1 .. Len(o) : n \in y <=> n \in x
  PROVE  Extends(Append(o, s), y, o, x, Len(o))
<1>1. /\ DOMAIN o = 1 .. Len(o) /\ DOMAIN Append(o, s) = 1 .. Len(o) + 1 /\ Len(o) \in Nat
      /\ \A n \in 1 .. Len(o) : Append(o, s)[n] = o[n]
  OBVIOUS
<1>2. \A n \in 1 .. Len(o) : n \in 1 .. Len(o) + 1  BY <1>1
<1> HIDE <1>1
<1> QED BY <1>1, <1>2 DEF Extends

LEMMA OfferOK == ASSUME IInv, NEW s \in Shapes, Offer(s) PROVE IInv'
<1> DEFINE L == Len(offered)
           n == L + 1
           full == Len(channel) >= ShedThreshold
           d == IF full THEN DropPollLogs(Delta(n, s)) ELSE Delta(n, s)
<1>1. /\ prod = "idle" /\ n <= MaxDeltas
      /\ offered' = Append(offered, s)
      /\ shed' = IF full /\ s.log THEN shed \cup {n} ELSE shed
      /\ IF d = None THEN prod' = prod /\ sending' = sending
                     ELSE prod' = "sending" /\ sending' = <<d>>
      /\ open' = open /\ channel' = channel /\ writer' = writer /\ batch' = batch
      /\ dbFault' = dbFault /\ db' = db
  BY DEF Offer, IsEmptyDelta, writerVars
<1>2. /\ offered \in Seq(Shapes) /\ shed \subseteq 1 .. L /\ L \in Nat /\ sending = <<>>
  BY <1>1 DEF IInv, Types
<1>3. /\ offered' \in Seq(Shapes) /\ Len(offered') = n /\ offered'[n] = s
  BY <1>1, <1>2
<1>4. /\ shed' \subseteq 1 .. n /\ (n \in shed' <=> full /\ s.log)
      /\ \A m \in 1 .. L : m \in shed' <=> m \in shed
  <2> HIDE DEF full
  <2>1. n \notin 1 .. L /\ 1 .. L \subseteq 1 .. n /\ n \in 1 .. n  BY <1>2
  <2> HIDE DEF n
  <2> QED BY <1>1, <1>2, <2>1
<1>5. d = Made(offered', shed', n)
  <2>1. CASE n \in shed'  BY <1>3, <1>4, <2>1 DEF Made
  <2>2. CASE n \notin shed'
    <3>1. CASE ~full  BY <1>3, <2>2, <3>1 DEF Made
    <3>2. CASE full
      <4>1. s.log \in BOOLEAN /\ ~s.log
        BY <1>4, <2>2, <3>2, DbWriterAssumption DEF Shape
      <4>2. DropPollLogs(Delta(n, s)) = Delta(n, s)  BY <4>1 DEF DropPollLogs, Delta
      <4> QED BY <1>3, <2>2, <3>2, <4>2 DEF Made
    <3> QED BY <3>1, <3>2
  <2> QED BY <2>1, <2>2
<1> HIDE DEF d, full
<1>6. Extends(offered', shed', offered, shed, L)  BY <1>1, <1>2, <1>4, OfferExtends
<1> HIDE DEF L
<1>7. Handed = L  BY <1>2 DEF Handed, L
<1>8. PICK f \in Nat, t \in Nat, p \in 0 .. 6 : Progress(f, t, p)  BY DEF IInv
<1>9. f <= t /\ t <= L  BY <1>7, <1>8 DEF Progress
<1>10. Extends(offered', shed', offered, shed, t)
  <2>1. \A m \in 1 .. t : m \in 1 .. L  BY <1>2, <1>9
  <2> QED BY <1>6, <2>1 DEF Extends
<1>11. Holds(batch', offered', shed', f, t)
  BY <1>1, <1>8, <1>10, ExtendsHolds DEF Progress
<1>12. Tables(db', offered', shed', f, t, p)
  <2>1. Tables(db, offered, shed, f, t, p)  BY <1>8 DEF Progress
  <2> QED BY <1>1, <1>9, <1>10, <2>1, ExtendsTables
<1>13. /\ t <= Handed'
       /\ writer' # "failed" /\ prod' # "error" =>
            \E c : Carries(c, offered', shed', channel', t, Handed')
  <2>1. CASE d # None
    <3>1. sending' = <<d>>  BY <1>1, <2>1
    <3>2. sending' # <<>>  BY <3>1
    <3>3. Handed' = L  BY <1>2, <1>3, <3>2 DEF Handed
    <3>4. ASSUME writer # "failed" PROVE \E c : Carries(c, offered', shed', channel', t, L)
      <4>1. PICK c : Carries(c, offered, shed, channel, t, L)
        BY <1>1, <1>7, <1>8, <3>4 DEF Progress
      <4>2. Carries(c, offered', shed', channel, t, L)  BY <1>2, <1>6, <4>1, ExtendsCarries
      <4> QED BY <1>1, <4>2
    <3> QED BY <1>1, <1>9, <3>3, <3>4
  <2>2. CASE d = None
    <3>1. Handed' = n  BY <1>1, <1>2, <1>3, <2>2 DEF Handed
    <3>2. ASSUME writer # "failed" PROVE \E c : Carries(c, offered', shed', channel', t, n)
      <4>1. PICK c : Carries(c, offered, shed, channel, t, L)
        BY <1>1, <1>7, <1>8, <3>2 DEF Progress
      <4>2. Carries(c, offered', shed', channel, t, L)  BY <1>2, <1>6, <4>1, ExtendsCarries
      <4>3. Carries(c, offered', shed', channel, t, n)
        <5>1. \A i \in 1 .. Len(channel) : t < c[i] /\ c[i] <= n
          <6> SUFFICES ASSUME NEW i \in 1 .. Len(channel) PROVE t < c[i] /\ c[i] <= n  OBVIOUS
          <6>1. c[i] \in Nat /\ t < c[i] /\ c[i] <= L  BY <4>2 DEF Carries
          <6> QED BY <1>2, <6>1
        <5>2. ASSUME NEW m \in t + 1 .. n, \A i \in 1 .. Len(channel) : c[i] # m
              PROVE  Made(offered', shed', m) = None
          <6>1. m = n \/ m \in t + 1 .. L  BY <1>2
          <6> HIDE DEF n
          <6>2. CASE m = n  BY <1>5, <2>2, <6>2
          <6>3. CASE m \in t + 1 .. L  BY <4>2, <5>2, <6>3 DEF Carries
          <6> QED BY <6>1, <6>2, <6>3
        <5> HIDE DEF n
        <5> QED BY <4>2, <5>1, <5>2 DEF Carries
      <4> QED BY <1>1, <4>3
    <3>3. t <= n  BY <1>2, <1>9
    <3> HIDE DEF n
    <3> QED BY <1>1, <3>1, <3>2, <3>3
  <2> QED BY <2>1, <2>2
<1>14. Progress(f, t, p)'
  BY <1>1, <1>8, <1>9, <1>11, <1>12, <1>13 DEF Progress
<1>15. Types'
  BY <1>1, <1>3, <1>4 DEF IInv, Types
<1>16. /\ prod' = "sending" <=> sending' # <<>>
       /\ sending' # <<>> =>
            sending' = <<Made(offered', shed', Len(offered'))>> /\ offered' # <<>>
  <2>1. CASE d = None  BY <1>1, <1>2, <2>1
  <2>2. CASE d # None
    <3>1. offered' # <<>>  BY <1>2, <1>3
    <3>2. prod' = "sending" /\ sending' = <<d>> /\ <<d>> # <<>>  BY <1>1, <2>2
    <3>3. <<d>> = <<Made(offered', shed', Len(offered'))>>  BY <1>3, <1>5
    <3> QED BY <3>1, <3>2, <3>3
  <2> QED BY <2>1, <2>2
<1>17. /\ ~open' => prod' \notin {"idle", "sending"}
       /\ writer' = "done" => channel' = <<>> /\ ~open'
       /\ prod' = "finished" => writer' = "done"
  BY <1>1 DEF IInv
<1> QED BY <1>14, <1>15, <1>16, <1>17 DEF IInv

\* The other steps leave the offers as they are.
LEMMA SendOK == ASSUME IInv, Send PROVE IInv'
<1>1. /\ prod = "sending" /\ writer \notin {"done", "failed"} /\ Len(channel) < Capacity
      /\ channel' = channel \o sending /\ sending' = <<>> /\ prod' = "idle"
      /\ offered' = offered /\ shed' = shed /\ open' = open
      /\ writer' = writer /\ batch' = batch /\ dbFault' = dbFault /\ db' = db
  BY DEF Send, Permit, writerVars
<1> DEFINE L == Len(offered)
           d == Made(offered, shed, L)
<1>2. /\ sending = <<d>> /\ sending # <<>> /\ offered # <<>>
      /\ offered \in Seq(Shapes) /\ L <= MaxDeltas /\ channel \in Seq(Deltas)
  BY <1>1 DEF IInv, Types
<1>3. L \in Nat \ {0} /\ L - 1 \in Nat /\ (L - 1) + 1 = L /\ L \in DOMAIN offered  BY <1>2
<1>4. d \in Deltas
  <2>1. L \in Numbers  BY <1>2, <1>3, DbWriterAssumption DEF Numbers
  <2> HIDE DEF L
  <2> QED BY <1>2, <1>3, <2>1, MadeHolds
<1>5. channel' \in Seq(Deltas) /\ Len(channel') <= Capacity
  <2>1. channel' = channel \o <<d>>  BY <1>1, <1>2
  <2> HIDE DEF d
  <2>2. channel' \in Seq(Deltas) /\ Len(channel') = Len(channel) + 1  BY <1>2, <1>4, <2>1
  <2>3. Capacity \in Nat  BY DbWriterAssumption DEF Capacity
  <2>4. Len(channel) \in Nat  BY <1>2
  <2> QED BY <1>1, <2>2, <2>3, <2>4
<1>6. Handed = L - 1 /\ Handed' = L  BY <1>1, <1>2 DEF Handed
<1>7. PICK f \in Nat, t \in Nat, p \in 0 .. 6 : Progress(f, t, p)  BY DEF IInv
<1>8. f <= t /\ t <= L - 1 /\ t <= L  BY <1>3, <1>6, <1>7 DEF Progress
<1>9. \E e : Carries(e, offered, shed, channel', t, L)
  <2>1. PICK c : Carries(c, offered, shed, channel, t, L - 1)
    BY <1>1, <1>6, <1>7 DEF Progress
  <2>2. d = Made(offered, shed, (L - 1) + 1)  BY <1>3
  <2> HIDE DEF d
  <2>3. \E e : Carries(e, offered, shed, channel \o <<d>>, t, (L - 1) + 1)
    BY <1>2, <1>3, <1>4, <1>8, <2>1, <2>2, PutLast
  <2> HIDE DEF L
  <2> QED BY <1>1, <1>2, <1>3, <2>3
<1> HIDE DEF L, d
<1>10. Progress(f, t, p)'  BY <1>1, <1>6, <1>7, <1>8, <1>9 DEF Progress
<1>11. Types'  BY <1>1, <1>5 DEF IInv, Types
<1> QED BY <1>1, <1>10, <1>11 DEF IInv

LEMMA SendFailsOK == ASSUME IInv, SendFails PROVE IInv'
<1>1. /\ prod = "sending" /\ prod' = "error" /\ sending' = <<>> /\ open' = FALSE
      /\ Gone /\ offered' = offered /\ shed' = shed /\ channel' = channel
      /\ writer' = writer /\ batch' = batch /\ dbFault' = dbFault /\ db' = db
  BY DEF SendFails, writerVars
<1>2. PICK f \in Nat, t \in Nat, p \in 0 .. 6 : Progress(f, t, p)  BY DEF IInv
<1>3. t <= Handed'
  <2>1. Handed' = Len(offered) /\ Len(offered) \in Nat  BY <1>1 DEF Handed, IInv, Types
  <2> QED BY <1>2, <2>1, HandedType DEF Progress
<1>4. Progress(f, t, p)'  BY <1>1, <1>2, <1>3 DEF Progress
<1>5. Types'  BY <1>1 DEF IInv, Types
<1> QED BY <1>1, <1>4, <1>5 DEF IInv

\* finish, its return, and the end of the loop by another error.
LEMMA FinishOK == ASSUME IInv, Finish \/ Joined \/ Abandon PROVE IInv'
<1>1. /\ prod # "sending" /\ prod' \in {"finishing", "finished", "error"} /\ prod' # "sending"
      /\ open' \in BOOLEAN /\ (prod' = "finished" => writer = "done") /\ (~open => ~open')
      /\ prod = "error" => prod' = "error"
      /\ sending' = sending /\ offered' = offered /\ shed' = shed /\ channel' = channel
      /\ writer' = writer /\ batch' = batch /\ dbFault' = dbFault /\ db' = db
  <2>0. open \in BOOLEAN  BY DEF IInv, Types
  <2>1. CASE Finish  BY <2>0, <2>1 DEF Finish, writerVars, OpenAfterFinish
  <2>2. CASE Joined  BY <2>0, <2>2 DEF Joined, writerVars
  <2>3. CASE Abandon  BY <2>0, <2>3 DEF Abandon, writerVars
  <2> QED BY <2>1, <2>2, <2>3
<1>2. PICK f \in Nat, t \in Nat, p \in 0 .. 6 : Progress(f, t, p)  BY DEF IInv
<1>3. Handed' = Handed  BY <1>1 DEF Handed
<1>4. Progress(f, t, p)'  BY <1>1, <1>2, <1>3 DEF Progress
<1>5. Types'  BY <1>1 DEF IInv, Types
<1> QED BY <1>1, <1>4, <1>5 DEF IInv

-----------------------------------------------------------------------------
(* The writer *)

\* What a step of the writer leaves alone.
LEMMA WriterFrame ==
  ASSUME IInv, UNCHANGED prodVars, dbFault' \in BOOLEAN,
         channel' \in Seq(Deltas), Len(channel') <= Capacity,
         writer' \in Range(Statements) \cup {"recv", "collect", "done", "failed"},
         batch' \in Deltas, DbType(db'),
         writer' = "done" => channel' = <<>> /\ ~open, writer # "done",
         \E f, t \in Nat, p \in 0 .. 6 : Progress(f, t, p)'
  PROVE  IInv'
<1>1. prod' = prod /\ offered' = offered /\ shed' = shed /\ sending' = sending /\ open' = open
  BY DEF prodVars
<1>2. Types'  BY <1>1 DEF IInv, Types
<1>3. prod # "finished"  BY DEF IInv
<1>4. \E f, t \in Nat, p \in 0 .. 6 : Progress(f, t, p)'  OBVIOUS
<1>5. (\E f, t \in Nat, p \in 0 .. 6 : Progress(f, t, p))'  BY <1>4
<1> QED BY <1>1, <1>2, <1>3, <1>5 DEF IInv

\* recv and try_recv take one delta.
LEMMA TakeOK ==
  ASSUME IInv, Alive, writer \in {"recv", "collect"}, channel # <<>>,
         channel' = Tail(channel), writer' = "collect", UNCHANGED <<prodVars, dbFault, db>>,
         batch' = IF writer = "recv" THEN Merged(None, Head(channel)) ELSE Merged(batch, Head(channel))
  PROVE  IInv'
<1>1. PICK f \in Nat, t \in Nat, p \in 0 .. 6 : Progress(f, t, p)  BY DEF IInv
<1>2. /\ prod' = prod /\ offered' = offered /\ shed' = shed /\ sending' = sending /\ open' = open
      /\ dbFault' = dbFault /\ db' = db /\ Handed' = Handed
  BY DEF prodVars, Handed
<1>3. p = 0 /\ (writer = "recv" => f = t) /\ f <= t /\ t <= Handed  BY <1>1 DEF Progress
<1>4. /\ channel \in Seq(Deltas) /\ Len(channel) <= Capacity
      /\ offered \in Seq(Shapes) /\ Len(offered) <= MaxDeltas /\ batch \in Deltas
      /\ DbType(db) /\ dbFault \in BOOLEAN
  BY DEF IInv, Types
<1>5. PICK c : Carries(c, offered, shed, channel, t, Handed)
  BY <1>1 DEF Progress, Alive
<1>6. PICK u \in Nat : /\ t <= u /\ u <= Handed /\ Head(channel) \in Deltas
                       /\ Holds(Head(channel), offered, shed, t, u)
                       /\ \E e : Carries(e, offered, shed, Tail(channel), u, Handed)
  BY <1>4, <1>5, HandedType, TakeHead
<1> DEFINE old == IF writer = "recv" THEN None ELSE batch
<1>7. old \in Deltas /\ Holds(old, offered, shed, f, t) /\ batch' = Merged(old, Head(channel))
  <2>1. CASE writer = "recv"  BY <1>3, <2>1, NoneHolds
  <2>2. CASE writer # "recv"  BY <1>1, <1>4, <2>2 DEF Progress
  <2> QED BY <2>1, <2>2
<1> HIDE DEF old
<1>8. batch' \in Deltas /\ Holds(batch', offered, shed, f, u)
  BY <1>3, <1>6, <1>7, MergeOK
<1>9. Tables(db, offered, shed, f, u, 0)
  <2>1. Tables(db, offered, shed, f, t, 0)  BY <1>1, <1>3 DEF Progress
  <2>2. \A i \in 1 .. 6 : UpTo(i, f, t, 0) = f /\ UpTo(i, f, u, 0) = f  BY DEF UpTo
  <2> QED BY <2>1, <2>2 DEF Tables
<1>10. f <= u  BY <1>3, <1>6
<1>11. Progress(f, u, 0)'
  BY <1>2, <1>6, <1>8, <1>9, <1>10, WriterNames DEF Progress
<1>12. channel' \in Seq(Deltas) /\ Len(channel') <= Capacity
  <2>1. channel' \in Seq(Deltas) /\ Len(channel') = Len(channel) - 1 /\ Len(channel) \in Nat  BY <1>4
  <2>2. Capacity \in Nat  BY DbWriterAssumption DEF Capacity
  <2> QED BY <1>4, <2>1, <2>2
<1>13. \E a, b \in Nat, q \in 0 .. 6 : Progress(a, b, q)'  BY <1>11
<1> QED BY <1>2, <1>4, <1>8, <1>12, <1>13, WriterFrame

LEMMA RecvOK == ASSUME IInv, Recv \/ TryRecv PROVE IInv'
<1>1. CASE Recv     BY <1>1, TakeOK DEF Recv
<1>2. CASE TryRecv  BY <1>2, TakeOK DEF TryRecv
<1> QED BY <1>1, <1>2

LEMMA StartFlushOK == ASSUME IInv, StartFlush PROVE IInv'
<1>1. PICK f \in Nat, t \in Nat, p \in 0 .. 6 : Progress(f, t, p)  BY DEF IInv
<1>2. /\ writer = "collect" /\ writer' = Statements[1] /\ UNCHANGED prodVars
      /\ channel' = channel /\ batch' = batch /\ dbFault' = dbFault /\ db' = db
  BY DEF StartFlush
<1>3. /\ prod' = prod /\ offered' = offered /\ shed' = shed /\ sending' = sending
      /\ Handed' = Handed
  BY <1>2 DEF prodVars, Handed
<1>4. 1 \in 1 .. 6 /\ Statements[1] \in Range(Statements)  BY StatementNames, WriterNames
<1>5. \A i \in 1 .. 6 : writer' = Statements[i] => i = 1  BY <1>2, <1>4, WriterNames
<1>6. writer' \notin {"recv", "collect", "done", "failed"}  BY <1>2, <1>4, WriterNames
<1>7. p = 0 /\ 1 - 1 = 0  BY <1>1, <1>2 DEF Progress
<1>8. Progress(f, t, 0)'  BY <1>1, <1>2, <1>3, <1>5, <1>6, <1>7 DEF Progress
<1>9. \E a, b \in Nat, q \in 0 .. 6 : Progress(a, b, q)'  BY <1>8
<1>10. /\ channel \in Seq(Deltas) /\ Len(channel) <= Capacity /\ batch \in Deltas
       /\ DbType(db) /\ dbFault \in BOOLEAN
  BY DEF IInv, Types
<1> QED BY <1>2, <1>4, <1>6, <1>9, <1>10, WriterFrame

\* All six statements of a flush done: the batch is in the database.
LEMMA FlushDone ==
  ASSUME NEW d, NEW o, NEW x, NEW f \in Nat, NEW t \in Nat, Tables(d, o, x, f, t, 6)
  PROVE  Tables(d, o, x, t, t, 0)
<1>1. \A i \in 1 .. 6 : UpTo(i, f, t, 6) = t /\ UpTo(i, t, t, 0) = t  BY DEF UpTo
<1> QED BY <1>1 DEF Tables

LEMMA StatementOK == ASSUME IInv, NEW i \in 1 .. 6, Statement(i) PROVE IInv'
<1>1. PICK f \in Nat, t \in Nat, p \in 0 .. 6 : Progress(f, t, p)  BY DEF IInv
<1>2. /\ writer = Statements[i] /\ ~Refused(writer) /\ db' = Stored(writer)
      /\ writer' = NextStatement(i) /\ UNCHANGED prodVars /\ Alive
      /\ batch' = IF writer' = "recv" THEN None ELSE batch
      /\ channel' = channel /\ dbFault' = dbFault
  BY DEF Statement
<1>3. /\ prod' = prod /\ offered' = offered /\ shed' = shed /\ sending' = sending
      /\ Handed' = Handed
  BY <1>2 DEF prodVars, Handed
<1>4. /\ channel \in Seq(Deltas) /\ Len(channel) <= Capacity /\ batch \in Deltas
      /\ DbType(db) /\ dbFault \in BOOLEAN
  BY DEF IInv, Types
<1>5. /\ p = i - 1 /\ f <= t /\ t <= Handed /\ Holds(batch, offered, shed, f, t)
      /\ Tables(db, offered, shed, f, t, i - 1)
  BY <1>1, <1>2 DEF Progress
<1>6. Tables(db', offered, shed, f, t, i) /\ DbType(db')
  BY <1>2, <1>4, <1>5, StoreOK
<1>7. \E c : Carries(c, offered, shed, channel, t, Handed)
  <2>1. writer # "failed"  BY <1>2, WriterNames
  <2> QED BY <1>1, <1>2, <2>1 DEF Progress, Alive
<1>8. /\ writer' \in Range(Statements) \cup {"recv", "collect", "done", "failed"}
      /\ writer' # "done" /\ writer # "done" /\ batch' \in Deltas
      /\ \E a, b \in Nat, q \in 0 .. 6 : Progress(a, b, q)'
  <2>1. CASE i < 6
    <3>1. i + 1 \in 1 .. 6 /\ writer' = Statements[i + 1]
      BY <1>2, <2>1, StatementNames DEF NextStatement
    <3>2. writer' \notin {"recv", "collect", "done", "failed"}  BY <3>1, WriterNames
    <3>3. \A j \in 1 .. 6 : writer' = Statements[j] => j = i + 1  BY <3>1, WriterNames
    <3>4. i = (i + 1) - 1 /\ i \in 0 .. 6  OBVIOUS
    <3>5. batch' = batch  BY <1>2, <3>2
    <3>6. \A j \in 1 .. 6 : writer' = Statements[j] => i = j - 1  BY <3>3, <3>4
    <3>7. Progress(f, t, i)'
      BY <1>2, <1>3, <1>5, <1>6, <1>7, <3>2, <3>5, <3>6 DEF Progress
    <3>8. Statements[i + 1] \in Range(Statements)
      <4>1. i + 1 \in DOMAIN Statements  BY <3>1, StatementNames
      <4> QED BY <4>1 DEF Range
    <3>9. writer # "done"  BY <1>2, WriterNames
    <3> QED BY <1>4, <3>1, <3>2, <3>4, <3>5, <3>7, <3>8, <3>9
  <2>2. CASE i = 6
    <3>1. writer' = "recv" /\ batch' = None
      BY <1>2, <2>2, StatementNames DEF NextStatement
    <3>2. None \in Deltas /\ Holds(None, offered, shed, t, t)  BY NoneHolds
    <3>3. Tables(db', offered, shed, t, t, 0)  BY <1>6, <2>2, FlushDone
    <3>4. \A j \in 1 .. 6 : writer' # Statements[j]  BY <3>1, WriterNames
    <3>5. t <= t  OBVIOUS
    <3>6. Progress(t, t, 0)'
      BY <1>2, <1>3, <1>5, <1>7, <3>1, <3>2, <3>3, <3>4, <3>5 DEF Progress
    <3>7. writer # "done"  BY <1>2, WriterNames
    <3>8. 0 \in 0 .. 6  OBVIOUS
    <3> QED BY <3>1, <3>2, <3>6, <3>7, <3>8
  <2> QED BY <2>1, <2>2
<1> QED BY <1>2, <1>4, <1>6, <1>8, WriterFrame

LEMMA StatementFailsOK ==
  ASSUME IInv, NEW i \in 1 .. 6, NEW fault \in BOOLEAN, StatementFails(i, fault)
  PROVE  IInv'
<1>1. PICK f \in Nat, t \in Nat, p \in 0 .. 6 : Progress(f, t, p)  BY DEF IInv
<1>2. /\ writer = Statements[i] /\ writer' = "failed" /\ channel' = <<>> /\ UNCHANGED prodVars
      /\ dbFault' = fault /\ batch' = batch
      /\ db' \in IF Refused(Statements[i]) THEN {db} ELSE {db, Stored(Statements[i])}
  BY DEF StatementFails
<1>3. /\ prod' = prod /\ offered' = offered /\ shed' = shed /\ sending' = sending
      /\ Handed' = Handed
  BY <1>2 DEF prodVars, Handed
<1>4. batch \in Deltas /\ DbType(db)  BY DEF IInv, Types
<1>5. /\ p = i - 1 /\ f <= t /\ t <= Handed /\ Holds(batch, offered, shed, f, t)
      /\ Tables(db, offered, shed, f, t, i - 1)
  BY <1>1, <1>2 DEF Progress
<1>6. DbType(db') /\ \E q \in 0 .. 6 : Tables(db', offered, shed, f, t, q)
  <2>1. i - 1 \in 0 .. 6 /\ i \in 0 .. 6  OBVIOUS
  <2>2. CASE db' = db  BY <1>4, <1>5, <2>1, <2>2
  <2>3. CASE db' # db
    <3>1. ~Refused(Statements[i]) /\ db' = Stored(Statements[i])  BY <1>2, <2>3
    <3>2. Tables(db', offered, shed, f, t, i) /\ DbType(db')  BY <1>4, <1>5, <3>1, StoreOK
    <3> QED BY <2>1, <3>2
  <2> QED BY <2>2, <2>3
<1>7. PICK q \in 0 .. 6 : Tables(db', offered, shed, f, t, q)  BY <1>6
<1>8. \A j \in 1 .. 6 : writer' # Statements[j]  BY <1>2, WriterNames
<1>9. Progress(f, t, q)'  BY <1>2, <1>3, <1>5, <1>7, <1>8 DEF Progress
<1>10. \E a, b \in Nat, r \in 0 .. 6 : Progress(a, b, r)'  BY <1>9
<1>11. <<>> \in Seq(Deltas) /\ Len(<<>>) <= Capacity
  <2>1. Capacity \in Nat  BY DbWriterAssumption DEF Capacity
  <2> QED BY <2>1
<1>12. writer # "done"  BY <1>2, WriterNames
<1> QED BY <1>2, <1>4, <1>6, <1>10, <1>11, <1>12, WriterFrame

LEMMA WriterDoneOK == ASSUME IInv, WriterDone PROVE IInv'
<1>1. PICK f \in Nat, t \in Nat, p \in 0 .. 6 : Progress(f, t, p)  BY DEF IInv
<1>2. /\ writer = "recv" /\ writer' = "done" /\ ~open /\ channel = <<>> /\ UNCHANGED prodVars
      /\ channel' = channel /\ batch' = batch /\ dbFault' = dbFault /\ db' = db
  BY DEF WriterDone, MayEnd
<1>3. /\ prod' = prod /\ offered' = offered /\ shed' = shed /\ sending' = sending
      /\ Handed' = Handed
  BY <1>2 DEF prodVars, Handed
<1>4. \A j \in 1 .. 6 : writer' # Statements[j]  BY <1>2, WriterNames
<1>5. Progress(f, t, p)'  BY <1>1, <1>2, <1>3, <1>4 DEF Progress
<1>6. \E a, b \in Nat, q \in 0 .. 6 : Progress(a, b, q)'  BY <1>5
<1>7. /\ channel \in Seq(Deltas) /\ Len(channel) <= Capacity /\ batch \in Deltas
      /\ DbType(db) /\ dbFault \in BOOLEAN
  BY DEF IInv, Types
<1> QED BY <1>2, <1>6, <1>7, WriterFrame

LEMMA NextOK == IInv /\ [Next]_vars => IInv'
<1> SUFFICES ASSUME IInv, [Next]_vars PROVE IInv'  OBVIOUS
<1>1. CASE UNCHANGED vars
  <2>1. /\ prod' = prod /\ offered' = offered /\ shed' = shed /\ sending' = sending
        /\ open' = open /\ channel' = channel /\ writer' = writer /\ batch' = batch
        /\ dbFault' = dbFault /\ db' = db /\ Handed' = Handed
    BY <1>1 DEF vars, prodVars, writerVars, Handed
  <2>2. PICK f \in Nat, t \in Nat, p \in 0 .. 6 : Progress(f, t, p)  BY DEF IInv
  <2>3. Progress(f, t, p)'  BY <2>1, <2>2 DEF Progress
  <2>4. Types'  BY <2>1 DEF IInv, Types
  <2> QED BY <2>1, <2>3, <2>4 DEF IInv
<1>2. CASE Writer
  <2>1. DOMAIN Statements = 1 .. 6  BY StatementNames
  <2> QED BY <1>2, <2>1, RecvOK, StartFlushOK, WriterDoneOK, StatementOK, StatementFailsOK
          DEF Writer
<1>3. CASE \/ \E s \in Shapes : Offer(s)
           \/ Send \/ SendFails \/ Finish \/ Joined \/ Abandon
  BY <1>3, OfferOK, SendOK, SendFailsOK, FinishOK
<1> QED BY <1>1, <1>2, <1>3 DEF Next, Ended

\* Every reachable state satisfies the inductive invariant: what was handed over
\* is stored, in the batch, in the statements under way or in the channel, each
\* once and in this order (db_writer.rs 38-173).
THEOREM Inductive == Spec => []IInv
BY InitOK, NextOK, PTL DEF Spec

-----------------------------------------------------------------------------
(* What the tables hold *)

LEMMA SpanOfOffers ==
  ASSUME NEW o \in Seq(Shapes), NEW Q \in SUBSET DOMAIN o, NEW m \in Nat
  PROVE  /\ {n \in Q : n <= m} = Between(Q, 0, m)
         /\ m = Len(o) => Between(Q, 0, m) = Q
<1>1. DOMAIN o = 1 .. Len(o) /\ Len(o) \in Nat  OBVIOUS
<1>2. ASSUME NEW n PROVE n \in Q => n \in 1 .. Len(o)  BY <1>1
<1>3. ASSUME NEW n \in 1 .. Len(o) PROVE n <= m <=> n \in 0 + 1 .. m  BY <1>1
<1>4. ASSUME NEW n \in 0 + 1 .. m PROVE n <= m  OBVIOUS
<1>5. ASSUME NEW n \in 1 .. Len(o), m = Len(o) PROVE n <= m  BY <1>1, <1>5
<1> QED BY <1>2, <1>3, <1>4, <1>5 DEF Between

LEMMA TypesOK == IInv => TypeOK
<1> SUFFICES ASSUME IInv PROVE TypeOK  OBVIOUS
<1>1. /\ offered \in Seq(Shapes) /\ Len(offered) <= MaxDeltas /\ shed \subseteq 1 .. Len(offered)
      /\ channel \in Seq(Deltas) /\ Len(channel) <= Capacity /\ batch \in Deltas /\ DbType(db)
  BY DEF IInv, Types
<1>2. shed \subseteq Numbers
  <2>1. Len(offered) \in Nat /\ 1 .. Len(offered) \subseteq 1 .. MaxDeltas
    BY <1>1, DbWriterAssumption
  <2> QED BY <1>1, <2>1 DEF Numbers
<1>3. sending \in Seq(Deltas) /\ Len(sending) <= 1
  <2>1. CASE sending = <<>>
    <3>1. <<>> \in Seq(Deltas) /\ Len(<<>>) <= 1  OBVIOUS
    <3> QED BY <2>1, <3>1
  <2>2. CASE sending # <<>>
    <3> DEFINE d == Made(offered, shed, Len(offered))
    <3>1. sending = <<d>> /\ offered # <<>>  BY <2>2 DEF IInv
    <3>2. Len(offered) \in DOMAIN offered /\ Len(offered) \in Numbers
      BY <1>1, <3>1, DbWriterAssumption DEF Numbers
    <3>3. d \in Deltas  BY <1>1, <3>2, MadeHolds
    <3> HIDE DEF d
    <3>4. <<d>> \in Seq(Deltas) /\ Len(<<d>>) <= 1  BY <3>3
    <3> QED BY <3>1, <3>4
  <2> QED BY <2>1, <2>2
<1>4. [db EXCEPT !.rows = <<>>] \in Deltas /\ db.rows \in [Keys -> 0 .. MaxDeltas]
  <2>1. <<>> \in Seq([key : Keys, n : Numbers])  OBVIOUS
  <2> QED BY <1>1, <2>1 DEF DbType, Deltas
<1> QED BY <1>1, <1>2, <1>3, <1>4 DEF IInv, Types, TypeOK

LEMMA OfferedSets ==
  ASSUME IInv
  PROVE  /\ offered \in Seq(Shapes)
         /\ ElamOffered = Elams(offered) /\ Elams(offered) \subseteq DOMAIN offered
         /\ LogsOffered = Logs(offered, shed) /\ Logs(offered, shed) \subseteq DOMAIN offered
         /\ AlarmsOffered = Alarms(offered) /\ Alarms(offered) \subseteq DOMAIN offered
         /\ EventsStored = NumbersOf(db.events)
BY DEF IInv, Types, ElamOffered, LogsOffered, AlarmsOffered, EventsStored, Elams, Logs, Alarms,
       NumbersOf

LEMMA NoGaps == IInv => NoGapsNoRepeats
<1> SUFFICES ASSUME IInv PROVE NoGapsNoRepeats  OBVIOUS
<1>1. PICK f \in Nat, t \in Nat, p \in 0 .. 6 : Progress(f, t, p)  BY DEF IInv
<1>2. ASSUME NEW s, NEW Q \in SUBSET DOMAIN offered, NEW i \in 1 .. 6,
             AllOf(s, Between(Q, 0, UpTo(i, f, t, p)))
      PROVE  FirstOf(s, Q)
  <2> DEFINE m == UpTo(i, f, t, p)
  <2>1. m \in 0 .. Len(offered)
    <3>1. f <= t /\ t <= Len(offered) /\ Len(offered) \in Nat
      BY <1>1, HandedType DEF Progress, IInv, Types
    <3> QED BY <3>1 DEF UpTo
  <2> HIDE DEF m
  <2>2. m \in Nat  BY <2>1
  <2>3. {n \in Q : n <= m} = Between(Q, 0, m)  BY <2>2, OfferedSets, SpanOfOffers
  <2>4. AllOf(s, {n \in Q : n <= m})  BY <1>2, <2>3 DEF m
  <2> QED BY <2>1, <2>4 DEF FirstOf
<1>3. /\ AllOf(db.elam, Between(Elams(offered), 0, UpTo(2, f, t, p)))
      /\ AllOf(db.logs, Between(Logs(offered, shed), 0, UpTo(3, f, t, p)))
      /\ AllOf(NumbersOf(db.events), Between(Alarms(offered), 0, UpTo(5, f, t, p)))
  BY <1>1 DEF Progress, Tables, EventsBetween
<1>4. 2 \in 1 .. 6 /\ 3 \in 1 .. 6 /\ 5 \in 1 .. 6  OBVIOUS
<1>5. FirstOf(db.elam, ElamOffered)  BY <1>2, <1>3, <1>4, OfferedSets
<1>6. FirstOf(db.logs, LogsOffered)  BY <1>2, <1>3, <1>4, OfferedSets
<1>7. FirstOf(EventsStored, AlarmsOffered)  BY <1>2, <1>3, <1>4, OfferedSets
<1> QED BY <1>5, <1>6, <1>7, TypesOK DEF NoGapsNoRepeats

\* At every moment, also after a crash or a failed statement, the append-only
\* tables hold the first of the rows handed over, each once and in order
\* (db_writer.rs 38-108, append_coalescing_runtime_updates, flush_db_delta).
THEOREM TablesHavePrefixes == Spec => []NoGapsNoRepeats
BY Inductive, NoGaps, PTL

LEMMA AllStored == IInv => FinishStoresAll
<1> SUFFICES ASSUME IInv, prod = "finished" PROVE FinishStoresAll  BY DEF FinishStoresAll
<1> DEFINE L == Len(offered)
<1>1. PICK f \in Nat, t \in Nat, p \in 0 .. 6 : Progress(f, t, p)  BY DEF IInv
<1>2. writer = "done" /\ channel = <<>> /\ sending = <<>>  BY DEF IInv
<1>3. f = t /\ p = 0 /\ Handed = L /\ t <= L /\ Tables(db, offered, shed, t, t, 0)
  BY <1>1, <1>2 DEF Progress, Handed
<1>4. offered \in Seq(Shapes) /\ L \in Nat  BY DEF IInv, Types
<1>5. PICK c : Carries(c, offered, shed, <<>>, t, L)  BY <1>1, <1>2, <1>3 DEF Progress
<1>6. Silent(offered, shed, t, L)
  <2>1. 1 .. Len(<<>>) = {}  OBVIOUS
  <2> HIDE DEF L
  <2> QED BY <1>5, <2>1 DEF Carries, Silent
<1>7. Tables(db, offered, shed, L, L, 0)  BY <1>3, <1>4, <1>6, TablesWiden
<1>8. \A i \in 1 .. 6 : UpTo(i, L, L, 0) = L  BY DEF UpTo
<1>9. \A Q \in SUBSET DOMAIN offered : Between(Q, 0, L) = Q  BY <1>4, SpanOfOffers
<1> HIDE DEF L
<1>10. /\ AllOf(db.elam, Between(Elams(offered), 0, L))
       /\ AllOf(db.logs, Between(Logs(offered, shed), 0, L))
       /\ AllOf(NumbersOf(db.events), Between(Alarms(offered), 0, L))
       /\ \A r \in Rules : IsLatest(db.states[r], Between(AlarmsOf(offered, r), 0, L))
       /\ \A a \in Arx : IsLatest(db.indexes[a], Between(IndexesOf(offered, a), 0, L))
       /\ \A k \in Keys : IsLatest(db.rows[k], Between(RowsOf(offered, k), 0, L))
  BY <1>7, <1>8 DEF Tables, StatesBetween, EventsBetween, IndexesBetween
<1>11. /\ \A r : AlarmsOf(offered, r) \in SUBSET DOMAIN offered
       /\ \A a : IndexesOf(offered, a) \in SUBSET DOMAIN offered
       /\ \A k : RowsOf(offered, k) \in SUBSET DOMAIN offered
  BY DEF AlarmsOf, IndexesOf, RowsOf
<1>12. /\ \A r \in Rules : IsLatest(db.states[r], AlarmsOf(offered, r))
       /\ \A a \in Arx : IsLatest(db.indexes[a], IndexesOf(offered, a))
       /\ \A k \in Keys : IsLatest(db.rows[k], RowsOf(offered, k))
  BY <1>9, <1>10, <1>11
<1>13. /\ AllOf(db.elam, ElamOffered) /\ AllOf(db.logs, LogsOffered)
       /\ AllOf(EventsStored, AlarmsOffered)
  BY <1>9, <1>10, OfferedSets
<1> QED BY <1>12, <1>13 DEF FinishStoresAll, AlarmsOf, IndexesOf, RowsOf

\* When finish returns Ok nothing of what was handed over is missing, and what
\* is overwritten has its last value (db_writer.rs 144-173).
THEOREM FinishedIsStored == Spec => []FinishStoresAll
BY Inductive, AllStored, PTL

LEMMA RestartSafe == IInv => RestartFindsAll
<1> SUFFICES ASSUME IInv PROVE RestartFindsAll  OBVIOUS
<1>1. PICK f \in Nat, t \in Nat, p \in 0 .. 6 : Progress(f, t, p)  BY DEF IInv
<1> DEFINE up(i) == UpTo(i, f, t, p)
<1>2. /\ up(1) \in Nat /\ up(4) \in Nat /\ up(5) \in Nat /\ up(6) \in Nat
      /\ up(6) <= up(1) /\ up(5) <= up(4) /\ up(1) <= Len(offered) /\ up(4) <= Len(offered)
  <2>1. f <= t /\ t <= Handed  BY <1>1 DEF Progress
  <2>2. offered \in Seq(Shapes)  BY DEF IInv, Types
  <2>3. Len(offered) \in Nat  BY <2>2
  <2>4. Handed \in Nat /\ Handed <= Len(offered)  BY HandedType
  <2>5. t <= Len(offered)  BY <2>1, <2>3, <2>4
  <2> QED BY <2>1, <2>3, <2>5 DEF UpTo
<1>3. offered \in Seq(Shapes) /\ DOMAIN offered = 1 .. Len(offered) /\ Len(offered) \in Nat
  BY DEF IInv, Types
<1>4. /\ \A k \in Keys : IsLatest(db.rows[k], Between(RowsOf(offered, k), 0, up(1)))
      /\ \A r \in Rules : IsLatest(db.states[r], Between(AlarmsOf(offered, r), 0, up(4)))
      /\ EventsBetween(db.events, offered, 0, up(5))
      /\ \A a \in Arx : IsLatest(db.indexes[a], Between(IndexesOf(offered, a), 0, up(6)))
  BY <1>1 DEF Progress, Tables, StatesBetween, IndexesBetween
<1>5. DbType(db)  BY DEF IInv, Types
<1> HIDE DEF up
<1>6. ASSUME NEW a \in Arx, NEW n \in 1 .. db.indexes[a], NEW k \in ToSet(offered[n].rows)
      PROVE  db.rows[k] >= n
  <2>1. db.indexes[a] \in Nat /\ db.indexes[a] <= up(6)
    <3>1. db.indexes[a] \in 0 .. MaxDeltas  BY <1>5 DEF DbType
    <3>2. db.indexes[a] = 0 \/ db.indexes[a] \in 0 + 1 .. up(6)  BY <1>4 DEF IsLatest, Between
    <3> QED BY <1>2, <3>1, <3>2, DbWriterAssumption
  <2>2. n \in 0 + 1 .. up(1) /\ n \in DOMAIN offered  BY <1>2, <1>3, <2>1
  <2>3. k \in Keys
    <3>1. offered[n].rows \in Seq(Keys)  BY <1>3, <2>2, DbWriterAssumption DEF Shape
    <3> QED BY <3>1 DEF ToSet
  <2>4. n \in Between(RowsOf(offered, k), 0, up(1))  BY <2>2 DEF RowsOf, Between
  <2>5. n <= db.rows[k]  BY <1>4, <2>3, <2>4 DEF IsLatest
  <2>6. db.rows[k] \in 0 .. MaxDeltas  BY <1>5, <2>3 DEF DbType
  <2> QED BY <2>5, <2>6, DbWriterAssumption
<1>7. ASSUME NEW i \in DOMAIN db.events, NEW r \in db.events[i].rules
      PROVE  db.states[r] >= db.events[i].n
  <2> DEFINE n == db.events[i].n
  <2>1. db.events[i] \in Event
    <3>1. db.events \in Seq(Event)  BY <1>5 DEF DbType, Event
    <3> QED BY <3>1
  <2>2. r \in Rules  BY <2>1 DEF Event
  <2>3. n \in Between(Alarms(offered), 0, up(5)) /\ r \in offered[n].alarms
    <3>1. NumbersOf(db.events)[i] = n /\ i \in DOMAIN NumbersOf(db.events)  BY DEF NumbersOf
    <3> QED BY <1>4, <3>1 DEF EventsBetween, AllOf, ToSet
  <2> HIDE DEF n
  <2>4. n \in 0 + 1 .. up(4) /\ n \in DOMAIN offered
    <3>1. n \in 0 + 1 .. up(5)  BY <2>3 DEF Between
    <3> QED BY <1>2, <1>3, <3>1
  <2>5. n \in Between(AlarmsOf(offered, r), 0, up(4))  BY <2>3, <2>4 DEF AlarmsOf, Between
  <2>6. n <= db.states[r]  BY <1>4, <2>2, <2>5 DEF IsLatest
  <2>7. db.states[r] \in 0 .. MaxDeltas  BY <1>5, <2>2 DEF DbType
  <2>8. db.states[r] >= n  BY <2>4, <2>6, <2>7, DbWriterAssumption
  <2> QED BY <2>8 DEF n
<1> QED BY <1>6, <1>7 DEF RestartFindsAll

\* Wherever the process dies, the index of an archive is not ahead of the
\* archive's rows and no event lacks its state (flush_db_delta, merge.rs
\* 194-338).
THEOREM RestartIsSafe == Spec => []RestartFindsAll
BY Inductive, RestartSafe, PTL
=============================================================================
