----------------------------- MODULE AlarmsProofs -----------------------------
(***************************************************************************)
(* Theorems about Alarms for every set of KPZ, rules, contents of rules    *)
(* and values, any delays and any number of edits and restarts, as long as *)
(* the writer keeps up with the reloads (KeepsUp; without it the run       *)
(* alarms_lag shows them false).                                           *)
(***************************************************************************)
EXTENDS Alarms, WellFoundedInduction, TLAPS

-----------------------------------------------------------------------------
(* The last transition of a sequence of deltas *)

Deltas == Seq([Rules -> Seq(BOOLEAN)])

\* A set of places of a sequence has a last one.
LEMMA LastPlace ==
  ASSUME NEW n \in Nat, NEW S \in SUBSET (1 .. n), S # {}
  PROVE  \E x \in S : \A y \in S : x >= y
<1> DEFINE T == {n - i : i \in S}
           R == OpToRel(<, Nat)
<1>0. \A i \in S : i \in 1 .. n /\ n - i \in Nat  OBVIOUS
<1>1. T \subseteq Nat /\ T # {}  BY <1>0
<1>2. PICK t \in T : \A y \in T : ~(<<y, t>> \in R)
  <2>1. IsWellFoundedOn(R, Nat)  BY NatLessThanWellFounded
  <2> HIDE DEF R, T
  <2> QED BY <1>1, <2>1, WFMin
<1>3. \A y \in T : ~(y < t)  BY <1>1, <1>2 DEF OpToRel
<1>4. PICK x \in S : t = n - x  OBVIOUS
<1>5. \A y \in S : x >= y
  <2> SUFFICES ASSUME NEW y \in S PROVE x >= y  OBVIOUS
  <2>1. ~(n - y < n - x)  BY <1>3, <1>4
  <2>2. x \in Int /\ y \in Int  BY <1>0
  <2> QED BY <2>1, <2>2
<1> QED BY <1>5

LEMMA MaxIs ==
  ASSUME NEW S \in SUBSET Int, NEW x \in S, \A y \in S : x >= y
  PROVE  Max(S) = x
<1>1. \A z \in S : (\A y \in S : z >= y) => z = x  OBVIOUS
<1> QED BY <1>1 DEF Max

Having(deltas, r, n) == {i \in 1 .. n : deltas[i][r] # <<>>}

LEMMA LastInIs ==
  ASSUME NEW deltas, NEW r, NEW n \in Nat, NEW first
  PROVE  /\ Having(deltas, r, n) = {} => LastIn(deltas, r, n, first) = first
         /\ \A x \in Having(deltas, r, n) : (\A y \in Having(deltas, r, n) : x >= y) =>
              LastIn(deltas, r, n, first) = Last(deltas[x][r])
<1>1. Having(deltas, r, n) \subseteq Int  BY DEF Having
<1> QED BY <1>1, MaxIs DEF Having, LastIn

\* Only the deltas that are looked at count.
LEMMA LastInSame ==
  ASSUME NEW d1, NEW d2, NEW r, NEW n \in Nat, NEW first, \A i \in 1 .. n : d1[i][r] = d2[i][r]
  PROVE  LastIn(d1, r, n, first) = LastIn(d2, r, n, first)
<1>1. Having(d1, r, n) = Having(d2, r, n)  BY DEF Having
<1>2. CASE Having(d1, r, n) = {}
  <2>1. LastIn(d1, r, n, first) = first  BY <1>2, LastInIs
  <2>2. LastIn(d2, r, n, first) = first  BY <1>1, <1>2, LastInIs
  <2> QED BY <2>1, <2>2
<1>3. CASE Having(d1, r, n) # {}
  <2>1. Having(d1, r, n) \in SUBSET (1 .. n)  BY DEF Having
  <2>2. PICK x \in Having(d1, r, n) : \A y \in Having(d1, r, n) : x >= y  BY <1>3, <2>1, LastPlace
  <2>3. LastIn(d1, r, n, first) = Last(d1[x][r]) /\ LastIn(d2, r, n, first) = Last(d2[x][r])
    BY <1>1, <2>2, LastInIs
  <2> QED BY <2>1, <2>2, <2>3
<1> QED BY <1>2, <1>3

\* One delta more.
LEMMA LastInOneMore ==
  ASSUME NEW d, NEW r, NEW n \in Nat, NEW first
  PROVE  LastIn(d, r, n + 1, first) =
           IF d[n + 1][r] = <<>> THEN LastIn(d, r, n, first) ELSE Last(d[n + 1][r])
<1>1. CASE d[n + 1][r] # <<>>
  <2>1. n + 1 \in Having(d, r, n + 1) /\ \A y \in Having(d, r, n + 1) : n + 1 >= y
    BY <1>1 DEF Having
  <2>2. n + 1 \in Nat  OBVIOUS
  <2>3. LastIn(d, r, n + 1, first) = Last(d[n + 1][r])  BY <2>1, <2>2, LastInIs
  <2> QED BY <1>1, <2>3
<1>2. CASE d[n + 1][r] = <<>>
  <2>1. Having(d, r, n + 1) = Having(d, r, n)
    <3>1. \A i \in 1 .. n + 1 : i \in 1 .. n \/ i = n + 1  OBVIOUS
    <3>2. \A i \in 1 .. n : i \in 1 .. n + 1  OBVIOUS
    <3> QED BY <1>2, <3>1, <3>2 DEF Having
  <2>2. LastIn(d, r, n + 1, first) = LastIn(d, r, n, first)  BY <2>1 DEF LastIn, Having
  <2> QED BY <1>2, <2>2
<1> QED BY <1>1, <1>2

\* The deltas that are stored move into the value that stands for them.
LEMMA LastInRest ==
  ASSUME NEW d \in Deltas, NEW r \in Rules, NEW n \in 1 .. Len(d), NEW m \in 0 .. Len(d) - n, NEW first
  PROVE  LastIn(SubSeq(d, n + 1, Len(d)), r, m, LastIn(d, r, n, first)) = LastIn(d, r, n + m, first)
<1> DEFINE e == SubSeq(d, n + 1, Len(d))
<1>1. Len(d) \in Nat /\ n \in Nat /\ m \in Nat /\ n + m \in Nat /\ n + m <= Len(d)  BY DEF Deltas
<1>2. \A i \in 1 .. m : e[i] = d[n + i]
  <2> SUFFICES ASSUME NEW i \in 1 .. m PROVE e[i] = d[n + i]  OBVIOUS
  <2>1. i \in 1 .. Len(d) - n  BY <1>1
  <2> QED BY <1>1, <2>1 DEF Deltas
<1> HIDE DEF e
<1>3. \A i \in 1 .. m : i \in Having(e, r, m) <=> n + i \in Having(d, r, n + m)
  BY <1>1, <1>2 DEF Having
<1>4. CASE Having(e, r, m) = {}
  <2>1. Having(d, r, n + m) = Having(d, r, n)
    <3>1. \A i \in 1 .. n + m : i \in 1 .. n \/ (i - n \in 1 .. m /\ n + (i - n) = i)  BY <1>1
    <3>2. \A i \in 1 .. n : i \in 1 .. n + m  BY <1>1
    <3>3. \A i \in 1 .. n + m : i \notin 1 .. n => i \notin Having(d, r, n + m)
      BY <1>3, <1>4, <3>1
    <3> QED BY <3>2, <3>3 DEF Having
  <2>2. LastIn(d, r, n + m, first) = LastIn(d, r, n, first)  BY <2>1 DEF LastIn, Having
  <2> QED BY <1>1, <1>4, <2>2, LastInIs DEF e
<1>5. CASE Having(e, r, m) # {}
  <2>1. Having(e, r, m) \in SUBSET (1 .. m)  BY DEF Having
  <2>2. PICK x \in Having(e, r, m) : \A y \in Having(e, r, m) : x >= y
    BY <1>1, <1>5, <2>1, LastPlace
  <2>3. x \in 1 .. m  BY <2>1
  <2>4. n + x \in Having(d, r, n + m)  BY <1>3, <2>3
  <2>5. ASSUME NEW y \in Having(d, r, n + m) PROVE n + x >= y
    <3>1. y \in 1 .. n + m  BY DEF Having
    <3>2. CASE y \in 1 .. n  BY <1>1, <2>3, <3>2
    <3>3. CASE y \notin 1 .. n
      <4>1. y - n \in 1 .. m /\ n + (y - n) = y  BY <1>1, <3>1, <3>3
      <4>2. x >= y - n  BY <1>3, <2>2, <4>1
      <4> QED BY <1>1, <2>3, <4>1, <4>2
    <3> QED BY <3>2, <3>3
  <2>6. LastIn(d, r, n + m, first) = Last(d[n + x][r])  BY <1>1, <2>4, <2>5, LastInIs
  <2>7. LastIn(e, r, m, LastIn(d, r, n, first)) = Last(e[x][r])  BY <1>1, <2>2, LastInIs
  <2> QED BY <1>2, <2>3, <2>6, <2>7 DEF e
<1> QED BY <1>4, <1>5

-----------------------------------------------------------------------------
(* The inductive invariant *)

Job == [rt : [Rules -> State], out : [Rules -> Seq(BOOLEAN)], reads : 0 .. MaxReads]

\* The state of a rule that counts: the copy of the job of its KPZ, if one runs.
Now(r) == IF worker[Owner[r]] = NoWorker THEN runtime[r] ELSE worker[Owner[r]].rt[r]

Evaluable(r) == enabled /\ rules[r] # Off

\* Nothing was ever reported of the rule.
Silent(r) ==
  /\ stored[r] = NoRow /\ \A i \in DOMAIN sent : sent[i][r] = <<>>
  /\ worker[Owner[r]] # NoWorker => worker[Owner[r]].out[r] = <<>>

Turns(r) ==
  /\ \A i \in DOMAIN sent : TakeTurns(sent[i][r], Reported(r, i - 1))
  /\ worker[Owner[r]] # NoWorker => TakeTurns(worker[Owner[r]].out[r], Reported(r, Len(sent)))

\* What a rule is taken to be is what was reported last, and its delay is not
\* older than the series of readings that contradict this.
RuleOK(r) ==
  /\ Turns(r)
  /\ Evaluable(r) => Now(r).active = LastReported(r)
  /\ Silent(r) => ~Now(r).active
  /\ ~Evaluable(r) => Now(r).age = NoAge
  /\ Now(r).age # NoAge => contra[r] >= Now(r).age

IInv ==
  /\ TypeOK
  /\ table = stored
  /\ \A k \in Kpz, r \in Rules : worker[k] # NoWorker /\ Owner[r] # k => worker[k].out[r] = <<>>
  /\ \A r \in Rules : RuleOK(r)

LEMMA JobType ==
  ASSUME TypeOK, NEW k \in Kpz, worker[k] # NoWorker
  PROVE  worker[k] \in Job
BY DEF TypeOK, Job

LEMMA NowType == ASSUME TypeOK, NEW r \in Rules PROVE Now(r) \in State
<1>1. Owner[r] \in Kpz  BY AlarmsAssumption
<1>2. runtime[r] \in State  BY DEF TypeOK
<1>3. worker[Owner[r]] # NoWorker => worker[Owner[r]].rt[r] \in State
  BY <1>1, JobType DEF Job
<1> QED BY <1>2, <1>3 DEF Now

LEMMA NotAJob == ASSUME NEW j \in Job PROVE j # NoWorker
<1>1. State \subseteq [active : BOOLEAN, age : Int] /\ 0 .. MaxReads \subseteq Nat
  BY AlarmsAssumption DEF State, Ages, NoAge
<1>2. j \in [rt : [Rules -> [active : BOOLEAN, age : Int]], out : [Rules -> Seq(BOOLEAN)], reads : Nat]
  BY <1>1 DEF Job
<1> QED BY <1>2, AlarmsAssumption

LEMMA DefaultType == Default \in State /\ NoAge \in Ages /\ 0 \in Ages
BY AlarmsAssumption DEF Default, State, Ages, NoAge

LEMMA InitOK == Init => IInv
<1> SUFFICES ASSUME Init PROVE IInv  OBVIOUS
<1>1. sent = <<>> /\ Len(sent) = 0 /\ DOMAIN sent = {} /\ sent \in Deltas  BY DEF Init, Deltas
<1>2. TypeOK
  <2>1. runtime \in [Rules -> State] /\ contra \in [Rules -> Ages]  BY DefaultType DEF Init
  <2>2. sent \in Seq([Rules -> Seq(BOOLEAN)]) /\ Len(sent) <= MaxSent
    BY <1>1, AlarmsAssumption DEF Deltas
  <2>3. edits \in 0 .. MaxEdits /\ losses \in 0 .. MaxLosses  BY AlarmsAssumption DEF Init
  <2>4. val \in [Kpz -> Values] /\ enabled \in BOOLEAN
        /\ rows \in [Rules -> Cfgs \cup {Off}] /\ rules \in [Rules -> Cfgs \cup {Off}]
        /\ table \in [Rules -> BOOLEAN \cup {NoRow}] /\ stored \in [Rules -> BOOLEAN \cup {NoRow}]
    BY DEF Init
  <2>5. worker \in [Kpz -> [rt : [Rules -> State], out : [Rules -> Seq(BOOLEAN)], reads : 0 .. MaxReads]
                           \cup {NoWorker}]
    BY DEF Init
  <2> QED BY <2>1, <2>2, <2>3, <2>4, <2>5 DEF TypeOK
<1>3. ASSUME NEW r \in Rules PROVE RuleOK(r)
  <2>1. Owner[r] \in Kpz  BY AlarmsAssumption
  <2>2. worker[Owner[r]] = NoWorker /\ runtime[r] = Default /\ stored[r] = NoRow /\ ~enabled
    BY <2>1 DEF Init
  <2>3. Now(r).active = FALSE /\ Now(r).age = NoAge  BY <2>2 DEF Now, Default
  <2> QED BY <1>1, <2>2, <2>3 DEF RuleOK, Turns, Evaluable
<1>4. \A k \in Kpz : worker[k] = NoWorker  BY DEF Init
<1> QED BY <1>2, <1>3, <1>4 DEF Init, IInv

-----------------------------------------------------------------------------
(* Evaluation of a rule *)

LEMMA EvaluatedIs ==
  ASSUME NEW r \in Rules, NEW s \in State, NEW v \in Int, rules[r] \in Cfgs
  PROVE  LET e == Evaluated(r, s, v)
             d == ShouldBeActive(rules[r], v, s.active)
         IN  /\ e \in State
             /\ \/ d = s.active /\ e.active = s.active /\ e.age = NoAge
                \/ d # s.active /\ e.active = s.active /\ e.age = IF s.age = NoAge THEN 0 ELSE s.age
                \/ /\ d # s.active /\ e.active = ~s.active /\ e.age = NoAge
                   /\ s.age # NoAge /\ s.age >= Wait(rules[r], e.active)
<1> DEFINE d == ShouldBeActive(rules[r], v, s.active)
<1>1. d \in BOOLEAN
  <2> DEFINE c == rules[r]
  <2>1. d = ShouldBeActive(c, v, s.active)  OBVIOUS
  <2> HIDE DEF c, d
  <2> DEFINE lo == Lower(c) + Hold(c, s.active)
             hi == Upper(c) - Hold(c, s.active)
             bottom == Lo(c)
             top == Hi(c)
  <2>2. d = CASE c.cmp = "lt" -> v < lo
              [] c.cmp = "le" -> v <= lo
              [] c.cmp = "gt" -> v > hi
              [] c.cmp = "ge" -> v >= hi
              [] c.cmp = "between" -> v >= bottom /\ v <= top
              [] c.cmp = "outside" -> v < bottom \/ v > top
              [] OTHER -> FALSE
    BY <2>1 DEF ShouldBeActive
  <2> HIDE DEF lo, hi, bottom, top
  <2>3. CASE c.cmp = "lt"  BY <2>2, <2>3
  <2>4. CASE c.cmp = "le"  BY <2>2, <2>4
  <2>5. CASE c.cmp = "gt"  BY <2>2, <2>5
  <2>6. CASE c.cmp = "ge"  BY <2>2, <2>6
  <2>7. CASE c.cmp = "between"  BY <2>2, <2>7
  <2>8. CASE c.cmp = "outside"  BY <2>2, <2>8
  <2>9. CASE c.cmp \notin {"lt", "le", "gt", "ge", "between", "outside"}  BY <2>2, <2>9
  <2> QED BY <2>3, <2>4, <2>5, <2>6, <2>7, <2>8, <2>9
<1>7. Wait(rules[r], d) \in Int
  <2>1. rules[r].on \in Int /\ rules[r].off \in Int  BY AlarmsAssumption
  <2> QED BY <2>1 DEF Wait
<1>2. s.active \in BOOLEAN /\ s.age \in Ages /\ s.age \in Int  BY DEF State, Ages, NoAge
<1> HIDE DEF d
<1> DEFINE e == Evaluated(r, s, v)
<1>3. CASE d = s.active
  <2>1. e = [s EXCEPT !.age = NoAge]  BY <1>3 DEF Evaluated, Agreed, d
  <2>2. e \in State /\ e.active = s.active /\ e.age = NoAge  BY <2>1, DefaultType DEF State
  <2> HIDE DEF e
  <2> QED BY <1>3, <2>2 DEF d, e
<1>4. CASE d # s.active /\ s.age = NoAge
  <2>1. e = [s EXCEPT !.age = 0]  BY <1>4 DEF Evaluated, d
  <2>2. e \in State /\ e.active = s.active /\ e.age = 0  BY <2>1, DefaultType DEF State
  <2> HIDE DEF e
  <2> QED BY <1>4, <2>2 DEF d, e
<1>5. CASE d # s.active /\ s.age # NoAge /\ s.age < Wait(rules[r], d)
  <2>1. e = s  BY <1>5 DEF Evaluated, d
  <2> HIDE DEF e
  <2> QED BY <1>5, <2>1 DEF d, e
<1>6. CASE d # s.active /\ s.age # NoAge /\ ~(s.age < Wait(rules[r], d))
  <2>1. e = [active |-> d, age |-> NoAge]  BY <1>6 DEF Evaluated, d
  <2>2. e \in State /\ e.active = d /\ e.age = NoAge  BY <1>1, <2>1, DefaultType DEF State
  <2>3. d = ~s.active  BY <1>1, <1>2, <1>6
  <2>4. s.age >= Wait(rules[r], d)  BY <1>2, <1>6, <1>7
  <2> HIDE DEF e
  <2> QED BY <1>6, <2>2, <2>3, <2>4 DEF d, e
<1> QED BY <1>3, <1>4, <1>5, <1>6

-----------------------------------------------------------------------------
(* Steps that report nothing *)

SameReports ==
  /\ sent' = sent /\ stored' = stored
  /\ \A k \in Kpz : /\ worker'[k] = NoWorker <=> worker[k] = NoWorker
                    /\ worker[k] # NoWorker => worker'[k].out = worker[k].out

LEMMA ReportsKept ==
  ASSUME SameReports, NEW r \in Rules
  PROVE  /\ Turns(r)' <=> Turns(r)
         /\ LastReported(r)' = LastReported(r)
         /\ Silent(r)' <=> Silent(r)
<1>1. Owner[r] \in Kpz  BY AlarmsAssumption
<1>2. Reported(r, Len(sent))' = Reported(r, Len(sent))
      /\ \A i \in DOMAIN sent : Reported(r, i - 1)' = Reported(r, i - 1)
  BY DEF SameReports, Reported
<1>3. Silent(r)' <=> Silent(r)  BY <1>1 DEF SameReports, Silent
<1>4. Turns(r)' <=> Turns(r)  BY <1>1, <1>2 DEF SameReports, Turns
<1>5. LastReported(r)' = LastReported(r)  BY <1>1, <1>2 DEF SameReports, LastReported
<1> QED BY <1>3, <1>4, <1>5

LEMMA FrameOK ==
  ASSUME IInv, TypeOK', UNCHANGED <<enabled, rules, runtime, worker, sent, table, stored, contra>>
  PROVE  IInv'
<1>1. SameReports  BY DEF SameReports
<1>2. ASSUME NEW r \in Rules PROVE RuleOK(r)'
  <2>1. RuleOK(r)  BY DEF IInv
  <2>2. Now(r)' = Now(r)  BY DEF Now
  <2> QED BY <1>1, <2>1, <2>2, ReportsKept DEF RuleOK, Evaluable
<1> QED BY <1>2 DEF IInv

LEMMA OutsideOK ==
  ASSUME IInv, \/ \E k \in Kpz, v \in Values : SetValue(k, v)
               \/ \E r \in Rules, c \in Cfgs \cup {Off} : Edit(r, c)
               \/ UNCHANGED vars
  PROVE  IInv'
<1>1. CASE \E k \in Kpz, v \in Values : SetValue(k, v)
  <2>1. val' \in [Kpz -> Values]  BY <1>1 DEF IInv, TypeOK, SetValue
  <2>2. TypeOK'  BY <1>1, <2>1 DEF IInv, TypeOK, SetValue
  <2> QED BY <1>1, <2>2, FrameOK DEF SetValue
<1>2. CASE \E r \in Rules, c \in Cfgs \cup {Off} : Edit(r, c)
  <2>1. rows' \in [Rules -> Cfgs \cup {Off}]  BY <1>2 DEF IInv, TypeOK, Edit
  <2>2. edits' \in 0 .. MaxEdits  BY <1>2, AlarmsAssumption DEF IInv, TypeOK, Edit
  <2>3. TypeOK'  BY <1>2, <2>1, <2>2 DEF IInv, TypeOK, Edit
  <2> QED BY <1>2, <2>3, FrameOK DEF Edit
<1>3. CASE UNCHANGED vars
  <2>1. TypeOK'  BY <1>3 DEF IInv, TypeOK, vars
  <2> QED BY <1>3, <2>1, FrameOK DEF vars
<1> QED BY <1>1, <1>2, <1>3

LEMMA OlderOK ==
  /\ \A a \in Ages : Older(a) \in Ages /\ (Older(a) = NoAge <=> a = NoAge)
  /\ \A a, b \in Ages : a >= b => Older(a) >= Older(b)
BY AlarmsAssumption DEF Ages, Older, NoAge

LEMMA OlderStatesOK ==
  ASSUME NEW f \in [Rules -> State]
  PROVE  /\ OlderStates(f) \in [Rules -> State]
         /\ \A r \in Rules : /\ OlderStates(f)[r].active = f[r].active
                             /\ OlderStates(f)[r].age = Older(f[r].age)
BY OlderOK DEF OlderStates, State

LEMMA TickOK == ASSUME IInv, Tick PROVE IInv'
<1>1. TypeOK  BY DEF IInv
<1>2. ASSUME NEW k \in Kpz, worker[k] # NoWorker
      PROVE  /\ worker'[k] \in Job /\ worker'[k] # NoWorker /\ worker'[k].out = worker[k].out
             /\ worker'[k].rt = OlderStates(worker[k].rt)
  <2>1. worker[k] \in Job  BY <1>1, <1>2, JobType
  <2>2. worker'[k] = [worker[k] EXCEPT !.rt = OlderStates(@)]  BY <1>2 DEF Tick
  <2>3. OlderStates(worker[k].rt) \in [Rules -> State]  BY <2>1, OlderStatesOK DEF Job
  <2>4. worker'[k] \in Job /\ worker'[k].out = worker[k].out /\ worker'[k].rt = OlderStates(worker[k].rt)
    BY <2>1, <2>2, <2>3 DEF Job
  <2> QED BY <2>4, NotAJob
<1>3. \A k \in Kpz : worker[k] = NoWorker => worker'[k] = NoWorker  BY DEF Tick
<1>4. worker' \in [Kpz -> Job \cup {NoWorker}]
  <2>1. worker' = [k \in Kpz |-> worker'[k]]  BY DEF Tick
  <2> QED BY <1>2, <1>3, <2>1
<1>5. runtime' \in [Rules -> State]  BY <1>1, OlderStatesOK DEF Tick, TypeOK
<1>6. contra' \in [Rules -> Ages]  BY <1>1, OlderOK DEF Tick, TypeOK
<1>7. TypeOK'  BY <1>1, <1>4, <1>5, <1>6 DEF Tick, TypeOK, Job
<1>8. SameReports  BY <1>2, <1>3 DEF Tick, SameReports
<1>9. ASSUME NEW r \in Rules PROVE RuleOK(r)'
  <2>1. Owner[r] \in Kpz  BY AlarmsAssumption
  <2>2. Now(r)'.active = Now(r).active /\ Now(r)'.age = Older(Now(r).age)
    <3>1. CASE worker[Owner[r]] = NoWorker
      <4>1. worker'[Owner[r]] = NoWorker  BY <1>3, <2>1, <3>1
      <4>2. runtime' = OlderStates(runtime) /\ runtime \in [Rules -> State]  BY <1>1 DEF Tick, TypeOK
      <4> QED BY <3>1, <4>1, <4>2, OlderStatesOK DEF Now
    <3>2. CASE worker[Owner[r]] # NoWorker
      <4>1. worker[Owner[r]].rt \in [Rules -> State]  BY <1>1, <2>1, <3>2, JobType DEF Job
      <4> QED BY <1>2, <2>1, <3>2, <4>1, OlderStatesOK DEF Now
    <3> QED BY <3>1, <3>2
  <2>3. RuleOK(r)  BY DEF IInv
  <2>4. Now(r).age \in Ages /\ contra[r] \in Ages  BY <1>1, NowType DEF TypeOK, State
  <2>5. contra'[r] = Older(contra[r]) /\ UNCHANGED <<enabled, rules>>  BY DEF Tick
  <2>6. Now(r)'.age # NoAge => contra'[r] >= Now(r)'.age
    BY <2>2, <2>3, <2>4, <2>5, OlderOK DEF RuleOK
  <2>7. ~Evaluable(r)' => Now(r)'.age = NoAge
    BY <2>2, <2>3, <2>4, <2>5, OlderOK DEF RuleOK, Evaluable
  <2>8. Evaluable(r)' <=> Evaluable(r)  BY <2>5 DEF Evaluable
  <2> QED BY <1>8, <2>2, <2>3, <2>6, <2>7, <2>8, ReportsKept DEF RuleOK
<1>10. \A k \in Kpz, r \in Rules : worker'[k] # NoWorker /\ Owner[r] # k => worker'[k].out[r] = <<>>
  BY <1>2, <1>3 DEF IInv
<1>11. table' = stored'  BY DEF IInv, Tick
<1> QED BY <1>7, <1>9, <1>10, <1>11 DEF IInv

LEMMA SpawnOK == ASSUME IInv, NEW k \in Kpz, Spawn(k) PROVE IInv'
<1> DEFINE j == [rt |-> runtime, out |-> NoTransition, reads |-> 0]
<1>1. TypeOK /\ worker[k] = NoWorker  BY DEF IInv, Spawn
<1>2. NoTransition \in [Rules -> Seq(BOOLEAN)] /\ \A r \in Rules : NoTransition[r] = <<>>
  BY DEF NoTransition
<1>3. j \in Job  BY <1>1, <1>2, AlarmsAssumption DEF Job, TypeOK
<1>4. j # NoWorker  BY <1>3, NotAJob
<1>5. worker' = [worker EXCEPT ![k] = j]
      /\ UNCHANGED <<val, rows, edits, losses, enabled, rules, runtime, sent, table, stored, contra>>
  BY DEF Spawn
<1>6. j.rt = runtime /\ j.out = NoTransition  OBVIOUS
<1> HIDE DEF j
<1>7. worker' \in [Kpz -> Job \cup {NoWorker}] /\ worker'[k] = j /\ \A x \in Kpz \ {k} : worker'[x] = worker[x]
  BY <1>1, <1>3, <1>5 DEF TypeOK, Job
<1>8. TypeOK'  BY <1>1, <1>5, <1>7 DEF TypeOK, Job
<1>9. ASSUME NEW r \in Rules PROVE RuleOK(r)'
  <2>1. RuleOK(r) /\ Owner[r] \in Kpz  BY AlarmsAssumption DEF IInv
  <2>2. CASE Owner[r] # k
    <3>1. worker'[Owner[r]] = worker[Owner[r]]  BY <1>7, <2>1, <2>2
    <3> QED BY <1>5, <2>1, <3>1
            DEF RuleOK, Turns, Evaluable, Now, LastReported, Reported, Silent
  <2>3. CASE Owner[r] = k
    <3>1. worker[Owner[r]] = NoWorker /\ worker'[Owner[r]] # NoWorker
          /\ worker'[Owner[r]].rt = runtime /\ worker'[Owner[r]].out[r] = <<>>
      BY <1>1, <1>2, <1>4, <1>6, <1>7, <2>3
    <3>2. Now(r)' = Now(r)  BY <1>5, <3>1 DEF Now
    <3>3. LastReported(r)' = LastReported(r)  BY <1>5, <3>1 DEF LastReported, Reported
    <3>4. Turns(r)'  BY <1>5, <2>1, <3>1 DEF RuleOK, Turns, TakeTurns, Reported
    <3>5. Silent(r)' <=> Silent(r)  BY <1>5, <3>1 DEF Silent
    <3> QED BY <1>5, <2>1, <3>2, <3>3, <3>4, <3>5 DEF RuleOK, Evaluable
  <2> QED BY <2>2, <2>3
<1>10. \A x \in Kpz, r \in Rules : worker'[x] # NoWorker /\ Owner[r] # x => worker'[x].out[r] = <<>>
  BY <1>2, <1>6, <1>7 DEF IInv
<1> QED BY <1>5, <1>8, <1>9, <1>10 DEF IInv

-----------------------------------------------------------------------------
(* The reload and the loss of everything, between the drains *)

LEMMA NoneSent ==
  ASSUME IInv, sent = <<>>, NEW r \in Rules
  PROVE  Reported(r, Len(sent)) = (stored[r] # NoRow /\ stored[r])
<1>1. Having(sent, r, 0) = {} /\ Len(sent) = 0  BY DEF Having
<1> QED BY <1>1, LastInIs DEF Reported

\* Between the drains a rule is quiet: nothing of it is under way.
LEMMA QuietRule ==
  ASSUME IInv, NoneRuns, sent = <<>>, NEW r \in Rules
  PROVE  /\ worker[Owner[r]] = NoWorker /\ Now(r) = runtime[r]
         /\ LastReported(r) = (stored[r] # NoRow /\ stored[r])
         /\ stored[r] = NoRow => ~runtime[r].active
<1>1. Owner[r] \in Kpz  BY AlarmsAssumption
<1>2. worker[Owner[r]] = NoWorker  BY <1>1 DEF NoneRuns
<1>3. Now(r) = runtime[r]  BY <1>2 DEF Now
<1>4. LastReported(r) = (stored[r] # NoRow /\ stored[r])  BY <1>2, NoneSent DEF LastReported
<1>5. stored[r] = NoRow => ~runtime[r].active
  <2>1. RuleOK(r)  BY DEF IInv
  <2> QED BY <1>2, <1>3, <2>1 DEF RuleOK, Silent
<1> QED BY <1>2, <1>3, <1>4, <1>5

LEMMA ReloadOK == ASSUME KeepsUp, IInv, Reload PROVE IInv'
<1>1. NoneRuns /\ sent = <<>> /\ TypeOK /\ table = stored  BY DEF Reload, IInv
<1>2. ASSUME NEW r \in Rules PROVE runtime'[r] \in State
  <2>1. runtime[r] \in State /\ table[r] \in BOOLEAN \cup {NoRow}  BY <1>1 DEF TypeOK
  <2>2. Loaded(r) \in State  BY <2>1 DEF Loaded, State
  <2> QED BY <2>2, DefaultType DEF Reload
<1>3. TypeOK'
  <2>1. runtime' \in [Rules -> State]  BY <1>2 DEF Reload
  <2> QED BY <1>1, <2>1 DEF Reload, TypeOK
<1>4. SameReports  BY DEF Reload, SameReports
<1>5. ASSUME NEW r \in Rules PROVE RuleOK(r)'
  <2>1. RuleOK(r) /\ Owner[r] \in Kpz /\ runtime[r] \in State /\ table[r] \in BOOLEAN \cup {NoRow}
    BY <1>1, AlarmsAssumption DEF IInv, TypeOK
  <2>2. Now(r)' = runtime'[r] /\ Now(r) = runtime[r]
    BY <1>1, QuietRule DEF Reload, Now
  <2>3. LastReported(r)' = (stored[r] # NoRow /\ stored[r])
    BY <1>1, <1>4, QuietRule, ReportsKept
  <2>4. rules'[r] = rows[r] /\ enabled' = TRUE /\ contra' = contra  BY DEF Reload
  <2>5. CASE rows[r] = Off
    <3>1. runtime'[r] = Default  BY <2>5 DEF Reload
    <3> QED BY <1>4, <2>1, <2>2, <2>4, <2>5, <3>1, ReportsKept DEF RuleOK, Evaluable, Default
  <2>6. CASE rows[r] # Off
    <3>1. runtime'[r] = Loaded(r)  BY <2>6 DEF Reload
    <3>2. Loaded(r).age = runtime[r].age  BY <2>1 DEF Loaded, State
    <3>3. Loaded(r).active = (stored[r] # NoRow /\ stored[r])
      <4>1. CASE table[r] = NoRow
        <5>1. Loaded(r) = runtime[r] /\ ~runtime[r].active /\ runtime[r].active \in BOOLEAN
          BY <1>1, <2>1, <4>1, QuietRule DEF Loaded, State
        <5> QED BY <1>1, <4>1, <5>1
      <4>2. CASE table[r] # NoRow
        <5>1. Loaded(r).active = table[r]  BY <2>1, <4>2 DEF Loaded, State
        <5> QED BY <1>1, <2>1, <4>2, <5>1
      <4> QED BY <4>1, <4>2
    <3>4. Silent(r) => stored[r] = NoRow  BY DEF Silent
    <3> QED BY <1>4, <2>1, <2>2, <2>3, <2>4, <2>6, <3>1, <3>2, <3>3, <3>4, ReportsKept
            DEF RuleOK, Evaluable
  <2> QED BY <2>5, <2>6
<1>6. \A k \in Kpz, r \in Rules : worker'[k] # NoWorker /\ Owner[r] # k => worker'[k].out[r] = <<>>
  BY DEF IInv, Reload
<1> QED BY <1>1, <1>3, <1>5, <1>6 DEF IInv, Reload

LEMMA LoseOK == ASSUME IInv, Lose PROVE IInv'
<1>1. NoneRuns /\ TypeOK /\ table = stored  BY DEF Lose, IInv
<1>2. TypeOK'
  <2>1. runtime' \in [Rules -> State]  BY DefaultType DEF Lose
  <2>2. losses' \in 0 .. MaxLosses  BY <1>1, AlarmsAssumption DEF Lose, TypeOK
  <2>3. rules' \in [Rules -> Cfgs \cup {Off}]  BY DEF Lose
  <2> QED BY <1>1, <2>1, <2>2, <2>3 DEF Lose, TypeOK
<1>3. SameReports  BY DEF Lose, SameReports
<1>4. ASSUME NEW r \in Rules PROVE RuleOK(r)'
  <2>1. RuleOK(r) /\ Owner[r] \in Kpz  BY AlarmsAssumption DEF IInv
  <2>2. Now(r)' = Default  BY <1>1, <2>1 DEF Lose, Now, NoneRuns
  <2>3. ~Evaluable(r)'  BY DEF Lose, Evaluable
  <2>4. Now(r)'.active = FALSE /\ Now(r)'.age = NoAge  BY <2>2 DEF Default
  <2> QED BY <1>3, <2>1, <2>3, <2>4, ReportsKept DEF RuleOK
<1>5. \A k \in Kpz, r \in Rules : worker'[k] # NoWorker /\ Owner[r] # k => worker'[k].out[r] = <<>>
  BY DEF IInv, Lose
<1> QED BY <1>1, <1>2, <1>4, <1>5 DEF IInv, Lose

-----------------------------------------------------------------------------
(* A job reads and evaluates *)

\* What a job makes of a rule at a reading.
ReadRule(k, r) ==
  /\ worker'[k].rt[r] = IF Evaluates(k, r) THEN Evaluated(r, worker[k].rt[r], val[k]) ELSE worker[k].rt[r]
  /\ worker'[k].out[r] = IF Fires(k, r) THEN Append(worker[k].out[r], ~worker[k].rt[r].active)
                         ELSE worker[k].out[r]

LEMMA ReadType ==
  ASSUME IInv, NEW k \in Kpz, Read(k)
  PROVE  /\ worker[k] \in Job /\ worker[k] # NoWorker
         /\ worker'[k] \in Job /\ worker'[k] # NoWorker
         /\ \A x \in Kpz \ {k} : worker'[x] = worker[x]
         /\ \A r \in Rules : ReadRule(k, r)
         /\ worker' \in [Kpz -> Job \cup {NoWorker}]
<1>1. TypeOK /\ worker[k] # NoWorker /\ worker[k].reads < MaxReads  BY DEF Read, IInv
<1>2. worker[k] \in Job  BY <1>1, JobType
<1> DEFINE rt == [r \in Rules |-> IF Evaluates(k, r) THEN Evaluated(r, worker[k].rt[r], val[k])
                                  ELSE worker[k].rt[r]]
           out == [r \in Rules |-> IF Fires(k, r) THEN Append(worker[k].out[r], ~worker[k].rt[r].active)
                                   ELSE worker[k].out[r]]
           j == [rt |-> rt, out |-> out, reads |-> worker[k].reads + 1]
<1>3. worker' = [worker EXCEPT ![k] = j]  BY <1>1 DEF Read, TypeOK
<1>4. ASSUME NEW r \in Rules PROVE rt[r] \in State /\ out[r] \in Seq(BOOLEAN)
  <2>1. worker[k].rt[r] \in State /\ worker[k].out[r] \in Seq(BOOLEAN)  BY <1>2 DEF Job
  <2>2. worker[k].rt[r].active \in BOOLEAN  BY <2>1 DEF State
  <2>3. val[k] \in Int  BY <1>1, AlarmsAssumption DEF TypeOK
  <2>4. Evaluates(k, r) => rules[r] \in Cfgs  BY <1>1 DEF Evaluates, TypeOK
  <2>5. Evaluates(k, r) => Evaluated(r, worker[k].rt[r], val[k]) \in State
    BY <2>1, <2>3, <2>4, EvaluatedIs
  <2>6. Append(worker[k].out[r], ~worker[k].rt[r].active) \in Seq(BOOLEAN)  BY <2>1, <2>2
  <2> QED BY <2>1, <2>5, <2>6
<1>5. worker[k].reads + 1 \in 0 .. MaxReads  BY <1>1, <1>2, AlarmsAssumption DEF Job
<1>6. rt \in [Rules -> State] /\ out \in [Rules -> Seq(BOOLEAN)]  BY <1>4
<1>7. \A r \in Rules : /\ rt[r] = IF Evaluates(k, r) THEN Evaluated(r, worker[k].rt[r], val[k])
                                  ELSE worker[k].rt[r]
                       /\ out[r] = IF Fires(k, r) THEN Append(worker[k].out[r], ~worker[k].rt[r].active)
                                   ELSE worker[k].out[r]
  OBVIOUS
<1> HIDE DEF rt, out
<1>8. j \in Job /\ j.rt = rt /\ j.out = out  BY <1>5, <1>6 DEF Job
<1> HIDE DEF j
<1>9. worker'[k] = j /\ \A x \in Kpz \ {k} : worker'[x] = worker[x]  BY <1>1, <1>3 DEF TypeOK
<1>10. worker' \in [Kpz -> Job \cup {NoWorker}]  BY <1>1, <1>3, <1>8 DEF TypeOK, Job
<1>11. j # NoWorker  BY <1>8, NotAJob
<1> QED BY <1>1, <1>2, <1>7, <1>8, <1>9, <1>10, <1>11 DEF ReadRule

\* An evaluation and the rule: the state stays what was reported last, and a
\* transition follows a series at least as old as its delay.
LEMMA ReadRuleOK ==
  ASSUME IInv, NEW k \in Kpz, Read(k), NEW r \in Rules, Owner[r] = k
  PROVE  /\ RuleOK(r)'
         /\ worker'[k].out[r] # worker[k].out[r] =>
              contra[r] >= Wait(rules[r], Last(worker'[k].out[r]))
<1> DEFINE s == worker[k].rt[r]
           t == worker'[k].rt[r]
           o == worker[k].out[r]
           p == worker'[k].out[r]
<1>1. RuleOK(r) /\ TypeOK  BY DEF IInv
<1>2. worker[k] # NoWorker /\ worker'[k] # NoWorker /\ s \in State /\ t \in State
      /\ o \in Seq(BOOLEAN) /\ p \in Seq(BOOLEAN) /\ ReadRule(k, r)
  BY ReadType DEF Job
<1>3. UNCHANGED <<enabled, rules, sent, stored, table>>  BY DEF Read
<1>4. Now(r) = s /\ Now(r)' = t  BY <1>2 DEF Now
<1> DEFINE last == LastReported(r)
<1>5. last = IF o = <<>> THEN Reported(r, Len(sent)) ELSE Last(o)  BY <1>2 DEF LastReported
<1>6. LastReported(r)' = IF p = <<>> THEN Reported(r, Len(sent)) ELSE Last(p)
  BY <1>2, <1>3 DEF LastReported, Reported
<1>7. contra'[r] = IF ~Evaluates(k, r) \/ Fires(k, r) \/ ~Contradicts(r, val[k]) THEN NoAge
                   ELSE IF contra[r] = NoAge THEN 0 ELSE contra[r]
  BY DEF Read
<1>8. Evaluates(k, r) <=> Evaluable(r)  BY DEF Evaluates, Evaluable
<1>9. Evaluable(r)' <=> Evaluable(r)  BY <1>3 DEF Evaluable
<1>10. /\ \A i \in DOMAIN sent : TakeTurns(sent[i][r], Reported(r, i - 1))
       /\ TakeTurns(o, Reported(r, Len(sent)))
  BY <1>1, <1>2 DEF RuleOK, Turns
<1>11. Turns(r)' <=> TakeTurns(p, Reported(r, Len(sent)))
  BY <1>2, <1>3, <1>10 DEF Turns, Reported
<1>12. Silent(r)' => p = <<>> /\ (o = <<>> => Silent(r))  BY <1>2, <1>3 DEF Silent
<1>13. contra[r] \in Ages /\ s.age \in Int /\ t.age \in Int /\ contra[r] \in Int
       /\ s.active \in BOOLEAN /\ t.active \in BOOLEAN
  BY <1>1, <1>2 DEF TypeOK, State, Ages, NoAge
<1>14. Fires(k, r) <=> Evaluates(k, r) /\ t.active # s.active
  BY <1>2 DEF Fires, ReadRule
<1>15. p = IF Fires(k, r) THEN Append(o, ~s.active) ELSE o  BY <1>2 DEF ReadRule
<1>16. t = IF Evaluates(k, r) THEN Evaluated(r, s, val[k]) ELSE s  BY <1>2 DEF ReadRule
<1>17. Contradicts(r, val[k]) <=> ShouldBeActive(rules[r], val[k], last) # last
  BY DEF Contradicts
<1>18. Evaluates(k, r) => s.active = last  BY <1>1, <1>4, <1>8 DEF RuleOK
<1>19. s.age # NoAge => contra[r] >= s.age  BY <1>1, <1>4 DEF RuleOK
<1>20. Silent(r) => ~s.active  BY <1>1, <1>4 DEF RuleOK
<1>21. Evaluates(k, r) => rules[r] \in Cfgs /\ val[k] \in Int
  BY <1>1, AlarmsAssumption DEF Evaluates, TypeOK
<1> HIDE DEF s, t, o, p, last
<1>22. CASE ~Evaluates(k, r)
  <2>1. t = s /\ p = o  BY <1>14, <1>15, <1>16, <1>22
  <2>2. s.age = NoAge  BY <1>1, <1>4, <1>8, <1>22 DEF RuleOK
  <2>3. RuleOK(r)'
    BY <1>4, <1>8, <1>9, <1>10, <1>11, <1>12, <1>20, <1>22, <2>1, <2>2 DEF RuleOK
  <2> QED BY <2>1, <2>3 DEF o, p
<1>23. CASE Evaluates(k, r) /\ ~Fires(k, r)
  <2>1. p = o /\ t.active = s.active  BY <1>14, <1>15, <1>23
  <2>2. LastReported(r)' = last  BY <1>5, <1>6, <2>1
  <2>3. t.age # NoAge => contra'[r] >= t.age
    <3> SUFFICES ASSUME t.age # NoAge PROVE contra'[r] >= t.age  OBVIOUS
    <3>1. t = Evaluated(r, s, val[k])  BY <1>16, <1>23
    <3>2. /\ ShouldBeActive(rules[r], val[k], s.active) # s.active
          /\ t.age = IF s.age = NoAge THEN 0 ELSE s.age
      BY <1>2, <1>21, <1>23, <2>1, <3>1, EvaluatedIs DEF s
    <3>3. Contradicts(r, val[k])  BY <1>17, <1>18, <1>23, <3>2
    <3>4. contra'[r] = IF contra[r] = NoAge THEN 0 ELSE contra[r]  BY <1>7, <1>23, <3>3
    <3>5. s.age \in Ages /\ contra[r] \in Ages  BY <1>2, <1>13 DEF State, s
    <3> QED BY <1>13, <1>19, <3>2, <3>4, <3>5 DEF Ages, NoAge
  <2>4. RuleOK(r)'
    BY <1>4, <1>8, <1>9, <1>10, <1>11, <1>12, <1>18, <1>20, <1>23, <2>1, <2>2, <2>3 DEF RuleOK
  <2> QED BY <2>1, <2>4 DEF o, p
<1>24. CASE Fires(k, r)
  <2>1. p = Append(o, ~s.active) /\ Evaluates(k, r) /\ t.active # s.active
    BY <1>14, <1>15, <1>24
  <2>2. t.active = ~s.active /\ t.age = NoAge /\ s.age # NoAge /\ s.age >= Wait(rules[r], t.active)
    <3>1. t = Evaluated(r, s, val[k])  BY <1>16, <2>1
    <3> QED BY <1>2, <1>21, <2>1, <3>1, EvaluatedIs DEF s
  <2>3. p # <<>> /\ Last(p) = ~s.active
    BY <1>2, <2>1 DEF Last, o
  <2>4. LastReported(r)' = t.active  BY <1>6, <2>2, <2>3
  <2>5. TakeTurns(p, Reported(r, Len(sent)))
    <3>1. o \in Seq(BOOLEAN) /\ Len(o) \in Nat  BY <1>2 DEF o
    <3>2. DOMAIN p = 1 .. Len(o) + 1 /\ p[Len(o) + 1] = ~s.active /\ \A i \in 1 .. Len(o) : p[i] = o[i]
      BY <2>1, <3>1
    <3>3. ASSUME NEW i \in DOMAIN p PROVE p[i] # IF i = 1 THEN Reported(r, Len(sent)) ELSE p[i - 1]
      <4>1. CASE i \in 1 .. Len(o)
        <5>1. o[i] # IF i = 1 THEN Reported(r, Len(sent)) ELSE o[i - 1]
          BY <1>10, <3>1, <4>1 DEF TakeTurns, o
        <5>2. i # 1 => i - 1 \in 1 .. Len(o)  BY <3>1, <4>1
        <5> QED BY <3>2, <4>1, <5>1, <5>2
      <4>2. CASE i = Len(o) + 1
        <5>1. s.active = last  BY <1>18, <2>1
        <5>2. CASE o = <<>>
          <6>1. i = 1 /\ last = Reported(r, Len(sent))  BY <1>5, <4>2, <5>2
          <6> QED BY <1>13, <3>2, <4>2, <5>1, <6>1 DEF s
        <5>3. CASE o # <<>>
          <6>1. Len(o) \in 1 .. Len(o) /\ i # 1 /\ i - 1 = Len(o)  BY <3>1, <4>2, <5>3
          <6>2. last = o[Len(o)]  BY <1>5, <5>3 DEF Last
          <6> QED BY <1>13, <3>2, <4>2, <5>1, <6>1, <6>2 DEF s
        <5> QED BY <5>2, <5>3
      <4> QED BY <3>1, <3>2, <4>1, <4>2
    <3> QED BY <3>3 DEF TakeTurns
  <2>6. RuleOK(r)'
    BY <1>4, <1>8, <1>9, <1>10, <1>11, <1>12, <2>1, <2>2, <2>3, <2>4, <2>5 DEF RuleOK
  <2>7. Wait(rules[r], t.active) \in Int
    <3>1. rules[r].on \in Int /\ rules[r].off \in Int  BY <1>21, <2>1, AlarmsAssumption
    <3> QED BY <3>1 DEF Wait
  <2>8. contra[r] >= Wait(rules[r], Last(p))  BY <1>13, <1>19, <2>2, <2>3, <2>7 DEF s
  <2> QED BY <2>6, <2>8 DEF p
<1> QED BY <1>14, <1>22, <1>23, <1>24

LEMMA ReadOK == ASSUME IInv, NEW k \in Kpz, Read(k) PROVE IInv'
<1>1. TypeOK  BY DEF IInv
<1>2. contra' \in [Rules -> Ages]
  <2>1. \A r \in Rules : contra[r] \in Ages  BY <1>1 DEF TypeOK
  <2> QED BY <2>1, DefaultType DEF Read
<1>3. worker' \in [Kpz -> Job \cup {NoWorker}]  BY ReadType
<1>4. TypeOK'  BY <1>1, <1>2, <1>3 DEF Read, TypeOK, Job
<1>5. \A x \in Kpz \ {k} : worker'[x] = worker[x]  BY ReadType
<1>6. ASSUME NEW r \in Rules PROVE RuleOK(r)'
  <2>1. CASE Owner[r] = k  BY <2>1, ReadRuleOK
  <2>2. CASE Owner[r] # k
    <3>1. Owner[r] \in Kpz /\ RuleOK(r)  BY AlarmsAssumption DEF IInv
    <3>2. worker'[Owner[r]] = worker[Owner[r]] /\ contra'[r] = contra[r]
      BY <1>5, <2>2, <3>1 DEF Read
    <3> QED BY <3>1, <3>2
            DEF Read, RuleOK, Turns, Evaluable, Now, LastReported, Reported, Silent
  <2> QED BY <2>1, <2>2
<1>7. ASSUME NEW x \in Kpz, NEW r \in Rules, worker'[x] # NoWorker, Owner[r] # x
      PROVE  worker'[x].out[r] = <<>>
  <2>1. CASE x = k
    <3>1. ReadRule(k, r) /\ worker[k] # NoWorker  BY ReadType
    <3>2. ~Fires(k, r)  BY <1>7, <2>1 DEF Fires, Evaluates
    <3> QED BY <1>7, <2>1, <3>1, <3>2 DEF ReadRule, IInv
  <2>2. CASE x # k  BY <1>5, <1>7, <2>2 DEF IInv
  <2> QED BY <2>1, <2>2
<1> QED BY <1>4, <1>6, <1>7 DEF IInv, Read

-----------------------------------------------------------------------------
(* The end of a job, and the writer *)

LEMMA JobEndsOK == ASSUME IInv, NEW k \in Kpz, JobEnds(k) PROVE IInv'
<1> DEFINE j == worker[k]
           n == Len(sent)
<1>1. TypeOK /\ j # NoWorker /\ j \in Job  BY JobType DEF IInv, JobEnds
<1>2. sent \in Deltas /\ n \in Nat /\ j.out \in [Rules -> Seq(BOOLEAN)]
  BY <1>1 DEF TypeOK, Deltas, Job
<1>3. worker'[k] = NoWorker /\ \A x \in Kpz \ {k} : worker'[x] = worker[x]
  BY <1>1 DEF JobEnds, TypeOK
<1>4. UNCHANGED <<enabled, rules, table, stored, contra>>  BY DEF JobEnds
<1>5. \/ j.out = NoTransition /\ sent' = sent
      \/ sent' = Append(sent, j.out) /\ n < MaxSent
  BY DEF JobEnds, HasRoom
<1>6. TypeOK'
  <2>1. \A r \in Rules : j.rt[r] \in State /\ runtime[r] \in State  BY <1>1 DEF Job, TypeOK
  <2>2. runtime' \in [Rules -> State]  BY <2>1 DEF JobEnds
  <2>3. sent' \in Seq([Rules -> Seq(BOOLEAN)]) /\ Len(sent') <= MaxSent
    <3>1. sent \in Seq([Rules -> Seq(BOOLEAN)]) /\ Len(sent) <= MaxSent  BY <1>1 DEF TypeOK
    <3>2. CASE sent' = Append(sent, j.out) /\ n < MaxSent
      <4>1. sent' \in Seq([Rules -> Seq(BOOLEAN)])  BY <1>2, <3>1, <3>2
      <4>2. Len(sent') = n + 1  BY <1>2, <3>1, <3>2
      <4> QED BY <1>2, <3>2, <4>1, <4>2, AlarmsAssumption
    <3> QED BY <1>5, <3>1, <3>2
  <2>4. worker' \in [Kpz -> Job \cup {NoWorker}]  BY <1>1 DEF JobEnds, TypeOK, Job
  <2> QED BY <1>1, <2>2, <2>3, <2>4 DEF TypeOK, Job, JobEnds
<1>7. ASSUME NEW r \in Rules PROVE RuleOK(r)'
  <2> DEFINE first == stored[r] # NoRow /\ stored[r]
  <2>1. RuleOK(r) /\ Owner[r] \in Kpz  BY AlarmsAssumption DEF IInv
  <2>2. Owner[r] # k => j.out[r] = <<>>  BY <1>1 DEF IInv
  <2>3. Now(r)' = Now(r)
    <3>1. CASE Owner[r] = k
      <4>1. runtime'[r] = j.rt[r]  BY <3>1 DEF JobEnds
      <4> QED BY <1>1, <1>3, <3>1, <4>1 DEF Now
    <3>2. CASE Owner[r] # k
      <4>1. runtime'[r] = runtime[r]  BY <3>2 DEF JobEnds
      <4> QED BY <1>3, <2>1, <3>2, <4>1 DEF Now
    <3> QED BY <3>1, <3>2
  <2>4. CASE j.out = NoTransition /\ sent' = sent
    <3>1. j.out[r] = <<>>  BY <2>4 DEF NoTransition
    <3>2. Reported(r, Len(sent))' = Reported(r, Len(sent))
          /\ \A i \in DOMAIN sent : Reported(r, i - 1)' = Reported(r, i - 1)
      BY <1>4, <2>4 DEF Reported
    <3>3. LastReported(r)' = LastReported(r)
      BY <1>1, <1>3, <2>1, <3>1, <3>2 DEF LastReported
    <3>4. Turns(r)'  BY <1>3, <2>1, <2>4, <3>2 DEF RuleOK, Turns
    <3>5. Silent(r)' => Silent(r)  BY <1>3, <1>4, <2>1, <2>4, <3>1 DEF Silent
    <3> QED BY <1>4, <2>1, <2>3, <3>3, <3>4, <3>5 DEF RuleOK, Evaluable
  <2>5. CASE sent' = Append(sent, j.out)
    <3>1. Len(sent') = n + 1 /\ DOMAIN sent = 1 .. n /\ DOMAIN sent' = 1 .. n + 1
          /\ sent'[n + 1] = j.out /\ \A i \in 1 .. n : sent'[i] = sent[i]
      BY <1>2, <2>5 DEF Deltas
    <3>2. ASSUME NEW i \in 0 .. n PROVE LastIn(sent', r, i, first) = LastIn(sent, r, i, first)
      <4>1. i \in Nat /\ \A x \in 1 .. i : sent'[x][r] = sent[x][r]  BY <1>2, <3>1
      <4> QED BY <4>1, LastInSame
    <3>3. \A i \in 0 .. n : Reported(r, i)' = Reported(r, i)  BY <1>4, <3>2 DEF Reported
    <3>4. Reported(r, Len(sent))' = IF j.out[r] = <<>> THEN Reported(r, n) ELSE Last(j.out[r])
      <4>1. LastIn(sent', r, n + 1, first) =
              IF sent'[n + 1][r] = <<>> THEN LastIn(sent', r, n, first) ELSE Last(sent'[n + 1][r])
        BY <1>2, LastInOneMore
      <4>2. n \in 0 .. n  BY <1>2
      <4> QED BY <1>4, <3>1, <3>2, <4>1, <4>2 DEF Reported
    <3>5. LastReported(r)' = LastReported(r)
      <4>1. CASE Owner[r] = k  BY <1>1, <1>3, <3>4, <4>1 DEF LastReported
      <4>2. CASE Owner[r] # k
        <5>1. worker'[Owner[r]] = worker[Owner[r]] /\ Reported(r, Len(sent))' = Reported(r, n)
          BY <1>3, <2>1, <2>2, <3>4, <4>2
        <5> QED BY <5>1 DEF LastReported
      <4> QED BY <4>1, <4>2
    <3>6. Turns(r)'
      <4>1. ASSUME NEW i \in DOMAIN sent' PROVE TakeTurns(sent'[i][r], Reported(r, i - 1)')
        <5>1. CASE i \in 1 .. n
          <6>1. i - 1 \in 0 .. n  BY <1>2, <5>1
          <6> QED BY <2>1, <3>1, <3>3, <5>1, <6>1 DEF RuleOK, Turns
        <5>2. CASE i = n + 1
          <6>1. i - 1 = n /\ n \in 0 .. n  BY <1>2, <5>2
          <6>2. TakeTurns(j.out[r], Reported(r, n))
            <7>1. CASE Owner[r] = k  BY <1>1, <2>1, <7>1 DEF RuleOK, Turns
            <7>2. CASE Owner[r] # k  BY <2>2, <7>2 DEF TakeTurns
            <7> QED BY <7>1, <7>2
          <6> QED BY <3>1, <3>3, <5>2, <6>1, <6>2
        <5> QED BY <1>2, <3>1, <5>1, <5>2
      <4>2. ASSUME worker'[Owner[r]] # NoWorker
            PROVE  TakeTurns(worker'[Owner[r]].out[r], Reported(r, Len(sent))')
        <5>1. Owner[r] # k /\ worker'[Owner[r]] = worker[Owner[r]]  BY <1>3, <2>1, <4>2
        <5>2. Reported(r, Len(sent))' = Reported(r, n)  BY <2>2, <3>4, <5>1
        <5> QED BY <2>1, <4>2, <5>1, <5>2 DEF RuleOK, Turns
      <4> QED BY <4>1, <4>2 DEF Turns
    <3>7. Silent(r)' => Silent(r)
      <4> SUFFICES ASSUME Silent(r)' PROVE Silent(r)  OBVIOUS
      <4>1. j.out[r] = <<>>  BY <1>2, <3>1 DEF Silent
      <4>2. \A i \in DOMAIN sent : sent[i][r] = <<>>  BY <1>2, <3>1 DEF Silent
      <4>3. worker[Owner[r]] # NoWorker => worker[Owner[r]].out[r] = <<>>
        <5>1. CASE Owner[r] = k  BY <4>1, <5>1
        <5>2. CASE Owner[r] # k  BY <1>3, <2>1, <5>2 DEF Silent
        <5> QED BY <5>1, <5>2
      <4> QED BY <1>4, <4>2, <4>3 DEF Silent
    <3> QED BY <1>4, <2>1, <2>3, <3>5, <3>6, <3>7 DEF RuleOK, Evaluable
  <2> QED BY <1>5, <2>4, <2>5
<1>8. \A x \in Kpz, r \in Rules : worker'[x] # NoWorker /\ Owner[r] # x => worker'[x].out[r] = <<>>
  BY <1>3 DEF IInv
<1> QED BY <1>4, <1>6, <1>7, <1>8 DEF IInv

LEMMA FlushOK == ASSUME IInv, NEW n \in 1 .. MaxSent, Flush(n) PROVE IInv'
<1>1. TypeOK /\ sent \in Deltas /\ n \in 1 .. Len(sent) /\ Len(sent) \in Nat /\ n \in Nat
  BY AlarmsAssumption DEF IInv, TypeOK, Deltas, Flush
<1>2. UNCHANGED <<enabled, rules, runtime, worker, contra>> /\ sent' = SubSeq(sent, n + 1, Len(sent))
  BY DEF Flush
<1>3. Len(sent') = Len(sent) - n /\ DOMAIN sent' = 1 .. Len(sent) - n /\ sent' \in Deltas
      /\ \A i \in 1 .. Len(sent) - n : sent'[i] = sent[n + i]
  <2>1. n + 1 \in 1 .. Len(sent) + 1  BY <1>1
  <2>2. sent' \in Deltas /\ Len(sent') = Len(sent) - n  BY <1>1, <1>2, <2>1 DEF Deltas
  <2>3. ASSUME NEW i \in 1 .. Len(sent) - n PROVE sent'[i] = sent[n + i]
    BY <1>1, <1>2 DEF Deltas
  <2>4. DOMAIN sent' = 1 .. Len(sent')  BY <2>2 DEF Deltas
  <2> QED BY <2>2, <2>3, <2>4
<1>4. ASSUME NEW r \in Rules
      PROVE  /\ stored'[r] = LastIn(sent, r, n, stored[r]) /\ stored'[r] \in BOOLEAN \cup {NoRow}
             /\ table'[r] = stored'[r]
             /\ (stored'[r] # NoRow /\ stored'[r]) = LastIn(sent, r, n, stored[r] # NoRow /\ stored[r])
             /\ stored'[r] = NoRow => stored[r] = NoRow /\ \A i \in 1 .. n : sent[i][r] = <<>>
  <2>1. stored'[r] = LastIn(sent, r, n, stored[r]) /\ table'[r] = LastIn(sent, r, n, table[r])
    BY DEF Flush
  <2>2. stored[r] \in BOOLEAN \cup {NoRow} /\ table = stored  BY <1>1 DEF TypeOK, IInv
  <2>3. CASE Having(sent, r, n) = {}
    <3>1. \A f : LastIn(sent, r, n, f) = f  BY <1>1, <2>3, LastInIs
    <3>2. \A i \in 1 .. n : sent[i][r] = <<>>  BY <2>3 DEF Having
    <3> QED BY <2>1, <2>2, <3>1, <3>2
  <2>4. CASE Having(sent, r, n) # {}
    <3>1. Having(sent, r, n) \in SUBSET (1 .. n)  BY DEF Having
    <3>2. PICK x \in Having(sent, r, n) : \A y \in Having(sent, r, n) : x >= y
      BY <1>1, <2>4, <3>1, LastPlace
    <3>3. \A f : LastIn(sent, r, n, f) = Last(sent[x][r])  BY <1>1, <3>2, LastInIs
    <3>4. x \in 1 .. Len(sent) /\ sent[x][r] # <<>>  BY <1>1, <3>1, <3>2 DEF Having
    <3>5. sent[x] \in [Rules -> Seq(BOOLEAN)]  BY <1>1, <3>4 DEF Deltas
    <3>6. Last(sent[x][r]) \in BOOLEAN
      <4>1. sent[x][r] \in Seq(BOOLEAN)  BY <3>5
      <4> QED BY <3>4, <4>1 DEF Last
    <3> QED BY <2>1, <2>2, <3>3, <3>6, AlarmsAssumption
  <2> QED BY <2>3, <2>4
<1>5. TypeOK'
  <2>1. stored' = [r \in Rules |-> stored'[r]] /\ table' = [r \in Rules |-> table'[r]]  BY DEF Flush
  <2>2. stored' \in [Rules -> BOOLEAN \cup {NoRow}] /\ table' \in [Rules -> BOOLEAN \cup {NoRow}]
    BY <1>4, <2>1
  <2>3. Len(sent') <= MaxSent  BY <1>1, <1>3, AlarmsAssumption DEF TypeOK
  <2> QED BY <1>1, <1>3, <2>2, <2>3 DEF TypeOK, Flush, Deltas
<1>6. ASSUME NEW r \in Rules PROVE RuleOK(r)'
  <2> DEFINE first == stored[r] # NoRow /\ stored[r]
  <2>1. RuleOK(r)  BY DEF IInv
  <2>2. ASSUME NEW m \in 0 .. Len(sent) - n PROVE Reported(r, m)' = Reported(r, n + m)
    <3>1. (stored'[r] # NoRow /\ stored'[r]) = LastIn(sent, r, n, first)  BY <1>4
    <3>2. LastIn(sent', r, m, LastIn(sent, r, n, first)) = LastIn(sent, r, n + m, first)
      BY <1>1, <1>2, LastInRest
    <3> HIDE DEF first
    <3>3. Reported(r, m)' = LastIn(sent', r, m, stored'[r] # NoRow /\ stored'[r])  BY DEF Reported
    <3> QED BY <3>1, <3>2, <3>3 DEF Reported, first
  <2>3. Reported(r, Len(sent))' = Reported(r, Len(sent))
    <3>1. Len(sent) - n \in 0 .. Len(sent) - n /\ n + (Len(sent) - n) = Len(sent)  BY <1>1
    <3> QED BY <1>3, <2>2, <3>1
  <2>4. LastReported(r)' = LastReported(r)  BY <1>2, <2>3 DEF LastReported
  <2>5. Turns(r)'
    <3>1. ASSUME NEW i \in DOMAIN sent' PROVE TakeTurns(sent'[i][r], Reported(r, i - 1)')
      <4>1. i \in 1 .. Len(sent) - n  BY <1>3
      <4>2. i - 1 \in 0 .. Len(sent) - n /\ n + (i - 1) = (n + i) - 1 /\ n + i \in 1 .. Len(sent)
        BY <1>1, <4>1
      <4>3. TakeTurns(sent[n + i][r], Reported(r, (n + i) - 1))
        BY <1>1, <2>1, <4>2 DEF RuleOK, Turns, Deltas
      <4> QED BY <1>3, <2>2, <4>1, <4>2, <4>3
    <3> QED BY <1>2, <2>1, <2>3, <3>1 DEF RuleOK, Turns
  <2>6. Silent(r)' => Silent(r)
    <3> SUFFICES ASSUME Silent(r)' PROVE Silent(r)  OBVIOUS
    <3>1. stored[r] = NoRow /\ \A i \in 1 .. n : sent[i][r] = <<>>  BY <1>4 DEF Silent
    <3>2. ASSUME NEW i \in DOMAIN sent PROVE sent[i][r] = <<>>
      <4>1. CASE i \in 1 .. n  BY <3>1, <4>1
      <4>2. CASE i \notin 1 .. n
        <5>1. i - n \in 1 .. Len(sent) - n /\ n + (i - n) = i  BY <1>1, <4>2 DEF Deltas
        <5> QED BY <1>3, <5>1 DEF Silent
      <4> QED BY <4>1, <4>2
    <3> QED BY <1>2, <3>1, <3>2 DEF Silent
  <2>7. Now(r)' = Now(r)  BY <1>2 DEF Now
  <2> QED BY <1>2, <2>1, <2>4, <2>5, <2>6, <2>7 DEF RuleOK, Evaluable
<1>7. table' = stored'
  <2>1. table' = [r \in Rules |-> table'[r]] /\ stored' = [r \in Rules |-> stored'[r]]  BY DEF Flush
  <2> QED BY <1>4, <2>1
<1> QED BY <1>2, <1>5, <1>6, <1>7 DEF IInv

-----------------------------------------------------------------------------
(* The theorems *)

LEMMA NextOK == KeepsUp /\ IInv /\ [Next]_vars => IInv'
<1> SUFFICES ASSUME KeepsUp, IInv, [Next]_vars PROVE IInv'  OBVIOUS
<1> QED BY OutsideOK, TickOK, ReloadOK, LoseOK, SpawnOK, ReadOK, JobEndsOK, FlushOK DEF Next

\* If the writer keeps up with the reloads, what a rule is taken to be is at any
\* time what was reported of it last (alarm.rs 464-512, merge.rs 105-121,
\* state_sync.rs 661-740).
THEOREM Inductive == ASSUME KeepsUp PROVE Spec => []IInv
BY InitOK, NextOK, PTL DEF Spec

\* Then no transition is reported twice, across jobs, reloads, edits of the rule
\* and restarts (alarm.md 25; alarm.rs 464-512, state_sync.rs 686-694).
THEOREM TransitionsTakeTurns == ASSUME KeepsUp PROVE Spec => []EventsAlternate
<1>1. IInv => EventsAlternate  BY DEF IInv, EventsAlternate, RuleOK, Turns
<1> QED BY <1>1, Inductive, PTL

\* And none is reported before every reading over its delay contradicted what
\* was reported last (alarm.rs 477-492).
THEOREM DelaysAreHonoured == ASSUME KeepsUp PROVE Spec => DelayHonoured
<1> DEFINE Step == \A k \in Kpz, r \in Rules :
       (worker[k] # NoWorker /\ worker'[k] # NoWorker /\ worker'[k].out[r] # worker[k].out[r]) =>
         contra[r] >= Wait(rules[r], Last(worker'[k].out[r]))
<1>1. ASSUME IInv, [Next]_vars PROVE Step
  <2> SUFFICES ASSUME NEW k \in Kpz, NEW r \in Rules, worker[k] # NoWorker, worker'[k] # NoWorker,
                      worker'[k].out[r] # worker[k].out[r]
               PROVE  contra[r] >= Wait(rules[r], Last(worker'[k].out[r]))
    OBVIOUS
  <2>1. TypeOK  BY <1>1 DEF IInv
  <2>2. ~(worker'[k] = worker[k])  OBVIOUS
  <2>3. ~Tick
    <3> SUFFICES ASSUME Tick PROVE FALSE  OBVIOUS
    <3>1. worker'[k] = [worker[k] EXCEPT !.rt = OlderStates(@)]  BY DEF Tick
    <3> QED BY <2>1, <3>1, JobType DEF Job
  <2>4. \A x \in Kpz : (~Spawn(x) /\ ~JobEnds(x)) \/ x # k
    BY <2>1, <2>2 DEF Spawn, JobEnds, TypeOK
  <2>5. \A x \in Kpz \ {k} : ~Spawn(x) /\ ~JobEnds(x) /\ ~Read(x)
    BY <2>1, <2>2 DEF Spawn, JobEnds, Read, TypeOK
  <2>6. Read(k)
    BY <1>1, <2>2, <2>3, <2>4, <2>5 DEF Next, vars, SetValue, Edit, Reload, Lose, Flush
  <2>7. Owner[r] = k
    <3>1. ReadRule(k, r)  BY <1>1, <2>6, ReadType
    <3> QED BY <3>1 DEF ReadRule, Fires, Evaluates
  <2> QED BY <1>1, <2>6, <2>7, ReadRuleOK
<1>2. IInv /\ [Next]_vars => [Step]_vars  BY <1>1
<1>3. Spec => [][Next]_vars  BY PTL DEF Spec
<1>4. Spec => [][Step]_vars  BY <1>2, <1>3, Inductive, PTL
<1> QED BY <1>4 DEF DelayHonoured

=============================================================================
