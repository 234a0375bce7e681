----------------------------- MODULE AModeProofs -----------------------------
(***************************************************************************)
(* Theorems about AMode for any KPZ, plans, widths, values and sizes of    *)
(* packets, as long as no reply arrives twice.                             *)
(***************************************************************************)
EXTENDS AMode, FiniteSetTheorems, WellFoundedInduction, TLAPS

-----------------------------------------------------------------------------
(* Places in a set of numbers *)

Upto(S, i) == {x \in S : x <= i}

\* Every place has its number, so every number up to the size has its place.
LEMMA NthIs ==
  ASSUME NEW n \in Nat, NEW S \in SUBSET (1 .. n), NEW j \in 1 .. Cardinality(S)
  PROVE  Nth(S, j) \in S
<1>1. IsFiniteSet(S) /\ Cardinality(S) \in Nat
  <2>1. IsFiniteSet(1 .. n)  BY FS_Interval
  <2>2. IsFiniteSet(S)  BY <2>1, FS_Subset
  <2> QED BY <2>2, FS_CardinalityType
<1> DEFINE rank == [i \in S |-> Cardinality(Upto(S, i))]
<1>2. \A i \in S : IsFiniteSet(Upto(S, i)) /\ Cardinality(Upto(S, i)) \in 1 .. Cardinality(S)
  <2> SUFFICES ASSUME NEW i \in S
               PROVE  IsFiniteSet(Upto(S, i)) /\ Cardinality(Upto(S, i)) \in 1 .. Cardinality(S)
    OBVIOUS
  <2>1. Upto(S, i) \in SUBSET S /\ i \in Upto(S, i)  BY DEF Upto
  <2>2. IsFiniteSet(Upto(S, i)) /\ Cardinality(Upto(S, i)) <= Cardinality(S)  BY <1>1, <2>1, FS_Subset
  <2>3. Cardinality(Upto(S, i)) \in Nat /\ Cardinality(Upto(S, i)) # 0
    BY <2>1, <2>2, FS_CardinalityType, FS_EmptySet
  <2> QED BY <1>1, <2>2, <2>3
<1>3. \A i, x \in S : x < i => Cardinality(Upto(S, x)) < Cardinality(Upto(S, i))
  <2> SUFFICES ASSUME NEW i \in S, NEW x \in S, x < i
               PROVE  Cardinality(Upto(S, x)) < Cardinality(Upto(S, i))
    OBVIOUS
  <2>1. \A y \in S : y <= x => y <= i  OBVIOUS
  <2>2. Upto(S, x) \in SUBSET Upto(S, i)  BY <2>1 DEF Upto
  <2>3. i \in Upto(S, i) /\ i \notin Upto(S, x)  BY DEF Upto
  <2>4. Cardinality(Upto(S, x)) <= Cardinality(Upto(S, i))
        /\ Cardinality(Upto(S, x)) # Cardinality(Upto(S, i))
    BY <1>2, <2>2, <2>3, FS_Subset
  <2> QED BY <1>2, <2>4
<1>4. rank \in Injection(S, 1 .. Cardinality(S))
  <2>1. rank \in [S -> 1 .. Cardinality(S)]  BY <1>2
  <2>2. \A i, x \in S : i # x => rank[i] # rank[x]
    <3> SUFFICES ASSUME NEW i \in S, NEW x \in S, i # x PROVE rank[i] # rank[x]  OBVIOUS
    <3>1. i < x \/ x < i  OBVIOUS
    <3>2. rank[i] = Cardinality(Upto(S, i)) /\ rank[x] = Cardinality(Upto(S, x))  OBVIOUS
    <3> QED BY <1>2, <1>3, <3>1, <3>2
  <2> QED BY <2>1, <2>2 DEF Injection, IsInjective
<1>5. Cardinality(1 .. Cardinality(S)) = Cardinality(S) /\ IsFiniteSet(1 .. Cardinality(S))
  BY <1>1, FS_Interval
<1>6. rank \in Surjection(S, 1 .. Cardinality(S))  BY <1>4, <1>5, FS_Injection
<1>7. PICK i \in S : rank[i] = j  BY <1>6 DEF Surjection
<1>8. Cardinality({x \in S : x <= i}) = j  BY <1>7 DEF Upto
<1> QED BY <1>8 DEF Nth

\* In an interval it is the obvious one.
LEMMA NthOfInterval ==
  ASSUME NEW a \in Nat, NEW b \in Nat, a <= b, NEW j \in 1 .. b - a
  PROVE  Nth(a + 1 .. b, j) = a + j
<1>1. \A i \in a + 1 .. b : {x \in a + 1 .. b : x <= i} = a + 1 .. i  OBVIOUS
<1>2. \A i \in a + 1 .. b : Cardinality(a + 1 .. i) = i - a
  <2> SUFFICES ASSUME NEW i \in a + 1 .. b PROVE Cardinality(a + 1 .. i) = i - a  OBVIOUS
  <2>1. a + 1 \in Int /\ i \in Int /\ ~(a + 1 > i) /\ i - (a + 1) + 1 = i - a  OBVIOUS
  <2> QED BY <2>1, FS_Interval
<1>3. a + j \in a + 1 .. b /\ (a + j) - a = j  OBVIOUS
<1>4. \A i \in a + 1 .. b : i - a = j => i = a + j  OBVIOUS
<1> QED BY <1>1, <1>2, <1>3, <1>4 DEF Nth

-----------------------------------------------------------------------------
(* Chunks *)

\* Requests of the first c chunks.
AskedFor(k, c) == IF c * PerChunk < Len(Plan[k]) THEN c * PerChunk ELSE Len(Plan[k])

LEMMA PlanType ==
  ASSUME NEW k \in Kpz
  PROVE  /\ Plan[k] \in Seq(Regs) /\ Len(Plan[k]) \in Nat /\ DOMAIN Plan[k] = 1 .. Len(Plan[k])
         /\ \A i \in DOMAIN Plan[k] : Plan[k][i] \in Regs
         /\ \A i, j \in DOMAIN Plan[k] : Plan[k][i] = Plan[k][j] => i = j
BY AModeAssumption

LEMMA DivIs ==
  ASSUME NEW n \in Nat, NEW d \in Nat \ {0}, NEW q \in Nat
  PROVE  n \div d = q <=> q * d <= n /\ n < (q + 1) * d
<1>1. n \div d \in Nat  OBVIOUS
<1>2. d * (n \div d) <= n /\ n < d * (n \div d) + d  BY SMTT(30)
<1>3. (q + 1) * d = q * d + d /\ q * d = d * q  OBVIOUS
<1>4. n \div d = q => q * d <= n /\ n < (q + 1) * d  BY <1>2, <1>3
<1> DEFINE m == n \div d
<1>5. \A a, b \in Nat : a < b => a * d + d <= b * d
  <2> SUFFICES ASSUME NEW a \in Nat, NEW b \in Nat, a < b PROVE a * d + d <= b * d  OBVIOUS
  <2> DEFINE c == b - a - 1
  <2>1. c \in Nat /\ b = a + 1 + c  OBVIOUS
  <2> HIDE DEF c
  <2>2. b * d = a * d + d + c * d /\ c * d >= 0 /\ a * d \in Nat /\ c * d \in Nat  BY <2>1
  <2> QED BY <2>2
<1>6. ASSUME q * d <= n, n < (q + 1) * d PROVE m = q
  <2>1. m \in Nat /\ m * d <= n /\ n < m * d + d  BY <1>1, <1>2
  <2> HIDE DEF m
  <2>2. m < q => m * d + d <= q * d  BY <1>5, <2>1
  <2>3. q < m => q * d + d <= m * d  BY <1>5, <2>1
  <2>4. m * d \in Nat /\ q * d \in Nat  BY <2>1
  <2> QED BY <1>3, <1>6, <2>1, <2>2, <2>3, <2>4
<1> QED BY <1>4, <1>6

LEMMA ChunkIs ==
  ASSUME NEW k \in Kpz, NEW c \in Nat, c < Chunks(k)
  PROVE  /\ AskedFor(k, c) \in Nat /\ AskedFor(k, c + 1) \in Nat
         /\ AskedFor(k, c) <= AskedFor(k, c + 1) /\ AskedFor(k, c + 1) <= Len(Plan[k])
         /\ {i \in DOMAIN Plan[k] : (i - 1) \div PerChunk = c} = AskedFor(k, c) + 1 .. AskedFor(k, c + 1)
<1> DEFINE L == Len(Plan[k])
           d == PerChunk
<1>1. L \in Nat /\ d \in Nat \ {0} /\ DOMAIN Plan[k] = 1 .. L  BY PlanType, AModeAssumption
<1>2. c * d \in Nat /\ (c + 1) * d \in Nat /\ (c + 1) * d = c * d + d  BY <1>1
<1> HIDE DEF L, d
<1> DEFINE a == AskedFor(k, c)
           b == AskedFor(k, c + 1)
<1>3. a = (IF c * d < L THEN c * d ELSE L) /\ b = (IF (c + 1) * d < L THEN (c + 1) * d ELSE L)
  BY DEF AskedFor, L, d
<1>4. a \in Nat /\ b \in Nat /\ a <= b /\ b <= L  BY <1>1, <1>2, <1>3
<1>5. \A i \in 1 .. L : (i - 1) \div d = c <=> c * d <= i - 1 /\ i - 1 < (c + 1) * d
  <2> SUFFICES ASSUME NEW i \in 1 .. L
               PROVE  (i - 1) \div d = c <=> c * d <= i - 1 /\ i - 1 < (c + 1) * d
    OBVIOUS
  <2>1. i - 1 \in Nat  BY <1>1
  <2> QED BY <1>1, <2>1, DivIs
<1>6. {i \in 1 .. L : c * d <= i - 1 /\ i - 1 < (c + 1) * d} = a + 1 .. b
  <2> DEFINE x == c * d
             y == (c + 1) * d
  <2>1. x \in Nat /\ y \in Nat /\ x <= y  BY <1>1, <1>2
  <2>2. a = (IF x < L THEN x ELSE L) /\ b = (IF y < L THEN y ELSE L)  BY <1>3
  <2> HIDE DEF x, y, a, b
  <2>3. {i \in 1 .. L : x <= i - 1 /\ i - 1 < y} = a + 1 .. b  BY <1>1, <2>1, <2>2
  <2> QED BY <2>3 DEF x, y
<1>7. {i \in DOMAIN Plan[k] : (i - 1) \div d = c} = a + 1 .. b
  <2> HIDE DEF a, b
  <2> QED BY <1>1, <1>5, <1>6
<1> QED BY <1>4, <1>7 DEF L, d

\* After all chunks everything has been asked for.
LEMMA AllChunks ==
  ASSUME NEW k \in Kpz
  PROVE  Chunks(k) \in Nat /\ AskedFor(k, Chunks(k)) = Len(Plan[k]) /\ AskedFor(k, 0) = 0
<1> DEFINE L == Len(Plan[k])
           d == PerChunk
           n == L + d - 1
           q == n \div d
<1>1. L \in Nat /\ d \in Nat \ {0}  BY PlanType, AModeAssumption
<1> HIDE DEF L, d
<1>2. n \in Nat  BY <1>1
<1> HIDE DEF n
<1>3. q \in Nat  BY <1>1, <1>2
<1>4. n < (q + 1) * d  BY <1>1, <1>2, <1>3, DivIs
<1>5. Chunks(k) = q  BY DEF Chunks, q, n, L, d
<1> HIDE DEF q
<1>6. (q + 1) * d = q * d + d /\ q * d \in Nat  BY <1>1, <1>3
<1>7. ~(q * d < L)  BY <1>1, <1>4, <1>6 DEF n
<1>8. AskedFor(k, q) = L  BY <1>7 DEF AskedFor, L, d
<1>9. 0 * d = 0  BY <1>1
<1>10. AskedFor(k, 0) = 0  BY <1>1, <1>9 DEF AskedFor, L, d
<1> QED BY <1>3, <1>5, <1>8, <1>10 DEF L

-----------------------------------------------------------------------------
(* The inductive invariant *)

NoDuplicates == ~Duplicates

\* Values at the places of the registers they were read from.
Owned(f) == f \in Cached /\ \A r \in Regs : f[r] \in ValueOf(r) \cup {NoValue}

\* As many frames as requests are the replies to these requests; with fewer
\* it is not known which are missing, and it stays so.
FramesOK(k, c, f) ==
  /\ Len(f) <= AskedFor(k, c)
  /\ Len(f) = AskedFor(k, c) => \A i \in DOMAIN f : f[i] \in ValueOf(Plan[k][i]) \cup {NoValue}

JobOK(k, j) ==
  /\ Owned(j.rv)
  /\ j.pc = "ask" => /\ j.chunk <= Chunks(k) /\ j.rows = {}
                     /\ FramesOK(k, j.chunk, j.frames)

IInv ==
  /\ TypeOK
  /\ \A k \in Kpz, r \in Regs : dev[k][r] \in ValueOf(r)
  /\ \A k \in Kpz : Owned(rv[k]) /\ Owned(archive[k])
  /\ \A k \in Kpz : worker[k] # NoWorker => JobOK(k, worker[k])

\* Nobody works for a KPZ, or a job with all its parts.
LEMMA JobType ==
  ASSUME TypeOK, NEW k \in Kpz, worker[k] # NoWorker
  PROVE  worker[k] \in Job
BY DEF TypeOK

LEMMA EmptyOwned == NoValues \in Cached /\ Owned(NoValues)
BY DEF NoValues, Cached, Owned

LEMMA InitOK == Init => IInv
<1> SUFFICES ASSUME Init PROVE IInv  OBVIOUS
<1>1. \A k \in Kpz, r \in Regs : dev[k][r] \in ValueOf(r)
  <2> SUFFICES ASSUME NEW k \in Kpz, NEW r \in Regs PROVE dev[k][r] \in ValueOf(r)  OBVIOUS
  <2>1. dev[k][r] \in Value /\ dev[k][r][1] = r  BY DEF Init
  <2> QED BY <2>1 DEF Value, ValueOf
<1>2. dev \in [Kpz -> [Regs -> Value]]  BY DEF Init
<1>3. rv \in [Kpz -> Cached] /\ archive \in [Kpz -> Cached]  BY EmptyOwned DEF Init
<1>4. sent \in Seq([kpz : Kpz, rows : SUBSET Value]) /\ Len(sent) <= MaxSent
  BY AModeAssumption DEF Init
<1>5. TypeOK  BY <1>2, <1>3, <1>4, AModeAssumption DEF Init, TypeOK
<1> QED BY <1>1, <1>5, EmptyOwned DEF Init, IInv

-----------------------------------------------------------------------------
(* The exchange *)

Frame == Value \cup {NoValue}

LEMMA FramesIs ==
  ASSUME IInv, NEW k \in Kpz, Asks(k), NEW lost, NEW refused
  PROVE  LET c   == worker[k].chunk
             got == Frames(k, lost, refused)
         IN  /\ c \in Nat /\ c + 1 <= Chunks(k) /\ got \in Seq(Frame)
             /\ Len(got) <= AskedFor(k, c + 1) - AskedFor(k, c)
             /\ Len(got) = AskedFor(k, c + 1) - AskedFor(k, c) =>
                  \A j \in DOMAIN got :
                    got[j] \in ValueOf(Plan[k][AskedFor(k, c) + j]) \cup {NoValue}
<1> DEFINE c == worker[k].chunk
           a == AskedFor(k, c)
           b == AskedFor(k, c + 1)
           kept == Positions(k) \ lost
           FrameAt(i) == IF i \in refused THEN NoValue ELSE dev[k][Plan[k][i]]
           got == Frames(k, lost, refused)
           n == Cardinality(kept)
<1>1. worker[k] \in Job /\ c < Chunks(k)  BY JobType DEF IInv, Asks
<1>2. c \in Nat /\ Chunks(k) \in Nat  BY <1>1, AllChunks DEF Job
<1>3. /\ a \in Nat /\ b \in Nat /\ a <= b /\ b <= Len(Plan[k])
      /\ Positions(k) = a + 1 .. b
  BY <1>1, <1>2, ChunkIs DEF Positions
<1> HIDE DEF c, a, b
<1>4. kept \in SUBSET (a + 1 .. b) /\ kept \in SUBSET (1 .. b)  BY <1>3
<1>5. IsFiniteSet(a + 1 .. b) /\ Cardinality(a + 1 .. b) = b - a
  <2>1. a + 1 \in Int /\ b \in Int  BY <1>3
  <2>2. (IF a + 1 > b THEN 0 ELSE b - (a + 1) + 1) = b - a  BY <1>3
  <2> QED BY <2>1, <2>2, FS_Interval
<1>6. n \in Nat /\ n <= b - a /\ (n = b - a => kept = a + 1 .. b)
  BY <1>4, <1>5, FS_Subset, FS_CardinalityType
<1> HIDE DEF kept
<1>7. got = [j \in 1 .. n |-> FrameAt(Nth(kept, j))]  BY DEF Frames, kept
<1>8. \A i \in kept : FrameAt(i) \in ValueOf(Plan[k][i]) \cup {NoValue} /\ FrameAt(i) \in Frame
  <2> SUFFICES ASSUME NEW i \in kept
               PROVE  FrameAt(i) \in ValueOf(Plan[k][i]) \cup {NoValue} /\ FrameAt(i) \in Frame
    OBVIOUS
  <2>1. Plan[k][i] \in Regs  BY <1>3, <1>4, PlanType
  <2>2. dev[k][Plan[k][i]] \in ValueOf(Plan[k][i])  BY <2>1 DEF IInv
  <2> QED BY <2>1, <2>2 DEF Frame, Value
<1> HIDE DEF FrameAt
<1>9. \A j \in 1 .. n : Nth(kept, j) \in kept  BY <1>3, <1>4, NthIs
<1>10. got \in Seq(Frame) /\ Len(got) = n /\ DOMAIN got = 1 .. n
  <2>1. got \in [1 .. n -> Frame]  BY <1>7, <1>8, <1>9
  <2> HIDE DEF got, n
  <2> QED BY <1>6, <2>1
<1>11. ASSUME n = b - a, NEW j \in 1 .. n
       PROVE  got[j] \in ValueOf(Plan[k][a + j]) \cup {NoValue}
  <2>1. kept = a + 1 .. b  BY <1>6, <1>11
  <2>2. Nth(kept, j) = a + j  BY <1>3, <1>11, <2>1, NthOfInterval
  <2>3. got[j] = FrameAt(a + j) /\ a + j \in kept  BY <1>7, <1>9, <1>11, <2>2
  <2> QED BY <1>8, <2>3
<1> HIDE DEF got, n
<1> QED BY <1>1, <1>2, <1>6, <1>10, <1>11 DEF c, a, b, got

LEMMA ConcatAt ==
  ASSUME NEW T, NEW s \in Seq(T), NEW t \in Seq(T), NEW i \in DOMAIN (s \o t)
  PROVE  \/ i \in DOMAIN s /\ (s \o t)[i] = s[i]
         \/ i - Len(s) \in DOMAIN t /\ (s \o t)[i] = t[i - Len(s)]
<1>1. i \in 1 .. Len(s) + Len(t) /\ Len(s) \in Nat /\ Len(t) \in Nat  OBVIOUS
<1>2. CASE i <= Len(s)  BY <1>1, <1>2
<1>3. CASE i > Len(s)
  <2>1. i - Len(s) \in 1 .. Len(t)  BY <1>1, <1>3
  <2> QED BY <1>1, <1>3, <2>1
<1> QED BY <1>1, <1>2, <1>3

\* A step that only concerns one worker.
LEMMA WorkerOK ==
  ASSUME IInv, NEW k \in Kpz, NEW j \in Job \cup {NoWorker},
         worker' = [worker EXCEPT ![k] = j], UNCHANGED <<dev, aEn, edits, loaded, force, rv, primed>>,
         UNCHANGED <<sent, archive>>, dropped' \in [Kpz -> SUBSET Regs],
         j # NoWorker => JobOK(k, j)
  PROVE  IInv'
<1>1. TypeOK'  BY DEF IInv, TypeOK
<1>2. \A l \in Kpz : worker'[l] = (IF l = k THEN j ELSE worker[l])  BY DEF IInv, TypeOK
<1> QED BY <1>1, <1>2 DEF IInv, JobOK, Owned, FramesOK

LEMMA ChunkJob ==
  ASSUME NoDuplicates, IInv, NEW k \in Kpz, NEW lost, NEW refused, NEW twice \in BOOLEAN,
         ChunkAnswered(k, lost, refused, twice)
  PROVE  LET w   == worker[k]
             got == Frames(k, lost, refused)
         IN  \E v \in Job :
               /\ worker' = [worker EXCEPT ![k] = v] /\ v.chunk = w.chunk + 1
               /\ v.frames = w.frames \o got /\ v.pc = w.pc /\ v.rv = w.rv
               /\ v.primed = w.primed /\ v.force = w.force /\ v.rows = w.rows
<1> DEFINE w == worker[k]
           c == w.chunk
           f == w.frames
           got == Frames(k, lost, refused)
           v == [w EXCEPT !.chunk = c + 1, !.frames = f \o got]
<1>1. Asks(k) /\ w \in Job  BY JobType DEF ChunkAnswered, Asks, IInv
<1>2. c \in Nat /\ got \in Seq(Frame)  BY <1>1, FramesIs
<1>3. f \in Seq(Frame)  BY <1>1 DEF IInv, Job, Frame
<1>4. worker' = [worker EXCEPT ![k] = v]
  <2>1. ~twice /\ f \o got \o <<>> = f \o got
    BY <1>2, <1>3 DEF ChunkAnswered, NoDuplicates
  <2>2. worker' = [worker EXCEPT ![k].chunk = @ + 1, ![k].frames = @ \o got \o <<>>]
    BY <2>1 DEF ChunkAnswered
  <2> HIDE DEF got
  <2> QED BY <2>1, <2>2 DEF IInv, TypeOK
<1> HIDE DEF got
<1>5. f \o got \in Seq(Frame)  BY <1>2, <1>3
<1> DEFINE y == [w EXCEPT !.chunk = c + 1]
<1> HIDE DEF c, f
<1>6. v = [y EXCEPT !.frames = f \o got]  OBVIOUS
<1>7. /\ y \in Job /\ y.chunk = c + 1 /\ y.pc = w.pc /\ y.rv = w.rv
      /\ y.primed = w.primed /\ y.force = w.force /\ y.rows = w.rows
  BY <1>1, <1>2 DEF Job
<1> HIDE DEF y, v
<1>8. /\ v \in Job /\ v.chunk = c + 1 /\ v.frames = f \o got /\ v.pc = w.pc /\ v.rv = w.rv
      /\ v.primed = w.primed /\ v.force = w.force /\ v.rows = w.rows
  BY <1>5, <1>6, <1>7 DEF Job, Frame
<1> HIDE DEF w
<1> QED BY <1>4, <1>8 DEF w, c, f, got

LEMMA ChunkAnsweredOK ==
  ASSUME NoDuplicates, IInv, NEW k \in Kpz, NEW lost, NEW refused, NEW twice \in BOOLEAN,
         ChunkAnswered(k, lost, refused, twice)
  PROVE  IInv'
<1> DEFINE w == worker[k]
           c == w.chunk
           f == w.frames
           got == Frames(k, lost, refused)
<1>1. Asks(k) /\ w \in Job /\ w # NoWorker /\ w.pc = "ask"
  BY JobType DEF ChunkAnswered, Asks, IInv
<1>2. /\ c \in Nat /\ c + 1 <= Chunks(k) /\ got \in Seq(Frame)
      /\ Len(got) <= AskedFor(k, c + 1) - AskedFor(k, c)
      /\ Len(got) = AskedFor(k, c + 1) - AskedFor(k, c) =>
           \A j \in DOMAIN got : got[j] \in ValueOf(Plan[k][AskedFor(k, c) + j]) \cup {NoValue}
  BY <1>1, FramesIs
<1>3. JobOK(k, w) /\ f \in Seq(Frame)  BY <1>1 DEF IInv, Job, Frame
<1>4. /\ AskedFor(k, c) \in Nat /\ AskedFor(k, c + 1) \in Nat
      /\ AskedFor(k, c) <= AskedFor(k, c + 1)
  BY <1>2, ChunkIs, AllChunks
<1> HIDE DEF got
<1>5. FramesOK(k, c + 1, f \o got)
  <2> DEFINE a == AskedFor(k, c)
             b == AskedFor(k, c + 1)
  <2>1. FramesOK(k, c, f)  BY <1>1, <1>3 DEF JobOK
  <2>2. Len(f) \in Nat /\ Len(got) \in Nat /\ Len(f \o got) = Len(f) + Len(got)  BY <1>2, <1>3
  <2>3. Len(f) <= a /\ Len(got) <= b - a  BY <1>2, <2>1 DEF FramesOK
  <2>4. ASSUME Len(f \o got) = b, NEW i \in DOMAIN (f \o got)
        PROVE  (f \o got)[i] \in ValueOf(Plan[k][i]) \cup {NoValue}
    <3>1. Len(f) = a /\ Len(got) = b - a
      <4>1. \A m, n, p, q \in Nat : m <= p /\ n <= q - p /\ m + n = q => m = p /\ n = q - p
        OBVIOUS
      <4>2. Len(f) + Len(got) = b  BY <2>2, <2>4
      <4> HIDE DEF a, b, f
      <4>3. a \in Nat /\ b \in Nat  BY <1>4 DEF a, b
      <4> QED BY <2>2, <2>3, <4>1, <4>2, <4>3
    <3>2. CASE i \in DOMAIN f /\ (f \o got)[i] = f[i]
      BY <2>1, <3>1, <3>2 DEF FramesOK
    <3>3. CASE i - a \in DOMAIN got /\ (f \o got)[i] = got[i - a]
      <4>1. i \in Nat /\ a + (i - a) = i  BY <1>2, <1>3, <1>4, <2>4
      <4> QED BY <1>2, <3>1, <3>3, <4>1
    <3> QED BY <1>2, <1>3, <2>4, <3>1, <3>2, <3>3, ConcatAt
  <2> HIDE DEF f
  <2> QED BY <1>4, <2>2, <2>3, <2>4 DEF FramesOK
<1>6. PICK v \in Job : /\ worker' = [worker EXCEPT ![k] = v] /\ v.chunk = c + 1
                       /\ v.frames = f \o got /\ v.pc = w.pc /\ v.rv = w.rv /\ v.rows = w.rows
  BY ChunkJob DEF got
<1>7. JobOK(k, v)  BY <1>1, <1>2, <1>3, <1>5, <1>6 DEF JobOK
<1> HIDE DEF w
<1> QED BY <1>6, <1>7, WorkerOK DEF ChunkAnswered, IInv, TypeOK

LEMMA JobStopsOK ==
  ASSUME IInv, NEW k \in Kpz, ChunkFails(k) \/ Mismatch(k)
  PROVE  IInv'
<1> DEFINE v == [worker[k] EXCEPT !.pc = "done"]
<1>1. worker[k] \in Job /\ JobOK(k, worker[k])
  BY JobType DEF IInv, ChunkFails, Mismatch, Asks, AllAsked
<1>2. worker' = [worker EXCEPT ![k] = v] /\ UNCHANGED <<dev, aEn, edits, loaded, force, rv, primed>>
      /\ UNCHANGED <<sent, archive, dropped>>
  BY DEF ChunkFails, Mismatch
<1>3. v \in Job /\ v.pc = "done" /\ v.rv = worker[k].rv  BY <1>1 DEF Job
<1>4. JobOK(k, v)  BY <1>1, <1>3 DEF JobOK
<1> HIDE DEF v
<1> QED BY <1>2, <1>3, <1>4, WorkerOK DEF IInv, TypeOK

-----------------------------------------------------------------------------
(* After the exchange *)

\* With a reply to every request, each is the reply to its own.
LEMMA ResultsIs ==
  ASSUME IInv, NEW k \in Kpz, AllAsked(k), AllAnswered(k)
  PROVE  /\ Results(k) = worker[k].frames /\ Len(Results(k)) = Len(Plan[k])
         /\ \A i \in DOMAIN Plan[k] : Results(k)[i] \in ValueOf(Plan[k][i]) \cup {NoValue}
<1> DEFINE f == worker[k].frames
           L == Len(Plan[k])
<1>1. worker[k] \in Job /\ JobOK(k, worker[k]) /\ worker[k].pc = "ask" /\ worker[k].chunk = Chunks(k)
  BY JobType DEF AllAsked, IInv
<1>2. FramesOK(k, Chunks(k), f)  BY <1>1 DEF JobOK
<1>3. Len(f) <= L  BY <1>2, AllChunks DEF FramesOK
<1>4. f \in Seq(Frame) /\ Len(f) \in Nat /\ L \in Nat /\ DOMAIN f = 1 .. Len(f)
  BY <1>1, PlanType DEF Job, Frame
<1>5. Results(k) = f  BY <1>3, <1>4 DEF Results
<1>6. Len(f) = L  BY <1>5 DEF AllAnswered
<1>7. DOMAIN f = DOMAIN Plan[k]  BY <1>4, <1>6, PlanType
<1> QED BY <1>2, <1>5, <1>6, <1>7, AllChunks DEF FramesOK

LEMMA ReadIs ==
  ASSUME IInv, NEW k \in Kpz, AllAsked(k), AllAnswered(k), NEW n \in 0 .. Len(Plan[k])
  PROVE  /\ Read(k, n) \subseteq RegsOf(k) \cap Regs
         /\ \A r \in Read(k, n) : ReadValue(k, r) \in ValueOf(r) /\ ReadValue(k, r) # NoValue
<1>1. Read(k, n) \subseteq RegsOf(k) \cap Regs
  <2>1. Decodes(k, n) \subseteq DOMAIN Plan[k]  BY PlanType DEF Decodes
  <2> QED BY <2>1, PlanType DEF Read, RegsOf, Range
<1>2. ASSUME NEW r \in Read(k, n)
      PROVE  ReadValue(k, r) \in ValueOf(r) /\ ReadValue(k, r) # NoValue
  <2>1. PICK i \in Decodes(k, n) : Plan[k][i] = r  BY DEF Read
  <2>2. i \in DOMAIN Plan[k] /\ Results(k)[i] # NoValue  BY PlanType DEF Decodes
  <2>3. (CHOOSE j \in DOMAIN Plan[k] : Plan[k][j] = r) = i  BY <2>1, <2>2, PlanType
  <2>4. ReadValue(k, r) = Results(k)[i]  BY <2>3 DEF ReadValue
  <2> QED BY <2>1, <2>2, <2>4, ResultsIs
<1> QED BY <1>1, <1>2

LEMMA ValueIs == ASSUME NEW r \in Regs PROVE ValueOf(r) \subseteq Value /\ \A v \in ValueOf(r) : v[1] = r
BY DEF Value, ValueOf

\* The job with what it has read and archived.
LEMMA DecodedIs ==
  ASSUME IInv, NEW k \in Kpz, AllAsked(k), AllAnswered(k), NEW n \in 0 .. Len(Plan[k]),
         NEW written \in SUBSET Regs
  PROVE  LET v == DecodedTo(k, n, written)
         IN  /\ v \in Job /\ v.pc = "done" /\ Owned(v.rv) /\ v.rows = worker[k].rows
             /\ \A r \in Regs :
                  v.rv[r] = IF r \in Read(k, n) THEN ReadValue(k, r) ELSE worker[k].rv[r]
             /\ v.primed = worker[k].primed \cup written
             /\ v.force = worker[k].force \ written
<1> DEFINE w == worker[k]
           c == [r \in Regs |-> IF r \in Read(k, n) THEN ReadValue(k, r) ELSE w.rv[r]]
           a == [w EXCEPT !.pc = "done"]
           b == [a EXCEPT !.rv = c]
           d == [b EXCEPT !.primed = w.primed \cup written]
           e == [d EXCEPT !.force = w.force \ written]
<1>1. w \in Job /\ Owned(w.rv)  BY JobType DEF AllAsked, IInv, JobOK
<1>2. Owned(c)
  <2>1. \A r \in Regs : c[r] \in ValueOf(r) \cup {NoValue}  BY <1>1, ReadIs DEF Owned
  <2>2. \A r \in Regs : ValueOf(r) \subseteq Value  BY ValueIs
  <2> QED BY <2>1, <2>2 DEF Owned, Cached
<1>3. c \in Cached  BY <1>2 DEF Owned
<1> HIDE DEF c
<1>4. a \in Job /\ a.pc = "done" /\ a.rows = w.rows  BY <1>1 DEF Job
<1>5. DecodedTo(k, n, written) = e  BY <1>1 DEF DecodedTo, c, Job
<1> HIDE DEF a
<1>6. b \in Job /\ b.pc = "done" /\ b.rows = w.rows /\ b.rv = c  BY <1>3, <1>4 DEF Job
<1> HIDE DEF b
<1>7. w.primed \cup written \in SUBSET Regs /\ w.force \ written \in SUBSET Regs  BY <1>1 DEF Job
<1>8. d \in Job /\ d.pc = "done" /\ d.rows = w.rows /\ d.rv = c /\ d.primed = w.primed \cup written
  BY <1>6, <1>7 DEF Job
<1> HIDE DEF d
<1>9. /\ e \in Job /\ e.pc = "done" /\ e.rows = w.rows /\ e.rv = c /\ e.primed = w.primed \cup written
      /\ e.force = w.force \ written
  BY <1>7, <1>8 DEF Job
<1>10. \A r \in Regs : c[r] = IF r \in Read(k, n) THEN ReadValue(k, r) ELSE w.rv[r]  BY DEF c
<1> HIDE DEF e, w
<1> QED BY <1>2, <1>5, <1>9, <1>10 DEF w

LEMMA DecodeOK == ASSUME IInv, NEW k \in Kpz, Decode(k) PROVE IInv'
<1> DEFINE n == Len(Plan[k])
           written == Archives(k, n)
           u == DecodedTo(k, n, written)
           found == {ReadValue(k, r) : r \in written}
           v == [u EXCEPT !.rows = found]
<1>1. AllAsked(k) /\ AllAnswered(k) /\ n \in 0 .. Len(Plan[k])  BY PlanType DEF Decode
<1>2. written \subseteq Read(k, n) /\ Read(k, n) \subseteq Regs /\ written \in SUBSET Regs
  BY <1>1, ReadIs DEF Archives
<1>3. found \subseteq Value  BY <1>1, <1>2, ReadIs, ValueIs
<1>4. worker' = [worker EXCEPT ![k] = v] /\ dropped' = [dropped EXCEPT ![k] = @ \ written]
      /\ UNCHANGED <<dev, aEn, edits, loaded, force, rv, primed, sent, archive>>
  BY DEF Decode
<1> HIDE DEF n, written, found
<1>5. u \in Job /\ u.pc = "done" /\ Owned(u.rv)  BY <1>1, <1>2, DecodedIs
<1> HIDE DEF u
<1>6. v \in Job /\ v.pc = "done" /\ v.rv = u.rv  BY <1>3, <1>5 DEF Job
<1>7. JobOK(k, v)  BY <1>5, <1>6 DEF JobOK
<1> HIDE DEF v
<1>8. dropped' \in [Kpz -> SUBSET Regs]  BY <1>4 DEF IInv, TypeOK
<1> QED BY <1>4, <1>6, <1>7, <1>8, WorkerOK

LEMMA HookFailsOK == ASSUME IInv, NEW k \in Kpz, NEW n \in DOMAIN Plan[k], HookFails(k, n) PROVE IInv'
<1> DEFINE written == Archives(k, n - 1)
           v == DecodedTo(k, n, written)
<1>1. AllAsked(k) /\ AllAnswered(k) /\ n \in 0 .. Len(Plan[k]) /\ n - 1 \in 0 .. Len(Plan[k])
  BY PlanType DEF HookFails
<1>2. written \in SUBSET Regs /\ Archives(k, n) \subseteq Regs
  BY <1>1, ReadIs DEF Archives
<1>3. worker' = [worker EXCEPT ![k] = v] /\ dropped' = [dropped EXCEPT ![k] = @ \cup Archives(k, n)]
      /\ UNCHANGED <<dev, aEn, edits, loaded, force, rv, primed, sent, archive>>
  BY DEF HookFails
<1> HIDE DEF written
<1>4. v \in Job /\ v.pc = "done" /\ Owned(v.rv)  BY <1>1, <1>2, DecodedIs
<1> HIDE DEF v
<1>5. JobOK(k, v)  BY <1>4 DEF JobOK
<1>6. dropped' \in [Kpz -> SUBSET Regs]  BY <1>2, <1>3 DEF IInv, TypeOK
<1> QED BY <1>3, <1>4, <1>5, <1>6, WorkerOK

LEMMA JobEndsOK == ASSUME IInv, NEW k \in Kpz, JobEnds(k) PROVE IInv'
<1>1. worker[k] \in Job /\ Owned(worker[k].rv)  BY JobType DEF IInv, JobEnds, JobOK
<1>2. sent' \in Seq([kpz : Kpz, rows : SUBSET Value]) /\ Len(sent') <= MaxSent
  <2>1. CASE worker[k].rows = {}  BY <2>1 DEF JobEnds, IInv, TypeOK
  <2>2. CASE worker[k].rows # {}
    <3> DEFINE d == [kpz |-> k, rows |-> worker[k].rows]
    <3>1. d \in [kpz : Kpz, rows : SUBSET Value]  BY <1>1 DEF Job
    <3>2. sent' = Append(sent, d) /\ Len(sent) < MaxSent  BY <2>2 DEF JobEnds, HasRoom
    <3> HIDE DEF d
    <3> QED BY <3>1, <3>2, AModeAssumption DEF IInv, TypeOK
  <2> QED BY <2>1, <2>2
<1>3. worker[k].rv \in Cached /\ worker[k].primed \subseteq Regs  BY <1>1 DEF Job
<1>4. /\ rv' = [rv EXCEPT ![k] = worker[k].rv] /\ worker' = [worker EXCEPT ![k] = NoWorker]
      /\ primed' = [primed EXCEPT ![k] = @ \cup worker[k].primed] /\ force' \subseteq force
      /\ UNCHANGED <<dev, aEn, edits, loaded, archive, dropped>>
  BY DEF JobEnds, MergedForce
<1>5. TypeOK'  BY <1>2, <1>3, <1>4 DEF IInv, TypeOK
<1>6. \A l \in Kpz : rv'[l] = (IF l = k THEN worker[k].rv ELSE rv[l])
                     /\ worker'[l] = (IF l = k THEN NoWorker ELSE worker[l])
  BY <1>4 DEF IInv, TypeOK
<1> QED BY <1>1, <1>4, <1>5, <1>6 DEF IInv, JobOK, Owned, FramesOK

LEMMA SpawnOK == ASSUME IInv, NEW k \in Kpz, Spawn(k) PROVE IInv'
<1> DEFINE v == [pc |-> "ask", chunk |-> 0, frames |-> <<>>, rv |-> rv[k], primed |-> primed[k],
                 force |-> force \cap RegsOf(k), rows |-> {}]
<1>1. v \in Job /\ v.chunk = 0 /\ v.frames = <<>> /\ v.rv = rv[k] /\ v.rows = {}
  <2>1. rv[k] \in Cached /\ primed[k] \subseteq Regs /\ force \subseteq Regs  BY DEF IInv, TypeOK
  <2>2. <<>> \in Seq(Value \cup {NoValue})  OBVIOUS
  <2> QED BY <2>1, <2>2 DEF Job
<1>2. worker' = [worker EXCEPT ![k] = v] /\ UNCHANGED <<dev, aEn, edits, loaded, force, rv, primed>>
      /\ UNCHANGED <<sent, archive, dropped>>
  BY DEF Spawn
<1> HIDE DEF v
<1>3. FramesOK(k, 0, <<>>)  BY AllChunks DEF FramesOK
<1>4. JobOK(k, v)  BY <1>1, <1>3, AllChunks DEF JobOK, IInv
<1> QED BY <1>1, <1>2, <1>4, WorkerOK DEF IInv, TypeOK

\* Steps outside the jobs.
LEMMA SetValueOK ==
  ASSUME IInv, NEW k \in Kpz, NEW r \in Regs, NEW v \in ValueOf(r), SetValue(k, r, v)
  PROVE  IInv'
<1>1. v \in Value  BY ValueIs
<1>2. \A l \in Kpz, s \in Regs : dev'[l][s] = (IF l = k /\ s = r THEN v ELSE dev[l][s])
      /\ dev' \in [Kpz -> [Regs -> Value]]
  BY <1>1 DEF SetValue, IInv, TypeOK
<1> QED BY <1>1, <1>2 DEF SetValue, IInv, TypeOK, JobOK, Owned, FramesOK

LEMMA EditOK == ASSUME IInv, NEW r \in Regs, Edit(r) PROVE IInv'
<1>1. aEn' \subseteq Regs /\ edits' \in 0 .. MaxEdits
  BY AModeAssumption DEF Edit, IInv, TypeOK
<1> QED BY <1>1 DEF Edit, IInv, TypeOK, JobOK, Owned, FramesOK

LEMMA ReloadOK == ASSUME IInv, Reload PROVE IInv'
BY DEF Reload, NewlyEnabled, IInv, TypeOK, JobOK, Owned, FramesOK

LEMMA StartStopOK ==
  ASSUME IInv, NEW k \in Kpz, NEW start \in BOOLEAN, StartStop(k, start)
  PROVE  IInv'
<1>1. edits' \in 0 .. MaxEdits  BY AModeAssumption DEF StartStop, IInv, TypeOK
<1>2. rv' \in [Kpz -> Cached] /\ \A l \in Kpz : Owned(rv'[l])
  BY DEF StartStop, IInv, TypeOK
<1>3. primed' \in [Kpz -> SUBSET Regs]  BY DEF StartStop, IInv, TypeOK
<1> QED BY <1>1, <1>2, <1>3 DEF StartStop, IInv, TypeOK, JobOK, Owned, FramesOK

LEMMA PrimeAgainOK == ASSUME IInv, NEW k \in Kpz, PrimeAgain(k) PROVE IInv'
<1>1. rv' \in [Kpz -> Cached] /\ \A l \in Kpz : Owned(rv'[l])
  BY DEF PrimeAgain, IInv, TypeOK
<1> QED BY <1>1 DEF PrimeAgain, IInv, TypeOK, JobOK, Owned, FramesOK

-----------------------------------------------------------------------------
(* The writer *)

\* A set of places of a sequence has a last one.
LEMMA LastPlace ==
  ASSUME NEW n \in Nat, NEW S \in SUBSET (1 .. n), S # {}
  PROVE  Max(S) \in S /\ \A y \in S : Max(S) >= y
<1> DEFINE T == {n - i : i \in S}
           R == OpToRel(<, Nat)
<1>1. \A i \in S : i \in Int /\ n - i \in Nat  OBVIOUS
<1>2. T \subseteq Nat /\ T # {}  BY <1>1
<1>3. PICK t \in T : \A y \in T : ~(<<y, t>> \in R)
  <2>1. IsWellFoundedOn(R, Nat)  BY NatLessThanWellFounded
  <2> HIDE DEF R, T
  <2> QED BY <1>2, <2>1, WFMin
<1>4. \A y \in T : ~(y < t)  BY <1>2, <1>3 DEF OpToRel
<1>5. PICK x \in S : t = n - x  OBVIOUS
<1>6. \A y \in S : x >= y
  <2> SUFFICES ASSUME NEW y \in S PROVE x >= y  OBVIOUS
  <2>1. ~(n - y < n - x)  BY <1>4, <1>5
  <2>2. x \in Int /\ y \in Int  BY <1>1
  <2> QED BY <2>1, <2>2
<1>7. \A z \in S : (\A y \in S : z >= y) => z = x  BY <1>1, <1>6
<1> QED BY <1>6, <1>7 DEF Max

\* The row of a register in a set of rows.
LEMMA RowIs ==
  ASSUME NEW rows \in SUBSET Value, NEW r \in Regs, \E v \in rows : v[1] = r
  PROVE  LET row == CHOOSE v \in rows : v[1] = r
         IN  row \in rows /\ row[1] = r /\ row \in ValueOf(r)
<1> DEFINE row == CHOOSE v \in rows : v[1] = r
<1>1. row \in rows /\ row[1] = r  OBVIOUS
<1> HIDE DEF row
<1>2. PICK s \in Regs : row \in ValueOf(s)  BY <1>1 DEF Value
<1>3. row[1] = s  BY <1>2, ValueIs
<1>4. row \in ValueOf(r)  BY <1>1, <1>2, <1>3
<1> QED BY <1>1, <1>4 DEF row

\* The places of s with a row of the register, and the row of a place.
Having(s, k, r, n) == {i \in 1 .. n : s[i].kpz = k /\ \E v \in s[i].rows : v[1] = r}
RowAt(s, i, r)     == CHOOSE v \in s[i].rows : v[1] = r

LEMMA SentIs ==
  ASSUME TypeOK
  PROVE  /\ Len(sent) \in Nat
         /\ \A i \in 1 .. Len(sent) : sent[i].kpz \in Kpz /\ sent[i].rows \in SUBSET Value
<1> DEFINE T == [kpz : Kpz, rows : SUBSET Value]
<1>1. sent \in Seq(T)  BY DEF TypeOK
<1>2. \A d \in T : d.kpz \in Kpz /\ d.rows \in SUBSET Value  OBVIOUS
<1> HIDE DEF T
<1>3. Len(sent) \in Nat /\ \A i \in 1 .. Len(sent) : sent[i] \in T  BY <1>1
<1> QED BY <1>2, <1>3

LEMMA FlushIs ==
  ASSUME NEW n, Flush(n)
  PROVE  /\ n \in 1 .. Len(sent) /\ sent' = SubSeq(sent, n + 1, Len(sent))
         /\ archive' = [k \in Kpz |-> [r \in Regs |->
                          IF Having(sent, k, r, n) = {} THEN archive[k][r]
                          ELSE RowAt(sent, Max(Having(sent, k, r, n)), r)]]
         /\ UNCHANGED <<dev, aEn, edits, loaded, force, rv, primed, worker, dropped>>
BY DEF Flush, Having, RowAt

LEMMA FlushOK == ASSUME IInv, NEW n, Flush(n) PROVE IInv'
<1>1. n \in 1 .. Len(sent) /\ Len(sent) \in Nat /\ n \in Nat  BY FlushIs, SentIs DEF IInv
<1>2. \A k \in Kpz, r \in Regs : archive'[k][r] \in ValueOf(r) \cup {NoValue}
  <2> SUFFICES ASSUME NEW k \in Kpz, NEW r \in Regs
               PROVE  archive'[k][r] \in ValueOf(r) \cup {NoValue}
    OBVIOUS
  <2>1. CASE Having(sent, k, r, n) = {}
    <3>1. archive'[k][r] = archive[k][r]  BY <2>1, FlushIs
    <3> QED BY <3>1 DEF IInv, Owned
  <2>2. CASE Having(sent, k, r, n) # {}
    <3> DEFINE m == Max(Having(sent, k, r, n))
    <3>1. m \in Having(sent, k, r, n)
      <4>1. Having(sent, k, r, n) \in SUBSET (1 .. n)  BY DEF Having
      <4> QED BY <1>1, <2>2, <4>1, LastPlace
    <3>2. archive'[k][r] = RowAt(sent, m, r)  BY <2>2, FlushIs
    <3> HIDE DEF m
    <3>3. m \in 1 .. Len(sent) /\ \E v \in sent[m].rows : v[1] = r  BY <1>1, <3>1 DEF Having
    <3>4. sent[m].rows \in SUBSET Value  BY <3>3, SentIs DEF IInv
    <3> QED BY <3>2, <3>3, <3>4, RowIs DEF RowAt
  <2> QED BY <2>1, <2>2
<1>3. archive' \in [Kpz -> Cached] /\ \A k \in Kpz : Owned(archive'[k])
  <2>1. \A k \in Kpz, r \in Regs : archive'[k][r] \in Value \cup {NoValue}  BY <1>2, ValueIs
  <2>2. archive' = [k \in Kpz |-> [r \in Regs |-> archive'[k][r]]]  BY FlushIs
  <2>3. archive' \in [Kpz -> Cached]  BY <2>1, <2>2 DEF Cached
  <2> QED BY <1>2, <2>3 DEF Owned
<1>4. sent' \in Seq([kpz : Kpz, rows : SUBSET Value]) /\ Len(sent') <= MaxSent
  <2> DEFINE T == [kpz : Kpz, rows : SUBSET Value]
  <2>1. sent \in Seq(T) /\ Len(sent) <= MaxSent /\ MaxSent \in Nat
    BY AModeAssumption DEF IInv, TypeOK
  <2>2. sent' = SubSeq(sent, n + 1, Len(sent))  BY FlushIs
  <2> HIDE DEF T
  <2>3. SubSeq(sent, n + 1, Len(sent)) \in Seq(T)
        /\ Len(SubSeq(sent, n + 1, Len(sent))) = Len(sent) - n
    BY <1>1, <2>1
  <2>4. Len(sent') <= MaxSent  BY <1>1, <2>1, <2>2, <2>3
  <2> QED BY <2>2, <2>3, <2>4 DEF T
<1>5. UNCHANGED <<dev, aEn, edits, loaded, force, rv, primed, worker, dropped>>  BY FlushIs
<1> QED BY <1>3, <1>4, <1>5 DEF IInv, TypeOK, JobOK, Owned, FramesOK

-----------------------------------------------------------------------------
(* Values keep their registers *)

LEMMA NextOK == ASSUME NoDuplicates, IInv, [Next]_vars PROVE IInv'
<1>1. CASE \E k \in Kpz : \E r \in Regs : \E v \in ValueOf(r) : SetValue(k, r, v)
  BY <1>1, SetValueOK
<1>2. CASE \E r \in Regs : Edit(r)  BY <1>2, EditOK
<1>3. CASE Reload  BY <1>3, ReloadOK
<1>4. CASE \E k \in Kpz, start \in BOOLEAN : StartStop(k, start)  BY <1>4, StartStopOK
<1>5. CASE \E k \in Kpz : PrimeAgain(k) \/ Spawn(k)  BY <1>5, PrimeAgainOK, SpawnOK
<1>6. CASE \E k \in Kpz : Ask(k)
  BY <1>6, ChunkAnsweredOK, JobStopsOK DEF Ask
<1>7. CASE \E k \in Kpz : Decode(k)  BY <1>7, DecodeOK
<1>8. CASE \E k \in Kpz : JobEnds(k)  BY <1>8, JobEndsOK
<1>9. CASE \E k \in Kpz : \E n \in DOMAIN Plan[k] : HookFails(k, n)  BY <1>9, HookFailsOK
<1>10. CASE \E n \in 1 .. MaxSent : Flush(n)  BY <1>10, FlushOK
<1>11. CASE UNCHANGED vars
  BY <1>11 DEF vars, IInv, TypeOK, JobOK, Owned, FramesOK
<1> QED BY <1>1, <1>2, <1>3, <1>4, <1>5, <1>6, <1>7, <1>8, <1>9, <1>10, <1>11 DEF Next

\* The frames of a job are the replies to the requests asked so far, or they are
\* too few (modbus_service.rs 418-429), through every step of the poll.
THEOREM Inductive == ASSUME NoDuplicates PROVE Spec => []IInv
<1>1. IInv /\ [Next]_vars => IInv'  BY NextOK
<1> QED BY <1>1, InitOK, PTL DEF Spec

\* A value is cached and archived as the value of the register it was read from,
\* whatever is lost, refused or fails (modbus_service.rs 418-429, amode.rs
\* 385-430), unless a reply arrives twice.
THEOREM ValuesKeepTheirRegisters == ASSUME NoDuplicates PROVE Spec => []ValueOfItsRegister
<1>1. IInv => ValueOfItsRegister
  <2> SUFFICES ASSUME IInv PROVE ValueOfItsRegister  OBVIOUS
  <2>1. \A f : Owned(f) => \A r \in Regs : f[r] = NoValue \/ f[r][1] = r
    BY ValueIs DEF Owned
  <2> QED BY <2>1 DEF IInv, JobOK, ValueOfItsRegister
<1> QED BY <1>1, Inductive, PTL

-----------------------------------------------------------------------------
(* The row of a register that was produced last *)

JobRows(k) == IF worker[k] = NoWorker THEN {} ELSE worker[k].rows

LastRow(rows, s, a, k, r) ==
  LET ofJob == {v \in rows : v[1] = r}
      H     == Having(s, k, r, Len(s))
  IN  IF ofJob # {} THEN CHOOSE v \in ofJob : TRUE
      ELSE IF H # {} THEN RowAt(s, Max(H), r) ELSE a[k][r]

LEMMA LastRowIs ==
  ASSUME TypeOK, TypeOK', NEW k, NEW r
  PROVE  /\ LastRowOf(k, r) = LastRow(JobRows(k), sent, archive, k, r)
         /\ LastRowOf(k, r)' = LastRow(JobRows(k)', sent', archive', k, r)
<1>1. DOMAIN sent = 1 .. Len(sent) /\ DOMAIN sent' = 1 .. Len(sent')
  <2> DEFINE T == [kpz : Kpz, rows : SUBSET Value]
  <2>1. sent \in Seq(T) /\ sent' \in Seq(T)  BY DEF TypeOK
  <2> HIDE DEF T
  <2> QED BY <2>1
<1>2. {v \in {} : v[1] = r} = {}  OBVIOUS
<1>3. LastRowOf(k, r) = LastRow(JobRows(k), sent, archive, k, r)
  <2>1. CASE worker[k] = NoWorker  BY <1>1, <1>2, <2>1 DEF LastRowOf, LastRow, JobRows, Having, RowAt
  <2>2. CASE worker[k] # NoWorker  BY <1>1, <2>2 DEF LastRowOf, LastRow, JobRows, Having, RowAt
  <2> QED BY <2>1, <2>2
<1>4. LastRowOf(k, r)' = LastRow(JobRows(k)', sent', archive', k, r)
  <2>1. CASE worker'[k] = NoWorker  BY <1>1, <1>2, <2>1 DEF LastRowOf, LastRow, JobRows, Having, RowAt
  <2>2. CASE worker'[k] # NoWorker  BY <1>1, <2>2 DEF LastRowOf, LastRow, JobRows, Having, RowAt
  <2> QED BY <2>1, <2>2
<1> QED BY <1>3, <1>4

\* U holds the places of S from n + 1 on, counted from there.
Later(S, U, n, m) ==
  /\ n \in Nat /\ m \in Nat /\ m >= n /\ S \in SUBSET (1 .. m) /\ U \in SUBSET (1 .. m)
  /\ \A i \in 1 .. m : i \in U <=> n + i \in S

LEMMA LastOfLater ==
  ASSUME NEW n, NEW m, NEW S, NEW U, Later(S, U, n, m), U # {}
  PROVE  Max(S) = n + Max(U)
<1> USE DEF Later
<1>1. U \in SUBSET (1 .. m) /\ S \in SUBSET (1 .. m) /\ S # {}
  <2>1. PICK i \in U : TRUE  OBVIOUS
  <2>2. n + i \in S  BY <2>1
  <2> QED BY <2>2
<1>2. Max(U) \in U /\ \A y \in U : Max(U) >= y  BY <1>1, LastPlace
<1>3. Max(S) \in S /\ \A y \in S : Max(S) >= y  BY <1>1, LastPlace
<1>4. n + Max(U) \in S /\ Max(U) \in 1 .. m /\ Max(S) \in 1 .. m  BY <1>1, <1>2, <1>3
<1>5. Max(S) >= n + Max(U)  BY <1>3, <1>4
<1>6. Max(S) - n \in 1 .. m /\ n + (Max(S) - n) = Max(S)  BY <1>4, <1>5
<1>7. Max(S) - n \in U  BY <1>3, <1>6
<1>8. Max(U) >= Max(S) - n  BY <1>2, <1>7
<1> QED BY <1>4, <1>5, <1>8

\* The first n deltas of s go to the archive a, which leaves t and b, for one register.
Stored(s, t, a, b, n, k, r) ==
  /\ n \in 1 .. Len(s) /\ t = SubSeq(s, n + 1, Len(s))
  /\ b[k][r] = IF Having(s, k, r, n) = {} THEN a[k][r] ELSE RowAt(s, Max(Having(s, k, r, n)), r)

\* Storing the first deltas moves rows from the channel to the archive.
LEMMA FlushShifts ==
  ASSUME NEW D, NEW s \in Seq(D), NEW n, NEW t, NEW rows, NEW a, NEW b, NEW k, NEW r,
         Stored(s, t, a, b, n, k, r)
  PROVE  LastRow(rows, t, b, k, r) = LastRow(rows, s, a, k, r)
<1> DEFINE H == Having(s, k, r, Len(s))
           U == Having(t, k, r, Len(t))
           F == Having(s, k, r, n)
<1>1. Len(s) \in Nat /\ n \in Nat /\ n <= Len(s) /\ Len(t) = Len(s) - n
      /\ \A i \in 1 .. Len(t) : t[i] = s[n + i]
  BY DEF Stored
<1>2. U = {i \in 1 .. Len(s) : n + i \in H}
  <2>1. \A i \in 1 .. Len(t) : i \in U <=> n + i \in H  BY <1>1 DEF Having
  <2>2. \A i \in 1 .. Len(s) : n + i \in H => i \in 1 .. Len(t)  BY <1>1 DEF Having
  <2>3. \A i \in 1 .. Len(t) : i \in 1 .. Len(s)  BY <1>1
  <2>4. U \subseteq 1 .. Len(t)  BY DEF Having
  <2> HIDE DEF U, H
  <2> QED BY <2>1, <2>2, <2>3, <2>4
<1>3. CASE U # {}
  <2>1. H \in SUBSET (1 .. Len(s)) /\ U \in SUBSET (1 .. Len(s))  BY <1>1 DEF Having
  <2>2. Max(H) = n + Max(U) /\ H # {}
    <3> HIDE DEF H, U
    <3>1. H # {}  BY <1>2, <1>3
    <3>2. \A i \in 1 .. Len(s) : i \in U <=> n + i \in H  BY <1>2
    <3> DEFINE m == Len(s)
    <3>3. Later(H, U, n, m)  BY <1>1, <2>1, <3>2 DEF Later
    <3> HIDE DEF m
    <3>4. Max(H) = n + Max(U)  BY <1>3, <3>3, LastOfLater
    <3> QED BY <3>1, <3>4
  <2>3. Max(U) \in 1 .. Len(t)
    <3>1. U \in SUBSET (1 .. Len(t)) /\ Len(t) \in Nat  BY <1>1 DEF Having
    <3>2. Max(U) \in U  BY <1>3, <3>1, LastPlace
    <3> QED BY <3>1, <3>2
  <2>4. t[Max(U)] = s[Max(H)]  BY <1>1, <2>2, <2>3
  <2>5. RowAt(t, Max(U), r) = RowAt(s, Max(H), r)  BY <2>4 DEF RowAt
  <2> HIDE DEF U, H
  <2> QED BY <1>3, <2>2, <2>5 DEF LastRow, U, H
<1>4. CASE U = {}
  <2>1. H = F
    <3>1. F \subseteq H  BY <1>1 DEF Having
    <3>2. ASSUME NEW i \in H PROVE i \in F
      <4>1. i \in 1 .. Len(s)  BY <3>2 DEF Having
      <4>2. i > n => i - n \in 1 .. Len(s) /\ n + (i - n) = i  BY <1>1, <4>1
      <4>3. ~(i > n)
        <5> HIDE DEF U, H
        <5> QED BY <1>2, <1>4, <3>2, <4>2
      <4>4. i \in 1 .. n  BY <1>1, <4>1, <4>3
      <4> QED BY <3>2, <4>4 DEF Having
    <3> QED BY <3>1, <3>2
  <2> HIDE DEF U, H, F
  <2>2. CASE H = {}
    <3>1. b[k][r] = a[k][r]  BY <2>1, <2>2 DEF F, Stored
    <3> QED BY <1>4, <2>2, <3>1 DEF LastRow, U, H
  <2>3. CASE H # {}
    <3>1. b[k][r] = RowAt(s, Max(H), r)  BY <2>1, <2>3 DEF F, Stored
    <3> QED BY <1>4, <2>3, <3>1 DEF LastRow, U, H
  <2> QED BY <2>2, <2>3
<1> QED BY <1>3, <1>4

\* Handing over the rows of a job moves them from the job to the channel.
LEMMA AppendMoves ==
  ASSUME NEW D, NEW s \in Seq(D), NEW m, NEW new, NEW t, t = Append(s, [kpz |-> m, rows |-> new]),
         [kpz |-> m, rows |-> new] \in D, NEW a, NEW k, NEW r, NEW rows
  PROVE  /\ m # k => LastRow(rows, t, a, k, r) = LastRow(rows, s, a, k, r)
         /\ m = k /\ (\A v, u \in new : v[1] = u[1] => v = u) =>
              LastRow({}, t, a, k, r) = LastRow(new, s, a, k, r)
<1> DEFINE H == Having(s, k, r, Len(s))
           G == Having(t, k, r, Len(t))
           last == Len(s) + 1
           d == [kpz |-> m, rows |-> new]
<1>1. /\ Len(s) \in Nat /\ Len(t) = last /\ t[last] = d
      /\ \A i \in 1 .. Len(s) : t[i] = s[i]
  <2> HIDE DEF d
  <2> QED BY DEF d
<1>2. H \in SUBSET (1 .. Len(s)) /\ G \in SUBSET (1 .. last)  BY <1>1 DEF Having
<1>3. last \in G <=> m = k /\ \E v \in new : v[1] = r  BY <1>1 DEF Having
<1>4. \A i \in 1 .. Len(s) : i \in G <=> i \in H  BY <1>1 DEF Having
<1>5. ASSUME last \notin G PROVE G = H /\ LastRow(rows, t, a, k, r) = LastRow(rows, s, a, k, r)
                              /\ LastRow({}, t, a, k, r) = LastRow({}, s, a, k, r)
  <2> HIDE DEF G, H
  <2>1. G = H
    <3>1. \A i \in 1 .. last : i # last => i \in 1 .. Len(s)  BY <1>1
    <3>2. G \subseteq 1 .. Len(s)  BY <1>2, <1>5, <3>1
    <3> QED BY <1>2, <1>4, <3>2
  <2>2. H # {} => RowAt(t, Max(H), r) = RowAt(s, Max(H), r)
    <3> SUFFICES ASSUME H # {} PROVE RowAt(t, Max(H), r) = RowAt(s, Max(H), r)  OBVIOUS
    <3>1. Max(H) \in 1 .. Len(s)  BY <1>1, <1>2, LastPlace
    <3> QED BY <1>1, <3>1 DEF RowAt
  <2> QED BY <2>1, <2>2 DEF LastRow, G, H
<1>6. ASSUME m = k, \A v, u \in new : v[1] = u[1] => v = u
      PROVE  LastRow({}, t, a, k, r) = LastRow(new, s, a, k, r)
  <2>1. CASE \E v \in new : v[1] = r
    <3>1. PICK v \in new : v[1] = r  BY <2>1
    <3>2. LastRow(new, s, a, k, r) = v
      <4>1. {u \in new : u[1] = r} = {v}  BY <1>6, <3>1
      <4> QED BY <4>1 DEF LastRow
    <3>3. Max(G) = last /\ G # {}
      <4>1. last \in G  BY <1>3, <1>6, <2>1
      <4>2. last \in Nat  BY <1>1
      <4> HIDE DEF G, last
      <4>3. Max(G) \in G /\ \A y \in G : Max(G) >= y  BY <1>2, <4>1, <4>2, LastPlace
      <4>4. Max(G) \in 1 .. last /\ Max(G) >= last  BY <1>2, <4>1, <4>3
      <4> QED BY <4>1, <4>2, <4>4
    <3>4. RowAt(t, last, r) = v  BY <1>1, <1>6, <3>1 DEF RowAt
    <3>5. LastRow({}, t, a, k, r) = v
      <4>1. {u \in {} : u[1] = r} = {}  OBVIOUS
      <4> HIDE DEF G, last
      <4> QED BY <3>3, <3>4, <4>1 DEF LastRow, G
    <3> QED BY <3>2, <3>5
  <2>2. CASE ~\E v \in new : v[1] = r
    <3>1. {u \in new : u[1] = r} = {} /\ {u \in {} : u[1] = r} = {}  BY <2>2
    <3>2. LastRow({}, t, a, k, r) = LastRow({}, s, a, k, r)  BY <1>3, <1>5, <2>2
    <3>3. LastRow({}, s, a, k, r) = LastRow(new, s, a, k, r)  BY <3>1 DEF LastRow
    <3> QED BY <3>2, <3>3
  <2> QED BY <2>1, <2>2
<1> QED BY <1>3, <1>5, <1>6

-----------------------------------------------------------------------------
(* What is cached and what was archived *)

\* No merge removes a flag of a register that another KPZ polls.
KeepsOthersFlags ==
  \A k \in Kpz : JobEnds(k) =>
    \A l \in Kpz \ {k} : (force \ worker[k].force) \cap RegsOf(l) = {}

\* The caches that count for a KPZ: the copies of its job, if there is one.
RvOf(k)     == IF worker[k] = NoWorker THEN rv[k] ELSE worker[k].rv
PrimedOf(k) == IF worker[k] = NoWorker THEN primed[k] ELSE worker[k].primed
ForceOf(k)  == IF worker[k] = NoWorker THEN force ELSE worker[k].force

Settled(k) ==
  \A r \in ((RegsOf(k) \cap loaded \cap PrimedOf(k)) \ ForceOf(k)) \ dropped[k] :
    RvOf(k)[r] = LastRowOf(k, r)

\* A copy of the flags is never ahead of the table, one of the registers
\* archived once never behind it, and a job has one row of a register.
CopyOK(k) ==
  worker[k] # NoWorker =>
    /\ worker[k].force \subseteq force \cap RegsOf(k)
    /\ primed[k] \subseteq worker[k].primed
    /\ \A v, u \in worker[k].rows : v[1] = u[1] => v = u

LInv == IInv /\ \A k \in Kpz : CopyOK(k) /\ Settled(k)

LEMMA LInvImplies == LInv => LastArchived
<1> SUFFICES ASSUME LInv, NEW k \in Kpz,
                    NEW r \in ((RegsOf(k) \cap loaded \cap PrimedOf(k)) \ ForceOf(k)) \ dropped[k]
             PROVE  RvOf(k)[r] = LastRowOf(k, r)
  BY DEF LastArchived, RvOf, PrimedOf, ForceOf
<1> QED BY DEF LInv, Settled

LEMMA LInitOK == Init => LInv
<1> SUFFICES ASSUME Init PROVE LInv  OBVIOUS
<1>1. \A k \in Kpz : CopyOK(k) /\ Settled(k)  BY DEF Init, CopyOK, Settled
<1> QED BY <1>1, InitOK DEF LInv

\* Steps that leave the rows of a KPZ and what it has cached of them.
LEMMA SettledStays ==
  ASSUME NEW l \in Kpz, Settled(l), RvOf(l)' = RvOf(l), PrimedOf(l)' \subseteq PrimedOf(l),
         dropped'[l] = dropped[l],
         \A r \in RegsOf(l) : r \in loaded' /\ r \notin ForceOf(l)' => r \in loaded /\ r \notin ForceOf(l),
         \A r \in RegsOf(l) : LastRowOf(l, r)' = LastRowOf(l, r)
  PROVE  Settled(l)'
<1> SUFFICES ASSUME NEW r, r \in RegsOf(l), r \in loaded', r \in PrimedOf(l)', r \notin ForceOf(l)',
                    r \notin dropped'[l]
             PROVE  RvOf(l)'[r] = LastRowOf(l, r)'
  BY DEF Settled, RegsOf
<1>1. r \in loaded /\ r \in PrimedOf(l) /\ r \notin ForceOf(l) /\ r \notin dropped[l]  OBVIOUS
<1>2. RvOf(l)[r] = LastRowOf(l, r)  BY <1>1 DEF Settled
<1> QED BY <1>2

LEMMA SameRows ==
  ASSUME TypeOK, TypeOK', NEW l \in Kpz, JobRows(l)' = JobRows(l), UNCHANGED <<sent, archive>>
  PROVE  \A r : LastRowOf(l, r)' = LastRowOf(l, r)
BY LastRowIs

\* Nothing of this is touched.
LEMMA NothingTouched ==
  ASSUME LInv, TypeOK', UNCHANGED <<loaded, force, rv, primed, worker, sent, archive, dropped>>
  PROVE  \A l \in Kpz : CopyOK(l)' /\ Settled(l)'
<1> SUFFICES ASSUME NEW l \in Kpz PROVE CopyOK(l)' /\ Settled(l)'  OBVIOUS
<1>1. CopyOK(l)'  BY DEF LInv, CopyOK, RegsOf
<1>2. JobRows(l)' = JobRows(l) /\ RvOf(l)' = RvOf(l) /\ PrimedOf(l)' = PrimedOf(l) /\ ForceOf(l)' = ForceOf(l)
  BY DEF JobRows, RvOf, PrimedOf, ForceOf
<1>3. \A r : LastRowOf(l, r)' = LastRowOf(l, r)  BY <1>2, SameRows DEF LInv, IInv
<1> QED BY <1>1, <1>2, <1>3, SettledStays DEF LInv

LEMMA ReloadSettles == ASSUME LInv, TypeOK', Reload PROVE \A l \in Kpz : CopyOK(l)' /\ Settled(l)'
<1> SUFFICES ASSUME NEW l \in Kpz PROVE CopyOK(l)' /\ Settled(l)'  OBVIOUS
<1>1. worker[l] = NoWorker /\ worker'[l] = NoWorker  BY DEF Reload, NoneRuns
<1>2. CopyOK(l)'  BY <1>1 DEF CopyOK
<1>3. JobRows(l)' = JobRows(l) /\ RvOf(l)' = RvOf(l) /\ PrimedOf(l)' = PrimedOf(l)
      /\ ForceOf(l)' = force' /\ ForceOf(l) = force
  BY <1>1 DEF JobRows, RvOf, PrimedOf, ForceOf, Reload
<1>4. \A r : LastRowOf(l, r)' = LastRowOf(l, r)  BY <1>3, SameRows DEF LInv, IInv, Reload
<1>5. \A r : r \in loaded' /\ r \notin force' => r \in loaded /\ r \notin force
  BY DEF Reload, NewlyEnabled
<1> QED BY <1>2, <1>3, <1>4, <1>5, SettledStays DEF LInv, Reload

LEMMA StartStopSettles ==
  ASSUME LInv, TypeOK', NEW k \in Kpz, NEW start \in BOOLEAN, StartStop(k, start)
  PROVE  \A l \in Kpz : CopyOK(l)' /\ Settled(l)'
<1> SUFFICES ASSUME NEW l \in Kpz PROVE CopyOK(l)' /\ Settled(l)'  OBVIOUS
<1>1. worker[l] = NoWorker /\ worker'[l] = NoWorker  BY DEF StartStop, NoneRuns
<1>2. CopyOK(l)'  BY <1>1 DEF CopyOK
<1>3. CASE l = k
  <2>1. PrimedOf(l)' = {}  BY <1>1, <1>3 DEF PrimedOf, StartStop, LInv, IInv, TypeOK
  <2> QED BY <1>2, <2>1 DEF Settled
<1>4. CASE l # k
  <2>1. JobRows(l)' = JobRows(l) /\ RvOf(l)' = RvOf(l) /\ PrimedOf(l)' = PrimedOf(l) /\ ForceOf(l)' = ForceOf(l)
    BY <1>1, <1>4 DEF JobRows, RvOf, PrimedOf, ForceOf, StartStop, LInv, IInv, TypeOK
  <2>2. \A r : LastRowOf(l, r)' = LastRowOf(l, r)  BY <2>1, SameRows DEF LInv, IInv, StartStop
  <2> QED BY <1>2, <2>1, <2>2, SettledStays DEF LInv, StartStop
<1> QED BY <1>3, <1>4

\* A KPZ whose cache is read from the table has archived no register since.
LEMMA PrimeAgainSettles ==
  ASSUME LInv, TypeOK', NEW k \in Kpz, PrimeAgain(k)
  PROVE  \A l \in Kpz : CopyOK(l)' /\ Settled(l)'
<1> SUFFICES ASSUME NEW l \in Kpz PROVE CopyOK(l)' /\ Settled(l)'  OBVIOUS
<1>1. worker[l] = NoWorker /\ worker'[l] = NoWorker  BY DEF PrimeAgain, NoneRuns
<1>2. CopyOK(l)'  BY <1>1 DEF CopyOK
<1>3. CASE l = k
  <2>1. PrimedOf(l)' = {}  BY <1>1, <1>3 DEF PrimedOf, PrimeAgain
  <2> QED BY <1>2, <2>1 DEF Settled
<1>4. CASE l # k
  <2>1. JobRows(l)' = JobRows(l) /\ RvOf(l)' = RvOf(l) /\ PrimedOf(l)' = PrimedOf(l) /\ ForceOf(l)' = ForceOf(l)
    BY <1>1, <1>4 DEF JobRows, RvOf, PrimedOf, ForceOf, PrimeAgain, LInv, IInv, TypeOK
  <2>2. \A r : LastRowOf(l, r)' = LastRowOf(l, r)  BY <2>1, SameRows DEF LInv, IInv, PrimeAgain
  <2> QED BY <1>2, <2>1, <2>2, SettledStays DEF LInv, PrimeAgain
<1> QED BY <1>3, <1>4

LEMMA FlushSettles ==
  ASSUME LInv, TypeOK', NEW n, Flush(n)
  PROVE  \A l \in Kpz : CopyOK(l)' /\ Settled(l)'
<1> SUFFICES ASSUME NEW l \in Kpz PROVE CopyOK(l)' /\ Settled(l)'  OBVIOUS
<1>1. UNCHANGED <<dev, aEn, edits, loaded, force, rv, primed, worker, dropped>>  BY FlushIs
<1>2. CopyOK(l)'  BY <1>1 DEF LInv, CopyOK, RegsOf
<1>3. JobRows(l)' = JobRows(l) /\ RvOf(l)' = RvOf(l) /\ PrimedOf(l)' = PrimedOf(l) /\ ForceOf(l)' = ForceOf(l)
  BY <1>1 DEF JobRows, RvOf, PrimedOf, ForceOf
<1>4. \A r \in RegsOf(l) : LastRowOf(l, r)' = LastRowOf(l, r)
  <2> SUFFICES ASSUME NEW r \in RegsOf(l) PROVE LastRowOf(l, r)' = LastRowOf(l, r)  OBVIOUS
  <2> DEFINE T == [kpz : Kpz, rows : SUBSET Value]
  <2>1. sent \in Seq(T)  BY DEF LInv, IInv, TypeOK
  <2> HIDE DEF T
  <2>2. r \in Regs  BY PlanType DEF RegsOf, Range
  <2>3. Stored(sent, sent', archive, archive', n, l, r)  BY <2>2, FlushIs DEF Stored
  <2>4. LastRow(JobRows(l), sent', archive', l, r) = LastRow(JobRows(l), sent, archive, l, r)
    BY <2>1, <2>3, FlushShifts
  <2> QED BY <1>3, <2>4, LastRowIs DEF LInv, IInv
<1> QED BY <1>1, <1>2, <1>3, <1>4, SettledStays DEF LInv

-----------------------------------------------------------------------------
(* The same for the steps of jobs *)

\* A step of the job of another KPZ.
LEMMA OthersStay ==
  ASSUME LInv, TypeOK', NEW k \in Kpz, NEW j, worker' = [worker EXCEPT ![k] = j],
         UNCHANGED <<loaded, force, rv, primed, sent, archive>>,
         NEW l \in Kpz, l # k, dropped'[l] = dropped[l]
  PROVE  CopyOK(l)' /\ Settled(l)'
<1>1. worker'[l] = worker[l]  BY DEF LInv, IInv, TypeOK
<1>2. CopyOK(l)'  BY <1>1 DEF LInv, CopyOK, RegsOf
<1>3. JobRows(l)' = JobRows(l) /\ RvOf(l)' = RvOf(l) /\ PrimedOf(l)' = PrimedOf(l) /\ ForceOf(l)' = ForceOf(l)
  BY <1>1 DEF JobRows, RvOf, PrimedOf, ForceOf
<1>4. \A r : LastRowOf(l, r)' = LastRowOf(l, r)  BY <1>3, SameRows DEF LInv, IInv
<1> QED BY <1>2, <1>3, <1>4, SettledStays DEF LInv

LEMMA SpawnSettles ==
  ASSUME LInv, TypeOK', NEW k \in Kpz, Spawn(k)
  PROVE  \A l \in Kpz : CopyOK(l)' /\ Settled(l)'
<1> DEFINE v == [pc |-> "ask", chunk |-> 0, frames |-> <<>>, rv |-> rv[k], primed |-> primed[k],
                 force |-> force \cap RegsOf(k), rows |-> {}]
<1>1. /\ worker[k] = NoWorker /\ worker' = [worker EXCEPT ![k] = v]
      /\ UNCHANGED <<loaded, force, rv, primed, sent, archive, dropped>>
  BY DEF Spawn
<1>2. v.rv = rv[k] /\ v.primed = primed[k] /\ v.force = force \cap RegsOf(k) /\ v.rows = {}
  OBVIOUS
<1>3. v # NoWorker
  <2>1. rv[k] \in Cached /\ primed[k] \subseteq Regs /\ force \subseteq Regs
    BY DEF LInv, IInv, TypeOK
  <2>2. v \in Job  BY <2>1 DEF Job
  <2> QED BY <2>2, NoWorkerAssumption
<1> HIDE DEF v
<1>4. worker'[k] = v  BY <1>1 DEF LInv, IInv, TypeOK
<1>5. CopyOK(k)'  BY <1>1, <1>2, <1>4 DEF CopyOK, RegsOf
<1>6. JobRows(k)' = JobRows(k) /\ RvOf(k)' = RvOf(k) /\ PrimedOf(k)' = PrimedOf(k)
      /\ ForceOf(k) = force /\ ForceOf(k)' = force \cap RegsOf(k)
  BY <1>1, <1>2, <1>3, <1>4 DEF JobRows, RvOf, PrimedOf, ForceOf
<1>7. \A r : LastRowOf(k, r)' = LastRowOf(k, r)  BY <1>1, <1>6, SameRows DEF LInv, IInv
<1>8. Settled(k)'  BY <1>1, <1>6, <1>7, SettledStays DEF LInv
<1>9. \A l \in Kpz : l # k => CopyOK(l)' /\ Settled(l)'  BY <1>1, OthersStay
<1> QED BY <1>5, <1>8, <1>9

\* A step of the exchange leaves caches and rows of the job.
LEMMA ExchangeSettles ==
  ASSUME LInv, TypeOK', NEW k \in Kpz, worker[k] # NoWorker, NEW v \in Job,
         worker' = [worker EXCEPT ![k] = v],
         UNCHANGED <<loaded, force, rv, primed, sent, archive, dropped>>,
         v.rv = worker[k].rv, v.primed = worker[k].primed, v.force = worker[k].force,
         v.rows = worker[k].rows
  PROVE  \A l \in Kpz : CopyOK(l)' /\ Settled(l)'
<1>1. worker'[k] = v /\ v # NoWorker  BY NoWorkerAssumption DEF LInv, IInv, TypeOK
<1>2. CopyOK(k)'  BY <1>1 DEF LInv, CopyOK, RegsOf
<1>3. JobRows(k)' = JobRows(k) /\ RvOf(k)' = RvOf(k) /\ PrimedOf(k)' = PrimedOf(k) /\ ForceOf(k)' = ForceOf(k)
  BY <1>1 DEF JobRows, RvOf, PrimedOf, ForceOf
<1>4. \A r : LastRowOf(k, r)' = LastRowOf(k, r)  BY <1>3, SameRows DEF LInv, IInv
<1>5. Settled(k)'  BY <1>3, <1>4, SettledStays DEF LInv
<1>6. \A l \in Kpz : l # k => CopyOK(l)' /\ Settled(l)'  BY OthersStay
<1> QED BY <1>2, <1>5, <1>6

LEMMA AskSettles ==
  ASSUME NoDuplicates, LInv, TypeOK', NEW k \in Kpz, Ask(k)
  PROVE  \A l \in Kpz : CopyOK(l)' /\ Settled(l)'
<1>1. CASE \E lost, refused \in SUBSET DOMAIN Plan[k], twice \in BOOLEAN :
             ChunkAnswered(k, lost, refused, twice)
  <2>1. PICK lost \in SUBSET DOMAIN Plan[k], refused \in SUBSET DOMAIN Plan[k], twice \in BOOLEAN :
          ChunkAnswered(k, lost, refused, twice)
    BY <1>1
  <2>2. PICK v \in Job : /\ worker' = [worker EXCEPT ![k] = v] /\ v.rv = worker[k].rv
                         /\ v.primed = worker[k].primed /\ v.force = worker[k].force
                         /\ v.rows = worker[k].rows
    BY <2>1, ChunkJob DEF LInv
  <2>3. worker[k] # NoWorker /\ UNCHANGED <<loaded, force, rv, primed, sent, archive, dropped>>
    BY <2>1 DEF ChunkAnswered, Asks
  <2> QED BY <2>2, <2>3, ExchangeSettles
<1>2. CASE ChunkFails(k) \/ Mismatch(k)
  <2> DEFINE v == [worker[k] EXCEPT !.pc = "done"]
  <2>1. worker[k] \in Job /\ worker[k] # NoWorker
    BY <1>2, JobType DEF LInv, IInv, ChunkFails, Mismatch, Asks, AllAsked
  <2>2. worker' = [worker EXCEPT ![k] = v]
        /\ UNCHANGED <<loaded, force, rv, primed, sent, archive, dropped>>
    BY <1>2 DEF ChunkFails, Mismatch
  <2>3. /\ v \in Job /\ v.rv = worker[k].rv /\ v.primed = worker[k].primed
        /\ v.force = worker[k].force /\ v.rows = worker[k].rows
    BY <2>1 DEF Job
  <2> HIDE DEF v
  <2> QED BY <2>1, <2>2, <2>3, ExchangeSettles
<1> QED BY <1>1, <1>2 DEF Ask

\* A job becomes v after position n: the registers in written count as archived,
\* of which the rows of those in kept go on and the others are lost.
Decoded(k, n, v, written, kept) ==
  /\ AllAsked(k) /\ AllAnswered(k) /\ n \in 0 .. Len(Plan[k])
  /\ written \subseteq Read(k, n) /\ kept \subseteq written
  /\ worker' = [worker EXCEPT ![k] = v] /\ UNCHANGED <<loaded, force, rv, primed, sent, archive>>
  /\ \A r \in Regs : v.rv[r] = IF r \in Read(k, n) THEN ReadValue(k, r) ELSE worker[k].rv[r]
  /\ v.primed = worker[k].primed \cup written /\ v.force = worker[k].force \ written
  /\ v.rows = {ReadValue(k, r) : r \in kept}
  /\ Archives(k, n) \subseteq written \cup dropped'[k]
  /\ dropped[k] \subseteq written \cup dropped'[k] /\ written \ kept \subseteq dropped'[k]

\* What is decoded and not archived anew is what was archived before.
LEMMA ReadSettles ==
  ASSUME LInv, TypeOK', NEW k \in Kpz, NEW n, NEW v \in Job, NEW written, NEW kept,
         Decoded(k, n, v, written, kept)
  PROVE  CopyOK(k)' /\ Settled(k)'
<1> USE DEF Decoded
<1> DEFINE w == worker[k]
<1>1. worker'[k] = v /\ v # NoWorker  BY NoWorkerAssumption DEF LInv, IInv, TypeOK
<1>2. w # NoWorker /\ w.rows = {}  BY DEF LInv, IInv, AllAsked, JobOK
<1>3. \A r \in Read(k, n) : r \in Regs /\ ReadValue(k, r)[1] = r
  BY ReadIs, ValueIs DEF LInv
<1>4. CopyOK(k)'
  <2>1. v.force \subseteq force \cap RegsOf(k) /\ primed[k] \subseteq v.primed
    BY <1>2 DEF LInv, CopyOK
  <2>2. \A x, y \in v.rows : x[1] = y[1] => x = y  BY <1>3
  <2> QED BY <1>1, <2>1, <2>2 DEF CopyOK, RegsOf
<1>5. JobRows(k) = {} /\ JobRows(k)' = v.rows  BY <1>1, <1>2 DEF JobRows
<1>6. ASSUME NEW r \in kept PROVE LastRowOf(k, r)' = ReadValue(k, r)
  <2>1. {u \in v.rows : u[1] = r} = {ReadValue(k, r)}  BY <1>3
  <2>2. LastRow(v.rows, sent', archive', k, r) = ReadValue(k, r)  BY <2>1 DEF LastRow
  <2> QED BY <1>5, <2>2, LastRowIs DEF LInv, IInv
<1>7. ASSUME NEW r, r \notin kept PROVE LastRowOf(k, r)' = LastRowOf(k, r)
  <2>1. {u \in v.rows : u[1] = r} = {} /\ {u \in {} : u[1] = r} = {}  BY <1>3, <1>7
  <2>2. LastRow(JobRows(k)', sent', archive', k, r) = LastRow(JobRows(k), sent, archive, k, r)
    BY <1>5, <2>1 DEF LastRow
  <2> QED BY <2>2, LastRowIs DEF LInv, IInv
<1>8. Settled(k)'
  <2> SUFFICES ASSUME NEW r, r \in RegsOf(k), r \in loaded', r \in PrimedOf(k)', r \notin ForceOf(k)',
                      r \notin dropped'[k]
               PROVE  RvOf(k)'[r] = LastRowOf(k, r)'
    BY DEF Settled, RegsOf
  <2>1. RvOf(k)' = v.rv /\ PrimedOf(k)' = v.primed /\ ForceOf(k)' = v.force /\ r \in Regs
    BY <1>1, PlanType DEF RvOf, PrimedOf, ForceOf, RegsOf, Range
  <2>2. CASE r \in written
    <3>1. r \in kept /\ r \in Read(k, n)  BY <2>2
    <3> QED BY <1>6, <2>1, <3>1
  <2>3. CASE r \notin written
    <3>1. r \in loaded /\ r \in w.primed /\ r \notin w.force /\ r \notin dropped[k]
          /\ r \notin Archives(k, n)
      BY <2>1, <2>3
    <3>2. w.rv[r] = LastRowOf(k, r)  BY <1>2, <3>1 DEF LInv, Settled, RvOf, PrimedOf, ForceOf
    <3>3. r \in Read(k, n) => w.rv[r] = ReadValue(k, r)  BY <3>1 DEF Archives, Changed
    <3>4. v.rv[r] = w.rv[r]  BY <2>1, <3>3
    <3>5. LastRowOf(k, r)' = LastRowOf(k, r)  BY <1>7, <2>3
    <3> QED BY <2>1, <3>2, <3>4, <3>5
  <2> QED BY <2>2, <2>3
<1> QED BY <1>4, <1>8

LEMMA DecodeSettles ==
  ASSUME LInv, TypeOK', NEW k \in Kpz, Decode(k)
  PROVE  \A l \in Kpz : CopyOK(l)' /\ Settled(l)'
<1> DEFINE n == Len(Plan[k])
           written == Archives(k, n)
           u == DecodedTo(k, n, written)
           found == {ReadValue(k, r) : r \in written}
           v == [u EXCEPT !.rows = found]
<1>1. IInv /\ AllAsked(k) /\ AllAnswered(k) /\ n \in 0 .. Len(Plan[k])
  BY PlanType DEF Decode, LInv
<1>2. written \subseteq Read(k, n) /\ written \in SUBSET Regs  BY <1>1, ReadIs DEF Archives
<1>3. found \subseteq Value  BY <1>1, <1>2, ReadIs, ValueIs
<1>4. worker' = [worker EXCEPT ![k] = v] /\ dropped' = [dropped EXCEPT ![k] = @ \ written]
      /\ UNCHANGED <<loaded, force, rv, primed, sent, archive>>
  BY DEF Decode
<1>5. /\ dropped'[k] = dropped[k] \ written
      /\ \A l \in Kpz : l # k => dropped'[l] = dropped[l]
  BY <1>4 DEF LInv, IInv, TypeOK
<1>6. \A l \in Kpz : l # k => CopyOK(l)' /\ Settled(l)'  BY <1>4, <1>5, OthersStay
<1>7. Archives(k, n) = written  OBVIOUS
<1> HIDE DEF n, written, found
<1>8. /\ u \in Job
      /\ \A r \in Regs : u.rv[r] = IF r \in Read(k, n) THEN ReadValue(k, r) ELSE worker[k].rv[r]
      /\ u.primed = worker[k].primed \cup written /\ u.force = worker[k].force \ written
  BY <1>1, <1>2, DecodedIs
<1> HIDE DEF u
<1>9. v \in Job /\ v.rv = u.rv /\ v.primed = u.primed /\ v.force = u.force /\ v.rows = found
  BY <1>3, <1>8 DEF Job
<1> HIDE DEF v
<1>10. CopyOK(k)' /\ Settled(k)'
  <2>1. v.rows = {ReadValue(k, r) : r \in written}  BY <1>9 DEF found
  <2>2. \A r \in Regs : v.rv[r] = IF r \in Read(k, n) THEN ReadValue(k, r) ELSE worker[k].rv[r]
    BY <1>8, <1>9
  <2>3. v.primed = worker[k].primed \cup written /\ v.force = worker[k].force \ written
    BY <1>8, <1>9
  <2>4. /\ Archives(k, n) \subseteq written \cup dropped'[k]
        /\ dropped[k] \subseteq written \cup dropped'[k] /\ written \ written \subseteq dropped'[k]
    BY <1>5, <1>7
  <2>5. Decoded(k, n, v, written, written)
    BY <1>1, <1>2, <1>4, <2>1, <2>2, <2>3, <2>4 DEF Decoded
  <2> QED BY <1>9, <2>5, ReadSettles
<1> QED BY <1>6, <1>10

LEMMA HookFailsSettles ==
  ASSUME LInv, TypeOK', NEW k \in Kpz, NEW n \in DOMAIN Plan[k], HookFails(k, n)
  PROVE  \A l \in Kpz : CopyOK(l)' /\ Settled(l)'
<1> DEFINE written == Archives(k, n - 1)
           v == DecodedTo(k, n, written)
<1>1. IInv /\ AllAsked(k) /\ AllAnswered(k) /\ n \in 0 .. Len(Plan[k])
  BY PlanType DEF HookFails, LInv
<1>2. written \subseteq Archives(k, n)
  <2>1. n \in Nat  BY <1>1
  <2>2. Decodes(k, n - 1) \subseteq Decodes(k, n)  BY <2>1 DEF Decodes
  <2>3. Read(k, n - 1) \subseteq Read(k, n)  BY <2>2 DEF Read
  <2> QED BY <2>3 DEF Archives
<1>3. written \subseteq Read(k, n) /\ written \in SUBSET Regs
  BY <1>1, <1>2, ReadIs DEF Archives
<1>4. worker' = [worker EXCEPT ![k] = v] /\ dropped' = [dropped EXCEPT ![k] = @ \cup Archives(k, n)]
      /\ UNCHANGED <<loaded, force, rv, primed, sent, archive>>
  BY DEF HookFails
<1>5. /\ dropped'[k] = dropped[k] \cup Archives(k, n)
      /\ \A l \in Kpz : l # k => dropped'[l] = dropped[l]
  BY <1>4 DEF LInv, IInv, TypeOK
<1>6. \A l \in Kpz : l # k => CopyOK(l)' /\ Settled(l)'  BY <1>4, <1>5, OthersStay
<1>7. worker[k].rows = {}  BY <1>1 DEF IInv, AllAsked, JobOK
<1> HIDE DEF written
<1>8. /\ v \in Job
      /\ \A r \in Regs : v.rv[r] = IF r \in Read(k, n) THEN ReadValue(k, r) ELSE worker[k].rv[r]
      /\ v.primed = worker[k].primed \cup written /\ v.force = worker[k].force \ written
      /\ v.rows = {}
  BY <1>1, <1>3, <1>7, DecodedIs
<1> HIDE DEF v
<1>9. CopyOK(k)' /\ Settled(k)'
  <2> DEFINE kept == {}
  <2>1. v.rows = {ReadValue(k, r) : r \in kept} /\ kept \in SUBSET written  BY <1>8
  <2>2. /\ Archives(k, n) \subseteq written \cup dropped'[k]
        /\ dropped[k] \subseteq written \cup dropped'[k] /\ written \ kept \subseteq dropped'[k]
    BY <1>2, <1>5
  <2> HIDE DEF kept
  <2>3. Decoded(k, n, v, written, kept)  BY <1>1, <1>3, <1>4, <1>8, <2>1, <2>2 DEF Decoded
  <2> QED BY <1>8, <2>3, ReadSettles
<1> QED BY <1>6, <1>9

\* The merge gives back what the job had, and hands over its rows.
LEMMA JobEndsSettles ==
  ASSUME LInv, TypeOK', KeepsOthersFlags, NEW k \in Kpz, JobEnds(k)
  PROVE  \A l \in Kpz : CopyOK(l)' /\ Settled(l)'
<1> DEFINE w == worker[k]
           d == [kpz |-> k, rows |-> w.rows]
           T == [kpz : Kpz, rows : SUBSET Value]
<1>1. /\ w # NoWorker /\ w \in Job
      /\ w.force \subseteq force \cap RegsOf(k) /\ primed[k] \subseteq w.primed
      /\ \A v, u \in w.rows : v[1] = u[1] => v = u
  BY JobType DEF JobEnds, LInv, IInv, CopyOK
<1>2. /\ force' = force \cap w.force /\ loaded' = loaded /\ archive' = archive /\ dropped' = dropped
      /\ rv'[k] = w.rv /\ primed'[k] = primed[k] \cup w.primed /\ worker'[k] = NoWorker
      /\ \A l \in Kpz : l # k => rv'[l] = rv[l] /\ primed'[l] = primed[l] /\ worker'[l] = worker[l]
  BY DEF JobEnds, MergedForce, LInv, IInv, TypeOK
<1>3. /\ w.rows = {} => sent' = sent
      /\ w.rows # {} => sent' = Append(sent, d)
  BY DEF JobEnds
<1>4. sent \in Seq(T) /\ d \in T  BY <1>1 DEF LInv, IInv, TypeOK, Job
<1>5. \A l \in Kpz : \A r \in RegsOf(l) : l # k /\ r \in force => r \in w.force
  BY DEF KeepsOthersFlags
<1>6. CopyOK(k)' /\ Settled(k)'
  <2>1. CopyOK(k)'  BY <1>2 DEF CopyOK
  <2>2. RvOf(k)' = RvOf(k) /\ PrimedOf(k)' = PrimedOf(k) /\ ForceOf(k)' = ForceOf(k)
    BY <1>1, <1>2 DEF RvOf, PrimedOf, ForceOf
  <2>3. JobRows(k) = w.rows /\ JobRows(k)' = {}  BY <1>1, <1>2 DEF JobRows
  <2>4. \A r : LastRow({}, sent', archive, k, r) = LastRow(w.rows, sent, archive, k, r)
    <3>1. CASE w.rows = {}  BY <1>3, <3>1
    <3>2. CASE w.rows # {}
      <4> HIDE DEF T, w
      <4> QED BY <1>1, <1>3, <1>4, <3>2, AppendMoves
    <3> QED BY <3>1, <3>2
  <2>5. \A r : LastRowOf(k, r)' = LastRowOf(k, r)
    BY <1>2, <2>3, <2>4, LastRowIs DEF LInv, IInv
  <2> QED BY <1>2, <2>1, <2>2, <2>5, SettledStays DEF LInv
<1>7. ASSUME NEW l \in Kpz, l # k PROVE CopyOK(l)' /\ Settled(l)'
  <2>1. CopyOK(l)'  BY <1>2, <1>5, <1>7 DEF LInv, CopyOK, RegsOf
  <2>2. RvOf(l)' = RvOf(l) /\ PrimedOf(l)' = PrimedOf(l) /\ JobRows(l)' = JobRows(l)
    BY <1>2, <1>7 DEF RvOf, PrimedOf, JobRows
  <2>3. \A r \in RegsOf(l) : r \notin ForceOf(l)' => r \notin ForceOf(l)
    BY <1>2, <1>5, <1>7 DEF ForceOf
  <2>4. \A r, rows : LastRow(rows, sent', archive, l, r) = LastRow(rows, sent, archive, l, r)
    <3>1. CASE w.rows = {}  BY <1>3, <3>1
    <3>2. CASE w.rows # {}
      <4> HIDE DEF T, w
      <4> QED BY <1>3, <1>4, <1>7, <3>2, AppendMoves
    <3> QED BY <3>1, <3>2
  <2>5. \A r : LastRowOf(l, r)' = LastRowOf(l, r)
    BY <1>2, <2>2, <2>4, LastRowIs DEF LInv, IInv
  <2> QED BY <1>2, <2>1, <2>2, <2>3, <2>5, SettledStays DEF LInv
<1> QED BY <1>6, <1>7

LEMMA LNextOK == ASSUME NoDuplicates, LInv, KeepsOthersFlags, [Next]_vars PROVE LInv'
<1>1. IInv' /\ TypeOK'  BY NextOK DEF LInv, IInv
<1>2. ASSUME UNCHANGED <<loaded, force, rv, primed, worker, sent, archive, dropped>>
      PROVE  \A l \in Kpz : CopyOK(l)' /\ Settled(l)'
  BY <1>1, <1>2, NothingTouched
<1>3. \A l \in Kpz : CopyOK(l)' /\ Settled(l)'
  <2>1. CASE \E k \in Kpz : \E r \in Regs : \E v \in ValueOf(r) : SetValue(k, r, v)
    BY <1>2, <2>1 DEF SetValue
  <2>2. CASE \E r \in Regs : Edit(r)  BY <1>2, <2>2 DEF Edit
  <2>3. CASE Reload  BY <1>1, <2>3, ReloadSettles
  <2>4. CASE \E k \in Kpz, start \in BOOLEAN : StartStop(k, start)
    BY <1>1, <2>4, StartStopSettles
  <2>5. CASE \E k \in Kpz : PrimeAgain(k) \/ Spawn(k)
    BY <1>1, <2>5, PrimeAgainSettles, SpawnSettles
  <2>6. CASE \E k \in Kpz : Ask(k)  BY <1>1, <2>6, AskSettles
  <2>7. CASE \E k \in Kpz : Decode(k)  BY <1>1, <2>7, DecodeSettles
  <2>8. CASE \E k \in Kpz : JobEnds(k)  BY <1>1, <2>8, JobEndsSettles
  <2>9. CASE \E k \in Kpz : \E n \in DOMAIN Plan[k] : HookFails(k, n)
    BY <1>1, <2>9, HookFailsSettles
  <2>10. CASE \E n \in 1 .. MaxSent : Flush(n)  BY <1>1, <2>10, FlushSettles
  <2>11. CASE UNCHANGED vars  BY <1>2, <2>11 DEF vars
  <2> QED BY <2>1, <2>2, <2>3, <2>4, <2>5, <2>6, <2>7, <2>8, <2>9, <2>10, <2>11 DEF Next
<1> QED BY <1>1, <1>3 DEF LInv

\* Filtering by change loses nothing (amode.rs 457-489, state_sync.rs 543-548)
\* unless the merge of one KPZ's job removes a flag of a register that another
\* polls (merge.rs 126-139).
THEOREM FilterLosesNothing ==
  ASSUME NoDuplicates PROVE Spec /\ [][KeepsOthersFlags]_vars => []LastArchived
<1>1. LInv /\ [Next]_vars /\ [KeepsOthersFlags]_vars => LInv'
  <2> SUFFICES ASSUME LInv, [Next]_vars, [KeepsOthersFlags]_vars PROVE LInv'  OBVIOUS
  <2>1. CASE KeepsOthersFlags  BY <2>1, LNextOK
  <2>2. CASE UNCHANGED vars
    <3>1. IInv'  BY NextOK DEF LInv
    <3>2. \A l \in Kpz : CopyOK(l)' /\ Settled(l)'
      BY <2>2, <3>1, NothingTouched DEF vars, IInv
    <3> QED BY <3>1, <3>2 DEF LInv
  <2> QED BY <2>1, <2>2
<1> QED BY <1>1, LInitOK, LInvImplies, PTL DEF Spec

\* With one KPZ nothing is asked of the merges (the same lines).
COROLLARY AloneNothingIsLost ==
  ASSUME NoDuplicates, \A k, l \in Kpz : k = l PROVE Spec => []LastArchived
<1>1. [Next]_vars => [KeepsOthersFlags]_vars  BY DEF KeepsOthersFlags
<1> QED BY <1>1, FilterLosesNothing, PTL DEF Spec

=============================================================================
