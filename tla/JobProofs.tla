----------------------------- MODULE JobProofs -----------------------------
(***************************************************************************)
(* Theorems about the jobs of ss4.                                         *)
(*                                                                         *)
(* JobQueue, for every set of KPZ and any number of calls: the indexes of  *)
(* the queue agree, and the queue implements SpawnQueue.                   *)
(*                                                                         *)
(* ArchiveScript, for every ring, every list of groups, any number of      *)
(* faults and every order of device, jobs and writer: the rings have no    *)
(* gap, an S job reads only on a confirmed index, and each record is       *)
(* stored before the index moves past it and handed over once.             *)
(*                                                                         *)
(* ScriptCache, for every set of KPZ, groups, versions and texts: a worker *)
(* is served the bindings and, while its version had one text, the text of *)
(* the row the scheduler holds.                                            *)
(***************************************************************************)
EXTENDS JobQueue, ArchiveScript, ScriptCache, FiniteSetTheorems, WellFoundedInduction, TLAPS

-----------------------------------------------------------------------------
(* Ascending lists of numbers *)

IsAscending(s) == \A i, j \in DOMAIN s : i < j => s[i] < s[j]
Elements(s)    == {s[i] : i \in DOMAIN s}

\* An ascending list has as many places as elements.
LEMMA AscendingCount ==
  ASSUME NEW n \in Nat, NEW S \in SUBSET Nat, NEW s \in [1 .. n -> S],
         IsAscending(s), Elements(s) = S
  PROVE  IsFiniteSet(S) /\ Cardinality(S) = n
<1>1. \A i, j \in 1 .. n : i # j => s[i] # s[j]
  <2> SUFFICES ASSUME NEW i \in 1 .. n, NEW j \in 1 .. n, i # j PROVE s[i] # s[j]  OBVIOUS
  <2>1. i < j \/ j < i  OBVIOUS
  <2>2. s[i] \in Nat /\ s[j] \in Nat  OBVIOUS
  <2> QED BY <2>1, <2>2 DEF IsAscending
<1>2. s \in Bijection(1 .. n, S)
  <2>1. \A x \in S : \E i \in 1 .. n : s[i] = x  BY DEF Elements
  <2> QED BY <1>1, <2>1 DEF Bijection, Injection, Surjection, IsInjective
<1>3. ExistsBijection(1 .. n, S)  BY <1>2 DEF ExistsBijection
<1>4. IsFiniteSet(S)  BY <1>3, FS_NatBijection
<1> QED BY <1>3, <1>4, FS_CountingElements

\* Ascending(S) is the ascending list of S, provided that there is one.
LEMMA AscendingList ==
  ASSUME NEW n \in Nat, NEW S \in SUBSET Nat, NEW s \in [1 .. n -> S],
         IsAscending(s), Elements(s) = S
  PROVE  /\ Ascending(S) \in [1 .. n -> S]
         /\ IsAscending(Ascending(S)) /\ Elements(Ascending(S)) = S
<1>1. Cardinality(S) = n /\ IsFiniteSet(S)  BY AscendingCount
<1> DEFINE g == Ascending(S)
<1>2. g \in [1 .. n -> S] /\ IsAscending(g)
  <2>1. \E f \in [1 .. n -> S] : \A i, j \in DOMAIN f : i < j => f[i] < f[j]
    BY DEF IsAscending
  <2> QED BY <1>1, <2>1 DEF Ascending, IsAscending
<1> HIDE DEF g
<1>3. \A i, j \in 1 .. n : i # j => g[i] # g[j]
  <2> SUFFICES ASSUME NEW i \in 1 .. n, NEW j \in 1 .. n, i # j PROVE g[i] # g[j]  OBVIOUS
  <2>1. i < j \/ j < i  OBVIOUS
  <2>2. g[i] \in Nat /\ g[j] \in Nat  BY <1>2
  <2> QED BY <1>2, <2>1, <2>2 DEF IsAscending
<1>4. g \in Injection(1 .. n, S)  BY <1>2, <1>3 DEF Injection, IsInjective
<1>5. Cardinality(1 .. n) = n  BY FS_Interval
<1>6. g \in Surjection(1 .. n, S)  BY <1>1, <1>4, <1>5, FS_Injection
<1>7. Elements(g) = S
  <2>1. \A t \in S : \E i \in 1 .. n : g[i] = t  BY <1>6 DEF Surjection
  <2>2. DOMAIN g = 1 .. n /\ \A i \in 1 .. n : g[i] \in S  BY <1>2
  <2> QED BY <2>1, <2>2 DEF Elements
<1> QED BY <1>2, <1>7 DEF g

-----------------------------------------------------------------------------
\* Each number stands for one push, so no job has the next one.
QueueIInv ==
  /\ IndexesAgree
  /\ IsFiniteSet(DOMAIN jobs)
  /\ \A s \in DOMAIN jobs : s < nextSeq

\* The first number of a KPZ's list is its oldest job.
LEMMA HeadIsOldest ==
  ASSUME QueueIInv, NEW k \in Kpz, seqs[k] # <<>>
  PROVE  /\ Head(seqs[k]) \in DOMAIN jobs /\ jobs[Head(seqs[k])].kpz = k
         /\ \A s \in Queued(k) : Head(seqs[k]) <= s
         /\ <<Head(seqs[k]), k>> \in ready
<1>1. seqs[k] \in Seq(Nat) /\ Len(seqs[k]) \in Nat \ {0} /\ 1 \in DOMAIN seqs[k]
      /\ Head(seqs[k]) = seqs[k][1]
  BY DEF QueueIInv, IndexesAgree, TypeOK
<1>2. Head(seqs[k]) \in Queued(k)  BY <1>1 DEF QueueIInv, IndexesAgree
<1>3. \A s \in Queued(k) : Head(seqs[k]) <= s
  <2> SUFFICES ASSUME NEW s \in Queued(k) PROVE seqs[k][1] <= s  BY <1>1
  <2>1. PICK i \in DOMAIN seqs[k] : seqs[k][i] = s  BY DEF QueueIInv, IndexesAgree
  <2>2. i = 1 \/ 1 < i  BY <1>1
  <2>3. seqs[k][1] \in Nat /\ seqs[k][i] \in Nat  BY <1>1
  <2>4. 1 < i => seqs[k][1] < seqs[k][i]  BY <1>1 DEF QueueIInv, IndexesAgree
  <2> QED BY <2>1, <2>2, <2>3, <2>4
<1> QED BY <1>2, <1>3 DEF Queued, QueueIInv, IndexesAgree

\* A job that is queued is in the list of its KPZ.
LEMMA QueuedIsListed ==
  ASSUME QueueIInv, NEW s \in DOMAIN jobs
  PROVE  jobs[s].kpz \in Kpz /\ seqs[jobs[s].kpz] # <<>>
<1>1. jobs[s] \in [kpz : Kpz, kind : Kinds]  BY DEF QueueIInv, IndexesAgree, TypeOK
<1>2. s \in Queued(jobs[s].kpz)  BY DEF Queued
<1> QED BY <1>1, <1>2 DEF QueueIInv, IndexesAgree
-----------------------------------------------------------------------------
LEMMA QueueInitOK == Init => QueueIInv
<1> SUFFICES ASSUME Init PROVE QueueIInv  OBVIOUS
<1>1. DOMAIN jobs = {}  BY DEF Init
<1>2. Cardinality(DOMAIN jobs) = 0 /\ IsFiniteSet(DOMAIN jobs)  BY <1>1, FS_EmptySet
<1>3. TypeOK  BY <1>1 DEF Init, TypeOK
<1>4. \A k \in Kpz : seqs[k] = <<>> /\ Queued(k) = {}  BY <1>1 DEF Init, Queued
<1> QED BY <1>1, <1>2, <1>3, <1>4 DEF Init, QueueIInv, IndexesAgree

LEMMA PushOK ==
  ASSUME QueueIInv, NEW k \in Kpz, NEW kind \in Kinds, PushBack(k, kind)
  PROVE  QueueIInv'
<1> DEFINE n == nextSeq
<1>0. /\ n \in Nat /\ nextSeq' = n + 1 /\ len \in Nat /\ len' = len + 1 /\ popped' = NoCall
      /\ DOMAIN jobs' = DOMAIN jobs \cup {n}
      /\ jobs'[n] = [kpz |-> k, kind |-> kind]
      /\ \A s \in DOMAIN jobs : jobs'[s] = jobs[s]
      /\ n \notin DOMAIN jobs /\ DOMAIN jobs \subseteq Nat
      /\ \A s \in DOMAIN jobs : jobs[s] \in [kpz : Kpz, kind : Kinds]
      /\ jobs' = [s \in DOMAIN jobs' |-> jobs'[s]]
  BY DEF PushBack, QueueIInv, IndexesAgree, TypeOK
<1>1. /\ seqs \in [Kpz -> Seq(Nat)] /\ seqs' = [seqs EXCEPT ![k] = Append(seqs[k], n)]
  BY DEF PushBack, QueueIInv, IndexesAgree, TypeOK
<1> HIDE DEF n
<1>2. seqs' \in [Kpz -> Seq(Nat)]
  BY <1>0, <1>1
<1>3. seqs'[k] = Append(seqs[k], n) /\ \A x \in Kpz \ {k} : seqs'[x] = seqs[x]
  BY <1>1
<1>4. /\ IsFiniteSet(DOMAIN jobs') /\ Cardinality(DOMAIN jobs') = len'
  <2>1. IsFiniteSet(DOMAIN jobs) /\ Cardinality(DOMAIN jobs) = len  BY DEF QueueIInv, IndexesAgree
  <2> QED BY <1>0, <2>1, FS_AddElement
<1>5. \A s \in DOMAIN jobs' : s < nextSeq'
  BY <1>0 DEF QueueIInv, n
<1>6. ready' = IF seqs[k] = <<>> THEN ready \cup {<<n, k>>} ELSE ready
  BY DEF PushBack, ReadyAfterPush, n
<1>7. ready' = {<<Head(seqs'[x]), x>> : x \in {y \in Kpz : seqs'[y] # <<>>}}
  <2>1. ready = {<<Head(seqs[x]), x>> : x \in {y \in Kpz : seqs[y] # <<>>}}
    BY DEF QueueIInv, IndexesAgree
  <2>2. seqs'[k] # <<>> /\ Head(seqs'[k]) = IF seqs[k] = <<>> THEN n ELSE Head(seqs[k])
    BY <1>0, <1>1, <1>3
  <2> QED BY <1>3, <1>6, <2>1, <2>2
<1>8. \A x \in Kpz : Queued(x)' = IF x = k THEN Queued(x) \cup {n} ELSE Queued(x)
  BY <1>0 DEF Queued
<1>9. ASSUME NEW x \in Kpz
      PROVE  /\ {seqs'[x][i] : i \in DOMAIN seqs'[x]} = Queued(x)'
             /\ \A i, j \in DOMAIN seqs'[x] : i < j => seqs'[x][i] < seqs'[x][j]
  <2>1. /\ {seqs[x][i] : i \in DOMAIN seqs[x]} = Queued(x)
        /\ \A i, j \in DOMAIN seqs[x] : i < j => seqs[x][i] < seqs[x][j]
    BY DEF QueueIInv, IndexesAgree
  <2>2. CASE x # k  BY <1>3, <1>8, <2>1, <2>2
  <2>3. CASE x = k
    <3> DEFINE s == seqs[k]
               m == Len(seqs[k])
    <3>1. /\ m \in Nat /\ DOMAIN s = 1 .. m /\ DOMAIN seqs'[k] = 1 .. m + 1
          /\ seqs'[k][m + 1] = n /\ \A i \in 1 .. m : seqs'[k][i] = s[i] /\ s[i] \in Nat
      BY <1>0, <1>1, <1>3
    <3>2. \A i \in 1 .. m : s[i] < n
      <4>1. \A i \in 1 .. m : s[i] \in Queued(k)  BY <2>1, <2>3, <3>1
      <4> QED BY <4>1 DEF Queued, QueueIInv, n
    <3> HIDE DEF s, m
    <3>3. {seqs'[k][i] : i \in 1 .. m + 1} = {s[i] : i \in 1 .. m} \cup {n}
      <4>1. 1 .. m + 1 = (1 .. m) \cup {m + 1}  BY <3>1
      <4> QED BY <3>1, <4>1
    <3>4. \A i, j \in 1 .. m + 1 : i < j => seqs'[k][i] < seqs'[k][j]
      <4> SUFFICES ASSUME NEW i \in 1 .. m + 1, NEW j \in 1 .. m + 1, i < j
                   PROVE  seqs'[k][i] < seqs'[k][j]
        OBVIOUS
      <4>1. i \in 1 .. m  BY <3>1
      <4>2. CASE j = m + 1  BY <3>1, <3>2, <4>1, <4>2
      <4>3. CASE j # m + 1
        <5>1. j \in 1 .. m  BY <3>1, <4>3
        <5>2. s[i] < s[j]  BY <2>1, <2>3, <3>1, <4>1, <5>1 DEF s
        <5> QED BY <3>1, <4>1, <5>1, <5>2
      <4> QED BY <4>2, <4>3
    <3> QED BY <1>8, <2>1, <2>3, <3>1, <3>3, <3>4 DEF s
  <2> QED BY <2>2, <2>3
<1>10. TypeOK'
  <2>1. ready' \subseteq Nat \X Kpz  BY <1>0, <1>6 DEF QueueIInv, IndexesAgree, TypeOK
  <2>2. jobs' \in [DOMAIN jobs' -> [kpz : Kpz, kind : Kinds]] /\ DOMAIN jobs' \subseteq Nat
    <3>1. [kpz |-> k, kind |-> kind] \in [kpz : Kpz, kind : Kinds]  OBVIOUS
    <3> QED BY <1>0, <3>1
  <2> QED BY <1>0, <1>2, <2>1, <2>2 DEF TypeOK
<1> QED BY <1>4, <1>5, <1>7, <1>9, <1>10 DEF QueueIInv, IndexesAgree

\* Removing the first number of a list.
LEMMA PopOK ==
  ASSUME QueueIInv, NEW running \in SUBSET Kpz, PopNextSpawnable(running)
  PROVE  QueueIInv'
<1>1. PICK r \in ready : LET k == r[2]
                             seq == Head(seqs[k])
                         IN  /\ FirstReady(r, running)
                             /\ popped' = [running |-> running, job |-> Numbered(seq)]
                             /\ jobs' = [s \in DOMAIN jobs \ {seq} |-> jobs[s]]
                             /\ seqs' = [seqs EXCEPT ![k] = Tail(@)]
                             /\ ready' = ReadyAfterPop(r)
                             /\ len' = IF len = 0 THEN 0 ELSE len - 1
  BY DEF PopNextSpawnable
<1>2. PICK k \in Kpz : r = <<Head(seqs[k]), k>> /\ seqs[k] # <<>>
  BY DEF QueueIInv, IndexesAgree
<1> DEFINE q == Head(seqs[k])
<1>3. q \in DOMAIN jobs /\ jobs[q].kpz = k  BY <1>2, HeadIsOldest
<1>4. /\ popped' = [running |-> running, job |-> Numbered(q)]
      /\ jobs' = [s \in DOMAIN jobs \ {q} |-> jobs[s]]
      /\ seqs' = [seqs EXCEPT ![k] = Tail(seqs[k])]
      /\ ready' = (ready \ {<<q, k>>}) \cup
                     IF Tail(seqs[k]) = <<>> THEN {} ELSE {<<Head(Tail(seqs[k])), k>>}
      /\ len' = IF len = 0 THEN 0 ELSE len - 1
      /\ nextSeq' = nextSeq
  BY <1>1, <1>2 DEF ReadyAfterPop, PopNextSpawnable
<1>5. /\ seqs \in [Kpz -> Seq(Nat)] /\ nextSeq \in Nat /\ DOMAIN jobs \subseteq Nat
      /\ \A s \in DOMAIN jobs : jobs[s] \in [kpz : Kpz, kind : Kinds]
  BY DEF QueueIInv, IndexesAgree, TypeOK
<1> DEFINE m == Len(seqs[k])
           t == Tail(seqs[k])
<1>6. /\ m \in Nat \ {0} /\ DOMAIN seqs[k] = 1 .. m /\ q = seqs[k][1] /\ t \in Seq(Nat)
      /\ Len(t) = m - 1 /\ DOMAIN t = 1 .. m - 1 /\ \A i \in 1 .. m - 1 : t[i] = seqs[k][i + 1]
      /\ \A i \in 1 .. m : seqs[k][i] \in Nat
  BY <1>2, <1>5
<1>7. seqs'[k] = t /\ \A x \in Kpz \ {k} : seqs'[x] = seqs[x]
  BY <1>4, <1>5
<1>8. seqs' \in [Kpz -> Seq(Nat)]  BY <1>4, <1>5, <1>6
<1> HIDE DEF q, m, t
<1>9. /\ DOMAIN jobs' = DOMAIN jobs \ {q} /\ \A s \in DOMAIN jobs' : jobs'[s] = jobs[s]
      /\ jobs' = [s \in DOMAIN jobs' |-> jobs'[s]]
  BY <1>4
<1>10. IsFiniteSet(DOMAIN jobs') /\ len' \in Nat /\ len' = Cardinality(DOMAIN jobs')
  <2>1. IsFiniteSet(DOMAIN jobs) /\ len = Cardinality(DOMAIN jobs) /\ len \in Nat
    BY DEF QueueIInv, IndexesAgree, TypeOK
  <2>2. len # 0  BY <1>3, <2>1, FS_EmptySet
  <2>3. Cardinality(DOMAIN jobs \ {q}) = len - 1 /\ IsFiniteSet(DOMAIN jobs \ {q})
    BY <1>3, <2>1, FS_RemoveElement
  <2> QED BY <1>4, <1>9, <2>1, <2>2, <2>3
<1>11. \A x \in Kpz : Queued(x)' = IF x = k THEN Queued(x) \ {q} ELSE Queued(x)
  BY <1>3, <1>9 DEF Queued
<1>12. ASSUME NEW x \in Kpz
       PROVE  /\ {seqs'[x][i] : i \in DOMAIN seqs'[x]} = Queued(x)'
              /\ \A i, j \in DOMAIN seqs'[x] : i < j => seqs'[x][i] < seqs'[x][j]
  <2>1. /\ {seqs[x][i] : i \in DOMAIN seqs[x]} = Queued(x)
        /\ \A i, j \in DOMAIN seqs[x] : i < j => seqs[x][i] < seqs[x][j]
    BY DEF QueueIInv, IndexesAgree
  <2>2. CASE x # k  BY <1>7, <1>11, <2>1, <2>2
  <2>3. CASE x = k
    <3>1. \A i, j \in 1 .. m - 1 : i < j => t[i] < t[j]
      <4> SUFFICES ASSUME NEW i \in 1 .. m - 1, NEW j \in 1 .. m - 1, i < j PROVE t[i] < t[j]
        OBVIOUS
      <4>1. i + 1 \in 1 .. m /\ j + 1 \in 1 .. m /\ i + 1 < j + 1  BY <1>6
      <4> QED BY <1>6, <2>1, <2>3, <4>1
    <3>2. \A i \in 1 .. m - 1 : t[i] # q
      <4> SUFFICES ASSUME NEW i \in 1 .. m - 1 PROVE t[i] # q  OBVIOUS
      <4>1. i + 1 \in 1 .. m /\ 1 \in 1 .. m /\ 1 < i + 1  BY <1>6
      <4>2. seqs[k][1] < seqs[k][i + 1]  BY <1>6, <2>1, <2>3, <4>1
      <4> QED BY <1>6, <4>1, <4>2
    <3>3. {t[i] : i \in 1 .. m - 1} = {seqs[k][i] : i \in 1 .. m} \ {q}
      <4>1. ASSUME NEW i \in 1 .. m - 1 PROVE t[i] \in {seqs[k][a] : a \in 1 .. m} \ {q}
        <5>1. i + 1 \in 1 .. m  BY <1>6
        <5> QED BY <1>6, <3>2, <5>1
      <4>2. ASSUME NEW a \in 1 .. m, seqs[k][a] # q
            PROVE  \E i \in 1 .. m - 1 : t[i] = seqs[k][a]
        <5>1. a # 1  BY <1>6, <4>2
        <5>2. a - 1 \in 1 .. m - 1 /\ (a - 1) + 1 = a  BY <1>6, <5>1
        <5> QED BY <1>6, <5>2
      <4> QED BY <4>1, <4>2
    <3>4. {t[i] : i \in 1 .. m - 1} = Queued(k)'  BY <1>6, <1>11, <2>1, <2>3, <3>3
    <3>5. DOMAIN t = 1 .. m - 1  BY <1>6
    <3> QED BY <1>7, <2>3, <3>1, <3>4, <3>5
  <2> QED BY <2>2, <2>3
<1>13. ready' = {<<Head(seqs'[x]), x>> : x \in {y \in Kpz : seqs'[y] # <<>>}}
  <2>1. ready = {<<Head(seqs[x]), x>> : x \in {y \in Kpz : seqs[y] # <<>>}}
    BY DEF QueueIInv, IndexesAgree
  <2> DEFINE mine(x) == <<Head(seqs[x]), x>>
             now(x)  == <<Head(seqs'[x]), x>>
  <2>2. \A x \in Kpz \ {k} : now(x) = mine(x) /\ (seqs'[x] # <<>> <=> seqs[x] # <<>>)  BY <1>7
  <2>3. mine(k) = <<q, k>> /\ seqs[k] # <<>> /\ seqs'[k] = Tail(seqs[k])  BY <1>2, <1>7 DEF q, t
  <2>4. \A x \in Kpz \ {k} : mine(x) # <<q, k>>  OBVIOUS
  <2>5. now(k) = <<Head(Tail(seqs[k])), k>>  BY <2>3
  <2>6. ready = {mine(x) : x \in {y \in Kpz : seqs[y] # <<>>}}  BY <2>1
  <2> HIDE DEF mine, now
  <2>7. ready \ {<<q, k>>} = {now(x) : x \in {y \in Kpz \ {k} : seqs'[y] # <<>>}}
    BY <2>2, <2>3, <2>4, <2>6
  <2>8. ready' = {now(x) : x \in {y \in Kpz : seqs'[y] # <<>>}}
    BY <1>4, <2>3, <2>5, <2>7
  <2> QED BY <2>8 DEF now
<1>14. TypeOK'
  <2>1. ready' \subseteq Nat \X Kpz
    <3>1. \A x \in Kpz : seqs'[x] # <<>> => Head(seqs'[x]) \in Nat  BY <1>8
    <3> QED BY <1>13, <3>1
  <2>2. Numbered(q) \in [seq : Nat, kpz : Kpz, kind : Kinds]
    BY <1>3, <1>5 DEF Numbered
  <2>3. jobs' \in [DOMAIN jobs' -> [kpz : Kpz, kind : Kinds]] /\ DOMAIN jobs' \subseteq Nat
    BY <1>5, <1>9
  <2> QED BY <1>4, <1>5, <1>8, <1>10, <2>1, <2>2, <2>3 DEF TypeOK
<1> QED BY <1>4, <1>9, <1>10, <1>12, <1>13, <1>14 DEF QueueIInv, IndexesAgree

LEMMA PopNoneOK ==
  ASSUME QueueIInv, NEW running \in SUBSET Kpz, PopNone(running)
  PROVE  QueueIInv'
BY DEF PopNone, QueueIInv, IndexesAgree, TypeOK, Queued

\* Retain pushes the jobs that stay in the order of their numbers.
LEMMA RetainOK ==
  ASSUME QueueIInv, NEW k \in Kpz, Retain(k)
  PROVE  QueueIInv'
<1> DEFINE stay == {s \in DOMAIN jobs : jobs[s].kpz # k}
           kept == [x \in Kpz |-> Ascending({s \in stay : jobs[s].kpz = x})]
<1>1. /\ jobs' = [s \in stay |-> jobs[s]] /\ seqs' = kept
      /\ ready' = ReadyOf(kept) /\ len' = Cardinality(stay) /\ popped' = NoCall /\ nextSeq' = nextSeq
  BY DEF Retain
<1>2. /\ seqs \in [Kpz -> Seq(Nat)] /\ nextSeq \in Nat /\ DOMAIN jobs \subseteq Nat
      /\ \A s \in DOMAIN jobs : jobs[s] \in [kpz : Kpz, kind : Kinds]
      /\ IsFiniteSet(DOMAIN jobs)
  BY DEF QueueIInv, IndexesAgree, TypeOK
<1>3. /\ DOMAIN jobs' = stay /\ stay \subseteq DOMAIN jobs /\ \A s \in stay : jobs'[s] = jobs[s]
      /\ jobs' = [s \in DOMAIN jobs' |-> jobs'[s]]
  BY <1>1
<1>4. IsFiniteSet(stay) /\ Cardinality(stay) \in Nat
  BY <1>2, FS_Subset, FS_CardinalityType
<1>5. \A x \in Kpz : Queued(x)' = {s \in stay : jobs[s].kpz = x}
  BY <1>3 DEF Queued
<1>6. \A x \in Kpz : Queued(x)' = IF x = k THEN {} ELSE Queued(x)
  BY <1>5 DEF Queued
<1>7. \A x \in Kpz : seqs'[x] = Ascending(Queued(x)')
  BY <1>1, <1>5
<1> HIDE DEF stay, kept
<1>8. ASSUME NEW x \in Kpz
      PROVE  /\ seqs'[x] \in Seq(Nat)
             /\ {seqs'[x][i] : i \in DOMAIN seqs'[x]} = Queued(x)'
             /\ \A i, j \in DOMAIN seqs'[x] : i < j => seqs'[x][i] < seqs'[x][j]
  <2>1. \E n \in Nat, S \in SUBSET Nat : \E s \in [1 .. n -> S] :
          IsAscending(s) /\ Elements(s) = S /\ S = Queued(x)'
    <3>1. CASE x = k
      <4>1. <<>> \in [1 .. 0 -> {}] /\ IsAscending(<<>>) /\ Elements(<<>>) = {}
        BY DEF IsAscending, Elements
      <4> QED BY <1>6, <3>1, <4>1
    <3>2. CASE x # k
      <4>1. /\ Elements(seqs[x]) = Queued(x) /\ IsAscending(seqs[x])
        BY DEF QueueIInv, IndexesAgree, Elements, IsAscending
      <4>2. seqs[x] \in [1 .. Len(seqs[x]) -> Queued(x)] /\ Len(seqs[x]) \in Nat
        <5>1. seqs[x] \in Seq(Nat)  BY <1>2
        <5>2. \A i \in DOMAIN seqs[x] : seqs[x][i] \in Queued(x)  BY <4>1 DEF Elements
        <5> QED BY <5>1, <5>2
      <4>3. Queued(x) \in SUBSET Nat  BY <1>2 DEF Queued
      <4> QED BY <1>6, <3>2, <4>1, <4>2, <4>3
    <3> QED BY <3>1, <3>2
  <2>2. PICK n \in Nat, S \in SUBSET Nat :
          /\ S = Queued(x)' /\ Ascending(S) \in [1 .. n -> S]
          /\ IsAscending(Ascending(S)) /\ Elements(Ascending(S)) = S
    BY <2>1, AscendingList
  <2> DEFINE g == seqs'[x]
  <2>3. g \in [1 .. n -> S] /\ IsAscending(g) /\ Elements(g) = S  BY <1>7, <2>2
  <2>4. g \in Seq(Nat)
    <3>1. g \in [1 .. n -> Nat]  BY <2>3
    <3> QED BY <3>1
  <2> QED BY <2>2, <2>3, <2>4 DEF IsAscending, Elements
<1>9. seqs' \in [Kpz -> Seq(Nat)]
  <2>1. seqs' = [x \in Kpz |-> seqs'[x]]  BY <1>1 DEF kept
  <2> QED BY <1>8, <2>1
<1>10. ready' = {<<Head(seqs'[x]), x>> : x \in {y \in Kpz : seqs'[y] # <<>>}}
  BY <1>1 DEF ReadyOf
<1>11. TypeOK'
  <2>1. ready' \subseteq Nat \X Kpz
    <3>1. \A x \in Kpz : seqs'[x] # <<>> => Head(seqs'[x]) \in Nat  BY <1>9
    <3> QED BY <1>10, <3>1
  <2>2. jobs' \in [DOMAIN jobs' -> [kpz : Kpz, kind : Kinds]] /\ DOMAIN jobs' \subseteq Nat
    BY <1>2, <1>3
  <2> QED BY <1>1, <1>2, <1>4, <1>9, <2>1, <2>2 DEF TypeOK
<1>12. \A s \in DOMAIN jobs' : s < nextSeq'  BY <1>1, <1>3 DEF QueueIInv
<1> QED BY <1>1, <1>3, <1>4, <1>8, <1>10, <1>11, <1>12 DEF QueueIInv, IndexesAgree

LEMMA QueueNextOK == QueueIInv /\ [Next]_vars => QueueIInv'
<1> SUFFICES ASSUME QueueIInv, [Next]_vars PROVE QueueIInv'  OBVIOUS
<1>1. CASE UNCHANGED vars  BY <1>1 DEF vars, QueueIInv, IndexesAgree, TypeOK, Queued
<1> QED BY <1>1, PushOK, PopOK, PopNoneOK, RetainOK DEF Next

\* Every reachable state of the queue satisfies the inductive invariant: the
\* indexes agree and every queued job is older than the next number
\* (queue.rs 20-119).
THEOREM QueueIsInductive == Spec => []QueueIInv
BY QueueInitOK, QueueNextOK, PTL DEF Spec

\* After any calls the three indexes and the length describe the same jobs, so
\* the `?` of pop_next_spawnable never return half way (queue.rs 65-119).
THEOREM IndexesAlwaysAgree == Spec => []IndexesAgree
<1>1. QueueIInv => IndexesAgree  BY DEF QueueIInv
<1> QED BY <1>1, QueueIsInductive, PTL

-----------------------------------------------------------------------------
(* JobQueue implements SpawnQueue *)

LEMMA PushMaps ==
  ASSUME QueueIInv, NEW k \in Kpz, NEW kind \in Kinds, PushBack(k, kind)
  PROVE  SQ!Push(k, kind)
<1>1. /\ nextSeq \notin DOMAIN jobs
      /\ DOMAIN jobs' = DOMAIN jobs \cup {nextSeq} /\ jobs'[nextSeq] = [kpz |-> k, kind |-> kind]
      /\ \A s \in DOMAIN jobs : jobs'[s] = jobs[s]
      /\ nextSeq' = nextSeq + 1 /\ popped' = NoCall
  BY DEF PushBack, QueueIInv, IndexesAgree, TypeOK
<1>2. [seq |-> nextSeq, kpz |-> jobs'[nextSeq].kpz, kind |-> jobs'[nextSeq].kind]
        = [seq |-> nextSeq, kpz |-> k, kind |-> kind]
  BY <1>1
<1>3. Pending' = {[seq |-> s, kpz |-> jobs'[s].kpz, kind |-> jobs'[s].kind] : s \in DOMAIN jobs'}
  BY DEF Pending, Numbered
<1>4. Pending = {[seq |-> s, kpz |-> jobs'[s].kpz, kind |-> jobs'[s].kind] : s \in DOMAIN jobs}
  BY <1>1 DEF Pending, Numbered
<1>5. Pending' = Pending \cup {[seq |-> nextSeq, kpz |-> k, kind |-> kind]}
  BY <1>1, <1>2, <1>3, <1>4
<1> QED BY <1>1, <1>5 DEF SQ!Push

LEMMA PopMaps ==
  ASSUME QueueIInv, NEW running \in SUBSET Kpz, PopNextSpawnable(running)
  PROVE  SQ!Pop(running)
<1>1. PICK r \in ready :
        /\ FirstReady(r, running)
        /\ popped' = [running |-> running, job |-> Numbered(Head(seqs[r[2]]))]
        /\ jobs' = [s \in DOMAIN jobs \ {Head(seqs[r[2]])} |-> jobs[s]]
  BY DEF PopNextSpawnable
<1>2. PICK k \in Kpz : r = <<Head(seqs[k]), k>> /\ seqs[k] # <<>>
  BY DEF QueueIInv, IndexesAgree
<1> DEFINE q == Head(seqs[k])
<1>3. /\ q \in DOMAIN jobs /\ jobs[q].kpz = k /\ k \notin running
      /\ popped' = [running |-> running, job |-> Numbered(q)]
      /\ jobs' = [s \in DOMAIN jobs \ {q} |-> jobs[s]]
      /\ \A p \in ready : p[2] \notin running => q <= p[1]
  BY <1>1, <1>2, HeadIsOldest DEF FirstReady
<1> HIDE DEF q
<1>4. Numbered(q) \in Pending /\ Numbered(q).kpz = k /\ Numbered(q).seq = q
  BY <1>3 DEF Pending, Numbered
<1>5. ASSUME NEW s \in DOMAIN jobs, jobs[s].kpz \notin running
      PROVE  q <= s
  <2> DEFINE c == jobs[s].kpz
             h == Head(seqs[c])
  <2>1. c \in Kpz /\ seqs[c] # <<>>  BY QueuedIsListed
  <2>2. h <= s /\ <<h, c>> \in ready  BY <2>1, HeadIsOldest DEF Queued
  <2>3. q <= h  BY <1>3, <1>5, <2>2
  <2>4. h \in Nat /\ s \in Nat /\ q \in Nat
    BY <1>3, <2>1, HeadIsOldest DEF QueueIInv, IndexesAgree, TypeOK
  <2> HIDE DEF h
  <2> QED BY <2>2, <2>3, <2>4
<1>6. SQ!Spawnable(Numbered(q), running)
  <2>1. ASSUME NEW i \in Pending, i.kpz \notin running PROVE q <= i.seq
    <3>1. PICK s \in DOMAIN jobs : i = Numbered(s)  BY DEF Pending
    <3> QED BY <1>5, <2>1, <3>1 DEF Numbered
  <2> QED BY <1>3, <1>4, <2>1 DEF SQ!Spawnable
<1>7. Pending' = Pending \ {Numbered(q)}
  <2>1. DOMAIN jobs' = DOMAIN jobs \ {q} /\ \A s \in DOMAIN jobs' : jobs'[s] = jobs[s]
    BY <1>3
  <2>2. Pending' = {[seq |-> s, kpz |-> jobs[s].kpz, kind |-> jobs[s].kind] : s \in DOMAIN jobs'}
    BY <2>1 DEF Pending, Numbered
  <2>3. \A s \in DOMAIN jobs : Numbered(s) = Numbered(q) <=> s = q  BY DEF Numbered
  <2>4. Pending' = {Numbered(s) : s \in DOMAIN jobs'}  BY <2>2 DEF Numbered
  <2> QED BY <2>1, <2>3, <2>4 DEF Pending
<1>8. nextSeq' = nextSeq  BY DEF PopNextSpawnable
<1> QED BY <1>3, <1>4, <1>6, <1>7, <1>8 DEF SQ!Pop

LEMMA PopNoneMaps ==
  ASSUME QueueIInv, NEW running \in SUBSET Kpz, PopNone(running)
  PROVE  SQ!PopNone(running)
<1>1. ASSUME NEW j \in Pending PROVE j.kpz \in running
  <2>1. PICK s \in DOMAIN jobs : j = Numbered(s)  BY DEF Pending
  <2>2. jobs[s].kpz \in Kpz /\ seqs[jobs[s].kpz] # <<>>  BY QueuedIsListed
  <2>3. <<Head(seqs[jobs[s].kpz]), jobs[s].kpz>> \in ready  BY <2>2, HeadIsOldest
  <2> QED BY <2>1, <2>3 DEF PopNone, Numbered
<1> QED BY <1>1 DEF PopNone, SQ!PopNone, Pending, Numbered

LEMMA RetainMaps ==
  ASSUME QueueIInv, NEW k \in Kpz, Retain(k)
  PROVE  SQ!Discard(k)
<1>1. /\ DOMAIN jobs' = {s \in DOMAIN jobs : jobs[s].kpz # k}
      /\ \A s \in DOMAIN jobs' : jobs'[s] = jobs[s]
      /\ popped' = NoCall /\ nextSeq' = nextSeq
  BY DEF Retain
<1>2. Pending' = {[seq |-> s, kpz |-> jobs[s].kpz, kind |-> jobs[s].kind] : s \in DOMAIN jobs'}
  BY <1>1 DEF Pending, Numbered
<1>3. Pending' = {Numbered(s) : s \in DOMAIN jobs'}  BY <1>2 DEF Numbered
<1>4. \A s \in DOMAIN jobs : Numbered(s).kpz = jobs[s].kpz  BY DEF Numbered
<1> QED BY <1>1, <1>3, <1>4 DEF SQ!Discard, Pending

\* What the callers of the queue rely on: a pop takes the oldest job of a KPZ
\* that does not run, and None means that every queued job's KPZ runs
\* (pop_next_spawnable, queue.rs 65-90).
THEOREM RefinesSpawnQueue == Spec => ImplementsSpawnQueue
<1>1. Init => SQ!Init
  <2>1. Init => DOMAIN jobs = {}  BY DEF Init
  <2> QED BY <2>1 DEF Init, SQ!Init, Pending
<1>2. QueueIInv /\ [Next]_vars => [SQ!Next]_<<Pending, nextSeq, popped>>
  <2> SUFFICES ASSUME QueueIInv, [Next]_vars PROVE [SQ!Next]_<<Pending, nextSeq, popped>>  OBVIOUS
  <2>1. CASE UNCHANGED vars  BY <2>1 DEF vars, Pending, Numbered
  <2> QED BY <2>1, PushMaps, PopMaps, PopNoneMaps, RetainMaps DEF Next, SQ!Next
<1> QED BY <1>1, <1>2, QueueIsInductive, PTL DEF Spec, ImplementsSpawnQueue, SQ!Spec

-----------------------------------------------------------------------------
(* The cells of a ring: record t of a ring whose first record is 1 is in   *)
(* cell (t - 1) % Records.                                                 *)

Cell(t) == (t - 1) % Records

LEMMA Wraps ==
  ASSUME NEW x \in 0 .. 2 * Records - 1
  PROVE  x % Records = IF x < Records THEN x ELSE x - Records
BY SlotAssumption

LEMMA Divides ==
  ASSUME NEW x \in Nat
  PROVE  /\ x \div Records \in Nat /\ x % Records \in 0 .. Records - 1
         /\ x = Records * (x \div Records) + (x % Records)
BY SlotAssumption

LEMMA Remains ==
  ASSUME NEW q \in Nat, NEW r \in 0 .. Records - 1
  PROVE  (Records * q + r) % Records = r
BY SlotAssumption

LEMMA NextCell ==
  ASSUME NEW x \in Nat
  PROVE  (x + 1) % Records = ((x % Records) + 1) % Records
<1> DEFINE q == x \div Records
           r == x % Records
<1>1. q \in Nat /\ r \in 0 .. Records - 1 /\ x = Records * q + r  BY Divides
<1>2. Records \in Nat /\ Records > 1  BY SlotAssumption
<1> HIDE DEF q, r
<1>3. CASE r < Records - 1
  <2>1. r + 1 \in 0 .. Records - 1 /\ x + 1 = Records * q + (r + 1)  BY <1>1, <1>2, <1>3
  <2>2. (x + 1) % Records = r + 1  BY <1>1, <2>1, Remains
  <2>3. (r + 1) % Records = r + 1  BY <1>2, <2>1, Wraps
  <2> QED BY <2>2, <2>3 DEF r
<1>4. CASE r = Records - 1
  <2>1. x + 1 = Records * q + Records  BY <1>1, <1>2, <1>4
  <2>2. Records * q + Records = Records * (q + 1) + 0  BY <1>1, <1>2
  <2>3. (x + 1) % Records = 0  BY <1>1, <1>2, <2>1, <2>2, Remains
  <2>4. (r + 1) % Records = 0  BY <1>2, <1>4, Wraps
  <2> QED BY <2>3, <2>4 DEF r
<1> QED BY <1>1, <1>2, <1>3, <1>4

LEMMA NextOfCell ==
  ASSUME NEW p \in Nat \ {0}
  PROVE  Cell(p + 1) = (Cell(p) + 1) % Records
<1> DEFINE x == p - 1
           y == p + 1
<1>1. x \in Nat /\ y - 1 = x + 1  OBVIOUS
<1>2. Cell(p) = x % Records /\ Cell(y) = (y - 1) % Records  BY DEF Cell
<1> HIDE DEF x, y
<1>3. (x + 1) % Records = ((x % Records) + 1) % Records  BY <1>1, NextCell
<1>4. Cell(y) = (Cell(p) + 1) % Records  BY <1>1, <1>2, <1>3
<1> QED BY <1>4 DEF y

LEMMA CellBack ==
  ASSUME NEW x \in Nat, NEW k \in 0 .. Records - 1, k <= x
  PROVE  (x - k) % Records = ((x % Records) + Records - k) % Records
<1> DEFINE q == x \div Records
           r == x % Records
<1>1. q \in Nat /\ r \in 0 .. Records - 1 /\ x = Records * q + r  BY Divides
<1>2. Records \in Nat /\ Records > 1  BY SlotAssumption
<1> HIDE DEF q, r
<1>3. CASE k <= r
  <2>1. r - k \in 0 .. Records - 1 /\ x - k = Records * q + (r - k)  BY <1>1, <1>2, <1>3
  <2>2. (x - k) % Records = r - k  BY <1>1, <2>1, Remains
  <2>3. (r + Records - k) % Records = r - k  BY <1>1, <1>2, <1>3, Wraps
  <2> QED BY <2>2, <2>3 DEF r
<1>4. CASE k > r
  <2>1. q # 0  BY <1>1, <1>2, <1>4
  <2>2. q - 1 \in Nat /\ Records * q = Records * (q - 1) + Records  BY <1>1, <1>2, <2>1
  <2>3. r + Records - k \in 0 .. Records - 1  BY <1>1, <1>2, <1>4
  <2> DEFINE p == q - 1
  <2>4. x - k = Records * p + (r + Records - k)  BY <1>1, <1>2, <2>2
  <2> HIDE DEF p
  <2>5. p \in Nat  BY <2>2 DEF p
  <2>6. (x - k) % Records = r + Records - k  BY <2>3, <2>4, <2>5, Remains
  <2>7. (r + Records - k) % Records = r + Records - k  BY <1>2, <2>3, Wraps
  <2> QED BY <2>6, <2>7 DEF r
<1> QED BY <1>1, <1>2, <1>3, <1>4

-----------------------------------------------------------------------------
(* The ring of a slot: record after record from the first one, f, to l.    *)

RingUpTo(s, f, l) ==
  /\ DOMAIN s = {"ring", "cur", "shown", "last"} /\ s.ring \in [0 .. Records - 1 -> Nat]
  /\ f \in Nat \ {0} /\ l \in Nat /\ f <= l
  /\ s.shown = s.cur /\ s.cur = (l - f) % Records
  /\ \A k \in 0 .. Records - 1 : Behind(s, k) = IF k <= l - f THEN l - k ELSE 0

RingOK(s, f) == RingUpTo(s, f, s.last)

LEMMA Appended ==
  ASSUME NEW s, NEW f, NEW l, RingUpTo(s, f, l)
  PROVE  RingUpTo(Append1(s, l + 1), f, l + 1) /\ Append1(s, l + 1).last = s.last
<1> DEFINE i == (s.cur + 1) % Records
           g == Append1(s, l + 1)
<1>1. Records \in Nat /\ Records > 1  BY SlotAssumption
<1>2. /\ l \in Nat /\ f \in Nat \ {0} /\ f <= l /\ l - f \in Nat
      /\ s.cur = (l - f) % Records /\ s.cur \in 0 .. Records - 1
  BY Divides DEF RingUpTo
<1>3. i \in 0 .. Records - 1 /\ i = IF s.cur = Records - 1 THEN 0 ELSE s.cur + 1
  BY <1>1, <1>2, Wraps
<1>4. i = (l + 1 - f) % Records
  <2>1. l + 1 - f = (l - f) + 1  BY <1>2
  <2> QED BY <1>2, <2>1, NextCell
<1>5. /\ DOMAIN g = DOMAIN s /\ g.cur = i /\ g.shown = i /\ g.last = s.last
      /\ g.ring = [s.ring EXCEPT ![i] = l + 1]
  BY DEF Append1, RingUpTo
<1> HIDE DEF i, g
<1>6. ASSUME NEW k \in 0 .. Records - 1
      PROVE  Behind(g, k) = IF k <= l + 1 - f THEN l + 1 - k ELSE 0
  <2>1. Behind(g, k) = g.ring[(i + Records - k) % Records]  BY <1>5 DEF Behind
  <2>2. CASE k = 0
    <3>1. (i + Records - k) % Records = i  BY <1>1, <1>3, <2>2, Wraps
    <3>2. g.ring[i] = l + 1  BY <1>3, <1>5 DEF RingUpTo
    <3>3. k <= l + 1 - f /\ l + 1 - k = l + 1  BY <1>2, <2>2
    <3> QED BY <2>1, <3>1, <3>2, <3>3
  <2>3. CASE k > 0
    <3> DEFINE c == (s.cur + Records - (k - 1)) % Records
    <3>1. c = IF k - 1 <= s.cur THEN s.cur - (k - 1) ELSE s.cur + Records - (k - 1)
      BY <1>1, <1>2, <2>3, Wraps
    <3>2. (i + Records - k) % Records = IF k <= i THEN i - k ELSE i + Records - k
      BY <1>1, <1>3, <2>3, Wraps
    <3>3. (i + Records - k) % Records = c /\ c # i /\ c \in 0 .. Records - 1
      <4> HIDE DEF c
      <4> QED BY <1>1, <1>2, <1>3, <2>3, <3>1, <3>2
    <3>4. Behind(s, k - 1) = s.ring[c]  BY DEF Behind
    <3> HIDE DEF c
    <3>5. Behind(g, k) = Behind(s, k - 1)  BY <1>5, <2>1, <3>3, <3>4 DEF RingUpTo
    <3>6. Behind(s, k - 1) = IF k - 1 <= l - f THEN l - (k - 1) ELSE 0
      BY <1>1, <2>3 DEF RingUpTo
    <3> QED BY <1>1, <1>2, <2>3, <3>5, <3>6
  <2> QED BY <1>1, <2>2, <2>3
<1>7. g.ring \in [0 .. Records - 1 -> Nat]
  <2>1. s.ring \in [0 .. Records - 1 -> Nat] /\ l + 1 \in Nat  BY <1>2 DEF RingUpTo
  <2> QED BY <1>3, <1>5, <2>1
<1>8. RingUpTo(g, f, l + 1)
  <2>1. DOMAIN g = {"ring", "cur", "shown", "last"}  BY <1>5 DEF RingUpTo
  <2>2. l + 1 \in Nat /\ f <= l + 1 /\ f \in Nat \ {0}  BY <1>2
  <2> QED BY <1>4, <1>5, <1>6, <1>7, <2>1, <2>2 DEF RingUpTo
<1> QED BY <1>5, <1>8 DEF g

\* The loop of CatchUp is what its steps make of it.
Looped(c, s, l, n) == c = [k \in 0 .. n |-> IF k = 0 THEN s ELSE Append1(c[k - 1], l + k)]

LEMMA Loops ==
  ASSUME NEW s, NEW l \in Nat, NEW n \in Nat
  PROVE  \E c : Looped(c, s, l, n)
<1> USE DEF Looped
<1> DEFINE Has(i) == \E c : c = [k \in 0 .. i |-> IF k = 0 THEN s ELSE Append1(c[k - 1], l + k)]
           S == {i \in Nat : ~Has(i)}
           R == OpToRel(<, Nat)
<1>1. SUFFICES ASSUME S # {} PROVE FALSE  OBVIOUS
<1>2. PICK x \in S : \A y \in S : ~(<<y, x>> \in R)
  <2>1. IsWellFoundedOn(R, Nat)  BY NatLessThanWellFounded
  <2>2. S \subseteq Nat  OBVIOUS
  <2> HIDE DEF R, S
  <2> QED BY <1>1, <2>1, <2>2, WFMin
<1>3. x \in Nat /\ ~Has(x)  OBVIOUS
<1>4. \A y \in Nat : y < x => Has(y)  BY <1>2, <1>3 DEF OpToRel
<1>5. CASE x = 0
  <2> DEFINE c == [k \in 0 .. 0 |-> s]
  <2>1. c = [k \in 0 .. 0 |-> IF k = 0 THEN s ELSE Append1(c[k - 1], l + k)]  OBVIOUS
  <2>2. Has(0)
    <3> HIDE DEF c
    <3> QED BY <2>1
  <2> QED BY <1>3, <1>5, <2>2
<1>6. CASE x # 0
  <2>1. x - 1 \in Nat /\ x - 1 < x  BY <1>3, <1>6
  <2>2. Has(x - 1)  BY <1>4, <2>1
  <2>3. PICK b : b = [k \in 0 .. x - 1 |-> IF k = 0 THEN s ELSE Append1(b[k - 1], l + k)]
    BY <2>2
  <2> DEFINE c == [k \in 0 .. x |-> IF k = x THEN Append1(b[x - 1], l + x) ELSE b[k]]
  <2>4. \A k \in 0 .. x - 1 : c[k] = b[k] /\ b[k] = IF k = 0 THEN s ELSE Append1(b[k - 1], l + k)
    <3>1. \A k \in 0 .. x - 1 : k \in 0 .. x /\ k # x  BY <1>3
    <3>2. \A k \in 0 .. x - 1 : c[k] = b[k]  BY <3>1
    <3>3. \A k \in 0 .. x - 1 : b[k] = IF k = 0 THEN s ELSE Append1(b[k - 1], l + k)  BY <2>3
    <3> QED BY <3>2, <3>3
  <2>5. c[x] = Append1(b[x - 1], l + x) /\ DOMAIN c = 0 .. x  BY <1>3
  <2> DEFINE e == [k \in 0 .. x |-> IF k = 0 THEN s ELSE Append1(c[k - 1], l + k)]
  <2>6. ASSUME NEW k \in 0 .. x PROVE c[k] = e[k]
    <3>1. e[k] = IF k = 0 THEN s ELSE Append1(c[k - 1], l + k)  OBVIOUS
    <3> HIDE DEF c, e
    <3>2. CASE k = x
      <4>1. x - 1 \in 0 .. x - 1  BY <1>3, <1>6
      <4>2. c[x - 1] = b[x - 1]  BY <2>4, <4>1
      <4> QED BY <1>6, <2>5, <3>1, <3>2, <4>2
    <3>3. CASE k # x
      <4>1. k \in 0 .. x - 1  BY <1>3, <3>3
      <4>2. CASE k = 0  BY <2>4, <3>1, <4>1, <4>2
      <4>3. CASE k # 0
        <5>1. k - 1 \in 0 .. x - 1  BY <4>1, <4>3
        <5> QED BY <2>4, <3>1, <4>1, <4>3, <5>1
      <4> QED BY <4>2, <4>3
    <3> QED BY <3>2, <3>3
  <2>7. c = [k \in 0 .. x |-> c[k]]  OBVIOUS
  <2>8. c = e
    <3>1. e = [k \in 0 .. x |-> e[k]]  OBVIOUS
    <3> HIDE DEF c, e
    <3> QED BY <2>6, <2>7, <3>1
  <2>9. Has(x)
    <3> HIDE DEF c
    <3> QED BY <2>8
  <2> QED BY <1>3, <2>9
<1> QED BY <1>5, <1>6

LEMMA CaughtUp ==
  ASSUME NEW s, NEW f, NEW m \in Nat, RingOK(s, f), m >= s.last
  PROVE  RingUpTo(CatchUp(s, m), f, m) /\ CatchUp(s, m).last = s.last
<1> DEFINE l == s.last
           n == m - l
           caught == CHOOSE c : c = [k \in 0 .. n |-> IF k = 0 THEN s ELSE Append1(c[k - 1], l + k)]
<1>1. l \in Nat /\ n \in Nat /\ m = l + n  BY DEF RingOK, RingUpTo
<1>2. CatchUp(s, m) = caught[n]  BY DEF CatchUp
<1>3. caught = [k \in 0 .. n |-> IF k = 0 THEN s ELSE Append1(caught[k - 1], l + k)]
  <2> HIDE DEF n, l
  <2>1. l \in Nat /\ n \in Nat  BY <1>1
  <2>2. \E c : Looped(c, s, l, n)
    <3> HIDE DEF caught
    <3> QED BY <2>1, Loops
  <2>3. \E c : c = [k \in 0 .. n |-> IF k = 0 THEN s ELSE Append1(c[k - 1], l + k)]
    BY <2>2, Zenon DEF Looped
  <2> QED BY <2>3, Zenon
<1>4. RingUpTo(s, f, l)  BY DEF RingOK
<1> HIDE DEF caught, n, l
<1>5. /\ caught[0] = s
      /\ \A k \in 1 .. n : caught[k] = Append1(caught[k - 1], l + k)
  BY <1>1, <1>3
<1> DEFINE Good(k) == RingUpTo(caught[k], f, l + k) /\ caught[k].last = l
           S == {k \in 0 .. n : ~Good(k)}
           R == OpToRel(<, Nat)
<1>6. S = {}
  <2>1. SUFFICES ASSUME S # {} PROVE FALSE  OBVIOUS
  <2>2. PICK x \in S : \A y \in S : ~(<<y, x>> \in R)
    <3>1. IsWellFoundedOn(R, Nat)  BY NatLessThanWellFounded
    <3>2. S \subseteq Nat  OBVIOUS
    <3> HIDE DEF R, S
    <3> QED BY <2>1, <3>1, <3>2, WFMin
  <2>3. x \in 0 .. n /\ ~Good(x)  OBVIOUS
  <2>4. ASSUME NEW y \in 0 .. n, y < x PROVE Good(y)
    <3> HIDE DEF Good
    <3>1. y \in Nat /\ x \in Nat  BY <1>1, <2>3
    <3>2. <<y, x>> \in R  BY <2>4, <3>1 DEF OpToRel
    <3>3. y \notin S  BY <2>2, <3>2
    <3> QED BY <3>3
  <2>5. x # 0
    <3>1. Good(0)
      <4>1. l + 0 = l  BY <1>1
      <4>2. s.last = l  BY DEF l
      <4> QED BY <1>4, <1>5, <4>1, <4>2
    <3> QED BY <2>3, <3>1
  <2>6. x - 1 \in 0 .. n /\ x - 1 < x /\ x \in 1 .. n  BY <1>1, <2>3, <2>5
  <2>7. Good(x - 1)
    <3> HIDE DEF Good
    <3> QED BY <2>4, <2>6
  <2> DEFINE y == x - 1
  <2>8. RingUpTo(Append1(caught[y], l + y + 1), f, l + y + 1)
        /\ Append1(caught[y], l + y + 1).last = l
    <3>1. RingUpTo(caught[y], f, l + y) /\ caught[y].last = l  BY <2>7
    <3> HIDE DEF y
    <3> QED BY <3>1, Appended
  <2>9. l + y + 1 = l + x  BY <1>1, <2>6
  <2>10. caught[x] = Append1(caught[y], l + x)  BY <1>5, <2>6
  <2> QED BY <2>3, <2>8, <2>9, <2>10
<1>7. Good(n)
  <2>1. n \in 0 .. n  BY <1>1
  <2> HIDE DEF Good
  <2> QED BY <1>6, <2>1
<1> QED BY <1>1, <1>2, <1>7 DEF l

LEMMA TickedOK ==
  ASSUME NEW s, NEW f, NEW m \in Nat, RingOK(s, f)
  PROVE  /\ RingOK(Ticked(s, m), f)
         /\ Ticked(s, m).last = IF m <= s.last THEN s.last ELSE m
<1>1. s.last \in Nat \ {0}  BY DEF RingOK, RingUpTo
<1>2. CASE m <= s.last
  <2>1. Ticked(s, m) = s  BY <1>1, <1>2 DEF Ticked
  <2> QED BY <1>2, <2>1
<1>3. CASE m > s.last
  <2> DEFINE g == CatchUp(s, m)
             h == [g EXCEPT !.last = m]
  <2>1. RingUpTo(g, f, m) /\ g.last = s.last  BY <1>1, <1>3, CaughtUp
  <2>2. Ticked(s, m) = h  BY <1>1, <1>3 DEF Ticked
  <2> HIDE DEF g
  <2>3. h.last = m /\ RingOK(h, f)  BY <2>1 DEF RingOK, RingUpTo, Behind
  <2> QED BY <1>1, <1>3, <2>2, <2>3
<1> QED BY <1>1, <1>2, <1>3

LEMMA TickedNowOK ==
  ASSUME NEW s, NEW f, NEW m, RingOK(s, f)
  PROVE  RingOK(TickedNow(s, m), f) /\ TickedNow(s, m).last = s.last + 1
<1> DEFINE l == s.last
           g == Append1(s, l + 1)
           h == [g EXCEPT !.last = l + 1]
<1>1. s.last \in Nat \ {0} /\ RingUpTo(s, f, l)  BY DEF RingOK, RingUpTo
<1>2. TickedNow(s, m) = h  BY <1>1 DEF TickedNow
<1>3. RingUpTo(g, f, l + 1)
  <2> HIDE DEF l
  <2> QED BY <1>1, Appended
<1> HIDE DEF g
<1>4. h.last = l + 1 /\ RingOK(h, f)  BY <1>3 DEF RingOK, RingUpTo, Behind
<1> QED BY <1>2, <1>4

LEMMA NewSlotOK ==
  ASSUME NEW m \in Nat \ {0}
  PROVE  RingOK(NewSlot(m), m) /\ NewSlot(m).last = m
<1> DEFINE s == [ring |-> [i \in 0 .. Records - 1 |-> 0], cur |-> Records - 1,
                 shown |-> Records - 1, last |-> 0]
           h == NewSlot(m)
<1>1. Records \in Nat /\ Records > 1  BY SlotAssumption
<1>2. (s.cur + 1) % Records = 0
  <2>1. s.cur + 1 \in 0 .. 2 * Records - 1 /\ s.cur + 1 = Records  BY <1>1
  <2> HIDE DEF s
  <2> QED BY <1>1, <2>1, Wraps
<1>3. h = [ring |-> [[i \in 0 .. Records - 1 |-> 0] EXCEPT ![0] = m],
           cur |-> 0, shown |-> 0, last |-> m]
  <2>1. s.last = 0  OBVIOUS
  <2>2. h = [Append1(s, m) EXCEPT !.last = m]  BY <2>1 DEF NewSlot, Ticked
  <2>3. Append1(s, m) = [s EXCEPT !.ring[0] = m, !.cur = 0, !.shown = 0]
    <3> HIDE DEF s
    <3> QED BY <1>2 DEF Append1
  <2> QED BY <2>2, <2>3
<1> HIDE DEF h
<1>4. ASSUME NEW k \in 0 .. Records - 1
      PROVE  Behind(h, k) = IF k = 0 THEN m ELSE 0
  <2>1. Behind(h, k) = h.ring[(0 + Records - k) % Records]  BY <1>3 DEF Behind
  <2>2. (0 + Records - k) % Records = IF k = 0 THEN 0 ELSE Records - k
    BY <1>1, Wraps
  <2>3. \A c \in 0 .. Records - 1 : h.ring[c] = IF c = 0 THEN m ELSE 0  BY <1>3
  <2>4. CASE k = 0  BY <1>1, <2>1, <2>2, <2>3, <2>4
  <2>5. CASE k # 0
    <3>1. Records - k \in 0 .. Records - 1 /\ Records - k # 0  BY <1>1, <2>5
    <3> QED BY <2>1, <2>2, <2>3, <2>5, <3>1
  <2> QED BY <2>4, <2>5
<1>5. h.ring \in [0 .. Records - 1 -> Nat]  BY <1>3
<1>6. m - m = 0 /\ 0 % Records = 0  BY <1>1, Wraps
<1>7. RingOK(h, m)
  <2>1. DOMAIN h = {"ring", "cur", "shown", "last"} /\ h.cur = 0 /\ h.shown = 0 /\ h.last = m
    BY <1>3
  <2>2. \A k \in 0 .. Records - 1 : Behind(h, k) = IF k <= m - m THEN m - k ELSE 0
    BY <1>1, <1>4
  <2> QED BY <1>5, <1>6, <2>1, <2>2 DEF RingOK, RingUpTo
<1> QED BY <1>3, <1>7 DEF h

\* A record of a ring that begins with 1 is in its cell until the ring is round.
LEMMA RingHolds ==
  ASSUME NEW s, RingOK(s, 1), NEW t \in 1 .. s.last, s.last < t + Records
  PROVE  s.ring[Cell(t)] = t /\ Cell(t) \in 0 .. Records - 1
<1> DEFINE l == s.last
           x == l - 1
           k == l - t
<1>1. Records \in Nat /\ Records > 1  BY SlotAssumption
<1>2. l \in Nat /\ s.cur = x % Records
      /\ \A j \in 0 .. Records - 1 : Behind(s, j) = IF j <= x THEN l - j ELSE 0
  BY DEF RingOK, RingUpTo
<1> HIDE DEF l
<1>3. x \in Nat /\ k \in 0 .. Records - 1 /\ k <= x /\ x - k = t - 1 /\ l - k = t
  BY <1>1, <1>2 DEF l
<1>4. Behind(s, k) = t  BY <1>2, <1>3
<1>5. (x - k) % Records = ((x % Records) + Records - k) % Records
  <2> HIDE DEF x, k
  <2> QED BY <1>3, CellBack
<1>6. Behind(s, k) = s.ring[((x % Records) + Records - k) % Records]  BY <1>2 DEF Behind
<1>7. t - 1 \in Nat  BY <1>2 DEF l
<1> QED BY <1>3, <1>4, <1>5, <1>6, <1>7, Divides DEF Cell

\* Every cell is some way behind the newest one.
LEMMA EveryCell ==
  ASSUME NEW s, s.cur \in 0 .. Records - 1, NEW c \in 0 .. Records - 1
  PROVE  \E k \in 0 .. Records - 1 : Behind(s, k) = s.ring[c]
<1> DEFINE k == IF c <= s.cur THEN s.cur - c ELSE s.cur + Records - c
<1>1. Records \in Nat /\ Records > 1  BY SlotAssumption
<1>2. k \in 0 .. Records - 1  BY <1>1
<1>3. (s.cur + Records - k) % Records = c
  <2>1. s.cur + Records - k = IF c <= s.cur THEN c + Records ELSE c  BY <1>1
  <2> HIDE DEF k
  <2>2. s.cur + Records - k \in 0 .. 2 * Records - 1  BY <1>1, <1>2
  <2> QED BY <1>1, <2>1, <2>2, Wraps
<1> HIDE DEF k
<1>4. Behind(s, k) = s.ring[c]  BY <1>3 DEF Behind
<1> QED BY <1>2, <1>4

LEMMA RingShape ==
  ASSUME NEW s, NEW f, RingOK(s, f)
  PROVE  /\ s.last \in Nat \ {0} /\ s.cur \in 0 .. Records - 1 /\ s.shown = s.cur
         /\ \A k \in 0 .. Records - 1 : Behind(s, k) \in 0 .. s.last
         /\ \A c \in 0 .. Records - 1 : s.ring[c] \in 0 .. s.last
<1>1. Records \in Nat /\ Records > 1  BY SlotAssumption
<1>2. /\ s.last \in Nat \ {0} /\ f \in Nat \ {0} /\ f <= s.last /\ s.last - f \in Nat
      /\ s.cur = (s.last - f) % Records /\ s.shown = s.cur
      /\ \A k \in 0 .. Records - 1 : Behind(s, k) = IF k <= s.last - f THEN s.last - k ELSE 0
  BY DEF RingOK, RingUpTo
<1>3. s.cur \in 0 .. Records - 1
  <2> DEFINE x == s.last - f
  <2>1. x \in Nat  BY <1>2
  <2> HIDE DEF x
  <2>2. x % Records \in 0 .. Records - 1  BY <2>1, Divides
  <2> QED BY <1>2, <2>2 DEF x
<1>4. \A k \in 0 .. Records - 1 : Behind(s, k) \in 0 .. s.last  BY <1>1, <1>2
<1> QED BY <1>2, <1>3, <1>4, EveryCell

\* And then all cells hold later ones.
LEMMA RingLapped ==
  ASSUME NEW s, RingOK(s, 1), NEW t \in Nat, s.last >= t + Records, NEW c \in 0 .. Records - 1
  PROVE  s.ring[c] > t
<1> DEFINE l == s.last
<1>1. Records \in Nat /\ Records > 1  BY SlotAssumption
<1>2. l \in Nat \ {0} /\ l >= t + Records
      /\ \A j \in 0 .. Records - 1 : Behind(s, j) = IF j <= l - 1 THEN l - j ELSE 0
  BY DEF RingOK, RingUpTo
<1> HIDE DEF l
<1>3. s.cur \in 0 .. Records - 1  BY RingShape
<1>4. PICK k \in 0 .. Records - 1 : Behind(s, k) = s.ring[c]  BY <1>3, EveryCell
<1>5. Behind(s, k) = l - k /\ l - k > t  BY <1>1, <1>2
<1> QED BY <1>4, <1>5

-----------------------------------------------------------------------------
(* Whoever writes to the slots, their rings stay rings *)

SlotsInv ==
  /\ minute \in 1 .. MaxMinute /\ byHand \in 0 .. MaxByHand
  /\ DOMAIN slots \subseteq Modems /\ Base \in DOMAIN slots
  /\ \A m \in DOMAIN slots :
       /\ slots[m].last \in 1 .. MaxMinute
       /\ \E f \in Nat \ {0} : RingOK(slots[m], f)
  /\ byHand = 0 => RingOK(slots[Base], 1)

LEMMA SlotWritten ==
  ASSUME SlotsInv, NEW m \in Modems, NEW s, NEW f \in Nat \ {0},
         RingOK(s, f), s.last \in 1 .. MaxMinute, slots' = WithSlot(m, s),
         minute' = minute, byHand' \in byHand .. MaxByHand,
         byHand' = 0 /\ m = Base => f = 1
  PROVE  SlotsInv' /\ slots'[m] = s
<1>1. /\ DOMAIN slots' = DOMAIN slots \cup {m}
      /\ \A n \in DOMAIN slots' : slots'[n] = IF n = m THEN s ELSE slots[n]
  BY DEF WithSlot
<1>2. /\ minute' \in 1 .. MaxMinute /\ byHand' \in 0 .. MaxByHand /\ (byHand' = 0 => byHand = 0)
      /\ DOMAIN slots' \subseteq Modems /\ Base \in DOMAIN slots'
  BY <1>1, SlotAssumption DEF SlotsInv
<1>3. ASSUME NEW n \in DOMAIN slots'
      PROVE  slots'[n].last \in 1 .. MaxMinute /\ \E g \in Nat \ {0} : RingOK(slots'[n], g)
  <2>1. CASE n = m  BY <1>1, <2>1
  <2>2. CASE n # m
    <3>1. n \in DOMAIN slots /\ slots'[n] = slots[n]  BY <1>1, <2>2
    <3> QED BY <3>1 DEF SlotsInv
  <2> QED BY <2>1, <2>2
<1>4. byHand' = 0 => RingOK(slots'[Base], 1)
  <2>1. CASE m = Base  BY <1>1, <2>1
  <2>2. CASE m # Base
    <3>1. Base \in DOMAIN slots /\ slots'[Base] = slots[Base]  BY <1>1, <2>2 DEF SlotsInv
    <3> QED BY <1>2, <3>1 DEF SlotsInv
  <2> QED BY <2>1, <2>2
<1>5. SlotsInv'  BY <1>2, <1>3, <1>4 DEF SlotsInv, RingOK, RingUpTo, Behind
<1> QED BY <1>1, <1>5

Newest == slots[Base].last

\* What a step makes of the slots.
SlotsKept == SlotsInv' /\ (byHand' = 0 => byHand = 0 /\ Newest <= Newest')

LEMMA AnsweringOK ==
  ASSUME SlotsInv, NEW m \in Modems
  PROVE  /\ Answering(m).last \in 1 .. MaxMinute
         /\ \E f \in Nat \ {0} : RingOK(Answering(m), f)
         /\ m = Base => /\ Answering(m).last >= Newest
                        /\ byHand = 0 => RingOK(Answering(m), 1)
<1>1. minute \in 1 .. MaxMinute /\ MaxMinute \in Nat  BY SlotAssumption DEF SlotsInv
<1>2. CASE m \in DOMAIN slots
  <2>1. SlotOf(m) = slots[m] /\ slots[m].last \in 1 .. MaxMinute  BY <1>2 DEF SlotOf, SlotsInv
  <2>2. PICK f \in Nat \ {0} : RingOK(slots[m], f)  BY <1>2 DEF SlotsInv
  <2>3. /\ RingOK(Answering(m), f)
        /\ Answering(m).last = IF minute <= slots[m].last THEN slots[m].last ELSE minute
    BY <1>1, <2>1, <2>2, TickedOK DEF Answering
  <2>4. Answering(m).last \in 1 .. MaxMinute /\ Answering(m).last >= slots[m].last
    BY <1>1, <2>1, <2>3
  <2>5. m = Base /\ byHand = 0 => RingOK(Answering(m), 1)
    <3>1. HAVE m = Base /\ byHand = 0
    <3>2. RingOK(slots[m], 1)  BY <3>1 DEF SlotsInv
    <3> QED BY <1>1, <2>1, <3>2, TickedOK DEF Answering
  <2> QED BY <2>3, <2>4, <2>5 DEF Newest
<1>3. CASE m \notin DOMAIN slots
  <2> DEFINE s == NewSlot(minute)
  <2>1. SlotOf(m) = s /\ m # Base  BY <1>3 DEF SlotOf, SlotsInv
  <2>2. RingOK(s, minute) /\ s.last = minute  BY <1>1, NewSlotOK
  <2> HIDE DEF s
  <2>3. RingOK(Answering(m), minute) /\ Answering(m).last = minute
    BY <1>1, <2>1, <2>2, TickedOK DEF Answering
  <2> QED BY <1>1, <2>1, <2>3
<1> QED BY <1>2, <1>3

LEMMA Answered ==
  ASSUME SlotsInv, NEW m \in Modems, slots' = WithSlot(m, Answering(m)),
         UNCHANGED <<minute, byHand>>
  PROVE  SlotsKept
<1>1. PICK f \in Nat \ {0} : RingOK(Answering(m), f)  BY AnsweringOK
<1>2. Answering(m).last \in 1 .. MaxMinute
      /\ (m = Base => Answering(m).last >= Newest /\ (byHand = 0 => RingOK(Answering(m), 1)))
  BY AnsweringOK
<1>3. minute' = minute /\ byHand' = byHand /\ byHand \in 0 .. MaxByHand /\ MaxByHand \in Nat
      /\ byHand' \in byHand .. MaxByHand
  BY SlotAssumption DEF SlotsInv
<1>4. SlotsInv' /\ slots'[m] = Answering(m)
  <2>1. CASE m = Base /\ byHand = 0
    <3>1. RingOK(Answering(m), 1)  BY <1>2, <2>1
    <3> QED BY <1>2, <1>3, <3>1, SlotWritten
  <2>2. CASE ~(m = Base /\ byHand = 0)  BY <1>1, <1>2, <1>3, <2>2, SlotWritten
  <2> QED BY <2>1, <2>2
<1>5. Newest \in 1 .. MaxMinute /\ MaxMinute \in Nat  BY SlotAssumption DEF SlotsInv, Newest
<1>6. m # Base => slots'[Base] = slots[Base]  BY DEF WithSlot, SlotsInv
<1> QED BY <1>2, <1>3, <1>4, <1>5, <1>6 DEF SlotsKept, Newest

LEMMA AskedOK ==
  ASSUME SlotsInv, Asks \/ NotAsked
  PROVE  SlotsKept
<1>1. CASE Asks
  <2>1. Base \in Modems  BY SlotAssumption
  <2> QED BY <1>1, <2>1, Answered DEF Asks
<1>2. CASE NotAsked
  <2>1. UNCHANGED <<minute, slots, byHand>>  BY <1>2 DEF NotAsked, deviceVars
  <2>2. Newest \in 1 .. MaxMinute /\ MaxMinute \in Nat  BY SlotAssumption DEF SlotsInv, Newest
  <2> QED BY <2>1, <2>2 DEF SlotsKept, SlotsInv, Newest, RingOK, RingUpTo, Behind
<1> QED BY <1>1, <1>2

LEMMA DeviceOK ==
  ASSUME SlotsInv, DeviceStep
  PROVE  SlotsKept
<1>0. /\ minute \in 1 .. MaxMinute /\ MaxMinute \in Nat /\ byHand \in 0 .. MaxByHand
      /\ MaxByHand \in Nat /\ Base \in Modems
      /\ Base \in DOMAIN slots /\ DOMAIN slots \subseteq Modems
      /\ Newest \in 1 .. MaxMinute
  BY SlotAssumption DEF SlotsInv, Newest
<1>1. CASE Time
  <2>1. minute < MaxMinute /\ minute' = minute + 1 /\ UNCHANGED <<slots, byHand>>
    BY <1>1 DEF Time
  <2> QED BY <1>0, <2>1 DEF SlotsKept, SlotsInv, Newest, RingOK, RingUpTo, Behind
<1>2. ASSUME NEW m \in Modems, TickSlot(m) PROVE SlotsKept
  <2>1. m \in DOMAIN slots /\ slots' = WithSlot(m, Ticked(slots[m], minute))
        /\ UNCHANGED <<minute, byHand>>
    BY <1>2 DEF TickSlot
  <2>2. Answering(m) = Ticked(slots[m], minute)  BY <2>1 DEF Answering, SlotOf
  <2> QED BY <2>1, <2>2, Answered
<1>3. ASSUME NEW m \in Modems, Packet(m) PROVE SlotsKept
  BY <1>3, Answered DEF Packet
<1>4. CASE TickNow
  <2> DEFINE s == TickedNow(slots[Base], minute)
  <2>1. /\ byHand < MaxByHand /\ Newest < MaxMinute /\ slots' = WithSlot(Base, s)
        /\ byHand' = byHand + 1 /\ minute' = minute
    BY <1>4 DEF TickNow, Newest
  <2>2. PICK f \in Nat \ {0} : RingOK(slots[Base], f)  BY <1>0 DEF SlotsInv
  <2>3. RingOK(s, f) /\ s.last = Newest + 1  BY <2>2, TickedNowOK DEF Newest
  <2> HIDE DEF s
  <2>4. byHand' \in byHand .. MaxByHand /\ byHand' # 0 /\ s.last \in 1 .. MaxMinute
    BY <1>0, <2>1, <2>3
  <2> QED BY <1>0, <2>1, <2>3, <2>4, SlotWritten DEF SlotsKept
<1>5. CASE ResetRing
  <2> DEFINE s == NewSlot(minute)
  <2>1. /\ byHand < MaxByHand /\ slots' = WithSlot(Base, s)
        /\ byHand' = byHand + 1 /\ minute' = minute
    BY <1>5 DEF ResetRing
  <2>2. RingOK(s, minute) /\ s.last = minute  BY <1>0, NewSlotOK
  <2> HIDE DEF s
  <2>3. byHand' \in byHand .. MaxByHand /\ byHand' # 0 /\ minute \in Nat \ {0}
    BY <1>0, <2>1
  <2> QED BY <1>0, <2>1, <2>2, <2>3, SlotWritten DEF SlotsKept
<1> QED BY <1>1, <1>2, <1>3, <1>4, <1>5 DEF DeviceStep, ByHand

LEMMA SlotsStep ==
  ASSUME SlotsInv, [ArchiveNext]_archiveVars
  PROVE  SlotsKept
<1>1. CASE DeviceStep  BY <1>1, DeviceOK
<1>2. CASE Asks \/ NotAsked  BY <1>2, AskedOK
<1> QED BY <1>1, <1>2 DEF ArchiveNext, ScriptStep, Older, PollIndex, PollOthers, PollTimesOut, StartScript,
     NoCommand, Exchange, ScriptEnds, ScriptFails, Flush, Restart, KpzStarts, archiveVars, NotAsked

LEMMA SlotsStart == ArchiveInit => SlotsInv
<1> SUFFICES ASSUME ArchiveInit PROVE SlotsInv  OBVIOUS
<1>1. /\ minute = 1 /\ byHand = 0 /\ DOMAIN slots = {Base} /\ slots[Base] = NewSlot(1)
      /\ MaxMinute \in Nat \ {0} /\ MaxByHand \in Nat /\ Base \in Modems
  BY SlotAssumption DEF ArchiveInit, DeviceInit
<1>2. RingOK(NewSlot(1), 1) /\ NewSlot(1).last = 1  BY NewSlotOK
<1> QED BY <1>1, <1>2 DEF SlotsInv

LEMMA SlotsMean == SlotsInv => SlotType /\ RingContiguous
<1> SUFFICES ASSUME SlotsInv PROVE SlotType /\ RingContiguous  OBVIOUS
<1>1. /\ minute \in 1 .. MaxMinute /\ byHand \in 0 .. MaxByHand /\ DOMAIN slots \subseteq Modems
      /\ MaxMinute \in Nat /\ Records \in Nat /\ Records > 1
  BY SlotAssumption DEF SlotsInv
<1>2. ASSUME NEW m \in DOMAIN slots
      PROVE  /\ slots[m].ring \in [0 .. Records - 1 -> 0 .. MaxMinute]
             /\ slots[m].cur \in 0 .. Records - 1 /\ slots[m].shown = slots[m].cur
             /\ slots[m].last \in 1 .. MaxMinute
             /\ Behind(slots[m], 0) = slots[m].last
             /\ \A k \in 1 .. Records - 1 :
                  Behind(slots[m], k) = IF slots[m].last > k /\ Behind(slots[m], k - 1) # 0
                                           /\ Behind(slots[m], k) # 0
                                          THEN slots[m].last - k ELSE 0
  <2> DEFINE s == slots[m]
  <2>1. PICK f \in Nat \ {0} : RingOK(s, f)  BY DEF SlotsInv
  <2>2. s.last \in 1 .. MaxMinute  BY DEF SlotsInv
  <2> HIDE DEF s
  <2>3. s.ring \in [0 .. Records - 1 -> Nat] /\ f <= s.last /\ s.shown = s.cur
        /\ \A k \in 0 .. Records - 1 : Behind(s, k) = IF k <= s.last - f THEN s.last - k ELSE 0
    BY <2>1 DEF RingOK, RingUpTo
  <2>4. \A c \in 0 .. Records - 1 : s.ring[c] \in 0 .. MaxMinute
    <3>1. \A c \in 0 .. Records - 1 : s.ring[c] \in 0 .. s.last  BY <2>1, RingShape
    <3> QED BY <1>1, <2>2, <3>1
  <2>5. s.ring \in [0 .. Records - 1 -> 0 .. MaxMinute]  BY <2>3, <2>4
  <2>6. s.cur \in 0 .. Records - 1  BY <2>1, RingShape
  <2>7. Behind(s, 0) = s.last  BY <1>1, <2>2, <2>3
  <2>8. ASSUME NEW k \in 1 .. Records - 1
        PROVE  Behind(s, k) = IF s.last > k /\ Behind(s, k - 1) # 0 /\ Behind(s, k) # 0
                                THEN s.last - k ELSE 0
    <3>1. k \in 0 .. Records - 1 /\ k - 1 \in 0 .. Records - 1  BY <1>1
    <3>2. Behind(s, k) = IF k <= s.last - f THEN s.last - k ELSE 0  BY <2>3, <3>1
    <3>3. Behind(s, k - 1) = IF k - 1 <= s.last - f THEN s.last - (k - 1) ELSE 0  BY <2>3, <3>1
    <3> QED BY <1>1, <2>2, <2>3, <3>1, <3>2, <3>3
  <2> QED BY <2>2, <2>3, <2>5, <2>6, <2>7, <2>8 DEF s
<1> QED BY <1>1, <1>2 DEF SlotType, RingContiguous

\* However late the ticker, the packets and the hands at the window come, the
\* ring of every slot holds minute after minute, with the index register on
\* the newest record (imm.rs 122-141, 192-234).
THEOREM RingsHaveNoGap == ArchiveSpec => [](SlotType /\ RingContiguous)
<1>1. ArchiveInit => SlotsInv  BY SlotsStart
<1>2. SlotsInv /\ [ArchiveNext]_archiveVars => SlotsInv'  BY SlotsStep DEF SlotsKept
<1>3. SlotsInv => SlotType /\ RingContiguous  BY SlotsMean
<1> QED BY <1>1, <1>2, <1>3, PTL DEF ArchiveSpec

-----------------------------------------------------------------------------
(* The server's side.  What every delta, the job and the database look     *)
(* like, whatever was done to the ring: the rows of a delta are the        *)
(* records its updates stand for, each archive is read once by a job, and  *)
(* no delta without an update waits.                                       *)

Entry == [ind : 0 .. Records - 1, ts : 0 .. MaxMinute]
Upd == UNION {[A -> Entry] : A \in SUBSET Archives}

Matched(d) == d.rows \subseteq {<<a, d.upd[a].ts>> : a \in DOMAIN d.upd}

Values == [ind : [Archives -> 0 .. Records - 1], stable : 0 .. Records - 1, known : BOOLEAN,
           ready : BOOLEAN, others : BOOLEAN]

ServerShape ==
  /\ rv \in Values
  /\ seen \in [samples : 0 .. 2, age : 0 .. NoAge]
  /\ streak \in 0 .. NoResponses /\ sure \in 0 .. 2

DeltaShape ==
  /\ job \in [on : BOOLEAN, todo : Seq(Archives), rows : SUBSET RowType, upd : Upd, sure : 0 .. 2,
              other : BOOLEAN]
  /\ Matched(job) /\ (~job.on => job = Idle)
  /\ IsInjective(job.todo) /\ ToSet(job.todo) \cap DOMAIN job.upd = {}
  /\ queue \in Seq([rows : SUBSET RowType, upd : Upd]) /\ Len(queue) <= MaxQueue
  /\ \A i \in DOMAIN queue : Matched(queue[i]) /\ Handed(queue[i])
  /\ db \in [last : [Archives -> Entry], rows : SUBSET RowType] /\ dropped \subseteq RowType
  /\ ~lagged => Len(queue) <= 1 /\ (job.on => queue = <<>>)
  /\ blind \in BOOLEAN /\ (job.on /\ ~blind => rv.known)

(* What is known of one archive a as long as the ring was left alone.  s   *)
(* is the last record stored, n the newest of the ring, D the dropped      *)
(* rows, lg whether a job read an index too early.                         *)

IsAt(u, n) == u.ts \in 1 .. n /\ u.ind = Cell(u.ts)

\* An update is about the record after the stored one, or about that one again.
Follows(a, d, s, n, D, lg) ==
  a \in DOMAIN d.upd =>
    /\ IsAt(d.upd[a], n) /\ d.upd[a].ts \in {s, s + 1} \ {1}
    /\ <<a, d.upd[a].ts>> \in d.rows \cup D
    /\ ~lg => d.upd[a].ts = s + 1

\* The records that the updates in the channel are about.
Waits(a, q) == {q[i].upd[a].ts : i \in {j \in DOMAIN q : a \in DOMAIN q[j].upd}}

QueueFlow(a, q, s, n, D, lg) ==
  \A i \in DOMAIN q :
    /\ Follows(a, q[i], s, n, D, lg)
    /\ \A j \in DOMAIN q :
         i < j /\ a \in DOMAIN q[i].upd /\ a \in DOMAIN q[j].upd => q[i].upd[a].ts <= q[j].upd[a].ts

StoreFlow(a, l, rows, n, D) ==
  /\ IsAt(l, n)
  /\ \A ts \in 2 .. l.ts : <<a, ts>> \in rows \cup D
  /\ \A ts \in 0 .. MaxMinute : <<a, ts>> \in rows => ts <= l.ts
  /\ \A ts \in 0 .. MaxMinute : <<a, ts>> \in D => ts <= l.ts + 1

\* A job that has yet to come to the archive goes on from record p.
GoesOn(a, p, ind, q, s, D, lg) ==
  /\ p \in {s, s - 1} \ {0} /\ ind = Cell(p)
  /\ \A u \in Waits(a, q) : u <= p + 1
  /\ \A ts \in 0 .. MaxMinute : <<a, ts>> \in D => ts <= p + 1
  /\ ~lg => p = s

JobFlow(a, jb, ind, q, s, n, D, lg) ==
  /\ Follows(a, jb, s, n, D, lg)
  /\ a \in DOMAIN jb.upd => \A u \in Waits(a, q) : u <= jb.upd[a].ts
  /\ a \in ToSet(jb.todo) => \E p \in {s, s - 1} : GoesOn(a, p, ind, q, s, D, lg)

\* No update is ahead of the confirmed index st.
Within(a, st, jb, q, s) ==
  /\ s <= st /\ \A u \in Waits(a, q) : u <= st
  /\ a \in DOMAIN jb.upd => jb.upd[a].ts <= st

ArchiveFlow(a, n) ==
  /\ StoreFlow(a, db.last[a], db.rows, n, dropped)
  /\ QueueFlow(a, queue, db.last[a].ts, n, dropped, lagged)
  /\ JobFlow(a, job, rv.ind[a], queue, db.last[a].ts, n, dropped, lagged)

IndexFlow(n) ==
  rv.known => \E st \in 1 .. n :
    rv.stable = Cell(st) /\ \A a \in Archives : Within(a, st, job, queue, db.last[a].ts)

FlowAt(n) == IndexFlow(n) /\ \A a \in Archives : ArchiveFlow(a, n)
Flow == FlowAt(Newest)

-----------------------------------------------------------------------------
(* The shapes hold *)

LEMMA UpdShape ==
  ASSUME NEW u
  PROVE  u \in Upd <=> /\ DOMAIN u \subseteq Archives /\ u = [a \in DOMAIN u |-> u[a]]
                       /\ \A a \in DOMAIN u : u[a] \in Entry
<1>1. ASSUME u \in Upd
      PROVE  /\ DOMAIN u \subseteq Archives /\ u = [a \in DOMAIN u |-> u[a]]
             /\ \A a \in DOMAIN u : u[a] \in Entry
  <2>1. PICK A \in SUBSET Archives : u \in [A -> Entry]  BY <1>1 DEF Upd
  <2> QED BY <2>1
<1>2. ASSUME DOMAIN u \subseteq Archives, u = [a \in DOMAIN u |-> u[a]],
             \A a \in DOMAIN u : u[a] \in Entry
      PROVE  u \in Upd
  <2>1. u \in [DOMAIN u -> Entry]  BY <1>2
  <2> QED BY <1>2, <2>1 DEF Upd
<1> QED BY <1>1, <1>2

LEMMA NoUpd == <<>> \in Upd /\ DOMAIN <<>> = {}
<1>1. DOMAIN <<>> = {} /\ <<>> \in [{} -> Entry]  OBVIOUS
<1> QED BY <1>1 DEF Upd

LEMMA PushedUpd ==
  ASSUME NEW u \in Upd, NEW a \in Archives, NEW e \in Entry
  PROVE  /\ Pushed(u, a, e) \in Upd /\ DOMAIN Pushed(u, a, e) = DOMAIN u \cup {a}
         /\ \A b \in DOMAIN u \cup {a} : Pushed(u, a, e)[b] = IF b = a THEN e ELSE u[b]
<1> DEFINE v == Pushed(u, a, e)
<1>1. /\ DOMAIN v = DOMAIN u \cup {a} /\ v = [b \in DOMAIN u \cup {a} |-> v[b]]
      /\ \A b \in DOMAIN u \cup {a} : v[b] = IF b = a THEN e ELSE u[b]
  BY DEF Pushed
<1> HIDE DEF v
<1>2. DOMAIN u \subseteq Archives /\ \A b \in DOMAIN u : u[b] \in Entry  BY UpdShape
<1>3. v \in Upd  BY <1>1, <1>2, UpdShape
<1> QED BY <1>1, <1>3 DEF v

LEMMA Constants ==
  /\ Records \in Nat /\ Records > 1 /\ Base \in Modems /\ MaxMinute \in Nat \ {0}
  /\ StaleAge \in Nat \ {0} /\ NoResponses \in Nat \ {0} /\ NoAge = StaleAge + 2
  /\ Groups \in Seq(Archives) /\ IsInjective(Groups) /\ MaxQueue \in Nat
BY SlotAssumption, ArchiveAssumption DEF NoAge, Archives

LEMMA ServerStart == ArchiveInit => ServerShape
BY Constants DEF ArchiveInit, ServerShape, Values, NoValues, Unseen

\* What a job's look at the age of the samples leaves.
LEMMA RefreshedShape ==
  ASSUME ServerShape
  PROVE  /\ Refreshed(rv, seen) \in Values
         /\ RefreshedSeen(seen) \in [samples : 0 .. 2, age : 0 .. NoAge]
         /\ RefreshedSure \in 0 .. 2
<1>1. /\ rv \in Values /\ seen \in [samples : 0 .. 2, age : 0 .. NoAge] /\ sure \in 0 .. 2
  BY DEF ServerShape
<1>2. [rv EXCEPT !.ready = FALSE] \in Values  BY <1>1 DEF Values
<1>3. [seen EXCEPT !.samples = 0] \in [samples : 0 .. 2, age : 0 .. NoAge]  BY <1>1
<1> QED BY <1>1, <1>2, <1>3 DEF Refreshed, RefreshedSeen, RefreshedSure

LEMMA TimeoutShape ==
  ASSUME ServerShape, NEW v \in Values, NEW s \in [samples : 0 .. 2, age : 0 .. NoAge],
         NEW n \in 0 .. 2, TimedOut(v, s, n)
  PROVE  ServerShape'
<1>1. More(streak) \in 0 .. NoResponses  BY Constants DEF ServerShape, More
<1>2. ClosedBySilence(v) \in Values  BY DEF Values, ClosedBySilence
<1>3. [s EXCEPT !.samples = 0] \in [samples : 0 .. 2, age : 0 .. NoAge]  OBVIOUS
<1> QED BY <1>1, <1>2, <1>3 DEF ServerShape, TimedOut

LEMMA ServerStep ==
  ASSUME ServerShape, DeltaShape, SlotsInv', [ArchiveNext]_archiveVars
  PROVE  ServerShape'
<1>0. rv \in Values /\ seen \in [samples : 0 .. 2, age : 0 .. NoAge]
      /\ streak \in 0 .. NoResponses /\ sure \in 0 .. 2
  BY DEF ServerShape
<1>1. CASE UNCHANGED <<rv, seen, streak, sure>>  BY <1>1 DEF ServerShape
<1>2. CASE Older
  <2>1. seen.age <= StaleAge /\ seen' = [seen EXCEPT !.age = @ + 1]
        /\ UNCHANGED <<rv, streak, sure>>
    BY <1>2 DEF Older
  <2>2. seen.age + 1 \in 0 .. NoAge  BY <1>0, <2>1, Constants
  <2>3. seen' \in [samples : 0 .. 2, age : 0 .. NoAge]  BY <1>0, <2>1, <2>2
  <2> QED BY <1>0, <2>1, <2>3 DEF ServerShape
<1>3. CASE PollIndex
  <2> DEFINE v == Refreshed(rv, seen)
             s == RefreshedSeen(seen)
             n == RefreshedSure
  <2>1. /\ rv' = Quality(v, s, slots'[Base].shown) /\ seen' = Sampled(s) /\ streak' = 0
        /\ sure' = IF seen.age = 0 \/ n = 2 THEN sure ELSE n + 1
    BY <1>3 DEF PollIndex
  <2>0. v \in Values /\ s \in [samples : 0 .. 2, age : 0 .. NoAge] /\ n \in 0 .. 2
    BY RefreshedShape
  <2> HIDE DEF v, s, n
  <2>2. slots'[Base].shown \in 0 .. Records - 1
    <3>1. PICK f \in Nat \ {0} : RingOK(slots'[Base], f)  BY DEF SlotsInv, RingOK, RingUpTo, Behind
    <3> QED BY <3>1, RingShape
  <2>3. seen' \in [samples : 0 .. 2, age : 0 .. NoAge]  BY <2>0, <2>1, Constants DEF Sampled
  <2>4. rv' \in Values
    <3>1. \/ rv' = v \/ rv' = [v EXCEPT !.ready = FALSE]
          \/ rv' = [v EXCEPT !.ready = TRUE, !.stable = slots'[Base].shown, !.known = TRUE]
      BY <2>1 DEF Quality
    <3> QED BY <2>0, <2>2, <3>1 DEF Values
  <2>5. streak' \in 0 .. NoResponses /\ sure' \in 0 .. 2  BY <1>0, <2>0, <2>1, Constants
  <2> QED BY <2>3, <2>4, <2>5 DEF ServerShape
<1>4. CASE PollTimesOut
  <2> DEFINE v == Refreshed(rv, seen)
             s == RefreshedSeen(seen)
             n == RefreshedSure
  <2>1. TimedOut(v, s, n)  BY <1>4 DEF PollTimesOut
  <2>2. v \in Values /\ s \in [samples : 0 .. 2, age : 0 .. NoAge] /\ n \in 0 .. 2
    BY RefreshedShape
  <2> HIDE DEF v, s, n
  <2> QED BY <2>1, <2>2, TimeoutShape
<1>10. CASE PollOthers
  <2> DEFINE v == Refreshed(rv, seen)
  <2>1. /\ \E one \in BOOLEAN : rv' = [v EXCEPT !.others = one]
        /\ seen' = RefreshedSeen(seen) /\ sure' = RefreshedSure /\ streak' = 0
    BY <1>10 DEF PollOthers
  <2>2. v \in Values  BY RefreshedShape
  <2> HIDE DEF v
  <2>3. rv' \in Values  BY <2>1, <2>2 DEF Values
  <2> QED BY <2>1, <2>3, RefreshedShape, Constants DEF ServerShape
<1>5. CASE StartScript
  <2>1. Refreshed(rv, seen) \in Values  BY RefreshedShape
  <2>2. Primed \in [Archives -> 0 .. Records - 1]  BY DEF DeltaShape, Entry, Primed
  <2>3. rv' \in Values
    <3> DEFINE v == Refreshed(rv, seen)
    <3>1. rv' = [v EXCEPT !.ind = Primed] \/ rv' = v  BY <1>5 DEF StartScript
    <3> HIDE DEF v
    <3>2. v \in Values  BY <2>1 DEF v
    <3> QED BY <2>2, <3>1, <3>2 DEF Values
  <2>4. seen' \in [samples : 0 .. 2, age : 0 .. NoAge] /\ sure' \in 0 .. 2
    BY <1>5, RefreshedShape DEF StartScript
  <2>5. streak' \in 0 .. NoResponses  BY <1>0, <1>5, Constants DEF StartScript
  <2> QED BY <2>3, <2>4, <2>5 DEF ServerShape
<1>6. ASSUME NEW good \in BOOLEAN, Exchange(good) PROVE ServerShape'
  <2> DEFINE a == Head(job.todo)
  <2>1. /\ UNCHANGED <<seen, streak, sure>>
        /\ \E i \in PreCmds(a) : rv' = [rv EXCEPT !.ind[a] = i] \/ rv' = rv
    BY <1>6 DEF Exchange
  <2>2. PICK i \in PreCmds(a) : rv' = [rv EXCEPT !.ind[a] = i] \/ rv' = rv  BY <2>1
  <2>3. i \in 0 .. Records - 1
    <3>1. i = (rv.ind[a] + 1) % Records  BY <2>2 DEF PreCmds, Next1
    <3>2. a \in Archives  BY <1>6 DEF Exchange, DeltaShape
    <3>3. rv.ind[a] + 1 \in Nat  BY <1>0, <3>2 DEF Values
    <3> QED BY <3>1, <3>3, Divides
  <2> HIDE DEF a
  <2>4. rv' \in Values  BY <1>0, <2>2, <2>3 DEF Values
  <2> QED BY <1>0, <2>1, <2>4 DEF ServerShape
<1>7. ASSUME NEW t \in BOOLEAN, ScriptFails(t) PROVE ServerShape'
  <2>1. TimedOut(rv, seen, sure) \/ UNCHANGED <<rv, seen, streak, sure>>
    BY <1>7 DEF ScriptFails
  <2>2. CASE TimedOut(rv, seen, sure)  BY <1>0, <2>2, TimeoutShape
  <2> QED BY <1>1, <2>1, <2>2
<1>8. CASE ScriptEnds  BY <1>0, <1>8, Constants DEF ScriptEnds, ServerShape
<1>9. CASE Restart \/ KpzStarts
  <2>1. rv' = NoValues /\ seen' = Unseen /\ streak' = 0 /\ sure' = 0
    BY <1>9 DEF Restart, KpzStarts
  <2> QED BY <2>1, Constants DEF ServerShape, Values, NoValues, Unseen
<1> QED
  <2>1. CASE DeviceStep \/ NoCommand \/ (\E n \in DOMAIN queue : Flush(n)) \/ UNCHANGED archiveVars
    BY <1>1, <2>1 DEF DeviceStep, NoCommand, Flush, archiveVars, serverVars
  <2> QED BY <1>2, <1>3, <1>4, <1>5, <1>6, <1>7, <1>8, <1>9, <1>10, <2>1 DEF ArchiveNext, ScriptStep

Delta == [rows : SUBSET RowType, upd : Upd]
Job == [on : BOOLEAN, todo : Seq(Archives), rows : SUBSET RowType, upd : Upd, sure : 0 .. 2,
        other : BOOLEAN]

\* The part of DeltaShape that is about the job, and the one about the channel.
JobShape(j) ==
  /\ j \in Job /\ Matched(j) /\ (~j.on => j = Idle)
  /\ IsInjective(j.todo) /\ ToSet(j.todo) \cap DOMAIN j.upd = {}

QueueShape(q) ==
  /\ q \in Seq(Delta) /\ Len(q) <= MaxQueue
  /\ \A i \in DOMAIN q : Matched(q[i]) /\ Handed(q[i])

LEMMA ShapeParts ==
  DeltaShape <=> /\ JobShape(job) /\ QueueShape(queue)
                 /\ db \in [last : [Archives -> Entry], rows : SUBSET RowType]
                 /\ dropped \subseteq RowType
                 /\ ~lagged => Len(queue) <= 1 /\ (job.on => queue = <<>>)
                 /\ blind \in BOOLEAN /\ (job.on /\ ~blind => rv.known)
BY DEF DeltaShape, JobShape, QueueShape, Delta, Job

LEMMA IdleShape == JobShape(Idle)
<1>1. <<>> \in Seq(Archives) /\ IsInjective(<<>>) /\ ToSet(<<>>) = {}  BY DEF IsInjective, ToSet
<1>2. Idle \in Job /\ Idle.todo = <<>> /\ Idle.rows = {} /\ Idle.on = FALSE
  BY <1>1, NoUpd DEF Job, Idle
<1> QED BY <1>1, <1>2 DEF JobShape, Matched

LEMMA TailShape ==
  ASSUME NEW t \in Seq(Archives), t # <<>>, IsInjective(t)
  PROVE  /\ Tail(t) \in Seq(Archives) /\ IsInjective(Tail(t))
         /\ Head(t) \in Archives /\ Head(t) \in ToSet(t)
         /\ Head(t) \notin ToSet(Tail(t)) /\ ToSet(Tail(t)) \subseteq ToSet(t)
<1>1. /\ Len(t) \in Nat \ {0} /\ DOMAIN t = 1 .. Len(t) /\ Head(t) = t[1]
      /\ Tail(t) \in Seq(Archives) /\ DOMAIN Tail(t) = 1 .. Len(t) - 1
      /\ \A i \in 1 .. Len(t) - 1 : Tail(t)[i] = t[i + 1]
  OBVIOUS
<1>2. \A i \in 1 .. Len(t) - 1 : i + 1 \in DOMAIN t /\ i + 1 # 1  BY <1>1
<1>3. IsInjective(Tail(t))
  <2> SUFFICES ASSUME NEW i \in 1 .. Len(t) - 1, NEW j \in 1 .. Len(t) - 1,
                      Tail(t)[i] = Tail(t)[j]
               PROVE  i = j
    BY <1>1 DEF IsInjective
  <2>1. t[i + 1] = t[j + 1]  BY <1>1
  <2>2. i + 1 = j + 1  BY <1>2, <2>1 DEF IsInjective
  <2> QED BY <2>2
<1>4. 1 \in DOMAIN t  BY <1>1
<1>5. Head(t) \notin ToSet(Tail(t))
  <2> SUFFICES ASSUME NEW i \in 1 .. Len(t) - 1, Tail(t)[i] = Head(t) PROVE FALSE
    BY <1>1 DEF ToSet
  <2>1. t[i + 1] = t[1]  BY <1>1
  <2> QED BY <1>2, <1>4, <2>1 DEF IsInjective
<1>6. ToSet(Tail(t)) \subseteq ToSet(t)  BY <1>1, <1>2 DEF ToSet
<1> QED BY <1>1, <1>3, <1>4, <1>5, <1>6 DEF ToSet

LEMMA HandedOver ==
  ASSUME DeltaShape, job.on, NEW rows \in SUBSET job.rows, HandOver(rows, job.upd),
         Len(queue) < MaxQueue, dropped' \subseteq RowType, UNCHANGED <<db, lagged, blind>>
  PROVE  DeltaShape'
<1>1. JobShape(job) /\ QueueShape(queue) /\ job' = Idle  BY ShapeParts DEF HandOver
<1>2. QueueShape(queue') /\ (~lagged' => Len(queue') <= 1)
  <2>1. CASE rows = {} /\ DOMAIN job.upd = {}
    <3>1. queue' = queue  BY <2>1 DEF HandOver
    <3> QED BY <1>1, <3>1 DEF DeltaShape
  <2>2. CASE ~(rows = {} /\ DOMAIN job.upd = {})
    <3> DEFINE d == [rows |-> rows, upd |-> job.upd]
    <3>1. queue' = Append(queue, d)  BY <2>2 DEF HandOver
    <3>2. d \in Delta  BY <1>1 DEF JobShape, Job, Delta
    <3>3. Matched(d) /\ Handed(d)
      <4>1. rows \subseteq {<<a, job.upd[a].ts>> : a \in DOMAIN job.upd}
        BY <1>1 DEF JobShape, Matched
      <4>2. DOMAIN job.upd # {}  BY <2>2, <4>1
      <4> QED BY <4>1, <4>2 DEF Matched, Handed
    <3> HIDE DEF d
    <3>4. /\ queue \in Seq(Delta) /\ Len(queue) \in Nat /\ queue' \in Seq(Delta)
          /\ Len(queue') = Len(queue) + 1 /\ DOMAIN queue' = 1 .. Len(queue) + 1
          /\ \A i \in 1 .. Len(queue) : queue'[i] = queue[i] /\ i \in DOMAIN queue
          /\ queue'[Len(queue) + 1] = d
      BY <1>1, <3>1, <3>2 DEF QueueShape
    <3>5. \A i \in DOMAIN queue' : i \in 1 .. Len(queue) \/ i = Len(queue) + 1  BY <3>4
    <3>6. \A i \in DOMAIN queue' : Matched(queue'[i]) /\ Handed(queue'[i])
      BY <1>1, <3>3, <3>4, <3>5 DEF QueueShape
    <3>7. Len(queue) + 1 <= MaxQueue  BY <3>4, Constants
    <3>8. ~lagged' => Len(queue') <= 1
      <4>1. ~lagged' => queue = <<>>  BY DEF DeltaShape
      <4> QED BY <3>4, <4>1
    <3> QED BY <3>4, <3>6, <3>7, <3>8 DEF QueueShape
  <2> QED BY <2>1, <2>2
<1>3. /\ JobShape(job') /\ job'.on = FALSE
      /\ db' \in [last : [Archives -> Entry], rows : SUBSET RowType]
  BY <1>1, IdleShape DEF DeltaShape, Idle
<1> QED BY <1>2, <1>3, ShapeParts DEF DeltaShape, JobShape, QueueShape, Delta, Job

LEMMA DeltaStart == ArchiveInit => DeltaShape
<1> SUFFICES ASSUME ArchiveInit PROVE DeltaShape  OBVIOUS
<1>1. job = Idle /\ job.on = FALSE /\ queue = <<>> /\ dropped = {}
      /\ db = [last |-> [a \in Archives |-> At(0, 1)], rows |-> {}] /\ blind = FALSE
  BY DEF ArchiveInit, Idle
<1>2. At(0, 1) \in Entry  BY Constants DEF At, Entry
<1>3. QueueShape(queue) /\ Len(queue) = 0  BY <1>1, Constants DEF QueueShape
<1>4. db \in [last : [Archives -> Entry], rows : SUBSET RowType]  BY <1>1, <1>2
<1>5. JobShape(job) /\ ~job.on  BY <1>1, IdleShape
<1>6. blind \in BOOLEAN /\ dropped \subseteq RowType  BY <1>1
<1>7. (~lagged => Len(queue) <= 1 /\ (job.on => queue = <<>>)) /\ (job.on /\ ~blind => rv.known)
  BY <1>3, <1>5
<1> QED BY ONLY <1>3, <1>4, <1>5, <1>6, <1>7, ShapeParts

\* A group of the job is done: it was passed over, or its record e is in the delta.
PassedOver == rv' = rv /\ job' = [job EXCEPT !.todo = Tail(@)]
Recorded(a, e) ==
  /\ rv' = [rv EXCEPT !.ind[a] = e.ind]
  /\ job' = [job EXCEPT !.todo = Tail(@), !.rows = @ \cup {<<a, e.ts>>}, !.upd = Pushed(@, a, e)]

LEMMA GroupDone ==
  ASSUME JobShape(job), job.on, job.todo # <<>>, NEW e \in Entry, NEW a, a = Head(job.todo),
         PassedOver \/ Recorded(a, e)
  PROVE  JobShape(job') /\ job'.on /\ job'.todo = Tail(job.todo)
<1>1. job \in Job /\ IsInjective(job.todo) /\ job.todo \in Seq(Archives)
      /\ job.rows \subseteq RowType /\ job.upd \in Upd
  BY DEF JobShape, Job
<1>2. /\ Tail(job.todo) \in Seq(Archives) /\ IsInjective(Tail(job.todo))
      /\ a \in Archives /\ a \in ToSet(job.todo)
      /\ a \notin ToSet(Tail(job.todo)) /\ ToSet(Tail(job.todo)) \subseteq ToSet(job.todo)
  BY <1>1, TailShape
<1>3. ToSet(job.todo) \cap DOMAIN job.upd = {} /\ Matched(job)  BY DEF JobShape
<1>4. CASE PassedOver
  <2>0. job' = [job EXCEPT !.todo = Tail(@)]  BY <1>4 DEF PassedOver
  <2>1. job' \in Job /\ job'.on /\ job'.todo = Tail(job.todo) /\ job'.rows = job.rows
        /\ job'.upd = job.upd
    BY <1>1, <1>2, <2>0 DEF Job
  <2> QED BY <1>2, <1>3, <2>1 DEF JobShape, Matched
<1>5. CASE Recorded(a, e)
  <2> DEFINE u == Pushed(job.upd, a, e)
  <2>1. /\ u \in Upd /\ DOMAIN u = DOMAIN job.upd \cup {a}
        /\ \A b \in DOMAIN job.upd \cup {a} : u[b] = IF b = a THEN e ELSE job.upd[b]
    <3>1. u \in Upd /\ DOMAIN u = DOMAIN job.upd \cup {a}  BY <1>1, <1>2, PushedUpd
    <3>2. \A b \in DOMAIN job.upd \cup {a} : u[b] = IF b = a THEN e ELSE job.upd[b]
      BY DEF Pushed
    <3> QED BY <3>1, <3>2
  <2>2. <<a, e.ts>> \in RowType  BY <1>2 DEF RowType, Entry
  <2>3. job' = [job EXCEPT !.todo = Tail(@), !.rows = @ \cup {<<a, e.ts>>}, !.upd = u]
    BY <1>5 DEF Recorded
  <2> HIDE DEF u
  <2>4. job' \in Job /\ job'.on /\ job'.todo = Tail(job.todo)
        /\ job'.rows = job.rows \cup {<<a, e.ts>>} /\ job'.upd = u
    BY <1>1, <1>2, <2>1, <2>2, <2>3 DEF Job
  <2>5. Matched(job')
    <3>1. a \notin DOMAIN job.upd  BY <1>2, <1>3
    <3>2. \A b \in DOMAIN job.upd : u[b] = job.upd[b]  BY <2>1, <3>1
    <3>3. u[a] = e  BY <2>1
    <3>4. job.rows \subseteq {<<b, job.upd[b].ts>> : b \in DOMAIN job.upd}  BY <1>3 DEF Matched
    <3> QED BY <2>1, <2>4, <3>2, <3>3, <3>4 DEF Matched
  <2>6. ToSet(Tail(job.todo)) \cap DOMAIN u = {}  BY <1>2, <1>3, <2>1
  <2> QED BY <1>2, <2>4, <2>5, <2>6 DEF JobShape
<1> QED BY <1>4, <1>5
\* A set of places of a sequence has a last one.
LEMMA LastPlace ==
  ASSUME NEW n \in Nat, NEW S \in SUBSET (1 .. n), S # {}
  PROVE  Max(S) \in S /\ \A y \in S : Max(S) >= y
<1> DEFINE T == {n - i : i \in S}
           R == OpToRel(<, Nat)
<1>1. \A i \in S : i \in Int /\ n - i \in Nat  OBVIOUS
<1>2. T \subseteq Nat /\ T # {}  BY <1>1
<1>3. PICK t \in T : \A y \in T : ~(<<y, t>> \in R)
  <2>1. IsWellFoundedOn(R, Nat)  BY NatLessThanWellFounded
  <2> HIDE DEF R, T
  <2> QED BY <1>2, <2>1, WFMin
<1>4. \A y \in T : ~(y < t)  BY <1>2, <1>3 DEF OpToRel
<1>5. PICK x \in S : t = n - x  OBVIOUS
<1>6. \A y \in S : x >= y
  <2> SUFFICES ASSUME NEW y \in S PROVE x >= y  OBVIOUS
  <2>1. ~(n - y < n - x)  BY <1>4, <1>5
  <2>2. x \in Int /\ y \in Int  BY <1>1
  <2> QED BY <2>1, <2>2
<1>7. \A z \in S : (\A y \in S : z >= y) => z = x  BY <1>1, <1>6
<1> QED BY <1>6, <1>7 DEF Max

\* Flush takes the first n deltas out of the channel.
LEMMA FlushedQueue ==
  ASSUME NEW q \in Seq(Delta), NEW n \in DOMAIN q
  PROVE  LET r == SubSeq(q, n + 1, Len(q)) IN
         /\ r \in Seq(Delta) /\ Len(r) = Len(q) - n /\ n \in 1 .. Len(q)
         /\ DOMAIN r = 1 .. Len(q) - n /\ DOMAIN q = 1 .. Len(q)
         /\ \A i \in DOMAIN r : r[i] = q[n + i] /\ n + i \in DOMAIN q
<1> DEFINE r == SubSeq(q, n + 1, Len(q))
<1>1. n \in 1 .. Len(q) /\ Len(q) \in Nat /\ DOMAIN q = 1 .. Len(q)  OBVIOUS
<1>2. /\ r \in Seq(Delta) /\ Len(r) = Len(q) - n /\ DOMAIN r = 1 .. Len(q) - n
      /\ \A i \in 1 .. Len(q) - n : r[i] = q[n + i]
  BY <1>1
<1>3. \A i \in 1 .. Len(q) - n : n + i \in DOMAIN q  BY <1>1
<1> QED BY <1>1, <1>2, <1>3

\* What a batch has for one archive.
LEMMA BatchLast ==
  ASSUME NEW a \in Archives, NEW n \in Nat, n <= Len(queue), queue \in Seq(Delta)
  PROVE  /\ Updating(a, n) = {} => Batch(n).last[a] = db.last[a]
         /\ Updating(a, n) # {} =>
              \E i \in Updating(a, n) : /\ Batch(n).last[a] = queue[i].upd[a]
                                        /\ \A j \in Updating(a, n) : j <= i
<1> DEFINE U == Updating(a, n)
<1>1. Batch(n).last[a] = IF U = {} THEN db.last[a] ELSE queue[Max(U)].upd[a]  BY DEF Batch
<1>2. U \subseteq 1 .. n  BY DEF Updating
<1> HIDE DEF U
<1>3. ASSUME U # {}
      PROVE  \E i \in U : Batch(n).last[a] = queue[i].upd[a] /\ \A j \in U : j <= i
  <2>1. Max(U) \in U /\ \A y \in U : Max(U) >= y  BY <1>2, <1>3, LastPlace
  <2>2. \A y \in U : y <= Max(U)  BY <1>2, <2>1
  <2> QED BY <1>1, <1>3, <2>1, <2>2
<1> QED BY <1>1, <1>3 DEF U

LEMMA FlushShape ==
  ASSUME DeltaShape, NEW n \in DOMAIN queue, Flush(n)
  PROVE  DeltaShape'
<1>1. QueueShape(queue) /\ queue \in Seq(Delta) /\ JobShape(job)  BY ShapeParts DEF QueueShape
<1>2. /\ db' = [rows |-> db.rows \cup Batch(n).rows, last |-> Batch(n).last]
      /\ queue' = SubSeq(queue, n + 1, Len(queue))
      /\ UNCHANGED <<rv, job, dropped, lagged, blind>>
  BY DEF Flush
<1>3. /\ queue' \in Seq(Delta) /\ Len(queue') = Len(queue) - n /\ n \in 1 .. Len(queue)
      /\ Len(queue) \in Nat /\ DOMAIN queue = 1 .. Len(queue)
      /\ \A i \in DOMAIN queue' : queue'[i] = queue[n + i] /\ n + i \in DOMAIN queue
  BY <1>1, <1>2, FlushedQueue
<1>4. QueueShape(queue')
  <2>1. Len(queue') <= MaxQueue  BY <1>1, <1>3, Constants DEF QueueShape
  <2> QED BY <1>1, <1>3, <2>1 DEF QueueShape
<1>5. \A i \in 1 .. n : i \in DOMAIN queue /\ queue[i] \in Delta  BY <1>1, <1>3
<1>6. db' \in [last : [Archives -> Entry], rows : SUBSET RowType]
  <2>1. Batch(n).rows = UNION {queue[i].rows : i \in 1 .. n}  BY DEF Batch
  <2>2. Batch(n).rows \subseteq RowType  BY <1>5, <2>1 DEF Delta
  <2>3. Batch(n).last \in [Archives -> Entry]
    <3>1. ASSUME NEW a \in Archives PROVE Batch(n).last[a] \in Entry
      <4>1. CASE Updating(a, n) = {}
        <5>1. db.last[a] \in Entry  BY DEF DeltaShape
        <5> QED BY <1>1, <1>3, <4>1, <5>1, BatchLast
      <4>2. CASE Updating(a, n) # {}
        <5>1. PICK i \in Updating(a, n) : Batch(n).last[a] = queue[i].upd[a]
          BY <1>1, <1>3, <4>2, BatchLast
        <5>2. i \in 1 .. n /\ a \in DOMAIN queue[i].upd  BY DEF Updating
        <5>3. queue[i].upd \in Upd  BY <1>5, <5>2 DEF Delta
        <5> QED BY <5>1, <5>2, <5>3, UpdShape
      <4> QED BY <4>1, <4>2
    <3>2. Batch(n).last = [a \in Archives |-> Batch(n).last[a]]  BY DEF Batch
    <3> QED BY <3>1, <3>2
  <2> QED BY <1>2, <2>2, <2>3 DEF DeltaShape
<1>7. /\ ~lagged' => Len(queue') <= 1 /\ (job'.on => queue' = <<>>)
      /\ blind' \in BOOLEAN /\ (job'.on /\ ~blind' => rv'.known)
  <2>1. ~lagged => Len(queue) <= 1 /\ ~job.on  BY <1>3 DEF DeltaShape
  <2> QED BY <1>2, <1>3, <2>1 DEF DeltaShape
<1>8. JobShape(job') /\ dropped' \subseteq RowType  BY <1>1, <1>2 DEF DeltaShape
<1> QED BY <1>4, <1>6, <1>7, <1>8, ShapeParts DEF DeltaShape, JobShape, QueueShape, Delta, Job

\* The record that a group's request gets.
LEMMA AskedRecord ==
  ASSUME SlotsInv', NEW i \in 0 .. Records - 1
  PROVE  At(i, slots'[Base].ring[i]) \in Entry
<1>1. PICK f \in Nat \ {0} : RingOK(slots'[Base], f)  BY DEF SlotsInv, RingOK, RingUpTo, Behind
<1>2. slots'[Base].ring[i] \in 0 .. slots'[Base].last  BY <1>1, RingShape
<1>3. slots'[Base].last \in 1 .. MaxMinute  BY DEF SlotsInv
<1> QED BY <1>2, <1>3, Constants DEF At, Entry

\* The next record of the group a, if it has a request.
LEMMA NextIndex ==
  ASSUME ServerShape, NEW a \in Archives, NEW i \in PreCmds(a)
  PROVE  i = (rv.ind[a] + 1) % Records /\ i \in 0 .. Records - 1 /\ rv.ind[a] # rv.stable
<1>1. i = (rv.ind[a] + 1) % Records /\ rv.ind[a] # rv.stable  BY DEF PreCmds, Next1
<1>2. rv.ind[a] + 1 \in Nat  BY DEF ServerShape, Values
<1> QED BY <1>1, <1>2, Divides

\* What an exchange does to the job.
LEMMA Exchanged ==
  ASSUME ServerShape, DeltaShape, SlotsInv', NEW good \in BOOLEAN, Exchange(good)
  PROVE  LET a == Head(job.todo) IN
         /\ job.on /\ job.todo # <<>> /\ a \in Archives
         /\ \E i \in PreCmds(a) : LET e == At(i, slots'[Base].ring[i]) IN
                                  e \in Entry /\ (PassedOver \/ Recorded(a, e))
<1> DEFINE a == Head(job.todo)
<1>1. job.on /\ job.todo # <<>>  BY DEF Exchange
<1>2. a \in Archives  BY <1>1 DEF DeltaShape
<1>3. PICK i \in PreCmds(a) :
        LET ts == slots'[Base].ring[i] IN
        IF good THEN /\ rv' = [rv EXCEPT !.ind[a] = i]
                     /\ job' = [job EXCEPT !.todo = Tail(@),
                                  !.rows = IF good THEN @ \cup {<<a, ts>>} ELSE @,
                                  !.upd = Pushed(@, a, At(i, ts))]
                ELSE job' = [job EXCEPT !.todo = Tail(@)] /\ UNCHANGED rv
  BY DEF Exchange, Handled
<1> DEFINE e == At(i, slots'[Base].ring[i])
<1> HIDE DEF a
<1>4. i \in 0 .. Records - 1  BY <1>2, NextIndex
<1>5. e \in Entry  BY <1>4, AskedRecord
<1>6. e.ts = slots'[Base].ring[i] /\ e.ind = i  BY DEF At
<1>7. CASE good
  <2>1. /\ rv' = [rv EXCEPT !.ind[a] = i]
        /\ job' = [job EXCEPT !.todo = Tail(@), !.rows = @ \cup {<<a, slots'[Base].ring[i]>>},
                     !.upd = Pushed(@, a, e)]
    BY <1>3, <1>7
  <2> HIDE DEF e
  <2>2. Recorded(a, e)  BY <1>6, <2>1 DEF Recorded
  <2> QED BY <1>1, <1>2, <1>5, <2>2 DEF a, e
<1>8. CASE ~good
  <2>1. PassedOver  BY <1>3, <1>8 DEF PassedOver
  <2> QED BY <1>1, <1>2, <1>5, <2>1 DEF a
<1> QED BY <1>7, <1>8

LEMMA DeltaStep ==
  ASSUME DeltaShape, ServerShape, SlotsInv', [ArchiveNext]_archiveVars
  PROVE  DeltaShape'
<1> USE DEF JobShape, QueueShape, Job, Delta
<1>0. /\ JobShape(job) /\ QueueShape(queue) /\ dropped \subseteq RowType
      /\ db \in [last : [Archives -> Entry], rows : SUBSET RowType]
  BY ShapeParts
<1>1. CASE UNCHANGED <<job, queue, db, dropped, lagged, blind>> /\ (job.on => rv'.known = rv.known)
  BY <1>1 DEF DeltaShape
<1>2. CASE UNCHANGED <<job, queue, db, dropped, lagged, blind>> /\ ~job.on
  BY <1>1, <1>2
<1>3. CASE StartScript
  <2>0. UNCHANGED <<queue, db, dropped>>  BY <1>3 DEF StartScript
  <2> DEFINE v == Refreshed(rv, seen)
  <2> DEFINE in == LetIn(v)
  <2>1. CASE v.ready \/ in
    <3>1. /\ ~job.on /\ rv' = [v EXCEPT !.ind = Primed] /\ sure' = RefreshedSure
          /\ job' = [Idle EXCEPT !.on = TRUE, !.todo = Groups, !.sure = sure', !.other = in]
          /\ lagged' = (lagged \/ \E i \in DOMAIN queue : Handed(queue[i]))
          /\ blind' = (blind \/ ~v.known)
      BY <1>3, <2>1 DEF StartScript
    <3>2. job' = [on |-> TRUE, todo |-> Groups, rows |-> {}, upd |-> <<>>, sure |-> sure',
                  other |-> in]
      <4> HIDE DEF in
      <4> QED BY <3>1 DEF Idle
    <3>3. sure' \in 0 .. 2 /\ in \in BOOLEAN
      <4>1. v \in Values  BY RefreshedShape
      <4>2. in \in BOOLEAN
        <5> HIDE DEF v
        <5> QED BY <4>1 DEF LetIn, Values
      <4> QED BY <3>1, <4>2, RefreshedShape
    <3>4. JobShape(job')
      <4> HIDE DEF in
      <4>1. job' \in Job  BY <3>2, <3>3, NoUpd, Constants
      <4>2. job'.todo = Groups /\ job'.on /\ job'.rows = {} /\ DOMAIN job'.upd = {}
        BY <3>2, NoUpd
      <4> QED BY <4>1, <4>2, Constants DEF Matched
    <3>5. blind' \in BOOLEAN /\ (~blind' => rv'.known)
      <4>1. v \in Values  BY RefreshedShape
      <4> HIDE DEF v, in
      <4> QED BY <3>1, <4>1 DEF Values, DeltaShape
    <3>6. ~lagged' => queue' = <<>>
      <4>1. HAVE ~lagged'
      <4>2. \A i \in DOMAIN queue : FALSE  BY <1>0, <3>1, <4>1
      <4> QED BY <1>0, <2>0, <4>2
    <3>7. QueueShape(queue') /\ (queue' = <<>> => Len(queue') <= 1)  BY <1>0, <2>0
    <3> QED BY <1>0, <2>0, <3>4, <3>5, <3>6, <3>7, ShapeParts DEF DeltaShape
  <2>2. CASE ~(v.ready \/ in)
    <3>1. ~job.on /\ UNCHANGED <<job, lagged, blind>>  BY <1>3, <2>2 DEF StartScript
    <3> QED BY <1>2, <2>0, <3>1
  <2> QED BY <2>1, <2>2
<1>4. ASSUME job.on, job.todo # <<>>, NEW e \in Entry, UNCHANGED <<queue, db, dropped, lagged, blind>>,
             PassedOver \/ Recorded(Head(job.todo), e)
      PROVE  DeltaShape'
  <2> DEFINE a == Head(job.todo)
  <2>1. JobShape(job') /\ job'.on /\ job'.todo = Tail(job.todo)
    <3>1. PassedOver \/ Recorded(a, e)  BY <1>4
    <3>2. a = Head(job.todo)  OBVIOUS
    <3> HIDE DEF a
    <3> QED BY <1>0, <1>4, <3>1, <3>2, GroupDone
  <2>2. rv'.known = rv.known  BY <1>4 DEF PassedOver, Recorded, ServerShape, Values
  <2> QED BY <1>4, <2>1, <2>2 DEF DeltaShape
<1>5. CASE NoCommand
  <2>1. /\ job.on /\ job.todo # <<>> /\ UNCHANGED <<queue, db, dropped, lagged, blind>> /\ PassedOver
    BY <1>5 DEF NoCommand, PassedOver
  <2>2. At(0, 1) \in Entry  BY Constants DEF At, Entry
  <2> QED BY <1>4, <2>1, <2>2
<1>6. ASSUME NEW good \in BOOLEAN, Exchange(good) PROVE DeltaShape'
  <2>1. UNCHANGED <<queue, db, dropped, lagged, blind>>  BY <1>6 DEF Exchange
  <2> QED BY <1>4, <1>6, <2>1, Exchanged
<1>7. ASSUME NEW t \in BOOLEAN, Len(queue) < MaxQueue, ScriptFails(t) PROVE DeltaShape'
  <2>1. /\ job.on /\ HandOver({}, job.upd) /\ dropped' = dropped \cup job.rows
        /\ UNCHANGED <<db, lagged, blind>>
    BY <1>7 DEF ScriptFails
  <2>2. dropped' \subseteq RowType  BY <1>0, <2>1
  <2> QED BY <1>7, <2>1, <2>2, HandedOver
<1>8. CASE Len(queue) < MaxQueue /\ ScriptEnds
  <2>1. job.on /\ HandOver(job.rows, job.upd) /\ UNCHANGED <<db, lagged, blind, dropped>>
    BY <1>8 DEF ScriptEnds
  <2> QED BY <1>0, <1>8, <2>1, HandedOver
<1>9. CASE Restart
  <2>1. job' = Idle /\ queue' = <<>> /\ UNCHANGED <<db, dropped, lagged, blind>>
    BY <1>9 DEF Restart
  <2>2. QueueShape(queue') /\ Len(queue') <= 1  BY <2>1, Constants
  <2>3. JobShape(job') /\ ~job'.on  BY <2>1, IdleShape DEF Idle
  <2> QED BY <1>0, <2>1, <2>2, <2>3, ShapeParts DEF DeltaShape
<1> QED
  <2>1. CASE DeviceStep \/ Older \/ UNCHANGED archiveVars
    <3>1. UNCHANGED <<job, queue, db, dropped, lagged, blind, rv>>
      BY <2>1 DEF DeviceStep, Older, archiveVars, serverVars
    <3> QED BY <1>1, <3>1
  <2>2. CASE PollIndex \/ PollOthers \/ PollTimesOut \/ KpzStarts
    <3>1. UNCHANGED <<job, queue, db, dropped, lagged, blind>> /\ ~job.on
      BY <2>2 DEF PollIndex, PollOthers, PollTimesOut, KpzStarts
    <3> QED BY <1>2, <3>1
  <2> QED BY <1>3, <1>5, <1>6, <1>7, <1>8, <1>9, <2>1, <2>2, FlushShape DEF ArchiveNext, ScriptStep

-----------------------------------------------------------------------------
(* The records flow in order *)

LEMMA FollowsOn ==
  ASSUME NEW a, NEW d, NEW s, NEW n \in Nat, NEW m \in Nat, n <= m, NEW D, NEW E, D \subseteq E,
         NEW lg, NEW lh, lg => lh, Follows(a, d, s, n, D, lg)
  PROVE  Follows(a, d, s, m, E, lh)
BY DEF Follows, IsAt

LEMMA QueueOn ==
  ASSUME NEW a, NEW q, NEW s, NEW n \in Nat, NEW m \in Nat, n <= m, NEW D, NEW E, D \subseteq E,
         NEW lg, NEW lh, lg => lh, QueueFlow(a, q, s, n, D, lg)
  PROVE  QueueFlow(a, q, s, m, E, lh)
<1> SUFFICES ASSUME NEW i \in DOMAIN q
             PROVE  /\ Follows(a, q[i], s, m, E, lh)
                    /\ \A j \in DOMAIN q :
                         i < j /\ a \in DOMAIN q[i].upd /\ a \in DOMAIN q[j].upd
                           => q[i].upd[a].ts <= q[j].upd[a].ts
  BY DEF QueueFlow
<1>1. Follows(a, q[i], s, n, D, lg)  BY DEF QueueFlow
<1>2. Follows(a, q[i], s, m, E, lh)  BY <1>1, FollowsOn
<1> QED BY <1>2 DEF QueueFlow

LEMMA JobOn ==
  ASSUME NEW a, NEW j, NEW ind, NEW q, NEW s, NEW n \in Nat, NEW m \in Nat, n <= m, NEW D,
         NEW lg, JobFlow(a, j, ind, q, s, n, D, lg)
  PROVE  JobFlow(a, j, ind, q, s, m, D, lg)
<1>1. Follows(a, j, s, n, D, lg)  BY DEF JobFlow
<1>2. Follows(a, j, s, m, D, lg)  BY <1>1, FollowsOn
<1> QED BY <1>2 DEF JobFlow

LEMMA IdleFlow ==
  ASSUME NEW a, NEW ind, NEW q, NEW s, NEW n, NEW D, NEW lg
  PROVE  JobFlow(a, Idle, ind, q, s, n, D, lg)
<1>1. DOMAIN Idle.upd = {} /\ ToSet(Idle.todo) = {}  BY NoUpd DEF Idle, ToSet
<1> QED BY <1>1 DEF JobFlow, Follows

LEMMA FlowOn ==
  ASSUME Flow, Newest \in Nat, NEW n, n \in Nat, Newest <= n
  PROVE  FlowAt(n)
<1>1. IndexFlow(n)  BY DEF IndexFlow, Flow, FlowAt
<1>2. ASSUME NEW a \in Archives PROVE ArchiveFlow(a, n)
  <2>1. /\ StoreFlow(a, db.last[a], db.rows, Newest, dropped)
        /\ QueueFlow(a, queue, db.last[a].ts, Newest, dropped, lagged)
        /\ JobFlow(a, job, rv.ind[a], queue, db.last[a].ts, Newest, dropped, lagged)
    BY DEF Flow, FlowAt, ArchiveFlow
  <2>2. StoreFlow(a, db.last[a], db.rows, n, dropped)  BY <2>1 DEF StoreFlow, IsAt
  <2>3. QueueFlow(a, queue, db.last[a].ts, n, dropped, lagged)  BY <2>1, QueueOn
  <2>4. JobFlow(a, job, rv.ind[a], queue, db.last[a].ts, n, dropped, lagged)  BY <2>1, JobOn
  <2> QED BY <2>2, <2>3, <2>4 DEF ArchiveFlow
<1> QED BY <1>1, <1>2 DEF FlowAt

\* The ring grows and the index is read; nothing else moves.
LEMMA QuietFlow ==
  ASSUME FlowAt(Newest'), Newest' \in Nat \ {0}, DeltaShape,
         UNCHANGED <<job, queue, db, dropped, lagged>>, job.on => rv'.ind = rv.ind,
         rv'.known => \/ rv.known /\ rv'.stable = rv.stable
                      \/ ~job.on /\ rv'.stable = Cell(Newest')
  PROVE  Flow'
<1> DEFINE n == Newest'
<1>0. n \in Nat \ {0} /\ FlowAt(n)  OBVIOUS
<1> HIDE DEF n
<1>1. ASSUME NEW a \in Archives
      PROVE  /\ StoreFlow(a, db.last[a], db.rows, n, dropped)
             /\ QueueFlow(a, queue, db.last[a].ts, n, dropped, lagged)
             /\ JobFlow(a, job, rv'.ind[a], queue, db.last[a].ts, n, dropped, lagged)
  <2>1. /\ StoreFlow(a, db.last[a], db.rows, n, dropped)
        /\ QueueFlow(a, queue, db.last[a].ts, n, dropped, lagged)
        /\ JobFlow(a, job, rv.ind[a], queue, db.last[a].ts, n, dropped, lagged)
    BY <1>0 DEF FlowAt, ArchiveFlow
  <2>2. JobFlow(a, job, rv'.ind[a], queue, db.last[a].ts, n, dropped, lagged)
    <3>1. CASE job.on  BY <2>1, <3>1
    <3>2. CASE ~job.on
      <4>1. job = Idle  BY <3>2 DEF DeltaShape
      <4> QED BY <4>1, IdleFlow
    <3> QED BY <3>1, <3>2
  <2> QED BY <2>1, <2>2
<1>2. ASSUME rv'.known
      PROVE  \E st \in 1 .. n : rv'.stable = Cell(st)
               /\ \A a \in Archives : Within(a, st, job, queue, db.last[a].ts)
  <2>1. CASE rv.known /\ rv'.stable = rv.stable
    BY <1>0, <2>1 DEF FlowAt, IndexFlow
  <2>2. CASE ~job.on /\ rv'.stable = Cell(n)
    <3>1. DOMAIN job.upd = {}  BY <2>2, NoUpd DEF DeltaShape, Idle
    <3>2. ASSUME NEW a \in Archives PROVE Within(a, n, job, queue, db.last[a].ts)
      <4>1. db.last[a].ts <= n  BY <1>0, <1>1 DEF StoreFlow, IsAt
      <4>2. \A u \in Waits(a, queue) : u <= n
        <5>1. \A i \in DOMAIN queue : a \in DOMAIN queue[i].upd => queue[i].upd[a].ts \in 1 .. n
          BY <1>1 DEF QueueFlow, Follows, IsAt
        <5> QED BY <1>0, <5>1 DEF Waits
      <4> QED BY <3>1, <4>1, <4>2 DEF Within
    <3> QED BY <1>0, <2>2, <3>2
  <2> QED BY <1>2, <2>1, <2>2 DEF n
<1> QED BY <1>1, <1>2 DEF Flow, FlowAt, ArchiveFlow, IndexFlow, n

LEMMA FlowStart == ArchiveInit => Flow
<1> SUFFICES ASSUME ArchiveInit PROVE Flow  OBVIOUS
<1>1. /\ job = Idle /\ queue = <<>> /\ dropped = {} /\ rv = NoValues
      /\ db = [last |-> [a \in Archives |-> At(0, 1)], rows |-> {}]
      /\ slots = [m \in {Base} |-> NewSlot(1)]
  BY DEF ArchiveInit, DeviceInit
<1>2. Newest = 1  BY <1>1, NewSlotOK DEF Newest
<1>3. Cell(1) = 0  BY Constants, Wraps DEF Cell
<1>4. ~rv.known  BY <1>1 DEF NoValues
<1>5. ASSUME NEW a \in Archives PROVE ArchiveFlow(a, 1)
  <2>1. db.last[a] = At(0, 1) /\ db.rows = {}  BY <1>1
  <2>2. StoreFlow(a, At(0, 1), {}, 1, {})  BY <1>3 DEF StoreFlow, IsAt, At
  <2>3. QueueFlow(a, <<>>, At(0, 1).ts, 1, {}, lagged)  BY DEF QueueFlow
  <2> QED BY <1>1, <2>1, <2>2, <2>3, IdleFlow DEF ArchiveFlow
<1> QED BY <1>2, <1>4, <1>5 DEF Flow, FlowAt, IndexFlow

\* The process dies, or the KPZ starts again.
LEMMA RestartFlow ==
  ASSUME FlowAt(Newest'), Restart
  PROVE  Flow'
<1>1. /\ job' = Idle /\ queue' = <<>> /\ rv' = NoValues /\ UNCHANGED <<db, dropped, lagged>>
  BY DEF Restart
<1>2. ~rv'.known  BY <1>1 DEF NoValues
<1>3. ASSUME NEW a \in Archives
      PROVE  /\ StoreFlow(a, db.last[a], db.rows, Newest', dropped)
             /\ QueueFlow(a, <<>>, db.last[a].ts, Newest', dropped, lagged)
             /\ JobFlow(a, Idle, rv'.ind[a], <<>>, db.last[a].ts, Newest', dropped, lagged)
  BY IdleFlow DEF FlowAt, ArchiveFlow, QueueFlow
<1> QED BY <1>1, <1>2, <1>3 DEF Flow, FlowAt, ArchiveFlow, IndexFlow

\* A job starts with what the database has.
LEMMA StartFlow ==
  ASSUME FlowAt(Newest'), ServerShape, DeltaShape, StartScript, Newest' \in Nat \ {0}
  PROVE  Flow'
<1> DEFINE v == Refreshed(rv, seen)
           n == Newest'
<1>0. UNCHANGED <<queue, db, dropped>> /\ ~job.on /\ n \in Nat \ {0} /\ FlowAt(n)
  BY DEF StartScript
<1>1. v.known = rv.known /\ v.stable = rv.stable /\ v \in Values
  BY RefreshedShape DEF Refreshed, ServerShape, Values
<1> DEFINE in == v.ready \/ LetIn(v)
<1>2. CASE in
  <2>1. /\ rv' = [v EXCEPT !.ind = Primed]
        /\ job' = [Idle EXCEPT !.on = TRUE, !.todo = Groups, !.sure = sure', !.other = LetIn(v)]
        /\ lagged' = (lagged \/ \E i \in DOMAIN queue : Handed(queue[i]))
    BY <1>2 DEF StartScript
  <2> HIDE DEF v, n, in
  <2>2. job'.todo = Groups /\ DOMAIN job'.upd = {}  BY <2>1, NoUpd DEF Idle
  <2>3. rv'.stable = v.stable /\ rv'.known = v.known /\ rv'.ind = Primed
    BY <1>1, <2>1 DEF Values
  <2>4. lagged => lagged'  BY <2>1
  <2>5. ASSUME NEW a \in Archives
        PROVE  /\ StoreFlow(a, db.last[a], db.rows, n, dropped)
               /\ QueueFlow(a, queue, db.last[a].ts, n, dropped, lagged')
               /\ JobFlow(a, job', rv'.ind[a], queue, db.last[a].ts, n, dropped, lagged')
    <3> DEFINE s == db.last[a].ts
    <3>1. StoreFlow(a, db.last[a], db.rows, n, dropped) /\ QueueFlow(a, queue, s, n, dropped, lagged)
      BY <1>0 DEF FlowAt, ArchiveFlow
    <3>2. QueueFlow(a, queue, s, n, dropped, lagged')
      <4> HIDE DEF s
      <4> QED BY <1>0, <2>4, <3>1, QueueOn
    <3>3. s \in 1 .. n /\ db.last[a].ind = Cell(s)  BY <3>1 DEF StoreFlow, IsAt
    <3>4. rv'.ind[a] = Cell(s)  BY <2>3, <3>3 DEF Primed
    <3>5. \A u \in Waits(a, queue) : u <= s + 1
      <4>1. \A i \in DOMAIN queue : a \in DOMAIN queue[i].upd => queue[i].upd[a].ts \in {s, s + 1}
        BY <3>1 DEF QueueFlow, Follows
      <4> QED BY <3>3, <4>1 DEF Waits
    <3>6. \A ts \in 0 .. MaxMinute : <<a, ts>> \in dropped => ts <= s + 1
      BY <3>1 DEF StoreFlow
    <3>7. GoesOn(a, s, rv'.ind[a], queue, s, dropped, lagged')
      BY <3>3, <3>4, <3>5, <3>6 DEF GoesOn
    <3>8. JobFlow(a, job', rv'.ind[a], queue, s, n, dropped, lagged')
      BY <2>2, <3>7 DEF JobFlow, Follows
    <3> QED BY <3>1, <3>2, <3>8
  <2>6. ASSUME rv'.known
        PROVE  \E st \in 1 .. n : rv'.stable = Cell(st)
                 /\ \A a \in Archives : Within(a, st, job', queue, db.last[a].ts)
    <3>1. PICK st \in 1 .. n : rv.stable = Cell(st)
            /\ \A a \in Archives : Within(a, st, job, queue, db.last[a].ts)
      BY <1>0, <1>1, <2>3, <2>6 DEF FlowAt, IndexFlow
    <3>2. \A a \in Archives : Within(a, st, job', queue, db.last[a].ts)
      BY <2>2, <3>1 DEF Within
    <3> QED BY <1>1, <2>3, <2>6, <3>1, <3>2
  <2> QED BY <1>0, <2>5, <2>6 DEF Flow, FlowAt, ArchiveFlow, IndexFlow, n
<1>3. CASE ~in
  <2>1. rv' = v /\ UNCHANGED <<job, lagged>>  BY <1>3 DEF StartScript
  <2> HIDE DEF v, in
  <2> QED BY <1>0, <1>1, <2>1, QuietFlow
<1> QED BY <1>2, <1>3

\* A job ends and hands its delta over; one that failed drops its rows.
LEMMA HandFlow ==
  ASSUME FlowAt(Newest'), DeltaShape, job.on, NEW rows \in SUBSET job.rows,
         HandOver(rows, job.upd), dropped' \in {dropped, dropped \cup job.rows},
         job.rows \subseteq rows \cup dropped', UNCHANGED <<db, lagged>>, Newest' \in Nat \ {0},
         rv'.known => rv.known /\ rv'.stable = rv.stable
  PROVE  Flow'
<1> DEFINE n == Newest'
           d == [rows |-> rows, upd |-> job.upd]
<1>0. n \in Nat \ {0} /\ FlowAt(n)  OBVIOUS
<1> HIDE DEF n, d
<1>1. /\ job' = Idle /\ queue \in Seq(Delta) /\ d.rows = rows /\ d.upd = job.upd
      /\ job.rows \subseteq {<<a, job.upd[a].ts>> : a \in DOMAIN job.upd}
  BY DEF HandOver, DeltaShape, Delta, Matched, d
<1>2. \/ queue' = queue
      \/ /\ DOMAIN queue' = DOMAIN queue \cup {Len(queue) + 1}
         /\ \A i \in DOMAIN queue : queue'[i] = queue[i] /\ i < Len(queue) + 1
         /\ queue'[Len(queue) + 1] = d
         /\ DOMAIN queue = 1 .. Len(queue) /\ Len(queue) \in Nat
  <2>1. d \in Delta  BY DEF d, Delta, DeltaShape
  <2>2. queue' = queue \/ queue' = Append(queue, d)  BY DEF HandOver, d
  <2>3. CASE queue' = Append(queue, d)  BY <1>1, <2>1, <2>3
  <2> QED BY <2>2, <2>3
<1>3. ASSUME NEW a \in Archives
      PROVE  /\ StoreFlow(a, db.last[a], db.rows, n, dropped')
             /\ QueueFlow(a, queue', db.last[a].ts, n, dropped', lagged)
             /\ \A w \in Waits(a, queue') : \/ w \in Waits(a, queue)
                                            \/ a \in DOMAIN job.upd /\ w = job.upd[a].ts
  <2> DEFINE s == db.last[a].ts
             u == job.upd[a].ts
  <2>1. /\ StoreFlow(a, db.last[a], db.rows, n, dropped)
        /\ QueueFlow(a, queue, s, n, dropped, lagged)
        /\ Follows(a, job, s, n, dropped, lagged)
        /\ a \in DOMAIN job.upd => \A w \in Waits(a, queue) : w <= u
    BY <1>0 DEF FlowAt, ArchiveFlow, JobFlow
  <2>2. s \in 1 .. n  BY <2>1 DEF StoreFlow, IsAt
  <2>3. \A ts : <<a, ts>> \in job.rows => a \in DOMAIN job.upd /\ ts = u  BY <1>1
  <2> HIDE DEF s, u
  <2>4. a \in DOMAIN job.upd => u \in {s, s + 1}  BY <2>1 DEF Follows, u
  <2>5. StoreFlow(a, db.last[a], db.rows, n, dropped')
    <3>1. \A ts \in 0 .. MaxMinute : <<a, ts>> \in dropped' => ts <= s + 1
      <4> SUFFICES ASSUME NEW ts \in 0 .. MaxMinute, <<a, ts>> \in dropped' PROVE ts <= s + 1
        OBVIOUS
      <4>1. <<a, ts>> \in dropped \/ <<a, ts>> \in job.rows  OBVIOUS
      <4>2. CASE <<a, ts>> \in dropped  BY <2>1, <4>2 DEF StoreFlow, s
      <4>3. CASE <<a, ts>> \in job.rows
        <5>1. ts \in {s, s + 1}  BY <2>3, <2>4, <4>3
        <5> QED BY <1>0, <2>2, <5>1
      <4> QED BY <4>1, <4>2, <4>3
    <3>2. dropped \subseteq dropped'  OBVIOUS
    <3> QED BY <2>1, <3>1, <3>2 DEF StoreFlow, s
  <2>6. Follows(a, d, s, n, dropped', lagged)
    <3>1. <<a, u>> \in job.rows \cup dropped => <<a, u>> \in d.rows \cup dropped'  BY <1>1
    <3> QED BY <1>1, <2>1, <3>1 DEF Follows, u
  <2>7. QueueFlow(a, queue, s, n, dropped', lagged)
    <3>1. dropped \subseteq dropped'  OBVIOUS
    <3> QED BY <1>0, <2>1, <3>1, QueueOn
  <2>8. CASE queue' = queue  BY <2>5, <2>7, <2>8 DEF s, Waits
  <2>9. CASE ~(queue' = queue)
    <3> DEFINE l == Len(queue) + 1
    <3>1. /\ DOMAIN queue' = DOMAIN queue \cup {l} /\ queue'[l] = d
          /\ \A i \in DOMAIN queue : queue'[i] = queue[i] /\ i < l /\ ~(l < i) /\ i # l
      BY <1>2, <2>9
    <3>2. ~(l < l)  BY <1>1
    <3> HIDE DEF l
    <3>3. \A i \in DOMAIN queue : a \in DOMAIN queue[i].upd => queue[i].upd[a].ts \in Waits(a, queue)
      BY DEF Waits
    <3>4. \A i \in DOMAIN queue : a \in DOMAIN queue[i].upd /\ a \in DOMAIN d.upd
                                    => queue[i].upd[a].ts <= d.upd[a].ts
      BY <1>1, <2>1, <3>3 DEF u
    <3>5. QueueFlow(a, queue', s, n, dropped', lagged)
      <4> SUFFICES ASSUME NEW i \in DOMAIN queue'
                   PROVE  /\ Follows(a, queue'[i], s, n, dropped', lagged)
                          /\ \A j \in DOMAIN queue' :
                               i < j /\ a \in DOMAIN queue'[i].upd /\ a \in DOMAIN queue'[j].upd
                                 => queue'[i].upd[a].ts <= queue'[j].upd[a].ts
        BY DEF QueueFlow
      <4>1. CASE i = l  BY <2>6, <3>1, <3>2, <4>1
      <4>2. CASE i \in DOMAIN queue
        <5>1. Follows(a, queue'[i], s, n, dropped', lagged)  BY <2>7, <3>1, <4>2 DEF QueueFlow
        <5>2. ASSUME NEW j \in DOMAIN queue',
                     i < j, a \in DOMAIN queue'[i].upd, a \in DOMAIN queue'[j].upd
              PROVE  queue'[i].upd[a].ts <= queue'[j].upd[a].ts
          <6>1. CASE j = l  BY <3>1, <3>4, <4>2, <5>2, <6>1
          <6>2. CASE j \in DOMAIN queue  BY <2>7, <3>1, <4>2, <5>2, <6>2 DEF QueueFlow
          <6> QED BY <3>1, <6>1, <6>2
        <5> QED BY <5>1, <5>2
      <4> QED BY <3>1, <4>1, <4>2
    <3>6. \A w \in Waits(a, queue') : \/ w \in Waits(a, queue)
                                      \/ a \in DOMAIN job.upd /\ w = u
      <4> SUFFICES ASSUME NEW i \in DOMAIN queue', a \in DOMAIN queue'[i].upd
                   PROVE  \/ queue'[i].upd[a].ts \in Waits(a, queue)
                          \/ a \in DOMAIN job.upd /\ queue'[i].upd[a].ts = u
        BY DEF Waits
      <4>1. CASE i = l  BY <1>1, <3>1, <4>1 DEF u
      <4>2. CASE i \in DOMAIN queue  BY <3>1, <3>3, <4>2
      <4> QED BY <3>1, <4>1, <4>2
    <3> QED BY <2>5, <3>5, <3>6 DEF s, u
  <2> QED BY <2>8, <2>9
<1>4. ASSUME rv'.known
      PROVE  \E st \in 1 .. n : rv'.stable = Cell(st)
               /\ \A a \in Archives : Within(a, st, Idle, queue', db.last[a].ts)
  <2>1. PICK st \in 1 .. n : rv.stable = Cell(st)
          /\ \A a \in Archives : Within(a, st, job, queue, db.last[a].ts)
    BY <1>0, <1>4 DEF FlowAt, IndexFlow
  <2>2. DOMAIN Idle.upd = {}  BY NoUpd DEF Idle
  <2>3. \A a \in Archives : Within(a, st, Idle, queue', db.last[a].ts)
    <3> SUFFICES ASSUME NEW a \in Archives PROVE Within(a, st, Idle, queue', db.last[a].ts)
      OBVIOUS
    <3>1. Within(a, st, job, queue, db.last[a].ts)  BY <2>1
    <3>2. \A w \in Waits(a, queue') : w <= st  BY <1>3, <3>1 DEF Within
    <3> QED BY <2>2, <3>1, <3>2 DEF Within
  <2> QED BY <1>4, <2>1, <2>3
<1>5. \A a \in Archives : JobFlow(a, Idle, rv'.ind[a], queue', db.last[a].ts, n, dropped', lagged)
  BY IdleFlow
<1> QED BY <1>1, <1>3, <1>4, <1>5 DEF Flow, FlowAt, ArchiveFlow, IndexFlow, n

\* The writer stores the first n deltas.
LEMMA FlushFlow ==
  ASSUME FlowAt(Newest'), DeltaShape, NEW n \in DOMAIN queue, Flush(n), Newest' \in Nat \ {0}
  PROVE  Flow'
<1> DEFINE m == Newest'
<1>0. m \in Nat \ {0} /\ FlowAt(m)  OBVIOUS
<1> HIDE DEF m
<1>1. /\ queue \in Seq(Delta) /\ UNCHANGED <<rv, job, dropped, lagged>>
      /\ db' = [rows |-> db.rows \cup Batch(n).rows, last |-> Batch(n).last]
      /\ queue' = SubSeq(queue, n + 1, Len(queue))
      /\ \A i \in DOMAIN queue : queue[i].rows \subseteq
              {<<a, queue[i].upd[a].ts>> : a \in DOMAIN queue[i].upd}
  BY DEF Flush, DeltaShape, Delta, Matched
<1>2. /\ Len(queue) \in Nat /\ DOMAIN queue = 1 .. Len(queue) /\ n \in 1 .. Len(queue)
      /\ Len(queue') = Len(queue) - n /\ DOMAIN queue' = 1 .. Len(queue) - n
      /\ \A i \in DOMAIN queue' : queue'[i] = queue[n + i] /\ n + i \in DOMAIN queue
  BY <1>1, FlushedQueue
<1>3. ~lagged => DOMAIN queue' = {} /\ ~job.on  BY <1>2 DEF DeltaShape
<1>4. db'.last = Batch(n).last /\ db'.rows = db.rows \cup UNION {queue[i].rows : i \in 1 .. n}
  BY <1>1 DEF Batch
<1>5. ASSUME NEW a \in Archives
      PROVE  /\ StoreFlow(a, db'.last[a], db'.rows, m, dropped)
             /\ QueueFlow(a, queue', db'.last[a].ts, m, dropped, lagged)
             /\ JobFlow(a, job, rv.ind[a], queue', db'.last[a].ts, m, dropped, lagged)
             /\ db'.last[a].ts = db.last[a].ts \/ db'.last[a].ts \in Waits(a, queue)
             /\ Waits(a, queue') \subseteq Waits(a, queue)
  <2> DEFINE s == db.last[a].ts
             t == db'.last[a].ts
  <2>1. /\ StoreFlow(a, db.last[a], db.rows, m, dropped)
        /\ QueueFlow(a, queue, s, m, dropped, lagged)
        /\ JobFlow(a, job, rv.ind[a], queue, s, m, dropped, lagged)
    BY <1>0 DEF FlowAt, ArchiveFlow
  <2>2. s \in 1 .. m /\ IsAt(db.last[a], m)  BY <2>1 DEF StoreFlow, IsAt
  <2> HIDE DEF s, t
  <2>3. \A i \in DOMAIN queue : a \in DOMAIN queue[i].upd =>
          /\ queue[i].upd[a].ts \in {s, s + 1} \ {1} /\ IsAt(queue[i].upd[a], m)
          /\ <<a, queue[i].upd[a].ts>> \in queue[i].rows \cup dropped
          /\ queue[i].upd[a].ts \in Waits(a, queue)
    BY <2>1 DEF QueueFlow, Follows, Waits
  <2>4. \A i, j \in DOMAIN queue : i <= j /\ a \in DOMAIN queue[i].upd /\ a \in DOMAIN queue[j].upd
                                     => queue[i].upd[a].ts <= queue[j].upd[a].ts
    <3> SUFFICES ASSUME NEW i \in DOMAIN queue, NEW j \in DOMAIN queue, i <= j,
                        a \in DOMAIN queue[i].upd, a \in DOMAIN queue[j].upd
                 PROVE  queue[i].upd[a].ts <= queue[j].upd[a].ts
      OBVIOUS
    <3>1. CASE i < j  BY <2>1, <3>1 DEF QueueFlow
    <3>2. CASE i = j
      <4>1. queue[i].upd[a].ts \in {s, s + 1}  BY <2>3
      <4>2. queue[i].upd[a].ts <= queue[i].upd[a].ts  BY <1>0, <2>2, <4>1
      <4> QED BY <3>2, <4>2
    <3> QED BY <1>2, <3>1, <3>2
  <2>5. \A i \in 1 .. n : a \in DOMAIN queue[i].upd => i \in DOMAIN queue /\ queue[i].upd[a].ts <= t
    <3> SUFFICES ASSUME NEW i \in 1 .. n, a \in DOMAIN queue[i].upd
                 PROVE  i \in DOMAIN queue /\ queue[i].upd[a].ts <= t
      OBVIOUS
    <3>1. i \in Updating(a, n) /\ i \in DOMAIN queue  BY <1>2 DEF Updating
    <3>2. n \in Nat /\ n <= Len(queue)  BY <1>2
    <3>3. PICK k \in Updating(a, n) : /\ Batch(n).last[a] = queue[k].upd[a]
                                      /\ \A j \in Updating(a, n) : j <= k
      BY <1>1, <3>1, <3>2, BatchLast
    <3>4. k \in DOMAIN queue /\ a \in DOMAIN queue[k].upd  BY <1>2 DEF Updating
    <3>5. i <= k /\ t = queue[k].upd[a].ts  BY <1>4, <3>1, <3>3 DEF t
    <3> QED BY <2>4, <3>1, <3>4, <3>5
  <2>6. \/ db'.last[a] = db.last[a] /\ t = s
        \/ \E k \in 1 .. n : /\ k \in DOMAIN queue /\ a \in DOMAIN queue[k].upd
                             /\ db'.last[a] = queue[k].upd[a] /\ t = queue[k].upd[a].ts
    <3>1. n \in Nat /\ n <= Len(queue)  BY <1>2
    <3>2. CASE Updating(a, n) = {}  BY <1>1, <1>4, <3>1, <3>2, BatchLast DEF s, t
    <3>3. CASE Updating(a, n) # {}
      <4>1. PICK k \in Updating(a, n) : Batch(n).last[a] = queue[k].upd[a]
        BY <1>1, <3>1, <3>3, BatchLast
      <4>2. k \in 1 .. n /\ k \in DOMAIN queue /\ a \in DOMAIN queue[k].upd
        BY <1>2 DEF Updating
      <4> QED BY <1>4, <4>1, <4>2 DEF t
    <3> QED BY <3>2, <3>3
  <2>7. t \in {s, s + 1} /\ IsAt(db'.last[a], m) /\ (t = s \/ t \in Waits(a, queue))
    BY <2>2, <2>3, <2>6
  <2>8. StoreFlow(a, db'.last[a], db'.rows, m, dropped)
    <3>1. ASSUME NEW ts \in 2 .. t PROVE <<a, ts>> \in db'.rows \cup dropped
      <4>1. CASE ts <= s
        <5>1. ts \in 2 .. s  BY <2>2, <2>7, <4>1
        <5>2. <<a, ts>> \in db.rows \cup dropped  BY <2>1, <5>1 DEF StoreFlow, s
        <5> QED BY <1>4, <5>2
      <4>2. CASE ~(ts <= s)
        <5>1. ts = t /\ t # s  BY <2>2, <2>7, <4>2
        <5>2. PICK k \in 1 .. n : k \in DOMAIN queue /\ a \in DOMAIN queue[k].upd
                                  /\ t = queue[k].upd[a].ts
          BY <2>6, <5>1
        <5>3. <<a, t>> \in queue[k].rows \cup dropped  BY <2>3, <5>2
        <5> QED BY <1>4, <5>1, <5>3
      <4> QED BY <4>1, <4>2
    <3>2. ASSUME NEW ts \in 0 .. MaxMinute, <<a, ts>> \in db'.rows PROVE ts <= t
      <4>1. CASE <<a, ts>> \in db.rows
        <5>1. ts <= s  BY <2>1, <3>2, <4>1 DEF StoreFlow, s
        <5> QED BY <2>2, <2>7, <3>2, <5>1, Constants
      <4>2. CASE ~(<<a, ts>> \in db.rows)
        <5>1. PICK i \in 1 .. n : <<a, ts>> \in queue[i].rows  BY <1>4, <3>2, <4>2
        <5>2. i \in DOMAIN queue  BY <1>2
        <5>3. a \in DOMAIN queue[i].upd /\ ts = queue[i].upd[a].ts  BY <1>1, <5>1, <5>2
        <5> QED BY <2>5, <5>3
      <4> QED BY <4>1, <4>2
    <3>3. ASSUME NEW ts \in 0 .. MaxMinute, <<a, ts>> \in dropped PROVE ts <= t + 1
      <4>1. ts <= s + 1  BY <2>1, <3>3 DEF StoreFlow, s
      <4> QED BY <2>2, <2>7, <3>3, <4>1, Constants
    <3> QED BY <2>7, <3>1, <3>2, <3>3 DEF StoreFlow, t
  <2>9. Waits(a, queue') \subseteq Waits(a, queue)  BY <1>2, <2>3 DEF Waits
  <2>10. ASSUME NEW i \in DOMAIN queue
         PROVE  a \in DOMAIN queue[i].upd /\ n < i => t <= queue[i].upd[a].ts
    <3> SUFFICES ASSUME a \in DOMAIN queue[i].upd, n < i PROVE t <= queue[i].upd[a].ts  OBVIOUS
    <3>1. CASE t = s
      <4>1. queue[i].upd[a].ts \in {s, s + 1}  BY <2>3
      <4> QED BY <1>0, <2>2, <3>1, <4>1
    <3>2. CASE t # s
      <4>1. PICK k \in 1 .. n : k \in DOMAIN queue /\ a \in DOMAIN queue[k].upd
                                /\ t = queue[k].upd[a].ts
        BY <2>6, <3>2
      <4>2. k <= i  BY <1>2, <4>1
      <4> QED BY <2>4, <4>1, <4>2
    <3> QED BY <3>1, <3>2
  <2>11. QueueFlow(a, queue', t, m, dropped, lagged)
    <3> SUFFICES ASSUME NEW i \in DOMAIN queue'
                 PROVE  /\ Follows(a, queue'[i], t, m, dropped, lagged)
                        /\ \A j \in DOMAIN queue' :
                             i < j /\ a \in DOMAIN queue'[i].upd /\ a \in DOMAIN queue'[j].upd
                               => queue'[i].upd[a].ts <= queue'[j].upd[a].ts
      BY DEF QueueFlow
    <3>1. queue'[i] = queue[n + i] /\ n + i \in DOMAIN queue /\ n < n + i  BY <1>2
    <3>2. ASSUME a \in DOMAIN queue'[i].upd
          PROVE  /\ IsAt(queue'[i].upd[a], m) /\ queue'[i].upd[a].ts \in {t, t + 1} \ {1}
                 /\ <<a, queue'[i].upd[a].ts>> \in queue'[i].rows \cup dropped
      <4>1. /\ queue'[i].upd[a].ts \in {s, s + 1} \ {1} /\ IsAt(queue'[i].upd[a], m)
            /\ <<a, queue'[i].upd[a].ts>> \in queue'[i].rows \cup dropped
            /\ t <= queue'[i].upd[a].ts
        BY <2>3, <2>10, <3>1, <3>2
      <4>2. queue'[i].upd[a].ts \in {t, t + 1}  BY <2>2, <2>7, <4>1
      <4> QED BY <4>1, <4>2
    <3>3. Follows(a, queue'[i], t, m, dropped, lagged)  BY <1>3, <3>2 DEF Follows
    <3>4. ASSUME NEW j \in DOMAIN queue', i < j, a \in DOMAIN queue'[i].upd,
                 a \in DOMAIN queue'[j].upd
          PROVE  queue'[i].upd[a].ts <= queue'[j].upd[a].ts
      <4>1. queue'[j] = queue[n + j] /\ n + j \in DOMAIN queue /\ n + i <= n + j
        BY <1>2, <3>4
      <4> QED BY <2>4, <3>1, <3>4, <4>1
    <3> QED BY <3>3, <3>4
  <2>12. JobFlow(a, job, rv.ind[a], queue', t, m, dropped, lagged)
    <3>1. CASE ~job.on
      <4>1. job = Idle  BY <3>1 DEF DeltaShape
      <4> QED BY <4>1, IdleFlow
    <3>2. CASE job.on
      <4>1. lagged  BY <1>3, <3>2
      <4>2. ASSUME a \in DOMAIN job.upd
            PROVE  /\ IsAt(job.upd[a], m) /\ job.upd[a].ts \in {t, t + 1} \ {1}
                   /\ <<a, job.upd[a].ts>> \in job.rows \cup dropped
                   /\ \A w \in Waits(a, queue') : w <= job.upd[a].ts
        <5>1. /\ IsAt(job.upd[a], m) /\ job.upd[a].ts \in {s, s + 1} \ {1}
              /\ <<a, job.upd[a].ts>> \in job.rows \cup dropped
              /\ \A w \in Waits(a, queue) : w <= job.upd[a].ts
          BY <2>1, <4>2 DEF JobFlow, Follows
        <5>2. t <= job.upd[a].ts  BY <2>2, <2>7, <5>1
        <5> QED BY <2>2, <2>7, <2>9, <5>1, <5>2
      <4>3. ASSUME a \in ToSet(job.todo)
            PROVE  \E p \in {t, t - 1} : GoesOn(a, p, rv.ind[a], queue', t, dropped, lagged)
        <5>1. PICK p \in {s, s - 1} : GoesOn(a, p, rv.ind[a], queue, s, dropped, lagged)
          BY <2>1, <4>3 DEF JobFlow
        <5>2. t <= p + 1
          <6>1. t = s => t <= p + 1  BY <2>2
          <6> QED BY <2>7, <5>1, <6>1 DEF GoesOn
        <5>3. p \in {t, t - 1}  BY <2>2, <2>7, <5>2
        <5>4. GoesOn(a, p, rv.ind[a], queue', t, dropped, lagged)
          BY <2>9, <4>1, <5>1, <5>3 DEF GoesOn
        <5> QED BY <5>3, <5>4
      <4> QED BY <4>1, <4>2, <4>3 DEF JobFlow, Follows
    <3> QED BY <3>1, <3>2
  <2> QED BY <2>7, <2>8, <2>9, <2>11, <2>12 DEF s, t
<1>6. ASSUME rv.known
      PROVE  \E st \in 1 .. m : rv.stable = Cell(st)
               /\ \A a \in Archives : Within(a, st, job, queue', db'.last[a].ts)
  <2>1. PICK st \in 1 .. m : rv.stable = Cell(st)
          /\ \A a \in Archives : Within(a, st, job, queue, db.last[a].ts)
    BY <1>0, <1>6 DEF FlowAt, IndexFlow
  <2>2. ASSUME NEW a \in Archives PROVE Within(a, st, job, queue', db'.last[a].ts)
    <3>1. Within(a, st, job, queue, db.last[a].ts)  BY <2>1
    <3> QED BY <1>5, <3>1 DEF Within
  <2> QED BY <2>1, <2>2
<1> QED BY <1>1, <1>5, <1>6 DEF Flow, FlowAt, ArchiveFlow, IndexFlow, m

\* A group is passed over.
LEMMA PassedFlow ==
  ASSUME FlowAt(Newest'), DeltaShape, job.on, job.todo # <<>>, PassedOver,
         UNCHANGED <<queue, db, dropped, lagged>>
  PROVE  Flow'
<1> DEFINE m == Newest'
<1>0. FlowAt(m)  OBVIOUS
<1> HIDE DEF m
<1>1. /\ rv' = rv /\ job'.upd = job.upd /\ job'.rows = job.rows /\ job'.todo = Tail(job.todo)
      /\ ToSet(job'.todo) \subseteq ToSet(job.todo)
  <2>1. job.todo \in Seq(Archives) /\ IsInjective(job.todo)  BY DEF DeltaShape
  <2>2. rv' = rv /\ job' = [job EXCEPT !.todo = Tail(@)]  BY DEF PassedOver
  <2>3. job'.upd = job.upd /\ job'.rows = job.rows /\ job'.todo = Tail(job.todo)
    BY <2>2 DEF DeltaShape
  <2> QED BY <2>1, <2>2, <2>3, TailShape
<1>2. ASSUME NEW a \in Archives
      PROVE  JobFlow(a, job', rv.ind[a], queue, db.last[a].ts, m, dropped, lagged)
  <2>1. JobFlow(a, job, rv.ind[a], queue, db.last[a].ts, m, dropped, lagged)
    BY <1>0 DEF FlowAt, ArchiveFlow
  <2> QED BY <1>1, <2>1 DEF JobFlow, Follows
<1>3. ASSUME rv.known
      PROVE  \E st \in 1 .. m : rv.stable = Cell(st)
               /\ \A a \in Archives : Within(a, st, job', queue, db.last[a].ts)
  BY <1>0, <1>1, <1>3 DEF FlowAt, IndexFlow, Within
<1>4. \A a \in Archives : /\ StoreFlow(a, db.last[a], db.rows, m, dropped)
                          /\ QueueFlow(a, queue, db.last[a].ts, m, dropped, lagged)
  BY <1>0 DEF FlowAt, ArchiveFlow
<1> QED BY <1>1, <1>2, <1>3, <1>4 DEF Flow, FlowAt, ArchiveFlow, IndexFlow, m

\* The record after p is still in the ring when the job asks for it: otherwise
\* the whole ring is unread.
LEMMA NextRecord ==
  ASSUME SlotsInv', byHand' = 0, Asks, ~lapped', NEW a \in Archives, NEW p \in Nat \ {0},
         p + 1 <= Newest', \A ts \in Read(a) : ts <= p + 1
  PROVE  slots'[Base].ring[Cell(p + 1)] = p + 1
<1> DEFINE s == slots'[Base]
           t == p + 1
<1>1. RingOK(s, 1) /\ Newest' = s.last  BY DEF SlotsInv, Newest, RingOK, RingUpTo, Behind
<1>2. t \in Nat /\ t > 1 /\ t <= s.last  BY <1>1
<1>3. ~Laps  BY DEF Asks
<1>4. s.last \in Nat  BY <1>1, RingShape
<1> HIDE DEF s, t
<1>5. s.last < t + Records
  <2> SUFFICES ASSUME s.last >= t + Records PROVE FALSE
    BY <1>2, <1>4, Constants
  <2>1. \A c \in 0 .. Records - 1 : s.ring[c] > t  BY <1>1, <1>2, RingLapped
  <2>2. \A c \in 0 .. Records - 1 : s.ring[c] \in 0 .. s.last  BY <1>1, RingShape
  <2>3. \A c \in 0 .. Records - 1 : s.ring[c] \notin Read(a) \cup {0, 1}
    <3> SUFFICES ASSUME NEW c \in 0 .. Records - 1, s.ring[c] \in Read(a) \cup {0, 1} PROVE FALSE
      OBVIOUS
    <3>1. s.ring[c] > t /\ s.ring[c] \in Nat  BY <1>4, <2>1, <2>2
    <3>2. s.ring[c] \notin {0, 1}  BY <1>2, <3>1
    <3>3. s.ring[c] <= t  BY <3>2 DEF t
    <3> QED BY <1>2, <3>1, <3>3
  <2> QED BY <1>3, <2>3 DEF Laps, s
<1>6. t \in 1 .. s.last  BY <1>2, <1>4
<1> QED BY <1>1, <1>5, <1>6, RingHolds DEF s, t

\* The next record of a group is read.
LEMMA RecordedFlow ==
  ASSUME FlowAt(Newest'), ServerShape, DeltaShape, SlotsInv', byHand' = 0, Asks, ~lapped',
         Newest' \in Nat \ {0}, job.on, ~blind, job.todo # <<>>, NEW a, a = Head(job.todo),
         NEW i \in PreCmds(a), NEW e, e = At(i, slots'[Base].ring[i]), e \in Entry,
         Recorded(a, e), UNCHANGED <<queue, db, dropped, lagged>>
  PROVE  Flow'
<1> DEFINE n == Newest'
           s == db.last[a].ts
<1>0. n \in Nat \ {0} /\ FlowAt(n)  OBVIOUS
<1>1. /\ job.todo \in Seq(Archives) /\ IsInjective(job.todo) /\ job.upd \in Upd
      /\ ToSet(job.todo) \cap DOMAIN job.upd = {} /\ rv.known
      /\ job.rows \subseteq {<<b, job.upd[b].ts>> : b \in DOMAIN job.upd}
      /\ \A k \in DOMAIN queue :
           queue[k].rows \subseteq {<<b, queue[k].upd[b].ts>> : b \in DOMAIN queue[k].upd}
  BY DEF DeltaShape, Matched
<1>2. /\ a \in Archives /\ a \in ToSet(job.todo) /\ a \notin ToSet(Tail(job.todo))
      /\ ToSet(Tail(job.todo)) \subseteq ToSet(job.todo) /\ a \notin DOMAIN job.upd
  BY <1>1, TailShape
<1> HIDE DEF n, s
<1>3. PICK st \in 1 .. n :
        rv.stable = Cell(st) /\ \A b \in Archives : Within(b, st, job, queue, db.last[b].ts)
  BY <1>0, <1>1 DEF FlowAt, IndexFlow
<1>4. StoreFlow(a, db.last[a], db.rows, n, dropped) /\ s \in 1 .. n
  BY <1>0, <1>2 DEF FlowAt, ArchiveFlow, StoreFlow, IsAt, s
<1>5. PICK p \in {s, s - 1} : GoesOn(a, p, rv.ind[a], queue, s, dropped, lagged)
  BY <1>0, <1>2 DEF FlowAt, ArchiveFlow, JobFlow, s
<1>6. p \in Nat \ {0} /\ s <= p + 1 /\ p <= s /\ rv.ind[a] = Cell(p)
  BY <1>0, <1>4, <1>5 DEF GoesOn
<1>7. p + 1 <= st /\ p + 1 <= n
  <2>1. rv.ind[a] # rv.stable  BY <1>2, NextIndex
  <2>2. p # st  BY <1>3, <1>6, <2>1
  <2>3. s <= st  BY <1>2, <1>3 DEF Within, s
  <2> QED BY <1>0, <1>3, <1>4, <1>6, <2>2, <2>3
<1>8. i = Cell(p + 1)
  <2>1. i = (rv.ind[a] + 1) % Records  BY <1>2, NextIndex
  <2> QED BY <1>6, <2>1, NextOfCell
<1>9. \A ts \in Read(a) : ts <= p + 1
  <2> SUFFICES ASSUME NEW ts \in Read(a) PROVE ts <= p + 1  OBVIOUS
  <2>1. /\ ts \in 0 .. MaxMinute
        /\ \/ <<a, ts>> \in db.rows \/ <<a, ts>> \in job.rows \/ <<a, ts>> \in dropped
           \/ \E k \in DOMAIN queue : <<a, ts>> \in queue[k].rows
    BY DEF Read
  <2>2. CASE <<a, ts>> \in db.rows
    <3>1. ts <= s  BY <1>4, <2>1, <2>2 DEF StoreFlow, s
    <3> QED BY <1>4, <1>6, <2>1, <3>1, Constants
  <2>3. CASE <<a, ts>> \in job.rows  BY <1>1, <1>2, <2>3
  <2>4. CASE <<a, ts>> \in dropped  BY <1>5, <2>1, <2>4 DEF GoesOn
  <2>5. ASSUME NEW k \in DOMAIN queue, <<a, ts>> \in queue[k].rows PROVE ts <= p + 1
    <3>1. a \in DOMAIN queue[k].upd /\ ts = queue[k].upd[a].ts  BY <1>1, <2>5
    <3>2. ts \in Waits(a, queue)  BY <3>1 DEF Waits
    <3> QED BY <1>5, <3>2 DEF GoesOn
  <2> QED BY <2>1, <2>2, <2>3, <2>4, <2>5
<1>10. e.ind = Cell(p + 1) /\ e.ts = p + 1
  <2>1. slots'[Base].ring[Cell(p + 1)] = p + 1
    <3>1. p + 1 <= Newest'  BY <1>7 DEF n
    <3> QED BY <1>2, <1>6, <1>9, <3>1, NextRecord
  <2> QED BY <1>8, <2>1 DEF At
<1>11. /\ job'.todo = Tail(job.todo) /\ job'.rows = job.rows \cup {<<a, p + 1>>}
       /\ DOMAIN job'.upd = DOMAIN job.upd \cup {a}
       /\ \A b \in DOMAIN job.upd \cup {a} : job'.upd[b] = IF b = a THEN e ELSE job.upd[b]
  <2>1. job' = [job EXCEPT !.todo = Tail(@), !.rows = @ \cup {<<a, e.ts>>}, !.upd = Pushed(@, a, e)]
    BY DEF Recorded
  <2>2. /\ job'.todo = Tail(job.todo) /\ job'.rows = job.rows \cup {<<a, e.ts>>}
        /\ job'.upd = Pushed(job.upd, a, e)
    BY <2>1 DEF DeltaShape
  <2>3. \A b \in DOMAIN job.upd \cup {a} : job'.upd[b] = IF b = a THEN e ELSE job.upd[b]
    BY <2>2 DEF Pushed
  <2> QED BY <1>10, <2>2, <2>3 DEF Pushed
<1>12. rv'.known = rv.known /\ rv'.stable = rv.stable /\ \A b \in Archives \ {a} : rv'.ind[b] = rv.ind[b]
  BY DEF Recorded, ServerShape, Values
<1>13. ASSUME NEW b \in Archives
       PROVE  JobFlow(b, job', rv'.ind[b], queue, db.last[b].ts, n, dropped, lagged)
  <2>1. CASE b = a
    <3>1. b \in DOMAIN job'.upd /\ job'.upd[b] = e /\ <<b, e.ts>> \in job'.rows
      BY <1>10, <1>11, <2>1
    <3>2. e.ts \in {s, s + 1} \ {1} /\ IsAt(e, n) /\ (~lagged => e.ts = s + 1)
      <4>1. e.ts \in {s, s + 1} /\ e.ts # 1 /\ e.ts \in 1 .. n
        BY <1>0, <1>4, <1>5, <1>6, <1>7, <1>10
      <4>2. ~lagged => p = s  BY <1>5 DEF GoesOn
      <4> QED BY <1>10, <4>1, <4>2 DEF IsAt
    <3>3. \A u \in Waits(b, queue) : u <= e.ts  BY <1>5, <1>10, <2>1 DEF GoesOn
    <3>4. b \notin ToSet(job'.todo)  BY <1>2, <1>11, <2>1
    <3>5. Follows(b, job', db.last[b].ts, n, dropped, lagged)
      BY <2>1, <3>1, <3>2 DEF Follows, s
    <3> QED BY <3>1, <3>3, <3>4, <3>5 DEF JobFlow
  <2>2. CASE b # a
    <3>1. JobFlow(b, job, rv.ind[b], queue, db.last[b].ts, n, dropped, lagged)
      BY <1>0 DEF FlowAt, ArchiveFlow
    <3>2. /\ (b \in DOMAIN job'.upd <=> b \in DOMAIN job.upd)
          /\ b \in DOMAIN job.upd => job'.upd[b] = job.upd[b]
          /\ job.rows \subseteq job'.rows
          /\ b \in ToSet(job'.todo) => b \in ToSet(job.todo)
          /\ rv'.ind[b] = rv.ind[b]
      BY <1>2, <1>11, <1>12, <2>2
    <3>3. Follows(b, job', db.last[b].ts, n, dropped, lagged)
      BY <3>1, <3>2 DEF JobFlow, Follows
    <3> QED BY <3>1, <3>2, <3>3 DEF JobFlow
  <2> QED BY <2>1, <2>2
<1>14. \A b \in Archives : Within(b, st, job', queue, db.last[b].ts)
  <2> SUFFICES ASSUME NEW b \in Archives PROVE Within(b, st, job', queue, db.last[b].ts)
    OBVIOUS
  <2>1. Within(b, st, job, queue, db.last[b].ts)  BY <1>3
  <2>2. b \in DOMAIN job'.upd => job'.upd[b].ts <= st
    <3>1. CASE b = a  BY <1>7, <1>10, <1>11, <3>1
    <3>2. CASE b # a  BY <1>11, <2>1, <3>2 DEF Within
    <3> QED BY <3>1, <3>2
  <2> QED BY <2>1, <2>2 DEF Within
<1>15. \A b \in Archives : /\ StoreFlow(b, db.last[b], db.rows, n, dropped)
                           /\ QueueFlow(b, queue, db.last[b].ts, n, dropped, lagged)
  BY <1>0 DEF FlowAt, ArchiveFlow
<1> QED BY <1>3, <1>12, <1>13, <1>14, <1>15 DEF Flow, FlowAt, ArchiveFlow, IndexFlow, n

\* Silence only takes the confirmation away.
LEMMA TimeoutFlow ==
  ASSUME NEW v \in Values, NEW s, NEW n, TimedOut(v, s, n)
  PROVE  rv'.ind = v.ind /\ rv'.stable = v.stable /\ rv'.known = v.known
BY DEF TimedOut, ClosedBySilence, Values

LEMMA StillUndisturbed ==
  ASSUME SlotsKept, [ArchiveNext]_archiveVars, Undisturbed'
  PROVE  byHand' = 0 /\ ~lapped' /\ ~blind' /\ Undisturbed /\ Newest <= Newest'
<1>1. byHand' = 0 /\ ~lapped' /\ ~blind' /\ byHand = 0 /\ Newest <= Newest'  BY DEF Undisturbed, SlotsKept
<1>2. blind => blind'
  <2>1. CASE StartScript  BY <2>1 DEF StartScript
  <2> QED BY <2>1 DEF ArchiveNext, DeviceStep, ScriptStep, Older, PollIndex, PollOthers, PollTimesOut,
       NoCommand, Exchange, ScriptEnds, ScriptFails, Flush, Restart, KpzStarts, archiveVars, serverVars
<1>3. lapped => lapped'
  BY DEF ArchiveNext, DeviceStep, ScriptStep, Older, PollIndex, PollOthers, PollTimesOut,
     StartScript, NoCommand, Exchange, ScriptEnds, ScriptFails, Flush, Restart, KpzStarts, archiveVars,
     Asks, NotAsked
<1> QED BY <1>1, <1>2, <1>3 DEF Undisturbed

LEMMA FlowStep ==
  ASSUME SlotsInv, ServerShape, DeltaShape, Undisturbed => Flow, [ArchiveNext]_archiveVars
  PROVE  Undisturbed' => Flow'
<1> SUFFICES ASSUME Undisturbed' PROVE Flow'  OBVIOUS
<1>1. SlotsKept /\ SlotsInv'  BY SlotsStep DEF SlotsKept
<1>2. byHand' = 0 /\ ~lapped' /\ ~blind /\ Flow /\ Newest <= Newest'
  BY <1>1, StillUndisturbed DEF Undisturbed
<1>3. RingOK(slots'[Base], 1)  BY <1>1, <1>2 DEF SlotsInv, RingOK, RingUpTo, Behind
<1>4. Newest' = slots'[Base].last /\ Newest' \in Nat \ {0} /\ Newest \in Nat
  BY <1>1, <1>3, RingShape, Constants DEF Newest, SlotsInv
<1>5. FlowAt(Newest')
  <2> DEFINE n == Newest'
  <2>1. n \in Nat /\ Newest <= n  BY <1>2, <1>4
  <2> HIDE DEF n
  <2>2. FlowAt(n)  BY <1>2, <1>4, <2>1, FlowOn
  <2> QED BY <2>2 DEF n
<1>6. ASSUME UNCHANGED <<job, queue, db, dropped, lagged>>,
             rv' = rv \/ ~job.on,
             rv'.known => rv.known /\ rv'.stable = rv.stable
      PROVE  Flow'
  BY <1>4, <1>5, <1>6, QuietFlow
<1>0. Refreshed(rv, seen) \in Values /\ Refreshed(rv, seen).known = rv.known
      /\ Refreshed(rv, seen).stable = rv.stable /\ rv \in Values
  BY RefreshedShape DEF Refreshed, ServerShape, Values
<1>7. CASE DeviceStep \/ Older \/ UNCHANGED archiveVars
  <2>1. UNCHANGED <<job, queue, db, dropped, lagged, rv>>
    BY <1>7 DEF DeviceStep, Older, archiveVars, serverVars
  <2> QED BY <1>6, <2>1
<1>8. CASE PollIndex
  <2> DEFINE v == Refreshed(rv, seen)
  <2>1. UNCHANGED <<job, queue, db, dropped, lagged>> /\ ~job.on
        /\ rv' = Quality(v, RefreshedSeen(seen), slots'[Base].shown)
    BY <1>8 DEF PollIndex
  <2>2. slots'[Base].shown = Cell(Newest')  BY <1>3, <1>4 DEF RingOK, RingUpTo, Cell
  <2>3. rv'.known => \/ rv.known /\ rv'.stable = rv.stable
                     \/ rv'.stable = Cell(Newest')
    <3> HIDE DEF v
    <3>1. rv' = v \/ rv' = [v EXCEPT !.ready = FALSE]
          \/ rv' = [v EXCEPT !.ready = TRUE, !.stable = slots'[Base].shown, !.known = TRUE]
      BY <2>1 DEF Quality
    <3> QED BY <1>0, <2>2, <3>1 DEF Values, v
  <2> QED BY <1>4, <1>5, <2>1, <2>3, QuietFlow
<1>9. CASE PollTimesOut
  <2> DEFINE v == Refreshed(rv, seen)
  <2>1. UNCHANGED <<job, queue, db, dropped, lagged>> /\ ~job.on
        /\ TimedOut(v, RefreshedSeen(seen), RefreshedSure)
    BY <1>9 DEF PollTimesOut
  <2>2. rv'.known = v.known /\ rv'.stable = v.stable  BY <1>0, <2>1, TimeoutFlow
  <2> HIDE DEF v
  <2> QED BY <1>0, <1>6, <2>1, <2>2 DEF v
<1>18. CASE PollOthers
  <2> DEFINE v == Refreshed(rv, seen)
  <2>1. UNCHANGED <<job, queue, db, dropped, lagged>> /\ ~job.on
        /\ \E one \in BOOLEAN : rv' = [v EXCEPT !.others = one]
    BY <1>18 DEF PollOthers
  <2>2. rv'.known = v.known /\ rv'.stable = v.stable
    <3> HIDE DEF v
    <3> QED BY <1>0, <2>1 DEF Values, v
  <2> QED BY <1>0, <1>6, <2>1, <2>2
<1>10. CASE StartScript  BY <1>4, <1>5, <1>10, StartFlow
<1>11. CASE NoCommand
  <2>1. /\ job.on /\ job.todo # <<>> /\ UNCHANGED <<queue, db, dropped, lagged>> /\ PassedOver
    BY <1>11 DEF NoCommand, PassedOver
  <2> QED BY <1>5, <2>1, PassedFlow
<1>12. ASSUME NEW good \in BOOLEAN, Exchange(good) PROVE Flow'
  <2> DEFINE a == Head(job.todo)
  <2>1. UNCHANGED <<queue, db, dropped, lagged>> /\ Asks  BY <1>12 DEF Exchange
  <2>2. /\ job.on /\ job.todo # <<>>
        /\ \E i \in PreCmds(a) : LET e == At(i, slots'[Base].ring[i]) IN
                                 e \in Entry /\ (PassedOver \/ Recorded(a, e))
    BY <1>1, <1>12, Exchanged
  <2>3. PICK i \in PreCmds(a) : LET e == At(i, slots'[Base].ring[i]) IN
                                e \in Entry /\ (PassedOver \/ Recorded(a, e))
    BY <2>2
  <2> DEFINE e == At(i, slots'[Base].ring[i])
  <2>4. a = Head(job.todo) /\ e = At(i, slots'[Base].ring[i]) /\ e \in Entry
        /\ (PassedOver \/ Recorded(a, e))
    BY <2>3
  <2> HIDE DEF a, e
  <2>5. CASE PassedOver  BY <1>5, <2>1, <2>2, <2>5, PassedFlow
  <2>6. CASE Recorded(a, e)
    BY <1>1, <1>2, <1>4, <1>5, <2>1, <2>2, <2>3, <2>4, <2>6, RecordedFlow
  <2> QED BY <2>4, <2>5, <2>6
<1>13. ASSUME NEW t \in BOOLEAN, ScriptFails(t) PROVE Flow'
  <2>1. /\ job.on /\ HandOver({}, job.upd) /\ dropped' = dropped \cup job.rows
        /\ UNCHANGED <<db, lagged>> /\ (TimedOut(rv, seen, sure) \/ rv' = rv)
    BY <1>13 DEF ScriptFails
  <2>2. rv'.known => rv.known /\ rv'.stable = rv.stable  BY <1>0, <2>1, TimeoutFlow
  <2>3. {} \in SUBSET job.rows /\ job.rows \subseteq {} \cup dropped'
        /\ dropped' \in {dropped, dropped \cup job.rows}
    BY <2>1
  <2> QED BY <1>4, <1>5, <2>1, <2>2, <2>3, HandFlow
<1>14. CASE ScriptEnds
  <2>1. /\ job.on /\ HandOver(job.rows, job.upd) /\ UNCHANGED <<db, lagged, dropped, rv>>
    BY <1>14 DEF ScriptEnds
  <2>2. job.rows \in SUBSET job.rows /\ job.rows \subseteq job.rows \cup dropped'
        /\ dropped' \in {dropped, dropped \cup job.rows}
    BY <2>1
  <2> QED BY <1>4, <1>5, <2>1, <2>2, HandFlow
<1>15. ASSUME NEW n \in DOMAIN queue, Flush(n) PROVE Flow'  BY <1>4, <1>5, <1>15, FlushFlow
<1>16. CASE Restart  BY <1>5, <1>16, RestartFlow
<1>17. CASE KpzStarts
  <2>1. UNCHANGED <<job, queue, db, dropped, lagged>> /\ ~job.on /\ rv' = NoValues
    BY <1>17 DEF KpzStarts
  <2>2. ~rv'.known  BY <2>1 DEF NoValues
  <2> QED BY <1>6, <2>1, <2>2
<1> QED
  BY <1>7, <1>8, <1>9, <1>10, <1>11, <1>12, <1>13, <1>14, <1>15, <1>16, <1>17, <1>18
     DEF ArchiveNext, ScriptStep

-----------------------------------------------------------------------------
(* The inductive invariant.  That no record up to the stored index is      *)
(* missing holds because every update on its way is about the next record, *)
(* or about the stored one again, and because a job reads a cell of the    *)
(* ring only while it still holds the record that the index stands for.    *)

ArchiveIInv == SlotsInv /\ ServerShape /\ DeltaShape /\ (Undisturbed => Flow)

LEMMA RecordsOnce == ArchiveIInv => EachRecordOnce
<1> SUFFICES ASSUME ArchiveIInv PROVE EachRecordOnce  OBVIOUS
<1>1. SlotsInv /\ ServerShape /\ DeltaShape /\ (Undisturbed => Flow)  BY DEF ArchiveIInv
<1>2. SlotType /\ RingContiguous  BY <1>1, SlotsMean
<1>3. ArchiveTypeOK
  <2>1. \A a \in Archives : db.last[a].ind \in 0 .. Records - 1  BY <1>1 DEF DeltaShape, Entry
  <2>2. /\ rv.ind \in [Archives -> 0 .. Records - 1] /\ rv.stable \in 0 .. Records - 1
        /\ rv.known \in BOOLEAN /\ rv.ready \in BOOLEAN /\ rv.others \in BOOLEAN
    BY <1>1 DEF ServerShape, Values
  <2>3. seen.samples \in 0 .. 2 /\ seen.age \in 0 .. NoAge /\ streak \in 0 .. NoResponses /\ sure \in 0 .. 2
    BY <1>1 DEF ServerShape
  <2>4. /\ job.rows \subseteq RowType /\ db.rows \subseteq RowType /\ dropped \subseteq RowType
        /\ Len(queue) <= MaxQueue
    BY <1>1 DEF DeltaShape
  <2> QED BY <1>2, <2>1, <2>2, <2>3, <2>4 DEF ArchiveTypeOK
<1>4. ASSUME Undisturbed, NEW a \in Archives, NEW ts \in 2 .. db.last[a].ts
      PROVE  <<a, ts>> \in db.rows \cup dropped
  BY <1>1, <1>4 DEF Flow, FlowAt, ArchiveFlow, StoreFlow
<1>5. ASSUME Undisturbed, ~lagged, NEW i \in DOMAIN queue
      PROVE  /\ queue[i].rows \cap db.rows = {}
             /\ \A j \in DOMAIN queue \ {i} : queue[i].rows \cap queue[j].rows = {}
  <2>1. /\ queue \in Seq(Delta) /\ Len(queue) <= 1 /\ queue[i].rows \subseteq RowType
        /\ queue[i].rows \subseteq {<<a, queue[i].upd[a].ts>> : a \in DOMAIN queue[i].upd}
    <3>1. queue \in Seq(Delta) /\ Len(queue) <= 1 /\ Matched(queue[i])
      BY <1>1, <1>5 DEF DeltaShape, Delta
    <3>2. queue[i] \in Delta  BY <3>1
    <3> QED BY <3>1, <3>2 DEF Delta, Matched
  <2>2. \A j \in DOMAIN queue \ {i} : FALSE  BY <2>1
  <2>3. ASSUME NEW r \in queue[i].rows, r \in db.rows PROVE FALSE
    <3>1. PICK a \in Archives, ts \in 0 .. MaxMinute : r = <<a, ts>>  BY <2>1 DEF RowType
    <3>2. a \in DOMAIN queue[i].upd /\ ts = queue[i].upd[a].ts  BY <2>1, <3>1
    <3>3. /\ StoreFlow(a, db.last[a], db.rows, Newest, dropped)
          /\ QueueFlow(a, queue, db.last[a].ts, Newest, dropped, lagged)
      BY <1>1, <1>5 DEF Flow, FlowAt, ArchiveFlow
    <3>4. ts = db.last[a].ts + 1  BY <1>5, <3>2, <3>3 DEF QueueFlow, Follows
    <3>5. ts <= db.last[a].ts  BY <2>3, <3>1, <3>3 DEF StoreFlow
    <3>6. db.last[a].ts \in Nat  BY <1>1 DEF DeltaShape, Entry
    <3> QED BY <3>4, <3>5, <3>6
  <2> QED BY <2>2, <2>3
<1> QED BY <1>2, <1>3, <1>4, <1>5 DEF EachRecordOnce

\* In every state the archive index in the database has no record behind it
\* that is missing from arx_val, but for those of a job that failed at a later
\* group, and as long as the writer keeps up no record is handed over twice:
\* with restarts, timeouts, refused frames and stops at any point
\* (smode.rs 577-720, rv_state.rs 677-782).
THEOREM RecordsAreReadOnce == ArchiveSpec => []EachRecordOnce
<1>1. ArchiveInit => ArchiveIInv
  BY SlotsStart, ServerStart, DeltaStart, FlowStart DEF ArchiveIInv
<1>2. ArchiveIInv /\ [ArchiveNext]_archiveVars => ArchiveIInv'
  <2> SUFFICES ASSUME ArchiveIInv, [ArchiveNext]_archiveVars PROVE ArchiveIInv'  OBVIOUS
  <2>1. SlotsInv /\ ServerShape /\ DeltaShape /\ (Undisturbed => Flow)  BY DEF ArchiveIInv
  <2>2. SlotsInv'  BY <2>1, SlotsStep DEF SlotsKept
  <2>3. ServerShape'  BY <2>1, <2>2, ServerStep
  <2>4. DeltaShape'  BY <2>1, <2>2, DeltaStep
  <2>5. Undisturbed' => Flow'  BY <2>1, FlowStep
  <2> QED BY <2>2, <2>3, <2>4, <2>5 DEF ArchiveIInv
<1>3. ArchiveIInv => EachRecordOnce  BY RecordsOnce
<1> QED BY <1>1, <1>2, <1>3, PTL DEF ArchiveSpec

-----------------------------------------------------------------------------
(* The quality of the archive index: what counts as confirmed is what has  *)
(* been read as often as the samples say.                                  *)

\* v, s and n are values, samples and confirmations that agree.
Confirms(v, s, n) ==
  /\ n \in 0 .. 2 /\ s.age \in Nat /\ DOMAIN s = {"samples", "age"} /\ s.samples \in 0 .. n
  /\ DOMAIN v = {"ind", "stable", "known", "ready", "others"}
  /\ v.ready => n = 2

JobConfirmed(j) ==
  /\ DOMAIN j = {"on", "todo", "rows", "upd", "sure", "other"}
  /\ j.on /\ ~j.other => j.sure = 2

QualityOK == IndexIs400 => Confirms(rv, seen, sure) /\ JobConfirmed(job)

LEMMA QualityStarts == ArchiveInit => QualityOK
<1> SUFFICES ASSUME ArchiveInit PROVE QualityOK  OBVIOUS
<1>1. NoAge \in Nat  BY ArchiveAssumption DEF NoAge
<1> QED BY <1>1 DEF ArchiveInit, QualityOK, Confirms, JobConfirmed, NoValues, Unseen, Idle

\* A job that ends, or was never begun, needs no confirmation.
LEMMA IdleIsConfirmed == JobConfirmed(Idle)
BY DEF Idle, JobConfirmed

\* What an old index loses, it loses in all three.
LEMMA RefreshConfirms ==
  ASSUME Confirms(rv, seen, sure)
  PROVE  Confirms(Refreshed(rv, seen), RefreshedSeen(seen), RefreshedSure)
<1>1. CASE Stale(seen)
  <2>1. /\ Refreshed(rv, seen) = [rv EXCEPT !.ready = FALSE]
        /\ RefreshedSeen(seen) = [seen EXCEPT !.samples = 0] /\ RefreshedSure = 0
    BY <1>1 DEF Refreshed, RefreshedSeen, RefreshedSure
  <2> QED BY <2>1 DEF Confirms
<1>2. CASE ~Stale(seen)
  <2>1. Refreshed(rv, seen) = rv /\ RefreshedSeen(seen) = seen /\ RefreshedSure = sure
    BY <1>2 DEF Refreshed, RefreshedSeen, RefreshedSure
  <2> QED BY <2>1
<1> QED BY <1>1, <1>2

LEMMA TimeoutConfirms ==
  ASSUME IndexIs400, NEW v, NEW s, NEW n, Confirms(v, s, n), TimedOut(v, s, n)
  PROVE  Confirms(rv', seen', sure')
<1>1. CASE Silent(More(streak))
  <2>1. rv' = [v EXCEPT !.ready = FALSE] /\ seen' = [s EXCEPT !.samples = 0] /\ sure' = 0
    BY <1>1 DEF TimedOut, ClosedBySilence
  <2> QED BY <2>1 DEF Confirms
<1>2. CASE ~Silent(More(streak))
  <2>1. rv' = v /\ seen' = s /\ sure' = n  BY <1>2 DEF TimedOut
  <2> QED BY <2>1
<1> QED BY <1>1, <1>2

LEMMA PollConfirms ==
  ASSUME Confirms(rv, seen, sure), PollIndex
  PROVE  Confirms(rv', seen', sure')
<1> DEFINE v == Refreshed(rv, seen)
           s == RefreshedSeen(seen)
           k == RefreshedSure
<1>1. Confirms(v, s, k)  BY RefreshConfirms
<1>2. /\ rv' = Quality(v, s, slots'[Base].shown) /\ seen' = Sampled(s)
      /\ sure' = IF seen.age = 0 \/ k = 2 THEN sure ELSE k + 1
  BY DEF PollIndex
<1>3. s.age = seen.age  BY DEF RefreshedSeen, Confirms
<1>4. k = 2 => sure = 2  BY DEF RefreshedSure
<1>5. seen.age = 0 => k = sure
  <2>1. StaleAge + 1 # 0  BY ArchiveAssumption
  <2> QED BY <2>1 DEF RefreshedSure, Stale
<1> HIDE DEF v, s, k
<1>6. CASE s.age = 0
  <2>1. rv' = v /\ seen' = s /\ sure' = k  BY <1>2, <1>3, <1>5, <1>6 DEF Quality, Sampled
  <2> QED BY <1>1, <2>1
<1>7. CASE s.age # 0
  <2> DEFINE n == IF s.samples < 2 THEN s.samples + 1 ELSE 2
  <2>1. seen' = [samples |-> n, age |-> 0] /\ Sampled(s).samples = n
    BY <1>2, <1>7 DEF Sampled
  <2>2. sure' = IF k = 2 THEN 2 ELSE k + 1  BY <1>2, <1>3, <1>4, <1>7
  <2>3. n \in 0 .. sure' /\ sure' \in 0 .. 2 /\ (n >= 2 => sure' = 2)  BY <1>1, <2>2 DEF Confirms
  <2> HIDE DEF n
  <2>4. rv' = IF n >= 2 THEN [v EXCEPT !.ready = TRUE, !.stable = slots'[Base].shown, !.known = TRUE]
              ELSE [v EXCEPT !.ready = FALSE]
    BY <1>2, <1>7, <2>1 DEF Quality
  <2>5. DOMAIN rv' = DOMAIN v /\ (rv'.ready => n >= 2)  BY <1>1, <2>4 DEF Confirms
  <2> QED BY <1>1, <2>1, <2>3, <2>5 DEF Confirms
<1> QED BY <1>6, <1>7

LEMMA StartConfirms ==
  ASSUME Confirms(rv, seen, sure), JobConfirmed(job), StartScript
  PROVE  Confirms(rv', seen', sure') /\ JobConfirmed(job')
<1> DEFINE v == Refreshed(rv, seen)
           in == LetIn(v)
<1>1. Confirms(v, seen', sure')
  <2>1. seen' = RefreshedSeen(seen) /\ sure' = RefreshedSure  BY DEF StartScript
  <2> QED BY <2>1, RefreshConfirms
<1>2. IF v.ready \/ in
        THEN /\ rv' = [v EXCEPT !.ind = Primed]
             /\ job' = [Idle EXCEPT !.on = TRUE, !.todo = Groups, !.sure = sure', !.other = in]
        ELSE rv' = v /\ job' = job
  BY DEF StartScript
<1> HIDE DEF v, in
<1>3. DOMAIN rv' = DOMAIN v /\ rv'.ready = v.ready  BY <1>1, <1>2 DEF Confirms
<1>4. JobConfirmed(job')
  <2>1. CASE v.ready \/ in
    <3>1. job' = [Idle EXCEPT !.on = TRUE, !.todo = Groups, !.sure = sure', !.other = in]
      BY <1>2, <2>1
    <3>2. job'.sure = sure' /\ job'.other = in /\ DOMAIN job' = DOMAIN Idle  BY <3>1 DEF Idle
    <3> QED BY <1>1, <2>1, <3>2, IdleIsConfirmed DEF Confirms, JobConfirmed
  <2>2. CASE ~(v.ready \/ in)  BY <1>2, <2>2
  <2> QED BY <2>1, <2>2
<1> QED BY <1>1, <1>3, <1>4 DEF Confirms

\* In the course of a job nothing is said of the quality.
LEMMA RunningConfirms ==
  ASSUME Confirms(rv, seen, sure), JobConfirmed(job), seen' = seen, sure' = sure,
         DOMAIN rv' = DOMAIN rv, rv'.ready = rv.ready,
         \/ job' \in {job, Idle}
         \/ /\ DOMAIN job' = DOMAIN job /\ job'.on = job.on
            /\ job'.sure = job.sure /\ job'.other = job.other
  PROVE  Confirms(rv', seen', sure') /\ JobConfirmed(job')
BY IdleIsConfirmed DEF Confirms, JobConfirmed

LEMMA QualityStep == QualityOK /\ [ArchiveNext]_archiveVars => QualityOK'
<1> SUFFICES ASSUME IndexIs400, Confirms(rv, seen, sure), JobConfirmed(job), [ArchiveNext]_archiveVars
             PROVE  Confirms(rv', seen', sure') /\ JobConfirmed(job')
  BY DEF QualityOK
<1> DEFINE Goal == Confirms(rv', seen', sure') /\ JobConfirmed(job')
<1>1. CASE DeviceStep \/ UNCHANGED archiveVars
  BY <1>1, RunningConfirms DEF DeviceStep, archiveVars, serverVars
<1>2. CASE Older
  <2>1. /\ seen' = [seen EXCEPT !.age = seen.age + 1] /\ rv' = rv /\ sure' = sure /\ job' = job
    BY <1>2 DEF Older
  <2> QED BY <2>1 DEF Confirms
<1>3. CASE PollIndex
  <2>1. job' = job  BY <1>3 DEF PollIndex
  <2> QED BY <1>3, <2>1, PollConfirms
<1>4. CASE PollOthers
  <2> DEFINE v == Refreshed(rv, seen)
  <2>1. /\ \E one \in BOOLEAN : rv' = [v EXCEPT !.others = one]
        /\ seen' = RefreshedSeen(seen) /\ sure' = RefreshedSure /\ job' = job
    BY <1>4 DEF PollOthers
  <2>2. Confirms(v, seen', sure')  BY <2>1, RefreshConfirms
  <2> HIDE DEF v
  <2>3. DOMAIN rv' = DOMAIN v /\ rv'.ready = v.ready  BY <2>1, <2>2 DEF Confirms
  <2> QED BY <2>1, <2>2, <2>3 DEF Confirms
<1>5. CASE PollTimesOut
  <2>1. job' = job /\ TimedOut(Refreshed(rv, seen), RefreshedSeen(seen), RefreshedSure)
    BY <1>5 DEF PollTimesOut
  <2> QED BY <2>1, RefreshConfirms, TimeoutConfirms
<1>6. CASE StartScript  BY <1>6, StartConfirms
<1>7. CASE NoCommand
  <2> DEFINE j == [job EXCEPT !.todo = Tail(job.todo)]
  <2>1. seen' = seen /\ sure' = sure /\ rv' = rv /\ job' = j  BY <1>7 DEF NoCommand
  <2>2. DOMAIN j = DOMAIN job /\ j.on = job.on /\ j.sure = job.sure /\ j.other = job.other
    BY DEF JobConfirmed
  <2> HIDE DEF j
  <2> QED BY <2>1, <2>2, RunningConfirms
<1>8. ASSUME NEW good \in BOOLEAN, Exchange(good) PROVE Goal
  <2> DEFINE a == Head(job.todo)
             ts(i) == slots'[Base].ring[i]
  <2>1. PICK i \in PreCmds(a) :
          IF Handled(good)
            THEN /\ rv' = [rv EXCEPT !.ind[a] = i]
                 /\ job' = [job EXCEPT !.todo = Tail(job.todo),
                              !.rows = IF good THEN job.rows \cup {<<a, ts(i)>>} ELSE job.rows,
                              !.upd = Pushed(job.upd, a, At(i, ts(i)))]
            ELSE job' = [job EXCEPT !.todo = Tail(job.todo)] /\ UNCHANGED rv
    BY <1>8 DEF Exchange
  <2>2. seen' = seen /\ sure' = sure  BY <1>8 DEF Exchange
  <2>3. DOMAIN rv' = DOMAIN rv /\ rv'.ready = rv.ready  BY <2>1 DEF Confirms
  <2>4. DOMAIN job' = DOMAIN job /\ job'.on = job.on /\ job'.sure = job.sure /\ job'.other = job.other
    <3> HIDE DEF ts, a
    <3> QED BY <2>1 DEF JobConfirmed
  <2> QED BY <2>2, <2>3, <2>4, RunningConfirms
<1>9. ASSUME NEW t \in BOOLEAN, ScriptFails(t) PROVE Goal
  <2>1. job' = Idle  BY <1>9 DEF ScriptFails, HandOver
  <2>2. CASE t
    <3>1. TimedOut(rv, seen, sure)  BY <1>9, <2>2 DEF ScriptFails
    <3> QED BY <2>1, <3>1, TimeoutConfirms, IdleIsConfirmed
  <2>3. CASE ~t
    <3>1. rv' = rv /\ seen' = seen /\ sure' = sure  BY <1>9, <2>3 DEF ScriptFails
    <3> QED BY <2>1, <3>1, RunningConfirms
  <2> QED BY <2>2, <2>3
<1>10. CASE ScriptEnds
  <2>1. job' = Idle /\ rv' = rv /\ seen' = seen /\ sure' = sure
    BY <1>10 DEF ScriptEnds, HandOver
  <2> QED BY <2>1, RunningConfirms
<1>11. ASSUME NEW n \in DOMAIN queue, Flush(n) PROVE Goal
  BY <1>11, RunningConfirms DEF Flush
<1>12. CASE Restart \/ KpzStarts
  <2>1. rv' = NoValues /\ seen' = Unseen /\ sure' = 0 /\ job' \in {job, Idle}
    BY <1>12 DEF Restart, KpzStarts
  <2>2. NoAge \in Nat  BY ArchiveAssumption DEF NoAge
  <2> QED BY <2>1, <2>2, IdleIsConfirmed DEF Confirms, NoValues, Unseen
<1> QED
  BY <1>1, <1>2, <1>3, <1>4, <1>5, <1>6, <1>7, <1>8, <1>9, <1>10, <1>11, <1>12
  DEF ArchiveNext, ScriptStep

\* Unless another FC4 register let the job in, or there is none to ask, a script
\* runs only on an index that two readings confirmed and that is not too old,
\* where silence closes the index register: at the address 400 (rv_state.rs
\* 788-850, worker.rs 671-682, smode.rs 456-493).
THEOREM ScriptsReadConfirmed == ArchiveSpec => []ConfirmedOnly
<1>1. QualityOK => ConfirmedOnly  BY DEF QualityOK, JobConfirmed, ConfirmedOnly
<1> QED BY <1>1, QualityStarts, QualityStep, PTL DEF ArchiveSpec

-----------------------------------------------------------------------------
(* The cache of scripts: what it holds has been told.                      *)

BoundPairs == {kg \in CacheKpz \X CacheGroups : kg[2] \in GroupsOf[kg[1]]}

\* Rows: a script for every group, bindings for every group of a KPZ.
Rows == [script : [CacheGroups -> [ver : Versions, text : Texts]], bound : [BoundPairs -> Bindings]]

\* A template is a text its group has had under its version, since it was last
\* parsed anew; a plan is such a text with the bindings it is signed with.
TemplatesSound(c, h) ==
  DOMAIN c.templates \subseteq Keys /\ \A key \in DOMAIN c.templates : c.templates[key] \in h[key]
PlansSound(c, h) ==
  \A key \in DOMAIN c.plans : /\ key[2] \in Keys
                              /\ c.plans[key].text \in h[key[2]] /\ c.plans[key].bound = key[3]
Sound(c, h) ==
  /\ c = [templates |-> c.templates, plans |-> c.plans]
  /\ TemplatesSound(c, h) /\ PlansSound(c, h)

CacheIInv ==
  /\ table \in Rows /\ shared \in Rows /\ started \subseteq CacheKpz
  /\ told \in [Keys -> SUBSET Texts] /\ \A key \in Keys : IsFiniteSet(told[key])
  /\ \A g \in CacheGroups : shared.script[g].text \in told[Key(shared, g)]
  /\ Sound(cache, told)
  /\ DOMAIN copies \subseteq CacheKpz /\ \A k \in DOMAIN copies : Sound(copies[k], told)

\* The row of a group, its key and its bindings.
LEMMA RowParts ==
  ASSUME NEW rs \in Rows, NEW g \in CacheGroups
  PROVE  /\ Key(rs, g) \in Keys /\ Key(rs, g)[1] = g
         /\ rs.script[g].text \in Texts
         /\ \A k \in CacheKpz : g \in GroupsOf[k] => <<k, g>> \in BoundPairs
  BY DEF Rows, Key, Keys, BoundPairs

\* A part of a sound cache is sound.
LEMMA PartSound ==
  ASSUME NEW c, NEW h, Sound(c, h), NEW S, NEW T
  PROVE  Sound([templates |-> Fewer(c.templates, S), plans |-> Fewer(c.plans, T)], h)
  BY DEF Sound, TemplatesSound, PlansSound, Fewer

\* And two sound caches make one.
LEMMA MergeSound ==
  ASSUME NEW c, NEW w, NEW h, Sound(c, h), Sound(w, h)
  PROVE  Sound(merge_from(c, w), h)
<1> DEFINE m == merge_from(c, w)
<1>1. m = [templates |-> Over(w.templates, c.templates), plans |-> Over(w.plans, c.plans)]
  BY DEF merge_from
<1>2. TemplatesSound(m, h)
  BY <1>1 DEF Sound, TemplatesSound, Over
<1>3. PlansSound(m, h)
  BY <1>1 DEF Sound, PlansSound, Over
<1> QED BY <1>1, <1>2, <1>3 DEF Sound

\* What a worker is given for a group was told under the version of the row.
LEMMA ServedSound ==
  ASSUME NEW c, NEW h, Sound(c, h), NEW rs \in Rows, NEW k \in CacheKpz, NEW g \in CacheGroups,
         rs.script[g].text \in h[Key(rs, g)]
  PROVE  /\ get_template(c, rs, g) \in h[Key(rs, g)]
         /\ get_plan(c, rs, k, g).text \in h[Key(rs, g)]
         /\ get_plan(c, rs, k, g).bound = rs.bound[<<k, g>>]
<1>1. get_template(c, rs, g) \in h[Key(rs, g)]
  BY DEF get_template, Sound, TemplatesSound
<1>2. PlanKey(rs, k, g)[2] = Key(rs, g) /\ PlanKey(rs, k, g)[3] = rs.bound[<<k, g>>]
  BY DEF PlanKey
<1>3. CASE get_template(c, rs, g) # "off" /\ PlanKey(rs, k, g) \in DOMAIN c.plans
  <2>1. get_plan(c, rs, k, g) = c.plans[PlanKey(rs, k, g)]
    BY <1>3 DEF get_plan
  <2> QED BY <1>1, <1>2, <1>3, <2>1 DEF Sound, PlansSound
<1>4. CASE ~(get_template(c, rs, g) # "off" /\ PlanKey(rs, k, g) \in DOMAIN c.plans)
  <2>1. get_plan(c, rs, k, g) = [text |-> get_template(c, rs, g), bound |-> rs.bound[<<k, g>>]]
    BY <1>4 DEF get_plan
  <2> QED BY <1>1, <2>1
<1> QED BY <1>3, <1>4

\* To prepare a group keeps the copy of the worker sound.
LEMMA PreparedSound ==
  ASSUME NEW c, NEW h, Sound(c, h), NEW rs \in Rows, NEW k \in CacheKpz, NEW g \in CacheGroups,
         rs.script[g].text \in h[Key(rs, g)]
  PROVE  Sound(Prepared(c, rs, k, g), h)
<1> DEFINE t == get_template(c, rs, g)
           p == get_plan(c, rs, k, g)
           key == PlanKey(rs, k, g)
           m == Prepared(c, rs, k, g)
<1>1. t \in h[Key(rs, g)] /\ p.text \in h[Key(rs, g)] /\ p.bound = rs.bound[<<k, g>>]
  BY ServedSound
<1>2. key[2] = Key(rs, g) /\ key[3] = rs.bound[<<k, g>>] /\ Key(rs, g) \in Keys
  BY RowParts DEF PlanKey
<1>3. m = [templates |-> Put(c.templates, Key(rs, g), t),
           plans |-> IF t = "off" THEN c.plans ELSE Put(c.plans, key, p)]
  BY DEF Prepared
<1> HIDE DEF t, p, key, m
<1>4. TemplatesSound(m, h)
  BY <1>1, <1>2, <1>3 DEF Sound, TemplatesSound, Put
<1>5. PlansSound(c, h) /\ PlansSound([templates |-> m.templates, plans |-> Put(c.plans, key, p)], h)
  BY <1>1, <1>2 DEF Sound, PlansSound, Put
<1>6. PlansSound(m, h)
  BY <1>3, <1>5 DEF PlansSound
<1>7. m = [templates |-> m.templates, plans |-> m.plans]
  BY <1>3
<1> QED BY <1>4, <1>6, <1>7 DEF Sound, m

\* A start of KPZ leaves the entries of other groups, which are then still told.
LEMMA StartSound ==
  ASSUME NEW c, NEW h, NEW h2, NEW ks, Sound(c, h),
         \A key \in Keys : key[1] \notin UNION {GroupsOf[k] : k \in ks} => h[key] \subseteq h2[key]
  PROVE  Sound(on_kpz_start(c, ks), h2)
<1> DEFINE gs == UNION {GroupsOf[k] : k \in ks}
           d == invalidate_kpz(c, ks)
           m == invalidate_groups(d, gs)
<1>1. d = [templates |-> c.templates, plans |-> Fewer(c.plans, {key \in DOMAIN c.plans : key[1] \notin ks})]
  BY DEF invalidate_kpz, Sound
<1>2. Sound(d, h)
  BY <1>1 DEF Sound, TemplatesSound, PlansSound, Fewer
<1>3. m = [templates |-> Fewer(d.templates, {key \in DOMAIN d.templates : key[1] \notin gs}),
           plans |-> Fewer(d.plans, {key \in DOMAIN d.plans : key[2][1] \notin gs})]
  BY DEF invalidate_groups
<1>4. on_kpz_start(c, ks) = m
  BY DEF on_kpz_start
<1>5. \A key \in Keys : key[1] \notin gs => h[key] \subseteq h2[key]
  OBVIOUS
<1> HIDE DEF gs, d, m
<1>6. TemplatesSound(m, h2)
  BY <1>2, <1>3, <1>5 DEF Sound, TemplatesSound, Fewer
<1>7. PlansSound(m, h2)
  BY <1>2, <1>3, <1>5 DEF Sound, PlansSound, Fewer
<1>8. Sound(m, h2)
  BY <1>3, <1>6, <1>7 DEF Sound
<1> QED BY <1>4, <1>8

LEMMA CacheStart == CacheInit => CacheIInv
<1> SUFFICES ASSUME CacheInit PROVE CacheIInv  OBVIOUS
<1> USE CacheConstants DEF CacheInit
<1>1. table \in Rows /\ shared \in Rows
  <2>1. (CHOOSE t \in Texts : t # "off") \in Texts
    BY CacheConstants
  <2> DEFINE t0 == CHOOSE t \in Texts : t # "off"
  <2> HIDE DEF t0
  <2>2. table.script \in [CacheGroups -> [ver : Versions, text : Texts]] /\ table.bound \in [BoundPairs -> Bindings]
        /\ table = [script |-> table.script, bound |-> table.bound]
    BY <2>1 DEF BoundPairs, t0
  <2> QED BY <2>2 DEF Rows
<1>2. \A key \in Keys : key[1] \in CacheGroups
  BY DEF Keys
<1>3. told \in [Keys -> SUBSET Texts] /\ \A key \in Keys : IsFiniteSet(told[key])
  <2>1. ASSUME NEW key \in Keys PROVE told[key] \in SUBSET Texts /\ IsFiniteSet(told[key])
    <3>1. table.script[key[1]].text \in Texts
      BY <1>1, <1>2 DEF Rows
    <3>2. told[key] = {table.script[key[1]].text} \/ told[key] = {}
      OBVIOUS
    <3> QED BY <3>1, <3>2, FS_Singleton, FS_EmptySet
  <2> QED BY <2>1
<1>4. \A g \in CacheGroups : shared.script[g].text \in told[Key(shared, g)]
  <2> TAKE g \in CacheGroups
  <2>1. Key(shared, g) = <<g, 1>> /\ <<g, 1>> \in Keys
    BY DEF Key, Keys
  <2>2. told[<<g, 1>>] = {table.script[g].text}
    BY <2>1
  <2> QED BY <2>1, <2>2
<1>5. Sound(cache, told)
  BY DEF NewCache, Sound, TemplatesSound, PlansSound
<1>6. DOMAIN copies = {}
  OBVIOUS
<1> QED BY <1>1, <1>3, <1>4, <1>5, <1>6 DEF CacheIInv

LEMMA CacheStep == CacheIInv /\ [CacheNext]_cacheVars => CacheIInv'
<1> SUFFICES ASSUME CacheIInv, [CacheNext]_cacheVars PROVE CacheIInv'  OBVIOUS
<1>1. CASE EditRows
  <2>1. table' \in Rows
    <3>1. CASE \E g \in CacheGroups, v \in Versions, t \in Texts :
                 table' = [table EXCEPT !.script[g] = [ver |-> v, text |-> t]]
      <4>1. PICK g \in CacheGroups, v \in Versions, t \in Texts :
                   table' = [table EXCEPT !.script[g] = [ver |-> v, text |-> t]]
        BY <3>1, Zenon
      <4>2. /\ table = [script |-> table.script, bound |-> table.bound] /\ table.bound \in [BoundPairs -> Bindings]
            /\ table.script \in [CacheGroups -> [ver : Versions, text : Texts]]
        BY DEF CacheIInv, Rows
      <4>3. [table.script EXCEPT ![g] = [ver |-> v, text |-> t]] \in [CacheGroups -> [ver : Versions, text : Texts]]
        BY <4>2
      <4>4. table' = [script |-> [table.script EXCEPT ![g] = [ver |-> v, text |-> t]], bound |-> table.bound]
        BY <4>1, <4>2
      <4> QED BY <4>2, <4>3, <4>4 DEF Rows
    <3>2. CASE \E kg \in DOMAIN table.bound, b \in Bindings : table' = [table EXCEPT !.bound[kg] = b]
      BY <3>2 DEF CacheIInv, Rows
    <3>3. CASE UNCHANGED table
      BY <3>3 DEF CacheIInv
    <3>4. \/ \E g \in CacheGroups, v \in Versions, t \in Texts :
                table' = [table EXCEPT !.script[g] = [ver |-> v, text |-> t]]
          \/ \E kg \in DOMAIN table.bound, b \in Bindings : table' = [table EXCEPT !.bound[kg] = b]
          \/ UNCHANGED table
      BY <1>1, Zenon DEF EditRows
    <3> QED BY <3>1, <3>2, <3>3, <3>4
  <2>2. started' \subseteq CacheKpz
    BY <1>1 DEF EditRows, CacheIInv
  <2>3. UNCHANGED <<shared, cache, copies, told>>
    BY <1>1 DEF EditRows
  <2> QED BY <2>1, <2>2, <2>3 DEF CacheIInv, Key
<1>2. CASE SyncRows
  <2> DEFINE reset == UNION {GroupsOf[k] : k \in started}
             now(key) == IF key = Key(table, key[1]) THEN {table.script[key[1]].text} ELSE {}
  <2>0. /\ started' = {} /\ UNCHANGED <<table, copies>> /\ copies = <<>>
        /\ cache' = on_kpz_start(cache, started)
        /\ told' = [key \in Keys |-> (IF key[1] \in reset THEN {} ELSE told[key]) \cup now(key)]
    BY <1>2 DEF SyncRows
  <2>1. shared' \in Rows /\ shared'.script = table.script
    BY <1>2, CacheConstants DEF SyncRows, reload_rows, CacheIInv, Rows
  <2>2. \A key \in Keys : now(key) \in SUBSET Texts /\ IsFiniteSet(now(key))
    <3> TAKE key \in Keys
    <3>1. table.script[key[1]].text \in Texts
      BY DEF CacheIInv, Rows, Keys
    <3> QED BY <3>1, FS_Singleton, FS_EmptySet
  <2>3. \A g \in CacheGroups : Key(table, g) \in Keys /\ Key(shared, g)' = Key(table, g)
                               /\ now(Key(table, g)) = {table.script[g].text}
    BY <2>1, RowParts DEF CacheIInv, Key
  <2> HIDE DEF reset, now
  <2>4. told' \in [Keys -> SUBSET Texts] /\ \A key \in Keys : IsFiniteSet(told'[key])
    <3>1. ASSUME NEW key \in Keys
          PROVE  told'[key] \in SUBSET Texts /\ IsFiniteSet(told'[key])
      <4>1. told'[key] = now(key) \/ told'[key] = told[key] \cup now(key)
        BY <2>0
      <4>2. told[key] \in SUBSET Texts /\ IsFiniteSet(told[key])
        BY DEF CacheIInv
      <4> QED BY <2>2, <4>1, <4>2, FS_Union
    <3> QED BY <2>0, <3>1
  <2>5. \A g \in CacheGroups : shared'.script[g].text \in told'[Key(shared, g)']
    <3> TAKE g \in CacheGroups
    <3>1. now(Key(table, g)) \subseteq told'[Key(table, g)]
      BY <2>0, <2>3
    <3> QED BY <2>1, <2>3, <3>1
  <2>6. Sound(cache', told')
    <3>1. \A key \in Keys : key[1] \notin reset => told[key] \subseteq told'[key]
      BY <2>0
    <3>2. Sound(cache, told)
      BY DEF CacheIInv
    <3> QED BY <2>0, <3>1, <3>2, StartSound DEF reset
  <2>7. DOMAIN copies = {}
    BY <2>0
  <2> QED BY <2>0, <2>1, <2>4, <2>5, <2>6, <2>7 DEF CacheIInv
<1>3. ASSUME NEW k \in CacheKpz, StartWorker(k) PROVE CacheIInv'
  <2>1. copies' = Put(copies, k, clone_for_worker(cache, k)) /\ UNCHANGED <<table, started, shared, cache, told>>
    BY <1>3 DEF StartWorker
  <2>2. Sound(clone_for_worker(cache, k), told)
    BY PartSound DEF CacheIInv, clone_for_worker
  <2>3. DOMAIN copies' \subseteq CacheKpz /\ \A j \in DOMAIN copies' : Sound(copies'[j], told)
    BY <2>1, <2>2 DEF Put, CacheIInv
  <2> QED BY <2>1, <2>3 DEF CacheIInv, Key
<1>4. ASSUME NEW k \in CacheKpz, NEW g \in CacheGroups, PrepareGroup(k, g) PROVE CacheIInv'
  <2>1. /\ k \in DOMAIN copies /\ copies' = [copies EXCEPT ![k] = Prepared(copies[k], shared, k, g)]
        /\ UNCHANGED <<table, started, shared, cache, told>>
    BY <1>4 DEF PrepareGroup
  <2>2. Sound(Prepared(copies[k], shared, k, g), told)
    BY <2>1, PreparedSound DEF CacheIInv
  <2>3. DOMAIN copies' \subseteq CacheKpz /\ \A j \in DOMAIN copies' : Sound(copies'[j], told)
    BY <2>1, <2>2 DEF CacheIInv
  <2> QED BY <2>1, <2>3 DEF CacheIInv, Key
<1>5. ASSUME NEW k \in CacheKpz, NEW panics \in BOOLEAN, EndWorker(k, panics) PROVE CacheIInv'
  <2>1. /\ k \in DOMAIN copies /\ copies' = Fewer(copies, CacheKpz \ {k})
        /\ cache' = IF panics THEN cache ELSE merge_from(cache, copies[k])
        /\ UNCHANGED <<table, started, shared, told>>
    BY <1>5 DEF EndWorker
  <2>2. Sound(merge_from(cache, copies[k]), told)
    BY <2>1, MergeSound DEF CacheIInv
  <2>3. Sound(cache', told)
    BY <2>1, <2>2 DEF CacheIInv
  <2>4. DOMAIN copies' \subseteq CacheKpz /\ \A j \in DOMAIN copies' : Sound(copies'[j], told)
    BY <2>1 DEF CacheIInv, Fewer
  <2> QED BY <2>1, <2>3, <2>4 DEF CacheIInv, Key
<1>6. CASE UNCHANGED cacheVars
  BY <1>6 DEF cacheVars, CacheIInv, Key
<1> QED BY <1>1, <1>2, <1>3, <1>4, <1>5, <1>6 DEF CacheNext

LEMMA CacheSafe == CacheIInv => ServesTheRows
<1> SUFFICES ASSUME CacheIInv, NEW k \in DOMAIN copies, NEW g \in GroupsOf[k]
    PROVE  LET p == get_plan(copies[k], shared, k, g)
           IN /\ p.bound = shared.bound[<<k, g>>]
              /\ Cardinality(told[Key(shared, g)]) = 1 => p.text = shared.script[g].text
  BY DEF ServesTheRows
<1>1. k \in CacheKpz /\ g \in CacheGroups /\ shared \in Rows /\ Sound(copies[k], told)
  BY DEF CacheIInv, CacheGroups
<1> DEFINE p == get_plan(copies[k], shared, k, g)
           h == told[Key(shared, g)]
<1>2. shared.script[g].text \in h /\ IsFiniteSet(h)
  BY <1>1, RowParts DEF CacheIInv
<1>3. p.text \in h /\ p.bound = shared.bound[<<k, g>>]
  BY <1>1, <1>2, ServedSound
<1>4. Cardinality(h) = 1 => \E x : h = {x}
  BY <1>2, FS_Singleton
<1> QED BY <1>2, <1>3, <1>4

\* A worker is served the bindings of the row, and its text, for every set of
\* KPZ, groups, versions and texts (script_cache.rs 155-210, state_sync.rs 833-846).
THEOREM CacheServesTheRows == CacheSpec => []ServesTheRows
<1> QED BY CacheStart, CacheStep, CacheSafe, PTL DEF CacheSpec
=============================================================================
