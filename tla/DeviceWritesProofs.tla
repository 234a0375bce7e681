------------------------- MODULE DeviceWritesProofs -------------------------
(***************************************************************************)
(* Theorems about what operators write.  To devices (DeviceWrites), for    *)
(* every set of clients, bits and requests and every rate limit: success   *)
(* is reported only for what the device has done, and a bit is undone only *)
(* by something that overlaps.  To the rows of the database (Station and   *)
(* ListEditors), for all ids, windows and groups, and however long the     *)
(* station runs: every row is stored under the id it was read from or      *)
(* typed for, and the list shown has what this station stored last.        *)
(***************************************************************************)
EXTENDS DeviceWrites, ListEditors, WellFoundedInduction, TLAPS

-----------------------------------------------------------------------------
(* A word as it was read at a moment differs from the device's only in     *)
(* bits that were touched after that moment.                               *)

Current(word, at, reg, touched, free) ==
  \A b \in Bits \ free : (b \in reg) # (b \in word) => touched[b] > at

\* A write keeps that up, as it marks every bit it changes.
LEMMA CurrentKept ==
  ASSUME NEW word, NEW free, NEW reg, NEW reg2, NEW n \in Nat, NEW at \in 0 .. n,
         NEW touched \in [Bits -> Nat], NEW touched2 \in [Bits -> Nat],
         \A b \in Bits : touched2[b] \in {touched[b], n + 1},
         \A b \in Bits : (b \in reg) # (b \in reg2) => touched2[b] = n + 1,
         Current(word, at, reg, touched, free)
  PROVE  Current(word, at, reg2, touched2, free)
<1> SUFFICES ASSUME NEW b \in Bits \ free, (b \in reg2) # (b \in word)
             PROVE  touched2[b] > at
  BY DEF Current
<1>1. touched[b] \in Nat /\ touched2[b] \in Nat  OBVIOUS
<1>2. CASE (b \in reg) # (b \in reg2)  BY <1>2
<1>3. CASE (b \in reg) = (b \in reg2)
  <2>1. touched[b] > at  BY <1>3 DEF Current
  <2> QED BY <1>1, <2>1
<1> QED BY <1>2, <1>3

-----------------------------------------------------------------------------
(* The inductive invariant *)

Funcs == {3, 5, 6, 16}
Handler == [func : {0} \cup Funcs, asked : Nat, req : Request \cup {[kind |-> "none"]},
            word : Words, readAt : Nat]

Types ==
  /\ dev \in [word : Words, long : BOOLEAN, tu : BOOLEAN, unknown : UnknownFuncs]
  /\ cli \in [Clients -> Handler]
  /\ now \in Nat
  /\ ghost \in [ok : SUBSET (Clients \X Nat), done : SUBSET (Clients \X Nat), writes : Nat,
                touched : [Bits -> Nat], granted : Seq(Nat)]

\* A request for a bit, past its read.
Writing(func, req) == func \in Funcs \ {3} /\ req.kind = "bit"

\* What a handler, or a packet of it, carries.
CarriedOK(func, req, word, readAt) ==
  /\ req \in Request /\ word \in Words /\ readAt \in 0 .. ghost.writes
  /\ func = 3 => req.kind = "bit"
  /\ func = 5 <=> req.kind = "tu"
  /\ Writing(func, req) => Current(word, readAt, dev.word, ghost.touched, {req.bit})

HandlerOK(c) ==
  cli[c].func # 0 => CarriedOK(cli[c].func, cli[c].req, cli[c].word, cli[c].readAt)

PacketOK(p) ==
  /\ p.from \in Clients /\ p.nr \in Nat /\ p.func \in Funcs
  /\ CarriedOK(p.func, p.req, p.word, p.readAt)

\* An answer is to the exchange its handler waits for; if it is good it tells of
\* a write that was done, or of the word as it was.
AnswerOK(a) ==
  /\ a.from \in Clients /\ a.func \in Funcs /\ a.ok \in BOOLEAN
  /\ a.word \in Words /\ a.at \in 0 .. ghost.writes
  /\ cli[a.from].func = a.func /\ cli[a.from].asked = a.nr
  /\ a.ok /\ a.func # 3 => <<a.from, a.nr>> \in ghost.done
  /\ a.func = 3 => Current(a.word, a.at, dev.word, ghost.touched, {})

IInv ==
  /\ Types
  /\ ghost.ok \subseteq ghost.done
  /\ \A c \in Clients : HandlerOK(c)
  /\ \A p \in packets : PacketOK(p)
  /\ \A a \in answers : AnswerOK(a)

LEMMA InitOK == Init => IInv
<1> SUFFICES ASSUME Init PROVE IInv  OBVIOUS
<1>1. PICK no \in UnknownFuncs : dev = [word |-> {}, long |-> FALSE, tu |-> FALSE, unknown |-> no]
  BY DEF Init
<1>2. Idle \in Handler  BY DEF Idle, Handler, Words, Funcs
<1>3. ghost = [ok |-> {}, done |-> {}, writes |-> 0, touched |-> [b \in Bits |-> 0], granted |-> <<>>]
  BY DEF Init
<1>4. Types  BY <1>1, <1>2, <1>3 DEF Init, Types, Words
<1> QED BY <1>3, <1>4 DEF Init, IInv, HandlerOK, Idle

-----------------------------------------------------------------------------
(* The steps of the clients: the device does nothing.                      *)

LEMMA OnTheWayIsThere == ASSUME NEW c PROVE OnTheWay(c) \subseteq packets
BY DEF OnTheWay

\* Neither the device nor what the invariant says of it changes.
Silent ==
  /\ dev' = dev
  /\ ghost'.writes = ghost.writes /\ ghost'.touched = ghost.touched /\ ghost'.done = ghost.done

LEMMA CarriedKept ==
  ASSUME Silent, NEW func, NEW req, NEW word, NEW readAt
  PROVE  CarriedOK(func, req, word, readAt) <=> CarriedOK(func, req, word, readAt)'
BY DEF Silent, CarriedOK

LEMMA PacketKept == ASSUME Silent, NEW p, PacketOK(p) PROVE PacketOK(p)'
BY CarriedKept DEF PacketOK

LEMMA AnswerKept ==
  ASSUME Silent, NEW a, AnswerOK(a), cli'[a.from].func = cli[a.from].func,
         cli'[a.from].asked = cli[a.from].asked
  PROVE  AnswerOK(a)'
BY DEF Silent, AnswerOK

\* One handler moves, without a new packet or with one that is well made.
LEMMA HandlerMoves ==
  ASSUME IInv, Silent, NEW c \in Clients, Types', ghost'.ok \subseteq ghost'.done,
         \A x \in Clients \ {c} : cli'[x] = cli[x],
         HandlerOK(c)', answers' = {a \in answers : a.from # c},
         \A p \in packets' : p \in packets \/ PacketOK(p)'
  PROVE  IInv'
<1>1. \A x \in Clients : HandlerOK(x)'
  <2> SUFFICES ASSUME NEW x \in Clients \ {c} PROVE HandlerOK(x)'  OBVIOUS
  <2>1. HandlerOK(x) /\ cli'[x] = cli[x]  BY DEF IInv
  <2> QED BY <2>1, CarriedKept DEF HandlerOK
<1>2. \A p \in packets' : PacketOK(p)'  BY PacketKept DEF IInv
<1>3. \A a \in answers' : AnswerOK(a)'
  <2> SUFFICES ASSUME NEW a \in answers, a.from # c PROVE AnswerOK(a)'  OBVIOUS
  <2>1. AnswerOK(a) /\ a.from \in Clients  BY DEF IInv, AnswerOK
  <2> QED BY <2>1, AnswerKept
<1> QED BY <1>1, <1>2, <1>3 DEF IInv

\* An exchange begins, with a request that is well made.
LEMMA SendOK ==
  ASSUME IInv, Silent, NEW c \in Clients, NEW m \in Handler, NEW func \in Funcs, Send(c, m, func),
         now' \in Nat, ghost' \in [ok : SUBSET (Clients \X Nat), done : SUBSET (Clients \X Nat),
                                   writes : Nat, touched : [Bits -> Nat], granted : Seq(Nat)],
         ghost'.ok = ghost.ok,
         CarriedOK(func, m.req, m.word, m.readAt)
  PROVE  IInv'
<1> DEFINE h == [m EXCEPT !.func = func]
<1>1. h \in Handler /\ h.func = func /\ h.req = m.req /\ h.word = m.word /\ h.readAt = m.readAt
  BY DEF Handler
<1>2. cli' = [cli EXCEPT ![c] = h] /\ cli'[c] = h /\ \A x \in Clients \ {c} : cli'[x] = cli[x]
  BY DEF Send, IInv, Types
<1> HIDE DEF h
<1>3. Types'  BY <1>1, <1>2 DEF IInv, Types, Silent
<1>4. CarriedOK(func, m.req, m.word, m.readAt)'  BY CarriedKept
<1>5. HandlerOK(c)'  BY <1>1, <1>2, <1>4 DEF HandlerOK
<1>6. PacketOK(Packet(c, m, func))'
  BY <1>4 DEF PacketOK, Packet, Handler
<1>7. \A p \in packets' : p \in packets \/ PacketOK(p)'
  BY <1>6, OnTheWayIsThere DEF Send
<1>8. answers' = {a \in answers : a.from # c}  BY DEF Send
<1> QED BY <1>2, <1>3, <1>5, <1>7, <1>8, HandlerMoves DEF IInv, Silent

\* A request is over.
LEMMA EndOK ==
  ASSUME IInv, Silent, NEW c \in Clients, End(c), now' = now,
         ghost' \in [ok : SUBSET (Clients \X Nat), done : SUBSET (Clients \X Nat),
                     writes : Nat, touched : [Bits -> Nat], granted : Seq(Nat)],
         ghost'.ok \subseteq ghost.done
  PROVE  IInv'
<1> DEFINE h == [cli[c] EXCEPT !.func = 0]
<1>1. h \in Handler /\ h.func = 0  BY DEF Handler, IInv, Types
<1>2. cli' = [cli EXCEPT ![c] = h] /\ cli'[c] = h /\ \A x \in Clients \ {c} : cli'[x] = cli[x]
  BY DEF End, IInv, Types
<1> HIDE DEF h
<1>3. Types'  BY <1>1, <1>2 DEF IInv, Types, Silent
<1>4. HandlerOK(c)'  BY <1>1, <1>2 DEF HandlerOK
<1>5. packets' \subseteq packets /\ answers' = {a \in answers : a.from # c}
  BY OnTheWayIsThere DEF End
<1> QED BY <1>2, <1>3, <1>4, <1>5, HandlerMoves DEF Silent

LEMMA LaterIsTime == Types /\ now' \in Later => now' \in Nat
BY BoundsAssumption DEF Types, Later

LEMMA FirstFuncOK ==
  ASSUME NEW req \in Request
  PROVE  /\ FirstFunc(req) \in Funcs
         /\ FirstFunc(req) = 3 <=> req.kind = "bit"
         /\ FirstFunc(req) = 5 <=> req.kind = "tu"
<1>1. req.kind \in {"bit", "word", "long", "tu"}  BY DEF Request
<1> QED BY <1>1 DEF FirstFunc, Funcs

LEMMA AskOK ==
  ASSUME IInv, NEW c \in Clients, NEW req \in Requests[c], Ask(c, req)
  PROVE  IInv'
<1> DEFINE m == [func |-> 0, asked |-> cli[c].asked + 1, req |-> req,
                 word |-> IF req.kind = "word" THEN req.word ELSE {}, readAt |-> ghost.writes]
<1>1. req \in Request  BY RequestsAssumption
<1>2. (IF req.kind = "word" THEN req.word ELSE {}) \in Words
  BY <1>1 DEF Request, Words
<1>3. cli[c] \in Handler /\ ghost.writes \in Nat  BY DEF IInv, Types
<1>4. cli[c].asked + 1 \in Nat  BY <1>3 DEF Handler
<1>5. m \in Handler  BY <1>1, <1>2, <1>3, <1>4 DEF Handler
<1>6. Send(c, m, FirstFunc(req)) /\ dev' = dev  BY DEF Ask
<1>7. /\ now' \in Nat /\ Silent /\ ghost'.ok = ghost.ok
      /\ ghost' \in [ok : SUBSET (Clients \X Nat), done : SUBSET (Clients \X Nat),
                     writes : Nat, touched : [Bits -> Nat], granted : Seq(Nat)]
  <2>0. Types  BY DEF IInv
  <2>1. CASE c \in Desk  BY <2>0, <2>1, <1>6 DEF Ask, Granted, Types, Silent
  <2>2. CASE c \notin Desk
    <3>1. now' \in Nat  BY <2>0, <2>2, LaterIsTime DEF Ask, Granted
    <3>2. ghost' = [ghost EXCEPT !.granted = Append(@, now')]  BY <2>2 DEF Ask, Granted
    <3>3. Append(ghost.granted, now') \in Seq(Nat)  BY <2>0, <3>1 DEF Types
    <3> QED BY <2>0, <1>6, <3>1, <3>2, <3>3 DEF Types, Silent
  <2> QED BY <2>1, <2>2
<1>8. CarriedOK(FirstFunc(req), m.req, m.word, m.readAt)
  <2>1. m.req = req /\ m.readAt = ghost.writes /\ m.word \in Words  BY <1>2
  <2>2. ~Writing(FirstFunc(req), req)  BY <1>1, FirstFuncOK DEF Writing
  <2>3. ghost.writes \in 0 .. ghost.writes  BY <1>3
  <2> QED BY <1>1, <2>1, <2>2, <2>3, FirstFuncOK DEF CarriedOK
<1> HIDE DEF m
<1> QED BY <1>1, <1>5, <1>6, <1>7, <1>8, FirstFuncOK, SendOK

LEMMA RefusedOK == ASSUME IInv, NEW c \in Clients, Refused(c) PROVE IInv'
<1> DEFINE h == [cli[c] EXCEPT !.asked = @ + 1]
<1>1. cli[c].func = 0 /\ now' \in Later /\ UNCHANGED <<dev, packets, answers, journal, ghost>>
  BY DEF Refused
<1>0. cli[c] \in Handler  BY DEF IInv, Types
<1>2. h \in Handler /\ h.func = 0
  <2>1. cli[c].asked + 1 \in Nat  BY <1>0 DEF Handler
  <2> QED BY <1>0, <1>1, <2>1 DEF Handler
<1>3. cli' = [cli EXCEPT ![c] = h] /\ cli'[c] = h /\ \A x \in Clients \ {c} : cli'[x] = cli[x]
  BY DEF Refused, IInv, Types
<1> HIDE DEF h
<1>4. Types' /\ Silent  BY <1>1, <1>2, <1>3, LaterIsTime DEF IInv, Types, Silent
<1>5. HandlerOK(c)'  BY <1>2, <1>3 DEF HandlerOK
<1>6. \A a \in answers : a.from # c
  <2> SUFFICES ASSUME NEW a \in answers, a.from = c PROVE FALSE  OBVIOUS
  <2>1. AnswerOK(a)  BY DEF IInv
  <2> QED BY <1>1, <2>1 DEF AnswerOK, Funcs
<1>7. answers' = {a \in answers : a.from # c}  BY <1>1, <1>6
<1> QED BY <1>1, <1>3, <1>4, <1>5, <1>7, HandlerMoves DEF IInv

\* A handler that fails keeps its word for the second attempt.
LEMMA FailedOK ==
  ASSUME IInv, NEW c \in Clients, Failed(c), cli[c].func # 0, UNCHANGED <<dev, now>>
  PROVE  IInv'
<1>1. UNCHANGED ghost /\ Silent  BY DEF Failed, Silent
<1>2. CASE cli[c].func = 6
  <2>1. HandlerOK(c) /\ cli[c] \in Handler  BY DEF IInv, Types
  <2>2. CarriedOK(16, cli[c].req, cli[c].word, cli[c].readAt)
    BY <1>2, <2>1 DEF HandlerOK, CarriedOK, Writing, Funcs
  <2>3. Send(c, cli[c], 16)  BY <1>2 DEF Failed
  <2> QED BY <1>1, <2>1, <2>2, <2>3, SendOK DEF IInv, Types, Funcs
<1>3. CASE cli[c].func # 6
  <2>1. End(c)  BY <1>3 DEF Failed
  <2> QED BY <1>1, <2>1, EndOK DEF IInv, Types
<1> QED BY <1>2, <1>3

\* What a good answer says is so, and a word read is written back with one bit
\* changed.
LEMMA ReceiveOK == ASSUME IInv, NEW a \in answers, Receive(a) PROVE IInv'
<1> DEFINE c == a.from
<1>1. AnswerOK(a) /\ c \in Clients /\ HandlerOK(c) /\ cli[c] \in Handler /\ cli[c].func # 0
  BY DEF IInv, AnswerOK, Types, Funcs
<1>2. UNCHANGED <<dev, now>>  BY DEF Receive
<1>3. CASE ~a.ok
  <2>1. Failed(c)  BY <1>3 DEF Receive, Accepted
  <2> QED BY <1>1, <1>2, <2>1, FailedOK
<1>4. CASE a.ok /\ a.func # 3
  <2>1. Told(c)  BY <1>4 DEF Receive, Accepted
  <2>2. ghost' = [ghost EXCEPT !.ok = @ \cup {<<c, cli[c].asked>>}] /\ End(c)  BY <2>1 DEF Told
  <2>3. <<c, cli[c].asked>> \in ghost.done  BY <1>1, <1>4 DEF AnswerOK
  <2>4. Silent /\ ghost'.ok = ghost.ok \cup {<<c, cli[c].asked>>}
    BY <1>2, <2>2 DEF Silent, IInv, Types
  <2>5. ghost'.ok \subseteq ghost.done  BY <2>3, <2>4 DEF IInv
  <2>6. ghost' \in [ok : SUBSET (Clients \X Nat), done : SUBSET (Clients \X Nat),
                    writes : Nat, touched : [Bits -> Nat], granted : Seq(Nat)]
    <3> DEFINE o == ghost.ok \cup {<<c, cli[c].asked>>}
    <3>1. cli[c].asked \in Nat  BY <1>1 DEF Handler
    <3>2. o \in SUBSET (Clients \X Nat)  BY <1>1, <3>1 DEF IInv, Types
    <3>3. ghost' = [ghost EXCEPT !.ok = o]  BY <2>2 DEF IInv, Types
    <3> HIDE DEF o
    <3> QED BY <3>2, <3>3 DEF IInv, Types
  <2> QED BY <1>1, <1>2, <2>2, <2>4, <2>5, <2>6, EndOK
<1>5. CASE a.ok /\ a.func = 3
  <2> DEFINE w == TargetWord(a.word, cli[c].req)
             m == [cli[c] EXCEPT !.word = w, !.readAt = a.at]
  <2>1. Send(c, m, 6) /\ UNCHANGED ghost  BY <1>5 DEF Receive, Accepted
  <2>2. cli[c].func = 3 /\ cli[c].req \in Request /\ cli[c].req.kind = "bit"
    BY <1>1, <1>5 DEF AnswerOK, HandlerOK, CarriedOK
  <2>3. cli[c].req.bit \in Bits  BY <2>2 DEF Request
  <2>4. w \in Words  BY <1>1, <2>3 DEF AnswerOK, Words, TargetWord
  <2>5. m \in Handler /\ m.req = cli[c].req /\ m.word = w /\ m.readAt = a.at
    <3>1. ghost.writes \in Nat  BY DEF IInv, Types
    <3>2. a.at \in Nat  BY <1>1, <3>1 DEF AnswerOK
    <3> HIDE DEF w
    <3> QED BY <1>1, <2>4, <3>2 DEF Handler
  <2>6. Current(a.word, a.at, dev.word, ghost.touched, {})  BY <1>1, <1>5 DEF AnswerOK
  <2>7. Current(w, a.at, dev.word, ghost.touched, {cli[c].req.bit})
    BY <2>6 DEF Current, TargetWord
  <2>8. CarriedOK(6, m.req, m.word, m.readAt)
    BY <1>1, <2>2, <2>4, <2>5, <2>7 DEF CarriedOK, AnswerOK
  <2>9. Silent  BY <1>2, <2>1 DEF Silent
  <2> HIDE DEF m, w
  <2> QED BY <1>1, <1>2, <2>1, <2>5, <2>8, <2>9, SendOK DEF IInv, Types, Funcs
<1> QED BY <1>1, <1>3, <1>4, <1>5 DEF AnswerOK

-----------------------------------------------------------------------------
(* The device *)

\* What a packet does to the word and to the marks.
LEMMA WriteMarks ==
  ASSUME IInv, NEW p \in packets, Execute(p)
  PROVE  /\ dev' \in [word : Words, long : BOOLEAN, tu : BOOLEAN, unknown : UnknownFuncs]
         /\ ghost' \in [ok : SUBSET (Clients \X Nat), done : SUBSET (Clients \X Nat),
                        writes : Nat, touched : [Bits -> Nat], granted : Seq(Nat)]
         /\ ghost'.ok = ghost.ok /\ ghost.done \subseteq ghost'.done
         /\ ghost'.writes >= ghost.writes
         /\ \A b \in Bits : ghost'.touched[b] \in {ghost.touched[b], ghost.writes + 1}
         /\ \A b \in Bits : (b \in dev.word) # (b \in dev'.word) =>
              ghost'.touched[b] = ghost.writes + 1
         /\ p.func # 3 /\ p.func \notin dev.unknown => <<p.from, p.nr>> \in ghost'.done
         /\ dev'.word # dev.word => p.func \in {6, 16} /\ dev'.word = p.word
<1>1. PacketOK(p) /\ Types  BY DEF IInv
<1>2. p.req \in Request /\ p.req.kind \in {"bit", "word", "long", "tu"} /\ p.word \in Words
  BY <1>1 DEF PacketOK, CarriedOK, Request
<1>3. p.req.kind \in {"long", "tu"} => p.req.val \in BOOLEAN  BY <1>2 DEF Request
<1>4. p.func \in {3, 5, 6, 16} /\ (p.func = 5 <=> p.req.kind = "tu") /\ (p.func = 3 => p.req.kind = "bit")
  BY <1>1 DEF PacketOK, CarriedOK, Funcs
<1>5. CASE p.func \in dev.unknown \/ p.func = 3
  <2>1. dev' = dev /\ ghost' = ghost  BY <1>5 DEF Execute, Carried
  <2> QED BY <1>1, <1>5, <2>1 DEF Types
<1>6. CASE p.func \notin dev.unknown /\ p.func # 3
  <2> DEFINE t == [b \in Bits |-> IF b \in Touched(p) THEN ghost.writes + 1 ELSE ghost.touched[b]]
             d == ghost.done \cup {<<p.from, p.nr>>}
  <2>1. dev' = Carried(p)  BY <1>6 DEF Execute
  <2>2. ghost' = [ghost EXCEPT !.done = d, !.writes = ghost.writes + 1, !.touched = t]
    BY <1>1, <1>6 DEF Execute, Types
  <2>3. t \in [Bits -> Nat] /\ d \in SUBSET (Clients \X Nat) /\ ghost.writes + 1 \in Nat
    BY <1>1 DEF Types, PacketOK
  <2>4. \A b \in Bits : t[b] = IF b \in Touched(p) THEN ghost.writes + 1 ELSE ghost.touched[b]
    OBVIOUS
  <2> HIDE DEF t, d
  <2>5. ghost' \in [ok : SUBSET (Clients \X Nat), done : SUBSET (Clients \X Nat),
                    writes : Nat, touched : [Bits -> Nat], granted : Seq(Nat)]
        /\ ghost'.ok = ghost.ok /\ ghost'.done = d /\ ghost'.writes = ghost.writes + 1
        /\ ghost'.touched = t
    BY <1>1, <2>2, <2>3 DEF Types
  <2>6. ghost.done \subseteq ghost'.done /\ <<p.from, p.nr>> \in ghost'.done
    BY <2>5 DEF d
  <2>7. \A b \in Bits : ghost'.touched[b] \in {ghost.touched[b], ghost.writes + 1}
    BY <2>4, <2>5
  <2>8. /\ dev' \in [word : Words, long : BOOLEAN, tu : BOOLEAN, unknown : UnknownFuncs]
        /\ dev'.word # dev.word => p.func \in {6, 16} /\ dev'.word = p.word /\ p.req.kind \in {"bit", "word"}
    <3>1. CASE p.func = 5
      <4>1. dev' = [dev EXCEPT !.tu = p.req.val]  BY <2>1, <3>1 DEF Carried
      <4> QED BY <1>1, <1>3, <1>4, <3>1, <4>1 DEF Types
    <3>2. CASE p.func \in {6, 16} /\ p.req.kind = "long"
      <4>1. dev' = [dev EXCEPT !.long = p.req.val]  BY <2>1, <3>2 DEF Carried
      <4> QED BY <1>1, <1>3, <3>2, <4>1 DEF Types
    <3>3. CASE p.func \in {6, 16} /\ p.req.kind # "long"
      <4>1. dev' = [dev EXCEPT !.word = p.word]  BY <2>1, <3>3 DEF Carried
      <4>2. p.req.kind \in {"bit", "word"}  BY <1>2, <1>4, <3>3
      <4> QED BY <1>1, <1>2, <3>3, <4>1, <4>2 DEF Types
    <3> QED BY <1>4, <1>6, <3>1, <3>2, <3>3
  <2>9. ASSUME NEW b \in Bits, (b \in dev.word) # (b \in dev'.word)
        PROVE  ghost'.touched[b] = ghost.writes + 1
    <3>1. dev'.word = p.word /\ p.req.kind \in {"bit", "word"}  BY <2>8, <2>9
    <3>2. b \in Touched(p)  BY <2>9, <3>1 DEF Touched
    <3> QED BY <2>4, <2>5, <3>2
  <2>10. ghost'.writes >= ghost.writes  BY <1>1, <2>5 DEF Types
  <2> QED BY <2>5, <2>6, <2>7, <2>8, <2>9, <2>10
<1> QED BY <1>5, <1>6

LEMMA ExecuteOK == ASSUME IInv, NEW p \in packets, Execute(p) PROVE IInv'
<1>1. PacketOK(p) /\ Types  BY DEF IInv
<1>2. UNCHANGED <<cli, now>> /\ packets' = packets \ {p}  BY DEF Execute
<1>3. Types'  BY <1>1, <1>2, WriteMarks DEF Types
<1>4. ghost'.ok \subseteq ghost'.done  BY WriteMarks DEF IInv
<1>15. dev'.word # dev.word => p.func \in {6, 16}  BY WriteMarks, Zenon
<1>16. /\ \A b \in Bits : ghost'.touched[b] \in {ghost.touched[b], ghost.writes + 1}
       /\ \A b \in Bits : (b \in dev.word) # (b \in dev'.word) =>
            ghost'.touched[b] = ghost.writes + 1
  BY WriteMarks, Zenon
<1>5. ghost.writes \in Nat /\ ghost.touched \in [Bits -> Nat] /\ ghost'.touched \in [Bits -> Nat]
      /\ ghost'.writes \in Nat /\ ghost'.writes >= ghost.writes
  BY <1>1, <1>3, WriteMarks DEF Types
<1>6. ASSUME NEW word, NEW at \in 0 .. ghost.writes, NEW free,
             Current(word, at, dev.word, ghost.touched, free)
      PROVE  Current(word, at, dev'.word, ghost'.touched, free)
  BY <1>5, <1>6, <1>16, CurrentKept
<1>7. \A at \in 0 .. ghost.writes : at \in 0 .. ghost'.writes  BY <1>5
<1>8. ASSUME NEW func, NEW req, NEW word, NEW readAt, CarriedOK(func, req, word, readAt)
      PROVE  CarriedOK(func, req, word, readAt)'
  <2>1. readAt \in 0 .. ghost.writes /\ readAt \in 0 .. ghost'.writes  BY <1>7, <1>8 DEF CarriedOK
  <2> QED BY <1>6, <1>8, <2>1 DEF CarriedOK
<1>9. \A c \in Clients : HandlerOK(c)'
  <2> SUFFICES ASSUME NEW c \in Clients, cli[c].func # 0
               PROVE  CarriedOK(cli[c].func, cli[c].req, cli[c].word, cli[c].readAt)'
    BY <1>2 DEF HandlerOK
  <2>1. CarriedOK(cli[c].func, cli[c].req, cli[c].word, cli[c].readAt)  BY DEF IInv, HandlerOK
  <2> QED BY <1>2, <1>8, <2>1
<1>10. \A q \in packets' : PacketOK(q)'
  <2> SUFFICES ASSUME NEW q \in packets PROVE PacketOK(q)'  BY <1>2
  <2>1. PacketOK(q)  BY DEF IInv
  <2> QED BY <1>8, <2>1 DEF PacketOK
<1>11. ASSUME NEW a \in answers PROVE AnswerOK(a)'
  <2>1. AnswerOK(a)  BY DEF IInv
  <2>2. a.at \in 0 .. ghost.writes /\ a.at \in 0 .. ghost'.writes  BY <1>7, <2>1 DEF AnswerOK
  <2>3. a.func = 3 => Current(a.word, a.at, dev'.word, ghost'.touched, {})
    BY <1>6, <2>1, <2>2 DEF AnswerOK
  <2>4. a.ok /\ a.func # 3 => <<a.from, a.nr>> \in ghost'.done
    BY <2>1, WriteMarks DEF AnswerOK
  <2> QED BY <1>2, <2>1, <2>2, <2>3, <2>4 DEF AnswerOK
<1> DEFINE new == [from |-> p.from, nr |-> p.nr, func |-> p.func, ok |-> p.func \notin dev.unknown,
                   word |-> dev.word, at |-> ghost.writes]
           open == cli[p.from].asked = p.nr /\ cli[p.from].func = p.func
<1>12. answers' = IF open THEN answers \cup {new} ELSE answers  BY DEF Execute
<1>13. ASSUME open, NEW a, a = new PROVE AnswerOK(a)'
  <2>1. /\ a.from = p.from /\ a.nr = p.nr /\ a.func = p.func /\ a.word = dev.word
        /\ a.at = ghost.writes /\ a.ok = (p.func \notin dev.unknown)
    BY <1>13
  <2>2. a.at \in 0 .. ghost'.writes  BY <1>5, <2>1
  <2>3. a.ok /\ a.func # 3 => <<a.from, a.nr>> \in ghost'.done  BY <2>1, WriteMarks
  <2>4. a.func = 3 => Current(a.word, a.at, dev'.word, ghost'.touched, {})
    <3> SUFFICES ASSUME p.func = 3 PROVE Current(dev.word, ghost.writes, dev'.word, ghost'.touched, {})
      BY <2>1
    <3>1. dev'.word = dev.word  BY <1>15
    <3> QED BY <3>1 DEF Current
  <2>5. cli'[a.from].func = a.func /\ cli'[a.from].asked = a.nr  BY <1>2, <1>13, <2>1
  <2>6. a.from \in Clients /\ a.func \in Funcs /\ a.word \in Words /\ a.ok \in BOOLEAN
    BY <1>1, <2>1 DEF PacketOK, Types
  <2>7. /\ a.from \in Clients /\ a.func \in Funcs /\ a.ok \in BOOLEAN
        /\ a.word \in Words /\ a.at \in 0 .. ghost'.writes
        /\ cli'[a.from].func = a.func /\ cli'[a.from].asked = a.nr
        /\ a.ok /\ a.func # 3 => <<a.from, a.nr>> \in ghost'.done
        /\ a.func = 3 => Current(a.word, a.at, dev'.word, ghost'.touched, {})
    BY <2>2, <2>3, <2>4, <2>5, <2>6, Zenon
  <2> HIDE DEF new
  <2> QED BY <2>7, Zenon DEF AnswerOK
<1> HIDE DEF new, open
<1>14. ASSUME NEW a \in answers' PROVE AnswerOK(a)'
  <2>1. a \in answers \/ (open /\ a = new)  BY <1>12
  <2> QED BY <2>1, <1>11, <1>13, Zenon
<1> QED BY <1>3, <1>4, <1>9, <1>10, <1>14 DEF IInv

-----------------------------------------------------------------------------
(* The theorems *)

LEMMA NextOK == IInv /\ [Next]_vars => IInv'
<1> SUFFICES ASSUME IInv, [Next]_vars PROVE IInv'  OBVIOUS
<1>1. CASE UNCHANGED <<dev, packets, answers, cli, now, ghost>>
  BY <1>1 DEF IInv, Types, HandlerOK, PacketOK, AnswerOK, CarriedOK
<1>2. CASE \E c \in Clients : Refused(c) \/ Timeout(c) \/ \E req \in Requests[c] : Ask(c, req)
  BY <1>2, RefusedOK, FailedOK, AskOK DEF Timeout
<1>3. CASE \E p \in packets : Execute(p)  BY <1>3, ExecuteOK
<1>4. CASE \E a \in answers : Receive(a)  BY <1>4, ReceiveOK
<1>5. CASE \E nr \in journal.todo : Insert(nr)  BY <1>1, <1>5 DEF Insert
<1> QED BY <1>1, <1>2, <1>3, <1>4, <1>5 DEF Next, vars

\* Every reachable state satisfies the inductive invariant: what handlers,
\* packets and answers carry fits the device and what was done to it
\* (handlers.rs 712-882, actions_io.rs 586-616).
THEOREM Inductive == Spec => []IInv
BY InitOK, NextOK, PTL DEF Spec

\* Success is reported only for a request the device has carried out, whatever
\* was lost, late or refused on the way (handlers.rs 712-754, actions_io.rs
\* 586-616).
THEOREM OkIsWritten == Spec => []OkMeansWritten
<1>1. IInv => OkMeansWritten
  <2> SUFFICES ASSUME IInv PROVE OkMeansWritten  OBVIOUS
  <2>1. Types  BY DEF IInv
  <2>2. \A p \in packets : p.from \in Clients /\ p.func \in {3, 5, 6, 16}
    BY DEF IInv, PacketOK, Funcs
  <2>3. \A a \in answers : cli[a.from].func = a.func /\ cli[a.from].asked = a.nr
    BY DEF IInv, AnswerOK
  <2>4. \A c \in Clients : cli[c].func \in {0, 3, 5, 6, 16}  BY <2>1 DEF Types, Handler, Funcs
  <2> QED BY <2>1, <2>2, <2>3, <2>4 DEF IInv, OkMeansWritten, TypeOK, Types
<1> QED BY <1>1, Inductive, PTL

\* Writing a bit changes another bit only when something wrote that one after
\* the word had been read (handlers.rs 813-840).
THEOREM BitsUndoneByOverlap == Spec => UndoneOnlyByOverlap
<1> DEFINE Step == \A p \in packets : p \notin packets' /\ p.req.kind = "bit" =>
                     \A b \in Bits \ {p.req.bit} :
                       (b \in dev.word) # (b \in dev'.word) => ghost.touched[b] > p.readAt
<1>1. IInv /\ [Next]_vars => Step
  <2> SUFFICES ASSUME IInv, [Next]_vars, NEW p \in packets, p \notin packets', p.req.kind = "bit",
                      NEW b \in Bits \ {p.req.bit}, (b \in dev.word) # (b \in dev'.word)
               PROVE  ghost.touched[b] > p.readAt
    OBVIOUS
  <2>1. dev' # dev  OBVIOUS
  <2>2. PICK q \in packets : Execute(q)
    BY <2>1 DEF Next, vars, Refused, Timeout, Ask, Receive, Insert
  <2>3. q = p  BY <2>2 DEF Execute
  <2>4. p.func \in {6, 16} /\ dev'.word = p.word  BY <2>2, <2>3, WriteMarks
  <2>5. CarriedOK(p.func, p.req, p.word, p.readAt)  BY DEF IInv, PacketOK
  <2>6. Current(p.word, p.readAt, dev.word, ghost.touched, {p.req.bit})
    BY <2>4, <2>5 DEF CarriedOK, Writing, Funcs
  <2> QED BY <2>4, <2>6 DEF Current
<1>2. Spec => [][Next]_vars  BY PTL DEF Spec
<1>3. IInv /\ [Next]_vars => [Step]_vars  BY <1>1
<1>4. Spec => [][Step]_vars  BY <1>2, <1>3, Inductive, PTL
<1> QED BY <1>4 DEF UndoneOnlyByOverlap

-----------------------------------------------------------------------------
(* The control points of the operator station.                             *)

IsVal(v) == DOMAIN v = {"of", "n", "by"}

\* A row of its own id.
OwnRow(r, id) ==
  /\ DOMAIN r = {"meta", "rest", "mask"} /\ DOMAIN r.mask = {"of", "set", "by"}
  /\ IsVal(r.meta) /\ IsVal(r.rest)
  /\ r.meta.of = id /\ r.rest.of = id /\ r.mask.of = id

OwnRows(t) == \A id \in DOMAIN t : OwnRow(t[id], id)

\* The row r of the list is the row s of the table, but for what was not read since.
Known(r, s) == \A f \in {"meta", "rest", "mask"} : r[f] = s[f] \/ s[f].by # "me"

\* The list against the table.
ListOK(list, t) ==
  /\ DOMAIN list \subseteq DOMAIN t /\ DOMAIN t \subseteq Nat \ {0}
  /\ OwnRows(t) /\ OwnRows(list)
  /\ \A id \in DOMAIN list : Known(list[id], t[id])

\* What the fields of the forms are.
DeskShape(d) ==
  /\ DOMAIN d = {"sel", "list", "quick", "full", "groups"} /\ d.sel # 0
  /\ DOMAIN d.full = {"meta", "rest"} /\ DOMAIN d.groups = {"open", "dirty", "mask"}
  /\ IsVal(d.quick) /\ IsVal(d.full.meta) /\ IsVal(d.full.rest)
  /\ DOMAIN d.groups.mask = {"of", "set", "by"}

GroupsOK(d) == d.groups.open => d.groups.mask.of = d.sel

FormsOK(d) == Listed(d) => d.quick.of = d.sel /\ d.full.meta.of = d.sel /\ d.full.rest.of = d.sel

Laid(t, d) == DeskShape(d) /\ ListOK(d.list, t) /\ GroupsOK(d)
StationInv(t, d) == Laid(t, d) /\ FormsOK(d)

LEMMA ValShape ==
  ASSUME NEW id, NEW n
  PROVE  /\ IsVal(Val(id, n)) /\ Val(id, n).of = id /\ Val(id, n).by = "me"
BY DEF IsVal, Val

LEMMA NewRowOwn == ASSUME NEW id PROVE OwnRow(NewRow(id), id)
BY DEF NewRow, OwnRow, IsVal, Val, Mask, Fresh

LEMMA MineShape ==
  ASSUME NEW v, IsVal(v)
  PROVE  IsVal(Mine(v)) /\ Mine(v).of = v.of
BY DEF IsVal, Mine

LEMMA MaskMine ==
  ASSUME NEW v, DOMAIN v = {"of", "set", "by"}
  PROVE  DOMAIN Mine(v) = {"of", "set", "by"} /\ Mine(v).of = v.of
BY DEF Mine

\* The forms filled from the list belong to the row selected.
LEMMA FilledIsOwn ==
  ASSUME NEW t, NEW d, Laid(t, d)
  PROVE  StationInv(t, Filled(d)) /\ Filled(d).list = d.list /\ Filled(d).sel = d.sel
<1> DEFINE q == sync_kpz_editor_from_selected(d)
           e == sync_kpz_full_editor_from_selected(q)
<1>1. /\ DOMAIN q = DOMAIN d /\ q.sel = d.sel /\ q.list = d.list /\ q.full = d.full
      /\ q.groups = d.groups /\ q.quick = IF Listed(d) THEN d.list[d.sel].meta ELSE Blank
  BY DEF sync_kpz_editor_from_selected, Laid, DeskShape
<1>2. /\ DOMAIN e = DOMAIN d /\ e.sel = d.sel /\ e.list = d.list /\ e.quick = q.quick
      /\ e.groups = d.groups
      /\ e.full = IF Listed(d) THEN [meta |-> d.list[d.sel].meta, rest |-> d.list[d.sel].rest]
                  ELSE [meta |-> Blank, rest |-> Blank]
  BY <1>1 DEF sync_kpz_full_editor_from_selected, Laid, DeskShape, Listed
<1>3. IsVal(Blank)  BY ValShape DEF Blank
<1>4. Listed(d) => OwnRow(d.list[d.sel], d.sel)  BY DEF Laid, ListOK, OwnRows, Listed
<1>5. DeskShape(e)
  BY <1>1, <1>2, <1>3, <1>4 DEF DeskShape, Laid, OwnRow
<1>6. FormsOK(e)
  BY <1>1, <1>2, <1>4 DEF FormsOK, Listed, OwnRow
<1>7. Filled(d) = e  BY DEF Filled
<1> QED BY <1>2, <1>5, <1>6, <1>7 DEF StationInv, Laid, GroupsOK

\* A row replaced in the table and in the list alike.
LEMMA BothReplaced ==
  ASSUME NEW list, NEW t, NEW list2, NEW t2, ListOK(list, t),
         DOMAIN list2 = DOMAIN list, DOMAIN t2 = DOMAIN t,
         \A id \in DOMAIN t : t2[id] = t[id] \/ OwnRow(t2[id], id),
         \A id \in DOMAIN list : list2[id] = list[id] \/ OwnRow(list2[id], id),
         \A id \in DOMAIN list : Known(list2[id], t2[id])
  PROVE  ListOK(list2, t2)
BY DEF ListOK, OwnRows

\* The quick fields stored, in the table and in the list.
LEMMA QuickSaved ==
  ASSUME NEW t, NEW d, StationInv(t, d)
  PROVE  StationInv(QuickStored(t, d), QuickListed(d))
<1>1. CASE ~Unsaved(d)  BY <1>1 DEF QuickStored, QuickListed
<1>2. CASE Unsaved(d)
  <2> DEFINE l == d.list
             v == Mine(d.quick)
             t2 == QuickStored(t, d)
             l2 == QuickListed(d).list
  <2>1. /\ d.sel \in DOMAIN l /\ d.sel \in DOMAIN t
        /\ OwnRow(l[d.sel], d.sel) /\ OwnRow(t[d.sel], d.sel) /\ Known(l[d.sel], t[d.sel])
    BY <1>2 DEF Unsaved, Listed, StationInv, Laid, ListOK, OwnRows
  <2>2. IsVal(v) /\ v.of = d.sel
    BY <2>1, MineShape DEF StationInv, Laid, DeskShape, FormsOK, Listed
  <2>3. t2 = [t EXCEPT ![d.sel] = [t[d.sel] EXCEPT !.meta = v]]
    BY <1>2 DEF QuickStored
  <2>4. l2 = [l EXCEPT ![d.sel] = [l[d.sel] EXCEPT !.meta = v]]
    BY <1>2 DEF QuickListed, StationInv, Laid, DeskShape
  <2>5. /\ OwnRow([t[d.sel] EXCEPT !.meta = v], d.sel)
        /\ OwnRow([l[d.sel] EXCEPT !.meta = v], d.sel)
        /\ Known([l[d.sel] EXCEPT !.meta = v], [t[d.sel] EXCEPT !.meta = v])
    BY <2>1, <2>2 DEF OwnRow, Known
  <2> HIDE DEF v, t2, l2
  <2>6. ListOK(l, t)  BY DEF StationInv, Laid
  <2>7. ListOK(l2, t2)
    <3>1. \A id \in DOMAIN l : id \in DOMAIN t /\ Known(l[id], t[id])  BY <2>6 DEF ListOK
    <3>2. DOMAIN l2 = DOMAIN l /\ DOMAIN t2 = DOMAIN t  BY <2>3, <2>4
    <3>3. \A id \in DOMAIN t : t2[id] = t[id] \/ OwnRow(t2[id], id)  BY <2>3, <2>5
    <3>4. \A id \in DOMAIN l : l2[id] = l[id] \/ OwnRow(l2[id], id)  BY <2>4, <2>5
    <3>5. \A id \in DOMAIN l : Known(l2[id], t2[id])  BY <2>3, <2>4, <2>5, <3>1
    <3> QED BY <2>6, <3>2, <3>3, <3>4, <3>5, BothReplaced
  <2>8. /\ DOMAIN QuickListed(d) = DOMAIN d /\ QuickListed(d).list = l2
        /\ QuickListed(d).sel = d.sel /\ QuickListed(d).quick = d.quick
        /\ QuickListed(d).full = d.full /\ QuickListed(d).groups = d.groups
    BY <1>2 DEF QuickListed, StationInv, Laid, DeskShape, l2
  <2>9. DOMAIN l2 = DOMAIN l  BY <2>4
  <2> HIDE DEF l
  <2>10. d.list = l  BY DEF l
  <2> QED BY <2>7, <2>8, <2>9, <2>10
     DEF StationInv, Laid, DeskShape, FormsOK, GroupsOK, Listed, t2
<1> QED BY <1>1, <1>2

\* A step of the screen that leaves the list, the selection and the groups.
LEMMA Selected ==
  ASSUME NEW t, NEW d, NEW k \in DOMAIN d.list, StationInv(t, d), ~d.groups.open
  PROVE  StationInv(t, Filled([d EXCEPT !.sel = k]))
<1> DEFINE e == [d EXCEPT !.sel = k]
<1>1. /\ DOMAIN e = DOMAIN d /\ e.sel = k /\ e.list = d.list /\ e.quick = d.quick
      /\ e.full = d.full /\ e.groups = d.groups
  BY DEF StationInv, Laid, DeskShape
<1>2. k # 0  BY DEF StationInv, Laid, ListOK
<1> HIDE DEF e
<1>3. Laid(t, e)  BY <1>1, <1>2 DEF StationInv, Laid, DeskShape, GroupsOK
<1> QED BY <1>3, FilledIsOwn DEF e

LEMMA SelectRowKeeps ==
  ASSUME StationInv(kpz, desk), "regroup" \notin Habits, NEW k, SelectRow(k)
  PROVE  StationInv(kpz', desk')
<1>1. k \in DOMAIN desk.list /\ ~desk.groups.open  BY DEF SelectRow
<1>2. \/ kpz' = kpz /\ desk' = desk
      \/ /\ kpz' = QuickStored(kpz, desk)
         /\ desk' = Filled([QuickListed(desk) EXCEPT !.sel = k])
  BY DEF SelectRow
<1>3. StationInv(QuickStored(kpz, desk), QuickListed(desk))  BY QuickSaved
<1>4. QuickListed(desk).groups = desk.groups /\ DOMAIN QuickListed(desk).list = DOMAIN desk.list
  BY DEF QuickListed, StationInv, Laid, DeskShape
<1>5. StationInv(QuickStored(kpz, desk), Filled([QuickListed(desk) EXCEPT !.sel = k]))
  BY <1>1, <1>3, <1>4, Selected
<1> QED BY <1>2, <1>5

LEMMA SaveQuickKeeps ==
  ASSUME StationInv(kpz, desk), SaveQuick
  PROVE  StationInv(kpz', desk')
BY QuickSaved DEF SaveQuick

LEMMA TypeQuickKeeps ==
  ASSUME StationInv(kpz, desk), TypeQuick
  PROVE  StationInv(kpz', desk')
<1>1. kpz' = kpz /\ desk' = [desk EXCEPT !.quick = Edited(desk.quick)]
  BY DEF TypeQuick, Screen
<1>2. IsVal(Edited(desk.quick)) /\ Edited(desk.quick).of = desk.quick.of
  BY DEF Edited, IsVal, StationInv, Laid, DeskShape
<1>3. /\ DOMAIN desk' = DOMAIN desk /\ desk'.sel = desk.sel /\ desk'.list = desk.list
      /\ desk'.full = desk.full /\ desk'.groups = desk.groups
      /\ desk'.quick = Edited(desk.quick)
  BY <1>1 DEF StationInv, Laid, DeskShape
<1> QED BY <1>1, <1>2, <1>3 DEF StationInv, Laid, DeskShape, FormsOK, GroupsOK, Listed

LEMMA TypeFullKeeps ==
  ASSUME StationInv(kpz, desk), TypeFull
  PROVE  StationInv(kpz', desk')
<1>1. PICK f \in {"meta", "rest"} : Screen([desk EXCEPT !.full[f] = Edited(@)])  BY DEF TypeFull
<1>2. kpz' = kpz /\ desk' = [desk EXCEPT !.full = [desk.full EXCEPT ![f] = Edited(desk.full[f])]]
  BY <1>1 DEF Screen
<1>3. IsVal(Edited(desk.full[f])) /\ Edited(desk.full[f]).of = desk.full[f].of
  BY DEF Edited, IsVal, StationInv, Laid, DeskShape
<1>4. /\ DOMAIN desk' = DOMAIN desk /\ desk'.sel = desk.sel /\ desk'.list = desk.list
      /\ desk'.quick = desk.quick /\ desk'.groups = desk.groups
      /\ desk'.full = [desk.full EXCEPT ![f] = Edited(desk.full[f])]
  BY <1>2 DEF StationInv, Laid, DeskShape
<1>5. /\ DOMAIN desk'.full = {"meta", "rest"}
      /\ desk'.full.meta = IF f = "meta" THEN Edited(desk.full[f]) ELSE desk.full.meta
      /\ desk'.full.rest = IF f = "rest" THEN Edited(desk.full[f]) ELSE desk.full.rest
  BY <1>4 DEF StationInv, Laid, DeskShape
<1> QED BY <1>2, <1>3, <1>4, <1>5 DEF StationInv, Laid, DeskShape, FormsOK, GroupsOK, Listed

LEMMA OpenFullKeeps ==
  ASSUME StationInv(kpz, desk), OpenFull
  PROVE  StationInv(kpz', desk')
<1> DEFINE e == sync_kpz_full_editor_from_selected(desk)
<1>1. kpz' = kpz /\ desk' = e  BY DEF OpenFull, Screen
<1>2. /\ DOMAIN e = DOMAIN desk /\ e.sel = desk.sel /\ e.list = desk.list
      /\ e.quick = desk.quick /\ e.groups = desk.groups
      /\ e.full = IF Listed(desk) THEN [meta |-> desk.list[desk.sel].meta, rest |-> desk.list[desk.sel].rest]
                  ELSE [meta |-> Blank, rest |-> Blank]
  BY DEF sync_kpz_full_editor_from_selected, StationInv, Laid, DeskShape
<1> HIDE DEF e
<1>3. IsVal(Blank)  BY ValShape DEF Blank
<1>4. Listed(desk) => OwnRow(desk.list[desk.sel], desk.sel)
  BY DEF StationInv, Laid, ListOK, OwnRows, Listed
<1>5. DeskShape(e)  BY <1>2, <1>3, <1>4 DEF DeskShape, StationInv, Laid, OwnRow
<1>6. FormsOK(e)  BY <1>2, <1>4 DEF FormsOK, StationInv, Listed, OwnRow
<1> QED BY <1>1, <1>2, <1>5, <1>6 DEF StationInv, Laid, GroupsOK

\* One row replaced in the table and in the list.
LEMMA OneReplaced ==
  ASSUME NEW list, NEW t, ListOK(list, t), NEW id \in DOMAIN list, NEW r, NEW s,
         OwnRow(r, id), OwnRow(s, id), Known(r, s)
  PROVE  ListOK([list EXCEPT ![id] = r], [t EXCEPT ![id] = s])
<1> DEFINE l2 == [list EXCEPT ![id] = r]
           t2 == [t EXCEPT ![id] = s]
<1>1. \A i \in DOMAIN list : i \in DOMAIN t /\ Known(list[i], t[i])  BY DEF ListOK
<1>2. DOMAIN l2 = DOMAIN list /\ DOMAIN t2 = DOMAIN t  OBVIOUS
<1>3. \A i \in DOMAIN t : t2[i] = IF i = id THEN s ELSE t[i]  OBVIOUS
<1>4. \A i \in DOMAIN list : l2[i] = IF i = id THEN r ELSE list[i]  OBVIOUS
<1> HIDE DEF l2, t2
<1>5. \A i \in DOMAIN list : Known(l2[i], t2[i])  BY <1>1, <1>3, <1>4
<1>6. ListOK(l2, t2)  BY <1>2, <1>3, <1>4, <1>5, BothReplaced
<1> QED BY <1>6 DEF l2, t2

\* The forms as they were, over a list of the same rows.
LEMMA FormsAsTheyWere ==
  ASSUME NEW t, NEW d, StationInv(t, d), NEW t2, NEW d2,
         ListOK(d2.list, t2), DOMAIN d2.list = DOMAIN d.list, DOMAIN d2 = DOMAIN d,
         d2.sel = d.sel, d2.quick = d.quick, d2.full = d.full, d2.groups = d.groups
  PROVE  StationInv(t2, d2)
BY DEF StationInv, Laid, DeskShape, FormsOK, GroupsOK, Listed

LEMMA SaveFullKeeps ==
  ASSUME StationInv(kpz, desk), SaveFull
  PROVE  StationInv(kpz', desk')
<1> DEFINE d == desk
           l == desk.list
           m == Mine(desk.full.meta)
           r == Mine(desk.full.rest)
           New(row) == [[row EXCEPT !.meta = m] EXCEPT !.rest = r]
<1>1. /\ d.sel \in DOMAIN l
      /\ \/ kpz' = kpz /\ desk' = desk
         \/ /\ kpz' = FullStored(kpz, d)
            /\ desk' = [[d EXCEPT !.list = FullStored(l, d)] EXCEPT !.quick = d.full.meta]
  BY DEF SaveFull, Dirty, Listed, StationInv, Laid, DeskShape
<1>2. CASE kpz' = kpz /\ desk' = desk  BY <1>2
<1>3. CASE /\ kpz' = FullStored(kpz, d)
           /\ desk' = [[d EXCEPT !.list = FullStored(l, d)] EXCEPT !.quick = d.full.meta]
  <2>1. ListOK(l, kpz)  BY DEF StationInv, Laid
  <2>2. /\ d.sel \in DOMAIN kpz /\ OwnRow(l[d.sel], d.sel) /\ OwnRow(kpz[d.sel], d.sel)
        /\ Known(l[d.sel], kpz[d.sel])
    BY <1>1, <2>1 DEF ListOK, OwnRows
  <2>3. IsVal(m) /\ m.of = d.sel /\ IsVal(r) /\ r.of = d.sel
    BY <1>1, MineShape DEF StationInv, Laid, DeskShape, FormsOK, Listed
  <2> HIDE DEF m, r
  <2>4. OwnRow(New(kpz[d.sel]), d.sel) /\ OwnRow(New(l[d.sel]), d.sel)
    BY <2>2, <2>3 DEF OwnRow
  <2>5. Known(New(l[d.sel]), New(kpz[d.sel]))
    BY <2>2 DEF Known, OwnRow
  <2>6. \A t : d.sel \in DOMAIN t => FullStored(t, d) = [t EXCEPT ![d.sel] = New(t[d.sel])]
    BY DEF FullStored, m, r
  <2>7. /\ FullStored(kpz, d) = [kpz EXCEPT ![d.sel] = New(kpz[d.sel])]
        /\ FullStored(l, d) = [l EXCEPT ![d.sel] = New(l[d.sel])]
    BY <1>1, <2>2, <2>6
  <2> HIDE DEF New
  <2>8. ListOK(FullStored(l, d), FullStored(kpz, d))
    <3> DEFINE a == New(l[d.sel])
               b == New(kpz[d.sel])
    <3>1. OwnRow(a, d.sel) /\ OwnRow(b, d.sel) /\ Known(a, b)  BY <2>4, <2>5
    <3>2. FullStored(kpz, d) = [kpz EXCEPT ![d.sel] = b] /\ FullStored(l, d) = [l EXCEPT ![d.sel] = a]
      BY <2>7
    <3> HIDE DEF a, b
    <3>3. ListOK([l EXCEPT ![d.sel] = a], [kpz EXCEPT ![d.sel] = b])
      BY <1>1, <2>1, <3>1, OneReplaced
    <3> QED BY <3>2, <3>3
  <2>9. DOMAIN FullStored(l, d) = DOMAIN l  BY <2>7
  <2>10. /\ DOMAIN desk' = DOMAIN d /\ desk'.list = FullStored(l, d) /\ desk'.sel = d.sel
         /\ desk'.quick = d.full.meta /\ desk'.full = d.full /\ desk'.groups = d.groups
    BY <1>3 DEF StationInv, Laid, DeskShape
  <2> QED BY <1>1, <1>3, <2>8, <2>9, <2>10 DEF StationInv, Laid, DeskShape, FormsOK, GroupsOK, Listed
<1> QED BY <1>1, <1>2, <1>3

\* A point made is not in the list: its forms are empty.
LEMMA CreateRowKeeps ==
  ASSUME StationInv(kpz, desk), "regroup" \notin Habits, NEW id \in KpzIds, CreateRow(id)
  PROVE  StationInv(kpz', desk')
<1> DEFINE d == [desk EXCEPT !.sel = id]
<1>1. id \notin DOMAIN kpz /\ ~desk.groups.open /\ kpz' = With(kpz, id, NewRow(id)) /\ desk' = Filled(d)
  BY DEF CreateRow
<1>2. id # 0 /\ id \in Nat  BY StationIds
<1>3. /\ DOMAIN kpz' = DOMAIN kpz \cup {id} /\ kpz'[id] = NewRow(id)
      /\ \A i \in DOMAIN kpz : kpz'[i] = kpz[i]
  BY <1>1 DEF With
<1>4. /\ DOMAIN d = DOMAIN desk /\ d.sel = id /\ d.list = desk.list /\ d.quick = desk.quick
      /\ d.full = desk.full /\ d.groups = desk.groups
  BY DEF StationInv, Laid, DeskShape
<1> HIDE DEF d
<1>5. OwnRows(kpz')
  <2> SUFFICES ASSUME NEW i \in DOMAIN kpz' PROVE OwnRow(kpz'[i], i)  BY DEF OwnRows
  <2>1. CASE i = id  BY <1>3, <2>1, NewRowOwn
  <2>2. CASE i # id  BY <1>3, <2>2 DEF StationInv, Laid, ListOK, OwnRows
  <2> QED BY <2>1, <2>2
<1>6. ListOK(desk.list, kpz')
  <2>1. \A i \in DOMAIN desk.list : i \in DOMAIN kpz /\ Known(desk.list[i], kpz[i])
    BY DEF StationInv, Laid, ListOK
  <2>2. OwnRows(desk.list) /\ DOMAIN kpz \subseteq Nat \ {0}  BY DEF StationInv, Laid, ListOK
  <2>3. \A i \in DOMAIN desk.list : Known(desk.list[i], kpz'[i])  BY <1>3, <2>1
  <2>4. DOMAIN kpz' \subseteq Nat \ {0}  BY <1>2, <1>3, <2>2
  <2>5. DOMAIN desk.list \subseteq DOMAIN kpz'  BY <1>3, <2>1
  <2> QED BY <1>5, <2>2, <2>3, <2>4, <2>5 DEF ListOK
<1>7. Laid(kpz', d)
  BY <1>1, <1>2, <1>4, <1>6 DEF StationInv, Laid, DeskShape, GroupsOK
<1> QED BY <1>1, <1>7, FilledIsOwn

\* The list read again.
LEMMA ReloadIsOwn ==
  ASSUME NEW t, NEW d, DeskShape(d), GroupsOK(d), OwnRows(t), DOMAIN t \subseteq Nat \ {0}
  PROVE  StationInv(t, reload_all(d, t))
<1> DEFINE e == [d EXCEPT !.list = t, !.sel = IF @ = 0 THEN Min(DOMAIN t) ELSE @]
<1>1. /\ DOMAIN e = DOMAIN d /\ e.sel = d.sel /\ e.list = t /\ e.quick = d.quick
      /\ e.full = d.full /\ e.groups = d.groups
  BY DEF DeskShape
<1>2. reload_all(d, t) = Filled(e)  BY DEF reload_all
<1> HIDE DEF e
<1>3. ListOK(t, t)  BY DEF ListOK, Known
<1>4. Laid(t, e)  BY <1>1, <1>3 DEF Laid, DeskShape, GroupsOK
<1> QED BY <1>2, <1>4, FilledIsOwn

LEMMA ReloadAllKeeps ==
  ASSUME StationInv(kpz, desk), ReloadAll
  PROVE  StationInv(kpz', desk')
<1>1. StationInv(kpz, reload_all(desk, kpz))
  BY ReloadIsOwn DEF StationInv, Laid, ListOK
<1> QED BY <1>1 DEF ReloadAll

LEMMA OpenGroupsKeeps ==
  ASSUME StationInv(kpz, desk), OpenGroups
  PROVE  StationInv(kpz', desk')
<1> DEFINE g == [open |-> TRUE, dirty |-> FALSE, mask |-> selected_enabled_groups(desk)]
<1>1. kpz' = kpz /\ desk' = [desk EXCEPT !.groups = g]  BY DEF OpenGroups, Screen
<1>2. Listed(desk) => OwnRow(desk.list[desk.sel], desk.sel)
  BY DEF StationInv, Laid, ListOK, OwnRows, Listed
<1>3. DOMAIN g.mask = {"of", "set", "by"} /\ g.mask.of = desk.sel
  BY <1>2 DEF selected_enabled_groups, Mask, OwnRow
<1>4. DOMAIN g = {"open", "dirty", "mask"}  OBVIOUS
<1> HIDE DEF g
<1>5. /\ DOMAIN desk' = DOMAIN desk /\ desk'.sel = desk.sel /\ desk'.list = desk.list
      /\ desk'.quick = desk.quick /\ desk'.full = desk.full /\ desk'.groups = g
  BY <1>1 DEF StationInv, Laid, DeskShape
<1> QED BY <1>1, <1>3, <1>4, <1>5 DEF StationInv, Laid, DeskShape, FormsOK, GroupsOK, Listed

LEMMA MarkGroupsKeeps ==
  ASSUME StationInv(kpz, desk), MarkGroups
  PROVE  StationInv(kpz', desk')
<1> DEFINE D == {"of", "set", "by"}
<1>1. PICK m : /\ DOMAIN m = D /\ m.of = desk.sel /\ kpz' = kpz
               /\ desk' = [desk EXCEPT !.groups = [[desk.groups EXCEPT !.mask = m] EXCEPT !.dirty = TRUE]]
  <2>1. CASE \E g \in Grups :
                Screen([desk EXCEPT !.groups.mask.set = SymDiff(@, {g}), !.groups.dirty = TRUE])
    <3>1. PICK g \in Grups :
              Screen([desk EXCEPT !.groups.mask.set = SymDiff(@, {g}), !.groups.dirty = TRUE])
      BY <2>1
    <3> DEFINE m == [desk.groups.mask EXCEPT !.set = SymDiff(desk.groups.mask.set, {g})]
    <3>2. kpz' = kpz
          /\ desk' = [desk EXCEPT !.groups = [[desk.groups EXCEPT !.mask = m] EXCEPT !.dirty = TRUE]]
      BY <3>1 DEF Screen, StationInv, Laid, DeskShape
    <3>3. DOMAIN m = D /\ m.of = desk.groups.mask.of  BY DEF StationInv, Laid, DeskShape
    <3>4. m.of = desk.sel  BY <3>3 DEF MarkGroups, StationInv, Laid, GroupsOK
    <3> QED BY <3>2, <3>3, <3>4
  <2>2. CASE \E s \in {Grups, {}} :
                Screen([desk EXCEPT !.groups.mask = Mask(desk.sel, s), !.groups.dirty = TRUE])
    <3>1. PICK s : Screen([desk EXCEPT !.groups.mask = Mask(desk.sel, s), !.groups.dirty = TRUE])
      BY <2>2
    <3> DEFINE m == Mask(desk.sel, s)
    <3>2. kpz' = kpz
          /\ desk' = [desk EXCEPT !.groups = [[desk.groups EXCEPT !.mask = m] EXCEPT !.dirty = TRUE]]
      BY <3>1 DEF Screen, StationInv, Laid, DeskShape
    <3>3. DOMAIN m = D /\ m.of = desk.sel  BY DEF Mask
    <3> QED BY <3>2, <3>3
  <2> QED BY <2>1, <2>2 DEF MarkGroups
<1> DEFINE g == [[desk.groups EXCEPT !.mask = m] EXCEPT !.dirty = TRUE]
<1>2. DOMAIN g = {"open", "dirty", "mask"} /\ g.mask = m  BY DEF StationInv, Laid, DeskShape
<1> HIDE DEF g
<1>3. /\ DOMAIN desk' = DOMAIN desk /\ desk'.sel = desk.sel /\ desk'.list = desk.list
      /\ desk'.quick = desk.quick /\ desk'.full = desk.full /\ desk'.groups = g
  BY <1>1 DEF StationInv, Laid, DeskShape, g
<1> QED BY <1>1, <1>2, <1>3 DEF StationInv, Laid, DeskShape, FormsOK, GroupsOK, Listed

LEMMA CloseGroupsKeeps ==
  ASSUME StationInv(kpz, desk), CloseGroups
  PROVE  StationInv(kpz', desk')
<1> DEFINE g == [desk.groups EXCEPT !.open = FALSE]
<1>1. kpz' = kpz /\ desk' = [desk EXCEPT !.groups = g]  BY DEF CloseGroups, Screen
<1>2. DOMAIN g = {"open", "dirty", "mask"} /\ ~g.open /\ g.mask = desk.groups.mask
  BY DEF StationInv, Laid, DeskShape
<1> HIDE DEF g
<1>3. /\ DOMAIN desk' = DOMAIN desk /\ desk'.sel = desk.sel /\ desk'.list = desk.list
      /\ desk'.quick = desk.quick /\ desk'.full = desk.full /\ desk'.groups = g
  BY <1>1 DEF StationInv, Laid, DeskShape
<1> QED BY <1>1, <1>2, <1>3 DEF StationInv, Laid, DeskShape, FormsOK, GroupsOK, Listed

LEMMA SaveGroupsKeeps ==
  ASSUME StationInv(kpz, desk), SaveGroups
  PROVE  StationInv(kpz', desk')
<1> DEFINE l == desk.list
           s == desk.sel
           m == Mine(desk.groups.mask)
           g == [desk.groups EXCEPT !.dirty = FALSE]
           l2 == IF Listed(desk) THEN update_kpz_grups(l, s, m) ELSE l
           t2 == update_kpz_grups(kpz, s, m)
<1>1. \/ kpz' = kpz /\ desk' = desk
      \/ kpz' = t2 /\ desk' = [[desk EXCEPT !.groups = g] EXCEPT !.list = l2]
  BY DEF SaveGroups, StationInv, Laid, DeskShape
<1>2. desk.groups.open  BY DEF SaveGroups
<1>3. DOMAIN m = {"of", "set", "by"} /\ m.of = s
  BY <1>2, MaskMine DEF StationInv, Laid, DeskShape, GroupsOK
<1> HIDE DEF m
<1>4. ListOK(l, kpz)  BY DEF StationInv, Laid
<1>5. ListOK(l2, t2)
  <2>1. CASE Listed(desk)
    <3> DEFINE a == [l[s] EXCEPT !.mask = m]
               b == [kpz[s] EXCEPT !.mask = m]
    <3>1. s \in DOMAIN l /\ s \in DOMAIN kpz  BY <1>4, <2>1 DEF Listed, ListOK
    <3>2. l2 = [l EXCEPT ![s] = a] /\ t2 = [kpz EXCEPT ![s] = b]
      BY <2>1, <3>1 DEF update_kpz_grups
    <3>3. OwnRow(l[s], s) /\ OwnRow(kpz[s], s) /\ Known(l[s], kpz[s])
      BY <1>4, <3>1 DEF ListOK, OwnRows
    <3>4. OwnRow(a, s) /\ OwnRow(b, s) /\ Known(a, b)  BY <1>3, <3>3 DEF OwnRow, Known
    <3> HIDE DEF a, b, l2, t2
    <3>5. ListOK([l EXCEPT ![s] = a], [kpz EXCEPT ![s] = b])  BY <1>4, <3>1, <3>4, OneReplaced
    <3> QED BY <3>2, <3>5
  <2>2. CASE ~Listed(desk)
    <3>1. l2 = l /\ s \notin DOMAIN l  BY <2>2 DEF Listed
    <3>2. /\ DOMAIN t2 = DOMAIN kpz
          /\ \A id \in DOMAIN kpz : t2[id] = IF id = s THEN [kpz[s] EXCEPT !.mask = m] ELSE kpz[id]
      BY DEF update_kpz_grups
    <3>3. s \in DOMAIN kpz => OwnRow([kpz[s] EXCEPT !.mask = m], s)
      BY <1>3, <1>4 DEF ListOK, OwnRows, OwnRow
    <3>4. \A id \in DOMAIN l : id \in DOMAIN kpz /\ Known(l[id], kpz[id])  BY <1>4 DEF ListOK
    <3> HIDE DEF l2, t2
    <3>5. \A id \in DOMAIN kpz : t2[id] = kpz[id] \/ OwnRow(t2[id], id)  BY <3>2, <3>3
    <3>6. \A id \in DOMAIN l : Known(l[id], t2[id])  BY <3>1, <3>2, <3>4
    <3> QED BY <1>4, <3>1, <3>2, <3>5, <3>6, BothReplaced
  <2> QED BY <2>1, <2>2
<1>6. DOMAIN l2 = DOMAIN l  BY DEF update_kpz_grups
<1>7. DOMAIN g = {"open", "dirty", "mask"} /\ g.open = desk.groups.open /\ g.mask = desk.groups.mask
  BY DEF StationInv, Laid, DeskShape
<1> HIDE DEF g, l2, t2
<1>8. CASE kpz' = t2 /\ desk' = [[desk EXCEPT !.groups = g] EXCEPT !.list = l2]
  <2>1. /\ DOMAIN desk' = DOMAIN desk /\ desk'.sel = desk.sel /\ desk'.list = l2
        /\ desk'.quick = desk.quick /\ desk'.full = desk.full /\ desk'.groups = g
    BY <1>8 DEF StationInv, Laid, DeskShape
  <2> QED BY <1>5, <1>6, <1>7, <1>8, <2>1 DEF StationInv, Laid, DeskShape, FormsOK, GroupsOK, Listed
<1> QED BY <1>1, <1>8

-----------------------------------------------------------------------------
(* The window for ranges.                                                  *)

\* Rows marked as not read again.
Unread(t, ids) ==
  [id \in DOMAIN t |-> IF id \in ids THEN [t[id] EXCEPT !.meta.by = "unread", !.rest.by = "unread"]
                       ELSE t[id]]

LEMMA UnreadRow ==
  ASSUME NEW t, NEW ids, NEW id \in DOMAIN t, OwnRow(t[id], id)
  PROVE  /\ OwnRow(Unread(t, ids)[id], id) /\ Unread(t, ids)[id].mask = t[id].mask
         /\ id \in ids => Unread(t, ids)[id].meta.by = "unread" /\ Unread(t, ids)[id].rest.by = "unread"
         /\ id \notin ids => Unread(t, ids)[id] = t[id]
<1> DEFINE m == [t[id].meta EXCEPT !.by = "unread"]
           r == [t[id].rest EXCEPT !.by = "unread"]
           row == [[t[id] EXCEPT !.meta = m] EXCEPT !.rest = r]
<1>1. Unread(t, ids)[id] = IF id \in ids THEN row ELSE t[id]
  <2>1. Unread(t, ids)[id] = IF id \in ids THEN [t[id] EXCEPT !.meta.by = "unread", !.rest.by = "unread"]
                             ELSE t[id]
    BY DEF Unread
  <2>2. [t[id] EXCEPT !.meta.by = "unread", !.rest.by = "unread"] = row  BY DEF OwnRow
  <2> QED BY <2>1, <2>2
<1>2. IsVal(m) /\ m.of = t[id].meta.of /\ m.by = "unread"  BY DEF OwnRow, IsVal
<1>3. IsVal(r) /\ r.of = t[id].rest.of /\ r.by = "unread"  BY DEF OwnRow, IsVal
<1> HIDE DEF m, r
<1>4. /\ DOMAIN row = {"meta", "rest", "mask"} /\ row.meta = m /\ row.rest = r /\ row.mask = t[id].mask
  BY DEF OwnRow
<1> HIDE DEF row
<1> QED BY <1>1, <1>2, <1>3, <1>4 DEF OwnRow

LEMMA ThenReloadKeeps ==
  ASSUME StationInv(kpz, desk), NEW ids, NEW t, ThenReload(ids, t), OwnRows(t),
         DOMAIN t \subseteq Nat \ {0}, DOMAIN kpz \subseteq DOMAIN t,
         \A id \in DOMAIN kpz : t[id] = kpz[id] \/ (id \in ids /\ t[id].mask = kpz[id].mask)
  PROVE  StationInv(kpz', desk')
<1> DEFINE t2 == Unread(t, ids)
<1>1. \/ kpz' = t /\ desk' = reload_all(desk, t)
      \/ kpz' = t2 /\ desk' = desk
  BY DEF ThenReload, Unread
<1>2. CASE kpz' = t /\ desk' = reload_all(desk, t)
  BY <1>2, ReloadIsOwn DEF StationInv, Laid
<1>3. CASE kpz' = t2 /\ desk' = desk
  <2>1. \A id \in DOMAIN t :
           /\ OwnRow(t2[id], id) /\ t2[id].mask = t[id].mask
           /\ id \in ids => t2[id].meta.by = "unread" /\ t2[id].rest.by = "unread"
           /\ id \notin ids => t2[id] = t[id]
    BY UnreadRow DEF OwnRows
  <2>2. DOMAIN t2 = DOMAIN t  BY DEF Unread
  <2> HIDE DEF t2
  <2>3. ListOK(desk.list, kpz)  BY DEF StationInv, Laid
  <2>4. \A id \in DOMAIN desk.list : Known(desk.list[id], t2[id])
    <3> SUFFICES ASSUME NEW id \in DOMAIN desk.list PROVE Known(desk.list[id], t2[id])  OBVIOUS
    <3>1. id \in DOMAIN kpz /\ id \in DOMAIN t /\ Known(desk.list[id], kpz[id])  BY <2>3 DEF ListOK
    <3>2. CASE id \in ids  BY <2>1, <3>1, <3>2 DEF Known
    <3>3. CASE id \notin ids
      <4>1. t2[id] = kpz[id]  BY <2>1, <3>1, <3>3
      <4> QED BY <3>1, <4>1
    <3> QED BY <3>2, <3>3
  <2>5. ListOK(desk.list, t2)  BY <2>1, <2>2, <2>3, <2>4 DEF ListOK, OwnRows
  <2> QED BY <1>3, <2>5, FormsAsTheyWere
<1> QED BY <1>1, <1>2, <1>3

LEMMA CreateRangeKeeps ==
  ASSUME StationInv(kpz, desk), NEW ids \in Ranges, create_or_update_range_kpz(ids)
  PROVE  StationInv(kpz', desk')
<1> DEFINE t == upsert_test_kpz_range(kpz, ids)
<1>1. ThenReload(ids, t)  BY DEF create_or_update_range_kpz
<1>2. /\ DOMAIN t = DOMAIN kpz \cup ids
      /\ \A id \in DOMAIN t : t[id] = IF id \notin DOMAIN kpz THEN NewRow(id)
                                      ELSE IF id \in ids THEN [kpz[id] EXCEPT !.rest = Fresh(id)]
                                      ELSE kpz[id]
  BY DEF upsert_test_kpz_range
<1>3. ids \subseteq Nat \ {0}  BY StationIds DEF Ranges
<1>4. OwnRows(kpz) /\ DOMAIN kpz \subseteq Nat \ {0}  BY DEF StationInv, Laid, ListOK
<1>5. \A id \in DOMAIN kpz : /\ OwnRow([kpz[id] EXCEPT !.rest = Fresh(id)], id)
                             /\ [kpz[id] EXCEPT !.rest = Fresh(id)].mask = kpz[id].mask
  BY <1>4 DEF OwnRows, OwnRow, Fresh, Val, IsVal
<1> HIDE DEF t
<1>6. OwnRows(t)
  <2> SUFFICES ASSUME NEW id \in DOMAIN t PROVE OwnRow(t[id], id)  BY DEF OwnRows
  <2>1. CASE id \notin DOMAIN kpz  BY <1>2, <2>1, NewRowOwn
  <2>2. CASE id \in DOMAIN kpz  BY <1>2, <1>4, <1>5, <2>2 DEF OwnRows
  <2> QED BY <2>1, <2>2
<1>7. \A id \in DOMAIN kpz : t[id] = kpz[id] \/ (id \in ids /\ t[id].mask = kpz[id].mask)
  BY <1>2, <1>5
<1> QED BY <1>1, <1>2, <1>3, <1>4, <1>6, <1>7, ThenReloadKeeps

LEMMA ApplyMetaKeeps ==
  ASSUME StationInv(kpz, desk), NEW ids, ApplyMeta(ids)
  PROVE  StationInv(kpz', desk')
<1> DEFINE t == set_kpz_timing_range(kpz, ids)
<1>1. ThenReload(ids, t)  BY DEF ApplyMeta
<1>2. /\ DOMAIN t = DOMAIN kpz
      /\ \A id \in DOMAIN t : t[id] = IF id \in ids THEN [kpz[id] EXCEPT !.meta = Fresh(id)] ELSE kpz[id]
  BY DEF set_kpz_timing_range
<1>3. OwnRows(kpz) /\ DOMAIN kpz \subseteq Nat \ {0}  BY DEF StationInv, Laid, ListOK
<1>4. \A id \in DOMAIN kpz : /\ OwnRow([kpz[id] EXCEPT !.meta = Fresh(id)], id)
                             /\ [kpz[id] EXCEPT !.meta = Fresh(id)].mask = kpz[id].mask
  BY <1>3 DEF OwnRows, OwnRow, Fresh, Val, IsVal
<1> HIDE DEF t
<1>5. OwnRows(t)  BY <1>2, <1>3, <1>4 DEF OwnRows
<1>6. \A id \in DOMAIN kpz : t[id] = kpz[id] \/ (id \in ids /\ t[id].mask = kpz[id].mask)
  BY <1>2, <1>4
<1> QED BY <1>1, <1>2, <1>3, <1>5, <1>6, ThenReloadKeeps

LEMMA MaskWritten ==
  ASSUME NEW id, NEW r, NEW s, NEW m, OwnRow(r, id), OwnRow(s, id), Known(r, s),
         DOMAIN m = {"of", "set", "by"}, m.of = id
  PROVE  /\ OwnRow([r EXCEPT !.mask = m], id) /\ OwnRow([s EXCEPT !.mask = m], id)
         /\ Known([r EXCEPT !.mask = m], [s EXCEPT !.mask = m])
         /\ m.by # "me" => Known(r, [s EXCEPT !.mask = m])
BY DEF OwnRow, Known

\* Masks of the rows of a range, each computed from the row's own in the list.
LEMMA ApplyGroupsKeeps ==
  ASSUME StationInv(kpz, desk), NEW ids, NEW s, NEW on, ApplyGroups(ids, s, on)
  PROVE  StationInv(kpz', desk')
<1> DEFINE new == GroupUpdates(desk, ids, s, on)
           l == desk.list
           Put(t, some) == [id \in DOMAIN t |-> IF id \in some THEN [t[id] EXCEPT !.mask = new[id]]
                                                ELSE t[id]]
           Part(done) == [id \in DOMAIN kpz |->
                            IF id \in done THEN [kpz[id] EXCEPT !.mask = [new[id] EXCEPT !.by = "unread"]]
                            ELSE kpz[id]]
<1>1. ListOK(l, kpz)  BY DEF StationInv, Laid
<1>2. /\ DOMAIN new \subseteq DOMAIN l
      /\ \A id \in DOMAIN new : new[id] = Shifted(l[id].mask, s, on)
  BY DEF GroupUpdates
<1>3. \A id \in DOMAIN new : DOMAIN new[id] = {"of", "set", "by"} /\ new[id].of = id
  <2> SUFFICES ASSUME NEW id \in DOMAIN new
               PROVE  DOMAIN new[id] = {"of", "set", "by"} /\ new[id].of = id
    OBVIOUS
  <2>1. DOMAIN l[id].mask = {"of", "set", "by"} /\ l[id].mask.of = id
    BY <1>1, <1>2 DEF ListOK, OwnRows, OwnRow
  <2>2. new[id] = Shifted(l[id].mask, s, on)  BY <1>2
  <2> HIDE DEF new
  <2> QED BY <2>1, <2>2 DEF Shifted
<1>4. \/ kpz' = Put(kpz, DOMAIN new) /\ desk' = [desk EXCEPT !.list = Put(l, DOMAIN new)]
      \/ \E done : kpz' = Part(done) /\ done \subseteq DOMAIN new /\ desk' = desk
  BY DEF ApplyGroups, StationInv, Laid, DeskShape
<1> HIDE DEF new
<1>5. \A id \in DOMAIN l : /\ id \in DOMAIN kpz /\ OwnRow(l[id], id) /\ OwnRow(kpz[id], id)
                           /\ Known(l[id], kpz[id])
  BY <1>1 DEF ListOK, OwnRows
<1>6. CASE kpz' = Put(kpz, DOMAIN new) /\ desk' = [desk EXCEPT !.list = Put(l, DOMAIN new)]
  <2> DEFINE l2 == Put(l, DOMAIN new)
             t2 == Put(kpz, DOMAIN new)
  <2>1. \A id \in DOMAIN new :
           /\ l2[id] = [l[id] EXCEPT !.mask = new[id]] /\ t2[id] = [kpz[id] EXCEPT !.mask = new[id]]
    BY <1>2, <1>5
  <2>2. DOMAIN l2 = DOMAIN l /\ DOMAIN t2 = DOMAIN kpz  OBVIOUS
  <2>3. /\ \A id \in DOMAIN l \ DOMAIN new : l2[id] = l[id]
        /\ \A id \in DOMAIN kpz \ DOMAIN new : t2[id] = kpz[id]
    OBVIOUS
  <2> HIDE DEF l2, t2
  <2>4. \A id \in DOMAIN new : OwnRow(l2[id], id) /\ OwnRow(t2[id], id) /\ Known(l2[id], t2[id])
    <3> SUFFICES ASSUME NEW id \in DOMAIN new
                 PROVE  OwnRow(l2[id], id) /\ OwnRow(t2[id], id) /\ Known(l2[id], t2[id])
      OBVIOUS
    <3> DEFINE a == l[id]
               b == kpz[id]
               m == new[id]
    <3>1. l2[id] = [a EXCEPT !.mask = m] /\ t2[id] = [b EXCEPT !.mask = m]  BY <2>1
    <3>2. DOMAIN m = {"of", "set", "by"} /\ m.of = id  BY <1>3
    <3>3. OwnRow(a, id) /\ OwnRow(b, id) /\ Known(a, b)  BY <1>2, <1>5
    <3> HIDE DEF a, b, m
    <3> QED BY <3>1, <3>2, <3>3, MaskWritten
  <2>5. \A id \in DOMAIN l : Known(l2[id], t2[id])  BY <1>5, <2>3, <2>4
  <2>6. \A id \in DOMAIN kpz : t2[id] = kpz[id] \/ OwnRow(t2[id], id)  BY <2>3, <2>4
  <2>7. \A id \in DOMAIN l : l2[id] = l[id] \/ OwnRow(l2[id], id)  BY <2>3, <2>4
  <2>8. ListOK(l2, t2)  BY <1>1, <2>2, <2>5, <2>6, <2>7, BothReplaced
  <2>9. desk' = [desk EXCEPT !.list = l2] /\ kpz' = t2  BY <1>6 DEF l2, t2
  <2>10. /\ DOMAIN desk' = DOMAIN desk /\ desk'.sel = desk.sel /\ desk'.list = l2
         /\ desk'.quick = desk.quick /\ desk'.full = desk.full /\ desk'.groups = desk.groups
    BY <2>9 DEF StationInv, Laid, DeskShape
  <2> QED BY <2>2, <2>8, <2>9, <2>10, FormsAsTheyWere
<1>7. CASE \E done : kpz' = Part(done) /\ done \subseteq DOMAIN new /\ desk' = desk
  <2>1. PICK done : kpz' = Part(done) /\ done \subseteq DOMAIN new /\ desk' = desk  BY <1>7
  <2> DEFINE t2 == Part(done)
             M(id) == [new[id] EXCEPT !.by = "unread"]
  <2>2. DOMAIN t2 = DOMAIN kpz  OBVIOUS
  <2>3. \A id \in DOMAIN kpz : t2[id] = IF id \in done THEN [kpz[id] EXCEPT !.mask = M(id)] ELSE kpz[id]
    OBVIOUS
  <2>4. \A id \in done : id \in DOMAIN new /\ id \in DOMAIN l  BY <1>2, <2>1
  <2>5. \A id \in done : DOMAIN M(id) = {"of", "set", "by"} /\ M(id).of = id /\ M(id).by = "unread"
    BY <1>3, <2>4
  <2> HIDE DEF t2, M
  <2>6. \A id \in done : OwnRow(t2[id], id) /\ Known(l[id], t2[id])
    <3> SUFFICES ASSUME NEW id \in done PROVE OwnRow(t2[id], id) /\ Known(l[id], t2[id])  OBVIOUS
    <3> DEFINE a == l[id]
               b == kpz[id]
               m == M(id)
    <3>1. t2[id] = [b EXCEPT !.mask = m]  BY <1>5, <2>3, <2>4
    <3>2. DOMAIN m = {"of", "set", "by"} /\ m.of = id /\ m.by # "me"  BY <2>5
    <3>3. OwnRow(a, id) /\ OwnRow(b, id) /\ Known(a, b)  BY <1>5, <2>4
    <3>4. l[id] = a  OBVIOUS
    <3> HIDE DEF a, b, m
    <3>5. OwnRow([b EXCEPT !.mask = m], id) /\ Known(a, [b EXCEPT !.mask = m])
      BY <3>2, <3>3, MaskWritten
    <3> QED BY <3>1, <3>4, <3>5
  <2>7. \A id \in DOMAIN l : Known(l[id], t2[id])  BY <1>5, <2>3, <2>6
  <2>8. \A id \in DOMAIN kpz : t2[id] = kpz[id] \/ OwnRow(t2[id], id)  BY <2>3, <2>6
  <2>9. ListOK(l, t2)  BY <1>1, <2>2, <2>7, <2>8, BothReplaced
  <2>10. kpz' = t2 /\ desk' = desk  BY <2>1 DEF t2, M
  <2> QED BY <2>9, <2>10, FormsAsTheyWere
<1> QED BY <1>4, <1>6, <1>7

LEMMA OthersWriteKeeps ==
  ASSUME StationInv(kpz, desk), OthersWrite
  PROVE  StationInv(kpz', desk')
<1>1. desk' = desk  BY DEF OthersWrite
<1>2. ListOK(desk.list, kpz)  BY DEF StationInv, Laid
<1>3. PICK id, r :
        /\ id \in DOMAIN kpz
        /\ kpz' = [kpz EXCEPT ![id] = r] /\ OwnRow(r, id)
        /\ \A f \in {"meta", "rest", "mask"} : r[f] = kpz[id][f] \/ r[f].by # "me"
  <2>1. PICK id \in DOMAIN kpz :
          \/ \E f \in {"meta", "rest"} :
                kpz' = [kpz EXCEPT ![id][f] = [of |-> id, n |-> 1000, by |-> "other"]]
          \/ \E g \in Grups :
                kpz' = [kpz EXCEPT ![id].mask = [of |-> id, set |-> SymDiff(@.set, {g}), by |-> "other"]]
    BY DEF OthersWrite
  <2>2. OwnRow(kpz[id], id)  BY <1>2 DEF ListOK, OwnRows
  <2>3. CASE \E f \in {"meta", "rest"} :
                kpz' = [kpz EXCEPT ![id][f] = [of |-> id, n |-> 1000, by |-> "other"]]
    <3>1. PICK f \in {"meta", "rest"} :
            kpz' = [kpz EXCEPT ![id][f] = [of |-> id, n |-> 1000, by |-> "other"]]
      BY <2>3
    <3> DEFINE r == [kpz[id] EXCEPT ![f] = [of |-> id, n |-> 1000, by |-> "other"]]
    <3>2. kpz' = [kpz EXCEPT ![id] = r]  BY <3>1
    <3>3. OwnRow(r, id)  BY <2>2 DEF OwnRow, IsVal
    <3>4. \A h \in {"meta", "rest", "mask"} : r[h] = kpz[id][h] \/ r[h].by # "me"
      BY <2>2 DEF OwnRow
    <3> HIDE DEF r
    <3> QED BY <3>2, <3>3, <3>4
  <2>4. CASE \E g \in Grups :
                kpz' = [kpz EXCEPT ![id].mask = [of |-> id, set |-> SymDiff(@.set, {g}), by |-> "other"]]
    <3>1. PICK g \in Grups :
            kpz' = [kpz EXCEPT ![id].mask = [of |-> id, set |-> SymDiff(@.set, {g}), by |-> "other"]]
      BY <2>4
    <3> DEFINE m == [of |-> id, set |-> SymDiff(kpz[id].mask.set, {g}), by |-> "other"]
               r == [kpz[id] EXCEPT !.mask = m]
    <3>2. kpz' = [kpz EXCEPT ![id] = r]  BY <3>1
    <3>3. DOMAIN m = {"of", "set", "by"} /\ m.of = id /\ m.by # "me"  OBVIOUS
    <3> HIDE DEF m
    <3>4. OwnRow(r, id)  BY <2>2, <3>3 DEF OwnRow, IsVal
    <3>5. \A h \in {"meta", "rest", "mask"} : r[h] = kpz[id][h] \/ r[h].by # "me"
      BY <2>2, <3>3 DEF OwnRow
    <3> QED BY <3>2, <3>4, <3>5
  <2> QED BY <2>1, <2>3, <2>4
<1>4. DOMAIN kpz' = DOMAIN kpz /\ \A i \in DOMAIN kpz : kpz'[i] = IF i = id THEN r ELSE kpz[i]
  BY <1>3
<1>5. \A i \in DOMAIN desk.list : i \in DOMAIN kpz /\ Known(desk.list[i], kpz[i])  BY <1>2 DEF ListOK
<1>6. \A i \in DOMAIN desk.list : Known(desk.list[i], kpz'[i])
  BY <1>3, <1>4, <1>5 DEF Known
<1>7. \A i \in DOMAIN kpz : kpz'[i] = kpz[i] \/ OwnRow(kpz'[i], i)  BY <1>3, <1>4
<1>8. ListOK(desk.list, kpz')  BY <1>2, <1>4, <1>6, <1>7, BothReplaced
<1> QED BY <1>1, <1>8, FormsAsTheyWere

\* The least of a set of ids.
LEMMA Least ==
  ASSUME NEW S \in SUBSET Nat, S # {}
  PROVE  Min(S) \in S /\ \A i \in S : Min(S) <= i
<1> DEFINE R == OpToRel(<, Nat)
<1>1. PICK x \in S : \A y \in S : ~(<<y, x>> \in R)
  <2>1. IsWellFoundedOn(R, Nat)  BY NatLessThanWellFounded
  <2> HIDE DEF R
  <2> QED BY <2>1, WFMin
<1>2. \A y \in S : ~(y < x)  BY <1>1 DEF OpToRel
<1>3. x \in S /\ \A y \in S : x <= y  BY <1>2
<1> QED BY <1>3 DEF Min

LEMMA StationStarts ==
  ASSUME StationInit
  PROVE  StationInv(kpz, desk)
<1> DEFINE d == [sel |-> 0, list |-> <<>>, quick |-> Blank,
                 full |-> [meta |-> Blank, rest |-> Blank],
                 groups |-> [open |-> FALSE, dirty |-> FALSE, mask |-> Mask(0, {})]]
           e == [d EXCEPT !.list = kpz, !.sel = IF @ = 0 THEN Min(DOMAIN kpz) ELSE @]
<1>1. desk = Filled(e)  BY DEF StationInit, reload_all
<1>2. /\ DOMAIN e = {"sel", "list", "quick", "full", "groups"} /\ e.sel = Min(DOMAIN kpz)
      /\ e.list = kpz /\ e.quick = Blank /\ e.full = d.full /\ e.groups = d.groups
  OBVIOUS
<1>3. DOMAIN kpz = FirstIds  BY DEF StationInit
<1>4. e.sel # 0  BY <1>2, <1>3, StationIds, Least
<1>5. OwnRows(kpz)  BY DEF StationInit, OwnRows, OwnRow, Val, Mask, IsVal
<1>6. ListOK(e.list, kpz)  BY <1>2, <1>3, <1>5, StationIds DEF ListOK, Known
<1>7. DeskShape(e) /\ GroupsOK(e)
  BY <1>2, <1>4, ValShape DEF DeskShape, GroupsOK, Blank, Mask
<1> QED BY <1>1, <1>6, <1>7, FilledIsOwn DEF Laid

LEMMA StationStep ==
  ASSUME StationInv(kpz, desk), "regroup" \notin Habits, StationNext
  PROVE  StationInv(kpz', desk')
<1>1. CASE \E k \in KpzIds : SelectRow(k) \/ CreateRow(k)
  BY <1>1, SelectRowKeeps, CreateRowKeeps
<1>2. CASE SaveQuick  BY <1>2, SaveQuickKeeps
<1>3. CASE TypeQuick  BY <1>3, TypeQuickKeeps
<1>4. CASE TypeFull  BY <1>4, TypeFullKeeps
<1>5. CASE OpenFull  BY <1>5, OpenFullKeeps
<1>6. CASE SaveFull  BY <1>6, SaveFullKeeps
<1>7. CASE ReloadAll  BY <1>7, ReloadAllKeeps
<1>8. CASE OpenGroups  BY <1>8, OpenGroupsKeeps
<1>9. CASE MarkGroups  BY <1>9, MarkGroupsKeeps
<1>10. CASE SaveGroups  BY <1>10, SaveGroupsKeeps
<1>11. CASE CloseGroups  BY <1>11, CloseGroupsKeeps
<1>12. CASE \E ids \in Ranges :
               \/ create_or_update_range_kpz(ids)
               \/ ApplyMeta(ids)
               \/ \E g \in Grups, on \in BOOLEAN : ApplyGroups(ids, {g}, on)
  BY <1>12, CreateRangeKeeps, ApplyMetaKeeps, ApplyGroupsKeeps
<1>13. CASE OthersWrite  BY <1>13, OthersWriteKeeps
<1> QED
  BY <1>1, <1>2, <1>3, <1>4, <1>5, <1>6, <1>7, <1>8, <1>9, <1>10, <1>11, <1>12, <1>13 DEF StationNext

LEMMA StationSafe ==
  ASSUME StationInv(kpz, desk)
  PROVE  KpzRowsKeepTheirOwn /\ KpzListIsCurrent
BY DEF StationInv, Laid, ListOK, OwnRows, OwnRow, Known, KpzRowsKeepTheirOwn, KpzListIsCurrent

-----------------------------------------------------------------------------
(* The other editors of the station.                                       *)

IsRow(v) == DOMAIN v = {"of", "n", "by", "here"}

\* A table, or a list of it, whose rows are their own.
OwnIn(t, tab) == \A id \in DOMAIN t : IsRow(t[id]) /\ t[id].of = <<tab, id>>

\* The same, if no form has been saved astray (`s`).
OwnBut(t, tab, s) == \A id \in DOMAIN t : IsRow(t[id]) /\ (s \/ t[id].of = <<tab, id>>)

\* A list has what was stored last, but for what was not read since.
Knows(list, t) == \A id \in DOMAIN list \cap DOMAIN t : list[id] = t[id] \/ t[id].by # "me"

LEMMA OwnWith ==
  ASSUME NEW t, NEW tab, NEW id, NEW v, OwnIn(t, tab), IsRow(v), v.of = <<tab, id>>
  PROVE  OwnIn(With(t, id, v), tab)
BY DEF OwnIn, With

LEMMA OwnWithout ==
  ASSUME NEW t, NEW tab, NEW id, OwnIn(t, tab)
  PROVE  OwnIn(Without(t, id), tab)
BY DEF OwnIn, Without

LEMMA ButWith ==
  ASSUME NEW s, NEW t, NEW tab, NEW id, NEW v, OwnBut(t, tab, s), IsRow(v), s \/ v.of = <<tab, id>>
  PROVE  OwnBut(With(t, id, v), tab, s)
BY DEF OwnBut, With

LEMMA OwnIsBut ==
  ASSUME NEW s, NEW t, NEW tab, OwnIn(t, tab)
  PROVE  OwnBut(t, tab, s)
BY DEF OwnIn, OwnBut

LEMMA ButWithout ==
  ASSUME NEW s, NEW t, NEW tab, NEW id, OwnBut(t, tab, s)
  PROVE  OwnBut(Without(t, id), tab, s)
BY DEF OwnBut, Without

LEMMA KnowsWith ==
  ASSUME NEW list, NEW t, NEW id, NEW v, Knows(list, t), v.by # "me"
  PROVE  Knows(list, With(t, id, v))
BY DEF Knows, With

LEMMA KnowsBoth ==
  ASSUME NEW list, NEW t, NEW id, NEW v, Knows(list, t)
  PROVE  Knows(With(list, id, v), With(t, id, v))
BY DEF Knows, With

LEMMA KnowsWithout ==
  ASSUME NEW list, NEW t, NEW id, Knows(list, t)
  PROVE  Knows(list, Without(t, id))
BY DEF Knows, Without

LEMMA KnowsSelf == ASSUME NEW t PROVE Knows(t, t)
BY DEF Knows

\* A row another program has written.
LEMMA OtherRow ==
  ASSUME NEW s, NEW t, NEW tab, NEW id \in DOMAIN t, NEW v, OwnBut(t, tab, s),
         IsRow(v), v.of = <<tab, id>>, v.by = "other"
  PROVE  LET u == [t EXCEPT ![id] = v]
         IN /\ DOMAIN u = DOMAIN t /\ OwnBut(u, tab, s)
            /\ \A list : Knows(list, t) => Knows(list, u)
<1> DEFINE u == [t EXCEPT ![id] = v]
<1>1. DOMAIN u = DOMAIN t /\ \A i \in DOMAIN t : u[i] = IF i = id THEN v ELSE t[i]  OBVIOUS
<1> HIDE DEF u
<1>2. OwnBut(u, tab, s)  BY <1>1 DEF OwnBut
<1>3. ASSUME NEW list, Knows(list, t) PROVE Knows(list, u)  BY <1>1, <1>3 DEF Knows
<1> QED BY <1>1, <1>2, <1>3 DEF u

FormShape(f) ==
  DOMAIN f = {"win", "tab", "sel", "id", "val", "list", "tpl", "lost", "all"} /\ IsRow(f.val)

LEMMA RowShape ==
  ASSUME NEW tab, NEW id, NEW n
  PROVE  IsRow(Row(tab, id, n)) /\ Row(tab, id, n).of = <<tab, id>> /\ Row(tab, id, n).by = "me"
BY DEF Row, IsRow

\* What is typed into the fields, and what it becomes when saved.
LEMMA TypedRow ==
  ASSUME NEW v, IsRow(v)
  PROVE  /\ \A here : IsRow([Edited(v) EXCEPT !.here = here]) /\ [Edited(v) EXCEPT !.here = here].of = v.of
         /\ IsRow(Mine(v)) /\ Mine(v).of = v.of
         /\ IsRow([v EXCEPT !.by = "unread"])
         /\ [v EXCEPT !.by = "unread"].of = v.of /\ [v EXCEPT !.by = "unread"].by # "me"
<1>1. IsRow(Edited(v)) /\ Edited(v).of = v.of  BY DEF IsRow, Edited
<1>2. \A here : IsRow([Edited(v) EXCEPT !.here = here]) /\ [Edited(v) EXCEPT !.here = here].of = v.of
  BY <1>1 DEF IsRow
<1> QED BY <1>2 DEF IsRow, Mine

LEMMA OwnShape ==
  ASSUME NEW v, IsRow(v), NEW tab, NEW id
  PROVE  IsRow(Own(v, tab, id)) /\ Own(v, tab, id).of = <<tab, id>>
BY DEF IsRow, Own

\* The form g is f but for some fields.
Keeps(g, f, fields) == DOMAIN g = DOMAIN f /\ \A x \in DOMAIN f \ fields : g[x] = f[x]

LEMMA Typing ==
  ASSUME FormShape(form), TypeValue
  PROVE  /\ rows' = rows /\ Keeps(form', form, {"val"})
         /\ IsRow(form'.val) /\ form'.val.of = form.val.of
<1>1. PICK here : Shows([form EXCEPT !.val = [Edited(form.val) EXCEPT !.here = here]])
  BY DEF TypeValue
<1> DEFINE v == [Edited(form.val) EXCEPT !.here = here]
<1>2. IsRow(v) /\ v.of = form.val.of  BY TypedRow DEF FormShape
<1> HIDE DEF v
<1>3. rows' = rows /\ form' = [form EXCEPT !.val = v]  BY <1>1 DEF Shows, v
<1> QED BY <1>2, <1>3 DEF FormShape, Keeps

LEMMA TypingId ==
  ASSUME FormShape(form), TypeId
  PROVE  /\ rows' = rows /\ Keeps(form', form, {"id", "val"})
         /\ IsRow(form'.val) /\ form'.val.of = <<form.tab, form'.id>> /\ form'.id \in RowIds
<1>1. PICK k \in RowIds : Shows([form EXCEPT !.id = k, !.val = Own(form.val, form.tab, k)])
  BY DEF TypeId, FormShape
<1> DEFINE v == Own(form.val, form.tab, k)
<1>2. IsRow(v) /\ v.of = <<form.tab, k>>  BY OwnShape DEF FormShape
<1> HIDE DEF v
<1>3. rows' = rows /\ form' = [[form EXCEPT !.id = k] EXCEPT !.val = v]
  BY <1>1 DEF Shows, FormShape, v
<1> QED BY <1>2, <1>3 DEF FormShape, Keeps

LEMMA Clicking ==
  ASSUME FormShape(form), ClickRow
  PROVE  \E f : /\ rows' = rows /\ form' = Synced(f) /\ FormShape(f)
               /\ Keeps(f, form, {"sel"}) /\ f.sel \in DOMAIN form.list
<1>1. PICK k \in DOMAIN form.list : Shows(Synced([form EXCEPT !.sel = k]))  BY DEF ClickRow
<1> DEFINE f == [form EXCEPT !.sel = k]
<1>2. Keeps(f, form, {"sel"}) /\ FormShape(f) /\ f.sel = k  BY DEF FormShape, Keeps
<1>3. rows' = rows /\ form' = Synced(f)  BY <1>1 DEF Shows
<1> HIDE DEF f
<1> QED BY <1>2, <1>3

-----------------------------------------------------------------------------
(* Registers: what is in the fields belongs to the id in the form.         *)

RegInv(r, f) ==
  /\ FormShape(f) /\ f.win = "reg" /\ f.tab = "reg" /\ DOMAIN r = {"reg"}
  /\ OwnIn(r.reg, "reg") /\ OwnIn(f.list, "reg") /\ Knows(f.list, r.reg)
  /\ f.val.of = <<"reg", f.id>>

LEMMA RegSynced ==
  ASSUME NEW r, NEW f, FormShape(f), f.win = "reg", f.tab = "reg", DOMAIN r = {"reg"},
         OwnIn(r.reg, "reg"), OwnIn(f.list, "reg"), Knows(f.list, r.reg)
  PROVE  RegInv(r, sync_reg_editor_from_selected(f))
<1> DEFINE g == sync_reg_editor_from_selected(f)
           i == IF f.sel \in DOMAIN f.list THEN f.sel ELSE 0
           v == IF f.sel \in DOMAIN f.list THEN f.list[f.sel] ELSE NoRow("reg")
<1>1. g = [[f EXCEPT !.id = i] EXCEPT !.val = v]
  BY DEF sync_reg_editor_from_selected, FormShape
<1>2. IsRow(v) /\ v.of = <<"reg", i>>  BY RowShape DEF OwnIn, NoRow
<1> HIDE DEF g, i, v
<1>3. /\ DOMAIN g = DOMAIN f /\ g.win = f.win /\ g.tab = f.tab /\ g.list = f.list
      /\ g.id = i /\ g.val = v
  BY <1>1 DEF FormShape
<1> QED BY <1>2, <1>3 DEF g, RegInv, FormShape

LEMMA RegReloaded ==
  ASSUME NEW r, NEW f, FormShape(f), f.win = "reg", f.tab = "reg", DOMAIN r = {"reg"},
         OwnIn(r.reg, "reg")
  PROVE  RegInv(r, reload_reg_rows(f, r.reg))
<1> DEFINE g == Relisted(f, r.reg)
<1>1. /\ DOMAIN g = DOMAIN f /\ g.win = f.win /\ g.tab = f.tab /\ g.list = r.reg /\ g.val = f.val
  BY DEF Relisted, FormShape
<1> HIDE DEF g
<1>2. FormShape(g)  BY <1>1 DEF FormShape
<1>3. RegInv(r, sync_reg_editor_from_selected(g))  BY <1>1, <1>2, KnowsSelf, RegSynced
<1> QED BY <1>3 DEF reload_reg_rows, g

LEMMA RegStep ==
  ASSUME RegInv(rows, form), show_reg_editor
  PROVE  RegInv(rows', form')
<1> USE DEF RegInv
<1>1. CASE ClickRow
  <2>1. PICK f : /\ rows' = rows /\ form' = Synced(f) /\ FormShape(f)
                 /\ Keeps(f, form, {"sel"}) /\ f.sel \in DOMAIN form.list
    BY <1>1, Clicking
  <2>2. f.win = "reg" /\ f.tab = "reg" /\ f.list = form.list  BY <2>1 DEF FormShape, Keeps
  <2>3. form' = sync_reg_editor_from_selected(f)  BY <2>1, <2>2 DEF Synced
  <2> QED BY <2>1, <2>2, <2>3, RegSynced
<1>2. CASE TypeValue  BY <1>2, Typing DEF FormShape, Keeps
<1>3. CASE TypeId  BY <1>3, TypingId DEF FormShape, Keeps
<1>4. CASE save_reg_editor
  <2> DEFINE v == Mine(form.val)
             f == [form EXCEPT !.sel = form.id]
             u == [v EXCEPT !.by = "unread"]
             t == With(rows.reg, form.id, v)
             t2 == With(rows.reg, form.id, u)
  <2>1. \/ /\ rows' = [rows EXCEPT !.reg = t] /\ form' = reload_reg_rows(f, t)
        \/ /\ rows' = [rows EXCEPT !.reg = t2] /\ form' = sync_reg_editor_from_selected(f)
    BY <1>4 DEF save_reg_editor, Stored, update_reg_edit, Table
  <2>2. IsRow(v) /\ v.of = <<"reg", form.id>>  BY TypedRow DEF FormShape
  <2>3. IsRow(u) /\ u.of = <<"reg", form.id>> /\ u.by # "me"  BY <2>2, TypedRow
  <2>4. OwnIn(t, "reg") /\ OwnIn(t2, "reg") /\ Knows(form.list, t2)
    BY <2>2, <2>3, OwnWith, KnowsWith
  <2>5. /\ DOMAIN f = DOMAIN form /\ f.win = "reg" /\ f.tab = "reg" /\ f.list = form.list
        /\ f.val = form.val
    BY DEF FormShape
  <2>6. FormShape(f)  BY <2>5 DEF FormShape
  <2> HIDE DEF v, f, u, t, t2
  <2>7. CASE rows' = [rows EXCEPT !.reg = t] /\ form' = reload_reg_rows(f, t)
    <3>1. DOMAIN rows' = {"reg"} /\ rows'.reg = t  BY <2>7
    <3>2. RegInv(rows', reload_reg_rows(f, rows'.reg))  BY <2>4, <2>5, <2>6, <3>1, RegReloaded
    <3> QED BY <2>7, <3>1, <3>2
  <2>8. CASE rows' = [rows EXCEPT !.reg = t2] /\ form' = sync_reg_editor_from_selected(f)
    <3>1. DOMAIN rows' = {"reg"} /\ rows'.reg = t2  BY <2>8
    <3>2. RegInv(rows', sync_reg_editor_from_selected(f))  BY <2>4, <2>5, <2>6, <3>1, RegSynced
    <3> QED BY <2>8, <3>2
  <2> QED BY <2>1, <2>7, <2>8
<1>5. CASE Refresh
  <2>1. rows' = rows /\ (form' = form \/ form' = reload_reg_rows(form, rows.reg))
    BY <1>5 DEF Refresh, Reloaded, Table
  <2> QED BY <2>1, RegReloaded
<1>6. CASE Shows([form EXCEPT !.sel = 0])
  BY <1>6 DEF Shows, FormShape
<1> QED BY <1>1, <1>2, <1>3, <1>4, <1>5, <1>6 DEF show_reg_editor

-----------------------------------------------------------------------------
(* Objects: what is in the fields belongs to the row selected, or to none. *)

ObjInv(r, f) ==
  /\ FormShape(f) /\ f.win = "obj" /\ f.tab = "obj" /\ DOMAIN r = {"obj"}
  /\ OwnIn(r.obj, "obj") /\ OwnIn(f.list, "obj") /\ Knows(f.list, r.obj)
  /\ DOMAIN f.list \subseteq DOMAIN r.obj /\ f.sel \in DOMAIN f.list \cup {0}
  /\ f.val.of = <<"obj", f.sel>>

LEMMA ObjSynced ==
  ASSUME NEW r, NEW f, FormShape(f), f.win = "obj", f.tab = "obj", DOMAIN r = {"obj"},
         OwnIn(r.obj, "obj"), OwnIn(f.list, "obj"), Knows(f.list, r.obj),
         DOMAIN f.list \subseteq DOMAIN r.obj, f.sel \in DOMAIN f.list \cup {0}
  PROVE  ObjInv(r, sync_obj_editor_from_selected(f))
<1> DEFINE g == sync_obj_editor_from_selected(f)
           v == IF f.sel \in DOMAIN f.list THEN f.list[f.sel] ELSE NoRow("obj")
<1>1. g = [f EXCEPT !.val = v]  BY DEF sync_obj_editor_from_selected
<1>2. IsRow(v) /\ v.of = <<"obj", f.sel>>  BY RowShape DEF OwnIn, NoRow
<1> HIDE DEF g, v
<1>3. /\ DOMAIN g = DOMAIN f /\ g.win = f.win /\ g.tab = f.tab /\ g.list = f.list
      /\ g.sel = f.sel /\ g.val = v
  BY <1>1 DEF FormShape
<1> QED BY <1>2, <1>3 DEF g, ObjInv, FormShape

LEMMA ObjRelisted ==
  ASSUME NEW r, NEW f, ObjInv(r, f)
  PROVE  LET g == reload_kpz_refs(f, r.obj)
         IN ObjInv(r, g) /\ g.sel = f.sel /\ g.list = r.obj
<1> DEFINE g == reload_kpz_refs(f, r.obj)
<1>1. /\ DOMAIN g = DOMAIN f /\ g.win = f.win /\ g.tab = f.tab /\ g.list = r.obj
      /\ g.sel = f.sel /\ g.val = f.val
  BY DEF reload_kpz_refs, ObjInv, FormShape
<1> HIDE DEF g
<1>2. ObjInv(r, g)  BY <1>1, KnowsSelf DEF ObjInv, FormShape
<1> QED BY <1>1, <1>2 DEF g

LEMMA ObjStep ==
  ASSUME ObjInv(rows, form), show_obj_editor
  PROVE  ObjInv(rows', form')
<1>1. CASE ClickRow
  <2>1. PICK f : /\ rows' = rows /\ form' = Synced(f) /\ FormShape(f)
                 /\ Keeps(f, form, {"sel"}) /\ f.sel \in DOMAIN form.list
    BY <1>1, Clicking DEF ObjInv
  <2>2. f.win = "obj" /\ f.tab = "obj" /\ f.list = form.list
    BY <2>1 DEF ObjInv, FormShape, Keeps
  <2>3. form' = sync_obj_editor_from_selected(f)  BY <2>1, <2>2 DEF Synced
  <2> QED BY <2>1, <2>2, <2>3, ObjSynced DEF ObjInv
<1>2. CASE TypeValue  BY <1>2, Typing DEF ObjInv, FormShape, Keeps
<1>3. CASE save_obj_editor
  <2> DEFINE id == IF form.sel = 0 THEN NextId ELSE form.sel
             v == IF form.sel = 0 THEN Own(form.val, "obj", id) ELSE Mine(form.val)
             t == IF form.sel = 0 THEN With(rows.obj, id, v) ELSE update_obj(rows.obj, id, v)
             l == With(form.list, id, v)
  <2>1. \/ rows' = rows /\ form' = form
        \/ /\ rows' = [rows EXCEPT !.obj = t]
           /\ form' = [[[form EXCEPT !.list = l] EXCEPT !.sel = id] EXCEPT !.val = v]
    BY <1>3 DEF save_obj_editor, ObjInv, FormShape
  <2>2. IsRow(v) /\ v.of = <<"obj", id>>
    <3>1. IsRow(form.val) /\ form.val.of = <<"obj", form.sel>>  BY DEF ObjInv, FormShape
    <3>2. CASE form.sel = 0
      <4>1. v = Own(form.val, "obj", id)  BY <3>2
      <4> HIDE DEF v, id
      <4> QED BY <3>1, <4>1, OwnShape
    <3>3. CASE form.sel # 0  BY <3>1, <3>3, TypedRow
    <3> QED BY <3>2, <3>3
  <2>3. t = With(rows.obj, id, v)
    <3>1. CASE form.sel = 0  BY <3>1
    <3>2. CASE form.sel # 0
      <4>1. id \in DOMAIN rows.obj  BY <3>2 DEF ObjInv
      <4> HIDE DEF id, v
      <4>2. t = [rows.obj EXCEPT ![id] = v]  BY <3>2 DEF update_obj
      <4>3. DOMAIN rows.obj \cup {id} = DOMAIN rows.obj  BY <4>1
      <4>4. With(rows.obj, id, v) = [i \in DOMAIN rows.obj |-> IF i = id THEN v ELSE rows.obj[i]]
        BY <4>3 DEF With
      <4> HIDE DEF t
      <4> QED BY <4>2, <4>4
    <3> QED BY <3>1, <3>2
  <2> HIDE DEF id, v, t
  <2>4. DOMAIN l = DOMAIN form.list \cup {id} /\ DOMAIN t = DOMAIN rows.obj \cup {id}
    BY <2>3 DEF With
  <2>5. OwnIn(t, "obj") /\ OwnIn(l, "obj") /\ Knows(l, t)
    BY <2>2, <2>3, OwnWith, KnowsBoth DEF ObjInv
  <2> HIDE DEF l
  <2>6. CASE /\ rows' = [rows EXCEPT !.obj = t]
             /\ form' = [[[form EXCEPT !.list = l] EXCEPT !.sel = id] EXCEPT !.val = v]
    <3>1. DOMAIN rows' = {"obj"} /\ rows'.obj = t  BY <2>6 DEF ObjInv
    <3>2. /\ DOMAIN form' = DOMAIN form /\ form'.win = form.win /\ form'.tab = form.tab
          /\ form'.list = l /\ form'.sel = id /\ form'.val = v
      BY <2>6 DEF ObjInv, FormShape
    <3> QED BY <2>2, <2>4, <2>5, <3>1, <3>2 DEF ObjInv, FormShape
  <2> QED BY <2>1, <2>6
<1>4. CASE Refresh
  <2>1. /\ rows' = rows
        /\ \/ form' = sync_obj_editor_from_selected(reload_kpz_refs(form, rows.obj))
           \/ form' = sync_obj_editor_from_selected(form)
    BY <1>4 DEF Refresh, Reloaded, Synced, Table, ObjInv
  <2>2. ObjInv(rows, sync_obj_editor_from_selected(form))  BY ObjSynced DEF ObjInv
  <2> DEFINE g == reload_kpz_refs(form, rows.obj)
  <2>3. ObjInv(rows, g)  BY ObjRelisted
  <2> HIDE DEF g
  <2>4. ObjInv(rows, sync_obj_editor_from_selected(g))  BY <2>3, ObjSynced DEF ObjInv
  <2> QED BY <2>1, <2>2, <2>4 DEF g
<1>5. CASE open_obj_editor
  <2>1. PICK k \in DOMAIN form.list : Shows(sync_obj_editor_from_selected([form EXCEPT !.sel = k]))
    BY <1>5 DEF open_obj_editor
  <2> DEFINE f == [form EXCEPT !.sel = k]
  <2>2. /\ DOMAIN f = DOMAIN form /\ f.win = form.win /\ f.tab = form.tab /\ f.list = form.list
        /\ f.sel = k /\ f.val = form.val
    BY DEF ObjInv, FormShape
  <2>3. rows' = rows /\ form' = sync_obj_editor_from_selected(f)  BY <2>1 DEF Shows
  <2> HIDE DEF f
  <2>4. FormShape(f)  BY <2>2 DEF ObjInv, FormShape
  <2> QED BY <2>2, <2>3, <2>4, ObjSynced DEF ObjInv
<1>6. CASE Shows(reload_kpz_refs(form, Table(form)))
  BY <1>6, ObjRelisted DEF Shows, Table, ObjInv
<1>7. CASE Shows([form EXCEPT !.sel = 0, !.val.of = <<form.tab, 0>>])
  <2> DEFINE v == [form.val EXCEPT !.of = <<"obj", 0>>]
  <2>1. IsRow(v) /\ v.of = <<"obj", 0>>  BY DEF ObjInv, FormShape, IsRow
  <2>2. rows' = rows /\ form' = [[form EXCEPT !.sel = 0] EXCEPT !.val = v]
    BY <1>7 DEF Shows, ObjInv, FormShape
  <2> HIDE DEF v
  <2> QED BY <2>1, <2>2 DEF ObjInv, FormShape
<1> QED BY <1>1, <1>2, <1>3, <1>4, <1>5, <1>6, <1>7 DEF show_obj_editor

-----------------------------------------------------------------------------
(* Dictionaries: after a load that failed what is shown is of another      *)
(* table, and is no row's own once it has been saved (`s`).                *)

DictInv(r, f, s) ==
  /\ FormShape(f) /\ f.win = "dict" /\ f.tab \in {"ip", "port"} /\ DOMAIN r = {"ip", "port"}
  /\ OwnBut(r.ip, "ip", s) /\ OwnBut(r.port, "port", s)
  /\ \A id \in DOMAIN f.list : IsRow(f.list[id])
  /\ \/ f.lost
     \/ OwnBut(f.list, f.tab, s) /\ Knows(f.list, r[f.tab]) /\ (s \/ f.val.of = <<f.tab, f.id>>)

LEMMA DictSynced ==
  ASSUME NEW s, NEW r, NEW f, FormShape(f), f.win = "dict", f.tab \in {"ip", "port"},
         DOMAIN r = {"ip", "port"}, OwnBut(r.ip, "ip", s), OwnBut(r.port, "port", s),
         \A id \in DOMAIN f.list : IsRow(f.list[id]),
         f.lost \/ (OwnBut(f.list, f.tab, s) /\ Knows(f.list, r[f.tab]))
  PROVE  DictInv(r, sync_dict_editor_from_selected(f), s)
<1> DEFINE g == sync_dict_editor_from_selected(f)
           i == IF f.sel \in DOMAIN f.list THEN f.sel ELSE 0
           v == IF f.sel \in DOMAIN f.list THEN f.list[f.sel] ELSE NoRow(f.tab)
<1>1. g = [[f EXCEPT !.id = i] EXCEPT !.val = v]
  BY DEF sync_dict_editor_from_selected, FormShape
<1>2. IsRow(v) /\ (f.lost \/ s \/ v.of = <<f.tab, i>>)  BY RowShape DEF OwnBut, NoRow
<1> HIDE DEF g, i, v
<1>3. /\ DOMAIN g = DOMAIN f /\ g.win = f.win /\ g.tab = f.tab /\ g.list = f.list
      /\ g.lost = f.lost /\ g.id = i /\ g.val = v
  BY <1>1 DEF FormShape
<1> QED BY <1>2, <1>3 DEF g, DictInv, FormShape

LEMMA DictReloaded ==
  ASSUME NEW s, NEW r, NEW f, FormShape(f), f.win = "dict", f.tab \in {"ip", "port"},
         DOMAIN r = {"ip", "port"}, OwnBut(r.ip, "ip", s), OwnBut(r.port, "port", s)
  PROVE  DictInv(r, reload_dict_items(f, r[f.tab]), s)
<1> DEFINE t == r[f.tab]
           g == Relisted(f, t)
           h == [g EXCEPT !.lost = FALSE]
           i == IF g.sel \in DOMAIN t THEN g.sel ELSE 0
           v == IF g.sel \in DOMAIN t THEN t[g.sel] ELSE NoRow(f.tab)
           e == reload_dict_items(f, t)
<1>1. /\ DOMAIN g = DOMAIN f /\ g.win = f.win /\ g.tab = f.tab /\ g.list = t /\ g.val = f.val
  BY DEF Relisted, FormShape
<1>2. OwnBut(t, f.tab, s)  OBVIOUS
<1> HIDE DEF g, t
<1>3. IsRow(v) /\ (s \/ v.of = <<f.tab, i>>)  BY <1>2, RowShape DEF OwnBut, NoRow
<1>4. sync_dict_editor_from_selected(g) = [[g EXCEPT !.id = i] EXCEPT !.val = v]
  BY <1>1 DEF sync_dict_editor_from_selected, FormShape
<1> HIDE DEF i, v
<1>5. e = [[[g EXCEPT !.id = i] EXCEPT !.val = v] EXCEPT !.lost = FALSE]
  BY <1>4 DEF reload_dict_items, g
<1>6. /\ DOMAIN e = DOMAIN f /\ e.win = f.win /\ e.tab = f.tab /\ e.list = t /\ e.val = v
      /\ e.id = i /\ ~e.lost
  BY <1>1, <1>5 DEF FormShape
<1> HIDE DEF e
<1>7. Knows(t, t)  BY KnowsSelf
<1>8. \A id \in DOMAIN t : IsRow(t[id])  BY <1>2 DEF OwnBut
<1>9. t = r[f.tab]  BY DEF t
<1> QED BY <1>2, <1>3, <1>6, <1>7, <1>8, <1>9 DEF DictInv, FormShape, e

LEMMA DictStep ==
  ASSUME NEW s, DictInv(rows, form, s), s \/ ~GoesAstray, show_dict_editor
  PROVE  DictInv(rows', form', s)
<1>1. CASE ClickRow
  <2>1. PICK f : /\ rows' = rows /\ form' = Synced(f) /\ FormShape(f)
                 /\ Keeps(f, form, {"sel"}) /\ f.sel \in DOMAIN form.list
    BY <1>1, Clicking DEF DictInv
  <2>2. f.win = "dict" /\ f.tab = form.tab /\ f.list = form.list /\ f.lost = form.lost
    BY <2>1 DEF DictInv, FormShape, Keeps
  <2>3. form' = sync_dict_editor_from_selected(f)  BY <2>1, <2>2 DEF Synced
  <2> QED BY <2>1, <2>2, <2>3, DictSynced DEF DictInv
<1>2. CASE TypeValue  BY <1>2, Typing DEF DictInv, FormShape, Keeps
<1>3. CASE TypeId
  <2>1. /\ rows' = rows /\ Keeps(form', form, {"id", "val"})
        /\ IsRow(form'.val) /\ form'.val.of = <<form.tab, form'.id>>
    BY <1>3, TypingId DEF DictInv
  <2> QED BY <2>1 DEF DictInv, FormShape, Keeps
<1>4. CASE save_dict_editor
  <2> DEFINE v == Mine(form.val)
             f == [form EXCEPT !.sel = form.id]
             u == [v EXCEPT !.by = "unread"]
             t == With(rows[form.tab], form.id, v)
             t2 == With(rows[form.tab], form.id, u)
  <2>1. /\ s \/ ~form.lost
        /\ \/ /\ rows' = [rows EXCEPT ![form.tab] = t] /\ form' = reload_dict_items(f, t)
           \/ /\ rows' = [rows EXCEPT ![form.tab] = t2] /\ form' = sync_dict_editor_from_selected(f)
    <3>1. s \/ ~form.lost  BY <1>4 DEF GoesAstray, DictInv
    <3> QED BY <1>4, <3>1 DEF save_dict_editor, Stored, Table
  <2>2. IsRow(v) /\ (s \/ v.of = <<form.tab, form.id>>)  BY <2>1, TypedRow DEF DictInv, FormShape
  <2>3. IsRow(u) /\ (s \/ u.of = <<form.tab, form.id>>) /\ u.by # "me"  BY <2>2, TypedRow
  <2>4. /\ OwnBut(rows[form.tab], form.tab, s)
        /\ form.lost \/ (OwnBut(form.list, form.tab, s) /\ Knows(form.list, rows[form.tab]))
    BY DEF DictInv
  <2>5. /\ OwnBut(t, form.tab, s) /\ OwnBut(t2, form.tab, s)
        /\ form.lost \/ Knows(form.list, t2)
    BY <2>2, <2>3, <2>4, ButWith, KnowsWith
  <2>6. /\ DOMAIN f = DOMAIN form /\ f.win = "dict" /\ f.tab = form.tab /\ f.list = form.list
        /\ f.val = form.val /\ f.lost = form.lost
    BY DEF DictInv, FormShape
  <2>7. FormShape(f) /\ f.tab \in {"ip", "port"}  BY <2>6 DEF DictInv, FormShape
  <2> HIDE DEF v, f, u, t, t2
  <2>8. CASE rows' = [rows EXCEPT ![form.tab] = t] /\ form' = reload_dict_items(f, t)
    <3>1. /\ DOMAIN rows' = {"ip", "port"} /\ rows'[f.tab] = t
          /\ OwnBut(rows'.ip, "ip", s) /\ OwnBut(rows'.port, "port", s)
      BY <2>5, <2>6, <2>8 DEF DictInv
    <3>2. DictInv(rows', reload_dict_items(f, rows'[f.tab]), s)  BY <2>6, <2>7, <3>1, DictReloaded
    <3> QED BY <2>8, <3>1, <3>2
  <2>9. CASE rows' = [rows EXCEPT ![form.tab] = t2] /\ form' = sync_dict_editor_from_selected(f)
    <3>1. /\ DOMAIN rows' = {"ip", "port"} /\ rows'[f.tab] = t2
          /\ OwnBut(rows'.ip, "ip", s) /\ OwnBut(rows'.port, "port", s)
      BY <2>5, <2>6, <2>9 DEF DictInv
    <3>2. \A id \in DOMAIN f.list : IsRow(f.list[id])  BY <2>6 DEF DictInv
    <3>3. f.lost \/ (OwnBut(f.list, f.tab, s) /\ Knows(f.list, rows'[f.tab]))  BY <2>4, <2>5, <2>6, <3>1
    <3>4. DictInv(rows', sync_dict_editor_from_selected(f), s)
      BY <2>6, <2>7, <3>1, <3>2, <3>3, DictSynced
    <3> QED BY <2>9, <3>4
  <2> QED BY <2>1, <2>8, <2>9
<1>5. CASE delete_dict_editor
  <2> DEFINE t == Without(rows[form.tab], form.id)
  <2>1. /\ rows' = [rows EXCEPT ![form.tab] = t]
        /\ form' = form \/ form' = reload_dict_items(form, t)
    BY <1>5 DEF delete_dict_editor, Deleted, Table
  <2>2. OwnBut(t, form.tab, s) /\ (form.lost \/ Knows(form.list, t))  BY ButWithout, KnowsWithout DEF DictInv
  <2> HIDE DEF t
  <2>3. /\ DOMAIN rows' = {"ip", "port"} /\ rows'[form.tab] = t
        /\ OwnBut(rows'.ip, "ip", s) /\ OwnBut(rows'.port, "port", s)
    BY <2>1, <2>2 DEF DictInv
  <2>4. DictInv(rows', reload_dict_items(form, rows'[form.tab]), s)
    <3>1. FormShape(form) /\ form.win = "dict" /\ form.tab \in {"ip", "port"}  BY DEF DictInv
    <3> QED BY <2>3, <3>1, DictReloaded
  <2>5. DictInv(rows', form, s)  BY <2>2, <2>3 DEF DictInv
  <2> QED BY <2>1, <2>3, <2>4, <2>5
<1>6. CASE Refresh
  <2>1. rows' = rows /\ (form' = form \/ form' = reload_dict_items(form, rows[form.tab]))
    BY <1>6 DEF Refresh, Reloaded, Table, DictInv
  <2>2. /\ FormShape(form) /\ form.win = "dict" /\ form.tab \in {"ip", "port"}
        /\ DOMAIN rows = {"ip", "port"} /\ OwnBut(rows.ip, "ip", s) /\ OwnBut(rows.port, "port", s)
    BY DEF DictInv
  <2>3. DictInv(rows, reload_dict_items(form, rows[form.tab]), s)  BY <2>2, DictReloaded
  <2> QED BY <2>1, <2>3
<1>7. CASE SetTable
  <2>1. PICK t \in TablesOf("dict") \ {form.tab} :
          /\ rows' = rows
          /\ \/ form' = reload_dict_items([form EXCEPT !.tab = t], rows[t])
             \/ form' = [[form EXCEPT !.tab = t] EXCEPT !.lost = TRUE]
    BY <1>7 DEF SetTable
  <2>2. t \in {"ip", "port"}  BY DEF TablesOf
  <2> DEFINE f == [form EXCEPT !.tab = t]
  <2>3. /\ DOMAIN f = DOMAIN form /\ f.win = "dict" /\ f.tab = t /\ f.list = form.list
        /\ f.val = form.val
    BY DEF DictInv, FormShape
  <2> HIDE DEF f
  <2>4. FormShape(f)  BY <2>3 DEF DictInv, FormShape
  <2>5. DictInv(rows, reload_dict_items(f, rows[f.tab]), s)
    <3>1. DOMAIN rows = {"ip", "port"} /\ OwnBut(rows.ip, "ip", s) /\ OwnBut(rows.port, "port", s)
      BY DEF DictInv
    <3>2. f.win = "dict" /\ f.tab \in {"ip", "port"}  BY <2>2, <2>3
    <3> QED BY <2>4, <3>1, <3>2, DictReloaded
  <2>6. CASE form' = [f EXCEPT !.lost = TRUE]
    <3>1. /\ DOMAIN form' = DOMAIN f /\ form'.win = "dict" /\ form'.tab = t /\ form'.list = form.list
          /\ form'.val = form.val /\ form'.lost = TRUE
      BY <2>3, <2>6 DEF DictInv, FormShape
    <3> QED BY <2>1, <2>2, <2>3, <3>1 DEF DictInv, FormShape
  <2> QED BY <2>1, <2>3, <2>5, <2>6 DEF f
<1>8. CASE Shows([form EXCEPT !.sel = 0, !.id = 0, !.val = NoRow(form.tab)])
  <2> DEFINE v == NoRow(form.tab)
  <2>1. IsRow(v) /\ v.of = <<form.tab, 0>>  BY RowShape DEF NoRow
  <2>2. rows' = rows /\ form' = [[[form EXCEPT !.sel = 0] EXCEPT !.id = 0] EXCEPT !.val = v]
    BY <1>8 DEF Shows, DictInv, FormShape
  <2> HIDE DEF v
  <2> QED BY <2>1, <2>2 DEF DictInv, FormShape
<1> QED BY <1>1, <1>2, <1>3, <1>4, <1>5, <1>6, <1>7, <1>8 DEF show_dict_editor

-----------------------------------------------------------------------------
(* Alarm rules: what is in the fields belongs to the rule selected, or is  *)
(* a new one.                                                              *)

RuleInv(r, f) ==
  /\ FormShape(f) /\ f.win = "alarm_rule" /\ f.tab = "alarm_rule" /\ DOMAIN r = {"alarm_rule"}
  /\ OwnIn(r.alarm_rule, "alarm_rule") /\ OwnIn(f.list, "alarm_rule")
  /\ Knows(f.list, r.alarm_rule)
  /\ f.val.of = <<"alarm_rule", f.sel>>

RuleLists(r, f) ==
  /\ FormShape(f) /\ f.win = "alarm_rule" /\ f.tab = "alarm_rule" /\ DOMAIN r = {"alarm_rule"}
  /\ OwnIn(r.alarm_rule, "alarm_rule") /\ OwnIn(f.list, "alarm_rule")
  /\ Knows(f.list, r.alarm_rule)

LEMMA RuleMade ==
  ASSUME NEW r, NEW f, RuleLists(r, f)
  PROVE  RuleInv(r, new_alarm_rule_form(f))
<1> DEFINE v == [f.val EXCEPT !.of = <<"alarm_rule", 0>>]
           g == new_alarm_rule_form(f)
<1>1. IsRow(v) /\ v.of = <<"alarm_rule", 0>>  BY DEF RuleLists, FormShape, IsRow
<1>2. g = [[f EXCEPT !.sel = 0] EXCEPT !.val = v]
  BY DEF new_alarm_rule_form, RuleLists, FormShape
<1> HIDE DEF v, g
<1>3. /\ DOMAIN g = DOMAIN f /\ g.win = f.win /\ g.tab = f.tab /\ g.list = f.list
      /\ g.sel = 0 /\ g.val = v
  BY <1>2 DEF RuleLists, FormShape
<1> QED BY <1>1, <1>3 DEF RuleLists, RuleInv, FormShape, g

LEMMA RuleSynced ==
  ASSUME NEW r, NEW f, RuleLists(r, f)
  PROVE  RuleInv(r, sync_alarm_editor_from_selected(f))
<1> DEFINE g == sync_alarm_editor_from_selected(f)
<1>1. CASE f.sel \in DOMAIN f.list
  <2> DEFINE v == f.list[f.sel]
  <2>1. IsRow(v) /\ v.of = <<"alarm_rule", f.sel>>  BY <1>1 DEF RuleLists, OwnIn
  <2>2. g = [f EXCEPT !.val = v]  BY <1>1 DEF sync_alarm_editor_from_selected
  <2> HIDE DEF g, v
  <2>3. /\ DOMAIN g = DOMAIN f /\ g.win = f.win /\ g.tab = f.tab /\ g.list = f.list
        /\ g.sel = f.sel /\ g.val = v
    BY <2>2 DEF RuleLists, FormShape
  <2> QED BY <2>1, <2>3 DEF RuleLists, RuleInv, FormShape, g
<1>2. CASE f.sel \notin DOMAIN f.list
  BY <1>2, RuleMade DEF sync_alarm_editor_from_selected
<1> QED BY <1>1, <1>2

LEMMA RuleReloaded ==
  ASSUME NEW r, NEW f, FormShape(f), f.win = "alarm_rule", f.tab = "alarm_rule",
         DOMAIN r = {"alarm_rule"}, OwnIn(r.alarm_rule, "alarm_rule")
  PROVE  RuleInv(r, reload_alarm_data(f, r.alarm_rule))
<1> DEFINE t == r.alarm_rule
           l == Shown(f, t)
           g == Relisted(f, l)
<1>1. DOMAIN l \subseteq DOMAIN t /\ \A id \in DOMAIN l : l[id] = t[id]  BY DEF Shown
<1>2. OwnIn(l, "alarm_rule") /\ Knows(l, t)  BY <1>1 DEF OwnIn, Knows
<1> HIDE DEF l
<1>3. /\ DOMAIN g = DOMAIN f /\ g.win = f.win /\ g.tab = f.tab /\ g.list = l /\ g.val = f.val
  BY DEF Relisted, FormShape
<1> HIDE DEF g
<1>4. RuleLists(r, g)  BY <1>2, <1>3 DEF RuleLists, FormShape
<1>5. reload_alarm_data(f, t) = sync_alarm_editor_from_selected(g)  BY DEF reload_alarm_data, g, l
<1> QED BY <1>4, <1>5, RuleSynced

LEMMA RuleStep ==
  ASSUME RuleInv(rows, form), show_alarm_window
  PROVE  RuleInv(rows', form')
<1>a. /\ FormShape(form) /\ form.win = "alarm_rule" /\ form.tab = "alarm_rule"
      /\ DOMAIN rows = {"alarm_rule"} /\ OwnIn(rows.alarm_rule, "alarm_rule")
      /\ RuleLists(rows, form)
  BY DEF RuleInv, RuleLists
<1>1. CASE ClickRow
  <2>1. PICK f : /\ rows' = rows /\ form' = Synced(f) /\ FormShape(f)
                 /\ Keeps(f, form, {"sel"}) /\ f.sel \in DOMAIN form.list
    BY <1>1, <1>a, Clicking
  <2>2. f.win = "alarm_rule" /\ RuleLists(rows, f)
    BY <1>a, <2>1 DEF RuleLists, FormShape, Keeps
  <2>3. form' = sync_alarm_editor_from_selected(f)  BY <2>1, <2>2 DEF Synced
  <2> QED BY <2>1, <2>2, <2>3, RuleSynced
<1>2. CASE TypeValue  BY <1>2, Typing DEF RuleInv, FormShape, Keeps
<1>3. CASE save_alarm_rule
  <2> DEFINE n == IF form.sel = 0 THEN insert_alarm_rule(form.val)
                  ELSE upsert_alarm_rule(form.sel, form.val)
             id == n.id
             v == n.val
             u == [v EXCEPT !.by = "unread"]
             f == [form EXCEPT !.sel = id, !.val = v]
             t == With(rows.alarm_rule, id, v)
             t2 == With(rows.alarm_rule, id, u)
  <2>1. \/ rows' = [rows EXCEPT !.alarm_rule = t] /\ form' = reload_alarm_data(f, t)
        \/ rows' = [rows EXCEPT !.alarm_rule = t2] /\ form' = f
    BY <1>3, <1>a DEF save_alarm_rule, Stored, Table
  <2>2. IsRow(v) /\ v.of = <<"alarm_rule", id>>
    <3>1. IsRow(form.val) /\ form.val.of = <<"alarm_rule", form.sel>>  BY DEF RuleInv, FormShape
    <3>2. CASE form.sel = 0
      <4>1. v = Own(form.val, "alarm_rule", id)  BY <1>a, <3>2 DEF insert_alarm_rule
      <4> HIDE DEF v, id
      <4> QED BY <3>1, <4>1, OwnShape
    <3>3. CASE form.sel # 0
      <4>1. v = Mine(form.val) /\ id = form.sel  BY <3>3 DEF upsert_alarm_rule
      <4> QED BY <3>1, <4>1, TypedRow
    <3> QED BY <3>2, <3>3
  <2> HIDE DEF id, v, n
  <2>3. IsRow(u) /\ u.of = <<"alarm_rule", id>> /\ u.by # "me"  BY <2>2, TypedRow
  <2> HIDE DEF u
  <2>4. /\ OwnIn(t, "alarm_rule") /\ OwnIn(t2, "alarm_rule") /\ Knows(form.list, t2)
    BY <2>2, <2>3, OwnWith, KnowsWith DEF RuleInv
  <2>5. /\ DOMAIN f = DOMAIN form /\ f.win = form.win /\ f.tab = form.tab /\ f.list = form.list
        /\ f.sel = id /\ f.val = v
    BY <1>a DEF FormShape
  <2> HIDE DEF f, t, t2
  <2>6. FormShape(f)  BY <1>a, <2>2, <2>5 DEF FormShape
  <2>7. CASE rows' = [rows EXCEPT !.alarm_rule = t] /\ form' = reload_alarm_data(f, t)
    <3>1. DOMAIN rows' = {"alarm_rule"} /\ rows'.alarm_rule = t  BY <1>a, <2>7
    <3>2. RuleInv(rows', reload_alarm_data(f, rows'.alarm_rule))
      BY <1>a, <2>4, <2>5, <2>6, <3>1, RuleReloaded
    <3> QED BY <2>7, <3>1, <3>2
  <2>8. CASE rows' = [rows EXCEPT !.alarm_rule = t2] /\ form' = f
    <3>1. DOMAIN rows' = {"alarm_rule"} /\ rows'.alarm_rule = t2  BY <1>a, <2>8
    <3> QED BY <2>2, <2>4, <2>5, <2>6, <2>8, <3>1 DEF RuleInv
  <2> QED BY <2>1, <2>7, <2>8
<1>4. CASE delete_alarm_rule
  <2> DEFINE t == Without(rows.alarm_rule, form.sel)
             g == reload_alarm_data(form, t)
  <2>1. /\ rows' = [rows EXCEPT !.alarm_rule = t]
        /\ form' = new_alarm_rule_form(g) \/ form' = new_alarm_rule_form(form)
    BY <1>4, <1>a DEF delete_alarm_rule, Deleted, Table
  <2>2. OwnIn(t, "alarm_rule") /\ Knows(form.list, t)
    BY OwnWithout, KnowsWithout DEF RuleInv
  <2>3. DOMAIN rows' = {"alarm_rule"} /\ rows'.alarm_rule = t  BY <1>a, <2>1
  <2>4. RuleInv(rows', reload_alarm_data(form, rows'.alarm_rule))
    BY <1>a, <2>2, <2>3, RuleReloaded
  <2>5. RuleLists(rows', g)  BY <2>3, <2>4 DEF RuleInv, RuleLists
  <2>6. RuleLists(rows', form)  BY <1>a, <2>2, <2>3 DEF RuleLists
  <2> HIDE DEF g, t
  <2> QED BY <2>1, <2>5, <2>6, RuleMade
<1>5. CASE Refresh
  <2>1. /\ rows' = rows
        /\ form' = form \/ form' = reload_alarm_data(form, rows.alarm_rule)
    BY <1>5, <1>a DEF Refresh, Reloaded, Table
  <2>2. RuleInv(rows, reload_alarm_data(form, rows.alarm_rule))  BY <1>a, RuleReloaded
  <2> QED BY <2>1, <2>2
<1>6. CASE Shows(new_alarm_rule_form(form))
  BY <1>6, <1>a, RuleMade DEF Shows
<1> QED BY <1>1, <1>2, <1>3, <1>4, <1>5, <1>6 DEF show_alarm_window

-----------------------------------------------------------------------------
(* Archive indices.                                                        *)

ArxInv(r, f) ==
  /\ FormShape(f) /\ f.win = "arx_state" /\ f.tab = "arx_state" /\ DOMAIN r = {"arx_state", "logs"}
  /\ OwnIn(r.arx_state, "arx_state") /\ OwnIn(f.list, "arx_state")
  /\ Knows(f.list, r.arx_state)
  /\ f.val.of = <<"arx_state", f.id>>

LEMMA ArxReloaded ==
  ASSUME NEW r, NEW f, FormShape(f), f.win = "arx_state", f.tab = "arx_state",
         DOMAIN r = {"arx_state", "logs"}, OwnIn(r.arx_state, "arx_state"),
         f.val.of = <<"arx_state", f.id>>
  PROVE  ArxInv(r, reload_arx_state_rows(f, r.arx_state))
<1> DEFINE t == r.arx_state
           l == get_arx_state_rows(f, t)
           g == reload_arx_state_rows(f, t)
<1>1. DOMAIN l \subseteq DOMAIN t /\ \A id \in DOMAIN l : l[id] = t[id]  BY DEF get_arx_state_rows
<1>2. OwnIn(l, "arx_state") /\ Knows(l, t)  BY <1>1 DEF OwnIn, Knows
<1> HIDE DEF l
<1>3. /\ DOMAIN g = DOMAIN f /\ g.win = f.win /\ g.tab = f.tab /\ g.list = l /\ g.val = f.val
      /\ g.id = f.id
  BY DEF reload_arx_state_rows, FormShape, l
<1> HIDE DEF g
<1> QED BY <1>2, <1>3 DEF ArxInv, FormShape, g

LEMMA ArxStep ==
  ASSUME ArxInv(rows, form), show_arx_state_window
  PROVE  ArxInv(rows', form')
<1>a. /\ FormShape(form) /\ form.win = "arx_state" /\ form.tab = "arx_state"
      /\ DOMAIN rows = {"arx_state", "logs"} /\ OwnIn(rows.arx_state, "arx_state")
      /\ form.val.of = <<"arx_state", form.id>> /\ IsRow(form.val)
  BY DEF ArxInv, FormShape
<1>1. CASE ClickRow
  <2>1. PICK f : /\ rows' = rows /\ form' = Synced(f) /\ FormShape(f)
                 /\ Keeps(f, form, {"sel"}) /\ f.sel \in DOMAIN form.list
    BY <1>1, <1>a, Clicking
  <2>2. f.win = "arx_state" /\ f.tab = "arx_state" /\ f.list = form.list
    BY <1>a, <2>1 DEF FormShape, Keeps
  <2> DEFINE v == f.list[f.sel]
  <2>3. form' = [[f EXCEPT !.id = f.sel] EXCEPT !.val = v]  BY <2>1, <2>2 DEF Synced, FormShape
  <2>4. IsRow(v) /\ v.of = <<"arx_state", f.sel>>  BY <2>1, <2>2 DEF ArxInv, OwnIn
  <2> HIDE DEF v
  <2>5. /\ DOMAIN form' = DOMAIN f /\ form'.win = f.win /\ form'.tab = f.tab /\ form'.list = f.list
        /\ form'.id = f.sel /\ form'.val = v
    BY <2>1, <2>3 DEF FormShape
  <2> QED BY <2>1, <2>2, <2>4, <2>5 DEF ArxInv, FormShape
<1>2. CASE TypeValue  BY <1>2, Typing DEF ArxInv, FormShape, Keeps
<1>3. CASE TypeId  BY <1>3, TypingId DEF ArxInv, FormShape, Keeps
<1>4. CASE save_arx_state_row
  <2> DEFINE v == Mine(form.val)
             u == [v EXCEPT !.by = "unread"]
             t == With(rows.arx_state, form.id, v)
             t2 == With(rows.arx_state, form.id, u)
  <2>1. \/ rows' = [rows EXCEPT !.arx_state = t] /\ form' = reload_arx_state_rows(form, t)
        \/ rows' = [rows EXCEPT !.arx_state = t2] /\ form' = form
    BY <1>4, <1>a DEF save_arx_state_row, Stored, Table, upsert_arx_state
  <2>2. IsRow(v) /\ v.of = <<"arx_state", form.id>>  BY <1>a, TypedRow
  <2>3. IsRow(u) /\ u.of = <<"arx_state", form.id>> /\ u.by # "me"  BY <2>2, TypedRow
  <2> HIDE DEF u, v
  <2>4. OwnIn(t, "arx_state") /\ OwnIn(t2, "arx_state") /\ Knows(form.list, t2)
    BY <2>2, <2>3, OwnWith, KnowsWith DEF ArxInv
  <2> HIDE DEF t, t2
  <2>5. CASE rows' = [rows EXCEPT !.arx_state = t] /\ form' = reload_arx_state_rows(form, t)
    <3>1. DOMAIN rows' = {"arx_state", "logs"} /\ rows'.arx_state = t  BY <1>a, <2>5
    <3>2. ArxInv(rows', reload_arx_state_rows(form, rows'.arx_state))
      BY <1>a, <2>4, <3>1, ArxReloaded
    <3> QED BY <2>5, <3>1, <3>2
  <2>6. CASE rows' = [rows EXCEPT !.arx_state = t2] /\ form' = form
    <3>1. DOMAIN rows' = {"arx_state", "logs"} /\ rows'.arx_state = t2  BY <1>a, <2>6
    <3> QED BY <2>4, <2>6, <3>1 DEF ArxInv
  <2> QED BY <2>1, <2>5, <2>6
<1>5. ArxInv(rows, reload_arx_state_rows(form, rows.arx_state))  BY <1>a, ArxReloaded
<1>6. CASE Refresh
  <2>1. /\ rows' = rows
        /\ form' = form \/ form' = reload_arx_state_rows(form, rows.arx_state)
    BY <1>6, <1>a DEF Refresh, Reloaded, Table
  <2> QED BY <1>5, <2>1
<1>7. CASE ClearJournal
  <2>1. /\ form' = form
        /\ rows' = rows \/ \E x : rows' = [rows EXCEPT !.logs = x]
    BY <1>7 DEF ClearJournal
  <2>2. DOMAIN rows' = {"arx_state", "logs"} /\ rows'.arx_state = rows.arx_state  BY <1>a, <2>1
  <2> QED BY <2>1, <2>2 DEF ArxInv
<1>8. CASE clear_all_from_window
  <2>1. /\ \E x : rows' = [rows EXCEPT !.logs = x]
        /\ form' = form \/ form' = reload_arx_state_rows(form, rows.arx_state)
    BY <1>8, <1>a DEF clear_all_from_window, Table
  <2>2. DOMAIN rows' = {"arx_state", "logs"} /\ rows'.arx_state = rows.arx_state  BY <1>a, <2>1
  <2> DEFINE g == reload_arx_state_rows(form, rows.arx_state)
  <2>3. ArxInv(rows, g)  BY <1>5
  <2> HIDE DEF g
  <2> QED BY <2>1, <2>2, <2>3 DEF ArxInv, g
<1> QED BY <1>1, <1>2, <1>3, <1>4, <1>6, <1>7, <1>8 DEF show_arx_state_window

-----------------------------------------------------------------------------
(* The configuration of the scheduler: row 1 is the first.                 *)

CfgInv(r, f) ==
  /\ FormShape(f) /\ f.win = "runtime_cfg" /\ f.tab = "runtime_cfg" /\ DOMAIN r = {"runtime_cfg"}
  /\ OwnIn(r.runtime_cfg, "runtime_cfg") /\ DOMAIN f.list = {}
  /\ DOMAIN r.runtime_cfg \subseteq Nat \ {0}
  /\ DOMAIN r.runtime_cfg = {} \/ 1 \in DOMAIN r.runtime_cfg
  /\ f.val.of = <<"runtime_cfg", 1>>

LEMMA CfgReloaded ==
  ASSUME NEW r, NEW f, FormShape(f), f.win = "runtime_cfg", f.tab = "runtime_cfg",
         DOMAIN r = {"runtime_cfg"}, OwnIn(r.runtime_cfg, "runtime_cfg"), DOMAIN f.list = {},
         DOMAIN r.runtime_cfg \subseteq Nat \ {0},
         DOMAIN r.runtime_cfg = {} \/ 1 \in DOMAIN r.runtime_cfg
  PROVE  CfgInv(r, reload_runtime_cfg_from_db(f, r.runtime_cfg))
<1> DEFINE t == r.runtime_cfg
           v == get_scheduler_runtime_cfg(t)
           g == reload_runtime_cfg_from_db(f, t)
<1>1. IsRow(v) /\ v.of = <<"runtime_cfg", 1>>
  <2>1. CASE DOMAIN t = {}  BY <2>1, RowShape DEF get_scheduler_runtime_cfg
  <2>2. CASE DOMAIN t # {}
    <3>1. Min(DOMAIN t) \in DOMAIN t /\ \A i \in DOMAIN t : Min(DOMAIN t) <= i  BY <2>2, Least
    <3>2. Min(DOMAIN t) = 1
      <4> DEFINE m == Min(DOMAIN t)
      <4>1. m \in Nat \ {0} /\ m <= 1  BY <2>2, <3>1
      <4> HIDE DEF m
      <4>2. m = 1  BY <4>1
      <4> QED BY <4>2 DEF m
    <3>3. v = t[1] /\ 1 \in DOMAIN t  BY <2>2, <3>1, <3>2 DEF get_scheduler_runtime_cfg
    <3> QED BY <3>3 DEF OwnIn
  <2> QED BY <2>1, <2>2
<1> HIDE DEF v
<1>2. /\ DOMAIN g = DOMAIN f /\ g.win = f.win /\ g.tab = f.tab /\ g.list = f.list /\ g.val = v
  BY DEF reload_runtime_cfg_from_db, FormShape, v
<1> HIDE DEF g
<1> QED BY <1>1, <1>2 DEF CfgInv, FormShape, g

LEMMA CfgStep ==
  ASSUME CfgInv(rows, form), show_runtime_cfg_window
  PROVE  CfgInv(rows', form')
<1>a. /\ FormShape(form) /\ form.win = "runtime_cfg" /\ form.tab = "runtime_cfg"
      /\ DOMAIN rows = {"runtime_cfg"} /\ OwnIn(rows.runtime_cfg, "runtime_cfg")
      /\ DOMAIN form.list = {} /\ DOMAIN rows.runtime_cfg \subseteq Nat \ {0}
      /\ DOMAIN rows.runtime_cfg = {} \/ 1 \in DOMAIN rows.runtime_cfg
  BY DEF CfgInv
<1>1. CASE TypeValue
  <2>1. /\ rows' = rows /\ Keeps(form', form, {"val"})
        /\ IsRow(form'.val) /\ form'.val.of = form.val.of
    BY <1>1, <1>a, Typing
  <2> QED BY <2>1 DEF CfgInv, FormShape, Keeps
<1>2. CASE save_runtime_cfg_to_db
  <2> DEFINE v == Mine(form.val)
             t == With(rows.runtime_cfg, 1, v)
  <2>1. form' = form /\ (rows' = rows \/ rows' = [rows EXCEPT !.runtime_cfg = t])
    BY <1>2, <1>a DEF save_runtime_cfg_to_db, upsert_scheduler_runtime_cfg
  <2>2. IsRow(v) /\ v.of = <<"runtime_cfg", 1>>  BY TypedRow DEF CfgInv, FormShape
  <2> HIDE DEF v
  <2>3. OwnIn(t, "runtime_cfg")  BY <1>a, <2>2, OwnWith
  <2>4. DOMAIN t = DOMAIN rows.runtime_cfg \cup {1}  BY DEF With
  <2> HIDE DEF t
  <2>5. CASE rows' = [rows EXCEPT !.runtime_cfg = t]
    <3>1. DOMAIN rows' = {"runtime_cfg"} /\ rows'.runtime_cfg = t  BY <1>a, <2>5
    <3> QED BY <1>a, <2>1, <2>3, <2>4, <3>1 DEF CfgInv
  <2> QED BY <2>1, <2>5
<1>3. CASE Refresh
  <2>1. /\ rows' = rows
        /\ form' = form \/ form' = reload_runtime_cfg_from_db(form, rows.runtime_cfg)
    BY <1>3, <1>a DEF Refresh, Reloaded, Table
  <2>2. CfgInv(rows, reload_runtime_cfg_from_db(form, rows.runtime_cfg))  BY <1>a, CfgReloaded
  <2> QED BY <2>1, <2>2
<1> QED BY <1>1, <1>2, <1>3 DEF show_runtime_cfg_window

-----------------------------------------------------------------------------
(* Scripts: after a load that failed the text is not the group's, nor is   *)
(* the script once saved (`s`); the templates listed are those of the      *)
(* table in any case.                                                      *)

ScriptInv(r, f, s) ==
  /\ FormShape(f) /\ f.win = "gscript" /\ f.tab = "g_script"
  /\ DOMAIN r = {"g_script", "template", "bound"}
  /\ OwnBut(r.g_script, "g_script", s) /\ OwnBut(r.template, "template", s) /\ OwnBut(f.list, "template", s)
  /\ Knows(f.list, r.template)
  /\ \A g \in DOMAIN r.bound : r.bound[g] \in DOMAIN r.template
  /\ s \/ f.lost \/ f.val.of = <<"g_script", f.sel>>

\* Templates and bindings read, and the script of the group or not.
LEMMA ScriptLoaded ==
  ASSUME NEW s, NEW f, NEW g, NEW ok \in BOOLEAN, FormShape(f), f.win = "gscript", f.tab = "g_script",
         DOMAIN rows = {"g_script", "template", "bound"},
         OwnBut(rows.g_script, "g_script", s), OwnBut(rows.template, "template", s),
         \A i \in DOMAIN rows.bound : rows.bound[i] \in DOMAIN rows.template
  PROVE  ScriptInv(rows, load_gscript(f, g, ok), s) /\ load_gscript(f, g, ok).sel = g
<1> DEFINE a == [f EXCEPT !.sel = g]
           b == reload_gscript_templates(a, Templates)
           h == load_group_template_binding(b, g)
           v == IF g \in DOMAIN Scripts THEN Scripts[g] ELSE Row("g_script", g, 0)
           e == load_gscript(f, g, ok)
<1>1. Keeps(a, f, {"sel"}) /\ a.sel = g  BY DEF FormShape, Keeps
<1>2. Keeps(b, a, {"list", "tpl"}) /\ b.list = rows.template
  <2> HIDE DEF a
  <2> DEFINE T == IF a.tpl \in DOMAIN Templates THEN a.tpl ELSE 0
  <2>1. DOMAIN a = {"win", "tab", "sel", "id", "val", "list", "tpl", "lost", "all"}
    BY <1>1 DEF FormShape, Keeps
  <2>2. b = [[a EXCEPT !.list = Templates] EXCEPT !.tpl = T]
    BY <2>1 DEF reload_gscript_templates
  <2> HIDE DEF b, T
  <2> QED BY <2>1, <2>2 DEF Keeps, Templates
<1>3. Keeps(h, b, {"tpl"})
  <2> HIDE DEF a, b
  <2> QED BY DEF load_group_template_binding, Keeps
<1> HIDE DEF a, b
<1>4. /\ DOMAIN h = DOMAIN f /\ h.win = f.win /\ h.tab = f.tab /\ h.sel = g
      /\ h.list = rows.template /\ h.val = f.val
  <2>1. DOMAIN f = {"win", "tab", "sel", "id", "val", "list", "tpl", "lost", "all"}  BY DEF FormShape
  <2> HIDE DEF h
  <2> QED BY <1>1, <1>2, <1>3, <2>1 DEF Keeps
<1>5. IsRow(v) /\ (s \/ v.of = <<"g_script", g>>)  BY RowShape DEF OwnBut, Scripts
<1>6. e = IF ~ok THEN [h EXCEPT !.lost = TRUE] ELSE [[h EXCEPT !.lost = FALSE] EXCEPT !.val = v]
  BY <1>4 DEF load_gscript, FormShape, a, b
<1> HIDE DEF h, v, e
<1>7. /\ DOMAIN e = DOMAIN f /\ e.win = f.win /\ e.tab = f.tab /\ e.sel = g
      /\ e.list = rows.template /\ e.lost = ~ok /\ e.val = IF ok THEN v ELSE f.val
  BY <1>4, <1>6 DEF FormShape
<1>8. Knows(rows.template, rows.template)  BY KnowsSelf
<1>9. FormShape(e)  BY <1>5, <1>7 DEF FormShape
<1>10. ScriptInv(rows, e, s)  BY <1>5, <1>7, <1>8, <1>9 DEF ScriptInv
<1> QED BY <1>7, <1>10 DEF e

\* The form but for the template chosen, whatever the text says.
LEMMA ScriptTurned ==
  ASSUME NEW s, ScriptInv(rows, form, s), rows' = rows, FormShape(form'), Keeps(form', form, {"tpl", "val", "lost"}),
         s \/ form'.lost \/ form'.val.of = <<"g_script", form.sel>>
  PROVE  ScriptInv(rows', form', s)
<1>1. /\ form'.win = form.win /\ form'.tab = form.tab /\ form'.list = form.list /\ form'.sel = form.sel
  BY DEF Keeps, ScriptInv, FormShape
<1> QED BY <1>1 DEF ScriptInv

LEMMA ScriptStep ==
  ASSUME NEW s, ScriptInv(rows, form, s), s \/ ~GoesAstray, show_gscript_window
  PROVE  ScriptInv(rows', form', s)
<1>a. /\ FormShape(form) /\ form.win = "gscript" /\ form.tab = "g_script"
      /\ DOMAIN rows = {"g_script", "template", "bound"}
      /\ OwnBut(rows.g_script, "g_script", s) /\ OwnBut(rows.template, "template", s)
      /\ OwnBut(form.list, "template", s) /\ Knows(form.list, rows.template)
      /\ \A i \in DOMAIN rows.bound : rows.bound[i] \in DOMAIN rows.template
      /\ IsRow(form.val)
  BY DEF ScriptInv, FormShape
<1>1. CASE ChooseGroup
  <2>1. PICK g \in RowIds, ok \in BOOLEAN : rows' = rows /\ form' = load_gscript(form, g, ok)
    BY <1>1 DEF ChooseGroup
  <2>2. ScriptInv(rows, load_gscript(form, g, ok), s)  BY <1>a, ScriptLoaded
  <2> QED BY <2>1, <2>2
<1>2. CASE load_effective_gscript
  <2> DEFINE v == get_effective_g_script(form.sel)
  <2>1. rows' = rows /\ form' = [[form EXCEPT !.val = v] EXCEPT !.lost = FALSE]
    BY <1>2, <1>a DEF load_effective_gscript, Shows, FormShape
  <2>2. IsRow(v) /\ (s \/ v.of = <<"g_script", form.sel>>)
    <3>1. CASE form.sel \in DOMAIN rows.g_script
      BY <1>a, <3>1 DEF get_effective_g_script, Scripts, OwnBut
    <3>2. CASE form.sel \notin DOMAIN rows.g_script
      <4> DEFINE w == rows.template[BoundTo(form.sel)]
      <4>1. form.sel \in DOMAIN rows.bound /\ BoundTo(form.sel) = rows.bound[form.sel]
        BY <1>2, <3>2 DEF load_effective_gscript, Scripts, BoundTo
      <4>2. IsRow(w)  BY <1>a, <4>1 DEF OwnBut
      <4>3. v = Own(w, "g_script", form.sel)
        BY <3>2 DEF get_effective_g_script, Scripts, Templates
      <4> HIDE DEF v, w
      <4> QED BY <4>2, <4>3, OwnShape
    <3> QED BY <3>1, <3>2
  <2> HIDE DEF v
  <2>3. /\ Keeps(form', form, {"tpl", "val", "lost"}) /\ FormShape(form') /\ form'.val = v
    BY <1>a, <2>1, <2>2 DEF Keeps, FormShape
  <2> QED BY <2>1, <2>2, <2>3, ScriptTurned
<1>3. CASE save_gscript
  <2> DEFINE v == Mine(form.val)
             t == With(rows.g_script, form.sel, v)
             g == load_group_template_binding(form, form.sel)
  <2>1. /\ s \/ ~form.lost
        /\ \/ rows' = rows /\ form' = form
           \/ rows' = [rows EXCEPT !.g_script = t] /\ form' = g
    <3>1. s \/ ~form.lost  BY <1>3, <1>a DEF GoesAstray
    <3> QED BY <1>3, <3>1 DEF save_gscript, upsert_g_script
  <2>2. IsRow(v) /\ (s \/ v.of = <<"g_script", form.sel>>)  BY <1>a, <2>1, TypedRow DEF ScriptInv
  <2> HIDE DEF v
  <2>3. OwnBut(t, "g_script", s)  BY <1>a, <2>2, ButWith
  <2>4. Keeps(g, form, {"tpl"})  BY DEF load_group_template_binding, Keeps
  <2>5. /\ DOMAIN g = DOMAIN form /\ g.win = form.win /\ g.tab = form.tab /\ g.list = form.list
        /\ g.sel = form.sel /\ g.val = form.val /\ g.lost = form.lost
    <3> HIDE DEF g
    <3> QED BY <1>a, <2>4 DEF Keeps, FormShape
  <2> HIDE DEF t, g
  <2>6. CASE rows' = [rows EXCEPT !.g_script = t] /\ form' = g
    <3>1. /\ DOMAIN rows' = {"g_script", "template", "bound"} /\ rows'.g_script = t
          /\ rows'.template = rows.template /\ rows'.bound = rows.bound
      BY <1>a, <2>6
    <3> QED BY <2>3, <2>5, <2>6, <3>1 DEF ScriptInv, FormShape
  <2> QED BY <2>1, <2>6
<1>4. CASE TypeValue
  <2>1. /\ rows' = rows /\ Keeps(form', form, {"val"})
        /\ IsRow(form'.val) /\ form'.val.of = form.val.of
    BY <1>4, <1>a, Typing
  <2>2. Keeps(form', form, {"tpl", "val", "lost"}) /\ FormShape(form') /\ form'.lost = form.lost
    BY <1>a, <2>1 DEF Keeps, FormShape
  <2> QED BY <2>1, <2>2, ScriptTurned DEF ScriptInv
<1>5. CASE load_gscript_template_into_editor
  <2> DEFINE w == form.list[form.tpl]
             v == Own(w, "g_script", form.sel)
  <2>1. /\ form.tpl \in DOMAIN form.list /\ rows' = rows
        /\ form' = [[form EXCEPT !.val = v] EXCEPT !.lost = FALSE]
    BY <1>5, <1>a DEF load_gscript_template_into_editor, Shows, FormShape
  <2>2. IsRow(w)  BY <1>a, <2>1 DEF OwnBut
  <2> HIDE DEF w
  <2>3. IsRow(v) /\ v.of = <<"g_script", form.sel>>  BY <2>2, OwnShape
  <2> HIDE DEF v
  <2>4. /\ Keeps(form', form, {"tpl", "val", "lost"}) /\ FormShape(form') /\ form'.val = v
    BY <1>a, <2>1, <2>3 DEF Keeps, FormShape
  <2> QED BY <2>1, <2>3, <2>4, ScriptTurned
<1>6. CASE save_gscript_template
  <2>1. PICK id \in upsert_g_script_template(form.tpl), ok \in BOOLEAN :
          LET v == Own(form.val, "template", id)
              t == With(Templates, id, IF ok THEN v ELSE [v EXCEPT !.by = "unread"])
              f == [form EXCEPT !.tpl = id]
          IN /\ rows' = [rows EXCEPT !.template = t]
             /\ form' = IF ok THEN reload_gscript_templates(f, t) ELSE f
    BY <1>6 DEF save_gscript_template
  <2> DEFINE v == Own(form.val, "template", id)
             u == IF ok THEN v ELSE [v EXCEPT !.by = "unread"]
             t == With(Templates, id, u)
             f == [form EXCEPT !.tpl = id]
  <2>t. t = With(rows.template, id, u)  BY DEF Templates
  <2>2. IsRow(v) /\ v.of = <<"template", id>>  BY <1>a, OwnShape
  <2>4. /\ rows' = [rows EXCEPT !.template = t]
        /\ form' = IF ok THEN reload_gscript_templates(f, t) ELSE f
    BY <2>1
  <2>f. /\ DOMAIN f = DOMAIN form /\ f.win = form.win /\ f.tab = form.tab /\ f.list = form.list
        /\ f.sel = form.sel /\ f.val = form.val /\ f.lost = form.lost
    BY <1>a DEF FormShape
  <2> HIDE DEF f
  <2>3. IsRow(u) /\ u.of = <<"template", id>> /\ (ok \/ u.by # "me")
    <3> HIDE DEF v
    <3> QED BY <2>2, TypedRow
  <2> HIDE DEF v, u
  <2>5. OwnBut(t, "template", s) /\ (ok \/ Knows(form.list, t)) /\ Knows(t, t)
    BY <1>a, <2>t, <2>3, ButWith, KnowsWith, KnowsSelf
  <2>6. DOMAIN rows.template \subseteq DOMAIN t  BY <2>t DEF With
  <2> HIDE DEF t
  <2>7. /\ DOMAIN rows' = {"g_script", "template", "bound"} /\ rows'.g_script = rows.g_script
        /\ rows'.template = t /\ rows'.bound = rows.bound
    BY <1>a, <2>4
  <2>8. /\ DOMAIN form' = DOMAIN form /\ form'.win = form.win /\ form'.tab = form.tab
        /\ form'.list = IF ok THEN t ELSE form.list
        /\ form'.sel = form.sel /\ form'.val = form.val /\ form'.lost = form.lost
    BY <1>a, <2>4, <2>f DEF FormShape, reload_gscript_templates
  <2>9. /\ OwnBut(form'.list, "template", s) /\ Knows(form'.list, t)  BY <1>a, <2>5, <2>8
  <2>10. FormShape(form')  BY <1>a, <2>8 DEF FormShape
  <2>11. \A g \in DOMAIN rows'.bound : rows'.bound[g] \in DOMAIN rows'.template
    BY <1>a, <2>6, <2>7
  <2> QED BY <1>a, <2>5, <2>7, <2>8, <2>9, <2>10, <2>11 DEF ScriptInv
<1>7. CASE delete_selected_gscript_template
  <2> DEFINE t == Without(rows.template, form.tpl)
             b == [g \in {i \in DOMAIN rows.bound : rows.bound[i] # form.tpl} |-> rows.bound[g]]
             f == [form EXCEPT !.tpl = 0]
  <2>1. /\ rows' = [[rows EXCEPT !.template = t] EXCEPT !.bound = b]
        /\ form' = f \/ form' = reload_gscript_templates(f, t)
    BY <1>7, <1>a DEF delete_selected_gscript_template, Templates
  <2>2. OwnBut(t, "template", s) /\ Knows(form.list, t) /\ Knows(t, t)
    BY <1>a, ButWithout, KnowsWithout, KnowsSelf
  <2>3. DOMAIN t = DOMAIN rows.template \ {form.tpl}  BY DEF Without
  <2>4. /\ DOMAIN b \subseteq DOMAIN rows.bound
        /\ \A g \in DOMAIN b : b[g] = rows.bound[g] /\ b[g] # form.tpl
    OBVIOUS
  <2> HIDE DEF b
  <2>5. \A g \in DOMAIN b : b[g] \in DOMAIN t  BY <1>a, <2>3, <2>4
  <2> HIDE DEF t
  <2>6. /\ DOMAIN rows' = {"g_script", "template", "bound"} /\ rows'.g_script = rows.g_script
        /\ rows'.template = t /\ rows'.bound = b
    BY <1>a, <2>1
  <2>7. /\ DOMAIN form' = DOMAIN form /\ form'.win = form.win /\ form'.tab = form.tab
        /\ form'.list \in {t, form.list}
        /\ form'.sel = form.sel /\ form'.val = form.val /\ form'.lost = form.lost
    <3>1. CASE form' = f  BY <1>a, <3>1 DEF FormShape
    <3>2. CASE form' = reload_gscript_templates(f, t)
      <4>1. form' = [[f EXCEPT !.list = t] EXCEPT !.tpl = IF f.tpl \in DOMAIN t THEN f.tpl ELSE 0]
        BY <1>a, <3>2 DEF reload_gscript_templates, FormShape
      <4> QED BY <1>a, <4>1 DEF FormShape
    <3> QED BY <2>1, <3>1, <3>2
  <2>8. OwnBut(form'.list, "template", s) /\ Knows(form'.list, t)  BY <1>a, <2>2, <2>7
  <2>9. FormShape(form')  BY <1>a, <2>7 DEF FormShape
  <2> QED BY <1>a, <2>2, <2>5, <2>6, <2>7, <2>8, <2>9 DEF ScriptInv
<1>8. CASE bind_template_to_group
  <2> DEFINE b == set_group_template(rows.bound, form.sel, form.tpl)
  <2>1. rows' = [rows EXCEPT !.bound = b] /\ form' = form  BY <1>8 DEF bind_template_to_group
  <2>2. \A g \in DOMAIN b : b[g] \in DOMAIN rows.template
    BY <1>a DEF set_group_template, Without, With, Templates
  <2> HIDE DEF b
  <2>3. /\ DOMAIN rows' = {"g_script", "template", "bound"} /\ rows'.g_script = rows.g_script
        /\ rows'.template = rows.template /\ rows'.bound = b
    BY <1>a, <2>1
  <2> QED BY <2>1, <2>2, <2>3 DEF ScriptInv
<1>9. CASE \E k \in DOMAIN form.list \cup {0} : Shows([form EXCEPT !.tpl = k])
  <2>1. PICK k : rows' = rows /\ form' = [form EXCEPT !.tpl = k]  BY <1>9 DEF Shows
  <2>2. Keeps(form', form, {"tpl", "val", "lost"}) /\ FormShape(form')
        /\ form'.lost = form.lost /\ form'.val = form.val
    BY <1>a, <2>1 DEF Keeps, FormShape
  <2> QED BY <2>1, <2>2, ScriptTurned DEF ScriptInv
<1> QED BY <1>1, <1>2, <1>3, <1>4, <1>5, <1>6, <1>7, <1>8, <1>9 DEF show_gscript_window

-----------------------------------------------------------------------------
(* Another program writes a row or deletes one.                            *)

LEMMA OtherEditsKeepBut ==
  ASSUME NEW s, OtherEdits, TablesOf(form.win) \subseteq DOMAIN rows,
         \A t \in TablesOf(form.win) : OwnBut(rows[t], t, s)
  PROVE  /\ form' = form /\ DOMAIN rows' = DOMAIN rows
         /\ \A t \in TablesOf(form.win) :
               /\ OwnBut(rows'[t], t, s)
               /\ \A list : Knows(list, rows[t]) => Knows(list, rows'[t])
               /\ form.win \notin {"dict", "alarm_rule"} => DOMAIN rows'[t] = DOMAIN rows[t]
         /\ \A t \in DOMAIN rows \ TablesOf(form.win) : rows'[t] = rows[t]
<1>1. PICK x \in TablesOf(form.win) : \E id \in DOMAIN rows[x] :
         \/ rows' = [rows EXCEPT ![x][id] = [Row(x, id, 1000) EXCEPT !.by = "other"]]
         \/ form.win \in {"dict", "alarm_rule"} /\ rows' = [rows EXCEPT ![x] = Without(rows[x], id)]
  BY DEF OtherEdits
<1>2. PICK id \in DOMAIN rows[x] :
         \/ rows' = [rows EXCEPT ![x][id] = [Row(x, id, 1000) EXCEPT !.by = "other"]]
         \/ form.win \in {"dict", "alarm_rule"} /\ rows' = [rows EXCEPT ![x] = Without(rows[x], id)]
  BY <1>1
<1>3. \E u : /\ rows' = [rows EXCEPT ![x] = u] /\ OwnBut(u, x, s)
             /\ \A list : Knows(list, rows[x]) => Knows(list, u)
             /\ form.win \notin {"dict", "alarm_rule"} => DOMAIN u = DOMAIN rows[x]
  <2>1. CASE rows' = [rows EXCEPT ![x][id] = [Row(x, id, 1000) EXCEPT !.by = "other"]]
    <3> DEFINE v == [Row(x, id, 1000) EXCEPT !.by = "other"]
               u == [rows[x] EXCEPT ![id] = v]
    <3>1. IsRow(v) /\ v.of = <<x, id>> /\ v.by = "other"  BY DEF Row, IsRow
    <3>2. rows' = [rows EXCEPT ![x] = u]  BY <2>1
    <3> HIDE DEF v
    <3>3. /\ DOMAIN u = DOMAIN rows[x] /\ OwnBut(u, x, s)
          /\ \A list : Knows(list, rows[x]) => Knows(list, u)
      BY <3>1, OtherRow
    <3> HIDE DEF u
    <3> QED BY <3>2, <3>3
  <2>2. CASE form.win \in {"dict", "alarm_rule"} /\ rows' = [rows EXCEPT ![x] = Without(rows[x], id)]
    <3> DEFINE u == Without(rows[x], id)
    <3>1. OwnBut(u, x, s)  BY ButWithout
    <3>2. ASSUME NEW list, Knows(list, rows[x]) PROVE Knows(list, u)  BY <3>2, KnowsWithout
    <3> HIDE DEF u
    <3>3. rows' = [rows EXCEPT ![x] = u]  BY <2>2 DEF u
    <3> QED BY <2>2, <3>1, <3>2, <3>3
  <2> QED BY <1>2, <2>1, <2>2
<1>4. PICK u : /\ rows' = [rows EXCEPT ![x] = u] /\ OwnBut(u, x, s)
               /\ \A list : Knows(list, rows[x]) => Knows(list, u)
               /\ form.win \notin {"dict", "alarm_rule"} => DOMAIN u = DOMAIN rows[x]
  BY <1>3
<1>5. form' = form  BY DEF OtherEdits
<1>6. DOMAIN rows' = DOMAIN rows /\ \A t \in DOMAIN rows : rows'[t] = IF t = x THEN u ELSE rows[t]
  BY <1>4
<1> QED BY <1>4, <1>5, <1>6

LEMMA OtherEditsKeep ==
  ASSUME OtherEdits, TablesOf(form.win) \subseteq DOMAIN rows,
         \A t \in TablesOf(form.win) : OwnIn(rows[t], t)
  PROVE  /\ form' = form /\ DOMAIN rows' = DOMAIN rows
         /\ \A t \in TablesOf(form.win) :
               /\ OwnIn(rows'[t], t)
               /\ \A list : Knows(list, rows[t]) => Knows(list, rows'[t])
               /\ form.win \notin {"dict", "alarm_rule"} => DOMAIN rows'[t] = DOMAIN rows[t]
<1> DEFINE s == FALSE
<1>1. \A t \in TablesOf(form.win) : OwnBut(rows[t], t, s)  BY OwnIsBut
<1>2. \A t, tab : OwnBut(t, tab, s) => OwnIn(t, tab)  BY DEF OwnBut, OwnIn
<1> HIDE DEF s
<1> QED BY <1>1, <1>2, OtherEditsKeepBut

LEMMA OtherEditsStep ==
  ASSUME NEW s, OtherEdits,
         \/ ObjInv(rows, form) \/ RegInv(rows, form) \/ DictInv(rows, form, s) \/ RuleInv(rows, form)
         \/ ArxInv(rows, form) \/ CfgInv(rows, form) \/ ScriptInv(rows, form, s)
  PROVE  \/ ObjInv(rows', form') \/ RegInv(rows', form') \/ DictInv(rows', form', s)
         \/ RuleInv(rows', form') \/ ArxInv(rows', form') \/ CfgInv(rows', form')
         \/ ScriptInv(rows', form', s)
<1>1. CASE ObjInv(rows, form)
  <2>1. TablesOf(form.win) = {"obj"}  BY <1>1 DEF ObjInv, TablesOf
  <2>2. OwnIn(rows.obj, "obj")  BY <1>1 DEF ObjInv
  <2>3. /\ form' = form /\ DOMAIN rows' = DOMAIN rows /\ OwnIn(rows'.obj, "obj")
        /\ \A list : Knows(list, rows.obj) => Knows(list, rows'.obj)
        /\ DOMAIN rows'.obj = DOMAIN rows.obj
    BY <1>1, <2>1, <2>2, OtherEditsKeep DEF ObjInv
  <2> QED BY <1>1, <2>3 DEF ObjInv
<1>2. CASE RegInv(rows, form)
  <2>1. TablesOf(form.win) = {"reg"}  BY <1>2 DEF RegInv, TablesOf
  <2>2. OwnIn(rows.reg, "reg")  BY <1>2 DEF RegInv
  <2>3. /\ form' = form /\ DOMAIN rows' = DOMAIN rows /\ OwnIn(rows'.reg, "reg")
        /\ \A list : Knows(list, rows.reg) => Knows(list, rows'.reg)
    BY <1>2, <2>1, <2>2, OtherEditsKeep DEF RegInv
  <2> QED BY <1>2, <2>3 DEF RegInv
<1>3. CASE DictInv(rows, form, s)
  <2>1. TablesOf(form.win) = {"ip", "port"}  BY <1>3 DEF DictInv, TablesOf
  <2>2. OwnBut(rows.ip, "ip", s) /\ OwnBut(rows.port, "port", s)  BY <1>3 DEF DictInv
  <2>3. /\ form' = form /\ DOMAIN rows' = DOMAIN rows
        /\ OwnBut(rows'.ip, "ip", s) /\ OwnBut(rows'.port, "port", s)
        /\ \A t \in {"ip", "port"} : \A list : Knows(list, rows[t]) => Knows(list, rows'[t])
    BY <1>3, <2>1, <2>2, OtherEditsKeepBut DEF DictInv
  <2> QED BY <1>3, <2>3 DEF DictInv
<1>4. CASE RuleInv(rows, form)
  <2>1. TablesOf(form.win) = {"alarm_rule"}  BY <1>4 DEF RuleInv, TablesOf
  <2>2. OwnIn(rows.alarm_rule, "alarm_rule")  BY <1>4 DEF RuleInv
  <2>3. /\ form' = form /\ DOMAIN rows' = DOMAIN rows /\ OwnIn(rows'.alarm_rule, "alarm_rule")
        /\ \A list : Knows(list, rows.alarm_rule) => Knows(list, rows'.alarm_rule)
    BY <1>4, <2>1, <2>2, OtherEditsKeep DEF RuleInv
  <2> QED BY <1>4, <2>3 DEF RuleInv
<1>5. CASE ArxInv(rows, form)
  <2>1. TablesOf(form.win) = {"arx_state"}  BY <1>5 DEF ArxInv, TablesOf
  <2>2. OwnIn(rows.arx_state, "arx_state")  BY <1>5 DEF ArxInv
  <2>3. /\ form' = form /\ DOMAIN rows' = DOMAIN rows /\ OwnIn(rows'.arx_state, "arx_state")
        /\ \A list : Knows(list, rows.arx_state) => Knows(list, rows'.arx_state)
    BY <1>5, <2>1, <2>2, OtherEditsKeep DEF ArxInv
  <2> QED BY <1>5, <2>3 DEF ArxInv
<1>6. CASE CfgInv(rows, form)
  <2>1. TablesOf(form.win) = {"runtime_cfg"}  BY <1>6 DEF CfgInv, TablesOf
  <2>2. OwnIn(rows.runtime_cfg, "runtime_cfg")  BY <1>6 DEF CfgInv
  <2>3. /\ form' = form /\ DOMAIN rows' = DOMAIN rows /\ OwnIn(rows'.runtime_cfg, "runtime_cfg")
        /\ DOMAIN rows'.runtime_cfg = DOMAIN rows.runtime_cfg
    BY <1>6, <2>1, <2>2, OtherEditsKeep DEF CfgInv
  <2> QED BY <1>6, <2>3 DEF CfgInv
<1>7. CASE ScriptInv(rows, form, s)
  <2>1. TablesOf(form.win) = {"g_script", "template"}  BY <1>7 DEF ScriptInv, TablesOf
  <2>2. OwnBut(rows.g_script, "g_script", s) /\ OwnBut(rows.template, "template", s)  BY <1>7 DEF ScriptInv
  <2>3. /\ form' = form /\ DOMAIN rows' = DOMAIN rows
        /\ OwnBut(rows'.g_script, "g_script", s) /\ OwnBut(rows'.template, "template", s)
        /\ \A list : Knows(list, rows.template) => Knows(list, rows'.template)
        /\ DOMAIN rows'.template = DOMAIN rows.template /\ rows'.bound = rows.bound
    BY <1>7, <2>1, <2>2, OtherEditsKeepBut DEF ScriptInv
  <2> QED BY <1>7, <2>3 DEF ScriptInv
<1> QED BY <1>1, <1>2, <1>3, <1>4, <1>5, <1>6, <1>7

-----------------------------------------------------------------------------
(* A window of the station, whichever it is.                               *)

WindowInv(r, f, s) ==
  \/ ObjInv(r, f) \/ RegInv(r, f) \/ DictInv(r, f, s) \/ RuleInv(r, f)
  \/ ArxInv(r, f) \/ CfgInv(r, f) \/ ScriptInv(r, f, s)

LEMMA WindowIsOpen == ASSUME NEW r, NEW f, NEW s, WindowInv(r, f, s) PROVE f # Shut
<1>1. FormShape(f)
  BY DEF WindowInv, ObjInv, RegInv, DictInv, RuleInv, ArxInv, CfgInv, ScriptInv
<1>2. "tab" \in DOMAIN f /\ "tab" \notin DOMAIN Shut  BY <1>1 DEF FormShape, Shut
<1> QED BY <1>2

\* What is known while no form has been saved astray is more than what is known after.
LEMMA WindowWeakened ==
  ASSUME NEW r, NEW f, NEW s, WindowInv(r, f, s), NEW s2, s2
  PROVE  WindowInv(r, f, s2)
<1>1. \A t, tab : OwnBut(t, tab, s) => OwnBut(t, tab, s2)  BY DEF OwnBut
<1>2. DictInv(r, f, s) => DictInv(r, f, s2)  BY <1>1 DEF DictInv
<1>3. ScriptInv(r, f, s) => ScriptInv(r, f, s2)  BY <1>1 DEF ScriptInv
<1> QED BY <1>2, <1>3 DEF WindowInv

LEMMA WindowOpens ==
  ASSUME NEW s, EditorsInit
  PROVE  WindowInv(rows, form, s)
<1>1. PICK w \in Windows, all \in BOOLEAN :
        /\ \E old \in {OldRows} \cup IF w = "runtime_cfg" THEN {{}} ELSE {} :
             rows = [t \in TablesOf(w) \cup Beside(w) |->
                       CASE t = "bound" -> <<>>
                         [] t = "logs" -> [j \in {"arx_val", "elam", "poll_log"} |-> OldRows \cup {0}]
                         [] OTHER -> [id \in old |-> Row(t, id, 1)]]
        /\ form = Opened(w, all)
  BY DEF EditorsInit
<1>2. PICK old \in {OldRows} \cup IF w = "runtime_cfg" THEN {{}} ELSE {} :
        rows = [t \in TablesOf(w) \cup Beside(w) |->
                  CASE t = "bound" -> <<>>
                    [] t = "logs" -> [j \in {"arx_val", "elam", "poll_log"} |-> OldRows \cup {0}]
                    [] OTHER -> [id \in old |-> Row(t, id, 1)]]
  BY <1>1
<1>3. DOMAIN rows = TablesOf(w) \cup Beside(w)  BY <1>2
<1>4. \A t \in TablesOf(w) : t # "bound" /\ t # "logs"
  BY EditorWindows DEF TablesOf
<1>5. \A t \in TablesOf(w) : rows[t] = [id \in old |-> Row(t, id, 1)]
  BY <1>2, <1>4
<1>6. ASSUME NEW t \in TablesOf(w) PROVE DOMAIN rows[t] = old /\ OwnIn(rows[t], t)
  <2>1. DOMAIN rows[t] = old /\ \A id \in old : rows[t][id] = Row(t, id, 1)  BY <1>5, <1>6
  <2> QED BY <2>1, RowShape DEF OwnIn
<1>7. old = OldRows \/ (w = "runtime_cfg" /\ old = {})  BY <1>2
<1> DEFINE t0 == IF w = "dict" THEN "ip" ELSE IF w = "gscript" THEN "g_script" ELSE w
           f == [win |-> w, tab |-> t0, sel |-> 0, id |-> 0,
                 val |-> NoRow(t0), list |-> <<>>, tpl |-> 0, lost |-> FALSE, all |-> all]
<1>8. /\ FormShape(f) /\ f.win = w /\ f.tab = t0 /\ f.sel = 0 /\ f.id = 0 /\ f.val.of = <<t0, 0>>
      /\ f.list = <<>>
  BY RowShape DEF FormShape, NoRow
<1>9. form = CASE w = "gscript" -> load_gscript(f, Min(OldRows), TRUE)
               [] w = "obj" -> sync_obj_editor_from_selected([f EXCEPT !.list = rows[t0], !.sel = Min(OldRows)])
               [] OTHER -> Reloaded(f, rows[t0])
  BY <1>1 DEF Opened
<1>10. DOMAIN f.list = {}  BY <1>8
<1>11. Min(OldRows) \in OldRows  BY EditorIds, Least
<1> HIDE DEF f
<1>12. CASE w = "obj"
  <2> DEFINE g == [[f EXCEPT !.list = rows.obj] EXCEPT !.sel = Min(OldRows)]
  <2>1. form = sync_obj_editor_from_selected(g)  BY <1>8, <1>9, <1>12 DEF FormShape
  <2>2. DOMAIN rows = {"obj"} /\ OwnIn(rows.obj, "obj") /\ DOMAIN rows.obj = OldRows
    BY <1>3, <1>6, <1>7, <1>12 DEF TablesOf, Beside
  <2>3. FormShape(g) /\ g.win = "obj" /\ g.tab = "obj" /\ g.list = rows.obj /\ g.sel = Min(OldRows)
    BY <1>8, <1>12 DEF FormShape
  <2> HIDE DEF g
  <2>4. Knows(rows.obj, rows.obj)  BY KnowsSelf
  <2>5. ObjInv(rows, form)  BY <1>11, <2>1, <2>2, <2>3, <2>4, ObjSynced
  <2> QED BY <2>5 DEF WindowInv
<1>13. CASE w = "reg"
  <2>1. DOMAIN rows = {"reg"} /\ OwnIn(rows.reg, "reg")  BY <1>3, <1>6, <1>13 DEF TablesOf, Beside
  <2>2. form = reload_reg_rows(f, rows.reg)  BY <1>8, <1>9, <1>13 DEF Reloaded
  <2>3. RegInv(rows, form)  BY <1>8, <1>13, <2>1, <2>2, RegReloaded
  <2> QED BY <2>3 DEF WindowInv
<1>14. CASE w = "dict"
  <2>1. DOMAIN rows = {"ip", "port"} /\ OwnBut(rows.ip, "ip", s) /\ OwnBut(rows.port, "port", s)
    BY <1>3, <1>6, <1>14, OwnIsBut DEF TablesOf, Beside
  <2>2. form = reload_dict_items(f, rows[f.tab])  BY <1>8, <1>9, <1>14 DEF Reloaded
  <2>3. DictInv(rows, form, s)  BY <1>8, <1>14, <2>1, <2>2, DictReloaded
  <2> QED BY <2>3 DEF WindowInv
<1>15. CASE w = "alarm_rule"
  <2>1. DOMAIN rows = {"alarm_rule"} /\ OwnIn(rows.alarm_rule, "alarm_rule")
    BY <1>3, <1>6, <1>15 DEF TablesOf, Beside
  <2>2. form = reload_alarm_data(f, rows.alarm_rule)  BY <1>8, <1>9, <1>15 DEF Reloaded
  <2>3. RuleInv(rows, form)  BY <1>8, <1>15, <2>1, <2>2, RuleReloaded
  <2> QED BY <2>3 DEF WindowInv
<1>16. CASE w = "arx_state"
  <2>1. DOMAIN rows = {"arx_state", "logs"} /\ OwnIn(rows.arx_state, "arx_state")
    BY <1>3, <1>6, <1>16 DEF TablesOf, Beside
  <2>2. form = reload_arx_state_rows(f, rows.arx_state)  BY <1>8, <1>9, <1>16 DEF Reloaded
  <2>3. ArxInv(rows, form)  BY <1>8, <1>16, <2>1, <2>2, ArxReloaded
  <2> QED BY <2>3 DEF WindowInv
<1>17. CASE w = "runtime_cfg"
  <2>1. /\ DOMAIN rows = {"runtime_cfg"} /\ OwnIn(rows.runtime_cfg, "runtime_cfg")
        /\ DOMAIN rows.runtime_cfg = old
    BY <1>3, <1>6, <1>17 DEF TablesOf, Beside
  <2>2. form = reload_runtime_cfg_from_db(f, rows.runtime_cfg)  BY <1>8, <1>9, <1>17 DEF Reloaded
  <2>3. DOMAIN rows.runtime_cfg \subseteq Nat \ {0}  BY <1>7, <2>1, EditorIds
  <2>4. DOMAIN rows.runtime_cfg = {} \/ 1 \in DOMAIN rows.runtime_cfg
    BY <1>7, <1>17, <2>1, RuntimeRow
  <2>5. CfgInv(rows, form)  BY <1>8, <1>10, <1>17, <2>1, <2>2, <2>3, <2>4, CfgReloaded
  <2> QED BY <2>5 DEF WindowInv
<1>18. CASE w = "gscript"
  <2>1. /\ DOMAIN rows = {"g_script", "template", "bound"}
        /\ OwnBut(rows.g_script, "g_script", s) /\ OwnBut(rows.template, "template", s)
    BY <1>3, <1>6, <1>18, OwnIsBut DEF TablesOf, Beside
  <2>2. rows.bound = <<>> /\ DOMAIN rows.bound = {}
    BY <1>2, <1>18 DEF TablesOf, Beside
  <2>3. form = load_gscript(f, Min(OldRows), TRUE)  BY <1>9, <1>18
  <2>4. ScriptInv(rows, form, s)  BY <1>8, <1>18, <2>1, <2>2, <2>3, ScriptLoaded
  <2> QED BY <2>4 DEF WindowInv
<1> QED BY EditorWindows, <1>12, <1>13, <1>14, <1>15, <1>16, <1>17, <1>18

LEMMA WindowStep ==
  ASSUME NEW s, WindowInv(rows, form, s), s \/ ~GoesAstray, EditorsNext
  PROVE  WindowInv(rows', form', s)
<1>1. CASE OtherEdits
  BY <1>1, OtherEditsStep DEF WindowInv
<1>2. CASE show_obj_editor
  <2>1. form.win = "obj"  BY <1>2 DEF show_obj_editor
  <2>2. ObjInv(rows, form)
    BY <2>1 DEF WindowInv, RegInv, DictInv, RuleInv, ArxInv, CfgInv, ScriptInv
  <2> QED BY <1>2, <2>2, ObjStep DEF WindowInv
<1>3. CASE show_reg_editor
  <2>1. form.win = "reg"  BY <1>3 DEF show_reg_editor
  <2>2. RegInv(rows, form)
    BY <2>1 DEF WindowInv, ObjInv, DictInv, RuleInv, ArxInv, CfgInv, ScriptInv
  <2> QED BY <1>3, <2>2, RegStep DEF WindowInv
<1>4. CASE show_dict_editor
  <2>1. form.win = "dict"  BY <1>4 DEF show_dict_editor
  <2>2. DictInv(rows, form, s)
    BY <2>1 DEF WindowInv, ObjInv, RegInv, RuleInv, ArxInv, CfgInv, ScriptInv
  <2> QED BY <1>4, <2>2, DictStep DEF WindowInv
<1>5. CASE show_alarm_window
  <2>1. form.win = "alarm_rule"  BY <1>5 DEF show_alarm_window
  <2>2. RuleInv(rows, form)
    BY <2>1 DEF WindowInv, ObjInv, RegInv, DictInv, ArxInv, CfgInv, ScriptInv
  <2> QED BY <1>5, <2>2, RuleStep DEF WindowInv
<1>6. CASE show_arx_state_window
  <2>1. form.win = "arx_state"  BY <1>6 DEF show_arx_state_window
  <2>2. ArxInv(rows, form)
    BY <2>1 DEF WindowInv, ObjInv, RegInv, DictInv, RuleInv, CfgInv, ScriptInv
  <2> QED BY <1>6, <2>2, ArxStep DEF WindowInv
<1>7. CASE show_runtime_cfg_window
  <2>1. form.win = "runtime_cfg"  BY <1>7 DEF show_runtime_cfg_window
  <2>2. CfgInv(rows, form)
    BY <2>1 DEF WindowInv, ObjInv, RegInv, DictInv, RuleInv, ArxInv, ScriptInv
  <2> QED BY <1>7, <2>2, CfgStep DEF WindowInv
<1>8. CASE show_gscript_window
  <2>1. form.win = "gscript"  BY <1>8 DEF show_gscript_window
  <2>2. ScriptInv(rows, form, s)
    BY <2>1 DEF WindowInv, ObjInv, RegInv, DictInv, RuleInv, ArxInv, CfgInv
  <2> QED BY <1>8, <2>2, ScriptStep DEF WindowInv
<1> QED BY <1>1, <1>2, <1>3, <1>4, <1>5, <1>6, <1>7, <1>8 DEF EditorsNext

LEMMA WindowSafe ==
  ASSUME WindowInv(rows, form, stray)
  PROVE  RowsKeepTheirOwn /\ ListIsCurrent
<1>1. CASE ObjInv(rows, form)
  BY <1>1 DEF ObjInv, OwnIn, Knows, RowsKeepTheirOwn, ListIsCurrent, Table
<1>2. CASE RegInv(rows, form)
  BY <1>2 DEF RegInv, OwnIn, Knows, RowsKeepTheirOwn, ListIsCurrent, Table
<1>3. CASE DictInv(rows, form, stray)
  BY <1>3 DEF DictInv, OwnBut, Knows, RowsKeepTheirOwn, ListIsCurrent, Table
<1>4. CASE RuleInv(rows, form)
  BY <1>4 DEF RuleInv, OwnIn, Knows, RowsKeepTheirOwn, ListIsCurrent, Table
<1>5. CASE ArxInv(rows, form)
  BY <1>5 DEF ArxInv, OwnIn, Knows, RowsKeepTheirOwn, ListIsCurrent, Table
<1>6. CASE CfgInv(rows, form)
  BY <1>6 DEF CfgInv, OwnIn, RowsKeepTheirOwn, ListIsCurrent, Table
<1>7. CASE ScriptInv(rows, form, stray)
  BY <1>7 DEF ScriptInv, OwnBut, Knows, RowsKeepTheirOwn, ListIsCurrent, Templates
<1> QED BY <1>1, <1>2, <1>3, <1>4, <1>5, <1>6, <1>7 DEF WindowInv

-----------------------------------------------------------------------------
(* The station, with either its table or one of its windows or both.       *)

DeskIInv ==
  /\ StationInv(kpz, desk) \/ (kpz = <<>> /\ desk = [list |-> <<>>])
  /\ stray \in BOOLEAN
  /\ WindowInv(rows, form, stray) \/ NoEditor

LEMMA DeskStarts ==
  ASSUME DeskInit
  PROVE  DeskIInv
<1>1. CASE EditorsInit
  <2>1. WindowInv(rows, form, stray) /\ stray = FALSE  BY <1>1, WindowOpens DEF EditorsInit
  <2> QED BY <2>1, StationStarts DEF DeskInit, DeskIInv, NoStation
<1>2. CASE NoEditor
  BY <1>2, StationStarts DEF DeskInit, DeskIInv, NoStation, NoEditor
<1> QED BY <1>1, <1>2 DEF DeskInit

LEMMA DeskSteps ==
  ASSUME DeskIInv, "regroup" \notin Habits, [DeskNext]_<<stationVars, editorVars>>
  PROVE  DeskIInv'
<1>1. CASE kpz # <<>> /\ StationNext /\ UNCHANGED editorVars
  <2>1. StationInv(kpz, desk)  BY <1>1 DEF DeskIInv
  <2>2. StationInv(kpz', desk')  BY <1>1, <2>1, StationStep
  <2>3. rows' = rows /\ form' = form /\ stray' = stray  BY <1>1 DEF editorVars
  <2> QED BY <2>2, <2>3 DEF DeskIInv, NoEditor
<1>2. CASE form # Shut /\ EditorsNext /\ UNCHANGED <<kpz, desk>>
  <2>1. WindowInv(rows, form, stray) /\ stray \in BOOLEAN  BY <1>2 DEF DeskIInv, NoEditor
  <2>2. stray' = (stray \/ GoesAstray)  BY <1>2 DEF EditorsNext
  <2>3. CASE stray \/ ~GoesAstray
    <3>1. stray' = stray  BY <2>1, <2>2, <2>3
    <3>2. WindowInv(rows', form', stray)  BY <1>2, <2>1, <2>3, WindowStep
    <3> QED BY <1>2, <2>1, <3>1, <3>2 DEF DeskIInv
  <2>4. CASE GoesAstray
    <3>1. stray' = TRUE  BY <2>2, <2>4
    <3>2. WindowInv(rows, form, stray')  BY <2>1, <3>1, WindowWeakened
    <3>3. WindowInv(rows', form', stray')  BY <1>2, <3>1, <3>2, WindowStep
    <3> QED BY <1>2, <3>1, <3>3 DEF DeskIInv
  <2> QED BY <2>3, <2>4
<1>3. CASE UNCHANGED <<stationVars, editorVars>>
  BY <1>3 DEF DeskIInv, NoEditor, stationVars, editorVars
<1> QED BY <1>1, <1>2, <1>3 DEF DeskNext

LEMMA DeskSafe ==
  ASSUME DeskIInv
  PROVE  FormsKeepToTheirRows
<1>1. KpzRowsKeepTheirOwn /\ KpzListIsCurrent
  <2>1. CASE StationInv(kpz, desk)  BY <2>1, StationSafe
  <2>2. CASE kpz = <<>> /\ desk = [list |-> <<>>]
    BY <2>2 DEF KpzRowsKeepTheirOwn, KpzListIsCurrent
  <2> QED BY <2>1, <2>2 DEF DeskIInv
<1>2. RowsKeepTheirOwn /\ ListIsCurrent
  <2>1. CASE WindowInv(rows, form, stray)  BY <2>1, WindowSafe
  <2>2. CASE NoEditor
    BY <2>2 DEF NoEditor, RowsKeepTheirOwn, ListIsCurrent
  <2> QED BY <2>1, <2>2 DEF DeskIInv
<1> QED BY <1>1, <1>2 DEF FormsKeepToTheirRows

\* The inductive invariant of the station.  It holds of a user who does not
\* select another control point under an open list of groups, whose "save" goes
\* to the one selected (group_editor.rs:12).  What is saved after a load that
\* failed, message or not (dict_editor.rs:10, 38, gscript.rs:328, 428), is in it:
\* the rows are then no longer their own, and the rest still holds.
THEOREM DeskIsInductive ==
  ASSUME "regroup" \notin Habits
  PROVE  DeskSpec => []DeskIInv
<1>1. DeskInit => DeskIInv  BY DeskStarts
<1>2. DeskIInv /\ [DeskNext]_<<stationVars, editorVars>> => DeskIInv'  BY DeskSteps
<1> QED BY <1>1, <1>2, PTL DEF DeskSpec

\* Whatever is selected, typed, refused, half stored or not read again, and
\* whatever others write meanwhile, a row is stored under the id it was read
\* from or typed for until a form is saved whose load had failed, and the list
\* shows what this station stored last.
THEOREM DeskKeepsToItsRows ==
  ASSUME "regroup" \notin Habits
  PROVE  DeskSpec => []FormsKeepToTheirRows
<1>1. DeskIInv => FormsKeepToTheirRows  BY DeskSafe
<1> QED BY <1>1, DeskIsInductive, PTL

=============================================================================
