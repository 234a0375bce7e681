------------------------------- MODULE Script -------------------------------
(***************************************************************************)
(* The script language of the server, which the operator station and the   *)
(* configurator carry copies of (ss4 and ss5 script.rs): a text is read by *)
(* a tokenizer and two parsers, compiled into instructions and run on a    *)
(* stack machine that gives up after a number of steps.                    *)
(*                                                                         *)
(* A token is a string and a text a sequence of tokens: how characters are *)
(* gathered into tokens is left out, but not what the tokenizer does with  *)
(* a symbol it does not know.  Numbers are whole: a quotient keeps its     *)
(* whole part, and the functions that only concern fractions and dates     *)
(* (f32, sqrt, floor, ceil, round, pow, dt2unix) are left out.             *)
(***************************************************************************)
EXTENDS Integers, Sequences, FiniteSets, SequencesExt, FiniteSetsExt

CONSTANTS
  Trees,      \* programs as trees: what somebody means to write
  Broken,        \* texts that are no program
  Names,         \* the tokens that are identifiers, keywords included
  NumberOf,      \* number token -> its value
  Unknown,       \* symbols the tokenizers do not know
  Limits,        \* the step limits to run under (max_steps, 100000)
  AnswerWords,         \* the words of an answer the script decodes
  WordSize,      \* how many values a word has (65536)
  HiLo,          \* whether the first word of a pair is the high one
  RvOf,          \* key -> value of a register (0 for other keys)
  ArchiveValue   \* what av answers

ASSUME ScriptAssumption ==
  /\ \A n \in DOMAIN NumberOf : NumberOf[n] \in Nat
  /\ Names \cap Unknown = {} /\ DOMAIN NumberOf \cap (Names \cup Unknown) = {}
  /\ Limits \subseteq Nat /\ HiLo \in BOOLEAN /\ WordSize \in Nat \ {0}

VARIABLES
  wrote,         \* the program the text was printed from, or NoProgram
  text,          \* the tokens
  stage,         \* "text", "ready", "done", "limit" or "refused"
  spin,          \* turns of a loop of the parser that gets no further
  tree,          \* the statements read
  code,          \* the instructions
  keys,          \* the constant keys of rv, for the one who prepares the run
  limit, steps,  \* the step limit and the steps made
  ip, stack, env, regs, emits,
  asked          \* the keys rv was called with

vars0  == <<wrote, text, limit>>
parsed == <<stage, spin, tree, code, keys>>
run    == <<steps, ip, stack, env, regs, emits, asked>>
allVars == <<wrote, text, limit, stage, spin, tree, code, keys, steps, ip, stack, env, regs, emits, asked>>

NoProgram == <<>>
Eof     == "end of text"
Comment == "#"

-----------------------------------------------------------------------------
(* Tokens.  A place p is where the next token is peeked. *)

At(p)    == IF p <= Len(text) THEN text[p] ELSE Eof
Skip(p)  == Min({q \in p .. Len(text) + 1 : At(q) # Comment})
\* An unknown symbol is handed out without being passed.
After(p) == IF At(p) \in Unknown \cup {Eof} THEN p ELSE Skip(p + 1)

(* What a parser returns: a node and the place after it, an error, or it *)
(* goes round in a loop for ever.                                        *)
Got(node, p)     == [res |-> "ok", node |-> node, p |-> p]
Error            == [res |-> "error"]
Loop             == [res |-> "loop"]
\* F(x), with x worked out once.
Given(x, F(_))   == CHOOSE o \in {F(v) : v \in {x}} : TRUE
Then(r, F(_, _)) == Given(r, LAMBDA v : IF v.res = "ok" THEN F(v.node, v.p) ELSE v)
Expect(t, p)     == IF At(p) = t THEN Got(t, After(p)) ELSE Error

-----------------------------------------------------------------------------
(* Expressions *)

Num(t)       == [k |-> "num", t |-> t]
Var(name)    == [k |-> "var", t |-> name]
Neg(a)       == [k |-> "neg", t |-> "-", args |-> <<a>>]
Bin(op, l, r) == [k |-> "bin", t |-> op, args |-> <<l, r>>]
Call(f, args) == [k |-> "call", t |-> f, args |-> args]

\* Mutant: a bitwise or binds as tightly as a bitwise and.
LevelsGlued == << {"||"}, {"&&"}, {"<", "<=", ">", ">=", "==", "!="}, {"^"}, {"&", "|"},
                  {"<<", ">>"}, {"+", "-"}, {"*", "/", "%"} >>

\* One function of the parser for each level, from the loosest.
Levels == << {"||"}, {"&&"}, {"<", "<=", ">", ">=", "==", "!="}, {"|"}, {"^"}, {"&"},
             {"<<", ">>"}, {"+", "-"}, {"*", "/", "%"} >>

\* The functions by the number of their arguments.
Functions1 == {"u16", "i16", "u32", "i32", "rv", "print", "abs"}
Functions2 == {"bit", "av", "print2", "min", "max"}
Functions3 == {"clamp"}
Arity(n)   == <<Functions1, Functions2, Functions3>>[n]

RECURSIVE Level(_, _, _), Chain(_, _, _, _), Unary(_, _), Arguments(_, _, _)

Tok(e, p) == IF p <= Len(e) THEN e[p] ELSE Eof

Parenthesised(e, p) ==
  Then(Level(1, e, p), LAMBDA a, q : IF Tok(e, q) = ")" THEN Got(a, q + 1) ELSE Error)

FunctionCall(f, e, p) ==
  Then(Arguments(e, p, <<>>),
       LAMBDA args, q : IF f \in Arity(Len(args)) THEN Got(Call(f, args), q) ELSE Error)

Primary(e, p) ==
  LET t == Tok(e, p) IN
  CASE t \in DOMAIN NumberOf                    -> Got(Num(t), p + 1)
    [] t \in Names /\ Tok(e, p + 1) = "("       -> FunctionCall(t, e, p + 2)
    [] t \in Names /\ Tok(e, p + 1) # "("       -> Got(Var(t), p + 1)
    [] t = "("                                  -> Parenthesised(e, p + 1)
    [] OTHER                                    -> Error

Arguments(e, p, args) ==
  Then(Level(1, e, p),
       LAMBDA a, q : CASE Tok(e, q) = "," /\ Len(args) < 2 -> Arguments(e, q + 1, Append(args, a))
                       [] Tok(e, q) = ")"                  -> Got(Append(args, a), q + 1)
                       [] OTHER                            -> Error)

Unary(e, p) ==
  IF Tok(e, p) = "-" THEN Then(Unary(e, p + 1), LAMBDA a, q : Got(Neg(a), q)) ELSE Primary(e, p)

\* Operators of a level are taken from left to right.
Chain(n, e, l, p) ==
  IF Tok(e, p) \in Levels[n]
  THEN Then(Level(n + 1, e, p + 1), LAMBDA r, q : Chain(n, e, Bin(Tok(e, p), l, r), q))
  ELSE Got(l, p)

Level(n, e, p) ==
  IF n > Len(Levels) THEN Unary(e, p)
  ELSE Then(Level(n + 1, e, p), LAMBDA l, q : Chain(n, e, l, q))

\* The whole text has to be one expression; this tokenizer knows no comments.
Expression(ts) ==
  Given(ts, LAMBDA e : Then(Level(1, e, 1), LAMBDA a, q : IF q > Len(e) THEN Got(a, q) ELSE Error))

\* An expression is the text up to the first stop outside parentheses.  The
\* search passes the tokens one by one, and does not get past an unknown one.
Parens(t, p, q) == Cardinality({i \in p .. q - 1 : At(i) = t})
Stops(stops, p) ==
  {q \in p .. Len(text) : At(q) \in stops /\ Parens("(", p, q) = Parens(")", p, q)}
ExpressionIn(p, end) ==
  LET last == Max({i \in p .. end - 1 : At(i) # Comment} \cup {0})
  IN IF last = 0 THEN Error ELSE Then(Expression(SubSeq(text, p, last)), LAMBDA e, q : Got(e, end))
Until(stops, p) ==
  Given(Min(Stops(stops, p) \cup {Len(text) + 1}), LAMBDA end :
    CASE \E i \in p .. end - 1 : At(i) \in Unknown -> Loop
      [] OTHER -> IF end > Len(text) THEN Error ELSE ExpressionIn(p, end))

-----------------------------------------------------------------------------
(* Statements *)

Set(name, e)        == [k |-> "set", name |-> name, e |-> <<e>>, s |-> <<>>]
Reg(id, e)          == [k |-> "reg", e |-> <<id, e>>, s |-> <<>>]
Emit(ts, id, e)     == [k |-> "emit", e |-> <<ts, id, e>>, s |-> <<>>]
Block(ss)           == [k |-> "block", e |-> <<>>, s |-> ss]
If(c, a, other)     == [k |-> "if", e |-> <<c>>, s |-> <<a>> \o other]
While(c, b)         == [k |-> "while", e |-> <<c>>, s |-> <<b>>]
\* init, test and step are sequences of at most one member.
For(init, c, step, b) == [k |-> "for", e |-> c, s |-> <<b>>, init |-> init, step |-> step]

RECURSIVE Stmt(_), Body(_, _), Top(_, _)

InParens(p, F(_, _)) ==
  Then(Expect("(", p), LAMBDA x, a : Then(Until({")"}, a), LAMBDA e, b :
    Then(Expect(")", b), LAMBDA y, c : F(e, c))))

\* name = expression, up to the first of the stops.
SetTo(p, stops) ==
  IF At(p) \notin Names THEN Error
  ELSE Then(Expect("=", After(p)), LAMBDA x, a : Then(Until(stops, a), LAMBDA e, b : Got(Set(At(p), e), b)))
Closed(r) == Then(r, LAMBDA s, a : Then(Expect(";", a), LAMBDA x, b : Got(s, b)))

RegStmt(p) ==
  InParens(p, LAMBDA id, a : Then(Expect("=", a), LAMBDA x, b :
    Then(Until({";"}, b), LAMBDA e, c : Got(Reg(id, e), c))))

EmitStmt(p) ==
  Then(Expect("(", p), LAMBDA x, a : Then(Until({","}, a), LAMBDA ts, b :
    Then(Expect(",", b), LAMBDA y, c : Then(Until({","}, c), LAMBDA id, d :
      Then(Expect(",", d), LAMBDA z, f : Then(Until({")"}, f), LAMBDA e, g :
        Then(Expect(")", g), LAMBDA w, h : Got(Emit(ts, id, e), h))))))))

\* A part of a for header: nothing, or an assignment with or without "let".
HeaderPart(p, stop) ==
  CASE At(p) = stop  -> Got(<<>>, p)
    [] At(p) = "let" -> Then(SetTo(After(p), {";", ")"}), LAMBDA s, a : Got(<<s>>, a))
    [] OTHER         -> Then(SetTo(p, {";", ")"}), LAMBDA s, a : Got(<<s>>, a))
HeaderTest(p) ==
  IF At(p) = ";" THEN Got(<<>>, p) ELSE Then(Until({";"}, p), LAMBDA e, a : Got(<<e>>, a))

ForStmt(p) ==
  Then(Expect("(", p), LAMBDA x, a : Then(HeaderPart(a, ";"), LAMBDA init, b :
    Then(Expect(";", b), LAMBDA y, c : Then(HeaderTest(c), LAMBDA test, d :
      Then(Expect(";", d), LAMBDA z, f : Then(HeaderPart(f, ")"), LAMBDA step, g :
        Then(Expect(")", g), LAMBDA w, h : Then(Stmt(h), LAMBDA b2, i :
          Got(For(init, test, step, b2), i)))))))))

\* An "else" belongs to the nearest "if".
IfStmt(p) ==
  InParens(p, LAMBDA c, a : Then(Stmt(a), LAMBDA s, b :
    IF At(b) = "else" THEN Then(Stmt(After(b)), LAMBDA other, d : Got(If(c, s, <<other>>), d))
    ELSE Got(If(c, s, <<>>), b)))

Stmt(p) ==
  LET q == After(p) IN
  CASE At(p) = "{"     -> Body(q, <<>>)
    [] At(p) = "while" -> InParens(q, LAMBDA c, a : Then(Stmt(a), LAMBDA b, d : Got(While(c, b), d)))
    [] At(p) = "for"   -> ForStmt(q)
    [] At(p) = "if"    -> IfStmt(q)
    [] At(p) = "let"   -> Closed(SetTo(q, {";"}))
    [] At(p) = "reg"   -> Closed(RegStmt(q))
    [] At(p) = "emit"  -> Closed(EmitStmt(q))
    [] OTHER           -> Closed(SetTo(p, {";"}))

Body(p, ss) ==
  CASE At(p) = "}" -> Got(Block(ss), After(p))
    [] At(p) = Eof -> Error
    [] OTHER       -> Then(Stmt(p), LAMBDA s, q : Body(q, Append(ss, s)))

Top(p, ss) ==
  CASE At(p) = Eof -> Got(ss, p)
    [] At(p) = ";" -> Top(After(p), ss)
    [] OTHER       -> Then(Stmt(p), LAMBDA s, q : Top(q, Append(ss, s)))

ParseText == Top(Skip(1), <<>>)

-----------------------------------------------------------------------------
(* Instructions *)

RECURSIVE ExprCode(_), StmtCode(_, _), StmtsCode(_, _), SubExprs(_), Exprs(_)

Instr(op)    == [op |-> op]
With(op, a)  == [op |-> op, a |-> a]
Jump(to)     == [op |-> "jump", to |-> to]
JumpIfZero(to) == [op |-> "jumpIfZero", to |-> to]

ExprCode(e) ==
  CASE e.k = "num" -> <<With("push", e.t)>>
    [] e.k = "var" -> <<With("load", e.t)>>
    [] OTHER       -> FoldLeft(LAMBDA c, a : c \o ExprCode(a), <<>>, e.args)
                        \o <<[op |-> e.k, a |-> e.t, n |-> Len(e.args)]>>
ExprsCode(es) == FoldLeft(LAMBDA c, e : c \o ExprCode(e), <<>>, es)

StmtsCode(ss, at) ==
  IF ss = <<>> THEN <<>>
  ELSE LET first == StmtCode(Head(ss), at) IN first \o StmtsCode(Tail(ss), at + Len(first))

\* A condition, what runs when it holds, and the way on: an else part for
\* "if", the way back for a loop.  at is the number of instructions before.
IfCode(s, at) ==
  LET test  == ExprsCode(s.e)
      yes   == StmtCode(s.s[1], at + Len(test) + 1)
      other == at + Len(test) + Len(yes) + 2
      no    == StmtsCode(Tail(s.s), other)
  IN test \o <<JumpIfZero(other)>> \o yes \o <<Jump(other + Len(no))>> \o no

\* Mutant: the loop goes back past the step of its test.
LoopCodeUnstepped(test, body, at) ==
  LET head == <<Instr("step")>> \o test
      ss   == StmtsCode(body, at + Len(head) + 1)
  IN head \o <<JumpIfZero(at + Len(head) + Len(ss) + 2)>> \o ss \o <<Jump(at + 1)>>

\* Every turn of a loop counts a step, an empty one too.
LoopCode(test, body, at) ==
  LET head == <<Instr("step")>> \o test
      ss   == StmtsCode(body, at + Len(head) + 1)
  IN head \o <<JumpIfZero(at + Len(head) + Len(ss) + 2)>> \o ss \o <<Jump(at)>>

\* A missing test of a for loop holds.
ForCode(s, at) ==
  LET init == StmtsCode(s.init, at)
  IN init \o LoopCode(IF s.e = <<>> THEN <<With("push", "1")>> ELSE ExprsCode(s.e),
                      s.s \o s.step, at + Len(init))

StmtCode(s, at) ==
  <<Instr("step")>> \o
  CASE s.k = "set"   -> ExprsCode(s.e) \o <<With("store", s.name)>>
    [] s.k = "reg"   -> ExprsCode(s.e) \o <<Instr("reg")>>
    [] s.k = "emit"  -> ExprsCode(s.e) \o <<Instr("emit")>>
    [] s.k = "block" -> StmtsCode(s.s, at + 1)
    [] s.k = "if"    -> IfCode(s, at + 1)
    [] s.k = "while" -> LoopCode(ExprsCode(s.e), s.s, at + 1)
    [] s.k = "for"   -> ForCode(s, at + 1)

Compiled(ss) == StmtsCode(ss, 0)

\* Every expression in an expression, and in a statement.
SubExprs(e) ==
  {e} \cup IF e.k \in {"num", "var"} THEN {} ELSE UNION {SubExprs(e.args[i]) : i \in DOMAIN e.args}
ForParts(s) == IF s.k = "for" THEN s.init \o s.step ELSE <<>>

\* Mutant: the other branch of an "if" and the parts of a for header are left out.
ExprsFirst(s) ==
  UNION {SubExprs(s.e[i]) : i \in DOMAIN s.e}
    \cup (IF s.s = <<>> THEN {} ELSE Exprs(s.s[1]))

Exprs(s) ==
  UNION {SubExprs(s.e[i]) : i \in DOMAIN s.e}
    \cup UNION {Exprs((s.s \o ForParts(s))[i]) : i \in DOMAIN (s.s \o ForParts(s))}

RvCalls(ss)  == {e \in UNION {Exprs(ss[i]) : i \in DOMAIN ss} : e.k = "call" /\ e.t = "rv"}
RvKeys(ss)   == {NumberOf[e.args[1].t] : e \in {c \in RvCalls(ss) : c.args[1].k = "num"}}

Parse ==
  /\ stage = "text"
  /\ \E r \in {ParseText} :
       /\ r.res # "loop"
       /\ LET ss == IF r.res = "ok" THEN r.node ELSE <<>> IN
            tree' = ss /\ code' = Compiled(ss) /\ keys' = RvKeys(ss)
       /\ stage' = IF r.res = "ok" THEN "ready" ELSE "refused"
  /\ UNCHANGED <<vars0, spin, run>>

\* The search for the end of an expression has met an unknown symbol.
Spin ==
  /\ stage = "text"
  /\ ParseText.res = "loop"
  /\ spin' = 1 - spin
  /\ UNCHANGED <<vars0, stage, tree, code, keys, run>>

-----------------------------------------------------------------------------
(* Values *)

Truth(b)   == IF b THEN 1 ELSE 0
Abs(a)     == IF a < 0 THEN -a ELSE a
\* Division that cuts towards zero, and the remainder with the sign of a.
Quotient(a, b)  == IF b = 0 THEN 0
                   ELSE IF (a < 0) = (b < 0) THEN Abs(a) \div Abs(b) ELSE -(Abs(a) \div Abs(b))
Remainder(a, b) == IF b = 0 THEN 0 ELSE a - b * Quotient(a, b)

\* Bits of an integer of 64 bits, of which the model keeps the lowest ones.
Bits == 0 .. 11
BitOf(a, i)  == (a \div 2 ^ i) % 2
FromBits(B)  == FoldSet(LAMBDA i, n : n + 2 ^ i, 0, B \ {Max(Bits)}) - IF Max(Bits) \in B THEN 2 ^ Max(Bits) ELSE 0
OnesOf(a)    == {i \in Bits : BitOf(a, i) = 1}
ShiftedBits(a, n) == FromBits({i \in Bits : i - n \in OnesOf(a)})

Binary(op, a, b) ==
  CASE op = "+" -> a + b
    [] op = "-" -> a - b
    [] op = "*" -> a * b
    [] op = "/" -> Quotient(a, b)
    [] op = "%" -> Remainder(a, b)
    [] op = "<" -> Truth(a < b)
    [] op = "<=" -> Truth(a <= b)
    [] op = ">" -> Truth(a > b)
    [] op = ">=" -> Truth(a >= b)
    [] op = "==" -> Truth(a = b)
    [] op = "!=" -> Truth(a # b)
    [] op = "&&" -> Truth(a # 0 /\ b # 0)
    [] op = "||" -> Truth(a # 0 \/ b # 0)
    [] op = "&" -> FromBits(OnesOf(a) \cap OnesOf(b))
    [] op = "|" -> FromBits(OnesOf(a) \cup OnesOf(b))
    [] op = "^" -> FromBits((OnesOf(a) \cup OnesOf(b)) \ (OnesOf(a) \cap OnesOf(b)))
    [] op = "<<" -> ShiftedBits(a, b % 64)
    [] op = ">>" -> a \div 2 ^ Min({b % 64, Max(Bits)})

\* AnswerWords outside the answer read as 0, and so does a pair that is cut off.
U16(i) == IF i \in 0 .. Len(AnswerWords) - 1 THEN AnswerWords[i + 1] ELSE 0
U32(i) == IF i \in 0 .. Len(AnswerWords) - 2
          THEN IF HiLo THEN U16(i) * WordSize + U16(i + 1) ELSE U16(i + 1) * WordSize + U16(i)
          ELSE 0
Signed(v, size) == IF v >= size \div 2 THEN v - size ELSE v
BitAt(i, b) == IF b \in 0 .. 15 THEN BitOf(U16(i), b) ELSE 0
Rv(k)       == IF k \in DOMAIN RvOf THEN RvOf[k] ELSE 0
Clamp(a, low, high) == CASE a < low -> low [] a >= low /\ a > high -> high [] OTHER -> a

Applied(f, a) ==
  CASE f = "u16" -> U16(a[1])
    [] f = "i16" -> Signed(U16(a[1]), WordSize)
    [] f = "u32" -> U32(a[1])
    [] f = "i32" -> Signed(U32(a[1]), WordSize * WordSize)
    [] f = "rv" -> Rv(a[1])
    [] f = "print" -> a[1]
    [] f = "abs" -> Abs(a[1])
    [] f = "bit" -> BitAt(a[1], a[2])
    [] f = "av" -> ArchiveValue
    [] f = "print2" -> a[2]
    [] f = "min" -> Min({a[1], a[2]})
    [] f = "max" -> Max({a[1], a[2]})
    [] f = "clamp" -> Clamp(a[1], a[2], a[3])

-----------------------------------------------------------------------------
(* The machine *)

At0(op) == stage = "ready" /\ ip < Len(code) /\ code[ip + 1].op = op
Ins     == code[ip + 1]

\* The n operands on top of the stack, the oldest first; a missing one is 0.
Operands(n) == [i \in 1 .. n |-> LET k == Len(stack) - n + i IN IF k >= 1 THEN stack[k] ELSE 0]
Below(n)    == SubSeq(stack, 1, Max({0, Len(stack) - n}))

\* Mutant: the error of the counter is not looked at.
CountStepUnchecked ==
  /\ At0("step")
  /\ steps' = Min({steps + 1, limit + 1})
  /\ ip' = ip + 1
  /\ UNCHANGED <<vars0, parsed, stack, env, regs, emits, asked>>

CountStep ==
  /\ At0("step")
  /\ steps' = steps + 1
  /\ stage' = IF steps' > limit THEN "limit" ELSE stage
  /\ ip' = ip + 1
  /\ UNCHANGED <<vars0, spin, tree, code, keys, stack, env, regs, emits, asked>>

Push ==
  /\ At0("push")
  /\ stack' = Append(stack, NumberOf[Ins.a])
  /\ ip' = ip + 1
  /\ UNCHANGED <<vars0, parsed, steps, env, regs, emits, asked>>

Load ==
  /\ At0("load")
  /\ stack' = Append(stack, IF Ins.a \in DOMAIN env THEN env[Ins.a] ELSE 0)
  /\ ip' = ip + 1
  /\ UNCHANGED <<vars0, parsed, steps, env, regs, emits, asked>>

Store ==
  /\ At0("store")
  /\ env' = (Ins.a :> Operands(1)[1]) @@ env
  /\ stack' = Below(1)
  /\ ip' = ip + 1
  /\ UNCHANGED <<vars0, parsed, steps, regs, emits, asked>>

Negate ==
  /\ At0("neg")
  /\ stack' = Append(Below(1), -Operands(1)[1])
  /\ ip' = ip + 1
  /\ UNCHANGED <<vars0, parsed, steps, env, regs, emits, asked>>

Operate ==
  /\ At0("bin")
  /\ stack' = Append(Below(2), Binary(Ins.a, Operands(2)[1], Operands(2)[2]))
  /\ ip' = ip + 1
  /\ UNCHANGED <<vars0, parsed, steps, env, regs, emits, asked>>

CallFunction ==
  /\ At0("call")
  /\ stack' = Append(Below(Ins.n), Applied(Ins.a, Operands(Ins.n)))
  /\ asked' = IF Ins.a = "rv" THEN asked \cup {Operands(1)[1]} ELSE asked
  /\ ip' = ip + 1
  /\ UNCHANGED <<vars0, parsed, steps, env, regs, emits>>

\* Only positive keys are kept.
SetReg ==
  /\ At0("reg")
  /\ LET o == Operands(2) IN regs' = IF o[1] > 0 THEN (o[1] :> o[2]) @@ regs ELSE regs
  /\ stack' = Below(2)
  /\ ip' = ip + 1
  /\ UNCHANGED <<vars0, parsed, steps, env, emits, asked>>

\* Mutant: the value of an emit stays on the stack.
EmitEventLeft ==
  /\ At0("emit")
  /\ LET o == Operands(3) IN emits' = IF o[2] > 0 THEN Append(emits, o) ELSE emits
  /\ stack' = Below(2)
  /\ ip' = ip + 1
  /\ UNCHANGED <<vars0, parsed, steps, env, regs, asked>>

EmitEvent ==
  /\ At0("emit")
  /\ LET o == Operands(3) IN emits' = IF o[2] > 0 THEN Append(emits, o) ELSE emits
  /\ stack' = Below(3)
  /\ ip' = ip + 1
  /\ UNCHANGED <<vars0, parsed, steps, env, regs, asked>>

TakeJump ==
  /\ At0("jump")
  /\ ip' = Ins.to
  /\ UNCHANGED <<vars0, parsed, steps, stack, env, regs, emits, asked>>

TakeJumpIfZero ==
  /\ At0("jumpIfZero")
  /\ ip' = IF Operands(1)[1] = 0 THEN Ins.to ELSE ip + 1
  /\ stack' = Below(1)
  /\ UNCHANGED <<vars0, parsed, steps, env, regs, emits, asked>>

Finish ==
  /\ stage = "ready" /\ ip = Len(code)
  /\ stage' = "done"
  /\ UNCHANGED <<vars0, spin, tree, code, keys, run>>

-----------------------------------------------------------------------------
(* What a text means: the tree written down with no more parentheses than  *)
(* needed, and run statement by statement.                                 *)

\* How tightly an operator binds.
Strength(op) ==
  CASE op = "||" -> 1 [] op = "&&" -> 2
    [] op \in {"<", "<=", ">", ">=", "==", "!="} -> 3
    [] op = "|" -> 4 [] op = "^" -> 5 [] op = "&" -> 6
    [] op \in {"<<", ">>"} -> 7 [] op \in {"+", "-"} -> 8
    [] op \in {"*", "/", "%"} -> 9

RECURSIVE TextOf(_, _), TextOfArgs(_), TextOfStmt(_), TextOfAll(_)

InParensIf(c, ts) == IF c THEN <<"(">> \o ts \o <<")">> ELSE ts
TextOf(e, s) ==
  CASE e.k \in {"num", "var"} -> <<e.t>>
    [] e.k = "neg"  -> <<"-">> \o TextOf(e.args[1], 10)
    [] e.k = "call" -> <<e.t, "(">> \o TextOfArgs(e.args) \o <<")">>
    [] e.k = "bin"  -> LET n == Strength(e.t) IN
         InParensIf(n < s, TextOf(e.args[1], n) \o <<e.t>> \o TextOf(e.args[2], n + 1))
TextOfArgs(es) ==
  IF Len(es) = 1 THEN TextOf(es[1], 0) ELSE TextOf(es[1], 0) \o <<",">> \o TextOfArgs(Tail(es))

TextOfTest(es) == IF es = <<>> THEN <<>> ELSE TextOf(es[1], 0)
TextOfHeader(ss)   == IF ss = <<>> THEN <<>> ELSE <<"let", ss[1].name, "=">> \o TextOf(ss[1].e[1], 0)
TextOfStmt(s) ==
  CASE s.k = "set"   -> <<s.name, "=">> \o TextOf(s.e[1], 0) \o <<";">>
    [] s.k = "reg"   -> <<"reg", "(">> \o TextOf(s.e[1], 0) \o <<")", "=">> \o TextOf(s.e[2], 0) \o <<";">>
    [] s.k = "emit"  -> <<"emit", "(">> \o TextOfArgs(s.e) \o <<")", ";">>
    [] s.k = "block" -> <<"{", Comment>> \o TextOfAll(s.s) \o <<"}">>
    [] s.k = "if"    -> <<"if", "(">> \o TextOf(s.e[1], 0) \o <<")">> \o TextOfStmt(s.s[1])
                          \o IF Len(s.s) = 1 THEN <<>> ELSE <<"else", Comment>> \o TextOfStmt(s.s[2])
    [] s.k = "while" -> <<"while", "(">> \o TextOf(s.e[1], 0) \o <<")">> \o TextOfStmt(s.s[1])
    [] s.k = "for"   -> <<"for", "(">> \o TextOfHeader(s.init) \o <<";">> \o TextOfTest(s.e) \o <<";", Comment>>
                          \o TextOfHeader(s.step) \o <<")">> \o TextOfStmt(s.s[1])
TextOfAll(ss) == IF ss = <<>> THEN <<>> ELSE TextOfStmt(Head(ss)) \o TextOfAll(Tail(ss))

RECURSIVE Value(_, _), Do(_, _), DoAll(_, _), Turns(_, _, _)

Value(e, vs) ==
  CASE e.k = "num"  -> NumberOf[e.t]
    [] e.k = "var"  -> IF e.t \in DOMAIN vs THEN vs[e.t] ELSE 0
    [] e.k = "neg"  -> -Value(e.args[1], vs)
    [] e.k = "bin"  -> Binary(e.t, Value(e.args[1], vs), Value(e.args[2], vs))
    [] e.k = "call" -> Applied(e.t, [i \in DOMAIN e.args |-> Value(e.args[i], vs)])

\* A state of the run: the steps left, and what it made so far.
Nothing == <<>>
Start   == [left |-> limit, over |-> FALSE, env |-> Nothing, regs |-> Nothing, emits |-> Nothing]
Counted(w) == IF w.left = 0 THEN [w EXCEPT !.over = TRUE] ELSE [w EXCEPT !.left = @ - 1]

DoAll(ss, w) == IF ss = <<>> \/ w.over THEN w ELSE DoAll(Tail(ss), Do(Head(ss), w))
Turns(test, ss, w0) ==
  LET w == Counted(w0) IN
  IF w.over \/ Value(test, w.env) = 0 THEN w
  ELSE LET next == DoAll(ss, w) IN IF next.over THEN next ELSE Turns(test, ss, next)
Test(s) == IF s.e = <<>> THEN Num("1") ELSE s.e[1]

Do(s, w0) ==
  LET w == Counted(w0)
      v(i) == Value(s.e[i], w.env)
  IN CASE w.over        -> w
       [] ~w.over /\ s.k = "set"   -> [w EXCEPT !.env = (s.name :> v(1)) @@ @]
       [] ~w.over /\ s.k = "reg"   -> IF v(1) > 0 THEN [w EXCEPT !.regs = (v(1) :> v(2)) @@ @] ELSE w
       [] ~w.over /\ s.k = "emit"  -> IF v(2) > 0 THEN [w EXCEPT !.emits = Append(@, <<v(1), v(2), v(3)>>)] ELSE w
       [] ~w.over /\ s.k = "block" -> DoAll(s.s, w)
       [] ~w.over /\ s.k = "if"    -> IF v(1) # 0 THEN Do(s.s[1], w) ELSE DoAll(Tail(s.s), w)
       [] ~w.over /\ s.k = "while" -> Turns(Test(s), s.s, w)
       [] ~w.over /\ s.k = "for"   -> LET begun == DoAll(s.init, w) IN
                                      IF begun.over THEN begun ELSE Turns(Test(s), s.s \o s.step, begun)

Meaning(ss) == DoAll(ss, Start)

ScriptInit ==
  /\ \/ wrote \in Trees /\ text = TextOfAll(wrote)
     \/ wrote = NoProgram /\ text \in Broken
  /\ limit \in Limits
  /\ stage = "text" /\ spin = 0 /\ tree = <<>> /\ code = <<>> /\ keys = {}
  /\ steps = 0 /\ ip = 0 /\ stack = <<>> /\ env = <<>> /\ regs = <<>> /\ emits = <<>> /\ asked = {}

ScriptNext ==
  \/ Parse \/ Spin \/ Finish
  \/ CountStep \/ Push \/ Load \/ Store \/ Negate \/ Operate \/ CallFunction
  \/ SetReg \/ EmitEvent \/ TakeJump \/ TakeJumpIfZero

\* The parser and the machine run on a thread of their own until they return.
ScriptSpec == ScriptInit /\ [][ScriptNext]_allVars /\ WF_allVars(ScriptNext)

-----------------------------------------------------------------------------
(* Properties *)

\* No operand is ever missing, though the machine takes 0 for one
\* (script.rs:119-189), and nothing is left between two statements.
StackFits ==
  stage = "ready" /\ ip < Len(code) =>
    CASE Ins.op = "step"                             -> stack = <<>>
      [] Ins.op \in {"store", "neg", "jumpIfZero"}   -> Len(stack) >= 1
      [] Ins.op \in {"bin", "reg"}                   -> Len(stack) >= 2
      [] Ins.op = "emit"                             -> Len(stack) >= 3
      [] Ins.op = "call"                             -> Len(stack) >= Ins.n
      [] OTHER                                       -> TRUE

\* A text that says a program is read as that program, with precedence, sides,
\* "else" and the ends of expressions (script.rs:437-1040), and any other text is
\* refused.  The machine runs a program as it reads, and gives up at the step that
\* passes the limit and no other; the events of emit before are out by then
\* (script.rs:83-203, 1081-1223).  When every rv has a constant key, the caller
\* has prepared every value the run asks for (used_rv_keys, script.rs:206-292,
\* script_cache.rs:272-279).
RunsAsMeant ==
  /\ stage \in {"ready", "done", "limit"} => wrote # NoProgram /\ tree = wrote
  /\ stage = "refused" => wrote = NoProgram
  /\ (\A c \in RvCalls(wrote) : c.args[1].k = "num") => asked \subseteq keys
  /\ StackFits
  /\ stage \in {"done", "limit"} =>
       LET end == Meaning(wrote) IN
         /\ stage = IF end.over THEN "limit" ELSE "done"
         /\ emits = end.emits
         /\ stage = "done" => regs = end.regs /\ env = end.env

\* Every text is read or refused and every program comes to an end, a loop
\* without one by the step limit; but a text with an unknown symbol inside an
\* expression is not (script.rs:593-723, 1691-1697).
Ended == stage \notin {"text", "ready"}
EveryRunEnds == \/ <>Ended
                \/ wrote = NoProgram /\ \E i \in DOMAIN text : text[i] \in Unknown

\* "Err(String): a syntactic or semantic error" is what parse returns for a
\* text that is none (script.rs:34-35): it returns.
ParseReturns == <>(stage # "text")
=============================================================================
