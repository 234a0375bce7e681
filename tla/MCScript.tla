------------------------------ MODULE MCScript ------------------------------
\* The instance of Script for model checking: every expression of two
\* operators, and a program for every kind of statement and way to nest them.
EXTENDS Script

MCNames == {"a", "b", "i", "rv", "u16", "i16", "u32", "i32", "bit", "av", "min", "max", "clamp", "abs",
            "print", "print2", "let", "reg", "emit", "if", "else", "while", "for"}
MCNumbers == "0" :> 0 @@ "1" :> 1 @@ "2" :> 2 @@ "3" :> 3 @@ "5" :> 5 @@ "7" :> 7
MCUnknown == {"?", "."}
MCWords == <<5, 14>>
MCRvOf  == 5 :> 3

n0 == Num("0")
n1 == Num("1")
n2 == Num("2")
n3 == Num("3")
n5 == Num("5")
n7 == Num("7")
a  == Var("a")
b  == Var("b")
i  == Var("i")
ToReg(e) == Reg(n1, e)

Operators == UNION {Levels[l] : l \in DOMAIN Levels}
Pairs == {<<o, p>> : o \in Operators, p \in Operators}
Expressions ==
  {Bin(q[1], Bin(q[2], n7, n5), n2) : q \in Pairs} \cup {Bin(q[1], n7, Bin(q[2], n5, n2)) : q \in Pairs}
    \cup {Neg(Bin(o, n5, n2)) : o \in Operators} \cup {Bin(o, Neg(n5), Neg(n2)) : o \in Operators}

Calls ==
  {Call(f, <<Bin("-", n2, n1)>>) : f \in Functions1} \cup {Call(f, <<n1, n3>>) : f \in Functions2}
    \cup {Call(f, <<n0>>) : f \in {"u32", "i32"}}
    \cup {Call("clamp", <<x, n2, n5>>) : x \in {n1, n3, n7}} \cup {Call("rv", <<Call("rv", <<n5>>)>>)}

Count(body) == For(<<Set("i", n0)>>, <<Bin("<", i, n3)>>, <<Set("i", Bin("+", i, n1))>>, body)
Nested == {
  <<Set("a", n5), While(a, Set("a", Bin("-", a, n1))), ToReg(a)>>,
  <<Count(Emit(i, Bin("+", i, n1), Bin("*", i, n2)))>>,
  <<Count(Block(<<>>)), ToReg(i)>>,
  <<Set("a", n2), While(a, Block(<<Set("a", Bin("-", a, n1)), Count(Emit(a, i, b))>>))>>,
  <<If(n1, If(n0, ToReg(n2), <<ToReg(n3)>>), <<>>), ToReg(n5)>>,
  <<If(n0, Block(<<If(n0, ToReg(n2), <<>>)>>), <<ToReg(n3)>>)>>,
  <<If(n0, ToReg(n2), <<If(n1, ToReg(n3), <<ToReg(n5)>>)>>)>>,
  <<If(Call("rv", <<n3>>), ToReg(n1), <<ToReg(Call("rv", <<n5>>))>>)>>,
  <<For(<<>>, <<>>, <<>>, Set("a", Bin("+", a, n1)))>>,
  <<For(<<Set("a", Call("rv", <<n5>>))>>, <<a>>, <<Set("a", Call("rv", <<n7>>))>>, Emit(n1, n0, a))>>,
  <<While(n1, Block(<<>>))>>,
  <<Reg(n0, n5), Reg(Neg(n1), n5), ToReg(n5), ToReg(Bin("+", n5, a))>>,
  <<Block(<<Block(<<Set("a", n1)>>), Emit(n1, n2, a)>>), Emit(n2, n2, Call("rv", <<a>>))>> }

MCTrees == {<<ToReg(e)>> : e \in Expressions \cup Calls} \cup Nested

\* Texts that are no program, and texts the parser never gets through.
MCBroken == {
  <<"a", "=", ";">>, <<"a", "=", "1">>, <<"a", "=", "1", "+", ";">>, <<"a", "=", "(", "1", ";">>,
  <<"a", "=", "1", ")", ";">>, <<"a", "=", "1", "#", "+", "2", ";">>, <<"a", "=", "a", "(", "1", ")", ";">>,
  <<"reg", "1", "=", "2", ";">>, <<"reg", "(", "1", ")", ";">>, <<"emit", "(", "1", ",", "2", ")", ";">>,
  <<"if", "(", "1", ")", "else", ";">>, <<"{", "a", "=", "1", ";">>, <<"{", ";", "}">>, <<"else">>,
  <<"for", "(", "reg", ";", ";", ")", "a", "=", "1", ";">>, <<"let", "1", "=", "2", ";">>,
  <<"print", "(", "1", ")", ";">>, <<"a", "=", "min", "(", "1", ")", ";">>, <<"1", ";">>, <<"?">>,
  <<"a", "?">> }
MCHanging == {<<"a", "=", "1", "?", ";">>, <<"while", "(", "?", ")", "a", "=", "1", ";">>}
MCTexts == MCBroken \cup MCHanging
=============================================================================
