------------------------------ MODULE MCOptimizer -----------------------------
(***************************************************************************)
(* Programs for Optimizer: pairs of statements that read and write the     *)
(* same variables and arrays, directly and by functions, straight and in a *)
(* loop; recursive functions; arrays handed from function to function.     *)
(***************************************************************************)
EXTENDS Optimizer, Syntax

Do1(f, args) == <<"call", f, args>>
Exp1(f, args) == <<"exp", Do1(f, args)>>
Get0 == 1
Put0 == 2
Square == 3
SumOf == 4
Fill == 5
Add(x, e) == Set(x, Op("add", V(x), e))
SetAt(x, i, e) == <<"assign", x, <<i>>, e>>
Array(x) == <<x, <<0>>>>
Word(x) == <<x, <<>>>>
If(c, s) == <<"if", c, s>>

Helpers == <<
  Fn(<<>>, <<Ret(V("g"))>>),
  Fn(<<Word("v")>>, <<Set("g", V("v")), Ret(Op("add", V("v"), N(1)))>>),
  Fn(<<Word("v")>>, <<Ret(Op("mul", V("v"), V("v")))>>),
  Fn(<<Array("p"), Word("n")>>,
     <<Let("s", N(0)), Let("i", N(0)),
       <<"while", Op("less", V("i"), V("n")), Blk(<<Add("s", At1("p", V("i"))), Inc("i")>>)>>, Ret(V("s"))>>),
  Proc(<<Array("p"), Word("v")>>, <<SetAt("p", N(0), V("v")), SetAt("p", N(1), Op("add", V("v"), N(1)))>>)>>

Steps == <<
  Set("g", V("x")), Add("x", Do1(Get0, <<>>)), Add("x", Do1(Put0, <<V("x")>>)), SetAt("a", N(0), V("x")),
  Add("x", Do1(SumOf, <<V("a"), N(2)>>)), Exp1(Fill, <<V("a"), V("x")>>),
  Add("x", Op("mod", At1("a", N(1)), N(5))), Add("x", Do1(Square, <<N(3)>>))>>

Globals == <<<<"g", <<>>, <<"e", N(3)>>>>, <<"a", <<2>>, L(<<E(4), E(6)>>)>>>>
Whole(body) == Prog(Globals, Append(Helpers, Fn(<<>>, body)))
Straight(i, j) == Whole(<<Let("x", Get), Steps[i], Steps[j], Put(V("x")), Put(V("g")), Ret(At1("a", N(0)))>>)
Looped(i, j) == Whole(<<Let("x", Get), Repeat("k", 2, <<Steps[i], Steps[j]>>), Put(V("x")), Put(V("g")), Ret(At1("a", N(0)))>>)
Pairs == {Straight(i, j) : i, j \in DOMAIN Steps} \cup {Looped(p[1], p[2]) : p \in (1 .. 4) \X (3 .. 8) \ {<<4, 5>>}}

\* Recursive functions: function 1 calls itself, main calls it.
Rec(params, body, main) == Prog(Globals, <<Fn(params, body), Fn(<<>>, <<Let("x", Get)>> \o main)>>)
Once(call) == <<Put(call), Ret(V("g"))>>
Twice(call) == <<Put(call), Inc("x"), Set("g", call), Put(call), Ret(V("g"))>>
Self(args) == Do1(1, args)
Dec(x) == Op("sub", V(x), N(1))
Recursive ==
  {\* factorial, Fibonacci numbers, a sum with an accumulator, Euclid
   Rec(<<Word("n")>>, <<If(Op("less", V("n"), N(2)), Ret(N(1))), Ret(Op("mul", V("n"), Self(<<Dec("n")>>)))>>, Twice(Self(<<V("x")>>))),
   Rec(<<Word("n")>>, <<If(Op("less", V("n"), N(2)), Ret(V("n"))),
                        Ret(Op("add", Self(<<Dec("n")>>), Self(<<Op("sub", V("n"), N(2))>>)))>>, Twice(Self(<<V("x")>>))),
   Rec(<<Word("n"), Word("s")>>, <<If(Op("leq", V("n"), N(0)), Ret(V("s"))),
                        Ret(Self(<<Dec("n"), Op("add", V("s"), V("n"))>>))>>, Once(Self(<<V("x"), N(0)>>))),
   Rec(<<Word("n"), Word("m")>>, <<If(Op("eq", V("m"), N(0)), Ret(V("n"))),
                        Ret(Self(<<V("m"), Op("mod", V("n"), V("m"))>>))>>, Twice(Self(<<V("x"), N(6)>>))),
   Rec(<<Word("n"), Word("m")>>, <<If(Op("eq", V("n"), N(0)), Ret(V("m"))), If(Op("eq", V("n"), N(2)), Ret(Self(<<N(0), V("n")>>))),
                        Ret(Self(<<Dec("n"), V("m")>>))>>, Twice(Self(<<V("x"), V("x")>>))),
   \* one that prints on its way down, one that prints on its way up
   Rec(<<Word("n")>>, <<Put(V("n")), If(Op("leq", V("n"), N(0)), Ret(N(7))), Ret(Self(<<Dec("n")>>))>>, Once(Self(<<V("x")>>))),
   Rec(<<Word("n")>>, <<If(Op("leq", V("n"), N(0)), Ret(N(7))), Let("r", Self(<<Dec("n")>>)), Put(V("n")), Ret(V("r"))>>, Once(Self(<<V("x")>>))),
   \* one that counts in a global, one whose result is not used
   Rec(<<Word("n")>>, <<If(Op("leq", V("n"), N(0)), Ret(V("g"))), Add("g", V("n")), Ret(Self(<<Dec("n")>>))>>, Twice(Self(<<V("x")>>))),
   Rec(<<Word("n")>>, <<Add("g", V("n")), If(Op("leq", V("n"), N(0)), Ret(V("g"))), Exp1(1, <<Dec("n")>>), Ret(V("n"))>>,
       <<Exp1(1, <<V("x")>>), Put(V("g")), Ret(N(0))>>),
   \* an array handed down
   Rec(<<Array("p"), Word("n")>>, <<If(Op("eq", V("n"), N(2)), Ret(N(0))), SetAt("p", V("n"), Op("add", At1("p", V("n")), N(1))),
                        Ret(Op("add", At1("p", V("n")), Self(<<V("p"), Op("add", V("n"), N(1))>>)))>>,
       <<Put(Self(<<V("a"), N(0)>>)), Put(Self(<<V("a"), N(1)>>)), Ret(At1("a", N(0)))>>)}

\* Arrays of a function: initialised with constants, written later, handed on.
Local(body) == Prog(Globals, <<
  Fn(<<Array("p"), Array("q"), Word("i")>>,
     <<SetAt("p", N(0), V("i")), Let("r", At1("q", N(0))), SetAt("q", N(1), Op("add", V("r"), N(1))), Ret(At1("p", N(1)))>>),
  Fn(<<Word("i")>>, <<<<"init", "t", <<3>>, L(<<E(5), E(7)>>)>>, Ret(At1("t", Op("mod", V("i"), N(3))))>>),
  Fn(<<Word("i")>>, <<<<"init", "t", <<2>>, L(<<E(5)>>)>>, SetAt("t", Op("mod", V("i"), N(2)), V("i")), Ret(Op("add", At1("t", N(0)), At1("t", N(1))))>>),
  Fn(<<>>, <<Let("x", Get), <<"init", "b", <<2>>, L(<<E(1), E(8)>>)>>>> \o body)>>)
Ends == <<Put(At1("a", N(1))), Put(At1("b", N(1))), Put(V("g")), Ret(V("x"))>>
Locals == {Local(body \o Ends) : body \in
  {<<Add("x", Do1(1, <<V(p), V(q), V("x")>>)), Put(V("x")), Add("x", Do1(1, <<V(q), V(p), N(2)>>))>> : p, q \in {"a", "b"}}
  \cup {<<Repeat("k", 2, <<Add("x", Do1(f, <<V(y)>>)), Add("g", Do1(f, <<V("x")>>))>>)>> : f \in {2, 3}, y \in {"x", "g"}}
  \cup {<<Set("g", N(1)), SetAt("a", N(1), N(9)), Put(At1("a", N(1))), SetAt("a", V("g"), V("x")), SetAt("b", N(1), V("x"))>>,
        <<Repeat("k", 3, <<SetAt("a", Op("mod", V("k"), N(2)), V("x")), Add("x", At1("a", N(0))), SetAt("b", N(1), At1("a", N(1)))>>)>>,
        <<Repeat("k", 2, <<Add("x", V("g")), Repeat("j", 2, <<If(Op("less", V("x"), N(9)), Add("g", V("j")))>>)>>)>>,
        <<Put(Op("div", V("x"), N(3))), Put(Op("mod", V("x"), N(3))), Put(Op("div", Op("mul", V("x"), V("g")), V("g"))),
          Put(Op("div", V("x"), V("g"))), Put(Op("mod", V("x"), V("g")))>>}}

\* Loops: n and x are read, so that how often they run is not known; r adds up.
While(x, from, to, ss) == Blk(<<Let(x, from), <<"while", Op("less", V(x), to), Blk(Append(ss, Inc(x)))>>>>)
UpToAnd(x, from, to, ss) == Blk(<<Let(x, from), <<"while", Op("leq", V(x), to), Blk(Append(ss, Inc(x)))>>>>)
Reduce(op, e) == Set("r", Op(op, V("r"), e))
ModR(e, c) == Set("r", Op("mod", Op("add", V("r"), e), N(c)))
AlsoX(e) == Op("add", V("x"), e)
LoopsOf(body) == Prog(<<<<"g", <<>>, <<"e", N(3)>>>>, <<"a", <<8>>, L(<<E(4), E(6)>>)>>>>, <<Fn(<<>>,
  <<Let("n", Get), Let("x", Get), Let("r", N(9))>> \o body
  \o <<Put(V("r")), Put(At1("a", N(1))), Put(At1("a", N(3))), Ret(V("x"))>>)>>)
Looping == {LoopsOf(body) : body \in
  {\* sums with a closed form, of one variable and of two, modulo a constant
   <<While("i", N(0), V("n"), <<Reduce("add", V("i"))>>)>>,
   <<UpToAnd("i", V("x"), V("n"), <<Reduce("add", Op("mul", V("i"), V("x")))>>)>>,
   <<UpToAnd("i", N(1), V("x"), <<Reduce("sub", V("x")), Set("g", V("g"))>>)>>,
   <<UpToAnd("i", N(2), V("x"), <<Reduce("div", N(2)), Set("g", Op("add", V("g"), V("i")))>>), Put(V("g"))>>,
   <<While("i", N(0), V("n"), <<While("j", N(0), V("x"), <<Reduce("add", Op("add", V("i"), V("j")))>>)>>)>>,
   <<While("i", N(0), V("x"), <<ModR(Op("add", V("i"), N(9)), 7)>>)>>,
   <<UpToAnd("i", N(2), V("x"), <<ModR(Op("mul", V("i"), N(3)), 5)>>)>>,
   \* arrays filled, read, and moved by one
   <<While("i", N(0), V("x"), <<SetAt("a", V("i"), AlsoX(V("i")))>>), While("i", N(1), V("n"), <<Reduce("add", At1("a", V("i")))>>)>>,
   <<While("i", N(0), V("x"), <<SetAt("a", Op("add", V("i"), N(1)), AlsoX(At1("a", V("i"))))>>)>>,
   <<While("i", N(0), V("x"), <<SetAt("a", V("i"), AlsoX(At1("a", Op("add", V("i"), N(1)))))>>)>>,
   <<While("i", N(0), N(2), <<While("j", N(0), V("n"), <<SetAt("a", Op("add", Op("mul", V("i"), N(3)), V("j")), AlsoX(V("j")))>>)>>)>>,
   <<While("i", N(0), N(3), <<SetAt("a", V("i"), V("n")), Reduce("add", At1("a", V("n")))>>)>>,
   \* words at places known and not known, and known in part
   <<SetAt("a", Op("add", N(1), V("n")), V("x")), Reduce("add", At1("a", N(0))), SetAt("a", V("n"), V("r")), Reduce("add", At1("a", N(1)))>>,
   <<Reduce("add", At1("a", N(1))), SetAt("a", V("n"), V("x")), Reduce("sub", At1("a", N(1))), SetAt("a", N(1), V("r")), Reduce("add", At1("a", N(1)))>>,
   \* branches in loops, decided or not; a loop without effect, and one left early
   <<While("i", N(0), N(5), <<If(Op("less", V("i"), N(7)), SetAt("a", V("i"), V("x"))), If(Op("less", V("i"), N(2)), SetAt("a", N(3), V("i")))>>)>>,
   <<While("i", N(0), V("x"), <<Let("t", Op("mul", V("i"), V("x"))), If(Op("less", V("t"), V("n")), Set("t", N(0)))>>)>>,
   <<While("i", N(0), V("x"), <<If(Op("less", V("n"), V("i")), <<"break">>), Reduce("add", At1("a", V("i")))>>)>>,
   <<Let("i", N(1)), <<"while", Op("less", V("i"), N(8)), Blk(<<Set("i", Op("mul", V("i"), N(2))), Reduce("add", V("i"))>>)>>>>,
   <<Set("r", Op("sub", Op("add", Op("add", V("x"), N(1)), Op("sub", N(2), V("x"))), Op("add", V("n"), Op("add", V("n"), V("n")))))>>}}

\* What is wrong in the code: a variable stored to around a call that reads it;
\* a recursive function that hands itself its own array; a loop that loads a
\* word, stores to some word and loads the first again, and after it a store to a
\* word nothing is known of and a load of word r*(r+1) - r*r - r, which is 0; a
\* loop that stores to the same word in every iteration.
DeadStore == {Whole(<<Let("x", Get), Set("g", V("x")), Let("r", Do1(Get0, <<>>)), Set("g", N(2)), Put(V("r")), Ret(V("g"))>>)}
OwnArray == {Rec(<<Array("p"), Word("n")>>, <<<<"decl", "t", <<1>>>>, SetAt("t", N(0), V("n")),
                   If(Op("eq", V("n"), N(0)), Ret(At1("p", N(0)))), Ret(Self(<<V("t"), Dec("n")>>))>>,
                 Once(Self(<<V("a"), V("x")>>)))}
Sub2(x, y) == Op("sub", x, y)
Zeroed(e) == Sub2(Sub2(Op("mul", e, Op("add", e, N(1))), Op("mul", e, e)), e)
StaleLoad == {LoopsOf(<<While("i", N(0), V("x"),
               <<Reduce("add", At1("a", N(1))), SetAt("a", V("i"), V("x")), Reduce("add", At1("a", N(1)))>>),
               SetAt("a", V("n"), N(9)), Put(At1("a", Zeroed(V("r"))))>>)}
SamePlace == {LoopsOf(<<While("i", N(0), V("x"), <<SetAt("a", N(1), V("i"))>>)>>)}

MCPrograms == Pairs \cup Recursive \cup Locals \cup Looping
MCSwitches == {{}, {"inline"}, {"gcm", "cpf"}, {"gvn", "dag", "se"}}
AllPasses == {{}}
MCInputs == {<<0, 4>>, <<3, 2>>}
===============================================================================
