------------------------------ MODULE MCMiddleEnd -----------------------------
(***************************************************************************)
(* Programs for MiddleEnd: every combination of a condition, what is done  *)
(* under it and what follows; loops in loops left in every way; variables  *)
(* that change places in a loop in every way; arrays, initialisers and     *)
(* calls.                                                                  *)
(***************************************************************************)
EXTENDS MiddleEnd, Syntax

\* Conditions on x and y, and what is done under them.
Conds == {Op("less", V("x"), N(2)), <<"and", Op("neq", V("x"), N(0)), <<"not", V("y")>>>>,
          <<"or", Op("greater", V("y"), V("x")), Op("eq", V("x"), N(1))>>}
Fixed == {N(0), N(1)}
Under == {Set("x", Op("add", V("x"), N(1))), Set("y", Op("mul", Op("add", V("x"), N(1)), V("y"))), Ret(V("y"))}
Jumps == {<<"break">>, <<"continue">>}

Test(s) == Main(<<Let("x", Get), Let("y", N(1)), s, Put(V("x")), Ret(V("y"))>>)

Branches == {Test(Blk(<<<<"ifelse", c, s, t>>, <<"if", d, Set("y", Op("sub", V("x"), V("y")))>>>>)) :
               c \in Conds, d \in Conds, s \in Under, t \in Under}
Single == {Test(Repeat("i", 3, <<<<"if", c, s>>, Set("y", Op("sub", V("y"), V("i")))>>)) :
             c \in Conds \cup Fixed, s \in Jumps \cup Under}
Nested == {Test(Repeat("i", 2, <<inner, <<"if", Op("less", V("y"), V("i")), t>>, Set("x", Op("sub", V("x"), V("y")))>>)) :
             inner \in {Repeat("j", 2, <<<<"if", c, s>>, Set("y", Op("add", V("y"), Op("mul", V("x"), V("j"))))>>) :
                          c \in Conds, s \in Jumps}
                       \cup {Until("j", 2, <<<<"if", c, s>>, Set("y", Op("sub", V("y"), V("j")))>>) :
                          c \in Conds, s \in {<<"break">>} \cup Under},
             t \in Jumps \cup {Ret(V("x"))}}

\* Three variables that change places in a loop: the copies of remove_phi.
Mapping(m) == Main(<<Let("x", Get), Let("y", N(5)), Let("z", N(7)),
  Repeat("i", 2, <<Let("a", V("x")), Let("b", V("y")), Let("c", V("z")),
     Set("x", V(m[1])), Set("y", V(m[2])), Set("z", V(m[3]))>>),
  Put(V("x")), Put(V("y")), Ret(V("z"))>>)
Mappings == {Mapping(m) : m \in {<<"b", "c", "a">>, <<"b", "a", "c">>, <<"b", "a", "a">>, <<"c", "a", "a">>,
                                <<"b", "b", "c">>, <<"c", "c", "b">>, <<"a", "a", "b">>}}

\* Pairs that change places in one loop: two cycles of copies on its back edge.
Pairs(more) == Main(<<Let("x", Get), Let("y", N(5)), Let("z", N(7)), Let("w", N(8)), Let("v", N(9)),
  Repeat("i", 2, more \o <<Let("a", V("x")), Set("x", V("y")), Set("y", V("a")),
                           Let("b", V("z")), Set("z", V("w")), Set("w", V("b"))>>),
  Put(V("x")), Put(V("y")), Put(V("z")), Put(V("w")), Ret(V("v"))>>)

\* What is wrong in the code: a third variable takes the value of the first pair.
TwoCycles == {Pairs(<<Set("v", V("x"))>>)}
AllPasses == {{}}

\* Arrays: a matrix with an initialiser, summed and handed on.
Inits == {L(<<>>), L(<<E(1), E(2), E(3), E(4)>>), L(<<L(<<E(1)>>), E(2), E(3)>>), L(<<E(1), L(<<E(2)>>), L(<<E(3), E(4)>>)>>)}
Sum == Fn(<<<<"a", <<0, 2>>>>, <<"n", <<>>>>>>,
          <<Let("s", N(0)),
            Repeat("i", 2, <<Repeat("j", 2, <<Set("s", Op("add", Op("mul", V("s"), N(2)),
                 <<"lval", "a", <<Op("sub", V("i"), N(1)), Op("sub", V("j"), N(1))>>>>))>>),
                 <<"if", Op("eq", V("n"), V("i")), Ret(V("s"))>>>>),
            Ret(V("s"))>>)
Arrays ==
  {Prog(<<<<"g", <<2, 2>>, it>>>>,
        <<Sum, Fn(<<>>, <<<<"init", "a", <<2, 2>>, it>>, <<"assign", "a", <<N(0), N(1)>>, Get>>,
                         Put(<<"call", 1, <<V("a"), N(1)>>>>), Put(<<"call", 1, <<V("g"), N(3)>>>>),
                         <<"assign", "g", <<N(1), N(1)>>, N(9)>>,
                         Ret(<<"call", 1, <<V("g"), N(3)>>>>)>>)>>) : it \in Inits}

\* Calls: recursion, names of an outer scope, a condition as an index.
Fact == Fn(<<<<"n", <<>>>>>>, <<<<"if", Op("leq", V("n"), N(1)), Ret(N(1))>>,
           Ret(Op("mul", <<"call", 1, <<Op("sub", V("n"), N(1))>>>>, V("n")))>>)
Count == Proc(<<<<"k", <<>>>>>>, <<<<"if", Op("eq", V("k"), N(0)), <<"return">>>>, Set("g", Op("add", V("g"), V("k")))>>)
Calls ==
  {Prog(<<<<"g", <<>>, <<"e", N(3)>>>>>>,
        <<Fact, Count,
          Fn(<<>>, <<Let("x", Get), <<"init", "a", <<2>>, L(<<E(0), E(6)>>)>>,
                     <<"exp", <<"call", 2, <<V("x")>>>>>>,
                     Blk(<<Let("g", N(8)), Set("x", Op("add", V("x"), V("g")))>>),
                     <<"if", At1("a", <<"not", V("x")>>), Set("x", Op("mod", V("x"), N(4)))>>,
                     Put(V("g")), Ret(<<"call", 1, <<V("x")>>>>)>>)>>)}

MCPrograms == Branches \cup Single \cup Nested \cup Mappings \cup {Pairs(<<>>)} \cup Calls \cup Arrays
MCSwitches == {{}, {"mem2reg"}, {"gvn"}, {"gcm"}, {"before-gcm"}}
MCInputs == {<<0>>, <<1>>, <<3>>}
===============================================================================
