------------------------------ MODULE MCRegAlloc ------------------------------
(***************************************************************************)
(* Functions for RegAlloc with three machine registers: 0 is caller-saved  *)
(* and holds arguments and results, 1 and 2 are callee-saved, 2 is the link   *)
(* register.                                                               *)
(***************************************************************************)
EXTENDS Frame

MCNoGraphs == {}

I(t, d, u) == [kind |-> "op", tag |-> t, def |-> d, use |-> u]
Mv(d, s) == [kind |-> "move", tag |-> 0, def |-> {d}, use |-> <<s>>]
C(t, d) == [kind |-> "const", tag |-> t, def |-> {d}, use |-> <<>>]
A(d) == Instr("addr", MaxNode, {d}, <<>>)
W(k, a, v) == Instr("put", k, {}, <<a, v>>)
G(k, d, a) == Instr("get", k, {d}, <<a>>)
Ret(t) == [kind |-> "op", tag |-> t, def |-> {}, use |-> <<0>>]
B(insts, succ, depth) == [insts |-> insts, succ |-> succ, depth |-> depth]
Array(n) == [id |-> MaxNode, size |-> n]
Prog(bs, paths, rm) == [blocks |-> bs, paths |-> paths, remat |-> rm, arrays |-> <<>>]

\* Five values alive at once.
Pressure ==
  Prog(<<B(<<Mv(3, 0), I(1, {4}, <<3>>), I(2, {5}, <<3>>), I(3, {6}, <<4, 5>>), I(4, {7}, <<3, 6>>),
             I(5, {8}, <<4, 7>>), I(6, {9}, <<5, 8>>), I(7, {3}, <<9, 6>>), Mv(0, 3), Ret(8)>>, {}, 0)>>,
       {<<1>>}, <<>>)

\* Four values that are each updated in place while the others are alive.
Update ==
  Prog(<<B(<<Mv(3, 0), I(1, {4}, <<3>>), I(2, {5}, <<3>>), I(3, {6}, <<3>>), I(4, {7}, <<3>>),
             I(5, {4}, <<4, 7>>), I(6, {5}, <<5, 4>>), I(7, {6}, <<6, 5>>), I(8, {7}, <<7, 6>>),
             I(9, {3}, <<4, 5>>), I(10, {3}, <<3, 6>>), I(11, {3}, <<3, 7>>), Mv(0, 3), Ret(12)>>,
           {}, 0)>>,
       {<<1>>}, <<>>)

\* Values and a constant kept across a call, and an argument moved into place.
AcrossCall ==
  Prog(<<B(<<Mv(3, 0), C(1, 4), I(2, {5}, <<3, 4>>)>> \o CallOf(3, <<5>>) \o
           <<Mv(6, 0), I(4, {7}, <<6, 4>>), I(5, {8}, <<7, 3>>)>> \o CallOf(6, <<8>>) \o
           <<Mv(9, 0), I(7, {10}, <<9, 5>>), I(8, {11}, <<10, 4>>), Mv(0, 11), Ret(9)>>, {}, 0)>>,
       {<<1>>}, 4 :> 1)

\* A loop with two variables that are exchanged through copies, a limit that
\* stays alive, and a definition nobody reads.
Loop ==
  Prog(<<B(<<Mv(3, 0), C(1, 11), Mv(4, 11), I(2, {5}, <<3>>), C(3, 6)>>, {2}, 0),
         B(<<I(4, {}, <<4, 3>>)>>, {3, 4}, 1),
         B(<<Mv(7, 5), I(5, {8}, <<7, 6>>), I(6, {9}, <<8>>), Mv(5, 4), Mv(4, 8)>>, {2}, 1),
         B(<<I(7, {10}, <<4, 5>>), Mv(0, 10), Ret(8)>>, {}, 0)>>,
       {<<1, 2, 4>>, <<1, 2, 3, 2, 4>>, <<1, 2, 3, 2, 3, 2, 4>>}, (11 :> 1) @@ (6 :> 3))

\* Parameters and arguments on the stack, an array, and calls with an odd and
\* an even number of pushes.
ThroughStack ==
  [Prog(<<B(Params(<<3, 4, 5>>) \o <<A(6), I(1, {7}, <<3>>), W(1, 6, 7), W(0, 6, 4)>> \o
            CallOf(2, <<3, 5>>) \o <<Mv(8, 0), G(0, 9, 6)>> \o CallOf(3, <<9, 8, 5>>) \o
            <<Mv(10, 0), G(1, 11, 6), I(4, {12}, <<10, 11>>), I(5, {13}, <<12, 8>>), Mv(0, 13), Ret(6)>>,
            {}, 0)>>,
        {<<1>>}, <<>>) EXCEPT !.arrays = <<Array(2)>>]

\* A loop under so much pressure that registers for the offsets of far stores
\* are spilled in turn.
Crowded ==
  Prog(<<B(<<Mv(3, 0), I(1, {4}, <<3>>), I(2, {5}, <<3>>), I(3, {6}, <<3>>), I(4, {7}, <<5>>)>>, {2}, 0),
         B(<<I(5, {3}, <<3, 6>>), I(6, {3}, <<5, 4>>), I(7, {5}, <<3, 4>>)>>, {2, 3}, 1),
         B(<<I(8, {3}, <<3, 4>>), I(9, {3}, <<3, 5>>), I(10, {3}, <<3, 6>>), I(11, {3}, <<3, 7>>),
             Mv(0, 3), Ret(12)>>, {}, 0)>>,
       {<<1, 2, 3>>, <<1, 2, 2, 3>>}, <<>>)

\* Nothing is kept across the call: the link register is the only one saved.
Wrapper ==
  Prog(<<B(<<Mv(3, 0), I(1, {4}, <<3>>)>> \o CallOf(2, <<4>>) \o
           <<Mv(5, 0), I(3, {6}, <<5>>), Mv(0, 6), Ret(4)>>, {}, 0)>>,
       {<<1>>}, <<>>)

MCPrograms == {Pressure, Update, AcrossCall, Loop, ThroughStack, Crowded, Wrapper}
===============================================================================
