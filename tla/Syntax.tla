-------------------------------- MODULE Syntax --------------------------------
(***************************************************************************)
(* Short names for the SysY programs the runs translate (the syntax trees  *)
(* of FrontEnd).                                                           *)
(***************************************************************************)
EXTENDS IR

N(n) == <<"num", n>>
V(x) == <<"lval", x, <<>>>>
At1(x, i) == <<"lval", x, <<i>>>>
Op(o, a, b) == <<"op", o, a, b>>
Set(x, e) == <<"assign", x, <<>>, e>>
Let(x, e) == <<"init", x, <<>>, <<"e", e>>>>
Put(e) == <<"exp", <<"call", PutInt, <<e>>>>>>
Get == <<"call", GetInt, <<>>>>
Blk(ss) == <<"block", ss>>
Ret(e) == <<"return", e>>
Fn(params, body) == [params |-> params, void |-> FALSE, body |-> body]
Proc(params, body) == [params |-> params, void |-> TRUE, body |-> body]
Prog(globals, fns) == [globals |-> globals, fns |-> fns]
Main(body) == Prog(<<>>, <<Fn(<<>>, body)>>)
Inc(x) == Set(x, Op("add", V(x), N(1)))
Repeat(x, n, ss) == Blk(<<Let(x, N(0)), <<"while", Op("less", V(x), N(n)), Blk(<<Inc(x)>> \o ss)>>>>)
Until(x, n, ss) == Blk(<<Let(x, N(0)), <<"while", N(1), Blk(<<Inc(x)>> \o ss \o <<<<"if", Op("geq", V(x), N(n)), <<"break">>>>>>)>>>>)
L(items) == <<"l", items>>
E(n) == <<"e", N(n)>>
===============================================================================
