------------------------------- MODULE Arithmetic -----------------------------
(***************************************************************************)
(* Divisions that need not be done (mod2div and muldiv in                  *)
(* ir/opt/arith.cpp).                                                      *)
(***************************************************************************)
EXTENDS Memory

\* Fault: the next new register has the number of this one.
ModByQuotient_SameRegister(const, s, i) ==
  CASE i.op = "div" -> [s EXCEPT !.is = Append(@, i), !.m = (i.u :> i.d) @@ @]
    [] i.op = "mod" /\ i.u \in DOMAIN s.m ->
         [s EXCEPT !.is = @ \o <<Binary("mul", s.regs + 1, s.m[i.u], i.u[2]), Binary("sub", i.d, i.u[1], s.regs + 1)>>]
    [] OTHER -> [s EXCEPT !.is = Append(@, i)]
\* Mod2Div: m has the quotients known; a % b is a - (a / b) * b.
ModByQuotient(const, s, i) ==
  LET key == i.u
      r == s.regs
  IN
  CASE i.op = "div" -> [s EXCEPT !.is = Append(@, i), !.m = (key :> i.d) @@ @]
    [] i.op = "mod" ->
         IF key \notin DOMAIN s.m \/ (i.u[2] \in DOMAIN const /\ const[i.u[2]] = 2) THEN [s EXCEPT !.is = Append(@, i)]
         ELSE [s EXCEPT !.is = @ \o <<Binary("mul", r + 1, s.m[key], i.u[2]), Binary("sub", i.d, i.u[1], r + 1)>>,
                        !.regs = r + 1]
    [] OTHER -> [s EXCEPT !.is = Append(@, i)]

Mod2Div(f) ==
  LET l == Loops(f)
      const == Constants(f)
      VisitBB(acc, b) ==
        LET s == Fold(LAMBDA x, i : ModByQuotient(const, x, i),
                      [m |-> Facts(acc.in, b), regs |-> acc.f.regs, reg |-> acc.reg, is |-> <<>>], acc.f.code[b])
        IN  [Visited(acc, b, s) EXCEPT !.f.regs = s.regs]
  IN  Walk(f, l, <<>>, VisitBB)

\* MulDiv: a * b / b is a.  def is what the registers were defined by.
DropDivision(def, s, x) ==
  LET i == Replaced(x, s.reg)
      product == def[i.u[1]]
  IN  IF i.op # "div" THEN [s EXCEPT !.is = Append(@, i)]
      ELSE IF product.op # "mul" THEN [s EXCEPT !.is = Append(@, i)]
      ELSE IF product.u[2] # i.u[2] THEN [s EXCEPT !.is = Append(@, i)]
      ELSE [s EXCEPT !.is = Append(@, Unary("id", i.d, product.u[1])), !.reg = (i.d :> product.u[1]) @@ @]

MulDiv(f) ==
  LET l == Loops(f)
      def == Strict([r \in DefinedRegs(f) |-> DefOf(f, r)])
      VisitBB(acc, b) == Visited(acc, b, Fold(LAMBDA s, i : DropDivision(def, s, i),
                                              [m |-> <<>>, reg |-> acc.reg, is |-> <<>>], acc.f.code[b]))
  IN  Walk(f, l, <<>>, VisitBB)
===============================================================================
