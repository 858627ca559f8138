------------------------------ MODULE MCCodegen ------------------------------
(* Small functions for Codegen: the shapes where liveness, phis and folding are
   easy to get wrong, with their operands varied. *)
EXTENDS Codegen

R(r) == [r |-> r, n |-> 0]
Inst(k, dest, ty, args) == [k |-> k, dest |-> dest, ty |-> ty, args |-> args, from |-> <<>>]
Phi(dest, args, from) == [k |-> "phi", dest |-> dest, ty |-> "word", args |-> args, from |-> from]
Block(code, to, val) == [code |-> code, term |-> [to |-> to, val |-> val]]
Param(r) == [r |-> r, ty |-> "word"]

\* A loop whose two phis may swap, copy each other, or carry one value round.
Loop(init1, back1, init2, back2, seen) ==
    [params |-> <<Param("a")>>,
     blocks |->
        <<Block(<<Inst("math", "x", "word", <<R("a"), Const(1)>>)>>, <<2>>, Const(0)),
          Block(<<Phi("u", <<init1, back1>>, <<1, 2>>), Phi("w", <<init2, back2>>, <<1, 2>>),
                  Inst("call", "c", "i1", <<seen>>)>>, <<2, 3>>, R("c")),
          Block(<<Inst("load", "d", "narrow", <<R("u")>>),
                  Inst("zext", "z", "word", <<R("d")>>)>>, <<>>, R("z"))>>]

Loops ==
    {Loop(i1, b1, i2, b2, seen) :
        i1 \in {R("a"), R("x")}, b1 \in {R("u"), R("w"), R("x")},
        i2 \in {R("a"), Const(1)}, b2 \in {R("u"), Const(1)}, seen \in {R("w"), R("a")}}

\* A diamond: what each arm computes, what each phi takes from it, and what
\* stays alive around it.
Diamond(left, takes, other, last) ==
    [params |-> <<Param("a"), Param("b")>>,
     blocks |->
        <<Block(<<Inst("cmp", "c", "word", <<R("a"), R("b")>>)>>, <<2, 3>>, R("c")),
          Block(<<Inst("math", "d", "word", <<left, Const(1)>>)>>, <<4>>, Const(0)),
          Block(<<Inst("call", "e", "word", <<R("a")>>)>>, <<4>>, Const(0)),
          Block(<<Phi("f", <<takes, R("e")>>, <<2, 3>>), Phi("g", <<other, other>>, <<2, 3>>),
                  Inst("math", "h", "narrow", <<R("f"), R("g")>>)>>, <<>>, last)>>]

Diamonds ==
    {Diamond(left, takes, other, last) :
        left \in {R("a"), Const(2)}, takes \in {R("d"), R("b"), Const(3)},
        other \in {R("b"), Const(1)}, last \in {R("h"), R("g"), R("a")}}

\* No phi: the same register is written on both arms, and used as a pointer.
Merge(v, w, u) ==
    [params |-> <<Param("a")>>,
     blocks |->
        <<Block(<<Inst("math", "x", "narrow", <<v, Const(1)>>),
                  Inst("cmp", "c", "narrow", <<R("x"), w>>)>>, <<2, 3>>, R("c")),
          Block(<<Inst("math", "x", "narrow", <<R("x"), Const(1)>>)>>, <<3>>, Const(0)),
          Block(<<Inst("math", "t", "word", <<R("a"), u>>), Inst("load", "p", "word", <<R("t")>>),
                  Inst("call", "q", "word", <<R("x"), R("p")>>)>>, <<>>, R("x"))>>]

Merges ==
    {Merge(v, w, u) : v \in {Const(1), Const(0), Const(-1)}, w \in {Const(1), R("a")},
                      u \in {R("x"), Const(0)}}

InputSet == {-1, 0, 1}
Functions == Loops \cup Diamonds \cup Merges

\* A narrow sum of constants, widened without its sign.
Widened ==
    {[params |-> <<Param("a")>>,
      blocks |-> <<Block(<<Inst("math", "x", "narrow", <<Const(1), v>>),
                           Inst("zext", "z", "word", <<R("x")>>)>>, <<>>, R("z"))>>]
     : v \in {Const(1), R("a")}}
=============================================================================
