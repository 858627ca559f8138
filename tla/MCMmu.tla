------------------------------- MODULE MCMmu --------------------------------
(* Two levels of two entries: two roots, 0 and 1, that share the leaf table *)
(* 2, and data frames from 4 on.                                            *)
EXTENDS Mmu

Pte(perms, ppn) ==
  [v |-> TRUE, r |-> "r" \in perms, w |-> "w" \in perms, x |-> "x" \in perms,
   u |-> "u" \in perms, a |-> FALSE, d |-> FALSE, ppn |-> ppn]

SomeSlots == {<<0, 0>>, <<1, 0>>, <<2, 0>>}
SomePtes == {Invalid, Pte({}, 2), Pte({"r", "w", "u"}, 4), Pte({"r", "w", "x"}, 5)}

Ctx(priv, sum, mxr, allow, limit) ==
  [priv |-> priv, sum |-> sum, mxr |-> mxr, pmp |-> allow, limit |-> limit]

SomeContexts == {Ctx("U", FALSE, FALSE, {}, 0), Ctx("S", TRUE, FALSE, {"load", "store"}, 4),
                 Ctx("M", FALSE, FALSE, {}, 0)}
=============================================================================
