------------------------------- MODULE MCLive -------------------------------
(* A small guest: it goes round in main (0, 1), then calls the function at  *)
(* 4 and ends in a jump to itself.                                          *)
EXTENDS Live

Rounds == [pc \in 0..4 |-> <<"op", "jump", "call", "loop", "ret">>[pc + 1]]
RoundsLines == [pc \in 0..4 |-> <<1, 1, 2, 3, 7>>[pc + 1]]
=============================================================================
