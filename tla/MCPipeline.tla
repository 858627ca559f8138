----------------------------- MODULE MCPipeline -----------------------------
(* Programs for Pipeline: every sequence of N - 1 code words from a small   *)
(* set and a word that uses what they computed or a trap return of user     *)
(* mode, then a jump back to 0 and the two trap handlers: M-mode resumes at *)
(* x1, S-mode returns to where it was interrupted.                          *)
EXTENDS Pipeline

CONSTANT N

Handlers == << <<"jal", 0, 0, 0, 0>>, <<"csrrw", 0, 1, 0, "mepc">>,
               <<"mret", 0, 0, 0>>, <<"sret", 0, 0, 0>> >>

Image(p) == [pc \in 0..(N + 3) |-> (p \o Handlers)[pc + 1]]

Plain == {<<"alu", 1, 0, 0, 1>>, <<"alu", 2, 1, 1, 0>>, <<"load", 1, 2, 0>>, <<"store", 0, 1, 2>>,
          <<"branch", 0, 1, 2, 0>>, <<"jalr", 1, 2, 0>>, <<"fop", 0, 0, 1>>, <<"fload", 0, 1, 0>>,
          <<"lr", 2, 1, 0>>, <<"sc", 1, 1, 2>>, <<"csrrw", 2, 1, 0, "fcsr">>,
          <<"sfence", 0, 0, 0>>, <<"ecall", 0, 0, 0>>, <<"exit", 0, 0, 0>>}

TrapReturns == {<<"mret", 0, 0, 0>>, <<"sret", 0, 0, 0>>}

\* The last word: x2 is stored where x1 points or, when the first word sets
\* x1, is jumped to; or a trap return, which what is ahead of it or an
\* interrupt may overtake.
Uses(q) == \/ q[N] = <<"store", 0, 1, 2>>
           \/ q[N] = <<"jalr", 1, 2, 0>> /\ q[1] = <<"alu", 1, 0, 0, 1>>
           \/ q[N] \in TrapReturns

\* No neighbours that are Exposed, and no indirect jump whose target may be the
\* next word.
Shielded(p) ==
  /\ \A k \in 1..(N - 1) : ~Exposed(decode(p[k]), decode(p[k + 1]))
  /\ \A k \in 1..N : p[k][1] = "jalr" => k >= W

ShieldedPrograms == {Image(p) : p \in {q \in [1..N -> Plain \cup TrapReturns] : Uses(q) /\ Shielded(q)}}
=============================================================================
