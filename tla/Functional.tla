----------------------------- MODULE Functional -----------------------------
(***************************************************************************)
(* FunctionalCore: one instruction, one trap or one interrupt per step,    *)
(* with nothing in flight between steps (crates/virtual-machine/src/cpu/   *)
(* functional.rs).  It is what the pipeline must look like to the program  *)
(* it runs.                                                                *)
(***************************************************************************)
EXTENDS Rv64

VARIABLES
  code,    \* the instruction words; no program writes them
  arch,    \* the architectural state
  mem,     \* the data memory
  exited   \* the SYSCON device latched an exit code

vars == <<code, arch, mem, exited>>

Init ==
  /\ arch = Reset("U")
  /\ mem = [a \in 0..(MemSize - 1) |-> 0]
  /\ exited = FALSE

\* The operands of i, read from the register file.
Operands(a, i) ==
  [rs1 |-> read_x(a, insn_rs1(i)), rs2 |-> read_x(a, insn_rs2(i)),
   frs1 |-> a.f[insn_frs1(i)], frs2 |-> a.f[insn_frs2(i)]]

Trap(a, cause) == arch' = take_trap(a, cause, a.pc) /\ UNCHANGED <<code, mem, exited>>

\* The interrupt is checked before anything of the instruction happens.
Interrupt ==
  /\ pending(arch)
  /\ Trap(arch, "irq")

FetchFault ==
  /\ ~Fetchable(code, arch.pc)
  /\ Trap(arch, "fetch")

DecodeFault ==
  /\ Fetchable(code, arch.pc) /\ ~Decodes(code[arch.pc])
  /\ Trap(arch, "illegal")

\* execute, memory_stage and writeback of the instruction at pc; a fault of
\* either of the first two leaves the registers as they were.
Execute ==
  /\ Fetchable(code, arch.pc) /\ Decodes(code[arch.pc])
  /\ LET i == decode(code[arch.pc])
         r == execute(arch, i, Operands(arch, i), arch.pc)
         m == memory_stage(r, mem, arch.resv)
         a == [arch EXCEPT !.resv = m.resv]
     IN \/ r.kind = "Err" /\ Trap(arch, r.cause)
        \/ r.kind # "Err" /\ m.res.kind = "Err" /\ Trap(a, m.res.cause)
        \/ /\ r.kind # "Err" /\ m.res.kind # "Err"
           /\ arch' = writeback(a, m.res)
           /\ mem' = m.mem
           /\ exited' = (r.kind = "exit")
           /\ UNCHANGED code

Next == ~exited /\ (Interrupt \/ FetchFault \/ DecodeFault \/ Execute)

Spec == Init /\ [][Next]_vars
=============================================================================
