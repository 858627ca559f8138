-------------------------------- MODULE Rv64 --------------------------------
(***************************************************************************)
(* What one RV64 instruction does, as the stage functions both cores share *)
(* compute it: execute, memory_stage and writeback of                      *)
(* crates/virtual-machine/src/cpu/pipeline/, and trap entry, trap return   *)
(* and interrupt selection of traps.rs and interrupts.rs.  The pipeline    *)
(* (Pipeline.tla) and the one-instruction-at-a-time core (Functional.tla)  *)
(* call these same operators, as the two Rust cores call the same          *)
(* functions, and differ only in when they call them.                      *)
(*                                                                         *)
(* The architectural state is a record arch: the integer registers x and   *)
(* floating-point registers f, pc, priv ("U", "S", "M"), the interrupt     *)
(* enable stacks of mstatus, the trap CSRs and fcsr.  Words are 0..W-1.    *)
(* A code word is a tuple of its bit fields: the operation and the rd, rs1 *)
(* and rs2 positions, then what else it holds (rs3, an immediate, a CSR).  *)
(* Each family of operations has one member: "alu" adds (its immediate     *)
(* form included), "fop" is a floating-point operation that may raise a    *)
(* flag, "fma" the three-operand one, "amo" swaps.                         *)
(***************************************************************************)
EXTENDS Integers, Sequences

CONSTANTS
  W,          \* words are 0..W-1
  Regs,       \* the register numbers, 0 among them
  MemSize,    \* addresses below it answer, the others fault
  CodeSize,   \* instruction words at pcs 0..CodeSize-1
  MVec, SVec, \* mtvec and stvec
  Delegated   \* causes medeleg and mideleg send to S-mode

ASSUME ConstantsAssumption ==
  /\ {W, MemSize, CodeSize} \subseteq Nat \ {0}
  /\ 0 \in Regs /\ Regs \subseteq Nat
  /\ {MVec, SVec} \subseteq 0..(CodeSize - 1)

None == [op |-> "none"]

Word == 0..(W - 1)

Fault(cause) == [kind |-> "Err", cause |-> cause]

-----------------------------------------------------------------------------
(* Registers. *)

read_x(a, r) == IF r = 0 THEN 0 ELSE a.x[r]

write_x(a, r, v) == IF r = 0 THEN a ELSE [a EXCEPT !.x[r] = v]

write_f(a, r, v) == [a EXCEPT !.f[r] = v]

\* ArchitecturalState::new, with the delegation and the privilege the boot
\* code leaves behind when it starts a user program at pc 0.
Reset(priv) ==
  [x |-> [r \in Regs |-> 0], f |-> [r \in Regs |-> 0], pc |-> 0, priv |-> priv,
   mie |-> FALSE, mpie |-> FALSE, mpp |-> "U", sie |-> FALSE, spie |-> FALSE, spp |-> "U",
   mepc |-> 0, mcause |-> "none", sepc |-> 0, scause |-> "none",
   fcsr |-> 0, resv |-> MemSize]

-----------------------------------------------------------------------------
(* IF and ID.  A pc outside the code is an access fault. *)

Fetchable(code, pc) == pc \in DOMAIN code

\* The fields a word holds, by the operation it names.  csrr is csrrs with x0,
\* which writes nothing.
decode(word) ==
  [op  |-> IF word[1] \in {"csrr", "csrrw"} THEN "csr" ELSE word[1],
   rd  |-> word[2], rs1 |-> word[3], rs2 |-> word[4],
   ext |-> IF Len(word) = 5 THEN word[5] ELSE 0,
   write |-> word[1] = "csrrw"]

Decodes(word) == word[1] # "illegal"

(* Which registers an instruction names, and in which file. *)

IntDest == {"alu", "jal", "jalr", "load", "amo", "lr", "sc", "csr"}
FpDest  == {"fload", "fop", "fma"}

insn_rd(i)   == IF i.op \in IntDest \cup FpDest THEN i.rd ELSE 0
insn_rs1(i)  == IF i.op \in {"jalr", "branch", "load", "store", "alu", "fload", "fstore",
                             "amo", "lr", "sc", "csr"} THEN i.rs1 ELSE 0
insn_rs2(i)  == IF i.op \in {"branch", "store", "alu", "amo", "sc"} THEN i.rs2 ELSE 0
insn_frs1(i) == IF i.op \in {"fop", "fma"} THEN i.rs1 ELSE 0
insn_frs2(i) == IF i.op \in {"fop", "fma", "fstore"} THEN i.rs2 ELSE 0

insn_is_load(i)    == i.op \in {"load", "fload"}
insn_is_atomic(i)  == i.op \in {"amo", "lr", "sc"}
insn_is_fp_dest(i) == i.op \in FpDest
is_trap_return(i)  == i.op \in {"mret", "sret"}

-----------------------------------------------------------------------------
(* EX.  ops holds the operand values the caller gathered; the third operand *)
(* of fma is read from the register file unless it is also the first or the *)
(* second one.                                                              *)

read_f_bits(a, i, ops, r) ==
  CASE r = insn_frs1(i) -> ops.frs1
    [] r # insn_frs1(i) /\ r = insn_frs2(i) -> ops.frs2
    [] OTHER -> a.f[r]

Next1(pc) == pc + 1

csr_read(a, c) == CASE c = "fcsr" -> a.fcsr [] c = "mepc" -> a.mepc [] c = "sepc" -> a.sepc

Known(c) == c \in {"fcsr", "mepc", "sepc"}

Rank(p) == CASE p = "U" -> 0 [] p = "S" -> 1 [] p = "M" -> 3

csr_priv(c) == CASE c = "mepc" -> 3 [] c = "sepc" -> 1 [] OTHER -> 0

execute(a, i, ops, pc) ==
  LET WriteInt(v, next) == [kind |-> "WriteInt", rd |-> i.rd, val |-> v % W, next |-> next]
      WriteFp(v) == [kind |-> "WriteFp", rd |-> i.rd, val |-> v % W,
                     flags |-> IF v < W THEN 0 ELSE 1, next |-> Next1(pc)]
      Access(kind) == [kind |-> kind, funct |-> i.op, rd |-> insn_rd(i), addr |-> ops.rs1,
                       val |-> IF i.op = "fstore" THEN ops.frs2 ELSE ops.rs2,
                       next |-> Next1(pc)]
  IN CASE i.op = "alu" -> WriteInt(ops.rs1 + ops.rs2 + i.ext, Next1(pc))
       [] i.op = "jal" -> WriteInt(pc + 1, i.ext)
       [] i.op = "jalr" -> WriteInt(pc + 1, ops.rs1)
       [] i.op = "branch" -> [kind |-> "Jump",
                              next |-> IF ops.rs1 = ops.rs2 THEN i.ext ELSE Next1(pc)]
       [] i.op = "fop" -> WriteFp(ops.frs1 + ops.frs2 + 1)
       [] i.op = "fma" -> WriteFp(ops.frs1 * ops.frs2 + read_f_bits(a, i, ops, i.ext))
       [] i.op = "load" -> Access("Load")
       [] i.op = "fload" -> Access("FLoad")
       [] i.op \in {"store", "fstore"} -> Access("Store")
       [] insn_is_atomic(i) -> Access("Atomic")
       [] i.op = "csr" /\ Rank(a.priv) < csr_priv(i.ext) -> Fault("illegal")
       [] i.op = "csr" /\ Rank(a.priv) >= csr_priv(i.ext) ->
            [kind |-> "Csr", rd |-> i.rd, csr |-> i.ext, write |-> i.write, operand |-> ops.rs1,
             old |-> IF Known(i.ext) THEN csr_read(a, i.ext) ELSE 0, next |-> Next1(pc)]
       [] i.op \in {"nop", "exit"} -> [kind |-> i.op, next |-> Next1(pc)]
       [] i.op \in {"ecall", "ebreak", "mret", "sret", "sfence"} -> [kind |-> i.op]

-----------------------------------------------------------------------------
(* MEM.  Returns the result handed to writeback, the memory and the LR/SC  *)
(* reservation.  An address outside memory faults and changes nothing but, *)
(* for lr, the reservation, which is set before the bus is read.           *)

Loaded(r, v) == [kind |-> IF r.kind = "FLoad" THEN "WriteFp" ELSE "WriteInt",
                 rd |-> r.rd, val |-> v, flags |-> 0, next |-> r.next]

\* "amo" is the swap: the other eight differ in the value they store.
amo_op(r, mem, resv) ==
  IF r.addr \in DOMAIN mem
  THEN [res |-> Loaded(r, mem[r.addr]), mem |-> [mem EXCEPT ![r.addr] = r.val], resv |-> resv]
  ELSE [res |-> Fault("load"), mem |-> mem, resv |-> resv]

\* sc spends the reservation before it knows whether the store succeeds.
handle_atomic(r, mem, resv) ==
  LET ok == r.addr \in DOMAIN mem
  IN CASE r.funct = "lr" ->
            [res |-> IF ok THEN Loaded(r, mem[r.addr]) ELSE Fault("load"),
             mem |-> mem, resv |-> r.addr]
       [] r.funct = "sc" /\ resv # r.addr -> [res |-> Loaded(r, 1), mem |-> mem, resv |-> resv]
       [] r.funct = "sc" /\ resv = r.addr ->
            [res |-> IF ok THEN Loaded(r, 0) ELSE Fault("store"),
             mem |-> IF ok THEN [mem EXCEPT ![r.addr] = r.val] ELSE mem, resv |-> MemSize]
       [] r.funct = "amo" -> amo_op(r, mem, resv)

memory_stage(r, mem, resv) ==
  LET ok == r.addr \in DOMAIN mem
  IN CASE r.kind \in {"Load", "FLoad"} ->
            [res |-> IF ok THEN Loaded(r, mem[r.addr]) ELSE Fault("load"),
             mem |-> mem, resv |-> resv]
       [] r.kind = "Store" ->
            [res |-> IF ok THEN [kind |-> "Jump", next |-> r.next] ELSE Fault("store"),
             mem |-> IF ok THEN [mem EXCEPT ![r.addr] = r.val] ELSE mem, resv |-> resv]
       [] r.kind = "Atomic" -> handle_atomic(r, mem, resv)
       [] OTHER -> [res |-> r, mem |-> mem, resv |-> resv]

-----------------------------------------------------------------------------
(* Traps. *)

take_trap(a, cause, pc) ==
  IF a.priv # "M" /\ cause \in Delegated
  THEN [a EXCEPT !.sepc = pc, !.scause = cause, !.spie = a.sie, !.sie = FALSE,
                 !.spp = a.priv, !.priv = "S", !.pc = SVec]
  ELSE [a EXCEPT !.mepc = pc, !.mcause = cause, !.mpie = a.mie, !.mie = FALSE,
                 !.mpp = a.priv, !.priv = "M", !.pc = MVec]

handle_mret(a) ==
  [a EXCEPT !.mie = a.mpie, !.mpie = TRUE, !.priv = a.mpp, !.mpp = "U", !.pc = a.mepc]

sret_legal(a) == a.priv # "U"

handle_sret(a) ==
  [a EXCEPT !.sie = a.spie, !.spie = TRUE, !.priv = a.spp, !.spp = "U", !.pc = a.sepc]

\* interrupts::pending when a device asserts the interrupt input: the cause
\* stays with M-mode or is delegated, and each mode has its own enable.
pending(a) ==
  IF "irq" \in Delegated THEN \/ a.priv = "U"
                              \/ a.priv = "S" /\ a.sie
                         ELSE \/ a.priv # "M"
                              \/ a.mie

-----------------------------------------------------------------------------
(* WB. *)

csr_write(a, c, v) ==
  CASE c = "fcsr" -> [a EXCEPT !.fcsr = v]
    [] c = "mepc" -> [a EXCEPT !.mepc = v]
    [] c = "sepc" -> [a EXCEPT !.sepc = v]

\* writeback and what the cores do with its result: commit and move pc to the
\* next instruction, or take the trap, or return from one.  The old value of a
\* CSR is read again here.
writeback(a, r) ==
  LET At(b) == [b EXCEPT !.pc = r.next]
      ReadCsr == csr_read(a, r.csr)
  IN CASE r.kind = "WriteInt" -> At(write_x(a, r.rd, r.val))
       [] r.kind = "WriteFp" ->
            At(write_f([a EXCEPT !.fcsr = IF r.flags = 0 THEN @ ELSE 1], r.rd, r.val))
       [] r.kind = "Csr" /\ Known(r.csr) ->
            At(write_x(IF r.write THEN csr_write(a, r.csr, r.operand) ELSE a, r.rd,
                       ReadCsr % W))
       [] r.kind = "Csr" /\ ~Known(r.csr) -> take_trap(a, "illegal", a.pc)
       [] r.kind \in {"Jump", "nop", "exit"} -> At(a)
       [] r.kind = "sfence" -> [a EXCEPT !.pc = Next1(a.pc)]
       [] r.kind = "ecall" -> take_trap(a, "ecall", a.pc)
       [] r.kind = "ebreak" -> take_trap(a, "ebreak", a.pc)
       [] r.kind = "mret" -> handle_mret(a)
       [] r.kind = "sret" -> IF sret_legal(a) THEN handle_sret(a) ELSE take_trap(a, "illegal", a.pc)

=============================================================================
