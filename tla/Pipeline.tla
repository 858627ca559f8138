------------------------------ MODULE Pipeline ------------------------------
(***************************************************************************)
(* The five-stage in-order core (crates/virtual-machine/src/cpu/           *)
(* pipeline.rs, hazard_unit.rs, predictor.rs).  A tick runs the stages     *)
(* from WB back to IF on the stage registers it found; every early return  *)
(* of `tick' is an action of its own.  Statistics and the display feed are *)
(* left out, and so are the counters cycle and instret.                    *)
(***************************************************************************)
EXTENDS Rv64

CONSTANTS
  Programs,   \* the code images a behaviour may start with
  PhtSize,    \* entries of the pattern history table
  Latencies   \* extra cycles a data access may cost, 0 when it costs none

\* What decode accepts, and "illegal"; the register fields name registers.
IsWord(w) ==
  /\ decode(w).op \in {"alu", "jal", "jalr", "branch", "fop", "fma", "load", "fload", "store",
                       "fstore", "amo", "lr", "sc", "csr", "nop", "exit", "ecall", "ebreak",
                       "mret", "sret", "sfence", "illegal"}
  /\ {decode(w).rd, decode(w).rs1, decode(w).rs2} \subseteq Regs
  /\ decode(w).op = "fma" => decode(w).ext \in Regs

ASSUME PipelineAssumption ==
  /\ PhtSize \in Nat \ {0} /\ Latencies \subseteq Nat /\ Latencies # {}
  /\ \A p \in Programs : /\ DOMAIN p = 0..(CodeSize - 1)
                         /\ \A pc \in DOMAIN p : IsWord(p[pc])

VARIABLES
  code, arch, mem, exited,
  fetch_pc, if_id, id_ex, ex_mem, mem_wb, pending_mem_wb, memory_wait_cycles,
  mret_in_flight, predictor,
  retired   \* auxiliary: arch once what is past MEM has retired

stages == <<if_id, id_ex, ex_mem, mem_wb, pending_mem_wb, memory_wait_cycles>>
vars == <<code, arch, mem, exited, fetch_pc, stages, mret_in_flight, predictor, retired>>

\* BranchPredictor::new: weakly not taken, and no target known (an unknown
\* target reads as the next word).
NoBranches == [pht |-> [k \in 0..(PhtSize - 1) |-> 1],
               btb |-> [p \in 0..(CodeSize - 1) |-> p + 1]]

Init ==
  /\ code \in Programs
  /\ arch = Reset("U")
  /\ mem = [a \in 0..(MemSize - 1) |-> 0]
  /\ exited = FALSE
  /\ fetch_pc = arch.pc
  /\ if_id = None /\ id_ex = None /\ ex_mem = None /\ mem_wb = None /\ pending_mem_wb = None
  /\ memory_wait_cycles = 0
  /\ mret_in_flight = FALSE
  /\ predictor = NoBranches
  /\ retired = arch

-----------------------------------------------------------------------------
(* Hazards.  Load-use detection compares the raw register fields of the    *)
(* fetched word, whichever file they name.                                 *)

load_use_hazard(de, fd) ==
  /\ de # None /\ fd # None
  /\ LET i == decode(de.raw)
     IN /\ insn_is_load(i)
        /\ insn_rd(i) # 0 \/ insn_is_fp_dest(i)
        /\ insn_rd(i) \in {fd.raw[3], fd.raw[4]}

\* Mutant: the result in MEM/WB wins over the newer one in EX/MEM.
compute_forwarding_OldestWins(em, mw, de) ==
  LET i == decode(de.raw)
      Produces(p, r) == p # None /\ ~p.fwd.fp /\ p.fwd.rd = r /\ r # 0
      Pick(r, v) == IF Produces(mw, r) THEN mw.fwd.val
                    ELSE IF Produces(em, r) /\ ~em.is_load THEN em.fwd.val ELSE v
  IN [de.ops EXCEPT !.rs1 = Pick(insn_rs1(i), @), !.rs2 = Pick(insn_rs2(i), @)]

\* The newest older result for register r of a file, v when there is none in
\* flight.  Loads and atomics have no result yet in EX/MEM.
compute_forwarding(em, mw, de) ==
  LET i == decode(de.raw)
      Produces(p, fp, r) == p # None /\ p.fwd.fp = fp /\ p.fwd.rd = r /\ (fp \/ r # 0)
      Newest(fp, r, v) == IF Produces(em, fp, r) /\ ~em.is_load THEN em.fwd.val
                          ELSE IF Produces(mw, fp, r) THEN mw.fwd.val ELSE v
  IN [rs1  |-> Newest(FALSE, insn_rs1(i), de.ops.rs1),
      rs2  |-> Newest(FALSE, insn_rs2(i), de.ops.rs2),
      frs1 |-> Newest(TRUE, insn_frs1(i), de.ops.frs1),
      frs2 |-> Newest(TRUE, insn_frs2(i), de.ops.frs2)]

\* Neighbours the pipeline does not keep apart: a use of the result of the
\* atomic before it, a CSR read behind an instruction that changes that CSR, a
\* third operand produced by the instruction before.
Exposed(i, j) ==
  \/ i.op \in {"amo", "lr", "sc"} /\ i.rd # 0 /\ i.rd \in {j.rs1, j.rs2}
  \/ i.op \in {"csr", "fop", "fma"} /\ j.op = "csr"
  \/ insn_is_fp_dest(i) /\ j.op = "fma" /\ i.rd = j.ext

\* (destination, file, value) of a result, as the stage registers carry it;
\* fwd when the result has none of its own.
ForwardInfo(r, fwd) ==
  CASE r.kind \in {"WriteInt", "WriteFp"} ->
         [rd |-> r.rd, fp |-> r.kind = "WriteFp", val |-> r.val]
    [] r.kind = "Csr" -> [rd |-> r.rd, fp |-> FALSE, val |-> r.old % W]
    [] r.kind = "Jump" -> [rd |-> 0, fp |-> FALSE, val |-> 0]
    [] OTHER -> fwd

ReadOperands(a, i) ==
  [rs1 |-> read_x(a, insn_rs1(i)), rs2 |-> read_x(a, insn_rs2(i)),
   frs1 |-> a.f[insn_frs1(i)], frs2 |-> a.f[insn_frs2(i)]]

-----------------------------------------------------------------------------
(* Branch prediction.  Every branch counts as taken, to the next word when *)
(* its condition is false.                                                 *)

predict(p, pc) == [taken |-> p.pht[pc % PhtSize] >= 2, target |-> p.btb[pc]]

update(p, pc, target) == [p EXCEPT !.pht[pc % PhtSize] = IF @ < 3 THEN @ + 1 ELSE @,
                                   !.btb[pc] = target]

\* Mutant: only conditional branches are resolved.
IsBranch_OnlyConditional(r, pc) == r.kind = "Jump"

IsBranch(r, pc) == \/ r.kind = "Jump"
                   \/ r.kind = "WriteInt" /\ r.next # pc + 1

-----------------------------------------------------------------------------
(* The stages.  a is the architectural state so far in this tick and f the *)
(* fetch pc; a trap changes both and nothing else in the tick stops.       *)

stage_wb == IF mem_wb = None THEN arch ELSE writeback(arch, mem_wb.res)

\* The kinds of result after which the tick ends with the pipeline empty.
Squashes == mem_wb # None /\ mem_wb.res.kind \in {"ecall", "mret", "sret"}

\* ebreak and an unknown CSR trap in WB too, but the tick goes on.
WbFetch == IF /\ mem_wb # None
              /\ \/ mem_wb.res.kind = "ebreak"
                 \/ mem_wb.res.kind = "Csr" /\ ~Known(mem_wb.res.csr)
           THEN stage_wb.pc ELSE fetch_pc

stage_mem(a, f) ==
  LET m == memory_stage(ex_mem.res, mem, a.resv)
      b == [a EXCEPT !.resv = m.resv]
      trapped == take_trap(b, m.res.cause, ex_mem.pc)
  IN IF ex_mem = None THEN [reg |-> None, mem |-> mem, arch |-> a, fetch |-> f]
     ELSE IF m.res.kind = "Err"
     THEN [reg |-> None, mem |-> mem, arch |-> trapped, fetch |-> trapped.pc]
     ELSE [reg |-> [pc |-> ex_mem.pc, res |-> m.res, fwd |-> ForwardInfo(m.res, ex_mem.fwd)],
           mem |-> m.mem, arch |-> b, fetch |-> f]

stage_ex(a, f) ==
  LET i == decode(id_ex.raw)
      r == execute(a, i, compute_forwarding(ex_mem, mem_wb, id_ex), id_ex.pc)
      trapped == take_trap(a, r.cause, id_ex.pc)
  IN IF id_ex = None THEN [reg |-> None, arch |-> a, fetch |-> f, branch |-> FALSE, flush |-> FALSE]
     ELSE IF r.kind = "Err"
     THEN [reg |-> None, arch |-> trapped, fetch |-> trapped.pc, branch |-> FALSE, flush |-> FALSE]
     ELSE [reg |-> [pc |-> id_ex.pc, res |-> r,
                    is_load |-> insn_is_load(i) \/ insn_is_atomic(i),
                    fwd |-> ForwardInfo(r, [rd |-> insn_rd(i), fp |-> insn_is_fp_dest(i), val |-> 0])],
           arch |-> a, fetch |-> f,
           branch |-> IsBranch(r, id_ex.pc),
           flush |-> IsBranch(r, id_ex.pc) /\ (~id_ex.taken \/ r.next # id_ex.target)]

stage_id(a, f) ==
  LET trapped == take_trap(a, "illegal", if_id.pc)
  IN IF if_id = None THEN [reg |-> None, arch |-> a, fetch |-> f]
     ELSE IF ~Decodes(if_id.raw) THEN [reg |-> None, arch |-> trapped, fetch |-> trapped.pc]
     ELSE [reg |-> [if_id EXCEPT !.ops = ReadOperands(a, decode(if_id.raw))], arch |-> a, fetch |-> f]

stage_if(a, pc, bp) ==
  LET p == predict(bp, pc)
      trapped == take_trap(a, "fetch", pc)
  IN IF ~Fetchable(code, pc) THEN [reg |-> None, arch |-> trapped, fetch |-> trapped.pc]
     ELSE [reg |-> [pc |-> pc, raw |-> code[pc], ops |-> None, taken |-> p.taken,
                    target |-> p.target],
           arch |-> a, fetch |-> IF p.taken THEN p.target ELSE pc + 1]

-----------------------------------------------------------------------------
(* tick. *)

flush_pipeline ==
  /\ if_id' = None /\ id_ex' = None /\ ex_mem' = None /\ mem_wb' = None
  /\ pending_mem_wb' = None
  /\ memory_wait_cycles' = 0

\* sfence.vma clears the predictor as it retires.
WbPredictor == IF mem_wb # None /\ mem_wb.res.kind = "sfence" THEN NoBranches ELSE predictor

\* Mutant: the hold of a supervisor return is forgotten.
Returned_OnlyMret == mem_wb.res.kind = "mret"

\* WB completed a trap return.
Returned == \/ mem_wb.res.kind = "mret"
            \/ mem_wb.res.kind = "sret" /\ sret_legal(arch)

\* WB took a trap by ecall or returned from one: everything younger is dropped.
\* Only a completed return ends mret_in_flight.
TickSquash ==
  /\ ~exited
  /\ Squashes
  /\ arch' = stage_wb
  /\ fetch_pc' = stage_wb.pc
  /\ flush_pipeline
  /\ mret_in_flight' = (mret_in_flight /\ ~Returned)
  /\ UNCHANGED <<code, mem, exited, predictor>>

\* A data access is still being paid for.
TickWait ==
  /\ ~exited
  /\ ~Squashes
  /\ memory_wait_cycles > 0
  /\ arch' = stage_wb
  /\ memory_wait_cycles' = memory_wait_cycles - 1
  /\ IF memory_wait_cycles = 1 THEN mem_wb' = pending_mem_wb /\ pending_mem_wb' = None
                               ELSE mem_wb' = None /\ UNCHANGED pending_mem_wb
  /\ predictor' = WbPredictor
  /\ UNCHANGED <<code, mem, exited, fetch_pc, if_id, id_ex, ex_mem, mret_in_flight>>

\* The interrupt input is asserted and enabled after WB retired: what is in
\* flight is dropped and pc, the next instruction to retire, is saved.
TickInterrupt ==
  /\ ~exited
  /\ ~Squashes
  /\ memory_wait_cycles = 0
  /\ pending(stage_wb)
  /\ arch' = take_trap(stage_wb, "irq", stage_wb.pc)
  /\ fetch_pc' = arch'.pc
  /\ flush_pipeline
  /\ predictor' = WbPredictor
  /\ UNCHANGED <<code, mem, exited, mret_in_flight>>

Timed == ex_mem # None /\ ex_mem.res.kind \in {"Load", "FLoad", "Store", "Atomic"}

\* What each stage leaves behind in a tick in which all five run.
mem_stage == stage_mem(stage_wb, WbFetch)

ex_stage == stage_ex(mem_stage.arch, mem_stage.fetch)

stall == load_use_hazard(id_ex, if_id)

id_stage == IF ex_stage.flush \/ stall
            THEN [reg |-> None, arch |-> ex_stage.arch, fetch |-> ex_stage.fetch]
            ELSE stage_id(ex_stage.arch, ex_stage.fetch)

returning == mret_in_flight \/ (id_stage.reg # None /\ is_trap_return(decode(id_stage.reg.raw)))

new_predictor == IF ex_stage.branch THEN update(WbPredictor, id_ex.pc, ex_stage.reg.res.next)
                                    ELSE WbPredictor

if_stage == IF stall \/ returning
            THEN [reg |-> if_id, arch |-> id_stage.arch, fetch |-> id_stage.fetch]
            ELSE IF ex_stage.flush
            THEN [reg |-> None, arch |-> id_stage.arch, fetch |-> ex_stage.reg.res.next]
            ELSE stage_if(id_stage.arch, id_stage.fetch, new_predictor)

\* MEM's access costs extra cycles: its result waits, and the instruction
\* behind it refreshes the operands it captured, for WB already ran.
TickMemoryStall ==
  /\ ~exited
  /\ ~Squashes
  /\ memory_wait_cycles = 0
  /\ Timed
  /\ mem_stage.reg # None
  /\ \E n \in Latencies \ {0} : memory_wait_cycles' = n
  /\ arch' = mem_stage.arch
  /\ mem' = mem_stage.mem
  /\ pending_mem_wb' = mem_stage.reg
  /\ id_ex' = IF id_ex = None THEN None
              ELSE [id_ex EXCEPT !.ops = ReadOperands(mem_stage.arch, decode(id_ex.raw))]
  /\ fetch_pc' = WbFetch
  /\ ex_mem' = None /\ mem_wb' = None
  /\ predictor' = WbPredictor
  /\ UNCHANGED <<code, exited, if_id, mret_in_flight>>

\* All five stages run.
TickAdvance ==
  /\ ~exited
  /\ ~Squashes
  /\ memory_wait_cycles = 0
  /\ (Timed /\ mem_stage.reg # None) => 0 \in Latencies
  /\ mem' = mem_stage.mem
  /\ exited' = (ex_mem # None /\ ex_mem.res.kind = "exit")
  /\ arch' = if_stage.arch
  /\ fetch_pc' = if_stage.fetch
  /\ mret_in_flight' = returning
  /\ mem_wb' = mem_stage.reg
  /\ ex_mem' = ex_stage.reg
  /\ id_ex' = id_stage.reg
  /\ if_id' = if_stage.reg
  /\ predictor' = new_predictor
  /\ UNCHANGED <<code, pending_mem_wb, memory_wait_cycles>>

Tick == TickSquash \/ TickWait \/ TickInterrupt \/ TickMemoryStall \/ TickAdvance

\* After SYSCON latched the exit code nothing ticks the core any more.
Halted == exited /\ UNCHANGED vars

\* What has passed MEM, in MEM/WB or still being paid for, can no longer be
\* stopped: the program sees the state in which it has retired.
Oldest == IF mem_wb # None THEN mem_wb ELSE pending_mem_wb

Retired == IF Oldest = None THEN arch ELSE writeback(arch, Oldest.res)

Next == \/ Tick /\ retired' = Retired'
        \/ Halted

Spec == Init /\ [][Next]_vars

-----------------------------------------------------------------------------
\* Every behaviour of the pipeline is one of FunctionalCore: the same
\* instructions with the same effects on registers, CSRs and memory, in the
\* same order, with interrupts between instructions, whatever is predicted,
\* forwarded, stalled or squashed (the claim of one architectural state for
\* both cores).
F == INSTANCE Functional WITH arch <- retired
RefinesFunctional == F!Init /\ [][F!Next]_F!vars

\* Nothing past decode is speculative: an instruction in EX, MEM or WB is the
\* one the program executes after the instruction ahead of it, unless what is
\* ahead of it will empty the pipeline.
OnPath ==
  LET Leaves(r) == r.kind \in {"ecall", "mret", "sret"}
  IN /\ Oldest # None => Oldest.pc = arch.pc
     /\ Oldest = None \/ ~Leaves(Oldest.res) =>
          /\ ex_mem # None => ex_mem.pc = retired.pc
          /\ id_ex # None /\ ex_mem = None => id_ex.pc = retired.pc
          /\ id_ex # None /\ ex_mem # None /\ ~Leaves(ex_mem.res) =>
               id_ex.pc = IF ex_mem.res.kind \in {"sfence", "ebreak"} THEN ex_mem.pc + 1
                          ELSE ex_mem.res.next

\* A trap return that ID has let through.
ReturnInFlight ==
  \/ id_ex # None /\ is_trap_return(decode(id_ex.raw))
  \/ \E r \in {ex_mem, mem_wb, pending_mem_wb} : r # None /\ r.res.kind \in {"mret", "sret"}

\* The tick ends in a trap that drops all that is younger: an interrupt, an
\* ecall or a supervisor return that is not allowed.
Trapped ==
  \/ TickInterrupt
  \/ TickSquash /\ \/ mem_wb.res.kind = "ecall"
                   \/ mem_wb.res.kind = "sret" /\ ~sret_legal(arch)

\* Fetch is held for a trap return in flight and released with it: redirects,
\* stalls, memory latency, faults and the return's own completion never leave
\* the hold behind without its return; only a trap that overtakes the return
\* does ("cleared after WB flushes" of mret_in_flight).
HoldEndsWithReturn ==
  [][mret_in_flight' /\ ~ReturnInFlight' =>
       Trapped \/ (mret_in_flight /\ ~ReturnInFlight)]_vars
=============================================================================
