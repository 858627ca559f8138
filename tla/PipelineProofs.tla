--------------------------- MODULE PipelineProofs ---------------------------
(***************************************************************************)
(* Theorems about Pipeline, for programs, memories, register files, wait   *)
(* times and predictors of any size.  That fetch is held for as long as    *)
(* its trap return is in flight holds of every behaviour.  The other two   *)
(* have hypotheses, because the code has gaps: a tick in which a stage     *)
(* traps, some neighbours that are not kept apart, and an indirect jump to *)
(* the next word.  Each is a predicate of one state, and these theorems    *)
(* hold of the behaviours in which it is always true.                      *)
(***************************************************************************)
EXTENDS Pipeline, TLAPS

-----------------------------------------------------------------------------
(* The hypotheses. *)

\* The tick gets as far as the interrupt check, and on when there is none.
Running == ~exited /\ ~Squashes /\ memory_wait_cycles = 0

\* WB takes no trap that lets the tick go on, and no stage drops the
\* instruction it was given: MEM, EX and ID hand it on, IF finds one.
Faultless ==
    Running =>
      /\ mem_wb # None => /\ mem_wb.res.kind # "ebreak"
                          /\ mem_wb.res.kind = "Csr" => Known(mem_wb.res.csr)
      /\ ex_mem # None => mem_stage.reg # None
      /\ id_ex # None => ex_stage.reg # None
      /\ if_id # None /\ ~ex_stage.flush /\ ~stall => id_stage.reg # None
      /\ ~stall /\ ~returning /\ ~ex_stage.flush => if_stage.reg # None

\* The neighbours in EX and MEM are ones the pipeline keeps apart.
Unexposed ==
    Running /\ id_ex # None /\ ex_mem # None =>
      ~Exposed(decode(code[ex_mem.pc]), decode(id_ex.raw))

Predicted(l) == IF l.taken THEN l.target ELSE l.pc + 1

\* An indirect jump to the next word was predicted to go there: such a jump is
\* not compared with its prediction.
JumpsResolved ==
    Running /\ id_ex # None /\ decode(id_ex.raw).op = "jalr"
    /\ ex_stage.reg.res.next = id_ex.pc + 1 => Predicted(id_ex) = id_ex.pc + 1

Careful == Faultless /\ Unexposed /\ JumpsResolved

-----------------------------------------------------------------------------
(* The inductive invariant. *)

IsArch(a) ==
    /\ a = [x |-> a.x, f |-> a.f, pc |-> a.pc, priv |-> a.priv,
            mie |-> a.mie, mpie |-> a.mpie, mpp |-> a.mpp,
            sie |-> a.sie, spie |-> a.spie, spp |-> a.spp,
            mepc |-> a.mepc, mcause |-> a.mcause, sepc |-> a.sepc, scause |-> a.scause,
            fcsr |-> a.fcsr, resv |-> a.resv]
    /\ a.x = [r \in Regs |-> a.x[r]]
    /\ a.f = [r \in Regs |-> a.f[r]]
    /\ {a.priv, a.mpp, a.spp} \subseteq {"U", "S", "M"}

Leaving == {"ecall", "mret", "sret"}

\* retired is what it says, and only an access that retires quietly is waited
\* for.
Basics ==
    /\ code \in Programs
    /\ exited \in BOOLEAN
    /\ mret_in_flight \in BOOLEAN
    /\ IsArch(arch) /\ IsArch(retired)
    /\ retired = Retired
    /\ memory_wait_cycles \in Nat
    /\ memory_wait_cycles = 0 => pending_mem_wb = None
    /\ memory_wait_cycles # 0 => /\ mem_wb = None /\ pending_mem_wb # None
                                 /\ pending_mem_wb.res.kind \notin Leaving

\* What the predictor may have learnt of the word w at pc.
Learnt(w, pc, target) ==
    \/ target = pc + 1
    \/ decode(w).op \in {"jalr", "branch"}
    \/ decode(w).op = "jal" /\ target = decode(w).ext

Learned ==
    /\ predictor = [pht |-> predictor.pht, btb |-> predictor.btb]
    /\ predictor.btb = [p \in 0..(CodeSize - 1) |-> predictor.btb[p]]
    /\ \A p \in 0..(CodeSize - 1) : Learnt(code[p], p, predictor.btb[p])

\* A fetched word with its prediction.
IsLatch(l) ==
    /\ l = [pc |-> l.pc, raw |-> l.raw, ops |-> l.ops, taken |-> l.taken, target |-> l.target]
    /\ Fetchable(code, l.pc)
    /\ l.raw = code[l.pc]
    /\ l.taken \in BOOLEAN
    /\ Learnt(l.raw, l.pc, l.target)

Latches ==
    /\ if_id # None => IsLatch(if_id)
    /\ id_ex # None => IsLatch(id_ex) /\ Decodes(id_ex.raw)

\* fwd tells what distinguishes the registers of b from those of a.
Describes(fwd, a, b) ==
    /\ fwd.fp \in BOOLEAN
    /\ \A r \in Regs : r # 0 => b.x[r] = IF ~fwd.fp /\ fwd.rd = r THEN fwd.val ELSE a.x[r]
    /\ \A r \in Regs : b.f[r] = IF fwd.fp /\ fwd.rd = r THEN fwd.val ELSE a.f[r]

InfoOf(r, i) == ForwardInfo(r, [rd |-> insn_rd(i), fp |-> insn_is_fp_dest(i), val |-> 0])

\* e is what EX leaves behind of the word at pc when a is the state before it.
Executed(e, a) ==
    /\ Fetchable(code, a.pc) /\ Decodes(code[a.pc])
    /\ LET i == decode(code[a.pc])
           r == execute(a, i, ReadOperands(a, i), a.pc)
       IN e = [pc |-> a.pc, res |-> r, is_load |-> insn_is_load(i) \/ insn_is_atomic(i),
               fwd |-> InfoOf(r, i)]
          /\ r.kind # "Err"

NextOf(e) == IF e.res.kind \in {"sfence", "ebreak"} THEN e.pc + 1 ELSE e.res.next

\* Nothing up to WB, MEM or EX empties the pipeline.
StayWb == Oldest # None => Oldest.res.kind \notin Leaving
StayMem == StayWb /\ (ex_mem # None => ex_mem.res.kind \notin Leaving)
StayEx == StayMem /\ (id_ex # None => decode(id_ex.raw).op \notin Leaving)

\* The pcs at which EX, ID and IF continue.
ExPc == IF ex_mem = None THEN retired.pc ELSE NextOf(ex_mem)
IdPc == IF id_ex = None THEN ExPc ELSE Predicted(id_ex)
IfPc == IF if_id = None THEN IdPc ELSE Predicted(if_id)

InWb == Oldest # None => Oldest.pc = arch.pc /\ Describes(Oldest.fwd, arch, retired)

InMem == ex_mem # None => Executed(ex_mem, retired)

InEx == id_ex # None => /\ id_ex.pc = ExPc
                        /\ id_ex.ops = ReadOperands(arch, decode(id_ex.raw))

InId == if_id # None => if_id.pc = IdPc

Chain ==
    /\ InWb
    /\ StayWb => InMem
    /\ StayMem => InEx
    /\ StayEx => InId /\ fetch_pc = IfPc

\* The word in EX waits for no load in MEM.
LoadsApart ==
    StayMem /\ ex_mem # None /\ id_ex # None =>
      LET i == decode(code[ex_mem.pc])
      IN insn_is_load(i) /\ (insn_rd(i) # 0 \/ insn_is_fp_dest(i))
           => insn_rd(i) \notin {id_ex.raw[3], id_ex.raw[4]}

Returns(l) == l # None /\ is_trap_return(decode(l.raw))

Empty == if_id = None /\ id_ex = None

\* A held fetch keeps the trap return in ID and decodes it again each tick,
\* or the pipeline was emptied.
Held == mret_in_flight => (Returns(if_id) /\ Returns(id_ex)) \/ Empty

Inv == Basics /\ Learned /\ Latches /\ Chain /\ LoadsApart /\ Held

-----------------------------------------------------------------------------
(* Stage registers. *)

Shape(l) == l = [pc |-> l.pc, raw |-> l.raw, ops |-> l.ops, taken |-> l.taken, target |-> l.target]

WithOps(l, o) == [l EXCEPT !.ops = o]

LEMMA WithOpsIs ==
    ASSUME NEW l, NEW o, Shape(l)
    PROVE  /\ Shape(WithOps(l, o)) /\ WithOps(l, o) # None
           /\ WithOps(l, o).pc = l.pc /\ WithOps(l, o).raw = l.raw /\ WithOps(l, o).ops = o
           /\ WithOps(l, o).taken = l.taken /\ WithOps(l, o).target = l.target
BY DEF Shape, WithOps, None

LEMMA NotNone ==
    ASSUME NEW a, NEW b, NEW c, NEW d, NEW e
    PROVE  /\ [pc |-> a, raw |-> b, ops |-> c, taken |-> d, target |-> e] # None
           /\ [pc |-> a, res |-> b, is_load |-> c, fwd |-> d] # None
           /\ [pc |-> a, res |-> b, fwd |-> c] # None
BY DEF None

LEMMA ShapeIs ==
    ASSUME NEW a, NEW b, NEW c, NEW d, NEW e
    PROVE  Shape([pc |-> a, raw |-> b, ops |-> c, taken |-> d, target |-> e])
BY DEF Shape

-----------------------------------------------------------------------------
(* The hold of a trap return. *)

AllEmpty ==
    /\ if_id = None /\ id_ex = None
    /\ ex_mem = None /\ mem_wb = None /\ pending_mem_wb = None
    /\ memory_wait_cycles = 0

\* A held fetch keeps the trap return in ID and decodes it again each tick,
\* or a trap has dropped the return and nothing is left in the pipeline.
Holding ==
    /\ mret_in_flight \in BOOLEAN
    /\ if_id # None => Shape(if_id)
    /\ id_ex # None => Shape(id_ex)
    /\ mret_in_flight => (Returns(if_id) /\ Returns(id_ex)) \/ AllEmpty

-----------------------------------------------------------------------------
(* What each stage leaves behind. *)

MemResult == memory_stage(ex_mem.res, mem, stage_wb.resv)

ExResult == execute(mem_stage.arch, decode(id_ex.raw), compute_forwarding(ex_mem, mem_wb, id_ex),
                    id_ex.pc)

LEMMA MemStageIs ==
    /\ ex_mem = None => /\ mem_stage.reg = None /\ mem_stage.mem = mem
                        /\ mem_stage.arch = stage_wb /\ mem_stage.fetch = WbFetch
    /\ ex_mem # None /\ MemResult.res.kind = "Err" => mem_stage.reg = None
    /\ ex_mem # None /\ MemResult.res.kind # "Err" =>
         /\ mem_stage.reg = [pc |-> ex_mem.pc, res |-> MemResult.res,
                             fwd |-> ForwardInfo(MemResult.res, ex_mem.fwd)]
         /\ mem_stage.mem = MemResult.mem
         /\ mem_stage.arch = [stage_wb EXCEPT !.resv = MemResult.resv]
         /\ mem_stage.fetch = WbFetch
<1>1. mem_stage = IF ex_mem = None
                  THEN [reg |-> None, mem |-> mem, arch |-> stage_wb, fetch |-> WbFetch]
                  ELSE IF MemResult.res.kind = "Err"
                  THEN [reg |-> None, mem |-> mem,
                        arch |-> take_trap([stage_wb EXCEPT !.resv = MemResult.resv],
                                           MemResult.res.cause, ex_mem.pc),
                        fetch |-> take_trap([stage_wb EXCEPT !.resv = MemResult.resv],
                                            MemResult.res.cause, ex_mem.pc).pc]
                  ELSE [reg |-> [pc |-> ex_mem.pc, res |-> MemResult.res,
                                 fwd |-> ForwardInfo(MemResult.res, ex_mem.fwd)],
                        mem |-> MemResult.mem,
                        arch |-> [stage_wb EXCEPT !.resv = MemResult.resv], fetch |-> WbFetch]
  BY Zenon DEF mem_stage, stage_mem, MemResult
<1> QED BY <1>1

LEMMA ExStageIs ==
    /\ id_ex = None => /\ ex_stage.reg = None /\ ex_stage.arch = mem_stage.arch
                       /\ ex_stage.fetch = mem_stage.fetch
                       /\ ex_stage.branch = FALSE /\ ex_stage.flush = FALSE
    /\ id_ex # None /\ ExResult.kind = "Err" =>
         ex_stage.reg = None /\ ex_stage.branch = FALSE /\ ex_stage.flush = FALSE
    /\ id_ex # None /\ ExResult.kind # "Err" =>
         /\ ex_stage.reg = [pc |-> id_ex.pc, res |-> ExResult,
                            is_load |-> insn_is_load(decode(id_ex.raw))
                                        \/ insn_is_atomic(decode(id_ex.raw)),
                            fwd |-> InfoOf(ExResult, decode(id_ex.raw))]
         /\ ex_stage.arch = mem_stage.arch /\ ex_stage.fetch = mem_stage.fetch
         /\ ex_stage.branch = IsBranch(ExResult, id_ex.pc)
         /\ ex_stage.flush = (/\ IsBranch(ExResult, id_ex.pc)
                              /\ ~id_ex.taken \/ ExResult.next # id_ex.target)
<1>1. ex_stage = IF id_ex = None
                 THEN [reg |-> None, arch |-> mem_stage.arch, fetch |-> mem_stage.fetch,
                       branch |-> FALSE, flush |-> FALSE]
                 ELSE IF ExResult.kind = "Err"
                 THEN [reg |-> None, arch |-> take_trap(mem_stage.arch, ExResult.cause, id_ex.pc),
                       fetch |-> take_trap(mem_stage.arch, ExResult.cause, id_ex.pc).pc,
                       branch |-> FALSE, flush |-> FALSE]
                 ELSE [reg |-> [pc |-> id_ex.pc, res |-> ExResult,
                                is_load |-> insn_is_load(decode(id_ex.raw))
                                            \/ insn_is_atomic(decode(id_ex.raw)),
                                fwd |-> InfoOf(ExResult, decode(id_ex.raw))],
                       arch |-> mem_stage.arch, fetch |-> mem_stage.fetch,
                       branch |-> IsBranch(ExResult, id_ex.pc),
                       flush |-> /\ IsBranch(ExResult, id_ex.pc)
                                 /\ ~id_ex.taken \/ ExResult.next # id_ex.target]
  BY Zenon DEF ex_stage, stage_ex, ExResult, InfoOf
<1> DEFINE L == insn_is_load(decode(id_ex.raw)) \/ insn_is_atomic(decode(id_ex.raw))
           B == IsBranch(ExResult, id_ex.pc)
           Fl == B /\ (~id_ex.taken \/ ExResult.next # id_ex.target)
           T == take_trap(mem_stage.arch, ExResult.cause, id_ex.pc)
           I == InfoOf(ExResult, decode(id_ex.raw))
<1>2. ex_stage = IF id_ex = None
                 THEN [reg |-> None, arch |-> mem_stage.arch, fetch |-> mem_stage.fetch,
                       branch |-> FALSE, flush |-> FALSE]
                 ELSE IF ExResult.kind = "Err"
                 THEN [reg |-> None, arch |-> T, fetch |-> T.pc, branch |-> FALSE, flush |-> FALSE]
                 ELSE [reg |-> [pc |-> id_ex.pc, res |-> ExResult, is_load |-> L, fwd |-> I],
                       arch |-> mem_stage.arch, fetch |-> mem_stage.fetch,
                       branch |-> B, flush |-> Fl]
  BY Zenon, <1>1
<1> HIDE DEF L, B, Fl, T, I
<1>3. id_ex = None => /\ ex_stage.reg = None /\ ex_stage.arch = mem_stage.arch
                      /\ ex_stage.fetch = mem_stage.fetch
                      /\ ex_stage.branch = FALSE /\ ex_stage.flush = FALSE
  BY <1>2
<1>4. id_ex # None /\ ExResult.kind = "Err" =>
        ex_stage.reg = None /\ ex_stage.branch = FALSE /\ ex_stage.flush = FALSE
  BY <1>2
<1>5. id_ex # None /\ ExResult.kind # "Err" =>
        /\ ex_stage.reg = [pc |-> id_ex.pc, res |-> ExResult, is_load |-> L, fwd |-> I]
        /\ ex_stage.arch = mem_stage.arch /\ ex_stage.fetch = mem_stage.fetch
        /\ ex_stage.branch = B
        /\ ex_stage.flush = Fl
  BY <1>2
<1> QED BY Zenon, <1>3, <1>4, <1>5 DEF L, B, Fl, I

LEMMA IdStageIs ==
    /\ id_stage.reg = None
       \/ /\ ~ex_stage.flush /\ ~stall /\ if_id # None /\ Decodes(if_id.raw)
          /\ id_stage.reg = WithOps(if_id, ReadOperands(ex_stage.arch, decode(if_id.raw)))
    /\ ~ex_stage.flush /\ ~stall /\ if_id # None /\ Decodes(if_id.raw) =>
         /\ id_stage.reg = WithOps(if_id, ReadOperands(ex_stage.arch, decode(if_id.raw)))
         /\ id_stage.arch = ex_stage.arch /\ id_stage.fetch = ex_stage.fetch
    /\ ex_stage.flush \/ stall \/ if_id = None =>
         /\ id_stage.reg = None
         /\ id_stage.arch = ex_stage.arch /\ id_stage.fetch = ex_stage.fetch
<1>1. id_stage = IF ex_stage.flush \/ stall \/ if_id = None
                 THEN [reg |-> None, arch |-> ex_stage.arch, fetch |-> ex_stage.fetch]
                 ELSE IF ~Decodes(if_id.raw)
                 THEN [reg |-> None, arch |-> take_trap(ex_stage.arch, "illegal", if_id.pc),
                       fetch |-> take_trap(ex_stage.arch, "illegal", if_id.pc).pc]
                 ELSE [reg |-> WithOps(if_id, ReadOperands(ex_stage.arch, decode(if_id.raw))),
                       arch |-> ex_stage.arch, fetch |-> ex_stage.fetch]
  BY Zenon DEF id_stage, stage_id, WithOps
<1> DEFINE O == WithOps(if_id, ReadOperands(ex_stage.arch, decode(if_id.raw)))
           D == Decodes(if_id.raw)
           T == take_trap(ex_stage.arch, "illegal", if_id.pc)
           Sk == ex_stage.flush \/ stall \/ if_id = None
<1>2. id_stage = IF Sk THEN [reg |-> None, arch |-> ex_stage.arch, fetch |-> ex_stage.fetch]
                 ELSE IF ~D THEN [reg |-> None, arch |-> T, fetch |-> T.pc]
                 ELSE [reg |-> O, arch |-> ex_stage.arch, fetch |-> ex_stage.fetch]
  BY Zenon, <1>1
<1> HIDE DEF O, D, T, Sk
<1>3. /\ Sk => id_stage.reg = None /\ id_stage.arch = ex_stage.arch /\ id_stage.fetch = ex_stage.fetch
      /\ ~Sk /\ ~D => id_stage.reg = None
      /\ ~Sk /\ D => /\ id_stage.reg = O
                     /\ id_stage.arch = ex_stage.arch /\ id_stage.fetch = ex_stage.fetch
  BY <1>2
<1> QED BY Zenon, <1>3 DEF O, D, Sk

Latch(pc, p) == [pc |-> pc, raw |-> code[pc], ops |-> None, taken |-> p.taken, target |-> p.target]

LEMMA IfStageIs ==
    /\ stall \/ returning => /\ if_stage.reg = if_id
                             /\ if_stage.arch = id_stage.arch /\ if_stage.fetch = id_stage.fetch
    /\ ~stall /\ ~returning /\ ex_stage.flush =>
         /\ if_stage.reg = None
         /\ if_stage.arch = id_stage.arch /\ if_stage.fetch = ex_stage.reg.res.next
    /\ ~stall /\ ~returning /\ ~ex_stage.flush /\ Fetchable(code, id_stage.fetch) =>
         LET l == Latch(id_stage.fetch, predict(new_predictor, id_stage.fetch))
         IN if_stage.reg = l /\ if_stage.arch = id_stage.arch /\ if_stage.fetch = Predicted(l)
    /\ ~stall /\ ~returning /\ ~ex_stage.flush /\ ~Fetchable(code, id_stage.fetch) =>
         if_stage.reg = None
<1> DEFINE p == predict(new_predictor, id_stage.fetch)
           l == Latch(id_stage.fetch, p)
           T == take_trap(id_stage.arch, "fetch", id_stage.fetch)
           K == stall \/ returning
           Ft == Fetchable(code, id_stage.fetch)
           nx == ex_stage.reg.res.next
<1>1. if_stage = IF K THEN [reg |-> if_id, arch |-> id_stage.arch, fetch |-> id_stage.fetch]
                 ELSE IF ex_stage.flush THEN [reg |-> None, arch |-> id_stage.arch, fetch |-> nx]
                 ELSE IF ~Ft THEN [reg |-> None, arch |-> T, fetch |-> T.pc]
                 ELSE [reg |-> l, arch |-> id_stage.arch,
                       fetch |-> IF p.taken THEN p.target ELSE id_stage.fetch + 1]
  BY Zenon DEF if_stage, stage_if, Latch
<1>2. p.taken \in BOOLEAN
  <2>1. p = [taken |-> new_predictor.pht[id_stage.fetch % PhtSize] >= 2,
             target |-> new_predictor.btb[id_stage.fetch]]
    BY DEF predict
  <2>2. CASE new_predictor.pht[id_stage.fetch % PhtSize] >= 2
    <3>1. p = [taken |-> TRUE, target |-> new_predictor.btb[id_stage.fetch]]
      BY Zenon, <2>1, <2>2
    <3> HIDE DEF p
    <3> QED BY <3>1
  <2>3. CASE ~(new_predictor.pht[id_stage.fetch % PhtSize] >= 2)
    <3>0. (new_predictor.pht[id_stage.fetch % PhtSize] >= 2) = FALSE
      BY <2>3
    <3>1. p = [taken |-> FALSE, target |-> new_predictor.btb[id_stage.fetch]]
      BY Zenon, <2>1, <3>0
    <3> HIDE DEF p
    <3> QED BY <3>1
  <2> QED BY <2>2, <2>3
<1> HIDE DEF p
<1>3. l.taken = p.taken /\ l.target = p.target /\ l.pc = id_stage.fetch
  BY DEF Latch
<1>4. Predicted(l) = IF p.taken THEN p.target ELSE id_stage.fetch + 1
  BY Zenon, <1>3 DEF Predicted
<1> HIDE DEF l, T, K, Ft, nx
<1>5. if_stage = IF K THEN [reg |-> if_id, arch |-> id_stage.arch, fetch |-> id_stage.fetch]
                 ELSE IF ex_stage.flush THEN [reg |-> None, arch |-> id_stage.arch, fetch |-> nx]
                 ELSE IF ~Ft THEN [reg |-> None, arch |-> T, fetch |-> T.pc]
                 ELSE [reg |-> l, arch |-> id_stage.arch, fetch |-> Predicted(l)]
  BY Zenon, <1>1, <1>4
<1>6. /\ K => if_stage.reg = if_id /\ if_stage.arch = id_stage.arch /\ if_stage.fetch = id_stage.fetch
      /\ ~K /\ ex_stage.flush => /\ if_stage.reg = None
                                 /\ if_stage.arch = id_stage.arch /\ if_stage.fetch = nx
      /\ ~K /\ ~ex_stage.flush /\ ~Ft => if_stage.reg = None
      /\ ~K /\ ~ex_stage.flush /\ Ft => /\ if_stage.reg = l /\ if_stage.arch = id_stage.arch
                                        /\ if_stage.fetch = Predicted(l)
  BY <1>5
<1> QED BY Zenon, <1>6 DEF l, p, K, Ft, nx

-----------------------------------------------------------------------------
(* The hold of a trap return. *)

LEMMA ReturnResult ==
    ASSUME NEW a, NEW w, NEW ops, NEW pc, is_trap_return(decode(w))
    PROVE  /\ execute(a, decode(w), ops, pc) = [kind |-> decode(w).op]
           /\ ~insn_is_load(decode(w))
<1>1. PICK i : i = decode(w)
  OBVIOUS
<1>2. i.op \in {"mret", "sret"}
  BY <1>1 DEF is_trap_return
<1>3. execute(a, i, ops, pc) = [kind |-> i.op]
  BY <1>2 DEF execute, insn_is_atomic
<1> QED BY <1>1, <1>2, <1>3 DEF insn_is_load

LEMMA ReturnsInEx ==
    ASSUME Returns(id_ex)
    PROVE  ex_stage.flush = FALSE /\ stall = FALSE
<1>1. ExResult = [kind |-> decode(id_ex.raw).op] /\ ~insn_is_load(decode(id_ex.raw))
  BY ReturnResult DEF ExResult, Returns
<1>2. decode(id_ex.raw).op \in {"mret", "sret"}
  BY DEF Returns, is_trap_return
<1>3. ExResult.kind # "Err" /\ ~IsBranch(ExResult, id_ex.pc)
  <2> DEFINE o == decode(id_ex.raw).op
  <2> HIDE DEF o
  <2>1. ExResult = [kind |-> o] /\ o \in {"mret", "sret"}
    BY <1>1, <1>2 DEF o
  <2> QED BY <2>1 DEF IsBranch
<1>4. ex_stage.flush = FALSE
  BY Zenon, <1>3, ExStageIs DEF Returns
<1>5. stall = FALSE
  BY Zenon, <1>1 DEF stall, load_use_hazard
<1> QED BY <1>4, <1>5

\* A tick in which all stages run keeps the return in ID while it holds.
LEMMA AdvanceHolds ==
    ASSUME TickAdvance, mret_in_flight \in BOOLEAN,
           if_id # None => Shape(if_id),
           mret_in_flight => (Returns(if_id) /\ Returns(id_ex)) \/ Empty
    PROVE  /\ mret_in_flight' \in BOOLEAN
           /\ if_id' # None => Shape(if_id)'
           /\ id_ex' # None => Shape(id_ex)'
           /\ mret_in_flight' => (Returns(if_id)' /\ Returns(id_ex)') \/ (mret_in_flight /\ Empty /\ Empty')
<1>1. /\ mret_in_flight' = returning /\ id_ex' = id_stage.reg /\ if_id' = if_stage.reg
  BY DEF TickAdvance
<1>2. mret_in_flight' \in BOOLEAN
  BY <1>1 DEF returning
<1>3. id_ex' # None =>
        /\ ~ex_stage.flush /\ ~stall /\ if_id # None /\ Decodes(if_id.raw)
        /\ id_ex' = WithOps(if_id, ReadOperands(ex_stage.arch, decode(if_id.raw)))
  BY <1>1, IdStageIs
<1>4. id_ex' # None => Shape(id_ex)' /\ id_ex'.raw = if_id.raw
  <2> DEFINE o == ReadOperands(ex_stage.arch, decode(if_id.raw))
  <2> HIDE DEF o
  <2> SUFFICES ASSUME id_ex' # None PROVE Shape(id_ex)' /\ id_ex'.raw = if_id.raw
    OBVIOUS
  <2>1. id_ex' = WithOps(if_id, o) /\ Shape(if_id)
    BY <1>3 DEF o
  <2>2. Shape(WithOps(if_id, o)) /\ WithOps(if_id, o).raw = if_id.raw
    BY <2>1, WithOpsIs
  <2>3. Shape(id_ex') /\ id_ex'.raw = if_id.raw
    BY Zenon, <2>1, <2>2
  <2> QED BY <2>3 DEF Shape
<1>5. if_id' # None => Shape(if_id)'
  <2>1. CASE stall \/ returning
    <3>1. if_id' = if_id
      BY Zenon, <1>1, <2>1, IfStageIs
    <3> QED BY <3>1 DEF Shape
  <2>2. CASE ~stall /\ ~returning /\ ex_stage.flush
    BY Zenon, <1>1, <2>2, IfStageIs
  <2>3. CASE ~stall /\ ~returning /\ ~ex_stage.flush
    <3> DEFINE p == predict(new_predictor, id_stage.fetch)
    <3> HIDE DEF p
    <3>1. if_id' = None \/ if_id' = Latch(id_stage.fetch, p)
      BY Zenon, <1>1, <2>3, IfStageIs DEF p
    <3>2. Shape(Latch(id_stage.fetch, p))
      BY ShapeIs DEF Latch
    <3>3. if_id' # None => Shape(if_id')
      BY Zenon, <3>1, <3>2
    <3> QED BY <3>3 DEF Shape
  <2> QED BY <2>1, <2>2, <2>3
<1>6. ASSUME mret_in_flight'
      PROVE  (Returns(if_id)' /\ Returns(id_ex)') \/ (mret_in_flight /\ Empty /\ Empty')
  <2>1. returning /\ if_id' = if_id
    BY Zenon, <1>1, <1>6, IfStageIs
  <2>2. CASE mret_in_flight /\ Empty
    <3>1. id_stage.reg = None
      BY Zenon, <2>2, IdStageIs DEF Empty
    <3> QED BY <1>1, <2>1, <2>2, <3>1 DEF Empty
  <2>3. CASE mret_in_flight /\ ~Empty
    <3>1. Returns(if_id) /\ Returns(id_ex)
      BY <2>3
    <3>2. ex_stage.flush = FALSE /\ stall = FALSE
      BY <3>1, ReturnsInEx
    <3>3. Decodes(if_id.raw)
      <4> DEFINE w == if_id.raw
      <4>1. decode(w).op \in {"mret", "sret"}
        BY <3>1 DEF Returns, is_trap_return
      <4>2. w[1] # "illegal"
        BY <4>1 DEF decode
      <4> QED BY <4>2 DEF Decodes
    <3>4. id_ex' = WithOps(if_id, ReadOperands(ex_stage.arch, decode(if_id.raw)))
      BY Zenon, <1>1, <3>1, <3>2, <3>3, IdStageIs DEF Returns
    <3>5. id_ex' # None
      BY <3>1, <3>4, WithOpsIs DEF Returns
    <3> QED BY <1>4, <2>1, <3>1, <3>5 DEF Returns
  <2>4. CASE ~mret_in_flight
    <3>1. id_ex' # None /\ is_trap_return(decode(id_ex'.raw))
      BY Zenon, <1>1, <2>1, <2>4 DEF returning
    <3>2. if_id # None /\ id_ex'.raw = if_id.raw
      BY Zenon, <1>3, <1>4, <3>1
    <3> QED BY <2>1, <3>1, <3>2 DEF Returns
  <2> QED BY <2>2, <2>3, <2>4
<1> QED BY <1>2, <1>4, <1>5, <1>6

LEMMA HoldingInit == Init => Holding
BY DEF Init, Holding

\* The tick drops everything.
LEMMA FlushEmpties == flush_pipeline => AllEmpty'
BY Zenon DEF flush_pipeline, AllEmpty

\* The instruction in EX that waits for an access keeps its word.
LEMMA StallHolds ==
    ASSUME Holding, TickMemoryStall
    PROVE  Holding' /\ (mret_in_flight' => Returns(id_ex)')
<1> DEFINE o == ReadOperands(mem_stage.arch, decode(id_ex.raw))
<1> HIDE DEF o
<1>1. if_id' = if_id /\ mret_in_flight' = mret_in_flight
      /\ id_ex' = IF id_ex = None THEN None ELSE WithOps(id_ex, o)
  BY Zenon DEF TickMemoryStall, WithOps, o
<1>2. id_ex # None => /\ Shape(WithOps(id_ex, o)) /\ WithOps(id_ex, o) # None
                      /\ WithOps(id_ex, o).raw = id_ex.raw
  BY WithOpsIs DEF Holding
<1>3. ~AllEmpty
  BY Zenon DEF AllEmpty, TickMemoryStall, Timed
<1>4. mret_in_flight => Returns(if_id) /\ Returns(id_ex)
  BY Zenon, <1>3 DEF Holding
<1>5. CASE id_ex = None
  <2>1. ~mret_in_flight
    BY Zenon, <1>4, <1>5 DEF Returns
  <2> QED BY <1>1, <1>5, <2>1 DEF Holding, Shape
<1>6. CASE id_ex # None
  <2>1. id_ex' = WithOps(id_ex, o)
    BY Zenon, <1>1, <1>6
  <2>2. Shape(id_ex') /\ id_ex'.raw = id_ex.raw /\ id_ex' # None
    BY Zenon, <1>2, <1>6, <2>1
  <2> QED BY <1>1, <1>4, <2>2 DEF Holding, Shape, Returns
<1> QED BY <1>5, <1>6

\* With nothing in the pipeline, a held fetch puts nothing into it.
LEMMA AdvanceHolding ==
    ASSUME Holding, TickAdvance
    PROVE  /\ Holding'
           /\ mret_in_flight' => Returns(id_ex)' \/ (mret_in_flight /\ AllEmpty)
<1>1. mret_in_flight => (Returns(if_id) /\ Returns(id_ex)) \/ Empty
  BY Zenon DEF Holding, AllEmpty, Empty
<1>2. /\ mret_in_flight' \in BOOLEAN
      /\ if_id' # None => Shape(if_id)'
      /\ id_ex' # None => Shape(id_ex)'
      /\ mret_in_flight' => (Returns(if_id)' /\ Returns(id_ex)') \/ (mret_in_flight /\ Empty /\ Empty')
  BY <1>1, AdvanceHolds DEF Holding
<1>3. ASSUME mret_in_flight, Empty, Empty' PROVE AllEmpty /\ AllEmpty'
  <2>1. AllEmpty
    BY Zenon, <1>3 DEF Holding, Returns, Empty
  <2>2. ex_mem = None /\ id_ex = None /\ mem_wb = None /\ pending_mem_wb = None
        /\ memory_wait_cycles = 0
    BY <2>1 DEF AllEmpty
  <2>3. mem_stage.reg = None /\ ex_stage.reg = None
    BY Zenon, <2>2, MemStageIs, ExStageIs
  <2>4. ex_mem' = None /\ mem_wb' = None
        /\ pending_mem_wb' = None /\ memory_wait_cycles' = 0
    BY Zenon, <2>2, <2>3 DEF TickAdvance
  <2>5. AllEmpty'
    BY Zenon, <1>3, <2>4 DEF AllEmpty, Empty
  <2> QED BY <2>1, <2>5
<1> QED BY Zenon, <1>2, <1>3 DEF Holding

LEMMA HoldingStep == Holding /\ [Next]_vars => Holding'
<1> SUFFICES ASSUME Holding, [Next]_vars PROVE Holding'
  OBVIOUS
<1>1. CASE UNCHANGED vars
  BY <1>1 DEF vars, stages, Holding, Shape, Returns, AllEmpty
<1>2. ASSUME flush_pipeline, mret_in_flight' \in BOOLEAN PROVE Holding'
  <2>1. AllEmpty'
    BY <1>2, FlushEmpties
  <2> QED BY Zenon, <1>2, <2>1 DEF Holding, AllEmpty
<1>3. CASE TickSquash
  <2>1. flush_pipeline /\ mret_in_flight' = (mret_in_flight /\ ~Returned)
    BY Zenon, <1>3 DEF TickSquash
  <2>2. mret_in_flight' \in BOOLEAN
    BY Zenon, <2>1
  <2> QED BY <1>2, <2>1, <2>2
<1>4. CASE TickWait
  <2>1. /\ if_id' = if_id /\ id_ex' = id_ex /\ mret_in_flight' = mret_in_flight
        /\ memory_wait_cycles > 0
    BY Zenon, <1>4 DEF TickWait
  <2>2. ~AllEmpty
    BY <2>1 DEF AllEmpty
  <2> QED BY <2>1, <2>2 DEF Holding, Shape, Returns
<1>5. CASE TickInterrupt
  <2>1. flush_pipeline /\ mret_in_flight' = mret_in_flight
    BY Zenon, <1>5 DEF TickInterrupt
  <2>2. mret_in_flight' \in BOOLEAN
    BY Zenon, <2>1 DEF Holding
  <2> QED BY <1>2, <2>1, <2>2
<1>6. CASE TickMemoryStall
  BY <1>6, StallHolds
<1>7. CASE TickAdvance
  BY <1>7, AdvanceHolding
<1>8. CASE Halted
  BY <1>1, <1>8 DEF Halted
<1> QED BY Zenon, <1>1, <1>3, <1>4, <1>5, <1>6, <1>7, <1>8 DEF Next, Tick

\* What has left the pipeline by a squash that is no trap is the return.
LEMMA HoldKept ==
    ASSUME Holding, [Next]_vars, mret_in_flight', ~ReturnInFlight'
    PROVE  Trapped \/ (mret_in_flight /\ ~ReturnInFlight)
<1>1. ASSUME Returns(id_ex)' PROVE FALSE
  BY Zenon, <1>1 DEF ReturnInFlight, Returns
<1>2. AllEmpty => ~ReturnInFlight
  BY Zenon DEF AllEmpty, ReturnInFlight
<1>3. CASE UNCHANGED vars
  BY Zenon, <1>3 DEF vars, stages, ReturnInFlight
<1>4. CASE TickSquash
  <2>1. ~Returned
    <3>1. mret_in_flight' = (mret_in_flight /\ ~Returned)
      BY Zenon, <1>4 DEF TickSquash
    <3> QED BY Zenon, <3>1
  <2>2. mem_wb.res.kind \in {"ecall", "mret", "sret"}
    BY Zenon, <1>4 DEF TickSquash, Squashes
  <2>3. mem_wb.res.kind = "ecall" \/ (mem_wb.res.kind = "sret" /\ ~sret_legal(arch))
    BY Zenon, <2>1, <2>2 DEF Returned
  <2> QED BY Zenon, <1>4, <2>3 DEF Trapped
<1>5. CASE TickWait
  <2>1. /\ id_ex' = id_ex /\ mret_in_flight' = mret_in_flight /\ memory_wait_cycles > 0
    BY Zenon, <1>5 DEF TickWait
  <2>2. ~AllEmpty
    BY <2>1 DEF AllEmpty
  <2>3. Returns(id_ex)
    BY Zenon, <2>1, <2>2 DEF Holding
  <2>4. Returns(id_ex)'
    BY Zenon, <2>1, <2>3 DEF Returns
  <2> QED BY <1>1, <2>4
<1>6. CASE TickInterrupt
  BY Zenon, <1>6 DEF Trapped
<1>7. CASE TickMemoryStall
  BY Zenon, <1>1, <1>7, StallHolds
<1>8. CASE TickAdvance
  BY Zenon, <1>1, <1>2, <1>8, AdvanceHolding
<1>9. CASE Halted
  BY <1>3, <1>9 DEF Halted
<1> QED BY Zenon, <1>3, <1>4, <1>5, <1>6, <1>7, <1>8, <1>9 DEF Next, Tick

\* In every behaviour, whatever the program: a fetch held for a trap return is
\* released with it, and only an interrupt, an ecall or a supervisor return
\* that is not allowed, retiring ahead of the return, leaves the hold behind
\* without it (mret_in_flight of stage_id and handle_mret).
THEOREM PipelineHoldEndsWithReturn == Spec => HoldEndsWithReturn
<1>1. Holding /\ [Next]_vars =>
        [mret_in_flight' /\ ~ReturnInFlight' =>
           Trapped \/ (mret_in_flight /\ ~ReturnInFlight)]_vars
  BY HoldKept
<1> QED BY <1>1, HoldingInit, HoldingStep, PTL DEF Spec, HoldEndsWithReturn

-----------------------------------------------------------------------------
(* The architectural state, field by field. *)

Fields(a) ==
    [x |-> a.x, f |-> a.f, pc |-> a.pc, priv |-> a.priv, mie |-> a.mie, mpie |-> a.mpie,
     mpp |-> a.mpp, sie |-> a.sie, spie |-> a.spie, spp |-> a.spp, mepc |-> a.mepc,
     mcause |-> a.mcause, sepc |-> a.sepc, scause |-> a.scause, fcsr |-> a.fcsr, resv |-> a.resv]

Modes == {"U", "S", "M"}

IsRegs(x) == x = [r \in Regs |-> x[r]]

LEMMA IsArchIs ==
    ASSUME NEW a
    PROVE  IsArch(a) <=> /\ a = Fields(a) /\ IsRegs(a.x) /\ IsRegs(a.f)
                         /\ a.priv \in Modes /\ a.mpp \in Modes /\ a.spp \in Modes
BY Zenon DEF IsArch, Fields, IsRegs, Modes

WithPc(a, pc) == [a EXCEPT !.pc = pc]
WithX(a, x) == [a EXCEPT !.x = x]
WithF(a, f) == [a EXCEPT !.f = f]
WithFcsr(a, v) == [a EXCEPT !.fcsr = v]
WithMepc(a, v) == [a EXCEPT !.mepc = v]
WithSepc(a, v) == [a EXCEPT !.sepc = v]
WithResv(a, v) == [a EXCEPT !.resv = v]

CsrsSame(a, b) == b.fcsr = a.fcsr /\ b.mepc = a.mepc /\ b.sepc = a.sepc

LEMMA WithPcIs ==
    ASSUME NEW a, NEW v, IsArch(a)
    PROVE  /\ IsArch(WithPc(a, v)) /\ CsrsSame(a, WithPc(a, v)) /\ WithPc(a, v).pc = v
           /\ WithPc(a, v).x = a.x /\ WithPc(a, v).f = a.f /\ WithPc(a, v).priv = a.priv
<1> DEFINE b == WithPc(a, v)
<1>1. b = [a EXCEPT !.pc = v]
  BY DEF WithPc
<1> HIDE DEF b
<1>2. b = Fields(b) /\ b.pc = v
  BY <1>1, IsArchIs DEF Fields
<1>3. IsArch(b)
  BY <1>1, <1>2, IsArchIs DEF Fields
<1>4. CsrsSame(a, b) /\ b.x = a.x /\ b.f = a.f /\ b.priv = a.priv
  BY <1>1, IsArchIs DEF Fields, CsrsSame
<1> QED BY <1>2, <1>3, <1>4 DEF b

LEMMA WithXIs ==
    ASSUME NEW a, NEW v, IsArch(a), IsRegs(v)
    PROVE  /\ IsArch(WithX(a, v)) /\ CsrsSame(a, WithX(a, v)) /\ WithX(a, v).x = v
           /\ WithX(a, v).pc = a.pc /\ WithX(a, v).f = a.f /\ WithX(a, v).priv = a.priv
<1> DEFINE b == WithX(a, v)
<1>1. b = [a EXCEPT !.x = v]
  BY DEF WithX
<1> HIDE DEF b
<1>2. b = Fields(b) /\ b.x = v
  BY <1>1, IsArchIs DEF Fields
<1>3. IsArch(b)
  BY <1>1, <1>2, IsArchIs DEF Fields
<1>4. CsrsSame(a, b) /\ b.pc = a.pc /\ b.f = a.f /\ b.priv = a.priv
  BY <1>1, IsArchIs DEF Fields, CsrsSame
<1> QED BY <1>2, <1>3, <1>4 DEF b

LEMMA WithFIs ==
    ASSUME NEW a, NEW v, IsArch(a), IsRegs(v)
    PROVE  /\ IsArch(WithF(a, v)) /\ CsrsSame(a, WithF(a, v)) /\ WithF(a, v).f = v
           /\ WithF(a, v).pc = a.pc /\ WithF(a, v).x = a.x /\ WithF(a, v).priv = a.priv
<1> DEFINE b == WithF(a, v)
<1>1. b = [a EXCEPT !.f = v]
  BY DEF WithF
<1> HIDE DEF b
<1>2. b = Fields(b) /\ b.f = v
  BY <1>1, IsArchIs DEF Fields
<1>3. IsArch(b)
  BY <1>1, <1>2, IsArchIs DEF Fields
<1>4. CsrsSame(a, b) /\ b.pc = a.pc /\ b.x = a.x /\ b.priv = a.priv
  BY <1>1, IsArchIs DEF Fields, CsrsSame
<1> QED BY <1>2, <1>3, <1>4 DEF b

LEMMA WithFcsrIs ==
    ASSUME NEW a, NEW v, IsArch(a)
    PROVE  /\ IsArch(WithFcsr(a, v)) /\ WithFcsr(a, v).fcsr = v
           /\ WithFcsr(a, v).mepc = a.mepc /\ WithFcsr(a, v).sepc = a.sepc
           /\ WithFcsr(a, v).pc = a.pc /\ WithFcsr(a, v).x = a.x /\ WithFcsr(a, v).f = a.f
           /\ WithFcsr(a, v).priv = a.priv
<1> DEFINE b == WithFcsr(a, v)
<1>1. b = [a EXCEPT !.fcsr = v]
  BY DEF WithFcsr
<1> HIDE DEF b
<1>2. b = Fields(b) /\ b.fcsr = v
  BY <1>1, IsArchIs DEF Fields
<1>3. IsArch(b)
  BY <1>1, <1>2, IsArchIs DEF Fields
<1>4. b.pc = a.pc /\ b.x = a.x /\ b.f = a.f /\ b.priv = a.priv /\ b.mepc = a.mepc /\ b.sepc = a.sepc
  BY <1>1, IsArchIs DEF Fields
<1> QED BY <1>2, <1>3, <1>4 DEF b

LEMMA WithMepcIs ==
    ASSUME NEW a, NEW v, IsArch(a)
    PROVE  /\ IsArch(WithMepc(a, v)) /\ WithMepc(a, v).pc = a.pc
           /\ WithMepc(a, v).x = a.x /\ WithMepc(a, v).f = a.f /\ WithMepc(a, v).priv = a.priv
<1> DEFINE b == WithMepc(a, v)
<1>1. b = [a EXCEPT !.mepc = v]
  BY DEF WithMepc
<1> HIDE DEF b
<1>2. b = Fields(b) /\ b.mepc = v
  BY <1>1, IsArchIs DEF Fields
<1>3. IsArch(b)
  BY <1>1, <1>2, IsArchIs DEF Fields
<1>4. b.pc = a.pc /\ b.x = a.x /\ b.f = a.f /\ b.priv = a.priv
  BY <1>1, IsArchIs DEF Fields
<1> QED BY <1>2, <1>3, <1>4 DEF b

LEMMA WithSepcIs ==
    ASSUME NEW a, NEW v, IsArch(a)
    PROVE  /\ IsArch(WithSepc(a, v)) /\ WithSepc(a, v).pc = a.pc
           /\ WithSepc(a, v).x = a.x /\ WithSepc(a, v).f = a.f /\ WithSepc(a, v).priv = a.priv
<1> DEFINE b == WithSepc(a, v)
<1>1. b = [a EXCEPT !.sepc = v]
  BY DEF WithSepc
<1> HIDE DEF b
<1>2. b = Fields(b) /\ b.sepc = v
  BY <1>1, IsArchIs DEF Fields
<1>3. IsArch(b)
  BY <1>1, <1>2, IsArchIs DEF Fields
<1>4. b.pc = a.pc /\ b.x = a.x /\ b.f = a.f /\ b.priv = a.priv
  BY <1>1, IsArchIs DEF Fields
<1> QED BY <1>2, <1>3, <1>4 DEF b

LEMMA WithResvIs ==
    ASSUME NEW a, NEW v, IsArch(a)
    PROVE  /\ IsArch(WithResv(a, v)) /\ CsrsSame(a, WithResv(a, v)) /\ WithResv(a, v).pc = a.pc
           /\ WithResv(a, v).x = a.x /\ WithResv(a, v).f = a.f /\ WithResv(a, v).priv = a.priv
<1> DEFINE b == WithResv(a, v)
<1>1. b = [a EXCEPT !.resv = v]
  BY DEF WithResv
<1> HIDE DEF b
<1>2. b = Fields(b) /\ b.resv = v
  BY <1>1, IsArchIs DEF Fields
<1>3. IsArch(b)
  BY <1>1, <1>2, IsArchIs DEF Fields
<1>4. CsrsSame(a, b) /\ b.pc = a.pc /\ b.x = a.x /\ b.f = a.f /\ b.priv = a.priv
  BY <1>1, IsArchIs DEF Fields, CsrsSame
<1> QED BY <1>2, <1>3, <1>4 DEF b

SetReg(x, r, v) == [x EXCEPT ![r] = v]

LEMMA SetRegIs ==
    ASSUME NEW x, NEW r \in Regs, NEW v, IsRegs(x)
    PROVE  /\ IsRegs(SetReg(x, r, v))
           /\ \A q \in Regs : SetReg(x, r, v)[q] = IF q = r THEN v ELSE x[q]
BY DEF IsRegs, SetReg

\* Traps and trap returns leave the registers alone.
LEMMA TrapIs ==
    ASSUME NEW a, NEW cause, NEW pc, IsArch(a)
    PROVE  /\ IsArch(take_trap(a, cause, pc))
           /\ take_trap(a, cause, pc).x = a.x /\ take_trap(a, cause, pc).f = a.f
<1>1. CASE a.priv # "M" /\ cause \in Delegated
  <2>1. take_trap(a, cause, pc) =
          [a EXCEPT !.sepc = pc, !.scause = cause, !.spie = a.sie, !.sie = FALSE,
                    !.spp = a.priv, !.priv = "S", !.pc = SVec]
    BY <1>1 DEF take_trap
  <2> QED BY <2>1, IsArchIs DEF Fields, IsRegs, Modes
<1>2. CASE ~(a.priv # "M" /\ cause \in Delegated)
  <2>1. take_trap(a, cause, pc) =
          [a EXCEPT !.mepc = pc, !.mcause = cause, !.mpie = a.mie, !.mie = FALSE,
                    !.mpp = a.priv, !.priv = "M", !.pc = MVec]
    BY <1>2 DEF take_trap
  <2> QED BY <2>1, IsArchIs DEF Fields, IsRegs, Modes
<1> QED BY <1>1, <1>2

LEMMA ReturnIs ==
    ASSUME NEW a, IsArch(a)
    PROVE  /\ IsArch(handle_mret(a)) /\ handle_mret(a).x = a.x /\ handle_mret(a).f = a.f
           /\ IsArch(handle_sret(a)) /\ handle_sret(a).x = a.x /\ handle_sret(a).f = a.f
<1>1. IsArch(handle_mret(a)) /\ handle_mret(a).x = a.x /\ handle_mret(a).f = a.f
  <2> DEFINE b == handle_mret(a)
  <2>1. b = [a EXCEPT !.mie = a.mpie, !.mpie = TRUE, !.priv = a.mpp, !.mpp = "U", !.pc = a.mepc]
    BY DEF handle_mret
  <2> HIDE DEF b
  <2>2. IsArch(b) /\ b.x = a.x /\ b.f = a.f
    BY <2>1, IsArchIs DEF Fields, IsRegs, Modes
  <2> QED BY <2>2 DEF b
<1>2. IsArch(handle_sret(a)) /\ handle_sret(a).x = a.x /\ handle_sret(a).f = a.f
  <2> DEFINE b == handle_sret(a)
  <2>1. b = [a EXCEPT !.sie = a.spie, !.spie = TRUE, !.priv = a.spp, !.spp = "U", !.pc = a.sepc]
    BY DEF handle_sret
  <2> HIDE DEF b
  <2>2. IsArch(b) /\ b.x = a.x /\ b.f = a.f
    BY <2>1, IsArchIs DEF Fields, IsRegs, Modes
  <2> QED BY <2>2 DEF b
<1> QED BY <1>1, <1>2

-----------------------------------------------------------------------------
(* What a result does to the architectural state. *)

InfoInt(rd, v) == [rd |-> rd, fp |-> FALSE, val |-> v]
InfoFp(rd, v) == [rd |-> rd, fp |-> TRUE, val |-> v]

Nothing(fwd) == fwd.fp = FALSE /\ fwd.rd = 0

LEMMA DescribesInt ==
    ASSUME NEW a, NEW b, NEW rd \in Regs, NEW v, IsRegs(a.x),
           b.x = IF rd = 0 THEN a.x ELSE SetReg(a.x, rd, v), b.f = a.f
    PROVE  Describes(InfoInt(rd, v), a, b)
<1> DEFINE w == InfoInt(rd, v)
<1>1. w.rd = rd /\ w.fp = FALSE /\ w.val = v
  BY DEF InfoInt
<1> HIDE DEF w
<1>2. \A r \in Regs : r # 0 => b.x[r] = IF ~w.fp /\ w.rd = r THEN w.val ELSE a.x[r]
  BY <1>1, SetRegIs
<1>3. Describes(w, a, b)
  BY <1>1, <1>2 DEF Describes
<1> QED BY <1>3 DEF w

LEMMA DescribesFp ==
    ASSUME NEW a, NEW b, NEW rd \in Regs, NEW v, IsRegs(a.f),
           b.f = SetReg(a.f, rd, v), b.x = a.x
    PROVE  Describes(InfoFp(rd, v), a, b)
<1> DEFINE w == InfoFp(rd, v)
<1>1. w.rd = rd /\ w.fp = TRUE /\ w.val = v
  BY DEF InfoFp
<1> HIDE DEF w
<1>2. \A r \in Regs : b.f[r] = IF w.fp /\ w.rd = r THEN w.val ELSE a.f[r]
  BY <1>1, SetRegIs
<1>3. Describes(w, a, b)
  BY <1>1, <1>2 DEF Describes
<1> QED BY <1>3 DEF w

\* What the registers of the other file and the other registers keep.
LEMMA DescribedKeeps ==
    ASSUME NEW a, NEW b, NEW rd, NEW v
    PROVE  /\ Describes(InfoInt(rd, v), a, b) =>
                /\ \A q \in Regs : b.f[q] = a.f[q]
                /\ \A q \in Regs : q # 0 /\ q # rd => b.x[q] = a.x[q]
           /\ Describes(InfoFp(rd, v), a, b) =>
                /\ \A q \in Regs : q # 0 => b.x[q] = a.x[q]
                /\ \A q \in Regs : q # rd => b.f[q] = a.f[q]
<1> DEFINE w == InfoInt(rd, v)
           z == InfoFp(rd, v)
<1>1. w.rd = rd /\ w.fp = FALSE /\ w.val = v
  BY DEF InfoInt
<1>2. z.rd = rd /\ z.fp = TRUE /\ z.val = v
  BY DEF InfoFp
<1> HIDE DEF w, z
<1>3. Describes(w, a, b) => /\ \A q \in Regs : b.f[q] = a.f[q]
                            /\ \A q \in Regs : q # 0 /\ q # rd => b.x[q] = a.x[q]
  BY <1>1 DEF Describes
<1>4. Describes(z, a, b) => /\ \A q \in Regs : q # 0 => b.x[q] = a.x[q]
                            /\ \A q \in Regs : q # rd => b.f[q] = a.f[q]
  BY <1>2 DEF Describes
<1> QED BY <1>3, <1>4 DEF w, z

LEMMA DescribesNone ==
    ASSUME NEW a, NEW b, NEW fwd, Nothing(fwd), b.x = a.x, b.f = a.f
    PROVE  Describes(fwd, a, b)
BY DEF Describes, Nothing

LEMMA WriteXIs ==
    ASSUME NEW a, NEW rd \in Regs, NEW v, IsArch(a)
    PROVE  /\ IsArch(write_x(a, rd, v)) /\ CsrsSame(a, write_x(a, rd, v))
           /\ write_x(a, rd, v).x = IF rd = 0 THEN a.x ELSE SetReg(a.x, rd, v)
           /\ write_x(a, rd, v).f = a.f /\ write_x(a, rd, v).priv = a.priv
           /\ write_x(a, rd, v).pc = a.pc
<1>1. CASE rd = 0
  BY <1>1 DEF write_x, CsrsSame
<1>2. CASE rd # 0
  <2>1. write_x(a, rd, v) = WithX(a, SetReg(a.x, rd, v))
    BY Zenon, <1>2 DEF write_x, WithX, SetReg
  <2>2. IsRegs(SetReg(a.x, rd, v))
    BY SetRegIs, IsArchIs
  <2> QED BY <1>2, <2>1, <2>2, WithXIs
<1> QED BY <1>1, <1>2

LEMMA WriteFIs ==
    ASSUME NEW a, NEW rd \in Regs, NEW v, IsArch(a)
    PROVE  /\ IsArch(write_f(a, rd, v)) /\ CsrsSame(a, write_f(a, rd, v))
           /\ write_f(a, rd, v).f = SetReg(a.f, rd, v)
           /\ write_f(a, rd, v).x = a.x /\ write_f(a, rd, v).priv = a.priv
<1>1. write_f(a, rd, v) = WithF(a, SetReg(a.f, rd, v))
  BY Zenon DEF write_f, WithF, SetReg
<1>2. IsRegs(SetReg(a.f, rd, v))
  BY SetRegIs, IsArchIs
<1> QED BY <1>1, <1>2, WithFIs

LEMMA WbWriteInt ==
    ASSUME NEW a, NEW r, IsArch(a), r.kind = "WriteInt", r.rd \in Regs
    PROVE  LET b == writeback(a, r)
           IN /\ IsArch(b) /\ CsrsSame(a, b) /\ b.priv = a.priv /\ b.pc = r.next
              /\ Describes(InfoInt(r.rd, r.val), a, b)
<1> DEFINE c == write_x(a, r.rd, r.val)
           b == writeback(a, r)
<1>1. b = WithPc(c, r.next)
  BY DEF writeback, WithPc
<1>2. /\ IsArch(c) /\ CsrsSame(a, c) /\ c.f = a.f /\ c.priv = a.priv
      /\ c.x = IF r.rd = 0 THEN a.x ELSE SetReg(a.x, r.rd, r.val)
  BY WriteXIs
<1> HIDE DEF b, c
<1>3. /\ IsArch(b) /\ CsrsSame(c, b) /\ b.pc = r.next /\ b.x = c.x /\ b.f = c.f /\ b.priv = c.priv
  BY <1>1, <1>2, WithPcIs
<1>4. CsrsSame(a, b)
  BY <1>2, <1>3 DEF CsrsSame
<1>5. Describes(InfoInt(r.rd, r.val), a, b)
  <2>1. b.x = IF r.rd = 0 THEN a.x ELSE SetReg(a.x, r.rd, r.val)
    BY <1>2, <1>3
  <2>2. b.f = a.f /\ IsRegs(a.x)
    BY <1>2, <1>3, IsArchIs
  <2> QED BY <2>1, <2>2, DescribesInt
<1> QED BY <1>2, <1>3, <1>4, <1>5 DEF b

LEMMA WbWriteFp ==
    ASSUME NEW a, NEW r, IsArch(a), r.kind = "WriteFp", r.rd \in Regs
    PROVE  LET b == writeback(a, r)
           IN /\ IsArch(b) /\ (r.flags = 0 => CsrsSame(a, b)) /\ b.priv = a.priv /\ b.pc = r.next
              /\ Describes(InfoFp(r.rd, r.val), a, b)
<1> DEFINE v == IF r.flags = 0 THEN a.fcsr ELSE 1
           d == WithFcsr(a, v)
           c == write_f(d, r.rd, r.val)
           b == writeback(a, r)
<1>1. b = WithPc(c, r.next)
  <2>1. d = [a EXCEPT !.fcsr = IF r.flags = 0 THEN @ ELSE 1]
    BY Zenon DEF WithFcsr
  <2>2. b = [write_f([a EXCEPT !.fcsr = IF r.flags = 0 THEN @ ELSE 1], r.rd, r.val)
               EXCEPT !.pc = r.next]
    BY DEF writeback
  <2> QED BY Zenon, <2>1, <2>2 DEF WithPc
<1>2. /\ IsArch(d) /\ d.fcsr = v /\ d.mepc = a.mepc /\ d.sepc = a.sepc
      /\ d.x = a.x /\ d.f = a.f /\ d.priv = a.priv
  <2> HIDE DEF v
  <2> QED BY WithFcsrIs
<1> HIDE DEF d
<1>3. /\ IsArch(c) /\ CsrsSame(d, c) /\ c.x = d.x /\ c.priv = d.priv /\ c.f = SetReg(d.f, r.rd, r.val)
  BY <1>2, WriteFIs
<1> HIDE DEF b, c
<1>4. /\ IsArch(b) /\ CsrsSame(c, b) /\ b.pc = r.next /\ b.x = c.x /\ b.f = c.f /\ b.priv = c.priv
  BY <1>1, <1>3, WithPcIs
<1>5. r.flags = 0 => CsrsSame(a, b)
  BY <1>2, <1>3, <1>4 DEF CsrsSame
<1>6. Describes(InfoFp(r.rd, r.val), a, b)
  <2>1. b.f = SetReg(a.f, r.rd, r.val) /\ b.x = a.x /\ IsRegs(a.f)
    BY <1>2, <1>3, <1>4, IsArchIs
  <2> QED BY <2>1, DescribesFp
<1>7. b.priv = a.priv
  BY <1>2, <1>3, <1>4
<1> QED BY <1>4, <1>5, <1>6, <1>7 DEF b

LEMMA WbCsr ==
    ASSUME NEW a, NEW r, IsArch(a), r.kind = "Csr", Known(r.csr), r.rd \in Regs
    PROVE  LET b == writeback(a, r)
           IN /\ IsArch(b) /\ b.priv = a.priv /\ b.pc = r.next
              /\ Describes(InfoInt(r.rd, csr_read(a, r.csr) % W), a, b)
<1> DEFINE v == csr_read(a, r.csr) % W
           d == IF r.write THEN csr_write(a, r.csr, r.operand) ELSE a
           c == write_x(d, r.rd, v)
           b == writeback(a, r)
<1>1. b = WithPc(c, r.next)
  BY DEF writeback, WithPc
<1>2. IsArch(d) /\ d.x = a.x /\ d.f = a.f /\ d.priv = a.priv
  <2>1. CASE r.write
    <3>1. d = csr_write(a, r.csr, r.operand)
      BY <2>1
    <3>2. CASE r.csr = "fcsr"
      <4>1. d = WithFcsr(a, r.operand)
        BY <3>1, <3>2 DEF csr_write, WithFcsr
      <4> HIDE DEF d
      <4> QED BY <4>1, WithFcsrIs
    <3>3. CASE r.csr = "mepc"
      <4>1. d = WithMepc(a, r.operand)
        BY <3>1, <3>3 DEF csr_write, WithMepc
      <4> HIDE DEF d
      <4> QED BY <4>1, WithMepcIs
    <3>4. CASE r.csr = "sepc"
      <4>1. d = WithSepc(a, r.operand)
        BY <3>1, <3>4 DEF csr_write, WithSepc
      <4> HIDE DEF d
      <4> QED BY <4>1, WithSepcIs
    <3> QED BY <3>2, <3>3, <3>4 DEF Known
  <2>2. CASE ~r.write
    BY <2>2
  <2> QED BY <2>1, <2>2
<1> HIDE DEF d, v
<1>3. /\ IsArch(c) /\ c.f = d.f /\ c.priv = d.priv
      /\ c.x = IF r.rd = 0 THEN d.x ELSE SetReg(d.x, r.rd, v)
  BY <1>2, WriteXIs
<1> HIDE DEF b, c
<1>4. /\ IsArch(b) /\ b.pc = r.next /\ b.x = c.x /\ b.f = c.f /\ b.priv = c.priv
  BY <1>1, <1>3, WithPcIs
<1>5. Describes(InfoInt(r.rd, v), a, b)
  <2>1. b.x = IF r.rd = 0 THEN a.x ELSE SetReg(a.x, r.rd, v)
    BY <1>2, <1>3, <1>4
  <2>2. b.f = a.f /\ IsRegs(a.x)
    BY <1>2, <1>3, <1>4, IsArchIs
  <2> QED BY <2>1, <2>2, DescribesInt
<1>6. b.priv = a.priv
  BY <1>2, <1>3, <1>4
<1> QED BY <1>4, <1>5, <1>6 DEF b, v

LEMMA WbPlain ==
    ASSUME NEW a, NEW r, IsArch(a), r.kind \in {"Jump", "nop", "exit", "sfence"}
    PROVE  LET b == writeback(a, r)
           IN /\ IsArch(b) /\ CsrsSame(a, b) /\ b.priv = a.priv /\ b.x = a.x /\ b.f = a.f
              /\ b.pc = IF r.kind = "sfence" THEN a.pc + 1 ELSE r.next
<1> DEFINE b == writeback(a, r)
<1>1. b = WithPc(a, IF r.kind = "sfence" THEN a.pc + 1 ELSE r.next)
  <2>1. CASE r.kind = "sfence"
    BY <2>1 DEF writeback, WithPc, Next1
  <2>2. CASE r.kind \in {"Jump", "nop", "exit"}
    BY <2>2 DEF writeback, WithPc
  <2> QED BY <2>1, <2>2
<1> HIDE DEF b
<1>2. /\ IsArch(b) /\ CsrsSame(a, b) /\ b.priv = a.priv /\ b.x = a.x /\ b.f = a.f
      /\ b.pc = IF r.kind = "sfence" THEN a.pc + 1 ELSE r.next
  BY <1>1, WithPcIs
<1> QED BY <1>2 DEF b

LEMMA WbLeaves ==
    ASSUME NEW a, NEW r, IsArch(a), r.kind \in Leaving
    PROVE  LET b == writeback(a, r) IN IsArch(b) /\ b.x = a.x /\ b.f = a.f
<1> DEFINE b == writeback(a, r)
<1>1. \/ b = take_trap(a, "ecall", a.pc) \/ b = take_trap(a, "illegal", a.pc)
      \/ b = handle_mret(a) \/ b = handle_sret(a)
  <2>1. CASE r.kind = "ecall"
    BY <2>1 DEF writeback
  <2>2. CASE r.kind = "mret"
    BY <2>2 DEF writeback
  <2>3. CASE r.kind = "sret"
    BY <2>3 DEF writeback
  <2> QED BY <2>1, <2>2, <2>3 DEF Leaving
<1> HIDE DEF b
<1>2. IsArch(b) /\ b.x = a.x /\ b.f = a.f
  BY <1>1, TrapIs, ReturnIs
<1> QED BY <1>2 DEF b

-----------------------------------------------------------------------------
(* What EX and MEM make of an instruction. *)

IntOps == {"alu", "jal", "jalr"}
FpOps == {"fop", "fma"}
Atomics == {"amo", "lr", "sc"}
Traps == {"ecall", "ebreak", "mret", "sret", "sfence"}

Executable == {"alu", "jal", "jalr", "branch", "fop", "fma", "load", "fload", "store", "fstore",
               "amo", "lr", "sc", "csr", "nop", "exit", "ecall", "ebreak", "mret", "sret", "sfence"}

IsInsn(i) == i.op \in Executable /\ i.rd \in Regs

LEMMA ExecInt ==
    ASSUME NEW a, NEW i, NEW ops, NEW pc, i.op \in IntOps
    PROVE  LET r == execute(a, i, ops, pc)
           IN /\ r.kind = "WriteInt" /\ r.rd = i.rd
              /\ i.op = "alu" => r.next = pc + 1
              /\ i.op = "jal" => r.next = i.ext
              /\ InfoOf(r, i) = InfoInt(i.rd, r.val)
<1> DEFINE r == execute(a, i, ops, pc)
<1>1. \E v, n : /\ r = [kind |-> "WriteInt", rd |-> i.rd, val |-> v, next |-> n]
                /\ i.op = "alu" => n = pc + 1
                /\ i.op = "jal" => n = i.ext
  <2>1. CASE i.op = "alu"
    <3>1. r = [kind |-> "WriteInt", rd |-> i.rd, val |-> (ops.rs1 + ops.rs2 + i.ext) % W, next |-> pc + 1]
      BY <2>1 DEF execute, Next1, insn_is_atomic
    <3> HIDE DEF r
    <3> QED BY Zenon, <2>1, <3>1
  <2>2. CASE i.op = "jal"
    <3>1. r = [kind |-> "WriteInt", rd |-> i.rd, val |-> (pc + 1) % W, next |-> i.ext]
      BY <2>2 DEF execute, Next1, insn_is_atomic
    <3> HIDE DEF r
    <3> QED BY Zenon, <2>2, <3>1
  <2>3. CASE i.op = "jalr"
    <3>1. r = [kind |-> "WriteInt", rd |-> i.rd, val |-> (pc + 1) % W, next |-> ops.rs1]
      BY <2>3 DEF execute, Next1, insn_is_atomic
    <3> HIDE DEF r
    <3> QED BY Zenon, <2>3, <3>1
  <2> QED BY <2>1, <2>2, <2>3 DEF IntOps
<1> HIDE DEF r
<1>2. r.kind = "WriteInt" /\ r.rd = i.rd /\ (i.op = "alu" => r.next = pc + 1) /\ (i.op = "jal" => r.next = i.ext)
  BY <1>1
<1>3. InfoOf(r, i) = InfoInt(i.rd, r.val)
  BY <1>2 DEF InfoOf, ForwardInfo, InfoInt, InfoFp
<1> QED BY <1>2, <1>3 DEF r

LEMMA ExecFp ==
    ASSUME NEW a, NEW i, NEW ops, NEW pc, i.op \in FpOps
    PROVE  LET r == execute(a, i, ops, pc)
           IN /\ r.kind = "WriteFp" /\ r.rd = i.rd /\ r.next = pc + 1
              /\ InfoOf(r, i) = InfoFp(i.rd, r.val)
<1> DEFINE r == execute(a, i, ops, pc)
<1>1. \E v, f : r = [kind |-> "WriteFp", rd |-> i.rd, val |-> v, flags |-> f, next |-> pc + 1]
  <2>1. CASE i.op = "fop"
    <3>1. r = [kind |-> "WriteFp", rd |-> i.rd, val |-> (ops.frs1 + ops.frs2 + 1) % W,
               flags |-> IF ops.frs1 + ops.frs2 + 1 < W THEN 0 ELSE 1, next |-> pc + 1]
      BY <2>1 DEF execute, Next1, insn_is_atomic
    <3> HIDE DEF r
    <3> QED BY Zenon, <3>1
  <2>2. CASE i.op = "fma"
    <3> DEFINE v == ops.frs1 * ops.frs2 + read_f_bits(a, i, ops, i.ext)
    <3>1. r = [kind |-> "WriteFp", rd |-> i.rd, val |-> v % W,
               flags |-> IF v < W THEN 0 ELSE 1, next |-> pc + 1]
      BY <2>2 DEF execute, Next1, insn_is_atomic
    <3> HIDE DEF r
    <3> QED BY Zenon, <3>1
  <2> QED BY <2>1, <2>2 DEF FpOps
<1> HIDE DEF r
<1>2. r.kind = "WriteFp" /\ r.rd = i.rd /\ r.next = pc + 1
  BY <1>1
<1>3. InfoOf(r, i) = InfoFp(i.rd, r.val)
  BY <1>2 DEF InfoOf, ForwardInfo, InfoInt, InfoFp
<1> QED BY <1>2, <1>3 DEF r

LoadInfo(op, rd, v) == IF op = "fload" THEN InfoFp(rd, v) ELSE InfoInt(rd, v)

AccessKind(op) == CASE op = "load" -> "Load" [] op = "fload" -> "FLoad" [] OTHER -> "Atomic"

LEMMA ExecLoad ==
    ASSUME NEW a, NEW i, NEW ops, NEW pc, i.op \in {"load", "fload"} \cup Atomics
    PROVE  LET r == execute(a, i, ops, pc)
           IN /\ r.kind = AccessKind(i.op) /\ r.rd = i.rd /\ r.next = pc + 1 /\ r.funct = i.op
              /\ InfoOf(r, i) = LoadInfo(i.op, i.rd, 0)
<1> DEFINE r == execute(a, i, ops, pc)
<1>1. insn_rd(i) = i.rd /\ i.op # "fstore"
  BY DEF insn_rd, IntDest, Atomics, FpDest
<1>2. r = [kind |-> AccessKind(i.op), funct |-> i.op, rd |-> i.rd, addr |-> ops.rs1,
           val |-> ops.rs2, next |-> pc + 1]
  <2>1. CASE i.op = "load"
    BY <1>1, <2>1 DEF execute, Next1, AccessKind, insn_is_atomic
  <2>2. CASE i.op = "fload"
    BY <1>1, <2>2 DEF execute, Next1, AccessKind, insn_is_atomic
  <2>3. CASE i.op \in Atomics
    BY <1>1, <2>3 DEF execute, Next1, AccessKind, Atomics, insn_is_atomic
  <2> QED BY <2>1, <2>2, <2>3
<1> HIDE DEF r
<1>3. r.kind = AccessKind(i.op) /\ r.rd = i.rd /\ r.next = pc + 1 /\ r.funct = i.op
  BY <1>2
<1>4. AccessKind(i.op) \in {"Load", "FLoad", "Atomic"}
  BY DEF AccessKind
<1>5. InfoOf(r, i) = [rd |-> insn_rd(i), fp |-> insn_is_fp_dest(i), val |-> 0]
  BY <1>3, <1>4 DEF InfoOf, ForwardInfo
<1>6. insn_is_fp_dest(i) = (i.op = "fload")
  BY DEF insn_is_fp_dest, FpDest, Atomics
<1>7. InfoOf(r, i) = LoadInfo(i.op, i.rd, 0)
  <2>1. CASE i.op = "fload"
    <3>1. insn_is_fp_dest(i) = TRUE
      BY <2>1, <1>6
    <3> QED BY Zenon, <1>1, <1>5, <2>1, <3>1 DEF LoadInfo, InfoFp
  <2>2. CASE i.op # "fload"
    <3>1. insn_is_fp_dest(i) = FALSE
      BY <2>2, <1>6
    <3> QED BY Zenon, <1>1, <1>5, <2>2, <3>1 DEF LoadInfo, InfoInt
  <2> QED BY <2>1, <2>2
<1> QED BY <1>3, <1>7 DEF r

LEMMA ExecCsr ==
    ASSUME NEW a, NEW i, NEW ops, NEW pc, i.op = "csr", a.priv \in Modes
    PROVE  LET r == execute(a, i, ops, pc)
           IN \/ r.kind = "Err"
              \/ /\ r.kind = "Csr" /\ r.rd = i.rd /\ r.next = pc + 1 /\ r.csr = i.ext
                 /\ Known(i.ext) => r.old = csr_read(a, i.ext)
                 /\ InfoOf(r, i) = InfoInt(i.rd, r.old % W)
<1> DEFINE r == execute(a, i, ops, pc)
<1>1. Rank(a.priv) \in Nat /\ csr_priv(i.ext) \in Nat
  BY DEF Rank, csr_priv, Modes
<1>2. CASE Rank(a.priv) < csr_priv(i.ext)
  <2>1. r = Fault("illegal")
    <3> DEFINE lo == Rank(a.priv) < csr_priv(i.ext)
               ge == Rank(a.priv) >= csr_priv(i.ext)
    <3>1. lo /\ ~ge
      BY <1>1, <1>2
    <3>2. r = CASE i.op = "csr" /\ lo -> Fault("illegal")
                [] i.op = "csr" /\ ge ->
                     [kind |-> "Csr", rd |-> i.rd, csr |-> i.ext, write |-> i.write, operand |-> ops.rs1,
                      old |-> IF Known(i.ext) THEN csr_read(a, i.ext) ELSE 0, next |-> pc + 1]
      <4> HIDE DEF lo, ge
      <4> QED BY <3>1 DEF execute, Next1, insn_is_atomic, lo, ge
    <3> HIDE DEF r, lo, ge
    <3> QED BY <3>1, <3>2
  <2>2. r.kind = "Err"
    BY <2>1 DEF Fault
  <2> QED BY <2>2
<1>3. CASE ~(Rank(a.priv) < csr_priv(i.ext))
  <2> DEFINE old == IF Known(i.ext) THEN csr_read(a, i.ext) ELSE 0
  <2>1. Rank(a.priv) >= csr_priv(i.ext)
    BY <1>1, <1>3
  <2>2. r = [kind |-> "Csr", rd |-> i.rd, csr |-> i.ext, write |-> i.write, operand |-> ops.rs1,
             old |-> old, next |-> pc + 1]
    BY <1>3, <2>1 DEF execute, Next1, insn_is_atomic
  <2>3. Known(i.ext) => old = csr_read(a, i.ext)
    OBVIOUS
  <2> HIDE DEF r, old
  <2>4. r.kind = "Csr" /\ r.rd = i.rd /\ r.next = pc + 1 /\ r.csr = i.ext /\ r.old = old
    BY <2>2
  <2>5. InfoOf(r, i) = InfoInt(i.rd, r.old % W)
    BY <2>4 DEF InfoOf, ForwardInfo, InfoInt, InfoFp
  <2> QED BY <2>3, <2>4, <2>5 DEF r
<1> QED BY <1>2, <1>3

LEMMA ExecPlain ==
    ASSUME NEW a, NEW i, NEW ops, NEW pc,
           i.op \in {"branch", "store", "fstore", "nop", "exit"} \cup Traps
    PROVE  LET r == execute(a, i, ops, pc)
           IN /\ i.op = "branch" => r.kind = "Jump"
              /\ i.op \in {"store", "fstore"} => r.kind = "Store" /\ r.next = pc + 1
              /\ i.op \in {"nop", "exit"} => r.kind = i.op /\ r.next = pc + 1
              /\ i.op \in Traps => r.kind = i.op
              /\ Nothing(InfoOf(r, i))
<1> DEFINE r == execute(a, i, ops, pc)
<1>1. insn_rd(i) = 0 /\ insn_is_fp_dest(i) = FALSE
  BY DEF insn_rd, IntDest, insn_is_fp_dest, FpDest, Traps
<1>2. /\ i.op = "branch" => r.kind = "Jump"
      /\ i.op \in {"store", "fstore"} => r.kind = "Store" /\ r.next = pc + 1
      /\ i.op \in {"nop", "exit"} => r.kind = i.op /\ r.next = pc + 1
      /\ i.op \in Traps => r.kind = i.op
  <2>1. CASE i.op = "branch"
    <3>1. r = [kind |-> "Jump", next |-> IF ops.rs1 = ops.rs2 THEN i.ext ELSE pc + 1]
      BY <2>1 DEF execute, Next1, insn_is_atomic
    <3> HIDE DEF r
    <3> QED BY <2>1, <3>1 DEF Traps
  <2>2. CASE i.op \in {"store", "fstore"}
    <3> DEFINE v == IF i.op = "fstore" THEN ops.frs2 ELSE ops.rs2
    <3>1. r = [kind |-> "Store", funct |-> i.op, rd |-> insn_rd(i), addr |-> ops.rs1,
               val |-> v, next |-> pc + 1]
      BY <2>2 DEF execute, Next1, insn_is_atomic
    <3> HIDE DEF r, v
    <3> QED BY <2>2, <3>1 DEF Traps
  <2>3. CASE i.op \in {"nop", "exit"}
    <3>1. r = [kind |-> i.op, next |-> pc + 1]
      BY <2>3 DEF execute, Next1, insn_is_atomic
    <3> HIDE DEF r
    <3> QED BY <2>3, <3>1 DEF Traps
  <2>4. CASE i.op \in Traps
    <3>1. r = [kind |-> i.op]
      BY <2>4 DEF execute, Next1, insn_is_atomic, Traps
    <3> HIDE DEF r
    <3> QED BY <2>4, <3>1 DEF Traps
  <2> QED BY <2>1, <2>2, <2>3, <2>4
<1> HIDE DEF r
<1>3. r.kind \notin {"WriteInt", "WriteFp", "Csr"}
  BY <1>2 DEF Traps
<1>4. InfoOf(r, i) = IF r.kind = "Jump" THEN [rd |-> 0, fp |-> FALSE, val |-> 0]
                     ELSE [rd |-> 0, fp |-> FALSE, val |-> 0]
  <2>1. InfoOf(r, i) = IF r.kind = "Jump" THEN [rd |-> 0, fp |-> FALSE, val |-> 0]
                       ELSE [rd |-> insn_rd(i), fp |-> insn_is_fp_dest(i), val |-> 0]
    BY <1>3 DEF InfoOf, ForwardInfo
  <2> QED BY Zenon, <1>1, <2>1
<1>5. Nothing(InfoOf(r, i))
  BY <1>4 DEF Nothing
<1> QED BY <1>2, <1>5 DEF r

LEMMA LoadedIs ==
    ASSUME NEW r, NEW v, NEW fwd
    PROVE  LET l == Loaded(r, v)
           IN /\ l.kind = IF r.kind = "FLoad" THEN "WriteFp" ELSE "WriteInt"
              /\ l.rd = r.rd /\ l.val = v /\ l.flags = 0 /\ l.next = r.next
              /\ ForwardInfo(l, fwd) = IF r.kind = "FLoad" THEN InfoFp(r.rd, v) ELSE InfoInt(r.rd, v)
<1> DEFINE l == Loaded(r, v)
<1>1. l.kind = (IF r.kind = "FLoad" THEN "WriteFp" ELSE "WriteInt")
      /\ l.rd = r.rd /\ l.val = v /\ l.flags = 0 /\ l.next = r.next
  BY DEF Loaded
<1> HIDE DEF l
<1>2. CASE r.kind = "FLoad"
  <2>1. l.kind = "WriteFp"
    BY <1>1, <1>2
  <2>2. ForwardInfo(l, fwd) = InfoFp(r.rd, v)
    BY <1>1, <2>1 DEF ForwardInfo, InfoFp
  <2> QED BY <1>1, <1>2, <2>2 DEF l
<1>3. CASE r.kind # "FLoad"
  <2>1. l.kind = "WriteInt"
    BY <1>1, <1>3
  <2>2. ForwardInfo(l, fwd) = InfoInt(r.rd, v)
    BY <1>1, <2>1 DEF ForwardInfo, InfoInt
  <2> QED BY <1>1, <1>3, <2>2 DEF l
<1> QED BY <1>2, <1>3

LEMMA MemLoad ==
    ASSUME NEW r, NEW mm, NEW resv,
           r.kind \in {"Load", "FLoad"} \/ (r.kind = "Atomic" /\ r.funct \in Atomics)
    PROVE  LET m == memory_stage(r, mm, resv)
           IN m.res.kind = "Err" \/ \E v : m.res = Loaded(r, v)
<1> DEFINE m == memory_stage(r, mm, resv)
<1>0. \A c : Fault(c).kind = "Err"
  BY DEF Fault
<1>1. CASE r.kind \in {"Load", "FLoad"}
  <2>1. m = [res |-> IF r.addr \in DOMAIN mm THEN Loaded(r, mm[r.addr]) ELSE Fault("load"),
             mem |-> mm, resv |-> resv]
    BY <1>1 DEF memory_stage
  <2> HIDE DEF m
  <2>2. m.res = IF r.addr \in DOMAIN mm THEN Loaded(r, mm[r.addr]) ELSE Fault("load")
    BY <2>1
  <2>3. m.res.kind = "Err" \/ \E v : m.res = Loaded(r, v)
    BY Zenon, <1>0, <2>2
  <2> QED BY <2>3 DEF m
<1>2. CASE r.kind = "Atomic" /\ r.funct \in Atomics
  <2>0. m = handle_atomic(r, mm, resv)
    BY <1>2 DEF memory_stage
  <2>1. CASE r.funct = "lr"
    <3>1. m = [res |-> IF r.addr \in DOMAIN mm THEN Loaded(r, mm[r.addr]) ELSE Fault("load"),
               mem |-> mm, resv |-> r.addr]
      BY <2>0, <2>1 DEF handle_atomic
    <3> HIDE DEF m
    <3>2. m.res = IF r.addr \in DOMAIN mm THEN Loaded(r, mm[r.addr]) ELSE Fault("load")
      BY <3>1
    <3>3. m.res.kind = "Err" \/ \E v : m.res = Loaded(r, v)
      BY Zenon, <1>0, <3>2
    <3> QED BY <3>3 DEF m
  <2>2. CASE r.funct = "sc" /\ resv # r.addr
    <3>1. m = [res |-> Loaded(r, 1), mem |-> mm, resv |-> resv]
      BY <2>0, <2>2 DEF handle_atomic
    <3> HIDE DEF m
    <3>2. m.res = Loaded(r, 1)
      BY <3>1
    <3> QED BY <3>2 DEF m
  <2>3. CASE r.funct = "sc" /\ resv = r.addr
    <3> DEFINE mn == IF r.addr \in DOMAIN mm THEN [mm EXCEPT ![r.addr] = r.val] ELSE mm
    <3>1. m = [res |-> IF r.addr \in DOMAIN mm THEN Loaded(r, 0) ELSE Fault("store"),
               mem |-> mn, resv |-> MemSize]
      BY <2>0, <2>3 DEF handle_atomic
    <3> HIDE DEF m, mn
    <3>2. m.res = IF r.addr \in DOMAIN mm THEN Loaded(r, 0) ELSE Fault("store")
      BY <3>1
    <3>3. m.res.kind = "Err" \/ \E v : m.res = Loaded(r, v)
      BY Zenon, <1>0, <3>2
    <3> QED BY <3>3 DEF m
  <2>4. CASE r.funct = "amo"
    <3>1. m = amo_op(r, mm, resv)
      BY <2>0, <2>4 DEF handle_atomic
    <3>2. m.res = IF r.addr \in DOMAIN mm THEN Loaded(r, mm[r.addr]) ELSE Fault("load")
      <4> HIDE DEF m
      <4> DEFINE mn == [mm EXCEPT ![r.addr] = r.val]
      <4>1. m = IF r.addr \in DOMAIN mm
                THEN [res |-> Loaded(r, mm[r.addr]), mem |-> mn, resv |-> resv]
                ELSE [res |-> Fault("load"), mem |-> mm, resv |-> resv]
        BY Zenon, <3>1 DEF amo_op
      <4> HIDE DEF mn
      <4> QED BY <4>1
    <3> HIDE DEF m
    <3>3. m.res.kind = "Err" \/ \E v : m.res = Loaded(r, v)
      BY Zenon, <1>0, <3>2
    <3> QED BY <3>3 DEF m
  <2> QED BY <1>2, <2>1, <2>2, <2>3, <2>4 DEF Atomics
<1> QED BY <1>1, <1>2

LEMMA MemStore ==
    ASSUME NEW r, NEW mm, NEW resv, r.kind = "Store"
    PROVE  LET m == memory_stage(r, mm, resv)
           IN m.res.kind = "Err" \/ (m.res.kind = "Jump" /\ m.res.next = r.next)
<1> DEFINE m == memory_stage(r, mm, resv)
           ok == r.addr \in DOMAIN mm
           mn == IF ok THEN [mm EXCEPT ![r.addr] = r.val] ELSE mm
           j == [kind |-> "Jump", next |-> r.next]
<1>1. m = [res |-> IF ok THEN j ELSE Fault("store"), mem |-> mn, resv |-> resv]
  BY DEF memory_stage
<1> HIDE DEF m, mn, ok
<1>2. m.res = IF ok THEN j ELSE Fault("store")
  BY <1>1
<1>3. m.res.kind = "Err" \/ (m.res.kind = "Jump" /\ m.res.next = r.next)
  BY <1>2 DEF Fault
<1> QED BY <1>3 DEF m

LEMMA MemOther ==
    ASSUME NEW r, NEW mm, NEW resv, r.kind \notin {"Load", "FLoad", "Store", "Atomic"}
    PROVE  memory_stage(r, mm, resv).res = r
<1>1. memory_stage(r, mm, resv) = [res |-> r, mem |-> mm, resv |-> resv]
  BY DEF memory_stage
<1> QED BY <1>1

IsLoadOp(i) == insn_is_load(i) \/ insn_is_atomic(i)

\* An instruction i that is executed with the operands ops at the pc of a and
\* passes MEM without a fault, from state a: b is the state after it.
Effect(a, c, b, i, r, t) ==
    /\ IsArch(b)
    /\ Describes(ForwardInfo(t, InfoOf(r, i)), c, b)
    /\ ~IsLoadOp(i) => Describes(InfoOf(r, i), c, b)
    /\ IsLoadOp(i) => \E v : Describes(LoadInfo(i.op, i.rd, v), c, b)
    /\ \A q \in Regs : (insn_is_fp_dest(i) /\ i.rd = q) \/ b.f[q] = c.f[q]
    /\ t.kind \in Leaving <=> i.op \in Leaving
    /\ r.kind \in Leaving <=> i.op \in Leaving
    /\ i.op \notin Leaving => b.priv = a.priv /\ b.pc = IF r.kind = "sfence" THEN a.pc + 1 ELSE r.next
    /\ i.op \notin Leaving \cup {"csr", "fop", "fma"} => CsrsSame(a, b)

LEMMA EffectIs ==
    ASSUME NEW a, NEW i, NEW ops, NEW mm, NEW resv, IsArch(a), IsInsn(i),
           NEW r, r = execute(a, i, ops, a.pc), r.kind # "Err",
           NEW t, t = memory_stage(r, mm, resv).res, t.kind # "Err",
           NEW c, c = WithResv(a, memory_stage(r, mm, resv).resv),
           t.kind # "ebreak", t.kind = "Csr" => Known(t.csr)
    PROVE  Effect(a, c, writeback(c, t), i, r, t)
<1> DEFINE b == writeback(c, t)
<1>0. /\ IsArch(c) /\ CsrsSame(a, c) /\ c.pc = a.pc /\ c.x = a.x /\ c.f = a.f /\ c.priv = a.priv
  BY WithResvIs
<1>00. i.op \in Executable /\ i.rd \in Regs
  BY DEF IsInsn
<1>1. CASE i.op \in IntOps
  <2>1. /\ r.kind = "WriteInt" /\ r.rd = i.rd /\ InfoOf(r, i) = InfoInt(i.rd, r.val)
    BY <1>1, ExecInt
  <2>2. t = r
    BY <2>1, MemOther
  <2>3. /\ IsArch(b) /\ CsrsSame(c, b) /\ b.priv = c.priv /\ b.pc = t.next
        /\ Describes(InfoInt(t.rd, t.val), c, b)
    BY <1>0, <1>00, <2>1, <2>2, WbWriteInt
  <2> HIDE DEF b
  <2>4. ForwardInfo(t, InfoOf(r, i)) = InfoInt(i.rd, r.val)
    BY <2>1, <2>2 DEF ForwardInfo, InfoInt, InfoFp
  <2>5. ~IsLoadOp(i) /\ i.op \notin Leaving
    BY <1>1 DEF IntOps, IsLoadOp, insn_is_load, insn_is_atomic, Leaving
  <2>6. CsrsSame(a, b) /\ b.priv = a.priv /\ r.kind \notin Leaving /\ r.kind # "sfence"
    BY <1>0, <2>1, <2>3 DEF CsrsSame, Leaving
  <2>61. \A q \in Regs : (insn_is_fp_dest(i) /\ i.rd = q) \/ b.f[q] = c.f[q]
    BY <2>3, DescribedKeeps
  <2>7. Effect(a, c, b, i, r, t)
    BY <2>1, <2>2, <2>3, <2>4, <2>5, <2>6, <2>61 DEF Effect
  <2> QED BY <2>7 DEF b
<1>2. CASE i.op \in FpOps
  <2>1. /\ r.kind = "WriteFp" /\ r.rd = i.rd /\ InfoOf(r, i) = InfoFp(i.rd, r.val)
    BY <1>2, ExecFp
  <2>2. t = r
    BY <2>1, MemOther
  <2>3. /\ IsArch(b) /\ b.priv = c.priv /\ b.pc = t.next
        /\ Describes(InfoFp(t.rd, t.val), c, b)
    BY <1>0, <1>00, <2>1, <2>2, WbWriteFp
  <2> HIDE DEF b
  <2>4. ForwardInfo(t, InfoOf(r, i)) = InfoFp(i.rd, r.val)
    BY <2>1, <2>2 DEF ForwardInfo, InfoInt, InfoFp
  <2>5. ~IsLoadOp(i) /\ i.op \notin Leaving /\ i.op \in {"fop", "fma"}
    BY <1>2 DEF FpOps, IsLoadOp, insn_is_load, insn_is_atomic, Leaving
  <2>6. b.priv = a.priv /\ r.kind \notin Leaving /\ r.kind # "sfence"
    BY <1>0, <2>1, <2>3 DEF Leaving
  <2>61. \A q \in Regs : (insn_is_fp_dest(i) /\ i.rd = q) \/ b.f[q] = c.f[q]
    <3>1. insn_is_fp_dest(i)
      BY <2>5 DEF insn_is_fp_dest, FpDest
    <3> QED BY <2>1, <2>2, <2>3, <3>1, DescribedKeeps
  <2>7. Effect(a, c, b, i, r, t)
    BY <2>1, <2>2, <2>3, <2>4, <2>5, <2>6, <2>61 DEF Effect
  <2> QED BY <2>7 DEF b
<1>3. CASE i.op \in {"load", "fload"} \cup Atomics
  <2>1. /\ r.kind = AccessKind(i.op) /\ r.rd = i.rd /\ r.next = a.pc + 1 /\ r.funct = i.op
        /\ InfoOf(r, i) = LoadInfo(i.op, i.rd, 0)
    BY <1>3, ExecLoad
  <2>2. r.kind \in {"Load", "FLoad"} \/ (r.kind = "Atomic" /\ r.funct \in Atomics)
    BY <1>3, <2>1 DEF AccessKind
  <2>3. PICK v : t = Loaded(r, v)
    BY <2>2, MemLoad
  <2>4. /\ t.kind = IF r.kind = "FLoad" THEN "WriteFp" ELSE "WriteInt"
        /\ t.rd = r.rd /\ t.val = v /\ t.flags = 0 /\ t.next = r.next
        /\ ForwardInfo(t, InfoOf(r, i)) = IF r.kind = "FLoad" THEN InfoFp(r.rd, v) ELSE InfoInt(r.rd, v)
    BY <2>3, LoadedIs
  <2>5. r.kind = "FLoad" <=> i.op = "fload"
    BY <2>1 DEF AccessKind
  <2>6. /\ IsArch(b) /\ CsrsSame(c, b) /\ b.priv = c.priv /\ b.pc = t.next
        /\ Describes(LoadInfo(i.op, i.rd, v), c, b)
    <3>1. CASE i.op = "fload"
      <4>1. t.kind = "WriteFp"
        BY <2>4, <2>5, <3>1
      <4>2. /\ IsArch(b) /\ CsrsSame(c, b) /\ b.priv = c.priv /\ b.pc = t.next
            /\ Describes(InfoFp(t.rd, t.val), c, b)
        BY <1>0, <1>00, <2>1, <2>4, <4>1, WbWriteFp
      <4> HIDE DEF b
      <4> QED BY <2>1, <2>4, <3>1, <4>2 DEF LoadInfo
    <3>2. CASE i.op # "fload"
      <4>1. t.kind = "WriteInt"
        BY <2>4, <2>5, <3>2
      <4>2. /\ IsArch(b) /\ CsrsSame(c, b) /\ b.priv = c.priv /\ b.pc = t.next
            /\ Describes(InfoInt(t.rd, t.val), c, b)
        BY <1>0, <1>00, <2>1, <2>4, <4>1, WbWriteInt
      <4> HIDE DEF b
      <4> QED BY <2>1, <2>4, <3>2, <4>2 DEF LoadInfo
    <3> QED BY <3>1, <3>2
  <2> HIDE DEF b
  <2>7. IsLoadOp(i) /\ i.op \notin Leaving
    BY <1>3 DEF IsLoadOp, insn_is_load, insn_is_atomic, Leaving, Atomics
  <2>8. /\ b.priv = a.priv /\ CsrsSame(a, b) /\ r.kind \notin Leaving /\ r.kind # "sfence"
        /\ t.kind \notin Leaving
    BY <1>0, <2>2, <2>4, <2>6 DEF CsrsSame, Leaving
  <2>9. /\ Describes(ForwardInfo(t, InfoOf(r, i)), c, b)
        /\ \E w : Describes(LoadInfo(i.op, i.rd, w), c, b)
    BY <2>1, <2>4, <2>5, <2>6 DEF LoadInfo
  <2>91. \A q \in Regs : (insn_is_fp_dest(i) /\ i.rd = q) \/ b.f[q] = c.f[q]
    <3>1. CASE i.op = "fload"
      <4>1. insn_is_fp_dest(i) /\ Describes(InfoFp(i.rd, v), c, b)
        BY <2>6, <3>1 DEF insn_is_fp_dest, FpDest, LoadInfo
      <4> QED BY <4>1, DescribedKeeps
    <3>2. CASE i.op # "fload"
      <4>1. Describes(InfoInt(i.rd, v), c, b)
        BY <2>6, <3>2 DEF LoadInfo
      <4> QED BY <4>1, DescribedKeeps
    <3> QED BY <3>1, <3>2
  <2>10. Effect(a, c, b, i, r, t)
    BY Zenon, <2>4, <2>6, <2>7, <2>8, <2>9, <2>91 DEF Effect
  <2> QED BY <2>10 DEF b
<1>4. CASE i.op = "csr"
  <2>1. /\ r.kind = "Csr" /\ r.rd = i.rd /\ r.csr = i.ext
        /\ Known(i.ext) => r.old = csr_read(a, i.ext)
        /\ InfoOf(r, i) = InfoInt(i.rd, r.old % W)
    BY <1>4, ExecCsr, IsArchIs
  <2>2. t = r
    BY <2>1, MemOther
  <2>3. csr_read(c, r.csr) = r.old /\ Known(t.csr)
    <3>1. r.csr \in {"fcsr", "mepc", "sepc"}
      BY <2>1, <2>2 DEF Known
    <3>2. csr_read(c, r.csr) = csr_read(a, r.csr)
      BY <1>0, <3>1 DEF csr_read, CsrsSame
    <3> QED BY <2>1, <2>2, <3>2
  <2>4. /\ IsArch(b) /\ b.priv = c.priv /\ b.pc = t.next
        /\ Describes(InfoInt(t.rd, csr_read(c, t.csr) % W), c, b)
    BY <1>0, <1>00, <2>1, <2>2, <2>3, WbCsr
  <2> HIDE DEF b
  <2>5. Describes(InfoOf(r, i), c, b)
    BY Zenon, <2>1, <2>2, <2>3, <2>4
  <2>6. ForwardInfo(t, InfoOf(r, i)) = InfoOf(r, i)
    BY <2>1, <2>2 DEF ForwardInfo, InfoInt, InfoFp
  <2>7. ~IsLoadOp(i) /\ i.op \notin Leaving
    BY <1>4 DEF IsLoadOp, insn_is_load, insn_is_atomic, Leaving
  <2>8. b.priv = a.priv /\ r.kind \notin Leaving /\ r.kind # "sfence"
    BY <1>0, <2>1, <2>4 DEF Leaving
  <2>81. \A q \in Regs : (insn_is_fp_dest(i) /\ i.rd = q) \/ b.f[q] = c.f[q]
    BY <2>4, DescribedKeeps
  <2>9. Effect(a, c, b, i, r, t)
    BY <1>4, <2>2, <2>4, <2>5, <2>6, <2>7, <2>8, <2>81 DEF Effect
  <2> QED BY <2>9 DEF b
<1>5. CASE i.op \in {"branch", "store", "fstore", "nop", "exit", "sfence"}
  <2>1. /\ i.op = "branch" => r.kind = "Jump"
        /\ i.op \in {"store", "fstore"} => r.kind = "Store" /\ r.next = a.pc + 1
        /\ i.op \in {"nop", "exit"} => r.kind = i.op
        /\ i.op = "sfence" => r.kind = i.op
        /\ Nothing(InfoOf(r, i))
    BY <1>5, ExecPlain DEF Traps
  <2>2. /\ i.op \in {"store", "fstore"} => t.kind = "Jump" /\ t.next = r.next
        /\ i.op \notin {"store", "fstore"} => t = r
    BY <1>5, <2>1, MemStore, MemOther
  <2>3. t.kind \in {"Jump", "nop", "exit", "sfence"}
    BY <1>5, <2>1, <2>2
  <2>4. /\ IsArch(b) /\ CsrsSame(c, b) /\ b.priv = c.priv /\ b.x = c.x /\ b.f = c.f
        /\ b.pc = IF t.kind = "sfence" THEN c.pc + 1 ELSE t.next
    BY <1>0, <2>3, WbPlain
  <2> HIDE DEF b
  <2>5. Nothing(ForwardInfo(t, InfoOf(r, i)))
    <3>1. CASE t.kind = "Jump"
      <4>1. ForwardInfo(t, InfoOf(r, i)) = [rd |-> 0, fp |-> FALSE, val |-> 0]
        BY <3>1 DEF ForwardInfo
      <4> QED BY <4>1 DEF Nothing
    <3>2. CASE t.kind # "Jump"
      <4>1. ForwardInfo(t, InfoOf(r, i)) = InfoOf(r, i)
        BY <2>3, <3>2 DEF ForwardInfo
      <4> QED BY <2>1, <4>1
    <3> QED BY <3>1, <3>2
  <2>6. Describes(InfoOf(r, i), c, b) /\ Describes(ForwardInfo(t, InfoOf(r, i)), c, b)
    BY <2>1, <2>4, <2>5, DescribesNone
  <2>7. ~IsLoadOp(i) /\ i.op \notin Leaving /\ t.kind \notin Leaving /\ r.kind \notin Leaving
    BY <1>5, <2>1, <2>3 DEF IsLoadOp, insn_is_load, insn_is_atomic, Leaving
  <2>8. /\ b.priv = a.priv /\ CsrsSame(a, b)
        /\ b.pc = IF r.kind = "sfence" THEN a.pc + 1 ELSE r.next
    BY <1>0, <1>5, <2>1, <2>2, <2>4 DEF CsrsSame
  <2>9. Effect(a, c, b, i, r, t)
    BY Zenon, <2>4, <2>6, <2>7, <2>8 DEF Effect
  <2> QED BY <2>9 DEF b
<1>6. CASE i.op \in Leaving
  <2>1. r.kind = i.op /\ Nothing(InfoOf(r, i))
    BY <1>6, ExecPlain DEF Traps, Leaving
  <2>2. t = r
    BY <1>6, <2>1, MemOther DEF Leaving
  <2>3. IsArch(b) /\ b.x = c.x /\ b.f = c.f
    BY <1>0, <1>6, <2>1, <2>2, WbLeaves
  <2> HIDE DEF b
  <2>4. ForwardInfo(t, InfoOf(r, i)) = InfoOf(r, i)
    BY <1>6, <2>1, <2>2 DEF ForwardInfo, Leaving
  <2>5. Describes(InfoOf(r, i), c, b)
    BY <2>1, <2>3, DescribesNone
  <2>6. ~IsLoadOp(i)
    BY <1>6 DEF IsLoadOp, insn_is_load, insn_is_atomic, Leaving
  <2>7. Effect(a, c, b, i, r, t)
    BY Zenon, <1>6, <2>1, <2>2, <2>3, <2>4, <2>5, <2>6 DEF Effect
  <2> QED BY <2>7 DEF b
<1>7. i.op # "ebreak"
  <2> SUFFICES ASSUME i.op = "ebreak" PROVE FALSE
    OBVIOUS
  <2>1. r.kind = "ebreak"
    BY ExecPlain DEF Traps
  <2>2. t = r
    BY <2>1, MemOther
  <2> QED BY <2>1, <2>2
<1> QED BY <1>00, <1>1, <1>2, <1>3, <1>4, <1>5, <1>6, <1>7 DEF Executable, IntOps, FpOps, Atomics, Leaving

-----------------------------------------------------------------------------
(* Operands. *)

\* Two executions of i agree when the operands it uses agree.
SameInputs(a, b, i, o, q) ==
    /\ a.priv = b.priv
    /\ i.op = "csr" => CsrsSame(a, b)
    /\ o.rs1 = q.rs1 /\ o.rs2 = q.rs2
    /\ i.op \in {"fop", "fma"} => o.frs1 = q.frs1
    /\ i.op \in {"fop", "fma", "fstore"} => o.frs2 = q.frs2
    /\ i.op = "fma" => read_f_bits(a, i, o, i.ext) = read_f_bits(b, i, q, i.ext)

LEMMA ExecuteSame ==
    ASSUME NEW a, NEW b, NEW i, NEW o, NEW q, NEW pc, i.op \in Executable, a.priv \in Modes,
           SameInputs(a, b, i, o, q)
    PROVE  execute(a, i, o, pc) = execute(b, i, q, pc)
<1>1. CASE i.op \in {"alu", "jal", "jalr", "branch"}
  BY <1>1 DEF execute, insn_is_atomic, SameInputs
<1>2. CASE i.op = "fop"
  BY <1>2 DEF execute, insn_is_atomic, SameInputs
<1>3. CASE i.op = "fma"
  BY <1>3 DEF execute, insn_is_atomic, SameInputs
<1>4. CASE i.op \in {"load", "fload", "amo", "lr", "sc"}
  BY <1>4 DEF execute, insn_is_atomic, SameInputs
<1>5. CASE i.op \in {"store", "fstore"}
  BY <1>5 DEF execute, insn_is_atomic, SameInputs
<1>6. CASE i.op = "csr"
  <2> DEFINE old(s) == IF Known(i.ext) THEN csr_read(s, i.ext) ELSE 0
             res(v) == [kind |-> "Csr", rd |-> i.rd, csr |-> i.ext, write |-> i.write,
                        operand |-> o.rs1, old |-> v, next |-> pc + 1]
  <2>1. old(a) = old(b)
    BY <1>6 DEF csr_read, CsrsSame, Known, SameInputs
  <2>2. Rank(a.priv) \in Nat /\ csr_priv(i.ext) \in Nat /\ b.priv = a.priv /\ q.rs1 = o.rs1
    BY DEF Rank, csr_priv, Modes, SameInputs
  <2>3. CASE Rank(a.priv) < csr_priv(i.ext)
    <3>1. execute(a, i, o, pc) = Fault("illegal")
      <4>1. ~(Rank(a.priv) >= csr_priv(i.ext))
        BY <2>2, <2>3
      <4> QED BY <1>6, <2>3, <4>1 DEF execute, insn_is_atomic
    <3>2. execute(b, i, q, pc) = Fault("illegal")
      <4>1. ~(Rank(b.priv) >= csr_priv(i.ext)) /\ Rank(b.priv) < csr_priv(i.ext)
        BY <2>2, <2>3
      <4> QED BY <1>6, <4>1 DEF execute, insn_is_atomic
    <3> QED BY <3>1, <3>2
  <2>4. CASE ~(Rank(a.priv) < csr_priv(i.ext))
    <3>1. execute(a, i, o, pc) = res(old(a))
      <4>1. Rank(a.priv) >= csr_priv(i.ext)
        BY <2>2, <2>4
      <4> QED BY <1>6, <2>4, <4>1 DEF execute, insn_is_atomic, Next1
    <3>2. execute(b, i, q, pc) = res(old(b))
      <4>1. Rank(b.priv) >= csr_priv(i.ext) /\ ~(Rank(b.priv) < csr_priv(i.ext))
        BY <2>2, <2>4
      <4> QED BY <1>6, <2>2, <4>1 DEF execute, insn_is_atomic, Next1
    <3> HIDE DEF old, res
    <3> QED BY <2>1, <3>1, <3>2
  <2> QED BY <2>3, <2>4
<1>7. CASE i.op \in {"nop", "exit", "ecall", "ebreak", "mret", "sret", "sfence"}
  BY <1>7 DEF execute, insn_is_atomic
<1> QED BY <1>1, <1>2, <1>3, <1>4, <1>5, <1>6, <1>7 DEF Executable

\* The newest result for register r of each file.
NewestInt(em, mw, r, v) ==
    IF em # None /\ em.fwd.fp = FALSE /\ em.fwd.rd = r /\ r # 0 /\ ~em.is_load THEN em.fwd.val
    ELSE IF mw # None /\ mw.fwd.fp = FALSE /\ mw.fwd.rd = r /\ r # 0 THEN mw.fwd.val ELSE v

NewestFp(em, mw, r, v) ==
    IF em # None /\ em.fwd.fp = TRUE /\ em.fwd.rd = r /\ ~em.is_load THEN em.fwd.val
    ELSE IF mw # None /\ mw.fwd.fp = TRUE /\ mw.fwd.rd = r THEN mw.fwd.val ELSE v

LEMMA ForwardingIs ==
    ASSUME NEW em, NEW mw, NEW de
    PROVE  LET i == decode(de.raw)
               o == compute_forwarding(em, mw, de)
           IN /\ o.rs1 = NewestInt(em, mw, insn_rs1(i), de.ops.rs1)
              /\ o.rs2 = NewestInt(em, mw, insn_rs2(i), de.ops.rs2)
              /\ o.frs1 = NewestFp(em, mw, insn_frs1(i), de.ops.frs1)
              /\ o.frs2 = NewestFp(em, mw, insn_frs2(i), de.ops.frs2)
<1> DEFINE i == decode(de.raw)
           o == compute_forwarding(em, mw, de)
<1>1. /\ o.rs1 = NewestInt(em, mw, insn_rs1(i), de.ops.rs1)
      /\ o.rs2 = NewestInt(em, mw, insn_rs2(i), de.ops.rs2)
  <2> HIDE DEF i
  <2> QED BY DEF compute_forwarding, NewestInt, i
<1>2. /\ o.frs1 = NewestFp(em, mw, insn_frs1(i), de.ops.frs1)
      /\ o.frs2 = NewestFp(em, mw, insn_frs2(i), de.ops.frs2)
  <2> HIDE DEF i
  <2> QED BY DEF compute_forwarding, NewestFp, i
<1> QED BY <1>1, <1>2

\* a is the state whose registers were read, s the state after mw has retired,
\* c the state in which em retires and b the state after that.
Flow(em, mw, a, s, c, b) ==
    /\ mw = None => s.x = a.x /\ s.f = a.f
    /\ mw # None => Describes(mw.fwd, a, s)
    /\ c.x = s.x /\ c.f = s.f
    /\ em = None => b.x = c.x /\ b.f = c.f
    /\ em # None /\ ~em.is_load => Describes(em.fwd, c, b)

LEMMA ForwardInt ==
    ASSUME NEW em, NEW mw, NEW a, NEW s, NEW c, NEW b, NEW r \in Regs,
           Flow(em, mw, a, s, c, b), em # None => em.is_load \in BOOLEAN,
           em # None /\ em.is_load => r = 0 \/ b.x[r] = c.x[r]
    PROVE  NewestInt(em, mw, r, read_x(a, r)) = read_x(b, r)
<1>1. CASE r = 0
  BY <1>1 DEF NewestInt, read_x
<1>2. CASE r # 0
  <2>1. read_x(a, r) = a.x[r] /\ read_x(b, r) = b.x[r]
    BY <1>2 DEF read_x
  <2>2. s.x[r] = IF mw # None /\ mw.fwd.fp = FALSE /\ mw.fwd.rd = r THEN mw.fwd.val ELSE a.x[r]
    BY <1>2 DEF Flow, Describes
  <2>3. CASE em # None /\ ~em.is_load
    <3>1. b.x[r] = IF em.fwd.fp = FALSE /\ em.fwd.rd = r THEN em.fwd.val ELSE s.x[r]
      BY <1>2, <2>3 DEF Flow, Describes
    <3> QED BY <1>2, <2>1, <2>2, <2>3, <3>1 DEF NewestInt
  <2>4. CASE em = None \/ em.is_load
    <3>1. b.x[r] = s.x[r]
      BY <1>2, <2>4 DEF Flow
    <3> QED BY <1>2, <2>1, <2>2, <2>4, <3>1 DEF NewestInt
  <2> QED BY <2>3, <2>4
<1> QED BY <1>1, <1>2

KeepsFp(em, c, b, r) ==
    em # None => em.is_load \in BOOLEAN /\ (em.is_load => b.f[r] = c.f[r])

IsForwarded(em, mw, a, b, r) == NewestFp(em, mw, r, a.f[r]) = b.f[r]

LEMMA ForwardFp ==
    ASSUME NEW em, NEW mw, NEW a, NEW s, NEW c, NEW b, NEW r \in Regs,
           Flow(em, mw, a, s, c, b), KeepsFp(em, c, b, r)
    PROVE  IsForwarded(em, mw, a, b, r)
<1>2. s.f[r] = IF mw # None /\ mw.fwd.fp = TRUE /\ mw.fwd.rd = r THEN mw.fwd.val ELSE a.f[r]
  BY DEF Flow, Describes
<1>3. CASE em # None /\ ~em.is_load
  <2>1. b.f[r] = IF em.fwd.fp = TRUE /\ em.fwd.rd = r THEN em.fwd.val ELSE s.f[r]
    BY <1>3 DEF Flow, Describes
  <2> QED BY <1>2, <1>3, <2>1 DEF NewestFp, IsForwarded
<1>4. CASE em = None \/ em.is_load
  <2>1. b.f[r] = s.f[r]
    BY <1>4 DEF Flow, KeepsFp
  <2> QED BY <1>2, <1>4, <2>1 DEF NewestFp, IsForwarded
<1> QED BY <1>3, <1>4 DEF KeepsFp

-----------------------------------------------------------------------------
(* One tick, seen from MEM and EX. *)

LEMMA Words ==
    ASSUME code \in Programs, NEW pc, Fetchable(code, pc), Decodes(code[pc]),
           NEW i, i = decode(code[pc])
    PROVE  /\ IsInsn(i) /\ i.rs1 \in Regs /\ i.rs2 \in Regs
           /\ i.op = "fma" => i.ext \in Regs
           /\ i.rs1 = code[pc][3] /\ i.rs2 = code[pc][4]
           /\ pc \in 0..(CodeSize - 1)
<1>1. IsWord(code[pc]) /\ pc \in 0..(CodeSize - 1)
  BY PipelineAssumption DEF Fetchable
<1>2. i.op # "illegal" /\ i.rs1 = code[pc][3] /\ i.rs2 = code[pc][4]
  BY DEF decode, Decodes
<1>3. {i.rd, i.rs1, i.rs2} \subseteq Regs /\ (i.op = "fma" => i.ext \in Regs)
  BY <1>1 DEF IsWord
<1>4. i.op \in Executable
  BY <1>1, <1>2 DEF IsWord, Executable
<1> QED BY <1>1, <1>2, <1>3, <1>4 DEF IsInsn

LEMMA Registers ==
    ASSUME NEW i, i.rs1 \in Regs, i.rs2 \in Regs
    PROVE  /\ insn_rs1(i) \in Regs /\ insn_rs2(i) \in Regs
           /\ insn_frs1(i) \in Regs /\ insn_frs2(i) \in Regs
           /\ insn_rs1(i) \in {0, i.rs1} /\ insn_rs2(i) \in {0, i.rs2}
           /\ i.op \in {"fop", "fma"} => insn_frs1(i) = i.rs1
           /\ i.op \in {"fop", "fma", "fstore"} => insn_frs2(i) = i.rs2
BY ConstantsAssumption DEF insn_rs1, insn_rs2, insn_frs1, insn_frs2

LEMMA WbStageIs ==
    ASSUME Basics, Running
    PROVE  /\ Oldest = mem_wb /\ stage_wb = retired /\ StayWb
           /\ mem_wb = None => retired = arch
<1>1. pending_mem_wb = None /\ Oldest = mem_wb
  BY DEF Basics, Running, Oldest
<1>2. stage_wb = retired /\ (mem_wb = None => retired = arch)
  BY <1>1 DEF Basics, stage_wb, Retired
<1>3. StayWb
  BY <1>1 DEF StayWb, Running, Squashes, Leaving
<1> QED BY <1>1, <1>2, <1>3

\* The state the program sees after this tick.
After == IF ex_mem = None THEN retired ELSE writeback(mem_stage.arch, mem_stage.reg.res)

\* WB will take no trap for what leaves MEM now.
Retires == mem_stage.reg # None => /\ mem_stage.reg.res.kind # "ebreak"
                                   /\ mem_stage.reg.res.kind = "Csr" => Known(mem_stage.reg.res.csr)

LEMMA MemRetires ==
    ASSUME Basics, Chain, Running, Faultless, Retires, ex_mem # None,
           NEW i, i = decode(code[retired.pc])
    PROVE  /\ ex_mem.pc = retired.pc /\ Fetchable(code, retired.pc) /\ Decodes(code[retired.pc])
           /\ IsInsn(i)
           /\ ex_mem.res = execute(retired, i, ReadOperands(retired, i), retired.pc)
           /\ ex_mem.res.kind # "Err" /\ MemResult.res.kind # "Err"
           /\ ex_mem.is_load = IsLoadOp(i) /\ ex_mem.fwd = InfoOf(ex_mem.res, i)
           /\ MemResult = memory_stage(ex_mem.res, mem, retired.resv)
           /\ mem_stage.reg = [pc |-> retired.pc, res |-> MemResult.res,
                               fwd |-> ForwardInfo(MemResult.res, InfoOf(ex_mem.res, i))]
           /\ mem_stage.mem = MemResult.mem
           /\ mem_stage.arch = WithResv(retired, MemResult.resv)
           /\ mem_stage.fetch = WbFetch
           /\ After = writeback(mem_stage.arch, MemResult.res)
           /\ Effect(retired, mem_stage.arch, After, i, ex_mem.res, MemResult.res)
<1>1. stage_wb = retired /\ StayWb
  BY WbStageIs
<1>2. Executed(ex_mem, retired)
  BY <1>1 DEF Chain, InMem
<1> DEFINE r == execute(retired, i, ReadOperands(retired, i), retired.pc)
<1>3. Fetchable(code, retired.pc) /\ Decodes(code[retired.pc]) /\ r.kind # "Err"
      /\ ex_mem = [pc |-> retired.pc, res |-> r, is_load |-> insn_is_load(i) \/ insn_is_atomic(i),
                   fwd |-> InfoOf(r, i)]
  BY Zenon, <1>2 DEF Executed
<1>4. /\ ex_mem.pc = retired.pc /\ ex_mem.res = r /\ ex_mem.fwd = InfoOf(r, i)
      /\ ex_mem.is_load = IsLoadOp(i)
  <2> DEFINE w == InfoOf(r, i)
             l == insn_is_load(i) \/ insn_is_atomic(i)
  <2>1. ex_mem = [pc |-> retired.pc, res |-> r, is_load |-> l, fwd |-> w]
    BY Zenon, <1>3
  <2> HIDE DEF r, w, l
  <2>2. ex_mem.pc = retired.pc /\ ex_mem.res = r /\ ex_mem.fwd = w /\ ex_mem.is_load = l
    BY <2>1
  <2> QED BY Zenon, <2>2 DEF w, l, IsLoadOp
<1>5. MemResult = memory_stage(ex_mem.res, mem, retired.resv)
  BY <1>1 DEF MemResult
<1>6. MemResult.res.kind # "Err"
  BY Zenon, MemStageIs DEF Faultless
<1>7. /\ mem_stage.reg = [pc |-> retired.pc, res |-> MemResult.res,
                          fwd |-> ForwardInfo(MemResult.res, InfoOf(ex_mem.res, i))]
      /\ mem_stage.mem = MemResult.mem
      /\ mem_stage.arch = WithResv(retired, MemResult.resv)
      /\ mem_stage.fetch = WbFetch
  <2> HIDE DEF r
  <2> QED BY Zenon, <1>1, <1>4, <1>6, MemStageIs DEF WithResv
<1>8. mem_stage.reg # None /\ mem_stage.reg.res = MemResult.res
  <2> DEFINE t == MemResult.res
             w == ForwardInfo(MemResult.res, InfoOf(ex_mem.res, i))
  <2>1. mem_stage.reg = [pc |-> retired.pc, res |-> t, fwd |-> w]
    BY Zenon, <1>7
  <2> HIDE DEF t, w
  <2>2. mem_stage.reg # None /\ mem_stage.reg.res = t
    BY <2>1, NotNone
  <2> QED BY <2>2 DEF t
<1>9. MemResult.res.kind # "ebreak" /\ (MemResult.res.kind = "Csr" => Known(MemResult.res.csr))
  BY Zenon, <1>8 DEF Retires
<1>10. After = writeback(mem_stage.arch, MemResult.res)
  BY Zenon, <1>8 DEF After
<1>11. IsInsn(i) /\ IsArch(retired)
  BY <1>3, Words DEF Basics
<1>12. Effect(retired, mem_stage.arch, After, i, ex_mem.res, MemResult.res)
  <2> DEFINE o == ReadOperands(retired, i)
  <2>1. ex_mem.res = execute(retired, i, o, retired.pc) /\ ex_mem.res.kind # "Err"
    BY Zenon, <1>3, <1>4
  <2> HIDE DEF o, r
  <2>2. Effect(retired, mem_stage.arch, writeback(mem_stage.arch, MemResult.res), i, ex_mem.res, MemResult.res)
    BY <1>5, <1>6, <1>7, <1>9, <1>11, <2>1, EffectIs
  <2> QED BY Zenon, <1>10, <2>2
<1> QED BY Zenon, <1>3, <1>4, <1>5, <1>6, <1>7, <1>10, <1>11, <1>12

\* EX gets the operands of the state in which everything ahead has retired.
LEMMA ExForwards ==
    ASSUME Basics, Latches, Chain, LoadsApart, Running, Faultless, Unexposed, Retires,
           StayMem, id_ex # None, NEW i, i = decode(id_ex.raw)
    PROVE  /\ ExResult = execute(After, i, ReadOperands(After, i), id_ex.pc)
           /\ IsInsn(i)
<1> DEFINE o == compute_forwarding(ex_mem, mem_wb, id_ex)
           q == ReadOperands(After, i)
           ei == decode(code[retired.pc])
           c == mem_stage.arch
<1>1. /\ Oldest = mem_wb /\ stage_wb = retired /\ (mem_wb = None => retired = arch)
  BY WbStageIs
<1>2. /\ IsInsn(i) /\ i.rs1 \in Regs /\ i.rs2 \in Regs /\ (i.op = "fma" => i.ext \in Regs)
      /\ i.rs1 = id_ex.raw[3] /\ i.rs2 = id_ex.raw[4]
  <2>1. IsLatch(id_ex) /\ Decodes(id_ex.raw)
    BY DEF Latches
  <2>2. id_ex.raw = code[id_ex.pc] /\ Fetchable(code, id_ex.pc)
    BY <2>1 DEF IsLatch
  <2> QED BY <2>1, <2>2, Words DEF Basics
<1>3. id_ex.ops = ReadOperands(arch, i)
  BY DEF Chain, InEx
<1>4. /\ id_ex.ops.rs1 = read_x(arch, insn_rs1(i)) /\ id_ex.ops.rs2 = read_x(arch, insn_rs2(i))
      /\ id_ex.ops.frs1 = arch.f[insn_frs1(i)] /\ id_ex.ops.frs2 = arch.f[insn_frs2(i)]
  BY <1>3 DEF ReadOperands
<1>5. /\ q.rs1 = read_x(After, insn_rs1(i)) /\ q.rs2 = read_x(After, insn_rs2(i))
      /\ q.frs1 = After.f[insn_frs1(i)] /\ q.frs2 = After.f[insn_frs2(i)]
  BY DEF ReadOperands
<1>6. ex_mem # None =>
        /\ ex_mem.pc = retired.pc /\ IsInsn(ei)
        /\ ex_mem.is_load = IsLoadOp(ei) /\ ex_mem.fwd = InfoOf(ex_mem.res, ei)
        /\ c = WithResv(retired, MemResult.resv)
        /\ Effect(retired, c, After, ei, ex_mem.res, MemResult.res)
        /\ ei.op \notin Leaving
  <2> SUFFICES ASSUME ex_mem # None
               PROVE  /\ ex_mem.pc = retired.pc /\ IsInsn(ei)
                      /\ ex_mem.is_load = IsLoadOp(ei) /\ ex_mem.fwd = InfoOf(ex_mem.res, ei)
                      /\ c = WithResv(retired, MemResult.resv)
                      /\ Effect(retired, c, After, ei, ex_mem.res, MemResult.res)
                      /\ ei.op \notin Leaving
    OBVIOUS
  <2>1. /\ ex_mem.pc = retired.pc /\ IsInsn(ei)
        /\ ex_mem.is_load = IsLoadOp(ei) /\ ex_mem.fwd = InfoOf(ex_mem.res, ei)
        /\ c = WithResv(retired, MemResult.resv)
        /\ Effect(retired, c, After, ei, ex_mem.res, MemResult.res)
    BY Zenon, MemRetires
  <2>2. ei.op \notin Leaving
    BY Zenon, <2>1 DEF Effect, StayMem
  <2> QED BY <2>1, <2>2
<1>7. ex_mem = None => c = retired /\ After = retired
  BY <1>1, MemStageIs DEF After
<1>8. c.x = retired.x /\ c.f = retired.f /\ c.priv = retired.priv /\ CsrsSame(retired, c)
  <2>1. CASE ex_mem = None
    BY <1>7, <2>1 DEF CsrsSame
  <2>2. CASE ex_mem # None
    <3> HIDE DEF c
    <3> QED BY <1>6, <2>2, WithResvIs DEF Basics
  <2> QED BY <2>1, <2>2
<1> HIDE DEF o, q, ei, c
<1>9. Flow(ex_mem, mem_wb, arch, retired, c, After)
  <2>1. mem_wb = None => retired.x = arch.x /\ retired.f = arch.f
    BY <1>1
  <2>2. mem_wb # None => Describes(mem_wb.fwd, arch, retired)
    BY <1>1 DEF Chain, InWb
  <2>3. ex_mem = None => After.x = c.x /\ After.f = c.f
    BY <1>7
  <2>4. ex_mem # None /\ ~ex_mem.is_load => Describes(ex_mem.fwd, c, After)
    BY Zenon, <1>6 DEF Effect
  <2> QED BY Zenon, <1>8, <2>1, <2>2, <2>3, <2>4 DEF Flow
<1>10. ex_mem # None => ex_mem.is_load \in BOOLEAN
  <2>1. IsLoadOp(ei) \in BOOLEAN
    BY DEF IsLoadOp, insn_is_load, insn_is_atomic
  <2> QED BY Zenon, <1>6, <2>1
<1>11. ASSUME ex_mem # None, ex_mem.is_load
       PROVE  /\ \A r \in Regs : r = 0 \/ r \notin {i.rs1, i.rs2} \/ After.x[r] = c.x[r]
              /\ \A r \in Regs : r \notin {i.rs1, i.rs2} \/ After.f[r] = c.f[r]
  <2>1. IsLoadOp(ei)
    BY Zenon, <1>6, <1>11
  <2>2. PICK v : Describes(LoadInfo(ei.op, ei.rd, v), c, After)
    BY Zenon, <1>6, <1>11, <2>1 DEF Effect
  <2>3. CASE ei.op = "fload"
    <3>1. Describes(InfoFp(ei.rd, v), c, After)
      BY Zenon, <2>2, <2>3 DEF LoadInfo
    <3>2. ei.rd \notin {i.rs1, i.rs2}
      <4>1. insn_is_load(ei) /\ insn_is_fp_dest(ei) /\ insn_rd(ei) = ei.rd
        BY <2>3 DEF insn_is_load, insn_is_fp_dest, insn_rd, FpDest
      <4>2. insn_rd(ei) \notin {id_ex.raw[3], id_ex.raw[4]}
        BY Zenon, <1>6, <1>11, <4>1 DEF LoadsApart, ei
      <4> QED BY <1>2, <4>1, <4>2
    <3> QED BY <3>1, <3>2, DescribedKeeps
  <2>4. CASE ei.op # "fload"
    <3>1. Describes(InfoInt(ei.rd, v), c, After)
      BY Zenon, <2>2, <2>4 DEF LoadInfo
    <3>2. ei.rd = 0 \/ ei.rd \notin {i.rs1, i.rs2}
      <4>1. CASE ei.op = "load"
        <5>1. insn_is_load(ei) /\ insn_rd(ei) = ei.rd
          BY <4>1 DEF insn_is_load, insn_rd, IntDest
        <5>2. insn_rd(ei) # 0 => insn_rd(ei) \notin {id_ex.raw[3], id_ex.raw[4]}
          BY Zenon, <1>6, <1>11, <5>1 DEF LoadsApart, ei
        <5> QED BY <1>2, <5>1, <5>2
      <4>2. CASE ei.op \in {"amo", "lr", "sc"}
        <5>1. ~Exposed(ei, i)
          BY Zenon, <1>6, <1>11 DEF Unexposed, ei
        <5> QED BY <4>2, <5>1 DEF Exposed
      <4> QED BY <2>1, <2>4, <4>1, <4>2 DEF IsLoadOp, insn_is_load, insn_is_atomic
    <3> QED BY <3>1, <3>2, DescribedKeeps
  <2> QED BY <2>3, <2>4
<1>12. /\ insn_rs1(i) \in Regs /\ insn_rs2(i) \in Regs
       /\ insn_frs1(i) \in Regs /\ insn_frs2(i) \in Regs
       /\ insn_rs1(i) \in {0, i.rs1} /\ insn_rs2(i) \in {0, i.rs2}
       /\ i.op \in {"fop", "fma"} => insn_frs1(i) = i.rs1
       /\ i.op \in {"fop", "fma", "fstore"} => insn_frs2(i) = i.rs2
  BY <1>2, Registers
<1>13. /\ o.rs1 = NewestInt(ex_mem, mem_wb, insn_rs1(i), id_ex.ops.rs1)
       /\ o.rs2 = NewestInt(ex_mem, mem_wb, insn_rs2(i), id_ex.ops.rs2)
       /\ o.frs1 = NewestFp(ex_mem, mem_wb, insn_frs1(i), id_ex.ops.frs1)
       /\ o.frs2 = NewestFp(ex_mem, mem_wb, insn_frs2(i), id_ex.ops.frs2)
  BY ForwardingIs DEF o
<1>14. o.rs1 = q.rs1 /\ o.rs2 = q.rs2
  <2>1. /\ ex_mem # None /\ ex_mem.is_load =>
             insn_rs1(i) = 0 \/ After.x[insn_rs1(i)] = c.x[insn_rs1(i)]
        /\ ex_mem # None /\ ex_mem.is_load =>
             insn_rs2(i) = 0 \/ After.x[insn_rs2(i)] = c.x[insn_rs2(i)]
    BY <1>11, <1>12
  <2>2. NewestInt(ex_mem, mem_wb, insn_rs1(i), read_x(arch, insn_rs1(i))) = read_x(After, insn_rs1(i))
    BY <1>9, <1>10, <1>12, <2>1, ForwardInt
  <2>3. NewestInt(ex_mem, mem_wb, insn_rs2(i), read_x(arch, insn_rs2(i))) = read_x(After, insn_rs2(i))
    BY <1>9, <1>10, <1>12, <2>1, ForwardInt
  <2> QED BY Zenon, <1>4, <1>5, <1>13, <2>2, <2>3
<1>15. i.op \in {"fop", "fma"} => o.frs1 = q.frs1
  <2> SUFFICES ASSUME i.op \in {"fop", "fma"} PROVE o.frs1 = q.frs1
    OBVIOUS
  <2>1. ex_mem # None /\ ex_mem.is_load => After.f[insn_frs1(i)] = c.f[insn_frs1(i)]
    BY <1>11, <1>12
  <2> DEFINE k == insn_frs1(i)
  <2>3. k \in Regs /\ KeepsFp(ex_mem, c, After, k)
    BY Zenon, <1>10, <1>12, <2>1 DEF KeepsFp
  <2> HIDE DEF k
  <2>4. IsForwarded(ex_mem, mem_wb, arch, After, k)
    BY <1>9, <2>3, ForwardFp
  <2>2. NewestFp(ex_mem, mem_wb, insn_frs1(i), arch.f[insn_frs1(i)]) = After.f[insn_frs1(i)]
    BY Zenon, <2>4 DEF k, IsForwarded
  <2> QED BY Zenon, <1>4, <1>5, <1>13, <2>2
<1>16. i.op \in {"fop", "fma", "fstore"} => o.frs2 = q.frs2
  <2> SUFFICES ASSUME i.op \in {"fop", "fma", "fstore"} PROVE o.frs2 = q.frs2
    OBVIOUS
  <2>1. ex_mem # None /\ ex_mem.is_load => After.f[insn_frs2(i)] = c.f[insn_frs2(i)]
    BY <1>11, <1>12
  <2> DEFINE k == insn_frs2(i)
  <2>3. k \in Regs /\ KeepsFp(ex_mem, c, After, k)
    BY Zenon, <1>10, <1>12, <2>1 DEF KeepsFp
  <2> HIDE DEF k
  <2>4. IsForwarded(ex_mem, mem_wb, arch, After, k)
    BY <1>9, <2>3, ForwardFp
  <2>2. NewestFp(ex_mem, mem_wb, insn_frs2(i), arch.f[insn_frs2(i)]) = After.f[insn_frs2(i)]
    BY Zenon, <2>4 DEF k, IsForwarded
  <2> QED BY Zenon, <1>4, <1>5, <1>13, <2>2
<1>17. i.op = "fma" => read_f_bits(c, i, o, i.ext) = read_f_bits(After, i, q, i.ext)
  <2> SUFFICES ASSUME i.op = "fma" PROVE read_f_bits(c, i, o, i.ext) = read_f_bits(After, i, q, i.ext)
    OBVIOUS
  <2>1. After.f[i.ext] = c.f[i.ext]
    <3>1. CASE ex_mem = None
      BY <1>7, <3>1
    <3>2. CASE ex_mem # None
      <4>1. ~Exposed(ei, i)
        BY Zenon, <1>6, <3>2 DEF Unexposed, ei
      <4>2. ~(insn_is_fp_dest(ei) /\ ei.rd = i.ext)
        BY Zenon, <4>1 DEF Exposed
      <4>3. i.ext \in Regs
        BY <1>2
      <4> QED BY Zenon, <1>6, <3>2, <4>2, <4>3 DEF Effect
    <3> QED BY <3>1, <3>2
  <2>2. o.frs1 = q.frs1 /\ o.frs2 = q.frs2
    BY <1>15, <1>16
  <2> QED BY <2>1, <2>2 DEF read_f_bits
<1>18. c.priv = After.priv /\ (i.op = "csr" => CsrsSame(c, After))
  <2>1. CASE ex_mem = None
    BY <1>7, <2>1 DEF CsrsSame
  <2>2. CASE ex_mem # None
    <3>1. After.priv = retired.priv
      BY Zenon, <1>6, <2>2 DEF Effect
    <3>2. i.op = "csr" => CsrsSame(retired, After)
      <4>1. ~Exposed(ei, i)
        BY Zenon, <1>6, <2>2 DEF Unexposed, ei
      <4>2. i.op = "csr" => ei.op \notin {"csr", "fop", "fma"}
        BY Zenon, <4>1 DEF Exposed
      <4>3. ei.op \notin Leaving \cup {"csr", "fop", "fma"} => CsrsSame(retired, After)
        BY Zenon, <1>6, <2>2 DEF Effect
      <4> QED BY <1>6, <2>2, <4>2, <4>3
    <3> QED BY <1>8, <3>1, <3>2 DEF CsrsSame
  <2> QED BY <2>1, <2>2
<1>19. SameInputs(c, After, i, o, q)
  BY Zenon, <1>14, <1>15, <1>16, <1>17, <1>18 DEF SameInputs
<1>20. c.priv \in Modes /\ i.op \in Executable
  BY <1>2, <1>8, IsArchIs DEF Basics, IsInsn
<1>21. execute(c, i, o, id_ex.pc) = execute(After, i, q, id_ex.pc)
  BY <1>19, <1>20, ExecuteSame
<1> QED BY Zenon, <1>2, <1>21 DEF ExResult, c, o, q

-----------------------------------------------------------------------------
(* Prediction. *)

ExReg(l, r, i) == [pc |-> l.pc, res |-> r, is_load |-> insn_is_load(i) \/ insn_is_atomic(i),
                   fwd |-> InfoOf(r, i)]

LEMMA ExRegIs ==
    ASSUME NEW l, NEW r, NEW i
    PROVE  /\ ExReg(l, r, i) # None /\ ExReg(l, r, i).pc = l.pc /\ ExReg(l, r, i).res = r
           /\ NextOf(ExReg(l, r, i)) = IF r.kind \in {"sfence", "ebreak"} THEN l.pc + 1 ELSE r.next
<1> DEFINE p == insn_is_load(i) \/ insn_is_atomic(i)
           w == InfoOf(r, i)
           e == ExReg(l, r, i)
<1>1. e = [pc |-> l.pc, res |-> r, is_load |-> p, fwd |-> w]
  BY Zenon DEF ExReg
<1> HIDE DEF p, w, e
<1>2. e # None /\ e.pc = l.pc /\ e.res = r
  BY <1>1, NotNone
<1>3. NextOf(e) = IF r.kind \in {"sfence", "ebreak"} THEN l.pc + 1 ELSE r.next
  BY Zenon, <1>2 DEF NextOf
<1> QED BY Zenon, <1>2, <1>3 DEF e

Jumps == {"jal", "jalr", "branch"}

\* Only jumps are resolved, the others go on with the next word.
LEMMA PlainNext ==
    ASSUME NEW a, NEW i, NEW ops, NEW pc, IsInsn(i), a.priv \in Modes,
           NEW r, r = execute(a, i, ops, pc), r.kind # "Err", i.op \notin Jumps
    PROVE  /\ ~IsBranch(r, pc)
           /\ i.op \notin Leaving =>
                (IF r.kind \in {"sfence", "ebreak"} THEN pc + 1 ELSE r.next) = pc + 1
<1>1. i.op \in Executable
  BY DEF IsInsn
<1>2. CASE i.op = "alu"
  <2>1. r.kind = "WriteInt" /\ r.next = pc + 1
    BY <1>2, ExecInt DEF IntOps
  <2> QED BY <2>1 DEF IsBranch
<1>3. CASE i.op \in FpOps
  <2>1. r.kind = "WriteFp" /\ r.next = pc + 1
    BY <1>3, ExecFp
  <2> QED BY <2>1 DEF IsBranch
<1>4. CASE i.op \in {"load", "fload"} \cup Atomics
  <2>1. r.kind = AccessKind(i.op) /\ r.next = pc + 1
    BY <1>4, ExecLoad
  <2>2. r.kind \in {"Load", "FLoad", "Atomic"}
    BY <2>1 DEF AccessKind
  <2> QED BY <2>1, <2>2 DEF IsBranch
<1>5. CASE i.op = "csr"
  <2>1. r.kind = "Csr" /\ r.next = pc + 1
    BY <1>5, ExecCsr
  <2> QED BY <2>1 DEF IsBranch
<1>6. CASE i.op \in {"store", "fstore", "nop", "exit"} \cup Traps
  <2>1. /\ i.op \in {"store", "fstore"} => r.kind = "Store" /\ r.next = pc + 1
        /\ i.op \in {"nop", "exit"} => r.kind = i.op /\ r.next = pc + 1
        /\ i.op \in Traps => r.kind = i.op
    BY <1>6, ExecPlain
  <2> QED BY <1>6, <2>1 DEF IsBranch, Traps, Leaving
<1> QED BY <1>1, <1>2, <1>3, <1>4, <1>5, <1>6 DEF Executable, Jumps, FpOps, Atomics, Traps

LEMMA JumpNext ==
    ASSUME NEW a, NEW i, NEW ops, NEW pc, NEW r, r = execute(a, i, ops, pc), i.op \in Jumps
    PROVE  /\ i.op = "branch" => r.kind = "Jump"
           /\ i.op # "branch" => r.kind = "WriteInt"
           /\ i.op = "jal" => r.next = i.ext
<1>1. CASE i.op = "branch"
  BY <1>1, ExecPlain DEF Traps
<1>2. CASE i.op \in {"jal", "jalr"}
  BY <1>2, ExecInt DEF IntOps
<1> QED BY <1>1, <1>2 DEF Jumps

\* What EX does not flush was predicted right.
LEMMA PredictedRight ==
    ASSUME code \in Programs, NEW l, IsLatch(l), Decodes(l.raw), NEW i, i = decode(l.raw),
           NEW a, NEW ops, a.priv \in Modes, NEW r, r = execute(a, i, ops, l.pc), r.kind # "Err",
           i.op \notin Leaving,
           i.op = "jalr" /\ r.next = l.pc + 1 => Predicted(l) = l.pc + 1,
           ~(IsBranch(r, l.pc) /\ (~l.taken \/ r.next # l.target))
    PROVE  (IF r.kind \in {"sfence", "ebreak"} THEN l.pc + 1 ELSE r.next) = Predicted(l)
<1>1. /\ IsInsn(i) /\ l.taken \in BOOLEAN /\ Learnt(l.raw, l.pc, l.target)
  BY Words DEF IsLatch
<1>2. CASE i.op \notin Jumps
  <2>1. (IF r.kind \in {"sfence", "ebreak"} THEN l.pc + 1 ELSE r.next) = l.pc + 1
    BY <1>1, <1>2, PlainNext
  <2>2. l.target = l.pc + 1
    BY <1>1, <1>2 DEF Learnt, Jumps
  <2>3. Predicted(l) = l.pc + 1
    BY <2>2 DEF Predicted
  <2> QED BY <2>1, <2>3
<1>3. CASE i.op \in Jumps
  <2>1. /\ i.op = "branch" => r.kind = "Jump"
        /\ i.op # "branch" => r.kind = "WriteInt"
        /\ i.op = "jal" => r.next = i.ext
    BY <1>3, JumpNext
  <2>2. r.kind \notin {"sfence", "ebreak"}
    BY <2>1
  <2>3. CASE IsBranch(r, l.pc)
    <3>1. l.taken /\ r.next = l.target
      BY Zenon, <2>3
    <3>2. Predicted(l) = r.next
      BY Zenon, <3>1 DEF Predicted
    <3> QED BY <2>2, <3>2
  <2>4. CASE ~IsBranch(r, l.pc)
    <3>1. r.next = l.pc + 1 /\ i.op \in {"jal", "jalr"}
      BY <1>3, <2>1, <2>4 DEF IsBranch, Jumps
    <3>2. Predicted(l) = l.pc + 1
      <4>1. CASE i.op = "jal"
        <5>1. l.target = l.pc + 1
          BY <1>1, <2>1, <3>1, <4>1 DEF Learnt
        <5> QED BY <5>1 DEF Predicted
      <4> QED BY <3>1, <4>1
    <3> QED BY <2>2, <3>1, <3>2
  <2> QED BY <2>3, <2>4
<1> QED BY <1>2, <1>3

\* The predictor learns targets of jumps only.
LearnedBy(p) ==
    /\ p = [pht |-> p.pht, btb |-> p.btb]
    /\ p.btb = [q \in 0..(CodeSize - 1) |-> p.btb[q]]
    /\ \A q \in 0..(CodeSize - 1) : Learnt(code[q], q, p.btb[q])

LEMMA LearnedInit == LearnedBy(NoBranches)
<1> DEFINE btb == [p \in 0..(CodeSize - 1) |-> p + 1]
           pht == [k \in 0..(PhtSize - 1) |-> 1]
<1>1. \A q \in 0..(CodeSize - 1) : btb[q] = q + 1
  OBVIOUS
<1>2. btb = [q \in 0..(CodeSize - 1) |-> btb[q]]
  BY <1>1
<1> HIDE DEF btb, pht
<1>3. NoBranches = [pht |-> pht, btb |-> btb]
  BY DEF NoBranches, pht, btb
<1>4. NoBranches.btb = btb /\ NoBranches.pht = pht
  BY <1>3
<1>5. NoBranches = [pht |-> NoBranches.pht, btb |-> NoBranches.btb]
  BY Zenon, <1>3, <1>4
<1> QED BY Zenon, <1>1, <1>2, <1>4, <1>5 DEF LearnedBy, Learnt

LEMMA LearnedUpdate ==
    ASSUME NEW p, LearnedBy(p), NEW pc \in 0..(CodeSize - 1), NEW t, Learnt(code[pc], pc, t)
    PROVE  LearnedBy(update(p, pc, t))
<1> DEFINE h == [p.pht EXCEPT ![pc % PhtSize] = IF @ < 3 THEN @ + 1 ELSE @]
           g == [p.btb EXCEPT ![pc] = t]
           u == update(p, pc, t)
<1>1. p = [pht |-> p.pht, btb |-> p.btb]
  BY DEF LearnedBy
<1>2. u = [[p EXCEPT !.pht = h] EXCEPT !.btb = g]
  <2>1. u = [p EXCEPT !.pht[pc % PhtSize] = IF @ < 3 THEN @ + 1 ELSE @, !.btb[pc] = t]
    BY DEF update
  <2>2. [p EXCEPT !.pht = h].btb = p.btb
    <3> HIDE DEF h
    <3> QED BY <1>1
  <2> QED BY Zenon, <2>1, <2>2
<1> HIDE DEF h, u
<1>3. u = [pht |-> h, btb |-> g]
  <2> HIDE DEF g
  <2> QED BY <1>1, <1>2
<1>4. \A q \in 0..(CodeSize - 1) : g[q] = IF q = pc THEN t ELSE p.btb[q]
  BY DEF LearnedBy
<1>5. g = [q \in 0..(CodeSize - 1) |-> g[q]]
  <2>1. g = [q \in 0..(CodeSize - 1) |-> IF q = pc THEN t ELSE p.btb[q]]
    BY DEF LearnedBy
  <2> QED BY <2>1, <1>4
<1> HIDE DEF g
<1>6. u.btb = g /\ u.pht = h
  BY <1>3
<1>7. u = [pht |-> u.pht, btb |-> u.btb]
  BY Zenon, <1>3, <1>6
<1>8. \A q \in 0..(CodeSize - 1) : Learnt(code[q], q, g[q])
  BY Zenon, <1>4 DEF LearnedBy
<1>9. LearnedBy(u)
  BY Zenon, <1>5, <1>6, <1>7, <1>8 DEF LearnedBy
<1> QED BY <1>9 DEF u

LEMMA LearnedWb == Learned => LearnedBy(WbPredictor)
BY LearnedInit DEF Learned, LearnedBy, WbPredictor

-----------------------------------------------------------------------------
(* A tick in which no stage faults. *)

LEMMA FrontIs ==
    ASSUME Basics, Running, Faultless
    PROVE  /\ WbFetch = fetch_pc /\ mem_stage.fetch = fetch_pc
           /\ ex_stage.arch = mem_stage.arch /\ ex_stage.fetch = fetch_pc
           /\ id_stage.arch = mem_stage.arch /\ id_stage.fetch = fetch_pc
           /\ if_stage.arch = mem_stage.arch
           /\ id_ex = None => ex_stage.reg = None /\ ex_stage.branch = FALSE /\ ex_stage.flush = FALSE
           /\ id_ex # None =>
                /\ ExResult.kind # "Err"
                /\ ex_stage.reg = ExReg(id_ex, ExResult, decode(id_ex.raw))
                /\ ex_stage.branch = IsBranch(ExResult, id_ex.pc)
                /\ ex_stage.flush = (/\ IsBranch(ExResult, id_ex.pc)
                                     /\ ~id_ex.taken \/ ExResult.next # id_ex.target)
           /\ ex_stage.flush \/ stall \/ if_id = None => id_stage.reg = None
           /\ ~ex_stage.flush /\ ~stall /\ if_id # None =>
                /\ Decodes(if_id.raw)
                /\ id_stage.reg = WithOps(if_id, ReadOperands(mem_stage.arch, decode(if_id.raw)))
           /\ stall \/ returning => if_stage.reg = if_id /\ if_stage.fetch = fetch_pc
           /\ ~stall /\ ~returning /\ ex_stage.flush =>
                if_stage.reg = None /\ if_stage.fetch = ex_stage.reg.res.next
           /\ ~stall /\ ~returning /\ ~ex_stage.flush =>
                /\ Fetchable(code, fetch_pc)
                /\ if_stage.reg = Latch(fetch_pc, predict(new_predictor, fetch_pc))
                /\ if_stage.fetch = Predicted(if_stage.reg)
<1>1. WbFetch = fetch_pc
  BY Zenon DEF WbFetch, Faultless
<1>2. mem_stage.fetch = fetch_pc
  <2>1. CASE ex_mem = None
    BY Zenon, <1>1, <2>1, MemStageIs
  <2>2. CASE ex_mem # None
    BY Zenon, <1>1, <2>2, MemStageIs DEF Faultless
  <2> QED BY <2>1, <2>2
<1>3. id_ex = None => ex_stage.reg = None /\ ex_stage.branch = FALSE /\ ex_stage.flush = FALSE
                      /\ ex_stage.arch = mem_stage.arch /\ ex_stage.fetch = mem_stage.fetch
  BY Zenon, ExStageIs
<1>4. id_ex # None =>
        /\ ExResult.kind # "Err"
        /\ ex_stage.reg = ExReg(id_ex, ExResult, decode(id_ex.raw))
        /\ ex_stage.branch = IsBranch(ExResult, id_ex.pc)
        /\ ex_stage.flush = (/\ IsBranch(ExResult, id_ex.pc)
                             /\ ~id_ex.taken \/ ExResult.next # id_ex.target)
        /\ ex_stage.arch = mem_stage.arch /\ ex_stage.fetch = mem_stage.fetch
  <2>1. id_ex # None => ExResult.kind # "Err"
    BY Zenon, ExStageIs DEF Faultless
  <2> QED BY Zenon, <2>1, ExStageIs DEF ExReg
<1>5. ex_stage.arch = mem_stage.arch /\ ex_stage.fetch = fetch_pc
  BY Zenon, <1>2, <1>3, <1>4
<1>6. ex_stage.flush \/ stall \/ if_id = None =>
        id_stage.reg = None /\ id_stage.arch = mem_stage.arch /\ id_stage.fetch = fetch_pc
  BY Zenon, <1>5, IdStageIs
<1>7. ~ex_stage.flush /\ ~stall /\ if_id # None =>
        /\ Decodes(if_id.raw)
        /\ id_stage.reg = WithOps(if_id, ReadOperands(mem_stage.arch, decode(if_id.raw)))
        /\ id_stage.arch = mem_stage.arch /\ id_stage.fetch = fetch_pc
  <2> SUFFICES ASSUME ~ex_stage.flush, ~stall, if_id # None
               PROVE  /\ Decodes(if_id.raw)
                      /\ id_stage.reg = WithOps(if_id, ReadOperands(mem_stage.arch, decode(if_id.raw)))
                      /\ id_stage.arch = mem_stage.arch /\ id_stage.fetch = fetch_pc
    OBVIOUS
  <2>1. id_stage.reg # None
    BY Zenon DEF Faultless
  <2>2. Decodes(if_id.raw)
    BY Zenon, <2>1, IdStageIs
  <2> QED BY Zenon, <1>5, <2>2, IdStageIs
<1>8. id_stage.arch = mem_stage.arch /\ id_stage.fetch = fetch_pc
  BY Zenon, <1>6, <1>7
<1>9. stall \/ returning => /\ if_stage.reg = if_id /\ if_stage.fetch = fetch_pc
                            /\ if_stage.arch = mem_stage.arch
  BY Zenon, <1>8, IfStageIs
<1>10. ~stall /\ ~returning /\ ex_stage.flush =>
         /\ if_stage.reg = None /\ if_stage.fetch = ex_stage.reg.res.next
         /\ if_stage.arch = mem_stage.arch
  BY Zenon, <1>8, IfStageIs
<1>11. ~stall /\ ~returning /\ ~ex_stage.flush =>
         /\ Fetchable(code, fetch_pc)
         /\ if_stage.reg = Latch(fetch_pc, predict(new_predictor, fetch_pc))
         /\ if_stage.fetch = Predicted(if_stage.reg)
         /\ if_stage.arch = mem_stage.arch
  <2> SUFFICES ASSUME ~stall, ~returning, ~ex_stage.flush
               PROVE  /\ Fetchable(code, fetch_pc)
                      /\ if_stage.reg = Latch(fetch_pc, predict(new_predictor, fetch_pc))
                      /\ if_stage.fetch = Predicted(if_stage.reg)
                      /\ if_stage.arch = mem_stage.arch
    OBVIOUS
  <2>1. if_stage.reg # None
    BY Zenon DEF Faultless
  <2>2. Fetchable(code, id_stage.fetch)
    BY Zenon, <2>1, IfStageIs
  <2>3. LET l == Latch(id_stage.fetch, predict(new_predictor, id_stage.fetch))
        IN if_stage.reg = l /\ if_stage.arch = id_stage.arch /\ if_stage.fetch = Predicted(l)
    BY Zenon, <2>2, IfStageIs
  <2> QED BY Zenon, <1>8, <2>2, <2>3
<1>12. if_stage.arch = mem_stage.arch
  BY Zenon, <1>9, <1>10, <1>11
<1> QED BY Zenon, <1>1, <1>2, <1>3, <1>4, <1>5, <1>6, <1>7, <1>8, <1>9, <1>10, <1>11, <1>12

\* A result of an access is written back or is a store's.
LEMMA TimedResult ==
    ASSUME NEW a, NEW i, NEW ops, NEW pc, IsInsn(i), a.priv \in Modes,
           NEW r, r = execute(a, i, ops, pc), r.kind \in {"Load", "FLoad", "Store", "Atomic"},
           NEW mm, NEW resv, NEW t, t = memory_stage(r, mm, resv).res
    PROVE  t.kind \in {"Err", "WriteInt", "WriteFp", "Jump"} /\ i.op \notin Leaving
<1>1. i.op \in Executable
  BY DEF IsInsn
<1>2. CASE i.op \in {"load", "fload"} \cup Atomics
  <2>1. r.kind = AccessKind(i.op) /\ r.funct = i.op
    BY <1>2, ExecLoad
  <2>2. r.kind \in {"Load", "FLoad"} \/ (r.kind = "Atomic" /\ r.funct \in Atomics)
    BY <1>2, <2>1 DEF AccessKind
  <2>3. t.kind = "Err" \/ \E v : t = Loaded(r, v)
    BY <2>2, MemLoad
  <2>4. \A v : Loaded(r, v).kind \in {"WriteInt", "WriteFp"}
    BY DEF Loaded
  <2> QED BY <1>2, <2>3, <2>4 DEF Leaving, Atomics
<1>3. CASE i.op \in {"store", "fstore"}
  <2>1. r.kind = "Store"
    BY <1>3, ExecPlain
  <2> QED BY <1>3, <2>1, MemStore DEF Leaving
<1>4. CASE i.op \in IntOps
  BY <1>4, ExecInt
<1>5. CASE i.op \in FpOps
  BY <1>5, ExecFp
<1>6. CASE i.op = "csr"
  BY <1>6, ExecCsr
<1>7. CASE i.op \in {"branch", "nop", "exit"} \cup Traps
  <2>1. /\ i.op = "branch" => r.kind = "Jump"
        /\ i.op \in {"nop", "exit"} => r.kind = i.op
        /\ i.op \in Traps => r.kind = i.op
    BY <1>7, ExecPlain
  <2> QED BY <1>7, <2>1 DEF Traps
<1> QED BY <1>1, <1>2, <1>3, <1>4, <1>5, <1>6, <1>7 DEF Executable, IntOps, FpOps, Atomics, Traps

\* What MEM hands on was in EX/MEM.
LEMMA MemHands ==
    mem_stage.reg # None => ex_mem # None /\ mem_stage.reg.res = MemResult.res
<1> SUFFICES ASSUME mem_stage.reg # None PROVE ex_mem # None /\ mem_stage.reg.res = MemResult.res
  OBVIOUS
<1> DEFINE w == ForwardInfo(MemResult.res, ex_mem.fwd)
<1>1. ex_mem # None /\ mem_stage.reg = [pc |-> ex_mem.pc, res |-> MemResult.res, fwd |-> w]
  BY Zenon, MemStageIs
<1> HIDE DEF w
<1> QED BY <1>1

LEMMA AdvanceRetires ==
    ASSUME Basics, TickAdvance, Faultless'
    PROVE  Retires
<1> SUFFICES ASSUME mem_stage.reg # None
             PROVE  /\ mem_stage.reg.res.kind # "ebreak"
                    /\ mem_stage.reg.res.kind = "Csr" => Known(mem_stage.reg.res.csr)
  BY DEF Retires
<1>1. /\ mem_wb' = mem_stage.reg /\ memory_wait_cycles' = 0
      /\ exited' = (ex_mem # None /\ ex_mem.res.kind = "exit")
  BY DEF TickAdvance
<1>2. ex_mem # None /\ mem_stage.reg.res = MemResult.res
  BY MemHands
<1> SUFFICES ASSUME mem_stage.reg.res.kind \in {"ebreak", "Csr"}
             PROVE  /\ mem_stage.reg.res.kind # "ebreak"
                    /\ mem_stage.reg.res.kind = "Csr" => Known(mem_stage.reg.res.csr)
  OBVIOUS
<1>3. ex_mem.res.kind # "exit"
  <2> SUFFICES ASSUME ex_mem.res.kind = "exit" PROVE FALSE
    OBVIOUS
  <2>1. MemResult.res = ex_mem.res
    BY MemOther DEF MemResult
  <2> QED BY <1>2, <2>1
<1>4. ~exited' /\ ~Squashes'
  BY <1>1, <1>3 DEF Squashes
<1>5. Running'
  BY <1>1, <1>4 DEF Running
<1> QED BY Zenon, <1>1, <1>5 DEF Faultless

LEMMA StallRetires ==
    ASSUME Basics, Chain, TickMemoryStall
    PROVE  Running /\ Retires /\ mem_stage.reg.res.kind \in {"WriteInt", "WriteFp", "Jump"}
           /\ ex_mem # None
<1>1. Running /\ Timed /\ mem_stage.reg # None
  BY DEF TickMemoryStall, Running
<1>2. ex_mem # None /\ mem_stage.reg.res = MemResult.res /\ MemResult.res.kind # "Err"
  BY Zenon, <1>1, MemHands, MemStageIs
<1>3. Executed(ex_mem, retired) /\ stage_wb = retired
  BY <1>1, <1>2, WbStageIs DEF Chain, InMem
<1> DEFINE i == decode(code[retired.pc])
           o == ReadOperands(retired, i)
           r == execute(retired, i, o, retired.pc)
<1>4. Fetchable(code, retired.pc) /\ Decodes(code[retired.pc])
      /\ ex_mem = [pc |-> retired.pc, res |-> r, is_load |-> insn_is_load(i) \/ insn_is_atomic(i),
                   fwd |-> InfoOf(r, i)]
  BY Zenon, <1>3 DEF Executed
<1>5. ex_mem.res = r
  <2> DEFINE w == InfoOf(r, i)
             l == insn_is_load(i) \/ insn_is_atomic(i)
  <2>1. ex_mem = [pc |-> retired.pc, res |-> r, is_load |-> l, fwd |-> w]
    BY Zenon, <1>4
  <2> HIDE DEF r, w, l
  <2> QED BY <2>1
<1>6. IsInsn(i) /\ retired.priv \in Modes
  BY <1>4, Words, IsArchIs DEF Basics
<1>7. ex_mem.res.kind \in {"Load", "FLoad", "Store", "Atomic"}
  BY <1>1 DEF Timed
<1>8. MemResult.res.kind \in {"Err", "WriteInt", "WriteFp", "Jump"}
  <2> HIDE DEF i, o
  <2> QED BY <1>5, <1>6, <1>7, TimedResult DEF MemResult
<1> QED BY <1>1, <1>2, <1>8 DEF Retires

\* What MEM hands on: what it leaves behind describes how it changes the
\* registers, and the program goes on with the word in EX.
LEMMA MemKeeps ==
    ASSUME Basics, Chain, Running, Faultless, Retires,
           arch' = mem_stage.arch, Oldest' = mem_stage.reg, retired' = After
    PROVE  /\ IsArch(arch') /\ IsArch(retired')
           /\ InWb'
           /\ StayWb' => StayMem /\ retired'.pc = ExPc
<1>0. /\ Basics /\ Chain /\ Running /\ Faultless /\ Retires /\ IsArch(retired)
  BY DEF Basics
<1>1. /\ arch' = mem_stage.arch /\ Oldest' = mem_stage.reg /\ retired' = After
      /\ ex_mem = None => mem_stage.reg = None /\ mem_stage.arch = retired /\ After = retired
  BY WbStageIs, MemStageIs DEF After
<1>2. CASE ex_mem = None
  <2>1. IsArch(arch') /\ IsArch(retired')
    BY <1>0, <1>1, <1>2
  <2>2. InWb'
    BY Zenon, <1>1, <1>2 DEF InWb
  <2>3. StayMem /\ retired'.pc = ExPc
    BY Zenon, <1>0, <1>1, <1>2, WbStageIs DEF StayMem, ExPc
  <2> QED BY <2>1, <2>2, <2>3
<1>3. CASE ex_mem # None
  <2> DEFINE i == decode(code[retired.pc])
             w == ForwardInfo(MemResult.res, InfoOf(ex_mem.res, i))
  <2>1. /\ ex_mem.pc = retired.pc
        /\ ex_mem.res = execute(retired, i, ReadOperands(retired, i), retired.pc)
        /\ mem_stage.reg = [pc |-> retired.pc, res |-> MemResult.res, fwd |-> w]
        /\ mem_stage.arch = WithResv(retired, MemResult.resv)
        /\ Effect(retired, mem_stage.arch, After, i, ex_mem.res, MemResult.res)
    BY Zenon, <1>0, <1>3, MemRetires
  <2> HIDE DEF i, w
  <2>2. mem_stage.reg # None /\ mem_stage.reg.pc = retired.pc /\ mem_stage.reg.res = MemResult.res
        /\ mem_stage.reg.fwd = w
    <3> DEFINE t == MemResult.res
    <3>1. mem_stage.reg = [pc |-> retired.pc, res |-> t, fwd |-> w]
      BY Zenon, <2>1
    <3> HIDE DEF t
    <3>2. mem_stage.reg # None /\ mem_stage.reg.pc = retired.pc /\ mem_stage.reg.res = t
          /\ mem_stage.reg.fwd = w
      BY <3>1, NotNone
    <3> QED BY Zenon, <3>2 DEF t
  <2>3. IsArch(mem_stage.arch) /\ mem_stage.arch.pc = retired.pc
    BY <1>0, <2>1, WithResvIs
  <2>4. /\ IsArch(After) /\ Describes(w, mem_stage.arch, After)
        /\ MemResult.res.kind \in Leaving <=> i.op \in Leaving
        /\ ex_mem.res.kind \in Leaving <=> i.op \in Leaving
        /\ i.op \notin Leaving => After.pc = IF ex_mem.res.kind = "sfence" THEN retired.pc + 1
                                             ELSE ex_mem.res.next
    BY Zenon, <2>1 DEF Effect, w
  <2>5. IsArch(arch') /\ IsArch(retired')
    BY Zenon, <1>1, <2>3, <2>4
  <2>6. InWb'
    <3>1. Oldest'.pc = arch'.pc
      BY Zenon, <1>1, <2>2, <2>3
    <3>2. Describes(Oldest'.fwd, arch', retired')
      BY Zenon, <1>1, <2>2, <2>4
    <3>3. Describes(Oldest.fwd, arch, retired)'
      BY <3>2 DEF Describes
    <3> QED BY <3>1, <3>3 DEF InWb
  <2>7. ASSUME StayWb' PROVE StayMem /\ retired'.pc = ExPc
    <3>1. mem_stage.reg.res.kind \notin Leaving
      BY Zenon, <1>1, <2>2, <2>7 DEF StayWb
    <3>2. i.op \notin Leaving /\ ex_mem.res.kind \notin Leaving
      BY Zenon, <2>2, <2>4, <3>1
    <3>3. ex_mem.res.kind # "ebreak"
      <4> SUFFICES ASSUME ex_mem.res.kind = "ebreak" PROVE FALSE
        OBVIOUS
      <4>1. MemResult.res = ex_mem.res
        BY MemOther DEF MemResult
      <4>2. mem_stage.reg.res.kind # "ebreak"
        BY Zenon, <1>0, <2>2 DEF Retires
      <4> QED BY <2>2, <4>1, <4>2
    <3>4. After.pc = NextOf(ex_mem)
      BY <2>1, <2>4, <3>2, <3>3 DEF NextOf
    <3>5. retired'.pc = ExPc
      BY Zenon, <1>1, <1>3, <3>4 DEF ExPc
    <3>6. StayMem
      BY Zenon, <1>0, <3>2, WbStageIs DEF StayMem
    <3> QED BY <3>5, <3>6
  <2> QED BY <2>5, <2>6, <2>7
<1> QED BY <1>2, <1>3

-----------------------------------------------------------------------------
(* A tick in which all stages run preserves the invariant. *)

Advances == Inv /\ Careful /\ Retires /\ Running /\ TickAdvance /\ retired' = Retired'

LEMMA AdvanceIs ==
    ASSUME Advances
    PROVE  /\ arch' = mem_stage.arch /\ fetch_pc' = if_stage.fetch /\ code' = code
           /\ if_id' = if_stage.reg /\ id_ex' = id_stage.reg /\ ex_mem' = ex_stage.reg
           /\ mem_wb' = mem_stage.reg /\ pending_mem_wb' = None /\ memory_wait_cycles' = 0
           /\ predictor' = new_predictor /\ mret_in_flight' = returning
           /\ mem' = mem_stage.mem /\ exited' = (ex_mem # None /\ ex_mem.res.kind = "exit")
           /\ Oldest' = mem_stage.reg /\ retired' = After
           /\ ex_mem = None => /\ mem_stage.reg = None /\ mem_stage.arch = retired /\ After = retired
                               /\ mem_stage.mem = mem
<1>1. /\ arch' = if_stage.arch /\ fetch_pc' = if_stage.fetch /\ code' = code
      /\ if_id' = if_stage.reg /\ id_ex' = id_stage.reg /\ ex_mem' = ex_stage.reg
      /\ mem_wb' = mem_stage.reg /\ pending_mem_wb' = pending_mem_wb /\ memory_wait_cycles' = memory_wait_cycles
      /\ predictor' = new_predictor /\ mret_in_flight' = returning
      /\ mem' = mem_stage.mem /\ exited' = (ex_mem # None /\ ex_mem.res.kind = "exit")
      /\ memory_wait_cycles = 0
  BY Zenon DEF Advances, TickAdvance
<1>2. pending_mem_wb = None
  BY <1>1 DEF Advances, Inv, Basics
<1>3. if_stage.arch = mem_stage.arch
  BY FrontIs DEF Advances, Inv, Careful
<1>4. Oldest' = mem_stage.reg
  BY <1>1, <1>2 DEF Oldest
<1>5. ex_mem = None => /\ mem_stage.reg = None /\ mem_stage.arch = retired /\ After = retired
                       /\ mem_stage.mem = mem
  BY WbStageIs, MemStageIs DEF Advances, Inv, After
<1>6. ex_mem # None => mem_stage.reg # None
  BY Zenon DEF Advances, Careful, Faultless
<1>7. retired' = IF mem_stage.reg = None THEN arch' ELSE writeback(arch', mem_stage.reg.res)
  BY Zenon, <1>4 DEF Advances, Retired
<1>8. retired' = After
  BY Zenon, <1>1, <1>3, <1>5, <1>6, <1>7 DEF After
<1> QED BY Zenon, <1>1, <1>2, <1>3, <1>4, <1>5, <1>8

LEMMA AdvanceMem ==
    ASSUME Advances
    PROVE  /\ IsArch(arch') /\ IsArch(retired')
           /\ InWb'
           /\ StayWb' => StayMem /\ retired'.pc = ExPc
<1>1. Basics /\ Chain /\ Running /\ Faultless /\ Retires
  BY DEF Advances, Inv, Careful
<1>2. arch' = mem_stage.arch /\ Oldest' = mem_stage.reg /\ retired' = After
  BY AdvanceIs
<1> QED BY Zenon, <1>1, <1>2, MemKeeps

\* What EX hands on is what the program executes next.
LEMMA AdvanceEx ==
    ASSUME Advances, StayWb'
    PROVE  /\ InMem'
           /\ StayMem' => StayEx /\ (~ex_stage.flush => ExPc' = IdPc)
           /\ ex_stage.flush => ExPc' = ex_stage.reg.res.next
<1>0. /\ Basics /\ Chain /\ Latches /\ LoadsApart /\ Running /\ Faultless /\ Unexposed
      /\ JumpsResolved /\ Retires /\ code \in Programs
  BY DEF Advances, Inv, Careful, Basics
<1>1. ex_mem' = ex_stage.reg /\ retired' = After /\ code' = code
  BY AdvanceIs
<1>2. StayMem /\ retired'.pc = ExPc
  BY AdvanceMem
<1>3. CASE id_ex = None
  <2>1. ex_mem' = None /\ ex_stage.flush = FALSE
    BY Zenon, <1>0, <1>1, <1>3, FrontIs
  <2>2. InMem' /\ StayEx /\ ExPc' = IdPc
    BY Zenon, <1>2, <1>3, <2>1 DEF InMem, StayEx, ExPc, IdPc
  <2> QED BY Zenon, <2>1, <2>2
<1>4. CASE id_ex # None
  <2> DEFINE i == decode(id_ex.raw)
             r == execute(After, i, ReadOperands(After, i), id_ex.pc)
             B == IsBranch(r, id_ex.pc)
             mis == B /\ (~id_ex.taken \/ r.next # id_ex.target)
  <2>1. ExResult = r /\ IsInsn(i)
    BY Zenon, <1>0, <1>2, <1>4, ExForwards
  <2>2. /\ r.kind # "Err" /\ ex_stage.reg = ExReg(id_ex, r, i) /\ ex_stage.flush = mis
    BY Zenon, <1>0, <1>4, <2>1, FrontIs
  <2>3. id_ex.pc = After.pc
    BY Zenon, <1>0, <1>1, <1>2, <1>4 DEF Chain, InEx
  <2>4. /\ IsLatch(id_ex) /\ Decodes(id_ex.raw)
        /\ Fetchable(code, id_ex.pc) /\ id_ex.raw = code[id_ex.pc]
    BY Zenon, <1>0, <1>4 DEF Latches, IsLatch
  <2>5. Executed(ex_mem, retired)'
    <3>1. ex_mem' = [pc |-> id_ex.pc, res |-> r, is_load |-> insn_is_load(i) \/ insn_is_atomic(i),
                     fwd |-> InfoOf(r, i)]
      BY Zenon, <1>1, <2>2 DEF ExReg
    <3>2. i = decode(code'[retired'.pc]) /\ retired'.pc = id_ex.pc
      BY Zenon, <1>1, <2>3, <2>4
    <3>3. Fetchable(code', retired'.pc) /\ Decodes(code'[retired'.pc])
      BY Zenon, <1>1, <2>3, <2>4
    <3>4. r = execute(retired', i, ReadOperands(retired', i), retired'.pc)
      BY Zenon, <1>1, <3>2
    <3> HIDE DEF i, r
    <3> QED BY Zenon, <2>2, <3>1, <3>2, <3>3, <3>4 DEF Executed
  <2>6. InMem'
    BY Zenon, <2>5 DEF InMem
  <2> DEFINE nx == IF r.kind \in {"sfence", "ebreak"} THEN id_ex.pc + 1 ELSE r.next
  <2>7. ex_mem' # None /\ ex_mem'.res = r /\ NextOf(ex_mem') = nx
    <3> HIDE DEF i, r
    <3>1. /\ ExReg(id_ex, r, i) # None /\ ExReg(id_ex, r, i).res = r
          /\ NextOf(ExReg(id_ex, r, i)) = nx
      BY ExRegIs
    <3> QED BY Zenon, <1>1, <2>2, <3>1
  <2>8. ExPc' = nx
    <3> HIDE DEF nx
    <3>1. NextOf(ex_mem)' = nx
      BY Zenon, <2>7 DEF NextOf
    <3> QED BY Zenon, <2>7, <3>1 DEF ExPc
  <2>81. After.priv \in Modes
    BY Zenon, <1>1, AdvanceMem, IsArchIs
  <2>9. ASSUME StayMem' PROVE StayEx /\ (~ex_stage.flush => ExPc' = IdPc)
    <3>1. r.kind \notin Leaving
      BY Zenon, <2>7, <2>9 DEF StayMem
    <3>2. i.op \notin Leaving
      <4> SUFFICES ASSUME i.op \in Leaving PROVE FALSE
        OBVIOUS
      <4>1. r.kind = i.op
        BY ExecPlain DEF Leaving, Traps
      <4> QED BY <3>1, <4>1
    <3>3. StayEx
      BY Zenon, <1>2, <3>2 DEF StayEx
    <3>4. ASSUME ~ex_stage.flush PROVE ExPc' = IdPc
      <4>1. i.op = "jalr" /\ r.next = id_ex.pc + 1 => Predicted(id_ex) = id_ex.pc + 1
        BY Zenon, <1>0, <1>1, <1>4, <2>7 DEF JumpsResolved
      <4>2. ~mis
        BY Zenon, <2>2, <3>4
      <4>3. nx = Predicted(id_ex)
        <5> DEFINE o == ReadOperands(After, i)
        <5>1. r = execute(After, i, o, id_ex.pc) /\ i = decode(id_ex.raw)
          OBVIOUS
        <5> HIDE DEF o, i, r
        <5> QED BY <1>0, <2>2, <2>4, <2>81, <3>2, <4>1, <4>2, <5>1, PredictedRight
      <4> QED BY Zenon, <1>4, <2>8, <4>3 DEF IdPc
    <3> QED BY Zenon, <3>3, <3>4
  <2>10. ASSUME ex_stage.flush PROVE ExPc' = ex_stage.reg.res.next
    <3>1. B
      BY Zenon, <2>2, <2>10
    <3>2. r.kind \in {"Jump", "WriteInt"}
      <4> HIDE DEF r
      <4> QED BY <3>1 DEF IsBranch
    <3>3. nx = r.next
      <4> HIDE DEF r
      <4> QED BY <3>2
    <3> QED BY Zenon, <1>1, <2>7, <2>8, <3>3
  <2> QED BY Zenon, <2>6, <2>9, <2>10
<1> QED BY <1>3, <1>4


\* ID hands on the word in IF/ID with the operands of this tick.
LEMMA AdvanceId ==
    ASSUME Advances
    PROVE  /\ if_id # None => IsLatch(if_id)
           /\ id_ex' # None =>
                /\ ~ex_stage.flush /\ ~stall /\ if_id # None /\ Decodes(if_id.raw)
                /\ Shape(id_ex')
                /\ id_ex'.pc = if_id.pc /\ id_ex'.raw = if_id.raw
                /\ id_ex'.ops = ReadOperands(arch', decode(if_id.raw))
                /\ id_ex'.taken = if_id.taken /\ id_ex'.target = if_id.target
                /\ Predicted(id_ex') = Predicted(if_id)
           /\ id_ex' = None => ex_stage.flush \/ stall \/ if_id = None
<1>1. Basics /\ Latches /\ Running /\ Faultless
  BY DEF Advances, Inv, Careful
<1>2. id_ex' = id_stage.reg /\ arch' = mem_stage.arch
  BY AdvanceIs
<1>3. if_id # None => IsLatch(if_id)
  BY Zenon, <1>1 DEF Latches
<1> DEFINE o == ReadOperands(mem_stage.arch, decode(if_id.raw))
           D == Decodes(if_id.raw)
           N == ex_stage.flush \/ stall \/ if_id = None
<1>4. /\ N => id_stage.reg = None
      /\ ~N => D /\ id_stage.reg = WithOps(if_id, o)
  BY Zenon, <1>1, FrontIs
<1> HIDE DEF o, D, N
<1>5. ASSUME ~N
      PROVE  /\ id_ex' # None /\ Shape(id_ex') /\ id_ex'.pc = if_id.pc /\ id_ex'.raw = if_id.raw
             /\ id_ex'.ops = o /\ id_ex'.taken = if_id.taken /\ id_ex'.target = if_id.target
  <2>1. Shape(if_id)
    BY Zenon, <1>3, <1>5 DEF N, IsLatch, Shape
  <2>2. id_ex' = WithOps(if_id, o)
    BY Zenon, <1>2, <1>4, <1>5
  <2> DEFINE l == WithOps(if_id, o)
  <2>3. /\ l # None /\ Shape(l) /\ l.pc = if_id.pc /\ l.raw = if_id.raw
        /\ l.ops = o /\ l.taken = if_id.taken /\ l.target = if_id.target
    BY <2>1, WithOpsIs
  <2> QED BY Zenon, <2>2, <2>3
<1>6. ~N => Predicted(id_ex') = Predicted(if_id)
  BY Zenon, <1>5 DEF Predicted
<1>7. o = ReadOperands(arch', decode(if_id.raw))
  BY Zenon, <1>2 DEF o
<1> QED BY Zenon, <1>2, <1>3, <1>4, <1>5, <1>6, <1>7 DEF N, D

LEMMA AdvanceInEx ==
    ASSUME Advances
    PROVE  StayMem' => InEx'
<1> SUFFICES ASSUME StayMem', id_ex' # None
             PROVE  id_ex'.pc = ExPc' /\ id_ex'.ops = ReadOperands(arch, decode(id_ex.raw))'
  BY Zenon DEF InEx
<1>1. /\ ~ex_stage.flush /\ if_id # None /\ id_ex'.pc = if_id.pc /\ id_ex'.raw = if_id.raw
      /\ id_ex'.ops = ReadOperands(arch', decode(if_id.raw))
  BY Zenon, AdvanceId
<1>2. StayWb'
  BY Zenon DEF StayMem
<1>3. StayEx /\ ExPc' = IdPc
  BY Zenon, <1>1, <1>2, AdvanceEx
<1>4. if_id.pc = IdPc
  BY Zenon, <1>1, <1>3 DEF Advances, Inv, Chain, InId
<1>5. id_ex'.ops = ReadOperands(arch', decode(id_ex'.raw))
  BY Zenon, <1>1
<1> QED BY Zenon, <1>1, <1>3, <1>4, <1>5

LEMMA AdvanceLoads ==
    ASSUME Advances
    PROVE  LoadsApart'
<1> SUFFICES ASSUME id_ex' # None, ex_mem' # None, NEW i, i = decode(code[ex_mem.pc])',
                    insn_is_load(i), insn_rd(i) # 0 \/ insn_is_fp_dest(i)
             PROVE  insn_rd(i) \notin {id_ex.raw[3], id_ex.raw[4]}'
  BY Zenon DEF LoadsApart
<1>1. ~stall /\ if_id # None /\ id_ex'.raw = if_id.raw
  BY Zenon, AdvanceId
<1>2. ex_mem' = ex_stage.reg /\ code' = code
  BY AdvanceIs
<1>3. id_ex # None /\ ex_mem'.pc = id_ex.pc
  <2>1. Basics /\ Running /\ Faultless
    BY DEF Advances, Inv, Careful
  <2>2. id_ex # None /\ ex_mem' = ExReg(id_ex, ExResult, decode(id_ex.raw))
    BY Zenon, <1>2, <2>1, FrontIs
  <2>3. ExReg(id_ex, ExResult, decode(id_ex.raw)).pc = id_ex.pc
    BY ExRegIs
  <2> QED BY Zenon, <2>2, <2>3
<1>4. id_ex.raw = code[id_ex.pc]
  BY Zenon, <1>3 DEF Advances, Inv, Latches, IsLatch
<1>5. i = decode(id_ex.raw)
  BY Zenon, <1>2, <1>3, <1>4
<1>6. insn_rd(i) \notin {if_id.raw[3], if_id.raw[4]}
  BY Zenon, <1>1, <1>3, <1>5 DEF stall, load_use_hazard
<1> QED BY <1>1, <1>6

LEMMA PredictIs ==
    ASSUME NEW p, NEW pc
    PROVE  predict(p, pc).taken \in BOOLEAN /\ predict(p, pc).target = p.btb[pc]
<1> DEFINE q == predict(p, pc)
<1>1. q = [taken |-> p.pht[pc % PhtSize] >= 2, target |-> p.btb[pc]]
  BY DEF predict
<1>2. CASE p.pht[pc % PhtSize] >= 2
  <2>1. q = [taken |-> TRUE, target |-> p.btb[pc]]
    BY Zenon, <1>1, <1>2
  <2> HIDE DEF q
  <2>2. q.taken \in BOOLEAN /\ q.target = p.btb[pc]
    BY <2>1
  <2> QED BY <2>2 DEF q
<1>3. CASE ~(p.pht[pc % PhtSize] >= 2)
  <2>0. (p.pht[pc % PhtSize] >= 2) = FALSE
    BY <1>3
  <2>1. q = [taken |-> FALSE, target |-> p.btb[pc]]
    BY Zenon, <1>1, <2>0
  <2> HIDE DEF q
  <2>2. q.taken \in BOOLEAN /\ q.target = p.btb[pc]
    BY <2>1
  <2> QED BY <2>2 DEF q
<1> QED BY <1>2, <1>3

\* What EX tells the predictor.
LEMMA AdvanceLearns ==
    ASSUME Advances
    PROVE  LearnedBy(new_predictor)
<1>1. /\ Basics /\ Latches /\ Learned /\ Running /\ Faultless /\ code \in Programs
  BY DEF Advances, Inv, Careful, Basics
<1>2. LearnedBy(WbPredictor)
  BY <1>1, LearnedWb
<1>3. CASE ~ex_stage.branch
  BY Zenon, <1>2, <1>3 DEF new_predictor
<1>4. CASE ex_stage.branch
  <2> DEFINE i == decode(id_ex.raw)
             t == ex_stage.reg.res.next
             o == compute_forwarding(ex_mem, mem_wb, id_ex)
  <2>1. id_ex # None
    BY Zenon, <1>1, <1>4, FrontIs
  <2>2. /\ ExResult.kind # "Err" /\ IsBranch(ExResult, id_ex.pc)
        /\ ex_stage.reg = ExReg(id_ex, ExResult, i)
    BY Zenon, <1>1, <1>4, <2>1, FrontIs
  <2>3. t = ExResult.next
    <3>1. ExReg(id_ex, ExResult, i).res = ExResult
      BY ExRegIs
    <3> QED BY Zenon, <2>2, <3>1
  <2>4. /\ Decodes(id_ex.raw) /\ Fetchable(code, id_ex.pc) /\ id_ex.raw = code[id_ex.pc]
    BY Zenon, <1>1, <2>1 DEF Latches, IsLatch
  <2>5. IsInsn(i) /\ id_ex.pc \in 0..(CodeSize - 1)
    BY <1>1, <2>4, Words
  <2>6. mem_stage.arch.priv \in Modes
    BY Zenon, AdvanceIs, AdvanceMem, IsArchIs
  <2>7. ExResult = execute(mem_stage.arch, i, o, id_ex.pc)
    BY Zenon DEF ExResult
  <2> HIDE DEF i, o, t
  <2>8. i.op \in Jumps
    BY <2>2, <2>5, <2>6, <2>7, PlainNext
  <2>9. i.op = "jal" => t = i.ext
    BY <2>3, <2>7, <2>8, JumpNext
  <2>10. Learnt(code[id_ex.pc], id_ex.pc, t)
    BY <2>4, <2>8, <2>9 DEF Learnt, Jumps, i
  <2>11. LearnedBy(update(WbPredictor, id_ex.pc, t))
    BY <1>2, <2>5, <2>10, LearnedUpdate
  <2> QED BY Zenon, <1>4, <2>11 DEF new_predictor, t
<1> QED BY <1>3, <1>4

LEMMA AdvanceLatches ==
    ASSUME Advances
    PROVE  Latches' /\ Learned'
<1>1. /\ Basics /\ Latches /\ Running /\ Faultless
  BY DEF Advances, Inv, Careful
<1>2. /\ code' = code /\ predictor' = new_predictor /\ if_id' = if_stage.reg
  BY AdvanceIs
<1>3. LearnedBy(new_predictor)
  BY AdvanceLearns
<1>4. Learned'
  BY Zenon, <1>2, <1>3 DEF Learned, LearnedBy
<1>5. if_id' # None => IsLatch(if_id')
  <2>1. CASE stall \/ returning
    <3>1. if_id' = if_id
      BY Zenon, <1>1, <1>2, <2>1, FrontIs
    <3> QED BY Zenon, <3>1, AdvanceId
  <2>2. CASE ~stall /\ ~returning /\ ex_stage.flush
    BY Zenon, <1>1, <1>2, <2>2, FrontIs
  <2>3. CASE ~stall /\ ~returning /\ ~ex_stage.flush
    <3> DEFINE p == predict(new_predictor, fetch_pc)
               l == Latch(fetch_pc, p)
    <3>1. Fetchable(code, fetch_pc) /\ if_id' = l
      BY Zenon, <1>1, <1>2, <2>3, FrontIs
    <3>2. p.taken \in BOOLEAN /\ p.target = new_predictor.btb[fetch_pc]
      BY PredictIs
    <3>3. Learnt(code[fetch_pc], fetch_pc, p.target)
      <4>1. fetch_pc \in 0..(CodeSize - 1)
        BY <1>1, <3>1, PipelineAssumption DEF Fetchable, Basics
      <4> QED BY Zenon, <1>3, <3>2, <4>1 DEF LearnedBy
    <3> HIDE DEF p
    <3>4. Shape(l) /\ l.pc = fetch_pc /\ l.raw = code[fetch_pc] /\ l.taken = p.taken /\ l.target = p.target
      BY ShapeIs DEF Latch
    <3> HIDE DEF l
    <3>5. IsLatch(l)
      BY Zenon, <3>1, <3>2, <3>3, <3>4 DEF IsLatch, Shape
    <3> QED BY Zenon, <3>1, <3>5
  <2> QED BY Zenon, <2>1, <2>2, <2>3
<1>6. id_ex' # None => IsLatch(id_ex') /\ Decodes(id_ex'.raw)
  <2> SUFFICES ASSUME id_ex' # None PROVE IsLatch(id_ex') /\ Decodes(id_ex'.raw)
    OBVIOUS
  <2>1. /\ if_id # None /\ IsLatch(if_id) /\ Decodes(if_id.raw) /\ Shape(id_ex')
        /\ id_ex'.pc = if_id.pc /\ id_ex'.raw = if_id.raw
        /\ id_ex'.taken = if_id.taken /\ id_ex'.target = if_id.target
    BY Zenon, AdvanceId
  <2> QED BY Zenon, <2>1 DEF IsLatch, Shape
<1>7. (if_id # None => IsLatch(if_id))'
  BY Zenon, <1>2, <1>5 DEF IsLatch
<1>8. (id_ex # None => IsLatch(id_ex) /\ Decodes(id_ex.raw))'
  BY Zenon, <1>2, <1>6 DEF IsLatch
<1> QED BY Zenon, <1>4, <1>7, <1>8 DEF Latches

\* IF fetches where the words ahead of it were predicted to go.
LEMMA AdvanceFront ==
    ASSUME Advances
    PROVE  StayEx' => InId' /\ fetch_pc' = IfPc'
<1> SUFFICES ASSUME StayEx' PROVE InId' /\ fetch_pc' = IfPc'
  OBVIOUS
<1>1. /\ Basics /\ Latches /\ Chain /\ Held /\ Running /\ Faultless
  BY DEF Advances, Inv, Careful
<1>2. StayMem' /\ StayWb'
  BY Zenon DEF StayEx, StayMem
<1>3. /\ StayEx /\ (~ex_stage.flush => ExPc' = IdPc)
      /\ ex_stage.flush => ExPc' = ex_stage.reg.res.next
  BY Zenon, <1>2, AdvanceEx
<1>4. (if_id # None => if_id.pc = IdPc) /\ fetch_pc = IfPc
  BY Zenon, <1>1, <1>3 DEF Chain, InId
<1>5. if_id' = if_stage.reg /\ fetch_pc' = if_stage.fetch /\ mret_in_flight' = returning
  BY AdvanceIs
<1>6. id_ex' = None => IdPc' = ExPc'
  BY Zenon DEF IdPc
<1>7. id_ex' # None => IdPc' = Predicted(id_ex')
  BY Zenon DEF IdPc, Predicted
<1>8. if_id' = None => IfPc' = IdPc'
  BY Zenon DEF IfPc
<1>9. if_id' # None => IfPc' = Predicted(if_id')
  BY Zenon DEF IfPc, Predicted
<1>10. CASE stall
  <2>1. ~ex_stage.flush
    <3> DEFINE i == decode(id_ex.raw)
               o == compute_forwarding(ex_mem, mem_wb, id_ex)
    <3>1. id_ex # None /\ insn_is_load(i)
      BY Zenon, <1>10 DEF stall, load_use_hazard
    <3>2. /\ Decodes(id_ex.raw) /\ Fetchable(code, id_ex.pc) /\ id_ex.raw = code[id_ex.pc]
      BY Zenon, <1>1, <3>1 DEF Latches, IsLatch
    <3>3. IsInsn(i)
      BY <1>1, <3>2, Words DEF Basics
    <3>4. mem_stage.arch.priv \in Modes
      BY Zenon, AdvanceIs, AdvanceMem, IsArchIs
    <3>5. ExResult = execute(mem_stage.arch, i, o, id_ex.pc) /\ ExResult.kind # "Err"
      BY Zenon, <1>1, <3>1, FrontIs DEF ExResult
    <3>6. ex_stage.flush => IsBranch(ExResult, id_ex.pc)
      BY Zenon, <1>1, <3>1, FrontIs
    <3> HIDE DEF i, o
    <3>7. i.op \notin Jumps
      BY <3>1 DEF insn_is_load, Jumps
    <3>8. ~IsBranch(ExResult, id_ex.pc)
      BY <3>3, <3>4, <3>5, <3>7, PlainNext
    <3> QED BY Zenon, <3>6, <3>8
  <2>2. id_ex' = None
    BY Zenon, <1>10, AdvanceId
  <2>3. if_id' = if_id /\ fetch_pc' = fetch_pc
    BY Zenon, <1>1, <1>5, <1>10, FrontIs
  <2>4. IdPc' = IdPc
    BY Zenon, <1>3, <1>6, <2>1, <2>2
  <2>5. InId'
    BY Zenon, <1>4, <2>3, <2>4 DEF InId
  <2>6. IfPc' = IfPc
    BY Zenon, <1>8, <1>9, <2>3, <2>4 DEF IfPc
  <2> QED BY Zenon, <1>4, <2>3, <2>5, <2>6
<1>11. CASE ~stall /\ returning
  <2>1. (Returns(if_id)' /\ Returns(id_ex)') \/ (mret_in_flight /\ Empty /\ Empty')
    <3>1. if_id # None => Shape(if_id)
      BY Zenon, <1>1 DEF Latches, IsLatch, Shape
    <3>2. mret_in_flight'
      BY Zenon, <1>5, <1>11
    <3>3. TickAdvance /\ mret_in_flight \in BOOLEAN
      BY Zenon, <1>1 DEF Advances, Basics
    <3>4. mret_in_flight => (Returns(if_id) /\ Returns(id_ex)) \/ Empty
      BY Zenon, <1>1 DEF Held
    <3> QED BY Zenon, <3>1, <3>2, <3>3, <3>4, AdvanceHolds
  <2>2. ~Returns(id_ex)'
    <3> SUFFICES ASSUME Returns(id_ex)' PROVE FALSE
      OBVIOUS
    <3>1. id_ex' # None /\ decode(id_ex'.raw).op \in {"mret", "sret"}
      BY Zenon DEF Returns, is_trap_return
    <3>2. decode(id_ex'.raw).op \notin Leaving
      BY Zenon, <3>1 DEF StayEx
    <3> QED BY <3>1, <3>2 DEF Leaving
  <2>3. if_id = None /\ id_ex = None /\ if_id' = None /\ id_ex' = None
    BY Zenon, <2>1, <2>2 DEF Empty
  <2>4. ~ex_stage.flush
    BY Zenon, <1>1, <2>3, FrontIs
  <2>5. fetch_pc' = fetch_pc
    BY Zenon, <1>1, <1>5, <1>11, FrontIs
  <2>6. IfPc' = IfPc
    BY Zenon, <1>3, <1>6, <1>8, <2>3, <2>4 DEF IfPc
  <2>7. InId'
    BY Zenon, <2>3 DEF InId
  <2> QED BY Zenon, <1>4, <2>5, <2>6, <2>7
<1>12. CASE ~stall /\ ~returning /\ ex_stage.flush
  <2>1. if_id' = None /\ fetch_pc' = ex_stage.reg.res.next
    BY Zenon, <1>1, <1>5, <1>12, FrontIs
  <2>2. id_ex' = None
    BY Zenon, <1>12, AdvanceId
  <2>3. InId'
    BY Zenon, <2>1 DEF InId
  <2> QED BY Zenon, <1>3, <1>6, <1>8, <1>12, <2>1, <2>2, <2>3
<1>13. CASE ~stall /\ ~returning /\ ~ex_stage.flush
  <2> DEFINE p == predict(new_predictor, fetch_pc)
             l == Latch(fetch_pc, p)
  <2>1. if_id' = l /\ fetch_pc' = Predicted(if_id')
    BY Zenon, <1>1, <1>5, <1>13, FrontIs
  <2>2. l # None /\ l.pc = fetch_pc
    <3> HIDE DEF p
    <3> QED BY NotNone DEF Latch
  <2>3. IdPc' = IfPc
    <3>1. CASE if_id = None
      <4>1. id_ex' = None
        BY Zenon, <3>1, AdvanceId
      <4> QED BY Zenon, <1>3, <1>6, <1>13, <3>1, <4>1 DEF IfPc
    <3>2. CASE if_id # None
      <4>1. id_ex' # None /\ Predicted(id_ex') = Predicted(if_id)
        BY Zenon, <1>13, <3>2, AdvanceId
      <4> QED BY Zenon, <1>7, <3>2, <4>1 DEF IfPc
    <3> QED BY <3>1, <3>2
  <2>4. InId'
    BY Zenon, <1>4, <2>1, <2>2, <2>3 DEF InId
  <2>5. IfPc' = fetch_pc'
    BY Zenon, <1>9, <2>1, <2>2
  <2> QED BY Zenon, <2>4, <2>5
<1> QED BY Zenon, <1>10, <1>11, <1>12, <1>13

LEMMA AdvanceKeeps == ASSUME Advances PROVE Inv'
<1>1. /\ Basics /\ Latches /\ Held /\ TickAdvance
  BY DEF Advances, Inv
<1>2. /\ arch' = mem_stage.arch /\ code' = code /\ pending_mem_wb' = None /\ memory_wait_cycles' = 0
      /\ exited' = (ex_mem # None /\ ex_mem.res.kind = "exit")
  BY AdvanceIs
<1>3. /\ mret_in_flight' \in BOOLEAN
      /\ mret_in_flight' => (Returns(if_id)' /\ Returns(id_ex)') \/ Empty'
  <2>1. if_id # None => Shape(if_id)
    BY Zenon, <1>1 DEF Latches, IsLatch, Shape
  <2>2. mret_in_flight \in BOOLEAN
    BY Zenon, <1>1 DEF Basics
  <2>3. mret_in_flight => (Returns(if_id) /\ Returns(id_ex)) \/ Empty
    BY Zenon, <1>1 DEF Held
  <2> QED BY Zenon, <1>1, <2>1, <2>2, <2>3, AdvanceHolds
<1>4. Held'
  BY Zenon, <1>3 DEF Held
<1>5. Basics'
  <2>1. IsArch(arch)' /\ IsArch(retired)'
    BY Zenon, AdvanceMem DEF IsArch
  <2>2. retired' = Retired'
    BY DEF Advances
  <2>3. exited' \in BOOLEAN
    BY <1>2
  <2>4. code' \in Programs
    BY <1>1, <1>2 DEF Basics
  <2> QED BY <1>2, <1>3, <2>1, <2>2, <2>3, <2>4 DEF Basics
<1>6. Chain'
  <2>1. InWb'
    BY AdvanceMem
  <2>2. StayWb' => InMem'
    BY AdvanceEx
  <2>3. StayMem' => InEx'
    BY AdvanceInEx
  <2>4. StayEx' => InId' /\ fetch_pc' = IfPc'
    BY AdvanceFront
  <2> QED BY Zenon, <2>1, <2>2, <2>3, <2>4 DEF Chain
<1> QED BY Zenon, <1>4, <1>5, <1>6, AdvanceLatches, AdvanceLoads DEF Inv

-----------------------------------------------------------------------------
(* The other ticks. *)

LEMMA ResetIs == IsArch(Reset("U")) /\ Reset("U").pc = 0
<1> DEFINE b == Reset("U")
           x == [r \in Regs |-> 0]
<1>1. b = [x |-> x, f |-> x, pc |-> 0, priv |-> "U",
           mie |-> FALSE, mpie |-> FALSE, mpp |-> "U", sie |-> FALSE, spie |-> FALSE, spp |-> "U",
           mepc |-> 0, mcause |-> "none", sepc |-> 0, scause |-> "none",
           fcsr |-> 0, resv |-> MemSize]
  BY DEF Reset
<1>2. IsRegs(x)
  BY DEF IsRegs
<1> HIDE DEF b, x
<1>3. b = Fields(b)
  BY <1>1 DEF Fields
<1>4. /\ b.x = x /\ b.f = x /\ b.pc = 0
      /\ b.priv \in Modes /\ b.mpp \in Modes /\ b.spp \in Modes
  BY <1>1 DEF Modes
<1>5. IsArch(b) /\ b.pc = 0
  BY <1>2, <1>3, <1>4, IsArchIs
<1> QED BY <1>5 DEF b

\* With nothing in flight the chain is one pc.
LEMMA EmptyKeeps ==
    ASSUME Oldest' = None, ex_mem' = None, id_ex' = None, if_id' = None,
           fetch_pc' = arch'.pc, retired' = arch'
    PROVE  Chain' /\ LoadsApart' /\ Latches' /\ Held'
<1>1. Chain'
  BY Zenon DEF Chain, InWb, InMem, InEx, InId, IfPc, IdPc, ExPc
<1>2. LoadsApart' /\ Latches' /\ Held'
  BY Zenon DEF LoadsApart, Latches, Held, Empty
<1> QED BY <1>1, <1>2

LEMMA InitInv == Init => Inv
<1> SUFFICES ASSUME Init PROVE Inv
  OBVIOUS
<1>1. /\ code \in Programs /\ exited = FALSE /\ mret_in_flight = FALSE /\ arch = Reset("U")
      /\ retired = arch /\ memory_wait_cycles = 0 /\ pending_mem_wb = None /\ mem_wb = None
      /\ ex_mem = None /\ id_ex = None /\ if_id = None /\ fetch_pc = arch.pc
      /\ predictor = NoBranches
  BY DEF Init
<1>2. Oldest = None
  BY <1>1 DEF Oldest
<1>3. Basics
  BY <1>1, <1>2, ResetIs DEF Basics, Retired
<1>4. Learned
  BY Zenon, <1>1, LearnedInit DEF LearnedBy, Learned
<1>5. Chain
  BY Zenon, <1>1, <1>2 DEF Chain, InWb, InMem, InEx, InId, IfPc, IdPc, ExPc
<1>6. LoadsApart /\ Latches /\ Held
  BY Zenon, <1>1 DEF LoadsApart, Latches, Held
<1> QED BY <1>3, <1>4, <1>5, <1>6 DEF Inv

\* What a tick that squashes everything leaves behind.
LEMMA SquashIs ==
    ASSUME Inv, TickSquash, retired' = Retired'
    PROVE  /\ arch' = retired /\ retired' = retired /\ Oldest' = None /\ fetch_pc' = arch'.pc
           /\ code' = code /\ mem' = mem /\ exited' = exited
<1>1. mem_wb # None
  BY DEF TickSquash, Squashes
<1>2. stage_wb = retired
  BY <1>1 DEF Inv, Basics, stage_wb, Retired, Oldest
<1>3. /\ arch' = retired /\ mem_wb' = None /\ pending_mem_wb' = None /\ fetch_pc' = retired.pc
      /\ code' = code /\ mem' = mem /\ exited' = exited
  BY <1>2 DEF TickSquash, flush_pipeline
<1>4. Oldest' = None
  BY <1>3 DEF Oldest
<1>5. retired' = arch'
  BY Zenon, <1>4 DEF Retired
<1> QED BY Zenon, <1>3, <1>4, <1>5

LEMMA SquashKeeps == ASSUME Inv, TickSquash, retired' = Retired' PROVE Inv'
<1>1. /\ arch' = retired /\ retired' = retired /\ Oldest' = None /\ fetch_pc' = arch'.pc
      /\ code' = code /\ exited' = exited
  BY SquashIs
<1>2. /\ ex_mem' = None /\ id_ex' = None /\ if_id' = None /\ memory_wait_cycles' = 0
      /\ pending_mem_wb' = None /\ mret_in_flight' = (mret_in_flight /\ ~Returned)
      /\ predictor' = predictor
  BY DEF TickSquash, flush_pipeline
<1>3. Chain' /\ LoadsApart' /\ Latches' /\ Held'
  BY <1>1, <1>2, EmptyKeeps
<1>4. IsArch(arch)' /\ IsArch(retired)'
  BY Zenon, <1>1 DEF Inv, Basics, IsArch
<1>5. mret_in_flight' \in BOOLEAN
  BY <1>2
<1>6. Basics'
  BY <1>1, <1>2, <1>4, <1>5 DEF Inv, Basics
<1>7. Learned'
  BY Zenon, <1>1, <1>2 DEF Inv, Learned
<1> QED BY <1>3, <1>6, <1>7 DEF Inv

\* What an interrupt leaves behind.
LEMMA InterruptIs ==
    ASSUME Inv, TickInterrupt, retired' = Retired'
    PROVE  /\ Running /\ pending(retired)
           /\ arch' = take_trap(retired, "irq", retired.pc) /\ retired' = arch'
           /\ Oldest' = None /\ fetch_pc' = arch'.pc
           /\ code' = code /\ mem' = mem /\ exited' = exited
<1>1. Running
  BY DEF TickInterrupt, Running
<1>2. stage_wb = retired
  BY <1>1, WbStageIs DEF Inv
<1>3. /\ arch' = take_trap(stage_wb, "irq", stage_wb.pc) /\ mem_wb' = None /\ pending_mem_wb' = None
      /\ fetch_pc' = arch'.pc /\ code' = code /\ mem' = mem /\ exited' = exited /\ pending(stage_wb)
  BY Zenon DEF TickInterrupt, flush_pipeline
<1>4. Oldest' = None
  BY <1>3 DEF Oldest
<1>5. retired' = arch'
  BY Zenon, <1>4 DEF Retired
<1> QED BY Zenon, <1>1, <1>2, <1>3, <1>4, <1>5

LEMMA InterruptKeeps == ASSUME Inv, TickInterrupt, retired' = Retired' PROVE Inv'
<1>1. /\ Running /\ arch' = take_trap(retired, "irq", retired.pc) /\ retired' = arch'
      /\ Oldest' = None /\ fetch_pc' = arch'.pc /\ code' = code /\ exited' = exited
  BY InterruptIs
<1>2. /\ ex_mem' = None /\ id_ex' = None /\ if_id' = None /\ memory_wait_cycles' = 0
      /\ pending_mem_wb' = None /\ mret_in_flight' = mret_in_flight /\ predictor' = WbPredictor
  BY DEF TickInterrupt, flush_pipeline
<1>3. Chain' /\ LoadsApart' /\ Latches' /\ Held'
  BY <1>1, <1>2, EmptyKeeps
<1>4. IsArch(arch')
  BY <1>1, TrapIs DEF Inv, Basics
<1>5. IsArch(arch)' /\ IsArch(retired)'
  BY Zenon, <1>1, <1>4 DEF IsArch
<1>6. Basics'
  BY <1>1, <1>2, <1>5 DEF Inv, Basics
<1>7. LearnedBy(WbPredictor)
  BY LearnedWb DEF Inv
<1>8. Learned'
  BY Zenon, <1>1, <1>2, <1>7 DEF LearnedBy, Learned
<1> QED BY <1>3, <1>6, <1>8 DEF Inv

\* The parts of the invariant are about these variables.
LEMMA SameKeeps ==
    ASSUME Inv, code' = code, arch' = arch, retired' = retired, Oldest' = Oldest,
           ex_mem' = ex_mem, id_ex' = id_ex, if_id' = if_id, fetch_pc' = fetch_pc,
           predictor' = predictor, mret_in_flight' = mret_in_flight
    PROVE  Learned' /\ Latches' /\ Chain' /\ LoadsApart' /\ Held' /\ IsArch(arch)' /\ IsArch(retired)'
<1>1. Learned'
  BY Zenon DEF Inv, Learned
<1>2. Latches'
  BY Zenon DEF Inv, Latches, IsLatch
<1>3. StayWb' = StayWb /\ StayMem' = StayMem /\ StayEx' = StayEx
  BY Zenon DEF StayWb, StayMem, StayEx
<1>4. InWb' = InWb /\ InMem' = InMem
  BY Zenon DEF InWb, InMem, Describes, Executed
<1>5. ExPc' = ExPc
  BY Zenon DEF ExPc, NextOf
<1>6. IdPc' = IdPc /\ IfPc' = IfPc
  BY Zenon, <1>5 DEF IdPc, IfPc, Predicted
<1>7. InEx' = InEx /\ InId' = InId
  BY Zenon, <1>5, <1>6 DEF InEx, InId
<1>8. Chain'
  BY Zenon, <1>3, <1>4, <1>6, <1>7 DEF Inv, Chain
<1>9. LoadsApart'
  BY Zenon, <1>3 DEF Inv, LoadsApart
<1>10. Held'
  BY Zenon DEF Inv, Held, Returns, Empty
<1>11. IsArch(arch)' /\ IsArch(retired)'
  BY Zenon DEF Inv, Basics, IsArch
<1> QED BY <1>1, <1>2, <1>8, <1>9, <1>10, <1>11

\* While an access is paid for nothing but the count changes.
LEMMA WaitIs ==
    ASSUME Inv, TickWait, retired' = Retired'
    PROVE  /\ code' = code /\ arch' = arch /\ retired' = retired /\ Oldest' = Oldest
           /\ ex_mem' = ex_mem /\ id_ex' = id_ex /\ if_id' = if_id /\ fetch_pc' = fetch_pc
           /\ predictor' = predictor /\ mret_in_flight' = mret_in_flight
           /\ mem' = mem /\ exited' = exited
           /\ memory_wait_cycles' \in Nat
           /\ memory_wait_cycles' = 0 => pending_mem_wb' = None
           /\ memory_wait_cycles' # 0 => /\ mem_wb' = None /\ pending_mem_wb' # None
                                         /\ pending_mem_wb'.res.kind \notin Leaving
<1>1. /\ memory_wait_cycles \in Nat /\ memory_wait_cycles # 0 /\ mem_wb = None /\ pending_mem_wb # None
      /\ pending_mem_wb.res.kind \notin Leaving /\ retired = Retired
  BY DEF TickWait, Inv, Basics
<1>2. stage_wb = arch /\ WbPredictor = predictor
  BY <1>1 DEF stage_wb, WbPredictor
<1>3. /\ code' = code /\ arch' = arch /\ ex_mem' = ex_mem /\ id_ex' = id_ex /\ if_id' = if_id
      /\ fetch_pc' = fetch_pc /\ predictor' = predictor /\ mret_in_flight' = mret_in_flight
      /\ mem' = mem /\ exited' = exited /\ memory_wait_cycles' = memory_wait_cycles - 1
      /\ IF memory_wait_cycles = 1 THEN mem_wb' = pending_mem_wb /\ pending_mem_wb' = None
                                   ELSE mem_wb' = None /\ pending_mem_wb' = pending_mem_wb
  BY Zenon, <1>2 DEF TickWait
<1>4. Oldest' = Oldest
  BY <1>1, <1>3 DEF Oldest
<1>5. retired' = retired
  BY Zenon, <1>1, <1>3, <1>4 DEF Retired
<1>6. memory_wait_cycles' \in Nat /\ (memory_wait_cycles' = 0 <=> memory_wait_cycles = 1)
  BY <1>1, <1>3
<1> QED BY <1>1, <1>3, <1>4, <1>5, <1>6

LEMMA WaitKeeps == ASSUME Inv, TickWait, retired' = Retired' PROVE Inv'
<1>1. /\ code' = code /\ arch' = arch /\ retired' = retired /\ Oldest' = Oldest
      /\ ex_mem' = ex_mem /\ id_ex' = id_ex /\ if_id' = if_id /\ fetch_pc' = fetch_pc
      /\ predictor' = predictor /\ mret_in_flight' = mret_in_flight /\ exited' = exited
      /\ memory_wait_cycles' \in Nat
      /\ memory_wait_cycles' = 0 => pending_mem_wb' = None
      /\ memory_wait_cycles' # 0 => /\ mem_wb' = None /\ pending_mem_wb' # None
                                    /\ pending_mem_wb'.res.kind \notin Leaving
  BY WaitIs
<1>2. Learned' /\ Latches' /\ Chain' /\ LoadsApart' /\ Held' /\ IsArch(arch)' /\ IsArch(retired)'
  BY Zenon, <1>1, SameKeeps
<1>3. Basics'
  BY <1>1, <1>2 DEF Inv, Basics
<1> QED BY <1>2, <1>3 DEF Inv

LEMMA StutterKeeps == ASSUME Inv, UNCHANGED vars PROVE Inv'
<1>1. /\ code' = code /\ arch' = arch /\ retired' = retired /\ mem_wb' = mem_wb
      /\ pending_mem_wb' = pending_mem_wb /\ memory_wait_cycles' = memory_wait_cycles
      /\ ex_mem' = ex_mem /\ id_ex' = id_ex /\ if_id' = if_id /\ fetch_pc' = fetch_pc
      /\ predictor' = predictor /\ mret_in_flight' = mret_in_flight /\ exited' = exited
  BY DEF vars, stages
<1>2. Oldest' = Oldest
  BY <1>1 DEF Oldest
<1>3. Retired' = Retired
  BY Zenon, <1>1, <1>2 DEF Retired
<1>4. Learned' /\ Latches' /\ Chain' /\ LoadsApart' /\ Held' /\ IsArch(arch)' /\ IsArch(retired)'
  BY Zenon, <1>1, <1>2, SameKeeps
<1>5. Basics'
  BY <1>1, <1>3, <1>4 DEF Inv, Basics
<1> QED BY <1>4, <1>5 DEF Inv

-----------------------------------------------------------------------------
(* A tick that starts to pay for an access. *)

Stalls == Inv /\ Careful /\ TickMemoryStall /\ retired' = Retired'

LEMMA StallIs ==
    ASSUME Stalls
    PROVE  /\ Running /\ Retires /\ ex_mem # None /\ mem_stage.reg # None
           /\ mem_stage.reg.res.kind \notin Leaving
           /\ arch' = mem_stage.arch /\ Oldest' = mem_stage.reg /\ retired' = After
           /\ fetch_pc' = fetch_pc /\ code' = code /\ exited' = exited /\ mem' = mem_stage.mem
           /\ mret_in_flight' = mret_in_flight /\ if_id' = if_id /\ ex_mem' = None /\ mem_wb' = None
           /\ pending_mem_wb' = mem_stage.reg /\ predictor' = WbPredictor
           /\ memory_wait_cycles' \in Nat \ {0}
<1>1. Basics /\ Chain /\ TickMemoryStall /\ Faultless
  BY DEF Stalls, Inv, Careful
<1>2. Running /\ Retires /\ mem_stage.reg.res.kind \in {"WriteInt", "WriteFp", "Jump"} /\ ex_mem # None
  BY <1>1, StallRetires
<1>3. mem_stage.reg.res.kind \notin Leaving
  BY <1>2 DEF Leaving
<1>4. WbFetch = fetch_pc
  BY Zenon, <1>1, <1>2, FrontIs
<1>5. /\ arch' = mem_stage.arch /\ fetch_pc' = WbFetch /\ code' = code /\ exited' = exited
      /\ mem' = mem_stage.mem /\ mret_in_flight' = mret_in_flight /\ if_id' = if_id
      /\ ex_mem' = None /\ mem_wb' = None /\ pending_mem_wb' = mem_stage.reg
      /\ predictor' = WbPredictor /\ mem_stage.reg # None
      /\ \E n \in Latencies \ {0} : memory_wait_cycles' = n
  BY Zenon, <1>1 DEF TickMemoryStall
<1>6. memory_wait_cycles' \in Nat \ {0}
  BY <1>5, PipelineAssumption
<1>7. Oldest' = mem_stage.reg
  BY <1>5 DEF Oldest
<1>8. retired' = After
  BY Zenon, <1>2, <1>5, <1>7 DEF Stalls, Retired, After
<1> QED BY Zenon, <1>2, <1>3, <1>4, <1>5, <1>6, <1>7, <1>8

LEMMA StallOperands ==
    ASSUME Stalls
    PROVE  /\ id_ex = None <=> id_ex' = None
           /\ id_ex' # None =>
                /\ IsLatch(id_ex) /\ Decodes(id_ex.raw) /\ Shape(id_ex')
                /\ id_ex'.pc = id_ex.pc /\ id_ex'.raw = id_ex.raw
                /\ id_ex'.ops = ReadOperands(arch', decode(id_ex.raw))
                /\ id_ex'.taken = id_ex.taken /\ id_ex'.target = id_ex.target
                /\ Predicted(id_ex') = Predicted(id_ex)
<1> DEFINE o == ReadOperands(mem_stage.arch, decode(id_ex.raw))
           l == WithOps(id_ex, o)
<1>1. id_ex' = IF id_ex = None THEN None ELSE l
  BY Zenon DEF Stalls, TickMemoryStall, WithOps
<1>2. id_ex # None => IsLatch(id_ex) /\ Decodes(id_ex.raw) /\ Shape(id_ex)
  BY Zenon DEF Stalls, Inv, Latches, IsLatch, Shape
<1>3. arch' = mem_stage.arch
  BY StallIs
<1>4. o = ReadOperands(arch', decode(id_ex.raw))
  BY Zenon, <1>3
<1> HIDE DEF o
<1>5. id_ex # None => /\ l # None /\ Shape(l) /\ l.pc = id_ex.pc /\ l.raw = id_ex.raw /\ l.ops = o
                      /\ l.taken = id_ex.taken /\ l.target = id_ex.target
  BY <1>2, WithOpsIs
<1> HIDE DEF l
<1>6. id_ex # None => Predicted(l) = Predicted(id_ex)
  BY Zenon, <1>5 DEF Predicted
<1> QED BY Zenon, <1>1, <1>2, <1>4, <1>5, <1>6

LEMMA StallKeeps == ASSUME Stalls PROVE Inv'
<1>1. /\ Basics /\ Chain /\ Latches /\ Learned /\ Held /\ Faultless
  BY DEF Stalls, Inv, Careful
<1>2. /\ Running /\ Retires /\ ex_mem # None /\ mem_stage.reg # None
      /\ mem_stage.reg.res.kind \notin Leaving
      /\ arch' = mem_stage.arch /\ Oldest' = mem_stage.reg /\ retired' = After
      /\ fetch_pc' = fetch_pc /\ code' = code /\ exited' = exited
      /\ mret_in_flight' = mret_in_flight /\ if_id' = if_id /\ ex_mem' = None /\ mem_wb' = None
      /\ pending_mem_wb' = mem_stage.reg /\ predictor' = WbPredictor
      /\ memory_wait_cycles' \in Nat \ {0}
  BY StallIs
<1>3. /\ IsArch(arch') /\ IsArch(retired') /\ InWb'
      /\ StayWb' => StayMem /\ retired'.pc = ExPc
  BY Zenon, <1>1, <1>2, MemKeeps
<1>4. Basics'
  <2>1. IsArch(arch)' /\ IsArch(retired)'
    BY Zenon, <1>3 DEF IsArch
  <2>2. retired' = Retired'
    BY DEF Stalls
  <2> QED BY <1>1, <1>2, <2>1, <2>2 DEF Basics
<1>5. Learned'
  BY Zenon, <1>1, <1>2, LearnedWb DEF LearnedBy, Learned
<1>6. Latches'
  <2>1. (if_id # None => IsLatch(if_id))'
    BY Zenon, <1>1, <1>2 DEF Latches, IsLatch
  <2>2. id_ex' # None => IsLatch(id_ex') /\ Decodes(id_ex'.raw)
    BY Zenon, StallOperands DEF IsLatch, Shape
  <2>3. (id_ex # None => IsLatch(id_ex) /\ Decodes(id_ex.raw))'
    BY Zenon, <1>2, <2>2 DEF IsLatch
  <2> QED BY Zenon, <2>1, <2>3 DEF Latches
<1>7. StayWb' => ExPc' = ExPc
  BY Zenon, <1>2, <1>3 DEF ExPc
<1>8. StayWb' => IdPc' = IdPc
  <2>1. id_ex' # None => IdPc' = Predicted(id_ex')
    BY Zenon DEF IdPc, Predicted
  <2>2. id_ex' = None => IdPc' = ExPc'
    BY Zenon DEF IdPc
  <2> QED BY Zenon, <1>7, <2>1, <2>2, StallOperands DEF IdPc
<1>9. StayWb' => IfPc' = IfPc
  BY Zenon, <1>2, <1>8 DEF IfPc, Predicted
<1>10. StayMem' => StayWb' /\ StayMem
  BY Zenon, <1>3 DEF StayMem
<1>11. StayEx' => StayMem' /\ StayEx
  <2> SUFFICES ASSUME StayEx' PROVE StayMem' /\ StayEx
    OBVIOUS
  <2>1. StayMem' /\ (id_ex' # None => decode(id_ex'.raw).op \notin Leaving)
    BY Zenon DEF StayEx
  <2> QED BY Zenon, <1>10, <2>1, StallOperands DEF StayEx
<1>12. ASSUME StayMem' PROVE InEx'
  <2> SUFFICES ASSUME id_ex' # None
               PROVE  id_ex'.pc = ExPc' /\ id_ex'.ops = ReadOperands(arch, decode(id_ex.raw))'
    BY Zenon DEF InEx
  <2>1. id_ex # None /\ id_ex'.pc = id_ex.pc /\ id_ex'.ops = ReadOperands(arch', decode(id_ex'.raw))
    BY Zenon, StallOperands
  <2>2. id_ex.pc = ExPc
    BY Zenon, <1>1, <1>10, <1>12, <2>1 DEF Chain, InEx
  <2> QED BY Zenon, <1>7, <1>10, <1>12, <2>1, <2>2
<1>13. ASSUME StayEx' PROVE InId' /\ fetch_pc' = IfPc'
  <2>1. InId /\ fetch_pc = IfPc
    BY Zenon, <1>1, <1>11, <1>13 DEF Chain
  <2>2. IdPc' = IdPc /\ IfPc' = IfPc
    BY Zenon, <1>8, <1>9, <1>10, <1>11, <1>13
  <2> QED BY Zenon, <1>2, <2>1, <2>2 DEF InId
<1>14. Chain'
  <2>1. InMem'
    BY Zenon, <1>2 DEF InMem
  <2> QED BY Zenon, <1>3, <1>12, <1>13, <2>1 DEF Chain
<1>15. LoadsApart'
  BY Zenon, <1>2 DEF LoadsApart
<1>16. Held'
  <2> SUFFICES ASSUME mret_in_flight' PROVE (Returns(if_id)' /\ Returns(id_ex)') \/ Empty'
    BY Zenon DEF Held
  <2>1. (Returns(if_id) /\ Returns(id_ex)) \/ Empty
    BY Zenon, <1>1, <1>2 DEF Held
  <2>2. CASE Empty
    BY Zenon, <1>2, <2>2, StallOperands DEF Empty
  <2>3. CASE Returns(if_id) /\ Returns(id_ex)
    <3>1. id_ex' # None /\ id_ex'.raw = id_ex.raw
      BY Zenon, <2>3, StallOperands DEF Returns
    <3> QED BY Zenon, <1>2, <2>3, <3>1 DEF Returns
  <2> QED BY <2>1, <2>2, <2>3
<1> QED BY <1>4, <1>5, <1>6, <1>14, <1>15, <1>16 DEF Inv

-----------------------------------------------------------------------------
(* The theorems. *)

LEMMA AdvanceFits ==
    ASSUME Inv, Careful, Careful', TickAdvance, retired' = Retired'
    PROVE  Advances
<1>1. Running
  BY DEF TickAdvance, Running
<1>2. Basics /\ Faultless'
  BY DEF Inv, Careful
<1>3. Retires
  BY <1>2, AdvanceRetires
<1> QED BY <1>1, <1>3 DEF Advances

LEMMA NextKeeps == Inv /\ Careful /\ Careful' /\ [Next]_vars => Inv'
<1> SUFFICES ASSUME Inv, Careful, Careful', [Next]_vars PROVE Inv'
  OBVIOUS
<1>1. CASE UNCHANGED vars
  BY <1>1, StutterKeeps
<1>2. CASE TickSquash /\ retired' = Retired'
  BY <1>2, SquashKeeps
<1>3. CASE TickWait /\ retired' = Retired'
  BY <1>3, WaitKeeps
<1>4. CASE TickInterrupt /\ retired' = Retired'
  BY <1>4, InterruptKeeps
<1>5. CASE TickMemoryStall /\ retired' = Retired'
  BY <1>5, StallKeeps DEF Stalls
<1>6. CASE TickAdvance /\ retired' = Retired'
  BY <1>6, AdvanceFits, AdvanceKeeps
<1>7. CASE Halted
  BY Zenon, <1>7, <1>1 DEF Halted
<1> QED BY Zenon, <1>1, <1>2, <1>3, <1>4, <1>5, <1>6, <1>7 DEF Next, Tick

\* The stage registers hold the program's path in order, each with what its
\* stage computed from the state in which everything ahead of it has retired,
\* and the predictor has learnt targets of jumps only, in the behaviours the
\* hypotheses describe (tick and the stages it calls).
THEOREM PipelineInvariant == Spec /\ []Careful => []Inv
BY InitInv, NextKeeps, PTL DEF Spec

LEMMA InvOnPath == Inv => OnPath
<1> SUFFICES ASSUME Inv PROVE OnPath
  OBVIOUS
<1>1. Chain
  BY DEF Inv
<1>2. Oldest # None => Oldest.pc = arch.pc
  BY Zenon, <1>1 DEF Chain, InWb
<1>3. ASSUME StayWb, ex_mem # None PROVE ex_mem.pc = retired.pc
  <2>1. Executed(ex_mem, retired)
    BY Zenon, <1>1, <1>3 DEF Chain, InMem
  <2> DEFINE i == decode(code[retired.pc])
             r == execute(retired, i, ReadOperands(retired, i), retired.pc)
             l == insn_is_load(i) \/ insn_is_atomic(i)
             w == InfoOf(r, i)
  <2>2. ex_mem = [pc |-> retired.pc, res |-> r, is_load |-> l, fwd |-> w]
    BY Zenon, <2>1 DEF Executed
  <2> HIDE DEF r, l, w
  <2> QED BY <2>2
<1>4. ASSUME StayWb, id_ex # None, ex_mem = None PROVE id_ex.pc = retired.pc
  <2>1. StayMem
    BY Zenon, <1>4 DEF StayMem
  <2> QED BY Zenon, <1>1, <1>4, <2>1 DEF Chain, InEx, ExPc
<1>5. ASSUME StayWb, id_ex # None, ex_mem # None, ex_mem.res.kind \notin {"ecall", "mret", "sret"}
      PROVE  id_ex.pc = IF ex_mem.res.kind \in {"sfence", "ebreak"} THEN ex_mem.pc + 1
                        ELSE ex_mem.res.next
  <2>1. StayMem
    BY Zenon, <1>5 DEF StayMem, Leaving
  <2> QED BY Zenon, <1>1, <1>5, <2>1 DEF Chain, InEx, ExPc, NextOf
<1>6. Oldest = None \/ Oldest.res.kind \notin {"ecall", "mret", "sret"} => StayWb
  BY Zenon DEF StayWb, Leaving
<1> QED BY Zenon, <1>2, <1>3, <1>4, <1>5, <1>6 DEF OnPath

\* Nothing past decode is speculative: the instruction in EX, MEM or WB is the
\* one the program executes after the one ahead of it (tick, stage_ex and
\* resolve_control_flow), under the same hypotheses.
THEOREM PipelineOnPath == Spec /\ []Careful => []OnPath
BY PipelineInvariant, InvOnPath, PTL

-----------------------------------------------------------------------------
(* The pipeline implements FunctionalCore. *)

\* Functional's copies of the operators of Rv64 are the ones of Pipeline.
LEMMA SameFields ==
    /\ F!Reset("U") = Reset("U")
    /\ \A c, pc : F!Fetchable(c, pc) = Fetchable(c, pc)
    /\ \A w : F!Decodes(w) = Decodes(w)
    /\ \A w : F!decode(w) = decode(w)
BY Zenon DEF F!Reset, Reset, F!Fetchable, Fetchable, F!Decodes, Decodes, F!decode, decode

LEMMA SameOperands ==
    \A a, i : F!Operands(a, i) = ReadOperands(a, i)
BY Zenon DEF F!Operands, ReadOperands, F!read_x, read_x, F!insn_rs1, insn_rs1, F!insn_rs2, insn_rs2,
   F!insn_frs1, insn_frs1, F!insn_frs2, insn_frs2

LEMMA SameExecute ==
    \A a, i, ops, pc : F!execute(a, i, ops, pc) = execute(a, i, ops, pc)
BY DEF F!execute, execute, F!Next1, Next1, F!insn_rd, insn_rd, F!IntDest, IntDest,
   F!FpDest, FpDest, F!read_f_bits, read_f_bits, F!insn_frs1, insn_frs1, F!insn_frs2, insn_frs2,
   F!insn_is_atomic, insn_is_atomic, F!Rank, Rank, F!csr_priv, csr_priv, F!Fault, Fault,
   F!Known, Known, F!csr_read, csr_read

LEMMA SameMemory ==
    \A r, mm, resv : F!memory_stage(r, mm, resv) = memory_stage(r, mm, resv)
BY DEF F!memory_stage, memory_stage, F!handle_atomic, handle_atomic, F!amo_op, amo_op,
   F!Loaded, Loaded, F!Fault, Fault

LEMMA SameTrap ==
    /\ \A a, cause, pc : F!take_trap(a, cause, pc) = take_trap(a, cause, pc)
    /\ \A a : F!pending(a) = pending(a)
BY Zenon DEF F!take_trap, take_trap, F!pending, pending

LEMMA SameWriteback ==
    \A a, r : F!writeback(a, r) = writeback(a, r)
BY DEF F!writeback, writeback, F!csr_read, csr_read, F!csr_write, csr_write, F!write_x, write_x,
   F!write_f, write_f, F!Known, Known, F!take_trap, take_trap, F!Next1, Next1,
   F!handle_mret, handle_mret, F!handle_sret, handle_sret, F!sret_legal, sret_legal

LEMMA InitRefines == Init => F!Init
BY Zenon, SameFields DEF Init, F!Init

\* What MEM retires is one step of the functional core.
LEMMA RetireRefines ==
    ASSUME Basics, Chain, Running, Faultless, Retires, ex_mem # None,
           retired' = After, mem' = mem_stage.mem, code' = code,
           exited' = (ex_mem.res.kind = "exit")
    PROVE  F!Next
<1> DEFINE i == decode(code[retired.pc])
           r == execute(retired, i, ReadOperands(retired, i), retired.pc)
           m == memory_stage(r, mem, retired.resv)
           a == [retired EXCEPT !.resv = m.resv]
<1>1. /\ Fetchable(code, retired.pc) /\ Decodes(code[retired.pc])
      /\ ex_mem.res = r
      /\ ex_mem.res.kind # "Err" /\ MemResult.res.kind # "Err"
      /\ MemResult = memory_stage(ex_mem.res, mem, retired.resv)
      /\ mem_stage.mem = MemResult.mem
      /\ mem_stage.arch = WithResv(retired, MemResult.resv)
      /\ After = writeback(mem_stage.arch, MemResult.res)
  BY Zenon, MemRetires
<1>2. m = MemResult
  BY Zenon, <1>1
<1>3. a = mem_stage.arch
  BY Zenon, <1>1, <1>2 DEF WithResv
<1>4. /\ r.kind # "Err" /\ m.res.kind # "Err" /\ retired' = writeback(a, m.res) /\ mem' = m.mem
      /\ exited' = (r.kind = "exit") /\ code' = code
  BY Zenon, <1>1, <1>2, <1>3
<1>5. /\ F!Fetchable(code, retired.pc) /\ F!Decodes(code[retired.pc])
      /\ F!decode(code[retired.pc]) = i
      /\ F!execute(retired, i, F!Operands(retired, i), retired.pc) = r
      /\ F!memory_stage(r, mem, retired.resv) = m
      /\ F!writeback(a, m.res) = writeback(a, m.res)
  BY Zenon, <1>1, SameFields, SameOperands, SameExecute, SameMemory, SameWriteback
<1> HIDE DEF i, r, m
<1>6. F!Execute
  BY Zenon, <1>4, <1>5 DEF F!Execute
<1> QED BY Zenon, <1>6 DEF F!Next, Running

LEMMA NextRefines ==
    Inv /\ Careful /\ Careful' /\ [Next]_vars => [F!Next]_(F!vars)
<1> SUFFICES ASSUME Inv, Careful, Careful', [Next]_vars PROVE [F!Next]_(F!vars)
  OBVIOUS
<1>1. CASE UNCHANGED vars
  BY Zenon, <1>1 DEF vars, F!vars
<1>2. CASE TickSquash /\ retired' = Retired'
  BY Zenon, <1>2, SquashIs DEF F!vars
<1>3. CASE TickWait /\ retired' = Retired'
  BY Zenon, <1>3, WaitIs DEF F!vars
<1>4. CASE TickInterrupt /\ retired' = Retired'
  <2>1. /\ Running /\ pending(retired)
        /\ retired' = take_trap(retired, "irq", retired.pc)
        /\ code' = code /\ mem' = mem /\ exited' = exited
    BY Zenon, <1>4, InterruptIs
  <2> QED BY Zenon, <2>1, SameTrap DEF F!Next, F!Interrupt, F!Trap, Running
<1>5. CASE TickMemoryStall /\ retired' = Retired'
  <2>1. Stalls
    BY <1>5 DEF Stalls
  <2>2. /\ Running /\ Retires /\ ex_mem # None /\ retired' = After /\ code' = code
        /\ mem' = mem_stage.mem /\ exited' = exited
    BY Zenon, <2>1, StallIs
  <2>3. ex_mem.res.kind # "exit" /\ exited = FALSE
    BY <1>5 DEF TickMemoryStall, Timed, Inv, Basics
  <2>4. (ex_mem.res.kind = "exit") = FALSE
    BY Zenon, <2>3
  <2>5. exited' = (ex_mem.res.kind = "exit")
    BY Zenon, <2>2, <2>3, <2>4
  <2>6. Basics /\ Chain /\ Faultless
    BY DEF Inv, Careful
  <2> QED BY Zenon, <2>2, <2>5, <2>6, RetireRefines
<1>6. CASE TickAdvance /\ retired' = Retired'
  <2>1. Advances
    BY <1>6, AdvanceFits
  <2>2. /\ retired' = After /\ code' = code /\ mem' = mem_stage.mem
        /\ exited' = (ex_mem # None /\ ex_mem.res.kind = "exit")
        /\ ex_mem = None => After = retired /\ mem_stage.mem = mem
    BY Zenon, <2>1, AdvanceIs
  <2>3. Basics /\ Chain /\ Running /\ Faultless /\ Retires
    BY Zenon, <2>1 DEF Advances, Inv, Careful
  <2>4. CASE ex_mem = None
    <3>1. exited = FALSE
      BY <2>3 DEF Running, Basics
    <3>2. (ex_mem # None /\ ex_mem.res.kind = "exit") = FALSE
      BY Zenon, <2>4
    <3> QED BY Zenon, <2>2, <2>4, <3>1, <3>2 DEF F!vars
  <2>5. CASE ex_mem # None
    <3>1. (ex_mem # None /\ ex_mem.res.kind = "exit") = (ex_mem.res.kind = "exit")
      BY Zenon, <2>5
    <3>2. exited' = (ex_mem.res.kind = "exit")
      BY Zenon, <2>2, <3>1
    <3> QED BY Zenon, <2>2, <2>3, <2>5, <3>2, RetireRefines
  <2> QED BY <2>4, <2>5
<1>7. CASE Halted
  BY Zenon, <1>7, <1>1 DEF Halted
<1> QED BY Zenon, <1>1, <1>2, <1>3, <1>4, <1>5, <1>6, <1>7 DEF Next, Tick

\* The program sees the functional core: every tick retires one instruction of
\* it, takes one of its interrupts or is not seen, whatever is predicted,
\* forwarded, stalled or squashed (PipelinedCore against FunctionalCore), under
\* the same hypotheses.
THEOREM PipelineRefinesFunctional == Spec /\ []Careful => RefinesFunctional
<1>1. Spec /\ []Careful => []Inv
  BY PipelineInvariant
<1> QED BY <1>1, InitRefines, NextRefines, PTL DEF Spec, RefinesFunctional
=============================================================================
