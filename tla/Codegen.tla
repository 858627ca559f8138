------------------------------- MODULE Codegen -------------------------------
(* From IR to RV64: the optimisation passes of hll-to-ir (phi simplification,
   constant folding, dead-code elimination), the register allocation and slot
   colouring of ir-to-asm, and the code compile_function emits, phis turned
   into copies on the edges.

   A run picks a function, interprets its IR, compiles it with some of the
   options on, and executes the result on physical registers and stack slots.
   What both show to the outside, the arguments of calls and the addresses of
   loads, has to be the same.

   An instruction is a record: k is its kind, dest the register it writes (""
   for none), ty the type of the result, args its operands, from the labels of
   a phi.  "math" stands for the integer operations the folder evaluates, "cmp"
   for comparisons, "zext" for the casts, "call" and "load" for everything kept
   for its effects; the operand of a load is a pointer register, which never
   becomes a constant.  An operand names a register r, or is the constant n
   when r is "".  Labels are positions in the sequence of blocks.

   Three widths are enough to tell conversions apart: i1, a narrow integer of
   NarrowBits (i8, i16, i32) and the WordBits of a register (i64). *)
EXTENDS Integers, Sequences, SequencesExt, FiniteSetsExt

CONSTANTS
    Programs,    \* functions to compile: [params, blocks]
    NPhys,       \* allocatable registers, s2..s11 in the code
    NarrowBits, WordBits,
    InputWords,  \* arguments, results of calls, loaded values
    MaxInputs    \* bound on the number of them in an execution

ASSUME CodegenAssumption ==
    /\ NPhys \in Nat /\ MaxInputs \in Nat
    /\ NarrowBits \in 1..WordBits
    /\ InputWords \subseteq -2^(WordBits - 1)..(2^(WordBits - 1) - 1)

VARIABLES
    func,     \* the function, as the front end built it
    inputs,   \* its arguments and the results of its calls, in order
    ir,       \* interpretation of the IR
    blocks,   \* the blocks after the passes
    homes,    \* phys_regs and reg_slots of the FunctionContext
    mach      \* execution of the emitted code

vars == <<func, inputs, ir, blocks, homes, mach>>

-----------------------------------------------------------------------------
(* Words. *)

\* Bits of memory a value of type ty takes; an i1 takes a byte.
Bits(ty) == IF ty = "word" THEN WordBits ELSE NarrowBits
unsigned(v, bits) == v % 2^bits
signed(v, bits) ==
    LET u == unsigned(v, bits)
    IN  IF u < 2^(bits - 1) THEN u ELSE u - 2^bits

\* The value a result of type ty has when it is read again; i1 holds 0 or 1.
sext(v, ty) == IF ty = "i1" THEN v % 2 ELSE signed(v, Bits(ty))

Const(n) == [r |-> "", n |-> n]
IsConst(v) == v.r = ""
Regs(args) == {args[j].r : j \in DOMAIN args} \ {""}

inst_uses(inst) == Regs(inst.args)
inst_defs(inst) == {inst.dest} \ {""}
term_uses(term) == Regs(<<term.val>>)
Code(bs) == UNION {{bs[b].code[i] : i \in DOMAIN bs[b].code} : b \in DOMAIN bs}
IsPhi(inst) == inst.k = "phi"
Phis(block) == SelectSeq(block.code, IsPhi)

-----------------------------------------------------------------------------
(* opt/phi.rs *)

used_as_pointer(bs, r) == \E inst \in Code(bs) : inst.k = "load" /\ r \in inst_uses(inst)

\* The values a phi can take, itself left out.
Incoming(inst) == {inst.args[j] : j \in DOMAIN inst.args} \ {[r |-> inst.dest, n |-> 0]}

Trivial(bs, inst) ==
    /\ IsPhi(inst)
    /\ \E v \in Incoming(inst) :
          /\ Incoming(inst) = {v}
          /\ IsConst(v) => ~used_as_pointer(bs, inst.dest)

replace_uses(bs, from, to) ==
    LET sub(v) == IF v.r = from THEN to ELSE v
        inInst(inst) ==
            IF inst.k = "load" /\ IsConst(to) THEN inst
            ELSE [inst EXCEPT !.args = [j \in DOMAIN @ |-> sub(@[j])]]
    IN  [b \in DOMAIN bs |->
            [code |-> [i \in DOMAIN bs[b].code |-> inInst(bs[b].code[i])],
             term |-> [bs[b].term EXCEPT !.val = sub(@)]]]

remove_phi(bs, dest) ==
    LET other(inst) == ~(IsPhi(inst) /\ inst.dest = dest)
    IN  [b \in DOMAIN bs |-> [bs[b] EXCEPT !.code = SelectSeq(@, other)]]

\* run: the first trivial phi goes, until there is none.
RECURSIVE phi_simplify(_)
phi_simplify(bs) ==
    LET found == {at \in (DOMAIN bs) \X (1..Max({Len(bs[b].code) : b \in DOMAIN bs})) :
                    at[2] \in DOMAIN bs[at[1]].code /\ Trivial(bs, bs[at[1]].code[at[2]])}
        first == CHOOSE at \in found : \A o \in found :
                    at[1] < o[1] \/ (at[1] = o[1] /\ at[2] <= o[2])
        phi == bs[first[1]].code[first[2]]
        value == CHOOSE v \in Incoming(phi) : TRUE
    IN  IF found = {} THEN bs
        ELSE phi_simplify(replace_uses(remove_phi(bs, phi.dest), phi.dest, value))

-----------------------------------------------------------------------------
(* opt/const_fold.rs *)

fold(inst) ==
    LET l == inst.args[1].n
        r == inst.args[2].n
    IN  IF inst.k = "math" THEN sext(l + r, inst.ty)
        ELSE IF unsigned(l, WordBits) < unsigned(r, WordBits) THEN 1 ELSE 0

\* Operands a constant may flow into: not those of a phi, not pointers.
Substitutable == {"math", "cmp", "zext", "call"}

fold_instruction(acc, inst) ==
    LET known(v) == IF v.r \in DOMAIN acc.consts THEN Const(acc.consts[v.r]) ELSE v
        new == IF inst.k \in Substitutable
               THEN [inst EXCEPT !.args = [j \in DOMAIN @ |-> known(@[j])]]
               ELSE inst
        others == [r \in (DOMAIN acc.consts) \ {inst.dest} |-> acc.consts[r]]
        folds == new.k \in {"math", "cmp"} /\ \A j \in DOMAIN new.args : IsConst(new.args[j])
    IN  [consts |-> IF folds THEN others @@ (new.dest :> fold(new)) ELSE others,
         code |-> Append(acc.code, new)]

FoldBlock(known, block) ==
    LET acc == FoldLeft(fold_instruction, [consts |-> known, code |-> <<>>], block.code)
        v == block.term.val
        term == IF v.r \in DOMAIN acc.consts
                THEN [block.term EXCEPT !.val = Const(acc.consts[v.r])]
                ELSE block.term
    IN  [consts |-> acc.consts, block |-> [code |-> acc.code, term |-> term]]

const_fold(bs) == [b \in DOMAIN bs |-> FoldBlock(<<>>, bs[b]).block]

-----------------------------------------------------------------------------
(* opt/dce.rs and opt/mod.rs *)

collect_used_registers(bs) ==
    UNION {inst_uses(inst) : inst \in Code(bs)} \cup UNION {term_uses(bs[b].term) : b \in DOMAIN bs}

RECURSIVE dce(_)
dce(bs) ==
    LET used == collect_used_registers(bs)
        keep_instruction(inst) == inst.k \in {"call", "load"} \/ inst.dest \in used
        kept == [b \in DOMAIN bs |-> [bs[b] EXCEPT !.code = SelectSeq(@, keep_instruction)]]
    IN  IF kept = bs THEN bs ELSE dce(kept)

\* optimize_function: enabled passes in this order, at most MAX_ROUNDS times.
MAX_ROUNDS == 16
RECURSIVE optimize(_, _, _)
optimize(bs, opts, round) ==
    LET a == IF "phi" \in opts THEN phi_simplify(bs) ELSE bs
        b == IF "fold" \in opts THEN const_fold(a) ELSE a
        c == IF "dce" \in opts THEN dce(b) ELSE b
    IN  IF c = bs \/ round = MAX_ROUNDS THEN c ELSE optimize(c, opts, round + 1)

-----------------------------------------------------------------------------
(* slot_coloring.rs *)

Succ(bs, b) == {bs[b].term.to[j] : j \in DOMAIN bs[b].term.to}

\* Live before instruction i of a block whose successors need out; i is one
\* past the end for the terminator.
RECURSIVE LiveAt(_, _, _)
LiveAt(block, i, out) ==
    IF i > Len(block.code) THEN out \cup term_uses(block.term)
    ELSE (LiveAt(block, i + 1, out) \ inst_defs(block.code[i])) \cup inst_uses(block.code[i])

\* Mutant: liveness stops after one pass over the blocks.
LiveIn_OnePass(bs, in) ==
    [b \in DOMAIN bs |-> LiveAt(bs[b], 1, UNION {in[s] : s \in Succ(bs, b)})]

\* Backward dataflow to a fixpoint, started from empty sets.
RECURSIVE LiveIn(_, _)
LiveIn(bs, in) ==
    LET next == [b \in DOMAIN bs |-> LiveAt(bs[b], 1, UNION {in[s] : s \in Succ(bs, b)})]
    IN  IF next = in THEN in ELSE LiveIn(bs, next)

\* Every definition interferes with what is live after it; parameters with each
\* other and with what is live at the entry.
build_interference(bs, params, colorable) ==
    LET in == LiveIn(bs, [b \in DOMAIN bs |-> {}])
        out(b) == UNION {in[s] : s \in Succ(bs, b)}
        ofDefs == UNION {UNION {{{d, v} : d \in inst_defs(bs[b].code[i]),
                                          v \in LiveAt(bs[b], i + 1, out(b))}
                                : i \in DOMAIN bs[b].code} : b \in DOMAIN bs}
        ofParams == {{p, v} : p \in params, v \in params \cup in[1]}
    IN  {e \in ofDefs \cup ofParams : e \subseteq colorable /\ Cardinality(e) = 2}

\* The first color no neighbour of r has; colors is a partial function.
Free(edges, colors, r) ==
    LET taken == {colors[v] : v \in {w \in DOMAIN colors : {r, w} \in edges}}
    IN  CHOOSE c \in 0..Cardinality(taken) :
            c \notin taken /\ \A lower \in 0..(c - 1) : lower \in taken

greedy_color(order, edges) ==
    LET step(colors, r) == colors @@ (r :> Free(edges, colors, r))
    IN  FoldLeft(step, <<>>, order)

-----------------------------------------------------------------------------
(* register_allocator.rs and stack_slots.rs *)

\* The registers of the function, parameters first, then as they are defined.
vregs(f, bs) ==
    LET dests(block) == LET d(inst) == inst.dest # ""
                            ds == SelectSeq(block.code, d)
                        IN  [i \in DOMAIN ds |-> ds[i].dest]
    IN  [i \in DOMAIN f.params |-> f.params[i].r]
            \o FlattenSeq([b \in DOMAIN bs |-> dests(bs[b])])

TypeOf(f, bs) ==
    [r \in Range(vregs(f, bs)) |->
        IF \E i \in DOMAIN f.params : f.params[i].r = r
        THEN f.params[CHOOSE i \in DOMAIN f.params : f.params[i].r = r].ty
        ELSE (CHOOSE inst \in Code(bs) : inst.dest = r).ty]

phi_regs(bs) ==
    UNION {inst_uses(inst) \cup inst_defs(inst) : inst \in {c \in Code(bs) : IsPhi(c)}}

Count(args, r) == Cardinality({j \in DOMAIN args : args[j].r = r})
count_uses(bs, r) ==
    LET ofInst(n, inst) == n + Count(inst.args, r) + (IF inst.dest = r THEN 1 ELSE 0)
        ofBlock(n, block) == FoldLeft(ofInst, n, block.code) + Count(<<block.term.val>>, r)
    IN  FoldLeft(ofBlock, 0, bs)

\* Hottest candidates first, each on the first register none of its neighbours
\* has; the ones that find none are left to the slots.
allocate_registers(f, bs) ==
    LET all == vregs(f, bs)
        eligible(r) == r \notin phi_regs(bs)
        candidates == SelectSeq(all, eligible)
        index(r) == CHOOSE i \in DOMAIN candidates : candidates[i] = r
        before(r, s) == \/ count_uses(bs, r) > count_uses(bs, s)
                        \/ count_uses(bs, r) = count_uses(bs, s) /\ index(r) < index(s)
        edges == build_interference(bs, {f.params[i].r : i \in DOMAIN f.params}, Range(candidates))
        step(assigned, r) == LET c == Free(edges, assigned, r)
                             IN  IF c < NPhys THEN assigned @@ (r :> c) ELSE assigned
    IN  FoldLeft(step, <<>>, SortSeq(candidates, before))

\* assign_stack_slots: a home is a physical register or a slot of the frame.
assign_stack_slots(f, bs, regalloc) ==
    LET phys == IF regalloc THEN allocate_registers(f, bs) ELSE <<>>
        left(r) == r \notin DOMAIN phys
        order == SelectSeq(vregs(f, bs), left)
        edges == build_interference(bs, {f.params[i].r : i \in DOMAIN f.params}, Range(order))
        slots == greedy_color(order, edges)
    IN  [r \in Range(vregs(f, bs)) |->
            IF r \in DOMAIN phys THEN <<"phys", phys[r]>> ELSE <<"slot", slots[r]>>]

-----------------------------------------------------------------------------
(* What the IR means.  ir.b and ir.i are the position, val the registers, out
   what the outside has seen.  The phis of a block take their values together,
   by the block control comes from. *)

Types == TypeOf(func, func.blocks)
Body == func.blocks
IrRead(v) == IF IsConst(v) THEN v.n ELSE ir.val[v.r]

IrCompute(inst) ==
    CASE inst.k = "math" -> sext(IrRead(inst.args[1]) + IrRead(inst.args[2]), inst.ty)
      [] inst.k = "cmp"  -> LET u(v) == unsigned(IrRead(v), WordBits)
                            IN  IF u(inst.args[1]) < u(inst.args[2]) THEN 1 ELSE 0
      [] inst.k = "zext" -> LET v == inst.args[1]
                                ty == IF IsConst(v) THEN "word" ELSE Types[v.r]
                            IN  IF ty = "word" THEN IrRead(v) ELSE unsigned(IrRead(v), Bits(ty))

\* What a call or a load shows, and what it may answer.
Event(inst, read(_)) == [k |-> inst.k, args |-> [j \in DOMAIN inst.args |-> read(inst.args[j])]]
Returned(v) == [k |-> "ret", args |-> <<v>>]
Answers(ty) == {w \in InputWords : sext(w, ty) = w}

\* The position of the first operand of a phi that comes from block pred.
Arm(phi, pred) ==
    CHOOSE j \in DOMAIN phi.from : phi.from[j] = pred /\ \A h \in 1..(j - 1) : phi.from[h] # pred

IrEnter(pred, b) ==
    LET phis == Phis(Body[b])
        dests == {phis[j].dest : j \in DOMAIN phis}
        of(r) == LET phi == phis[CHOOSE j \in DOMAIN phis : phis[j].dest = r]
                 IN  IrRead(phi.args[Arm(phi, pred)])
    IN  ir' = [ir EXCEPT !.b = b, !.i = Len(phis) + 1,
                         !.val = [r \in DOMAIN @ |-> IF r \in dests THEN of(r) ELSE @[r]]]

\* A branch takes its first target unless its condition is 0.
Target(term, v) == IF Len(term.to) = 2 /\ v = 0 THEN term.to[2] ELSE term.to[1]

IrStep ==
    /\ ~ir.done /\ ir.i <= Len(Body[ir.b].code)
    /\ LET inst == Body[ir.b].code[ir.i]
       IN  IF inst.k \in {"call", "load"}
           THEN /\ Len(inputs) < MaxInputs
                /\ \E w \in Answers(inst.ty) :
                      /\ inputs' = Append(inputs, w)
                      /\ ir' = [ir EXCEPT !.i = @ + 1, !.val[inst.dest] = w,
                                          !.out = Append(@, Event(inst, IrRead))]
           ELSE /\ ir' = [ir EXCEPT !.i = @ + 1, !.val[inst.dest] = IrCompute(inst)]
                /\ UNCHANGED inputs
    /\ UNCHANGED <<func, blocks, homes, mach>>

IrTerminator ==
    /\ ~ir.done /\ ir.i > Len(Body[ir.b].code)
    /\ LET term == Body[ir.b].term
       IN  IF term.to = <<>>
           THEN ir' = [ir EXCEPT !.done = TRUE, !.out = Append(@, Returned(IrRead(term.val)))]
           ELSE IrEnter(ir.b, Target(term, IrRead(term.val)))
    /\ UNCHANGED <<func, inputs, blocks, homes, mach>>

\* m stands at a call or a load, and all the n inputs there are have been used.
Waits(m, bs, n) ==
    /\ ~m.done /\ m.i <= Len(bs[m.b].code)
    /\ bs[m.b].code[m.i].k \in {"call", "load"}
    /\ n = Len(inputs)

Interpreted == ir.done \/ Waits(ir, Body, MaxInputs)

-----------------------------------------------------------------------------
(* compiler_rv64.rs: the emitted code.  A physical register holds a word; of a
   slot only the bytes of the type are written, and read back with their sign. *)

Compiled == mach.b # 0
HomeTypes == TypeOf(func, blocks)

load_value_to_temp(v) ==
    IF IsConst(v) THEN v.n
    ELSE LET h == homes[v.r]
         IN  IF h[1] = "phys" THEN mach.phys[h[2]]
             ELSE signed(mach.slot[h[2]], Bits(HomeTypes[v.r]))

\* The machine m after result w of type ty went to register r.
commit_int_result(m, r, ty, w) ==
    LET h == homes[r]
        low == 2^Bits(ty)
    IN  IF h[1] = "phys" THEN [m EXCEPT !.phys[h[2]] = signed(w, Bits(ty))]
        ELSE [m EXCEPT !.slot[h[2]] = (@ - (@ % low)) + (w % low)]

\* Zero extension starts from the width of the source; a constant is an i64.
lower_cast(v) ==
    LET ty == IF IsConst(v) THEN "word" ELSE HomeTypes[v.r]
        w == load_value_to_temp(v)
    IN  CASE ty = "word"   -> w
          [] ty = "i1"     -> unsigned(w, 1)
          [] ty = "narrow" -> unsigned(w, NarrowBits)

lower_math(inst) ==
    signed(load_value_to_temp(inst.args[1]) + load_value_to_temp(inst.args[2]), WordBits)

lower_cmp(inst) ==
    LET u(v) == unsigned(load_value_to_temp(v), WordBits)
    IN  IF u(inst.args[1]) < u(inst.args[2]) THEN 1 ELSE 0

Lowered(inst) ==
    CASE inst.k = "math" -> lower_math(inst)
      [] inst.k = "cmp"  -> lower_cmp(inst)
      [] inst.k = "zext" -> lower_cast(inst.args[1])

\* load_phi_value_bits: all the bits of a slot, whatever its type.
Raw(m, v) == IF IsConst(v) THEN unsigned(v.n, WordBits) ELSE m.slot[homes[v.r][2]]

\* Mutant: each destination is written before the next source is read.
emit_phi_edge_copies_Unstaged(pred, b) ==
    LET copy(m, phi) == [m EXCEPT !.slot[homes[phi.dest][2]] = Raw(m, phi.args[Arm(phi, pred)])]
    IN  FoldLeft(copy, mach, Phis(blocks[b]))

\* The copies on the edge from pred to b: every source goes to a scratch slot
\* before the first destination is written.
emit_phi_edge_copies(pred, b) ==
    LET copy(m, phi) == [m EXCEPT !.slot[homes[phi.dest][2]] = Raw(mach, phi.args[Arm(phi, pred)])]
    IN  FoldLeft(copy, mach, Phis(blocks[b]))

Frame == 0..Max({0} \cup {homes'[r][2] : r \in DOMAIN homes'})

\* emit_parameter_spills, over a frame and registers that hold anything: zeros.
Entry ==
    LET m == [b |-> 1, i |-> 1, n |-> Len(func.params), out |-> <<>>, done |-> FALSE,
              phys |-> [p \in 0..NPhys |-> 0], slot |-> [x \in Frame |-> 0]]
        spill(acc, j) == LET p == func.params[j]
                             h == homes'[p.r]
                         IN  IF h[1] = "phys" THEN [acc EXCEPT !.phys[h[2]] = inputs[j]]
                             ELSE [acc EXCEPT !.slot[h[2]] = unsigned(inputs[j], Bits(p.ty))]
    IN  FoldLeft(spill, m, [j \in DOMAIN func.params |-> j])

Compile(opts, regalloc) ==
    /\ Interpreted /\ ~Compiled
    /\ blocks' = optimize(func.blocks, opts, 1)
    /\ homes' = assign_stack_slots(func, blocks', regalloc)
    /\ mach' = Entry
    /\ UNCHANGED <<func, inputs, ir>>

Here == blocks[mach.b]

\* An instruction; phis are done on the edges and lower to nothing.
MachStep ==
    /\ Compiled /\ ~mach.done /\ mach.i <= Len(Here.code)
    /\ LET inst == Here.code[mach.i]
           next == [mach EXCEPT !.i = @ + 1]
           after == [next EXCEPT !.n = @ + 1, !.out = Append(@, Event(inst, load_value_to_temp))]
       IN  \/ IsPhi(inst) /\ mach' = next
           \/ /\ inst.k \in {"math", "cmp", "zext"}
              /\ mach' = commit_int_result(next, inst.dest, inst.ty, Lowered(inst))
           \/ /\ inst.k \in {"call", "load"} /\ mach.n < Len(inputs)
              /\ mach' = commit_int_result(after, inst.dest, inst.ty, inputs[after.n])
    /\ UNCHANGED <<func, inputs, ir, blocks, homes>>

lower_terminator ==
    /\ Compiled /\ ~mach.done /\ mach.i > Len(Here.code)
    /\ LET term == Here.term
           v == load_value_to_temp(term.val)
           to == Target(term, v)
       IN  mach' = IF term.to = <<>>
                   THEN [mach EXCEPT !.done = TRUE, !.out = Append(@, Returned(v))]
                   ELSE [emit_phi_edge_copies(mach.b, to) EXCEPT !.b = to, !.i = 1]
    /\ UNCHANGED <<func, inputs, ir, blocks, homes>>

-----------------------------------------------------------------------------
NotCompiled == [b |-> 0]

Init ==
    /\ func \in Programs
    /\ inputs \in {s \in [DOMAIN func.params -> InputWords] :
                    \A j \in DOMAIN s : s[j] \in Answers(func.params[j].ty)}
    /\ ir = [b |-> 1, i |-> 1, out |-> <<>>, done |-> FALSE,
             val |-> [r \in DOMAIN Types |->
                        LET at == {j \in DOMAIN func.params : func.params[j].r = r}
                        IN  IF at = {} THEN 0 ELSE inputs[CHOOSE j \in at : TRUE]]]
    /\ blocks = <<>> /\ homes = <<>> /\ mach = NotCompiled

Next ==
    \/ IrStep \/ IrTerminator
    \/ \E opts \in SUBSET {"phi", "fold", "dce"}, regalloc \in BOOLEAN : Compile(opts, regalloc)
    \/ MachStep \/ lower_terminator

Spec == Init /\ [][Next]_vars

-----------------------------------------------------------------------------
(* Properties *)

\* The emitted code calls, loads and returns exactly what the IR says, with
\* whatever passes on, with and without register allocation: no value read has
\* been overwritten, folded wrongly, dropped, or taken from the wrong edge.
Preserved ==
    Compiled =>
        /\ IsPrefix(mach.out, ir.out)
        /\ mach.done => ir.done /\ mach.out = ir.out
        /\ Waits(mach, blocks, mach.n) => ~ir.done

\* Reference definition of "needed", by paths and not by dataflow: from here
\* control can reach a read of r and meets no write of it.  A phi reads on the
\* edge it is reached by and writes before the block starts.
OnEdge(b, s) ==
    LET phis == Phis(blocks[s])
    IN  Regs([j \in DOMAIN phis |-> phis[j].args[Arm(phis[j], b)]])

RECURSIVE NeededFrom(_, _, _, _)
NeededFrom(r, b, i, seen) ==
    LET bl == blocks[b]
        written(s) == \E j \in DOMAIN Phis(blocks[s]) : Phis(blocks[s])[j].dest = r
    IN  IF i <= Len(bl.code)
        THEN \/ r \in inst_uses(bl.code[i])
             \/ r \notin inst_defs(bl.code[i]) /\ NeededFrom(r, b, i + 1, seen)
        ELSE \/ r \in term_uses(bl.term)
             \/ \E s \in Succ(blocks, b) :
                    \/ r \in OnEdge(b, s)
                    \/ /\ ~written(s) /\ s \notin seen
                       /\ NeededFrom(r, s, Len(Phis(blocks[s])) + 1, seen \cup {s})

Needed(b, i) == {r \in DOMAIN homes : NeededFrom(r, b, i, {})}

\* No write destroys a value some path still reads: the home of what an
\* instruction, a parameter spill or an edge copy writes is nobody else's that
\* is needed afterwards.  Of two phis on one edge the later write wins.
NoClobber ==
    Compiled /\ mach.out = <<>> /\ mach.b = 1 /\ mach.i = 1 =>
        \A b \in DOMAIN blocks :
            LET code == blocks[b].code
                lead == Len(Phis(blocks[b]))
            IN  /\ \A i \in (lead + 1)..Len(code) : \A r \in Needed(b, i + 1) :
                      r # code[i].dest => homes[r] # homes[code[i].dest]
                /\ \A j \in 1..lead, r \in Needed(b, lead + 1) :
                      (\A k \in j..lead : code[k].dest # r) => homes[r] # homes[code[j].dest]
                /\ b = 1 => \A p, q \in DOMAIN func.params :
                      p # q => homes[func.params[p].r] # homes[func.params[q].r]
=============================================================================
