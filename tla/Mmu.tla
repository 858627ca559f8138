-------------------------------- MODULE Mmu ---------------------------------
(* Address translation: the page-table walk, the direct-mapped TLB in front *)
(* of it and the debugger's own walk (cpu/mmu.rs, virtual_machine.rs). The  *)
(* kernel writes page-table entries, fences and changes satp when it likes. *)
(* A virtual address is a page number; offsets pass through unchanged.      *)
EXTENDS Integers

CONSTANTS LEVELS,   \* levels of the page table (3 in Sv39)
          Fan,      \* entries of a table (512)
          TLB_ENTRIES,
          Tables,   \* the frames that hold page tables
          Roots,    \* the tables satp may point at
          Slots,    \* the entries <<table, index>> the kernel writes
          Written,  \* the entries it writes there
          Contexts  \* privilege, SUM, MXR and PMP of an access

PageTableEntry ==
  [v : BOOLEAN, r : BOOLEAN, w : BOOLEAN, x : BOOLEAN, u : BOOLEAN, a : BOOLEAN, d : BOOLEAN, ppn : Nat]

ASSUME MmuAssumption ==
  /\ LEVELS \in Nat \ {0} /\ Fan \in Nat \ {0} /\ TLB_ENTRIES \in Nat \ {0}
  /\ Tables \subseteq Nat /\ Roots \subseteq Tables /\ Slots \subseteq Tables \X (0..(Fan - 1))
  /\ \A pte \in Written : pte \in PageTableEntry

VARIABLES tables,  \* tables[t][i], the page tables in memory
          satp,    \* the root, or Bare
          tlb,     \* [satp, entries]
          changed  \* pages <<root, vpn>> the kernel remapped since the last fence

vars == <<tables, satp, tlb, changed>>

Bare == -1
NoMap == [none |-> TRUE]   \* no leaf, or an empty TLB entry
PageFault == -1            \* the answers that are no frame
AccessFault == -2
Unmapped == -3
Stopped == -1              \* no table: the walk ended above
Kinds == {"load", "store", "execute"}

\* The pages under an entry: a level shifts the page number by one index.
Span[level \in 0..LEVELS] == IF level = 0 THEN 1 ELSE Fan * Span[level - 1]

Vpns == 0..(Span[LEVELS] - 1)
Invalid == [v |-> FALSE, r |-> FALSE, w |-> FALSE, x |-> FALSE, u |-> FALSE,
            a |-> FALSE, d |-> FALSE, ppn |-> 0]

Noncanonical == Span[LEVELS]
is_sv39_canonical(vpn) == vpn \in Vpns

index(vpn, level) == (vpn \div Span[level]) % Fan

pointer(pte) == pte.v /\ ~pte.r /\ ~pte.x /\ ~pte.w

\* current_ppn at every level of the walk, from the root down, Stopped once an
\* entry ended it: a leaf, an invalid one, W without R and X, or none in RAM.
CurrentPpn(ts, root, vpn) ==
  LET at[level \in 0..(LEVELS - 1)] ==
        IF level = LEVELS - 1 THEN root
        ELSE LET t == at[level + 1]
                 i == index(vpn, level + 1)
             IN  IF t \in Tables /\ pointer(ts[t][i]) THEN ts[t][i].ppn ELSE Stopped
  IN  at

\* The leaf a walk ends at, if it comes to one.
Walk(ts, root, vpn) ==
  LET at == CurrentPpn(ts, root, vpn)
      pte(level) == ts[at[level]][index(vpn, level)]
      leaf(level) == at[level] \in Tables /\ pte(level).v /\ (pte(level).r \/ pte(level).x)
      last == CHOOSE level \in 0..(LEVELS - 1) : leaf(level)
  IN  IF \E level \in 0..(LEVELS - 1) : leaf(level)
      THEN [pte |-> pte(last), level |-> last, slot |-> <<at[last], index(vpn, last)>>]
      ELSE NoMap

\* The entries a walk reads.
Path(ts, root, vpn) ==
  LET at == CurrentPpn(ts, root, vpn)
  IN  {<<at[level], index(vpn, level)>> : level \in {k \in 0..(LEVELS - 1) : at[k] \in Tables}}

-----------------------------------------------------------------------------
(* finalize_leaf: permissions, privilege, superpage alignment, PMP.         *)

pmp(frame, ctx, kind) ==
  IF ctx.pmp # {} /\ (frame > ctx.limit \/ kind \notin ctx.pmp) THEN AccessFault ELSE frame

phys_PageOnly(pte, level, vpn) == pte.ppn

\* A superpage takes the low part of its frame from the address.
phys(pte, level, vpn) == ((pte.ppn \div Span[level]) * Span[level]) + (vpn % Span[level])

allowed(pte, level, ctx, kind) ==
  /\ ~(pte.w /\ ~pte.r)
  /\ kind = "execute" => pte.x
  /\ kind = "store" => pte.w
  /\ kind = "load" => pte.r \/ (ctx.mxr /\ pte.x)
  /\ ctx.priv = "U" => pte.u
  /\ ctx.priv = "S" => ~pte.u \/ ctx.sum
  /\ pte.ppn % Span[level] = 0

finalize_leaf(pte, level, vpn, ctx, kind) ==
  IF ~allowed(pte, level, ctx, kind) THEN PageFault
  ELSE pmp(phys(pte, level, vpn), ctx, kind)

-----------------------------------------------------------------------------
(* translate_with_pmp and the TLB.                                          *)

flushed(entries) == [i \in DOMAIN entries |-> NoMap]

sync_satp(t) == IF t.satp = satp THEN t ELSE [satp |-> satp, entries |-> flushed(t.entries)]

lookup_IgnoresTag(t, vpn) == t.entries[vpn % TLB_ENTRIES]

lookup(t, vpn) ==
  LET e == t.entries[vpn % TLB_ENTRIES]
  IN  IF e # NoMap /\ e.vpn = vpn THEN e ELSE NoMap

insert(t, vpn, pte, level) ==
  [t EXCEPT !.entries[vpn % TLB_ENTRIES] = [vpn |-> vpn, pte |-> pte, level |-> level]]

\* A walk marks the leaf accessed, and dirty when it stores.
marked(pte, kind) == [pte EXCEPT !.a = TRUE, !.d = @ \/ kind = "store"]

hits_CleanToo(e, kind) == e # NoMap

\* A hit answers from the entry, permissions checked again, except for a
\* store through an entry that is not dirty: that one walks.
hits(e, kind) == e # NoMap /\ (kind = "store" => e.pte.d)

\* Given the address and the state: the answer, and the state after it. The
\* TLB learns of a new satp only here, past the early returns.
translate_with_pmp(vpn, ctx, kind) ==
  LET same == [answer |-> vpn, tables |-> tables, tlb |-> tlb]
      synced == [same EXCEPT !.tlb = sync_satp(tlb)]
      e == lookup(synced.tlb, vpn)
      leaf == Walk(tables, satp, vpn)
      done == finalize_leaf(leaf.pte, leaf.level, vpn, ctx, kind)
      new == marked(leaf.pte, kind)
  IN  IF ctx.priv = "M" THEN same
      ELSE IF satp = Bare THEN [same EXCEPT !.answer = pmp(vpn, ctx, kind)]
      ELSE IF ~is_sv39_canonical(vpn) THEN [same EXCEPT !.answer = PageFault]
      ELSE IF hits(e, kind)
           THEN [synced EXCEPT !.answer = finalize_leaf(e.pte, e.level, vpn, ctx, kind)]
      ELSE IF leaf = NoMap THEN [synced EXCEPT !.answer = PageFault]
      ELSE IF done \in {PageFault, AccessFault} THEN [synced EXCEPT !.answer = done]
      ELSE [answer |-> done,
            tables |-> [tables EXCEPT ![leaf.slot[1]][leaf.slot[2]] = new],
            tlb |-> insert(synced.tlb, vpn, new, leaf.level)]

-----------------------------------------------------------------------------
(* The actions.                                                             *)

\* A fetch, load, store or atomic of the processor.
Access(vpn, ctx, kind) ==
  LET t == translate_with_pmp(vpn, ctx, kind)
  IN  /\ tables' = t.tables /\ tlb' = t.tlb
      /\ UNCHANGED <<satp, changed>>

\* The pages whose walk goes through an entry, before or after it is written.
Through(slot, ts) == {p \in Roots \X Vpns : slot \in Path(ts, p[1], p[2])}

WritePte(slot, pte) ==
  /\ tables' = [tables EXCEPT ![slot[1]][slot[2]] = pte]
  /\ changed' = changed \cup Through(slot, tables)
  /\ UNCHANGED <<satp, tlb>>

Sfence_KeepsEntries == changed' = {} /\ UNCHANGED <<tables, satp, tlb>>

\* sfence.vma
Sfence ==
  /\ tlb' = [tlb EXCEPT !.entries = flushed(@)]
  /\ changed' = {}
  /\ UNCHANGED <<tables, satp>>

WriteSatp(root) ==
  /\ satp' = root
  /\ UNCHANGED <<tables, tlb, changed>>

Init ==
  /\ tables = [t \in Tables |-> [i \in 0..(Fan - 1) |-> Invalid]]
  /\ satp = Bare
  /\ tlb = [satp |-> Bare, entries |-> [i \in 0..(TLB_ENTRIES - 1) |-> NoMap]]
  /\ changed = {}

Next ==
  \/ \E vpn \in Vpns \cup {Noncanonical}, ctx \in Contexts, kind \in Kinds : Access(vpn, ctx, kind)
  \/ \E slot \in Slots, pte \in Written : WritePte(slot, pte)
  \/ Sfence
  \/ \E root \in Roots \cup {Bare} : WriteSatp(root)

Spec == Init /\ [][Next]_vars

-----------------------------------------------------------------------------
(* Properties.                                                              *)

\* debug_walk_sv39, the walk of the debugger: no permissions, no A and D.
debug_walk_sv39(vpn) ==
  LET leaf == Walk(tables, satp, vpn)
  IN  IF leaf = NoMap \/ leaf.pte.ppn % Span[leaf.level] # 0 THEN Unmapped
      ELSE leaf.pte.ppn + (vpn % Span[leaf.level])

\* An entry of the TLB is the leaf a walk finds now, for every page the kernel
\* has not remapped since the last fence; only the D bit of a superpage may
\* have been set through another page since.
Coherent ==
  \A i \in DOMAIN tlb.entries :
    LET e == tlb.entries[i]
        leaf == Walk(tables, tlb.satp, e.vpn)
    IN  (e # NoMap /\ <<tlb.satp, e.vpn>> \notin changed) =>
          /\ leaf # NoMap /\ leaf.level = e.level
          /\ e.pte = [leaf.pte EXCEPT !.d = e.pte.d]
          /\ e.pte.a /\ (e.pte.d => leaf.pte.d)

\* The requests that are translated, for pages the kernel owes no fence for.
Settled == {p \in Vpns : satp # Bare /\ <<satp, p>> \notin changed}
Translated == {ctx \in Contexts : ctx.priv # "M"}

\* Translation answers what a walk without a TLB would, permissions, PMP and
\* superpages included: no hit is out of date.
AnswersFresh ==
  \A vpn \in Settled, ctx \in Translated, kind \in Kinds :
    LET leaf == Walk(tables, satp, vpn)
    IN  translate_with_pmp(vpn, ctx, kind).answer =
          IF leaf = NoMap THEN PageFault ELSE finalize_leaf(leaf.pte, leaf.level, vpn, ctx, kind)

\* A translation that succeeds leaves its leaf marked accessed in memory, and
\* dirty if it was for a store, although a hit does not write memory.
LeavesMarks ==
  \A vpn \in Settled, ctx \in Translated, kind \in Kinds :
    LET t == translate_with_pmp(vpn, ctx, kind)
        pte == Walk(t.tables, satp, vpn).pte
    IN  t.answer \notin {PageFault, AccessFault} => pte.a /\ (kind = "store" => pte.d)

\* What the debugger shows at an address is what the program finds there.
DebugAgrees ==
  \A vpn \in Settled, ctx \in Translated, kind \in Kinds :
    translate_with_pmp(vpn, ctx, kind).answer \in {PageFault, AccessFault, debug_walk_sv39(vpn)}
=============================================================================
