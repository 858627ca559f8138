------------------------------- MODULE Caches -------------------------------
(* The three write-back caches of the bus, L1 over L2 over L3 over RAM      *)
(* (memory/cache.rs, memory/ram.rs, bus.rs). A set is the sequence of its   *)
(* valid lines, least recently used first: which way holds a line shows     *)
(* nowhere. The blocks of all levels have the same size, as SystemBus::new  *)
(* chooses, so a block moves between two levels as a whole. Every level     *)
(* writes back; the write-through and read-only modes are not used.         *)
EXTENDS Integers, Sequences, SequencesExt

CONSTANTS BlockSize, \* cells per block
          Blocks,    \* blocks of RAM
          Sets,      \* Sets[k], the number of sets of level k
          Assoc,     \* Assoc[k], its ways
          Values,
          Loads,     \* the loads, <<address, cells>>
          Stores,    \* the stores, <<address, value>>
          Images     \* the memory contents the debugger loads

Size == Blocks * BlockSize
Cells == 0..(Size - 1)

ASSUME CachesAssumption ==
  /\ BlockSize \in Nat \ {0} /\ Blocks \in Nat \ {0}
  /\ Sets \in [1..3 -> Nat \ {0}] /\ Assoc \in [1..3 -> Nat \ {0}]
  /\ \A r \in Loads : r[1] \in Nat /\ r[2] \in 1..(BlockSize + 1)
  /\ \A w \in Stores : w[1] \in Nat /\ w[2] \in Seq(Values) /\ Len(w[2]) \in 1..(BlockSize + 1)
  /\ 0 \in Values
  /\ Images \subseteq [Cells -> Values]

VARIABLES m,       \* [l, ram]: the sets of the three levels, and RAM by block
          reply,   \* what the last access answered
          view     \* every byte as peek_byte_raw finds it, to state RefinesFlat

vars == <<m, reply, view>>

Offsets == 0..(BlockSize - 1)
Line == [block : 0..(Blocks - 1), dirty : BOOLEAN, data : [Offsets -> Values]]

BlockOf(a) == a \div BlockSize
address_fields(k, b) == b % Sets[k]

\* The lines of the set of level k that block b falls into.
SetOf(k, x, b) == x.l[k][address_fields(k, b)]
Holds(k, x, b) == \E j \in DOMAIN SetOf(k, x, b) : SetOf(k, x, b)[j].block = b
Position(k, x, b) == CHOOSE j \in DOMAIN SetOf(k, x, b) : SetOf(k, x, b)[j].block = b
LineOf(k, x, b) == SetOf(k, x, b)[Position(k, x, b)]
Install(k, x, b, lines) == [x EXCEPT !.l[k][address_fields(k, b)] = lines]

-----------------------------------------------------------------------------
(* An operation on a level takes the state of the hierarchy and gives       *)
(* [ok, m, data]: the state after it, and the block read.                   *)

ram_read(x, b) ==
  [ok |-> b < Blocks, m |-> x, data |-> IF b < Blocks THEN x.ram[b] ELSE <<>>]

ram_write(x, b, d) ==
  [ok |-> b < Blocks, m |-> IF b < Blocks THEN [x EXCEPT !.ram[b] = d] ELSE x, data |-> d]

\* The victim of a miss: the least recently used line of a full set. It stays
\* where it is until the fetch has succeeded. Writing it back cannot fail: only
\* blocks of RAM were ever fetched.
Evict(k, x, b, WriteNext(_, _, _)) ==
  LET s == SetOf(k, x, b)
  IN  IF Len(s) = Assoc[k] /\ Head(s).dirty THEN WriteNext(x, Head(s).block, Head(s).data)
      ELSE [ok |-> TRUE, m |-> x, data |-> <<>>]

\* The lines of a full set that a fill keeps: all but the victim.
Keep(k, s) == IF Len(s) = Assoc[k] THEN Tail(s) ELSE s

resolve_line(k, x, b, ReadNext(_, _), WriteNext(_, _, _)) ==
  LET s == SetOf(k, x, b)
      hit == LineOf(k, x, b)
      evicted == Evict(k, x, b, WriteNext)
      fetched == ReadNext(evicted.m, b)
      line == [block |-> b, dirty |-> FALSE, data |-> fetched.data]
  IN  CASE Holds(k, x, b) ->
             [ok |-> TRUE, data |-> hit.data,
              m |-> Install(k, x, b, Append(RemoveAt(s, Position(k, x, b)), hit))]
        [] ~Holds(k, x, b) /\ ~fetched.ok -> fetched
        [] OTHER ->
             [fetched EXCEPT !.m = Install(k, @, b, Append(Keep(k, s), line))]

WriteLine_Clean(k, b, d, r) ==
  LET s == SetOf(k, r.m, b)
      line == [Last(s) EXCEPT !.data = [o \in Offsets |-> IF o \in DOMAIN d THEN d[o] ELSE @[o]]]
  IN  IF r.ok THEN [r EXCEPT !.m = Install(k, @, b, Append(Front(s), line))] ELSE r

\* write_n on the cells of one block, after resolve_line gave r: d maps
\* offsets to values, and the line is the most recent of its set.
WriteLine(k, b, d, r) ==
  LET s == SetOf(k, r.m, b)
      line == [block |-> b, dirty |-> TRUE,
               data |-> [o \in Offsets |-> IF o \in DOMAIN d THEN d[o] ELSE Last(s).data[o]]]
  IN  IF r.ok THEN [r EXCEPT !.m = Install(k, @, b, Append(Front(s), line))] ELSE r

l3_read(x, b) == resolve_line(3, x, b, ram_read, ram_write)
l3_write(x, b, d) == WriteLine(3, b, d, l3_read(x, b))
l2_read(x, b) == resolve_line(2, x, b, l3_read, l3_write)
l2_write(x, b, d) == WriteLine(2, b, d, l2_read(x, b))
l1_read(x, b) == resolve_line(1, x, b, l2_read, l2_write)
l1_write(x, b, d) == WriteLine(1, b, d, l1_read(x, b))

\* peek_byte_raw of level k: the nearest copy, whatever its dirty bit.
peek_byte_raw(x, c, k) ==
  LET b == BlockOf(c)
      with == {j \in k..3 : Holds(j, x, b)}
      nearest == CHOOSE j \in with : \A i \in with : j <= i
  IN  (IF with = {} THEN x.ram[b] ELSE LineOf(nearest, x, b).data)[c % BlockSize]

View(x) == [c \in Cells |-> peek_byte_raw(x, c, 1)]

-----------------------------------------------------------------------------
(* The actions: the accesses of the bus and what the debugger does.         *)

\* The answer of an access: a value, or a bus error.
Answer(ok, v) == [ok |-> ok, value |-> v]

Init ==
  /\ m = [l |-> [k \in 1..3 |-> [i \in 0..(Sets[k] - 1) |-> <<>>]],
          ram |-> [b \in 0..(Blocks - 1) |-> [o \in Offsets |-> 0]]]
  /\ reply = Answer(TRUE, <<>>)
  /\ view = View(m)

\* Op on every block of the n cells at a in turn, up to the first that fails:
\* an access that is not aligned may touch two.
InTurn(a, n, Op(_, _)) ==
  LET one == Op(m, BlockOf(a))
      two == Op(one.m, BlockOf(a + n - 1))
  IN  IF BlockOf(a) = BlockOf(a + n - 1) \/ ~one.ok THEN <<one, one>> ELSE <<one, two>>

\* read_n
Read(a, n) ==
  LET r == InTurn(a, n, l1_read)
      cell(c) == (IF BlockOf(c) = BlockOf(a) THEN r[1] ELSE r[2]).data[c % BlockSize]
  IN  /\ m' = r[2].m
      /\ reply' = Answer(r[2].ok, IF r[2].ok THEN [i \in 1..n |-> cell(a + i - 1)] ELSE <<>>)

\* The cells of the value d stored at a that fall into block b.
Part(a, d, b) ==
  [o \in {c % BlockSize : c \in {i \in a..(a + Len(d) - 1) : BlockOf(i) = b}} |->
     d[b * BlockSize + o - a + 1]]

\* write_n
Write(a, d) ==
  LET r == InTurn(a, Len(d), LAMBDA x, b : l1_write(x, b, Part(a, d, b)))
  IN  m' = r[2].m /\ reply' = Answer(r[2].ok, <<>>)

\* flush_and_invalidate of level k: its dirty lines are written one after the
\* other, set by set, and then all lines dropped. A write that fails is ignored.
flush_and_invalidate(k, x, WriteNext(_, _, _)) ==
  LET ways == Sets[k] * Assoc[k]
      set(n) == x.l[k][(n - 1) \div Assoc[k]]
      way(n) == ((n - 1) % Assoc[k]) + 1
      need_flush(n) == way(n) \in DOMAIN set(n) /\ set(n)[way(n)].dirty
      flushed[n \in 0..ways] ==
        IF n = 0 THEN x
        ELSE IF need_flush(n)
             THEN WriteNext(flushed[n - 1], set(n)[way(n)].block, set(n)[way(n)].data).m
             ELSE flushed[n - 1]
  IN  [flushed[ways] EXCEPT !.l[k] = [i \in DOMAIN @ |-> <<>>]]

l1_flush(x) == flush_and_invalidate(1, x, l2_write)
l2_flush(x) == flush_and_invalidate(2, x, l3_write)
l3_flush(x) == flush_and_invalidate(3, x, ram_write)

\* cold_cache_reset: from the nearest level to the deepest.
ColdReset == m' = l3_flush(l2_flush(l1_flush(m))) /\ UNCHANGED reply

write_image_into_DeepestWins(x, c) ==
  LET b == BlockOf(c)
      dirty == {k \in 1..3 : Holds(k, x, b) /\ LineOf(k, x, b).dirty}
      deepest == CHOOSE k \in dirty : \A j \in dirty : k >= j
  IN  (IF dirty = {} THEN x.ram[b] ELSE LineOf(deepest, x, b).data)[c % BlockSize]

\* write_image_into: RAM, overlaid with the dirty lines of L3, L2 and L1.
write_image_into(x, c) ==
  LET b == BlockOf(c)
      dirty == {k \in 1..3 : Holds(k, x, b) /\ LineOf(k, x, b).dirty}
      nearest == CHOOSE k \in dirty : \A j \in dirty : k <= j
  IN  (IF dirty = {} THEN x.ram[b] ELSE LineOf(nearest, x, b).data)[c % BlockSize]

\* ram_image
Image ==
  /\ reply' = Answer(TRUE, [i \in 1..Size |-> write_image_into(m, i - 1)])
  /\ UNCHANGED m

\* load_ram_image: RAM replaced and every line dropped.
LoadImage(img) ==
  /\ m' = [l |-> [k \in 1..3 |-> [i \in DOMAIN m.l[k] |-> <<>>]],
           ram |-> [b \in 0..(Blocks - 1) |-> [o \in Offsets |-> img[b * BlockSize + o]]]]
  /\ reply' = Answer(TRUE, <<>>)

Access ==
  \/ \E r \in Loads : Read(r[1], r[2])
  \/ \E w \in Stores : Write(w[1], w[2])
  \/ ColdReset
  \/ Image
  \/ \E img \in Images : LoadImage(img)

Next == Access /\ view' = View(m')

Spec == Init /\ [][Next]_vars

-----------------------------------------------------------------------------
(* Properties.                                                              *)

\* A set holds at most Assoc lines, no block twice and only blocks that belong
\* to it and exist: a fetch that fails installs nothing.
TypeOK ==
  \A k \in 1..3 : \A i \in DOMAIN m.l[k] :
    /\ m.l[k][i] \in Seq(Line) /\ Len(m.l[k][i]) <= Assoc[k]
    /\ \A j \in DOMAIN m.l[k][i] : address_fields(k, m.l[k][i][j].block) = i
    /\ \A j, h \in DOMAIN m.l[k][i] : m.l[k][i][j].block = m.l[k][i][h].block => j = h

\* A clean line equals what the levels below hold, so that dropping it on a
\* miss, or leaving it out of an image, loses nothing.
CleanMatchesBelow ==
  \A k \in 1..3 : \A i \in DOMAIN m.l[k] : \A j \in DOMAIN m.l[k][i] :
    LET line == m.l[k][i][j]
    IN  ~line.dirty => \A o \in Offsets :
          line.data[o] = peek_byte_raw(m, line.block * BlockSize + o, k + 1)

Flat == INSTANCE FlatMemory WITH data <- view

\* The caches cannot be told from bare RAM by loads, stores, faults, images or
\* the debugger's peek, whatever is evicted, flushed or half written.
RefinesFlat == Flat!Spec
=============================================================================
