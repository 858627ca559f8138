----------------------------- MODULE MemoryProofs -----------------------------
(***************************************************************************)
(* Theorems about physical pages and address spaces, for pools, tables,    *)
(* layouts and numbers of processes of any size.                           *)
(*                                                                         *)
(* The argument: a walk goes from a root over two tables to a leaf.  Since *)
(* no frame is the target of two entries and no root is the target of any, *)
(* two walks that meet in a frame started at the same root; so a handler   *)
(* that writes one entry changes one walk, the one it means to.            *)
(***************************************************************************)
EXTENDS Memory, FiniteSetTheorems, TLAPS

(* The indices of a page in the tables of the three levels.                 *)
I2(v) == v \div (Fanout * Fanout)
I1(v) == (v \div Fanout) % Fanout
I0(v) == v % Fanout

TablesType == [Frames -> [Indices -> Pte]]
MemType == [bump : 1..PoolSize + 1, tables : TablesType, data : [Frames \cup Device -> Filling]]

Valid(T, t, i) == "v" \in T[t][i].flags

\* An entry above the last level: nothing, or the next table.
Node(T, t, i) == T[t][i] = Invalid \/ (T[t][i].flags = {"v"} /\ T[t][i].to \in Frames)

\* Isolated of other tables, frames handed out and roots than the current ones.
Iso(T, b, Rs) ==
  /\ \A t, s \in Frames, i, j \in Indices :
       T[t][i].to \in Frames /\ T[t][i].to = T[s][j].to => t = s /\ i = j
  /\ \A t \in Frames, i \in Indices : T[t][i].to \in Frames => T[t][i].to < b /\ T[t][i].to \notin Rs
  /\ \A r \in Rs : r \in Frames /\ r < b

\* The user part of every address space is a tree of the three levels.
LastTable(T, w) == \A k \in Indices : Valid(T, w, k) => T[w][k].to \in Frames \cup Device
Table(T, u) == \A j \in Indices : Node(T, u, j) /\ (Valid(T, u, j) => LastTable(T, T[u][j].to))
Trees(T, Rs) ==
  \A r \in Rs, i \in Indices \ KernelSlots :
    Node(T, r, i) /\ (Valid(T, r, i) => Table(T, T[r][i].to))

\* A frame that was handed out and that nothing leads to.
Loose(T, b, Rs, f) ==
  f \in Frames /\ f < b /\ f \notin Rs /\ \A t \in Frames, i \in Indices : T[t][i].to # f

-----------------------------------------------------------------------------
(* The inductive invariant.                                                 *)

Exhausted == mem.bump > PoolSize
Items(s) == {s[k] : k \in DOMAIN s}
Todo == Items(job.todo)
HeapPages == USER_HEAP..USER_ARG - 1
Loaded == USER_CODE..USER_CODE + CodePages - 1
Window == USER_FB..USER_FB + FbPages - 1
\* What a program that is loaded by op is given.
Given(op) == Loaded \cup USER_STACK - StackPages..USER_STACK - 1
                    \cup (IF op = "exec" THEN {USER_ARG} ELSE {})

Building == job.op \in {"boot", "exec", "fork"}

\* Roots are apart from each other and from the one being built.
RootsOK ==
  /\ \A p, q \in Pids : root[p] = root[q] /\ root[p] # Null => p = q
  /\ procs \subseteq 1..next_pid - 1
  /\ \A p \in procs : root[p] # Null
  /\ Building /\ ~panicked =>
       /\ job.root # Null
       /\ \A p \in Pids : root[p] # job.root
       /\ job.pid \in Pids /\ job.pid \notin procs /\ job.pid < next_pid
  /\ ~Building /\ job.root # Null => \E p \in Pids : root[p] = job.root
  /\ job.op = "none" => job = NoJob

\* A break is 0 until it is beyond the base of the heap.
BreaksOK == \A p \in procs : heap_brk[p] = 0 \/ heap_brk[p] > USER_HEAP * PAGE_SIZE

\* What the handler in progress still has to do, and has done.
ForkOK ==
  job.op = "fork" /\ ~panicked =>
    LET r == root[job.by]
    IN  /\ job.by \in procs
        /\ \A x \in Todo : /\ x.page \in Mapped(mem, r) /\ x.fill = "copy"
                           /\ x.src = Leaf(mem, r, x.page).to
                           /\ x.flags = Leaf(mem, r, x.page).flags
        /\ Mapped(mem, job.root) \subseteq Mapped(mem, r)
        /\ \A v \in Mapped(mem, r) :
             \/ \E x \in Todo : x.page = v
             \/ /\ Leaf(mem, job.root, v).flags = Leaf(mem, r, v).flags
                /\ Leaf(mem, job.root, v).to \in Frames
                /\ Holds(mem, job.root, v) = Holds(mem, r, v)

LoadOK ==
  job.op \in {"boot", "exec"} /\ ~panicked =>
    /\ \A x \in Todo : /\ x.page \in Given(job.op) /\ "u" \in x.flags
                       /\ x.fill \in {"keep", "zero", "image"}
                       /\ x.page \in Loaded => x.fill = "image"
    /\ Mapped(mem, job.root) \subseteq Given(job.op)
    /\ \A v \in Given(job.op) :
         \/ \E x \in Todo : x.page = v
         \/ v \in Mapped(mem, job.root) /\ (v \in Loaded => Holds(mem, job.root, v) = Image)

\* A page with all its bytes below the break.
Backed(m, r, v) ==
  {"v", "u", "w"} \subseteq Leaf(m, r, v).flags /\ Leaf(m, r, v).to \in Frames

BrkOK ==
  job.op = "brk" /\ ~panicked =>
    /\ job.by \in procs /\ job.root = root[job.by]
    /\ job.brk > current_break(job.by)
    /\ \A x \in Todo : /\ x.page \in HeapPages /\ x.fill = "zero" /\ x.flags = HEAP_FLAGS
                       /\ x.page * PAGE_SIZE >= current_break(job.by)
                       /\ x.page * PAGE_SIZE < job.brk
    /\ \A i, j \in DOMAIN job.todo : i < j => job.todo[i].page < job.todo[j].page

MapFbOK ==
  job.op = "map_fb" /\ ~panicked =>
    /\ job.by \in procs /\ job.root = root[job.by]
    /\ \A x \in Todo : x.page \in Window /\ x.fill = "device" /\ x.src \in Device

\* A page of the heap is below the break, or beyond it because a brk has mapped
\* it and not finished: that one is still at work, or found the pool empty.
HeapOK ==
  \A p \in procs : \A v \in Mapped(mem, root[p]) \cap HeapPages :
    \/ v * PAGE_SIZE < current_break(p)
    \/ Exhausted
    \/ /\ job.op = "brk" /\ job.by = p /\ v * PAGE_SIZE < job.brk
       /\ \A x \in Todo : v < x.page

IInv ==
  /\ TypeOK
  /\ Iso(mem.tables, mem.bump, Roots)
  /\ Trees(mem.tables, Roots)
  /\ RootsOK /\ BreaksOK /\ ForkOK /\ LoadOK /\ BrkOK /\ MapFbOK /\ HeapOK

\* No request is so high that rounding it up to a page wraps around.
NoWrap == \A a \in Requests : a + PAGE_SIZE - 1 < Width

\* The bytes below a break are backed, and those of a brk at work will be.
BackedOK ==
  /\ \A p \in procs :
       /\ heap_brk[p] <= USER_ARG * PAGE_SIZE
       /\ \A v \in HeapPages : v * PAGE_SIZE < heap_brk[p] => Backed(mem, root[p], v)
  /\ job.op = "brk" /\ ~panicked =>
       /\ job.brk <= USER_ARG * PAGE_SIZE
       /\ \A v \in HeapPages :
            v * PAGE_SIZE < job.brk => Backed(mem, job.root, v) \/ \E x \in Todo : x.page = v
-----------------------------------------------------------------------------
(* A page and its three indices.                                            *)

\* What the proofs use of \div and %.
LEMMA DivMod ==
  ASSUME NEW a \in Nat, NEW d \in Nat \ {0}
  PROVE  /\ a \div d \in Nat /\ a % d \in 0..d - 1
         /\ a = d * (a \div d) + (a % d)
OBVIOUS

LEMMA DivUnique ==
  ASSUME NEW d \in Nat \ {0}, NEW q \in Nat, NEW q2 \in Nat, NEW r \in 0..d - 1, NEW r2 \in 0..d - 1,
         d * q + r = d * q2 + r2
  PROVE  q = q2 /\ r = r2
<1>1. CASE q < q2
  <2>1. PICK k \in Nat : q2 = q + 1 + k
    <3>1. q2 - q - 1 \in Nat /\ q2 = q + 1 + (q2 - q - 1)
      BY <1>1
    <3> QED BY <3>1
  <2>2. d * q2 = d * q + d + d * k
    BY <2>1
  <2>3. d * k \in Nat
    OBVIOUS
  <2> QED BY <2>2, <2>3
<1>2. CASE q2 < q
  <2>1. PICK k \in Nat : q = q2 + 1 + k
    <3>1. q - q2 - 1 \in Nat /\ q = q2 + 1 + (q - q2 - 1)
      BY <1>2
    <3> QED BY <3>1
  <2>2. d * q = d * q2 + d + d * k
    BY <2>1
  <2>3. d * k \in Nat
    OBVIOUS
  <2> QED BY <2>2, <2>3
<1>3. CASE q = q2
  BY <1>3
<1> QED BY <1>1, <1>2, <1>3

LEMMA DivIs ==
  ASSUME NEW v \in Nat, NEW d \in Nat \ {0}, NEW q \in Nat, NEW r \in 0..d - 1, v = d * q + r
  PROVE  v \div d = q
<1>1. v = d * (v \div d) + (v % d) /\ v \div d \in Nat /\ v % d \in 0..d - 1
  BY DivMod
<1>2. d * q + r = d * (v \div d) + (v % d)
  BY <1>1
<1> QED BY <1>1, <1>2, DivUnique

LEMMA Nested ==
  ASSUME NEW F \in Nat, NEW q \in Nat, NEW a \in Nat, NEW b \in Nat
  PROVE  F * (F * q + a) + b = (F * F) * q + (F * a + b)
<1>1. F * (F * q + a) = F * (F * q) + F * a
  OBVIOUS
<1>2. F * (F * q) = (F * F) * q
  OBVIOUS
<1> QED BY <1>1, <1>2

LEMMA NestedBound ==
  ASSUME NEW F \in Nat \ {0}, NEW a \in 0..F - 1, NEW b \in 0..F - 1
  PROVE  F * a + b \in 0..(F * F) - 1
<1>1. PICK k \in Nat : F - 1 = a + k
  <2>1. F - 1 - a \in Nat /\ F - 1 = a + (F - 1 - a)
    OBVIOUS
  <2> QED BY <2>1
<1>2. F * F = F * a + F * k + F /\ F * k \in Nat /\ F * a \in Nat
  <2>1. F = a + k + 1
    BY <1>1
  <2>2. F * (a + k + 1) = F * a + F * k + F
    BY <1>1
  <2> QED BY <2>1, <2>2
<1> QED BY <1>2

LEMMA DivDiv ==
  ASSUME NEW v \in Nat, NEW F \in Nat \ {0}
  PROVE  v \div (F * F) = (v \div F) \div F
<1> DEFINE x == v \div F
           q == x \div F
           a == x % F
           b == v % F
           D == F * F
<1>1. v = F * x + b /\ x \in Nat /\ b \in 0..F-1
  BY DivMod
<1> HIDE DEF x
<1>2. x = F * q + a /\ q \in Nat /\ a \in 0..F-1
  BY <1>1, DivMod
<1> HIDE DEF q, a, b
<1>3. v = D * q + (F * a + b)
  BY <1>1, <1>2, Nested
<1>4. F * a + b \in 0..D - 1
  BY <1>1, <1>2, NestedBound
<1>5. D \in Nat \ {0}
  OBVIOUS
<1> HIDE DEF D
<1>6. v \div D = q
  BY <1>2, <1>3, <1>4, <1>5, DivIs
<1> QED BY <1>6 DEF D, q, x

LEMMA PageIndices ==
  ASSUME NEW v \in UserPages
  PROVE  I2(v) \in Indices \ KernelSlots /\ I1(v) \in Indices /\ I0(v) \in Indices
<1>1. Fanout \in Nat \ {0} /\ v \in Nat
  BY MemoryAssumption DEF UserPages
<1>2. v \div Fanout \in Nat
  BY <1>1, DivMod
<1>3. I1(v) \in Indices
  BY <1>1, <1>2, DivMod DEF I1, Indices
<1>4. I0(v) \in Indices
  BY <1>1, DivMod DEF I0, Indices
<1>5. I2(v) \notin KernelSlots
  BY DEF I2, UserPages
<1>6. I2(v) \in Indices
  <2> DEFINE D == Fanout * Fanout
  <2>1. D \in Nat \ {0}
    BY <1>1
  <2>2. v < D * Fanout
    BY <1>1 DEF UserPages
  <2> HIDE DEF D
  <2>3. v = D * (v \div D) + (v % D) /\ v \div D \in Nat /\ v % D \in 0..D - 1
    BY <1>1, <2>1, DivMod
  <2>4. CASE v \div D >= Fanout
    <3>1. PICK k \in Nat : v \div D = Fanout + k
      <4>1. (v \div D) - Fanout \in Nat /\ v \div D = Fanout + ((v \div D) - Fanout)
        BY <2>3, <2>4, <1>1
      <4> QED BY <4>1
    <3>2. D * (Fanout + k) = D * Fanout + D * k /\ D * k \in Nat /\ D * Fanout \in Nat
      BY <2>1, <1>1
    <3>3. v = D * (Fanout + k) + (v % D)
      BY <3>1, <2>3
    <3> QED BY <3>2, <3>3, <2>2, <2>3, <1>1
  <2>5. CASE ~(v \div D >= Fanout)
    <3>1. v \div D \in Indices
      BY <2>5, <2>3, <1>1 DEF Indices
    <3> QED BY <3>1 DEF I2, D
  <2> QED BY <2>4, <2>5
<1> QED BY <1>3, <1>4, <1>5, <1>6

LEMMA PageOfIndices ==
  ASSUME NEW v \in UserPages, NEW w \in UserPages, I2(v) = I2(w), I1(v) = I1(w), I0(v) = I0(w)
  PROVE  v = w
<1>1. Fanout \in Nat \ {0} /\ v \in Nat /\ w \in Nat
  BY MemoryAssumption DEF UserPages
<1> DEFINE x == v \div Fanout
           y == w \div Fanout
<1>2. x \div Fanout = y \div Fanout
  BY <1>1, DivDiv DEF I2
<1>3. x % Fanout = y % Fanout
  BY DEF I1
<1>4. x \in Nat /\ y \in Nat /\ v = Fanout * x + I0(v) /\ w = Fanout * y + I0(w)
  BY <1>1, DivMod DEF I0
<1> HIDE DEF x, y
<1>5. x = Fanout * (x \div Fanout) + (x % Fanout) /\ y = Fanout * (y \div Fanout) + (y % Fanout)
  BY <1>1, <1>4, DivMod
<1>6. x = y
  BY <1>2, <1>3, <1>5
<1> QED BY <1>4, <1>6
-----------------------------------------------------------------------------
(* Walks, and what the two ways of writing an entry do to them.             *)

LEMMA InvalidIs == Invalid.flags = {} /\ Invalid.to = 0
BY DEF Invalid, Null

LEMMA FramesAre == Frames \subseteq Nat /\ 0 \notin Frames /\ Frames \cap Device = {} /\ 0 \notin Device
BY MemoryAssumption DEF Frames, Device

LEMMA NodeIs ==
  ASSUME NEW T, NEW t, NEW i, Node(T, t, i)
  PROVE  /\ Valid(T, t, i) => T[t][i].flags = {"v"} /\ T[t][i].to \in Frames
         /\ ~Valid(T, t, i) => T[t][i] = Invalid
         /\ is_branch(T[t][i]) <=> Valid(T, t, i)
<1>1. CASE T[t][i] = Invalid
  BY <1>1, InvalidIs DEF Valid, is_branch
<1>2. CASE T[t][i].flags = {"v"} /\ T[t][i].to \in Frames
  BY <1>2 DEF Valid, is_branch
<1> QED BY <1>1, <1>2 DEF Node

LEMMA TreeNodes ==
  ASSUME NEW T, NEW Rs, Trees(T, Rs), NEW r \in Rs, NEW i \in Indices \ KernelSlots
  PROVE  /\ Node(T, r, i)
         /\ Valid(T, r, i) => \A j \in Indices : Node(T, T[r][i].to, j)
BY DEF Trees, Table

LEMMA TreeTable ==
  ASSUME NEW T, NEW Rs, Trees(T, Rs), NEW r \in Rs, NEW i \in Indices \ KernelSlots, Valid(T, r, i)
  PROVE  Table(T, T[r][i].to)
BY DEF Trees

LEMMA TableLast ==
  ASSUME NEW T, NEW u, Table(T, u), NEW j \in Indices, Valid(T, u, j)
  PROVE  T[u][j].to \in Frames /\ LastTable(T, T[u][j].to)
BY NodeIs DEF Table

LEMMA IsoTarget ==
  ASSUME NEW T, NEW b, NEW Rs, Iso(T, b, Rs), NEW t \in Frames, NEW i \in Indices, T[t][i].to \in Frames
  PROVE  /\ T[t][i].to < b /\ T[t][i].to \notin Rs
         /\ \A s \in Frames, j \in Indices : T[s][j].to = T[t][i].to => s = t /\ j = i
BY DEF Iso

\* A walk comes to a table that is no root, then to one that no root leads to.
LEMMA WalkSecond ==
  ASSUME NEW T, NEW b, NEW Rs \in SUBSET Frames, Iso(T, b, Rs), NEW u \in Frames \ Rs, Table(T, u),
         NEW y \in Indices, Valid(T, u, y)
  PROVE  /\ T[u][y].to \in Frames /\ T[u][y].to < b /\ T[u][y].to \notin Rs
         /\ \A s \in Rs, i \in Indices : T[s][i].to # T[u][y].to
<1>1. T[u][y].to \in Frames
  BY TableLast
<1> QED BY <1>1, IsoTarget

LEMMA WalkTables ==
  ASSUME NEW T, NEW b, NEW Rs \in SUBSET Frames, Iso(T, b, Rs), Trees(T, Rs),
         NEW r \in Rs, NEW x \in Indices \ KernelSlots, Valid(T, r, x)
  PROVE  /\ T[r][x].to \in Frames /\ T[r][x].to < b /\ T[r][x].to \notin Rs
         /\ \A y \in Indices : Valid(T, T[r][x].to, y) =>
              /\ T[T[r][x].to][y].to \in Frames
              /\ T[T[r][x].to][y].to < b
              /\ T[T[r][x].to][y].to \notin Rs
              /\ \A s \in Rs, i \in Indices : T[s][i].to # T[T[r][x].to][y].to
<1> DEFINE u == T[r][x].to
<1>1. u \in Frames
  BY TreeNodes, NodeIs
<1>2. u < b /\ u \notin Rs
  BY <1>1, IsoTarget
<1>3. Table(T, u)
  BY TreeTable
<1> HIDE DEF u
<1>4. \A y \in Indices : Valid(T, u, y) =>
        /\ T[u][y].to \in Frames /\ T[u][y].to < b /\ T[u][y].to \notin Rs
        /\ \A s \in Rs, i \in Indices : T[s][i].to # T[u][y].to
  BY <1>1, <1>2, <1>3, WalkSecond
<1> QED BY <1>1, <1>2, <1>4 DEF u

\* Leaf, for a tree.
LeafT(T, r, v) ==
  LET u == T[r][I2(v)].to
      w == T[u][I1(v)].to
  IN  IF Valid(T, r, I2(v)) /\ Valid(T, u, I1(v)) THEN T[w][I0(v)] ELSE Invalid

LEMMA LeafIsLeafT ==
  ASSUME NEW m, NEW Rs, Trees(m.tables, Rs), NEW r \in Rs, NEW v \in UserPages
  PROVE  Leaf(m, r, v) = LeafT(m.tables, r, v)
<1> DEFINE T == m.tables
           u == T[r][I2(v)].to
<1>1. I2(v) \in Indices \ KernelSlots /\ I1(v) \in Indices
  BY PageIndices
<1>2. Node(T, r, I2(v)) /\ (Valid(T, r, I2(v)) => Node(T, u, I1(v)))
  BY <1>1, TreeNodes
<1>3. (is_branch(T[r][I2(v)]) <=> Valid(T, r, I2(v))) /\ (~Valid(T, r, I2(v)) => T[r][I2(v)] = Invalid)
  BY <1>2, NodeIs
<1>4. Valid(T, r, I2(v)) =>
         (is_branch(T[u][I1(v)]) <=> Valid(T, u, I1(v))) /\ (~Valid(T, u, I1(v)) => T[u][I1(v)] = Invalid)
  BY <1>2, NodeIs
<1>5. Leaf(m, r, v) = IF ~is_branch(T[r][I2(v)]) THEN T[r][I2(v)]
                      ELSE IF ~is_branch(T[u][I1(v)]) THEN T[u][I1(v)]
                      ELSE T[T[u][I1(v)].to][I0(v)]
  BY DEF Leaf, I2, I1, I0
<1> HIDE DEF T, u
<1> QED BY <1>3, <1>4, <1>5 DEF LeafT, T, u

LEMMA EntryIs ==
  ASSUME NEW e, NEW f, NEW s, e = [to |-> f, flags |-> s]
  PROVE  e.to = f /\ e.flags = s
OBVIOUS

\* T2 is T with a new table b behind entry i of table t.
Grown(T, b, t, i, T2) ==
  /\ T2 \in TablesType
  /\ \A y \in Indices : T2[b][y] = Invalid
  /\ T2[t][i].to = b /\ T2[t][i].flags = {"v"}
  /\ \A x \in Frames, y \in Indices : x # b /\ ~(x = t /\ y = i) => T2[x][y] = T[x][y]

LEMMA GrownShape ==
  ASSUME NEW T \in TablesType, NEW b \in Frames, NEW t \in Frames, NEW i \in Indices, t # b, NEW T2,
         T2 = [[T EXCEPT ![b] = [k \in Indices |-> Invalid]]
                  EXCEPT ![t][i] = [to |-> b, flags |-> {"v"}]]
  PROVE  Grown(T, b, t, i, T2)
<1>1. Invalid \in Pte /\ [to |-> b, flags |-> {"v"}] \in Pte
  BY MemoryAssumption DEF Pte, Invalid, Flags, Frames, Null
<1>2. T2 \in TablesType
  BY <1>1 DEF TablesType
<1>3. \A y \in Indices : T2[b][y] = Invalid
  BY DEF TablesType
<1>4. T2[t][i] = [to |-> b, flags |-> {"v"}]
  BY DEF TablesType
<1>5. \A x \in Frames, y \in Indices : x # b /\ ~(x = t /\ y = i) => T2[x][y] = T[x][y]
  BY DEF TablesType
<1>6. T2[t][i].to = b /\ T2[t][i].flags = {"v"}
  BY <1>4, EntryIs, Zenon
<1> QED BY <1>2, <1>3, <1>5, <1>6, Zenon DEF Grown

\* The entry that walk_or_alloc looks at: of a root, or of a table below it.
OnWalk(T, Rs, t, i) ==
  \E r \in Rs, x \in Indices \ KernelSlots :
    \/ t = r /\ i = x
    \/ Valid(T, r, x) /\ t = T[r][x].to

LEMMA OnWalkFrame ==
  ASSUME NEW T, NEW b, NEW Rs \in SUBSET Frames, Iso(T, b, Rs), Trees(T, Rs), NEW t, NEW i, OnWalk(T, Rs, t, i)
  PROVE  t \in Frames /\ t < b
<1>1. PICK r \in Rs, x \in Indices \ KernelSlots :
         \/ t = r /\ i = x
         \/ Valid(T, r, x) /\ t = T[r][x].to
  BY DEF OnWalk
<1>2. r \in Frames /\ r < b
  BY DEF Iso
<1>3. Valid(T, r, x) => T[r][x].to \in Frames /\ T[r][x].to < b
  BY WalkTables
<1> QED BY <1>1, <1>2, <1>3

\* walk_or_alloc with a new table changes the end of no walk.
LEMMA NewTable ==
  ASSUME NEW T \in TablesType, NEW b \in Frames, NEW Rs \in SUBSET Frames,
         Iso(T, b, Rs), Trees(T, Rs), NEW t, NEW i \in Indices, OnWalk(T, Rs, t, i),
         ~Valid(T, t, i), NEW T2, Grown(T, b, t, i, T2)
  PROVE  /\ Iso(T2, b + 1, Rs) /\ Trees(T2, Rs)
         /\ \A r \in Rs, v \in UserPages : LeafT(T2, r, v) = LeafT(T, r, v)
         /\ \A f : Loose(T, b, Rs, f) => Loose(T2, b + 1, Rs, f)
<1>1. t \in Frames /\ t < b /\ t # b /\ b \in Nat
  BY OnWalkFrame, FramesAre
<1>2. \A r \in Rs : r \in Frames /\ r < b /\ r # b
  BY FramesAre DEF Iso
<1>3. \A y \in Indices : T2[b][y] = Invalid /\ T2[b][y].to = 0 /\ ~Valid(T2, b, y)
  BY InvalidIs DEF Grown, Valid
<1>4. T2[t][i].to = b /\ Node(T2, t, i) /\ Valid(T2, t, i)
  BY DEF Grown, Node, Valid
<1>5. ASSUME NEW x \in Frames, NEW y \in Indices, x # b, ~(x = t /\ y = i)
      PROVE  /\ T2[x][y] = T[x][y]
             /\ Valid(T2, x, y) <=> Valid(T, x, y)
             /\ Node(T, x, y) => Node(T2, x, y)
  BY <1>5 DEF Grown, Node, Valid
<1>6. \A x \in Frames, y \in Indices : T[x][y].to # b
  BY <1>1, IsoTarget
<1>7. Iso(T2, b + 1, Rs)
  <2>1. \A x \in Frames, y \in Indices : T2[x][y].to \in Frames =>
           \/ x = t /\ y = i /\ T2[x][y].to = b
           \/ ~(x = t /\ y = i) /\ T2[x][y] = T[x][y] /\ T2[x][y].to # b
    BY <1>3, <1>4, <1>5, <1>6, FramesAre
  <2>2. ASSUME NEW x \in Frames, NEW z \in Frames, NEW y \in Indices, NEW w \in Indices,
               T2[x][y].to \in Frames, T2[x][y].to = T2[z][w].to
        PROVE  x = z /\ y = w
    <3>1. CASE x = t /\ y = i /\ T2[x][y].to = b
      BY <2>1, <2>2, <3>1
    <3>2. CASE T2[x][y] = T[x][y] /\ T2[x][y].to # b
      <4>1. T2[z][w] = T[z][w]
        BY <2>1, <2>2, <3>2
      <4> QED BY <2>2, <3>2, <4>1, IsoTarget
    <3> QED BY <2>1, <2>2, <3>1, <3>2
  <2>3. ASSUME NEW x \in Frames, NEW y \in Indices, T2[x][y].to \in Frames
        PROVE  T2[x][y].to < b + 1 /\ T2[x][y].to \notin Rs
    <3>1. CASE x = t /\ y = i /\ T2[x][y].to = b
      BY <3>1, <1>1, <1>2
    <3>2. CASE T2[x][y] = T[x][y]
      <4>1. T2[x][y].to < b /\ T2[x][y].to \notin Rs
        BY <2>3, <3>2, IsoTarget
      <4>2. T2[x][y].to \in Nat
        BY <2>3, FramesAre
      <4> DEFINE g == T2[x][y].to
      <4> HIDE DEF g
      <4>3. g < b /\ g \in Nat => g < b + 1
        BY <1>1
      <4> QED BY <4>1, <4>2, <4>3 DEF g
    <3> QED BY <2>1, <2>3, <3>1, <3>2
  <2>4. \A r \in Rs : r \in Frames /\ r < b + 1
    BY <1>1, <1>2, FramesAre
  <2> QED BY <2>2, <2>3, <2>4 DEF Iso
\* The third table of a walk is not the one that grows.
<1>8. ASSUME NEW r \in Rs, NEW x \in Indices \ KernelSlots, Valid(T, r, x), NEW y \in Indices,
             Valid(T, T[r][x].to, y)
      PROVE  T[T[r][x].to][y].to # t
  <2>1. PICK s \in Rs, z \in Indices \ KernelSlots :
           \/ t = s /\ i = z
           \/ Valid(T, s, z) /\ t = T[s][z].to
    BY DEF OnWalk
  <2>2. T[T[r][x].to][y].to \notin Rs /\ T[s][z].to # T[T[r][x].to][y].to
    BY <1>8, WalkTables
  <2> QED BY <2>1, <2>2
\* The entries of a walk before and after.
<1>9. ASSUME NEW r \in Rs, NEW x \in Indices \ KernelSlots
      PROVE  /\ r = t /\ x = i => ~Valid(T, r, x)
             /\ ~(r = t /\ x = i) =>
                  /\ T2[r][x] = T[r][x]
                  /\ Valid(T2, r, x) <=> Valid(T, r, x)
             /\ Node(T2, r, x)
  <2>1. CASE r = t /\ x = i
    BY <2>1, <1>4
  <2>2. CASE ~(r = t /\ x = i)
    BY <2>2, <1>2, <1>5, TreeNodes
  <2> QED BY <2>1, <2>2
<1>10. ASSUME NEW r \in Rs, NEW x \in Indices \ KernelSlots, Valid(T, r, x), NEW y \in Indices
       PROVE  /\ T[r][x].to \in Frames /\ T[r][x].to # b
              /\ T[r][x].to = t /\ y = i => ~Valid(T, T[r][x].to, y)
              /\ ~(T[r][x].to = t /\ y = i) =>
                   /\ T2[T[r][x].to][y] = T[T[r][x].to][y]
                   /\ Valid(T2, T[r][x].to, y) <=> Valid(T, T[r][x].to, y)
              /\ Node(T2, T[r][x].to, y)
  <2> DEFINE u == T[r][x].to
  <2>1. u \in Frames /\ u < b /\ u # b
    BY <1>10, <1>1, WalkTables, FramesAre
  <2>2. Node(T, u, y)
    BY <1>10, TreeNodes
  <2> HIDE DEF u
  <2>3. CASE u = t /\ y = i
    BY <2>1, <2>3, <1>4 DEF u
  <2>4. CASE ~(u = t /\ y = i)
    BY <2>1, <2>2, <2>4, <1>5 DEF u
  <2> QED BY <2>3, <2>4
<1>11. ASSUME NEW r \in Rs, NEW x \in Indices \ KernelSlots, Valid(T, r, x), NEW y \in Indices,
              Valid(T, T[r][x].to, y), NEW z \in Indices
       PROVE  T2[T[T[r][x].to][y].to][z] = T[T[T[r][x].to][y].to][z]
  <2> DEFINE w == T[T[r][x].to][y].to
  <2>1. w \in Frames /\ w < b /\ w # b
    BY <1>11, <1>1, WalkTables, FramesAre
  <2>2. w # t
    BY <1>8, <1>11
  <2> HIDE DEF w
  <2> QED BY <2>1, <2>2, <1>5 DEF w
<1>12. Trees(T2, Rs)
  <2> SUFFICES ASSUME NEW r \in Rs, NEW x \in Indices \ KernelSlots
               PROVE  Node(T2, r, x) /\ (Valid(T2, r, x) => Table(T2, T2[r][x].to))
    BY DEF Trees
  <2>1. Node(T2, r, x)
    BY <1>9
  <2>2. CASE r = t /\ x = i
    <3>1. Table(T2, b)
      BY <1>3 DEF Node, Table
    <3> QED BY <2>1, <2>2, <3>1, <1>4
  <2>3. CASE ~(r = t /\ x = i)
    <3> DEFINE u == T[r][x].to
    <3>1. T2[r][x] = T[r][x] /\ (Valid(T2, r, x) <=> Valid(T, r, x))
      BY <2>3, <1>9
    <3>2. ASSUME Valid(T, r, x), NEW j \in Indices
          PROVE  Node(T2, u, j) /\ (Valid(T2, u, j) => LastTable(T2, T2[u][j].to))
      <4>1. Node(T2, u, j)
        BY <1>10, <3>2
      <4>2. CASE u = t /\ j = i
        <5>1. LastTable(T2, b)
          BY <1>3 DEF LastTable
        <5> QED BY <4>1, <4>2, <5>1, <1>4
      <4>3. CASE ~(u = t /\ j = i)
        <5> DEFINE w == T[u][j].to
        <5>1. T2[u][j] = T[u][j] /\ (Valid(T2, u, j) <=> Valid(T, u, j))
          BY <4>3, <1>10, <3>2
        <5>2. Valid(T, u, j) => \A k \in Indices : T2[w][k] = T[w][k]
          BY <1>11, <3>2
        <5> HIDE DEF w
        <5>3. Valid(T, u, j) => LastTable(T, w)
          <6>1. Table(T, u)
            BY <3>2, TreeTable
          <6> HIDE DEF u
          <6> QED BY <6>1, TableLast DEF w
        <5>4. Valid(T, u, j) => LastTable(T2, w)
          BY <5>2, <5>3 DEF Valid, LastTable
        <5>5. Valid(T, u, j) => LastTable(T2, T[u][j].to)
          BY <5>4 DEF w
        <5> HIDE DEF u
        <5> QED BY <4>1, <5>1, <5>5
      <4> QED BY <4>2, <4>3
    <3> QED BY <2>1, <3>1, <3>2 DEF Table
  <2> QED BY <2>2, <2>3
<1>13. ASSUME NEW r \in Rs, NEW v \in UserPages
       PROVE  LeafT(T2, r, v) = LeafT(T, r, v)
  <2> DEFINE x == I2(v)
             y == I1(v)
             z == I0(v)
             u == T[r][x].to
  <2>1. x \in Indices \ KernelSlots /\ y \in Indices /\ z \in Indices
    BY PageIndices
  <2>2. LeafT(T, r, v) = IF Valid(T, r, x) /\ Valid(T, u, y) THEN T[T[u][y].to][z] ELSE Invalid
    BY DEF LeafT
  <2>3. LeafT(T2, r, v) = IF Valid(T2, r, x) /\ Valid(T2, T2[r][x].to, y)
                          THEN T2[T2[T2[r][x].to][y].to][z] ELSE Invalid
    BY DEF LeafT
  <2> HIDE DEF x, y, z
  <2>4. CASE r = t /\ x = i
    <3>1. ~Valid(T, r, x) /\ T2[r][x].to = b /\ ~Valid(T2, b, y)
      BY <2>1, <2>4, <1>3, <1>4, <1>9
    <3> QED BY <2>2, <2>3, <3>1
  <2>5. CASE ~(r = t /\ x = i)
    <3>1. T2[r][x] = T[r][x] /\ (Valid(T2, r, x) <=> Valid(T, r, x))
      BY <2>1, <2>5, <1>9
    <3>2. CASE ~Valid(T, r, x)
      BY <2>2, <2>3, <3>1, <3>2
    <3>3. CASE Valid(T, r, x) /\ u = t /\ y = i
      <4>1. ~Valid(T, u, y)
        BY <2>1, <3>3, <1>10
      <4>2. T2[u][y].to = b /\ T2[b][z] = Invalid
        BY <2>1, <3>3, <1>3, <1>4
      <4> QED BY <2>2, <2>3, <3>1, <4>1, <4>2
    <3>4. CASE Valid(T, r, x) /\ ~(u = t /\ y = i)
      <4>1. T2[u][y] = T[u][y] /\ (Valid(T2, u, y) <=> Valid(T, u, y))
        BY <2>1, <3>4, <1>10
      <4>2. Valid(T, u, y) => T2[T[u][y].to][z] = T[T[u][y].to][z]
        BY <2>1, <3>4, <1>11
      <4> QED BY <2>2, <2>3, <3>1, <3>4, <4>1, <4>2
    <3> QED BY <3>2, <3>3, <3>4
  <2> QED BY <2>4, <2>5
<1>14. ASSUME NEW f, Loose(T, b, Rs, f)
       PROVE  Loose(T2, b + 1, Rs, f)
  <2>1. f \in Frames /\ f < b /\ f \notin Rs /\ f # b /\ f # 0
    BY <1>14, <1>1, FramesAre DEF Loose
  <2>2. \A x \in Frames, y \in Indices : T[x][y].to # f
    BY <1>14 DEF Loose
  <2>3. \A x \in Frames, y \in Indices : T2[x][y].to # f
    BY <2>1, <2>2, <1>3, <1>4, <1>5
  <2>4. f < b + 1
    BY <2>1, <1>1, FramesAre
  <2> QED BY <2>1, <2>3, <2>4 DEF Loose
<1> QED BY <1>7, <1>12, <1>13, <1>14

\* T2 is T with entry i of table t being e.
Put(T, t, i, e, T2) ==
  /\ T2 \in TablesType
  /\ T2[t][i] = e
  /\ \A x \in Frames, y \in Indices : ~(x = t /\ y = i) => T2[x][y] = T[x][y]

LEMMA PutShape ==
  ASSUME NEW T \in TablesType, NEW t \in Frames, NEW i \in Indices, NEW e \in Pte
  PROVE  Put(T, t, i, e, [T EXCEPT ![t][i] = e])
BY DEF Put, TablesType

\* The walk for page v of the root r goes over u and w.
Over(T, r, v, u, w) ==
  /\ Valid(T, r, I2(v)) /\ u = T[r][I2(v)].to
  /\ Valid(T, u, I1(v)) /\ w = T[u][I1(v)].to

LEMMA OverTables ==
  ASSUME NEW T, NEW b, NEW Rs \in SUBSET Frames, Iso(T, b, Rs), Trees(T, Rs),
         NEW r \in Rs, NEW v \in UserPages, NEW u, NEW w, Over(T, r, v, u, w)
  PROVE  /\ u \in Frames /\ u \notin Rs /\ w \in Frames /\ w \notin Rs
         /\ \A s \in Rs, x \in Indices : T[s][x].to # w
<1>1. I2(v) \in Indices \ KernelSlots /\ I1(v) \in Indices
  BY PageIndices
<1>2. Valid(T, r, I2(v)) /\ T[r][I2(v)].to = u
  BY Zenon DEF Over
<1>3. Valid(T, u, I1(v)) /\ T[u][I1(v)].to = w
  BY Zenon DEF Over
<1>4. u \in Frames
  BY <1>1, <1>2, TreeNodes, NodeIs
<1>5. u \notin Rs
  BY <1>1, <1>2, <1>4, IsoTarget
<1>6. Table(T, u)
  BY <1>1, <1>2, TreeTable
<1> QED BY <1>1, <1>3, <1>4, <1>5, <1>6, WalkSecond

\* An entry of a last table changes the end of one walk.
LEMMA PutLeaf ==
  ASSUME NEW T \in TablesType, NEW b, NEW Rs \in SUBSET Frames, Iso(T, b, Rs), Trees(T, Rs),
         NEW r \in Rs, NEW v \in UserPages, NEW u, NEW w, Over(T, r, v, u, w),
         NEW e \in Pte, "v" \in e.flags, e.to \in Device \/ Loose(T, b, Rs, e.to),
         NEW T2, Put(T, w, I0(v), e, T2)
  PROVE  /\ T2 \in TablesType /\ Iso(T2, b, Rs) /\ Trees(T2, Rs)
         /\ LeafT(T2, r, v) = e
         /\ \A q \in Rs, x \in UserPages : q # r \/ x # v => LeafT(T2, q, x) = LeafT(T, q, x)
<1> DEFINE i == I2(v)
           j == I1(v)
           k == I0(v)
<1>1. i \in Indices \ KernelSlots /\ j \in Indices /\ k \in Indices
  BY PageIndices
<1>0. Valid(T, r, i) /\ u = T[r][i].to /\ Valid(T, u, j) /\ w = T[u][j].to
  BY DEF Over
<1>2. /\ u \in Frames /\ u \notin Rs /\ w \in Frames /\ w \notin Rs
      /\ \A s \in Rs, x \in Indices : T[s][x].to # w
  BY OverTables
<1>3. /\ T2 \in TablesType
      /\ T2[w][k] = e
      /\ \A x \in Frames, y \in Indices : ~(x = w /\ y = k) => T2[x][y] = T[x][y]
  BY DEF Put
<1> HIDE DEF i, j, k
<1> SUFFICES /\ Iso(T2, b, Rs) /\ Trees(T2, Rs)
             /\ LeafT(T2, r, v) = e
             /\ \A q \in Rs, x \in UserPages : q # r \/ x # v => LeafT(T2, q, x) = LeafT(T, q, x)
  BY <1>3
<1>4. \A q \in Rs, x \in Indices : T2[q][x] = T[q][x] /\ (Valid(T2, q, x) <=> Valid(T, q, x))
  BY <1>2, <1>3 DEF Valid
<1>5. ASSUME NEW q \in Rs, NEW x \in Indices \ KernelSlots, Valid(T, q, x), NEW y \in Indices
      PROVE  /\ T[q][x].to \in Frames
             /\ T2[T[q][x].to][y] = T[T[q][x].to][y]
             /\ Valid(T2, T[q][x].to, y) <=> Valid(T, T[q][x].to, y)
  <2> DEFINE g == T[q][x].to
  <2>1. g \in Frames /\ g # w
    BY <1>2, <1>5, WalkTables
  <2> HIDE DEF g
  <2>2. T2[g][y] = T[g][y] /\ (Valid(T2, g, y) <=> Valid(T, g, y))
    BY <2>1, <1>3 DEF Valid
  <2> QED BY <2>1, <2>2 DEF g
<1>6. ASSUME NEW q \in Rs, NEW x \in Indices \ KernelSlots, Valid(T, q, x), NEW y \in Indices,
             Valid(T, T[q][x].to, y), NEW z \in Indices
      PROVE  \/ T2[T[T[q][x].to][y].to][z] = T[T[T[q][x].to][y].to][z]
             \/ q = r /\ x = i /\ y = j /\ z = k
  <2> DEFINE g == T[q][x].to
             h == T[g][y].to
  <2>1. g \in Frames /\ h \in Frames
    BY <1>6, WalkTables
  <2>2. CASE h = w /\ z = k
    <3>1. T[g][y].to = w /\ T[u][j].to = w
      BY <2>2, <1>0
    <3> HIDE DEF h
    <3>2. g = u /\ y = j
      BY <3>1, <2>1, <1>1, <1>2, IsoTarget
    <3>3. T[q][x].to = u /\ T[r][i].to = u
      BY <3>2, <1>0
    <3> HIDE DEF g
    <3>4. q = r /\ x = i
      BY <3>3, <1>1, <1>2, IsoTarget
    <3> QED BY <2>2, <3>2, <3>4
  <2>3. CASE ~(h = w /\ z = k)
    <3> HIDE DEF h
    <3>1. T2[h][z] = T[h][z]
      BY <2>1, <2>3, <1>3
    <3> QED BY <3>1 DEF h
  <2> QED BY <2>2, <2>3
<1>7. Iso(T2, b, Rs)
  <2>1. ASSUME NEW x \in Frames, NEW y \in Indices, T2[x][y].to \in Frames
        PROVE  \/ x = w /\ y = k /\ T2[x][y].to = e.to /\ Loose(T, b, Rs, e.to)
               \/ ~(x = w /\ y = k) /\ T2[x][y] = T[x][y]
    <3>1. CASE x = w /\ y = k
      BY <3>1, <2>1, <1>3, FramesAre
    <3>2. CASE ~(x = w /\ y = k)
      BY <3>2, <1>3
    <3> QED BY <3>1, <3>2
  <2>2. Loose(T, b, Rs, e.to) =>
           e.to < b /\ e.to \notin Rs /\ \A x \in Frames, y \in Indices : T[x][y].to # e.to
    BY DEF Loose
  <2>3. ASSUME NEW x \in Frames, NEW z \in Frames, NEW y \in Indices, NEW n \in Indices,
               T2[x][y].to \in Frames, T2[x][y].to = T2[z][n].to
        PROVE  x = z /\ y = n
    <3>1. CASE x = w /\ y = k /\ T2[x][y].to = e.to /\ Loose(T, b, Rs, e.to)
      BY <2>1, <2>2, <2>3, <3>1
    <3>2. CASE ~(x = w /\ y = k) /\ T2[x][y] = T[x][y]
      <4>1. T2[z][n] = T[z][n]
        BY <2>1, <2>2, <2>3, <3>2
      <4> QED BY <2>3, <3>2, <4>1, IsoTarget
    <3> QED BY <2>1, <2>3, <3>1, <3>2
  <2>4. ASSUME NEW x \in Frames, NEW y \in Indices, T2[x][y].to \in Frames
        PROVE  T2[x][y].to < b /\ T2[x][y].to \notin Rs
    <3>1. CASE T2[x][y].to = e.to /\ Loose(T, b, Rs, e.to)
      BY <3>1, <2>2
    <3>2. CASE T2[x][y] = T[x][y]
      BY <2>4, <3>2, IsoTarget
    <3> QED BY <2>1, <2>4, <3>1, <3>2
  <2>5. \A q \in Rs : q \in Frames /\ q < b
    BY DEF Iso
  <2> QED BY <2>3, <2>4, <2>5 DEF Iso
<1>8. Trees(T2, Rs)
  <2> SUFFICES ASSUME NEW q \in Rs, NEW x \in Indices \ KernelSlots
               PROVE  Node(T2, q, x) /\ (Valid(T2, q, x) => Table(T2, T2[q][x].to))
    BY DEF Trees
  <2> DEFINE g == T[q][x].to
  <2>1. T2[q][x] = T[q][x] /\ (Valid(T2, q, x) <=> Valid(T, q, x)) /\ Node(T2, q, x)
    BY <1>4, TreeNodes DEF Node
  <2>2. ASSUME Valid(T, q, x), NEW y \in Indices
        PROVE  Node(T2, g, y) /\ (Valid(T2, g, y) => LastTable(T2, T2[g][y].to))
    <3> DEFINE h == T[g][y].to
    <3>1. Node(T, g, y)
      BY <2>2, TreeNodes
    <3>2. T2[g][y] = T[g][y] /\ (Valid(T2, g, y) <=> Valid(T, g, y))
      BY <2>2, <1>5
    <3>3. Node(T2, g, y)
      BY <3>1, <3>2 DEF Node
    <3>4. Valid(T, g, y) => \A z \in Indices : T2[h][z] = T[h][z] \/ T2[h][z] = e
      <4>1. Valid(T, g, y) => h \in Frames
        BY <2>2, WalkTables
      <4> HIDE DEF h
      <4> QED BY <4>1, <1>3
    <3>5. Valid(T, g, y) => LastTable(T, h)
      <4>1. Table(T, g)
        BY <2>2, TreeTable
      <4> HIDE DEF g
      <4> QED BY <4>1, TableLast DEF h
    <3>6. e.to \in Frames \cup Device
      BY DEF Loose
    <3> HIDE DEF h
    <3>7. Valid(T, g, y) => LastTable(T2, h)
      BY <3>4, <3>5, <3>6 DEF Valid, LastTable
    <3> QED BY <3>2, <3>3, <3>7 DEF h
  <2> QED BY <2>1, <2>2 DEF Table
<1>9. ASSUME NEW q \in Rs, NEW x \in UserPages
      PROVE  LeafT(T2, q, x) = IF q = r /\ x = v THEN e ELSE LeafT(T, q, x)
  <2> DEFINE n == I2(x)
             y == I1(x)
             z == I0(x)
             g == T[q][n].to
             h == T[g][y].to
  <2>1. n \in Indices \ KernelSlots /\ y \in Indices /\ z \in Indices
    BY PageIndices
  <2>2. LeafT(T, q, x) = IF Valid(T, q, n) /\ Valid(T, g, y) THEN T[h][z] ELSE Invalid
    BY DEF LeafT
  <2>3. LeafT(T2, q, x) = IF Valid(T2, q, n) /\ Valid(T2, T2[q][n].to, y)
                          THEN T2[T2[T2[q][n].to][y].to][z] ELSE Invalid
    BY DEF LeafT
  <2>4. x = v => n = i /\ y = j /\ z = k
    BY DEF i, j, k
  <2>5. n = i /\ y = j /\ z = k => x = v
    BY PageOfIndices DEF i, j, k
  <2>6. T2[q][n] = T[q][n] /\ (Valid(T2, q, n) <=> Valid(T, q, n))
    BY <2>1, <1>4
  <2>7. Valid(T, q, n) => T2[g][y] = T[g][y] /\ (Valid(T2, g, y) <=> Valid(T, g, y))
    BY <2>1, <1>5
  <2>8. Valid(T, q, n) /\ Valid(T, g, y) => T2[h][z] = T[h][z] \/ (q = r /\ n = i /\ y = j /\ z = k)
    BY <2>1, <1>6
  <2>9. q = r /\ n = i /\ y = j /\ z = k => Valid(T, q, n) /\ Valid(T, g, y) /\ h = w /\ T2[h][z] = e
    <3> SUFFICES ASSUME q = r, n = i, y = j, z = k
                 PROVE  Valid(T, q, n) /\ Valid(T, g, y) /\ h = w /\ T2[h][z] = e
      OBVIOUS
    <3> HIDE DEF n, y, z
    <3>1. Valid(T, r, i) /\ T[r][i].to = u /\ Valid(T, u, j) /\ T[u][j].to = w
      BY <1>0
    <3> QED BY <3>1, <1>3
  <2> HIDE DEF n, y, z
  <2>10. CASE q = r /\ x = v
    BY <2>3, <2>4, <2>6, <2>7, <2>9, <2>10
  <2>11. CASE ~(q = r /\ x = v)
    BY <2>2, <2>3, <2>5, <2>6, <2>7, <2>8, <2>11
  <2> QED BY <2>10, <2>11
<1>10. LeafT(T2, r, v) = e
  BY <1>9
<1>11. \A q \in Rs, x \in UserPages : q # r \/ x # v => LeafT(T2, q, x) = LeafT(T, q, x)
  BY <1>9
<1> QED BY <1>7, <1>8, <1>10, <1>11
-----------------------------------------------------------------------------
(* What the operations of physical_pages.hll, page_tables.hll and           *)
(* address_space.hll do to the walks from the roots Rs.                     *)

LEMMA BumpIs ==
  ASSUME NEW m \in MemType
  PROVE  /\ m.bump \in Nat /\ m.bump # Null /\ PoolSize \in Nat
         /\ m.bump <= PoolSize => m.bump \in Frames /\ m.bump + 1 \in 1..PoolSize + 1
BY MemoryAssumption DEF MemType, Frames, Null

LEMMA TryAlloc ==
  ASSUME NEW m \in MemType, NEW a, a = try_alloc(m)
  PROVE  \/ m.bump > PoolSize /\ a.page = Null /\ a.m = m
         \/ /\ m.bump \in Frames /\ a.page = m.bump /\ a.page # Null
            /\ a.m \in MemType /\ a.m.bump = m.bump + 1
            /\ a.m.tables = m.tables /\ a.m.data = m.data
<1>1. CASE m.bump > PoolSize
  BY <1>1 DEF try_alloc
<1>2. CASE ~(m.bump > PoolSize)
  <2>1. m.bump \in Frames /\ m.bump # Null /\ m.bump + 1 \in 1..PoolSize + 1
    BY <1>2, BumpIs
  <2>2. a.page = m.bump /\ a.m = [m EXCEPT !.bump = m.bump + 1]
    BY <1>2 DEF try_alloc
  <2>3. a.m \in MemType /\ a.m.bump = m.bump + 1 /\ a.m.tables = m.tables /\ a.m.data = m.data
    BY <2>1, <2>2 DEF MemType
  <2> QED BY <2>1, <2>2, <2>3
<1> QED BY <1>1, <1>2

LEMMA AllocTable ==
  ASSUME NEW m \in MemType, NEW a, a = alloc_table(m)
  PROVE  \/ m.bump > PoolSize /\ a.page = Null /\ a.m = m
         \/ /\ m.bump \in Frames /\ a.page = m.bump /\ a.page # Null
            /\ a.m \in MemType /\ a.m.bump = m.bump + 1 /\ a.m.data = m.data
            /\ a.m.tables = [m.tables EXCEPT ![m.bump] = [i \in Indices |-> Invalid]]
<1> DEFINE c == try_alloc(m)
<1>1. \/ m.bump > PoolSize /\ c.page = Null /\ c.m = m
      \/ /\ m.bump \in Frames /\ c.page = m.bump /\ c.page # Null
         /\ c.m \in MemType /\ c.m.bump = m.bump + 1
         /\ c.m.tables = m.tables /\ c.m.data = m.data
  BY TryAlloc
<1>2. a = IF c.page = Null THEN c ELSE [c EXCEPT !.m.tables[c.page] = [i \in Indices |-> Invalid]]
  BY DEF alloc_table
<1>3. c = [page |-> c.page, m |-> c.m]
  BY DEF try_alloc
<1> HIDE DEF c
<1>4. CASE c.page = Null
  BY <1>1, <1>2, <1>4, BumpIs
<1>5. CASE c.page # Null
  <2>1. a = [c EXCEPT !.m.tables[c.page] = [i \in Indices |-> Invalid]]
    BY <1>2, <1>5
  <2>2. /\ m.bump \in Frames /\ c.page = m.bump /\ c.m \in MemType /\ c.m.bump = m.bump + 1
        /\ c.m.tables = m.tables /\ c.m.data = m.data
    BY <1>1, <1>5
  <2>3. a.page = c.page /\ a.m = [c.m EXCEPT !.tables[c.page] = [i \in Indices |-> Invalid]]
    BY <1>3, <2>1
  <2>4. Invalid \in Pte
    BY MemoryAssumption DEF Invalid, Pte, Null
  <2>5. /\ a.m.tables = [c.m.tables EXCEPT ![c.page] = [i \in Indices |-> Invalid]]
        /\ a.m.bump = c.m.bump /\ a.m.data = c.m.data /\ a.m \in MemType
    <3> DEFINE T2 == [c.m.tables EXCEPT ![c.page] = [i \in Indices |-> Invalid]]
    <3>1. T2 \in TablesType /\ c.m \in MemType
      BY <2>2, <2>4 DEF MemType, TablesType
    <3>2. a.m = [bump |-> c.m.bump, tables |-> T2, data |-> c.m.data]
      BY <2>2, <2>3 DEF MemType
    <3> HIDE DEF T2
    <3>3. a.m \in MemType /\ a.m.tables = T2 /\ a.m.bump = c.m.bump /\ a.m.data = c.m.data
      BY <3>1, <3>2 DEF MemType
    <3> QED BY <3>3 DEF T2
  <2> QED BY <1>5, <2>2, <2>3, <2>5
<1> QED BY <1>4, <1>5

\* From m to m2, no walk from a root has changed.
Same(m, m2, Rs) ==
  /\ m2 \in MemType /\ m2.data = m.data /\ m2.bump >= m.bump
  /\ Iso(m2.tables, m2.bump, Rs) /\ Trees(m2.tables, Rs)
  /\ \A r \in Rs, v \in UserPages : LeafT(m2.tables, r, v) = LeafT(m.tables, r, v)
  /\ \A f : Loose(m.tables, m.bump, Rs, f) => Loose(m2.tables, m2.bump, Rs, f)
  /\ \A x \in Frames, y \in Indices :
       x < m.bump /\ Valid(m.tables, x, y) => m2.tables[x][y] = m.tables[x][y]

LEMMA WalkOrAlloc ==
  ASSUME NEW m \in MemType, NEW Rs \in SUBSET Frames, Iso(m.tables, m.bump, Rs), Trees(m.tables, Rs),
         NEW t, NEW i \in Indices, OnWalk(m.tables, Rs, t, i), NEW w, w = walk_or_alloc(m, t, i)
  PROVE  /\ Same(m, w.m, Rs)
         /\ w.page # Null => Valid(w.m.tables, t, i) /\ w.page = w.m.tables[t][i].to
<1> DEFINE T == m.tables
           next == alloc_table(m)
<1>1. t \in Frames /\ t < m.bump /\ m.bump \in Nat /\ T \in TablesType
  BY OnWalkFrame, BumpIs DEF MemType
<1>2. CASE Valid(T, t, i)
  <2>1. w = [page |-> T[t][i].to, m |-> m]
    BY <1>2 DEF walk_or_alloc, Valid
  <2>2. w.m = m /\ w.page = T[t][i].to
    BY <2>1
  <2> QED BY <1>1, <1>2, <2>2 DEF Same
<1>3. CASE ~Valid(T, t, i) /\ next.page = Null
  <2>1. w = next
    BY <1>3 DEF walk_or_alloc, Valid
  <2>2. next.m = m
    BY <1>3, AllocTable, BumpIs
  <2> QED BY <1>1, <1>3, <2>1, <2>2 DEF Same
<1>4. CASE ~Valid(T, t, i) /\ next.page # Null
  <2> DEFINE b == m.bump
             e == [to |-> b, flags |-> {"v"}]
  <2>1. /\ b \in Frames /\ next.page = b
        /\ next.m \in MemType /\ next.m.bump = b + 1 /\ next.m.data = m.data
        /\ next.m.tables = [T EXCEPT ![b] = [j \in Indices |-> Invalid]]
    BY <1>4, AllocTable
  <2>2. w = [next EXCEPT !.m.tables[t][i] = [to |-> next.page, flags |-> {"v"}]]
    BY <1>4 DEF walk_or_alloc, Valid
  <2>3. next = [page |-> next.page, m |-> next.m]
    BY <2>1, <1>4 DEF alloc_table, try_alloc
  <2> HIDE DEF next
  <2>4. w.page = b /\ w.m = [next.m EXCEPT !.tables[t][i] = e]
    BY <2>1, <2>2, <2>3
  <2>5. e \in Pte
    BY <2>1, MemoryAssumption DEF Pte, Flags, Frames
  <2>6. /\ w.m \in MemType /\ w.m.bump = b + 1 /\ w.m.data = m.data
        /\ w.m.tables = [next.m.tables EXCEPT ![t][i] = e]
    <3> HIDE DEF e, b
    <3> DEFINE T2 == [next.m.tables EXCEPT ![t][i] = e]
    <3>1. T2 \in TablesType /\ next.m \in MemType
      BY <1>1, <2>1, <2>5 DEF MemType, TablesType
    <3>2. w.m = [bump |-> next.m.bump, tables |-> T2, data |-> next.m.data]
      BY <2>1, <2>4 DEF MemType
    <3> HIDE DEF T2
    <3>3. w.m \in MemType /\ w.m.tables = T2 /\ w.m.bump = next.m.bump /\ w.m.data = next.m.data
      BY <3>1, <3>2 DEF MemType
    <3> QED BY <2>1, <3>3 DEF T2
  <2>7. Grown(T, b, t, i, w.m.tables)
    BY <1>1, <2>1, <2>6, GrownShape, FramesAre
  <2> DEFINE T2 == w.m.tables
  <2>8. /\ Iso(T2, b + 1, Rs) /\ Trees(T2, Rs)
        /\ \A r \in Rs, v \in UserPages : LeafT(T2, r, v) = LeafT(T, r, v)
        /\ \A f : Loose(T, b, Rs, f) => Loose(T2, b + 1, Rs, f)
    BY <1>1, <1>4, <2>1, <2>7, NewTable
  <2>9. \A x \in Frames, y \in Indices : x < b /\ Valid(T, x, y) => T2[x][y] = T[x][y]
    BY <1>1, <1>4, <2>7, FramesAre DEF Grown, Valid
  <2>10. Valid(T2, t, i) /\ T2[t][i].to = b
    BY <2>7 DEF Grown, Valid
  <2>11. Same(m, w.m, Rs)
    <3>1. w.m.bump >= m.bump
      BY <1>1, <2>6
    <3> QED BY <3>1, <2>6, <2>8, <2>9 DEF Same
  <2> QED BY <2>4, <2>10, <2>11
<1> QED BY <1>2, <1>3, <1>4

LEMMA SameTwice ==
  ASSUME NEW m \in MemType, NEW m1 \in MemType, NEW m2 \in MemType, NEW Rs,
         Same(m, m1, Rs), Same(m1, m2, Rs)
  PROVE  /\ m2.data = m.data /\ m2.bump >= m.bump
         /\ \A r \in Rs, v \in UserPages : LeafT(m2.tables, r, v) = LeafT(m.tables, r, v)
         /\ \A f : Loose(m.tables, m.bump, Rs, f) => Loose(m2.tables, m2.bump, Rs, f)
<1>1. m.bump \in Nat /\ m1.bump \in Nat /\ m2.bump \in Nat
  BY BumpIs
<1>2. m1.bump >= m.bump /\ m2.bump >= m1.bump
  BY DEF Same
<1>3. m2.bump >= m.bump
  BY <1>1, <1>2
<1> QED BY <1>3 DEF Same

LEMMA WalkResult ==
  ASSUME NEW m, NEW t, NEW i, NEW w, w = walk_or_alloc(m, t, i)
  PROVE  w = [page |-> w.page, m |-> w.m]
<1>1. try_alloc(m) = [page |-> try_alloc(m).page, m |-> try_alloc(m).m]
  BY DEF try_alloc
<1>2. alloc_table(m) = [page |-> alloc_table(m).page, m |-> alloc_table(m).m]
  BY <1>1 DEF alloc_table
<1> QED BY <1>2 DEF walk_or_alloc

\* page_tables_map: one walk ends at the new entry, or none has changed.
LEMMA PageTablesMap ==
  ASSUME NEW m \in MemType, NEW Rs \in SUBSET Frames, Iso(m.tables, m.bump, Rs), Trees(m.tables, Rs),
         NEW r \in Rs, NEW v \in UserPages, NEW flags \in SUBSET Flags, NEW f,
         f \in Device \/ Loose(m.tables, m.bump, Rs, f),
         NEW d, d = page_tables_map(m, r, v, f, flags)
  PROVE  /\ d.m \in MemType /\ d.m.data = m.data /\ d.m.bump >= m.bump
         /\ Iso(d.m.tables, d.m.bump, Rs) /\ Trees(d.m.tables, Rs)
         /\ \A q \in Rs, x \in UserPages :
              q # r \/ x # v \/ d.page = Null => LeafT(d.m.tables, q, x) = LeafT(m.tables, q, x)
         /\ d.page # Null => LeafT(d.m.tables, r, v) = [to |-> f, flags |-> flags \cup {"v"}]
<1> DEFINE level1 == walk_or_alloc(m, r, I2(v))
           level0 == walk_or_alloc(level1.m, level1.page, I1(v))
           e == [to |-> f, flags |-> flags \cup {"v"}]
<1>1. I2(v) \in Indices \ KernelSlots /\ I1(v) \in Indices /\ I0(v) \in Indices
  BY PageIndices
<1>2. d = IF level1.page = Null THEN level1
          ELSE IF level0.page = Null THEN level0
          ELSE [level0 EXCEPT !.m.tables[level0.page][I0(v)] = e]
  BY Zenon DEF page_tables_map, I2, I1, I0
<1>3. OnWalk(m.tables, Rs, r, I2(v))
  BY <1>1 DEF OnWalk
<1>4. /\ Same(m, level1.m, Rs)
      /\ level1.page # Null =>
           Valid(level1.m.tables, r, I2(v)) /\ level1.page = level1.m.tables[r][I2(v)].to
  BY <1>1, <1>3, WalkOrAlloc
<1>5. level0 = [page |-> level0.page, m |-> level0.m]
  BY WalkResult
<1> HIDE DEF level1
<1>6. CASE level1.page = Null
  <2>1. d = level1
    BY <1>2, <1>6
  <2> QED BY <1>4, <1>6, <2>1 DEF Same
<1>7. CASE level1.page # Null
  <2>1. /\ level1.m \in MemType /\ Iso(level1.m.tables, level1.m.bump, Rs)
        /\ Trees(level1.m.tables, Rs)
    BY <1>4 DEF Same
  <2>2. OnWalk(level1.m.tables, Rs, level1.page, I1(v))
    BY <1>1, <1>4, <1>7 DEF OnWalk
  <2>3. /\ Same(level1.m, level0.m, Rs)
        /\ level0.page # Null =>
             /\ Valid(level0.m.tables, level1.page, I1(v))
             /\ level0.page = level0.m.tables[level1.page][I1(v)].to
    BY <1>1, <2>1, <2>2, WalkOrAlloc
  <2> HIDE DEF level0
  <2>4. /\ level0.m \in MemType /\ Iso(level0.m.tables, level0.m.bump, Rs) /\ Trees(level0.m.tables, Rs)
    BY <2>3 DEF Same
  <2>5. /\ level0.m.data = m.data /\ level0.m.bump >= m.bump
        /\ \A q \in Rs, x \in UserPages : LeafT(level0.m.tables, q, x) = LeafT(m.tables, q, x)
        /\ \A g : Loose(m.tables, m.bump, Rs, g) => Loose(level0.m.tables, level0.m.bump, Rs, g)
    BY <1>4, <2>1, <2>3, <2>4, SameTwice
  <2>6. CASE level0.page = Null
    <3>1. d = level0
      BY <1>2, <1>7, <2>6
    <3> QED BY <2>4, <2>5, <2>6, <3>1
  <2>7. CASE level0.page # Null
    <3> DEFINE T == level0.m.tables
               w == level0.page
               b == level0.m.bump
    <3>1. d = [level0 EXCEPT !.m.tables[w][I0(v)] = e]
      BY <1>2, <1>7, <2>7
    <3>2. d.page = w /\ d.m = [level0.m EXCEPT !.tables[w][I0(v)] = e]
      BY <1>5, <3>1
    <3>3. T[r][I2(v)] = level1.m.tables[r][I2(v)] /\ Valid(T, r, I2(v))
      <4>1. r < level1.m.bump
        BY <2>1 DEF Iso
      <4>2. T[r][I2(v)] = level1.m.tables[r][I2(v)]
        BY <4>1, <1>1, <1>4, <1>7, <2>3 DEF Same
      <4> QED BY <4>2, <1>4, <1>7 DEF Valid
    <3>4. Over(T, r, v, level1.page, w)
      BY <1>4, <1>7, <2>3, <2>7, <3>3 DEF Over
    <3>5. w \in Frames
      BY <2>4, <3>4, OverTables
    <3>6. e \in Pte /\ "v" \in e.flags /\ e.to = f
      <4>1. f \in 0..PoolSize + FbPages
        BY MemoryAssumption DEF Loose, Frames, Device
      <4> QED BY <4>1 DEF Pte, Flags
    <3>7. T \in TablesType
      BY <2>4 DEF MemType
    <3> DEFINE T2 == [T EXCEPT ![w][I0(v)] = e]
    <3>8. Put(T, w, I0(v), e, T2)
      BY <1>1, <3>5, <3>6, <3>7, PutShape
    <3>9. T2 \in TablesType
      BY <3>8 DEF Put
    <3>10. d.m = [bump |-> b, tables |-> T2, data |-> level0.m.data]
      BY <2>4, <3>2 DEF MemType
    <3> HIDE DEF e, T2, w, T
    <3>11. d.m \in MemType /\ d.m.tables = T2 /\ d.m.bump = b /\ d.m.data = level0.m.data
      BY <2>4, <3>9, <3>10 DEF MemType
    <3>12. Iso(T, b, Rs) /\ Trees(T, Rs) /\ (e.to \in Device \/ Loose(T, b, Rs, e.to))
      BY <2>4, <2>5, <3>6 DEF T
    <3>13. /\ Iso(T2, b, Rs) /\ Trees(T2, Rs) /\ LeafT(T2, r, v) = e
           /\ \A q \in Rs, x \in UserPages : q # r \/ x # v => LeafT(T2, q, x) = LeafT(T, q, x)
      BY <3>4, <3>6, <3>7, <3>8, <3>12, PutLeaf
    <3>14. d.page # Null
      BY <2>7, <3>2 DEF w
    <3>15. \A q \in Rs, x \in UserPages : LeafT(T, q, x) = LeafT(m.tables, q, x)
      BY <2>5 DEF T
    <3>16. d.m.bump >= m.bump /\ d.m.data = m.data
      BY <2>5, <3>11
    <3> QED BY <3>11, <3>13, <3>14, <3>15, <3>16 DEF e
  <2> QED BY <2>6, <2>7
<1> QED BY <1>6, <1>7

\* T2 is T with the root b of an empty address space.
Fresh(T, b, T2) ==
  /\ T2 \in TablesType
  /\ \A y \in Indices : T2[b][y].to = 0 /\ (y \notin KernelSlots => T2[b][y] = Invalid)
  /\ \A x \in Frames, y \in Indices : x # b => T2[x][y] = T[x][y]

LEMMA FreshEmpty ==
  ASSUME NEW T, NEW b, NEW T2, Fresh(T, b, T2), NEW v \in UserPages
  PROVE  LeafT(T2, b, v) = Invalid
<1>1. T2[b][I2(v)] = Invalid
  BY PageIndices DEF Fresh
<1>2. ~Valid(T2, b, I2(v))
  BY <1>1, InvalidIs DEF Valid
<1> QED BY <1>2 DEF LeafT

SameLeaves(T, T2, Rs) == \A r \in Rs, v \in UserPages : LeafT(T2, r, v) = LeafT(T, r, v)

LEMMA NewRoot ==
  ASSUME NEW T \in TablesType, NEW b \in Frames, NEW Rs \in SUBSET Frames,
         Iso(T, b, Rs), Trees(T, Rs), NEW T2, Fresh(T, b, T2)
  PROVE  /\ b \notin Rs
         /\ Iso(T2, b + 1, Rs \cup {b}) /\ Trees(T2, Rs \cup {b})
         /\ SameLeaves(T, T2, Rs)
<1>1. b \in Nat /\ \A r \in Rs : r \in Frames /\ r \in Nat /\ r < b /\ r # b
  BY FramesAre DEF Iso
<1>2. \A x \in Frames, y \in Indices : T[x][y].to \in Frames => T[x][y].to < b /\ T[x][y].to # b
  BY <1>1, IsoTarget
<1>3. \A x \in Frames, y \in Indices : T2[x][y].to \in Frames => x # b /\ T2[x][y] = T[x][y]
  BY FramesAre DEF Fresh
<1>4. \A x \in Frames, y \in Indices : x # b => T2[x][y] = T[x][y] /\ (Valid(T2, x, y) <=> Valid(T, x, y))
  BY DEF Fresh, Valid
<1>5. \A y \in Indices \ KernelSlots : T2[b][y] = Invalid /\ ~Valid(T2, b, y)
  BY InvalidIs DEF Fresh, Valid
<1>6. Iso(T2, b + 1, Rs \cup {b})
  <2>1. ASSUME NEW x \in Frames, NEW z \in Frames, NEW y \in Indices, NEW n \in Indices,
               T2[x][y].to \in Frames, T2[x][y].to = T2[z][n].to
        PROVE  x = z /\ y = n
    <3>1. T2[x][y] = T[x][y] /\ T2[z][n] = T[z][n]
      BY <2>1, <1>3
    <3> QED BY <2>1, <3>1, IsoTarget
  <2>2. ASSUME NEW x \in Frames, NEW y \in Indices, T2[x][y].to \in Frames
        PROVE  T2[x][y].to < b + 1 /\ T2[x][y].to \notin Rs \cup {b}
    <3> DEFINE g == T2[x][y].to
    <3>1. g \in Nat /\ g < b /\ g # b /\ g \notin Rs
      <4>1. T2[x][y] = T[x][y]
        BY <2>2, <1>3
      <4>2. T[x][y].to \in Frames
        BY <2>2, <4>1
      <4>3. T[x][y].to < b /\ T[x][y].to # b /\ T[x][y].to \notin Rs
        BY <4>2, <1>2, IsoTarget
      <4> QED BY <4>1, <4>2, <4>3, FramesAre
    <3> HIDE DEF g
    <3>2. g < b + 1
      BY <3>1, <1>1
    <3> QED BY <3>1, <3>2 DEF g
  <2>3. \A r \in Rs \cup {b} : r \in Frames /\ r < b + 1
    BY <1>1
  <2> QED BY <2>1, <2>2, <2>3 DEF Iso
<1>7. ASSUME NEW r \in Rs, NEW x \in Indices \ KernelSlots, Valid(T, r, x), NEW y \in Indices
      PROVE  /\ T[r][x].to \in Frames /\ T[r][x].to # b
             /\ Valid(T, T[r][x].to, y) =>
                  T[T[r][x].to][y].to \in Frames /\ T[T[r][x].to][y].to # b
  <2> DEFINE u == T[r][x].to
  <2>1. u \in Frames
    BY <1>7, WalkTables
  <2>2. u # b
    BY <2>1, <1>1, <1>2
  <2>3. Table(T, u)
    BY <1>7, TreeTable
  <2> HIDE DEF u
  <2>4. Valid(T, u, y) => T[u][y].to \in Frames
    BY <2>3, TableLast
  <2>5. Valid(T, u, y) => T[u][y].to # b
    BY <2>1, <2>4, <1>2
  <2> QED BY <2>1, <2>2, <2>4, <2>5 DEF u
<1>8. Trees(T2, Rs \cup {b})
  <2> SUFFICES ASSUME NEW r \in Rs \cup {b}, NEW x \in Indices \ KernelSlots
               PROVE  Node(T2, r, x) /\ (Valid(T2, r, x) => Table(T2, T2[r][x].to))
    BY DEF Trees
  <2>1. CASE r = b
    BY <2>1, <1>5 DEF Node
  <2>2. CASE r \in Rs
    <3> DEFINE u == T[r][x].to
    <3>1. T2[r][x] = T[r][x] /\ (Valid(T2, r, x) <=> Valid(T, r, x)) /\ Node(T, r, x)
      BY <2>2, <1>1, <1>4, TreeNodes
    <3>2. Node(T2, r, x)
      BY <3>1 DEF Node
    <3>3. ASSUME Valid(T, r, x)
          PROVE  Table(T2, u)
      <4>1. u \in Frames /\ u # b /\ Table(T, u)
        BY <2>2, <3>3, <1>1, <1>2, WalkTables, TreeTable
      <4> HIDE DEF u
      <4>2. ASSUME NEW y \in Indices
            PROVE  Node(T2, u, y) /\ (Valid(T2, u, y) => LastTable(T2, T2[u][y].to))
        <5> DEFINE w == T[u][y].to
        <5>1. T2[u][y] = T[u][y] /\ (Valid(T2, u, y) <=> Valid(T, u, y))
          BY <4>1, <1>4
        <5>2. Node(T2, u, y)
          BY <4>1, <5>1 DEF Node, Table
        <5>3. Valid(T, u, y) => w \in Frames /\ LastTable(T, w) /\ w # b
          BY <4>1, <1>2, TableLast
        <5> HIDE DEF w
        <5>4. Valid(T, u, y) => LastTable(T2, w)
          BY <5>3, <1>4 DEF LastTable
        <5> QED BY <5>1, <5>2, <5>4 DEF w
      <4> QED BY <4>2 DEF Table
    <3> QED BY <3>1, <3>2, <3>3
  <2> QED BY <2>1, <2>2
<1>9. ASSUME NEW r \in Rs, NEW v \in UserPages
      PROVE  LeafT(T2, r, v) = LeafT(T, r, v)
  <2> DEFINE x == I2(v)
             y == I1(v)
             z == I0(v)
             u == T[r][x].to
             w == T[u][y].to
  <2>1. x \in Indices \ KernelSlots /\ y \in Indices /\ z \in Indices
    BY PageIndices
  <2>2. LeafT(T, r, v) = IF Valid(T, r, x) /\ Valid(T, u, y) THEN T[w][z] ELSE Invalid
    BY DEF LeafT
  <2>3. LeafT(T2, r, v) = IF Valid(T2, r, x) /\ Valid(T2, T2[r][x].to, y)
                          THEN T2[T2[T2[r][x].to][y].to][z] ELSE Invalid
    BY DEF LeafT
  <2> HIDE DEF x, y, z
  <2>4. T2[r][x] = T[r][x] /\ (Valid(T2, r, x) <=> Valid(T, r, x))
    BY <2>1, <1>1, <1>4
  <2>5. Valid(T, r, x) => u \in Frames /\ u # b /\ (Valid(T, u, y) => w \in Frames /\ w # b)
    BY <2>1, <1>7
  <2> HIDE DEF w
  <2>6. Valid(T, r, x) => T2[u][y] = T[u][y] /\ (Valid(T2, u, y) <=> Valid(T, u, y))
    <3> HIDE DEF u
    <3> QED BY <2>1, <2>5, <1>4
  <2>7. Valid(T, r, x) /\ Valid(T, u, y) => T2[w][z] = T[w][z]
    <3> HIDE DEF u
    <3> QED BY <2>1, <2>5, <1>4
  <2> QED BY <2>2, <2>3, <2>4, <2>6, <2>7 DEF w
<1> QED BY <1>1, <1>6, <1>8, <1>9 DEF SameLeaves

LEMMA AddressSpaceCreate ==
  ASSUME NEW m \in MemType, NEW a, a = address_space_create(m)
  PROVE  \/ m.bump > PoolSize /\ a.page = Null /\ a.m = m
         \/ /\ m.bump \in Frames /\ a.page = m.bump /\ a.page # Null
            /\ a.m \in MemType /\ a.m.bump = m.bump + 1 /\ a.m.data = m.data
            /\ Fresh(m.tables, m.bump, a.m.tables)
<1> DEFINE c == alloc_table(m)
           X == [i \in Indices |-> IF i \in KernelSlots THEN [to |-> Null, flags |-> {"v", "g", "r", "w"}]
                                   ELSE Invalid]
<1>1. a = IF c.page = Null THEN c ELSE [c EXCEPT !.m.tables[c.page] = X]
  BY Zenon DEF address_space_create
<1>2. \/ m.bump > PoolSize /\ c.page = Null /\ c.m = m
      \/ /\ m.bump \in Frames /\ c.page = m.bump /\ c.page # Null
         /\ c.m \in MemType /\ c.m.bump = m.bump + 1 /\ c.m.data = m.data
         /\ c.m.tables = [m.tables EXCEPT ![m.bump] = [i \in Indices |-> Invalid]]
  BY AllocTable
<1>3. c = [page |-> c.page, m |-> c.m]
  <2>1. try_alloc(m) = [page |-> try_alloc(m).page, m |-> try_alloc(m).m]
    BY DEF try_alloc
  <2> QED BY <2>1 DEF alloc_table
<1>4. X \in [Indices -> Pte] /\ \A y \in Indices : X[y].to = 0 /\ (y \notin KernelSlots => X[y] = Invalid)
  <2>1. Invalid \in Pte /\ [to |-> Null, flags |-> {"v", "g", "r", "w"}] \in Pte /\ Null = 0
    BY MemoryAssumption DEF Invalid, Pte, Null, Flags
  <2> QED BY <2>1, InvalidIs
<1> HIDE DEF c, X
<1>5. CASE c.page = Null
  BY <1>1, <1>2, <1>5
<1>6. CASE c.page # Null
  <2>1. a = [c EXCEPT !.m.tables[c.page] = X]
    BY <1>1, <1>6
  <2>2. /\ m.bump \in Frames /\ c.page = m.bump
        /\ c.m \in MemType /\ c.m.bump = m.bump + 1 /\ c.m.data = m.data
        /\ c.m.tables = [m.tables EXCEPT ![m.bump] = [i \in Indices |-> Invalid]]
    BY <1>2, <1>6
  <2>3. a.page = c.page /\ a.m = [c.m EXCEPT !.tables[c.page] = X]
    BY <1>3, <2>1
  <2> DEFINE T2 == [c.m.tables EXCEPT ![c.page] = X]
  <2>4. T2 \in TablesType /\ m.tables \in TablesType
    BY <1>4, <2>2 DEF MemType, TablesType
  <2>5. a.m = [bump |-> c.m.bump, tables |-> T2, data |-> c.m.data]
    BY <2>2, <2>3 DEF MemType
  <2>6. T2[m.bump] = X /\ \A x \in Frames : x # m.bump => T2[x] = m.tables[x]
    BY <2>2, <2>4 DEF TablesType
  <2> HIDE DEF T2
  <2>7. a.m \in MemType /\ a.m.tables = T2 /\ a.m.bump = c.m.bump /\ a.m.data = c.m.data
    BY <2>2, <2>4, <2>5 DEF MemType
  <2>8. Fresh(m.tables, m.bump, T2)
    BY <1>4, <2>4, <2>6 DEF Fresh
  <2> QED BY <1>6, <2>2, <2>3, <2>7, <2>8
<1> QED BY <1>5, <1>6
-----------------------------------------------------------------------------
(* The ends of the walks.                                                   *)

LEMMA LeafPlace ==
  ASSUME NEW T, NEW r, NEW v, LeafT(T, r, v) # Invalid
  PROVE  \E u, w : Over(T, r, v, u, w) /\ LeafT(T, r, v) = T[w][I0(v)]
<1> DEFINE u == T[r][I2(v)].to
           w == T[u][I1(v)].to
<1>1. LeafT(T, r, v) = IF Valid(T, r, I2(v)) /\ Valid(T, u, I1(v)) THEN T[w][I0(v)] ELSE Invalid
  BY DEF LeafT
<1>2. Valid(T, r, I2(v)) /\ Valid(T, u, I1(v)) /\ LeafT(T, r, v) = T[w][I0(v)]
  BY <1>1
<1>3. Over(T, r, v, u, w)
  BY <1>2 DEF Over
<1> HIDE DEF u, w
<1> QED BY <1>2, <1>3

LEMMA LeafFacts ==
  ASSUME NEW m \in MemType, NEW Rs \in SUBSET Frames, Iso(m.tables, m.bump, Rs), Trees(m.tables, Rs),
         NEW r \in Rs, NEW v \in UserPages
  PROVE  /\ Leaf(m, r, v) = LeafT(m.tables, r, v)
         /\ Leaf(m, r, v) \in Pte
         /\ "v" \in Leaf(m, r, v).flags => Leaf(m, r, v).to \in Frames \cup Device
         /\ Leaf(m, r, v).to \in Frames => Leaf(m, r, v).to < m.bump
<1> DEFINE T == m.tables
           e == LeafT(T, r, v)
<1>1. Leaf(m, r, v) = e
  BY LeafIsLeafT
<1>2. CASE e = Invalid
  <2>1. Invalid \in Pte
    BY MemoryAssumption DEF Invalid, Pte, Null
  <2> QED BY <1>1, <1>2, <2>1, InvalidIs, FramesAre
<1>3. CASE e # Invalid
  <2>1. PICK u, w : Over(T, r, v, u, w) /\ e = T[w][I0(v)]
    BY <1>3, LeafPlace
  <2>2. w \in Frames /\ I0(v) \in Indices
    BY <2>1, OverTables, PageIndices
  <2> HIDE DEF e
  <2>3. e \in Pte
    BY <2>1, <2>2 DEF MemType, TablesType
  <2>4. LastTable(T, w)
    <3>1. I2(v) \in Indices \ KernelSlots /\ I1(v) \in Indices
      BY PageIndices
    <3>2. Table(T, u)
      <4>1. Valid(T, r, I2(v)) /\ T[r][I2(v)].to = u
        BY <2>1, Zenon DEF Over
      <4> QED BY <3>1, <4>1, TreeTable
    <3>3. Valid(T, u, I1(v)) /\ T[u][I1(v)].to = w
      BY <2>1, Zenon DEF Over
    <3> QED BY <3>1, <3>2, <3>3, TableLast
  <2>5. "v" \in e.flags => e.to \in Frames \cup Device
    BY <2>1, <2>2, <2>4 DEF LastTable, Valid
  <2>6. e.to \in Frames => e.to < m.bump
    BY <2>1, <2>2, IsoTarget
  <2>7. Leaf(m, r, v) = LeafT(m.tables, r, v)
    BY <1>1 DEF e
  <2> QED BY <1>1, <2>3, <2>5, <2>6, <2>7
<1> QED BY <1>2, <1>3

\* A frame is at the end of one walk.
LEMMA LeafUnique ==
  ASSUME NEW m \in MemType, NEW Rs \in SUBSET Frames, Iso(m.tables, m.bump, Rs), Trees(m.tables, Rs),
         NEW r \in Rs, NEW v \in UserPages, NEW q \in Rs, NEW x \in UserPages,
         Leaf(m, r, v).to \in Frames, Leaf(m, r, v).to = Leaf(m, q, x).to
  PROVE  r = q /\ v = x
<1> DEFINE T == m.tables
<1>1. Leaf(m, r, v) = LeafT(T, r, v) /\ Leaf(m, q, x) = LeafT(T, q, x)
  BY LeafIsLeafT
<1>2. LeafT(T, r, v) # Invalid /\ LeafT(T, q, x) # Invalid
  BY <1>1, InvalidIs, FramesAre
<1>3. PICK u, w : Over(T, r, v, u, w) /\ LeafT(T, r, v) = T[w][I0(v)]
  BY <1>2, LeafPlace
<1>4. PICK g, h : Over(T, q, x, g, h) /\ LeafT(T, q, x) = T[h][I0(x)]
  BY <1>2, LeafPlace
<1>5. w \in Frames /\ h \in Frames /\ u \in Frames /\ g \in Frames
  BY <1>3, <1>4, OverTables
<1>6. /\ I2(v) \in Indices /\ I1(v) \in Indices /\ I0(v) \in Indices
      /\ I2(x) \in Indices /\ I1(x) \in Indices /\ I0(x) \in Indices
  BY PageIndices
<1>7. w = h /\ I0(v) = I0(x)
  <2>1. T[w][I0(v)].to \in Frames /\ T[w][I0(v)].to = T[h][I0(x)].to
    BY <1>1, <1>3, <1>4
  <2> QED BY <2>1, <1>5, <1>6, IsoTarget
<1>8. u = g /\ I1(v) = I1(x)
  <2>1. T[u][I1(v)].to = w /\ T[g][I1(x)].to = h
    BY <1>3, <1>4, Zenon DEF Over
  <2> QED BY <2>1, <1>5, <1>6, <1>7, IsoTarget
<1>9. r = q /\ I2(v) = I2(x)
  <2>1. T[r][I2(v)].to = u /\ T[q][I2(x)].to = g
    BY <1>3, <1>4, Zenon DEF Over
  <2> QED BY <2>1, <1>5, <1>6, <1>8, IsoTarget
<1>10. v = x
  BY <1>7, <1>8, <1>9, PageOfIndices, Zenon
<1> QED BY <1>9, <1>10
-----------------------------------------------------------------------------
(* Lists of pages.                                                          *)

\* Ascending lists every element.
LEMMA AscendingIs ==
  ASSUME NEW S \in SUBSET Nat, IsFiniteSet(S)
  PROVE  /\ Cardinality(S) \in Nat
         /\ Ascending(S) \in [1..Cardinality(S) -> S]
         /\ \A v \in S : \E i \in 1..Cardinality(S) : Ascending(S)[i] = v
<1> DEFINE n == Cardinality(S)
           Below(v) == {w \in S : w < v}
           rank == [v \in S |-> Cardinality(Below(v))]
<1>1. n \in Nat
  BY FS_CardinalityType
<1>2. ASSUME NEW v \in S
      PROVE  IsFiniteSet(Below(v)) /\ Cardinality(Below(v)) \in 0..n - 1
  <2>1. Below(v) \in SUBSET S /\ Below(v) # S
    OBVIOUS
  <2> DEFINE B == Below(v)
  <2> HIDE DEF B
  <2>2. IsFiniteSet(B) /\ Cardinality(B) <= n /\ Cardinality(B) # n
    BY <2>1, FS_Subset DEF B
  <2>3. Cardinality(B) \in Nat
    BY <2>2, FS_CardinalityType
  <2>4. Cardinality(B) \in 0..n - 1
    BY <2>2, <2>3, <1>1
  <2> QED BY <2>2, <2>4 DEF B
<1>3. ASSUME NEW v \in S, NEW w \in S, v < w
      PROVE  Cardinality(Below(v)) # Cardinality(Below(w))
  <2>0. \A x \in S : x < v => x < w
    BY <1>3
  <2>1. Below(v) \in SUBSET Below(w)
    BY <2>0
  <2>2. v \in Below(w) /\ v \notin Below(v)
    BY <1>3
  <2>3. IsFiniteSet(Below(w))
    BY <1>2
  <2> DEFINE B == Below(v)
             C == Below(w)
  <2> HIDE DEF B, C
  <2>4. Cardinality(C) = Cardinality(B) => C = B
    BY <2>1, <2>3, FS_Subset DEF B, C
  <2>5. C # B
    BY <2>2 DEF B, C
  <2>6. Cardinality(B) # Cardinality(C)
    BY <2>4, <2>5
  <2> QED BY <2>6 DEF B, C
<1>4. rank \in Injection(S, 0..n - 1)
  <2>1. rank \in [S -> 0..n - 1]
    BY <1>2
  <2>2. ASSUME NEW v \in S, NEW w \in S, rank[v] = rank[w]
        PROVE  v = w
    <3>1. ~(v < w) /\ ~(w < v)
      BY <1>3, <2>2
    <3>2. v \in Nat /\ w \in Nat
      OBVIOUS
    <3> QED BY <3>1, <3>2
  <2> HIDE DEF rank
  <2> QED BY <2>1, <2>2 DEF Injection, IsInjective
<1>5. rank \in Surjection(S, 0..n - 1)
  <2>1. IsFiniteSet(0..n - 1) /\ Cardinality(0..n - 1) = n
    <3>1. n - 1 \in Int
      BY <1>1
    <3>2. IsFiniteSet(0..n - 1) /\ Cardinality(0..n - 1) = IF 0 > n - 1 THEN 0 ELSE n - 1 - 0 + 1
      BY <3>1, FS_Interval
    <3> QED BY <3>2, <1>1
  <2> HIDE DEF rank
  <2> QED BY <1>4, <2>1, FS_Injection
<1>6. \A k \in 0..n - 1 : \E v \in S : rank[v] = k
  BY <1>5 DEF Surjection
<1> DEFINE pick(i) == CHOOSE v \in S : Cardinality({w \in S : w < v}) = i - 1
<1>7. ASSUME NEW i \in 1..n
      PROVE  pick(i) \in S /\ rank[pick(i)] = i - 1
  <2>1. i - 1 \in 0..n - 1
    BY <1>1
  <2>2. \E v \in S : Cardinality({w \in S : w < v}) = i - 1
    BY <1>6, <2>1
  <2> QED BY <2>2
<1>8. Ascending(S) = [i \in 1..n |-> pick(i)]
  BY DEF Ascending
<1> HIDE DEF pick
<1>9. Ascending(S) \in [1..n -> S]
  BY <1>7, <1>8
<1>10. ASSUME NEW v \in S
       PROVE  \E i \in 1..n : Ascending(S)[i] = v
  <2>1. rank[v] \in 0..n - 1
    BY <1>2
  <2> DEFINE i == rank[v] + 1
  <2> HIDE DEF rank
  <2>2. i \in 1..n /\ i - 1 = rank[v]
    BY <2>1, <1>1
  <2> HIDE DEF i
  <2>3. pick(i) \in S /\ rank[pick(i)] = rank[v]
    BY <1>7, <2>2
  <2>4. pick(i) = v
    BY <1>4, <2>3 DEF Injection, IsInjective
  <2> QED BY <1>8, <2>2, <2>4
<1> QED BY <1>1, <1>9, <1>10

LEMMA MappedFinite ==
  ASSUME NEW m, NEW r
  PROVE  Mapped(m, r) \in SUBSET Nat /\ IsFiniteSet(Mapped(m, r))
<1> DEFINE F == Fanout * Fanout * Fanout - 1
<1>1. F \in Int /\ Mapped(m, r) \in SUBSET (0..F)
  BY MemoryAssumption DEF Mapped, UserPages
<1> HIDE DEF F
<1>2. IsFiniteSet(0..F)
  BY <1>1, FS_Interval
<1> QED BY <1>1, <1>2, FS_Subset

LEMMA ItemsTail ==
  ASSUME NEW X, NEW s \in Seq(X), s # <<>>
  PROVE  /\ Head(s) \in X /\ Tail(s) \in Seq(X)
         /\ Head(s) \in Items(s) /\ Items(s) = {Head(s)} \cup Items(Tail(s))
<1>1. Len(s) \in Nat /\ Len(s) > 0 /\ DOMAIN s = 1..Len(s) /\ Head(s) = s[1] /\ Head(s) \in X
  OBVIOUS
<1>2. Tail(s) \in Seq(X) /\ Len(Tail(s)) = Len(s) - 1 /\ DOMAIN Tail(s) = 1..Len(s) - 1
  OBVIOUS
<1>3. \A i \in 1..Len(s) - 1 : Tail(s)[i] = s[i + 1]
  OBVIOUS
<1>4. Items(Tail(s)) \subseteq Items(s) /\ Head(s) \in Items(s)
  <2>1. \A i \in 1..Len(s) - 1 : i + 1 \in 1..Len(s)
    BY <1>1
  <2> QED BY <1>1, <1>2, <1>3, <2>1 DEF Items
<1>5. ASSUME NEW k \in 1..Len(s)
      PROVE  s[k] = Head(s) \/ s[k] \in Items(Tail(s))
  <2>1. CASE k = 1
    BY <1>1, <2>1
  <2>2. CASE k # 1
    <3>1. k - 1 \in 1..Len(s) - 1 /\ k - 1 + 1 = k
      BY <1>1, <2>2
    <3>2. Tail(s)[k - 1] = s[k]
      BY <1>3, <3>1
    <3> QED BY <1>2, <3>1, <3>2 DEF Items
  <2> QED BY <2>1, <2>2
<1>6. Items(s) \subseteq {Head(s)} \cup Items(Tail(s))
  BY <1>1, <1>5 DEF Items
<1> QED BY <1>1, <1>2, <1>4, <1>6

LEMMA ItemsCat ==
  ASSUME NEW X, NEW s \in Seq(X), NEW t \in Seq(X)
  PROVE  s \o t \in Seq(X) /\ Items(s \o t) = Items(s) \cup Items(t)
<1>1. s \o t \in Seq(X) /\ Len(s \o t) = Len(s) + Len(t)
  OBVIOUS
<1>2. Len(s) \in Nat /\ Len(t) \in Nat /\ DOMAIN s = 1..Len(s) /\ DOMAIN t = 1..Len(t)
      /\ DOMAIN (s \o t) = 1..Len(s) + Len(t)
  OBVIOUS
<1>3. \A i \in 1..Len(s) : (s \o t)[i] = s[i] /\ i \in 1..Len(s) + Len(t)
  BY <1>2
<1>4. \A i \in 1..Len(t) : (s \o t)[i + Len(s)] = t[i] /\ i + Len(s) \in 1..Len(s) + Len(t)
  BY <1>2
<1>5. \A i \in 1..Len(s) + Len(t) : i \in 1..Len(s) \/ (i - Len(s) \in 1..Len(t) /\ (s \o t)[i] = t[i - Len(s)])
  BY <1>2
<1>6. Items(s) \subseteq Items(s \o t)
  BY <1>2, <1>3 DEF Items
<1>7. Items(t) \subseteq Items(s \o t)
  BY <1>2, <1>4 DEF Items
<1>8. Items(s \o t) \subseteq Items(s) \cup Items(t)
  BY <1>2, <1>3, <1>5 DEF Items
<1> QED BY <1>1, <1>6, <1>7, <1>8

LEMMA ListOf ==
  ASSUME NEW X, NEW n \in Int, NEW f \in [1..n -> X]
  PROVE  f \in Seq(X) /\ DOMAIN f = 1..n
<1>1. CASE n >= 0
  BY <1>1
<1>2. CASE n < 0
  <2>1. 1..n = 1..0
    BY <1>2
  <2>2. f \in [1..0 -> X]
    BY <2>1
  <2> QED BY <2>1, <2>2
<1> QED BY <1>1, <1>2

\* What a list of n pages from the first one is.
Lists(s, first, n, fill, flags) ==
  /\ s \in Seq(Item) /\ DOMAIN s = 1..n
  /\ \A i \in 1..n : s[i].page = first + i - 1
  /\ \A x \in Items(s) : x.page \in first..first + n - 1 /\ x.fill = fill /\ x.flags = flags
  /\ \A v \in first..first + n - 1 : \E x \in Items(s) : x.page = v

LEMMA PagesItems ==
  ASSUME NEW first \in Nat, NEW n \in Int, NEW fill \in {"device", "zero", "keep", "image", "copy"},
         NEW flags \in SUBSET Flags, NEW must \in BOOLEAN,
         first..first + n - 1 \subseteq UserPages, NEW s, s = Pages(first, n, fill, flags, must)
  PROVE  Lists(s, first, n, fill, flags)
<1> DEFINE E(i) == [page |-> first + i - 1, fill |-> fill, src |-> Null, flags |-> flags, must |-> must]
<1>1. \A i \in 1..n : first + i - 1 \in first..first + n - 1
  OBVIOUS
<1>2. Null \in 0..PoolSize + FbPages
  BY MemoryAssumption DEF Null
<1>3. \A i \in 1..n : E(i) \in Item
  BY <1>1, <1>2 DEF Item
<1>4. s = [i \in 1..n |-> E(i)]
  BY DEF Pages
<1>5. s \in Seq(Item) /\ DOMAIN s = 1..n
  <2> HIDE DEF E
  <2>1. s \in [1..n -> Item]
    BY <1>3, <1>4
  <2> QED BY <2>1, ListOf
<1>6. \A i \in 1..n : s[i] = E(i)
  BY <1>4
<1>7. \A i \in 1..n : s[i].page = first + i - 1 /\ s[i].fill = fill /\ s[i].flags = flags
  <2>1. \A i : E(i).page = first + i - 1 /\ E(i).fill = fill /\ E(i).flags = flags
    OBVIOUS
  <2> HIDE DEF E
  <2> QED BY <1>6, <2>1
<1>8. \A v \in first..first + n - 1 : v - first + 1 \in 1..n /\ first + (v - first + 1) - 1 = v
  OBVIOUS
<1> HIDE DEF E
<1>9. \A x \in Items(s) : x.page \in first..first + n - 1 /\ x.fill = fill /\ x.flags = flags
  BY <1>1, <1>5, <1>7 DEF Items
<1>10. \A v \in first..first + n - 1 : \E x \in Items(s) : x.page = v
  BY <1>5, <1>7, <1>8 DEF Items
<1> QED BY <1>5, <1>7, <1>9, <1>10 DEF Lists

\* The layout leaves the parts of an address space apart.
LEMMA Layout ==
  /\ {CodePages, FbPages, StackPages, USER_CODE, USER_FB, USER_HEAP, USER_ARG, USER_STACK} \subseteq Nat
  /\ Loaded \cup Window \cup HeapPages \cup {USER_ARG} \cup USER_STACK - StackPages..USER_STACK - 1
       \subseteq UserPages
  /\ Window \cap HeapPages = {}
  /\ Loaded \cap USER_STACK - StackPages..USER_STACK - 1 = {} /\ USER_ARG \notin Loaded
<1>1. /\ {CodePages, FbPages, StackPages} \subseteq Nat
      /\ {USER_CODE, USER_FB, USER_HEAP, USER_ARG, USER_STACK} \subseteq Nat
      /\ USER_CODE + CodePages <= USER_FB /\ USER_FB + FbPages <= USER_HEAP
      /\ USER_HEAP <= USER_ARG /\ USER_ARG < USER_STACK - StackPages
      /\ USER_CODE..USER_STACK - 1 \subseteq UserPages
  BY MemoryAssumption
<1>2. Loaded \cup Window \cup HeapPages \cup {USER_ARG} \cup USER_STACK - StackPages..USER_STACK - 1
        \subseteq USER_CODE..USER_STACK - 1
  <2>1. Loaded \subseteq USER_CODE..USER_STACK - 1
    BY <1>1 DEF Loaded
  <2>2. Window \subseteq USER_CODE..USER_STACK - 1
    BY <1>1 DEF Window
  <2>3. HeapPages \subseteq USER_CODE..USER_STACK - 1
    BY <1>1 DEF HeapPages
  <2>4. USER_ARG \in USER_CODE..USER_STACK - 1
    BY <1>1
  <2>5. USER_STACK - StackPages..USER_STACK - 1 \subseteq USER_CODE..USER_STACK - 1
    BY <1>1
  <2> QED BY <2>1, <2>2, <2>3, <2>4, <2>5
<1>3. Window \cap HeapPages = {}
  BY <1>1 DEF Window, HeapPages
<1>4. Loaded \cap USER_STACK - StackPages..USER_STACK - 1 = {} /\ USER_ARG \notin Loaded
  BY <1>1 DEF Loaded
<1> QED BY <1>1, <1>2, <1>3, <1>4

LEMMA StackItems ==
  /\ Stack \in Seq(Item)
  /\ \A x \in Items(Stack) : /\ x.page \in USER_STACK - StackPages..USER_STACK - 1
                             /\ x.fill = "keep" /\ x.flags = HEAP_FLAGS
  /\ \A v \in USER_STACK - StackPages..USER_STACK - 1 : \E x \in Items(Stack) : x.page = v
<1> DEFINE E(i) == [page |-> USER_STACK - i, fill |-> "keep", src |-> Null,
                    flags |-> HEAP_FLAGS, must |-> TRUE]
<1>1. StackPages \in Nat /\ USER_STACK \in Nat
  BY Layout
<1>2. \A i \in 1..StackPages : USER_STACK - i \in USER_STACK - StackPages..USER_STACK - 1
  BY <1>1
<1>3. \A i \in 1..StackPages : E(i) \in Item
  <2>1. Null \in 0..PoolSize + FbPages /\ HEAP_FLAGS \in SUBSET Flags
    BY MemoryAssumption DEF Null, HEAP_FLAGS, Flags
  <2>2. \A i \in 1..StackPages : USER_STACK - i \in UserPages
    BY <1>2, Layout
  <2> QED BY <2>1, <2>2 DEF Item
<1>4. Stack = [i \in 1..StackPages |-> E(i)]
  BY DEF Stack
<1>5. Stack \in Seq(Item) /\ DOMAIN Stack = 1..StackPages
  <2> HIDE DEF E
  <2>1. Stack \in [1..StackPages -> Item]
    BY <1>3, <1>4
  <2>2. StackPages \in Int
    BY <1>1
  <2> QED BY <2>1, <2>2, ListOf
<1>6. \A i \in 1..StackPages :
        Stack[i].page = USER_STACK - i /\ Stack[i].fill = "keep" /\ Stack[i].flags = HEAP_FLAGS
  BY <1>4
<1>7. \A v \in USER_STACK - StackPages..USER_STACK - 1 :
        USER_STACK - v \in 1..StackPages /\ USER_STACK - (USER_STACK - v) = v
  BY <1>1
<1>8. \A x \in Items(Stack) : /\ x.page \in USER_STACK - StackPages..USER_STACK - 1
                              /\ x.fill = "keep" /\ x.flags = HEAP_FLAGS
  BY <1>2, <1>5, <1>6 DEF Items
<1>9. \A v \in USER_STACK - StackPages..USER_STACK - 1 : \E x \in Items(Stack) : x.page = v
  BY <1>5, <1>6, <1>7 DEF Items
<1> QED BY <1>5, <1>8, <1>9
-----------------------------------------------------------------------------
(* The pages of a brk.                                                      *)

LEMMA PageSizes ==
  /\ PAGE_SIZE \in Nat \ {0} /\ Width \in Nat /\ PAGE_SIZE < Width
  /\ USER_HEAP * PAGE_SIZE \in 0..Width - 1 /\ USER_ARG * PAGE_SIZE \in 0..Width - 1
<1>1. PAGE_SIZE \in Nat \ {0} /\ Width \in Nat /\ USER_STACK * PAGE_SIZE < Width
  BY MemoryAssumption
<1>2. /\ USER_STACK \in Nat /\ USER_ARG \in Nat /\ USER_HEAP \in Nat /\ StackPages \in Nat
      /\ USER_HEAP <= USER_ARG /\ USER_ARG < USER_STACK - StackPages
  BY MemoryAssumption
<1>3. PICK k \in Nat : USER_STACK = USER_ARG + 1 + k
  <2>1. USER_STACK - USER_ARG - 1 \in Nat /\ USER_STACK = USER_ARG + 1 + (USER_STACK - USER_ARG - 1)
    BY <1>2
  <2> QED BY <2>1
<1>4. PICK j \in Nat : USER_ARG = USER_HEAP + j
  <2>1. USER_ARG - USER_HEAP \in Nat /\ USER_ARG = USER_HEAP + (USER_ARG - USER_HEAP)
    BY <1>2
  <2> QED BY <2>1
<1>5. USER_STACK * PAGE_SIZE = USER_ARG * PAGE_SIZE + PAGE_SIZE + k * PAGE_SIZE /\ k * PAGE_SIZE \in Nat
  BY <1>1, <1>2, <1>3
<1>6. USER_ARG * PAGE_SIZE = USER_HEAP * PAGE_SIZE + j * PAGE_SIZE /\ j * PAGE_SIZE \in Nat
  BY <1>1, <1>2, <1>4
<1>7. USER_ARG * PAGE_SIZE \in Nat /\ USER_HEAP * PAGE_SIZE \in Nat
  BY <1>1, <1>2
<1> QED BY <1>1, <1>5, <1>6, <1>7

LEMMA TimesOrder ==
  ASSUME NEW a \in Int, NEW b \in Int, NEW d \in Nat \ {0}
  PROVE  /\ a <= b => a * d <= b * d
         /\ a < b => a * d + d <= b * d
<1>1. ASSUME a <= b
      PROVE  a * d <= b * d
  <2>1. PICK k \in Nat : b = a + k
    <3>1. b - a \in Nat /\ b = a + (b - a)
      BY <1>1
    <3> QED BY <3>1
  <2>2. b * d = a * d + k * d /\ k * d \in Nat
    BY <2>1
  <2>3. a * d \in Int /\ b * d \in Int
    OBVIOUS
  <2> QED BY <2>2, <2>3
<1>2. ASSUME a < b
      PROVE  a * d + d <= b * d
  <2>1. PICK k \in Nat : b = a + 1 + k
    <3>1. b - a - 1 \in Nat /\ b = a + 1 + (b - a - 1)
      BY <1>2
    <3> QED BY <3>1
  <2>2. b * d = a * d + d + k * d /\ k * d \in Nat
    BY <2>1
  <2>3. a * d \in Int /\ b * d \in Int
    OBVIOUS
  <2> QED BY <2>2, <2>3
<1> QED BY <1>1, <1>2

\* page_up rounds up, and an address whose page is the last one up to nothing.
LEMMA PageUp ==
  ASSUME NEW a \in 0..Width - 1
  PROVE  \E q \in Nat :
           /\ page_up(a) = q * PAGE_SIZE /\ page_up(a) \div PAGE_SIZE = q
           /\ IF a + PAGE_SIZE - 1 < Width THEN q * PAGE_SIZE >= a /\ q * PAGE_SIZE < a + PAGE_SIZE
              ELSE q = 0
<1> DEFINE P == PAGE_SIZE
           s == (a + P - 1) % Width
           q == s \div P
<1>1. P \in Nat \ {0} /\ Width \in Nat \ {0} /\ P < Width /\ a \in Nat /\ a < Width
  BY PageSizes
<1>2. a + P - 1 \in Nat
  BY <1>1
<1>3. s \in Nat /\ (IF a + P - 1 < Width THEN s = a + P - 1 ELSE s = a + P - 1 - Width)
  <2> DEFINE n == a + P - 1
  <2>0. n \in Nat /\ n < Width + Width
    BY <1>1
  <2> HIDE DEF n
  <2>1. n = Width * (n \div Width) + (n % Width) /\ n \div Width \in Nat /\ n % Width \in 0..Width - 1
    BY <1>1, <2>0, DivMod
  <2>2. CASE n < Width
    <3>1. n = Width * 0 + n /\ n \in 0..Width - 1 /\ 0 \in Nat
      BY <1>1, <2>0, <2>2
    <3>2. n % Width = n
      BY <1>1, <2>1, <3>1, DivUnique
    <3> QED BY <2>0, <2>2, <3>2 DEF n
  <2>3. CASE ~(n < Width)
    <3>1. n = Width * 1 + (n - Width) /\ n - Width \in 0..Width - 1 /\ 1 \in Nat
      BY <1>1, <2>0, <2>3
    <3>2. n % Width = n - Width
      BY <1>1, <2>1, <3>1, DivUnique
    <3>3. n - Width \in Nat
      BY <3>1
    <3>4. s = n % Width
      BY Zenon DEF n
    <3> HIDE DEF s
    <3>5. ~(a + P - 1 < Width) /\ a + P - 1 - Width = n - Width
      BY <1>1, <2>3 DEF n
    <3> QED BY <3>2, <3>3, <3>4, <3>5
  <2> QED BY <2>2, <2>3
<1> HIDE DEF s
<1>4. s = P * q + (s % P) /\ q \in Nat /\ s % P \in 0..P - 1
  BY <1>1, <1>3, DivMod
<1> HIDE DEF q
<1>5. page_up(a) = q * P
  BY DEF page_up, q, s
<1>6. (q * P) \div P = q
  <2>1. q * P \in Nat /\ q * P = P * q + 0 /\ 0 \in 0..P - 1
    BY <1>1, <1>4
  <2> QED BY <1>1, <1>4, <2>1, DivIs
<1>7. q * P = P * q /\ P * q \in Nat
  BY <1>1, <1>4
<1>8. CASE a + P - 1 < Width
  <2>1. q * P >= a /\ q * P < a + P
    BY <1>1, <1>3, <1>4, <1>7, <1>8
  <2> QED BY <1>4, <1>5, <1>6, <1>8, <2>1
<1>9. CASE ~(a + P - 1 < Width)
  <2>1. s < P
    BY <1>1, <1>3, <1>9
  <2>2. q = 0
    <3>1. s = P * 0 + s /\ s \in 0..P - 1 /\ 0 \in Nat
      BY <1>1, <1>3, <2>1
    <3> QED BY <1>1, <1>3, <3>1, DivIs DEF q
  <2> QED BY <1>4, <1>5, <1>6, <1>9, <2>2
<1> QED BY <1>8, <1>9

LEMMA HeapItems ==
  ASSUME NEW p, NEW requested \in 0..Width - 1, current_break(p) \in 0..Width - 1,
         current_break(p) >= USER_HEAP * PAGE_SIZE, requested > current_break(p),
         page_up(requested) <= USER_ARG * PAGE_SIZE
  PROVE  LET s == heap_pages(p, requested)
         IN  /\ s \in Seq(Item)
             /\ \A x \in Items(s) : /\ x.page \in HeapPages /\ x.fill = "zero" /\ x.flags = HEAP_FLAGS
                                    /\ x.page * PAGE_SIZE >= current_break(p)
                                    /\ x.page * PAGE_SIZE < requested
             /\ \A i, j \in DOMAIN s : i < j => s[i].page < s[j].page
             /\ requested + PAGE_SIZE - 1 < Width =>
                  /\ requested <= USER_ARG * PAGE_SIZE
                  /\ \A v \in HeapPages : v * PAGE_SIZE >= current_break(p) /\ v * PAGE_SIZE < requested
                       => \E x \in Items(s) : x.page = v
<1> DEFINE P == PAGE_SIZE
           cb == current_break(p)
<1>1. P \in Nat \ {0} /\ Width \in Nat /\ USER_HEAP \in Nat /\ USER_ARG \in Nat /\ cb \in Nat /\ requested \in Nat
      /\ USER_HEAP * P \in Nat /\ USER_ARG * P \in Nat
  BY PageSizes, Layout
<1>2. PICK from \in Nat : /\ page_up(cb) \div P = from
                          /\ IF cb + P - 1 < Width THEN from * P >= cb /\ from * P < cb + P ELSE from = 0
  BY PageUp
<1>3. PICK upto \in Nat : /\ page_up(requested) = upto * P /\ page_up(requested) \div P = upto
                          /\ IF requested + P - 1 < Width
                             THEN upto * P >= requested /\ upto * P < requested + P ELSE upto = 0
  BY PageUp
<1> DEFINE n == upto - from
           s == Pages(from, n, "zero", HEAP_FLAGS, FALSE)
<1>4. heap_pages(p, requested) = s
  BY <1>2, <1>3 DEF heap_pages
<1> HIDE DEF cb
<1>5. cb >= USER_HEAP * P /\ requested > cb /\ upto * P <= USER_ARG * P
  BY <1>3 DEF cb
<1>6. from * P \in Nat /\ upto * P \in Nat
  BY <1>1
<1>7. n > 0 => /\ requested + P - 1 < Width /\ cb + P - 1 < Width
               /\ from >= USER_HEAP /\ upto <= USER_ARG
  <2>1. ASSUME n > 0
        PROVE  requested + P - 1 < Width
    BY <2>1, <1>3
  <2>2. ASSUME n > 0
        PROVE  cb + P - 1 < Width
    BY <2>1, <2>2, <1>1, <1>5
  <2>3. ASSUME n > 0, from < USER_HEAP
        PROVE  FALSE
    <3>1. from * P + P <= USER_HEAP * P
      BY <1>1, <2>3, TimesOrder
    <3> QED BY <3>1, <2>2, <2>3, <1>1, <1>2, <1>5, <1>6
  <2>4. ASSUME upto > USER_ARG
        PROVE  FALSE
    <3>1. USER_ARG * P + P <= upto * P
      BY <1>1, <2>4, TimesOrder
    <3> QED BY <3>1, <1>1, <1>5, <1>6
  <2> QED BY <2>1, <2>2, <2>3, <2>4, <1>1
<1>8. \A v \in from..from + n - 1 : v \in HeapPages /\ v \in UserPages
  <2>1. \A v \in from..from + n - 1 : n > 0 /\ v >= from /\ v < upto /\ v \in Nat
    OBVIOUS
  <2>2. \A v \in from..from + n - 1 : v \in HeapPages
    BY <2>1, <1>1, <1>7 DEF HeapPages
  <2> QED BY <2>2, Layout
<1>9. n \in Int /\ HEAP_FLAGS \in SUBSET Flags
  BY DEF HEAP_FLAGS, Flags
<1>10. /\ s \in Seq(Item) /\ DOMAIN s = 1..n
       /\ \A i \in 1..n : s[i].page = from + i - 1
       /\ \A x \in Items(s) : x.page \in from..from + n - 1 /\ x.fill = "zero" /\ x.flags = HEAP_FLAGS
       /\ \A v \in from..from + n - 1 : \E x \in Items(s) : x.page = v
  <2> DEFINE must == FALSE
             fill == "zero"
  <2>1. s = Pages(from, n, fill, HEAP_FLAGS, must)
    OBVIOUS
  <2>2. must \in BOOLEAN /\ fill \in {"device", "zero", "keep", "image", "copy"}
    OBVIOUS
  <2> HIDE DEF n, s, must, fill
  <2>3. from..from + n - 1 \subseteq UserPages
    BY <1>8
  <2>4. Lists(s, from, n, fill, HEAP_FLAGS)
    BY <1>9, <2>1, <2>2, <2>3, PagesItems
  <2> QED BY <2>4 DEF fill, Lists
<1>11. ASSUME NEW v \in from..from + n - 1
       PROVE  v * P >= cb /\ v * P < requested
  <2>1. v \in Nat /\ v >= from /\ v < upto /\ n > 0
    OBVIOUS
  <2>2. from * P <= v * P /\ v * P + P <= upto * P /\ v * P \in Nat
    BY <2>1, <1>1, TimesOrder
  <2> QED BY <2>1, <2>2, <1>1, <1>2, <1>3, <1>6, <1>7
<1>12. ASSUME requested + P - 1 < Width, NEW v \in HeapPages, v * P >= cb, v * P < requested
       PROVE  v \in from..from + n - 1
  <2>1. v \in Nat
    BY <1>1 DEF HeapPages
  <2>2. cb + P - 1 < Width
    BY <1>12, <1>1, <1>5
  <2>3. v >= from
    <3>1. v < from => v * P + P <= from * P
      BY <2>1, <1>1, TimesOrder
    <3> QED BY <3>1, <2>1, <2>2, <1>1, <1>2, <1>6, <1>12
  <2>4. v < upto
    <3>1. upto <= v => upto * P <= v * P
      BY <2>1, <1>1, TimesOrder
    <3>2. upto * P >= requested
      BY <1>3, <1>12
    <3>3. v * P \in Nat
      BY <2>1, <1>1
    <3> QED BY <3>1, <3>2, <3>3, <2>1, <1>1, <1>6, <1>12
  <2> QED BY <2>1, <2>3, <2>4
<1> HIDE DEF s
<1>13. \A x \in Items(s) : /\ x.page \in HeapPages /\ x.fill = "zero" /\ x.flags = HEAP_FLAGS
                           /\ x.page * P >= cb /\ x.page * P < requested
  BY <1>8, <1>10, <1>11
<1>14. \A i, j \in DOMAIN s : i < j => s[i].page < s[j].page
  BY <1>10
<1>15. requested + P - 1 < Width => requested <= USER_ARG * P
  BY <1>1, <1>3, <1>5, <1>6
<1>16. requested + P - 1 < Width =>
         \A v \in HeapPages : v * P >= cb /\ v * P < requested => \E x \in Items(s) : x.page = v
  BY <1>10, <1>12
<1> HIDE DEF n
<1> QED BY <1>4, <1>10, <1>13, <1>14, <1>15, <1>16 DEF cb
-----------------------------------------------------------------------------
(* The first state.                                                         *)

LEMMA InvalidIsPte == Invalid \in Pte
BY MemoryAssumption DEF Invalid, Pte, Null

\* The lists of process_create_at and elf_loader_load, with and without the
\* argument page of spawn_process.
LEMMA LoadItems ==
  ASSUME NEW op \in {"boot", "exec"}, NEW s,
         op = "boot" => \E must \in BOOLEAN : s = Stack \o Pages(USER_CODE, CodePages, "image", LOAD_FLAGS, must),
         op = "exec" => s = Stack \o Pages(USER_ARG, 1, "zero", HEAP_FLAGS, FALSE)
                                  \o Pages(USER_CODE, CodePages, "image", LOAD_FLAGS, FALSE)
  PROVE  /\ s \in Seq(Item)
         /\ \A x \in Items(s) : /\ x.page \in Given(op) /\ "u" \in x.flags
                                /\ x.fill \in {"keep", "zero", "image"}
                                /\ x.page \in Loaded => x.fill = "image"
         /\ \A v \in Given(op) : \E x \in Items(s) : x.page = v
<1> DEFINE StackArea == USER_STACK - StackPages..USER_STACK - 1
           zero == "zero"
           image == "image"
<1>1. HEAP_FLAGS \in SUBSET Flags /\ LOAD_FLAGS \in SUBSET Flags /\ "u" \in HEAP_FLAGS /\ "u" \in LOAD_FLAGS
  BY DEF HEAP_FLAGS, LOAD_FLAGS, Flags
<1>2. zero \in {"device", "zero", "keep", "image", "copy"} /\ image \in {"device", "zero", "keep", "image", "copy"}
  OBVIOUS
<1>3. /\ USER_CODE \in Nat /\ CodePages \in Int /\ USER_ARG \in Nat
      /\ USER_CODE..USER_CODE + CodePages - 1 \subseteq UserPages
      /\ USER_ARG..USER_ARG + 1 - 1 \subseteq UserPages
  BY Layout DEF Loaded
<1>4. ASSUME NEW must \in BOOLEAN
      PROVE  LET c == Pages(USER_CODE, CodePages, image, LOAD_FLAGS, must)
             IN  /\ c \in Seq(Item)
                 /\ \A x \in Items(c) : x.page \in Loaded /\ x.fill = image /\ x.flags = LOAD_FLAGS
                 /\ \A v \in Loaded : \E x \in Items(c) : x.page = v
  <2> DEFINE c == Pages(USER_CODE, CodePages, image, LOAD_FLAGS, must)
  <2> HIDE DEF image
  <2>1. Lists(c, USER_CODE, CodePages, image, LOAD_FLAGS)
    BY <1>1, <1>2, <1>3, PagesItems
  <2> HIDE DEF c
  <2>2. /\ c \in Seq(Item)
        /\ \A x \in Items(c) : x.page \in Loaded /\ x.fill = image /\ x.flags = LOAD_FLAGS
        /\ \A v \in Loaded : \E x \in Items(c) : x.page = v
    BY <2>1 DEF Lists, Loaded
  <2> QED BY <2>2 DEF c
<1>5. CASE op = "boot"
  <2>1. PICK must \in BOOLEAN : s = Stack \o Pages(USER_CODE, CodePages, image, LOAD_FLAGS, must)
    BY <1>5
  <2> DEFINE c == Pages(USER_CODE, CodePages, image, LOAD_FLAGS, must)
  <2>2. /\ c \in Seq(Item)
        /\ \A x \in Items(c) : x.page \in Loaded /\ x.fill = image /\ x.flags = LOAD_FLAGS
        /\ \A v \in Loaded : \E x \in Items(c) : x.page = v
    BY <1>4
  <2>3. s = Stack \o c
    BY <2>1
  <2> HIDE DEF c
  <2>4. s \in Seq(Item) /\ Items(s) = Items(Stack) \cup Items(c)
    BY <2>2, <2>3, ItemsCat, StackItems
  <2>5. Given(op) = Loaded \cup StackArea
    BY <1>5 DEF Given
  <2>6. Loaded \cap StackArea = {}
    BY Layout
  <2> HIDE DEF StackArea
  <2>7. /\ \A x \in Items(Stack) : x.page \in StackArea /\ x.fill = "keep" /\ x.flags = HEAP_FLAGS
        /\ \A v \in StackArea : \E x \in Items(Stack) : x.page = v
    BY StackItems DEF StackArea
  <2> QED BY <1>1, <2>2, <2>4, <2>5, <2>6, <2>7
<1>6. CASE op = "exec"
  <2> DEFINE must == FALSE
             c == Pages(USER_CODE, CodePages, image, LOAD_FLAGS, must)
             d == Pages(USER_ARG, 1, zero, HEAP_FLAGS, must)
  <2>0. must \in BOOLEAN
    OBVIOUS
  <2>1. s = (Stack \o d) \o c
    BY <1>6
  <2> HIDE DEF must
  <2>2. /\ c \in Seq(Item)
        /\ \A x \in Items(c) : x.page \in Loaded /\ x.fill = image /\ x.flags = LOAD_FLAGS
        /\ \A v \in Loaded : \E x \in Items(c) : x.page = v
    BY <1>4, <2>0
  <2>3. Lists(d, USER_ARG, 1, zero, HEAP_FLAGS)
    <3> HIDE DEF zero
    <3>1. 1 \in Int
      OBVIOUS
    <3> QED BY <1>1, <1>2, <1>3, <2>0, <3>1, PagesItems
  <2> HIDE DEF c, d
  <2>4. USER_ARG..USER_ARG + 1 - 1 = {USER_ARG}
    BY <1>3
  <2>5. /\ d \in Seq(Item)
        /\ \A x \in Items(d) : x.page = USER_ARG /\ x.fill = zero /\ x.flags = HEAP_FLAGS
        /\ \E x \in Items(d) : x.page = USER_ARG
    BY <2>3, <2>4 DEF Lists
  <2>6. Stack \o d \in Seq(Item) /\ Items(Stack \o d) = Items(Stack) \cup Items(d)
    BY <2>5, ItemsCat, StackItems
  <2>7. s \in Seq(Item) /\ Items(s) = Items(Stack) \cup Items(d) \cup Items(c)
    <3> DEFINE sd == Stack \o d
    <3> HIDE DEF sd
    <3>1. s = sd \o c /\ sd \in Seq(Item)
      BY <2>1, <2>6 DEF sd
    <3>2. s \in Seq(Item) /\ Items(s) = Items(sd) \cup Items(c)
      BY <2>2, <3>1, ItemsCat
    <3> QED BY <2>6, <3>2 DEF sd
  <2>8. Given(op) = Loaded \cup StackArea \cup {USER_ARG}
    BY <1>6 DEF Given
  <2>9. Loaded \cap StackArea = {} /\ USER_ARG \notin Loaded
    BY Layout
  <2> HIDE DEF StackArea
  <2>10. /\ \A x \in Items(Stack) : x.page \in StackArea /\ x.fill = "keep" /\ x.flags = HEAP_FLAGS
         /\ \A v \in StackArea : \E x \in Items(Stack) : x.page = v
    BY StackItems DEF StackArea
  <2> QED BY <1>1, <2>2, <2>5, <2>7, <2>8, <2>9, <2>10
<1> QED BY <1>5, <1>6

LEMMA NothingMapped ==
  ASSUME NEW m, NEW Rs, Trees(m.tables, Rs), NEW r \in Rs, \A v \in UserPages : LeafT(m.tables, r, v) = Invalid
  PROVE  Mapped(m, r) = {}
BY LeafIsLeafT, InvalidIs DEF Mapped

LEMMA InitIInv == Init => IInv
<1> SUFFICES ASSUME Init PROVE IInv
  OBVIOUS
<1> DEFINE zeroed == [bump |-> BootFrames + 1, tables |-> [f \in Frames |-> [i \in Indices |-> Invalid]],
                      data |-> [f \in Frames \cup Device |-> Zero]]
           a == address_space_create(zeroed)
           todo == Stack \o Pages(USER_CODE, CodePages, "image", LOAD_FLAGS, TRUE)
<1>1. /\ mem = a.m /\ panicked = FALSE /\ procs = {}
      /\ root = [p \in Pids |-> Null] /\ heap_brk = [p \in Pids |-> 0] /\ next_pid = 2
      /\ job = [NoJob EXCEPT !.op = "boot", !.pid = 1, !.root = a.page, !.todo = todo]
  BY Zenon DEF Init
<1>2. zeroed.bump = 3 /\ zeroed.bump \in Frames /\ zeroed \in MemType
  <2>1. 3 \in 1..PoolSize /\ 3 \in 1..PoolSize + 1
    BY MemoryAssumption DEF BootFrames
  <2>2. [f \in Frames |-> [i \in Indices |-> Invalid]] \in TablesType
    BY InvalidIsPte DEF TablesType
  <2>3. [f \in Frames \cup Device |-> Zero] \in [Frames \cup Device -> Filling]
    BY DEF Filling
  <2> QED BY <2>1, <2>2, <2>3 DEF MemType, Frames, BootFrames
<1>3. \A t \in Frames, i \in Indices : zeroed.tables[t][i] = Invalid
  OBVIOUS
<1> HIDE DEF zeroed
<1>4. Iso(zeroed.tables, zeroed.bump, {}) /\ Trees(zeroed.tables, {})
  BY <1>3, InvalidIs, FramesAre DEF Iso, Trees
<1>5. /\ a.page = 3 /\ a.m \in MemType /\ a.m.bump = 4
      /\ Fresh(zeroed.tables, 3, a.m.tables) /\ 3 \in Frames
  <2>1. ~(zeroed.bump > PoolSize)
    BY <1>2, MemoryAssumption DEF Frames
  <2> QED BY <1>2, <2>1, AddressSpaceCreate
<1> HIDE DEF a
<1>6. /\ Iso(mem.tables, mem.bump, {3}) /\ Trees(mem.tables, {3})
      /\ \A v \in UserPages : LeafT(mem.tables, 3, v) = Invalid
  <2>1. zeroed.tables \in TablesType
    BY <1>2 DEF MemType
  <2> DEFINE T == zeroed.tables
             T2 == a.m.tables
             none == {}
             b == 3
  <2>2. none \in SUBSET Frames /\ b \in Frames
    BY <1>5
  <2>6. none \cup {b} = {3} /\ b + 1 = 4
    OBVIOUS
  <2>3. Iso(T, b, none) /\ Trees(T, none) /\ T \in TablesType /\ Fresh(T, b, T2)
    BY <1>2, <1>4, <1>5, <2>1
  <2> HIDE DEF T, T2, none, b
  <2>4. Iso(T2, b + 1, none \cup {b}) /\ Trees(T2, none \cup {b})
    BY <2>2, <2>3, NewRoot
  <2>5. ASSUME NEW v \in UserPages
        PROVE  LeafT(T2, b, v) = Invalid
    BY <2>3, FreshEmpty
  <2> QED BY <1>1, <1>5, <2>6, <2>4, <2>5 DEF T2, b
<1>7. /\ todo \in Seq(Item)
      /\ \A x \in Items(todo) : /\ x.page \in Given("boot") /\ "u" \in x.flags
                                /\ x.fill \in {"keep", "zero", "image"}
                                /\ x.page \in Loaded => x.fill = "image"
      /\ \A v \in Given("boot") : \E x \in Items(todo) : x.page = v
  BY LoadItems
<1> HIDE DEF todo
<1>8. /\ job.op = "boot" /\ job.by = 0 /\ job.pid = 1 /\ job.root = 3 /\ job.brk = 0 /\ job.todo = todo
      /\ job = [op |-> "boot", by |-> 0, pid |-> 1, root |-> 3, brk |-> 0, todo |-> todo]
  BY <1>1, <1>5 DEF NoJob
<1>9. TypeOK
  <2>1. job \in Job
    <3>1. 0 \in 0..MaxPid /\ 1 \in 0..MaxPid /\ 3 \in 0..PoolSize /\ 0 \in 0..Width - 1
      BY MemoryAssumption, PageSizes DEF BootFrames
    <3> QED BY <1>7, <1>8, <3>1 DEF Job
  <2>2. mem \in MemType
    BY <1>1, <1>5
  <2>3. root \in [Pids -> 0..PoolSize] /\ heap_brk \in [Pids -> 0..Width - 1] /\ next_pid \in 1..MaxPid + 1
    BY <1>1, MemoryAssumption, PageSizes DEF Null
  <2> QED BY <1>1, <2>1, <2>2, <2>3 DEF TypeOK, MemType, TablesType
<1>10. Roots = {3}
  BY <1>1, <1>8 DEF Roots, Null
<1>11. RootsOK
  <2>1. 1 \in Pids /\ 1 < 2
    BY MemoryAssumption DEF Pids
  <2> QED BY <1>1, <1>8, <2>1 DEF RootsOK, Building, Null
<1>12. Mapped(mem, 3) = {}
  BY <1>6, NothingMapped
<1>13. LoadOK
  BY <1>7, <1>8, <1>12 DEF LoadOK, Todo
<1>14. ForkOK /\ BrkOK /\ MapFbOK
  BY <1>8 DEF ForkOK, BrkOK, MapFbOK
<1>15. BreaksOK /\ HeapOK
  BY <1>1 DEF BreaksOK, HeapOK
<1> QED BY <1>6, <1>9, <1>10, <1>11, <1>13, <1>14, <1>15 DEF IInv
-----------------------------------------------------------------------------
(* The steps.                                                               *)

LEMMA InvMem ==
  ASSUME IInv
  PROVE  /\ mem \in MemType /\ Roots \in SUBSET Frames
         /\ Iso(mem.tables, mem.bump, Roots) /\ Trees(mem.tables, Roots)
         /\ \A p \in procs : p \in Pids /\ root[p] \in Roots /\ root[p] # Null
<1>1. mem \in MemType
  BY DEF IInv, TypeOK, MemType, TablesType
<1>2. Iso(mem.tables, mem.bump, Roots) /\ Trees(mem.tables, Roots)
  BY DEF IInv
<1>3. Roots \in SUBSET Frames
  BY <1>2 DEF Iso
<1>4. \A p \in procs : p \in Pids /\ root[p] # Null
  BY DEF IInv, TypeOK, RootsOK
<1>5. \A p \in procs : root[p] \in Roots
  BY <1>4 DEF Roots
<1> QED BY <1>1, <1>2, <1>3, <1>4, <1>5

LEMMA LeavesKept ==
  ASSUME NEW m, NEW m2, NEW Rs, Trees(m.tables, Rs), Trees(m2.tables, Rs), NEW r \in Rs,
         \A v \in UserPages : LeafT(m2.tables, r, v) = LeafT(m.tables, r, v)
  PROVE  Mapped(m2, r) = Mapped(m, r) /\ \A v \in UserPages : Leaf(m2, r, v) = Leaf(m, r, v)
<1>1. \A v \in UserPages : Leaf(m2, r, v) = Leaf(m, r, v)
  BY LeafIsLeafT
<1> QED BY <1>1 DEF Mapped

\* The roots of a tree of fewer address spaces.
LEMMA FewerRoots ==
  ASSUME NEW T, NEW b, NEW Rs, NEW Rs2 \in SUBSET Rs, Iso(T, b, Rs), Trees(T, Rs)
  PROVE  Iso(T, b, Rs2) /\ Trees(T, Rs2)
<1>1. Iso(T, b, Rs2)
  BY DEF Iso
<1>2. Trees(T, Rs2)
  BY DEF Trees
<1> QED BY <1>1, <1>2

\* What a handler that builds a process finds and leaves.
LEMMA BuildMem ==
  ASSUME IInv, NEW p \in Pids, NEW op, NEW todo, Build(p, op, todo)
  PROVE  /\ p \in procs /\ ~panicked /\ job = NoJob /\ next_pid \in Pids /\ next_pid \notin procs
         /\ mem' \in MemType /\ mem'.bump >= mem.bump
         /\ Iso(mem'.tables, mem'.bump, Roots') /\ Trees(mem'.tables, Roots')
         /\ \A r \in Roots : Mapped(mem', r) = Mapped(mem, r) /\ \A v \in UserPages : Leaf(mem', r, v) = Leaf(mem, r, v)
         /\ mem'.data = mem.data
         /\ job'.root \in 0..PoolSize
         /\ panicked' \in BOOLEAN
         /\ ~panicked' => /\ job'.root # Null /\ \A q \in Pids : root[q] # job'.root
                          /\ Mapped(mem', job'.root) = {}
         /\ job' = [op |-> op, by |-> p, pid |-> next_pid, root |-> job'.root, brk |-> 0, todo |-> todo]
         /\ next_pid' = next_pid + 1 /\ procs' = procs /\ root' = root /\ heap_brk' = heap_brk
<1> DEFINE a == address_space_create(mem)
           b == mem.bump
<1>1. /\ InUser(p) /\ next_pid <= MaxPid /\ mem' = a.m /\ panicked' = (a.page = Null)
      /\ job' = [NoJob EXCEPT !.op = op, !.by = p, !.pid = next_pid, !.root = a.page, !.todo = todo]
      /\ next_pid' = next_pid + 1 /\ procs' = procs /\ root' = root /\ heap_brk' = heap_brk
  BY Zenon DEF Build
<1>2. p \in procs /\ ~panicked /\ job = NoJob
  BY <1>1 DEF InUser
<1>3. next_pid \in Pids /\ next_pid \notin procs
  <2>1. next_pid \in 1..MaxPid + 1 /\ procs \subseteq 1..next_pid - 1 /\ MaxPid \in Nat
    BY MemoryAssumption DEF IInv, TypeOK, RootsOK
  <2>2. next_pid \in 1..MaxPid /\ next_pid \notin 1..next_pid - 1
    BY <1>1, <2>1
  <2> QED BY <2>1, <2>2 DEF Pids
<1>4. /\ mem \in MemType /\ Roots \in SUBSET Frames
      /\ Iso(mem.tables, b, Roots) /\ Trees(mem.tables, Roots)
  BY InvMem
<1>5. \/ a.page = Null /\ a.m = mem
      \/ /\ b \in Frames /\ a.page = b /\ a.page # Null
         /\ a.m \in MemType /\ a.m.bump = b + 1 /\ a.m.data = mem.data
         /\ Fresh(mem.tables, b, a.m.tables)
  BY <1>4, AddressSpaceCreate
<1> HIDE DEF a
<1>6. job' = [op |-> op, by |-> p, pid |-> next_pid, root |-> a.page, brk |-> 0, todo |-> todo]
  BY <1>1 DEF NoJob
<1>7. job'.root = a.page
  BY <1>6
<1>8. Roots = {root[q] : q \in Pids} \ {Null} /\ Roots' = ({root[q] : q \in Pids} \cup {a.page}) \ {Null}
  <2>1. job.root = Null
    BY <1>2 DEF NoJob
  <2> QED BY <1>1, <1>7, <2>1 DEF Roots
<1>9. a.page \in 0..PoolSize
  BY <1>5, MemoryAssumption DEF Null, Frames
<1>10. CASE a.page = Null
  <2>1. mem' = mem /\ panicked' /\ panicked' \in BOOLEAN
    BY <1>1, <1>5, <1>10, <1>4, FramesAre DEF Null
  <2>2. Roots' = Roots
    BY <1>8, <1>10
  <2>3. mem'.bump >= mem.bump
    BY <2>1, <1>4, BumpIs
  <2> QED BY <1>1, <1>2, <1>3, <1>4, <1>6, <1>7, <1>9, <2>1, <2>2, <2>3
<1>11. CASE a.page # Null
  <2>1. /\ b \in Frames /\ a.page = b /\ mem' \in MemType /\ mem'.bump = b + 1 /\ mem'.data = mem.data
        /\ Fresh(mem.tables, b, mem'.tables)
    BY <1>1, <1>5, <1>11
  <2>2. ~panicked' /\ panicked' \in BOOLEAN
    BY <1>1, <1>11
  <2>3. Roots' = Roots \cup {b}
    BY <1>8, <1>11, <2>1
  <2> DEFINE T == mem.tables
             T2 == mem'.tables
  <2>4. T \in TablesType
    BY <1>4 DEF MemType
  <2>5. Iso(T, b, Roots) /\ Trees(T, Roots) /\ Fresh(T, b, T2)
    BY <1>4, <2>1
  <2>6. b \notin Roots /\ Iso(T2, b + 1, Roots \cup {b}) /\ Trees(T2, Roots \cup {b})
    <3> HIDE DEF T, T2, b
    <3>1. b \in Frames /\ Roots \in SUBSET Frames
      BY <1>4, <2>1
    <3>2. b \notin Roots
      BY <2>4, <2>5, <3>1, NewRoot
    <3>3. Iso(T2, b + 1, Roots \cup {b}) /\ Trees(T2, Roots \cup {b})
      BY <2>4, <2>5, <3>1, NewRoot
    <3> QED BY <3>2, <3>3
  <2>7. \A r \in Roots, v \in UserPages : LeafT(T2, r, v) = LeafT(T, r, v)
    <3> HIDE DEF T, T2, b
    <3>1. b \in Frames /\ Roots \in SUBSET Frames
      BY <1>4, <2>1
    <3>2. SameLeaves(T, T2, Roots)
      BY <2>4, <2>5, <3>1, NewRoot
    <3> QED BY <3>2 DEF SameLeaves
  <2>8. Trees(T2, Roots)
    BY <2>6, FewerRoots
  <2>9. \A r \in Roots : Mapped(mem', r) = Mapped(mem, r) /\ \A v \in UserPages : Leaf(mem', r, v) = Leaf(mem, r, v)
    BY <1>4, <2>7, <2>8, LeavesKept
  <2>10. Mapped(mem', b) = {}
    <3>1. \A v \in UserPages : LeafT(T2, b, v) = Invalid
      BY <2>1, FreshEmpty
    <3> QED BY <2>3, <2>6, <3>1, NothingMapped
  <2>11. \A q \in Pids : root[q] # b
    BY <1>8, <2>1, <2>6, <1>11
  <2>12. mem'.bump >= mem.bump
    BY <2>1, <1>4, BumpIs
  <2>13. Iso(mem'.tables, mem'.bump, Roots') /\ Trees(mem'.tables, Roots')
    BY <2>1, <2>3, <2>6
  <2> HIDE DEF T, T2, b
  <2> QED BY <1>1, <1>2, <1>3, <1>6, <1>7, <1>9, <1>11, <2>1, <2>2, <2>9, <2>10, <2>11, <2>12, <2>13
<1> QED BY <1>10, <1>11

\* The pages on the list of a handler that loads a program, and of fork.
LoadList(op, s) ==
  /\ \A x \in Items(s) : /\ x.page \in Given(op) /\ "u" \in x.flags
                         /\ x.fill \in {"keep", "zero", "image"}
                         /\ x.page \in Loaded => x.fill = "image"
  /\ \A v \in Given(op) : \E x \in Items(s) : x.page = v

CopyList(r, s) ==
  /\ \A x \in Items(s) : /\ x.page \in Mapped(mem, r) /\ x.fill = "copy"
                         /\ x.src = Leaf(mem, r, x.page).to
                         /\ x.flags = Leaf(mem, r, x.page).flags
  /\ \A v \in Mapped(mem, r) : \E x \in Items(s) : x.page = v

\* The pages beyond a break while no brk is at work.
LEMMA HeapQuiet ==
  ASSUME IInv, job.op # "brk", ~Exhausted, NEW p \in procs, NEW v \in Mapped(mem, root[p]) \cap HeapPages
  PROVE  v * PAGE_SIZE < current_break(p)
BY DEF IInv, HeapOK

LEMMA ExhaustedStays ==
  ASSUME mem \in MemType, mem' \in MemType, mem'.bump >= mem.bump, Exhausted
  PROVE  Exhausted'
<1>1. mem.bump \in Nat /\ mem'.bump \in Nat /\ PoolSize \in Nat
  BY MemoryAssumption DEF MemType
<1> QED BY <1>1 DEF Exhausted

LEMMA BuildStep ==
  ASSUME IInv, NEW p \in Pids, NEW op \in {"exec", "fork"}, NEW todo \in Seq(Item), Build(p, op, todo),
         op = "exec" => LoadList(op, todo), op = "fork" => CopyList(root[p], todo)
  PROVE  IInv'
<1>1. /\ p \in procs /\ ~panicked /\ job = NoJob /\ next_pid \in Pids /\ next_pid \notin procs
      /\ mem' \in MemType /\ mem'.bump >= mem.bump
      /\ Iso(mem'.tables, mem'.bump, Roots') /\ Trees(mem'.tables, Roots')
      /\ \A r \in Roots : Mapped(mem', r) = Mapped(mem, r) /\ \A v \in UserPages : Leaf(mem', r, v) = Leaf(mem, r, v)
      /\ mem'.data = mem.data
      /\ job'.root \in 0..PoolSize
      /\ panicked' \in BOOLEAN
      /\ ~panicked' => /\ job'.root # Null /\ \A q \in Pids : root[q] # job'.root
                       /\ Mapped(mem', job'.root) = {}
      /\ job' = [op |-> op, by |-> p, pid |-> next_pid, root |-> job'.root, brk |-> 0, todo |-> todo]
      /\ next_pid' = next_pid + 1 /\ procs' = procs /\ root' = root /\ heap_brk' = heap_brk
  BY BuildMem
<1>2. job'.op = op /\ job'.by = p /\ job'.pid = next_pid /\ job'.todo = todo /\ Todo' = Items(todo)
  BY <1>1 DEF Todo
<1>3. TypeOK /\ RootsOK /\ BreaksOK /\ HeapOK
  BY DEF IInv
<1>4. mem \in MemType /\ \A q \in procs : q \in Pids /\ root[q] \in Roots
  BY InvMem
<1>5. TypeOK'
  <2>0. MaxPid \in Nat /\ p \in Pids /\ next_pid \in Pids /\ 0 \in 0..Width - 1
    <3>1. MaxPid \in Nat
      BY MemoryAssumption
    <3>2. 0 \in 0..Width - 1
      BY PageSizes
    <3> QED BY <1>1, <3>1, <3>2
  <2>1. job' \in Job
    <3>1. p \in 0..MaxPid /\ next_pid \in 0..MaxPid
      BY <2>0 DEF Pids
    <3> QED BY <1>1, <2>0, <3>1 DEF Job
  <2>2. next_pid + 1 \in 1..MaxPid + 1
    BY <2>0 DEF Pids
  <2> QED BY <1>1, <1>3, <2>1, <2>2 DEF TypeOK, MemType, TablesType
<1>6. RootsOK'
  <2>1. \A q, s \in Pids : root[q] = root[s] /\ root[q] # Null => q = s
    BY <1>3 DEF RootsOK
  <2>2. procs \subseteq 1..next_pid + 1 - 1
    <3>1. procs \subseteq 1..next_pid - 1 /\ next_pid \in Nat
      BY <1>1, <1>3 DEF RootsOK, Pids
    <3>2. 1..next_pid - 1 \subseteq 1..next_pid + 1 - 1
      BY <3>1
    <3> QED BY <3>1, <3>2
  <2>3. next_pid < next_pid + 1
    BY <1>1 DEF Pids
  <2>4. \A q \in procs : root[q] # Null
    BY <1>3 DEF RootsOK
  <2>5. Building' /\ job'.op # "none"
    BY <1>2 DEF Building
  <2>6. /\ procs' = procs /\ root' = root /\ next_pid' = next_pid + 1
        /\ job'.pid = next_pid /\ next_pid \in Pids /\ next_pid \notin procs
        /\ ~panicked' => job'.root # Null /\ \A q \in Pids : root[q] # job'.root
    BY <1>1, <1>2
  <2>7. \A q, s \in Pids : root'[q] = root'[s] /\ root'[q] # Null => q = s
    BY <2>1, <2>6
  <2>8. procs' \subseteq 1..next_pid' - 1 /\ \A q \in procs' : root'[q] # Null
    <3>1. procs' = procs /\ root' = root /\ next_pid' = next_pid + 1
      BY <2>6
    <3>2. \A q \in procs' : root'[q] # Null
      BY <2>4, <3>1
    <3>3. procs' \subseteq 1..next_pid' - 1
      <4>1. next_pid \in Int
        BY <2>6 DEF Pids
      <4> QED BY <2>2, <3>1, <4>1
    <3> QED BY <3>2, <3>3
  <2>9. ~panicked' => /\ job'.root # Null /\ \A q \in Pids : root'[q] # job'.root
                      /\ job'.pid \in Pids /\ job'.pid \notin procs' /\ job'.pid < next_pid'
    BY <2>3, <2>6
  <2> QED BY <2>5, <2>7, <2>8, <2>9 DEF RootsOK
<1>7. BreaksOK'
  BY <1>1, <1>3 DEF BreaksOK
<1>8. ForkOK'
  <2> SUFFICES ASSUME op = "fork", ~panicked' PROVE ForkOK'
    BY <1>2 DEF ForkOK
  <2> DEFINE r == root[p]
  <2>1. r \in Roots /\ CopyList(r, todo)
    BY <1>1, <1>4
  <2>2. root'[job'.by] = r
    BY <1>1, <1>2
  <2>3. \A v \in Mapped(mem, r) : v \in UserPages
    BY DEF Mapped
  <2>4. Mapped(mem', r) = Mapped(mem, r) /\ \A v \in UserPages : Leaf(mem', r, v) = Leaf(mem, r, v)
    BY <1>1, <2>1
  <2>5. Mapped(mem', job'.root) = {}
    BY <1>1
  <2> HIDE DEF r
  <2>6. \A x \in Todo' : /\ x.page \in Mapped(mem', r) /\ x.fill = "copy"
                         /\ x.src = Leaf(mem', r, x.page).to
                         /\ x.flags = Leaf(mem', r, x.page).flags
    BY <1>2, <2>1, <2>3, <2>4 DEF CopyList
  <2>7. \A v \in Mapped(mem', r) : \E x \in Todo' : x.page = v
    BY <1>2, <2>1, <2>4 DEF CopyList
  <2>8. job'.by \in procs'
    BY <1>1, <1>2
  <2> QED BY <2>2, <2>5, <2>6, <2>7, <2>8 DEF ForkOK
<1>9. LoadOK'
  <2> SUFFICES ASSUME op = "exec", ~panicked' PROVE LoadOK'
    BY <1>2 DEF LoadOK
  <2>1. LoadList(op, todo) /\ Mapped(mem', job'.root) = {}
    BY <1>1
  <2> QED BY <1>2, <2>1 DEF LoadOK, LoadList
<1>10. BrkOK' /\ MapFbOK'
  BY <1>2 DEF BrkOK, MapFbOK
<1>11. HeapOK'
  <2> SUFFICES ASSUME NEW q \in procs, NEW v \in Mapped(mem', root[q]) \cap HeapPages
               PROVE  v * PAGE_SIZE < current_break(q)' \/ Exhausted'
    BY <1>1 DEF HeapOK
  <2>1. v \in Mapped(mem, root[q]) \cap HeapPages
    BY <1>1, <1>4
  <2>2. current_break(q)' = current_break(q)
    BY <1>1 DEF current_break
  <2>3. job.op # "brk"
    BY <1>1 DEF NoJob
  <2> QED BY <1>1, <1>4, <2>1, <2>2, <2>3, HeapQuiet, ExhaustedStays
<1> QED BY <1>1, <1>5, <1>6, <1>7, <1>8, <1>9, <1>10, <1>11 DEF IInv

LEMMA ExecStep ==
  ASSUME IInv, NEW p \in Pids, Exec(p)
  PROVE  IInv'
<1> DEFINE todo == Stack \o Pages(USER_ARG, 1, "zero", HEAP_FLAGS, FALSE)
                         \o Pages(USER_CODE, CodePages, "image", LOAD_FLAGS, FALSE)
<1>1. Build(p, "exec", todo)
  BY Zenon DEF Exec
<1>2. todo \in Seq(Item) /\ LoadList("exec", todo)
  BY LoadItems DEF LoadList
<1> HIDE DEF todo
<1> QED BY <1>1, <1>2, BuildStep

LEMMA ForkStep ==
  ASSUME IInv, NEW p \in Pids, Fork(p)
  PROVE  IInv'
<1> DEFINE r == root[p]
           S == Mapped(mem, r)
           copied == Ascending(S)
           n == Cardinality(S)
           E(i) == [page |-> copied[i], fill |-> "copy", src |-> Leaf(mem, r, copied[i]).to,
                    flags |-> Leaf(mem, r, copied[i]).flags, must |-> TRUE]
           todo == copy_user(r)
<1>1. Build(p, "fork", todo)
  BY Zenon DEF Fork
<1>2. r \in Roots
  <2>1. p \in procs
    BY <1>1 DEF Build, InUser
  <2> QED BY <2>1, InvMem
<1>3. S \in SUBSET UserPages /\ \A v \in S : Leaf(mem, r, v) \in Pte
  <2>1. S \in SUBSET UserPages
    BY DEF Mapped
  <2> QED BY <1>2, <2>1, InvMem, LeafFacts
<1>4. n \in Nat /\ copied \in [1..n -> S] /\ \A v \in S : \E i \in 1..n : copied[i] = v
  BY MappedFinite, AscendingIs
<1>5. todo = [i \in DOMAIN copied |-> E(i)]
  BY DEF copy_user
<1> HIDE DEF r, S, copied, n, todo
<1>6. \A i \in 1..n : E(i) \in Item
  <2>1. \A i \in 1..n : copied[i] \in UserPages /\ Leaf(mem, r, copied[i]) \in Pte
    BY <1>3, <1>4
  <2>2. \A i \in 1..n : Leaf(mem, r, copied[i]).to \in 0..PoolSize + FbPages
                     /\ Leaf(mem, r, copied[i]).flags \in SUBSET Flags
    BY <2>1 DEF Pte
  <2> QED BY <2>1, <2>2 DEF Item
<1>7. todo \in Seq(Item) /\ DOMAIN todo = 1..n
  <2> HIDE DEF E
  <2>1. todo \in [1..n -> Item] /\ n \in Int
    BY <1>4, <1>5, <1>6
  <2> QED BY <2>1, ListOf
<1>8. \A i \in 1..n : /\ todo[i].page = copied[i] /\ todo[i].fill = "copy"
                      /\ todo[i].src = Leaf(mem, r, copied[i]).to
                      /\ todo[i].flags = Leaf(mem, r, copied[i]).flags
  <2>1. \A i \in 1..n : todo[i] = E(i)
    BY <1>4, <1>5
  <2>2. \A i : /\ E(i).page = copied[i] /\ E(i).fill = "copy"
               /\ E(i).src = Leaf(mem, r, copied[i]).to
               /\ E(i).flags = Leaf(mem, r, copied[i]).flags
    OBVIOUS
  <2> HIDE DEF E
  <2> QED BY <2>1, <2>2
<1> HIDE DEF E
<1>9. CopyList(r, todo)
  <2>1. ASSUME NEW x \in Items(todo)
        PROVE  /\ x.page \in S /\ x.fill = "copy"
               /\ x.src = Leaf(mem, r, x.page).to
               /\ x.flags = Leaf(mem, r, x.page).flags
    <3>1. PICK i \in 1..n : x = todo[i]
      BY <1>7 DEF Items
    <3> QED BY <1>4, <1>8, <3>1
  <2>2. ASSUME NEW v \in S
        PROVE  \E x \in Items(todo) : x.page = v
    <3>1. PICK i \in 1..n : copied[i] = v
      BY <1>4
    <3> QED BY <1>7, <1>8, <3>1 DEF Items
  <2> QED BY <2>1, <2>2 DEF CopyList, S
<1> QED BY <1>1, <1>7, <1>9, BuildStep DEF r

\* A handler that maps pages into the address space of its caller.
LEMMA CallStep ==
  ASSUME IInv, NEW p \in Pids, InUser(p), NEW op \in {"brk", "map_fb"}, NEW brk \in 0..Width - 1,
         NEW todo \in Seq(Item),
         job' = [op |-> op, by |-> p, pid |-> 0, root |-> root[p], brk |-> brk, todo |-> todo],
         UNCHANGED <<mem, panicked, procs, root, heap_brk, next_pid>>,
         BrkOK', MapFbOK'
  PROVE  IInv'
<1>1. p \in procs /\ ~panicked /\ job = NoJob /\ job.op # "brk"
  BY DEF InUser, NoJob
<1>2. /\ mem' = mem /\ panicked' = panicked /\ procs' = procs /\ root' = root
      /\ heap_brk' = heap_brk /\ next_pid' = next_pid
  OBVIOUS
<1>3. job'.op = op /\ job'.root = root[p]
  OBVIOUS
<1>4. TypeOK /\ RootsOK /\ BreaksOK /\ HeapOK
  BY DEF IInv
<1>5. TypeOK'
  <2>1. root[p] \in 0..PoolSize
    BY <1>4 DEF TypeOK
  <2>2. p \in 0..MaxPid /\ 0 \in 0..MaxPid
    BY MemoryAssumption DEF Pids
  <2>3. job' \in Job
    BY <2>1, <2>2 DEF Job
  <2> QED BY <1>2, <1>4, <2>3 DEF TypeOK
<1>6. Roots' = Roots
  <2>1. job.root = Null
    BY <1>1 DEF NoJob
  <2> QED BY <1>2, <1>3, <2>1 DEF Roots
<1>7. RootsOK'
  <2>1. ~Building' /\ job'.op # "none"
    BY <1>3 DEF Building
  <2> QED BY <1>2, <1>3, <1>4, <2>1 DEF RootsOK
<1>8. BreaksOK'
  BY <1>2, <1>4 DEF BreaksOK
<1>9. ForkOK' /\ LoadOK'
  BY <1>3 DEF ForkOK, LoadOK
<1>10. HeapOK'
  <2>1. \A q : current_break(q)' = current_break(q)
    BY <1>2 DEF current_break
  <2>2. Exhausted' = Exhausted
    BY <1>2 DEF Exhausted
  <2>3. \A q \in procs : \A v \in Mapped(mem, root[q]) \cap HeapPages :
          v * PAGE_SIZE < current_break(q) \/ Exhausted
    BY <1>1, HeapQuiet
  <2> QED BY <1>2, <2>1, <2>2, <2>3 DEF HeapOK
<1>11. Iso(mem.tables, mem.bump, Roots)' /\ Trees(mem.tables, Roots)'
  BY <1>2, <1>6 DEF IInv
<1> QED BY <1>5, <1>7, <1>8, <1>9, <1>10, <1>11 DEF IInv

LEMMA BreakIs ==
  ASSUME IInv, NEW p \in procs
  PROVE  current_break(p) \in 0..Width - 1 /\ current_break(p) >= USER_HEAP * PAGE_SIZE
<1>1. heap_brk[p] \in 0..Width - 1 /\ (heap_brk[p] = 0 \/ heap_brk[p] > USER_HEAP * PAGE_SIZE)
  BY DEF IInv, TypeOK, BreaksOK
<1>2. USER_HEAP * PAGE_SIZE \in 0..Width - 1 /\ Width \in Nat
  BY PageSizes
<1> QED BY <1>1, <1>2 DEF current_break

LEMMA BrkStep ==
  ASSUME IInv, NEW p \in Pids, NEW requested \in Requests, Brk(p, requested)
  PROVE  IInv'
<1> DEFINE todo == heap_pages(p, requested)
<1>1. /\ InUser(p) /\ requested > current_break(p) /\ page_up(requested) <= USER_ARG * PAGE_SIZE
      /\ job' = [NoJob EXCEPT !.op = "brk", !.by = p, !.root = root[p], !.brk = requested, !.todo = todo]
      /\ UNCHANGED <<mem, panicked, procs, root, heap_brk, next_pid>>
  BY Zenon DEF Brk
<1>2. p \in procs
  BY <1>1 DEF InUser
<1>3. requested \in 0..Width - 1
  BY MemoryAssumption
<1>4. current_break(p) \in 0..Width - 1 /\ current_break(p) >= USER_HEAP * PAGE_SIZE
  BY <1>2, BreakIs
<1>5. /\ todo \in Seq(Item)
      /\ \A x \in Items(todo) : /\ x.page \in HeapPages /\ x.fill = "zero" /\ x.flags = HEAP_FLAGS
                                /\ x.page * PAGE_SIZE >= current_break(p)
                                /\ x.page * PAGE_SIZE < requested
      /\ \A i, j \in DOMAIN todo : i < j => todo[i].page < todo[j].page
  BY <1>1, <1>3, <1>4, HeapItems
<1> HIDE DEF todo
<1>6. job' = [op |-> "brk", by |-> p, pid |-> 0, root |-> root[p], brk |-> requested, todo |-> todo]
  BY <1>1 DEF NoJob
<1>7. /\ job'.op = "brk" /\ job'.by = p /\ job'.root = root[p] /\ job'.brk = requested
      /\ job'.todo = todo /\ Todo' = Items(todo)
  BY <1>6 DEF Todo
<1>8. procs' = procs /\ root' = root /\ current_break(p)' = current_break(p)
  BY <1>1 DEF current_break
<1>9. BrkOK'
  <2>1. current_break(job.by)' = current_break(p)
    BY <1>7, <1>1 DEF current_break
  <2> QED BY <1>1, <1>2, <1>5, <1>7, <1>8, <2>1 DEF BrkOK
<1>10. MapFbOK'
  BY <1>7 DEF MapFbOK
<1> QED BY <1>1, <1>3, <1>5, <1>6, <1>9, <1>10, CallStep

LEMMA MapFramebufferStep ==
  ASSUME IInv, NEW p \in Pids, MapFramebuffer(p)
  PROVE  IInv'
<1> DEFINE E(i) == [page |-> USER_FB + i - 1, fill |-> "device", src |-> PoolSize + i,
                    flags |-> HEAP_FLAGS, must |-> TRUE]
           todo == [i \in 1..FbPages |-> E(i)]
<1>1. /\ InUser(p)
      /\ job' = [NoJob EXCEPT !.op = "map_fb", !.by = p, !.root = root[p], !.todo = todo]
      /\ UNCHANGED <<mem, panicked, procs, root, heap_brk, next_pid>>
  BY Zenon DEF MapFramebuffer
<1>2. p \in procs
  BY <1>1 DEF InUser
<1>3. FbPages \in Nat /\ PoolSize \in Nat /\ USER_FB \in Nat
  BY MemoryAssumption
<1>4. \A i \in 1..FbPages : /\ USER_FB + i - 1 \in Window /\ PoolSize + i \in Device
                            /\ PoolSize + i \in 0..PoolSize + FbPages
  BY <1>3 DEF Window, Device
<1>5. \A i \in 1..FbPages : E(i) \in Item
  <2>1. HEAP_FLAGS \in SUBSET Flags
    BY DEF HEAP_FLAGS, Flags
  <2>2. \A i \in 1..FbPages : USER_FB + i - 1 \in UserPages
    BY <1>4, Layout
  <2> QED BY <1>4, <2>1, <2>2 DEF Item
<1>6. \A i : E(i).page = USER_FB + i - 1 /\ E(i).fill = "device" /\ E(i).src = PoolSize + i
  OBVIOUS
<1> HIDE DEF E
<1>7. todo \in Seq(Item) /\ DOMAIN todo = 1..FbPages
  <2>1. todo \in [1..FbPages -> Item] /\ FbPages \in Int
    BY <1>3, <1>5
  <2> HIDE DEF todo
  <2> QED BY <2>1, ListOf
<1>8. \A x \in Items(todo) : x.page \in Window /\ x.fill = "device" /\ x.src \in Device
  <2>1. \A i \in 1..FbPages : todo[i] = E(i)
    OBVIOUS
  <2> HIDE DEF todo
  <2> QED BY <1>4, <1>6, <1>7, <2>1 DEF Items
<1> HIDE DEF todo
<1>9. job' = [op |-> "map_fb", by |-> p, pid |-> 0, root |-> root[p], brk |-> 0, todo |-> todo]
  BY <1>1 DEF NoJob
<1>10. job'.op = "map_fb" /\ job'.by = p /\ job'.root = root[p] /\ Todo' = Items(todo)
  BY <1>9 DEF Todo
<1>11. MapFbOK' /\ BrkOK'
  BY <1>1, <1>2, <1>8, <1>10 DEF MapFbOK, BrkOK
<1>12. 0 \in 0..Width - 1
  BY PageSizes
<1> QED BY <1>1, <1>7, <1>9, <1>11, <1>12, CallStep

LEMMA SameTables ==
  ASSUME NEW m, NEW m2, m2.tables = m.tables, NEW r
  PROVE  Mapped(m2, r) = Mapped(m, r) /\ \A v : Leaf(m2, r, v) = Leaf(m, r, v)
<1>1. \A v : Leaf(m2, r, v) = Leaf(m, r, v)
  BY DEF Leaf
<1> QED BY <1>1 DEF Mapped

LEMMA ExitStep ==
  ASSUME IInv, NEW p \in Pids, Exit(p)
  PROVE  IInv'
<1>1. /\ job = NoJob /\ procs' = procs \ {p} /\ mem' = mem /\ panicked' = panicked /\ root' = root
      /\ heap_brk' = heap_brk /\ next_pid' = next_pid /\ job' = job
  BY DEF Exit, InUser
<1>2. TypeOK /\ RootsOK /\ BreaksOK /\ HeapOK
  BY DEF IInv
<1>3. job.op = "none"
  BY <1>1 DEF NoJob
<1>4. TypeOK'
  BY <1>1, <1>2 DEF TypeOK
<1>5. RootsOK'
  BY <1>1, <1>2, <1>3 DEF RootsOK, Building
<1>6. BreaksOK'
  BY <1>1, <1>2 DEF BreaksOK
<1>7. ForkOK' /\ LoadOK' /\ BrkOK' /\ MapFbOK'
  BY <1>1, <1>3 DEF ForkOK, LoadOK, BrkOK, MapFbOK
<1>8. HeapOK'
  <2>1. \A q : current_break(q)' = current_break(q)
    BY <1>1 DEF current_break
  <2>2. Exhausted' = Exhausted
    BY <1>1 DEF Exhausted
  <2>3. \A q \in procs : \A v \in Mapped(mem, root[q]) \cap HeapPages :
          v * PAGE_SIZE < current_break(q) \/ Exhausted
    BY <1>3, HeapQuiet
  <2> QED BY <1>1, <2>1, <2>2, <2>3 DEF HeapOK
<1>9. Iso(mem.tables, mem.bump, Roots)' /\ Trees(mem.tables, Roots)'
  BY <1>1 DEF IInv, Roots
<1> QED BY <1>4, <1>5, <1>6, <1>7, <1>8, <1>9 DEF IInv

\* Where a store goes, and that it changes only that.
LEMMA StoreMem ==
  ASSUME IInv, NEW p \in Pids, NEW v, NEW x \in Contents, Store(p, v, x)
  PROVE  /\ p \in procs /\ v \in Mapped(mem, root[p]) /\ v \in UserPages /\ root[p] \in Roots
         /\ Leaf(mem, root[p], v).to \in Frames \cup Device
         /\ mem' \in MemType /\ mem'.tables = mem.tables /\ mem'.bump = mem.bump
         /\ \A f \in Frames \cup Device : f # Leaf(mem, root[p], v).to => mem'.data[f] = mem.data[f]
         /\ job = NoJob
         /\ panicked' = panicked /\ procs' = procs /\ root' = root
         /\ heap_brk' = heap_brk /\ next_pid' = next_pid /\ job' = job
<1>1. p \in procs /\ v \in Mapped(mem, root[p]) /\ job = NoJob
  BY DEF Store, InUser
<1> DEFINE f == Leaf(mem, root[p], v).to
<1>2. mem' = [mem EXCEPT !.data[f] = x]
  BY DEF Store
<1>3. /\ panicked' = panicked /\ procs' = procs /\ root' = root
      /\ heap_brk' = heap_brk /\ next_pid' = next_pid /\ job' = job
  BY DEF Store
<1>4. root[p] \in Roots /\ mem \in MemType /\ v \in UserPages /\ "v" \in Leaf(mem, root[p], v).flags
  BY <1>1, InvMem DEF Mapped
<1>5. f \in Frames \cup Device
  BY <1>4, InvMem, LeafFacts
<1> HIDE DEF f
<1>6. x \in Filling
  BY DEF Filling
<1>7. mem' \in MemType /\ mem'.tables = mem.tables /\ mem'.bump = mem.bump
  BY <1>2, <1>4, <1>5, <1>6 DEF MemType
<1>8. \A g \in Frames \cup Device : g # f => mem'.data[g] = mem.data[g]
  BY <1>2, <1>4, <1>5 DEF MemType
<1> QED BY <1>1, <1>3, <1>4, <1>5, <1>7, <1>8 DEF f

LEMMA StoreStep ==
  ASSUME IInv, NEW p \in Pids, NEW v, NEW x \in Contents, Store(p, v, x)
  PROVE  IInv'
<1>1. /\ mem' \in MemType /\ mem'.tables = mem.tables /\ mem'.bump = mem.bump /\ job = NoJob
      /\ panicked' = panicked /\ procs' = procs /\ root' = root
      /\ heap_brk' = heap_brk /\ next_pid' = next_pid /\ job' = job
  BY StoreMem
<1>2. TypeOK /\ RootsOK /\ BreaksOK /\ HeapOK
  BY DEF IInv
<1>3. job.op = "none"
  BY <1>1 DEF NoJob
<1>4. TypeOK'
  BY <1>1, <1>2 DEF TypeOK, MemType, TablesType
<1>5. RootsOK'
  BY <1>1, <1>2, <1>3 DEF RootsOK, Building
<1>6. BreaksOK'
  BY <1>1, <1>2 DEF BreaksOK
<1>7. ForkOK' /\ LoadOK' /\ BrkOK' /\ MapFbOK'
  BY <1>1, <1>3 DEF ForkOK, LoadOK, BrkOK, MapFbOK
<1>8. HeapOK'
  <2>1. \A q : current_break(q)' = current_break(q)
    BY <1>1 DEF current_break
  <2>2. Exhausted' = Exhausted
    BY <1>1 DEF Exhausted
  <2>3. \A q \in procs : \A w \in Mapped(mem, root[q]) \cap HeapPages :
          w * PAGE_SIZE < current_break(q) \/ Exhausted
    BY <1>3, HeapQuiet
  <2>4. \A r : Mapped(mem', r) = Mapped(mem, r)
    BY <1>1, SameTables
  <2> QED BY <1>1, <2>1, <2>2, <2>3, <2>4 DEF HeapOK
<1>9. Iso(mem.tables, mem.bump, Roots)' /\ Trees(mem.tables, Roots)'
  BY <1>1 DEF IInv, Roots
<1> QED BY <1>4, <1>5, <1>6, <1>7, <1>8, <1>9 DEF IInv

\* The handler at work and the page it is about to map.
LEMMA AtWork ==
  ASSUME IInv, Working, NEW item, item = Head(job.todo)
  PROVE  /\ job.op \in {"boot", "exec", "fork", "brk", "map_fb"}
         /\ item \in Item /\ item \in Todo /\ Todo = {item} \cup Items(Tail(job.todo))
         /\ Tail(job.todo) \in Seq(Item)
         /\ item.fill = "device" <=> job.op = "map_fb"
         /\ job.op = "map_fb" => item.src \in Device
         /\ job.root \in Roots
         /\ \A p \in procs : root[p] = job.root =>
              job.op \in {"brk", "map_fb"} /\ job.by = p
<1>1. TypeOK /\ RootsOK /\ ForkOK /\ LoadOK /\ BrkOK /\ MapFbOK /\ ~panicked /\ job.todo # <<>>
  BY DEF IInv, Working
<1>2. job \in Job
  BY <1>1 DEF TypeOK
<1>3. job.todo \in Seq(Item) /\ job.op \in {"none", "boot", "exec", "fork", "brk", "map_fb"}
  BY <1>2 DEF Job
<1>4. job.op # "none"
  BY <1>1 DEF RootsOK, NoJob
<1>5. item \in Item /\ item \in Todo /\ Todo = {item} \cup Items(Tail(job.todo)) /\ Tail(job.todo) \in Seq(Item)
  BY <1>1, <1>3, ItemsTail DEF Todo
<1>6. item.fill = "device" <=> job.op = "map_fb"
  <2>1. CASE job.op = "fork"
    BY <1>1, <1>5, <2>1 DEF ForkOK
  <2>2. CASE job.op \in {"boot", "exec"}
    BY <1>1, <1>5, <2>2 DEF LoadOK
  <2>3. CASE job.op = "brk"
    BY <1>1, <1>5, <2>3 DEF BrkOK
  <2>4. CASE job.op = "map_fb"
    BY <1>1, <1>5, <2>4 DEF MapFbOK
  <2> QED BY <1>3, <1>4, <2>1, <2>2, <2>3, <2>4
<1>7. job.op = "map_fb" => item.src \in Device
  BY <1>1, <1>5 DEF MapFbOK
<1>8. CASE job.op \in {"boot", "exec", "fork"}
  <2>1. job.root # Null /\ \A p \in Pids : root[p] # job.root
    BY <1>1, <1>8 DEF RootsOK, Building
  <2>2. job.root \in Roots
    BY <2>1 DEF Roots
  <2>3. procs \subseteq Pids
    BY <1>1 DEF TypeOK
  <2> QED BY <1>3, <1>4, <1>5, <1>6, <1>7, <2>1, <2>2, <2>3
<1>9. CASE job.op \in {"brk", "map_fb"}
  <2>1. job.by \in procs /\ job.root = root[job.by]
    BY <1>1, <1>9 DEF BrkOK, MapFbOK
  <2>2. root[job.by] \in Roots /\ root[job.by] # Null /\ \A p \in procs : p \in Pids
    BY <2>1, InvMem
  <2>3. \A p \in procs : root[p] = job.root => job.by = p
    BY <1>1, <2>1, <2>2 DEF RootsOK
  <2> QED BY <1>3, <1>4, <1>5, <1>6, <1>7, <1>9, <2>1, <2>2, <2>3
<1> QED BY <1>3, <1>4, <1>8, <1>9

LEMMA OutOfPagesMem ==
  ASSUME IInv, OutOfPages
  PROVE  /\ Exhausted /\ panicked' \in BOOLEAN /\ job' = NoJob /\ mem' = mem /\ procs' = procs
         /\ root' = root /\ heap_brk' = heap_brk /\ next_pid' = next_pid
<1> DEFINE item == Head(job.todo)
<1>1. /\ Working /\ Frame(item).page = Null /\ panicked' = item.must /\ job' = NoJob
      /\ mem' = mem /\ procs' = procs /\ root' = root /\ heap_brk' = heap_brk /\ next_pid' = next_pid
  BY DEF OutOfPages
<1>2. item \in Item /\ (item.fill = "device" => item.src \in Device)
  BY <1>1, AtWork
<1> HIDE DEF item
<1>3. panicked' \in BOOLEAN
  BY <1>1, <1>2 DEF Item
<1>4. item.fill # "device"
  BY <1>1, <1>2, FramesAre DEF Frame, Null
<1>5. try_alloc(mem).page = Null
  BY <1>1, <1>4 DEF Frame
<1>6. Exhausted
  BY <1>5, InvMem, TryAlloc DEF Exhausted
<1> QED BY <1>1, <1>3, <1>6

\* After a handler there is no job; its root is one of the processes', or lost.
LEMMA NoJobFacts ==
  /\ NoJob.op = "none" /\ NoJob.root = Null /\ NoJob \in Job
<1>1. 0 \in 0..MaxPid /\ 0 \in 0..PoolSize /\ 0 \in 0..Width - 1 /\ <<>> \in Seq(Item)
  BY MemoryAssumption, PageSizes
<1> QED BY <1>1 DEF NoJob, Job, Null

LEMMA OutOfPagesStep ==
  ASSUME IInv, OutOfPages
  PROVE  IInv'
<1>1. /\ Exhausted /\ panicked' \in BOOLEAN /\ job' = NoJob /\ mem' = mem /\ procs' = procs
      /\ root' = root /\ heap_brk' = heap_brk /\ next_pid' = next_pid
  BY OutOfPagesMem
<1>2. TypeOK /\ RootsOK /\ BreaksOK
  BY DEF IInv
<1>3. TypeOK'
  BY <1>1, <1>2, NoJobFacts DEF TypeOK
<1>4. RootsOK'
  BY <1>1, <1>2, NoJobFacts DEF RootsOK, Building
<1>5. BreaksOK'
  BY <1>1, <1>2 DEF BreaksOK
<1>6. ForkOK' /\ LoadOK' /\ BrkOK' /\ MapFbOK'
  BY <1>1, NoJobFacts DEF ForkOK, LoadOK, BrkOK, MapFbOK
<1>7. HeapOK'
  <2>1. Exhausted'
    BY <1>1 DEF Exhausted
  <2> QED BY <2>1 DEF HeapOK
<1>8. Roots' \in SUBSET Roots
  BY <1>1, NoJobFacts DEF Roots
<1>9. Iso(mem.tables, mem.bump, Roots)' /\ Trees(mem.tables, Roots)'
  BY <1>1, <1>8, InvMem, FewerRoots
<1> QED BY <1>3, <1>4, <1>5, <1>6, <1>7, <1>9 DEF IInv

\* The layout keeps what a program is loaded with away from its heap.
LEMMA GivenApart ==
  ASSUME NEW op
  PROVE  Given(op) \cap HeapPages = {}
<1>1. /\ CodePages \in Nat /\ FbPages \in Nat /\ StackPages \in Nat
      /\ USER_CODE \in Nat /\ USER_FB \in Nat /\ USER_HEAP \in Nat /\ USER_ARG \in Nat /\ USER_STACK \in Nat
      /\ USER_CODE + CodePages <= USER_FB /\ USER_FB + FbPages <= USER_HEAP
      /\ USER_ARG < USER_STACK - StackPages
  BY MemoryAssumption
<1>2. Loaded \cap HeapPages = {}
  BY <1>1 DEF Loaded, HeapPages
<1>3. (USER_STACK - StackPages..USER_STACK - 1) \cap HeapPages = {}
  BY <1>1 DEF HeapPages
<1>4. USER_ARG \notin HeapPages
  BY <1>1 DEF HeapPages
<1> QED BY <1>2, <1>3, <1>4 DEF Given

\* What every end of a handler has in common.
LEMMA FinishQuiet ==
  ASSUME IInv, ~panicked, job' = NoJob, mem' = mem, panicked' = panicked, next_pid' = next_pid,
         TypeOK', Roots' \in SUBSET Roots, RootsOK', BreaksOK', HeapOK'
  PROVE  IInv'
<1>1. ForkOK' /\ LoadOK' /\ BrkOK' /\ MapFbOK'
  BY NoJobFacts DEF ForkOK, LoadOK, BrkOK, MapFbOK
<1>2. Iso(mem.tables, mem.bump, Roots)' /\ Trees(mem.tables, Roots)'
  BY InvMem, FewerRoots
<1> QED BY <1>1, <1>2 DEF IInv

\* The end of a handler that builds a process.
LEMMA FinishBuild ==
  ASSUME IInv, Building, Finish
  PROVE  LET c == job.pid
         IN  /\ ~panicked /\ job.todo = <<>> /\ Todo = {}
             /\ c \in Pids /\ c \notin procs /\ procs' = procs \cup {c}
             /\ root'[c] = job.root /\ \A q \in Pids : q # c => root'[q] = root[q]
             /\ heap_brk'[c] = InheritedBreak /\ \A q \in Pids : q # c => heap_brk'[q] = heap_brk[q]
             /\ root' \in [Pids -> 0..PoolSize] /\ heap_brk' \in [Pids -> 0..Width - 1]
             /\ job' = NoJob /\ mem' = mem /\ panicked' = panicked /\ next_pid' = next_pid
<1> DEFINE c == job.pid
<1>1. /\ ~panicked /\ job.todo = <<>>
      /\ job' = NoJob /\ mem' = mem /\ panicked' = panicked /\ next_pid' = next_pid
  BY DEF Finish
<1>2. /\ procs' = procs \cup {c} /\ root' = [root EXCEPT ![c] = job.root]
      /\ heap_brk' = [heap_brk EXCEPT ![c] = InheritedBreak]
  BY DEF Finish, Building
<1>3. TypeOK /\ RootsOK /\ ForkOK
  BY DEF IInv
<1>4. c \in Pids /\ c \notin procs
  BY <1>1, <1>3 DEF RootsOK
<1>5. Todo = {}
  BY <1>1 DEF Todo, Items
<1>6. job.root \in 0..PoolSize
  <2>1. job \in Job
    BY <1>3 DEF TypeOK
  <2> QED BY <2>1 DEF Job
<1>7. InheritedBreak \in 0..Width - 1
  <2>1. 0 \in 0..Width - 1
    BY PageSizes
  <2>2. job.op = "fork" => job.by \in Pids
    BY <1>1, <1>3 DEF ForkOK, TypeOK
  <2>3. heap_brk \in [Pids -> 0..Width - 1]
    BY <1>3 DEF TypeOK
  <2> QED BY <2>1, <2>2, <2>3 DEF InheritedBreak
<1>8. root \in [Pids -> 0..PoolSize] /\ heap_brk \in [Pids -> 0..Width - 1]
  BY <1>3 DEF TypeOK
<1> HIDE DEF c
<1>9. /\ root'[c] = job.root /\ \A q \in Pids : q # c => root'[q] = root[q]
      /\ root' \in [Pids -> 0..PoolSize]
  BY <1>2, <1>4, <1>6, <1>8
<1>10. /\ heap_brk'[c] = InheritedBreak /\ \A q \in Pids : q # c => heap_brk'[q] = heap_brk[q]
       /\ heap_brk' \in [Pids -> 0..Width - 1]
  BY <1>2, <1>4, <1>7, <1>8
<1> QED BY <1>1, <1>2, <1>4, <1>5, <1>9, <1>10 DEF c

LEMMA FinishBuildStep ==
  ASSUME IInv, Building, Finish
  PROVE  IInv'
<1> DEFINE c == job.pid
<1>1. /\ ~panicked /\ Todo = {}
      /\ c \in Pids /\ c \notin procs /\ procs' = procs \cup {c}
      /\ root'[c] = job.root /\ \A q \in Pids : q # c => root'[q] = root[q]
      /\ heap_brk'[c] = InheritedBreak /\ \A q \in Pids : q # c => heap_brk'[q] = heap_brk[q]
      /\ root' \in [Pids -> 0..PoolSize] /\ heap_brk' \in [Pids -> 0..Width - 1]
      /\ job' = NoJob /\ mem' = mem /\ panicked' = panicked /\ next_pid' = next_pid
  BY FinishBuild
<1>2. TypeOK /\ RootsOK /\ BreaksOK /\ ForkOK /\ LoadOK
  BY DEF IInv
<1>3. job.root # Null /\ (\A q \in Pids : root[q] # job.root) /\ c < next_pid
  BY <1>1, <1>2 DEF RootsOK
<1> HIDE DEF c
<1>4. procs \subseteq Pids
  BY <1>2 DEF TypeOK
<1>5. TypeOK'
  BY <1>1, <1>2, <1>4, NoJobFacts DEF TypeOK
<1>6. Roots' \in SUBSET Roots
  <2>1. \A q \in Pids : root'[q] \in {root[p] : p \in Pids} \cup {job.root}
    BY <1>1
  <2>2. job'.root = Null
    BY <1>1, NoJobFacts
  <2> QED BY <2>1, <2>2 DEF Roots
<1>7. RootsOK'
  <2>1. \A p, q \in Pids : root'[p] = root'[q] /\ root'[p] # Null => p = q
    <3>1. \A p, q \in Pids : root[p] = root[q] /\ root[p] # Null => p = q
      BY <1>2 DEF RootsOK
    <3> QED BY <1>1, <1>3, <3>1
  <2>2. procs' \subseteq 1..next_pid' - 1
    <3>1. procs \subseteq 1..next_pid - 1 /\ next_pid \in Int /\ c \in 1..next_pid - 1
      BY <1>1, <1>2, <1>3 DEF RootsOK, TypeOK, Pids
    <3> QED BY <1>1, <3>1
  <2>3. \A p \in procs' : root'[p] # Null
    <3>1. \A p \in procs : root[p] # Null
      BY <1>2 DEF RootsOK
    <3> QED BY <1>1, <1>3, <1>4, <3>1
  <2>4. ~Building' /\ job'.root = Null /\ job' = NoJob
    BY <1>1, NoJobFacts DEF Building
  <2> QED BY <2>1, <2>2, <2>3, <2>4 DEF RootsOK
<1>8. job.op = "fork" => job.by \in procs /\ InheritedBreak = heap_brk[job.by]
  BY <1>1, <1>2 DEF ForkOK, InheritedBreak
<1>9. job.op # "fork" => InheritedBreak = 0
  BY DEF InheritedBreak
<1>10. BreaksOK'
  <2>1. \A q \in procs : heap_brk[q] = 0 \/ heap_brk[q] > USER_HEAP * PAGE_SIZE
    BY <1>2 DEF BreaksOK
  <2>2. InheritedBreak = 0 \/ InheritedBreak > USER_HEAP * PAGE_SIZE
    BY <1>8, <1>9, <2>1
  <2>3. \A q \in procs' : heap_brk'[q] = 0 \/ heap_brk'[q] > USER_HEAP * PAGE_SIZE
    BY <1>1, <1>4, <2>1, <2>2
  <2> QED BY <2>3 DEF BreaksOK
<1>11. HeapOK'
  <2> SUFFICES ASSUME NEW q \in procs', NEW v \in Mapped(mem, root'[q]) \cap HeapPages
               PROVE  v * PAGE_SIZE < current_break(q)' \/ Exhausted'
    BY <1>1 DEF HeapOK
  <2>1. Exhausted' = Exhausted
    BY <1>1 DEF Exhausted
  <2>2. job.op # "brk"
    BY DEF Building
  <2>3. CASE q # c
    <3>1. q \in procs /\ root'[q] = root[q] /\ heap_brk'[q] = heap_brk[q]
      BY <1>1, <1>4, <2>3
    <3>2. current_break(q)' = current_break(q)
      BY <3>1 DEF current_break
    <3> QED BY <2>1, <2>2, <3>1, <3>2, HeapQuiet
  <2>4. CASE q = c /\ job.op = "fork"
    <3>1. job.by \in procs /\ heap_brk'[q] = heap_brk[job.by]
      BY <1>1, <1>8, <2>4
    <3>2. current_break(q)' = current_break(job.by)
      BY <3>1 DEF current_break
    <3>3. v \in Mapped(mem, root[job.by])
      BY <1>1, <1>2, <2>4 DEF ForkOK
    <3> QED BY <2>1, <2>2, <3>1, <3>2, <3>3, HeapQuiet
  <2>5. CASE q = c /\ job.op # "fork"
    <3>1. Mapped(mem, job.root) \subseteq Given(job.op)
      BY <1>1, <1>2, <2>5 DEF LoadOK, Building
    <3> QED BY <1>1, <2>5, <3>1, GivenApart
  <2> QED BY <2>3, <2>4, <2>5
<1> QED BY <1>1, <1>5, <1>6, <1>7, <1>10, <1>11, FinishQuiet

\* The end of a brk and of map_framebuffer.
LEMMA FinishCall ==
  ASSUME IInv, ~Building, Finish
  PROVE  /\ ~panicked /\ Todo = {} /\ job.op \in {"brk", "map_fb"}
         /\ job.by \in procs /\ job.root = root[job.by]
         /\ procs' = procs /\ root' = root
         /\ job.op = "brk" => heap_brk' = [heap_brk EXCEPT ![job.by] = job.brk]
         /\ job.op = "map_fb" => heap_brk' = heap_brk
         /\ job' = NoJob /\ mem' = mem /\ panicked' = panicked /\ next_pid' = next_pid
<1>1. /\ ~panicked /\ job.todo = <<>>
      /\ job' = NoJob /\ mem' = mem /\ panicked' = panicked /\ next_pid' = next_pid
  BY DEF Finish
<1>2. /\ job.op \in {"brk", "map_fb"} /\ procs' = procs /\ root' = root
      /\ job.op = "brk" => heap_brk' = [heap_brk EXCEPT ![job.by] = job.brk]
      /\ job.op = "map_fb" => heap_brk' = heap_brk
  BY DEF Finish, Building
<1>3. Todo = {}
  BY <1>1 DEF Todo, Items
<1>4. job.by \in procs /\ job.root = root[job.by]
  BY <1>1, <1>2 DEF IInv, BrkOK, MapFbOK
<1> QED BY <1>1, <1>2, <1>3, <1>4

LEMMA FinishCallStep ==
  ASSUME IInv, ~Building, Finish
  PROVE  IInv'
<1>1. /\ ~panicked /\ Todo = {} /\ job.op \in {"brk", "map_fb"}
      /\ job.by \in procs /\ job.root = root[job.by]
      /\ procs' = procs /\ root' = root
      /\ job.op = "brk" => heap_brk' = [heap_brk EXCEPT ![job.by] = job.brk]
      /\ job.op = "map_fb" => heap_brk' = heap_brk
      /\ job' = NoJob /\ mem' = mem /\ panicked' = panicked /\ next_pid' = next_pid
  BY FinishCall
<1>2. TypeOK /\ RootsOK /\ BreaksOK /\ BrkOK /\ HeapOK
  BY DEF IInv
<1>3. job.op = "brk" => job.brk > current_break(job.by)
  BY <1>1, <1>2 DEF BrkOK
<1>4. heap_brk \in [Pids -> 0..Width - 1] /\ job.by \in Pids /\ job.brk \in 0..Width - 1 /\ procs \subseteq Pids
  <2>1. job \in Job /\ heap_brk \in [Pids -> 0..Width - 1] /\ procs \subseteq Pids
    BY <1>2 DEF TypeOK
  <2>2. job.brk \in 0..Width - 1
    BY <2>1 DEF Job
  <2> QED BY <1>1, <2>1, <2>2
<1>5. /\ heap_brk' \in [Pids -> 0..Width - 1]
      /\ \A q \in Pids : q # job.by \/ job.op = "map_fb" => heap_brk'[q] = heap_brk[q]
      /\ job.op = "brk" => heap_brk'[job.by] = job.brk
  BY <1>1, <1>4
<1>6. Roots' \in SUBSET Roots
  <2>1. job'.root = Null
    BY <1>1, NoJobFacts
  <2> QED BY <1>1, <2>1 DEF Roots
<1>7. TypeOK'
  BY <1>1, <1>2, <1>5, NoJobFacts DEF TypeOK
<1>8. RootsOK'
  <2>1. ~Building' /\ job'.root = Null /\ job' = NoJob
    BY <1>1, NoJobFacts DEF Building
  <2> QED BY <1>1, <1>2, <2>1 DEF RootsOK
<1>9. /\ current_break(job.by) \in Nat /\ USER_HEAP * PAGE_SIZE \in Nat /\ job.brk \in Nat
      /\ current_break(job.by) >= USER_HEAP * PAGE_SIZE
  <2>1. current_break(job.by) \in 0..Width - 1 /\ current_break(job.by) >= USER_HEAP * PAGE_SIZE
    BY <1>1, BreakIs
  <2> QED BY <1>4, <2>1, PageSizes
<1>10. job.op = "brk" => job.brk > USER_HEAP * PAGE_SIZE
  BY <1>3, <1>9
<1>11. BreaksOK'
  <2>1. \A q \in procs : heap_brk[q] = 0 \/ heap_brk[q] > USER_HEAP * PAGE_SIZE
    BY <1>2 DEF BreaksOK
  <2>2. \A q \in procs : heap_brk'[q] = 0 \/ heap_brk'[q] > USER_HEAP * PAGE_SIZE
    BY <1>1, <1>4, <1>5, <1>10, <2>1
  <2> QED BY <1>1, <2>2 DEF BreaksOK
<1>12. HeapOK'
  <2> SUFFICES ASSUME NEW q \in procs, NEW v \in Mapped(mem, root[q]) \cap HeapPages
               PROVE  v * PAGE_SIZE < current_break(q)' \/ Exhausted'
    BY <1>1 DEF HeapOK
  <2>1. Exhausted' = Exhausted
    BY <1>1 DEF Exhausted
  <2>2. \/ v * PAGE_SIZE < current_break(q) \/ Exhausted
        \/ (job.op = "brk" /\ job.by = q /\ v * PAGE_SIZE < job.brk)
    BY <1>2 DEF HeapOK
  <2>3. CASE q # job.by \/ job.op = "map_fb"
    <3>1. heap_brk'[q] = heap_brk[q]
      BY <1>4, <1>5, <2>3
    <3>2. current_break(q)' = current_break(q)
      BY <3>1 DEF current_break
    <3> QED BY <2>1, <2>2, <2>3, <3>2
  <2>4. CASE q = job.by /\ job.op = "brk"
    <3>1. heap_brk'[q] = job.brk /\ job.brk # 0
      BY <1>5, <1>9, <1>10, <2>4
    <3>2. current_break(q)' = job.brk
      BY <3>1 DEF current_break
    <3>3. v * PAGE_SIZE \in Int
      BY PageSizes, Layout DEF HeapPages
    <3> QED BY <1>3, <1>9, <2>1, <2>2, <2>4, <3>2, <3>3
  <2> QED BY <1>1, <2>3, <2>4
<1> QED BY <1>1, <1>6, <1>7, <1>8, <1>11, <1>12, FinishQuiet

LEMMA FinishStep ==
  ASSUME IInv, Finish
  PROVE  IInv'
BY FinishBuildStep, FinishCallStep

\* The frame that try_alloc hands out is one that nothing leads to.
LEMMA HandedOut ==
  ASSUME NEW m \in MemType, NEW Rs, Iso(m.tables, m.bump, Rs), m.bump \in Frames
  PROVE  Iso(m.tables, m.bump + 1, Rs) /\ Loose(m.tables, m.bump + 1, Rs, m.bump)
<1>1. m.bump \in Nat
  BY BumpIs
<1>2. \A f \in Frames : f \in Nat
  BY FramesAre
<1>3. /\ \A t \in Frames, i \in Indices : m.tables[t][i].to \in Frames =>
           m.tables[t][i].to < m.bump /\ m.tables[t][i].to \notin Rs
      /\ \A r \in Rs : r \in Frames /\ r < m.bump
      /\ \A t, s \in Frames, i, j \in Indices :
           m.tables[t][i].to \in Frames /\ m.tables[t][i].to = m.tables[s][j].to => t = s /\ i = j
  BY DEF Iso
<1> DEFINE b == m.bump
           T == m.tables
<1> HIDE DEF b, T
<1>4. \A f \in Nat : f < b => f < b + 1 /\ f # b
  BY <1>1 DEF b
<1>5. Iso(T, b + 1, Rs)
  BY <1>2, <1>3, <1>4 DEF Iso, b, T
<1>6. b < b + 1
  BY <1>1 DEF b
<1>7. Loose(T, b + 1, Rs, b)
  BY <1>2, <1>3, <1>4, <1>6 DEF Loose, b, T
<1> QED BY <1>5, <1>7 DEF b, T

\* What filling a page does to the memory.
LEMMA FilledMem ==
  ASSUME NEW m \in MemType, NEW item \in Item, NEW f, f \in Frames \/ item.fill = "device",
         item.fill = "copy" => item.src \in Frames \cup Device, NEW m2, m2 = Filled(m, item, f)
  PROVE  /\ m2 \in MemType /\ m2.tables = m.tables /\ m2.bump = m.bump
         /\ \A g \in Frames \cup Device : g # f => m2.data[g] = m.data[g]
         /\ item.fill = "device" => m2.data = m.data
         /\ item.fill = "zero" => m2.data[f] = Zero
         /\ item.fill = "image" => m2.data[f] = Image
         /\ item.fill = "copy" => m2.data[f] = m.data[item.src]
<1>1. Zero \in Filling /\ Image \in Filling
  BY DEF Filling
<1>2. item.fill \in {"device", "zero", "keep", "image", "copy"}
  BY DEF Item
<1>3. ASSUME NEW c \in Filling, f \in Frames, m2 = [m EXCEPT !.data[f] = c]
      PROVE  /\ m2 \in MemType /\ m2.tables = m.tables /\ m2.bump = m.bump
             /\ \A g \in Frames \cup Device : g # f => m2.data[g] = m.data[g]
             /\ m2.data[f] = c
  BY <1>3 DEF MemType
<1>4. CASE item.fill = "zero"
  <2>1. m2 = [m EXCEPT !.data[f] = Zero] /\ f \in Frames
    BY <1>4 DEF Filled
  <2> QED BY <1>1, <1>3, <1>4, <2>1
<1>5. CASE item.fill = "image"
  <2>1. m2 = [m EXCEPT !.data[f] = Image] /\ f \in Frames
    BY <1>5 DEF Filled
  <2> QED BY <1>1, <1>3, <1>5, <2>1
<1>6. CASE item.fill = "copy"
  <2> DEFINE c == m.data[item.src]
  <2>1. m2 = [m EXCEPT !.data[f] = c] /\ f \in Frames
    BY <1>6 DEF Filled
  <2>2. c \in Filling
    BY <1>6 DEF MemType
  <2> HIDE DEF c
  <2>3. /\ m2 \in MemType /\ m2.tables = m.tables /\ m2.bump = m.bump
        /\ \A g \in Frames \cup Device : g # f => m2.data[g] = m.data[g]
        /\ m2.data[f] = c
    BY <1>3, <2>1, <2>2
  <2> QED BY <1>6, <2>3 DEF c
<1>7. CASE item.fill \in {"device", "keep"}
  <2>1. m2 = m
    BY <1>7 DEF Filled
  <2> QED BY <1>7, <2>1
<1> QED BY <1>2, <1>4, <1>5, <1>6, <1>7

\* What MapNext does to the memory: the page of the item is frame f, a new one
\* unless it belongs to the device; no other walk and no other frame changes.
OnePageMore(item, f) ==
  /\ IF job.op = "map_fb" THEN f = item.src /\ mem'.data = mem.data ELSE f = mem.bump /\ f \in Frames
  /\ mem' \in MemType /\ mem'.bump >= mem.bump
  /\ Iso(mem'.tables, mem'.bump, Roots) /\ Trees(mem'.tables, Roots)
  /\ \A q \in Roots, x \in UserPages :
       q # job.root \/ x # item.page \/ panicked' => Leaf(mem', q, x) = Leaf(mem, q, x)
  /\ ~panicked' => /\ Leaf(mem', job.root, item.page).to = f
                   /\ Leaf(mem', job.root, item.page).flags = item.flags \cup {"v"}
  /\ \A g \in Frames \cup Device : g # f => mem'.data[g] = mem.data[g]
  /\ item.fill = "zero" => mem'.data[f] = Zero
  /\ item.fill = "image" => mem'.data[f] = Image
  /\ item.fill = "copy" => mem'.data[f] = mem.data[item.src]

LEMMA MapNextMem ==
  ASSUME IInv, MapNext, NEW item, item = Head(job.todo)
  PROVE  /\ Working /\ panicked' \in BOOLEAN /\ job' = [job EXCEPT !.todo = Tail(@)]
         /\ procs' = procs /\ root' = root /\ heap_brk' = heap_brk /\ next_pid' = next_pid
         /\ \E f : OnePageMore(item, f)
<1> DEFINE a == Frame(item)
           filled == Filled(a.m, item, a.page)
           done == page_tables_map(filled, job.root, item.page, a.page, item.flags)
<1>1. /\ Working /\ a.page # Null /\ mem' = done.m /\ panicked' = (done.page = Null)
      /\ job' = [job EXCEPT !.todo = Tail(@)] /\ UNCHANGED <<procs, root, heap_brk, next_pid>>
  BY Zenon DEF MapNext
<1>2. /\ item \in Item /\ job.root \in Roots
      /\ item.fill = "device" <=> job.op = "map_fb"
      /\ job.op = "map_fb" => item.src \in Device
  BY <1>1, AtWork
<1>3. mem \in MemType /\ Roots \in SUBSET Frames /\ Iso(mem.tables, mem.bump, Roots) /\ Trees(mem.tables, Roots)
  BY InvMem
<1>4. item.page \in UserPages /\ item.flags \in SUBSET Flags
  BY <1>2 DEF Item
<1>5. item.fill = "copy" => item.src \in Frames \cup Device
  <2> SUFFICES ASSUME item.fill = "copy" PROVE item.src \in Frames \cup Device
    OBVIOUS
  <2>1. job.op = "fork"
    <3>1. LoadOK /\ BrkOK /\ ~panicked /\ item \in Todo
      BY <1>1, AtWork DEF IInv, Working
    <3>2. job.op \in {"boot", "exec", "fork", "brk"}
      BY <1>1, <1>2, AtWork
    <3>3. job.op \notin {"boot", "exec"}
      BY <3>1 DEF LoadOK
    <3>4. job.op # "brk"
      BY <3>1 DEF BrkOK
    <3> QED BY <3>2, <3>3, <3>4
  <2> DEFINE r == root[job.by]
  <2>2. /\ job.by \in procs /\ item.page \in Mapped(mem, r) /\ item.src = Leaf(mem, r, item.page).to
    <3>1. ForkOK /\ ~panicked /\ item \in Todo
      BY <1>1, AtWork DEF IInv, Working
    <3> QED BY <2>1, <3>1 DEF ForkOK
  <2>3. r \in Roots
    BY <2>2, InvMem
  <2> HIDE DEF r
  <2>4. "v" \in Leaf(mem, r, item.page).flags
    BY <2>2 DEF Mapped
  <2> QED BY <1>3, <1>4, <2>2, <2>3, <2>4, LeafFacts
<1>6. CASE job.op = "map_fb"
  <2>1. a.page = item.src /\ a.m = mem /\ item.src \in Device
    BY <1>2, <1>6 DEF Frame
  <2>2. filled \in MemType /\ filled.tables = mem.tables /\ filled.bump = mem.bump /\ filled.data = mem.data
    BY <1>2, <1>3, <1>6, <2>1, FilledMem
  <2> HIDE DEF a, filled
  <2>3. Iso(filled.tables, filled.bump, Roots) /\ Trees(filled.tables, Roots)
    BY <1>3, <2>2
  <2>4. a.page \in Device
    BY <2>1
  <2>5. /\ done.m \in MemType /\ done.m.data = filled.data /\ done.m.bump >= filled.bump
        /\ Iso(done.m.tables, done.m.bump, Roots) /\ Trees(done.m.tables, Roots)
        /\ \A q \in Roots, x \in UserPages :
             q # job.root \/ x # item.page \/ done.page = Null =>
               LeafT(done.m.tables, q, x) = LeafT(filled.tables, q, x)
        /\ done.page # Null =>
             LeafT(done.m.tables, job.root, item.page) = [to |-> a.page, flags |-> item.flags \cup {"v"}]
    BY <1>2, <1>3, <1>4, <2>2, <2>3, <2>4, PageTablesMap
  <2> HIDE DEF done
  <2>6. \A q \in Roots, x \in UserPages : /\ Leaf(mem', q, x) = LeafT(done.m.tables, q, x)
                                          /\ Leaf(mem, q, x) = LeafT(mem.tables, q, x)
    <3>1. mem' \in MemType /\ Iso(mem'.tables, mem'.bump, Roots) /\ Trees(mem'.tables, Roots)
      BY <1>1, <2>5
    <3> QED BY <1>1, <1>3, <3>1, LeafFacts
  <2>7. OnePageMore(item, a.page)
    <3>1. a.page = item.src /\ mem'.data = mem.data /\ mem'.bump >= mem.bump
      BY <1>1, <2>1, <2>2, <2>5
    <3>2. mem' \in MemType /\ Iso(mem'.tables, mem'.bump, Roots) /\ Trees(mem'.tables, Roots)
      BY <1>1, <2>5
    <3>3. \A q \in Roots, x \in UserPages :
            q # job.root \/ x # item.page \/ panicked' => Leaf(mem', q, x) = Leaf(mem, q, x)
      <4>1. panicked' = (done.page = Null)
        BY <1>1
      <4>2. filled.tables = mem.tables
        BY <2>2
      <4>3. \A q \in Roots, x \in UserPages :
              q # job.root \/ x # item.page \/ done.page = Null =>
                LeafT(done.m.tables, q, x) = LeafT(mem.tables, q, x)
        BY <2>5, <4>2
      <4> QED BY <2>6, <4>1, <4>3
    <3>4. ~panicked' => /\ Leaf(mem', job.root, item.page).to = a.page
                        /\ Leaf(mem', job.root, item.page).flags = item.flags \cup {"v"}
      <4> DEFINE e == Leaf(mem', job.root, item.page)
      <4>1. panicked' = (done.page = Null) /\ job.root \in Roots /\ item.page \in UserPages
        BY <1>1, <1>2, <1>4
      <4>2. e = LeafT(done.m.tables, job.root, item.page)
        BY <2>6, <4>1
      <4>3. ~panicked' => e = [to |-> a.page, flags |-> item.flags \cup {"v"}]
        BY <2>5, <4>1, <4>2
      <4> HIDE DEF e
      <4>4. ~panicked' => e.to = a.page /\ e.flags = item.flags \cup {"v"}
        BY <4>3
      <4> QED BY <4>4 DEF e
    <3>5. item.fill = "device"
      BY <1>2, <1>6
    <3> QED BY <1>6, <3>1, <3>2, <3>3, <3>4, <3>5 DEF OnePageMore
  <2> QED BY <1>1, <2>7
<1>7. CASE job.op # "map_fb"
  <2>1. a = try_alloc(mem)
    BY <1>2, <1>7 DEF Frame
  <2>2. /\ a.page = mem.bump /\ mem.bump \in Frames
        /\ a.m \in MemType /\ a.m.bump = mem.bump + 1 /\ a.m.tables = mem.tables /\ a.m.data = mem.data
    BY <1>1, <1>3, <2>1, TryAlloc
  <2>3. /\ filled \in MemType /\ filled.tables = a.m.tables /\ filled.bump = a.m.bump
        /\ \A g \in Frames \cup Device : g # a.page => filled.data[g] = a.m.data[g]
        /\ item.fill = "zero" => filled.data[a.page] = Zero
        /\ item.fill = "image" => filled.data[a.page] = Image
        /\ item.fill = "copy" => filled.data[a.page] = a.m.data[item.src]
    <3>1. filled = Filled(a.m, item, a.page)
      OBVIOUS
    <3> HIDE DEF a, filled
    <3>2. a.page \in Frames /\ a.m \in MemType /\ item \in Item
      BY <1>2, <2>2
    <3> QED BY <1>5, <3>1, <3>2, FilledMem
  <2> HIDE DEF a, filled
  <2>4. Iso(filled.tables, filled.bump, Roots) /\ Trees(filled.tables, Roots)
        /\ Loose(filled.tables, filled.bump, Roots, a.page)
    BY <1>3, <2>2, <2>3, HandedOut
  <2>5. /\ done.m \in MemType /\ done.m.data = filled.data /\ done.m.bump >= filled.bump
        /\ Iso(done.m.tables, done.m.bump, Roots) /\ Trees(done.m.tables, Roots)
        /\ \A q \in Roots, x \in UserPages :
             q # job.root \/ x # item.page \/ done.page = Null =>
               LeafT(done.m.tables, q, x) = LeafT(filled.tables, q, x)
        /\ done.page # Null =>
             LeafT(done.m.tables, job.root, item.page) = [to |-> a.page, flags |-> item.flags \cup {"v"}]
    BY <1>2, <1>3, <1>4, <2>3, <2>4, PageTablesMap
  <2> HIDE DEF done
  <2>6. \A q \in Roots, x \in UserPages : /\ Leaf(mem', q, x) = LeafT(done.m.tables, q, x)
                                          /\ Leaf(mem, q, x) = LeafT(mem.tables, q, x)
    <3>1. mem' \in MemType /\ Iso(mem'.tables, mem'.bump, Roots) /\ Trees(mem'.tables, Roots)
      BY <1>1, <2>5
    <3> QED BY <1>1, <1>3, <3>1, LeafFacts
  <2>7. mem'.bump >= mem.bump
    <3>1. mem.bump \in Nat /\ done.m.bump \in Nat
      BY <1>3, <2>5, BumpIs
    <3> QED BY <1>1, <2>2, <2>3, <2>5, <3>1
  <2>8. OnePageMore(item, a.page)
    <3>1. a.page = mem.bump /\ a.page \in Frames /\ mem'.data = filled.data /\ a.m.data = mem.data
      BY <1>1, <2>2, <2>5
    <3>2. mem' \in MemType /\ Iso(mem'.tables, mem'.bump, Roots) /\ Trees(mem'.tables, Roots)
      BY <1>1, <2>5
    <3>3. \A q \in Roots, x \in UserPages :
            q # job.root \/ x # item.page \/ panicked' => Leaf(mem', q, x) = Leaf(mem, q, x)
      <4>1. panicked' = (done.page = Null)
        BY <1>1
      <4>2. filled.tables = mem.tables
        BY <2>2, <2>3
      <4>3. \A q \in Roots, x \in UserPages :
              q # job.root \/ x # item.page \/ done.page = Null =>
                LeafT(done.m.tables, q, x) = LeafT(mem.tables, q, x)
        BY <2>5, <4>2
      <4> QED BY <2>6, <4>1, <4>3
    <3>4. ~panicked' => /\ Leaf(mem', job.root, item.page).to = a.page
                        /\ Leaf(mem', job.root, item.page).flags = item.flags \cup {"v"}
      <4> DEFINE e == Leaf(mem', job.root, item.page)
      <4>1. panicked' = (done.page = Null) /\ job.root \in Roots /\ item.page \in UserPages
        BY <1>1, <1>2, <1>4
      <4>2. e = LeafT(done.m.tables, job.root, item.page)
        BY <2>6, <4>1
      <4>3. ~panicked' => e = [to |-> a.page, flags |-> item.flags \cup {"v"}]
        BY <2>5, <4>1, <4>2
      <4> HIDE DEF e
      <4>4. ~panicked' => e.to = a.page /\ e.flags = item.flags \cup {"v"}
        BY <4>3
      <4> QED BY <4>4 DEF e
    <3> QED BY <1>7, <2>3, <2>7, <3>1, <3>2, <3>3, <3>4 DEF OnePageMore
  <2> QED BY <1>1, <2>8
<1> QED BY <1>6, <1>7

LEMMA SortedTail ==
  ASSUME NEW X, NEW s \in Seq(X), s # <<>>, \A i, j \in DOMAIN s : i < j => s[i].page < s[j].page
  PROVE  /\ \A x \in Items(Tail(s)) : Head(s).page < x.page
         /\ \A i, j \in DOMAIN Tail(s) : i < j => Tail(s)[i].page < Tail(s)[j].page
<1>1. Len(s) \in Nat /\ Len(s) > 0 /\ DOMAIN s = 1..Len(s) /\ Head(s) = s[1]
  OBVIOUS
<1>2. DOMAIN Tail(s) = 1..Len(s) - 1 /\ \A i \in 1..Len(s) - 1 : Tail(s)[i] = s[i + 1]
  OBVIOUS
<1>3. \A i \in 1..Len(s) - 1 : i + 1 \in DOMAIN s /\ 1 \in DOMAIN s /\ 1 < i + 1
  BY <1>1
<1>4. \A i \in 1..Len(s) - 1 : s[1].page < s[i + 1].page
  BY <1>3
<1>5. \A x \in Items(Tail(s)) : Head(s).page < x.page
  BY <1>1, <1>2, <1>4 DEF Items
<1>6. \A i, j \in 1..Len(s) - 1 : i < j => i + 1 < j + 1
  BY <1>1
<1>7. \A i, j \in DOMAIN Tail(s) : i < j => Tail(s)[i].page < Tail(s)[j].page
  BY <1>2, <1>3, <1>6
<1> QED BY <1>5, <1>7

\* MapNext changes nothing at the end of any other walk.
LEMMA OtherWalks ==
  ASSUME IInv, NEW item, NEW f, OnePageMore(item, f), NEW q \in Roots, NEW v \in UserPages,
         q # job.root \/ v # item.page \/ panicked'
  PROVE  /\ Leaf(mem', q, v) = Leaf(mem, q, v)
         /\ v \in Mapped(mem', q) <=> v \in Mapped(mem, q)
         /\ "v" \in Leaf(mem, q, v).flags => Holds(mem', q, v) = Holds(mem, q, v)
<1> DEFINE e == Leaf(mem, q, v)
<1>1. Leaf(mem', q, v) = e
  BY DEF OnePageMore
<1>2. v \in Mapped(mem', q) <=> v \in Mapped(mem, q)
  BY <1>1 DEF Mapped
<1>3. /\ "v" \in e.flags => e.to \in Frames \cup Device
      /\ e.to \in Frames => e.to < mem.bump
  BY InvMem, LeafFacts
<1>4. mem.bump \in Nat
  BY InvMem, BumpIs
<1> HIDE DEF e
<1>5. ASSUME "v" \in e.flags
      PROVE  mem'.data[e.to] = mem.data[e.to]
  <2>1. CASE job.op = "map_fb"
    BY <2>1 DEF OnePageMore
  <2>2. CASE job.op # "map_fb"
    <3>1. f = mem.bump /\ f \in Frames
      BY <2>2 DEF OnePageMore
    <3>2. e.to # f
      BY <1>3, <1>4, <3>1
    <3> QED BY <1>3, <1>5, <3>2 DEF OnePageMore
  <2> QED BY <2>1, <2>2
<1>6. "v" \in e.flags => Holds(mem', q, v) = Holds(mem, q, v)
  BY <1>1, <1>5 DEF Holds, e
<1> QED BY <1>1, <1>2, <1>6 DEF e

\* The job after MapNext.
LEMMA NextJob ==
  ASSUME IInv, Working, job' = [job EXCEPT !.todo = Tail(@)]
  PROVE  /\ job' \in Job /\ job'.op = job.op /\ job'.by = job.by /\ job'.pid = job.pid
         /\ job'.root = job.root /\ job'.brk = job.brk /\ job'.todo = Tail(job.todo)
         /\ Todo = {Head(job.todo)} \cup Todo' /\ job.op # "none"
<1>1. job \in Job
  BY DEF IInv, TypeOK
<1>2. Todo = {Head(job.todo)} \cup Items(Tail(job.todo)) /\ Tail(job.todo) \in Seq(Item) /\ job.op # "none"
  BY AtWork
<1>3. /\ job' \in Job /\ job'.op = job.op /\ job'.by = job.by /\ job'.pid = job.pid
      /\ job'.root = job.root /\ job'.brk = job.brk /\ job'.todo = Tail(job.todo)
  BY <1>1, <1>2 DEF Job
<1>4. Todo' = Items(Tail(job.todo))
  BY <1>3 DEF Todo
<1> QED BY <1>2, <1>3, <1>4

LEMMA MapNextFork ==
  ASSUME IInv, MapNext
  PROVE  ForkOK'
<1> DEFINE item == Head(job.todo)
<1> HIDE DEF item
<1>1. /\ Working /\ job' = [job EXCEPT !.todo = Tail(@)] /\ procs' = procs /\ root' = root
      /\ \E f : OnePageMore(item, f)
  BY MapNextMem DEF item
<1>2. PICK f : OnePageMore(item, f)
  BY <1>1
<1>3. job'.op = job.op /\ job'.by = job.by /\ job'.root = job.root /\ Todo = {item} \cup Todo'
  BY <1>1, NextJob DEF item
<1> SUFFICES ASSUME job.op = "fork", ~panicked' PROVE ForkOK'
  BY <1>3 DEF ForkOK
<1> DEFINE r == root[job.by]
           c == job.root
<1>4. /\ job.by \in procs
      /\ \A x \in Todo : /\ x.page \in Mapped(mem, r) /\ x.fill = "copy"
                         /\ x.src = Leaf(mem, r, x.page).to
                         /\ x.flags = Leaf(mem, r, x.page).flags
      /\ Mapped(mem, c) \subseteq Mapped(mem, r)
      /\ \A v \in Mapped(mem, r) :
           \/ \E x \in Todo : x.page = v
           \/ /\ Leaf(mem, c, v).flags = Leaf(mem, r, v).flags
              /\ Leaf(mem, c, v).to \in Frames
              /\ Holds(mem, c, v) = Holds(mem, r, v)
  BY <1>1 DEF IInv, ForkOK, Working
<1>5. r \in Roots /\ c \in Roots /\ r # c
  <2>1. r \in Roots
    BY <1>4, InvMem
  <2>2. c \in Roots
    BY <1>1, AtWork
  <2>3. r # c
    BY <1>1, <1>4, AtWork
  <2> QED BY <2>1, <2>2, <2>3
<1>6. root'[job'.by] = r /\ job'.root = c
  BY <1>1, <1>3
<1>7. \A v \in UserPages : v \in Mapped(mem, r) => "v" \in Leaf(mem, r, v).flags
  BY DEF Mapped
<1>8. \A m, q : Mapped(m, q) \subseteq UserPages
  BY DEF Mapped
<1> HIDE DEF r
<1>9. \A v \in UserPages : /\ Leaf(mem', r, v) = Leaf(mem, r, v)
                           /\ v \in Mapped(mem', r) <=> v \in Mapped(mem, r)
                           /\ "v" \in Leaf(mem, r, v).flags => Holds(mem', r, v) = Holds(mem, r, v)
  BY <1>2, <1>5, OtherWalks
<1>10. \A v \in UserPages : v # item.page =>
         /\ Leaf(mem', c, v) = Leaf(mem, c, v)
         /\ v \in Mapped(mem', c) <=> v \in Mapped(mem, c)
         /\ "v" \in Leaf(mem, c, v).flags => Holds(mem', c, v) = Holds(mem, c, v)
  BY <1>2, <1>5, OtherWalks
<1>11. Mapped(mem', r) = Mapped(mem, r)
  BY <1>8, <1>9
<1>12. item \in Todo /\ Todo' \subseteq Todo /\ item.page \in Mapped(mem, r) /\ item.page \in UserPages
  BY <1>3, <1>4, <1>8
<1>13. /\ Leaf(mem', c, item.page).flags = Leaf(mem, r, item.page).flags
       /\ Leaf(mem', c, item.page).to \in Frames
       /\ Holds(mem', c, item.page) = Holds(mem, r, item.page)
  <2>1. /\ Leaf(mem', c, item.page).to = f /\ Leaf(mem', c, item.page).flags = item.flags \cup {"v"}
        /\ f \in Frames /\ (item.fill = "copy" => mem'.data[f] = mem.data[item.src])
    BY <1>2 DEF OnePageMore
  <2>2. item.fill = "copy" /\ item.src = Leaf(mem, r, item.page).to /\ item.flags = Leaf(mem, r, item.page).flags
    BY <1>4, <1>12
  <2>3. "v" \in Leaf(mem, r, item.page).flags
    BY <1>7, <1>12
  <2>4. item.flags \cup {"v"} = item.flags
    BY <2>2, <2>3
  <2>5. Holds(mem', c, item.page) = Holds(mem, r, item.page)
    BY <2>1, <2>2 DEF Holds
  <2> QED BY <2>1, <2>2, <2>4, <2>5
<1> HIDE DEF c
<1>14. Mapped(mem', c) \subseteq Mapped(mem', r)
  BY <1>4, <1>8, <1>10, <1>11, <1>12
<1>15. ASSUME NEW v \in Mapped(mem', r), \A x \in Todo' : x.page # v
       PROVE  /\ Leaf(mem', c, v).flags = Leaf(mem', r, v).flags
              /\ Leaf(mem', c, v).to \in Frames
              /\ Holds(mem', c, v) = Holds(mem', r, v)
  <2>1. v \in Mapped(mem, r) /\ v \in UserPages /\ "v" \in Leaf(mem, r, v).flags
    BY <1>7, <1>8, <1>11
  <2>2. Leaf(mem', r, v) = Leaf(mem, r, v) /\ Holds(mem', r, v) = Holds(mem, r, v)
    BY <1>9, <2>1
  <2>3. CASE v = item.page
    BY <1>13, <2>2, <2>3
  <2>4. CASE v # item.page
    <3>1. ~ \E x \in Todo : x.page = v
      BY <1>3, <1>15, <2>4
    <3>2. /\ Leaf(mem, c, v).flags = Leaf(mem, r, v).flags
          /\ Leaf(mem, c, v).to \in Frames
          /\ Holds(mem, c, v) = Holds(mem, r, v)
      BY <1>4, <2>1, <3>1
    <3>3. Leaf(mem', c, v) = Leaf(mem, c, v) /\ Holds(mem', c, v) = Holds(mem, c, v)
      BY <1>10, <2>1, <2>4, <3>2
    <3> QED BY <2>2, <3>2, <3>3
  <2> QED BY <2>3, <2>4
<1>16. \A x \in Todo' : /\ x.page \in Mapped(mem', r) /\ x.fill = "copy"
                        /\ x.src = Leaf(mem', r, x.page).to
                        /\ x.flags = Leaf(mem', r, x.page).flags
  BY <1>4, <1>8, <1>9, <1>11, <1>12
<1>17. job'.by \in procs'
  BY <1>1, <1>3, <1>4
<1>18. root'[job'.by] = r /\ job'.root = c
  BY <1>6 DEF c
<1> QED BY <1>14, <1>15, <1>16, <1>17, <1>18 DEF ForkOK

LEMMA MapNextLoad ==
  ASSUME IInv, MapNext
  PROVE  LoadOK'
<1> DEFINE item == Head(job.todo)
<1> HIDE DEF item
<1>1. /\ Working /\ job' = [job EXCEPT !.todo = Tail(@)] /\ \E f : OnePageMore(item, f)
  BY MapNextMem DEF item
<1>2. PICK f : OnePageMore(item, f)
  BY <1>1
<1>3. job'.op = job.op /\ job'.root = job.root /\ Todo = {item} \cup Todo'
  BY <1>1, NextJob DEF item
<1> SUFFICES ASSUME job.op \in {"boot", "exec"}, ~panicked' PROVE LoadOK'
  BY <1>3 DEF LoadOK
<1> DEFINE c == job.root
           G == Given(job.op)
<1>4. /\ \A x \in Todo : /\ x.page \in G /\ "u" \in x.flags
                         /\ x.fill \in {"keep", "zero", "image"}
                         /\ x.page \in Loaded => x.fill = "image"
      /\ Mapped(mem, c) \subseteq G
      /\ \A v \in G :
           \/ \E x \in Todo : x.page = v
           \/ v \in Mapped(mem, c) /\ (v \in Loaded => Holds(mem, c, v) = Image)
  BY <1>1 DEF IInv, LoadOK, Working
<1>5. c \in Roots /\ item \in Item
  BY <1>1, AtWork DEF item
<1>6. \A v \in UserPages : v \in Mapped(mem, c) => "v" \in Leaf(mem, c, v).flags
  BY DEF Mapped
<1>7. \A m, q : Mapped(m, q) \subseteq UserPages
  BY DEF Mapped
<1>8. \A v \in UserPages : v # item.page =>
         /\ v \in Mapped(mem', c) <=> v \in Mapped(mem, c)
         /\ "v" \in Leaf(mem, c, v).flags => Holds(mem', c, v) = Holds(mem, c, v)
  BY <1>2, <1>5, OtherWalks
<1>9. item \in Todo /\ Todo' \subseteq Todo /\ item.page \in G /\ item.page \in UserPages
  BY <1>3, <1>4, <1>5 DEF Item
<1>10. /\ item.page \in Mapped(mem', c)
       /\ item.page \in Loaded => Holds(mem', c, item.page) = Image
  <2>1. /\ Leaf(mem', c, item.page).to = f /\ Leaf(mem', c, item.page).flags = item.flags \cup {"v"}
        /\ (item.fill = "image" => mem'.data[f] = Image)
    BY <1>2 DEF OnePageMore
  <2>2. "u" \in item.flags /\ (item.page \in Loaded => item.fill = "image")
    BY <1>4, <1>9
  <2>3. item.page \in Mapped(mem', c)
    BY <1>9, <2>1, <2>2 DEF Mapped
  <2>4. item.page \in Loaded => Holds(mem', c, item.page) = Image
    BY <2>1, <2>2 DEF Holds
  <2> QED BY <2>3, <2>4
<1>11. G' = G
  BY <1>3 DEF Given
<1>12. job'.root = c
  BY <1>3
<1> HIDE DEF c, G
<1>13. Mapped(mem', c) \subseteq G
  BY <1>4, <1>7, <1>8, <1>9
<1>14. \A v \in G :
         \/ \E x \in Todo' : x.page = v
         \/ v \in Mapped(mem', c) /\ (v \in Loaded => Holds(mem', c, v) = Image)
  BY <1>3, <1>4, <1>6, <1>7, <1>8, <1>10
<1>15. \A x \in Todo' : /\ x.page \in G /\ "u" \in x.flags
                        /\ x.fill \in {"keep", "zero", "image"}
                        /\ x.page \in Loaded => x.fill = "image"
  BY <1>4, <1>9
<1>16. Given(job'.op) = G
  BY <1>3 DEF G
<1> QED BY <1>12, <1>13, <1>14, <1>15, <1>16 DEF LoadOK

LEMMA MapNextStep ==
  ASSUME IInv, MapNext
  PROVE  IInv'
<1> DEFINE item == Head(job.todo)
<1> HIDE DEF item
<1>1. /\ Working /\ panicked' \in BOOLEAN /\ job' = [job EXCEPT !.todo = Tail(@)]
      /\ procs' = procs /\ root' = root /\ heap_brk' = heap_brk /\ next_pid' = next_pid
      /\ \E f : OnePageMore(item, f)
  BY MapNextMem DEF item
<1>2. PICK f : OnePageMore(item, f)
  BY <1>1
<1>3. /\ job' \in Job /\ job'.op = job.op /\ job'.by = job.by /\ job'.pid = job.pid
      /\ job'.root = job.root /\ job'.brk = job.brk /\ job'.todo = Tail(job.todo)
      /\ Todo = {item} \cup Todo' /\ job.op # "none"
  BY <1>1, NextJob DEF item
<1>4. TypeOK /\ RootsOK /\ BreaksOK /\ BrkOK /\ MapFbOK /\ HeapOK /\ ~panicked
  BY <1>1 DEF IInv, Working
<1>5. /\ mem' \in MemType /\ mem'.bump >= mem.bump
      /\ Iso(mem'.tables, mem'.bump, Roots) /\ Trees(mem'.tables, Roots)
  BY <1>2 DEF OnePageMore
<1>6. Roots' = Roots
  BY <1>1, <1>3 DEF Roots
<1>7. TypeOK'
  BY <1>1, <1>3, <1>4, <1>5 DEF TypeOK, MemType, TablesType
<1>8. RootsOK'
  <2>1. Building' = Building
    BY <1>3 DEF Building
  <2> QED BY <1>1, <1>3, <1>4, <2>1 DEF RootsOK
<1>9. BreaksOK'
  BY <1>1, <1>4 DEF BreaksOK
<1>10. ForkOK' /\ LoadOK'
  BY MapNextFork, MapNextLoad
<1>11. \A q : current_break(q)' = current_break(q)
  BY <1>1 DEF current_break
<1>12. job.todo \in Seq(Item) /\ job.todo # <<>>
  <2>1. job \in Job
    BY <1>4 DEF TypeOK
  <2> QED BY <1>1, <2>1 DEF Job, Working
<1>13. job.op = "brk" =>
         /\ \A x \in Todo' : item.page < x.page
         /\ \A i, j \in DOMAIN job'.todo : i < j => job'.todo[i].page < job'.todo[j].page
  <2> SUFFICES ASSUME job.op = "brk"
               PROVE  /\ \A x \in Todo' : item.page < x.page
                      /\ \A i, j \in DOMAIN job'.todo : i < j => job'.todo[i].page < job'.todo[j].page
    OBVIOUS
  <2>1. \A i, j \in DOMAIN job.todo : i < j => job.todo[i].page < job.todo[j].page
    BY <1>4 DEF BrkOK
  <2>2. Todo' = Items(Tail(job.todo))
    BY <1>3 DEF Todo
  <2> QED BY <1>3, <1>12, <2>1, <2>2, SortedTail DEF item
<1>14. BrkOK'
  <2> SUFFICES ASSUME job.op = "brk", ~panicked' PROVE BrkOK'
    BY <1>3 DEF BrkOK
  <2>1. current_break(job.by)' = current_break(job.by)
    BY <1>1, <1>3 DEF current_break
  <2> QED BY <1>1, <1>3, <1>4, <1>13, <2>1 DEF BrkOK
<1>15. MapFbOK'
  BY <1>1, <1>3, <1>4 DEF MapFbOK
<1>16. HeapOK'
  <2> SUFFICES ASSUME NEW q \in procs, NEW v \in Mapped(mem', root[q]) \cap HeapPages
               PROVE  \/ v * PAGE_SIZE < current_break(q) \/ Exhausted'
                      \/ /\ job.op = "brk" /\ job.by = q /\ v * PAGE_SIZE < job.brk
                         /\ \A x \in Todo' : v < x.page
    BY <1>1, <1>3, <1>11 DEF HeapOK
  <2>1. root[q] \in Roots /\ v \in UserPages
    BY InvMem DEF Mapped
  <2>2. CASE root[q] # job.root \/ v # item.page \/ panicked'
    <3>1. v \in Mapped(mem, root[q])
      BY <1>2, <2>1, <2>2, OtherWalks
    <3>2. Exhausted => Exhausted'
      BY <1>5, InvMem, ExhaustedStays
    <3> QED BY <1>3, <1>4, <3>1, <3>2 DEF HeapOK
  <2>3. CASE root[q] = job.root /\ v = item.page
    <3>1. job.op \in {"brk", "map_fb"} /\ job.by = q /\ item \in Todo
      BY <1>1, <2>3, AtWork DEF item
    <3>2. job.op = "brk"
      <4>1. job.op = "map_fb" => item.page \in Window
        BY <1>4, <3>1 DEF MapFbOK
      <4> QED BY <2>3, <3>1, <4>1, Layout
    <3>3. item.page * PAGE_SIZE < job.brk
      BY <1>4, <3>1, <3>2 DEF BrkOK
    <3> QED BY <1>13, <2>3, <3>1, <3>2, <3>3
  <2> QED BY <2>2, <2>3
<1>17. Iso(mem.tables, mem.bump, Roots)' /\ Trees(mem.tables, Roots)'
  BY <1>5, <1>6
<1> QED BY <1>7, <1>8, <1>9, <1>10, <1>14, <1>15, <1>16, <1>17 DEF IInv

LEMMA NextIInv == IInv /\ [Next]_vars => IInv'
<1> SUFFICES ASSUME IInv, [Next]_vars PROVE IInv'
  OBVIOUS
<1>1. ASSUME NEW p \in Pids, Exec(p) \/ Fork(p) \/ MapFramebuffer(p) \/ Exit(p)
      PROVE  IInv'
  BY <1>1, ExecStep, ForkStep, MapFramebufferStep, ExitStep
<1>2. ASSUME NEW p \in Pids, NEW a \in Requests, Brk(p, a)
      PROVE  IInv'
  BY <1>2, BrkStep
<1>3. ASSUME NEW p \in Pids, NEW v \in Written, NEW x \in Contents, Store(p, v, x)
      PROVE  IInv'
  BY <1>3, StoreStep
<1>4. CASE MapNext \/ OutOfPages \/ Finish
  BY <1>4, MapNextStep, OutOfPagesStep, FinishStep
<1>5. CASE UNCHANGED vars
  <2>1. /\ mem' = mem /\ panicked' = panicked /\ procs' = procs /\ root' = root
        /\ heap_brk' = heap_brk /\ next_pid' = next_pid /\ job' = job
    BY <1>5 DEF vars
  <2>2. Roots' = Roots /\ Todo' = Todo /\ Exhausted' = Exhausted /\ Building' = Building
    BY <2>1 DEF Roots, Todo, Exhausted, Building
  <2>3. TypeOK' /\ RootsOK' /\ BreaksOK'
    BY <2>1, <2>2 DEF IInv, TypeOK, RootsOK, BreaksOK
  <2>4. ForkOK' /\ LoadOK' /\ MapFbOK'
    BY <2>1, <2>2 DEF IInv, ForkOK, LoadOK, MapFbOK
  <2>5. \A q : current_break(q)' = current_break(q)
    BY <2>1 DEF current_break
  <2>6. BrkOK'
    BY <2>1, <2>2 DEF IInv, BrkOK, current_break
  <2>7. HeapOK'
    BY <2>1, <2>2, <2>5 DEF IInv, HeapOK
  <2> QED BY <2>1, <2>2, <2>3, <2>4, <2>6, <2>7 DEF IInv
<1> QED BY <1>1, <1>2, <1>3, <1>4, <1>5 DEF Next

LEMMA SpecIInv == Spec => []IInv
<1>1. IInv /\ [Next]_vars => IInv'
  BY NextIInv
<1> QED BY <1>1, InitIInv, PTL DEF Spec
-----------------------------------------------------------------------------
(* The theorems.                                                            *)

\* Every state of physical_pages.hll, page_tables.hll and the calls that map
\* pages is well formed: no table is written outside its entries, no pointer of
\* an entry leaves the pool and the device.
THEOREM MemoryTypeOK == Spec => []TypeOK
BY SpecIInv, PTL DEF IInv

\* Isolation is physical, for every number of processes and frames: what
\* alloc_table, walk_or_alloc and address_space_copy_user hand out is in use at
\* one place.
THEOREM MemoryIsolated == Spec => []Isolated
<1>1. IInv => Isolated
  <2> SUFFICES ASSUME IInv PROVE Isolated
    OBVIOUS
  <2>1. /\ \A t, s \in Frames, i, j \in Indices :
             mem.tables[t][i].to \in Frames /\ mem.tables[t][i].to = mem.tables[s][j].to => t = s /\ i = j
        /\ \A t \in Frames, i \in Indices :
             mem.tables[t][i].to \in Frames => mem.tables[t][i].to < mem.bump /\ mem.tables[t][i].to \notin Roots
        /\ \A r \in Roots : r \in Frames /\ r < mem.bump
    BY DEF IInv, Iso
  <2>2. \A e \in Entries : /\ e[1] \in Frames /\ e[2] \in Indices /\ e = <<e[1], e[2]>>
                           /\ mem.tables[e[1]][e[2]].to \in Frames
    BY DEF Entries
  <2>3. \A d, e \in Entries : Target(d) = Target(e) => d = e
    <3> SUFFICES ASSUME NEW d \in Entries, NEW e \in Entries, Target(d) = Target(e) PROVE d = e
      OBVIOUS
    <3>1. d[1] = e[1] /\ d[2] = e[2]
      BY <2>1, <2>2 DEF Target
    <3> QED BY <2>2, <3>1
  <2>4. \A e \in Entries : Target(e) < mem.bump /\ Target(e) \notin Roots
    BY <2>1, <2>2 DEF Target
  <2>5. \A p, q \in Pids : root[p] = root[q] /\ root[p] # Null => p = q
    BY DEF IInv, RootsOK
  <2> QED BY <2>1, <2>3, <2>4, <2>5 DEF Isolated
<1> QED BY <1>1, SpecIInv, PTL

\* What a process reads at a page is the same after a step.
Kept(p, v) == v \in Mapped(mem, root[p])' /\ Holds(mem, root[p], v)' = Holds(mem, root[p], v)

LEMMA SameMemory ==
  ASSUME mem' = mem, NEW p, root'[p] = root[p], NEW v \in Mapped(mem, root[p])
  PROVE  Kept(p, v)
BY DEF Kept

LEMMA BuildKeeps ==
  ASSUME IInv, NEW q \in Pids, NEW op, NEW todo, Build(q, op, todo),
         NEW p \in procs, NEW v \in Mapped(mem, root[p])
  PROVE  Kept(p, v) /\ procs' = procs
<1>1. /\ \A r \in Roots : Mapped(mem', r) = Mapped(mem, r) /\ \A w \in UserPages : Leaf(mem', r, w) = Leaf(mem, r, w)
      /\ mem'.data = mem.data /\ root' = root /\ procs' = procs
  BY BuildMem
<1>2. root[p] \in Roots /\ v \in UserPages
  BY InvMem DEF Mapped
<1>3. Leaf(mem', root'[p], v) = Leaf(mem, root[p], v) /\ v \in Mapped(mem', root'[p])
  BY <1>1, <1>2
<1>4. Holds(mem', root'[p], v) = Holds(mem, root[p], v)
  BY <1>1, <1>3 DEF Holds
<1> QED BY <1>1, <1>3, <1>4 DEF Kept

LEMMA StoreKeeps ==
  ASSUME IInv, NEW q \in Pids, NEW w, NEW x \in Contents, Store(q, w, x),
         NEW p \in procs, NEW v \in Mapped(mem, root[p])
  PROVE  IsDevice(mem, root[p], v) \/ Kept(p, v) \/ \E y \in Contents : Store(p, v, y)
<1>1. /\ q \in procs /\ w \in UserPages /\ root[q] \in Roots
      /\ mem'.tables = mem.tables
      /\ \A f \in Frames \cup Device : f # Leaf(mem, root[q], w).to => mem'.data[f] = mem.data[f]
      /\ root' = root
  BY StoreMem
<1>2. root[p] \in Roots /\ v \in UserPages /\ "v" \in Leaf(mem, root[p], v).flags
  BY InvMem DEF Mapped
<1>3. Leaf(mem, root[p], v).to \in Frames \cup Device
  BY <1>2, InvMem, LeafFacts
<1>4. CASE Leaf(mem, root[p], v).to \in Device
  BY <1>4 DEF IsDevice
<1>5. CASE Leaf(mem, root[p], v).to \in Frames /\ Leaf(mem, root[p], v).to = Leaf(mem, root[q], w).to
  <2>1. root[p] = root[q] /\ v = w
    BY <1>1, <1>2, <1>5, InvMem, LeafUnique
  <2>2. p = q
    BY <1>1, <2>1, InvMem DEF IInv, RootsOK
  <2>3. Store(p, v, x)
    BY <2>1, <2>2
  <2> QED BY <2>3
<1>6. CASE Leaf(mem, root[p], v).to # Leaf(mem, root[q], w).to
  <2>1. Leaf(mem', root'[p], v) = Leaf(mem, root[p], v) /\ v \in Mapped(mem', root'[p])
    BY <1>1, SameTables
  <2>2. Holds(mem', root'[p], v) = Holds(mem, root[p], v)
    BY <1>1, <1>3, <1>6, <2>1 DEF Holds
  <2> QED BY <2>1, <2>2 DEF Kept
<1> QED BY <1>3, <1>4, <1>5, <1>6

LEMMA MapNextKeeps ==
  ASSUME IInv, MapNext, NEW p \in procs, NEW v \in Mapped(mem, root[p])
  PROVE  Kept(p, v) \/ (job.op = "map_fb" /\ job.by = p /\ v \in Window)
<1> DEFINE item == Head(job.todo)
<1> HIDE DEF item
<1>1. Working /\ root' = root /\ \E f : OnePageMore(item, f)
  BY MapNextMem DEF item
<1>2. PICK f : OnePageMore(item, f)
  BY <1>1
<1>3. root[p] \in Roots /\ v \in UserPages /\ "v" \in Leaf(mem, root[p], v).flags
  BY InvMem DEF Mapped
<1>4. CASE root[p] # job.root \/ v # item.page \/ panicked'
  <2>1. v \in Mapped(mem', root[p]) /\ Holds(mem', root[p], v) = Holds(mem, root[p], v)
    BY <1>2, <1>3, <1>4, OtherWalks
  <2> QED BY <1>1, <2>1 DEF Kept
<1>5. CASE root[p] = job.root /\ v = item.page
  <2>1. job.op \in {"brk", "map_fb"} /\ job.by = p /\ item \in Todo /\ item \in Item
    BY <1>1, <1>5, AtWork DEF item
  <2>2. CASE job.op = "map_fb"
    <3>1. item.page \in Window
      BY <1>1, <2>1, <2>2 DEF IInv, MapFbOK, Working
    <3> QED BY <1>5, <2>1, <2>2, <3>1
  <2>3. CASE job.op = "brk"
    <3>1. item.page \in HeapPages /\ item.page * PAGE_SIZE >= current_break(p)
      BY <1>1, <2>1, <2>3 DEF IInv, BrkOK, Working
    <3>2. ~Exhausted
      <4>1. mem.bump \in Frames
        BY <1>2, <2>3 DEF OnePageMore
      <4> QED BY <4>1, MemoryAssumption DEF Frames, Exhausted
    <3>3. v * PAGE_SIZE < current_break(p) \/ \A x \in Todo : v < x.page
      BY <1>5, <3>1, <3>2 DEF IInv, HeapOK
    <3>4. current_break(p) \in Int /\ item.page \in Int /\ PAGE_SIZE \in Int
      <4>1. item.page \in Int
        BY <3>1, Layout DEF HeapPages
      <4> QED BY <4>1, BreakIs, PageSizes
    <3>5. item.page * PAGE_SIZE \in Int
      BY <3>4
    <3>6. ~(v < item.page) /\ ~(v * PAGE_SIZE < current_break(p))
      BY <1>5, <3>1, <3>4, <3>5
    <3> QED BY <2>1, <3>3, <3>6
  <2> QED BY <2>1, <2>2, <2>3
<1> QED BY <1>4, <1>5

\* Nobody's call changes what a process reads in its memory, for every layout
\* and every sequence of calls: the pages brk and the loaders map are new, and
\* frames of two address spaces are apart.
THEOREM MemoryUndisturbed == Spec => Undisturbed
<1> DEFINE Fine(p, v) == \/ IsDevice(mem, root[p], v)
                         \/ Kept(p, v)
                         \/ \E x \in Contents : Store(p, v, x)
                         \/ job.op = "map_fb" /\ job.by = p /\ v \in Window
<1>1. IInv /\ [Next]_vars => [\A p \in procs : \A v \in Mapped(mem, root[p]) : Fine(p, v)]_vars
  <2> SUFFICES ASSUME IInv, Next, NEW p \in procs, NEW v \in Mapped(mem, root[p]) PROVE Fine(p, v)
    OBVIOUS
    <2>1. ASSUME NEW q \in Pids, Exec(q) \/ Fork(q)
        PROVE  Fine(p, v)
    BY <2>1, BuildKeeps DEF Exec, Fork
  <2>2. ASSUME NEW q \in Pids, MapFramebuffer(q) \/ Exit(q)
        PROVE  Fine(p, v)
    BY <2>2, SameMemory DEF MapFramebuffer, Exit
  <2>3. ASSUME NEW q \in Pids, NEW a \in Requests, Brk(q, a)
        PROVE  Fine(p, v)
    BY <2>3, SameMemory DEF Brk
  <2>4. ASSUME NEW q \in Pids, NEW w \in Written, NEW x \in Contents, Store(q, w, x)
        PROVE  Fine(p, v)
    BY <2>4, StoreKeeps
  <2>5. CASE MapNext
    BY <2>5, MapNextKeeps
  <2>6. CASE OutOfPages
    BY <2>6, SameMemory DEF OutOfPages
  <2>7. CASE Finish
    <3>1. mem' = mem /\ root'[p] = root[p]
      <4>1. CASE Building
        BY <2>7, <4>1, FinishBuild, InvMem
      <4>2. CASE ~Building
        BY <2>7, <4>2, FinishCall
      <4> QED BY <4>1, <4>2
    <3> QED BY <3>1, SameMemory
  <2> QED BY <2>1, <2>2, <2>3, <2>4, <2>5, <2>6, <2>7 DEF Next
<1>2. [\A p \in procs : \A v \in Mapped(mem, root[p]) : Fine(p, v)]_vars =>
        [\A p \in procs : \A v \in Mapped(mem, root[p]) :
           \/ IsDevice(mem, root[p], v)
           \/ v \in Mapped(mem, root[p])' /\ Holds(mem, root[p], v)' = Holds(mem, root[p], v)
           \/ \E x \in Contents : Store(p, v, x)
           \/ job.op = "map_fb" /\ job.by = p /\ v \in USER_FB..USER_FB + FbPages - 1]_vars
  BY DEF Kept, Window
<1> HIDE DEF Fine
<1> QED BY <1>1, <1>2, SpecIInv, PTL DEF Spec, Undisturbed

\* A process that appears.
LEMMA Appears ==
  ASSUME IInv, Finish, Building, NEW c \in procs' \ procs
  PROVE  /\ mem' = mem /\ root'[c] = job.root /\ heap_brk'[c] = InheritedBreak
         /\ ~panicked /\ Todo = {}
<1>1. c = job.pid
  BY FinishBuild
<1> QED BY <1>1, FinishBuild

\* A child starts with what its parent had when it forked and a loaded program
\* with its image, its stack, its argument and no heap (copy_user, elf_loader).
THEOREM MemoryStartsRight == Spec => StartsRight
<1> DEFINE Stacks == USER_STACK - StackPages..USER_STACK - 1 \cup (IF job.op = "exec" THEN {USER_ARG} ELSE {})
           Right(c) ==
             IF job.op = "fork"
             THEN /\ heap_brk'[c] = heap_brk[job.by]
                  /\ Mapped(mem', root'[c]) = Mapped(mem, root[job.by])
                  /\ \A v \in Mapped(mem, root[job.by]) :
                       /\ Holds(mem', root'[c], v) = Holds(mem, root[job.by], v)
                       /\ Leaf(mem', root'[c], v).flags = Leaf(mem, root[job.by], v).flags
             ELSE /\ heap_brk'[c] = 0
                  /\ Mapped(mem', root'[c]) = Loaded \cup Stacks
                  /\ \A v \in Loaded : Holds(mem', root'[c], v) = Image
<1>1. IInv /\ [Next]_vars => [\A c \in procs' \ procs : Right(c)]_vars
  <2> SUFFICES ASSUME IInv, Next, NEW c \in procs' \ procs PROVE Right(c)
    OBVIOUS
  <2>1. Finish /\ Building
    <3>1. ASSUME NEW q \in Pids, Exec(q) \/ Fork(q) \/ MapFramebuffer(q) \/ Exit(q)
          PROVE  FALSE
      BY <3>1 DEF Exec, Fork, Build, MapFramebuffer, Exit
    <3>2. ASSUME NEW q \in Pids, NEW a \in Requests, Brk(q, a)
          PROVE  FALSE
      BY <3>2 DEF Brk
    <3>3. ASSUME NEW q \in Pids, NEW w \in Written, NEW x \in Contents, Store(q, w, x)
          PROVE  FALSE
      BY <3>3 DEF Store
    <3>4. ~MapNext
      BY DEF MapNext
    <3>5. ~OutOfPages
      BY DEF OutOfPages
    <3>6. Finish
      BY <3>1, <3>2, <3>3, <3>4, <3>5 DEF Next
    <3> QED BY <3>6, FinishCall
  <2>2. /\ mem' = mem /\ root'[c] = job.root /\ heap_brk'[c] = InheritedBreak
        /\ ~panicked /\ Todo = {}
    BY <2>1, Appears
  <2> HIDE DEF Right
  <2>3. CASE job.op = "fork"
    <3> DEFINE r == root[job.by]
    <3>1. /\ Mapped(mem, job.root) \subseteq Mapped(mem, r)
          /\ \A v \in Mapped(mem, r) : /\ Leaf(mem, job.root, v).flags = Leaf(mem, r, v).flags
                                       /\ Holds(mem, job.root, v) = Holds(mem, r, v)
      BY <2>2, <2>3 DEF IInv, ForkOK
    <3>2. Mapped(mem, r) \subseteq Mapped(mem, job.root)
      BY <3>1 DEF Mapped
    <3>3. heap_brk'[c] = heap_brk[job.by]
      BY <2>2, <2>3 DEF InheritedBreak
    <3>4. Mapped(mem, job.root) = Mapped(mem, r)
      BY <3>1, <3>2
    <3> HIDE DEF r
    <3>5. Mapped(mem', root'[c]) = Mapped(mem, r)
      BY <2>2, <3>4
    <3>6. \A v \in Mapped(mem, r) : /\ Holds(mem', root'[c], v) = Holds(mem, r, v)
                                    /\ Leaf(mem', root'[c], v).flags = Leaf(mem, r, v).flags
      BY <2>2, <3>1
    <3> QED BY <2>3, <3>3, <3>5, <3>6 DEF Right, r
  <2>4. CASE job.op # "fork"
    <3>1. job.op \in {"boot", "exec"}
      BY <2>1, <2>4 DEF Building
    <3>2. /\ Mapped(mem, job.root) \subseteq Given(job.op)
          /\ \A v \in Given(job.op) :
               v \in Mapped(mem, job.root) /\ (v \in Loaded => Holds(mem, job.root, v) = Image)
      BY <2>2, <3>1 DEF IInv, LoadOK
    <3>3. Given(job.op) = Loaded \cup Stacks
      BY DEF Given
    <3>4. heap_brk'[c] = 0
      BY <2>2, <2>4 DEF InheritedBreak
    <3> HIDE DEF Stacks
    <3>5. Mapped(mem', root'[c]) = Loaded \cup Stacks /\ \A v \in Loaded : Holds(mem', root'[c], v) = Image
      BY <2>2, <3>2, <3>3
    <3> QED BY <2>4, <3>4, <3>5 DEF Right
  <2> QED BY <2>3, <2>4
<1> QED BY <1>1, SpecIInv, PTL DEF Spec, StartsRight, Loaded

-----------------------------------------------------------------------------
(* The break and the pages below it.                                        *)


LEMMA BackedQuiet ==
  ASSUME BackedOK, procs' \subseteq procs, \A p \in procs : root'[p] = root[p] /\ heap_brk'[p] = heap_brk[p],
         \A p \in procs, v \in HeapPages : Backed(mem, root[p], v) => Backed(mem', root[p], v),
         job'.op = "brk" /\ ~panicked' =>
           /\ job'.brk <= USER_ARG * PAGE_SIZE
           /\ \A v \in HeapPages :
                v * PAGE_SIZE < job'.brk => Backed(mem', job'.root, v) \/ \E x \in Todo' : x.page = v
  PROVE  BackedOK'
<1>1. \A p \in procs' :
        /\ heap_brk'[p] <= USER_ARG * PAGE_SIZE
        /\ \A v \in HeapPages : v * PAGE_SIZE < heap_brk'[p] => Backed(mem', root'[p], v)
  BY DEF BackedOK
<1> QED BY <1>1 DEF BackedOK

LEMMA HeapIsUser == HeapPages \subseteq UserPages /\ HeapPages \subseteq Nat
<1>1. HeapPages \subseteq UserPages /\ USER_HEAP \in Nat /\ USER_ARG \in Nat
  BY Layout
<1> QED BY <1>1 DEF HeapPages

LEMMA BuildBacked ==
  ASSUME IInv, BackedOK, NEW p \in Pids, NEW op, op # "brk", NEW todo, Build(p, op, todo)
  PROVE  BackedOK'
<1>1. /\ \A r \in Roots : Mapped(mem', r) = Mapped(mem, r) /\ \A v \in UserPages : Leaf(mem', r, v) = Leaf(mem, r, v)
      /\ job' = [op |-> op, by |-> p, pid |-> next_pid, root |-> job'.root, brk |-> 0, todo |-> todo]
      /\ procs' = procs /\ root' = root /\ heap_brk' = heap_brk
  BY BuildMem
<1>2. job'.op # "brk"
  BY <1>1
<1>3. \A q \in procs, v \in HeapPages : Leaf(mem', root[q], v) = Leaf(mem, root[q], v)
  BY <1>1, InvMem, HeapIsUser
<1>4. \A q \in procs, v \in HeapPages : Backed(mem, root[q], v) => Backed(mem', root[q], v)
  BY <1>3 DEF Backed
<1>5. procs' = procs /\ \A q \in procs : root'[q] = root[q] /\ heap_brk'[q] = heap_brk[q]
  BY <1>1
<1> QED BY <1>2, <1>4, <1>5, BackedQuiet

LEMMA BrkBacked ==
  ASSUME IInv, BackedOK, NoWrap, NEW p \in Pids, NEW requested \in Requests, Brk(p, requested)
  PROVE  BackedOK'
<1> DEFINE todo == heap_pages(p, requested)
<1>1. /\ InUser(p) /\ requested > current_break(p) /\ page_up(requested) <= USER_ARG * PAGE_SIZE
      /\ job' = [NoJob EXCEPT !.op = "brk", !.by = p, !.root = root[p], !.brk = requested, !.todo = todo]
      /\ UNCHANGED <<mem, panicked, procs, root, heap_brk, next_pid>>
  BY Zenon DEF Brk
<1>2. p \in procs
  BY <1>1 DEF InUser
<1>3. requested \in 0..Width - 1 /\ requested + PAGE_SIZE - 1 < Width
  BY MemoryAssumption DEF NoWrap
<1>4. current_break(p) \in 0..Width - 1 /\ current_break(p) >= USER_HEAP * PAGE_SIZE
  BY <1>2, BreakIs
<1>5. /\ requested <= USER_ARG * PAGE_SIZE
      /\ \A v \in HeapPages : v * PAGE_SIZE >= current_break(p) /\ v * PAGE_SIZE < requested
           => \E x \in Items(todo) : x.page = v
  BY <1>1, <1>3, <1>4, HeapItems
<1> HIDE DEF todo
<1>6. job'.root = root[p] /\ job'.brk = requested /\ Todo' = Items(todo)
  BY <1>1 DEF NoJob, Todo
<1>7. ASSUME NEW v \in HeapPages, v * PAGE_SIZE < requested
      PROVE  Backed(mem, root[p], v) \/ \E x \in Items(todo) : x.page = v
  <2>1. v \in Int /\ USER_HEAP \in Int /\ PAGE_SIZE \in Nat \ {0} /\ USER_HEAP <= v
    BY PageSizes, Layout DEF HeapPages
  <2>2. USER_HEAP * PAGE_SIZE <= v * PAGE_SIZE
    BY <2>1, TimesOrder
  <2>3. v * PAGE_SIZE \in Int /\ USER_HEAP * PAGE_SIZE \in Int /\ current_break(p) \in Int
    BY <1>4, <2>1
  <2>4. CASE v * PAGE_SIZE >= current_break(p)
    BY <1>5, <1>7, <2>4
  <2>5. CASE v * PAGE_SIZE < current_break(p)
    <3>1. current_break(p) # USER_HEAP * PAGE_SIZE
      BY <2>2, <2>3, <2>5
    <3>2. current_break(p) = heap_brk[p]
      BY <3>1 DEF current_break
    <3> QED BY <1>2, <2>5, <3>2 DEF BackedOK
  <2> QED BY <2>3, <2>4, <2>5
<1>8. mem' = mem /\ procs' = procs /\ \A q \in procs : root'[q] = root[q] /\ heap_brk'[q] = heap_brk[q]
  BY <1>1
<1>9. job'.op = "brk" /\ ~panicked' =>
        /\ job'.brk <= USER_ARG * PAGE_SIZE
        /\ \A v \in HeapPages :
             v * PAGE_SIZE < job'.brk => Backed(mem', job'.root, v) \/ \E x \in Todo' : x.page = v
  BY <1>5, <1>6, <1>7, <1>8
<1> QED BY <1>8, <1>9, BackedQuiet

LEMMA MapNextBacked ==
  ASSUME IInv, BackedOK, MapNext
  PROVE  BackedOK'
<1> DEFINE item == Head(job.todo)
<1> HIDE DEF item
<1>1. /\ Working /\ job' = [job EXCEPT !.todo = Tail(@)]
      /\ procs' = procs /\ root' = root /\ heap_brk' = heap_brk
      /\ \E f : OnePageMore(item, f)
  BY MapNextMem DEF item
<1>2. PICK f : OnePageMore(item, f)
  BY <1>1
<1>3. job'.op = job.op /\ job'.root = job.root /\ job'.brk = job.brk /\ Todo = {item} \cup Todo'
  BY <1>1, NextJob DEF item
<1>4. job.root \in Roots /\ item \in Todo
  BY <1>1, AtWork DEF item
<1>5. ASSUME job.op = "brk", ~panicked'
      PROVE  Backed(mem', job.root, item.page)
  <2>1. item.flags = HEAP_FLAGS
    BY <1>1, <1>4, <1>5 DEF IInv, BrkOK, Working
  <2>2. /\ Leaf(mem', job.root, item.page).to = f /\ f \in Frames
        /\ Leaf(mem', job.root, item.page).flags = item.flags \cup {"v"}
    BY <1>2, <1>5 DEF OnePageMore
  <2> QED BY <2>1, <2>2 DEF Backed, HEAP_FLAGS
<1>6. ASSUME NEW r \in Roots, NEW v \in HeapPages, r # job.root \/ v # item.page \/ panicked',
             Backed(mem, r, v)
      PROVE  Backed(mem', r, v)
  <2>1. Leaf(mem', r, v) = Leaf(mem, r, v)
    BY <1>2, <1>6, OtherWalks, HeapIsUser
  <2> QED BY <1>6, <2>1 DEF Backed
<1>7. ASSUME NEW p \in procs, NEW v \in HeapPages, Backed(mem, root[p], v)
      PROVE  Backed(mem', root[p], v)
  <2>1. root[p] \in Roots
    BY InvMem
  <2>2. CASE root[p] # job.root \/ v # item.page \/ panicked'
    BY <1>6, <1>7, <2>1, <2>2
  <2>3. CASE root[p] = job.root /\ v = item.page /\ ~panicked'
    <3>1. job.op \in {"brk", "map_fb"}
      BY <1>1, <2>3, AtWork
    <3>2. job.op # "map_fb"
      <4>1. job.op = "map_fb" => item.page \in Window
        BY <1>1, <1>4 DEF IInv, MapFbOK, Working
      <4> QED BY <2>3, <4>1, Layout
    <3> QED BY <1>5, <2>3, <3>1, <3>2
  <2> QED BY <2>2, <2>3, MapNextMem
<1>8. job'.op = "brk" /\ ~panicked' =>
        /\ job'.brk <= USER_ARG * PAGE_SIZE
        /\ \A v \in HeapPages :
             v * PAGE_SIZE < job'.brk => Backed(mem', job'.root, v) \/ \E x \in Todo' : x.page = v
  <2> SUFFICES ASSUME job.op = "brk", ~panicked'
               PROVE  /\ job.brk <= USER_ARG * PAGE_SIZE
                      /\ \A v \in HeapPages :
                           v * PAGE_SIZE < job.brk => Backed(mem', job.root, v) \/ \E x \in Todo' : x.page = v
    BY <1>3
  <2>1. /\ job.brk <= USER_ARG * PAGE_SIZE
        /\ \A v \in HeapPages :
             v * PAGE_SIZE < job.brk => Backed(mem, job.root, v) \/ \E x \in Todo : x.page = v
    BY <1>1 DEF BackedOK, Working
  <2> QED BY <1>3, <1>4, <1>5, <1>6, <2>1
<1>9. procs' = procs /\ \A q \in procs : root'[q] = root[q] /\ heap_brk'[q] = heap_brk[q]
  BY <1>1
<1> QED BY <1>7, <1>8, <1>9, BackedQuiet

LEMMA FinishBacked ==
  ASSUME IInv, BackedOK, Finish
  PROVE  BackedOK'
<1>1. CASE Building
  <2> DEFINE c == job.pid
  <2>1. /\ ~panicked /\ Todo = {} /\ c \notin procs /\ procs' = procs \cup {c} /\ c \in Pids
        /\ root'[c] = job.root /\ \A q \in Pids : q # c => root'[q] = root[q]
        /\ heap_brk'[c] = InheritedBreak /\ \A q \in Pids : q # c => heap_brk'[q] = heap_brk[q]
        /\ job' = NoJob /\ mem' = mem
    BY <1>1, FinishBuild
  <2> HIDE DEF c
  <2>2. job'.op # "brk"
    BY <2>1, NoJobFacts
  <2>3. \A q \in procs : root'[q] = root[q] /\ heap_brk'[q] = heap_brk[q]
    BY <2>1, InvMem
  <2>4. /\ InheritedBreak <= USER_ARG * PAGE_SIZE
        /\ \A v \in HeapPages : v * PAGE_SIZE < InheritedBreak => Backed(mem, job.root, v)
    <3>1. CASE job.op = "fork"
      <4> DEFINE r == root[job.by]
      <4>1. /\ job.by \in procs
            /\ \A v \in Mapped(mem, r) : /\ Leaf(mem, job.root, v).flags = Leaf(mem, r, v).flags
                                         /\ Leaf(mem, job.root, v).to \in Frames
        BY <2>1, <3>1 DEF IInv, ForkOK
      <4>2. /\ heap_brk[job.by] <= USER_ARG * PAGE_SIZE
            /\ \A v \in HeapPages : v * PAGE_SIZE < heap_brk[job.by] => Backed(mem, r, v)
        BY <4>1 DEF BackedOK
      <4>3. InheritedBreak = heap_brk[job.by]
        BY <3>1 DEF InheritedBreak
      <4> HIDE DEF r
      <4>4. \A v \in HeapPages : Backed(mem, r, v) => v \in Mapped(mem, r)
        BY HeapIsUser DEF Backed, Mapped
      <4>5. \A v \in HeapPages : Backed(mem, r, v) => Backed(mem, job.root, v)
        BY <4>1, <4>4 DEF Backed
      <4> QED BY <4>2, <4>3, <4>5
    <3>2. CASE job.op # "fork"
      <4>1. InheritedBreak = 0
        BY <3>2 DEF InheritedBreak
      <4>2. USER_ARG * PAGE_SIZE >= 0 /\ PAGE_SIZE \in Nat
        BY PageSizes
      <4>3. \A v \in HeapPages : v * PAGE_SIZE >= 0 /\ v * PAGE_SIZE \in Int
        BY <4>2, HeapIsUser
      <4> QED BY <4>1, <4>2, <4>3
    <3> QED BY <3>1, <3>2
  <2>5. \A p \in procs' :
          /\ heap_brk'[p] <= USER_ARG * PAGE_SIZE
          /\ \A v \in HeapPages : v * PAGE_SIZE < heap_brk'[p] => Backed(mem, root'[p], v)
    BY <2>1, <2>3, <2>4 DEF BackedOK
  <2> QED BY <2>1, <2>2, <2>5 DEF BackedOK
<1>2. CASE ~Building
  <2>1. /\ ~panicked /\ Todo = {} /\ job.op \in {"brk", "map_fb"}
        /\ job.by \in procs /\ job.root = root[job.by] /\ procs' = procs /\ root' = root
        /\ job.op = "brk" => heap_brk' = [heap_brk EXCEPT ![job.by] = job.brk]
        /\ job.op = "map_fb" => heap_brk' = heap_brk
        /\ job' = NoJob /\ mem' = mem
    BY <1>2, FinishCall
  <2>2. job'.op # "brk"
    BY <2>1, NoJobFacts
  <2>3. heap_brk \in [Pids -> 0..Width - 1] /\ procs \subseteq Pids
    BY DEF IInv, TypeOK
  <2>4. \A q \in procs : heap_brk'[q] = heap_brk[q] \/ (q = job.by /\ job.op = "brk" /\ heap_brk'[q] = job.brk)
    BY <2>1, <2>3
  <2>5. job.op = "brk" => /\ job.brk <= USER_ARG * PAGE_SIZE
                          /\ \A v \in HeapPages : v * PAGE_SIZE < job.brk => Backed(mem, job.root, v)
    BY <2>1 DEF BackedOK
  <2>6. \A p \in procs :
          /\ heap_brk'[p] <= USER_ARG * PAGE_SIZE
          /\ \A v \in HeapPages : v * PAGE_SIZE < heap_brk'[p] => Backed(mem, root[p], v)
    BY <2>1, <2>4, <2>5 DEF BackedOK
  <2> QED BY <2>1, <2>2, <2>6 DEF BackedOK
<1> QED BY <1>1, <1>2

LEMMA NextBacked ==
  ASSUME NoWrap, IInv, BackedOK, [Next]_vars
  PROVE  BackedOK'
<1>1. ASSUME NEW p \in Pids, Exec(p) \/ Fork(p)
      PROVE  BackedOK'
  BY <1>1, BuildBacked DEF Exec, Fork
<1>2. ASSUME NEW p \in Pids, NEW a \in Requests, Brk(p, a)
      PROVE  BackedOK'
  BY <1>2, BrkBacked
<1>3. ASSUME NEW p \in Pids, MapFramebuffer(p)
      PROVE  BackedOK'
  <2>1. mem' = mem /\ procs' = procs /\ root' = root /\ heap_brk' = heap_brk
    BY <1>3 DEF MapFramebuffer
  <2>2. job'.op # "brk"
    BY <1>3 DEF MapFramebuffer, NoJob
  <2> QED BY <2>1, <2>2, BackedQuiet
<1>4. ASSUME NEW p \in Pids, Exit(p)
      PROVE  BackedOK'
  <2>1. mem' = mem /\ procs' \subseteq procs /\ root' = root /\ heap_brk' = heap_brk /\ job' = NoJob
    BY <1>4 DEF Exit, InUser
  <2> QED BY <2>1, NoJobFacts, BackedQuiet
<1>5. ASSUME NEW p \in Pids, NEW w \in Written, NEW x \in Contents, Store(p, w, x)
      PROVE  BackedOK'
  <2>1. /\ mem'.tables = mem.tables /\ procs' = procs /\ root' = root /\ heap_brk' = heap_brk
        /\ job' = NoJob
    BY <1>5, StoreMem
  <2>2. \A r, v : Backed(mem, r, v) => Backed(mem', r, v)
    BY <2>1, SameTables DEF Backed
  <2> QED BY <2>1, <2>2, NoJobFacts, BackedQuiet
<1>6. CASE MapNext
  BY <1>6, MapNextBacked
<1>7. CASE OutOfPages
  <2>1. mem' = mem /\ procs' = procs /\ root' = root /\ heap_brk' = heap_brk /\ job' = NoJob
    BY <1>7, OutOfPagesMem
  <2> QED BY <2>1, NoJobFacts, BackedQuiet
<1>8. CASE Finish
  BY <1>8, FinishBacked
<1>9. CASE UNCHANGED vars
  <2>1. /\ mem' = mem /\ procs' = procs /\ root' = root /\ heap_brk' = heap_brk /\ job' = job
        /\ panicked' = panicked /\ Todo' = Todo
    BY <1>9 DEF vars, Todo
  <2> QED BY <2>1 DEF BackedOK
<1> QED BY <1>1, <1>2, <1>3, <1>4, <1>5, <1>6, <1>7, <1>8, <1>9 DEF Next

\* Every byte below a break is backed by RAM the program may write, as long as
\* no request is within a page of the end of the address space: there page_up
\* of brk wraps around and the break moves without a page.
THEOREM MemoryBreakBacked ==
  ASSUME NoWrap
  PROVE  Spec => []BreakBacked
<1>1. Init => BackedOK
  <2> SUFFICES ASSUME Init PROVE BackedOK
    OBVIOUS
  <2>1. procs = {} /\ job.op = "boot"
    BY DEF Init, NoJob
  <2> QED BY <2>1 DEF BackedOK
<1>2. IInv /\ BackedOK /\ [Next]_vars => BackedOK'
  BY NextBacked
<1>3. IInv /\ BackedOK => BreakBacked
  <2> SUFFICES ASSUME IInv, BackedOK, NEW p \in procs, NEW a \in USER_HEAP * PAGE_SIZE..heap_brk[p] - 1
               PROVE  Backed(mem, root[p], a \div PAGE_SIZE)
    BY DEF BreakBacked, Backed
  <2> DEFINE P == PAGE_SIZE
             v == a \div P
             o == a % P
  <2>1. /\ P \in Nat \ {0} /\ USER_HEAP * P \in Nat /\ USER_ARG * P \in Nat
        /\ USER_HEAP \in Nat /\ USER_ARG \in Nat
    BY PageSizes, Layout
  <2>2. heap_brk[p] \in Nat /\ heap_brk[p] <= USER_ARG * P
    BY DEF IInv, TypeOK, BackedOK
  <2>3. a \in Nat /\ a >= USER_HEAP * P /\ a < heap_brk[p]
    BY <2>1, <2>2
  <2>4. v \in Nat /\ o \in 0..P - 1 /\ a = P * v + o
    BY <2>1, <2>3, DivMod
  <2> HIDE DEF v, o, P
  <2>5. P * v = v * P /\ v * P \in Nat
    BY <2>1, <2>4
  <2>6. USER_HEAP <= v
    <3>1. v < USER_HEAP => v * P + P <= USER_HEAP * P
      BY <2>1, <2>4, TimesOrder
    <3> QED BY <2>1, <2>3, <2>4, <2>5, <3>1
  <2>7. v < USER_ARG
    <3>1. USER_ARG <= v => USER_ARG * P <= v * P
      BY <2>1, <2>4, TimesOrder
    <3> QED BY <2>1, <2>2, <2>3, <2>4, <2>5, <3>1
  <2>8. v \in HeapPages
    BY <2>1, <2>4, <2>6, <2>7 DEF HeapPages
  <2>9. v * P < heap_brk[p]
    BY <2>1, <2>2, <2>3, <2>4, <2>5
  <2> QED BY <2>8, <2>9 DEF BackedOK, v, P
<1> QED BY <1>1, <1>2, <1>3, SpecIInv, PTL DEF Spec
=============================================================================
