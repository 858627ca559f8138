------------------------------- MODULE Memory -------------------------------
(***************************************************************************)
(* Physical pages and address spaces of the kernel: physical_pages.hll,    *)
(* page_tables.hll, address_space.hll, and the calls that take pages:      *)
(* process_create_at, spawn_process with elf_loader_load, fork and brk.    *)
(*                                                                         *)
(* A handler maps a list of pages one after the other and may run out of   *)
(* frames at each; interrupts are off and nothing comes in between.  `job` *)
(* is the handler in progress: its list of pages, mapped from the front by *)
(* MapNext, and what it does when the list is empty (Finish).              *)
(*                                                                         *)
(* Frames are handed out in order and never come back: after boot nothing  *)
(* calls physical_pages_free, and the page that the self test of boot gave *)
(* back is the root of the boot address space.                             *)
(***************************************************************************)
EXTENDS Integers, Sequences, FiniteSets

CONSTANTS MaxPid,       \* processes are 1..MaxPid
          PoolSize,     \* frames between PMM_BASE and PMM_END
          Fanout,       \* TABLE_ENTRIES
          KernelSlots,  \* entries of a root that map_kernel fills
          PAGE_SIZE,
          Width,        \* addresses are u64: arithmetic is modulo Width
          USER_CODE, CodePages, USER_FB, FbPages, USER_HEAP, USER_ARG,
          USER_STACK, StackPages,  \* the layout, in pages
          Requests,     \* the addresses programs pass to brk
          Written,      \* the pages programs write to
          Contents      \* what they write

Pids == 1..MaxPid
Frames == 1..PoolSize
Device == PoolSize + 1 .. PoolSize + FbPages
Indices == 0..Fanout - 1
Null == 0

\* The pages of the gigabytes that map_kernel leaves alone.
UserPages == {v \in 0..Fanout * Fanout * Fanout - 1 : v \div (Fanout * Fanout) \notin KernelSlots}

\* The frames that boot takes before the first process: the one of the self
\* test and the boot root.
BootFrames == 2

ASSUME MemoryAssumption ==
  /\ MaxPid \in Nat \ {0} /\ PoolSize \in Nat /\ PoolSize > BootFrames
  /\ Fanout \in Nat \ {0} /\ KernelSlots \subseteq Indices
  /\ PAGE_SIZE \in Nat \ {0} /\ Width \in Nat /\ Requests \subseteq 0..Width - 1
  /\ {CodePages, FbPages, StackPages} \subseteq Nat /\ Written \subseteq UserPages
  /\ {USER_CODE, USER_FB, USER_HEAP, USER_ARG, USER_STACK} \subseteq Nat
  /\ USER_CODE + CodePages <= USER_FB /\ USER_FB + FbPages <= USER_HEAP
  /\ USER_HEAP <= USER_ARG /\ USER_ARG < USER_STACK - StackPages
  /\ USER_CODE..USER_STACK - 1 \subseteq UserPages
  /\ USER_STACK * PAGE_SIZE < Width

VARIABLES mem,       \* bump, the tables and the contents of the frames
          panicked,  \* runtime.panic was called
          procs,     \* the processes that exist
          root,      \* pcb.page_root, Null until there is one
          heap_brk,  \* pcb.heap_brk, 0 until the first brk
          next_pid,
          job        \* the handler in progress

vars == <<mem, panicked, procs, root, heap_brk, next_pid, job>>

Flags == {"v", "r", "w", "x", "u", "g"}
Pte == [to : 0..PoolSize + FbPages, flags : SUBSET Flags]
Invalid == [to |-> Null, flags |-> {}]
HEAP_FLAGS == {"r", "w", "u"}
LOAD_FLAGS == {"r", "w", "x", "u"}

\* What a page holds before anybody writes to it.
Zero == "zero"
Image == "image"
Filling == Contents \cup {Zero, Image}

\* A page a handler maps: at which address, with what in it (a device page, a
\* zeroed one, one as it is, one of the program's image, a copy), and whether
\* the handler panics when there is no frame for it.
Item == [page : UserPages, fill : {"device", "zero", "keep", "image", "copy"},
         src : 0..PoolSize + FbPages, flags : SUBSET Flags, must : BOOLEAN]
Job == [op : {"none", "boot", "exec", "fork", "brk", "map_fb"}, by : 0..MaxPid, pid : 0..MaxPid,
        root : 0..PoolSize, brk : 0..Width - 1, todo : Seq(Item)]
NoJob == [op |-> "none", by |-> 0, pid |-> 0, root |-> Null, brk |-> 0, todo |-> <<>>]

TypeOK ==
  /\ mem \in [bump : 1..PoolSize + 1, tables : [Frames -> [Indices -> Pte]],
              data : [Frames \cup Device -> Filling]]
  /\ panicked \in BOOLEAN
  /\ procs \subseteq Pids
  /\ root \in [Pids -> 0..PoolSize]
  /\ heap_brk \in [Pids -> 0..Width - 1]
  /\ next_pid \in 1..MaxPid + 1
  /\ job \in Job

-----------------------------------------------------------------------------
(* Frames and tables.  An operation gives the memory after it and the frame *)
(* it found, Null if there is none.                                         *)

try_alloc_NoAdvance(m) ==
  [page |-> IF m.bump > PoolSize THEN Null ELSE m.bump,
   m |-> IF m.bump >= PoolSize THEN m ELSE [m EXCEPT !.bump = @ + 1]]

try_alloc(m) ==
  [page |-> IF m.bump > PoolSize THEN Null ELSE m.bump,
   m |-> IF m.bump > PoolSize THEN m ELSE [m EXCEPT !.bump = @ + 1]]

alloc_table(m) ==
  LET a == try_alloc(m)
  IN  IF a.page = Null THEN a
      ELSE [a EXCEPT !.m.tables[a.page] = [i \in Indices |-> Invalid]]

walk_or_alloc(m, t, i) ==
  LET entry == m.tables[t][i]
      next == alloc_table(m)
  IN  CASE "v" \in entry.flags -> [page |-> entry.to, m |-> m]
        [] "v" \notin entry.flags /\ next.page = Null -> next
        [] OTHER -> [next EXCEPT !.m.tables[t][i] = [to |-> next.page, flags |-> {"v"}]]

\* page_tables_map: page v of the address space r is frame f.  Its page is Null
\* when a table cannot be allocated, which panics.
page_tables_map(m, r, v, f, flags) ==
  LET level1 == walk_or_alloc(m, r, v \div (Fanout * Fanout))
      level0 == walk_or_alloc(level1.m, level1.page, (v \div Fanout) % Fanout)
  IN  IF level1.page = Null THEN level1
      ELSE IF level0.page = Null THEN level0
      ELSE [level0 EXCEPT !.m.tables[level0.page][v % Fanout] = [to |-> f, flags |-> flags \cup {"v"}]]

\* address_space_create: a root with the kernel's superpages.
address_space_create(m) ==
  LET a == alloc_table(m)
      map_kernel == [i \in Indices |-> IF i \in KernelSlots THEN [to |-> Null, flags |-> {"v", "g", "r", "w"}]
                                       ELSE Invalid]
  IN  IF a.page = Null THEN a ELSE [a EXCEPT !.m.tables[a.page] = map_kernel]

is_branch(e) == "v" \in e.flags /\ e.flags \cap {"r", "w", "x"} = {}

\* The entry that the walk for page v of the address space r ends at.
Leaf(m, r, v) ==
  LET entry2 == m.tables[r][v \div (Fanout * Fanout)]
      entry1 == m.tables[entry2.to][(v \div Fanout) % Fanout]
  IN  IF ~is_branch(entry2) THEN entry2
      ELSE IF ~is_branch(entry1) THEN entry1
      ELSE m.tables[entry1.to][v % Fanout]

\* The pages of the address space r that a user program can touch.
Mapped(m, r) == {v \in UserPages : {"v", "u"} \subseteq Leaf(m, r, v).flags}
Holds(m, r, v) == m.data[Leaf(m, r, v).to]
IsDevice(m, r, v) == Leaf(m, r, v).to \in Device

page_up_Truncates(a) == (a \div PAGE_SIZE) * PAGE_SIZE

page_up(a) == (((a + PAGE_SIZE - 1) % Width) \div PAGE_SIZE) * PAGE_SIZE

-----------------------------------------------------------------------------
(* The handlers.                                                            *)

Pages(first, n, fill, flags, must) ==
  [i \in 1..n |-> [page |-> first + i - 1, fill |-> fill, src |-> Null, flags |-> flags, must |-> must]]

\* process_create_at maps the stack downwards, without clearing it.
Stack ==
  [i \in 1..StackPages |-> [page |-> USER_STACK - i, fill |-> "keep", src |-> Null,
                            flags |-> HEAP_FLAGS, must |-> TRUE]]

\* kmain: spawn_user_process is about to load the first program.
Init ==
  LET zeroed == [bump |-> BootFrames + 1, tables |-> [f \in Frames |-> [i \in Indices |-> Invalid]],
                 data |-> [f \in Frames \cup Device |-> Zero]]
      a == address_space_create(zeroed)
  IN  /\ mem = a.m
      /\ panicked = FALSE
      /\ procs = {}
      /\ root = [p \in Pids |-> Null]
      /\ heap_brk = [p \in Pids |-> 0]
      /\ next_pid = 2
      /\ job = [NoJob EXCEPT !.op = "boot", !.pid = 1, !.root = a.page,
                             !.todo = Stack \o Pages(USER_CODE, CodePages, "image", LOAD_FLAGS, TRUE)]

InUser(p) == ~panicked /\ job = NoJob /\ p \in procs

\* A process is built in a root of its own; without a frame for it the kernel panics.
Build(p, op, todo) ==
  LET a == address_space_create(mem)
  IN  /\ InUser(p) /\ next_pid <= MaxPid
      /\ mem' = a.m
      /\ panicked' = (a.page = Null)
      /\ job' = [NoJob EXCEPT !.op = op, !.by = p, !.pid = next_pid, !.root = a.page, !.todo = todo]
      /\ next_pid' = next_pid + 1
      /\ UNCHANGED <<procs, root, heap_brk>>

\* spawn_process: a stack, the argument page, and the segment of the program.
Exec(p) ==
  Build(p, "exec", Stack \o Pages(USER_ARG, 1, "zero", HEAP_FLAGS, FALSE)
                         \o Pages(USER_CODE, CodePages, "image", LOAD_FLAGS, FALSE))

\* The pages of a set from the lowest to the highest.
Ascending(S) ==
  [i \in 1..Cardinality(S) |-> CHOOSE v \in S : Cardinality({w \in S : w < v}) = i - 1]

\* address_space_copy_user: every user page of the parent, framebuffer included.
copy_user(r) ==
  LET copied == Ascending(Mapped(mem, r))
  IN  [i \in DOMAIN copied |-> [page |-> copied[i], fill |-> "copy", src |-> Leaf(mem, r, copied[i]).to,
                                flags |-> Leaf(mem, r, copied[i]).flags, must |-> TRUE]]

Fork(p) == Build(p, "fork", copy_user(root[p]))

current_break(p) == IF heap_brk[p] = 0 THEN USER_HEAP * PAGE_SIZE ELSE heap_brk[p]

heap_pages_FromBelow(p, requested) ==
  LET from == current_break(p) \div PAGE_SIZE
  IN  Pages(from, page_up(requested) \div PAGE_SIZE - from, "zero", HEAP_FLAGS, FALSE)

\* The pages brk adds: from page_up(current_break) to page_up(requested).
heap_pages(p, requested) ==
  LET from == page_up(current_break(p)) \div PAGE_SIZE
  IN  Pages(from, page_up(requested) \div PAGE_SIZE - from, "zero", HEAP_FLAGS, FALSE)

Brk(p, requested) ==
  /\ InUser(p)
  /\ requested > current_break(p)
  /\ page_up(requested) <= USER_ARG * PAGE_SIZE
  /\ job' = [NoJob EXCEPT !.op = "brk", !.by = p, !.root = root[p], !.brk = requested,
                          !.todo = heap_pages(p, requested)]
  /\ UNCHANGED <<mem, panicked, procs, root, heap_brk, next_pid>>

\* memory_syscalls_map_framebuffer; who owns it is a matter of Kernel.
MapFramebuffer(p) ==
  /\ InUser(p)
  /\ job' = [NoJob EXCEPT !.op = "map_fb", !.by = p, !.root = root[p],
                          !.todo = [i \in 1..FbPages |->
                             [page |-> USER_FB + i - 1, fill |-> "device", src |-> PoolSize + i,
                              flags |-> HEAP_FLAGS, must |-> TRUE]]]
  /\ UNCHANGED <<mem, panicked, procs, root, heap_brk, next_pid>>

-----------------------------------------------------------------------------
(* The loop that all of them share.                                         *)

Working == ~panicked /\ job.todo # <<>>

\* The frame for an item.
Frame(item) == IF item.fill = "device" THEN [page |-> item.src, m |-> mem] ELSE try_alloc(mem)

\* mem.set, the read of the image or mem.copy into frame f.
Filled(m, item, f) ==
  CASE item.fill = "zero" -> [m EXCEPT !.data[f] = Zero]
    [] item.fill = "image" -> [m EXCEPT !.data[f] = Image]
    [] item.fill = "copy" -> [m EXCEPT !.data[f] = m.data[item.src]]
    [] OTHER -> m

MapNext ==
  LET item == Head(job.todo)
      a == Frame(item)
      done == page_tables_map(Filled(a.m, item, a.page), job.root, item.page, a.page, item.flags)
  IN  /\ Working
      /\ a.page # Null
      /\ mem' = done.m
      /\ panicked' = (done.page = Null)
      /\ job' = [job EXCEPT !.todo = Tail(@)]
      /\ UNCHANGED <<procs, root, heap_brk, next_pid>>

\* No frame for a page: fork and the building of a stack panic; exec loses what
\* it has built, and brk leaves what it has mapped and the break alone.
OutOfPages ==
  /\ Working
  /\ Frame(Head(job.todo)).page = Null
  /\ panicked' = Head(job.todo).must
  /\ job' = NoJob
  /\ UNCHANGED <<mem, procs, root, heap_brk, next_pid>>

InheritedBreak_Zero == 0

\* What fork copies into the child's control block; exec and boot clear it.
InheritedBreak == IF job.op = "fork" THEN heap_brk[job.by] ELSE 0

Finish ==
  /\ ~panicked /\ job.op # "none" /\ job.todo = <<>>
  /\ \/ /\ job.op \in {"boot", "exec", "fork"}
        /\ procs' = procs \cup {job.pid}
        /\ root' = [root EXCEPT ![job.pid] = job.root]
        /\ heap_brk' = [heap_brk EXCEPT ![job.pid] = InheritedBreak]
     \/ /\ job.op = "brk"
        /\ heap_brk' = [heap_brk EXCEPT ![job.by] = job.brk]
        /\ UNCHANGED <<procs, root>>
     \/ /\ job.op = "map_fb"
        /\ UNCHANGED <<procs, root, heap_brk>>
  /\ job' = NoJob
  /\ UNCHANGED <<mem, panicked, next_pid>>

-----------------------------------------------------------------------------
(* User mode.                                                               *)

Store(p, v, x) ==
  /\ InUser(p)
  /\ v \in Mapped(mem, root[p])
  /\ mem' = [mem EXCEPT !.data[Leaf(mem, root[p], v).to] = x]
  /\ UNCHANGED <<panicked, procs, root, heap_brk, next_pid, job>>

\* Exit and kill take nothing back; the exit of the first process is the end.
Exit(p) ==
  /\ InUser(p) /\ p # 1
  /\ procs' = procs \ {p}
  /\ UNCHANGED <<mem, panicked, root, heap_brk, next_pid, job>>

Next ==
  \/ \E p \in Pids :
       \/ Exec(p) \/ Fork(p) \/ MapFramebuffer(p) \/ Exit(p)
       \/ \E r \in Requests : Brk(p, r)
       \/ \E v \in Written, x \in Contents : Store(p, v, x)
  \/ MapNext \/ OutOfPages \/ Finish

Spec == Init /\ [][Next]_vars

-----------------------------------------------------------------------------
\* The roots of the processes, dead ones included, and of the one being built.
Roots == ({root[p] : p \in Pids} \cup {job.root}) \ {Null}

\* The entries that lead to a frame of the pool, as table and index.
Entries == {e \in Frames \X Indices : mem.tables[e[1]][e[2]].to \in Frames}
Target(e) == mem.tables[e[1]][e[2]].to

\* "Isolation is physical": a frame in use, as a table or as a page, is used at
\* one place of one address space, and no frame still to be handed out is in
\* use (what alloc, walk_or_alloc and copy_user must never get wrong).
Isolated ==
  /\ \A d, e \in Entries : Target(d) = Target(e) => d = e
  /\ \A e \in Entries : Target(e) < mem.bump /\ Target(e) \notin Roots
  /\ \A p, q \in Pids : root[p] = root[q] /\ root[p] # Null => p = q
  /\ \A r \in Roots : r < mem.bump

\* No call of anybody changes what a process reads in its own memory, also when
\* it fails half way: only its own stores do, and map_fb in its window.  The
\* screen is shared.
Undisturbed ==
  [][\A p \in procs : \A v \in Mapped(mem, root[p]) :
       \/ IsDevice(mem, root[p], v)
       \/ v \in Mapped(mem, root[p])' /\ Holds(mem, root[p], v)' = Holds(mem, root[p], v)
       \/ \E x \in Contents : Store(p, v, x)
       \/ job.op = "map_fb" /\ job.by = p /\ v \in USER_FB..USER_FB + FbPages - 1]_vars

\* Every byte between the base of the heap and the break is backed by a page of
\* RAM the program may write, in parents, children and after failed calls (brk
\* and fork agree on what a break means).
BreakBacked ==
  \A p \in procs : \A a \in USER_HEAP * PAGE_SIZE..heap_brk[p] - 1 :
    LET e == Leaf(mem, root[p], a \div PAGE_SIZE)
    IN  {"v", "u", "w"} \subseteq e.flags /\ e.to \in Frames

\* A process that appears sees what its parent saw when it forked, heap and
\* break included, or the image, an argument and no heap when it was loaded.
StartsRight ==
  [][\A c \in procs' \ procs :
       LET r == root[job.by]
           Loaded == USER_CODE..USER_CODE + CodePages - 1
           Given == USER_STACK - StackPages..USER_STACK - 1 \cup (IF job.op = "exec" THEN {USER_ARG} ELSE {})
       IN  IF job.op = "fork"
           THEN /\ heap_brk'[c] = heap_brk[job.by]
                /\ Mapped(mem', root'[c]) = Mapped(mem, r)
                /\ \A v \in Mapped(mem, r) : /\ Holds(mem', root'[c], v) = Holds(mem, r, v)
                                             /\ Leaf(mem', root'[c], v).flags = Leaf(mem, r, v).flags
           ELSE /\ heap_brk'[c] = 0
                /\ Mapped(mem', root'[c]) = Loaded \cup Given
                /\ \A v \in Loaded : Holds(mem', root'[c], v) = Image]_vars
=============================================================================
