# TLA+ verification of Full-Stack

Full-Stack is a compiler-to-machine teaching stack: a high-level language (HLL)
is compiled to an IR, to RISC-V assembly, to ELF, and run on a virtual RV64
machine; an operating system written in HLL boots on that machine, and an IDE
drives and debugs all of it. This directory holds a formal model of the parts
whose correctness depends on interleavings, interrupts, stale state and long
sequences of legal calls, the TLC runs that check it on small instances, and
TLAPS proofs for every instance.

## 1. Inventory

### The kernel (`crates/os-runtime/kernel`)

| Part | State | Operations | Why it is hard |
|---|---|---|---|
| Scheduler (`sched/scheduler.hll`) | `current`, ready list, zombie list, one `input_waiter`; links in `pcb.next` | add, schedule, wake, make/remove zombie, remove ready | two lists share one link field; one slot for all sleepers; a declined block |
| Tasks (`sched/tasks.hll`) | -- (facade) | reap, kill, exit | exit halts the machine in two cases; kill and exit release different things |
| Process construction (`sched/process.hll`) | `next_pid` | create, alloc | pids are never reused; half-built processes are abandoned |
| Traps (`trap/*.hll`) | saved frame | timer, external interrupt, ecall, fatal exception | which interrupt is taken when, what a rewound `sepc` re-executes |
| Process calls (`syscall/process_syscalls.hll`) | -- | exec, fork, wait, waitpid, kill, exit | a wait polls, peeks at the console and may kill |
| Console calls (`syscall/io_syscalls.hll`), UART driver | pushback byte, IER | readchar, write, poll_key | a byte races the sleeper, the peek and the interrupt |
| Framebuffer ownership (`arch/riscv64/framebuffer.hll`) | `user_count`, `pcb.fb_mapped` | acquire, release | release on exit and on kill, exactly once |
| Physical pages, page tables, address spaces (`mm/*.hll`), ELF loader | bump pointer, page tables | alloc, map, create, copy_user, load | frames run out in the middle of a call |
| Memory calls (`syscall/memory_syscalls.hll`) | `heap_brk` | brk, map_fb | rounding at page boundaries; half-done growth |
| Descriptor table (`fs/fs_descriptors.hll`) | 16 global slots | open, read, write, truncate, seek, close | one table for all processes, no owner |
| File system (`fs/*.hll`) | bitmaps, inodes, directories in an image | create, mkdir, unlink, rmdir, rename, block allocation | partial failure, block ownership, names |
| System call trace (`syscall/syscall_trace.hll`) | 256-entry ring | begin, finish | host reads while the guest writes |
| Boot, kernel heap, keyboard driver | -- | once, or pure | |

User processes and the kernel interact through traps only. The kernel runs with
interrupts off on one hart; concurrency is the interleaving of whole traps of
several processes with the timer, the UART interrupt and the arrival of bytes.

### The machine (`crates/virtual-machine`)

| Part | State | Operations | Why it is hard |
|---|---|---|---|
| Functional core (`cpu/functional.rs`) | architectural state | step | the reference for the other core |
| Pipelined core (`cpu/pipeline*.rs`, `hazard_unit.rs`, `predictor.rs`) | four stage registers, a waiting result, predictor, `fetch_pc`, `mret_in_flight` | tick | forwarding, load-use stalls, prediction, squashes, interrupts and memory latency in one cycle |
| CSRs, traps, interrupts (`cpu/csr.rs`, `traps.rs`, `interrupts.rs`) | CSR file, privilege | trap, mret/sret, csr access | delegation, which trap wins |
| MMU (`cpu/mmu.rs`) | direct-mapped TLB tagged with satp | translate, sfence, flush | stale entries, A and D bits behind hits, superpages |
| Caches (`memory/cache.rs`), RAM, bus | three write-back levels | read, write, flush, image | several copies of a line, evictions inside a fetch |
| Devices (UART, PLIC, CLINT, keyboard, framebuffer) | registers | MMIO | the level-triggered UART line behind a latching PLIC |

### The compilers (`crates/hll-to-ir`, `ir-to-asm`, `asm-to-binary`, `riscv-model`)

Sequential transformations: parsing, type checking, monomorphisation,
optimisation (phi simplification, constant folding, dead code), register
allocation and slot colouring, peephole rules, assembly, linking. Their hard
parts are where one stage's assumptions meet another's: liveness around loops,
parallel copies for phis, what a folded constant means to a later conversion.

### Sessions, userland and IDE (`src/`, `programs/user`, `crates/os-runtime/stdlib`)

The debugger (`session/live*`) runs, steps and stops a machine and keeps a
history of snapshots (`session/timeline.rs`), as keyframes and page deltas in a
ring, that the user travels in. The rest of `src/` is user interface and the
build driver; userland is sequential programs over system calls. None of the
Rust code starts a thread.

## 2. What is modelled

| Module | Models | Kind |
|---|---|---|
| `Scheduler` | scheduler.hll and its use by tasks.hll, with the lists as sequences | component, abstract |
| `SchedulerLinks` | the same lists threaded through `pcb.next`, assignment by assignment | refinement of `Scheduler` |
| `Kernel` | traps, process and console system calls, UART, PLIC line, framebuffer ownership, descriptor slots; extends `Scheduler` | composition |
| `Memory` | frames, page tables, address spaces, and the calls that take pages | component |
| `FileSystem` | the image, its allocator, directories and names, and the descriptor table | component |
| `Rv64` | instructions, CSRs, traps and interrupts: the operators both cores share | library |
| `Functional` | the functional core | component, abstract |
| `Pipeline` | the five-stage core | refinement of `Functional` |
| `FlatMemory` | RAM on the bus without caches | component, abstract |
| `Caches` | L1 over L2 over L3 over RAM | refinement of `FlatMemory` |
| `Mmu` | TLB, page-table walk, debugger's walk | component |
| `Timeline` | the history ring, as operators | library |
| `Live` | the debugging session over `Timeline` | composition |
| `Codegen` | optimisation passes, allocation and code emission, executed | component |
| `MC*` | constants and symmetry of the small instances | TLC |
| `KernelProofs`, `LinksProofs`, `MemoryProofs`, `FileSystemProofs`, `MmuProofs`, `CachesProofs`, `PipelineProofs`, `LiveProofs` | theorems | TLAPS |

### `Scheduler`

The variables are the fields of `SchedulerState`, plus `pcb.state`,
`pcb.parent_pid` and `next_pid`. A control block is named by its pid. The
actions are the transitions a single trap makes: `Switch` is
`schedule(frame, Schedule)`, `Block` and `BlockDeclined` are the two outcomes of
`schedule(frame, Block)`, `Wake` is `wake_input_waiter` followed by the
preemption, `ExitCurrent` is `exit_current` followed by
`schedule(frame, ExitSchedule)`, `Spawn` is the creation and enqueueing that
fork and exec share, `SpawnAbandoned` the exec that fails after it built the
process, `Reap` and `Kill` the unlinking of a zombie and of a ready process.

### `SchedulerLinks`

Only list heads and the links are kept. `AddTail`, `AddFront`, `PopFront` and
`Unlink` make the pointer assignments of `scheduler_add`, `make_zombie` /
`wake_input_waiter`, the dequeue in `schedule`, and `remove_zombie` /
`remove_ready`. A killed or reaped block keeps its stale link, as in the code.
The refinement mapping reads the sequences off the links.

### `Kernel`

One action is one trap. A system call that sleeps or polls rewinds `sepc`; the
model keeps in `retry` and `target` what a process will re-execute, so that a
poll is a sequence of traps with everybody else's steps in between. Bytes arrive
at any time: in user mode (`Receive`) or while a handler runs (`Arrivals`), which
is where the races with the peek in `waitpid` are. The PLIC latches the UART
line on every cycle; an external interrupt therefore leaves the source pending
once more when a byte is in the FIFO, and a second, spurious interrupt follows.
A pending external interrupt precedes the timer and the next user instruction
(`InUser`).

Data that no property tells apart is left out: exit codes, byte values other
than Ctrl-C, file contents and positions, addresses. Calls whose only effect is
on such data (write, read, lseek, stat, poll_key, brk, a readchar from a file)
leave every variable of this module unchanged and are not actions.
`Calls`, `Readers` and `Redirects` describe the user programs of an instance:
which calls they make, which processes read the console, which descriptors they
pass to exec.

### `Memory`

Frames are handed out in order and none ever comes back: `physical_pages_free`
is called by two self-tests of boot only, and the page they return is taken by
the boot root. Tables have three levels; a root starts with the kernel's
superpages. Every handler that takes pages is a list of pages to map, worked off
from the front: `Build` (for `Exec` and `Fork`), `Brk` and `MapFramebuffer` make
the list, `MapNext` allocates, fills and maps one page with the tables it needs,
`OutOfPages` is the exit when there is no frame (a panic for stacks, tables and
fork, a failed call for arguments, images and brk), `Finish` the end of the
handler. Interrupts are off in a handler, so nothing else happens while `job` is
not empty. The contents of a page are one value. `Store` and `Exit` are user
mode. Exhaustion of the kernel heap is left out: it panics.

### `FileSystem`

The variables are the fields of `DiskInode` that the code reads (`node_type`,
`size`, `blocks`), the two bitmaps as sets, the two counters of the superblock,
the contents of the data blocks and the descriptor table. One action is one
system call with everything it changes:

| Action | Code |
|---|---|
| `Mkdir`, `OpenCreates`, `CreateFails` | `fs_directory_mkdir`, `fs_descriptors_open` with `FS_OPEN_CREATE`; `create_at` with and without room for the entry |
| `Unlink`, `Rmdir` | `remove_entry` and `release_inode` |
| `Rename`, `RenameRollsBack` | `fs_directory_rename` with and without room at the destination |
| `Open`, `Close`, `Seek` | `fs_descriptors_open`, `_close`, `lseek` |
| `Write` | `io_syscalls_write`: the whole loop of `fs_descriptors_write` with the blocks it allocates until the disk or the inode is full, and the new position |
| `Truncate` | `fs_descriptors_truncate` |
| `ReadNext` | `readchar` of a redirected input |

Calls that fail without changing anything are not actions. `AddEntry` takes the
inodes, sizes and contents as its caller has already changed them, because
`create_at` and `rename` call `add_entry` in the middle of their own changes.

Offsets and sizes count cells: a block holds `CellsPerBlock` of them, a cell of a
directory is one entry and a cell of a file is data. A cell is zero, data, or an
entry with a name and an inode; that is all the code tells apart, since it looks
at the first byte of an entry, its name and its inode. Paths are sequences of
names, at most `MaxDepth` of them; repeated slashes and overlong names only make
calls fail or name the same thing.

`CarefulNames` and `CarefulFds` say what programs refrain from, and `Payload`
what they write. Nothing in the kernel stops a program from renaming a directory
into itself, from creating a name twice, from unlinking a file that is open or
from writing to a directory it opened, and properties that such calls break are
checked without them; those that survive are checked with them.

### `Rv64`, `Functional`, `Pipeline`

`Rv64` has one instruction of every kind the pipeline treats differently:
arithmetic, load and store, floating-point load and arithmetic, fused
multiply-add, the atomics, CSR accesses, branches and jumps, fences, `ecall`,
`mret`, `sret`, the illegal ones, and the store that stops the machine. A code
word is a tuple of operation and register fields, and the word size is `W`. It
gives decoding, execution, the memory access, writeback with traps and returns,
and which pending interrupt is taken at which privilege. `Functional` takes one
instruction per step, or one interrupt.

`Pipeline` has the stage registers of the code. A tick runs WB, MEM, EX, ID, IF
in this order on the registers it found; what each stage returns has a name
(`stage_wb`, `mem_stage`, `ex_stage`, `id_stage`, `if_stage`), the actions put
these together, and the proofs speak of them. Each way `tick` can end is an action:
a squash by a trap or return in WB (`TickSquash`), a wait for a data access
(`TickWait`), an interrupt (`TickInterrupt`), a MEM result that has to wait
(`TickMemoryStall`), and the full tick (`TickAdvance`). `Latencies` are the
extra cycles an access may cost. `retired` is the architectural state once what
is past MEM has retired; the refinement mapping shows it to `Functional`.

Two restrictions on the programs of `MCPipeline` exclude neighbours that the
code does not keep apart (section 5): the instruction pairs of `Exposed`, and an
indirect jump whose target may be the next word.

### `FlatMemory`, `Caches`

An operation of a level is an operator on the state of the hierarchy that uses
the operation of the level below (`l1_read` uses `l2_read` and `l2_write`): a
miss evicts the least recently used line, writing it back if it is dirty, before
the new one is fetched. A set is the sequence of its lines in the order of use.
A flush writes the dirty lines back one after the other, set by set, as a
recursion over the ways of the level.
Actions are loads and stores of any width, also across two blocks and the end of
RAM, the cold reset, and saving and loading RAM images. `view` is what the
debugger's peek sees; the mapping gives it to `FlatMemory` as its memory.

### `Mmu`

The kernel writes page-table entries, changes `satp` and fences when it likes;
programs load, store and execute. `changed` collects the pages whose mapping was
written since the last fence: about them the architecture promises nothing. The
walk, the permissions (U, SUM, MXR, W without R), PMP, the A and D marks,
superpages and the tag of the TLB are those of the code; there are `LEVELS`
levels of `Fan` entries. The walk is written by its outcome instead of as a
loop: it ends at the first level whose entry is not a pointer (`Stopped`), and
the table it looks into at a level is the one the entry above names
(`CurrentPpn`). `Span` is the number of pages an entry of a level covers.

### `Timeline`, `Live`

`Timeline` has push, truncation, eviction (which rebuilds the new front as a
keyframe), reconstruction, rewinding and the capture throttle. The loop that
applies one delta after the other is written by what it leaves: of each page the
contents in the last frame that holds it. `Live` has the
operations of the session: run slices, single steps, line steps into and over
calls, run-to, pause, breakpoints, restore, and the loops in which they tick the
machine one cycle at a time. The clock budget of a slice and the cycle caps of
steps may end a loop at any cycle. The guest is a program of five instructions
with a loop, a call and an endless end; a cycle may retire nothing.

### `Codegen`

One behaviour takes a function, interprets its IR, runs the passes that are
enabled (`optimize_function` with its rounds), allocates registers and colours
slots, and executes the emitted code, with phis as staged copies on the edges,
conversions at loads from homes, spills of parameters. What is executed is what
the code emits per IR instruction, as its effect on registers and slots; the
text of the assembly is left out. Literals are canonical for their type and phis
lead their block, as the front end produces them.

## 3. Runs

| Run | Instance | Distinct states | Shows |
|---|---|---|---|
| `kernel_core` | 3 processes, all process calls, redirections, framebuffer, process 2 reads, FIFO of 1 | 614,464 | one home per control block, no lost wake-up, input in order, pidalive and wait tell the truth, no overtaking, the dead stay dead, framebuffer ownership counts exactly the live owners |
| `kernel_live` | 3 processes, fair | 21,599 | no starvation, waits return, sleeping readers are served |
| `links_refine` | 4 processes | 28,821 | the linked lists implement the sequences |
| `memory` | 18 frames, tables of 3, 2 to 3 processes | 51,435 | no frame has two uses, nobody's memory is changed by somebody else, every byte below a break is backed, children start right |
| `fs_blocks` | 3 inodes, 2 blocks, programs that do anything | 279,080 | no block has two owners, counters and bitmaps agree |
| `fs_tree` | 3 inodes, 2 blocks of 2 cells, 2 names, careful programs | 18,308 | every file has one path, sizes of directories count entries, no block outlives its file or lies behind its end, failed calls change no name, the bytes of a file change only by its own writes and truncates |
| `pipeline` | 2 of 16 words, then a store of their results, an indirect jump or a trap return, a jump back and two handlers | 52,589 | the pipeline refines the functional core, nothing past decode is speculative, a held fetch has its return in flight unless a trap overtook the return |
| `caches` | 3 blocks, levels of 2, 1 and 2 lines | 31,451 | the caches refine flat memory, a clean line can be dropped |
| `mmu` | 2 levels of 2 entries, 2 roots that share a table, TLB of 2 | 41,472 | no stale answer, no unmarked store, debugger and program agree |
| `session` | 4 retired instructions, ring of 2, a keyframe every 2 | 266,621 | every frame is the machine captured, the throttle recovers, breakpoints stop, line steps over calls stay out |
| `codegen` | 96 functions in three shapes, 2 registers, 3-bit words | 130,732 | compiled code does what the IR says, no home is overwritten while it is needed |
| `codegen_fold` | 2 functions | | where folding and zero extension disagree (section 5) |

Bounds of the kernel runs. Three processes are the least with a parent, a child
and a third party that preempts, waits or reads in between; the ready list then
reaches length 2 and the zombie list length 2, so removal from the middle and
the end of a list both happen (4 processes in `links_refine`, for lists of
length 3). One byte in the FIFO plus one in the pushback buffer plus one
arriving during a handler covers every state the kernel distinguishes, which
looks at the oldest byte and at emptiness only. The machine may halt, so
deadlock is not checked in the kernel runs.

`memory`: boot and the first process take 8 frames, a fork with a heap page 8
more, so that the pool ends in the middle of a fork, of an exec (before its
stack, its argument or its image), of a heap of several pages, and at a table.
The heap lies across two tables; the requests are in the middle of a page, at
its end, in the next table and beyond the limit. Requests that wrap around are
left out (section 5). A kernel that panicked has stopped, so deadlock is not
checked.

File system. Inodes of two blocks and images of two make both limits, a full
inode and a full disk, a few calls away; three inodes are the root, a directory
and a file or two files. Two names and paths of two components give a directory
inside a directory and a rename between directories in both directions. One
descriptor is enough for a stale one, since nothing ties a descriptor to a
process; two descriptors on a file differ only in position, which `Seek` sets
anyway. In `fs_tree` `MaxPos` and `MaxWrite` let a write start in the middle of
a block and run over its end; in `fs_blocks` a block is one cell, and programs
write what looks like an entry. `MaxSize` bounds the size field of a directory that programs
overwrite and fill again; careful programs stay below it. The system calls may
all fail, so deadlock is not checked.

`pipeline`: three instructions in a row are the least for a result that is
forwarded from EX/MEM, from MEM/WB and from both; the loop back to 0 puts every
triple behind every other order of itself and trains the predictor, and the
third word reads both registers that the first two may have written or is a trap
return. An `ecall` or a `sret` of user mode right ahead of such a return, or an
interrupt, traps while it is in flight. Interrupts and latencies of two cycles
come at every tick. `caches`: each level is smaller than RAM, so that evictions cascade through all three. `mmu`: two
pages share a TLB entry, two roots a table, and a superpage covers two entries.
`session`: a ring of two evicts at the third capture; four instructions are
enough to capture, go back, run into another future and capture again. `codegen`:
the three shapes, a loop with two phis, a diamond and a merge without phis, with
their operands varied, need more values than there are registers; three-bit
words with two-bit narrow ones tell sign from zero extension and wrap-around from
neither.

Fairness. `ExternalInterrupt` is weakly fair: the PLIC source stays pending
until claimed and user mode never masks it. `Timer` is strongly fair: once
`mtime` reaches `mtimecmp` the timer stays pending and is taken as soon as no
external interrupt is, which comes and goes with the bytes. `Reexecute(p)` is
strongly fair: a slice lasts 1,000,000 cycles from the re-arming of the timer,
so a process that is dispatched again and again executes its rewound `ecall`.
Nothing is assumed of user programs in user code or of the arrival of bytes.

## 4. Proofs

The first part of `KernelProofs` proves for every number of processes that the scheduler keeps
`OneHome` (with its type invariant and `ParentsOlder`), and the action
properties `NoOvertaking` and `DeadStaysDead`. `OneHome` is inductive together
with the type invariant and `ParentsOlder`: the latter says that a pid not yet
handed out is unused, which is why a new process is on no list. The lemmas about
`RemoveAt`, `Append`, `<<e>> \o s` and `Tail` say what each list operation does
to the set of elements and to the absence of repetitions.

Its second part proves that every trap of `Kernel` is a transition of `Scheduler`
or leaves its variables alone (`KernelImplementsScheduler`), so that the results
about the scheduler hold of the kernel. Its inductive invariant, for every
number of processes, FIFO length and program behaviour, is

    SchedInv /\ TypeOK /\ FifoBounded /\ Armed /\ OwnersCounted /\ OwnersAlive

- `WakeupNotLost` alone is not inductive: it says that a sleeping reader with a
  byte in the FIFO has its interrupt pending. `Armed` adds that the receive
  interrupt is enabled as long as anybody sleeps, which is what makes the
  arrival of the byte raise the line.
- `InputInOrder` is an action property. Every action moves bytes in one of four
  ways (not at all, out of the pushback buffer, out of the FIFO, from one to the
  other), possibly after arrivals; one lemma treats each.
- `OwnersCounted` and `OwnersAlive` say that `user_count` is the number of
  processes with `fb_mapped`, all of them alive; `TypeOK` of the count (never
  below zero) and `FramebufferOwned` follow.
- `PidAliveExact` and `NeverMisreported` hold when at most one process reads the
  console; the proof adds that a blocked process is the `input_waiter`. With two
  readers they fail (section 5).

The assumptions are `MaxPidAssumption` and `KernelAssumption`, the types of the
constants.

`LinksProofs` proves that the lists threaded through `pcb.next` implement the
sequences (`LinksImplementScheduler`). A list threads a sequence (`Threads`) if
the sequence repeats nothing, the head points to its first block and every link
to the next one. What the recursive walk then reads off is that sequence
(`ListIs`): the sequence itself solves the equation of the walk, and a first
step at which another solution differed from it (`Least`) would contradict the
links; the walk ends within `MaxPid` steps by the pigeonhole principle. One lemma
for each group of pointer assignments says which sequence is threaded after it
and which links it leaves alone (`AddTailIs`, `AddFrontIs`, `PopFrontIs`,
`UnlinkIs`). The invariant `LinkInv` says that both lists thread something, that
they share no block, that the running process and the input waiter are on
neither, and that the next pid is new. Without the last two the assignment
`pcb.next = null` of `scheduler_add` could cut a list. Neither types nor states
of processes are needed. TLC evaluates `LinkInv` to true in every state of
`links_refine`.

`MemoryProofs` proves `TypeOK`, `Isolated`, `Undisturbed` and `StartsRight` for
every pool, fan-out, memory map, image and number of processes, and
`BreakBacked`. The inductive invariant says, beside the types,

- that no frame is the target of two entries or of an entry and a root, and that
  every target and root lies below the bump pointer (`Iso`), so that a frame
  just handed out is new to everybody: `Isolated` is not inductive without it;
- that the user part of every address space is a tree of three levels (`Trees`)
  and that roots are distinct, also from the one being built (`RootsOK`);
- what the handler at work has done and still has to do (`ForkOK`, `LoadOK`,
  `BrkOK`, `MapFbOK`): the pages done hold what the parent or the image holds,
  the others are in its list. `StartsRight` reads this off at `Finish`;
- that heap pages lie below the break, unless a brk at work mapped them or one
  before found the pool empty (`HeapOK`): no fork or brk meets a page twice.

`Undisturbed` follows because the one entry or frame that a step writes is
reached from one root only. `BreakBacked` has the hypothesis `NoWrap`: no request
is so close to 2^64 that rounding it up wraps around. The code does not ensure
that (section 5), so programs have to. The invariant for it adds that a brk at
work has every page below its new break mapped or still in its list.
`MemoryAssumption` gives the types of the constants and the order of the regions
of the memory map.

`FileSystemProofs` proves `TypeOK`, `BlocksExclusive` and `CountsExact` for
images, inodes and descriptor tables of every size and for programs that do
anything. The three are inductive together: an allocation takes a block out of
the free ones, which by `BlocksExclusive` nobody owns; a free returns blocks that
were owned once, so the counter grows by the number of blocks (`ImageSize`, an
injection keeps the cardinality), for which `TypeOK` must say that they are
blocks; and `create_at`, which clears the block pointers of the inode it took,
and unlink, which returns the inode, need that the bitmap is the set of free
inodes. One lemma treats each part the calls are made of (`AddEntryStep`,
`FreeSlotsStep`, `TakenStep`), one each kind of call. The assumption is
`FileSystemAssumption`, the types of the constants.

Its second half proves what holds for careful programs (hypotheses
`CarefulNames` and `CarefulFds`): `NoLeak`, `SizeCountsEntries`, `OnePath`,
`NamesFrame` and `FilesFrame`. The proofs talk of the set of all entries,
`<<directory, slot, cell, name, inode>>`, and of how a call changes it: not at
all, by one more entry, by one less, by one that moves, or by one that moves and
comes back to another cell (`Quiet`, `Adds`, `Drops`, `Moves`, `GoesBack`).
The inductive invariant `TreeInv` adds to the previous one

- that the entries form a forest: no inode is named twice, no name occurs twice
  in a directory, what is named exists and the root is not named, and the size
  of a directory is the number of its entries;
- that blocks in use belong to an inode in use, in a file to a slot before its
  end: what a write covers ends at the new size, and a truncate keeps the slots
  below its length (`WriteEnds`, `KeepEnds`);
- that descriptors are open on what exists, and on directories for reading only,
  which is why no write reaches an entry.

`PathsInv` adds that everything named can be reached from the root. It is needed
because a forest may contain a ring, which is what a rename of a directory into
itself leaves; `CarefulNames` rules that call out, and the proof shows that it is
the only one. `resolve` is a recursive function over the path. A least-number
argument (the first prefix at which two walks differ) gives what it computes:
`resolve(path) = i` iff the entries lead along the path from the root to `i`.
The way to an inode is unique by the forest and never meets an inode twice, so
it is shorter than the number of inodes. `OnePath` therefore has the hypothesis
`NInodes - 1 <= MaxDepth`, which says that the bound on paths cuts off no tree.

`MmuProofs` proves `Coherent`, `AnswersFresh`, `LeavesMarks` and `DebugAgrees`
for any number of levels, table and TLB size, roots and shared tables, with
superpages of every level. The invariant is `Coherent` with the types and with
the emptiness of a TLB in bare mode. An entry is filled from the leaf that the
walk found, with its tag; the marks that a translation writes change no pointer,
so that they move no walk (`CurrentPpn` is the same before and after); a store to
the tables puts into `changed` every page whose walk passes the entry, so for the
others the walk is as before. `MmuAssumption` gives the types of the constants.

`CachesProofs` proves for RAM, blocks and levels of any size, any number of sets
and ways and accesses that touch at most two blocks that the caches implement
`FlatMemory` (`CachesRefinesFlat`), and `CleanMatchesBelow` and `TypeOK` on the
way. The invariant `Inv(1, m)` says that every set is well formed and that a
clean line of a level equals what can be seen from the next one on (`See`). It is
proved level by level, from RAM upwards: if reading the level below leaves what
can be seen there, and writing it changes the one block that is written, so do
reading and writing this level, with the eviction before the fetch in between
(`Reads`, `Writes`, `LevelReads`); the levels above do not move. A fetch can
evict, below, the very block that is being read, which is why the lemmas speak of
what is seen and never of where it is. For the flush, `FlushedTo` says that after
n ways their dirty lines can be seen one level below and no other block has
changed there; a first way for which this failed (`Least`) contradicts the lemma
for one write-back. After all ways, clean lines by the invariant and dirty ones
by the flush, every line equals what is below it, and dropping the level loses
nothing (`EmptiedIs`). A load, a store that crosses into a second block
and one that runs past the end of RAM then are those of `FlatMemory`
(`ReadIs`, `WriteIs`), and so is an image, which reads dirty lines only
(`ImageIs`). `CachesAssumption` gives the types of the constants.

`PipelineProofs` proves that the pipeline implements the functional core
(`PipelineRefinesFunctional`), and `OnPath` and `HoldEndsWithReturn`, for
programs, memories, register files, word sizes, wait times, predictors and
interrupts of any size and at any time. `HoldEndsWithReturn` has no hypotheses;
its invariant `Holding` says that a held fetch keeps the trap return in ID and in
EX, or that the whole pipeline is empty, which only a trap ahead of the return
brings about (and in which it then stays, section 5). For the other two the code
has gaps (section 5), so they have hypotheses, each a predicate of one state that
is required to hold always. All of them hold in every state of the run
`pipeline`, and so do both invariants.

- `Faultless`: MEM, EX and ID hand on the instruction they got, IF finds one,
  and WB takes no trap that lets the tick go on. A stage that traps does not
  stop the tick, and younger instructions go on with the state of the trap.
- `Unexposed`: the instructions in EX and MEM are not a pair of `Exposed`.
- `JumpsResolved`: an indirect jump to the next word was predicted to go there.

`OnPath` is about the one instruction that has left EX and says nothing of how
it came there. The inductive invariant `Inv` has six parts:

- `Basics`: the types, `retired` is the state once WB is done, and only an
  access that retires without a trap is waited for;
- `Learned` and `Latches`: a prediction of a word that is neither a branch nor
  an indirect jump is its next pc, because the predictor has learnt the targets
  of that word only; hence EX, which compares predictions of jumps and branches
  alone, compares enough;
- `Chain`: from WB back to IF, every register continues where the older one
  goes. What is in MEM is the execution of the word at `retired.pc` in
  `retired`, the word in EX stands at the next pc with operands read from
  `arch`, the one in ID at the pc predicted for EX, `fetch_pc` at the one
  predicted for ID. Each part holds only as long as nothing older empties the
  pipeline;
- `LoadsApart`: the word in EX needs no load that is still in MEM; this is what
  the stall is for, and without it forwarding would give EX an address;
- `Held`: fetch is held by a trap return in ID, or behind an emptied pipeline.

The argument follows an instruction. MEM and WB make of a register that was
executed in `retired` the step of the functional core (`MemRetires`, `EffectIs`);
the operands that forwarding gives EX are the ones read from the state after MEM
and WB (`ExForwards`), so EX executes as the functional core would; a word
fetched behind it is the one at the next pc or is flushed (`PredictedRight`).
Then each tick is one step of the functional core, an interrupt of it, or a
stutter (an empty MEM, a wait, a squash), and a machine that has stopped stays
so. `PipelineAssumption` gives the types of the constants and the shape of
code words.

`LiveProofs` proves `FramesExact` and `HistoryOrdered` for every program, ring,
stride and number of captures, `StopsAtBreakpoints`, and `OverStaysOut`. The
invariant of the history (`HistoryInv`) says of every frame on which keyframe it
builds and, page by page, which frame after it was the last to hold the page, and
of the log that the copy it compares with is the last image. `FramesExact` alone
says nothing about that copy, from which the next delta is made, and nothing
about how the frames hang together, which eviction uses when it rebuilds the
front. `BreakInv` adds that a running machine that has moved does not stand where
it was resumed from, the one place whose breakpoint a run ignores. `OverStaysOut` is proved for a called function that calls nothing and
is entered by calls only (`Leaf`): the line step recognises the end of the call
by the pc after it, which a recursive call reaches in a deeper frame, and there
the statement is false. `OverInv` says that the machine in the function is one
call deep and that the pc the step waits for is its return address; it holds of
the captured machines as well, since a rewind may bring them back.

Checked by TLC only:

- liveness (`EveryoneRuns`, `WaitReturns`, `ReaderServed`), because the prover
  has no rules for fairness;
- code generation: the optimiser and the liveness analysis are recursive
  operators that run to a fixed point over the blocks of a function, which the
  prover cannot unfold. `NoClobber` is a statement about their result, and
  `Preserved` compares two interpreters of it, which is induction over the
  execution of the function.

## 5. Where code and documents differ

One difference has a run. `codegen_fold`: the constant folder puts the
sign-extended value of a narrow sum into a later zero extension, and the code
generator takes every literal for an i64 and masks nothing, so `i8` 100 + 100
widened without sign is -56 with folding and 200 without
(`const_fold.rs:13`: "Folding mirrors the RV64 backend exactly"). The functions
of `codegen` do not fold a value that is zero-extended.

The others are behaviours the models have, or are kept from having by the
restrictions named in section 2; a property that states the document's sentence
fails in them. `Spec` stands for `crates/os-runtime/_OS_SPECIFICATION.md`,
`VM` for `crates/virtual-machine`.

Kernel:

| Code | Document |
|---|---|
| one slot for all sleepers, overwritten by the second reader (`scheduler.hll:92`) and cleared by a declined block (`:55`); the first is in no list and its parent's waitpid fails | Spec:276-279, a sleeping child "is never misreported to its waiting parent as finished" |
| the last ready process exits while the shell sleeps at its prompt, and the machine halts (`tasks.hll:91`) | Spec:378-379, background jobs "are reaped at the prompt" |
| a byte in the pushback buffer hides every later Ctrl-C (`process_syscalls.hll:235`) | Spec:323-324, "Ctrl-C is reliable for compute-bound children" |
| waitpid reaps any zombie of that pid (`process_syscalls.hll:129`) | Spec:374, "-1 if not ours" |
| kill leaves no zombie (`tasks.hll:115`) | Spec:484-486 |
| the exit of pid 1 halts the machine under ready processes (`tasks.hll:91`) | Spec:273-274 |
| rename checks neither the new name, nor its parent, nor for a cycle (`fs_directory.hll:129`): a directory renamed into itself is gone | Spec:357, "Move a file or directory" |
| a write beyond the last block writes nothing and still sets the size (`fs_descriptors.hll:122`) | Spec:592, "176 KiB max file" |
| a brk within a page of 2^64 rounds up to 0, maps nothing and is stored as the break (`memory_syscalls.hll:36`) | Spec:543-544, the heap grows "toward `USER_ARG_BASE`" |
| brk panics when it is a table that cannot be allocated (`page_tables.hll:75`) | Spec:552-553, "On out-of-memory the break is left unchanged" |
| fork copies the framebuffer window into RAM of the child (`address_space.hll:52`), which then draws on no screen | Spec:452, "the device buffer is shared" |

Machine:

| Code | Document |
|---|---|
| a fault in MEM traps and lets the tick go on (`cpu/pipeline.rs:271`): the younger instruction in EX stays in the pipeline and goes on to commit | VM/_VM_SPECIFICATION.md:1095-1096, "the pipeline is squashed" |
| a use right behind an atomic, a CSR read right behind a CSR write or a floating-point instruction, and a third floating-point operand are not forwarded | VM/README.md:55 |
| a `jalr` to the next word that was predicted elsewhere is not corrected | VM/README.md:57 |
| a trap return that traps, or is overtaken by an `ecall` in front of it, an illegal `sret` or an interrupt, leaves `mret_in_flight` set and the core does not fetch again (`pipeline.rs:438`): `ecall; nop; mret` does not reach its handler. `HoldEndsWithReturn` shows that these are the only cases | `pipeline.rs:82-83`, the flag is "cleared after WB flushes" |
| satp written to another root and back between two translations keeps the entries of the TLB (`mmu.rs:126`) | VM/_VM_SPECIFICATION.md:210, `pipeline.rs:87` |
| an access that crosses a page is translated by its first byte, and a misaligned one does not fault (`pipeline/memory.rs:157-215`) | VM/_VM_SPECIFICATION.md:386-390 |
| the predictor's counters are only ever raised, and `fence.i` does not clear its targets (costs cycles only) | -- |
| the debugger's walk does not check that bit 38 is extended (`virtual_machine.rs`, `debug_walk_sv39`) | -- |

Sessions and compiler:

| Code | Document |
|---|---|
| a line step takes the pc behind a call for the end of the call (`stepping.rs:206-209`); a recursive call reaches that pc in a deeper frame, and the step may stop there | `stepping.rs:148-149`, "in this frame or a caller" |
| stepping while running leaves the one-shot breakpoint of run-to set | `live.rs:68-69` |
| phis lower to copies on the edges | `register_allocator.rs:33`, "Phi lowers to nothing" |

## 6. Not modelled

- Data: exit codes, byte values other than Ctrl-C, console output, pixels. File
  contents are cells, page contents one value, machine words three bits. The
  `parent` and `name` fields of an inode are written and never read.
- The width of `DiskInode.size` (u32) and of positions (u64), and entries that
  name an inode beyond the table, which only a program that writes into a
  directory can make. An image with a bad magic: every call then fails.
- ELF files with segments outside the user gigabyte or more than one segment,
  which neither linker makes (Spec 7.4), and the parsing of their headers.
- Instruction encodings, the arithmetic of the ALU, compressed and vector code,
  floating-point rounding and flags: enumerations without state, which the
  tests of the crates compare with tables.
- MMIO decoding, ROM, keyboard and CLINT registers: single accesses.
- Parser, type checker, monomorphisation and lowering of HLL, the assembler and
  the linker: recursion over unbounded trees and texts without state that
  survives a call. They are more than half of the Rust code, and the reason why
  the models stand for a small part of its lines. TLC could only replay single
  inputs, which the unit tests of these crates already do.
- In `ir-to-asm`: aggregates, floats, inline assembly, frame layout, peephole
  rules.
- IDE, workspace, compilation pipeline: one thread, one operation after the
  other.
- Standard library, user programs: sequential; `Kernel`, `Memory` and
  `FileSystem` allow every sequence of calls instead.
- The system call trace: the host reads the ring between two machine cycles and
  never in the middle of a kernel's store.

## 7. Plan

Done: scheduler and its lists, kernel, memory, file system, both cores, caches,
MMU, sessions, code generation, with the proofs of section 4. Left:

1. Shell discipline: who closes which descriptor, the job table, redirections,
   over `Kernel` and `FileSystem`; bounds the leak that kill leaves.
2. The object linker: sections merged in order, symbols and line tables moved
   with them, checked against a definition by module and offset.
