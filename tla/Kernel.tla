-------------------------------- MODULE Kernel --------------------------------
(***************************************************************************)
(* The process core of the kernel: user programs that trap into it with    *)
(* system calls, the timer and the UART receive interrupt that preempt     *)
(* them, and the devices as far as the kernel's behaviour depends on them. *)
(*                                                                         *)
(* One action is one whole trap.  The kernel runs on one hart with         *)
(* sstatus.SIE clear from trap entry to sret, so no other process and no   *)
(* other interrupt runs in between; user code is interruptible before each *)
(* of its instructions, and a pending external interrupt is taken before   *)
(* the timer and before the next user instruction.  What does go on during *)
(* a trap is the outside world: a byte may reach the UART while a handler  *)
(* runs, so every handler that looks at the receive FIFO has a parameter   *)
(* arrived, the bytes that came in after trap entry.                       *)
(*                                                                         *)
(* A system call that sleeps or polls rewinds sepc and executes again when *)
(* its process next runs: retry and target say which call a process is     *)
(* going to re-execute.                                                    *)
(***************************************************************************)
EXTENDS Scheduler, FiniteSets

CONSTANTS
    INTR,       \* the byte 0x03, Ctrl-C
    Keys,       \* the other bytes that are typed
    MaxRx,      \* bound on the bytes waiting in the UART receive FIFO
    Fds,        \* file descriptors of the table, 2..15 in the kernel
    Calls,      \* the system calls that user programs make
    Readers,    \* the processes whose program reads the console
    Redirects   \* <<out_fd, in_fd>> pairs that user programs exec with

ASSUME KernelAssumption ==
    /\ INTR \notin Keys
    /\ MaxRx \in Nat \ {0}
    /\ Fds \subseteq Nat \ {0, 1}
    /\ Readers \subseteq Pids
    /\ Redirects \subseteq (Fds \cup {0}) \X (Fds \cup {0})

VARIABLES
    retry,          \* the rewound call of each process, "none" in user code
    target,         \* its argument a0 when that call is waitpid
    rx,             \* UART receive FIFO
    pushback,       \* the kernel's one-byte pushback buffer, empty or one byte
    ier,            \* UART receive interrupt enable
    irq_pending,    \* PLIC pending bit of the UART source
    fb_mapped,      \* pcb.fb_mapped
    user_count,     \* framebuffer users
    dbmode,         \* DBMODE register of the framebuffer device
    fd_valid,       \* descriptors whose table slot is in use
    stdout_fd,      \* pcb.stdout_fd, 0 when not redirected
    stdin_fd,       \* pcb.stdin_fd
    reply,          \* what the last readchar, wait or waitpid answered
    halted          \* the machine has been shut down

inputVars == <<rx, pushback, ier, irq_pending>>
callVars == <<retry, target>>
fbVars == <<fb_mapped, user_count, dbmode>>
fdVars == <<fd_valid, stdout_fd, stdin_fd>>
vars == <<schedVars, inputVars, callVars, fbVars, fdVars, reply, halted>>

Bytes == Keys \cup {INTR}
NoReply == [pid |-> Null, call |-> "none", of |-> Null, result |-> "none"]
Replies ==
    [pid : Pids \cup {Null}, call : {"none", "readchar", "wait", "waitpid"},
     of : Pids \cup {Null}, result : {"none", "byte", "code", "fail", "interrupted"}]

TypeOK ==
    /\ SchedTypeOK
    /\ retry \in [Pids -> {"none", "readchar", "wait", "waitpid"}]
    /\ target \in [Pids -> Pids \cup {Null}]
    /\ rx \in Seq(Bytes)
    /\ pushback \in {<<>>} \cup {<<b>> : b \in Bytes}
    /\ ier \in BOOLEAN
    /\ irq_pending \in BOOLEAN
    /\ fb_mapped \in [Pids -> BOOLEAN]
    /\ user_count \in Nat
    /\ dbmode \in BOOLEAN
    /\ fd_valid \in SUBSET Fds
    /\ stdout_fd \in [Pids -> Fds \cup {0}]
    /\ stdin_fd \in [Pids -> Fds \cup {0}]
    /\ reply \in Replies
    /\ halted \in BOOLEAN

Init ==
    /\ SchedInit
    /\ retry = [p \in Pids |-> "none"]
    /\ target = [p \in Pids |-> Null]
    /\ rx = <<>>
    /\ pushback = <<>>
    /\ ier = FALSE
    /\ irq_pending = FALSE
    /\ fb_mapped = [p \in Pids |-> FALSE]
    /\ user_count = 0
    /\ dbmode = FALSE
    /\ fd_valid = {}
    /\ stdout_fd = [p \in Pids |-> 0]
    /\ stdin_fd = [p \in Pids |-> 0]
    /\ reply = NoReply
    /\ halted = FALSE

-----------------------------------------------------------------------------
(* Devices.                                                                *)

\* The PLIC latches the UART line on every cycle: once the receive interrupt
\* is enabled with a byte in the FIFO the source is pending until it is claimed.
Latch(fifo) == irq_pending \/ (ier /\ fifo # <<>>)

\* The bytes that may come in while a handler runs.
Arrivals == {a \in {<<>>} \cup {<<b>> : b \in Bytes} : Len(rx) + Len(a) <= MaxRx}

\* A byte reaches the receive FIFO while user code runs.
Receive ==
    /\ ~halted
    /\ \E b \in Bytes : Len(rx) < MaxRx /\ rx' = Append(rx, b)
    /\ irq_pending' = Latch(rx')
    /\ reply' = NoReply
    /\ UNCHANGED <<schedVars, callVars, fbVars, fdVars, pushback, ier, halted>>

-----------------------------------------------------------------------------
(* Interrupts.                                                             *)

\* The next instruction of the running program can execute.
InUser == ~halted /\ ~irq_pending

\* timer_interrupt.
Timer ==
    /\ InUser
    /\ Switch
    /\ reply' = NoReply
    /\ UNCHANGED <<inputVars, callVars, fbVars, fdVars, halted>>

\* Mutant: the handler masks the receive interrupt and wakes nobody.
ExternalInterrupt_NoWake ==
    /\ ~halted
    /\ irq_pending
    /\ \E arrived \in Arrivals : rx' = rx \o arrived
    /\ irq_pending' = (ier /\ rx' # <<>>)
    /\ ier' = FALSE
    /\ reply' = NoReply
    /\ UNCHANGED <<schedVars, callVars, fbVars, fdVars, pushback, halted>>

\* external_interrupt: claim, mask, wake.  The claim clears the pending bit and
\* the line, still raised while the FIFO holds a byte, sets it again before the
\* mask takes effect, so one more interrupt follows.
ExternalInterrupt ==
    /\ ~halted
    /\ irq_pending
    /\ \E arrived \in Arrivals : rx' = rx \o arrived
    /\ irq_pending' = (ier /\ rx' # <<>>)
    /\ ier' = FALSE
    /\ \/ Wake
       \/ input_waiter = Null /\ UNCHANGED schedVars
    /\ reply' = NoReply
    /\ UNCHANGED <<callVars, fbVars, fdVars, pushback, halted>>

-----------------------------------------------------------------------------
(* System calls of the running process.                                    *)

\* The running program issues the call name, or re-executes it.
Ecall(name) ==
    /\ InUser
    /\ current # Null
    /\ \/ retry[current] = "none" /\ name \in Calls
       \/ retry[current] = name

\* The call finishes; reply is its answer.
Done(r) ==
    /\ retry' = [retry EXCEPT ![current] = "none"]
    /\ target' = [target EXCEPT ![current] = Null]
    /\ reply' = r

Answer(call, of, result) ==
    Done([pid |-> current, call |-> call, of |-> of, result |-> result])

\* sepc is rewound: the call will execute again.
Again(name, of) ==
    /\ retry' = [retry EXCEPT ![current] = name]
    /\ target' = [target EXCEPT ![current] = of]
    /\ reply' = NoReply

Yield ==
    /\ Ecall("yield")
    /\ Switch
    /\ Done(NoReply)
    /\ UNCHANGED <<inputVars, fbVars, fdVars, halted>>

\* fork: the child starts in user code, without its parent's redirections and
\* without its framebuffer ownership.
Fork ==
    /\ Ecall("fork")
    /\ Spawn
    /\ Done(NoReply)
    /\ UNCHANGED <<inputVars, fbVars, fdVars, halted>>

\* exec and exec_redirected.  spawn_process holds a descriptor of its own while
\* it loads the program: with the table full it fails before it builds anything.
Exec ==
    /\ Ecall("exec")
    /\ fd_valid # Fds
    /\ \/ /\ Spawn
          /\ \E r \in Redirects :
                /\ stdout_fd' = [stdout_fd EXCEPT ![next_pid] = r[1]]
                /\ stdin_fd' = [stdin_fd EXCEPT ![next_pid] = r[2]]
       \/ SpawnAbandoned /\ UNCHANGED <<stdout_fd, stdin_fd>>
    /\ Done(NoReply)
    /\ UNCHANGED <<inputVars, fbVars, fd_valid, halted>>

\* Mutant: the last owner leaves double buffering on.
ReleaseFramebuffer_KeepsMode(p) ==
    IF fb_mapped[p]
    THEN /\ fb_mapped' = [fb_mapped EXCEPT ![p] = FALSE]
         /\ user_count' = user_count - 1
         /\ UNCHANGED dbmode
    ELSE UNCHANGED fbVars

\* Mutant: the count is dropped whether or not the process owned the device.
ReleaseFramebuffer_Unowned(p) ==
    /\ fb_mapped' = [fb_mapped EXCEPT ![p] = FALSE]
    /\ user_count' = user_count - 1
    /\ dbmode' = (dbmode /\ user_count' # 0)

\* framebuffer.release of process p.
ReleaseFramebuffer(p) ==
    IF fb_mapped[p]
    THEN /\ fb_mapped' = [fb_mapped EXCEPT ![p] = FALSE]
         /\ user_count' = IF user_count # 0 THEN user_count - 1 ELSE 0
         /\ dbmode' = (dbmode /\ user_count' # 0)
    ELSE UNCHANGED fbVars

\* exit_current: pid 1, or a process that leaves nothing ready to run, shuts
\* the machine down; any other one closes its redirections, gives up the
\* framebuffer and becomes a zombie.
Shutdown ==
    /\ Ecall("exit")
    /\ current = 1 \/ ready = <<>>
    /\ halted' = TRUE
    /\ Done(NoReply)
    /\ UNCHANGED <<schedVars, inputVars, fbVars, fdVars>>

Exit ==
    /\ Ecall("exit")
    /\ ExitCurrent
    /\ fd_valid' = fd_valid \ {stdout_fd[current], stdin_fd[current]}
    /\ ReleaseFramebuffer(current)
    /\ Done(NoReply)
    /\ UNCHANGED <<inputVars, stdout_fd, stdin_fd, halted>>

\* A fault of user code is an exception the kernel has no handler for: panic.
Fault ==
    /\ Ecall("fault")
    /\ halted' = TRUE
    /\ Done(NoReply)
    /\ UNCHANGED <<schedVars, inputVars, fbVars, fdVars>>

\* kill(pid, SIGKILL): only a process in the ready list can be killed, and
\* never pid 1.  Its descriptors stay open.
KillCall(t) ==
    /\ Ecall("kill")
    /\ t # 1
    /\ Kill({t})
    /\ ReleaseFramebuffer(t)
    /\ Done(NoReply)
    /\ UNCHANGED <<inputVars, fdVars, halted>>

\* kill_ready behind Ctrl-C: the first ready process of S, if there is one.
KillFirstOf(S) ==
    \/ \E i \in 1..Len(ready) :
          /\ IsFirst(ready, i, S)
          /\ Kill({ready[i]})
          /\ ReleaseFramebuffer(ready[i])
    \/ S \cap Ready = {} /\ UNCHANGED <<schedVars, fbVars>>

\* interrupted_child / interrupted_pid find Ctrl-C in the FIFO; they do not
\* look while the pushback buffer is full.
Interrupted(fifo) == pushback = <<>> /\ fifo # <<>> /\ Head(fifo) = INTR

\* Mutant: the peek overwrites a byte that is already pushed back.
Peek_Overwrites(fifo) ==
    /\ ~Interrupted(fifo)
    /\ IF fifo # <<>>
       THEN pushback' = <<Head(fifo)>> /\ rx' = Tail(fifo)
       ELSE rx' = fifo /\ UNCHANGED pushback

\* ... or move the byte they peeked at into the pushback buffer.
Peek(fifo) ==
    /\ ~Interrupted(fifo)
    /\ IF pushback = <<>> /\ fifo # <<>>
       THEN pushback' = <<Head(fifo)>> /\ rx' = Tail(fifo)
       ELSE rx' = fifo /\ UNCHANGED pushback

\* wait and waitpid share their shape: S is the set of processes that answer
\* the call, of the pid it names, exists the test for anything to wait for.
WaitReaps(name, of, S) ==
    /\ Reap(S)
    /\ Answer(name, of, "code")
    /\ UNCHANGED <<inputVars, fbVars, fdVars, halted>>

WaitFails(name, of, S, exists) ==
    /\ S \cap Zombies = {}
    /\ ~exists
    /\ Answer(name, of, "fail")
    /\ UNCHANGED <<schedVars, inputVars, fbVars, fdVars, halted>>

WaitInterrupted(name, of, S, exists) ==
    /\ S \cap Zombies = {}
    /\ exists
    /\ \E arrived \in Arrivals :
          /\ Interrupted(rx \o arrived)
          /\ rx' = Tail(rx \o arrived)
          /\ irq_pending' = Latch(rx \o arrived)
    /\ KillFirstOf(S)
    /\ Answer(name, of, "interrupted")
    /\ UNCHANGED <<pushback, ier, fdVars, halted>>

WaitPolls(name, of, S, exists) ==
    /\ S \cap Zombies = {}
    /\ exists
    /\ \E arrived \in Arrivals :
          /\ Peek(rx \o arrived)
          /\ irq_pending' = Latch(rx \o arrived)
    /\ Switch
    /\ Again(name, of)
    /\ UNCHANGED <<ier, fbVars, fdVars, halted>>

Wait ==
    /\ Ecall("wait")
    /\ LET S == Children(current)
       IN  \/ WaitReaps("wait", Null, S)
           \/ WaitFails("wait", Null, S, has_children(current))
           \/ WaitInterrupted("wait", Null, S, has_children(current))
           \/ WaitPolls("wait", Null, S, has_children(current))

\* waitpid takes any pid: whose child it is is not looked at.
WaitPid(t) ==
    /\ Ecall("waitpid")
    /\ retry[current] = "waitpid" => target[current] = t
    /\ \/ WaitReaps("waitpid", t, {t})
       \/ WaitFails("waitpid", t, {t}, pid_alive(t))
       \/ WaitInterrupted("waitpid", t, {t}, pid_alive(t))
       \/ WaitPolls("waitpid", t, {t}, pid_alive(t))

\* read_character of the console.  A process with redirected standard input
\* reads its file instead and never sleeps.
ReadChar ==
    /\ Ecall("readchar")
    /\ current \in Readers
    /\ stdin_fd[current] = 0
    /\ \E arrived \in Arrivals :
          LET fifo == rx \o arrived
          IN  /\ pushback \o fifo # <<>>
              /\ IF pushback # <<>>
                 THEN pushback' = <<>> /\ rx' = fifo
                 ELSE rx' = Tail(fifo) /\ UNCHANGED pushback
              /\ irq_pending' = Latch(fifo)
    /\ Answer("readchar", Null, "byte")
    /\ UNCHANGED <<schedVars, ier, fbVars, fdVars, halted>>

\* Mutant: the reader sleeps without arming the receive interrupt.
ReadCharSleeps_Unarmed ==
    /\ Ecall("readchar")
    /\ current \in Readers
    /\ stdin_fd[current] = 0
    /\ pushback \o rx = <<>>
    /\ Block \/ BlockDeclined
    /\ Again("readchar", Null)
    /\ UNCHANGED <<rx, pushback, ier, irq_pending, fbVars, fdVars, halted>>

\* ... with nothing to read: arm the receive interrupt and sleep.
ReadCharSleeps ==
    /\ Ecall("readchar")
    /\ current \in Readers
    /\ stdin_fd[current] = 0
    /\ pushback \o rx = <<>>
    /\ ier' = TRUE
    /\ Block \/ BlockDeclined
    /\ Again("readchar", Null)
    /\ UNCHANGED <<rx, pushback, irq_pending, fbVars, fdVars, halted>>

\* map_framebuffer: acquire counts a process once.
MapFramebuffer ==
    /\ Ecall("map_fb")
    /\ IF fb_mapped[current]
       THEN UNCHANGED fbVars
       ELSE /\ fb_mapped' = [fb_mapped EXCEPT ![current] = TRUE]
            /\ user_count' = user_count + 1
            /\ UNCHANGED dbmode
    /\ Done(NoReply)
    /\ UNCHANGED <<schedVars, inputVars, fdVars, halted>>

\* A program stores to the DBMODE register it has mapped.
StoreDbmode ==
    /\ Ecall("map_fb")
    /\ fb_mapped[current]
    /\ dbmode' = ~dbmode
    /\ Done(NoReply)
    /\ UNCHANGED <<schedVars, inputVars, fb_mapped, user_count, fdVars, halted>>

\* open takes the lowest free slot of the table; close frees any slot.
Open ==
    /\ Ecall("open")
    /\ \E f \in Fds \ fd_valid :
          /\ \A g \in Fds \ fd_valid : f <= g
          /\ fd_valid' = fd_valid \cup {f}
    /\ Done(NoReply)
    /\ UNCHANGED <<schedVars, inputVars, fbVars, stdout_fd, stdin_fd, halted>>

Close(f) ==
    /\ Ecall("close")
    /\ fd_valid' = fd_valid \ {f}
    /\ Done(NoReply)
    /\ UNCHANGED <<schedVars, inputVars, fbVars, stdout_fd, stdin_fd, halted>>

-----------------------------------------------------------------------------

Next ==
    \/ Receive
    \/ Timer
    \/ ExternalInterrupt
    \/ Yield
    \/ Fork
    \/ Exec
    \/ Shutdown
    \/ Exit
    \/ Fault
    \/ Wait
    \/ ReadChar
    \/ ReadCharSleeps
    \/ MapFramebuffer
    \/ StoreDbmode
    \/ Open
    \/ \E t \in Pids : KillCall(t) \/ WaitPid(t)
    \/ \E f \in Fds : Close(f)

Spec == Init /\ [][Next]_vars

\* Process p, back on the hart, re-executes the call it was rewound to.
Reexecute(p) ==
    /\ current = p
    /\ retry[p] # "none"
    /\ \/ Wait
       \/ ReadChar
       \/ ReadCharSleeps
       \/ \E t \in Pids : WaitPid(t)

(* The external interrupt stays pending until it is taken.  The timer stays
   pending too once mtime reaches mtimecmp and is taken as soon as no external
   interrupt is, which may come and go in between.  Each time slice is a million
   cycles, enough to execute the rewound ecall, so a process that runs again and
   again executes it. *)
Fairness ==
    /\ WF_vars(ExternalInterrupt)
    /\ SF_vars(Timer)
    /\ \A p \in Pids : SF_vars(Reexecute(p))

FairSpec == Spec /\ Fairness

-----------------------------------------------------------------------------
(* Properties.                                                             *)

Stream == pushback \o rx

(* No lost wake-up: whenever a process sleeps as the input waiter and a byte is
   there for it, in the FIFO or moved to the pushback buffer by somebody's
   waitpid, the interrupt that will wake it is pending. *)
WakeupNotLost == input_waiter # Null /\ Stream # <<>> => irq_pending

(* Console input is consumed in the order typed: a step removes at most the
   oldest byte, a byte is never dropped or overtaken on its way through the
   pushback buffer, and a wait consumes nothing but Ctrl-C. *)
InputInOrder ==
    [][\E arrived \in Arrivals :
            LET typed == Stream \o arrived
            IN  \/ Stream' = typed
                \/ /\ typed # <<>>
                   /\ Stream' = Tail(typed)
                   /\ \/ reply'.result = "byte"
                      \/ reply'.result = "interrupted" /\ Head(typed) = INTR]_vars

(* The framebuffer's user count is the number of live processes that own it,
   and double buffering is never left on without an owner: exit and kill give
   the ownership back exactly once. *)
FramebufferOwned ==
    /\ user_count = Cardinality({p \in Pids : fb_mapped[p]})
    /\ \A p \in Pids : fb_mapped[p] => state[p] \in {"READY", "BLOCKED"}
    /\ dbmode => user_count > 0

(* pidalive tells the truth: 1 exactly for the processes that have not exited. *)
PidAliveExact ==
    \A p \in Pids : pid_alive(p) <=> state[p] \in {"READY", "BLOCKED"}

(* A wait that reports failure has nothing to wait for: a child that sleeps on
   input is never misreported to its waiting parent as finished. *)
NeverMisreported ==
    reply.result = "fail" =>
        IF reply.call = "waitpid"
        THEN parent_pid[reply.of] = reply.pid =>
                state[reply.of] \notin {"READY", "BLOCKED"}
        ELSE \A c \in Children(reply.pid) : state[c] \notin {"READY", "BLOCKED"}

(* Round robin starves nobody: a ready process runs, unless it is killed or the
   machine stops. *)
EveryoneRuns ==
    \A p \in Pids :
        p \in Ready ~> current = p \/ state[p] = "EXITED" \/ halted

(* A waitpid on a process that has become a zombie returns, whatever else is in
   the zombie list and whoever else waits. *)
WaitReturns ==
    \A p, t \in Pids :
        retry[p] = "waitpid" /\ target[p] = t /\ t \in Zombies
            ~> retry[p] = "none" \/ state[p] = "EXITED" \/ halted

(* A process that sleeps in readchar gets the byte that is typed: the wake-up,
   the preemption and the repeated read together deliver it, unless a wait
   consumes it as Ctrl-C. *)
ReaderServed ==
    \A p \in Pids :
        retry[p] = "readchar" /\ Stream # <<>>
            ~> retry[p] = "none" \/ Stream = <<>> \/ state[p] = "EXITED" \/ halted
=============================================================================
