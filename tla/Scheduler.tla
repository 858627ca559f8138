------------------------------ MODULE Scheduler ------------------------------
(***************************************************************************)
(* The round-robin scheduler of the kernel: the queue ownership of process *)
(* control blocks in kernel/sched/scheduler.hll as the task facade of      *)
(* kernel/sched/tasks.hll drives it.                                       *)
(*                                                                         *)
(* A PCB is named by its pid: pids are handed out by process.hll from 1    *)
(* upwards and never reused, so a pointer and its pid are interchangeable. *)
(* The null pointer is Null.  The ready and zombie lists are sequences     *)
(* here; module SchedulerLinks keeps them as the intrusive lists that they *)
(* are in the kernel and is shown to implement this module.                *)
(*                                                                         *)
(* The actions are the transitions a single trap makes on this state.  The *)
(* kernel runs with interrupts off on one hart, so a trap is atomic with   *)
(* respect to every process; module Kernel says which trap makes which     *)
(* transition, and refines this module.                                    *)
(***************************************************************************)
EXTENDS Integers, Sequences, SequencesExt

CONSTANT
    MaxPid      \* bound on the processes ever created (next_pid is a u64)

ASSUME MaxPidAssumption == MaxPid \in Nat \ {0}

VARIABLES
    current,        \* scheduler_state.current
    ready,          \* scheduler_state.ready, head first
    zombies,        \* scheduler_state.zombies, head first
    input_waiter,   \* scheduler_state.input_waiter
    state,          \* pcb.state of every pid
    parent_pid,     \* pcb.parent_pid of every pid
    next_pid        \* process_bookkeeping.next_pid

schedVars ==
    <<current, ready, zombies, input_waiter, state, parent_pid, next_pid>>

Pids == 1..MaxPid
Null == 0

\* Queue transitions write READY, BLOCKED and EXITED; the running process
\* keeps READY.  NONE stands for a pid with no control block in use.
ProcStates == {"NONE", "READY", "BLOCKED", "EXITED"}

SchedTypeOK ==
    /\ current \in Pids \cup {Null}
    /\ ready \in Seq(Pids)
    /\ zombies \in Seq(Pids)
    /\ input_waiter \in Pids \cup {Null}
    /\ state \in [Pids -> ProcStates]
    /\ parent_pid \in [Pids -> Pids \cup {Null}]
    /\ next_pid \in 1..(MaxPid + 1)

-----------------------------------------------------------------------------
(* Queries.                                                                *)

Ready == ToSet(ready)
Zombies == ToSet(zombies)
Children(p) == {c \in Pids : parent_pid[c] = p}

\* Position i holds the first element of s that lies in S: what the walks of
\* find_zombie_pid, find_zombie_child and remove_ready stop at.
IsFirst(s, i, S) ==
    /\ i \in 1..Len(s)
    /\ s[i] \in S
    /\ \A j \in 1..(i - 1) : s[j] \notin S

pid_in_queue(p) == p \in Ready

\* Mutant: liveness decided from the current process and the ready list only.
pid_alive_NoWaiter(p) == current = p \/ pid_in_queue(p)

pid_alive(p) ==
    \/ current # Null /\ current = p
    \/ input_waiter # Null /\ input_waiter = p
    \/ pid_in_queue(p)

\* Mutant: a child asleep on input is not counted.
has_children_NoWaiter(p) ==
    \/ \E c \in Ready : parent_pid[c] = p
    \/ \E c \in Zombies : parent_pid[c] = p

has_children(p) ==
    \/ \E c \in Ready : parent_pid[c] = p
    \/ input_waiter # Null /\ parent_pid[input_waiter] = p
    \/ \E c \in Zombies : parent_pid[c] = p

-----------------------------------------------------------------------------
(* Transitions.                                                            *)

\* tasks_init, then pid 1 built and enqueued by spawn_user_process; the boot
\* thread runs with no current process until the first timer tick.
SchedInit ==
    /\ current = Null
    /\ ready = <<1>>
    /\ zombies = <<>>
    /\ input_waiter = Null
    /\ state = [p \in Pids |-> IF p = 1 THEN "READY" ELSE "NONE"]
    /\ parent_pid = [p \in Pids |-> Null]
    /\ next_pid = 2

\* The tail of schedule: dequeue the head of q and make it current.
Dequeue(q) ==
    IF q = <<>>
    THEN ready' = q /\ UNCHANGED current
    ELSE ready' = Tail(q) /\ current' = Head(q)

\* Mutant: the running process goes back to the head of the queue.
Requeue_Front(q) == IF current = Null THEN q ELSE <<current>> \o q

\* scheduler_add of the running process, on queue q.
Requeue(q) == IF current = Null THEN q ELSE Append(q, current)

\* Mutant: the dequeue writes the reserved value RUNNING.
Switch_WritesRunning ==
    /\ Dequeue(Requeue(ready))
    /\ state' = [p \in Pids |->
                    IF p = current' THEN "RUNNING"
                    ELSE IF p = current THEN "READY" ELSE state[p]]
    /\ UNCHANGED <<zombies, input_waiter, parent_pid, next_pid>>

\* schedule(frame, Schedule): timer tick, yield, and the waits that poll.
Switch ==
    /\ Dequeue(Requeue(ready))
    /\ state' = [p \in Pids |-> IF p = current THEN "READY" ELSE state[p]]
    /\ UNCHANGED <<zombies, input_waiter, parent_pid, next_pid>>

\* block_on_input(current) then schedule(frame, Block) with work to do.  The
\* one input_waiter slot is overwritten, whoever it held.
Block ==
    /\ current # Null
    /\ ready # <<>>
    /\ input_waiter' = current
    /\ state' = [state EXCEPT ![current] = "BLOCKED"]
    /\ Dequeue(ready)
    /\ UNCHANGED <<zombies, parent_pid, next_pid>>

\* ... and with nothing else to run: the block is declined, the slot cleared
\* and the caller goes on running.
BlockDeclined ==
    /\ current # Null
    /\ ready = <<>>
    /\ input_waiter' = Null
    /\ UNCHANGED <<current, ready, zombies, state, parent_pid, next_pid>>

\* Mutant: the woken process is put at the front but nobody is preempted.
Wake_NoPreempt ==
    /\ input_waiter # Null
    /\ input_waiter' = Null
    /\ ready' = <<input_waiter>> \o ready
    /\ state' = [state EXCEPT ![input_waiter] = "READY"]
    /\ UNCHANGED <<current, zombies, parent_pid, next_pid>>

\* wake_input_waiter then schedule(frame, Schedule): the waiter enters the
\* ready list at the front and runs next, the preempted process at the tail.
Wake ==
    /\ input_waiter # Null
    /\ input_waiter' = Null
    /\ Dequeue(Requeue(<<input_waiter>> \o ready))
    /\ state' = [p \in Pids |->
                    IF p \in {current, input_waiter} THEN "READY" ELSE state[p]]
    /\ UNCHANGED <<zombies, parent_pid, next_pid>>

\* Mutant: schedule puts the exiting process back into the ready list.
ExitCurrent_Requeues ==
    /\ current \notin {Null, 1}
    /\ ready # <<>>
    /\ zombies' = <<current>> \o zombies
    /\ state' = [state EXCEPT ![current] = "EXITED"]
    /\ Dequeue(Requeue(ready))
    /\ UNCHANGED <<input_waiter, parent_pid, next_pid>>

\* exit_current past its shutdown test, then schedule(frame, ExitSchedule).
ExitCurrent ==
    /\ current \notin {Null, 1}
    /\ ready # <<>>
    /\ zombies' = <<current>> \o zombies
    /\ state' = [state EXCEPT ![current] = "EXITED"]
    /\ Dequeue(ready)
    /\ UNCHANGED <<input_waiter, parent_pid, next_pid>>

\* A process is built and enqueued: fork, and spawn_process to its end.
Spawn ==
    /\ next_pid <= MaxPid
    /\ next_pid' = next_pid + 1
    /\ state' = [state EXCEPT ![next_pid] = "READY"]
    /\ parent_pid' = [parent_pid EXCEPT ![next_pid] = current]
    /\ ready' = Append(ready, next_pid)
    /\ UNCHANGED <<current, zombies, input_waiter>>

\* spawn_process gives up after tasks.build: the pid is spent and nothing
\* points to the control block any more.
SpawnAbandoned ==
    /\ next_pid <= MaxPid
    /\ next_pid' = next_pid + 1
    /\ UNCHANGED <<current, ready, zombies, input_waiter, state, parent_pid>>

\* Mutant: only the head of the zombie list can be unlinked.
Reap_HeadOnly(S) ==
    /\ zombies # <<>>
    /\ Head(zombies) \in S
    /\ zombies' = Tail(zombies)
    /\ UNCHANGED <<current, ready, input_waiter, state, parent_pid, next_pid>>

\* find_zombie_pid / find_zombie_child then remove_zombie.
Reap(S) ==
    /\ \E i \in 1..Len(zombies) :
          IsFirst(zombies, i, S) /\ zombies' = RemoveAt(zombies, i)
    /\ UNCHANGED <<current, ready, input_waiter, state, parent_pid, next_pid>>

\* Mutant: the killed process is marked but stays in the ready list.
Kill_StaysQueued(S) ==
    /\ \E i \in 1..Len(ready) :
          /\ IsFirst(ready, i, S)
          /\ state' = [state EXCEPT ![ready[i]] = "EXITED"]
    /\ UNCHANGED <<current, ready, zombies, input_waiter, parent_pid, next_pid>>

\* kill_ready: remove_ready of the first match, which is marked EXITED and
\* not made a zombie.
Kill(S) ==
    /\ \E i \in 1..Len(ready) :
          /\ IsFirst(ready, i, S)
          /\ ready' = RemoveAt(ready, i)
          /\ state' = [state EXCEPT ![ready[i]] = "EXITED"]
    /\ UNCHANGED <<current, zombies, input_waiter, parent_pid, next_pid>>

SchedNext ==
    \/ Switch
    \/ Block
    \/ BlockDeclined
    \/ Wake
    \/ ExitCurrent
    \/ Spawn
    \/ SpawnAbandoned
    \/ \E p \in Pids : Reap({p}) \/ Reap(Children(p))
    \/ \E p \in Pids : Kill({p}) \/ Kill(Children(p))

SchedSpec == SchedInit /\ [][SchedNext]_schedVars

-----------------------------------------------------------------------------
(* Properties.                                                             *)

NoRepeats(s) == \A i, j \in 1..Len(s) : s[i] = s[j] => i = j

(* Every control block has one home.  Ready and zombie lists share the one
   link field pcb.next, so a block on two lists, or twice on one, would splice
   them: no list repeats a block, exactly the running process and the ready
   list are READY, zombies are EXITED, the input waiter is BLOCKED. *)
OneHome ==
    /\ NoRepeats(ready)
    /\ NoRepeats(zombies)
    /\ current \notin Ready
    /\ \A p \in Pids : state[p] = "READY" <=> p = current \/ p \in Ready
    /\ \A p \in Zombies : state[p] = "EXITED"
    /\ input_waiter # Null => state[input_waiter] = "BLOCKED"

(* The process tree is a tree: the pid of a process is above its parent's, and
   pids not handed out yet are unused. *)
ParentsOlder ==
    /\ \A p \in Pids : parent_pid[p] < p
    /\ \A p \in Pids : p >= next_pid => state[p] = "NONE" /\ parent_pid[p] = Null

(* Round robin without overtaking: no step of any process or device moves a
   ready process further from the head of the ready list.  The wake-up, which
   enters its process at the front, is the step that could. *)
OvertakesNobody ==
    \A i \in 1..Len(ready), j \in 1..Len(ready') :
        ready[i] = ready'[j] => j <= i
NoOvertaking == [][OvertakesNobody]_schedVars

(* A process that exited, was killed or was reaped never comes back: it is not
   made ready again, and a reaped one is not found by a second wait. *)
RevivesNobody ==
    \A p \in Pids : state[p] = "EXITED" =>
        /\ state'[p] = "EXITED"
        /\ p \in ToSet(zombies') => p \in Zombies
DeadStaysDead == [][RevivesNobody]_schedVars
=============================================================================
