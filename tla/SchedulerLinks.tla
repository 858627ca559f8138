---------------------------- MODULE SchedulerLinks ----------------------------
(***************************************************************************)
(* The scheduler as scheduler.hll stores it: the ready and the zombie list *)
(* are threaded through the single field pcb.next of the control blocks,   *)
(* and only their heads are kept.  A block that leaves a list by kill or   *)
(* by a wait keeps whatever its link pointed to.                           *)
(*                                                                         *)
(* The transitions are those of module Scheduler, each with the pointer    *)
(* assignments in the order of the code.  Refinement: the lists read off   *)
(* the links behave as the sequences of Scheduler.                         *)
(***************************************************************************)
EXTENDS Integers, Sequences, SequencesExt

CONSTANT MaxPid     \* as in Scheduler

ASSUME MaxPidAssumption == MaxPid \in Nat \ {0}

VARIABLES
    current, input_waiter, state, parent_pid, next_pid,  \* as in Scheduler
    ready_head,     \* scheduler_state.ready
    zombies_head,   \* scheduler_state.zombies
    next            \* pcb.next of every pid

vars == <<current, input_waiter, state, parent_pid, next_pid,
          ready_head, zombies_head, next>>

Pids == 1..MaxPid
Null == 0

-----------------------------------------------------------------------------
(* Lists threaded through links nx.                                        *)

\* Where a walk from head h stands after k steps.
Walk(nx, h) ==
    LET at[k \in 0..MaxPid] ==
            IF k = 0 THEN h ELSE IF at[k - 1] = Null THEN Null ELSE nx[at[k - 1]]
    IN  at

\* The number of blocks a walk visits; one longer than MaxPid is a cycle, cut
\* off after MaxPid + 1 blocks.
Visited(at) ==
    CHOOSE n \in 0..(MaxPid + 1) :
        /\ \A k \in 0..(n - 1) : at[k] # Null
        /\ n <= MaxPid => at[n] = Null

\* The blocks of the list with head h, in order.
List(nx, h) ==
    LET at == Walk(nx, h) IN [k \in 1..Visited(at) |-> at[k - 1]]

\* A list head together with the links: what the list operations update.
Links(h, nx) == [head |-> h, next |-> nx]

\* scheduler_add.  The link of p is cleared before the walk to the tail.
AddTail(l, p) ==
    LET cleared == [l.next EXCEPT ![p] = Null]
        walk == List(cleared, l.head)
    IN  IF l.head = Null
        THEN Links(p, cleared)
        ELSE Links(l.head, [cleared EXCEPT ![Last(walk)] = p])

\* Mutant: the old head is not linked behind the new one.
AddFront_DropsTail(l, p) == Links(p, [l.next EXCEPT ![p] = Null])

\* The push at the front in wake_input_waiter and make_zombie.
AddFront(l, p) == Links(p, [l.next EXCEPT ![p] = l.head])

\* The dequeue in schedule.
PopFront(l) == Links(l.next[l.head], [l.next EXCEPT ![l.head] = Null])

\* remove_ready and remove_zombie: the predecessor skips the block at
\* position i, whose own link stays.
Unlink(l, i) ==
    LET walk == List(l.next, l.head)
    IN  IF i = 1
        THEN Links(l.next[l.head], l.next)
        ELSE Links(l.head, [l.next EXCEPT ![walk[i - 1]] = l.next[walk[i]]])

-----------------------------------------------------------------------------
(* Transitions.                                                            *)

Init ==
    /\ current = Null
    /\ input_waiter = Null
    /\ state = [p \in Pids |-> IF p = 1 THEN "READY" ELSE "NONE"]
    /\ parent_pid = [p \in Pids |-> Null]
    /\ next_pid = 2
    /\ ready_head = 1
    /\ zombies_head = Null
    /\ next = [p \in Pids |-> Null]

ReadyLinks == Links(ready_head, next)
Requeue(l) == IF current = Null THEN l ELSE AddTail(l, current)

Dequeue(l) ==
    IF l.head = Null
    THEN ready_head' = l.head /\ next' = l.next /\ UNCHANGED current
    ELSE /\ current' = l.head
         /\ ready_head' = PopFront(l).head
         /\ next' = PopFront(l).next

Switch ==
    /\ Dequeue(Requeue(ReadyLinks))
    /\ state' = [p \in Pids |-> IF p = current THEN "READY" ELSE state[p]]
    /\ UNCHANGED <<input_waiter, parent_pid, next_pid, zombies_head>>

Block ==
    /\ current # Null
    /\ ready_head # Null
    /\ input_waiter' = current
    /\ state' = [state EXCEPT ![current] = "BLOCKED"]
    /\ Dequeue(ReadyLinks)
    /\ UNCHANGED <<parent_pid, next_pid, zombies_head>>

BlockDeclined ==
    /\ current # Null
    /\ ready_head = Null
    /\ input_waiter' = Null
    /\ UNCHANGED <<current, state, parent_pid, next_pid, ready_head, zombies_head, next>>

Wake ==
    /\ input_waiter # Null
    /\ input_waiter' = Null
    /\ Dequeue(Requeue(AddFront(ReadyLinks, input_waiter)))
    /\ state' = [p \in Pids |->
                    IF p \in {current, input_waiter} THEN "READY" ELSE state[p]]
    /\ UNCHANGED <<parent_pid, next_pid, zombies_head>>

ExitCurrent ==
    /\ current \notin {Null, 1}
    /\ ready_head # Null
    /\ LET z == AddFront(Links(zombies_head, next), current)
       IN  zombies_head' = z.head /\ Dequeue(Links(ready_head, z.next))
    /\ state' = [state EXCEPT ![current] = "EXITED"]
    /\ UNCHANGED <<input_waiter, parent_pid, next_pid>>

Spawn ==
    /\ next_pid <= MaxPid
    /\ next_pid' = next_pid + 1
    /\ state' = [state EXCEPT ![next_pid] = "READY"]
    /\ parent_pid' = [parent_pid EXCEPT ![next_pid] = current]
    /\ LET l == AddTail(ReadyLinks, next_pid)
       IN  ready_head' = l.head /\ next' = l.next
    /\ UNCHANGED <<current, input_waiter, zombies_head>>

IsFirst(s, i, S) == s[i] \in S /\ \A j \in 1..(i - 1) : s[j] \notin S
Children(p) == {c \in Pids : parent_pid[c] = p}

Reap(S) ==
    /\ \E i \in DOMAIN List(next, zombies_head) :
          /\ IsFirst(List(next, zombies_head), i, S)
          /\ LET l == Unlink(Links(zombies_head, next), i)
             IN  zombies_head' = l.head /\ next' = l.next
    /\ UNCHANGED <<current, input_waiter, state, parent_pid, next_pid, ready_head>>

Kill(S) ==
    /\ \E i \in DOMAIN List(next, ready_head) :
          /\ IsFirst(List(next, ready_head), i, S)
          /\ state' = [state EXCEPT ![List(next, ready_head)[i]] = "EXITED"]
          /\ LET l == Unlink(ReadyLinks, i)
             IN  ready_head' = l.head /\ next' = l.next
    /\ UNCHANGED <<current, input_waiter, parent_pid, next_pid, zombies_head>>

Next ==
    \/ Switch
    \/ Block
    \/ BlockDeclined
    \/ Wake
    \/ ExitCurrent
    \/ Spawn
    \/ \E p \in Pids : Reap({p}) \/ Reap(Children(p))
    \/ \E p \in Pids : Kill({p}) \/ Kill(Children(p))

Spec == Init /\ [][Next]_vars

-----------------------------------------------------------------------------
(* Properties.                                                             *)

Abstract == INSTANCE Scheduler WITH
    ready <- List(next, ready_head), zombies <- List(next, zombies_head)

(* The linked lists implement the sequences: every pointer-level transition is
   the scheduler transition it stands for. *)
ImplementsScheduler == Abstract!SchedSpec
=============================================================================
