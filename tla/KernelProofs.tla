----------------------------- MODULE KernelProofs -----------------------------
(***************************************************************************)
(* Proofs about the scheduler and the kernel for every number of           *)
(* processes, every console alphabet and every set of user programs.  The  *)
(* scheduler: its queues give every control block one home, no step        *)
(* overtakes a ready process, and the dead stay dead.  The kernel          *)
(* implements the scheduler, no wake-up is lost, the framebuffer is owned  *)
(* by the living, and with one console reader pidalive and the waits tell  *)
(* the truth.                                                              *)
(***************************************************************************)
EXTENDS Kernel, SequenceTheorems, FiniteSetTheorems, TLAPS

-----------------------------------------------------------------------------
(* What the sequence operators do to the elements of a queue.              *)

(* RemoveAt, the unlinking of a list element, closes the gap it leaves. *)
LEMMA RemoveAtFacts ==
    ASSUME NEW S, NEW s \in Seq(S), NEW i \in 1..Len(s)
    PROVE  /\ RemoveAt(s, i) \in Seq(S)
           /\ Len(RemoveAt(s, i)) = Len(s) - 1
           /\ \A j \in 1..(Len(s) - 1) :
                RemoveAt(s, i)[j] = IF j < i THEN s[j] ELSE s[j + 1]
<1> DEFINE a == SubSeq(s, 1, i - 1)
           b == SubSeq(s, i + 1, Len(s))
<1>1. /\ a \in Seq(S)
      /\ Len(a) = i - 1
      /\ \A j \in 1..(i - 1) : a[j] = s[j]
  BY SubSeqProperties
<1>2. /\ b \in Seq(S)
      /\ Len(b) = Len(s) - i
      /\ \A j \in 1..(Len(s) - i) : b[j] = s[i + j]
  BY SubSeqProperties
<1>3. RemoveAt(s, i) = a \o b
  BY DEF RemoveAt
<1> HIDE DEF a, b
<1>4. /\ a \o b \in Seq(S)
      /\ Len(a \o b) = Len(a) + Len(b)
      /\ \A j \in 1..(Len(a) + Len(b)) :
            (a \o b)[j] = IF j <= Len(a) THEN a[j] ELSE b[j - Len(a)]
  BY <1>1, <1>2, ConcatProperties
<1> QED
  BY <1>1, <1>2, <1>3, <1>4

(* The elements of a sequence are the values at 1..Len: the form in which the
   other lemmas use ToSet. *)
LEMMA ToSetDef ==
    ASSUME NEW S, NEW s \in Seq(S)
    PROVE  ToSet(s) = {s[i] : i \in 1..Len(s)}
BY DEF ToSet

(* Unlinking an element of a list without repeats removes exactly it. *)
LEMMA RemoveAtSet ==
    ASSUME NEW S, NEW s \in Seq(S), NEW i \in 1..Len(s), NoRepeats(s)
    PROVE  /\ RemoveAt(s, i) \in Seq(S)
           /\ NoRepeats(RemoveAt(s, i))
           /\ ToSet(RemoveAt(s, i)) = ToSet(s) \ {s[i]}
<1> DEFINE r == RemoveAt(s, i)
<1>1. /\ r \in Seq(S)
      /\ Len(r) = Len(s) - 1
      /\ \A j \in 1..(Len(s) - 1) : r[j] = IF j < i THEN s[j] ELSE s[j + 1]
  BY RemoveAtFacts
<1> HIDE DEF r
<1>2. NoRepeats(r)
  BY <1>1 DEF NoRepeats
<1>3. ToSet(s) = {s[j] : j \in 1..Len(s)} /\ ToSet(r) = {r[j] : j \in 1..Len(r)}
  BY <1>1, ToSetDef
<1>4. ASSUME NEW x \in ToSet(r) PROVE x \in ToSet(s) \ {s[i]}
  BY <1>1, <1>3, <1>4 DEF NoRepeats
<1>5. ASSUME NEW x \in ToSet(s) \ {s[i]} PROVE x \in ToSet(r)
  <2>1. PICK j \in 1..Len(s) : x = s[j] /\ j # i
    BY <1>3, <1>5
  <2>2. CASE j < i
    BY <1>1, <1>3, <2>1, <2>2
  <2>3. CASE j > i
    <3>1. j - 1 \in 1..Len(r) /\ r[j - 1] = s[j]
      BY <1>1, <2>1, <2>3
    <3> QED BY <1>3, <2>1, <3>1
  <2> QED BY <2>1, <2>2, <2>3
<1> QED BY <1>1, <1>2, <1>4, <1>5 DEF r

(* Appending a new element to a list. *)
LEMMA AppendSet ==
    ASSUME NEW S, NEW s \in Seq(S), NEW e \in S
    PROVE  /\ Append(s, e) \in Seq(S)
           /\ Append(s, e) # <<>>
           /\ ToSet(Append(s, e)) = ToSet(s) \cup {e}
           /\ NoRepeats(s) /\ e \notin ToSet(s) => NoRepeats(Append(s, e))
<1>1. /\ Append(s, e) \in Seq(S)
      /\ Len(Append(s, e)) = Len(s) + 1
      /\ \A i \in 1..Len(s) : Append(s, e)[i] = s[i]
      /\ Append(s, e)[Len(s) + 1] = e
  BY AppendProperties
<1>2. /\ ToSet(s) = {s[j] : j \in 1..Len(s)}
      /\ ToSet(Append(s, e)) = {Append(s, e)[j] : j \in 1..(Len(s) + 1)}
  BY <1>1, ToSetDef
<1>3. ToSet(Append(s, e)) \subseteq ToSet(s) \cup {e}
  BY <1>1, <1>2
<1>4. ToSet(s) \cup {e} \subseteq ToSet(Append(s, e))
  BY <1>1, <1>2
<1>5. NoRepeats(s) /\ e \notin ToSet(s) => NoRepeats(Append(s, e))
  BY <1>1, <1>2 DEF NoRepeats
<1> QED BY <1>1, <1>3, <1>4, <1>5

(* Entering an element at the head of a list. *)
LEMMA ConsSet ==
    ASSUME NEW S, NEW s \in Seq(S), NEW e \in S
    PROVE  /\ <<e>> \o s \in Seq(S)
           /\ <<e>> \o s # <<>>
           /\ Len(<<e>> \o s) = Len(s) + 1
           /\ (<<e>> \o s)[1] = e
           /\ \A i \in 1..Len(s) : (<<e>> \o s)[i + 1] = s[i]
           /\ ToSet(<<e>> \o s) = ToSet(s) \cup {e}
           /\ NoRepeats(s) /\ e \notin ToSet(s) => NoRepeats(<<e>> \o s)
<1> DEFINE c == <<e>> \o s
<1>1. /\ c \in Seq(S)
      /\ Len(c) = Len(s) + 1
      /\ c[1] = e
      /\ \A i \in 1..Len(s) : c[i + 1] = s[i]
  <2>1. <<e>> \in Seq(S) /\ Len(<<e>>) = 1 /\ <<e>>[1] = e
    OBVIOUS
  <2>2. /\ c \in Seq(S)
        /\ Len(c) = 1 + Len(s)
        /\ \A i \in 1..(1 + Len(s)) : c[i] = IF i <= 1 THEN <<e>>[i] ELSE s[i - 1]
    BY <2>1, ConcatProperties
  <2> QED BY <2>1, <2>2
<1> HIDE DEF c
<1>2. /\ ToSet(s) = {s[j] : j \in 1..Len(s)}
      /\ ToSet(c) = {c[j] : j \in 1..(Len(s) + 1)}
  <2>1. c \in Seq(S) /\ Len(c) = Len(s) + 1
    BY <1>1
  <2>2. ToSet(c) = {c[j] : j \in 1..Len(c)}
    BY ONLY <2>1, ToSetDef
  <2>3. ToSet(s) = {s[j] : j \in 1..Len(s)}
    BY ToSetDef
  <2> QED BY <2>1, <2>2, <2>3
<1>3. ASSUME NEW x \in ToSet(c) PROVE x \in ToSet(s) \cup {e}
  <2>1. PICK j \in 1..(Len(s) + 1) : x = c[j]
    BY <1>2, <1>3
  <2>2. CASE j = 1
    BY <1>1, <2>1, <2>2
  <2>3. CASE j > 1
    <3>1. j - 1 \in 1..Len(s) /\ c[(j - 1) + 1] = s[j - 1]
      BY <1>1, <2>1, <2>3
    <3> QED BY <1>2, <2>1, <3>1
  <2> QED BY <2>1, <2>2, <2>3
<1>4. ToSet(s) \cup {e} \subseteq ToSet(c)
  BY <1>1, <1>2
<1>5. ASSUME NoRepeats(s), e \notin ToSet(s),
             NEW i \in 1..Len(c), NEW j \in 1..Len(c), c[i] = c[j], i < j
      PROVE  FALSE
  <2>1. j - 1 \in 1..Len(s) /\ c[j] = s[j - 1]
    BY <1>1, <1>5
  <2>2. CASE i = 1
    BY <1>1, <1>2, <1>5, <2>1, <2>2
  <2>3. CASE i > 1
    <3>1. i - 1 \in 1..Len(s) /\ c[i] = s[i - 1]
      BY <1>1, <1>5, <2>3
    <3> QED BY <1>5, <2>1, <3>1 DEF NoRepeats
  <2> QED BY <1>5, <2>2, <2>3
<1>6. NoRepeats(s) /\ e \notin ToSet(s) => NoRepeats(c)
  <2> SUFFICES ASSUME NoRepeats(s), e \notin ToSet(s),
                      NEW i \in 1..Len(c), NEW j \in 1..Len(c), c[i] = c[j]
               PROVE  i = j
    BY Zenon DEF NoRepeats
  <2>1. ~(i < j) /\ ~(j < i)
    BY Zenon, <1>5
  <2> QED BY ONLY <2>1, i \in 1..Len(c), j \in 1..Len(c)
<1>7. c # <<>>
  BY <1>1
<1> QED BY <1>1, <1>3, <1>4, <1>6, <1>7 DEF c

(* Taking the head off a list without repeats. *)
LEMMA TailSet ==
    ASSUME NEW S, NEW s \in Seq(S), s # <<>>
    PROVE  /\ Head(s) \in S
           /\ Head(s) = s[1]
           /\ Head(s) \in ToSet(s)
           /\ Tail(s) \in Seq(S)
           /\ Len(Tail(s)) = Len(s) - 1
           /\ \A i \in 1..(Len(s) - 1) : Tail(s)[i] = s[i + 1]
           /\ NoRepeats(s) => /\ NoRepeats(Tail(s))
                              /\ ToSet(Tail(s)) = ToSet(s) \ {Head(s)}
<1> DEFINE t == Tail(s)
<1>1. /\ Head(s) \in S
      /\ t \in Seq(S)
      /\ Len(t) = Len(s) - 1
      /\ \A i \in 1..(Len(s) - 1) : t[i] = s[i + 1]
  BY HeadTailProperties
<1>2. Len(s) \in Nat \ {0} /\ Head(s) = s[1]
  OBVIOUS
<1>3. /\ ToSet(s) = {s[j] : j \in 1..Len(s)}
      /\ ToSet(t) = {t[j] : j \in 1..(Len(s) - 1)}
  BY <1>1, ToSetDef
<1> HIDE DEF t
<1>4. ASSUME NoRepeats(s) PROVE NoRepeats(t)
  BY <1>1, <1>2, <1>4 DEF NoRepeats
<1>5. ASSUME NoRepeats(s), NEW x \in ToSet(t) PROVE x \in ToSet(s) \ {Head(s)}
  BY <1>1, <1>2, <1>3, <1>5 DEF NoRepeats
<1>6. ASSUME NEW x \in ToSet(s) \ {Head(s)} PROVE x \in ToSet(t)
  <2>1. PICK j \in 1..Len(s) : x = s[j] /\ j # 1
    BY <1>2, <1>3, <1>6
  <2>2. j - 1 \in 1..(Len(s) - 1) /\ t[j - 1] = s[j]
    BY <1>1, <1>2, <2>1
  <2> QED BY <1>3, <2>1, <2>2
<1> QED BY <1>1, <1>2, <1>3, <1>4, <1>5, <1>6 DEF t

-----------------------------------------------------------------------------
(* The inductive invariant: the queues and the states agree, and a control
   block in use has a pid that was handed out. *)
SchedInv == SchedTypeOK /\ OneHome /\ ParentsOlder

(* The dequeue at the end of schedule: the head of the queue becomes current
   and leaves the queue, nothing else moves. *)
LEMMA DequeueFacts ==
    ASSUME NEW q \in Seq(Pids), q # <<>>, NoRepeats(q), Dequeue(q)
    PROVE  /\ current' \in Pids
           /\ ready' \in Seq(Pids)
           /\ NoRepeats(ready')
           /\ current' \in ToSet(q)
           /\ ToSet(ready') = ToSet(q) \ {current'}
<1>1. ready' = Tail(q) /\ current' = Head(q)
  BY DEF Dequeue
<1> QED BY <1>1, TailSet

(* Putting the running process, if any, at the tail of a queue it is not in. *)
LEMMA RequeueFacts ==
    ASSUME NEW q \in Seq(Pids), NoRepeats(q), current \in Pids \cup {Null},
           current \notin ToSet(q)
    PROVE  /\ Requeue(q) \in Seq(Pids)
           /\ NoRepeats(Requeue(q))
           /\ ToSet(Requeue(q)) = ToSet(q) \cup ({current} \ {Null})
           /\ current # Null => Requeue(q) # <<>>
           /\ q # <<>> => Requeue(q) # <<>>
<1>1. CASE current = Null
  BY <1>1 DEF Requeue
<1>2. CASE current # Null
  <2>1. current \in Pids /\ Requeue(q) = Append(q, current)
    BY <1>2 DEF Requeue
  <2> QED BY <1>2, <2>1, AppendSet
<1> QED BY <1>1, <1>2

(* Initially only pid 1 exists, and it is ready. *)
LEMMA SchedInitInv == SchedInit => SchedInv
<1> SUFFICES ASSUME SchedInit PROVE SchedInv
  OBVIOUS
<1>1. 1 \in Pids /\ <<1>> \in Seq(Pids) /\ Len(<<1>>) = 1 /\ <<1>>[1] = 1
  BY MaxPidAssumption DEF Pids
<1>2. ToSet(<<1>>) = {1} /\ NoRepeats(<<1>>)
  <2>1. 1..Len(<<1>>) = {1}
    BY <1>1
  <2>2. ToSet(<<1>>) = {<<1>>[i] : i \in {1}}
    BY <1>1, <2>1, ToSetDef
  <2> QED BY <1>1, <2>1, <2>2 DEF NoRepeats
<1>3. <<>> \in Seq(Pids) /\ ToSet(<<>>) = {} /\ NoRepeats(<<>>)
  BY DEF ToSet, NoRepeats
<1>4. SchedTypeOK
  BY <1>1, <1>3, MaxPidAssumption DEF SchedInit, SchedTypeOK, ProcStates, Pids, Null
<1>5. OneHome
  BY <1>1, <1>2, <1>3 DEF SchedInit, OneHome, Ready, Zombies, Pids, Null
<1>6. ParentsOlder
  BY <1>1 DEF SchedInit, ParentsOlder, Pids, Null
<1> QED BY <1>4, <1>5, <1>6 DEF SchedInv

(* A dequeue from a queue of the READY processes other than the running one
   keeps the READY processes and the queue in agreement. *)
LEMMA DequeueInv ==
    ASSUME NEW q \in Seq(Pids), q # <<>>, NoRepeats(q), Dequeue(q),
           NEW st, \A p \in Pids : st[p] = "READY" <=> p \in ToSet(q)
    PROVE  /\ current' \in Pids
           /\ ready' \in Seq(Pids)
           /\ NoRepeats(ready')
           /\ current' \notin ToSet(ready')
           /\ \A p \in Pids : st[p] = "READY" <=> p = current' \/ p \in ToSet(ready')
BY DequeueFacts

(* schedule(frame, Schedule). *)
LEMMA SwitchInv == SchedInv /\ Switch => SchedInv'
<1> SUFFICES ASSUME SchedInv, Switch PROVE SchedInv'
  OBVIOUS
<1> USE DEF SchedInv
<1> DEFINE q == Requeue(ready)
<1>1. /\ q \in Seq(Pids) /\ NoRepeats(q)
      /\ ToSet(q) = ToSet(ready) \cup ({current} \ {Null})
  BY RequeueFacts DEF SchedTypeOK, OneHome, Ready
<1>2. \A p \in Pids : state'[p] = "READY" <=> p \in ToSet(q)
  BY <1>1 DEF Switch, SchedTypeOK, OneHome, Ready, Pids, Null
<1>3. Dequeue(q)
  BY DEF Switch
<1> HIDE DEF q
<1>4. /\ current' \in Pids \cup {Null}
      /\ ready' \in Seq(Pids)
      /\ NoRepeats(ready')
      /\ current' \notin ToSet(ready')
      /\ \A p \in Pids : state'[p] = "READY" <=> p = current' \/ p \in ToSet(ready')
  <2>1. CASE q # <<>>
    BY <1>1, <1>2, <1>3, <2>1, DequeueInv
  <2>2. CASE q = <<>>
    <3>1. ready' = q /\ current' = current
      BY <1>3, <2>2 DEF Dequeue
    <3>2. ToSet(q) = {}
      BY <2>2 DEF ToSet
    <3>3. current = Null
      BY <1>1, <3>2
    <3> QED BY <1>1, <1>2, <3>1, <3>2, <3>3 DEF Pids, Null
  <2> QED BY <2>1, <2>2
<1>5. state' \in [Pids -> ProcStates]
  BY DEF Switch, SchedTypeOK, ProcStates
<1>6. SchedTypeOK'
  BY <1>4, <1>5 DEF Switch, SchedTypeOK
<1>7. \A p \in Pids : state[p] \in {"EXITED", "BLOCKED"} => state'[p] = state[p]
  BY DEF Switch, OneHome, Ready, SchedTypeOK
<1>8. ToSet(zombies) \subseteq Pids
  BY ToSetDef DEF SchedTypeOK
<1>9. OneHome'
  BY <1>4, <1>7, <1>8 DEF Switch, OneHome, Ready, Zombies, SchedTypeOK
<1>10. ParentsOlder'
  BY DEF Switch, OneHome, ParentsOlder
<1> QED BY <1>6, <1>9, <1>10

(* block_on_input and schedule(frame, Block). *)
LEMMA BlockInv == SchedInv /\ Block => SchedInv'
<1> SUFFICES ASSUME SchedInv, Block PROVE SchedInv'
  OBVIOUS
<1> USE DEF SchedInv
<1>1. /\ current \in Pids /\ ready \in Seq(Pids) /\ ready # <<>>
      /\ NoRepeats(ready) /\ Dequeue(ready)
      /\ state' = [state EXCEPT ![current] = "BLOCKED"]
  BY DEF Block, SchedTypeOK, OneHome
<1>2. \A p \in Pids : state'[p] = "READY" <=> p \in ToSet(ready)
  BY <1>1 DEF SchedTypeOK, OneHome, Ready
<1>3. /\ current' \in Pids
      /\ ready' \in Seq(Pids)
      /\ NoRepeats(ready')
      /\ current' \notin ToSet(ready')
      /\ \A p \in Pids : state'[p] = "READY" <=> p = current' \/ p \in ToSet(ready')
  BY <1>1, <1>2, DequeueInv
<1>4. SchedTypeOK'
  BY <1>1, <1>3 DEF Block, SchedTypeOK, ProcStates
<1>5. ToSet(zombies) \subseteq Pids
  BY ToSetDef DEF SchedTypeOK
<1>6. OneHome'
  BY <1>1, <1>3, <1>5 DEF Block, OneHome, Ready, Zombies, SchedTypeOK
<1>7. ParentsOlder'
  BY <1>1 DEF Block, OneHome, ParentsOlder, SchedTypeOK
<1> QED BY <1>4, <1>6, <1>7

(* A declined block only clears the waiter slot. *)
LEMMA BlockDeclinedInv == SchedInv /\ BlockDeclined => SchedInv'
BY DEF SchedInv, BlockDeclined, SchedTypeOK, OneHome, ParentsOlder, Ready, Zombies

(* wake_input_waiter and schedule(frame, Schedule). *)
LEMMA WakeInv == SchedInv /\ Wake => SchedInv'
<1> SUFFICES ASSUME SchedInv, Wake PROVE SchedInv'
  OBVIOUS
<1> USE DEF SchedInv
<1> DEFINE w == <<input_waiter>> \o ready
           q == Requeue(w)
<1>1. /\ input_waiter \in Pids /\ input_waiter \notin ToSet(ready)
      /\ input_waiter # current /\ ready \in Seq(Pids) /\ NoRepeats(ready)
      /\ current \in Pids \cup {Null} /\ current \notin ToSet(ready)
  BY DEF Wake, SchedTypeOK, OneHome, Ready
<1>2. w \in Seq(Pids) /\ NoRepeats(w) /\ ToSet(w) = ToSet(ready) \cup {input_waiter}
      /\ w # <<>>
  BY <1>1, ConsSet
<1>3. Dequeue(q)
  BY DEF Wake
<1> HIDE DEF w
<1>4. /\ q \in Seq(Pids) /\ NoRepeats(q) /\ q # <<>>
      /\ ToSet(q) = ToSet(ready) \cup {input_waiter} \cup ({current} \ {Null})
  BY <1>1, <1>2, RequeueFacts
<1> HIDE DEF q
<1>5. state' = [p \in Pids |->
                    IF p \in {current, input_waiter} THEN "READY" ELSE state[p]]
  BY DEF Wake
<1>6. \A p \in Pids : state'[p] = "READY" <=> p \in ToSet(q)
  BY <1>4, <1>5 DEF OneHome, Ready, Pids, Null
<1>7. /\ current' \in Pids
      /\ ready' \in Seq(Pids)
      /\ NoRepeats(ready')
      /\ current' \notin ToSet(ready')
      /\ \A p \in Pids : state'[p] = "READY" <=> p = current' \/ p \in ToSet(ready')
  BY <1>3, <1>4, <1>6, DequeueInv
<1>8. SchedTypeOK'
  BY <1>5, <1>7 DEF Wake, SchedTypeOK, ProcStates
<1>9. ToSet(zombies) \subseteq Pids
  BY ToSetDef DEF SchedTypeOK
<1>10. \A p \in Pids : state[p] = "EXITED" => state'[p] = "EXITED"
  BY <1>1, <1>5 DEF Wake, OneHome, SchedTypeOK
<1>11. OneHome'
  BY <1>7, <1>9, <1>10 DEF Wake, OneHome, Ready, Zombies, SchedTypeOK
<1>12. ParentsOlder'
  BY <1>5 DEF Wake, OneHome, ParentsOlder, SchedTypeOK
<1> QED BY <1>8, <1>11, <1>12

(* exit_current and schedule(frame, ExitSchedule). *)
LEMMA ExitCurrentInv == SchedInv /\ ExitCurrent => SchedInv'
<1> SUFFICES ASSUME SchedInv, ExitCurrent PROVE SchedInv'
  OBVIOUS
<1> USE DEF SchedInv
<1>1. /\ current \in Pids /\ ready \in Seq(Pids) /\ ready # <<>>
      /\ NoRepeats(ready) /\ Dequeue(ready)
      /\ zombies \in Seq(Pids) /\ NoRepeats(zombies)
      /\ state' = [state EXCEPT ![current] = "EXITED"]
      /\ zombies' = <<current>> \o zombies
  BY DEF ExitCurrent, SchedTypeOK, OneHome
<1>2. \A p \in Pids : state'[p] = "READY" <=> p \in ToSet(ready)
  BY <1>1 DEF SchedTypeOK, OneHome, Ready
<1>3. /\ current' \in Pids
      /\ ready' \in Seq(Pids)
      /\ NoRepeats(ready')
      /\ current' \notin ToSet(ready')
      /\ \A p \in Pids : state'[p] = "READY" <=> p = current' \/ p \in ToSet(ready')
  BY <1>1, <1>2, DequeueInv
<1>4. ToSet(zombies) \subseteq Pids
  BY ToSetDef DEF SchedTypeOK
<1>5. current \notin ToSet(zombies)
  BY <1>1, <1>4 DEF OneHome, Zombies
<1>6. /\ zombies' \in Seq(Pids) /\ NoRepeats(zombies')
      /\ ToSet(zombies') = ToSet(zombies) \cup {current}
  BY <1>1, <1>5, ConsSet
<1>7. SchedTypeOK'
  BY <1>1, <1>3, <1>6 DEF ExitCurrent, SchedTypeOK, ProcStates
<1>8. OneHome'
  BY <1>1, <1>3, <1>4, <1>6 DEF ExitCurrent, OneHome, Ready, Zombies, SchedTypeOK
<1>9. ParentsOlder'
  BY <1>1 DEF ExitCurrent, OneHome, ParentsOlder, SchedTypeOK
<1> QED BY <1>7, <1>8, <1>9

(* The next pid is in nobody's use. *)
LEMMA FreshPid ==
    ASSUME SchedInv, Spawn
    PROVE  /\ next_pid \in Pids /\ ready \in Seq(Pids) /\ NoRepeats(ready)
           /\ state[next_pid] = "NONE" /\ next_pid \notin ToSet(ready)
           /\ next_pid # current
BY MaxPidAssumption DEF SchedInv, Spawn, SchedTypeOK, OneHome, ParentsOlder, Pids, Ready

(* A process is created at the tail of the ready list, under a pid no list
   holds. *)
LEMMA SpawnInv == SchedInv /\ Spawn => SchedInv'
<1> SUFFICES ASSUME SchedInv, Spawn PROVE SchedInv'
  OBVIOUS
<1> USE DEF SchedInv
<1>1. /\ next_pid \in Pids /\ ready \in Seq(Pids) /\ NoRepeats(ready)
      /\ state[next_pid] = "NONE" /\ next_pid \notin ToSet(ready)
      /\ next_pid # current
  BY FreshPid
<1>2. /\ ready' \in Seq(Pids) /\ NoRepeats(ready')
      /\ ToSet(ready') = ToSet(ready) \cup {next_pid}
  BY <1>1, AppendSet DEF Spawn
<1>3. SchedTypeOK'
  BY <1>1, <1>2, MaxPidAssumption DEF Spawn, SchedTypeOK, ProcStates, Pids
<1>4. ToSet(zombies) \subseteq Pids
  BY ToSetDef DEF SchedTypeOK
<1>5. OneHome'
  BY <1>1, <1>2, <1>4 DEF Spawn, OneHome, Ready, Zombies, SchedTypeOK
<1>6. current < next_pid
  BY <1>1, MaxPidAssumption DEF SchedTypeOK, OneHome, ParentsOlder, Pids, Null
<1>7. ParentsOlder'
  BY <1>1, <1>6, MaxPidAssumption DEF Spawn, SchedTypeOK, ParentsOlder, Pids, Null
<1> QED BY <1>3, <1>5, <1>7

(* An abandoned spawn only spends a pid. *)
LEMMA SpawnAbandonedInv == SchedInv /\ SpawnAbandoned => SchedInv'
<1> SUFFICES ASSUME SchedInv, SpawnAbandoned PROVE SchedInv'
  OBVIOUS
<1>1. SchedTypeOK'
  BY MaxPidAssumption DEF SchedInv, SpawnAbandoned, SchedTypeOK, Pids
<1>2. OneHome'
  BY DEF SchedInv, SpawnAbandoned, OneHome, Ready, Zombies
<1>3. ParentsOlder'
  BY MaxPidAssumption DEF SchedInv, SpawnAbandoned, SchedTypeOK, ParentsOlder, Pids
<1> QED BY <1>1, <1>2, <1>3 DEF SchedInv

(* Unlinking a zombie. *)
LEMMA ReapInv == ASSUME NEW S, SchedInv, Reap(S) PROVE SchedInv'
<1> USE DEF SchedInv
<1>1. PICK i \in 1..Len(zombies) : zombies' = RemoveAt(zombies, i)
  BY DEF Reap
<1>2. /\ zombies' \in Seq(Pids) /\ NoRepeats(zombies')
      /\ ToSet(zombies') = ToSet(zombies) \ {zombies[i]}
  BY <1>1, RemoveAtSet DEF SchedTypeOK, OneHome
<1>3. SchedTypeOK'
  BY <1>2 DEF Reap, SchedTypeOK
<1>4. OneHome'
  BY <1>2 DEF Reap, OneHome, Ready, Zombies
<1>5. ParentsOlder'
  BY DEF Reap, ParentsOlder
<1> QED BY <1>3, <1>4, <1>5

(* Unlinking a ready process that is killed. *)
LEMMA KillInv == ASSUME NEW S, SchedInv, Kill(S) PROVE SchedInv'
<1> USE DEF SchedInv
<1>1. PICK i \in 1..Len(ready) :
          /\ ready' = RemoveAt(ready, i)
          /\ state' = [state EXCEPT ![ready[i]] = "EXITED"]
  BY DEF Kill
<1>2. /\ ready' \in Seq(Pids) /\ NoRepeats(ready')
      /\ ToSet(ready') = ToSet(ready) \ {ready[i]}
  BY <1>1, RemoveAtSet DEF SchedTypeOK, OneHome
<1>3. /\ ready[i] \in Pids /\ ready[i] \in ToSet(ready)
  BY ToSetDef DEF SchedTypeOK
<1>4. SchedTypeOK'
  BY <1>1, <1>2 DEF Kill, SchedTypeOK, ProcStates
<1>5. ToSet(zombies) \subseteq Pids
  BY ToSetDef DEF SchedTypeOK
<1>6. OneHome'
  BY <1>1, <1>2, <1>3, <1>5 DEF Kill, OneHome, Ready, Zombies, SchedTypeOK
<1>7. ParentsOlder'
  BY <1>1, <1>3 DEF Kill, OneHome, ParentsOlder, SchedTypeOK, Ready
<1> QED BY <1>4, <1>6, <1>7

(* Every step of the scheduler keeps the invariant. *)
LEMMA SchedStepInv == SchedInv /\ [SchedNext]_schedVars => SchedInv'
<1> SUFFICES ASSUME SchedInv, [SchedNext]_schedVars PROVE SchedInv'
  OBVIOUS
<1>1. CASE Switch \/ Block \/ BlockDeclined \/ Wake \/ ExitCurrent
  BY <1>1, SwitchInv, BlockInv, BlockDeclinedInv, WakeInv, ExitCurrentInv
<1>2. CASE Spawn \/ SpawnAbandoned
  BY <1>2, SpawnInv, SpawnAbandonedInv
<1>3. CASE \E p \in Pids : Reap({p}) \/ Reap(Children(p))
  BY <1>3, ReapInv
<1>4. CASE \E p \in Pids : Kill({p}) \/ Kill(Children(p))
  BY <1>4, KillInv
<1>5. CASE UNCHANGED schedVars
  BY <1>5 DEF SchedInv, schedVars, SchedTypeOK, OneHome, ParentsOlder, Ready, Zombies
<1> QED BY <1>1, <1>2, <1>3, <1>4, <1>5 DEF SchedNext

(* Every control block has one home, whatever the number of processes. *)
THEOREM SchedulerOneHome == SchedSpec => [](SchedTypeOK /\ OneHome /\ ParentsOlder)
<1>1. SchedSpec => []SchedInv
  BY SchedInitInv, SchedStepInv, PTL DEF SchedSpec
<1>2. SchedInv => SchedTypeOK /\ OneHome /\ ParentsOlder
  BY DEF SchedInv
<1> QED BY <1>1, <1>2, PTL

-----------------------------------------------------------------------------
(* Action properties.                                                      *)

(* Appending to a list moves none of its elements. *)
LEMMA AppendOvertakes ==
    ASSUME NEW s \in Seq(Pids), NEW e \in Pids, NoRepeats(s), e \notin ToSet(s),
           NEW i \in 1..Len(s), NEW j \in 1..Len(Append(s, e)),
           s[i] = Append(s, e)[j]
    PROVE  j = i
<1>1. /\ Len(Append(s, e)) = Len(s) + 1
      /\ \A k \in 1..Len(s) : Append(s, e)[k] = s[k]
      /\ Append(s, e)[Len(s) + 1] = e
  BY AppendProperties
<1>2. s[i] # e
  BY ToSetDef
<1> QED BY <1>1, <1>2 DEF NoRepeats

(* Requeueing the running process moves no element of the list. *)
LEMMA RequeueOvertakes ==
    ASSUME NEW s \in Seq(Pids), NoRepeats(s), current \in Pids \cup {Null},
           current \notin ToSet(s),
           NEW i \in 1..Len(s), NEW j \in 1..Len(Requeue(s)),
           s[i] = Requeue(s)[j]
    PROVE  j = i
<1>1. CASE current = Null
  BY <1>1 DEF Requeue, NoRepeats
<1>2. CASE current # Null
  BY <1>2, AppendOvertakes DEF Requeue
<1> QED BY <1>1, <1>2

(* Dequeueing moves every element one place forward. *)
LEMMA DequeueOvertakes ==
    ASSUME NEW s \in Seq(Pids), s # <<>>, Dequeue(s), NEW j \in 1..Len(ready')
    PROVE  j + 1 \in 1..Len(s) /\ ready'[j] = s[j + 1]
<1>1. ready' = Tail(s)
  BY DEF Dequeue
<1> QED BY <1>1, TailSet

(* No step of the scheduler lets one ready process overtake another. *)
LEMMA OvertakesNobodyStep ==
    SchedInv /\ [SchedNext]_schedVars => OvertakesNobody
<1> SUFFICES ASSUME SchedInv, [SchedNext]_schedVars,
                    NEW i \in 1..Len(ready), NEW j \in 1..Len(ready'),
                    ready[i] = ready'[j]
             PROVE  j <= i
  BY DEF OvertakesNobody
<1> USE DEF SchedInv
<1>1. /\ ready \in Seq(Pids) /\ NoRepeats(ready)
      /\ current \in Pids \cup {Null} /\ current \notin ToSet(ready)
      /\ ready # <<>>
  BY DEF SchedTypeOK, OneHome, Ready
<1>2. CASE Switch
  <2> DEFINE q == Requeue(ready)
  <2>1. q \in Seq(Pids) /\ q # <<>> /\ Dequeue(q)
    BY <1>1, <1>2, RequeueFacts DEF Switch
  <2> HIDE DEF q
  <2>2. j + 1 \in 1..Len(q) /\ ready'[j] = q[j + 1]
    BY <2>1, DequeueOvertakes
  <2>3. j + 1 = i
    BY <1>1, <2>2, RequeueOvertakes DEF q
  <2> QED BY <2>3
<1>3. CASE Block \/ ExitCurrent
  <2>1. Dequeue(ready)
    BY <1>3 DEF Block, ExitCurrent
  <2>2. j + 1 \in 1..Len(ready) /\ ready'[j] = ready[j + 1]
    BY <1>1, <2>1, DequeueOvertakes
  <2> QED BY <1>1, <2>2 DEF NoRepeats
<1>4. CASE Wake
  <2> DEFINE w == <<input_waiter>> \o ready
             q == Requeue(w)
  <2>1. /\ input_waiter \in Pids /\ input_waiter \notin ToSet(ready)
        /\ input_waiter # current
    BY <1>4 DEF Wake, SchedTypeOK, OneHome, Ready
  <2>2. /\ w \in Seq(Pids) /\ w # <<>> /\ Len(w) = Len(ready) + 1
        /\ \A k \in 1..Len(ready) : w[k + 1] = ready[k]
        /\ ToSet(w) = ToSet(ready) \cup {input_waiter}
        /\ NoRepeats(w)
    BY <1>1, <2>1, ConsSet
  <2>3. Dequeue(q)
    BY <1>4 DEF Wake
  <2> HIDE DEF w
  <2>4. q \in Seq(Pids) /\ q # <<>>
    BY <1>1, <2>1, <2>2, RequeueFacts
  <2> HIDE DEF q
  <2>5. j + 1 \in 1..Len(q) /\ ready'[j] = q[j + 1]
    BY <2>3, <2>4, DequeueOvertakes
  <2>6. i + 1 \in 1..Len(w) /\ w[i + 1] = q[j + 1]
    BY <2>2, <2>5
  <2>7. j + 1 = i + 1
    BY <1>1, <2>1, <2>2, <2>5, <2>6, RequeueOvertakes DEF q
  <2> QED BY <2>7
<1>5. CASE Spawn
  <2>1. next_pid \in Pids /\ next_pid \notin ToSet(ready)
    BY <1>5, FreshPid
  <2>2. ready' = Append(ready, next_pid)
    BY <1>5 DEF Spawn
  <2>3. j = i
    BY <1>1, <2>1, <2>2, AppendOvertakes
  <2> QED BY <2>3
<1>6. CASE \E p \in Pids : Kill({p}) \/ Kill(Children(p))
  <2>1. PICK k \in 1..Len(ready) : ready' = RemoveAt(ready, k)
    BY <1>6 DEF Kill
  <2>2. /\ Len(ready') = Len(ready) - 1
        /\ ready'[j] = IF j < k THEN ready[j] ELSE ready[j + 1]
    BY <1>1, <2>1, RemoveAtFacts
  <2> QED BY <1>1, <2>2 DEF NoRepeats
<1>7. CASE UNCHANGED ready
  BY <1>1, <1>7 DEF NoRepeats
<1> QED
  BY <1>2, <1>3, <1>4, <1>5, <1>6, <1>7
  DEF SchedNext, schedVars, BlockDeclined, SpawnAbandoned, Reap

(* Round robin never overtakes, for every number of processes. *)
THEOREM SchedulerNoOvertaking == SchedSpec => NoOvertaking
<1>1. SchedSpec => []SchedInv
  BY SchedInitInv, SchedStepInv, PTL DEF SchedSpec
<1> QED BY <1>1, OvertakesNobodyStep, PTL DEF SchedSpec, NoOvertaking

(* No step of the scheduler brings an exited process back. *)
LEMMA RevivesNobodyStep ==
    SchedInv /\ [SchedNext]_schedVars => RevivesNobody
<1> SUFFICES ASSUME SchedInv, [SchedNext]_schedVars,
                    NEW p \in Pids, state[p] = "EXITED"
             PROVE  /\ state'[p] = "EXITED"
                    /\ p \in ToSet(zombies') => p \in ToSet(zombies)
  BY DEF RevivesNobody, Zombies
<1> USE DEF SchedInv
<1>1. p # current /\ (input_waiter # Null => p # input_waiter) /\ p # Null
  BY DEF OneHome, Pids, Null
<1>2. CASE Switch \/ Wake
  BY <1>1, <1>2 DEF Switch, Wake
<1>3. CASE Block
  BY <1>1, <1>3 DEF Block, SchedTypeOK
<1>4. CASE ExitCurrent
  <2>1. current \in Pids /\ zombies \in Seq(Pids) /\ zombies' = <<current>> \o zombies
    BY <1>4 DEF ExitCurrent, SchedTypeOK
  <2>2. ToSet(zombies') = ToSet(zombies) \cup {current}
    BY <2>1, ConsSet
  <2> QED BY <1>1, <1>4, <2>2 DEF ExitCurrent, SchedTypeOK
<1>5. CASE Spawn
  BY <1>5, MaxPidAssumption DEF Spawn, SchedTypeOK, ParentsOlder, Pids
<1>6. CASE \E c \in Pids : Reap({c}) \/ Reap(Children(c))
  <2>1. PICK i \in 1..Len(zombies) : zombies' = RemoveAt(zombies, i)
    BY <1>6 DEF Reap
  <2>2. ToSet(zombies') = ToSet(zombies) \ {zombies[i]}
    BY <2>1, RemoveAtSet DEF SchedTypeOK, OneHome
  <2> QED BY <1>6, <2>2 DEF Reap
<1>7. CASE \E c \in Pids : Kill({c}) \/ Kill(Children(c))
  BY <1>7 DEF Kill, SchedTypeOK
<1>8. CASE UNCHANGED <<state, zombies>>
  BY <1>8
<1> QED
  BY <1>2, <1>3, <1>4, <1>5, <1>6, <1>7, <1>8
  DEF SchedNext, schedVars, BlockDeclined, SpawnAbandoned

(* The dead stay dead, for every number of processes. *)
THEOREM SchedulerDeadStaysDead == SchedSpec => DeadStaysDead
<1>1. SchedSpec => []SchedInv
  BY SchedInitInv, SchedStepInv, PTL DEF SchedSpec
<1> QED BY <1>1, RevivesNobodyStep, PTL DEF SchedSpec, DeadStaysDead

-----------------------------------------------------------------------------
(* The kernel implements the scheduler.                                    *)

(* Every trap is one transition of the scheduler or leaves its state alone. *)
LEMMA TrapIsSchedStep == SchedTypeOK /\ [Next]_vars => [SchedNext]_schedVars
<1> SUFFICES ASSUME SchedTypeOK, [Next]_vars PROVE [SchedNext]_schedVars
  OBVIOUS
<1>1. CASE Receive
  BY <1>1 DEF Receive
<1>2. CASE Timer
  BY <1>2 DEF Timer, SchedNext
<1>3. CASE ExternalInterrupt
  BY <1>3 DEF ExternalInterrupt, SchedNext
<1>4. CASE Yield
  BY <1>4 DEF Yield, SchedNext
<1>5. CASE Fork
  BY <1>5 DEF Fork, SchedNext
<1>6. CASE Exec
  BY <1>6 DEF Exec, SchedNext
<1>7. CASE Shutdown \/ Fault
  BY <1>7 DEF Shutdown, Fault
<1>8. CASE Exit
  BY <1>8 DEF Exit, SchedNext
<1>9. CASE \E t \in Pids : KillCall(t)
  BY <1>9 DEF KillCall, SchedNext
<1>10. ASSUME NEW name, NEW of, NEW S, NEW exists,
              \E p \in Pids : S = {p} \/ S = Children(p),
              \/ WaitReaps(name, of, S)
              \/ WaitFails(name, of, S, exists)
              \/ WaitInterrupted(name, of, S, exists)
              \/ WaitPolls(name, of, S, exists)
       PROVE  [SchedNext]_schedVars
  <2>1. CASE WaitReaps(name, of, S)
    BY <1>10, <2>1 DEF WaitReaps, SchedNext
  <2>2. CASE WaitFails(name, of, S, exists)
    BY <2>2 DEF WaitFails
  <2>3. CASE WaitInterrupted(name, of, S, exists)
    <3>1. KillFirstOf(S)
      BY <2>3 DEF WaitInterrupted
    <3>2. CASE UNCHANGED schedVars
      BY <3>2
    <3>3. CASE \E i \in 1..Len(ready) : IsFirst(ready, i, S) /\ Kill({ready[i]})
      <4>1. PICK i \in 1..Len(ready) : Kill({ready[i]})
        BY <3>3
      <4>2. ready[i] \in Pids
        BY DEF SchedTypeOK
      <4> QED BY <4>1, <4>2 DEF SchedNext
    <3> QED BY <3>1, <3>2, <3>3 DEF KillFirstOf
  <2>4. CASE WaitPolls(name, of, S, exists)
    BY <2>4 DEF WaitPolls, SchedNext
  <2> QED BY <1>10, <2>1, <2>2, <2>3, <2>4
<1>11. CASE Wait
  <2>1. current \in Pids
    BY <1>11 DEF Wait, Ecall, SchedTypeOK
  <2> QED BY <1>10, <1>11, <2>1 DEF Wait
<1>12. CASE \E t \in Pids : WaitPid(t)
  BY <1>10, <1>12 DEF WaitPid
<1>13. CASE ReadChar
  BY <1>13 DEF ReadChar
<1>14. CASE ReadCharSleeps
  BY <1>14 DEF ReadCharSleeps, SchedNext
<1>15. CASE MapFramebuffer \/ StoreDbmode \/ Open \/ \E f \in Fds : Close(f)
  BY <1>15 DEF MapFramebuffer, StoreDbmode, Open, Close
<1>16. CASE UNCHANGED vars
  BY <1>16 DEF vars
<1> QED
  BY <1>1, <1>2, <1>3, <1>4, <1>5, <1>6, <1>7, <1>8, <1>9, <1>11, <1>12, <1>13,
     <1>14, <1>15, <1>16 DEF Next

(* The queues of the kernel keep the scheduler's invariant. *)
LEMMA KernelSchedInv == Spec => []SchedInv
<1>1. Init => SchedInv
  BY SchedInitInv DEF Init
<1>2. SchedInv /\ [Next]_vars => SchedInv'
  BY TrapIsSchedStep, SchedStepInv DEF SchedInv
<1> QED BY <1>1, <1>2, PTL DEF Spec

(* The kernel's traps, system calls and interrupts only ever move processes
   between the queues as the scheduler's transitions do. *)
THEOREM KernelImplementsScheduler == Spec => SchedSpec
<1>1. Init => SchedInit
  BY DEF Init
<1>2. SchedInv /\ [Next]_vars => [SchedNext]_schedVars
  BY TrapIsSchedStep DEF SchedInv
<1> QED BY <1>1, <1>2, KernelSchedInv, PTL DEF Spec, SchedSpec

(* Every control block of the kernel has one home. *)
THEOREM KernelOneHome == Spec => [](OneHome /\ ParentsOlder)
BY KernelImplementsScheduler, SchedulerOneHome, PTL

(* In the kernel no ready process is overtaken. *)
THEOREM KernelNoOvertaking == Spec => NoOvertaking
BY KernelImplementsScheduler, SchedulerNoOvertaking, PTL

(* In the kernel the dead stay dead. *)
THEOREM KernelDeadStaysDead == Spec => DeadStaysDead
BY KernelImplementsScheduler, SchedulerDeadStaysDead, PTL

-----------------------------------------------------------------------------
(* Type correctness, one group of variables at a time.                     *)

CallTypeOK ==
    /\ retry \in [Pids -> {"none", "readchar", "wait", "waitpid"}]
    /\ target \in [Pids -> Pids \cup {Null}]
    /\ reply \in Replies
    /\ halted \in BOOLEAN

InputTypeOK ==
    /\ rx \in Seq(Bytes)
    /\ pushback \in {<<>>} \cup {<<b>> : b \in Bytes}
    /\ ier \in BOOLEAN
    /\ irq_pending \in BOOLEAN

FbTypeOK ==
    /\ fb_mapped \in [Pids -> BOOLEAN]
    /\ user_count \in Nat
    /\ dbmode \in BOOLEAN

FdTypeOK ==
    /\ fd_valid \in SUBSET Fds
    /\ stdout_fd \in [Pids -> Fds \cup {0}]
    /\ stdin_fd \in [Pids -> Fds \cup {0}]

(* The groups are the type invariant. *)
LEMMA TypeGroups ==
    TypeOK <=> SchedTypeOK /\ CallTypeOK /\ InputTypeOK /\ FbTypeOK /\ FdTypeOK
BY DEF TypeOK, CallTypeOK, InputTypeOK, FbTypeOK, FdTypeOK

(* The initial state has its type. *)
LEMMA InitTypeOK == Init => TypeOK
<1> SUFFICES ASSUME Init PROVE TypeOK
  OBVIOUS
<1>1. SchedTypeOK
  BY SchedInitInv DEF Init, SchedInv
<1>2. CallTypeOK
  BY DEF Init, CallTypeOK, NoReply, Replies
<1>3. InputTypeOK
  BY EmptySeq DEF Init, InputTypeOK
<1>4. FbTypeOK /\ FdTypeOK
  BY DEF Init, FbTypeOK, FdTypeOK
<1> QED BY <1>1, <1>2, <1>3, <1>4, TypeGroups

(* What a system call answers, and the call it leaves to be re-executed. *)
LEMMA CallStep == TypeOK /\ [Next]_vars => CallTypeOK'
<1> SUFFICES ASSUME TypeOK, [Next]_vars PROVE CallTypeOK'
  OBVIOUS
<1> USE TypeGroups DEF CallTypeOK
<1>1. NoReply \in Replies
  BY DEF NoReply, Replies
<1>2. ASSUME Done(NoReply) PROVE
      /\ retry' \in [Pids -> {"none", "readchar", "wait", "waitpid"}]
      /\ target' \in [Pids -> Pids \cup {Null}]
      /\ reply' \in Replies
  BY <1>1, <1>2 DEF Done
<1>3. ASSUME NEW call \in {"readchar", "wait", "waitpid"}, NEW of \in Pids \cup {Null},
             NEW result \in {"byte", "code", "fail", "interrupted"}, current \in Pids,
             Answer(call, of, result)
      PROVE  /\ retry' \in [Pids -> {"none", "readchar", "wait", "waitpid"}]
             /\ target' \in [Pids -> Pids \cup {Null}]
             /\ reply' \in Replies
  BY <1>3 DEF Answer, Done, Replies
<1>4. ASSUME NEW call \in {"readchar", "wait", "waitpid"}, NEW of \in Pids \cup {Null},
             Again(call, of)
      PROVE  /\ retry' \in [Pids -> {"none", "readchar", "wait", "waitpid"}]
             /\ target' \in [Pids -> Pids \cup {Null}]
             /\ reply' \in Replies
  BY <1>1, <1>4 DEF Again
<1>5. CASE Receive \/ Timer \/ ExternalInterrupt
  BY <1>1, <1>5 DEF Receive, Timer, ExternalInterrupt, callVars
<1>6. CASE Yield \/ Fork \/ Exec \/ Exit \/ MapFramebuffer \/ StoreDbmode \/ Open
  BY <1>2, <1>6 DEF Yield, Fork, Exec, Exit, MapFramebuffer, StoreDbmode, Open
<1>7. CASE Shutdown \/ Fault
  BY <1>2, <1>7 DEF Shutdown, Fault
<1>8. CASE \E t \in Pids : KillCall(t)
  BY <1>2, <1>8 DEF KillCall
<1>9. CASE \E f \in Fds : Close(f)
  BY <1>2, <1>9 DEF Close
<1>10. ASSUME NEW call \in {"wait", "waitpid"}, NEW of \in Pids \cup {Null},
              NEW S, NEW exists, current \in Pids,
              \/ WaitReaps(call, of, S)
              \/ WaitFails(call, of, S, exists)
              \/ WaitInterrupted(call, of, S, exists)
              \/ WaitPolls(call, of, S, exists)
       PROVE  CallTypeOK'
  BY <1>3, <1>4, <1>10 DEF WaitReaps, WaitFails, WaitInterrupted, WaitPolls
<1>11. CASE Wait
  <2>1. current \in Pids
    BY <1>11 DEF Wait, Ecall, SchedTypeOK
  <2> QED BY <1>10, <1>11, <2>1 DEF Wait
<1>12. CASE \E t \in Pids : WaitPid(t)
  <2>1. current \in Pids
    BY <1>12 DEF WaitPid, Ecall, SchedTypeOK
  <2> QED BY <1>10, <1>12, <2>1 DEF WaitPid
<1>13. CASE ReadChar
  <2>1. current \in Pids
    BY <1>13 DEF ReadChar, Ecall, SchedTypeOK
  <2> QED BY <1>3, <1>13, <2>1 DEF ReadChar
<1>14. CASE ReadCharSleeps
  BY <1>4, <1>14 DEF ReadCharSleeps
<1>15. CASE UNCHANGED vars
  BY <1>15 DEF vars, callVars
<1> QED
  BY <1>5, <1>6, <1>7, <1>8, <1>9, <1>11, <1>12, <1>13, <1>14, <1>15 DEF Next

-----------------------------------------------------------------------------
(* The way of a byte.                                                      *)

FifoBounded == Len(rx) <= MaxRx

\* How a step moves console bytes, where fifo is the receive FIFO at the moment
\* the handler looks at it: nothing is taken; the oldest byte is pushed back;
\* the pushed back byte is read; or the oldest byte is read or was Ctrl-C.
InputMove(fifo) ==
    \/ rx' = fifo /\ pushback' = pushback
    \/ /\ pushback = <<>> /\ fifo # <<>>
       /\ pushback' = <<Head(fifo)>> /\ rx' = Tail(fifo)
    \/ /\ pushback # <<>>
       /\ pushback' = <<>> /\ rx' = fifo
       /\ reply'.result = "byte"
    \/ /\ pushback = <<>> /\ fifo # <<>>
       /\ pushback' = <<>> /\ rx' = Tail(fifo)
       /\ \/ reply'.result = "byte"
          \/ reply'.result = "interrupted" /\ Head(fifo) = INTR

(* What may be in the FIFO when a handler looks. *)
LEMMA FifoFacts ==
    ASSUME InputTypeOK, NEW a \in Arrivals
    PROVE  /\ a \in Seq(Bytes)
           /\ rx \o a \in Seq(Bytes)
           /\ Len(rx \o a) <= MaxRx
<1>1. a \in Seq(Bytes)
  <2>1. a = <<>> \/ \E b \in Bytes : a = <<b>>
    BY DEF Arrivals
  <2>2. \A b \in Bytes : <<b>> \in Seq(Bytes)
    OBVIOUS
  <2> QED BY <2>1, <2>2, EmptySeq
<1> QED BY <1>1, ConcatProperties DEF InputTypeOK, Arrivals

(* With no arrival the handler sees the FIFO as it is. *)
LEMMA NoArrival ==
    ASSUME InputTypeOK, FifoBounded
    PROVE  <<>> \in Arrivals /\ rx \o <<>> = rx
<1>1. rx \o <<>> = rx
  BY ConcatEmptySeq DEF InputTypeOK
<1>2. Len(rx) \in Nat /\ MaxRx \in Nat
  BY LenProperties, KernelAssumption DEF InputTypeOK
<1>3. Len(rx) + Len(<<>>) <= MaxRx
  BY <1>2 DEF FifoBounded
<1> QED BY <1>1, <1>3 DEF Arrivals

(* A sequence is its head and its tail. *)
LEMMA HeadAndTail ==
    ASSUME NEW S, NEW s \in Seq(S), s # <<>>
    PROVE  <<Head(s)>> \o Tail(s) = s
<1>1. /\ Head(s) \in S /\ Tail(s) \in Seq(S)
      /\ Len(Tail(s)) = Len(s) - 1
      /\ \A i \in 1..Len(Tail(s)) : Tail(s)[i] = s[i + 1]
  BY HeadTailProperties
<1> DEFINE h == <<Head(s)>>
           t == Tail(s)
<1>2. h \in Seq(S) /\ Len(h) = 1 /\ h[1] = s[1]
  BY <1>1
<1>3. t \in Seq(S) /\ Len(t) = Len(s) - 1 /\ \A i \in 1..(Len(s) - 1) : t[i] = s[i + 1]
  BY <1>1
<1>4. Len(s) \in Nat
  OBVIOUS
<1> HIDE DEF h, t
<1>5. h \in Seq(S) /\ t \in Seq(S)
  BY <1>2, <1>3
<1>6. /\ h \o t \in Seq(S)
      /\ Len(h \o t) = Len(h) + Len(t)
      /\ \A i \in 1..(Len(h) + Len(t)) :
            (h \o t)[i] = IF i <= Len(h) THEN h[i] ELSE t[i - Len(h)]
  BY <1>5, ConcatProperties
<1>7. /\ h \o t \in Seq(S)
      /\ Len(h \o t) = Len(s)
      /\ \A i \in 1..Len(s) : (h \o t)[i] = s[i]
  <2>1. ASSUME NEW i \in 1..Len(s) PROVE (h \o t)[i] = s[i]
    <3>1. i \in 1..(Len(h) + Len(t))
      BY <1>2, <1>3, <1>4
    <3>2. (h \o t)[i] = IF i <= 1 THEN h[i] ELSE t[i - 1]
      BY <1>6, <1>2, <3>1
    <3>3. CASE i = 1
      BY <1>2, <3>2, <3>3
    <3>4. CASE i # 1
      <4>1. i - 1 \in 1..(Len(s) - 1) /\ ~(i <= 1) /\ (i - 1) + 1 = i
        BY <1>4, <3>4
      <4> QED BY <1>3, <3>2, <4>1
    <3> QED BY <3>3, <3>4
  <2> QED BY <1>6, <1>2, <1>3, <1>4, <2>1
<1>8. h \o t = s
  BY <1>7, SeqEqual
<1> QED BY <1>8 DEF h, t

(* Taking the front element off again. *)
LEMMA TailOfCons ==
    ASSUME NEW S, NEW s \in Seq(S), NEW e \in S
    PROVE  <<e>> \o s # <<>> /\ Tail(<<e>> \o s) = s
<1> DEFINE h == <<e>>
           t == <<e>> \o s
<1>1. h \in Seq(S) /\ Len(h) = 1 /\ t = h \o s
  OBVIOUS
<1> HIDE DEF h, t
<1>2. /\ t \in Seq(S)
      /\ Len(t) = Len(h) + Len(s)
      /\ \A i \in 1..(Len(h) + Len(s)) :
            t[i] = IF i <= Len(h) THEN h[i] ELSE s[i - Len(h)]
  BY <1>1, ConcatProperties
<1>3. /\ t \in Seq(S) /\ Len(t) = Len(s) + 1
      /\ \A i \in 1..Len(s) : t[i + 1] = s[i]
  <2>1. ASSUME NEW i \in 1..Len(s) PROVE t[i + 1] = s[i]
    <3>1. Len(s) \in Nat
      OBVIOUS
    <3>2. i + 1 \in 1..(1 + Len(s)) /\ ~(i + 1 <= 1) /\ (i + 1) - 1 = i
      BY <3>1
    <3> QED BY <1>2, <1>1, <3>2
  <2> QED BY <1>2, <1>1, <2>1
<1>4. t # <<>>
  BY <1>3
<1>5. /\ Tail(t) \in Seq(S) /\ Len(Tail(t)) = Len(s)
      /\ \A i \in 1..Len(s) : Tail(t)[i] = s[i]
  BY <1>3, <1>4, HeadTailProperties
<1>6. Tail(t) = s
  BY <1>5, SeqEqual
<1> QED BY <1>4, <1>6 DEF t

(* Every step moves bytes in one of the four ways. *)
LEMMA InputMoves ==
    ASSUME TypeOK, FifoBounded, [Next]_vars
    PROVE  \E a \in Arrivals : InputMove(rx \o a)
<1>0. InputTypeOK
  BY TypeGroups
<1>1. ASSUME UNCHANGED <<rx, pushback>> PROVE \E a \in Arrivals : InputMove(rx \o a)
  BY <1>0, <1>1, NoArrival DEF InputMove
<1>2. CASE Receive
  <2>1. PICK b \in Bytes : Len(rx) < MaxRx /\ rx' = Append(rx, b)
    BY <1>2 DEF Receive
  <2>2. rx \in Seq(Bytes) /\ Len(rx) \in Nat /\ MaxRx \in Nat
    BY <1>0, KernelAssumption DEF InputTypeOK
  <2>3. rx' = rx \o <<b>>
    BY <2>1, <2>2
  <2>4. <<b>> \in Arrivals
    <3>1. Len(<<b>>) = 1
      OBVIOUS
    <3> QED BY <2>1, <2>2, <3>1 DEF Arrivals
  <2> QED BY <1>2, <2>3, <2>4 DEF Receive, InputMove
<1>3. CASE Timer \/ Yield \/ Fork \/ Exec \/ Shutdown \/ Exit \/ Fault
  BY <1>1, <1>3 DEF Timer, Yield, Fork, Exec, Shutdown, Exit, Fault, inputVars
<1>4. CASE ExternalInterrupt
  BY <1>4 DEF ExternalInterrupt, InputMove
<1>5. CASE MapFramebuffer \/ StoreDbmode \/ Open \/ ReadCharSleeps
  BY <1>1, <1>5 DEF MapFramebuffer, StoreDbmode, Open, ReadCharSleeps, inputVars
<1>6. CASE (\E t \in Pids : KillCall(t)) \/ (\E f \in Fds : Close(f))
  BY <1>1, <1>6 DEF KillCall, Close, inputVars
<1>7. ASSUME NEW call, NEW of, NEW S, NEW exists,
             \/ WaitReaps(call, of, S)
             \/ WaitFails(call, of, S, exists)
             \/ WaitInterrupted(call, of, S, exists)
             \/ WaitPolls(call, of, S, exists)
      PROVE  \E a \in Arrivals : InputMove(rx \o a)
  <2>1. CASE WaitReaps(call, of, S) \/ WaitFails(call, of, S, exists)
    BY <1>1, <2>1 DEF WaitReaps, WaitFails, inputVars
  <2>2. CASE WaitInterrupted(call, of, S, exists)
    <3>1. reply'.result = "interrupted"
      BY <2>2 DEF WaitInterrupted, Answer, Done
    <3> QED BY <2>2, <3>1 DEF WaitInterrupted, Interrupted, InputMove
  <2>3. CASE WaitPolls(call, of, S, exists)
    BY <2>3 DEF WaitPolls, Peek, InputMove
  <2> QED BY <1>7, <2>1, <2>2, <2>3
<1>8. CASE Wait
  BY <1>7, <1>8 DEF Wait
<1>9. CASE \E t \in Pids : WaitPid(t)
  BY <1>7, <1>9 DEF WaitPid
<1>10. CASE ReadChar
  <2>1. reply'.result = "byte"
    BY <1>10 DEF ReadChar, Answer, Done
  <2>2. PICK a \in Arrivals :
           /\ pushback \o (rx \o a) # <<>>
           /\ IF pushback # <<>>
              THEN pushback' = <<>> /\ rx' = rx \o a
              ELSE rx' = Tail(rx \o a) /\ UNCHANGED pushback
    BY <1>10 DEF ReadChar
  <2>3. rx \o a \in Seq(Bytes)
    BY <1>0, FifoFacts
  <2>4. pushback = <<>> => rx \o a # <<>>
    BY <2>2, <2>3, ConcatEmptySeq
  <2> QED BY <2>1, <2>2, <2>4 DEF InputMove
<1>11. CASE UNCHANGED vars
  BY <1>1, <1>11 DEF vars, inputVars
<1> QED
  BY <1>2, <1>3, <1>4, <1>5, <1>6, <1>8, <1>9, <1>10, <1>11 DEF Next

(* The interrupt flags stay flags. *)
LEMMA FlagStep ==
    ASSUME TypeOK, [Next]_vars PROVE ier' \in BOOLEAN /\ irq_pending' \in BOOLEAN
<1>1. ier \in BOOLEAN /\ irq_pending \in BOOLEAN
  BY DEF TypeOK
<1>2. CASE Receive
  BY <1>1, <1>2 DEF Receive, Latch
<1>3. CASE ExternalInterrupt
  BY <1>1, <1>3 DEF ExternalInterrupt
<1>4. CASE Timer \/ Yield \/ Fork \/ Exec \/ Shutdown \/ Exit \/ Fault
  BY <1>1, <1>4 DEF Timer, Yield, Fork, Exec, Shutdown, Exit, Fault, inputVars
<1>5. CASE MapFramebuffer \/ StoreDbmode \/ Open \/ ReadCharSleeps
  BY <1>1, <1>5 DEF MapFramebuffer, StoreDbmode, Open, ReadCharSleeps, inputVars
<1>6. CASE (\E t \in Pids : KillCall(t)) \/ (\E f \in Fds : Close(f))
  BY <1>1, <1>6 DEF KillCall, Close, inputVars
<1>7. CASE ReadChar
  BY <1>1, <1>7 DEF ReadChar, Latch
<1>8. ASSUME NEW call, NEW of, NEW S, NEW exists,
             \/ WaitReaps(call, of, S)
             \/ WaitFails(call, of, S, exists)
             \/ WaitInterrupted(call, of, S, exists)
             \/ WaitPolls(call, of, S, exists)
      PROVE  ier' \in BOOLEAN /\ irq_pending' \in BOOLEAN
  BY <1>1, <1>8 DEF WaitReaps, WaitFails, WaitInterrupted, WaitPolls, Latch, inputVars
<1>9. CASE Wait
  BY <1>8, <1>9 DEF Wait
<1>10. CASE \E t \in Pids : WaitPid(t)
  BY <1>8, <1>10 DEF WaitPid
<1>11. CASE UNCHANGED vars
  BY <1>1, <1>11 DEF vars, inputVars
<1> QED
  BY <1>2, <1>3, <1>4, <1>5, <1>6, <1>7, <1>9, <1>10, <1>11 DEF Next

(* The FIFO stays a bounded queue of bytes, the pushback buffer holds at most
   one. *)
LEMMA InputStep ==
    ASSUME TypeOK, FifoBounded, [Next]_vars PROVE InputTypeOK' /\ FifoBounded'
<1>1. InputTypeOK
  BY TypeGroups
<1>2. PICK a \in Arrivals : InputMove(rx \o a)
  BY InputMoves
<1> DEFINE f == rx \o a
<1>3. f \in Seq(Bytes) /\ Len(f) <= MaxRx /\ InputMove(f)
  BY <1>1, <1>2, FifoFacts
<1> HIDE DEF f
<1>4. MaxRx \in Nat /\ Len(f) \in Nat
  BY <1>3, KernelAssumption, LenProperties
<1>5. f # <<>> =>
        /\ Head(f) \in Bytes /\ Tail(f) \in Seq(Bytes) /\ Len(Tail(f)) = Len(f) - 1
  BY <1>3, HeadTailProperties
<1>6. rx' \in {f, Tail(f)} /\ (rx' = f \/ f # <<>>)
  BY <1>3 DEF InputMove
<1>7. rx' \in Seq(Bytes) /\ Len(rx') <= MaxRx
  BY <1>3, <1>4, <1>5, <1>6
<1>8. pushback' \in {<<>>} \cup {<<b>> : b \in Bytes}
  <2>1. \/ pushback' = pushback
        \/ pushback' = <<>>
        \/ f # <<>> /\ pushback' = <<Head(f)>>
    BY <1>3, Zenon DEF InputMove
  <2> QED BY <1>1, <1>5, <2>1 DEF InputTypeOK
<1> QED BY <1>7, <1>8, FlagStep DEF InputTypeOK, FifoBounded

\* What InputInOrder says of one step.
KeepsOrder ==
    \E arrived \in Arrivals :
        LET typed == Stream \o arrived
        IN  \/ Stream' = typed
            \/ /\ typed # <<>>
               /\ Stream' = Tail(typed)
               /\ \/ reply'.result = "byte"
                  \/ reply'.result = "interrupted" /\ Head(typed) = INTR

(* Each of the four ways keeps the order typed. *)
LEMMA KeepsOrderStep == ASSUME TypeOK, FifoBounded, [Next]_vars PROVE KeepsOrder
<1>1. InputTypeOK
  BY TypeGroups
<1>2. PICK a \in Arrivals : InputMove(rx \o a)
  BY InputMoves
<1> DEFINE f == rx \o a
<1>3. f \in Seq(Bytes) /\ a \in Seq(Bytes) /\ rx \in Seq(Bytes) /\ InputMove(f)
  BY <1>1, <1>2, FifoFacts DEF InputTypeOK
<1>4. pushback \in Seq(Bytes) /\ (pushback = <<>> \/ \E b \in Bytes : pushback = <<b>>)
  <2>1. \A b \in Bytes : <<b>> \in Seq(Bytes)
    OBVIOUS
  <2> QED BY <1>1, <2>1, EmptySeq DEF InputTypeOK
<1>5. Stream \o a = pushback \o f
  <2>1. pushback \in Seq(Bytes) /\ rx \in Seq(Bytes) /\ a \in Seq(Bytes)
    BY <1>3, <1>4
  <2>2. (pushback \o rx) \o a = pushback \o (rx \o a)
    BY ONLY <2>1, ConcatAssociative
  <2> QED BY ONLY <2>2 DEF Stream, f
<1>6. SUFFICES \/ Stream' = pushback \o f
               \/ /\ pushback \o f # <<>>
                  /\ Stream' = Tail(pushback \o f)
                  /\ \/ reply'.result = "byte"
                     \/ reply'.result = "interrupted" /\ Head(pushback \o f) = INTR
  BY <1>5 DEF KeepsOrder
<1>7. Stream' = pushback' \o rx'
  BY DEF Stream
<1> HIDE DEF f
<1>8. <<>> \o f = f
  BY <1>3, ConcatEmptySeq
<1>9. f # <<>> => Tail(f) \in Seq(Bytes) /\ <<Head(f)>> \o Tail(f) = f
  <2>1. f \in Seq(Bytes)
    BY <1>3
  <2>2. f # <<>> => Tail(f) \in Seq(Bytes)
    BY ONLY <2>1, HeadTailProperties
  <2>3. f # <<>> => <<Head(f)>> \o Tail(f) = f
    BY ONLY <2>1, HeadAndTail
  <2> QED BY ONLY <2>2, <2>3
<1>10. CASE rx' = f /\ pushback' = pushback
  <2>1. Stream' = pushback \o f
    BY ONLY <1>7, <1>10, ZenonT(60)
  <2> QED BY <2>1, Zenon
<1>11. CASE /\ pushback = <<>> /\ f # <<>>
            /\ pushback' = <<Head(f)>> /\ rx' = Tail(f)
  BY <1>7, <1>8, <1>9, <1>11
<1>12. CASE /\ pushback # <<>>
            /\ pushback' = <<>> /\ rx' = f
            /\ reply'.result = "byte"
  <2>1. PICK b \in Bytes : pushback = <<b>>
    BY <1>4, <1>12
  <2>2. pushback \o f # <<>> /\ Tail(pushback \o f) = f
    BY <1>3, <2>1, TailOfCons
  <2> QED BY <1>7, <1>8, <1>12, <2>2
<1>13. CASE /\ pushback = <<>> /\ f # <<>>
            /\ pushback' = <<>> /\ rx' = Tail(f)
            /\ \/ reply'.result = "byte"
               \/ reply'.result = "interrupted" /\ Head(f) = INTR
  <2>1. <<>> \o Tail(f) = Tail(f)
    BY <1>9, <1>13, ConcatEmptySeq
  <2> QED BY <1>7, <1>8, <1>13, <2>1
<1> QED BY <1>3, <1>10, <1>11, <1>12, <1>13 DEF InputMove

-----------------------------------------------------------------------------
(* Wake-ups.                                                               *)

\* A sleeper has armed the receive interrupt, and it is pending when there is
\* something to read.  The first half makes the second inductive.
Armed ==
    /\ input_waiter # Null => ier
    /\ WakeupNotLost

(* Nothing is there to read exactly when both buffers are empty. *)
LEMMA StreamEmpty ==
    ASSUME InputTypeOK PROVE Stream = <<>> <=> pushback = <<>> /\ rx = <<>>
<1>1. \A b \in Bytes : <<b>> \in Seq(Bytes)
  OBVIOUS
<1>2. pushback \in Seq(Bytes) /\ rx \in Seq(Bytes)
  BY <1>1, EmptySeq DEF InputTypeOK
<1> QED BY <1>2, ConcatEqualIffEmpty DEF Stream

(* Every handler leaves the sleeper's interrupt armed, and pending if it leaves
   a byte to read. *)
LEMMA ArmedStep ==
    ASSUME TypeOK, FifoBounded, Armed, [Next]_vars PROVE Armed'
<1>1. InputTypeOK /\ InputTypeOK'
  BY TypeGroups, InputStep
<1>2. /\ Stream = <<>> <=> pushback = <<>> /\ rx = <<>>
      /\ Stream' = <<>> <=> pushback' = <<>> /\ rx' = <<>>
  <2>1. Stream' = pushback' \o rx'
    BY DEF Stream
  <2>2. \A b \in Bytes : <<b>> \in Seq(Bytes)
    OBVIOUS
  <2>3. pushback' \in Seq(Bytes) /\ rx' \in Seq(Bytes)
    BY <1>1, <2>2, EmptySeq DEF InputTypeOK
  <2> QED BY <1>1, <2>1, <2>3, StreamEmpty, ConcatEqualIffEmpty
<1>3. ASSUME input_waiter' = input_waiter, ier' = ier,
             irq_pending' = irq_pending, pushback' = pushback, rx' = rx
      PROVE  Armed'
  BY <1>3, <1>2 DEF Armed, WakeupNotLost
<1>4. ASSUME InUser, input_waiter' = input_waiter, ier' = ier,
             NEW f, irq_pending' = Latch(f),
             f = <<>> => pushback' \in {pushback, <<>>} /\ rx' = <<>>
      PROVE  Armed'
  <2>1. SUFFICES ASSUME input_waiter # Null
                 PROVE  ier' /\ (Stream' # <<>> => irq_pending')
    BY <1>4 DEF Armed, WakeupNotLost
  <2>2. ier /\ ~irq_pending /\ Stream = <<>>
    BY <1>4, <2>1 DEF Armed, WakeupNotLost, InUser
  <2>3. CASE f = <<>>
    BY <1>2, <1>4, <2>2, <2>3
  <2>4. CASE f # <<>>
    BY <1>4, <2>2, <2>4 DEF Latch
  <2> QED BY <2>3, <2>4
<1>5. CASE Receive
  <2>1. rx' # <<>>
    BY <1>1, <1>5 DEF Receive, InputTypeOK
  <2>2. input_waiter' = input_waiter /\ ier' = ier /\ irq_pending' = Latch(rx')
    BY <1>5 DEF Receive, schedVars
  <2> QED BY <2>1, <2>2 DEF Armed, WakeupNotLost, Latch
<1>6. CASE ExternalInterrupt
  <2>1. input_waiter' = Null
    BY <1>6 DEF ExternalInterrupt, Wake, schedVars
  <2> QED BY <2>1 DEF Armed, WakeupNotLost
<1>7. CASE Timer \/ Yield
  BY <1>3, <1>7 DEF Timer, Yield, Switch, inputVars
<1>8. CASE Fork \/ Exec
  BY <1>3, <1>8 DEF Fork, Exec, Spawn, SpawnAbandoned, inputVars
<1>9. CASE Shutdown \/ Exit \/ Fault
  BY <1>3, <1>9 DEF Shutdown, Exit, Fault, ExitCurrent, inputVars, schedVars
<1>10. CASE MapFramebuffer \/ StoreDbmode \/ Open \/ \E f \in Fds : Close(f)
  BY <1>3, <1>10 DEF MapFramebuffer, StoreDbmode, Open, Close, inputVars, schedVars
<1>11. CASE \E t \in Pids : KillCall(t)
  BY <1>3, <1>11 DEF KillCall, Kill, inputVars
<1>12. CASE ReadCharSleeps
  <2>1. ier' = TRUE /\ Stream' = Stream /\ Stream = <<>>
    BY <1>12 DEF ReadCharSleeps, Stream
  <2> QED BY <2>1 DEF Armed, WakeupNotLost
<1>13. CASE ReadChar
  <2>1. PICK a \in Arrivals :
           /\ pushback \o (rx \o a) # <<>>
           /\ IF pushback # <<>>
              THEN pushback' = <<>> /\ rx' = rx \o a
              ELSE rx' = Tail(rx \o a) /\ UNCHANGED pushback
           /\ irq_pending' = Latch(rx \o a)
    BY <1>13 DEF ReadChar
  <2> DEFINE f == rx \o a
  <2>2. pushback = <<>> => f # <<>>
    <3>1. f \in Seq(Bytes)
      BY <1>1, FifoFacts
    <3> QED BY <2>1, <3>1, ConcatEmptySeq
  <2>3. f = <<>> => pushback' = <<>> /\ rx' = <<>>
    BY <2>1, <2>2
  <2>4. InUser /\ input_waiter' = input_waiter /\ ier' = ier /\ irq_pending' = Latch(f)
    BY <1>13, <2>1 DEF ReadChar, Ecall, schedVars
  <2> QED BY <1>4, <2>3, <2>4
<1>14. ASSUME NEW call, NEW of, NEW S, NEW exists, InUser,
              \/ WaitReaps(call, of, S)
              \/ WaitFails(call, of, S, exists)
              \/ WaitInterrupted(call, of, S, exists)
              \/ WaitPolls(call, of, S, exists)
       PROVE  Armed'
  <2>1. CASE WaitReaps(call, of, S) \/ WaitFails(call, of, S, exists)
    BY <1>3, <2>1 DEF WaitReaps, WaitFails, Reap, inputVars, schedVars
  <2>2. CASE WaitInterrupted(call, of, S, exists)
    <3>1. PICK a \in Arrivals :
             Interrupted(rx \o a) /\ irq_pending' = Latch(rx \o a)
      BY <2>2 DEF WaitInterrupted
    <3>2. input_waiter' = input_waiter
      BY <2>2 DEF WaitInterrupted, KillFirstOf, Kill, schedVars
    <3>3. ier' = ier /\ rx \o a # <<>>
      BY <2>2, <3>1 DEF WaitInterrupted, Interrupted
    <3> QED BY <1>4, <1>14, <3>1, <3>2, <3>3
  <2>3. CASE WaitPolls(call, of, S, exists)
    <3>1. PICK a \in Arrivals : Peek(rx \o a) /\ irq_pending' = Latch(rx \o a)
      BY <2>3 DEF WaitPolls
    <3>2. input_waiter' = input_waiter /\ ier' = ier
      BY <2>3 DEF WaitPolls, Switch
    <3>3. rx \o a = <<>> => pushback' = pushback /\ rx' = <<>>
      BY <3>1 DEF Peek
    <3> QED BY <1>4, <1>14, <3>1, <3>2, <3>3
  <2> QED BY <1>14, <2>1, <2>2, <2>3
<1>15. CASE Wait
  BY <1>14, <1>15 DEF Wait, Ecall
<1>16. CASE \E t \in Pids : WaitPid(t)
  BY <1>14, <1>16 DEF WaitPid, Ecall
<1>17. CASE UNCHANGED vars
  BY <1>3, <1>17 DEF vars, inputVars, schedVars
<1> QED
  BY <1>5, <1>6, <1>7, <1>8, <1>9, <1>10, <1>11, <1>12, <1>13, <1>15, <1>16, <1>17
  DEF Next

-----------------------------------------------------------------------------
(* Framebuffer and descriptors.                                            *)

Owners == {p \in Pids : fb_mapped[p]}
Alive == {"READY", "BLOCKED"}

\* FramebufferOwned without the clause on process states.
OwnersCounted ==
    /\ FbTypeOK
    /\ user_count = Cardinality(Owners)
    /\ dbmode => user_count > 0

(* There are finitely many owners. *)
LEMMA OwnersFinite == IsFiniteSet(Owners) /\ Cardinality(Owners) \in Nat
<1>1. IsFiniteSet(Pids)
  BY FS_Interval, MaxPidAssumption DEF Pids
<1>2. Owners \in SUBSET Pids
  BY DEF Owners
<1> QED BY <1>1, <1>2, FS_Subset, FS_CardinalityType

(* release gives back one ownership, or none. *)
LEMMA ReleaseFacts ==
    ASSUME OwnersCounted, NEW p \in Pids, ReleaseFramebuffer(p)
    PROVE  OwnersCounted' /\ fb_mapped' = [fb_mapped EXCEPT ![p] = FALSE]
<1>1. fb_mapped \in [Pids -> BOOLEAN] /\ user_count \in Nat /\ dbmode \in BOOLEAN
  BY DEF OwnersCounted, FbTypeOK
<1>2. CASE fb_mapped[p]
  <2>1. /\ fb_mapped' = [fb_mapped EXCEPT ![p] = FALSE]
        /\ user_count' = IF user_count # 0 THEN user_count - 1 ELSE 0
        /\ dbmode' = (dbmode /\ user_count' # 0)
    BY <1>2 DEF ReleaseFramebuffer
  <2>2. Owners' = Owners \ {p} /\ p \in Owners
    BY <1>1, <1>2, <2>1 DEF Owners
  <2>3. Cardinality(Owners') = Cardinality(Owners) - 1
    BY <2>2, OwnersFinite, FS_RemoveElement
  <2>4. IsFiniteSet(Owners') /\ Cardinality(Owners') \in Nat
    BY <2>2, OwnersFinite, FS_RemoveElement, FS_CardinalityType
  <2>5. user_count = Cardinality(Owners)
    BY DEF OwnersCounted
  <2>6. user_count' = Cardinality(Owners') /\ user_count' \in Nat
    BY <1>1, <2>1, <2>3, <2>4, <2>5
  <2>7. dbmode' \in BOOLEAN /\ (dbmode' => user_count' # 0)
    BY <1>1, <2>1
  <2>8. dbmode' => user_count' > 0
    BY <2>6, <2>7
  <2>9. fb_mapped' \in [Pids -> BOOLEAN]
    BY <1>1, <2>1
  <2> QED BY <2>1, <2>6, <2>7, <2>8, <2>9 DEF OwnersCounted, FbTypeOK
<1>3. CASE ~fb_mapped[p]
  <2>1. UNCHANGED <<fb_mapped, user_count, dbmode>>
    BY <1>3 DEF ReleaseFramebuffer, fbVars
  <2>2. fb_mapped = [fb_mapped EXCEPT ![p] = FALSE]
    BY <1>1, <1>3
  <2> QED BY <2>1, <2>2 DEF OwnersCounted, FbTypeOK, Owners
<1> QED BY <1>2, <1>3

(* acquire counts a process once. *)
LEMMA AcquireFacts ==
    ASSUME OwnersCounted, current \in Pids, MapFramebuffer
    PROVE  /\ OwnersCounted'
           /\ fb_mapped' = [fb_mapped EXCEPT ![current] = TRUE]
<1>1. fb_mapped \in [Pids -> BOOLEAN] /\ user_count \in Nat /\ dbmode \in BOOLEAN
  BY DEF OwnersCounted, FbTypeOK
<1>2. CASE ~fb_mapped[current]
  <2>1. /\ fb_mapped' = [fb_mapped EXCEPT ![current] = TRUE]
        /\ user_count' = user_count + 1
        /\ dbmode' = dbmode
    BY <1>2 DEF MapFramebuffer
  <2>2. Owners' = Owners \cup {current} /\ current \notin Owners
    BY <1>1, <1>2, <2>1 DEF Owners
  <2>3. Cardinality(Owners') = Cardinality(Owners) + 1
    BY <2>2, OwnersFinite, FS_AddElement
  <2>4. user_count' = Cardinality(Owners') /\ user_count' \in Nat /\ user_count' > 0
    BY <1>1, <2>1, <2>3 DEF OwnersCounted
  <2>5. fb_mapped' \in [Pids -> BOOLEAN]
    BY <1>1, <2>1
  <2> QED BY <1>1, <2>1, <2>4, <2>5 DEF OwnersCounted, FbTypeOK
<1>3. CASE fb_mapped[current]
  <2>1. UNCHANGED <<fb_mapped, user_count, dbmode>>
    BY <1>3 DEF MapFramebuffer, fbVars
  <2>2. fb_mapped = [fb_mapped EXCEPT ![current] = TRUE]
    BY <1>1, <1>3
  <2> QED BY <2>1, <2>2 DEF OwnersCounted, FbTypeOK, Owners
<1> QED BY <1>2, <1>3

OwnersAlive == \A p \in Pids : fb_mapped[p] => state[p] \in Alive

(* Apart from exit and kill no transition ends the life of a process. *)
LEMMA LivesOn ==
    ASSUME SchedInv, NEW p \in Pids, state[p] \in Alive,
           \/ Switch \/ Block \/ BlockDeclined \/ Wake \/ Spawn \/ SpawnAbandoned
           \/ (\E S : Reap(S))
           \/ UNCHANGED schedVars
    PROVE  state'[p] \in Alive
<1>1. state \in [Pids -> ProcStates] /\ next_pid \in Nat
  BY MaxPidAssumption DEF SchedInv, SchedTypeOK
<1>2. CASE Switch \/ Wake
  BY <1>2 DEF Switch, Wake, Alive
<1>3. CASE Block
  BY <1>1, <1>3 DEF Block, Alive, SchedInv, SchedTypeOK
<1>4. CASE Spawn
  BY <1>1, <1>4 DEF Spawn, Alive
<1>5. CASE UNCHANGED state
  BY <1>5
<1> QED
  BY <1>2, <1>3, <1>4, <1>5 DEF BlockDeclined, SpawnAbandoned, Reap, schedVars

(* A kill ends the life of its victim only. *)
LEMMA KillsOne ==
    ASSUME SchedInv, NEW t \in Pids, Kill({t})
    PROVE  \A p \in Pids \ {t} : state'[p] = state[p]
<1>1. PICK i \in 1..Len(ready) : ready[i] = t /\ state' = [state EXCEPT ![ready[i]] = "EXITED"]
  BY DEF Kill, IsFirst
<1> QED BY <1>1 DEF SchedInv, SchedTypeOK

(* Ownership is given back with the life of its owner. *)
LEMMA OwnershipStep ==
    ASSUME SchedInv, TypeOK, OwnersCounted, OwnersAlive, [Next]_vars
    PROVE  OwnersCounted' /\ OwnersAlive'
<1>1. fb_mapped \in [Pids -> BOOLEAN] /\ dbmode \in BOOLEAN
  BY DEF OwnersCounted, FbTypeOK
<1>2. ASSUME UNCHANGED fbVars,
             \A p \in Pids : state[p] \in Alive => state'[p] \in Alive
      PROVE  OwnersCounted' /\ OwnersAlive'
  <2>1. fb_mapped' = fb_mapped /\ user_count' = user_count /\ dbmode' = dbmode
    BY <1>2 DEF fbVars
  <2>2. Owners' = Owners
    BY <2>1 DEF Owners
  <2>3. OwnersCounted'
    BY <2>1, <2>2 DEF OwnersCounted, FbTypeOK
  <2>4. OwnersAlive'
    BY <1>2, <2>1 DEF OwnersAlive
  <2> QED BY <2>3, <2>4
<1>3. ASSUME NEW t \in Pids, ReleaseFramebuffer(t),
             \A p \in Pids \ {t} : state'[p] = state[p]
      PROVE  OwnersCounted' /\ OwnersAlive'
  <2>1. OwnersCounted' /\ fb_mapped' = [fb_mapped EXCEPT ![t] = FALSE]
    BY <1>3, ReleaseFacts
  <2> QED BY <1>1, <1>3, <2>1 DEF OwnersAlive
<1>4. CASE Receive \/ ReadChar \/ Shutdown \/ Fault \/ Open \/ \E f \in Fds : Close(f)
  BY <1>2, <1>4, LivesOn DEF Receive, ReadChar, Shutdown, Fault, Open, Close
<1>5. CASE Timer \/ Yield
  BY <1>2, <1>5, LivesOn DEF Timer, Yield
<1>6. CASE ExternalInterrupt
  BY <1>2, <1>6, LivesOn DEF ExternalInterrupt
<1>7. CASE Fork \/ Exec
  BY <1>2, <1>7, LivesOn DEF Fork, Exec
<1>8. CASE ReadCharSleeps
  BY <1>2, <1>8, LivesOn DEF ReadCharSleeps
<1>9. CASE Exit
  <2>1. current \in Pids /\ ReleaseFramebuffer(current)
    BY <1>9 DEF Exit, ExitCurrent, SchedInv, SchedTypeOK
  <2>2. \A p \in Pids \ {current} : state'[p] = state[p]
    BY <1>9 DEF Exit, ExitCurrent, SchedInv, SchedTypeOK
  <2> QED BY <1>3, <2>1, <2>2
<1>10. CASE \E t \in Pids : KillCall(t)
  BY <1>3, <1>10, KillsOne DEF KillCall
<1>11. ASSUME NEW call, NEW of, NEW S, NEW exists,
              \/ WaitReaps(call, of, S)
              \/ WaitFails(call, of, S, exists)
              \/ WaitInterrupted(call, of, S, exists)
              \/ WaitPolls(call, of, S, exists)
       PROVE  OwnersCounted' /\ OwnersAlive'
  <2>1. CASE WaitReaps(call, of, S)
    BY <1>2, <2>1, LivesOn DEF WaitReaps
  <2>2. CASE WaitFails(call, of, S, exists)
    BY <1>2, <2>2, LivesOn DEF WaitFails
  <2>3. CASE WaitPolls(call, of, S, exists)
    BY <1>2, <2>3, LivesOn DEF WaitPolls
  <2>4. CASE WaitInterrupted(call, of, S, exists)
    <3>1. KillFirstOf(S)
      BY <2>4 DEF WaitInterrupted
    <3>2. CASE UNCHANGED <<schedVars, fbVars>>
      BY <1>2, <3>2, LivesOn
    <3>3. CASE \E i \in 1..Len(ready) : Kill({ready[i]}) /\ ReleaseFramebuffer(ready[i])
      <4>1. PICK i \in 1..Len(ready) : Kill({ready[i]}) /\ ReleaseFramebuffer(ready[i])
        BY <3>3
      <4>2. ready[i] \in Pids
        BY DEF SchedInv, SchedTypeOK
      <4> QED BY <1>3, <4>1, <4>2, KillsOne
    <3> QED BY <3>1, <3>2, <3>3 DEF KillFirstOf
  <2> QED BY <1>11, <2>1, <2>2, <2>3, <2>4
<1>12. CASE Wait
  BY <1>11, <1>12 DEF Wait
<1>13. CASE \E t \in Pids : WaitPid(t)
  BY <1>11, <1>13 DEF WaitPid
<1>14. CASE MapFramebuffer
  <2>1. current \in Pids /\ UNCHANGED state
    BY <1>14 DEF MapFramebuffer, Ecall, SchedInv, SchedTypeOK, schedVars
  <2>2. state[current] \in Alive
    BY <2>1 DEF SchedInv, OneHome, Alive
  <2>3. OwnersCounted' /\ fb_mapped' = [fb_mapped EXCEPT ![current] = TRUE]
    BY <1>14, <2>1, AcquireFacts
  <2> QED BY <1>1, <2>1, <2>2, <2>3 DEF OwnersAlive
<1>15. CASE StoreDbmode
  <2>1. /\ current \in Pids /\ fb_mapped[current] /\ dbmode' = ~dbmode
        /\ UNCHANGED <<state, fb_mapped, user_count>>
    BY <1>15 DEF StoreDbmode, Ecall, SchedInv, SchedTypeOK, schedVars
  <2>2. Owners' = Owners /\ current \in Owners
    BY <2>1 DEF Owners
  <2>3. Cardinality(Owners) # 0
    BY <2>2, OwnersFinite, FS_EmptySet
  <2>4. user_count' = Cardinality(Owners') /\ user_count' \in Nat /\ user_count' > 0
    BY <2>1, <2>2, <2>3 DEF OwnersCounted, FbTypeOK
  <2>5. dbmode' \in BOOLEAN
    BY <2>1
  <2> QED BY <1>1, <2>1, <2>4, <2>5 DEF OwnersCounted, FbTypeOK, OwnersAlive
<1>16. CASE UNCHANGED vars
  BY <1>2, <1>16, LivesOn DEF vars
<1> QED
  BY <1>4, <1>5, <1>6, <1>7, <1>8, <1>9, <1>10, <1>12, <1>13, <1>14, <1>15, <1>16
  DEF Next

(* Descriptors stay in the table. *)
LEMMA FdStep == ASSUME TypeOK, [Next]_vars PROVE FdTypeOK'
<1>1. FdTypeOK
  BY TypeGroups
<1>2. ASSUME UNCHANGED fdVars PROVE FdTypeOK'
  BY <1>1, <1>2 DEF FdTypeOK, fdVars
<1>3. CASE Receive \/ Timer \/ ExternalInterrupt \/ Yield \/ Fork \/ Shutdown \/ Fault
  BY <1>2, <1>3 DEF Receive, Timer, ExternalInterrupt, Yield, Fork, Shutdown, Fault
<1>4. CASE ReadChar \/ ReadCharSleeps \/ MapFramebuffer \/ StoreDbmode
  BY <1>2, <1>4 DEF ReadChar, ReadCharSleeps, MapFramebuffer, StoreDbmode
<1>5. CASE \E t \in Pids : KillCall(t)
  BY <1>2, <1>5 DEF KillCall
<1>6. CASE Wait
  BY <1>2, <1>6 DEF Wait, WaitReaps, WaitFails, WaitInterrupted, WaitPolls
<1>7. CASE \E t \in Pids : WaitPid(t)
  BY <1>2, <1>7 DEF WaitPid, WaitReaps, WaitFails, WaitInterrupted, WaitPolls
<1>8. CASE Exec
  BY <1>1, <1>8, KernelAssumption DEF Exec, FdTypeOK
<1>9. CASE Exit \/ Open \/ \E f \in Fds : Close(f)
  BY <1>1, <1>9 DEF Exit, Open, Close, FdTypeOK
<1>10. CASE UNCHANGED vars
  BY <1>2, <1>10 DEF vars
<1> QED
  BY <1>3, <1>4, <1>5, <1>6, <1>7, <1>8, <1>9, <1>10 DEF Next

-----------------------------------------------------------------------------
(* The inductive invariant of the kernel and what follows from it.         *)

KernelInvariant ==
    /\ SchedInv
    /\ TypeOK
    /\ FifoBounded
    /\ Armed
    /\ OwnersCounted
    /\ OwnersAlive

(* It holds initially. *)
LEMMA InitInvariant == Init => KernelInvariant
<1> SUFFICES ASSUME Init PROVE KernelInvariant
  OBVIOUS
<1>1. SchedInv /\ TypeOK
  BY SchedInitInv, InitTypeOK DEF Init
<1>2. FifoBounded
  BY EmptySeq, KernelAssumption DEF Init, FifoBounded
<1>3. Armed
  BY DEF Init, SchedInit, Armed, WakeupNotLost
<1>4. OwnersCounted /\ OwnersAlive
  <2>1. Owners = {}
    BY DEF Init, Owners
  <2>2. user_count = Cardinality(Owners)
    BY <2>1, FS_EmptySet DEF Init
  <2>3. FbTypeOK
    BY <1>1, TypeGroups
  <2> QED BY <2>2, <2>3 DEF Init, OwnersCounted, OwnersAlive
<1> QED BY <1>1, <1>2, <1>3, <1>4 DEF KernelInvariant

(* Every step keeps it. *)
LEMMA StepInvariant == KernelInvariant /\ [Next]_vars => KernelInvariant'
<1> SUFFICES ASSUME KernelInvariant, [Next]_vars PROVE KernelInvariant'
  OBVIOUS
<1> USE DEF KernelInvariant
<1>1. SchedInv'
  BY TrapIsSchedStep, SchedStepInv DEF SchedInv
<1>2. InputTypeOK' /\ FifoBounded'
  BY InputStep
<1>3. OwnersCounted' /\ OwnersAlive'
  BY OwnershipStep
<1>4. CallTypeOK' /\ FdTypeOK'
  BY CallStep, FdStep
<1>5. SchedTypeOK' /\ FbTypeOK'
  BY <1>1, <1>3 DEF SchedInv, OwnersCounted
<1>6. TypeOK'
  BY <1>2, <1>4, <1>5 DEF TypeOK, CallTypeOK, InputTypeOK, FbTypeOK, FdTypeOK
<1>7. Armed'
  BY ArmedStep
<1> QED BY <1>1, <1>2, <1>3, <1>6, <1>7

(* So it is an invariant. *)
LEMMA KernelKeepsInvariant == Spec => []KernelInvariant
BY InitInvariant, StepInvariant, PTL DEF Spec

(* Every variable of the kernel keeps its type. *)
THEOREM KernelTypeOK == Spec => []TypeOK
<1>1. KernelInvariant => TypeOK
  BY DEF KernelInvariant
<1> QED BY <1>1, KernelKeepsInvariant, PTL

(* No wake-up is lost: a process asleep in readchar with a byte to read has an
   interrupt pending, whatever arrives during which handler. *)
THEOREM KernelWakeupNotLost == Spec => []WakeupNotLost
<1>1. KernelInvariant => WakeupNotLost
  BY DEF KernelInvariant, Armed
<1> QED BY <1>1, KernelKeepsInvariant, PTL

(* Console input is consumed in the order typed, through the FIFO and the
   pushback buffer, and only by readchar and by the waits that see Ctrl-C. *)
THEOREM KernelInputInOrder == Spec => InputInOrder
<1>1. KernelInvariant /\ [Next]_vars => KeepsOrder
  BY KeepsOrderStep DEF KernelInvariant
<1>2. Spec => [][KeepsOrder]_vars
  BY <1>1, KernelKeepsInvariant, PTL DEF Spec
<1> QED BY <1>2 DEF InputInOrder, KeepsOrder

(* The framebuffer's user count is the number of living owners, and double
   buffering has one. *)
THEOREM KernelFramebufferOwned == Spec => []FramebufferOwned
<1>1. KernelInvariant => FramebufferOwned
  BY DEF KernelInvariant, OwnersCounted, OwnersAlive, Owners, Alive, FramebufferOwned
<1> QED BY <1>1, KernelKeepsInvariant, PTL

-----------------------------------------------------------------------------
(* One console reader.                                                     *)

\* At most one process reads the console: the instances without the
\* overwritten input_waiter slot.
OneReader == \A p, q \in Readers : p = q

\* Whoever sleeps is the input waiter.
OneSleeper == \A p \in Pids : state[p] = "BLOCKED" => input_waiter = p /\ p \in Readers

(* The slot holds every sleeper, as long as there is one reader. *)
LEMMA OneSleeperStep ==
    ASSUME OneReader, KernelInvariant, OneSleeper, [Next]_vars PROVE OneSleeper'
<1>1. SchedInv
  BY DEF KernelInvariant
<1>2. /\ state \in [Pids -> ProcStates] /\ current \in Pids \cup {Null}
      /\ input_waiter \in Pids \cup {Null} /\ Null \notin Pids
      /\ next_pid \in Nat /\ ready \in Seq(Pids)
  BY <1>1, MaxPidAssumption DEF SchedInv, SchedTypeOK, Pids, Null
<1>3. ASSUME input_waiter' = input_waiter,
             \A p \in Pids : state'[p] = "BLOCKED" => state[p] = "BLOCKED"
      PROVE  OneSleeper'
  BY <1>3 DEF OneSleeper
<1>4. ASSUME Switch \/ Spawn \/ SpawnAbandoned \/ ExitCurrent \/ (\E S : Reap(S))
             \/ (\E S : Kill(S)) \/ UNCHANGED schedVars
      PROVE  OneSleeper'
  <2>1. CASE Switch
    BY <1>3, <2>1 DEF Switch
  <2>2. CASE Spawn
    BY <1>2, <1>3, <2>2 DEF Spawn
  <2>3. CASE ExitCurrent
    BY <1>2, <1>3, <2>3 DEF ExitCurrent
  <2>4. CASE \E S : Kill(S)
    <3>1. PICK i \in 1..Len(ready) : state' = [state EXCEPT ![ready[i]] = "EXITED"]
      BY <2>4 DEF Kill
    <3>2. input_waiter' = input_waiter
      BY <2>4 DEF Kill
    <3> QED BY <1>2, <1>3, <3>1, <3>2
  <2>5. CASE UNCHANGED <<input_waiter, state>>
    BY <1>3, <2>5
  <2> QED
    BY <1>4, <2>1, <2>2, <2>3, <2>4, <2>5 DEF SpawnAbandoned, Reap, schedVars
<1>5. CASE ExternalInterrupt
  <2>1. CASE UNCHANGED schedVars
    BY <1>4, <2>1
  <2>2. CASE Wake
    BY <2>2 DEF Wake, OneSleeper
  <2> QED BY <1>5, <2>1, <2>2 DEF ExternalInterrupt
<1>6. CASE ReadCharSleeps
  <2>1. current \in Pids /\ current \in Readers /\ (Block \/ BlockDeclined)
    BY <1>2, <1>6 DEF ReadCharSleeps, Ecall
  <2>2. \A p \in Pids : state[p] # "BLOCKED"
    <3>1. state[current] = "READY"
      BY <1>1, <2>1 DEF SchedInv, OneHome
    <3> QED BY <2>1, <3>1 DEF OneSleeper, OneReader
  <2>3. CASE Block
    BY <1>2, <2>1, <2>2, <2>3 DEF Block, OneSleeper
  <2>4. CASE BlockDeclined
    BY <2>2, <2>4 DEF BlockDeclined, OneSleeper
  <2> QED BY <2>1, <2>3, <2>4
<1>7. CASE Receive \/ ReadChar \/ Shutdown \/ Fault \/ MapFramebuffer \/ StoreDbmode
  BY <1>4, <1>7 DEF Receive, ReadChar, Shutdown, Fault, MapFramebuffer, StoreDbmode
<1>8. CASE Open \/ \E f \in Fds : Close(f)
  BY <1>4, <1>8 DEF Open, Close
<1>9. CASE Timer \/ Yield \/ Fork \/ Exec \/ Exit
  BY <1>4, <1>9 DEF Timer, Yield, Fork, Exec, Exit
<1>10. CASE \E t \in Pids : KillCall(t)
  BY <1>4, <1>10 DEF KillCall
<1>11. ASSUME NEW call, NEW of, NEW S, NEW exists,
              \/ WaitReaps(call, of, S)
              \/ WaitFails(call, of, S, exists)
              \/ WaitInterrupted(call, of, S, exists)
              \/ WaitPolls(call, of, S, exists)
       PROVE  OneSleeper'
  BY <1>4, <1>11 DEF WaitReaps, WaitFails, WaitInterrupted, KillFirstOf, WaitPolls
<1>12. CASE Wait
  BY <1>11, <1>12 DEF Wait
<1>13. CASE \E t \in Pids : WaitPid(t)
  BY <1>11, <1>13 DEF WaitPid
<1>14. CASE UNCHANGED vars
  BY <1>4, <1>14 DEF vars
<1> QED
  BY <1>5, <1>6, <1>7, <1>8, <1>9, <1>10, <1>12, <1>13, <1>14 DEF Next

(* With one reader the slot always holds the sleeper. *)
LEMMA KernelOneSleeper == ASSUME OneReader PROVE Spec => []OneSleeper
<1>1. Init => OneSleeper
  BY DEF Init, SchedInit, OneSleeper
<1>2. KernelInvariant /\ OneSleeper /\ [Next]_vars => OneSleeper'
  BY OneSleeperStep
<1> QED BY <1>1, <1>2, KernelKeepsInvariant, PTL DEF Spec

(* pidalive is exact, then. *)
LEMMA AliveExact == ASSUME KernelInvariant, OneSleeper PROVE PidAliveExact
<1> SUFFICES ASSUME NEW p \in Pids
             PROVE  pid_alive(p) <=> state[p] \in {"READY", "BLOCKED"}
  BY DEF PidAliveExact
<1>1. p # Null
  BY DEF Pids, Null
<1>2. /\ state[p] = "READY" <=> p = current \/ p \in Ready
      /\ input_waiter = p => state[p] = "BLOCKED"
  BY <1>1 DEF KernelInvariant, SchedInv, OneHome
<1>3. state[p] = "BLOCKED" => input_waiter = p
  BY DEF OneSleeper
<1> QED BY <1>1, <1>2, <1>3 DEF pid_alive, pid_in_queue

(* With one console reader, any number of processes and any programs, pidalive
   answers 1 exactly for the processes that have not exited. *)
THEOREM KernelPidAliveExact == ASSUME OneReader PROVE Spec => []PidAliveExact
<1>1. KernelInvariant /\ OneSleeper => PidAliveExact
  BY AliveExact
<1> QED BY <1>1, KernelKeepsInvariant, KernelOneSleeper, PTL

(* A step that answers "fail" has looked everywhere a child can be. *)
LEMMA TruthfulStep ==
    ASSUME KernelInvariant, OneSleeper, NeverMisreported, [Next]_vars
    PROVE  NeverMisreported'
<1>1. ASSUME reply'.result # "fail" PROVE NeverMisreported'
  BY <1>1 DEF NeverMisreported
<1>2. NoReply.result # "fail"
  BY DEF NoReply
<1>3. ASSUME Done(NoReply) PROVE NeverMisreported'
  BY <1>1, <1>2, <1>3 DEF Done
<1>4. ASSUME NEW call, NEW of, NEW result, result # "fail", Answer(call, of, result)
      PROVE  NeverMisreported'
  BY <1>1, <1>4 DEF Answer, Done
<1>5. CASE Receive \/ Timer \/ ExternalInterrupt
  BY <1>1, <1>2, <1>5 DEF Receive, Timer, ExternalInterrupt
<1>6. CASE Yield \/ Fork \/ Exec \/ Exit \/ Shutdown \/ Fault
  BY <1>3, <1>6 DEF Yield, Fork, Exec, Exit, Shutdown, Fault
<1>7. CASE MapFramebuffer \/ StoreDbmode \/ Open \/ \E f \in Fds : Close(f)
  BY <1>3, <1>7 DEF MapFramebuffer, StoreDbmode, Open, Close
<1>8. CASE \E t \in Pids : KillCall(t)
  BY <1>3, <1>8 DEF KillCall
<1>9. CASE ReadChar
  BY <1>4, <1>9 DEF ReadChar
<1>10. CASE ReadCharSleeps
  BY <1>1, <1>2, <1>10 DEF ReadCharSleeps, Again
<1>11. ASSUME NEW call, NEW of, NEW S, NEW exists,
              \/ WaitReaps(call, of, S)
              \/ WaitInterrupted(call, of, S, exists)
              \/ WaitPolls(call, of, S, exists)
       PROVE  NeverMisreported'
  BY <1>1, <1>2, <1>4, <1>11 DEF WaitReaps, WaitInterrupted, WaitPolls, Again
<1>12. ASSUME NEW call, NEW of, NEW S, NEW exists, WaitFails(call, of, S, exists)
       PROVE  /\ UNCHANGED <<state, parent_pid>>
              /\ reply' = [pid |-> current, call |-> call, of |-> of, result |-> "fail"]
              /\ ~exists
  BY <1>12 DEF WaitFails, Answer, Done, schedVars
<1>13. CASE Wait
  <2>1. CASE WaitFails("wait", Null, Children(current), has_children(current))
    <3>1. /\ UNCHANGED <<state, parent_pid>>
          /\ reply'.call = "wait" /\ reply'.pid = current
          /\ ~has_children(current)
      BY <1>12, <2>1
    <3>2. ASSUME NEW c \in Children(current)
          PROVE  state[c] \notin {"READY", "BLOCKED"}
      <4>1. c \in Pids /\ parent_pid[c] = current
        BY DEF Children
      <4>2. c # current
        BY <4>1 DEF KernelInvariant, SchedInv, SchedTypeOK, ParentsOlder, Pids
      <4>3. c \notin Ready /\ input_waiter # c
        BY <3>1, <4>1 DEF has_children, Null, Pids
      <4>4. state[c] # "READY"
        BY <4>1, <4>2, <4>3 DEF KernelInvariant, SchedInv, OneHome
      <4>5. state[c] # "BLOCKED"
        BY <4>1, <4>3 DEF OneSleeper
      <4> QED BY <4>4, <4>5
    <3>3. Children(current) = {c \in Pids : parent_pid'[c] = current}
      BY <3>1 DEF Children
    <3> QED BY <3>1, <3>2, <3>3 DEF NeverMisreported, Children
  <2> QED BY <1>11, <1>13, <2>1 DEF Wait
<1>14. CASE \E t \in Pids : WaitPid(t)
  <2>1. PICK t \in Pids : WaitPid(t)
    BY <1>14
  <2>2. CASE WaitFails("waitpid", t, {t}, pid_alive(t))
    <3>1. /\ UNCHANGED <<state, parent_pid>>
          /\ reply'.call = "waitpid" /\ reply'.of = t
          /\ ~pid_alive(t)
      BY <1>12, <2>2
    <3>2. state[t] \notin {"READY", "BLOCKED"}
      BY <3>1, AliveExact DEF PidAliveExact
    <3> QED BY <3>1, <3>2 DEF NeverMisreported
  <2> QED BY <1>11, <2>1, <2>2 DEF WaitPid
<1>15. CASE UNCHANGED vars
  BY <1>15 DEF vars, schedVars, NeverMisreported, Children
<1> QED
  BY <1>5, <1>6, <1>7, <1>8, <1>9, <1>10, <1>13, <1>14, <1>15 DEF Next

(* With one console reader, any number of processes and any programs, wait and
   waitpid never report a living child as finished. *)
THEOREM KernelNeverMisreported == ASSUME OneReader PROVE Spec => []NeverMisreported
<1>1. Init => NeverMisreported
  BY DEF Init, NoReply, NeverMisreported
<1>2. KernelInvariant /\ OneSleeper /\ NeverMisreported /\ [Next]_vars => NeverMisreported'
  BY TruthfulStep
<1> QED BY <1>1, <1>2, KernelKeepsInvariant, KernelOneSleeper, PTL DEF Spec
=============================================================================
