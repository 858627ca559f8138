----------------------------- MODULE LinksProofs -----------------------------
(***************************************************************************)
(* The lists that scheduler.hll threads through pcb.next implement the     *)
(* sequences of Scheduler, for every number of processes.  What the walks  *)
(* of the code find is a sequence without repetition as long as the two    *)
(* lists share no block and a block is linked only while it is on neither. *)
(***************************************************************************)
EXTENDS SchedulerLinks, SequenceTheorems, FiniteSetTheorems, NaturalsInduction,
        WellFoundedInduction, TLAPS

-----------------------------------------------------------------------------
(* A list and the sequence of its blocks.                                  *)

Elems(s) == {s[i] : i \in 1..Len(s)}

Distinct(s) == \A i, j \in 1..Len(s) : s[i] = s[j] => i = j

\* From head h the links nx lead through the blocks of s, and then to Null.
Threads(nx, h, s) ==
    /\ s \in Seq(Pids)
    /\ Distinct(s)
    /\ h = IF Len(s) = 0 THEN Null ELSE s[1]
    /\ \A i \in 1..Len(s) : nx[s[i]] = IF i = Len(s) THEN Null ELSE s[i + 1]

\* A set of numbers that is not empty has a least element.
LEMMA Least ==
    ASSUME NEW S \in SUBSET Nat, S # {}
    PROVE  \E n \in S : \A k \in S : ~(k < n)
<1>1. PICK n \in S : \A k \in S : ~(<<k, n>> \in OpToRel(<, Nat))
  BY Zenon, WFMin, NatLessThanWellFounded
<1>2. \A k \in S : k < n => <<k, n>> \in OpToRel(<, Nat)
  BY DEF OpToRel
<1> QED BY Zenon, <1>1, <1>2

\* There are no more blocks on a list than there are blocks.
LEMMA Short ==
    ASSUME NEW s \in Seq(Pids), Distinct(s)
    PROVE  Len(s) \in 0..MaxPid
<1>1. s \in Injection(1..Len(s), Pids)
  BY DEF Injection, IsInjective, Distinct
<1>2. /\ IsFiniteSet(Pids) /\ Cardinality(Pids) = MaxPid
      /\ Cardinality(1..Len(s)) = Len(s)
  BY FS_Interval, MaxPidAssumption DEF Pids
<1>3. Cardinality(1..Len(s)) <= Cardinality(Pids)
  BY ONLY <1>1, <1>2, FS_Injection
<1> QED BY <1>2, <1>3, MaxPidAssumption

\* The walk along a list: its blocks, then Null.
LEMMA WalkIs ==
    ASSUME NEW nx, NEW h, NEW s, Threads(nx, h, s)
    PROVE  \A k \in 0..MaxPid : Walk(nx, h)[k] = IF k < Len(s) THEN s[k + 1] ELSE Null
<1> DEFINE Eqn(at) == at = [k \in 0..MaxPid |->
                              IF k = 0 THEN h
                              ELSE IF at[k - 1] = Null THEN Null ELSE nx[at[k - 1]]]
           w == [k \in 0..MaxPid |-> IF k < Len(s) THEN s[k + 1] ELSE Null]
           v == Walk(nx, h)
<1>1. Len(s) \in Nat /\ Len(s) \in 0..MaxPid /\ s \in Seq(Pids)
  BY Short DEF Threads
<1>2. \A i \in 1..Len(s) : s[i] \in Pids /\ s[i] # Null
  BY <1>1, MaxPidAssumption DEF Pids, Null
<1>3. \A k \in 0..MaxPid : w[k] = IF k = 0 THEN h ELSE IF w[k - 1] = Null THEN Null ELSE nx[w[k - 1]]
  <2> SUFFICES ASSUME NEW k \in 0..MaxPid
               PROVE  w[k] = IF k = 0 THEN h ELSE IF w[k - 1] = Null THEN Null ELSE nx[w[k - 1]]
    OBVIOUS
  <2>1. \A j \in 0..MaxPid : w[j] = IF j < Len(s) THEN s[j + 1] ELSE Null
    OBVIOUS
  <2> HIDE DEF w
  <2>2. CASE k = 0
    BY <1>1, <2>1, <2>2 DEF Threads
  <2>3. CASE k # 0 /\ k - 1 < Len(s)
    <3>1. k - 1 \in 0..MaxPid /\ k \in 1..Len(s) /\ (k - 1) + 1 = k /\ (k = Len(s) <=> ~(k < Len(s)))
      BY <1>1, <2>3, MaxPidAssumption
    <3>2. w[k - 1] = s[k] /\ w[k - 1] # Null
      BY <1>2, <2>1, <2>3, <3>1
    <3>3. nx[s[k]] = IF k = Len(s) THEN Null ELSE s[k + 1]
      BY <3>1 DEF Threads
    <3> QED BY <2>1, <2>3, <3>1, <3>2, <3>3
  <2>4. CASE k # 0 /\ ~(k - 1 < Len(s))
    <3>1. k - 1 \in 0..MaxPid /\ ~(k < Len(s))
      BY <1>1, <2>4, MaxPidAssumption
    <3> QED BY <2>1, <2>4, <3>1
  <2> QED BY <2>2, <2>3, <2>4
<1>4. Eqn(w)
  <2> DEFINE e == [k \in 0..MaxPid |-> IF k = 0 THEN h ELSE IF w[k - 1] = Null THEN Null ELSE nx[w[k - 1]]]
  <2>1. w = [k \in 0..MaxPid |-> w[k]]
    OBVIOUS
  <2> HIDE DEF w
  <2>2. [k \in 0..MaxPid |-> w[k]] = e
    BY Zenon, <1>3
  <2> QED BY Zenon, <2>1, <2>2
<1>5. v = CHOOSE f : Eqn(f)
  BY Zenon DEF Walk
<1> HIDE DEF v
<1>6. Eqn(v)
  <2> HIDE DEF Eqn, w
  <2> QED BY Zenon, <1>4, <1>5
<1>7. \A k \in 0..MaxPid : v[k] = IF k = 0 THEN h ELSE IF v[k - 1] = Null THEN Null ELSE nx[v[k - 1]]
  BY <1>6
<1> DEFINE S == {k \in 0..MaxPid : v[k] # w[k]}
<1>8. S = {}
  <2> SUFFICES ASSUME S # {} PROVE FALSE
    OBVIOUS
  <2>1. PICK k \in S : \A j \in S : ~(j < k)
    <3>1. S \in SUBSET Nat
      OBVIOUS
    <3> HIDE DEF S
    <3> QED BY <3>1, Least
  <2>2. k \in 0..MaxPid /\ v[k] # w[k]
    OBVIOUS
  <2> HIDE DEF w
  <2>3. CASE k = 0
    BY <1>3, <1>7, <2>2, <2>3
  <2>4. CASE k # 0
    <3>1. k - 1 \in 0..MaxPid /\ k - 1 < k
      BY <2>2, <2>4, MaxPidAssumption
    <3>2. v[k - 1] = w[k - 1]
      BY <2>1, <3>1
    <3> QED BY Zenon, <1>3, <1>7, <2>2, <2>4, <3>2
  <2> QED BY <2>3, <2>4
<1> QED BY <1>8 DEF v

\* Reading a list off its links gives the sequence that they thread.
LEMMA ListIs ==
    ASSUME NEW nx, NEW h, NEW s, Threads(nx, h, s)
    PROVE  List(nx, h) = s
<1> DEFINE at == Walk(nx, h)
           P(n) == /\ \A k \in 0..(n - 1) : at[k] # Null
                   /\ n <= MaxPid => at[n] = Null
<1>1. Len(s) \in 0..MaxPid /\ s \in Seq(Pids)
  BY Short DEF Threads
<1>2. \A k \in 0..MaxPid : at[k] = IF k < Len(s) THEN s[k + 1] ELSE Null
  BY WalkIs
<1>3. \A i \in 1..Len(s) : s[i] # Null
  BY <1>1, MaxPidAssumption DEF Pids, Null
<1>4. Visited(at) = CHOOSE n \in 0..(MaxPid + 1) : P(n)
  BY Zenon DEF Visited
<1>5. List(nx, h) = [k \in 1..Visited(at) |-> at[k - 1]]
  BY Zenon DEF List
<1> HIDE DEF at
<1>6. \A k \in 0..(Len(s) - 1) : k \in 0..MaxPid /\ at[k] = s[k + 1] /\ at[k] # Null
  BY <1>1, <1>2, <1>3, MaxPidAssumption
<1>7. at[Len(s)] = Null
  BY <1>1, <1>2, MaxPidAssumption
<1>8. P(Len(s)) /\ Len(s) \in 0..(MaxPid + 1)
  BY <1>1, <1>6, <1>7, MaxPidAssumption
<1>9. \A n \in 0..(MaxPid + 1) : P(n) => n = Len(s)
  <2> SUFFICES ASSUME NEW n \in 0..(MaxPid + 1), P(n) PROVE n = Len(s)
    OBVIOUS
  <2>1. CASE n < Len(s)
    <3>1. n \in 0..(Len(s) - 1) /\ n <= MaxPid
      BY <1>1, <2>1, MaxPidAssumption
    <3> QED BY <1>6, <3>1
  <2>2. CASE n > Len(s)
    <3>1. Len(s) \in 0..(n - 1)
      BY <1>1, <2>2, MaxPidAssumption
    <3> QED BY <1>7, <3>1
  <2> QED BY <1>1, <2>1, <2>2, MaxPidAssumption
<1> HIDE DEF P
<1>10. Visited(at) = Len(s)
  BY Zenon, <1>4, <1>8, <1>9
<1>11. \A k \in 1..Len(s) : at[k - 1] = s[k]
  <2> SUFFICES ASSUME NEW k \in 1..Len(s) PROVE at[k - 1] = s[k]
    OBVIOUS
  <2>1. k - 1 \in 0..(Len(s) - 1) /\ (k - 1) + 1 = k
    BY <1>1
  <2> QED BY <1>6, <2>1
<1>12. [k \in 1..Len(s) |-> at[k - 1]] = [k \in 1..Len(s) |-> s[k]]
  BY Zenon, <1>11
<1>13. [k \in 1..Len(s) |-> s[k]] = s
  BY <1>1
<1> QED BY Zenon, <1>5, <1>10, <1>12, <1>13

-----------------------------------------------------------------------------
(* What the pointer assignments do to a list.                              *)

Typed(nx) == nx \in [Pids -> Pids \cup {Null}]

\* l is a head with links, and threads s.
Holds(l, s) ==
    /\ l = Links(l.head, l.next)
    /\ Typed(l.next)
    /\ Threads(l.next, l.head, s)

\* Links outside S are the same in l and m.
SameOutside(S, l, m) == \A q \in Pids \ S : m.next[q] = l.next[q]

LEMMA LinksIs ==
    ASSUME NEW h, NEW nx
    PROVE  /\ Links(h, nx).head = h /\ Links(h, nx).next = nx
           /\ \A s : Holds(Links(h, nx), s) <=> Typed(nx) /\ Threads(nx, h, s)
<1>1. Links(h, nx).head = h /\ Links(h, nx).next = nx
  BY DEF Links
<1> QED BY Zenon, <1>1 DEF Holds

\* A list does not notice links of blocks that are not on it.
LEMMA Framed ==
    ASSUME NEW nx, NEW nx2, NEW h, NEW s, Threads(nx, h, s),
           \A p \in Elems(s) : nx2[p] = nx[p]
    PROVE  Threads(nx2, h, s)
BY DEF Threads, Elems

LEMMA AppendIs ==
    ASSUME NEW s \in Seq(Pids), NEW p \in Pids, Distinct(s), p \notin Elems(s)
    PROVE  /\ Append(s, p) \in Seq(Pids) /\ Distinct(Append(s, p))
           /\ Len(Append(s, p)) = Len(s) + 1
           /\ \A i \in 1..Len(s) : Append(s, p)[i] = s[i]
           /\ Append(s, p)[Len(s) + 1] = p
           /\ Elems(Append(s, p)) = Elems(s) \cup {p}
<1> DEFINE t == Append(s, p)
<1>1. /\ t \in Seq(Pids)
      /\ Len(t) = Len(s) + 1
      /\ \A i \in 1..Len(s) : t[i] = s[i]
      /\ t[Len(s) + 1] = p
  BY AppendProperties
<1> HIDE DEF t
<1>2. Distinct(t)
  BY <1>1 DEF Distinct, Elems
<1>3. \A x : x \in Elems(t) <=> x \in Elems(s) \cup {p}
  <2>1. ASSUME NEW x \in Elems(t) PROVE x \in Elems(s) \cup {p}
    BY <1>1, <2>1 DEF Elems
  <2>2. ASSUME NEW x \in Elems(s) PROVE x \in Elems(t)
    BY <1>1, <2>2 DEF Elems
  <2>3. p \in Elems(t)
    BY <1>1 DEF Elems
  <2> QED BY <2>1, <2>2, <2>3
<1> QED BY <1>1, <1>2, <1>3 DEF t

LEMMA ConsIs ==
    ASSUME NEW s \in Seq(Pids), NEW p \in Pids, Distinct(s), p \notin Elems(s)
    PROVE  /\ <<p>> \o s \in Seq(Pids) /\ Distinct(<<p>> \o s)
           /\ Len(<<p>> \o s) = Len(s) + 1
           /\ (<<p>> \o s)[1] = p
           /\ \A i \in 2..(Len(s) + 1) : (<<p>> \o s)[i] = s[i - 1]
           /\ Elems(<<p>> \o s) = Elems(s) \cup {p}
<1> DEFINE t == <<p>> \o s
<1>1. /\ t \in Seq(Pids)
      /\ Len(t) = Len(s) + 1
      /\ t[1] = p
      /\ \A i \in 2..(Len(s) + 1) : t[i] = s[i - 1]
  <2>1. <<p>> \in Seq(Pids) /\ Len(<<p>>) = 1 /\ <<p>>[1] = p
    OBVIOUS
  <2>2. /\ t \in Seq(Pids)
        /\ Len(t) = 1 + Len(s)
        /\ \A i \in 1..(1 + Len(s)) : t[i] = IF i <= 1 THEN <<p>>[i] ELSE s[i - 1]
    BY <2>1, ConcatProperties
  <2> QED BY <2>1, <2>2
<1> HIDE DEF t
<1>2. Distinct(t)
  <2> SUFFICES ASSUME NEW i \in 1..Len(t), NEW j \in 1..Len(t), t[i] = t[j] PROVE i = j
    BY DEF Distinct
  <2>1. \A k \in 1..Len(t) : k = 1 \/ (k - 1 \in 1..Len(s) /\ t[k] = s[k - 1] /\ t[k] # p)
    BY <1>1 DEF Elems
  <2>2. CASE i = 1 \/ j = 1
    BY <1>1, <2>1, <2>2
  <2>3. CASE i # 1 /\ j # 1
    <3>1. i - 1 = j - 1
      BY <2>1, <2>3 DEF Distinct
    <3> QED BY <3>1
  <2> QED BY <2>2, <2>3
<1>3. \A x : x \in Elems(t) <=> x \in Elems(s) \cup {p}
  <2>1. ASSUME NEW x \in Elems(t) PROVE x \in Elems(s) \cup {p}
    <3>1. PICK i \in 1..Len(t) : x = t[i]
      BY <2>1 DEF Elems
    <3>2. i = 1 \/ (i - 1 \in 1..Len(s) /\ t[i] = s[i - 1])
      BY <1>1
    <3> QED BY <1>1, <3>1, <3>2 DEF Elems
  <2>2. ASSUME NEW x \in Elems(s) PROVE x \in Elems(t)
    <3>1. PICK i \in 1..Len(s) : x = s[i]
      BY <2>2 DEF Elems
    <3>2. i + 1 \in 1..Len(t) /\ i + 1 \in 2..(Len(s) + 1) /\ (i + 1) - 1 = i
      BY <1>1
    <3>3. t[i + 1] = x
      BY <1>1, <3>1, <3>2
    <3> QED BY <3>2, <3>3 DEF Elems
  <2>3. p \in Elems(t)
    <3>1. 1 \in 1..Len(t)
      BY <1>1
    <3> QED BY <1>1, <3>1 DEF Elems
  <2> QED BY <2>1, <2>2, <2>3
<1> QED BY <1>1, <1>2, <1>3 DEF t

LEMMA TailIs ==
    ASSUME NEW s \in Seq(Pids), Distinct(s), Len(s) # 0
    PROVE  /\ s # <<>> /\ Head(s) = s[1] /\ s[1] \in Pids /\ s[1] \in Elems(s)
           /\ Tail(s) \in Seq(Pids) /\ Distinct(Tail(s))
           /\ Len(Tail(s)) = Len(s) - 1
           /\ \A i \in 1..(Len(s) - 1) : Tail(s)[i] = s[i + 1]
           /\ Elems(Tail(s)) \subseteq Elems(s) \ {s[1]}
<1> DEFINE t == Tail(s)
<1>1. s # <<>> /\ Head(s) = s[1] /\ s[1] \in Pids /\ Len(s) \in Nat \ {0}
  OBVIOUS
<1>2. /\ t \in Seq(Pids) /\ Len(t) = Len(s) - 1
      /\ \A i \in 1..(Len(s) - 1) : t[i] = s[i + 1]
  BY <1>1, HeadTailProperties
<1> HIDE DEF t
<1>3. \A i \in 1..Len(t) : i + 1 \in 1..Len(s) /\ t[i] = s[i + 1] /\ t[i] # s[1]
  BY <1>1, <1>2 DEF Distinct
<1>4. Distinct(t)
  BY <1>1, <1>2, <1>3 DEF Distinct
<1>5. Elems(t) \subseteq Elems(s) \ {s[1]}
  <2> SUFFICES ASSUME NEW i \in 1..Len(t) PROVE t[i] \in Elems(s) \ {s[1]}
    BY DEF Elems
  <2> QED BY <1>3 DEF Elems
<1>6. s[1] \in Elems(s)
  BY <1>1 DEF Elems
<1> QED BY <1>1, <1>2, <1>4, <1>5, <1>6 DEF t

LEMMA RemoveAtIs ==
    ASSUME NEW s \in Seq(Pids), NEW i \in 1..Len(s), Distinct(s)
    PROVE  /\ RemoveAt(s, i) \in Seq(Pids) /\ Distinct(RemoveAt(s, i))
           /\ Len(RemoveAt(s, i)) = Len(s) - 1
           /\ \A j \in 1..(Len(s) - 1) :
                RemoveAt(s, i)[j] = IF j < i THEN s[j] ELSE s[j + 1]
           /\ Elems(RemoveAt(s, i)) \subseteq Elems(s)
<1> DEFINE a == SubSeq(s, 1, i - 1)
           b == SubSeq(s, i + 1, Len(s))
           t == RemoveAt(s, i)
<1>1. /\ a \in Seq(Pids) /\ Len(a) = i - 1
      /\ \A j \in 1..(i - 1) : a[j] = s[j]
  BY SubSeqProperties
<1>2. /\ b \in Seq(Pids) /\ Len(b) = Len(s) - i
      /\ \A j \in 1..(Len(s) - i) : b[j] = s[i + j]
  BY SubSeqProperties
<1>3. t = a \o b
  BY DEF RemoveAt
<1> HIDE DEF a, b, t
<1>4. /\ a \o b \in Seq(Pids)
      /\ Len(a \o b) = Len(a) + Len(b)
      /\ \A j \in 1..(Len(a) + Len(b)) :
            (a \o b)[j] = IF j <= Len(a) THEN a[j] ELSE b[j - Len(a)]
  BY <1>1, <1>2, ConcatProperties
<1>5. /\ t \in Seq(Pids) /\ Len(t) = Len(s) - 1
      /\ \A j \in 1..(Len(s) - 1) : t[j] = IF j < i THEN s[j] ELSE s[j + 1]
  BY <1>1, <1>2, <1>3, <1>4
<1>6. Distinct(t)
  BY <1>5 DEF Distinct
<1>7. Elems(t) \subseteq Elems(s)
  BY <1>5 DEF Elems
<1> QED BY <1>5, <1>6, <1>7 DEF t

\* scheduler_add puts the block behind the last one.
LEMMA AddTailIs ==
    ASSUME NEW l, NEW s, Holds(l, s), NEW p \in Pids, p \notin Elems(s)
    PROVE  /\ Holds(AddTail(l, p), Append(s, p))
           /\ SameOutside(Elems(s) \cup {p}, l, AddTail(l, p))
<1> DEFINE nx == l.next
           cleared == [nx EXCEPT ![p] = Null]
           t == Append(s, p)
<1>1. s \in Seq(Pids) /\ Distinct(s) /\ nx \in [Pids -> Pids \cup {Null}] /\ Len(s) \in Nat
  BY DEF Holds, Typed, Threads
<1>2. /\ t \in Seq(Pids) /\ Distinct(t) /\ Len(t) = Len(s) + 1
      /\ \A i \in 1..Len(s) : t[i] = s[i]
      /\ t[Len(s) + 1] = p
  BY <1>1, AppendIs
<1>3. \A q \in Elems(s) : cleared[q] = nx[q]
  BY <1>1 DEF Elems
<1>4. Threads(cleared, l.head, s)
  BY <1>3, Framed DEF Holds
<1>5. List(cleared, l.head) = s
  BY Zenon, <1>4, ListIs
<1>6. cleared \in [Pids -> Pids \cup {Null}] /\ cleared[p] = Null
      /\ \A q \in Pids : q # p => cleared[q] = nx[q]
  BY <1>1
<1>7. l.head = IF Len(s) = 0 THEN Null ELSE s[1]
  BY DEF Holds, Threads
<1>8. \A i \in 1..Len(s) : s[i] \in Pids /\ s[i] # Null /\ s[i] # p /\ s[i] \in Elems(s)
  BY <1>1, MaxPidAssumption DEF Pids, Null, Elems
<1>9. AddTail(l, p) = IF l.head = Null THEN Links(p, cleared)
                      ELSE Links(l.head, [cleared EXCEPT ![Last(s)] = p])
  BY Zenon, <1>5 DEF AddTail
<1> HIDE DEF t
<1>10. CASE Len(s) = 0
  <2>1. AddTail(l, p) = Links(p, cleared)
    BY <1>7, <1>9, <1>10
  <2>2. Threads(cleared, p, t)
    BY <1>2, <1>6, <1>10 DEF Threads
  <2> QED BY <1>6, <2>1, <2>2, LinksIs DEF Typed, SameOutside, t
<1>11. CASE Len(s) # 0
  <2> DEFINE e == s[Len(s)]
             n2 == [cleared EXCEPT ![e] = p]
  <2>1. 1 \in 1..Len(s) /\ Len(s) \in 1..Len(s) /\ Last(s) = e
    BY <1>1, <1>11 DEF Last
  <2>2. AddTail(l, p) = Links(l.head, n2) /\ l.head = s[1]
    BY <1>7, <1>8, <1>9, <1>11, <2>1
  <2>3. e \in Pids /\ e # p /\ e \in Elems(s)
    BY <1>8, <2>1
  <2> HIDE DEF cleared
  <2>4. n2 \in [Pids -> Pids \cup {Null}] /\ n2[e] = p /\ \A q \in Pids : q # e => n2[q] = cleared[q]
    BY <1>6, <2>3
  <2> HIDE DEF n2
  <2>5. \A i \in 1..Len(t) : n2[t[i]] = IF i = Len(t) THEN Null ELSE t[i + 1]
    <3> SUFFICES ASSUME NEW i \in 1..Len(t) PROVE n2[t[i]] = IF i = Len(t) THEN Null ELSE t[i + 1]
      OBVIOUS
    <3>1. CASE i = Len(s) + 1
      BY <1>2, <1>6, <2>3, <2>4, <3>1
    <3>2. CASE i = Len(s)
      BY <1>1, <1>2, <1>11, <2>4, <3>2
    <3>3. CASE i < Len(s)
      <4>1. i \in 1..Len(s) /\ i + 1 \in 1..Len(s) /\ i # Len(s) /\ i # Len(t)
        BY <1>1, <1>2, <3>3
      <4>2. t[i] = s[i] /\ t[i + 1] = s[i + 1] /\ s[i] # e /\ s[i] # p /\ s[i] \in Pids
        BY <1>1, <1>2, <1>8, <2>1, <4>1 DEF Distinct
      <4>3. n2[s[i]] = nx[s[i]]
        BY <1>6, <2>4, <4>2
      <4>4. nx[s[i]] = s[i + 1]
        BY <4>1 DEF Holds, Threads
      <4> QED BY <4>1, <4>2, <4>3, <4>4
    <3> QED BY <1>1, <1>2, <3>1, <3>2, <3>3
  <2>6. t[1] = s[1] /\ Len(t) # 0
    BY <1>1, <1>2, <1>11, <2>1
  <2>7. Threads(n2, l.head, t)
    BY <1>2, <2>2, <2>5, <2>6 DEF Threads
  <2>8. \A q \in Pids \ (Elems(s) \cup {p}) : n2[q] = nx[q]
    BY <1>6, <2>3, <2>4
  <2> QED BY <2>2, <2>4, <2>7, <2>8, LinksIs DEF Typed, SameOutside, t
<1> QED BY <1>10, <1>11

\* make_zombie and wake_input_waiter put the block before the first one.
LEMMA AddFrontIs ==
    ASSUME NEW l, NEW s, Holds(l, s), NEW p \in Pids, p \notin Elems(s)
    PROVE  /\ Holds(AddFront(l, p), <<p>> \o s)
           /\ SameOutside({p}, l, AddFront(l, p))
<1> DEFINE nx == l.next
           n2 == [nx EXCEPT ![p] = l.head]
           t == <<p>> \o s
<1>1. s \in Seq(Pids) /\ Distinct(s) /\ nx \in [Pids -> Pids \cup {Null}] /\ Len(s) \in Nat
  BY DEF Holds, Typed, Threads
<1>2. /\ t \in Seq(Pids) /\ Distinct(t) /\ Len(t) = Len(s) + 1
      /\ t[1] = p /\ \A i \in 2..(Len(s) + 1) : t[i] = s[i - 1]
  BY <1>1, ConsIs
<1>3. l.head = IF Len(s) = 0 THEN Null ELSE s[1]
  BY DEF Holds, Threads
<1>4. l.head \in Pids \cup {Null}
  BY <1>1, <1>3
<1>5. n2 \in [Pids -> Pids \cup {Null}] /\ n2[p] = l.head /\ \A q \in Pids : q # p => n2[q] = nx[q]
  BY <1>1, <1>4
<1>6. AddFront(l, p) = Links(p, n2)
  BY Zenon DEF AddFront
<1> HIDE DEF t, n2
<1>7. \A i \in 1..Len(t) : n2[t[i]] = IF i = Len(t) THEN Null ELSE t[i + 1]
  <2> SUFFICES ASSUME NEW i \in 1..Len(t) PROVE n2[t[i]] = IF i = Len(t) THEN Null ELSE t[i + 1]
    OBVIOUS
  <2>1. CASE i = 1
    BY <1>1, <1>2, <1>3, <1>5, <2>1
  <2>2. CASE i # 1
    <3>1. i \in 2..(Len(s) + 1) /\ i - 1 \in 1..Len(s) /\ (i - 1 = Len(s) <=> i = Len(t))
      BY <1>1, <1>2, <2>2
    <3>2. t[i] = s[i - 1] /\ s[i - 1] \in Elems(s) /\ s[i - 1] \in Pids
      BY <1>1, <1>2, <3>1 DEF Elems
    <3>3. n2[t[i]] = nx[s[i - 1]]
      BY <1>5, <3>2
    <3>4. nx[s[i - 1]] = IF i - 1 = Len(s) THEN Null ELSE s[(i - 1) + 1]
      BY <3>1 DEF Holds, Threads
    <3>5. CASE i = Len(t)
      BY <3>1, <3>3, <3>4, <3>5
    <3>6. CASE i # Len(t)
      <4>1. i + 1 \in 2..(Len(s) + 1) /\ (i + 1) - 1 = (i - 1) + 1
        BY <1>1, <1>2, <3>1, <3>6
      <4> QED BY <1>2, <3>1, <3>3, <3>4, <3>6, <4>1
    <3> QED BY <3>5, <3>6
  <2> QED BY <2>1, <2>2
<1>8. Threads(n2, p, t)
  BY <1>1, <1>2, <1>7 DEF Threads
<1> QED BY <1>5, <1>6, <1>8, LinksIs DEF Typed, SameOutside, t

\* The dequeue in schedule takes the first block.
LEMMA PopFrontIs ==
    ASSUME NEW l, NEW s, Holds(l, s), l.head # Null
    PROVE  /\ Len(s) # 0 /\ l.head = s[1]
           /\ Holds(PopFront(l), Tail(s))
           /\ SameOutside(Elems(s), l, PopFront(l))
<1> DEFINE nx == l.next
           n2 == [nx EXCEPT ![l.head] = Null]
           t == Tail(s)
<1>1. s \in Seq(Pids) /\ Distinct(s) /\ nx \in [Pids -> Pids \cup {Null}] /\ Len(s) \in Nat
  BY DEF Holds, Typed, Threads
<1>2. Len(s) # 0 /\ l.head = s[1]
  BY DEF Holds, Threads
<1>3. /\ s[1] \in Pids /\ s[1] \in Elems(s)
      /\ t \in Seq(Pids) /\ Distinct(t) /\ Len(t) = Len(s) - 1
      /\ \A i \in 1..(Len(s) - 1) : t[i] = s[i + 1]
      /\ Elems(t) \subseteq Elems(s) \ {s[1]}
  BY <1>1, <1>2, TailIs
<1>4. n2 \in [Pids -> Pids \cup {Null}] /\ \A q \in Pids : q # s[1] => n2[q] = nx[q]
  BY <1>1, <1>2
<1>5. PopFront(l) = Links(nx[s[1]], n2)
  BY Zenon, <1>2 DEF PopFront
<1> HIDE DEF t, n2
<1>6. \A i \in 1..Len(s) : nx[s[i]] = IF i = Len(s) THEN Null ELSE s[i + 1]
  BY DEF Holds, Threads
<1>7. nx[s[1]] = IF Len(t) = 0 THEN Null ELSE t[1]
  BY <1>1, <1>2, <1>3, <1>6
<1>8. \A i \in 1..Len(t) : n2[t[i]] = IF i = Len(t) THEN Null ELSE t[i + 1]
  <2> SUFFICES ASSUME NEW i \in 1..Len(t) PROVE n2[t[i]] = IF i = Len(t) THEN Null ELSE t[i + 1]
    OBVIOUS
  <2>1. t[i] = s[i + 1] /\ t[i] \in Elems(t) /\ t[i] \in Pids
    BY <1>3 DEF Elems
  <2>2. n2[t[i]] = nx[s[i + 1]]
    BY <1>3, <1>4, <2>1
  <2>3. i + 1 \in 1..Len(s) /\ (i + 1 = Len(s) <=> i = Len(t))
    BY <1>1, <1>3
  <2>4. nx[s[i + 1]] = IF i + 1 = Len(s) THEN Null ELSE s[(i + 1) + 1]
    BY <1>6, <2>3
  <2>5. i # Len(t) => t[i + 1] = s[(i + 1) + 1]
    BY <1>1, <1>3, <2>3
  <2> QED BY <2>2, <2>3, <2>4, <2>5
<1>9. Threads(n2, nx[s[1]], t)
  BY <1>3, <1>7, <1>8 DEF Threads
<1>10. \A q \in Pids \ Elems(s) : n2[q] = nx[q]
  BY <1>3, <1>4
<1> QED BY <1>2, <1>4, <1>5, <1>9, <1>10, LinksIs DEF Typed, SameOutside, t

\* remove_ready and remove_zombie take out the block at which their walk stopped.
LEMMA UnlinkIs ==
    ASSUME NEW l, NEW s, Holds(l, s), NEW i \in 1..Len(s)
    PROVE  /\ Holds(Unlink(l, i), RemoveAt(s, i))
           /\ SameOutside(Elems(s), l, Unlink(l, i))
<1> DEFINE nx == l.next
           t == RemoveAt(s, i)
<1>1. s \in Seq(Pids) /\ Distinct(s) /\ nx \in [Pids -> Pids \cup {Null}] /\ Len(s) \in Nat
  BY DEF Holds, Typed, Threads
<1>2. /\ t \in Seq(Pids) /\ Distinct(t) /\ Len(t) = Len(s) - 1
      /\ \A j \in 1..(Len(s) - 1) : t[j] = IF j < i THEN s[j] ELSE s[j + 1]
  BY <1>1, RemoveAtIs
<1>3. List(nx, l.head) = s
  BY Zenon, ListIs DEF Holds
<1>4. Unlink(l, i) = IF i = 1 THEN Links(nx[l.head], nx)
                     ELSE Links(l.head, [nx EXCEPT ![s[i - 1]] = nx[s[i]]])
  BY Zenon, <1>3 DEF Unlink
<1>5. \A j \in 1..Len(s) : nx[s[j]] = IF j = Len(s) THEN Null ELSE s[j + 1]
  BY DEF Holds, Threads
<1>6. l.head = s[1]
  BY <1>1 DEF Holds, Threads
<1> HIDE DEF t
<1>7. CASE i = 1
  <2>1. nx[s[1]] = IF Len(t) = 0 THEN Null ELSE t[1]
    BY <1>1, <1>2, <1>5, <1>7
  <2>2. \A j \in 1..Len(t) : nx[t[j]] = IF j = Len(t) THEN Null ELSE t[j + 1]
    <3> SUFFICES ASSUME NEW j \in 1..Len(t) PROVE nx[t[j]] = IF j = Len(t) THEN Null ELSE t[j + 1]
      OBVIOUS
    <3>1. j + 1 \in 1..Len(s) /\ t[j] = s[j + 1] /\ (j + 1 = Len(s) <=> j = Len(t))
      BY <1>1, <1>2, <1>7
    <3>2. j # Len(t) => t[j + 1] = s[(j + 1) + 1]
      BY <1>1, <1>2, <1>7
    <3> QED BY <1>5, <3>1, <3>2
  <2>3. Threads(nx, nx[s[1]], t)
    BY <1>2, <2>1, <2>2 DEF Threads
  <2>4. Unlink(l, i) = Links(nx[s[1]], nx)
    BY Zenon, <1>4, <1>6, <1>7
  <2> QED BY <1>1, <2>3, <2>4, LinksIs DEF Typed, SameOutside, t
<1>8. CASE i # 1
  <2> DEFINE e == s[i - 1]
             n2 == [nx EXCEPT ![e] = nx[s[i]]]
  <2>1. i - 1 \in 1..Len(s) /\ e \in Pids /\ e \in Elems(s) /\ nx[s[i]] \in Pids \cup {Null}
    BY <1>1, <1>8 DEF Elems
  <2>2. n2 \in [Pids -> Pids \cup {Null}] /\ n2[e] = nx[s[i]] /\ \A q \in Pids : q # e => n2[q] = nx[q]
    BY <1>1, <2>1
  <2>3. Unlink(l, i) = Links(l.head, n2)
    BY Zenon, <1>4, <1>8
  <2> HIDE DEF n2
  <2>4. \A j \in 1..Len(t) : n2[t[j]] = IF j = Len(t) THEN Null ELSE t[j + 1]
    <3> SUFFICES ASSUME NEW j \in 1..Len(t) PROVE n2[t[j]] = IF j = Len(t) THEN Null ELSE t[j + 1]
      OBVIOUS
    <3>1. CASE j < i - 1
      <4>1. j \in 1..Len(s) /\ j # i - 1 /\ j # Len(s) /\ t[j] = s[j] /\ j # Len(t) /\ t[j + 1] = s[j + 1]
        BY <1>1, <1>2, <3>1
      <4>2. s[j] # e /\ s[j] \in Pids
        BY <1>1, <2>1, <4>1 DEF Distinct
      <4> QED BY <1>5, <2>2, <4>1, <4>2
    <3>2. CASE j = i - 1
      <4>1. t[j] = e /\ (j = Len(t) <=> i = Len(s)) /\ (j # Len(t) => t[j + 1] = s[i + 1])
        BY <1>1, <1>2, <3>2
      <4> QED BY <1>5, <2>2, <4>1
    <3>3. CASE j > i - 1
      <4>1. /\ j + 1 \in 1..Len(s) /\ j + 1 # i - 1 /\ t[j] = s[j + 1]
            /\ (j = Len(t) <=> j + 1 = Len(s)) /\ (j # Len(t) => t[j + 1] = s[(j + 1) + 1])
        BY <1>1, <1>2, <3>3
      <4>2. s[j + 1] # e /\ s[j + 1] \in Pids
        BY <1>1, <2>1, <4>1 DEF Distinct
      <4> QED BY <1>5, <2>2, <4>1, <4>2
    <3> QED BY <1>1, <1>2, <3>1, <3>2, <3>3
  <2>5. Len(t) # 0 /\ t[1] = s[1]
    BY <1>1, <1>2, <1>8
  <2>6. Threads(n2, l.head, t)
    BY <1>2, <1>6, <2>4, <2>5 DEF Threads
  <2>7. \A q \in Pids \ Elems(s) : n2[q] = nx[q]
    BY <2>1, <2>2
  <2> QED BY <2>2, <2>3, <2>6, <2>7, LinksIs DEF Typed, SameOutside, t
<1> QED BY <1>7, <1>8

-----------------------------------------------------------------------------
(* The inductive invariant.                                                *)

ready == List(next, ready_head)
zombies == List(next, zombies_head)

\* Both lists are lists: no cycle and no repetition.
Lists ==
    /\ Typed(next)
    /\ Threads(next, ready_head, ready)
    /\ Threads(next, zombies_head, zombies)

\* They share no block, and neither the running process nor the one that waits
\* for input is on a list: their links may be overwritten.
Separate ==
    /\ Elems(ready) \cap Elems(zombies) = {}
    /\ current \notin Elems(ready) \cup Elems(zombies)
    /\ input_waiter \notin Elems(ready) \cup Elems(zombies)
    /\ input_waiter # Null => input_waiter # current

\* The block of a process that is yet to be created is free.
Created ==
    /\ next_pid \in Nat \ {0}
    /\ current \in Pids \cup {Null} /\ current < next_pid
    /\ input_waiter \in Pids \cup {Null} /\ input_waiter < next_pid
    /\ \A p \in Elems(ready) \cup Elems(zombies) : p < next_pid

LinkInv == Lists /\ Separate /\ Created

LEMMA ElemsIn ==
    ASSUME NEW s \in Seq(Pids)
    PROVE  Elems(s) \subseteq Pids /\ Null \notin Elems(s) /\ Elems(s) \subseteq Nat
BY MaxPidAssumption DEF Elems, Pids, Null

\* The list and the heads after a step are read off.
LEMMA ReadOff ==
    ASSUME NEW r, NEW z, Typed(next'), Threads(next', ready_head', r),
           Threads(next', zombies_head', z)
    PROVE  ready' = r /\ zombies' = z /\ Lists'
<1>1. List(next', ready_head') = r /\ List(next', zombies_head') = z
  BY Zenon, ListIs
<1>2. ready' = r /\ zombies' = z
  BY Zenon, <1>1 DEF ready, zombies
<1> QED BY Zenon, <1>2 DEF Lists

Rest(q) == IF Len(q) = 0 THEN q ELSE Tail(q)
Chosen(q) == IF Len(q) = 0 THEN current ELSE q[1]

\* What schedule leaves behind when it dequeues from the list q.
LEMMA DequeueIs ==
    ASSUME NEW l, NEW q, Holds(l, q), Dequeue(l)
    PROVE  /\ Typed(next') /\ Threads(next', ready_head', Rest(q))
           /\ current' = Chosen(q)
           /\ \A p \in Pids \ Elems(q) : next'[p] = l.next[p]
<1>1. /\ Typed(l.next) /\ Threads(l.next, l.head, q)
      /\ l.head = (IF Len(q) = 0 THEN Null ELSE q[1])
  BY Zenon DEF Holds, Threads
<1>2. CASE l.head = Null
  <2>1. ready_head' = l.head /\ next' = l.next /\ current' = current
    BY Zenon, <1>2 DEF Dequeue
  <2>2. Len(q) = 0
    <3> SUFFICES ASSUME Len(q) # 0 PROVE FALSE
      OBVIOUS
    <3>1. q \in Seq(Pids)
      BY <1>1 DEF Threads
    <3>2. q[1] \in Pids
      BY <3>1
    <3> QED BY <1>1, <1>2, <3>2 DEF Pids, Null
  <2> QED BY Zenon, <1>1, <2>1, <2>2 DEF Rest, Chosen
<1>3. CASE l.head # Null
  <2> DEFINE m == PopFront(l)
  <2>1. ready_head' = m.head /\ next' = m.next /\ current' = l.head
    BY Zenon, <1>3 DEF Dequeue
  <2>2. Len(q) # 0 /\ l.head = q[1] /\ Holds(m, Tail(q)) /\ SameOutside(Elems(q), l, m)
    BY Zenon, <1>3, PopFrontIs
  <2> HIDE DEF m
  <2> QED BY Zenon, <2>1, <2>2 DEF Rest, Chosen, Holds, SameOutside
<1> QED BY <1>2, <1>3

LEMMA RestIs ==
    ASSUME NEW q \in Seq(Pids), Distinct(q)
    PROVE  /\ Rest(q) \in Seq(Pids) /\ Elems(Rest(q)) \subseteq Elems(q)
           /\ Len(q) # 0 => q[1] \in Elems(q) /\ q[1] \in Pids /\ q[1] \notin Elems(Rest(q))
<1>1. CASE Len(q) = 0
  BY Zenon, <1>1 DEF Rest
<1>2. CASE Len(q) # 0
  <2>1. Rest(q) = Tail(q)
    BY Zenon, <1>2 DEF Rest
  <2> QED BY <1>2, <2>1, TailIs
<1> QED BY <1>1, <1>2

\* schedule, whoever was put on the lists before.
LEMMA Dispatch ==
    ASSUME LinkInv, NEW l, NEW q, NEW z, Holds(l, q), Dequeue(l),
           Threads(l.next, zombies_head', z),
           Elems(q) \cap Elems(z) = {},
           input_waiter' \in Pids \cup {Null},
           input_waiter' \notin Elems(q) \cup Elems(z),
           Len(q) = 0 => current = Null,
           next_pid' = next_pid, input_waiter' < next_pid,
           \A p \in Elems(q) \cup Elems(z) : p < next_pid
    PROVE  LinkInv' /\ ready' = Rest(q) /\ zombies' = z /\ current' = Chosen(q)
<1>1. /\ Typed(next') /\ Threads(next', ready_head', Rest(q)) /\ current' = Chosen(q)
      /\ \A p \in Pids \ Elems(q) : next'[p] = l.next[p]
  BY Zenon, DequeueIs
<1>2. q \in Seq(Pids) /\ Distinct(q) /\ z \in Seq(Pids) /\ Distinct(z)
  BY Zenon DEF Holds, Threads
<1>3. /\ Elems(q) \subseteq Pids /\ Null \notin Elems(q)
      /\ Elems(z) \subseteq Pids /\ Null \notin Elems(z)
  BY Zenon, <1>2, ElemsIn
<1>4. Threads(next', zombies_head', z)
  <2>1. \A p \in Elems(z) : next'[p] = l.next[p]
    BY Zenon, <1>1, <1>3
  <2> QED BY Zenon, <2>1, Framed
<1>5. ready' = Rest(q) /\ zombies' = z /\ Lists'
  BY Zenon, <1>1, <1>4, ReadOff
<1>6. /\ Elems(Rest(q)) \subseteq Elems(q)
      /\ Len(q) # 0 => q[1] \in Elems(q) /\ q[1] \in Pids /\ q[1] \notin Elems(Rest(q))
  BY Zenon, <1>2, RestIs
<1>7. CASE Len(q) = 0
  <2>1. current' = Null
    BY Zenon, <1>1, <1>7 DEF Chosen
  <2>2. Separate'
    BY Zenon, <1>3, <1>5, <1>6, <2>1 DEF Separate
  <2>3. Null < next_pid /\ Null \in Pids \cup {Null} /\ next_pid \in Nat \ {0}
    BY DEF LinkInv, Created, Null
  <2>4. Created'
    BY Zenon, <1>5, <1>6, <2>1, <2>3 DEF Created
  <2> QED BY Zenon, <1>1, <1>5, <2>2, <2>4 DEF LinkInv
<1>8. CASE Len(q) # 0
  <2>1. current' = q[1]
    BY Zenon, <1>1, <1>8 DEF Chosen
  <2>2. Separate'
    BY Zenon, <1>5, <1>6, <1>8, <2>1 DEF Separate
  <2>3. next_pid \in Nat \ {0}
    BY Zenon DEF LinkInv, Created
  <2>4. Created'
    BY Zenon, <1>5, <1>6, <1>8, <2>1, <2>3 DEF Created
  <2> QED BY Zenon, <1>1, <1>5, <2>2, <2>4 DEF LinkInv
<1> QED BY <1>7, <1>8

Requeued(q) == IF current = Null THEN q ELSE Append(q, current)

LEMMA RequeueIs ==
    ASSUME LinkInv, NEW l, NEW q, Holds(l, q), current \notin Elems(q)
    PROVE  /\ Holds(Requeue(l), Requeued(q))
           /\ SameOutside(Elems(q) \cup {current}, l, Requeue(l))
           /\ Elems(Requeued(q)) \subseteq Elems(q) \cup {current}
           /\ Len(Requeued(q)) = 0 => current = Null
<1>1. CASE current = Null
  <2>1. Requeue(l) = l /\ Requeued(q) = q
    BY Zenon, <1>1 DEF Requeue, Requeued
  <2> QED BY Zenon, <1>1, <2>1 DEF SameOutside
<1>2. CASE current # Null
  <2>1. current \in Pids
    BY Zenon, <1>2 DEF LinkInv, Created
  <2>2. Requeue(l) = AddTail(l, current) /\ Requeued(q) = Append(q, current)
    BY Zenon, <1>2 DEF Requeue, Requeued
  <2>3. q \in Seq(Pids) /\ Distinct(q)
    BY Zenon DEF Holds, Threads
  <2>4. /\ Holds(AddTail(l, current), Append(q, current))
        /\ SameOutside(Elems(q) \cup {current}, l, AddTail(l, current))
    BY Zenon, <2>1, AddTailIs
  <2>5. /\ Elems(Append(q, current)) = Elems(q) \cup {current}
        /\ Len(Append(q, current)) = Len(q) + 1 /\ Len(q) \in Nat
    BY <2>1, <2>3, AppendIs
  <2>6. Len(Append(q, current)) # 0
    BY <2>5
  <2> QED BY Zenon, <2>2, <2>4, <2>5, <2>6
<1> QED BY <1>1, <1>2

-----------------------------------------------------------------------------
(* Every transition keeps the invariant and is the one of Scheduler.       *)

LEMMA Facts ==
    ASSUME LinkInv
    PROVE  /\ Holds(ReadyLinks, ready) /\ Holds(Links(zombies_head, next), zombies)
           /\ ReadyLinks.next = next /\ ReadyLinks.head = ready_head
           /\ Links(zombies_head, next).next = next
           /\ ready \in Seq(Pids) /\ Distinct(ready)
           /\ zombies \in Seq(Pids) /\ Distinct(zombies)
           /\ Elems(ready) \subseteq Pids /\ Null \notin Elems(ready)
           /\ Elems(zombies) \subseteq Pids /\ Null \notin Elems(zombies)
           /\ ready_head = Null <=> ready = <<>>
<1>1. Typed(next) /\ Threads(next, ready_head, ready) /\ Threads(next, zombies_head, zombies)
  BY Zenon DEF LinkInv, Lists
<1>2. /\ ready \in Seq(Pids) /\ Distinct(ready) /\ zombies \in Seq(Pids) /\ Distinct(zombies)
      /\ ready_head = IF Len(ready) = 0 THEN Null ELSE ready[1]
  BY Zenon, <1>1 DEF Threads
<1> HIDE DEF ready, zombies
<1>3. ready_head = Null <=> ready = <<>>
  BY <1>2, MaxPidAssumption DEF Pids, Null
<1>4. /\ Holds(ReadyLinks, ready) /\ Holds(Links(zombies_head, next), zombies)
      /\ ReadyLinks.next = next /\ ReadyLinks.head = ready_head
      /\ Links(zombies_head, next).next = next
  BY Zenon, <1>1, LinksIs DEF ReadyLinks
<1>5. /\ Elems(ready) \subseteq Pids /\ Null \notin Elems(ready)
      /\ Elems(zombies) \subseteq Pids /\ Null \notin Elems(zombies)
  BY Zenon, <1>2, ElemsIn
<1> QED BY Zenon, <1>2, <1>3, <1>4, <1>5

LEMMA SameAbstract ==
    /\ Abstract!Null = Null
    /\ Abstract!Pids = Pids
    /\ \A p : Abstract!Children(p) = Children(p)
    /\ \A s, i : Abstract!RemoveAt(s, i) = RemoveAt(s, i)
BY Zenon DEF Abstract!Null, Null, Abstract!Pids, Pids, Abstract!Children, Children,
   Abstract!RemoveAt, RemoveAt

\* The dequeue of the sequence.
LEMMA AbstractDequeue ==
    ASSUME NEW q \in Seq(Pids), ready' = Rest(q), current' = Chosen(q)
    PROVE  Abstract!Dequeue(q)
<1>1. List(next, ready_head)' = Rest(q)
  BY Zenon DEF ready
<1>2. CASE q = <<>>
  <2>1. Len(q) = 0
    BY <1>2
  <2> QED BY Zenon, <1>1, <1>2, <2>1 DEF Rest, Chosen, Abstract!Dequeue
<1>3. CASE q # <<>>
  <2>1. Len(q) # 0 /\ Head(q) = q[1]
    BY <1>3
  <2> QED BY Zenon, <1>1, <1>3, <2>1 DEF Rest, Chosen, Abstract!Dequeue
<1> QED BY <1>2, <1>3

LEMMA AbstractRequeue == \A q : Abstract!Requeue(q) = Requeued(q)
BY Zenon, SameAbstract DEF Abstract!Requeue, Requeued

LEMMA SwitchStep ==
    ASSUME LinkInv, Switch
    PROVE  LinkInv' /\ Abstract!Switch
<1> DEFINE l == Requeue(ReadyLinks)
           q == Requeued(ready)
<1>1. /\ Dequeue(l) /\ zombies_head' = zombies_head
      /\ input_waiter' = input_waiter /\ next_pid' = next_pid /\ parent_pid' = parent_pid
      /\ state' = [p \in Pids |-> IF p = current THEN "READY" ELSE state[p]]
  BY Zenon DEF Switch
<1>2. Separate /\ Created
  BY Zenon DEF LinkInv
<1>3. /\ Elems(ready) \cap Elems(zombies) = {}
      /\ current \notin Elems(ready) \cup Elems(zombies)
      /\ input_waiter \notin Elems(ready) \cup Elems(zombies)
      /\ input_waiter # Null => input_waiter # current
  BY Zenon, <1>2 DEF Separate
<1>4. /\ Holds(l, q)
      /\ SameOutside(Elems(ready) \cup {current}, ReadyLinks, l)
      /\ Elems(q) \subseteq Elems(ready) \cup {current}
      /\ Len(q) = 0 => current = Null
  BY Zenon, <1>3, Facts, RequeueIs
<1> HIDE DEF l, q
<1>5. Threads(l.next, zombies_head', zombies)
  <2>1. \A p \in Elems(zombies) : l.next[p] = next[p]
    BY Zenon, <1>3, <1>4, Facts DEF SameOutside
  <2>2. Threads(next, zombies_head, zombies)
    BY Zenon DEF LinkInv, Lists
  <2> QED BY Zenon, <1>1, <2>1, <2>2, Framed
<1>6. q \in Seq(Pids) /\ Null \notin Elems(q)
  BY Zenon, <1>4, ElemsIn DEF Holds, Threads
<1>7. Elems(q) \cap Elems(zombies) = {} /\ input_waiter' \notin Elems(q) \cup Elems(zombies)
  BY Zenon, <1>1, <1>3, <1>4, <1>6
<1>8. /\ input_waiter' \in Pids \cup {Null} /\ input_waiter' < next_pid
      /\ \A p \in Elems(q) \cup Elems(zombies) : p < next_pid
  BY Zenon, <1>1, <1>2, <1>4 DEF Created
<1>9. LinkInv' /\ ready' = Rest(q) /\ zombies' = zombies /\ current' = Chosen(q)
  BY Zenon, <1>1, <1>4, <1>5, <1>7, <1>8, Dispatch
<1>10. Abstract!Dequeue(Abstract!Requeue(List(next, ready_head)))
  BY Zenon, <1>6, <1>9, AbstractDequeue, AbstractRequeue DEF q, ready
<1>11. List(next, zombies_head)' = List(next, zombies_head)
  BY Zenon, <1>9 DEF zombies
<1> QED BY Zenon, <1>1, <1>9, <1>10, <1>11, SameAbstract DEF Abstract!Switch

LEMMA BlockStep ==
    ASSUME LinkInv, Block
    PROVE  LinkInv' /\ Abstract!Block
<1>1. /\ current # Null /\ ready_head # Null /\ Dequeue(ReadyLinks) /\ zombies_head' = zombies_head
      /\ input_waiter' = current /\ next_pid' = next_pid /\ parent_pid' = parent_pid
      /\ state' = [state EXCEPT ![current] = "BLOCKED"]
  BY Zenon DEF Block
<1>2. /\ Elems(ready) \cap Elems(zombies) = {}
      /\ current \notin Elems(ready) \cup Elems(zombies)
  BY Zenon DEF LinkInv, Separate
<1>3. /\ current \in Pids \cup {Null} /\ current < next_pid
      /\ \A p \in Elems(ready) \cup Elems(zombies) : p < next_pid
  BY Zenon DEF LinkInv, Created
<1>4. ready # <<>> /\ Len(ready) # 0
  <2>1. ready # <<>> /\ ready \in Seq(Pids)
    BY Zenon, <1>1, Facts
  <2> HIDE DEF ready
  <2> QED BY <2>1
<1>5. Threads(ReadyLinks.next, zombies_head', zombies)
  BY Zenon, <1>1, Facts, LinksIs
<1>6. LinkInv' /\ ready' = Rest(ready) /\ zombies' = zombies /\ current' = Chosen(ready)
  BY Zenon, <1>1, <1>2, <1>3, <1>4, <1>5, Facts, Dispatch
<1>7. Abstract!Dequeue(List(next, ready_head))
  BY Zenon, <1>6, Facts, AbstractDequeue DEF ready
<1>8. List(next, zombies_head)' = List(next, zombies_head) /\ List(next, ready_head) # <<>>
  BY Zenon, <1>4, <1>6 DEF zombies, ready
<1> QED BY Zenon, <1>1, <1>6, <1>7, <1>8, SameAbstract DEF Abstract!Block

LEMMA BlockDeclinedStep ==
    ASSUME LinkInv, BlockDeclined
    PROVE  LinkInv' /\ Abstract!BlockDeclined
<1>1. /\ current # Null /\ ready_head = Null /\ input_waiter' = Null
      /\ current' = current /\ state' = state /\ parent_pid' = parent_pid
      /\ next_pid' = next_pid /\ ready_head' = ready_head /\ zombies_head' = zombies_head
      /\ next' = next
  BY Zenon DEF BlockDeclined
<1>2. ready' = ready /\ zombies' = zombies
  BY Zenon, <1>1 DEF ready, zombies
<1>3. Lists'
  BY Zenon, <1>1, <1>2 DEF LinkInv, Lists
<1>4. Separate'
  BY Zenon, <1>1, <1>2, Facts DEF LinkInv, Separate
<1>5. next_pid \in Nat \ {0} /\ Null < next_pid
  BY DEF LinkInv, Created, Null
<1>6. Created'
  BY Zenon, <1>1, <1>2, <1>5 DEF LinkInv, Created
<1>7. List(next, ready_head) = <<>>
  BY Zenon, <1>1, Facts DEF ready
<1>8. /\ List(next, ready_head)' = List(next, ready_head)
      /\ List(next, zombies_head)' = List(next, zombies_head)
  BY Zenon, <1>1
<1> QED BY Zenon, <1>1, <1>3, <1>4, <1>6, <1>7, <1>8, SameAbstract DEF LinkInv, Abstract!BlockDeclined

LEMMA WakeStep ==
    ASSUME LinkInv, Wake
    PROVE  LinkInv' /\ Abstract!Wake
<1> DEFINE f == AddFront(ReadyLinks, input_waiter)
           s == <<input_waiter>> \o ready
           l == Requeue(f)
           q == Requeued(s)
<1>1. /\ input_waiter # Null /\ input_waiter' = Null
      /\ Dequeue(l) /\ zombies_head' = zombies_head
      /\ next_pid' = next_pid /\ parent_pid' = parent_pid
      /\ state' = [p \in Pids |-> IF p \in {current, input_waiter} THEN "READY" ELSE state[p]]
  BY Zenon DEF Wake
<1>2. /\ Elems(ready) \cap Elems(zombies) = {}
      /\ current \notin Elems(ready) \cup Elems(zombies)
      /\ input_waiter \notin Elems(ready) \cup Elems(zombies)
      /\ input_waiter # current
  BY Zenon, <1>1 DEF LinkInv, Separate
<1>3. /\ input_waiter \in Pids /\ input_waiter < next_pid /\ current < next_pid
      /\ \A p \in Elems(ready) \cup Elems(zombies) : p < next_pid
  BY Zenon, <1>1 DEF LinkInv, Created
<1>4. Holds(f, s) /\ SameOutside({input_waiter}, ReadyLinks, f)
  BY Zenon, <1>2, <1>3, Facts, AddFrontIs
<1>5. Elems(s) = Elems(ready) \cup {input_waiter}
  BY Zenon, <1>2, <1>3, Facts, ConsIs
<1>6. current \notin Elems(s)
  BY Zenon, <1>2, <1>5
<1> HIDE DEF f, s
<1>7. /\ Holds(l, q) /\ SameOutside(Elems(s) \cup {current}, f, l)
      /\ Elems(q) \subseteq Elems(s) \cup {current}
      /\ Len(q) = 0 => current = Null
  BY Zenon, <1>4, <1>6, RequeueIs
<1> HIDE DEF l, q
<1>8. Threads(l.next, zombies_head', zombies)
  <2>1. \A p \in Elems(zombies) : f.next[p] = next[p]
    BY Zenon, <1>2, <1>4, Facts DEF SameOutside
  <2>2. \A p \in Elems(zombies) : l.next[p] = f.next[p]
    BY Zenon, <1>2, <1>5, <1>7, Facts DEF SameOutside
  <2>3. \A p \in Elems(zombies) : l.next[p] = next[p]
    BY Zenon, <2>1, <2>2
  <2>4. Threads(next, zombies_head, zombies)
    BY Zenon DEF LinkInv, Lists
  <2> QED BY Zenon, <1>1, <2>3, <2>4, Framed
<1>9. q \in Seq(Pids) /\ Null \notin Elems(q)
  BY Zenon, <1>7, ElemsIn DEF Holds, Threads
<1>10. Elems(q) \cap Elems(zombies) = {} /\ input_waiter' \notin Elems(q) \cup Elems(zombies)
  BY Zenon, <1>1, <1>2, <1>5, <1>7, <1>9, Facts
<1>11. input_waiter' \in Pids \cup {Null} /\ input_waiter' < next_pid
  BY <1>1 DEF LinkInv, Created, Null
<1>12. \A p \in Elems(q) \cup Elems(zombies) : p < next_pid
  BY Zenon, <1>3, <1>5, <1>7
<1>13. LinkInv' /\ ready' = Rest(q) /\ zombies' = zombies /\ current' = Chosen(q)
  BY Zenon, <1>1, <1>7, <1>8, <1>10, <1>11, <1>12, Dispatch
<1>14. Abstract!Dequeue(Abstract!Requeue(<<input_waiter>> \o List(next, ready_head)))
  BY Zenon, <1>9, <1>13, AbstractDequeue, AbstractRequeue DEF q, s, ready
<1>15. List(next, zombies_head)' = List(next, zombies_head)
  BY Zenon, <1>13 DEF zombies
<1> QED BY Zenon, <1>1, <1>13, <1>14, <1>15, SameAbstract DEF Abstract!Wake

LEMMA ExitStep ==
    ASSUME LinkInv, ExitCurrent
    PROVE  LinkInv' /\ Abstract!ExitCurrent
<1> DEFINE f == AddFront(Links(zombies_head, next), current)
           z == <<current>> \o zombies
           l == Links(ready_head, f.next)
<1>1. /\ current \notin {Null, 1} /\ ready_head # Null
      /\ zombies_head' = f.head /\ Dequeue(l)
      /\ input_waiter' = input_waiter /\ next_pid' = next_pid /\ parent_pid' = parent_pid
      /\ state' = [state EXCEPT ![current] = "EXITED"]
  BY Zenon DEF ExitCurrent
<1>2. /\ Elems(ready) \cap Elems(zombies) = {}
      /\ current \notin Elems(ready) \cup Elems(zombies)
      /\ input_waiter \notin Elems(ready) \cup Elems(zombies)
      /\ input_waiter # Null => input_waiter # current
  BY Zenon DEF LinkInv, Separate
<1>3. /\ current \in Pids /\ current < next_pid /\ current # Null
      /\ input_waiter \in Pids \cup {Null} /\ input_waiter < next_pid
      /\ \A p \in Elems(ready) \cup Elems(zombies) : p < next_pid
  BY Zenon, <1>1 DEF LinkInv, Created
<1>4. Holds(f, z) /\ SameOutside({current}, Links(zombies_head, next), f)
  BY Zenon, <1>2, <1>3, Facts, AddFrontIs
<1>5. Elems(z) = Elems(zombies) \cup {current}
  BY Zenon, <1>2, <1>3, Facts, ConsIs
<1> HIDE DEF f, z
<1>6. Threads(f.next, zombies_head', z) /\ Typed(f.next)
  BY Zenon, <1>1, <1>4 DEF Holds
<1>7. Threads(f.next, ready_head, ready)
  <2>1. \A p \in Elems(ready) : f.next[p] = next[p]
    BY Zenon, <1>2, <1>4, Facts DEF SameOutside
  <2>2. Threads(next, ready_head, ready)
    BY Zenon DEF LinkInv, Lists
  <2> QED BY Zenon, <2>1, <2>2, Framed
<1>8. Holds(l, ready) /\ l.next = f.next
  BY Zenon, <1>6, <1>7, LinksIs
<1> HIDE DEF l
<1>9. ready # <<>> /\ Len(ready) # 0
  <2>1. ready # <<>> /\ ready \in Seq(Pids)
    BY Zenon, <1>1, Facts
  <2> HIDE DEF ready
  <2> QED BY <2>1
<1>10. /\ Elems(ready) \cap Elems(z) = {}
       /\ input_waiter' \notin Elems(ready) \cup Elems(z)
       /\ \A p \in Elems(ready) \cup Elems(z) : p < next_pid
       /\ input_waiter' \in Pids \cup {Null} /\ input_waiter' < next_pid
  BY Zenon, <1>1, <1>2, <1>3, <1>5
<1>11. LinkInv' /\ ready' = Rest(ready) /\ zombies' = z /\ current' = Chosen(ready)
  BY Zenon, <1>1, <1>6, <1>8, <1>9, <1>10, Dispatch
<1>12. Abstract!Dequeue(List(next, ready_head))
  BY Zenon, <1>11, Facts, AbstractDequeue DEF ready
<1>13. List(next, zombies_head)' = <<current>> \o List(next, zombies_head) /\ List(next, ready_head) # <<>>
  BY Zenon, <1>9, <1>11 DEF zombies, ready, z
<1> QED BY Zenon, <1>1, <1>11, <1>12, <1>13, SameAbstract DEF Abstract!ExitCurrent

LEMMA SpawnStep ==
    ASSUME LinkInv, Spawn
    PROVE  LinkInv' /\ Abstract!Spawn
<1> DEFINE l == AddTail(ReadyLinks, next_pid)
           q == Append(ready, next_pid)
<1>1. /\ next_pid <= MaxPid /\ next_pid' = next_pid + 1
      /\ state' = [state EXCEPT ![next_pid] = "READY"]
      /\ parent_pid' = [parent_pid EXCEPT ![next_pid] = current]
      /\ ready_head' = l.head /\ next' = l.next
      /\ current' = current /\ input_waiter' = input_waiter /\ zombies_head' = zombies_head
  BY Zenon DEF Spawn
<1>2. Separate /\ Created
  BY Zenon DEF LinkInv
<1>3. next_pid \in Pids /\ next_pid \in Nat
  BY <1>1, <1>2, MaxPidAssumption DEF Created, Pids
<1>4. /\ next_pid \notin Elems(ready) \cup Elems(zombies)
      /\ next_pid # current /\ next_pid # input_waiter
  <2>1. /\ \A p \in Elems(ready) \cup Elems(zombies) : p < next_pid
        /\ current < next_pid /\ input_waiter < next_pid
    BY Zenon, <1>2 DEF Created
  <2>2. ~(next_pid < next_pid)
    BY <1>3
  <2> QED BY Zenon, <2>1, <2>2
<1>5. Holds(l, q) /\ SameOutside(Elems(ready) \cup {next_pid}, ReadyLinks, l)
  BY Zenon, <1>3, <1>4, Facts, AddTailIs
<1>6. Elems(q) = Elems(ready) \cup {next_pid}
  BY Zenon, <1>3, <1>4, Facts, AppendIs
<1> HIDE DEF l, q
<1>7. Threads(l.next, zombies_head, zombies)
  <2>1. \A p \in Elems(zombies) : l.next[p] = next[p]
    BY Zenon, <1>2, <1>4, <1>5, Facts DEF SameOutside, Separate
  <2>2. Threads(next, zombies_head, zombies)
    BY Zenon DEF LinkInv, Lists
  <2> QED BY Zenon, <2>1, <2>2, Framed
<1>8. ready' = q /\ zombies' = zombies /\ Lists'
  BY Zenon, <1>1, <1>5, <1>7, ReadOff DEF Holds
<1>9. Separate'
  BY Zenon, <1>1, <1>2, <1>4, <1>6, <1>8 DEF Separate
<1>10. Created'
  <2>1. \A p \in Elems(ready) \cup Elems(zombies) : p \in Nat /\ p < next_pid
    BY Zenon, <1>2, Facts, ElemsIn DEF Created
  <2>2. \A p \in Elems(q) \cup Elems(zombies) : p < next_pid + 1
    <3>1. next_pid < next_pid + 1 /\ \A p \in Nat : p < next_pid => p < next_pid + 1
      BY <1>3
    <3> QED BY Zenon, <1>6, <2>1, <3>1
  <2>3. /\ next_pid + 1 \in Nat \ {0} /\ current < next_pid + 1 /\ input_waiter < next_pid + 1
        /\ current \in Pids \cup {Null} /\ input_waiter \in Pids \cup {Null}
    BY <1>2, <1>3, MaxPidAssumption DEF Created, Pids, Null
  <2> QED BY Zenon, <1>1, <1>8, <2>2, <2>3 DEF Created
<1>11. List(next, ready_head)' = Append(List(next, ready_head), next_pid)
  BY Zenon, <1>8 DEF ready, q
<1>12. List(next, zombies_head)' = List(next, zombies_head)
  BY Zenon, <1>8 DEF zombies
<1> QED BY Zenon, <1>1, <1>8, <1>9, <1>10, <1>11, <1>12, SameAbstract DEF LinkInv, Abstract!Spawn

LEMMA ReapStep ==
    ASSUME LinkInv, NEW S, Reap(S)
    PROVE  LinkInv' /\ Abstract!Reap(S)
<1>1. PICK i \in DOMAIN zombies :
        /\ IsFirst(zombies, i, S)
        /\ zombies_head' = Unlink(Links(zombies_head, next), i).head
        /\ next' = Unlink(Links(zombies_head, next), i).next
  BY Zenon DEF Reap, zombies
<1>2. /\ current' = current /\ input_waiter' = input_waiter /\ state' = state
      /\ parent_pid' = parent_pid /\ next_pid' = next_pid /\ ready_head' = ready_head
  BY Zenon DEF Reap
<1> DEFINE l == Unlink(Links(zombies_head, next), i)
           z == RemoveAt(zombies, i)
<1>3. i \in 1..Len(zombies)
  <2>1. zombies \in Seq(Pids)
    BY Facts
  <2> HIDE DEF zombies
  <2> QED BY <2>1
<1>4. Holds(l, z) /\ SameOutside(Elems(zombies), Links(zombies_head, next), l)
  BY Zenon, <1>3, Facts, UnlinkIs
<1>5. Elems(z) \subseteq Elems(zombies)
  BY Zenon, <1>3, Facts, RemoveAtIs
<1> HIDE DEF l, z
<1>6. next' = l.next /\ zombies_head' = l.head
  BY Zenon, <1>1 DEF l
<1>7. Threads(l.next, ready_head, ready)
  <2>1. \A p \in Elems(ready) : l.next[p] = next[p]
    BY Zenon, <1>4, Facts DEF SameOutside, LinkInv, Separate
  <2>2. Threads(next, ready_head, ready)
    BY Zenon DEF LinkInv, Lists
  <2> QED BY Zenon, <2>1, <2>2, Framed
<1>8. ready' = ready /\ zombies' = z /\ Lists'
  BY Zenon, <1>2, <1>4, <1>6, <1>7, ReadOff DEF Holds
<1>9. Separate' /\ Created'
  BY Zenon, <1>2, <1>5, <1>8 DEF LinkInv, Separate, Created
<1>10. Abstract!IsFirst(List(next, zombies_head), i, S)
  BY Zenon, <1>1, <1>3 DEF Abstract!IsFirst, IsFirst, zombies
<1>11. List(next, zombies_head)' = RemoveAt(List(next, zombies_head), i) /\ i \in 1..Len(List(next, zombies_head))
  BY Zenon, <1>3, <1>8 DEF z, zombies
<1>12. List(next, ready_head)' = List(next, ready_head)
  BY Zenon, <1>8 DEF ready
<1>13. Abstract!Reap(S)
  BY Zenon, <1>2, <1>10, <1>11, <1>12, SameAbstract DEF Abstract!Reap
<1> QED BY Zenon, <1>8, <1>9, <1>13 DEF LinkInv

LEMMA KillStep ==
    ASSUME LinkInv, NEW S, Kill(S)
    PROVE  LinkInv' /\ Abstract!Kill(S)
<1>1. PICK i \in DOMAIN ready :
        /\ IsFirst(ready, i, S)
        /\ state' = [state EXCEPT ![ready[i]] = "EXITED"]
        /\ ready_head' = Unlink(ReadyLinks, i).head
        /\ next' = Unlink(ReadyLinks, i).next
  BY Zenon DEF Kill, ready
<1>2. /\ current' = current /\ input_waiter' = input_waiter
      /\ parent_pid' = parent_pid /\ next_pid' = next_pid /\ zombies_head' = zombies_head
  BY Zenon DEF Kill
<1> DEFINE l == Unlink(ReadyLinks, i)
           r == RemoveAt(ready, i)
<1>3. i \in 1..Len(ready)
  <2>1. ready \in Seq(Pids)
    BY Facts
  <2> HIDE DEF ready
  <2> QED BY <2>1
<1>4. Holds(l, r) /\ SameOutside(Elems(ready), ReadyLinks, l)
  BY Zenon, <1>3, Facts, UnlinkIs
<1>5. Elems(r) \subseteq Elems(ready)
  BY Zenon, <1>3, Facts, RemoveAtIs
<1> HIDE DEF l, r
<1>6. next' = l.next /\ ready_head' = l.head
  BY Zenon, <1>1 DEF l
<1>7. Threads(l.next, zombies_head, zombies)
  <2>1. \A p \in Elems(zombies) : l.next[p] = next[p]
    BY Zenon, <1>4, Facts DEF SameOutside, LinkInv, Separate
  <2>2. Threads(next, zombies_head, zombies)
    BY Zenon DEF LinkInv, Lists
  <2> QED BY Zenon, <2>1, <2>2, Framed
<1>8. ready' = r /\ zombies' = zombies /\ Lists'
  BY Zenon, <1>2, <1>4, <1>6, <1>7, ReadOff DEF Holds
<1>9. Separate' /\ Created'
  BY Zenon, <1>2, <1>5, <1>8 DEF LinkInv, Separate, Created
<1>10. Abstract!IsFirst(List(next, ready_head), i, S)
  BY Zenon, <1>1, <1>3 DEF Abstract!IsFirst, IsFirst, ready
<1>11. List(next, ready_head)' = RemoveAt(List(next, ready_head), i) /\ i \in 1..Len(List(next, ready_head))
  BY Zenon, <1>3, <1>8 DEF r, ready
<1>12. List(next, zombies_head)' = List(next, zombies_head)
  BY Zenon, <1>8 DEF zombies
<1>13. state' = [state EXCEPT ![List(next, ready_head)[i]] = "EXITED"]
  BY Zenon, <1>1 DEF ready
<1>14. Abstract!Kill(S)
  BY Zenon, <1>2, <1>10, <1>11, <1>12, <1>13, SameAbstract DEF Abstract!Kill
<1> QED BY Zenon, <1>8, <1>9, <1>14 DEF LinkInv

LEMMA InitLinks == Init => LinkInv /\ Abstract!SchedInit
<1> SUFFICES ASSUME Init PROVE LinkInv /\ Abstract!SchedInit
  OBVIOUS
<1>1. /\ current = Null /\ input_waiter = Null /\ next_pid = 2 /\ ready_head = 1
      /\ zombies_head = Null /\ next = [p \in Pids |-> Null]
      /\ state = [p \in Pids |-> IF p = 1 THEN "READY" ELSE "NONE"]
      /\ parent_pid = [p \in Pids |-> Null]
  BY Zenon DEF Init
<1>2. 1 \in Pids
  BY MaxPidAssumption DEF Pids
<1>3. Typed(next) /\ Threads(next, ready_head, <<1>>)
  BY <1>1, <1>2 DEF Typed, Threads, Distinct
<1>4. Threads(next, zombies_head, <<>>)
  BY <1>1 DEF Threads, Distinct
<1>5. ready = <<1>> /\ zombies = <<>>
  BY Zenon, <1>3, <1>4, ListIs DEF ready, zombies
<1>6. Lists
  BY Zenon, <1>3, <1>4, <1>5 DEF Lists
<1> HIDE DEF ready, zombies
<1>7. Elems(ready) = {1} /\ Elems(zombies) = {}
  BY <1>5 DEF Elems
<1>8. Separate /\ Created
  BY <1>1, <1>7 DEF Separate, Created, Null
<1>9. List(next, ready_head) = <<1>> /\ List(next, zombies_head) = <<>>
  BY Zenon, <1>5 DEF ready, zombies
<1> QED BY Zenon, <1>1, <1>6, <1>8, <1>9, SameAbstract DEF LinkInv, Abstract!SchedInit

LEMMA NextLinks ==
    LinkInv /\ [Next]_vars => LinkInv' /\ [Abstract!SchedNext]_(Abstract!schedVars)
<1> SUFFICES ASSUME LinkInv, [Next]_vars
             PROVE  LinkInv' /\ [Abstract!SchedNext]_(Abstract!schedVars)
  OBVIOUS
<1>1. CASE Switch
  BY Zenon, <1>1, SwitchStep DEF Abstract!SchedNext
<1>2. CASE Block
  BY Zenon, <1>2, BlockStep DEF Abstract!SchedNext
<1>3. CASE BlockDeclined
  BY Zenon, <1>3, BlockDeclinedStep DEF Abstract!SchedNext
<1>4. CASE Wake
  BY Zenon, <1>4, WakeStep DEF Abstract!SchedNext
<1>5. CASE ExitCurrent
  BY Zenon, <1>5, ExitStep DEF Abstract!SchedNext
<1>6. CASE Spawn
  BY Zenon, <1>6, SpawnStep DEF Abstract!SchedNext
<1>7. ASSUME NEW p \in Pids, Reap({p}) \/ Reap(Children(p))
      PROVE  LinkInv' /\ [Abstract!SchedNext]_(Abstract!schedVars)
  <2>1. LinkInv' /\ (Abstract!Reap({p}) \/ Abstract!Reap(Abstract!Children(p)))
    BY Zenon, <1>7, ReapStep, SameAbstract
  <2> QED BY Zenon, <2>1, SameAbstract DEF Abstract!SchedNext
<1>8. ASSUME NEW p \in Pids, Kill({p}) \/ Kill(Children(p))
      PROVE  LinkInv' /\ [Abstract!SchedNext]_(Abstract!schedVars)
  <2>1. LinkInv' /\ (Abstract!Kill({p}) \/ Abstract!Kill(Abstract!Children(p)))
    BY Zenon, <1>8, KillStep, SameAbstract
  <2> QED BY Zenon, <2>1, SameAbstract DEF Abstract!SchedNext
<1>9. CASE UNCHANGED vars
  <2>1. /\ current' = current /\ input_waiter' = input_waiter /\ state' = state
        /\ parent_pid' = parent_pid /\ next_pid' = next_pid /\ ready_head' = ready_head
        /\ zombies_head' = zombies_head /\ next' = next
    BY Zenon, <1>9 DEF vars
  <2>2. LinkInv'
    BY Zenon, <2>1 DEF LinkInv, Lists, Separate, Created, ready, zombies
  <2> QED BY Zenon, <2>1, <2>2 DEF Abstract!schedVars
<1> QED BY Zenon, <1>1, <1>2, <1>3, <1>4, <1>5, <1>6, <1>7, <1>8, <1>9 DEF Next

\* The two lists that share pcb.next never cross, loop or lose a block by an
\* assignment to a link, for any number of processes: walking from a head finds
\* every block once, a running or waiting process is on no list, and a block
\* that is linked into a list is on none.
THEOREM LinksThreaded == Spec => []LinkInv
<1>1. LinkInv /\ [Next]_vars => LinkInv'
  BY NextLinks
<1> QED BY <1>1, InitLinks, PTL DEF Spec

\* The linked lists of scheduler.hll implement the queues of Scheduler for any
\* number of processes: each pointer-level transition is the transition on
\* sequences that it stands for.
THEOREM LinksImplementScheduler == Spec => ImplementsScheduler
<1>1. Spec => []LinkInv
  BY LinksThreaded
<1> QED BY <1>1, InitLinks, NextLinks, PTL DEF Spec, ImplementsScheduler, Abstract!SchedSpec
=============================================================================
