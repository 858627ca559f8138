---------------------------- MODULE CachesProofs ----------------------------
(***************************************************************************)
(* Theorems about the three caches, for RAM, blocks and levels of any      *)
(* size, any number of sets and ways, and loads and stores that touch at   *)
(* most two blocks.                                                        *)
(*                                                                         *)
(* The argument: what can be seen from a level on is what its lines hold   *)
(* and, for the other blocks, what can be seen from the next level.  A     *)
(* read of a level leaves what can be seen from there and a write changes  *)
(* one block of it, if the same is true one level below; the levels above  *)
(* do not move.                                                            *)
(***************************************************************************)
EXTENDS Caches, SequenceTheorems, NaturalsInduction, WellFoundedInduction, TLAPS

Data == [Offsets -> Values]
RamBlocks == 0..(Blocks - 1)
Index(k) == 0..(Sets[k] - 1)

-----------------------------------------------------------------------------
(* A set of lines.                                                          *)

InSet(s, line) == \E j \in 1..Len(s) : s[j] = line

SetOK(k, i, s) ==
  /\ s \in Seq(Line) /\ Len(s) <= Assoc[k]
  /\ \A j \in 1..Len(s) : address_fields(k, s[j].block) = i
  /\ \A j, h \in 1..Len(s) : s[j].block = s[h].block => j = h

LEMMA RemoveAtIs ==
  ASSUME NEW S, NEW s \in Seq(S), NEW i \in 1..Len(s)
  PROVE  /\ RemoveAt(s, i) \in Seq(S)
         /\ Len(RemoveAt(s, i)) = Len(s) - 1
         /\ \A j \in 1..(Len(s) - 1) : RemoveAt(s, i)[j] = IF j < i THEN s[j] ELSE s[j + 1]
<1> DEFINE a == SubSeq(s, 1, i - 1)
           b == SubSeq(s, i + 1, Len(s))
<1>1. a \in Seq(S) /\ Len(a) = i - 1 /\ \A j \in 1..(i - 1) : a[j] = s[j]
  BY SubSeqProperties
<1>2. b \in Seq(S) /\ Len(b) = Len(s) - i /\ \A j \in 1..(Len(s) - i) : b[j] = s[i + j]
  BY SubSeqProperties
<1>3. RemoveAt(s, i) = a \o b
  BY DEF RemoveAt
<1> HIDE DEF a, b
<1>4. /\ a \o b \in Seq(S) /\ Len(a \o b) = Len(a) + Len(b)
      /\ \A j \in 1..(Len(a) + Len(b)) : (a \o b)[j] = IF j <= Len(a) THEN a[j] ELSE b[j - Len(a)]
  BY <1>1, <1>2, ConcatProperties
<1> QED BY <1>1, <1>2, <1>3, <1>4

LEMMA AppendIs ==
  ASSUME NEW S, NEW s \in Seq(S), NEW e \in S
  PROVE  /\ Append(s, e) \in Seq(S) /\ Len(Append(s, e)) = Len(s) + 1
         /\ \A j \in 1..Len(s) : Append(s, e)[j] = s[j]
         /\ Append(s, e)[Len(s) + 1] = e
         /\ Last(Append(s, e)) = e
BY AppendProperties DEF Last

\* A line that is added to a set: the other lines are a part of the old ones.
LEMMA AppendOK ==
  ASSUME NEW k \in 1..3, NEW i, NEW s, SetOK(k, i, s), Len(s) < Assoc[k], Assoc[k] \in Nat,
         NEW line \in Line, address_fields(k, line.block) = i,
         \A j \in 1..Len(s) : s[j].block # line.block
  PROVE  /\ SetOK(k, i, Append(s, line)) /\ Len(Append(s, line)) > 0
         /\ Last(Append(s, line)) = line
         /\ \A e : InSet(Append(s, line), e) <=> e = line \/ InSet(s, e)
<1> DEFINE t == Append(s, line)
           n == Len(s)
<1>1. s \in Seq(Line) /\ n \in Nat
  BY DEF SetOK
<1>2. t \in Seq(Line) /\ Len(t) = n + 1 /\ (\A j \in 1..n : t[j] = s[j]) /\ t[n + 1] = line /\ Last(t) = line
  BY <1>1, AppendIs
<1> HIDE DEF t, n
<1>3. \A j \in 1..(n + 1) : j \in 1..n \/ j = n + 1
  BY <1>1
<1>4. \A j \in 1..n : address_fields(k, s[j].block) = i /\ s[j].block # line.block
  BY DEF SetOK, n
<1>5. \A j, h \in 1..n : s[j].block = s[h].block => j = h
  BY DEF SetOK, n
<1>6. \A j \in 1..Len(t) : address_fields(k, t[j].block) = i
  BY <1>2, <1>3, <1>4
<1>7. \A j, h \in 1..Len(t) : t[j].block = t[h].block => j = h
  BY <1>2, <1>3, <1>4, <1>5
<1>8. SetOK(k, i, t) /\ Len(t) > 0
  BY <1>1, <1>2, <1>6, <1>7 DEF SetOK, n
<1>9. ASSUME NEW e PROVE InSet(t, e) <=> e = line \/ InSet(s, e)
  <2>1. InSet(t, e) <=> \E j \in 1..(n + 1) : t[j] = e
    BY Zenon, <1>2 DEF InSet
  <2>2. InSet(s, e) <=> \E j \in 1..n : s[j] = e
    BY Zenon DEF InSet, n
  <2>3. n + 1 \in 1..(n + 1) /\ \A j \in 1..n : j \in 1..(n + 1)
    BY <1>1
  <2> QED BY Zenon, <1>2, <1>3, <2>1, <2>2, <2>3
<1> QED BY Zenon, <1>2, <1>8, <1>9 DEF t

\* A set without one of its lines.
LEMMA RemoveOK ==
  ASSUME NEW k \in 1..3, NEW i, NEW s, SetOK(k, i, s), NEW p \in 1..Len(s), Assoc[k] \in Nat
  PROVE  /\ SetOK(k, i, RemoveAt(s, p)) /\ Len(RemoveAt(s, p)) < Assoc[k]
         /\ \A j \in 1..Len(RemoveAt(s, p)) : RemoveAt(s, p)[j].block # s[p].block
         /\ \A e : InSet(RemoveAt(s, p), e) <=> InSet(s, e) /\ e # s[p]
<1> DEFINE t == RemoveAt(s, p)
           n == Len(s)
<1>1. s \in Seq(Line) /\ n \in Nat /\ n <= Assoc[k] /\ p \in 1..n
  BY DEF SetOK
<1>2. t \in Seq(Line) /\ Len(t) = n - 1 /\ \A j \in 1..(n - 1) : t[j] = IF j < p THEN s[j] ELSE s[j + 1]
  BY <1>1, RemoveAtIs
<1> HIDE DEF t, n
<1>4. \A j \in 1..n : address_fields(k, s[j].block) = i
  BY DEF SetOK, n
<1>5. \A j, h \in 1..n : s[j].block = s[h].block => j = h
  BY DEF SetOK, n
<1>3. \A j \in 1..(n - 1) : \E h \in 1..n : t[j] = s[h] /\ h # p /\ h = IF j < p THEN j ELSE j + 1
  BY <1>1, <1>2
<1>6. \A j \in 1..Len(t) : address_fields(k, t[j].block) = i
  BY <1>2, <1>3, <1>4
<1>7. \A j, h \in 1..Len(t) : t[j].block = t[h].block => j = h
  <2> SUFFICES ASSUME NEW j \in 1..(n - 1), NEW h \in 1..(n - 1), t[j].block = t[h].block PROVE j = h
    BY <1>2
  <2>1. PICK j2 \in 1..n : t[j] = s[j2] /\ j2 # p /\ j2 = IF j < p THEN j ELSE j + 1
    BY <1>3
  <2>2. PICK h2 \in 1..n : t[h] = s[h2] /\ h2 # p /\ h2 = IF h < p THEN h ELSE h + 1
    BY <1>3
  <2>3. j2 = h2
    BY <1>5, <2>1, <2>2
  <2> QED BY <1>1, <2>1, <2>2, <2>3
<1>8. SetOK(k, i, t) /\ Len(t) < Assoc[k]
  <2>1. Len(t) <= Assoc[k] /\ Len(t) < Assoc[k]
    BY <1>1, <1>2
  <2> QED BY Zenon, <1>2, <1>6, <1>7, <2>1 DEF SetOK
<1>9. \A j \in 1..Len(t) : t[j].block # s[p].block
  BY <1>1, <1>2, <1>3, <1>5
<1>10. ASSUME NEW e PROVE InSet(t, e) <=> InSet(s, e) /\ e # s[p]
  <2>1. InSet(t, e) <=> \E j \in 1..(n - 1) : t[j] = e
    BY Zenon, <1>2 DEF InSet
  <2>2. InSet(s, e) <=> \E j \in 1..n : s[j] = e
    BY Zenon DEF InSet, n
  <2>3. ASSUME NEW j \in 1..(n - 1), t[j] = e PROVE InSet(s, e) /\ e # s[p]
    <3>1. PICK h \in 1..n : t[j] = s[h] /\ h # p
      BY <1>3
    <3> QED BY <1>1, <1>5, <2>2, <2>3, <3>1
  <2>4. ASSUME NEW h \in 1..n, s[h] = e, e # s[p] PROVE \E j \in 1..(n - 1) : t[j] = e
    <3> DEFINE j == IF h < p THEN h ELSE h - 1
    <3>1. j \in 1..(n - 1) /\ t[j] = s[h]
      BY <1>1, <1>2, <2>4
    <3> QED BY <2>4, <3>1
  <2> QED BY Zenon, <2>1, <2>2, <2>3, <2>4
<1> QED BY Zenon, <1>8, <1>9, <1>10 DEF t

LEMMA FrontTail ==
  ASSUME NEW S, NEW s \in Seq(S), Len(s) > 0
  PROVE  /\ Tail(s) = RemoveAt(s, 1) /\ Front(s) = RemoveAt(s, Len(s))
         /\ Head(s) = s[1] /\ 1 \in 1..Len(s) /\ Len(s) \in 1..Len(s)
<1> DEFINE n == Len(s)
<1>1. n \in Nat /\ n > 0 /\ 1 \in 1..n /\ n \in 1..n
  OBVIOUS
<1>2. /\ RemoveAt(s, 1) \in Seq(S) /\ Len(RemoveAt(s, 1)) = n - 1
      /\ \A j \in 1..(n - 1) : RemoveAt(s, 1)[j] = IF j < 1 THEN s[j] ELSE s[j + 1]
  BY <1>1, RemoveAtIs
<1>3. /\ RemoveAt(s, n) \in Seq(S) /\ Len(RemoveAt(s, n)) = n - 1
      /\ \A j \in 1..(n - 1) : RemoveAt(s, n)[j] = IF j < n THEN s[j] ELSE s[j + 1]
  BY <1>1, RemoveAtIs
<1>4. Tail(s) \in Seq(S) /\ Len(Tail(s)) = n - 1 /\ \A j \in 1..(n - 1) : Tail(s)[j] = s[j + 1]
  BY <1>1
<1>5. Front(s) \in Seq(S) /\ Len(Front(s)) = n - 1 /\ \A j \in 1..(n - 1) : Front(s)[j] = s[j]
  <2>1. Front(s) = SubSeq(s, 1, n - 1)
    BY DEF Front
  <2> DEFINE i == n
             a == SubSeq(s, 1, i - 1)
  <2>2. i \in 1..Len(s)
    BY <1>1
  <2> HIDE DEF i
  <2>3. a \in Seq(S) /\ Len(a) = i - 1 /\ \A j \in 1..(i - 1) : a[j] = s[j]
    BY <2>2, SubSeqProperties
  <2> HIDE DEF a
  <2>4. Front(s) = a
    BY Zenon, <2>1 DEF a, i
  <2> QED BY Zenon, <2>3, <2>4 DEF i
<1>6. \A j \in 1..(n - 1) : Tail(s)[j] = RemoveAt(s, 1)[j]
  BY <1>1, <1>2, <1>4
<1>7. \A j \in 1..(n - 1) : Front(s)[j] = RemoveAt(s, n)[j]
  BY <1>1, <1>3, <1>5
<1>8. Tail(s) = RemoveAt(s, 1)
  BY <1>2, <1>4, <1>6, SeqEqual
<1>9. Front(s) = RemoveAt(s, n)
  BY <1>3, <1>5, <1>7, SeqEqual
<1> QED BY <1>1, <1>8, <1>9

LEMMA Constants ==
  /\ BlockSize \in Nat \ {0} /\ Blocks \in Nat \ {0}
  /\ \A k \in 1..3 : Sets[k] \in Nat \ {0} /\ Assoc[k] \in Nat \ {0} /\ Assoc[k] \in Nat
BY CachesAssumption

LEMMA LineIsRecord ==
  ASSUME NEW line \in Line
  PROVE  line.block \in RamBlocks /\ line.dirty \in BOOLEAN /\ line.data \in Data
BY DEF Line, RamBlocks, Data

LEMMA SetLine ==
  ASSUME NEW k, NEW i, NEW s, SetOK(k, i, s), NEW line, InSet(s, line)
  PROVE  line \in Line /\ address_fields(k, line.block) = i
BY DEF SetOK, InSet

\* A hit: the line becomes the most recent one.
LEMMA TouchOK ==
  ASSUME NEW k \in 1..3, NEW i, NEW s, SetOK(k, i, s), NEW p \in 1..Len(s)
  PROVE  LET t == Append(RemoveAt(s, p), s[p])
         IN  /\ SetOK(k, i, t) /\ Len(t) > 0 /\ Last(t) = s[p]
             /\ \A e : InSet(t, e) <=> InSet(s, e)
<1> DEFINE u == RemoveAt(s, p)
           line == s[p]
<1>1. /\ SetOK(k, i, u) /\ Len(u) < Assoc[k]
      /\ \A j \in 1..Len(u) : u[j].block # line.block
      /\ \A e : InSet(u, e) <=> InSet(s, e) /\ e # line
  BY Constants, RemoveOK
<1>2. InSet(s, line)
  BY DEF InSet
<1>3. line \in Line /\ address_fields(k, line.block) = i
  BY <1>2, SetLine
<1> HIDE DEF u, line
<1>4. /\ SetOK(k, i, Append(u, line)) /\ Len(Append(u, line)) > 0 /\ Last(Append(u, line)) = line
      /\ \A e : InSet(Append(u, line), e) <=> e = line \/ InSet(u, e)
  BY <1>1, <1>3, Constants, AppendOK
<1>5. \A e : InSet(Append(u, line), e) <=> InSet(s, e)
  BY Zenon, <1>1, <1>2, <1>4
<1> QED BY Zenon, <1>4, <1>5 DEF u, line

\* A miss: the new line takes the place of the victim.
LEMMA FillOK ==
  ASSUME NEW k \in 1..3, NEW i, NEW s, SetOK(k, i, s), NEW line \in Line,
         address_fields(k, line.block) = i, \A e : InSet(s, e) => e.block # line.block
  PROVE  LET t == Append(Keep(k, s), line)
         IN  /\ SetOK(k, i, t) /\ Len(t) > 0 /\ Last(t) = line
             /\ \A e : InSet(t, e) <=> e = line \/ (InSet(s, e) /\ (Len(s) = Assoc[k] => e # Head(s)))
<1> DEFINE u == Keep(k, s)
<1>1. s \in Seq(Line) /\ Len(s) \in Nat /\ Len(s) <= Assoc[k] /\ Assoc[k] \in Nat \ {0} /\ Assoc[k] \in Nat
  BY Constants DEF SetOK
<1>2. /\ SetOK(k, i, u) /\ Len(u) < Assoc[k]
      /\ \A e : InSet(u, e) <=> InSet(s, e) /\ (Len(s) = Assoc[k] => e # Head(s))
  <2>1. CASE Len(s) = Assoc[k]
    <3>1. Len(s) > 0
      BY <1>1, <2>1
    <3>2. u = RemoveAt(s, 1) /\ Head(s) = s[1] /\ 1 \in 1..Len(s)
      BY <1>1, <2>1, <3>1, FrontTail DEF Keep
    <3>3. SetOK(k, i, RemoveAt(s, 1)) /\ Len(RemoveAt(s, 1)) < Assoc[k]
          /\ \A e : InSet(RemoveAt(s, 1), e) <=> InSet(s, e) /\ e # s[1]
      BY <1>1, <3>2, RemoveOK
    <3> HIDE DEF u
    <3> QED BY Zenon, <2>1, <3>2, <3>3
  <2>2. CASE Len(s) # Assoc[k]
    <3>1. u = s /\ Len(s) < Assoc[k]
      BY <1>1, <2>2 DEF Keep
    <3> HIDE DEF u
    <3> QED BY Zenon, <2>2, <3>1
  <2> QED BY <2>1, <2>2
<1> HIDE DEF u
<1>3. \A j \in 1..Len(u) : u[j].block # line.block
  <2> SUFFICES ASSUME NEW j \in 1..Len(u) PROVE u[j].block # line.block
    OBVIOUS
  <2>1. InSet(u, u[j])
    BY DEF InSet
  <2> QED BY Zenon, <1>2, <2>1
<1>4. /\ SetOK(k, i, Append(u, line)) /\ Len(Append(u, line)) > 0 /\ Last(Append(u, line)) = line
      /\ \A e : InSet(Append(u, line), e) <=> e = line \/ InSet(u, e)
  BY <1>1, <1>2, <1>3, AppendOK
<1> QED BY Zenon, <1>2, <1>4 DEF u

\* A write: the most recent line is replaced.
LEMMA RewriteOK ==
  ASSUME NEW k \in 1..3, NEW i, NEW s, SetOK(k, i, s), Len(s) > 0, NEW line \in Line,
         line.block = Last(s).block
  PROVE  LET t == Append(Front(s), line)
         IN  /\ SetOK(k, i, t) /\ Len(t) > 0 /\ Last(t) = line /\ InSet(s, Last(s))
             /\ \A e : InSet(t, e) <=> e = line \/ (InSet(s, e) /\ e # Last(s))
<1> DEFINE u == Front(s)
           n == Len(s)
<1>1. s \in Seq(Line) /\ n \in 1..n /\ Assoc[k] \in Nat /\ u = RemoveAt(s, n) /\ Last(s) = s[n]
  BY Constants, FrontTail DEF SetOK, Last
<1>2. /\ SetOK(k, i, u) /\ Len(u) < Assoc[k]
      /\ \A j \in 1..Len(u) : u[j].block # s[n].block
      /\ \A e : InSet(u, e) <=> InSet(s, e) /\ e # s[n]
  BY <1>1, RemoveOK
<1>3. InSet(s, s[n])
  BY <1>1 DEF InSet
<1>4. address_fields(k, s[n].block) = i
  BY <1>3, SetLine
<1> HIDE DEF u, n
<1>5. /\ SetOK(k, i, Append(u, line)) /\ Len(Append(u, line)) > 0 /\ Last(Append(u, line)) = line
      /\ \A e : InSet(Append(u, line), e) <=> e = line \/ InSet(u, e)
  <2>1. line.block = s[n].block
    BY Zenon, <1>1
  <2>2. address_fields(k, line.block) = i
    BY Zenon, <1>4, <2>1
  <2>3. \A j \in 1..Len(u) : u[j].block # line.block
    BY Zenon, <1>2, <2>1
  <2> QED BY <1>1, <1>2, <2>2, <2>3, AppendOK
<1> QED BY Zenon, <1>1, <1>2, <1>3, <1>5 DEF u

-----------------------------------------------------------------------------
(* The hierarchy.                                                           *)

AnyLevel == UNION {[Index(k) -> Seq(Line)] : k \in 1..3}
Levels == {f \in [1..3 -> AnyLevel] : \A k \in 1..3 : f[k] \in [Index(k) -> Seq(Line)]}
MemType == [l : Levels, ram : [RamBlocks -> Data]]

Wf(x) == x \in MemType /\ \A k \in 1..3 : \A i \in Index(k) : SetOK(k, i, x.l[k][i])

\* The line is in level k.
Has(k, x, line) == InSet(SetOf(k, x, line.block), line)

\* What can be seen of a block from level k on; level 4 is RAM.
See(k, x, b) ==
  IF k <= 1 /\ Holds(1, x, b) THEN LineOf(1, x, b).data
  ELSE IF k <= 2 /\ Holds(2, x, b) THEN LineOf(2, x, b).data
  ELSE IF k <= 3 /\ Holds(3, x, b) THEN LineOf(3, x, b).data
  ELSE x.ram[b]

CleanAt(k, x) ==
  \A line \in Line : Has(k, x, line) /\ ~line.dirty => line.data = See(k + 1, x, line.block)

Inv(k, x) == Wf(x) /\ \A j \in k..3 : CleanAt(j, x)

\* The levels above k are the same.
Same(k, x, y) == \A j \in 1..3 : j < k => y.l[j] = x.l[j]

LEMMA MemIs ==
  ASSUME NEW x \in MemType
  PROVE  /\ x.ram \in [RamBlocks -> Data] /\ x.l \in Levels
         /\ \A k \in 1..3 : x.l[k] \in [Index(k) -> Seq(Line)]
BY DEF MemType, Levels

LEMMA IndexIs ==
  ASSUME NEW k \in 1..3, NEW b \in Nat
  PROVE  address_fields(k, b) \in Index(k)
<1> DEFINE d == Sets[k]
<1>1. d \in Nat \ {0}
  BY Constants
<1> HIDE DEF d
<1>2. b % d \in 0..(d - 1)
  BY <1>1
<1> QED BY <1>2 DEF Index, address_fields, d

Put(f, k, i, s) == [f EXCEPT ![k][i] = s]

LEMMA LevelsPut ==
  ASSUME NEW f \in Levels, NEW k \in 1..3, NEW i \in Index(k), NEW s \in Seq(Line)
  PROVE  /\ Put(f, k, i, s) \in Levels
         /\ \A j \in 1..3 : j # k => Put(f, k, i, s)[j] = f[j]
         /\ \A h \in Index(k) : Put(f, k, i, s)[k][h] = IF h = i THEN s ELSE f[k][h]
<1> DEFINE lk == [f[k] EXCEPT ![i] = s]
           g == [f EXCEPT ![k] = lk]
<1>1. f \in [1..3 -> AnyLevel] /\ \A j \in 1..3 : f[j] \in [Index(j) -> Seq(Line)]
  BY DEF Levels
<1>2. lk \in [Index(k) -> Seq(Line)] /\ \A h \in Index(k) : lk[h] = IF h = i THEN s ELSE f[k][h]
  BY <1>1
<1>3. Put(f, k, i, s) = g
  BY <1>1 DEF Put
<1> HIDE DEF lk
<1>4. lk \in AnyLevel
  BY Zenon, <1>2 DEF AnyLevel
<1>5. g \in [1..3 -> AnyLevel] /\ g[k] = lk /\ \A j \in 1..3 : j # k => g[j] = f[j]
  BY <1>1, <1>4
<1> HIDE DEF g
<1>6. \A j \in 1..3 : g[j] \in [Index(j) -> Seq(Line)]
  BY <1>1, <1>2, <1>5
<1>7. g \in Levels
  BY Zenon, <1>5, <1>6 DEF Levels
<1>8. \A h \in Index(k) : g[k][h] = IF h = i THEN s ELSE f[k][h]
  BY Zenon, <1>2, <1>5
<1> QED BY Zenon, <1>3, <1>5, <1>7, <1>8

\* y is x with the set s for block b in level k.
Changed(k, x, b, s, y) ==
  /\ y.ram = x.ram
  /\ \A j \in 1..3 : j # k => y.l[j] = x.l[j]
  /\ \A h \in Index(k) : y.l[k][h] = IF h = address_fields(k, b) THEN s ELSE x.l[k][h]

LEMMA InstallIs ==
  ASSUME NEW x \in MemType, NEW k \in 1..3, NEW b \in Nat, NEW s \in Seq(Line)
  PROVE  Install(k, x, b, s) \in MemType /\ Changed(k, x, b, s, Install(k, x, b, s))
<1> DEFINE i == address_fields(k, b)
           g == Put(x.l, k, i, s)
           y == [x EXCEPT !.l = g]
<1>1. i \in Index(k)
  BY IndexIs
<1>2. x.l \in Levels /\ x.ram \in [RamBlocks -> Data]
  BY MemIs
<1>3. Install(k, x, b, s) = y
  BY DEF Install, MemType, Put
<1> HIDE DEF i
<1>4. /\ g \in Levels
      /\ \A j \in 1..3 : j # k => g[j] = x.l[j]
      /\ \A h \in Index(k) : g[k][h] = IF h = i THEN s ELSE x.l[k][h]
  BY <1>1, <1>2, LevelsPut
<1> HIDE DEF g
<1>5. y \in MemType /\ y.l = g /\ y.ram = x.ram
  BY <1>2, <1>4 DEF MemType
<1> HIDE DEF y
<1> QED BY Zenon, <1>1, <1>3, <1>4, <1>5 DEF i, Changed

\* A set that is exchanged for a good one.
LEMMA InstallOK ==
  ASSUME NEW x, Wf(x), NEW k \in 1..3, NEW b \in Nat, NEW s, SetOK(k, address_fields(k, b), s)
  PROVE  /\ Wf(Install(k, x, b, s)) /\ Changed(k, x, b, s, Install(k, x, b, s))
         /\ SetOf(k, Install(k, x, b, s), b) = s
<1> DEFINE y == Install(k, x, b, s)
<1>1. x \in MemType /\ s \in Seq(Line)
  BY Zenon DEF Wf, SetOK
<1>0. y \in MemType /\ Changed(k, x, b, s, y)
  BY <1>1, InstallIs
<1>2. /\ y.ram = x.ram /\ \A j \in 1..3 : j # k => y.l[j] = x.l[j]
      /\ \A h \in Index(k) : y.l[k][h] = IF h = address_fields(k, b) THEN s ELSE x.l[k][h]
  BY Zenon, <1>0 DEF Changed
<1> HIDE DEF y
<1>3. address_fields(k, b) \in Index(k)
  BY IndexIs
<1>4. ASSUME NEW j \in 1..3, NEW h \in Index(j) PROVE SetOK(j, h, y.l[j][h])
  <2>1. SetOK(j, h, x.l[j][h])
    BY Zenon DEF Wf
  <2>2. CASE j # k
    BY Zenon, <1>2, <2>1, <2>2
  <2>3. CASE j = k /\ h = address_fields(k, b)
    BY Zenon, <1>2, <2>3
  <2>4. CASE j = k /\ h # address_fields(k, b)
    BY Zenon, <1>2, <2>1, <2>4
  <2> QED BY Zenon, <2>2, <2>3, <2>4
<1>5. Wf(y)
  BY Zenon, <1>0, <1>4 DEF Wf
<1>6. SetOf(k, y, b) = s
  BY Zenon, <1>2, <1>3 DEF SetOf
<1> QED BY Zenon, <1>0, <1>5, <1>6 DEF y

LEMMA BlockIs ==
  /\ \A b \in RamBlocks : b \in Nat
  /\ \A line \in Line : line.block \in Nat /\ line.block \in RamBlocks
<1>1. \A b \in RamBlocks : b \in Nat
  BY Constants DEF RamBlocks
<1> QED BY <1>1, LineIsRecord

LEMMA SetIs ==
  ASSUME NEW x, Wf(x), NEW k \in 1..3, NEW b \in Nat
  PROVE  SetOK(k, address_fields(k, b), SetOf(k, x, b))
BY Zenon, IndexIs DEF Wf, SetOf

LEMMA HoldsIs ==
  ASSUME NEW x, Wf(x), NEW k \in 1..3, NEW b \in Nat, Holds(k, x, b)
  PROVE  /\ Position(k, x, b) \in 1..Len(SetOf(k, x, b))
         /\ LineOf(k, x, b) = SetOf(k, x, b)[Position(k, x, b)]
         /\ LineOf(k, x, b) \in Line /\ LineOf(k, x, b).block = b /\ Has(k, x, LineOf(k, x, b))
         /\ b \in RamBlocks
<1> DEFINE s == SetOf(k, x, b)
           p == Position(k, x, b)
           line == LineOf(k, x, b)
<1>1. SetOK(k, address_fields(k, b), s)
  BY SetIs
<1>2. s \in Seq(Line) /\ DOMAIN s = 1..Len(s)
  BY <1>1 DEF SetOK
<1>3. p \in DOMAIN s /\ s[p].block = b
  BY Zenon DEF Holds, Position
<1>4. line = s[p]
  BY DEF LineOf
<1> HIDE DEF s, p, line
<1>5. p \in 1..Len(s) /\ line \in Line /\ line.block = b
  BY <1>2, <1>3, <1>4
<1>6. InSet(s, line)
  BY Zenon, <1>4, <1>5 DEF InSet
<1>7. Has(k, x, line)
  BY Zenon, <1>5, <1>6 DEF Has, s
<1>8. b \in RamBlocks
  BY <1>5, BlockIs
<1> QED BY Zenon, <1>4, <1>5, <1>7, <1>8 DEF s, p, line

LEMMA HasIs ==
  ASSUME NEW x, Wf(x), NEW k \in 1..3, NEW line \in Line, Has(k, x, line)
  PROVE  Holds(k, x, line.block) /\ LineOf(k, x, line.block) = line
<1> DEFINE b == line.block
           s == SetOf(k, x, b)
<1>1. b \in Nat
  BY BlockIs
<1>2. SetOK(k, address_fields(k, b), s)
  BY <1>1, SetIs
<1>3. s \in Seq(Line) /\ DOMAIN s = 1..Len(s) /\ \A j, h \in 1..Len(s) : s[j].block = s[h].block => j = h
  BY <1>2 DEF SetOK
<1>4. PICK j \in 1..Len(s) : s[j] = line
  BY Zenon DEF Has, InSet
<1>5. Holds(k, x, b)
  BY Zenon, <1>3, <1>4 DEF Holds
<1>6. /\ Position(k, x, b) \in 1..Len(s) /\ LineOf(k, x, b) = s[Position(k, x, b)]
      /\ LineOf(k, x, b).block = b
  BY <1>1, <1>5, HoldsIs
<1>7. Position(k, x, b) = j
  BY Zenon, <1>3, <1>4, <1>6
<1> QED BY Zenon, <1>4, <1>5, <1>6, <1>7

\* A block has at most one line in a level.
LEMMA HasOne ==
  ASSUME NEW x, Wf(x), NEW k \in 1..3, NEW line \in Line, Has(k, x, line),
         NEW e \in Line, Has(k, x, e), line.block = e.block
  PROVE  line = e
<1>1. LineOf(k, x, line.block) = line
  BY HasIs
<1>2. LineOf(k, x, e.block) = e
  BY HasIs
<1> QED BY <1>1, <1>2

LEMMA SeeIs ==
  /\ \A k \in 1..3 : \A x, b : See(k, x, b) = IF Holds(k, x, b) THEN LineOf(k, x, b).data ELSE See(k + 1, x, b)
  /\ \A x, b : See(4, x, b) = x.ram[b]
<1>1. ASSUME NEW k \in 1..3, NEW x, NEW b
      PROVE  See(k, x, b) = IF Holds(k, x, b) THEN LineOf(k, x, b).data ELSE See(k + 1, x, b)
  <2>1. CASE k = 1
    BY <2>1 DEF See
  <2>2. CASE k = 2
    BY <2>2 DEF See
  <2>3. CASE k = 3
    BY <2>3 DEF See
  <2> QED BY <2>1, <2>2, <2>3
<1>2. ASSUME NEW x, NEW b PROVE See(4, x, b) = x.ram[b]
  BY DEF See
<1> QED BY Zenon, <1>1, <1>2

LEMMA SeeLine ==
  ASSUME NEW x, Wf(x), NEW k \in 1..3, NEW line \in Line, Has(k, x, line)
  PROVE  See(k, x, line.block) = line.data
<1> DEFINE b == line.block
<1>1. Holds(k, x, b) /\ LineOf(k, x, b) = line
  BY HasIs
<1>2. See(k, x, b) = IF Holds(k, x, b) THEN LineOf(k, x, b).data ELSE See(k + 1, x, b)
  BY SeeIs
<1> QED BY Zenon, <1>1, <1>2

\* Nothing of level k is on the way.
Lacks(k, x, b) == \A line \in Line : Has(k, x, line) => line.block # b

LEMMA LacksIs ==
  ASSUME NEW x, Wf(x), NEW k \in 1..3, NEW b \in Nat
  PROVE  /\ Lacks(k, x, b) <=> ~Holds(k, x, b)
         /\ Lacks(k, x, b) => See(k, x, b) = See(k + 1, x, b)
<1>1. ASSUME Holds(k, x, b), Lacks(k, x, b) PROVE FALSE
  BY Zenon, <1>1, HoldsIs DEF Lacks
<1>2. ASSUME ~Holds(k, x, b), NEW line \in Line, Has(k, x, line), line.block = b PROVE FALSE
  BY Zenon, <1>2, HasIs
<1>3. Lacks(k, x, b) <=> ~Holds(k, x, b)
  BY Zenon, <1>1, <1>2 DEF Lacks
<1> QED BY Zenon, <1>3, SeeIs

\* What is seen from level k on depends on the lines from there on only.
LEMMA SeeOne ==
  ASSUME NEW x, Wf(x), NEW y, Wf(y), NEW k \in 1..3, NEW b \in Nat,
         \A line \in Line : Has(k, y, line) <=> Has(k, x, line),
         See(k + 1, y, b) = See(k + 1, x, b)
  PROVE  See(k, y, b) = See(k, x, b)
<1>1. CASE Lacks(k, x, b)
  <2>1. Lacks(k, y, b)
    BY Zenon, <1>1 DEF Lacks
  <2> QED BY Zenon, <1>1, <2>1, LacksIs
<1>2. CASE ~Lacks(k, x, b)
  <2>1. PICK line \in Line : Has(k, x, line) /\ line.block = b
    BY Zenon, <1>2 DEF Lacks
  <2> QED BY Zenon, <2>1, SeeLine
<1> QED BY <1>1, <1>2

LEMMA SeeSame ==
  ASSUME NEW x, Wf(x), NEW y, Wf(y), NEW k \in 1..4, NEW b \in Nat, y.ram = x.ram,
         \A j \in 1..3 : j >= k => \A line \in Line : Has(j, y, line) <=> Has(j, x, line)
  PROVE  See(k, y, b) = See(k, x, b)
<1>1. See(4, y, b) = See(4, x, b)
  <2>1. \A v, c : See(4, v, c) = v.ram[c]
    BY SeeIs
  <2> QED BY Zenon, <2>1
<1>2. k <= 3 => See(3, y, b) = See(3, x, b)
  <2> SUFFICES ASSUME k <= 3 PROVE See(3, y, b) = See(3, x, b)
    OBVIOUS
  <2>1. 3 \in 1..3 /\ 3 >= k /\ 3 + 1 = 4
    OBVIOUS
  <2>2. See(3 + 1, y, b) = See(3 + 1, x, b)
    BY <1>1, <2>1
  <2> QED BY <2>1, <2>2, SeeOne
<1>3. k <= 2 => See(2, y, b) = See(2, x, b)
  <2> SUFFICES ASSUME k <= 2 PROVE See(2, y, b) = See(2, x, b)
    OBVIOUS
  <2>1. 2 \in 1..3 /\ 2 >= k /\ 2 + 1 = 3 /\ k <= 3
    OBVIOUS
  <2>2. See(2 + 1, y, b) = See(2 + 1, x, b)
    BY <1>2, <2>1
  <2> QED BY <2>1, <2>2, SeeOne
<1>4. k <= 1 => See(1, y, b) = See(1, x, b)
  <2> SUFFICES ASSUME k <= 1 PROVE See(1, y, b) = See(1, x, b)
    OBVIOUS
  <2>1. 1 \in 1..3 /\ 1 >= k /\ 1 + 1 = 2 /\ k <= 2
    OBVIOUS
  <2>2. See(1 + 1, y, b) = See(1 + 1, x, b)
    BY <1>3, <2>1
  <2> QED BY <2>1, <2>2, SeeOne
<1>5. k = 1 \/ k = 2 \/ k = 3 \/ k = 4
  OBVIOUS
<1>6. CASE k = 1 BY <1>4, <1>6
<1>7. CASE k = 2 BY <1>3, <1>7
<1>8. CASE k = 3 BY <1>2, <1>8
<1>9. CASE k = 4 BY <1>1, <1>9
<1> QED BY <1>5, <1>6, <1>7, <1>8, <1>9

\* A level that did not move has the same lines.
LEMMA HasSame ==
  ASSUME NEW x, NEW y, NEW k \in 1..3, y.l[k] = x.l[k], NEW line
  PROVE  Has(k, y, line) <=> Has(k, x, line)
BY Zenon DEF Has, SetOf

-----------------------------------------------------------------------------
(* A level reads.                                                           *)

Result == [ok : BOOLEAN, m : MemType, data : Data \cup {<<>>}]

\* r is the result of reading block b from level k on in x.
Reads(k, x, b, r) ==
  /\ r \in Result /\ Inv(k, r.m) /\ Same(k, x, r.m)
  /\ \A c \in RamBlocks : See(k, r.m, c) = See(k, x, c)
  /\ r.ok <=> b \in RamBlocks
  /\ r.ok => r.data = See(k, x, b)

\* The block that was read is the most recent line of its set.
Recent(k, b, r) ==
  r.ok => Len(SetOf(k, r.m, b)) > 0 /\ Last(SetOf(k, r.m, b)).block = b

LEMMA LevelIs == \A k \in 1..3 : k + 1 \in 2..4 /\ k + 1 \in 1..4 /\ k \in 1..4
OBVIOUS

\* What an exchanged set means for the lines.
LEMMA HasChanged ==
  ASSUME NEW x, NEW y, NEW k \in 1..3, NEW b \in Nat, NEW t, Changed(k, x, b, t, y)
  PROVE  /\ \A j \in 1..3, line \in Line : j # k => (Has(j, y, line) <=> Has(j, x, line))
         /\ \A line \in Line : address_fields(k, line.block) = address_fields(k, b) =>
                                 (Has(k, y, line) <=> InSet(t, line))
         /\ \A line \in Line : address_fields(k, line.block) # address_fields(k, b) =>
                                 (Has(k, y, line) <=> Has(k, x, line))
<1>1. \A j \in 1..3, line \in Line : j # k => (Has(j, y, line) <=> Has(j, x, line))
  BY Zenon, HasSame DEF Changed
<1>2. ASSUME NEW line \in Line
      PROVE  /\ address_fields(k, line.block) = address_fields(k, b) => (Has(k, y, line) <=> InSet(t, line))
             /\ address_fields(k, line.block) # address_fields(k, b) => (Has(k, y, line) <=> Has(k, x, line))
  <2>1. address_fields(k, line.block) \in Index(k)
    BY BlockIs, IndexIs
  <2>2. SetOf(k, y, line.block) = IF address_fields(k, line.block) = address_fields(k, b) THEN t
                                  ELSE SetOf(k, x, line.block)
    BY Zenon, <2>1 DEF Changed, SetOf
  <2> QED BY Zenon, <2>2 DEF Has
<1> QED BY Zenon, <1>1, <1>2

\* Levels with the same lines look the same.
LEMMA InvSame ==
  ASSUME NEW k \in 1..3, NEW x, Inv(k, x), NEW y, Wf(y), y.ram = x.ram,
         \A j \in 1..3, line \in Line : Has(j, y, line) <=> Has(j, x, line)
  PROVE  Inv(k, y) /\ \A c \in Nat : See(k, y, c) = See(k, x, c)
<1>1. Wf(x)
  BY DEF Inv
<1>2. ASSUME NEW j \in 1..4, NEW c \in Nat PROVE See(j, y, c) = See(j, x, c)
  BY <1>1, SeeSame
<1>3. ASSUME NEW j \in k..3 PROVE CleanAt(j, y)
  <2>1. j \in 1..3 /\ j + 1 \in 1..4
    OBVIOUS
  <2>2. CleanAt(j, x)
    BY Zenon DEF Inv
  <2>3. ASSUME NEW line \in Line, Has(j, y, line), ~line.dirty PROVE line.data = See(j + 1, y, line.block)
    <3>1. line.block \in Nat
      BY BlockIs
    <3>2. Has(j, x, line)
      BY Zenon, <2>1, <2>3
    <3>3. line.data = See(j + 1, x, line.block)
      BY Zenon, <2>2, <2>3, <3>2 DEF CleanAt
    <3> QED BY Zenon, <1>2, <2>1, <3>1, <3>3
  <2> QED BY Zenon, <2>3 DEF CleanAt
<1>4. k \in 1..4
  OBVIOUS
<1> QED BY Zenon, <1>2, <1>3, <1>4 DEF Inv

LEMMA ReadHit ==
  ASSUME NEW k \in 1..3, NEW x, Inv(k, x), NEW b \in Nat, Holds(k, x, b)
  PROVE  LET s == SetOf(k, x, b)
             hit == LineOf(k, x, b)
             r == [ok |-> TRUE, data |-> hit.data,
                   m |-> Install(k, x, b, Append(RemoveAt(s, Position(k, x, b)), hit))]
         IN  Reads(k, x, b, r) /\ Recent(k, b, r)
<1> DEFINE s == SetOf(k, x, b)
           p == Position(k, x, b)
           hit == LineOf(k, x, b)
           t == Append(RemoveAt(s, p), hit)
           y == Install(k, x, b, t)
           r == [ok |-> TRUE, data |-> hit.data, m |-> y]
<1>1. Wf(x)
  BY DEF Inv
<1>2. /\ p \in 1..Len(s) /\ hit = s[p] /\ hit \in Line /\ hit.block = b /\ Has(k, x, hit)
      /\ b \in RamBlocks
  BY <1>1, HoldsIs
<1>3. SetOK(k, address_fields(k, b), s)
  BY <1>1, SetIs
<1>4. /\ SetOK(k, address_fields(k, b), t) /\ Len(t) > 0 /\ Last(t) = hit
      /\ \A e : InSet(t, e) <=> InSet(s, e)
  <2> HIDE DEF s, p
  <2>1. LET u == Append(RemoveAt(s, p), s[p])
        IN  /\ SetOK(k, address_fields(k, b), u) /\ Len(u) > 0 /\ Last(u) = s[p]
            /\ \A e : InSet(u, e) <=> InSet(s, e)
    BY Zenon, <1>2, <1>3, TouchOK
  <2>2. t = Append(RemoveAt(s, p), s[p])
    BY Zenon, <1>2
  <2> QED BY Zenon, <1>2, <2>1, <2>2
<1> HIDE DEF t
<1>5. Wf(y) /\ Changed(k, x, b, t, y) /\ SetOf(k, y, b) = t
  BY <1>1, <1>4, InstallOK
<1> HIDE DEF y
<1>6. \A j \in 1..3, line \in Line : Has(j, y, line) <=> Has(j, x, line)
  <2>1. /\ \A j \in 1..3, line \in Line : j # k => (Has(j, y, line) <=> Has(j, x, line))
        /\ \A line \in Line : address_fields(k, line.block) = address_fields(k, b) =>
                                 (Has(k, y, line) <=> InSet(t, line))
        /\ \A line \in Line : address_fields(k, line.block) # address_fields(k, b) =>
                                 (Has(k, y, line) <=> Has(k, x, line))
    BY <1>5, HasChanged
  <2>2. \A line \in Line : address_fields(k, line.block) = address_fields(k, b) => (Has(k, x, line) <=> InSet(s, line))
    BY Zenon DEF Has, SetOf
  <2> HIDE DEF s
  <2> QED BY Zenon, <1>4, <2>1, <2>2
<1>7. y.ram = x.ram /\ \A j \in 1..3 : j # k => y.l[j] = x.l[j]
  BY Zenon, <1>5 DEF Changed
<1>8. Inv(k, y) /\ \A c \in Nat : See(k, y, c) = See(k, x, c)
  BY <1>1, <1>5, <1>6, <1>7, InvSame
<1>9. Same(k, x, y)
  <2>1. \A j \in 1..3 : j < k => j # k
    OBVIOUS
  <2> QED BY Zenon, <1>7, <2>1 DEF Same
<1>10. hit.data \in Data /\ y \in MemType
  BY <1>2, <1>5, LineIsRecord DEF Wf
<1>11. See(k, x, b) = hit.data
  BY <1>1, <1>2, SeeLine
<1> HIDE DEF hit
<1>12. r \in Result /\ r.ok = TRUE /\ r.data = hit.data /\ r.m = y
  BY <1>10 DEF Result
<1> HIDE DEF r
<1>13. Reads(k, x, b, r)
  BY Zenon, <1>2, <1>8, <1>9, <1>11, <1>12, BlockIs DEF Reads
<1>14. Recent(k, b, r)
  BY Zenon, <1>2, <1>4, <1>5, <1>12 DEF Recent
<1> QED BY Zenon, <1>13, <1>14 DEF r, y, t, hit

\* A full set gives up its oldest line, and a dirty one is written first.
Full(k, x, b) == Len(SetOf(k, x, b)) = Assoc[k]
Victim(k, x, b) == Head(SetOf(k, x, b))
Spills(k, x, b) == Full(k, x, b) /\ Victim(k, x, b).dirty

\* g is x after the write of the victim and a read, both of the next level.
Below(k, x, b, g) ==
  /\ Inv(k + 1, g) /\ Same(k + 1, x, g)
  /\ \A c \in RamBlocks : ~(Spills(k, x, b) /\ c = Victim(k, x, b).block) =>
                            See(k + 1, g, c) = See(k + 1, x, c)
  /\ Spills(k, x, b) => See(k + 1, g, Victim(k, x, b).block) = Victim(k, x, b).data

LEMMA VictimIs ==
  ASSUME NEW k \in 1..3, NEW x, Wf(x), NEW b \in Nat, Full(k, x, b)
  PROVE  /\ Victim(k, x, b) \in Line /\ Has(k, x, Victim(k, x, b))
         /\ address_fields(k, Victim(k, x, b).block) = address_fields(k, b)
<1> DEFINE s == SetOf(k, x, b)
           v == Victim(k, x, b)
<1>1. SetOK(k, address_fields(k, b), s)
  BY SetIs
<1>2. s \in Seq(Line) /\ Len(s) = Assoc[k] /\ Assoc[k] \in Nat \ {0}
  BY <1>1, Constants DEF SetOK, Full
<1> HIDE DEF s
<1>3. Len(s) > 0
  BY <1>2
<1>4. Head(s) = s[1] /\ 1 \in 1..Len(s)
  BY <1>2, <1>3, FrontTail
<1>5. InSet(s, v)
  BY Zenon, <1>4 DEF InSet, s, Victim
<1>6. v \in Line /\ address_fields(k, v.block) = address_fields(k, b)
  BY <1>1, <1>5, SetLine
<1>7. Has(k, x, v)
  BY Zenon, <1>5, <1>6 DEF Has, SetOf, s
<1> QED BY Zenon, <1>6, <1>7 DEF v

LEMMA InvStep ==
  ASSUME NEW k \in 1..3, NEW x
  PROVE  Inv(k, x) <=> CleanAt(k, x) /\ Inv(k + 1, x)
<1>1. \A j : j \in k..3 <=> j = k \/ j \in (k + 1)..3
  OBVIOUS
<1> QED BY Zenon, <1>1 DEF Inv

\* The set of level k still holds the victim, so nothing changed seen from there.
LEMMA MissKeeps ==
  ASSUME NEW k \in 1..3, NEW x, Inv(k, x), NEW b \in Nat, NEW g, Below(k, x, b, g)
  PROVE  Inv(k, g) /\ \A c \in RamBlocks : See(k, g, c) = See(k, x, c)
<1>1. Wf(x) /\ CleanAt(k, x) /\ Inv(k + 1, g) /\ Wf(g)
  BY Zenon, InvStep DEF Inv, Below
<1>2. \A line \in Line : Has(k, g, line) <=> Has(k, x, line)
  <2>1. k < k + 1
    OBVIOUS
  <2>2. g.l[k] = x.l[k]
    BY Zenon, <2>1 DEF Below, Same
  <2> QED BY <2>2, HasSame
<1> DEFINE v == Victim(k, x, b)
<1>3. Spills(k, x, b) => v \in Line /\ Has(k, x, v) /\ v.dirty
  BY Zenon, <1>1, VictimIs DEF Spills
<1>4. /\ \A c \in RamBlocks : ~(Spills(k, x, b) /\ c = v.block) => See(k + 1, g, c) = See(k + 1, x, c)
      /\ Spills(k, x, b) => See(k + 1, g, v.block) = v.data
  BY Zenon DEF Below
<1> HIDE DEF v
<1>5. CleanAt(k, g)
  <2> SUFFICES ASSUME NEW line \in Line, Has(k, g, line), ~line.dirty
               PROVE  line.data = See(k + 1, g, line.block)
    BY Zenon DEF CleanAt
  <2>1. Has(k, x, line) /\ line.block \in RamBlocks
    BY <1>2, BlockIs
  <2>2. line.data = See(k + 1, x, line.block)
    BY Zenon, <1>1, <2>1 DEF CleanAt
  <2>3. ~(Spills(k, x, b) /\ line.block = v.block)
    BY Zenon, <1>1, <1>3, <2>1, HasOne
  <2> QED BY Zenon, <1>4, <2>1, <2>2, <2>3
<1>6. ASSUME NEW c \in RamBlocks PROVE See(k, g, c) = See(k, x, c)
  <2>0. c \in Nat
    BY BlockIs
  <2>1. CASE Lacks(k, x, c)
    <3>1. ~(Spills(k, x, b) /\ c = v.block)
      BY Zenon, <1>3, <2>1 DEF Lacks
    <3>2. See(k + 1, g, c) = See(k + 1, x, c)
      BY Zenon, <1>4, <3>1
    <3> QED BY <1>1, <1>2, <2>0, <3>2, SeeOne
  <2>2. CASE ~Lacks(k, x, c)
    <3>1. PICK line \in Line : Has(k, x, line) /\ line.block = c
      BY Zenon, <2>2 DEF Lacks
    <3>2. Has(k, g, line)
      BY <1>2, <3>1
    <3>3. See(k, x, line.block) = line.data
      BY <1>1, <3>1, SeeLine
    <3>4. See(k, g, line.block) = line.data
      BY <1>1, <3>2, SeeLine
    <3> QED BY Zenon, <3>1, <3>3, <3>4
  <2> QED BY <2>1, <2>2
<1> QED BY Zenon, <1>1, <1>5, <1>6, InvStep

\* The new line takes the place of the victim.
LEMMA MissFills ==
  ASSUME NEW k \in 1..3, NEW x, Inv(k, x), NEW b \in RamBlocks, ~Holds(k, x, b),
         NEW g, Below(k, x, b, g), NEW line \in Line, line.block = b, ~line.dirty,
         line.data = See(k + 1, x, b)
  PROVE  LET t == Append(Keep(k, SetOf(k, x, b)), line)
             y == Install(k, g, b, t)
         IN  /\ Inv(k, y) /\ Same(k, x, y)
             /\ \A c \in RamBlocks : See(k, y, c) = See(k, x, c)
             /\ SetOf(k, y, b) = t /\ Len(t) > 0 /\ Last(t) = line
<1> DEFINE s == SetOf(k, x, b)
           t == Append(Keep(k, s), line)
           y == Install(k, g, b, t)
           v == Victim(k, x, b)
           i == address_fields(k, b)
<1>0. b \in Nat
  BY BlockIs
<1>1. Wf(x) /\ CleanAt(k, x) /\ Inv(k + 1, g) /\ Wf(g)
  BY Zenon, InvStep DEF Inv, Below
<1>2. Lacks(k, x, b)
  BY <1>0, <1>1, LacksIs
<1>3. SetOK(k, i, s) /\ address_fields(k, line.block) = i
  BY <1>0, <1>1, SetIs
<1>4. \A e \in Line : address_fields(k, e.block) = i => (InSet(s, e) <=> Has(k, x, e))
  BY Zenon DEF Has, SetOf
<1>5. \A e : InSet(s, e) => e \in Line /\ Has(k, x, e)
  <2> SUFFICES ASSUME NEW e, InSet(s, e) PROVE e \in Line /\ Has(k, x, e)
    OBVIOUS
  <2>1. e \in Line /\ address_fields(k, e.block) = i
    BY <1>3, SetLine
  <2> QED BY Zenon, <1>4, <2>1
<1>6. \A e : InSet(s, e) => e.block # line.block
  BY Zenon, <1>2, <1>5 DEF Lacks
<1>7. Full(k, x, b) <=> Len(s) = Assoc[k]
  BY DEF Full
<1>8. v = Head(s)
  BY DEF Victim
<1> HIDE DEF s, i
<1>9. /\ SetOK(k, i, t) /\ Len(t) > 0 /\ Last(t) = line
      /\ \A e : InSet(t, e) <=> e = line \/ (InSet(s, e) /\ (Len(s) = Assoc[k] => e # Head(s)))
  <2>1. LET u == Append(Keep(k, s), line)
        IN  /\ SetOK(k, i, u) /\ Len(u) > 0 /\ Last(u) = line
            /\ \A e : InSet(u, e) <=> e = line \/ (InSet(s, e) /\ (Len(s) = Assoc[k] => e # Head(s)))
    BY Zenon, <1>3, <1>6, FillOK
  <2> QED BY Zenon, <2>1
<1> HIDE DEF t, v
<1>10. Wf(y) /\ Changed(k, g, b, t, y) /\ SetOf(k, y, b) = t
  BY <1>0, <1>1, <1>9, InstallOK DEF i
<1> HIDE DEF y
<1>11. /\ \A j \in 1..3, e \in Line : j # k => (Has(j, y, e) <=> Has(j, g, e))
       /\ \A e \in Line : address_fields(k, e.block) = i => (Has(k, y, e) <=> InSet(t, e))
       /\ \A e \in Line : address_fields(k, e.block) # i => (Has(k, y, e) <=> Has(k, g, e))
  BY <1>0, <1>10, HasChanged DEF i
<1>12. \A e \in Line : Has(k, g, e) <=> Has(k, x, e)
  <2>1. k < k + 1
    OBVIOUS
  <2>2. g.l[k] = x.l[k]
    BY Zenon, <2>1 DEF Below, Same
  <2> QED BY <2>2, HasSame
<1>13. Full(k, x, b) => v \in Line /\ Has(k, x, v) /\ address_fields(k, v.block) = i
  BY <1>0, <1>1, VictimIs DEF v, i
\* Level k has the line and, of the others, all but the victim.
<1>14. \A e \in Line : Has(k, y, e) <=> e = line \/ (Has(k, x, e) /\ (Full(k, x, b) => e # v))
  <2> SUFFICES ASSUME NEW e \in Line
               PROVE  Has(k, y, e) <=> e = line \/ (Has(k, x, e) /\ (Full(k, x, b) => e # v))
    OBVIOUS
  <2>1. CASE address_fields(k, e.block) = i
    BY Zenon, <1>4, <1>7, <1>8, <1>9, <1>11, <2>1
  <2>2. CASE address_fields(k, e.block) # i
    BY Zenon, <1>3, <1>11, <1>12, <1>13, <2>2
  <2> QED BY <2>1, <2>2
<1>15. y.ram = g.ram /\ \A j \in 1..3 : j # k => y.l[j] = g.l[j]
  BY Zenon, <1>10 DEF Changed
<1>16. ASSUME NEW j \in 1..4, j > k, NEW c \in Nat PROVE See(j, y, c) = See(j, g, c)
  <2>1. \A h \in 1..3 : h >= j => h # k
    BY <1>16
  <2>2. \A h \in 1..3 : h >= j => \A e \in Line : Has(h, y, e) <=> Has(h, g, e)
    BY Zenon, <1>11, <2>1
  <2> QED BY <1>1, <1>10, <1>15, <2>2, SeeSame
<1>17. k + 1 \in 1..4 /\ k + 1 > k
  OBVIOUS
<1>18. Inv(k + 1, y)
  <2> SUFFICES ASSUME NEW j \in (k + 1)..3 PROVE CleanAt(j, y)
    BY Zenon, <1>10 DEF Inv
  <2>1. j \in 1..3 /\ j # k /\ j + 1 \in 1..4 /\ j + 1 > k
    OBVIOUS
  <2>2. CleanAt(j, g)
    BY Zenon, <1>1 DEF Inv
  <2> SUFFICES ASSUME NEW e \in Line, Has(j, y, e), ~e.dirty PROVE e.data = See(j + 1, y, e.block)
    BY Zenon DEF CleanAt
  <2>3. e.data = See(j + 1, g, e.block)
    BY Zenon, <1>11, <2>1, <2>2 DEF CleanAt
  <2>4. See(j + 1, y, e.block) = See(j + 1, g, e.block)
    BY <1>16, <2>1, BlockIs
  <2> QED BY Zenon, <2>3, <2>4
<1>19. /\ \A c \in RamBlocks : ~(Spills(k, x, b) /\ c = v.block) => See(k + 1, y, c) = See(k + 1, x, c)
       /\ Spills(k, x, b) => See(k + 1, y, v.block) = v.data
  <2>1. \A c \in RamBlocks : See(k + 1, y, c) = See(k + 1, g, c)
    BY <1>16, <1>17, BlockIs
  <2>2. Spills(k, x, b) => v.block \in RamBlocks
    BY <1>13, BlockIs DEF Spills
  <2> QED BY Zenon, <2>1, <2>2 DEF Below, v
<1>20. Spills(k, x, b) <=> Full(k, x, b) /\ v.dirty
  BY Zenon DEF Spills, v
<1>21. Full(k, x, b) => v.block # b
  BY Zenon, <1>2, <1>13 DEF Lacks
<1>22. CleanAt(k, y)
  <2> SUFFICES ASSUME NEW e \in Line, Has(k, y, e), ~e.dirty PROVE e.data = See(k + 1, y, e.block)
    BY Zenon DEF CleanAt
  <2>1. CASE e = line
    BY Zenon, <1>19, <1>20, <1>21, <2>1
  <2>2. CASE Has(k, x, e) /\ (Full(k, x, b) => e # v)
    <3>1. e.block \in RamBlocks /\ e.data = See(k + 1, x, e.block)
      BY Zenon, <1>1, <2>2, BlockIs DEF CleanAt
    <3>2. Full(k, x, b) => e.block # v.block
      BY Zenon, <1>1, <1>13, <2>2, HasOne
    <3> QED BY Zenon, <1>19, <1>20, <3>1, <3>2
  <2> QED BY Zenon, <1>14, <2>1, <2>2
<1>23. ASSUME NEW c \in RamBlocks PROVE See(k, y, c) = See(k, x, c)
  <2>0. c \in Nat
    BY BlockIs
  <2>1. CASE c = b
    <3>1. Has(k, y, line)
      BY Zenon, <1>14
    <3>2. See(k, y, b) = line.data
      BY <1>10, <3>1, SeeLine
    <3>3. See(k, x, b) = See(k + 1, x, b)
      BY <1>0, <1>1, <1>2, LacksIs
    <3> QED BY Zenon, <2>1, <3>2, <3>3
  <2>2. CASE c # b /\ Lacks(k, x, c)
    <3>1. Lacks(k, y, c)
      BY Zenon, <1>14, <2>2 DEF Lacks
    <3>2. See(k, y, c) = See(k + 1, y, c)
      BY <1>10, <2>0, <3>1, LacksIs
    <3>3. See(k, x, c) = See(k + 1, x, c)
      BY <1>1, <2>0, <2>2, LacksIs
    <3>4. Full(k, x, b) => c # v.block
      BY Zenon, <1>13, <2>2 DEF Lacks
    <3> QED BY Zenon, <1>19, <1>20, <3>2, <3>3, <3>4
  <2>3. CASE Full(k, x, b) /\ c = v.block
    <3>1. Lacks(k, y, c)
      <4> SUFFICES ASSUME NEW e \in Line, Has(k, y, e), e.block = c PROVE FALSE
        BY Zenon DEF Lacks
      <4>1. e # line
        BY Zenon, <1>21, <2>3
      <4>2. Has(k, x, e) /\ e # v
        BY Zenon, <1>14, <2>3, <4>1
      <4> QED BY Zenon, <1>1, <1>13, <2>3, <4>2, HasOne
    <3>2. See(k, y, c) = See(k + 1, y, c)
      BY <1>10, <2>0, <3>1, LacksIs
    <3>3. See(k, x, v.block) = v.data
      BY <1>1, <1>13, <2>3, SeeLine
    <3>4. CASE v.dirty
      BY Zenon, <1>19, <1>20, <2>3, <3>2, <3>3, <3>4
    <3>5. CASE ~v.dirty
      <4>1. v.data = See(k + 1, x, v.block)
        BY Zenon, <1>1, <1>13, <2>3, <3>5 DEF CleanAt
      <4> QED BY Zenon, <1>19, <1>20, <2>3, <3>2, <3>3, <3>5, <4>1
    <3> QED BY <3>4, <3>5
  <2>4. CASE c # b /\ ~Lacks(k, x, c) /\ ~(Full(k, x, b) /\ c = v.block)
    <3>1. PICK e \in Line : Has(k, x, e) /\ e.block = c
      BY Zenon, <2>4 DEF Lacks
    <3>2. Has(k, y, e)
      BY Zenon, <1>14, <2>4, <3>1
    <3>3. See(k, x, e.block) = e.data
      BY <1>1, <3>1, SeeLine
    <3>4. See(k, y, e.block) = e.data
      BY <1>10, <3>2, SeeLine
    <3> QED BY Zenon, <3>1, <3>3, <3>4
  <2> QED BY Zenon, <2>1, <2>2, <2>3, <2>4
<1>24. Same(k, x, y)
  <2>1. \A j \in 1..3 : j < k => j # k /\ j < k + 1
    OBVIOUS
  <2> QED BY Zenon, <1>15, <2>1 DEF Same, Below
<1>25. Inv(k, y)
  BY Zenon, <1>18, <1>22, InvStep
<1> QED BY Zenon, <1>9, <1>10, <1>23, <1>24, <1>25 DEF y, t, s

Resolve(k, x, b, f) ==
  LET s == SetOf(k, x, b)
      hit == LineOf(k, x, b)
      line == [block |-> b, dirty |-> FALSE, data |-> f.data]
  IN  CASE Holds(k, x, b) ->
             [ok |-> TRUE, data |-> hit.data,
              m |-> Install(k, x, b, Append(RemoveAt(s, Position(k, x, b)), hit))]
        [] ~Holds(k, x, b) /\ ~f.ok -> f
        [] OTHER -> [f EXCEPT !.m = Install(k, @, b, Append(Keep(k, s), line))]

LEMMA BelowReads ==
  ASSUME NEW k \in 1..3, NEW x, Inv(k, x), NEW b \in Nat, NEW e, Below(k, x, b, e),
         NEW f, Reads(k + 1, e, b, f)
  PROVE  Below(k, x, b, f.m) /\ (f.ok /\ ~Holds(k, x, b) => f.data = See(k + 1, x, b))
<1> DEFINE v == Victim(k, x, b)
<1>1. /\ Inv(k + 1, f.m) /\ Same(k + 1, e, f.m) /\ (f.ok <=> b \in RamBlocks)
      /\ \A c \in RamBlocks : See(k + 1, f.m, c) = See(k + 1, e, c)
      /\ f.ok => f.data = See(k + 1, e, b)
  BY Zenon DEF Reads
<1>2. Wf(x)
  BY Zenon DEF Inv
<1>3. Spills(k, x, b) => v \in Line /\ v.block \in RamBlocks /\ Has(k, x, v)
  BY Zenon, <1>2, VictimIs, BlockIs DEF Spills
<1>4. Same(k + 1, x, f.m)
  BY Zenon, <1>1 DEF Below, Same
<1>5. Below(k, x, b, f.m)
  BY Zenon, <1>1, <1>3, <1>4 DEF Below
<1>6. ASSUME f.ok, ~Holds(k, x, b) PROVE f.data = See(k + 1, x, b)
  <2>1. Lacks(k, x, b)
    BY <1>2, <1>6, LacksIs
  <2>2. ~(Spills(k, x, b) /\ b = v.block)
    BY Zenon, <1>3, <2>1 DEF Lacks
  <2> QED BY Zenon, <1>1, <1>6, <2>2 DEF Below
<1> QED BY Zenon, <1>5, <1>6

LEMMA SeeData ==
  ASSUME NEW k \in 1..4, NEW x, Wf(x), NEW b \in RamBlocks
  PROVE  See(k, x, b) \in Data
<1>1. b \in Nat
  BY BlockIs
<1>2. x.ram[b] \in Data
  BY MemIs DEF Wf
<1>3. ASSUME NEW j \in 1..3, Holds(j, x, b) PROVE LineOf(j, x, b).data \in Data
  BY <1>1, <1>3, HoldsIs, LineIsRecord
<1>4. 1 \in 1..3 /\ 2 \in 1..3 /\ 3 \in 1..3
  OBVIOUS
<1> QED BY Zenon, <1>2, <1>3, <1>4 DEF See

LEMMA ResolveOK ==
  ASSUME NEW k \in 1..3, NEW x, Inv(k, x), NEW b \in Nat, NEW e, Below(k, x, b, e),
         NEW f, Reads(k + 1, e, b, f)
  PROVE  Reads(k, x, b, Resolve(k, x, b, f)) /\ Recent(k, b, Resolve(k, x, b, f))
<1> DEFINE s == SetOf(k, x, b)
           hit == LineOf(k, x, b)
           h == [ok |-> TRUE, data |-> hit.data,
                 m |-> Install(k, x, b, Append(RemoveAt(s, Position(k, x, b)), hit))]
           line == [block |-> b, dirty |-> FALSE, data |-> f.data]
           t == Append(Keep(k, s), line)
           y == Install(k, f.m, b, t)
           r == Resolve(k, x, b, f)
<1>1. Wf(x)
  BY Zenon DEF Inv
<1>2. /\ f \in Result /\ Inv(k + 1, f.m) /\ (f.ok <=> b \in RamBlocks)
      /\ Below(k, x, b, f.m) /\ (f.ok /\ ~Holds(k, x, b) => f.data = See(k + 1, x, b))
  <2>1. f \in Result /\ Inv(k + 1, f.m) /\ (f.ok <=> b \in RamBlocks)
    BY Zenon DEF Reads
  <2>2. Below(k, x, b, f.m) /\ (f.ok /\ ~Holds(k, x, b) => f.data = See(k + 1, x, b))
    BY BelowReads
  <2> QED BY Zenon, <2>1, <2>2
<1>3. CASE Holds(k, x, b)
  <2>1. r = h
    BY Zenon, <1>3 DEF Resolve
  <2>2. Reads(k, x, b, h) /\ Recent(k, b, h)
    BY Zenon, <1>3, ReadHit
  <2> HIDE DEF r, h
  <2> QED BY Zenon, <2>1, <2>2 DEF r
<1>4. CASE ~Holds(k, x, b) /\ ~f.ok
  <2>1. r = f
    BY Zenon, <1>4 DEF Resolve
  <2>2. Inv(k, f.m) /\ \A c \in RamBlocks : See(k, f.m, c) = See(k, x, c)
    BY <1>2, MissKeeps
  <2>3. Same(k, x, f.m)
    <3>1. \A j \in 1..3 : j < k => j < k + 1
      OBVIOUS
    <3> QED BY Zenon, <1>2, <3>1 DEF Below, Same
  <2>4. Reads(k, x, b, f)
    BY Zenon, <1>2, <1>4, <2>2, <2>3 DEF Reads
  <2>5. Recent(k, b, f)
    BY Zenon, <1>4 DEF Recent
  <2> HIDE DEF r
  <2> QED BY Zenon, <2>1, <2>4, <2>5 DEF r
<1>5. CASE ~Holds(k, x, b) /\ f.ok
  <2>1. r = [f EXCEPT !.m = y]
    BY Zenon, <1>5 DEF Resolve
  <2>2. b \in RamBlocks /\ f.data = See(k + 1, x, b)
    BY Zenon, <1>2, <1>5
  <2>3. k + 1 \in 1..4
    OBVIOUS
  <2>4. f.data \in Data
    BY <1>1, <2>2, <2>3, SeeData
  <2>5. line \in Line /\ line.block = b /\ ~line.dirty /\ line.data = f.data
    BY <2>2, <2>4 DEF Line, RamBlocks, Data
  <2> HIDE DEF line
  <2>6. /\ Inv(k, y) /\ Same(k, x, y)
        /\ \A c \in RamBlocks : See(k, y, c) = See(k, x, c)
        /\ SetOf(k, y, b) = t /\ Len(t) > 0 /\ Last(t) = line
    <3>1. line.data = See(k + 1, x, b)
      BY Zenon, <2>2, <2>5
    <3>2. Below(k, x, b, f.m) /\ ~Holds(k, x, b)
      BY Zenon, <1>2, <1>5
    <3> DEFINE g == f.m
    <3> HIDE DEF g
    <3>3. Below(k, x, b, g)
      BY Zenon, <3>2 DEF g
    <3>4. LET t2 == Append(Keep(k, SetOf(k, x, b)), line)
              y2 == Install(k, g, b, t2)
          IN  /\ Inv(k, y2) /\ Same(k, x, y2)
              /\ \A c \in RamBlocks : See(k, y2, c) = See(k, x, c)
              /\ SetOf(k, y2, b) = t2 /\ Len(t2) > 0 /\ Last(t2) = line
      BY ONLY <2>2, <2>5, <3>1, <3>2, <3>3, MissFills, k \in 1..3, Inv(k, x)
    <3> QED BY Zenon, <3>4 DEF g
  <2>7. See(k, x, b) = f.data
    BY <1>1, <1>5, <2>2, LacksIs
  <2> HIDE DEF y, r
  <2>8. y \in MemType
    BY Zenon, <2>6 DEF Inv, Wf
  <2>9. r \in Result /\ r.ok = f.ok /\ r.data = f.data /\ r.m = y
    BY <1>2, <2>1, <2>8 DEF Result
  <2>10. Reads(k, x, b, r)
    BY Zenon, <1>2, <2>2, <2>6, <2>7, <2>9 DEF Reads
  <2>11. Recent(k, b, r)
    BY Zenon, <2>5, <2>6, <2>9 DEF Recent
  <2> QED BY Zenon, <2>10, <2>11 DEF r
<1> QED BY <1>3, <1>4, <1>5

-----------------------------------------------------------------------------
(* A level writes.                                                          *)

\* Some cells of a block.
Cut == UNION {[S -> Values] : S \in SUBSET Offsets}

Merge(d, old) == [o \in Offsets |-> IF o \in DOMAIN d THEN d[o] ELSE old[o]]

\* r is the result of writing the cells d of block b to level k in x.
Writes(k, x, b, d, r) ==
  /\ r \in Result /\ Inv(k, r.m) /\ Same(k, x, r.m)
  /\ \A c \in RamBlocks : c # b => See(k, r.m, c) = See(k, x, c)
  /\ r.ok <=> b \in RamBlocks
  /\ r.ok => See(k, r.m, b) = Merge(d, See(k, x, b))

LEMMA CutIs ==
  ASSUME NEW d \in Cut
  PROVE  DOMAIN d \in SUBSET Offsets /\ \A o \in DOMAIN d : d[o] \in Values
BY DEF Cut

LEMMA MergeIs ==
  /\ \A d \in Cut, old \in Data : Merge(d, old) \in Data
  /\ \A d \in Data : \A old : Merge(d, old) = d /\ d \in Cut
<1>1. ASSUME NEW d \in Cut, NEW old \in Data PROVE Merge(d, old) \in Data
  BY CutIs DEF Merge, Data
<1>2. ASSUME NEW d \in Data, NEW old PROVE Merge(d, old) = d /\ d \in Cut
  BY DEF Merge, Data, Cut
<1> QED BY Zenon, <1>1, <1>2

LEMMA WriteOK ==
  ASSUME NEW k \in 1..3, NEW x, NEW b \in Nat, NEW d \in Cut,
         NEW r, Reads(k, x, b, r), Recent(k, b, r)
  PROVE  Writes(k, x, b, d, WriteLine(k, b, d, r))
<1> DEFINE w == WriteLine(k, b, d, r)
           g == r.m
           s == SetOf(k, g, b)
           z == Last(s)
           line == [block |-> b, dirty |-> TRUE, data |-> Merge(d, z.data)]
           t == Append(Front(s), line)
           y == Install(k, g, b, t)
           i == address_fields(k, b)
<1>1. /\ r \in Result /\ Inv(k, g) /\ Same(k, x, g)
      /\ \A c \in RamBlocks : See(k, g, c) = See(k, x, c)
      /\ r.ok <=> b \in RamBlocks
  BY Zenon DEF Reads
<1>2. CASE ~r.ok
  <2>1. w = r
    BY Zenon, <1>2 DEF WriteLine
  <2> HIDE DEF w
  <2> QED BY Zenon, <1>1, <1>2, <2>1 DEF Writes, w
<1>3. CASE r.ok
  <2>1. w = [r EXCEPT !.m = y]
    BY <1>3 DEF WriteLine, Merge
  <2>2. b \in RamBlocks /\ Len(s) > 0 /\ z.block = b
    BY Zenon, <1>1, <1>3 DEF Recent
  <2>3. Wf(g) /\ CleanAt(k, g) /\ Inv(k + 1, g)
    BY Zenon, <1>1, InvStep DEF Inv
  <2>4. SetOK(k, i, s)
    BY <2>3, SetIs
  <2>5. z \in Line /\ InSet(s, z)
    <3>1. s \in Seq(Line) /\ Len(s) \in 1..Len(s)
      BY <2>2, <2>4 DEF SetOK
    <3>2. InSet(s, z)
      BY <3>1 DEF InSet, Last
    <3> QED BY <2>4, <3>2, SetLine
  <2>6. Has(k, g, z)
    BY Zenon, <2>2, <2>5 DEF Has
  <2>7. Merge(d, z.data) \in Data
    BY Zenon, <2>5, LineIsRecord, MergeIs
  <2>8. line \in Line /\ line.block = b /\ line.dirty /\ line.data = Merge(d, z.data)
    BY <2>2, <2>7 DEF Line, RamBlocks, Data
  <2>9. \A e \in Line : address_fields(k, e.block) = i => (InSet(s, e) <=> Has(k, g, e))
    BY Zenon DEF Has, SetOf
  <2>10. See(k, g, b) = z.data
    BY Zenon, <2>2, <2>3, <2>5, <2>6, SeeLine
  <2> HIDE DEF line, s, z, i, g
  <2>11. /\ SetOK(k, i, t) /\ Len(t) > 0 /\ Last(t) = line
         /\ \A e : InSet(t, e) <=> e = line \/ (InSet(s, e) /\ e # z)
    <3>1. line.block = Last(s).block
      BY Zenon, <2>2, <2>8 DEF z
    <3>2. LET u == Append(Front(s), line)
          IN  /\ SetOK(k, i, u) /\ Len(u) > 0 /\ Last(u) = line /\ InSet(s, Last(s))
              /\ \A e : InSet(u, e) <=> e = line \/ (InSet(s, e) /\ e # Last(s))
      BY Zenon, <2>2, <2>4, <2>8, <3>1, RewriteOK
    <3> QED BY Zenon, <3>2 DEF z
  <2> HIDE DEF t
  <2>12. Wf(y) /\ Changed(k, g, b, t, y) /\ SetOf(k, y, b) = t
    BY <2>3, <2>11, InstallOK DEF i
  <2> HIDE DEF y
  <2>13. /\ \A j \in 1..3, e \in Line : j # k => (Has(j, y, e) <=> Has(j, g, e))
         /\ \A e \in Line : address_fields(k, e.block) = i => (Has(k, y, e) <=> InSet(t, e))
         /\ \A e \in Line : address_fields(k, e.block) # i => (Has(k, y, e) <=> Has(k, g, e))
    BY <2>12, HasChanged DEF i
  <2>14. \A e \in Line : Has(k, y, e) <=> e = line \/ (Has(k, g, e) /\ e # z)
    <3> SUFFICES ASSUME NEW e \in Line PROVE Has(k, y, e) <=> e = line \/ (Has(k, g, e) /\ e # z)
      OBVIOUS
    <3>1. CASE address_fields(k, e.block) = i
      BY Zenon, <2>9, <2>11, <2>13, <3>1
    <3>2. CASE address_fields(k, e.block) # i
      BY Zenon, <2>2, <2>8, <2>13, <3>2 DEF i
    <3> QED BY <3>1, <3>2
  <2>15. y.ram = g.ram /\ \A j \in 1..3 : j # k => y.l[j] = g.l[j]
    BY Zenon, <2>12 DEF Changed
  <2>16. ASSUME NEW j \in 1..4, j > k, NEW c \in Nat PROVE See(j, y, c) = See(j, g, c)
    <3>1. \A h \in 1..3 : h >= j => h # k
      BY <2>16
    <3>2. \A h \in 1..3 : h >= j => \A e \in Line : Has(h, y, e) <=> Has(h, g, e)
      BY Zenon, <2>13, <3>1
    <3> QED BY <2>3, <2>12, <2>15, <3>2, SeeSame
  <2>17. k + 1 \in 1..4 /\ k + 1 > k
    OBVIOUS
  <2>18. Inv(k + 1, y)
    <3> SUFFICES ASSUME NEW j \in (k + 1)..3 PROVE CleanAt(j, y)
      BY Zenon, <2>12 DEF Inv
    <3>1. j \in 1..3 /\ j # k /\ j + 1 \in 1..4 /\ j + 1 > k
      OBVIOUS
    <3>2. CleanAt(j, g)
      BY Zenon, <2>3 DEF Inv
    <3> SUFFICES ASSUME NEW e \in Line, Has(j, y, e), ~e.dirty PROVE e.data = See(j + 1, y, e.block)
      BY Zenon DEF CleanAt
    <3>3. e.data = See(j + 1, g, e.block)
      BY Zenon, <2>13, <3>1, <3>2 DEF CleanAt
    <3>4. See(j + 1, y, e.block) = See(j + 1, g, e.block)
      BY <2>16, <3>1, BlockIs
    <3> QED BY Zenon, <3>3, <3>4
  <2>19. CleanAt(k, y)
    <3> SUFFICES ASSUME NEW e \in Line, Has(k, y, e), ~e.dirty PROVE e.data = See(k + 1, y, e.block)
      BY Zenon DEF CleanAt
    <3>1. Has(k, g, e)
      BY Zenon, <2>8, <2>14
    <3>2. e.data = See(k + 1, g, e.block)
      BY Zenon, <2>3, <3>1 DEF CleanAt
    <3>3. See(k + 1, y, e.block) = See(k + 1, g, e.block)
      BY <2>16, <2>17, BlockIs
    <3> QED BY Zenon, <3>2, <3>3
  <2>20. Inv(k, y)
    BY Zenon, <2>18, <2>19, InvStep
  <2>21. See(k, y, b) = Merge(d, z.data)
    <3>1. Has(k, y, line)
      BY Zenon, <2>8, <2>14
    <3>2. See(k, y, line.block) = line.data
      BY <2>8, <2>12, <3>1, SeeLine
    <3> QED BY Zenon, <2>8, <3>2
  <2>22. ASSUME NEW c \in RamBlocks, c # b PROVE See(k, y, c) = See(k, g, c)
    <3>0. c \in Nat
      BY BlockIs
    <3>1. CASE Lacks(k, g, c)
      <4>1. Lacks(k, y, c)
        BY Zenon, <2>8, <2>14, <2>22, <3>1 DEF Lacks
      <4>2. See(k, y, c) = See(k + 1, y, c)
        BY <2>12, <3>0, <4>1, LacksIs
      <4>3. See(k, g, c) = See(k + 1, g, c)
        BY <2>3, <3>0, <3>1, LacksIs
      <4>4. See(k + 1, y, c) = See(k + 1, g, c)
        BY <2>16, <2>17, <3>0
      <4> QED BY Zenon, <4>2, <4>3, <4>4
    <3>2. CASE ~Lacks(k, g, c)
      <4>1. PICK e \in Line : Has(k, g, e) /\ e.block = c
        BY Zenon, <3>2 DEF Lacks
      <4>2. Has(k, y, e)
        BY Zenon, <2>2, <2>14, <2>22, <4>1
      <4>3. See(k, g, e.block) = e.data
        BY <2>3, <4>1, SeeLine
      <4>4. See(k, y, e.block) = e.data
        BY <2>12, <4>2, SeeLine
      <4> QED BY Zenon, <4>1, <4>3, <4>4
    <3> QED BY <3>1, <3>2
  <2>23. Same(k, x, y)
    <3>1. \A j \in 1..3 : j < k => j # k
      OBVIOUS
    <3> QED BY Zenon, <1>1, <2>15, <3>1 DEF Same, g
  <2>24. y \in MemType
    BY Zenon, <2>12 DEF Wf
  <2> HIDE DEF w
  <2>25. w \in Result /\ w.ok = r.ok /\ w.m = y
    BY <1>1, <2>1, <2>24 DEF Result
  <2>26. See(k, y, b) = Merge(d, See(k, x, b))
    BY Zenon, <1>1, <2>2, <2>10, <2>21 DEF g
  <2>27. \A c \in RamBlocks : c # b => See(k, y, c) = See(k, x, c)
    BY Zenon, <1>1, <2>22 DEF g
  <2> QED BY Zenon, <1>1, <1>3, <2>20, <2>23, <2>25, <2>26, <2>27 DEF Writes, w
<1> QED BY <1>2, <1>3

-----------------------------------------------------------------------------
(* RAM and the three levels.                                                *)

LEMMA RamReads ==
  ASSUME NEW x, Inv(4, x), NEW b \in Nat
  PROVE  Reads(4, x, b, ram_read(x, b))
<1> DEFINE r == ram_read(x, b)
<1>1. Wf(x) /\ x \in MemType
  BY Zenon DEF Inv, Wf
<1>2. b < Blocks <=> b \in RamBlocks
  BY Constants DEF RamBlocks
<1>3. r = [ok |-> b < Blocks, m |-> x, data |-> IF b < Blocks THEN x.ram[b] ELSE <<>>]
  BY DEF ram_read
<1>4. b \in RamBlocks => x.ram[b] \in Data
  BY <1>1, MemIs
<1> HIDE DEF r
<1>5. r \in Result /\ r.m = x /\ (r.ok <=> b \in RamBlocks) /\ (r.ok => r.data = x.ram[b])
  <2>1. CASE b \in RamBlocks
    <3> DEFINE d == x.ram[b]
    <3>1. d \in Data
      BY <1>4, <2>1
    <3>2. r = [ok |-> TRUE, m |-> x, data |-> d]
      BY <1>2, <1>3, <2>1
    <3> HIDE DEF d
    <3>3. r \in Result /\ r.m = x /\ r.ok = TRUE /\ r.data = d
      BY <1>1, <3>1, <3>2 DEF Result
    <3> QED BY Zenon, <2>1, <3>3 DEF d
  <2>2. CASE b \notin RamBlocks
    <3>0. ~(b < Blocks)
      BY Zenon, <1>2, <2>2
    <3>1. r = [ok |-> FALSE, m |-> x, data |-> <<>>]
      <4> DEFINE small == b < Blocks
      <4>1. small = FALSE
        BY <3>0, Constants
      <4> HIDE DEF small
      <4>2. r = [ok |-> small, m |-> x, data |-> IF small THEN x.ram[b] ELSE <<>>]
        BY Zenon, <1>3 DEF small
      <4> QED BY Zenon, <4>1, <4>2
    <3>2. r \in Result /\ r.m = x /\ r.ok = FALSE
      BY <1>1, <3>1 DEF Result
    <3> QED BY Zenon, <2>2, <3>2
  <2> QED BY <2>1, <2>2
<1>6. See(4, x, b) = x.ram[b]
  BY SeeIs
<1> QED BY Zenon, <1>5, <1>6 DEF Reads, Same, r

LEMMA RamWrites ==
  ASSUME NEW x, Inv(4, x), NEW b \in Nat, NEW d \in Data
  PROVE  Writes(4, x, b, d, ram_write(x, b, d))
<1> DEFINE r == ram_write(x, b, d)
           y == [x EXCEPT !.ram[b] = d]
<1>1. Wf(x) /\ x \in MemType /\ x.ram \in [RamBlocks -> Data] /\ x.l \in Levels
  BY Zenon, MemIs DEF Inv, Wf
<1>2. b < Blocks <=> b \in RamBlocks
  BY Constants DEF RamBlocks
<1>3. r = [ok |-> b < Blocks, m |-> IF b < Blocks THEN y ELSE x, data |-> d]
  BY DEF ram_write
<1>4. b \in RamBlocks => /\ y \in MemType /\ y.l = x.l /\ y.ram[b] = d
                         /\ \A c \in RamBlocks : c # b => y.ram[c] = x.ram[c]
  BY <1>1 DEF MemType
<1> HIDE DEF y, r
<1>5. /\ r \in Result /\ (r.ok <=> b \in RamBlocks)
      /\ b \in RamBlocks => r.m = y
      /\ b \notin RamBlocks => r.m = x
  <2>1. CASE b \in RamBlocks
    <3>1. r = [ok |-> TRUE, m |-> y, data |-> d]
      BY <1>2, <1>3, <2>1
    <3>2. y \in MemType
      BY <1>4, <2>1
    <3>3. r \in Result /\ r.m = y /\ r.ok = TRUE
      BY <3>1, <3>2 DEF Result
    <3> QED BY Zenon, <2>1, <3>3
  <2>2. CASE b \notin RamBlocks
    <3>0. ~(b < Blocks)
      BY Zenon, <1>2, <2>2
    <3>1. r = [ok |-> FALSE, m |-> x, data |-> d]
      <4> DEFINE small == b < Blocks
      <4>1. small = FALSE
        BY <3>0, Constants
      <4> HIDE DEF small
      <4>2. r = [ok |-> small, m |-> IF small THEN y ELSE x, data |-> d]
        BY Zenon, <1>3 DEF small
      <4> QED BY Zenon, <4>1, <4>2
    <3>2. r \in Result /\ r.m = x /\ r.ok = FALSE
      BY <1>1, <3>1 DEF Result
    <3> QED BY Zenon, <2>2, <3>2
  <2> QED BY <2>1, <2>2
<1>6. Merge(d, See(4, x, b)) = d
  BY MergeIs
<1>7. CASE b \notin RamBlocks
  BY Zenon, <1>5, <1>7 DEF Writes, Same, r
<1>8. CASE b \in RamBlocks
  <2>1. Wf(y)
    BY Zenon, <1>1, <1>4, <1>8 DEF Wf
  <2>2. Inv(4, y)
    <3>1. \A j \in 4..3 : FALSE
      OBVIOUS
    <3> QED BY Zenon, <2>1, <3>1 DEF Inv
  <2>3. \A z, c : See(4, z, c) = z.ram[c]
    BY SeeIs
  <2>4. See(4, y, b) = d /\ \A c \in RamBlocks : c # b => See(4, y, c) = See(4, x, c)
    BY Zenon, <1>4, <1>8, <2>3
  <2> QED BY Zenon, <1>4, <1>5, <1>6, <1>8, <2>2, <2>4 DEF Writes, Same, r
<1> QED BY <1>7, <1>8

\* The hierarchy after the victim was written, if it had to be: w is the write.
Spilled(k, x, b, w) == IF Spills(k, x, b) THEN w.m ELSE x

LEMMA SpillOK ==
  ASSUME NEW k \in 1..3, NEW x, Inv(k, x), NEW b \in Nat, NEW w,
         Spills(k, x, b) => Writes(k + 1, x, Victim(k, x, b).block, Victim(k, x, b).data, w)
  PROVE  Below(k, x, b, Spilled(k, x, b, w))
<1> DEFINE v == Victim(k, x, b)
<1>1. Wf(x) /\ Inv(k + 1, x)
  BY Zenon, InvStep DEF Inv
<1>2. CASE ~Spills(k, x, b)
  <2>1. Spilled(k, x, b, w) = x
    BY Zenon, <1>2 DEF Spilled
  <2>2. Same(k + 1, x, x)
    BY Zenon DEF Same
  <2>3. Below(k, x, b, x)
    BY Zenon, <1>1, <1>2, <2>2 DEF Below
  <2> QED BY Zenon, <2>1, <2>3
<1>3. CASE Spills(k, x, b)
  <2>1. Spilled(k, x, b, w) = w.m
    BY Zenon, <1>3 DEF Spilled
  <2>2. v \in Line
    BY <1>1, <1>3, VictimIs DEF Spills
  <2>3. v.block \in RamBlocks /\ v.data \in Data
    BY <2>2, LineIsRecord
  <2>4. /\ Inv(k + 1, w.m) /\ Same(k + 1, x, w.m)
        /\ \A c \in RamBlocks : c # v.block => See(k + 1, w.m, c) = See(k + 1, x, c)
        /\ w.ok <=> v.block \in RamBlocks
        /\ w.ok => See(k + 1, w.m, v.block) = Merge(v.data, See(k + 1, x, v.block))
    BY Zenon, <1>3 DEF Writes
  <2>5. Merge(v.data, See(k + 1, x, v.block)) = v.data
    BY <2>3, MergeIs
  <2>6. See(k + 1, w.m, v.block) = v.data
    BY Zenon, <2>3, <2>4, <2>5
  <2>7. Below(k, x, b, w.m)
    BY Zenon, <1>3, <2>4, <2>6 DEF Below
  <2> QED BY Zenon, <2>1, <2>7
<1> QED BY <1>2, <1>3

\* Level k, if it stands on a level that reads and writes as it should.
LEMMA LevelReads ==
  ASSUME NEW k \in 1..3, NEW x, Inv(k, x), NEW b \in Nat, NEW w, NEW f,
         Spills(k, x, b) => Writes(k + 1, x, Victim(k, x, b).block, Victim(k, x, b).data, w),
         Inv(k + 1, Spilled(k, x, b, w)) => Reads(k + 1, Spilled(k, x, b, w), b, f)
  PROVE  Reads(k, x, b, Resolve(k, x, b, f)) /\ Recent(k, b, Resolve(k, x, b, f))
<1> DEFINE e == Spilled(k, x, b, w)
<1>1. Below(k, x, b, e)
  BY SpillOK
<1> HIDE DEF e
<1>2. Inv(k + 1, e)
  BY Zenon, <1>1 DEF Below
<1>3. Reads(k + 1, e, b, f)
  BY Zenon, <1>2 DEF e
<1> QED BY <1>1, <1>3, ResolveOK

LEMMA Spilling ==
  ASSUME NEW k \in 1..3, NEW x, Inv(k, x), NEW b \in Nat, Spills(k, x, b)
  PROVE  Victim(k, x, b).block \in Nat /\ Victim(k, x, b).data \in Data /\ Inv(k + 1, x)
<1>1. Wf(x) /\ Inv(k + 1, x)
  BY Zenon, InvStep DEF Inv
<1>2. Victim(k, x, b) \in Line
  BY <1>1, VictimIs DEF Spills
<1> QED BY <1>1, <1>2, BlockIs, LineIsRecord

LEMMA L3Reads ==
  ASSUME NEW x, Inv(3, x), NEW b \in Nat
  PROVE  Reads(3, x, b, l3_read(x, b)) /\ Recent(3, b, l3_read(x, b))
<1> DEFINE w == ram_write(x, Victim(3, x, b).block, Victim(3, x, b).data)
           e == Spilled(3, x, b, w)
           f == ram_read(e, b)
<1>1. l3_read(x, b) = Resolve(3, x, b, f)
  BY DEF l3_read, resolve_line, Resolve, Evict, Spilled, Spills, Full, Victim
<1>2. 3 \in 1..3 /\ 3 + 1 = 4
  OBVIOUS
<1>3. Spills(3, x, b) => Writes(3 + 1, x, Victim(3, x, b).block, Victim(3, x, b).data, w)
  BY <1>2, Spilling, RamWrites
<1>4. Inv(3 + 1, e) => Reads(3 + 1, e, b, f)
  BY <1>2, RamReads
<1> HIDE DEF w, f
<1>5. Reads(3, x, b, Resolve(3, x, b, f)) /\ Recent(3, b, Resolve(3, x, b, f))
  BY <1>2, <1>3, <1>4, LevelReads
<1> QED BY Zenon, <1>1, <1>5

LEMMA L3Writes ==
  ASSUME NEW x, Inv(3, x), NEW b \in Nat, NEW d \in Cut
  PROVE  Writes(3, x, b, d, l3_write(x, b, d))
<1> DEFINE r == l3_read(x, b)
<1>1. Reads(3, x, b, r) /\ Recent(3, b, r)
  BY L3Reads
<1>2. l3_write(x, b, d) = WriteLine(3, b, d, r)
  BY DEF l3_write
<1>3. 3 \in 1..3
  OBVIOUS
<1> HIDE DEF r
<1>4. Writes(3, x, b, d, WriteLine(3, b, d, r))
  BY <1>1, <1>3, WriteOK
<1> QED BY Zenon, <1>2, <1>4

LEMMA L2Reads ==
  ASSUME NEW x, Inv(2, x), NEW b \in Nat
  PROVE  Reads(2, x, b, l2_read(x, b)) /\ Recent(2, b, l2_read(x, b))
<1> DEFINE w == l3_write(x, Victim(2, x, b).block, Victim(2, x, b).data)
           e == Spilled(2, x, b, w)
           f == l3_read(e, b)
<1>1. l2_read(x, b) = Resolve(2, x, b, f)
  BY DEF l2_read, resolve_line, Resolve, Evict, Spilled, Spills, Full, Victim
<1>2. 2 \in 1..3 /\ 2 + 1 = 3
  OBVIOUS
<1>3. Spills(2, x, b) => Writes(2 + 1, x, Victim(2, x, b).block, Victim(2, x, b).data, w)
  <2>1. \A d \in Data : d \in Cut
    BY Zenon, MergeIs
  <2> QED BY <1>2, <2>1, Spilling, L3Writes
<1>4. Inv(2 + 1, e) => Reads(2 + 1, e, b, f)
  BY <1>2, L3Reads
<1> HIDE DEF w, f
<1>5. Reads(2, x, b, Resolve(2, x, b, f)) /\ Recent(2, b, Resolve(2, x, b, f))
  BY <1>2, <1>3, <1>4, LevelReads
<1> QED BY Zenon, <1>1, <1>5

LEMMA L2Writes ==
  ASSUME NEW x, Inv(2, x), NEW b \in Nat, NEW d \in Cut
  PROVE  Writes(2, x, b, d, l2_write(x, b, d))
<1> DEFINE r == l2_read(x, b)
<1>1. Reads(2, x, b, r) /\ Recent(2, b, r)
  BY L2Reads
<1>2. l2_write(x, b, d) = WriteLine(2, b, d, r)
  BY DEF l2_write
<1>3. 2 \in 1..3
  OBVIOUS
<1> HIDE DEF r
<1>4. Writes(2, x, b, d, WriteLine(2, b, d, r))
  BY <1>1, <1>3, WriteOK
<1> QED BY Zenon, <1>2, <1>4

\* What a load finds and leaves in the caches.
LEMMA L1Reads ==
  ASSUME NEW x, Inv(1, x), NEW b \in Nat
  PROVE  Reads(1, x, b, l1_read(x, b)) /\ Recent(1, b, l1_read(x, b))
<1> DEFINE w == l2_write(x, Victim(1, x, b).block, Victim(1, x, b).data)
           e == Spilled(1, x, b, w)
           f == l2_read(e, b)
<1>1. l1_read(x, b) = Resolve(1, x, b, f)
  BY DEF l1_read, resolve_line, Resolve, Evict, Spilled, Spills, Full, Victim
<1>2. 1 \in 1..3 /\ 1 + 1 = 2
  OBVIOUS
<1>3. Spills(1, x, b) => Writes(1 + 1, x, Victim(1, x, b).block, Victim(1, x, b).data, w)
  <2>1. \A d \in Data : d \in Cut
    BY Zenon, MergeIs
  <2> QED BY <1>2, <2>1, Spilling, L2Writes
<1>4. Inv(1 + 1, e) => Reads(1 + 1, e, b, f)
  BY <1>2, L2Reads
<1> HIDE DEF w, f
<1>5. Reads(1, x, b, Resolve(1, x, b, f)) /\ Recent(1, b, Resolve(1, x, b, f))
  BY <1>2, <1>3, <1>4, LevelReads
<1> QED BY Zenon, <1>1, <1>5

\* What a store to a block changes.
LEMMA L1Writes ==
  ASSUME NEW x, Inv(1, x), NEW b \in Nat, NEW d \in Cut
  PROVE  Writes(1, x, b, d, l1_write(x, b, d))
<1> DEFINE r == l1_read(x, b)
<1>1. Reads(1, x, b, r) /\ Recent(1, b, r)
  BY L1Reads
<1>2. l1_write(x, b, d) = WriteLine(1, b, d, r)
  BY DEF l1_write
<1>3. 1 \in 1..3
  OBVIOUS
<1> HIDE DEF r
<1>4. Writes(1, x, b, d, WriteLine(1, b, d, r))
  BY <1>1, <1>3, WriteOK
<1> QED BY Zenon, <1>2, <1>4

-----------------------------------------------------------------------------
(* Arithmetic.                                                              *)

\* What the proofs use of \div and %.
LEMMA DivMod ==
  ASSUME NEW a \in Nat, NEW d \in Nat \ {0}
  PROVE  /\ a \div d \in Nat /\ a % d \in 0..d - 1
         /\ a = d * (a \div d) + (a % d)
OBVIOUS

LEMMA DivUnique ==
  ASSUME NEW d \in Nat \ {0}, NEW q \in Nat, NEW q2 \in Nat, NEW r \in 0..d - 1, NEW r2 \in 0..d - 1,
         d * q + r = d * q2 + r2
  PROVE  q = q2 /\ r = r2
<1>1. CASE q < q2
  <2>1. PICK k \in Nat : q2 = q + 1 + k
    <3>1. q2 - q - 1 \in Nat /\ q2 = q + 1 + (q2 - q - 1)
      BY <1>1
    <3> QED BY <3>1
  <2>2. d * q2 = d * q + d + d * k
    BY <2>1
  <2>3. d * k \in Nat
    OBVIOUS
  <2> QED BY <2>2, <2>3
<1>2. CASE q2 < q
  <2>1. PICK k \in Nat : q = q2 + 1 + k
    <3>1. q - q2 - 1 \in Nat /\ q = q2 + 1 + (q - q2 - 1)
      BY <1>2
    <3> QED BY <3>1
  <2>2. d * q = d * q2 + d + d * k
    BY <2>1
  <2>3. d * k \in Nat
    OBVIOUS
  <2> QED BY <2>2, <2>3
<1>3. CASE q = q2
  BY <1>3
<1> QED BY <1>1, <1>2, <1>3

LEMMA DivIs ==
  ASSUME NEW v \in Nat, NEW d \in Nat \ {0}, NEW q \in Nat, NEW r \in 0..d - 1, v = d * q + r
  PROVE  v \div d = q /\ v % d = r
<1>1. v = d * (v \div d) + (v % d) /\ v \div d \in Nat /\ v % d \in 0..d - 1
  BY DivMod
<1>2. d * q + r = d * (v \div d) + (v % d)
  BY <1>1
<1> DEFINE q2 == v \div d
           r2 == v % d
<1> HIDE DEF q2, r2
<1>3. q = q2 /\ r = r2
  BY <1>1, <1>2, DivUnique DEF q2, r2
<1> QED BY Zenon, <1>3 DEF q2, r2

-----------------------------------------------------------------------------
(* flush_and_invalidate.                                                    *)

\* A set of numbers that is not empty has a least element.
LEMMA Least ==
  ASSUME NEW S \in SUBSET Nat, S # {}
  PROVE  \E n \in S : \A k \in S : ~(k < n)
<1>1. PICK n \in S : \A k \in S : ~(<<k, n>> \in OpToRel(<, Nat))
  BY Zenon, WFMin, NatLessThanWellFounded
<1>2. \A k \in S : k < n => <<k, n>> \in OpToRel(<, Nat)
  BY DEF OpToRel
<1> QED BY Zenon, <1>1, <1>2

\* The ways of a level are numbered from 1, set by set.
Ways(k) == Sets[k] * Assoc[k]
SetNo(k, x, n) == x.l[k][(n - 1) \div Assoc[k]]
WayNo(k, n) == ((n - 1) % Assoc[k]) + 1
WayLine(k, x, n) == SetNo(k, x, n)[WayNo(k, n)]
NeedFlush(k, x, n) == WayNo(k, n) \in DOMAIN SetNo(k, x, n) /\ SetNo(k, x, n)[WayNo(k, n)].dirty

\* The write that level k makes to the next one.
WriteBelow(k, y, b, d) ==
  IF k = 1 THEN l2_write(y, b, d) ELSE IF k = 2 THEN l3_write(y, b, d) ELSE ram_write(y, b, d)

FlushWay(k, x, n, y) ==
  IF NeedFlush(k, x, n) THEN WriteBelow(k, y, WayLine(k, x, n).block, WayLine(k, x, n).data).m ELSE y

FlushedBy(k, x, f, n) == f = [j \in 0..n |-> IF j = 0 THEN x ELSE FlushWay(k, x, j, f[j - 1])]

LEMMA FlushedExists ==
  ASSUME NEW k, NEW x
  PROVE  \A n \in Nat : \E f : FlushedBy(k, x, f, n)
<1> DEFINE S == {n \in Nat : ~ \E f : FlushedBy(k, x, f, n)}
<1> SUFFICES ASSUME S # {} PROVE FALSE
  OBVIOUS
<1>1. PICK n \in S : \A j \in S : ~(j < n)
  <2>1. S \in SUBSET Nat
    OBVIOUS
  <2> HIDE DEF S
  <2> QED BY <2>1, Least
<1>2. n \in Nat /\ ~ \E f : FlushedBy(k, x, f, n)
  OBVIOUS
<1>3. CASE n = 0
  <2> DEFINE f == [j \in 0..0 |-> x]
  <2>1. \A j \in 0..0 : j = 0
    OBVIOUS
  <2>2. f = [j \in 0..0 |-> IF j = 0 THEN x ELSE FlushWay(k, x, j, f[j - 1])]
    BY <2>1
  <2> HIDE DEF f
  <2> QED BY <1>2, <1>3, <2>2 DEF FlushedBy
<1>4. CASE n # 0
  <2>1. n - 1 \in Nat /\ n - 1 < n /\ n \in 0..n /\ n - 1 \in 0..(n - 1)
    BY <1>2, <1>4
  <2>2. PICK f : FlushedBy(k, x, f, n - 1)
    BY <1>1, <2>1
  <2>3. f = [j \in 0..(n - 1) |-> IF j = 0 THEN x ELSE FlushWay(k, x, j, f[j - 1])]
    BY <2>2 DEF FlushedBy
  <2>4. \A j \in 0..(n - 1) : f[j] = IF j = 0 THEN x ELSE FlushWay(k, x, j, f[j - 1])
    BY <2>3
  <2> DEFINE v == FlushWay(k, x, n, f[n - 1])
             g == [j \in 0..n |-> IF j = n THEN v ELSE f[j]]
  <2> HIDE DEF v
  <2>5. \A j \in 0..n : g[j] = IF j = n THEN v ELSE f[j]
    OBVIOUS
  <2>6. \A j \in 0..n : g[j] = IF j = 0 THEN x ELSE FlushWay(k, x, j, g[j - 1])
    <3> SUFFICES ASSUME NEW j \in 0..n PROVE g[j] = IF j = 0 THEN x ELSE FlushWay(k, x, j, g[j - 1])
      OBVIOUS
    <3> HIDE DEF g
    <3>1. CASE j = n
      <4>1. n - 1 \in 0..n /\ n - 1 # n
        BY <2>1
      <4>2. g[n - 1] = f[n - 1]
        BY Zenon, <2>5, <4>1
      <4> QED BY Zenon, <1>4, <2>5, <3>1, <4>2 DEF v
    <3>2. CASE j # n /\ j # 0
      <4>1. j \in 0..(n - 1) /\ j - 1 \in 0..n /\ j - 1 # n
        BY <1>2, <3>2
      <4>2. g[j] = f[j] /\ g[j - 1] = f[j - 1]
        BY Zenon, <2>5, <3>2, <4>1
      <4> QED BY Zenon, <2>4, <3>2, <4>1, <4>2
    <3>3. CASE j # n /\ j = 0
      <4>1. j \in 0..(n - 1)
        BY <1>2, <3>3
      <4> QED BY Zenon, <2>4, <2>5, <3>3, <4>1
    <3> QED BY <3>1, <3>2, <3>3
  <2>7. g = [j \in 0..n |-> IF j = 0 THEN x ELSE FlushWay(k, x, j, g[j - 1])]
    <3> DEFINE h == [j \in 0..n |-> IF j = 0 THEN x ELSE FlushWay(k, x, j, g[j - 1])]
    <3>1. g = [j \in 0..n |-> g[j]]
      OBVIOUS
    <3> HIDE DEF g
    <3>2. [j \in 0..n |-> g[j]] = h
      BY Zenon, <2>6
    <3> QED BY Zenon, <3>1, <3>2
  <2> HIDE DEF g
  <2> QED BY Zenon, <1>2, <2>7 DEF FlushedBy
<1> QED BY <1>3, <1>4

\* Every line has a way.
LEMMA WayOf ==
  ASSUME NEW k \in 1..3, NEW x, Wf(x), NEW line \in Line, Has(k, x, line)
  PROVE  \E n \in 1..Ways(k) : WayNo(k, n) \in DOMAIN SetNo(k, x, n) /\ WayLine(k, x, n) = line
<1> DEFINE A == Assoc[k]
           S == Sets[k]
           i == address_fields(k, line.block)
           s == x.l[k][i]
<1>1. A \in Nat \ {0} /\ S \in Nat \ {0}
  BY Constants
<1>2. i \in Index(k)
  BY IndexIs, BlockIs
<1>3. i \in 0..(S - 1) /\ i \in Nat
  BY <1>1, <1>2 DEF Index
<1>4. SetOK(k, i, s)
  BY Zenon, <1>2 DEF Wf
<1>5. s \in Seq(Line) /\ Len(s) <= A /\ Len(s) \in Nat /\ DOMAIN s = 1..Len(s)
  BY <1>4 DEF SetOK
<1>6. PICK j \in 1..Len(s) : s[j] = line
  BY Zenon DEF Has, InSet, SetOf
<1> HIDE DEF A, S, i, s
<1>7. j - 1 \in 0..A - 1 /\ j \in Nat
  BY <1>1, <1>5
<1> DEFINE v == A * i + (j - 1)
           n == v + 1
<1>8. v \in Nat
  BY <1>1, <1>3, <1>7
<1>9. v \div A = i /\ v % A = j - 1
  BY <1>1, <1>3, <1>7, <1>8, DivIs
<1>10. n \in 1..S * A
  <2>1. PICK q \in Nat : S = i + 1 + q
    <3>1. S - i - 1 \in Nat /\ S = i + 1 + (S - i - 1)
      BY <1>1, <1>3
    <3> QED BY <3>1
  <2>2. S * A = A * i + A + A * q
    BY <1>1, <1>3, <2>1
  <2>3. A * q \in Nat /\ A * i \in Nat
    BY <1>1, <1>3
  <2> DEFINE Aq == A * q
             Ai == A * i
  <2> HIDE DEF Aq, Ai
  <2>4. S * A = Ai + A + Aq /\ Aq \in Nat /\ Ai \in Nat /\ n = Ai + (j - 1) + 1
    BY <2>2, <2>3 DEF Aq, Ai
  <2> HIDE DEF n
  <2> QED BY <1>1, <1>7, <2>4
<1>11. n - 1 = v /\ (j - 1) + 1 = j
  BY <1>7, <1>8
<1> HIDE DEF v, n
<1>12. SetNo(k, x, n) = s /\ WayNo(k, n) = j
  BY Zenon, <1>9, <1>11 DEF SetNo, WayNo, A, s
<1>13. WayNo(k, n) \in DOMAIN SetNo(k, x, n) /\ WayLine(k, x, n) = line
  BY Zenon, <1>5, <1>6, <1>12 DEF WayLine
<1> QED BY Zenon, <1>10, <1>13 DEF Ways, S, A

\* And every way a line.
LEMMA WayIs ==
  ASSUME NEW k \in 1..3, NEW x, Wf(x), NEW n \in 1..Ways(k), WayNo(k, n) \in DOMAIN SetNo(k, x, n)
  PROVE  WayLine(k, x, n) \in Line /\ Has(k, x, WayLine(k, x, n))
<1> DEFINE A == Assoc[k]
           S == Sets[k]
           v == n - 1
           i == v \div A
           s == SetNo(k, x, n)
           line == WayLine(k, x, n)
<1>1. A \in Nat \ {0} /\ S \in Nat \ {0}
  BY Constants
<1>2. v \in Nat /\ v < S * A
  <2>1. S * A \in Nat
    BY <1>1
  <2>2. n \in 1..S * A
    BY Zenon DEF Ways
  <2> DEFINE N == S * A
  <2> HIDE DEF N
  <2>3. n \in 1..N /\ N \in Nat
    BY <2>1, <2>2 DEF N
  <2> HIDE DEF S, A
  <2>4. v \in Nat /\ v < N
    BY <2>3
  <2> QED BY Zenon, <2>4 DEF N, S, A
<1> HIDE DEF A, S, v
<1>3. i \in Nat /\ v % A \in 0..A - 1 /\ v = A * i + (v % A)
  BY <1>1, <1>2, DivMod
<1>4. i < S
  <2> SUFFICES ASSUME ~(i < S) PROVE FALSE
    OBVIOUS
  <2> DEFINE r == v % A
  <2> HIDE DEF i, r
  <2>1. i \in Nat /\ r \in 0..A - 1 /\ v = A * i + r
    BY <1>3 DEF i, r
  <2>2. PICK q \in Nat : i = S + q
    <3>1. i - S \in Nat /\ i = S + (i - S)
      BY <1>1, <2>1
    <3> QED BY <3>1
  <2>3. A * i = S * A + A * q
    BY <1>1, <2>1, <2>2
  <2>4. A * q \in Nat /\ S * A \in Nat /\ r \in Nat
    BY <1>1, <2>1, <2>2
  <2> QED BY <1>2, <2>1, <2>3, <2>4
<1>5. i \in Index(k)
  BY <1>1, <1>3, <1>4 DEF Index, S
<1>6. s = x.l[k][i] /\ line = s[WayNo(k, n)]
  BY Zenon DEF SetNo, WayLine, A, v
<1> HIDE DEF i
<1>7. SetOK(k, i, s)
  BY Zenon, <1>5, <1>6 DEF Wf
<1>8. s \in Seq(Line) /\ DOMAIN s = 1..Len(s)
  BY <1>7 DEF SetOK
<1>9. InSet(s, line)
  BY Zenon, <1>6, <1>8 DEF InSet
<1>10. line \in Line /\ address_fields(k, line.block) = i
  BY <1>7, <1>9, SetLine
<1>11. Has(k, x, line)
  BY Zenon, <1>6, <1>9, <1>10 DEF Has, SetOf
<1> QED BY Zenon, <1>10, <1>11 DEF line

LEMMA BelowWrites ==
  ASSUME NEW k \in 1..3, NEW y, Inv(k + 1, y), NEW b \in Nat, NEW d \in Data
  PROVE  Writes(k + 1, y, b, d, WriteBelow(k, y, b, d))
<1>0. d \in Cut
  BY Zenon, MergeIs
<1>1. CASE k = 1
  <2>1. k + 1 = 2 /\ WriteBelow(k, y, b, d) = l2_write(y, b, d)
    BY <1>1 DEF WriteBelow
  <2> QED BY <1>0, <2>1, L2Writes
<1>2. CASE k = 2
  <2>1. k + 1 = 3 /\ WriteBelow(k, y, b, d) = l3_write(y, b, d)
    BY <1>2 DEF WriteBelow
  <2> QED BY <1>0, <2>1, L3Writes
<1>3. CASE k = 3
  <2>1. k + 1 = 4 /\ WriteBelow(k, y, b, d) = ram_write(y, b, d)
    BY <1>3 DEF WriteBelow
  <2> QED BY <2>1, RamWrites
<1> QED BY <1>1, <1>2, <1>3

\* After the first n ways the dirty lines among them can be seen one level below.
FlushedTo(k, x, n, y) ==
  /\ Inv(k + 1, y) /\ Same(k + 1, x, y)
  /\ \A j \in 1..n : NeedFlush(k, x, j) => See(k + 1, y, WayLine(k, x, j).block) = WayLine(k, x, j).data
  /\ \A c \in RamBlocks : (\A j \in 1..n : NeedFlush(k, x, j) => WayLine(k, x, j).block # c) =>
                            See(k + 1, y, c) = See(k + 1, x, c)

LEMMA FlushStep ==
  ASSUME NEW k \in 1..3, NEW x, Inv(k, x), NEW n \in 1..Ways(k), NEW y, FlushedTo(k, x, n - 1, y)
  PROVE  FlushedTo(k, x, n, FlushWay(k, x, n, y))
<1> DEFINE line == WayLine(k, x, n)
<1>0. n \in Nat /\ \A j : j \in 1..n <=> j = n \/ j \in 1..(n - 1)
  <2>1. Ways(k) \in Nat
    BY Constants DEF Ways
  <2> QED BY <2>1
<1>1. Wf(x)
  BY Zenon DEF Inv
<1>2. /\ Inv(k + 1, y) /\ Same(k + 1, x, y)
      /\ \A j \in 1..(n - 1) : NeedFlush(k, x, j) => See(k + 1, y, WayLine(k, x, j).block) = WayLine(k, x, j).data
      /\ \A c \in RamBlocks : (\A j \in 1..(n - 1) : NeedFlush(k, x, j) => WayLine(k, x, j).block # c) =>
                                See(k + 1, y, c) = See(k + 1, x, c)
  BY Zenon DEF FlushedTo
<1>3. CASE ~NeedFlush(k, x, n)
  <2>1. FlushWay(k, x, n, y) = y
    BY Zenon, <1>3 DEF FlushWay
  <2>2. FlushedTo(k, x, n, y)
    BY Zenon, <1>0, <1>2, <1>3 DEF FlushedTo
  <2> QED BY Zenon, <2>1, <2>2
<1>4. CASE NeedFlush(k, x, n)
  <2> DEFINE w == WriteBelow(k, y, line.block, line.data)
  <2>1. FlushWay(k, x, n, y) = w.m
    BY Zenon, <1>4 DEF FlushWay
  <2>2. line \in Line /\ Has(k, x, line)
    BY <1>1, <1>4, WayIs DEF NeedFlush
  <2>3. line.block \in Nat /\ line.block \in RamBlocks /\ line.data \in Data
    BY <2>2, BlockIs, LineIsRecord
  <2> HIDE DEF line
  <2>4. Writes(k + 1, y, line.block, line.data, w)
    BY <1>2, <2>3, BelowWrites
  <2> HIDE DEF w
  <2>5. /\ Inv(k + 1, w.m) /\ Same(k + 1, y, w.m)
        /\ \A c \in RamBlocks : c # line.block => See(k + 1, w.m, c) = See(k + 1, y, c)
        /\ w.ok <=> line.block \in RamBlocks
        /\ w.ok => See(k + 1, w.m, line.block) = Merge(line.data, See(k + 1, y, line.block))
    BY Zenon, <2>4 DEF Writes
  <2>6. Merge(line.data, See(k + 1, y, line.block)) = line.data
    BY <2>3, MergeIs
  <2>7. See(k + 1, w.m, line.block) = line.data
    BY Zenon, <2>3, <2>5, <2>6
  <2>8. Same(k + 1, x, w.m)
    BY Zenon, <1>2, <2>5 DEF Same
  <2>9. ASSUME NEW j \in 1..n, NeedFlush(k, x, j)
        PROVE  See(k + 1, w.m, WayLine(k, x, j).block) = WayLine(k, x, j).data
    <3>1. CASE j = n
      BY Zenon, <2>7, <3>1 DEF line
    <3>2. CASE j # n
      <4> DEFINE e == WayLine(k, x, j)
      <4>1. j \in 1..(n - 1) /\ j \in 1..Ways(k)
        <5>1. Ways(k) \in Nat
          BY Constants DEF Ways
        <5> QED BY <1>0, <3>2, <5>1
      <4>2. e \in Line /\ Has(k, x, e)
        BY <1>1, <2>9, <4>1, WayIs DEF NeedFlush
      <4>3. See(k + 1, y, e.block) = e.data
        BY Zenon, <1>2, <2>9, <4>1
      <4>4. e.block \in RamBlocks
        BY <4>2, BlockIs
      <4> HIDE DEF e
      <4>5. CASE e.block = line.block
        <5>1. e = line
          BY <1>1, <2>2, <4>2, <4>5, HasOne
        <5>2. See(k + 1, w.m, e.block) = e.data
          BY Zenon, <2>7, <5>1
        <5> QED BY Zenon, <5>2 DEF e
      <4>6. CASE e.block # line.block
        <5>1. See(k + 1, w.m, e.block) = e.data
          BY Zenon, <2>5, <4>3, <4>4, <4>6
        <5> QED BY Zenon, <5>1 DEF e
      <4> QED BY <4>5, <4>6
    <3> QED BY <3>1, <3>2
  <2>10. ASSUME NEW c \in RamBlocks, \A j \in 1..n : NeedFlush(k, x, j) => WayLine(k, x, j).block # c
         PROVE  See(k + 1, w.m, c) = See(k + 1, x, c)
    <3>1. c # line.block
      BY Zenon, <1>0, <1>4, <2>10 DEF line
    <3>2. \A j \in 1..(n - 1) : NeedFlush(k, x, j) => WayLine(k, x, j).block # c
      BY Zenon, <1>0, <2>10
    <3> QED BY Zenon, <1>2, <2>5, <3>1, <3>2
  <2>11. FlushedTo(k, x, n, w.m)
    BY Zenon, <2>5, <2>8, <2>9, <2>10 DEF FlushedTo
  <2> QED BY Zenon, <2>1, <2>11
<1> QED BY <1>3, <1>4

LEMMA FlushAll ==
  ASSUME NEW k \in 1..3, NEW x, Inv(k, x), NEW f, FlushedBy(k, x, f, Ways(k))
  PROVE  FlushedTo(k, x, Ways(k), f[Ways(k)])
<1> DEFINE N == Ways(k)
           S == {n \in 0..N : ~FlushedTo(k, x, n, f[n])}
<1>1. N \in Nat
  BY Constants DEF Ways
<1>2. \A j \in 0..N : f[j] = IF j = 0 THEN x ELSE FlushWay(k, x, j, f[j - 1])
  <2> HIDE DEF N
  <2>1. f = [j \in 0..N |-> IF j = 0 THEN x ELSE FlushWay(k, x, j, f[j - 1])]
    BY Zenon DEF FlushedBy, N
  <2> QED BY <2>1
<1> HIDE DEF N
<1>3. FlushedTo(k, x, 0, f[0])
  <2>1. f[0] = x
    BY <1>1, <1>2
  <2>2. Inv(k + 1, x)
    BY Zenon, InvStep
  <2>3. \A j \in 1..0 : FALSE
    OBVIOUS
  <2>4. FlushedTo(k, x, 0, x)
    BY Zenon, <2>2, <2>3 DEF FlushedTo, Same
  <2> QED BY Zenon, <2>1, <2>4
<1>4. S = {}
  <2> SUFFICES ASSUME S # {} PROVE FALSE
    OBVIOUS
  <2>1. PICK n \in S : \A j \in S : ~(j < n)
    <3>1. S \in SUBSET Nat
      BY <1>1
    <3> HIDE DEF S
    <3> QED BY <3>1, Least
  <2>2. n \in 0..N /\ ~FlushedTo(k, x, n, f[n]) /\ n # 0
    BY Zenon, <1>3, <2>1
  <2>3. n \in 1..N /\ n - 1 \in 0..N /\ n - 1 < n
    BY <1>1, <2>2
  <2>4. FlushedTo(k, x, n - 1, f[n - 1])
    BY Zenon, <2>1, <2>3
  <2>5. f[n] = FlushWay(k, x, n, f[n - 1])
    BY Zenon, <1>2, <2>2
  <2>6. FlushedTo(k, x, n, FlushWay(k, x, n, f[n - 1]))
    BY <2>3, <2>4, FlushStep DEF N
  <2> QED BY Zenon, <2>2, <2>5, <2>6
<1>5. N \in 0..N
  BY <1>1
<1> QED BY Zenon, <1>4, <1>5 DEF N

\* Level k without lines.
Emptied(k, x) == [x EXCEPT !.l[k] = [i \in DOMAIN @ |-> <<>>]]

LEMMA EmptiedIs ==
  ASSUME NEW x, Wf(x), NEW k \in 1..3
  PROVE  /\ Wf(Emptied(k, x)) /\ Emptied(k, x).ram = x.ram
         /\ \A j \in 1..3 : j # k => Emptied(k, x).l[j] = x.l[j]
         /\ \A line \in Line : ~Has(k, Emptied(k, x), line)
<1> DEFINE none == [i \in Index(k) |-> <<>>]
           g == [x.l EXCEPT ![k] = none]
           y == [x EXCEPT !.l = g]
<1>1. x \in MemType /\ x.l \in Levels /\ x.ram \in [RamBlocks -> Data]
  BY Zenon, MemIs DEF Wf
<1>2. x.l \in [1..3 -> AnyLevel] /\ \A j \in 1..3 : x.l[j] \in [Index(j) -> Seq(Line)]
  BY <1>1 DEF Levels
<1>3. none \in [Index(k) -> Seq(Line)] /\ \A i \in Index(k) : none[i] = <<>>
  OBVIOUS
<1>4. none \in AnyLevel
  BY Zenon, <1>3 DEF AnyLevel
<1>5. DOMAIN x.l[k] = Index(k)
  BY <1>2
<1>6. Emptied(k, x) = y
  <2>1. none = [i \in DOMAIN x.l[k] |-> <<>>]
    BY Zenon, <1>5
  <2> HIDE DEF none
  <2>2. Emptied(k, x) = [x EXCEPT !.l[k] = none]
    BY Zenon, <2>1 DEF Emptied
  <2> QED BY <1>1, <2>2 DEF MemType
<1> HIDE DEF none
<1>7. g \in [1..3 -> AnyLevel] /\ g[k] = none /\ \A j \in 1..3 : j # k => g[j] = x.l[j]
  BY <1>2, <1>4
<1> HIDE DEF g
<1>8. \A j \in 1..3 : g[j] \in [Index(j) -> Seq(Line)]
  BY <1>2, <1>3, <1>7
<1>9. g \in Levels
  BY Zenon, <1>7, <1>8 DEF Levels
<1>10. y \in MemType /\ y.l = g /\ y.ram = x.ram
  BY <1>1, <1>9 DEF MemType
<1> HIDE DEF y
<1>11. ASSUME NEW j \in 1..3, NEW i \in Index(j) PROVE SetOK(j, i, y.l[j][i])
  <2>1. CASE j = k
    <3>1. y.l[j][i] = <<>>
      BY Zenon, <1>3, <1>7, <1>10, <2>1
    <3>2. Assoc[j] \in Nat
      BY Constants
    <3>3. SetOK(j, i, <<>>)
      BY <3>2 DEF SetOK
    <3> QED BY Zenon, <3>1, <3>3
  <2>2. CASE j # k
    <3>1. y.l[j][i] = x.l[j][i]
      BY Zenon, <1>7, <1>10, <2>2
    <3> QED BY Zenon, <3>1 DEF Wf
  <2> QED BY <2>1, <2>2
<1>12. Wf(y)
  BY Zenon, <1>10, <1>11 DEF Wf
<1>13. ASSUME NEW line \in Line, Has(k, y, line) PROVE FALSE
  <2>1. address_fields(k, line.block) \in Index(k)
    BY BlockIs, IndexIs
  <2>2. SetOf(k, y, line.block) = <<>>
    BY Zenon, <1>3, <1>7, <1>10, <2>1 DEF SetOf
  <2>3. InSet(<<>>, line)
    BY Zenon, <1>13, <2>2 DEF Has
  <2> QED BY <2>3 DEF InSet
<1> QED BY Zenon, <1>6, <1>7, <1>10, <1>12, <1>13

\* A flush leaves what can be seen.
Flushes(k, x, z) ==
  /\ Inv(k, z) /\ Same(k, x, z) /\ \A c \in RamBlocks : See(k, z, c) = See(k, x, c)

LEMMA FlushOK ==
  ASSUME NEW k \in 1..3, NEW x, Inv(k, x), NEW y, FlushedTo(k, x, Ways(k), y)
  PROVE  Flushes(k, x, Emptied(k, y))
<1> DEFINE z == Emptied(k, y)
<1>1. Wf(x) /\ CleanAt(k, x)
  BY Zenon, InvStep DEF Inv
<1>2. /\ Inv(k + 1, y) /\ Same(k + 1, x, y)
      /\ \A j \in 1..Ways(k) : NeedFlush(k, x, j) => See(k + 1, y, WayLine(k, x, j).block) = WayLine(k, x, j).data
      /\ \A c \in RamBlocks : (\A j \in 1..Ways(k) : NeedFlush(k, x, j) => WayLine(k, x, j).block # c) =>
                                See(k + 1, y, c) = See(k + 1, x, c)
  BY Zenon DEF FlushedTo
<1>3. Wf(y)
  BY Zenon, <1>2 DEF Inv
<1>4. /\ Wf(z) /\ z.ram = y.ram /\ \A j \in 1..3 : j # k => z.l[j] = y.l[j]
      /\ \A line \in Line : ~Has(k, z, line)
  BY Zenon, <1>3, EmptiedIs
<1> HIDE DEF z
<1>5. \A j \in 1..3, e \in Line : j # k => (Has(j, z, e) <=> Has(j, y, e))
  BY Zenon, <1>4, HasSame
<1>6. ASSUME NEW j \in 1..4, j > k, NEW c \in Nat PROVE See(j, z, c) = See(j, y, c)
  <2>1. \A h \in 1..3 : h >= j => h # k
    BY <1>6
  <2>2. \A h \in 1..3 : h >= j => \A e \in Line : Has(h, z, e) <=> Has(h, y, e)
    BY Zenon, <1>5, <2>1
  <2> QED BY <1>3, <1>4, <2>2, SeeSame
<1>7. k + 1 \in 1..4 /\ k + 1 > k
  OBVIOUS
<1>8. Inv(k + 1, z)
  <2> SUFFICES ASSUME NEW j \in (k + 1)..3 PROVE CleanAt(j, z)
    BY Zenon, <1>4 DEF Inv
  <2>1. j \in 1..3 /\ j # k /\ j + 1 \in 1..4 /\ j + 1 > k
    OBVIOUS
  <2>2. CleanAt(j, y)
    BY Zenon, <1>2 DEF Inv
  <2> SUFFICES ASSUME NEW e \in Line, Has(j, z, e), ~e.dirty PROVE e.data = See(j + 1, z, e.block)
    BY Zenon DEF CleanAt
  <2>3. e.data = See(j + 1, y, e.block)
    BY Zenon, <1>5, <2>1, <2>2 DEF CleanAt
  <2>4. See(j + 1, z, e.block) = See(j + 1, y, e.block)
    BY <1>6, <2>1, BlockIs
  <2> QED BY Zenon, <2>3, <2>4
<1>9. CleanAt(k, z)
  BY Zenon, <1>4 DEF CleanAt
<1>10. Inv(k, z)
  BY Zenon, <1>8, <1>9, InvStep
<1>11. Same(k, x, z)
  <2>1. \A j \in 1..3 : j < k => j # k /\ j < k + 1
    OBVIOUS
  <2> QED BY Zenon, <1>2, <1>4, <2>1 DEF Same
<1>12. ASSUME NEW c \in RamBlocks PROVE See(k, z, c) = See(k, x, c)
  <2>0. c \in Nat
    BY BlockIs
  <2>1. See(k, z, c) = See(k + 1, z, c)
    <3>1. Lacks(k, z, c)
      BY Zenon, <1>4 DEF Lacks
    <3> QED BY <1>4, <2>0, <3>1, LacksIs
  <2>2. See(k + 1, z, c) = See(k + 1, y, c)
    BY <1>6, <1>7, <2>0
  <2>3. CASE \E j \in 1..Ways(k) : NeedFlush(k, x, j) /\ WayLine(k, x, j).block = c
    <3>1. PICK j \in 1..Ways(k) : NeedFlush(k, x, j) /\ WayLine(k, x, j).block = c
      BY Zenon, <2>3
    <3> DEFINE e == WayLine(k, x, j)
    <3>2. e \in Line /\ Has(k, x, e)
      BY <1>1, <3>1, WayIs DEF NeedFlush
    <3>3. See(k + 1, y, e.block) = e.data
      BY Zenon, <1>2, <3>1
    <3>4. e.block = c
      BY Zenon, <3>1
    <3> HIDE DEF e
    <3>5. See(k, x, e.block) = e.data
      BY <1>1, <3>2, SeeLine
    <3> QED BY Zenon, <2>1, <2>2, <3>3, <3>4, <3>5
  <2>4. CASE ~ \E j \in 1..Ways(k) : NeedFlush(k, x, j) /\ WayLine(k, x, j).block = c
    <3>1. See(k + 1, y, c) = See(k + 1, x, c)
      BY Zenon, <1>2, <2>4
    <3>2. CASE Lacks(k, x, c)
      <4>1. See(k, x, c) = See(k + 1, x, c)
        BY <1>1, <2>0, <3>2, LacksIs
      <4> QED BY Zenon, <2>1, <2>2, <3>1, <4>1
    <3>3. CASE ~Lacks(k, x, c)
      <4>1. PICK e \in Line : Has(k, x, e) /\ e.block = c
        BY Zenon, <3>3 DEF Lacks
      <4>2. PICK j \in 1..Ways(k) : WayNo(k, j) \in DOMAIN SetNo(k, x, j) /\ WayLine(k, x, j) = e
        BY <1>1, <4>1, WayOf
      <4>3. ~e.dirty
        BY Zenon, <2>4, <4>1, <4>2 DEF NeedFlush, WayLine
      <4>4. e.data = See(k + 1, x, c)
        BY Zenon, <1>1, <4>1, <4>3 DEF CleanAt
      <4>5. See(k, x, e.block) = e.data
        BY <1>1, <4>1, SeeLine
      <4> QED BY Zenon, <2>1, <2>2, <3>1, <4>1, <4>4, <4>5
    <3> QED BY <3>2, <3>3
  <2> QED BY <2>3, <2>4
<1> QED BY Zenon, <1>10, <1>11, <1>12 DEF Flushes, z

LEMMA L1Flushes ==
  ASSUME NEW x, Inv(1, x)
  PROVE  Flushes(1, x, l1_flush(x))
<1> DEFINE line(n) == SetNo(1, x, n)[WayNo(1, n)]
           Eqn(f) == f = [n \in 0..Ways(1) |->
                            IF n = 0 THEN x
                            ELSE IF NeedFlush(1, x, n)
                                 THEN l2_write(f[n - 1], line(n).block, line(n).data).m
                                 ELSE f[n - 1]]
           w == CHOOSE f : Eqn(f)
<1>1. l1_flush(x) = Emptied(1, w[Ways(1)])
  BY Zenon DEF l1_flush, flush_and_invalidate, Emptied, Ways, NeedFlush, SetNo, WayNo
<1>2. \A f : Eqn(f) <=> FlushedBy(1, x, f, Ways(1))
  <2>1. 2 # 1 /\ 3 # 1 /\ 3 # 2
    OBVIOUS
  <2>2. \A y, b, d : WriteBelow(1, y, b, d) = l2_write(y, b, d)
    BY Zenon, <2>1 DEF WriteBelow
  <2> TAKE f
  <2> DEFINE A(n) == IF n = 0 THEN x
                     ELSE IF NeedFlush(1, x, n)
                          THEN l2_write(f[n - 1], line(n).block, line(n).data).m
                          ELSE f[n - 1]
             B(n) == IF n = 0 THEN x ELSE FlushWay(1, x, n, f[n - 1])
  <2>3. \A n : A(n) = B(n)
    BY Zenon, <2>2 DEF FlushWay, WayLine
  <2>4. FlushedBy(1, x, f, Ways(1)) <=> f = [n \in 0..Ways(1) |-> B(n)]
    BY Zenon DEF FlushedBy
  <2>5. Eqn(f) <=> f = [n \in 0..Ways(1) |-> A(n)]
    BY Zenon
  <2> HIDE DEF A, B, Eqn
  <2>6. [n \in 0..Ways(1) |-> A(n)] = [n \in 0..Ways(1) |-> B(n)]
    BY Zenon, <2>3
  <2> QED BY Zenon, <2>4, <2>5, <2>6
<1>3. \E f : FlushedBy(1, x, f, Ways(1))
  <2>1. Ways(1) \in Nat
    BY Constants DEF Ways
  <2> QED BY <2>1, FlushedExists
<1> HIDE DEF Eqn
<1>4. FlushedBy(1, x, w, Ways(1))
  BY Zenon, <1>2, <1>3
<1> HIDE DEF w
<1>5. 1 \in 1..3
  OBVIOUS
<1>6. FlushedTo(1, x, Ways(1), w[Ways(1)])
  BY <1>4, <1>5, FlushAll
<1>7. Flushes(1, x, Emptied(1, w[Ways(1)]))
  BY <1>5, <1>6, FlushOK
<1> QED BY Zenon, <1>1, <1>7

LEMMA L2Flushes ==
  ASSUME NEW x, Inv(2, x)
  PROVE  Flushes(2, x, l2_flush(x))
<1> DEFINE line(n) == SetNo(2, x, n)[WayNo(2, n)]
           Eqn(f) == f = [n \in 0..Ways(2) |->
                            IF n = 0 THEN x
                            ELSE IF NeedFlush(2, x, n)
                                 THEN l3_write(f[n - 1], line(n).block, line(n).data).m
                                 ELSE f[n - 1]]
           w == CHOOSE f : Eqn(f)
<1>1. l2_flush(x) = Emptied(2, w[Ways(2)])
  BY Zenon DEF l2_flush, flush_and_invalidate, Emptied, Ways, NeedFlush, SetNo, WayNo
<1>2. \A f : Eqn(f) <=> FlushedBy(2, x, f, Ways(2))
  <2>1. 2 # 1 /\ 3 # 1 /\ 3 # 2
    OBVIOUS
  <2>2. \A y, b, d : WriteBelow(2, y, b, d) = l3_write(y, b, d)
    BY Zenon, <2>1 DEF WriteBelow
  <2> TAKE f
  <2> DEFINE A(n) == IF n = 0 THEN x
                     ELSE IF NeedFlush(2, x, n)
                          THEN l3_write(f[n - 1], line(n).block, line(n).data).m
                          ELSE f[n - 1]
             B(n) == IF n = 0 THEN x ELSE FlushWay(2, x, n, f[n - 1])
  <2>3. \A n : A(n) = B(n)
    BY Zenon, <2>2 DEF FlushWay, WayLine
  <2>4. FlushedBy(2, x, f, Ways(2)) <=> f = [n \in 0..Ways(2) |-> B(n)]
    BY Zenon DEF FlushedBy
  <2>5. Eqn(f) <=> f = [n \in 0..Ways(2) |-> A(n)]
    BY Zenon
  <2> HIDE DEF A, B, Eqn
  <2>6. [n \in 0..Ways(2) |-> A(n)] = [n \in 0..Ways(2) |-> B(n)]
    BY Zenon, <2>3
  <2> QED BY Zenon, <2>4, <2>5, <2>6
<1>3. \E f : FlushedBy(2, x, f, Ways(2))
  <2>1. Ways(2) \in Nat
    BY Constants DEF Ways
  <2> QED BY <2>1, FlushedExists
<1> HIDE DEF Eqn
<1>4. FlushedBy(2, x, w, Ways(2))
  BY Zenon, <1>2, <1>3
<1> HIDE DEF w
<1>5. 2 \in 1..3
  OBVIOUS
<1>6. FlushedTo(2, x, Ways(2), w[Ways(2)])
  BY <1>4, <1>5, FlushAll
<1>7. Flushes(2, x, Emptied(2, w[Ways(2)]))
  BY <1>5, <1>6, FlushOK
<1> QED BY Zenon, <1>1, <1>7

LEMMA L3Flushes ==
  ASSUME NEW x, Inv(3, x)
  PROVE  Flushes(3, x, l3_flush(x))
<1> DEFINE line(n) == SetNo(3, x, n)[WayNo(3, n)]
           Eqn(f) == f = [n \in 0..Ways(3) |->
                            IF n = 0 THEN x
                            ELSE IF NeedFlush(3, x, n)
                                 THEN ram_write(f[n - 1], line(n).block, line(n).data).m
                                 ELSE f[n - 1]]
           w == CHOOSE f : Eqn(f)
<1>1. l3_flush(x) = Emptied(3, w[Ways(3)])
  BY Zenon DEF l3_flush, flush_and_invalidate, Emptied, Ways, NeedFlush, SetNo, WayNo
<1>2. \A f : Eqn(f) <=> FlushedBy(3, x, f, Ways(3))
  <2>1. 2 # 1 /\ 3 # 1 /\ 3 # 2
    OBVIOUS
  <2>2. \A y, b, d : WriteBelow(3, y, b, d) = ram_write(y, b, d)
    BY Zenon, <2>1 DEF WriteBelow
  <2> TAKE f
  <2> DEFINE A(n) == IF n = 0 THEN x
                     ELSE IF NeedFlush(3, x, n)
                          THEN ram_write(f[n - 1], line(n).block, line(n).data).m
                          ELSE f[n - 1]
             B(n) == IF n = 0 THEN x ELSE FlushWay(3, x, n, f[n - 1])
  <2>3. \A n : A(n) = B(n)
    BY Zenon, <2>2 DEF FlushWay, WayLine
  <2>4. FlushedBy(3, x, f, Ways(3)) <=> f = [n \in 0..Ways(3) |-> B(n)]
    BY Zenon DEF FlushedBy
  <2>5. Eqn(f) <=> f = [n \in 0..Ways(3) |-> A(n)]
    BY Zenon
  <2> HIDE DEF A, B, Eqn
  <2>6. [n \in 0..Ways(3) |-> A(n)] = [n \in 0..Ways(3) |-> B(n)]
    BY Zenon, <2>3
  <2> QED BY Zenon, <2>4, <2>5, <2>6
<1>3. \E f : FlushedBy(3, x, f, Ways(3))
  <2>1. Ways(3) \in Nat
    BY Constants DEF Ways
  <2> QED BY <2>1, FlushedExists
<1> HIDE DEF Eqn
<1>4. FlushedBy(3, x, w, Ways(3))
  BY Zenon, <1>2, <1>3
<1> HIDE DEF w
<1>5. 3 \in 1..3
  OBVIOUS
<1>6. FlushedTo(3, x, Ways(3), w[Ways(3)])
  BY <1>4, <1>5, FlushAll
<1>7. Flushes(3, x, Emptied(3, w[Ways(3)]))
  BY <1>5, <1>6, FlushOK
<1> QED BY Zenon, <1>1, <1>7

\* What is done to a level below leaves what can be seen from level 1 on.
LEMMA SeeAbove ==
  ASSUME NEW x, Inv(1, x), NEW k \in 1..3, NEW z, Inv(k, z), Same(k, x, z),
         \A c \in RamBlocks : See(k, z, c) = See(k, x, c)
  PROVE  Inv(1, z) /\ \A c \in RamBlocks : See(1, z, c) = See(1, x, c)
<1>1. Wf(x) /\ Wf(z)
  BY Zenon DEF Inv
<1>2. ASSUME NEW j \in 1..3, j < k, Inv(j, x), Inv(j + 1, z), \A c \in RamBlocks : See(j + 1, z, c) = See(j + 1, x, c)
      PROVE  Inv(j, z) /\ \A c \in RamBlocks : See(j, z, c) = See(j, x, c)
  <2>1. \A e \in Line : Has(j, z, e) <=> Has(j, x, e)
    <3>1. z.l[j] = x.l[j]
      BY Zenon, <1>2 DEF Same
    <3> QED BY <3>1, HasSame
  <2>2. CleanAt(j, x)
    BY Zenon, <1>2, InvStep
  <2>3. CleanAt(j, z)
    <3> SUFFICES ASSUME NEW e \in Line, Has(j, z, e), ~e.dirty PROVE e.data = See(j + 1, z, e.block)
      BY Zenon DEF CleanAt
    <3>1. e.data = See(j + 1, x, e.block)
      BY Zenon, <2>1, <2>2 DEF CleanAt
    <3> QED BY Zenon, <1>2, <3>1, BlockIs
  <2>4. ASSUME NEW c \in RamBlocks PROVE See(j, z, c) = See(j, x, c)
    <3>1. c \in Nat
      BY BlockIs
    <3>2. See(j + 1, z, c) = See(j + 1, x, c)
      BY Zenon, <1>2
    <3> QED BY <1>1, <2>1, <3>1, <3>2, SeeOne
  <2> QED BY Zenon, <1>2, <2>3, <2>4, InvStep
<1>3. Inv(2, x) /\ 1 \in 1..3 /\ 2 \in 1..3 /\ 1 + 1 = 2 /\ 2 + 1 = 3
  <2>1. 1 \in 1..3 /\ 2 \in 1..3 /\ 1 + 1 = 2 /\ 2 + 1 = 3
    OBVIOUS
  <2> QED BY <2>1, InvStep
<1>4. CASE k = 1
  BY <1>4
<1>5. CASE k = 2
  BY <1>2, <1>3, <1>5
<1>6. CASE k = 3
  <2>1. Inv(2, z) /\ \A c \in RamBlocks : See(2, z, c) = See(2, x, c)
    BY <1>2, <1>3, <1>6
  <2> QED BY <1>2, <1>3, <1>6, <2>1
<1> QED BY <1>4, <1>5, <1>6

\* cold_cache_reset changes nothing that can be seen.
LEMMA ColdOK ==
  ASSUME NEW x, Inv(1, x)
  PROVE  /\ Inv(1, l3_flush(l2_flush(l1_flush(x))))
         /\ \A c \in RamBlocks : See(1, l3_flush(l2_flush(l1_flush(x))), c) = See(1, x, c)
<1> DEFINE a == l1_flush(x)
           b == l2_flush(a)
           z == l3_flush(b)
<1>0. 1 \in 1..3 /\ 2 \in 1..3 /\ 3 \in 1..3 /\ 1 + 1 = 2 /\ 2 + 1 = 3
  OBVIOUS
<1>1. Inv(1, a) /\ \A c \in RamBlocks : See(1, a, c) = See(1, x, c)
  BY Zenon, L1Flushes DEF Flushes
<1> HIDE DEF a
<1>2. Inv(2, a)
  BY <1>0, <1>1, InvStep
<1>3. Flushes(2, a, b)
  BY <1>2, L2Flushes
<1> HIDE DEF b
<1>4. Inv(1, b) /\ \A c \in RamBlocks : See(1, b, c) = See(1, a, c)
  <2>1. Inv(2, b) /\ Same(2, a, b) /\ \A c \in RamBlocks : See(2, b, c) = See(2, a, c)
    BY Zenon, <1>3 DEF Flushes
  <2> QED BY <1>0, <1>1, <2>1, SeeAbove
<1>5. Inv(3, b)
  <2>1. Inv(2, b)
    BY Zenon, <1>3 DEF Flushes
  <2> QED BY <1>0, <2>1, InvStep
<1>6. Flushes(3, b, z)
  BY <1>5, L3Flushes
<1> HIDE DEF z
<1>7. Inv(1, z) /\ \A c \in RamBlocks : See(1, z, c) = See(1, b, c)
  <2>1. Inv(3, z) /\ Same(3, b, z) /\ \A c \in RamBlocks : See(3, z, c) = See(3, b, c)
    BY Zenon, <1>6 DEF Flushes
  <2> QED BY <1>0, <1>4, <2>1, SeeAbove
<1>8. \A c \in RamBlocks : See(1, z, c) = See(1, x, c)
  BY Zenon, <1>1, <1>4, <1>7
<1> QED BY Zenon, <1>7, <1>8 DEF z, b, a

-----------------------------------------------------------------------------
(* The bytes, as the debugger looks at them.                                *)

Nearest(S) == CHOOSE j \in S : \A i \in S : j <= i

LEMMA NearestIs ==
  ASSUME NEW S \in SUBSET (1..3), NEW n \in S, \A i \in S : n <= i
  PROVE  Nearest(S) = n
<1> DEFINE j == Nearest(S)
<1>1. j \in S /\ \A i \in S : j <= i
  BY Zenon DEF Nearest
<1> HIDE DEF j
<1>2. j \in 1..3 /\ n \in 1..3 /\ j <= n /\ n <= j
  BY <1>1
<1> QED BY <1>2 DEF j

LEMMA PeekIs ==
  ASSUME NEW x, NEW c, NEW k \in 1..4
  PROVE  peek_byte_raw(x, c, k) = See(k, x, BlockOf(c))[c % BlockSize]
<1> DEFINE b == BlockOf(c)
           o == c % BlockSize
           S == {j \in k..3 : Holds(j, x, b)}
<1>1. peek_byte_raw(x, c, k) = (IF S = {} THEN x.ram[b] ELSE LineOf(Nearest(S), x, b).data)[o]
  BY Zenon DEF peek_byte_raw, Nearest
<1> HIDE DEF b, o
<1>2. S \in SUBSET (1..3)
  OBVIOUS
<1>3. ASSUME NEW n \in 1..3, n \in S, \A i \in S : n <= i
      PROVE  peek_byte_raw(x, c, k) = LineOf(n, x, b).data[o]
  <2> HIDE DEF S
  <2>1. Nearest(S) = n
    BY <1>2, <1>3, NearestIs
  <2> QED BY Zenon, <1>1, <1>3, <2>1
<1>4. CASE k <= 1 /\ Holds(1, x, b)
  <2>1. 1 \in S /\ \A i \in S : 1 <= i
    BY <1>4
  <2>2. See(k, x, b) = LineOf(1, x, b).data
    BY <1>4 DEF See
  <2> QED BY <1>3, <2>1, <2>2 DEF b, o
<1>5. CASE ~(k <= 1 /\ Holds(1, x, b)) /\ k <= 2 /\ Holds(2, x, b)
  <2>1. 2 \in S /\ \A i \in S : 2 <= i
    BY <1>5
  <2>2. See(k, x, b) = LineOf(2, x, b).data
    BY <1>5 DEF See
  <2> QED BY <1>3, <2>1, <2>2 DEF b, o
<1>6. CASE ~(k <= 1 /\ Holds(1, x, b)) /\ ~(k <= 2 /\ Holds(2, x, b)) /\ k <= 3 /\ Holds(3, x, b)
  <2>1. 3 \in S /\ \A i \in S : 3 <= i
    BY <1>6
  <2>2. See(k, x, b) = LineOf(3, x, b).data
    BY <1>6 DEF See
  <2> QED BY <1>3, <2>1, <2>2 DEF b, o
<1>7. CASE ~(k <= 1 /\ Holds(1, x, b)) /\ ~(k <= 2 /\ Holds(2, x, b)) /\ ~(k <= 3 /\ Holds(3, x, b))
  <2>1. S = {}
    BY <1>7
  <2>2. See(k, x, b) = x.ram[b]
    BY <1>7 DEF See
  <2> HIDE DEF S
  <2> QED BY Zenon, <1>1, <2>1, <2>2 DEF b, o
<1> QED BY <1>4, <1>5, <1>6, <1>7

\* An address is its block and its offset.
LEMMA CellIs ==
  ASSUME NEW c \in Nat
  PROVE  /\ BlockOf(c) \in Nat /\ c % BlockSize \in Offsets /\ c = BlockSize * BlockOf(c) + (c % BlockSize)
         /\ c \in Cells <=> BlockOf(c) \in RamBlocks
<1> DEFINE B == BlockSize
           q == BlockOf(c)
           r == c % BlockSize
           N == Blocks
<1>1. B \in Nat \ {0} /\ N \in Nat \ {0}
  BY Constants
<1>2. q \in Nat /\ r \in 0..B - 1 /\ c = B * q + r
  <2>1. c \div B \in Nat /\ c % B \in 0..B - 1 /\ c = B * (c \div B) + (c % B)
    BY <1>1, DivMod
  <2> QED BY <2>1 DEF BlockOf
<1>3. c \in Cells <=> c < N * B
  BY <1>1 DEF Cells, Size
<1>4. q \in RamBlocks <=> q < N
  BY <1>1, <1>2 DEF RamBlocks
<1>5. r \in Offsets
  BY <1>2 DEF Offsets
<1> HIDE DEF B, q, r, N
<1>6. ASSUME q < N PROVE c < N * B
  <2>1. PICK k \in Nat : N = q + 1 + k
    <3>1. N - q - 1 \in Nat /\ N = q + 1 + (N - q - 1)
      BY <1>1, <1>2, <1>6
    <3> QED BY <3>1
  <2>2. N * B = B * q + B + k * B
    BY <1>1, <1>2, <2>1
  <2>3. k * B \in Nat /\ B * q \in Nat
    BY <1>1, <1>2, <2>1
  <2> QED BY <1>1, <1>2, <2>2, <2>3
<1>7. ASSUME q >= N PROVE ~(c < N * B)
  <2>1. PICK k \in Nat : q = N + k
    <3>1. q - N \in Nat /\ q = N + (q - N)
      BY <1>1, <1>2, <1>7
    <3> QED BY <3>1
  <2>2. B * q = N * B + k * B
    BY <1>1, <1>2, <2>1
  <2>3. k * B \in Nat /\ N * B \in Nat
    BY <1>1, <1>2, <2>1
  <2> QED BY <1>1, <1>2, <2>2, <2>3
<1>8. c \in Cells <=> q \in RamBlocks
  BY <1>1, <1>2, <1>3, <1>4, <1>6, <1>7
<1> QED BY <1>2, <1>5, <1>8 DEF B, q, r

LEMMA CellOf ==
  ASSUME NEW b \in Nat, NEW o \in Offsets
  PROVE  /\ b * BlockSize + o \in Nat
         /\ BlockOf(b * BlockSize + o) = b /\ (b * BlockSize + o) % BlockSize = o
<1> DEFINE v == b * BlockSize + o
<1>1. BlockSize \in Nat \ {0} /\ o \in 0..BlockSize - 1
  BY Constants DEF Offsets
<1>2. v \in Nat /\ v = BlockSize * b + o
  BY <1>1
<1> HIDE DEF v
<1>3. v \div BlockSize = b /\ v % BlockSize = o
  BY <1>1, <1>2, DivIs
<1> QED BY <1>2, <1>3 DEF v, BlockOf

LEMMA ViewIs ==
  ASSUME NEW x
  PROVE  /\ View(x) = [c \in Cells |-> See(1, x, BlockOf(c))[c % BlockSize]]
         /\ \A c \in Cells : View(x)[c] = See(1, x, BlockOf(c))[c % BlockSize]
<1>1. \A c \in Cells : peek_byte_raw(x, c, 1) = See(1, x, BlockOf(c))[c % BlockSize]
  BY PeekIs
<1> QED BY Zenon, <1>1 DEF View

LEMMA CellsAre ==
  /\ \A c \in Cells : c \in Nat
  /\ \A c \in Cells : BlockOf(c) \in RamBlocks /\ c % BlockSize \in Offsets
<1>1. \A c \in Cells : c \in Nat
  BY Constants DEF Cells, Size
<1> QED BY Zenon, <1>1, CellIs

\* States in which the same can be seen look the same.
LEMMA ViewSame ==
  ASSUME NEW x, NEW y, \A c \in RamBlocks : See(1, y, c) = See(1, x, c)
  PROVE  View(y) = View(x)
<1>1. \A c \in Cells : See(1, y, BlockOf(c))[c % BlockSize] = See(1, x, BlockOf(c))[c % BlockSize]
  BY Zenon, CellsAre
<1> QED BY Zenon, <1>1, ViewIs

\* An image is what the debugger sees: leaving out a clean line loses nothing.
LEMMA ImageIs ==
  ASSUME NEW x, Inv(1, x), NEW c \in Cells
  PROVE  write_image_into(x, c) = See(1, x, BlockOf(c))[c % BlockSize]
<1> DEFINE b == BlockOf(c)
           o == c % BlockSize
           Dirty(k) == Holds(k, x, b) /\ LineOf(k, x, b).dirty
           S == {k \in 1..3 : Dirty(k)}
<1>1. write_image_into(x, c) = (IF S = {} THEN x.ram[b] ELSE LineOf(Nearest(S), x, b).data)[o]
  BY Zenon DEF write_image_into, Nearest
<1>2. b \in RamBlocks /\ b \in Nat /\ Wf(x)
  BY CellsAre, BlockIs DEF Inv
<1> HIDE DEF b, o
<1>3. ASSUME NEW k \in 1..3 PROVE See(k, x, b) = IF Dirty(k) THEN LineOf(k, x, b).data ELSE See(k + 1, x, b)
  <2>1. CASE ~Holds(k, x, b)
    BY Zenon, <2>1, SeeIs
  <2>2. CASE Holds(k, x, b)
    <3>1. LineOf(k, x, b) \in Line /\ LineOf(k, x, b).block = b /\ Has(k, x, LineOf(k, x, b))
      BY <1>2, <2>2, HoldsIs
    <3>2. CleanAt(k, x)
      BY Zenon DEF Inv
    <3>3. ~LineOf(k, x, b).dirty => LineOf(k, x, b).data = See(k + 1, x, b)
      BY Zenon, <3>1, <3>2 DEF CleanAt
    <3>4. See(k, x, b) = LineOf(k, x, b).data
      BY Zenon, <2>2, SeeIs
    <3> QED BY Zenon, <2>2, <3>3, <3>4
  <2> QED BY <2>1, <2>2
<1>4. S \in SUBSET (1..3)
  OBVIOUS
<1>5. /\ See(1, x, b) = IF Dirty(1) THEN LineOf(1, x, b).data ELSE See(2, x, b)
      /\ See(2, x, b) = IF Dirty(2) THEN LineOf(2, x, b).data ELSE See(3, x, b)
      /\ See(3, x, b) = IF Dirty(3) THEN LineOf(3, x, b).data ELSE x.ram[b]
  <2>1. 1 + 1 = 2 /\ 2 + 1 = 3 /\ 3 + 1 = 4 /\ 1 \in 1..3 /\ 2 \in 1..3 /\ 3 \in 1..3
    OBVIOUS
  <2>2. See(4, x, b) = x.ram[b]
    BY SeeIs
  <2> HIDE DEF Dirty
  <2> QED BY ONLY <1>3, <2>1, <2>2
<1> HIDE DEF Dirty
<1>6. ASSUME NEW n \in 1..3, n \in S, \A i \in S : n <= i
      PROVE  write_image_into(x, c) = LineOf(n, x, b).data[o]
  <2> HIDE DEF S
  <2>1. Nearest(S) = n
    BY <1>4, <1>6, NearestIs
  <2> QED BY Zenon, <1>1, <1>6, <2>1
<1>7. CASE Dirty(1)
  <2>1. 1 \in S /\ \A i \in S : 1 <= i
    BY <1>7
  <2> QED BY <1>5, <1>6, <1>7, <2>1 DEF b, o
<1>8. CASE ~Dirty(1) /\ Dirty(2)
  <2>1. 2 \in S /\ \A i \in S : 2 <= i
    BY <1>8
  <2> QED BY <1>5, <1>6, <1>8, <2>1 DEF b, o
<1>9. CASE ~Dirty(1) /\ ~Dirty(2) /\ Dirty(3)
  <2>1. 3 \in S /\ \A i \in S : 3 <= i
    BY <1>9
  <2> QED BY <1>5, <1>6, <1>9, <2>1 DEF b, o
<1>10. CASE ~Dirty(1) /\ ~Dirty(2) /\ ~Dirty(3)
  <2>1. S = {}
    BY <1>10
  <2> HIDE DEF S
  <2> QED BY Zenon, <1>1, <1>5, <1>10, <2>1 DEF b, o
<1> QED BY <1>7, <1>8, <1>9, <1>10

-----------------------------------------------------------------------------
(* An access touches one block, or two that follow each other.              *)

\* The last of n cells at a.
LastCell(a, n) == a + n - 1
InRam(a, n) == \A i \in a..LastCell(a, n) : i \in Cells

LEMMA BlockMono ==
  ASSUME NEW a \in Nat, NEW c \in Nat, a <= c
  PROVE  BlockOf(a) <= BlockOf(c)
<1> DEFINE B == BlockSize
           p == BlockOf(a)
           q == BlockOf(c)
           r == a % BlockSize
           t == c % BlockSize
<1>1. B \in Nat \ {0} /\ p \in Nat /\ q \in Nat /\ r \in 0..B - 1 /\ t \in 0..B - 1 /\ a = B * p + r /\ c = B * q + t
  BY Constants, CellIs DEF Offsets
<1> HIDE DEF B, p, q, r, t
<1>2. ASSUME q < p PROVE FALSE
  <2>1. PICK k \in Nat : p = q + 1 + k
    <3>1. p - q - 1 \in Nat /\ p = q + 1 + (p - q - 1)
      BY <1>1, <1>2
    <3> QED BY <3>1
  <2>2. B * p = B * q + B + B * k
    BY <1>1, <2>1
  <2>3. B * k \in Nat /\ B * q \in Nat
    BY <1>1, <2>1
  <2> QED BY <1>1, <2>2, <2>3
<1> QED BY <1>1, <1>2 DEF p, q

LEMMA Spans ==
  ASSUME NEW a \in Nat, NEW n \in 1..(BlockSize + 1)
  PROVE  /\ LastCell(a, n) \in Nat /\ BlockOf(a) \in Nat /\ BlockOf(LastCell(a, n)) \in Nat
         /\ \A c \in a..LastCell(a, n) : c \in Nat /\ (BlockOf(c) = BlockOf(a) \/ BlockOf(c) = BlockOf(LastCell(a, n)))
         /\ InRam(a, n) <=> BlockOf(LastCell(a, n)) \in RamBlocks
         /\ BlockOf(LastCell(a, n)) \in RamBlocks => BlockOf(a) \in RamBlocks
<1> DEFINE z == LastCell(a, n)
           p == BlockOf(a)
           q == BlockOf(z)
           e == a + BlockSize
<1>1. BlockSize \in Nat \ {0} /\ Blocks \in Nat \ {0}
  BY Constants
<1>2. z \in Nat /\ a <= z /\ z <= e /\ e \in Nat
  BY <1>1 DEF LastCell
<1>3. p \in Nat /\ q \in Nat /\ BlockOf(e) \in Nat /\ a % BlockSize \in Offsets
  BY <1>2, CellIs
<1>4. BlockOf(e) = p + 1
  <2>1. e = BlockSize * (p + 1) + (a % BlockSize)
    <3>1. a = BlockSize * p + (a % BlockSize)
      BY CellIs
    <3> DEFINE r == a % BlockSize
    <3>2. r \in Nat
      BY <1>1, <1>3 DEF Offsets
    <3> HIDE DEF p, r
    <3> QED BY <1>1, <1>3, <3>1, <3>2 DEF r
  <2>2. p + 1 \in Nat /\ a % BlockSize \in 0..BlockSize - 1
    BY <1>3 DEF Offsets
  <2> HIDE DEF p, e
  <2>3. e \div BlockSize = p + 1
    BY <1>1, <1>2, <2>1, <2>2, DivIs
  <2> QED BY <2>3 DEF BlockOf
<1> HIDE DEF z, e
<1>5. ASSUME NEW c \in a..z
      PROVE  c \in Nat /\ BlockOf(c) \in Nat /\ p <= BlockOf(c) /\ BlockOf(c) <= q /\ q <= p + 1
  <2>1. c \in Nat /\ a <= c /\ c <= z
    BY <1>2
  <2>2. BlockOf(c) \in Nat
    BY <2>1, CellIs
  <2>3. p <= BlockOf(c)
    BY <2>1, BlockMono
  <2>4. BlockOf(c) <= q
    BY <1>2, <2>1, BlockMono
  <2>5. q <= BlockOf(e)
    BY <1>2, BlockMono
  <2> QED BY <1>4, <2>1, <2>2, <2>3, <2>4, <2>5
<1> HIDE DEF p, q
<1>6. \A c \in a..z : c \in Nat /\ (BlockOf(c) = p \/ BlockOf(c) = q)
  BY <1>3, <1>5
<1>7. z \in a..z /\ a \in a..z
  BY <1>2
<1>8. q \in RamBlocks => \A c \in a..z : BlockOf(c) \in RamBlocks
  BY <1>1, <1>3, <1>5 DEF RamBlocks
<1>9. InRam(a, n) <=> q \in RamBlocks
  <2>1. InRam(a, n) <=> \A c \in a..z : BlockOf(c) \in RamBlocks
    BY Zenon, <1>6, CellIs DEF InRam, z
  <2> QED BY Zenon, <1>7, <1>8, <2>1 DEF q
<1>10. q \in RamBlocks => p \in RamBlocks
  BY Zenon, <1>7, <1>8 DEF p
<1> QED BY <1>2, <1>3, <1>6, <1>9, <1>10 DEF z, p, q

\* The bytes of the cells from a on.
Bytes(x, a, n) == [i \in 1..n |-> View(x)[a + i - 1]]

LEMMA ReadIs ==
  ASSUME NEW x, Inv(1, x), NEW a \in Nat, NEW n \in 1..(BlockSize + 1), NEW one, NEW two, NEW last,
         one = l1_read(x, BlockOf(a)), two = l1_read(one.m, BlockOf(LastCell(a, n))),
         last = IF BlockOf(a) = BlockOf(LastCell(a, n)) \/ ~one.ok THEN one ELSE two
  PROVE  /\ Inv(1, last.m) /\ View(last.m) = View(x) /\ last.ok \in BOOLEAN /\ (last.ok <=> InRam(a, n))
         /\ last.ok => Bytes(x, a, n) = [i \in 1..n |->
              (IF BlockOf(a + i - 1) = BlockOf(a) THEN one ELSE last).data[(a + i - 1) % BlockSize]]
<1> DEFINE z == LastCell(a, n)
           p == BlockOf(a)
           q == BlockOf(z)
<1>1. /\ z \in Nat /\ p \in Nat /\ q \in Nat
      /\ \A c \in a..z : c \in Nat /\ (BlockOf(c) = p \/ BlockOf(c) = q)
      /\ InRam(a, n) <=> q \in RamBlocks
      /\ q \in RamBlocks => p \in RamBlocks
  BY Spans
<1>0. one = l1_read(x, p) /\ two = l1_read(one.m, q) /\ last = IF p = q \/ ~one.ok THEN one ELSE two
  OBVIOUS
<1> HIDE DEF z, p, q
<1>2. Reads(1, x, p, one)
  BY <1>0, <1>1, L1Reads
<1>3. /\ one.ok \in BOOLEAN /\ Inv(1, one.m)
      /\ \A c \in RamBlocks : See(1, one.m, c) = See(1, x, c)
      /\ one.ok <=> p \in RamBlocks
      /\ one.ok => one.data = See(1, x, p)
  BY <1>2 DEF Reads, Result
<1>4. Reads(1, one.m, q, two)
  BY <1>0, <1>1, <1>3, L1Reads
<1>5. /\ two.ok \in BOOLEAN /\ Inv(1, two.m)
      /\ \A c \in RamBlocks : See(1, two.m, c) = See(1, one.m, c)
      /\ two.ok <=> q \in RamBlocks
      /\ two.ok => two.data = See(1, one.m, q)
  BY <1>4 DEF Reads, Result
<1>6. /\ Inv(1, last.m) /\ last.ok \in BOOLEAN /\ (last.ok <=> q \in RamBlocks)
      /\ last.ok => one.ok /\ last.data = See(1, x, q)
      /\ \A c \in RamBlocks : See(1, last.m, c) = See(1, x, c)
  <2>1. CASE p = q \/ ~one.ok
    <3>1. last = one
      BY <1>0, <2>1
    <3> QED BY Zenon, <1>1, <1>3, <2>1, <3>1
  <2>2. CASE p # q /\ one.ok
    <3>1. last = two
      BY <1>0, <2>2
    <3> QED BY Zenon, <1>1, <1>3, <1>5, <2>2, <3>1
  <2> QED BY <2>1, <2>2
<1>7. View(last.m) = View(x)
  BY <1>6, ViewSame
<1>8. ASSUME last.ok, NEW i \in 1..n
      PROVE  View(x)[a + i - 1] = (IF BlockOf(a + i - 1) = p THEN one ELSE last).data[(a + i - 1) % BlockSize]
  <2> DEFINE c == a + i - 1
  <2>1. c \in a..z
    BY Constants DEF z, LastCell
  <2> HIDE DEF c
  <2>2. c \in Cells
    BY Zenon, <1>1, <1>6, <1>8, <2>1 DEF InRam, z
  <2>3. View(x)[c] = See(1, x, BlockOf(c))[c % BlockSize]
    BY <2>2, ViewIs
  <2>4. (IF BlockOf(c) = p THEN one ELSE last).data = See(1, x, BlockOf(c))
    BY Zenon, <1>1, <1>3, <1>6, <1>8, <2>1
  <2> QED BY <2>3, <2>4 DEF c
<1>9. last.ok => Bytes(x, a, n) = [i \in 1..n |->
              (IF BlockOf(a + i - 1) = p THEN one ELSE last).data[(a + i - 1) % BlockSize]]
  BY Zenon, <1>8 DEF Bytes
<1> QED BY Zenon, <1>1, <1>6, <1>7, <1>9 DEF p, q, z

LEMMA PartIs ==
  ASSUME NEW a \in Nat, NEW d \in Seq(Values), Len(d) \in 1..(BlockSize + 1), NEW b \in Nat
  PROVE  /\ Part(a, d, b) \in Cut
         /\ \A c \in Nat : BlockOf(c) = b =>
              /\ c % BlockSize \in DOMAIN Part(a, d, b) <=> c \in a..LastCell(a, Len(d))
              /\ c \in a..LastCell(a, Len(d)) => Part(a, d, b)[c % BlockSize] = d[c - a + 1]
<1> DEFINE n == Len(d)
           z == LastCell(a, n)
           Q == {i \in a..z : BlockOf(i) = b}
           D == {c % BlockSize : c \in Q}
           f(o) == d[b * BlockSize + o - a + 1]
<1>1. Part(a, d, b) = [o \in D |-> f(o)]
  BY Zenon DEF Part, LastCell
<1>2. n \in Nat /\ BlockSize \in Nat \ {0}
  BY Constants
<1>3. ASSUME NEW c \in Nat, BlockOf(c) = b
      PROVE  c % BlockSize \in Offsets /\ b * BlockSize + (c % BlockSize) = c
  <2>1. BlockOf(c) \in Nat /\ c % BlockSize \in Offsets /\ c = BlockSize * BlockOf(c) + (c % BlockSize)
    BY CellIs
  <2> DEFINE r == c % BlockSize
  <2>2. r \in Nat
    BY <1>2, <2>1 DEF Offsets
  <2> HIDE DEF r
  <2>3. b * BlockSize + r = BlockSize * b + r
    BY <1>2, <2>2
  <2> QED BY Zenon, <1>3, <2>1, <2>3 DEF r
<1>4. \A c \in a..z : c \in Nat /\ c - a + 1 \in 1..n
  BY <1>2 DEF LastCell
<1>5. ASSUME NEW c \in Nat, BlockOf(c) = b, c \in a..z PROVE f(c % BlockSize) = d[c - a + 1]
  <2> DEFINE r == c % BlockSize
  <2>1. b * BlockSize + r = c
    BY <1>3, <1>5
  <2>2. r \in Nat
    BY <1>2, <1>3, <1>5 DEF Offsets
  <2> HIDE DEF r
  <2>3. b * BlockSize + r - a + 1 = c - a + 1
    <3>1. b * BlockSize \in Nat
      BY <1>2
    <3>2. \A w \in Nat : w + r = c => w + r - a + 1 = c - a + 1
      BY <2>2
    <3> QED BY Zenon, <2>1, <3>1, <3>2
  <2>4. d[b * BlockSize + r - a + 1] = d[c - a + 1]
    BY Zenon, <2>3
  <2> QED BY Zenon, <2>4 DEF r
<1>6. ASSUME NEW c \in Nat, BlockOf(c) = b, c % BlockSize \in D PROVE c \in a..z
  <2>1. PICK i \in Q : c % BlockSize = i % BlockSize
    BY <1>6
  <2>2. i \in a..z /\ BlockOf(i) = b /\ i \in Nat
    BY <1>4
  <2>3. b * BlockSize + (i % BlockSize) = i
    BY <1>3, <2>2
  <2>4. b * BlockSize + (c % BlockSize) = c
    BY <1>3, <1>6
  <2> QED BY Zenon, <2>1, <2>2, <2>3, <2>4
<1>7. ASSUME NEW c \in Nat, BlockOf(c) = b, c \in a..z PROVE c % BlockSize \in D
  BY Zenon, <1>7
<1>8. D \in SUBSET Offsets
  BY Zenon, <1>3, <1>4
<1>9. ASSUME NEW o \in D PROVE f(o) \in Values
  <2>1. PICK i \in Q : o = i % BlockSize
    OBVIOUS
  <2>2. i \in a..z /\ BlockOf(i) = b /\ i \in Nat /\ i - a + 1 \in 1..n
    BY <1>4
  <2>3. f(o) = d[i - a + 1]
    BY Zenon, <1>5, <2>1, <2>2
  <2>4. d[i - a + 1] \in Values
    BY <2>2
  <2> QED BY Zenon, <2>3, <2>4
<1> HIDE DEF D, f
<1>10. [o \in D |-> f(o)] \in [D -> Values]
  BY Zenon, <1>9
<1>11. Part(a, d, b) \in Cut
  BY Zenon, <1>1, <1>8, <1>10 DEF Cut
<1>12. DOMAIN Part(a, d, b) = D /\ \A o \in D : Part(a, d, b)[o] = f(o)
  BY Zenon, <1>1
<1> QED BY Zenon, <1>5, <1>6, <1>7, <1>11, <1>12 DEF n, z

\* The cells of block b hold the value d stored at a; the others are as before.
Stored(x, y, a, d, b) ==
  \A c \in Cells : View(y)[c] = IF BlockOf(c) = b /\ c \in a..LastCell(a, Len(d)) THEN d[c - a + 1] ELSE View(x)[c]

LEMMA StoreBlock ==
  ASSUME NEW x, Inv(1, x), NEW a \in Nat, NEW d \in Seq(Values), Len(d) \in 1..(BlockSize + 1), NEW b \in Nat,
         NEW r, r = l1_write(x, b, Part(a, d, b))
  PROVE  Inv(1, r.m) /\ r.ok \in BOOLEAN /\ (r.ok <=> b \in RamBlocks) /\ Stored(x, r.m, a, d, b)
<1> DEFINE w == Part(a, d, b)
           z == LastCell(a, Len(d))
<1>1. w \in Cut
  BY PartIs
<1>2. \A c \in Nat : BlockOf(c) = b => /\ c % BlockSize \in DOMAIN w <=> c \in a..z
                                       /\ c \in a..z => w[c % BlockSize] = d[c - a + 1]
  BY PartIs
<1> HIDE DEF w, z
<1>3. Writes(1, x, b, w, r)
  BY <1>1, L1Writes DEF w
<1>4. /\ Inv(1, r.m) /\ r.ok \in BOOLEAN /\ (r.ok <=> b \in RamBlocks)
      /\ \A c \in RamBlocks : c # b => See(1, r.m, c) = See(1, x, c)
      /\ r.ok => See(1, r.m, b) = Merge(w, See(1, x, b))
  BY <1>3 DEF Writes, Result
<1>5. ASSUME NEW c \in Cells
      PROVE  View(r.m)[c] = IF BlockOf(c) = b /\ c \in a..z THEN d[c - a + 1] ELSE View(x)[c]
  <2> DEFINE o == c % BlockSize
  <2>1. c \in Nat /\ BlockOf(c) \in RamBlocks /\ o \in Offsets
    BY CellsAre
  <2>2. View(r.m)[c] = See(1, r.m, BlockOf(c))[o] /\ View(x)[c] = See(1, x, BlockOf(c))[o]
    BY ViewIs
  <2> HIDE DEF o
  <2>3. CASE BlockOf(c) # b
    BY Zenon, <1>4, <2>1, <2>2, <2>3
  <2>4. CASE BlockOf(c) = b
    <3>1. See(1, r.m, b) = Merge(w, See(1, x, b))
      BY Zenon, <1>4, <2>1, <2>4
    <3>2. Merge(w, See(1, x, b))[o] = IF o \in DOMAIN w THEN w[o] ELSE See(1, x, b)[o]
      BY Zenon, <2>1 DEF Merge
    <3>3. (o \in DOMAIN w <=> c \in a..z) /\ (c \in a..z => w[o] = d[c - a + 1])
      BY Zenon, <1>2, <2>1, <2>4 DEF o
    <3> QED BY Zenon, <2>2, <2>4, <3>1, <3>2, <3>3
  <2> QED BY <2>3, <2>4
<1> QED BY Zenon, <1>4, <1>5 DEF Stored, z

LEMMA WriteIs ==
  ASSUME NEW x, Inv(1, x), NEW a \in Nat, NEW d \in Seq(Values), Len(d) \in 1..(BlockSize + 1),
         NEW one, NEW two, NEW last,
         one = l1_write(x, BlockOf(a), Part(a, d, BlockOf(a))),
         two = l1_write(one.m, BlockOf(LastCell(a, Len(d))), Part(a, d, BlockOf(LastCell(a, Len(d))))),
         last = IF BlockOf(a) = BlockOf(LastCell(a, Len(d))) \/ ~one.ok THEN one ELSE two
  PROVE  /\ Inv(1, last.m) /\ last.ok \in BOOLEAN /\ (last.ok <=> InRam(a, Len(d)))
         /\ View(last.m) = [c \in Cells |-> IF c \in a..LastCell(a, Len(d)) THEN d[c - a + 1] ELSE View(x)[c]]
<1> DEFINE n == Len(d)
           z == LastCell(a, n)
           p == BlockOf(a)
           q == BlockOf(z)
<1>1. /\ z \in Nat /\ p \in Nat /\ q \in Nat
      /\ \A c \in a..z : c \in Nat /\ (BlockOf(c) = p \/ BlockOf(c) = q)
      /\ InRam(a, n) <=> q \in RamBlocks
      /\ q \in RamBlocks => p \in RamBlocks
  BY Spans
<1>0. /\ one = l1_write(x, p, Part(a, d, p)) /\ two = l1_write(one.m, q, Part(a, d, q))
      /\ last = IF p = q \/ ~one.ok THEN one ELSE two
  OBVIOUS
<1> HIDE DEF z, p, q
<1>2. Inv(1, one.m) /\ one.ok \in BOOLEAN /\ (one.ok <=> p \in RamBlocks) /\ Stored(x, one.m, a, d, p)
  BY <1>0, <1>1, StoreBlock
<1>3. Inv(1, two.m) /\ two.ok \in BOOLEAN /\ (two.ok <=> q \in RamBlocks) /\ Stored(one.m, two.m, a, d, q)
  BY <1>0, <1>1, <1>2, StoreBlock
<1>4. Inv(1, last.m) /\ last.ok \in BOOLEAN /\ (last.ok <=> q \in RamBlocks)
  BY <1>0, <1>1, <1>2, <1>3
<1>5. ASSUME NEW c \in Cells
      PROVE  View(last.m)[c] = IF c \in a..z THEN d[c - a + 1] ELSE View(x)[c]
  <2>1. View(one.m)[c] = IF BlockOf(c) = p /\ c \in a..z THEN d[c - a + 1] ELSE View(x)[c]
    BY Zenon, <1>2 DEF Stored, z, n
  <2>2. View(two.m)[c] = IF BlockOf(c) = q /\ c \in a..z THEN d[c - a + 1] ELSE View(one.m)[c]
    BY Zenon, <1>3 DEF Stored, z, n
  <2>3. BlockOf(c) \in RamBlocks
    BY CellsAre
  <2>4. CASE p = q
    <3>1. last = one
      BY <1>0, <2>4
    <3> QED BY Zenon, <1>1, <2>1, <2>4, <3>1
  <2>5. CASE ~one.ok
    <3>1. last = one
      BY <1>0, <2>5
    <3>2. p \notin RamBlocks /\ q \notin RamBlocks
      BY Zenon, <1>1, <1>2, <2>5
    <3>3. c \notin a..z
      BY Zenon, <1>1, <2>3, <3>2
    <3> QED BY Zenon, <2>1, <3>1, <3>3
  <2>6. CASE p # q /\ one.ok
    <3>1. last = two
      BY <1>0, <2>6
    <3> QED BY Zenon, <1>1, <2>1, <2>2, <3>1
  <2> QED BY <2>4, <2>5, <2>6
<1>7. View(last.m) = [c \in Cells |-> IF c \in a..z THEN d[c - a + 1] ELSE View(x)[c]]
  <2>1. View(last.m) = [c \in Cells |-> View(last.m)[c]]
    BY Zenon, ViewIs
  <2> QED BY Zenon, <1>5, <2>1
<1> QED BY Zenon, <1>1, <1>4, <1>7 DEF z, n

-----------------------------------------------------------------------------
(* The steps.                                                               *)

\* Levels without lines over the RAM R.
NoLines(k) == [i \in Index(k) |-> <<>>]
Bare(R) == [l |-> [k \in 1..3 |-> NoLines(k)], ram |-> R]

LEMMA BareIs ==
  ASSUME NEW R \in [RamBlocks -> Data]
  PROVE  Inv(1, Bare(R)) /\ View(Bare(R)) = [c \in Cells |-> R[BlockOf(c)][c % BlockSize]]
<1> DEFINE x == Bare(R)
           L == [k \in 1..3 |-> NoLines(k)]
<1>1. x = [l |-> L, ram |-> R]
  BY DEF Bare
<1>2. \A k \in 1..3 : NoLines(k) \in [Index(k) -> Seq(Line)] /\ \A i \in Index(k) : NoLines(k)[i] = <<>>
  BY DEF NoLines
<1>3. \A k \in 1..3 : NoLines(k) \in AnyLevel /\ L[k] = NoLines(k)
  BY Zenon, <1>2 DEF AnyLevel
<1>4. L \in [1..3 -> AnyLevel]
  BY Zenon, <1>3
<1>5. L \in Levels
  BY Zenon, <1>2, <1>3, <1>4 DEF Levels
<1> HIDE DEF L
<1>6. x \in MemType /\ x.l = L /\ x.ram = R
  BY <1>1, <1>5 DEF MemType
<1> HIDE DEF x
<1>7. \A k \in 1..3 : \A i \in Index(k) : x.l[k][i] = <<>>
  BY Zenon, <1>2, <1>3, <1>6
<1>8. \A k \in 1..3 : \A i \in Index(k) : SetOK(k, i, <<>>)
  BY Constants DEF SetOK
<1>9. Wf(x)
  BY Zenon, <1>6, <1>7, <1>8 DEF Wf
<1>10. ASSUME NEW k \in 1..3, NEW b \in Nat PROVE SetOf(k, x, b) = <<>>
  BY Zenon, <1>7, IndexIs DEF SetOf
<1>11. ASSUME NEW k \in 1..3, NEW line \in Line PROVE ~Has(k, x, line)
  <2>1. SetOf(k, x, line.block) = <<>>
    BY <1>10, BlockIs
  <2>2. ~InSet(<<>>, line)
    BY DEF InSet
  <2> QED BY Zenon, <2>1, <2>2 DEF Has
<1>12. Inv(1, x)
  <2>1. \A j \in 1..3 : CleanAt(j, x)
    BY Zenon, <1>11 DEF CleanAt
  <2> QED BY Zenon, <1>9, <2>1 DEF Inv
<1>13. ASSUME NEW b \in Nat PROVE See(1, x, b) = R[b]
  <2>1. \A k \in 1..3 : See(k, x, b) = See(k + 1, x, b)
    BY Zenon, <1>9, <1>11, LacksIs DEF Lacks
  <2>2. See(1, x, b) = See(4, x, b)
    <3>1. 1 \in 1..3 /\ 2 \in 1..3 /\ 3 \in 1..3 /\ 1 + 1 = 2 /\ 2 + 1 = 3 /\ 3 + 1 = 4
      OBVIOUS
    <3> QED BY ONLY <2>1, <3>1
  <2> QED BY Zenon, <1>6, <2>2, SeeIs
<1>14. \A c \in Cells : See(1, x, BlockOf(c))[c % BlockSize] = R[BlockOf(c)][c % BlockSize]
  BY Zenon, <1>13, CellsAre, CellIs
<1>15. View(x) = [c \in Cells |-> R[BlockOf(c)][c % BlockSize]]
  BY Zenon, <1>14, ViewIs
<1> QED BY Zenon, <1>12, <1>15 DEF x

\* The inductive invariant.
CacheInv == Inv(1, m) /\ view = View(m)

LEMMA InitOK ==
  ASSUME Init
  PROVE  CacheInv /\ Flat!Init
<1> DEFINE R == [b \in RamBlocks |-> [o \in Offsets |-> 0]]
<1>1. m = Bare(R)
  BY Zenon DEF Init, Bare, NoLines, Index, RamBlocks
<1>2. R \in [RamBlocks -> Data]
  BY Constants, CachesAssumption DEF Data
<1>3. \A c \in Cells : R[BlockOf(c)][c % BlockSize] = 0
  BY CellsAre
<1> HIDE DEF R
<1>4. Inv(1, m) /\ View(m) = [c \in Cells |-> R[BlockOf(c)][c % BlockSize]]
  BY <1>1, <1>2, BareIs
<1>5. View(m) = [c \in Cells |-> 0]
  BY Zenon, <1>3, <1>4
<1>6. view = View(m) /\ reply = Answer(TRUE, <<>>)
  BY DEF Init
<1>7. Flat!Init
  BY Zenon, <1>5, <1>6 DEF Flat!Init, Flat!Cells, Cells, Flat!Answer, Answer
<1> QED BY Zenon, <1>4, <1>6, <1>7 DEF CacheInv

LEMMA ReadOK ==
  ASSUME CacheInv, NEW a \in Nat, NEW n \in 1..(BlockSize + 1), Read(a, n), view' = View(m')
  PROVE  Inv(1, m') /\ Flat!Read(a, n)
<1> DEFINE z == LastCell(a, n)
           one == l1_read(m, BlockOf(a))
           two == l1_read(one.m, BlockOf(z))
           last == IF BlockOf(a) = BlockOf(z) \/ ~one.ok THEN one ELSE two
           r == InTurn(a, n, l1_read)
           cell(c) == (IF BlockOf(c) = BlockOf(a) THEN one ELSE last).data[c % BlockSize]
<1>1. r = IF BlockOf(a) = BlockOf(z) \/ ~one.ok THEN <<one, one>> ELSE <<one, two>>
  BY Zenon DEF InTurn, LastCell
<1>2. r[1] = one /\ r[2] = last
  BY <1>1
<1>3. /\ m' = r[2].m
      /\ reply' = Answer(r[2].ok, IF r[2].ok THEN [i \in 1..n |->
            (IF BlockOf(a + i - 1) = BlockOf(a) THEN r[1] ELSE r[2]).data[(a + i - 1) % BlockSize]] ELSE <<>>)
  BY Zenon DEF Read
<1>4. Inv(1, m) /\ view = View(m)
  BY DEF CacheInv
<1>5. /\ Inv(1, last.m) /\ View(last.m) = View(m) /\ last.ok \in BOOLEAN /\ (last.ok <=> InRam(a, n))
      /\ last.ok => Bytes(m, a, n) = [i \in 1..n |->
              (IF BlockOf(a + i - 1) = BlockOf(a) THEN one ELSE last).data[(a + i - 1) % BlockSize]]
  <2> HIDE DEF one, two, last, z
  <2>1. /\ one = l1_read(m, BlockOf(a)) /\ two = l1_read(one.m, BlockOf(LastCell(a, n)))
        /\ last = IF BlockOf(a) = BlockOf(LastCell(a, n)) \/ ~one.ok THEN one ELSE two
    BY Zenon DEF one, two, last, z
  <2> QED BY <1>4, <2>1, ReadIs
<1> HIDE DEF one, two, last, r, z
<1>6. m' = last.m /\ reply' = Answer(last.ok, IF last.ok THEN [i \in 1..n |->
            (IF BlockOf(a + i - 1) = BlockOf(a) THEN one ELSE last).data[(a + i - 1) % BlockSize]] ELSE <<>>)
  BY Zenon, <1>2, <1>3
<1>7. view' = view
  BY <1>4, <1>5, <1>6
<1> DEFINE ok == \A i \in a..(a + n - 1) : Flat!contains(i)
<1>8. ok <=> InRam(a, n)
  BY Zenon DEF InRam, LastCell, Flat!contains, Flat!Cells, Cells
<1>9. Bytes(m, a, n) = [i \in 1..n |-> view[a + i - 1]]
  BY Zenon, <1>4 DEF Bytes
<1> HIDE DEF ok
<1>10. reply' = Flat!Answer(ok, IF ok THEN [i \in 1..n |-> view[a + i - 1]] ELSE <<>>)
  <2>1. CASE InRam(a, n)
    <3>1. last.ok = TRUE /\ ok = TRUE
      BY <1>5, <1>8, <2>1
    <3>2. reply' = Answer(TRUE, [i \in 1..n |-> view[a + i - 1]])
      BY Zenon, <1>5, <1>6, <1>9, <3>1
    <3> QED BY Zenon, <3>1, <3>2 DEF Answer, Flat!Answer
  <2>2. CASE ~InRam(a, n)
    <3>1. last.ok = FALSE /\ ok = FALSE
      BY <1>5, <1>8, <2>2
    <3>2. reply' = Answer(FALSE, <<>>)
      BY Zenon, <1>6, <3>1
    <3> QED BY Zenon, <3>1, <3>2 DEF Answer, Flat!Answer
  <2> QED BY <2>1, <2>2
<1>11. Flat!Read(a, n)
  BY Zenon, <1>7, <1>10 DEF Flat!Read, ok
<1> QED BY Zenon, <1>5, <1>6, <1>11

LEMMA WriteStep ==
  ASSUME CacheInv, NEW a \in Nat, NEW d \in Seq(Values), Len(d) \in 1..(BlockSize + 1), Write(a, d), view' = View(m')
  PROVE  Inv(1, m') /\ Flat!Write(a, d)
<1> DEFINE n == Len(d)
           z == LastCell(a, n)
           one == l1_write(m, BlockOf(a), Part(a, d, BlockOf(a)))
           two == l1_write(one.m, BlockOf(z), Part(a, d, BlockOf(z)))
           last == IF BlockOf(a) = BlockOf(z) \/ ~one.ok THEN one ELSE two
           r == InTurn(a, n, LAMBDA x, b : l1_write(x, b, Part(a, d, b)))
<1>1. r = IF BlockOf(a) = BlockOf(z) \/ ~one.ok THEN <<one, one>> ELSE <<one, two>>
  BY Zenon DEF InTurn, LastCell
<1>2. r[2] = last
  <2> HIDE DEF r, one, two, z
  <2> QED BY <1>1
<1>3. m' = r[2].m /\ reply' = Answer(r[2].ok, <<>>)
  BY Zenon DEF Write
<1>4. Inv(1, m) /\ view = View(m)
  BY DEF CacheInv
<1>5. /\ Inv(1, last.m) /\ last.ok \in BOOLEAN /\ (last.ok <=> InRam(a, n))
      /\ View(last.m) = [c \in Cells |-> IF c \in a..z THEN d[c - a + 1] ELSE View(m)[c]]
  <2> HIDE DEF one, two, last, z
  <2>1. /\ one = l1_write(m, BlockOf(a), Part(a, d, BlockOf(a)))
        /\ two = l1_write(one.m, BlockOf(LastCell(a, Len(d))), Part(a, d, BlockOf(LastCell(a, Len(d)))))
        /\ last = IF BlockOf(a) = BlockOf(LastCell(a, Len(d))) \/ ~one.ok THEN one ELSE two
    BY Zenon DEF one, two, last, z
  <2>2. /\ Inv(1, last.m) /\ last.ok \in BOOLEAN /\ (last.ok <=> InRam(a, Len(d)))
        /\ View(last.m) = [c \in Cells |-> IF c \in a..LastCell(a, Len(d)) THEN d[c - a + 1] ELSE View(m)[c]]
    BY <1>4, <2>1, WriteIs
  <2> QED BY Zenon, <2>2 DEF z
<1> HIDE DEF one, two, last, r
<1>6. m' = last.m /\ reply' = Answer(last.ok, <<>>)
  BY Zenon, <1>2, <1>3
<1>7. view' = [i \in Flat!Cells |-> IF i \in a..(a + n - 1) THEN d[i - a + 1] ELSE view[i]]
  BY Zenon, <1>4, <1>5, <1>6 DEF Flat!Cells, Cells, LastCell
<1> DEFINE ok == \A i \in a..(a + n - 1) : Flat!contains(i)
<1>8. ok <=> InRam(a, n)
  BY Zenon DEF InRam, LastCell, Flat!contains, Flat!Cells, Cells
<1> HIDE DEF ok
<1>9. reply' = Flat!Answer(ok, <<>>)
  <2>1. last.ok = ok
    <3>1. CASE InRam(a, n)
      <4>1. last.ok = TRUE /\ ok = TRUE
        BY <1>5, <1>8, <3>1
      <4> QED BY <4>1
    <3>2. CASE ~InRam(a, n)
      <4>1. last.ok = FALSE /\ ok = FALSE
        BY <1>5, <1>8, <3>2
      <4> QED BY <4>1
    <3> QED BY <3>1, <3>2
  <2> QED BY Zenon, <1>6, <2>1 DEF Answer, Flat!Answer
<1>10. Flat!Write(a, d)
  BY Zenon, <1>7, <1>9 DEF Flat!Write, ok
<1> QED BY Zenon, <1>5, <1>6, <1>10

LEMMA ColdStep ==
  ASSUME CacheInv, ColdReset, view' = View(m')
  PROVE  Inv(1, m') /\ view' = view /\ reply' = reply
<1>1. Inv(1, m) /\ view = View(m)
  BY DEF CacheInv
<1>2. m' = l3_flush(l2_flush(l1_flush(m))) /\ reply' = reply
  BY DEF ColdReset
<1>3. Inv(1, m') /\ \A c \in RamBlocks : See(1, m', c) = See(1, m, c)
  BY <1>1, <1>2, ColdOK
<1>4. View(m') = View(m)
  BY <1>3, ViewSame
<1> QED BY <1>1, <1>2, <1>3, <1>4

LEMMA ImageStep ==
  ASSUME CacheInv, Image, view' = View(m')
  PROVE  Inv(1, m') /\ Flat!Image
<1>1. Inv(1, m) /\ view = View(m)
  BY DEF CacheInv
<1>2. reply' = Answer(TRUE, [i \in 1..Size |-> write_image_into(m, i - 1)]) /\ m' = m
  BY DEF Image
<1>3. ASSUME NEW i \in 1..Size PROVE write_image_into(m, i - 1) = view[i - 1]
  <2>1. Size \in Nat
    BY Constants DEF Size
  <2>2. i - 1 \in Cells
    BY <2>1 DEF Cells
  <2> QED BY <1>1, <2>2, ImageIs, ViewIs
<1>4. [i \in 1..Size |-> write_image_into(m, i - 1)] = [i \in 1..Size |-> view[i - 1]]
  BY Zenon, <1>3
<1>5. view' = view
  BY Zenon, <1>1, <1>2
<1>6. reply' = Flat!Answer(TRUE, [i \in 1..Size |-> view[i - 1]])
  BY Zenon, <1>2, <1>4 DEF Answer, Flat!Answer
<1>7. Flat!Image
  BY Zenon, <1>5, <1>6 DEF Flat!Image
<1>8. Inv(1, m')
  BY Zenon, <1>1, <1>2
<1> QED BY Zenon, <1>7, <1>8

LEMMA LoadStep ==
  ASSUME CacheInv, NEW img \in [Cells -> Values], LoadImage(img), view' = View(m')
  PROVE  Inv(1, m') /\ Flat!LoadImage(img)
<1> DEFINE R == [b \in RamBlocks |-> [o \in Offsets |-> img[b * BlockSize + o]]]
<1>1. Inv(1, m) /\ view = View(m)
  BY DEF CacheInv
<1>2. \A k \in 1..3 : DOMAIN m.l[k] = Index(k)
  BY <1>1, MemIs DEF Inv, Wf
<1>3. m' = [l |-> [k \in 1..3 |-> [i \in DOMAIN m.l[k] |-> <<>>]], ram |-> R] /\ reply' = Answer(TRUE, <<>>)
  BY Zenon DEF LoadImage, RamBlocks
<1>4. [k \in 1..3 |-> [i \in DOMAIN m.l[k] |-> <<>>]] = [k \in 1..3 |-> NoLines(k)]
  BY Zenon, <1>2 DEF NoLines
<1>5. m' = Bare(R)
  BY Zenon, <1>3, <1>4 DEF Bare
<1>6. ASSUME NEW b \in RamBlocks, NEW o \in Offsets PROVE b * BlockSize + o \in Cells
  <2> DEFINE c == b * BlockSize + o
  <2>1. b \in Nat
    BY BlockIs
  <2>2. c \in Nat /\ BlockOf(c) = b
    BY <2>1, CellOf
  <2> HIDE DEF c
  <2>3. c \in Cells
    BY Zenon, <2>2, CellIs
  <2> QED BY <2>3 DEF c
<1>7. R \in [RamBlocks -> Data]
  <2>1. ASSUME NEW b \in RamBlocks PROVE [o \in Offsets |-> img[b * BlockSize + o]] \in Data
    BY Zenon, <1>6 DEF Data
  <2> QED BY Zenon, <2>1
<1>8. ASSUME NEW c \in Cells PROVE R[BlockOf(c)][c % BlockSize] = img[c]
  <2> DEFINE b == BlockOf(c)
             o == c % BlockSize
  <2>1. b \in RamBlocks /\ o \in Offsets /\ b \in Nat /\ c = BlockSize * b + o
    BY CellsAre, CellIs
  <2> HIDE DEF b, o
  <2>2. R[b][o] = img[b * BlockSize + o]
    BY Zenon, <2>1
  <2>3. b * BlockSize = BlockSize * b
    BY <2>1, Constants
  <2> HIDE DEF R
  <2> QED BY Zenon, <2>1, <2>2, <2>3 DEF b, o
<1> HIDE DEF R
<1>9. Inv(1, m') /\ View(m') = [c \in Cells |-> R[BlockOf(c)][c % BlockSize]]
  BY <1>5, <1>7, BareIs
<1>10. [c \in Cells |-> R[BlockOf(c)][c % BlockSize]] = [c \in Cells |-> img[c]]
  BY Zenon, <1>8
<1>11. [c \in Cells |-> img[c]] = img
  BY Zenon
<1>12. view' = img
  BY Zenon, <1>9, <1>10, <1>11
<1>13. reply' = Flat!Answer(TRUE, <<>>)
  BY Zenon, <1>3 DEF Answer, Flat!Answer
<1> QED BY Zenon, <1>9, <1>12, <1>13 DEF Flat!LoadImage

LEMMA Step ==
  ASSUME CacheInv, [Next]_vars
  PROVE  CacheInv' /\ [Flat!Next]_(Flat!vars)
<1>1. CASE UNCHANGED vars
  <2>1. m' = m /\ reply' = reply /\ view' = view
    BY <1>1 DEF vars
  <2>2. CacheInv'
    BY Zenon, <2>1 DEF CacheInv
  <2> QED BY <2>1, <2>2 DEF Flat!vars
<1>2. CASE Next
  <2>1. view' = View(m')
    BY <1>2 DEF Next
  <2>2. Inv(1, m') => CacheInv'
    BY <2>1 DEF CacheInv
  <2>3. ASSUME NEW r \in Loads, Read(r[1], r[2]) PROVE CacheInv' /\ Flat!Next
    <3>1. r[1] \in Nat /\ r[2] \in 1..(BlockSize + 1)
      BY CachesAssumption
    <3>2. Inv(1, m') /\ Flat!Read(r[1], r[2])
      BY <2>1, <2>3, <3>1, ReadOK
    <3> QED BY Zenon, <2>2, <3>2 DEF Flat!Next
  <2>4. ASSUME NEW w \in Stores, Write(w[1], w[2]) PROVE CacheInv' /\ Flat!Next
    <3>1. w[1] \in Nat /\ w[2] \in Seq(Values) /\ Len(w[2]) \in 1..(BlockSize + 1)
      BY CachesAssumption
    <3>2. Inv(1, m') /\ Flat!Write(w[1], w[2])
      BY <2>1, <2>4, <3>1, WriteStep
    <3> QED BY Zenon, <2>2, <3>2 DEF Flat!Next
  <2>5. ASSUME ColdReset PROVE CacheInv' /\ UNCHANGED Flat!vars
    <3>1. Inv(1, m') /\ view' = view /\ reply' = reply
      BY <2>1, <2>5, ColdStep
    <3> QED BY <2>2, <3>1 DEF Flat!vars
  <2>6. ASSUME Image PROVE CacheInv' /\ Flat!Next
    <3>1. Inv(1, m') /\ Flat!Image
      BY <2>1, <2>6, ImageStep
    <3> QED BY Zenon, <2>2, <3>1 DEF Flat!Next
  <2>7. ASSUME NEW img \in Images, LoadImage(img) PROVE CacheInv' /\ Flat!Next
    <3>1. img \in [Cells -> Values]
      BY CachesAssumption
    <3>2. Inv(1, m') /\ Flat!LoadImage(img)
      BY <2>1, <2>7, <3>1, LoadStep
    <3> QED BY Zenon, <2>2, <3>2 DEF Flat!Next
  <2> QED BY Zenon, <1>2, <2>3, <2>4, <2>5, <2>6, <2>7 DEF Next, Access
<1> QED BY <1>1, <1>2

(* In every reachable state the sets of all levels are well formed, a clean *)
(* line holds what can be seen below it, and the debugger's view is that    *)
(* of the levels from L1 on.                                                *)
THEOREM Invariant == Spec => []CacheInv
<1>1. Init => CacheInv
  BY InitOK
<1>2. CacheInv /\ [Next]_vars => CacheInv'
  BY Step
<1> QED BY <1>1, <1>2, PTL DEF Spec

(* A set never holds more lines than it has ways, no block twice, and only  *)
(* blocks that fall into it and exist in RAM: what resolve_line evicts and  *)
(* installs, write_n rewrites and flush_and_invalidate drops keeps every    *)
(* set well formed, also when the fetch fails.                              *)
THEOREM CachesTypeOK == Spec => []TypeOK
<1>1. CacheInv => TypeOK
  <2> SUFFICES ASSUME CacheInv, NEW k \in 1..3, NEW i \in DOMAIN m.l[k]
               PROVE  /\ m.l[k][i] \in Seq(Line) /\ Len(m.l[k][i]) <= Assoc[k]
                      /\ \A j \in DOMAIN m.l[k][i] : address_fields(k, m.l[k][i][j].block) = i
                      /\ \A j, h \in DOMAIN m.l[k][i] : m.l[k][i][j].block = m.l[k][i][h].block => j = h
    BY DEF TypeOK
  <2> DEFINE s == m.l[k][i]
  <2>1. Wf(m)
    BY DEF CacheInv, Inv
  <2>2. DOMAIN m.l[k] = Index(k)
    BY <2>1, MemIs DEF Wf
  <2>3. SetOK(k, i, s)
    BY Zenon, <2>1, <2>2 DEF Wf
  <2> HIDE DEF s
  <2>4. s \in Seq(Line) /\ DOMAIN s = 1..Len(s)
    BY <2>3 DEF SetOK
  <2>5. /\ s \in Seq(Line) /\ Len(s) <= Assoc[k]
        /\ \A j \in DOMAIN s : address_fields(k, s[j].block) = i
        /\ \A j, h \in DOMAIN s : s[j].block = s[h].block => j = h
    BY Zenon, <2>3, <2>4 DEF SetOK
  <2> QED BY <2>5 DEF s
<1> QED BY <1>1, Invariant, PTL

(* A clean line of any level equals what the levels below it hold for its   *)
(* block, so that the eviction of resolve_line may drop it and              *)
(* write_image_into may leave it out.                                       *)
THEOREM CachesCleanMatchesBelow == Spec => []CleanMatchesBelow
<1>1. CacheInv => CleanMatchesBelow
  <2> SUFFICES ASSUME CacheInv, NEW k \in 1..3, NEW i \in DOMAIN m.l[k], NEW j \in DOMAIN m.l[k][i],
                      ~m.l[k][i][j].dirty, NEW o \in Offsets
               PROVE  m.l[k][i][j].data[o] = peek_byte_raw(m, m.l[k][i][j].block * BlockSize + o, k + 1)
    BY DEF CleanMatchesBelow
  <2> DEFINE s == m.l[k][i]
             line == s[j]
             c == line.block * BlockSize + o
  <2>1. Wf(m) /\ CleanAt(k, m)
    BY Zenon DEF CacheInv, Inv
  <2>2. DOMAIN m.l[k] = Index(k)
    BY <2>1, MemIs DEF Wf
  <2>3. SetOK(k, i, s)
    BY Zenon, <2>1, <2>2 DEF Wf
  <2>0. j \in DOMAIN s /\ ~line.dirty
    OBVIOUS
  <2> HIDE DEF s
  <2>4. s \in Seq(Line) /\ DOMAIN s = 1..Len(s)
    BY <2>3 DEF SetOK
  <2>5. line \in Line /\ address_fields(k, line.block) = i /\ InSet(s, line)
    <3>1. j \in 1..Len(s)
      BY <2>0, <2>4
    <3>2. line \in Line
      BY <2>4, <3>1
    <3> QED BY Zenon, <2>3, <3>1, <3>2 DEF SetOK, InSet
  <2> HIDE DEF line
  <2>6. Has(k, m, line)
    BY Zenon, <2>5 DEF Has, SetOf, s
  <2>7. line.data = See(k + 1, m, line.block)
    BY Zenon, <2>0, <2>1, <2>5, <2>6 DEF CleanAt
  <2>8. BlockOf(c) = line.block /\ c % BlockSize = o
    BY <2>5, BlockIs, CellOf
  <2>9. k + 1 \in 1..4
    OBVIOUS
  <2> HIDE DEF c
  <2>10. peek_byte_raw(m, c, k + 1) = See(k + 1, m, line.block)[o]
    BY <2>8, <2>9, PeekIs
  <2> QED BY Zenon, <2>7, <2>10 DEF c, line, s
<1> QED BY <1>1, Invariant, PTL

(* The three caches implement bare RAM: every load, store, bus error, image *)
(* and byte the debugger sees is that of a RAM without caches, whatever is  *)
(* evicted, written back, flushed or half written before a fault, for       *)
(* blocks and levels of any size and accesses that touch up to two blocks.  *)
THEOREM CachesRefinesFlat == Spec => RefinesFlat
<1>1. Init => CacheInv /\ Flat!Init
  BY InitOK
<1>2. CacheInv /\ [Next]_vars => CacheInv' /\ [Flat!Next]_(Flat!vars)
  BY Step
<1> QED BY <1>1, <1>2, PTL DEF Spec, RefinesFlat, Flat!Spec
=============================================================================
