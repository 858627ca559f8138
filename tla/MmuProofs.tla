------------------------------ MODULE MmuProofs ------------------------------
(***************************************************************************)
(* Theorems about address translation, for page tables of any depth and    *)
(* width, any TLB and any contexts: the TLB never shows.                   *)
(*                                                                         *)
(* The walk is a recursive function of the level.  That it has the values  *)
(* its equation gives it, and what follows from the level above, is shown  *)
(* by looking at the least number for which it fails.                      *)
(***************************************************************************)
EXTENDS Mmu, NaturalsInduction, WellFoundedInduction, TLAPS

\* A set of numbers that is not empty has a least element.
LEMMA Least ==
  ASSUME NEW S \in SUBSET Nat, S # {}
  PROVE  \E n \in S : \A k \in S : ~(k < n)
<1>1. PICK n \in S : \A k \in S : ~(<<k, n>> \in OpToRel(<, Nat))
  BY Zenon, WFMin, NatLessThanWellFounded
<1>2. \A k \in S : k < n => <<k, n>> \in OpToRel(<, Nat)
  BY DEF OpToRel
<1> QED BY Zenon, <1>1, <1>2

LEMMA Constants ==
  /\ LEVELS \in Nat /\ LEVELS >= 1 /\ Fan \in Nat /\ Fan >= 1 /\ TLB_ENTRIES \in Nat /\ TLB_ENTRIES >= 1
  /\ Tables \subseteq Nat /\ Roots \subseteq Tables /\ Stopped \notin Tables
  /\ \A slot \in Slots : slot[1] \in Tables /\ slot[2] \in 0..(Fan - 1) /\ slot = <<slot[1], slot[2]>>
  /\ \A pte \in Written : pte \in PageTableEntry
<1>1. LEVELS \in Nat \ {0} /\ Fan \in Nat \ {0} /\ TLB_ENTRIES \in Nat \ {0}
  BY Zenon, MmuAssumption
<1>2. Tables \subseteq Nat /\ Roots \subseteq Tables /\ Slots \subseteq Tables \X (0..(Fan - 1))
  BY Zenon, MmuAssumption
<1>3. \A pte \in Written : pte \in PageTableEntry
  BY Zenon, MmuAssumption
<1>4. Stopped \notin Tables
  BY <1>2 DEF Stopped
<1>5. \A slot \in Slots : slot[1] \in Tables /\ slot[2] \in 0..(Fan - 1) /\ slot = <<slot[1], slot[2]>>
  BY <1>2
<1> QED BY <1>1, <1>2, <1>3, <1>4, <1>5

-----------------------------------------------------------------------------
(* Spans.                                                                   *)

SpanUpTo(f, n) == f \in [0..n -> Nat] /\ f[0] = 1 /\ \A k \in 1..n : f[k] = Fan * f[k - 1]

LEMMA SpanExists == \A n \in Nat : \E f : SpanUpTo(f, n)
<1> DEFINE S == {n \in Nat : ~\E f : SpanUpTo(f, n)}
<1> SUFFICES ASSUME S # {} PROVE FALSE
  OBVIOUS
<1>1. PICK n \in S : \A k \in S : ~(k < n)
  BY Least
<1>2. n \in Nat /\ ~\E f : SpanUpTo(f, n)
  OBVIOUS
<1>3. CASE n = 0
  <2> DEFINE f == [k \in 0..0 |-> 1]
  <2>1. SpanUpTo(f, 0)
    BY DEF SpanUpTo
  <2> HIDE DEF f
  <2> QED BY <1>2, <1>3, <2>1
<1>4. CASE n # 0
  <2>1. n - 1 \in Nat /\ n - 1 < n
    BY <1>2, <1>4
  <2>2. n - 1 \notin S
    BY <1>1, <2>1
  <2>3. PICK f : SpanUpTo(f, n - 1)
    BY <2>1, <2>2
  <2> DEFINE g == [k \in 0..n |-> IF k = n THEN Fan * f[n - 1] ELSE f[k]]
  <2>4. Fan \in Nat /\ f \in [0..n - 1 -> Nat] /\ f[0] = 1 /\ \A k \in 1..n - 1 : f[k] = Fan * f[k - 1]
    BY <2>3, Constants DEF SpanUpTo
  <2>5. f[n - 1] \in Nat
    BY <2>1, <2>4
  <2>6. Fan * f[n - 1] \in Nat
    BY <2>4, <2>5
  <2>7. g \in [0..n -> Nat]
    BY <1>2, <2>4, <2>6
  <2>8. g[0] = 1
    BY <1>2, <1>4, <2>4
  <2>9. \A k \in 1..n : g[k] = Fan * g[k - 1]
    <3> SUFFICES ASSUME NEW k \in 1..n PROVE g[k] = Fan * g[k - 1]
      OBVIOUS
    <3>1. k \in 0..n /\ k - 1 \in 0..n /\ k - 1 # n
      BY <1>2
    <3>2. CASE k = n
      BY <3>1, <3>2
    <3>3. CASE k # n
      <4>1. k \in 1..n - 1
        BY <1>2, <3>3
      <4> QED BY <2>4, <3>1, <3>3, <4>1
    <3> QED BY <3>2, <3>3
  <2> HIDE DEF g
  <2>10. SpanUpTo(g, n)
    BY <2>7, <2>8, <2>9 DEF SpanUpTo
  <2> QED BY <1>2, <2>10
<1> QED BY <1>3, <1>4

LEMMA SpanIs == \A level \in 0..LEVELS : Span[level] \in Nat /\ Span[level] >= 1
<1> DEFINE Eqn(f) == f = [level \in 0..LEVELS |-> IF level = 0 THEN 1 ELSE Fan * f[level - 1]]
<1>1. LEVELS \in Nat /\ Fan \in Nat /\ Fan >= 1
  BY Constants
<1>2. PICK f : SpanUpTo(f, LEVELS)
  BY <1>1, SpanExists
<1>3. Eqn(f)
  <2>1. f \in [0..LEVELS -> Nat] /\ f[0] = 1 /\ \A k \in 1..LEVELS : f[k] = Fan * f[k - 1]
    BY <1>2 DEF SpanUpTo
  <2>2. \A k \in 0..LEVELS : f[k] = IF k = 0 THEN 1 ELSE Fan * f[k - 1]
    <3> SUFFICES ASSUME NEW k \in 0..LEVELS, k # 0 PROVE f[k] = Fan * f[k - 1]
      BY <2>1
    <3>1. k \in 1..LEVELS
      BY <1>1
    <3> QED BY <2>1, <3>1
  <2> QED BY <2>1, <2>2
<1>4. Span = CHOOSE g : Eqn(g)
  BY DEF Span
<1> HIDE DEF Eqn
<1>5. Eqn(Span)
  BY <1>3, <1>4
<1>6. Span = [level \in 0..LEVELS |-> IF level = 0 THEN 1 ELSE Fan * Span[level - 1]]
  BY Zenon, <1>5 DEF Eqn
<1>7. \A level \in 0..LEVELS : Span[level] = IF level = 0 THEN 1 ELSE Fan * Span[level - 1]
  BY <1>6
<1> DEFINE S == {level \in 0..LEVELS : ~(Span[level] \in Nat /\ Span[level] >= 1)}
<1> SUFFICES ASSUME S # {} PROVE FALSE
  OBVIOUS
<1>8. S \in SUBSET Nat
  BY <1>1
<1>9. PICK n \in S : \A k \in S : ~(k < n)
  BY <1>8, Least
<1>10. n \in 0..LEVELS /\ ~(Span[n] \in Nat /\ Span[n] >= 1)
  OBVIOUS
<1>11. n # 0
  BY <1>7, <1>10
<1>12. n - 1 \in 0..LEVELS /\ n - 1 < n
  BY <1>1, <1>10, <1>11
<1>13. n - 1 \notin S
  BY <1>9, <1>12
<1> DEFINE p == Span[n - 1]
<1>14. p \in Nat /\ p >= 1
  BY <1>12, <1>13
<1>15. Span[n] = Fan * p
  BY <1>7, <1>10, <1>11
<1> HIDE DEF p
<1>16. Fan * p \in Nat /\ Fan * p >= 1
  BY <1>1, <1>14
<1> QED BY <1>10, <1>15, <1>16

LEMMA IndexIs ==
  ASSUME NEW vpn \in Nat, NEW level \in 0..LEVELS
  PROVE  index(vpn, level) \in 0..(Fan - 1)
<1> DEFINE p == Span[level]
<1>1. p \in Nat /\ p >= 1 /\ Fan \in Nat /\ Fan >= 1
  BY SpanIs, Constants
<1>2. index(vpn, level) = (vpn \div p) % Fan
  BY DEF index
<1> HIDE DEF p
<1>3. vpn \div p \in Nat
  BY <1>1
<1>4. (vpn \div p) % Fan \in 0..(Fan - 1)
  BY <1>1, <1>3
<1> QED BY <1>2, <1>4

-----------------------------------------------------------------------------
(* The walk.                                                                *)

TablesType == [Tables -> [0..(Fan - 1) -> PageTableEntry]]

\* What a level of the walk hands to the level below.
Below(ts, vpn, level, t) ==
  IF t \in Tables /\ pointer(ts[t][index(vpn, level)]) THEN ts[t][index(vpn, level)].ppn ELSE Stopped

\* The tables of a walk, down to level n.
WalkedTo(ts, root, vpn, at, n) ==
  /\ at \in [n..(LEVELS - 1) -> Int] /\ at[LEVELS - 1] = root
  /\ \A level \in n..(LEVELS - 2) : at[level] = Below(ts, vpn, level + 1, at[level + 1])

Walked(ts, root, vpn, at) == WalkedTo(ts, root, vpn, at, 0)

LEMMA EntryIs ==
  ASSUME NEW ts \in TablesType, NEW vpn \in Nat, NEW level \in 0..(LEVELS - 1), NEW t \in Tables
  PROVE  ts[t][index(vpn, level)] \in PageTableEntry
<1>1. level \in 0..LEVELS
  BY Constants
<1>2. index(vpn, level) \in 0..(Fan - 1)
  BY <1>1, IndexIs
<1> QED BY <1>2 DEF TablesType

LEMMA BelowIs ==
  ASSUME NEW ts \in TablesType, NEW vpn \in Nat, NEW level \in 0..(LEVELS - 1), NEW t
  PROVE  Below(ts, vpn, level, t) \in Int
<1>1. Stopped \in Int
  BY DEF Stopped
<1>2. t \in Tables => ts[t][index(vpn, level)].ppn \in Int
  BY EntryIs DEF PageTableEntry
<1> QED BY <1>1, <1>2 DEF Below

LEMMA WalkedExists ==
  ASSUME NEW ts \in TablesType, NEW root \in Int, NEW vpn \in Nat
  PROVE  \A n \in 0..(LEVELS - 1) : \E at : WalkedTo(ts, root, vpn, at, LEVELS - 1 - n)
<1> DEFINE S == {n \in 0..(LEVELS - 1) : ~\E at : WalkedTo(ts, root, vpn, at, LEVELS - 1 - n)}
           L == LEVELS - 1
<1> SUFFICES ASSUME S # {} PROVE FALSE
  OBVIOUS
<1>0. L \in Nat /\ LEVELS - 2 = L - 1
  BY Constants
<1>1. PICK n \in S : \A k \in S : ~(k < n)
  <2>1. S \in SUBSET Nat
    BY <1>0
  <2> QED BY <2>1, Least
<1>2. n \in 0..L /\ ~\E at : WalkedTo(ts, root, vpn, at, L - n)
  OBVIOUS
<1>3. CASE n = 0
  <2> DEFINE at == [level \in L..L |-> root]
  <2>1. at \in [L..L -> Int] /\ at[L] = root
    BY <1>0
  <2>2. \A level \in L..(LEVELS - 2) : FALSE
    BY <1>0
  <2> HIDE DEF at
  <2>3. WalkedTo(ts, root, vpn, at, L)
    BY <2>1, <2>2 DEF WalkedTo
  <2>4. L - n = L
    BY <1>0, <1>3
  <2> QED BY <1>2, <2>3, <2>4
<1>4. CASE n # 0
  <2>1. n - 1 \in 0..L /\ n - 1 < n /\ n - 1 \in 0..(LEVELS - 1)
    BY <1>0, <1>2, <1>4
  <2>2. n - 1 \notin S
    BY <1>1, <2>1
  <2>3. PICK at : WalkedTo(ts, root, vpn, at, L - (n - 1))
    BY <2>1, <2>2
  <2> DEFINE low == L - n
             g == [level \in low..L |-> IF level = low THEN Below(ts, vpn, low + 1, at[low + 1]) ELSE at[level]]
  <2>4. low \in 0..L /\ L - (n - 1) = low + 1 /\ low + 1 \in 0..(LEVELS - 1) /\ low < L
    BY <1>0, <1>2, <1>4
  <2>5. /\ at \in [low + 1..L -> Int] /\ at[L] = root
        /\ \A level \in low + 1..(LEVELS - 2) : at[level] = Below(ts, vpn, level + 1, at[level + 1])
    BY <2>3, <2>4 DEF WalkedTo
  <2>6. Below(ts, vpn, low + 1, at[low + 1]) \in Int
    BY <2>4, BelowIs
  <2> HIDE DEF low
  <2>7. g \in [low..L -> Int]
    <3> SUFFICES ASSUME NEW level \in low..L, level # low PROVE at[level] \in Int
      BY <2>6
    <3>1. level \in low + 1..L
      BY <1>0, <2>4
    <3> QED BY <2>5, <3>1
  <2>8. g[L] = root
    BY <1>0, <2>4, <2>5
  <2>9. \A level \in low..(LEVELS - 2) : g[level] = Below(ts, vpn, level + 1, g[level + 1])
    <3> SUFFICES ASSUME NEW level \in low..(LEVELS - 2) PROVE g[level] = Below(ts, vpn, level + 1, g[level + 1])
      BY Zenon
    <3>1. level \in low..L /\ level + 1 \in low..L /\ level + 1 # low
      BY <1>0, <2>4
    <3>2. g[level + 1] = at[level + 1]
      BY <3>1
    <3>3. CASE level = low
      BY <3>1, <3>2, <3>3
    <3>4. CASE level # low
      <4>1. level \in low + 1..(LEVELS - 2)
        BY <1>0, <2>4, <3>4
      <4>2. g[level] = at[level]
        BY <3>1, <3>4
      <4> QED BY <2>5, <3>2, <4>1, <4>2
    <3> QED BY <3>3, <3>4
  <2> HIDE DEF g
  <2>10. WalkedTo(ts, root, vpn, g, low)
    BY <2>7, <2>8, <2>9 DEF WalkedTo
  <2> QED BY <1>2, <2>10 DEF low
<1> QED BY <1>3, <1>4

\* CurrentPpn is what its equation says.
LEMMA CurrentPpnIs ==
  ASSUME NEW ts \in TablesType, NEW root \in Int, NEW vpn \in Nat
  PROVE  Walked(ts, root, vpn, CurrentPpn(ts, root, vpn))
<1> DEFINE Eqn(at) ==
      at = [level \in 0..(LEVELS - 1) |->
              IF level = LEVELS - 1 THEN root
              ELSE LET t == at[level + 1]
                       i == index(vpn, level + 1)
                   IN  IF t \in Tables /\ pointer(ts[t][i]) THEN ts[t][i].ppn ELSE Stopped]
           Eqn2(at) ==
      at = [level \in 0..(LEVELS - 1) |->
              IF level = LEVELS - 1 THEN root ELSE Below(ts, vpn, level + 1, at[level + 1])]
           at == CurrentPpn(ts, root, vpn)
<1>1. at = CHOOSE f : Eqn(f)
  BY Zenon DEF CurrentPpn
<1>2. \A f : Eqn(f) <=> Eqn2(f)
  BY Zenon DEF Below
<1> HIDE DEF Eqn
<1>3. LEVELS - 1 \in Nat /\ LEVELS - 1 - (LEVELS - 1) = 0 /\ LEVELS - 1 \in 0..(LEVELS - 1)
  BY Constants
<1>4. PICK f : WalkedTo(ts, root, vpn, f, 0)
  <2>1. \E f : WalkedTo(ts, root, vpn, f, LEVELS - 1 - (LEVELS - 1))
    BY <1>3, WalkedExists
  <2> QED BY <1>3, <2>1
<1>5. Eqn2(f)
  <2>1. /\ f \in [0..(LEVELS - 1) -> Int] /\ f[LEVELS - 1] = root
        /\ \A level \in 0..(LEVELS - 2) : f[level] = Below(ts, vpn, level + 1, f[level + 1])
    BY <1>4 DEF WalkedTo
  <2>2. \A level \in 0..(LEVELS - 1) : level # LEVELS - 1 => level \in 0..(LEVELS - 2)
    BY <1>3, Constants
  <2> QED BY <2>1, <2>2
<1>6. Eqn2(at)
  <2> HIDE DEF Eqn2, at
  <2> QED BY Zenon, <1>1, <1>2, <1>5
<1> HIDE DEF at
<1>7. at[LEVELS - 1] = root
  BY <1>3, <1>6
<1>8. \A level \in 0..(LEVELS - 2) : at[level] = Below(ts, vpn, level + 1, at[level + 1])
  <2> SUFFICES ASSUME NEW level \in 0..(LEVELS - 2) PROVE at[level] = Below(ts, vpn, level + 1, at[level + 1])
    OBVIOUS
  <2>1. level \in 0..(LEVELS - 1) /\ level # LEVELS - 1
    BY Constants
  <2> QED BY <1>6, <2>1
<1>9. at \in [0..(LEVELS - 1) -> Int]
  <2>1. \A level \in 0..(LEVELS - 1) : at[level] \in Int
    <3> SUFFICES ASSUME NEW level \in 0..(LEVELS - 1), level # LEVELS - 1 PROVE at[level] \in Int
      BY <1>7
    <3>1. level \in 0..(LEVELS - 2) /\ level + 1 \in 0..(LEVELS - 1)
      BY Constants
    <3> QED BY <1>8, <3>1, BelowIs
  <2>2. at = [level \in 0..(LEVELS - 1) |-> at[level]]
    BY <1>6
  <2> QED BY <2>1, <2>2
<1>10. Walked(ts, root, vpn, at)
  BY <1>7, <1>8, <1>9 DEF Walked, WalkedTo
<1> QED BY <1>10 DEF at


\* The entry at a level of a walk; a walk ends at a leaf.
EntryAt(ts, vpn, at, level) == ts[at[level]][index(vpn, level)]
LeafAt(ts, vpn, at, level) ==
  LET pte == EntryAt(ts, vpn, at, level) IN at[level] \in Tables /\ pte.v /\ (pte.r \/ pte.x)

\* Below a level that is no pointer there is nothing.
LEMMA EndsThere ==
  ASSUME NEW ts, NEW root, NEW vpn, NEW at, Walked(ts, root, vpn, at), NEW level \in 0..(LEVELS - 1),
         Below(ts, vpn, level, at[level]) = Stopped
  PROVE  \A k \in 0..(level - 1) : at[k] = Stopped
<1> DEFINE S == {n \in 0..(level - 1) : at[level - 1 - n] # Stopped}
<1>0. level \in Nat /\ level - 1 \in Int /\ LEVELS \in Nat
  BY Constants
<1>1. \A k \in 0..(LEVELS - 2) : at[k] = Below(ts, vpn, k + 1, at[k + 1])
  BY DEF Walked, WalkedTo
<1>2. S = {}
  <2> SUFFICES ASSUME S # {} PROVE FALSE
    OBVIOUS
  <2>1. S \in SUBSET Nat
    BY <1>0
  <2>2. PICK n \in S : \A k \in S : ~(k < n)
    BY <2>1, Least
  <2> DEFINE k == level - 1 - n
  <2>3. n \in 0..(level - 1) /\ at[k] # Stopped
    OBVIOUS
  <2>4. k \in 0..(LEVELS - 2) /\ k + 1 = level - n
    BY <1>0, <2>3
  <2>5. at[k] = Below(ts, vpn, k + 1, at[k + 1])
    BY <1>1, <2>4
  <2>6. CASE n = 0
    <3>1. k + 1 = level
      BY <1>0, <2>4, <2>6
    <3> QED BY <2>3, <2>5, <3>1
  <2>7. CASE n # 0
    <3>1. n - 1 \in 0..(level - 1) /\ n - 1 < n /\ level - 1 - (n - 1) = k + 1
      BY <1>0, <2>3, <2>4, <2>7
    <3>2. n - 1 \notin S
      BY <2>2, <3>1
    <3>3. at[k + 1] = Stopped
      BY <3>1, <3>2
    <3>4. at[k + 1] \notin Tables
      BY <3>3, Constants
    <3> HIDE DEF k
    <3> QED BY <2>3, <2>5, <3>4 DEF Below
  <2> QED BY <2>6, <2>7
<1> SUFFICES ASSUME NEW k \in 0..(level - 1) PROVE at[k] = Stopped
  OBVIOUS
<1>3. level - 1 - k \in 0..(level - 1) /\ level - 1 - (level - 1 - k) = k
  BY <1>0
<1> QED BY <1>2, <1>3

LEMMA LeafOnce ==
  ASSUME NEW ts, NEW root, NEW vpn, NEW at, Walked(ts, root, vpn, at),
         NEW i \in 0..(LEVELS - 1), NEW j \in 0..(LEVELS - 1), LeafAt(ts, vpn, at, i), LeafAt(ts, vpn, at, j)
  PROVE  i = j
<1>1. ASSUME NEW k \in 0..(LEVELS - 1), NEW h \in 0..(LEVELS - 1), LeafAt(ts, vpn, at, k), LeafAt(ts, vpn, at, h), h < k
      PROVE  FALSE
  <2>1. Below(ts, vpn, k, at[k]) = Stopped
    BY Zenon, <1>1 DEF LeafAt, EntryAt, Below, pointer
  <2>2. h \in 0..(k - 1)
    BY <1>1, Constants
  <2>3. at[h] = Stopped
    BY <2>1, <2>2, EndsThere
  <2> QED BY <1>1, <2>3, Constants DEF LeafAt
<1>2. i \in Int /\ j \in Int
  OBVIOUS
<1>3. i < j \/ j < i \/ i = j
  BY <1>2
<1> QED BY <1>1, <1>3

\* The leaf of a walk, and no leaf.
LEMMA WalkIs ==
  ASSUME NEW ts \in TablesType, NEW root \in Int, NEW vpn \in Nat, NEW at, at = CurrentPpn(ts, root, vpn)
  PROVE  /\ \A level \in 0..(LEVELS - 1) : LeafAt(ts, vpn, at, level) =>
              Walk(ts, root, vpn) = [pte |-> EntryAt(ts, vpn, at, level), level |-> level,
                                     slot |-> <<at[level], index(vpn, level)>>]
         /\ (\A level \in 0..(LEVELS - 1) : ~LeafAt(ts, vpn, at, level)) => Walk(ts, root, vpn) = NoMap
<1>1. Walked(ts, root, vpn, at)
  BY CurrentPpnIs
<1> DEFINE last == CHOOSE level \in 0..(LEVELS - 1) : LeafAt(ts, vpn, at, level)
<1>2. Walk(ts, root, vpn) =
        IF \E level \in 0..(LEVELS - 1) : LeafAt(ts, vpn, at, level)
        THEN [pte |-> EntryAt(ts, vpn, at, last), level |-> last, slot |-> <<at[last], index(vpn, last)>>]
        ELSE NoMap
  BY Zenon DEF Walk, LeafAt, EntryAt
<1>3. ASSUME NEW level \in 0..(LEVELS - 1), LeafAt(ts, vpn, at, level)
      PROVE  last = level
  <2>1. last \in 0..(LEVELS - 1) /\ LeafAt(ts, vpn, at, last)
    BY Zenon, <1>3
  <2> HIDE DEF last
  <2> QED BY <1>1, <1>3, <2>1, LeafOnce
<1> HIDE DEF last
<1>4. ASSUME NEW level \in 0..(LEVELS - 1), LeafAt(ts, vpn, at, level)
      PROVE  Walk(ts, root, vpn) = [pte |-> EntryAt(ts, vpn, at, level), level |-> level,
                                    slot |-> <<at[level], index(vpn, level)>>]
  BY Zenon, <1>2, <1>3, <1>4
<1> QED BY Zenon, <1>2, <1>4

\* Two sets of tables that agree, in the entries a walk reads, on where the
\* pointers go have the same walk.
LEMMA SamePlaces ==
  ASSUME NEW ts \in TablesType, NEW us \in TablesType, NEW root \in Int, NEW vpn \in Nat,
         NEW at, at = CurrentPpn(ts, root, vpn),
         \A level \in 0..(LEVELS - 1) : at[level] \in Tables =>
           Below(us, vpn, level, at[level]) = Below(ts, vpn, level, at[level])
  PROVE  CurrentPpn(us, root, vpn) = at
<1> DEFINE bt == CurrentPpn(us, root, vpn)
           S == {n \in 0..(LEVELS - 1) : bt[LEVELS - 1 - n] # at[LEVELS - 1 - n]}
           L == LEVELS - 1
<1>0. L \in Nat /\ LEVELS - 2 = L - 1
  BY Constants
<1>1. Walked(ts, root, vpn, at) /\ Walked(us, root, vpn, bt)
  BY CurrentPpnIs
<1> HIDE DEF bt
<1>2. /\ at \in [0..L -> Int] /\ at[L] = root
      /\ \A k \in 0..(LEVELS - 2) : at[k] = Below(ts, vpn, k + 1, at[k + 1])
  BY <1>1 DEF Walked, WalkedTo
<1>3. /\ bt \in [0..L -> Int] /\ bt[L] = root
      /\ \A k \in 0..(LEVELS - 2) : bt[k] = Below(us, vpn, k + 1, bt[k + 1])
  BY <1>1 DEF Walked, WalkedTo
<1>4. S = {}
  <2> SUFFICES ASSUME S # {} PROVE FALSE
    OBVIOUS
  <2>1. S \in SUBSET Nat
    BY <1>0
  <2>2. PICK n \in S : \A k \in S : ~(k < n)
    BY <2>1, Least
  <2> DEFINE k == L - n
  <2>3. n \in 0..L /\ bt[k] # at[k]
    OBVIOUS
  <2>4. n # 0
    <3> SUFFICES ASSUME n = 0 PROVE FALSE
      OBVIOUS
    <3>1. k = L
      BY <1>0
    <3> QED BY <1>2, <1>3, <2>3, <3>1
  <2>5. n - 1 \in 0..L /\ n - 1 < n /\ L - (n - 1) = k + 1 /\ k \in 0..(LEVELS - 2) /\ k + 1 \in 0..(LEVELS - 1)
    BY <1>0, <2>3, <2>4
  <2>6. n - 1 \notin S
    BY <2>2, <2>5
  <2>7. bt[k + 1] = at[k + 1]
    BY <2>5, <2>6
  <2> HIDE DEF k
  <2>8. at[k] = Below(ts, vpn, k + 1, at[k + 1]) /\ bt[k] = Below(us, vpn, k + 1, at[k + 1])
    BY <1>2, <1>3, <2>5, <2>7
  <2>9. CASE at[k + 1] \in Tables
    BY <2>3, <2>5, <2>8, <2>9
  <2>10. CASE at[k + 1] \notin Tables
    BY <2>3, <2>8, <2>10 DEF Below
  <2> QED BY <2>9, <2>10
<1>5. \A k \in 0..L : bt[k] = at[k]
  <2> SUFFICES ASSUME NEW k \in 0..L PROVE bt[k] = at[k]
    OBVIOUS
  <2>1. L - k \in 0..L /\ L - (L - k) = k
    BY <1>0
  <2> QED BY <1>4, <2>1
<1>6. bt = at
  <2> HIDE DEF L
  <2>1. bt = [k \in 0..L |-> bt[k]] /\ at = [k \in 0..L |-> at[k]]
    BY <1>2, <1>3
  <2>2. [k \in 0..L |-> bt[k]] = [k \in 0..L |-> at[k]]
    BY Zenon, <1>5
  <2> QED BY Zenon, <2>1, <2>2
<1> QED BY <1>6 DEF bt


LEMMA LeafIs ==
  ASSUME NEW ts \in TablesType, NEW root \in Int, NEW vpn \in Nat, NEW w, w = Walk(ts, root, vpn), w # NoMap
  PROVE  LET at == CurrentPpn(ts, root, vpn)
         IN  /\ w.level \in 0..(LEVELS - 1) /\ LeafAt(ts, vpn, at, w.level)
             /\ w.pte = EntryAt(ts, vpn, at, w.level) /\ w.pte \in PageTableEntry
             /\ w.slot = <<at[w.level], index(vpn, w.level)>>
             /\ w.slot[1] = at[w.level] /\ w.slot[2] = index(vpn, w.level)
             /\ w.slot[1] \in Tables /\ w.slot[2] \in 0..(Fan - 1) /\ w.pte = ts[w.slot[1]][w.slot[2]]
             /\ w.pte.v /\ (w.pte.r \/ w.pte.x)
<1> DEFINE at == CurrentPpn(ts, root, vpn)
<1> HIDE DEF at
<1>1. PICK level \in 0..(LEVELS - 1) : LeafAt(ts, vpn, at, level)
  BY WalkIs DEF at
<1>2. w = [pte |-> EntryAt(ts, vpn, at, level), level |-> level, slot |-> <<at[level], index(vpn, level)>>]
  BY <1>1, WalkIs DEF at
<1>3. /\ w.level = level /\ w.pte = EntryAt(ts, vpn, at, level) /\ w.slot = <<at[level], index(vpn, level)>>
      /\ w.slot[1] = at[level] /\ w.slot[2] = index(vpn, level)
  BY <1>2
<1>4. at[level] \in Tables /\ EntryAt(ts, vpn, at, level).v
      /\ (EntryAt(ts, vpn, at, level).r \/ EntryAt(ts, vpn, at, level).x)
  BY Zenon, <1>1 DEF LeafAt
<1>5. EntryAt(ts, vpn, at, level) \in PageTableEntry
  BY <1>4, EntryIs DEF EntryAt
<1>6. index(vpn, level) \in 0..(Fan - 1)
  <2>1. level \in 0..LEVELS
    BY Constants
  <2> QED BY <2>1, IndexIs
<1>7. w.pte = ts[w.slot[1]][w.slot[2]]
  BY Zenon, <1>3 DEF EntryAt
<1>8. w.level \in 0..(LEVELS - 1) /\ LeafAt(ts, vpn, at, w.level)
  BY Zenon, <1>1, <1>3
<1> QED BY Zenon, <1>3, <1>4, <1>5, <1>6, <1>7, <1>8 DEF at

\* A record with the three fields is a leaf, not NoMap.
LEMMA LeafNotNoMap ==
  ASSUME NEW ts \in TablesType, NEW root \in Int, NEW vpn \in Nat, NEW level \in 0..(LEVELS - 1),
         LeafAt(ts, vpn, CurrentPpn(ts, root, vpn), level)
  PROVE  /\ Walk(ts, root, vpn) # NoMap /\ Walk(ts, root, vpn).level = level
         /\ Walk(ts, root, vpn).pte = EntryAt(ts, vpn, CurrentPpn(ts, root, vpn), level)
         /\ Walk(ts, root, vpn).slot = <<CurrentPpn(ts, root, vpn)[level], index(vpn, level)>>
<1> DEFINE at == CurrentPpn(ts, root, vpn)
           a == EntryAt(ts, vpn, at, level)
           b == <<at[level], index(vpn, level)>>
           w == Walk(ts, root, vpn)
<1>1. w = [pte |-> a, level |-> level, slot |-> b]
  BY WalkIs
<1> HIDE DEF w, a, b
<1>2. w # NoMap /\ w.level = level /\ w.pte = a /\ w.slot = b
  <2>1. w.level = level /\ w.pte = a /\ w.slot = b
    BY <1>1
  <2>2. "pte" \in DOMAIN w
    BY <1>1
  <2>3. "pte" \notin DOMAIN NoMap
    BY DEF NoMap
  <2> QED BY <2>1, <2>2, <2>3
<1> QED BY Zenon, <1>2 DEF w, a, b

\* One entry changed: the entries at the other slots are as they were.
Changed(ts, s, i, pte) == [ts EXCEPT ![s][i] = pte]

LEMMA ChangedIs ==
  ASSUME NEW ts \in TablesType, NEW s \in Tables, NEW i \in 0..(Fan - 1), NEW pte \in PageTableEntry
  PROVE  LET us == Changed(ts, s, i, pte)
         IN  /\ us \in TablesType /\ us[s][i] = pte
             /\ \A t \in Tables, j \in 0..(Fan - 1) : <<t, j>> # <<s, i>> => us[t][j] = ts[t][j]
<1> DEFINE us == Changed(ts, s, i, pte)
<1>1. us \in TablesType
  BY DEF TablesType, Changed
<1>2. us[s][i] = pte
  BY DEF TablesType, Changed
<1>3. ASSUME NEW t \in Tables, NEW j \in 0..(Fan - 1), <<t, j>> # <<s, i>>
      PROVE  us[t][j] = ts[t][j]
  <2>1. t # s \/ j # i
    BY <1>3
  <2> QED BY <2>1 DEF TablesType, Changed
<1> QED BY Zenon, <1>1, <1>2, <1>3

\* An entry written outside the path of a walk leaves the walk alone.
LEMMA OtherWalk ==
  ASSUME NEW ts \in TablesType, NEW s \in Tables, NEW i \in 0..(Fan - 1), NEW pte \in PageTableEntry,
         NEW us, us = Changed(ts, s, i, pte),
         NEW root \in Int, NEW vpn \in Nat, <<s, i>> \notin Path(ts, root, vpn)
  PROVE  Walk(us, root, vpn) = Walk(ts, root, vpn)
<1> DEFINE at == CurrentPpn(ts, root, vpn)
<1>1. /\ us \in TablesType
      /\ \A t \in Tables, j \in 0..(Fan - 1) : <<t, j>> # <<s, i>> => us[t][j] = ts[t][j]
  BY ChangedIs
<1>2. \A level \in 0..(LEVELS - 1) : at[level] \in Tables => <<at[level], index(vpn, level)>> # <<s, i>>
  BY Zenon DEF Path
<1>0. at = CurrentPpn(ts, root, vpn)
  OBVIOUS
<1> HIDE DEF at
<1>3. \A level \in 0..(LEVELS - 1) : at[level] \in Tables =>
        us[at[level]][index(vpn, level)] = ts[at[level]][index(vpn, level)]
  <2> SUFFICES ASSUME NEW level \in 0..(LEVELS - 1), at[level] \in Tables
               PROVE  us[at[level]][index(vpn, level)] = ts[at[level]][index(vpn, level)]
    OBVIOUS
  <2>1. level \in 0..LEVELS
    BY Constants
  <2>2. index(vpn, level) \in 0..(Fan - 1)
    BY <2>1, IndexIs
  <2> QED BY Zenon, <1>1, <1>2, <2>2
<1>4. \A level \in 0..(LEVELS - 1) : at[level] \in Tables =>
        Below(us, vpn, level, at[level]) = Below(ts, vpn, level, at[level])
  <2> SUFFICES ASSUME NEW level \in 0..(LEVELS - 1), at[level] \in Tables
               PROVE  Below(us, vpn, level, at[level]) = Below(ts, vpn, level, at[level])
    OBVIOUS
  <2> DEFINE pte1 == us[at[level]][index(vpn, level)]
             pte2 == ts[at[level]][index(vpn, level)]
  <2>1. pte1 = pte2
    BY <1>3
  <2>2. /\ Below(us, vpn, level, at[level]) = IF at[level] \in Tables /\ pointer(pte1) THEN pte1.ppn ELSE Stopped
        /\ Below(ts, vpn, level, at[level]) = IF at[level] \in Tables /\ pointer(pte2) THEN pte2.ppn ELSE Stopped
    BY Zenon DEF Below
  <2> QED BY Zenon, <2>1, <2>2
<1>5. CurrentPpn(us, root, vpn) = at
  BY <1>0, <1>1, <1>4, SamePlaces
<1>50. at = CurrentPpn(us, root, vpn)
  BY <1>5
<1>6. \A level \in 0..(LEVELS - 1) : LeafAt(us, vpn, at, level) <=> LeafAt(ts, vpn, at, level)
  BY Zenon, <1>3 DEF LeafAt, EntryAt
<1>7. CASE \A level \in 0..(LEVELS - 1) : ~LeafAt(ts, vpn, at, level)
  <2>1. Walk(ts, root, vpn) = NoMap
    BY <1>7, WalkIs DEF at
  <2>2. Walk(us, root, vpn) = NoMap
    BY <1>1, <1>5, <1>6, <1>7, WalkIs
  <2> QED BY Zenon, <2>1, <2>2
<1>8. ASSUME NEW level \in 0..(LEVELS - 1), LeafAt(ts, vpn, at, level)
      PROVE  Walk(us, root, vpn) = Walk(ts, root, vpn)
  <2>1. Walk(ts, root, vpn) = [pte |-> EntryAt(ts, vpn, at, level), level |-> level,
                               slot |-> <<at[level], index(vpn, level)>>]
    BY <1>8, WalkIs DEF at
  <2>2. Walk(us, root, vpn) = [pte |-> EntryAt(us, vpn, at, level), level |-> level,
                               slot |-> <<at[level], index(vpn, level)>>]
    BY <1>1, <1>50, <1>6, <1>8, WalkIs
  <2>3. EntryAt(us, vpn, at, level) = EntryAt(ts, vpn, at, level)
    BY Zenon, <1>3, <1>8 DEF EntryAt, LeafAt
  <2> QED BY Zenon, <2>1, <2>2, <2>3
<1> QED BY Zenon, <1>7, <1>8


LEMMA MarkedIs ==
  ASSUME NEW pte \in PageTableEntry, NEW kind
  PROVE  /\ marked(pte, kind) \in PageTableEntry
         /\ marked(pte, kind).a /\ (marked(pte, kind).d <=> pte.d \/ kind = "store")
         /\ marked(pte, kind).v = pte.v /\ marked(pte, kind).r = pte.r /\ marked(pte, kind).w = pte.w
         /\ marked(pte, kind).x = pte.x /\ marked(pte, kind).u = pte.u /\ marked(pte, kind).ppn = pte.ppn
<1> DEFINE q == marked(pte, kind)
           d == pte.d \/ kind = "store"
<1>1. q = [pte EXCEPT !.a = TRUE, !.d = d]
  BY DEF marked
<1>2. d \in BOOLEAN
  OBVIOUS
<1> HIDE DEF d, q
<1>3. q \in PageTableEntry /\ q.a = TRUE /\ q.d = d
  BY <1>1, <1>2 DEF PageTableEntry
<1>4. q.v = pte.v /\ q.r = pte.r /\ q.w = pte.w /\ q.x = pte.x /\ q.u = pte.u /\ q.ppn = pte.ppn
  BY <1>1, <1>2 DEF PageTableEntry
<1>5. q.d <=> pte.d \/ kind = "store"
  BY Zenon, <1>3 DEF d
<1> QED BY Zenon, <1>3, <1>4, <1>5 DEF q

IsLeaf(pte) == pte.v /\ (pte.r \/ pte.x)

\* Marking a leaf moves no walk: the walks that end there see the marks.
LEMMA MarkWalk ==
  ASSUME NEW ts \in TablesType, NEW s \in Tables, NEW i \in 0..(Fan - 1), NEW kind, IsLeaf(ts[s][i]),
         NEW us, us = Changed(ts, s, i, marked(ts[s][i], kind)),
         NEW root \in Int, NEW vpn \in Nat
  PROVE  LET w == Walk(ts, root, vpn)
             u == Walk(us, root, vpn)
         IN  /\ w = NoMap => u = NoMap
             /\ w # NoMap => /\ u # NoMap /\ u.level = w.level /\ u.slot = w.slot
                             /\ w.slot = <<s, i>> => u.pte = marked(w.pte, kind)
                             /\ w.slot # <<s, i>> => u.pte = w.pte
<1> DEFINE at == CurrentPpn(ts, root, vpn)
           w == Walk(ts, root, vpn)
           u == Walk(us, root, vpn)
           pte1(level) == ts[at[level]][index(vpn, level)]
           pte2(level) == us[at[level]][index(vpn, level)]
           here(level) == <<at[level], index(vpn, level)>> = <<s, i>>
<1>0. at = CurrentPpn(ts, root, vpn)
  OBVIOUS
<1> HIDE DEF at
<1>1. /\ us \in TablesType /\ us[s][i] = marked(ts[s][i], kind)
      /\ \A t \in Tables, j \in 0..(Fan - 1) : <<t, j>> # <<s, i>> => us[t][j] = ts[t][j]
  <2>1. ts[s][i] \in PageTableEntry
    BY DEF TablesType
  <2>2. marked(ts[s][i], kind) \in PageTableEntry
    BY <2>1, MarkedIs
  <2> QED BY <2>2, ChangedIs
<1>2. ASSUME NEW level \in 0..(LEVELS - 1), at[level] \in Tables
      PROVE  /\ pte1(level) \in PageTableEntry
             /\ here(level) => pte2(level) = marked(pte1(level), kind) /\ IsLeaf(pte1(level))
             /\ ~here(level) => pte2(level) = pte1(level)
  <2>1. level \in 0..LEVELS
    BY Constants
  <2>2. index(vpn, level) \in 0..(Fan - 1)
    BY <2>1, IndexIs
  <2>3. pte1(level) \in PageTableEntry
    BY <1>2, EntryIs
  <2>4. ASSUME here(level) PROVE pte2(level) = marked(pte1(level), kind) /\ IsLeaf(pte1(level))
    <3>1. at[level] = s /\ index(vpn, level) = i
      BY <2>4
    <3> QED BY Zenon, <1>1, <3>1
  <2>5. ASSUME ~here(level) PROVE pte2(level) = pte1(level)
    BY Zenon, <1>1, <1>2, <2>2, <2>5
  <2> QED BY Zenon, <2>3, <2>4, <2>5
<1>3. ASSUME NEW level \in 0..(LEVELS - 1), at[level] \in Tables
      PROVE  /\ IsLeaf(pte2(level)) <=> IsLeaf(pte1(level))
             /\ pointer(pte2(level)) <=> pointer(pte1(level))
             /\ pte2(level).ppn = pte1(level).ppn
  <2> DEFINE p == pte1(level)
             q == pte2(level)
  <2>1. p \in PageTableEntry /\ (q = marked(p, kind) \/ q = p)
    BY Zenon, <1>2, <1>3
  <2> HIDE DEF p, q
  <2>2. q.v = p.v /\ q.r = p.r /\ q.x = p.x /\ q.w = p.w /\ q.ppn = p.ppn
    BY <2>1, MarkedIs
  <2>3. (IsLeaf(q) <=> IsLeaf(p)) /\ (pointer(q) <=> pointer(p)) /\ q.ppn = p.ppn
    BY Zenon, <2>2 DEF IsLeaf, pointer
  <2> QED BY Zenon, <2>3 DEF p, q
<1>4. \A level \in 0..(LEVELS - 1) : at[level] \in Tables =>
        Below(us, vpn, level, at[level]) = Below(ts, vpn, level, at[level])
  <2> SUFFICES ASSUME NEW level \in 0..(LEVELS - 1), at[level] \in Tables
               PROVE  Below(us, vpn, level, at[level]) = Below(ts, vpn, level, at[level])
    OBVIOUS
  <2>1. /\ Below(us, vpn, level, at[level]) = IF at[level] \in Tables /\ pointer(pte2(level)) THEN pte2(level).ppn ELSE Stopped
        /\ Below(ts, vpn, level, at[level]) = IF at[level] \in Tables /\ pointer(pte1(level)) THEN pte1(level).ppn ELSE Stopped
    BY Zenon DEF Below
  <2>2. (pointer(pte2(level)) <=> pointer(pte1(level))) /\ pte2(level).ppn = pte1(level).ppn
    BY <1>3
  <2> HIDE DEF pte1, pte2
  <2> QED BY Zenon, <2>1, <2>2
<1>5. at = CurrentPpn(us, root, vpn)
  <2>1. CurrentPpn(us, root, vpn) = at
    BY <1>0, <1>1, <1>4, SamePlaces
  <2> QED BY <2>1
<1>6. \A level \in 0..(LEVELS - 1) : LeafAt(us, vpn, at, level) <=> LeafAt(ts, vpn, at, level)
  <2> SUFFICES ASSUME NEW level \in 0..(LEVELS - 1) PROVE LeafAt(us, vpn, at, level) <=> LeafAt(ts, vpn, at, level)
    OBVIOUS
  <2>1. (LeafAt(us, vpn, at, level) <=> at[level] \in Tables /\ IsLeaf(pte2(level)))
        /\ (LeafAt(ts, vpn, at, level) <=> at[level] \in Tables /\ IsLeaf(pte1(level)))
    BY Zenon DEF LeafAt, EntryAt, IsLeaf
  <2> HIDE DEF pte1, pte2
  <2> QED BY Zenon, <1>3, <2>1
<1>7. ASSUME w = NoMap PROVE u = NoMap
  <2>1. \A level \in 0..(LEVELS - 1) : ~LeafAt(ts, vpn, at, level)
    BY <1>0, <1>7, LeafNotNoMap
  <2>2. \A level \in 0..(LEVELS - 1) : ~LeafAt(us, vpn, at, level)
    BY Zenon, <1>6, <2>1
  <2> QED BY <1>1, <1>5, <2>2, WalkIs
<1>8. ASSUME w # NoMap
      PROVE  /\ u # NoMap /\ u.level = w.level /\ u.slot = w.slot
             /\ w.slot = <<s, i>> => u.pte = marked(w.pte, kind)
             /\ w.slot # <<s, i>> => u.pte = w.pte
  <2> DEFINE level == w.level
  <2>1. /\ level \in 0..(LEVELS - 1) /\ LeafAt(ts, vpn, at, level)
        /\ w.pte = EntryAt(ts, vpn, at, level) /\ w.slot = <<at[level], index(vpn, level)>>
    BY <1>0, <1>8, LeafIs
  <2>2. LeafAt(us, vpn, at, level) /\ at[level] \in Tables
    BY Zenon, <1>6, <2>1 DEF LeafAt
  <2>3. /\ u # NoMap /\ u.level = level /\ u.pte = EntryAt(us, vpn, at, level)
        /\ u.slot = <<at[level], index(vpn, level)>>
    BY <1>1, <1>5, <2>1, <2>2, LeafNotNoMap
  <2>4. /\ here(level) => pte2(level) = marked(pte1(level), kind)
        /\ ~here(level) => pte2(level) = pte1(level)
    BY Zenon, <1>2, <2>1, <2>2
  <2>5. w.pte = pte1(level) /\ u.pte = pte2(level)
    BY Zenon, <2>1, <2>3 DEF EntryAt
  <2> QED BY Zenon, <2>1, <2>3, <2>4, <2>5
<1> QED BY Zenon, <1>7, <1>8

-----------------------------------------------------------------------------
(* The TLB.                                                                 *)

EntryType == [vpn : Vpns, pte : PageTableEntry, level : 0..(LEVELS - 1)]
Roots0 == Roots \cup {Bare}
TlbType == [satp : Roots0, entries : [0..(TLB_ENTRIES - 1) -> EntryType \cup {NoMap}]]

\* An entry of the TLB is right for the tables.
Matches(ts, root, e) ==
  LET leaf == Walk(ts, root, e.vpn)
  IN  /\ leaf # NoMap /\ leaf.level = e.level
      /\ e.pte = [leaf.pte EXCEPT !.d = e.pte.d]
      /\ e.pte.a /\ (e.pte.d => leaf.pte.d)

CoherentIn(ts, t, ch) ==
  \A i \in DOMAIN t.entries :
    (t.entries[i] # NoMap /\ <<t.satp, t.entries[i].vpn>> \notin ch) => Matches(ts, t.satp, t.entries[i])

\* Before the first translation there is nothing in the TLB.
BareIsEmpty(t) == t.satp = Bare => \A i \in 0..(TLB_ENTRIES - 1) : t.entries[i] = NoMap

TypeInv == tables \in TablesType /\ satp \in Roots0 /\ tlb \in TlbType

IInv == TypeInv /\ BareIsEmpty(tlb) /\ CoherentIn(tables, tlb, changed)

LEMMA CoherentIs == Coherent <=> CoherentIn(tables, tlb, changed)
BY Zenon DEF Coherent, CoherentIn, Matches

LEMMA RootsAre == Roots \subseteq Int /\ Bare \notin Roots /\ \A root \in Roots0 : root \in Int /\ (root # Bare => root \in Roots)
<1>1. Roots \subseteq Nat
  BY Constants
<1>2. Bare \notin Nat /\ Bare \in Int
  BY DEF Bare
<1> QED BY <1>1, <1>2 DEF Roots0

LEMMA VpnsAre == Vpns \subseteq Nat /\ Noncanonical \in Nat /\ Noncanonical \notin Vpns
<1>1. LEVELS \in 0..LEVELS
  BY Constants
<1>2. Span[LEVELS] \in Nat /\ Span[LEVELS] >= 1
  BY <1>1, SpanIs
<1> QED BY <1>2 DEF Vpns, Noncanonical

\* Two entries that differ in the D bit only.
AllButD(p, q) ==
  p.v = q.v /\ p.r = q.r /\ p.w = q.w /\ p.x = q.x /\ p.u = q.u /\ p.a = q.a /\ p.ppn = q.ppn

LEMMA ButD ==
  ASSUME NEW p \in PageTableEntry, NEW q \in PageTableEntry
  PROVE  p = [q EXCEPT !.d = p.d] <=> AllButD(p, q)
<1> DEFINE r == [q EXCEPT !.d = p.d]
<1>1. r \in PageTableEntry
  BY DEF PageTableEntry
<1>2. r.v = q.v /\ r.r = q.r /\ r.w = q.w /\ r.x = q.x /\ r.u = q.u /\ r.a = q.a /\ r.ppn = q.ppn /\ r.d = p.d
  BY DEF PageTableEntry
<1> HIDE DEF r
<1>3. ASSUME p.v = r.v, p.r = r.r, p.w = r.w, p.x = r.x, p.u = r.u, p.a = r.a, p.ppn = r.ppn, p.d = r.d
      PROVE  p = r
  BY <1>1, <1>3 DEF PageTableEntry
<1>4. p = r => AllButD(p, q)
  BY Zenon, <1>2 DEF AllButD
<1>5. AllButD(p, q) => p = r
  BY Zenon, <1>2, <1>3 DEF AllButD
<1> QED BY Zenon, <1>4, <1>5 DEF r

\* Matches, field by field.
LEMMA MatchesIs ==
  ASSUME NEW ts \in TablesType, NEW root \in Int, NEW e \in EntryType, NEW w, w = Walk(ts, root, e.vpn)
  PROVE  Matches(ts, root, e) <=>
           w # NoMap /\ w.level = e.level /\ AllButD(e.pte, w.pte) /\ e.pte.a /\ (e.pte.d => w.pte.d)
<1>1. Matches(ts, root, e) <=>
        w # NoMap /\ w.level = e.level /\ e.pte = [w.pte EXCEPT !.d = e.pte.d] /\ e.pte.a /\ (e.pte.d => w.pte.d)
  BY Zenon DEF Matches
<1>2. e.vpn \in Nat /\ e.pte \in PageTableEntry
  BY VpnsAre DEF EntryType
<1>3. w # NoMap => w.pte \in PageTableEntry
  BY <1>2, LeafIs
<1>4. w # NoMap => (e.pte = [w.pte EXCEPT !.d = e.pte.d] <=> AllButD(e.pte, w.pte))
  BY <1>2, <1>3, ButD
<1> QED BY Zenon, <1>1, <1>4

LEMMA TlbIs ==
  ASSUME NEW t \in TlbType
  PROVE  /\ t.satp \in Roots0 /\ DOMAIN t.entries = 0..(TLB_ENTRIES - 1)
         /\ \A i \in 0..(TLB_ENTRIES - 1) : t.entries[i] # NoMap => t.entries[i] \in EntryType
<1>1. t.entries \in [0..(TLB_ENTRIES - 1) -> EntryType \cup {NoMap}] /\ t.satp \in Roots0
  BY DEF TlbType
<1> QED BY <1>1

\* sync_satp leaves a TLB of the current tables.
LEMMA SyncIs ==
  ASSUME NEW ts, NEW ch, tlb \in TlbType, satp \in Roots0, CoherentIn(ts, tlb, ch), BareIsEmpty(tlb)
  PROVE  LET t == sync_satp(tlb)
         IN  /\ t \in TlbType /\ t.satp = satp /\ CoherentIn(ts, t, ch) /\ BareIsEmpty(t)
             /\ t.satp # tlb.satp => \A i \in 0..(TLB_ENTRIES - 1) : t.entries[i] = NoMap
             /\ t.satp = tlb.satp => t = tlb
<1> DEFINE t == sync_satp(tlb)
<1>1. CASE tlb.satp = satp
  <2>1. t = tlb
    BY Zenon, <1>1 DEF sync_satp
  <2> QED BY Zenon, <1>1, <2>1
<1>2. CASE tlb.satp # satp
  <2>1. t = [satp |-> satp, entries |-> flushed(tlb.entries)]
    BY Zenon, <1>2 DEF sync_satp
  <2>2. DOMAIN tlb.entries = 0..(TLB_ENTRIES - 1)
    BY TlbIs
  <2>3. flushed(tlb.entries) = [i \in 0..(TLB_ENTRIES - 1) |-> NoMap]
    BY Zenon, <2>2 DEF flushed
  <2> DEFINE f == [i \in 0..(TLB_ENTRIES - 1) |-> NoMap]
  <2>4. f \in [0..(TLB_ENTRIES - 1) -> EntryType \cup {NoMap}] /\ \A i \in 0..(TLB_ENTRIES - 1) : f[i] = NoMap
    OBVIOUS
  <2>5. DOMAIN f = 0..(TLB_ENTRIES - 1)
    OBVIOUS
  <2> HIDE DEF f
  <2>6. t = [satp |-> satp, entries |-> f]
    BY Zenon, <2>1, <2>3 DEF f
  <2> HIDE DEF t
  <2>7. t \in TlbType /\ t.satp = satp /\ t.entries = f
    BY <2>4, <2>6 DEF TlbType
  <2>8. CoherentIn(ts, t, ch) /\ BareIsEmpty(t)
    BY Zenon, <2>4, <2>5, <2>7 DEF CoherentIn, BareIsEmpty
  <2> QED BY Zenon, <1>2, <2>4, <2>7, <2>8 DEF t
<1> QED BY Zenon, <1>1, <1>2

\* What a translation does to the tables and the TLB, and what it answers.
Leaf(vpn) == Walk(tables, satp, vpn)
Done(vpn, ctx, kind) == finalize_leaf(Leaf(vpn).pte, Leaf(vpn).level, vpn, ctx, kind)
Hit(vpn) == lookup(sync_satp(tlb), vpn)

LEMMA TranslateIs ==
  ASSUME NEW vpn, NEW ctx, NEW kind
  PROVE  LET r == translate_with_pmp(vpn, ctx, kind)
             e == Hit(vpn)
         IN  \/ (ctx.priv = "M" \/ satp = Bare \/ ~is_sv39_canonical(vpn)) /\ r.tables = tables /\ r.tlb = tlb
             \/ /\ ctx.priv # "M" /\ satp # Bare /\ is_sv39_canonical(vpn)
                /\ \/ /\ hits(e, kind) /\ r.tables = tables /\ r.tlb = sync_satp(tlb)
                      /\ r.answer = finalize_leaf(e.pte, e.level, vpn, ctx, kind)
                   \/ ~hits(e, kind) /\ Leaf(vpn) = NoMap /\ r.tables = tables /\ r.tlb = sync_satp(tlb) /\ r.answer = PageFault
                   \/ /\ ~hits(e, kind) /\ Leaf(vpn) # NoMap /\ Done(vpn, ctx, kind) \in {PageFault, AccessFault}
                      /\ r.tables = tables /\ r.tlb = sync_satp(tlb) /\ r.answer = Done(vpn, ctx, kind)
                   \/ /\ ~hits(e, kind) /\ Leaf(vpn) # NoMap /\ Done(vpn, ctx, kind) \notin {PageFault, AccessFault}
                      /\ r.tables = Changed(tables, Leaf(vpn).slot[1], Leaf(vpn).slot[2], marked(Leaf(vpn).pte, kind))
                      /\ r.tlb = insert(sync_satp(tlb), vpn, marked(Leaf(vpn).pte, kind), Leaf(vpn).level)
                      /\ r.answer = Done(vpn, ctx, kind)
<1> DEFINE r == translate_with_pmp(vpn, ctx, kind)
           same == [answer |-> vpn, tables |-> tables, tlb |-> tlb]
           synced == [same EXCEPT !.tlb = sync_satp(tlb)]
           e == Hit(vpn)
           leaf == Leaf(vpn)
           done == Done(vpn, ctx, kind)
           us == Changed(tables, leaf.slot[1], leaf.slot[2], marked(leaf.pte, kind))
           tl == insert(sync_satp(tlb), vpn, marked(leaf.pte, kind), leaf.level)
           ans == finalize_leaf(e.pte, e.level, vpn, ctx, kind)
<1>1. synced = [answer |-> vpn, tables |-> tables, tlb |-> sync_satp(tlb)]
  BY DEF sync_satp
<1>2. synced.tlb = sync_satp(tlb)
  BY <1>1
<1>3. r = IF ctx.priv = "M" THEN same
          ELSE IF satp = Bare THEN [same EXCEPT !.answer = pmp(vpn, ctx, kind)]
          ELSE IF ~is_sv39_canonical(vpn) THEN [same EXCEPT !.answer = PageFault]
          ELSE IF hits(e, kind) THEN [synced EXCEPT !.answer = ans]
          ELSE IF leaf = NoMap THEN [synced EXCEPT !.answer = PageFault]
          ELSE IF done \in {PageFault, AccessFault} THEN [synced EXCEPT !.answer = done]
          ELSE [answer |-> done, tables |-> us, tlb |-> tl]
  BY Zenon, <1>2 DEF translate_with_pmp, Hit, Leaf, Done, Changed
<1> DEFINE A == pmp(vpn, ctx, kind)
           S == sync_satp(tlb)
<1> HIDE DEF r, synced, e, leaf, done, us, tl, ans, A, S
<1>4. ASSUME NEW x PROVE [same EXCEPT !.answer = x] = [answer |-> x, tables |-> tables, tlb |-> tlb]
  OBVIOUS
<1>5. ASSUME NEW x PROVE [synced EXCEPT !.answer = x] = [answer |-> x, tables |-> tables, tlb |-> S]
  <2>1. synced = [answer |-> vpn, tables |-> tables, tlb |-> S]
    BY <1>1 DEF S
  <2> QED BY <2>1
<1> HIDE DEF same
<1>6. same.tables = tables /\ same.tlb = tlb
  BY DEF same
<1>7. CASE ctx.priv = "M" \/ satp = Bare \/ ~is_sv39_canonical(vpn)
  <2>1. r = same \/ r = [answer |-> A, tables |-> tables, tlb |-> tlb]
        \/ r = [answer |-> PageFault, tables |-> tables, tlb |-> tlb]
    BY Zenon, <1>3, <1>4, <1>7 DEF A
  <2>2. r.tables = tables /\ r.tlb = tlb
    BY <1>6, <2>1
  <2> QED BY Zenon, <1>7, <2>2 DEF r
<1>8. CASE ctx.priv # "M" /\ satp # Bare /\ is_sv39_canonical(vpn)
  <2>1. CASE hits(e, kind)
    <3>1. r = [answer |-> ans, tables |-> tables, tlb |-> S]
      BY Zenon, <1>3, <1>5, <1>8, <2>1
    <3>2. r.answer = ans /\ r.tables = tables /\ r.tlb = S
      BY <3>1
    <3> QED BY Zenon, <1>8, <2>1, <3>2 DEF r, e, ans, S
  <2>2. CASE ~hits(e, kind) /\ leaf = NoMap
    <3>1. r = [answer |-> PageFault, tables |-> tables, tlb |-> S]
      BY Zenon, <1>3, <1>5, <1>8, <2>2
    <3>2. r.answer = PageFault /\ r.tables = tables /\ r.tlb = S
      BY <3>1
    <3> QED BY Zenon, <1>8, <2>2, <3>2 DEF r, e, leaf, S
  <2>3. CASE ~hits(e, kind) /\ leaf # NoMap /\ done \in {PageFault, AccessFault}
    <3>1. r = [answer |-> done, tables |-> tables, tlb |-> S]
      BY Zenon, <1>3, <1>5, <1>8, <2>3
    <3>2. r.answer = done /\ r.tables = tables /\ r.tlb = S
      BY <3>1
    <3> QED BY Zenon, <1>8, <2>3, <3>2 DEF r, e, leaf, S, done
  <2>4. CASE ~hits(e, kind) /\ leaf # NoMap /\ done \notin {PageFault, AccessFault}
    <3>1. r = [answer |-> done, tables |-> us, tlb |-> tl]
      BY Zenon, <1>3, <1>8, <2>4
    <3>2. r.answer = done /\ r.tables = us /\ r.tlb = tl
      BY <3>1
    <3> QED BY Zenon, <1>8, <2>4, <3>2 DEF r, e, leaf, done, us, tl
  <2> QED BY Zenon, <2>1, <2>2, <2>3, <2>4
<1> QED BY Zenon, <1>7, <1>8


LEMMA NewEntry ==
  ASSUME NEW vpn \in Vpns, NEW pte \in PageTableEntry, NEW level \in 0..(LEVELS - 1), NEW e,
         e = [vpn |-> vpn, pte |-> pte, level |-> level]
  PROVE  e \in EntryType /\ e # NoMap /\ e.vpn = vpn /\ e.pte = pte /\ e.level = level
<1>1. e \in EntryType /\ e.vpn = vpn /\ e.pte = pte /\ e.level = level
  BY DEF EntryType
<1>2. "pte" \in DOMAIN e /\ "pte" \notin DOMAIN NoMap
  BY DEF NoMap
<1> QED BY <1>1, <1>2

\* insert writes the one entry of the page's set.
LEMMA InsertIs ==
  ASSUME NEW t \in TlbType, NEW vpn \in Vpns, NEW pte \in PageTableEntry, NEW level \in 0..(LEVELS - 1)
  PROVE  LET q == insert(t, vpn, pte, level)
             k == vpn % TLB_ENTRIES
         IN  /\ q \in TlbType /\ q.satp = t.satp /\ k \in 0..(TLB_ENTRIES - 1)
             /\ q.entries[k] # NoMap /\ q.entries[k] \in EntryType
             /\ q.entries[k].vpn = vpn /\ q.entries[k].pte = pte /\ q.entries[k].level = level
             /\ \A i \in 0..(TLB_ENTRIES - 1) : i # k => q.entries[i] = t.entries[i]
<1> DEFINE q == insert(t, vpn, pte, level)
           k == vpn % TLB_ENTRIES
           e == [vpn |-> vpn, pte |-> pte, level |-> level]
           N == 0..(TLB_ENTRIES - 1)
           E == EntryType \cup {NoMap}
<1>1. k \in N
  <2>1. vpn \in Nat /\ TLB_ENTRIES \in Nat /\ TLB_ENTRIES >= 1
    BY VpnsAre, Constants
  <2> QED BY <2>1
<1>2. e \in EntryType /\ e # NoMap /\ e.vpn = vpn /\ e.pte = pte /\ e.level = level
  BY NewEntry
<1>3. q = [t EXCEPT !.entries[k] = e]
  BY Zenon DEF insert
<1>4. t.entries \in [N -> E] /\ t.satp \in Roots0 /\ t \in [satp : Roots0, entries : [N -> E]]
  BY DEF TlbType
<1>5. e \in E
  BY <1>2
<1> HIDE DEF q, k, e, N, E
<1>6. q \in [satp : Roots0, entries : [N -> E]]
  BY <1>1, <1>3, <1>4, <1>5
<1>7. q.satp = t.satp /\ q.entries[k] = e /\ \A i \in N : i # k => q.entries[i] = t.entries[i]
  BY <1>1, <1>3, <1>4
<1>8. q \in TlbType
  BY Zenon, <1>6 DEF TlbType, N, E
<1> QED BY Zenon, <1>1, <1>2, <1>7, <1>8 DEF q, k, N

\* Marking the leaf of a page keeps what an entry has said.
LEMMA MarkMatches ==
  ASSUME NEW ts \in TablesType, NEW s \in Tables, NEW i \in 0..(Fan - 1), NEW kind, IsLeaf(ts[s][i]),
         NEW us, us = Changed(ts, s, i, marked(ts[s][i], kind)), us \in TablesType,
         NEW root \in Int, NEW e \in EntryType, Matches(ts, root, e)
  PROVE  Matches(us, root, e)
<1> DEFINE w == Walk(ts, root, e.vpn)
           u == Walk(us, root, e.vpn)
<1>0. e.vpn \in Nat /\ e.pte \in PageTableEntry
  BY VpnsAre DEF EntryType
<1>1. w # NoMap /\ w.level = e.level /\ AllButD(e.pte, w.pte) /\ e.pte.a /\ (e.pte.d => w.pte.d)
  BY MatchesIs
<1>2. /\ u # NoMap /\ u.level = w.level
      /\ (u.pte = marked(w.pte, kind) \/ u.pte = w.pte)
  <2>1. /\ u # NoMap /\ u.level = w.level
        /\ w.slot = <<s, i>> => u.pte = marked(w.pte, kind)
        /\ w.slot # <<s, i>> => u.pte = w.pte
    BY <1>0, <1>1, MarkWalk
  <2> QED BY Zenon, <2>1
<1>3. w.pte \in PageTableEntry
  BY <1>0, <1>1, LeafIs
<1> DEFINE p == w.pte
           q == u.pte
           r == e.pte
<1> HIDE DEF w, u
<1>4. AllButD(e.pte, u.pte) /\ (e.pte.d => u.pte.d)
  <2>1. CASE q = p
    BY Zenon, <1>1, <2>1
  <2>2. CASE q = marked(p, kind)
    <3>1. /\ q.a /\ (q.d <=> p.d \/ kind = "store") /\ q \in PageTableEntry
          /\ q.v = p.v /\ q.r = p.r /\ q.w = p.w /\ q.x = p.x /\ q.u = p.u /\ q.ppn = p.ppn
      BY <1>3, <2>2, MarkedIs
    <3>2. r.v = p.v /\ r.r = p.r /\ r.w = p.w /\ r.x = p.x /\ r.u = p.u /\ r.a = p.a /\ r.ppn = p.ppn
      BY Zenon, <1>1 DEF AllButD
    <3>3. q.a \in BOOLEAN /\ r.a \in BOOLEAN
      BY <3>1, <1>0 DEF PageTableEntry
    <3>4. r.a = q.a
      BY <3>1, <3>3, <1>1
    <3> QED BY Zenon, <1>1, <3>1, <3>2, <3>4 DEF AllButD
  <2> QED BY Zenon, <1>2, <2>1, <2>2
<1>5. u # NoMap /\ u.level = e.level
  BY Zenon, <1>1, <1>2
<1> QED BY <1>1, <1>4, <1>5, MatchesIs DEF u


\* A walk that ends well marks its leaf and fills the TLB: both stay coherent.
LEMMA MarkKeeps ==
  ASSUME IInv, satp \in Roots, NEW vpn \in Vpns, NEW kind, Leaf(vpn) # NoMap,
         NEW us, us = Changed(tables, Leaf(vpn).slot[1], Leaf(vpn).slot[2], marked(Leaf(vpn).pte, kind)),
         NEW q, q = insert(sync_satp(tlb), vpn, marked(Leaf(vpn).pte, kind), Leaf(vpn).level)
  PROVE  /\ us \in TablesType /\ q \in TlbType /\ BareIsEmpty(q) /\ CoherentIn(us, q, changed)
         /\ Walk(us, satp, vpn).pte = marked(Leaf(vpn).pte, kind)
<1> DEFINE w == Leaf(vpn)
           s == w.slot[1]
           i == w.slot[2]
           new == marked(w.pte, kind)
           t == sync_satp(tlb)
           k == vpn % TLB_ENTRIES
<1>1. tables \in TablesType /\ satp \in Roots0 /\ tlb \in TlbType /\ BareIsEmpty(tlb) /\ CoherentIn(tables, tlb, changed)
  BY Zenon DEF IInv, TypeInv
<1>2. satp \in Int /\ satp # Bare /\ vpn \in Nat
  BY RootsAre, VpnsAre
<1>3. w = Walk(tables, satp, vpn)
  BY Zenon DEF Leaf
<1>4. t \in TlbType /\ t.satp = satp /\ CoherentIn(tables, t, changed)
  BY Zenon, <1>1, SyncIs
<1> HIDE DEF w, t
<1>5. /\ w.level \in 0..(LEVELS - 1) /\ w.pte \in PageTableEntry /\ s \in Tables /\ i \in 0..(Fan - 1)
      /\ w.pte = tables[s][i] /\ w.pte.v /\ (w.pte.r \/ w.pte.x) /\ w # NoMap
      /\ w.slot = <<s, i>>
  <2>1. w # NoMap
    BY DEF w
  <2>2. /\ w.level \in 0..(LEVELS - 1) /\ w.pte \in PageTableEntry /\ s \in Tables /\ i \in 0..(Fan - 1)
        /\ w.pte = tables[s][i] /\ w.pte.v /\ (w.pte.r \/ w.pte.x)
    BY <1>1, <1>2, <1>3, <2>1, LeafIs
  <2>3. /\ w.slot = <<CurrentPpn(tables, satp, vpn)[w.level], index(vpn, w.level)>>
        /\ s = CurrentPpn(tables, satp, vpn)[w.level] /\ i = index(vpn, w.level)
    BY <1>1, <1>2, <1>3, <2>1, LeafIs
  <2> QED BY Zenon, <2>1, <2>2, <2>3
<1>6. IsLeaf(tables[s][i]) /\ us = Changed(tables, s, i, marked(tables[s][i], kind))
  BY Zenon, <1>5 DEF IsLeaf, w
<1>7. new \in PageTableEntry /\ new.a
  BY <1>5, MarkedIs
<1>8. us \in TablesType
  <2> HIDE DEF s, i
  <2>1. us = Changed(tables, s, i, new)
    BY Zenon, <1>5, <1>6
  <2> HIDE DEF new
  <2> QED BY <1>1, <1>5, <1>7, <2>1, ChangedIs
<1>9. Walk(us, satp, vpn) # NoMap /\ Walk(us, satp, vpn).level = w.level /\ Walk(us, satp, vpn).pte = new
  <2> HIDE DEF s, i
  <2>1. /\ Walk(us, satp, vpn) # NoMap /\ Walk(us, satp, vpn).level = w.level
        /\ w.slot = <<s, i>> => Walk(us, satp, vpn).pte = marked(w.pte, kind)
    <3>1. w # NoMap /\ s \in Tables /\ i \in 0..(Fan - 1)
      BY <1>5
    <3> QED BY <1>1, <1>2, <1>3, <1>6, <3>1, MarkWalk
  <2> QED BY Zenon, <1>5, <2>1
<1>10. q = insert(t, vpn, new, w.level)
  BY Zenon DEF w, t
<1> HIDE DEF new, s, i
<1>11. /\ q \in TlbType /\ q.satp = t.satp /\ k \in 0..(TLB_ENTRIES - 1)
       /\ q.entries[k] # NoMap /\ q.entries[k] \in EntryType
       /\ q.entries[k].vpn = vpn /\ q.entries[k].pte = new /\ q.entries[k].level = w.level
       /\ \A j \in 0..(TLB_ENTRIES - 1) : j # k => q.entries[j] = t.entries[j]
  BY <1>4, <1>5, <1>7, <1>10, InsertIs
<1> HIDE DEF k
<1>12. BareIsEmpty(q)
  BY Zenon, <1>2, <1>4, <1>11 DEF BareIsEmpty
<1>13. Matches(us, satp, q.entries[k])
  <2> DEFINE e == q.entries[k]
  <2>1. AllButD(new, new)
    BY DEF AllButD
  <2>2. e \in EntryType /\ e.vpn = vpn /\ e.pte = new /\ e.level = w.level
    BY <1>11
  <2> HIDE DEF e
  <2> QED BY <1>2, <1>7, <1>8, <1>9, <2>1, <2>2, MatchesIs DEF e
<1>14. CoherentIn(us, q, changed)
  <2>1. DOMAIN q.entries = 0..(TLB_ENTRIES - 1) /\ DOMAIN t.entries = 0..(TLB_ENTRIES - 1)
        /\ \A j \in 0..(TLB_ENTRIES - 1) : t.entries[j] # NoMap => t.entries[j] \in EntryType
    BY <1>4, <1>11, TlbIs
  <2> SUFFICES ASSUME NEW j \in 0..(TLB_ENTRIES - 1), q.entries[j] # NoMap, <<q.satp, q.entries[j].vpn>> \notin changed
               PROVE  Matches(us, q.satp, q.entries[j])
    BY Zenon, <2>1 DEF CoherentIn
  <2>2. CASE j = k
    BY Zenon, <1>4, <1>11, <1>13, <2>2
  <2>3. CASE j # k
    <3>1. q.entries[j] = t.entries[j] /\ t.entries[j] \in EntryType /\ t.entries[j] # NoMap
      BY Zenon, <1>11, <2>1, <2>3
    <3>2. Matches(tables, t.satp, t.entries[j])
      BY Zenon, <1>4, <1>11, <2>1, <3>1 DEF CoherentIn
    <3>3. Matches(us, satp, t.entries[j])
      BY <1>1, <1>2, <1>4, <1>5, <1>6, <1>8, <3>1, <3>2, MarkMatches
    <3> QED BY Zenon, <1>4, <1>11, <3>1, <3>3
  <2> QED BY Zenon, <2>2, <2>3
<1> QED BY Zenon, <1>8, <1>9, <1>11, <1>12, <1>14 DEF w, new


-----------------------------------------------------------------------------
(* The steps.                                                               *)

\* The address is canonical and translated: the root is a table, the page one
\* of the address space.
LEMMA AccessKeeps ==
  ASSUME IInv, NEW vpn, NEW ctx, NEW kind, Access(vpn, ctx, kind)
  PROVE  IInv'
<1> DEFINE r == translate_with_pmp(vpn, ctx, kind)
<1>1. tables \in TablesType /\ satp \in Roots0 /\ tlb \in TlbType /\ BareIsEmpty(tlb) /\ CoherentIn(tables, tlb, changed)
  BY Zenon DEF IInv, TypeInv
<1>2. tables' = r.tables /\ tlb' = r.tlb /\ satp' = satp /\ changed' = changed
  BY Zenon DEF Access
<1>3. r.tables \in TablesType /\ r.tlb \in TlbType /\ BareIsEmpty(r.tlb) /\ CoherentIn(r.tables, r.tlb, changed)
  <2> DEFINE t == sync_satp(tlb)
  <2>1. t \in TlbType /\ CoherentIn(tables, t, changed) /\ BareIsEmpty(t)
    BY Zenon, <1>1, SyncIs
  <2>2. \/ r.tables = tables /\ r.tlb = tlb
        \/ r.tables = tables /\ r.tlb = t
        \/ /\ satp # Bare /\ is_sv39_canonical(vpn) /\ Leaf(vpn) # NoMap
           /\ r.tables = Changed(tables, Leaf(vpn).slot[1], Leaf(vpn).slot[2], marked(Leaf(vpn).pte, kind))
           /\ r.tlb = insert(t, vpn, marked(Leaf(vpn).pte, kind), Leaf(vpn).level)
    BY Zenon, TranslateIs
  <2>3. CASE /\ satp # Bare /\ is_sv39_canonical(vpn) /\ Leaf(vpn) # NoMap
             /\ r.tables = Changed(tables, Leaf(vpn).slot[1], Leaf(vpn).slot[2], marked(Leaf(vpn).pte, kind))
             /\ r.tlb = insert(t, vpn, marked(Leaf(vpn).pte, kind), Leaf(vpn).level)
    <3>1. satp \in Roots /\ vpn \in Vpns
      BY Zenon, <1>1, <2>3, RootsAre DEF is_sv39_canonical
    <3> HIDE DEF r
    <3> QED BY Zenon, <2>3, <3>1, MarkKeeps
  <2> HIDE DEF r, t
  <2> QED BY Zenon, <1>1, <2>1, <2>2, <2>3
<1> HIDE DEF r
<1>4. tables' \in TablesType /\ satp' \in Roots0 /\ tlb' \in TlbType /\ BareIsEmpty(tlb')
      /\ CoherentIn(tables', tlb', changed')
  BY Zenon, <1>1, <1>2, <1>3
<1> QED BY Zenon, <1>4 DEF IInv, TypeInv, BareIsEmpty, CoherentIn

\* The kernel writes an entry of a table: the pages whose walk reads it are
\* out of date until the next fence, the others keep their walk.
LEMMA WritePteKeeps ==
  ASSUME IInv, NEW slot \in Slots, NEW pte \in Written, WritePte(slot, pte)
  PROVE  IInv'
<1> DEFINE s == slot[1]
           i == slot[2]
           ch == changed \cup Through(slot, tables)
           us == Changed(tables, s, i, pte)
<1>1. tables \in TablesType /\ satp \in Roots0 /\ tlb \in TlbType /\ BareIsEmpty(tlb) /\ CoherentIn(tables, tlb, changed)
  BY Zenon DEF IInv, TypeInv
<1>2. tables' = us /\ tlb' = tlb /\ satp' = satp /\ changed' = ch
  BY Zenon DEF WritePte, Changed
<1>3. s \in Tables /\ i \in 0..(Fan - 1) /\ slot = <<s, i>>
  <2>1. slot \in Tables \X (0..(Fan - 1))
    BY MmuAssumption
  <2> QED BY <2>1
<1>4. pte \in PageTableEntry
  BY MmuAssumption
<1> HIDE DEF s, i
<1>5. us \in TablesType
  BY <1>1, <1>3, <1>4, ChangedIs
<1>6. CoherentIn(us, tlb, ch)
  <2>1. DOMAIN tlb.entries = 0..(TLB_ENTRIES - 1) /\ tlb.satp \in Roots0
        /\ \A j \in 0..(TLB_ENTRIES - 1) : tlb.entries[j] # NoMap => tlb.entries[j] \in EntryType
    BY <1>1, TlbIs
  <2> SUFFICES ASSUME NEW j \in 0..(TLB_ENTRIES - 1), tlb.entries[j] # NoMap, <<tlb.satp, tlb.entries[j].vpn>> \notin ch
               PROVE  Matches(us, tlb.satp, tlb.entries[j])
    BY Zenon, <2>1 DEF CoherentIn
  <2> DEFINE e == tlb.entries[j]
             root == tlb.satp
  <2>2. Matches(tables, root, e)
    BY Zenon, <1>1, <2>1 DEF CoherentIn
  <2>3. root \in Roots
    BY Zenon, <1>1, <2>1, RootsAre DEF BareIsEmpty
  <2>4. e \in EntryType
    BY <2>1
  <2>5. <<root, e.vpn>> \notin Through(slot, tables)
    BY Zenon
  <2> HIDE DEF e, root
  <2>6. e.vpn \in Vpns /\ e.vpn \in Nat /\ root \in Int
    BY <2>3, <2>4, RootsAre, VpnsAre DEF EntryType
  <2>7. <<s, i>> \notin Path(tables, root, e.vpn)
    <3> DEFINE p == <<root, e.vpn>>
    <3>1. p \in Roots \X Vpns /\ p[1] = root /\ p[2] = e.vpn
      BY <2>3, <2>6
    <3> HIDE DEF p
    <3>2. p \notin Through(slot, tables)
      BY <2>5 DEF p
    <3> QED BY Zenon, <1>3, <3>1, <3>2 DEF Through
  <2> HIDE DEF us
  <2>8. Walk(us, root, e.vpn) = Walk(tables, root, e.vpn)
    <3>1. us = Changed(tables, s, i, pte)
      BY DEF us
    <3> QED BY <1>1, <1>3, <1>4, <2>6, <2>7, <3>1, OtherWalk
  <2>9. Matches(us, root, e)
    BY Zenon, <2>2, <2>8 DEF Matches
  <2> QED BY Zenon, <2>9 DEF e, root
<1> HIDE DEF us, ch
<1>7. tables' \in TablesType /\ satp' \in Roots0 /\ tlb' \in TlbType /\ BareIsEmpty(tlb')
      /\ CoherentIn(tables', tlb', changed')
  BY Zenon, <1>1, <1>2, <1>5, <1>6
<1> QED BY Zenon, <1>7 DEF IInv, TypeInv, BareIsEmpty, CoherentIn

\* sfence.vma empties the TLB.
LEMMA SfenceKeeps ==
  ASSUME IInv, Sfence
  PROVE  IInv'
<1> DEFINE t == [tlb EXCEPT !.entries = flushed(@)]
           N == 0..(TLB_ENTRIES - 1)
           f == [j \in N |-> NoMap]
<1>1. tables \in TablesType /\ satp \in Roots0 /\ tlb \in TlbType
  BY Zenon DEF IInv, TypeInv
<1>2. tables' = tables /\ tlb' = t /\ satp' = satp
  BY Zenon DEF Sfence
<1>3. DOMAIN tlb.entries = N
  BY <1>1, TlbIs
<1>4. flushed(tlb.entries) = f
  BY Zenon, <1>3 DEF flushed
<1>5. f \in [N -> EntryType \cup {NoMap}] /\ DOMAIN f = N /\ \A j \in N : f[j] = NoMap
  OBVIOUS
<1>6. t = [tlb EXCEPT !.entries = f]
  BY Zenon, <1>4
<1> HIDE DEF t, f, N
<1>7. t \in TlbType /\ t.entries = f
  <2>1. tlb \in [satp : Roots0, entries : [N -> EntryType \cup {NoMap}]]
    BY <1>1 DEF TlbType, N
  <2>2. t \in [satp : Roots0, entries : [N -> EntryType \cup {NoMap}]] /\ t.entries = f
    BY <1>5, <1>6, <2>1
  <2> QED BY Zenon, <2>2 DEF TlbType, N
<1>8. CoherentIn(tables', t, changed') /\ BareIsEmpty(t)
  BY Zenon, <1>5, <1>7 DEF CoherentIn, BareIsEmpty, N
<1>9. tables' \in TablesType /\ satp' \in Roots0 /\ tlb' \in TlbType /\ BareIsEmpty(tlb')
      /\ CoherentIn(tables', tlb', changed')
  BY Zenon, <1>1, <1>2, <1>7, <1>8
<1> QED BY Zenon, <1>9 DEF IInv, TypeInv, BareIsEmpty, CoherentIn

LEMMA InitInv == Init => IInv
<1> SUFFICES ASSUME Init PROVE IInv
  OBVIOUS
<1> DEFINE N == 0..(TLB_ENTRIES - 1)
           f == [j \in N |-> NoMap]
<1>1. tables \in TablesType
  <2>1. Invalid \in PageTableEntry
    BY DEF Invalid, PageTableEntry
  <2> QED BY <2>1 DEF Init, TablesType
<1>2. satp \in Roots0
  BY DEF Init, Roots0
<1>3. f \in [N -> EntryType \cup {NoMap}] /\ DOMAIN f = N /\ \A j \in N : f[j] = NoMap
  OBVIOUS
<1>4. tlb = [satp |-> Bare, entries |-> f]
  BY Zenon DEF Init
<1> HIDE DEF f
<1>5. tlb \in TlbType /\ tlb.entries = f
  BY <1>3, <1>4 DEF TlbType, Roots0
<1>6. CoherentIn(tables, tlb, changed) /\ BareIsEmpty(tlb)
  BY Zenon, <1>3, <1>5 DEF CoherentIn, BareIsEmpty
<1> QED BY Zenon, <1>1, <1>2, <1>5, <1>6 DEF IInv, TypeInv

LEMMA NextKeeps == IInv /\ [Next]_vars => IInv'
<1> SUFFICES ASSUME IInv, [Next]_vars PROVE IInv'
  OBVIOUS
<1>1. ASSUME NEW root \in Roots \cup {Bare}, WriteSatp(root) PROVE IInv'
  BY Zenon, <1>1 DEF WriteSatp, IInv, TypeInv, Roots0, BareIsEmpty, CoherentIn
<1>2. CASE UNCHANGED vars
  BY Zenon, <1>2 DEF vars, IInv, TypeInv, BareIsEmpty, CoherentIn
<1> QED BY Zenon, <1>1, <1>2, AccessKeeps, WritePteKeeps, SfenceKeeps DEF Next

LEMMA SpecInv == Spec => []IInv
BY InitInv, NextKeeps, PTL DEF Spec

\* For every number of levels, fan-out, TLB and set of entries the kernel
\* writes: what the TLB holds is the leaf the tables hold, for every page the
\* kernel owes no fence for.
THEOREM MmuCoherent == Spec => []Coherent
<1>1. IInv => Coherent
  BY Zenon, CoherentIs DEF IInv
<1> QED BY <1>1, SpecInv, PTL


-----------------------------------------------------------------------------
(* What translation answers.                                                *)

\* finalize_leaf does not read the D bit.
LEMMA SameAnswer ==
  ASSUME NEW p, NEW q, AllButD(p, q), NEW level, NEW vpn, NEW ctx, NEW kind
  PROVE  finalize_leaf(p, level, vpn, ctx, kind) = finalize_leaf(q, level, vpn, ctx, kind)
<1>1. p.r = q.r /\ p.w = q.w /\ p.x = q.x /\ p.u = q.u /\ p.ppn = q.ppn
  BY Zenon DEF AllButD
<1>2. phys(p, level, vpn) = phys(q, level, vpn)
  BY Zenon, <1>1 DEF phys
<1>3. allowed(p, level, ctx, kind) <=> allowed(q, level, ctx, kind)
  BY Zenon, <1>1 DEF allowed
<1> QED BY Zenon, <1>2, <1>3 DEF finalize_leaf

LEMMA SettledIs ==
  ASSUME IInv, NEW vpn \in Settled
  PROVE  /\ satp \in Roots /\ satp # Bare /\ satp \in Int /\ vpn \in Vpns /\ vpn \in Nat
         /\ is_sv39_canonical(vpn) /\ <<satp, vpn>> \notin changed
<1>1. vpn \in Vpns /\ satp # Bare /\ <<satp, vpn>> \notin changed
  BY Zenon DEF Settled
<1>2. satp \in Roots0
  BY Zenon DEF IInv, TypeInv
<1> QED BY <1>1, <1>2, RootsAre, VpnsAre DEF is_sv39_canonical

\* What a hit finds, when the kernel owes no fence for the page.
LEMMA HitIs ==
  ASSUME IInv, NEW vpn \in Settled, Hit(vpn) # NoMap
  PROVE  LET e == Hit(vpn)
             w == Leaf(vpn)
         IN  w # NoMap /\ w.level = e.level /\ AllButD(e.pte, w.pte) /\ e.pte.a /\ (e.pte.d => w.pte.d)
<1> DEFINE e == Hit(vpn)
           t == sync_satp(tlb)
           k == vpn % TLB_ENTRIES
<1>1. tables \in TablesType /\ satp \in Roots0 /\ tlb \in TlbType /\ BareIsEmpty(tlb) /\ CoherentIn(tables, tlb, changed)
  BY Zenon DEF IInv, TypeInv
<1>2. satp \in Int /\ vpn \in Nat /\ <<satp, vpn>> \notin changed
  BY SettledIs
<1>3. t \in TlbType /\ t.satp = satp /\ CoherentIn(tables, t, changed)
  BY Zenon, <1>1, SyncIs
<1>4. e = t.entries[k] /\ e # NoMap /\ e.vpn = vpn
  BY Zenon DEF Hit, lookup
<1>5. k \in 0..(TLB_ENTRIES - 1)
  <2>1. TLB_ENTRIES \in Nat /\ TLB_ENTRIES >= 1
    BY Constants
  <2> QED BY <1>2, <2>1
<1> HIDE DEF e, t, k
<1>6. DOMAIN t.entries = 0..(TLB_ENTRIES - 1) /\ e \in EntryType
  BY <1>3, <1>4, <1>5, TlbIs
<1>7. Matches(tables, satp, e)
  BY Zenon, <1>2, <1>3, <1>4, <1>5, <1>6 DEF CoherentIn
<1>8. Leaf(vpn) = Walk(tables, satp, e.vpn)
  BY Zenon, <1>4 DEF Leaf
<1> QED BY <1>1, <1>2, <1>6, <1>7, <1>8, MatchesIs DEF e

\* The two ways a translation of a settled page ends.
LEMMA AnswerIs ==
  ASSUME IInv, NEW vpn \in Settled, NEW ctx \in Translated, NEW kind
  PROVE  LET r == translate_with_pmp(vpn, ctx, kind)
         IN  /\ r.answer = IF Leaf(vpn) = NoMap THEN PageFault ELSE Done(vpn, ctx, kind)
             /\ r.answer \notin {PageFault, AccessFault} =>
                  /\ Leaf(vpn) # NoMap /\ Leaf(vpn).pte \in PageTableEntry
                  /\ \/ /\ Leaf(vpn).pte.a /\ (kind = "store" => Leaf(vpn).pte.d)
                        /\ r.tables = tables
                     \/ Walk(r.tables, satp, vpn).pte = marked(Leaf(vpn).pte, kind)
<1> DEFINE r == translate_with_pmp(vpn, ctx, kind)
           e == Hit(vpn)
           w == Leaf(vpn)
           ans == finalize_leaf(e.pte, e.level, vpn, ctx, kind)
           done == Done(vpn, ctx, kind)
           us == Changed(tables, Leaf(vpn).slot[1], Leaf(vpn).slot[2], marked(Leaf(vpn).pte, kind))
           q == insert(sync_satp(tlb), vpn, marked(Leaf(vpn).pte, kind), Leaf(vpn).level)
<1>1. satp \in Roots /\ satp # Bare /\ satp \in Int /\ vpn \in Vpns /\ vpn \in Nat /\ is_sv39_canonical(vpn)
  BY SettledIs
<1>2. ctx.priv # "M" /\ tables \in TablesType
  BY Zenon DEF Translated, IInv, TypeInv
<1>3. \/ hits(e, kind) /\ r.tables = tables /\ r.answer = ans
      \/ w = NoMap /\ r.answer = PageFault
      \/ w # NoMap /\ done \in {PageFault, AccessFault} /\ r.answer = done
      \/ w # NoMap /\ r.tables = us /\ r.answer = done
  BY Zenon, <1>1, <1>2, TranslateIs
<1>4. w # NoMap => w.pte \in PageTableEntry
  BY <1>1, <1>2, LeafIs DEF Leaf
<1>5. w # NoMap => Walk(us, satp, vpn).pte = marked(w.pte, kind)
  <2> SUFFICES ASSUME w # NoMap PROVE Walk(us, satp, vpn).pte = marked(w.pte, kind)
    OBVIOUS
  <2> HIDE DEF us, q
  <2>1. us = Changed(tables, Leaf(vpn).slot[1], Leaf(vpn).slot[2], marked(Leaf(vpn).pte, kind))
        /\ q = insert(sync_satp(tlb), vpn, marked(Leaf(vpn).pte, kind), Leaf(vpn).level)
    BY DEF us, q
  <2> QED BY <1>1, <2>1, MarkKeeps
<1>6. ASSUME hits(e, kind)
      PROVE  w # NoMap /\ ans = done /\ w.pte.a /\ (kind = "store" => w.pte.d)
  <2>1. e # NoMap /\ (kind = "store" => e.pte.d)
    BY Zenon, <1>6 DEF hits
  <2>2. w # NoMap /\ w.level = e.level /\ AllButD(e.pte, w.pte) /\ e.pte.a /\ (e.pte.d => w.pte.d)
    BY Zenon, <2>1, HitIs
  <2>3. finalize_leaf(e.pte, e.level, vpn, ctx, kind) = finalize_leaf(w.pte, e.level, vpn, ctx, kind)
    <3>1. AllButD(e.pte, w.pte)
      BY <2>2
    <3> QED BY <3>1, SameAnswer
  <2>4. w.pte.a
    <3>1. e.pte.a = w.pte.a
      BY Zenon, <2>2 DEF AllButD
    <3> QED BY <2>2, <3>1
  <2> QED BY Zenon, <2>1, <2>2, <2>3, <2>4 DEF Done
<1> HIDE DEF r, e, w, ans, done, us, q
<1>7. PageFault \in {PageFault, AccessFault}
  OBVIOUS
<1>8. r.answer = IF w = NoMap THEN PageFault ELSE done
  BY Zenon, <1>3, <1>6
<1>9. ASSUME r.answer \notin {PageFault, AccessFault}
      PROVE  /\ w # NoMap /\ w.pte \in PageTableEntry
             /\ \/ w.pte.a /\ (kind = "store" => w.pte.d) /\ r.tables = tables
                \/ Walk(r.tables, satp, vpn).pte = marked(w.pte, kind)
  <2>1. CASE hits(e, kind) /\ r.tables = tables /\ r.answer = ans
    BY Zenon, <1>4, <1>6, <2>1
  <2>2. CASE w # NoMap /\ r.tables = us /\ r.answer = done
    BY Zenon, <1>4, <1>5, <2>2
  <2> QED BY Zenon, <1>3, <1>7, <1>9, <2>1, <2>2
<1> QED BY Zenon, <1>8, <1>9 DEF r, w, done

\* For every number of levels, fan-out, TLB and set of entries the kernel
\* writes: translation through the TLB answers what a walk alone would, for
\* every page the kernel owes no fence for.
THEOREM MmuAnswersFresh == Spec => []AnswersFresh
<1>1. IInv => AnswersFresh
  <2> SUFFICES ASSUME IInv, NEW vpn \in Settled, NEW ctx \in Translated, NEW kind \in Kinds
               PROVE  LET leaf == Walk(tables, satp, vpn)
                      IN  translate_with_pmp(vpn, ctx, kind).answer =
                            IF leaf = NoMap THEN PageFault
                            ELSE finalize_leaf(leaf.pte, leaf.level, vpn, ctx, kind)
    BY Zenon DEF AnswersFresh
  <2>1. translate_with_pmp(vpn, ctx, kind).answer =
          IF Leaf(vpn) = NoMap THEN PageFault ELSE Done(vpn, ctx, kind)
    BY Zenon, AnswerIs
  <2> QED BY Zenon, <2>1 DEF Leaf, Done
<1> QED BY <1>1, SpecInv, PTL

\* A translation that succeeds, by a walk or by a hit, leaves the leaf in
\* memory accessed, and dirty after a store.
THEOREM MmuLeavesMarks == Spec => []LeavesMarks
<1>1. IInv => LeavesMarks
  <2> SUFFICES ASSUME IInv, NEW vpn \in Settled, NEW ctx \in Translated, NEW kind \in Kinds,
                      translate_with_pmp(vpn, ctx, kind).answer \notin {PageFault, AccessFault}
               PROVE  LET pte == Walk(translate_with_pmp(vpn, ctx, kind).tables, satp, vpn).pte
                      IN  pte.a /\ (kind = "store" => pte.d)
    BY Zenon DEF LeavesMarks
  <2> DEFINE r == translate_with_pmp(vpn, ctx, kind)
             pte == Walk(r.tables, satp, vpn).pte
             w == Leaf(vpn)
  <2>1. /\ w # NoMap /\ w.pte \in PageTableEntry
        /\ \/ w.pte.a /\ (kind = "store" => w.pte.d) /\ r.tables = tables
           \/ pte = marked(w.pte, kind)
    BY Zenon, AnswerIs
  <2>2. CASE w.pte.a /\ (kind = "store" => w.pte.d) /\ r.tables = tables
    BY Zenon, <2>2 DEF Leaf
  <2>3. CASE pte = marked(w.pte, kind)
    <3>1. marked(w.pte, kind).a /\ (marked(w.pte, kind).d <=> w.pte.d \/ kind = "store")
      BY <2>1, MarkedIs
    <3> QED BY Zenon, <2>3, <3>1
  <2> QED BY Zenon, <2>1, <2>2, <2>3
<1> QED BY <1>1, SpecInv, PTL

\* Where the program finds a page at all, the debugger's walk finds the same
\* frame.
THEOREM MmuDebugAgrees == Spec => []DebugAgrees
<1>1. IInv => DebugAgrees
  <2> SUFFICES ASSUME IInv, NEW vpn \in Settled, NEW ctx \in Translated, NEW kind \in Kinds
               PROVE  translate_with_pmp(vpn, ctx, kind).answer \in {PageFault, AccessFault, debug_walk_sv39(vpn)}
    BY Zenon DEF DebugAgrees
  <2> DEFINE w == Leaf(vpn)
             p == Span[w.level]
             n == w.pte.ppn
             done == Done(vpn, ctx, kind)
  <2>1. translate_with_pmp(vpn, ctx, kind).answer = IF w = NoMap THEN PageFault ELSE done
    BY Zenon, AnswerIs
  <2>2. CASE w = NoMap
    BY <2>1, <2>2
  <2>3. CASE w # NoMap
    <3>1. satp \in Int /\ vpn \in Nat
      BY SettledIs
    <3>2. tables \in TablesType
      BY Zenon DEF IInv, TypeInv
    <3>3. w.level \in 0..(LEVELS - 1) /\ w.pte \in PageTableEntry
      BY <2>3, <3>1, <3>2, LeafIs DEF Leaf
    <3>4. p \in Nat /\ p >= 1
      <4>1. w.level \in 0..LEVELS
        BY <3>3, Constants
      <4> QED BY <4>1, SpanIs
    <3>5. n \in Nat
      BY <3>3 DEF PageTableEntry
    <3>6. CASE ~allowed(w.pte, w.level, ctx, kind)
      <4>1. done = PageFault
        BY Zenon, <3>6 DEF Done, finalize_leaf
      <4> HIDE DEF done
      <4> QED BY <2>1, <2>3, <4>1
    <3>7. CASE allowed(w.pte, w.level, ctx, kind)
      <4>1. done = pmp(phys(w.pte, w.level, vpn), ctx, kind)
        BY Zenon, <3>7 DEF Done, finalize_leaf
      <4>2. done = AccessFault \/ done = phys(w.pte, w.level, vpn)
        BY Zenon, <4>1 DEF pmp
      <4>3. phys(w.pte, w.level, vpn) = ((n \div p) * p) + (vpn % p)
        BY Zenon DEF phys
      <4>4. n % p = 0
        BY Zenon, <3>7 DEF allowed
      <4>5. debug_walk_sv39(vpn) = n + (vpn % p)
        BY Zenon, <2>3, <4>4 DEF debug_walk_sv39, Leaf
      <4> HIDE DEF done, n, p, w
      <4>6. (n \div p) * p = n
        BY <3>4, <3>5, <4>4
      <4> QED BY <2>1, <2>3, <4>2, <4>3, <4>5, <4>6
    <3> QED BY Zenon, <3>6, <3>7
  <2> QED BY Zenon, <2>2, <2>3
<1> QED BY <1>1, SpecInv, PTL
=============================================================================
