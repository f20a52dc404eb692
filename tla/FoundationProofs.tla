-------------------------- MODULE FoundationProofs --------------------------
(* What the proofs of all modules rest on.  The counting rules of Quorums:  *)
(* which certificates share a member, and how many they share, for every    *)
(* finite set of members.  Induction over the naturals, by least members.   *)
(* Sums over finite sets: SumFunction of the community modules is a fold,   *)
(* a recursive function over subsets that takes out a member of its own     *)
(* choice; that there is such a function, and that any member may be taken  *)
(* out first, is shown by induction on the size of the set.                 *)
EXTENDS Quorums, Integers, Functions, SequencesExt, FiniteSetTheorems,
        SequenceTheorems, WellFoundedInduction, TLAPS

\* Two finite sets inside a third share the members that do not fit.
LEMMA OverlapCount ==
  ASSUME NEW members, IsFiniteSet(members),
         NEW q \in SUBSET members, NEW r \in SUBSET members
  PROVE  /\ IsFiniteSet(q) /\ IsFiniteSet(r) /\ IsFiniteSet(q \cap r)
         /\ Cardinality(members) \in Nat
         /\ Cardinality(q) \in Nat /\ Cardinality(r) \in Nat
         /\ Cardinality(q \cap r) \in Nat
         /\ Cardinality(q) + Cardinality(r) - Cardinality(q \cap r)
              <= Cardinality(members)
<1>1. IsFiniteSet(q) /\ IsFiniteSet(r) /\ IsFiniteSet(q \cap r)
  BY FS_Subset, q \cap r \subseteq members
<1>2. IsFiniteSet(q \cup r) /\ Cardinality(q \cup r) <= Cardinality(members)
  BY FS_Subset, q \cup r \subseteq members
<1>3. Cardinality(q \cup r) = Cardinality(q) + Cardinality(r) - Cardinality(q \cap r)
  BY <1>1, FS_Union
<1> QED
  BY <1>1, <1>2, <1>3, FS_CardinalityType

\* Two sets inside a third that have more members together than it has share
\* a member.
LEMMA Pigeonhole ==
  ASSUME NEW members, IsFiniteSet(members),
         NEW q \in SUBSET members, NEW r \in SUBSET members,
         Cardinality(q) + Cardinality(r) > Cardinality(members)
  PROVE  q \cap r # {}
<1>1. SUFFICES ASSUME q \cap r = {} PROVE FALSE
  OBVIOUS
<1>2. Cardinality(q \cap r) = 0
  BY <1>1, FS_EmptySet
<1>3. /\ Cardinality(members) \in Nat
      /\ Cardinality(q) \in Nat /\ Cardinality(r) \in Nat
      /\ Cardinality(q) + Cardinality(r) - Cardinality(q \cap r) <= Cardinality(members)
  BY OverlapCount, Zenon
<1> QED
  BY <1>2, <1>3

\* Quorum::intersect (membership.rs:126-128): two certificates of one
\* configuration always share a member, so the None arm is unreachable.
THEOREM MajoritiesShare ==
  ASSUME NEW members, IsFiniteSet(members), NEW q, NEW r,
         Certify(members, q), Certify(members, r)
  PROVE  Intersect(q, r)
<1>1. /\ q \in SUBSET members /\ Cardinality(q) >= Cardinality(members) \div 2 + 1
      /\ r \in SUBSET members /\ Cardinality(r) >= Cardinality(members) \div 2 + 1
  BY DEF Certify, Threshold
<1>2. Cardinality(q) + Cardinality(r) > Cardinality(members)
  BY <1>1, OverlapCount
<1> QED
  BY <1>1, <1>2, Pigeonhole DEF Intersect

\* ByzQuorum::intersect (byzantine.rs:267-275): two certificates of one
\* configuration always share at least 2f + 1 members, so the witness is minted.
THEOREM MaskingQuorumsOverlap ==
  ASSUME NEW members, IsFiniteSet(members), NEW f \in Nat, NEW q, NEW r,
         CertifyMasking(members, f, q), CertifyMasking(members, f, r)
  PROVE  MintsOverlap(q, r, f)
<1>1. q \in SUBSET members /\ r \in SUBSET members
  BY DEF CertifyMasking
<1> QED
  BY <1>1, OverlapCount DEF CertifyMasking, MaskingThreshold, MintsOverlap

\* SizedConfig::reconfigure (reconfig_safety.rs:125-144): when the size gate
\* compiles and the member sets are nested, every quorum of the old
\* configuration shares a member with every quorum of the new one.
THEOREM ReconfigurationIntersects ==
  ASSUME NEW old, NEW new, IsFiniteSet(old), IsFiniteSet(new),
         Reconfigurable(old, new), NEW q, NEW r,
         Certify(old, q), Certify(new, r)
  PROVE  q \cap r # {}
<1>1. /\ q \in SUBSET old /\ Cardinality(q) >= Majority(Cardinality(old))
      /\ r \in SUBSET new /\ Cardinality(r) >= Majority(Cardinality(new))
  BY DEF Certify, Threshold, Majority
<1>2. /\ Cardinality(old) \in Nat /\ Cardinality(new) \in Nat
      /\ Cardinality(q) \in Nat /\ Cardinality(r) \in Nat
  BY <1>1, FS_Subset, FS_CardinalityType
<1>3. Majority(Cardinality(old)) \in Nat /\ Majority(Cardinality(new)) \in Nat
  BY <1>2 DEF Majority
<1>4. /\ Cardinality(q) + Cardinality(r) > Cardinality(old)
      /\ Cardinality(q) + Cardinality(r) > Cardinality(new)
  BY <1>1, <1>2, <1>3 DEF Reconfigurable, PreservesIntersection
<1>5. CASE new \subseteq old
  BY <1>1, <1>4, <1>5, Pigeonhole
<1>6. CASE old \subseteq new
  BY <1>1, <1>4, <1>6, Pigeonhole
<1> QED
  BY <1>5, <1>6 DEF Reconfigurable, Nested

\* read_sees_write (flex.rs:145-157): when the size gate compiles, every read
\* quorum shares a node with every write quorum.
THEOREM ReadMeetsWrite ==
  ASSUME NEW n \in Nat, NEW r \in Nat, NEW w \in Nat, FlexGate(n, r, w),
         NEW reads \in SUBSET Nat, NEW writes \in SUBSET Nat,
         CertifySized(n, r, reads), CertifySized(n, w, writes)
  PROVE  reads \cap writes # {}
<1> DEFINE nodes == 0 .. (n - 1)
<1>1. n >= 1 /\ IsFiniteSet(nodes) /\ Cardinality(nodes) = n
  BY FS_Interval, 0 \in Int, n - 1 \in Int DEF CertifySized
<1>2. reads \in SUBSET nodes /\ writes \in SUBSET nodes
  BY DEF CertifySized
<1>3. Cardinality(reads) + Cardinality(writes) > Cardinality(nodes)
  BY <1>1 DEF CertifySized, FlexGate
<1> QED
  BY <1>1, <1>2, <1>3, Pigeonhole

-----------------------------------------------------------------------------
\* The order of the naturals as a set of pairs, which is well-founded.
Less == {p \in Nat \X Nat : p[1] < p[2]}

\* Every set of naturals has a least member.
LEMMA LeastMember ==
  ASSUME NEW T \in SUBSET Nat, T # {}
  PROVE  \E x \in T : \A y \in T : x <= y
<1>1. OpToRel(<, Nat) = Less
  BY DEF OpToRel, Less
<1>2. IsWellFoundedOn(Less, Nat)
  BY <1>1, NatLessThanWellFounded
<1>3. PICK x \in T : \A y \in T : <<y, x>> \notin Less
  BY <1>2, WFMin
<1>4. ASSUME NEW y \in T PROVE x <= y
  <2>1. <<y, x>> \in Nat \X Nat /\ x \in Nat /\ y \in Nat
    OBVIOUS
  <2>2. ~ (y < x)
    BY <1>3, <2>1 DEF Less
  <2> QED
    BY <2>1, <2>2
<1> QED
  BY <1>4

\* Induction: what holds of 0, and of n + 1 when it holds of n, holds of all.
LEMMA Descent ==
  ASSUME NEW T \in SUBSET Nat, 0 \in T, \A n \in T : n + 1 \in T
  PROVE  T = Nat
<1> SUFFICES ASSUME T # Nat PROVE FALSE
  OBVIOUS
<1>1. Nat \ T \in SUBSET Nat /\ Nat \ T # {}
  OBVIOUS
<1>2. PICK x \in Nat \ T : \A y \in Nat \ T : x <= y
  BY <1>1, LeastMember
<1>3. x \in Nat /\ x # 0 /\ x - 1 \in Nat /\ x - 1 < x
  OBVIOUS
<1>4. x - 1 \in T
  BY <1>2, <1>3
<1> QED
  BY <1>2, <1>3, <1>4

-----------------------------------------------------------------------------
Picked(s) == CHOOSE x \in s : TRUE

\* it is the table of the sums of f over the sets of D.
IsTable(it, f, D) ==
  it = [s \in D |-> IF s = {} THEN 0 ELSE f[Picked(s)] + it[s \ {Picked(s)}]]

Table(f, S) == CHOOSE it : IsTable(it, f, SUBSET S)

\* The sum of f over S.
SumOver(f, S) == Table(f, S)[S]

\* SumFunction of the community modules is this sum.
LEMMA SumIsFold ==
  ASSUME NEW f, NEW S
  PROVE  SumFunctionOnSet(f, S) = SumOver(f, S)
BY DEF SumFunctionOnSet, FoldFunctionOnSet, MapThenFoldSet, SumOver, Table, IsTable, Picked

LEMMA SumFunctionIsSum ==
  ASSUME NEW f
  PROVE  SumFunction(f) = SumOver(f, DOMAIN f)
BY SumIsFold DEF SumFunction

\* The subsets of S with at most n members.
UpTo(S, n) == {s \in SUBSET S : Cardinality(s) <= n}

LEMMA PickedIsMember ==
  ASSUME NEW s, s # {}
  PROVE  Picked(s) \in s
BY DEF Picked

LEMMA SmallerByOne ==
  ASSUME NEW S, IsFiniteSet(S), NEW s \in SUBSET S, NEW x \in s
  PROVE  /\ s \ {x} \in SUBSET S /\ IsFiniteSet(s) /\ IsFiniteSet(s \ {x})
         /\ Cardinality(s) \in Nat \ {0} /\ Cardinality(s \ {x}) = Cardinality(s) - 1
<1>1. IsFiniteSet(s)
  BY FS_Subset
<1>2. Cardinality(s) \in Nat /\ Cardinality(s) # 0
  BY <1>1, FS_CardinalityType, FS_EmptySet
<1> QED
  BY <1>1, <1>2, FS_RemoveElement

\* A table grows to the sets that are larger by one.
LEMMA TableGrows ==
  ASSUME NEW S, IsFiniteSet(S), NEW f, \A x \in S : f[x] \in Int, NEW n \in Nat,
         NEW it \in [UpTo(S, n) -> Int], IsTable(it, f, UpTo(S, n))
  PROVE  \E jt \in [UpTo(S, n + 1) -> Int] : IsTable(jt, f, UpTo(S, n + 1))
<1> DEFINE D == UpTo(S, n)
           E == UpTo(S, n + 1)
           jt == [s \in E |-> IF s = {} THEN 0 ELSE f[Picked(s)] + it[s \ {Picked(s)}]]
<1>1. ASSUME NEW s \in E, s # {}
      PROVE  /\ Picked(s) \in S /\ s \ {Picked(s)} \in D /\ s \ {Picked(s)} \in E
  <2>1. Picked(s) \in s /\ s \in SUBSET S
    BY <1>1, PickedIsMember DEF UpTo
  <2>2. /\ s \ {Picked(s)} \in SUBSET S
        /\ Cardinality(s) \in Nat /\ Cardinality(s \ {Picked(s)}) = Cardinality(s) - 1
    BY <2>1, SmallerByOne
  <2>3. Cardinality(s) <= n + 1
    BY DEF UpTo
  <2>4. Cardinality(s \ {Picked(s)}) <= n /\ Cardinality(s \ {Picked(s)}) <= n + 1
    BY <2>2, <2>3
  <2> QED
    BY <2>1, <2>2, <2>4 DEF UpTo
<1>2. ASSUME NEW s \in D PROVE jt[s] = it[s]
  <2>1. s \in E
    <3>1. IsFiniteSet(s)
      BY FS_Subset DEF UpTo
    <3>2. Cardinality(s) \in Nat
      BY <3>1, FS_CardinalityType
    <3> QED
      BY <3>2 DEF UpTo
  <2>2. it[s] = IF s = {} THEN 0 ELSE f[Picked(s)] + it[s \ {Picked(s)}]
    BY DEF IsTable
  <2> QED
    BY <2>1, <2>2
<1>3. \A s \in E : jt[s] \in Int
  BY <1>1
<1>4. jt = [s \in E |-> IF s = {} THEN 0 ELSE f[Picked(s)] + jt[s \ {Picked(s)}]]
  <2>1. \A s \in E : s # {} => jt[s \ {Picked(s)}] = it[s \ {Picked(s)}]
    BY <1>1, <1>2
  <2> QED
    BY <2>1
<1> HIDE DEF jt
<1>5. jt \in [E -> Int]
  BY <1>3, <1>4
<1> QED
  BY <1>4, <1>5 DEF IsTable

LEMMA TableExists ==
  ASSUME NEW S, IsFiniteSet(S), NEW f, \A x \in S : f[x] \in Int
  PROVE  \E it \in [SUBSET S -> Int] : IsTable(it, f, SUBSET S)
<1> DEFINE T == {n \in Nat : \E it \in [UpTo(S, n) -> Int] : IsTable(it, f, UpTo(S, n))}
<1>1. 0 \in T
  <2> DEFINE it == [s \in UpTo(S, 0) |-> 0]
  <2>1. \A s \in UpTo(S, 0) : s = {}
    <3> SUFFICES ASSUME NEW s \in UpTo(S, 0) PROVE s = {}
      OBVIOUS
    <3>1. s \in SUBSET S /\ Cardinality(s) <= 0
      BY DEF UpTo
    <3>2. IsFiniteSet(s)
      BY <3>1, FS_Subset
    <3> QED
      BY <3>1, <3>2, FS_CardinalityType, FS_EmptySet
  <2>2. it \in [UpTo(S, 0) -> Int]
    OBVIOUS
  <2>3. it = [s \in UpTo(S, 0) |-> IF s = {} THEN 0 ELSE f[Picked(s)] + it[s \ {Picked(s)}]]
    BY <2>1
  <2> HIDE DEF it
  <2>4. IsTable(it, f, UpTo(S, 0))
    BY <2>3 DEF IsTable
  <2> QED
    BY <2>2, <2>4
<1>2. \A n \in T : n + 1 \in T
  BY TableGrows
<1>3. T = Nat
  BY <1>1, <1>2, Descent
<1>4. Cardinality(S) \in T
  BY <1>3, FS_CardinalityType
<1>5. UpTo(S, Cardinality(S)) = SUBSET S
  BY FS_Subset DEF UpTo
<1> QED
  BY <1>4, <1>5

LEMMA TableTyped ==
  ASSUME NEW S, IsFiniteSet(S), NEW f, \A x \in S : f[x] \in Int
  PROVE  /\ \A s \in SUBSET S : Table(f, S)[s] \in Int
         /\ Table(f, S)[{}] = 0
         /\ \A s \in SUBSET S : s # {} =>
              Table(f, S)[s] = f[Picked(s)] + Table(f, S)[s \ {Picked(s)}]
<1>1. PICK it \in [SUBSET S -> Int] : IsTable(it, f, SUBSET S)
  BY TableExists
<1> DEFINE jt == Table(f, S)
<1>2. IsTable(jt, f, SUBSET S)
  BY <1>1 DEF Table
<1> HIDE DEF jt
<1>3. /\ DOMAIN jt = SUBSET S
      /\ jt[{}] = 0
      /\ \A s \in SUBSET S : s # {} => jt[s] = f[Picked(s)] + jt[s \ {Picked(s)}]
  BY <1>2 DEF IsTable
<1> DEFINE T == {n \in Nat : \A s \in UpTo(S, n) : jt[s] \in Int}
<1>4. 0 \in T
  <2> SUFFICES ASSUME NEW s \in UpTo(S, 0) PROVE jt[s] \in Int
    OBVIOUS
  <2>1. s \in SUBSET S /\ Cardinality(s) <= 0
    BY DEF UpTo
  <2>2. s = {}
    BY <2>1, FS_Subset, FS_CardinalityType, FS_EmptySet
  <2> QED
    BY <1>3, <2>2
<1>5. ASSUME NEW n \in T PROVE n + 1 \in T
  <2>1. ASSUME NEW s \in UpTo(S, n + 1), s # {} PROVE jt[s] \in Int
    <3>1. Picked(s) \in s /\ s \in SUBSET S /\ Cardinality(s) <= n + 1
      BY <2>1, PickedIsMember DEF UpTo
    <3>2. /\ s \ {Picked(s)} \in SUBSET S
          /\ Cardinality(s) \in Nat /\ Cardinality(s \ {Picked(s)}) = Cardinality(s) - 1
      BY <3>1, SmallerByOne
    <3>3. s \ {Picked(s)} \in UpTo(S, n)
      BY <3>1, <3>2 DEF UpTo
    <3>4. jt[s \ {Picked(s)}] \in Int
      BY <3>3
    <3> QED
      BY <1>3, <2>1, <3>1, <3>4
  <2>2. ASSUME NEW s \in UpTo(S, n + 1), s = {} PROVE jt[s] \in Int
    BY <1>3, <2>2
  <2> QED
    BY <2>1, <2>2
<1>6. T = Nat
  BY <1>4, <1>5, Descent
<1>7. ASSUME NEW s \in SUBSET S PROVE jt[s] \in Int
  <2>1. Cardinality(S) \in T /\ s \in UpTo(S, Cardinality(S))
    BY <1>6, FS_CardinalityType, FS_Subset DEF UpTo
  <2> QED
    BY <2>1
<1> QED
  BY <1>3, <1>7 DEF jt

\* The sum depends on the members that are summed and on nothing else.
LEMMA TablesAgree ==
  ASSUME NEW S, IsFiniteSet(S), NEW f, \A x \in S : f[x] \in Int,
         NEW R, IsFiniteSet(R), NEW g, \A x \in R : g[x] \in Int,
         NEW s \in SUBSET S, s \in SUBSET R, \A x \in s : f[x] = g[x]
  PROVE  Table(f, S)[s] = Table(g, R)[s]
<1> DEFINE T == {n \in Nat : \A t \in SUBSET s : Cardinality(t) <= n =>
                   Table(f, S)[t] = Table(g, R)[t]}
<1>0. /\ IsFiniteSet(s) /\ Cardinality(s) \in Nat
      /\ \A t \in SUBSET s : IsFiniteSet(t) /\ Cardinality(t) \in Nat
  BY FS_Subset, FS_CardinalityType
<1>1. 0 \in T
  <2> SUFFICES ASSUME NEW t \in SUBSET s, Cardinality(t) <= 0
               PROVE  Table(f, S)[t] = Table(g, R)[t]
    OBVIOUS
  <2>1. t = {}
    BY <1>0, FS_EmptySet
  <2> QED
    BY <2>1, TableTyped
<1>2. ASSUME NEW n \in T PROVE n + 1 \in T
  <2>1. ASSUME NEW t \in SUBSET s, Cardinality(t) <= n + 1, t # {}
        PROVE  Table(f, S)[t] = Table(g, R)[t]
    <3> DEFINE x == Picked(t)
               u == t \ {Picked(t)}
    <3>1. x \in t
      BY <2>1, PickedIsMember
    <3>2. u \in SUBSET s /\ Cardinality(u) <= n
      BY <1>0, <2>1, <3>1, SmallerByOne
    <3>3. Table(f, S)[u] = Table(g, R)[u]
      BY <3>2
    <3>4. Table(f, S)[t] = f[x] + Table(f, S)[u]
      BY <2>1, TableTyped
    <3>5. Table(g, R)[t] = g[x] + Table(g, R)[u]
      BY <2>1, TableTyped
    <3>6. f[x] = g[x]
      BY <3>1
    <3> QED
      BY <3>3, <3>4, <3>5, <3>6
  <2>2. Table(f, S)[{}] = Table(g, R)[{}]
    BY TableTyped
  <2>3. \A t \in SUBSET s : Cardinality(t) <= n + 1 => Table(f, S)[t] = Table(g, R)[t]
    BY <2>1, <2>2
  <2> QED
    BY <2>3
<1>3. T = Nat
  BY <1>1, <1>2, Descent
<1>4. Cardinality(s) \in T
  BY <1>0, <1>3
<1> QED
  BY <1>0, <1>4

LEMMA SumSame ==
  ASSUME NEW S, IsFiniteSet(S), NEW f, NEW g, \A x \in S : f[x] \in Int /\ f[x] = g[x]
  PROVE  SumOver(f, S) = SumOver(g, S)
BY TablesAgree DEF SumOver

LEMMA SumTyped ==
  ASSUME NEW S, IsFiniteSet(S), NEW f, \A x \in S : f[x] \in Int
  PROVE  SumOver(f, S) \in Int
BY TableTyped DEF SumOver

LEMMA SumEmpty ==
  ASSUME NEW f
  PROVE  SumOver(f, {}) = 0
BY TableTyped, FS_EmptySet DEF SumOver

\* Any member may be taken out of a sum first.
LEMMA SumRemove ==
  ASSUME NEW S, IsFiniteSet(S), NEW f, \A x \in S : f[x] \in Int, NEW y \in S
  PROVE  SumOver(f, S) = f[y] + SumOver(f, S \ {y})
<1> DEFINE it == Table(f, S)
           T == {n \in Nat : \A s \in SUBSET S : Cardinality(s) <= n =>
                   \A x \in s : it[s] = f[x] + it[s \ {x}]}
<1>0. \A s \in SUBSET S : IsFiniteSet(s) /\ Cardinality(s) \in Nat
  BY FS_Subset, FS_CardinalityType
<1>1. 0 \in T
  BY <1>0, FS_EmptySet
<1>2. ASSUME NEW n \in T PROVE n + 1 \in T
  <2>1. ASSUME NEW s \in SUBSET S, Cardinality(s) <= n + 1, NEW x \in s
        PROVE  it[s] = f[x] + it[s \ {x}]
    <3> DEFINE p == Picked(s)
    <3>1. p \in s /\ p \in S /\ x \in S
      BY PickedIsMember
    <3>2. it[s] = f[p] + it[s \ {p}]
      BY TableTyped
    <3>3. CASE p = x
      BY <3>2, <3>3
    <3>4. CASE p # x
      <4>1. /\ s \ {p} \in SUBSET S /\ Cardinality(s \ {p}) <= n /\ x \in s \ {p}
            /\ s \ {x} \in SUBSET S /\ Cardinality(s \ {x}) <= n /\ p \in s \ {x}
        BY <1>0, <2>1, <3>1, <3>4, SmallerByOne
      <4> DEFINE u == (s \ {p}) \ {x}
      <4>2. it[s \ {p}] = f[x] + it[u]
        BY <4>1
      <4>3. it[s \ {x}] = f[p] + it[u]
        <5>1. it[s \ {x}] = f[p] + it[(s \ {x}) \ {p}]
          BY <4>1
        <5>2. (s \ {x}) \ {p} = u
          OBVIOUS
        <5> QED
          BY <5>1, <5>2
      <4>4. it[u] \in Int /\ f[p] \in Int /\ f[x] \in Int
        BY <3>1, TableTyped
      <4> HIDE DEF it, p, u
      <4> QED
        BY <3>2, <4>2, <4>3, <4>4
    <3> QED
      BY <3>3, <3>4
  <2> QED
    BY <2>1
<1>3. T = Nat
  BY <1>1, <1>2, Descent
<1>4. Cardinality(S) \in T
  BY <1>0, <1>3
<1>5. it[S] = f[y] + it[S \ {y}]
  BY <1>0, <1>4
<1>6. it[S \ {y}] = SumOver(f, S \ {y})
  BY FS_Subset, TablesAgree DEF SumOver
<1> QED
  BY <1>5, <1>6 DEF SumOver

LEMMA SumAdd ==
  ASSUME NEW S, IsFiniteSet(S), NEW f, NEW y, y \notin S, \A x \in S \cup {y} : f[x] \in Int
  PROVE  SumOver(f, S \cup {y}) = f[y] + SumOver(f, S)
<1>1. IsFiniteSet(S \cup {y}) /\ (S \cup {y}) \ {y} = S
  BY FS_AddElement
<1> QED
  BY <1>1, SumRemove

\* What one member changes by, the sum changes by.
LEMMA SumUpdate ==
  ASSUME NEW S, IsFiniteSet(S), NEW f, NEW g, NEW y \in S,
         \A x \in S : f[x] \in Int /\ g[x] \in Int, \A x \in S \ {y} : g[x] = f[x]
  PROVE  SumOver(g, S) = SumOver(f, S) + (g[y] - f[y])
<1>1. SumOver(f, S) = f[y] + SumOver(f, S \ {y})
  BY SumRemove
<1>2. SumOver(g, S) = g[y] + SumOver(g, S \ {y})
  BY SumRemove
<1>3. IsFiniteSet(S \ {y})
  BY FS_Subset
<1>4. SumOver(g, S \ {y}) = SumOver(f, S \ {y}) /\ SumOver(f, S \ {y}) \in Int
  BY <1>3, SumSame, SumTyped
<1> QED
  BY <1>1, <1>2, <1>4

LEMMA SumNatural ==
  ASSUME NEW S, IsFiniteSet(S), NEW f, \A x \in S : f[x] \in Nat
  PROVE  SumOver(f, S) \in Nat
<1> DEFINE T == {n \in Nat : \A s \in SUBSET S : Cardinality(s) <= n => SumOver(f, s) \in Nat}
<1>0. \A s \in SUBSET S : IsFiniteSet(s) /\ Cardinality(s) \in Nat
  BY FS_Subset, FS_CardinalityType
<1>1. 0 \in T
  BY <1>0, FS_EmptySet, SumEmpty
<1>2. ASSUME NEW n \in T PROVE n + 1 \in T
  <2>1. ASSUME NEW s \in SUBSET S, Cardinality(s) <= n + 1, s # {} PROVE SumOver(f, s) \in Nat
    <3>1. PICK x \in s : TRUE
      BY <2>1
    <3>2. s \ {x} \in SUBSET S /\ Cardinality(s \ {x}) <= n
      BY <1>0, <2>1, <3>1, SmallerByOne
    <3>3. SumOver(f, s) = f[x] + SumOver(f, s \ {x})
      BY <1>0, <3>1, SumRemove
    <3>4. SumOver(f, s \ {x}) \in Nat
      BY <3>2
    <3> QED
      BY <3>1, <3>3, <3>4
  <2>2. \A s \in SUBSET S : Cardinality(s) <= n + 1 => SumOver(f, s) \in Nat
    BY <2>1, SumEmpty
  <2> QED
    BY <2>2
<1>3. T = Nat
  BY <1>1, <1>2, Descent
<1>4. Cardinality(S) \in T
  BY <1>0, <1>3
<1> QED
  BY <1>0, <1>4

LEMMA SumZero ==
  ASSUME NEW S, IsFiniteSet(S), NEW f, \A x \in S : f[x] = 0
  PROVE  SumOver(f, S) = 0
<1> DEFINE T == {n \in Nat : \A s \in SUBSET S : Cardinality(s) <= n => SumOver(f, s) = 0}
<1>0. \A s \in SUBSET S : IsFiniteSet(s) /\ Cardinality(s) \in Nat
  BY FS_Subset, FS_CardinalityType
<1>1. 0 \in T
  BY <1>0, FS_EmptySet, SumEmpty
<1>2. ASSUME NEW n \in T PROVE n + 1 \in T
  <2>1. ASSUME NEW s \in SUBSET S, Cardinality(s) <= n + 1, s # {} PROVE SumOver(f, s) = 0
    <3>1. PICK x \in s : TRUE
      BY <2>1
    <3>2. s \ {x} \in SUBSET S /\ Cardinality(s \ {x}) <= n
      BY <1>0, <2>1, <3>1, SmallerByOne
    <3>3. SumOver(f, s) = f[x] + SumOver(f, s \ {x})
      BY <1>0, <3>1, SumRemove
    <3>4. SumOver(f, s \ {x}) = 0
      BY <3>2
    <3> QED
      BY <3>1, <3>3, <3>4
  <2>2. \A s \in SUBSET S : Cardinality(s) <= n + 1 => SumOver(f, s) = 0
    BY <2>1, SumEmpty
  <2> QED
    BY <2>2
<1>3. T = Nat
  BY <1>1, <1>2, Descent
<1>4. Cardinality(S) \in T
  BY <1>0, <1>3
<1> QED
  BY <1>0, <1>4

-----------------------------------------------------------------------------
\* A sequence begins another when it agrees with it item by item.
LEMMA PrefixByItems ==
  ASSUME NEW S, NEW s \in Seq(S), NEW t \in Seq(S), Len(s) <= Len(t),
         \A i \in 1 .. Len(s) : s[i] = t[i]
  PROVE  IsPrefix(s, t)
<1> DEFINE n == Len(s)
           u == SubSeq(s, 1, n)
           v == SubSeq(t, 1, n)
<1>1. /\ n \in Nat /\ 1 \in Int /\ n \in Int
      /\ \A i \in 1 .. n : s[i] \in S /\ t[i] \in S /\ s[i] = t[i]
  BY LenProperties, ElementOfSeq
<1>2. u \in Seq(S) /\ Len(u) = n /\ \A i \in 1 .. n : u[i] = s[i]
  BY <1>1, SubSeqProperties
<1>3. v \in Seq(S) /\ Len(v) = n /\ \A i \in 1 .. n : v[i] = t[i]
  BY <1>1, SubSeqProperties
<1> HIDE DEF n, u, v
<1>4. u = v
  BY <1>1, <1>2, <1>3, SeqEqual
<1> QED
  BY <1>4 DEF IsPrefix, n, u, v

=============================================================================
