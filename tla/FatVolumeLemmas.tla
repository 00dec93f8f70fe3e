-------------------------- MODULE FatVolumeLemmas --------------------------
(***************************************************************************)
(* Lemmas about FatVolume, for volumes of any size: chains, tables and the *)
(* tree of directories; and what one sector write after another does to a  *)
(* volume that is sound.                                                   *)
(***************************************************************************)
EXTENDS FatVolume, TLAPS, FiniteSetTheorems, WellFoundedInduction

----------------------------------------------------------------------------
(* Numbers, and functions defined by recursion on them *)

\* A set of naturals that is not empty has a least element.
LEMMA LeastOf ==
    ASSUME NEW S, S \subseteq Nat, S # {}
    PROVE  \E n \in S : \A k \in S : n <= k
<1>1. PICK n \in S : \A k \in S : ~(<<k, n>> \in OpToRel(<, Nat))
  BY NatLessThanWellFounded, WFMin
<1>2. \A k \in S : n <= k
  <2> SUFFICES ASSUME NEW k \in S, k < n PROVE FALSE
    OBVIOUS
  <2>1. <<k, n>> \in OpToRel(<, Nat)
    BY DEF OpToRel
  <2> QED BY <1>1, <2>1
<1> QED BY <1>2

\* The functions that go by the steps of step as far as n.
StepsTo(X, x0, step, n) ==
    {f \in [0..n -> X] : f[0] = x0 /\ \A k \in 1..n : f[k] = step[k][f[k - 1]]}

\* There is a function that goes by the steps of step for ever.
LEMMA Iterates ==
    ASSUME NEW X, NEW x0 \in X, NEW step \in [Nat -> [X -> X]]
    PROVE  \E f \in [Nat -> X] : f[0] = x0 /\ \A n \in Nat : f[n + 1] = step[n + 1][f[n]]
<1> DEFINE F(n) == StepsTo(X, x0, step, n)
<1>1. \A n \in Nat : F(n) # {}
  <2> DEFINE B == {n \in Nat : F(n) = {}}
  <2>1. SUFFICES ASSUME B # {} PROVE FALSE
    OBVIOUS
  <2>2. PICK n \in B : \A k \in B : n <= k
    BY <2>1, LeastOf
  <2>3. CASE n = 0
    <3>1. [k \in 0..0 |-> x0] \in F(0)
      BY DEF StepsTo
    <3> QED BY <2>2, <2>3, <3>1
  <2>4. CASE n # 0
    <3>1. n - 1 \in Nat /\ n - 1 \notin B
      BY <2>2, <2>4
    <3>2. PICK g \in [0..(n - 1) -> X] :
            g[0] = x0 /\ \A k \in 1..(n - 1) : g[k] = step[k][g[k - 1]]
      BY <3>1 DEF StepsTo
    <3> DEFINE h == [k \in 0..n |-> IF k = n THEN step[n][g[n - 1]] ELSE g[k]]
    <3>3. step[n][g[n - 1]] \in X
      BY <3>1, <3>2
    <3>4. h \in [0..n -> X] /\ h[0] = x0
      BY <2>4, <3>2, <3>3
    <3>5. ASSUME NEW k \in 1..n PROVE h[k] = step[k][h[k - 1]]
      BY <3>1, <3>2
    <3>6. h \in F(n)
      <4> HIDE DEF h
      <4> QED BY <3>4, <3>5 DEF StepsTo
    <3> QED BY <2>2, <3>6
  <2> QED BY <2>3, <2>4
<1>2. ASSUME NEW n \in Nat, NEW f \in F(n), NEW g \in F(n + 1), NEW i \in 0..n
      PROVE  f[i] = g[i]
  <2> DEFINE B == {k \in 0..n : f[k] # g[k]}
  <2>1. SUFFICES ASSUME B # {} PROVE FALSE
    OBVIOUS
  <2>2. PICK k \in B : \A j \in B : k <= j
    <3>1. B \subseteq Nat
      OBVIOUS
    <3> QED BY <2>1, <3>1, LeastOf
  <2>3. f[0] = x0 /\ g[0] = x0
    BY DEF StepsTo
  <2>4. k \in 1..n /\ k - 1 \notin B
    BY <2>2, <2>3
  <2>5. f[k] = step[k][f[k - 1]] /\ g[k] = step[k][g[k - 1]]
    BY <2>4 DEF StepsTo
  <2> QED BY <2>2, <2>4, <2>5
<1> DEFINE G(n) == CHOOSE f \in F(n) : TRUE
           f == [n \in Nat |-> G(n)[n]]
<1>3. \A n \in Nat : G(n) \in F(n)
  BY <1>1
<1>4. \A n \in Nat : G(n)[n] \in X
  <2> SUFFICES ASSUME NEW n \in Nat PROVE G(n)[n] \in X
    OBVIOUS
  <2>1. G(n) \in [0..n -> X]
    BY <1>3 DEF StepsTo
  <2> QED BY <2>1
<1>5. f \in [Nat -> X]
  BY <1>4
<1>6. f[0] = x0
  <2>1. G(0) \in F(0)
    BY <1>3
  <2> QED BY <2>1 DEF StepsTo
<1>7. ASSUME NEW n \in Nat PROVE f[n + 1] = step[n + 1][f[n]]
  <2>1. G(n) \in F(n) /\ G(n + 1) \in F(n + 1) /\ n \in 0..n
    BY <1>3
  <2>2. G(n)[n] = G(n + 1)[n]
    <3> HIDE DEF G, F
    <3> QED BY <2>1, <1>2
  <2>3. G(n + 1)[n + 1] = step[n + 1][G(n + 1)[n]]
    <3>1. n + 1 \in 1..(n + 1) /\ (n + 1) - 1 = n
      OBVIOUS
    <3> QED BY <2>1, <3>1 DEF StepsTo
  <2> QED BY <2>2, <2>3
<1> HIDE DEF f
<1> QED BY <1>5, <1>6, <1>7

\* What goes by the steps of step stays where they lead.
LEMMA StaysIn ==
    ASSUME NEW X, NEW x0 \in X, NEW step \in [Nat -> [X -> X]], NEW u, u[0] = x0,
           \A n \in Nat : u[n] \in X => u[n + 1] = step[n + 1][u[n]]
    PROVE  \A n \in Nat : u[n] \in X
<1> DEFINE B == {n \in Nat : u[n] \notin X}
<1>1. SUFFICES ASSUME B # {} PROVE FALSE
  OBVIOUS
<1>2. PICK n \in B : \A k \in B : n <= k
  BY <1>1, LeastOf
<1>3. n # 0
  BY <1>2
<1>4. n - 1 \in Nat /\ u[n - 1] \in X
  BY <1>2, <1>3
<1>5. u[(n - 1) + 1] = step[(n - 1) + 1][u[n - 1]]
  BY <1>4
<1> QED BY <1>2, <1>4, <1>5

----------------------------------------------------------------------------
(* Chains *)

Fats == [Clusters -> Clusters \cup {0, Eoc}]

\* q follows the links from c on.
IsWalk(fat, c, q) ==
    /\ q \in Seq(Clusters)
    /\ q # <<>> => q[1] = c
    /\ \A i \in 1..(Len(q) - 1) : q[i + 1] = fat[q[i]]

\* It comes to the end of them.
Stops(fat, c, q) ==
    IF q = <<>> THEN c \notin Clusters ELSE fat[q[Len(q)]] \notin Clusters

LEMMA ClustersAre ==
    /\ Clusters \subseteq Nat /\ 0 \notin Clusters /\ 1 \notin Clusters /\ Eoc \notin Clusters
    /\ Bad \notin Clusters /\ Eoc # 0 /\ Bad # 0 /\ Eoc # Bad /\ MaxClust \in Nat
    /\ Clusters = 2..(MaxClust - 1) /\ MaxClust > 3
BY SizesAssumption DEF Clusters, Eoc, Bad

LEMMA LinkOnWalk ==
    ASSUME NEW fat, NEW c, NEW q, IsWalk(fat, c, q)
    PROVE  LET r == LinkOn(fat, c, q)
           IN  /\ IsWalk(fat, c, r)
               /\ Len(r) = Len(q) + 1 \/ (r = q /\ Stops(fat, c, r))
<1> DEFINE next == IF q = <<>> THEN c ELSE fat[Last(q)]
<1>1. q \in Seq(Clusters) /\ Len(q) \in Nat
  BY DEF IsWalk
<1>2. CASE next \in Clusters
  <2>1. LinkOn(fat, c, q) = Append(q, next)
    BY <1>2 DEF LinkOn
  <2>2. Append(q, next) \in Seq(Clusters) /\ Len(Append(q, next)) = Len(q) + 1
    BY <1>1, <1>2
  <2>3. Append(q, next)[1] = c
    <3>1. CASE q = <<>>
      BY <3>1, <1>2
    <3>2. CASE q # <<>>
      BY <3>2, <1>1 DEF IsWalk
    <3> QED BY <3>1, <3>2
  <2>4. ASSUME NEW i \in 1..Len(q) PROVE Append(q, next)[i + 1] = fat[Append(q, next)[i]]
    <3>1. CASE i = Len(q)
      <4>1. q # <<>>
        BY <1>1, <3>1
      <4>2. next = fat[q[Len(q)]]
        BY <4>1 DEF Last
      <4> HIDE DEF next
      <4> QED BY <1>1, <3>1, <4>2
    <3>2. CASE i # Len(q)
      <4>1. i \in 1..(Len(q) - 1)
        BY <1>1, <3>2
      <4>2. q[i + 1] = fat[q[i]]
        BY <4>1 DEF IsWalk
      <4> HIDE DEF next
      <4> QED BY <1>1, <4>1, <4>2
    <3> QED BY <3>1, <3>2
  <2> HIDE DEF next
  <2>5. IsWalk(fat, c, Append(q, next))
    BY <1>1, <2>2, <2>3, <2>4 DEF IsWalk
  <2> QED BY <2>1, <2>2, <2>5
<1>3. CASE next \notin Clusters
  <2>1. LinkOn(fat, c, q) = q
    BY <1>3 DEF LinkOn
  <2>2. Stops(fat, c, q)
    BY <1>3 DEF Stops, Last
  <2> QED BY <2>1, <2>2
<1> QED BY <1>2, <1>3

\* Chain follows the links to their end, or MaxClust of them.
LEMMA ChainIs ==
    ASSUME NEW fat, NEW c
    PROVE  LET q == Chain(fat, c)
           IN  IsWalk(fat, c, q) /\ (Len(q) = MaxClust \/ Stops(fat, c, q))
<1> DEFINE X == Seq(Clusters)
           step == [n \in Nat |-> [q \in X |-> LinkOn(fat, c, q)]]
           up == CHOOSE u : u = [n \in Nat |-> IF n = 0 THEN <<>> ELSE LinkOn(fat, c, u[n - 1])]
<1>1. <<>> \in X /\ step \in [Nat -> [X -> X]]
  BY DEF LinkOn
<1>2. Chain(fat, c) = up[MaxClust]
  BY DEF Chain
<1>3. up = [n \in Nat |-> IF n = 0 THEN <<>> ELSE LinkOn(fat, c, up[n - 1])]
  <2>1. PICK f \in [Nat -> X] : f[0] = <<>> /\ \A n \in Nat : f[n + 1] = step[n + 1][f[n]]
    <3> DEFINE x0 == <<>>
    <3>1. x0 \in X /\ step \in [Nat -> [X -> X]]
      BY <1>1
    <3> HIDE DEF X, step, x0
    <3>2. \E f \in [Nat -> X] : f[0] = x0 /\ \A n \in Nat : f[n + 1] = step[n + 1][f[n]]
      BY <3>1, Iterates
    <3> QED BY <3>2 DEF x0
  <2>2. ASSUME NEW n \in Nat
        PROVE  f[n] = IF n = 0 THEN <<>> ELSE LinkOn(fat, c, f[n - 1])
    <3>1. CASE n = 0
      BY <2>1, <3>1
    <3>2. CASE n # 0
      <4>1. n - 1 \in Nat /\ (n - 1) + 1 = n /\ f[n - 1] \in X
        BY <3>2
      <4>2. f[n] = step[n][f[n - 1]]
        BY <2>1, <4>1
      <4> QED BY <3>2, <4>1, <4>2
    <3> QED BY <3>1, <3>2
  <2>3. f = [n \in Nat |-> IF n = 0 THEN <<>> ELSE LinkOn(fat, c, f[n - 1])]
    BY <2>2
  <2>4. \E u : u = [n \in Nat |-> IF n = 0 THEN <<>> ELSE LinkOn(fat, c, u[n - 1])]
    BY <2>3
  <2> QED BY <2>4
<1> HIDE DEF up
<1>4. up[0] = <<>>
  BY <1>3
<1>5. ASSUME NEW n \in Nat PROVE up[n + 1] = LinkOn(fat, c, up[n])
  <2>1. n + 1 \in Nat /\ n + 1 # 0 /\ (n + 1) - 1 = n
    OBVIOUS
  <2> QED BY <1>3, <2>1
<1> DEFINE Fine(n) == IsWalk(fat, c, up[n]) /\ (Len(up[n]) = n \/ Stops(fat, c, up[n]))
           B == {n \in Nat : ~Fine(n)}
<1>6. ASSUME B # {} PROVE FALSE
  <2>1. PICK n \in B : \A k \in B : n <= k
    BY <1>6, LeastOf
  <2>2. Fine(0)
    BY <1>4 DEF IsWalk
  <2>3. n - 1 \in Nat /\ Fine(n - 1) /\ (n - 1) + 1 = n
    BY <2>1, <2>2
  <2>4. up[n] = LinkOn(fat, c, up[n - 1])
    BY <2>3, <1>5
  <2>5. CASE Stops(fat, c, up[n - 1])
    <3>1. LinkOn(fat, c, up[n - 1]) = up[n - 1]
      BY <2>3, <2>5 DEF Stops, LinkOn, Last
    <3> QED BY <2>1, <2>3, <2>4, <2>5, <3>1
  <2>6. CASE Len(up[n - 1]) = n - 1
    BY <2>1, <2>3, <2>4, <2>6, LinkOnWalk
  <2> QED BY <2>3, <2>5, <2>6
<1>7. Fine(MaxClust)
  <2>1. MaxClust \in Nat
    BY ClustersAre
  <2> QED BY <1>6, <2>1
<1> QED BY <1>2, <1>7

\* No two links lead to one cluster, and none to a free one.
Linked(fat) ==
    \A x \in Clusters : fat[x] \in Clusters =>
        fat[fat[x]] # 0 /\ \A y \in Clusters : fat[y] = fat[x] => y = x

\* A chain can start here: the cluster is in use and no link leads to it.
Proper(fat, c) == c \in Clusters /\ fat[c] # 0 /\ \A x \in Clusters : fat[x] # c

\* Two chains meet nowhere, and no chain meets itself.
LEMMA WalksApart ==
    ASSUME NEW fat \in Fats, Linked(fat), NEW c, NEW d, Proper(fat, c), Proper(fat, d),
           NEW q, NEW r, IsWalk(fat, c, q), IsWalk(fat, d, r),
           NEW i \in 1..Len(q), NEW j \in 1..Len(r), q[i] = r[j]
    PROVE  c = d /\ i = j
<1> DEFINE Meets(a) == \E b \in 1..Len(r) : q[a] = r[b] /\ ~(c = d /\ a = b)
           B == {a \in 1..Len(q) : Meets(a)}
<1>1. SUFFICES ASSUME B # {} PROVE FALSE
  OBVIOUS
<1>2. q \in Seq(Clusters) /\ r \in Seq(Clusters) /\ Len(q) \in Nat /\ Len(r) \in Nat
  BY DEF IsWalk
<1>3. PICK a \in B : \A k \in B : a <= k
  <2>1. B \subseteq Nat
    BY <1>2
  <2> QED BY <1>1, <2>1, LeastOf
<1>4. PICK b \in 1..Len(r) : q[a] = r[b] /\ ~(c = d /\ a = b)
  BY <1>3
<1>5. q[a] \in Clusters /\ q[1] = c /\ r[1] = d /\ q # <<>> /\ r # <<>>
  <2>1. q # <<>> /\ r # <<>>
    BY <1>2, <1>3, <1>4
  <2> QED BY <1>2, <1>3, <2>1 DEF IsWalk
<1>6. a # 1 => a - 1 \in 1..(Len(q) - 1) /\ (a - 1) + 1 = a /\ q[a - 1] \in Clusters /\ q[a] = fat[q[a - 1]]
  BY <1>2, <1>3 DEF IsWalk
<1>7. b # 1 => b - 1 \in 1..(Len(r) - 1) /\ (b - 1) + 1 = b /\ r[b - 1] \in Clusters /\ r[b] = fat[r[b - 1]]
  BY <1>2, <1>4 DEF IsWalk
<1>8. CASE a = 1
  BY <1>4, <1>5, <1>7, <1>8 DEF Proper
<1>9. CASE a # 1
  <2>1. b # 1
    BY <1>4, <1>5, <1>6, <1>9 DEF Proper
  <2>2. q[a - 1] = r[b - 1]
    BY <1>4, <1>5, <1>6, <1>7, <1>9, <2>1 DEF Linked
  <2>3. a - 1 \notin B
    BY <1>2, <1>3, <1>6, <1>9
  <2>4. a - 1 \in 1..Len(q) /\ b - 1 \in 1..Len(r)
    BY <1>2, <1>6, <1>7, <1>9, <2>1
  <2>5. c = d /\ a - 1 = b - 1
    BY <2>2, <2>3, <2>4
  <2> QED BY <1>3, <1>4, <2>5
<1> QED BY <1>8, <1>9

\* From a proper start the links lead to a last cluster.
LEMMA ProperChain ==
    ASSUME NEW fat \in Fats, Linked(fat), NEW c, Proper(fat, c)
    PROVE  LET q == Chain(fat, c)
           IN  /\ IsWalk(fat, c, q) /\ q # <<>> /\ q[1] = c /\ Len(q) \in 1..(MaxClust - 1)
               /\ q \in Seq(Clusters) /\ q[Len(q)] \in Clusters /\ fat[q[Len(q)]] = Eoc
               /\ \A i \in 1..Len(q) : q[i] \in Clusters /\ fat[q[i]] # 0
<1> DEFINE q == Chain(fat, c)
<1>1. IsWalk(fat, c, q) /\ (Len(q) = MaxClust \/ Stops(fat, c, q))
  BY ChainIs
<1>2. q \in Seq(Clusters) /\ Len(q) \in Nat /\ c \in Clusters
  BY <1>1 DEF IsWalk, Proper
<1> HIDE DEF q
<1>3. q # <<>>
  BY <1>1, <1>2, ClustersAre DEF Stops
<1>4. q[1] = c /\ Len(q) \in 1..Len(q)
  BY <1>1, <1>2, <1>3 DEF IsWalk
<1>5. Len(q) \in 1..(MaxClust - 1)
  <2>1. SUFFICES ASSUME Len(q) >= MaxClust PROVE FALSE
    BY <1>2, <1>4, ClustersAre
  <2>2. IsFiniteSet(1..Len(q)) /\ Cardinality(1..Len(q)) = Len(q)
    BY FS_Interval, <1>2
  <2>3. IsFiniteSet(Clusters) /\ Cardinality(Clusters) < MaxClust /\ Cardinality(Clusters) \in Nat
    BY FS_Interval, ClustersAre, FS_CardinalityType
  <2>4. q \in [1..Len(q) -> Clusters]
    BY <1>2
  <2>5. Cardinality(Clusters) < Cardinality(1..Len(q))
    BY <2>1, <2>2, <2>3, <1>2, ClustersAre
  <2>6. \E x, y \in 1..Len(q) : x # y /\ q[x] = q[y]
    BY <2>2, <2>3, <2>4, <2>5, FS_PigeonHole
  <2> QED BY <1>1, <2>6, WalksApart
<1>6. ASSUME NEW i \in 1..Len(q) PROVE q[i] \in Clusters /\ fat[q[i]] # 0
  <2>1. q[i] \in Clusters
    BY <1>2
  <2>2. CASE i = 1
    BY <1>4, <2>1, <2>2 DEF Proper
  <2>3. CASE i # 1
    <3>1. i - 1 \in 1..(Len(q) - 1) /\ (i - 1) + 1 = i /\ q[i - 1] \in Clusters
      BY <1>2, <2>3
    <3>2. q[i] = fat[q[i - 1]]
      BY <1>1, <3>1 DEF IsWalk
    <3> QED BY <2>1, <3>1, <3>2 DEF Linked
  <2> QED BY <2>2, <2>3
<1>7. fat[q[Len(q)]] = Eoc /\ q[Len(q)] \in Clusters
  <2>1. fat[q[Len(q)]] \notin Clusters
    BY <1>1, <1>3, <1>5, ClustersAre DEF Stops
  <2> QED BY <1>4, <1>6, <2>1 DEF Fats
<1> QED BY <1>1, <1>2, <1>3, <1>4, <1>6, <1>7, <1>5 DEF q

\* The links lead one way only.
LEMMA WalkUnique ==
    ASSUME NEW fat, NEW c, NEW q, NEW r, IsWalk(fat, c, q), IsWalk(fat, c, r),
           q # <<>>, r # <<>>, Stops(fat, c, q), Stops(fat, c, r)
    PROVE  q = r
<1>1. q \in Seq(Clusters) /\ r \in Seq(Clusters) /\ Len(q) \in Nat /\ Len(r) \in Nat
      /\ Len(q) # 0 /\ Len(r) # 0
  BY DEF IsWalk
<1> DEFINE B == {i \in Nat : i \in 1..Len(q) /\ i \in 1..Len(r) /\ q[i] # r[i]}
<1>2. B = {}
  <2>1. SUFFICES ASSUME B # {} PROVE FALSE
    OBVIOUS
  <2>2. PICK i \in B : \A k \in B : i <= k
    BY <2>1, LeastOf
  <2>3. i # 1
    BY <2>2 DEF IsWalk
  <2>4. i - 1 \in 1..(Len(q) - 1) /\ i - 1 \in 1..(Len(r) - 1) /\ (i - 1) + 1 = i
    BY <1>1, <2>2, <2>3
  <2>5. q[i - 1] = r[i - 1]
    BY <1>1, <2>2, <2>4
  <2>6. q[(i - 1) + 1] = fat[q[i - 1]] /\ r[(i - 1) + 1] = fat[r[i - 1]]
    BY <2>4 DEF IsWalk
  <2> QED BY <2>2, <2>4, <2>5, <2>6
<1>3. ASSUME Len(q) < Len(r) PROVE FALSE
  <2>1. Len(q) \in 1..(Len(r) - 1) /\ Len(q) + 1 \in 1..Len(r) /\ Len(q) \in 1..Len(q)
    BY <1>1, <1>3
  <2>2. r[Len(q) + 1] = fat[r[Len(q)]] /\ r[Len(q) + 1] \in Clusters
    BY <1>1, <2>1 DEF IsWalk
  <2>3. r[Len(q)] = q[Len(q)]
    BY <1>1, <1>2, <2>1
  <2> QED BY <2>2, <2>3 DEF Stops
<1>4. ASSUME Len(r) < Len(q) PROVE FALSE
  <2>1. Len(r) \in 1..(Len(q) - 1) /\ Len(r) + 1 \in 1..Len(q) /\ Len(r) \in 1..Len(r)
    BY <1>1, <1>4
  <2>2. q[Len(r) + 1] = fat[q[Len(r)]] /\ q[Len(r) + 1] \in Clusters
    BY <1>1, <2>1 DEF IsWalk
  <2>3. r[Len(r)] = q[Len(r)]
    BY <1>1, <1>2, <2>1
  <2> QED BY <2>2, <2>3 DEF Stops
<1>5. Len(q) = Len(r)
  BY <1>1, <1>3, <1>4
<1>6. \A i \in 1..Len(q) : q[i] = r[i]
  BY <1>1, <1>2, <1>5
<1> QED BY <1>1, <1>5, <1>6

LEMMA ChainBy ==
    ASSUME NEW fat \in Fats, Linked(fat), NEW c, Proper(fat, c),
           NEW q, IsWalk(fat, c, q), q # <<>>, fat[q[Len(q)]] \notin Clusters
    PROVE  Chain(fat, c) = q
<1>1. LET r == Chain(fat, c)
      IN  IsWalk(fat, c, r) /\ r # <<>> /\ fat[r[Len(r)]] = Eoc
  BY ProperChain
<1> QED BY <1>1, WalkUnique, ClustersAre DEF Stops

\* A chain whose own links are as they were is as it was.
LEMMA ChainSame ==
    ASSUME NEW fat \in Fats, NEW new \in Fats, Linked(fat), Linked(new),
           NEW c, Proper(fat, c), Proper(new, c),
           \A i \in 1..Len(Chain(fat, c)) : new[Chain(fat, c)[i]] = fat[Chain(fat, c)[i]]
    PROVE  Chain(new, c) = Chain(fat, c)
<1> DEFINE q == Chain(fat, c)
<1>1. IsWalk(fat, c, q) /\ q # <<>> /\ fat[q[Len(q)]] = Eoc /\ Len(q) \in Nat
  BY ProperChain, ClustersAre
<1> HIDE DEF q
<1>2. \A i \in 1..Len(q) : new[q[i]] = fat[q[i]]
  BY DEF q
<1>3. IsWalk(new, c, q)
  BY <1>1, <1>2 DEF IsWalk
<1>4. new[q[Len(q)]] \notin Clusters
  <2>1. Len(q) \in 1..Len(q)
    BY <1>1 DEF IsWalk
  <2> QED BY <1>1, <1>2, <2>1, ClustersAre
<1> QED BY <1>1, <1>3, <1>4, ChainBy DEF q

\* A cluster is linked to the last one of a chain.
LEMMA ChainLonger ==
    ASSUME NEW fat \in Fats, NEW new \in Fats, Linked(fat), Linked(new),
           NEW c, Proper(fat, c), Proper(new, c), NEW d \in Clusters,
           new[d] = Eoc,
           new[Chain(fat, c)[Len(Chain(fat, c))]] = d,
           \A i \in 1..(Len(Chain(fat, c)) - 1) :
               new[Chain(fat, c)[i]] = fat[Chain(fat, c)[i]]
    PROVE  Chain(new, c) = Append(Chain(fat, c), d)
<1> DEFINE q == Chain(fat, c)
           r == Append(q, d)
<1>1. IsWalk(fat, c, q) /\ q # <<>> /\ Len(q) \in Nat /\ q \in Seq(Clusters)
  BY ProperChain, ClustersAre
<1>2. new[q[Len(q)]] = d /\ \A i \in 1..(Len(q) - 1) : new[q[i]] = fat[q[i]]
  OBVIOUS
<1> HIDE DEF q
<1>3. r \in Seq(Clusters) /\ r # <<>> /\ Len(r) = Len(q) + 1 /\ r[Len(r)] = d /\ r[1] = c
  BY <1>1 DEF IsWalk
<1>4. ASSUME NEW i \in 1..Len(q) PROVE r[i + 1] = new[r[i]]
  <2>1. CASE i = Len(q)
    BY <1>1, <1>2, <2>1
  <2>2. CASE i # Len(q)
    <3>1. i \in 1..(Len(q) - 1)
      BY <1>1, <2>2
    <3>2. q[i + 1] = new[q[i]]
      BY <1>1, <1>2, <3>1 DEF IsWalk
    <3> QED BY <1>1, <3>1, <3>2
  <2> QED BY <2>1, <2>2
<1> HIDE DEF r
<1>5. IsWalk(new, c, r)
  BY <1>1, <1>3, <1>4 DEF IsWalk
<1>6. new[r[Len(r)]] \notin Clusters
  BY <1>3, ClustersAre
<1>7. Chain(new, c) = r
  BY <1>3, <1>5, <1>6, ChainBy
<1> QED BY <1>7 DEF r, q

----------------------------------------------------------------------------
(* Tables *)

\* Where the table s starts.
Base(vol, s) == IF s = 0 THEN vol.dirbase ELSE s
HasTable(vol, s) == IsStatic(vol, s) \/ Proper(vol.fat, Base(vol, s))

LEMMA ImageIs ==
    ASSUME NEW vol \in Image
    PROVE  /\ vol.fat \in Fats /\ vol.dirbase \in Clusters \cup {0}
           /\ vol.tab \in [Tables -> [0..(PerSector - 1) -> Entry]]
           /\ vol.raw \in SUBSET Clusters
           /\ vol = [dirbase |-> vol.dirbase, fat |-> vol.fat, tab |-> vol.tab, raw |-> vol.raw]
BY DEF Image, Fats

LEMMA SizesAre ==
    /\ PerSector \in Nat /\ PerSector > 2 /\ RootSectors \in Nat /\ RootSectors > 0
    /\ RootTables \cap Clusters = {} /\ Tables = Clusters \cup RootTables
    /\ 0 \notin Tables /\ \A r \in 1..RootSectors : -r \in RootTables
BY SizesAssumption, ClustersAre DEF Tables, RootTables

\* The sectors of a table: clusters in use, or the static root's own.
LEMMA TableIs ==
    ASSUME NEW vol \in Image, Linked(vol.fat), NEW s, HasTable(vol, s)
    PROVE  LET T == Table(vol, s)
           IN  /\ Len(T) \in Nat /\ Len(T) > 0 /\ DOMAIN T = 1..Len(T) /\ T \in Seq(Tables)
               /\ \A i \in 1..Len(T) :
                     /\ T[i] \in Tables
                     /\ T[i] \in Clusters <=> ~IsStatic(vol, s)
                     /\ T[i] \in Clusters => vol.fat[T[i]] # 0
<1>1. CASE IsStatic(vol, s)
  <2> DEFINE T == [r \in 1..RootSectors |-> -r]
  <2>1. Table(vol, s) = T
    BY <1>1 DEF Table
  <2>2. T \in Seq(Tables) /\ Len(T) = RootSectors /\ DOMAIN T = 1..RootSectors
    BY SizesAre
  <2>3. \A i \in 1..RootSectors : T[i] \in RootTables
    BY SizesAre
  <2> HIDE DEF T
  <2> QED BY <1>1, <2>1, <2>2, <2>3, SizesAre
<1>2. CASE ~IsStatic(vol, s)
  <2>1. Table(vol, s) = Chain(vol.fat, Base(vol, s)) /\ Proper(vol.fat, Base(vol, s))
    BY <1>2 DEF Table, Base, HasTable
  <2>2. LET q == Chain(vol.fat, Base(vol, s))
        IN  /\ q \in Seq(Clusters) /\ Len(q) \in 1..(MaxClust - 1)
            /\ \A i \in 1..Len(q) : q[i] \in Clusters /\ vol.fat[q[i]] # 0
    BY <2>1, ImageIs, ProperChain
  <2> QED BY <1>2, <2>1, <2>2, SizesAre, ClustersAre
<1> QED BY <1>1, <1>2

LEMMA TablesApart ==
    ASSUME NEW vol \in Image, Linked(vol.fat), NEW s, NEW t, HasTable(vol, s), HasTable(vol, t),
           Base(vol, s) = Base(vol, t) => s = t,
           NEW i \in 1..Len(Table(vol, s)), NEW j \in 1..Len(Table(vol, t)),
           Table(vol, s)[i] = Table(vol, t)[j]
    PROVE  s = t /\ i = j
<1>1. IsStatic(vol, s) <=> IsStatic(vol, t)
  BY TableIs
<1>2. CASE IsStatic(vol, s)
  <2>1. s = t
    BY <1>1, <1>2 DEF IsStatic
  <2>2. Table(vol, s) = [r \in 1..RootSectors |-> -r]
    BY <1>2 DEF Table
  <2>3. i \in 1..RootSectors /\ j \in 1..RootSectors
    BY <2>1, <2>2, SizesAre, TableIs
  <2> QED BY <2>1, <2>2, <2>3
<1>3. CASE ~IsStatic(vol, s)
  <2>1. /\ Table(vol, s) = Chain(vol.fat, Base(vol, s)) /\ Proper(vol.fat, Base(vol, s))
        /\ Table(vol, t) = Chain(vol.fat, Base(vol, t)) /\ Proper(vol.fat, Base(vol, t))
    BY <1>1, <1>3 DEF Table, Base, HasTable
  <2>2. /\ IsWalk(vol.fat, Base(vol, s), Chain(vol.fat, Base(vol, s)))
        /\ IsWalk(vol.fat, Base(vol, t), Chain(vol.fat, Base(vol, t)))
    BY <2>1, ImageIs, ProperChain
  <2> QED BY <2>1, <2>2, ImageIs, WalksApart
<1> QED BY <1>2, <1>3

\* The slots of a table, without their order.
SectorsOf(vol, s) == {Table(vol, s)[i] : i \in 1..Len(Table(vol, s))}
SlotsOf(vol, s) == SectorsOf(vol, s) \X (0..(PerSector - 1))

LEMMA Divided ==
    ASSUME NEW b \in Int, b > 0, NEW q \in Int, NEW r \in 0..(b - 1)
    PROVE  (q * b + r) \div b = q /\ (q * b + r) % b = r
OBVIOUS

LEMMA DivMod ==
    ASSUME NEW b \in Int, b > 0, NEW a \in Int
    PROVE  /\ a = (a \div b) * b + (a % b)
           /\ a \div b \in Int /\ a % b \in 0..(b - 1)
OBVIOUS

\* Slot n of a table of L sectors is in the sector at and has the index k there.
LEMMA SlotPlace ==
    ASSUME NEW P \in Nat, P > 0, NEW L \in Nat, NEW n \in 1..(L * P)
    PROVE  \E q \in 0..(L - 1), k \in 0..(P - 1) :
             n = q * P + k + 1 /\ (n - 1) \div P = q /\ (n - 1) % P = k
<1> DEFINE q == (n - 1) \div P
           k == (n - 1) % P
<1>0. L * P \in Nat
  OBVIOUS
<1>1. n - 1 = q * P + k /\ q \in Int /\ k \in 0..(P - 1) /\ n - 1 \in 0..(L * P - 1)
  BY <1>0, DivMod
<1> HIDE DEF q, k
<1>2. q >= 0
  <2>1. SUFFICES ASSUME q <= -1 PROVE FALSE
    BY <1>1
  <2>2. q * P <= (-1) * P
    BY <1>1, <2>1
  <2> QED BY <1>1, <2>2
<1>3. q <= L - 1
  <2>1. SUFFICES ASSUME L <= q PROVE FALSE
    BY <1>1
  <2>2. L * P <= q * P
    BY <1>1, <2>1
  <2>3. q * P \in Int
    BY <1>1
  <2> QED BY <1>0, <1>1, <2>2, <2>3
<1>4. n = q * P + k + 1
  <2>1. q * P \in Int
    BY <1>1
  <2> QED BY <1>1, <2>1
<1> QED BY <1>1, <1>2, <1>3, <1>4 DEF q, k

LEMMA PlaceOf ==
    ASSUME NEW P \in Nat, P > 0, NEW L \in Nat, NEW q \in 0..(L - 1), NEW k \in 0..(P - 1)
    PROVE  /\ q * P + k + 1 \in 1..(L * P)
           /\ ((q * P + k + 1) - 1) \div P = q /\ ((q * P + k + 1) - 1) % P = k
<1>1. q * P \in Nat /\ L * P \in Nat
  OBVIOUS
<1>2. q * P + P <= L * P
  <2>1. (q + 1) * P <= L * P
    OBVIOUS
  <2>2. (q + 1) * P = q * P + P
    OBVIOUS
  <2> QED BY <2>1, <2>2
<1>3. (q * P + k + 1) - 1 = q * P + k
  BY <1>1
<1>4. (q * P + k) \div P = q /\ (q * P + k) % P = k
  BY Divided
<1> QED BY <1>1, <1>2, <1>3, <1>4

\* Slots counts the slots of a table, each once.
LEMMA SlotsAre ==
    ASSUME NEW vol \in Image, Linked(vol.fat), NEW s, HasTable(vol, s)
    PROVE  LET S == Slots(vol, s)
               T == Table(vol, s)
           IN  /\ Len(S) = Len(T) * PerSector /\ Len(S) \in Nat /\ Len(S) > 2
               /\ DOMAIN S = 1..Len(S)
               /\ \A n \in 1..Len(S) : S[n] \in SlotsOf(vol, s)
               /\ \A at \in SlotsOf(vol, s) : \E n \in 1..Len(S) : S[n] = at
               /\ \A n, k \in 1..Len(S) : S[n] = S[k] => n = k
               /\ S[1] = <<T[1], 0>> /\ S[2] = <<T[1], 1>>
<1> DEFINE T == Table(vol, s)
           P == PerSector
           L == Len(T)
           S == [n \in 1..(L * P) |-> <<T[(n - 1) \div P + 1], (n - 1) % P>>]
<1>1. Slots(vol, s) = S
  BY DEF Slots
<1>2. L \in Nat /\ L > 0 /\ T \in Seq(Tables) /\ P \in Nat /\ P > 2
  BY TableIs, SizesAre
<1>3. \A i \in 1..L : T[i] \in SectorsOf(vol, s)
  BY DEF SectorsOf
<1>4. \A x \in SectorsOf(vol, s) : \E i \in 1..L : T[i] = x
  BY DEF SectorsOf
<1>5. \A i, j \in 1..L : T[i] = T[j] => i = j
  BY TablesApart
<1> HIDE DEF T, P
<1>6. L * P \in Nat /\ L * P > 2
  <2>1. 1 * P <= L * P /\ L * P \in Nat
    BY <1>2
  <2> QED BY <1>2, <2>1
<1> HIDE DEF L
<1>14. L \in Nat /\ P \in Nat /\ P > 0
  BY <1>2
<1>15. \A n \in 1..(L * P) : \E q \in 0..(L - 1), k \in 0..(P - 1) :
          n = q * P + k + 1 /\ (n - 1) \div P = q /\ (n - 1) % P = k
  <2> HIDE DEF S
  <2> QED BY ONLY <1>14, SlotPlace
<1>16. \A q \in 0..(L - 1), k \in 0..(P - 1) :
          /\ q * P + k + 1 \in 1..(L * P)
          /\ ((q * P + k + 1) - 1) \div P = q /\ ((q * P + k + 1) - 1) % P = k
  <2> HIDE DEF S
  <2> QED BY ONLY <1>14, PlaceOf
<1>7. S \in Seq(STRING \cup {S[n] : n \in 1..(L * P)}) /\ Len(S) = L * P /\ DOMAIN S = 1..(L * P)
  BY <1>6
<1>8. ASSUME NEW n \in 1..(L * P)
      PROVE  \E q \in 0..(L - 1), k \in 0..(P - 1) :
               n = q * P + k + 1 /\ S[n] = <<T[q + 1], k>> /\ q + 1 \in 1..L
  <2>1. PICK q \in 0..(L - 1), k \in 0..(P - 1) :
               n = q * P + k + 1 /\ (n - 1) \div P = q /\ (n - 1) % P = k
    BY <1>15
  <2>2. S[n] = <<T[q + 1], k>> /\ q + 1 \in 1..L
    BY <2>1, <1>2
  <2> QED BY <2>1, <2>2
<1>9. ASSUME NEW q \in 0..(L - 1), NEW k \in 0..(P - 1)
      PROVE  q * P + k + 1 \in 1..(L * P) /\ S[q * P + k + 1] = <<T[q + 1], k>>
  <2>1. /\ q * P + k + 1 \in 1..(L * P)
        /\ ((q * P + k + 1) - 1) \div P = q /\ ((q * P + k + 1) - 1) % P = k
    BY <1>16
  <2> DEFINE n == q * P + k + 1
  <2>2. n \in 1..(L * P) /\ (n - 1) \div P = q /\ (n - 1) % P = k
    BY <2>1
  <2> HIDE DEF n
  <2>3. S[n] = <<T[q + 1], k>>
    BY <2>2
  <2> QED BY <2>2, <2>3 DEF n
<1>10. ASSUME NEW n \in 1..(L * P) PROVE S[n] \in SlotsOf(vol, s)
  BY <1>3, <1>8 DEF SlotsOf, P
<1>11. ASSUME NEW at \in SlotsOf(vol, s) PROVE \E n \in 1..(L * P) : S[n] = at
  <2>1. PICK x \in SectorsOf(vol, s), k \in 0..(P - 1) : at = <<x, k>>
    BY DEF SlotsOf, P
  <2>2. PICK i \in 1..L : T[i] = x
    BY <1>4
  <2>3. i - 1 \in 0..(L - 1) /\ (i - 1) + 1 = i
    BY <1>2
  <2> HIDE DEF S
  <2>4. (i - 1) * P + k + 1 \in 1..(L * P) /\ S[(i - 1) * P + k + 1] = <<T[(i - 1) + 1], k>>
    BY <1>9, <2>3
  <2> QED BY <2>1, <2>2, <2>3, <2>4
<1>12. ASSUME NEW n \in 1..(L * P), NEW l \in 1..(L * P), S[n] = S[l] PROVE n = l
  <2> HIDE DEF S
  <2>1. PICK q \in 0..(L - 1), k \in 0..(P - 1) :
               n = q * P + k + 1 /\ S[n] = <<T[q + 1], k>> /\ q + 1 \in 1..L
    BY <1>8
  <2>2. PICK r \in 0..(L - 1), h \in 0..(P - 1) :
               l = r * P + h + 1 /\ S[l] = <<T[r + 1], h>> /\ r + 1 \in 1..L
    BY <1>8
  <2>3. T[q + 1] = T[r + 1] /\ k = h
    BY <1>12, <2>1, <2>2
  <2>4. q = r
    <3>1. q + 1 = r + 1
      BY <1>5, <2>1, <2>2, <2>3
    <3> QED BY <3>1
  <2> QED BY <2>1, <2>2, <2>3, <2>4
<1>13. S[1] = <<T[1], 0>> /\ S[2] = <<T[1], 1>>
  <2>1. 0 \in 0..(L - 1) /\ 0 \in 0..(P - 1) /\ 1 \in 0..(P - 1)
    BY <1>2
  <2>2. 0 * P + 0 + 1 = 1 /\ 0 * P + 1 + 1 = 2 /\ 0 + 1 = 1
    BY <1>2
  <2> HIDE DEF S
  <2>3. S[0 * P + 0 + 1] = <<T[0 + 1], 0>> /\ S[0 * P + 1 + 1] = <<T[0 + 1], 1>>
    BY <1>9, <2>1
  <2> QED BY <2>2, <2>3
<1> HIDE DEF S
<1> QED BY <1>1, <1>6, <1>7, <1>10, <1>11, <1>12, <1>13 DEF T, P, L

\* Once an entry was never used, none after it was.
Ordered(vol, s) ==
    \A n, k \in 1..Len(Slots(vol, s)) :
        n <= k /\ EntryAt(vol, Slots(vol, s)[n]).name = "0"
            => EntryAt(vol, Slots(vol, s)[k]) = Unused

LEMMA EntryIs ==
    ASSUME NEW vol \in Image, NEW at \in Tables \X (0..(PerSector - 1))
    PROVE  /\ EntryAt(vol, at) \in Entry
           /\ EntryAt(vol, at).name = "0" => EntryAt(vol, at) = Unused
           /\ EntryAt(vol, at).name = "E5" => EntryAt(vol, at) = Deleted
<1>1. EntryAt(vol, at) \in Entry
  <2>1. at[1] \in Tables /\ at[2] \in 0..(PerSector - 1)
    OBVIOUS
  <2>2. vol.tab[at[1]] \in [0..(PerSector - 1) -> Entry]
    BY <2>1, ImageIs
  <2> QED BY <2>1, <2>2 DEF EntryAt
<1>2. \A e \in Entry : (e.name = "0" => e = Unused) /\ (e.name = "E5" => e = Deleted)
  BY NamesAssumption DEF Entry, Unused, Deleted, Marks, Dots
<1> QED BY <1>1, <1>2

LEMMA SlotsTyped ==
    ASSUME NEW vol \in Image, Linked(vol.fat), NEW s, HasTable(vol, s)
    PROVE  /\ SectorsOf(vol, s) \subseteq Tables
           /\ SlotsOf(vol, s) \subseteq Tables \X (0..(PerSector - 1))
           /\ \A at \in SlotsOf(vol, s) : EntryAt(vol, at) \in Entry
<1>1. SectorsOf(vol, s) \subseteq Tables
  BY TableIs DEF SectorsOf
<1>2. SlotsOf(vol, s) \subseteq Tables \X (0..(PerSector - 1))
  BY <1>1 DEF SlotsOf
<1> QED BY <1>1, <1>2, EntryIs

\* Where the search for an entry ends.
LEMMA FirstSlotIs ==
    ASSUME NEW vol \in Image, Linked(vol.fat), NEW s, HasTable(vol, s), NEW N
    PROVE  LET S == Slots(vol, s)
               f == FirstSlot(vol, s, N)
           IN  /\ f \in 1..(Len(S) + 1)
               /\ f <= Len(S) => EntryAt(vol, S[f]).name \in N
               /\ \A k \in 1..Len(S) : k < f => EntryAt(vol, S[k]).name \notin N
<1> DEFINE S == Slots(vol, s)
           hits == {n \in DOMAIN S : EntryAt(vol, S[n]).name \in N}
<1>1. Len(S) \in Nat /\ DOMAIN S = 1..Len(S)
  BY SlotsAre
<1>2. FirstSlot(vol, s, N)
        = IF hits = {} THEN Len(S) + 1 ELSE CHOOSE n \in hits : \A k \in hits : n <= k
  BY DEF FirstSlot, FirstHit
<1>3. hits \subseteq 1..Len(S) /\ \A n \in 1..Len(S) : n \in hits <=> EntryAt(vol, S[n]).name \in N
  BY <1>1
<1> HIDE DEF S, hits
<1>4. CASE hits = {}
  BY <1>1, <1>2, <1>3, <1>4 DEF S
<1>5. CASE hits # {}
  <2>1. \E n \in hits : \A k \in hits : n <= k
    <3>1. hits \subseteq Nat
      BY <1>1, <1>3
    <3> QED BY <3>1, <1>5, LeastOf
  <2>2. FirstSlot(vol, s, N) \in hits /\ \A k \in hits : FirstSlot(vol, s, N) <= k
    BY <1>2, <1>5, <2>1
  <2>3. FirstSlot(vol, s, N) \in 1..Len(S) /\ \A k \in 1..Len(S) : k < FirstSlot(vol, s, N) => k \notin hits
    <3> DEFINE f == FirstSlot(vol, s, N)
    <3> HIDE DEF f
    <3>1. f \in hits /\ \A k \in hits : f <= k
      BY <2>2 DEF f
    <3>2. f \in 1..Len(S)
      BY <1>3, <3>1
    <3>3. \A k \in 1..Len(S) : k < f => k \notin hits
      BY <1>1, <3>1, <3>2
    <3> QED BY <3>2, <3>3 DEF f
  <2>4. Len(S) \in Nat /\ S = Slots(vol, s)
    BY <1>1 DEF S
  <2> QED BY <1>3, <2>2, <2>3, <2>4
<1> QED BY <1>4, <1>5

\* The live entries, wherever they are.
Live(vol, s) == {at \in SlotsOf(vol, s) :
                   IsLive(EntryAt(vol, at)) /\ ~IsDot(EntryAt(vol, at).name)}

Named(vol, s) == {[s |-> s, at |-> at, e |-> EntryAt(vol, at)] : at \in Live(vol, s)}

LEMMA EntriesAre ==
    ASSUME NEW vol \in Image, Linked(vol.fat), NEW s, HasTable(vol, s), Ordered(vol, s)
    PROVE  Entries(vol, s) = Named(vol, s)
<1> DEFINE S == Slots(vol, s)
           f == FirstSlot(vol, s, {"0"})
           Obj(at) == [s |-> s, at |-> at, e |-> EntryAt(vol, at)]
<1>1. /\ Len(S) \in Nat
      /\ \A n \in 1..Len(S) : S[n] \in SlotsOf(vol, s)
      /\ \A at \in SlotsOf(vol, s) : \E n \in 1..Len(S) : S[n] = at
  BY SlotsAre
<1>2. /\ f \in 1..(Len(S) + 1)
      /\ f <= Len(S) => EntryAt(vol, S[f]).name = "0"
      /\ \A k \in 1..Len(S) : k < f => EntryAt(vol, S[k]).name # "0"
  BY FirstSlotIs
<1>3. Entries(vol, s) = {o \in {Obj(S[n]) : n \in 1..(f - 1)} : IsLive(o.e) /\ ~IsDot(o.e.name)}
  BY DEF Entries
<1> HIDE DEF f, S
<1>4. ASSUME NEW o \in Entries(vol, s) PROVE o \in Named(vol, s)
  <2>1. PICK n \in 1..(f - 1) : o = Obj(S[n]) /\ IsLive(o.e) /\ ~IsDot(o.e.name)
    BY <1>3
  <2>2. n \in 1..Len(S)
    BY <1>1, <1>2, <2>1
  <2>3. S[n] \in Live(vol, s)
    BY <1>1, <2>1, <2>2 DEF Live
  <2> QED BY <2>1, <2>3 DEF Named
<1>5. ASSUME NEW o \in Named(vol, s) PROVE o \in Entries(vol, s)
  <2>1. PICK at \in Live(vol, s) : o = Obj(at)
    BY DEF Named
  <2>2. PICK n \in 1..Len(S) : S[n] = at
    BY <1>1, <2>1 DEF Live
  <2>3. n < f
    <3>1. SUFFICES ASSUME f <= n PROVE FALSE
      BY <1>1, <1>2, <2>2
    <3>2. f \in 1..Len(S) /\ EntryAt(vol, S[f]).name = "0"
      BY <1>1, <1>2, <3>1
    <3>3. EntryAt(vol, S[n]) = Unused
      BY <3>1, <3>2 DEF Ordered, S
    <3> QED BY <2>1, <2>2, <3>3 DEF Live, IsLive, Unused, Marks
  <2>4. n \in 1..(f - 1)
    BY <1>1, <1>2, <2>3
  <2>5. IsLive(o.e) /\ ~IsDot(o.e.name)
    BY <2>1 DEF Live
  <2> QED BY <1>3, <2>1, <2>2, <2>4, <2>5
<1> QED BY <1>4, <1>5

----------------------------------------------------------------------------
(* Directories *)

LEMMA ClosureHas ==
    ASSUME NEW start, NEW links
    PROVE  /\ start \in Closure(start, links)
           /\ \A l \in links : l[1] \in Closure(start, links) => l[2] \in Closure(start, links)
BY DEF Closure

LEMMA ClosureLeast ==
    ASSUME NEW start, NEW links, NEW Y, start \in Y,
           \A l \in links : l[1] \in Y /\ l[1] \in Closure(start, links) => l[2] \in Y
    PROVE  Closure(start, links) \subseteq Y
<1> DEFINE C == Closure(start, links)
           all == {start} \cup {l[2] : l \in links}
           Z == Y \cap C
<1>1. start \in C /\ \A l \in links : l[1] \in C => l[2] \in C
  BY ClosureHas
<1>2. C \subseteq all /\ \A D \in SUBSET all :
         start \in D /\ (\A l \in links : l[1] \in D => l[2] \in D) => C \subseteq D
  BY DEF Closure
<1> HIDE DEF C, all
<1>3. Z \in SUBSET all /\ start \in Z
  BY <1>1, <1>2
<1>4. \A l \in links : l[1] \in Z => l[2] \in Z
  BY <1>1 DEF C
<1>5. C \subseteq Z
  BY <1>2, <1>3, <1>4
<1> QED BY <1>5 DEF C

LEMMA DirectoriesHave ==
    ASSUME NEW vol
    PROVE  /\ 0 \in Directories(vol)
           /\ \A s \in Directories(vol) : s \in {0} \cup Clusters =>
                \A o \in Entries(vol, s) : o.e.dir => o.e.clust \in Directories(vol)
<1> DEFINE links == UNION {SubLinks(vol, s) : s \in {0} \cup Clusters}
<1>1. Directories(vol) = Closure(0, links)
  BY DEF Directories
<1>2. ASSUME NEW s \in {0} \cup Clusters, NEW o \in Entries(vol, s), o.e.dir
      PROVE  <<s, o.e.clust>> \in links
  BY <1>2 DEF SubLinks
<1> HIDE DEF links
<1>3. \A l \in links : l[1] \in Directories(vol) => l[2] \in Directories(vol)
  BY <1>1, ClosureHas
<1>4. 0 \in Directories(vol)
  BY <1>1, ClosureHas
<1> QED BY <1>2, <1>3, <1>4

LEMMA DirectoriesLeast ==
    ASSUME NEW vol, NEW Y, 0 \in Y,
           \A s \in Y \cap Directories(vol) : s \in {0} \cup Clusters =>
                \A o \in Entries(vol, s) : o.e.dir => o.e.clust \in Y
    PROVE  Directories(vol) \subseteq Y
<1> DEFINE links == UNION {SubLinks(vol, s) : s \in {0} \cup Clusters}
<1>1. Directories(vol) = Closure(0, links)
  BY DEF Directories
<1>2. ASSUME NEW l \in links
      PROVE  \E s \in {0} \cup Clusters : \E o \in Entries(vol, s) :
                o.e.dir /\ l = <<s, o.e.clust>>
  BY DEF SubLinks
<1> HIDE DEF links
<1>3. \A l \in links : l[1] \in Y /\ l[1] \in Closure(0, links) => l[2] \in Y
  BY <1>1, <1>2
<1> QED BY <1>1, <1>3, ClosureLeast

\* D is the set of directories.
IsTree(vol, D) ==
    /\ 0 \in D /\ D \subseteq {0} \cup Clusters
    /\ \A s \in D : HasTable(vol, s) /\ Ordered(vol, s)
    /\ \A s \in D : \A at \in Live(vol, s) :
          EntryAt(vol, at).dir => EntryAt(vol, at).clust \in D
    /\ \A Y \in SUBSET D :
          0 \in Y /\ (\A s \in Y : \A at \in Live(vol, s) :
                         EntryAt(vol, at).dir => EntryAt(vol, at).clust \in Y)
          => Y = D

LEMMA TreeIs ==
    ASSUME NEW vol \in Image, Linked(vol.fat), NEW D, IsTree(vol, D)
    PROVE  /\ Directories(vol) = D
           /\ \A s \in D : Entries(vol, s) = Named(vol, s)
           /\ Objects(vol) = UNION {Named(vol, s) : s \in D}
<1>1. \A s \in D : Entries(vol, s) = Named(vol, s)
  BY EntriesAre DEF IsTree
<1>2. Directories(vol) \subseteq D
  <2>1. \A s \in D : \A o \in Entries(vol, s) : o.e.dir => o.e.clust \in D
    BY <1>1 DEF IsTree, Named
  <2> QED BY <2>1, DirectoriesLeast DEF IsTree
<1>3. Directories(vol) = D
  <2>1. ASSUME NEW s \in Directories(vol), NEW at \in Live(vol, s), EntryAt(vol, at).dir
        PROVE  EntryAt(vol, at).clust \in Directories(vol)
    <3>1. s \in D /\ s \in {0} \cup Clusters
      BY <1>2 DEF IsTree
    <3>2. [s |-> s, at |-> at, e |-> EntryAt(vol, at)] \in Entries(vol, s)
      BY <1>1, <3>1 DEF Named
    <3> QED BY <2>1, <3>1, <3>2, DirectoriesHave
  <2> QED BY <1>2, <2>1, DirectoriesHave DEF IsTree
<1> QED BY <1>1, <1>3 DEF Objects

\* Of a volume whose tables are all in order, they are the set.
LEMMA TreeOf ==
    ASSUME NEW vol \in Image, Linked(vol.fat),
           \A s \in Directories(vol) :
               s \in {0} \cup Clusters /\ HasTable(vol, s) /\ Ordered(vol, s)
    PROVE  IsTree(vol, Directories(vol))
<1> DEFINE D == Directories(vol)
<1>1. \A s \in D : Entries(vol, s) = Named(vol, s)
  BY EntriesAre
<1>2. 0 \in D /\ D \subseteq {0} \cup Clusters
  BY DirectoriesHave
<1>3. ASSUME NEW s \in D, NEW at \in Live(vol, s), EntryAt(vol, at).dir
      PROVE  EntryAt(vol, at).clust \in D
  <2>1. [s |-> s, at |-> at, e |-> EntryAt(vol, at)] \in Entries(vol, s)
    BY <1>1 DEF Named
  <2> QED BY <1>2, <1>3, <2>1, DirectoriesHave
<1>4. ASSUME NEW Y \in SUBSET D, 0 \in Y,
             \A s \in Y : \A at \in Live(vol, s) :
                EntryAt(vol, at).dir => EntryAt(vol, at).clust \in Y
      PROVE  Y = D
  <2>1. ASSUME NEW s \in Y, NEW o \in Entries(vol, s), o.e.dir PROVE o.e.clust \in Y
    <3>1. o \in Named(vol, s)
      BY <1>1
    <3> QED BY <1>4, <2>1, <3>1 DEF Named
  <2>2. D \subseteq Y
    BY <1>4, <2>1, DirectoriesLeast
  <2> QED BY <2>2
<1> QED BY <1>2, <1>3, <1>4 DEF IsTree

----------------------------------------------------------------------------
(* What is kept of a volume *)

\* D are the directories; the start clusters are starts of chains, names are
\* different in a table, entries of dots are where they belong, and free
\* clusters are blank.
HeadsProper(vol, D) ==
    \A s \in D : \A at \in Live(vol, s) :
        EntryAt(vol, at).clust \in Clusters =>
            /\ Proper(vol.fat, EntryAt(vol, at).clust)
            /\ EntryAt(vol, at).clust # vol.dirbase

NamesApart(vol, D) ==
    \A s \in D : \A at, bt \in Live(vol, s) :
        EntryAt(vol, at).name = EntryAt(vol, bt).name => at = bt

DotsInPlace(vol, D) ==
    \A s \in D : \A at \in SlotsOf(vol, s) :
        IsDot(EntryAt(vol, at).name) => s # 0 /\ at \in {<<s, 0>>, <<s, 1>>}

FreeIsBlank(vol) == \A c \in Clusters : vol.fat[c] = 0 => vol.tab[c] = Blank
Forest(vol, D) ==
    /\ vol \in Image /\ Linked(vol.fat) /\ IsTree(vol, D)
    /\ HeadsProper(vol, D) /\ NamesApart(vol, D) /\ DotsInPlace(vol, D) /\ FreeIsBlank(vol)

\* Every start cluster has one name, and directories lead back.
NamedOnce(vol, D) ==
    \A s, t \in D : \A at \in Live(vol, s), bt \in Live(vol, t) :
        EntryAt(vol, at).clust = EntryAt(vol, bt).clust /\ EntryAt(vol, at).clust \in Clusters
            => at = bt

BackFrom(vol, s, c) ==
    vol.tab[c][0] = Dir(".", c) /\ vol.tab[c][1] = Dir("..", s)

AllBack(vol, D) ==
    \A s \in D : \A at \in Live(vol, s) :
        EntryAt(vol, at).dir => BackFrom(vol, s, EntryAt(vol, at).clust)

Single(vol, D) == Forest(vol, D) /\ NamedOnce(vol, D) /\ AllBack(vol, D)

\* A directory that is not the root has a name.
LEMMA DirNamed ==
    ASSUME NEW vol, NEW D, IsTree(vol, D), NEW c \in D, c # 0
    PROVE  \E s \in D : \E at \in Live(vol, s) :
              EntryAt(vol, at).dir /\ EntryAt(vol, at).clust = c
<1> DEFINE Y == {x \in D : x = 0 \/ \E s \in D : \E at \in Live(vol, s) :
                     EntryAt(vol, at).dir /\ EntryAt(vol, at).clust = x}
<1>1. Y = D
  <2>1. \A s \in Y : \A at \in Live(vol, s) : EntryAt(vol, at).dir => EntryAt(vol, at).clust \in Y
    BY DEF IsTree
  <2>2. 0 \in Y /\ Y \in SUBSET D
    BY DEF IsTree
  <2> HIDE DEF Y
  <2> QED BY <2>1, <2>2 DEF IsTree
<1> QED BY <1>1

LEMMA DirProper ==
    ASSUME NEW vol, NEW D, Forest(vol, D), NEW c \in D, c # 0
    PROVE  c \in Clusters /\ Proper(vol.fat, c) /\ c # vol.dirbase /\ c \notin {0, Bad, Eoc}
<1>1. c \in Clusters
  BY DEF Forest, IsTree
<1>2. \E s \in D : \E at \in Live(vol, s) : EntryAt(vol, at).clust = c
  BY DirNamed DEF Forest
<1> QED BY <1>1, <1>2, ClustersAre DEF Forest, HeadsProper

\* Tables of two directories have no sector in common.
LEMMA DirsApart ==
    ASSUME NEW vol, NEW D, Forest(vol, D), NEW s \in D, NEW t \in D,
           NEW x \in SectorsOf(vol, s), x \in SectorsOf(vol, t)
    PROVE  s = t
<1>1. Base(vol, s) = Base(vol, t) => s = t
  BY DirProper DEF Base
<1>2. PICK i \in 1..Len(Table(vol, s)) : x = Table(vol, s)[i]
  BY DEF SectorsOf
<1>3. PICK j \in 1..Len(Table(vol, t)) : x = Table(vol, t)[j]
  BY DEF SectorsOf
<1> QED BY <1>1, <1>2, <1>3, TablesApart DEF Forest, IsTree

LEMMA SlotsApart ==
    ASSUME NEW vol, NEW D, Forest(vol, D), NEW s \in D, NEW t \in D,
           NEW at \in SlotsOf(vol, s), at \in SlotsOf(vol, t)
    PROVE  s = t
BY DirsApart DEF SlotsOf

LEMMA EntryTypes ==
    ASSUME NEW e \in Entry
    PROVE  /\ e.dir \in BOOLEAN /\ e.clust \in Clusters \cup {0, Bad}
           /\ e.name \in Names \cup Marks \cup Dots
           /\ e.name \in Names \/ e.name \in Dots => IsLive(e)
           /\ e.name \in Names => ~IsDot(e.name)
           /\ ~IsLive(e) => e \in {Unused, Deleted}
           /\ e.name \in Names /\ e.dir => e.clust \in Clusters
<1>1. CASE e \in {Unused, Deleted}
  <2>1. Unused = [name |-> "0", dir |-> FALSE, clust |-> 0]
    BY DEF Unused
  <2>2. Deleted.name = "E5" /\ Deleted.dir = FALSE /\ Deleted.clust = 0
    BY <2>1 DEF Deleted
  <2>3. e.name \in Marks /\ e.dir = FALSE /\ e.clust = 0
    BY <1>1, <2>1, <2>2 DEF Marks
  <2>4. e.name \notin Names /\ e.name \notin Dots
    BY <2>3, NamesAssumption DEF Marks, Dots
  <2> QED BY <1>1, <2>3, <2>4
<1>2. CASE e \in [name : Names, dir : {FALSE}, clust : Clusters \cup {0, Bad}]
  <2>1. e.name \in Names /\ e.dir = FALSE /\ e.clust \in Clusters \cup {0, Bad}
    BY <1>2
  <2>2. e.name \notin Marks /\ e.name \notin Dots
    BY <2>1, NamesAssumption
  <2> QED BY <2>1, <2>2 DEF IsLive, IsDot
<1>3. CASE e \in [name : Names, dir : {TRUE}, clust : Clusters]
  <2>1. e.name \in Names /\ e.dir = TRUE /\ e.clust \in Clusters
    BY <1>3
  <2>2. e.name \notin Marks /\ e.name \notin Dots
    BY <2>1, NamesAssumption
  <2> QED BY <2>1, <2>2 DEF IsLive, IsDot
<1>4. CASE e \in [name : Dots, dir : {TRUE}, clust : Clusters \cup {0}]
  <2>1. e.name \in Dots /\ e.dir = TRUE /\ e.clust \in Clusters \cup {0}
    BY <1>4
  <2>2. e.name \notin Marks /\ e.name \notin Names
    BY <2>1, NamesAssumption DEF Marks, Dots
  <2> QED BY <2>1, <2>2 DEF IsLive, IsDot
<1> QED BY <1>1, <1>2, <1>3, <1>4 DEF Entry

\* What an entry with a name of its own is.
LEMMA LiveIs ==
    ASSUME NEW vol \in Image, Linked(vol.fat), NEW s, HasTable(vol, s), NEW at \in Live(vol, s)
    PROVE  LET e == EntryAt(vol, at)
           IN  /\ at \in SlotsOf(vol, s) /\ e \in Entry /\ e.name \in Names
               /\ e.dir \in BOOLEAN /\ e.clust \in Clusters \cup {0, Bad}
               /\ e.dir => e.clust \in Clusters
<1>1. at \in SlotsOf(vol, s) /\ EntryAt(vol, at) \in Entry
  BY SlotsTyped DEF Live
<1>2. IsLive(EntryAt(vol, at)) /\ ~IsDot(EntryAt(vol, at).name)
  BY DEF Live
<1>3. EntryAt(vol, at).name \in Names
  BY <1>1, <1>2, EntryTypes DEF IsLive, IsDot
<1> QED BY <1>1, <1>3, EntryTypes

\* The clusters that the volume starts at and those that entries start at.
Owner(vol, D, c) ==
    /\ c \in Clusters
    /\ c = vol.dirbase \/ \E s \in D : \E at \in Live(vol, s) : EntryAt(vol, at).clust = c

\* A chain that is part of nothing.
Loose(vol, D, c) == Proper(vol.fat, c) /\ ~Owner(vol, D, c)

LEMMA OwnerProper ==
    ASSUME NEW vol, NEW D, Forest(vol, D), NEW c, Owner(vol, D, c)
    PROVE  Proper(vol.fat, c)
<1>1. CASE c = vol.dirbase
  <2>1. HasTable(vol, 0) /\ c # 0
    BY ClustersAre DEF Forest, IsTree, Owner
  <2> QED BY <1>1, <2>1 DEF HasTable, IsStatic, Base
<1>2. CASE c # vol.dirbase
  BY <1>2 DEF Owner, Forest, HeadsProper
<1> QED BY <1>1, <1>2

LEMMA BaseOwner ==
    ASSUME NEW vol, NEW D, Forest(vol, D), NEW s \in D, ~IsStatic(vol, s)
    PROVE  /\ Owner(vol, D, Base(vol, s)) /\ Proper(vol.fat, Base(vol, s))
           /\ Table(vol, s) = Chain(vol.fat, Base(vol, s))
<1>1. CASE s = 0
  <2>1. vol.dirbase \in Clusters
    BY <1>1, ImageIs DEF Forest, IsStatic
  <2> QED BY <1>1, <2>1, OwnerProper DEF Owner, Base, Table
<1>2. CASE s # 0
  <2>1. s \in Clusters
    BY <1>2 DEF Forest, IsTree
  <2>2. \E t \in D : \E at \in Live(vol, t) : EntryAt(vol, at).clust = s
    BY <1>2, DirNamed DEF Forest
  <2> QED BY <1>2, <2>1, <2>2, OwnerProper DEF Owner, Base, Table
<1> QED BY <1>1, <1>2

\* The clusters of a loose chain are in no table.
LEMMA LooseOut ==
    ASSUME NEW vol, NEW D, Forest(vol, D), NEW c, Loose(vol, D, c), NEW s \in D,
           NEW i \in 1..Len(Chain(vol.fat, c))
    PROVE  Chain(vol.fat, c)[i] \notin SectorsOf(vol, s)
<1> DEFINE q == Chain(vol.fat, c)
           T == Table(vol, s)
<1>1. SUFFICES ASSUME NEW j \in 1..Len(T), q[i] = T[j] PROVE FALSE
  BY DEF SectorsOf
<1>2. IsWalk(vol.fat, c, q) /\ q[i] \in Clusters /\ vol.fat \in Fats /\ Linked(vol.fat)
  BY ProperChain, ImageIs DEF Loose, Forest
<1>3. CASE IsStatic(vol, s)
  BY <1>1, <1>2, <1>3, TableIs DEF Forest, IsTree
<1>4. CASE ~IsStatic(vol, s)
  <2>1. /\ Owner(vol, D, Base(vol, s)) /\ Proper(vol.fat, Base(vol, s))
        /\ T = Chain(vol.fat, Base(vol, s))
    BY <1>4, BaseOwner
  <2>2. IsWalk(vol.fat, Base(vol, s), T)
    BY <1>2, <2>1, ProperChain
  <2>3. c = Base(vol, s)
    BY <1>1, <1>2, <2>1, <2>2, WalksApart DEF Loose
  <2> QED BY <2>1, <2>3 DEF Loose
<1> QED BY <1>3, <1>4

LEMMA LooseHead ==
    ASSUME NEW vol, NEW D, Forest(vol, D), NEW c, Loose(vol, D, c), NEW s \in D
    PROVE  c \notin SectorsOf(vol, s) /\ c \in Clusters /\ c \notin D
<1>1. Chain(vol.fat, c)[1] = c /\ 1 \in 1..Len(Chain(vol.fat, c))
  BY ProperChain, ImageIs DEF Loose, Forest
<1>2. c \in Clusters /\ c # 0
  BY ClustersAre DEF Loose, Proper
<1>3. c \notin D
  BY <1>2, DirNamed DEF Loose, Owner, Forest
<1> QED BY <1>1, <1>2, <1>3, LooseOut

\* The first sector of a directory that is not the root is the cluster it starts at.
LEMMA FirstSector ==
    ASSUME NEW vol, NEW D, Forest(vol, D), NEW s \in D, s # 0
    PROVE  Table(vol, s)[1] = s /\ s \in SectorsOf(vol, s)
<1>1. ~IsStatic(vol, s) /\ Base(vol, s) = s
  BY DEF IsStatic, Base
<1>2. Proper(vol.fat, s) /\ Table(vol, s) = Chain(vol.fat, s)
  BY <1>1, BaseOwner
<1>3. Table(vol, s)[1] = s /\ 1 \in 1..Len(Table(vol, s))
  BY <1>2, ProperChain, ImageIs DEF Forest
<1> QED BY <1>3 DEF SectorsOf

\* A change that touches no entry that is live and no chain that starts at one.
LEMMA CoreKept ==
    ASSUME NEW vol, NEW D, Forest(vol, D), NEW w \in Image, Linked(w.fat), FreeIsBlank(w),
           w.dirbase = vol.dirbase,
           \A d : Owner(vol, D, d) => Proper(w.fat, d),
           \A s \in D : Ordered(w, s) /\ Live(w, s) = Live(vol, s),
           \A s \in D : \A at \in Live(vol, s) : EntryAt(w, at) = EntryAt(vol, at),
           DotsInPlace(w, D)
    PROVE  /\ Forest(w, D) /\ (NamedOnce(vol, D) => NamedOnce(w, D))
           /\ \A d : Owner(w, D, d) <=> Owner(vol, D, d)
<1>1. \A s \in D : HasTable(w, s)
  <2> SUFFICES ASSUME NEW s \in D, ~IsStatic(w, s) PROVE Proper(w.fat, Base(w, s))
    BY DEF HasTable
  <2>1. ~IsStatic(vol, s) /\ Base(w, s) = Base(vol, s)
    BY DEF IsStatic, Base
  <2> QED BY <2>1, BaseOwner
<1>2. IsTree(w, D)
  <2>1. 0 \in D /\ D \subseteq {0} \cup Clusters
    BY DEF Forest, IsTree
  <2>2. \A s \in D : \A at \in Live(w, s) : EntryAt(w, at).dir => EntryAt(w, at).clust \in D
    BY DEF Forest, IsTree
  <2>3. ASSUME NEW Y \in SUBSET D, 0 \in Y,
               \A s \in Y : \A at \in Live(w, s) : EntryAt(w, at).dir => EntryAt(w, at).clust \in Y
        PROVE  Y = D
    <3>1. \A s \in Y : \A at \in Live(vol, s) : EntryAt(vol, at).dir => EntryAt(vol, at).clust \in Y
      BY <2>3
    <3> QED BY <2>3, <3>1 DEF Forest, IsTree
  <2> QED BY <1>1, <2>1, <2>2, <2>3 DEF IsTree
<1>3. HeadsProper(w, D)
  BY DEF HeadsProper, Forest, Owner
<1>4. NamesApart(w, D)
  BY DEF NamesApart, Forest
<1>5. NamedOnce(vol, D) => NamedOnce(w, D)
  BY DEF NamedOnce
<1>6. \A d : Owner(w, D, d) <=> Owner(vol, D, d)
  BY DEF Owner
<1> QED BY <1>2, <1>3, <1>4, <1>5, <1>6 DEF Forest

LEMMA LiveOnSlots ==
    ASSUME NEW vol, NEW w, NEW s, SectorsOf(w, s) = SectorsOf(vol, s),
           \A x \in SectorsOf(vol, s) : w.tab[x] = vol.tab[x]
    PROVE  /\ SlotsOf(w, s) = SlotsOf(vol, s) /\ Live(w, s) = Live(vol, s)
           /\ \A at \in SlotsOf(vol, s) : EntryAt(w, at) = EntryAt(vol, at)
<1>1. SlotsOf(w, s) = SlotsOf(vol, s)
  BY DEF SlotsOf
<1>2. \A at \in SlotsOf(vol, s) : at[1] \in SectorsOf(vol, s)
  BY DEF SlotsOf
<1>3. \A at \in SlotsOf(vol, s) : EntryAt(w, at) = EntryAt(vol, at)
  BY <1>2 DEF EntryAt
<1> QED BY <1>1, <1>3 DEF Live

\* The tables are the same, and their entries.
Stays(vol, w, D) ==
    /\ \A d : Owner(w, D, d) <=> Owner(vol, D, d)
    /\ \A s \in D : /\ Table(w, s) = Table(vol, s) /\ SlotsOf(w, s) = SlotsOf(vol, s)
                    /\ Live(w, s) = Live(vol, s)
                    /\ \A at \in SlotsOf(vol, s) : EntryAt(w, at) = EntryAt(vol, at)

\* A change that touches no table and no chain that starts at an entry.
LEMMA Kept ==
    ASSUME NEW vol, NEW D, Forest(vol, D), NEW w \in Image, Linked(w.fat), FreeIsBlank(w),
           w.dirbase = vol.dirbase,
           \A d : Owner(vol, D, d) =>
               Proper(w.fat, d) /\ Chain(w.fat, d) = Chain(vol.fat, d),
           \A s \in D : \A x \in SectorsOf(vol, s) : w.tab[x] = vol.tab[x]
    PROVE  /\ Forest(w, D) /\ (NamedOnce(vol, D) => NamedOnce(w, D))
           /\ (AllBack(vol, D) => AllBack(w, D)) /\ Stays(vol, w, D)
<1>1. \A s \in D : Table(w, s) = Table(vol, s)
  <2> SUFFICES ASSUME NEW s \in D PROVE Table(w, s) = Table(vol, s)
    OBVIOUS
  <2>1. CASE IsStatic(vol, s)
    BY <2>1 DEF Table, IsStatic
  <2>2. CASE ~IsStatic(vol, s)
    <3>1. ~IsStatic(w, s) /\ Base(w, s) = Base(vol, s)
      BY <2>2 DEF IsStatic, Base
    <3>2. Chain(w.fat, Base(vol, s)) = Chain(vol.fat, Base(vol, s))
      BY <2>2, BaseOwner
    <3> QED BY <2>2, <3>1, <3>2 DEF Table, Base
  <2> QED BY <2>1, <2>2
<1>2. \A s \in D : SectorsOf(w, s) = SectorsOf(vol, s)
  BY <1>1 DEF SectorsOf
<1>3. \A s \in D : /\ SlotsOf(w, s) = SlotsOf(vol, s) /\ Live(w, s) = Live(vol, s)
                   /\ \A at \in SlotsOf(vol, s) : EntryAt(w, at) = EntryAt(vol, at)
  BY <1>2, LiveOnSlots
<1>4. \A s \in D : Ordered(w, s)
  <2> SUFFICES ASSUME NEW s \in D PROVE Ordered(w, s)
    OBVIOUS
  <2>1. Slots(w, s) = Slots(vol, s)
    BY <1>1 DEF Slots
  <2>2. \A n \in 1..Len(Slots(vol, s)) : Slots(vol, s)[n] \in SlotsOf(vol, s)
    BY SlotsAre DEF Forest, IsTree
  <2>3. Ordered(vol, s)
    BY DEF Forest, IsTree
  <2> QED BY <1>3, <2>1, <2>2, <2>3 DEF Ordered
<1>5. DotsInPlace(w, D)
  BY <1>3 DEF DotsInPlace, Forest
<1>6. \A s \in D : \A at \in Live(vol, s) : EntryAt(w, at) = EntryAt(vol, at)
  BY <1>3 DEF Live
<1>7. /\ Forest(w, D) /\ (NamedOnce(vol, D) => NamedOnce(w, D))
      /\ \A d : Owner(w, D, d) <=> Owner(vol, D, d)
  BY <1>3, <1>4, <1>5, <1>6, CoreKept
<1>8. ASSUME AllBack(vol, D), NEW s \in D, NEW at \in Live(w, s), EntryAt(w, at).dir
      PROVE  BackFrom(w, s, EntryAt(w, at).clust)
  <2> DEFINE c == EntryAt(vol, at).clust
  <2>1. at \in Live(vol, s) /\ EntryAt(w, at) = EntryAt(vol, at)
    BY <1>3, <1>6, <1>8
  <2>2. c \in D /\ c # 0
    <3>1. c \in D
      BY <1>8, <2>1 DEF Forest, IsTree
    <3>2. c \in Clusters
      BY <1>8, <2>1, LiveIs DEF Forest, IsTree
    <3> QED BY <3>1, <3>2, ClustersAre
  <2>3. w.tab[c] = vol.tab[c]
    BY <2>2, FirstSector
  <2> QED BY <1>8, <2>1, <2>3 DEF AllBack, BackFrom
<1> QED BY <1>1, <1>3, <1>7, <1>8 DEF AllBack, Stays

----------------------------------------------------------------------------
(* Changes that leave every entry as it is *)

\* The changes of a volume.
WithLink(vol, c, x) == [vol EXCEPT !.fat[c] = x]
WithFree(vol, c) == [vol EXCEPT !.fat[c] = 0, !.tab[c] = Blank]
WithTable(vol, c, es) == [vol EXCEPT !.tab[c] = es]
WithRaw(vol, r) == [vol EXCEPT !.raw = r]
WithEntry(vol, at, e) == [vol EXCEPT !.tab[at[1]][at[2]] = e]
\* And of an entry.
WithStart(e, c) == [e EXCEPT !.clust = c]
WithName(e, n) == [e EXCEPT !.name = n]

\* The entries are the same.
Alike(vol, w, D) ==
    /\ w.dirbase = vol.dirbase
    /\ \A s \in D : Live(w, s) = Live(vol, s)
    /\ \A s \in D : \A at \in Live(vol, s) : EntryAt(w, at) = EntryAt(vol, at)

\* The chain that starts at d is the same.
Spared(vol, w, d) == Proper(w.fat, d) /\ Chain(w.fat, d) = Chain(vol.fat, d)

LEMMA AlikeBoth ==
    ASSUME NEW u, NEW v, NEW w, NEW D, Alike(u, v, D), Alike(v, w, D)
    PROVE  Alike(u, w, D)
BY DEF Alike

\* A free cluster is marked as the end of a chain.
LEMMA Marked ==
    ASSUME NEW vol, NEW D, Single(vol, D), NEW n \in Clusters, vol.fat[n] = 0,
           NEW w, w = WithLink(vol, n, Eoc)
    PROVE  /\ Single(w, D) /\ Alike(vol, w, D) /\ Loose(w, D, n)
           /\ w.fat[n] = Eoc /\ w.tab[n] = Blank /\ w.raw = vol.raw
           /\ \A d : Proper(vol.fat, d) => d # n /\ Spared(vol, w, d)
<1> USE DEF WithLink
<1>1. vol \in Image /\ Linked(vol.fat) /\ Forest(vol, D) /\ vol.fat \in Fats /\ FreeIsBlank(vol)
  BY ImageIs DEF Single, Forest
<1>2. w \in Image /\ w.fat = [vol.fat EXCEPT ![n] = Eoc] /\ w.tab = vol.tab
      /\ w.raw = vol.raw /\ w.dirbase = vol.dirbase /\ w.fat \in Fats
  BY <1>1, ImageIs DEF Image, Fats
<1>3. w.fat[n] = Eoc /\ \A x \in Clusters : x # n => w.fat[x] = vol.fat[x]
  BY <1>1, <1>2 DEF Fats
<1>4. \A x \in Clusters : vol.fat[x] # n
  BY <1>1, ClustersAre DEF Linked
<1>5. Linked(w.fat)
  BY <1>1, <1>3, <1>4, ClustersAre DEF Linked
<1>6. FreeIsBlank(w)
  BY <1>1, <1>2, <1>3, ClustersAre DEF FreeIsBlank
<1>7. ASSUME NEW d, Proper(vol.fat, d) PROVE d # n /\ Spared(vol, w, d)
  <2>1. d # n /\ Proper(w.fat, d)
    BY <1>3, <1>7, ClustersAre DEF Proper
  <2>2. \A i \in 1..Len(Chain(vol.fat, d)) :
           w.fat[Chain(vol.fat, d)[i]] = vol.fat[Chain(vol.fat, d)[i]]
    <3>1. \A i \in 1..Len(Chain(vol.fat, d)) :
             Chain(vol.fat, d)[i] \in Clusters /\ vol.fat[Chain(vol.fat, d)[i]] # 0
      BY <1>1, <1>7, ProperChain
    <3> QED BY <1>3, <3>1
  <2> QED BY <1>1, <1>2, <1>5, <1>7, <2>1, <2>2, ChainSame DEF Spared
<1>8. \A d : Owner(vol, D, d) => Proper(w.fat, d) /\ Chain(w.fat, d) = Chain(vol.fat, d)
  BY <1>1, <1>7, OwnerProper DEF Spared
<1>9. /\ Forest(w, D) /\ (NamedOnce(vol, D) => NamedOnce(w, D))
      /\ (AllBack(vol, D) => AllBack(w, D)) /\ Stays(vol, w, D)
  BY <1>1, <1>2, <1>5, <1>6, <1>8, Kept
<1>10. Loose(w, D, n)
  <2>1. Proper(w.fat, n)
    BY <1>3, <1>4, ClustersAre DEF Proper
  <2> QED BY <1>1, <1>7, <1>9, <2>1, OwnerProper DEF Loose, Stays
<1>11. Alike(vol, w, D)
  BY <1>2, <1>9 DEF Alike, Live, Stays
<1> QED BY <1>1, <1>2, <1>3, <1>7, <1>9, <1>10, <1>11 DEF Single, FreeIsBlank

\* A table that is part of nothing is written.
LEMMA Retabled ==
    ASSUME NEW vol, NEW D, Single(vol, D), NEW c, Loose(vol, D, c),
           NEW es \in [0..(PerSector - 1) -> Entry], NEW w, w = WithTable(vol, c, es)
    PROVE  /\ Single(w, D) /\ Alike(vol, w, D) /\ Loose(w, D, c)
           /\ w.fat = vol.fat /\ w.tab[c] = es /\ w.raw = vol.raw
           /\ \A d : Proper(vol.fat, d) => Spared(vol, w, d)
<1> USE DEF WithTable
<1>1. vol \in Image /\ Linked(vol.fat) /\ Forest(vol, D) /\ FreeIsBlank(vol)
      /\ vol.tab \in [Tables -> [0..(PerSector - 1) -> Entry]]
  BY ImageIs DEF Single, Forest
<1>2. c \in Clusters /\ c \in Tables /\ vol.fat[c] # 0 /\ \A s \in D : c \notin SectorsOf(vol, s)
  BY <1>1, LooseHead, SizesAre DEF Loose, Proper
<1>3. w \in Image /\ w.fat = vol.fat /\ w.tab = [vol.tab EXCEPT ![c] = es]
      /\ w.raw = vol.raw /\ w.dirbase = vol.dirbase
  BY <1>1, <1>2, ImageIs DEF Image
<1>4. w.tab[c] = es /\ \A x \in Tables : x # c => w.tab[x] = vol.tab[x]
  BY <1>1, <1>2, <1>3
<1>5. FreeIsBlank(w)
  BY <1>1, <1>2, <1>3, <1>4, SizesAre DEF FreeIsBlank
<1>6. \A s \in D : \A x \in SectorsOf(vol, s) : w.tab[x] = vol.tab[x]
  <2>1. \A s \in D : SectorsOf(vol, s) \subseteq Tables
    BY <1>1, SlotsTyped DEF Forest, IsTree
  <2> QED BY <1>2, <1>4, <2>1
<1>7. /\ Forest(w, D) /\ (NamedOnce(vol, D) => NamedOnce(w, D))
      /\ (AllBack(vol, D) => AllBack(w, D)) /\ Stays(vol, w, D)
  BY <1>1, <1>3, <1>5, <1>6, Kept, OwnerProper
<1>8. Alike(vol, w, D)
  BY <1>3, <1>7 DEF Alike, Live, Stays
<1> QED BY <1>3, <1>4, <1>7, <1>8 DEF Single, Loose, Spared, Stays

\* The mark of an uncleared table.
LEMMA Rawed ==
    ASSUME NEW vol, NEW D, Single(vol, D), NEW r \in SUBSET Clusters,
           NEW w, w = WithRaw(vol, r)
    PROVE  /\ Single(w, D) /\ Alike(vol, w, D) /\ w.raw = r
           /\ w.fat = vol.fat /\ w.tab = vol.tab
           /\ \A d : Proper(vol.fat, d) => Spared(vol, w, d)
<1> USE DEF WithRaw
<1>1. vol \in Image /\ Linked(vol.fat) /\ Forest(vol, D) /\ FreeIsBlank(vol)
  BY DEF Single, Forest
<1>2. w \in Image /\ w.fat = vol.fat /\ w.tab = vol.tab /\ w.raw = r /\ w.dirbase = vol.dirbase
  BY <1>1, ImageIs DEF Image
<1>3. FreeIsBlank(w)
  BY <1>1, <1>2 DEF FreeIsBlank
<1>4. /\ Forest(w, D) /\ (NamedOnce(vol, D) => NamedOnce(w, D))
      /\ (AllBack(vol, D) => AllBack(w, D)) /\ Stays(vol, w, D)
  BY <1>1, <1>2, <1>3, Kept, OwnerProper
<1>5. Alike(vol, w, D)
  BY <1>2, <1>4 DEF Alike, Live, Stays
<1> QED BY <1>2, <1>4, <1>5 DEF Single, Spared

\* The first cluster of a chain that is part of nothing is freed.
LEMMA Freed ==
    ASSUME NEW vol, NEW D, Single(vol, D), NEW c, Loose(vol, D, c),
           NEW w, w = WithFree(vol, c)
    PROVE  /\ Single(w, D) /\ Alike(vol, w, D) /\ w.raw = vol.raw /\ w.fat[c] = 0
           /\ \A x \in Clusters : x # c => w.fat[x] = vol.fat[x]
           /\ vol.fat[c] \in Clusters => Loose(w, D, vol.fat[c]) /\ vol.fat[c] # c
           /\ \A d : Proper(vol.fat, d) /\ d # c => Spared(vol, w, d) /\ d # vol.fat[c]
<1> USE DEF WithFree
<1>1. vol \in Image /\ Linked(vol.fat) /\ Forest(vol, D) /\ FreeIsBlank(vol) /\ vol.fat \in Fats
      /\ vol.tab \in [Tables -> [0..(PerSector - 1) -> Entry]]
  BY ImageIs DEF Single, Forest
<1>2. c \in Clusters /\ c \in Tables /\ vol.fat[c] # 0 /\ \A s \in D : c \notin SectorsOf(vol, s)
  BY <1>1, LooseHead, SizesAre DEF Loose, Proper
<1>3. Blank \in [0..(PerSector - 1) -> Entry]
  BY DEF Blank, Entry
<1>4. w \in Image /\ w.fat = [vol.fat EXCEPT ![c] = 0] /\ w.tab = [vol.tab EXCEPT ![c] = Blank]
      /\ w.raw = vol.raw /\ w.dirbase = vol.dirbase /\ w.fat \in Fats
  <2>1. [vol.fat EXCEPT ![c] = 0] \in Fats /\ [vol.tab EXCEPT ![c] = Blank] \in [Tables -> [0..(PerSector - 1) -> Entry]]
    BY <1>1, <1>2, <1>3 DEF Fats
  <2> QED BY <1>1, <2>1, ImageIs DEF Image, Fats
<1>5. w.fat[c] = 0 /\ \A x \in Clusters : x # c => w.fat[x] = vol.fat[x]
  BY <1>1, <1>2, <1>4 DEF Fats
<1>6. w.tab[c] = Blank /\ \A x \in Tables : x # c => w.tab[x] = vol.tab[x]
  BY <1>1, <1>2, <1>4
<1>7. \A x \in Clusters : vol.fat[x] # c
  BY DEF Loose, Proper
<1>8. Linked(w.fat)
  BY <1>1, <1>2, <1>5, <1>7, ClustersAre DEF Linked
<1>9. FreeIsBlank(w)
  BY <1>1, <1>5, <1>6, SizesAre DEF FreeIsBlank
<1>10. ASSUME NEW d, Proper(vol.fat, d), d # c PROVE Spared(vol, w, d) /\ d # vol.fat[c]
  <2>1. Proper(w.fat, d) /\ d # vol.fat[c]
    BY <1>2, <1>5, <1>10, ClustersAre DEF Proper
  <2>2. \A i \in 1..Len(Chain(vol.fat, d)) :
           w.fat[Chain(vol.fat, d)[i]] = vol.fat[Chain(vol.fat, d)[i]]
    <3> SUFFICES ASSUME NEW i \in 1..Len(Chain(vol.fat, d))
                 PROVE  w.fat[Chain(vol.fat, d)[i]] = vol.fat[Chain(vol.fat, d)[i]]
      OBVIOUS
    <3>1. IsWalk(vol.fat, d, Chain(vol.fat, d)) /\ Chain(vol.fat, d)[i] \in Clusters
      BY <1>1, <1>10, ProperChain
    <3>2. LET q == Chain(vol.fat, c)
          IN  IsWalk(vol.fat, c, q) /\ q[1] = c /\ 1 \in 1..Len(q)
      BY <1>1, ProperChain DEF Loose
    <3>3. Chain(vol.fat, d)[i] # c
      BY <1>1, <1>10, <3>1, <3>2, WalksApart DEF Loose
    <3> QED BY <1>5, <3>1, <3>3
  <2>3. vol.fat \in Fats /\ w.fat \in Fats /\ Linked(vol.fat) /\ Linked(w.fat)
    BY <1>1, <1>4, <1>8
  <2>4. Chain(w.fat, d) = Chain(vol.fat, d)
    BY <1>10, <2>1, <2>2, <2>3, ChainSame
  <2> QED BY <2>1, <2>4 DEF Spared
<1>11. \A d : Owner(vol, D, d) => Proper(w.fat, d) /\ Chain(w.fat, d) = Chain(vol.fat, d)
  BY <1>1, <1>10, OwnerProper DEF Spared, Loose
<1>12. \A s \in D : \A x \in SectorsOf(vol, s) : w.tab[x] = vol.tab[x]
  <2>1. \A s \in D : SectorsOf(vol, s) \subseteq Tables
    BY <1>1, SlotsTyped DEF Forest, IsTree
  <2> QED BY <1>2, <1>6, <2>1
<1>13. /\ Forest(w, D) /\ (NamedOnce(vol, D) => NamedOnce(w, D))
      /\ (AllBack(vol, D) => AllBack(w, D)) /\ Stays(vol, w, D)
  BY <1>1, <1>4, <1>8, <1>9, <1>11, <1>12, Kept
<1>14. ASSUME vol.fat[c] \in Clusters PROVE Loose(w, D, vol.fat[c]) /\ vol.fat[c] # c
  <2>1. vol.fat[c] # c
    BY <1>2, <1>7
  <2>2. Proper(w.fat, vol.fat[c])
    BY <1>1, <1>2, <1>5, <1>14, <2>1, ClustersAre DEF Proper, Linked
  <2>3. ~Owner(vol, D, vol.fat[c])
    BY <1>1, <1>2, OwnerProper DEF Proper
  <2> QED BY <1>13, <2>1, <2>2, <2>3 DEF Loose, Stays
<1>15. Alike(vol, w, D)
  BY <1>4, <1>13 DEF Alike, Live, Stays
<1> QED BY <1>4, <1>5, <1>10, <1>13, <1>14, <1>15 DEF Single

\* The slot with index k in sector q of a table.
Nth(q, k) == q * PerSector + k + 1

LEMMA SlotNumbers ==
    ASSUME NEW vol \in Image, Linked(vol.fat), NEW s, HasTable(vol, s)
    PROVE  LET S == Slots(vol, s)
               T == Table(vol, s)
           IN  \A q \in 0..(Len(T) - 1), k \in 0..(PerSector - 1) :
                  Nth(q, k) \in 1..Len(S) /\ S[Nth(q, k)] = <<T[q + 1], k>>
<1> DEFINE T == Table(vol, s)
           P == PerSector
           L == Len(T)
           S == [n \in 1..(L * P) |-> <<T[(n - 1) \div P + 1], (n - 1) % P>>]
<1>1. Slots(vol, s) = S /\ Len(Slots(vol, s)) = L * P
  BY SlotsAre DEF Slots
<1>2. L \in Nat /\ P \in Nat /\ P > 0
  BY TableIs, SizesAre
<1> HIDE DEF T, P, L, Nth
<1>4. \A q \in 0..(L - 1), k \in 0..(P - 1) :
          /\ q * P + k + 1 \in 1..(L * P)
          /\ ((q * P + k + 1) - 1) \div P = q /\ ((q * P + k + 1) - 1) % P = k
  <2> HIDE DEF S
  <2> QED BY ONLY <1>2, PlaceOf
<1>5. ASSUME NEW q \in 0..(L - 1), NEW k \in 0..(P - 1)
      PROVE  q * P + k + 1 \in 1..(L * P) /\ S[q * P + k + 1] = <<T[q + 1], k>>
  <2> DEFINE n == q * P + k + 1
  <2>1. n \in 1..(L * P) /\ (n - 1) \div P = q /\ (n - 1) % P = k
    BY <1>4
  <2> HIDE DEF n
  <2>2. S[n] = <<T[q + 1], k>>
    BY <2>1
  <2> QED BY <2>1, <2>2 DEF n
<1> HIDE DEF S
<1> QED BY <1>1, <1>5 DEF T, P, L, Nth

LEMMA SlotsCount ==
    ASSUME NEW vol \in Image, Linked(vol.fat), NEW s, HasTable(vol, s)
    PROVE  Len(Slots(vol, s)) = Len(Table(vol, s)) * PerSector /\ Len(Slots(vol, s)) \in Nat
BY SlotsAre

LEMMA SlotNumbered ==
    ASSUME NEW vol \in Image, Linked(vol.fat), NEW s, HasTable(vol, s),
           NEW n \in 1..Len(Slots(vol, s))
    PROVE  \E q \in 0..(Len(Table(vol, s)) - 1), k \in 0..(PerSector - 1) :
              n = Nth(q, k) /\ Slots(vol, s)[n] = <<Table(vol, s)[q + 1], k>>
<1> DEFINE T == Table(vol, s)
           P == PerSector
           L == Len(T)
           S == [i \in 1..(L * P) |-> <<T[(i - 1) \div P + 1], (i - 1) % P>>]
<1>1. Slots(vol, s) = S /\ Len(Slots(vol, s)) = L * P
  BY SlotsCount DEF Slots
<1>2. L \in Nat /\ P \in Nat /\ P > 0
  BY TableIs, SizesAre
<1>3. n \in 1..(L * P)
  BY <1>1
<1> HIDE DEF T, P, L
<1>4. \A i \in 1..(L * P) : \E q \in 0..(L - 1), k \in 0..(P - 1) :
          i = q * P + k + 1 /\ (i - 1) \div P = q /\ (i - 1) % P = k
  <2> HIDE DEF S
  <2> QED BY ONLY <1>2, SlotPlace
<1>5. PICK q \in 0..(L - 1), k \in 0..(P - 1) :
          n = q * P + k + 1 /\ (n - 1) \div P = q /\ (n - 1) % P = k
  BY <1>3, <1>4
<1>6. S[n] = <<T[q + 1], k>>
  BY <1>3, <1>5
<1> HIDE DEF S
<1> QED BY <1>1, <1>5, <1>6 DEF T, P, L, Nth

\* A blank sector at the end of a table adds no entry.
LEMMA GrownTable ==
    ASSUME NEW vol \in Image, Linked(vol.fat), NEW s, HasTable(vol, s), Ordered(vol, s),
           NEW w \in Image, Linked(w.fat), HasTable(w, s), w.tab = vol.tab,
           NEW n, vol.tab[n] = Blank, Table(w, s) = Append(Table(vol, s), n)
    PROVE  /\ Ordered(w, s) /\ Live(w, s) = Live(vol, s)
           /\ SlotsOf(vol, s) \subseteq SlotsOf(w, s)
           /\ \A at \in SlotsOf(w, s) : at \in SlotsOf(vol, s) \/ EntryAt(w, at) = Unused
<1> DEFINE T == Table(vol, s)
           P == PerSector
           L == Len(T)
           S == Slots(vol, s)
           Z == Slots(w, s)
<1>1. L \in Nat /\ T \in Seq(Tables) /\ P \in Nat /\ P > 0 /\ DOMAIN T = 1..L
  BY TableIs, SizesAre
<1>2. Table(w, s) = Append(T, n) /\ Len(Append(T, n)) = L + 1
      /\ Append(T, n)[L + 1] = n /\ \A i \in 1..L : Append(T, n)[i] = T[i]
  BY <1>1
<1>3. \A at : EntryAt(w, at) = EntryAt(vol, at)
  BY DEF EntryAt
<1>4. \A k \in 0..(P - 1) : EntryAt(w, <<n, k>>) = Unused
  BY DEF EntryAt, Blank
<1>5. SectorsOf(vol, s) \subseteq SectorsOf(w, s) /\ SectorsOf(w, s) = SectorsOf(vol, s) \cup {n}
  BY <1>1, <1>2 DEF SectorsOf
<1>6. \A at \in SlotsOf(w, s) : at \in SlotsOf(vol, s) \/ EntryAt(w, at) = Unused
  BY <1>4, <1>5 DEF SlotsOf
<1>7. SlotsOf(vol, s) \subseteq SlotsOf(w, s)
  BY <1>5 DEF SlotsOf
<1>8. Live(w, s) = Live(vol, s)
  BY <1>3, <1>6, <1>7 DEF Live, IsLive, Unused, Marks
<1>9. /\ \A q \in 0..(L - 1), k \in 0..(P - 1) : S[Nth(q, k)] = <<T[q + 1], k>>
      /\ Len(S) = L * P /\ L * P \in Nat
  <2>1. \A q \in 0..(L - 1), k \in 0..(P - 1) : S[Nth(q, k)] = <<T[q + 1], k>>
    BY SlotNumbers
  <2>2. Len(S) = L * P
    BY SlotsAre
  <2>3. L * P \in Nat
    <3> HIDE DEF L, P
    <3> QED BY <1>1
  <2> QED BY <2>1, <2>2, <2>3
<1>10. \A i \in 1..Len(Z) : \E q \in 0..L, k \in 0..(P - 1) :
          i = Nth(q, k) /\ Z[i] = <<Append(T, n)[q + 1], k>>
  <2>1. \A i \in 1..Len(Z) : \E q \in 0..(Len(Table(w, s)) - 1), k \in 0..(P - 1) :
          i = Nth(q, k) /\ Z[i] = <<Table(w, s)[q + 1], k>>
    BY SlotNumbered
  <2>2. Len(Table(w, s)) - 1 = L
    BY <1>1, <1>2
  <2>3. Table(w, s) = Append(T, n)
    BY <1>2
  <2> HIDE DEF Z, L, T, P
  <2> QED BY ONLY <2>1, <2>2, <2>3
<1>11. Len(Z) \in Nat
  BY SlotsAre
<1> HIDE DEF Z, S, T, P, L
<1>12. ASSUME NEW i \in 1..Len(Z)
       PROVE  \/ i \in 1..(L * P) /\ Z[i] = S[i]
              \/ i > L * P /\ EntryAt(w, Z[i]) = Unused
  <2>1. PICK q \in 0..L, k \in 0..(P - 1) : i = Nth(q, k) /\ Z[i] = <<Append(T, n)[q + 1], k>>
    BY <1>10
  <2>2. CASE q = L
    BY <1>1, <1>2, <1>4, <1>9, <2>1, <2>2 DEF Nth, P
  <2>3. CASE q # L
    <3>1. q \in 0..(L - 1) /\ q + 1 \in 1..L
      BY <1>1, <2>3
    <3>2. S[i] = <<T[q + 1], k>> /\ Z[i] = <<T[q + 1], k>>
      BY <1>2, <1>9, <2>1, <3>1
    <3>3. i \in 1..(L * P)
      <4>1. q * P + k + 1 \in 1..(L * P)
        <5>1. L \in Nat /\ P \in Nat /\ P > 0
          BY <1>1
        <5>2. \A h \in 0..(L - 1), j \in 0..(P - 1) : h * P + j + 1 \in 1..(L * P)
          BY ONLY <5>1, PlaceOf
        <5> QED BY <3>1, <5>2
      <4> QED BY <2>1, <4>1 DEF Nth, P
    <3> QED BY <3>2, <3>3
  <2> QED BY <2>2, <2>3
<1>13. Ordered(w, s)
  <2> SUFFICES ASSUME NEW i \in 1..Len(Z), NEW j \in 1..Len(Z), i <= j,
                      EntryAt(w, Z[i]).name = "0"
               PROVE  EntryAt(w, Z[j]) = Unused
    BY DEF Ordered, Z
  <2>1. CASE j > L * P
    BY <1>12, <1>9, <2>1
  <2>2. CASE j <= L * P
    <3>1. j \in 1..Len(S) /\ i \in 1..Len(S) /\ Z[j] = S[j] /\ Z[i] = S[i]
      BY <1>9, <1>11, <1>12, <2>2
    <3> QED BY <1>3, <3>1 DEF Ordered, S
  <2> QED BY <1>9, <2>1, <2>2
<1> QED BY <1>6, <1>7, <1>8, <1>13

\* In w cluster n is at the end of the chain that starts at b, and all else is as it was.
LinkedIs(vol, D, b, n, w) ==
    /\ Single(w, D) /\ Alike(vol, w, D) /\ w.raw = vol.raw /\ w.tab = vol.tab
    /\ Proper(w.fat, b) /\ Chain(w.fat, b) = Append(Chain(vol.fat, b), n)
    /\ \A d : Proper(vol.fat, d) /\ d \notin {b, n} => Spared(vol, w, d)
    /\ \A s \in D : ~IsStatic(vol, s) /\ Base(vol, s) = b =>
          Table(w, s) = Append(Table(vol, s), n)

\* A loose cluster is linked to the end of a chain.
LEMMA LinkedOn ==
    ASSUME NEW vol, NEW D, Single(vol, D), NEW b, Proper(vol.fat, b), NEW n, Loose(vol, D, n),
           n # b, vol.fat[n] = Eoc, vol.tab[n] = Blank,
           NEW l, l = Chain(vol.fat, b)[Len(Chain(vol.fat, b))],
           NEW w, w = WithLink(vol, l, n)
    PROVE  LinkedIs(vol, D, b, n, w)
<1> USE DEF WithLink
<1>1. vol \in Image /\ Linked(vol.fat) /\ Forest(vol, D) /\ FreeIsBlank(vol) /\ vol.fat \in Fats
      /\ n \in Clusters /\ b \in Clusters
  BY ImageIs DEF Single, Forest, Loose, Proper
<1> DEFINE q == Chain(vol.fat, b)
<1>2. /\ IsWalk(vol.fat, b, q) /\ q # <<>> /\ Len(q) \in 1..(MaxClust - 1) /\ Len(q) \in Nat
      /\ l \in Clusters /\ vol.fat[l] = Eoc /\ Len(q) \in 1..Len(q) /\ l = q[Len(q)]
      /\ \A i \in 1..Len(q) : q[i] \in Clusters
  BY <1>1, ProperChain, ClustersAre
<1>3. l # n
  <2>1. LET r == Chain(vol.fat, n) IN IsWalk(vol.fat, n, r) /\ r[1] = n /\ 1 \in 1..Len(r)
    BY <1>1, ProperChain DEF Loose
  <2> QED BY <1>1, <1>2, <2>1, WalksApart DEF Loose
<1>4. w \in Image /\ w.fat = [vol.fat EXCEPT ![l] = n] /\ w.tab = vol.tab
      /\ w.raw = vol.raw /\ w.dirbase = vol.dirbase /\ w.fat \in Fats
  BY <1>1, <1>2, ImageIs DEF Image, Fats
<1>5. w.fat[l] = n /\ \A x \in Clusters : x # l => w.fat[x] = vol.fat[x]
  BY <1>1, <1>2, <1>4 DEF Fats
<1>6. w.fat[n] = Eoc /\ \A x \in Clusters : vol.fat[x] # n
  BY <1>1, <1>3, <1>5 DEF Loose, Proper
<1>7. w.fat \in Fats /\ Linked(w.fat)
  BY <1>1, <1>2, <1>4, <1>5, <1>6, ClustersAre DEF Linked
<1>8. FreeIsBlank(w)
  BY <1>1, <1>2, <1>4, <1>5, ClustersAre DEF FreeIsBlank
<1>9. ASSUME NEW d, Proper(vol.fat, d), d # n PROVE Proper(w.fat, d)
  BY <1>1, <1>2, <1>5, <1>9, ClustersAre DEF Proper
<1>10. ASSUME NEW d, Proper(vol.fat, d), d # n, d # b PROVE Spared(vol, w, d)
  <2>1. Proper(w.fat, d)
    BY <1>9, <1>10
  <2>2. \A i \in 1..Len(Chain(vol.fat, d)) :
           w.fat[Chain(vol.fat, d)[i]] = vol.fat[Chain(vol.fat, d)[i]]
    <3> SUFFICES ASSUME NEW i \in 1..Len(Chain(vol.fat, d))
                 PROVE  w.fat[Chain(vol.fat, d)[i]] = vol.fat[Chain(vol.fat, d)[i]]
      OBVIOUS
    <3>1. IsWalk(vol.fat, d, Chain(vol.fat, d)) /\ Chain(vol.fat, d)[i] \in Clusters
      BY <1>1, <1>10, ProperChain
    <3>2. Chain(vol.fat, d)[i] # l
      BY <1>1, <1>2, <1>10, <3>1, WalksApart
    <3> QED BY <1>5, <3>1, <3>2
  <2>3. Chain(w.fat, d) = Chain(vol.fat, d)
    BY <1>1, <1>7, <1>10, <2>1, <2>2, ChainSame
  <2> QED BY <2>1, <2>3 DEF Spared
<1>11. Chain(w.fat, b) = Append(q, n)
  <2>1. Proper(w.fat, b)
    BY <1>9
  <2>2. \A i \in 1..(Len(q) - 1) : w.fat[q[i]] = vol.fat[q[i]]
    <3> SUFFICES ASSUME NEW i \in 1..(Len(q) - 1) PROVE w.fat[q[i]] = vol.fat[q[i]]
      OBVIOUS
    <3>1. i \in 1..Len(q) /\ i # Len(q) /\ q[i] \in Clusters
      BY <1>2
    <3>2. q[i] # l
      BY <1>1, <1>2, <3>1, WalksApart
    <3> QED BY <1>5, <3>1, <3>2
  <2>3. w.fat[q[Len(q)]] = n
    BY <1>2, <1>5
  <2> QED BY <1>1, <1>6, <1>7, <2>1, <2>2, <2>3, ChainLonger
<1>12. \A d : Owner(vol, D, d) => d # n /\ Proper(vol.fat, d)
  BY <1>1, OwnerProper DEF Loose
<1> HIDE DEF q
<1>13. ASSUME NEW s \in D
       PROVE  /\ ~IsStatic(vol, s) /\ Base(vol, s) = b => Table(w, s) = Append(Table(vol, s), n)
              /\ ~(~IsStatic(vol, s) /\ Base(vol, s) = b) => Table(w, s) = Table(vol, s)
  <2>1. CASE IsStatic(vol, s)
    BY <1>4, <2>1 DEF Table, IsStatic
  <2>2. CASE ~IsStatic(vol, s)
    <3>1. ~IsStatic(w, s) /\ Table(w, s) = Chain(w.fat, Base(vol, s))
      BY <1>4, <2>2 DEF IsStatic, Base, Table
    <3>2. Owner(vol, D, Base(vol, s)) /\ Table(vol, s) = Chain(vol.fat, Base(vol, s))
      BY <1>1, <2>2, BaseOwner
    <3>3. Base(vol, s) # b => Chain(w.fat, Base(vol, s)) = Chain(vol.fat, Base(vol, s))
      BY <1>10, <1>12, <3>2 DEF Spared
    <3> QED BY <1>11, <2>2, <3>1, <3>2, <3>3 DEF q
  <2> QED BY <2>1, <2>2
<1>14. ASSUME NEW s \in D
       PROVE  /\ Ordered(w, s) /\ Live(w, s) = Live(vol, s)
              /\ \A at \in SlotsOf(w, s) : at \in SlotsOf(vol, s) \/ EntryAt(w, at) = Unused
  <2>1. HasTable(vol, s) /\ Ordered(vol, s)
    BY <1>1 DEF Forest, IsTree
  <2>2. HasTable(w, s)
    <3> SUFFICES ASSUME ~IsStatic(w, s) PROVE Proper(w.fat, Base(w, s))
      BY DEF HasTable
    <3>1. ~IsStatic(vol, s) /\ Base(w, s) = Base(vol, s)
      BY <1>4 DEF IsStatic, Base
    <3> QED BY <1>1, <1>9, <1>12, <3>1, BaseOwner
  <2>3. CASE Table(w, s) = Append(Table(vol, s), n)
    <3>1. vol \in Image /\ Linked(vol.fat) /\ w \in Image /\ Linked(w.fat) /\ w.tab = vol.tab
      BY <1>1, <1>4, <1>7
    <3>2. vol.tab[n] = Blank
      OBVIOUS
    <3> QED BY ONLY <2>1, <2>2, <2>3, <3>1, <3>2, GrownTable
  <2>4. CASE Table(w, s) = Table(vol, s)
    <3>1. SectorsOf(w, s) = SectorsOf(vol, s) /\ Slots(w, s) = Slots(vol, s)
      BY <2>4 DEF SectorsOf, Slots
    <3>2. \A at : EntryAt(w, at) = EntryAt(vol, at)
      BY <1>4 DEF EntryAt
    <3> QED BY <2>1, <3>1, <3>2 DEF SlotsOf, Live, Ordered
  <2> QED BY <1>13, <2>3, <2>4
<1>15. \A s \in D : \A at \in Live(vol, s) : EntryAt(w, at) = EntryAt(vol, at)
  BY <1>4 DEF EntryAt
<1>16. DotsInPlace(w, D)
  <2> SUFFICES ASSUME NEW s \in D, NEW at \in SlotsOf(w, s), IsDot(EntryAt(w, at).name)
               PROVE  s # 0 /\ at \in {<<s, 0>>, <<s, 1>>}
    BY DEF DotsInPlace
  <2>1. EntryAt(w, at) # Unused /\ EntryAt(w, at) = EntryAt(vol, at)
    BY <1>4 DEF IsDot, Dots, Unused, EntryAt
  <2> QED BY <1>1, <1>14, <2>1 DEF Forest, DotsInPlace
<1>17. Forest(w, D) /\ (NamedOnce(vol, D) => NamedOnce(w, D))
  <2>1. w \in Image /\ Linked(w.fat) /\ FreeIsBlank(w) /\ w.dirbase = vol.dirbase
    BY <1>4, <1>7, <1>8
  <2>2. \A d : Owner(vol, D, d) => Proper(w.fat, d)
    BY <1>9, <1>12
  <2>3. \A s \in D : Ordered(w, s) /\ Live(w, s) = Live(vol, s)
    BY <1>14
  <2> QED BY ONLY <1>1, <1>15, <1>16, <2>1, <2>2, <2>3, CoreKept
<1>18. AllBack(w, D)
  BY <1>4, <1>14, <1>15 DEF AllBack, BackFrom, Single
<1>19. Alike(vol, w, D)
  BY <1>4, <1>14, <1>15 DEF Alike
<1> QED BY <1>4, <1>9, <1>10, <1>11, <1>13, <1>17, <1>18, <1>19 DEF Single, q, LinkedIs

----------------------------------------------------------------------------
(* Changes of an entry *)

\* No entry before at in table s was never used.
NoneBefore(vol, s, at) ==
    \A i, n \in 1..Len(Slots(vol, s)) :
        Slots(vol, s)[n] = at /\ i < n => EntryAt(vol, Slots(vol, s)[i]).name # "0"

\* Entry at of table s is e in w, and all else is as it was.
PutIs(vol, w, D, s, at, e) ==
    /\ w \in Image /\ w.fat = vol.fat /\ w.raw = vol.raw /\ w.dirbase = vol.dirbase
    /\ FreeIsBlank(w) /\ DotsInPlace(w, D)
    /\ EntryAt(w, at) = e
    /\ \A bt \in Tables \X (0..(PerSector - 1)) : bt # at => EntryAt(w, bt) = EntryAt(vol, bt)
    /\ \A t \in D : HasTable(w, t) /\ Ordered(w, t) /\ SlotsOf(w, t) = SlotsOf(vol, t)
    /\ \A t \in D : t # s => Live(w, t) = Live(vol, t)
    /\ Live(w, s) = (Live(vol, s) \ {at}) \cup {bt \in {at} : e.name \in Names}
    /\ \A x \in Tables : x # at[1] => w.tab[x] = vol.tab[x]

LEMMA Same ==
    ASSUME NEW vol, NEW w, w.fat = vol.fat, w.dirbase = vol.dirbase, NEW t
    PROVE  /\ Table(w, t) = Table(vol, t) /\ Slots(w, t) = Slots(vol, t)
           /\ SectorsOf(w, t) = SectorsOf(vol, t) /\ SlotsOf(w, t) = SlotsOf(vol, t)
           /\ HasTable(w, t) <=> HasTable(vol, t)
<1>1. IsStatic(w, t) <=> IsStatic(vol, t)
  BY DEF IsStatic
<1>2. Table(w, t) = Table(vol, t)
  BY <1>1 DEF Table
<1>3. HasTable(w, t) <=> HasTable(vol, t)
  BY <1>1 DEF HasTable, Base
<1> QED BY <1>2, <1>3 DEF Slots, SectorsOf, SlotsOf

LEMMA PutAt ==
    ASSUME NEW vol, NEW D, Forest(vol, D), NEW s \in D, NEW at \in SlotsOf(vol, s),
           NoneBefore(vol, s, at), NEW e \in Entry, e.name # "0",
           IsDot(e.name) => s # 0 /\ at \in {<<s, 0>>, <<s, 1>>},
           NEW w, w = WithEntry(vol, at, e)
    PROVE  PutIs(vol, w, D, s, at, e)
<1> USE DEF WithEntry
<1>1. vol \in Image /\ Linked(vol.fat) /\ FreeIsBlank(vol)
      /\ vol.tab \in [Tables -> [0..(PerSector - 1) -> Entry]]
      /\ \A t \in D : HasTable(vol, t) /\ Ordered(vol, t)
  BY ImageIs DEF Forest, IsTree
<1>2. at[1] \in SectorsOf(vol, s) /\ at[1] \in Tables /\ at[2] \in 0..(PerSector - 1)
      /\ at = <<at[1], at[2]>>
  BY <1>1, SlotsTyped DEF SlotsOf
<1> DEFINE tab == [vol.tab EXCEPT ![at[1]] = [vol.tab[at[1]] EXCEPT ![at[2]] = e]]
<1>3. tab \in [Tables -> [0..(PerSector - 1) -> Entry]]
  BY <1>1, <1>2
<1>4. w.tab = tab /\ w.fat = vol.fat /\ w.raw = vol.raw /\ w.dirbase = vol.dirbase
      /\ w \in Image
  <2>1. w.tab = tab /\ w.fat = vol.fat /\ w.raw = vol.raw /\ w.dirbase = vol.dirbase
        /\ w = [dirbase |-> w.dirbase, fat |-> w.fat, tab |-> w.tab, raw |-> w.raw]
    BY <1>1 DEF Image
  <2>2. w.dirbase \in Clusters \cup {0} /\ w.fat \in [Clusters -> Clusters \cup {0, Eoc}]
        /\ w.raw \in SUBSET Clusters
    BY <1>1, <2>1, ImageIs DEF Fats
  <2>3. w.tab \in [Tables -> [0..(PerSector - 1) -> Entry]]
    BY <1>3, <2>1
  <2>4. [dirbase |-> w.dirbase, fat |-> w.fat, tab |-> w.tab, raw |-> w.raw] \in Image
    BY <2>2, <2>3 DEF Image
  <2>5. w = [dirbase |-> w.dirbase, fat |-> w.fat, tab |-> w.tab, raw |-> w.raw]
    BY <2>1
  <2>6. w \in Image
    BY ONLY <2>4, <2>5
  <2> QED BY ONLY <2>1, <2>6
<1>5. EntryAt(w, at) = e
  <2>1. tab[at[1]] = [vol.tab[at[1]] EXCEPT ![at[2]] = e]
    BY <1>1, <1>2
  <2>2. vol.tab[at[1]] \in [0..(PerSector - 1) -> Entry]
    BY <1>1, <1>2
  <2>3. tab[at[1]][at[2]] = e
    BY <1>2, <2>1, <2>2
  <2> HIDE DEF tab
  <2> QED BY <1>4, <2>3 DEF EntryAt
<1>6. \A x \in Tables : x # at[1] => w.tab[x] = vol.tab[x]
  BY <1>1, <1>4
<1>7. ASSUME NEW bt \in Tables \X (0..(PerSector - 1)), bt # at
      PROVE  EntryAt(w, bt) = EntryAt(vol, bt)
  <2>1. bt[1] \in Tables /\ bt[2] \in 0..(PerSector - 1) /\ bt = <<bt[1], bt[2]>>
    OBVIOUS
  <2>2. CASE bt[1] # at[1]
    BY <1>6, <2>1, <2>2 DEF EntryAt
  <2>3. CASE bt[1] = at[1]
    <3>1. bt[2] # at[2]
      BY <1>2, <1>7, <2>1, <2>3
    <3> QED BY <1>1, <1>2, <1>4, <2>1, <2>3, <3>1 DEF EntryAt
  <2> QED BY <2>2, <2>3
<1> HIDE DEF tab
<1>8. ASSUME NEW c \in Clusters, w.fat[c] = 0 PROVE w.tab[c] = Blank
  <2>1. c # at[1]
    <3>1. \A x \in SectorsOf(vol, s) : x \in Clusters => vol.fat[x] # 0
      BY <1>1, TableIs DEF SectorsOf
    <3> QED BY <1>2, <1>4, <1>8, <3>1
  <2>2. c \in Tables
    BY SizesAre
  <2> QED BY <1>1, <1>4, <1>6, <1>8, <2>1, <2>2 DEF FreeIsBlank
<1>9. \A t \in D : HasTable(w, t) /\ SlotsOf(w, t) = SlotsOf(vol, t) /\ Slots(w, t) = Slots(vol, t)
  BY <1>1, <1>4, Same
<1>10. \A t \in D : SlotsOf(vol, t) \subseteq Tables \X (0..(PerSector - 1))
  BY <1>1, SlotsTyped
<1>11. \A t \in D : at \in SlotsOf(vol, t) => t = s
  BY SlotsApart
<1>12. ASSUME NEW t \in D PROVE Ordered(w, t)
  <2> SUFFICES ASSUME NEW n \in 1..Len(Slots(vol, t)), NEW k \in 1..Len(Slots(vol, t)), n <= k,
                      EntryAt(w, Slots(vol, t)[n]).name = "0"
               PROVE  EntryAt(w, Slots(vol, t)[k]) = Unused
    BY <1>9 DEF Ordered
  <2>1. Slots(vol, t)[n] \in SlotsOf(vol, t) /\ Slots(vol, t)[k] \in SlotsOf(vol, t)
        /\ Len(Slots(vol, t)) \in Nat
    BY <1>1, SlotsAre
  <2>2. Slots(vol, t)[n] # at
    BY <1>5
  <2>3. EntryAt(vol, Slots(vol, t)[n]).name = "0"
    BY <1>7, <1>10, <2>1, <2>2
  <2>4. EntryAt(vol, Slots(vol, t)[k]) = Unused
    BY <1>1, <2>3 DEF Ordered
  <2>5. Slots(vol, t)[k] # at
    <3> SUFFICES ASSUME Slots(vol, t)[k] = at PROVE FALSE
      OBVIOUS
    <3>1. t = s /\ n # k
      BY <1>11, <2>1, <2>2
    <3>2. n < k
      BY <3>1, <2>1
    <3> QED BY <2>3, <3>1, <3>2 DEF NoneBefore
  <2> QED BY <1>7, <1>10, <2>1, <2>4, <2>5
<1>13. DotsInPlace(w, D)
  <2> SUFFICES ASSUME NEW t \in D, NEW bt \in SlotsOf(vol, t), IsDot(EntryAt(w, bt).name)
               PROVE  t # 0 /\ bt \in {<<t, 0>>, <<t, 1>>}
    BY <1>9 DEF DotsInPlace
  <2>1. CASE bt = at
    BY <1>5, <1>11, <2>1
  <2>2. CASE bt # at
    <3>1. EntryAt(w, bt) = EntryAt(vol, bt)
      BY <1>7, <1>10, <2>2
    <3> QED BY <3>1 DEF Forest, DotsInPlace
  <2> QED BY <2>1, <2>2
<1>14. ASSUME NEW t \in D, t # s PROVE Live(w, t) = Live(vol, t)
  <2>1. \A bt \in SlotsOf(vol, t) : EntryAt(w, bt) = EntryAt(vol, bt)
    BY <1>7, <1>10, <1>11, <1>14
  <2> QED BY <1>9, <2>1 DEF Live
<1>15. Live(w, s) = (Live(vol, s) \ {at}) \cup {bt \in {at} : e.name \in Names}
  <2>1. \A bt \in SlotsOf(vol, s) : bt # at => EntryAt(w, bt) = EntryAt(vol, bt)
    BY <1>7, <1>10
  <2>2. at \in Live(w, s) <=> e.name \in Names
    <3>1. IsLive(e) /\ ~IsDot(e.name) <=> e.name \in Names
      BY EntryTypes DEF IsLive, IsDot
    <3> QED BY <1>5, <1>9, <3>1 DEF Live
  <2>3. \A bt : bt # at => (bt \in Live(w, s) <=> bt \in Live(vol, s))
    BY <1>9, <2>1 DEF Live
  <2> QED BY <2>2, <2>3
<1> QED BY <1>4, <1>5, <1>6, <1>7, <1>8, <1>9, <1>12, <1>13, <1>14, <1>15
    DEF PutIs, FreeIsBlank

\* An entry that is live has none before it that was never used.
LEMMA LiveBefore ==
    ASSUME NEW vol \in Image, Linked(vol.fat), NEW s, HasTable(vol, s), Ordered(vol, s),
           NEW at \in SlotsOf(vol, s), EntryAt(vol, at) # Unused
    PROVE  NoneBefore(vol, s, at)
<1> SUFFICES ASSUME NEW i \in 1..Len(Slots(vol, s)), NEW n \in 1..Len(Slots(vol, s)),
                    Slots(vol, s)[n] = at, i < n, EntryAt(vol, Slots(vol, s)[i]).name = "0"
             PROVE  FALSE
  BY DEF NoneBefore
<1>1. Len(Slots(vol, s)) \in Nat
  BY SlotsCount
<1>2. i <= n
  BY <1>1
<1> QED BY <1>2 DEF Ordered

\* The first slot of s that is free.
FirstFree(vol, s, at) ==
    \E n \in 1..Len(Slots(vol, s)) :
        /\ Slots(vol, s)[n] = at
        /\ EntryAt(vol, at).name \in Marks
        /\ \A k \in 1..Len(Slots(vol, s)) :
              k < n => EntryAt(vol, Slots(vol, s)[k]).name \notin Marks

LEMMA FreeBefore ==
    ASSUME NEW vol \in Image, Linked(vol.fat), NEW s, HasTable(vol, s), NEW at,
           FirstFree(vol, s, at)
    PROVE  at \in SlotsOf(vol, s) /\ NoneBefore(vol, s, at) /\ at \notin Live(vol, s)
<1>1. PICK n \in 1..Len(Slots(vol, s)) :
        /\ Slots(vol, s)[n] = at
        /\ EntryAt(vol, at).name \in Marks
        /\ \A k \in 1..Len(Slots(vol, s)) :
              k < n => EntryAt(vol, Slots(vol, s)[k]).name \notin Marks
  BY DEF FirstFree
<1>2. at \in SlotsOf(vol, s)
  BY <1>1, SlotsAre
<1>3. ASSUME NEW i \in 1..Len(Slots(vol, s)), NEW j \in 1..Len(Slots(vol, s)),
             Slots(vol, s)[j] = at, i < j
      PROVE  EntryAt(vol, Slots(vol, s)[i]).name # "0"
  <2>1. j = n
    BY <1>1, <1>3, SlotsAre
  <2> QED BY <1>1, <1>3, <2>1 DEF Marks
<1>4. NoneBefore(vol, s, at)
  BY <1>3 DEF NoneBefore
<1>5. at \notin Live(vol, s)
  BY <1>1 DEF Live, IsLive
<1> QED BY <1>2, <1>4, <1>5

\* Directories that lead back still do when an entry that is not of dots is changed.
LEMMA BackKept ==
    ASSUME NEW vol, NEW D, Forest(vol, D), NEW w, NEW s, NEW at, NEW e,
           PutIs(vol, w, D, s, at, e), ~IsDot(EntryAt(vol, at).name),
           NEW c \in D, c # 0, NEW t, BackFrom(vol, t, c)
    PROVE  BackFrom(w, t, c)
<1>1. c \in Tables /\ 0 \in 0..(PerSector - 1) /\ 1 \in 0..(PerSector - 1)
  BY SizesAre, DirProper
<1>2. <<c, 0>> \in Tables \X (0..(PerSector - 1)) /\ <<c, 1>> \in Tables \X (0..(PerSector - 1))
  BY <1>1
<1>3. EntryAt(vol, <<c, 0>>) = Dir(".", c) /\ EntryAt(vol, <<c, 1>>) = Dir("..", t)
  BY DEF EntryAt, BackFrom
<1>4. at # <<c, 0>> /\ at # <<c, 1>>
  BY <1>3 DEF IsDot, Dots, Dir
<1>5. EntryAt(w, <<c, 0>>) = Dir(".", c) /\ EntryAt(w, <<c, 1>>) = Dir("..", t)
  BY <1>2, <1>3, <1>4 DEF PutIs
<1> QED BY <1>5 DEF BackFrom, EntryAt

LEMMA LiveTyped ==
    ASSUME NEW vol, NEW D, Forest(vol, D), NEW s \in D, NEW at \in Live(vol, s)
    PROVE  /\ at \in SlotsOf(vol, s) /\ at \in Tables \X (0..(PerSector - 1))
           /\ EntryAt(vol, at) \in Entry /\ EntryAt(vol, at).name \in Names
           /\ EntryAt(vol, at).name \notin Marks /\ ~IsDot(EntryAt(vol, at).name)
           /\ EntryAt(vol, at) # Unused
           /\ EntryAt(vol, at).dir => EntryAt(vol, at).clust \in Clusters
                                      /\ EntryAt(vol, at).clust # 0
                                      /\ EntryAt(vol, at).clust \in D
           /\ HasTable(vol, s) /\ Ordered(vol, s)
<1>1. vol \in Image /\ Linked(vol.fat) /\ HasTable(vol, s) /\ Ordered(vol, s)
  BY DEF Forest, IsTree
<1>2. /\ at \in SlotsOf(vol, s) /\ EntryAt(vol, at) \in Entry /\ EntryAt(vol, at).name \in Names
      /\ EntryAt(vol, at).dir => EntryAt(vol, at).clust \in Clusters
  BY <1>1, LiveIs
<1>3. at \in Tables \X (0..(PerSector - 1))
  BY <1>1, <1>2, SlotsTyped
<1>4. EntryAt(vol, at).name \notin Marks /\ ~IsDot(EntryAt(vol, at).name)
  BY DEF Live, IsLive
<1>5. EntryAt(vol, at) # Unused
  BY <1>4 DEF Unused, Marks
<1>6. EntryAt(vol, at).dir => EntryAt(vol, at).clust \in D /\ EntryAt(vol, at).clust # 0
  BY <1>2, ClustersAre DEF Forest, IsTree
<1> QED BY <1>1, <1>2, <1>3, <1>4, <1>5, <1>6

\* An entry is put into the first free slot.
LEMMA Added ==
    ASSUME NEW vol, NEW D, Forest(vol, D), NEW s \in D, NEW at, FirstFree(vol, s, at),
           NEW e \in Entry, e.name \in Names,
           \A bt \in Live(vol, s) : EntryAt(vol, bt).name # e.name,
           NEW w, w = WithEntry(vol, at, e)
    PROVE  /\ PutIs(vol, w, D, s, at, e) /\ NamesApart(w, D)
           /\ Live(w, s) = Live(vol, s) \cup {at} /\ at \notin Live(vol, s)
           /\ \A t \in D : \A bt \in Live(vol, t) :
                 bt # at /\ bt \in Live(w, t) /\ EntryAt(w, bt) = EntryAt(vol, bt)
           /\ \A t \in D : \A bt \in Live(w, t) : bt \in Live(vol, t) \/ (t = s /\ bt = at)
           /\ ~IsDot(EntryAt(vol, at).name) /\ at \in SlotsOf(vol, s)
<1>1. vol \in Image /\ Linked(vol.fat) /\ HasTable(vol, s)
  BY DEF Forest, IsTree
<1>2. at \in SlotsOf(vol, s) /\ NoneBefore(vol, s, at) /\ at \notin Live(vol, s)
  BY <1>1, FreeBefore
<1>3. e.name \notin Marks /\ ~IsDot(e.name) /\ e.name # "0"
  BY NamesAssumption DEF IsDot, Marks
<1>4. PutIs(vol, w, D, s, at, e)
  BY <1>2, <1>3, PutAt
<1>5. Live(w, s) = Live(vol, s) \cup {at}
  BY <1>2, <1>4 DEF PutIs
<1>6. ASSUME NEW t \in D, NEW bt \in Live(vol, t)
      PROVE  bt # at /\ bt \in Live(w, t) /\ EntryAt(w, bt) = EntryAt(vol, bt)
  <2>1. bt \in SlotsOf(vol, t) /\ bt \in Tables \X (0..(PerSector - 1))
    BY LiveTyped
  <2>2. bt # at
    BY <1>2, <2>1, SlotsApart
  <2> QED BY <1>4, <1>5, <2>1, <2>2 DEF PutIs
<1>7. ASSUME NEW t \in D, NEW bt \in Live(w, t) PROVE bt \in Live(vol, t) \/ (t = s /\ bt = at)
  BY <1>4, <1>5 DEF PutIs
<1>8. NamesApart(w, D)
  <2> SUFFICES ASSUME NEW t \in D, NEW x \in Live(w, t), NEW y \in Live(w, t),
                      EntryAt(w, x).name = EntryAt(w, y).name
               PROVE  x = y
    BY DEF NamesApart
  <2>1. EntryAt(w, at) = e
    BY <1>4 DEF PutIs
  <2>2. CASE x \in Live(vol, t) /\ y \in Live(vol, t)
    BY <1>6, <2>2 DEF Forest, NamesApart
  <2>3. CASE x \notin Live(vol, t) \/ y \notin Live(vol, t)
    BY <1>6, <1>7, <2>1, <2>3
  <2> QED BY <2>2, <2>3
<1>9. ~IsDot(EntryAt(vol, at).name)
  BY DEF FirstFree, IsDot, Dots, Marks
<1> QED BY <1>2, <1>4, <1>5, <1>6, <1>7, <1>8, <1>9

\* The entry of a file, or a second name: the directories are the same.
LEMMA AddedName ==
    ASSUME NEW vol, NEW D, Forest(vol, D), NEW s \in D, NEW at, FirstFree(vol, s, at),
           NEW e \in Entry, e.name \in Names,
           \A bt \in Live(vol, s) : EntryAt(vol, bt).name # e.name,
           e.dir => e.clust \in D,
           e.clust \in Clusters => Proper(vol.fat, e.clust) /\ e.clust # vol.dirbase,
           NEW w, w = WithEntry(vol, at, e)
    PROVE  Forest(w, D)
<1>1. /\ PutIs(vol, w, D, s, at, e) /\ NamesApart(w, D)
      /\ \A t \in D : \A bt \in Live(vol, t) :
                 bt # at /\ bt \in Live(w, t) /\ EntryAt(w, bt) = EntryAt(vol, bt)
      /\ \A t \in D : \A bt \in Live(w, t) : bt \in Live(vol, t) \/ (t = s /\ bt = at)
  BY Added
<1>2. EntryAt(w, at) = e /\ w.fat = vol.fat /\ w.dirbase = vol.dirbase /\ w \in Image
      /\ FreeIsBlank(w) /\ DotsInPlace(w, D) /\ \A t \in D : HasTable(w, t) /\ Ordered(w, t)
  BY <1>1 DEF PutIs
<1>3. HeadsProper(w, D)
  BY <1>1, <1>2 DEF HeadsProper, Forest
<1>4. IsTree(w, D)
  <2>1. 0 \in D /\ D \subseteq {0} \cup Clusters
    BY DEF Forest, IsTree
  <2>2. \A t \in D : \A bt \in Live(w, t) : EntryAt(w, bt).dir => EntryAt(w, bt).clust \in D
    BY <1>1, <1>2 DEF Forest, IsTree
  <2>3. ASSUME NEW Y \in SUBSET D, 0 \in Y,
               \A t \in Y : \A bt \in Live(w, t) : EntryAt(w, bt).dir => EntryAt(w, bt).clust \in Y
        PROVE  Y = D
    <3>1. \A t \in Y : \A bt \in Live(vol, t) : EntryAt(vol, bt).dir => EntryAt(vol, bt).clust \in Y
      BY <1>1, <2>3
    <3> QED BY <2>3, <3>1 DEF Forest, IsTree
  <2> QED BY <1>2, <2>1, <2>2, <2>3 DEF IsTree
<1> QED BY <1>1, <1>2, <1>3, <1>4 DEF Forest

LEMMA AddedFile ==
    ASSUME NEW vol, NEW D, Single(vol, D), NEW s \in D, NEW at, FirstFree(vol, s, at),
           NEW e \in Entry, e.name \in Names,
           \A bt \in Live(vol, s) : EntryAt(vol, bt).name # e.name,
           ~e.dir, e.clust \notin Clusters,
           NEW w, w = WithEntry(vol, at, e)
    PROVE  Single(w, D)
<1>0. Forest(vol, D)
  BY DEF Single
<1>1. Forest(w, D)
  BY <1>0, AddedName
<1>2. /\ PutIs(vol, w, D, s, at, e) /\ ~IsDot(EntryAt(vol, at).name)
      /\ \A t \in D : \A bt \in Live(vol, t) : EntryAt(w, bt) = EntryAt(vol, bt)
      /\ \A t \in D : \A bt \in Live(w, t) : bt \in Live(vol, t) \/ (t = s /\ bt = at)
  BY <1>0, Added
<1>3. EntryAt(w, at) = e
  BY <1>2 DEF PutIs
<1>4. NamedOnce(w, D)
  <2> SUFFICES ASSUME NEW t \in D, NEW u \in D, NEW x \in Live(w, t), NEW y \in Live(w, u),
                      EntryAt(w, x).clust = EntryAt(w, y).clust, EntryAt(w, x).clust \in Clusters
               PROVE  x = y
    BY DEF NamedOnce
  <2>1. x \in Live(vol, t) /\ y \in Live(vol, u)
    BY <1>2, <1>3
  <2> QED BY <1>2, <2>1 DEF Single, NamedOnce
<1>5. AllBack(w, D)
  <2> SUFFICES ASSUME NEW t \in D, NEW x \in Live(w, t), EntryAt(w, x).dir
               PROVE  BackFrom(w, t, EntryAt(w, x).clust)
    BY DEF AllBack
  <2>1. x \in Live(vol, t) /\ EntryAt(w, x) = EntryAt(vol, x)
    BY <1>2, <1>3
  <2>2. BackFrom(vol, t, EntryAt(vol, x).clust)
    BY <2>1 DEF Single, AllBack
  <2>3. EntryAt(vol, x).clust \in D /\ EntryAt(vol, x).clust # 0
    BY <1>0, <2>1, LiveTyped
  <2> QED BY <1>0, <1>2, <2>1, <2>2, <2>3, BackKept
<1> QED BY <1>1, <1>4, <1>5 DEF Single

DotsIn(vol, c) ==
    \A at \in SlotsOf(vol, c) : IsDot(EntryAt(vol, at).name) => at \in {<<c, 0>>, <<c, 1>>}

\* The table of dots: it is in order and holds nothing else.
LEMMA DotTable ==
    ASSUME NEW vol \in Image, Linked(vol.fat), NEW c, Proper(vol.fat, c), vol.fat[c] = Eoc,
           NEW s, vol.tab[c] = DotEntries(c, s)
    PROVE  /\ HasTable(vol, c) /\ Ordered(vol, c) /\ Live(vol, c) = {} /\ BackFrom(vol, s, c)
           /\ SlotsOf(vol, c) = {c} \X (0..(PerSector - 1)) /\ DotsIn(vol, c)
<1>1. c \in Clusters /\ c # 0 /\ ~IsStatic(vol, c) /\ Base(vol, c) = c /\ HasTable(vol, c)
      /\ Table(vol, c) = Chain(vol.fat, c) /\ vol.fat \in Fats
  BY ClustersAre, ImageIs DEF Proper, IsStatic, Base, HasTable, Table
<1> DEFINE q == <<c>>
<1>2. q \in Seq(Clusters) /\ Len(q) = 1 /\ q[1] = c /\ q # <<>>
  BY <1>1
<1>3. IsWalk(vol.fat, c, q)
  BY <1>2 DEF IsWalk
<1>4. Table(vol, c) = <<c>>
  <2> HIDE DEF q
  <2>1. Chain(vol.fat, c) = q
    BY <1>1, <1>2, <1>3, ChainBy, ClustersAre
  <2> QED BY <1>1, <2>1 DEF q
<1>5. SlotsOf(vol, c) = {c} \X (0..(PerSector - 1))
  BY <1>4 DEF SlotsOf, SectorsOf
<1>6. /\ EntryAt(vol, <<c, 0>>) = Dir(".", c) /\ EntryAt(vol, <<c, 1>>) = Dir("..", s)
      /\ \A k \in 0..(PerSector - 1) : k \notin {0, 1} => EntryAt(vol, <<c, k>>) = Unused
  BY SizesAre DEF EntryAt, DotEntries, Blank
<1>7. ASSUME NEW at \in SlotsOf(vol, c)
      PROVE  /\ ~(IsLive(EntryAt(vol, at)) /\ ~IsDot(EntryAt(vol, at).name))
             /\ IsDot(EntryAt(vol, at).name) => at \in {<<c, 0>>, <<c, 1>>}
  <2>1. PICK k \in 0..(PerSector - 1) : at = <<c, k>>
    BY <1>5
  <2>2. CASE k \in {0, 1}
    <3>1. EntryAt(vol, at).name \in Dots
      BY <1>6, <2>1, <2>2 DEF Dir, Dots
    <3> QED BY <2>1, <2>2, <3>1 DEF IsDot
  <2>3. CASE k \notin {0, 1}
    <3>1. EntryAt(vol, at).name = "0"
      BY <1>6, <2>1, <2>3 DEF Unused
    <3> QED BY <3>1 DEF IsDot, Dots, IsLive, Marks
  <2> QED BY <2>2, <2>3
<1>8. Live(vol, c) = {}
  BY <1>7 DEF Live
<1>9. BackFrom(vol, s, c)
  BY <1>6 DEF BackFrom, EntryAt
<1>10. Ordered(vol, c)
  <2> SUFFICES ASSUME NEW n \in 1..Len(Slots(vol, c)), NEW k \in 1..Len(Slots(vol, c)), n <= k,
                      EntryAt(vol, Slots(vol, c)[n]).name = "0"
               PROVE  EntryAt(vol, Slots(vol, c)[k]) = Unused
    BY DEF Ordered
  <2>1. PICK i \in 0..(Len(Table(vol, c)) - 1), x \in 0..(PerSector - 1) :
          n = Nth(i, x) /\ Slots(vol, c)[n] = <<Table(vol, c)[i + 1], x>>
    BY <1>1, SlotNumbered
  <2>2. PICK j \in 0..(Len(Table(vol, c)) - 1), y \in 0..(PerSector - 1) :
          k = Nth(j, y) /\ Slots(vol, c)[k] = <<Table(vol, c)[j + 1], y>>
    BY <1>1, SlotNumbered
  <2>3. i = 0 /\ j = 0
    BY <1>4, <2>1, <2>2
  <2>4. n = x + 1 /\ k = y + 1 /\ Slots(vol, c)[n] = <<c, x>> /\ Slots(vol, c)[k] = <<c, y>>
    BY <1>4, <2>1, <2>2, <2>3, SizesAre DEF Nth
  <2>5. x \notin {0, 1}
    BY <1>6, <2>4 DEF Dir
  <2>6. y \notin {0, 1}
    BY <2>4, <2>5
  <2> QED BY <1>6, <2>4, <2>6
<1> QED BY <1>1, <1>5, <1>7, <1>8, <1>9, <1>10 DEF DotsIn

\* The entry of a new directory, whose table is there already.
LEMMA AddedDir ==
    ASSUME NEW vol, NEW D, Single(vol, D), NEW s \in D, NEW at, FirstFree(vol, s, at),
           NEW c, Loose(vol, D, c), vol.fat[c] = Eoc, vol.tab[c] = DotEntries(c, s),
           NEW e \in Entry, e.name \in Names, e.dir, e.clust = c,
           \A bt \in Live(vol, s) : EntryAt(vol, bt).name # e.name,
           NEW w, w = WithEntry(vol, at, e)
    PROVE  Single(w, D \cup {c})
<1>0. Forest(vol, D) /\ vol \in Image /\ Linked(vol.fat)
  BY DEF Single, Forest
<1>1. /\ PutIs(vol, w, D, s, at, e) /\ NamesApart(w, D) /\ ~IsDot(EntryAt(vol, at).name)
      /\ at \in SlotsOf(vol, s)
      /\ \A t \in D : \A bt \in Live(vol, t) :
                 bt # at /\ bt \in Live(w, t) /\ EntryAt(w, bt) = EntryAt(vol, bt)
      /\ \A t \in D : \A bt \in Live(w, t) : bt \in Live(vol, t) \/ (t = s /\ bt = at)
      /\ at \in Live(w, s)
  BY <1>0, Added
<1>2. EntryAt(w, at) = e /\ w.fat = vol.fat /\ w.dirbase = vol.dirbase /\ w \in Image
      /\ FreeIsBlank(w) /\ DotsInPlace(w, D) /\ \A t \in D : HasTable(w, t) /\ Ordered(w, t)
  BY <1>1 DEF PutIs
<1>3. c \in Clusters /\ c # 0 /\ c \notin D /\ c # vol.dirbase /\ Proper(vol.fat, c)
      /\ \A t \in D : c \notin SectorsOf(vol, t)
  BY <1>0, LooseHead, ClustersAre DEF Loose, Owner
<1>4. w.tab[c] = vol.tab[c]
  <2>1. at[1] # c /\ c \in Tables
    BY <1>1, <1>3, SizesAre DEF SlotsOf
  <2> QED BY <1>1, <2>1 DEF PutIs
<1>5. /\ HasTable(w, c) /\ Ordered(w, c) /\ Live(w, c) = {} /\ BackFrom(w, s, c)
      /\ \A bt \in SlotsOf(w, c) :
                 IsDot(EntryAt(w, bt).name) => bt \in {<<c, 0>>, <<c, 1>>}
  <2>1. Linked(w.fat) /\ Proper(w.fat, c) /\ w.fat[c] = Eoc /\ w.tab[c] = DotEntries(c, s)
    BY <1>0, <1>2, <1>3, <1>4
  <2>2. w \in Image
    BY <1>2
  <2>3. /\ HasTable(w, c) /\ Ordered(w, c) /\ Live(w, c) = {} /\ BackFrom(w, s, c)
    BY <2>1, <2>2, DotTable
  <2>4. DotsIn(w, c)
    BY <2>1, <2>2, DotTable
  <2> QED BY <2>3, <2>4 DEF DotsIn
<1> DEFINE E == D \cup {c}
<1>6. HeadsProper(w, E)
  BY <1>0, <1>1, <1>2, <1>3, <1>5 DEF HeadsProper, Forest
<1>7. NamesApart(w, E) /\ DotsInPlace(w, E)
  BY <1>1, <1>2, <1>3, <1>5 DEF NamesApart, DotsInPlace
<1>8. IsTree(w, E)
  <2>1. 0 \in E /\ E \subseteq {0} \cup Clusters
    BY <1>0, <1>3 DEF Forest, IsTree
  <2>2. \A t \in E : \A bt \in Live(w, t) : EntryAt(w, bt).dir => EntryAt(w, bt).clust \in E
    BY <1>0, <1>1, <1>2, <1>5 DEF Forest, IsTree
  <2>3. ASSUME NEW Y \in SUBSET E, 0 \in Y,
               \A t \in Y : \A bt \in Live(w, t) : EntryAt(w, bt).dir => EntryAt(w, bt).clust \in Y
        PROVE  Y = E
    <3> DEFINE Z == Y \cap D
    <3>1. \A t \in Z : \A bt \in Live(vol, t) : EntryAt(vol, bt).dir => EntryAt(vol, bt).clust \in Z
      BY <1>0, <1>1, <2>3 DEF Forest, IsTree
    <3>2. Z \in SUBSET D /\ 0 \in Z
      BY <2>3, <1>0 DEF Forest, IsTree
    <3>3. Z = D
      <4> HIDE DEF Z
      <4> QED BY <1>0, <3>1, <3>2 DEF Forest, IsTree
    <3>4. s \in Y
      BY <3>3
    <3>5. c \in Y
      BY <1>1, <1>2, <2>3, <3>4
    <3> QED BY <3>3, <3>5
  <2>4. \A t \in E : HasTable(w, t) /\ Ordered(w, t)
    BY <1>2, <1>5
  <2> HIDE DEF E
  <2> QED BY <2>1, <2>2, <2>3, <2>4 DEF IsTree
<1>9. NamedOnce(w, E)
  <2> SUFFICES ASSUME NEW t \in E, NEW u \in E, NEW x \in Live(w, t), NEW y \in Live(w, u),
                      EntryAt(w, x).clust = EntryAt(w, y).clust, EntryAt(w, x).clust \in Clusters
               PROVE  x = y
    BY DEF NamedOnce
  <2>1. t \in D /\ u \in D
    BY <1>5
  <2>2. \A d \in D : \A bt \in Live(vol, d) : EntryAt(vol, bt).clust # c
    BY <1>3 DEF Loose, Owner
  <2>3. CASE x \in Live(vol, t) /\ y \in Live(vol, u)
    BY <1>1, <2>1, <2>3 DEF Single, NamedOnce
  <2>4. CASE x \notin Live(vol, t) \/ y \notin Live(vol, u)
    BY <1>1, <1>2, <2>1, <2>2, <2>4
  <2> QED BY <2>3, <2>4
<1>10. AllBack(w, E)
  <2> SUFFICES ASSUME NEW t \in E, NEW x \in Live(w, t), EntryAt(w, x).dir
               PROVE  BackFrom(w, t, EntryAt(w, x).clust)
    BY DEF AllBack
  <2>1. t \in D
    BY <1>5
  <2>2. CASE x \in Live(vol, t)
    <3>1. EntryAt(w, x) = EntryAt(vol, x)
      BY <1>1, <2>1, <2>2
    <3>2. BackFrom(vol, t, EntryAt(vol, x).clust)
      BY <2>1, <2>2, <3>1 DEF Single, AllBack
    <3>3. EntryAt(vol, x).clust \in D /\ EntryAt(vol, x).clust # 0
      BY <1>0, <2>1, <2>2, <3>1, LiveTyped
    <3> QED BY <1>0, <1>1, <3>1, <3>2, <3>3, BackKept
  <2>3. CASE x \notin Live(vol, t)
    BY <1>1, <1>2, <1>5, <2>1, <2>3
  <2> QED BY <2>2, <2>3
<1> HIDE DEF E
<1>11. Forest(w, E)
  BY <1>0, <1>2, <1>6, <1>7, <1>8 DEF Forest
<1> QED BY <1>9, <1>10, <1>11 DEF Single, E

\* A live entry is removed.
LEMMA Removed ==
    ASSUME NEW vol, NEW D, Forest(vol, D), NEW s \in D, NEW at \in Live(vol, s),
           NEW w, w = WithEntry(vol, at, Deleted)
    PROVE  /\ PutIs(vol, w, D, s, at, Deleted) /\ w.fat = vol.fat /\ w.dirbase = vol.dirbase
           /\ w.raw = vol.raw
           /\ \A t \in D : \A bt \in Live(w, t) :
                 bt # at /\ bt \in Live(vol, t) /\ EntryAt(w, bt) = EntryAt(vol, bt)
           /\ \A t \in D : \A bt \in Live(vol, t) :
                 bt # at => bt \in Live(w, t) /\ EntryAt(w, bt) = EntryAt(vol, bt)
           /\ HeadsProper(w, D) /\ NamesApart(w, D) /\ (NamedOnce(vol, D) => NamedOnce(w, D))
           /\ (AllBack(vol, D) => AllBack(w, D))
<1>1. vol \in Image /\ Linked(vol.fat) /\ HasTable(vol, s) /\ Ordered(vol, s)
      /\ at \in SlotsOf(vol, s) /\ EntryAt(vol, at) # Unused /\ ~IsDot(EntryAt(vol, at).name)
  BY LiveTyped DEF Forest
<1>2. Deleted \in Entry /\ Deleted.name = "E5"
  BY DEF Deleted, Unused, Entry
<1>3. Deleted.name # "0" /\ ~IsDot(Deleted.name) /\ Deleted.name \notin Names
  BY <1>2, NamesAssumption DEF IsDot, Dots, Marks
<1>4. PutIs(vol, w, D, s, at, Deleted)
  BY <1>1, <1>2, <1>3, LiveBefore, PutAt
<1>5. Live(w, s) = Live(vol, s) \ {at}
  BY <1>3, <1>4 DEF PutIs
<1>6. ASSUME NEW t \in D, NEW bt \in Live(w, t)
      PROVE  bt # at /\ bt \in Live(vol, t) /\ EntryAt(w, bt) = EntryAt(vol, bt)
  <2>1. bt \in Live(vol, t)
    BY <1>4, <1>5 DEF PutIs
  <2>2. bt \in SlotsOf(vol, t) /\ bt \in Tables \X (0..(PerSector - 1))
    BY <2>1, LiveTyped
  <2>3. bt # at
    BY <1>1, <1>5, <2>2, SlotsApart
  <2> QED BY <1>4, <2>1, <2>2, <2>3 DEF PutIs
<1>7. ASSUME NEW t \in D, NEW bt \in Live(vol, t), bt # at
      PROVE  bt \in Live(w, t) /\ EntryAt(w, bt) = EntryAt(vol, bt)
  <2>1. bt \in Live(w, t)
    BY <1>4, <1>5, <1>7 DEF PutIs
  <2> QED BY <1>6, <2>1
<1>8. w.fat = vol.fat /\ w.dirbase = vol.dirbase /\ w.raw = vol.raw
  BY <1>4 DEF PutIs
<1>9. HeadsProper(w, D)
  BY <1>6, <1>8 DEF HeadsProper, Forest
<1>10. NamesApart(w, D)
  BY <1>6 DEF NamesApart, Forest
<1>11. NamedOnce(vol, D) => NamedOnce(w, D)
  BY <1>6 DEF NamedOnce
<1>12. ASSUME AllBack(vol, D), NEW t \in D, NEW x \in Live(w, t), EntryAt(w, x).dir
       PROVE  BackFrom(w, t, EntryAt(w, x).clust)
  <2>1. x \in Live(vol, t) /\ EntryAt(w, x) = EntryAt(vol, x)
    BY <1>6
  <2>2. BackFrom(vol, t, EntryAt(vol, x).clust)
    BY <1>12, <2>1 DEF AllBack
  <2>3. EntryAt(vol, x).clust \in D /\ EntryAt(vol, x).clust # 0
    BY <1>12, <2>1, LiveTyped
  <2> QED BY <1>1, <1>4, <2>1, <2>2, <2>3, BackKept
<1> QED BY <1>4, <1>6, <1>7, <1>8, <1>9, <1>10, <1>11, <1>12 DEF AllBack

\* What is left is a forest if it is a tree.
LEMMA RemovedTree ==
    ASSUME NEW vol, NEW D, Forest(vol, D), NEW s \in D, NEW at \in Live(vol, s),
           NEW w, w = WithEntry(vol, at, Deleted),
           NEW E \in SUBSET D, 0 \in E,
           \A t \in E : \A bt \in Live(w, t) : EntryAt(w, bt).dir => EntryAt(w, bt).clust \in E,
           \A Y \in SUBSET E :
               0 \in Y /\ (\A t \in Y : \A bt \in Live(w, t) :
                               EntryAt(w, bt).dir => EntryAt(w, bt).clust \in Y)
               => Y = E
    PROVE  Forest(w, E) /\ (Single(vol, D) => Single(w, E))
<1>1. /\ PutIs(vol, w, D, s, at, Deleted) /\ w.fat = vol.fat
      /\ HeadsProper(w, D) /\ NamesApart(w, D) /\ (NamedOnce(vol, D) => NamedOnce(w, D))
      /\ (AllBack(vol, D) => AllBack(w, D))
  BY Removed
<1>2. w \in Image /\ Linked(w.fat) /\ FreeIsBlank(w) /\ DotsInPlace(w, D)
      /\ \A t \in D : HasTable(w, t) /\ Ordered(w, t)
  BY <1>1 DEF PutIs, Forest
<1>3. IsTree(w, E)
  BY <1>2 DEF IsTree, Forest
<1>4. HeadsProper(w, E) /\ NamesApart(w, E) /\ DotsInPlace(w, E)
  BY <1>1, <1>2 DEF HeadsProper, NamesApart, DotsInPlace
<1>5. Single(vol, D) => NamedOnce(w, E) /\ AllBack(w, E)
  BY <1>1 DEF Single, NamedOnce, AllBack
<1> QED BY <1>2, <1>3, <1>4, <1>5 DEF Forest, Single

LEMMA RemovedFile ==
    ASSUME NEW vol, NEW D, Single(vol, D), NEW s \in D, NEW at \in Live(vol, s),
           ~EntryAt(vol, at).dir,
           NEW w, w = WithEntry(vol, at, Deleted)
    PROVE  /\ Single(w, D)
           /\ EntryAt(vol, at).clust \in Clusters => Loose(w, D, EntryAt(vol, at).clust)
<1>0. Forest(vol, D)
  BY DEF Single
<1>1. /\ w.fat = vol.fat /\ w.dirbase = vol.dirbase
      /\ \A t \in D : \A bt \in Live(w, t) :
                 bt # at /\ bt \in Live(vol, t) /\ EntryAt(w, bt) = EntryAt(vol, bt)
      /\ \A t \in D : \A bt \in Live(vol, t) :
                 bt # at => bt \in Live(w, t) /\ EntryAt(w, bt) = EntryAt(vol, bt)
  BY <1>0, Removed
<1>2. \A t \in D : \A bt \in Live(w, t) : EntryAt(w, bt).dir => EntryAt(w, bt).clust \in D
  BY <1>0, <1>1 DEF Forest, IsTree
<1>3. ASSUME NEW Y \in SUBSET D, 0 \in Y,
             \A t \in Y : \A bt \in Live(w, t) : EntryAt(w, bt).dir => EntryAt(w, bt).clust \in Y
      PROVE  Y = D
  <2>1. \A t \in Y : \A bt \in Live(vol, t) : EntryAt(vol, bt).dir => EntryAt(vol, bt).clust \in Y
    BY <1>1, <1>3
  <2> QED BY <1>0, <1>3, <2>1 DEF Forest, IsTree
<1>4. Single(w, D)
  <2>1. 0 \in D
    BY <1>0 DEF Forest, IsTree
  <2> QED BY <1>0, <1>2, <1>3, <2>1, RemovedTree
<1>5. ASSUME EntryAt(vol, at).clust \in Clusters PROVE Loose(w, D, EntryAt(vol, at).clust)
  <2>1. Proper(w.fat, EntryAt(vol, at).clust) /\ EntryAt(vol, at).clust # w.dirbase
    BY <1>0, <1>1, <1>5 DEF Forest, HeadsProper
  <2>2. \A t \in D : \A bt \in Live(w, t) : EntryAt(w, bt).clust # EntryAt(vol, at).clust
    BY <1>1, <1>5 DEF Single, NamedOnce
  <2> QED BY <2>1, <2>2 DEF Loose, Owner
<1> QED BY <1>4, <1>5

LEMMA RemovedDir ==
    ASSUME NEW vol, NEW D, Single(vol, D), NEW s \in D, NEW at \in Live(vol, s),
           EntryAt(vol, at).dir, NEW c, c = EntryAt(vol, at).clust, Live(vol, c) = {},
           NEW w, w = WithEntry(vol, at, Deleted)
    PROVE  Single(w, D \ {c}) /\ Loose(w, D \ {c}, c) /\ c \in D /\ c # 0 /\ s # c
<1>0. Forest(vol, D)
  BY DEF Single
<1>1. /\ w.fat = vol.fat /\ w.dirbase = vol.dirbase
      /\ \A t \in D : \A bt \in Live(w, t) :
                 bt # at /\ bt \in Live(vol, t) /\ EntryAt(w, bt) = EntryAt(vol, bt)
      /\ \A t \in D : \A bt \in Live(vol, t) :
                 bt # at => bt \in Live(w, t) /\ EntryAt(w, bt) = EntryAt(vol, bt)
  BY <1>0, Removed
<1>2. c \in D /\ c # 0 /\ c \in Clusters /\ s # c
  BY <1>0, LiveTyped
<1>3. \A t \in D : \A bt \in Live(w, t) : EntryAt(w, bt).clust # c
  BY <1>1, <1>2 DEF Single, NamedOnce
<1> DEFINE E == D \ {c}
<1>4. \A t \in E : \A bt \in Live(w, t) : EntryAt(w, bt).dir => EntryAt(w, bt).clust \in E
  BY <1>0, <1>1, <1>3 DEF Forest, IsTree
<1>5. ASSUME NEW Y \in SUBSET E, 0 \in Y,
             \A t \in Y : \A bt \in Live(w, t) : EntryAt(w, bt).dir => EntryAt(w, bt).clust \in Y
      PROVE  Y = E
  <2> DEFINE Z == Y \cup {c}
  <2>1. \A t \in Z : \A bt \in Live(vol, t) : EntryAt(vol, bt).dir => EntryAt(vol, bt).clust \in Z
    BY <1>1, <1>5
  <2>2. Z \in SUBSET D /\ 0 \in Z
    BY <1>2, <1>5
  <2>3. Z = D
    <3> HIDE DEF Z
    <3> QED BY <1>0, <2>1, <2>2 DEF Forest, IsTree
  <2> QED BY <1>5, <2>3
<1>6. Single(w, E)
  <2>1. 0 \in E /\ E \in SUBSET D
    BY <1>0, <1>2 DEF Forest, IsTree
  <2> HIDE DEF E
  <2> QED BY <1>0, <1>4, <1>5, <2>1, RemovedTree
<1>7. Loose(w, E, c)
  <2>1. Proper(w.fat, c) /\ c # w.dirbase
    BY <1>0, <1>1, <1>2 DEF Forest, HeadsProper
  <2> QED BY <1>3, <2>1 DEF Loose, Owner
<1> QED BY <1>2, <1>6, <1>7

\* The start cluster of a file's entry is set.
UpdatedIs(vol, w, D, at, e, c) ==
    /\ Single(w, D) /\ w.fat = vol.fat /\ w.raw = vol.raw /\ w.dirbase = vol.dirbase
    /\ \A t \in D : Live(w, t) = Live(vol, t)
    /\ \A t \in D : \A bt \in Live(vol, t) : bt # at => EntryAt(w, bt) = EntryAt(vol, bt)
    /\ EntryAt(w, at) = e /\ e.clust = c /\ e.dir = FALSE

LEMMA Updated ==
    ASSUME NEW vol, NEW D, Single(vol, D), NEW s \in D, NEW at \in Live(vol, s),
           ~EntryAt(vol, at).dir, NEW c \in Clusters \cup {0, Bad},
           c \in Clusters => /\ Proper(vol.fat, c) /\ c # vol.dirbase
                             /\ \A t \in D : \A bt \in Live(vol, t) :
                                   bt # at => EntryAt(vol, bt).clust # c,
           NEW e, e = WithStart(EntryAt(vol, at), c),
           NEW w, w = WithEntry(vol, at, e)
    PROVE  UpdatedIs(vol, w, D, at, e, c)
<1> USE DEF WithStart
<1>0. Forest(vol, D)
  BY DEF Single
<1> DEFINE o == EntryAt(vol, at)
<1>1. /\ vol \in Image /\ Linked(vol.fat) /\ HasTable(vol, s) /\ Ordered(vol, s)
      /\ at \in SlotsOf(vol, s) /\ o # Unused /\ ~IsDot(o.name)
      /\ o \in Entry /\ o.name \in Names /\ o.dir \in BOOLEAN
  BY <1>0, LiveTyped, EntryTypes DEF Forest
<1>2. o \in [name : Names, dir : {FALSE}, clust : Clusters \cup {0, Bad}]
  <2>1. o \notin {Unused, Deleted}
    BY <1>1, NamesAssumption DEF Unused, Deleted, Marks
  <2> HIDE DEF o
  <2> QED BY <1>1, <2>1 DEF Entry, IsDot, o
<1>3. e \in [name : Names, dir : {FALSE}, clust : Clusters \cup {0, Bad}]
      /\ e.name = o.name /\ e.clust = c /\ e.dir = FALSE
  <2>1. e = [o EXCEPT !.clust = c]
    OBVIOUS
  <2> HIDE DEF o
  <2> QED BY <1>2, <2>1
<1>4. e \in Entry /\ e.name = o.name /\ e.dir = FALSE /\ e.clust = c
  BY <1>3 DEF Entry
<1>5. e.name # "0" /\ ~IsDot(e.name) /\ e.name \in Names
  BY <1>1, <1>4, NamesAssumption DEF Marks
<1> HIDE DEF o
<1>6. PutIs(vol, w, D, s, at, e)
  BY <1>0, <1>1, <1>4, <1>5, LiveBefore, PutAt DEF o
<1>7. \A t \in D : Live(w, t) = Live(vol, t)
  BY <1>5, <1>6 DEF PutIs
<1>8. \A t \in D : \A bt \in Live(vol, t) : bt # at => EntryAt(w, bt) = EntryAt(vol, bt)
  BY <1>0, <1>6, LiveTyped DEF PutIs
<1>9. w \in Image /\ w.fat = vol.fat /\ w.raw = vol.raw /\ w.dirbase = vol.dirbase
      /\ FreeIsBlank(w) /\ DotsInPlace(w, D) /\ EntryAt(w, at) = e
      /\ \A t \in D : HasTable(w, t) /\ Ordered(w, t)
  BY <1>6 DEF PutIs
<1>10. HeadsProper(w, D)
  <2> SUFFICES ASSUME NEW t \in D, NEW bt \in Live(vol, t), EntryAt(w, bt).clust \in Clusters
               PROVE  Proper(vol.fat, EntryAt(w, bt).clust) /\ EntryAt(w, bt).clust # vol.dirbase
    BY <1>7, <1>9 DEF HeadsProper
  <2>1. CASE bt = at
    <3>1. EntryAt(w, bt).clust = c
      BY <1>4, <1>9, <2>1
    <3> QED BY <3>1
  <2>2. CASE bt # at
    <3>1. EntryAt(w, bt) = EntryAt(vol, bt)
      BY <1>8, <2>2
    <3> QED BY <1>0, <3>1 DEF HeadsProper, Forest
  <2> QED BY <2>1, <2>2
<1>11. NamesApart(w, D)
  <2>1. \A t \in D : \A bt \in Live(vol, t) : EntryAt(w, bt).name = EntryAt(vol, bt).name
    BY <1>4, <1>8, <1>9 DEF o
  <2> QED BY <1>0, <1>7, <2>1 DEF NamesApart, Forest
<1>12. IsTree(w, D)
  <2>1. \A t \in D : \A bt \in Live(vol, t) :
            (EntryAt(w, bt).dir => EntryAt(vol, bt).dir /\ EntryAt(w, bt) = EntryAt(vol, bt))
            /\ (EntryAt(vol, bt).dir => EntryAt(w, bt) = EntryAt(vol, bt))
    BY <1>4, <1>8, <1>9
  <2>2. 0 \in D /\ D \subseteq {0} \cup Clusters
    BY <1>0 DEF Forest, IsTree
  <2>3. \A t \in D : \A bt \in Live(w, t) : EntryAt(w, bt).dir => EntryAt(w, bt).clust \in D
    BY <1>0, <1>7, <2>1 DEF Forest, IsTree
  <2>4. ASSUME NEW Y \in SUBSET D, 0 \in Y,
               \A t \in Y : \A bt \in Live(w, t) : EntryAt(w, bt).dir => EntryAt(w, bt).clust \in Y
        PROVE  Y = D
    <3>1. \A t \in Y : \A bt \in Live(vol, t) : EntryAt(vol, bt).dir => EntryAt(vol, bt).clust \in Y
      BY <1>7, <2>1, <2>4
    <3> QED BY <1>0, <2>4, <3>1 DEF Forest, IsTree
  <2> QED BY <1>9, <2>2, <2>3, <2>4 DEF IsTree
<1>13. NamedOnce(w, D)
  <2> SUFFICES ASSUME NEW t \in D, NEW u \in D, NEW x \in Live(vol, t), NEW y \in Live(vol, u),
                      EntryAt(w, x).clust = EntryAt(w, y).clust, EntryAt(w, x).clust \in Clusters
               PROVE  x = y
    BY <1>7 DEF NamedOnce
  <2>1. CASE x # at /\ y # at
    BY <1>8, <2>1 DEF Single, NamedOnce
  <2>2. CASE x = at /\ y # at
    <3>1. EntryAt(w, x).clust = c /\ EntryAt(w, y) = EntryAt(vol, y)
      BY <1>4, <1>8, <1>9, <2>2
    <3> QED BY <2>2, <3>1
  <2>3. CASE x # at /\ y = at
    <3>1. EntryAt(w, y).clust = c /\ EntryAt(w, x) = EntryAt(vol, x)
      BY <1>4, <1>8, <1>9, <2>3
    <3> QED BY <2>3, <3>1
  <2> QED BY <2>1, <2>2, <2>3
<1>14. AllBack(w, D)
  <2> SUFFICES ASSUME NEW t \in D, NEW x \in Live(vol, t), EntryAt(w, x).dir
               PROVE  BackFrom(w, t, EntryAt(w, x).clust)
    BY <1>7 DEF AllBack
  <2>1. EntryAt(w, x) = EntryAt(vol, x)
    BY <1>4, <1>8, <1>9
  <2>2. BackFrom(vol, t, EntryAt(vol, x).clust)
    BY <2>1 DEF Single, AllBack
  <2>3. EntryAt(vol, x).clust \in D /\ EntryAt(vol, x).clust # 0
    BY <1>0, <2>1, LiveTyped
  <2> QED BY <1>0, <1>1, <1>6, <2>1, <2>2, <2>3, BackKept DEF o
<1>15. Forest(w, D)
  BY <1>0, <1>9, <1>10, <1>11, <1>12 DEF Forest
<1> QED BY <1>4, <1>7, <1>8, <1>9, <1>13, <1>14, <1>15 DEF Single, UpdatedIs

----------------------------------------------------------------------------
(* The three changes of a rename *)

\* One object has two names, at in table s and bt in table u.
Doubled(vol, D, s, at, u, bt) ==
    /\ Forest(vol, D) /\ s \in D /\ u \in D /\ at \in Live(vol, s) /\ bt \in Live(vol, u)
    /\ at # bt /\ EntryAt(vol, at).clust = EntryAt(vol, bt).clust
    /\ EntryAt(vol, at).clust \in Clusters
    /\ \A t, v \in D : \A x \in Live(vol, t), y \in Live(vol, v) :
          EntryAt(vol, x).clust = EntryAt(vol, y).clust /\ EntryAt(vol, x).clust \in Clusters
          => x = y \/ (x = at /\ y = bt) \/ (x = bt /\ y = at)

\* From a directory of U its parent is in U.
UpClosed(vol, D, U) ==
    \A s \in D : \A at \in Live(vol, s) :
        EntryAt(vol, at).dir /\ EntryAt(vol, at).clust \in U => s \in U

\* The second name.
LEMMA NamedTwice ==
    ASSUME NEW vol, NEW D, Single(vol, D), NEW s \in D, NEW at \in Live(vol, s),
           NEW u \in D, NEW bt, FirstFree(vol, u, bt), NEW n \in Names,
           \A x \in Live(vol, u) : EntryAt(vol, x).name # n,
           NEW e, e = WithName(EntryAt(vol, at), n),
           NEW w, w = WithEntry(vol, bt, e)
    PROVE  /\ e \in Entry /\ e.dir = EntryAt(vol, at).dir /\ e.clust = EntryAt(vol, at).clust
           /\ e.name = n
           /\ PutIs(vol, w, D, u, bt, e) /\ Forest(w, D)
           /\ e.clust \in Clusters => Doubled(w, D, s, at, u, bt)
           /\ e.clust \notin Clusters => Single(w, D)
<1> USE DEF WithName
<1>0. Forest(vol, D)
  BY DEF Single
<1> DEFINE o == EntryAt(vol, at)
<1>1. o \in Entry /\ o.name \in Names /\ o.dir \in BOOLEAN
      /\ (o.dir => o.clust \in Clusters /\ o.clust \in D /\ o.clust # 0)
  BY <1>0, LiveTyped, EntryTypes
<1>2. o \in [name : Names, dir : {FALSE}, clust : Clusters \cup {0, Bad}]
            \cup [name : Names, dir : {TRUE}, clust : Clusters]
  <2>1. o \notin {Unused, Deleted} /\ o.name \notin Dots
    BY <1>1, NamesAssumption DEF Unused, Deleted, Marks
  <2> HIDE DEF o
  <2> QED BY <1>1, <2>1 DEF Entry
<1>3. e \in Entry /\ e.dir = o.dir /\ e.clust = o.clust /\ e.name = n
  <2>1. e \in [name : Names, dir : {FALSE}, clust : Clusters \cup {0, Bad}]
            \cup [name : Names, dir : {TRUE}, clust : Clusters]
        /\ e.dir = o.dir /\ e.clust = o.clust /\ e.name = n
    <3> HIDE DEF o
    <3>1. e = [o EXCEPT !.name = n]
      BY DEF o
    <3> QED BY <1>2, <3>1
  <2> QED BY <2>1 DEF Entry
<1>4. e.clust \in Clusters => Proper(vol.fat, e.clust) /\ e.clust # vol.dirbase
  BY <1>0, <1>3 DEF Forest, HeadsProper
<1>5. /\ PutIs(vol, w, D, u, bt, e) /\ bt \notin Live(vol, u)
      /\ Live(w, u) = Live(vol, u) \cup {bt}
      /\ \A t \in D : \A x \in Live(vol, t) :
            x # bt /\ x \in Live(w, t) /\ EntryAt(w, x) = EntryAt(vol, x)
      /\ \A t \in D : \A x \in Live(w, t) : x \in Live(vol, t) \/ (t = u /\ x = bt)
  <2>1. e \in Entry /\ e.name \in Names /\ \A x \in Live(vol, u) : EntryAt(vol, x).name # e.name
    BY <1>3
  <2> HIDE DEF o
  <2>5. w = WithEntry(vol, bt, e) /\ u \in D /\ FirstFree(vol, u, bt)
    OBVIOUS
  <2>2. PutIs(vol, w, D, u, bt, e) /\ bt \notin Live(vol, u)
        /\ Live(w, u) = Live(vol, u) \cup {bt}
    BY ONLY <1>0, <2>1, <2>5, Added
  <2>3. \A t \in D : \A x \in Live(vol, t) :
            x # bt /\ x \in Live(w, t) /\ EntryAt(w, x) = EntryAt(vol, x)
    BY ONLY <1>0, <2>1, <2>5, Added
  <2>4. \A t \in D : \A x \in Live(w, t) : x \in Live(vol, t) \/ (t = u /\ x = bt)
    BY ONLY <1>0, <2>1, <2>5, Added
  <2> QED BY <2>2, <2>3, <2>4
<1>6. Forest(w, D)
  BY <1>0, <1>1, <1>3, <1>4, AddedName
<1>7. EntryAt(w, bt) = e
  BY <1>5 DEF PutIs
<1>8. ASSUME e.clust \in Clusters PROVE Doubled(w, D, s, at, u, bt)
  <2>1. ASSUME NEW t \in D, NEW v \in D, NEW x \in Live(w, t), NEW y \in Live(w, v),
               EntryAt(w, x).clust = EntryAt(w, y).clust, EntryAt(w, x).clust \in Clusters
        PROVE  x = y \/ (x = at /\ y = bt) \/ (x = bt /\ y = at)
    <3>1. CASE x # bt /\ y # bt
      BY <1>5, <2>1, <3>1 DEF Single, NamedOnce
    <3>2. CASE x = bt /\ y # bt
      <4>1. y \in Live(vol, v) /\ EntryAt(vol, y).clust = o.clust
        BY <1>3, <1>5, <1>7, <2>1, <3>2
      <4> QED BY <1>3, <1>8, <3>2, <4>1 DEF Single, NamedOnce
    <3>3. CASE x # bt /\ y = bt
      <4>1. x \in Live(vol, t) /\ EntryAt(vol, x).clust = o.clust
        BY <1>3, <1>5, <1>7, <2>1, <3>3
      <4> QED BY <1>3, <1>8, <3>3, <4>1 DEF Single, NamedOnce
    <3> QED BY <3>1, <3>2, <3>3
  <2>2. at \in Live(w, s) /\ at # bt /\ bt \in Live(w, u) /\ EntryAt(w, at) = o
    BY <1>5
  <2>3. EntryAt(w, at).clust = EntryAt(w, bt).clust /\ EntryAt(w, at).clust \in Clusters
    BY <1>3, <1>7, <1>8, <2>2
  <2> HIDE DEF o
  <2> QED BY <1>6, <2>1, <2>2, <2>3 DEF Doubled
<1>9. ASSUME e.clust \notin Clusters PROVE Single(w, D)
  <2>1. ~e.dir
    BY <1>1, <1>3, <1>9
  <2> QED BY <1>3, <1>9, <2>1, AddedFile
<1> QED BY <1>3, <1>5, <1>6, <1>8, <1>9

\* ".." of a directory is pointed to another parent.
RepointedIs(vol, w, D, u, c) ==
    /\ Forest(w, D) /\ BackFrom(w, u, c) /\ w.raw = vol.raw
    /\ \A x \in D : Live(w, x) = Live(vol, x)
    /\ \A x \in D : \A at \in Live(vol, x) : EntryAt(w, at) = EntryAt(vol, at)
    /\ \A x \in Tables : x # c => w.tab[x] = vol.tab[x]
    /\ w.fat = vol.fat /\ w.dirbase = vol.dirbase

LEMMA Repointed ==
    ASSUME NEW vol, NEW D, Forest(vol, D), NEW c \in D, c # 0, NEW u \in D, NEW t,
           BackFrom(vol, t, c),
           NEW w, w = WithEntry(vol, <<c, 1>>, Dir("..", u))
    PROVE  RepointedIs(vol, w, D, u, c)
<1> DEFINE at == <<c, 1>>
           e == Dir("..", u)
<1>1. c \in SectorsOf(vol, c) /\ 1 \in 0..(PerSector - 1) /\ 0 \in 0..(PerSector - 1) /\ c \in Tables
  BY FirstSector, SizesAre, DirProper
<1>2. at \in SlotsOf(vol, c) /\ at[1] = c /\ at[2] = 1
  BY <1>1 DEF SlotsOf
<1>3. EntryAt(vol, at) = Dir("..", t)
  BY DEF BackFrom, EntryAt
<1>4. EntryAt(vol, at) # Unused /\ IsDot(EntryAt(vol, at).name)
  BY <1>3 DEF Dir, Unused, IsDot, Dots
<1>5. vol \in Image /\ Linked(vol.fat) /\ HasTable(vol, c) /\ Ordered(vol, c)
  BY DEF Forest, IsTree
<1>6. NoneBefore(vol, c, at)
  <2> HIDE DEF at
  <2> QED BY <1>2, <1>4, <1>5, LiveBefore
<1>7. e \in Entry /\ e.name # "0" /\ e.name \notin Names
  <2>1. u \in Clusters \cup {0}
    BY DEF Forest, IsTree
  <2>2. e \in [name : Dots, dir : {TRUE}, clust : Clusters \cup {0}] /\ e.name = ".."
    BY <2>1 DEF Dir, Dots
  <2>3. ".." \notin Names
    BY NamesAssumption DEF Dots
  <2> HIDE DEF e
  <2> QED BY <2>2, <2>3 DEF Entry
<1>8. w = WithEntry(vol, at, e)
  BY <1>2
<1> HIDE DEF at, e
<1>9. PutIs(vol, w, D, c, at, e)
  BY <1>2, <1>6, <1>7, <1>8, PutAt DEF at
<1>10. at \notin Live(vol, c)
  BY <1>4 DEF Live
<1>11. \A x \in D : Live(w, x) = Live(vol, x)
  BY <1>7, <1>9, <1>10 DEF PutIs
<1>12. ASSUME NEW x \in D, NEW bt \in Live(vol, x) PROVE EntryAt(w, bt) = EntryAt(vol, bt)
  <2>1. bt \in Tables \X (0..(PerSector - 1)) /\ bt # at
    BY <1>4, LiveTyped
  <2> QED BY <1>9, <2>1 DEF PutIs
<1>13. BackFrom(w, u, c)
  <2>1. <<c, 0>> \in Tables \X (0..(PerSector - 1)) /\ <<c, 0>> # at
    BY <1>1 DEF at
  <2>2. EntryAt(w, <<c, 0>>) = EntryAt(vol, <<c, 0>>) /\ EntryAt(w, <<c, 1>>) = e
    BY <1>9, <2>1 DEF PutIs, at
  <2>3. vol.tab[c][0] = Dir(".", c)
    BY DEF BackFrom
  <2>4. w.tab[c][0] = vol.tab[c][0] /\ w.tab[c][1] = e
    BY <2>2 DEF EntryAt
  <2> QED BY <2>3, <2>4 DEF BackFrom, e
<1>14. w \in Image /\ w.fat = vol.fat /\ w.dirbase = vol.dirbase /\ w.raw = vol.raw
       /\ FreeIsBlank(w) /\ DotsInPlace(w, D) /\ (\A x \in D : Ordered(w, x))
       /\ (\A x \in Tables : x # c => w.tab[x] = vol.tab[x])
  BY <1>2, <1>9 DEF PutIs
<1>15. Forest(w, D)
  <2>1. \A d : Owner(vol, D, d) => Proper(w.fat, d)
    BY <1>14, OwnerProper
  <2>2. Linked(w.fat)
    BY <1>5, <1>14
  <2> QED BY <1>11, <1>12, <1>14, <2>1, <2>2, CoreKept
<1> QED BY <1>11, <1>12, <1>13, <1>14, <1>15 DEF RepointedIs
============================================================================
